------------------------------ MODULE MCUpkeep ------------------------------
(* An instance of Upkeep small enough for its liveness. *)
EXTENDS Upkeep

\* When the last upload is made the admin has withdrawn the selected version: what it
\* caused may still be under way, but nothing more is downloaded for it.
Quiet == second' = MaxSecond => desired' = None

\* Where a sound was uploaded, the selected releases are good ones.
GoodRelease == second' > 0 => desired' \in Intact \cup {None}

\* The second failure comes only where the releases are alone: no sound was uploaded
\* and no lock is on its way.  No step of the program needs a failure to go on.
SecondFailure == failures' > 1 => second' = 0 /\ decision' = "told"

QuietSpec ==
    Init /\ [][Next /\ Quiet /\ GoodRelease /\ SecondFailure]_upkeepVars /\ Fairness

=============================================================================
