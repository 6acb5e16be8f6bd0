----------------------------- MODULE MCMacAgent -----------------------------
(* Instances of MacAgent: what the server may ask for. *)
EXTENDS MacAgent

\* Unlocked; locked after a warning of a second; with another message, after a longer
\* one; locked at once, in debug mode.
SomeWants ==
    {w \in Want : IF w.locked /\ w.seconds > 0
                  THEN ~w.debug /\ (w.message = Fallback.message <=> w.seconds = 1)
                  ELSE w = [Fallback EXCEPT !.locked = w.locked, !.debug = w.locked]}

=============================================================================
