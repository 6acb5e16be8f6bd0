---------------------------- MODULE LockDelivery ----------------------------
(***************************************************************************)
(* What lock delivery promises, without requests, versions or wake-ups.    *)
(* Each device has a desired lock, which changes at will, and an engaged   *)
(* one.  A delivery samples the desired lock and later engages the sample; *)
(* a sample may be dropped, after which the next one starts from what is   *)
(* engaged.  So a device engages only locks that were desired, and only    *)
(* in the order in which they were desired.  A device that starts again    *)
(* returns to a lock it had engaged before: the last one it could save.    *)
(***************************************************************************)
CONSTANTS Device, LockValue, Unlocked

VARIABLES
    desired,    \* desired[d]: the lock the admin wants
    sampled,    \* sampled[d]: the lock on its way to d
    engaged,    \* engaged[d]: the lock d obeys
    stable      \* stable[d]: the lock d returns to when it starts again

vars == <<desired, sampled, engaged, stable>>

Init ==
    /\ desired = [d \in Device |-> Unlocked]
    /\ sampled = [d \in Device |-> Unlocked]
    /\ engaged = [d \in Device |-> Unlocked]
    /\ stable = [d \in Device |-> Unlocked]

\* One decision may concern several devices (the board's button).
Decide ==
    /\ desired' \in [Device -> LockValue]
    /\ UNCHANGED <<sampled, engaged, stable>>

Take(d) ==
    /\ sampled' = [sampled EXCEPT ![d] = desired[d]]
    /\ UNCHANGED <<desired, engaged, stable>>

\* What is engaged is saved, unless saving fails.
Engage(d) ==
    /\ engaged' = [engaged EXCEPT ![d] = sampled[d]]
    /\ stable' \in {stable, [stable EXCEPT ![d] = sampled[d]]}
    /\ UNCHANGED <<desired, sampled>>

\* Several deliveries may fail at once (the server restarts).
Drop(lost) ==
    /\ sampled' = [d \in Device |-> IF d \in lost THEN engaged[d] ELSE sampled[d]]
    /\ UNCHANGED <<desired, engaged, stable>>

\* The device starts again, or cannot start again and stays as it is.
Restart(d) ==
    /\ \/ engaged' = [engaged EXCEPT ![d] = stable[d]] /\ UNCHANGED stable
       \/ stable' = [stable EXCEPT ![d] = engaged[d]] /\ UNCHANGED engaged
    /\ sampled' = [sampled EXCEPT ![d] = engaged'[d]]
    /\ UNCHANGED desired

Next ==
    \/ Decide
    \/ \E d \in Device : Take(d) \/ Engage(d) \/ Restart(d)
    \/ \E lost \in SUBSET Device : Drop(lost)

Spec == Init /\ [][Next]_vars

=============================================================================
