---------------------------- MODULE MCConfigPoll ----------------------------
(* Instances of ConfigPoll: the settings pages' submissions. *)
EXTENDS ConfigPoll

CONSTANTS t1, t2, v1

Form(tuning, debugUnassigned, selected) ==
    [tuning |-> tuning, debug |-> FALSE, debugUnassigned |-> debugUnassigned,
     selected |-> selected]

\* Nothing about the settings ever changes.
NoForms == {}

\* The intervals, which are stored twice, debug mode for unassigned devices and the
\* global version selection change.
ChangeForms == {Form(t1, FALSE, None), Form(t2, TRUE, v1)}

\* No device is deleted or taken from its user.
SteadyNext ==
    /\ Next
    /\ \A d \in Device : (Registered(d) => Registered(d)') /\ (Assigned(d) => Assigned(d)')

\* Nor is it locked: the room goes to everything else a configuration consists of.
PartsSpec ==
    Init /\ [][SteadyNext /\ \A d \in Device :
                 Registered(d)' => devices'[d].lock = Unlocked]_vars

\* The admin does nothing: room for the handlers of two requests of one device.
CalmSpec == Init /\ [][Next /\ ~Admin]_vars /\ Fairness

=============================================================================
