------------------------------ MODULE Collector ------------------------------
(***************************************************************************)
(* The Screen Time collector.  Every run reads each member's daily totals  *)
(* per app and sends what was added since the totals its state file holds: *)
(* the additions are laid one after the other on a tape that begins at     *)
(* midnight, as heartbeats of the app and an idle that closes them.  An    *)
(* event's id is its place on the tape, and the server ignores ids it has. *)
(*                                                                         *)
(* One day is modelled; the tapes of several days do not touch.  App names *)
(* are numbers, in the order in which run_member sorts them.               *)
(***************************************************************************)
EXTENDS Integers, Sequences, SequencesExt

CONSTANTS
    MEMBERS,     \* the members, in the order of a run
    Apps,        \* number of apps
    MaxUsage,    \* bound on the total of an app
    Heartbeat,   \* distance of an app's heartbeats on the tape
    MaxGap,      \* what the server counts for an event at most
    BatchLimit,  \* events in one request
    Failures,    \* what may go wrong
    MaxFailures, \* bound on how often
    None

Member == ToSet(MEMBERS)
App == 1..Apps
Idle == 0
Event == [app: App \cup {Idle}, at: Nat]
Totals == [App -> 0..MaxUsage]

ASSUME CollectorAssumption ==
    /\ MEMBERS \in Seq(Member) /\ MEMBERS # <<>>
    /\ Apps \in Nat /\ MaxUsage \in Nat /\ MaxFailures \in Nat
    /\ Heartbeat \in 1..MaxGap /\ MaxGap \in Nat
    /\ BatchLimit \in Nat \ {0}
    /\ Failures \subseteq {"scrape", "request", "answer", "crash", "file"}
    /\ None \notin Totals

VARIABLES
    usage,     \* usage[m]: the totals Screen Time shows
    rows,      \* rows[m]: m's events at the server, in the order of their ids
    file,      \* the state file
    stage,     \* where the run is, "off" between runs
    turn,      \* the member the run is at, an index of MEMBERS
    sent,      \* the run's copy of the state
    outbox,    \* events still to be posted for that member
    failures,  \* failures so far
    unsaved,   \* history: totals m's rows were laid out for, and not saved, or None
    relaid     \* history: members whose rows were laid out for other totals since

runVars == <<stage, turn, sent, outbox>>
history == <<unsaved, relaid>>
vars == <<usage, rows, file, runVars, failures, history>>

TypeOK ==
    /\ usage \in [Member -> Totals] /\ file \in [Member -> Totals]
    /\ sent \in [Member -> Totals]
    /\ rows \in [Member -> Seq(Event)] /\ outbox \in Seq(Event)
    /\ stage \in {"off", "scrape", "post", "save"}
    /\ turn \in 1..Len(MEMBERS)
    /\ failures \in 0..MaxFailures
    /\ unsaved \in [Member -> Totals \cup {None}]
    /\ relaid \subseteq Member

Nothing == [m \in Member |-> [a \in App |-> 0]]

Init ==
    /\ usage = Nothing /\ file = Nothing /\ sent = Nothing
    /\ rows = [m \in Member |-> <<>>]
    /\ stage = "off" /\ turn = 1 /\ outbox = <<>>
    /\ failures = 0
    /\ unsaved = [m \in Member |-> None] /\ relaid = {}

Fail(kind) ==
    /\ kind \in Failures
    /\ failures < MaxFailures
    /\ failures' = failures + 1

\* A member uses an app; Screen Time may also take time back.
Use(m, a) ==
    /\ \E n \in 0..MaxUsage : usage' = [usage EXCEPT ![m][a] = n]
    /\ UNCHANGED <<rows, file, runVars, failures, history>>

-----------------------------------------------------------------------------
(* The layout of the tape.                                                 *)

\* What run_member adds to the tape: a total that shrank is ignored.
Appends(from, to) == {a \in App : to[a] > from[a]}

TapeStart(from) == SumFunction(from)

\* Mutant: an app's time is one event.
OneBeat(delta) == <<0>>

\* range(0, delta, HEARTBEAT_SECONDS), of a delta that is not 0
Beats(delta) == [k \in 1..((delta - 1) \div Heartbeat + 1) |-> (k - 1) * Heartbeat]

\* An app's heartbeats from its offset on, and the idle that closes them.
Segment(a, off, delta) ==
    [k \in DOMAIN Beats(delta) |-> [app |-> a, at |-> off + Beats(delta)[k]]]
        \o <<[app |-> Idle, at |-> off + delta]>>

\* The loop of synthesize, app after app: how far the tape goes and what is on it.
Layout(from, to) ==
    LET laid[a \in 0..Apps] ==
            IF a = 0 THEN [off |-> TapeStart(from), events |-> <<>>]
            ELSE IF a \notin Appends(from, to) THEN laid[a - 1]
            ELSE LET before == laid[a - 1]
                     delta == to[a] - from[a]
                 IN  [off |-> before.off + delta,
                      events |-> before.events \o Segment(a, before.off, delta)]
    IN  laid

synthesize(from, to) == Layout(from, to)[Apps].events

\* Mutant: an app's new total is added to the old one.
RecordedTwice(from, to) == [a \in App |-> from[a] + to[a]]

Recorded(from, to) ==
    [a \in App |-> IF a \in Appends(from, to) THEN to[a] ELSE from[a]]

-----------------------------------------------------------------------------
(* A run.                                                                  *)

StartRun ==
    /\ stage = "off"
    /\ stage' = "scrape" /\ turn' = 1
    /\ sent' = file
    /\ UNCHANGED <<usage, rows, file, outbox, failures, history>>

Exit == stage' = "off" /\ turn' = 1 /\ outbox' = <<>> /\ sent' = Nothing

\* The member is done, successfully or not; the run goes on with the next one.
NextMember ==
    IF turn < Len(MEMBERS)
    THEN /\ stage' = "scrape" /\ turn' = turn + 1
         /\ outbox' = <<>> /\ UNCHANGED sent
    ELSE Exit

\* Mutant: the state is saved before the events are posted.
RunMemberSaving(m) ==
    /\ stage = "scrape"
    /\ IF Appends(sent[m], usage[m]) = {}
       THEN NextMember /\ UNCHANGED file
       ELSE /\ outbox' = synthesize(sent[m], usage[m])
            /\ sent' = [sent EXCEPT ![m] = Recorded(sent[m], usage[m])]
            /\ file' = sent'
            /\ stage' = "post" /\ UNCHANGED turn
    /\ UNCHANGED <<usage, rows, failures, history>>

\* The totals count as sent in the run's state before they are.
RunMember(m) ==
    /\ stage = "scrape"
    /\ IF Appends(sent[m], usage[m]) = {}
       THEN NextMember
       ELSE /\ outbox' = synthesize(sent[m], usage[m])
            /\ sent' = [sent EXCEPT ![m] = Recorded(sent[m], usage[m])]
            /\ stage' = "post" /\ UNCHANGED turn
    /\ UNCHANGED <<usage, rows, file, failures, history>>

\* The scrape raises, or midnight passes during it.
ScrapeFails ==
    /\ stage = "scrape" /\ Fail("scrape")
    /\ NextMember
    /\ UNCHANGED <<usage, rows, file, history>>

Chunk == SubSeq(outbox, 1, IF Len(outbox) < BatchLimit THEN Len(outbox) ELSE BatchLimit)

\* InsertEvents ignores an event that is there already, also from the same chunk.
Inserted(old, chunk) ==
    LET after[i \in 0..Len(chunk)] ==
            IF i = 0 THEN old
            ELSE IF Contains(after[i - 1], chunk[i]) THEN after[i - 1]
            ELSE Append(after[i - 1], chunk[i])
    IN  after

\* The server stores the events it does not have.
Store(m) ==
    /\ rows' = [rows EXCEPT ![m] = Inserted(rows[m], Chunk)[Len(Chunk)]]
    /\ unsaved' = [unsaved EXCEPT ![m] = sent[m]]
    /\ relaid' = IF unsaved[m] \in {None, sent[m]} THEN relaid ELSE relaid \cup {m}

Post(m) ==
    /\ stage = "post"
    /\ Store(m)
    /\ outbox' = SubSeq(outbox, Len(Chunk) + 1, Len(outbox))
    /\ stage' = IF outbox' = <<>> THEN "save" ELSE "post"
    /\ UNCHANGED <<usage, file, turn, sent, failures>>

RequestFails ==
    /\ stage = "post" /\ Fail("request")
    /\ NextMember
    /\ UNCHANGED <<usage, rows, file, history>>

AnswerLost(m) ==
    /\ stage = "post" /\ Fail("answer")
    /\ Store(m)
    /\ NextMember
    /\ UNCHANGED <<usage, file>>

\* save_state writes the state of all members.
Save(m) ==
    /\ stage = "save"
    /\ file' = sent
    /\ unsaved' = [unsaved EXCEPT ![m] = None]
    /\ NextMember
    /\ UNCHANGED <<usage, rows, failures, relaid>>

Crash ==
    /\ stage # "off" /\ Fail("crash")
    /\ Exit
    /\ UNCHANGED <<usage, rows, file, history>>

\* load_state takes a missing file for an empty one: the whole day is laid out anew.
LoseFile ==
    /\ stage = "off" /\ Fail("file")
    /\ file' = Nothing
    /\ relaid' = relaid \cup {m \in Member : rows[m] # <<>>}
    /\ UNCHANGED <<usage, rows, runVars, unsaved>>

Run ==
    \/ StartRun
    \/ LET m == MEMBERS[turn] IN RunMember(m) \/ Post(m) \/ Save(m)

RunFails == ScrapeFails \/ RequestFails \/ AnswerLost(MEMBERS[turn]) \/ Crash

Next ==
    \/ Run
    \/ RunFails
    \/ LoseFile
    \/ \E m \in Member, a \in App : Use(m, a)

Spec == Init /\ [][Next]_vars

\* launchd starts the collector again and again, and a run goes on.
FairSpec == Spec /\ WF_vars(Run)

-----------------------------------------------------------------------------
(* What the server makes of the rows (reports.go).                         *)

\* Rows i and j in the order of time, sequence number and id.
Precedes(m, i, j) ==
    LET e == rows[m][i] f == rows[m][j] IN
    \/ e.at < f.at
    \/ e.at = f.at /\ e.app = Idle /\ f.app # Idle
    \/ e.at = f.at /\ (e.app = Idle <=> f.app = Idle) /\ i < j

\* An active event counts up to the next event, and MaxGap at most.
Seconds(m, i) ==
    LET later == {j \in DOMAIN rows[m] : Precedes(m, i, j)}
        ends == {rows[m][j].at : j \in later} \cup {rows[m][i].at + MaxGap}
    IN  Min(ends) - rows[m][i].at

\* CalculateUsage: the seconds of app a.
Counted(m, a) ==
    LET seconds == [i \in DOMAIN rows[m] |-> Seconds(m, i)]
    IN  SumFunctionOnSet(seconds, {i \in DOMAIN rows[m] : rows[m][i].app = a})

-----------------------------------------------------------------------------

\* The server counts for every app exactly the time the state file says was sent,
\* however the totals grew and shrank and whichever runs failed, as long as an
\* upload that was stored without being saved was repeated with the same totals.
TapeExact ==
    stage = "off" =>
    \A m \in Member \ relaid : unsaved[m] = None =>
        \A a \in App : Counted(m, a) = file[m][a]

\* collector.py: the state is saved "only after every batch succeeded", so an app
\* the state file knows has rows at the server.
SavedIsStored ==
    \A m \in Member, a \in App :
        file[m][a] > 0 => \E i \in DOMAIN rows[m] : rows[m][i].app = a

\* Once a member's totals stand the server counts them in full, although runs fail:
\* whatever failed is sent again by a later run.
UsageArrives ==
    <>[][FALSE]_usage =>
    <>[](\A m \in Member \ relaid : \A a \in App : Counted(m, a) >= usage[m][a])

=============================================================================
