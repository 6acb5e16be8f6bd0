----------------------------- MODULE EventUpload -----------------------------
(***************************************************************************)
(* How an observed event gets from a device's agent into the server's      *)
(* events table.  The service buffers it in a SQLite file, an upload loop  *)
(* posts the oldest unsent events as one batch, retrying the same batch,   *)
(* and marks them sent once the server said 200.  The server registers the *)
(* device and inserts the batch in two transactions; an event it already   *)
(* has is ignored, by its UUID.                                            *)
(*                                                                         *)
(* A handler whose client has gone runs on: both transactions are detached *)
(* from the request's cancellation.  So an old attempt may insert its      *)
(* events beside, or long after, the attempt that replaced it.             *)
(*                                                                         *)
(* An event is named by the sequence number its device gave it.            *)
(***************************************************************************)
EXTENDS Naturals, FiniteSets

CONSTANTS
    Device,      \* client installations, named by their client_uuid
    Handler,     \* batch requests the server may be serving at once
    BatchSize,   \* most events of one batch
    MaxTries,    \* attempts of one PostEvents call (4 in the code)
    MaxEvents,   \* bound on the events of a device
    MaxId,       \* bound on devices.id beyond which no device is deleted
    MaxFailures, \* bound on lost connections, failed transactions, restarts
    None

ASSUME UploadAssumption ==
    /\ None \notin Handler \cup Device
    /\ BatchSize \in Nat \ {0}
    /\ MaxTries \in Nat \ {0}
    /\ MaxEvents \in Nat /\ MaxId \in Nat /\ MaxFailures \in Nat

VARIABLES
    next,       \* next[d]: sequence numbers given out, in the metadata table
    buffered,   \* buffered[d]: the rows of d's buffer
    marked,     \* marked[d]: those with a sent_at_utc
    phase,      \* phase[d]: d's upload loop
    batch,      \* batch[d]: the events of the upload in progress, in memory
    tries,      \* tries[d]: attempts PostEvents has made
    conn,       \* conn[d]: the handler whose answer d waits for, or None
    pc,         \* pc[h]: where handler h is
    job,        \* job[h]: the request h serves and the device id it looked up
    id,         \* id[d]: devices.id of d, 0 when it has no row
    lastId,     \* the highest id AUTOINCREMENT ever gave out
    rows,       \* rows[d]: d's events in the events table, with their device_id
    erased,     \* erased[d]: events of d that DeleteDevice removed (history)
    failures    \* failures so far

clientVars == <<next, buffered, marked, phase, batch, tries, conn>>
handlerVars == <<pc, job>>
tableVars == <<id, lastId, rows, erased>>
vars == <<clientVars, handlerVars, tableVars, failures>>

Event == 1..MaxEvents
\* copy tells a second row of an event from the first, as the primary key does.
RowType == [event: Event, id: Nat, copy: 1..2]
Job == [dev: Device \cup {None}, batch: SUBSET Event, id: Nat]
NoJob == [dev |-> None, batch |-> {}, id |-> 0]

TypeOK ==
    /\ next \in [Device -> 0..MaxEvents]
    /\ buffered \in [Device -> SUBSET Event]
    /\ marked \in [Device -> SUBSET Event]
    /\ phase \in [Device -> {"idle", "await", "backoff", "mark"}]
    /\ batch \in [Device -> SUBSET Event]
    /\ tries \in [Device -> 0..MaxTries]
    /\ conn \in [Device -> Handler \cup {None}]
    /\ pc \in [Handler -> {"free", "ensure", "insert", "ok", "failed", "refused"}]
    /\ job \in [Handler -> Job]
    /\ id \in [Device -> Nat]
    /\ lastId \in Nat
    /\ rows \in [Device -> SUBSET RowType]
    /\ erased \in [Device -> SUBSET Event]
    /\ failures \in 0..MaxFailures

Init ==
    /\ next = [d \in Device |-> 0]
    /\ buffered = [d \in Device |-> {}]
    /\ marked = [d \in Device |-> {}]
    /\ phase = [d \in Device |-> "idle"]
    /\ batch = [d \in Device |-> {}]
    /\ tries = [d \in Device |-> 0]
    /\ conn = [d \in Device |-> None]
    /\ pc = [h \in Handler |-> "free"]
    /\ job = [h \in Handler |-> NoJob]
    /\ id = [d \in Device |-> 0]
    /\ lastId = 0
    /\ rows = [d \in Device |-> {}]
    /\ erased = [d \in Device |-> {}]
    /\ failures = 0

-----------------------------------------------------------------------------
(* The buffer.                                                             *)

\* Enqueue: one transaction takes the next number and inserts the row.
nextSequence(d) == next[d] + 1

Enqueue(d) ==
    /\ next[d] < MaxEvents
    /\ next' = [next EXCEPT ![d] = nextSequence(d)]
    /\ buffered' = [buffered EXCEPT ![d] = @ \cup {nextSequence(d)}]
    /\ UNCHANGED <<marked, phase, batch, tries, conn, handlerVars, tableVars, failures>>

Unsent(d) == buffered[d] \ marked[d]

\* Mutant: the order of the query is reversed.
NewestPending(d) ==
    {e \in Unsent(d) : Cardinality({f \in Unsent(d) : f > e}) < BatchSize}

\* SELECT ... WHERE sent_at_utc IS NULL ORDER BY id LIMIT BatchSize
Pending(d) ==
    {e \in Unsent(d) : Cardinality({f \in Unsent(d) : f < e}) < BatchSize}

-----------------------------------------------------------------------------
(* The upload loop.                                                        *)

Fail == failures < MaxFailures /\ failures' = failures + 1

Connect(d, events) ==
    /\ \E h \in Handler :
          /\ pc[h] = "free"
          /\ pc' = [pc EXCEPT ![h] = "ensure"]
          /\ job' = [job EXCEPT ![h] = [dev |-> d, batch |-> events, id |-> 0]]
          /\ conn' = [conn EXCEPT ![d] = h]
    /\ phase' = [phase EXCEPT ![d] = "await"]

StartUpload(d) ==
    /\ phase[d] = "idle"
    /\ Pending(d) # {}
    /\ Connect(d, Pending(d))
    /\ batch' = [batch EXCEPT ![d] = Pending(d)]
    /\ tries' = [tries EXCEPT ![d] = 1]
    /\ UNCHANGED <<next, buffered, marked, tableVars, failures>>

\* do() sends the same bytes again.
Retry(d) ==
    /\ phase[d] = "backoff"
    /\ Connect(d, batch[d])
    /\ tries' = [tries EXCEPT ![d] = @ + 1]
    /\ UNCHANGED <<next, buffered, marked, batch, tableVars, failures>>

\* uploadOnce returns; its batch was only in memory.
EndUpload(d) ==
    /\ phase' = [phase EXCEPT ![d] = "idle"]
    /\ batch' = [batch EXCEPT ![d] = {}]
    /\ tries' = [tries EXCEPT ![d] = 0]
    /\ conn' = [conn EXCEPT ![d] = None]

\* Mutant: one attempt too many.
OneTryMore(d) == tries[d] <= MaxTries

TriesLeft(d) == tries[d] < MaxTries

\* An attempt failed for a reason that is worth another one.
AttemptFailed(d) ==
    \/ /\ TriesLeft(d)
       /\ phase' = [phase EXCEPT ![d] = "backoff"]
       /\ conn' = [conn EXCEPT ![d] = None]
       /\ UNCHANGED <<batch, tries>>
    \/ /\ ~TriesLeft(d)
       /\ EndUpload(d)

Free(h) ==
    /\ pc' = [pc EXCEPT ![h] = "free"]
    /\ job' = [job EXCEPT ![h] = NoJob]

\* The connection breaks: before the request got through, or after.
LoseConnection(d) ==
    /\ conn[d] # None
    /\ Fail
    /\ AttemptFailed(d)
    /\ \/ pc[conn[d]] = "ensure" /\ Free(conn[d])
       \/ UNCHANGED handlerVars
    /\ UNCHANGED <<next, buffered, marked, tableVars>>

ReceiveOK(d) ==
    /\ conn[d] # None /\ pc[conn[d]] = "ok"
    /\ phase' = [phase EXCEPT ![d] = "mark"]
    /\ conn' = [conn EXCEPT ![d] = None]
    /\ Free(conn[d])
    /\ UNCHANGED <<next, buffered, marked, batch, tries, tableVars, failures>>

\* 500: retried.
ReceiveFailed(d) ==
    /\ conn[d] # None /\ pc[conn[d]] = "failed"
    /\ AttemptFailed(d)
    /\ Free(conn[d])
    /\ UNCHANGED <<next, buffered, marked, tableVars, failures>>

\* 400: terminal for this PostEvents call.
ReceiveRefused(d) ==
    /\ conn[d] # None /\ pc[conn[d]] = "refused"
    /\ EndUpload(d)
    /\ Free(conn[d])
    /\ UNCHANGED <<next, buffered, marked, tableVars, failures>>

\* Mutant: whatever is buffered by now is marked.
EverythingBuffered(d) == buffered[d]

\* The rows MarkSent updates: those of the batch.
Delivered(d) == batch[d] \cap buffered[d]

\* One transaction marks the batch and purges what was sent long ago: the events
\* up to some number, as they were sent in order.
MarkSent(d) ==
    /\ phase[d] = "mark"
    /\ \E old \in 0..next[d] :
          LET purged == {e \in marked[d] : e <= old}
          IN  /\ buffered' = [buffered EXCEPT ![d] = @ \ purged]
              /\ marked' = [marked EXCEPT ![d] =
                     (@ \cup Delivered(d)) \ purged]
    /\ EndUpload(d)
    /\ UNCHANGED <<next, handlerVars, tableVars, failures>>

MarkSentFails(d) ==
    /\ phase[d] = "mark"
    /\ Fail
    /\ EndUpload(d)
    /\ UNCHANGED <<next, buffered, marked, handlerVars, tableVars>>

\* The service dies at any point; its buffer file stays.
RestartService(d) ==
    /\ phase[d] # "idle"
    /\ Fail
    /\ EndUpload(d)
    /\ UNCHANGED <<next, buffered, marked, handlerVars, tableVars>>

-----------------------------------------------------------------------------
(* The server.                                                             *)

\* EnsureDevice: a transaction of its own; an AUTOINCREMENT id is never reused.
EnsureDevice(h) ==
    LET d == job[h].dev
    IN  /\ pc[h] = "ensure"
        /\ \/ id[d] # 0 /\ UNCHANGED <<id, lastId>>
           \/ /\ id[d] = 0
              /\ lastId' = lastId + 1
              /\ id' = [id EXCEPT ![d] = lastId + 1]
        /\ job' = [job EXCEPT ![h].id = id'[d]]
        /\ pc' = [pc EXCEPT ![h] = "insert"]
        /\ UNCHANGED <<rows, erased, clientVars, failures>>

\* A failed EnsureDevice is answered with 400.
EnsureFails(h) ==
    /\ pc[h] = "ensure"
    /\ Fail
    /\ pc' = [pc EXCEPT ![h] = "refused"]
    /\ UNCHANGED <<job, tableVars, clientVars>>

Stored(d) == {r.event : r \in rows[d]}

NewRow(h, e) ==
    [event |-> e, id |-> job[h].id, copy |-> IF e \in Stored(job[h].dev) THEN 2 ELSE 1]

\* Mutant: event_uuid is not UNIQUE.
WholeBatch(h) == job[h].batch

\* INSERT OR IGNORE, row by row: a UUID that is there is left alone.
Fresh(h) == job[h].batch \ Stored(job[h].dev)

\* Mutant: foreign keys are not enforced.
AcceptsAny(h) == TRUE

\* Mutant: a plain INSERT, which fails on a UUID that is there.
AcceptsNewOnly(h) == Fresh(h) = job[h].batch /\ job[h].id = id[job[h].dev]

\* A new row needs its device (foreign_keys).
Accepts(h) == Fresh(h) = {} \/ job[h].id = id[job[h].dev]

\* One transaction, which is rolled back when one of its rows is not accepted.
InsertEvents(h) ==
    /\ pc[h] = "insert"
    /\ \/ /\ Accepts(h)
          /\ rows' = [rows EXCEPT ![job[h].dev] = @ \cup {NewRow(h, e) : e \in Fresh(h)}]
          /\ pc' = [pc EXCEPT ![h] = "ok"]
       \/ /\ ~Accepts(h)
          /\ pc' = [pc EXCEPT ![h] = "failed"]
          /\ UNCHANGED rows
    /\ UNCHANGED <<job, id, lastId, erased, clientVars, failures>>

InsertFails(h) ==
    /\ pc[h] = "insert"
    /\ Fail
    /\ pc' = [pc EXCEPT ![h] = "failed"]
    /\ UNCHANGED <<job, tableVars, clientVars>>

\* Nobody waits for the answer any more.
Discard(h) ==
    /\ pc[h] \in {"ok", "failed", "refused"}
    /\ \A d \in Device : conn[d] # h
    /\ Free(h)
    /\ UNCHANGED <<tableVars, clientVars, failures>>

\* DeleteDevice: the device, its configuration and its events.
DeleteDevice(d) ==
    /\ id[d] # 0 /\ lastId < MaxId
    /\ id' = [id EXCEPT ![d] = 0]
    /\ rows' = [rows EXCEPT ![d] = {r \in @ : r.id # id[d]}]
    /\ erased' = [erased EXCEPT ![d] = @ \cup {r.event : r \in {s \in rows[d] : s.id = id[d]}}]
    /\ UNCHANGED <<lastId, clientVars, handlerVars, failures>>

RestartServer ==
    /\ Fail
    /\ pc' = [h \in Handler |-> "free"]
    /\ job' = [h \in Handler |-> NoJob]
    /\ conn' = [d \in Device |-> None]
    /\ LET again == {d \in Device : conn[d] # None /\ TriesLeft(d)}
           over  == {d \in Device : conn[d] # None /\ ~TriesLeft(d)}
       IN  /\ phase' = [d \in Device |-> CASE d \in again -> "backoff"
                                           [] d \in over  -> "idle"
                                           [] OTHER       -> phase[d]]
           /\ batch' = [d \in Device |-> IF d \in over THEN {} ELSE batch[d]]
           /\ tries' = [d \in Device |-> IF d \in over THEN 0 ELSE tries[d]]
    /\ UNCHANGED <<next, buffered, marked, tableVars>>

-----------------------------------------------------------------------------

Upload(d) ==
    \/ StartUpload(d) \/ Retry(d) \/ ReceiveOK(d) \/ ReceiveFailed(d)
    \/ ReceiveRefused(d) \/ MarkSent(d)

Serve(h) == EnsureDevice(h) \/ InsertEvents(h) \/ Discard(h)

Next ==
    \/ \E d \in Device :
          \/ Enqueue(d) \/ Upload(d) \/ LoseConnection(d) \/ MarkSentFails(d)
          \/ RestartService(d) \/ DeleteDevice(d)
    \/ \E h \in Handler : Serve(h) \/ EnsureFails(h) \/ InsertFails(h)
    \/ RestartServer

Spec == Init /\ [][Next]_vars

\* The upload loop and the server's goroutines run on.  Nothing is assumed of the
\* agent, of the admin or of the failures.
Fairness ==
    /\ \A d \in Device : WF_vars(Upload(d))
    /\ \A h \in Handler : WF_vars(Serve(h))

FairSpec == Spec /\ Fairness

-----------------------------------------------------------------------------
(* Safety.                                                                 *)

\* The events of d that reached the events table, whether or not an admin has
\* since deleted them with the device.
Reached(d) == Stored(d) \cup erased[d]

\* No observation is lost: whatever was retried, restarted, purged or deleted, an
\* event that is no longer waiting in the buffer has reached the server.
NoLoss == \A d \in Device : (1..next[d]) \ Unsent(d) \subseteq Reached(d)

\* No observation is counted twice, although an abandoned attempt and its retry
\* insert the same batch, perhaps under two device ids: one row per event.
NoDuplicate ==
    \A d \in Device : \A r, s \in rows[d] : r.event = s.event => r = s

\* The server receives a device's events without gaps: an older event is never
\* still on its way when a newer one has arrived.
NoGaps == \A d \in Device : \A e \in Reached(d) : 1..e \subseteq Reached(d)

\* Every event row belongs to the device row its client has now; deleting a
\* device leaves nothing of its history behind, not even what a request that was
\* already registered inserts afterwards.
RowsHaveDevice == \A d \in Device : \A r \in rows[d] : r.id = id[d]

\* The server forgets an event only when an admin deletes its device.
ForgetsOnlyWithDevice ==
    [][\A d \in Device : Stored(d) \subseteq Stored(d)' \/ (id[d] # 0 /\ id'[d] = 0)]_vars

(* Liveness.                                                               *)

\* Every buffered event reaches the server.
EventsArrive ==
    \A d \in Device, e \in Event : (e <= next[d]) ~> (e \in Reached(d))

=============================================================================
