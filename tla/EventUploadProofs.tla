------------------------- MODULE EventUploadProofs -------------------------
(***************************************************************************)
(* Proofs about EventUpload: nothing is lost, doubled or left out, for any *)
(* number of devices, handlers, events and failures.                       *)
(***************************************************************************)
EXTENDS EventUpload, FiniteSetTheorems, TLAPS

\* Events that left the buffer's queue.
Sent(d) == (1..next[d]) \ Unsent(d)

\* The buffer of d: its rows were numbered, and the unsent ones are the newest.
BufferInv(d) ==
    /\ marked[d] \subseteq buffered[d]
    /\ buffered[d] \subseteq 1..next[d]
    /\ Sent(d) \subseteq Reached(d)
    /\ \A e \in Sent(d) : 1..e \subseteq Sent(d)

\* The upload in progress is next in line, and a batch about to be marked arrived.
BatchInv(d) ==
    /\ batch[d] \subseteq 1..next[d]
    /\ \A e \in batch[d] : 1..e \subseteq Sent(d) \cup batch[d]
    /\ phase[d] = "mark" => batch[d] \subseteq Reached(d)
    /\ phase[d] = "backoff" => tries[d] < MaxTries
    /\ conn[d] # None => /\ pc[conn[d]] # "free"
                         /\ job[conn[d]].dev = d
                         /\ job[conn[d]].batch = batch[d]
                         /\ phase[d] = "await"

\* A request, abandoned or not, carries events whose predecessors have arrived or
\* are with it; once it answers 200 they have all arrived.
JobInv(h) ==
    pc[h] # "free" =>
      /\ job[h].dev \in Device
      /\ \A e \in job[h].batch : 1..e \subseteq Reached(job[h].dev) \cup job[h].batch
      /\ pc[h] = "ok" => job[h].batch \subseteq Reached(job[h].dev)
      /\ pc[h] = "insert" => job[h].id # 0

\* The events table.
TableInv(d) ==
    /\ \A e \in Reached(d) : 1..e \subseteq Reached(d)
    /\ \A r, s \in rows[d] : r.event = s.event => r = s
    /\ \A r \in rows[d] : r.id = id[d] /\ r.id # 0

IInv ==
    /\ TypeOK
    /\ \A d \in Device : BufferInv(d) /\ BatchInv(d) /\ TableInv(d)
    /\ \A h \in Handler : JobInv(h)

LEMMA InvSafe == IInv => NoLoss /\ NoDuplicate /\ NoGaps /\ RowsHaveDevice
BY DEF IInv, BufferInv, TableInv, NoLoss, NoDuplicate, NoGaps, RowsHaveDevice, Sent

LEMMA InitInv == Init => IInv
<1> SUFFICES ASSUME Init PROVE IInv
  OBVIOUS
<1> USE DEF Init
<1>1. TypeOK
  BY UploadAssumption DEF TypeOK, NoJob, Job
<1>2. ASSUME NEW d \in Device PROVE BufferInv(d) /\ BatchInv(d) /\ TableInv(d)
  BY DEF BufferInv, BatchInv, TableInv, Sent, Unsent, Reached, Stored
<1>3. ASSUME NEW h \in Handler PROVE JobInv(h)
  BY DEF JobInv
<1> QED
  BY <1>1, <1>2, <1>3 DEF IInv

-----------------------------------------------------------------------------
(* The batch that Pending selects.                                         *)

LEMMA PendingIsPrefix ==
    ASSUME TypeOK, NEW d \in Device, BufferInv(d)
    PROVE  /\ Pending(d) \subseteq Unsent(d)
           /\ \A e \in Pending(d) : 1..e \subseteq Sent(d) \cup Pending(d)
<1>1. Unsent(d) \subseteq 1..next[d] /\ next[d] \in Nat
  BY UploadAssumption DEF BufferInv, Unsent, TypeOK
<1>2. IsFiniteSet(Unsent(d))
  <2>1. IsFiniteSet(1..next[d])
    BY <1>1, FS_Interval
  <2> QED
    BY <1>1, <2>1, FS_Subset
<1>3. ASSUME NEW e \in Pending(d), NEW f \in Unsent(d), f < e PROVE f \in Pending(d)
  <2> DEFINE Below(g) == {k \in Unsent(d) : k < g}
  <2>1. Below(f) \subseteq Below(e)
    BY <1>1, <1>3 DEF Pending
  <2>2. IsFiniteSet(Below(e))
    BY <1>2, FS_Subset
  <2>3. Cardinality(Below(f)) <= Cardinality(Below(e))
    BY <2>1, <2>2, FS_Subset
  <2>4. Cardinality(Below(e)) \in Nat /\ Cardinality(Below(f)) \in Nat
    BY <2>1, <2>2, FS_Subset, FS_CardinalityType
  <2>5. Cardinality(Below(e)) < BatchSize
    BY DEF Pending
  <2>6. Cardinality(Below(f)) < BatchSize
    BY <2>3, <2>4, <2>5, UploadAssumption
  <2> QED
    BY <2>6 DEF Pending
<1>4. ASSUME NEW e \in Pending(d), NEW f \in 1..e PROVE f \in Sent(d) \cup Pending(d)
  <2>1. e \in Unsent(d) /\ e \in 1..next[d]
    BY <1>1 DEF Pending
  <2>2. f \in 1..next[d]
    BY <1>1, <2>1
  <2>3. f = e \/ f < e
    BY <2>1, <1>1
  <2> QED
    BY <1>3, <2>2, <2>3 DEF Sent
<1> QED
  BY <1>4 DEF Pending

-----------------------------------------------------------------------------
(* Frames.                                                                 *)

\* What arrived stays arrived: the table may grow, the server may forget d.
Grows(d) == Reached(d) \subseteq Reached(d)'

LEMMA SameTable ==
    ASSUME UNCHANGED <<id, rows, erased>>, NEW d, TableInv(d)
    PROVE  TableInv(d)' /\ Reached(d)' = Reached(d)
BY DEF TableInv, Reached, Stored

LEMMA SameBuffer ==
    ASSUME NEW d, BufferInv(d), next'[d] = next[d], buffered'[d] = buffered[d],
           marked'[d] = marked[d], Grows(d)
    PROVE  BufferInv(d)' /\ Sent(d)' = Sent(d)
<1>1. Sent(d)' = Sent(d)
  BY DEF Sent, Unsent
<1> QED
  BY <1>1 DEF BufferInv, Grows

LEMMA SameBatch ==
    ASSUME TypeOK, NEW d \in Device, BatchInv(d), next'[d] = next[d], Sent(d)' = Sent(d),
           batch'[d] = batch[d], phase'[d] = phase[d], conn'[d] = conn[d],
           tries'[d] = tries[d], Grows(d),
           \A h \in Handler : pc[h] # "free" /\ conn[d] = h =>
              pc'[h] # "free" /\ job'[h].dev = job[h].dev /\ job'[h].batch = job[h].batch
    PROVE  BatchInv(d)'
<1>1. conn[d] # None => conn[d] \in Handler
  BY DEF TypeOK
<1> QED
  BY <1>1 DEF BatchInv, Grows

\* The upload is over, or has not begun.
LEMMA NoBatch ==
    ASSUME NEW d, batch'[d] = {}, phase'[d] = "idle", conn'[d] = None
    PROVE  BatchInv(d)'
BY DEF BatchInv

\* The upload waits for its next attempt.
LEMMA BackoffBatch ==
    ASSUME NEW d, BatchInv(d), next'[d] = next[d], Sent(d)' = Sent(d), batch'[d] = batch[d],
           phase'[d] = "backoff", conn'[d] = None, tries'[d] < MaxTries
    PROVE  BatchInv(d)'
BY DEF BatchInv

LEMMA SameJob ==
    ASSUME NEW h, JobInv(h), pc'[h] = pc[h], job'[h] = job[h],
           \A d \in Device : Grows(d)
    PROVE  JobInv(h)'
BY DEF JobInv, Grows

-----------------------------------------------------------------------------
(* The buffer's and the upload loop's steps.                               *)

LEMMA EnqueueInv == ASSUME IInv, NEW d \in Device, Enqueue(d) PROVE IInv'
<1> USE DEF IInv
<1>1. /\ next[d] < MaxEvents /\ next' = [next EXCEPT ![d] = next[d] + 1]
      /\ buffered' = [buffered EXCEPT ![d] = buffered[d] \cup {next[d] + 1}]
      /\ UNCHANGED <<marked, phase, batch, tries, conn, handlerVars, tableVars, failures>>
      /\ next[d] \in Nat
  BY UploadAssumption DEF Enqueue, nextSequence, TypeOK
<1>2. TypeOK'
  <2>1. next[d] + 1 \in 0..MaxEvents /\ next[d] + 1 \in Event
    BY <1>1, UploadAssumption DEF Event
  <2> QED
    BY <1>1, <2>1 DEF TypeOK, handlerVars, tableVars
<1>3. ASSUME NEW e \in Device PROVE TableInv(e)' /\ Reached(e)' = Reached(e)
  BY <1>1, SameTable DEF tableVars
<1>4. ASSUME NEW h \in Handler PROVE JobInv(h)'
  BY <1>1, <1>3, SameJob DEF handlerVars, Grows
<1>5. ASSUME NEW e \in Device PROVE BufferInv(e)' /\ BatchInv(e)'
  <2>1. CASE e # d
    <3>1. BufferInv(e)' /\ Sent(e)' = Sent(e)
      BY <1>1, <1>3, <2>1, SameBuffer DEF TypeOK, Grows
    <3> QED
      BY <1>1, <1>3, <2>1, <3>1, SameBatch DEF TypeOK, Grows, handlerVars
  <2>2. CASE e = d
    <3>1. next'[d] = next[d] + 1 /\ buffered'[d] = buffered[d] \cup {next[d] + 1}
      BY <1>1 DEF TypeOK
    <3>2. Sent(d)' = Sent(d)
      BY <1>1, <3>1 DEF Sent, Unsent, BufferInv
    <3>3. BufferInv(d)'
      BY <1>1, <1>3, <3>1, <3>2 DEF BufferInv
    <3>4. BatchInv(d)'
      BY <1>1, <1>3, <3>1, <3>2 DEF BatchInv, handlerVars
    <3> QED
      BY <2>2, <3>3, <3>4
  <2> QED
    BY <2>1, <2>2
<1> QED
  BY <1>2, <1>3, <1>4, <1>5

LEMMA ConnectInv ==
    ASSUME IInv, NEW d \in Device, NEW events \in SUBSET Event, Connect(d, events),
           batch'[d] = events, events \subseteq 1..next[d],
           \A e \in events : 1..e \subseteq Sent(d) \cup events,
           \A e \in Device \ {d} : batch'[e] = batch[e] /\ tries'[e] = tries[e],
           batch' \in [Device -> SUBSET Event], tries' \in [Device -> 0..MaxTries],
           UNCHANGED <<next, buffered, marked, tableVars, failures>>
    PROVE  IInv'
<1> USE DEF IInv
<1>1. PICK h \in Handler :
         /\ pc[h] = "free" /\ pc' = [pc EXCEPT ![h] = "ensure"]
         /\ job' = [job EXCEPT ![h] = [dev |-> d, batch |-> events, id |-> 0]]
         /\ conn' = [conn EXCEPT ![d] = h] /\ phase' = [phase EXCEPT ![d] = "await"]
  BY DEF Connect
<1>2. TypeOK'
  <2>1. [dev |-> d, batch |-> events, id |-> 0] \in Job
    BY DEF Job
  <2> QED
    BY <1>1, <2>1 DEF TypeOK, tableVars
<1>3. ASSUME NEW e \in Device PROVE TableInv(e)' /\ Reached(e)' = Reached(e)
  BY SameTable DEF tableVars
<1>4. ASSUME NEW e \in Device PROVE BufferInv(e)' /\ Sent(e)' = Sent(e)
  BY <1>3, SameBuffer DEF Grows
<1>5. ASSUME NEW e \in Device PROVE BatchInv(e)'
  <2>1. CASE e # d
    <3>1. phase'[e] = phase[e] /\ conn'[e] = conn[e]
      BY <1>1, <2>1 DEF TypeOK
    <3>2. \A k \in Handler : pc[k] # "free" => pc'[k] = pc[k] /\ job'[k] = job[k]
      BY <1>1 DEF TypeOK
    <3> QED
      BY <1>3, <1>4, <2>1, <3>1, <3>2, SameBatch DEF Grows
  <2>2. CASE e = d
    <3>1. /\ pc'[h] = "ensure" /\ job'[h].dev = d /\ job'[h].batch = events
          /\ conn'[d] = h /\ phase'[d] = "await"
      BY <1>1 DEF TypeOK
    <3> QED
      BY <1>4, <2>2, <3>1 DEF BatchInv
  <2> QED
    BY <2>1, <2>2
<1>6. ASSUME NEW k \in Handler PROVE JobInv(k)'
  <2>1. CASE k # h
    BY <1>1, <1>3, <2>1, SameJob DEF TypeOK, Grows
  <2>2. CASE k = h
    <3>1. pc'[h] = "ensure" /\ job'[h].dev = d /\ job'[h].batch = events
      BY <1>1 DEF TypeOK
    <3>2. Sent(d) \subseteq Reached(d)'
      BY <1>3 DEF BufferInv
    <3> QED
      BY <2>2, <3>1, <3>2 DEF JobInv
  <2> QED
    BY <2>1, <2>2
<1> QED
  BY <1>2, <1>3, <1>4, <1>5, <1>6

LEMMA StartUploadInv == ASSUME IInv, NEW d \in Device, StartUpload(d) PROVE IInv'
<1> USE DEF IInv
<1>1. /\ Pending(d) \subseteq Unsent(d)
      /\ \A e \in Pending(d) : 1..e \subseteq Sent(d) \cup Pending(d)
  BY PendingIsPrefix
<1>2. Unsent(d) \subseteq 1..next[d] /\ Unsent(d) \subseteq Event
  BY DEF Unsent, BufferInv, TypeOK
<1>3. 1 \in 0..MaxTries
  BY UploadAssumption
<1>4. /\ batch' = [batch EXCEPT ![d] = Pending(d)] /\ tries' = [tries EXCEPT ![d] = 1]
      /\ Connect(d, Pending(d)) /\ UNCHANGED <<next, buffered, marked, tableVars, failures>>
  BY DEF StartUpload
<1> QED
  BY <1>1, <1>2, <1>3, <1>4, ConnectInv DEF TypeOK

LEMMA RetryInv ==
    ASSUME IInv, NEW d \in Device, Retry(d) PROVE IInv'
<1> USE DEF IInv
<1>1. tries[d] + 1 \in 0..MaxTries
  BY UploadAssumption DEF TypeOK, Retry, BatchInv
<1>2. /\ tries' = [tries EXCEPT ![d] = tries[d] + 1] /\ Connect(d, batch[d])
      /\ UNCHANGED <<next, buffered, marked, batch, tableVars, failures>>
  BY DEF Retry, TypeOK
<1> QED
  BY <1>1, <1>2, ConnectInv DEF TypeOK, BatchInv

\* An attempt, or the whole upload, of d ends, and with it perhaps the handler
\* that d was waiting for.
LEMMA ClientStep ==
    ASSUME IInv, NEW d \in Device, BatchInv(d)',
           UNCHANGED <<next, buffered, marked, tableVars>>,
           \A e \in Device \ {d} : /\ phase'[e] = phase[e] /\ batch'[e] = batch[e]
                                   /\ tries'[e] = tries[e] /\ conn'[e] = conn[e],
           phase' \in [Device -> {"idle", "await", "backoff", "mark"}],
           batch' \in [Device -> SUBSET Event], tries' \in [Device -> 0..MaxTries],
           conn' \in [Device -> Handler \cup {None}], failures' \in 0..MaxFailures,
           UNCHANGED handlerVars \/ (conn[d] # None /\ Free(conn[d]))
    PROVE  IInv'
<1> USE DEF IInv
<1>1. conn[d] # None => conn[d] \in Handler
  BY DEF TypeOK
<1>2. ASSUME NEW h \in Handler, conn[d] = None \/ h # conn[d]
      PROVE  pc'[h] = pc[h] /\ job'[h] = job[h]
  BY <1>1, <1>2 DEF Free, handlerVars, TypeOK
<1>3. TypeOK'
  <2>1. CASE UNCHANGED handlerVars
    BY <2>1 DEF TypeOK, handlerVars, tableVars
  <2>2. CASE conn[d] # None /\ Free(conn[d])
    <3>1. NoJob \in Job
      BY DEF NoJob, Job
    <3>2. pc' = [pc EXCEPT ![conn[d]] = "free"] /\ job' = [job EXCEPT ![conn[d]] = NoJob]
      BY <2>2 DEF Free
    <3>3. pc' \in [Handler -> {"free", "ensure", "insert", "ok", "failed", "refused"}]
      BY <3>2 DEF TypeOK
    <3>4. job' \in [Handler -> Job]
      BY <3>1, <3>2 DEF TypeOK
    <3> QED
      BY <3>3, <3>4 DEF TypeOK, tableVars
  <2> QED
    BY <2>1, <2>2
<1>4. ASSUME NEW e \in Device PROVE TableInv(e)' /\ Reached(e)' = Reached(e)
  BY SameTable DEF tableVars
<1>5. ASSUME NEW e \in Device PROVE BufferInv(e)' /\ Sent(e)' = Sent(e)
  BY <1>4, SameBuffer DEF Grows
<1>6. ASSUME NEW e \in Device PROVE BatchInv(e)'
  <2>1. CASE e # d
    <3>1. ASSUME NEW h \in Handler, conn[e] = h PROVE pc'[h] = pc[h] /\ job'[h] = job[h]
      BY <1>2, <2>1, <3>1, UploadAssumption DEF BatchInv
    <3>2. next'[e] = next[e] /\ Grows(e) /\ Sent(e)' = Sent(e)
      BY <1>4, <1>5 DEF Grows
    <3> QED
      BY <2>1, <3>1, <3>2, SameBatch
  <2> QED
    BY <2>1
<1>7. ASSUME NEW h \in Handler PROVE JobInv(h)'
  <2>1. CASE UNCHANGED handlerVars \/ h # conn[d]
    BY <1>2, <1>4, <2>1, SameJob DEF Grows, handlerVars
  <2>2. CASE h = conn[d] /\ Free(conn[d])
    BY <2>2 DEF Free, JobInv, TypeOK
  <2> QED
    BY <2>1, <2>2
<1> QED
  BY <1>3, <1>4, <1>5, <1>6, <1>7

LEMMA EndUploadTypes ==
    ASSUME TypeOK, NEW d \in Device, EndUpload(d)
    PROVE  /\ phase' \in [Device -> {"idle", "await", "backoff", "mark"}]
           /\ batch' \in [Device -> SUBSET Event] /\ tries' \in [Device -> 0..MaxTries]
           /\ conn' \in [Device -> Handler \cup {None}]
           /\ \A e \in Device \ {d} : /\ phase'[e] = phase[e] /\ batch'[e] = batch[e]
                                      /\ tries'[e] = tries[e] /\ conn'[e] = conn[e]
           /\ BatchInv(d)'
<1>1. batch'[d] = {} /\ phase'[d] = "idle" /\ conn'[d] = None
  BY DEF EndUpload, TypeOK
<1>2. 0 \in 0..MaxTries
  BY UploadAssumption
<1> QED
  BY <1>1, <1>2, NoBatch DEF EndUpload, TypeOK

LEMMA AttemptFailedTypes ==
    ASSUME IInv, NEW d \in Device, AttemptFailed(d), UNCHANGED <<next, buffered, marked>>
    PROVE  /\ phase' \in [Device -> {"idle", "await", "backoff", "mark"}]
           /\ batch' \in [Device -> SUBSET Event] /\ tries' \in [Device -> 0..MaxTries]
           /\ conn' \in [Device -> Handler \cup {None}]
           /\ \A e \in Device \ {d} : /\ phase'[e] = phase[e] /\ batch'[e] = batch[e]
                                      /\ tries'[e] = tries[e] /\ conn'[e] = conn[e]
           /\ BatchInv(d)'
<1> USE DEF IInv
<1>1. CASE EndUpload(d)
  BY <1>1, EndUploadTypes
<1>2. CASE tries[d] < MaxTries /\ phase' = [phase EXCEPT ![d] = "backoff"]
           /\ conn' = [conn EXCEPT ![d] = None] /\ UNCHANGED <<batch, tries>>
  <2>1. phase'[d] = "backoff" /\ conn'[d] = None
    BY <1>2 DEF TypeOK
  <2>2. Sent(d)' = Sent(d)
    BY DEF Sent, Unsent
  <2>3. BatchInv(d)'
    BY <1>2, <2>1, <2>2, BackoffBatch
  <2> QED
    BY <1>2, <2>3 DEF TypeOK
<1> QED
  BY <1>1, <1>2 DEF AttemptFailed, TriesLeft

LEMMA FailType == ASSUME TypeOK, Fail PROVE failures' \in 0..MaxFailures
BY UploadAssumption DEF Fail, TypeOK

LEMMA AttemptInv ==
    ASSUME IInv, NEW d \in Device,
           LoseConnection(d) \/ ReceiveFailed(d) \/ ReceiveRefused(d)
    PROVE  IInv'
<1> USE DEF IInv
<1>1. UNCHANGED <<next, buffered, marked, tableVars>>
  BY DEF LoseConnection, ReceiveFailed, ReceiveRefused
<1>2. failures' \in 0..MaxFailures
  BY FailType DEF LoseConnection, ReceiveFailed, ReceiveRefused, TypeOK
<1>3. UNCHANGED handlerVars \/ (conn[d] # None /\ Free(conn[d]))
  BY DEF LoseConnection, ReceiveFailed, ReceiveRefused
<1>4. AttemptFailed(d) \/ EndUpload(d)
  BY DEF LoseConnection, ReceiveFailed, ReceiveRefused
<1>5. CASE AttemptFailed(d)
  BY <1>1, <1>2, <1>3, <1>5, AttemptFailedTypes, ClientStep
<1>6. CASE EndUpload(d)
  BY <1>1, <1>2, <1>3, <1>6, EndUploadTypes, ClientStep
<1> QED
  BY <1>4, <1>5, <1>6

\* The answer 200 means that the batch arrived.
LEMMA ReceiveOKInv == ASSUME IInv, NEW d \in Device, ReceiveOK(d) PROVE IInv'
<1> USE DEF IInv
<1>1. /\ conn[d] # None /\ pc[conn[d]] = "ok" /\ Free(conn[d])
      /\ phase' = [phase EXCEPT ![d] = "mark"] /\ conn' = [conn EXCEPT ![d] = None]
      /\ UNCHANGED <<next, buffered, marked, batch, tries, tableVars, failures>>
  BY DEF ReceiveOK
<1>2. conn[d] \in Handler
  BY <1>1 DEF TypeOK
<1>3. batch[d] \subseteq Reached(d)
  BY <1>1, <1>2 DEF BatchInv, JobInv
<1>4. Reached(d)' = Reached(d) /\ Sent(d)' = Sent(d)
  BY <1>1 DEF Reached, Stored, Sent, Unsent, tableVars
<1>5. phase'[d] = "mark" /\ conn'[d] = None
  BY <1>1 DEF TypeOK
<1>6. BatchInv(d)'
  BY <1>1, <1>3, <1>4, <1>5 DEF BatchInv
<1> QED
  BY <1>1, <1>6, ClientStep DEF TypeOK

LEMMA GiveUpInv ==
    ASSUME IInv, NEW d \in Device, MarkSentFails(d) \/ RestartService(d) PROVE IInv'
<1> USE DEF IInv
<1>1. /\ EndUpload(d) /\ UNCHANGED <<next, buffered, marked, handlerVars, tableVars>>
      /\ failures' \in 0..MaxFailures
  BY FailType DEF MarkSentFails, RestartService
<1> QED
  BY <1>1, EndUploadTypes, ClientStep

\* Marking removes the batch, and nothing else, from the queue.
LEMMA MarkSentInv == ASSUME IInv, NEW d \in Device, MarkSent(d) PROVE IInv'
<1> USE DEF IInv
<1>1. PICK old \in 0..next[d] :
         /\ buffered' = [buffered EXCEPT ![d] = buffered[d] \ {e \in marked[d] : e <= old}]
         /\ marked' = [marked EXCEPT ![d] = (marked[d] \cup (batch[d] \cap buffered[d]))
                                              \ {e \in marked[d] : e <= old}]
  BY DEF MarkSent, Delivered, TypeOK
<1>2. /\ phase[d] = "mark" /\ EndUpload(d)
      /\ UNCHANGED <<next, handlerVars, tableVars, failures>>
  BY DEF MarkSent
<1>3. TypeOK'
  BY <1>1, <1>2, EndUploadTypes DEF TypeOK, handlerVars, tableVars
<1>4. ASSUME NEW e \in Device PROVE TableInv(e)' /\ Reached(e)' = Reached(e)
  BY <1>2, SameTable DEF tableVars
<1>5. ASSUME NEW h \in Handler PROVE JobInv(h)'
  BY <1>2, <1>4, SameJob DEF handlerVars, Grows
<1>6. BufferInv(d)'
  <2>1. /\ buffered'[d] = buffered[d] \ {e \in marked[d] : e <= old}
        /\ marked'[d] = (marked[d] \cup (batch[d] \cap buffered[d]))
                           \ {e \in marked[d] : e <= old}
    BY <1>1 DEF TypeOK
  <2>2. Unsent(d)' = Unsent(d) \ batch[d]
    BY <2>1 DEF Unsent, BufferInv
  <2>3. Sent(d)' = Sent(d) \cup batch[d]
    BY <1>2, <2>2 DEF Sent, BatchInv
  <2>4. batch[d] \subseteq Reached(d)
    BY <1>2 DEF BatchInv
  <2>5. \A e \in Sent(d) \cup batch[d] : 1..e \subseteq Sent(d) \cup batch[d]
    BY DEF BufferInv, BatchInv
  <2> QED
    BY <1>2, <1>4, <2>1, <2>3, <2>4, <2>5 DEF BufferInv
<1>7. ASSUME NEW e \in Device PROVE BufferInv(e)' /\ BatchInv(e)'
  <2>1. CASE e = d
    BY <1>2, <1>6, <2>1, EndUploadTypes
  <2>2. CASE e # d
    <3>1. BufferInv(e)' /\ Sent(e)' = Sent(e)
      BY <1>1, <1>2, <1>4, <2>2, SameBuffer DEF TypeOK, Grows
    <3> QED
      BY <1>2, <1>4, <2>2, <3>1, EndUploadTypes, SameBatch DEF Grows, handlerVars
  <2> QED
    BY <2>1, <2>2
<1> QED
  BY <1>3, <1>4, <1>5, <1>7

-----------------------------------------------------------------------------
(* The server's steps.                                                     *)

\* Handler h moves on with the same request; what had arrived is still there.
LEMMA HandlerStep ==
    ASSUME IInv, NEW h \in Handler, TypeOK', UNCHANGED clientVars,
           pc'[h] # "free", job'[h].dev = job[h].dev, job'[h].batch = job[h].batch,
           \A k \in Handler \ {h} : pc'[k] = pc[k] /\ job'[k] = job[k],
           \A d \in Device : TableInv(d)' /\ Grows(d),
           JobInv(h)'
    PROVE  IInv'
<1> USE DEF IInv, clientVars
<1>1. ASSUME NEW d \in Device PROVE BufferInv(d)' /\ Sent(d)' = Sent(d)
  BY SameBuffer
<1>2. ASSUME NEW d \in Device PROVE BatchInv(d)'
  <2>1. ASSUME NEW k \in Handler, pc[k] # "free" /\ conn[d] = k
        PROVE  pc'[k] # "free" /\ job'[k].dev = job[k].dev /\ job'[k].batch = job[k].batch
    BY <2>1
  <2>2. Grows(d)
    OBVIOUS
  <2> QED
    BY <1>1, <2>1, <2>2, SameBatch
<1>3. ASSUME NEW k \in Handler PROVE JobInv(k)'
  BY SameJob
<1> QED
  BY <1>1, <1>2, <1>3

\* A new device has no rows: its predecessor took them with it.
LEMMA EnsureDeviceInv == ASSUME IInv, NEW h \in Handler, EnsureDevice(h) PROVE IInv'
<1> USE DEF IInv
<1> DEFINE dev == job[h].dev
<1>1. /\ pc[h] = "ensure" /\ dev \in Device /\ job[h] \in Job
      /\ job' = [job EXCEPT ![h].id = id'[dev]] /\ pc' = [pc EXCEPT ![h] = "insert"]
      /\ UNCHANGED <<rows, erased, clientVars, failures>>
  BY DEF EnsureDevice, JobInv, TypeOK
<1>2. /\ id' \in [Device -> Nat] /\ lastId' \in Nat /\ id'[dev] # 0
      /\ \A d \in Device : id'[d] = id[d] \/ id[d] = 0
  BY <1>1 DEF EnsureDevice, TypeOK
<1>3. /\ job'[h].dev = dev /\ job'[h].batch = job[h].batch /\ job'[h].id = id'[dev]
      /\ pc'[h] = "insert"
      /\ \A k \in Handler \ {h} : pc'[k] = pc[k] /\ job'[k] = job[k]
  BY <1>1 DEF TypeOK, Job
<1>4. TypeOK'
  <2>1. id'[dev] \in Nat
    BY <1>1, <1>2
  <2>2. [job[h] EXCEPT !.id = id'[dev]] \in Job
    BY <1>1, <2>1 DEF Job
  <2>3. job' \in [Handler -> Job]
    BY <1>1, <2>2 DEF TypeOK
  <2>4. pc' \in [Handler -> {"free", "ensure", "insert", "ok", "failed", "refused"}]
    BY <1>1 DEF TypeOK
  <2> QED
    BY <1>1, <1>2, <2>3, <2>4 DEF TypeOK, clientVars
<1>5. ASSUME NEW d \in Device PROVE Reached(d)' = Reached(d)
  BY <1>1 DEF Reached, Stored
<1>6. ASSUME NEW d \in Device PROVE TableInv(d)'
  BY <1>1, <1>2, <1>5 DEF TableInv
<1>7. JobInv(h)'
  BY <1>1, <1>2, <1>3, <1>5 DEF JobInv
<1>8. ASSUME NEW d \in Device PROVE Grows(d)
  BY <1>5 DEF Grows
<1> QED
  BY <1>1, <1>3, <1>4, <1>6, <1>7, <1>8, HandlerStep

\* The batch is ignored where it is known, and its older events have arrived.
LEMMA InsertEventsInv == ASSUME IInv, NEW h \in Handler, InsertEvents(h) PROVE IInv'
<1> USE DEF IInv
<1> DEFINE dev == job[h].dev
           fresh == Fresh(h)
           new == {NewRow(h, e) : e \in fresh}
<1>1. /\ pc[h] = "insert" /\ dev \in Device /\ job[h] \in Job /\ job[h].id # 0
      /\ UNCHANGED <<job, id, lastId, erased, clientVars, failures>>
  BY DEF InsertEvents, JobInv, TypeOK
<1>2. CASE fresh # {} /\ job[h].id # id[dev] /\ UNCHANGED rows
           /\ pc' = [pc EXCEPT ![h] = "failed"]
  <2>1. pc'[h] = "failed" /\ \A k \in Handler \ {h} : pc'[k] = pc[k]
    BY <1>2 DEF TypeOK
  <2>2. TypeOK'
    BY <1>1, <1>2 DEF TypeOK, clientVars
  <2>3. ASSUME NEW d \in Device PROVE TableInv(d)' /\ Reached(d)' = Reached(d)
    BY <1>1, <1>2, SameTable
  <2>4. JobInv(h)'
    BY <1>1, <2>1, <2>3 DEF JobInv
  <2> QED
    BY <1>1, <2>1, <2>2, <2>3, <2>4, HandlerStep DEF Grows
<1>3. CASE (fresh = {} \/ job[h].id = id[dev]) /\ pc' = [pc EXCEPT ![h] = "ok"]
           /\ rows' = [rows EXCEPT ![dev] = rows[dev] \cup new]
  <2>1. pc'[h] = "ok" /\ \A k \in Handler \ {h} : pc'[k] = pc[k]
    BY <1>3 DEF TypeOK
  <2>2. rows'[dev] = rows[dev] \cup new /\ \A d \in Device \ {dev} : rows'[d] = rows[d]
    BY <1>1, <1>3 DEF TypeOK
  <2>3. TypeOK'
    <3>1. new \subseteq RowType
      BY <1>1 DEF RowType, Job, NewRow, Fresh
    <3>2. rows' \in [Device -> SUBSET RowType]
      BY <1>1, <1>3, <3>1 DEF TypeOK
    <3>3. pc' \in [Handler -> {"free", "ensure", "insert", "ok", "failed", "refused"}]
      BY <1>3 DEF TypeOK
    <3> QED
      BY <1>1, <3>2, <3>3 DEF TypeOK, clientVars
  <2>4. Stored(dev)' = Stored(dev) \cup job[h].batch
    <3>1. \A r \in new : r.event \in fresh
      BY DEF NewRow
    <3>2. ASSUME NEW e \in fresh PROVE \E r \in new : r.event = e
      <4>1. NewRow(h, e) \in new /\ NewRow(h, e).event = e
        BY <3>2 DEF NewRow
      <4> QED
        BY <4>1
    <3>3. /\ \A e : e \in Stored(dev) <=> \E r \in rows[dev] : r.event = e
          /\ \A e : e \in Stored(dev)' <=> \E r \in rows'[dev] : r.event = e
      BY <1>1 DEF Stored
    <3> HIDE DEF new
    <3>4. \A e : e \in Stored(dev)' <=> e \in Stored(dev) \/ e \in fresh
      BY <2>2, <3>1, <3>2, <3>3
    <3>5. \A e : e \in Stored(dev)' <=> e \in Stored(dev) \cup job[h].batch
      BY <3>4 DEF Fresh
    <3> QED
      BY <3>5
  <2>5. Reached(dev)' = Reached(dev) \cup job[h].batch
    BY <1>1, <2>4 DEF Reached
  <2>6. ASSUME NEW d \in Device, d # dev PROVE TableInv(d)' /\ Reached(d)' = Reached(d)
    BY <1>1, <2>2, <2>6 DEF TableInv, Reached, Stored
  <2>7. TableInv(dev)'
    <3>1. \A e \in Reached(dev)' : 1..e \subseteq Reached(dev)'
      BY <1>1, <2>5 DEF TableInv, JobInv
    <3>2. \A r \in rows'[dev] : r.id = id'[dev] /\ r.id # 0
      BY <1>1, <1>3, <2>2 DEF TableInv, NewRow
    <3>3. ASSUME NEW r \in rows'[dev], NEW s \in rows'[dev], r.event = s.event PROVE r = s
      <4>1. CASE r \in rows[dev] /\ s \in rows[dev]
        BY <1>1, <3>3, <4>1 DEF TableInv
      <4>2. CASE r \in new /\ s \in new
        BY <3>3, <4>2 DEF NewRow
      <4>3. CASE (r \in new /\ s \in rows[dev]) \/ (r \in rows[dev] /\ s \in new)
        BY <3>3, <4>3 DEF Stored, NewRow, Fresh
      <4> QED
        BY <2>2, <4>1, <4>2, <4>3
    <3> QED
      BY <1>1, <3>1, <3>2, <3>3 DEF TableInv
  <2>8. JobInv(h)'
    BY <1>1, <2>1, <2>5 DEF JobInv
  <2>9. ASSUME NEW d \in Device PROVE TableInv(d)' /\ Grows(d)
    BY <1>1, <2>5, <2>6, <2>7 DEF Grows
  <2> QED
    BY <1>1, <2>1, <2>3, <2>8, <2>9, HandlerStep
<1> QED
  BY <1>2, <1>3 DEF InsertEvents, Accepts

LEMMA TransactionFailsInv ==
    ASSUME IInv, NEW h \in Handler, EnsureFails(h) \/ InsertFails(h) PROVE IInv'
<1> USE DEF IInv
<1>1. /\ pc[h] # "free" /\ UNCHANGED <<job, tableVars, clientVars>>
      /\ failures' \in 0..MaxFailures
      /\ pc' = [pc EXCEPT ![h] = "refused"] \/ pc' = [pc EXCEPT ![h] = "failed"]
  BY FailType DEF EnsureFails, InsertFails
<1>2. pc'[h] \in {"refused", "failed"} /\ \A k \in Handler \ {h} : pc'[k] = pc[k]
  BY <1>1 DEF TypeOK
<1>3. TypeOK'
  BY <1>1 DEF TypeOK, clientVars, tableVars
<1>4. ASSUME NEW d \in Device PROVE TableInv(d)' /\ Reached(d)' = Reached(d)
  BY <1>1, SameTable DEF tableVars
<1>5. JobInv(h)'
  BY <1>1, <1>2, <1>4 DEF JobInv
<1> QED
  BY <1>1, <1>2, <1>3, <1>4, <1>5, HandlerStep DEF Grows

LEMMA DiscardInv == ASSUME IInv, NEW h \in Handler, Discard(h) PROVE IInv'
<1> USE DEF IInv
<1>1. /\ \A d \in Device : conn[d] # h
      /\ pc' = [pc EXCEPT ![h] = "free"] /\ job' = [job EXCEPT ![h] = NoJob]
      /\ UNCHANGED <<tableVars, clientVars, failures>>
  BY DEF Discard, Free
<1>2. TypeOK'
  <2>1. NoJob \in Job
    BY DEF NoJob, Job
  <2> QED
    BY <1>1, <2>1 DEF TypeOK, clientVars, tableVars
<1>3. ASSUME NEW d \in Device PROVE TableInv(d)' /\ Reached(d)' = Reached(d)
  BY <1>1, SameTable DEF tableVars
<1>4. ASSUME NEW d \in Device PROVE BufferInv(d)' /\ Sent(d)' = Sent(d)
  BY <1>1, <1>3, SameBuffer DEF Grows, clientVars
<1>5. \A k \in Handler \ {h} : pc'[k] = pc[k] /\ job'[k] = job[k]
  BY <1>1 DEF TypeOK
<1>6. ASSUME NEW d \in Device PROVE BatchInv(d)'
  BY <1>1, <1>3, <1>4, <1>5, SameBatch DEF Grows, clientVars
<1>7. ASSUME NEW k \in Handler PROVE JobInv(k)'
  <2>1. CASE k = h
    BY <1>1, <2>1 DEF JobInv, TypeOK
  <2>2. CASE k # h
    BY <1>3, <1>5, <2>2, SameJob DEF Grows
  <2> QED
    BY <2>1, <2>2
<1> QED
  BY <1>2, <1>3, <1>4, <1>6, <1>7

\* What the device had is erased, so it still counts as having arrived.
LEMMA DeleteDeviceInv == ASSUME IInv, NEW d \in Device, DeleteDevice(d) PROVE IInv'
<1> USE DEF IInv
<1>1. /\ id' = [id EXCEPT ![d] = 0]
      /\ rows' = [rows EXCEPT ![d] = {r \in rows[d] : r.id # id[d]}]
      /\ erased' = [erased EXCEPT ![d] =
             erased[d] \cup {r.event : r \in {s \in rows[d] : s.id = id[d]}}]
      /\ UNCHANGED <<lastId, clientVars, handlerVars, failures>>
  BY DEF DeleteDevice
<1>2. /\ rows'[d] = {} /\ erased'[d] = erased[d] \cup Stored(d)
      /\ \A e \in Device \ {d} : rows'[e] = rows[e] /\ erased'[e] = erased[e] /\ id'[e] = id[e]
  BY <1>1 DEF TypeOK, TableInv, Stored
<1>3. TypeOK'
  <2>1. Stored(d) \subseteq Event
    BY DEF TypeOK, Stored, RowType
  <2>2. erased' = [erased EXCEPT ![d] = erased[d] \cup Stored(d)]
    BY <1>1, <1>2 DEF TypeOK
  <2>3. erased' \in [Device -> SUBSET Event]
    BY <2>1, <2>2 DEF TypeOK
  <2> QED
    BY <1>1, <2>3 DEF TypeOK, clientVars, handlerVars
<1>4. ASSUME NEW e \in Device PROVE Reached(e)' = Reached(e)
  BY <1>2 DEF Reached, Stored
<1>5. ASSUME NEW e \in Device PROVE TableInv(e)'
  BY <1>2, <1>4 DEF TableInv
<1>6. ASSUME NEW e \in Device PROVE BufferInv(e)' /\ Sent(e)' = Sent(e)
  BY <1>1, <1>4, SameBuffer DEF Grows, clientVars
<1>7. ASSUME NEW e \in Device PROVE BatchInv(e)'
  BY <1>1, <1>4, <1>6, SameBatch DEF Grows, clientVars, handlerVars
<1>8. ASSUME NEW h \in Handler PROVE JobInv(h)'
  BY <1>1, <1>4, SameJob DEF Grows, handlerVars
<1> QED
  BY <1>3, <1>5, <1>6, <1>7, <1>8

LEMMA RestartServerInv == ASSUME IInv, RestartServer PROVE IInv'
<1> USE DEF IInv
<1>1. /\ failures' \in 0..MaxFailures /\ UNCHANGED <<next, buffered, marked, tableVars>>
      /\ pc' = [h \in Handler |-> "free"] /\ job' = [h \in Handler |-> NoJob]
      /\ conn' = [d \in Device |-> None]
  BY FailType DEF RestartServer
<1>2. ASSUME NEW d \in Device
      PROVE  \/ phase'[d] = "backoff" /\ batch'[d] = batch[d] /\ tries'[d] = tries[d]
                   /\ tries[d] < MaxTries
             \/ phase'[d] = "idle" /\ batch'[d] = {} /\ tries'[d] = 0
             \/ conn[d] = None /\ phase'[d] = phase[d] /\ batch'[d] = batch[d]
                   /\ tries'[d] = tries[d]
  BY UploadAssumption DEF RestartServer, TriesLeft, TypeOK
<1>3. TypeOK'
  <2>1. NoJob \in Job
    BY DEF NoJob, Job
  <2>2. pc' \in [Handler -> {"free", "ensure", "insert", "ok", "failed", "refused"}]
        /\ job' \in [Handler -> Job] /\ conn' \in [Device -> Handler \cup {None}]
    BY <1>1, <2>1
  <2>3. \A d \in Device : /\ phase'[d] \in {"idle", "await", "backoff", "mark"}
                           /\ batch'[d] \in SUBSET Event /\ tries'[d] \in 0..MaxTries
    BY <1>2, UploadAssumption DEF TypeOK
  <2>4. /\ phase' = [d \in Device |-> phase'[d]] /\ batch' = [d \in Device |-> batch'[d]]
        /\ tries' = [d \in Device |-> tries'[d]]
    BY DEF RestartServer
  <2>5. /\ phase' \in [Device -> {"idle", "await", "backoff", "mark"}]
        /\ batch' \in [Device -> SUBSET Event] /\ tries' \in [Device -> 0..MaxTries]
    BY <2>3, <2>4
  <2> QED
    BY <1>1, <2>2, <2>5 DEF TypeOK, tableVars
<1>4. ASSUME NEW d \in Device PROVE TableInv(d)' /\ Reached(d)' = Reached(d)
  BY <1>1, SameTable DEF tableVars
<1>5. ASSUME NEW d \in Device PROVE BufferInv(d)' /\ Sent(d)' = Sent(d)
  BY <1>1, <1>4, SameBuffer DEF Grows
<1>6. ASSUME NEW d \in Device PROVE BatchInv(d)'
  <2>1. conn'[d] = None /\ next'[d] = next[d]
    BY <1>1
  <2>2. CASE phase'[d] = "backoff" /\ batch'[d] = batch[d] /\ tries'[d] < MaxTries
    BY <1>5, <2>1, <2>2, BackoffBatch
  <2>3. CASE phase'[d] = "idle" /\ batch'[d] = {}
    BY <2>1, <2>3, NoBatch
  <2>4. CASE conn[d] = None /\ phase'[d] = phase[d] /\ batch'[d] = batch[d]
             /\ tries'[d] = tries[d]
    BY <1>4, <1>5, <2>1, <2>4 DEF BatchInv
  <2> QED
    BY <1>2, <2>2, <2>3, <2>4
<1>7. ASSUME NEW h \in Handler PROVE JobInv(h)'
  BY <1>1 DEF JobInv
<1> QED
  BY <1>3, <1>4, <1>5, <1>6, <1>7

LEMMA StutterInv == ASSUME IInv, UNCHANGED vars PROVE IInv'
<1>1. UNCHANGED <<next, buffered, marked, phase, batch, tries, conn, pc, job, id, lastId,
                  rows, erased, failures>>
  BY DEF vars, clientVars, handlerVars, tableVars
<1>2. TypeOK'
  BY <1>1 DEF IInv, TypeOK
<1>3. ASSUME NEW d \in Device PROVE TableInv(d)' /\ Reached(d)' = Reached(d)
  BY <1>1, SameTable DEF IInv
<1>4. ASSUME NEW d \in Device PROVE BufferInv(d)' /\ Sent(d)' = Sent(d)
  BY <1>1, <1>3, SameBuffer DEF IInv, Grows
<1>5. ASSUME NEW d \in Device PROVE BatchInv(d)'
  BY <1>1, <1>3, <1>4, SameBatch DEF IInv, Grows
<1>6. ASSUME NEW h \in Handler PROVE JobInv(h)'
  BY <1>1, <1>3, SameJob DEF IInv, Grows
<1> QED
  BY <1>2, <1>3, <1>4, <1>5, <1>6 DEF IInv

LEMMA NextInv == ASSUME IInv, [Next]_vars PROVE IInv'
<1>1. CASE UNCHANGED vars
  BY <1>1, StutterInv
<1>2. ASSUME NEW d \in Device,
             Enqueue(d) \/ Upload(d) \/ LoseConnection(d) \/ MarkSentFails(d)
             \/ RestartService(d) \/ DeleteDevice(d)
      PROVE  IInv'
  <2>1. CASE Enqueue(d)
    BY <2>1, EnqueueInv
  <2>2. CASE Upload(d)
    BY <2>2, StartUploadInv, RetryInv, ReceiveOKInv, AttemptInv, MarkSentInv DEF Upload
  <2>3. CASE LoseConnection(d)
    BY <2>3, AttemptInv
  <2>4. CASE MarkSentFails(d) \/ RestartService(d)
    BY <2>4, GiveUpInv
  <2>5. CASE DeleteDevice(d)
    BY <2>5, DeleteDeviceInv
  <2> QED
    BY <1>2, <2>1, <2>2, <2>3, <2>4, <2>5
<1>3. ASSUME NEW h \in Handler, Serve(h) \/ EnsureFails(h) \/ InsertFails(h) PROVE IInv'
  <2>1. CASE Serve(h)
    BY <2>1, EnsureDeviceInv, InsertEventsInv, DiscardInv DEF Serve
  <2>2. CASE EnsureFails(h) \/ InsertFails(h)
    BY <2>2, TransactionFailsInv
  <2> QED
    BY <1>3, <2>1, <2>2
<1>4. CASE RestartServer
  BY <1>4, RestartServerInv
<1> QED
  BY <1>1, <1>2, <1>3, <1>4 DEF Next

-----------------------------------------------------------------------------
(* Theorems.                                                               *)

\* The inductive invariant holds of every reachable state of the upload.
THEOREM InvariantHolds == Spec => []IInv
<1>1. Init => IInv
  BY InitInv
<1>2. IInv /\ [Next]_vars => IInv'
  BY NextInv
<1> QED
  BY <1>1, <1>2, PTL DEF Spec

\* Buffer, upload loop, handlers and events table keep their types.
THEOREM TypeCorrect == Spec => []TypeOK
<1>1. IInv => TypeOK
  BY DEF IInv
<1> QED
  BY <1>1, InvariantHolds, PTL

\* MarkSent and its purge remove from the buffer's queue only what the server has
\* inserted, for any batch size, number of attempts, devices and failures.
THEOREM NothingIsLost == Spec => []NoLoss
<1>1. IInv => NoLoss
  BY InvSafe
<1> QED
  BY <1>1, InvariantHolds, PTL

\* INSERT OR IGNORE makes every retry and every abandoned attempt harmless.
THEOREM NothingIsDoubled == Spec => []NoDuplicate
<1>1. IInv => NoDuplicate
  BY InvSafe
<1> QED
  BY <1>1, InvariantHolds, PTL

\* The events that reached the server are always a prefix of the device's events.
THEOREM NothingIsLeftOut == Spec => []NoGaps
<1>1. IInv => NoGaps
  BY InvSafe
<1> QED
  BY <1>1, InvariantHolds, PTL

\* A batch whose device was deleted, and perhaps registered again, meanwhile
\* leaves no row behind that the device row of now does not own.
THEOREM NoOrphanedRows == Spec => []RowsHaveDevice
<1>1. IInv => RowsHaveDevice
  BY InvSafe
<1> QED
  BY <1>1, InvariantHolds, PTL

\* Only DeleteDevice removes rows of the events table.
THEOREM OnlyDeletionForgets == Spec => ForgetsOnlyWithDevice
<1> DEFINE Step == \A d \in Device : Stored(d) \subseteq Stored(d)' \/ (id[d] # 0 /\ id'[d] = 0)
<1>1. IInv /\ [Next]_vars => Step
  <2> SUFFICES ASSUME IInv, [Next]_vars PROVE Step
    OBVIOUS
  <2>1. CASE UNCHANGED rows
    BY <2>1 DEF Stored
  <2>2. ASSUME NEW h \in Handler, InsertEvents(h) PROVE Step
    BY <2>2 DEF InsertEvents, IInv, TypeOK, Stored
  <2>3. ASSUME NEW d \in Device, DeleteDevice(d) PROVE Step
    BY <2>3 DEF DeleteDevice, IInv, TypeOK, Stored
  <2>4. ASSUME NEW d \in Device,
               Enqueue(d) \/ Upload(d) \/ LoseConnection(d) \/ MarkSentFails(d)
               \/ RestartService(d)
        PROVE  UNCHANGED rows
    BY <2>4 DEF Enqueue, Upload, LoseConnection, MarkSentFails, RestartService, StartUpload,
       Retry, ReceiveOK, ReceiveFailed, ReceiveRefused, MarkSent, tableVars
  <2>5. ASSUME NEW h \in Handler, EnsureDevice(h) \/ Discard(h) \/ EnsureFails(h) \/ InsertFails(h)
        PROVE  UNCHANGED rows
    BY <2>5 DEF EnsureDevice, Discard, EnsureFails, InsertFails, tableVars
  <2>6. CASE RestartServer \/ UNCHANGED vars
    BY <2>1, <2>6 DEF RestartServer, vars, tableVars
  <2> QED
    BY <2>1, <2>2, <2>3, <2>4, <2>5, <2>6 DEF Next, Serve
<1>2. IInv /\ [Next]_vars => [Step]_vars
  BY <1>1
<1> QED
  BY <1>2, InvariantHolds, PTL DEF Spec, ForgetsOnlyWithDevice

=============================================================================
