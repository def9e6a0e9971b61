---------------------- MODULE AccountingHistoryProofs -----------------------
(***************************************************************************)
(* The whole history in the log: in which order the records of an attempt, *)
(* a request and a Run stand, what each goroutine will find there, and     *)
(* what the read model has read of it. From it: the read model is a replay *)
(* of the log, only a leaked lease on a Run stops a start, and, where an   *)
(* error means that nothing was written, every start succeeds and          *)
(* everything a provider received is settled once.                         *)
(***************************************************************************)
EXTENDS AccountingOrderProofs

-----------------------------------------------------------------------------
(* The order of records *)

\* The progress of an append whose record cannot be in the log.
Unwritten == {"none", "queued"}

\* What record i of the log says.
ReservedAt(a, i)  == log[i] = ReservationCreated(a)
StartedAt(a, i)   == log[i] = AttemptStarted(a)
AcceptedAt(r, i)  == log[i] = RequestAccepted(r)
FinalizedAt(r, i) == log[i] = RequestFinalized(r)
ClosedAt(u, i)    == log[i] = RunClosed(u)
About(r, i)       == log[i].kind # "RunClosed" /\ RequestOf(log[i]) = r

\* An attempt is reserved, started and settled at most once, in this order.
LeaseOrdered(a) ==
  /\ \A i, j \in 1..Len(log) :
       /\ ReservedAt(a, i) /\ ReservedAt(a, j) => i = j
       /\ StartedAt(a, i) /\ StartedAt(a, j) => i = j
       /\ SettlesAt(a, i) /\ SettlesAt(a, j) => i = j
       /\ StartedAt(a, i) /\ SettlesAt(a, j) => i < j
  /\ \A j \in 1..Len(log) : StartedAt(a, j) \/ SettlesAt(a, j) =>
       \E i \in 1..Len(log) : i < j /\ ReservedAt(a, i)

\* A request begins with its acceptance, and after its end only what it leaked is settled.
RequestOrdered(r) ==
  /\ \A i, j \in 1..Len(log) :
       /\ AcceptedAt(r, i) /\ AcceptedAt(r, j) => i = j
       /\ FinalizedAt(r, i) /\ About(r, j) /\ i < j => log[j].kind = "AttemptSettled"
  /\ \A j \in 1..Len(log) : About(r, j) =>
       \E i \in 1..Len(log) : i <= j /\ AcceptedAt(r, i)

\* A Run is closed at most once.
CloseOrdered(u) == \A i, j \in 1..Len(log) : ClosedAt(u, i) /\ ClosedAt(u, j) => i = j

\* The log keeps these orders for every attempt, request and Run.
LogOrdered ==
  /\ \A a \in Attempts : LeaseOrdered(a)
  /\ \A r \in Requests : RequestOrdered(r)
  /\ \A u \in Runs : CloseOrdered(u)

\* A request that has been accepted and whose end is not in the log.
InLoop(r) ==
  \/ pc[r] \in {"ready", "reserve", "reserved", "start", "calling", "called", "settle", "settleRetry"}
  \/ pc[r] = "finalize" /\ io[r] \in Unwritten

\* What the whole log says of an attempt and of a request.
ReservedIn(a)   == \E i \in 1..Len(log) : ReservedAt(a, i)
StartedIn(a)    == \E i \in 1..Len(log) : StartedAt(a, i)
SettledIn(a)    == \E i \in 1..Len(log) : SettlesAt(a, i)
AcceptedIn(r)   == \E i \in 1..Len(log) : AcceptedAt(r, i)
FinalizedIn(r)  == \E i \in 1..Len(log) : FinalizedAt(r, i)
Mentioned(r)    == \E i \in 1..Len(log) : About(r, i)
OnlyAccepted(r) == \A i \in 1..Len(log) : About(r, i) => AcceptedAt(r, i)

\* What the log holds of the attempt a request is at.
AttemptStands(r, a) ==
  /\ pc[r] = "ready" \/ (pc[r] = "reserve" /\ io[r] \in Unwritten) => ~ReservedIn(a)
  /\ \/ pc[r] \in {"reserve", "reserved", "start", "calling", "called"}
     \/ pc[r] \in {"settle", "settleRetry"} /\ io[r] \in Unwritten
     => ~SettledIn(a)
  /\ pc[r] \in {"reserve", "reserved"} \/ (pc[r] = "start" /\ io[r] \in Unwritten) => ~StartedIn(a)
  /\ pc[r] \in {"reserved", "start", "calling", "called", "settle", "settleRetry"} => ReservedIn(a)

\* What the log holds of a request at each of its control points.
StandsInLog(r) ==
  /\ pc[r] = "idle" \/ (pc[r] = "begin" /\ io[r] \in Unwritten) => ~Mentioned(r)
  /\ pc[r] = "begin" => OnlyAccepted(r)
  /\ InLoop(r) => AcceptedIn(r) /\ ~FinalizedIn(r)
  /\ \A a \in Attempts : a[1] = r =>
       /\ InLoop(r) /\ a[2] > att[r] => ~ReservedIn(a)
       /\ a = Current(r) => AttemptStands(r, a)

\* The startup goroutine has read the whole log before it resolves a lease, and the
\* settlement it waits for is the last record.
RecoveryAhead ==
  pc[Recovery] = "recover" =>
    /\ io[Recovery] \in {"none", "queued", "ok"} => st.wm = Len(log)
    /\ io[Recovery] = "durable" => seq[Recovery] = Len(log)
    /\ io[Recovery] = "err" => applyErr \/ status # "healthy"
    /\ io[Recovery] # "confirm"

\* It settles leases that are pending.
RecoveryPending ==
  \A i \in 1..Len(queue) : queue[i].proc = Recovery =>
    queue[i].event.kind = "AttemptSettled" /\ st.lease[queue[i].event.att] # "none"

\* The part of the log the read model has applied says this of an attempt and a request.
ReadReserved(a)  == \E i \in 1..Len(log) : i <= st.wm /\ ReservedAt(a, i)
ReadStarted(a)   == \E i \in 1..Len(log) : i <= st.wm /\ StartedAt(a, i)
ReadSettled(a)   == \E i \in 1..Len(log) : i <= st.wm /\ SettlesAt(a, i)
ReadAccepted(r)  == \E i \in 1..Len(log) : i <= st.wm /\ AcceptedAt(r, i)
ReadFinalized(r) == \E i \in 1..Len(log) : i <= st.wm /\ FinalizedAt(r, i)

\* The read model's leases and requests are those of the log up to its watermark.
LeasesRead ==
  \A a \in Attempts :
    /\ st.lease[a] # "none" <=> ReadReserved(a) /\ ~ReadSettled(a)
    /\ st.lease[a] # "none" => (st.lease[a] = "started" <=> ReadStarted(a))
RequestsRead ==
  \A r \in Requests : RunOf[r] # NoRun =>
    (r \in st.requestRuns <=> ReadAccepted(r) /\ ~ReadFinalized(r))

\* What the log is by itself, what each goroutine will find in it, and what has been read.
HistoryInv ==
  /\ LogOrdered /\ (\A r \in Requests : StandsInLog(r))
  /\ RecoveryAhead /\ RecoveryPending /\ LeasesRead /\ RequestsRead

\* Everything proved so far of the accounting path.
KnownInv == TypeInv /\ CallInv /\ AdmissionsCounted /\ Conservation /\ CloseInv /\ ApplyInv

\* What the records of the log look like by their kind.
LEMMA RecordForms ==
  ASSUME TypeInv, NEW i \in 1..Len(log)
  PROVE  /\ log[i] \in Events
         /\ log[i].kind = "RequestAccepted" => log[i].req \in Requests /\ AcceptedAt(log[i].req, i)
         /\ log[i].kind = "RequestFinalized" => log[i].req \in Requests /\ FinalizedAt(log[i].req, i)
         /\ log[i].kind = "ReservationCreated" => log[i].att \in Attempts /\ ReservedAt(log[i].att, i)
         /\ log[i].kind = "AttemptStarted" => log[i].att \in Attempts /\ StartedAt(log[i].att, i)
         /\ log[i].kind = "AttemptSettled" => log[i].att \in Attempts /\ SettlesAt(log[i].att, i)
         /\ log[i].kind = "RunClosed" => log[i].run \in Runs /\ ClosedAt(log[i].run, i)
<1>1. log[i] \in Events
  BY ElementOfSeq DEF TypeInv, TypeOK
<1>2. CASE log[i] \in RequestEvents
  BY <1>1, <1>2 DEF RequestEvents, AcceptedAt, FinalizedAt, RequestAccepted, RequestFinalized
<1>3. CASE log[i] \in LeaseEvents
  BY <1>1, <1>3 DEF LeaseEvents, ReservedAt, StartedAt, ReservationCreated, AttemptStarted
<1>4. CASE log[i] \in SettledEvents
  BY <1>1, <1>4 DEF SettledEvents, SettlesAt
<1>5. CASE log[i] \in RunEvents
  BY <1>1, <1>5 DEF RunEvents, ClosedAt, RunClosed
<1> QED BY <1>1, <1>2, <1>3, <1>4, <1>5 DEF Events

\* What a record says fixes its kind and the request it is about.
LEMMA FormsAbout ==
  ASSUME NEW i
  PROVE  /\ \A a \in Attempts : ReservedAt(a, i) =>
              log[i].kind = "ReservationCreated" /\ log[i].att = a /\ About(a[1], i)
         /\ \A a \in Attempts : StartedAt(a, i) =>
              log[i].kind = "AttemptStarted" /\ log[i].att = a /\ About(a[1], i)
         /\ \A a \in Attempts : SettlesAt(a, i) => About(a[1], i)
         /\ \A r : AcceptedAt(r, i) =>
              log[i].kind = "RequestAccepted" /\ log[i].req = r /\ About(r, i)
         /\ \A r : FinalizedAt(r, i) =>
              log[i].kind = "RequestFinalized" /\ log[i].req = r /\ About(r, i)
         /\ \A u : ClosedAt(u, i) => log[i].kind = "RunClosed" /\ log[i].run = u
BY DEF ReservedAt, StartedAt, SettlesAt, AcceptedAt, FinalizedAt, ClosedAt, About, RequestOf,
       ReservationCreated, AttemptStarted, RequestAccepted, RequestFinalized, RunClosed

\* The writer adds one record about r, at j: the one r waits for, or the settlement of a
\* lease that the startup goroutine resolves.
Adds(r, j) ==
  /\ j \in 1..Len(log') /\ j > Len(log)
  /\ About(r, j)'
  /\ \A i \in 1..Len(log') : About(r, i)' /\ i > Len(log) => i = j
  /\ \/ /\ io[r] = "queued" /\ pc[r] \in Appending /\ io'[r] \notin Unwritten
        /\ log'[j] = EventOf(r)
     \/ /\ pc[r] \in {"idle", "done"} /\ pc[Recovery] = "recover" /\ st.wm = Len(log)
        /\ log'[j].kind = "AttemptSettled" /\ st.lease[log'[j].att] # "none"

\* A record of a request is about it.
LEMMA EventAbout ==
  ASSUME TypeInv, NEW r \in Requests, pc[r] \in Appending
  PROVE  EventOf(r).kind # "RunClosed" /\ RequestOf(EventOf(r)) = r
<1>1. pc[r] \in {"begin", "reserve", "start", "settle", "settleRetry", "finalize"}
  BY DEF TypeInv, TypeOK, RequestPoints, Appending
<1>2. CASE pc[r] \in {"begin", "finalize"}
  BY <1>2 DEF EventOf, RequestAccepted, RequestFinalized, RequestOf
<1>3. CASE pc[r] \in {"reserve", "start", "settle", "settleRetry"}
  BY <1>3 DEF EventOf, ReservationCreated, AttemptStarted, AttemptSettled, RequestOf, Current
<1> QED BY <1>1, <1>2, <1>3

\* Of every request the writer adds at most one record.
LEMMA WriterAdds ==
  ASSUME KnownInv, RecoveryAhead, RecoveryPending, [Next]_vars, Writer, NEW r \in Requests
  PROVE  \A j \in 1..Len(log') : About(r, j)' /\ j > Len(log) => Adds(r, j)
<1>1. PICK n \in BatchSizes : WriteBatch(n) \/ WriteFails(n) \/ DropBatch(n)
  BY DEF Writer
<1>2. /\ Len(log) \in Nat /\ Len(log') \in Nat /\ Len(log) <= Len(log')
  BY LogGrows DEF KnownInv
<1>3. n \in 1..Len(queue) /\ Len(queue) \in Nat
  BY BatchType, <1>2 DEF KnownInv, TypeInv, BatchSizes
<1>4. QueueOwned /\ OthersQueued /\ OnlyServing /\ TypeInv
  BY DEF KnownInv, CallInv, CloseInv
<1>5. \A m \in 1..n : m \in 1..Len(queue) /\ queue[m] \in AppendRequests
  BY <1>3, <1>4, ElementOfSeq DEF TypeInv, TypeOK
<1>6. ASSUME NEW j \in 1..Len(log'), About(r, j)', j > Len(log)
      PROVE  \E m \in 1..n :
               /\ j = Len(log) + m /\ log'[j] = queue[m].event
               /\ \/ /\ queue[m].proc = r
                     /\ io[r] = "queued" /\ pc[r] \in Appending /\ io'[r] \notin Unwritten
                     /\ log'[j] = EventOf(r)
                  \/ /\ queue[m].proc = Recovery
                     /\ pc[r] \in {"idle", "done"} /\ pc[Recovery] = "recover" /\ st.wm = Len(log)
                     /\ log'[j].kind = "AttemptSettled" /\ st.lease[log'[j].att] # "none"
  <2>1. PICK m \in 1..n : j = Len(log) + m /\ log'[j] = queue[m].event
    BY <1>1, <1>2, <1>4, <1>6, LogWritten
  <2>2. queue[m].event.kind # "RunClosed" /\ RequestOf(queue[m].event) = r
    BY <1>6, <2>1 DEF About
  <2>3. queue[m].proc \in Requests \/ queue[m].proc \in Runs \/ queue[m].proc = Recovery
    BY <1>5 DEF AppendRequests, Procs
  <2>4. CASE queue[m].proc \in Requests
    <3>1. /\ io[queue[m].proc] = "queued" /\ pc[queue[m].proc] \in Appending
          /\ queue[m].event = EventOf(queue[m].proc)
      BY <1>4, <1>5, <2>4 DEF QueueOwned
    <3>2. queue[m].proc = r
      BY <1>4, <2>2, <2>4, <3>1, EventAbout
    <3>3. InBatch(n, r) /\ r \in Procs
      BY <3>2, ProcsDistinct DEF InBatch
    <3>4. io'[r] \in {"durable", "err"}
      BY <1>1, <3>3 DEF WriteBatch, WriteFails, DropBatch
    <3> QED BY <2>1, <3>1, <3>2, <3>4 DEF Unwritten
  <2>5. CASE queue[m].proc \in Runs
    <3>1. queue[m].event = RunClosed(queue[m].proc)
      BY <1>4, <1>5, <2>5 DEF OthersQueued
    <3>2. queue[m].event.kind = "RunClosed"
      BY <3>1 DEF RunClosed
    <3> QED BY <2>2, <3>2
  <2>6. CASE queue[m].proc = Recovery
    <3>1. io[Recovery] = "queued" /\ pc[Recovery] = "recover"
      BY <1>4, <1>5, <2>6 DEF OthersQueued
    <3>2. pc[r] \in {"idle", "done"}
      BY <1>4, <3>1 DEF OnlyServing
    <3>3. st.wm = Len(log)
      BY <3>1 DEF RecoveryAhead
    <3>4. queue[m].event.kind = "AttemptSettled" /\ st.lease[queue[m].event.att] # "none"
      BY <1>5, <2>6 DEF RecoveryPending
    <3> QED BY <2>1, <2>6, <3>1, <3>2, <3>3, <3>4
  <2> QED BY <2>3, <2>4, <2>5, <2>6
<1>7. ASSUME NEW j \in 1..Len(log'), About(r, j)', j > Len(log) PROVE Adds(r, j)
  <2>1. PICK m \in 1..n :
               /\ j = Len(log) + m /\ log'[j] = queue[m].event
               /\ \/ /\ queue[m].proc = r
                     /\ io[r] = "queued" /\ pc[r] \in Appending /\ io'[r] \notin Unwritten
                     /\ log'[j] = EventOf(r)
                  \/ /\ queue[m].proc = Recovery
                     /\ pc[r] \in {"idle", "done"} /\ pc[Recovery] = "recover" /\ st.wm = Len(log)
                     /\ log'[j].kind = "AttemptSettled" /\ st.lease[log'[j].att] # "none"
    BY <1>6, <1>7
  <2>2. ASSUME NEW i \in 1..Len(log'), About(r, i)', i > Len(log) PROVE i = j
    <3>1. PICK k \in 1..n :
               /\ i = Len(log) + k /\ log'[i] = queue[k].event
               /\ \/ /\ queue[k].proc = r
                     /\ io[r] = "queued" /\ pc[r] \in Appending /\ io'[r] \notin Unwritten
                     /\ log'[i] = EventOf(r)
                  \/ /\ queue[k].proc = Recovery
                     /\ pc[r] \in {"idle", "done"} /\ pc[Recovery] = "recover" /\ st.wm = Len(log)
                     /\ log'[i].kind = "AttemptSettled" /\ st.lease[log'[i].att] # "none"
      BY <1>6, <2>2
    <3>2. queue[k].proc = queue[m].proc /\ queue[k].proc \in {r, Recovery}
      BY <2>1, <3>1 DEF Appending
    <3>3. k = m
      <4>1. k \in 1..Len(queue) /\ m \in 1..Len(queue)
        BY <1>5
      <4> QED BY <1>4, <3>1, <3>2, <4>1 DEF QueueOwned, OthersQueued
    <3> QED BY <2>1, <3>1, <3>3
  <2> QED BY <1>7, <2>1, <2>2 DEF Adds
<1> QED BY <1>7

\* Only the writer adds to the log.
LEMMA OnlyWriterWrites ==
  ASSUME TypeInv, [Next]_vars, ~Writer
  PROVE  log' = log
<1> USE DEF ledgerVars, admissionVars, controlVars, worldVars
<1>1. ASSUME NEW p \in Procs, AppendReturns(p) PROVE log' = log
  BY <1>1 DEF AppendReturns, Refuse, ApplyRecord, MarkUnavailable, WaitConfirmed
<1>2. ASSUME NEW p \in Procs, NEW e, Enqueue(p, e) PROVE log' = log
  BY <1>2 DEF Enqueue
<1>3. ASSUME NEW r \in Requests, BeginRequest(r) \/ RequestStep(r) PROVE log' = log
  BY <1>3, RequestMoves
<1>4. ASSUME NEW u \in Runs, CloseRun(u) \/ CloseProceeds(u) \/ CloseReturns(u) \/ Expire(u)
      PROVE  log' = log
  BY <1>4 DEF CloseRun, CloseProceeds, CloseReturns, Expire
<1>5. ASSUME Crash \/ Startup PROVE log' = log
  BY <1>1, <1>2, <1>5, ProcsDistinct
     DEF Crash, Startup, Replay, ReplayDone, RecoverLease, RecoverReturns, RecoverDone
<1>6. ASSUME Terminated \/ UNCHANGED vars PROVE log' = log
  BY <1>6 DEF Terminated, vars
<1> QED BY <1>1, <1>2, <1>3, <1>4, <1>5, <1>6, ProcsDistinct DEF Next, AppendStep, CloseStep

\* A record that is in the log says the same for ever.
LEMMA OldRecords ==
  ASSUME TypeInv, [Next]_vars, NEW i \in 1..Len(log)
  PROVE  /\ i \in 1..Len(log') /\ log'[i] = log[i]
         /\ \A a : /\ ReservedAt(a, i)' <=> ReservedAt(a, i)
                   /\ StartedAt(a, i)' <=> StartedAt(a, i)
                   /\ SettlesAt(a, i)' <=> SettlesAt(a, i)
         /\ \A r : /\ AcceptedAt(r, i)' <=> AcceptedAt(r, i)
                   /\ FinalizedAt(r, i)' <=> FinalizedAt(r, i)
                   /\ About(r, i)' <=> About(r, i)
         /\ \A u : ClosedAt(u, i)' <=> ClosedAt(u, i)
<1>1. i \in 1..Len(log') /\ log'[i] = log[i]
  BY LogGrows
<1> QED BY <1>1 DEF ReservedAt, StartedAt, SettlesAt, AcceptedAt, FinalizedAt, About, ClosedAt,
                    ReservationCreated, AttemptStarted, RequestAccepted, RequestFinalized, RunClosed,
                    RequestOf

\* FormsAbout, of the next state.
LEMMA FormsAboutNext ==
  ASSUME NEW i
  PROVE  /\ \A a \in Attempts : ReservedAt(a, i)' =>
              log'[i].kind = "ReservationCreated" /\ log'[i].att = a /\ About(a[1], i)'
         /\ \A a \in Attempts : StartedAt(a, i)' =>
              log'[i].kind = "AttemptStarted" /\ log'[i].att = a /\ About(a[1], i)'
         /\ \A a \in Attempts : SettlesAt(a, i)' => About(a[1], i)'
         /\ \A r : AcceptedAt(r, i)' =>
              log'[i].kind = "RequestAccepted" /\ log'[i].req = r /\ About(r, i)'
         /\ \A r : FinalizedAt(r, i)' =>
              log'[i].kind = "RequestFinalized" /\ log'[i].req = r /\ About(r, i)'
         /\ \A u : ClosedAt(u, i)' => log'[i].kind = "RunClosed" /\ log'[i].run = u
BY DEF ReservedAt, StartedAt, SettlesAt, AcceptedAt, FinalizedAt, ClosedAt, About, RequestOf,
       ReservationCreated, AttemptStarted, RequestAccepted, RequestFinalized, RunClosed

\* The records an index of the next log can have.
Fresh(i) == i \in 1..Len(log') /\ i > Len(log)

\* A record of the next log was there before or has just been written.
LEMMA OldOrFresh ==
  ASSUME TypeInv, [Next]_vars, NEW i \in 1..Len(log')
  PROVE  /\ i \in 1..Len(log) \/ Fresh(i)
         /\ Fresh(i) => \A k \in 1..Len(log) : k < i /\ ~(i < k) /\ i # k
BY LogGrows DEF Fresh

\* What a new record of an attempt needs of the log before it.
LEMMA LeaseExtends ==
  ASSUME TypeInv, [Next]_vars, NEW a \in Attempts, LeaseOrdered(a),
         \A i, j : Fresh(i) /\ Fresh(j) /\ About(a[1], i)' /\ About(a[1], j)' => i = j,
         \A j : Fresh(j) =>
           /\ ReservedAt(a, j)' => \A i \in 1..Len(log) : ~ReservedAt(a, i)
           /\ StartedAt(a, j)' => /\ \A i \in 1..Len(log) : ~StartedAt(a, i) /\ ~SettlesAt(a, i)
                                  /\ \E i \in 1..Len(log) : ReservedAt(a, i)
           /\ SettlesAt(a, j)' => /\ \A i \in 1..Len(log) : ~SettlesAt(a, i)
                                  /\ \E i \in 1..Len(log) : ReservedAt(a, i)
  PROVE  LeaseOrdered(a)'
<1>1. ASSUME NEW i \in 1..Len(log'), NEW j \in 1..Len(log')
      PROVE  /\ ReservedAt(a, i)' /\ ReservedAt(a, j)' => i = j
             /\ StartedAt(a, i)' /\ StartedAt(a, j)' => i = j
             /\ SettlesAt(a, i)' /\ SettlesAt(a, j)' => i = j
             /\ StartedAt(a, i)' /\ SettlesAt(a, j)' => i < j
  <2>1. CASE i \in 1..Len(log) /\ j \in 1..Len(log)
    BY <2>1, OldRecords DEF LeaseOrdered
  <2>2. CASE i \in 1..Len(log) /\ Fresh(j)
    BY <2>2, OldRecords, OldOrFresh
  <2>3. CASE Fresh(i) /\ j \in 1..Len(log)
    BY <2>3, OldRecords
  <2>4. CASE Fresh(i) /\ Fresh(j)
    <3>1. StartedAt(a, i)' => ~SettlesAt(a, i)'
      BY FormsAboutNext DEF SettlesAt
    <3> QED BY <2>4, <3>1, FormsAboutNext
  <2> QED BY <2>1, <2>2, <2>3, <2>4, OldOrFresh
<1>2. ASSUME NEW j \in 1..Len(log'), StartedAt(a, j)' \/ SettlesAt(a, j)'
      PROVE  \E i \in 1..Len(log') : i < j /\ ReservedAt(a, i)'
  <2>1. CASE j \in 1..Len(log)
    BY <1>2, <2>1, OldRecords DEF LeaseOrdered
  <2>2. CASE Fresh(j)
    BY <1>2, <2>2, OldRecords, OldOrFresh
  <2> QED BY <2>1, <2>2, OldOrFresh
<1> QED BY <1>1, <1>2 DEF LeaseOrdered

\* What a new record of a request needs of the log before it.
LEMMA RequestExtends ==
  ASSUME TypeInv, [Next]_vars, NEW r \in Requests, RequestOrdered(r),
         \A i, j : Fresh(i) /\ Fresh(j) /\ About(r, i)' /\ About(r, j)' => i = j,
         \A j : Fresh(j) /\ About(r, j)' =>
           /\ AcceptedAt(r, j)' => \A i \in 1..Len(log) : ~AcceptedAt(r, i)
           /\ (\E i \in 1..Len(log) : FinalizedAt(r, i)) => log'[j].kind = "AttemptSettled"
           /\ AcceptedAt(r, j)' \/ \E i \in 1..Len(log) : AcceptedAt(r, i)
  PROVE  RequestOrdered(r)'
<1>1. ASSUME NEW i \in 1..Len(log'), NEW j \in 1..Len(log')
      PROVE  /\ AcceptedAt(r, i)' /\ AcceptedAt(r, j)' => i = j
             /\ FinalizedAt(r, i)' /\ About(r, j)' /\ i < j => log'[j].kind = "AttemptSettled"
  <2>0. i \in Nat /\ j \in Nat
    OBVIOUS
  <2>1. CASE i \in 1..Len(log) /\ j \in 1..Len(log)
    BY <2>1, OldRecords DEF RequestOrdered
  <2>2. CASE i \in 1..Len(log) /\ Fresh(j)
    BY <2>2, OldRecords, FormsAboutNext
  <2>3. CASE Fresh(i) /\ j \in 1..Len(log)
    <3>1. ~(i < j)
      BY <2>3, OldOrFresh
    <3> QED BY <2>3, <3>1, OldRecords, FormsAboutNext
  <2>4. CASE Fresh(i) /\ Fresh(j)
    <3>1. About(r, i)' /\ About(r, j)' => i = j
      BY <2>4
    <3>2. ~(i < i)
      BY <2>0
    <3> QED BY <3>1, <3>2, FormsAboutNext
  <2> QED BY <2>1, <2>2, <2>3, <2>4, OldOrFresh
<1>2. ASSUME NEW j \in 1..Len(log'), About(r, j)'
      PROVE  \E i \in 1..Len(log') : i <= j /\ AcceptedAt(r, i)'
  <2>1. CASE j \in 1..Len(log)
    BY <1>2, <2>1, OldRecords DEF RequestOrdered
  <2>2. CASE Fresh(j)
    <3>1. CASE AcceptedAt(r, j)'
      <4>1. j \in Nat /\ j <= j
        OBVIOUS
      <4> QED BY <3>1, <4>1
    <3>2. ASSUME NEW i \in 1..Len(log), AcceptedAt(r, i)
          PROVE  i \in 1..Len(log') /\ i <= j /\ AcceptedAt(r, i)'
      <4>1. i < j /\ i \in Nat /\ j \in Nat
        BY <2>2, OldOrFresh
      <4>2. i <= j
        BY <4>1
      <4> QED BY <3>2, <4>2, OldRecords
    <3> QED BY <1>2, <2>2, <3>1, <3>2
  <2> QED BY <2>1, <2>2, OldOrFresh
<1> QED BY <1>1, <1>2 DEF RequestOrdered

\* A new record about a request is the only one, and is what Adds says.
LEMMA FreshAdds ==
  ASSUME KnownInv, RecoveryAhead, RecoveryPending, [Next]_vars, NEW r \in Requests
  PROVE  /\ \A j : Fresh(j) /\ About(r, j)' => Adds(r, j)
         /\ \A i, j : Fresh(i) /\ Fresh(j) /\ About(r, i)' /\ About(r, j)' => i = j
<1>1. CASE Writer
  <2>1. \A j : Fresh(j) /\ About(r, j)' => Adds(r, j)
    BY <1>1, WriterAdds DEF Fresh
  <2> QED BY <2>1 DEF Adds, Fresh
<1>2. CASE ~Writer
  <2>1. log' = log /\ Len(log) \in Nat
    BY <1>2, OnlyWriterWrites, LogGrows DEF KnownInv
  <2> QED BY <2>1 DEF Fresh
<1> QED BY <1>1, <1>2

\* The startup goroutine settles leases that are open in the log.
LEMMA RecoveredOpen ==
  ASSUME KnownInv, LeasesRead, NEW a \in Attempts, st.wm = Len(log), st.lease[a] # "none"
  PROVE  /\ \E i \in 1..Len(log) : ReservedAt(a, i)
         /\ \A i \in 1..Len(log) : ~SettlesAt(a, i)
<1>1. \A i \in 1..Len(log) : i <= st.wm
  OBVIOUS
<1> QED BY <1>1 DEF LeasesRead, ReadReserved, ReadSettled

\* What a request appends at each of its control points.
LEMMA EventForms ==
  ASSUME TypeInv, NEW r \in Requests, pc[r] \in Appending
  PROVE  \/ pc[r] = "begin" /\ EventOf(r) = RequestAccepted(r)
         \/ pc[r] = "reserve" /\ EventOf(r) = ReservationCreated(Current(r))
         \/ pc[r] = "start" /\ EventOf(r) = AttemptStarted(Current(r))
         \/ pc[r] \in {"settle", "settleRetry"} /\ EventOf(r) = AttemptSettled(Current(r), bill[r])
         \/ pc[r] = "finalize" /\ EventOf(r) = RequestFinalized(r)
<1>1. pc[r] \in {"begin", "reserve", "start", "settle", "settleRetry", "finalize"}
  BY DEF TypeInv, TypeOK, RequestPoints, Appending
<1> QED BY <1>1 DEF EventOf

\* What a new record says follows from the point of its request.
LEMMA AddsForms ==
  ASSUME KnownInv, NEW r \in Requests, NEW j, Adds(r, j), log'[j] = EventOf(r), pc[r] \in Appending
  PROVE  /\ \A a \in Attempts : ReservedAt(a, j)' => pc[r] = "reserve" /\ a = Current(r)
         /\ \A a \in Attempts : StartedAt(a, j)' => pc[r] = "start" /\ a = Current(r)
         /\ \A a \in Attempts : SettlesAt(a, j)' =>
              pc[r] \in {"settle", "settleRetry"} /\ a = Current(r)
         /\ \A q : AcceptedAt(q, j)' <=> pc[r] = "begin" /\ q = r
         /\ \A q : FinalizedAt(q, j)' => pc[r] = "finalize" /\ q = r
         /\ pc[r] = "reserve" => log'[j] = ReservationCreated(Current(r))
<1>1. TypeInv
  BY DEF KnownInv
<1>2. CASE pc[r] = "begin" /\ EventOf(r) = RequestAccepted(r)
  BY <1>2 DEF ReservedAt, StartedAt, SettlesAt, AcceptedAt, FinalizedAt, ReservationCreated,
              AttemptStarted, RequestAccepted, RequestFinalized
<1>3. CASE pc[r] = "reserve" /\ EventOf(r) = ReservationCreated(Current(r))
  BY <1>3 DEF ReservedAt, StartedAt, SettlesAt, AcceptedAt, FinalizedAt, ReservationCreated,
              AttemptStarted, RequestAccepted, RequestFinalized
<1>4. CASE pc[r] = "start" /\ EventOf(r) = AttemptStarted(Current(r))
  BY <1>4 DEF ReservedAt, StartedAt, SettlesAt, AcceptedAt, FinalizedAt, ReservationCreated,
              AttemptStarted, RequestAccepted, RequestFinalized
<1>5. CASE /\ pc[r] \in {"settle", "settleRetry"}
           /\ EventOf(r) = AttemptSettled(Current(r), bill[r])
  BY <1>5 DEF ReservedAt, StartedAt, SettlesAt, AcceptedAt, FinalizedAt, ReservationCreated,
              AttemptStarted, RequestAccepted, RequestFinalized, AttemptSettled
<1>6. CASE pc[r] = "finalize" /\ EventOf(r) = RequestFinalized(r)
  BY <1>6 DEF ReservedAt, StartedAt, SettlesAt, AcceptedAt, FinalizedAt, ReservationCreated,
              AttemptStarted, RequestAccepted, RequestFinalized
<1> QED BY <1>1, <1>2, <1>3, <1>4, <1>5, <1>6, EventForms

\* A new record continues the history of its attempt.
LEMMA LeaseOrderedNext ==
  ASSUME KnownInv, HistoryInv, [Next]_vars, NEW a \in Attempts
  PROVE  LeaseOrdered(a)'
<1> DEFINE r == a[1]
<1>1. /\ TypeInv /\ RecoveryAhead /\ RecoveryPending /\ LeasesRead /\ LeaseOrdered(a)
      /\ r \in Requests /\ StandsInLog(r)
  BY DEF KnownInv, HistoryInv, LogOrdered, Attempts
<1>2. \A i, j : Fresh(i) /\ Fresh(j) /\ About(r, i)' /\ About(r, j)' => i = j
  BY <1>1, FreshAdds
<1>3. ASSUME NEW j, Fresh(j)
      PROVE  /\ ReservedAt(a, j)' => \A i \in 1..Len(log) : ~ReservedAt(a, i)
             /\ StartedAt(a, j)' => /\ \A i \in 1..Len(log) : ~StartedAt(a, i) /\ ~SettlesAt(a, i)
                                    /\ \E i \in 1..Len(log) : ReservedAt(a, i)
             /\ SettlesAt(a, j)' => /\ \A i \in 1..Len(log) : ~SettlesAt(a, i)
                                    /\ \E i \in 1..Len(log) : ReservedAt(a, i)
  <2>1. CASE ~About(r, j)'
    BY <2>1, FormsAboutNext
  <2>2. CASE About(r, j)'
    <3>1. Adds(r, j)
      BY <1>1, <1>3, <2>2, FreshAdds
    <3>2. CASE /\ io[r] = "queued" /\ pc[r] \in Appending /\ log'[j] = EventOf(r)
      <4>1. /\ ReservedAt(a, j)' => pc[r] = "reserve" /\ a = Current(r)
            /\ StartedAt(a, j)' => pc[r] = "start" /\ a = Current(r)
            /\ SettlesAt(a, j)' => pc[r] \in {"settle", "settleRetry"} /\ a = Current(r)
        BY <1>1, <3>1, <3>2, AddsForms
      <4> QED BY <1>1, <3>2, <4>1 DEF StandsInLog, AttemptStands, Unwritten, ReservedIn, StartedIn, SettledIn
    <3>3. CASE /\ pc[r] \in {"idle", "done"} /\ pc[Recovery] = "recover" /\ st.wm = Len(log)
               /\ log'[j].kind = "AttemptSettled" /\ st.lease[log'[j].att] # "none"
      <4>1. ~ReservedAt(a, j)' /\ ~StartedAt(a, j)'
        BY <3>3, FormsAboutNext
      <4>2. SettlesAt(a, j)' => st.lease[a] # "none"
        BY <3>3 DEF SettlesAt
      <4> QED BY <1>1, <3>3, <4>1, <4>2, RecoveredOpen
    <3> QED BY <3>1, <3>2, <3>3 DEF Adds
  <2> QED BY <2>1, <2>2
<1> HIDE DEF r
<1> QED BY <1>1, <1>2, <1>3, LeaseExtends DEF r

\* A new record continues the history of its request.
LEMMA RequestOrderedNext ==
  ASSUME KnownInv, HistoryInv, [Next]_vars, NEW r \in Requests
  PROVE  RequestOrdered(r)'
<1>1. /\ TypeInv /\ RecoveryAhead /\ RecoveryPending /\ LeasesRead /\ RequestOrdered(r)
      /\ StandsInLog(r)
  BY DEF KnownInv, HistoryInv, LogOrdered
<1>2. \A i, j : Fresh(i) /\ Fresh(j) /\ About(r, i)' /\ About(r, j)' => i = j
  BY <1>1, FreshAdds
<1>3. ASSUME NEW j, Fresh(j), About(r, j)'
      PROVE  /\ AcceptedAt(r, j)' => \A i \in 1..Len(log) : ~AcceptedAt(r, i)
             /\ (\E i \in 1..Len(log) : FinalizedAt(r, i)) => log'[j].kind = "AttemptSettled"
             /\ AcceptedAt(r, j)' \/ \E i \in 1..Len(log) : AcceptedAt(r, i)
  <2>1. Adds(r, j)
    BY <1>1, <1>3, FreshAdds
  <2>2. CASE /\ io[r] = "queued" /\ pc[r] \in Appending /\ log'[j] = EventOf(r)
    <3>1. AcceptedAt(r, j)' <=> pc[r] = "begin"
      BY <2>1, <2>2, AddsForms
    <3>2. CASE pc[r] = "begin"
      BY <1>1, <2>2, <3>1, <3>2, FormsAbout DEF StandsInLog, Unwritten, Mentioned
    <3>3. CASE pc[r] # "begin"
      <4>1. InLoop(r)
        BY <1>1, <2>2, <3>3, EventForms DEF InLoop, Unwritten
      <4> QED BY <1>1, <3>1, <3>3, <4>1 DEF StandsInLog, AcceptedIn, FinalizedIn
    <3> QED BY <3>2, <3>3
  <2>3. CASE /\ pc[r] \in {"idle", "done"} /\ pc[Recovery] = "recover" /\ st.wm = Len(log)
             /\ log'[j].kind = "AttemptSettled" /\ st.lease[log'[j].att] # "none"
    <3>1. ~AcceptedAt(r, j)'
      BY <2>3, FormsAboutNext
    <3>2. log'[j] \in Events
      BY <1>1, <1>3, TypeNext, ElementOfSeq DEF Fresh, TypeInv, TypeOK
    <3>3. log'[j].att \in Attempts /\ log'[j].att[1] = r
      BY <1>3, <2>3, <3>2 DEF Events, RequestEvents, LeaseEvents, SettledEvents, RunEvents, About,
                              RequestOf
    <3>4. PICK i \in 1..Len(log) : ReservedAt(log'[j].att, i)
      BY <1>1, <2>3, <3>3, RecoveredOpen
    <3>5. About(r, i)
      BY <3>3, <3>4, FormsAbout
    <3> QED BY <1>1, <2>3, <3>1, <3>5 DEF RequestOrdered
  <2> QED BY <2>1, <2>2, <2>3 DEF Adds
<1> QED BY <1>1, <1>2, <1>3, RequestExtends

\* A close that is being written is the first of its Run.
LEMMA CloseOrderedNext ==
  ASSUME KnownInv, HistoryInv, [Next]_vars, NEW u \in Runs
  PROVE  CloseOrdered(u)'
<1>1. TypeInv /\ QueueOwned /\ OthersQueued /\ CloseInv /\ ApplyInv /\ CloseOrdered(u)
  BY DEF KnownInv, CallInv, CloseInv, HistoryInv, LogOrdered
<1>2. CASE ~Writer
  <2>1. log' = log
    BY <1>1, <1>2, OnlyWriterWrites
  <2> QED BY <1>1, <2>1 DEF CloseOrdered, ClosedAt, RunClosed
<1>3. CASE Writer
  <2>1. PICK n \in BatchSizes : WriteBatch(n) \/ WriteFails(n) \/ DropBatch(n)
    BY <1>3 DEF Writer
  <2>2. \A m \in 1..n : m \in 1..Len(queue)
    BY <1>1, BatchType, LogGrows DEF TypeInv, BatchSizes
  <2>3. ASSUME NEW j, Fresh(j), ClosedAt(u, j)'
        PROVE  /\ \A i \in 1..Len(log) : ~ClosedAt(u, i)
               /\ \E m \in 1..n : j = Len(log) + m /\ queue[m].proc = u
    <3>1. j \in 1..Len(log') /\ j \notin 1..Len(log)
      BY <2>3, LogGrows, <1>1 DEF Fresh
    <3>2. PICK m \in 1..n : j = Len(log) + m /\ log'[j] = queue[m].event
      BY <1>1, <2>1, <3>1, LogWritten
    <3>3. log'[j].kind = "RunClosed" /\ log'[j].run = u
      BY <2>3, FormsAboutNext
    <3>4. queue[m].proc = u /\ pc[u] = "close"
      BY <1>1, <2>2, <3>2, <3>3, QueuedKind
    <3>5. io[u] = "queued"
      BY <1>1, <2>2, <3>4 DEF OthersQueued
    <3>6. phase = "serving" /\ u \notin st.closed
      BY <1>1, <3>4, <3>5 DEF CloseInv, OnlyServing, ApplyInv, OpenWhileClosing, Unapplied
    <3>7. ~applyErr
      BY <1>1, <3>6 DEF ApplyInv, FailsAtStart
    <3>8. status = "healthy"
      <4>1. log' # log
        BY <3>1
      <4> QED BY <2>1, <4>1 DEF WriteBatch, WriteFails, DropBatch, ledgerVars
    <3>9. ~CloseLogged(u)
      BY <1>1, <3>5, <3>6, <3>7, <3>8 DEF CloseInv, ClosesSeen, Appends
    <3>10. \A i \in 1..Len(log) : ~ClosedAt(u, i)
      BY <3>9, FormsAbout DEF CloseLogged
    <3> QED BY <3>2, <3>4, <3>10
  <2>4. ASSUME NEW i \in 1..Len(log'), NEW j \in 1..Len(log'), ClosedAt(u, i)', ClosedAt(u, j)'
        PROVE  i = j
    <3>1. CASE i \in 1..Len(log) /\ j \in 1..Len(log)
      BY <1>1, <2>4, <3>1, OldRecords DEF CloseOrdered
    <3>2. CASE i \in 1..Len(log) /\ Fresh(j)
      BY <1>1, <2>3, <2>4, <3>2, OldRecords
    <3>3. CASE Fresh(i) /\ j \in 1..Len(log)
      BY <1>1, <2>3, <2>4, <3>3, OldRecords
    <3>4. CASE Fresh(i) /\ Fresh(j)
      <4>1. PICK m \in 1..n : i = Len(log) + m /\ queue[m].proc = u
        BY <2>3, <2>4, <3>4
      <4>2. PICK k \in 1..n : j = Len(log) + k /\ queue[k].proc = u
        BY <2>3, <2>4, <3>4
      <4>3. m = k
        BY <1>1, <2>2, <4>1, <4>2 DEF OthersQueued
      <4> QED BY <4>1, <4>2, <4>3
    <3> QED BY <1>1, <3>1, <3>2, <3>3, <3>4, OldOrFresh
  <2> QED BY <2>4 DEF CloseOrdered
<1> QED BY <1>2, <1>3

\* Every step keeps the order of the records.
LEMMA LogOrderedNext ==
  ASSUME KnownInv, HistoryInv, [Next]_vars
  PROVE  LogOrdered'
BY LeaseOrderedNext, RequestOrderedNext, CloseOrderedNext DEF LogOrdered

-----------------------------------------------------------------------------
(* What each request will find in the log *)

\* What the log says of a request changes with its own records alone.
LEMMA SaysSame ==
  ASSUME TypeInv, [Next]_vars, NEW r \in Requests, \A j : Fresh(j) => ~About(r, j)'
  PROVE  /\ Mentioned(r)' <=> Mentioned(r)
         /\ OnlyAccepted(r)' <=> OnlyAccepted(r)
         /\ AcceptedIn(r)' <=> AcceptedIn(r)
         /\ FinalizedIn(r)' <=> FinalizedIn(r)
         /\ \A a \in Attempts : a[1] = r => /\ ReservedIn(a)' <=> ReservedIn(a)
                                            /\ StartedIn(a)' <=> StartedIn(a)
                                            /\ SettledIn(a)' <=> SettledIn(a)
<1>1. \A i \in 1..Len(log') : About(r, i)' => i \in 1..Len(log)
  BY OldOrFresh
<1>2. (Mentioned(r)' <=> Mentioned(r)) /\ (OnlyAccepted(r)' <=> OnlyAccepted(r))
  BY <1>1, OldRecords DEF Mentioned, OnlyAccepted
<1>3. (AcceptedIn(r)' <=> AcceptedIn(r)) /\ (FinalizedIn(r)' <=> FinalizedIn(r))
  BY <1>1, OldRecords, FormsAboutNext DEF AcceptedIn, FinalizedIn
<1>4. ASSUME NEW a \in Attempts, a[1] = r
      PROVE  /\ ReservedIn(a)' <=> ReservedIn(a)
             /\ StartedIn(a)' <=> StartedIn(a)
             /\ SettledIn(a)' <=> SettledIn(a)
  <2>1. \A i \in 1..Len(log') : ReservedAt(a, i)' \/ StartedAt(a, i)' \/ SettlesAt(a, i)' =>
          i \in 1..Len(log)
    BY <1>1, <1>4, FormsAboutNext
  <2> QED BY <2>1, OldRecords DEF ReservedIn, StartedIn, SettledIn
<1> QED BY <1>2, <1>3, <1>4

\* A request stays at its point, and nothing is written about it.
LEMMA StandsStays ==
  ASSUME TypeInv, [Next]_vars, NEW r \in Requests, StandsInLog(r), pc'[r] = pc[r], att'[r] = att[r],
         io'[r] \in Unwritten => io[r] \in Unwritten,
         \A j : Fresh(j) => ~About(r, j)'
  PROVE  StandsInLog(r)'
<1>1. Current(r)' = Current(r) /\ (InLoop(r)' => InLoop(r))
  BY DEF Current, InLoop
<1>2. /\ Mentioned(r)' <=> Mentioned(r)
      /\ OnlyAccepted(r)' <=> OnlyAccepted(r)
      /\ AcceptedIn(r)' <=> AcceptedIn(r)
      /\ FinalizedIn(r)' <=> FinalizedIn(r)
      /\ \A a \in Attempts : a[1] = r => /\ ReservedIn(a)' <=> ReservedIn(a)
                                         /\ StartedIn(a)' <=> StartedIn(a)
                                         /\ SettledIn(a)' <=> SettledIn(a)
  BY SaysSame
<1>3. ASSUME NEW a \in Attempts, a[1] = r, AttemptStands(r, a) PROVE AttemptStands(r, a)'
  BY <1>2, <1>3 DEF AttemptStands
<1> QED BY <1>1, <1>2, <1>3 DEF StandsInLog

\* A request's record is written while it waits for it.
LEMMA StandsAdded ==
  ASSUME KnownInv, [Next]_vars, NEW r \in Requests, StandsInLog(r), pc'[r] = pc[r], att'[r] = att[r],
         io'[r] \notin Unwritten, NEW j, Fresh(j), Adds(r, j), pc[r] \in Appending, io[r] = "queued",
         log'[j] = EventOf(r), \A i : Fresh(i) /\ About(r, i)' => i = j
  PROVE  StandsInLog(r)'
<1>1. TypeInv /\ Current(r)' = Current(r) /\ Current(r) \in Attempts /\ Current(r)[1] = r
  <2>1. TypeInv /\ TypeOK
    BY DEF KnownInv, TypeInv
  <2> QED BY <2>1, CurrentType DEF Current
<1>2. \A i \in 1..Len(log') : About(r, i)' => i \in 1..Len(log) \/ i = j
  BY <1>1, OldOrFresh
<1>3. /\ \A a \in Attempts : ReservedAt(a, j)' => pc[r] = "reserve" /\ a = Current(r)
      /\ \A a \in Attempts : StartedAt(a, j)' => pc[r] = "start" /\ a = Current(r)
      /\ \A a \in Attempts : SettlesAt(a, j)' => pc[r] \in {"settle", "settleRetry"} /\ a = Current(r)
      /\ \A q : AcceptedAt(q, j)' <=> pc[r] = "begin" /\ q = r
      /\ \A q : FinalizedAt(q, j)' => pc[r] = "finalize" /\ q = r
      /\ pc[r] = "reserve" => log'[j] = ReservationCreated(Current(r))
  BY AddsForms
<1>4. /\ pc[r] = "begin" => (~Mentioned(r) => OnlyAccepted(r)')
      /\ AcceptedIn(r) => AcceptedIn(r)'
      /\ FinalizedIn(r)' => FinalizedIn(r) \/ pc[r] = "finalize"
  <2>1. pc[r] = "begin" => (~Mentioned(r) => OnlyAccepted(r)')
    BY <1>1, <1>2, <1>3, OldRecords DEF Mentioned, OnlyAccepted
  <2>2. AcceptedIn(r) => AcceptedIn(r)'
    BY <1>1, OldRecords DEF AcceptedIn
  <2>3. FinalizedIn(r)' => FinalizedIn(r) \/ pc[r] = "finalize"
    <3>1. SUFFICES ASSUME NEW i \in 1..Len(log'), FinalizedAt(r, i)', pc[r] # "finalize"
                   PROVE  FinalizedIn(r)
      BY DEF FinalizedIn
    <3>2. About(r, i)'
      BY <3>1, FormsAboutNext
    <3>3. i \in 1..Len(log)
      BY <1>2, <1>3, <3>1, <3>2
    <3> QED BY <1>1, <3>1, <3>3, OldRecords DEF FinalizedIn
  <2> QED BY <2>1, <2>2, <2>3
<1>5. ASSUME NEW a \in Attempts, a[1] = r
      PROVE  /\ ReservedIn(a) => ReservedIn(a)'
             /\ ReservedIn(a)' => ReservedIn(a) \/ (pc[r] = "reserve" /\ a = Current(r))
             /\ StartedIn(a)' => StartedIn(a) \/ pc[r] = "start"
             /\ SettledIn(a)' => SettledIn(a) \/ pc[r] \in {"settle", "settleRetry"}
  <2>1. \A i \in 1..Len(log') : ReservedAt(a, i)' \/ StartedAt(a, i)' \/ SettlesAt(a, i)' =>
          i \in 1..Len(log) \/ i = j
    BY <1>2, <1>5, FormsAboutNext
  <2> QED BY <1>1, <1>3, <2>1, OldRecords DEF ReservedIn, StartedIn, SettledIn
<1>6. pc[r] # "finalize" => (InLoop(r)' => InLoop(r))
  BY DEF InLoop
<1>7. pc[r] = "finalize" => ~InLoop(r)'
  BY DEF InLoop
<1>8. ASSUME NEW a \in Attempts, a[1] = r, InLoop(r)', a[2] > att'[r] PROVE ~ReservedIn(a)'
  <2>1. ~ReservedIn(a)
    BY <1>6, <1>7, <1>8 DEF StandsInLog
  <2>2. a # Current(r)
    BY <1>8, <1>1 DEF Current, KnownInv, TypeInv, TypeOK
  <2> QED BY <1>5, <1>8, <2>1, <2>2
<1>9. AttemptStands(r, Current(r))
  BY <1>1 DEF StandsInLog
<1>10. ASSUME NEW a \in Attempts, a[1] = r, AttemptStands(r, a) PROVE AttemptStands(r, a)'
  BY <1>5, <1>10 DEF AttemptStands, Unwritten
<1>11. /\ (pc'[r] = "idle" \/ (pc'[r] = "begin" /\ io'[r] \in Unwritten)) => ~Mentioned(r)'
       /\ pc'[r] = "begin" => OnlyAccepted(r)'
       /\ InLoop(r)' => AcceptedIn(r)' /\ ~FinalizedIn(r)'
  BY <1>4, <1>6, <1>7 DEF StandsInLog, Unwritten, Appending
<1> QED BY <1>1, <1>8, <1>9, <1>10, <1>11 DEF StandsInLog

\* A request that is over may leave anything in the log.
LEMMA StandsDone ==
  ASSUME NEW r \in Requests, pc'[r] = "done"
  PROVE  StandsInLog(r)'
BY DEF StandsInLog, InLoop, AttemptStands

\* The writer answers a batch.
LEMMA StandsWriter ==
  ASSUME KnownInv, HistoryInv, [Next]_vars, Writer, NEW r \in Requests
  PROVE  StandsInLog(r)'
<1>1. TypeInv /\ RecoveryAhead /\ RecoveryPending /\ LeasesRead /\ StandsInLog(r)
  BY DEF KnownInv, HistoryInv
<1>2. UNCHANGED <<pc, att>>
  BY DEF Writer, WriteBatch, WriteFails, DropBatch
<1>3. io'[r] = io[r] \/ io'[r] \in {"durable", "err"}
  BY ProcsDistinct DEF Writer, WriteBatch, WriteFails, DropBatch
<1>4. CASE \A j : Fresh(j) => ~About(r, j)'
  BY <1>1, <1>2, <1>3, <1>4, StandsStays DEF Unwritten
<1>5. CASE ~\A j : Fresh(j) => ~About(r, j)'
  <2>1. PICK j : Fresh(j) /\ About(r, j)'
    BY <1>5
  <2>2. Adds(r, j) /\ \A i : Fresh(i) /\ About(r, i)' => i = j
    BY <1>1, <2>1, FreshAdds
  <2>3. CASE io[r] = "queued" /\ pc[r] \in Appending /\ io'[r] \notin Unwritten /\ log'[j] = EventOf(r)
    BY <1>1, <1>2, <2>1, <2>2, <2>3, StandsAdded
  <2>4. CASE /\ pc[r] \in {"idle", "done"} /\ pc[Recovery] = "recover" /\ st.wm = Len(log)
             /\ log'[j].kind = "AttemptSettled" /\ st.lease[log'[j].att] # "none"
    <3>1. log'[j] \in Events
      BY <1>1, <2>1, TypeNext, ElementOfSeq DEF Fresh, TypeInv, TypeOK
    <3>2. log'[j].att \in Attempts /\ log'[j].att[1] = r
      BY <2>1, <2>4, <3>1 DEF Events, RequestEvents, LeaseEvents, SettledEvents, RunEvents, About,
                              RequestOf
    <3>3. Mentioned(r)
      BY <1>1, <2>4, <3>2, RecoveredOpen, FormsAbout DEF Mentioned
    <3>4. pc[r] = "done"
      BY <1>1, <2>4, <3>3 DEF StandsInLog
    <3> QED BY <1>2, <3>4, StandsDone
  <2> QED BY <2>2, <2>3, <2>4 DEF Adds
<1> QED BY <1>4, <1>5

\* Only what was reserved is started or settled.
LEMMA ReservedFirst ==
  ASSUME LogOrdered, NEW a \in Attempts, StartedIn(a) \/ SettledIn(a)
  PROVE  ReservedIn(a)
BY DEF LogOrdered, LeaseOrdered, StartedIn, SettledIn, ReservedIn

\* A request that is only accepted has neither reserved nor ended.
LEMMA AcceptedOnly ==
  ASSUME NEW r \in Requests, OnlyAccepted(r)
  PROVE  ~FinalizedIn(r) /\ \A a \in Attempts : a[1] = r => ~ReservedIn(a)
<1>1. ASSUME NEW i \in 1..Len(log), FinalizedAt(r, i) PROVE FALSE
  BY <1>1, FormsAbout DEF OnlyAccepted
<1>2. ASSUME NEW a \in Attempts, a[1] = r, NEW i \in 1..Len(log), ReservedAt(a, i) PROVE FALSE
  <2>1. AcceptedAt(r, i) /\ log[i].kind = "ReservationCreated"
    BY <1>2, FormsAbout DEF OnlyAccepted
  <2> QED BY <2>1, FormsAbout
<1> QED BY <1>1, <1>2 DEF FinalizedIn, ReservedIn

\* A request moves on.
LEMMA StandsMoves ==
  ASSUME KnownInv, HistoryInv, [Next]_vars, NEW r \in Requests, BeginRequest(r) \/ RequestStep(r)
  PROVE  StandsInLog(r)'
<1> USE DEF ledgerVars, admissionVars, controlVars, worldVars
<1>1. /\ TypeInv /\ LogOrdered /\ StandsInLog(r) /\ log' = log /\ att[r] \in 1..MaxAttempts
      /\ att \in [Requests -> 1..MaxAttempts] /\ MaxAttempts \in Nat /\ Len(log) \in Nat
  BY RequestMoves, MaxAttemptsAssumption, LogGrows DEF KnownInv, HistoryInv, TypeInv, TypeOK
<1>2. /\ Mentioned(r)' <=> Mentioned(r)
      /\ OnlyAccepted(r)' <=> OnlyAccepted(r)
      /\ AcceptedIn(r)' <=> AcceptedIn(r)
      /\ FinalizedIn(r)' <=> FinalizedIn(r)
      /\ \A a \in Attempts : a[1] = r => /\ ReservedIn(a)' <=> ReservedIn(a)
                                         /\ StartedIn(a)' <=> StartedIn(a)
                                         /\ SettledIn(a)' <=> SettledIn(a)
  <2>1. \A j : Fresh(j) => ~About(r, j)'
    BY <1>1 DEF Fresh
  <2> QED BY <1>1, <2>1, SaysSame
<1>3. ASSUME NEW x, Goto(r, x) PROVE pc'[r] = x /\ io'[r] = "none"
  BY <1>1, <1>3, ProcsDistinct DEF Goto, TypeInv, TypeOK
<1>4. Current(r) = <<r, att[r]>> /\ Current(r)' = <<r, att'[r]>> /\ Current(r) \in Attempts
  BY <1>1 DEF Current, Attempts
<1>5. io[r] = "ok" => seq[r] \in 1..Len(log) /\ log[seq[r]] = EventOf(r)
  BY DEF KnownInv, CallInv, RecordsLogged, LoggedIo
<1>6. \A a \in Attempts : a[2] \in 1..MaxAttempts /\ a = <<a[1], a[2]>>
  BY DEF Attempts
<1>7. CASE BeginRequest(r)
  <2>1. pc'[r] = "begin" /\ ~Mentioned(r)
    BY <1>1, <1>3, <1>7 DEF BeginRequest, StandsInLog
  <2>2. OnlyAccepted(r)
    BY <2>1 DEF Mentioned, OnlyAccepted
  <2> QED BY <1>2, <2>1, <2>2 DEF StandsInLog, InLoop, AttemptStands
<1>8. CASE BeginReturns(r)
  <2>1. CASE io[r] # "ok"
    <3>1. pc'[r] = "done"
      BY <1>3, <1>8, <2>1 DEF BeginReturns
    <3> QED BY <3>1, StandsDone
  <2>2. CASE io[r] = "ok"
    <3>1. pc[r] = "begin" /\ pc'[r] = "ready" /\ io'[r] = "none"
      BY <1>3, <1>8, <2>2 DEF BeginReturns
    <3>2. AcceptedIn(r)
      BY <1>5, <2>2, <3>1 DEF AcceptedIn, AcceptedAt, EventOf
    <3>3. ~FinalizedIn(r) /\ \A a \in Attempts : a[1] = r => ~ReservedIn(a)
      BY <1>1, <3>1, AcceptedOnly DEF StandsInLog
    <3> QED BY <1>2, <3>1, <3>2, <3>3 DEF StandsInLog, InLoop, AttemptStands
  <2> QED BY <2>1, <2>2
<1>9. ASSUME att'[r] = att[r], InLoop(r), io'[r] = "none", pc'[r] \notin {"idle", "begin", "ready"},
             pc'[r] = "reserve" => ~ReservedIn(Current(r)),
             pc'[r] \in {"reserve", "reserved", "start", "calling", "called", "settle", "settleRetry"}
               => ~SettledIn(Current(r)),
             pc'[r] \in {"reserve", "reserved", "start"} => ~StartedIn(Current(r)),
             pc'[r] \in {"reserved", "start", "calling", "called", "settle", "settleRetry"}
               => ReservedIn(Current(r))
      PROVE  StandsInLog(r)'
  <2>1. AcceptedIn(r) /\ ~FinalizedIn(r) /\ \A a \in Attempts : a[1] = r /\ a[2] > att[r] => ~ReservedIn(a)
    BY <1>1, <1>9 DEF StandsInLog
  <2>2. Current(r)' = Current(r) /\ Current(r)[1] = r
    BY <1>4, <1>9
  <2>3. ASSUME NEW a \in Attempts, a = Current(r)' PROVE AttemptStands(r, a)'
    <3>1. (SettledIn(a)' <=> SettledIn(a)) /\ (StartedIn(a)' <=> StartedIn(a))
          /\ (ReservedIn(a)' <=> ReservedIn(a)) /\ a = Current(r)
      BY <1>2, <2>2, <2>3
    <3> QED BY <1>9, <3>1 DEF AttemptStands
  <2> QED BY <1>2, <1>9, <2>1, <2>3 DEF StandsInLog
<1>10. AttemptStands(r, Current(r))
  BY <1>1, <1>4 DEF StandsInLog
<1>11. CASE Admit(r)
  <2>1. pc[r] = "ready" /\ pc'[r] = "reserve" /\ io'[r] = "none" /\ att'[r] = att[r] /\ InLoop(r)
    BY <1>3, <1>11 DEF Admit, InLoop
  <2>2. ~ReservedIn(Current(r))
    BY <1>10, <2>1 DEF AttemptStands
  <2>3. ~SettledIn(Current(r)) /\ ~StartedIn(Current(r))
    BY <1>1, <1>4, <2>2, ReservedFirst
  <2> QED BY <1>9, <2>1, <2>2, <2>3
<1>12. CASE GiveUp(r)
  <2>1. pc[r] = "ready" /\ pc'[r] = "finalize" /\ io'[r] = "none" /\ att'[r] = att[r] /\ InLoop(r)
    BY <1>3, <1>12 DEF GiveUp, InLoop
  <2> QED BY <1>9, <2>1
<1>13. CASE ReserveReturns(r)
  <2>1. /\ pc[r] = "reserve" /\ io'[r] = "none" /\ att'[r] = att[r] /\ InLoop(r)
        /\ pc'[r] = "finalize" \/ (pc'[r] = "reserved" /\ io[r] = "ok")
    BY <1>3, <1>13 DEF ReserveReturns, InLoop
  <2>2. io[r] = "ok" => ReservedIn(Current(r))
    BY <1>5, <2>1 DEF ReservedIn, ReservedAt, EventOf
  <2>3. ~SettledIn(Current(r)) /\ ~StartedIn(Current(r))
    BY <1>10, <2>1 DEF AttemptStands
  <2> QED BY <1>9, <2>1, <2>2, <2>3
<1>14. CASE CommitPin(r)
  <2>1. pc[r] = "reserved" /\ pc'[r] = "start" /\ io'[r] = "none" /\ att'[r] = att[r] /\ InLoop(r)
    BY <1>3, <1>14 DEF CommitPin, InLoop
  <2>2. ~SettledIn(Current(r)) /\ ~StartedIn(Current(r)) /\ ReservedIn(Current(r))
    BY <1>10, <2>1 DEF AttemptStands
  <2> QED BY <1>9, <2>1, <2>2
<1>15. CASE StartReturns(r) \/ SettleUnserved(r) \/ CallProvider(r) \/ ProviderReturns(r)
  <2>1. /\ pc[r] \in {"reserved", "start", "calling", "called"}
        /\ io'[r] = "none" /\ att'[r] = att[r] /\ InLoop(r)
        /\ pc'[r] \in {"calling", "called", "settle", "settleRetry"}
    BY <1>3, <1>15 DEF StartReturns, SettleUnserved, CallProvider, ProviderReturns, InLoop
  <2>2. ~SettledIn(Current(r)) /\ ReservedIn(Current(r))
    BY <1>10, <2>1 DEF AttemptStands
  <2> QED BY <1>9, <2>1, <2>2
<1>16. CASE SettleReturns(r)
  <2>1. /\ io'[r] = "none" /\ InLoop(r)
        /\ \/ pc'[r] = "ready" /\ att'[r] = att[r] + 1 /\ att[r] < MaxAttempts
           \/ pc'[r] = "finalize" /\ att'[r] = att[r]
    BY <1>1, <1>3, <1>16 DEF SettleReturns, InLoop
  <2>2. CASE pc'[r] = "finalize" /\ att'[r] = att[r]
    BY <1>9, <2>1, <2>2
  <2>3. CASE pc'[r] = "ready" /\ att'[r] = att[r] + 1 /\ att[r] < MaxAttempts
    <3>1. /\ AcceptedIn(r) /\ ~FinalizedIn(r)
          /\ \A a \in Attempts : a[1] = r /\ a[2] > att[r] => ~ReservedIn(a)
      BY <1>1, <2>1 DEF StandsInLog
    <3>2. ASSUME NEW a \in Attempts, a[1] = r, a[2] >= att'[r] PROVE ~ReservedIn(a)'
      <4>1. a[2] > att[r]
        BY <1>1, <1>6, <2>3, <3>2
      <4> QED BY <1>2, <3>1, <3>2, <4>1
    <3>3. ASSUME NEW a \in Attempts, a = Current(r)' PROVE a[1] = r /\ a[2] >= att'[r] /\ AttemptStands(r, a)'
      <4>1. a[1] = r /\ a[2] = att'[r] /\ a[2] >= a[2]
        BY <1>4, <1>6, <3>3
      <4>2. ~ReservedIn(a)'
        BY <3>2, <4>1
      <4> QED BY <2>3, <4>1, <4>2 DEF AttemptStands
    <3>4. \A a \in Attempts : a[2] > att'[r] => a[2] >= att'[r]
      BY <1>1, <1>6, <2>3
    <3> QED BY <1>2, <2>3, <3>1, <3>2, <3>3, <3>4 DEF StandsInLog
  <2> QED BY <2>1, <2>2, <2>3
<1>17. CASE FinalizeReturns(r)
  <2>1. pc'[r] = "done"
    BY <1>3, <1>17 DEF FinalizeReturns
  <2> QED BY <2>1, StandsDone
<1> QED BY <1>7, <1>8, <1>11, <1>12, <1>13, <1>14, <1>15, <1>16, <1>17 DEF RequestStep

\* Every step leaves each request with what it will find in the log.
LEMMA StandsNext ==
  ASSUME KnownInv, HistoryInv, [Next]_vars, NEW r \in Requests
  PROVE  StandsInLog(r)'
<1> USE DEF ledgerVars, admissionVars, controlVars, worldVars
<1>1. /\ TypeInv /\ StandsInLog(r) /\ Len(log) \in Nat
      /\ pc \in [Procs -> RequestPoints \cup ClosePoints \cup {"recover"}]
      /\ io \in [Procs -> IoPoints]
  BY LogGrows DEF KnownInv, HistoryInv, TypeInv, TypeOK
<1>2. ASSUME ~Writer, pc'[r] = pc[r], att'[r] = att[r], io'[r] \in Unwritten => io[r] \in Unwritten
      PROVE  StandsInLog(r)'
  <2>1. \A j : Fresh(j) => ~About(r, j)'
    BY <1>1, <1>2, OnlyWriterWrites DEF Fresh
  <2> QED BY <1>1, <1>2, <2>1, StandsStays
<1>3. CASE Writer
  BY <1>3, StandsWriter
<1>4. ASSUME ~Writer, NEW q \in Requests, BeginRequest(q) \/ RequestStep(q) PROVE StandsInLog(r)'
  <2>1. CASE q = r
    BY <1>4, <2>1, StandsMoves
  <2>2. CASE q # r
    <3>1. PICK x : EntersFor(q, x)
      BY <1>1, <1>4, RequestEnters
    <3>2. pc'[r] = pc[r] /\ io'[r] = io[r]
      BY <1>1, <2>2, <3>1, ProcsDistinct DEF EntersFor, Goto
    <3>3. att'[r] = att[r]
      BY <1>1, <1>4, <2>2, RequestMoves
    <3> QED BY <1>2, <1>4, <3>2, <3>3
  <2> QED BY <2>1, <2>2
<1>5. ASSUME ~Writer, NEW p \in Procs, AppendReturns(p) PROVE StandsInLog(r)'
  <2>1. UNCHANGED <<pc, att>> /\ \E y \in IoPoints \ Unwritten : io' = [io EXCEPT ![p] = y]
    BY <1>5 DEF AppendReturns, Refuse, ApplyRecord, MarkUnavailable, WaitConfirmed, Unwritten,
                IoPoints
  <2>2. io'[r] \in Unwritten => io[r] \in Unwritten
    BY <1>1, <2>1, ProcsDistinct
  <2> QED BY <1>2, <1>5, <2>1, <2>2
<1>6. ASSUME ~Writer, NEW p \in Procs, NEW e, Enqueue(p, e) PROVE StandsInLog(r)'
  <2>1. UNCHANGED <<pc, att>> /\ io[p] = "none" /\ io' = [io EXCEPT ![p] = "queued"]
    BY <1>6 DEF Enqueue
  <2>2. io'[r] \in Unwritten => io[r] \in Unwritten
    BY <1>1, <2>1, ProcsDistinct DEF Unwritten
  <2> QED BY <1>2, <1>6, <2>1, <2>2
<1>7. ASSUME ~Writer, NEW p \in Runs \cup {Recovery}, NEW x, Goto(p, x), att' = att
      PROVE  StandsInLog(r)'
  <2>1. pc'[r] = pc[r] /\ io'[r] = io[r]
    BY <1>1, <1>7, ProcsDistinct DEF Goto
  <2> QED BY <1>2, <1>7, <2>1
<1>8. ASSUME ~Writer, NEW u \in Runs, CloseRun(u) \/ CloseProceeds(u) \/ CloseReturns(u)
      PROVE  StandsInLog(r)'
  BY <1>7, <1>8 DEF CloseRun, CloseProceeds, CloseReturns
<1>9. ASSUME ~Writer, ReplayDone \/ RecoverReturns \/ RecoverDone
      PROVE  StandsInLog(r)'
  BY <1>7, <1>9 DEF ReplayDone, RecoverReturns, RecoverDone
<1>10. ASSUME ~Writer, UNCHANGED controlVars PROVE StandsInLog(r)'
  BY <1>2, <1>10
<1>11. ASSUME ~Writer, Crash PROVE StandsInLog(r)'
  <2>1. pc'[r] = IF pc[r] # "idle" THEN "done" ELSE "idle"
    BY <1>11, ProcsDistinct DEF Crash
  <2>2. CASE pc[r] # "idle"
    BY <2>1, <2>2, StandsDone
  <2>3. CASE pc[r] = "idle"
    <3>1. io[r] = "none"
      BY <2>3, ProcsDistinct DEF KnownInv, ApplyInv, IoOwned, Appending
    <3> QED BY <1>2, <1>11, <2>1, <2>3, <3>1 DEF Crash, Unwritten
  <2> QED BY <2>2, <2>3
<1>12. ASSUME ~Writer, Replay \/ Terminated \/ UNCHANGED vars \/ \E u \in Runs : Expire(u)
       PROVE  StandsInLog(r)'
  BY <1>10, <1>12 DEF Replay, Terminated, vars, Expire
<1> QED BY <1>3, <1>4, <1>5, <1>6, <1>8, <1>9, <1>11, <1>12, ProcsDistinct
        DEF Next, AppendStep, CloseStep, Startup, RecoverLease

-----------------------------------------------------------------------------
(* What the read model has read *)

\* The read model stays, starts afresh, or takes the next record of the log.
LEMMA StateNext ==
  ASSUME KnownInv, [Next]_vars
  PROVE  \/ st' = st
         \/ Crash /\ st' = NewState /\ log' = log
         \/ /\ st.wm + 1 \in 1..Len(log) /\ log' = log /\ CanApply(st, log[st.wm + 1], st.wm + 1)
            /\ st' = Apply(st, log[st.wm + 1], st.wm + 1)
<1> USE DEF ledgerVars, admissionVars, controlVars, worldVars
<1>1. TypeInv /\ TurnsAhead /\ st.wm \in Nat /\ Len(log) \in Nat
  BY LogGrows DEF KnownInv, ApplyInv, TypeInv, TypeOK, States
<1>2. CASE ~Writer
  <2>1. log' = log
    BY <1>1, <1>2, OnlyWriterWrites
  <2>2. ASSUME NEW p \in Procs, AppendReturns(p), st' # st
        PROVE  /\ st.wm + 1 \in 1..Len(log) /\ CanApply(st, log[st.wm + 1], st.wm + 1)
               /\ st' = Apply(st, log[st.wm + 1], st.wm + 1)
    <3>1. ApplyRecord(p)
      BY <2>2 DEF AppendReturns, Refuse, MarkUnavailable, WaitConfirmed
    <3>2. /\ io[p] = "durable" /\ Turn(p) /\ CanApply(st, log[seq[p]], seq[p])
          /\ st' = Apply(st, log[seq[p]], seq[p])
      BY <2>2, <3>1 DEF ApplyRecord
    <3>3. seq[p] > st.wm /\ seq[p] \in 1..Len(log) /\ st.wm + 1 >= seq[p]
      BY <1>1, <3>2 DEF TurnsAhead, TypeInv, DurableInLog, Turn
    <3>4. seq[p] = st.wm + 1
      BY <1>1, <3>3
    <3> QED BY <3>2, <3>3, <3>4
  <2>3. ASSUME NEW p \in Procs, NEW e, Enqueue(p, e) PROVE st' = st
    BY <2>3 DEF Enqueue
  <2>4. ASSUME NEW r \in Requests, BeginRequest(r) \/ RequestStep(r) PROVE st' = st
    BY <1>1, <2>4, RequestEnters DEF EntersFor
  <2>5. ASSUME NEW u \in Runs, CloseRun(u) \/ CloseProceeds(u) \/ CloseReturns(u) \/ Expire(u)
        PROVE  st' = st
    BY <2>5 DEF CloseRun, CloseProceeds, CloseReturns, Expire
  <2>6. CASE Crash
    BY <2>1, <2>6 DEF Crash
  <2>7. CASE Replay
    BY <1>1, <2>1, <2>7 DEF Replay
  <2>8. ASSUME ReplayDone \/ RecoverReturns \/ RecoverDone \/ Terminated \/ UNCHANGED vars
        PROVE  st' = st
    BY <2>8 DEF ReplayDone, RecoverReturns, RecoverDone, Terminated, vars
  <2> QED BY <1>2, <2>1, <2>2, <2>3, <2>4, <2>5, <2>6, <2>7, <2>8, ProcsDistinct
          DEF Next, AppendStep, CloseStep, Startup, RecoverLease
<1>3. CASE Writer
  BY <1>3 DEF Writer, WriteBatch, WriteFails, DropBatch
<1> QED BY <1>2, <1>3

\* New records are not read at once.
LEMMA ReadSame ==
  ASSUME KnownInv, [Next]_vars, st' = st
  PROVE  /\ \A a : /\ ReadReserved(a)' <=> ReadReserved(a)
                   /\ ReadStarted(a)' <=> ReadStarted(a)
                   /\ ReadSettled(a)' <=> ReadSettled(a)
         /\ \A r : /\ ReadAccepted(r)' <=> ReadAccepted(r)
                   /\ ReadFinalized(r)' <=> ReadFinalized(r)
<1>1. TypeInv /\ st.wm \in Nat /\ st.wm <= Len(log) /\ Len(log) \in Nat
  BY LogGrows DEF KnownInv, CloseInv, ClosesRead, TypeInv, TypeOK, States
<1>2. \A i \in 1..Len(log') : i <= st.wm => i \in 1..Len(log)
  BY <1>1
<1> QED BY <1>1, <1>2, OldRecords
        DEF ReadReserved, ReadStarted, ReadSettled, ReadAccepted, ReadFinalized

\* One record more is read.
LEMMA ReadMore ==
  ASSUME KnownInv, [Next]_vars, log' = log, NEW n \in 1..Len(log), n = st.wm + 1, st'.wm = n
  PROVE  /\ \A a : /\ ReadReserved(a)' <=> ReadReserved(a) \/ ReservedAt(a, n)
                   /\ ReadStarted(a)' <=> ReadStarted(a) \/ StartedAt(a, n)
                   /\ ReadSettled(a)' <=> ReadSettled(a) \/ SettlesAt(a, n)
         /\ \A r : /\ ReadAccepted(r)' <=> ReadAccepted(r) \/ AcceptedAt(r, n)
                   /\ ReadFinalized(r)' <=> ReadFinalized(r) \/ FinalizedAt(r, n)
<1>1. TypeInv /\ st.wm \in Nat /\ Len(log) \in Nat
  BY LogGrows DEF KnownInv, TypeInv, TypeOK, States
<1>2. \A i \in 1..Len(log) : i <= st'.wm <=> i <= st.wm \/ i = n
  BY <1>1
<1> QED BY <1>1, <1>2, OldRecords
        DEF ReadReserved, ReadStarted, ReadSettled, ReadAccepted, ReadFinalized

\* What a record does to the leases and the attributed requests.
LEMMA ApplyForms ==
  ASSUME TypeInv, NEW n \in 1..Len(log), st' = Apply(st, log[n], n)
  PROVE  /\ st'.wm = n
         /\ \/ /\ log[n].kind = "ReservationCreated"
               /\ st'.lease = [st.lease EXCEPT ![log[n].att] = "held"]
            \/ /\ log[n].kind = "AttemptStarted"
               /\ st'.lease = [st.lease EXCEPT ![log[n].att] = "started"]
            \/ /\ log[n].kind = "AttemptSettled"
               /\ st'.lease = [st.lease EXCEPT ![log[n].att] = "none"]
            \/ /\ log[n].kind \in {"RequestAccepted", "RequestFinalized", "RunClosed"}
               /\ st'.lease = st.lease
         /\ \/ /\ log[n].kind = "RequestAccepted"
               /\ st'.requestRuns = IF RunOf[log[n].req] = NoRun THEN st.requestRuns
                                  ELSE st.requestRuns \cup {log[n].req}
            \/ /\ log[n].kind = "RequestFinalized"
               /\ st'.requestRuns = st.requestRuns \ {log[n].req}
            \/ /\ log[n].kind \notin {"RequestAccepted", "RequestFinalized"}
               /\ st'.requestRuns = st.requestRuns
<1>1. log[n] \in Events /\ st \in States /\ n \in Nat
  BY ElementOfSeq DEF TypeInv, TypeOK
<1>2. st'.wm = n
  BY <1>1, ApplyClosed
<1>3. log[n].kind \in {"RequestAccepted", "RequestFinalized", "ReservationCreated", "AttemptStarted",
                       "AttemptSettled", "RunClosed"}
  BY <1>1, EventKinds
<1>4. CASE log[n].kind = "RequestAccepted"
  BY <1>1, <1>2, <1>4 DEF Apply, Effect, States
<1>5. CASE log[n].kind = "RequestFinalized"
  BY <1>1, <1>2, <1>5 DEF Apply, Effect, States
<1>6. CASE log[n].kind = "ReservationCreated"
  BY <1>1, <1>2, <1>6 DEF Apply, Effect, ApplyReservationCreated, States
<1>7. CASE log[n].kind = "AttemptStarted"
  BY <1>1, <1>2, <1>7 DEF Apply, Effect, States
<1>8. CASE log[n].kind = "AttemptSettled"
  BY <1>1, <1>2, <1>8 DEF Apply, Effect, ApplyAttemptSettled, States
<1>9. CASE log[n].kind = "RunClosed"
  BY <1>1, <1>2, <1>9 DEF Apply, Effect, States
<1> QED BY <1>3, <1>4, <1>5, <1>6, <1>7, <1>8, <1>9

\* The record just read settles the leases of the read model as it does those of the log.
LEMMA LeasesReadMore ==
  ASSUME KnownInv, HistoryInv, [Next]_vars, log' = log, NEW n \in 1..Len(log), n = st.wm + 1,
         CanApply(st, log[n], n), st' = Apply(st, log[n], n)
  PROVE  LeasesRead'
<1>1. /\ TypeInv /\ st \in States /\ st' \in States /\ st.lease \in [Attempts -> LeaseStatus]
      /\ LogOrdered /\ LeasesRead /\ n \in Nat /\ st.wm \in Nat
  <2>1. TypeInv /\ TypeInv' /\ LogOrdered /\ LeasesRead /\ n \in Nat
    BY TypeNext DEF KnownInv, HistoryInv
  <2> QED BY <2>1 DEF TypeInv, TypeOK, States
<1>2. /\ st'.wm = n
      /\ \/ /\ log[n].kind = "ReservationCreated"
            /\ st'.lease = [st.lease EXCEPT ![log[n].att] = "held"]
         \/ /\ log[n].kind = "AttemptStarted"
            /\ st'.lease = [st.lease EXCEPT ![log[n].att] = "started"]
         \/ /\ log[n].kind = "AttemptSettled"
            /\ st'.lease = [st.lease EXCEPT ![log[n].att] = "none"]
         \/ /\ log[n].kind \in {"RequestAccepted", "RequestFinalized", "RunClosed"}
            /\ st'.lease = st.lease
  BY <1>1, ApplyForms
<1>3. \A a : /\ ReadReserved(a)' <=> ReadReserved(a) \/ ReservedAt(a, n)
             /\ ReadStarted(a)' <=> ReadStarted(a) \/ StartedAt(a, n)
             /\ ReadSettled(a)' <=> ReadSettled(a) \/ SettlesAt(a, n)
  BY <1>2, ReadMore
<1>4. ASSUME NEW a \in Attempts
      PROVE  /\ st'.lease[a] # "none" <=> ReadReserved(a)' /\ ~ReadSettled(a)'
             /\ st'.lease[a] # "none" => (st'.lease[a] = "started" <=> ReadStarted(a)')
  <2>1. CASE ~ReservedAt(a, n) /\ ~StartedAt(a, n) /\ ~SettlesAt(a, n)
    <3>1. /\ log[n].kind = "ReservationCreated" => log[n].att # a
          /\ log[n].kind = "AttemptStarted" => log[n].att # a
          /\ log[n].kind = "AttemptSettled" => log[n].att # a
      BY <1>1, <2>1, RecordForms
    <3>2. st'.lease[a] = st.lease[a]
      BY <1>1, <1>2, <3>1
    <3> QED BY <1>1, <1>3, <2>1, <3>2 DEF LeasesRead
  <2>2. CASE ReservedAt(a, n)
    <3>1. log[n].kind = "ReservationCreated" /\ log[n].att = a
      BY <2>2, FormsAbout
    <3>2. st'.lease[a] = "held"
      BY <1>1, <1>2, <3>1
    <3>3. ~SettlesAt(a, n) /\ ~StartedAt(a, n)
      BY <3>1, FormsAbout DEF SettlesAt
    <3>4. ASSUME NEW j \in 1..Len(log), j <= st.wm, StartedAt(a, j) \/ SettlesAt(a, j) PROVE FALSE
      <4>1. PICK i \in 1..Len(log) : i < j /\ ReservedAt(a, i)
        BY <1>1, <3>4 DEF LogOrdered, LeaseOrdered
      <4>2. i = n
        BY <1>1, <2>2, <4>1 DEF LogOrdered, LeaseOrdered
      <4> QED BY <1>1, <3>4, <4>1, <4>2
    <3>5. ~ReadStarted(a) /\ ~ReadSettled(a)
      BY <3>4 DEF ReadStarted, ReadSettled
    <3> QED BY <1>3, <2>2, <3>2, <3>3, <3>5
  <2>3. CASE StartedAt(a, n)
    <3>1. log[n].kind = "AttemptStarted" /\ log[n].att = a
      BY <2>3, FormsAbout
    <3>2. st.lease[a] = "held" /\ st'.lease[a] = "started"
      BY <1>1, <1>2, <3>1 DEF CanApply, Accepts
    <3>3. ~SettlesAt(a, n) /\ ReadReserved(a) /\ ~ReadSettled(a)
      BY <1>1, <3>1, <3>2 DEF SettlesAt, LeasesRead
    <3> QED BY <1>3, <2>3, <3>2, <3>3
  <2>4. CASE SettlesAt(a, n)
    <3>1. log[n].kind = "AttemptSettled" /\ log[n].att = a
      BY <2>4 DEF SettlesAt
    <3>2. st'.lease[a] = "none"
      BY <1>1, <1>2, <3>1
    <3> QED BY <1>3, <2>4, <3>2
  <2> QED BY <2>1, <2>2, <2>3, <2>4
<1> QED BY <1>4 DEF LeasesRead

\* Likewise for the attributed requests.
LEMMA RequestsReadMore ==
  ASSUME KnownInv, HistoryInv, [Next]_vars, log' = log, NEW n \in 1..Len(log), n = st.wm + 1,
         CanApply(st, log[n], n), st' = Apply(st, log[n], n)
  PROVE  RequestsRead'
<1>1. /\ TypeInv /\ st \in States /\ st' \in States
      /\ LogOrdered /\ RequestsRead /\ n \in Nat /\ st.wm \in Nat
  <2>1. TypeInv /\ TypeInv' /\ LogOrdered /\ RequestsRead /\ n \in Nat
    BY TypeNext DEF KnownInv, HistoryInv
  <2> QED BY <2>1 DEF TypeInv, TypeOK, States
<1>2. /\ st'.wm = n
      /\ \/ /\ log[n].kind = "RequestAccepted"
            /\ st'.requestRuns = IF RunOf[log[n].req] = NoRun THEN st.requestRuns
                                 ELSE st.requestRuns \cup {log[n].req}
         \/ /\ log[n].kind = "RequestFinalized"
            /\ st'.requestRuns = st.requestRuns \ {log[n].req}
         \/ /\ log[n].kind \notin {"RequestAccepted", "RequestFinalized"}
            /\ st'.requestRuns = st.requestRuns
  BY <1>1, ApplyForms
<1>3. \A r : /\ ReadAccepted(r)' <=> ReadAccepted(r) \/ AcceptedAt(r, n)
             /\ ReadFinalized(r)' <=> ReadFinalized(r) \/ FinalizedAt(r, n)
  BY <1>2, ReadMore
<1>4. ASSUME NEW r \in Requests, RunOf[r] # NoRun
      PROVE  r \in st'.requestRuns <=> ReadAccepted(r)' /\ ~ReadFinalized(r)'
  <2>1. CASE ~AcceptedAt(r, n) /\ ~FinalizedAt(r, n)
    <3>1. /\ log[n].kind = "RequestAccepted" => log[n].req # r
          /\ log[n].kind = "RequestFinalized" => log[n].req # r
      BY <1>1, <2>1, RecordForms
    <3>2. r \in st'.requestRuns <=> r \in st.requestRuns
      BY <1>2, <3>1
    <3> QED BY <1>1, <1>3, <1>4, <2>1, <3>2 DEF RequestsRead
  <2>2. CASE AcceptedAt(r, n)
    <3>1. log[n].kind = "RequestAccepted" /\ log[n].req = r
      BY <2>2, FormsAbout
    <3>2. r \in st'.requestRuns
      BY <1>2, <1>4, <3>1
    <3>3. ~FinalizedAt(r, n)
      BY <3>1, FormsAbout
    <3>4. ASSUME NEW j \in 1..Len(log), j <= st.wm, FinalizedAt(r, j) PROVE FALSE
      <4>1. PICK i \in 1..Len(log) : i <= j /\ AcceptedAt(r, i)
        BY <1>1, <3>4, FormsAbout DEF LogOrdered, RequestOrdered
      <4>2. i = n
        BY <1>1, <2>2, <4>1 DEF LogOrdered, RequestOrdered
      <4> QED BY <1>1, <3>4, <4>1, <4>2
    <3>5. ~ReadFinalized(r)
      BY <3>4 DEF ReadFinalized
    <3> QED BY <1>3, <2>2, <3>2, <3>3, <3>5
  <2>3. CASE FinalizedAt(r, n)
    <3>1. log[n].kind = "RequestFinalized" /\ log[n].req = r
      BY <2>3, FormsAbout
    <3>2. r \notin st'.requestRuns
      BY <1>2, <3>1
    <3> QED BY <1>3, <2>3, <3>2
  <2> QED BY <2>1, <2>2, <2>3
<1> QED BY <1>4 DEF RequestsRead

\* Every step leaves the read model with what it has read.
LEMMA ReadsNext ==
  ASSUME KnownInv, HistoryInv, [Next]_vars
  PROVE  LeasesRead' /\ RequestsRead'
<1>1. CASE st' = st
  <2>1. LeasesRead'
    BY <1>1, ReadSame DEF HistoryInv, LeasesRead
  <2>2. RequestsRead'
    BY <1>1, ReadSame DEF HistoryInv, RequestsRead
  <2> QED BY <2>1, <2>2
<1>2. CASE st' = NewState /\ log' = log
  <2>1. st'.wm = 0 /\ st'.requestRuns = {} /\ \A a \in Attempts : st'.lease[a] = "none"
    BY <1>2 DEF NewState
  <2>2. \A i \in 1..Len(log') : ~(i <= st'.wm)
    BY <2>1
  <2> QED BY <2>1, <2>2 DEF LeasesRead, RequestsRead, ReadReserved, ReadAccepted
<1>3. CASE /\ st.wm + 1 \in 1..Len(log) /\ log' = log /\ CanApply(st, log[st.wm + 1], st.wm + 1)
           /\ st' = Apply(st, log[st.wm + 1], st.wm + 1)
  <2> DEFINE n == st.wm + 1
  <2>1. n \in 1..Len(log) /\ n = st.wm + 1 /\ CanApply(st, log[n], n) /\ st' = Apply(st, log[n], n)
    BY <1>3
  <2> HIDE DEF n
  <2> QED BY <1>3, <2>1, LeasesReadMore, RequestsReadMore
<1> QED BY <1>1, <1>2, <1>3, StateNext

-----------------------------------------------------------------------------
(* The startup goroutine *)

\* While leases are recovered nobody but the writer and the startup goroutine moves.
LEMMA RecoveringSteps ==
  ASSUME KnownInv, [Next]_vars, pc[Recovery] = "recover"
  PROVE  \/ Writer \/ Startup \/ Crash
         \/ UNCHANGED <<log, queue, status, st, applyErr, pc, io, seq, phase>>
<1> USE DEF ledgerVars, admissionVars, controlVars, worldVars
<1>1. /\ \A r \in Requests : pc[r] \in {"idle", "done"}
      /\ \A u \in Runs : pc[u] = "idle"
      /\ phase = "recovering"
  BY DEF KnownInv, CloseInv, OnlyServing
<1>2. \A p \in Requests \cup Runs : io[p] = "none" /\ pc[p] \notin Appending
  BY <1>1, ProcsDistinct DEF KnownInv, ApplyInv, IoOwned, Appending
<1>3. ASSUME NEW r \in Requests, BeginRequest(r) \/ RequestStep(r) PROVE FALSE
  BY <1>1, <1>3 DEF BeginRequest, RequestStep, BeginReturns, Admit, GiveUp, ReserveReturns, CommitPin,
                    StartReturns, SettleUnserved, CallProvider, ProviderReturns, SettleReturns,
                    FinalizeReturns
<1>4. ASSUME NEW p \in Requests \cup Runs, AppendStep(p) PROVE FALSE
  BY <1>2, <1>4 DEF AppendStep, Enqueue, AppendReturns, Refuse, ApplyRecord, MarkUnavailable,
                    WaitConfirmed
<1>5. ASSUME NEW u \in Runs, CloseRun(u) \/ CloseProceeds(u) \/ CloseReturns(u) PROVE FALSE
  BY <1>1, <1>5 DEF CloseRun, CloseProceeds, CloseReturns
<1>6. ASSUME (\E u \in Runs : Expire(u)) \/ Terminated \/ UNCHANGED vars
      PROVE  UNCHANGED <<log, queue, status, st, applyErr, pc, io, seq, phase>>
  BY <1>6 DEF Expire, Terminated, vars
<1> QED BY <1>3, <1>4, <1>5, <1>6 DEF Next, CloseStep

\* All that is queued meanwhile is the one settlement the startup goroutine waits for.
LEMMA RecoveringQueue ==
  ASSUME KnownInv, pc[Recovery] = "recover", NEW n \in BatchSizes
  PROVE  n = 1 /\ Len(queue) = 1 /\ queue[1].proc = Recovery
<1>1. /\ \A r \in Requests : pc[r] \in {"idle", "done"}
      /\ \A u \in Runs : pc[u] = "idle"
  BY DEF KnownInv, CloseInv, OnlyServing
<1>2. TypeInv /\ QueueOwned /\ OthersQueued /\ TypeOK
  BY DEF KnownInv, CallInv, CloseInv, TypeInv
<1>3. n \in 1..Len(queue) /\ Len(queue) \in Nat
  <2>1. queue \in Seq(AppendRequests)
    BY <1>2 DEF TypeOK
  <2>2. Len(queue) \in Nat
    BY <2>1, LenProperties
  <2> QED BY <2>2, BoundAssumption DEF BatchSizes
<1>4. ASSUME NEW i \in 1..Len(queue) PROVE queue[i].proc = Recovery
  <2>1. queue[i].proc \in Procs
    <3>1. queue \in Seq(AppendRequests)
      BY <1>2 DEF TypeOK
    <3>2. queue[i] \in AppendRequests
      BY <3>1, ElementOfSeq
    <3> QED BY <3>2 DEF AppendRequests
  <2>2. CASE queue[i].proc \in Requests
    BY <1>1, <1>2, <2>2 DEF QueueOwned, Appending
  <2>3. CASE queue[i].proc \in Runs
    BY <1>1, <1>2, <2>3 DEF OthersQueued
  <2> QED BY <2>1, <2>2, <2>3 DEF Procs
<1>5. 1 \in 1..Len(queue) /\ Len(queue) \in 1..Len(queue)
  BY <1>3
<1>6. Len(queue) = 1
  BY <1>2, <1>4, <1>5 DEF OthersQueued
<1> QED BY <1>3, <1>4, <1>5, <1>6

\* The writer answers the settlement.
LEMMA AheadWriter ==
  ASSUME KnownInv, RecoveryAhead, [Next]_vars, Writer
  PROVE  RecoveryAhead'
<1> USE DEF ledgerVars, admissionVars, controlVars, worldVars
<1>1. PICK n \in BatchSizes : WriteBatch(n) \/ WriteFails(n) \/ DropBatch(n)
  BY DEF Writer
<1>2. pc' = pc
  BY <1>1 DEF WriteBatch, WriteFails, DropBatch
<1>3. SUFFICES ASSUME pc[Recovery] = "recover"
               PROVE  /\ io'[Recovery] \in {"durable", "err"}
                      /\ io'[Recovery] = "durable" => seq'[Recovery] = Len(log')
                      /\ io'[Recovery] = "err" => status' # "healthy"
  BY <1>2 DEF RecoveryAhead
<1>4. n = 1 /\ Len(queue) = 1 /\ queue[1].proc = Recovery /\ Recovery \in Procs
  BY <1>3, RecoveringQueue, ProcsDistinct
<1>5. InBatch(n, Recovery)
  BY <1>4 DEF InBatch
<1>6. CASE WriteBatch(n)
  <2>1. TypeOK /\ n \in 0..n /\ log \in Seq(Events) /\ Len(log) \in Nat
    <3>1. TypeOK
      BY DEF KnownInv, TypeInv
    <3>2. log \in Seq(Events)
      BY <3>1 DEF TypeOK
    <3>3. n \in 0..n
      BY <1>4
    <3> QED BY <3>1, <3>2, <3>3, LenProperties
  <2>2. Batch(n) \in Seq(Events) /\ Len(Batch(n)) = n
    BY <2>1, BatchType
  <2>3. Len(log') = Len(log) + 1
    <3>1. log' = log \o Batch(n)
      BY <1>6 DEF WriteBatch
    <3>2. Len(log') = Len(log) + Len(Batch(n))
      BY <2>1, <2>2, <3>1, ConcatProperties
    <3> QED BY <1>4, <2>2, <3>2
  <2>4. (CHOOSE i \in 1..n : queue[i].proc = Recovery) = 1
    BY <1>4
  <2>5. seq'[Recovery] = Len(log) + 1 /\ io'[Recovery] = "durable"
    BY <1>4, <1>5, <1>6, <2>4 DEF WriteBatch
  <2> QED BY <2>3, <2>5
<1>7. CASE WriteFails(n)
  BY <1>4, <1>5, <1>7 DEF WriteFails
<1>8. CASE DropBatch(n)
  BY <1>4, <1>5, <1>8 DEF DropBatch
<1> QED BY <1>1, <1>6, <1>7, <1>8

\* The startup goroutine moves on.
LEMMA AheadStartup ==
  ASSUME KnownInv, RecoveryAhead, [Next]_vars, Startup
  PROVE  RecoveryAhead'
<1> USE DEF ledgerVars, admissionVars, controlVars, worldVars
<1>1. /\ pc \in [Procs -> RequestPoints \cup ClosePoints \cup {"recover"}]
      /\ io \in [Procs -> IoPoints] /\ seq \in [Procs -> Nat] /\ Recovery \in Procs
      /\ st.wm \in Nat /\ TypeInv
  BY ProcsDistinct DEF KnownInv, TypeInv, TypeOK, States
<1>2. ASSUME NEW x, Goto(Recovery, x) PROVE pc'[Recovery] = x /\ io'[Recovery] = "none"
  BY <1>1, <1>2 DEF Goto
<1>3. CASE Replay
  <2>1. pc[Recovery] = "idle"
    BY <1>3 DEF Replay, KnownInv, CloseInv, OnlyServing, TypeInv, TypeOK
  <2> QED BY <1>3, <2>1 DEF Replay, RecoveryAhead
<1>4. CASE ReplayDone
  BY <1>2, <1>4 DEF ReplayDone, RecoveryAhead
<1>5. CASE RecoverLease
  <2>1. PICK e : Enqueue(Recovery, e)
    BY <1>5 DEF RecoverLease
  <2>2. UNCHANGED <<pc, st, log>> /\ io[Recovery] = "none" /\ io'[Recovery] = "queued"
    BY <1>1, <2>1 DEF Enqueue
  <2> QED BY <2>2 DEF RecoveryAhead
<1>6. CASE Refuse(Recovery)
  <2>1. /\ UNCHANGED <<pc, applyErr, status>> /\ pc[Recovery] \in Appending /\ io'[Recovery] = "err"
        /\ \/ applyErr \/ status # "healthy"
           \/ pc[Recovery] \in Appending \ (Cleanup \cup {"recover"}) \/ pc[Recovery] \in Cleanup
    BY <1>1, <1>6 DEF Refuse
  <2> QED BY <2>1 DEF RecoveryAhead, Cleanup
<1>7. CASE ApplyRecord(Recovery)
  <2>1. io[Recovery] = "durable" /\ UNCHANGED <<pc, log, seq>> /\ Turn(Recovery)
    BY <1>7 DEF ApplyRecord
  <2>2. /\ log[seq[Recovery]].kind = "AttemptSettled" /\ pc[Recovery] = "recover"
        /\ seq[Recovery] > st.wm
    BY <1>1, <2>1 DEF KnownInv, CloseInv, OthersRecorded, ApplyInv, TurnsAhead
  <2>3. seq[Recovery] = Len(log) /\ seq[Recovery] \in 1..Len(log) /\ seq[Recovery] \in Nat
    BY <1>1, <2>1, <2>2 DEF RecoveryAhead, TypeInv, DurableInLog
  <2>4. CASE CanApply(st, log[seq[Recovery]], seq[Recovery])
    <3>1. st' = Apply(st, log[seq[Recovery]], seq[Recovery]) /\ io'[Recovery] = "ok"
      BY <1>1, <1>7, <2>2, <2>4 DEF ApplyRecord, RequiresConfirmation
    <3>2. st'.wm = seq[Recovery]
      BY <1>1, <2>3, <3>1, ApplyForms
    <3> QED BY <2>1, <2>3, <3>1, <3>2 DEF RecoveryAhead
  <2>5. CASE ~CanApply(st, log[seq[Recovery]], seq[Recovery])
    <3>1. io'[Recovery] = "applyFailed"
      BY <1>1, <1>7, <2>5 DEF ApplyRecord
    <3> QED BY <3>1 DEF RecoveryAhead
  <2> QED BY <2>4, <2>5
<1>8. CASE MarkUnavailable(Recovery)
  BY <1>1, <1>8 DEF MarkUnavailable, RecoveryAhead
<1>9. CASE WaitConfirmed(Recovery)
  <2>1. pc[Recovery] = "recover"
    <3>1. pc[Recovery] \in Appending
      BY <1>1, <1>9 DEF WaitConfirmed, KnownInv, ApplyInv, IoOwned
    <3> QED BY <1>1, <3>1 DEF TypeInv, TypeOK, Appending
  <2> QED BY <1>9, <2>1 DEF WaitConfirmed, RecoveryAhead
<1>10. CASE RecoverReturns
  <2>1. UNCHANGED <<st, log>> /\ io'[Recovery] = "none" /\ pc[Recovery] = "recover"
        /\ (pc'[Recovery] = "idle" \/ io[Recovery] = "ok")
    BY <1>2, <1>10 DEF RecoverReturns
  <2> QED BY <2>1 DEF RecoveryAhead
<1>11. CASE RecoverDone
  BY <1>2, <1>11 DEF RecoverDone, RecoveryAhead
<1> QED BY <1>3, <1>4, <1>5, <1>6, <1>7, <1>8, <1>9, <1>10, <1>11 DEF Startup, AppendReturns

\* Every step leaves the startup goroutine ahead of what it writes.
LEMMA AheadNext ==
  ASSUME KnownInv, RecoveryAhead, [Next]_vars
  PROVE  RecoveryAhead'
<1> USE DEF ledgerVars, admissionVars, controlVars, worldVars
<1>1. CASE Writer
  BY <1>1, AheadWriter
<1>2. CASE Startup
  BY <1>2, AheadStartup
<1>3. CASE Crash
  <2>1. pc'[Recovery] = "idle"
    BY <1>3, ProcsDistinct DEF Crash
  <2> QED BY <2>1 DEF RecoveryAhead
<1>4. CASE pc[Recovery] = "recover" /\ ~Writer /\ ~Startup /\ ~Crash
  BY <1>4, RecoveringSteps DEF RecoveryAhead
<1>5. CASE pc[Recovery] # "recover" /\ ~Writer /\ ~Startup /\ ~Crash
  <2>1. TypeInv /\ pc \in [Procs -> RequestPoints \cup ClosePoints \cup {"recover"}]
    BY DEF KnownInv, TypeInv, TypeOK
  <2>2. ASSUME NEW r \in Requests, BeginRequest(r) \/ RequestStep(r) PROVE pc'[Recovery] = pc[Recovery]
    <3>1. PICK x : EntersFor(r, x)
      BY <2>1, <2>2, RequestEnters
    <3> QED BY <2>1, <3>1, ProcsDistinct DEF EntersFor, Goto
  <2>3. ASSUME NEW p \in Procs, AppendStep(p) PROVE pc' = pc
    BY <2>3 DEF AppendStep, Enqueue, AppendReturns, Refuse, ApplyRecord, MarkUnavailable,
                WaitConfirmed
  <2>4. ASSUME NEW u \in Runs, CloseRun(u) \/ CloseProceeds(u) \/ CloseReturns(u)
        PROVE  pc'[Recovery] = pc[Recovery]
    BY <2>1, <2>4, ProcsDistinct DEF CloseRun, CloseProceeds, CloseReturns, Goto
  <2>5. ASSUME (\E u \in Runs : Expire(u)) \/ Terminated \/ UNCHANGED vars PROVE pc' = pc
    BY <2>5 DEF Expire, Terminated, vars
  <2>6. pc'[Recovery] = pc[Recovery]
    BY <1>5, <2>2, <2>3, <2>4, <2>5, ProcsDistinct DEF Next, CloseStep
  <2> QED BY <1>5, <2>6 DEF RecoveryAhead
<1> QED BY <1>1, <1>2, <1>3, <1>4, <1>5

\* What is queued was queued before, or has just been handed over.
LEMMA QueueSteps ==
  ASSUME TypeInv, [Next]_vars, NEW i \in 1..Len(queue')
  PROVE  \/ \E k \in 1..Len(queue) : queue'[i] = queue[k]
         \/ \E p \in Requests \cup Runs : queue'[i].proc = p
         \/ /\ st' = st
            /\ \E a \in PendingLeases(st) : queue'[i] = [proc |-> Recovery, event |-> RecoveryEvent(a)]
<1> USE DEF ledgerVars, admissionVars, controlVars, worldVars
<1>1. ASSUME NEW p \in Procs, NEW e, Enqueue(p, e)
      PROVE  (\E k \in 1..Len(queue) : queue'[i] = queue[k]) \/ queue'[i] = [proc |-> p, event |-> e]
  <2>1. queue' = Append(queue, [proc |-> p, event |-> e]) /\ queue \in Seq(AppendRequests)
    BY <1>1 DEF Enqueue, TypeInv, TypeOK
  <2>2. /\ Len(queue) \in Nat /\ Len(queue') = Len(queue) + 1
        /\ \A k \in 1..Len(queue) : queue'[k] = queue[k]
        /\ queue'[Len(queue) + 1] = [proc |-> p, event |-> e]
    BY <2>1
  <2>3. i \in 1..Len(queue) \/ i = Len(queue) + 1
    BY <2>2
  <2> QED BY <2>2, <2>3
<1>2. ASSUME queue' = queue PROVE \E k \in 1..Len(queue) : queue'[i] = queue[k]
  BY <1>2
<1>3. CASE Writer
  <2>1. PICK n \in BatchSizes : queue' = SubSeq(queue, n + 1, Len(queue))
    BY <1>3 DEF Writer, WriteBatch, WriteFails, DropBatch
  <2>2. /\ n \in 1..Len(queue) /\ Len(queue) \in Nat /\ Len(queue') = Len(queue) - n
        /\ queue'[i] = queue[n + i]
    BY <2>1, QueueRest
  <2>3. n + i \in 1..Len(queue)
    BY <2>2
  <2> QED BY <2>2, <2>3
<1>4. ASSUME NEW r \in Requests, BeginRequest(r) \/ RequestStep(r) PROVE queue' = queue
  BY <1>4, RequestMoves
<1>5. ASSUME NEW p \in Procs, AppendReturns(p) PROVE queue' = queue
  BY <1>5 DEF AppendReturns, Refuse, ApplyRecord, MarkUnavailable, WaitConfirmed
<1>6. ASSUME NEW u \in Runs, CloseRun(u) \/ CloseProceeds(u) \/ CloseReturns(u) \/ Expire(u)
      PROVE  queue' = queue
  BY <1>6 DEF CloseRun, CloseProceeds, CloseReturns, Expire
<1>7. ASSUME Replay \/ ReplayDone \/ RecoverReturns \/ RecoverDone \/ Terminated \/ UNCHANGED vars
      PROVE  queue' = queue
  BY <1>7 DEF Replay, ReplayDone, RecoverReturns, RecoverDone, Terminated, vars
<1>8. CASE Crash
  <2>1. Len(queue') = 0
    BY <1>8 DEF Crash
  <2> QED BY <2>1
<1>9. ASSUME NEW p \in Requests \cup Runs, NEW e, Enqueue(p, e)
      PROVE  \/ \E k \in 1..Len(queue) : queue'[i] = queue[k]
             \/ \E q \in Requests \cup Runs : queue'[i].proc = q
  <2>1. (\E k \in 1..Len(queue) : queue'[i] = queue[k]) \/ queue'[i] = [proc |-> p, event |-> e]
    BY <1>1, <1>9, ProcsDistinct
  <2>2. queue'[i] = [proc |-> p, event |-> e] => queue'[i].proc = p
    OBVIOUS
  <2> QED BY <2>1, <2>2
<1>10. CASE RecoverLease
  <2>1. PICK a \in PendingLeases(st) : Enqueue(Recovery, RecoveryEvent(a))
    BY <1>10 DEF RecoverLease
  <2>2. st' = st
    BY <2>1 DEF Enqueue
  <2> QED BY <1>1, <2>1, <2>2, ProcsDistinct
<1> QED BY <1>2, <1>3, <1>4, <1>5, <1>6, <1>7, <1>8, <1>9, <1>10, ProcsDistinct
        DEF Next, AppendStep, CloseStep, Startup

\* Every step leaves the queued settlement of the startup goroutine with its lease.
LEMMA PendingNext ==
  ASSUME KnownInv, RecoveryPending, [Next]_vars
  PROVE  RecoveryPending'
<1> USE DEF ledgerVars, admissionVars, controlVars, worldVars
<1>1. TypeInv /\ OthersQueued
  BY DEF KnownInv, CloseInv
<1>2. SUFFICES ASSUME NEW i \in 1..Len(queue'), queue'[i].proc = Recovery
               PROVE  queue'[i].event.kind = "AttemptSettled" /\ st'.lease[queue'[i].event.att] # "none"
  BY DEF RecoveryPending
<1>3. CASE Crash
  <2>1. Len(queue') = 0
    BY <1>3 DEF Crash
  <2> QED BY <1>2, <2>1
<1>4. ASSUME NEW k \in 1..Len(queue), queue'[i] = queue[k], ~Crash
      PROVE  queue'[i].event.kind = "AttemptSettled" /\ st'.lease[queue'[i].event.att] # "none"
  <2>1. io[Recovery] = "queued" /\ pc[Recovery] = "recover"
    BY <1>1, <1>2, <1>4 DEF OthersQueued
  <2>2. queue[k].event.kind = "AttemptSettled" /\ st.lease[queue[k].event.att] # "none"
    BY <1>2, <1>4 DEF RecoveryPending
  <2>3. st' = st
    <3>1. CASE Writer
      BY <3>1 DEF Writer, WriteBatch, WriteFails, DropBatch
    <3>2. CASE Startup
      <4>1. phase = "recovering"
        BY <2>1 DEF KnownInv, CloseInv, OnlyServing
      <4> QED BY <2>1, <3>2, <4>1
              DEF Startup, Replay, ReplayDone, RecoverLease, Enqueue, AppendReturns, Refuse,
                  ApplyRecord, MarkUnavailable, WaitConfirmed, RecoverReturns, RecoverDone
    <3> QED BY <1>4, <2>1, <3>1, <3>2, RecoveringSteps
  <2> QED BY <1>4, <2>2, <2>3
<1>5. ASSUME NEW a \in PendingLeases(st), queue'[i] = [proc |-> Recovery, event |-> RecoveryEvent(a)],
             st' = st
      PROVE  queue'[i].event.kind = "AttemptSettled" /\ st'.lease[queue'[i].event.att] # "none"
  <2>1. queue'[i].event.kind = "AttemptSettled" /\ queue'[i].event.att = a
    BY <1>5 DEF RecoveryEvent, AttemptSettled
  <2> QED BY <1>5, <2>1 DEF PendingLeases
<1> QED BY <1>1, <1>2, <1>3, <1>4, <1>5, QueueSteps, ProcsDistinct

-----------------------------------------------------------------------------

\* The log is empty at first.
LEMMA HistoryInit == Init => HistoryInv
<1> SUFFICES ASSUME Init PROVE HistoryInv
  OBVIOUS
<1>1. /\ Len(log) = 0 /\ Len(queue) = 0 /\ st = NewState
      /\ \A r \in Requests : pc[r] = "idle"
      /\ pc[Recovery] = "idle"
  BY ProcsDistinct DEF Init
<1>2. /\ \A i \in 1..Len(log) : FALSE
      /\ \A i \in 1..Len(queue) : FALSE
  BY <1>1
<1>3. LogOrdered
  BY <1>2 DEF LogOrdered, LeaseOrdered, RequestOrdered, CloseOrdered
<1>4. \A r \in Requests : StandsInLog(r)
  BY <1>1, <1>2 DEF StandsInLog, InLoop, AttemptStands, Mentioned
<1>5. RecoveryAhead /\ RecoveryPending
  BY <1>1, <1>2 DEF RecoveryAhead, RecoveryPending
<1>6. LeasesRead /\ RequestsRead
  BY <1>1, <1>2 DEF LeasesRead, RequestsRead, ReadReserved, ReadAccepted, NewState
<1> QED BY <1>3, <1>4, <1>5, <1>6 DEF HistoryInv

\* Every step keeps the history in order.
LEMMA HistoryNext == KnownInv /\ HistoryInv /\ [Next]_vars => HistoryInv'
<1> SUFFICES ASSUME KnownInv, HistoryInv, [Next]_vars PROVE HistoryInv'
  OBVIOUS
<1>1. LogOrdered'
  BY LogOrderedNext
<1>2. \A r \in Requests : StandsInLog(r)'
  BY StandsNext
<1>3. RecoveryAhead' /\ RecoveryPending'
  BY AheadNext, PendingNext DEF HistoryInv
<1>4. LeasesRead' /\ RequestsRead'
  BY ReadsNext
<1> QED BY <1>1, <1>2, <1>3, <1>4 DEF HistoryInv

\* The invariants proved before hold together.
LEMMA KnownHolds == Spec => []KnownInv
BY TypeInit, TypeNext, CallInit, CallNext, CloseInit, CloseNext, AdmissionsHold, ConservationHolds,
   ApplyInit, ApplyNext, PTL DEF Spec, KnownInv

\* What the log is and says holds in every behaviour.
LEMMA HistoryHolds == Spec => []HistoryInv
BY HistoryInit, HistoryNext, KnownHolds, PTL DEF Spec

-----------------------------------------------------------------------------
(* What no start gets past *)

\* A request on a Run was finalized with a lease open.
RunLeak == \E a \in Attempts : RunOf[a[1]] # NoRun /\ Leaked(a)

\* What was leaked stays leaked.
LEMMA LeakStays ==
  ASSUME TypeInv, [Next]_vars, RunLeak
  PROVE  RunLeak'
<1>1. PICK a \in Attempts : RunOf[a[1]] # NoRun /\ Leaked(a)
  BY DEF RunLeak
<1>2. DOMAIN log = 1..Len(log) /\ DOMAIN log' = 1..Len(log') /\ Len(log) \in Nat
  <2>1. log \in Seq(Events) /\ log' \in Seq(Events)
    BY TypeNext DEF TypeInv, TypeOK
  <2> QED BY <2>1, LenProperties
<1>3. PICK i, j \in 1..Len(log) :
        /\ i < j /\ log[i] = ReservationCreated(a) /\ log[j] = RequestFinalized(a[1])
        /\ ~\E k \in i .. j : SettlesAt(a, k)
  BY <1>1, <1>2 DEF Leaked
<1>4. \A k \in i .. j : k \in 1..Len(log)
  BY <1>2
<1>5. \A k \in i .. j : ~SettlesAt(a, k)'
  BY <1>3, <1>4, OldRecords
<1>6. /\ i \in 1..Len(log') /\ j \in 1..Len(log')
      /\ log'[i] = ReservationCreated(a) /\ log'[j] = RequestFinalized(a[1])
  BY <1>3, OldRecords
<1>7. Leaked(a)'
  BY <1>2, <1>3, <1>5, <1>6 DEF Leaked, ReservationCreated, RequestFinalized
<1> QED BY <1>1, <1>7 DEF RunLeak

\* A request whose next record is not its acceptance and not a settlement is attributed.
LEMMA NextAttributed ==
  ASSUME KnownInv, HistoryInv, NEW n \in 1..Len(log), n = st.wm + 1, NEW r \in Requests,
         About(r, n), ~AcceptedAt(r, n)
  PROVE  \/ Attributed(st, r)
         \/ /\ RunOf[r] # NoRun /\ log[n].kind = "AttemptSettled"
            /\ \E j \in 1..Len(log) : j <= st.wm /\ FinalizedAt(r, j)
<1>1. RequestOrdered(r) /\ RequestsRead /\ st.wm \in Nat /\ n \in Nat
  BY DEF KnownInv, HistoryInv, LogOrdered, TypeInv, TypeOK, States
<1>2. ReadAccepted(r)
  <2>1. PICK i \in 1..Len(log) : i <= n /\ AcceptedAt(r, i)
    BY <1>1 DEF RequestOrdered
  <2>2. i # n
    BY <2>1
  <2>3. i <= st.wm
    BY <1>1, <2>1, <2>2
  <2> QED BY <2>1, <2>3 DEF ReadAccepted
<1>3. ASSUME NEW j \in 1..Len(log), j <= st.wm, FinalizedAt(r, j)
      PROVE  log[n].kind = "AttemptSettled"
  <2>1. j < n
    BY <1>1, <1>3
  <2> QED BY <1>1, <1>3, <2>1 DEF RequestOrdered
<1>4. CASE RunOf[r] = NoRun
  BY <1>4 DEF Attributed
<1>5. CASE RunOf[r] # NoRun
  <2>1. r \in st.requestRuns <=> ReadAccepted(r) /\ ~ReadFinalized(r)
    BY <1>1, <1>5 DEF RequestsRead
  <2> QED BY <1>2, <1>3, <1>5, <2>1 DEF Attributed, ReadFinalized
<1> QED BY <1>4, <1>5

\* The settlement of a lease that its request left open when it was finalized.
LEMMA LeakFound ==
  ASSUME KnownInv, HistoryInv, NEW n \in 1..Len(log), NEW a \in Attempts, SettlesAt(a, n),
         NEW j \in 1..Len(log), j < n, FinalizedAt(a[1], j)
  PROVE  Leaked(a)
<1>1. LeaseOrdered(a) /\ RequestOrdered(a[1]) /\ DOMAIN log = 1..Len(log) /\ Len(log) \in Nat
  <2>1. log \in Seq(Events) /\ a[1] \in Requests
    BY DEF KnownInv, TypeInv, TypeOK, Attempts
  <2> QED BY <2>1, LenProperties DEF HistoryInv, LogOrdered
<1>2. PICK i \in 1..Len(log) : i < n /\ ReservedAt(a, i)
  BY <1>1 DEF LeaseOrdered
<1>3. About(a[1], i) /\ log[i].kind = "ReservationCreated" /\ log[j].kind = "RequestFinalized"
  BY <1>2, FormsAbout
<1>4. ~(j < i) /\ i # j
  BY <1>1, <1>3 DEF RequestOrdered
<1>5. i < j
  BY <1>4
<1>6. ASSUME NEW k \in i .. j, SettlesAt(a, k) PROVE FALSE
  <2>1. k \in 1..Len(log)
    BY <1>1
  <2>2. k = n
    BY <1>1, <1>6, <2>1 DEF LeaseOrdered
  <2> QED BY <2>2
<1> QED BY <1>1, <1>2, <1>5, <1>6 DEF Leaked, ReservedAt, FinalizedAt

\* The next record of the log can be applied, unless the log holds a leaked lease.
LEMMA NextAccepted ==
  ASSUME KnownInv, HistoryInv, NEW n \in 1..Len(log), n = st.wm + 1
  PROVE  CanApply(st, log[n], n) \/ RunLeak
<1>1. /\ TypeInv /\ LogOrdered /\ LeasesRead /\ st.wm \in Nat /\ n \in Nat /\ n > st.wm
      /\ st \in States /\ \A a \in Attempts : st.lease[a] \in LeaseStatus
      /\ \A i \in 1..Len(log) : i < n => i <= st.wm
      /\ \A i \in 1..Len(log) : i <= st.wm => i < n /\ i # n
  <2>1. TypeInv /\ LogOrdered /\ LeasesRead
    BY DEF KnownInv, HistoryInv
  <2>2. st \in States
    BY <2>1 DEF TypeInv, TypeOK
  <2>3. st.wm \in Nat /\ st.lease \in [Attempts -> LeaseStatus]
    BY <2>2 DEF States
  <2> QED BY <2>1, <2>2, <2>3
<1>2. CASE log[n].kind = "RequestAccepted"
  <2>1. log[n].req \in Requests
    BY <1>1, <1>2, RecordForms
  <2>2. RunOf[log[n].req] # NoRun => RunOf[log[n].req] \notin st.closed
    <3>1. SUFFICES ASSUME RunOf[log[n].req] \in st.closed PROVE FALSE
      OBVIOUS
    <3>2. PICK i \in 1..Len(log) : i <= st.wm /\ log[i].kind = "RunClosed" /\ log[i].run = RunOf[log[n].req]
      BY <3>1 DEF KnownInv, ApplyInv, ClosedRead
    <3>3. i \in DOMAIN log /\ n \in DOMAIN log /\ i < n /\ RequestOf(log[n]) = log[n].req
      <4>1. DOMAIN log = 1..Len(log)
        BY <1>1, LenProperties DEF TypeInv, TypeOK
      <4> QED BY <1>1, <1>2, <3>2, <4>1 DEF RequestOf
    <3> QED BY <1>2, <3>2, <3>3 DEF KnownInv, CloseInv, NothingAfterClose
  <2> QED BY <1>1, <1>2, <2>2 DEF CanApply, Accepts
<1>3. CASE log[n].kind = "RequestFinalized"
  <2>1. log[n].req \in Requests /\ About(log[n].req, n) /\ ~AcceptedAt(log[n].req, n)
    BY <1>1, <1>3, RecordForms, FormsAbout
  <2>2. Attributed(st, log[n].req)
    BY <1>3, <2>1, NextAttributed
  <2> QED BY <1>1, <1>3, <2>2 DEF CanApply, Accepts
<1>4. CASE log[n].kind \in {"ReservationCreated", "AttemptStarted"}
  <2>1. log[n].att \in Attempts /\ log[n].att[1] \in Requests
    BY <1>1, <1>4, RecordForms DEF Attempts
  <2>2. About(log[n].att[1], n) /\ ~AcceptedAt(log[n].att[1], n)
    BY <1>1, <1>4, <2>1, RecordForms, FormsAbout
  <2>3. Attributed(st, log[n].att[1])
    BY <1>4, <2>1, <2>2, NextAttributed
  <2>4. CASE log[n].kind = "ReservationCreated"
    <3>1. ReservedAt(log[n].att, n)
      BY <1>1, <2>4, RecordForms
    <3>2. ~ReadReserved(log[n].att)
      BY <1>1, <2>1, <3>1 DEF ReadReserved, LogOrdered, LeaseOrdered
    <3>3. st.lease[log[n].att] = "none"
      BY <1>1, <2>1, <3>2 DEF LeasesRead
    <3> QED BY <1>1, <2>3, <2>4, <3>3 DEF CanApply, Accepts
  <2>5. CASE log[n].kind = "AttemptStarted"
    <3>1. StartedAt(log[n].att, n)
      BY <1>1, <2>5, RecordForms
    <3>2. ReadReserved(log[n].att)
      BY <1>1, <2>1, <3>1 DEF ReadReserved, LogOrdered, LeaseOrdered
    <3>3. ~ReadSettled(log[n].att)
      BY <1>1, <2>1, <3>1 DEF ReadSettled, LogOrdered, LeaseOrdered
    <3>4. ~ReadStarted(log[n].att)
      BY <1>1, <2>1, <3>1 DEF ReadStarted, LogOrdered, LeaseOrdered
    <3>5. st.lease[log[n].att] = "held"
      BY <1>1, <2>1, <3>2, <3>3, <3>4 DEF LeasesRead, LeaseStatus
    <3> QED BY <1>1, <2>3, <2>5, <3>5 DEF CanApply, Accepts
  <2> QED BY <1>4, <2>4, <2>5
<1>5. CASE log[n].kind = "AttemptSettled"
  <2> DEFINE a == log[n].att
  <2>1. a \in Attempts /\ a[1] \in Requests /\ SettlesAt(a, n)
    BY <1>1, <1>5, RecordForms DEF Attempts
  <2>2. About(a[1], n) /\ ~AcceptedAt(a[1], n)
    BY <1>5, <2>1, FormsAbout
  <2>3. ReadReserved(a)
    BY <1>1, <2>1 DEF ReadReserved, LogOrdered, LeaseOrdered
  <2>4. ~ReadSettled(a)
    BY <1>1, <2>1 DEF ReadSettled, LogOrdered, LeaseOrdered
  <2>5. st.lease[a] # "none"
    BY <1>1, <2>1, <2>3, <2>4 DEF LeasesRead
  <2>6. st.reserved >= Amount[a] /\ (RunOf[a[1]] # NoRun => st.runReserved[RunOf[a[1]]] >= Amount[a])
    BY <1>1, <2>1, <2>5, LeaseCovered DEF KnownInv, Conservation
  <2>7. CASE Attributed(st, a[1])
    BY <1>1, <1>5, <2>5, <2>6, <2>7 DEF CanApply, Accepts
  <2>8. CASE ~Attributed(st, a[1])
    <3>1. RunOf[a[1]] # NoRun /\ \E j \in 1..Len(log) : j <= st.wm /\ FinalizedAt(a[1], j)
      BY <2>1, <2>2, <2>8, NextAttributed
    <3>2. PICK j \in 1..Len(log) : j <= st.wm /\ FinalizedAt(a[1], j)
      BY <3>1
    <3>3. Leaked(a)
      <4> HIDE DEF a
      <4> QED BY <1>1, <2>1, <3>2, LeakFound
    <3> QED BY <2>1, <3>1, <3>3 DEF RunLeak
  <2> QED BY <2>7, <2>8
<1>6. CASE log[n].kind = "RunClosed"
  <2>1. log[n].run \in Runs /\ ClosedAt(log[n].run, n)
    BY <1>1, <1>6, RecordForms
  <2>2. log[n].run \notin st.closed
    <3>1. SUFFICES ASSUME log[n].run \in st.closed PROVE FALSE
      OBVIOUS
    <3>2. PICK i \in 1..Len(log) : i <= st.wm /\ log[i].kind = "RunClosed" /\ log[i].run = log[n].run
      BY <3>1 DEF KnownInv, ApplyInv, ClosedRead
    <3>3. ClosedAt(log[n].run, i)
      BY <1>1, <3>2, RecordForms
    <3> QED BY <1>1, <2>1, <3>2, <3>3 DEF LogOrdered, CloseOrdered
  <2> QED BY <1>1, <1>6, <2>2 DEF CanApply, Accepts
<1>7. log[n] \in Events
  BY <1>1, RecordForms
<1> QED BY <1>2, <1>3, <1>4, <1>5, <1>6, <1>7, EventKinds

\* Only a leaked lease makes a record unfit to be applied, and only that, or a WAL that cannot
\* be written, ends a startup.
LeakInv == applyErr \/ (phase = "failed" /\ status = "healthy") => RunLeak

\* A record the read model refuses at a start is the settlement of a leaked lease.
LEMMA LeakNext == KnownInv /\ HistoryInv /\ LeakInv /\ [Next]_vars => LeakInv'
<1> SUFFICES ASSUME KnownInv, HistoryInv, LeakInv, [Next]_vars PROVE LeakInv'
  OBVIOUS
<1> USE DEF ledgerVars, admissionVars, controlVars, worldVars
<1>1. /\ TypeInv /\ TurnsAhead /\ RecoveryAhead /\ st.wm \in Nat /\ Len(log) \in Nat
      /\ status \in {"healthy", "unavailable"}
  BY LogGrows DEF KnownInv, HistoryInv, ApplyInv, TypeInv, TypeOK, States
<1>2. ASSUME applyErr' => applyErr, phase' = "failed" => phase = "failed",
             status' = "healthy" => status = "healthy"
      PROVE  LeakInv'
  BY <1>1, <1>2, LeakStays DEF LeakInv
<1>3. ASSUME RunLeak PROVE LeakInv'
  BY <1>1, <1>3, LeakStays DEF LeakInv
<1>4. ASSUME NEW n \in 1..Len(log), n = st.wm + 1, ~CanApply(st, log[n], n) PROVE LeakInv'
  BY <1>3, <1>4, NextAccepted
<1>5. ASSUME NEW p \in Procs, ApplyRecord(p) PROVE LeakInv'
  <2>1. CASE CanApply(st, log[seq[p]], seq[p])
    BY <1>2, <1>5, <2>1 DEF ApplyRecord
  <2>2. CASE ~CanApply(st, log[seq[p]], seq[p])
    <3>1. io[p] = "durable" /\ Turn(p)
      BY <1>5 DEF ApplyRecord
    <3>2. seq[p] > st.wm /\ seq[p] \in 1..Len(log) /\ st.wm + 1 >= seq[p]
      BY <1>1, <3>1 DEF TurnsAhead, TypeInv, DurableInLog, Turn
    <3>3. seq[p] = st.wm + 1
      BY <1>1, <3>2
    <3> QED BY <1>4, <2>2, <3>2, <3>3
  <2> QED BY <2>1, <2>2
<1>6. ASSUME NEW p \in Procs, Refuse(p) \/ MarkUnavailable(p) \/ WaitConfirmed(p) PROVE LeakInv'
  BY <1>2, <1>6 DEF Refuse, MarkUnavailable, WaitConfirmed
<1>7. ASSUME NEW p \in Procs, NEW e, Enqueue(p, e) PROVE LeakInv'
  BY <1>2, <1>7 DEF Enqueue
<1>8. CASE Writer
  <2>1. applyErr' = applyErr /\ phase' = phase /\ status' \in {status, "unavailable"}
    BY <1>8 DEF Writer, WriteBatch, WriteFails, DropBatch
  <2> QED BY <1>2, <2>1
<1>9. ASSUME NEW r \in Requests, BeginRequest(r) \/ RequestStep(r) PROVE LeakInv'
  BY <1>1, <1>2, <1>9, RequestEnters DEF EntersFor
<1>10. ASSUME NEW u \in Runs, CloseRun(u) \/ CloseProceeds(u) \/ CloseReturns(u) \/ Expire(u)
       PROVE  LeakInv'
  BY <1>2, <1>10 DEF CloseRun, CloseProceeds, CloseReturns, Expire
<1>11. CASE Replay
  <2>1. st.wm + 1 \in 1..Len(log)
    BY <1>1, <1>11 DEF Replay
  <2>2. CASE CanApply(st, log[st.wm + 1], st.wm + 1)
    BY <1>2, <1>11, <2>2 DEF Replay
  <2>3. CASE ~CanApply(st, log[st.wm + 1], st.wm + 1)
    BY <1>4, <2>1, <2>3
  <2> QED BY <2>2, <2>3
<1>12. CASE ReplayDone \/ RecoverDone
  <2>1. applyErr' = applyErr /\ phase' # "failed" /\ status' = status
    BY <1>12 DEF ReplayDone, RecoverDone
  <2> QED BY <1>2, <2>1
<1>13. CASE RecoverReturns
  <2>1. CASE io[Recovery] = "ok"
    BY <1>2, <1>13, <2>1 DEF RecoverReturns
  <2>2. CASE io[Recovery] # "ok"
    <3>1. applyErr \/ status # "healthy"
      BY <1>1, <1>13, <2>2 DEF RecoverReturns, RecoveryAhead
    <3>2. status' = status /\ applyErr' = applyErr
      BY <1>13 DEF RecoverReturns
    <3>3. CASE applyErr
      BY <1>3, <3>3 DEF LeakInv
    <3>4. CASE ~applyErr
      BY <3>1, <3>2, <3>4 DEF LeakInv
    <3> QED BY <3>3, <3>4
  <2> QED BY <2>1, <2>2
<1>14. CASE Crash
  BY <1>14 DEF Crash, LeakInv
<1>15. CASE Terminated \/ UNCHANGED vars
  BY <1>2, <1>15 DEF Terminated, vars
<1> QED BY <1>5, <1>6, <1>7, <1>8, <1>9, <1>10, <1>11, <1>12, <1>13, <1>14, <1>15, ProcsDistinct
        DEF Next, AppendStep, AppendReturns, CloseStep, Startup, RecoverLease

\* Whatever is lost, refused or delayed, and wherever the process crashes, the only thing in a
\* log that a start cannot get past is the lease that a request on a Run left open when it was
\* finalized.
THEOREM OnlyRunLeaksStop == Spec => []OnlyRunLeaksBlockStart
<1>1. Init => LeakInv
  BY DEF Init, LeakInv
<1>2. KnownInv /\ LeakInv => OnlyRunLeaksBlockStart
  BY DEF KnownInv, TypeInv, TypeOK, LeakInv, RunLeak, OnlyRunLeaksBlockStart, RestartSucceeds
<1> QED BY <1>1, <1>2, LeakNext, KnownHolds, HistoryHolds, PTL DEF Spec

-----------------------------------------------------------------------------
(* What an error tells a request *)

\* How the append of a request gets on in one step.
IoStep(r) ==
  \/ io'[r] = io[r]
  \/ io[r] = "none" /\ io'[r] = "queued"
  \/ io[r] = "queued" /\ io'[r] = "durable"
  \/ io[r] \in {"queued", "applyFailed"} /\ io'[r] = "err" /\ status' # "healthy"
  \/ /\ io[r] = "none" /\ io'[r] = "err" /\ pc[r] \in Appending
     /\ ~Appends' \/ pc[r] \notin Cleanup \/ CleanupExpires
  \/ io[r] = "durable" /\ io'[r] \in {"ok", "applyFailed"}
  \/ io[r] = "durable" /\ io'[r] = "confirm" /\ Confirming /\ pc[r] \in {"reserve", "start"}
  \/ io[r] = "confirm" /\ io'[r] \in {"ok", "err"}

\* A step is a crash or a move of the request, or leaves it at its point with its append
\* as IoStep says; a ledger that appends has done so all along.
LEMMA RequestIo ==
  ASSUME KnownInv, [Next]_vars, NEW r \in Requests
  PROVE  \/ Crash
         \/ /\ Appends' => Appends
            /\ \/ BeginRequest(r) \/ RequestStep(r)
               \/ pc'[r] = pc[r] /\ att'[r] = att[r] /\ bill'[r] = bill[r] /\ IoStep(r)
<1> USE DEF ledgerVars, admissionVars, controlVars, worldVars
<1>1. /\ TypeInv /\ io \in [Procs -> IoPoints] /\ QueueOwned /\ r \in Procs
      /\ pc \in [Procs -> RequestPoints \cup ClosePoints \cup {"recover"}]
      /\ status \in {"healthy", "unavailable"}
  BY ProcsDistinct DEF KnownInv, CallInv, TypeInv, TypeOK
<1> DEFINE Stays == pc'[r] = pc[r] /\ att'[r] = att[r] /\ bill'[r] = bill[r]
           Kept == Appends' => Appends
<1>2. ASSUME NEW q \in Requests, BeginRequest(q) \/ RequestStep(q)
      PROVE  Kept /\ (q = r \/ (Stays /\ IoStep(r)))
  <2>1. PICK x : EntersFor(q, x)
    BY <1>1, <1>2, RequestEnters
  <2>2. Kept
    BY <2>1 DEF EntersFor, Appends
  <2>3. q # r => pc'[r] = pc[r] /\ io'[r] = io[r]
    BY <1>1, <2>1, ProcsDistinct DEF EntersFor, Goto
  <2>4. q # r => att'[r] = att[r] /\ bill'[r] = bill[r]
    BY <1>1, <1>2, RequestMoves
  <2> QED BY <2>2, <2>3, <2>4 DEF IoStep
<1>3. ASSUME NEW p \in Procs, NEW e, Enqueue(p, e) PROVE Kept /\ Stays /\ IoStep(r)
  <2>1. /\ UNCHANGED <<pc, att, bill, status, applyErr>> /\ io[p] = "none"
        /\ io' = [io EXCEPT ![p] = "queued"]
    BY <1>3 DEF Enqueue
  <2>2. io'[r] = IF r = p THEN "queued" ELSE io[r]
    BY <1>1, <2>1
  <2> QED BY <2>1, <2>2 DEF Appends, IoStep
<1>4. ASSUME NEW p \in Procs, AppendReturns(p) PROVE Kept /\ Stays /\ IoStep(r)
  <2>1. UNCHANGED <<pc, att, bill>>
    BY <1>4 DEF AppendReturns, Refuse, ApplyRecord, MarkUnavailable, WaitConfirmed
  <2>2. CASE Refuse(p)
    <3>1. /\ io[p] = "none" /\ io' = [io EXCEPT ![p] = "err"] /\ UNCHANGED <<status, applyErr>>
          /\ pc[p] \in Appending
          /\ applyErr \/ status # "healthy" \/ pc[p] \notin Cleanup \/ CleanupExpires
      BY <2>2 DEF Refuse
    <3>2. io'[r] = IF r = p THEN "err" ELSE io[r]
      BY <1>1, <3>1
    <3> QED BY <2>1, <3>1, <3>2 DEF Appends, IoStep
  <2>3. CASE ApplyRecord(p)
    <3>1. /\ io[p] = "durable" /\ UNCHANGED status /\ (~applyErr' => ~applyErr)
          /\ \E y \in {"ok", "confirm", "applyFailed"} :
               /\ io' = [io EXCEPT ![p] = y]
               /\ y = "confirm" => Confirming /\ RequiresConfirmation(log[seq[p]])
      BY <2>3 DEF ApplyRecord
    <3>2. PICK y \in {"ok", "confirm", "applyFailed"} :
               /\ io' = [io EXCEPT ![p] = y]
               /\ y = "confirm" => Confirming /\ RequiresConfirmation(log[seq[p]])
      BY <3>1
    <3>3. io'[r] = IF r = p THEN y ELSE io[r]
      BY <1>1, <3>2
    <3>4. r = p /\ y = "confirm" => pc[r] \in {"reserve", "start"}
      <4>1. SUFFICES ASSUME r = p, y = "confirm" PROVE pc[r] \in {"reserve", "start"}
        OBVIOUS
      <4>2. log[seq[r]] = EventOf(r) /\ pc[r] \in Appending
        BY <3>1, <4>1, ProcsDistinct DEF KnownInv, CallInv, RecordsLogged, LoggedIo, ApplyInv, IoOwned
      <4>3. EventOf(r).kind \in {"ReservationCreated", "AttemptStarted"}
        BY <3>2, <4>1, <4>2 DEF RequiresConfirmation
      <4> QED BY <1>1, <4>2, <4>3, EventForms
              DEF RequestAccepted, RequestFinalized, AttemptSettled
    <3> QED BY <2>1, <3>1, <3>2, <3>3, <3>4 DEF Appends, IoStep
  <2>4. CASE MarkUnavailable(p)
    <3>1. /\ io[p] = "applyFailed" /\ io' = [io EXCEPT ![p] = "err"] /\ status' = "unavailable"
          /\ applyErr' = applyErr
      BY <2>4 DEF MarkUnavailable
    <3>2. io'[r] = IF r = p THEN "err" ELSE io[r]
      BY <1>1, <3>1
    <3> QED BY <2>1, <3>1, <3>2 DEF Appends, IoStep
  <2>5. CASE WaitConfirmed(p)
    <3>1. /\ io[p] = "confirm" /\ UNCHANGED <<status, applyErr>>
          /\ \E y \in {"ok", "err"} : io' = [io EXCEPT ![p] = y]
      BY <2>5 DEF WaitConfirmed
    <3>2. \/ r = p /\ io'[r] \in {"ok", "err"}
          \/ io'[r] = io[r]
      BY <1>1, <3>1
    <3> QED BY <2>1, <3>1, <3>2 DEF Appends, IoStep
  <2> QED BY <1>4, <2>2, <2>3, <2>4, <2>5 DEF AppendReturns
<1>5. CASE Writer
  <2>1. PICK n \in BatchSizes : WriteBatch(n) \/ WriteFails(n) \/ DropBatch(n)
    BY <1>5 DEF Writer
  <2>2. UNCHANGED <<pc, att, bill, applyErr>> /\ status' \in {status, "unavailable"}
    BY <2>1 DEF WriteBatch, WriteFails, DropBatch
  <2>3. InBatch(n, r) => io[r] = "queued"
    <3>1. SUFFICES ASSUME NEW i \in 1..n, queue[i].proc = r PROVE io[r] = "queued"
      BY DEF InBatch
    <3>2. i \in 1..Len(queue)
      BY <1>1, BatchType, LogGrows DEF TypeInv, BatchSizes
    <3> QED BY <1>1, <3>1, <3>2 DEF QueueOwned
  <2>4. \/ io'[r] = io[r]
        \/ io[r] = "queued" /\ io'[r] = "durable"
        \/ io[r] = "queued" /\ io'[r] = "err" /\ status' # "healthy"
    BY <1>1, <2>1, <2>3 DEF WriteBatch, WriteFails, DropBatch
  <2> QED BY <2>2, <2>4 DEF Appends, IoStep
<1>6. ASSUME NEW p \in Runs \cup {Recovery}, NEW x, Goto(p, x), UNCHANGED <<att, bill, status, applyErr>>
      PROVE  Kept /\ Stays /\ IoStep(r)
  <2>1. pc'[r] = pc[r] /\ io'[r] = io[r]
    BY <1>1, <1>6, ProcsDistinct DEF Goto
  <2> QED BY <1>6, <2>1 DEF Appends, IoStep
<1>7. ASSUME NEW u \in Runs, CloseRun(u) \/ CloseProceeds(u) \/ CloseReturns(u)
      PROVE  Kept /\ Stays /\ IoStep(r)
  BY <1>6, <1>7 DEF CloseRun, CloseProceeds, CloseReturns
<1>8. CASE ReplayDone \/ RecoverReturns \/ RecoverDone
  <2>1. (\E x : Goto(Recovery, x)) /\ UNCHANGED <<att, bill, status, applyErr>>
    BY <1>8 DEF ReplayDone, RecoverReturns, RecoverDone
  <2> QED BY <1>6, <2>1
<1>9. CASE Replay \/ Terminated \/ UNCHANGED vars \/ \E u \in Runs : Expire(u)
  <2>1. UNCHANGED <<pc, io, att, bill, status, applyErr>>
    BY <1>9 DEF Replay, Terminated, vars, Expire
  <2> QED BY <2>1 DEF Appends, IoStep
<1>10. ASSUME NEW p \in Procs, AppendStep(p) PROVE Kept /\ Stays /\ IoStep(r)
  BY <1>3, <1>4, <1>10 DEF AppendStep
<1>11. CASE \E q \in Requests : BeginRequest(q) \/ RequestStep(q) \/ AppendStep(q)
  <2> HIDE DEF Stays, Kept
  <2>1. PICK q \in Requests : BeginRequest(q) \/ RequestStep(q) \/ AppendStep(q)
    BY <1>11
  <2>2. q \in Procs
    BY ProcsDistinct
  <2>3. CASE AppendStep(q)
    BY <1>10, <2>2, <2>3 DEF Stays, Kept
  <2>4. CASE BeginRequest(q) \/ RequestStep(q)
    BY <1>2, <2>4 DEF Stays, Kept
  <2> QED BY <2>1, <2>3, <2>4
<1>12. CASE \E u \in Runs : CloseRun(u) \/ CloseStep(u) \/ Expire(u)
  <2>1. PICK u \in Runs : CloseRun(u) \/ CloseStep(u) \/ Expire(u)
    BY <1>12
  <2>2. u \in Procs
    BY ProcsDistinct
  <2>3. CASE Expire(u)
    BY <1>9, <2>3
  <2>4. CASE AppendStep(u)
    BY <1>10, <2>2, <2>4
  <2>5. CASE CloseRun(u) \/ CloseProceeds(u) \/ CloseReturns(u)
    BY <1>7, <2>5
  <2> QED BY <2>1, <2>3, <2>4, <2>5 DEF CloseStep
<1>13. CASE Startup
  <2>1. Recovery \in Procs
    BY ProcsDistinct
  <2>2. CASE RecoverLease
    <3>1. \E e : Enqueue(Recovery, e)
      BY <2>2 DEF RecoverLease
    <3> QED BY <1>3, <2>1, <3>1
  <2>3. CASE AppendReturns(Recovery)
    BY <1>4, <2>1, <2>3
  <2> QED BY <1>8, <1>9, <1>13, <2>2, <2>3 DEF Startup
<1> QED BY <1>5, <1>9, <1>11, <1>12, <1>13 DEF Next

\* Nothing is written about a request between its appends.
LEMMA NothingFresh ==
  ASSUME KnownInv, HistoryInv, [Next]_vars, NEW r \in Requests,
         pc[r] \notin {"idle", "done"}, io[r] # "queued"
  PROVE  \A j : Fresh(j) => ~About(r, j)'
BY FreshAdds DEF Adds, HistoryInv

\* A settlement that is in the log stays there.
LEMMA SettledStays ==
  ASSUME TypeInv, [Next]_vars, NEW a \in Attempts, SettledIn(a)
  PROVE  SettledIn(a)'
BY OldRecords DEF SettledIn

\* An attempt's reservation is written while its request waits for it.
LEMMA ReservedByRequest ==
  ASSUME KnownInv, HistoryInv, [Next]_vars, NEW a \in Attempts, ReservedIn(a)'
  PROVE  ReservedIn(a) \/ (pc[a[1]] = "reserve" /\ io[a[1]] = "queued" /\ a = Current(a[1]))
<1>1. PICK i \in 1..Len(log') : ReservedAt(a, i)'
  BY DEF ReservedIn
<1>2. TypeInv /\ a[1] \in Requests /\ RecoveryAhead /\ RecoveryPending
  BY DEF KnownInv, HistoryInv, Attempts
<1>3. CASE i \in 1..Len(log)
  BY <1>1, <1>2, <1>3, OldRecords DEF ReservedIn
<1>4. CASE Fresh(i)
  <2>1. Adds(a[1], i) /\ log'[i].kind = "ReservationCreated"
    BY <1>1, <1>2, <1>4, FreshAdds, FormsAboutNext
  <2>2. io[a[1]] = "queued" /\ pc[a[1]] \in Appending /\ log'[i] = EventOf(a[1])
    BY <2>1 DEF Adds
  <2> QED BY <1>1, <1>2, <2>1, <2>2, AddsForms
<1> QED BY <1>2, <1>3, <1>4, OldOrFresh

\* The append of a move starts afresh.
LEMMA MoveFresh ==
  ASSUME KnownInv, NEW r \in Requests, BeginRequest(r) \/ RequestStep(r)
  PROVE  io'[r] = "none" /\ log' = log /\ (Appends' <=> Appends)
<1>1. PICK x : EntersFor(r, x)
  BY RequestEnters DEF KnownInv
<1>2. io'[r] = "none"
  BY <1>1, ProcsDistinct DEF EntersFor, Goto, KnownInv, TypeInv, TypeOK
<1>3. log' = log
  BY RequestMoves DEF KnownInv
<1> QED BY <1>1, <1>2, <1>3 DEF EntersFor, Appends

\* A settlement is not acknowledged by a Replica, and while the ledger appends, one that
\* returned an error cannot have been tried.
SettleSure(r) ==
  pc[r] \in {"settle", "settleRetry"} => io[r] # "confirm" /\ (io[r] = "err" => ~Appends)

\* A step of any goroutine keeps that of a settlement.
LEMMA SettleSureNext ==
  ASSUME ~CleanupExpires, KnownInv, [Next]_vars, NEW r \in Requests, SettleSure(r)
  PROVE  SettleSure(r)'
<1>1. CASE Crash
  BY <1>1, ProcsDistinct DEF Crash, SettleSure
<1>2. CASE BeginRequest(r) \/ RequestStep(r)
  BY <1>2, MoveFresh DEF SettleSure
<1>3. CASE (Appends' => Appends) /\ pc'[r] = pc[r] /\ IoStep(r)
  BY <1>3 DEF SettleSure, IoStep, Cleanup, Appends
<1> QED BY <1>1, <1>2, <1>3, RequestIo

\* Without a Replica, a reservation that returned an error while the ledger appends is not in
\* the log.
ReserveSure(r) ==
  pc[r] = "reserve" =>
    /\ io[r] # "confirm"
    /\ \A a \in Attempts : a = Current(r) /\ io[r] = "err" /\ Appends => ~ReservedIn(a)

\* A step of any goroutine keeps that of a reservation.
LEMMA ReserveSureNext ==
  ASSUME ~Confirming, KnownInv, HistoryInv, [Next]_vars, NEW r \in Requests, ReserveSure(r)
  PROVE  ReserveSure(r)'
<1>1. CASE Crash
  BY <1>1, ProcsDistinct DEF Crash, ReserveSure
<1>2. CASE BeginRequest(r) \/ RequestStep(r)
  BY <1>2, MoveFresh DEF ReserveSure
<1>3. CASE /\ Appends' => Appends
           /\ pc'[r] = pc[r] /\ att'[r] = att[r] /\ bill'[r] = bill[r] /\ IoStep(r)
  <2>1. SUFFICES ASSUME pc[r] = "reserve"
                 PROVE  /\ io'[r] # "confirm"
                        /\ \A a \in Attempts : a = Current(r)' /\ io'[r] = "err" /\ Appends' =>
                             ~ReservedIn(a)'
    BY <1>3 DEF ReserveSure
  <2>2. io'[r] # "confirm"
    BY <1>3, <2>1 DEF ReserveSure, IoStep
  <2>3. ASSUME NEW a \in Attempts, a = Current(r)', io'[r] = "err", Appends' PROVE ~ReservedIn(a)'
    <3>1. io[r] \in {"err", "none"} /\ Appends /\ a = Current(r) /\ a[1] = r
      BY <1>3, <2>1, <2>3 DEF ReserveSure, IoStep, Appends, Current
    <3>2. ~ReservedIn(a)
      <4>1. CASE io[r] = "err"
        BY <2>1, <3>1, <4>1 DEF ReserveSure
      <4>2. CASE io[r] = "none"
        BY <2>1, <3>1, <4>2 DEF HistoryInv, StandsInLog, AttemptStands, Unwritten
      <4> QED BY <3>1, <4>1, <4>2
    <3> QED BY <3>1, <3>2, ReservedByRequest
  <2> QED BY <2>2, <2>3
<1> QED BY <1>1, <1>2, <1>3, RequestIo

-----------------------------------------------------------------------------
(* No lease is leaked *)

\* The loop leaves an attempt behind only once it is settled.
EarlierSettled(r) ==
  \A a \in Attempts : InLoop(r) /\ a[1] = r /\ a[2] < att[r] /\ ReservedIn(a) => SettledIn(a)

\* A request whose end can still be written has no open lease.
EndsClean(r) ==
  \A a \in Attempts :
    pc[r] = "finalize" /\ io[r] \in Unwritten /\ Appends /\ a = Current(r) /\ ReservedIn(a) =>
      SettledIn(a)

\* No lease is leaked, and no request is on the way to leaking one.
NoLeakInv ==
  /\ \A r \in Requests : SettleSure(r) /\ ReserveSure(r) /\ EarlierSettled(r) /\ EndsClean(r)
  /\ \A a \in Attempts : ~Leaked(a)

\* A settlement that returned without an error is in the log.
LEMMA SettledOk ==
  ASSUME KnownInv, NEW r \in Requests, pc[r] \in {"settle", "settleRetry"}, io[r] = "ok"
  PROVE  SettledIn(Current(r))
<1>1. seq[r] \in 1..Len(log) /\ log[seq[r]] = EventOf(r)
  BY DEF KnownInv, CallInv, RecordsLogged, LoggedIo
<1>2. EventOf(r) = AttemptSettled(Current(r), bill[r])
  BY DEF EventOf
<1> QED BY <1>1, <1>2 DEF SettledIn, SettlesAt, AttemptSettled

\* A request goes on to another attempt only after it settled the last.
LEMMA EarlierNext ==
  ASSUME KnownInv, HistoryInv, [Next]_vars, NEW r \in Requests, EarlierSettled(r)
  PROVE  EarlierSettled(r)'
<1>1. SUFFICES ASSUME NEW a \in Attempts, InLoop(r)', a[1] = r, a[2] < att'[r], ReservedIn(a)'
               PROVE  SettledIn(a)'
  BY DEF EarlierSettled
<1>2. /\ TypeInv /\ att[r] \in Nat /\ a[2] \in Nat /\ a = <<a[1], a[2]>> /\ Len(log) \in Nat
      /\ att \in [Requests -> 1..MaxAttempts]
  <2>1. TypeInv /\ att \in [Requests -> 1..MaxAttempts]
    BY DEF KnownInv, TypeInv, TypeOK
  <2>2. Len(log) \in Nat
    BY <2>1, LogGrows
  <2>3. a[2] \in 1..MaxAttempts /\ a = <<a[1], a[2]>>
    BY DEF Attempts
  <2>4. att[r] \in 1..MaxAttempts
    BY <2>1
  <2> QED BY <2>1, <2>2, <2>3, <2>4, MaxAttemptsAssumption
<1>3. ASSUME InLoop(r), att'[r] = att[r] PROVE SettledIn(a)'
  <2>1. a # Current(r)
    BY <1>1, <1>2, <1>3 DEF Current
  <2>2. ReservedIn(a)
    BY <1>1, <2>1, ReservedByRequest
  <2>3. SettledIn(a)
    BY <1>1, <1>3, <2>2 DEF EarlierSettled
  <2> QED BY <1>2, <2>3, SettledStays
<1>4. CASE Crash
  <2>1. pc'[r] \in {"idle", "done"}
    BY <1>4, ProcsDistinct DEF Crash
  <2> QED BY <1>1, <2>1 DEF InLoop
<1>5. CASE pc'[r] = pc[r] /\ att'[r] = att[r] /\ bill'[r] = bill[r] /\ IoStep(r)
  <2>1. InLoop(r)
    BY <1>1, <1>5 DEF InLoop, IoStep, Unwritten
  <2> QED BY <1>3, <1>5, <2>1
<1>6. CASE BeginRequest(r) \/ RequestStep(r)
  <2>0. log' = log /\ io'[r] = "none"
    BY <1>6, MoveFresh
  <2>1. CASE att'[r] = att[r] /\ InLoop(r)
    BY <1>3, <2>1
  <2>2. CASE SettleReturns(r)
    <3>1. InLoop(r) /\ io[r] \in {"ok", "err"}
      BY <2>2 DEF SettleReturns, InLoop
    <3>2. CASE att'[r] = att[r]
      BY <2>1, <3>1, <3>2
    <3>3. CASE att'[r] # att[r]
      <4>1. io[r] = "ok" /\ pc[r] = "settleRetry" /\ att'[r] = att[r] + 1
        BY <1>2, <2>2, <3>3 DEF SettleReturns
      <4>2. ReservedIn(a)
        BY <1>1, <2>0 DEF ReservedIn, ReservedAt, ReservationCreated
      <4>3. CASE a[2] < att[r]
        <5>1. SettledIn(a)
          BY <1>1, <3>1, <4>2, <4>3 DEF EarlierSettled
        <5> QED BY <1>2, <5>1, SettledStays
      <4>4. CASE a[2] = att[r]
        <5>1. a = Current(r)
          BY <1>1, <1>2, <4>4 DEF Current
        <5>2. SettledIn(a)
          BY <4>1, <5>1, SettledOk
        <5> QED BY <1>2, <5>2, SettledStays
      <4> QED BY <1>1, <1>2, <4>1, <4>3, <4>4
    <3> QED BY <3>2, <3>3
  <2>3. CASE BeginReturns(r) /\ ~SettleReturns(r)
    <3>1. pc[r] = "begin"
      BY <2>3 DEF BeginReturns
    <3>2. ~ReservedIn(a)
      BY <1>1, <3>1, AcceptedOnly DEF HistoryInv, StandsInLog
    <3> QED BY <1>1, <2>0, <3>2 DEF ReservedIn, ReservedAt, ReservationCreated
  <2>4. CASE BeginRequest(r)
    <3>1. pc'[r] = "begin"
      BY <2>4, ProcsDistinct DEF BeginRequest, Goto, KnownInv, TypeInv, TypeOK
    <3> QED BY <1>1, <3>1 DEF InLoop
  <2>5. CASE \/ Admit(r) \/ GiveUp(r) \/ ReserveReturns(r) \/ CommitPin(r)
             \/ StartReturns(r) \/ SettleUnserved(r) \/ CallProvider(r) \/ ProviderReturns(r)
    <3>1. att' = att /\ pc[r] \in {"ready", "reserve", "reserved", "start", "calling", "called"}
      BY <2>5 DEF Admit, GiveUp, ReserveReturns, CommitPin, StartReturns, SettleUnserved, CallProvider,
                  ProviderReturns
    <3> QED BY <2>1, <3>1 DEF InLoop
  <2>6. CASE FinalizeReturns(r)
    <3>1. pc'[r] = "done"
      BY <2>6, ProcsDistinct DEF FinalizeReturns, Goto, KnownInv, TypeInv, TypeOK
    <3> QED BY <1>1, <3>1 DEF InLoop
  <2> QED BY <1>6, <2>2, <2>3, <2>4, <2>5, <2>6 DEF RequestStep
<1> QED BY <1>4, <1>5, <1>6, RequestIo

\* A request goes to its end only with its attempt settled.
LEMMA EndsCleanNext ==
  ASSUME KnownInv, HistoryInv, [Next]_vars, NEW r \in Requests,
         SettleSure(r), ReserveSure(r), EndsClean(r)
  PROVE  EndsClean(r)'
<1>1. SUFFICES ASSUME NEW a \in Attempts, pc'[r] = "finalize", io'[r] \in Unwritten, Appends',
                      a = Current(r)', ReservedIn(a)'
               PROVE  SettledIn(a)'
  BY DEF EndsClean
<1>2. TypeInv /\ a[1] = r
  BY <1>1 DEF KnownInv, Current
<1>3. CASE Crash
  BY <1>1, <1>3, ProcsDistinct DEF Crash
<1>4. CASE /\ Appends' => Appends
           /\ pc'[r] = pc[r] /\ att'[r] = att[r] /\ bill'[r] = bill[r] /\ IoStep(r)
  <2>1. a = Current(r) /\ pc[r] = "finalize" /\ io[r] \in Unwritten /\ Appends
    BY <1>1, <1>4 DEF Current, IoStep, Unwritten
  <2>2. ReservedIn(a)
    BY <1>1, <1>2, <2>1, ReservedByRequest
  <2>3. SettledIn(a)
    BY <2>1, <2>2 DEF EndsClean
  <2> QED BY <1>2, <2>3, SettledStays
<1>5. CASE BeginRequest(r) \/ RequestStep(r)
  <2>1. log' = log /\ Appends
    BY <1>1, <1>5, MoveFresh
  <2>2. ReservedIn(a)
    BY <1>1, <2>1 DEF ReservedIn, ReservedAt, ReservationCreated
  <2>3. ASSUME NEW x, Goto(r, x) PROVE x = "finalize"
    BY <1>1, <2>3, ProcsDistinct DEF Goto, KnownInv, TypeInv, TypeOK
  <2>4. GiveUp(r) \/ ReserveReturns(r) \/ SettleReturns(r)
    BY <1>5, <2>3 DEF BeginRequest, RequestStep, BeginReturns, Admit, CommitPin, StartReturns,
                      SettleUnserved, CallProvider, ProviderReturns, FinalizeReturns
  <2>5. att'[r] = att[r]
    BY <2>3, <2>4 DEF GiveUp, ReserveReturns, SettleReturns
  <2>6. a = Current(r)
    BY <1>1, <2>5 DEF Current
  <2>7. CASE GiveUp(r)
    <3>1. ~ReservedIn(a)
      BY <1>2, <2>6, <2>7 DEF GiveUp, HistoryInv, StandsInLog, AttemptStands
    <3> QED BY <2>2, <3>1
  <2>8. CASE ReserveReturns(r)
    <3>1. pc[r] = "reserve" /\ io[r] = "err"
      BY <2>3, <2>8 DEF ReserveReturns
    <3> QED BY <2>1, <2>2, <2>6, <3>1 DEF ReserveSure
  <2>9. CASE SettleReturns(r)
    <3>1. pc[r] \in {"settle", "settleRetry"} /\ io[r] = "ok"
      BY <2>1, <2>9 DEF SettleReturns, SettleSure
    <3>2. SettledIn(a)
      BY <2>6, <3>1, SettledOk
    <3> QED BY <1>2, <3>2, SettledStays
  <2> QED BY <2>4, <2>7, <2>8, <2>9
<1> QED BY <1>3, <1>4, <1>5, RequestIo

\* A request whose end is written has settled every lease it took.
LEMMA LeakFreeNext ==
  ASSUME KnownInv, HistoryInv, NoLeakInv, [Next]_vars, NEW a \in Attempts
  PROVE  ~Leaked(a)'
<1>1. SUFFICES ASSUME Leaked(a)' PROVE FALSE
  OBVIOUS
<1>2. /\ TypeInv /\ a[1] \in Requests /\ Len(log) \in Nat /\ RecoveryAhead /\ RecoveryPending
      /\ DOMAIN log = 1..Len(log) /\ DOMAIN log' = 1..Len(log') /\ Len(log') \in Nat
  <2>1. TypeInv /\ a[1] \in Requests /\ RecoveryAhead /\ RecoveryPending
    BY DEF KnownInv, HistoryInv, Attempts
  <2>2. log \in Seq(Events) /\ log' \in Seq(Events)
    BY <2>1, TypeNext DEF TypeInv, TypeOK
  <2> QED BY <2>1, <2>2, LenProperties
<1>3. PICK i, j \in 1..Len(log') :
        /\ i < j /\ ReservedAt(a, i)' /\ FinalizedAt(a[1], j)'
        /\ ~\E k \in i .. j : SettlesAt(a, k)'
  BY <1>1, <1>2 DEF Leaked, ReservedAt, FinalizedAt
<1>4. CASE j \in 1..Len(log)
  <2>1. i \in 1..Len(log) /\ \A k \in i .. j : k \in 1..Len(log)
    BY <1>2, <1>3, <1>4
  <2>2. ReservedAt(a, i) /\ FinalizedAt(a[1], j)
    BY <1>2, <1>3, <1>4, <2>1, OldRecords
  <2>3. \A k \in i .. j : ~SettlesAt(a, k)
    BY <1>2, <1>3, <2>1, OldRecords
  <2>4. Leaked(a)
    BY <1>2, <1>3, <1>4, <2>1, <2>2, <2>3 DEF Leaked, ReservedAt, FinalizedAt
  <2> QED BY <2>4 DEF NoLeakInv
<1>5. CASE Fresh(j)
  <2>1. About(a[1], j)' /\ About(a[1], i)' /\ log'[j].kind = "RequestFinalized"
    BY <1>3, FormsAboutNext
  <2>2. Adds(a[1], j)
    BY <1>2, <1>5, <2>1, FreshAdds
  <2>3. io[a[1]] = "queued" /\ pc[a[1]] \in Appending /\ log'[j] = EventOf(a[1])
    BY <2>1, <2>2 DEF Adds
  <2>4. pc[a[1]] = "finalize"
    BY <1>2, <1>3, <2>2, <2>3, AddsForms
  <2>5. Appends
    <3>1. Writer /\ log' # log
      <4>1. log' # log
        BY <1>2, <1>5 DEF Fresh
      <4> QED BY <1>2, <4>1, OnlyWriterWrites
    <3>2. status = "healthy"
      BY <3>1 DEF Writer, WriteBatch, WriteFails, DropBatch
    <3>3. ~applyErr
      BY <1>2, <2>4 DEF KnownInv, CloseInv, OnlyServing, ApplyInv, FailsAtStart
    <3> QED BY <3>2, <3>3 DEF Appends
  <2>6. i \in 1..Len(log)
    <3>1. Fresh(i) => i = j
      BY <1>2, <1>5, <2>1, FreshAdds
    <3>2. i # j
      BY <1>3
    <3> QED BY <1>2, <3>1, <3>2, OldOrFresh
  <2>7. ReservedAt(a, i)
    BY <1>2, <1>3, <2>6, OldRecords
  <2>8. ReservedIn(a) /\ InLoop(a[1]) /\ io[a[1]] \in Unwritten
    BY <2>3, <2>4, <2>6, <2>7 DEF ReservedIn, InLoop, Unwritten
  <2>9. SettledIn(a)
    <3>1. a[2] \in Nat /\ att[a[1]] \in Nat /\ a = <<a[1], a[2]>>
      BY <1>2, MaxAttemptsAssumption DEF TypeInv, TypeOK, Attempts
    <3>2. ~(a[2] > att[a[1]])
      BY <1>2, <2>8 DEF HistoryInv, StandsInLog
    <3>3. CASE a[2] < att[a[1]]
      BY <1>2, <2>8, <3>3 DEF NoLeakInv, EarlierSettled
    <3>4. CASE a[2] = att[a[1]]
      <4>1. a = Current(a[1])
        BY <3>1, <3>4 DEF Current
      <4> QED BY <1>2, <2>4, <2>5, <2>8, <4>1 DEF NoLeakInv, EndsClean
    <3> QED BY <3>1, <3>2, <3>3, <3>4
  <2>10. PICK k \in 1..Len(log) : SettlesAt(a, k)
    BY <2>9 DEF SettledIn
  <2>11. i < k
    BY <2>6, <2>7, <2>10 DEF HistoryInv, LogOrdered, LeaseOrdered
  <2>12. k \in i .. j
    BY <1>2, <1>5, <2>6, <2>11 DEF Fresh
  <2> QED BY <1>2, <1>3, <2>10, <2>12, OldRecords
<1> QED BY <1>2, <1>4, <1>5, OldOrFresh

\* With every error telling the truth no step leaks a lease.
LEMMA NoLeakNext ==
  ASSUME ~Confirming, ~CleanupExpires, KnownInv, HistoryInv, NoLeakInv, [Next]_vars
  PROVE  NoLeakInv'
<1>1. \A r \in Requests : SettleSure(r)' /\ ReserveSure(r)' /\ EarlierSettled(r)' /\ EndsClean(r)'
  BY SettleSureNext, ReserveSureNext, EarlierNext, EndsCleanNext DEF NoLeakInv
<1> QED BY <1>1, LeakFreeNext DEF NoLeakInv

\* There is nothing to leak at first.
LEMMA NoLeakInit == Init => NoLeakInv
<1> SUFFICES ASSUME Init PROVE NoLeakInv
  OBVIOUS
<1>1. (\A r \in Requests : pc[r] = "idle") /\ DOMAIN log = {}
  BY ProcsDistinct DEF Init
<1> QED BY <1>1 DEF NoLeakInv, SettleSure, ReserveSure, EarlierSettled, EndsClean, InLoop, Leaked

\* Where reservations wait for no Replica and settlements and ends miss no cleanup deadline,
\* nothing an earlier process left in the log, whatever write failed and wherever it
\* crashed, makes a later start fail.
THEOREM RestartsSucceed ==
  ASSUME ~Confirming, ~CleanupExpires
  PROVE  Spec => []RestartSucceeds
<1>1. Init => LeakInv
  BY DEF Init, LeakInv
<1>2. KnownInv /\ HistoryInv /\ NoLeakInv /\ [Next]_vars => NoLeakInv'
  BY NoLeakNext
<1>3. KnownInv /\ LeakInv /\ NoLeakInv => RestartSucceeds
  BY DEF KnownInv, TypeInv, TypeOK, LeakInv, NoLeakInv, RunLeak, RestartSucceeds
<1> QED BY <1>1, <1>2, <1>3, NoLeakInit, LeakNext, KnownHolds, HistoryHolds, PTL DEF Spec

-----------------------------------------------------------------------------
(* What a provider received is settled *)

\* While the gateway serves on a healthy ledger, an attempt the provider received is settled,
\* or its request still holds it.
CalledHeld ==
  phase = "serving" /\ status = "healthy" =>
    \A a \in called : SettledIn(a) \/ (a = Current(a[1]) /\ pc[a[1]] \in {"called", "settle", "settleRetry"})

\* An attempt the provider received is accounted for, and an error of its settlement is true.
CalledInv == CalledHeld /\ \A r \in Requests : SettleSure(r)

\* How a step comes to serve, and what it adds to the calls.
LEMMA ServingStep ==
  ASSUME KnownInv, [Next]_vars, phase' = "serving", status' = "healthy"
  PROVE  /\ RecoverDone \/ (phase = "serving" /\ status = "healthy")
         /\ called' = called \/ \E r \in Requests : CallProvider(r)
         /\ ~Crash
<1> USE DEF ledgerVars, admissionVars, controlVars, worldVars
<1> DEFINE Serves == phase = "serving" /\ status = "healthy" /\ called' = called /\ ~Crash
<1>0. Crash => phase' = "replaying"
  BY DEF Crash
<1>1. TypeInv
  BY DEF KnownInv
<1>2. ASSUME NEW p \in Procs, AppendReturns(p) PROVE Serves
  BY <1>0, <1>2 DEF AppendReturns, Refuse, ApplyRecord, MarkUnavailable, WaitConfirmed
<1>3. ASSUME NEW p \in Procs, NEW e, Enqueue(p, e) PROVE Serves
  BY <1>0, <1>3 DEF Enqueue
<1>4. ASSUME NEW r \in Requests, BeginRequest(r) \/ RequestStep(r)
      PROVE  Serves \/ CallProvider(r)
  <2>1. CASE CallProvider(r)
    BY <2>1
  <2>2. CASE ~CallProvider(r)
    BY <1>0, <1>4, <2>2 DEF BeginRequest, RequestStep, BeginReturns, Admit, GiveUp, ReserveReturns,
       CommitPin, StartReturns, SettleUnserved, ProviderReturns, SettleReturns, FinalizeReturns
  <2> QED BY <2>1, <2>2
<1>5. ASSUME NEW r \in Requests, CallProvider(r)
      PROVE  phase = "serving" /\ status = "healthy" /\ ~Crash
  BY <1>0, <1>5 DEF CallProvider
<1>6. ASSUME NEW u \in Runs, CloseRun(u) \/ CloseProceeds(u) \/ CloseReturns(u) \/ Expire(u)
      PROVE  Serves
  BY <1>0, <1>6 DEF CloseRun, CloseProceeds, CloseReturns, Expire
<1>7. CASE Writer
  BY <1>0, <1>7 DEF Writer, WriteBatch, WriteFails, DropBatch
<1>8. CASE Replay \/ ReplayDone \/ RecoverReturns
  <2>1. phase = "serving" /\ status = "healthy" /\ called' = called
    BY <1>8 DEF Replay, ReplayDone, RecoverReturns
  <2> QED BY <1>0, <2>1
<1>9. CASE RecoverDone
  BY <1>0, <1>9 DEF RecoverDone
<1>10. CASE Terminated \/ UNCHANGED vars
  BY <1>0, <1>10 DEF Terminated, vars
<1> HIDE DEF Serves
<1>11. CASE \E r \in Requests : BeginRequest(r) \/ RequestStep(r) \/ AppendStep(r)
  <2>1. PICK r \in Requests : BeginRequest(r) \/ RequestStep(r) \/ AppendStep(r)
    BY <1>11
  <2>2. Serves \/ CallProvider(r)
    BY <1>2, <1>3, <1>4, <2>1, ProcsDistinct DEF AppendStep
  <2> QED BY <1>5, <2>2 DEF Serves
<1>12. CASE \E u \in Runs : CloseRun(u) \/ CloseStep(u) \/ Expire(u)
  <2>1. Serves
    BY <1>2, <1>3, <1>6, <1>12, ProcsDistinct DEF CloseStep, AppendStep
  <2> QED BY <2>1 DEF Serves
<1>13. CASE RecoverLease \/ AppendReturns(Recovery)
  <2>1. Serves
    BY <1>2, <1>3, <1>13, ProcsDistinct DEF RecoverLease
  <2> QED BY <2>1 DEF Serves
<1> QED BY <1>0, <1>7, <1>8, <1>9, <1>10, <1>11, <1>12, <1>13 DEF Next, Startup

\* Before the listeners open, everything a provider received is settled.
LEMMA RecoveredSettled ==
  ASSUME KnownInv, HistoryInv, RecoverDone, NEW a \in called
  PROVE  SettledIn(a)
<1>1. TypeInv /\ a \in Attempts /\ DOMAIN log = 1..Len(log) /\ Len(log) \in Nat
  <2>1. TypeInv /\ a \in Attempts /\ log \in Seq(Events)
    BY DEF KnownInv, TypeInv, TypeOK
  <2> QED BY <2>1, LenProperties
<1>2. st.wm = Len(log) /\ PendingLeases(st) = {}
  BY DEF RecoverDone, HistoryInv, RecoveryAhead
<1>3. ReservedIn(a)
  BY <1>1 DEF KnownInv, CallInv, ProviderCallBacked, ReservedIn, ReservedAt
<1>4. ReadReserved(a)
  BY <1>1, <1>2, <1>3 DEF ReservedIn, ReadReserved
<1>5. st.lease[a] = "none"
  BY <1>1, <1>2 DEF PendingLeases
<1>6. ReadSettled(a)
  BY <1>1, <1>4, <1>5 DEF HistoryInv, LeasesRead
<1> QED BY <1>6 DEF ReadSettled, SettledIn

\* A call, its settlement, a crash and the recovery keep that.
LEMMA CalledNext ==
  ASSUME ~CleanupExpires, KnownInv, HistoryInv, CalledInv, [Next]_vars
  PROVE  CalledInv'
<1>1. \A r \in Requests : SettleSure(r)'
  BY SettleSureNext DEF CalledInv
<1>2. SUFFICES ASSUME phase' = "serving", status' = "healthy", NEW a \in called'
               PROVE  \/ SettledIn(a)'
                      \/ a = Current(a[1])' /\ pc'[a[1]] \in {"called", "settle", "settleRetry"}
  BY <1>1 DEF CalledInv, CalledHeld, Current
<1>3. /\ RecoverDone \/ (phase = "serving" /\ status = "healthy")
      /\ called' = called \/ \E r \in Requests : CallProvider(r)
      /\ ~Crash
  BY <1>2, ServingStep
<1>4. /\ TypeInv /\ called \subseteq Attempts
      /\ pc \in [Procs -> RequestPoints \cup ClosePoints \cup {"recover"}]
  BY DEF KnownInv, TypeInv, TypeOK
<1>5. ASSUME NEW r \in Requests, NEW x, Goto(r, x) PROVE pc'[r] = x
  BY <1>4, <1>5, ProcsDistinct DEF Goto
<1>6. CASE a \in called
  <2>1. a \in Attempts /\ a[1] \in Requests
    BY <1>4, <1>6 DEF Attempts
  <2>2. ASSUME SettledIn(a) PROVE SettledIn(a)'
    BY <1>4, <2>1, <2>2, SettledStays
  <2>3. CASE RecoverDone
    BY <1>6, <2>2, <2>3, RecoveredSettled
  <2>4. CASE phase = "serving" /\ status = "healthy" /\ ~SettledIn(a)
    <3>1. a = Current(a[1]) /\ pc[a[1]] \in {"called", "settle", "settleRetry"}
      BY <1>6, <2>4 DEF CalledInv, CalledHeld
    <3>2. Appends
      BY <2>4 DEF KnownInv, ApplyInv, FailsAtStart, Appends
    <3>3. CASE pc'[a[1]] = pc[a[1]] /\ att'[a[1]] = att[a[1]]
      BY <3>1, <3>3 DEF Current
    <3>4. CASE BeginRequest(a[1]) \/ RequestStep(a[1])
      <4>1. ProviderReturns(a[1]) \/ SettleReturns(a[1])
        BY <3>1, <3>4 DEF BeginRequest, RequestStep, BeginReturns, Admit, GiveUp, ReserveReturns,
           CommitPin, StartReturns, SettleUnserved, CallProvider, FinalizeReturns
      <4>2. CASE ProviderReturns(a[1])
        <5>1. att' = att /\ pc'[a[1]] \in {"settle", "settleRetry"}
          BY <1>5, <2>1, <4>2 DEF ProviderReturns
        <5> QED BY <3>1, <5>1 DEF Current
      <4>3. CASE SettleReturns(a[1])
        <5>1. pc[a[1]] \in {"settle", "settleRetry"} /\ io[a[1]] = "ok"
          BY <2>1, <3>2, <4>3 DEF SettleReturns, CalledInv, SettleSure
        <5> QED BY <2>1, <2>2, <3>1, <5>1, SettledOk
      <4> QED BY <4>1, <4>2, <4>3
    <3> QED BY <1>3, <2>1, <3>3, <3>4, RequestIo
  <2> QED BY <1>3, <2>2, <2>3, <2>4
<1>7. CASE a \notin called
  <2>1. PICK r \in Requests : CallProvider(r)
    BY <1>2, <1>3, <1>7
  <2>2. a = Current(r) /\ pc'[r] = "called" /\ att' = att
    BY <1>2, <1>5, <1>7, <2>1 DEF CallProvider
  <2> QED BY <2>2 DEF Current
<1> QED BY <1>6, <1>7

\* Where no settlement misses its cleanup deadline, every attempt a provider received is
\* settled exactly once by the time its request is over, a crash anywhere in between included.
THEOREM CallsSettled ==
  ASSUME ~CleanupExpires
  PROVE  Spec => []CalledIsSettled
<1>1. Init => CalledInv
  BY ProcsDistinct DEF Init, CalledInv, CalledHeld, SettleSure
<1>2. KnownInv /\ HistoryInv /\ CalledInv /\ [Next]_vars => CalledInv'
  BY CalledNext
<1>3. ASSUME KnownInv, HistoryInv, CalledInv PROVE CalledIsSettled
  <2>1. SUFFICES ASSUME phase = "serving", status = "healthy", NEW a \in called, pc[a[1]] = "done"
                 PROVE  Cardinality({i \in DOMAIN log : SettlesAt(a, i)}) = 1
    BY DEF CalledIsSettled
  <2>2. a \in Attempts /\ DOMAIN log = 1..Len(log)
    <3>1. a \in Attempts /\ log \in Seq(Events)
      BY <1>3, <2>1 DEF KnownInv, TypeInv, TypeOK
    <3> QED BY <3>1, LenProperties
  <2>3. SettledIn(a)
    BY <1>3, <2>1 DEF CalledInv, CalledHeld
  <2>4. PICK k \in 1..Len(log) : SettlesAt(a, k)
    BY <2>3 DEF SettledIn
  <2>5. {i \in DOMAIN log : SettlesAt(a, i)} = {k}
    BY <1>3, <2>2, <2>4 DEF HistoryInv, LogOrdered, LeaseOrdered
  <2> QED BY <2>5, FS_Singleton
<1>4. KnownInv /\ HistoryInv /\ CalledInv => CalledIsSettled
  BY <1>3
<1> QED BY <1>1, <1>2, <1>4, KnownHolds, HistoryHolds, PTL DEF Spec

-----------------------------------------------------------------------------
(* The read model is a replay of the log *)

\* h goes through the states of a replay.
IsReplay(h) ==
  h = [i \in 0 .. st.wm |-> IF i = 0 THEN NewState ELSE Apply(h[i - 1], log[i], i)]

\* There is a replay, and every replay ends in the read model's state.
ReplayInv == (\E h : IsReplay(h)) /\ \A h : IsReplay(h) => h[st.wm] = st

\* A replay goes on with the record that is applied next.
LEMMA ReplayNext == KnownInv /\ ReplayInv /\ [Next]_vars => ReplayInv'
<1> SUFFICES ASSUME KnownInv, ReplayInv, [Next]_vars
             PROVE  ReplayInv'
  OBVIOUS
<1>1. TypeInv /\ st.wm \in Nat /\ st.wm <= Len(log) /\ Len(log) \in Nat
  BY LogGrows DEF KnownInv, CloseInv, ClosesRead, TypeInv, TypeOK, States
<1>2. \A i \in 1..st.wm : log'[i] = log[i]
  BY <1>1, OldRecords
<1>3. CASE st' = st
  <2>1. ASSUME NEW h PROVE IsReplay(h)' <=> IsReplay(h)
    <3>1. \A i \in 0..st.wm : i # 0 => i \in 1..st.wm
      BY <1>1
    <3>2. [i \in 0 .. st.wm |-> IF i = 0 THEN NewState ELSE Apply(h[i - 1], log'[i], i)]
          = [i \in 0 .. st.wm |-> IF i = 0 THEN NewState ELSE Apply(h[i - 1], log[i], i)]
      BY <1>2, <3>1
    <3> QED BY <1>3, <3>2 DEF IsReplay
  <2> QED BY <1>3, <2>1 DEF ReplayInv
<1>4. CASE st' = NewState
  <2>1. st'.wm = 0 /\ 0..0 = {0}
    BY <1>4 DEF NewState
  <2>2. ASSUME NEW h PROVE IsReplay(h)' <=> h = [i \in {0} |-> NewState]
    <3>1. [i \in 0 .. 0 |-> IF i = 0 THEN NewState ELSE Apply(h[i - 1], log'[i], i)]
          = [i \in {0} |-> NewState]
      BY <2>1
    <3> QED BY <2>1, <3>1 DEF IsReplay
  <2> QED BY <1>4, <2>1, <2>2 DEF ReplayInv
<1>5. ASSUME NEW n \in 1..Len(log), n = st.wm + 1, log' = log, st' = Apply(st, log[n], n)
      PROVE  ReplayInv'
  <2>1. st'.wm = n /\ n - 1 = st.wm /\ n # 0
    <3>1. st'.wm = n
      BY <1>1, <1>5, ApplyForms
    <3> QED BY <1>1, <1>5, <3>1
  <2>2. ASSUME NEW h, IsReplay(h)' PROVE h[n] = st'
    <3> DEFINE g == [i \in 0 .. st.wm |-> h[i]]
    <3>1. h = [i \in 0 .. n |-> IF i = 0 THEN NewState ELSE Apply(h[i - 1], log[i], i)]
      BY <1>5, <2>1, <2>2 DEF IsReplay
    <3>2. \A i \in 0..st.wm : i \in 0..n /\ (i # 0 => i - 1 \in 0..st.wm)
      BY <1>1, <1>5
    <3>3. \A i \in 0..st.wm : h[i] = IF i = 0 THEN NewState ELSE Apply(h[i - 1], log[i], i)
      BY <3>1, <3>2
    <3>4. \A i \in 0..st.wm : g[i] = IF i = 0 THEN NewState ELSE Apply(g[i - 1], log[i], i)
      BY <3>2, <3>3
    <3>5. IsReplay(g)
      BY <3>4 DEF IsReplay
    <3>6. g[st.wm] = st /\ g[st.wm] = h[st.wm]
      BY <1>1, <3>5 DEF ReplayInv
    <3>7. h[n] = Apply(h[n - 1], log[n], n)
      BY <1>1, <2>1, <3>1
    <3> QED BY <1>5, <2>1, <3>6, <3>7
  <2>3. \E h : IsReplay(h)'
    <3>1. PICK g : IsReplay(g)
      BY DEF ReplayInv
    <3> DEFINE h == [i \in 0 .. n |-> IF i = n THEN st' ELSE g[i]]
    <3>2. g[st.wm] = st
      BY <3>1 DEF ReplayInv
    <3>3. \A i \in 0..st.wm : g[i] = IF i = 0 THEN NewState ELSE Apply(g[i - 1], log[i], i)
      BY <3>1 DEF IsReplay
    <3>4. \A i \in 0..n : i # n => i \in 0..st.wm /\ (i # 0 => i - 1 \in 0..n /\ i - 1 # n)
      BY <1>1, <1>5
    <3>5. h[n - 1] = st /\ h[n] = st'
      BY <1>1, <1>5, <2>1, <3>2, <3>4
    <3>6. \A i \in 0..n : h[i] = IF i = 0 THEN NewState ELSE Apply(h[i - 1], log[i], i)
      BY <1>5, <2>1, <3>3, <3>4, <3>5
    <3>7. h = [i \in 0 .. n |-> IF i = 0 THEN NewState ELSE Apply(h[i - 1], log[i], i)]
      BY <3>6
    <3> HIDE DEF h
    <3> QED BY <1>5, <2>1, <3>7 DEF IsReplay
  <2> QED BY <2>1, <2>2, <2>3 DEF ReplayInv
<1> QED BY <1>3, <1>4, <1>5, StateNext

\* Nothing has been replayed at first.
LEMMA ReplayInit == Init => ReplayInv
<1> SUFFICES ASSUME Init PROVE ReplayInv
  OBVIOUS
<1>1. st = NewState /\ st.wm = 0 /\ 0..0 = {0}
  BY DEF Init, NewState
<1>2. ASSUME NEW h PROVE IsReplay(h) <=> h = [i \in {0} |-> NewState]
  <2>1. [i \in 0 .. 0 |-> IF i = 0 THEN NewState ELSE Apply(h[i - 1], log[i], i)]
        = [i \in {0} |-> NewState]
    BY <1>1
  <2> QED BY <1>1, <2>1 DEF IsReplay
<1> QED BY <1>1, <1>2 DEF ReplayInv

\* The read model is the replay of the log up to its watermark, whichever goroutine applied
\* which record and however often the process crashed and replayed.
THEOREM ReplayedStateHolds == Spec => []StateIsReplay
<1>1. ReplayInv => StateIsReplay
  <2> SUFFICES ASSUME ReplayInv PROVE st = Replayed[st.wm]
    BY DEF StateIsReplay
  <2>1. \E h : h = [i \in 0 .. st.wm |-> IF i = 0 THEN NewState ELSE Apply(h[i - 1], log[i], i)]
    BY DEF ReplayInv, IsReplay
  <2>2. Replayed = [i \in 0 .. st.wm |-> IF i = 0 THEN NewState ELSE Apply(Replayed[i - 1], log[i], i)]
    BY <2>1 DEF Replayed
  <2> QED BY <2>2 DEF ReplayInv, IsReplay
<1> QED BY <1>1, ReplayInit, ReplayNext, KnownHolds, PTL DEF Spec
=============================================================================
