------------------------ MODULE AccountingOrderProofs ------------------------
(***************************************************************************)
(* The order in which decisions and records reach the log: nothing of a    *)
(* Run follows its close, and whatever a live process makes durable the    *)
(* read model can apply.                                                   *)
(***************************************************************************)
EXTENDS AccountingProofs
-----------------------------------------------------------------------------
(* Closing a Run *)

\* The log holds the Run's close.
CloseLogged(u) == \E i \in 1..Len(log) : log[i].kind = "RunClosed" /\ log[i].run = u

\* The append of a record can still succeed.
Appends == status = "healthy" /\ ~applyErr

\* The queue holds at most one record of a CloseRun call and of the startup goroutine:
\* the close and the settlement they wait for.
OthersQueued ==
  /\ \A i \in 1..Len(queue) :
       /\ queue[i].proc \in Runs => /\ io[queue[i].proc] = "queued"
                                    /\ pc[queue[i].proc] = "close"
                                    /\ queue[i].event = RunClosed(queue[i].proc)
       /\ queue[i].proc = Recovery => /\ io[Recovery] = "queued" /\ pc[Recovery] = "recover"
                                      /\ queue[i].event.kind = "AttemptSettled"
  /\ \A i, j \in 1..Len(queue) :
       queue[i].proc \in Runs \cup {Recovery} /\ queue[i].proc = queue[j].proc => i = j

\* When their append got through they find it at their sequence number.
OthersRecorded ==
  /\ \A u \in Runs : io[u] = "durable" => pc[u] = "close" /\ log[seq[u]] = RunClosed(u)
  /\ io[Recovery] = "durable" =>
       pc[Recovery] = "recover" /\ log[seq[Recovery]].kind = "AttemptSettled"

\* The read model knows of every close up to its watermark.
ClosesRead ==
  /\ st.wm <= Len(log)
  /\ \A i \in 1..Len(log) : i <= st.wm /\ log[i].kind = "RunClosed" => log[i].run \in st.closed

\* Requests and CloseRun calls run only while the process serves, and the recovery of
\* leases only before.
OnlyServing ==
  /\ phase # "serving" => /\ \A r \in Requests : pc[r] \in {"idle", "done"}
                          /\ \A u \in Runs : pc[u] = "idle"
  /\ pc[Recovery] = "recover" => phase = "recovering"

\* While records can be written, a close in the log is visible to admissions, or its call
\* is about to apply it and still holds the Run in closingRuns.
ClosesSeen ==
  phase \in {"serving", "recovering"} /\ Appends =>
    \A u \in Runs : CloseLogged(u) => u \in st.closed \/ io[u] = "durable"

\* No attributed request is being accepted while a CloseRun call runs, and none of the
\* Run's admissions is open once it writes.
CloseExcludes ==
  \A u \in Runs, r \in Requests :
    /\ pc[u] # "idle" /\ RunOf[r] # NoRun => pc[r] # "begin"
    /\ pc[u] = "close" /\ RunOf[r] = u => pc[r] # "reserve"

\* A request that is accepted or admitted after its Run's close reached the log can no
\* longer write: the close was reported as failed, and with it the ledger.
LateRefused ==
  \A r \in Requests :
    pc[r] \in {"begin", "reserve"} /\ RunOf[r] # NoRun /\ CloseLogged(RunOf[r]) =>
      io[r] # "queued" /\ ~Appends

\* NothingAfterClose speaks of the log alone; what may still be written to it depends on
\* the queue, and what may be queued on what admissions see of the close.
CloseInv ==
  /\ OthersQueued /\ OthersRecorded /\ ClosesRead /\ OnlyServing
  /\ ClosesSeen /\ CloseExcludes /\ LateRefused /\ NothingAfterClose

\* Applying a record moves the watermark to it, and closes a Run if it is a close.
LEMMA ApplyClosed ==
  ASSUME NEW s \in States, NEW e \in Events, NEW n \in Nat
  PROVE  /\ Apply(s, e, n).wm = n
         /\ Apply(s, e, n).closed = IF e.kind = "RunClosed" THEN s.closed \cup {e.run} ELSE s.closed
<1>1. /\ e.kind \in {"RequestAccepted", "RequestFinalized", "ReservationCreated", "AttemptStarted",
                     "AttemptSettled", "RunClosed"}
  BY DEF Events, RequestEvents, LeaseEvents, SettledEvents, RunEvents
<1>2. CASE e.kind = "RequestAccepted"
  BY <1>2 DEF Apply, Effect, States
<1>3. CASE e.kind = "RequestFinalized"
  BY <1>3 DEF Apply, Effect, States
<1>4. CASE e.kind = "ReservationCreated"
  BY <1>4 DEF Apply, Effect, ApplyReservationCreated, States
<1>5. CASE e.kind = "AttemptStarted"
  BY <1>5 DEF Apply, Effect, States
<1>6. CASE e.kind = "AttemptSettled"
  BY <1>6 DEF Apply, Effect, ApplyAttemptSettled, States
<1>7. CASE e.kind = "RunClosed"
  BY <1>7 DEF Apply, Effect, States
<1> QED BY <1>1, <1>2, <1>3, <1>4, <1>5, <1>6, <1>7

\* The next record of the log is applied: the read model has seen one close more.
LEMMA ReadNext ==
  ASSUME TypeInv, ClosesRead, NEW n \in 1..Len(log), n <= st.wm + 1, CanApply(st, log[n], n),
         st' = Apply(st, log[n], n), log' = log
  PROVE  /\ ClosesRead' /\ st.closed \subseteq st'.closed
         /\ log[n].kind = "RunClosed" => log[n].run \in st'.closed
<1>1. st \in States /\ log[n] \in Events /\ n \in Nat /\ st.wm \in Nat /\ Len(log) \in Nat
  BY ElementOfSeq, LenProperties DEF TypeInv, TypeOK, States
<1>2. /\ st'.wm = n
      /\ st'.closed = IF log[n].kind = "RunClosed" THEN st.closed \cup {log[n].run} ELSE st.closed
  BY <1>1, ApplyClosed
<1>3. n = st.wm + 1
  BY <1>1 DEF CanApply
<1>4. ASSUME NEW i \in 1..Len(log), i <= n, log[i].kind = "RunClosed" PROVE log[i].run \in st'.closed
  BY <1>1, <1>2, <1>3, <1>4 DEF ClosesRead
<1> QED BY <1>1, <1>2, <1>4 DEF ClosesRead

\* A step that touches nothing the invariant speaks of.
LEMMA CloseSame ==
  ASSUME CloseInv, UNCHANGED <<log, queue, status, st, applyErr, pc, io, seq, phase>>
  PROVE  CloseInv'
BY DEF CloseInv, OthersQueued, OthersRecorded, ClosesRead, OnlyServing, ClosesSeen, CloseExcludes,
       LateRefused, NothingAfterClose, CloseLogged, Appends

\* What the invariant says of the log alone stays when the log does.
LEMMA LogSame ==
  ASSUME log' = log
  PROVE  /\ \A u \in Runs : CloseLogged(u)' <=> CloseLogged(u)
         /\ NothingAfterClose => NothingAfterClose'
BY DEF CloseLogged, NothingAfterClose, RunClosed

\* A request moves on.  It enters the two points that lead to a record of its Run only
\* when it sees the Run open and no CloseRun call in its way.
EntersFor(r, x) ==
  /\ Goto(r, x)
  /\ UNCHANGED <<log, queue, status, st, applyErr, phase>>
  /\ phase = "serving" \/ pc[r] \notin {"idle", "done"}
  /\ x = "begin" /\ RunOf[r] # NoRun => closingRuns = {} /\ RunOf[r] \notin st.closed
  /\ x = "reserve" /\ RunOf[r] # NoRun =>
       RunOf[r] \notin closingRuns /\ RunOf[r] \notin st.closed

\* Every step of a request enters a control point the way EntersFor says.
LEMMA RequestEnters ==
  ASSUME TypeInv, NEW r \in Requests, BeginRequest(r) \/ RequestStep(r)
  PROVE  \E x : EntersFor(r, x)
<1> USE DEF ledgerVars, admissionVars, controlVars, worldVars, EntersFor
<1>1. Current(r)[1] = r
  BY DEF Current
<1>2. CASE BeginRequest(r) BY <1>2 DEF BeginRequest, RunActive
<1>3. CASE BeginReturns(r) BY <1>3 DEF BeginReturns
<1>4. CASE Admit(r) BY <1>1, <1>4 DEF Admit, FitsRun, RunActive
<1>5. CASE GiveUp(r) BY <1>5 DEF GiveUp
<1>6. CASE ReserveReturns(r) BY <1>6 DEF ReserveReturns
<1>7. CASE CommitPin(r) BY <1>7 DEF CommitPin
<1>8. CASE StartReturns(r) BY <1>8 DEF StartReturns
<1>9. CASE SettleUnserved(r) BY <1>9 DEF SettleUnserved
<1>10. CASE CallProvider(r) BY <1>10 DEF CallProvider
<1>11. CASE ProviderReturns(r) BY <1>11 DEF ProviderReturns
<1>12. CASE SettleReturns(r)
  <2>1. Goto(r, "ready") \/ Goto(r, "finalize")
    BY <1>12 DEF SettleReturns
  <2> QED BY <1>12, <2>1 DEF SettleReturns
<1>13. CASE FinalizeReturns(r) BY <1>13 DEF FinalizeReturns
<1> QED BY <1>2, <1>3, <1>4, <1>5, <1>6, <1>7, <1>8, <1>9, <1>10, <1>11, <1>12, <1>13
        DEF RequestStep

\* A request moves on.
LEMMA CloseRequest ==
  ASSUME TypeInv, CloseInv, NEW r \in Requests, BeginRequest(r) \/ RequestStep(r)
  PROVE  CloseInv'
<1>1. PICK x : EntersFor(r, x)
  BY RequestEnters
<1>2. UNCHANGED <<log, queue, status, st, applyErr, phase>>
  BY <1>1 DEF EntersFor
<1>3. /\ \A p \in Procs \ {r} : pc'[p] = pc[p] /\ io'[p] = io[p] /\ seq'[p] = seq[p]
      /\ pc'[r] = x /\ io'[r] = "none"
  BY <1>1, ProcsDistinct DEF EntersFor, Goto, TypeInv, TypeOK
<1>4. \A u \in Runs : pc'[u] = pc[u] /\ io'[u] = io[u] /\ seq'[u] = seq[u]
  BY <1>3, ProcsDistinct
<1>5. \A q \in Requests \ {r} : pc'[q] = pc[q] /\ io'[q] = io[q]
  BY <1>3, ProcsDistinct
<1>6. pc'[Recovery] = pc[Recovery] /\ io'[Recovery] = io[Recovery] /\ seq'[Recovery] = seq[Recovery]
  BY <1>3, ProcsDistinct
<1>7. OthersQueued' /\ OthersRecorded' /\ ClosesRead' /\ ClosesSeen' /\ NothingAfterClose'
  <2>1. OthersQueued' /\ OthersRecorded'
    BY <1>2, <1>4, <1>6 DEF CloseInv, OthersQueued, OthersRecorded
  <2>2. ClosesRead' /\ NothingAfterClose'
    BY <1>2, LogSame DEF CloseInv, ClosesRead
  <2>3. ClosesSeen'
    BY <1>2, <1>4, LogSame DEF CloseInv, ClosesSeen, Appends
  <2> QED BY <2>1, <2>2, <2>3
<1>8. phase = "serving"
  BY <1>1 DEF EntersFor, CloseInv, OnlyServing
<1>9. OnlyServing'
  BY <1>2, <1>8, <1>6 DEF CloseInv, OnlyServing
<1>10. CloseExcludes'
  <2>1. ASSUME NEW u \in Runs, x = "begin", RunOf[r] # NoRun PROVE pc'[u] = "idle"
    <3>1. u \notin closingRuns
      BY <1>1, <2>1 DEF EntersFor
    <3> QED BY <1>4, <3>1 DEF closingRuns, TypeInv, TypeOK, ClosePoints
  <2>2. ASSUME NEW u \in Runs, x = "reserve", RunOf[r] = u PROVE pc'[u] # "close"
    BY <1>1, <1>4, <2>2, NoRunAssumption DEF EntersFor, closingRuns
  <2>3. ASSUME NEW u \in Runs, NEW q \in Requests \ {r}
        PROVE  /\ pc'[u] # "idle" /\ RunOf[q] # NoRun => pc'[q] # "begin"
               /\ pc'[u] = "close" /\ RunOf[q] = u => pc'[q] # "reserve"
    BY <1>4, <1>5 DEF CloseInv, CloseExcludes
  <2> QED BY <1>3, <2>1, <2>2, <2>3 DEF CloseExcludes
<1>11. LateRefused'
  <2>1. \A q \in Requests : RunOf[q] # NoRun => RunOf[q] \in Runs
    BY RunOfAssumption
  <2>2. ASSUME x \in {"begin", "reserve"}, RunOf[r] # NoRun, CloseLogged(RunOf[r])
        PROVE  ~Appends
    <3>1. RunOf[r] \in Runs /\ RunOf[r] \notin st.closed /\ RunOf[r] \notin closingRuns
      BY <1>1, <2>1, <2>2 DEF EntersFor
    <3>2. io[RunOf[r]] # "durable"
      BY <3>1 DEF CloseInv, OthersRecorded, closingRuns
    <3> QED BY <1>8, <2>2, <3>1, <3>2 DEF CloseInv, ClosesSeen
  <2>3. ASSUME NEW q \in Requests, pc'[q] \in {"begin", "reserve"}, RunOf[q] # NoRun,
               CloseLogged(RunOf[q])'
        PROVE  io'[q] # "queued" /\ ~Appends'
    <3>1. CloseLogged(RunOf[q]) /\ (Appends' <=> Appends)
      BY <1>2, <2>1, <2>3, LogSame DEF Appends
    <3>2. CASE q = r
      BY <1>3, <2>2, <2>3, <3>1, <3>2
    <3>3. CASE q # r
      BY <1>5, <2>3, <3>1, <3>3 DEF CloseInv, LateRefused
    <3> QED BY <3>2, <3>3
  <2> QED BY <2>3 DEF LateRefused
<1> QED BY <1>7, <1>9, <1>10, <1>11 DEF CloseInv

\* An append moves on.  It applies its own record, or fails for good.
LEMMA CloseAppend ==
  ASSUME TypeInv, CloseInv, NEW p \in Procs, AppendReturns(p)
  PROVE  CloseInv'
<1> USE DEF ledgerVars, admissionVars, controlVars, worldVars
<1>1. PICK y \in IoPoints \ {"queued", "durable"} :
        io' = [io EXCEPT ![p] = y] /\ io[p] # "queued"
  BY DEF AppendReturns, Refuse, ApplyRecord, MarkUnavailable, WaitConfirmed, IoPoints
<1>2. UNCHANGED <<log, queue, pc, seq, phase>> /\ (Appends' => Appends)
  BY DEF AppendReturns, Refuse, ApplyRecord, MarkUnavailable, WaitConfirmed, Appends
<1>3. \A q \in Procs : io'[q] = IF q = p THEN y ELSE io[q]
  BY <1>1 DEF TypeInv, TypeOK
<1>4. /\ ClosesRead' /\ st.closed \subseteq st'.closed
      /\ io[p] = "durable" /\ Appends' /\ p \in Runs => p \in st'.closed
  <2>1. CASE ApplyRecord(p) /\ CanApply(st, log[seq[p]], seq[p])
    <3>1. /\ seq[p] \in 1..Len(log) /\ seq[p] <= st.wm + 1 /\ st' = Apply(st, log[seq[p]], seq[p])
          /\ io[p] = "durable"
      BY <2>1 DEF ApplyRecord, Turn, TypeInv, TypeOK, DurableInLog, States
    <3>2. /\ ClosesRead' /\ st.closed \subseteq st'.closed
          /\ log[seq[p]].kind = "RunClosed" => log[seq[p]].run \in st'.closed
      BY <1>2, <2>1, <3>1, ReadNext DEF CloseInv
    <3>3. p \in Runs => log[seq[p]].kind = "RunClosed" /\ log[seq[p]].run = p
      <4>1. p \in Runs => log[seq[p]] = RunClosed(p)
        BY <3>1 DEF CloseInv, OthersRecorded
      <4> QED BY <4>1 DEF RunClosed
    <3> QED BY <3>2, <3>3
  <2>2. CASE ~(ApplyRecord(p) /\ CanApply(st, log[seq[p]], seq[p]))
    <3>1. st' = st /\ (io[p] = "durable" => ~Appends')
      BY <2>2 DEF AppendReturns, Refuse, ApplyRecord, MarkUnavailable, WaitConfirmed, Appends
    <3> QED BY <1>2, <3>1 DEF CloseInv, ClosesRead
  <2> QED BY <2>1, <2>2
<1>5. OthersQueued'
  BY <1>1, <1>2, <1>3, ProcsDistinct DEF CloseInv, OthersQueued
<1>6. OthersRecorded'
  BY <1>2, <1>3, ProcsDistinct DEF CloseInv, OthersRecorded
<1>7. OnlyServing' /\ CloseExcludes' /\ NothingAfterClose'
  BY <1>2, LogSame DEF CloseInv, OnlyServing, CloseExcludes
<1>8. ClosesSeen'
  <2> SUFFICES ASSUME phase' \in {"serving", "recovering"}, Appends', NEW u \in Runs, CloseLogged(u)'
               PROVE  u \in st'.closed \/ io'[u] = "durable"
    BY DEF ClosesSeen
  <2>1. u \in st.closed \/ io[u] = "durable"
    BY <1>2, LogSame DEF CloseInv, ClosesSeen
  <2> QED BY <1>3, <1>4, <2>1, ProcsDistinct
<1>9. LateRefused'
  <2>1. \A q \in Requests : RunOf[q] # NoRun => RunOf[q] \in Runs
    BY RunOfAssumption
  <2>2. \A q \in Requests : io'[q] = "queued" => io[q] = "queued"
    BY <1>3, ProcsDistinct
  <2> QED BY <1>2, <2>1, <2>2, LogSame DEF CloseInv, LateRefused
<1> QED BY <1>4, <1>5, <1>6, <1>7, <1>8, <1>9 DEF CloseInv

\* A record is handed to the writer, while records can be written.
LEMMA CloseEnqueue ==
  ASSUME TypeInv, CloseInv, NEW p \in Procs, NEW e, Enqueue(p, e),
         p \in Runs => e = EventOf(p), p = Recovery => e.kind = "AttemptSettled"
  PROVE  CloseInv'
<1> USE DEF ledgerVars, admissionVars, controlVars, worldVars
<1>1. UNCHANGED <<log, status, st, applyErr, pc, seq, phase>> /\ Appends /\ io[p] = "none"
  BY DEF Enqueue, Appends
<1>2. \A q \in Procs : io'[q] = IF q = p THEN "queued" ELSE io[q]
  BY DEF Enqueue, TypeInv, TypeOK
<1>3. p \in Runs => pc[p] = "close" /\ e = RunClosed(p)
  <2>1. p \in Runs => pc[p] = "close"
    BY DEF Enqueue, TypeInv, TypeOK, ClosePoints, Appending
  <2> QED BY <2>1 DEF EventOf
<1>4. /\ Len(queue) \in Nat /\ Len(queue') = Len(queue) + 1
      /\ \A i \in 1..Len(queue) : queue'[i] = queue[i]
      /\ queue'[Len(queue) + 1] = [proc |-> p, event |-> e]
  BY DEF Enqueue, TypeInv, TypeOK
<1>5. OthersQueued'
  <2>1. p \in Runs \cup {Recovery} => \A i \in 1..Len(queue) : queue[i].proc # p
    BY <1>1 DEF CloseInv, OthersQueued
  <2>2. \A k \in 1..Len(queue') :
          \/ k \in 1..Len(queue) /\ queue'[k] = queue[k]
          \/ k = Len(queue) + 1 /\ queue'[k].proc = p /\ queue'[k].event = e
    BY <1>4
  <2>3. ASSUME NEW i \in 1..Len(queue')
        PROVE  /\ queue'[i].proc \in Runs => /\ io'[queue'[i].proc] = "queued"
                                             /\ pc'[queue'[i].proc] = "close"
                                             /\ queue'[i].event = RunClosed(queue'[i].proc)
               /\ queue'[i].proc = Recovery =>
                    /\ io'[Recovery] = "queued" /\ pc'[Recovery] = "recover"
                    /\ queue'[i].event.kind = "AttemptSettled"
    <3>1. CASE i \in 1..Len(queue) /\ queue'[i] = queue[i]
      BY <1>1, <1>2, <3>1, ProcsDistinct DEF CloseInv, OthersQueued
    <3>2. CASE queue'[i].proc = p /\ queue'[i].event = e
      <4>1. p = Recovery => pc[p] = "recover"
        BY DEF Enqueue, TypeInv, TypeOK, Appending
      <4> QED BY <1>1, <1>2, <1>3, <3>2, <4>1
    <3> QED BY <2>2, <3>1, <3>2
  <2>4. ASSUME NEW i \in 1..Len(queue'), NEW j \in 1..Len(queue'),
               queue'[i].proc \in Runs \cup {Recovery}, queue'[i].proc = queue'[j].proc
        PROVE  i = j
    BY <2>1, <2>2, <2>4 DEF CloseInv, OthersQueued
  <2>5. /\ \A i \in 1..Len(queue') :
             /\ queue'[i].proc \in Runs => /\ io'[queue'[i].proc] = "queued"
                                           /\ pc'[queue'[i].proc] = "close"
                                           /\ queue'[i].event = RunClosed(queue'[i].proc)
             /\ queue'[i].proc = Recovery =>
                  /\ io'[Recovery] = "queued" /\ pc'[Recovery] = "recover"
                  /\ queue'[i].event.kind = "AttemptSettled"
        /\ \A i, j \in 1..Len(queue') :
             queue'[i].proc \in Runs \cup {Recovery} /\ queue'[i].proc = queue'[j].proc => i = j
    BY <2>3, <2>4
  <2> QED BY <2>5 DEF OthersQueued, RunClosed
<1>6. OthersRecorded' /\ ClosesRead' /\ OnlyServing' /\ CloseExcludes' /\ NothingAfterClose'
  <2>1. OthersRecorded'
    BY <1>1, <1>2, ProcsDistinct DEF CloseInv, OthersRecorded
  <2> QED BY <1>1, <2>1, LogSame DEF CloseInv, ClosesRead, OnlyServing, CloseExcludes
<1>7. ClosesSeen'
  <2>1. \A u \in Runs : io[u] = "durable" => io'[u] = "durable"
    BY <1>1, <1>2, ProcsDistinct
  <2> QED BY <1>1, <2>1, LogSame DEF CloseInv, ClosesSeen, Appends
<1>8. LateRefused'
  <2>1. \A q \in Requests : RunOf[q] # NoRun => RunOf[q] \in Runs
    BY RunOfAssumption
  <2> QED BY <1>1, <2>1, LogSame DEF CloseInv, LateRefused
<1> QED BY <1>5, <1>6, <1>7, <1>8 DEF CloseInv

\* Which request an admission's record is about, and that no other record of a request
\* looks like one or like a close.
LEMMA EventOfKind ==
  ASSUME TypeInv, NEW r \in Requests, pc[r] \in Appending
  PROVE  /\ EventOf(r).kind # "RunClosed"
         /\ EventOf(r).kind \in {"RequestAccepted", "ReservationCreated"} =>
              pc[r] \in {"begin", "reserve"} /\ RequestOf(EventOf(r)) = r
<1>1. pc[r] \in {"begin", "reserve", "start", "settle", "settleRetry", "finalize"}
  BY DEF TypeInv, TypeOK, RequestPoints, Appending
<1>2. CASE pc[r] = "begin"
  BY <1>2 DEF EventOf, RequestAccepted, RequestOf
<1>3. CASE pc[r] = "reserve"
  BY <1>3 DEF EventOf, ReservationCreated, RequestOf, Current
<1>4. CASE pc[r] = "start"
  BY <1>4 DEF EventOf, AttemptStarted
<1>5. CASE pc[r] \in {"settle", "settleRetry"}
  BY <1>5 DEF EventOf, AttemptSettled
<1>6. CASE pc[r] = "finalize"
  BY <1>6 DEF EventOf, RequestFinalized
<1> QED BY <1>1, <1>2, <1>3, <1>4, <1>5, <1>6

\* What the kind of a queued record says of the goroutine that waits for it.
LEMMA QueuedKind ==
  ASSUME TypeInv, QueueOwned, OthersQueued, NEW m \in 1..Len(queue)
  PROVE  /\ queue[m].event.kind = "RunClosed" =>
              /\ queue[m].proc \in Runs /\ queue[m].event.run = queue[m].proc
              /\ pc[queue[m].proc] = "close"
         /\ queue[m].event.kind \in {"RequestAccepted", "ReservationCreated"} =>
              /\ queue[m].proc \in Requests /\ RequestOf(queue[m].event) = queue[m].proc
              /\ pc[queue[m].proc] \in {"begin", "reserve"} /\ io[queue[m].proc] = "queued"
<1>1. queue[m] \in AppendRequests
  BY ElementOfSeq DEF TypeInv, TypeOK
<1>2. queue[m].proc \in Requests \/ queue[m].proc \in Runs \/ queue[m].proc = Recovery
  BY <1>1 DEF AppendRequests, Procs
<1>3. CASE queue[m].proc \in Requests
  <2>1. /\ io[queue[m].proc] = "queued" /\ pc[queue[m].proc] \in Appending
        /\ queue[m].event = EventOf(queue[m].proc)
    BY <1>3 DEF QueueOwned
  <2> QED BY <1>3, <2>1, EventOfKind
<1>4. CASE queue[m].proc \in Runs
  <2>1. pc[queue[m].proc] = "close" /\ queue[m].event = RunClosed(queue[m].proc)
    BY <1>4 DEF OthersQueued
  <2>2. queue[m].event.kind = "RunClosed" /\ queue[m].event.run = queue[m].proc
    BY <2>1 DEF RunClosed
  <2> QED BY <1>4, <2>1, <2>2
<1>5. CASE queue[m].proc = Recovery
  BY <1>5 DEF OthersQueued
<1> QED BY <1>2, <1>3, <1>4, <1>5

\* What the writer adds to the log came from the front of the queue.
LEMMA LogWritten ==
  ASSUME TypeInv, NEW n \in BatchSizes, WriteBatch(n) \/ WriteFails(n) \/ DropBatch(n),
         NEW i \in 1..Len(log')
  PROVE  \/ i \in 1..Len(log) /\ log'[i] = log[i]
         \/ \E m \in 1..n : i = Len(log) + m /\ log'[i] = queue[m].event
<1> USE DEF ledgerVars, admissionVars, controlVars, worldVars
<1>1. n \in Nat /\ n \in 0..n /\ log \in Seq(Events) /\ Len(log) \in Nat
  BY BoundAssumption, LenProperties DEF BatchSizes, TypeInv, TypeOK
<1>2. (\E k \in 0..n : log' = log \o Batch(k)) \/ log' = log
  BY <1>1 DEF WriteBatch, WriteFails, DropBatch
<1>3. ASSUME NEW k \in 0..n, log' = log \o Batch(k)
      PROVE  \/ i \in 1..Len(log) /\ log'[i] = log[i]
             \/ \E m \in 1..n : i = Len(log) + m /\ log'[i] = queue[m].event
  <2>1. Batch(k) \in Seq(Events) /\ Len(Batch(k)) = k
    BY BatchType DEF TypeInv
  <2>2. /\ Len(log') = Len(log) + k
        /\ log'[i] = IF i <= Len(log) THEN log[i] ELSE Batch(k)[i - Len(log)]
    BY <1>1, <1>3, <2>1, ConcatProperties
  <2>3. CASE i <= Len(log)
    BY <1>1, <2>2, <2>3
  <2>4. CASE ~(i <= Len(log))
    <3>1. i - Len(log) \in 1..k /\ i - Len(log) \in 1..n /\ i = Len(log) + (i - Len(log))
      BY <1>1, <2>2, <2>4
    <3>2. log'[i] = queue[i - Len(log)].event
      BY <2>2, <2>4, <3>1 DEF Batch
    <3> QED BY <3>1, <3>2
  <2> QED BY <2>3, <2>4
<1> QED BY <1>2, <1>3

\* The writer answers a batch.  A close in it finds no admission of its Run in the queue.
LEMMA CloseWriter ==
  ASSUME TypeInv, TypeInv', QueueOwned, CloseInv, [Next]_vars, Writer
  PROVE  CloseInv'
<1> USE DEF ledgerVars, admissionVars, controlVars, worldVars
<1>1. PICK n \in BatchSizes : WriteBatch(n) \/ WriteFails(n) \/ DropBatch(n)
  BY DEF Writer
<1>2. UNCHANGED <<pc, st, applyErr, phase>> /\ queue' = SubSeq(queue, n + 1, Len(queue))
  BY <1>1 DEF WriteBatch, WriteFails, DropBatch
<1>3. /\ n \in 1..Len(queue) /\ Len(queue) \in Nat /\ Len(queue') = Len(queue) - n
      /\ \A i \in 1..Len(queue') : queue'[i] = queue[n + i]
  BY <1>2, QueueRest
<1>4. /\ Len(log) \in Nat /\ Len(log') \in Nat /\ Len(log) <= Len(log')
      /\ \A i \in 1..Len(log) : log'[i] = log[i]
  BY LogGrows
<1>5. \A p \in Procs : ~InBatch(n, p) => io'[p] = io[p] /\ seq'[p] = seq[p]
  BY <1>1 DEF WriteBatch, WriteFails, DropBatch
<1>6. /\ \A p \in Procs : InBatch(n, p) => io'[p] \in {"durable", "err"}
      /\ Appends' => Appends /\ WriteBatch(n)
  BY <1>1 DEF WriteBatch, WriteFails, DropBatch, Appends
<1>7. \A p \in Procs : InBatch(n, p) /\ io'[p] = "durable" => WriteBatch(n)
  BY <1>1 DEF WriteFails, DropBatch
<1>8. \A p \in Procs : InBatch(n, p) /\ WriteBatch(n) => io'[p] = "durable"
  BY DEF WriteBatch
<1>9. ASSUME NEW i \in 1..Len(log'), log'[i].kind = "RunClosed", i \notin 1..Len(log)
      PROVE  /\ log'[i].run \in Runs /\ InBatch(n, log'[i].run) /\ pc[log'[i].run] = "close"
  <2>1. PICK m \in 1..n : log'[i] = queue[m].event
    BY <1>1, <1>9, LogWritten
  <2>2. m \in 1..Len(queue)
    BY <1>3
  <2>3. /\ queue[m].proc \in Runs /\ queue[m].event.run = queue[m].proc
        /\ pc[queue[m].proc] = "close"
    BY <1>9, <2>1, <2>2, QueuedKind DEF CloseInv
  <2> QED BY <2>1, <2>3 DEF InBatch
<1>10. ASSUME NEW u \in Runs, CloseLogged(u)'
       PROVE  CloseLogged(u) \/ (InBatch(n, u) /\ pc[u] = "close")
  <2>1. PICK i \in 1..Len(log') : log'[i].kind = "RunClosed" /\ log'[i].run = u
    BY <1>10 DEF CloseLogged
  <2>2. CASE i \in 1..Len(log)
    BY <1>4, <2>1, <2>2 DEF CloseLogged
  <2>3. CASE i \notin 1..Len(log)
    BY <1>9, <2>1, <2>3
  <2> QED BY <2>2, <2>3
<1>11. OthersQueued'
  <2>1. ASSUME NEW i \in 1..Len(queue'), NEW p \in Runs \cup {Recovery}, queue'[i].proc = p
        PROVE  n + i \in 1..Len(queue) /\ queue'[i] = queue[n + i] /\ io'[p] = io[p]
    <3>1. n + i \in 1..Len(queue) /\ queue'[i] = queue[n + i]
      BY <1>3
    <3>2. ASSUME NEW k \in 1..n, queue[k].proc = p PROVE FALSE
      <4>1. k \in 1..Len(queue) /\ k # n + i
        BY <1>3
      <4>2. \A a, b \in 1..Len(queue) :
              queue[a].proc \in Runs \cup {Recovery} /\ queue[a].proc = queue[b].proc => a = b
        BY DEF CloseInv, OthersQueued
      <4>3. queue[k].proc \in Runs \cup {Recovery} /\ queue[k].proc = queue[n + i].proc
        BY <2>1, <3>1, <3>2
      <4> QED BY <3>1, <4>1, <4>2, <4>3
    <3> QED BY <1>5, <3>1, <3>2, ProcsDistinct DEF InBatch
  <2>2. ASSUME NEW i \in 1..Len(queue')
        PROVE  /\ queue'[i].proc \in Runs => /\ io'[queue'[i].proc] = "queued"
                                             /\ pc'[queue'[i].proc] = "close"
                                             /\ queue'[i].event = RunClosed(queue'[i].proc)
               /\ queue'[i].proc = Recovery =>
                    /\ io'[Recovery] = "queued" /\ pc'[Recovery] = "recover"
                    /\ queue'[i].event.kind = "AttemptSettled"
    <3>1. CASE queue'[i].proc \in Runs \cup {Recovery}
      <4>1. n + i \in 1..Len(queue) /\ queue'[i] = queue[n + i] /\ io'[queue[n + i].proc] = io[queue[n + i].proc]
        BY <2>1, <3>1
      <4>2. /\ queue[n + i].proc \in Runs => /\ io[queue[n + i].proc] = "queued"
                                              /\ pc[queue[n + i].proc] = "close"
                                              /\ queue[n + i].event = RunClosed(queue[n + i].proc)
            /\ queue[n + i].proc = Recovery => /\ io[Recovery] = "queued" /\ pc[Recovery] = "recover"
                                               /\ queue[n + i].event.kind = "AttemptSettled"
        BY <4>1 DEF CloseInv, OthersQueued
      <4> QED BY <1>2, <4>1, <4>2
    <3>2. CASE queue'[i].proc \notin Runs \cup {Recovery}
      BY <3>2
    <3> QED BY <3>1, <3>2
  <2>3. ASSUME NEW i \in 1..Len(queue'), NEW j \in 1..Len(queue'),
               queue'[i].proc \in Runs \cup {Recovery}, queue'[i].proc = queue'[j].proc
        PROVE  i = j
    <3>1. n + i \in 1..Len(queue) /\ n + j \in 1..Len(queue)
      BY <1>3
    <3>2. queue[n + i].proc \in Runs \cup {Recovery} /\ queue[n + i].proc = queue[n + j].proc
      BY <1>3, <2>3
    <3>3. n + i = n + j
      BY <3>1, <3>2 DEF CloseInv, OthersQueued
    <3> QED BY <1>3, <3>3
  <2>4. /\ \A i \in 1..Len(queue') :
             /\ queue'[i].proc \in Runs => /\ io'[queue'[i].proc] = "queued"
                                           /\ pc'[queue'[i].proc] = "close"
                                           /\ queue'[i].event = RunClosed(queue'[i].proc)
             /\ queue'[i].proc = Recovery =>
                  /\ io'[Recovery] = "queued" /\ pc'[Recovery] = "recover"
                  /\ queue'[i].event.kind = "AttemptSettled"
        /\ \A i, j \in 1..Len(queue') :
             queue'[i].proc \in Runs \cup {Recovery} /\ queue'[i].proc = queue'[j].proc => i = j
    BY <2>2, <2>3
  <2> QED BY <2>4 DEF OthersQueued, RunClosed
<1>12. OthersRecorded'
  <2>1. ASSUME NEW p \in Procs, io'[p] = "durable"
        PROVE  \/ io[p] = "durable" /\ log'[seq'[p]] = log[seq[p]]
               \/ \E k \in 1..Len(queue) : queue[k].proc = p /\ log'[seq'[p]] = queue[k].event
    <3>1. CASE ~InBatch(n, p)
      <4>1. io[p] = "durable" /\ seq'[p] = seq[p]
        BY <1>5, <2>1, <3>1
      <4>2. seq[p] \in 1..Len(log)
        BY <4>1 DEF TypeInv, DurableInLog
      <4> QED BY <1>4, <4>1, <4>2
    <3>2. CASE InBatch(n, p)
      <4>1. WriteBatch(n)
        BY <1>7, <2>1, <3>2
      <4>2. PICK k \in 1..n : queue[k].proc = p /\ seq'[p] = Len(log) + k
        <5>1. seq'[p] = Len(log) + CHOOSE i \in 1..n : queue[i].proc = p
          BY <3>2, <4>1 DEF WriteBatch
        <5> QED BY <3>2, <5>1 DEF InBatch
      <4>3. seq'[p] \in 1..Len(log') /\ ~(seq'[p] \in 1..Len(log))
        BY <1>4, <2>1, <4>2 DEF TypeInv, DurableInLog
      <4>4. PICK m \in 1..n : seq'[p] = Len(log) + m /\ log'[seq'[p]] = queue[m].event
        BY <1>1, <4>3, LogWritten
      <4>5. m = k /\ k \in 1..Len(queue)
        BY <1>3, <1>4, <4>2, <4>4
      <4> QED BY <4>2, <4>4, <4>5
    <3> QED BY <3>1, <3>2
  <2>2. ASSUME NEW u \in Runs, io'[u] = "durable"
        PROVE  pc'[u] = "close" /\ log'[seq'[u]] = RunClosed(u)
    BY <1>2, <2>1, <2>2, ProcsDistinct DEF CloseInv, OthersQueued, OthersRecorded
  <2>3. ASSUME io'[Recovery] = "durable"
        PROVE  pc'[Recovery] = "recover" /\ log'[seq'[Recovery]].kind = "AttemptSettled"
    BY <1>2, <2>1, <2>3, ProcsDistinct DEF CloseInv, OthersQueued, OthersRecorded
  <2> QED BY <2>2, <2>3 DEF OthersRecorded, RunClosed
<1>13. ClosesRead'
  <2>1. st.wm \in Nat
    BY DEF TypeInv, TypeOK, States
  <2> QED BY <1>2, <1>4, <2>1 DEF CloseInv, ClosesRead
<1>14. OnlyServing' /\ CloseExcludes'
  BY <1>2 DEF CloseInv, OnlyServing, CloseExcludes
<1>15. ClosesSeen'
  <2> SUFFICES ASSUME phase' \in {"serving", "recovering"}, Appends', NEW u \in Runs, CloseLogged(u)'
               PROVE  u \in st'.closed \/ io'[u] = "durable"
    BY DEF ClosesSeen
  <2>1. CASE InBatch(n, u)
    BY <1>6, <1>8, <2>1, ProcsDistinct
  <2>2. CASE ~InBatch(n, u)
    <3>1. CloseLogged(u)
      BY <1>10, <2>2
    <3>2. u \in st.closed \/ io[u] = "durable"
      BY <1>2, <1>6, <3>1 DEF CloseInv, ClosesSeen
    <3> QED BY <1>2, <1>5, <2>2, <3>2, ProcsDistinct
  <2> QED BY <2>1, <2>2
<1>16. LateRefused'
  <2> SUFFICES ASSUME NEW r \in Requests, pc'[r] \in {"begin", "reserve"}, RunOf[r] # NoRun,
                      CloseLogged(RunOf[r])'
               PROVE  io'[r] # "queued" /\ ~Appends'
    BY DEF LateRefused
  <2>1. RunOf[r] \in Runs
    BY RunOfAssumption
  <2>2. pc[RunOf[r]] # "close"
    BY <1>2, <2>1 DEF CloseInv, CloseExcludes
  <2>3. CloseLogged(RunOf[r])
    BY <1>10, <2>1, <2>2
  <2>4. io[r] # "queued" /\ ~Appends
    BY <1>2, <2>3 DEF CloseInv, LateRefused
  <2> QED BY <1>5, <1>6, <2>4, ProcsDistinct
<1>17. NothingAfterClose'
  <2>1. log' \in Seq(Events) /\ log \in Seq(Events)
    BY DEF TypeInv, TypeOK
  <2>2. DOMAIN log' = 1..Len(log') /\ DOMAIN log = 1..Len(log)
    BY <2>1, LenProperties
  <2> SUFFICES ASSUME NEW i \in 1..Len(log'), NEW j \in 1..Len(log'), i < j,
                      log'[i].kind = "RunClosed",
                      log'[j].kind \in {"RequestAccepted", "ReservationCreated"},
                      RunOf[RequestOf(log'[j])] = log'[i].run
               PROVE  FALSE
    BY <2>2 DEF NothingAfterClose, RequestOf
  <2>3. CASE j \in 1..Len(log)
    <3>1. i \in 1..Len(log) /\ log'[i] = log[i] /\ log'[j] = log[j]
      BY <1>4, <2>3
    <3> QED BY <2>2, <2>3, <3>1 DEF CloseInv, NothingAfterClose
  <2>4. CASE j \notin 1..Len(log)
    <3>1. PICK m \in 1..n : log'[j] = queue[m].event
      BY <1>1, <2>4, LogWritten
    <3>2. m \in 1..Len(queue)
      BY <1>3
    <3>3. PICK r \in Requests : /\ RequestOf(log'[j]) = r
                                /\ pc[r] \in {"begin", "reserve"} /\ io[r] = "queued"
      BY <3>1, <3>2, QueuedKind DEF CloseInv
    <3>4. RunOf[r] = log'[i].run
      BY <3>3
    <3>5. CASE i \in 1..Len(log)
      <4>1. log[i] = log'[i] /\ log[i] \in Events
        BY <1>4, <2>1, <3>5, ElementOfSeq
      <4>2. log[i].run \in Runs
        BY <4>1 DEF Events, RequestEvents, LeaseEvents, SettledEvents, RunEvents
      <4>3. CloseLogged(RunOf[r]) /\ RunOf[r] # NoRun
        BY <3>4, <3>5, <4>1, <4>2, NoRunAssumption DEF CloseLogged
      <4> QED BY <3>3, <4>3 DEF CloseInv, LateRefused
    <3>6. CASE i \notin 1..Len(log)
      <4>1. RunOf[r] \in Runs /\ pc[RunOf[r]] = "close"
        BY <1>9, <3>4, <3>6
      <4> QED BY <3>3, <4>1, NoRunAssumption DEF CloseInv, CloseExcludes
    <3> QED BY <3>5, <3>6
  <2> QED BY <2>3, <2>4
<1> QED BY <1>11, <1>12, <1>13, <1>14, <1>15, <1>16, <1>17 DEF CloseInv

\* A CloseRun call moves on.  It starts when nobody is being accepted and writes when the
\* Run has no admission left.
LEMMA CloseMoves ==
  ASSUME TypeInv, CloseInv, AdmissionsCounted, NEW u \in Runs,
         CloseRun(u) \/ CloseProceeds(u) \/ CloseReturns(u)
  PROVE  CloseInv'
<1> USE DEF ledgerVars, admissionVars, controlVars, worldVars
<1>1. PICK x \in ClosePoints : Goto(u, x) /\ (x = "closing" => CloseRun(u)) /\ (x = "close" => CloseProceeds(u))
  BY DEF CloseRun, CloseProceeds, CloseReturns, ClosePoints
<1>2. UNCHANGED <<log, queue, status, st, applyErr, phase>>
  BY DEF CloseRun, CloseProceeds, CloseReturns
<1>3. /\ \A p \in Procs \ {u} : pc'[p] = pc[p] /\ io'[p] = io[p] /\ seq'[p] = seq[p]
      /\ pc'[u] = x /\ io'[u] = "none"
  BY <1>1, ProcsDistinct DEF Goto, TypeInv, TypeOK
<1>4. \A r \in Requests : pc'[r] = pc[r] /\ io'[r] = io[r]
  BY <1>3, ProcsDistinct
<1>5. \A v \in Runs \ {u} : pc'[v] = pc[v] /\ io'[v] = io[v] /\ seq'[v] = seq[v]
  BY <1>3, ProcsDistinct
<1>6. pc[u] # "close" \/ io[u] \in {"ok", "err"}
  BY DEF CloseRun, CloseProceeds, CloseReturns
<1>7. \A i \in 1..Len(queue) : queue[i].proc # u
  BY <1>6 DEF CloseInv, OthersQueued
<1>8. OthersQueued'
  <2>1. ASSUME NEW i \in 1..Len(queue), queue[i].proc \in Runs
        PROVE  /\ io'[queue[i].proc] = "queued" /\ pc'[queue[i].proc] = "close"
               /\ queue[i].event = RunClosed(queue[i].proc)
    BY <1>5, <1>7, <2>1 DEF CloseInv, OthersQueued
  <2>2. pc'[Recovery] = pc[Recovery] /\ io'[Recovery] = io[Recovery]
    BY <1>3, ProcsDistinct
  <2> QED BY <1>2, <2>1, <2>2 DEF CloseInv, OthersQueued, RunClosed
<1>9. io[u] # "durable"
  BY <1>6 DEF CloseInv, OthersRecorded
<1>10. OthersRecorded' /\ ClosesRead' /\ NothingAfterClose'
  <2>1. ASSUME NEW v \in Runs, io'[v] = "durable" PROVE pc'[v] = "close" /\ log[seq'[v]] = RunClosed(v)
    BY <1>3, <1>5, <2>1 DEF CloseInv, OthersRecorded
  <2>2. /\ pc'[Recovery] = pc[Recovery] /\ io'[Recovery] = io[Recovery]
        /\ seq'[Recovery] = seq[Recovery]
    BY <1>3, ProcsDistinct
  <2> QED BY <1>2, <2>1, <2>2, LogSame DEF CloseInv, OthersRecorded, ClosesRead, RunClosed
<1>11. phase = "serving" /\ pc'[Recovery] = pc[Recovery]
  <2>1. phase = "serving"
    BY DEF CloseRun, CloseProceeds, CloseReturns, CloseInv, OnlyServing
  <2> QED BY <1>3, <2>1, ProcsDistinct
<1>12. OnlyServing'
  BY <1>2, <1>11 DEF CloseInv, OnlyServing
<1>13. ClosesSeen'
  <2>1. \A v \in Runs : io[v] = "durable" => io'[v] = "durable"
    BY <1>5, <1>9
  <2> QED BY <1>2, <2>1, LogSame DEF CloseInv, ClosesSeen, Appends
<1>14. CloseExcludes'
  <2>1. ASSUME NEW r \in Requests, RunOf[r] # NoRun, x # "idle" PROVE pc[r] # "begin"
    <3>1. CASE x = "closing"
      BY <1>1, <2>1, <3>1 DEF CloseRun, ReadLocked
    <3>2. CASE x = "close"
      <4>1. pc[u] = "closing"
        BY <1>1, <3>2 DEF CloseProceeds
      <4> QED BY <2>1, <4>1 DEF CloseInv, CloseExcludes
    <3> QED BY <2>1, <3>1, <3>2 DEF ClosePoints
  <2>2. ASSUME NEW r \in Requests, RunOf[r] = u, x = "close", pc[r] = "reserve" PROVE FALSE
    <3>1. runAdmissions[u] = 0
      BY <1>1, <2>2 DEF CloseProceeds
    <3>2. IsFiniteSet(Admitted) /\ Current(r) \in Admitted /\ Current(r) \in RunAttempts(u)
      BY <2>2, AdmittedMember, CurrentType DEF TypeInv, RunAttempts
    <3>3. IsFiniteSet(Admitted \cap RunAttempts(u)) /\ Cardinality(Admitted \cap RunAttempts(u)) = 0
      BY <3>1, <3>2, FS_Subset DEF AdmissionsCounted
    <3>4. Admitted \cap RunAttempts(u) = {}
      BY <3>3, FS_EmptySet
    <3> QED BY <3>2, <3>4
  <2> QED BY <1>3, <1>4, <1>5, <2>1, <2>2 DEF CloseInv, CloseExcludes
<1>15. LateRefused'
  <2>1. \A q \in Requests : RunOf[q] # NoRun => RunOf[q] \in Runs
    BY RunOfAssumption
  <2>2. Appends' <=> Appends
    BY <1>2 DEF Appends
  <2> QED BY <1>2, <1>4, <2>1, <2>2, LogSame DEF CloseInv, LateRefused
<1> QED BY <1>8, <1>10, <1>12, <1>13, <1>14, <1>15 DEF CloseInv

\* The startup goroutine moves on.  When it has replayed the log the read model knows of
\* every close there is.
LEMMA CloseStartup ==
  ASSUME TypeInv, CloseInv, ReplayDone \/ RecoverReturns \/ RecoverDone
  PROVE  CloseInv'
<1> USE DEF ledgerVars, admissionVars, controlVars, worldVars
<1>1. PICK x : Goto(Recovery, x)
  BY DEF ReplayDone, RecoverReturns, RecoverDone
<1>2. UNCHANGED <<log, queue, status, st, applyErr>>
  BY DEF ReplayDone, RecoverReturns, RecoverDone
<1>3. /\ \A r \in Requests : pc'[r] = pc[r] /\ io'[r] = io[r]
      /\ \A u \in Runs : pc'[u] = pc[u] /\ io'[u] = io[u] /\ seq'[u] = seq[u]
      /\ pc'[Recovery] = x /\ io'[Recovery] = "none"
  BY <1>1, ProcsDistinct DEF Goto, TypeInv, TypeOK
<1>4. OthersQueued' /\ OthersRecorded' /\ ClosesRead' /\ NothingAfterClose'
  <2>1. pc[Recovery] # "recover" \/ io[Recovery] # "queued"
    BY DEF ReplayDone, RecoverReturns, RecoverDone, CloseInv, OnlyServing
  <2>2. \A i \in 1..Len(queue) : queue[i].proc # Recovery
    BY <2>1 DEF CloseInv, OthersQueued
  <2> QED BY <1>2, <1>3, <2>2, LogSame DEF CloseInv, OthersQueued, OthersRecorded, ClosesRead
<1>5. CloseExcludes'
  BY <1>3 DEF CloseInv, CloseExcludes
<1>6. LateRefused'
  <2>1. \A q \in Requests : RunOf[q] # NoRun => RunOf[q] \in Runs
    BY RunOfAssumption
  <2>2. Appends' <=> Appends
    BY <1>2 DEF Appends
  <2> QED BY <1>2, <1>3, <2>1, <2>2, LogSame DEF CloseInv, LateRefused
<1>7. OnlyServing'
  <2>1. phase # "serving"
    BY DEF ReplayDone, RecoverReturns, RecoverDone, CloseInv, OnlyServing
  <2>2. /\ \A r \in Requests : pc'[r] \in {"idle", "done"}
        /\ \A u \in Runs : pc'[u] = "idle"
    BY <1>3, <2>1 DEF CloseInv, OnlyServing
  <2>3. pc'[Recovery] = "recover" => phase' = "recovering"
    <3>1. CASE ReplayDone
      BY <3>1 DEF ReplayDone
    <3>2. CASE RecoverReturns
      <4>1. pc'[Recovery] = IF io[Recovery] = "ok" THEN "recover" ELSE "idle"
        BY <3>2, ProcsDistinct DEF RecoverReturns, Goto, TypeInv, TypeOK
      <4> QED BY <3>2, <4>1 DEF RecoverReturns, CloseInv, OnlyServing
    <3>3. CASE RecoverDone
      <4>1. pc'[Recovery] = "idle"
        BY <3>3, ProcsDistinct DEF RecoverDone, Goto, TypeInv, TypeOK
      <4> QED BY <4>1
    <3> QED BY <3>1, <3>2, <3>3
  <2> QED BY <2>2, <2>3 DEF OnlyServing
<1>8. ClosesSeen'
  <2> SUFFICES ASSUME phase' \in {"serving", "recovering"}, Appends', NEW u \in Runs, CloseLogged(u)'
               PROVE  u \in st'.closed \/ io'[u] = "durable"
    BY DEF ClosesSeen
  <2>1. CloseLogged(u) /\ Appends
    BY <1>2, LogSame DEF Appends
  <2>2. CASE ReplayDone
    <3>1. st.wm = Len(log) /\ Len(log) \in Nat
      BY <2>2, LenProperties DEF ReplayDone, TypeInv, TypeOK
    <3> QED BY <1>2, <2>1, <3>1 DEF CloseInv, ClosesRead, CloseLogged
  <2>3. CASE RecoverReturns \/ RecoverDone
    <3>1. phase = "recovering"
      BY <2>3 DEF RecoverReturns, RecoverDone, CloseInv, OnlyServing
    <3> QED BY <1>2, <1>3, <2>1, <3>1 DEF CloseInv, ClosesSeen
  <2> QED BY <2>2, <2>3
<1> QED BY <1>4, <1>5, <1>6, <1>7, <1>8 DEF CloseInv

\* One record is replayed.
LEMMA CloseReplay ==
  ASSUME TypeInv, CloseInv, Replay
  PROVE  CloseInv'
<1> USE DEF ledgerVars, admissionVars, controlVars, worldVars
<1>1. UNCHANGED <<log, queue, status, applyErr, pc, io, seq>> /\ phase = "replaying"
      /\ phase' \in {"replaying", "failed"}
  BY DEF Replay
<1>2. ClosesRead'
  <2>1. st.wm \in Nat /\ Len(log) \in Nat
    BY LenProperties DEF TypeInv, TypeOK, States
  <2>2. st.wm + 1 \in 1..Len(log) /\ st.wm + 1 <= st.wm + 1
    BY <2>1 DEF Replay
  <2>3. \/ st' = st
        \/ CanApply(st, log[st.wm + 1], st.wm + 1) /\ st' = Apply(st, log[st.wm + 1], st.wm + 1)
    BY DEF Replay
  <2>4. CASE st' = st
    BY <1>1, <2>4 DEF CloseInv, ClosesRead
  <2>5. CASE CanApply(st, log[st.wm + 1], st.wm + 1) /\ st' = Apply(st, log[st.wm + 1], st.wm + 1)
    BY <1>1, <2>2, <2>5, ReadNext DEF CloseInv
  <2> QED BY <2>3, <2>4, <2>5
<1>3. OthersQueued' /\ OthersRecorded' /\ CloseExcludes' /\ NothingAfterClose'
  BY <1>1, LogSame DEF CloseInv, OthersQueued, OthersRecorded, CloseExcludes
<1>4. OnlyServing' /\ ClosesSeen'
  BY <1>1 DEF CloseInv, OnlyServing, ClosesSeen
<1>5. LateRefused'
  BY <1>1 DEF CloseInv, LateRefused, OnlyServing
<1> QED BY <1>2, <1>3, <1>4, <1>5 DEF CloseInv

\* A new process has nothing queued and has read nothing.
LEMMA CloseCrash ==
  ASSUME TypeInv, CloseInv, Crash
  PROVE  CloseInv'
<1> USE DEF ledgerVars, admissionVars, controlVars, worldVars
<1>1. /\ log' = log /\ Len(queue') = 0 /\ phase' = "replaying" /\ st'.wm = 0
  BY DEF Crash, NewState
<1>2. /\ \A r \in Requests : pc'[r] \in {"idle", "done"}
      /\ \A u \in Runs : pc'[u] = "idle" /\ io'[u] = "none"
      /\ pc'[Recovery] = "idle" /\ io'[Recovery] = "none"
  BY ProcsDistinct DEF Crash
<1>3. ClosesRead'
  <2>1. Len(log) \in Nat
    BY LenProperties DEF TypeInv, TypeOK
  <2> QED BY <1>1, <2>1 DEF ClosesRead
<1>4. OthersQueued' /\ OthersRecorded' /\ NothingAfterClose'
  BY <1>1, <1>2, LogSame DEF CloseInv, OthersQueued, OthersRecorded
<1>5. OnlyServing' /\ ClosesSeen' /\ CloseExcludes' /\ LateRefused'
  BY <1>1, <1>2 DEF OnlyServing, ClosesSeen, CloseExcludes, LateRefused
<1> QED BY <1>3, <1>4, <1>5 DEF CloseInv

\* A blank log has no close to follow.
LEMMA CloseInit == Init => CloseInv
<1> SUFFICES ASSUME Init PROVE CloseInv
  OBVIOUS
<1>1. Len(log) = 0 /\ Len(queue) = 0 /\ DOMAIN log = {} /\ st.wm = 0 /\ phase = "serving"
  BY DEF Init, NewState
<1>2. /\ \A r \in Requests : pc[r] = "idle"
      /\ \A u \in Runs : pc[u] = "idle" /\ io[u] = "none"
      /\ pc[Recovery] = "idle" /\ io[Recovery] = "none"
  BY ProcsDistinct DEF Init
<1> QED BY <1>1, <1>2
        DEF CloseInv, OthersQueued, OthersRecorded, ClosesRead, OnlyServing, ClosesSeen,
            CloseExcludes, LateRefused, NothingAfterClose, CloseLogged

\* Every step keeps the order of closes and admissions.
LEMMA CloseNext ==
  TypeInv /\ TypeInv' /\ CallInv /\ AdmissionsCounted /\ CloseInv /\ [Next]_vars => CloseInv'
<1> SUFFICES ASSUME TypeInv, TypeInv', CallInv, AdmissionsCounted, CloseInv, [Next]_vars
             PROVE  CloseInv'
  OBVIOUS
<1> USE DEF ledgerVars, admissionVars, controlVars, worldVars
<1>1. CASE Writer
  BY <1>1, CloseWriter DEF CallInv
<1>2. ASSUME NEW r \in Requests, BeginRequest(r) \/ RequestStep(r) PROVE CloseInv'
  BY <1>2, CloseRequest
<1>3. ASSUME NEW p \in Requests \cup Runs, AppendStep(p) PROVE CloseInv'
  BY <1>3, CloseAppend, CloseEnqueue, ProcsDistinct DEF AppendStep
<1>4. ASSUME NEW u \in Runs, CloseRun(u) \/ CloseProceeds(u) \/ CloseReturns(u) PROVE CloseInv'
  BY <1>4, CloseMoves
<1>5. ASSUME NEW u \in Runs, Expire(u) PROVE CloseInv'
  BY <1>5, CloseSame DEF Expire
<1>6. CASE ReplayDone \/ RecoverReturns \/ RecoverDone
  BY <1>6, CloseStartup
<1>7. CASE Replay
  BY <1>7, CloseReplay
<1>8. CASE RecoverLease
  <2>1. PICK a \in PendingLeases(st) : Enqueue(Recovery, RecoveryEvent(a))
    BY <1>8 DEF RecoverLease
  <2>2. RecoveryEvent(a).kind = "AttemptSettled"
    BY DEF RecoveryEvent, AttemptSettled
  <2> QED BY <2>1, <2>2, CloseEnqueue, ProcsDistinct
<1>9. CASE AppendReturns(Recovery)
  BY <1>9, CloseAppend, ProcsDistinct
<1>10. CASE Crash
  BY <1>10, CloseCrash
<1>11. CASE Terminated \/ UNCHANGED vars
  BY <1>11, CloseSame DEF Terminated, vars
<1> QED BY <1>1, <1>2, <1>3, <1>4, <1>5, <1>6, <1>7, <1>8, <1>9, <1>10, <1>11
        DEF Next, CloseStep, Startup

\* Once a Run's close is in the durable log, no acceptance and no reservation of it
\* follows, for any number of requests and Runs: CloseRun decides under a lock it lets go
\* before its record is written, and batches, failed writes, crashes and restarts come
\* between the decision and the log.
THEOREM NothingFollowsClose == Spec => []NothingAfterClose
<1>1. CloseInv => NothingAfterClose
  BY DEF CloseInv
<1> QED BY <1>1, TypeInit, TypeNext, CallInit, CallNext, CloseInit, CloseNext, AdmissionsHold, PTL
        DEF Spec

-----------------------------------------------------------------------------
(* Applying what is durable *)

\* The progress of an append before its record is applied.
Unapplied == {"none", "queued", "durable"}

\* Only a goroutine inside an append has any progress in one.
IoOwned == \A p \in Procs : io[p] # "none" => pc[p] \in Appending

\* A record that waits to be applied is ahead of the watermark, and nobody else's.
TurnsAhead ==
  /\ \A p \in Procs : io[p] = "durable" => seq[p] > st.wm
  /\ \A p, q \in Procs : io[p] = "durable" /\ io[q] = "durable" /\ seq[p] = seq[q] => p = q

\* The Runs the read model has closed are closed in the log, up to its watermark.
ClosedRead ==
  \A u \in st.closed :
    \E i \in 1..Len(log) : i <= st.wm /\ log[i].kind = "RunClosed" /\ log[i].run = u

\* A Run stays open until its CloseRun call has applied the close.
OpenWhileClosing == \A u \in Runs : pc[u] # "idle" /\ io[u] \in Unapplied => u \notin st.closed

\* An attributed request is known to the read model from its acceptance to its end.
RequestKnown(r) ==
  \/ pc[r] \in {"idle", "done"}
  \/ pc[r] = "begin" /\ io[r] \notin {"confirm", "ok"}
  \/ pc[r] = "finalize" /\ io[r] \notin Unapplied
  \/ Attributed(st, r)

\* The attempts that are not yet reserved have no lease.
LeasesFresh(r) ==
  /\ pc[r] # "done" => \A n \in 1..MaxAttempts : n > att[r] => st.lease[<<r, n>>] = "none"
  /\ pc[r] \in {"idle", "begin", "ready"} \/ (pc[r] = "reserve" /\ io[r] \in Unapplied) =>
       st.lease[Current(r)] = "none"

\* A reserved attempt keeps its lease until its settlement is applied.
LeaseHeld(r) ==
  /\ \/ pc[r] = "reserve" /\ io[r] \in {"confirm", "ok"}
     \/ pc[r] = "reserved"
     \/ pc[r] = "start" /\ io[r] \in Unapplied
     => st.lease[Current(r)] = "held"
  /\ \/ pc[r] \in {"start", "calling", "called"}
     \/ pc[r] \in {"settle", "settleRetry"} /\ io[r] \in Unapplied
     => st.lease[Current(r)] # "none"

RequestReady(r) == RequestKnown(r) /\ LeasesFresh(r) /\ LeaseHeld(r)

\* No reservation of a request that has not come is in the log.
IdleUnlogged ==
  \A r \in Requests : pc[r] = "idle" =>
    \A i \in 1..Len(log) : log[i].kind = "ReservationCreated" => log[i].att[1] # r

\* The terminal apply error is the startup goroutine's, which then ends the startup.
FailsAtStart ==
  applyErr => \/ phase = "failed"
              \/ phase = "recovering" /\ pc[Recovery] = "recover"
                   /\ io[Recovery] \in {"applyFailed", "err"}

\* That a record can be applied depends on the read model at its turn; the invariant says
\* what the read model holds for each goroutine that has a record under way.
ApplyInv ==
  /\ IoOwned /\ TurnsAhead /\ ClosedRead /\ OpenWhileClosing
  /\ \A r \in Requests : RequestReady(r)
  /\ IdleUnlogged /\ FailsAtStart

\* A record leaves alone what the read model holds of another request.
LEMMA ApplyOther ==
  ASSUME NEW s \in States, NEW e \in Events, NEW n \in Nat, NEW q \in Requests,
         e.kind = "RunClosed" \/ RequestOf(e) # q
  PROVE  /\ \A k \in 1..MaxAttempts : Apply(s, e, n).lease[<<q, k>>] = s.lease[<<q, k>>]
         /\ Attributed(Apply(s, e, n), q) <=> Attributed(s, q)
<1>1. \A k \in 1..MaxAttempts : <<q, k>> \in Attempts /\ <<q, k>>[1] = q
  BY DEF Attempts
<1>2. s.lease \in [Attempts -> LeaseStatus] /\ s.requestRuns \in SUBSET Requests
  BY DEF States
<1>3. CASE e \in RequestEvents
  <2>1. e.kind \in {"RequestAccepted", "RequestFinalized"} /\ e.req # q
    BY <1>3 DEF RequestEvents, RequestOf
  <2> QED BY <2>1 DEF Apply, Effect, States, Attributed
<1>4. CASE e \in LeaseEvents
  <2>1. e.kind \in {"ReservationCreated", "AttemptStarted"} /\ e.att[1] # q /\ e.att \in Attempts
    BY <1>4 DEF LeaseEvents, RequestOf
  <2>2. \A k \in 1..MaxAttempts : <<q, k>> # e.att
    BY <1>1, <2>1
  <2>3. /\ Apply(s, e, n).requestRuns = s.requestRuns
        /\ \E x : Apply(s, e, n).lease = [s.lease EXCEPT ![e.att] = x]
    BY <2>1 DEF Apply, Effect, ApplyReservationCreated, States
  <2> QED BY <1>1, <1>2, <2>2, <2>3 DEF Attributed
<1>5. CASE e \in SettledEvents
  <2>1. e.kind = "AttemptSettled" /\ e.att[1] # q /\ e.att \in Attempts
    BY <1>5 DEF SettledEvents, RequestOf
  <2>2. \A k \in 1..MaxAttempts : <<q, k>> # e.att
    BY <1>1, <2>1
  <2>3. /\ Apply(s, e, n).requestRuns = s.requestRuns
        /\ Apply(s, e, n).lease = [s.lease EXCEPT ![e.att] = "none"]
    BY <2>1 DEF Apply, Effect, ApplyAttemptSettled, States
  <2> QED BY <1>1, <1>2, <2>2, <2>3 DEF Attributed
<1>6. CASE e \in RunEvents
  <2>1. e.kind = "RunClosed"
    BY <1>6 DEF RunEvents
  <2> QED BY <2>1 DEF Apply, Effect, States, Attributed
<1> QED BY <1>3, <1>4, <1>5, <1>6 DEF Events

\* What a record does to the request it belongs to.
LEMMA ApplyAccepted ==
  ASSUME NEW s \in States, NEW n, NEW r \in Requests
  PROVE  /\ Apply(s, RequestAccepted(r), n).lease = s.lease
         /\ Attributed(Apply(s, RequestAccepted(r), n), r)
BY DEF Apply, Effect, RequestAccepted, States, Attributed

\* The end of a request touches no lease.
LEMMA ApplyFinalized ==
  ASSUME NEW s \in States, NEW n, NEW r \in Requests
  PROVE  Apply(s, RequestFinalized(r), n).lease = s.lease
BY DEF Apply, Effect, RequestFinalized, States

\* A reservation becomes a pending lease.
LEMMA ApplyReserved ==
  ASSUME NEW s \in States, NEW n, NEW a \in Attempts
  PROVE  /\ Apply(s, ReservationCreated(a), n).lease = [s.lease EXCEPT ![a] = "held"]
         /\ Apply(s, ReservationCreated(a), n).requestRuns = s.requestRuns
BY DEF Apply, Effect, ReservationCreated, ApplyReservationCreated, States

\* A start marks its lease and nothing else of it.
LEMMA ApplyStarted ==
  ASSUME NEW s \in States, NEW n, NEW a \in Attempts
  PROVE  /\ Apply(s, AttemptStarted(a), n).lease = [s.lease EXCEPT ![a] = "started"]
         /\ Apply(s, AttemptStarted(a), n).requestRuns = s.requestRuns
BY DEF Apply, Effect, AttemptStarted, States

\* A settled lease is gone and its request stays.
LEMMA ApplySettled ==
  ASSUME NEW s \in States, NEW n, NEW a \in Attempts, NEW c \in Nat
  PROVE  /\ Apply(s, AttemptSettled(a, c), n).lease = [s.lease EXCEPT ![a] = "none"]
         /\ Apply(s, AttemptSettled(a, c), n).requestRuns = s.requestRuns
BY DEF Apply, Effect, AttemptSettled, ApplyAttemptSettled, States

\* A lease that is pending is covered by what the balance holds reserved.
LEMMA LeaseCovered ==
  ASSUME NEW s \in States, Conserves(s), NEW a \in Attempts, s.lease[a] # "none"
  PROVE  /\ s.reserved >= Amount[a]
         /\ RunOf[a[1]] # NoRun => s.runReserved[RunOf[a[1]]] >= Amount[a]
<1>1. a \in PendingLeases(s) /\ PendingLeases(s) \in SUBSET Attempts
  BY DEF PendingLeases
<1>2. IsFiniteSet(PendingLeases(s)) /\ \A b \in PendingLeases(s) : Amount[b] \in Nat
  BY <1>1, AttemptsFacts, FS_Subset
<1>3. Amount[a] <= Total(Amount, PendingLeases(s)) /\ Amount[a] \in Nat /\ s.reserved \in Nat
  BY <1>1, <1>2, TotalRemove DEF States
<1>4. ASSUME RunOf[a[1]] # NoRun
      PROVE  s.runReserved[RunOf[a[1]]] >= Amount[a]
  <2> DEFINE u == RunOf[a[1]]
             S == PendingLeases(s) \cap RunAttempts(u)
  <2>1. u \in Runs
    BY <1>4, RunOfAssumption DEF Attempts
  <2>2. a \in S /\ IsFiniteSet(S) /\ \A b \in S : Amount[b] \in Nat
    BY <1>1, <1>2, FS_Subset DEF RunAttempts
  <2>3. Amount[a] <= Total(Amount, S)
    BY <2>2, TotalRemove
  <2>4. s.runReserved[u] = Total(Amount, S) /\ s.runReserved[u] \in Nat
    BY <2>1 DEF Conserves, States
  <2> QED BY <1>3, <2>3, <2>4
<1> QED BY <1>3, <1>4 DEF Conserves

\* At its turn the record of a request or a CloseRun call can be applied.
LEMMA AcceptsLive ==
  ASSUME TypeInv, RecordsLogged, Conservation, CloseInv, ApplyInv,
         NEW p \in Requests \cup Runs, io[p] = "durable", Turn(p)
  PROVE  /\ seq[p] = st.wm + 1 /\ seq[p] \in 1..Len(log)
         /\ log[seq[p]] = EventOf(p) /\ pc[p] \in Appending
         /\ CanApply(st, log[seq[p]], seq[p])
<1>1. p \in Procs /\ seq[p] \in 1..Len(log) /\ seq[p] > st.wm /\ pc[p] \in Appending
  BY ProcsDistinct DEF TypeInv, DurableInLog, ApplyInv, TurnsAhead, IoOwned
<1>2. st \in States /\ st.wm \in Nat /\ st.lease \in [Attempts -> LeaseStatus]
  BY DEF TypeInv, TypeOK, States
<1>3. seq[p] = st.wm + 1
  BY <1>1, <1>2 DEF Turn
<1>4. CASE p \in Runs
  <2>1. pc[p] = "close" /\ log[seq[p]] = RunClosed(p)
    BY <1>4 DEF CloseInv, OthersRecorded
  <2>2. p \notin st.closed
    BY <1>4, <2>1 DEF ApplyInv, OpenWhileClosing, Unapplied
  <2>3. EventOf(p) = RunClosed(p)
    BY <2>1 DEF EventOf
  <2>4. Accepts(st, RunClosed(p))
    BY <2>2 DEF Accepts, RunClosed
  <2> QED BY <1>1, <1>3, <2>1, <2>3, <2>4 DEF CanApply
<1>5. CASE p \in Requests
  <2>1. log[seq[p]] = EventOf(p)
    BY <1>5 DEF RecordsLogged, LoggedIo
  <2>2. pc[p] \in {"begin", "reserve", "start", "settle", "settleRetry", "finalize"}
    BY <1>1, <1>5 DEF TypeInv, TypeOK, RequestPoints, Appending
  <2>3. Current(p) \in Attempts /\ Current(p)[1] = p
    BY <1>5, CurrentType DEF TypeInv
  <2>4. RequestKnown(p) /\ LeasesFresh(p) /\ LeaseHeld(p)
    BY <1>5 DEF ApplyInv, RequestReady
  <2>5. pc[p] # "begin" => Attributed(st, p)
    BY <2>2, <2>4 DEF RequestKnown, Unapplied
  <2>6. Accepts(st, EventOf(p))
    <3>1. CASE pc[p] = "begin"
      <4>1. EventOf(p) = RequestAccepted(p)
        BY <3>1 DEF EventOf
      <4>2. EventOf(p).kind = "RequestAccepted" /\ EventOf(p).req = p /\ RequestOf(EventOf(p)) = p
        BY <4>1 DEF RequestAccepted, RequestOf
      <4>3. ASSUME RunOf[p] \in st.closed PROVE FALSE
        <5>1. PICK i \in 1..Len(log) : /\ i <= st.wm /\ log[i].kind = "RunClosed"
                                       /\ log[i].run = RunOf[p]
          BY <4>3 DEF ApplyInv, ClosedRead
        <5>2. i < seq[p]
          BY <1>2, <1>3, <5>1
        <5>3. DOMAIN log = 1..Len(log)
          BY LenProperties DEF TypeInv, TypeOK
        <5> QED BY <1>1, <2>1, <4>2, <5>1, <5>2, <5>3 DEF CloseInv, NothingAfterClose
      <4> QED BY <4>2, <4>3 DEF Accepts
    <3>2. CASE pc[p] = "reserve"
      <4>1. EventOf(p) = ReservationCreated(Current(p)) /\ st.lease[Current(p)] = "none"
        BY <2>4, <3>2 DEF EventOf, LeasesFresh, Unapplied
      <4> QED BY <2>3, <2>5, <3>2, <4>1 DEF Accepts, ReservationCreated
    <3>3. CASE pc[p] = "start"
      <4>1. EventOf(p) = AttemptStarted(Current(p)) /\ st.lease[Current(p)] = "held"
        BY <2>4, <3>3 DEF EventOf, LeaseHeld, Unapplied
      <4> QED BY <2>3, <2>5, <3>3, <4>1 DEF Accepts, AttemptStarted
    <3>4. CASE pc[p] \in {"settle", "settleRetry"}
      <4>1. EventOf(p) = AttemptSettled(Current(p), bill[p]) /\ st.lease[Current(p)] # "none"
        BY <2>4, <3>4 DEF EventOf, LeaseHeld, Unapplied
      <4>2. /\ st.reserved >= Amount[Current(p)]
            /\ RunOf[p] # NoRun => st.runReserved[RunOf[p]] >= Amount[Current(p)]
        BY <1>2, <2>3, <4>1, LeaseCovered DEF Conservation
      <4> QED BY <2>3, <2>5, <3>4, <4>1, <4>2 DEF Accepts, AttemptSettled
    <3>5. CASE pc[p] = "finalize"
      <4>1. EventOf(p) = RequestFinalized(p)
        BY <3>5 DEF EventOf
      <4> QED BY <2>5, <3>5, <4>1 DEF Accepts, RequestFinalized
    <3> QED BY <2>2, <3>1, <3>2, <3>3, <3>4, <3>5
  <2> QED BY <1>1, <1>3, <2>1, <2>6 DEF CanApply
<1> QED BY <1>4, <1>5

\* What is ready for a request stays so when neither it nor its part of the read model
\* changes, or when its append goes on without having been applied.
LEMMA ReadyStays ==
  ASSUME NEW r \in Requests, RequestReady(r), pc'[r] = pc[r], att'[r] = att[r],
         \/ io'[r] = io[r]
         \/ io[r] \in Unapplied /\ io'[r] \in Unapplied
         \/ io'[r] \notin Unapplied \cup {"confirm", "ok"}
         \/ io[r] = "confirm" /\ io'[r] = "ok",
         \A k \in 1..MaxAttempts : st'.lease[<<r, k>>] = st.lease[<<r, k>>],
         att[r] \in 1..MaxAttempts,
         Attributed(st', r) <=> Attributed(st, r)
  PROVE  RequestReady(r)'
<1>1. Current(r)' = Current(r) /\ st'.lease[Current(r)] = st.lease[Current(r)]
  BY DEF Current
<1>2. Attributed(st, r)' <=> Attributed(st, r)
  BY DEF Attributed
<1>3. RequestKnown(r)'
  BY <1>2 DEF RequestReady, RequestKnown, Unapplied
<1>4. LeasesFresh(r)'
  BY <1>1 DEF RequestReady, LeasesFresh, Unapplied
<1>5. LeaseHeld(r)'
  BY <1>1 DEF RequestReady, LeaseHeld, Unapplied
<1> QED BY <1>3, <1>4, <1>5 DEF RequestReady

\* A request that is over or has not come needs little.
LEMMA ReadyAtRest ==
  ASSUME NEW r \in Requests, pc[r] \in {"idle", "done"},
         pc[r] = "idle" => \A n \in 1..MaxAttempts : n >= att[r] => st.lease[<<r, n>>] = "none",
         att[r] \in 1..MaxAttempts
  PROVE  RequestReady(r)
BY DEF RequestReady, RequestKnown, LeasesFresh, LeaseHeld, Current

\* A request moves on.
LEMMA ReadyMoves ==
  ASSUME TypeInv, NEW r \in Requests, RequestReady(r), IoOwned, BeginRequest(r) \/ RequestStep(r)
  PROVE  RequestReady(r)'
<1> USE DEF ledgerVars, admissionVars, controlVars, worldVars
<1>1. st' = st /\ att[r] \in 1..MaxAttempts /\ att \in [Requests -> 1..MaxAttempts]
  BY DEF TypeInv, TypeOK, BeginRequest, RequestStep, BeginReturns, Admit, GiveUp, ReserveReturns,
         CommitPin, StartReturns, SettleUnserved, CallProvider, ProviderReturns, SettleReturns,
         FinalizeReturns
<1>2. (Attributed(st, r)' <=> Attributed(st, r)) /\ Current(r) = <<r, att[r]>> /\ Current(r)' = <<r, att'[r]>>
  BY <1>1 DEF Attributed, Current
<1>3. ASSUME NEW x, Goto(r, x) PROVE pc'[r] = x /\ io'[r] = "none"
  BY <1>3, ProcsDistinct DEF Goto, TypeInv, TypeOK
<1> USE DEF RequestReady, RequestKnown, LeasesFresh, LeaseHeld, Unapplied
<1>4. CASE BeginRequest(r)
  BY <1>1, <1>2, <1>3, <1>4 DEF BeginRequest
<1>5. CASE BeginReturns(r)
  <2>1. att'[r] = att[r] /\ io'[r] = "none" /\ ((pc'[r] = "ready" /\ io[r] = "ok") \/ pc'[r] = "done")
    BY <1>3, <1>5 DEF BeginReturns
  <2> QED BY <1>1, <1>2, <1>5, <2>1 DEF BeginReturns
<1>6. CASE Admit(r)
  BY <1>1, <1>2, <1>3, <1>6 DEF Admit
<1>7. CASE GiveUp(r)
  BY <1>1, <1>2, <1>3, <1>7 DEF GiveUp
<1>8. CASE ReserveReturns(r)
  <2>1. /\ att'[r] = att[r] /\ io'[r] = "none"
        /\ (pc'[r] = "reserved" /\ io[r] = "ok") \/ pc'[r] = "finalize"
    BY <1>3, <1>8 DEF ReserveReturns
  <2> QED BY <1>1, <1>2, <1>8, <2>1 DEF ReserveReturns
<1>9. CASE CommitPin(r)
  BY <1>1, <1>2, <1>3, <1>9 DEF CommitPin
<1>10. CASE StartReturns(r)
  BY <1>1, <1>2, <1>3, <1>10 DEF StartReturns
<1>11. CASE SettleUnserved(r)
  BY <1>1, <1>2, <1>3, <1>11 DEF SettleUnserved
<1>12. CASE CallProvider(r)
  BY <1>1, <1>2, <1>3, <1>12 DEF CallProvider
<1>13. CASE ProviderReturns(r)
  <2>1. att'[r] = att[r] /\ io'[r] = "none" /\ pc'[r] \in {"settle", "settleRetry"}
    BY <1>3, <1>13 DEF ProviderReturns
  <2> QED BY <1>1, <1>2, <1>13, <2>1 DEF ProviderReturns
<1>14. CASE SettleReturns(r)
  <2>1. /\ io'[r] = "none" /\ pc[r] \in {"settle", "settleRetry"}
        /\ \/ pc'[r] = "ready" /\ att'[r] = att[r] + 1 /\ att[r] < MaxAttempts
           \/ pc'[r] = "finalize" /\ att'[r] = att[r]
    BY <1>1, <1>3, <1>14 DEF SettleReturns
  <2>2. Attributed(st, r)
    BY <2>1
  <2>3. \A n \in 1..MaxAttempts : n > att[r] => st.lease[<<r, n>>] = "none"
    BY <2>1
  <2>4. MaxAttempts \in Nat
    BY MaxAttemptsAssumption
  <2>5. CASE pc'[r] = "ready" /\ att'[r] = att[r] + 1 /\ att[r] < MaxAttempts
    <3>1. att[r] + 1 \in 1..MaxAttempts /\ att[r] + 1 > att[r]
      BY <1>1, <2>4, <2>5
    <3>2. st'.lease[<<r, att'[r]>>] = "none"
      BY <1>1, <2>3, <2>5, <3>1
    <3>3. \A n \in 1..MaxAttempts : n > att'[r] => st'.lease[<<r, n>>] = "none"
      BY <1>1, <2>3, <2>5
    <3> QED BY <1>2, <2>1, <2>2, <2>5, <3>2, <3>3
  <2>6. CASE pc'[r] = "finalize" /\ att'[r] = att[r]
    BY <1>1, <1>2, <2>1, <2>2, <2>3, <2>6
  <2> QED BY <2>1, <2>5, <2>6
<1>15. CASE FinalizeReturns(r)
  BY <1>1, <1>2, <1>3, <1>15 DEF FinalizeReturns
<1> QED BY <1>4, <1>5, <1>6, <1>7, <1>8, <1>9, <1>10, <1>11, <1>12, <1>13, <1>14, <1>15
        DEF RequestStep

-----------------------------------------------------------------------------

\* A request moves on, and with it nothing but its own control state.
LEMMA ApplyRequest ==
  ASSUME TypeInv, ApplyInv, NEW r \in Requests, BeginRequest(r) \/ RequestStep(r)
  PROVE  ApplyInv'
<1> USE DEF ledgerVars, admissionVars, controlVars, worldVars
<1>1. PICK x : EntersFor(r, x)
  BY RequestEnters
<1>2. UNCHANGED <<log, st, applyErr, phase>>
  BY <1>1 DEF EntersFor
<1>3. /\ \A p \in Procs \ {r} : pc'[p] = pc[p] /\ io'[p] = io[p] /\ seq'[p] = seq[p]
      /\ pc'[r] = x /\ io'[r] = "none"
  BY <1>1, ProcsDistinct DEF EntersFor, Goto, TypeInv, TypeOK
<1>4. x # "idle"
  <2>1. \E y : y # "idle" /\ Goto(r, y)
    BY DEF BeginRequest, RequestStep, BeginReturns, Admit, GiveUp, ReserveReturns, CommitPin,
           StartReturns, SettleUnserved, CallProvider, ProviderReturns, SettleReturns,
           FinalizeReturns
  <2> QED BY <1>3, <2>1, ProcsDistinct DEF Goto, TypeInv, TypeOK
<1>5. IoOwned' /\ TurnsAhead'
  BY <1>2, <1>3 DEF ApplyInv, IoOwned, TurnsAhead
<1>6. ClosedRead'
  BY <1>2 DEF ApplyInv, ClosedRead
<1>7. OpenWhileClosing'
  BY <1>2, <1>3, ProcsDistinct DEF ApplyInv, OpenWhileClosing
<1>8. ASSUME NEW q \in Requests PROVE RequestReady(q)'
  <2>1. CASE q = r
    BY <2>1, ReadyMoves DEF ApplyInv
  <2>2. CASE q # r
    <3>1. pc'[q] = pc[q] /\ io'[q] = io[q] /\ att'[q] = att[q] /\ att[q] \in 1..MaxAttempts
      BY <1>3, <2>2, ProcsDistinct, RequestMoves DEF TypeInv, TypeOK
    <3>2. Attributed(st', q) <=> Attributed(st, q)
      BY <1>2
    <3> QED BY <1>2, <3>1, <3>2, ReadyStays DEF ApplyInv
  <2> QED BY <2>1, <2>2
<1>9. IdleUnlogged'
  BY <1>2, <1>3, <1>4, ProcsDistinct DEF ApplyInv, IdleUnlogged
<1>10. FailsAtStart'
  BY <1>2, <1>3, ProcsDistinct DEF ApplyInv, FailsAtStart
<1> QED BY <1>5, <1>6, <1>7, <1>8, <1>9, <1>10 DEF ApplyInv

\* A step that leaves the read model and every request alone, and takes an append no
\* further than its progress allows.
LEMMA ApplyCalm ==
  ASSUME TypeInv, ApplyInv, UNCHANGED <<log, st, att>>,
         \A r \in Requests :
           /\ pc'[r] = pc[r]
           /\ \/ io'[r] = io[r]
              \/ io[r] \in Unapplied /\ io'[r] \in Unapplied
              \/ io'[r] \notin Unapplied \cup {"confirm", "ok"}
              \/ io[r] = "confirm" /\ io'[r] = "ok",
         \A p \in Procs : io'[p] = "durable" => io[p] = "durable" /\ seq'[p] = seq[p]
  PROVE  /\ TurnsAhead' /\ ClosedRead' /\ IdleUnlogged'
         /\ \A r \in Requests : RequestReady(r)'
<1>1. TurnsAhead' /\ ClosedRead' /\ IdleUnlogged'
  BY DEF ApplyInv, TurnsAhead, ClosedRead, IdleUnlogged
<1>2. ASSUME NEW r \in Requests PROVE RequestReady(r)'
  <2>1. (Attributed(st', r) <=> Attributed(st, r)) /\ att[r] \in 1..MaxAttempts /\ att'[r] = att[r]
    BY DEF TypeInv, TypeOK
  <2> QED BY <2>1, ReadyStays DEF ApplyInv
<1> QED BY <1>1, <1>2

\* A record is handed to the writer.
LEMMA ApplyEnqueue ==
  ASSUME TypeInv, ApplyInv, NEW p \in Procs, NEW e, Enqueue(p, e)
  PROVE  ApplyInv'
<1> USE DEF ledgerVars, admissionVars, controlVars, worldVars
<1>1. UNCHANGED <<log, st, att, pc, seq, applyErr, phase>> /\ ~applyErr /\ io[p] = "none"
      /\ pc[p] \in Appending
  BY DEF Enqueue
<1>2. \A q \in Procs : io'[q] = IF q = p THEN "queued" ELSE io[q]
  BY DEF Enqueue, TypeInv, TypeOK
<1>3. /\ TurnsAhead' /\ ClosedRead' /\ IdleUnlogged'
      /\ \A r \in Requests : RequestReady(r)'
  <2>1. /\ \A r \in Requests : \/ io'[r] = io[r]
                               \/ io[r] \in Unapplied /\ io'[r] \in Unapplied
        /\ \A q \in Procs : io'[q] = "durable" => io[q] = "durable" /\ seq'[q] = seq[q]
    BY <1>1, <1>2, ProcsDistinct DEF Unapplied
  <2> QED BY <1>1, <2>1, ApplyCalm
<1>4. IoOwned' /\ OpenWhileClosing' /\ FailsAtStart'
  BY <1>1, <1>2, ProcsDistinct DEF ApplyInv, IoOwned, OpenWhileClosing, FailsAtStart, Unapplied
<1> QED BY <1>3, <1>4 DEF ApplyInv

\* The writer answers a batch.  Its records come after everything that was applied.
LEMMA ApplyWriter ==
  ASSUME TypeInv, QueueOwned, CloseInv, ApplyInv, [Next]_vars, Writer
  PROVE  ApplyInv'
<1> USE DEF ledgerVars, admissionVars, controlVars, worldVars
<1>1. PICK n \in BatchSizes : WriteBatch(n) \/ WriteFails(n) \/ DropBatch(n)
  BY DEF Writer
<1>2. UNCHANGED <<pc, st, att, applyErr, phase>>
  BY <1>1 DEF WriteBatch, WriteFails, DropBatch
<1>3. n \in 1..Len(queue) /\ Len(queue) \in Nat
  <2>1. queue' = SubSeq(queue, n + 1, Len(queue))
    BY <1>1 DEF WriteBatch, WriteFails, DropBatch
  <2> QED BY <2>1, QueueRest
<1>4. /\ Len(log) \in Nat /\ Len(log') \in Nat /\ Len(log) <= Len(log')
      /\ \A i \in 1..Len(log) : log'[i] = log[i]
  BY LogGrows
<1>5. \A p \in Procs : ~InBatch(n, p) => io'[p] = io[p] /\ seq'[p] = seq[p]
  BY <1>1 DEF WriteBatch, WriteFails, DropBatch
<1>6. ASSUME NEW p \in Procs, InBatch(n, p)
      PROVE  io[p] = "queued" /\ pc[p] \in Appending
  <2>1. PICK i \in 1..n : queue[i].proc = p
    BY <1>6 DEF InBatch
  <2>2. i \in 1..Len(queue)
    BY <1>3
  <2> QED BY <2>1, <2>2 DEF QueueOwned, CloseInv, OthersQueued, Procs, Appending
<1>7. ASSUME NEW p \in Procs, InBatch(n, p)
      PROVE  \/ io'[p] = "err"
             \/ io'[p] = "durable" /\ \E k \in 1..n : queue[k].proc = p /\ seq'[p] = Len(log) + k
  <2>1. CASE WriteBatch(n)
    <3>1. /\ io'[p] = "durable"
          /\ seq'[p] = Len(log) + CHOOSE i \in 1..n : queue[i].proc = p
      BY <1>7, <2>1 DEF WriteBatch
    <3>2. /\ (CHOOSE i \in 1..n : queue[i].proc = p) \in 1..n
          /\ queue[CHOOSE i \in 1..n : queue[i].proc = p].proc = p
      BY <1>7 DEF InBatch
    <3> QED BY <3>1, <3>2
  <2>2. CASE WriteFails(n) \/ DropBatch(n)
    BY <1>7, <2>2 DEF WriteFails, DropBatch
  <2> QED BY <1>1, <2>1, <2>2
<1>8. st.wm \in Nat /\ st.wm <= Len(log)
  BY DEF TypeInv, TypeOK, States, CloseInv, ClosesRead
<1>9. IoOwned'
  BY <1>2, <1>5, <1>6 DEF ApplyInv, IoOwned
<1>10. TurnsAhead'
  <2>1. ASSUME NEW p \in Procs, io'[p] = "durable"
        PROVE  \/ io[p] = "durable" /\ seq'[p] = seq[p] /\ seq[p] \in 1..Len(log)
               \/ \E k \in 1..n : queue[k].proc = p /\ seq'[p] = Len(log) + k
    BY <1>5, <1>7, <2>1 DEF TypeInv, DurableInLog
  <2>2. ASSUME NEW p \in Procs, io'[p] = "durable" PROVE seq'[p] > st'.wm
    BY <1>2, <1>3, <1>4, <1>8, <2>1, <2>2 DEF ApplyInv, TurnsAhead
  <2>3. ASSUME NEW p \in Procs, NEW q \in Procs, io'[p] = "durable", io'[q] = "durable",
               seq'[p] = seq'[q]
        PROVE  p = q
    <3>1. CASE seq'[p] \in 1..Len(log)
      <4>1. io[p] = "durable" /\ seq'[p] = seq[p] /\ io[q] = "durable" /\ seq'[q] = seq[q]
        BY <1>3, <1>4, <2>1, <2>3, <3>1
      <4> QED BY <2>3, <4>1 DEF ApplyInv, TurnsAhead
    <3>2. CASE seq'[p] \notin 1..Len(log)
      <4>1. PICK k \in 1..n : queue[k].proc = p /\ seq'[p] = Len(log) + k
        BY <2>1, <2>3, <3>2
      <4>2. PICK m \in 1..n : queue[m].proc = q /\ seq'[q] = Len(log) + m
        BY <2>1, <2>3, <3>2
      <4>3. k = m
        <5>1. Len(log) + k = Len(log) + m
          BY <2>3, <4>1, <4>2
        <5>2. k \in Nat /\ m \in Nat
          BY <1>3
        <5> QED BY <1>4, <5>1, <5>2
      <4> QED BY <4>1, <4>2, <4>3
    <3> QED BY <3>1, <3>2
  <2> QED BY <2>2, <2>3 DEF TurnsAhead
<1>11. ClosedRead'
  <2> SUFFICES ASSUME NEW u \in st.closed
               PROVE  \E i \in 1..Len(log') : i <= st.wm /\ log'[i].kind = "RunClosed" /\ log'[i].run = u
    BY <1>2 DEF ClosedRead
  <2>1. PICK i \in 1..Len(log) : i <= st.wm /\ log[i].kind = "RunClosed" /\ log[i].run = u
    BY DEF ApplyInv, ClosedRead
  <2>2. i \in 1..Len(log') /\ log'[i] = log[i]
    BY <1>4
  <2> QED BY <2>1, <2>2
<1>12. OpenWhileClosing'
  BY <1>2, <1>5, <1>6, ProcsDistinct DEF ApplyInv, OpenWhileClosing, Unapplied
<1>13. ASSUME NEW r \in Requests PROVE RequestReady(r)'
  <2>1. \/ io'[r] = io[r]
        \/ io[r] \in Unapplied /\ io'[r] \in Unapplied
        \/ io'[r] \notin Unapplied \cup {"confirm", "ok"}
    BY <1>5, <1>6, <1>7, ProcsDistinct DEF Unapplied
  <2>2. /\ pc'[r] = pc[r] /\ att'[r] = att[r] /\ att[r] \in 1..MaxAttempts
        /\ Attributed(st', r) <=> Attributed(st, r)
    BY <1>2 DEF TypeInv, TypeOK
  <2> QED BY <1>2, <2>1, <2>2, ReadyStays DEF ApplyInv
<1>14. IdleUnlogged'
  <2> SUFFICES ASSUME NEW r \in Requests, pc'[r] = "idle", NEW i \in 1..Len(log'),
                      log'[i].kind = "ReservationCreated", log'[i].att[1] = r
               PROVE  FALSE
    BY DEF IdleUnlogged
  <2>1. CASE i \in 1..Len(log)
    BY <1>2, <1>4, <2>1 DEF ApplyInv, IdleUnlogged
  <2>2. CASE i \notin 1..Len(log)
    <3>1. PICK m \in 1..n : log'[i] = queue[m].event
      BY <1>1, <2>2, LogWritten
    <3>2. m \in 1..Len(queue)
      BY <1>3
    <3>3. RequestOf(queue[m].event) = queue[m].proc /\ pc[queue[m].proc] \in {"begin", "reserve"}
      BY <3>1, <3>2, QueuedKind DEF CloseInv
    <3>4. RequestOf(queue[m].event) = r
      BY <3>1 DEF RequestOf
    <3> QED BY <1>2, <3>3, <3>4
  <2> QED BY <2>1, <2>2
<1>15. FailsAtStart'
  BY <1>2, <1>5, <1>6, ProcsDistinct DEF ApplyInv, FailsAtStart
<1> QED BY <1>9, <1>10, <1>11, <1>12, <1>13, <1>14, <1>15 DEF ApplyInv

\* A goroutine other than a request or a CloseRun call applies nothing but settlements,
\* before the process serves.
LEMMA RecoveryApplies ==
  ASSUME TypeInv, CloseInv, IoOwned, io[Recovery] = "durable"
  PROVE  /\ phase = "recovering" /\ pc[Recovery] = "recover"
         /\ seq[Recovery] \in 1..Len(log) /\ log[seq[Recovery]].kind = "AttemptSettled"
         /\ \A r \in Requests : pc[r] \in {"idle", "done"}
         /\ \A u \in Runs : pc[u] = "idle"
BY ProcsDistinct DEF CloseInv, OthersRecorded, OnlyServing, TypeInv, DurableInLog

\* The record of a request does what the request needs of it.
LEMMA ReadyApplied ==
  ASSUME TypeInv, NEW r \in Requests, RequestReady(r), io[r] = "durable", pc[r] \in Appending,
         NEW n \in Nat, st' = Apply(st, EventOf(r), n), pc'[r] = pc[r], att'[r] = att[r],
         io'[r] \in {"confirm", "ok"}
  PROVE  RequestReady(r)'
<1>1. st \in States /\ st.lease \in [Attempts -> LeaseStatus]
  BY DEF TypeInv, TypeOK, States
<1>2. pc[r] \in {"begin", "reserve", "start", "settle", "settleRetry", "finalize"}
  BY DEF TypeInv, TypeOK, RequestPoints, Appending
<1>3. Current(r) \in Attempts /\ bill[r] \in Nat /\ att[r] \in 1..MaxAttempts /\ Current(r) = <<r, att[r]>>
      /\ Current(r)' = Current(r) /\ MaxAttempts \in Nat
  BY CurrentType, MaxAttemptsAssumption DEF TypeInv, TypeOK, Current
<1>4. \A k \in 1..MaxAttempts : <<r, k>> \in Attempts /\ (k > att[r] => <<r, k>> # Current(r))
  BY <1>3 DEF Attempts
<1>5. Attributed(st, r)' <=> Attributed(st', r)
  BY DEF Attributed
<1> USE DEF RequestReady, RequestKnown, LeasesFresh, LeaseHeld, Unapplied
<1>6. CASE pc[r] = "begin"
  <2>1. EventOf(r) = RequestAccepted(r)
    BY <1>6 DEF EventOf
  <2>2. st'.lease = st.lease /\ Attributed(st', r)
    BY <1>1, <1>3, <2>1, ApplyAccepted
  <2> QED BY <1>3, <1>5, <1>6, <2>2
<1>7. CASE pc[r] = "reserve"
  <2>1. EventOf(r) = ReservationCreated(Current(r))
    BY <1>7 DEF EventOf
  <2>2. st'.lease = [st.lease EXCEPT ![Current(r)] = "held"] /\ st'.requestRuns = st.requestRuns
    BY <1>1, <1>3, <2>1, ApplyReserved
  <2>3. /\ st'.lease[Current(r)] = "held"
        /\ \A k \in 1..MaxAttempts : k > att[r] => st'.lease[<<r, k>>] = st.lease[<<r, k>>]
    BY <1>1, <1>3, <1>4, <2>2
  <2>4. Attributed(st', r)
    BY <1>7, <2>2 DEF Attributed
  <2> QED BY <1>3, <1>5, <1>7, <2>3, <2>4
<1>8. CASE pc[r] = "start"
  <2>1. EventOf(r) = AttemptStarted(Current(r))
    BY <1>8 DEF EventOf
  <2>2. st'.lease = [st.lease EXCEPT ![Current(r)] = "started"] /\ st'.requestRuns = st.requestRuns
    BY <1>1, <1>3, <2>1, ApplyStarted
  <2>3. /\ st'.lease[Current(r)] = "started"
        /\ \A k \in 1..MaxAttempts : k > att[r] => st'.lease[<<r, k>>] = st.lease[<<r, k>>]
    BY <1>1, <1>3, <1>4, <2>2
  <2>4. Attributed(st', r)
    BY <1>8, <2>2 DEF Attributed
  <2> QED BY <1>3, <1>5, <1>8, <2>3, <2>4
<1>9. CASE pc[r] \in {"settle", "settleRetry"}
  <2>1. EventOf(r) = AttemptSettled(Current(r), bill[r])
    BY <1>9 DEF EventOf
  <2>2. st'.lease = [st.lease EXCEPT ![Current(r)] = "none"] /\ st'.requestRuns = st.requestRuns
    BY <1>1, <1>3, <2>1, ApplySettled
  <2>3. \A k \in 1..MaxAttempts : k > att[r] => st'.lease[<<r, k>>] = st.lease[<<r, k>>]
    BY <1>1, <1>3, <1>4, <2>2
  <2>4. Attributed(st', r)
    BY <1>9, <2>2 DEF Attributed
  <2> QED BY <1>3, <1>5, <1>9, <2>3, <2>4
<1>10. CASE pc[r] = "finalize"
  <2>1. EventOf(r) = RequestFinalized(r)
    BY <1>10 DEF EventOf
  <2>2. st'.lease = st.lease
    BY <1>1, <1>3, <2>1, ApplyFinalized
  <2> QED BY <1>3, <1>5, <1>10, <2>2
<1> QED BY <1>2, <1>6, <1>7, <1>8, <1>9, <1>10

\* What a record of the log does to a request at rest: nothing it has to know of.
LEMMA RestApplied ==
  ASSUME TypeInv, IdleUnlogged, NEW r \in Requests, RequestReady(r), pc[r] \in {"idle", "done"},
         NEW n \in 1..Len(log), CanApply(st, log[n], n), st' = Apply(st, log[n], n),
         pc'[r] = pc[r], att'[r] = att[r]
  PROVE  RequestReady(r)'
<1>1. /\ st \in States /\ st.lease \in [Attempts -> LeaseStatus] /\ log[n] \in Events /\ n \in Nat
      /\ att[r] \in 1..MaxAttempts
  BY ElementOfSeq DEF TypeInv, TypeOK, States
<1>2. ASSUME pc[r] = "idle", NEW k \in 1..MaxAttempts, k >= att[r]
      PROVE  st'.lease[<<r, k>>] = "none"
  <2>1. st.lease[<<r, k>>] = "none" /\ <<r, k>> \in Attempts
    BY <1>1, <1>2 DEF RequestReady, LeasesFresh, Current, Attempts
  <2>2. CASE log[n].kind = "RunClosed" \/ RequestOf(log[n]) # r
    BY <1>1, <2>1, <2>2, ApplyOther
  <2>3. CASE log[n] \in RequestEvents
    <3>1. log[n].kind \in {"RequestAccepted", "RequestFinalized"}
      BY <2>3 DEF RequestEvents
    <3>2. st'.lease = st.lease
      BY <1>1, <3>1 DEF Apply, Effect, States
    <3> QED BY <2>1, <3>2
  <2>4. CASE log[n] \in LeaseEvents /\ RequestOf(log[n]) = r
    <3>1. log[n].kind \in {"ReservationCreated", "AttemptStarted"} /\ log[n].att[1] = r
      BY <2>4 DEF LeaseEvents, RequestOf
    <3>2. log[n].kind = "AttemptStarted"
      BY <1>2, <3>1 DEF IdleUnlogged
    <3>3. st.lease[log[n].att] = "held"
      BY <3>2 DEF CanApply, Accepts
    <3>4. log[n].att # <<r, k>>
      BY <2>1, <3>3
    <3>5. st'.lease = [st.lease EXCEPT ![log[n].att] = "started"]
      BY <1>1, <3>2 DEF Apply, Effect, States
    <3> QED BY <1>1, <2>1, <3>4, <3>5
  <2>5. CASE log[n] \in SettledEvents
    <3>1. log[n].kind = "AttemptSettled"
      BY <2>5 DEF SettledEvents
    <3>2. st'.lease = [st.lease EXCEPT ![log[n].att] = "none"]
      BY <1>1, <3>1 DEF Apply, Effect, ApplyAttemptSettled, States
    <3> QED BY <1>1, <2>1, <3>2
  <2>6. CASE log[n] \in RunEvents
    BY <2>2, <2>6 DEF RunEvents
  <2> QED BY <1>1, <2>2, <2>3, <2>4, <2>5, <2>6 DEF Events
<1>3. pc[r] = "idle" => \A k \in 1..MaxAttempts : k >= att[r] => st'.lease[<<r, k>>] = "none"
  BY <1>2
<1> QED BY <1>1, <1>3 DEF RequestReady, RequestKnown, LeasesFresh, LeaseHeld, Current

\* A record of the log is applied: what it closes is closed in the log.
LEMMA ClosedReadNext ==
  ASSUME TypeInv, ClosedRead, NEW n \in 1..Len(log), st.wm < n, st' = Apply(st, log[n], n),
         log' = log
  PROVE  ClosedRead' /\ st'.wm = n
<1>1. st \in States /\ log[n] \in Events /\ n \in Nat /\ st.wm \in Nat
  BY ElementOfSeq DEF TypeInv, TypeOK, States
<1>2. /\ st'.wm = n
      /\ st'.closed = IF log[n].kind = "RunClosed" THEN st.closed \cup {log[n].run} ELSE st.closed
  BY <1>1, ApplyClosed
<1>3. ASSUME NEW u \in st'.closed
      PROVE  \E i \in 1..Len(log) : i <= n /\ log[i].kind = "RunClosed" /\ log[i].run = u
  <2>1. CASE u \in st.closed
    <3>1. PICK i \in 1..Len(log) : i <= st.wm /\ log[i].kind = "RunClosed" /\ log[i].run = u
      BY <2>1 DEF ClosedRead
    <3>2. i <= n
      BY <1>1, <3>1
    <3> QED BY <3>1, <3>2
  <2>2. CASE u \notin st.closed
    BY <1>1, <1>2, <2>2
  <2> QED BY <2>1, <2>2
<1> QED BY <1>2, <1>3 DEF ClosedRead

\* Every record of a request names it.
LEMMA EventOfRequest ==
  ASSUME TypeInv, NEW r \in Requests, pc[r] \in Appending
  PROVE  RequestOf(EventOf(r)) = r
<1>1. pc[r] \in {"begin", "reserve", "start", "settle", "settleRetry", "finalize"}
  BY DEF TypeInv, TypeOK, RequestPoints, Appending
<1>2. CASE pc[r] = "begin"
  BY <1>2 DEF EventOf, RequestAccepted, RequestOf
<1>3. CASE pc[r] = "reserve"
  BY <1>3 DEF EventOf, ReservationCreated, RequestOf, Current
<1>4. CASE pc[r] = "start"
  BY <1>4 DEF EventOf, AttemptStarted, RequestOf, Current
<1>5. CASE pc[r] \in {"settle", "settleRetry"}
  BY <1>5 DEF EventOf, AttemptSettled, RequestOf, Current
<1>6. CASE pc[r] = "finalize"
  BY <1>6 DEF EventOf, RequestFinalized, RequestOf
<1> QED BY <1>1, <1>2, <1>3, <1>4, <1>5, <1>6

\* A goroutine applies its record, which nobody has applied before it.
LEMMA ApplyLive ==
  ASSUME TypeInv, RecordsLogged, Conservation, CloseInv, ApplyInv, NEW p \in Procs, ApplyRecord(p)
  PROVE  ApplyInv'
<1> USE DEF ledgerVars, admissionVars, controlVars, worldVars
<1>1. UNCHANGED <<log, pc, seq, att, phase>> /\ io[p] = "durable" /\ Turn(p) /\ ~applyErr
  BY DEF ApplyRecord
<1>2. PICK y \in {"confirm", "ok", "applyFailed"} : io' = [io EXCEPT ![p] = y]
  BY DEF ApplyRecord
<1>3. \A q \in Procs : io'[q] = IF q = p THEN y ELSE io[q]
  BY <1>2 DEF TypeInv, TypeOK
<1>4. IoOwned'
  BY <1>1, <1>3 DEF ApplyInv, IoOwned
<1>5. st.wm \in Nat /\ seq[p] \in 1..Len(log) /\ Len(log) \in Nat
  BY <1>1, LenProperties DEF TypeInv, TypeOK, States, DurableInLog
<1>6. ASSUME CanApply(st, log[seq[p]], seq[p])
      PROVE  /\ st' = Apply(st, log[seq[p]], seq[p]) /\ applyErr' = applyErr
             /\ y \in {"confirm", "ok"} /\ TurnsAhead' /\ ClosedRead'
  <2>1. /\ st' = Apply(st, log[seq[p]], seq[p]) /\ applyErr' = applyErr
        /\ \E z \in {"confirm", "ok"} : io' = [io EXCEPT ![p] = z]
    BY <1>6 DEF ApplyRecord
  <2>2. y \in {"confirm", "ok"}
    BY <1>3, <2>1 DEF TypeInv, TypeOK
  <2>3. st.wm < seq[p] /\ st.wm + 1 >= seq[p]
    BY <1>1, <1>5, <1>6 DEF CanApply, Turn
  <2>4. ClosedRead' /\ st'.wm = seq[p]
    BY <1>1, <1>5, <2>1, <2>3, ClosedReadNext DEF ApplyInv
  <2>5. ASSUME NEW q \in Procs, io'[q] = "durable" PROVE seq'[q] > st'.wm
    <3>1. q # p /\ io[q] = "durable" /\ seq'[q] = seq[q]
      BY <1>1, <1>3, <2>2, <2>5
    <3>2. seq[q] # seq[p] /\ seq[q] > st.wm
      BY <1>1, <3>1 DEF ApplyInv, TurnsAhead
    <3>3. seq[q] \in Nat
      BY DEF TypeInv, TypeOK
    <3> QED BY <1>5, <2>3, <2>4, <3>1, <3>2, <3>3
  <2>6. ASSUME NEW q \in Procs, NEW t \in Procs, io'[q] = "durable", io'[t] = "durable",
               seq'[q] = seq'[t]
        PROVE  q = t
    <3>1. io[q] = "durable" /\ io[t] = "durable" /\ seq[q] = seq[t]
      BY <1>1, <1>3, <2>2, <2>6
    <3> QED BY <3>1 DEF ApplyInv, TurnsAhead
  <2>7. TurnsAhead'
    BY <2>5, <2>6 DEF TurnsAhead
  <2> QED BY <2>1, <2>2, <2>4, <2>7
<1>7. IdleUnlogged'
  BY <1>1 DEF ApplyInv, IdleUnlogged
<1>8. CASE p \in Requests \cup Runs
  <2>1. /\ log[seq[p]] = EventOf(p) /\ pc[p] \in Appending
        /\ CanApply(st, log[seq[p]], seq[p])
    BY <1>1, <1>8, AcceptsLive
  <2>2. /\ st' = Apply(st, log[seq[p]], seq[p]) /\ applyErr' = applyErr
        /\ y \in {"confirm", "ok"} /\ TurnsAhead' /\ ClosedRead'
    BY <1>6, <2>1
  <2>3. st \in States /\ log[seq[p]] \in Events /\ seq[p] \in Nat
    BY <1>5, ElementOfSeq DEF TypeInv, TypeOK
  <2>4. FailsAtStart'
    BY <1>1, <2>2 DEF FailsAtStart
  <2>5. OpenWhileClosing'
    <3> SUFFICES ASSUME NEW u \in Runs, pc'[u] # "idle", io'[u] \in Unapplied
                 PROVE  u \notin st'.closed
      BY DEF OpenWhileClosing
    <3>1. u # p /\ io'[u] = io[u]
      BY <1>3, <2>2, ProcsDistinct DEF Unapplied
    <3>2. u \notin st.closed
      BY <1>1, <3>1 DEF ApplyInv, OpenWhileClosing
    <3>3. st'.closed = IF log[seq[p]].kind = "RunClosed" THEN st.closed \cup {log[seq[p]].run} ELSE st.closed
      BY <2>2, <2>3, ApplyClosed
    <3>4. log[seq[p]].kind = "RunClosed" => log[seq[p]].run = p
      <4>1. CASE p \in Requests
        BY <2>1, <4>1, EventOfKind
      <4>2. CASE p \in Runs
        <5>1. log[seq[p]] = RunClosed(p)
          BY <1>1, <4>2 DEF CloseInv, OthersRecorded
        <5> QED BY <5>1 DEF RunClosed
      <4> QED BY <1>8, <4>1, <4>2
    <3> QED BY <3>1, <3>2, <3>3, <3>4
  <2>6. ASSUME NEW r \in Requests PROVE RequestReady(r)'
    <3>1. CASE r = p
      BY <1>1, <1>3, <2>1, <2>2, <2>3, <3>1, ReadyApplied, ProcsDistinct DEF ApplyInv
    <3>2. CASE r # p
      <4>1. log[seq[p]].kind = "RunClosed" \/ RequestOf(log[seq[p]]) # r
        <5>1. CASE p \in Runs
          <6>1. log[seq[p]] = RunClosed(p)
            BY <1>1, <5>1 DEF CloseInv, OthersRecorded
          <6> QED BY <6>1 DEF RunClosed
        <5>2. CASE p \in Requests
          <6>1. RequestOf(EventOf(p)) = p
            BY <2>1, <5>2, EventOfRequest
          <6> QED BY <2>1, <3>2, <6>1
        <5> QED BY <1>8, <5>1, <5>2
      <4>2. /\ \A k \in 1..MaxAttempts : st'.lease[<<r, k>>] = st.lease[<<r, k>>]
            /\ Attributed(st', r) <=> Attributed(st, r)
        BY <2>2, <2>3, <4>1, ApplyOther
      <4>3. io'[r] = io[r] /\ pc'[r] = pc[r] /\ att'[r] = att[r] /\ att[r] \in 1..MaxAttempts
        BY <1>1, <1>3, <3>2, ProcsDistinct DEF TypeInv, TypeOK
      <4> QED BY <4>2, <4>3, ReadyStays DEF ApplyInv
    <3> QED BY <3>1, <3>2
  <2> QED BY <1>4, <1>7, <2>2, <2>4, <2>5, <2>6 DEF ApplyInv
<1>9. CASE p = Recovery
  <2>1. /\ phase = "recovering" /\ pc[Recovery] = "recover"
        /\ \A r \in Requests : pc[r] \in {"idle", "done"}
        /\ \A u \in Runs : pc[u] = "idle"
    BY <1>1, <1>9, RecoveryApplies DEF ApplyInv
  <2>2. OpenWhileClosing'
    BY <1>1, <2>1 DEF OpenWhileClosing
  <2>3. CASE CanApply(st, log[seq[p]], seq[p])
    <3>1. /\ st' = Apply(st, log[seq[p]], seq[p]) /\ applyErr' = applyErr
          /\ TurnsAhead' /\ ClosedRead'
      BY <1>6, <2>3
    <3>2. ASSUME NEW r \in Requests PROVE RequestReady(r)'
      BY <1>1, <1>5, <2>1, <2>3, <3>1, RestApplied DEF ApplyInv
    <3>3. FailsAtStart'
      BY <1>1, <3>1 DEF FailsAtStart
    <3> QED BY <1>4, <1>7, <2>2, <3>1, <3>2, <3>3 DEF ApplyInv
  <2>4. CASE ~CanApply(st, log[seq[p]], seq[p])
    <3>1. st' = st /\ io' = [io EXCEPT ![p] = "applyFailed"]
      BY <2>4 DEF ApplyRecord
    <3>2. io'[Recovery] = "applyFailed"
      BY <1>9, <3>1 DEF TypeInv, TypeOK
    <3>3. \A q \in Procs : io'[q] = "durable" => io[q] = "durable" /\ seq'[q] = seq[q]
      BY <1>1, <1>3
    <3>4. /\ TurnsAhead' /\ ClosedRead' /\ \A r \in Requests : RequestReady(r)'
      <4>1. \A r \in Requests : io'[r] = io[r]
        BY <1>3, <1>9, ProcsDistinct
      <4> QED BY <1>1, <3>1, <3>3, <4>1, ApplyCalm
    <3>5. FailsAtStart'
      BY <1>1, <2>1, <3>2 DEF FailsAtStart
    <3> QED BY <1>4, <1>7, <2>2, <3>4, <3>5 DEF ApplyInv
  <2> QED BY <2>3, <2>4
<1> QED BY <1>8, <1>9 DEF Procs

\* An append ends, or waits for its Replica, with what it wrote applied or not.
LEMMA ApplyReturns ==
  ASSUME TypeInv, CloseInv, ApplyInv, NEW p \in Procs,
         Refuse(p) \/ MarkUnavailable(p) \/ WaitConfirmed(p)
  PROVE  ApplyInv'
<1> USE DEF ledgerVars, admissionVars, controlVars, worldVars
<1>1. UNCHANGED <<log, st, applyErr, pc, seq, att, phase>>
  BY DEF Refuse, MarkUnavailable, WaitConfirmed
<1>2. PICK y \in {"ok", "err"} : /\ io' = [io EXCEPT ![p] = y]
                                 /\ io[p] = "confirm" \/ y = "err"
                                 /\ io[p] = "none" => pc[p] \in Appending
                                 /\ io[p] # "durable"
  BY DEF Refuse, MarkUnavailable, WaitConfirmed
<1>3. \A q \in Procs : io'[q] = IF q = p THEN y ELSE io[q]
  BY <1>2 DEF TypeInv, TypeOK
<1>4. IoOwned'
  BY <1>1, <1>2, <1>3 DEF ApplyInv, IoOwned
<1>5. /\ TurnsAhead' /\ ClosedRead' /\ IdleUnlogged'
      /\ \A r \in Requests : RequestReady(r)'
  <2>1. \A r \in Requests : \/ io'[r] = io[r]
                            \/ io'[r] \notin Unapplied \cup {"confirm", "ok"}
                            \/ io[r] = "confirm" /\ io'[r] = "ok"
    BY <1>2, <1>3, ProcsDistinct DEF Unapplied
  <2>2. \A q \in Procs : io'[q] = "durable" => io[q] = "durable" /\ seq'[q] = seq[q]
    BY <1>1, <1>3
  <2> QED BY <1>1, <2>1, <2>2, ApplyCalm
<1>6. OpenWhileClosing'
  BY <1>1, <1>3, ProcsDistinct DEF ApplyInv, OpenWhileClosing, Unapplied
<1>7. FailsAtStart'
  BY <1>1, <1>2, <1>3, ProcsDistinct DEF ApplyInv, FailsAtStart
<1> QED BY <1>4, <1>5, <1>6, <1>7 DEF ApplyInv

\* A CloseRun call moves on.  It starts only on a Run that is open.
LEMMA ApplyClose ==
  ASSUME TypeInv, CloseInv, ApplyInv, NEW u \in Runs,
         CloseRun(u) \/ CloseProceeds(u) \/ CloseReturns(u)
  PROVE  ApplyInv'
<1> USE DEF ledgerVars, admissionVars, controlVars, worldVars
<1>1. PICK x \in ClosePoints :
        Goto(u, x) /\ (x = "closing" => CloseRun(u)) /\ (x = "close" => CloseProceeds(u))
  BY DEF CloseRun, CloseProceeds, CloseReturns, ClosePoints
<1>2. UNCHANGED <<log, st, applyErr, att, phase>>
  BY DEF CloseRun, CloseProceeds, CloseReturns
<1>3. /\ \A p \in Procs \ {u} : pc'[p] = pc[p] /\ io'[p] = io[p] /\ seq'[p] = seq[p]
      /\ pc'[u] = x /\ io'[u] = "none"
  BY <1>1, ProcsDistinct DEF Goto, TypeInv, TypeOK
<1>4. IoOwned' /\ FailsAtStart'
  BY <1>2, <1>3, ProcsDistinct DEF ApplyInv, IoOwned, FailsAtStart
<1>5. /\ TurnsAhead' /\ ClosedRead' /\ IdleUnlogged'
      /\ \A r \in Requests : RequestReady(r)'
  <2>1. \A r \in Requests : pc'[r] = pc[r] /\ io'[r] = io[r]
    BY <1>3, ProcsDistinct
  <2>2. \A q \in Procs : io'[q] = "durable" => io[q] = "durable" /\ seq'[q] = seq[q]
    BY <1>3
  <2> QED BY <1>2, <2>1, <2>2, ApplyCalm
<1>6. OpenWhileClosing'
  <2>1. x = "closing" => u \notin st.closed
    BY <1>1 DEF CloseRun
  <2>2. x = "close" => u \notin st.closed
    <3>1. x = "close" => pc[u] = "closing"
      BY <1>1 DEF CloseProceeds
    <3>2. pc[u] = "closing" => io[u] = "none"
      BY ProcsDistinct DEF ApplyInv, IoOwned, Appending
    <3> QED BY <3>1, <3>2 DEF ApplyInv, OpenWhileClosing, Unapplied
  <2>3. x \in {"idle", "closing", "close"}
    BY DEF ClosePoints
  <2> QED BY <1>2, <1>3, <2>1, <2>2, <2>3, ProcsDistinct DEF ApplyInv, OpenWhileClosing
<1> QED BY <1>4, <1>5, <1>6 DEF ApplyInv

\* The startup goroutine moves on; it does not reach the point where the process serves
\* once a record could not be applied.
LEMMA ApplyStartup ==
  ASSUME TypeInv, CloseInv, ApplyInv, ReplayDone \/ RecoverReturns \/ RecoverDone
  PROVE  ApplyInv'
<1> USE DEF ledgerVars, admissionVars, controlVars, worldVars
<1>1. PICK x : Goto(Recovery, x)
  BY DEF ReplayDone, RecoverReturns, RecoverDone
<1>2. UNCHANGED <<log, st, applyErr, att>>
  BY DEF ReplayDone, RecoverReturns, RecoverDone
<1>3. /\ \A p \in Procs \ {Recovery} : pc'[p] = pc[p] /\ io'[p] = io[p] /\ seq'[p] = seq[p]
      /\ pc'[Recovery] = x /\ io'[Recovery] = "none"
  BY <1>1, ProcsDistinct DEF Goto, TypeInv, TypeOK
<1>4. IoOwned' /\ OpenWhileClosing'
  BY <1>2, <1>3, ProcsDistinct DEF ApplyInv, IoOwned, OpenWhileClosing
<1>5. /\ TurnsAhead' /\ ClosedRead' /\ IdleUnlogged'
      /\ \A r \in Requests : RequestReady(r)'
  <2>1. \A r \in Requests : pc'[r] = pc[r] /\ io'[r] = io[r]
    BY <1>3, ProcsDistinct
  <2>2. \A q \in Procs : io'[q] = "durable" => io[q] = "durable" /\ seq'[q] = seq[q]
    BY <1>3
  <2> QED BY <1>2, <2>1, <2>2, ApplyCalm
<1>6. FailsAtStart'
  <2>1. CASE ReplayDone
    BY <1>2, <2>1 DEF ReplayDone, ApplyInv, FailsAtStart
  <2>2. CASE RecoverReturns
    <3>1. phase = "recovering"
      BY <2>2 DEF RecoverReturns, CloseInv, OnlyServing
    <3> QED BY <1>2, <2>2, <3>1 DEF RecoverReturns, ApplyInv, FailsAtStart
  <2>3. CASE RecoverDone
    <3>1. phase = "recovering"
      BY <2>3 DEF RecoverDone, CloseInv, OnlyServing
    <3> QED BY <1>2, <2>3, <3>1 DEF RecoverDone, ApplyInv, FailsAtStart
  <2> QED BY <2>1, <2>2, <2>3
<1> QED BY <1>4, <1>5, <1>6 DEF ApplyInv

\* One record is replayed, while every goroutine is at rest.
LEMMA ApplyReplay ==
  ASSUME TypeInv, CloseInv, ApplyInv, Replay
  PROVE  ApplyInv'
<1> USE DEF ledgerVars, admissionVars, controlVars, worldVars
<1>1. /\ UNCHANGED <<log, applyErr, pc, io, seq, att>> /\ phase = "replaying"
      /\ phase' \in {"replaying", "failed"}
  BY DEF Replay
<1>2. /\ \A r \in Requests : pc[r] \in {"idle", "done"}
      /\ \A u \in Runs : pc[u] = "idle"
      /\ pc[Recovery] = "idle"
  BY <1>1 DEF CloseInv, OnlyServing, TypeInv, TypeOK
<1>3. \A p \in Procs : io[p] = "none"
  BY <1>2 DEF ApplyInv, IoOwned, Appending, Procs
<1>4. /\ IoOwned' /\ TurnsAhead' /\ OpenWhileClosing' /\ IdleUnlogged'
  BY <1>1, <1>2, <1>3 DEF ApplyInv, IoOwned, TurnsAhead, OpenWhileClosing, IdleUnlogged
<1>5. FailsAtStart'
  BY <1>1 DEF ApplyInv, FailsAtStart
<1>6. st.wm \in Nat /\ Len(log) \in Nat
  BY LenProperties DEF TypeInv, TypeOK, States
<1>7. st.wm + 1 \in 1..Len(log) /\ st.wm < st.wm + 1
  BY <1>6 DEF Replay
<1>8. \/ st' = st
      \/ CanApply(st, log[st.wm + 1], st.wm + 1) /\ st' = Apply(st, log[st.wm + 1], st.wm + 1)
  BY DEF Replay
<1>9. ClosedRead'
  <2>1. CASE st' = st
    BY <1>1, <2>1 DEF ApplyInv, ClosedRead
  <2>2. CASE st' = Apply(st, log[st.wm + 1], st.wm + 1)
    BY <1>1, <1>7, <2>2, ClosedReadNext DEF ApplyInv
  <2> QED BY <1>8, <2>1, <2>2
<1>10. ASSUME NEW r \in Requests PROVE RequestReady(r)'
  <2>1. CASE st' = st
    <3>1. (Attributed(st', r) <=> Attributed(st, r)) /\ att[r] \in 1..MaxAttempts
      BY <2>1 DEF TypeInv, TypeOK
    <3> QED BY <1>1, <2>1, <3>1, ReadyStays DEF ApplyInv
  <2>2. CASE CanApply(st, log[st.wm + 1], st.wm + 1) /\ st' = Apply(st, log[st.wm + 1], st.wm + 1)
    BY <1>1, <1>2, <1>7, <2>2, RestApplied DEF ApplyInv
  <2> QED BY <1>8, <2>1, <2>2
<1> QED BY <1>4, <1>5, <1>9, <1>10 DEF ApplyInv

\* A new process has a blank read model and nothing under way.
LEMMA ApplyCrash ==
  ASSUME TypeInv, ApplyInv, Crash
  PROVE  ApplyInv'
<1> USE DEF ledgerVars, admissionVars, controlVars, worldVars
<1>1. log' = log /\ att' = att /\ st' = NewState /\ applyErr' = FALSE
  BY DEF Crash
<1>2. /\ \A r \in Requests : pc'[r] \in {"idle", "done"} /\ (pc'[r] = "idle" => pc[r] = "idle")
      /\ \A u \in Runs : pc'[u] = "idle"
      /\ \A p \in Procs : io'[p] = "none"
  BY ProcsDistinct DEF Crash
<1>3. st'.closed = {} /\ \A a \in Attempts : st'.lease[a] = "none"
  BY <1>1 DEF NewState
<1>4. ASSUME NEW r \in Requests PROVE RequestReady(r)'
  <2>1. att'[r] \in 1..MaxAttempts /\ \A n \in 1..MaxAttempts : <<r, n>> \in Attempts
    BY <1>1 DEF TypeInv, TypeOK, Attempts
  <2>2. \A n \in 1..MaxAttempts : st'.lease[<<r, n>>] = "none"
    BY <1>3, <2>1
  <2> QED BY <1>2, <2>1, <2>2 DEF RequestReady, RequestKnown, LeasesFresh, LeaseHeld, Current
<1>5. IdleUnlogged'
  BY <1>1, <1>2 DEF ApplyInv, IdleUnlogged
<1> QED BY <1>1, <1>2, <1>3, <1>4, <1>5
        DEF ApplyInv, IoOwned, TurnsAhead, ClosedRead, OpenWhileClosing, FailsAtStart

\* A first process has nothing under way.
LEMMA ApplyInit == Init => ApplyInv
<1> SUFFICES ASSUME Init PROVE ApplyInv
  OBVIOUS
<1>1. log = <<>> /\ Len(log) = 0 /\ st = NewState /\ applyErr = FALSE
  BY DEF Init
<1>2. /\ \A r \in Requests : pc[r] = "idle" /\ att[r] = 1
      /\ \A u \in Runs : pc[u] = "idle"
      /\ \A p \in Procs : io[p] = "none"
  BY ProcsDistinct DEF Init
<1>3. st.closed = {} /\ \A a \in Attempts : st.lease[a] = "none"
  BY <1>1 DEF NewState
<1>4. ASSUME NEW r \in Requests PROVE RequestReady(r)
  <2>1. att[r] \in 1..MaxAttempts /\ \A n \in 1..MaxAttempts : <<r, n>> \in Attempts
    BY <1>2, MaxAttemptsAssumption DEF Attempts
  <2> QED BY <1>2, <1>3, <2>1, ReadyAtRest
<1> QED BY <1>1, <1>2, <1>3, <1>4
        DEF ApplyInv, IoOwned, TurnsAhead, ClosedRead, OpenWhileClosing, IdleUnlogged, FailsAtStart

\* Every step leaves what is durable fit to be applied.
LEMMA ApplyNext ==
  TypeInv /\ CallInv /\ Conservation /\ CloseInv /\ ApplyInv /\ [Next]_vars => ApplyInv'
<1> SUFFICES ASSUME TypeInv, CallInv, Conservation, CloseInv, ApplyInv, [Next]_vars
             PROVE  ApplyInv'
  OBVIOUS
<1> USE DEF ledgerVars, admissionVars, controlVars, worldVars
<1>1. CASE Writer
  BY <1>1, ApplyWriter DEF CallInv
<1>2. ASSUME NEW r \in Requests, BeginRequest(r) \/ RequestStep(r) PROVE ApplyInv'
  BY <1>2, ApplyRequest
<1>3. ASSUME NEW p \in Procs, AppendReturns(p) PROVE ApplyInv'
  BY <1>3, ApplyLive, ApplyReturns DEF AppendReturns, CallInv
<1>4. ASSUME NEW p \in Procs, NEW e, Enqueue(p, e) PROVE ApplyInv'
  BY <1>4, ApplyEnqueue
<1>5. ASSUME NEW u \in Runs, CloseRun(u) \/ CloseProceeds(u) \/ CloseReturns(u) PROVE ApplyInv'
  BY <1>5, ApplyClose
<1>6. CASE ReplayDone \/ RecoverReturns \/ RecoverDone
  BY <1>6, ApplyStartup
<1>7. CASE Replay
  BY <1>7, ApplyReplay
<1>8. CASE Crash
  BY <1>8, ApplyCrash
<1>9. ASSUME UNCHANGED <<log, st, applyErr, pc, io, seq, att, phase>> PROVE ApplyInv'
  <2>1. /\ TurnsAhead' /\ ClosedRead' /\ IdleUnlogged'
        /\ \A r \in Requests : RequestReady(r)'
    BY <1>9, ApplyCalm
  <2> QED BY <1>9, <2>1 DEF ApplyInv, IoOwned, OpenWhileClosing, FailsAtStart
<1>10. ASSUME NEW u \in Runs, Expire(u) PROVE ApplyInv'
  BY <1>9, <1>10 DEF Expire
<1>11. CASE Terminated \/ UNCHANGED vars
  BY <1>9, <1>11 DEF Terminated, vars
<1> QED BY <1>1, <1>2, <1>3, <1>4, <1>5, <1>6, <1>7, <1>8, <1>10, <1>11, ProcsDistinct
        DEF Next, AppendStep, CloseStep, Startup, RecoverLease

\* No interleaving of requests, closes, write failures and crashes makes the process write
\* a record it cannot apply: Manager.applyErr, which ends all accounting until a restart,
\* is met by the startup goroutine alone.
THEOREM LiveRecordsApply == Spec => []ApplyFailsOnlyAtStart
<1>1. ApplyInv => ApplyFailsOnlyAtStart
  BY DEF ApplyInv, FailsAtStart, ApplyFailsOnlyAtStart
<1> QED BY <1>1, TypeInit, TypeNext, CallInit, CallNext, CloseInit, CloseNext, AdmissionsHold,
           ConservationHolds, ApplyInit, ApplyNext, PTL
        DEF Spec
==============================================================================
