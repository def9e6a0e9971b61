----------------------------- MODULE Accounting ------------------------------
(***************************************************************************)
(* The gateway's accounting path: the request loop of                      *)
(* internal/gateway/service.go drives budget.Manager                       *)
(* (internal/budget/manager.go), which decides admission under the project *)
(* lock, appends to the ledger WAL (internal/ledger/log.go) and applies    *)
(* what became durable to ledger.State in sequence order.                  *)
(*                                                                         *)
(* Processes: one goroutine per request, one CloseRun call per Run, the    *)
(* WAL writer, and the startup goroutine that replays the log and resolves *)
(* the leases a crash left pending.  Every durable operation of a          *)
(* goroutine p is one call of Manager.appendApplyRecord; io[p] is where in *)
(* that call it is:                                                        *)
(*                                                                         *)
(*   none -> queued -> durable -> [confirm] -> ok | err                    *)
(*                                                                         *)
(* pc[p] says which operation it is, or where between operations p stands. *)
(***************************************************************************)
EXTENDS LedgerState, Sequences

CONSTANTS Budget,          \* DailyBudgetMicrosUSD; 0 is unlimited
          RunBudget,       \* BudgetMicrosUSD of each Run
          Bills,           \* costs a provider answer may settle at
          Confirming,      \* a Replica confirms reservations and starts (HA)
          CleanupExpires,  \* a settle or finalize can miss its cleanup deadline
          Expiring,        \* the Runs whose time can run out meanwhile
          MayWriteFail,    \* the WAL write, fsync or replication hook can fail
          MaxBatch,        \* most records of one WAL batch
          MaxCrashes       \* bound: process crashes

ASSUME BudgetAssumption == Budget \in Nat
ASSUME RunBudgetAssumption == RunBudget \in [Runs -> Nat \ {0}]
ASSUME BillsAssumption == Bills \subseteq Nat
ASSUME ExpiringAssumption == Expiring \subseteq Runs
ASSUME SwitchAssumption == {Confirming, CleanupExpires, MayWriteFail} \subseteq BOOLEAN
ASSUME BoundAssumption == MaxBatch \in Nat \ {0} /\ MaxCrashes \in Nat

VARIABLES
  log,           \* the records a scan of the WAL would return
  queue,         \* Log.appendQueue: the goroutines waiting for the writer
  status,        \* ledger.Status, which only ever latches upward
  st,            \* ledger.State
  applyErr,      \* Manager.applyErr is set
  pending,       \* projectAdmission.pending
  runPending,    \* projectAdmission.runPending
  runAdmissions, \* projectAdmission.runAdmissions
  pc, io, seq,   \* control point, append progress, sequence of the record
  att,           \* the attempt a request is at, 1..MaxAttempts
  bill,          \* the cost the request's attempt is being settled at
  called,        \* attempts the provider has received (outside the process)
  expired,       \* Runs whose ExpiresAt has passed
  phase,         \* replaying, recovering, serving, or failed to start
  crashes        \* crashes so far

ledgerVars    == <<log, queue, status>>
admissionVars == <<pending, runPending, runAdmissions>>
controlVars   == <<pc, io, seq, att, bill>>
worldVars     == <<called, expired>>
vars == <<ledgerVars, st, applyErr, admissionVars, controlVars, worldVars, phase, crashes>>

Recovery == "recovery"   \* the startup goroutine
Procs == Requests \cup Runs \cup {Recovery}
AppendRequests == [proc : Procs, event : Events]
ASSUME RecoveryAssumption == Recovery \notin Requests \cup Runs

-----------------------------------------------------------------------------
(* Control points.  The ones in Appending are a call of appendApplyRecord. *)

RequestPoints == {"idle", "begin", "ready", "reserve", "reserved", "start", "calling",
                  "called", "settle", "settleRetry", "finalize", "done"}
ClosePoints == {"idle", "closing", "close"}
Appending == {"begin", "reserve", "start", "settle", "settleRetry", "finalize",
              "close", "recover"}

\* Appends made with a cleanup context of their own, independent of the client.
Cleanup == {"settle", "settleRetry", "finalize"}

IoPoints == {"none", "queued", "durable", "applyFailed", "confirm", "ok", "err"}

Current(r) == <<r, att[r]>>

Init ==
  /\ log = <<>> /\ queue = <<>> /\ status = "healthy"
  /\ st = NewState /\ applyErr = FALSE
  /\ pending = 0
  /\ runPending = [u \in Runs |-> 0] /\ runAdmissions = [u \in Runs |-> 0]
  /\ pc = [p \in Procs |-> "idle"] /\ io = [p \in Procs |-> "none"]
  /\ seq = [p \in Procs |-> 0]
  /\ att = [r \in Requests |-> 1] /\ bill = [r \in Requests |-> 0]
  /\ called = {} /\ expired = {}
  /\ phase = "serving" /\ crashes = 0

-----------------------------------------------------------------------------
(* Manager.appendApplyRecord, for a goroutine p at an appending point *)

EventOf(p) ==
  CASE pc[p] = "begin"    -> RequestAccepted(p)
    [] pc[p] = "reserve"  -> ReservationCreated(Current(p))
    [] pc[p] = "start"    -> AttemptStarted(Current(p))
    [] pc[p] \in {"settle", "settleRetry"} -> AttemptSettled(Current(p), bill[p])
    [] pc[p] = "finalize" -> RequestFinalized(p)
    [] pc[p] = "close"    -> RunClosed(p)

\* The terminal apply error and the ledger's status are looked at, and the
\* record is handed to the writer.
Enqueue(p, e) ==
  /\ pc[p] \in Appending /\ io[p] = "none"
  /\ ~applyErr /\ status = "healthy"
  /\ queue' = Append(queue, [proc |-> p, event |-> e])
  /\ io' = [io EXCEPT ![p] = "queued"]
  /\ UNCHANGED <<log, status, st, applyErr, admissionVars, pc, seq, att, bill,
                 worldVars, phase, crashes>>

\* The append is refused with nothing queued: an earlier record could not be
\* applied, the ledger is not healthy, or the caller's context ended first.
Refuse(p) ==
  /\ pc[p] \in Appending /\ io[p] = "none"
  /\ \/ applyErr
     \/ status # "healthy"
     \/ pc[p] \in Appending \ (Cleanup \cup {"recover"})
     \/ pc[p] \in Cleanup /\ CleanupExpires
  /\ io' = [io EXCEPT ![p] = "err"]
  /\ UNCHANGED <<ledgerVars, st, applyErr, admissionVars, pc, seq, att, bill,
                 worldVars, phase, crashes>>

Batch(n) == [i \in 1..n |-> queue[i].event]
InBatch(n, p) == \E i \in 1..n : queue[i].proc = p

\* The writer makes a batch durable with one fsync and answers its callers.
WriteBatch(n) ==
  /\ status = "healthy"
  /\ log' = log \o Batch(n)
  /\ queue' = SubSeq(queue, n + 1, Len(queue))
  /\ seq' = [p \in Procs |-> IF InBatch(n, p)
                             THEN Len(log) + CHOOSE i \in 1..n : queue[i].proc = p
                             ELSE seq[p]]
  /\ io' = [p \in Procs |-> IF InBatch(n, p) THEN "durable" ELSE io[p]]
  /\ UNCHANGED <<status, st, applyErr, admissionVars, pc, att, bill, worldVars,
                 phase, crashes>>

\* The write, the fsync or the replication hook behind it fails.  The callers are
\* told so, and a prefix of the batch may be on disk all the same.
WriteFails(n) ==
  /\ MayWriteFail /\ status = "healthy"
  /\ \E k \in 0..n : log' = log \o Batch(k)
  /\ queue' = SubSeq(queue, n + 1, Len(queue))
  /\ status' = "unavailable"
  /\ io' = [p \in Procs |-> IF InBatch(n, p) THEN "err" ELSE io[p]]
  /\ UNCHANGED <<st, applyErr, admissionVars, pc, seq, att, bill, worldVars,
                 phase, crashes>>

\* An unhealthy ledger answers what is still queued without writing it.
DropBatch(n) ==
  /\ status # "healthy"
  /\ queue' = SubSeq(queue, n + 1, Len(queue))
  /\ io' = [p \in Procs |-> IF InBatch(n, p) THEN "err" ELSE io[p]]
  /\ UNCHANGED <<log, status, st, applyErr, admissionVars, pc, seq, att, bill,
                 worldVars, phase, crashes>>

BatchSizes == {n \in 1..MaxBatch : n <= Len(queue)}

Writer == \E n \in BatchSizes : WriteBatch(n) \/ WriteFails(n) \/ DropBatch(n)

\* Mutants: p does not wait for its turn; it waits for a record that is its own.
MutTurnNoWait(p) == TRUE
MutTurnLate(p)   == st.wm >= seq[p]

\* p waits until every earlier record has been applied.
Turn(p) == st.wm + 1 >= seq[p]

\* p applies its own record, and no later one can pass it.  A record that cannot be
\* applied is terminal.  (Goroutines waiting behind it would be let go with an error;
\* ApplyFailsOnlyAtStart says there are none.)
ApplyRecord(p) ==
  /\ io[p] = "durable" /\ ~applyErr /\ Turn(p)
  /\ LET e == log[seq[p]] IN
       \/ /\ CanApply(st, e, seq[p])
          /\ st' = Apply(st, e, seq[p])
          /\ io' = [io EXCEPT ![p] = IF Confirming /\ RequiresConfirmation(e)
                                     THEN "confirm" ELSE "ok"]
          /\ UNCHANGED applyErr
       \/ /\ ~CanApply(st, e, seq[p])
          /\ applyErr' = TRUE
          /\ io' = [io EXCEPT ![p] = "applyFailed"]
          /\ UNCHANGED st
  /\ UNCHANGED <<ledgerVars, admissionVars, pc, seq, att, bill, worldVars, phase, crashes>>

\* The ledger's own status follows the failed apply, after the lock is released.
MarkUnavailable(p) ==
  /\ io[p] = "applyFailed"
  /\ status' = "unavailable"
  /\ io' = [io EXCEPT ![p] = "err"]
  /\ UNCHANGED <<log, queue, st, applyErr, admissionVars, pc, seq, att, bill,
                 worldVars, phase, crashes>>

\* Log.WaitConfirmed: the Replica's acknowledgement arrives, or the wait ends
\* without it.  The record is applied either way.
WaitConfirmed(p) ==
  /\ io[p] = "confirm"
  /\ \E result \in {"ok", "err"} : io' = [io EXCEPT ![p] = result]
  /\ UNCHANGED <<ledgerVars, st, applyErr, admissionVars, pc, seq, att, bill,
                 worldVars, phase, crashes>>

AppendReturns(p) ==
  Refuse(p) \/ ApplyRecord(p) \/ MarkUnavailable(p) \/ WaitConfirmed(p)

AppendStep(p) == Enqueue(p, EventOf(p)) \/ AppendReturns(p)

-----------------------------------------------------------------------------
(* A request goroutine: beginRequestRun, startAttempt, finish, finalize *)

Goto(p, point) ==
  /\ pc' = [pc EXCEPT ![p] = point]
  /\ io' = [io EXCEPT ![p] = "none"]
  /\ seq' = [seq EXCEPT ![p] = 0]

\* The Runs a CloseRun call holds in projectAdmission.closingRuns; it holds the
\* write side of the lifecycle lock for as long.
closingRuns == {u \in Runs : pc[u] \in {"closing", "close"}}

\* Mutant: accepting a request takes no lifecycle lock.
MutReadLocked == FALSE

\* An attributed request holds the lifecycle read lock until its acceptance has
\* been appended and applied.
ReadLocked == \E r \in Requests : RunOf[r] # NoRun /\ pc[r] = "begin"

RunActive(u) == u \notin st.closed /\ u \notin expired

\* BeginRequestAttributed, up to the append.  A request that is turned away before
\* this point (Token Guard, limiter, hot state, an inactive Run) leaves no trace.
BeginRequest(r) ==
  /\ phase = "serving" /\ pc[r] = "idle"
  /\ RunOf[r] # NoRun => closingRuns = {} /\ RunActive(RunOf[r])
  /\ Goto(r, "begin")
  /\ UNCHANGED <<ledgerVars, st, applyErr, admissionVars, att, bill,
                 worldVars, phase, crashes>>

\* A request that could not be accepted is never finalized.
BeginReturns(r) ==
  /\ pc[r] = "begin" /\ io[r] \in {"ok", "err"}
  /\ Goto(r, IF io[r] = "ok" THEN "ready" ELSE "done")
  /\ UNCHANGED <<ledgerVars, st, applyErr, admissionVars, att, bill,
                 worldVars, phase, crashes>>

\* Mutants: a decision that does not see what other admissions were promised.
MutFitsProjectNoPending(a) == Budget > 0 => st.committed + st.reserved + Amount[a] <= Budget
MutFitsRunNoPending(a) ==
  LET u == RunOf[a[1]] IN
    u # NoRun => /\ u \notin closingRuns /\ RunActive(u)
                 /\ st.runCommitted[u] + st.runReserved[u] + Amount[a] <= RunBudget[u]

\* The project's decision: the visible balance, what other admissions have been
\* promised, and this reservation.
FitsProject(a) ==
  Budget > 0 => st.committed + st.reserved + pending + Amount[a] <= Budget

FitsRun(a) ==
  LET u == RunOf[a[1]] IN
    u # NoRun => /\ u \notin closingRuns
                 /\ RunActive(u)
                 /\ st.runCommitted[u] + st.runReserved[u] + runPending[u] + Amount[a]
                      <= RunBudget[u]

\* admitForRun, under the project lock, which is not held across the append.
Admit(r) ==
  /\ pc[r] = "ready"
  /\ FitsProject(Current(r)) /\ FitsRun(Current(r))
  /\ pending' = pending + Amount[Current(r)]
  /\ runPending' = AddRun(runPending, r, Amount[Current(r)])
  /\ runAdmissions' = AddRun(runAdmissions, r, 1)
  /\ Goto(r, "reserve")
  /\ UNCHANGED <<ledgerVars, st, applyErr, att, bill, worldVars, phase, crashes>>

\* The attempt is not admitted, or something before the reservation (the route
\* gate, the target's concurrency, pricing, Token Guard, the caller's context)
\* ends the request, which is then finalized.
GiveUp(r) ==
  /\ pc[r] = "ready"
  /\ Goto(r, "finalize")
  /\ UNCHANGED <<ledgerVars, st, applyErr, admissionVars, att, bill,
                 worldVars, phase, crashes>>

Less(m, n) == IF m > n THEN m - n ELSE 0
LessRun(f, r, n) == [u \in Runs |-> IF u = RunOf[r] THEN Less(f[u], n) ELSE f[u]]

\* Mutants: an admission is handed back only after a success; a Run's admission count
\* is never lowered.
MutReleaseOnSuccess(r) ==
  IF io[r] = "ok"
    THEN /\ pending' = Less(pending, Amount[Current(r)])
         /\ runPending' = LessRun(runPending, r, Amount[Current(r)])
         /\ runAdmissions' = LessRun(runAdmissions, r, 1)
    ELSE UNCHANGED admissionVars
MutReleaseKeepsCount(r) ==
  /\ pending' = Less(pending, Amount[Current(r)])
  /\ runPending' = LessRun(runPending, r, Amount[Current(r)])
  /\ UNCHANGED runAdmissions

\* releaseAdmittedForRun, deferred on every path out of reserveAttemptDetailed.
ReleaseAdmitted(r) ==
  /\ pending' = Less(pending, Amount[Current(r)])
  /\ runPending' = LessRun(runPending, r, Amount[Current(r)])
  /\ runAdmissions' = LessRun(runAdmissions, r, 1)

\* reserveAttemptDetailed returns.  After any error but a refused admission the
\* request is finalized, whether or not the reservation became durable.
ReserveReturns(r) ==
  /\ pc[r] = "reserve" /\ io[r] \in {"ok", "err"}
  /\ ReleaseAdmitted(r)
  /\ Goto(r, IF io[r] = "ok" THEN "reserved" ELSE "finalize")
  /\ UNCHANGED <<ledgerVars, st, applyErr, att, bill, worldVars, phase, crashes>>

\* Mutant: the lease of an attempt that was never served is forgotten.
MutSettleUnserved(r) ==
  /\ \/ pc[r] = "reserved"
     \/ pc[r] = "start" /\ io[r] = "err"
     \/ pc[r] = "calling"
  /\ bill' = [bill EXCEPT ![r] = 0]
  /\ Goto(r, "finalize")
  /\ UNCHANGED <<ledgerVars, st, applyErr, admissionVars, att, worldVars,
                 phase, crashes>>

\* The attempt ends without the provider having been called: the price pin does
\* not commit, the start is not recorded, or the request is aborted after it.
SettleUnserved(r) ==
  /\ \/ pc[r] = "reserved"
     \/ pc[r] = "start" /\ io[r] = "err"
     \/ pc[r] = "calling"
  /\ bill' = [bill EXCEPT ![r] = 0]
  /\ Goto(r, "settle")
  /\ UNCHANGED <<ledgerVars, st, applyErr, admissionVars, att, worldVars,
                 phase, crashes>>

\* Mutant: the provider is called without a durable start.
MutCommitPin(r) ==
  /\ pc[r] = "reserved"
  /\ Goto(r, "calling")
  /\ UNCHANGED <<ledgerVars, st, applyErr, admissionVars, att, bill,
                 worldVars, phase, crashes>>

\* CommitDeploymentPricePin succeeds and MarkStarted is called.
CommitPin(r) ==
  /\ pc[r] = "reserved"
  /\ Goto(r, "start")
  /\ UNCHANGED <<ledgerVars, st, applyErr, admissionVars, att, bill,
                 worldVars, phase, crashes>>

\* Mutant: a start whose confirmation failed is tried again.
MutStartReturns(r) ==
  /\ pc[r] = "start" /\ io[r] \in {"ok", "err"}
  /\ Goto(r, IF io[r] = "ok" THEN "calling" ELSE "start")
  /\ UNCHANGED <<ledgerVars, st, applyErr, admissionVars, att, bill,
                 worldVars, phase, crashes>>

StartReturns(r) ==
  /\ pc[r] = "start" /\ io[r] = "ok"
  /\ Goto(r, "calling")
  /\ UNCHANGED <<ledgerVars, st, applyErr, admissionVars, att, bill,
                 worldVars, phase, crashes>>

CallProvider(r) ==
  /\ pc[r] = "calling"
  /\ called' = called \cup {Current(r)}
  /\ Goto(r, "called")
  /\ UNCHANGED <<ledgerVars, st, applyErr, admissionVars, att, bill, expired,
                 phase, crashes>>

\* activeAttempt.finish: the provider answered, failed or timed out, and the
\* attempt is settled at the cost of what it reported.  walkOn decides whether
\* the loop goes on to another attempt afterwards.
ProviderReturns(r) ==
  /\ pc[r] = "called"
  /\ \E c \in Bills : bill' = [bill EXCEPT ![r] = c]
  /\ \E point \in {"settle", "settleRetry"} : Goto(r, point)
  /\ UNCHANGED <<ledgerVars, st, applyErr, admissionVars, att, worldVars,
                 phase, crashes>>

\* Mutant: the loop does not count its attempts.
MutSettleReturns(r) ==
  /\ pc[r] \in {"settle", "settleRetry"} /\ io[r] \in {"ok", "err"}
  /\ IF pc[r] = "settleRetry" /\ io[r] = "ok"
       THEN Goto(r, "ready") /\ att' = [att EXCEPT ![r] = @ + 1]
       ELSE Goto(r, "finalize") /\ UNCHANGED att
  /\ bill' = [bill EXCEPT ![r] = 0]
  /\ UNCHANGED <<ledgerVars, st, applyErr, admissionVars, worldVars, phase, crashes>>

\* A settlement that fails ends the request; so does the last attempt.
SettleReturns(r) ==
  /\ pc[r] \in {"settle", "settleRetry"} /\ io[r] \in {"ok", "err"}
  /\ IF pc[r] = "settleRetry" /\ io[r] = "ok" /\ att[r] < MaxAttempts
       THEN Goto(r, "ready") /\ att' = [att EXCEPT ![r] = @ + 1]
       ELSE Goto(r, "finalize") /\ UNCHANGED att
  /\ bill' = [bill EXCEPT ![r] = 0]
  /\ UNCHANGED <<ledgerVars, st, applyErr, admissionVars, worldVars, phase, crashes>>

FinalizeReturns(r) ==
  /\ pc[r] = "finalize" /\ io[r] \in {"ok", "err"}
  /\ Goto(r, "done")
  /\ UNCHANGED <<ledgerVars, st, applyErr, admissionVars, att, bill,
                 worldVars, phase, crashes>>

RequestStep(r) ==
  \/ BeginReturns(r) \/ Admit(r) \/ GiveUp(r) \/ ReserveReturns(r) \/ CommitPin(r)
  \/ StartReturns(r) \/ SettleUnserved(r) \/ CallProvider(r) \/ ProviderReturns(r)
  \/ SettleReturns(r) \/ FinalizeReturns(r)

-----------------------------------------------------------------------------
(* CloseRun, one call at a time for each Run *)

\* beginRunClose: the call has the write side of the lifecycle lock, and later
\* admissions see closingRuns.
CloseRun(u) ==
  /\ phase = "serving" /\ pc[u] = "idle"
  /\ ~ReadLocked /\ closingRuns = {} /\ u \notin st.closed
  /\ Goto(u, "closing")
  /\ UNCHANGED <<ledgerVars, st, applyErr, admissionVars, att, bill,
                 worldVars, phase, crashes>>

\* Mutant: the close does not wait for the admissions before it.
MutCloseProceeds(u) ==
  /\ pc[u] = "closing"
  /\ Goto(u, "close")
  /\ UNCHANGED <<ledgerVars, st, applyErr, admissionVars, att, bill,
                 worldVars, phase, crashes>>

\* An admission that was there first may still make its reservation durable.
CloseProceeds(u) ==
  /\ pc[u] = "closing" /\ runAdmissions[u] = 0
  /\ Goto(u, "close")
  /\ UNCHANGED <<ledgerVars, st, applyErr, admissionVars, att, bill,
                 worldVars, phase, crashes>>

CloseReturns(u) ==
  /\ pc[u] = "close" /\ io[u] \in {"ok", "err"}
  /\ Goto(u, "idle")
  /\ UNCHANGED <<ledgerVars, st, applyErr, admissionVars, att, bill,
                 worldVars, phase, crashes>>

CloseStep(u) == CloseProceeds(u) \/ CloseReturns(u) \/ AppendStep(u)

\* The Run's ExpiresAt passes.
Expire(u) ==
  /\ u \in Expiring \ expired
  /\ expired' = expired \cup {u}
  /\ UNCHANGED <<ledgerVars, st, applyErr, admissionVars, controlVars, called,
                 phase, crashes>>

-----------------------------------------------------------------------------
(* Crash and startup: openAccountingState, then RecoverPendingLeases *)

\* What was in memory is gone; the new process opens the WAL afresh.
Crash ==
  /\ crashes < MaxCrashes
  /\ crashes' = crashes + 1
  /\ phase' = "replaying"
  /\ queue' = <<>> /\ status' = "healthy" /\ st' = NewState /\ applyErr' = FALSE
  /\ pending' = 0
  /\ runPending' = [u \in Runs |-> 0] /\ runAdmissions' = [u \in Runs |-> 0]
  /\ pc' = [p \in Procs |-> IF p \in Requests /\ pc[p] # "idle" THEN "done" ELSE "idle"]
  /\ io' = [p \in Procs |-> "none"] /\ seq' = [p \in Procs |-> 0]
  /\ bill' = [r \in Requests |-> 0]
  /\ UNCHANGED <<log, att, worldVars>>

\* One record of the replay, in log order.
Replay ==
  /\ phase = "replaying" /\ st.wm < Len(log)
  /\ LET e == log[st.wm + 1] IN
       \/ CanApply(st, e, st.wm + 1) /\ st' = Apply(st, e, st.wm + 1) /\ UNCHANGED phase
       \/ ~CanApply(st, e, st.wm + 1) /\ phase' = "failed" /\ UNCHANGED st
  /\ UNCHANGED <<ledgerVars, applyErr, admissionVars, controlVars, worldVars, crashes>>

ReplayDone ==
  /\ phase = "replaying" /\ st.wm = Len(log)
  /\ phase' = "recovering"
  /\ Goto(Recovery, "recover")
  /\ UNCHANGED <<ledgerVars, st, applyErr, admissionVars, att, bill, worldVars, crashes>>

\* A lease that never started is released; one that did is settled at the cost
\* of the tokens it was prepared for.
RecoveryEvent(a) ==
  AttemptSettled(a, IF st.lease[a] = "started" THEN Prepared[a] ELSE 0)

RecoverLease == \E a \in PendingLeases(st) : Enqueue(Recovery, RecoveryEvent(a))

\* One lease is resolved; an error ends the startup.
RecoverReturns ==
  /\ pc[Recovery] = "recover" /\ io[Recovery] \in {"ok", "err"}
  /\ phase' = IF io[Recovery] = "ok" THEN phase ELSE "failed"
  /\ Goto(Recovery, IF io[Recovery] = "ok" THEN "recover" ELSE "idle")
  /\ UNCHANGED <<ledgerVars, st, applyErr, admissionVars, att, bill, worldVars, crashes>>

\* Mutant: leases that had started are left for later.
MutRecoverDone ==
  /\ pc[Recovery] = "recover" /\ io[Recovery] = "none"
  /\ \A a \in PendingLeases(st) : st.lease[a] = "started"
  /\ phase' = "serving"
  /\ Goto(Recovery, "idle")
  /\ UNCHANGED <<ledgerVars, st, applyErr, admissionVars, att, bill, worldVars, crashes>>

\* The listeners open.
RecoverDone ==
  /\ pc[Recovery] = "recover" /\ io[Recovery] = "none" /\ PendingLeases(st) = {}
  /\ phase' = "serving"
  /\ Goto(Recovery, "idle")
  /\ UNCHANGED <<ledgerVars, st, applyErr, admissionVars, att, bill, worldVars, crashes>>

Startup ==
  Replay \/ ReplayDone \/ RecoverLease \/ AppendReturns(Recovery)
         \/ RecoverReturns \/ RecoverDone

\* Every request that came has ended and nobody is closing a Run, or the process could not
\* start.
Terminated ==
  /\ \/ phase = "failed"
     \/ phase = "serving" /\ closingRuns = {}
        /\ \A r \in Requests : pc[r] \in {"idle", "done"}
  /\ UNCHANGED vars

Next ==
  \/ Writer
  \/ \E r \in Requests : BeginRequest(r) \/ RequestStep(r) \/ AppendStep(r)
  \/ \E u \in Runs : CloseRun(u) \/ CloseStep(u) \/ Expire(u)
  \/ Startup
  \/ Crash
  \/ Terminated

\* Goroutines and the writer are scheduled; a provider call and a wait for a
\* Replica end by their own deadlines.  Nothing obliges a client to send a
\* request, an operator to close a Run, or a process to crash.
Fairness ==
  /\ WF_vars(Writer)
  /\ \A r \in Requests : WF_vars(RequestStep(r) \/ AppendStep(r))
  /\ \A u \in Runs : WF_vars(CloseStep(u))
  /\ WF_vars(Startup)

Spec == Init /\ [][Next]_vars
FairSpec == Spec /\ Fairness

-----------------------------------------------------------------------------
(* Properties *)

\* Every variable keeps the shape of the structure it models.
TypeOK ==
  /\ log \in Seq(Events)
  /\ queue \in Seq(AppendRequests)
  /\ status \in {"healthy", "unavailable"}
  /\ st \in States
  /\ applyErr \in BOOLEAN
  /\ pending \in Nat
  /\ runPending \in [Runs -> Nat] /\ runAdmissions \in [Runs -> Nat]
  /\ pc \in [Procs -> RequestPoints \cup ClosePoints \cup {"recover"}]
  /\ \A r \in Requests : pc[r] \in RequestPoints
  /\ \A u \in Runs : pc[u] \in ClosePoints
  /\ pc[Recovery] \in {"idle", "recover"}
  /\ io \in [Procs -> IoPoints]
  /\ seq \in [Procs -> Nat]
  /\ att \in [Requests -> 1..MaxAttempts]
  /\ bill \in [Requests -> Nat]
  /\ called \subseteq Attempts /\ expired \subseteq Runs
  /\ phase \in {"replaying", "recovering", "serving", "failed"}
  /\ crashes \in Nat

\* What the durable log says of an attempt.
Reserved(a) == \E i \in DOMAIN log : log[i] = ReservationCreated(a)
Started(a)  == \E i \in DOMAIN log : log[i] = AttemptStarted(a)
SettlesAt(a, i) == log[i].kind = "AttemptSettled" /\ log[i].att = a
Settled(a)  == \E i \in DOMAIN log : SettlesAt(a, i)

LoggedCost == [a \in Attempts |-> IF Settled(a)
                                  THEN log[CHOOSE i \in DOMAIN log : SettlesAt(a, i)].cost
                                  ELSE 0]
Overrun == [a \in Attempts |-> Less(LoggedCost[a], Amount[a])]
OpenInLog == {a \in Attempts : Reserved(a) /\ ~Settled(a)}

\* Attempts admitted by a call that has not returned, and the ones among them
\* whose record can still reach the log.
Admitted == {Current(r) : r \in {q \in Requests : pc[q] = "reserve"}}
Promised == IF status = "healthy" /\ ~applyErr THEN Admitted ELSE {}

Exposure(S) == Total(LoggedCost, S) + Total(Amount, (OpenInLog \cup Promised) \cap S)

\* The durable log never commits the project to more than its daily budget, beyond
\* what providers billed over the reserved amount (settle deliberately does not
\* bound that): not through admissions racing each other's appends, not through a
\* batch that failed and reached the disk anyway, not across a crash.
BudgetCeiling ==
  Budget > 0 => Exposure(Attempts) <= Budget + Total(Overrun, Attempts)

\* The same of each Run's lifetime budget.
RunBudgetCeiling ==
  \A u \in Runs : Exposure(RunAttempts(u)) <= RunBudget[u] + Total(Overrun, RunAttempts(u))

\* Money is never minted or lost between the balance and the leases it stands for:
\* what State.Apply holds reserved is exactly the pending leases' amounts, for the
\* project and for every Run, at every record, however appends, failures, crashes and
\* replays interleave.
Conservation == Conserves(st)

\* What a replay of the log has come to behind record i.
Replayed[i \in 0 .. st.wm] == IF i = 0 THEN NewState ELSE Apply(Replayed[i - 1], log[i], i)

\* ledger.State is what a replay of the log up to its watermark gives: records were
\* applied in log order, each once, by whichever goroutine appended them.
StateIsReplay == st = Replayed[st.wm]

\* projectAdmission counts each admission until its append returned, on every path
\* out of reserveAttemptDetailed, and nothing else: no headroom leaks.
AdmissionsCounted ==
  /\ pending = Total(Amount, Admitted)
  /\ \A u \in Runs : /\ runPending[u] = Total(Amount, Admitted \cap RunAttempts(u))
                     /\ runAdmissions[u] = Cardinality(Admitted \cap RunAttempts(u))

\* No provider receives a request the ledger would not know of after a crash: its
\* reservation and its start are both in the durable log, in that order.
ProviderCallBacked ==
  \A a \in called : \E i, j \in DOMAIN log :
    i < j /\ log[i] = ReservationCreated(a) /\ log[j] = AttemptStarted(a)

\* Once a Run's close is in the log nothing more is accepted or reserved for it: the
\* close and the admissions agree on one order although the lock that decides it
\* is released before either is written.
NothingAfterClose ==
  \A i, j \in DOMAIN log :
    /\ i < j /\ log[i].kind = "RunClosed"
    /\ log[j].kind \in {"RequestAccepted", "ReservationCreated"}
    => RunOf[RequestOf(log[j])] # log[i].run

\* Nothing a provider received goes uncharged: once the request is over and the
\* gateway is serving, the log holds exactly one settlement of the attempt, crashes
\* in between included.
CalledIsSettled ==
  phase = "serving" /\ status = "healthy" =>
    \A a \in called : pc[a[1]] = "done" =>
      Cardinality({i \in DOMAIN log : SettlesAt(a, i)}) = 1

\* RecoverPendingLeases resolves every durable lease before the listeners open, so
\* a start never fails on what an earlier process left in the log: only on a WAL
\* that cannot be written.
RestartSucceeds == phase = "failed" => status = "unavailable" /\ ~applyErr

\* The request was finalized with the attempt's lease open: a Replica wait, a settlement's
\* cleanup deadline or a failed batch reported an error for what the log holds.
Leaked(a) ==
  \E i, j \in DOMAIN log :
    /\ i < j /\ log[i] = ReservationCreated(a) /\ log[j] = RequestFinalized(a[1])
    /\ ~\E k \in i .. j : SettlesAt(a, k)

\* Whatever fails, the one thing a process can leave in the log that no start gets past is
\* the leaked lease of a request on a Run; leases leaked without one are all resolved.
OnlyRunLeaksBlockStart ==
  ~RestartSucceeds => \E a \in Attempts : RunOf[a[1]] # NoRun /\ Leaked(a)

\* No interleaving of live requests, closes and failures writes a record that cannot
\* be applied: the terminal apply error is met by the startup goroutine alone, which
\* nobody waits behind.
ApplyFailsOnlyAtStart == applyErr => phase \in {"recovering", "failed"}

\* Every request that was accepted ends, and so does every CloseRun that waits for
\* the admissions before it: nobody waits for ever on the sequence order, the
\* writer, the project lock or each other.
RequestsEnd == \A r \in Requests : (pc[r] = "begin") ~> (pc[r] = "done")
ClosesEnd == \A u \in Runs : (pc[u] = "closing") ~> (pc[u] = "idle")

\* While the ledger is healthy every lease the gateway opens is resolved in the end.
LeasesResolve ==
  \A a \in Attempts : (st.lease[a] # "none") ~> (st.lease[a] = "none" \/ status # "healthy")
=============================================================================
