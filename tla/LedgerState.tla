----------------------------- MODULE LedgerState -----------------------------
(***************************************************************************)
(* The accounting read model of internal/ledger/event.go: what one durable *)
(* WAL record does to ledger.State, and when State.Apply refuses it.       *)
(*                                                                         *)
(* One project and one accounting period, so one ledger.Balance.  A        *)
(* request is attributed to a Run (RunOf[r] \in Runs) or to none.  The     *)
(* n-th attempt of request r is <<r, n>>; Prepared[a] is the cost its      *)
(* frozen price gives the tokens it was prepared for.                      *)
(***************************************************************************)
EXTENDS Naturals, FiniteSets

CONSTANTS Requests,     \* request ids
          Runs,         \* governance Run ids
          NoRun,        \* the attribution of a request that names no Run
          RunOf,        \* the Run each request is attributed to, or NoRun
          MaxAttempts,  \* bound: attempts the gateway loop makes for a request
          Prepared      \* prepared cost of each attempt, in micro-dollars

Attempts == Requests \X (1..MaxAttempts)

ASSUME NoRunAssumption == NoRun \notin Runs
ASSUME RunOfAssumption == RunOf \in [Requests -> Runs \cup {NoRun}]
ASSUME PreparedAssumption == Prepared \in [Attempts -> Nat]
ASSUME MaxAttemptsAssumption == MaxAttempts \in Nat \ {0}
ASSUME RequestsAssumption == IsFiniteSet(Requests)
\* Request ids and Run ids carry different prefixes (req_, run_).
ASSUME IdsAssumption == Requests \cap Runs = {}

\* A metered lease reserves its prepared cost, and at least one micro-dollar.
Amount == [a \in Attempts |-> IF Prepared[a] = 0 THEN 1 ELSE Prepared[a]]

RunAttempts(u) == {a \in Attempts : RunOf[a[1]] = u}

(***************************************************************************)
(* Total(f, S) is the sum of f[a] for a in S, written as the cardinality   *)
(* of a disjoint union so that it needs no recursion.                      *)
(***************************************************************************)
Units(f, S) == UNION {{a} \X (1..f[a]) : a \in S}
Total(f, S) == Cardinality(Units(f, S))

-----------------------------------------------------------------------------
(* WAL records.  Each kind carries only what Apply reads of it. *)

RequestAccepted(r)     == [kind |-> "RequestAccepted", req |-> r]
ReservationCreated(a)  == [kind |-> "ReservationCreated", att |-> a]
AttemptStarted(a)      == [kind |-> "AttemptStarted", att |-> a]
AttemptSettled(a, c)   == [kind |-> "AttemptSettled", att |-> a, cost |-> c]
RequestFinalized(r)    == [kind |-> "RequestFinalized", req |-> r]
RunClosed(u)           == [kind |-> "RunClosed", run |-> u]

RequestEvents == [kind : {"RequestAccepted", "RequestFinalized"}, req : Requests]
LeaseEvents   == [kind : {"ReservationCreated", "AttemptStarted"}, att : Attempts]
SettledEvents == [kind : {"AttemptSettled"}, att : Attempts, cost : Nat]
RunEvents     == [kind : {"RunClosed"}, run : Runs]
Events == RequestEvents \cup LeaseEvents \cup SettledEvents \cup RunEvents

\* The request of an event that belongs to one.
RequestOf(e) == IF e.kind \in {"RequestAccepted", "RequestFinalized"} THEN e.req ELSE e.att[1]

\* Only these two wait for a Replica before the caller may go on.
RequiresConfirmation(e) == e.kind \in {"ReservationCreated", "AttemptStarted"}

-----------------------------------------------------------------------------
(* ledger.State *)

LeaseStatus == {"none", "held", "started"}

States ==
  [wm           : Nat,                        \* Watermark.Sequence
   lease        : [Attempts -> LeaseStatus],  \* reservations, with Started
   requestRuns  : SUBSET Requests,            \* attributed and not finalized
   closed       : SUBSET Runs,                \* runs with Status = closed
   reserved     : Nat,                        \* Balance.ReservedMicrosUSD
   committed    : Nat,                        \* Balance.CommittedMicrosUSD
   runReserved  : [Runs -> Nat],
   runCommitted : [Runs -> Nat]]

\* The state the replay starts from: every Run already created and active.
NewState ==
  [wm           |-> 0,
   lease        |-> [a \in Attempts |-> "none"],
   requestRuns  |-> {},
   closed       |-> {},
   reserved     |-> 0,
   committed    |-> 0,
   runReserved  |-> [u \in Runs |-> 0],
   runCommitted |-> [u \in Runs |-> 0]]

PendingLeases(s) == {a \in Attempts : s.lease[a] # "none"}

\* Every event of an attributed request after its acceptance needs the request
\* to be accepted and not yet finalized.
Attributed(s, r) == RunOf[r] = NoRun \/ r \in s.requestRuns

\* The read model holds what the record is about in the state it asks for.
Accepts(s, e) ==
  CASE e.kind = "RequestAccepted"    -> RunOf[e.req] = NoRun \/ RunOf[e.req] \notin s.closed
    [] e.kind = "ReservationCreated" -> Attributed(s, e.att[1]) /\ s.lease[e.att] = "none"
    [] e.kind = "AttemptStarted"     -> Attributed(s, e.att[1]) /\ s.lease[e.att] = "held"
    [] e.kind = "AttemptSettled"     ->
         /\ Attributed(s, e.att[1])
         /\ s.lease[e.att] # "none"
         /\ s.reserved >= Amount[e.att]
         /\ RunOf[e.att[1]] # NoRun => s.runReserved[RunOf[e.att[1]]] >= Amount[e.att]
    [] e.kind = "RequestFinalized"   -> Attributed(s, e.req)
    [] e.kind = "RunClosed"          -> e.run \notin s.closed

\* State.Apply takes record n of the log.  It insists on a record after its watermark,
\* not on the very next one: that order is its callers' business.
CanApply(s, e, n) == n > s.wm /\ Accepts(s, e)

AddRun(f, r, n) == [u \in Runs |-> IF u = RunOf[r] THEN f[u] + n ELSE f[u]]
SubRun(f, r, n) == [u \in Runs |-> IF u = RunOf[r] THEN f[u] - n ELSE f[u]]

ApplyReservationCreated(s, e) ==
  [s EXCEPT !.lease[e.att] = "held",
            !.reserved     = @ + Amount[e.att],
            !.runReserved  = AddRun(@, e.att[1], Amount[e.att])]

\* Mutant: only what was settled is handed back.
MutApplyAttemptSettled(s, e) ==
  LET back == IF e.cost < Amount[e.att] THEN e.cost ELSE Amount[e.att] IN
  [s EXCEPT !.lease[e.att] = "none",
            !.reserved     = @ - back,
            !.committed    = @ + e.cost,
            !.runReserved  = SubRun(@, e.att[1], back),
            !.runCommitted = AddRun(@, e.att[1], e.cost)]

\* The reservation is handed back whole and the settled cost is committed,
\* whatever their order: a settlement may exceed its reservation.
ApplyAttemptSettled(s, e) ==
  [s EXCEPT !.lease[e.att] = "none",
            !.reserved     = @ - Amount[e.att],
            !.committed    = @ + e.cost,
            !.runReserved  = SubRun(@, e.att[1], Amount[e.att]),
            !.runCommitted = AddRun(@, e.att[1], e.cost)]

\* The effect of a record State.Apply takes, apart from the watermark.
Effect(s, e) ==
  CASE e.kind = "RequestAccepted"    -> IF RunOf[e.req] = NoRun THEN s
                                        ELSE [s EXCEPT !.requestRuns = @ \cup {e.req}]
    [] e.kind = "ReservationCreated" -> ApplyReservationCreated(s, e)
    [] e.kind = "AttemptStarted"     -> [s EXCEPT !.lease[e.att] = "started"]
    [] e.kind = "AttemptSettled"     -> ApplyAttemptSettled(s, e)
    [] e.kind = "RequestFinalized"   -> [s EXCEPT !.requestRuns = @ \ {e.req}]
    [] e.kind = "RunClosed"          -> [s EXCEPT !.closed = @ \cup {e.run}]

\* Record n of the log is applied.
Apply(s, e, n) == [Effect(s, e) EXCEPT !.wm = n]

-----------------------------------------------------------------------------
\* What the state holds reserved is exactly the amounts of its pending leases, for
\* the project and for every Run.
Conserves(s) ==
  /\ s.reserved = Total(Amount, PendingLeases(s))
  /\ \A u \in Runs : s.runReserved[u] = Total(Amount, PendingLeases(s) \cap RunAttempts(u))
=============================================================================
