-------------------------- MODULE AccountingProofs --------------------------
(***************************************************************************)
(* Safety of Accounting for every set of requests and Runs, every price,   *)
(* budget, batch size and number of crashes: sums over sets of attempts    *)
(* and what applying one record preserves, the types, the balance, the     *)
(* admissions, and what the durable log holds of a request, from how an    *)
(* append travels through the writer's queue.                              *)
(***************************************************************************)
EXTENDS Accounting, TLAPS, FiniteSetTheorems, SequenceTheorems

-----------------------------------------------------------------------------
(* Total *)

\* The units of a sum over a finite set are finite, so Total is a number.
LEMMA UnitsFinite ==
  ASSUME NEW f, NEW S, IsFiniteSet(S), \A a \in S : f[a] \in Nat
  PROVE  IsFiniteSet(Units(f, S)) /\ Total(f, S) \in Nat
<1> DEFINE T == {{a} \X (1..f[a]) : a \in S}
           g == [a \in S |-> {a} \X (1..f[a])]
<1>1. IsFiniteSet(T)
  <2>1. g \in Surjection(S, T)
    BY DEF Surjection
  <2> QED BY <2>1, FS_Surjection
<1>2. ASSUME NEW X \in T PROVE IsFiniteSet(X)
  <2>1. PICK a \in S : X = {a} \X (1..f[a])
    OBVIOUS
  <2>2. IsFiniteSet({a})
    BY FS_Singleton
  <2>3. IsFiniteSet(1..f[a])
    <3>1. 1 \in Int /\ f[a] \in Int
      OBVIOUS
    <3> QED BY <3>1, FS_Interval
  <2> QED BY <2>1, <2>2, <2>3, FS_Product
<1>3. IsFiniteSet(UNION T)
  BY <1>1, <1>2, FS_UNION
<1> QED BY <1>3, FS_CardinalityType DEF Units, Total

\* An empty sum is 0.
LEMMA TotalEmpty == \A f : Total(f, {}) = 0
<1>1. ASSUME NEW f PROVE Units(f, {}) = {}
  BY DEF Units
<1> QED BY <1>1, FS_EmptySet DEF Total

\* A new member adds its own amount.
LEMMA TotalAdd ==
  ASSUME NEW f, NEW S, IsFiniteSet(S), \A b \in S : f[b] \in Nat,
         NEW a, a \notin S, f[a] \in Nat
  PROVE  Total(f, S \cup {a}) = Total(f, S) + f[a]
<1> DEFINE A == {a} \X (1..f[a])
<1>1. Units(f, S \cup {a}) = Units(f, S) \cup A
  BY DEF Units
<1>2. Units(f, S) \cap A = {}
  BY DEF Units
<1>3. IsFiniteSet(A) /\ Cardinality(A) = f[a]
  <2>1. IsFiniteSet({a}) /\ Cardinality({a}) = 1
    BY FS_Singleton
  <2>2. IsFiniteSet(1..f[a]) /\ Cardinality(1..f[a]) = f[a]
    BY FS_Interval
  <2>3. IsFiniteSet(A) /\ Cardinality(A) = Cardinality({a}) * Cardinality(1..f[a])
    BY <2>1, <2>2, FS_Product
  <2> QED BY <2>1, <2>2, <2>3
<1>4. IsFiniteSet(Units(f, S)) /\ Cardinality(Units(f, S)) \in Nat
  BY UnitsFinite DEF Total
<1>5. Cardinality(Units(f, S) \cup A)
        = Cardinality(Units(f, S)) + Cardinality(A) - Cardinality(Units(f, S) \cap A)
  BY <1>3, <1>4, FS_Union
<1>6. Cardinality(Units(f, S) \cap A) = 0
  BY <1>2, FS_EmptySet
<1> QED BY <1>1, <1>3, <1>4, <1>5, <1>6 DEF Total

\* A member that leaves takes its own amount with it.
LEMMA TotalRemove ==
  ASSUME NEW f, NEW S, IsFiniteSet(S), \A b \in S : f[b] \in Nat, NEW a \in S
  PROVE  /\ Total(f, S \ {a}) = Total(f, S) - f[a]
         /\ f[a] <= Total(f, S)
<1>1. IsFiniteSet(S \ {a})
  BY FS_RemoveElement
<1>2. (S \ {a}) \cup {a} = S
  OBVIOUS
<1>3. Total(f, S) = Total(f, S \ {a}) + f[a]
  BY <1>1, <1>2, TotalAdd
<1>4. Total(f, S \ {a}) \in Nat
  BY <1>1, UnitsFinite
<1> QED BY <1>3, <1>4

-----------------------------------------------------------------------------
(* The constants *)

\* There are finitely many attempts, and each reserves at least one micro-dollar.
LEMMA AttemptsFacts ==
  /\ IsFiniteSet(Attempts)
  /\ Amount \in [Attempts -> Nat \ {0}]
<1>1. IsFiniteSet(1..MaxAttempts)
  BY FS_Interval, MaxAttemptsAssumption
<1>2. IsFiniteSet(Attempts)
  BY <1>1, RequestsAssumption, FS_Product DEF Attempts
<1> QED BY <1>2, PreparedAssumption DEF Amount

-----------------------------------------------------------------------------
(* Apply *)

\* The kinds partition the records.
LEMMA EventKinds ==
  ASSUME NEW e \in Events
  PROVE  \/ e.kind \in {"RequestAccepted", "RequestFinalized"} /\ e.req \in Requests
         \/ e.kind \in {"ReservationCreated", "AttemptStarted"} /\ e.att \in Attempts
         \/ e.kind = "AttemptSettled" /\ e.att \in Attempts /\ e.cost \in Nat
         \/ e.kind = "RunClosed" /\ e.run \in Runs
BY DEF Events, RequestEvents, LeaseEvents, SettledEvents, RunEvents

\* A state holds no lease, and nothing reserved for one, to begin with.
LEMMA NewStateFacts == NewState \in States /\ Conserves(NewState)
<1>1. NewState \in States
  BY DEF NewState, States, LeaseStatus
<1>2. PendingLeases(NewState) = {}
  BY DEF NewState, PendingLeases
<1>3. \A u \in Runs : {} \cap RunAttempts(u) = {}
  OBVIOUS
<1> QED BY <1>1, <1>2, <1>3, TotalEmpty DEF NewState, Conserves

\* Adding to a Run's account, and taking from it what it holds.
LEMMA RunAccounts ==
  ASSUME NEW f \in [Runs -> Nat], NEW r \in Requests, NEW n \in Nat
  PROVE  /\ AddRun(f, r, n) \in [Runs -> Nat]
         /\ (RunOf[r] # NoRun => f[RunOf[r]] >= n) => SubRun(f, r, n) \in [Runs -> Nat]
<1>1. AddRun(f, r, n) \in [Runs -> Nat]
  BY DEF AddRun
<1>2. ASSUME RunOf[r] # NoRun => f[RunOf[r]] >= n
      PROVE  SubRun(f, r, n) \in [Runs -> Nat]
  <2>1. ASSUME NEW u \in Runs, u = RunOf[r] PROVE f[u] - n \in Nat
    BY <1>2, <2>1, NoRunAssumption
  <2> QED BY <2>1 DEF SubRun
<1> QED BY <1>1, <1>2

\* What a reservation changes, field by field.
LEMMA ReservationFields ==
  ASSUME NEW s \in States, NEW e \in Events, NEW n \in Nat, e.kind = "ReservationCreated"
  PROVE  LET t == Apply(s, e, n) IN
         /\ t.lease = [s.lease EXCEPT ![e.att] = "held"]
         /\ t.reserved = s.reserved + Amount[e.att]
         /\ t.runReserved = AddRun(s.runReserved, e.att[1], Amount[e.att])
BY DEF Apply, Effect, ApplyReservationCreated, States

\* What a settlement changes, field by field.
LEMMA SettlementFields ==
  ASSUME NEW s \in States, NEW e \in Events, NEW n \in Nat, e.kind = "AttemptSettled"
  PROVE  LET t == Apply(s, e, n) IN
         /\ t.lease = [s.lease EXCEPT ![e.att] = "none"]
         /\ t.reserved = s.reserved - Amount[e.att]
         /\ t.runReserved = SubRun(s.runReserved, e.att[1], Amount[e.att])
BY DEF Apply, Effect, ApplyAttemptSettled, States

\* The other records leave the money alone.
LEMMA OtherFields ==
  ASSUME NEW s \in States, NEW e \in Events, NEW n \in Nat,
         e.kind \notin {"ReservationCreated", "AttemptSettled"}
  PROVE  LET t == Apply(s, e, n) IN
         /\ t.lease = IF e.kind = "AttemptStarted" THEN [s.lease EXCEPT ![e.att] = "started"]
                      ELSE s.lease
         /\ t.reserved = s.reserved /\ t.runReserved = s.runReserved
BY EventKinds DEF Apply, Effect, States

\* A record State.Apply takes leaves a well-formed state: a balance never goes below
\* zero, whatever was settled.
LEMMA ApplyType ==
  ASSUME NEW s \in States, NEW e \in Events, NEW n \in Nat, CanApply(s, e, n)
  PROVE  Apply(s, e, n) \in States
<1>1. CASE e.kind = "RequestAccepted"
  BY <1>1, EventKinds DEF Apply, Effect, States
<1>2. CASE e.kind = "RequestFinalized"
  BY <1>2, EventKinds DEF Apply, Effect, States
<1>3. CASE e.kind = "RunClosed"
  BY <1>3, EventKinds DEF Apply, Effect, States
<1>4. CASE e.kind = "AttemptStarted"
  BY <1>4, EventKinds DEF Apply, Effect, States, LeaseStatus
<1>5. CASE e.kind = "ReservationCreated"
  <2>1. e.att \in Attempts /\ e.att[1] \in Requests /\ Amount[e.att] \in Nat
    BY <1>5, EventKinds, AttemptsFacts DEF Attempts
  <2>2. AddRun(s.runReserved, e.att[1], Amount[e.att]) \in [Runs -> Nat]
    BY <2>1, RunAccounts DEF States
  <2>3. [s.lease EXCEPT ![e.att] = "held"] \in [Attempts -> LeaseStatus]
    BY <2>1 DEF States, LeaseStatus
  <2>4. s.reserved + Amount[e.att] \in Nat
    BY <2>1 DEF States
  <2>5. ApplyReservationCreated(s, e) \in States
    BY <2>2, <2>3, <2>4 DEF ApplyReservationCreated, States
  <2>6. Effect(s, e) = ApplyReservationCreated(s, e)
    BY <1>5 DEF Effect
  <2> QED BY <2>5, <2>6 DEF Apply, States
<1>6. CASE e.kind = "AttemptSettled"
  <2>1. e.att \in Attempts /\ e.att[1] \in Requests /\ Amount[e.att] \in Nat /\ e.cost \in Nat
    BY <1>6, EventKinds, AttemptsFacts DEF Attempts
  <2>2. /\ s.reserved >= Amount[e.att]
        /\ RunOf[e.att[1]] # NoRun => s.runReserved[RunOf[e.att[1]]] >= Amount[e.att]
    BY <1>6 DEF CanApply, Accepts
  <2>3. SubRun(s.runReserved, e.att[1], Amount[e.att]) \in [Runs -> Nat]
    BY <2>1, <2>2, RunAccounts DEF States
  <2>4. AddRun(s.runCommitted, e.att[1], e.cost) \in [Runs -> Nat]
    BY <2>1, RunAccounts DEF States
  <2>5. [s.lease EXCEPT ![e.att] = "none"] \in [Attempts -> LeaseStatus]
    BY <2>1 DEF States, LeaseStatus
  <2>6. s.reserved - Amount[e.att] \in Nat /\ s.committed + e.cost \in Nat
    BY <2>1, <2>2 DEF States
  <2>7. ApplyAttemptSettled(s, e) \in States
    BY <2>3, <2>4, <2>5, <2>6 DEF ApplyAttemptSettled, States
  <2>8. Effect(s, e) = ApplyAttemptSettled(s, e)
    BY <1>6 DEF Effect
  <2> QED BY <2>7, <2>8 DEF Apply, States
<1> QED BY <1>1, <1>2, <1>3, <1>4, <1>5, <1>6, EventKinds

\* ... and a state whose balances are exactly its pending leases' amounts.
LEMMA ApplyConserves ==
  ASSUME NEW s \in States, NEW e \in Events, NEW n \in Nat, CanApply(s, e, n), Conserves(s)
  PROVE  Conserves(Apply(s, e, n))
<1> DEFINE t == Apply(s, e, n)
           P == PendingLeases(s)
<1>1. P \in SUBSET Attempts /\ IsFiniteSet(P)
  BY AttemptsFacts, FS_Subset DEF PendingLeases
<1>2. \A u \in Runs : IsFiniteSet(P \cap RunAttempts(u))
  BY <1>1, FS_Intersection
<1>3. \A b \in P : Amount[b] \in Nat
  BY <1>1, AttemptsFacts
<1>4. CASE e.kind = "ReservationCreated"
  <2> DEFINE a == e.att
  <2>1. a \in Attempts /\ a[1] \in Requests /\ Amount[a] \in Nat
    BY <1>4, EventKinds, AttemptsFacts DEF Attempts
  <2>2. a \notin P
    BY <1>4 DEF CanApply, Accepts, PendingLeases
  <2>f. /\ t.lease = [s.lease EXCEPT ![a] = "held"]
        /\ t.reserved = s.reserved + Amount[a]
        /\ t.runReserved = AddRun(s.runReserved, a[1], Amount[a])
    BY <1>4, ReservationFields
  <2>s. s.lease \in [Attempts -> LeaseStatus]
    BY DEF States
  <2> HIDE DEF t
  <2>3. PendingLeases(t) = P \cup {a}
    BY <2>f, <2>s, <2>1 DEF PendingLeases
  <2>4. t.reserved = Total(Amount, P \cup {a})
    <3>1. Total(Amount, P \cup {a}) = Total(Amount, P) + Amount[a]
      BY <1>1, <1>3, <2>1, <2>2, TotalAdd
    <3> QED BY <2>f, <3>1 DEF Conserves
  <2>5. ASSUME NEW u \in Runs
        PROVE  t.runReserved[u] = Total(Amount, (P \cup {a}) \cap RunAttempts(u))
    <3>1. t.runReserved[u] = IF u = RunOf[a[1]] THEN s.runReserved[u] + Amount[a]
                             ELSE s.runReserved[u]
      BY <2>f DEF AddRun
    <3>2. s.runReserved[u] = Total(Amount, P \cap RunAttempts(u))
      BY DEF Conserves
    <3>3. CASE u = RunOf[a[1]]
      <4>1. (P \cup {a}) \cap RunAttempts(u) = (P \cap RunAttempts(u)) \cup {a}
        BY <3>3, <2>1 DEF RunAttempts
      <4>2. Total(Amount, (P \cap RunAttempts(u)) \cup {a})
              = Total(Amount, P \cap RunAttempts(u)) + Amount[a]
        BY <1>2, <1>3, <2>1, <2>2, TotalAdd
      <4> QED BY <3>1, <3>2, <3>3, <4>1, <4>2
    <3>4. CASE u # RunOf[a[1]]
      <4>1. (P \cup {a}) \cap RunAttempts(u) = P \cap RunAttempts(u)
        BY <3>4 DEF RunAttempts
      <4> QED BY <3>1, <3>2, <3>4, <4>1
    <3> QED BY <3>3, <3>4
  <2>6. Conserves(t)
    BY <2>3, <2>4, <2>5 DEF Conserves
  <2> QED BY <2>6 DEF t
<1>5. CASE e.kind = "AttemptSettled"
  <2> DEFINE a == e.att
  <2>1. a \in Attempts /\ a[1] \in Requests /\ Amount[a] \in Nat
    BY <1>5, EventKinds, AttemptsFacts DEF Attempts
  <2>2. a \in P
    BY <1>5, <2>1 DEF CanApply, Accepts, PendingLeases
  <2>f. /\ t.lease = [s.lease EXCEPT ![a] = "none"]
        /\ t.reserved = s.reserved - Amount[a]
        /\ t.runReserved = SubRun(s.runReserved, a[1], Amount[a])
    BY <1>5, SettlementFields
  <2>s. s.lease \in [Attempts -> LeaseStatus]
    BY DEF States
  <2> HIDE DEF t
  <2>3. PendingLeases(t) = P \ {a}
    BY <2>f, <2>s, <2>1 DEF PendingLeases
  <2>4. t.reserved = Total(Amount, P \ {a})
    <3>1. Total(Amount, P \ {a}) = Total(Amount, P) - Amount[a]
      BY <1>1, <1>3, <2>2, TotalRemove
    <3> QED BY <2>f, <3>1 DEF Conserves
  <2>5. ASSUME NEW u \in Runs
        PROVE  t.runReserved[u] = Total(Amount, (P \ {a}) \cap RunAttempts(u))
    <3>1. t.runReserved[u] = IF u = RunOf[a[1]] THEN s.runReserved[u] - Amount[a]
                             ELSE s.runReserved[u]
      BY <2>f DEF SubRun
    <3>2. s.runReserved[u] = Total(Amount, P \cap RunAttempts(u))
      BY DEF Conserves
    <3>3. CASE u = RunOf[a[1]]
      <4>1. (P \ {a}) \cap RunAttempts(u) = (P \cap RunAttempts(u)) \ {a}
        OBVIOUS
      <4>2. a \in P \cap RunAttempts(u)
        BY <3>3, <2>1, <2>2 DEF RunAttempts
      <4>3. Total(Amount, (P \cap RunAttempts(u)) \ {a})
              = Total(Amount, P \cap RunAttempts(u)) - Amount[a]
        BY <1>2, <1>3, <4>2, TotalRemove
      <4> QED BY <3>1, <3>2, <3>3, <4>1, <4>3
    <3>4. CASE u # RunOf[a[1]]
      <4>1. (P \ {a}) \cap RunAttempts(u) = P \cap RunAttempts(u)
        BY <3>4 DEF RunAttempts
      <4> QED BY <3>1, <3>2, <3>4, <4>1
    <3> QED BY <3>3, <3>4
  <2>6. Conserves(t)
    BY <2>3, <2>4, <2>5 DEF Conserves
  <2> QED BY <2>6 DEF t
<1>6. CASE e.kind \notin {"ReservationCreated", "AttemptSettled"}
  <2>1. t.reserved = s.reserved /\ t.runReserved = s.runReserved
    BY <1>6, OtherFields
  <2>2. PendingLeases(t) = P
    <3>1. CASE e.kind = "AttemptStarted"
      <4>1. e.att \in Attempts /\ s.lease[e.att] = "held" /\ s.lease \in [Attempts -> LeaseStatus]
        BY <3>1, EventKinds DEF CanApply, Accepts, States
      <4>2. t.lease = [s.lease EXCEPT ![e.att] = "started"]
        BY <3>1, OtherFields
      <4> QED BY <4>1, <4>2 DEF PendingLeases
    <3>2. CASE e.kind # "AttemptStarted"
      BY <1>6, <3>2, OtherFields DEF PendingLeases
    <3> QED BY <3>1, <3>2
  <2> QED BY <2>1, <2>2 DEF Conserves
<1> QED BY <1>4, <1>5, <1>6

-----------------------------------------------------------------------------
(* Types *)

\* A goroutine that was told its record is durable will find it in the log, where its
\* sequence number says.
DurableInLog == \A p \in Procs : io[p] = "durable" => seq[p] \in 1..Len(log)

\* The type invariant is inductive only with that fact: ApplyRecord reads log[seq[p]].
TypeInv == TypeOK /\ DurableInLog

-----------------------------------------------------------------------------

\* The attempt a request is at is an attempt.
LEMMA CurrentType ==
  ASSUME TypeOK, NEW r \in Requests
  PROVE  Current(r) \in Attempts /\ Current(r)[1] = r
BY DEF TypeOK, Current, Attempts

\* Requests, Runs and the startup goroutine are different processes.
LEMMA ProcsDistinct ==
  /\ Requests \subseteq Procs /\ Runs \subseteq Procs /\ Recovery \in Procs
  /\ Requests \cap Runs = {}
  /\ Recovery \notin Requests /\ Recovery \notin Runs
BY RecoveryAssumption, IdsAssumption DEF Procs

\* What a request or a Run appends is a record.
LEMMA EventOfType ==
  ASSUME TypeOK, NEW p \in Requests \cup Runs, pc[p] \in Appending
  PROVE  EventOf(p) \in Events
<1>1. CASE p \in Requests
  <2>1. pc[p] \in {"begin", "reserve", "start", "settle", "settleRetry", "finalize"}
    BY <1>1 DEF TypeOK, RequestPoints, Appending
  <2>2. Current(p) \in Attempts /\ bill[p] \in Nat
    BY <1>1, CurrentType DEF TypeOK
  <2>3. CASE pc[p] = "begin"
    BY <1>1, <2>3 DEF EventOf, RequestAccepted, Events, RequestEvents
  <2>4. CASE pc[p] = "reserve"
    BY <2>2, <2>4 DEF EventOf, ReservationCreated, Events, LeaseEvents
  <2>5. CASE pc[p] = "start"
    BY <2>2, <2>5 DEF EventOf, AttemptStarted, Events, LeaseEvents
  <2>6. CASE pc[p] \in {"settle", "settleRetry"}
    BY <2>2, <2>6 DEF EventOf, AttemptSettled, Events, SettledEvents
  <2>7. CASE pc[p] = "finalize"
    BY <1>1, <2>7 DEF EventOf, RequestFinalized, Events, RequestEvents
  <2> QED BY <2>1, <2>3, <2>4, <2>5, <2>6, <2>7
<1>2. CASE p \in Runs
  <2>1. pc[p] = "close"
    BY <1>2 DEF TypeOK, ClosePoints, Appending
  <2> QED BY <1>2, <2>1 DEF EventOf, RunClosed, Events, RunEvents
<1> QED BY <1>1, <1>2

\* A batch is a sequence of records.
LEMMA BatchType ==
  ASSUME TypeOK, NEW n \in BatchSizes, NEW k \in 0..n
  PROVE  /\ Batch(k) \in Seq(Events) /\ Len(Batch(k)) = k
         /\ SubSeq(queue, n + 1, Len(queue)) \in Seq(AppendRequests)
         /\ n \in 1..Len(queue)
<1>1. queue \in Seq(AppendRequests)
  BY DEF TypeOK
<1>2. Len(queue) \in Nat /\ \A i \in 1..Len(queue) : queue[i] \in AppendRequests
  BY <1>1, LenProperties, ElementOfSeq
<1>3. n \in 1..Len(queue)
  BY <1>2, BoundAssumption DEF BatchSizes
<1>4. k \in Nat /\ Batch(k) \in [1..k -> Events]
  BY <1>2, <1>3 DEF Batch, AppendRequests
<1>5. Batch(k) \in Seq(Events) /\ Len(Batch(k)) = k
  BY <1>4
<1>6. SubSeq(queue, n + 1, Len(queue)) \in Seq(AppendRequests)
  BY <1>2, <1>3, SubSeqProperties
<1> QED BY <1>3, <1>5, <1>6

-----------------------------------------------------------------------------
(* The type invariant *)

LEMMA TypeInit == Init => TypeInv
<1> SUFFICES ASSUME Init PROVE TypeInv
  OBVIOUS
<1>1. <<>> \in Seq(Events) /\ <<>> \in Seq(AppendRequests)
  BY EmptySeq
<1>2. st \in States
  BY NewStateFacts DEF Init
<1>3. att \in [Requests -> 1..MaxAttempts]
  BY MaxAttemptsAssumption DEF Init
<1>4. TypeOK
  BY <1>1, <1>2, <1>3, ProcsDistinct
     DEF Init, TypeOK, IoPoints, RequestPoints, ClosePoints
<1>5. DurableInLog
  BY DEF Init, DurableInLog
<1> QED BY <1>4, <1>5 DEF TypeInv

\* The steps of appendApplyRecord.
LEMMA TypeAppend ==
  ASSUME TypeInv, NEW p \in Procs, AppendReturns(p)
  PROVE  TypeInv'
<1> USE DEF TypeInv, ledgerVars, admissionVars, controlVars, worldVars
<1>1. CASE Refuse(p)
  BY <1>1 DEF Refuse, TypeOK, DurableInLog, IoPoints
<1>2. CASE ApplyRecord(p)
  <2> DEFINE e == log[seq[p]]
  <2>1. seq[p] \in 1..Len(log) /\ seq[p] \in Nat /\ e \in Events /\ st \in States
    BY <1>2, ElementOfSeq DEF ApplyRecord, TypeOK, DurableInLog
  <2>2. st' \in States /\ applyErr' \in BOOLEAN
    <3>1. CASE CanApply(st, e, seq[p])
      BY <1>2, <2>1, <3>1, ApplyType DEF ApplyRecord, TypeOK
    <3>2. CASE ~CanApply(st, e, seq[p])
      BY <1>2, <2>1, <3>2 DEF ApplyRecord, TypeOK
    <3> QED BY <3>1, <3>2
  <2>3. \E x \in {"confirm", "ok", "applyFailed"} : io' = [io EXCEPT ![p] = x]
    BY <1>2 DEF ApplyRecord
  <2> QED BY <1>2, <2>2, <2>3 DEF ApplyRecord, TypeOK, DurableInLog, IoPoints
<1>3. CASE MarkUnavailable(p)
  BY <1>3 DEF MarkUnavailable, TypeOK, DurableInLog, IoPoints
<1>4. CASE WaitConfirmed(p)
  BY <1>4 DEF WaitConfirmed, TypeOK, DurableInLog, IoPoints
<1> QED BY <1>1, <1>2, <1>3, <1>4 DEF AppendReturns

LEMMA TypeEnqueue ==
  ASSUME TypeInv, NEW p \in Procs, NEW e \in Events, Enqueue(p, e)
  PROVE  TypeInv'
<1>1. queue' \in Seq(AppendRequests)
  <2>1. [proc |-> p, event |-> e] \in AppendRequests
    BY DEF AppendRequests
  <2> QED BY <2>1 DEF Enqueue, TypeInv, TypeOK
<1> QED BY <1>1 DEF Enqueue, TypeInv, TypeOK, DurableInLog, IoPoints,
              ledgerVars, admissionVars, controlVars, worldVars

\* The writer only ever makes the log longer.
LEMMA TypeWriter ==
  ASSUME TypeInv, Writer
  PROVE  TypeInv'
<1> USE DEF TypeInv, ledgerVars, admissionVars, controlVars, worldVars
<1>1. PICK n \in BatchSizes : WriteBatch(n) \/ WriteFails(n) \/ DropBatch(n)
  BY DEF Writer
<1>2. log \in Seq(Events) /\ Len(log) \in Nat
  BY DEF TypeOK
<1>3. SubSeq(queue, n + 1, Len(queue)) \in Seq(AppendRequests) /\ n \in Nat
  BY BatchType, BoundAssumption DEF BatchSizes
<1>4. CASE WriteBatch(n)
  <2>1. Batch(n) \in Seq(Events) /\ Len(Batch(n)) = n
    BY <1>3, BatchType
  <2>2. log' \in Seq(Events) /\ Len(log') = Len(log) + n
    BY <1>2, <1>4, <2>1, ConcatProperties DEF WriteBatch
  <2>3. ASSUME NEW p \in Procs, InBatch(n, p)
        PROVE  seq'[p] \in 1..Len(log')
    <3>1. (CHOOSE i \in 1..n : queue[i].proc = p) \in 1..n
      BY <2>3 DEF InBatch
    <3> QED BY <1>2, <1>3, <1>4, <2>2, <2>3, <3>1 DEF WriteBatch
  <2>4. ASSUME NEW p \in Procs, ~InBatch(n, p)
        PROVE  seq'[p] = seq[p] /\ io'[p] = io[p]
    BY <1>4, <2>4 DEF WriteBatch
  <2>5. seq' \in [Procs -> Nat]
    <3>1. \A p \in Procs : seq'[p] \in Nat
      BY <1>2, <1>3, <2>2, <2>3, <2>4 DEF TypeOK
    <3>2. DOMAIN seq' = Procs /\ seq' = [p \in Procs |-> seq'[p]]
      BY <1>4 DEF WriteBatch
    <3> QED BY <3>1, <3>2
  <2>6. io' \in [Procs -> IoPoints]
    BY <1>4 DEF WriteBatch, TypeOK, IoPoints
  <2>7. DurableInLog'
    BY <1>2, <1>3, <2>2, <2>3, <2>4 DEF DurableInLog
  <2> QED BY <1>3, <1>4, <2>2, <2>5, <2>6, <2>7 DEF WriteBatch, TypeOK
<1>5. CASE WriteFails(n)
  <2>1. PICK k \in 0..n : log' = log \o Batch(k)
    BY <1>5 DEF WriteFails
  <2>2. Batch(k) \in Seq(Events) /\ Len(Batch(k)) = k
    BY BatchType
  <2>3. log' \in Seq(Events) /\ Len(log') = Len(log) + k
    BY <1>2, <2>1, <2>2, ConcatProperties
  <2>4. io' \in [Procs -> IoPoints]
    BY <1>5 DEF WriteFails, TypeOK, IoPoints
  <2>5. DurableInLog'
    BY <1>2, <1>3, <1>5, <2>3 DEF WriteFails, DurableInLog
  <2> QED BY <1>3, <1>5, <2>3, <2>4, <2>5 DEF WriteFails, TypeOK
<1>6. CASE DropBatch(n)
  BY <1>3, <1>6 DEF DropBatch, TypeOK, DurableInLog, IoPoints
<1> QED BY <1>1, <1>4, <1>5, <1>6

\* Moving a goroutine to another of its points forgets the append it came from.
LEMMA TypeGoto ==
  ASSUME TypeInv, NEW p \in Procs, NEW x, Goto(p, x),
         \/ p \in Requests /\ x \in RequestPoints
         \/ p \in Runs /\ x \in ClosePoints
         \/ p = Recovery /\ x \in {"idle", "recover"},
         log' = log
  PROVE  /\ pc' \in [Procs -> RequestPoints \cup ClosePoints \cup {"recover"}]
         /\ \A r \in Requests : pc'[r] \in RequestPoints
         /\ \A u \in Runs : pc'[u] \in ClosePoints
         /\ pc'[Recovery] \in {"idle", "recover"}
         /\ io' \in [Procs -> IoPoints] /\ seq' \in [Procs -> Nat]
         /\ DurableInLog'
<1>1. pc \in [Procs -> RequestPoints \cup ClosePoints \cup {"recover"}]
  BY DEF TypeInv, TypeOK
<1>2. pc' = [pc EXCEPT ![p] = x] /\ io' = [io EXCEPT ![p] = "none"] /\ seq' = [seq EXCEPT ![p] = 0]
  BY DEF Goto
<1>3. x \in RequestPoints \cup ClosePoints \cup {"recover"}
  BY DEF RequestPoints
<1>4. pc' \in [Procs -> RequestPoints \cup ClosePoints \cup {"recover"}]
  BY <1>1, <1>2, <1>3
<1>5. \A q \in Procs : pc'[q] = IF q = p THEN x ELSE pc[q]
  BY <1>1, <1>2
<1>6. /\ \A r \in Requests : pc'[r] \in RequestPoints
      /\ \A u \in Runs : pc'[u] \in ClosePoints
      /\ pc'[Recovery] \in {"idle", "recover"}
  BY <1>5, ProcsDistinct DEF TypeInv, TypeOK
<1>7. io' \in [Procs -> IoPoints] /\ seq' \in [Procs -> Nat]
  BY <1>2 DEF TypeInv, TypeOK, IoPoints
<1>8. DurableInLog'
  BY <1>2 DEF TypeInv, TypeOK, DurableInLog
<1> QED BY <1>4, <1>6, <1>7, <1>8

\* The request goroutine.
LEMMA TypeRequest ==
  ASSUME TypeInv, NEW r \in Requests, BeginRequest(r) \/ RequestStep(r)
  PROVE  TypeInv'
<1> USE DEF ledgerVars, admissionVars, controlVars, worldVars
<1>1. r \in Procs /\ Current(r) \in Attempts /\ Amount[Current(r)] \in Nat
  BY ProcsDistinct, CurrentType, AttemptsFacts DEF TypeInv
<1>2. CASE BeginRequest(r)
  <2>1. Goto(r, "begin") /\ log' = log
    BY <1>2 DEF BeginRequest
  <2> QED BY <1>1, <1>2, <2>1, TypeGoto DEF BeginRequest, TypeInv, TypeOK, RequestPoints
<1>3. CASE BeginReturns(r)
  <2>1. PICK x \in {"ready", "done"} : Goto(r, x)
    BY <1>3 DEF BeginReturns
  <2> QED BY <1>1, <1>3, <2>1, TypeGoto DEF BeginReturns, TypeInv, TypeOK, RequestPoints
<1>4. CASE Admit(r)
  <2>1. Goto(r, "reserve") /\ log' = log
    BY <1>4 DEF Admit
  <2>2. pending' \in Nat
    BY <1>1, <1>4 DEF Admit, TypeInv, TypeOK
  <2>3. runPending' \in [Runs -> Nat] /\ runAdmissions' \in [Runs -> Nat]
    BY <1>1, <1>4, RunAccounts DEF Admit, TypeInv, TypeOK
  <2> QED BY <1>1, <1>4, <2>1, <2>2, <2>3, TypeGoto DEF Admit, TypeInv, TypeOK, RequestPoints
<1>5. CASE GiveUp(r)
  <2>1. Goto(r, "finalize") /\ log' = log
    BY <1>5 DEF GiveUp
  <2> QED BY <1>1, <1>5, <2>1, TypeGoto DEF GiveUp, TypeInv, TypeOK, RequestPoints
<1>6. CASE ReserveReturns(r)
  <2>1. PICK x \in {"reserved", "finalize"} : Goto(r, x)
    BY <1>6 DEF ReserveReturns
  <2>2. log' = log
    BY <1>6 DEF ReserveReturns
  <2>3. pending' \in Nat
    BY <1>1, <1>6 DEF ReserveReturns, ReleaseAdmitted, Less, TypeInv, TypeOK
  <2>4. runPending' \in [Runs -> Nat] /\ runAdmissions' \in [Runs -> Nat]
    BY <1>1, <1>6 DEF ReserveReturns, ReleaseAdmitted, LessRun, Less, TypeInv, TypeOK
  <2> QED BY <1>1, <1>6, <2>1, <2>2, <2>3, <2>4, TypeGoto
          DEF ReserveReturns, TypeInv, TypeOK, RequestPoints
<1>7. CASE SettleUnserved(r)
  <2>1. Goto(r, "settle") /\ log' = log
    BY <1>7 DEF SettleUnserved
  <2> QED BY <1>1, <1>7, <2>1, TypeGoto DEF SettleUnserved, TypeInv, TypeOK, RequestPoints
<1>8. CASE CommitPin(r)
  <2>1. Goto(r, "start") /\ log' = log
    BY <1>8 DEF CommitPin
  <2> QED BY <1>1, <1>8, <2>1, TypeGoto DEF CommitPin, TypeInv, TypeOK, RequestPoints
<1>9. CASE StartReturns(r)
  <2>1. Goto(r, "calling") /\ log' = log
    BY <1>9 DEF StartReturns
  <2> QED BY <1>1, <1>9, <2>1, TypeGoto DEF StartReturns, TypeInv, TypeOK, RequestPoints
<1>10. CASE CallProvider(r)
  <2>1. Goto(r, "called") /\ log' = log
    BY <1>10 DEF CallProvider
  <2> QED BY <1>1, <1>10, <2>1, TypeGoto DEF CallProvider, TypeInv, TypeOK, RequestPoints
<1>11. CASE ProviderReturns(r)
  <2>1. PICK x \in {"settle", "settleRetry"} : Goto(r, x)
    BY <1>11 DEF ProviderReturns
  <2>2. log' = log /\ bill' \in [Requests -> Nat]
    BY <1>11, BillsAssumption DEF ProviderReturns, TypeInv, TypeOK
  <2> QED BY <1>1, <1>11, <2>1, <2>2, TypeGoto DEF ProviderReturns, TypeInv, TypeOK, RequestPoints
<1>12. CASE SettleReturns(r)
  <2>1. PICK x \in {"ready", "finalize"} : Goto(r, x)
    BY <1>12 DEF SettleReturns
  <2>2. att' \in [Requests -> 1..MaxAttempts]
    BY <1>12, MaxAttemptsAssumption DEF SettleReturns, TypeInv, TypeOK
  <2>3. log' = log /\ bill' \in [Requests -> Nat]
    BY <1>12 DEF SettleReturns, TypeInv, TypeOK
  <2> QED BY <1>1, <1>12, <2>1, <2>2, <2>3, TypeGoto
          DEF SettleReturns, TypeInv, TypeOK, RequestPoints
<1>13. CASE FinalizeReturns(r)
  <2>1. Goto(r, "done") /\ log' = log
    BY <1>13 DEF FinalizeReturns
  <2> QED BY <1>1, <1>13, <2>1, TypeGoto DEF FinalizeReturns, TypeInv, TypeOK, RequestPoints
<1> QED BY <1>2, <1>3, <1>4, <1>5, <1>6, <1>7, <1>8, <1>9, <1>10, <1>11, <1>12, <1>13
        DEF RequestStep

\* A CloseRun call, and a Run's time passing.
LEMMA TypeClose ==
  ASSUME TypeInv, NEW u \in Runs,
         CloseRun(u) \/ CloseProceeds(u) \/ CloseReturns(u) \/ Expire(u)
  PROVE  TypeInv'
<1> USE DEF ledgerVars, admissionVars, controlVars, worldVars
<1>1. u \in Procs
  BY ProcsDistinct
<1>2. CASE CloseRun(u)
  <2>1. Goto(u, "closing") /\ log' = log
    BY <1>2 DEF CloseRun
  <2> QED BY <1>1, <1>2, <2>1, TypeGoto DEF CloseRun, TypeInv, TypeOK, ClosePoints
<1>3. CASE CloseProceeds(u)
  <2>1. Goto(u, "close") /\ log' = log
    BY <1>3 DEF CloseProceeds
  <2> QED BY <1>1, <1>3, <2>1, TypeGoto DEF CloseProceeds, TypeInv, TypeOK, ClosePoints
<1>4. CASE CloseReturns(u)
  <2>1. Goto(u, "idle") /\ log' = log
    BY <1>4 DEF CloseReturns
  <2> QED BY <1>1, <1>4, <2>1, TypeGoto DEF CloseReturns, TypeInv, TypeOK, ClosePoints
<1>5. CASE Expire(u)
  BY <1>5 DEF Expire, TypeInv, TypeOK, DurableInLog
<1> QED BY <1>2, <1>3, <1>4, <1>5

\* A crash and the startup after it.
LEMMA TypeStartup ==
  ASSUME TypeInv, Crash \/ Startup
  PROVE  TypeInv'
<1> USE DEF ledgerVars, admissionVars, controlVars, worldVars
<1>1. CASE Crash
  <2>1. st' \in States /\ <<>> \in Seq(AppendRequests)
    BY <1>1, NewStateFacts, EmptySeq DEF Crash
  <2>2. pc' \in [Procs -> {"done", "idle"}] /\ pc'[Recovery] = "idle"
    BY <1>1, ProcsDistinct DEF Crash
  <2>3. \A u \in Runs : pc'[u] = "idle"
    BY <1>1, ProcsDistinct DEF Crash
  <2>4. DurableInLog'
    BY <1>1 DEF Crash, DurableInLog
  <2>5. /\ pc' \in [Procs -> RequestPoints \cup ClosePoints \cup {"recover"}]
        /\ \A r \in Requests : pc'[r] \in RequestPoints
        /\ \A u \in Runs : pc'[u] \in ClosePoints
        /\ pc'[Recovery] \in {"idle", "recover"}
    BY <2>2, <2>3, ProcsDistinct DEF RequestPoints, ClosePoints
  <2>6. /\ pending' \in Nat /\ crashes' \in Nat
        /\ runPending' \in [Runs -> Nat] /\ runAdmissions' \in [Runs -> Nat]
        /\ io' \in [Procs -> IoPoints] /\ seq' \in [Procs -> Nat] /\ bill' \in [Requests -> Nat]
    BY <1>1 DEF Crash, TypeInv, TypeOK, IoPoints
  <2> QED BY <1>1, <2>1, <2>4, <2>5, <2>6 DEF Crash, TypeInv, TypeOK
<1>2. CASE Replay
  <2> DEFINE e == log[st.wm + 1]
  <2>1. st \in States /\ st.wm + 1 \in Nat /\ st.wm + 1 \in 1..Len(log)
    BY <1>2 DEF Replay, TypeInv, TypeOK, States
  <2>2. e \in Events
    BY <2>1, ElementOfSeq DEF TypeInv, TypeOK
  <2>3. st' \in States
    BY <1>2, <2>1, <2>2, ApplyType DEF Replay
  <2> QED BY <1>2, <2>3 DEF Replay, TypeInv, TypeOK, DurableInLog
<1>3. CASE ReplayDone
  <2>1. Goto(Recovery, "recover") /\ log' = log
    BY <1>3 DEF ReplayDone
  <2> QED BY <1>3, <2>1, ProcsDistinct, TypeGoto DEF ReplayDone, TypeInv, TypeOK
<1>4. CASE RecoverLease
  <2>1. PICK a \in PendingLeases(st) : Enqueue(Recovery, RecoveryEvent(a))
    BY <1>4 DEF RecoverLease
  <2>2. RecoveryEvent(a) \in Events
    BY <2>1, PreparedAssumption
       DEF RecoveryEvent, AttemptSettled, PendingLeases, Events, SettledEvents
  <2> QED BY <2>1, <2>2, ProcsDistinct, TypeEnqueue
<1>5. CASE AppendReturns(Recovery)
  BY <1>5, ProcsDistinct, TypeAppend
<1>6. CASE RecoverReturns
  <2>1. PICK x \in {"recover", "idle"} : Goto(Recovery, x)
    BY <1>6 DEF RecoverReturns
  <2>2. log' = log /\ phase' \in {"replaying", "recovering", "serving", "failed"}
    BY <1>6 DEF RecoverReturns, TypeInv, TypeOK
  <2> QED BY <1>6, <2>1, <2>2, ProcsDistinct, TypeGoto DEF RecoverReturns, TypeInv, TypeOK
<1>7. CASE RecoverDone
  <2>1. Goto(Recovery, "idle") /\ log' = log
    BY <1>7 DEF RecoverDone
  <2> QED BY <1>7, <2>1, ProcsDistinct, TypeGoto DEF RecoverDone, TypeInv, TypeOK
<1> QED BY <1>1, <1>2, <1>3, <1>4, <1>5, <1>6, <1>7 DEF Startup

LEMMA TypeNext == TypeInv /\ [Next]_vars => TypeInv'
<1> SUFFICES ASSUME TypeInv, [Next]_vars PROVE TypeInv'
  OBVIOUS
<1>1. CASE Writer
  BY <1>1, TypeWriter
<1>2. ASSUME NEW r \in Requests, BeginRequest(r) \/ RequestStep(r)
      PROVE  TypeInv'
  BY <1>2, TypeRequest
<1>3. ASSUME NEW p \in Requests \cup Runs, AppendStep(p)
      PROVE  TypeInv'
  <2>1. p \in Procs
    BY ProcsDistinct
  <2>2. CASE Enqueue(p, EventOf(p))
    <3>1. EventOf(p) \in Events
      BY <2>2, EventOfType DEF Enqueue, TypeInv
    <3> QED BY <2>1, <2>2, <3>1, TypeEnqueue
  <2>3. CASE AppendReturns(p)
    BY <2>1, <2>3, TypeAppend
  <2> QED BY <1>3, <2>2, <2>3 DEF AppendStep
<1>4. ASSUME NEW u \in Runs, CloseRun(u) \/ CloseStep(u) \/ Expire(u)
      PROVE  TypeInv'
  BY <1>3, <1>4, TypeClose DEF CloseStep
<1>5. CASE Crash \/ Startup
  BY <1>5, TypeStartup
<1>6. CASE Terminated \/ UNCHANGED vars
  BY <1>6 DEF Terminated, vars, ledgerVars, admissionVars, controlVars, worldVars,
              TypeInv, TypeOK, DurableInLog
<1> QED BY <1>1, <1>2, <1>3, <1>4, <1>5, <1>6 DEF Next

\* Every behaviour of the accounting path keeps every variable in its type: no balance
\* or promise goes negative, no attempt number passes the limit, no goroutine reads
\* past the end of the log.
THEOREM TypeCorrect == Spec => []TypeOK
<1>1. TypeInv => TypeOK
  BY DEF TypeInv
<1> QED BY <1>1, TypeInit, TypeNext, PTL DEF Spec

-----------------------------------------------------------------------------
(* Conservation *)

\* Only applying a record and replaying the log change the read model.
LEMMA StateSteps ==
  ASSUME TypeInv, [Next]_vars
  PROVE  \/ st' = st
         \/ st' = NewState
         \/ \E n \in 1..Len(log) : CanApply(st, log[n], n) /\ st' = Apply(st, log[n], n)
<1> USE DEF ledgerVars, admissionVars, controlVars, worldVars
<1>1. ASSUME NEW p \in Procs, AppendReturns(p)
      PROVE  \/ st' = st
             \/ \E n \in 1..Len(log) : CanApply(st, log[n], n) /\ st' = Apply(st, log[n], n)
  <2>1. CASE ApplyRecord(p)
    BY <2>1 DEF ApplyRecord, TypeInv, DurableInLog
  <2>2. CASE Refuse(p) \/ MarkUnavailable(p) \/ WaitConfirmed(p)
    BY <2>2 DEF Refuse, MarkUnavailable, WaitConfirmed
  <2> QED BY <1>1, <2>1, <2>2 DEF AppendReturns
<1>2. ASSUME NEW p \in Procs, NEW e, Enqueue(p, e)
      PROVE  st' = st
  BY <1>2 DEF Enqueue
<1>3. CASE Writer
  BY <1>3 DEF Writer, WriteBatch, WriteFails, DropBatch
<1>4. ASSUME NEW r \in Requests, BeginRequest(r) \/ RequestStep(r)
      PROVE  st' = st
  BY <1>4 DEF BeginRequest, RequestStep, BeginReturns, Admit, GiveUp, ReserveReturns, CommitPin,
              StartReturns, SettleUnserved, CallProvider, ProviderReturns, SettleReturns,
              FinalizeReturns
<1>5. ASSUME NEW u \in Runs, CloseRun(u) \/ CloseProceeds(u) \/ CloseReturns(u) \/ Expire(u)
      PROVE  st' = st
  BY <1>5 DEF CloseRun, CloseProceeds, CloseReturns, Expire
<1>6. CASE Crash
  BY <1>6 DEF Crash
<1>7. CASE Startup
  <2>1. CASE Replay
    <3>1. st.wm + 1 \in 1..Len(log)
      BY <2>1 DEF Replay, TypeInv, TypeOK, States
    <3> QED BY <2>1, <3>1 DEF Replay
  <2>2. CASE ReplayDone \/ RecoverReturns \/ RecoverDone
    BY <2>2 DEF ReplayDone, RecoverReturns, RecoverDone
  <2>3. CASE RecoverLease
    BY <1>2, <2>3, ProcsDistinct DEF RecoverLease
  <2>4. CASE AppendReturns(Recovery)
    BY <1>1, <2>4, ProcsDistinct
  <2> QED BY <1>7, <2>1, <2>2, <2>3, <2>4 DEF Startup
<1>8. CASE Terminated \/ UNCHANGED vars
  BY <1>8 DEF Terminated, vars
<1> QED BY <1>1, <1>2, <1>3, <1>4, <1>5, <1>6, <1>7, <1>8, ProcsDistinct
        DEF Next, AppendStep, CloseStep

\* What the read model holds reserved is exactly its pending leases, in every
\* behaviour: two attempts never share a reservation, a settlement hands back what its
\* reservation took, and a replay rebuilds the same.
THEOREM ConservationHolds == Spec => []Conservation
<1>1. Init => Conservation
  BY NewStateFacts DEF Init, Conservation
<1>2. TypeInv /\ Conservation /\ [Next]_vars => Conservation'
  <2> SUFFICES ASSUME TypeInv, Conservation, [Next]_vars PROVE Conserves(st')
    BY DEF Conservation
  <2>1. CASE st' = st
    BY <2>1 DEF Conservation
  <2>2. CASE st' = NewState
    BY <2>2, NewStateFacts
  <2>3. ASSUME NEW n \in 1..Len(log), CanApply(st, log[n], n), st' = Apply(st, log[n], n)
        PROVE  Conserves(st')
    <3>1. st \in States /\ log[n] \in Events /\ n \in Nat
      BY ElementOfSeq DEF TypeInv, TypeOK
    <3> QED BY <2>3, <3>1, ApplyConserves DEF Conservation
  <2> QED BY <2>1, <2>2, <2>3, StateSteps
<1> QED BY <1>1, <1>2, TypeInit, TypeNext, PTL DEF Spec

-----------------------------------------------------------------------------
(* Admissions *)

\* Admitted is known by which requests are at "reserve", and at which attempt.
LEMMA AdmittedMember ==
  ASSUME TypeOK
  PROVE  /\ Admitted \in SUBSET Attempts /\ IsFiniteSet(Admitted)
         /\ \A r \in Requests : Current(r) \in Admitted <=> pc[r] = "reserve"
<1>1. \A r \in Requests : Current(r) \in Attempts /\ Current(r)[1] = r
  BY CurrentType
<1>2. Admitted \in SUBSET Attempts
  BY <1>1 DEF Admitted
<1>3. \A r \in Requests : Current(r) \in Admitted <=> pc[r] = "reserve"
  BY <1>1 DEF Admitted
<1>4. IsFiniteSet(Admitted)
  BY <1>2, AttemptsFacts, FS_Subset
<1> QED BY <1>2, <1>3, <1>4

\* A step that moves no request into or out of "reserve" leaves the admissions alone.
LEMMA AdmittedSame ==
  ASSUME \A r \in Requests : pc'[r] = "reserve" <=> pc[r] = "reserve",
         \A r \in Requests : pc[r] = "reserve" => att'[r] = att[r]
  PROVE  Admitted' = Admitted
<1>1. \A r \in Requests : pc[r] = "reserve" => Current(r)' = Current(r)
  BY DEF Current
<1> QED BY <1>1 DEF Admitted

\* What each step does to the admissions: most nothing, Admit adds the attempt it
\* admitted, ReserveReturns takes it away, and a crash forgets them all.
LEMMA AdmissionSteps ==
  ASSUME TypeInv, [Next]_vars
  PROVE  \/ Admitted' = Admitted /\ UNCHANGED admissionVars
         \/ \E r \in Requests : Admit(r)
         \/ \E r \in Requests : ReserveReturns(r)
         \/ Crash
<1> USE DEF ledgerVars, admissionVars, controlVars, worldVars
<1>t. pc \in [Procs -> RequestPoints \cup ClosePoints \cup {"recover"}] /\ att \in [Requests -> 1..MaxAttempts]
  BY DEF TypeInv, TypeOK
<1>1. ASSUME UNCHANGED <<pc, att, admissionVars>>
      PROVE  Admitted' = Admitted /\ UNCHANGED admissionVars
  BY <1>1, AdmittedSame
<1>2. ASSUME NEW p \in Procs, AppendReturns(p)
      PROVE  Admitted' = Admitted /\ UNCHANGED admissionVars
  BY <1>1, <1>2 DEF AppendReturns, Refuse, ApplyRecord, MarkUnavailable, WaitConfirmed
<1>3. ASSUME NEW p \in Procs, NEW e, Enqueue(p, e)
      PROVE  Admitted' = Admitted /\ UNCHANGED admissionVars
  BY <1>1, <1>3 DEF Enqueue
<1>4. CASE Writer
  BY <1>1, <1>4 DEF Writer, WriteBatch, WriteFails, DropBatch
<1>5. ASSUME NEW r \in Requests, BeginRequest(r) \/ RequestStep(r), ~Admit(r), ~ReserveReturns(r)
      PROVE  Admitted' = Admitted /\ UNCHANGED admissionVars
  <2>1. UNCHANGED admissionVars
    BY <1>5 DEF BeginRequest, RequestStep, BeginReturns, GiveUp, CommitPin, StartReturns,
                SettleUnserved, CallProvider, ProviderReturns, SettleReturns, FinalizeReturns
  <2>2. pc[r] # "reserve" /\ \E x : x # "reserve" /\ pc' = [pc EXCEPT ![r] = x]
    BY <1>5 DEF BeginRequest, RequestStep, BeginReturns, GiveUp, CommitPin, StartReturns,
                SettleUnserved, CallProvider, ProviderReturns, SettleReturns, FinalizeReturns, Goto
  <2>3. att' = att \/ att' = [att EXCEPT ![r] = @ + 1]
    BY <1>5 DEF BeginRequest, RequestStep, BeginReturns, GiveUp, CommitPin, StartReturns,
                SettleUnserved, CallProvider, ProviderReturns, SettleReturns, FinalizeReturns
  <2>4. \A q \in Requests : /\ pc'[q] = "reserve" <=> pc[q] = "reserve"
                            /\ pc[q] = "reserve" => att'[q] = att[q]
    BY <1>t, <2>2, <2>3, ProcsDistinct
  <2> QED BY <2>1, <2>4, AdmittedSame
<1>6. ASSUME NEW p \in Runs \cup {Recovery}, NEW x, pc' = [pc EXCEPT ![p] = x],
             UNCHANGED <<att, admissionVars>>
      PROVE  Admitted' = Admitted /\ UNCHANGED admissionVars
  <2>1. \A q \in Requests : pc'[q] = pc[q]
    BY <1>t, <1>6, ProcsDistinct
  <2> QED BY <1>6, <2>1, AdmittedSame
<1>7. ASSUME NEW u \in Runs, CloseRun(u) \/ CloseProceeds(u) \/ CloseReturns(u)
      PROVE  Admitted' = Admitted /\ UNCHANGED admissionVars
  BY <1>6, <1>7 DEF CloseRun, CloseProceeds, CloseReturns, Goto
<1>8. ASSUME NEW u \in Runs, Expire(u)
      PROVE  Admitted' = Admitted /\ UNCHANGED admissionVars
  BY <1>1, <1>8 DEF Expire
<1>9. CASE Startup
  <2>1. CASE Replay
    BY <1>1, <2>1 DEF Replay
  <2>2. CASE ReplayDone \/ RecoverReturns \/ RecoverDone
    BY <1>6, <2>2 DEF ReplayDone, RecoverReturns, RecoverDone, Goto
  <2>3. CASE RecoverLease
    BY <1>3, <2>3, ProcsDistinct DEF RecoverLease
  <2>4. CASE AppendReturns(Recovery)
    BY <1>2, <2>4, ProcsDistinct
  <2> QED BY <1>9, <2>1, <2>2, <2>3, <2>4 DEF Startup
<1>10. CASE Terminated \/ UNCHANGED vars
  BY <1>1, <1>10 DEF Terminated, vars
<1> QED BY <1>2, <1>3, <1>4, <1>5, <1>7, <1>8, <1>9, <1>10, ProcsDistinct
        DEF Next, AppendStep, CloseStep

\* Admissions add up after Admit.
LEMMA AdmitCounted ==
  ASSUME TypeInv, AdmissionsCounted, NEW r \in Requests, Admit(r)
  PROVE  AdmissionsCounted'
<1> DEFINE a == Current(r)
<1>1. /\ a \in Attempts /\ a[1] = r /\ a \notin Admitted /\ Amount[a] \in Nat
      /\ Admitted \in SUBSET Attempts /\ IsFiniteSet(Admitted)
  BY CurrentType, AdmittedMember, AttemptsFacts DEF TypeInv, Admit
<1>2. Admitted' = Admitted \cup {a}
  <2>1. \A q \in Requests : (pc'[q] = "reserve" <=> (pc[q] = "reserve" \/ q = r)) /\ Current(q)' = Current(q)
    BY ProcsDistinct DEF Admit, Goto, TypeInv, TypeOK, Current
  <2> QED BY <2>1 DEF Admitted
<1>3. \A b \in Admitted : Amount[b] \in Nat
  BY <1>1, AttemptsFacts
<1>4. pending' = Total(Amount, Admitted')
  BY <1>1, <1>2, <1>3, TotalAdd DEF Admit, AdmissionsCounted
<1>5. ASSUME NEW u \in Runs
      PROVE  /\ runPending'[u] = Total(Amount, Admitted' \cap RunAttempts(u))
             /\ runAdmissions'[u] = Cardinality(Admitted' \cap RunAttempts(u))
  <2> DEFINE S == Admitted \cap RunAttempts(u)
  <2>1. IsFiniteSet(S) /\ a \notin S /\ \A b \in S : Amount[b] \in Nat
    BY <1>1, <1>3, FS_Intersection
  <2>2. runPending[u] = Total(Amount, S) /\ runAdmissions[u] = Cardinality(S)
    BY DEF AdmissionsCounted
  <2>3. /\ runPending'[u] = IF u = RunOf[r] THEN runPending[u] + Amount[a] ELSE runPending[u]
        /\ runAdmissions'[u] = IF u = RunOf[r] THEN runAdmissions[u] + 1 ELSE runAdmissions[u]
    BY DEF Admit, AddRun
  <2>4. CASE u = RunOf[r]
    <3>1. Admitted' \cap RunAttempts(u) = S \cup {a}
      BY <1>1, <1>2, <2>4 DEF RunAttempts
    <3>2. Total(Amount, S \cup {a}) = Total(Amount, S) + Amount[a]
      BY <1>1, <2>1, TotalAdd
    <3>3. Cardinality(S \cup {a}) = Cardinality(S) + 1
      BY <2>1, FS_AddElement
    <3> QED BY <2>2, <2>3, <2>4, <3>1, <3>2, <3>3
  <2>5. CASE u # RunOf[r]
    <3>1. Admitted' \cap RunAttempts(u) = S
      BY <1>1, <1>2, <2>5 DEF RunAttempts
    <3> QED BY <2>2, <2>3, <2>5, <3>1
  <2> QED BY <2>4, <2>5
<1> QED BY <1>4, <1>5 DEF AdmissionsCounted

\* The floored subtraction is exact when there is enough to take from.
LEMMA LessExact ==
  ASSUME NEW m \in Nat, NEW n \in Nat, n <= m
  PROVE  Less(m, n) = m - n
BY DEF Less

\* ... and after ReserveReturns, where the subtraction never meets its floor.
LEMMA ReleaseCounted ==
  ASSUME TypeInv, AdmissionsCounted, NEW r \in Requests, ReserveReturns(r)
  PROVE  AdmissionsCounted'
<1> DEFINE a == Current(r)
<1>1. /\ a \in Attempts /\ a[1] = r /\ a \in Admitted /\ Amount[a] \in Nat
      /\ Admitted \in SUBSET Attempts /\ IsFiniteSet(Admitted)
  BY CurrentType, AdmittedMember, AttemptsFacts DEF TypeInv, ReserveReturns
<1>2. Admitted' = Admitted \ {a}
  <2>1. \A q \in Requests : /\ pc'[q] = "reserve" <=> (pc[q] = "reserve" /\ q # r)
                            /\ Current(q)' = Current(q) /\ (Current(q) = a <=> q = r)
    BY ProcsDistinct, CurrentType DEF ReserveReturns, Goto, TypeInv, TypeOK, Current
  <2> QED BY <2>1 DEF Admitted
<1>3. \A b \in Admitted : Amount[b] \in Nat
  BY <1>1, AttemptsFacts
<1>4. pending' = Total(Amount, Admitted')
  <2>1. Total(Amount, Admitted \ {a}) = Total(Amount, Admitted) - Amount[a] /\ Amount[a] <= Total(Amount, Admitted)
    BY <1>1, <1>3, TotalRemove
  <2>2. pending' = Less(pending, Amount[a]) /\ pending \in Nat
    BY DEF ReserveReturns, ReleaseAdmitted, TypeInv, TypeOK
  <2> QED BY <1>1, <1>2, <2>1, <2>2 DEF AdmissionsCounted, Less
<1>5. ASSUME NEW u \in Runs
      PROVE  /\ runPending'[u] = Total(Amount, Admitted' \cap RunAttempts(u))
             /\ runAdmissions'[u] = Cardinality(Admitted' \cap RunAttempts(u))
  <2> DEFINE S == Admitted \cap RunAttempts(u)
  <2>1. IsFiniteSet(S) /\ \A b \in S : Amount[b] \in Nat
    BY <1>1, <1>3, FS_Intersection
  <2>2. runPending[u] = Total(Amount, S) /\ runAdmissions[u] = Cardinality(S)
    BY DEF AdmissionsCounted
  <2>3. /\ runPending'[u] = IF u = RunOf[r] THEN Less(runPending[u], Amount[a]) ELSE runPending[u]
        /\ runAdmissions'[u] = IF u = RunOf[r] THEN Less(runAdmissions[u], 1) ELSE runAdmissions[u]
    BY DEF ReserveReturns, ReleaseAdmitted, LessRun
  <2>4. CASE u = RunOf[r]
    <3>1. Admitted' \cap RunAttempts(u) = S \ {a} /\ a \in S
      BY <1>1, <1>2, <2>4 DEF RunAttempts
    <3>2. Total(Amount, S \ {a}) = Total(Amount, S) - Amount[a] /\ Amount[a] <= Total(Amount, S)
      BY <2>1, <3>1, TotalRemove
    <3>3. Cardinality(S \ {a}) = Cardinality(S) - 1 /\ Cardinality(S \ {a}) \in Nat /\ Cardinality(S) \in Nat
      BY <2>1, <3>1, FS_RemoveElement, FS_CardinalityType
    <3>4. Total(Amount, S) \in Nat
      BY <2>1, UnitsFinite
    <3>5. Less(runPending[u], Amount[a]) = Total(Amount, S \ {a})
      BY <1>1, <2>2, <3>2, <3>4, LessExact
    <3>6. Less(runAdmissions[u], 1) = Cardinality(S \ {a})
      BY <2>2, <3>3, LessExact
    <3> QED BY <2>3, <2>4, <3>1, <3>5, <3>6
  <2>5. CASE u # RunOf[r]
    <3>1. Admitted' \cap RunAttempts(u) = S
      BY <1>1, <1>2, <2>5 DEF RunAttempts
    <3> QED BY <2>2, <2>3, <2>5, <3>1
  <2> QED BY <2>4, <2>5
<1> QED BY <1>4, <1>5 DEF AdmissionsCounted

LEMMA NothingAdmitted ==
  ASSUME Admitted = {}, pending = 0,
         runPending = [u \in Runs |-> 0], runAdmissions = [u \in Runs |-> 0]
  PROVE  AdmissionsCounted
<1>1. \A u \in Runs : Admitted \cap RunAttempts(u) = {}
  OBVIOUS
<1> QED BY <1>1, TotalEmpty, FS_EmptySet DEF AdmissionsCounted

\* The promises projectAdmission holds are at every moment exactly the admissions whose
\* reserve call has not returned: none leaks on an error path, none is released twice,
\* and a close waits for exactly the admissions of its Run.
THEOREM AdmissionsHold == Spec => []AdmissionsCounted
<1>1. Init => AdmissionsCounted
  <2> SUFFICES ASSUME Init PROVE AdmissionsCounted
    OBVIOUS
  <2>1. Admitted = {}
    BY ProcsDistinct DEF Init, Admitted
  <2> QED BY <2>1, NothingAdmitted DEF Init
<1>2. TypeInv /\ TypeInv' /\ AdmissionsCounted /\ [Next]_vars => AdmissionsCounted'
  <2> SUFFICES ASSUME TypeInv, TypeInv', AdmissionsCounted, [Next]_vars PROVE AdmissionsCounted'
    OBVIOUS
  <2>1. CASE Admitted' = Admitted /\ UNCHANGED admissionVars
    BY <2>1 DEF AdmissionsCounted, admissionVars
  <2>2. CASE Crash
    <3>1. Admitted' = {}
      BY <2>2, ProcsDistinct DEF Crash, Admitted
    <3>2. pending' = 0 /\ runPending' = [u \in Runs |-> 0] /\ runAdmissions' = [u \in Runs |-> 0]
      BY <2>2 DEF Crash
    <3>3. \A u \in Runs : Admitted' \cap RunAttempts(u) = {}
      BY <3>1
    <3> QED BY <3>1, <3>2, <3>3, TotalEmpty, FS_EmptySet DEF AdmissionsCounted
  <2> QED BY <2>1, <2>2, AdmissionSteps, AdmitCounted, ReleaseCounted
<1> QED BY <1>1, <1>2, TypeInit, TypeNext, PTL DEF Spec

-----------------------------------------------------------------------------
(* The calls of providers *)

\* The progress of an append whose record is in the log.
LoggedIo == {"durable", "applyFailed", "confirm", "ok"}

\* The queue holds at most one record of a request, the one the request is waiting for.
QueueOwned ==
  /\ \A i \in 1..Len(queue) : queue[i].proc \in Requests =>
       /\ io[queue[i].proc] = "queued"
       /\ pc[queue[i].proc] \in Appending
       /\ queue[i].event = EventOf(queue[i].proc)
  /\ \A i, j \in 1..Len(queue) :
       queue[i].proc \in Requests /\ queue[i].proc = queue[j].proc => i = j

\* A request whose append got through finds its own record at its sequence number.
RecordsLogged ==
  \A r \in Requests : io[r] \in LoggedIo =>
    seq[r] \in 1..Len(log) /\ log[seq[r]] = EventOf(r)

\* A lease the gateway holds is in the log, before any start of it.
LeaseLogged(r) ==
  \E i \in 1..Len(log) : /\ log[i] = ReservationCreated(Current(r))
                         /\ io[r] \in LoggedIo => i < seq[r]

\* The reservation and the start of an attempt are in the log, in that order.
CallLogged(a) ==
  \E i, j \in 1..Len(log) :
    i < j /\ log[i] = ReservationCreated(a) /\ log[j] = AttemptStarted(a)

CallsLogged ==
  \A r \in Requests : /\ pc[r] \in {"reserved", "start"} => LeaseLogged(r)
                      /\ pc[r] = "calling" => CallLogged(Current(r))

\* ProviderCallBacked is not inductive by itself: it needs what the log holds for a
\* request on its way to the call, and that needs what its queued records will become.
CallInv == QueueOwned /\ RecordsLogged /\ CallsLogged /\ ProviderCallBacked

-----------------------------------------------------------------------------

\* The log only grows.
LEMMA LogGrows ==
  ASSUME TypeInv, [Next]_vars
  PROVE  /\ Len(log) \in Nat /\ Len(log') \in Nat /\ Len(log) <= Len(log')
         /\ \A i \in 1..Len(log) : log'[i] = log[i]
<1> USE DEF ledgerVars, admissionVars, controlVars, worldVars
<1>1. log \in Seq(Events) /\ Len(log) \in Nat
  BY LenProperties DEF TypeInv, TypeOK
<1>2. ASSUME NEW p \in Procs, AppendReturns(p) PROVE log' = log
  BY <1>2 DEF AppendReturns, Refuse, ApplyRecord, MarkUnavailable, WaitConfirmed
<1>3. ASSUME NEW p \in Procs, NEW e, Enqueue(p, e) PROVE log' = log
  BY <1>3 DEF Enqueue
<1>4. ASSUME NEW r \in Requests, BeginRequest(r) \/ RequestStep(r) PROVE log' = log
  BY <1>4 DEF BeginRequest, RequestStep, BeginReturns, Admit, GiveUp, ReserveReturns, CommitPin,
              StartReturns, SettleUnserved, CallProvider, ProviderReturns, SettleReturns,
              FinalizeReturns
<1>5. ASSUME NEW u \in Runs, CloseRun(u) \/ CloseProceeds(u) \/ CloseReturns(u) \/ Expire(u)
      PROVE  log' = log
  BY <1>5 DEF CloseRun, CloseProceeds, CloseReturns, Expire
<1>6. ASSUME Crash \/ Startup PROVE log' = log
  BY <1>2, <1>3, <1>6, ProcsDistinct
     DEF Crash, Startup, Replay, ReplayDone, RecoverLease, RecoverReturns, RecoverDone
<1>7. CASE Writer
  <2>1. PICK n \in BatchSizes : WriteBatch(n) \/ WriteFails(n) \/ DropBatch(n)
    BY <1>7 DEF Writer
  <2>2. (\E k \in 0..n : log' = log \o Batch(k)) \/ log' = log
    <3>1. n \in 0..n
      BY BoundAssumption DEF BatchSizes
    <3> QED BY <2>1, <3>1 DEF WriteBatch, WriteFails, DropBatch
  <2>3. ASSUME NEW k \in 0..n, log' = log \o Batch(k)
        PROVE  /\ Len(log') \in Nat /\ Len(log) <= Len(log')
               /\ \A i \in 1..Len(log) : log'[i] = log[i]
    <3>1. Batch(k) \in Seq(Events) /\ Len(Batch(k)) = k /\ k \in Nat
      BY BatchType, BoundAssumption DEF TypeInv, BatchSizes
    <3> QED BY <1>1, <2>3, <3>1, ConcatProperties
  <2> QED BY <1>1, <2>2, <2>3
<1>8. ASSUME Terminated \/ UNCHANGED vars PROVE log' = log
  BY <1>8 DEF Terminated, vars
<1> QED BY <1>1, <1>2, <1>3, <1>4, <1>5, <1>6, <1>7, <1>8, ProcsDistinct
        DEF Next, AppendStep, CloseStep

\* What a request appends depends on nothing but its own control state.
LEMMA EventOfSame ==
  ASSUME NEW r \in Requests, pc'[r] = pc[r], att'[r] = att[r], bill'[r] = bill[r]
  PROVE  EventOf(r)' = EventOf(r) /\ Current(r)' = Current(r)
BY DEF EventOf, Current

\* What was in the log stays there.
LEMMA CallLoggedStays ==
  ASSUME TypeInv, [Next]_vars, NEW a, CallLogged(a)
  PROVE  CallLogged(a)'
BY LogGrows DEF CallLogged

\* A call is backed for ever if it was when it was made.
LEMMA BackedStays ==
  ASSUME TypeInv, [Next]_vars, ProviderCallBacked, \A a \in called' \ called : CallLogged(a)
  PROVE  ProviderCallBacked'
<1>1. DOMAIN log = 1..Len(log)
  BY LenProperties DEF TypeInv, TypeOK
<1>2. log' \in Seq(Events)
  BY TypeNext DEF TypeInv, TypeOK
<1>3. DOMAIN log' = 1..Len(log')
  BY <1>2, LenProperties
<1>4. \A a \in called : CallLogged(a)
  BY <1>1 DEF ProviderCallBacked, CallLogged
<1>5. ASSUME NEW a \in called' PROVE CallLogged(a)'
  BY <1>4, CallLoggedStays
<1> QED BY <1>3, <1>5 DEF ProviderCallBacked, CallLogged

\* A request that is not waiting for the writer has nothing in the queue.
LEMMA NotQueued ==
  ASSUME QueueOwned, NEW r \in Requests, io[r] # "queued" \/ pc[r] \notin Appending
  PROVE  \A i \in 1..Len(queue) : queue[i].proc # r
BY DEF QueueOwned

\* A request moves on to its next point.
LEMMA CallGoto ==
  ASSUME TypeInv, QueueOwned, RecordsLogged, NEW r \in Requests, NEW x, Goto(r, x),
         io[r] # "queued" \/ pc[r] \notin Appending,
         \A q \in Requests \ {r} : att'[q] = att[q] /\ bill'[q] = bill[q],
         log' = log, queue' = queue
  PROVE  /\ QueueOwned' /\ RecordsLogged'
         /\ \A q \in Requests \ {r} : /\ pc'[q] = pc[q] /\ io'[q] = io[q] /\ seq'[q] = seq[q]
                                      /\ EventOf(q)' = EventOf(q) /\ Current(q)' = Current(q)
         /\ pc'[r] = x /\ io'[r] = "none"
<1>1. /\ pc \in [Procs -> RequestPoints \cup ClosePoints \cup {"recover"}]
      /\ io \in [Procs -> IoPoints] /\ seq \in [Procs -> Nat]
  BY DEF TypeInv, TypeOK
<1>2. /\ \A q \in Requests \ {r} : pc'[q] = pc[q] /\ io'[q] = io[q] /\ seq'[q] = seq[q]
      /\ pc'[r] = x /\ io'[r] = "none"
  BY <1>1, ProcsDistinct DEF Goto
<1>3. \A q \in Requests \ {r} : EventOf(q)' = EventOf(q) /\ Current(q)' = Current(q)
  BY <1>2, EventOfSame
<1>4. QueueOwned'
  BY <1>2, <1>3, NotQueued DEF QueueOwned
<1>5. RecordsLogged'
  BY <1>2, <1>3 DEF RecordsLogged, LoggedIo
<1> QED BY <1>2, <1>3, <1>4, <1>5

\* The other requests keep what the log holds for them.
LEMMA CallsStay ==
  ASSUME TypeInv, [Next]_vars, CallsLogged, NEW r \in Requests,
         pc'[r] = pc[r], Current(r)' = Current(r),
         io'[r] \in LoggedIo => (io[r] \in LoggedIo /\ seq'[r] = seq[r]) \/ seq'[r] > Len(log)
  PROVE  /\ pc'[r] \in {"reserved", "start"} => LeaseLogged(r)'
         /\ pc'[r] = "calling" => CallLogged(Current(r))'
<1>1. ASSUME LeaseLogged(r) PROVE LeaseLogged(r)'
  <2>1. PICK i \in 1..Len(log) : /\ log[i] = ReservationCreated(Current(r))
                                 /\ io[r] \in LoggedIo => i < seq[r]
    BY <1>1 DEF LeaseLogged
  <2>2. i \in 1..Len(log') /\ log'[i] = ReservationCreated(Current(r)')
    BY <2>1, LogGrows
  <2>3. io'[r] \in LoggedIo => i < seq'[r]
    <3>1. seq' \in [Procs -> Nat]
      BY TypeNext DEF TypeInv, TypeOK
    <3>2. seq'[r] \in Nat /\ Len(log) \in Nat
      BY <3>1, LogGrows, ProcsDistinct
    <3> QED BY <2>1, <3>2
  <2>4. ReservationCreated(Current(r))' = ReservationCreated(Current(r)')
    BY DEF ReservationCreated
  <2> QED BY <2>2, <2>3, <2>4 DEF LeaseLogged
<1>2. ASSUME CallLogged(Current(r)) PROVE CallLogged(Current(r))'
  BY <1>2, LogGrows DEF CallLogged, ReservationCreated, AttemptStarted
<1> QED BY <1>1, <1>2 DEF CallsLogged

-----------------------------------------------------------------------------
(* The steps of an append *)

\* A step that is no request's own and writes nothing.
LEMMA CallSame ==
  ASSUME TypeInv, CallInv, [Next]_vars, log' = log, queue' = queue, called' = called,
         \A r \in Requests : /\ pc'[r] = pc[r] /\ att'[r] = att[r] /\ bill'[r] = bill[r]
                             /\ io'[r] = io[r] /\ seq'[r] = seq[r]
  PROVE  CallInv'
<1>1. \A r \in Requests : EventOf(r)' = EventOf(r) /\ Current(r)' = Current(r)
  BY EventOfSame
<1>2. QueueOwned'
  BY <1>1 DEF CallInv, QueueOwned
<1>3. RecordsLogged'
  BY <1>1 DEF CallInv, RecordsLogged
<1>4. CallsLogged'
  BY <1>1, CallsStay DEF CallInv, CallsLogged
<1>5. ProviderCallBacked'
  BY DEF CallInv, ProviderCallBacked
<1> QED BY <1>2, <1>3, <1>4, <1>5 DEF CallInv

\* A request's own append moves on, with nothing of it in the queue before or after.
LEMMA CallAppend ==
  ASSUME TypeInv, CallInv, [Next]_vars, NEW p \in Procs, AppendReturns(p)
  PROVE  CallInv'
<1> USE DEF ledgerVars, admissionVars, controlVars, worldVars
<1>1. PICK y \in IoPoints \ {"queued"} :
        /\ io' = [io EXCEPT ![p] = y] /\ io[p] # "queued"
        /\ y \in LoggedIo => io[p] \in LoggedIo
  BY DEF AppendReturns, Refuse, ApplyRecord, MarkUnavailable, WaitConfirmed, IoPoints, LoggedIo
<1>2. UNCHANGED <<log, queue, called, pc, att, bill, seq>>
  BY DEF AppendReturns, Refuse, ApplyRecord, MarkUnavailable, WaitConfirmed
<1>3. \A r \in Requests : EventOf(r)' = EventOf(r) /\ Current(r)' = Current(r)
  BY <1>2, EventOfSame
<1>4. \A r \in Requests : io'[r] = IF r = p THEN y ELSE io[r]
  BY <1>1, ProcsDistinct DEF TypeInv, TypeOK
<1>5. QueueOwned'
  BY <1>1, <1>2, <1>3, <1>4 DEF CallInv, QueueOwned
<1>6. RecordsLogged'
  BY <1>1, <1>2, <1>3, <1>4 DEF CallInv, RecordsLogged
<1>7. CallsLogged'
  BY <1>1, <1>2, <1>3, <1>4, CallsStay DEF CallInv, CallsLogged
<1>8. ProviderCallBacked'
  BY <1>2 DEF CallInv, ProviderCallBacked
<1> QED BY <1>5, <1>6, <1>7, <1>8 DEF CallInv

\* A record is handed to the writer; a request hands over the one it waits for.
LEMMA CallEnqueue ==
  ASSUME TypeInv, CallInv, [Next]_vars, NEW p \in Procs, NEW e, Enqueue(p, e),
         p \in Requests => e = EventOf(p)
  PROVE  CallInv'
<1> USE DEF ledgerVars, admissionVars, controlVars, worldVars
<1>1. UNCHANGED <<log, called, pc, att, bill, seq>> /\ pc[p] \in Appending /\ io[p] = "none"
  BY DEF Enqueue
<1>2. \A r \in Requests : EventOf(r)' = EventOf(r) /\ Current(r)' = Current(r)
  BY <1>1, EventOfSame
<1>3. \A r \in Requests : io'[r] = IF r = p THEN "queued" ELSE io[r]
  BY ProcsDistinct DEF Enqueue, TypeInv, TypeOK
<1>4. /\ Len(queue) \in Nat /\ Len(queue') = Len(queue) + 1
      /\ \A i \in 1..Len(queue) : queue'[i] = queue[i]
      /\ queue'[Len(queue) + 1] = [proc |-> p, event |-> e]
  BY DEF Enqueue, TypeInv, TypeOK
<1>5. QueueOwned'
  <2>1. p \in Requests => \A i \in 1..Len(queue) : queue[i].proc # p
    BY <1>1, NotQueued DEF CallInv
  <2>2. \A k \in 1..Len(queue') :
          \/ k \in 1..Len(queue) /\ queue'[k] = queue[k]
          \/ k = Len(queue) + 1 /\ queue'[k].proc = p /\ queue'[k].event = e
    BY <1>4
  <2>3. ASSUME NEW i \in 1..Len(queue'), NEW r \in Requests, queue'[i].proc = r
        PROVE  io'[r] = "queued" /\ pc'[r] \in Appending /\ queue'[i].event = EventOf(r)'
    <3>1. CASE i \in 1..Len(queue) /\ queue'[i] = queue[i]
      <4>1. io[r] = "queued" /\ pc[r] \in Appending /\ queue[i].event = EventOf(r)
        BY <2>3, <3>1 DEF CallInv, QueueOwned
      <4> QED BY <1>1, <1>2, <1>3, <3>1, <4>1
    <3>2. CASE queue'[i].proc = p /\ queue'[i].event = e
      BY <1>1, <1>2, <1>3, <2>3, <3>2
    <3> QED BY <2>2, <3>1, <3>2
  <2>4. ASSUME NEW i \in 1..Len(queue'), NEW j \in 1..Len(queue'),
               queue'[i].proc \in Requests, queue'[i].proc = queue'[j].proc
        PROVE  i = j
    BY <2>1, <2>2, <2>4 DEF CallInv, QueueOwned
  <2> QED BY <2>3, <2>4 DEF QueueOwned
<1>6. RecordsLogged'
  BY <1>1, <1>2, <1>3 DEF CallInv, RecordsLogged, LoggedIo
<1>7. CallsLogged'
  BY <1>1, <1>2, <1>3, CallsStay DEF CallInv, CallsLogged, LoggedIo
<1>8. ProviderCallBacked'
  BY <1>1 DEF CallInv, ProviderCallBacked
<1> QED BY <1>5, <1>6, <1>7, <1>8 DEF CallInv

\* What is left in the queue after a batch was what stood behind it.
LEMMA QueueRest ==
  ASSUME TypeInv, NEW n \in BatchSizes, queue' = SubSeq(queue, n + 1, Len(queue))
  PROVE  /\ n \in 1..Len(queue) /\ Len(queue) \in Nat /\ Len(queue') = Len(queue) - n
         /\ \A i \in 1..Len(queue') : queue'[i] = queue[n + i]
<1>1. queue \in Seq(AppendRequests)
  BY DEF TypeInv, TypeOK
<1>2. Len(queue) \in Nat /\ \A i \in 1..Len(queue) : queue[i] \in AppendRequests
  BY <1>1, LenProperties, ElementOfSeq
<1>3. n \in 1..Len(queue)
  BY <1>2, BoundAssumption DEF BatchSizes
<1>4. n + 1 \in Int /\ Len(queue) \in Int /\ \A i \in n + 1 .. Len(queue) : queue[i] \in AppendRequests
  BY <1>2, <1>3
<1>5. /\ Len(queue') = IF n + 1 <= Len(queue) THEN Len(queue) - (n + 1) + 1 ELSE 0
      /\ \A i \in 1..Len(queue) - (n + 1) + 1 : queue'[i] = queue[n + 1 + i - 1]
  BY <1>4, SubSeqProperties
<1> QED BY <1>2, <1>3, <1>5

\* The writer answers a batch: its records are in the log at the numbers it returns,
\* or its callers are told of the failure.
LEMMA CallWriter ==
  ASSUME TypeInv, CallInv, [Next]_vars, Writer
  PROVE  CallInv'
<1> USE DEF ledgerVars, admissionVars, controlVars, worldVars
<1>1. PICK n \in BatchSizes : WriteBatch(n) \/ WriteFails(n) \/ DropBatch(n)
  BY DEF Writer
<1>2. UNCHANGED <<called, pc, att, bill>> /\ queue' = SubSeq(queue, n + 1, Len(queue))
  BY <1>1 DEF WriteBatch, WriteFails, DropBatch
<1>3. \A r \in Requests : EventOf(r)' = EventOf(r) /\ Current(r)' = Current(r)
  BY <1>2, EventOfSame
<1>4. /\ n \in 1..Len(queue) /\ Len(queue) \in Nat /\ Len(queue') = Len(queue) - n
      /\ \A i \in 1..Len(queue') : queue'[i] = queue[n + i]
  BY <1>2, QueueRest
<1>5. \A r \in Requests : ~InBatch(n, r) => io'[r] = io[r] /\ seq'[r] = seq[r]
  BY <1>1, ProcsDistinct DEF WriteBatch, WriteFails, DropBatch
<1>6. ASSUME NEW r \in Requests, InBatch(n, r)
      PROVE  \/ io'[r] = "err"
             \/ /\ WriteBatch(n) /\ io'[r] = "durable"
                /\ \E k \in 1..n : queue[k].proc = r /\ seq'[r] = Len(log) + k
  <2>1. CASE WriteBatch(n)
    <3>1. r \in Procs
      BY ProcsDistinct
    <3>2. /\ io'[r] = "durable"
          /\ seq'[r] = Len(log) + CHOOSE i \in 1..n : queue[i].proc = r
      BY <1>6, <2>1, <3>1 DEF WriteBatch
    <3>3. /\ (CHOOSE i \in 1..n : queue[i].proc = r) \in 1..n
          /\ queue[CHOOSE i \in 1..n : queue[i].proc = r].proc = r
      BY <1>6 DEF InBatch
    <3> QED BY <2>1, <3>2, <3>3
  <2>2. CASE WriteFails(n) \/ DropBatch(n)
    BY <1>6, <2>2, ProcsDistinct DEF WriteFails, DropBatch
  <2> QED BY <1>1, <2>1, <2>2
<1>7. QueueOwned'
  <2>1. ASSUME NEW i \in 1..Len(queue'), NEW r \in Requests, queue'[i].proc = r
        PROVE  io'[r] = "queued" /\ pc'[r] \in Appending /\ queue'[i].event = EventOf(r)'
    <3>1. n + i \in 1..Len(queue) /\ queue'[i] = queue[n + i]
      BY <1>4
    <3>2. io[r] = "queued" /\ pc[r] \in Appending /\ queue[n + i].event = EventOf(r)
      BY <2>1, <3>1 DEF CallInv, QueueOwned
    <3>3. ASSUME NEW k \in 1..n, queue[k].proc = r PROVE FALSE
      <4>1. k \in 1..Len(queue) /\ k # n + i
        BY <1>4
      <4>2. \A a, b \in 1..Len(queue) :
              queue[a].proc \in Requests /\ queue[a].proc = queue[b].proc => a = b
        BY DEF CallInv, QueueOwned
      <4>3. queue[k].proc \in Requests /\ queue[k].proc = queue[n + i].proc
        BY <2>1, <3>1, <3>3
      <4> QED BY <3>1, <4>1, <4>2, <4>3
    <3>4. io'[r] = io[r]
      BY <1>5, <3>3 DEF InBatch
    <3> QED BY <1>2, <1>3, <3>1, <3>2, <3>4
  <2>2. ASSUME NEW i \in 1..Len(queue'), NEW j \in 1..Len(queue'),
               queue'[i].proc \in Requests, queue'[i].proc = queue'[j].proc
        PROVE  i = j
    <3>1. n + i \in 1..Len(queue) /\ n + j \in 1..Len(queue)
      BY <1>4
    <3>2. queue[n + i].proc \in Requests /\ queue[n + i].proc = queue[n + j].proc
      BY <1>4, <2>2
    <3>3. n + i = n + j
      BY <3>1, <3>2 DEF CallInv, QueueOwned
    <3> QED BY <1>4, <3>3
  <2> QED BY <2>1, <2>2 DEF QueueOwned
<1>8. RecordsLogged'
  <2> SUFFICES ASSUME NEW r \in Requests, io'[r] \in LoggedIo
               PROVE  seq'[r] \in 1..Len(log') /\ log'[seq'[r]] = EventOf(r)'
    BY DEF RecordsLogged
  <2>1. CASE ~InBatch(n, r)
    <3>1. io'[r] = io[r] /\ seq'[r] = seq[r]
      BY <1>5, <2>1
    <3>2. seq[r] \in 1..Len(log) /\ log[seq[r]] = EventOf(r)
      BY <3>1 DEF CallInv, RecordsLogged
    <3> QED BY <1>3, <3>1, <3>2, LogGrows
  <2>2. CASE InBatch(n, r)
    <3>1. WriteBatch(n) /\ \E k \in 1..n : queue[k].proc = r /\ seq'[r] = Len(log) + k
      BY <1>6, <2>2 DEF LoggedIo
    <3>2. PICK k \in 1..n : queue[k].proc = r /\ seq'[r] = Len(log) + k
      BY <3>1
    <3>3. queue[k].event = EventOf(r)
      BY <1>4, <3>2 DEF CallInv, QueueOwned
    <3>4. Batch(n) \in Seq(Events) /\ Len(Batch(n)) = n /\ log \in Seq(Events) /\ n \in Nat
      BY <1>4, BatchType, BoundAssumption DEF TypeInv, TypeOK, BatchSizes
    <3>5. Batch(n)[k] = queue[k].event
      BY DEF Batch
    <3>6. log' = log \o Batch(n)
      BY <3>1 DEF WriteBatch
    <3>7. /\ Len(log') = Len(log) + n
          /\ \A i \in 1..Len(log) + n :
               log'[i] = IF i <= Len(log) THEN log[i] ELSE Batch(n)[i - Len(log)]
      BY <3>4, <3>6, ConcatProperties
    <3>8. Len(log) + k \in 1..Len(log) + n /\ ~(Len(log) + k <= Len(log)) /\ Len(log) + k - Len(log) = k
      BY <3>4, LogGrows
    <3>9. log'[Len(log) + k] = Batch(n)[k]
      BY <3>7, <3>8
    <3> QED BY <1>3, <3>2, <3>3, <3>5, <3>7, <3>8, <3>9
  <2> QED BY <2>1, <2>2
<1>9. CallsLogged'
  <2>1. ASSUME NEW r \in Requests
        PROVE  io'[r] \in LoggedIo => (io[r] \in LoggedIo /\ seq'[r] = seq[r]) \/ seq'[r] > Len(log)
    <3>1. CASE ~InBatch(n, r)
      BY <1>5, <3>1
    <3>2. CASE InBatch(n, r)
      BY <1>4, <1>6, <3>2, LogGrows DEF LoggedIo
    <3> QED BY <3>1, <3>2
  <2> QED BY <1>2, <1>3, <2>1, CallsStay DEF CallInv, CallsLogged
<1>10. ProviderCallBacked'
  BY <1>2, BackedStays DEF CallInv
<1> QED BY <1>7, <1>8, <1>9, <1>10 DEF CallInv

-----------------------------------------------------------------------------
(* The steps of a request *)

\* r reaches the points before the provider call only in their order, and a reservation
\* or a start takes it there only once its append has answered.
MovesTo(r, x) ==
  /\ Goto(r, x)
  /\ x \in {"reserved", "start", "calling"} => att' = att
  /\ x = "reserved" => pc[r] = "reserve" /\ io[r] = "ok"
  /\ x = "start" => pc[r] = "reserved"
  /\ x = "calling" => pc[r] = "start" /\ io[r] = "ok"

\* A request's own step ends an append or starts the next one.
LEMMA RequestMoves ==
  ASSUME TypeInv, NEW r \in Requests, BeginRequest(r) \/ RequestStep(r)
  PROVE  /\ log' = log /\ queue' = queue
         /\ io[r] # "queued" \/ pc[r] \notin Appending
         /\ \A q \in Requests \ {r} : att'[q] = att[q] /\ bill'[q] = bill[q]
         /\ called' = called \/ (pc[r] = "calling" /\ called' = called \cup {Current(r)})
         /\ \E x : MovesTo(r, x)
<1> USE DEF ledgerVars, admissionVars, controlVars, worldVars, MovesTo
<1>1. att \in [Requests -> 1..MaxAttempts] /\ bill \in [Requests -> Nat]
  BY DEF TypeInv, TypeOK
<1>2. CASE BeginRequest(r) BY <1>2 DEF BeginRequest, Appending
<1>3. CASE BeginReturns(r) BY <1>3 DEF BeginReturns
<1>4. CASE Admit(r) BY <1>4 DEF Admit, Appending
<1>5. CASE GiveUp(r) BY <1>5 DEF GiveUp, Appending
<1>6. CASE ReserveReturns(r) BY <1>6 DEF ReserveReturns
<1>7. CASE CommitPin(r) BY <1>7 DEF CommitPin, Appending
<1>8. CASE StartReturns(r) BY <1>8 DEF StartReturns
<1>9. CASE SettleUnserved(r)
  <2>1. \A q \in Requests \ {r} : bill'[q] = bill[q]
    BY <1>1, <1>9 DEF SettleUnserved
  <2> QED BY <1>9, <2>1 DEF SettleUnserved, Appending
<1>10. CASE CallProvider(r) BY <1>10 DEF CallProvider, Appending
<1>11. CASE ProviderReturns(r)
  <2>1. \A q \in Requests \ {r} : bill'[q] = bill[q]
    BY <1>1, <1>11 DEF ProviderReturns
  <2> QED BY <1>11, <2>1 DEF ProviderReturns, Appending
<1>12. CASE SettleReturns(r)
  <2>1. \A q \in Requests \ {r} : att'[q] = att[q] /\ bill'[q] = bill[q]
    BY <1>1, <1>12 DEF SettleReturns
  <2>2. Goto(r, "ready") \/ Goto(r, "finalize")
    BY <1>12 DEF SettleReturns
  <2> QED BY <1>12, <2>1, <2>2 DEF SettleReturns
<1>13. CASE FinalizeReturns(r) BY <1>13 DEF FinalizeReturns
<1> QED BY <1>2, <1>3, <1>4, <1>5, <1>6, <1>7, <1>8, <1>9, <1>10, <1>11, <1>12, <1>13
        DEF RequestStep

\* A reservation and a start count only once their append has answered.
LEMMA CallRequest ==
  ASSUME TypeInv, CallInv, [Next]_vars, NEW r \in Requests, BeginRequest(r) \/ RequestStep(r)
  PROVE  CallInv'
<1>1. PICK x : MovesTo(r, x)
  BY RequestMoves
<1>2. /\ log' = log /\ queue' = queue
      /\ io[r] # "queued" \/ pc[r] \notin Appending
      /\ \A q \in Requests \ {r} : att'[q] = att[q] /\ bill'[q] = bill[q]
      /\ called' = called \/ (pc[r] = "calling" /\ called' = called \cup {Current(r)})
  BY RequestMoves
<1>3. /\ QueueOwned' /\ RecordsLogged'
      /\ \A q \in Requests \ {r} : /\ pc'[q] = pc[q] /\ io'[q] = io[q] /\ seq'[q] = seq[q]
                                   /\ EventOf(q)' = EventOf(q) /\ Current(q)' = Current(q)
      /\ pc'[r] = x /\ io'[r] = "none"
  <2>1. QueueOwned /\ RecordsLogged /\ Goto(r, x)
    BY <1>1 DEF CallInv, MovesTo
  <2> QED BY <1>2, <2>1, CallGoto
<1>4. CallsLogged'
  <2>1. ASSUME NEW q \in Requests \ {r}
        PROVE  /\ pc'[q] \in {"reserved", "start"} => LeaseLogged(q)'
               /\ pc'[q] = "calling" => CallLogged(Current(q))'
    BY <1>3, CallsStay DEF CallInv
  <2>2. x \in {"reserved", "start", "calling"} => Current(r)' = Current(r)
    BY <1>1 DEF Current, MovesTo
  <2>3. CASE x = "reserved"
    <3>1. /\ seq[r] \in 1..Len(log) /\ log[seq[r]] = ReservationCreated(Current(r))
      BY <1>1, <2>3 DEF CallInv, MovesTo, RecordsLogged, LoggedIo, EventOf
    <3>2. LeaseLogged(r)'
      BY <1>2, <1>3, <2>2, <2>3, <3>1 DEF LeaseLogged, LoggedIo, ReservationCreated
    <3> QED BY <1>3, <2>1, <2>3, <3>2 DEF CallsLogged
  <2>4. CASE x = "start"
    <3>1. LeaseLogged(r)
      BY <1>1, <2>4 DEF CallInv, MovesTo, CallsLogged
    <3>2. LeaseLogged(r)'
      BY <1>2, <1>3, <2>2, <2>4, <3>1 DEF LeaseLogged, LoggedIo, ReservationCreated
    <3> QED BY <1>3, <2>1, <2>4, <3>2 DEF CallsLogged
  <2>5. CASE x = "calling"
    <3>1. seq[r] \in 1..Len(log) /\ log[seq[r]] = AttemptStarted(Current(r))
      BY <1>1, <2>5 DEF CallInv, MovesTo, RecordsLogged, LoggedIo, EventOf
    <3>2. LeaseLogged(r) /\ io[r] \in LoggedIo
      BY <1>1, <2>5 DEF CallInv, MovesTo, CallsLogged, LoggedIo
    <3>3. CallLogged(Current(r))
      BY <3>1, <3>2 DEF LeaseLogged, CallLogged
    <3>4. CallLogged(Current(r))'
      BY <1>2, <2>2, <2>5, <3>3 DEF CallLogged, ReservationCreated, AttemptStarted
    <3> QED BY <1>3, <2>1, <2>5, <3>4 DEF CallsLogged
  <2>6. CASE x \notin {"reserved", "start", "calling"}
    BY <1>3, <2>1, <2>6 DEF CallsLogged
  <2> QED BY <2>3, <2>4, <2>5, <2>6
<1>5. ProviderCallBacked'
  <2>1. \A a \in called' \ called : CallLogged(a)
    BY <1>2 DEF CallInv, CallsLogged
  <2> QED BY <2>1, BackedStays DEF CallInv
<1> QED BY <1>3, <1>4, <1>5 DEF CallInv

-----------------------------------------------------------------------------

LEMMA CallInit == Init => CallInv
<1> SUFFICES ASSUME Init PROVE CallInv
  OBVIOUS
<1>1. Len(queue) = 0 /\ called = {}
  BY DEF Init
<1>2. \A r \in Requests : pc[r] = "idle" /\ io[r] = "none"
  BY ProcsDistinct DEF Init
<1> QED BY <1>1, <1>2
        DEF CallInv, QueueOwned, RecordsLogged, CallsLogged, ProviderCallBacked, LoggedIo

\* A process that starts afresh holds nothing of a request but what is in the log.
LEMMA CallCrash ==
  ASSUME TypeInv, CallInv, [Next]_vars, Crash
  PROVE  CallInv'
<1> USE DEF ledgerVars, admissionVars, controlVars, worldVars
<1>1. Len(queue') = 0 /\ called' = called
  BY DEF Crash
<1>2. \A r \in Requests : pc'[r] \in {"idle", "done"} /\ io'[r] = "none"
  BY ProcsDistinct DEF Crash
<1>3. ProviderCallBacked'
  BY <1>1, BackedStays DEF CallInv
<1> QED BY <1>1, <1>2, <1>3 DEF CallInv, QueueOwned, RecordsLogged, CallsLogged, LoggedIo

\* Another goroutine moves on.
LEMMA OthersGoto ==
  ASSUME TypeInv, NEW p \in Procs \ Requests, NEW x, Goto(p, x)
  PROVE  \A r \in Requests : pc'[r] = pc[r] /\ io'[r] = io[r] /\ seq'[r] = seq[r]
BY ProcsDistinct DEF Goto, TypeInv, TypeOK

LEMMA CallNext == TypeInv /\ CallInv /\ [Next]_vars => CallInv'
<1> SUFFICES ASSUME TypeInv, CallInv, [Next]_vars PROVE CallInv'
  OBVIOUS
<1> USE DEF ledgerVars, admissionVars, controlVars, worldVars
<1>1. CASE Writer
  BY <1>1, CallWriter
<1>2. ASSUME NEW r \in Requests, BeginRequest(r) \/ RequestStep(r) PROVE CallInv'
  BY <1>2, CallRequest
<1>3. ASSUME NEW p \in Requests \cup Runs, AppendStep(p) PROVE CallInv'
  BY <1>3, CallAppend, CallEnqueue, ProcsDistinct DEF AppendStep
<1>4. ASSUME NEW u \in Runs, CloseRun(u) \/ CloseProceeds(u) \/ CloseReturns(u) PROVE CallInv'
  <2>1. UNCHANGED <<log, queue, called, att, bill>> /\ \E x : Goto(u, x)
    BY <1>4 DEF CloseRun, CloseProceeds, CloseReturns
  <2>2. u \in Procs \ Requests
    BY ProcsDistinct
  <2>3. \A r \in Requests : pc'[r] = pc[r] /\ io'[r] = io[r] /\ seq'[r] = seq[r]
    BY <2>1, <2>2, OthersGoto
  <2> QED BY <2>1, <2>3, CallSame
<1>5. ASSUME NEW u \in Runs, Expire(u) PROVE CallInv'
  BY <1>5, CallSame DEF Expire
<1>6. CASE ReplayDone \/ RecoverReturns \/ RecoverDone
  <2>1. UNCHANGED <<log, queue, called, att, bill>> /\ \E x : Goto(Recovery, x)
    BY <1>6 DEF ReplayDone, RecoverReturns, RecoverDone
  <2>2. Recovery \in Procs \ Requests
    BY ProcsDistinct
  <2>3. \A r \in Requests : pc'[r] = pc[r] /\ io'[r] = io[r] /\ seq'[r] = seq[r]
    BY <2>1, <2>2, OthersGoto
  <2> QED BY <2>1, <2>3, CallSame
<1>7. CASE Replay
  BY <1>7, CallSame DEF Replay
<1>8. CASE RecoverLease
  BY <1>8, CallEnqueue, ProcsDistinct DEF RecoverLease
<1>9. CASE AppendReturns(Recovery)
  BY <1>9, CallAppend, ProcsDistinct
<1>10. CASE Crash
  BY <1>10, CallCrash
<1>11. CASE Terminated \/ UNCHANGED vars
  BY <1>11, CallSame DEF Terminated, vars
<1> QED BY <1>1, <1>2, <1>3, <1>4, <1>5, <1>6, <1>7, <1>8, <1>9, <1>10, <1>11
        DEF Next, CloseStep, Startup

\* No provider receives a request whose reservation and start a crash could erase:
\* when it is called both are in the durable log, the reservation first, for any number
\* of requests, batches, write failures, crashes and restarts.
THEOREM ProviderCallsBacked == Spec => []ProviderCallBacked
<1>1. CallInv => ProviderCallBacked
  BY DEF CallInv
<1> QED BY <1>1, TypeInit, TypeNext, CallInit, CallNext, PTL DEF Spec
=============================================================================
