----------------------- MODULE AccountingBudgetProofs -----------------------
(***************************************************************************)
(* The budgets are ceilings. Each attempt takes at most its reservation of *)
(* a budget, from its promise to its settlement; an admission is the only  *)
(* step that makes one take more, and what it looks at, the balance and    *)
(* the promises, covers everything the attempts take.                      *)
(***************************************************************************)
EXTENDS AccountingHistoryProofs

-----------------------------------------------------------------------------
(* Sums *)

\* A sum over a finite set grows with its terms.
LEMMA TotalLe ==
  ASSUME NEW S, IsFiniteSet(S), NEW f, NEW g,
         \A a \in S : f[a] \in Nat /\ g[a] \in Nat /\ f[a] <= g[a]
  PROVE  Total(f, S) <= Total(g, S)
<1>1. Units(f, S) \subseteq Units(g, S)
  <2>1. \A a \in S : 1..f[a] \subseteq 1..g[a]
    OBVIOUS
  <2> QED BY <2>1 DEF Units
<1>2. IsFiniteSet(Units(g, S))
  BY UnitsFinite
<1> QED BY <1>1, <1>2, FS_Subset DEF Total

\* A sum depends on the terms alone.
LEMMA TotalSame ==
  ASSUME NEW S, NEW f, NEW g, \A a \in S : f[a] = g[a]
  PROVE  Total(f, S) = Total(g, S)
<1>1. Units(f, S) = Units(g, S)
  BY DEF Units
<1> QED BY <1>1 DEF Total

\* The sum over a part is the sum of what is counted for it.
LEMMA TotalPart ==
  ASSUME NEW S, NEW T, NEW f, NEW g, \A a \in S : g[a] = IF a \in T THEN f[a] ELSE 0
  PROVE  Total(g, S) = Total(f, T \cap S)
<1>1. ASSUME NEW x \in Units(g, S) PROVE x \in Units(f, T \cap S)
  <2>1. PICK a \in S : x \in {a} \X (1..g[a])
    BY <1>1 DEF Units
  <2>2. a \in T
    BY <2>1
  <2> QED BY <2>1, <2>2 DEF Units
<1>2. ASSUME NEW x \in Units(f, T \cap S) PROVE x \in Units(g, S)
  <2>1. PICK a \in T \cap S : x \in {a} \X (1..f[a])
    BY <1>2 DEF Units
  <2> QED BY <2>1 DEF Units
<1>3. Units(g, S) = Units(f, T \cap S)
  BY <1>1, <1>2
<1> QED BY <1>3 DEF Total

\* The units of a sum, told by their attempt and their number.
LEMMA UnitsMember ==
  ASSUME NEW S, NEW f
  PROVE  /\ \A a \in S : \A k \in 1..f[a] : <<a, k>> \in Units(f, S)
         /\ \A x \in Units(f, S) : x[1] \in S /\ x[2] \in 1..f[x[1]] /\ x = <<x[1], x[2]>>
<1>1. ASSUME NEW a \in S, NEW k \in 1..f[a] PROVE <<a, k>> \in Units(f, S)
  <2>1. <<a, k>> \in {a} \X (1..f[a])
    OBVIOUS
  <2> QED BY <2>1 DEF Units
<1>2. ASSUME NEW x \in Units(f, S) PROVE x[1] \in S /\ x[2] \in 1..f[x[1]] /\ x = <<x[1], x[2]>>
  <2>1. PICK a \in S : x \in {a} \X (1..f[a])
    BY <1>2 DEF Units
  <2> QED BY <2>1
<1> QED BY <1>1, <1>2

\* The sum of sums.
LEMMA TotalSum ==
  ASSUME NEW S, IsFiniteSet(S), NEW f, NEW g, NEW h,
         \A a \in S : f[a] \in Nat /\ g[a] \in Nat /\ h[a] = f[a] + g[a]
  PROVE  Total(h, S) = Total(f, S) + Total(g, S)
<1> DEFINE F == Units(f, S)
           G == Units(g, S)
           H == Units(h, S)
           m == [x \in G |-> <<x[1], f[x[1]] + x[2]>>]
<1>1. IsFiniteSet(F) /\ IsFiniteSet(G) /\ IsFiniteSet(H)
  <2>1. \A a \in S : h[a] \in Nat
    OBVIOUS
  <2> QED BY <2>1, UnitsFinite
<1>2. F \subseteq H
  <2>1. \A a \in S : 1..f[a] \subseteq 1..h[a]
    OBVIOUS
  <2> QED BY <2>1 DEF Units
<1>3. ASSUME NEW x \in G PROVE m[x] \in H \ F
  <2>1. x[1] \in S /\ x[2] \in 1..g[x[1]] /\ m[x] = <<x[1], f[x[1]] + x[2]>>
    BY <1>3, UnitsMember
  <2>2. f[x[1]] + x[2] \in 1..h[x[1]] /\ f[x[1]] + x[2] \notin 1..f[x[1]]
    BY <2>1
  <2>3. m[x][1] = x[1] /\ m[x][2] = f[x[1]] + x[2]
    BY <2>1
  <2>4. m[x] \in H
    BY <2>1, <2>2, UnitsMember
  <2>5. m[x] \notin F
    BY <2>2, <2>3, UnitsMember
  <2> QED BY <2>4, <2>5
<1>4. ASSUME NEW x \in G, NEW y \in G, m[x] = m[y] PROVE x = y
  <2>1. /\ x[1] \in S /\ x[2] \in 1..g[x[1]] /\ x = <<x[1], x[2]>> /\ m[x] = <<x[1], f[x[1]] + x[2]>>
        /\ y[1] \in S /\ y[2] \in 1..g[y[1]] /\ y = <<y[1], y[2]>> /\ m[y] = <<y[1], f[y[1]] + y[2]>>
    BY <1>4, UnitsMember
  <2>2. x[1] = y[1] /\ f[x[1]] + x[2] = f[y[1]] + y[2]
    BY <1>4, <2>1
  <2>3. x[2] = y[2]
    BY <2>1, <2>2
  <2> QED BY <2>1, <2>2, <2>3
<1>5. ASSUME NEW z \in H \ F PROVE \E x \in G : m[x] = z
  <2>1. z[1] \in S /\ z[2] \in 1..h[z[1]] /\ z = <<z[1], z[2]>>
    BY <1>5, UnitsMember
  <2>2. z[2] \notin 1..f[z[1]]
    BY <1>5, <2>1, UnitsMember
  <2>3. z[2] - f[z[1]] \in 1..g[z[1]] /\ f[z[1]] + (z[2] - f[z[1]]) = z[2]
    BY <2>1, <2>2
  <2>4. <<z[1], z[2] - f[z[1]]>> \in G
    BY <2>1, <2>3, UnitsMember
  <2>5. m[<<z[1], z[2] - f[z[1]]>>] = <<z[1], f[z[1]] + (z[2] - f[z[1]])>>
    BY <2>4
  <2> QED BY <2>1, <2>3, <2>4, <2>5
<1>6. m \in Bijection(G, H \ F)
  <2> HIDE DEF G, H, F
  <2>1. m \in [G -> H \ F]
    BY <1>3
  <2> HIDE DEF m
  <2>2. m \in Injection(G, H \ F)
    BY <1>4, <2>1 DEF Injection, IsInjective
  <2>3. m \in Surjection(G, H \ F)
    BY <1>5, <2>1 DEF Surjection
  <2> QED BY <2>2, <2>3 DEF Bijection
<1>7. Cardinality(H \ F) = Cardinality(G)
  <2>1. ExistsBijection(G, H \ F)
    BY <1>6 DEF ExistsBijection
  <2> QED BY <1>1, <2>1, FS_Bijection
<1>8. Cardinality(H) = Cardinality(F) + Cardinality(H \ F)
  <2>1. H \cap F = F
    BY <1>2
  <2>2. Cardinality(H \ F) = Cardinality(H) - Cardinality(H \cap F)
    BY <1>1, FS_Difference
  <2>3. Cardinality(H) \in Nat /\ Cardinality(F) \in Nat
    BY <1>1, FS_CardinalityType
  <2>4. Cardinality(H \ F) = Cardinality(H) - Cardinality(F)
    BY <2>1, <2>2
  <2> HIDE DEF F, H
  <2> QED BY <2>3, <2>4
<1>9. Total(h, S) = Cardinality(H) /\ Total(f, S) = Cardinality(F) /\ Total(g, S) = Cardinality(G)
  BY DEF Total
<1> HIDE DEF F, G, H
<1> QED BY <1>7, <1>8, <1>9

-----------------------------------------------------------------------------
(* What the read model has committed *)

\* What the log settles an attempt at.
CostInv ==
  \A a \in Attempts :
    /\ LoggedCost[a] \in Nat
    /\ \A i \in 1..Len(log) : SettlesAt(a, i) => LoggedCost[a] = log[i].cost
    /\ ~SettledIn(a) => LoggedCost[a] = 0

\* An attempt is settled once, so its cost in the log is the one of that record.
LEMMA CostHolds == KnownInv /\ HistoryInv => CostInv
<1> SUFFICES ASSUME KnownInv, HistoryInv, NEW a \in Attempts
             PROVE  /\ LoggedCost[a] \in Nat
                    /\ \A i \in 1..Len(log) : SettlesAt(a, i) => LoggedCost[a] = log[i].cost
                    /\ ~SettledIn(a) => LoggedCost[a] = 0
  BY DEF CostInv
<1>1. TypeInv /\ LeaseOrdered(a) /\ DOMAIN log = 1..Len(log)
  <2>1. TypeInv /\ log \in Seq(Events)
    BY DEF KnownInv, TypeInv, TypeOK
  <2> QED BY <2>1, LenProperties DEF HistoryInv, LogOrdered
<1>2. Settled(a) <=> SettledIn(a)
  BY <1>1 DEF Settled, SettledIn
<1>3. CASE ~SettledIn(a)
  BY <1>2, <1>3 DEF LoggedCost, SettledIn
<1>4. CASE SettledIn(a)
  <2> DEFINE k == CHOOSE i \in DOMAIN log : SettlesAt(a, i)
  <2>1. PICK n \in 1..Len(log) : SettlesAt(a, n)
    BY <1>4 DEF SettledIn
  <2>2. k \in 1..Len(log) /\ SettlesAt(a, k)
    BY <1>1, <2>1
  <2>3. LoggedCost[a] = log[k].cost
    BY <1>2, <1>4 DEF LoggedCost
  <2> HIDE DEF k
  <2>4. log[k].cost \in Nat
    <3>1. log[k] \in Events /\ log[k].kind = "AttemptSettled"
      BY <1>1, <2>2, RecordForms DEF SettlesAt
    <3> QED BY <3>1, EventKinds
  <2>5. \A i \in 1..Len(log) : SettlesAt(a, i) => i = k
    BY <1>1, <2>2 DEF LeaseOrdered
  <2> QED BY <1>4, <2>3, <2>4, <2>5
<1> QED BY <1>3, <1>4

\* What the read model has read of it.
ReadCost == [a \in Attempts |-> IF ReadSettled(a) THEN LoggedCost[a] ELSE 0]

\* The balance has committed exactly the settlements that were read.
CommittedRead ==
  /\ st.committed = Total(ReadCost, Attempts)
  /\ \A u \in Runs : st.runCommitted[u] = Total(ReadCost, RunAttempts(u))

\* What a record commits.
LEMMA CommittedFields ==
  ASSUME NEW s \in States, NEW e \in Events, NEW n \in Nat
  PROVE  LET t == Apply(s, e, n) IN
         /\ e.kind = "AttemptSettled" => /\ t.committed = s.committed + e.cost
                                         /\ t.runCommitted = AddRun(s.runCommitted, e.att[1], e.cost)
         /\ e.kind # "AttemptSettled" => t.committed = s.committed /\ t.runCommitted = s.runCommitted
<1>1. CASE e.kind = "AttemptSettled"
  BY <1>1 DEF Apply, Effect, ApplyAttemptSettled, States
<1>2. CASE e.kind = "ReservationCreated"
  BY <1>2 DEF Apply, Effect, ApplyReservationCreated, States
<1>3. CASE e.kind \in {"AttemptStarted", "RequestAccepted", "RequestFinalized", "RunClosed"}
  BY <1>3 DEF Apply, Effect, States
<1> QED BY <1>1, <1>2, <1>3, EventKinds

\* A sum in which one term appears.
LEMMA TotalPoint ==
  ASSUME NEW S, IsFiniteSet(S), NEW f, NEW g, NEW a \in S, f[a] = 0, g[a] \in Nat,
         \A b \in S : f[b] \in Nat, \A b \in S : b # a => g[b] = f[b]
  PROVE  Total(g, S) = Total(f, S) + g[a]
<1>1. \A b \in S : g[b] \in Nat
  OBVIOUS
<1>2. Total(f, S \ {a}) = Total(f, S) - f[a] /\ Total(g, S \ {a}) = Total(g, S) - g[a]
  BY <1>1, TotalRemove
<1>3. Total(f, S \ {a}) = Total(g, S \ {a})
  BY TotalSame
<1>4. Total(f, S) \in Nat /\ Total(g, S) \in Nat
  BY <1>1, UnitsFinite
<1> QED BY <1>2, <1>3, <1>4

\* The attempts of a Run are attempts.
LEMMA RunAttemptsFinite ==
  ASSUME NEW u
  PROVE  RunAttempts(u) \subseteq Attempts /\ IsFiniteSet(RunAttempts(u))
<1>1. RunAttempts(u) \subseteq Attempts
  BY DEF RunAttempts
<1> QED BY <1>1, AttemptsFacts, FS_Subset

\* Applying, crashing and replaying keep the committed balance a sum over the log.
LEMMA CommittedNext ==
  ASSUME KnownInv, HistoryInv, CostInv, CostInv', CommittedRead, [Next]_vars
  PROVE  CommittedRead'
<1>1. TypeInv /\ st.wm \in Nat /\ Len(log) \in Nat /\ st \in States /\ IsFiniteSet(Attempts)
  BY LogGrows, AttemptsFacts DEF KnownInv, TypeInv, TypeOK, States
<1>2. ASSUME NEW a \in Attempts, ReadSettled(a) PROVE LoggedCost'[a] = LoggedCost[a]
  <2>1. PICK i \in 1..Len(log) : SettlesAt(a, i)
    BY <1>2 DEF ReadSettled
  <2>2. i \in 1..Len(log') /\ SettlesAt(a, i)' /\ log'[i] = log[i]
    BY <1>1, <2>1, OldRecords
  <2> QED BY <2>1, <2>2 DEF CostInv
<1>3. \A a \in Attempts : ReadCost[a] \in Nat
  BY DEF ReadCost, CostInv
<1>4. ASSUME \A a \in Attempts : ReadCost'[a] = ReadCost[a],
             st'.committed = st.committed, st'.runCommitted = st.runCommitted
      PROVE  CommittedRead'
  <2>1. Total(ReadCost', Attempts) = Total(ReadCost, Attempts)
    BY <1>4, TotalSame
  <2>2. ASSUME NEW u \in Runs PROVE Total(ReadCost', RunAttempts(u)) = Total(ReadCost, RunAttempts(u))
    BY <1>4, TotalSame, RunAttemptsFinite
  <2> QED BY <1>4, <2>1, <2>2 DEF CommittedRead, RunAttempts
<1>5. CASE st' = st
  <2>1. \A a \in Attempts : ReadCost'[a] = ReadCost[a]
    BY <1>2, <1>5, ReadSame DEF ReadCost
  <2> QED BY <1>4, <1>5, <2>1
<1>6. CASE st' = NewState /\ log' = log
  <2>1. st'.wm = 0 /\ st'.committed = 0 /\ \A u \in Runs : st'.runCommitted[u] = 0
    BY <1>6 DEF NewState
  <2>2. \A a \in Attempts : ReadCost'[a] = 0
    <3>1. \A i \in 1..Len(log') : ~(i <= st'.wm)
      BY <2>1
    <3> QED BY <3>1 DEF ReadCost, ReadSettled
  <2>3. ASSUME NEW S, S \subseteq Attempts PROVE Total(ReadCost', S) = 0
    <3>1. Units(ReadCost', S) = {}
      BY <2>2, <2>3 DEF Units
    <3> QED BY <3>1, FS_EmptySet DEF Total
  <2> QED BY <2>1, <2>3, RunAttemptsFinite DEF CommittedRead, RunAttempts
<1>7. ASSUME NEW n \in 1..Len(log), n = st.wm + 1, log' = log, CanApply(st, log[n], n),
             st' = Apply(st, log[n], n)
      PROVE  CommittedRead'
  <2>1. log[n] \in Events /\ n \in Nat /\ st'.wm = n
    <3>1. log[n] \in Events /\ n \in Nat
      BY <1>1, RecordForms
    <3>2. st'.wm = n
      BY <1>1, <1>7, ApplyForms
    <3> QED BY <3>1, <3>2
  <2>2. \A a : ReadSettled(a)' <=> ReadSettled(a) \/ SettlesAt(a, n)
    BY <1>7, <2>1, ReadMore
  <2>3. CASE log[n].kind # "AttemptSettled"
    <3>1. \A a \in Attempts : ReadCost'[a] = ReadCost[a]
      BY <1>2, <2>2, <2>3 DEF ReadCost, SettlesAt
    <3>2. st'.committed = st.committed /\ st'.runCommitted = st.runCommitted
      BY <1>1, <1>7, <2>1, <2>3, CommittedFields
    <3> QED BY <1>4, <3>1, <3>2
  <2>4. CASE log[n].kind = "AttemptSettled"
    <3> DEFINE a == log[n].att
               c == log[n].cost
    <3>1. a \in Attempts /\ a[1] \in Requests /\ c \in Nat /\ SettlesAt(a, n)
      BY <2>1, <2>4, EventKinds DEF SettlesAt, Attempts
    <3>2. st'.committed = st.committed + c /\ st'.runCommitted = AddRun(st.runCommitted, a[1], c)
      BY <1>1, <1>7, <2>1, <2>4, CommittedFields
    <3>3. \A b \in Attempts : b # a => ~SettlesAt(b, n)
      BY DEF SettlesAt
    <3>4. st.lease[a] # "none"
      BY <1>7, <2>4 DEF CanApply, Accepts
    <3>5. ~ReadSettled(a)
      BY <3>1, <3>4 DEF HistoryInv, LeasesRead
    <3>6. LoggedCost'[a] = c
      <4>1. LoggedCost[a] = c
        BY <3>1 DEF CostInv
      <4>2. n \in 1..Len(log') /\ SettlesAt(a, n)' /\ log'[n] = log[n]
        BY <1>1, <3>1, OldRecords
      <4> QED BY <3>1, <4>2 DEF CostInv
    <3> HIDE DEF a, c
    <3>7. ReadCost[a] = 0 /\ ReadCost'[a] = c
      BY <2>2, <3>1, <3>5, <3>6 DEF ReadCost
    <3>8. \A b \in Attempts : b # a => ReadCost'[b] = ReadCost[b]
      BY <1>2, <2>2, <3>3 DEF ReadCost
    <3>9. Total(ReadCost', Attempts) = Total(ReadCost, Attempts) + c
      BY <1>1, <1>3, <3>1, <3>7, <3>8, TotalPoint
    <3>10. ASSUME NEW u \in Runs
           PROVE  Total(ReadCost', RunAttempts(u)) = st'.runCommitted[u]
      <4>1. st'.runCommitted[u] = IF u = RunOf[a[1]] THEN st.runCommitted[u] + c ELSE st.runCommitted[u]
        BY <3>2 DEF AddRun
      <4>2. st.runCommitted[u] = Total(ReadCost, RunAttempts(u))
        BY DEF CommittedRead
      <4>3. CASE u = RunOf[a[1]]
        <5>1. a \in RunAttempts(u)
          BY <3>1, <4>3 DEF RunAttempts
        <5>2. Total(ReadCost', RunAttempts(u)) = Total(ReadCost, RunAttempts(u)) + c
          BY <1>3, <3>1, <3>7, <3>8, <5>1, TotalPoint, RunAttemptsFinite
        <5> QED BY <4>1, <4>2, <4>3, <5>2
      <4>4. CASE u # RunOf[a[1]]
        <5>1. a \notin RunAttempts(u)
          BY <4>4 DEF RunAttempts
        <5>2. Total(ReadCost', RunAttempts(u)) = Total(ReadCost, RunAttempts(u))
          BY <3>8, <5>1, TotalSame, RunAttemptsFinite
        <5> QED BY <4>1, <4>2, <4>4, <5>2
      <4> QED BY <4>3, <4>4
    <3> QED BY <3>2, <3>9, <3>10 DEF CommittedRead, RunAttempts
  <2> QED BY <2>3, <2>4
<1> QED BY <1>5, <1>6, <1>7, StateNext

-----------------------------------------------------------------------------
(* No reservation is overlooked *)

\* What was read stays read until the process crashes.
LEMMA ReadStays ==
  ASSUME KnownInv, [Next]_vars, ~Crash, NEW a \in Attempts, ReadReserved(a)
  PROVE  ReadReserved(a)'
<1>1. CASE st' = st
  BY <1>1, ReadSame
<1>2. ASSUME NEW n \in 1..Len(log), n = st.wm + 1, log' = log, st' = Apply(st, log[n], n)
      PROVE  ReadReserved(a)'
  <2>1. st'.wm = n
    BY <1>2, ApplyForms DEF KnownInv
  <2> QED BY <1>2, <2>1, ReadMore
<1> QED BY <1>1, <1>2, StateNext

\* A reservation that returned an error has been read if it is in the log: only its
\* confirmation failed.
ErrorRead(r) ==
  pc[r] = "reserve" /\ io[r] = "err" /\ Appends =>
    \A a \in Attempts : a = Current(r) /\ ReservedIn(a) => ReadReserved(a)

\* While the gateway serves on a ledger that appends, every reservation in the log has been
\* read, or its call has not returned.
ReservationsSeen ==
  phase = "serving" /\ Appends =>
    \A a \in Attempts : ReservedIn(a) =>
      ReadReserved(a) \/ (pc[a[1]] = "reserve" /\ a = Current(a[1]))

\* Both together are inductive.
SeenInv == ReservationsSeen /\ \A r \in Requests : ErrorRead(r)

\* The read model holds the lease of a reservation that was applied.
LEMMA AppliedRead ==
  ASSUME KnownInv, HistoryInv, NEW r \in Requests, pc[r] = "reserve", io[r] \in {"confirm", "ok"}
  PROVE  ReadReserved(Current(r))
<1>1. st.lease[Current(r)] = "held" /\ Current(r) \in Attempts
  <2>1. TypeOK
    BY DEF KnownInv, TypeInv
  <2> QED BY <2>1, CurrentType DEF KnownInv, ApplyInv, RequestReady, LeaseHeld
<1> QED BY <1>1 DEF HistoryInv, LeasesRead

\* A step of any goroutine keeps that of a reservation that failed.
LEMMA ErrorReadNext ==
  ASSUME KnownInv, HistoryInv, [Next]_vars, NEW r \in Requests, ErrorRead(r)
  PROVE  ErrorRead(r)'
<1>1. CASE Crash
  BY <1>1, ProcsDistinct DEF Crash, ErrorRead
<1>2. CASE BeginRequest(r) \/ RequestStep(r)
  BY <1>2, MoveFresh DEF ErrorRead
<1>3. CASE /\ ~Crash /\ (Appends' => Appends)
           /\ pc'[r] = pc[r] /\ att'[r] = att[r] /\ bill'[r] = bill[r] /\ IoStep(r)
  <2>1. SUFFICES ASSUME pc[r] = "reserve", io'[r] = "err", Appends', NEW a \in Attempts, a = Current(r)',
                        ReservedIn(a)'
                 PROVE  ReadReserved(a)'
    BY <1>3 DEF ErrorRead
  <2>2. io[r] \in {"err", "none", "confirm"} /\ Appends /\ a = Current(r) /\ a[1] = r
    BY <1>3, <2>1 DEF IoStep, Appends, Current
  <2>3. ReservedIn(a)
    BY <2>1, <2>2, ReservedByRequest
  <2>4. io[r] # "none"
    BY <2>1, <2>2, <2>3 DEF HistoryInv, StandsInLog, AttemptStands, Unwritten
  <2>5. ReadReserved(a)
    BY <2>1, <2>2, <2>3, <2>4, AppliedRead DEF ErrorRead
  <2> QED BY <1>3, <2>5, ReadStays
<1> QED BY <1>1, <1>2, <1>3, RequestIo

\* A reservation leaves its call only after it was read.
LEMMA SeenNext ==
  ASSUME KnownInv, HistoryInv, SeenInv, [Next]_vars
  PROVE  SeenInv'
<1>1. \A r \in Requests : ErrorRead(r)'
  BY ErrorReadNext DEF SeenInv
<1>2. SUFFICES ASSUME phase' = "serving", Appends', NEW a \in Attempts, ReservedIn(a)'
               PROVE  ReadReserved(a)' \/ (pc'[a[1]] = "reserve" /\ a = Current(a[1])')
  BY <1>1 DEF SeenInv, ReservationsSeen
<1>3. /\ RecoverDone \/ (phase = "serving" /\ status = "healthy")
      /\ ~Crash
  BY <1>2, ServingStep DEF Appends
<1>4. TypeInv /\ Len(log) \in Nat /\ a[1] \in Requests
  BY LogGrows DEF KnownInv, Attempts
<1>5. CASE RecoverDone
  <2>1. st.wm = Len(log) /\ log' = log
    BY <1>5 DEF RecoverDone, HistoryInv, RecoveryAhead, ledgerVars
  <2>2. ReadReserved(a)
    BY <1>2, <1>4, <2>1 DEF ReservedIn, ReadReserved, ReservedAt, ReservationCreated
  <2> QED BY <1>3, <2>2, ReadStays
<1>6. CASE phase = "serving" /\ status = "healthy"
  <2>1. Appends
    BY <1>6 DEF KnownInv, ApplyInv, FailsAtStart, Appends
  <2>2. ReadReserved(a) \/ (pc[a[1]] = "reserve" /\ a = Current(a[1]))
    BY <1>2, <1>6, <2>1, ReservedByRequest DEF SeenInv, ReservationsSeen
  <2>3. CASE ReadReserved(a)
    BY <1>3, <2>3, ReadStays
  <2>4. CASE pc[a[1]] = "reserve" /\ a = Current(a[1])
    <3>1. CASE pc'[a[1]] = pc[a[1]] /\ att'[a[1]] = att[a[1]]
      BY <2>4, <3>1 DEF Current
    <3>2. CASE BeginRequest(a[1]) \/ RequestStep(a[1])
      <4>1. ReserveReturns(a[1]) /\ log' = log
        BY <1>4, <2>4, <3>2, MoveFresh DEF BeginRequest, RequestStep, BeginReturns, Admit, GiveUp,
           CommitPin, StartReturns, SettleUnserved, CallProvider, ProviderReturns, SettleReturns,
           FinalizeReturns
      <4>2. ReservedIn(a)
        BY <1>2, <4>1 DEF ReservedIn, ReservedAt, ReservationCreated
      <4>3. ReadReserved(a)
        BY <1>4, <2>1, <2>4, <4>1, <4>2, AppliedRead DEF ReserveReturns, SeenInv, ErrorRead
      <4> QED BY <1>3, <4>3, ReadStays
    <3> QED BY <1>3, <1>4, <3>1, <3>2, RequestIo
  <2> QED BY <2>2, <2>3, <2>4
<1> QED BY <1>3, <1>5, <1>6

-----------------------------------------------------------------------------
(* The ceilings *)

\* What an attempt takes of a budget: its settlement without the overrun, its reservation
\* while it is open or promised.
Net == [a \in Attempts |->
          IF SettledIn(a) THEN (IF LoggedCost[a] > Amount[a] THEN Amount[a] ELSE LoggedCost[a])
          ELSE IF a \in OpenInLog \cup Promised THEN Amount[a] ELSE 0]

\* The model's predicates on the log are the ones used here, and an attempt is promised
\* while its request waits at "reserve".
LEMMA NetTerms ==
  ASSUME KnownInv, NEW a \in Attempts
  PROVE  /\ a \in OpenInLog <=> ReservedIn(a) /\ ~SettledIn(a)
         /\ a \in Admitted <=> pc[a[1]] = "reserve" /\ a = Current(a[1])
         /\ a \in Promised <=> Appends /\ pc[a[1]] = "reserve" /\ a = Current(a[1])
<1>1. DOMAIN log = 1..Len(log) /\ TypeOK /\ a[1] \in Requests
  <2>1. log \in Seq(Events) /\ TypeOK
    BY DEF KnownInv, TypeInv, TypeOK
  <2> QED BY <2>1, LenProperties DEF Attempts
<1>2. a \in OpenInLog <=> ReservedIn(a) /\ ~SettledIn(a)
  BY <1>1 DEF OpenInLog, Reserved, Settled, ReservedIn, SettledIn, ReservedAt
<1>3. a \in Admitted <=> pc[a[1]] = "reserve" /\ a = Current(a[1])
  BY <1>1, CurrentType DEF Admitted
<1> QED BY <1>2, <1>3 DEF Promised, Appends

\* A number between nothing and the reservation.
LEMMA NetType ==
  ASSUME CostInv, NEW a \in Attempts
  PROVE  Net[a] \in Nat /\ Net[a] <= Amount[a] /\ Amount[a] \in Nat
<1>1. LoggedCost[a] \in Nat /\ Amount[a] \in Nat
  BY AttemptsFacts DEF CostInv
<1>2. Net[a] = IF SettledIn(a) THEN (IF LoggedCost[a] > Amount[a] THEN Amount[a] ELSE LoggedCost[a])
               ELSE IF a \in OpenInLog \cup Promised THEN Amount[a] ELSE 0
  BY DEF Net
<1> QED BY <1>1, <1>2

\* Exposure is what the attempts take of the budget and what was billed over reservations.
LEMMA ExposureNet ==
  ASSUME KnownInv, HistoryInv, CostInv, NEW S, S \subseteq Attempts
  PROVE  /\ Exposure(S) = Total(Net, S) + Total(Overrun, S)
         /\ Total(Net, S) \in Nat /\ Total(Overrun, S) \in Nat
<1> DEFINE open == [a \in Attempts |-> IF a \in OpenInLog \cup Promised THEN Amount[a] ELSE 0]
           sum == [a \in Attempts |-> LoggedCost[a] + open[a]]
<1>1. IsFiniteSet(S)
  BY AttemptsFacts, FS_Subset
<1>2. ASSUME NEW a \in S
      PROVE  /\ LoggedCost[a] \in Nat /\ open[a] \in Nat /\ Net[a] \in Nat /\ Overrun[a] \in Nat
             /\ sum[a] = LoggedCost[a] + open[a] /\ sum[a] = Net[a] + Overrun[a]
  <2>1. LoggedCost[a] \in Nat /\ Net[a] \in Nat /\ Amount[a] \in Nat
    BY NetType DEF CostInv
  <2>2. /\ open[a] = IF a \in OpenInLog \cup Promised THEN Amount[a] ELSE 0
        /\ sum[a] = LoggedCost[a] + open[a]
    OBVIOUS
  <2>3. Overrun[a] = IF LoggedCost[a] > Amount[a] THEN LoggedCost[a] - Amount[a] ELSE 0
    BY DEF Overrun, Less
  <2>4. Net[a] = IF SettledIn(a) THEN (IF LoggedCost[a] > Amount[a] THEN Amount[a] ELSE LoggedCost[a])
                 ELSE IF a \in OpenInLog \cup Promised THEN Amount[a] ELSE 0
    BY DEF Net
  <2>5. SettledIn(a) => a \notin OpenInLog \cup Promised
    <3>1. a[1] \in Requests
      BY DEF Attempts
    <3> QED BY <3>1, NetTerms DEF HistoryInv, StandsInLog, AttemptStands
  <2>6. ~SettledIn(a) => LoggedCost[a] = 0
    BY DEF CostInv
  <2> HIDE DEF open, sum
  <2>7. CASE SettledIn(a)
    BY <2>1, <2>2, <2>3, <2>4, <2>5, <2>7
  <2>8. CASE ~SettledIn(a)
    BY <2>1, <2>2, <2>3, <2>4, <2>6, <2>8
  <2> QED BY <2>7, <2>8
<1> HIDE DEF sum
<1>3. Total(open, S) = Total(Amount, (OpenInLog \cup Promised) \cap S)
  BY TotalPart
<1> HIDE DEF open
<1>4. Total(sum, S) = Total(LoggedCost, S) + Total(open, S)
  BY <1>1, <1>2, TotalSum
<1>5. Total(sum, S) = Total(Net, S) + Total(Overrun, S)
  BY <1>1, <1>2, TotalSum
<1>6. Total(Net, S) \in Nat /\ Total(Overrun, S) \in Nat
  BY <1>1, <1>2, UnitsFinite
<1> QED BY <1>3, <1>4, <1>5, <1>6 DEF Exposure

\* The balance and the promises cover what the attempts take.
CoveredInv ==
  phase = "serving" /\ Appends =>
    /\ Total(Net, Attempts) <= st.committed + st.reserved + pending
    /\ \A u \in Runs :
         Total(Net, RunAttempts(u)) <= st.runCommitted[u] + st.runReserved[u] + runPending[u]

\* Each attempt that takes something is read as a lease or a cost, or is promised.
LEMMA CoveredHolds == KnownInv /\ HistoryInv /\ CommittedRead /\ SeenInv => CoveredInv
<1> SUFFICES ASSUME KnownInv, HistoryInv, CommittedRead, SeenInv, phase = "serving", Appends
             PROVE  /\ Total(Net, Attempts) <= st.committed + st.reserved + pending
                    /\ \A u \in Runs : Total(Net, RunAttempts(u))
                                         <= st.runCommitted[u] + st.runReserved[u] + runPending[u]
  BY DEF CoveredInv
<1>1. CostInv
  BY CostHolds
<1> DEFINE held == [a \in Attempts |-> IF a \in PendingLeases(st) THEN Amount[a] ELSE 0]
           promised == [a \in Attempts |-> IF a \in Admitted THEN Amount[a] ELSE 0]
           both == [a \in Attempts |-> held[a] + promised[a]]
           all == [a \in Attempts |-> ReadCost[a] + both[a]]
<1>2. ASSUME NEW a \in Attempts
      PROVE  /\ ReadCost[a] \in Nat /\ held[a] \in Nat /\ promised[a] \in Nat /\ Net[a] \in Nat
             /\ both[a] \in Nat /\ all[a] \in Nat
             /\ both[a] = held[a] + promised[a] /\ all[a] = ReadCost[a] + both[a]
             /\ Net[a] <= all[a]
  <2>1. Net[a] \in Nat /\ Net[a] <= Amount[a] /\ Amount[a] \in Nat /\ LoggedCost[a] \in Nat
    BY <1>1, NetType DEF CostInv
  <2>2. /\ held[a] = IF a \in PendingLeases(st) THEN Amount[a] ELSE 0
        /\ promised[a] = IF a \in Admitted THEN Amount[a] ELSE 0
        /\ both[a] = held[a] + promised[a] /\ all[a] = ReadCost[a] + both[a]
    OBVIOUS
  <2>3. ReadCost[a] = IF ReadSettled(a) THEN LoggedCost[a] ELSE 0
    BY DEF ReadCost
  <2>4. Net[a] = IF SettledIn(a) THEN (IF LoggedCost[a] > Amount[a] THEN Amount[a] ELSE LoggedCost[a])
                 ELSE IF a \in OpenInLog \cup Promised THEN Amount[a] ELSE 0
    BY DEF Net
  <2>5. ReadSettled(a) => SettledIn(a)
    BY DEF ReadSettled, SettledIn
  <2>6. (a \in PendingLeases(st) \/ a \in Admitted) \/ ReadSettled(a) \/ Net[a] = 0
    <3>1. SUFFICES ASSUME Net[a] # 0, ~ReadSettled(a) PROVE a \in PendingLeases(st) \/ a \in Admitted
      OBVIOUS
    <3>2. SettledIn(a) \/ a \in OpenInLog \/ a \in Promised
      BY <2>4, <3>1
    <3>3. SettledIn(a) => ReservedIn(a)
      BY ReservedFirst DEF HistoryInv
    <3>4. ReservedIn(a) \/ a \in Admitted
      BY <3>2, <3>3, NetTerms
    <3>5. ReadReserved(a) \/ a \in Admitted
      BY <3>4, NetTerms DEF SeenInv, ReservationsSeen
    <3>6. ReadReserved(a) => a \in PendingLeases(st)
      BY <3>1 DEF HistoryInv, LeasesRead, PendingLeases
    <3> QED BY <3>5, <3>6
  <2> HIDE DEF held, promised, both, all
  <2> QED BY <2>1, <2>2, <2>3, <2>4, <2>5, <2>6
<1>3. ASSUME NEW S, S \subseteq Attempts
      PROVE  Total(Net, S) <= Total(ReadCost, S) + Total(Amount, PendingLeases(st) \cap S)
                                + Total(Amount, Admitted \cap S)
  <2>1. IsFiniteSet(S)
    BY <1>3, AttemptsFacts, FS_Subset
  <2>2. /\ Total(held, S) = Total(Amount, PendingLeases(st) \cap S)
        /\ Total(promised, S) = Total(Amount, Admitted \cap S)
    <3>1. \A a \in S : /\ held[a] = IF a \in PendingLeases(st) THEN Amount[a] ELSE 0
                       /\ promised[a] = IF a \in Admitted THEN Amount[a] ELSE 0
      BY <1>3
    <3> HIDE DEF held, promised
    <3>2. Total(held, S) = Total(Amount, PendingLeases(st) \cap S)
      BY <3>1, TotalPart
    <3>3. Total(promised, S) = Total(Amount, Admitted \cap S)
      BY <3>1, TotalPart
    <3> QED BY <3>2, <3>3
  <2> HIDE DEF held, promised, both, all
  <2>3. Total(both, S) = Total(held, S) + Total(promised, S)
    BY <1>2, <1>3, <2>1, TotalSum
  <2>4. Total(all, S) = Total(ReadCost, S) + Total(both, S)
    BY <1>2, <1>3, <2>1, TotalSum
  <2>5. Total(Net, S) <= Total(all, S)
    BY <1>2, <1>3, <2>1, TotalLe
  <2>6. /\ Total(held, S) \in Nat /\ Total(promised, S) \in Nat /\ Total(ReadCost, S) \in Nat
        /\ Total(Net, S) \in Nat
    BY <1>2, <1>3, <2>1, UnitsFinite
  <2> QED BY <2>2, <2>3, <2>4, <2>5, <2>6
<1>4. Total(Net, Attempts) <= st.committed + st.reserved + pending
  <2>1. PendingLeases(st) \cap Attempts = PendingLeases(st) /\ Admitted \cap Attempts = Admitted
    <3>1. TypeOK
      BY DEF KnownInv, TypeInv
    <3> QED BY <3>1, AdmittedMember DEF PendingLeases
  <2>2. /\ st.committed = Total(ReadCost, Attempts) /\ st.reserved = Total(Amount, PendingLeases(st))
        /\ pending = Total(Amount, Admitted)
    BY DEF CommittedRead, KnownInv, Conservation, Conserves, AdmissionsCounted
  <2> QED BY <1>3, <2>1, <2>2
<1>5. ASSUME NEW u \in Runs
      PROVE  Total(Net, RunAttempts(u)) <= st.runCommitted[u] + st.runReserved[u] + runPending[u]
  <2>1. /\ st.runCommitted[u] = Total(ReadCost, RunAttempts(u))
        /\ st.runReserved[u] = Total(Amount, PendingLeases(st) \cap RunAttempts(u))
        /\ runPending[u] = Total(Amount, Admitted \cap RunAttempts(u))
    BY DEF CommittedRead, KnownInv, Conservation, Conserves, AdmissionsCounted
  <2> QED BY <1>3, <2>1, RunAttemptsFinite
<1> QED BY <1>4, <1>5

\* An attempt whose reservation was promised and can still reach the log.
Asked(a) == Appends /\ pc[a[1]] = "reserve" /\ a = Current(a[1])

\* What an attempt takes, told from the log and the control points.
NetForm ==
  \A a \in Attempts :
    /\ Net[a] \in Nat /\ Net[a] <= Amount[a]
    /\ \A i \in 1..Len(log) : SettlesAt(a, i) =>
         Net[a] = IF log[i].cost > Amount[a] THEN Amount[a] ELSE log[i].cost
    /\ ~SettledIn(a) => Net[a] = IF ReservedIn(a) \/ Asked(a) THEN Amount[a] ELSE 0

\* That is what Net says.
LEMMA NetForms == KnownInv /\ CostInv => NetForm
<1> SUFFICES ASSUME KnownInv, CostInv, NEW a \in Attempts
             PROVE  /\ Net[a] \in Nat /\ Net[a] <= Amount[a]
                    /\ \A i \in 1..Len(log) : SettlesAt(a, i) =>
                         Net[a] = IF log[i].cost > Amount[a] THEN Amount[a] ELSE log[i].cost
                    /\ ~SettledIn(a) => Net[a] = IF ReservedIn(a) \/ Asked(a) THEN Amount[a] ELSE 0
  BY DEF NetForm
<1>1. Net[a] \in Nat /\ Net[a] <= Amount[a]
  BY NetType
<1>2. Net[a] = IF SettledIn(a) THEN (IF LoggedCost[a] > Amount[a] THEN Amount[a] ELSE LoggedCost[a])
               ELSE IF a \in OpenInLog \cup Promised THEN Amount[a] ELSE 0
  BY DEF Net
<1>3. ASSUME NEW i \in 1..Len(log), SettlesAt(a, i)
      PROVE  Net[a] = IF log[i].cost > Amount[a] THEN Amount[a] ELSE log[i].cost
  <2>1. SettledIn(a) /\ LoggedCost[a] = log[i].cost
    BY <1>3 DEF SettledIn, CostInv
  <2> QED BY <1>2, <2>1
<1>4. ASSUME ~SettledIn(a) PROVE Net[a] = IF ReservedIn(a) \/ Asked(a) THEN Amount[a] ELSE 0
  BY <1>2, <1>4, NetTerms DEF Asked
<1> QED BY <1>1, <1>3, <1>4

\* Only an admission makes an attempt take more.
LEMMA NetNext ==
  ASSUME KnownInv, HistoryInv, HistoryInv', NetForm, NetForm', [Next]_vars, NEW a \in Attempts
  PROVE  Net'[a] <= Net[a] \/ (Admit(a[1]) /\ a = Current(a[1]) /\ Appends)
<1>1. /\ TypeInv /\ a[1] \in Requests /\ Len(log) \in Nat /\ Len(log') \in Nat
      /\ RecoveryAhead /\ RecoveryPending
  BY LogGrows DEF KnownInv, HistoryInv, Attempts
<1>2. /\ Net[a] \in Nat /\ Net'[a] \in Nat /\ Amount[a] \in Nat
      /\ Net[a] <= Amount[a] /\ Net'[a] <= Amount[a]
  BY AttemptsFacts DEF NetForm
<1>3. SUFFICES ASSUME Net[a] # Amount[a], Net'[a] # 0
               PROVE  Net'[a] = Net[a] \/ (Admit(a[1]) /\ a = Current(a[1]) /\ Appends)
  BY <1>2
<1>4. CASE SettledIn(a)
  <2>1. PICK i \in 1..Len(log) : SettlesAt(a, i)
    BY <1>4 DEF SettledIn
  <2>2. i \in 1..Len(log') /\ SettlesAt(a, i)' /\ log'[i] = log[i]
    BY <1>1, <2>1, OldRecords
  <2>3. Net[a] = IF log[i].cost > Amount[a] THEN Amount[a] ELSE log[i].cost
    BY <2>1 DEF NetForm
  <2>4. Net'[a] = IF log'[i].cost > Amount[a] THEN Amount[a] ELSE log'[i].cost
    BY <2>2 DEF NetForm
  <2> QED BY <2>2, <2>3, <2>4
<1>5. ASSUME ~SettledIn(a) PROVE ~ReservedIn(a) /\ ~Asked(a)
  BY <1>3, <1>5 DEF NetForm
<1>6. ASSUME ~SettledIn(a), SettledIn(a)' PROVE FALSE
  <2>1. PICK j \in 1..Len(log') : SettlesAt(a, j)'
    BY <1>6 DEF SettledIn
  <2>2. Fresh(j)
    <3>1. j \notin 1..Len(log)
      BY <1>1, <1>6, <2>1, OldRecords DEF SettledIn
    <3> QED BY <1>1, <2>1, <3>1, OldOrFresh
  <2>3. PICK i \in 1..Len(log') : i < j /\ ReservedAt(a, i)'
    BY <2>1 DEF HistoryInv, LogOrdered, LeaseOrdered
  <2>4. About(a[1], j)' /\ About(a[1], i)'
    BY <2>1, <2>3, FormsAboutNext
  <2>5. i \in 1..Len(log)
    <3>1. Fresh(i) => i = j
      BY <1>1, <2>2, <2>4, FreshAdds
    <3> QED BY <1>1, <2>3, <3>1, OldOrFresh
  <2>6. ReservedIn(a)
    BY <1>1, <2>3, <2>5, OldRecords DEF ReservedIn
  <2> QED BY <1>5, <1>6, <2>6
<1>7. ASSUME ~SettledIn(a), ~SettledIn(a)', ReservedIn(a)' PROVE FALSE
  <2>1. pc[a[1]] = "reserve" /\ a = Current(a[1])
    BY <1>5, <1>7, ReservedByRequest
  <2>2. log' # log
    BY <1>5, <1>7 DEF ReservedIn, ReservedAt, ReservationCreated
  <2>3. Writer
    BY <1>1, <2>2, OnlyWriterWrites
  <2>4. status = "healthy"
    BY <2>2, <2>3 DEF Writer, WriteBatch, WriteFails, DropBatch
  <2>5. ~applyErr
    BY <1>1, <2>1 DEF KnownInv, CloseInv, OnlyServing, ApplyInv, FailsAtStart
  <2> QED BY <1>5, <1>7, <2>1, <2>4, <2>5 DEF Asked, Appends
<1>8. ASSUME ~SettledIn(a), Asked(a)' PROVE Admit(a[1]) /\ a = Current(a[1]) /\ Appends
  <2>1. Appends' /\ pc'[a[1]] = "reserve" /\ a = <<a[1], att'[a[1]]>>
    BY <1>8 DEF Asked, Current
  <2>2. ~Crash
    BY <1>1, <2>1, ProcsDistinct DEF Crash
  <2>3. Appends
    BY <1>1, <2>1, <2>2, RequestIo
  <2>4. ~(pc'[a[1]] = pc[a[1]] /\ att'[a[1]] = att[a[1]])
    BY <1>5, <1>8, <2>1, <2>3 DEF Asked, Current
  <2>5. BeginRequest(a[1]) \/ RequestStep(a[1])
    BY <1>1, <2>2, <2>4, RequestIo
  <2>6. Admit(a[1])
    <3>1. pc \in [Procs -> RequestPoints \cup ClosePoints \cup {"recover"}] /\ a[1] \in Procs
      BY <1>1, ProcsDistinct DEF TypeInv, TypeOK
    <3> QED BY <2>1, <2>5, <3>1 DEF BeginRequest, RequestStep, BeginReturns, GiveUp, ReserveReturns,
                CommitPin, StartReturns, SettleUnserved, CallProvider, ProviderReturns, SettleReturns,
                FinalizeReturns, Goto
  <2>7. a = Current(a[1])
    BY <2>1, <2>6 DEF Admit, Current
  <2> QED BY <2>3, <2>6, <2>7
<1>9. ASSUME ~SettledIn(a), ~SettledIn(a)' PROVE ReservedIn(a)' \/ Asked(a)'
  BY <1>3, <1>9 DEF NetForm
<1> QED BY <1>4, <1>6, <1>7, <1>8, <1>9

\* What the attempts take of the project's budget and of a Run's stays within it.
CeilingInv ==
  /\ Budget > 0 => Total(Net, Attempts) <= Budget
  /\ \A u \in Runs : Total(Net, RunAttempts(u)) <= RunBudget[u]

\* An admission saw everything the attempts take, and nothing else makes them take more.
LEMMA CeilingNext ==
  ASSUME KnownInv, HistoryInv, HistoryInv', NetForm, NetForm', CoveredInv', CeilingInv, [Next]_vars
  PROVE  CeilingInv'
<1> DEFINE Takes(a) == Admit(a[1]) /\ a = Current(a[1]) /\ Appends
<1>1. ASSUME NEW S, S \subseteq Attempts, \A a \in S : ~Takes(a)
      PROVE  Total(Net', S) <= Total(Net, S) /\ Total(Net', S) \in Nat /\ Total(Net, S) \in Nat
  <2>1. IsFiniteSet(S)
    BY <1>1, AttemptsFacts, FS_Subset
  <2>2. \A a \in S : Net'[a] \in Nat /\ Net[a] \in Nat /\ Net'[a] <= Net[a]
    BY <1>1, NetNext DEF NetForm
  <2> QED BY <2>1, <2>2, TotalLe, UnitsFinite
<1>2. ASSUME NEW a \in Attempts, Takes(a)
      PROVE  /\ Total(Net', Attempts) <= st.committed + st.reserved + (pending + Amount[a])
             /\ \A u \in Runs : RunOf[a[1]] = u =>
                  Total(Net', RunAttempts(u)) <= st.runCommitted[u] + st.runReserved[u]
                                                   + (runPending[u] + Amount[a])
  <2>1. a[1] \in Requests /\ phase = "serving"
    BY <1>2 DEF Attempts, Admit, KnownInv, CloseInv, OnlyServing
  <2>2. /\ st' = st /\ phase' = phase /\ status' = status /\ applyErr' = applyErr
        /\ pending' = pending + Amount[a] /\ runPending' = AddRun(runPending, a[1], Amount[a])
    BY <1>2 DEF Admit, ledgerVars
  <2>3. phase' = "serving" /\ Appends'
    BY <1>2, <2>1, <2>2 DEF Appends
  <2>4. /\ Total(Net', Attempts) <= st.committed + st.reserved + pending'
        /\ \A u \in Runs : Total(Net', RunAttempts(u))
                             <= st.runCommitted[u] + st.runReserved[u] + runPending'[u]
    BY <2>2, <2>3 DEF CoveredInv, RunAttempts
  <2>5. \A u \in Runs : RunOf[a[1]] = u => runPending'[u] = runPending[u] + Amount[a]
    BY <2>2 DEF AddRun
  <2> QED BY <2>2, <2>4, <2>5
<1>3. ASSUME NEW a \in Attempts
      PROVE  /\ st.committed \in Nat /\ st.reserved \in Nat /\ pending \in Nat /\ Amount[a] \in Nat
             /\ \A u \in Runs : st.runCommitted[u] \in Nat /\ st.runReserved[u] \in Nat
                                /\ runPending[u] \in Nat /\ RunBudget[u] \in Nat
  BY AttemptsFacts, RunBudgetAssumption DEF KnownInv, TypeInv, TypeOK, States
<1>4. ASSUME Budget > 0 PROVE Total(Net', Attempts) <= Budget
  <2>1. CASE \E a \in Attempts : Takes(a)
    <3>1. PICK a \in Attempts : Takes(a)
      BY <2>1
    <3>2. st.committed + st.reserved + pending + Amount[a] <= Budget
      BY <1>4, <3>1 DEF Admit, FitsProject
    <3>3. Total(Net', Attempts) <= st.committed + st.reserved + (pending + Amount[a])
      BY <1>2, <3>1
    <3>4. Total(Net', Attempts) \in Nat
      BY AttemptsFacts, UnitsFinite DEF NetForm
    <3> QED BY <1>3, <3>2, <3>3, <3>4, BudgetAssumption
  <2>2. CASE \A a \in Attempts : ~Takes(a)
    <3>1. Total(Net', Attempts) <= Total(Net, Attempts)
          /\ Total(Net', Attempts) \in Nat /\ Total(Net, Attempts) \in Nat
      BY <1>1, <2>2
    <3> QED BY <1>4, <3>1, BudgetAssumption DEF CeilingInv
  <2> QED BY <2>1, <2>2
<1>5. ASSUME NEW u \in Runs PROVE Total(Net', RunAttempts(u)) <= RunBudget[u]
  <2>1. RunAttempts(u) \subseteq Attempts /\ IsFiniteSet(RunAttempts(u)) /\ u # NoRun
    BY RunAttemptsFinite, NoRunAssumption
  <2>2. CASE \E a \in RunAttempts(u) : Takes(a)
    <3>1. PICK a \in RunAttempts(u) : Takes(a)
      BY <2>2
    <3>2. a \in Attempts /\ RunOf[a[1]] = u
      BY <2>1 DEF RunAttempts
    <3>3. st.runCommitted[u] + st.runReserved[u] + runPending[u] + Amount[a] <= RunBudget[u]
      BY <2>1, <3>1, <3>2 DEF Admit, FitsRun
    <3>4. Total(Net', RunAttempts(u)) <= st.runCommitted[u] + st.runReserved[u]
                                           + (runPending[u] + Amount[a])
      BY <1>2, <3>1, <3>2
    <3>5. Total(Net', RunAttempts(u)) \in Nat
      BY <2>1, UnitsFinite DEF NetForm
    <3> QED BY <1>3, <3>2, <3>3, <3>4, <3>5
  <2>3. CASE \A a \in RunAttempts(u) : ~Takes(a)
    <3>1. Total(Net', RunAttempts(u)) <= Total(Net, RunAttempts(u))
          /\ Total(Net', RunAttempts(u)) \in Nat /\ Total(Net, RunAttempts(u)) \in Nat
      BY <1>1, <2>1, <2>3
    <3>2. RunBudget[u] \in Nat /\ Total(Net, RunAttempts(u)) <= RunBudget[u]
      BY RunBudgetAssumption DEF CeilingInv
    <3> QED BY <3>1, <3>2
  <2> QED BY <2>2, <2>3
<1> QED BY <1>4, <1>5 DEF CeilingInv, RunAttempts

\* At first nothing is committed, seen or taken.
LEMMA CeilingInit == Init => CommittedRead /\ SeenInv /\ CeilingInv
<1> SUFFICES ASSUME Init PROVE CommittedRead /\ SeenInv /\ CeilingInv
  OBVIOUS
<1>1. Len(log) = 0 /\ 1..Len(log) = {} /\ DOMAIN log = {}
  BY DEF Init
<1>2. ASSUME NEW S, NEW f, \A a \in S : f[a] = 0 PROVE Total(f, S) = 0
  <2>1. Units(f, S) = {}
    BY <1>2 DEF Units
  <2> QED BY <2>1, FS_EmptySet DEF Total
<1>3. \A a \in Attempts : ReadCost[a] = 0 /\ Net[a] = 0
  <2>1. ASSUME NEW a \in Attempts
        PROVE  ~SettledIn(a) /\ ~ReadSettled(a) /\ a \notin OpenInLog /\ a \notin Promised
    <3>1. Promised = {}
      BY ProcsDistinct DEF Init, Promised, Admitted
    <3> QED BY <1>1, <3>1 DEF SettledIn, ReadSettled, OpenInLog, Reserved
  <2> QED BY <2>1 DEF ReadCost, Net
<1>4. ASSUME NEW S, S \subseteq Attempts PROVE Total(ReadCost, S) = 0 /\ Total(Net, S) = 0
  BY <1>2, <1>3, <1>4
<1>5. CommittedRead
  BY <1>4, RunAttemptsFinite DEF Init, NewState, CommittedRead
<1>6. SeenInv
  <2>1. \A a \in Attempts : ~ReservedIn(a)
    BY <1>1 DEF ReservedIn
  <2> QED BY <2>1 DEF SeenInv, ReservationsSeen, ErrorRead
<1>7. CeilingInv
  <2>1. ASSUME NEW u \in Runs PROVE Total(Net, RunAttempts(u)) <= RunBudget[u]
    <3>1. RunBudget[u] \in Nat /\ Total(Net, RunAttempts(u)) = 0
      BY <1>4, RunAttemptsFinite, RunBudgetAssumption
    <3> QED BY <3>1
  <2>2. Total(Net, Attempts) <= Budget
    BY <1>4, BudgetAssumption
  <2> QED BY <2>1, <2>2 DEF CeilingInv
<1> QED BY <1>5, <1>6, <1>7

\* Everything the ceilings rest on.
LEMMA CeilingHolds == Spec => [](KnownInv /\ HistoryInv /\ CostInv /\ CeilingInv)
<1>1. KnownInv /\ HistoryInv /\ CostInv /\ CostInv' /\ CommittedRead /\ [Next]_vars => CommittedRead'
  BY CommittedNext
<1>2. KnownInv /\ HistoryInv /\ SeenInv /\ [Next]_vars => SeenInv'
  BY SeenNext
<1>3. /\ KnownInv /\ HistoryInv /\ HistoryInv' /\ NetForm /\ NetForm' /\ CoveredInv'
      /\ CeilingInv /\ [Next]_vars
      => CeilingInv'
  BY CeilingNext
<1> QED BY <1>1, <1>2, <1>3, CeilingInit, CostHolds, NetForms, CoveredHolds, KnownHolds, HistoryHolds,
           PTL DEF Spec

\* What the log commits the project to stays within the daily budget and what providers billed
\* over their reservations, although admissions race each other's appends, failed batches reach
\* the disk and the process crashes: an admission sees every promise and every reservation that
\* could be in the log.
THEOREM BudgetHolds == Spec => []BudgetCeiling
<1>1. KnownInv /\ HistoryInv /\ CostInv /\ CeilingInv => BudgetCeiling
  <2> SUFFICES ASSUME KnownInv, HistoryInv, CostInv, CeilingInv, Budget > 0
               PROVE  Exposure(Attempts) <= Budget + Total(Overrun, Attempts)
    BY DEF BudgetCeiling
  <2>1. /\ Exposure(Attempts) = Total(Net, Attempts) + Total(Overrun, Attempts)
        /\ Total(Net, Attempts) \in Nat /\ Total(Overrun, Attempts) \in Nat
    BY ExposureNet
  <2>2. Total(Net, Attempts) <= Budget
    BY DEF CeilingInv
  <2> QED BY <2>1, <2>2, BudgetAssumption
<1> QED BY <1>1, CeilingHolds, PTL

\* The same of every Run and its lifetime budget.
THEOREM RunBudgetHolds == Spec => []RunBudgetCeiling
<1>1. KnownInv /\ HistoryInv /\ CostInv /\ CeilingInv => RunBudgetCeiling
  <2> SUFFICES ASSUME KnownInv, HistoryInv, CostInv, CeilingInv, NEW u \in Runs
               PROVE  Exposure(RunAttempts(u)) <= RunBudget[u] + Total(Overrun, RunAttempts(u))
    BY DEF RunBudgetCeiling
  <2>1. /\ Exposure(RunAttempts(u)) = Total(Net, RunAttempts(u)) + Total(Overrun, RunAttempts(u))
        /\ Total(Net, RunAttempts(u)) \in Nat /\ Total(Overrun, RunAttempts(u)) \in Nat
    BY ExposureNet, RunAttemptsFinite
  <2>2. Total(Net, RunAttempts(u)) <= RunBudget[u] /\ RunBudget[u] \in Nat
    BY RunBudgetAssumption DEF CeilingInv
  <2> QED BY <2>1, <2>2
<1> QED BY <1>1, CeilingHolds, PTL
=============================================================================
