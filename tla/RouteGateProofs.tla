--------------------------- MODULE RouteGateProofs ---------------------------
(***************************************************************************)
(* The route gate never strands a probe slot, its rows follow its          *)
(* suspensions and a restart remembers them: for any attempts, targets and *)
(* observations, any policies of the configuration, any store failures and *)
(* any number of crashes.                                                  *)
(***************************************************************************)
EXTENDS RouteGate, FiniteSetTheorems, TLAPS

\* The states a scope is ever in: the flag says whether a row stands for it, and what
\* only a new credential ends has no end.
FitStates ==
  {st \in ScopeStates :
     /\ st.persisted <=> persistable(st)
     /\ st.policy.recovery = "credential_revision" => st.indefinite
     /\ st.reason = "invalid_credential" => st.indefinite}

\* The rows that are ever written: each restores a suspension that is worth a row.
FitRows ==
  {row \in Rows : /\ row.indefinite \/ row.window > PersistWindowThreshold
                  /\ row.reason = "invalid_credential" => row.indefinite} \cup {NoRow}

\* StatesOK, with the states and rows that are reached.
StatesFit ==
  /\ scopes \in [Scopes -> FitStates]
  /\ pending \in [Scopes -> Seq(FitRows)]
  /\ draining \in [Scopes -> Seq(FitRows)]
  /\ rows \in [Scopes -> FitRows]

\* The store lock: who writes the queue holds it, nothing waits to be written without
\* it, and the operator holds it from the drain to the end of the clear.
LockHeld ==
  /\ \A p \in Procs : io[p] = "drain" => storeLock = p
  /\ \A s \in Scopes : draining[s] # <<>> => storeLock \in Procs /\ io[storeLock] = "drain"
  /\ Operator \in Procs =>
       /\ io[Operator] # "flush"
       /\ io[Operator] = "drain" => pc[Operator] = "remove"
       /\ pc[Operator] \in {"remove", "forget"} => storeLock = Operator
       /\ pc[Operator] = "forget" => rows[clearing] = NoRow

\* An attempt claims slots of its own target's scopes only.
ClaimsOwn == \A a \in Attempts : lease[a].claimed \subseteq ScopesOf(lease[a].target)

\* The inductive invariant.
GateInv ==
  /\ StatesFit /\ ControlOK /\ RegistryOK
  /\ LockHeld /\ ClaimsOwn /\ NoSlotLeaks /\ RowsFollowGate

\* What a failed call, or a probe, reports.
Observation == [reason : Reasons \cup {""}, answered : BOOLEAN, retryAfter : Nat]

\* An observation fits the policy it is counted under: only a refused credential waits
\* for a new revision, and it does so at once.
Fits(policy, o) ==
  /\ policy.recovery = "credential_revision" <=> o.reason = "invalid_credential"
  /\ policy.recovery = "credential_revision" => policy.threshold <= 1

\* What a locked section may do to the state st of a scope and to the queue q of its rows:
\* either nothing is owed and every row that stood for st stands for the new state, or
\* the row that is queued does.
Follows(st, q, next, nextq) ==
  /\ next \in FitStates
  /\ \/ /\ nextq = q
        /\ \A row \in FitRows : Remembers(row, st) => Remembers(row, next)
     \/ \E row \in FitRows : nextq = q \o <<row>> /\ Remembers(row, next)

-----------------------------------------------------------------------------
(* States, rows and what a section owes the store *)

\* The constants, as the provers use them.
LEMMA Settings ==
  /\ AvailabilityThreshold \in Nat /\ AvailabilityThreshold >= 1
  /\ HalfOpenMaxRequests \in Nat /\ HalfOpenMaxRequests >= 1
  /\ AvailabilityWindow \in Nat /\ MaxAvailabilityWindow \in Nat
  /\ MaxRevision \in Nat /\ MaxRevision >= 1 /\ MaxCrashes \in Nat /\ MaxFailures \in Nat
  /\ Observations \subseteq Observation
<1>1. /\ AvailabilityThreshold \in Nat \ {0} /\ HalfOpenMaxRequests \in Nat \ {0}
      /\ AvailabilityWindow \in Nat \ {0} /\ MaxAvailabilityWindow \in Nat
  BY ConfigAssumption
<1>2. MaxRevision \in Nat \ {0} /\ MaxCrashes \in Nat /\ MaxFailures \in Nat
  BY GateBoundAssumption
<1>3. Observations \subseteq Observation
  BY ObservationsAssumption DEF Observation
<1> QED BY <1>1, <1>2, <1>3

\* A cap keeps a number a number, and a positive one positive.
LEMMA CappedFits ==
  ASSUME NEW n \in Nat, NEW cap \in Nat
  PROVE  CappedAt(n, cap) \in Nat /\ (n >= 1 => CappedAt(n, cap) >= 1)
BY DEF CappedAt

\* The policies of the table fit the observations they are for.
LEMMA PolicyFits ==
  ASSUME NEW o \in Observation
  PROVE  policyFor(o) \in Policies /\ Fits(policyFor(o), o)
<1>1. CASE o.reason = ""
  BY <1>1, Settings DEF Observation, policyFor, availabilityPolicy, Policy, Policies, Kinds, Fits
<1>2. CASE o.reason = "rate_limited"
  <2>1. policyFor(o) = Policy("credential_model", 1, 1, 60, "window", TRUE)
    BY <1>2 DEF policyFor, DefaultPolicies
  <2> QED BY <1>2, <2>1 DEF Policy, Policies, Kinds, Fits
<1>3. CASE o.reason = "subscription_quota_exhausted"
  <2>1. policyFor(o) = Policy("credential_model", 1, 900, 21600, "window", TRUE)
    BY <1>3 DEF policyFor, DefaultPolicies
  <2> QED BY <1>3, <2>1 DEF Policy, Policies, Kinds, Fits
<1>4. CASE o.reason = "entitlement_verification_unavailable"
  <2>1. policyFor(o) = Policy("credential", 1, 30, 300, "window", TRUE)
    BY <1>4 DEF policyFor, DefaultPolicies
  <2> QED BY <1>4, <2>1 DEF Policy, Policies, Kinds, Fits
<1>5. CASE o.reason = "invalid_credential"
  <2>1. policyFor(o) = Policy("credential", 1, 0, 0, "credential_revision", FALSE)
    BY <1>5 DEF policyFor, DefaultPolicies
  <2> QED BY <1>5, <2>1 DEF Policy, Policies, Kinds, Fits
<1> QED BY <1>1, <1>2, <1>3, <1>4, <1>5 DEF Observation, Reasons

\* A scope nothing is held against.
LEMMA BlankFits ==
  Blank \in FitStates /\ ~persistable(Blank) /\ Blank.probing = 0
BY DEF Blank, FitStates, ScopeStates, ZeroPolicy, Policy, Policies, persistable, suspended

\* Dropping a scope owes the removal of its row, where it has one.
LEMMA DropFollows ==
  ASSUME NEW st \in FitStates, NEW q \in Seq(FitRows), NEW owed,
         owed = IF st.persisted THEN <<NoRow>> ELSE <<>>
  PROVE  Follows(st, q, Blank, q \o owed)
<1>1. \A row : Remembers(row, Blank) <=> row = NoRow
  BY BlankFits DEF Remembers
<1>2. CASE st.persisted
  <2>1. NoRow \in FitRows
    BY DEF FitRows
  <2>2. owed = <<NoRow>>
    BY <1>2
  <2> QED BY <1>1, <2>1, <2>2, BlankFits DEF Follows
<1>3. CASE ~st.persisted
  <2>1. ~persistable(st)
    BY <1>3 DEF FitStates
  <2>2. q \o owed = q
    BY <1>3
  <2> QED BY <1>1, <2>1, <2>2, BlankFits DEF Follows, Remembers
<1> QED BY <1>2, <1>3

\* What a state whose row is worth writing is written as.
LEMMA RecordFits ==
  ASSUME NEW st \in ScopeStates, persistable(st),
         st.reason = "invalid_credential" => st.indefinite
  PROVE  recordFor(st) \in FitRows /\ Remembers(recordFor(st), st)
<1>1. recordFor(st) \in Rows
  BY DEF ScopeStates, persistable, recordFor, Rows, Reasons
<1>2. recordFor(st) # NoRow
  BY <1>1, NoRowAssumption
<1>3. /\ recordFor(st).indefinite = st.indefinite /\ recordFor(st).window = st.window
      /\ recordFor(st).reason = st.reason
  BY DEF recordFor
<1>4. Remembers(recordFor(st), st)
  BY <1>2, <1>3 DEF Remembers
<1> QED BY <1>1, <1>3, <1>4 DEF FitRows, persistable

\* A state that follows st after an observation: of its type, with the same slots.
Succeeding(st, next) ==
  /\ next \in ScopeStates /\ next.probing = st.probing
  /\ next.persisted = st.persisted
  /\ next.policy.recovery = "credential_revision" => next.indefinite
  /\ next.reason = "invalid_credential" => next.indefinite
  /\ ~suspended(next) => ~suspended(st)
  /\ suspended(next) /\ next.until = "none" => next.indefinite /\ next.reason # ""

\* An observation gives a scope such a state.
LEMMA ObservedFits ==
  ASSUME NEW st \in FitStates, NEW policy \in Policies, NEW o \in Observation,
         NEW rev \in Nat, Fits(policy, o)
  PROVE  Succeeding(st, Observed(st, policy, o, rev))
<1> DEFINE next == Observed(st, policy, o, rev)
           n == CappedAt(st.failures + 1, AvailabilityThreshold)
           w == NextWindow(st, policy, o)
           counted == [st EXCEPT !.policy = policy, !.failures = n]
           seen == [counted EXCEPT !.reason = o.reason, !.rev = rev]
<1>1. st \in ScopeStates /\ (st.reason = "invalid_credential" => st.indefinite)
  BY DEF FitStates
<1>2. n \in Nat /\ n >= 1
  <2>1. st.failures \in Nat
    BY <1>1 DEF ScopeStates
  <2>2. st.failures + 1 \in Nat /\ st.failures + 1 >= 1
    BY <2>1
  <2> QED BY <2>2, CappedFits, Settings
<1>3. w \in Nat
  <2>1. /\ st.window \in Nat /\ policy.window \in Nat /\ policy.max \in Nat
        /\ o.retryAfter \in Nat
    BY <1>1 DEF ScopeStates, Policies, Observation
  <2>2. 2 * st.window \in Nat
    BY <2>1
  <2> QED BY <2>1, <2>2, CappedFits DEF NextWindow
<1> HIDE DEF n, w
<1>4. o.reason \in Reasons \cup {""}
  BY DEF Observation
<1>5. counted \in ScopeStates /\ seen \in ScopeStates
  BY <1>1, <1>2, <1>4 DEF ScopeStates
<1>6. /\ counted.policy = policy /\ seen.policy = policy
      /\ counted.failures = n
      /\ counted.indefinite = st.indefinite /\ seen.indefinite = st.indefinite
      /\ counted.until = st.until
      /\ counted.probing = st.probing /\ seen.probing = st.probing
      /\ counted.persisted = st.persisted /\ seen.persisted = st.persisted
      /\ counted.reason = st.reason /\ seen.reason = o.reason
  BY <1>1 DEF ScopeStates
<1>7. next = IF counted.failures < policy.threshold /\ ~suspended(st) THEN counted
             ELSE IF policy.recovery = "credential_revision"
               THEN [seen EXCEPT !.indefinite = TRUE, !.until = "none"]
             ELSE [seen EXCEPT !.window = w, !.until = "ahead"]
  BY DEF Observed, n, w
<1> SUFFICES Succeeding(st, next)
  OBVIOUS
<1> HIDE DEF counted, seen, next
<1>8. policy.threshold \in Nat
  BY DEF Policies
<1>9. ~(n < policy.threshold) \/ policy.recovery # "credential_revision"
  BY <1>2, <1>8 DEF Fits
<1>10. CASE counted.failures < policy.threshold /\ ~suspended(st)
  <2>1. next = counted
    BY <1>7, <1>10
  <2>2. policy.recovery # "credential_revision"
    BY <1>6, <1>9, <1>10
  <2> QED BY <1>1, <1>5, <1>6, <1>10, <2>1, <2>2 DEF Succeeding, suspended
<1>11. CASE ~(counted.failures < policy.threshold /\ ~suspended(st))
            /\ policy.recovery = "credential_revision"
  <2>1. next = [seen EXCEPT !.indefinite = TRUE, !.until = "none"]
    BY <1>7, <1>11
  <2>2. /\ next \in ScopeStates /\ next.indefinite = TRUE /\ next.until = "none"
        /\ next.reason = seen.reason /\ next.probing = seen.probing
        /\ next.persisted = seen.persisted
    BY <1>5, <2>1 DEF ScopeStates
  <2> QED BY <1>6, <1>11, <2>2 DEF Succeeding, Fits, suspended
<1>12. CASE ~(counted.failures < policy.threshold /\ ~suspended(st))
            /\ policy.recovery # "credential_revision"
  <2>1. next = [seen EXCEPT !.window = w, !.until = "ahead"]
    BY <1>7, <1>12
  <2>2. /\ next \in ScopeStates /\ next.indefinite = seen.indefinite
        /\ next.until = "ahead" /\ next.policy = seen.policy
        /\ next.reason = seen.reason /\ next.probing = seen.probing
        /\ next.persisted = seen.persisted
    BY <1>3, <1>5, <2>1 DEF ScopeStates
  <2> QED BY <1>6, <1>12, <2>2 DEF Succeeding, Fits, suspended
<1> QED BY <1>10, <1>11, <1>12

\* What the store is owed for an observation is what the new state needs.
LEMMA ObserveFollows ==
  ASSUME NEW st \in FitStates, NEW policy \in Policies, NEW o \in Observation,
         NEW rev \in Nat, Fits(policy, o), NEW q \in Seq(FitRows)
  PROVE  LET next == Observed(st, policy, o, rev)
         IN /\ Follows(st, q, Noted(st, next), q \o OwedFor(st, next))
            /\ Noted(st, next).probing = st.probing
<1> DEFINE next == Observed(st, policy, o, rev)
           noted == Noted(st, next)
           flagged == [next EXCEPT !.persisted = persistable(next)]
<1>0. Succeeding(st, next)
  BY ObservedFits
<1>2. st \in ScopeStates /\ (st.persisted <=> persistable(st))
  BY DEF FitStates
<1> SUFFICES Follows(st, q, noted, q \o OwedFor(st, next)) /\ noted.probing = st.probing
  OBVIOUS
<1> HIDE DEF next
<1>1. /\ next \in ScopeStates /\ next.probing = st.probing
      /\ next.persisted = st.persisted
      /\ next.policy.recovery = "credential_revision" => next.indefinite
      /\ next.reason = "invalid_credential" => next.indefinite
      /\ ~suspended(next) => ~suspended(st)
      /\ suspended(next) /\ next.until = "none" => next.indefinite /\ next.reason # ""
  BY <1>0 DEF Succeeding
<1>3. persistable(next) \in BOOLEAN
  BY DEF persistable
<1>4. /\ flagged \in ScopeStates /\ flagged.persisted = persistable(next)
      /\ flagged.indefinite = next.indefinite /\ flagged.window = next.window
      /\ flagged.reason = next.reason /\ flagged.policy = next.policy
      /\ flagged.probing = next.probing /\ flagged.until = next.until
  BY <1>1, <1>3 DEF ScopeStates
<1>5. noted = IF MustNote(st, next) THEN flagged ELSE next
  BY DEF Noted
<1> HIDE DEF flagged, noted
<1>6. persistable(flagged) <=> persistable(next)
  BY <1>4 DEF persistable, suspended
<1>7. flagged \in FitStates
  BY <1>1, <1>4, <1>6 DEF FitStates
<1>8. CASE MustNote(st, next) /\ persistable(next)
  <2>1. recordFor(next) \in FitRows /\ Remembers(recordFor(next), next)
    BY <1>1, <1>8, RecordFits
  <2>2. Remembers(recordFor(next), noted)
    BY <1>4, <1>5, <1>6, <1>8, <2>1 DEF Remembers
  <2>3. OwedFor(st, next) = <<recordFor(next)>>
    BY <1>8 DEF OwedFor
  <2> QED BY <1>1, <1>4, <1>5, <1>7, <1>8, <2>1, <2>2, <2>3 DEF Follows
<1>9. CASE MustNote(st, next) /\ ~persistable(next)
  <2>1. ~persistable(noted) /\ noted \in FitStates /\ noted.probing = st.probing
    BY <1>1, <1>4, <1>5, <1>6, <1>7, <1>9
  <2>2. NoRow \in FitRows
    BY DEF FitRows
  <2>3. CASE st.persisted
    <3>1. OwedFor(st, next) = <<NoRow>>
      BY <1>9, <2>3 DEF OwedFor
    <3> QED BY <2>1, <2>2, <3>1 DEF Follows, Remembers
  <2>4. CASE ~st.persisted
    <3>1. q \o OwedFor(st, next) = q
      BY <1>9, <2>4 DEF OwedFor
    <3> QED BY <1>2, <2>1, <2>4, <3>1 DEF Follows, Remembers
  <2> QED BY <2>3, <2>4
<1>10. CASE ~MustNote(st, next)
  <2>1. q \o OwedFor(st, next) = q
    BY <1>10 DEF OwedFor
  <2>2. noted = next
    BY <1>5, <1>10
  <2>3. CASE ~suspended(next)
    <3>1. ~persistable(next) /\ ~persistable(st)
      BY <1>1, <2>3 DEF persistable
    <3>2. next \in FitStates
      BY <1>1, <1>2, <3>1 DEF FitStates
    <3> QED BY <1>1, <2>1, <2>2, <3>1, <3>2 DEF Follows, Remembers
  <2>4. CASE suspended(next)
    <3>1. /\ st.persisted /\ next.indefinite = st.indefinite
          /\ next.window = st.window /\ next.until = "none"
      BY <1>10, <2>4 DEF MustNote, Moved
    <3>2. persistable(next) /\ persistable(st)
      BY <1>1, <1>2, <2>4, <3>1 DEF persistable
    <3>3. next \in FitStates
      BY <1>1, <3>1, <3>2 DEF FitStates
    <3> QED BY <1>1, <2>1, <2>2, <3>1, <3>2, <3>3 DEF Follows, Remembers
  <2> QED BY <2>3, <2>4
<1> QED BY <1>8, <1>9, <1>10

\* A section that leaves a scope alone.
LEMMA KeepFollows ==
  ASSUME NEW st \in FitStates, NEW q
  PROVE  Follows(st, q, st, q)
BY DEF Follows

\* Slots are no part of what a row remembers.
LEMMA SlotFollows ==
  ASSUME NEW st \in FitStates, NEW q, NEW n \in Nat
  PROVE  /\ Follows(st, q, [st EXCEPT !.probing = n], q)
         /\ [st EXCEPT !.probing = n].probing = n
<1> DEFINE next == [st EXCEPT !.probing = n]
<1>1. st \in ScopeStates
  BY DEF FitStates
<1>2. /\ next \in ScopeStates /\ next.probing = n /\ next.persisted = st.persisted
      /\ next.indefinite = st.indefinite /\ next.window = st.window
      /\ next.reason = st.reason /\ next.policy = st.policy /\ next.until = st.until
  BY <1>1 DEF ScopeStates
<1> HIDE DEF next
<1>3. persistable(next) <=> persistable(st)
  BY <1>2 DEF persistable, suspended
<1>4. next \in FitStates
  BY <1>2, <1>3 DEF FitStates
<1>5. Follows(st, q, next, q)
  BY <1>2, <1>3, <1>4 DEF Follows, Remembers
<1> QED BY <1>2, <1>5 DEF next

\* Nor is whether the end of a window has passed.
LEMMA EndFollows ==
  ASSUME NEW st \in FitStates, NEW q, st.until = "ahead"
  PROVE  /\ Follows(st, q, [st EXCEPT !.until = "passed"], q)
         /\ [st EXCEPT !.until = "passed"].probing = st.probing
<1> DEFINE next == [st EXCEPT !.until = "passed"]
<1>1. st \in ScopeStates
  BY DEF FitStates
<1>2. /\ next \in ScopeStates /\ next.probing = st.probing /\ next.persisted = st.persisted
      /\ next.indefinite = st.indefinite /\ next.window = st.window
      /\ next.reason = st.reason /\ next.policy = st.policy /\ next.until = "passed"
  BY <1>1 DEF ScopeStates
<1> HIDE DEF next
<1>3. persistable(next) <=> persistable(st)
  BY <1>2 DEF persistable, suspended
<1>4. next \in FitStates
  BY <1>2, <1>3 DEF FitStates
<1>5. Follows(st, q, next, q)
  BY <1>2, <1>3, <1>4 DEF Follows, Remembers
<1> QED BY <1>2, <1>5 DEF next

\* What a row comes back as stands for the row again.
LEMMA RestoredFits ==
  ASSUME NEW row \in FitRows, row # NoRow, NEW until \in {"ahead", "passed"}
  PROVE  /\ Restored(row, until) \in FitStates /\ Remembers(row, Restored(row, until))
         /\ persistable(Restored(row, until)) /\ Restored(row, until).probing = 0
         /\ Restored(row, until).indefinite = row.indefinite
         /\ Restored(row, until).window = row.window
<1> DEFINE st == Restored(row, until)
           o == [reason |-> row.reason, answered |-> TRUE, retryAfter |-> 0]
<1>1. /\ row \in Rows /\ (row.indefinite \/ row.window > PersistWindowThreshold)
      /\ row.reason = "invalid_credential" => row.indefinite
  BY DEF FitRows
<1>2. row.reason \in Reasons /\ row.indefinite \in BOOLEAN /\ row.window \in Nat /\ row.rev \in Nat
  BY <1>1 DEF Rows
<1>3. o \in Observation /\ o.reason = row.reason /\ row.reason # ""
  BY <1>2 DEF Observation, Reasons
<1>4. /\ DefaultPolicies(row.reason) \in Policies
      /\ DefaultPolicies(row.reason).recovery = "credential_revision"
           <=> row.reason = "invalid_credential"
  <2>1. policyFor(o) \in Policies /\ Fits(policyFor(o), o)
    BY <1>3, PolicyFits
  <2>2. policyFor(o) = DefaultPolicies(row.reason)
    BY <1>3 DEF policyFor
  <2> QED BY <1>3, <2>1, <2>2 DEF Fits
<1>5. /\ st.indefinite = row.indefinite /\ st.window = row.window /\ st.reason = row.reason
      /\ st.persisted = TRUE /\ st.policy = DefaultPolicies(row.reason) /\ st.probing = 0
      /\ st.until = IF row.indefinite THEN "none" ELSE until
  BY DEF Restored
<1>6. st \in ScopeStates
  <2>1. DefaultPolicies(row.reason).threshold \in Nat
    BY <1>4 DEF Policies
  <2>2. (IF row.indefinite THEN "none" ELSE until) \in {"none", "ahead", "passed"}
    OBVIOUS
  <2> HIDE DEF o
  <2> QED BY <1>2, <1>4, <2>1, <2>2 DEF Restored, ScopeStates
<1> HIDE DEF st, o
<1>7. persistable(st)
  BY <1>1, <1>3, <1>5 DEF persistable, suspended
<1>8. st \in FitStates /\ Remembers(row, st)
  BY <1>1, <1>4, <1>5, <1>6, <1>7 DEF FitStates, Remembers
<1> QED BY <1>5, <1>7, <1>8 DEF st

-----------------------------------------------------------------------------
(* Locked sections of the Gate *)

\* A locked section: each scope and its queue follow, the store is not touched, the
\* operator stays where it is, and another goroutine may leave for its flush.
Section ==
  /\ scopes' = [s \in Scopes |-> scopes'[s]] /\ pending' = [s \in Scopes |-> pending'[s]]
  /\ \A s \in Scopes : Follows(scopes[s], pending[s], scopes'[s], pending'[s])
  /\ UNCHANGED <<storeVars, clearing>>
  /\ \A p \in Procs : \/ io'[p] = io[p]
                      \/ p # Operator /\ io[p] = "none" /\ io'[p] = "flush"
  /\ Operator \in Procs => pc'[Operator] = pc[Operator]

\* A queue of rows that may grow by one is again a queue of rows.
LEMMA QueueFits ==
  ASSUME NEW st, NEW q \in Seq(FitRows), NEW next, NEW nextq, Follows(st, q, next, nextq)
  PROVE  nextq \in Seq(FitRows)
<1>1. CASE nextq = q
  BY <1>1
<1>2. CASE \E row \in FitRows : nextq = q \o <<row>>
  <2>1. PICK row \in FitRows : nextq = q \o <<row>>
    BY <1>2
  <2> QED BY <2>1
<1> QED BY <1>1, <1>2 DEF Follows

\* The last word about a scope, when what is queued for it follows its state.
LEMMA LastWordFollows ==
  ASSUME NEW st, NEW next, NEW d \in Seq(FitRows), NEW q \in Seq(FitRows),
         NEW nextq, NEW row \in FitRows, Follows(st, q, next, nextq),
         \/ d \o q = <<>> /\ nextq # q
         \/ Remembers(IF d \o q = <<>> THEN row ELSE (d \o q)[Len(d \o q)], st)
  PROVE  Remembers(IF d \o nextq = <<>> THEN row ELSE (d \o nextq)[Len(d \o nextq)], next)
<1>1. CASE nextq = q /\ \A r \in FitRows : Remembers(r, st) => Remembers(r, next)
  <2> DEFINE last == IF d \o q = <<>> THEN row ELSE (d \o q)[Len(d \o q)]
  <2>1. last \in FitRows
    <3>1. d \o q \in Seq(FitRows)
      OBVIOUS
    <3> QED BY <3>1
  <2> QED BY <1>1, <2>1
<1>2. CASE \E r \in FitRows : nextq = q \o <<r>> /\ Remembers(r, next)
  <2>1. PICK r \in FitRows : nextq = q \o <<r>> /\ Remembers(r, next)
    BY <1>2
  <2>2. d \o nextq # <<>> /\ (d \o nextq)[Len(d \o nextq)] = r
    BY <2>1
  <2> QED BY <2>1, <2>2
<1> QED BY <1>1, <1>2 DEF Follows

\* A locked section keeps the states and rows fit, the lock where it is, and the rows
\* following the gate.
LEMMA SectionKeeps ==
  GateInv /\ Section => StatesFit' /\ LockHeld' /\ RowsFollowGate'
<1> SUFFICES ASSUME GateInv, Section PROVE StatesFit' /\ LockHeld' /\ RowsFollowGate'
  OBVIOUS
<1>1. /\ scopes \in [Scopes -> FitStates] /\ pending \in [Scopes -> Seq(FitRows)]
      /\ draining \in [Scopes -> Seq(FitRows)] /\ rows \in [Scopes -> FitRows]
  BY DEF GateInv, StatesFit
<1>2. /\ draining' = draining /\ rows' = rows /\ storeLock' = storeLock /\ lost' = lost
      /\ clearing' = clearing
  BY DEF Section, storeVars
<1>3. \A s \in Scopes : Follows(scopes[s], pending[s], scopes'[s], pending'[s])
  BY DEF Section
<1>4. StatesFit'
  <2>1. \A s \in Scopes : scopes'[s] \in FitStates
    BY <1>3 DEF Follows
  <2>2. \A s \in Scopes : pending'[s] \in Seq(FitRows)
    BY <1>1, <1>3, QueueFits
  <2>3. scopes' = [s \in Scopes |-> scopes'[s]] /\ pending' = [s \in Scopes |-> pending'[s]]
    BY DEF Section
  <2>4. scopes' \in [Scopes -> FitStates] /\ pending' \in [Scopes -> Seq(FitRows)]
    BY <2>1, <2>2, <2>3
  <2> QED BY <1>1, <1>2, <2>4 DEF StatesFit
<1>5. LockHeld'
  BY <1>2 DEF GateInv, LockHeld, Section
<1>6. RowsFollowGate'
  <2> SUFFICES ASSUME NEW s \in Scopes, ~BeingCleared(s)', (s \in lost => Queued(s) # <<>>)'
               PROVE  Remembers(LastWord(s)', scopes'[s])
    BY DEF RowsFollowGate
  <2>1. ~BeingCleared(s)
    BY <1>2 DEF BeingCleared, Section
  <2>2. s \in lost /\ Queued(s) = <<>> => pending'[s] # pending[s]
    BY <1>2 DEF Queued
  <2>3. \/ Queued(s) = <<>> /\ pending'[s] # pending[s]
        \/ Remembers(LastWord(s), scopes[s])
    BY <2>1, <2>2 DEF GateInv, RowsFollowGate
  <2>4. LastWord(s)' = IF draining[s] \o pending'[s] = <<>> THEN rows[s]
                       ELSE (draining[s] \o pending'[s])[Len(draining[s] \o pending'[s])]
    BY <1>2 DEF LastWord, Queued
  <2>5. LastWord(s) = IF draining[s] \o pending[s] = <<>> THEN rows[s]
                      ELSE (draining[s] \o pending[s])[Len(draining[s] \o pending[s])]
    BY DEF LastWord, Queued
  <2> DEFINE st == scopes[s]
             next == scopes'[s]
             d == draining[s]
             q == pending[s]
             nextq == pending'[s]
             row == rows[s]
  <2>6. d \in Seq(FitRows) /\ q \in Seq(FitRows) /\ row \in FitRows
    BY <1>1
  <2>7. Follows(st, q, next, nextq)
    BY <1>3
  <2>8. \/ d \o q = <<>> /\ nextq # q
        \/ Remembers(IF d \o q = <<>> THEN row ELSE (d \o q)[Len(d \o q)], st)
    BY <2>3, <2>5 DEF Queued
  <2> HIDE DEF st, next, d, q, nextq, row
  <2>9. Remembers(IF d \o nextq = <<>> THEN row ELSE (d \o nextq)[Len(d \o nextq)], next)
    BY <2>6, <2>7, <2>8, LastWordFollows
  <2> QED BY <2>4, <2>9 DEF next, d, nextq, row
<1> QED BY <1>4, <1>5, <1>6

\* Dropping the scopes of D, when the others follow on their own.
LEMMA DropAndFollows ==
  ASSUME StatesFit, NEW STATE D, NEW STATE others, DropAnd(D, others),
         \A s \in Scopes : s \notin D => Follows(scopes[s], pending[s], others[s], pending[s])
  PROVE  /\ scopes' = [s \in Scopes |-> scopes'[s]] /\ pending' = [s \in Scopes |-> pending'[s]]
         /\ \A s \in Scopes : Follows(scopes[s], pending[s], scopes'[s], pending'[s])
         /\ \A s \in Scopes : scopes'[s] = IF s \in D THEN Blank ELSE others[s]
<1>1. /\ scopes' = [s \in Scopes |-> IF s \in D THEN Blank ELSE others[s]]
      /\ pending' = [s \in Scopes |-> IF s \in D THEN pending[s] \o OwedForDrop(s) ELSE pending[s]]
  BY DEF DropAnd
<1>2. ASSUME NEW s \in Scopes PROVE Follows(scopes[s], pending[s], scopes'[s], pending'[s])
  <2>1. CASE s \notin D
    BY <1>1, <2>1
  <2>2. CASE s \in D
    <3>1. scopes'[s] = Blank /\ pending'[s] = pending[s] \o OwedForDrop(s)
      BY <1>1, <2>2
    <3>2. scopes[s] \in FitStates /\ pending[s] \in Seq(FitRows)
      BY DEF StatesFit
    <3>3. OwedForDrop(s) = IF scopes[s].persisted THEN <<NoRow>> ELSE <<>>
      BY DEF OwedForDrop
    <3> QED BY <3>1, <3>2, <3>3, DropFollows
  <2> QED BY <2>1, <2>2
<1> QED BY <1>1, <1>2

\* Dropping scopes and nothing else.
LEMMA DropsFollow ==
  ASSUME StatesFit, NEW STATE D, Drop(D)
  PROVE  /\ scopes' = [s \in Scopes |-> scopes'[s]] /\ pending' = [s \in Scopes |-> pending'[s]]
         /\ \A s \in Scopes : Follows(scopes[s], pending[s], scopes'[s], pending'[s])
         /\ \A s \in Scopes : scopes'[s] = IF s \in D THEN Blank ELSE scopes[s]
<1>1. \A s \in Scopes : Follows(scopes[s], pending[s], scopes[s], pending[s])
  BY KeepFollows DEF StatesFit
<1>2. DropAnd(D, scopes)
  BY DEF Drop
<1> QED BY <1>1, <1>2, DropAndFollows

\* Observing the scopes of S, each under a policy that fits what it observes.
LEMMA ObservesFollow ==
  ASSUME StatesFit, NEW STATE S, NEW STATE policy, NEW STATE o, NEW STATE rev, rev \in Nat,
         Observe(S, policy, o, rev),
         \A s \in Scopes : s \in S => /\ policy[s] \in Policies /\ o[s] \in Observation
                                      /\ Fits(policy[s], o[s])
  PROVE  /\ scopes' = [s \in Scopes |-> scopes'[s]] /\ pending' = [s \in Scopes |-> pending'[s]]
         /\ \A s \in Scopes : Follows(scopes[s], pending[s], scopes'[s], pending'[s])
         /\ \A s \in Scopes : scopes'[s].probing = scopes[s].probing
<1> DEFINE next(s) == Observed(scopes[s], policy[s], o[s], rev)
<1>1. /\ scopes' = [s \in Scopes |-> IF s \in S THEN Noted(scopes[s], next(s)) ELSE scopes[s]]
      /\ pending' = [s \in Scopes |-> IF s \in S THEN pending[s] \o OwedFor(scopes[s], next(s))
                                      ELSE pending[s]]
  BY DEF Observe
<1>2. ASSUME NEW s \in Scopes
      PROVE  /\ Follows(scopes[s], pending[s], scopes'[s], pending'[s])
             /\ scopes'[s].probing = scopes[s].probing
  <2>1. scopes[s] \in FitStates /\ pending[s] \in Seq(FitRows)
    BY DEF StatesFit
  <2>2. CASE s \notin S
    <3>1. scopes'[s] = scopes[s] /\ pending'[s] = pending[s]
      BY <1>1, <2>2
    <3> QED BY <2>1, <3>1, KeepFollows
  <2>3. CASE s \in S
    <3>1. /\ scopes'[s] = Noted(scopes[s], next(s))
          /\ pending'[s] = pending[s] \o OwedFor(scopes[s], next(s))
      BY <1>1, <2>3
    <3>2. policy[s] \in Policies /\ o[s] \in Observation /\ Fits(policy[s], o[s])
      BY <2>3
    <3> QED BY <2>1, <3>1, <3>2, ObserveFollows
  <2> QED BY <2>2, <2>3
<1> QED BY <1>1, <1>2

\* Slots are kept where a suspension and its attempts stay, or both go.
LEMMA SlotsKept ==
  ASSUME NoSlotLeaks,
         \A s \in Scopes :
           \/ scopes'[s].probing = scopes[s].probing /\ probes'[s] = probes[s]
           \/ scopes'[s].probing = 0 /\ probes'[s] = {},
         \A s \in Scopes : \A a \in probes'[s] :
           pc'[a] = pc[a] /\ lease'[a].claimed = lease[a].claimed
  PROVE  NoSlotLeaks'
<1> SUFFICES ASSUME NEW s \in Scopes
             PROVE  /\ scopes'[s].probing <= Cardinality(probes'[s])
                    /\ \A a \in probes'[s] : pc'[a] = "calling" /\ s \in lease'[a].claimed
  BY DEF NoSlotLeaks
<1>1. CASE scopes'[s].probing = scopes[s].probing /\ probes'[s] = probes[s]
  BY <1>1 DEF NoSlotLeaks
<1>2. CASE scopes'[s].probing = 0 /\ probes'[s] = {}
  <2>1. Cardinality({}) = 0
    BY FS_EmptySet
  <2> QED BY <1>2, <2>1
<1> QED BY <1>1, <1>2

-----------------------------------------------------------------------------
(* The goroutines *)

\* The control points, as in ControlOK.
Points == {"idle", "resolved", "calling", "released", "reporting", "replaced", "remove",
           "forget"}

\* The attempts are none of the other goroutines.
LEMMA AttemptsApart ==
  ASSUME NEW a \in Attempts
  PROVE  /\ a \in Procs /\ a # Operator /\ a # Prober /\ a # Reloader /\ a # NoOne
         /\ Operator # Prober /\ Operator # Reloader /\ Operator # NoOne /\ Prober # NoOne
BY ProcsAssumption DEF Procs, Operator, Prober, Reloader, NoOne

\* An idle lease is a lease that claims nothing, and NoScope is a scope.
LEMMA IdleFits ==
  /\ Idle \in Leases /\ Idle.claimed = {} /\ Idle.target \in Targets
  /\ NoScope \in Scopes
  /\ \A t \in Targets : ScopesOf(t) \subseteq Scopes
<1>1. (CHOOSE t \in Targets : TRUE) \in Targets /\ (CHOOSE o \in Observations : TRUE) \in Observations
  BY InstanceAssumption
<1>2. 0 \in 0..MaxRevision
  BY Settings
<1>3. Idle \in Leases /\ Idle.claimed = {} /\ Idle.target \in Targets
  BY <1>1, <1>2 DEF Idle, Leases
<1>4. \A t \in Targets : ScopesOf(t) \subseteq Scopes
  BY DEF Scopes
<1>5. \E s : s \in Scopes
  <2>1. PICK t \in Targets : TRUE
    BY InstanceAssumption
  <2>2. scopesOf(t)[1] \in ScopesOf(t)
    BY DEF ScopesOf
  <2> QED BY <1>4, <2>1, <2>2
<1>6. NoScope \in Scopes
  BY <1>5 DEF NoScope
<1> QED BY <1>3, <1>4, <1>6

\* A goroutine other than the operator leaves a section for a control point.
LEMMA Leaves ==
  ASSUME ControlOK, NEW p \in Procs, p # Operator, NEW STATE point, point \in Points,
         io[p] = "none", pc' = [pc EXCEPT ![p] = point],
         io' = [io EXCEPT ![p] = "flush"] \/ io' = io
  PROVE  /\ pc' \in [Procs -> Points] /\ io' \in [Procs -> {"none", "flush", "drain"}]
         /\ \A q \in Procs : \/ io'[q] = io[q]
                             \/ q # Operator /\ io[q] = "none" /\ io'[q] = "flush"
         /\ \A q \in Procs : q # p => pc'[q] = pc[q]
         /\ Operator \in Procs => pc'[Operator] = pc[Operator]
<1>1. pc \in [Procs -> Points] /\ io \in [Procs -> {"none", "flush", "drain"}]
  BY DEF ControlOK, Points
<1> QED BY <1>1 DEF Points

\* What an action on the Gate has to show: it is a section, and the goroutines, leases,
\* registry and slots are left in order.
Orderly == Section /\ ControlOK' /\ RegistryOK' /\ ClaimsOwn' /\ NoSlotLeaks'

\* A section of a goroutine p that is not calling: every suspension keeps its slots or
\* goes with them, and no other attempt's lease is touched.
LEMMA SectionOrderly ==
  ASSUME GateInv,
         scopes' = [s \in Scopes |-> scopes'[s]], pending' = [s \in Scopes |-> pending'[s]],
         probes' = [s \in Scopes |-> probes'[s]],
         \A s \in Scopes : Follows(scopes[s], pending[s], scopes'[s], pending'[s]),
         \A s \in Scopes : \/ scopes'[s].probing = scopes[s].probing /\ probes'[s] = probes[s]
                           \/ scopes'[s].probing = 0 /\ probes'[s] = {},
         NEW p, NEW point \in Points, p # Operator, At(p, pc[p]), pc[p] # "calling",
         FlushTo(p, point),
         lease' \in [Attempts -> Leases],
         \A a \in Attempts : \/ lease'[a] = lease[a]
                             \/ a = p /\ lease'[a].claimed \subseteq ScopesOf(lease'[a].target),
         UNCHANGED <<storeVars, topologyVars, clearing, crashes>>
  PROVE  Orderly
<1>1. p \in Procs /\ io[p] = "none"
  BY DEF At
<1>2. /\ pc' \in [Procs -> Points] /\ io' \in [Procs -> {"none", "flush", "drain"}]
      /\ \A q \in Procs : \/ io'[q] = io[q]
                          \/ q # Operator /\ io[q] = "none" /\ io'[q] = "flush"
      /\ \A q \in Procs : q # p => pc'[q] = pc[q]
      /\ Operator \in Procs => pc'[Operator] = pc[Operator]
  <2>1. pc' = [pc EXCEPT ![p] = point] /\ io' = [io EXCEPT ![p] = "flush"]
    BY DEF FlushTo
  <2> QED BY <1>1, <2>1, Leaves DEF GateInv
<1>3. Section
  BY <1>2 DEF Section
<1>4. ControlOK'
  <2>1. \A s \in Scopes : probes'[s] \in SUBSET Attempts
    BY DEF GateInv, ControlOK
  <2>2. probes' \in [Scopes -> SUBSET Attempts]
    BY <2>1
  <2> QED BY <1>2, <2>2 DEF GateInv, ControlOK, Points, storeVars
<1>5. RegistryOK' /\ ClaimsOwn'
  BY DEF GateInv, RegistryOK, ClaimsOwn, storeVars, topologyVars
<1>6. NoSlotLeaks'
  <2>1. ASSUME NEW s \in Scopes, NEW a \in probes'[s]
        PROVE  pc'[a] = pc[a] /\ lease'[a].claimed = lease[a].claimed
    <3>1. a \in probes[s]
      OBVIOUS
    <3>2. a \in Attempts /\ a \in Procs
      BY <3>1, AttemptsApart DEF GateInv, ControlOK
    <3>3. a # p
      BY <3>1 DEF GateInv, NoSlotLeaks
    <3> QED BY <1>2, <3>2, <3>3
  <2> QED BY <2>1, SlotsKept DEF GateInv
<1> QED BY <1>3, <1>4, <1>5, <1>6 DEF Orderly

\* A section of a goroutine p that drops the scopes of D.
LEMMA DropOrderly ==
  ASSUME GateInv, NEW STATE D, Drop(D),
         NEW p, NEW point \in Points, p # Operator, At(p, pc[p]), pc[p] # "calling",
         FlushTo(p, point),
         lease' \in [Attempts -> Leases],
         \A a \in Attempts : \/ lease'[a] = lease[a]
                             \/ a = p /\ lease'[a].claimed \subseteq ScopesOf(lease'[a].target),
         UNCHANGED <<storeVars, topologyVars, clearing, crashes>>
  PROVE  Orderly
<1>1. /\ scopes' = [s \in Scopes |-> scopes'[s]] /\ pending' = [s \in Scopes |-> pending'[s]]
      /\ \A s \in Scopes : Follows(scopes[s], pending[s], scopes'[s], pending'[s])
      /\ \A s \in Scopes : scopes'[s] = IF s \in D THEN Blank ELSE scopes[s]
  BY DropsFollow DEF GateInv
<1>2. probes' = [s \in Scopes |-> IF s \in D THEN {} ELSE probes[s]]
  BY DEF Drop
<1>3. probes' = [s \in Scopes |-> probes'[s]]
  BY <1>2
<1>4. \A s \in Scopes : \/ scopes'[s].probing = scopes[s].probing /\ probes'[s] = probes[s]
                        \/ scopes'[s].probing = 0 /\ probes'[s] = {}
  BY <1>1, <1>2, BlankFits
<1> QED BY <1>1, <1>3, <1>4, SectionOrderly

\* A section of a goroutine p that observes the scopes of S.
LEMMA ObserveOrderly ==
  ASSUME GateInv, NEW STATE S, NEW STATE policy, NEW STATE o, NEW STATE rev, rev \in Nat,
         Observe(S, policy, o, rev),
         \A s \in Scopes : s \in S => /\ policy[s] \in Policies /\ o[s] \in Observation
                                      /\ Fits(policy[s], o[s]),
         NEW p, NEW point \in Points, p # Operator, At(p, pc[p]), pc[p] # "calling",
         FlushTo(p, point),
         lease' \in [Attempts -> Leases],
         \A a \in Attempts : \/ lease'[a] = lease[a]
                             \/ a = p /\ lease'[a].claimed \subseteq ScopesOf(lease'[a].target),
         UNCHANGED <<probes, storeVars, topologyVars, clearing, crashes>>
  PROVE  Orderly
<1>1. /\ scopes' = [s \in Scopes |-> scopes'[s]] /\ pending' = [s \in Scopes |-> pending'[s]]
      /\ \A s \in Scopes : Follows(scopes[s], pending[s], scopes'[s], pending'[s])
      /\ \A s \in Scopes : scopes'[s].probing = scopes[s].probing
  BY ObservesFollow DEF GateInv
<1>2. probes' = probes /\ probes' = [s \in Scopes |-> probes'[s]]
  BY DEF GateInv, ControlOK
<1>3. UNCHANGED <<storeVars, topologyVars, clearing, crashes>>
  OBVIOUS
<1> QED BY <1>1, <1>2, <1>3, SectionOrderly

\* The prober: what is held against deployments that are gone is forgotten.
LEMMA RetainDeploymentsOrderly ==
  ASSUME GateInv, NEW live, RetainDeployments(live)
  PROVE  Orderly
<1>1. /\ Drop(Deployments \ live) /\ FlushTo(Prober, "idle") /\ lease' = lease
      /\ UNCHANGED <<storeVars, topologyVars, clearing, crashes>>
  BY DEF RetainDeployments
<1>2. /\ Prober # Operator /\ At(Prober, pc[Prober]) /\ pc[Prober] # "calling" /\ "idle" \in Points
  BY DEF RetainDeployments, At, Prober, Operator, Points
<1>3. lease' \in [Attempts -> Leases]
  BY <1>1 DEF GateInv, ControlOK
<1> QED BY <1>1, <1>2, <1>3, DropOrderly

\* The reloader: what is held against credentials that are gone or replaced is forgotten.
LEMMA ForgetOrderly ==
  ASSUME GateInv, ForgetOutdatedCredentials
  PROVE  Orderly
<1>1. /\ Drop(Outdated) /\ FlushTo(Reloader, "idle") /\ lease' = lease
      /\ UNCHANGED <<storeVars, topologyVars, clearing, crashes>>
  BY DEF ForgetOutdatedCredentials
<1>2. /\ Reloader # Operator /\ At(Reloader, pc[Reloader]) /\ pc[Reloader] # "calling"
      /\ "idle" \in Points
  BY DEF ForgetOutdatedCredentials, At, Reloader, Operator, Points
<1>3. lease' \in [Attempts -> Leases]
  BY <1>1 DEF GateInv, ControlOK
<1> QED BY <1>1, <1>2, <1>3, DropOrderly

\* The prober reports on a deployment.
LEMMA ObserveProbeOrderly ==
  ASSUME GateInv, NEW s \in Scopes, NEW healthy \in BOOLEAN, ObserveProbe(s, healthy)
  PROVE  Orderly
<1>1. /\ FlushTo(Prober, "idle") /\ lease' = lease
      /\ UNCHANGED <<storeVars, topologyVars, clearing, crashes>>
  BY DEF ObserveProbe
<1>2. /\ Prober # Operator /\ At(Prober, pc[Prober]) /\ pc[Prober] # "calling" /\ "idle" \in Points
  BY DEF ObserveProbe, At, Prober, Operator, Points
<1>3. lease' \in [Attempts -> Leases]
  BY <1>1 DEF GateInv, ControlOK
<1>4. CASE healthy
  <2>1. Drop({s})
    BY <1>4 DEF ObserveProbe
  <2> QED BY <1>1, <1>2, <1>3, <2>1, DropOrderly
<1>5. CASE ~healthy
  <2> DEFINE pol == availabilityPolicy("deployment", 1)
             o == [reason |-> "", answered |-> TRUE, retryAfter |-> 0]
             P == [x \in Scopes |-> pol]
             O == [x \in Scopes |-> o]
  <2>1. Observe({s}, P, O, 0) /\ UNCHANGED probes
    BY <1>5 DEF ObserveProbe
  <2>2. pol \in Policies /\ o \in Observation /\ Fits(pol, o)
    BY Settings DEF availabilityPolicy, Policy, Policies, Kinds, Observation, Fits
  <2> HIDE DEF pol, o
  <2>3. \A x \in Scopes : x \in {s} => P[x] \in Policies /\ O[x] \in Observation /\ Fits(P[x], O[x])
    BY <2>2
  <2> HIDE DEF P, O
  <2>4. 0 \in Nat /\ UNCHANGED <<probes, storeVars, topologyVars, clearing, crashes>>
    BY <1>1, <2>1
  <2> QED BY <1>1, <1>2, <1>3, <2>1, <2>3, <2>4, ObserveOrderly
<1> QED BY <1>4, <1>5

\* The lease of an attempt.
LEMMA LeaseFields ==
  ASSUME ControlOK, NEW a \in Attempts
  PROVE  /\ lease[a] \in Leases /\ lease[a].target \in Targets /\ lease[a].rev \in Nat
         /\ lease[a].claimed \subseteq Scopes /\ lease[a].observation \in Observation
<1>1. lease[a] \in Leases
  BY DEF ControlOK
<1>2. /\ lease[a].target \in Targets /\ lease[a].rev \in 0..MaxRevision
      /\ lease[a].claimed \subseteq Scopes /\ lease[a].observation \in Observations
  BY <1>1 DEF Leases
<1> QED BY <1>1, <1>2, Settings

\* An attempt whose lease is put back.
LEMMA LeaseIdle ==
  ASSUME ControlOK, NEW a \in Attempts, lease' = [lease EXCEPT ![a] = Idle]
  PROVE  /\ lease' \in [Attempts -> Leases]
         /\ \A b \in Attempts : \/ lease'[b] = lease[b]
                                \/ b = a /\ lease'[b].claimed \subseteq ScopesOf(lease'[b].target)
<1>1. lease \in [Attempts -> Leases]
  BY DEF ControlOK
<1> QED BY <1>1, IdleFits

\* An attempt resolves its candidates.
LEMMA FilterOrderly ==
  ASSUME GateInv, NEW a \in Attempts, Filter(a)
  PROVE  Orderly
<1> DEFINE D == UNION {StaleFor(t, revision[t.credential]) : t \in Serving}
<1>1. Drop(D) /\ UNCHANGED <<storeVars, topologyVars, clearing, crashes>>
  BY DEF Filter
<1>2. /\ a # Operator /\ At(a, pc[a]) /\ pc[a] # "calling"
  BY AttemptsApart DEF Filter, At
<1>3. PICK point \in {"idle", "resolved"} : FlushTo(a, point)
  BY DEF Filter
<1>4. point \in Points
  BY DEF Points
<1>5. /\ lease' \in [Attempts -> Leases]
      /\ \A b \in Attempts : \/ lease'[b] = lease[b]
                             \/ b = a /\ lease'[b].claimed \subseteq ScopesOf(lease'[b].target)
  <2>1. lease \in [Attempts -> Leases]
    BY DEF GateInv, ControlOK
  <2>2. CASE lease' = lease
    BY <2>1, <2>2
  <2>3. ASSUME NEW t \in Serving,
               lease' = [lease EXCEPT ![a] = [Idle EXCEPT !.target = t,
                                                          !.rev = revision[t.credential]]]
        PROVE  /\ lease' \in [Attempts -> Leases]
               /\ \A b \in Attempts :
                    \/ lease'[b] = lease[b]
                    \/ b = a /\ lease'[b].claimed \subseteq ScopesOf(lease'[b].target)
    <3> DEFINE l == [Idle EXCEPT !.target = t, !.rev = revision[t.credential]]
    <3>1. t \in Targets /\ t.credential \in Credentials
      BY DEF Serving, Credentials
    <3>2. revision[t.credential] \in 0..MaxRevision
      BY <3>1, Settings DEF GateInv, RegistryOK
    <3>3. l \in Leases /\ l.claimed = {}
      BY <3>1, <3>2, IdleFits DEF Leases
    <3> HIDE DEF l
    <3>4. lease' = [lease EXCEPT ![a] = l]
      BY <2>3 DEF l
    <3> QED BY <2>1, <3>3, <3>4
  <2>4. \/ lease' = lease
        \/ \E t \in Serving : lease' = [lease EXCEPT ![a] = [Idle EXCEPT !.target = t,
                                                             !.rev = revision[t.credential]]]
    BY DEF Filter
  <2> QED BY <2>2, <2>3, <2>4
<1> HIDE DEF D
<1> QED BY <1>1, <1>2, <1>3, <1>4, <1>5, DropOrderly

\* An attempt is refused at admission.
LEMMA AdmitRefusedOrderly ==
  ASSUME GateInv, NEW a \in Attempts, AdmitRefused(a)
  PROVE  Orderly
<1> DEFINE D == StaleFor(lease[a].target, lease[a].rev) \cap Before(lease[a].target, lease[a].rev)
<1>1. /\ Drop(D) /\ FlushTo(a, "idle") /\ lease' = [lease EXCEPT ![a] = Idle]
      /\ UNCHANGED <<storeVars, topologyVars, clearing, crashes>>
  BY DEF AdmitRefused
<1>2. a # Operator /\ At(a, pc[a]) /\ pc[a] # "calling" /\ "idle" \in Points
  BY AttemptsApart DEF AdmitRefused, At, Points
<1>3. /\ lease' \in [Attempts -> Leases]
      /\ \A b \in Attempts : \/ lease'[b] = lease[b]
                             \/ b = a /\ lease'[b].claimed \subseteq ScopesOf(lease'[b].target)
  BY <1>1, LeaseIdle DEF GateInv
<1> HIDE DEF D
<1> QED BY <1>1, <1>2, <1>3, DropOrderly

\* The suspensions a failed attempt was let through hear of it.
LEMMA observeClaimedOrderly ==
  ASSUME GateInv, NEW a \in Attempts, observeClaimed(a)
  PROVE  Orderly
<1> DEFINE o == lease[a].observation
           heard == {s \in lease[a].claimed \ {scopeFor(o, lease[a].target)} :
                       suspended(scopes[s]) /\ ~scopes[s].indefinite}
           P == [s \in Scopes |-> scopes[s].policy]
           O == [s \in Scopes |-> [o EXCEPT !.reason = scopes[s].reason]]
<1>1. /\ Observe(heard, P, O, lease[a].rev) /\ FlushTo(a, "reporting") /\ lease' = lease
      /\ UNCHANGED <<probes, storeVars, topologyVars, clearing, crashes>>
  BY DEF observeClaimed
<1>2. a # Operator /\ At(a, pc[a]) /\ pc[a] # "calling" /\ "reporting" \in Points
  BY AttemptsApart DEF observeClaimed, At, Points
<1>3. lease' \in [Attempts -> Leases] /\ lease[a].rev \in Nat /\ o \in Observation
  BY <1>1, LeaseFields DEF GateInv, ControlOK
<1>4. ASSUME NEW s \in Scopes, s \in heard
      PROVE  P[s] \in Policies /\ O[s] \in Observation /\ Fits(P[s], O[s])
  <2>1. scopes[s] \in FitStates /\ ~scopes[s].indefinite
    BY <1>4 DEF GateInv, StatesFit
  <2>2. /\ scopes[s].policy \in Policies /\ scopes[s].reason \in Reasons \cup {""}
        /\ scopes[s].policy.recovery # "credential_revision"
        /\ scopes[s].reason # "invalid_credential"
    BY <2>1 DEF FitStates, ScopeStates
  <2> HIDE DEF o
  <2>3. O[s] \in Observation /\ O[s].reason = scopes[s].reason /\ P[s] = scopes[s].policy
    BY <1>3, <2>2 DEF Observation
  <2> QED BY <2>2, <2>3 DEF Fits
<1> HIDE DEF o, heard, P, O
<1> QED BY <1>1, <1>2, <1>3, <1>4, ObserveOrderly

\* The scope that a failure is about is observed.
LEMMA observeReportingOrderly ==
  ASSUME GateInv, NEW a \in Attempts, observeReporting(a)
  PROVE  Orderly
<1> DEFINE o == lease[a].observation
           about == scopeFor(o, lease[a].target)
           P == [s \in Scopes |-> policyFor(o)]
           O == [s \in Scopes |-> o]
<1>1. /\ Observe({about}, P, O, lease[a].rev) /\ FlushTo(a, "idle")
      /\ lease' = [lease EXCEPT ![a] = Idle]
      /\ UNCHANGED <<probes, storeVars, topologyVars, clearing, crashes>>
  BY DEF observeReporting
<1>2. a # Operator /\ At(a, pc[a]) /\ pc[a] # "calling" /\ "idle" \in Points
  BY AttemptsApart DEF observeReporting, At, Points
<1>3. /\ lease' \in [Attempts -> Leases]
      /\ \A b \in Attempts : \/ lease'[b] = lease[b]
                             \/ b = a /\ lease'[b].claimed \subseteq ScopesOf(lease'[b].target)
  BY <1>1, LeaseIdle DEF GateInv
<1>4. lease[a].rev \in Nat /\ o \in Observation
  BY LeaseFields DEF GateInv
<1> HIDE DEF o
<1>5. policyFor(o) \in Policies /\ Fits(policyFor(o), o)
  BY <1>4, PolicyFits
<1>6. \A s \in Scopes : s \in {about} => P[s] \in Policies /\ O[s] \in Observation /\ Fits(P[s], O[s])
  BY <1>4, <1>5
<1> HIDE DEF about, P, O
<1> QED BY <1>1, <1>2, <1>3, <1>4, <1>6, ObserveOrderly

-----------------------------------------------------------------------------
(* Slots *)

\* Giving a slot back is a change of the slots only.
LEMMA ReleasedFollows ==
  ASSUME NEW st \in FitStates, NEW q
  PROVE  /\ Follows(st, q, Released(st), q)
         /\ st.probing \in Nat
         /\ Released(st).probing = IF st.probing > 0 THEN st.probing - 1 ELSE 0
<1>1. st.probing \in Nat
  BY DEF FitStates, ScopeStates
<1>2. CASE st.probing > 0
  <2>1. Released(st) = [st EXCEPT !.probing = st.probing - 1]
    BY <1>2 DEF Released
  <2>2. st.probing - 1 \in Nat
    BY <1>1, <1>2
  <2> QED BY <1>1, <1>2, <2>1, <2>2, SlotFollows
<1>3. CASE ~(st.probing > 0)
  <2>1. Released(st) = st
    BY <1>3 DEF Released
  <2> QED BY <1>1, <1>3, <2>1, KeepFollows
<1> QED BY <1>2, <1>3

\* The attempts in flight through a scope are finitely many, one more or one fewer.
LEMMA CountProbes ==
  ASSUME NEW S, S \subseteq Attempts, NEW a
  PROVE  /\ Cardinality(S) \in Nat
         /\ a \in S => Cardinality(S \ {a}) = Cardinality(S) - 1
         /\ a \notin S => Cardinality(S \cup {a}) = Cardinality(S) + 1
         /\ Cardinality({}) = 0
<1>1. IsFiniteSet(S)
  BY InstanceAssumption, FS_Subset
<1> QED BY <1>1, FS_CardinalityType, FS_RemoveElement, FS_AddElement, FS_EmptySet

\* An attempt that leaves its call with its claims released: Abandon, and the first
\* section of Done with a failure.
LEMMA ReleaseOrderly ==
  ASSUME GateInv, NEW a \in Attempts, At(a, "calling"), ReleaseClaims(a), pending' = pending,
         NEW STATE point, point \in Points, pc' = [pc EXCEPT ![a] = point], io' = io,
         lease' \in [Attempts -> Leases],
         \A b \in Attempts : \/ lease'[b] = lease[b]
                             \/ b = a /\ lease'[b].claimed \subseteq ScopesOf(lease'[b].target),
         UNCHANGED <<storeVars, topologyVars, clearing, crashes>>
  PROVE  Orderly
<1>1. /\ scopes' = [s \in Scopes |-> IF s \in lease[a].claimed THEN Released(scopes[s])
                                     ELSE scopes[s]]
      /\ probes' = [s \in Scopes |-> probes[s] \ {a}]
  BY DEF ReleaseClaims
<1>2. a \in Procs /\ a # Operator /\ io[a] = "none"
  BY AttemptsApart DEF At
<1>3. /\ pc' \in [Procs -> Points] /\ io' \in [Procs -> {"none", "flush", "drain"}]
      /\ \A q \in Procs : \/ io'[q] = io[q]
                          \/ q # Operator /\ io[q] = "none" /\ io'[q] = "flush"
      /\ \A q \in Procs : q # a => pc'[q] = pc[q]
      /\ Operator \in Procs => pc'[Operator] = pc[Operator]
  BY <1>2, Leaves DEF GateInv
<1>4. \A s \in Scopes : Follows(scopes[s], pending[s], scopes'[s], pending'[s])
  <2> SUFFICES ASSUME NEW s \in Scopes
               PROVE  Follows(scopes[s], pending[s], scopes'[s], pending'[s])
    OBVIOUS
  <2>1. scopes[s] \in FitStates
    BY DEF GateInv, StatesFit
  <2>2. pending'[s] = pending[s] /\ (scopes'[s] = Released(scopes[s]) \/ scopes'[s] = scopes[s])
    BY <1>1
  <2> QED BY <2>1, <2>2, ReleasedFollows, KeepFollows
<1>5. Section
  <2>1. scopes' = [s \in Scopes |-> scopes'[s]] /\ pending' = [s \in Scopes |-> pending'[s]]
    BY <1>1 DEF GateInv, StatesFit
  <2> QED BY <1>3, <1>4, <2>1 DEF Section
<1>6. ControlOK'
  <2>1. probes' \in [Scopes -> SUBSET Attempts]
    BY <1>1 DEF GateInv, ControlOK
  <2> QED BY <1>3, <2>1 DEF GateInv, ControlOK, Points, storeVars
<1>7. RegistryOK' /\ ClaimsOwn'
  BY DEF GateInv, RegistryOK, ClaimsOwn, storeVars, topologyVars
<1>8. NoSlotLeaks'
  <2> SUFFICES ASSUME NEW s \in Scopes
               PROVE  /\ scopes'[s].probing <= Cardinality(probes'[s])
                      /\ \A b \in probes'[s] : pc'[b] = "calling" /\ s \in lease'[b].claimed
    BY DEF NoSlotLeaks
  <2>1. /\ scopes[s].probing <= Cardinality(probes[s]) /\ probes[s] \subseteq Attempts
        /\ \A b \in probes[s] : pc[b] = "calling" /\ s \in lease[b].claimed
    BY DEF GateInv, NoSlotLeaks, ControlOK
  <2>2. ASSUME NEW b \in probes'[s] PROVE pc'[b] = "calling" /\ s \in lease'[b].claimed
    <3>1. b \in probes[s] /\ b # a /\ b \in Attempts
      BY <1>1, <2>1
    <3> QED BY <1>3, <2>1, <3>1, AttemptsApart
  <2>3. scopes'[s].probing <= Cardinality(probes'[s])
    <3>1. scopes[s] \in FitStates
      BY DEF GateInv, StatesFit
    <3>2. /\ scopes[s].probing \in Nat
          /\ Released(scopes[s]).probing = IF scopes[s].probing > 0 THEN scopes[s].probing - 1 ELSE 0
      BY <3>1, ReleasedFollows
    <3>3. probes'[s] = probes[s] \ {a}
      BY <1>1
    <3>4. CASE a \in probes[s]
      <4>1. scopes'[s].probing = IF scopes[s].probing > 0 THEN scopes[s].probing - 1 ELSE 0
        BY <1>1, <2>1, <3>2, <3>4
      <4>2. Cardinality(probes[s]) \in Nat /\ Cardinality(probes'[s]) = Cardinality(probes[s]) - 1
            /\ Cardinality(probes'[s]) \in Nat
        <5>1. probes'[s] \subseteq Attempts
          BY <2>1, <3>3
        <5> QED BY <2>1, <3>3, <3>4, <5>1, CountProbes
      <4> QED BY <2>1, <3>2, <4>1, <4>2
    <3>5. CASE a \notin probes[s]
      <4>1. probes'[s] = probes[s]
        BY <3>3, <3>5
      <4>2. scopes'[s].probing \in Nat /\ scopes'[s].probing <= scopes[s].probing
        BY <1>1, <3>2
      <4>3. Cardinality(probes[s]) \in Nat
        BY <2>1, CountProbes
      <4> QED BY <2>1, <3>2, <4>1, <4>2, <4>3
    <3> QED BY <3>4, <3>5
  <2> QED BY <2>2, <2>3
<1> QED BY <1>5, <1>6, <1>7, <1>8 DEF Orderly

\* An attempt that learned nothing.
LEMMA AbandonOrderly ==
  ASSUME GateInv, NEW a \in Attempts, Abandon(a)
  PROVE  Orderly
<1>1. /\ At(a, "calling") /\ ReleaseClaims(a) /\ pending' = pending
      /\ pc' = [pc EXCEPT ![a] = "idle"] /\ io' = io /\ lease' = [lease EXCEPT ![a] = Idle]
      /\ UNCHANGED <<storeVars, topologyVars, clearing, crashes>>
  BY DEF Abandon
<1>2. /\ lease' \in [Attempts -> Leases]
      /\ \A b \in Attempts : \/ lease'[b] = lease[b]
                             \/ b = a /\ lease'[b].claimed \subseteq ScopesOf(lease'[b].target)
  BY <1>1, LeaseIdle DEF GateInv
<1>3. "idle" \in Points
  BY DEF Points
<1> QED BY <1>1, <1>2, <1>3, ReleaseOrderly

\* An attempt that failed gives its slots back first.
LEMMA FailsOrderly ==
  ASSUME GateInv, NEW a \in Attempts, Fails(a)
  PROVE  Orderly
<1> DEFINE point == IF lease[a].claimed = {} THEN "reporting" ELSE "released"
<1>1. /\ At(a, "calling") /\ ReleaseClaims(a) /\ pending' = pending
      /\ pc' = [pc EXCEPT ![a] = point] /\ io' = io
      /\ UNCHANGED <<storeVars, topologyVars, clearing, crashes>>
  BY DEF Fails
<1>2. PICK o \in Observations : lease' = [lease EXCEPT ![a].observation = o]
  BY DEF Fails
<1>3. /\ lease' \in [Attempts -> Leases]
      /\ \A b \in Attempts : \/ lease'[b] = lease[b]
                             \/ b = a /\ lease'[b].claimed \subseteq ScopesOf(lease'[b].target)
  <2> DEFINE l == [lease[a] EXCEPT !.observation = o]
  <2>1. lease \in [Attempts -> Leases] /\ lease[a] \in Leases
    BY DEF GateInv, ControlOK
  <2>2. l \in Leases /\ l.claimed = lease[a].claimed /\ l.target = lease[a].target
    BY <2>1 DEF Leases
  <2>3. lease' = [lease EXCEPT ![a] = l]
    BY <1>2
  <2>4. lease[a].claimed \subseteq ScopesOf(lease[a].target)
    BY DEF GateInv, ClaimsOwn
  <2> HIDE DEF l
  <2> QED BY <2>1, <2>2, <2>3, <2>4
<1>4. point \in Points
  BY DEF Points
<1> HIDE DEF point
<1> QED BY <1>1, <1>3, <1>4, ReleaseOrderly

\* An attempt is let through: it takes a slot of every suspension it tests.
LEMMA AdmitTargetOrderly ==
  ASSUME GateInv, NEW a \in Attempts, AdmitTarget(a)
  PROVE  Orderly
<1> DEFINE t == lease[a].target
           gone == StaleFor(t, lease[a].rev)
           tested == {s \in ScopesOf(t) : suspended(scopes[s])} \ gone
           others == [s \in Scopes |-> IF s \in tested THEN [scopes[s] EXCEPT !.probing = @ + 1]
                                       ELSE scopes[s]]
<1>1. /\ At(a, "resolved") /\ DropAnd(gone, others)
      /\ probes' = [s \in Scopes |-> IF s \in gone THEN {}
                                     ELSE IF s \in tested THEN probes[s] \cup {a} ELSE probes[s]]
      /\ lease' = [lease EXCEPT ![a].claimed = tested]
      /\ FlushTo(a, "calling")
      /\ UNCHANGED <<storeVars, topologyVars, clearing, crashes>>
  BY DEF AdmitTarget
<1>2. tested \subseteq ScopesOf(t) /\ tested \subseteq Scopes
  BY LeaseFields, IdleFits DEF GateInv
<1> HIDE DEF gone, tested
<1>3. ASSUME NEW s \in Scopes
      PROVE  /\ Follows(scopes[s], pending[s], others[s], pending[s])
             /\ scopes[s].probing \in Nat
             /\ others[s].probing = IF s \in tested THEN scopes[s].probing + 1
                                    ELSE scopes[s].probing
  <2>1. scopes[s] \in FitStates
    BY DEF GateInv, StatesFit
  <2>2. scopes[s].probing \in Nat
    BY <2>1 DEF FitStates, ScopeStates
  <2>3. CASE s \in tested
    <3>1. others[s] = [scopes[s] EXCEPT !.probing = scopes[s].probing + 1]
      BY <2>3
    <3>2. scopes[s].probing + 1 \in Nat
      BY <2>2
    <3> QED BY <2>1, <2>2, <2>3, <3>1, <3>2, SlotFollows
  <2>4. CASE s \notin tested
    BY <2>1, <2>2, <2>4, KeepFollows
  <2> QED BY <2>3, <2>4
<1> HIDE DEF others
<1>4. /\ scopes' = [s \in Scopes |-> scopes'[s]] /\ pending' = [s \in Scopes |-> pending'[s]]
      /\ \A s \in Scopes : Follows(scopes[s], pending[s], scopes'[s], pending'[s])
      /\ \A s \in Scopes : scopes'[s] = IF s \in gone THEN Blank ELSE others[s]
  BY <1>1, <1>3, DropAndFollows DEF GateInv
<1>5. a \in Procs /\ a # Operator /\ io[a] = "none" /\ pc[a] = "resolved"
  BY <1>1, AttemptsApart DEF At
<1>6. /\ pc' \in [Procs -> Points] /\ io' \in [Procs -> {"none", "flush", "drain"}]
      /\ \A q \in Procs : \/ io'[q] = io[q]
                          \/ q # Operator /\ io[q] = "none" /\ io'[q] = "flush"
      /\ \A q \in Procs : q # a => pc'[q] = pc[q]
      /\ Operator \in Procs => pc'[Operator] = pc[Operator]
      /\ pc'[a] = "calling"
  <2>1. pc' = [pc EXCEPT ![a] = "calling"] /\ io' = [io EXCEPT ![a] = "flush"]
    BY <1>1 DEF FlushTo
  <2>2. "calling" \in Points
    BY DEF Points
  <2>3. pc'[a] = "calling"
    BY <1>5, <2>1 DEF GateInv, ControlOK
  <2> QED BY <1>5, <2>1, <2>2, <2>3, Leaves DEF GateInv
<1>7. Section
  BY <1>1, <1>4, <1>6 DEF Section
<1>8. /\ lease' \in [Attempts -> Leases]
      /\ \A b \in Attempts : b # a => lease'[b] = lease[b]
      /\ lease'[a].claimed = tested /\ lease'[a].target = t
  <2> DEFINE l == [lease[a] EXCEPT !.claimed = tested]
  <2>1. lease \in [Attempts -> Leases] /\ lease[a] \in Leases
    BY DEF GateInv, ControlOK
  <2>2. l \in Leases /\ l.claimed = tested /\ l.target = t
    BY <1>2, <2>1 DEF Leases
  <2>3. lease' = [lease EXCEPT ![a] = l]
    BY <1>1
  <2> HIDE DEF l, t
  <2> QED BY <2>1, <2>2, <2>3
<1>9. ControlOK'
  <2>1. probes' \in [Scopes -> SUBSET Attempts]
    BY <1>1 DEF GateInv, ControlOK
  <2> QED BY <1>1, <1>6, <1>8, <2>1 DEF GateInv, ControlOK, Points, storeVars
<1>10. RegistryOK' /\ ClaimsOwn'
  BY <1>1, <1>2, <1>8 DEF GateInv, RegistryOK, ClaimsOwn, storeVars, topologyVars
<1>11. NoSlotLeaks'
  <2> SUFFICES ASSUME NEW s \in Scopes
               PROVE  /\ scopes'[s].probing <= Cardinality(probes'[s])
                      /\ \A b \in probes'[s] : pc'[b] = "calling" /\ s \in lease'[b].claimed
    BY DEF NoSlotLeaks
  <2>1. /\ scopes[s].probing <= Cardinality(probes[s]) /\ probes[s] \subseteq Attempts
        /\ \A b \in probes[s] : pc[b] = "calling" /\ s \in lease[b].claimed
    BY DEF GateInv, NoSlotLeaks, ControlOK
  <2>2. a \notin probes[s]
    BY <1>5, <2>1
  <2>3. ASSUME NEW b \in probes[s] PROVE pc'[b] = "calling" /\ s \in lease'[b].claimed
    BY <1>6, <1>8, <2>1, <2>2, <2>3, AttemptsApart
  <2>4. /\ Cardinality(probes[s]) \in Nat
        /\ Cardinality(probes[s] \cup {a}) = Cardinality(probes[s]) + 1 /\ Cardinality({}) = 0
    BY <2>1, <2>2, CountProbes
  <2>5. CASE s \in gone
    <3>1. probes'[s] = {} /\ scopes'[s].probing = 0
      BY <1>1, <1>4, <2>5, BlankFits
    <3> QED BY <2>4, <3>1
  <2>6. CASE s \notin gone /\ s \in tested
    <3>1. probes'[s] = probes[s] \cup {a} /\ scopes'[s].probing = scopes[s].probing + 1
      BY <1>1, <1>3, <1>4, <2>6
    <3>2. scopes'[s].probing <= Cardinality(probes'[s])
      BY <1>3, <2>1, <2>4, <3>1
    <3> QED BY <1>6, <1>8, <2>3, <2>6, <3>1, <3>2
  <2>7. CASE s \notin gone /\ s \notin tested
    <3>1. probes'[s] = probes[s] /\ scopes'[s].probing = scopes[s].probing
      BY <1>1, <1>3, <1>4, <2>7
    <3> QED BY <2>1, <2>3, <3>1
  <2> QED BY <2>5, <2>6, <2>7
<1> QED BY <1>7, <1>9, <1>10, <1>11 DEF Orderly

\* The upstream answered: every scope of the target goes, with the slots of all attempts.
LEMMA SucceedsOrderly ==
  ASSUME GateInv, NEW a \in Attempts, Succeeds(a)
  PROVE  Orderly
<1> DEFINE D == ScopesOf(lease[a].target)
<1>1. /\ At(a, "calling") /\ DropAnd(D, scopes)
      /\ probes' = [s \in Scopes |-> IF s \in D THEN {} ELSE probes[s] \ {a}]
      /\ lease' = [lease EXCEPT ![a] = Idle] /\ FlushTo(a, "idle")
      /\ UNCHANGED <<storeVars, topologyVars, clearing, crashes>>
  BY DEF Succeeds
<1>2. ASSUME NEW s \in Scopes, s \notin D PROVE a \notin probes[s]
  BY <1>2 DEF GateInv, NoSlotLeaks, ClaimsOwn
<1> HIDE DEF D
<1>3. \A s \in Scopes : Follows(scopes[s], pending[s], scopes[s], pending[s])
  BY KeepFollows DEF GateInv, StatesFit
<1>4. /\ scopes' = [s \in Scopes |-> scopes'[s]] /\ pending' = [s \in Scopes |-> pending'[s]]
      /\ \A s \in Scopes : Follows(scopes[s], pending[s], scopes'[s], pending'[s])
      /\ \A s \in Scopes : scopes'[s] = IF s \in D THEN Blank ELSE scopes[s]
  BY <1>1, <1>3, DropAndFollows DEF GateInv
<1>5. a \in Procs /\ a # Operator /\ io[a] = "none"
  BY <1>1, AttemptsApart DEF At
<1>6. /\ pc' \in [Procs -> Points] /\ io' \in [Procs -> {"none", "flush", "drain"}]
      /\ \A q \in Procs : \/ io'[q] = io[q]
                          \/ q # Operator /\ io[q] = "none" /\ io'[q] = "flush"
      /\ \A q \in Procs : q # a => pc'[q] = pc[q]
      /\ Operator \in Procs => pc'[Operator] = pc[Operator]
  <2>1. pc' = [pc EXCEPT ![a] = "idle"] /\ io' = [io EXCEPT ![a] = "flush"]
    BY <1>1 DEF FlushTo
  <2>2. "idle" \in Points
    BY DEF Points
  <2> QED BY <1>5, <2>1, <2>2, Leaves DEF GateInv
<1>7. Section
  BY <1>1, <1>4, <1>6 DEF Section
<1>8. /\ lease' \in [Attempts -> Leases]
      /\ \A b \in Attempts : \/ lease'[b] = lease[b]
                             \/ b = a /\ lease'[b].claimed \subseteq ScopesOf(lease'[b].target)
  BY <1>1, LeaseIdle DEF GateInv
<1>9. ControlOK'
  <2>1. probes' \in [Scopes -> SUBSET Attempts]
    BY <1>1 DEF GateInv, ControlOK
  <2> QED BY <1>1, <1>6, <1>8, <2>1 DEF GateInv, ControlOK, Points, storeVars
<1>10. RegistryOK' /\ ClaimsOwn'
  BY <1>1, <1>8 DEF GateInv, RegistryOK, ClaimsOwn, storeVars, topologyVars
<1>11. NoSlotLeaks'
  <2>1. ASSUME NEW s \in Scopes
        PROVE  \/ scopes'[s].probing = scopes[s].probing /\ probes'[s] = probes[s]
               \/ scopes'[s].probing = 0 /\ probes'[s] = {}
    BY <1>1, <1>2, <1>4, BlankFits
  <2>2. ASSUME NEW s \in Scopes, NEW b \in probes'[s]
        PROVE  pc'[b] = pc[b] /\ lease'[b].claimed = lease[b].claimed
    <3>1. b \in probes[s] /\ b # a
      BY <1>1, <1>2
    <3>2. b \in Attempts
      BY <3>1 DEF GateInv, ControlOK
    <3> QED BY <1>6, <1>8, <3>1, <3>2, AttemptsApart
  <2> QED BY <2>1, <2>2, SlotsKept DEF GateInv
<1> QED BY <1>7, <1>9, <1>10, <1>11 DEF Orderly

\* A registry is swapped in: the gate is not told yet.
LEMMA ReplaceRegistryOrderly ==
  ASSUME GateInv, NEW c \in Credentials, ReplaceRegistry(c)
  PROVE  Orderly
<1>1. /\ At(Reloader, "idle") /\ pc' = [pc EXCEPT ![Reloader] = "replaced"]
      /\ UNCHANGED <<gateVars, storeVars, io, lease, clearing, crashes>>
  BY DEF ReplaceRegistry
<1>2. Reloader \in Procs /\ Reloader # Operator /\ io[Reloader] = "none" /\ "replaced" \in Points
  BY <1>1 DEF At, Reloader, Operator, Points
<1>3. /\ pc' \in [Procs -> Points] /\ io' \in [Procs -> {"none", "flush", "drain"}]
      /\ \A q \in Procs : \/ io'[q] = io[q]
                          \/ q # Operator /\ io[q] = "none" /\ io'[q] = "flush"
      /\ \A q \in Procs : q # Reloader => pc'[q] = pc[q]
      /\ Operator \in Procs => pc'[Operator] = pc[Operator]
  BY <1>1, <1>2, Leaves DEF GateInv
<1>4. Section
  <2>1. \A s \in Scopes : Follows(scopes[s], pending[s], scopes[s], pending[s])
    BY KeepFollows DEF GateInv, StatesFit
  <2>2. scopes' = [s \in Scopes |-> scopes'[s]] /\ pending' = [s \in Scopes |-> pending'[s]]
    BY <1>1 DEF GateInv, StatesFit, gateVars
  <2> QED BY <1>1, <1>3, <2>1, <2>2 DEF Section, gateVars
<1>5. ControlOK' /\ ClaimsOwn'
  BY <1>1, <1>3 DEF GateInv, ControlOK, ClaimsOwn, Points, storeVars, gateVars
<1>6. RegistryOK'
  <2>1. revision' \in [Credentials -> 1..MaxRevision] /\ listed' \subseteq Credentials
    BY Settings DEF ReplaceRegistry, GateInv, RegistryOK
  <2> QED BY <1>1, <2>1 DEF GateInv, RegistryOK, storeVars
<1>7. NoSlotLeaks'
  <2>1. ASSUME NEW s \in Scopes, NEW b \in probes'[s]
        PROVE  pc'[b] = pc[b] /\ lease'[b].claimed = lease[b].claimed
    <3>1. b \in Attempts
      BY <1>1 DEF GateInv, ControlOK, gateVars
    <3> QED BY <1>1, <1>3, <3>1, AttemptsApart
  <2>2. \A s \in Scopes : scopes'[s].probing = scopes[s].probing /\ probes'[s] = probes[s]
    BY <1>1 DEF gateVars
  <2> QED BY <2>1, <2>2, SlotsKept DEF GateInv
<1> QED BY <1>4, <1>5, <1>6, <1>7 DEF Orderly

\* The end of a window is reached.
LEMMA WindowEndsOrderly ==
  ASSUME GateInv, NEW s \in Scopes, WindowEnds(s)
  PROVE  Orderly
<1>1. /\ scopes[s].until = "ahead" /\ scopes' = [scopes EXCEPT ![s].until = "passed"]
      /\ UNCHANGED <<pending, probes, storeVars, pc, io, lease, topologyVars, clearing, crashes>>
  BY DEF WindowEnds
<1>2. scopes \in [Scopes -> FitStates] /\ pending \in [Scopes -> Seq(FitRows)]
  BY DEF GateInv, StatesFit
<1>3. ASSUME NEW x \in Scopes
      PROVE  /\ Follows(scopes[x], pending[x], scopes'[x], pending'[x])
             /\ scopes'[x].probing = scopes[x].probing
  <2>1. CASE x = s
    <3>1. scopes'[s] = [scopes[s] EXCEPT !.until = "passed"] /\ pending'[s] = pending[s]
      BY <1>1, <1>2
    <3> QED BY <1>1, <1>2, <2>1, <3>1, EndFollows
  <2>2. CASE x # s
    <3>1. scopes'[x] = scopes[x] /\ pending'[x] = pending[x]
      BY <1>1, <1>2, <2>2
    <3> QED BY <1>2, <3>1, KeepFollows
  <2> QED BY <2>1, <2>2
<1>4. Section
  <2>1. scopes' = [x \in Scopes |-> scopes'[x]] /\ pending' = [x \in Scopes |-> pending'[x]]
    BY <1>1, <1>2
  <2> QED BY <1>1, <1>3, <2>1 DEF Section
<1>5. ControlOK' /\ ClaimsOwn' /\ RegistryOK'
  BY <1>1 DEF GateInv, ControlOK, ClaimsOwn, RegistryOK, storeVars, topologyVars
<1>6. NoSlotLeaks'
  BY <1>1, <1>3, SlotsKept DEF GateInv
<1> QED BY <1>4, <1>5, <1>6 DEF Orderly

-----------------------------------------------------------------------------
(* The store *)

\* The last word about a scope is the same when its first row was written.
LEMMA WrittenWord ==
  ASSUME NEW d \in Seq(FitRows), d # <<>>, NEW q \in Seq(FitRows)
  PROVE  /\ Tail(d) \in Seq(FitRows) /\ Head(d) \in FitRows /\ d \o q # <<>>
         /\ Tail(d) \o q = <<>> => (d \o q)[Len(d \o q)] = Head(d)
         /\ Tail(d) \o q # <<>> =>
              (Tail(d) \o q)[Len(Tail(d) \o q)] = (d \o q)[Len(d \o q)]
<1>1. Len(d) \in Nat \ {0} /\ Len(q) \in Nat
  OBVIOUS
<1>2. /\ Tail(d) \in Seq(FitRows) /\ Head(d) \in FitRows /\ Head(d) = d[1]
      /\ Len(Tail(d)) = Len(d) - 1 /\ \A i \in 1 .. Len(d) - 1 : Tail(d)[i] = d[i + 1]
  BY <1>1
<1>3. /\ Len(d \o q) = Len(d) + Len(q) /\ Len(Tail(d) \o q) = Len(d) - 1 + Len(q)
      /\ \A i \in 1 .. Len(d) + Len(q) : (d \o q)[i] = IF i <= Len(d) THEN d[i] ELSE q[i - Len(d)]
      /\ \A i \in 1 .. Len(d) - 1 + Len(q) :
           (Tail(d) \o q)[i] = IF i <= Len(d) - 1 THEN Tail(d)[i] ELSE q[i - (Len(d) - 1)]
  BY <1>1, <1>2
<1>4. d \o q # <<>>
  BY <1>1, <1>3
<1>5. CASE Len(q) = 0 /\ Len(d) = 1
  <2>1. (d \o q)[Len(d \o q)] = d[1]
    BY <1>1, <1>3, <1>5
  <2>2. Len(Tail(d) \o q) = 0 /\ Tail(d) \o q \in Seq(FitRows)
    BY <1>2, <1>3, <1>5
  <2>3. Tail(d) \o q = <<>>
    BY <2>2
  <2> QED BY <1>2, <1>4, <2>1, <2>3
<1>6. CASE Len(q) = 0 /\ Len(d) > 1
  <2>1. (d \o q)[Len(d \o q)] = d[Len(d)]
    BY <1>1, <1>3, <1>6
  <2>2. /\ (Tail(d) \o q)[Len(d) - 1 + Len(q)] = Tail(d)[Len(d) - 1]
        /\ Len(Tail(d) \o q) = Len(d) - 1 + Len(q) /\ Tail(d) \o q # <<>>
    <3>1. Len(d) - 1 + Len(q) = Len(d) - 1 /\ Len(d) - 1 \in 1 .. Len(d) - 1 + Len(q)
      BY <1>1, <1>6
    <3>2. Len(Tail(d) \o q) = Len(d) - 1 /\ Len(Tail(d) \o q) # 0
      BY <1>1, <1>3, <1>6, <3>1
    <3>3. Tail(d) \o q # <<>>
      <4> DEFINE e == Tail(d) \o q
      <4>1. Len(e) # 0
        BY <3>2
      <4> HIDE DEF e
      <4>2. e # <<>>
        BY <4>1
      <4> QED BY <4>2 DEF e
    <3>4. (Tail(d) \o q)[Len(d) - 1] = Tail(d)[Len(d) - 1]
      BY <1>1, <1>3, <3>1
    <3> QED BY <1>3, <3>1, <3>3, <3>4
  <2>3. Tail(d)[Len(d) - 1] = d[Len(d)]
    BY <1>1, <1>2, <1>6
  <2> QED BY <1>2, <1>4, <2>1, <2>2, <2>3
<1>7. CASE Len(q) > 0
  <2>1. (d \o q)[Len(d \o q)] = q[Len(q)]
    BY <1>1, <1>3, <1>7
  <2>2. (Tail(d) \o q)[Len(Tail(d) \o q)] = q[Len(q)] /\ Tail(d) \o q # <<>>
    BY <1>1, <1>3, <1>7
  <2> QED BY <1>2, <1>4, <2>1, <2>2
<1> QED BY <1>1, <1>5, <1>6, <1>7

\* What the actions on the store leave alone: the gate itself, its leases and registry.
LEMMA GateLeft ==
  ASSUME GateInv, UNCHANGED <<scopes, probes, lease, topologyVars, crashes>>,
         \A a \in Attempts : pc'[a] = pc[a],
         storeLock' \in Procs \cup {NoOne}, clearing' \in Scopes,
         pc' \in [Procs -> Points], io' \in [Procs -> {"none", "flush", "drain"}],
         lost' \subseteq Scopes, failures' \in 0..MaxFailures
  PROVE  ControlOK' /\ RegistryOK' /\ ClaimsOwn' /\ NoSlotLeaks'
<1>1. ControlOK' /\ RegistryOK' /\ ClaimsOwn'
  BY DEF GateInv, ControlOK, RegistryOK, ClaimsOwn, Points, topologyVars
<1>2. ASSUME NEW s \in Scopes, NEW a \in probes'[s]
      PROVE  pc'[a] = pc[a] /\ lease'[a].claimed = lease[a].claimed
  BY DEF GateInv, ControlOK
<1> QED BY <1>1, <1>2, SlotsKept DEF GateInv

\* The types, as the actions on the store use them.
LEMMA StoreTypes ==
  ASSUME GateInv
  PROVE  /\ scopes \in [Scopes -> FitStates] /\ pending \in [Scopes -> Seq(FitRows)]
         /\ draining \in [Scopes -> Seq(FitRows)] /\ rows \in [Scopes -> FitRows]
         /\ pc \in [Procs -> Points] /\ io \in [Procs -> {"none", "flush", "drain"}]
         /\ storeLock \in Procs \cup {NoOne} /\ clearing \in Scopes
         /\ lost \subseteq Scopes /\ failures \in 0..MaxFailures
         /\ NoOne \notin Procs
<1>1. NoOne \notin Procs
  BY ProcsAssumption DEF Procs, NoOne, Prober, Reloader, Operator
<1> QED BY <1>1 DEF GateInv, StatesFit, ControlOK, RegistryOK, Points

\* The queue is taken under the store lock; nothing was being written then.
LEMMA QueueTaken ==
  ASSUME GateInv, storeLock = NoOne, scopes' = scopes, rows' = rows, lost' = lost,
         draining' = pending, pending' = [s \in Scopes |-> <<>>],
         Operator \in Procs => pc[Operator] # "forget" /\ pc'[Operator] # "forget"
  PROVE  StatesFit' /\ RowsFollowGate'
<1>1. \A s \in Scopes : draining[s] = <<>>
  BY StoreTypes DEF GateInv, LockHeld
<1>2. StatesFit'
  <2>1. <<>> \in Seq(FitRows)
    OBVIOUS
  <2>2. pending' \in [Scopes -> Seq(FitRows)]
    BY <2>1
  <2> QED BY <2>2, StoreTypes DEF StatesFit
<1>3. ASSUME NEW s \in Scopes PROVE Queued(s)' = Queued(s)
  <2>1. pending[s] \in Seq(FitRows) /\ draining[s] = <<>>
    BY <1>1, StoreTypes
  <2>2. draining'[s] = pending[s] /\ pending'[s] = <<>>
    OBVIOUS
  <2>3. pending[s] \o <<>> = pending[s] /\ <<>> \o pending[s] = pending[s]
    BY <2>1
  <2> QED BY <2>1, <2>2, <2>3 DEF Queued
<1>4. RowsFollowGate'
  <2> SUFFICES ASSUME NEW s \in Scopes, ~BeingCleared(s)', (s \in lost => Queued(s) # <<>>)'
               PROVE  Remembers(LastWord(s)', scopes'[s])
    BY DEF RowsFollowGate
  <2>1. Queued(s)' = Queued(s)
    BY <1>3
  <2>2. LastWord(s)' = LastWord(s)
    BY <2>1 DEF LastWord
  <2>3. ~BeingCleared(s)
    BY DEF BeingCleared
  <2>4. Remembers(LastWord(s), scopes[s])
    BY <2>1, <2>3 DEF GateInv, RowsFollowGate
  <2> QED BY <2>2, <2>4
<1> QED BY <1>2, <1>4

\* A flush takes the queue, or finds it empty.
LEMMA TakeQueueKeeps ==
  ASSUME GateInv, NEW p \in Procs, TakeQueue(p)
  PROVE  GateInv'
<1>1. /\ io[p] = "flush" /\ storeLock = NoOne
      /\ UNCHANGED <<scopes, probes, rows, lost, failures, pc, lease, topologyVars, clearing, crashes>>
  BY DEF TakeQueue
<1>2. LockHeld
  BY DEF GateInv
<1>3. /\ p # Operator /\ p # NoOne
      /\ Operator \in Procs => pc[Operator] \notin {"remove", "forget"} /\ io[Operator] # "drain"
      /\ \A q \in Procs : io[q] # "drain"
      /\ \A s \in Scopes : draining[s] = <<>>
  BY <1>1, <1>2, StoreTypes DEF LockHeld
<1>4. CASE /\ io' = [io EXCEPT ![p] = "none"]
           /\ UNCHANGED <<pending, draining, storeLock>>
  <2>1. io' \in [Procs -> {"none", "flush", "drain"}] /\ \A q \in Procs : q # p => io'[q] = io[q]
    BY <1>4, StoreTypes
  <2>2. ControlOK' /\ RegistryOK' /\ ClaimsOwn' /\ NoSlotLeaks'
    BY <1>1, <1>4, <2>1, StoreTypes, GateLeft
  <2>3. StatesFit' /\ RowsFollowGate'
    BY <1>1, <1>4 DEF GateInv, StatesFit, RowsFollowGate, BeingCleared, Queued, LastWord
  <2>4. io'[p] = "none"
    BY <1>4, StoreTypes
  <2>5. LockHeld'
    BY <1>1, <1>2, <1>3, <1>4, <2>1, <2>4 DEF LockHeld
  <2> QED BY <2>2, <2>3, <2>5 DEF GateInv
<1>5. CASE /\ io' = [io EXCEPT ![p] = "drain"]
           /\ draining' = pending /\ pending' = [s \in Scopes |-> <<>>]
           /\ storeLock' = p
  <2>1. io' \in [Procs -> {"none", "flush", "drain"}] /\ \A q \in Procs : q # p => io'[q] = io[q]
    BY <1>5, StoreTypes
  <2>2. ControlOK' /\ RegistryOK' /\ ClaimsOwn' /\ NoSlotLeaks'
    BY <1>1, <1>5, <2>1, StoreTypes, GateLeft
  <2>3. StatesFit' /\ RowsFollowGate'
    BY <1>1, <1>3, <1>5, QueueTaken
  <2>4. io'[p] = "drain"
    BY <1>5, StoreTypes
  <2>5. LockHeld'
    <3>1. \A q \in Procs : io'[q] = "drain" => storeLock' = q
      BY <1>3, <1>5, <2>1
    <3>2. storeLock' \in Procs /\ io'[storeLock'] = "drain"
      BY <1>5, <2>4
    <3>3. Operator \in Procs => /\ io'[Operator] = io[Operator] /\ io[Operator] # "flush"
                                /\ pc'[Operator] = pc[Operator]
      BY <1>1, <1>2, <1>3, <2>1 DEF LockHeld
    <3> QED BY <1>3, <3>1, <3>2, <3>3 DEF LockHeld
  <2> QED BY <2>2, <2>3, <2>5 DEF GateInv
<1> QED BY <1>4, <1>5 DEF TakeQueue

\* One row is written, or its write fails.
LEMMA WriteRowKeeps ==
  ASSUME GateInv, NEW p \in Procs, WriteRow(p)
  PROVE  GateInv'
<1>1. /\ io[p] = "drain"
      /\ UNCHANGED <<gateVars, storeLock, pc, io, lease, topologyVars, clearing, crashes>>
  BY DEF WriteRow
<1>2. PICK s \in Scopes :
        /\ draining[s] # <<>>
        /\ draining' = [draining EXCEPT ![s] = Tail(@)]
        /\ \/ /\ rows' = [rows EXCEPT ![s] = Head(draining[s])]
              /\ lost' = lost \ {s} /\ UNCHANGED failures
           \/ /\ failures < MaxFailures /\ failures' = failures + 1
              /\ lost' = lost \cup {s} /\ UNCHANGED rows
  BY DEF WriteRow
<1>3. /\ draining[s] \in Seq(FitRows) /\ pending[s] \in Seq(FitRows)
      /\ draining'[s] = Tail(draining[s]) /\ \A x \in Scopes : x # s => draining'[x] = draining[x]
  BY <1>2, StoreTypes
<1> DEFINE d == draining[s]
           q == pending[s]
<1>4. /\ Tail(d) \in Seq(FitRows) /\ Head(d) \in FitRows /\ d \o q # <<>>
      /\ Tail(d) \o q = <<>> => (d \o q)[Len(d \o q)] = Head(d)
      /\ Tail(d) \o q # <<>> => (Tail(d) \o q)[Len(Tail(d) \o q)] = (d \o q)[Len(d \o q)]
  BY <1>2, <1>3, WrittenWord
<1> HIDE DEF d, q
<1>5. /\ draining' \in [Scopes -> Seq(FitRows)] /\ rows' \in [Scopes -> FitRows]
      /\ lost' \subseteq Scopes /\ failures' \in 0..MaxFailures
  <2>1. draining' \in [Scopes -> Seq(FitRows)]
    BY <1>2, <1>4, StoreTypes DEF d
  <2>2. rows' \in [Scopes -> FitRows]
    BY <1>2, <1>4, StoreTypes DEF d
  <2>3. failures' \in 0..MaxFailures
    BY <1>2, Settings, StoreTypes
  <2> QED BY <1>2, <2>1, <2>2, <2>3, StoreTypes
<1>6. StatesFit'
  BY <1>1, <1>5, StoreTypes DEF StatesFit, gateVars
<1>7. ControlOK' /\ RegistryOK' /\ ClaimsOwn' /\ NoSlotLeaks'
  BY <1>1, <1>5, StoreTypes, GateLeft DEF gateVars
<1>8. storeLock = p /\ (Operator \in Procs => pc[Operator] # "forget")
  BY <1>1 DEF GateInv, LockHeld
<1>9. LockHeld'
  BY <1>1, <1>3, <1>8 DEF GateInv, LockHeld
<1>10. RowsFollowGate'
  <2> SUFFICES ASSUME NEW x \in Scopes, ~BeingCleared(x)', (x \in lost => Queued(x) # <<>>)'
               PROVE  Remembers(LastWord(x)', scopes'[x])
    BY DEF RowsFollowGate
  <2>1. ~BeingCleared(x)
    BY <1>8 DEF BeingCleared
  <2>2. scopes' = scopes /\ pending' = pending
    BY <1>1 DEF gateVars
  <2>3. CASE x # s
    <3>1. Queued(x)' = Queued(x)
      BY <1>3, <2>2, <2>3 DEF Queued
    <3>2. rows'[x] = rows[x] /\ (x \in lost' <=> x \in lost)
      BY <1>2, <2>3, StoreTypes
    <3>3. LastWord(x)' = LastWord(x)
      BY <3>1, <3>2 DEF LastWord
    <3>4. Remembers(LastWord(x), scopes[x])
      BY <2>1, <3>1, <3>2 DEF GateInv, RowsFollowGate
    <3> QED BY <2>2, <3>3, <3>4
  <2>4. CASE x = s
    <3>1. Queued(s) = d \o q /\ Queued(s)' = Tail(d) \o q
      BY <1>3, <2>2 DEF Queued, d, q
    <3>2. LastWord(s) = (d \o q)[Len(d \o q)]
      BY <1>4, <3>1 DEF LastWord
    <3>3. Remembers(LastWord(s), scopes[s])
      BY <1>4, <2>1, <2>4, <3>1 DEF GateInv, RowsFollowGate
    <3>4. LastWord(s)' = LastWord(s)
      <4>1. CASE Tail(d) \o q # <<>>
        BY <1>4, <3>1, <3>2, <4>1 DEF LastWord
      <4>2. CASE Tail(d) \o q = <<>>
        <5>1. s \notin lost'
          BY <2>4, <3>1, <4>2
        <5>2. rows'[s] = Head(d)
          BY <1>2, <5>1, StoreTypes DEF d
        <5> QED BY <1>4, <3>1, <3>2, <4>2, <5>2 DEF LastWord
      <4> QED BY <4>1, <4>2
    <3> QED BY <2>2, <2>4, <3>3, <3>4
  <2> QED BY <2>3, <2>4
<1> QED BY <1>6, <1>7, <1>9, <1>10 DEF GateInv

\* The queue is written.
LEMMA FlushReturnsKeeps ==
  ASSUME GateInv, NEW p \in Procs, FlushReturns(p)
  PROVE  GateInv'
<1>1. /\ io[p] = "drain" /\ \A s \in Scopes : draining[s] = <<>>
      /\ io' = [io EXCEPT ![p] = "none"]
      /\ storeLock' = IF p = Operator THEN p ELSE NoOne
      /\ UNCHANGED <<gateVars, draining, rows, lost, failures, pc, lease, topologyVars, clearing, crashes>>
  BY DEF FlushReturns
<1>2. /\ io' \in [Procs -> {"none", "flush", "drain"}] /\ io'[p] = "none"
      /\ \A q \in Procs : q # p => io'[q] = io[q]
      /\ storeLock' \in Procs \cup {NoOne}
  BY <1>1, StoreTypes
<1>3. ControlOK' /\ RegistryOK' /\ ClaimsOwn' /\ NoSlotLeaks'
  BY <1>1, <1>2, StoreTypes, GateLeft DEF gateVars
<1>4. StatesFit' /\ RowsFollowGate'
  BY <1>1 DEF GateInv, StatesFit, RowsFollowGate, BeingCleared, Queued, LastWord, gateVars
<1>5. LockHeld
  BY DEF GateInv
<1>6. storeLock = p /\ \A q \in Procs : q # p => io[q] # "drain"
  BY <1>1, <1>5 DEF LockHeld
<1>7. LockHeld'
  BY <1>1, <1>2, <1>5, <1>6 DEF LockHeld
<1> QED BY <1>3, <1>4, <1>7 DEF GateInv

\* The operator's clear takes the lock and the queue.
LEMMA ClearDurableKeeps ==
  ASSUME GateInv, NEW s \in Scopes, ClearDurable(s)
  PROVE  GateInv'
<1>1. /\ At(Operator, "idle") /\ storeLock = NoOne /\ clearing' = s /\ storeLock' = Operator
      /\ draining' = pending /\ pending' = [x \in Scopes |-> <<>>]
      /\ pc' = [pc EXCEPT ![Operator] = "remove"] /\ io' = [io EXCEPT ![Operator] = "drain"]
      /\ UNCHANGED <<scopes, probes, rows, lost, failures, lease, topologyVars, crashes>>
  BY DEF ClearDurable
<1>2. Operator \in Procs /\ pc[Operator] = "idle" /\ io[Operator] = "none"
  BY <1>1 DEF At
<1>3. /\ pc' \in [Procs -> Points] /\ io' \in [Procs -> {"none", "flush", "drain"}]
      /\ pc'[Operator] = "remove" /\ io'[Operator] = "drain"
      /\ \A q \in Procs : q # Operator => pc'[q] = pc[q] /\ io'[q] = io[q]
  BY <1>1, <1>2, StoreTypes DEF Points
<1>4. ControlOK' /\ RegistryOK' /\ ClaimsOwn' /\ NoSlotLeaks'
  <2>1. \A a \in Attempts : pc'[a] = pc[a]
    BY <1>3, AttemptsApart
  <2> QED BY <1>1, <1>2, <1>3, <2>1, StoreTypes, GateLeft
<1>5. StatesFit' /\ RowsFollowGate'
  BY <1>1, <1>2, <1>3, QueueTaken
<1>6. LockHeld'
  <2>1. \A q \in Procs : io[q] # "drain"
    BY <1>1, StoreTypes DEF GateInv, LockHeld
  <2> QED BY <1>1, <1>2, <1>3, <2>1 DEF LockHeld
<1> QED BY <1>4, <1>5, <1>6 DEF GateInv

\* The operator's row is deleted, or there is none, or deleting it fails.
LEMMA RemoveRowKeeps ==
  ASSUME GateInv, RemoveRow
  PROVE  GateInv'
<1>1. /\ At(Operator, "remove")
      /\ UNCHANGED <<gateVars, draining, io, lease, topologyVars, crashes>>
  BY DEF RemoveRow
<1>2. Operator \in Procs /\ pc[Operator] = "remove" /\ io[Operator] = "none"
  BY <1>1 DEF At
<1>3. LockHeld /\ storeLock = Operator
  BY <1>2 DEF GateInv, LockHeld
<1>4. /\ \A q \in Procs : io[q] # "drain" /\ \A s \in Scopes : draining[s] = <<>>
  BY <1>2, <1>3 DEF LockHeld
<1>5. CASE /\ rows' = [rows EXCEPT ![clearing] = NoRow] /\ lost' = lost \ {clearing}
           /\ pc' = [pc EXCEPT ![Operator] = "forget"]
           /\ UNCHANGED <<storeLock, clearing, failures>>
  <2>1. /\ pc' \in [Procs -> Points] /\ pc'[Operator] = "forget"
        /\ \A q \in Procs : q # Operator => pc'[q] = pc[q]
    BY <1>2, <1>5, StoreTypes DEF Points
  <2>2. /\ rows' \in [Scopes -> FitRows] /\ rows'[clearing] = NoRow
        /\ \A x \in Scopes : x # clearing => rows'[x] = rows[x]
    BY <1>5, StoreTypes DEF FitRows
  <2>3. ControlOK' /\ RegistryOK' /\ ClaimsOwn' /\ NoSlotLeaks'
    <3>1. \A a \in Attempts : pc'[a] = pc[a]
      BY <2>1, AttemptsApart
    <3>2. lost' \subseteq Scopes
      BY <1>5, StoreTypes
    <3> QED BY <1>1, <1>5, <2>1, <3>1, <3>2, StoreTypes, GateLeft DEF gateVars
  <2>4. StatesFit'
    BY <1>1, <2>2, StoreTypes DEF StatesFit, gateVars
  <2>5. LockHeld'
    BY <1>1, <1>2, <1>3, <1>4, <1>5, <2>1, <2>2 DEF LockHeld
  <2>6. RowsFollowGate'
    <3> SUFFICES ASSUME NEW x \in Scopes, ~BeingCleared(x)', (x \in lost => Queued(x) # <<>>)'
                 PROVE  Remembers(LastWord(x)', scopes'[x])
      BY DEF RowsFollowGate
    <3>1. x # clearing
      BY <1>2, <1>5, <2>1 DEF BeingCleared
    <3>2. Queued(x)' = Queued(x) /\ rows'[x] = rows[x] /\ (x \in lost' <=> x \in lost)
      BY <1>1, <1>5, <2>2, <3>1 DEF Queued, gateVars
    <3>3. LastWord(x)' = LastWord(x) /\ scopes' = scopes
      BY <1>1, <3>2 DEF LastWord, gateVars
    <3>4. Remembers(LastWord(x), scopes[x])
      BY <1>2, <3>2 DEF GateInv, RowsFollowGate, BeingCleared
    <3> QED BY <3>3, <3>4
  <2> QED BY <2>3, <2>4, <2>5, <2>6 DEF GateInv
<1>6. CASE /\ \/ UNCHANGED failures
              \/ failures < MaxFailures /\ failures' = failures + 1
           /\ pc' = [pc EXCEPT ![Operator] = "idle"]
           /\ storeLock' = NoOne /\ clearing' = NoScope
           /\ UNCHANGED <<rows, lost>>
  <2>1. /\ pc' \in [Procs -> Points] /\ pc'[Operator] = "idle"
        /\ \A q \in Procs : q # Operator => pc'[q] = pc[q]
    BY <1>2, <1>6, StoreTypes DEF Points
  <2>2. ControlOK' /\ RegistryOK' /\ ClaimsOwn' /\ NoSlotLeaks'
    <3>1. \A a \in Attempts : pc'[a] = pc[a]
      BY <2>1, AttemptsApart
    <3>2. failures' \in 0..MaxFailures
      BY <1>6, Settings, StoreTypes
    <3>3. clearing' \in Scopes /\ storeLock' \in Procs \cup {NoOne}
      BY <1>6, IdleFits
    <3> QED BY <1>1, <1>6, <2>1, <3>1, <3>2, <3>3, StoreTypes, GateLeft DEF gateVars
  <2>3. StatesFit'
    BY <1>1, <1>6, StoreTypes DEF StatesFit, gateVars
  <2>4. LockHeld'
    BY <1>1, <1>2, <1>4, <1>6, <2>1 DEF LockHeld
  <2>5. RowsFollowGate'
    BY <1>1, <1>2, <1>6 DEF GateInv, RowsFollowGate, BeingCleared, Queued, LastWord, gateVars
  <2> QED BY <2>2, <2>3, <2>4, <2>5 DEF GateInv
<1> QED BY <1>5, <1>6 DEF RemoveRow

\* The operator's scope goes, with what was queued for it meanwhile.
LEMMA ClearScopeKeeps ==
  ASSUME GateInv, ClearScope
  PROVE  GateInv'
<1>1. /\ At(Operator, "forget") /\ scopes' = [scopes EXCEPT ![clearing] = Blank]
      /\ probes' = [probes EXCEPT ![clearing] = {}] /\ pending' = [pending EXCEPT ![clearing] = <<>>]
      /\ pc' = [pc EXCEPT ![Operator] = "idle"] /\ storeLock' = NoOne /\ clearing' = NoScope
      /\ UNCHANGED <<draining, rows, lost, failures, io, lease, topologyVars, crashes>>
  BY DEF ClearScope
<1>2. Operator \in Procs /\ pc[Operator] = "forget" /\ io[Operator] = "none"
  BY <1>1 DEF At
<1>3. LockHeld /\ storeLock = Operator /\ rows[clearing] = NoRow /\ clearing \in Scopes
  BY <1>2, StoreTypes DEF GateInv, LockHeld
<1>4. (\A q \in Procs : io[q] # "drain") /\ (\A s \in Scopes : draining[s] = <<>>)
  BY <1>2, <1>3 DEF LockHeld
<1>5. /\ pc' \in [Procs -> Points] /\ pc'[Operator] = "idle"
      /\ \A q \in Procs : q # Operator => pc'[q] = pc[q]
  BY <1>1, <1>2, StoreTypes DEF Points
<1>6. /\ scopes'[clearing] = Blank /\ pending'[clearing] = <<>> /\ probes'[clearing] = {}
      /\ \A x \in Scopes : x # clearing => /\ scopes'[x] = scopes[x] /\ pending'[x] = pending[x]
                                           /\ probes'[x] = probes[x]
  BY <1>1, <1>3, StoreTypes DEF GateInv, ControlOK
<1>7. StatesFit'
  <2>1. scopes' \in [Scopes -> FitStates]
    BY <1>1, StoreTypes, BlankFits
  <2>2. <<>> \in Seq(FitRows)
    OBVIOUS
  <2>3. pending' \in [Scopes -> Seq(FitRows)]
    BY <1>1, <2>2, StoreTypes
  <2> QED BY <1>1, <2>1, <2>3, StoreTypes DEF StatesFit
<1>8. ControlOK' /\ RegistryOK' /\ ClaimsOwn'
  <2>1. probes' \in [Scopes -> SUBSET Attempts]
    BY <1>1 DEF GateInv, ControlOK
  <2> QED BY <1>1, <1>5, <2>1, IdleFits
          DEF GateInv, ControlOK, RegistryOK, ClaimsOwn, Points, topologyVars
<1>9. NoSlotLeaks'
  <2>1. ASSUME NEW s \in Scopes
        PROVE  \/ scopes'[s].probing = scopes[s].probing /\ probes'[s] = probes[s]
               \/ scopes'[s].probing = 0 /\ probes'[s] = {}
    BY <1>6, BlankFits
  <2>2. ASSUME NEW s \in Scopes, NEW a \in probes'[s]
        PROVE  pc'[a] = pc[a] /\ lease'[a].claimed = lease[a].claimed
    <3>1. a \in Attempts
      BY <1>8 DEF ControlOK
    <3> QED BY <1>1, <1>5, <3>1, AttemptsApart
  <2> QED BY <2>1, <2>2, SlotsKept DEF GateInv
<1>10. LockHeld'
  BY <1>1, <1>2, <1>4, <1>5 DEF LockHeld
<1>11. RowsFollowGate'
  <2> SUFFICES ASSUME NEW x \in Scopes, ~BeingCleared(x)', (x \in lost => Queued(x) # <<>>)'
               PROVE  Remembers(LastWord(x)', scopes'[x])
    BY DEF RowsFollowGate
  <2>1. CASE x = clearing
    <3>1. Queued(x)' = <<>>
      BY <1>1, <1>4, <1>6, <2>1 DEF Queued
    <3>2. LastWord(x)' = NoRow
      BY <1>1, <1>3, <2>1, <3>1 DEF LastWord
    <3> QED BY <1>6, <2>1, <3>2, BlankFits DEF Remembers
  <2>2. CASE x # clearing
    <3>1. Queued(x)' = Queued(x)
      BY <1>1, <1>6, <2>2 DEF Queued
    <3>2. LastWord(x)' = LastWord(x) /\ lost' = lost
      BY <1>1, <3>1 DEF LastWord
    <3>3. Remembers(LastWord(x), scopes[x])
      BY <2>2, <3>1, <3>2 DEF GateInv, RowsFollowGate, BeingCleared
    <3> QED BY <1>6, <2>2, <3>2, <3>3
  <2> QED BY <2>1, <2>2
<1> QED BY <1>7, <1>8, <1>9, <1>10, <1>11 DEF GateInv

\* What a restart makes of the rows.
LEMMA Restarts ==
  ASSUME GateInv, Crash, NEW s \in Scopes
  PROVE  \/ rows[s] = NoRow /\ scopes'[s] = Blank
         \/ /\ rows[s] # NoRow
            /\ \E until \in {"ahead", "passed"} : scopes'[s] = Restored(rows[s], until)
<1>1. PICK until \in [Scopes -> {"ahead", "passed"}] :
        scopes' = [x \in Scopes |-> IF rows[x] = NoRow THEN Blank ELSE Restored(rows[x], until[x])]
  BY DEF Crash
<1>2. until[s] \in {"ahead", "passed"}
  OBVIOUS
<1>3. scopes'[s] = IF rows[s] = NoRow THEN Blank ELSE Restored(rows[s], until[s])
  BY <1>1
<1> QED BY <1>2, <1>3

\* The process dies and a new one restores the rows.
LEMMA CrashKeeps ==
  ASSUME GateInv, Crash
  PROVE  GateInv'
<1>1. /\ crashes < MaxCrashes /\ crashes' = crashes + 1
      /\ pending' = [s \in Scopes |-> <<>>] /\ draining' = [s \in Scopes |-> <<>>]
      /\ probes' = [s \in Scopes |-> {}] /\ lost' = {}
      /\ storeLock' = NoOne /\ clearing' = NoScope
      /\ pc' = [p \in Procs |-> "idle"] /\ io' = [p \in Procs |-> "none"]
      /\ lease' = [a \in Attempts |-> Idle]
      /\ UNCHANGED <<rows, failures, topologyVars>>
  BY DEF Crash
<1>2. ASSUME NEW s \in Scopes
      PROVE  /\ scopes'[s] \in FitStates /\ Remembers(rows[s], scopes'[s])
             /\ scopes'[s].probing = 0
  <2>1. CASE rows[s] = NoRow /\ scopes'[s] = Blank
    BY <2>1, BlankFits DEF Remembers
  <2>2. CASE rows[s] # NoRow /\ \E until \in {"ahead", "passed"} : scopes'[s] = Restored(rows[s], until)
    <3>1. rows[s] \in FitRows
      BY StoreTypes
    <3>2. PICK until \in {"ahead", "passed"} : scopes'[s] = Restored(rows[s], until)
      BY <2>2
    <3> QED BY <2>2, <3>1, <3>2, RestoredFits
  <2> QED BY <2>1, <2>2, Restarts
<1>3. StatesFit'
  <2>1. scopes' = [s \in Scopes |-> scopes'[s]]
    BY DEF Crash
  <2>2. scopes' \in [Scopes -> FitStates]
    BY <1>2, <2>1
  <2>3. <<>> \in Seq(FitRows)
    OBVIOUS
  <2> QED BY <1>1, <2>2, <2>3, StoreTypes DEF StatesFit
<1>4. ControlOK' /\ ClaimsOwn'
  BY <1>1, IdleFits DEF ControlOK, ClaimsOwn
<1>5. RegistryOK'
  BY <1>1, Settings DEF GateInv, RegistryOK, topologyVars
<1>6. LockHeld'
  BY <1>1 DEF LockHeld
<1>7. NoSlotLeaks'
  <2>1. Cardinality({}) = 0
    BY FS_EmptySet
  <2> QED BY <1>1, <1>2, <2>1 DEF NoSlotLeaks
<1>8. RowsFollowGate'
  <2> SUFFICES ASSUME NEW s \in Scopes PROVE Remembers(LastWord(s)', scopes'[s])
    BY DEF RowsFollowGate
  <2>1. Queued(s)' = <<>>
    BY <1>1 DEF Queued
  <2>2. LastWord(s)' = rows[s]
    BY <1>1, <2>1 DEF LastWord
  <2> QED BY <1>2, <2>2
<1> QED BY <1>3, <1>4, <1>5, <1>6, <1>7, <1>8 DEF GateInv

-----------------------------------------------------------------------------
(* The theorems *)

\* A fresh gate.
LEMMA InitGate == Init => GateInv
<1> SUFFICES ASSUME Init PROVE GateInv
  OBVIOUS
<1>1. StatesFit
  <2>1. <<>> \in Seq(FitRows) /\ NoRow \in FitRows
    BY DEF FitRows
  <2> QED BY <2>1, BlankFits DEF Init, StatesFit
<1>2. ControlOK /\ ClaimsOwn
  BY IdleFits DEF Init, ControlOK, ClaimsOwn
<1>3. RegistryOK
  BY Settings DEF Init, RegistryOK
<1>4. LockHeld
  BY DEF Init, LockHeld
<1>5. NoSlotLeaks
  <2>1. Cardinality({}) = 0
    BY FS_EmptySet
  <2> QED BY <2>1, BlankFits DEF Init, NoSlotLeaks
<1>6. RowsFollowGate
  <2> SUFFICES ASSUME NEW s \in Scopes PROVE Remembers(LastWord(s), scopes[s])
    BY DEF RowsFollowGate
  <2>1. Queued(s) = <<>> /\ rows[s] = NoRow /\ scopes[s] = Blank
    BY DEF Init, Queued
  <2> QED BY <2>1, BlankFits DEF LastWord, Remembers
<1> QED BY <1>1, <1>2, <1>3, <1>4, <1>5, <1>6 DEF GateInv

\* A section that leaves everything in order keeps the invariant.
LEMMA OrderlyKeeps == GateInv /\ Orderly => GateInv'
BY SectionKeeps DEF GateInv, Orderly

\* Every step keeps the invariant.
LEMMA NextGate == GateInv /\ [Next]_vars => GateInv'
<1> SUFFICES ASSUME GateInv, [Next]_vars PROVE GateInv'
  OBVIOUS
<1>1. CASE UNCHANGED vars
  BY <1>1 DEF vars, gateVars, storeVars, topologyVars, GateInv, StatesFit, ControlOK, RegistryOK,
              LockHeld, ClaimsOwn, NoSlotLeaks, RowsFollowGate, BeingCleared, Queued, LastWord
<1>2. ASSUME NEW p \in Procs, Flush(p) PROVE GateInv'
  BY <1>2, TakeQueueKeeps, WriteRowKeeps, FlushReturnsKeeps DEF Flush
<1>3. ASSUME NEW a \in Attempts, Filter(a) \/ AttemptStep(a) PROVE GateInv'
  <2>1. Orderly
    BY <1>3, FilterOrderly, AdmitTargetOrderly, AdmitRefusedOrderly, SucceedsOrderly,
       AbandonOrderly, FailsOrderly, observeClaimedOrderly, observeReportingOrderly
       DEF AttemptStep
  <2> QED BY <2>1, OrderlyKeeps
<1>4. ASSUME NEW s \in Deployments, NEW healthy \in BOOLEAN, ObserveProbe(s, healthy)
      PROVE  GateInv'
  <2>1. s \in Scopes
    BY DEF Deployments
  <2> QED BY <1>4, <2>1, ObserveProbeOrderly, OrderlyKeeps
<1>5. ASSUME NEW live \in SUBSET Deployments, RetainDeployments(live) PROVE GateInv'
  BY <1>5, RetainDeploymentsOrderly, OrderlyKeeps
<1>6. ASSUME NEW c \in Credentials, ReplaceRegistry(c) PROVE GateInv'
  BY <1>6, ReplaceRegistryOrderly, OrderlyKeeps
<1>7. CASE ForgetOutdatedCredentials
  BY <1>7, ForgetOrderly, OrderlyKeeps
<1>8. ASSUME NEW s \in Scopes, ClearDurable(s) \/ WindowEnds(s) PROVE GateInv'
  BY <1>8, ClearDurableKeeps, WindowEndsOrderly, OrderlyKeeps
<1>9. CASE RemoveRow \/ ClearScope \/ Crash
  BY <1>9, RemoveRowKeeps, ClearScopeKeeps, CrashKeeps
<1> QED BY <1>1, <1>2, <1>3, <1>4, <1>5, <1>6, <1>7, <1>8, <1>9 DEF Next

\* The invariant holds throughout.
LEMMA GateHolds == Spec => []GateInv
BY InitGate, NextGate, PTL DEF Spec

\* A queue of fit rows is a queue of rows.
LEMMA FitTypes == StatesFit => StatesOK
<1> SUFFICES ASSUME StatesFit PROVE StatesOK
  OBVIOUS
<1>1. FitStates \subseteq ScopeStates /\ FitRows \subseteq Rows \cup {NoRow}
  BY DEF FitStates, FitRows
<1>2. ASSUME NEW q \in Seq(FitRows) PROVE q \in Seq(Rows \cup {NoRow})
  <2>1. Len(q) \in Nat /\ q \in [1 .. Len(q) -> FitRows]
    OBVIOUS
  <2>2. q \in [1 .. Len(q) -> Rows \cup {NoRow}]
    BY <1>1, <2>1
  <2> QED BY <2>1, <2>2
<1> QED BY <1>1, <1>2 DEF StatesFit, StatesOK

\* Type correctness of the gate, its queue, the store and the goroutines: TypeOK, which
\* says that no slot count goes below zero and no window is anything but a number.
THEOREM TypeCorrect == Spec => []TypeOK
<1>1. GateInv => TypeOK
  BY FitTypes DEF GateInv, TypeOK
<1> QED BY <1>1, GateHolds, PTL

\* No probe slot is stranded (NoSlotLeaks): whatever the order of admissions, drops,
\* answers, failures and abandoned calls, the slots that a suspension counts are held by
\* attempts in flight through it.
THEOREM SlotsNeverLeak == Spec => []NoSlotLeaks
<1>1. GateInv => NoSlotLeaks
  BY DEF GateInv
<1> QED BY <1>1, GateHolds, PTL

\* The rows follow the gate (RowsFollowGate): once what is queued is written, the store
\* remembers exactly the suspensions that are worth a row, although flushes run outside
\* the Gate's mutex and clears and failing writes come between.
THEOREM RowsAgree == Spec => []RowsFollowGate
<1>1. GateInv => RowsFollowGate
  BY DEF GateInv
<1> QED BY <1>1, GateHolds, PTL

\* A restart with an empty queue brings back exactly the long refusals that were in force
\* (RestartRemembers), except where the scope's write had failed.
THEOREM RestartKeepsRefusals == Spec => RestartRemembers
<1> DEFINE Settled == storeLock = NoOne /\ \A s \in Scopes : pending[s] = <<>>
           Recalled ==
             \A s \in Scopes \ lost :
               IF persistable(scopes[s])
                 THEN /\ suspended(scopes'[s])
                      /\ scopes'[s].indefinite = scopes[s].indefinite
                      /\ scopes'[s].window = scopes[s].window
                 ELSE scopes'[s] = Blank
<1>1. GateInv /\ [Next]_vars => [crashes' # crashes /\ Settled => Recalled]_vars
  <2> SUFFICES ASSUME GateInv, Next, crashes' # crashes, Settled, NEW s \in Scopes \ lost
               PROVE  IF persistable(scopes[s])
                        THEN /\ suspended(scopes'[s])
                             /\ scopes'[s].indefinite = scopes[s].indefinite
                             /\ scopes'[s].window = scopes[s].window
                        ELSE scopes'[s] = Blank
    OBVIOUS
  <2>1. Crash
    BY DEF Next, Flush, TakeQueue, WriteRow, FlushReturns, Filter, AttemptStep, AdmitTarget,
           AdmitRefused, Succeeds, Abandon, Fails, observeClaimed, observeReporting,
           ObserveProbe, RetainDeployments, ReplaceRegistry, ForgetOutdatedCredentials,
           ClearDurable, WindowEnds, RemoveRow, ClearScope
  <2>2. Queued(s) = <<>>
    <3>1. draining[s] = <<>>
      BY StoreTypes DEF GateInv, LockHeld
    <3> QED BY <3>1 DEF Queued
  <2>3. ~BeingCleared(s)
    BY StoreTypes DEF GateInv, LockHeld, BeingCleared
  <2>4. Remembers(rows[s], scopes[s])
    BY <2>2, <2>3 DEF GateInv, RowsFollowGate, LastWord
  <2>5. CASE rows[s] = NoRow
    BY <2>1, <2>4, <2>5, Restarts DEF Remembers
  <2>6. CASE rows[s] # NoRow
    <3>1. PICK until \in {"ahead", "passed"} : scopes'[s] = Restored(rows[s], until)
      BY <2>1, <2>6, Restarts
    <3>2. rows[s] \in FitRows
      BY StoreTypes
    <3>3. /\ persistable(scopes'[s]) /\ scopes'[s].indefinite = rows[s].indefinite
          /\ scopes'[s].window = rows[s].window
      BY <2>6, <3>1, <3>2, RestoredFits
    <3>4. suspended(scopes'[s])
      BY <3>3 DEF persistable
    <3> QED BY <2>4, <2>6, <3>3, <3>4 DEF Remembers
  <2> QED BY <2>5, <2>6
<1> QED BY <1>1, GateHolds, PTL DEF Spec, RestartRemembers
=============================================================================
