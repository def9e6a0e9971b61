--------------------------- MODULE PricePinsProofs ---------------------------
(***************************************************************************)
(* The price pins agree with the ledger, recovery accepts them, the price  *)
(* never reverts and waiting is never taken for a clock jump: for any      *)
(* attempts and versions, any tolerances, any faults and any number of     *)
(* crashes.                                                                *)
(***************************************************************************)
EXTENDS PricePins, WellFoundedInduction, TLAPS

\* A stored pin names a version that stands on the timeline.
PinsStand ==
  \A a \in Attempts : \/ pins[a] = NoPin
                      \/ /\ pins[a].state # "none"
                         /\ pins[a].version \in timeline \ cancelled

\* What an attempt holds in the two stores at each point of startAttempt.
PhasesHold ==
  \A a \in Attempts :
    /\ phase[a] \in {"idle", "captured"} => pins[a] = NoPin
    /\ phase[a] = "selected" => pins[a].state = "prepared"
    /\ phase[a] \in {"prepared", "dropping", "leased"} => pins[a].state # "committed"
    /\ phase[a] = "called" => pins[a].state # "prepared"
    /\ phase[a] \in {"idle", "captured", "selected", "prepared"} => LeaseSeqs(a) = {}
    /\ phase[a] = "dropping" => LeaseSeqs(a) = {} \/ a \in refused
    /\ phase[a] \in {"leased", "unpinned", "called"} => LeaseSeqs(a) # {}

\* An attempt has at most one lease, and a pin that is still there was copied into it.
LeasesCopied ==
  \A a \in Attempts :
    /\ \A i, j \in LeaseSeqs(a) : i = j
    /\ pins[a] # NoPin => \A i \in LeaseSeqs(a) : /\ ledger[i].version = pins[a].version
                                                  /\ ledger[i].at = pins[a].at

\* A pin that is only prepared keeps its lease in the ledger's state: the lease is found
\* by the start that has to complete the pin.
PreparedInState ==
  \A a \in Attempts : LeaseSeqs(a) = {} \/ pins[a].state = "prepared" => InState(a)

\* No attempt runs unless the process serves, and a start that settles leases has
\* completed or dropped every prepared pin.
StartsQuiet ==
  /\ proc # "up" => \A a \in Attempts : phase[a] \notin Active
  /\ proc = "leases" => \A a \in Attempts : pins[a].state # "prepared"

\* The inductive invariant.
PinInv ==
  /\ TypeOK /\ PinsStand /\ PhasesHold /\ LeasesCopied /\ PreparedInState /\ StartsQuiet
  /\ PinsMatchLedger /\ RecoveryAccepts

\* While the wall clock was never set it is the monotonic clock, so no pair of readings
\* drifts; and the mark and every time that was read lie in the past.
ClockInv ==
  jumps = 0 => /\ wall = elapsed /\ mark.at <= wall /\ now <= wall
               /\ anchor.selectedAt = anchor.observedAt
               /\ \A a \in Attempts : /\ captured[a].selectedAt = captured[a].observedAt
                                      /\ captured[a].selectedAt <= wall

\* Until an operator confirms the clock, the mark is at or past every stored version.
MarkAhead == confirms = 0 => \A a \in Attempts : pins[a].version <= mark.at

-----------------------------------------------------------------------------
(* Selection *)

\* A set of numbers with an upper bound has a largest member.
LEMMA LargestMember ==
  ASSUME NEW n \in Nat, NEW S, S \subseteq 0 .. n, S # {}
  PROVE  \E v \in S : \A w \in S : w <= v
<1> DEFINE R == OpToRel(<, Nat)
           T == {k \in Nat : n - k \in S}
<1>1. T # {}
  <2>1. PICK v \in S : TRUE
    OBVIOUS
  <2>2. n - v \in Nat /\ n - (n - v) = v
    BY <2>1
  <2> QED BY <2>2
<1>2. \E k \in T : \A m \in T : ~(<<m, k>> \in R)
  <2>1. IsWellFoundedOn(R, Nat) /\ T \subseteq Nat
    BY NatLessThanWellFounded
  <2> HIDE DEF R, T
  <2> QED BY <1>1, <2>1, WFMin
<1>3. PICK k \in T : \A m \in T : ~(<<m, k>> \in R)
  BY <1>2
<1>4. \A m \in T : ~(m < k)
  BY <1>3 DEF OpToRel
<1>5. ASSUME NEW w \in S PROVE w <= n - k
  <2>1. n - w \in Nat /\ n - (n - w) = w
    OBVIOUS
  <2>2. n - w \in T
    BY <2>1
  <2> QED BY <1>4, <2>1, <2>2
<1> QED BY <1>5

\* The constants, as the provers use them.
LEMMA Constants ==
  /\ MaxTime \in Nat /\ MaxJumps \in Nat /\ MaxCrashes \in Nat /\ MaxConfirms \in Nat
  /\ \A v \in Versions : v \in Nat /\ 1 <= v /\ v <= MaxTime
  /\ RollbackTolerance \in Nat /\ ForwardTolerance \in Nat
  /\ 1 \in Versions /\ 1 <= MaxTime
<1>1. /\ MaxTime \in Nat /\ MaxJumps \in Nat /\ MaxCrashes \in Nat /\ MaxConfirms \in Nat
  BY PricePinsAssumption
<1> QED BY <1>1, PricePinsAssumption

\* The selected version stands, is in effect, and no later one is.
LEMMA SelectLatest ==
  ASSUME PricesOK, NEW t \in Int
  PROVE  /\ Select(t) \in Versions \cup {NoVersion}
         /\ Select(t) # NoVersion => Select(t) \in timeline \ cancelled /\ Select(t) <= t
         /\ \A w \in timeline \ cancelled : w <= t => Select(t) # NoVersion /\ w <= Select(t)
<1>1. /\ InEffect(t) \subseteq Versions
      /\ InEffect(t) \subseteq 0 .. MaxTime
      /\ 0 \notin InEffect(t)
  BY Constants DEF PricesOK, InEffect
<1>2. CASE InEffect(t) = {}
  BY <1>2 DEF Select, InEffect
<1>3. CASE InEffect(t) # {}
  <2>1. \E v \in InEffect(t) : \A w \in InEffect(t) : w <= v
    BY Constants, <1>1, <1>3, LargestMember
  <2>2. Select(t) = CHOOSE v \in InEffect(t) : \A w \in InEffect(t) : w <= v
    BY <1>3 DEF Select
  <2>3. Select(t) \in InEffect(t) /\ \A w \in InEffect(t) : w <= Select(t)
    BY <2>1, <2>2
  <2> QED BY <1>1, <2>3 DEF InEffect, NoVersion
<1> QED BY <1>2, <1>3

-----------------------------------------------------------------------------
(* The ledger *)

\* What a record appended to the ledger adds.
LEMMA LedgerGrows ==
  ASSUME PinsOK, NEW e \in LedgerRecord, ledger' = Append(ledger, e), NEW a \in Attempts
  PROVE  /\ ledger' \in Seq(LedgerRecord)
         /\ Len(ledger) \in Nat /\ Len(ledger') = Len(ledger) + 1
         /\ \A i \in 1 .. Len(ledger) : ledger'[i] = ledger[i]
         /\ ledger'[Len(ledger) + 1] = e
         /\ LeaseSeqs(a)' = IF e.kind = "lease" /\ e.attempt = a
                            THEN LeaseSeqs(a) \cup {Len(ledger) + 1} ELSE LeaseSeqs(a)
         /\ InState(a) /\ ~(e.kind = "settled" /\ e.attempt = a /\ e.outcome \in {"completed", "recovered"})
              => InState(a)'
<1>1. /\ ledger' \in Seq(LedgerRecord)
      /\ Len(ledger) \in Nat /\ Len(ledger') = Len(ledger) + 1
      /\ \A i \in 1 .. Len(ledger) : ledger'[i] = ledger[i]
      /\ ledger'[Len(ledger) + 1] = e
  BY DEF PinsOK
<1>2. LeaseSeqs(a)' = IF e.kind = "lease" /\ e.attempt = a
                      THEN LeaseSeqs(a) \cup {Len(ledger) + 1} ELSE LeaseSeqs(a)
  <2>1. 1 .. Len(ledger') = (1 .. Len(ledger)) \cup {Len(ledger) + 1}
    BY <1>1
  <2> QED BY <1>1, <2>1 DEF LeaseSeqs
<1>3. InState(a) /\ ~(e.kind = "settled" /\ e.attempt = a /\ e.outcome \in {"completed", "recovered"})
        => InState(a)'
  <2>1. \A i \in 1 .. Len(ledger') : i \in 1 .. Len(ledger) \/ i = Len(ledger) + 1
    BY <1>1
  <2> QED BY <1>1, <2>1 DEF InState, SettledAs
<1> QED BY <1>1, <1>2, <1>3

\* What is appended is a record of the ledger.
LEMMA RecordTypes ==
  ASSUME PinsOK, PricesOK, NEW a \in Attempts
  PROVE  /\ Lease(a) \in LedgerRecord
         /\ \A o \in {"completed", "recovered", "pin_commit_failed"} : Settlement(a, o) \in LedgerRecord
<1>1. 0 \in Times
  BY PricePinsAssumption DEF Times
<1> QED BY <1>1 DEF PinsOK, PinRecord, Lease, Settlement, LedgerRecord, NoVersion

\* A step that leaves the ledger alone leaves every lease where it was.
LEMMA LedgerKept ==
  ASSUME ledger' = ledger
  PROVE  \A a \in Attempts : LeaseSeqs(a)' = LeaseSeqs(a) /\ (InState(a)' <=> InState(a))
BY DEF LeaseSeqs, InState, SettledAs

\* The ledger's records are those of attempts.
LEMMA LedgerTyped ==
  ASSUME PinsOK
  PROVE  /\ Len(ledger) \in Nat
         /\ \A i \in 1 .. Len(ledger) : ledger[i] \in LedgerRecord /\ ledger[i].attempt \in Attempts
<1>1. Len(ledger) \in Nat /\ \A i \in 1 .. Len(ledger) : ledger[i] \in LedgerRecord
  BY DEF PinsOK
<1>2. \A i \in 1 .. Len(ledger) : ledger[i].attempt \in Attempts
  BY <1>1 DEF LedgerRecord
<1> QED BY <1>1, <1>2

\* A lease is a position of the ledger.
LEMMA LeasesInside ==
  ASSUME PinsOK, NEW a \in Attempts
  PROVE  /\ Len(ledger) \in Nat
         /\ \A i \in LeaseSeqs(a) : /\ i \in 1 .. Len(ledger) /\ ledger[i] \in LedgerRecord
                                    /\ ledger[i].kind = "lease" /\ ledger[i].attempt = a
         /\ \A i \in 1 .. Len(ledger) : ledger[i].kind = "lease" /\ ledger[i].attempt = a => i \in LeaseSeqs(a)
BY LedgerTyped DEF LeaseSeqs

\* No pin is a pin record.
LEMMA NoPinOK ==
  ASSUME PinsOK
  PROVE  NoPin \in PinRecord
<1>1. Len(ledger) \in Nat
  BY DEF PinsOK
<1>2. 0 \in 0 .. Len(ledger) /\ 0 \in Times
  BY <1>1, Constants DEF Times
<1> QED BY <1>2 DEF NoPin, PinRecord

-----------------------------------------------------------------------------
(* Steps that leave both stores alone *)

\* The parts about the two stores.
Stores == PinsStand /\ LeasesCopied /\ PreparedInState /\ PinsMatchLedger

\* Steps that change neither store nor an attempt's phase.
LEMMA StoresKept ==
  ASSUME PinInv, UNCHANGED <<prices, pins, ledger, refused>>
  PROVE  PinsOK' /\ Stores'
<1>1. PinsOK'
  BY DEF PinInv, TypeOK, PinsOK, PinRecord, LedgerRecord
<1>2. PinsStand'
  BY DEF PinInv, PinsStand, prices
<1>3. LeasesCopied'
  BY LedgerKept DEF PinInv, LeasesCopied
<1>4. PreparedInState'
  BY LedgerKept DEF PinInv, PreparedInState
<1>5. PinsMatchLedger'
  BY LedgerKept DEF PinInv, PinsMatchLedger, prices
<1> QED BY <1>1, <1>2, <1>3, <1>4, <1>5 DEF Stores

\* Only a serving process runs attempts.
LEMMA ActiveServes ==
  ASSUME PinInv, NEW a \in Attempts, phase[a] \in Active
  PROVE  proc = "up"
BY DEF PinInv, StartsQuiet

\* An attempt that only moves on: what it holds fits where it stands.
LEMMA Moves ==
  ASSUME PinInv, NEW a \in Attempts, NEW q \in Active \cup {"idle", "ended"}, proc = "up",
         UNCHANGED <<prices, pins, ledger, refused, admin, life>>,
         phase' = [phase EXCEPT ![a] = q],
         q \in {"idle", "captured"} => pins[a] = NoPin,
         q = "selected" => pins[a].state = "prepared",
         q \in {"prepared", "dropping", "leased"} => pins[a].state # "committed",
         q = "called" => pins[a].state # "prepared",
         q \in {"idle", "captured", "selected", "prepared"} => LeaseSeqs(a) = {},
         q = "dropping" => LeaseSeqs(a) = {} \/ a \in refused,
         q \in {"leased", "unpinned", "called"} => LeaseSeqs(a) # {}
  PROVE  PinsOK' /\ ProcessOK' /\ Stores' /\ PhasesHold' /\ StartsQuiet' /\ RecoveryAccepts'
<1>1. PinsOK' /\ Stores'
  BY StoresKept
<1>2. ProcessOK'
  BY DEF PinInv, TypeOK, ProcessOK, admin, life, Times
<1>3. PhasesHold'
  BY LedgerKept DEF PinInv, PhasesHold, TypeOK, ProcessOK
<1>4. StartsQuiet' /\ RecoveryAccepts'
  BY DEF StartsQuiet, RecoveryAccepts, life
<1> QED BY <1>1, <1>2, <1>3, <1>4

\* The parts of the invariant put together.
LEMMA Parts ==
  ASSUME ClocksOK', PricesOK', PinsOK', ProcessOK', Stores', PhasesHold', StartsQuiet', RecoveryAccepts'
  PROVE  PinInv'
BY DEF PinInv, TypeOK, Stores

-----------------------------------------------------------------------------
(* The clocks and the mark *)

\* An attempt reads the clocks.
LEMMA CaptureInv ==
  ASSUME PinInv, NEW a \in Attempts, Capture(a)
  PROVE  PinInv'
<1> USE DEF Capture
<1>1. ClocksOK' /\ PricesOK'
  BY DEF PinInv, TypeOK, ClocksOK, PricesOK, clocks, prices
<1>2. pins[a] = NoPin /\ LeaseSeqs(a) = {}
  BY DEF PinInv, PhasesHold
<1>3. PinsOK' /\ ProcessOK' /\ Stores' /\ PhasesHold' /\ StartsQuiet' /\ RecoveryAccepts'
  BY <1>2, Moves, "captured" \in Active DEF Active
<1> QED BY <1>1, <1>3, Parts

\* The readings an attempt took are gone.
LEMMA UncapturedOK ==
  ASSUME ClocksOK, NEW a \in Attempts
  PROVE  Uncaptured(a) \in [Attempts -> [selectedAt : Times \cup {-1}, observedAt : Times \cup {-1}]]
BY DEF ClocksOK, Uncaptured, NoAnchor

\* The preparation is refused.
LEMMA PrepareRefusedInv ==
  ASSUME PinInv, NEW a \in Attempts, PrepareRefused(a)
  PROVE  PinInv'
<1> USE DEF PrepareRefused
<1>1. ClocksOK' /\ PricesOK'
  BY UncapturedOK DEF PinInv, TypeOK, ClocksOK, PricesOK, clocks, prices
<1>2. proc = "up"
  BY ActiveServes DEF Active
<1>3. PinsOK' /\ ProcessOK' /\ Stores' /\ PhasesHold' /\ StartsQuiet' /\ RecoveryAccepts'
  BY <1>2, Moves
<1> QED BY <1>1, <1>3, Parts

\* The preparation quarantines the deployment.
LEMMA PrepareQuarantinesInv ==
  ASSUME PinInv, NEW a \in Attempts, PrepareQuarantines(a)
  PROVE  PinInv'
<1> USE DEF PrepareQuarantines
<1>1. ClocksOK' /\ PricesOK'
  BY UncapturedOK DEF PinInv, TypeOK, ClocksOK, PricesOK, clocks, prices, Reasons
<1>2. proc = "up"
  BY ActiveServes DEF Active
<1>3. PinsOK' /\ ProcessOK' /\ Stores' /\ PhasesHold' /\ StartsQuiet' /\ RecoveryAccepts'
  BY <1>2, Moves
<1> QED BY <1>1, <1>3, Parts

\* The preparation finds no price.
LEMMA PrepareUnpricedInv ==
  ASSUME PinInv, NEW a \in Attempts, NEW b \in BOOLEAN, PrepareUnpriced(a, b)
  PROVE  PinInv'
<1> USE DEF PrepareUnpriced
<1>1. ClocksOK' /\ PricesOK'
  BY UncapturedOK DEF PinInv, TypeOK, ClocksOK, PricesOK, clocks, prices
<1>2. proc = "up"
  BY ActiveServes DEF Active
<1>3. pins[a].state = "none" /\ LeaseSeqs(a) = {}
  BY DEF PinInv, PhasesHold, NoPin
<1>4. PinsOK' /\ ProcessOK' /\ Stores' /\ PhasesHold' /\ StartsQuiet' /\ RecoveryAccepts'
  <2>1. CASE b
    <3>1. phase' = [phase EXCEPT ![a] = "prepared"] /\ "prepared" \in Active
      BY <2>1 DEF Active
    <3> QED BY <1>2, <1>3, <3>1, Moves
  <2>2. CASE ~b
    BY <1>2, <2>2, Moves
  <2> QED BY <2>1, <2>2
<1> QED BY <1>1, <1>4, Parts

\* The clock anchor is merged after the transaction.
LEMMA MergeAnchorInv ==
  ASSUME PinInv, NEW a \in Attempts, MergeAnchor(a)
  PROVE  PinInv'
<1> USE DEF MergeAnchor
<1>1. ClocksOK'
  BY UncapturedOK DEF PinInv, TypeOK, ClocksOK, clocks, ObservedAt
<1>2. PricesOK'
  BY DEF PinInv, TypeOK, PricesOK, prices
<1>3. proc = "up"
  BY ActiveServes DEF Active
<1>4. pins[a].state = "prepared" /\ LeaseSeqs(a) = {}
  BY DEF PinInv, PhasesHold
<1>5. PinsOK' /\ ProcessOK' /\ Stores' /\ PhasesHold' /\ StartsQuiet' /\ RecoveryAccepts'
  BY <1>3, <1>4, Moves, "prepared" \in Active DEF Active
<1> QED BY <1>1, <1>2, <1>5, Parts

\* An attempt ends without a reservation.
LEMMA RejectInv ==
  ASSUME PinInv, NEW a \in Attempts, Reject(a)
  PROVE  PinInv'
<1> USE DEF Reject
<1>1. ClocksOK' /\ PricesOK'
  BY DEF PinInv, TypeOK, ClocksOK, PricesOK, clocks, prices
<1>2. proc = "up"
  BY ActiveServes DEF Active
<1>3. pins[a].state # "committed" /\ LeaseSeqs(a) = {}
  BY DEF PinInv, PhasesHold
<1>4. PinsOK' /\ ProcessOK' /\ Stores' /\ PhasesHold' /\ StartsQuiet' /\ RecoveryAccepts'
  BY <1>2, <1>3, Moves, "dropping" \in Active DEF Active
<1> QED BY <1>1, <1>4, Parts

-----------------------------------------------------------------------------
(* The attempt's writes to the two stores *)

\* What Prepare writes: a standing version in effect at a time that is not before the mark.
LEMMA PinnedFacts ==
  ASSUME ClocksOK, PricesOK, NEW a \in Attempts, Pinned(a)
  PROVE  /\ SelectedAt(a) \in Times /\ mark.at <= SelectedAt(a)
         /\ Select(SelectedAt(a)) \in timeline \ cancelled
         /\ Select(SelectedAt(a)) \in Versions
         /\ Select(SelectedAt(a)) <= SelectedAt(a)
         /\ pins' = [pins EXCEPT ![a] = [state |-> "prepared", version |-> Select(SelectedAt(a)),
                                         at |-> SelectedAt(a), seq |-> 0]]
         /\ mark' = [mark EXCEPT !.at = SelectedAt(a),
                                 !.version = IF Select(SelectedAt(a)) > @ THEN Select(SelectedAt(a)) ELSE @]
<1>1. /\ captured[a].selectedAt \in Times \cup {-1} /\ mark.at \in Times
  BY DEF ClocksOK, PricesOK
<1>2. SelectedAt(a) \in Times \cup {-1} /\ SelectedAt(a) \in Int
  BY <1>1 DEF SelectedAt, Times
<1>3. /\ Select(SelectedAt(a)) # NoVersion
      /\ pins' = [pins EXCEPT ![a] = [state |-> "prepared", version |-> Select(SelectedAt(a)),
                                      at |-> SelectedAt(a), seq |-> 0]]
      /\ mark' = [mark EXCEPT !.at = SelectedAt(a),
                              !.version = IF Select(SelectedAt(a)) > @ THEN Select(SelectedAt(a)) ELSE @]
  BY DEF Pinned
<1>4. /\ Select(SelectedAt(a)) \in timeline \ cancelled
      /\ Select(SelectedAt(a)) \in Versions
      /\ Select(SelectedAt(a)) <= SelectedAt(a)
  BY <1>2, <1>3, SelectLatest
<1>5. SelectedAt(a) \in Times
  BY <1>2, <1>4, Constants DEF Times
<1>6. mark.at <= SelectedAt(a)
  BY <1>1, <1>5 DEF SelectedAt, Behind, HasMark, NoMark, Times
<1> QED BY <1>3, <1>4, <1>5, <1>6

\* A pin is prepared.
LEMMA PrepareInv ==
  ASSUME PinInv, NEW a \in Attempts, NEW b \in BOOLEAN, Prepare(a, b)
  PROVE  PinInv'
<1> DEFINE at == SelectedAt(a)
           v  == Select(at)
           q  == IF b THEN "selected" ELSE "ended"
<1>1. ClocksOK /\ PricesOK /\ PinsOK /\ ProcessOK
  BY DEF PinInv, TypeOK
<1>2. /\ at \in Times /\ mark.at <= at /\ v \in timeline \ cancelled /\ v \in Versions /\ v <= at
      /\ pins' = [pins EXCEPT ![a] = [state |-> "prepared", version |-> v, at |-> at, seq |-> 0]]
      /\ mark' = [mark EXCEPT !.at = at, !.version = IF v > @ THEN v ELSE @]
  BY <1>1, PinnedFacts DEF Prepare
<1>3. /\ phase[a] = "captured" /\ phase' = [phase EXCEPT ![a] = q]
      /\ UNCHANGED <<clocks, prices, ledger, anchor, admin, life, refused>>
      /\ captured' = IF b THEN captured ELSE Uncaptured(a)
  BY DEF Prepare
<1>4. /\ proc = "up" /\ pins[a] = NoPin /\ LeaseSeqs(a) = {} /\ InState(a)
  BY <1>3, ActiveServes DEF Active, PinInv, PhasesHold, PreparedInState
<1> HIDE DEF at, v
<1>5. ClocksOK'
  BY <1>1, <1>3, UncapturedOK DEF ClocksOK, clocks
<1>6. PricesOK'
  <2>1. v \in Nat /\ at \in Nat /\ mark.at \in Nat /\ mark.version \in Nat /\ mark.version <= mark.at
    BY <1>1, <1>2, Constants DEF PricesOK, Times, NoVersion
  <2>2. mark'.at = at /\ mark'.version = (IF v > mark.version THEN v ELSE mark.version)
    BY <1>1, <1>2 DEF PricesOK
  <2>3. mark' \in [at : Times, version : Versions \cup {NoVersion}, quarantine : Reasons]
    BY <1>1, <1>2 DEF PricesOK
  <2> QED BY <1>1, <1>2, <1>3, <2>1, <2>2, <2>3 DEF PricesOK, prices
<1>7. PinsOK'
  <2>1. 0 \in 0 .. Len(ledger)
    BY <1>1, LeasesInside
  <2> QED BY <1>1, <1>2, <1>3, <2>1 DEF PinsOK, PinRecord, LedgerRecord
<1>8. ProcessOK'
  BY <1>1, <1>3 DEF ProcessOK, admin, life, Times, Active
<1>9. PhasesHold'
  BY <1>1, <1>2, <1>3, <1>4, LedgerKept DEF PinInv, PhasesHold, ProcessOK, PinsOK
<1>10. StartsQuiet' /\ RecoveryAccepts'
  BY <1>3, <1>4 DEF StartsQuiet, RecoveryAccepts, life
<1>11. Stores'
  <2>1. PinsStand'
    BY <1>1, <1>2, <1>3 DEF PinInv, PinsStand, prices, PinsOK
  <2>2. LeasesCopied'
    BY <1>1, <1>2, <1>3, <1>4, LedgerKept DEF PinInv, LeasesCopied, PinsOK
  <2>3. PreparedInState'
    BY <1>1, <1>2, <1>3, <1>4, LedgerKept DEF PinInv, PreparedInState, PinsOK
  <2>4. PinsMatchLedger'
    <3>1. \A i \in 1 .. Len(ledger) : ledger[i].kind = "lease" => ledger[i].attempt # a
      BY <1>1, <1>4, LeasesInside
    <3> QED BY <1>1, <1>2, <1>3, <3>1, LedgerKept DEF PinInv, PinsMatchLedger, PinsOK, prices, LedgerRecord
  <2> QED BY <2>1, <2>2, <2>3, <2>4 DEF Stores
<1> QED BY <1>5, <1>6, <1>7, <1>8, <1>9, <1>10, <1>11, Parts

\* The lease of a prepared attempt copies its pin, whether or not the attempt is told.
LEMMA LeaseAppended ==
  ASSUME PinInv, NEW a \in Attempts, phase[a] = "prepared",
         ledger' = Append(ledger, Lease(a)), UNCHANGED <<prices, pins>>, refused \subseteq refused'
  PROVE  /\ PinsOK' /\ Stores'
         /\ LeaseSeqs(a)' # {}
         /\ \A b \in Attempts : b # a => LeaseSeqs(b)' = LeaseSeqs(b)
<1>1. PricesOK /\ PinsOK
  BY DEF PinInv, TypeOK
<1>2. Lease(a) \in LedgerRecord
  BY <1>1, RecordTypes
<1>3. /\ pins[a].state # "committed" /\ LeaseSeqs(a) = {} /\ InState(a)
  BY DEF PinInv, PhasesHold, PreparedInState
<1>4. /\ ledger' \in Seq(LedgerRecord) /\ Len(ledger) \in Nat /\ Len(ledger') = Len(ledger) + 1
      /\ \A i \in 1 .. Len(ledger) : ledger'[i] = ledger[i]
      /\ ledger'[Len(ledger) + 1] = Lease(a)
  BY <1>1, <1>2, LedgerGrows
<1>5. /\ LeaseSeqs(a)' = {Len(ledger) + 1}
      /\ \A b \in Attempts : b # a => LeaseSeqs(b)' = LeaseSeqs(b)
  BY <1>1, <1>2, <1>3, LedgerGrows DEF Lease
<1>6. \A b \in Attempts : InState(b) => InState(b)'
  BY <1>1, <1>2, LedgerGrows DEF Lease
<1>7. PinsOK'
  <2>1. 0 .. Len(ledger) \subseteq 0 .. Len(ledger')
    BY <1>4
  <2> QED BY <1>1, <1>4, <2>1 DEF PinsOK, PinRecord, LedgerRecord
<1>8. PinsStand'
  BY DEF PinInv, PinsStand, prices
<1>9. LeasesCopied'
  <2>1. ASSUME NEW b \in Attempts, b # a
        PROVE  /\ \A i, j \in LeaseSeqs(b)' : i = j
               /\ pins'[b] # NoPin => \A i \in LeaseSeqs(b)' : /\ ledger'[i].version = pins'[b].version
                                                               /\ ledger'[i].at = pins'[b].at
    BY <1>1, <1>4, <1>5, <2>1, LeasesInside DEF PinInv, LeasesCopied
  <2>2. /\ \A i, j \in LeaseSeqs(a)' : i = j
        /\ \A i \in LeaseSeqs(a)' : ledger'[i].version = pins'[a].version /\ ledger'[i].at = pins'[a].at
    BY <1>4, <1>5 DEF Lease
  <2>3. \A b \in Attempts :
          /\ \A i, j \in LeaseSeqs(b)' : i = j
          /\ pins'[b] # NoPin => \A i \in LeaseSeqs(b)' : /\ ledger'[i].version = pins'[b].version
                                                          /\ ledger'[i].at = pins'[b].at
    BY <2>1, <2>2
  <2> QED BY <2>3 DEF LeasesCopied
<1>10. PreparedInState'
  BY <1>3, <1>5, <1>6 DEF PinInv, PreparedInState
<1>11. PinsMatchLedger'
  <2>1. ASSUME NEW i \in 1 .. Len(ledger'),
               ledger'[i].kind = "lease", ledger'[i].version # NoVersion, ledger'[i].attempt \notin refused'
        PROVE  /\ pins'[ledger'[i].attempt].version = ledger'[i].version
               /\ ledger'[i].version \notin cancelled'
    <3>1. CASE i \in 1 .. Len(ledger)
      BY <1>4, <2>1, <3>1 DEF PinInv, PinsMatchLedger, prices
    <3>2. CASE i = Len(ledger) + 1
      BY <1>4, <2>1, <3>2 DEF PinInv, PinsStand, Lease, NoPin, prices
    <3> QED BY <1>4, <3>1, <3>2
  <2>2. \A b \in Attempts : pins'[b].state = "committed" => LeaseSeqs(b)' = {pins'[b].seq}
    BY <1>3, <1>5 DEF PinInv, PinsMatchLedger
  <2> QED BY <2>1, <2>2 DEF PinsMatchLedger
<1> QED BY <1>5, <1>7, <1>8, <1>9, <1>10, <1>11 DEF Stores

\* The reservation is in the ledger.
LEMMA ReserveInv ==
  ASSUME PinInv, NEW a \in Attempts, Reserve(a)
  PROVE  PinInv'
<1> USE DEF Reserve
<1>1. PinsOK' /\ Stores' /\ LeaseSeqs(a)' # {} /\ \A b \in Attempts : b # a => LeaseSeqs(b)' = LeaseSeqs(b)
  BY LeaseAppended
<1>2. ClocksOK' /\ PricesOK'
  BY DEF PinInv, TypeOK, ClocksOK, PricesOK, clocks, prices
<1>3. ProcessOK'
  BY DEF PinInv, TypeOK, ProcessOK, admin, life, Times, Active
<1>4. proc = "up"
  BY ActiveServes DEF Active
<1>5. PhasesHold'
  BY <1>1 DEF PinInv, PhasesHold, TypeOK, ProcessOK
<1>6. StartsQuiet' /\ RecoveryAccepts'
  BY <1>4 DEF StartsQuiet, RecoveryAccepts, life
<1> QED BY <1>1, <1>2, <1>3, <1>5, <1>6, Parts

\* The reservation fails, on disk or not.
LEMMA ReserveFailsInv ==
  ASSUME PinInv, NEW a \in Attempts, NEW d \in BOOLEAN, ReserveFails(a, d)
  PROVE  PinInv'
<1> USE DEF ReserveFails
<1>1. /\ PinsOK' /\ Stores'
      /\ \A b \in Attempts : b # a => LeaseSeqs(b)' = LeaseSeqs(b)
  <2>1. CASE d
    BY <2>1, LeaseAppended
  <2>2. CASE ~d
    <3>1. PinsOK' /\ PinsStand' /\ LeasesCopied' /\ PreparedInState'
      BY <2>2, LedgerKept DEF PinInv, TypeOK, PinsOK, PinRecord, LedgerRecord, PinsStand, LeasesCopied, PreparedInState, prices
    <3>2. PinsMatchLedger'
      BY <2>2, LedgerKept DEF PinInv, PinsMatchLedger, prices
    <3> QED BY <2>2, <3>1, <3>2, LedgerKept DEF Stores
  <2> QED BY <2>1, <2>2
<1>2. ClocksOK' /\ PricesOK'
  BY DEF PinInv, TypeOK, ClocksOK, PricesOK, clocks, prices
<1>3. ProcessOK'
  BY DEF PinInv, TypeOK, ProcessOK, admin, life, Times, Active
<1>4. proc = "up"
  BY ActiveServes DEF Active
<1>5. PhasesHold'
  BY <1>1 DEF PinInv, PhasesHold, TypeOK, ProcessOK
<1>6. StartsQuiet' /\ RecoveryAccepts'
  BY <1>4 DEF StartsQuiet, RecoveryAccepts, life
<1> QED BY <1>1, <1>2, <1>3, <1>5, <1>6, Parts

\* A pin is deleted after its reservation failed.
LEMMA DropPinInv ==
  ASSUME PinInv, NEW a \in Attempts, NEW d \in BOOLEAN, DropPin(a, d)
  PROVE  PinInv'
<1> USE DEF DropPin
<1>1. ClocksOK' /\ PricesOK'
  BY DEF PinInv, TypeOK, ClocksOK, PricesOK, clocks, prices
<1>2. ProcessOK'
  BY DEF PinInv, TypeOK, ProcessOK, admin, life, Times, Active
<1>3. proc = "up"
  BY ActiveServes DEF Active
<1>4. \A b \in Attempts : b # a => pins'[b] = pins[b]
  BY DEF PinInv, TypeOK, PinsOK
<1>5. /\ pins'[a] = NoPin \/ pins'[a] = pins[a]
      /\ pins[a].state # "committed" /\ (LeaseSeqs(a) = {} \/ a \in refused)
  BY DEF PinInv, TypeOK, PinsOK, PhasesHold
<1>6. NoPin.state = "none" /\ NoPin.version = NoVersion /\ NoPin.seq = 0
  BY DEF NoPin
<1>7. PinsOK'
  <2>1. NoPin \in PinRecord
    BY NoPinOK DEF PinInv, TypeOK
  <2> QED BY <1>6, <2>1 DEF PinInv, TypeOK, PinsOK, PinRecord, LedgerRecord
<1>8. PhasesHold'
  BY <1>4, LedgerKept DEF PinInv, PhasesHold, TypeOK, ProcessOK
<1>9. StartsQuiet' /\ RecoveryAccepts'
  BY <1>3 DEF StartsQuiet, RecoveryAccepts, life
<1>10. Stores'
  <2>1. PinsStand'
    BY <1>4, <1>5 DEF PinInv, PinsStand, prices
  <2>2. LeasesCopied'
    BY <1>4, <1>5, LedgerKept DEF PinInv, LeasesCopied
  <2>3. PreparedInState'
    BY <1>4, <1>5, <1>6, LedgerKept DEF PinInv, PreparedInState
  <2>4. PinsMatchLedger'
    <3>1. \A i \in 1 .. Len(ledger) : ledger[i].kind = "lease" /\ ledger[i].attempt \notin refused
                                       => ledger[i].attempt # a
      BY <1>5, LeasesInside DEF PinInv, TypeOK
    <3>2. \A i \in 1 .. Len(ledger) : ledger[i].attempt \in Attempts
      BY LedgerTyped DEF PinInv, TypeOK
    <3> QED BY <1>4, <1>5, <1>6, <3>1, <3>2, LedgerKept DEF PinInv, PinsMatchLedger, prices
  <2> QED BY <2>1, <2>2, <2>3, <2>4 DEF Stores
<1> QED BY <1>1, <1>2, <1>7, <1>8, <1>9, <1>10, Parts

\* The pin of a completed with the sequence n.
Completion(a, n) == [pins[a] EXCEPT !.state = "committed", !.seq = n]

\* Completing a pin with a lease of its own attempt gives the pin the two stores agree on.
LEMMA PinCompleted ==
  ASSUME PinInv, NEW a \in Attempts, NEW n \in LeaseSeqs(a), pins[a] # NoPin
  PROVE  /\ Completion(a, n) \in PinRecord
         /\ Completion(a, n).state = "committed" /\ Completion(a, n).seq = n /\ n # 0
         /\ Completion(a, n).version = pins[a].version /\ Completion(a, n).at = pins[a].at
         /\ LeaseSeqs(a) = {n}
<1>1. n \in 0 .. Len(ledger) /\ n # 0
  BY LeasesInside DEF PinInv, TypeOK
<1>2. pins[a] \in PinRecord
  BY DEF PinInv, TypeOK, PinsOK
<1>3. LeaseSeqs(a) = {n}
  BY DEF PinInv, LeasesCopied
<1>4. /\ Completion(a, n) \in PinRecord
      /\ Completion(a, n).state = "committed" /\ Completion(a, n).seq = n
      /\ Completion(a, n).version = pins[a].version /\ Completion(a, n).at = pins[a].at
  BY <1>1, <1>2 DEF PinRecord, Completion
<1> QED BY <1>1, <1>3, <1>4

\* Pins of which some are completed that way, each with its lease, and the others kept.
LEMMA CompletedStores ==
  ASSUME PinInv, pins' = [b \in Attempts |-> pins'[b]], UNCHANGED <<prices, ledger, refused>>,
         \A b \in Attempts :
           \/ pins'[b] = pins[b]
           \/ /\ pins[b] # NoPin
              /\ pins'[b] \in PinRecord /\ pins'[b].state = "committed" /\ pins'[b].seq # 0
              /\ pins'[b].version = pins[b].version /\ pins'[b].at = pins[b].at
              /\ LeaseSeqs(b) = {pins'[b].seq}
  PROVE  PinsOK' /\ Stores'
<1>1. PinsOK'
  <2>1. PinRecord' = PinRecord /\ LedgerRecord' = LedgerRecord
    BY DEF PinRecord, LedgerRecord
  <2>2. \A b \in Attempts : pins'[b] \in PinRecord /\ (pins'[b].state = "committed" <=> pins'[b].seq # 0)
    BY DEF PinInv, TypeOK, PinsOK
  <2> QED BY <2>1, <2>2 DEF PinInv, TypeOK, PinsOK
<1>2. PinsStand'
  BY DEF PinInv, PinsStand, prices
<1>3. LeasesCopied'
  BY LedgerKept DEF PinInv, LeasesCopied
<1>4. PreparedInState'
  BY LedgerKept DEF PinInv, PreparedInState
<1>5. PinsMatchLedger'
  <2>1. \A i \in 1 .. Len(ledger) : ledger[i].attempt \in Attempts
    BY LedgerTyped DEF PinInv, TypeOK
  <2>2. \A b \in Attempts : pins'[b].version = pins[b].version
    OBVIOUS
  <2>3. \A b \in Attempts : pins'[b].state = "committed" => LeaseSeqs(b)' = {pins'[b].seq}
    BY LedgerKept DEF PinInv, PinsMatchLedger
  <2> QED BY <2>1, <2>2, <2>3 DEF PinInv, PinsMatchLedger, prices
<1> QED BY <1>1, <1>2, <1>3, <1>4, <1>5 DEF Stores

\* CommitDeploymentPricePin of an attempt that holds its lease.
LEMMA CommitStores ==
  ASSUME PinInv, NEW a \in Attempts, phase[a] = "leased", pins[a] # NoPin, pins' = Committed(a),
         UNCHANGED <<prices, ledger, refused>>
  PROVE  PinsOK' /\ Stores' /\ pins'[a].state = "committed" /\ \A b \in Attempts : b # a => pins'[b] = pins[b]
<1>1. PICK n \in LeaseSeqs(a) : n = CHOOSE i \in LeaseSeqs(a) : TRUE
  BY DEF PinInv, PhasesHold
<1>2. pins \in [Attempts -> PinRecord] /\ pins' = [pins EXCEPT ![a].state = "committed", ![a].seq = n]
  BY <1>1 DEF Committed, PinInv, TypeOK, PinsOK
<1>3. DOMAIN pins' = Attempts /\ pins' = [b \in Attempts |-> pins'[b]] /\ \A b \in Attempts : b # a => pins'[b] = pins[b]
  BY <1>2
<1>4. pins'[a] = Completion(a, n)
  BY <1>2 DEF PinRecord, Completion
<1>5. /\ pins'[a] \in PinRecord /\ pins'[a].state = "committed" /\ pins'[a].seq # 0
      /\ pins'[a].version = pins[a].version /\ pins'[a].at = pins[a].at
      /\ LeaseSeqs(a) = {pins'[a].seq}
  BY <1>4, PinCompleted
<1>6. PinsOK' /\ Stores'
  BY <1>3, <1>5, CompletedStores
<1> QED BY <1>3, <1>5, <1>6

\* A pin is committed.
LEMMA CommitPinInv ==
  ASSUME PinInv, NEW a \in Attempts, CommitPin(a)
  PROVE  PinInv'
<1>1. /\ phase[a] = "leased" /\ phase' = [phase EXCEPT ![a] = "called"]
      /\ UNCHANGED <<clocks, prices, mark, ledger, anchor, captured, admin, life, refused>>
      /\ pins' = IF pins[a] = NoPin THEN pins ELSE Committed(a)
  BY DEF CommitPin
<1>2. /\ PinsOK' /\ Stores' /\ pins'[a].state # "prepared"
      /\ \A b \in Attempts : b # a => pins'[b] = pins[b]
  <2>1. CASE pins[a] = NoPin
    BY <1>1, <2>1, StoresKept DEF NoPin
  <2>2. CASE pins[a] # NoPin
    BY <1>1, <2>2, CommitStores
  <2> QED BY <2>1, <2>2
<1>3. ClocksOK' /\ PricesOK'
  BY <1>1 DEF PinInv, TypeOK, ClocksOK, PricesOK, clocks, prices
<1>4. ProcessOK'
  BY <1>1 DEF PinInv, TypeOK, ProcessOK, admin, life, Times, Active
<1>5. PhasesHold'
  BY <1>1, <1>2, LedgerKept DEF PinInv, PhasesHold, TypeOK, ProcessOK
<1>6. StartsQuiet' /\ RecoveryAccepts'
  BY <1>1, ActiveServes DEF StartsQuiet, RecoveryAccepts, life, Active
<1> QED BY <1>2, <1>3, <1>4, <1>5, <1>6, Parts

\* The commit of a pin fails.
LEMMA CommitPinFailsInv ==
  ASSUME PinInv, NEW a \in Attempts, NEW d \in BOOLEAN, CommitPinFails(a, d)
  PROVE  PinInv'
<1>1. /\ phase[a] = "leased" /\ phase' = [phase EXCEPT ![a] = "unpinned"] /\ pins[a] # NoPin
      /\ UNCHANGED <<clocks, prices, mark, ledger, anchor, captured, admin, life, refused>>
      /\ pins' = IF d THEN Committed(a) ELSE pins
  BY DEF CommitPinFails
<1>2. /\ PinsOK' /\ Stores' /\ \A b \in Attempts : b # a => pins'[b] = pins[b]
  <2>1. CASE d
    BY <1>1, <2>1, CommitStores
  <2>2. CASE ~d
    BY <1>1, <2>2, StoresKept
  <2> QED BY <2>1, <2>2
<1>3. ClocksOK' /\ PricesOK'
  BY <1>1 DEF PinInv, TypeOK, ClocksOK, PricesOK, clocks, prices
<1>4. ProcessOK'
  BY <1>1 DEF PinInv, TypeOK, ProcessOK, admin, life, Times, Active
<1>5. PhasesHold'
  BY <1>1, <1>2, LedgerKept DEF PinInv, PhasesHold, TypeOK, ProcessOK
<1>6. StartsQuiet' /\ RecoveryAccepts'
  BY <1>1, ActiveServes DEF StartsQuiet, RecoveryAccepts, life, Active
<1> QED BY <1>2, <1>3, <1>4, <1>5, <1>6, Parts

\* A settlement leaves the leases alone; it takes a lease out of the state only when its
\* pin is not waiting to be completed.
LEMMA SettlementAppended ==
  ASSUME PinInv, NEW a \in Attempts, NEW o \in {"completed", "recovered", "pin_commit_failed"},
         ledger' = Append(ledger, Settlement(a, o)), UNCHANGED <<prices, pins, refused>>,
         LeaseSeqs(a) # {}, o = "pin_commit_failed" \/ pins[a].state # "prepared"
  PROVE  PinsOK' /\ Stores' /\ \A b \in Attempts : LeaseSeqs(b)' = LeaseSeqs(b)
<1>1. PricesOK /\ PinsOK
  BY DEF PinInv, TypeOK
<1>2. Settlement(a, o) \in LedgerRecord
  BY <1>1, RecordTypes
<1>3. /\ ledger' \in Seq(LedgerRecord) /\ Len(ledger) \in Nat /\ Len(ledger') = Len(ledger) + 1
      /\ \A i \in 1 .. Len(ledger) : ledger'[i] = ledger[i]
      /\ ledger'[Len(ledger) + 1] = Settlement(a, o)
  BY <1>1, <1>2, LedgerGrows
<1>4. Settlement(a, o).kind = "settled" /\ Settlement(a, o).attempt = a /\ Settlement(a, o).outcome = o
  BY DEF Settlement
<1>5. \A b \in Attempts : LeaseSeqs(b)' = LeaseSeqs(b)
  BY <1>1, <1>2, <1>4, LedgerGrows
<1>6. \A b \in Attempts : InState(b) /\ (b # a \/ o = "pin_commit_failed") => InState(b)'
  BY <1>1, <1>2, <1>4, LedgerGrows
<1>7. PinsOK'
  <2>1. 0 .. Len(ledger) \subseteq 0 .. Len(ledger')
    BY <1>3
  <2>2. PinRecord \subseteq PinRecord' /\ LedgerRecord' = LedgerRecord
    BY <2>1 DEF PinRecord, LedgerRecord
  <2>3. pins \in [Attempts -> PinRecord']
    BY <1>1, <2>2 DEF PinsOK
  <2>4. pins' \in [Attempts -> PinRecord'] /\ ledger' \in Seq(LedgerRecord')
    BY <1>3, <2>2, <2>3
  <2>5. \A b \in Attempts : pins'[b].state = "committed" <=> pins'[b].seq # 0
    BY <1>1 DEF PinsOK
  <2> QED BY <2>4, <2>5 DEF PinsOK
<1>8. PinsStand'
  BY DEF PinInv, PinsStand, prices
<1>9. LeasesCopied'
  <2>1. \A b \in Attempts : \A i \in LeaseSeqs(b) : ledger'[i] = ledger[i]
    BY <1>1, <1>3, LeasesInside
  <2>2. \A b \in Attempts :
          /\ \A i, j \in LeaseSeqs(b)' : i = j
          /\ pins'[b] # NoPin => \A i \in LeaseSeqs(b)' : /\ ledger'[i].version = pins'[b].version
                                                          /\ ledger'[i].at = pins'[b].at
    <3> TAKE b \in Attempts
    <3>1. LeaseSeqs(b)' = LeaseSeqs(b) /\ \A i \in LeaseSeqs(b) : ledger'[i] = ledger[i]
      BY <1>5, <2>1
    <3>2. /\ \A i, j \in LeaseSeqs(b) : i = j
          /\ pins[b] # NoPin => \A i \in LeaseSeqs(b) : /\ ledger[i].version = pins[b].version
                                                        /\ ledger[i].at = pins[b].at
      BY DEF PinInv, LeasesCopied
    <3> QED BY <3>1, <3>2
  <2> QED BY <2>2 DEF LeasesCopied
<1>10. PreparedInState'
  BY <1>5, <1>6 DEF PinInv, PreparedInState
<1>11. PinsMatchLedger'
  <2>1. \A i \in 1 .. Len(ledger') : i \in 1 .. Len(ledger) \/ i = Len(ledger) + 1
    BY <1>3
  <2>2. ASSUME NEW i \in 1 .. Len(ledger'),
               ledger'[i].kind = "lease", ledger'[i].version # NoVersion, ledger'[i].attempt \notin refused'
        PROVE  /\ pins'[ledger'[i].attempt].version = ledger'[i].version
               /\ ledger'[i].version \notin cancelled'
    BY <1>3, <1>4, <2>1, <2>2 DEF PinInv, PinsMatchLedger, prices
  <2>3. \A b \in Attempts : pins'[b].state = "committed" => LeaseSeqs(b)' = {pins'[b].seq}
    BY <1>5 DEF PinInv, PinsMatchLedger
  <2> QED BY <2>2, <2>3 DEF PinsMatchLedger
<1> QED BY <1>5, <1>7, <1>8, <1>9, <1>10, <1>11 DEF Stores

\* An attempt settles.
LEMMA SettleInv ==
  ASSUME PinInv, NEW a \in Attempts, NEW w \in BOOLEAN, Settle(a, w)
  PROVE  PinInv'
<1>1. /\ phase[a] \in {"called", "unpinned"} /\ phase' = [phase EXCEPT ![a] = "ended"]
      /\ UNCHANGED <<clocks, prices, mark, pins, anchor, captured, admin, life, refused>>
      /\ \/ ledger' = ledger
         \/ phase[a] = "called" /\ ledger' = Append(ledger, Settlement(a, "completed"))
         \/ ledger' = Append(ledger, Settlement(a, "pin_commit_failed"))
  BY DEF Settle
<1>2. LeaseSeqs(a) # {} /\ (phase[a] = "called" => pins[a].state # "prepared")
  BY <1>1 DEF PinInv, PhasesHold
<1>3. PinsOK' /\ Stores' /\ \A b \in Attempts : LeaseSeqs(b)' = LeaseSeqs(b)
  <2>1. CASE ledger' = ledger
    BY <1>1, <2>1, StoresKept, LedgerKept
  <2>2. CASE phase[a] = "called" /\ ledger' = Append(ledger, Settlement(a, "completed"))
    BY <1>1, <1>2, <2>2, SettlementAppended
  <2>3. CASE ledger' = Append(ledger, Settlement(a, "pin_commit_failed"))
    BY <1>1, <1>2, <2>3, SettlementAppended
  <2> QED BY <1>1, <2>1, <2>2, <2>3
<1>4. ClocksOK' /\ PricesOK'
  BY <1>1 DEF PinInv, TypeOK, ClocksOK, PricesOK, clocks, prices
<1>5. ProcessOK'
  BY <1>1 DEF PinInv, TypeOK, ProcessOK, admin, life, Times, Active
<1>6. PhasesHold'
  BY <1>1, <1>3 DEF PinInv, PhasesHold, TypeOK, ProcessOK
<1>7. StartsQuiet' /\ RecoveryAccepts'
  BY <1>1, ActiveServes DEF StartsQuiet, RecoveryAccepts, life, Active
<1> QED BY <1>3, <1>4, <1>5, <1>6, <1>7, Parts

-----------------------------------------------------------------------------
(* Crash and start *)

\* Recovery settles a lease.
LEMMA RecoverLeaseInv ==
  ASSUME PinInv, NEW a \in Attempts, RecoverLease(a)
  PROVE  PinInv'
<1> USE DEF RecoverLease
<1>1. LeaseSeqs(a) # {} /\ pins[a].state # "prepared"
  BY DEF Pending, PinInv, StartsQuiet
<1>2. PinsOK' /\ Stores' /\ \A b \in Attempts : LeaseSeqs(b)' = LeaseSeqs(b)
  BY <1>1, SettlementAppended
<1>3. ClocksOK' /\ PricesOK'
  BY DEF PinInv, TypeOK, ClocksOK, PricesOK, clocks, prices
<1>4. ProcessOK'
  BY DEF PinInv, TypeOK, ProcessOK, admin, life, Times
<1>5. PhasesHold'
  BY <1>2 DEF PinInv, PhasesHold
<1>6. StartsQuiet' /\ RecoveryAccepts'
  BY DEF PinInv, StartsQuiet, RecoveryAccepts, life
<1> QED BY <1>2, <1>3, <1>4, <1>5, <1>6, Parts

\* A pin that waits to be completed finds its lease, whichever snapshot the start resumed
\* from, and a completed one finds its own or lies before the snapshot.
LEMMA NoContradiction ==
  ASSUME PinInv, NEW a \in Attempts, NEW n \in 0 .. Len(ledger)
  PROVE  /\ pins[a].state = "prepared" => LeasesFound(a, n) = LeaseSeqs(a)
         /\ ~Contradicts(a, n)
<1>1. pins[a].state = "prepared" => LeasesFound(a, n) = LeaseSeqs(a)
  BY DEF PinInv, PreparedInState, LeasesFound
<1>2. LeasesFound(a, n) \subseteq LeaseSeqs(a)
  BY DEF LeasesFound
<1>3. ASSUME pins[a] # NoPin, NEW i \in LeasesFound(a, n)
      PROVE  /\ ledger[i].version = pins[a].version /\ ledger[i].at = pins[a].at
             /\ pins[a].state = "committed" => pins[a].seq = i
  BY <1>2, <1>3 DEF PinInv, LeasesCopied, PinsMatchLedger
<1>4. ASSUME pins[a] # NoPin, pins[a].state = "committed", pins[a].seq > n
      PROVE  pins[a].seq \in LeasesFound(a, n)
  <2>1. pins[a].seq \in LeaseSeqs(a)
    BY <1>4 DEF PinInv, PinsMatchLedger
  <2>2. ledger[pins[a].seq].version = pins[a].version
    BY <1>4, <2>1 DEF PinInv, LeasesCopied
  <2>3. pins[a].version # NoVersion
    BY <1>4, Constants DEF PinInv, PinsStand, TypeOK, PricesOK, NoVersion
  <2> QED BY <1>4, <2>1, <2>2, <2>3 DEF LeasesFound
<1>5. ~Contradicts(a, n)
  BY <1>3, <1>4 DEF Contradicts
<1> QED BY <1>1, <1>5

\* Recovery resolves the pins against the leases.
LEMMA RecoverPinsInv ==
  ASSUME PinInv, NEW n \in 0 .. Len(ledger), RecoverPins(n)
  PROVE  PinInv'
<1>1. /\ proc = "pins" /\ proc' = "leases" /\ pins' = [a \in Attempts |-> Resolved(a, n)]
      /\ UNCHANGED <<clocks, prices, mark, ledger, anchor, phase, captured, admin, crashes, refused>>
  BY NoContradiction DEF RecoverPins
<1>2. ASSUME NEW a \in Attempts
      PROVE  \/ /\ pins'[a] = pins[a] /\ pins[a].state # "prepared"
             \/ /\ pins'[a] = NoPin /\ pins[a].state = "prepared" /\ LeaseSeqs(a) = {}
             \/ /\ pins[a] # NoPin /\ pins[a].state = "prepared"
                /\ pins'[a] \in PinRecord /\ pins'[a].state = "committed" /\ pins'[a].seq # 0
                /\ pins'[a].version = pins[a].version /\ pins'[a].at = pins[a].at
                /\ LeaseSeqs(a) = {pins'[a].seq}
  <2>1. CASE pins[a].state # "prepared"
    BY <1>1, <2>1 DEF Resolved
  <2>2. CASE pins[a].state = "prepared" /\ LeaseSeqs(a) = {}
    BY <1>1, <2>2, NoContradiction DEF Resolved
  <2>3. CASE pins[a].state = "prepared" /\ LeaseSeqs(a) # {}
    <3>1. PICK m \in LeaseSeqs(a) : m = CHOOSE i \in LeaseSeqs(a) : TRUE
      BY <2>3
    <3>2. pins'[a] = Completion(a, m)
      BY <1>1, <2>3, <3>1, NoContradiction DEF Resolved, Completion
    <3>3. pins[a] # NoPin
      BY <2>3 DEF NoPin
    <3> QED BY <2>3, <3>2, <3>3, PinCompleted
  <2> QED BY <2>1, <2>2, <2>3
<1>3. ClocksOK' /\ PricesOK'
  BY <1>1 DEF PinInv, TypeOK, ClocksOK, PricesOK, clocks, prices
<1>4. ProcessOK'
  BY <1>1 DEF PinInv, TypeOK, ProcessOK, admin, Times
<1>5. NoPin.state = "none" /\ NoPin.seq = 0 /\ NoPin.version = NoVersion
  BY DEF NoPin
<1>6. PinsOK'
  <2>1. PinRecord' = PinRecord /\ LedgerRecord' = LedgerRecord /\ NoPin \in PinRecord
    BY <1>1, NoPinOK DEF PinRecord, LedgerRecord, PinInv, TypeOK
  <2>2. \A a \in Attempts : pins'[a] \in PinRecord /\ (pins'[a].state = "committed" <=> pins'[a].seq # 0)
    BY <1>2, <1>5, <2>1 DEF PinInv, TypeOK, PinsOK
  <2>3. pins' \in [Attempts -> PinRecord]
    BY <1>1, <2>2
  <2> QED BY <1>1, <2>1, <2>2, <2>3 DEF PinInv, TypeOK, PinsOK
<1>7. PhasesHold'
  <2>1. \A a \in Attempts : phase[a] \notin Active
    BY <1>1 DEF PinInv, StartsQuiet
  <2>2. \A a \in Attempts : pins[a] = NoPin => pins'[a] = NoPin
    BY <1>2, <1>5
  <2> QED BY <1>1, <2>1, <2>2, LedgerKept DEF PinInv, PhasesHold, Active
<1>8. StartsQuiet' /\ RecoveryAccepts'
  BY <1>1, <1>2, <1>5 DEF PinInv, StartsQuiet, RecoveryAccepts
<1>9. Stores'
  <2>1. PinsStand'
    BY <1>1, <1>2 DEF PinInv, PinsStand, prices
  <2>2. LeasesCopied'
    BY <1>1, <1>2, LedgerKept DEF PinInv, LeasesCopied
  <2>3. PreparedInState'
    BY <1>1, <1>2, <1>5, LedgerKept DEF PinInv, PreparedInState
  <2>4. PinsMatchLedger'
    <3>1. \A i \in 1 .. Len(ledger) :
            ledger[i].kind = "lease" => ledger[i].attempt \in Attempts /\ LeaseSeqs(ledger[i].attempt) # {}
      BY LedgerTyped, LeasesInside DEF PinInv, TypeOK
    <3>2. \A a \in Attempts : LeaseSeqs(a) # {} => pins'[a].version = pins[a].version
      BY <1>2
    <3>3. \A a \in Attempts : pins'[a].state = "committed" => LeaseSeqs(a) = {pins'[a].seq}
      BY <1>2, <1>5 DEF PinInv, PinsMatchLedger
    <3> QED BY <1>1, <3>1, <3>2, <3>3, LedgerKept DEF PinInv, PinsMatchLedger, prices
  <2> QED BY <2>1, <2>2, <2>3, <2>4 DEF Stores
<1> QED BY <1>3, <1>4, <1>6, <1>7, <1>8, <1>9, Parts

\* Memory is gone, and with it every attempt in flight; the stores keep what they hold.
LEMMA CrashInv ==
  ASSUME PinInv, Crash
  PROVE  PinInv'
<1> USE DEF Crash
<1>1. ClocksOK' /\ PricesOK'
  BY DEF PinInv, TypeOK, ClocksOK, PricesOK, NoAnchor, clocks, prices
<1>2. ProcessOK'
  BY DEF PinInv, TypeOK, ProcessOK, Times, Active
<1>3. PinsOK' /\ Stores'
  BY StoresKept
<1>4. PhasesHold'
  BY LedgerKept DEF PinInv, PhasesHold, Active
<1>5. StartsQuiet' /\ RecoveryAccepts'
  BY DEF PinInv, StartsQuiet, RecoveryAccepts, Active
<1> QED BY <1>1, <1>2, <1>3, <1>4, <1>5, Parts

\* A start opens the stores, and serves once no lease is pending.
LEMMA StartInv ==
  ASSUME PinInv, Start \/ Serve
  PROVE  PinInv'
<1>1. /\ UNCHANGED <<clocks, prices, mark, pins, ledger, anchor, phase, captured, admin, crashes, refused>>
      /\ proc # "up" /\ proc' \in {"pins", "up"}
  BY DEF Start, Serve
<1>2. ClocksOK' /\ PricesOK'
  BY <1>1 DEF PinInv, TypeOK, ClocksOK, PricesOK, clocks, prices
<1>3. ProcessOK'
  BY <1>1 DEF PinInv, TypeOK, ProcessOK, admin, Times, Active
<1>4. PinsOK' /\ Stores'
  BY <1>1, StoresKept
<1>5. PhasesHold'
  BY <1>1, LedgerKept DEF PinInv, PhasesHold
<1>6. StartsQuiet' /\ RecoveryAccepts'
  BY <1>1 DEF PinInv, StartsQuiet, RecoveryAccepts
<1> QED BY <1>2, <1>3, <1>4, <1>5, <1>6, Parts

-----------------------------------------------------------------------------
(* The clocks and the operator *)

\* A step that moves no attempt and writes neither store keeps what relates them.
LEMMA Aside ==
  ASSUME PinInv, UNCHANGED <<prices, pins, ledger, phase, refused, proc>>
  PROVE  PinsOK' /\ Stores' /\ PhasesHold' /\ StartsQuiet' /\ RecoveryAccepts'
<1>1. PinsOK' /\ Stores'
  BY StoresKept
<1>2. PhasesHold'
  BY LedgerKept DEF PinInv, PhasesHold
<1>3. StartsQuiet' /\ RecoveryAccepts'
  BY DEF PinInv, StartsQuiet, RecoveryAccepts
<1> QED BY <1>1, <1>2, <1>3

\* Time passes, or the clock jumps.
LEMMA TimeInv ==
  ASSUME PinInv, Tick \/ \E t \in 0 .. MaxTime : Jump(t)
  PROVE  PinInv'
<1>1. /\ UNCHANGED <<prices, mark, pins, ledger, anchor, phase, captured, admin, life, refused>>
      /\ wall' \in Times /\ elapsed' \in Times /\ jumps' \in Nat
  BY Constants DEF Tick, Jump, PinInv, TypeOK, ClocksOK, Times
<1>2. ClocksOK' /\ PricesOK'
  BY <1>1 DEF PinInv, TypeOK, ClocksOK, PricesOK, prices, Times
<1>3. ProcessOK'
  BY <1>1 DEF PinInv, TypeOK, ProcessOK, admin, life, Times
<1>4. PinsOK' /\ Stores' /\ PhasesHold' /\ StartsQuiet' /\ RecoveryAccepts'
  BY <1>1, Aside DEF life
<1> QED BY <1>2, <1>3, <1>4, Parts

\* The admin handlers.
LEMMA HandlerInv ==
  ASSUME PinInv, ReadNow \/ Forget \/ ReviewClock
  PROVE  PinInv'
<1>1. /\ UNCHANGED <<clocks, prices, mark, pins, ledger, anchor, phase, captured, confirms, life, refused>>
      /\ now' \in Times \cup {-1}
      /\ review' = review \/ review' = [version |-> Select(wall), at |-> wall]
  BY DEF ReadNow, Forget, ReviewClock, PinInv, TypeOK, ClocksOK, ProcessOK, Times
<1>2. ClocksOK' /\ PricesOK'
  BY <1>1 DEF PinInv, TypeOK, ClocksOK, PricesOK, clocks, prices
<1>3. ProcessOK'
  <2>1. wall \in Times /\ wall \in Int
    BY DEF PinInv, TypeOK, ClocksOK, Times
  <2>2. Select(wall) \in Versions \cup {NoVersion}
    BY <2>1, SelectLatest DEF PinInv, TypeOK
  <2> QED BY <1>1, <2>1, <2>2 DEF PinInv, TypeOK, ProcessOK, life, Times
<1>4. PinsOK' /\ Stores' /\ PhasesHold' /\ StartsQuiet' /\ RecoveryAccepts'
  BY <1>1, Aside DEF life
<1> QED BY <1>2, <1>3, <1>4, Parts

\* A created version is new to the timeline, and a cancelled one is on no pin.
LEMMA VersionInv ==
  ASSUME PinInv, NEW v \in Versions, CreateVersion(v) \/ CancelVersion(v)
  PROVE  PinInv'
<1>1. /\ UNCHANGED <<clocks, mark, pins, ledger, anchor, phase, captured, review, confirms, life, refused>>
      /\ now' = -1
      /\ timeline \subseteq timeline' /\ timeline' \subseteq Versions /\ cancelled' \subseteq timeline'
      /\ \A w \in cancelled' : w \in cancelled \/ Unpinned(w)
      /\ \A w \in cancelled' : w \in Versions
  BY DEF CreateVersion, CancelVersion, PinInv, TypeOK, PricesOK
<1>2. ClocksOK' /\ PricesOK'
  BY <1>1 DEF PinInv, TypeOK, ClocksOK, PricesOK, clocks
<1>3. ProcessOK'
  BY <1>1 DEF PinInv, TypeOK, ProcessOK, life, Times
<1>4. PinsOK'
  BY <1>1 DEF PinInv, TypeOK, PinsOK, PinRecord, LedgerRecord
<1>5. PinsStand'
  BY <1>1 DEF PinInv, PinsStand, Unpinned
<1>6. LeasesCopied' /\ PreparedInState' /\ PhasesHold'
  BY <1>1, LedgerKept DEF PinInv, LeasesCopied, PreparedInState, PhasesHold
<1>7. StartsQuiet' /\ RecoveryAccepts'
  BY <1>1 DEF PinInv, StartsQuiet, RecoveryAccepts, life
<1>8. PinsMatchLedger'
  <2>1. \A i \in 1 .. Len(ledger) : ledger[i].attempt \in Attempts
    BY LedgerTyped DEF PinInv, TypeOK
  <2> QED BY <1>1, <2>1, LedgerKept DEF PinInv, PinsMatchLedger, Unpinned
<1> QED BY <1>2, <1>3, <1>4, <1>5, <1>6, <1>7, <1>8, Parts DEF Stores

\* The confirmed mark is the time of the confirmation and the version in effect then.
LEMMA ConfirmClockInv ==
  ASSUME PinInv, ConfirmClock
  PROVE  PinInv'
<1>1. PICK t \in Times : RecoverClock(t) /\ now' \in Times \cup {-1}
  BY DEF ConfirmClock, PinInv, TypeOK, ProcessOK, ClocksOK, Times
<1>2. t \in Int /\ review.version = Select(t) /\ Select(t) <= t /\ Select(t) \in Versions \cup {NoVersion}
  BY <1>1, SelectLatest DEF RecoverClock, PinInv, TypeOK, Times, NoVersion
<1>3. ClocksOK'
  BY <1>1 DEF RecoverClock, PinInv, TypeOK, ClocksOK, NoAnchor, clocks
<1>4. PricesOK'
  BY <1>1, <1>2 DEF RecoverClock, PinInv, TypeOK, PricesOK, prices, Reasons
<1>5. ProcessOK'
  <2>1. NoReview \in [version : Versions \cup {NoVersion}, at : Times]
    BY Constants DEF NoReview, Times
  <2> QED BY <1>1, <2>1 DEF RecoverClock, PinInv, TypeOK, ProcessOK, life, Times
<1>6. PinsOK' /\ Stores' /\ PhasesHold' /\ StartsQuiet' /\ RecoveryAccepts'
  BY <1>1, Aside DEF RecoverClock, life
<1> QED BY <1>3, <1>4, <1>5, <1>6, Parts

-----------------------------------------------------------------------------
(* The invariant of the two stores *)

\* The first start.
LEMMA InitPinInv == Init => PinInv
<1> SUFFICES ASSUME Init PROVE PinInv
  OBVIOUS
<1> USE DEF Init
<1>1. 1 \in Times /\ 0 \in Times /\ MaxTime \in Times /\ MaxTime \in Nat /\ 1 <= MaxTime /\ 1 \in Versions
  BY Constants DEF Times
<1>2. ClocksOK
  BY <1>1 DEF ClocksOK, NoAnchor
<1>3. PricesOK
  <2>1. \/ mark = [at |-> 0, version |-> 0, quarantine |-> "none"]
        \/ \E t \in {1, MaxTime} : mark = [at |-> t, version |-> 1, quarantine |-> "none"]
    BY DEF NoMark, NoVersion
  <2>2. mark \in [at : Times, version : Versions \cup {NoVersion}, quarantine : Reasons]
    BY <1>1, <2>1 DEF NoVersion, Reasons
  <2>3. mark.version <= mark.at
    BY <1>1, <2>1
  <2> QED BY <1>1, <2>2, <2>3 DEF PricesOK
<1>4. PinsOK
  <2>1. ledger \in Seq(LedgerRecord) /\ Len(ledger) = 0
    OBVIOUS
  <2>2. NoPin \in PinRecord /\ NoPin.state = "none" /\ NoPin.seq = 0
    BY <1>1, <2>1 DEF NoPin, PinRecord
  <2> QED BY <2>1, <2>2 DEF PinsOK
<1>5. ProcessOK
  BY <1>1 DEF ProcessOK, NoReview
<1>6. \A a \in Attempts : LeaseSeqs(a) = {} /\ InState(a)
  BY DEF LeaseSeqs, InState, SettledAs
<1>7. PinsStand /\ StartsQuiet /\ RecoveryAccepts
  BY DEF PinsStand, StartsQuiet, RecoveryAccepts
<1>8. PhasesHold /\ LeasesCopied /\ PreparedInState
  BY <1>6 DEF PhasesHold, LeasesCopied, PreparedInState
<1>9. PinsMatchLedger
  BY <1>6 DEF PinsMatchLedger, NoPin
<1> QED BY <1>2, <1>3, <1>4, <1>5, <1>7, <1>8, <1>9 DEF PinInv, TypeOK

\* Every step keeps the invariant.
LEMMA NextPinInv == PinInv /\ [Next]_vars => PinInv'
<1> SUFFICES ASSUME PinInv, [Next]_vars PROVE PinInv'
  OBVIOUS
<1>1. ASSUME NEW a \in Attempts, AttemptStep(a) PROVE PinInv'
  BY <1>1, CaptureInv, PrepareRefusedInv, PrepareQuarantinesInv, PrepareUnpricedInv, PrepareInv,
     MergeAnchorInv, RejectInv, ReserveInv, ReserveFailsInv, DropPinInv, CommitPinInv, CommitPinFailsInv,
     SettleInv, RecoverLeaseInv DEF AttemptStep
<1>2. CASE Tick \/ \E t \in 0 .. MaxTime : Jump(t)
  BY <1>2, TimeInv
<1>3. CASE ReadNow \/ Forget \/ ReviewClock
  BY <1>3, HandlerInv
<1>4. ASSUME NEW v \in Versions, CreateVersion(v) \/ CancelVersion(v) PROVE PinInv'
  BY <1>4, VersionInv
<1>5. CASE ConfirmClock
  BY <1>5, ConfirmClockInv
<1>6. CASE Crash
  BY <1>6, CrashInv
<1>7. CASE Start \/ Serve
  BY <1>7, StartInv
<1>8. ASSUME NEW n \in 0 .. Len(ledger), RecoverPins(n) PROVE PinInv'
  BY <1>8, RecoverPinsInv
<1>9. CASE UNCHANGED vars
  <2>1. PinsOK' /\ Stores' /\ PhasesHold' /\ StartsQuiet' /\ RecoveryAccepts'
    BY <1>9, Aside DEF vars, life
  <2>2. ClocksOK' /\ PricesOK' /\ ProcessOK'
    BY <1>9 DEF PinInv, TypeOK, ClocksOK, PricesOK, ProcessOK, vars, clocks, prices, admin, life
  <2> QED BY <2>1, <2>2, Parts
<1> QED BY <1>1, <1>2, <1>3, <1>4, <1>5, <1>6, <1>7, <1>8, <1>9 DEF Next

\* PinInv holds in every reachable state.
LEMMA PinsInvariant == Spec => []PinInv
BY InitPinInv, NextPinInv, PTL DEF Spec

\* Every state is well typed: what startAttempt, the operator and recovery store passes
\* PricePinIntent.Validate and DeploymentPricingHighWater.Validate.
THEOREM TypeCorrect == Spec => []TypeOK
<1>1. PinInv => TypeOK
  BY DEF PinInv
<1> QED BY <1>1, PinsInvariant, PTL

\* The pin store and the ledger agree on every price, through lost confirmations, crashes
\* and recovery.
THEOREM StoresAgree == Spec => []PinsMatchLedger
<1>1. PinInv => PinsMatchLedger
  BY DEF PinInv
<1> QED BY <1>1, PinsInvariant, PTL

\* RecoverDeploymentPricePins never refuses a start, whichever snapshot it resumed from.
THEOREM StartNeverRefused == Spec => []RecoveryAccepts
<1>1. PinInv => RecoveryAccepts
  BY DEF PinInv
<1> QED BY <1>1, PinsInvariant, PTL

-----------------------------------------------------------------------------
(* The price never goes back *)

\* A pin is prepared for some attempt.
Prepares == \E a \in Attempts : \E b \in BOOLEAN : Prepare(a, b)

\* No step but Prepare gives an attempt a pin or a pin a version.
LEMMA OnlyPreparePins ==
  ASSUME PinInv, [Next]_vars, ~Prepares
  PROVE  \A c \in Attempts : /\ pins'[c].version \in {pins[c].version, NoVersion}
                             /\ pins[c] = NoPin => pins'[c] = NoPin
<1>0. NoPin.version = NoVersion /\ NoPin.state = "none"
  BY DEF NoPin
<1>1. ASSUME NEW a \in Attempts, NEW d \in BOOLEAN, DropPin(a, d)
      PROVE  \A c \in Attempts : pins'[c] = pins[c] \/ pins'[c] = NoPin
  BY <1>1 DEF DropPin, PinInv, TypeOK, PinsOK
<1>2. ASSUME NEW a \in Attempts, pins[a] # NoPin, pins' = Committed(a)
      PROVE  \A c \in Attempts : pins'[c].version = pins[c].version /\ (c # a => pins'[c] = pins[c])
  BY <1>2 DEF Committed, PinInv, TypeOK, PinsOK, PinRecord
<1>3. ASSUME NEW a \in Attempts, CommitPin(a) \/ \E d \in BOOLEAN : CommitPinFails(a, d)
      PROVE  pins' = pins \/ (pins[a] # NoPin /\ pins' = Committed(a))
  BY <1>3 DEF CommitPin, CommitPinFails
<1>4. ASSUME NEW n \in 0 .. Len(ledger), RecoverPins(n), NEW c \in Attempts
      PROVE  pins'[c].version \in {pins[c].version, NoVersion} /\ (pins[c] = NoPin => pins'[c] = NoPin)
  <2>1. pins[c] \in PinRecord
    BY DEF PinInv, TypeOK, PinsOK
  <2>2. pins' = pins \/ pins'[c] = Resolved(c, n)
    BY <1>4 DEF RecoverPins
  <2>3. /\ Resolved(c, n).version \in {pins[c].version, NoVersion}
        /\ pins[c].state = "none" => Resolved(c, n) = pins[c]
    BY <1>0, <2>1 DEF Resolved, PinRecord
  <2> QED BY <1>0, <2>2, <2>3
<1>5. \/ pins' = pins
      \/ \E a \in Attempts : CommitPin(a) \/ \E d \in BOOLEAN : CommitPinFails(a, d) \/ DropPin(a, d)
      \/ \E n \in 0 .. Len(ledger) : RecoverPins(n)
  BY DEF Prepares, Next, vars, AttemptStep, Capture, PrepareRefused, PrepareQuarantines, PrepareUnpriced, MergeAnchor, Reject,
         Reserve, ReserveFails, Settle, RecoverLease, Tick, Jump, ReadNow, CreateVersion, CancelVersion, Forget,
         ReviewClock, ConfirmClock, RecoverClock, Crash, Start, Serve
<1> QED BY <1>0, <1>1, <1>2, <1>3, <1>4, <1>5

\* The mark moves forward with Prepare, and otherwise only when an operator confirms.
LEMMA NextMarkAhead == PinInv /\ MarkAhead /\ [Next]_vars => MarkAhead'
<1> SUFFICES ASSUME PinInv, MarkAhead, [Next]_vars PROVE MarkAhead'
  OBVIOUS
<1>0. /\ mark.at \in Nat /\ confirms \in Nat
      /\ \A c \in Attempts : pins[c].version \in Nat
  BY Constants DEF PinInv, TypeOK, PricesOK, PinsOK, PinRecord, ProcessOK, Times, NoVersion
<1>1. ASSUME NEW a \in Attempts, NEW b \in BOOLEAN, Prepare(a, b) PROVE MarkAhead'
  <2>1. /\ SelectedAt(a) \in Times /\ mark.at <= SelectedAt(a)
        /\ Select(SelectedAt(a)) \in Versions /\ Select(SelectedAt(a)) <= SelectedAt(a)
        /\ pins' = [pins EXCEPT ![a] = [state |-> "prepared", version |-> Select(SelectedAt(a)),
                                        at |-> SelectedAt(a), seq |-> 0]]
        /\ mark' = [mark EXCEPT !.at = SelectedAt(a),
                                !.version = IF Select(SelectedAt(a)) > @ THEN Select(SelectedAt(a)) ELSE @]
    BY <1>1, PinnedFacts DEF Prepare, PinInv, TypeOK
  <2>2. mark'.at = SelectedAt(a) /\ confirms' = confirms
    BY <1>1, <2>1 DEF Prepare, admin, PinInv, TypeOK, PricesOK
  <2>3. \A c \in Attempts : \/ c # a /\ pins'[c] = pins[c]
                            \/ c = a /\ pins'[c].version = Select(SelectedAt(a))
    BY <2>1 DEF PinInv, TypeOK, PinsOK
  <2>4. SelectedAt(a) \in Nat /\ Select(SelectedAt(a)) \in Nat
    BY <2>1, Constants DEF Times
  <2> QED BY <1>0, <2>1, <2>2, <2>3, <2>4 DEF MarkAhead
<1>2. CASE ConfirmClock
  BY <1>0, <1>2 DEF ConfirmClock, RecoverClock, MarkAhead
<1>3. CASE ~ConfirmClock /\ ~Prepares
  <2>1. \A c \in Attempts : pins'[c].version \in {pins[c].version, NoVersion}
    BY <1>3, OnlyPreparePins
  <2>2. mark'.at = mark.at /\ confirms' = confirms
    BY <1>3 DEF Prepares, Next, vars, AttemptStep, Capture, PrepareRefused, PrepareQuarantines, PrepareUnpriced, MergeAnchor,
         Reject, Reserve, ReserveFails, DropPin, CommitPin, CommitPinFails, Settle, RecoverLease, Tick, Jump, ReadNow,
         CreateVersion, CancelVersion, Forget, ReviewClock, Crash, Start, RecoverPins, Serve, admin, PinInv, TypeOK, PricesOK
  <2> QED BY <1>0, <2>1, <2>2 DEF MarkAhead, NoVersion
<1> QED BY <1>1, <1>2, <1>3 DEF Prepares

\* What Prepare selects is at or past every version another pin names.
LEMMA PrepareAdvances ==
  ASSUME PinInv, MarkAhead, [Next]_vars, NEW a \in Attempts, NEW b \in Attempts,
         pins[a] = NoPin, pins'[a] # NoPin, confirms = 0
  PROVE  pins[b].version <= pins'[a].version
<1>1. PICK c \in Attempts : \E d \in BOOLEAN : Prepare(c, d)
  BY OnlyPreparePins DEF Prepares
<1> DEFINE at == SelectedAt(c)
           v  == Select(at)
<1>2. /\ at \in Times /\ mark.at <= at /\ v \in Versions
      /\ pins' = [pins EXCEPT ![c] = [state |-> "prepared", version |-> v, at |-> at, seq |-> 0]]
  BY <1>1, PinnedFacts DEF Prepare, PinInv, TypeOK
<1>3. pins'[a].version = v
  BY <1>2 DEF PinInv, TypeOK, PinsOK
<1>4. /\ at \in Int /\ v \in Nat /\ mark.at \in Int /\ pins[b].version \in Nat /\ pins[b].version <= mark.at
  BY <1>2, Constants DEF MarkAhead, PinInv, TypeOK, PricesOK, PinsOK, PinRecord, Times, NoVersion
<1>5. CASE pins[b] = NoPin
  BY <1>3, <1>4, <1>5 DEF NoPin, NoVersion
<1>6. CASE pins[b] # NoPin
  <2>1. pins[b].version \in timeline \ cancelled
    BY <1>6 DEF PinInv, PinsStand
  <2>2. \A w \in timeline \ cancelled : w <= at => w <= v
    BY <1>4, SelectLatest DEF PinInv, TypeOK
  <2> HIDE DEF at, v
  <2>3. pins[b].version <= at
    BY <1>2, <1>4
  <2> QED BY <1>3, <2>1, <2>2, <2>3
<1> QED BY <1>5, <1>6

\* Until an operator confirms the clock, no attempt is pinned to an earlier price than one
\* already stored, whatever the clocks did and in whatever order selections committed.
THEOREM PricesAdvance == Spec => PriceNeverReverts
<1>1. Init => MarkAhead
  <2> SUFFICES ASSUME Init, NEW a \in Attempts PROVE pins[a].version <= mark.at
    BY DEF MarkAhead
  <2>1. pins[a].version = 0 /\ mark.at \in Nat
    BY InitPinInv DEF Init, NoPin, NoVersion, PinInv, TypeOK, PricesOK, Times
  <2> QED BY <2>1
<1>2. PinInv /\ MarkAhead /\ [Next]_vars =>
        [\A a, b \in Attempts :
           pins[a] = NoPin /\ pins'[a] # NoPin /\ confirms = 0 => pins[b].version <= pins'[a].version]_vars
  BY PrepareAdvances
<1> QED BY <1>1, <1>2, PinsInvariant, NextMarkAhead, PTL DEF Spec, PriceNeverReverts

-----------------------------------------------------------------------------
(* Waiting is no jump *)

\* Every pair of readings and both clocks are integers.
LEMMA ReadingsTyped ==
  ASSUME ClocksOK, PricesOK
  PROVE  /\ wall \in Nat /\ elapsed \in Nat /\ jumps \in Nat /\ mark.at \in Nat
         /\ anchor.selectedAt \in Int /\ anchor.observedAt \in Int
         /\ \A a \in Attempts : captured[a].selectedAt \in Int /\ captured[a].observedAt \in Int
         /\ NoAnchor.selectedAt = -1 /\ NoAnchor.observedAt = -1
BY Constants DEF ClocksOK, PricesOK, Times, NoAnchor

\* While the wall clock was never set, a transaction finds no drift; it takes the clock
\* for one that went back only without an anchor and after a wait beyond the tolerance.
LEMMA JudgedWithoutJump ==
  ASSUME PinInv, ClockInv, jumps = 0, NEW a \in Attempts, ForwardJump(a) \/ Rollback(a)
  PROVE  ~HasAnchor /\ elapsed - captured[a].observedAt > RollbackTolerance
<1>1. /\ wall = elapsed /\ mark.at <= wall /\ anchor.selectedAt = anchor.observedAt
      /\ captured[a].selectedAt = captured[a].observedAt
  BY DEF ClockInv
<1>2. /\ wall \in Nat /\ elapsed \in Nat /\ mark.at \in Nat /\ anchor.selectedAt \in Int
      /\ captured[a].selectedAt \in Int
      /\ RollbackTolerance \in Nat /\ ForwardTolerance \in Nat
  BY Constants, ReadingsTyped DEF PinInv, TypeOK
<1>3. Drift(a) = 0
  BY <1>1, <1>2 DEF Drift, ObservedAt
<1>4. ~HasAnchor /\ mark.at - captured[a].selectedAt > RollbackTolerance
  BY <1>2, <1>3 DEF ForwardJump, Rollback
<1> QED BY <1>1, <1>2, <1>4

\* A deployment is quarantined only by an attempt's transaction, after its judgement.
LEMMA QuarantineStep ==
  ASSUME [Next]_vars, mark.quarantine = "none", mark'.quarantine # "none", PinInv
  PROVE  \E a \in Attempts : PrepareQuarantines(a)
<1>1. ASSUME NEW a \in Attempts, NEW b \in BOOLEAN, Prepare(a, b) PROVE FALSE
  BY <1>1 DEF Prepare, Pinned, PinInv, TypeOK, PricesOK
<1>2. CASE ConfirmClock
  BY <1>2 DEF ConfirmClock, RecoverClock
<1>3. CASE UNCHANGED mark
  BY <1>3
<1> QED BY <1>1, <1>2, <1>3
  DEF Next, AttemptStep, vars, Capture, PrepareRefused, PrepareUnpriced, MergeAnchor, Reject, Reserve,
      ReserveFails, DropPin, CommitPin, CommitPinFails, Settle, RecoverLease, Tick, Jump, ReadNow,
      CreateVersion, CancelVersion, Forget, ReviewClock, Crash, Start, RecoverPins, Serve

\* Every step keeps what the judgement of the clock rests on.
LEMMA NextClockInv == PinInv /\ ClockInv /\ [Next]_vars => ClockInv'
<1> SUFFICES ASSUME PinInv, ClockInv, [Next]_vars PROVE ClockInv'
  OBVIOUS
<1>0. /\ wall \in Nat /\ elapsed \in Nat /\ jumps \in Nat /\ mark.at \in Nat /\ now \in Int
      /\ anchor.selectedAt \in Int /\ anchor.observedAt \in Int
      /\ \A a \in Attempts : captured[a].selectedAt \in Int /\ captured[a].observedAt \in Int
      /\ NoAnchor.selectedAt = -1 /\ NoAnchor.observedAt = -1
      /\ DOMAIN captured = Attempts /\ DOMAIN phase = Attempts
  BY Constants, ReadingsTyped DEF PinInv, TypeOK, ClocksOK, ProcessOK, Times
\* A step that leaves the clocks alone, and everything else as it was, empty or as it
\* was read.
<1>1. ASSUME UNCHANGED clocks, now' \in {now, -1, wall},
             mark' = mark \/ mark'.at \in {now, wall},
             anchor' = anchor \/ anchor' = NoAnchor
               \/ \E a \in Attempts : /\ anchor'.selectedAt = captured[a].selectedAt
                                     /\ anchor'.observedAt = captured[a].observedAt,
             \A a \in Attempts : captured'[a] \in {captured[a], NoAnchor}
      PROVE  ClockInv'
  <2>1. jumps = 0 => /\ anchor'.selectedAt = anchor'.observedAt
                     /\ \A a \in Attempts : /\ captured'[a].selectedAt = captured'[a].observedAt
                                            /\ captured'[a].selectedAt <= wall
    BY <1>0, <1>1 DEF ClockInv
  <2>2. jumps = 0 => mark'.at <= wall /\ now' <= wall
    BY <1>0, <1>1 DEF ClockInv
  <2> QED BY <1>1, <2>1, <2>2 DEF ClockInv, clocks
<1>2. CASE Tick
  <2>1. /\ UNCHANGED <<jumps, mark, anchor, captured, now>>
        /\ wall' = wall + 1 /\ elapsed' = elapsed + 1
    BY <1>2 DEF Tick, admin
  <2> QED BY <1>0, <2>1 DEF ClockInv
<1>3. ASSUME NEW t \in 0 .. MaxTime, Jump(t) PROVE ClockInv'
  <2>1. jumps' = jumps + 1
    BY <1>3 DEF Jump
  <2> QED BY <1>0, <2>1 DEF ClockInv
<1>4. ASSUME NEW a \in Attempts, Capture(a) PROVE ClockInv'
  <2>1. /\ UNCHANGED <<wall, elapsed, jumps, mark, anchor, now>>
        /\ captured'[a].selectedAt = wall /\ captured'[a].observedAt = elapsed
        /\ \A b \in Attempts : b # a => captured'[b] = captured[b]
    BY <1>0, <1>4 DEF Capture, clocks, admin
  <2> QED BY <1>0, <2>1 DEF ClockInv
<1>5. ASSUME NEW a \in Attempts, PrepareQuarantines(a) PROVE ClockInv'
  <2>1. UNCHANGED <<clocks, anchor, now>> /\ mark'.at = mark.at
    BY <1>5 DEF PrepareQuarantines, admin, PinInv, TypeOK, PricesOK
  <2>2. \A b \in Attempts : captured'[b] \in {captured[b], NoAnchor}
    BY <1>0, <1>5 DEF PrepareQuarantines, Uncaptured
  <2> QED BY <1>0, <2>1, <2>2 DEF ClockInv, clocks
<1>6. ASSUME NEW a \in Attempts, NEW b \in BOOLEAN, Prepare(a, b) PROVE ClockInv'
  <2>1. UNCHANGED <<clocks, anchor, now>> /\ mark'.at = SelectedAt(a)
    BY <1>6 DEF Prepare, Pinned, admin, PinInv, TypeOK, PricesOK
  <2>2. SelectedAt(a) \in {mark.at, captured[a].selectedAt}
    BY DEF SelectedAt
  <2>3. \A c \in Attempts : captured'[c] \in {captured[c], NoAnchor}
    BY <1>0, <1>6 DEF Prepare, Uncaptured
  <2> QED BY <1>0, <2>1, <2>2, <2>3 DEF ClockInv, clocks
<1>7. CASE ConfirmClock
  <2>1. /\ UNCHANGED <<clocks, captured>> /\ mark'.at \in {now, wall} /\ now' \in {now, -1}
        /\ anchor' = NoAnchor
    BY <1>7 DEF ConfirmClock, RecoverClock
  <2> QED BY <1>1, <2>1
<1>8. ASSUME NEW a \in Attempts, MergeAnchor(a) PROVE ClockInv'
  BY <1>0, <1>1, <1>8 DEF MergeAnchor, ObservedAt, Uncaptured, admin
<1>9. CASE Crash
  BY <1>0, <1>1, <1>9 DEF Crash
<1>10. ASSUME NEW a \in Attempts,
              PrepareRefused(a) \/ \E b \in BOOLEAN : PrepareUnpriced(a, b)
       PROVE  ClockInv'
  BY <1>0, <1>1, <1>10 DEF PrepareRefused, PrepareUnpriced, Uncaptured, admin
<1>11. ASSUME UNCHANGED <<clocks, mark, anchor, captured>>, now' \in {now, -1, wall} PROVE ClockInv'
  BY <1>1, <1>11
<1>12. ASSUME NEW a \in Attempts,
              Reject(a) \/ Reserve(a) \/ CommitPin(a) \/ RecoverLease(a)
                \/ \E b \in BOOLEAN : ReserveFails(a, b) \/ DropPin(a, b) \/ CommitPinFails(a, b) \/ Settle(a, b)
       PROVE  ClockInv'
  BY <1>11, <1>12
  DEF Reject, Reserve, CommitPin, ReserveFails, DropPin, CommitPinFails, Settle, RecoverLease, admin
<1>13. CASE \/ ReadNow \/ Forget \/ ReviewClock \/ Start \/ Serve \/ UNCHANGED vars
            \/ \E v \in Versions : CreateVersion(v) \/ CancelVersion(v)
            \/ \E n \in 0 .. Len(ledger) : RecoverPins(n)
  BY <1>11, <1>13
  DEF ReadNow, Forget, ReviewClock, Start, Serve, vars, admin, CreateVersion, CancelVersion, RecoverPins
<1> QED BY <1>2, <1>3, <1>4, <1>5, <1>6, <1>7, <1>8, <1>9, <1>10, <1>12, <1>13 DEF Next, AttemptStep

\* A deployment whose wall clock was never set is quarantined only by a selection that
\* found no anchor and waited longer than the rollback tolerance: once an anchor is
\* there, neither a wait of any length nor the order of commits is taken for a jump
\* (PrepareDeploymentPricePin compares readings taken at one instant).
THEOREM WaitIsNotAJump == Spec => WaitIsNoJump
<1>1. Init => ClockInv
  <2> SUFFICES ASSUME Init PROVE ClockInv
    OBVIOUS
  <2>1. ClocksOK /\ PricesOK
    BY InitPinInv DEF PinInv, TypeOK
  <2>2. mark.at \in Nat /\ NoAnchor.selectedAt = -1 /\ NoAnchor.observedAt = -1
    BY <2>1, ReadingsTyped
  <2> QED BY <2>2 DEF Init, ClockInv
<1>2. PinInv /\ ClockInv /\ [Next]_vars =>
        [mark.quarantine = "none" /\ mark'.quarantine # "none" /\ jumps = 0
           => /\ ~HasAnchor
              /\ \E a \in Attempts : /\ phase[a] = "captured" /\ phase'[a] = "ended"
                                     /\ elapsed - captured[a].observedAt > RollbackTolerance]_vars
  <2> SUFFICES ASSUME PinInv, ClockInv, [Next]_vars,
                      mark.quarantine = "none", mark'.quarantine # "none", jumps = 0
               PROVE  /\ ~HasAnchor
                      /\ \E a \in Attempts : /\ phase[a] = "captured" /\ phase'[a] = "ended"
                                             /\ elapsed - captured[a].observedAt > RollbackTolerance
    OBVIOUS
  <2>1. PICK a \in Attempts : PrepareQuarantines(a)
    BY QuarantineStep
  <2>2. phase[a] = "captured" /\ phase'[a] = "ended" /\ (ForwardJump(a) \/ Rollback(a))
    BY <2>1 DEF PrepareQuarantines, PinInv, TypeOK, ProcessOK
  <2> QED BY <2>2, JudgedWithoutJump
<1> QED BY <1>1, <1>2, PinsInvariant, NextClockInv, PTL DEF Spec, WaitIsNoJump
=============================================================================
