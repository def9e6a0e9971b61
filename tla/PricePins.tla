----------------------------- MODULE PricePins -----------------------------
(***************************************************************************)
(* Price selection and the price pin of an attempt, for one deployment:    *)
(* internal/store/bolt/store_pricing.go and pricing_clock_recovery.go, the *)
(* pricing part of startAttempt in internal/gateway/service.go, the price  *)
(* operations of internal/app/admin_prices.go, and what a start does with  *)
(* the pins a crash left (RecoverDeploymentPricePins).                     *)
(*                                                                         *)
(* An attempt reads the wall clock and the monotonic clock together,       *)
(* selects the price version in effect and writes a prepared pin, appends  *)
(* its lease to the ledger, and commits the pin with the lease's sequence. *)
(* The pins and the ledger are two stores, and neither write undoes the    *)
(* other.  A price version is named by the time it takes effect, which is  *)
(* unique on a deployment's timeline.                                      *)
(***************************************************************************)
EXTENDS Integers, Sequences, FiniteSets

CONSTANTS
  Attempts,           \* attempts on the deployment, over every process
  Versions,           \* effective times an operator may give a version
  FreeVersions,       \* the versions with a free billing mode
  RollbackTolerance,  \* pricing_clock_rollback_tolerance
  ForwardTolerance,   \* pricing_clock_forward_tolerance
  Faults,             \* calls that may fail: "prepare", "delete", "reserve", "commit", "settle"
  MaxTime,            \* bound on both clocks
  MaxJumps,           \* bound on wall-clock jumps
  MaxCrashes,         \* bound on crashes
  MaxConfirms         \* bound on the operator's clock confirmations

ASSUME PricePinsAssumption ==
  /\ Versions \subseteq 1 .. MaxTime
  /\ FreeVersions \subseteq Versions
  /\ 1 \in Versions
  /\ RollbackTolerance \in Nat
  /\ ForwardTolerance \in Nat \ {0}
  /\ {MaxTime, MaxJumps, MaxCrashes, MaxConfirms} \subseteq Nat
  /\ Faults \subseteq {"prepare", "delete", "reserve", "commit", "settle"}

NoVersion == 0
NoPin     == [state |-> "none", version |-> NoVersion, at |-> 0, seq |-> 0]
NoMark    == [at |-> 0, version |-> NoVersion, quarantine |-> "none"]
NoAnchor  == [selectedAt |-> -1, observedAt |-> -1]
NoReview  == [version |-> NoVersion, at |-> 0]

Reasons == {"none", "wall_clock_forward_jump", "wall_clock_rollback"}

VARIABLES
  wall, elapsed,  \* the wall clock and the monotonic clock
  timeline,       \* versions on the timeline
  cancelled,      \* those cancelled before they took effect
  mark,           \* DeploymentPricingHighWater
  pins,           \* PricePinIntent of each attempt
  ledger,         \* leases and settlements in the order they became durable
  anchor,         \* the last trusted pair of clock readings, in memory
  phase,          \* where each attempt stands
  captured,       \* the pair of readings each attempt took
  now,            \* the time a waiting price operation read, -1 when none waits
  review,         \* the operator's clock review: price and time
  proc,           \* "down", "pins", "leases", "up" or "refused"
  refused,        \* history: attempts told that their reservation failed
  jumps, crashes, confirms

clocks == <<wall, elapsed, jumps>>
prices == <<timeline, cancelled>>
admin  == <<now, review, confirms>>
life   == <<proc, crashes>>
vars == <<clocks, prices, mark, pins, ledger, anchor, phase, captured, admin, life, refused>>

Active  == {"captured", "selected", "prepared", "dropping", "leased", "unpinned", "called"}
\* startAttempt holds the shared pricing gate from the capture to the pin's commit.
Holding == {"captured", "selected", "prepared", "dropping", "leased"}
GateFree == \A a \in Attempts : phase[a] \notin Holding

----------------------------------------------------------------------------
\* The lease of an attempt as the ledger state knows it (State.AccountingLease): one
\* in flight, or one settled because its pin could not be committed.
SettledAs(a, outcomes) ==
  \E i \in 1 .. Len(ledger) :
    ledger[i].kind = "settled" /\ ledger[i].attempt = a /\ ledger[i].outcome \in outcomes

LeaseSeqs(a) == {i \in 1 .. Len(ledger) : ledger[i].kind = "lease" /\ ledger[i].attempt = a}

\* A mutant: every settlement drops the lease, the failed commit's too.
MutInState(a) == ~SettledAs(a, {"completed", "recovered", "pin_commit_failed"})

InState(a) == ~SettledAs(a, {"completed", "recovered"})

Pending == {a \in Attempts : LeaseSeqs(a) # {} /\ ~SettledAs(a, {"completed", "recovered", "pin_commit_failed"})}

\* A mutant: the leases replayed after the snapshot are not kept for the pins.
MutLeasesFound(a, through) == {i \in LeaseSeqs(a) : InState(a)}

\* The leases a start finds when its state resumed from a snapshot at through: those
\* of the state, and the priced ones it replayed.
LeasesFound(a, through) ==
  {i \in LeaseSeqs(a) : InState(a) \/ (i > through /\ ledger[i].version # NoVersion)}

----------------------------------------------------------------------------
\* A process that just started, on a deployment that is new or that an earlier process
\* served, perhaps before the wall clock was set back.
Init ==
  /\ wall = 1 /\ elapsed = 1
  /\ timeline = {1} /\ cancelled = {}
  /\ \/ mark = NoMark
     \/ \E t \in {1, MaxTime} : mark = [NoMark EXCEPT !.at = t, !.version = 1]
  /\ jumps = IF mark.at > wall THEN 1 ELSE 0
  /\ pins = [a \in Attempts |-> NoPin]
  /\ ledger = <<>>
  /\ anchor = NoAnchor
  /\ phase = [a \in Attempts |-> "idle"]
  /\ captured = [a \in Attempts |-> NoAnchor]
  /\ now = -1 /\ review = NoReview /\ confirms = 0
  /\ proc = "up" /\ crashes = 0
  /\ refused = {}

\* Time passes on both clocks, for as long as a captured attempt waits for its transaction.
Tick ==
  /\ wall < MaxTime /\ elapsed < MaxTime
  /\ wall' = wall + 1 /\ elapsed' = elapsed + 1
  /\ UNCHANGED <<jumps, prices, mark, pins, ledger, anchor, phase, captured, admin, life, refused>>

\* The wall clock is set, or the host resumes from suspension.
Jump(t) ==
  /\ jumps < MaxJumps /\ t # wall
  /\ wall' = t /\ jumps' = jumps + 1
  /\ UNCHANGED <<elapsed, prices, mark, pins, ledger, anchor, phase, captured, admin, life, refused>>

----------------------------------------------------------------------------
\* selectDeploymentPriceVersionTx: the latest standing version in effect.
InEffect(t) == {v \in timeline \ cancelled : v <= t}
Select(t) ==
  IF InEffect(t) = {} THEN NoVersion
  ELSE CHOOSE v \in InEffect(t) : \A w \in InEffect(t) : w <= v

\* startAttempt takes the gate shared and reads both clocks at one instant.
Capture(a) ==
  /\ proc = "up" /\ phase[a] = "idle"
  /\ phase' = [phase EXCEPT ![a] = "captured"]
  /\ captured' = [captured EXCEPT ![a] = [selectedAt |-> wall, observedAt |-> elapsed]]
  /\ UNCHANGED <<clocks, prices, mark, pins, ledger, anchor, admin, life, refused>>

\* The readings are a local of the call, gone with it.
Uncaptured(a) == [captured EXCEPT ![a] = NoAnchor]

\* A mutant: the monotonic clock is read when it is needed, not beside the wall clock.
MutObservedAt(a) == elapsed

ObservedAt(a) == captured[a].observedAt

\* How far the wall clock moved since the anchor beyond what the monotonic clock did.
Drift(a) == (captured[a].selectedAt - anchor.selectedAt) - (ObservedAt(a) - anchor.observedAt)

HasMark == mark # NoMark
HasAnchor == anchor # NoAnchor
Behind(a) == HasMark /\ captured[a].selectedAt < mark.at

\* A forward gap cannot change the price when the version last observed is free and
\* still the one in effect.
FreeGap(a) == mark.version \in FreeVersions /\ Select(captured[a].selectedAt) = mark.version

ForwardJump(a) == HasMark /\ HasAnchor /\ Drift(a) > ForwardTolerance /\ ~FreeGap(a)

Rollback(a) ==
  /\ Behind(a)
  /\ \/ HasAnchor /\ Drift(a) < -RollbackTolerance
     \/ ~HasAnchor /\ mark.at - captured[a].selectedAt > RollbackTolerance

\* A mutant: a selection behind the mark is not raised to it.
MutSelectedAt(a) == captured[a].selectedAt

\* A selection behind the mark that is no rollback selects at the mark.
SelectedAt(a) == IF Behind(a) THEN mark.at ELSE captured[a].selectedAt

Serving(a) == mark.quarantine = "none" /\ ~ForwardJump(a) /\ ~Rollback(a)

\* PrepareDeploymentPricePin on a quarantined deployment: nothing is written, and the
\* attempt ends.
PrepareRefused(a) ==
  /\ phase[a] = "captured" /\ mark.quarantine # "none"
  /\ phase' = [phase EXCEPT ![a] = "ended"]
  /\ captured' = Uncaptured(a)
  /\ UNCHANGED <<clocks, prices, mark, pins, ledger, anchor, admin, life, refused>>

\* The transaction finds that the clock jumped and quarantines the deployment.
PrepareQuarantines(a) ==
  /\ phase[a] = "captured" /\ mark.quarantine = "none" /\ (ForwardJump(a) \/ Rollback(a))
  /\ mark' = [mark EXCEPT !.quarantine = IF ForwardJump(a) THEN "wall_clock_forward_jump"
                                                           ELSE "wall_clock_rollback"]
  /\ phase' = [phase EXCEPT ![a] = "ended"]
  /\ captured' = Uncaptured(a)
  /\ UNCHANGED <<clocks, prices, pins, ledger, anchor, admin, life, refused>>

\* No version is in effect: under the unknown-price policy the attempt goes on without
\* a pin, otherwise it ends.
PrepareUnpriced(a, allowed) ==
  /\ phase[a] = "captured" /\ Serving(a) /\ Select(SelectedAt(a)) = NoVersion
  /\ phase' = [phase EXCEPT ![a] = IF allowed THEN "prepared" ELSE "ended"]
  /\ captured' = Uncaptured(a)
  /\ UNCHANGED <<clocks, prices, mark, pins, ledger, anchor, admin, life, refused>>

\* The prepared pin and the raised mark are one transaction.
Pinned(a) ==
  LET at == SelectedAt(a) IN
  LET v  == Select(at) IN
    /\ v # NoVersion
    /\ pins' = [pins EXCEPT ![a] = [state |-> "prepared", version |-> v, at |-> at, seq |-> 0]]
    /\ mark' = [mark EXCEPT !.at = at, !.version = IF v > @ THEN v ELSE @]

\* PrepareDeploymentPricePin succeeds; its anchor is merged after the transaction.  When
\* a Replica's confirmation fails the pin is durable and the attempt only sees the error.
Prepare(a, confirmed) ==
  /\ phase[a] = "captured" /\ Serving(a)
  /\ confirmed \/ "prepare" \in Faults
  /\ Pinned(a)
  /\ phase' = [phase EXCEPT ![a] = IF confirmed THEN "selected" ELSE "ended"]
  /\ captured' = IF confirmed THEN captured ELSE Uncaptured(a)
  /\ UNCHANGED <<clocks, prices, ledger, anchor, admin, life, refused>>

\* mergeClockAnchor: a newer pair replaces the anchor, as it was captured.
MergeAnchor(a) ==
  /\ phase[a] = "selected"
  /\ anchor' = IF ~HasAnchor \/ captured[a].selectedAt > anchor.selectedAt
               THEN [selectedAt |-> captured[a].selectedAt, observedAt |-> ObservedAt(a)]
               ELSE anchor
  /\ phase' = [phase EXCEPT ![a] = "prepared"]
  /\ captured' = Uncaptured(a)
  /\ UNCHANGED <<clocks, prices, mark, pins, ledger, admin, life, refused>>

\* The estimate cannot be priced, or Token Guard refuses its cost: the pin is dropped.
Reject(a) ==
  /\ phase[a] = "prepared"
  /\ phase' = [phase EXCEPT ![a] = "dropping"]
  /\ UNCHANGED <<clocks, prices, mark, pins, ledger, anchor, captured, admin, life, refused>>

Lease(a) == [kind |-> "lease", attempt |-> a, version |-> pins[a].version, at |-> pins[a].at, outcome |-> "none"]
Settlement(a, outcome) == [kind |-> "settled", attempt |-> a, version |-> NoVersion, at |-> 0, outcome |-> outcome]

\* ReserveLeaseDetailed returns once the lease is durable.
Reserve(a) ==
  /\ phase[a] = "prepared"
  /\ ledger' = Append(ledger, Lease(a))
  /\ phase' = [phase EXCEPT ![a] = "leased"]
  /\ UNCHANGED <<clocks, prices, mark, pins, anchor, captured, admin, life, refused>>

\* It is refused, or fails, perhaps with the lease already in the ledger.
ReserveFails(a, durable) ==
  /\ phase[a] = "prepared" /\ (durable => "reserve" \in Faults)
  /\ ledger' = IF durable THEN Append(ledger, Lease(a)) ELSE ledger
  /\ refused' = refused \cup {a}
  /\ phase' = [phase EXCEPT ![a] = "dropping"]
  /\ UNCHANGED <<clocks, prices, mark, pins, anchor, captured, admin, life>>

\* DeletePreparedDeploymentPricePin, whose error nobody reads; then the gate is released.
DropPin(a, deleted) ==
  /\ phase[a] = "dropping" /\ (~deleted => "delete" \in Faults)
  /\ pins' = IF deleted /\ pins[a].state = "prepared" THEN [pins EXCEPT ![a] = NoPin] ELSE pins
  /\ phase' = [phase EXCEPT ![a] = "ended"]
  /\ UNCHANGED <<clocks, prices, mark, ledger, anchor, captured, admin, life, refused>>

\* A mutant: the commit leaves the sequence out.
MutCommitted(a) == [pins EXCEPT ![a].state = "committed"]

\* The pin of a with the sequence of its lease.
Committed(a) ==
  [pins EXCEPT ![a].state = "committed", ![a].seq = CHOOSE i \in LeaseSeqs(a) : TRUE]

\* CommitDeploymentPricePin, and the attempt is marked started and calls the provider.
CommitPin(a) ==
  /\ phase[a] = "leased"
  /\ pins' = IF pins[a] = NoPin THEN pins ELSE Committed(a)
  /\ phase' = [phase EXCEPT ![a] = "called"]
  /\ UNCHANGED <<clocks, prices, mark, ledger, anchor, captured, admin, life, refused>>

\* The commit fails, perhaps with the pin committed and only its confirmation missing.
CommitPinFails(a, stored) ==
  /\ phase[a] = "leased" /\ pins[a] # NoPin /\ "commit" \in Faults
  /\ pins' = IF stored THEN Committed(a) ELSE pins
  /\ phase' = [phase EXCEPT ![a] = "unpinned"]
  /\ UNCHANGED <<clocks, prices, mark, ledger, anchor, captured, admin, life, refused>>

\* settleAttempt, after a call or after the pin could not be committed.
Settle(a, written) ==
  /\ phase[a] \in {"called", "unpinned"} /\ (~written => "settle" \in Faults)
  /\ ledger' = IF ~written THEN ledger
               ELSE Append(ledger, Settlement(a, IF phase[a] = "called" THEN "completed"
                                                                        ELSE "pin_commit_failed"))
  /\ phase' = [phase EXCEPT ![a] = "ended"]
  /\ UNCHANGED <<clocks, prices, mark, pins, anchor, captured, admin, life, refused>>

----------------------------------------------------------------------------
\* An admin handler reads the time before it waits for the gate.
ReadNow ==
  /\ proc = "up" /\ now = -1
  /\ now' = wall
  /\ UNCHANGED <<clocks, prices, mark, pins, ledger, anchor, phase, captured, review, confirms, life, refused>>

\* createDeploymentPriceVersion and AdoptDeploymentPriceProposal: the version follows
\* every standing one; its effective time may lie in the past.
CreateVersion(v) ==
  /\ proc = "up" /\ now # -1 /\ GateFree
  /\ v \notin timeline /\ \A w \in timeline \ cancelled : w < v
  /\ timeline' = timeline \cup {v}
  /\ now' = -1
  /\ UNCHANGED <<clocks, cancelled, mark, pins, ledger, anchor, phase, captured, review, confirms, life, refused>>

\* A mutant: the pins are not searched for the version.
MutUnpinned(v) == TRUE

Unpinned(v) == \A a \in Attempts : pins[a].version # v

\* cancelDeploymentPriceVersion.
CancelVersion(v) ==
  /\ proc = "up" /\ now # -1 /\ GateFree
  /\ v \in timeline \ cancelled /\ now < v /\ Unpinned(v)
  /\ cancelled' = cancelled \cup {v}
  /\ now' = -1
  /\ UNCHANGED <<clocks, timeline, mark, pins, ledger, anchor, phase, captured, review, confirms, life, refused>>

\* The handler is refused and answers its client.
Forget ==
  /\ now # -1 /\ GateFree
  /\ now' = -1
  /\ UNCHANGED <<clocks, prices, mark, pins, ledger, anchor, phase, captured, review, confirms, life, refused>>

\* ReviewClockPricing, online or with the process stopped.
ReviewClock ==
  /\ proc \in {"up", "down"} /\ mark.quarantine # "none" /\ Select(wall) # NoVersion
  /\ confirms < MaxConfirms
  /\ review' = [version |-> Select(wall), at |-> wall]
  /\ UNCHANGED <<clocks, prices, mark, pins, ledger, anchor, phase, captured, now, confirms, life, refused>>

\* RecoverClockPricingWithAuditIntent at time t: the confirmed review still describes the
\* deployment; the mark restarts at t and the anchor is forgotten.  Only this changes a
\* quarantined mark, so the revision a review carries goes stale exactly here.
RecoverClock(t) ==
  /\ mark.quarantine # "none" /\ GateFree
  /\ review # NoReview /\ review.at <= t /\ Select(t) = review.version
  /\ mark' = [at |-> t, version |-> review.version, quarantine |-> "none"]
  /\ review' = NoReview
  /\ anchor' = NoAnchor
  /\ confirms' = confirms + 1
  /\ UNCHANGED <<clocks, prices, pins, ledger, phase, captured, life, refused>>

\* Through the Admin API, with the time the handler read, or by the offline command.
ConfirmClock ==
  \/ proc = "up" /\ now # -1 /\ RecoverClock(now) /\ now' = -1
  \/ proc = "down" /\ RecoverClock(wall) /\ UNCHANGED now

----------------------------------------------------------------------------
\* Memory is gone: the anchor, the attempts in flight, a waiting price operation.
Crash ==
  /\ crashes < MaxCrashes /\ proc \in {"up", "pins", "leases"}
  /\ proc' = "down" /\ crashes' = crashes + 1
  /\ anchor' = NoAnchor /\ now' = -1
  /\ phase' = [a \in Attempts |-> IF phase[a] \in Active THEN "ended" ELSE phase[a]]
  /\ captured' = [a \in Attempts |-> NoAnchor]
  /\ UNCHANGED <<clocks, prices, mark, pins, ledger, review, confirms, refused>>

Start ==
  /\ proc = "down" /\ proc' = "pins"
  /\ UNCHANGED <<clocks, prices, mark, pins, ledger, anchor, phase, captured, admin, crashes, refused>>

\* What RecoverDeploymentPricePins makes of one pin: its lease completes it, and a
\* prepared pin without one goes.
Resolved(a, through) ==
  IF pins[a].state = "prepared" /\ LeasesFound(a, through) = {} THEN NoPin
  ELSE IF pins[a].state = "prepared"
       THEN [pins[a] EXCEPT !.state = "committed", !.seq = CHOOSE i \in LeasesFound(a, through) : TRUE]
  ELSE pins[a]

\* The pin contradicts the ledger: the start is refused.
Contradicts(a, through) ==
  /\ pins[a] # NoPin
  /\ \/ \E i \in LeasesFound(a, through) :
          \/ ledger[i].version # pins[a].version \/ ledger[i].at # pins[a].at
          \/ pins[a].state = "committed" /\ pins[a].seq # i
     \/ LeasesFound(a, through) = {} /\ pins[a].state = "committed" /\ pins[a].seq > through

\* openBoundedLedgerState resumes from the state snapshot, which the process wrote at any
\* position of the ledger, or replays everything and checks no position; then the pins are
\* resolved, before any lease is settled.
RecoverPins(through) ==
  /\ proc = "pins" /\ (through = 0 => ledger = <<>>)
  /\ IF \E a \in Attempts : Contradicts(a, through)
     THEN proc' = "refused" /\ UNCHANGED pins
     ELSE proc' = "leases" /\ pins' = [a \in Attempts |-> Resolved(a, through)]
  /\ UNCHANGED <<clocks, prices, mark, ledger, anchor, phase, captured, admin, crashes, refused>>

\* RecoverPendingLeases settles the leases in flight, one by one.
RecoverLease(a) ==
  /\ proc = "leases" /\ a \in Pending
  /\ ledger' = Append(ledger, Settlement(a, "recovered"))
  /\ UNCHANGED <<clocks, prices, mark, pins, anchor, phase, captured, admin, life, refused>>

Serve ==
  /\ proc = "leases" /\ Pending = {}
  /\ proc' = "up"
  /\ UNCHANGED <<clocks, prices, mark, pins, ledger, anchor, phase, captured, admin, crashes, refused>>

AttemptStep(a) ==
  \/ Capture(a)
  \/ PrepareRefused(a)
  \/ PrepareQuarantines(a)
  \/ \E b \in BOOLEAN : PrepareUnpriced(a, b)
  \/ \E b \in BOOLEAN : Prepare(a, b)
  \/ MergeAnchor(a)
  \/ Reject(a)
  \/ Reserve(a)
  \/ \E b \in BOOLEAN : ReserveFails(a, b)
  \/ \E b \in BOOLEAN : DropPin(a, b)
  \/ CommitPin(a)
  \/ \E b \in BOOLEAN : CommitPinFails(a, b)
  \/ \E b \in BOOLEAN : Settle(a, b)
  \/ RecoverLease(a)

Next ==
  \/ \E a \in Attempts : AttemptStep(a)
  \/ Tick
  \/ \E t \in 0 .. MaxTime : Jump(t)
  \/ ReadNow
  \/ \E v \in Versions : CreateVersion(v)
  \/ \E v \in Versions : CancelVersion(v)
  \/ Forget
  \/ ReviewClock
  \/ ConfirmClock
  \/ Crash
  \/ Start
  \/ \E n \in 0 .. Len(ledger) : RecoverPins(n)
  \/ Serve

Spec == Init /\ [][Next]_vars

----------------------------------------------------------------------------
Times == 0 .. MaxTime

\* What the ledger keeps of a lease or of its settlement.
LedgerRecord ==
  [kind : {"lease", "settled"}, attempt : Attempts, version : Versions \cup {NoVersion},
   at : Times, outcome : {"none", "completed", "recovered", "pin_commit_failed"}]

ClocksOK ==
  /\ wall \in Times /\ elapsed \in Times /\ jumps \in Nat
  /\ anchor \in [selectedAt : Times \cup {-1}, observedAt : Times \cup {-1}]
  /\ captured \in [Attempts -> [selectedAt : Times \cup {-1}, observedAt : Times \cup {-1}]]

\* The mark never names a version that takes effect after it.
PricesOK ==
  /\ timeline \subseteq Versions /\ cancelled \subseteq timeline
  /\ mark \in [at : Times, version : Versions \cup {NoVersion}, quarantine : Reasons]
  /\ mark.version <= mark.at

\* A PricePinIntent: its sequence is one of the ledger's, 0 when it has none.
PinRecord ==
  [state : {"none", "prepared", "committed"}, version : Versions \cup {NoVersion},
   at : Times, seq : 0 .. Len(ledger)]

\* A committed pin has a sequence and a prepared one has none.
PinsOK ==
  /\ pins \in [Attempts -> PinRecord]
  /\ \A a \in Attempts : pins[a].state = "committed" <=> pins[a].seq # 0
  /\ ledger \in Seq(LedgerRecord)

ProcessOK ==
  /\ phase \in [Attempts -> Active \cup {"idle", "ended"}]
  /\ now \in Times \cup {-1}
  /\ review \in [version : Versions \cup {NoVersion}, at : Times]
  /\ proc \in {"down", "pins", "leases", "up", "refused"}
  /\ refused \subseteq Attempts
  /\ crashes \in Nat /\ confirms \in Nat

\* The types, with the rules PricePinIntent.Validate and DeploymentPricingHighWater.Validate
\* apply to what is stored.
TypeOK == ClocksOK /\ PricesOK /\ PinsOK /\ ProcessOK

\* The two stores agree on every price: a lease whose attempt was not told otherwise keeps
\* the pin it was selected with, through crashes, failed commits and recovery; the version
\* it names is never cancelled, however long a cancellation waited with the time it read;
\* and a committed pin names the sequence of its own lease.
PinsMatchLedger ==
  /\ \A i \in 1 .. Len(ledger) :
       ledger[i].kind = "lease" /\ ledger[i].version # NoVersion /\ ledger[i].attempt \notin refused
         => /\ pins[ledger[i].attempt].version = ledger[i].version
            /\ ledger[i].version \notin cancelled
  /\ \A a \in Attempts : pins[a].state = "committed" => LeaseSeqs(a) = {pins[a].seq}

\* A start never takes a pin for a contradiction of the ledger, whichever snapshot it
\* resumed from and whatever failed before the crash.
RecoveryAccepts == proc # "refused"

\* A deployment is quarantined for its clock only if the wall clock was set: only a real
\* clock jump reaches the quarantine of PrepareDeploymentPricePin.
QuarantineNeedsJump == mark.quarantine # "none" => jumps > 0

\* Once the process has an anchor, neither the wait for the metadata transaction, however
\* long, nor the order concurrent selections commit in is taken for a jump: a deployment
\* whose clock was never set is quarantined only by a selection that found no anchor and
\* waited longer than the tolerance, behind the mark of one that read the clock later.
WaitIsNoJump ==
  [][mark.quarantine = "none" /\ mark'.quarantine # "none" /\ jumps = 0
       => /\ ~HasAnchor
          /\ \E a \in Attempts : /\ phase[a] = "captured" /\ phase'[a] = "ended"
                                 /\ elapsed - captured[a].observedAt > RollbackTolerance]_vars

\* Until an operator confirms the clock, the price never goes back: a pin prepared now
\* names no earlier version than a pin already stored, although selections commit out of
\* order, the wall clock steps back and the process restarts.
PriceNeverReverts ==
  [][\A a, b \in Attempts :
       pins[a] = NoPin /\ pins'[a] # NoPin /\ confirms = 0 => pins[b].version <= pins'[a].version]_vars
=============================================================================
