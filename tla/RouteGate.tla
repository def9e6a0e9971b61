------------------------------ MODULE RouteGate ------------------------------
(***************************************************************************)
(* The admission gate of internal/routegate: which upstream targets may be *)
(* used right now, what each failure takes out of service, and the rows    *)
(* that remember the long refusals across a restart.                       *)
(*                                                                         *)
(* Processes: gateway attempts (Filter, Admit, then Done or Abandon), the  *)
(* active prober, a registry reload after a credential was replaced, and   *)
(* the operator's clear.  Each locked section of the Gate is one step.     *)
(* The sections that decide a store write are followed by their own        *)
(* goroutine's flush, which takes the store lock and writes the queue with *)
(* the Gate's mutex released; io[p] is where p is in that flush:           *)
(*                                                                         *)
(*   none -> flush -> [drain] -> none                                      *)
(*                                                                         *)
(* A scope that is not in Gate.scopes is the zero scopeState here: every   *)
(* reader of the map treats the two alike.  Times are kept as whether a    *)
(* suspension's end is still ahead.                                        *)
(***************************************************************************)
EXTENDS Integers, Sequences, FiniteSets

CONSTANTS Attempts,              \* requests' attempts; each may be used again
          Targets,               \* the candidates of one model alias
          Observations,          \* what a failed call may report
          AvailabilityThreshold, AvailabilityWindow, MaxAvailabilityWindow,
          HalfOpenMaxRequests,
          NoRow,                 \* the store has no row
          Actors,                \* which of the other goroutines there are
          MaxRevision,           \* bound: revisions of a credential
          MaxCrashes,            \* bound: process crashes
          MaxFailures            \* bound: store writes that fail

Reasons == {"rate_limited", "subscription_quota_exhausted",
            "entitlement_verification_unavailable", "invalid_credential"}

ASSUME InstanceAssumption ==
  IsFiniteSet(Attempts) /\ Targets # {} /\ Observations # {}
ASSUME TargetsAssumption ==
  \A t \in Targets : {"deployment", "credential", "model", "provider"} \subseteq DOMAIN t
ASSUME ObservationsAssumption ==
  Observations \subseteq [reason : Reasons \cup {""}, answered : BOOLEAN, retryAfter : Nat]
ASSUME ConfigAssumption ==
  /\ {AvailabilityThreshold, HalfOpenMaxRequests, AvailabilityWindow} \subseteq Nat \ {0}
  /\ MaxAvailabilityWindow \in Nat /\ MaxAvailabilityWindow >= AvailabilityWindow
ASSUME GateBoundAssumption ==
  MaxRevision \in Nat \ {0} /\ MaxCrashes \in Nat /\ MaxFailures \in Nat

-----------------------------------------------------------------------------
(* Scopes and policies *)

Kinds == {"deployment", "credential_model", "credential", "provider"}

\* Every scope a target belongs to, narrow to wide.
scopesOf(t) ==
  << [kind |-> "deployment",       key |-> <<t.deployment>>],
     [kind |-> "credential_model", key |-> <<t.credential, t.model>>],
     [kind |-> "credential",       key |-> <<t.credential>>],
     [kind |-> "provider",         key |-> <<t.provider>>] >>

ScopesOf(t) == {scopesOf(t)[i] : i \in 1..4}
Scopes == UNION {ScopesOf(t) : t \in Targets}
Deployments == {s \in Scopes : s.kind = "deployment"}
CredentialKinds == {"credential", "credential_model"}
Credentials == {t.credential : t \in Targets}

Policy(scope, threshold, window, max, recovery, honour) ==
  [scope |-> scope, threshold |-> threshold, window |-> window, max |-> max,
   recovery |-> recovery, honour |-> honour]

Policies == [scope : Kinds \cup {""}, threshold : Nat, window : Nat, max : Nat,
             recovery : {"", "window", "credential_revision"}, honour : BOOLEAN]

\* Windows in seconds.  subscription_inactive is treated as invalid_credential is.
DefaultPolicies(reason) ==
  CASE reason = "rate_limited" ->
         Policy("credential_model", 1, 1, 60, "window", TRUE)
    [] reason = "subscription_quota_exhausted" ->
         Policy("credential_model", 1, 900, 21600, "window", TRUE)
    [] reason = "entitlement_verification_unavailable" ->
         Policy("credential", 1, 30, 300, "window", TRUE)
    [] reason = "invalid_credential" ->
         Policy("credential", 1, 0, 0, "credential_revision", FALSE)

availabilityPolicy(scope, threshold) ==
  Policy(scope, threshold, AvailabilityWindow, MaxAvailabilityWindow, "window", FALSE)

\* A failure without a canonical reason is about the endpoint when nothing answered
\* and about the deployment otherwise.
policyFor(o) ==
  IF o.reason # "" THEN DefaultPolicies(o.reason)
  ELSE availabilityPolicy(IF o.answered THEN "deployment" ELSE "provider",
                          AvailabilityThreshold)

\* The scope of target t that an observation is about.
scopeFor(o, t) == CHOOSE s \in ScopesOf(t) : s.kind = policyFor(o).scope

PersistWindowThreshold == 300

-----------------------------------------------------------------------------
(* scopeState *)

ZeroPolicy == Policy("", 0, 0, 0, "", FALSE)

Blank == [failures |-> 0, policy |-> ZeroPolicy, until |-> "none", indefinite |-> FALSE,
          window |-> 0, probing |-> 0, reason |-> "", rev |-> 0, persisted |-> FALSE]

ScopeStates ==
  [failures : Nat, policy : Policies, until : {"none", "ahead", "passed"},
   indefinite : BOOLEAN, window : Nat, probing : Nat, reason : Reasons \cup {""},
   rev : Nat, persisted : BOOLEAN]

suspended(st) == st.indefinite \/ st.until # "none"

\* Slots are counted here, and not asked of an indefinite suspension at all.
probeable(st) ==
  ~st.indefinite /\ st.until = "passed" /\ st.probing < HalfOpenMaxRequests

\* A credential suspension recorded against a revision the target has moved past.
stale(s, st, revision) ==
  /\ st.policy.recovery = "credential_revision"
  /\ s.kind \in CredentialKinds
  /\ revision > st.rev

persistable(st) ==
  /\ st.reason # "" /\ suspended(st)
  /\ st.indefinite \/ st.window > PersistWindowThreshold

Rows == [reason : Reasons, indefinite : BOOLEAN, window : Nat, rev : Nat]

ASSUME NoRowAssumption == NoRow \notin Rows

\* The row that would restore this state.
recordFor(st) ==
  [reason |-> st.reason, indefinite |-> st.indefinite, window |-> st.window, rev |-> st.rev]

CappedAt(n, cap) == IF cap > 0 /\ n > cap THEN cap ELSE n

\* The first window is the policy's, or the upstream's own; after that it doubles.
NextWindow(st, policy, o) ==
  CappedAt(IF st.window # 0 THEN 2 * st.window
           ELSE IF policy.honour /\ o.retryAfter > policy.window THEN o.retryAfter
           ELSE policy.window,
           policy.max)

\* observeLocked on the state of one scope, before the store is thought of.
Observed(st, policy, o, rev) ==
  LET counted == [st EXCEPT !.policy = policy,
                            !.failures = CappedAt(@ + 1, AvailabilityThreshold)]
      seen == [counted EXCEPT !.reason = o.reason, !.rev = rev]
  IN IF counted.failures < policy.threshold /\ ~suspended(st) THEN counted
     ELSE IF policy.recovery = "credential_revision"
       THEN [seen EXCEPT !.indefinite = TRUE, !.until = "none"]
     ELSE [seen EXCEPT !.window = NextWindow(st, policy, o), !.until = "ahead"]

\* Whether what a row restores has moved.  Two ends of a window are never the same
\* instant.
Moved(held, st) ==
  \/ st.indefinite # held.indefinite \/ st.window # held.window
  \/ st.until # "none" \/ held.until # "none"

\* Mutant: a row is only written when the suspension begins.
MutMustNote(held, st) == suspended(st) /\ ~suspended(held)

\* notePersistIfMovedLocked has something to say of the observation.
MustNote(held, st) == suspended(st) /\ (Moved(held, st) \/ ~held.persisted)

\* notePersistLocked: the state with its persisted flag, and what the store is owed.
Noted(held, st) ==
  IF MustNote(held, st) THEN [st EXCEPT !.persisted = persistable(st)] ELSE st
OwedFor(held, st) ==
  IF ~MustNote(held, st) THEN <<>>
  ELSE IF persistable(st) THEN <<recordFor(st)>>
  ELSE IF held.persisted THEN <<NoRow>> ELSE <<>>

-----------------------------------------------------------------------------
VARIABLES
  scopes,     \* Gate.scopes
  pending,    \* Gate.pending, per scope: the rows (or NoRow) the store is owed, in order
  draining,   \* what the holder of the store lock took from pending and has yet to write
  rows,       \* the route_suspensions bucket
  storeLock,  \* who holds persistence.mu
  pc, io,     \* control point of each goroutine, and its progress in a flush
  lease,      \* an attempt's target, its credential revision, claims and observation
  revision,   \* the revision of each credential in the serving registry
  listed,     \* the credentials the serving registry knows
  clearing,   \* the scope the operator is clearing
  probes,     \* history: attempts in flight through the present suspension of a scope
  lost,       \* history: scopes whose latest store write failed
  crashes, failures

gateVars == <<scopes, pending, probes>>
storeVars == <<draining, rows, storeLock, lost, failures>>
topologyVars == <<revision, listed>>
vars == <<gateVars, storeVars, pc, io, lease, topologyVars, clearing, crashes>>

Prober == "prober"
Reloader == "reloader"
Operator == "operator"
Procs == Attempts \cup Actors
NoOne == "no one"
ASSUME ProcsAssumption ==
  /\ Actors \subseteq {Prober, Reloader, Operator}
  /\ Attempts \cap {Prober, Reloader, Operator, NoOne} = {}

NoScope == CHOOSE s \in Scopes : TRUE   \* stands for none while nothing is cleared

Idle == [target |-> CHOOSE t \in Targets : TRUE, rev |-> 0, claimed |-> {},
         observation |-> CHOOSE o \in Observations : TRUE]

Init ==
  /\ scopes = [s \in Scopes |-> Blank]
  /\ pending = [s \in Scopes |-> <<>>] /\ draining = [s \in Scopes |-> <<>>]
  /\ rows = [s \in Scopes |-> NoRow] /\ storeLock = NoOne
  /\ pc = [p \in Procs |-> "idle"] /\ io = [p \in Procs |-> "none"]
  /\ lease = [a \in Attempts |-> Idle]
  /\ revision = [c \in Credentials |-> 1] /\ listed = Credentials
  /\ clearing = NoScope
  /\ probes = [s \in Scopes |-> {}] /\ lost = {}
  /\ crashes = 0 /\ failures = 0

\* p is between two locked sections and in no flush.
At(p, point) == p \in Procs /\ pc[p] = point /\ io[p] = "none"

\* p leaves a locked section for point, by way of a flush.
FlushTo(p, point) ==
  /\ pc' = [pc EXCEPT ![p] = point]
  /\ io' = [io EXCEPT ![p] = "flush"]

-----------------------------------------------------------------------------
(* What a locked section does to the scopes and to the queue *)

\* A removal is owed only where a row was written.
OwedForDrop(s) == IF scopes[s].persisted THEN <<NoRow>> ELSE <<>>

\* dropLocked for every scope of D, and new states for the others.
DropAnd(D, others) ==
  /\ scopes' = [s \in Scopes |-> IF s \in D THEN Blank ELSE others[s]]
  /\ pending' = [s \in Scopes |-> IF s \in D THEN pending[s] \o OwedForDrop(s) ELSE pending[s]]

Drop(D) ==
  /\ DropAnd(D, scopes)
  /\ probes' = [s \in Scopes |-> IF s \in D THEN {} ELSE probes[s]]

\* observeLocked for every scope s of S, under policy[s] and observation o[s].
Observe(S, policy, o, rev) ==
  LET next(s) == Observed(scopes[s], policy[s], o[s], rev)
  IN /\ scopes' = [s \in Scopes |-> IF s \in S THEN Noted(scopes[s], next(s)) ELSE scopes[s]]
     /\ pending' = [s \in Scopes |-> IF s \in S THEN pending[s] \o OwedFor(scopes[s], next(s))
                                     ELSE pending[s]]

\* Mutant: a slot is given back that the scope does not have.
MutReleased(st) == [st EXCEPT !.probing = @ - 1]

Released(st) == IF st.probing > 0 THEN [st EXCEPT !.probing = @ - 1] ELSE st

\* The claims of attempt a are given back.
ReleaseClaims(a) ==
  /\ scopes' = [s \in Scopes |-> IF s \in lease[a].claimed THEN Released(scopes[s])
                                 ELSE scopes[s]]
  /\ probes' = [s \in Scopes |-> probes[s] \ {a}]

-----------------------------------------------------------------------------
(* flush, drainLocked *)

\* The store lock is taken, and inside it the queue.
TakeQueue(p) ==
  /\ io[p] = "flush" /\ storeLock = NoOne
  /\ IF \A s \in Scopes : pending[s] = <<>>
       THEN /\ io' = [io EXCEPT ![p] = "none"]
            /\ UNCHANGED <<pending, draining, storeLock>>
       ELSE /\ io' = [io EXCEPT ![p] = "drain"]
            /\ draining' = pending /\ pending' = [s \in Scopes |-> <<>>]
            /\ storeLock' = p
  /\ UNCHANGED <<scopes, probes, rows, lost, failures, pc, lease, topologyVars, clearing,
                 crashes>>

\* One queued write; a failed one is logged and dropped.  (Writes of different
\* scopes commute, so their order is left open.)
WriteRow(p) ==
  /\ io[p] = "drain"
  /\ \E s \in Scopes :
       /\ draining[s] # <<>>
       /\ draining' = [draining EXCEPT ![s] = Tail(@)]
       /\ \/ /\ rows' = [rows EXCEPT ![s] = Head(draining[s])]
             /\ lost' = lost \ {s} /\ UNCHANGED failures
          \/ /\ failures < MaxFailures /\ failures' = failures + 1
             /\ lost' = lost \cup {s} /\ UNCHANGED rows
  /\ UNCHANGED <<gateVars, storeLock, pc, io, lease, topologyVars, clearing, crashes>>

\* The queue is written and the lock released; a clear keeps it.
FlushReturns(p) ==
  /\ io[p] = "drain" /\ \A s \in Scopes : draining[s] = <<>>
  /\ io' = [io EXCEPT ![p] = "none"]
  /\ storeLock' = IF p = Operator THEN p ELSE NoOne
  /\ UNCHANGED <<gateVars, draining, rows, lost, failures, pc, lease, topologyVars, clearing, crashes>>

Flush(p) == TakeQueue(p) \/ WriteRow(p) \/ FlushReturns(p)

-----------------------------------------------------------------------------
(* An attempt *)

StaleFor(t, rev) == {s \in ScopesOf(t) : suspended(scopes[s]) /\ stale(s, scopes[s], rev)}
BlockingFor(t, rev) ==
  {s \in ScopesOf(t) : suspended(scopes[s]) /\ ~stale(s, scopes[s], rev)
                       /\ ~probeable(scopes[s])}

Serving == {t \in Targets : t.credential \in listed}

\* Candidate resolution: stale suspensions of every candidate go, and the request
\* takes one of the targets nothing blocks, or is refused.
Filter(a) ==
  LET revOf(t) == revision[t.credential] IN
  /\ At(a, "idle")
  /\ Drop(UNION {StaleFor(t, revOf(t)) : t \in Serving})
  /\ \/ \E t \in Serving :
          /\ BlockingFor(t, revOf(t)) = {}
          /\ lease' = [lease EXCEPT ![a] = [Idle EXCEPT !.target = t, !.rev = revOf(t)]]
          /\ FlushTo(a, "resolved")
     \/ /\ \A t \in Serving : BlockingFor(t, revOf(t)) # {}
        /\ FlushTo(a, "idle") /\ UNCHANGED lease
  /\ UNCHANGED <<storeVars, topologyVars, clearing, crashes>>

\* Admit lets the attempt through, and it takes a slot of every suspension it tests.
AdmitTarget(a) ==
  LET t == lease[a].target
      gone == StaleFor(t, lease[a].rev)
      tested == {s \in ScopesOf(t) : suspended(scopes[s])} \ gone
  IN /\ At(a, "resolved")
     /\ BlockingFor(t, lease[a].rev) = {}
     /\ DropAnd(gone, [s \in Scopes |-> IF s \in tested
                                        THEN [scopes[s] EXCEPT !.probing = @ + 1]
                                        ELSE scopes[s]])
     /\ probes' = [s \in Scopes |-> IF s \in gone THEN {}
                                    ELSE IF s \in tested THEN probes[s] \cup {a} ELSE probes[s]]
     /\ lease' = [lease EXCEPT ![a].claimed = tested]
     /\ FlushTo(a, "calling")
     /\ UNCHANGED <<storeVars, topologyVars, clearing, crashes>>

\* The scopes of t that Admit has been through when it meets the first that refuses.
Before(t, rev) ==
  LET first == CHOOSE i \in 1..4 : /\ scopesOf(t)[i] \in BlockingFor(t, rev)
                                   /\ \A j \in 1..(i - 1) : scopesOf(t)[j] \notin BlockingFor(t, rev)
  IN {scopesOf(t)[j] : j \in 1..(first - 1)}

\* Mutant: the slots taken on the way to a refusal are kept.
MutAdmitRefused(a) ==
  LET t == lease[a].target
      seen == Before(t, lease[a].rev)
      gone == StaleFor(t, lease[a].rev) \cap seen
      tested == {s \in seen : suspended(scopes[s])} \ gone
  IN /\ At(a, "resolved")
     /\ BlockingFor(t, lease[a].rev) # {}
     /\ DropAnd(gone, [s \in Scopes |-> IF s \in tested
                                        THEN [scopes[s] EXCEPT !.probing = @ + 1]
                                        ELSE scopes[s]])
     /\ probes' = [s \in Scopes |-> IF s \in gone THEN {} ELSE probes[s]]
     /\ lease' = [lease EXCEPT ![a] = Idle]
     /\ FlushTo(a, "idle")
     /\ UNCHANGED <<storeVars, topologyVars, clearing, crashes>>

\* Admit refuses: the slots taken on the way are handed back under the same lock.
AdmitRefused(a) ==
  LET t == lease[a].target IN
  /\ At(a, "resolved")
  /\ BlockingFor(t, lease[a].rev) # {}
  /\ Drop(StaleFor(t, lease[a].rev) \cap Before(t, lease[a].rev))
  /\ lease' = [lease EXCEPT ![a] = Idle]
  /\ FlushTo(a, "idle")
  /\ UNCHANGED <<storeVars, topologyVars, clearing, crashes>>

\* The upstream answered.  Done drops every scope of the target, its claims' with them.
Succeeds(a) ==
  /\ At(a, "calling")
  /\ DropAnd(ScopesOf(lease[a].target), scopes)
  /\ probes' = [s \in Scopes |-> IF s \in ScopesOf(lease[a].target) THEN {}
                                 ELSE probes[s] \ {a}]
  /\ lease' = [lease EXCEPT ![a] = Idle]
  /\ FlushTo(a, "idle")
  /\ UNCHANGED <<storeVars, topologyVars, clearing, crashes>>

\* Mutant: an attempt that learned nothing keeps its slots.
MutAbandon(a) ==
  /\ At(a, "calling")
  /\ probes' = [s \in Scopes |-> probes[s] \ {a}]
  /\ lease' = [lease EXCEPT ![a] = Idle]
  /\ pc' = [pc EXCEPT ![a] = "idle"]
  /\ UNCHANGED <<scopes, pending, storeVars, io, topologyVars, clearing, crashes>>

\* The attempt never reached the upstream, or its caller went away.
Abandon(a) ==
  /\ At(a, "calling")
  /\ ReleaseClaims(a)
  /\ lease' = [lease EXCEPT ![a] = Idle]
  /\ pc' = [pc EXCEPT ![a] = "idle"]
  /\ UNCHANGED <<pending, storeVars, io, topologyVars, clearing, crashes>>

\* Done with a failure, in three locked sections: the claims are released...
Fails(a) ==
  /\ At(a, "calling")
  /\ ReleaseClaims(a)
  /\ \E o \in Observations : lease' = [lease EXCEPT ![a].observation = o]
  /\ pc' = [pc EXCEPT ![a] = IF lease[a].claimed = {} THEN "reporting" ELSE "released"]
  /\ UNCHANGED <<pending, storeVars, io, topologyVars, clearing, crashes>>

\* ...the suspensions it was let through hear of it, each under its own policy and
\* reason, except the one the observation is about...
observeClaimed(a) ==
  LET o == lease[a].observation
      heard == {s \in lease[a].claimed \ {scopeFor(o, lease[a].target)} :
                  suspended(scopes[s]) /\ ~scopes[s].indefinite}
  IN /\ At(a, "released")
     /\ Observe(heard, [s \in Scopes |-> scopes[s].policy],
                [s \in Scopes |-> [o EXCEPT !.reason = scopes[s].reason]], lease[a].rev)
     /\ FlushTo(a, "reporting")
     /\ UNCHANGED <<probes, storeVars, lease, topologyVars, clearing, crashes>>

\* ...and that one is observed.
observeReporting(a) ==
  LET o == lease[a].observation
      about == scopeFor(o, lease[a].target)
  IN /\ At(a, "reporting")
     /\ Observe({about}, [s \in Scopes |-> policyFor(o)], [s \in Scopes |-> o], lease[a].rev)
     /\ lease' = [lease EXCEPT ![a] = Idle]
     /\ FlushTo(a, "idle")
     /\ UNCHANGED <<probes, storeVars, topologyVars, clearing, crashes>>

AttemptStep(a) ==
  \/ AdmitTarget(a) \/ AdmitRefused(a)
  \/ Succeeds(a) \/ Abandon(a) \/ Fails(a)
  \/ observeClaimed(a) \/ observeReporting(a)

-----------------------------------------------------------------------------
(* The prober, a reload, the operator, the clock and a crash *)

\* A probe is evidence about the deployment it probed and nothing wider.
ObserveProbe(s, healthy) ==
  /\ At(Prober, "idle")
  /\ IF healthy THEN Drop({s})
     ELSE /\ Observe({s}, [x \in Scopes |-> availabilityPolicy("deployment", 1)],
                     [x \in Scopes |-> [reason |-> "", answered |-> TRUE, retryAfter |-> 0]], 0)
          /\ UNCHANGED probes
  /\ FlushTo(Prober, "idle")
  /\ UNCHANGED <<storeVars, lease, topologyVars, clearing, crashes>>

\* Whatever is held against deployments that are gone is forgotten.
RetainDeployments(live) ==
  /\ At(Prober, "idle")
  /\ Drop(Deployments \ live)
  /\ FlushTo(Prober, "idle")
  /\ UNCHANGED <<storeVars, lease, topologyVars, clearing, crashes>>

\* A registry with a credential's new secret, or without the credential, is swapped in.
ReplaceRegistry(c) ==
  /\ At(Reloader, "idle")
  /\ \/ /\ c \in listed /\ revision[c] < MaxRevision
        /\ revision' = [revision EXCEPT ![c] = @ + 1] /\ UNCHANGED listed
     \/ /\ listed' = IF c \in listed THEN listed \ {c} ELSE listed \cup {c}
        /\ UNCHANGED revision
  /\ pc' = [pc EXCEPT ![Reloader] = "replaced"]
  /\ UNCHANGED <<gateVars, storeVars, io, lease, clearing, crashes>>

Outdated == {s \in Scopes : /\ s.kind \in CredentialKinds
                            /\ \/ s.key[1] \notin listed
                               \/ revision[s.key[1]] > scopes[s].rev}

\* What is held against a credential that is gone or replaced is forgotten.
ForgetOutdatedCredentials ==
  /\ At(Reloader, "replaced")
  /\ Drop(Outdated)
  /\ FlushTo(Reloader, "idle")
  /\ UNCHANGED <<storeVars, lease, topologyVars, clearing, crashes>>

\* ClearDurable: the store lock is taken and everything already decided is written...
ClearDurable(s) ==
  /\ At(Operator, "idle") /\ storeLock = NoOne
  /\ clearing' = s
  /\ storeLock' = Operator
  /\ draining' = pending /\ pending' = [x \in Scopes |-> <<>>]
  /\ pc' = [pc EXCEPT ![Operator] = "remove"]
  /\ io' = [io EXCEPT ![Operator] = "drain"]
  /\ UNCHANGED <<scopes, probes, rows, lost, failures, lease, topologyVars, crashes>>

\* ...the row is deleted with its audit record (ErrNotFound ends the clear)...
RemoveRow ==
  /\ At(Operator, "remove")
  /\ \/ /\ rows[clearing] # NoRow
        /\ rows' = [rows EXCEPT ![clearing] = NoRow] /\ lost' = lost \ {clearing}
        /\ pc' = [pc EXCEPT ![Operator] = "forget"]
        /\ UNCHANGED <<storeLock, clearing, failures>>
     \/ /\ \/ rows[clearing] = NoRow /\ UNCHANGED failures
           \/ failures < MaxFailures /\ failures' = failures + 1
        /\ pc' = [pc EXCEPT ![Operator] = "idle"]
        /\ storeLock' = NoOne /\ clearing' = NoScope
        /\ UNCHANGED <<rows, lost>>
  /\ UNCHANGED <<gateVars, draining, io, lease, topologyVars, crashes>>

\* Mutant: what was queued for the scope meanwhile is still written.
MutClearScope ==
  /\ At(Operator, "forget")
  /\ scopes' = [scopes EXCEPT ![clearing] = Blank]
  /\ probes' = [probes EXCEPT ![clearing] = {}]
  /\ pc' = [pc EXCEPT ![Operator] = "idle"]
  /\ storeLock' = NoOne /\ clearing' = NoScope
  /\ UNCHANGED <<pending, draining, rows, lost, failures, io, lease, topologyVars, crashes>>

\* ...and the scope goes, with whatever was queued for it in the meantime.
ClearScope ==
  /\ At(Operator, "forget")
  /\ scopes' = [scopes EXCEPT ![clearing] = Blank]
  /\ probes' = [probes EXCEPT ![clearing] = {}]
  /\ pending' = [pending EXCEPT ![clearing] = <<>>]
  /\ pc' = [pc EXCEPT ![Operator] = "idle"]
  /\ storeLock' = NoOne /\ clearing' = NoScope
  /\ UNCHANGED <<draining, rows, lost, failures, io, lease, topologyVars, crashes>>

\* The end of a suspension is reached.
WindowEnds(s) ==
  /\ scopes[s].until = "ahead"
  /\ scopes' = [scopes EXCEPT ![s].until = "passed"]
  /\ UNCHANGED <<pending, probes, storeVars, pc, io, lease, topologyVars, clearing, crashes>>

\* Restore: the state a stored row comes back as.
Restored(row, until) ==
  [failures |-> DefaultPolicies(row.reason).threshold, policy |-> DefaultPolicies(row.reason),
   until |-> IF row.indefinite THEN "none" ELSE until, indefinite |-> row.indefinite,
   window |-> row.window, probing |-> 0, reason |-> row.reason, rev |-> row.rev,
   persisted |-> TRUE]

\* The process dies and a new one restores the rows before it serves.  The row holds
\* the end of its window, which may have passed by then.
Crash ==
  /\ crashes < MaxCrashes
  /\ crashes' = crashes + 1
  /\ \E until \in [Scopes -> {"ahead", "passed"}] :
       scopes' = [s \in Scopes |-> IF rows[s] = NoRow THEN Blank
                                   ELSE Restored(rows[s], until[s])]
  /\ pending' = [s \in Scopes |-> <<>>] /\ draining' = [s \in Scopes |-> <<>>]
  /\ probes' = [s \in Scopes |-> {}] /\ lost' = {}
  /\ storeLock' = NoOne /\ clearing' = NoScope
  /\ pc' = [p \in Procs |-> "idle"] /\ io' = [p \in Procs |-> "none"]
  /\ lease' = [a \in Attempts |-> Idle]
  /\ UNCHANGED <<rows, failures, topologyVars>>

Next ==
  \/ \E p \in Procs : Flush(p)
  \/ \E a \in Attempts : Filter(a) \/ AttemptStep(a)
  \/ \E s \in Deployments, healthy \in BOOLEAN : ObserveProbe(s, healthy)
  \/ \E live \in SUBSET Deployments : RetainDeployments(live)
  \/ \E c \in Credentials : ReplaceRegistry(c)
  \/ ForgetOutdatedCredentials
  \/ \E s \in Scopes : ClearDurable(s) \/ WindowEnds(s)
  \/ RemoveRow \/ ClearScope
  \/ Crash

\* Goroutines are scheduled, a provider call ends by its own deadline, and a Go mutex
\* is not withheld for ever from one that waits for it.  Nothing obliges requests,
\* probes, reloads, clears or crashes to happen.
Fairness ==
  /\ \A p \in Procs : SF_vars(Flush(p))
  /\ \A a \in Attempts : WF_vars(AttemptStep(a))
  /\ WF_vars(ForgetOutdatedCredentials) /\ WF_vars(RemoveRow) /\ WF_vars(ClearScope)

Spec == Init /\ [][Next]_vars
FairSpec == Spec /\ Fairness

-----------------------------------------------------------------------------
(* Properties *)

Leases == [target : Targets, rev : 0..MaxRevision, claimed : SUBSET Scopes,
           observation : Observations]

\* The states of the scopes, and their rows: stored, being written and queued.
StatesOK ==
  /\ scopes \in [Scopes -> ScopeStates]
  /\ pending \in [Scopes -> Seq(Rows \cup {NoRow})]
  /\ draining \in [Scopes -> Seq(Rows \cup {NoRow})]
  /\ rows \in [Scopes -> Rows \cup {NoRow}]

\* The goroutines, and who holds what.
ControlOK ==
  /\ storeLock \in Procs \cup {NoOne}
  /\ pc \in [Procs -> {"idle", "resolved", "calling", "released", "reporting",
                       "replaced", "remove", "forget"}]
  /\ io \in [Procs -> {"none", "flush", "drain"}]
  /\ lease \in [Attempts -> Leases]
  /\ clearing \in Scopes
  /\ probes \in [Scopes -> SUBSET Attempts]

\* The serving registry, and what a run may still see fail.
RegistryOK ==
  /\ revision \in [Credentials -> 1..MaxRevision] /\ listed \subseteq Credentials
  /\ lost \subseteq Scopes
  /\ crashes \in 0..MaxCrashes /\ failures \in 0..MaxFailures

\* Every variable keeps the shape of the structure it models.
TypeOK == StatesOK /\ ControlOK /\ RegistryOK

\* What the store will say of a scope once everything decided so far is written.
Queued(s) == draining[s] \o pending[s]
LastWord(s) == IF Queued(s) = <<>> THEN rows[s] ELSE Queued(s)[Len(Queued(s))]

\* Between its commit and the end of its clear the operator's scope has a state and no
\* row.
BeingCleared(s) == Operator \in Procs /\ s = clearing /\ pc[Operator] = "forget"

Remembers(row, st) ==
  IF persistable(st)
    THEN row # NoRow /\ row.indefinite = st.indefinite /\ row.window = st.window
    ELSE row = NoRow

\* The store agrees with the gate once the queue is written: no order of flushes, drops,
\* clears and failures leaves a row that outlives its suspension, loses the row of a
\* long refusal, or restores another window than the gate decided.  Only a scope whose
\* latest write failed may disagree, and whatever is queued for it puts it right.
RowsFollowGate ==
  \A s \in Scopes : ~BeingCleared(s) /\ (s \in lost => Queued(s) # <<>>)
                      => Remembers(LastWord(s), scopes[s])

\* A probe slot is never stranded: the slots a suspension counts are held by attempts
\* in flight through it, whichever way Admit, Done and Abandon leave.
NoSlotLeaks ==
  \A s \in Scopes :
    /\ scopes[s].probing <= Cardinality(probes[s])
    /\ \A a \in probes[s] : pc[a] = "calling" /\ s \in lease[a].claimed

\* A restart with nothing left to write remembers exactly the long refusals, and what is
\* remembered is what was in force, unless the scope's write failed.
RestartRemembers ==
  [][crashes' # crashes /\ storeLock = NoOne /\ (\A s \in Scopes : pending[s] = <<>>)
       => \A s \in Scopes \ lost :
            IF persistable(scopes[s])
              THEN /\ suspended(scopes'[s])
                   /\ scopes'[s].indefinite = scopes[s].indefinite
                   /\ scopes'[s].window = scopes[s].window
              ELSE scopes'[s] = Blank]_vars

\* An expired suspension whose slots are all taken gets one back, or ends, or is
\* suspended anew: it never stays shut for want of a slot.
SlotsComeBack ==
  \A s \in Scopes :
    LET full == scopes[s].until = "passed" /\ scopes[s].probing >= HalfOpenMaxRequests
    IN full ~> ~full
=============================================================================
