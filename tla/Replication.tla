----------------------------- MODULE Replication -----------------------------
(***************************************************************************)
(* The replicated group: internal/replication (the Primary's coordinator,  *)
(* the Replica's receiver, the durable member state, promises) with        *)
(* internal/app/replication_runtime.go (what members do on each other's    *)
(* Hello) and internal/app/cluster_member.go (offline promotion).          *)
(*                                                                         *)
(* Everything a member decides by is durable: role, term, promised_term,   *)
(* the ordering journal and its three watermarks.  The network keeps       *)
(* nothing else that matters: a frame in flight is a frame of some         *)
(* Primary's journal, an acknowledgement in flight is a prefix its sender  *)
(* still holds, and promises are kept in a set that never shrinks, so all  *)
(* of them may be lost, delayed or repeated.                               *)
(***************************************************************************)
EXTENDS Naturals, Sequences, FiniteSets, SequencesExt

CONSTANTS
    Members,            \* the node identities
    First,              \* the member the group is formed around
    MaxTerm,            \* bound on terms
    MaxIndex,           \* bound on the index of a frame written while running
    MaxCrashes          \* bound on crashes

ASSUME MembersAssumption ==
    /\ First \in Members
    /\ \E a, b \in Members :
          First # a /\ First # b /\ a # b /\ Members = {First, a, b}

ASSUME BoundsAssumption ==
    /\ MaxTerm \in Nat \ {0}
    /\ MaxIndex \in Nat
    /\ MaxCrashes \in Nat

VARIABLES
    role,      \* MemberState.Role: Primary or Replica
    term,      \* MemberState.Term
    promised,  \* MemberState.PromisedTerm
    log,       \* the ordering journal; its length is DurableIndex
    confirmed, \* MemberState.ConfirmedIndex
    applied,   \* MemberState.AppliedIndex
    reseed,    \* is the reseed-required marker present?
    up,        \* does the member's process run?
    heard,     \* replicationRuntime.startupPeers of a Primary
    need,      \* replicationRuntime.startupPeerQuorum of a Primary
    ready,     \* replicationRuntime.startupReady of a Primary
    campaign,  \* the term an offline promotion is under way for, or 0
    crashes,   \* crashes so far
    promises,  \* every promise ever made, the candidate's own included
    overtaken  \* history: did a promotion go through on answers only of
               \* members whose journals reach further than the candidate's?

member == <<role, term, promised>>
journal == <<log, confirmed, applied>>
startup == <<heard, need, ready>>
rest == <<campaign, crashes, promises, overtaken>>
vars == <<role, term, promised, log, confirmed, applied, reseed, up,
          heard, need, ready, campaign, crashes, promises, overtaken>>

Peers(m) == Members \ {m}

Frame == [term : 1..MaxTerm, by : Members, anchor : BOOLEAN]

PromotionPromise ==
    [term : 1..MaxTerm, to : Members, from : Members,
     lastFrameTerm : 0..MaxTerm, durable : Nat]

\* MemberState's role and terms.
MemberOK ==
    /\ role \in [Members -> {"Primary", "Replica"}]
    /\ term \in [Members -> 1..MaxTerm]
    /\ promised \in [Members -> 1..MaxTerm]
    /\ \A m \in Members : term[m] <= promised[m]

\* The journal and its watermarks, each within the next.
JournalOK ==
    /\ log \in [Members -> Seq(Frame)]
    /\ confirmed \in [Members -> Nat]
    /\ applied \in [Members -> Nat]
    /\ \A m \in Members :
          applied[m] <= confirmed[m] /\ confirmed[m] <= Len(log[m])

ProcessOK ==
    /\ reseed \in [Members -> BOOLEAN]
    /\ up \in [Members -> BOOLEAN]
    /\ heard \in [Members -> SUBSET Members]
    /\ need \in [Members -> 1..2]
    /\ ready \in [Members -> BOOLEAN]

PromotionOK ==
    /\ campaign \in [Members -> 0..MaxTerm]
    /\ crashes \in 0..MaxCrashes
    /\ promises \in SUBSET PromotionPromise
    /\ overtaken \in BOOLEAN

\* The types, a promise never below the term, and the watermarks in order
\* (MemberState.Validate).
TypeOK == MemberOK /\ JournalOK /\ ProcessOK /\ PromotionOK

-----------------------------------------------------------------------------
\* A freshly formed group, all processes stopped.
Init ==
    /\ role = [m \in Members |-> IF m = First THEN "Primary" ELSE "Replica"]
    /\ term = [m \in Members |-> 1]
    /\ promised = [m \in Members |-> 1]
    /\ log = [m \in Members |-> <<>>]
    /\ confirmed = [m \in Members |-> 0]
    /\ applied = [m \in Members |-> 0]
    /\ reseed = [m \in Members |-> FALSE]
    /\ up = [m \in Members |-> FALSE]
    /\ heard = [m \in Members |-> {}]
    /\ need = [m \in Members |-> 2]
    /\ ready = [m \in Members |-> FALSE]
    /\ campaign = [m \in Members |-> 0]
    /\ crashes = 0
    /\ promises = {}
    /\ overtaken = FALSE

\* The term of the last frame of a journal, 0 when it is empty.
LastTerm(frames) == IF frames = <<>> THEN 0 ELSE frames[Len(frames)].term

Anchor(m, t) == [term |-> t, by |-> m, anchor |-> TRUE]
Data(m, t) == [term |-> t, by |-> m, anchor |-> FALSE]

\* The process of m ends; a Primary's startup adjudication goes with it.
Exit(m) ==
    /\ up' = [up EXCEPT ![m] = FALSE]
    /\ heard' = [heard EXCEPT ![m] = {}]
    /\ need' = [need EXCEPT ![m] = 2]
    /\ ready' = [ready EXCEPT ![m] = FALSE]

\* A member that waits for a full reseed does not start.
Startable(m) == ~up[m] /\ campaign[m] = 0 /\ ~reseed[m]

\* A Replica opens its receiver on the journal it has.
StartReplica(m) ==
    /\ Startable(m)
    /\ role[m] = "Replica"
    /\ up' = [up EXCEPT ![m] = TRUE]
    /\ UNCHANGED <<member, journal, reseed, startup, rest>>


\* A Primary that has no frame of its term writes the leadership anchor and
\* asks for all its peers before it serves.  The anchor of an offline
\* promotion that is not confirmed yet asks for one of them only.
StartPrimary(m) ==
    LET anchored == LastTerm(log[m]) = term[m]
        recovered == \E i \in confirmed[m] + 1..Len(log[m]) :
                        log[m][i].anchor /\ log[m][i].term = term[m]
    IN  /\ Startable(m)
        /\ role[m] = "Primary"
        /\ log' = IF anchored THEN log
                  ELSE [log EXCEPT ![m] = Append(@, Anchor(m, term[m]))]
        /\ need' = [need EXCEPT ![m] = IF recovered THEN 1 ELSE 2]
        /\ up' = [up EXCEPT ![m] = TRUE]
        /\ UNCHANGED <<member, confirmed, applied, reseed, heard, ready,
                       rest>>

\* A crash, or an exit on an error that changes nothing durable.
Crash(m) ==
    /\ up[m]
    /\ crashes < MaxCrashes
    /\ crashes' = crashes + 1
    /\ Exit(m)
    /\ UNCHANGED <<member, journal, reseed, campaign, promises, overtaken>>

-----------------------------------------------------------------------------
\* What members do on a peer's Hello.

Running(m, r) == up[m] /\ role[m] = r

\* Mutant: a suffix that is not confirmed does not count.
MutRequiresReseed(m, peer) ==
    \/ Len(log[m]) > Len(log[peer])
    \/ applied[m] > applied[peer]

\* A demoted member may keep its journal only if all of it is confirmed and
\* applied and reaches no further than the peer's.
primaryProgressRequiresReseed(m, peer) ==
    \/ Len(log[m]) # confirmed[m]
    \/ confirmed[m] # applied[m]
    \/ Len(log[m]) > Len(log[peer])
    \/ applied[m] > applied[peer]

\* A Primary counts a Replica that promised exactly its term and is not
\* ahead of it, until it has counted enough.
HearReplica(p, r) ==
    /\ Running(p, "Primary")
    /\ Running(r, "Replica")
    /\ promised[r] = term[p]
    /\ Len(log[r]) <= Len(log[p])
    /\ ~ready[p] /\ Cardinality(heard[p]) < need[p]
    /\ r \notin heard[p]
    /\ heard' = [heard EXCEPT ![p] = @ \cup {r}]
    /\ UNCHANGED <<member, journal, reseed, up, need, ready, rest>>

\* Mutant: the demotion takes over the term and leaves the promise.
MutHearHigherTerm(p, peer) ==
    /\ Running(p, "Primary")
    /\ up[peer]
    /\ peer # p
    /\ promised[peer] > term[p]
    /\ role' = [role EXCEPT ![p] = "Replica"]
    /\ term' = [term EXCEPT ![p] = IF term[peer] > @ THEN term[peer] ELSE @]
    /\ reseed' = [reseed EXCEPT ![p] =
                     @ \/ primaryProgressRequiresReseed(p, peer)]
    /\ Exit(p)
    /\ UNCHANGED <<promised, journal, rest>>

\* A Primary that meets a higher term or promise steps down and exits.
HearHigherTerm(p, peer) ==
    /\ Running(p, "Primary")
    /\ up[peer]
    /\ peer # p
    /\ promised[peer] > term[p]
    /\ role' = [role EXCEPT ![p] = "Replica"]
    /\ term' = [term EXCEPT ![p] = IF term[peer] > @ THEN term[peer] ELSE @]
    /\ promised' = [promised EXCEPT ![p] = promised[peer]]
    /\ reseed' = [reseed EXCEPT ![p] =
                     @ \/ primaryProgressRequiresReseed(p, peer)]
    /\ Exit(p)
    /\ UNCHANGED <<journal, rest>>

\* A Replica that meets the Primary of the term it promised.
MeetsNewPrimary(r, p) ==
    /\ Running(r, "Replica")
    /\ Running(p, "Primary")
    /\ term[p] > term[r]
    /\ term[p] = promised[r]

AdoptTerm(r, p) ==
    /\ MeetsNewPrimary(r, p)
    /\ ~primaryProgressRequiresReseed(r, p)
    /\ term' = [term EXCEPT ![r] = term[p]]
    /\ UNCHANGED <<role, promised, journal, reseed, up, startup, rest>>

RequireReseed(r, p) ==
    /\ MeetsNewPrimary(r, p)
    /\ primaryProgressRequiresReseed(r, p)
    /\ reseed' = [reseed EXCEPT ![r] = TRUE]
    /\ Exit(r)
    /\ UNCHANGED <<member, journal, rest>>

-----------------------------------------------------------------------------
\* Replication within a term.

\* The Replica and the Primary share a data session.
Joined(r, p) ==
    /\ Running(r, "Replica")
    /\ Running(p, "Primary")
    /\ term[r] = term[p]
    /\ promised[r] = term[p]
    /\ Len(log[r]) <= Len(log[p])

\* Mutant: the promise is not looked at.
MutAdmits(r, frame) ==
    /\ frame.term = term[r]
    /\ frame.anchor <=> LastTerm(log[r]) # term[r]

\* Nothing below the promise, nothing of another term, the term's first frame
\* its anchor and no other.
Admits(r, frame) ==
    /\ frame.term >= promised[r]
    /\ frame.term = term[r]
    /\ frame.anchor <=> LastTerm(log[r]) # term[r]

\* The frame of p's journal that continues r's arrives, sent while p was
\* Primary of its term.  What is durable here is durable twice, so it is
\* confirmed.  A frame that r already holds changes nothing.
Receive(r, p) ==
    LET index == Len(log[r]) + 1
    IN  /\ Running(r, "Replica")
        /\ p # r
        /\ index <= Len(log[p])
        /\ Admits(r, log[p][index])
        /\ log' = [log EXCEPT ![r] = Append(@, log[p][index])]
        /\ confirmed' = [confirmed EXCEPT ![r] = index]
        /\ UNCHANGED <<member, applied, reseed, up, startup, rest>>

\* The Replica's projection reaches index.
AdvanceApplied(r, index) ==
    /\ Running(r, "Replica")
    /\ index \in applied[r] + 1..confirmed[r]
    /\ applied' = [applied EXCEPT ![r] = index]
    /\ UNCHANGED <<member, log, confirmed, reseed, up, startup, rest>>

\* Mutant: an acknowledgement counts for the whole journal.
MutAcknowledges(r, p, index) ==
    /\ index \in 1..Len(log[p])
    /\ Joined(r, p)

\* r acknowledged index in p's term: it is in session with p now, or it was
\* when it took the frame.
Acknowledges(r, p, index) ==
    /\ index \in 1..Len(log[r])
    /\ Joined(r, p) \/ log[r][index].term = term[p]

\* One Replica's acknowledgement confirms the prefix on the Primary.
Acknowledge(p, r, index) ==
    /\ Running(p, "Primary")
    /\ r # p
    /\ Acknowledges(r, p, index)
    /\ index \in confirmed[p] + 1..Len(log[p])
    /\ confirmed' = [confirmed EXCEPT ![p] = index]
    /\ applied' = [applied EXCEPT ![p] = index]
    /\ UNCHANGED <<member, log, reseed, up, startup, rest>>

\* Mutant: clients are let in once enough peers were heard.
MutStartupReady(p) ==
    /\ Running(p, "Primary")
    /\ ~ready[p]
    /\ Cardinality(heard[p]) >= need[p]
    /\ \E r \in Members : Joined(r, p)
    /\ ready' = [ready EXCEPT ![p] = TRUE]
    /\ heard' = [heard EXCEPT ![p] = {}]
    /\ need' = [need EXCEPT ![p] = 2]
    /\ UNCHANGED <<member, journal, reseed, up, rest>>

\* Enough peers were heard and the anchor of the term is confirmed: clients
\* are let in.
StartupReady(p) ==
    /\ Running(p, "Primary")
    /\ ~ready[p]
    /\ Cardinality(heard[p]) >= need[p]
    /\ \E r \in Members : Joined(r, p)
    /\ LastTerm(SubSeq(log[p], 1, confirmed[p])) = term[p]
    /\ ready' = [ready EXCEPT ![p] = TRUE]
    /\ heard' = [heard EXCEPT ![p] = {}]
    /\ need' = [need EXCEPT ![p] = 2]
    /\ UNCHANGED <<member, journal, reseed, up, rest>>

\* A write reaches the Primary's journal.  Clients' writes wait until the
\* startup is ready; lease recovery, Audit and background work do not.
RecordDurable(p) ==
    /\ Running(p, "Primary")
    /\ Len(log[p]) < MaxIndex
    /\ log' = [log EXCEPT ![p] = Append(@, Data(p, term[p]))]
    /\ UNCHANGED <<member, confirmed, applied, reseed, up, startup, rest>>

-----------------------------------------------------------------------------
\* Promotion.

PromiseOf(m, c, t) ==
    [term |-> t, to |-> c, from |-> m,
     lastFrameTerm |-> LastTerm(log[m]), durable |-> Len(log[m])]

\* The operator promotes the stopped member c, a Replica or, with --self,
\* the Primary: it promises itself the next term.
Propose(c) ==
    LET t == promised[c] + 1
    IN  /\ ~up[c]
        /\ campaign[c] = 0
        /\ Len(log[c]) = confirmed[c]
        /\ confirmed[c] = applied[c]
        /\ t <= MaxTerm
        /\ promised' = [promised EXCEPT ![c] = t]
        /\ role' = [role EXCEPT ![c] = "Replica"]
        /\ campaign' = [campaign EXCEPT ![c] = t]
        /\ promises' = promises \cup {PromiseOf(c, c, t)}
        /\ UNCHANGED <<term, journal, reseed, up, startup, crashes, overtaken>>

\* Mutant: a proposal of the promised term is answered again.
MutPromise(m, c, t) ==
    /\ up[m]
    /\ m # c
    /\ \E own \in promises : own.from = c /\ own.to = c /\ own.term = t
    /\ t >= promised[m]
    /\ promised' = [promised EXCEPT ![m] = t]
    /\ role' = [role EXCEPT ![m] = "Replica"]
    /\ promises' = promises \cup {PromiseOf(m, c, t)}
    /\ IF role[m] = "Primary" THEN Exit(m) ELSE UNCHANGED <<up, startup>>
    /\ UNCHANGED <<term, journal, reseed, campaign, crashes, overtaken>>

\* A proposal reaches the running member m, early or late.  A Primary that
\* promises stops confirming and exits.
Promise(m, c, t) ==
    /\ up[m]
    /\ m # c
    /\ t > promised[m]
    /\ \E own \in promises : own.from = c /\ own.to = c /\ own.term = t
    /\ promised' = [promised EXCEPT ![m] = t]
    /\ role' = [role EXCEPT ![m] = "Replica"]
    /\ promises' = promises \cup {PromiseOf(m, c, t)}
    /\ IF role[m] = "Primary" THEN Exit(m) ELSE UNCHANGED <<up, startup>>
    /\ UNCHANGED <<term, journal, reseed, campaign, crashes, overtaken>>

\* The answers of peers that c's running promotion may have received.
Answers(c) ==
    {answer \in promises : /\ answer.to = c
                           /\ answer.from # c
                           /\ answer.term = campaign[c]}

\* The journal that answered reaches further than c's: by the term of the last
\* frame, then by length.
Further(answer, c) ==
    \/ answer.lastFrameTerm > LastTerm(log[c])
    \/ answer.lastFrameTerm = LastTerm(log[c]) /\ answer.durable > Len(log[c])

\* At least one answer, and none from a member that is further than c, as far
\* as its term and applied index tell: the term of c's last frame may be lower.
ValidatePromotionPromises(c, answers) ==
    /\ answers # {}
    /\ \A answer \in answers :
          /\ answer.lastFrameTerm <= term[c]
          /\ answer.lastFrameTerm = term[c] => answer.durable <= applied[c]

\* The promotion is durable with the member state; the anchor and the Audit
\* frame follow, or do not when the command dies in between.
Promote(c) ==
    /\ campaign[c] # 0
    /\ \E answers \in SUBSET Answers(c) :
          /\ ValidatePromotionPromises(c, answers)
          /\ overtaken' = (overtaken \/ \A answer \in answers : Further(answer, c))
    /\ campaign[c] = promised[c]
    /\ role' = [role EXCEPT ![c] = "Primary"]
    /\ term' = [term EXCEPT ![c] = promised[c]]
    /\ \E frames \in {<<>>, <<Anchor(c, promised[c])>>,
                      <<Anchor(c, promised[c]), Data(c, promised[c])>>} :
          log' = [log EXCEPT ![c] = @ \o frames]
    /\ campaign' = [campaign EXCEPT ![c] = 0]
    /\ UNCHANGED <<promised, confirmed, applied, reseed, up, startup, crashes,
                   promises>>

\* The promotion fails or is given up; its promises stay.
AbandonPromotion(c) ==
    /\ campaign[c] # 0
    /\ campaign' = [campaign EXCEPT ![c] = 0]
    /\ UNCHANGED <<member, journal, reseed, up, startup, crashes, promises, overtaken>>

-----------------------------------------------------------------------------
Next ==
    \/ \E m \in Members :
          \/ StartReplica(m)
          \/ StartPrimary(m)
          \/ Crash(m)
          \/ StartupReady(m)
          \/ RecordDurable(m)
          \/ Propose(m)
          \/ Promote(m)
          \/ AbandonPromotion(m)
    \/ \E p, r \in Members :
          \/ HearReplica(p, r)
          \/ HearHigherTerm(p, r)
          \/ AdoptTerm(r, p)
          \/ RequireReseed(r, p)
          \/ Receive(r, p)
          \/ \E index \in 1..Len(log[p]) : Acknowledge(p, r, index)
          \/ \E t \in 1..MaxTerm : Promise(r, p, t)
    \/ \E r \in Members : \E index \in 1..confirmed[r] : AdvanceApplied(r, index)

Spec == Init /\ [][Next]_vars

-----------------------------------------------------------------------------
\* No two members are Primary of one term: a member answers one candidate
\* per term (StatePublisher.Promise), and a promotion needs an answer.
OnePrimaryPerTerm ==
    \A p, q \in Members :
        role[p] = "Primary" /\ role[q] = "Primary" /\ term[p] = term[q]
            => p = q

\* A legal switch loses nothing that was confirmed: a confirmed frame is in
\* the journal of every Primary of its term or a later one.
SwitchKeepsConfirmed ==
    \A p, m \in Members : \A i \in 1..confirmed[m] :
        role[p] = "Primary" /\ log[m][i].term <= term[p]
            => i <= Len(log[p]) /\ log[p][i] = log[m][i]

\* The same until a candidate was promoted on the word of members that are all
\* further than it (ValidatePromotionPromises lets it): no other order of
\* promises, crashes, demotions and acknowledgements loses a confirmed frame.
ConfirmedSurvives == ~overtaken => SwitchKeepsConfirmed

\* What any member counts as confirmed is the same frame in the journals of
\* two members: the claim ReplicaReceiver.Receive makes without asking the
\* Primary, and what one acknowledgement tells the Primary.
ConfirmedOnTwo ==
    \A m \in Members : \A i \in 1..confirmed[m] :
        \E other \in Peers(m) : i <= Len(log[other]) /\ log[other][i] = log[m][i]

\* A Primary that lets clients in has the anchor of its term, and with it all
\* that came before, in a second journal: it never serves a tenure that only
\* itself remembers (catchUpPrimaryPeer, requireMemberStartup).
ServesEstablishedTerm ==
    \A p \in Members : ready[p] =>
        \E r \in Peers(p), i \in 1..Len(log[p]) :
            /\ log[p][i].anchor /\ log[p][i].term = term[p]
            /\ i <= Len(log[r])
            /\ SubSeq(log[r], 1, i) = SubSeq(log[p], 1, i)

\* A Replica that is in a Primary's term and waits for no reseed holds a
\* prefix of that Primary's journal: adoption compares lengths only, and the
\* Primary's journal need not be the one that reaches furthest.
ReplicaHoldsPrefix ==
    \A p, r \in Members :
        role[p] = "Primary" /\ role[r] = "Replica" /\ ~reseed[r]
            /\ term[r] = term[p] /\ promised[r] = term[p]
            => IsPrefix(log[r], log[p])

=============================================================================
