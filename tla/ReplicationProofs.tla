-------------------------- MODULE ReplicationProofs --------------------------
(***************************************************************************)
(* Type correctness and election safety of Replication, for any three      *)
(* members and any bounds on terms, indexes and crashes.                   *)
(*                                                                         *)
(* Then what holds of the journals whatever is promoted: frames of one     *)
(* term come from one journal, who follows a term holds a prefix of its    *)
(* Primary's journal, and what is confirmed is on two members.             *)
(*                                                                         *)
(* And that a switch of the Primary loses nothing that was confirmed until *)
(* a candidate was promoted that all who answered are ahead of.  That      *)
(* argument is by votes, not by induction on terms: a frame that some      *)
(* journal with a frame of a later term does not hold is one that two of   *)
(* the three members do not hold and, having promised that later term,     *)
(* never will, so it is never confirmed.                                   *)
(***************************************************************************)
EXTENDS Replication, TLAPS

\* c promised itself the term t.
Proposed(c, t) ==
    \E own \in promises : own.from = c /\ own.to = c /\ own.term = t

\* One of the peers of c promised it the term t.
Answered(c, t) ==
    \E answer \in promises : answer.from # c /\ answer.to = c /\ answer.term = t

\* A promise binds its member, and a member gives each term to one candidate.
PromisesBind ==
    /\ \A v \in promises : 1 < v.term /\ v.term <= promised[v.from]
    /\ \A v, w \in promises :
          v.from = w.from /\ v.term = w.term => v.to = w.to

\* A promotion that is under way promised itself its term.
CampaignsProposed ==
    \A c \in Members : campaign[c] # 0 => Proposed(c, campaign[c])

\* A Primary's term is its promise, and it got there with a peer's promise
\* unless it is the member the group was formed around.
PrimariesElected ==
    \A p \in Members : role[p] = "Primary" =>
        /\ term[p] = promised[p]
        /\ \/ term[p] = 1 /\ p = First
           \/ Proposed(p, term[p]) /\ Answered(p, term[p])

IInv == TypeOK /\ PromisesBind /\ CampaignsProposed /\ PrimariesElected

-----------------------------------------------------------------------------
\* LastTerm reads the term of a frame, or 0.
LEMMA LastTermType ==
  ASSUME NEW frames \in Seq(Frame)
  PROVE  LastTerm(frames) \in 0..MaxTerm
<1>1. CASE frames = <<>>
  BY <1>1, BoundsAssumption DEF LastTerm
<1>2. CASE frames # <<>>
  <2>1. frames[Len(frames)] \in Frame
    BY <1>2
  <2> QED BY <1>2, <2>1 DEF LastTerm, Frame
<1> QED BY <1>1, <1>2

\* What a member answers is a promise.
LEMMA PromiseType ==
  ASSUME TypeOK, NEW m \in Members, NEW c \in Members, NEW t \in 1..MaxTerm
  PROVE  PromiseOf(m, c, t) \in PromotionPromise
<1>1. log[m] \in Seq(Frame)
  BY DEF TypeOK, JournalOK
<1>2. LastTerm(log[m]) \in 0..MaxTerm /\ Len(log[m]) \in Nat
  BY <1>1, LastTermType
<1> QED BY <1>2 DEF PromiseOf, PromotionPromise

\* The frames a Primary of term t writes are frames.
LEMMA FrameType ==
  ASSUME NEW m \in Members, NEW t \in 1..MaxTerm
  PROVE  Anchor(m, t) \in Frame /\ Data(m, t) \in Frame
BY DEF Anchor, Data, Frame

-----------------------------------------------------------------------------
\* The types, one part at a time.

\* The end of a process.
LEMMA ExitOK ==
  ASSUME ProcessOK, NEW m \in Members, Exit(m), reseed' \in [Members -> BOOLEAN]
  PROVE  ProcessOK'
<1>1. up' \in [Members -> BOOLEAN] /\ ready' \in [Members -> BOOLEAN]
  BY DEF ProcessOK, Exit
<1>2. heard' \in [Members -> SUBSET Members]
  BY DEF ProcessOK, Exit
<1>3. need' \in [Members -> 1..2]
  BY DEF ProcessOK, Exit
<1> QED BY <1>1, <1>2, <1>3 DEF ProcessOK

\* Roles and terms: whoever raises a term has the promise for it.
LEMMA MemberStep ==
  ASSUME TypeOK, [Next]_vars
  PROVE  MemberOK'
<1>0. MemberOK
  BY DEF TypeOK
<1>1. CASE UNCHANGED member
  BY <1>0, <1>1 DEF MemberOK, member
<1>2. ASSUME NEW p \in Members, NEW r \in Members, HearHigherTerm(p, r)
      PROVE  MemberOK'
  BY <1>0, <1>2 DEF MemberOK, HearHigherTerm
<1>3. ASSUME NEW p \in Members, NEW r \in Members, AdoptTerm(r, p)
      PROVE  MemberOK'
  BY <1>0, <1>3 DEF MemberOK, AdoptTerm, MeetsNewPrimary
<1>4. ASSUME NEW c \in Members, Propose(c)
      PROVE  MemberOK'
  BY <1>0, <1>4 DEF MemberOK, Propose
<1>5. ASSUME NEW m \in Members, NEW c \in Members, NEW t \in 1..MaxTerm,
             Promise(m, c, t)
      PROVE  MemberOK'
  BY <1>0, <1>5 DEF MemberOK, Promise
<1>6. ASSUME NEW c \in Members, Promote(c)
      PROVE  MemberOK'
  BY <1>0, <1>6 DEF MemberOK, Promote
<1> QED
  BY <1>1, <1>2, <1>3, <1>4, <1>5, <1>6
  DEF Next, vars, member, StartReplica, StartPrimary, Crash, StartupReady,
      RecordDurable, AbandonPromotion, HearReplica, RequireReseed, Receive,
      Acknowledge, AdvanceApplied

\* Journals and watermarks: a watermark moves up to what it is bounded by.
LEMMA JournalStep ==
  ASSUME TypeOK, [Next]_vars
  PROVE  JournalOK'
<1>0. JournalOK /\ MemberOK
  BY DEF TypeOK
<1>1. CASE UNCHANGED journal
  BY <1>0, <1>1 DEF JournalOK, journal
<1>2. ASSUME NEW m \in Members, NEW frames \in Seq(Frame),
             log' = [log EXCEPT ![m] = @ \o frames],
             UNCHANGED <<confirmed, applied>>
      PROVE  JournalOK'
  <2>1. /\ log' \in [Members -> Seq(Frame)]
        /\ \A n \in Members : Len(log[n]) <= Len(log'[n])
    BY <1>0, <1>2 DEF JournalOK
  <2>2. \A n \in Members : confirmed[n] <= Len(log'[n])
    BY <1>0, <2>1 DEF JournalOK
  <2> QED BY <1>0, <1>2, <2>1, <2>2 DEF JournalOK
<1>3. ASSUME NEW m \in Members, NEW frame \in Frame,
             log' = [log EXCEPT ![m] = Append(@, frame)],
             UNCHANGED <<confirmed, applied>>
      PROVE  JournalOK'
  <2>1. /\ log' \in [Members -> Seq(Frame)]
        /\ \A n \in Members : Len(log[n]) <= Len(log'[n])
    BY <1>0, <1>3 DEF JournalOK
  <2>2. \A n \in Members : confirmed[n] <= Len(log'[n])
    BY <1>0, <2>1 DEF JournalOK
  <2> QED BY <1>0, <1>3, <2>1, <2>2 DEF JournalOK
<1>4. ASSUME NEW m \in Members, StartPrimary(m)
      PROVE  JournalOK'
  <2>1. Anchor(m, term[m]) \in Frame
    BY <1>0, FrameType DEF MemberOK
  <2> QED BY <1>1, <1>3, <1>4, <2>1 DEF StartPrimary, journal
<1>5. ASSUME NEW p \in Members, RecordDurable(p)
      PROVE  JournalOK'
  <2>1. Data(p, term[p]) \in Frame
    BY <1>0, FrameType DEF MemberOK
  <2> QED BY <1>3, <1>5, <2>1 DEF RecordDurable
<1>6. ASSUME NEW c \in Members, Promote(c)
      PROVE  JournalOK'
  <2>1. PICK frames \in {<<>>, <<Anchor(c, promised[c])>>,
                         <<Anchor(c, promised[c]), Data(c, promised[c])>>} :
             log' = [log EXCEPT ![c] = @ \o frames]
    BY <1>6 DEF Promote
  <2>2. Anchor(c, promised[c]) \in Frame /\ Data(c, promised[c]) \in Frame
    BY <1>0, FrameType DEF MemberOK
  <2>3. /\ <<>> \in Seq(Frame)
        /\ <<Anchor(c, promised[c])>> \in Seq(Frame)
        /\ <<Anchor(c, promised[c]), Data(c, promised[c])>> \in Seq(Frame)
    BY <2>2
  <2>4. frames \in Seq(Frame)
    BY <2>3
  <2> QED BY <1>2, <1>6, <2>1, <2>4 DEF Promote
<1>7. ASSUME NEW r \in Members, NEW p \in Members, Receive(r, p)
      PROVE  JournalOK'
  <2>1. log[p][Len(log[r]) + 1] \in Frame
    BY <1>0, <1>7 DEF JournalOK, Receive
  <2>2. /\ log' \in [Members -> Seq(Frame)]
        /\ \A n \in Members : Len(log'[n]) = IF n = r THEN Len(log[r]) + 1 ELSE Len(log[n])
    BY <1>0, <1>7, <2>1 DEF JournalOK, Receive
  <2>3. /\ confirmed' \in [Members -> Nat]
        /\ \A n \in Members : confirmed'[n] = IF n = r THEN Len(log[r]) + 1 ELSE confirmed[n]
    BY <1>0, <1>7 DEF JournalOK, Receive
  <2> QED BY <1>0, <1>7, <2>2, <2>3 DEF JournalOK, Receive
<1>8. ASSUME NEW r \in Members, NEW index \in Nat, AdvanceApplied(r, index)
      PROVE  JournalOK'
  BY <1>0, <1>8 DEF JournalOK, AdvanceApplied
<1>9. ASSUME NEW p \in Members, NEW r \in Members, NEW index \in Nat,
             Acknowledge(p, r, index)
      PROVE  JournalOK'
  BY <1>0, <1>9 DEF JournalOK, Acknowledge
<1>10. \A m \in Members : 1..Len(log[m]) \subseteq Nat /\ 1..confirmed[m] \subseteq Nat
  BY <1>0 DEF JournalOK
<1> QED
  BY <1>1, <1>4, <1>5, <1>6, <1>7, <1>8, <1>9, <1>10
  DEF Next, vars, journal, StartReplica, Crash, StartupReady, Propose, Promise,
      AbandonPromotion, HearReplica, HearHigherTerm, AdoptTerm, RequireReseed

\* Processes: what a running Primary counts are members.
LEMMA ProcessStep ==
  ASSUME TypeOK, [Next]_vars
  PROVE  ProcessOK'
<1>0. ProcessOK
  BY DEF TypeOK
<1>1. CASE UNCHANGED <<reseed, up, startup>>
  BY <1>0, <1>1 DEF ProcessOK, startup
<1>2. ASSUME NEW m \in Members, StartReplica(m)
      PROVE  ProcessOK'
  BY <1>0, <1>2 DEF ProcessOK, StartReplica, startup
<1>3. ASSUME NEW m \in Members, StartPrimary(m)
      PROVE  ProcessOK'
  <2>1. up' \in [Members -> BOOLEAN]
    BY <1>0, <1>3 DEF ProcessOK, StartPrimary
  <2>2. need' \in [Members -> 1..2]
    BY <1>0, <1>3 DEF ProcessOK, StartPrimary
  <2> QED BY <1>0, <1>3, <2>1, <2>2 DEF ProcessOK, StartPrimary
<1>4. ASSUME NEW m \in Members, Crash(m)
      PROVE  ProcessOK'
  BY <1>0, <1>4, ExitOK DEF ProcessOK, Crash
<1>5. ASSUME NEW p \in Members, NEW r \in Members, HearReplica(p, r)
      PROVE  ProcessOK'
  BY <1>0, <1>5 DEF ProcessOK, HearReplica
<1>6. ASSUME NEW p \in Members, NEW r \in Members, HearHigherTerm(p, r)
      PROVE  ProcessOK'
  <2>1. reseed' \in [Members -> BOOLEAN]
    BY <1>0, <1>6 DEF ProcessOK, HearHigherTerm, primaryProgressRequiresReseed
  <2> QED BY <1>0, <1>6, <2>1, ExitOK DEF HearHigherTerm
<1>7. ASSUME NEW p \in Members, NEW r \in Members, RequireReseed(r, p)
      PROVE  ProcessOK'
  <2>1. reseed' \in [Members -> BOOLEAN]
    BY <1>0, <1>7 DEF ProcessOK, RequireReseed
  <2> QED BY <1>0, <1>7, <2>1, ExitOK DEF RequireReseed
<1>8. ASSUME NEW p \in Members, StartupReady(p)
      PROVE  ProcessOK'
  <2>1. heard' \in [Members -> SUBSET Members]
    BY <1>0, <1>8 DEF ProcessOK, StartupReady
  <2>2. need' \in [Members -> 1..2]
    BY <1>0, <1>8 DEF ProcessOK, StartupReady
  <2>3. ready' \in [Members -> BOOLEAN]
    BY <1>0, <1>8 DEF ProcessOK, StartupReady
  <2> QED BY <1>0, <1>8, <2>1, <2>2, <2>3 DEF ProcessOK, StartupReady
<1>9. ASSUME NEW m \in Members, NEW c \in Members, NEW t \in 1..MaxTerm,
             Promise(m, c, t)
      PROVE  ProcessOK'
  <2>1. UNCHANGED reseed /\ (Exit(m) \/ UNCHANGED <<up, startup>>)
    BY <1>9 DEF Promise
  <2>2. reseed' \in [Members -> BOOLEAN]
    BY <1>0, <2>1 DEF ProcessOK
  <2> QED BY <1>0, <1>1, <2>1, <2>2, ExitOK
<1> QED
  BY <1>1, <1>2, <1>3, <1>4, <1>5, <1>6, <1>7, <1>8, <1>9
  DEF Next, vars, startup, RecordDurable, Propose, Promote, AbandonPromotion,
      AdoptTerm, Receive, Acknowledge, AdvanceApplied

\* Promotions: every promise in flight is well formed.
LEMMA PromotionStep ==
  ASSUME TypeOK, [Next]_vars
  PROVE  PromotionOK'
<1>0. PromotionOK /\ MemberOK
  BY DEF TypeOK
<1>1. CASE UNCHANGED rest
  BY <1>0, <1>1 DEF PromotionOK, rest
<1>2. ASSUME NEW m \in Members, Crash(m)
      PROVE  PromotionOK'
  BY <1>0, <1>2, BoundsAssumption DEF PromotionOK, Crash
<1>3. ASSUME NEW c \in Members, Propose(c)
      PROVE  PromotionOK'
  <2>1. promised[c] + 1 \in 1..MaxTerm
    BY <1>0, <1>3 DEF MemberOK, Propose
  <2>2. PromiseOf(c, c, promised[c] + 1) \in PromotionPromise
    BY <2>1, PromiseType
  <2> QED BY <1>0, <1>3, <2>1, <2>2 DEF PromotionOK, Propose
<1>4. ASSUME NEW m \in Members, NEW c \in Members, NEW t \in 1..MaxTerm,
             Promise(m, c, t)
      PROVE  PromotionOK'
  <2>1. PromiseOf(m, c, t) \in PromotionPromise
    BY PromiseType
  <2> QED BY <1>0, <1>4, <2>1 DEF PromotionOK, Promise
<1>5. ASSUME NEW c \in Members, Promote(c) \/ AbandonPromotion(c)
      PROVE  PromotionOK'
  <2>1. campaign' \in [Members -> 0..MaxTerm]
    BY <1>0, <1>5, BoundsAssumption DEF PromotionOK, Promote, AbandonPromotion
  <2>2. overtaken' \in BOOLEAN
    BY <1>0, <1>5 DEF PromotionOK, Promote, AbandonPromotion
  <2> QED BY <1>0, <1>5, <2>1, <2>2 DEF PromotionOK, Promote, AbandonPromotion
<1> QED
  BY <1>1, <1>2, <1>3, <1>4, <1>5
  DEF Next, vars, rest, StartReplica, StartPrimary, StartupReady, RecordDurable,
      HearReplica, HearHigherTerm, AdoptTerm, RequireReseed, Receive,
      Acknowledge, AdvanceApplied

\* A formed group has the types.
LEMMA InitTypes == Init => TypeOK
<1> SUFFICES ASSUME Init PROVE TypeOK
  OBVIOUS
<1>1. MemberOK
  BY BoundsAssumption DEF Init, MemberOK
<1>2. JournalOK
  BY DEF Init, JournalOK
<1>3. ProcessOK
  BY DEF Init, ProcessOK
<1>4. PromotionOK
  <2>1. campaign \in [Members -> 0..MaxTerm] /\ crashes \in 0..MaxCrashes
    BY BoundsAssumption DEF Init
  <2>2. promises \in SUBSET PromotionPromise /\ overtaken \in BOOLEAN
    BY Zenon DEF Init
  <2> QED BY <2>1, <2>2 DEF PromotionOK
<1> QED BY <1>1, <1>2, <1>3, <1>4 DEF TypeOK

\* Every reachable state has the types, the promise at or above the term and
\* the watermarks in order (MemberState.Validate accepts what is published).
THEOREM TypeCorrect == Spec => []TypeOK
<1>1. TypeOK /\ [Next]_vars => TypeOK'
  BY MemberStep, JournalStep, ProcessStep, PromotionStep DEF TypeOK
<1> QED BY InitTypes, <1>1, PTL DEF Spec
-----------------------------------------------------------------------------
\* Election safety.

\* Steps that neither raise a promise nor make a Primary keep the votes.
LEMMA QuietStep ==
  ASSUME IInv, UNCHANGED <<role, promised, promises>>,
         \A m \in Members : role[m] = "Primary" => term'[m] = term[m],
         \A m \in Members : campaign'[m] \in {0, campaign[m]}
  PROVE  PromisesBind' /\ CampaignsProposed' /\ PrimariesElected'
<1>1. PromisesBind'
  BY DEF IInv, PromisesBind
<1>2. CampaignsProposed'
  BY DEF IInv, CampaignsProposed, Proposed
<1>3. PrimariesElected'
  BY DEF IInv, PrimariesElected, Proposed, Answered
<1> QED BY <1>1, <1>2, <1>3

\* A new promise is above all promises of its member: no term is given twice.
LEMMA NewPromise ==
  ASSUME IInv, NEW m \in Members, NEW c \in Members, NEW t \in 1..MaxTerm,
         t > promised[m],
         promised' = [promised EXCEPT ![m] = t],
         promises' = promises \cup {PromiseOf(m, c, t)}
  PROVE  PromisesBind'
<1> DEFINE new == PromiseOf(m, c, t)
<1>1. new.from = m /\ new.to = c /\ new.term = t
  BY DEF PromiseOf
<1>2. /\ promised \in [Members -> 1..MaxTerm]
      /\ \A v \in promises : v.from \in Members /\ v.term \in 1..MaxTerm
  BY DEF IInv, TypeOK, MemberOK, PromotionOK, PromotionPromise
<1>3. \A v \in promises : 1 < v.term /\ v.term <= promised[v.from]
  BY DEF IInv, PromisesBind
<1>4. \A v \in promises : v.from = m => v.term < t
  BY <1>2, <1>3
<1>5. \A v \in promises' : 1 < v.term /\ v.term <= promised'[v.from]
  <2>1. \A v \in promises : v.term <= promised'[v.from]
    BY <1>2, <1>3, <1>4
  <2>2. 1 < t /\ promised'[m] = t
    BY <1>2
  <2> HIDE DEF new
  <2> QED BY <1>1, <1>3, <2>1, <2>2 DEF new
<1>6. \A v, w \in promises' : v.from = w.from /\ v.term = w.term => v.to = w.to
  <2>1. \A v, w \in promises : v.from = w.from /\ v.term = w.term => v.to = w.to
    BY DEF IInv, PromisesBind
  <2>2. \A v \in promises : ~(v.from = new.from /\ v.term = new.term)
    BY <1>1, <1>2, <1>4
  <2>3. promises' = promises \cup {new}
    OBVIOUS
  <2> HIDE DEF new
  <2> QED BY <2>1, <2>2, <2>3
<1> QED BY <1>5, <1>6 DEF PromisesBind

\* The strengthened invariant is inductive.
LEMMA ElectionStep ==
  ASSUME IInv, [Next]_vars
  PROVE  IInv'
<1>1. TypeOK'
  BY MemberStep, JournalStep, ProcessStep, PromotionStep DEF TypeOK, IInv
<1>2. CASE /\ UNCHANGED <<role, promised, promises>>
           /\ \A m \in Members : role[m] = "Primary" => term'[m] = term[m]
           /\ \A m \in Members : campaign'[m] \in {0, campaign[m]}
  BY <1>1, <1>2, QuietStep DEF IInv
<1>3. ASSUME NEW p \in Members, NEW r \in Members, HearHigherTerm(p, r)
      PROVE  IInv'
  <2>1. /\ promises' = promises /\ campaign' = campaign
        /\ role' = [role EXCEPT ![p] = "Replica"]
        /\ promised' = [promised EXCEPT ![p] = promised[r]]
        /\ \A n \in Members \ {p} : term'[n] = term[n]
    BY <1>3 DEF HearHigherTerm, rest, IInv, TypeOK, MemberOK
  <2>2. promised[p] = term[p] /\ term[p] < promised[r]
    BY <1>3 DEF HearHigherTerm, Running, IInv, PrimariesElected, TypeOK, MemberOK
  <2>3. \A n \in Members : promised[n] <= promised'[n]
    BY <2>1, <2>2 DEF IInv, TypeOK, MemberOK
  <2>4. PromisesBind'
    <3>1. \A v \in promises : v.from \in Members /\ v.term \in 1..MaxTerm
      BY DEF IInv, TypeOK, PromotionOK, PromotionPromise
    <3>2. \A v \in promises : v.term <= promised'[v.from]
      BY <1>1, <2>3, <3>1 DEF IInv, PromisesBind, TypeOK, MemberOK
    <3> QED BY <2>1, <3>2 DEF IInv, PromisesBind
  <2>5. CampaignsProposed'
    BY <2>1 DEF IInv, CampaignsProposed, Proposed
  <2>6. PrimariesElected'
    BY <2>1 DEF IInv, PrimariesElected, Proposed, Answered, TypeOK, MemberOK
  <2> QED BY <1>1, <2>4, <2>5, <2>6 DEF IInv
<1>4. ASSUME NEW c \in Members, Propose(c)
      PROVE  IInv'
  <2> DEFINE t == promised[c] + 1
  <2>1. t \in 1..MaxTerm /\ t > promised[c]
    BY <1>4 DEF Propose, IInv, TypeOK, MemberOK
  <2>2. /\ promised' = [promised EXCEPT ![c] = t]
        /\ promises' = promises \cup {PromiseOf(c, c, t)}
        /\ campaign' = [campaign EXCEPT ![c] = t]
        /\ role' = [role EXCEPT ![c] = "Replica"]
        /\ term' = term
    BY <1>4 DEF Propose
  <2> HIDE DEF t
  <2>3. PromisesBind'
    BY <2>1, <2>2, NewPromise
  <2>4. \E own \in promises' : own.from = c /\ own.to = c /\ own.term = t
    <3> DEFINE own == PromiseOf(c, c, t)
    <3>1. own.from = c /\ own.to = c /\ own.term = t
      BY DEF PromiseOf
    <3>2. own \in promises'
      BY <2>2
    <3> HIDE DEF own
    <3> QED BY <3>1, <3>2
  <2>5. CampaignsProposed'
    BY <2>2, <2>4 DEF IInv, CampaignsProposed, Proposed, TypeOK, PromotionOK
  <2>6. PrimariesElected'
    BY <2>2 DEF IInv, PrimariesElected, Proposed, Answered, TypeOK, MemberOK
  <2> QED BY <1>1, <2>3, <2>5, <2>6 DEF IInv
<1>5. ASSUME NEW m \in Members, NEW c \in Members, NEW t \in 1..MaxTerm,
             Promise(m, c, t)
      PROVE  IInv'
  <2>1. /\ t > promised[m]
        /\ promised' = [promised EXCEPT ![m] = t]
        /\ promises' = promises \cup {PromiseOf(m, c, t)}
        /\ campaign' = campaign
        /\ role' = [role EXCEPT ![m] = "Replica"]
        /\ term' = term
    BY <1>5 DEF Promise
  <2>2. PromisesBind'
    BY <2>1, NewPromise
  <2>3. CampaignsProposed'
    BY <2>1 DEF IInv, CampaignsProposed, Proposed
  <2>4. PrimariesElected'
    BY <2>1 DEF IInv, PrimariesElected, Proposed, Answered, TypeOK, MemberOK
  <2> QED BY <1>1, <2>2, <2>3, <2>4 DEF IInv
<1>6. ASSUME NEW c \in Members, Promote(c)
      PROVE  IInv'
  <2>1. /\ campaign[c] # 0 /\ campaign[c] = promised[c]
        /\ promised' = promised /\ promises' = promises
        /\ role' = [role EXCEPT ![c] = "Primary"]
        /\ term' = [term EXCEPT ![c] = promised[c]]
        /\ campaign' = [campaign EXCEPT ![c] = 0]
    BY <1>6 DEF Promote
  <2>2. Proposed(c, promised[c])
    <3>1. Proposed(c, campaign[c])
      BY <2>1 DEF IInv, CampaignsProposed
    <3> QED BY <2>1, <3>1
  <2>3. Answered(c, promised[c])
    <3>1. PICK answers \in SUBSET Answers(c) : answers # {}
      BY <1>6 DEF Promote, ValidatePromotionPromises
    <3>2. PICK answer \in Answers(c) : TRUE
      BY <3>1
    <3> QED BY <2>1, <3>2 DEF Answers, Answered
  <2>4. PromisesBind'
    BY <2>1 DEF IInv, PromisesBind
  <2>5. CampaignsProposed'
    BY <2>1 DEF IInv, CampaignsProposed, Proposed, TypeOK, PromotionOK
  <2>6. PrimariesElected'
    BY <2>1, <2>2, <2>3
    DEF IInv, PrimariesElected, Proposed, Answered, TypeOK, MemberOK
  <2> QED BY <1>1, <2>4, <2>5, <2>6 DEF IInv
<1>7. ASSUME NEW p \in Members, NEW r \in Members, AdoptTerm(r, p)
      PROVE  IInv'
  <2>1. /\ UNCHANGED <<role, promised, promises, campaign>>
        /\ role[r] = "Replica"
        /\ term' = [term EXCEPT ![r] = term[p]]
    BY <1>7 DEF AdoptTerm, MeetsNewPrimary, Running, rest
  <2>2. \A n \in Members : role[n] = "Primary" => term'[n] = term[n]
    BY <2>1 DEF IInv, TypeOK, MemberOK
  <2> QED BY <1>2, <2>1, <2>2
<1>8. ASSUME NEW c \in Members, AbandonPromotion(c)
      PROVE  IInv'
  <2>1. \A n \in Members : campaign'[n] \in {0, campaign[n]}
    BY <1>8 DEF AbandonPromotion, IInv, TypeOK, PromotionOK
  <2> QED BY <1>2, <1>8, <2>1 DEF AbandonPromotion, member
<1> QED
  BY <1>2, <1>3, <1>4, <1>5, <1>6, <1>7, <1>8
  DEF Next, vars, member, rest, StartReplica, StartPrimary, Crash, StartupReady,
      RecordDurable, HearReplica, RequireReseed, Receive, Acknowledge,
      AdvanceApplied

\* Two votes of three meet: the votes of one term have one candidate.
LEMMA VotesMeet ==
  ASSUME IInv
  PROVE  OnePrimaryPerTerm
<1> SUFFICES ASSUME NEW p \in Members, NEW q \in Members,
                    role[p] = "Primary", role[q] = "Primary", term[p] = term[q],
                    p # q
             PROVE  FALSE
  BY DEF OnePrimaryPerTerm
<1>1. \A v \in promises : v.from \in Members /\ v.term > 1
  BY DEF IInv, TypeOK, PromotionOK, PromotionPromise, PromisesBind
<1>2. \A v, w \in promises : v.from = w.from /\ v.term = w.term => v.to = w.to
  BY DEF IInv, PromisesBind
<1>3. term[p] # 1
  BY <1>1 DEF IInv, PrimariesElected, Proposed
<1>4. Proposed(p, term[p]) /\ Answered(p, term[p])
  BY <1>3 DEF IInv, PrimariesElected
<1>5. Proposed(q, term[p]) /\ Answered(q, term[p])
  BY <1>3 DEF IInv, PrimariesElected
<1>6. PICK v \in promises : v.from # p /\ v.to = p /\ v.term = term[p]
  BY <1>4 DEF Answered
<1>7. PICK w \in promises : w.from # q /\ w.to = q /\ w.term = term[p]
  BY <1>5 DEF Answered
<1>8. v.from # q /\ w.from # p
  BY <1>2, <1>4, <1>5, <1>6, <1>7 DEF Proposed
<1>9. v.from = w.from
  BY <1>1, <1>6, <1>7, <1>8, MembersAssumption
<1> QED BY <1>2, <1>6, <1>7, <1>9

\* A formed group starts with its first member as Primary and no promise.
LEMMA InitElected == Init => IInv
BY InitTypes
   DEF Init, IInv, PromisesBind, CampaignsProposed, PrimariesElected

\* No two members are ever Primary of one term, whatever crashes, lost or late
\* promises and abandoned promotions come in between.
THEOREM ElectionSafety == Spec => []OnePrimaryPerTerm
<1>1. IInv /\ [Next]_vars => IInv'
  BY ElectionStep
<1>2. IInv => OnePrimaryPerTerm
  BY VotesMeet
<1> QED BY InitElected, <1>1, <1>2, PTL DEF Spec

-----------------------------------------------------------------------------
(* Confirmed frames                                                        *)

\* c was given the term t: by the formation of the group, or by two votes.
Elected(c, t) == (t = 1 /\ c = First) \/ (Proposed(c, t) /\ Answered(c, t))

\* The journals of a and b are the same up to i.
Agree(a, b, i) ==
    /\ i <= Len(log[a]) /\ i <= Len(log[b])
    /\ \A k \in 1..i : log[a][k] = log[b][k]

\* x does not hold the frame of term t at i, and promised not to take it.
Never(x, i, t) ==
    promised[x] > t /\ ~(i \in 1..Len(log[x]) /\ log[x][i].term = t)

\* Two of three members never hold it: it is never confirmed.
Blocked(i, t) == \E x, y \in Members : x # y /\ Never(x, i, t) /\ Never(y, i, t)

\* Every frame is of a term its writer was elected for and its holder reached,
\* and the terms of a journal never go down.
FramesElected ==
    \A m \in Members : \A i \in 1..Len(log[m]) :
        /\ log[m][i].term <= term[m]
        /\ log[m][i].term <= term[log[m][i].by]
        /\ Elected(log[m][i].by, log[m][i].term)

\* The terms of a journal never go down.
TermsAscend ==
    \A m \in Members : \A i, j \in 1..Len(log[m]) :
        i <= j => log[m][i].term <= log[m][j].term

\* The term of a member is one that somebody was promoted to.
TermsElected ==
    \A m \in Members : \E c \in Members : Elected(c, term[m]) /\ term[m] <= term[c]

\* A promotion under way: the candidate is stopped, has all it holds applied,
\* and has not reached the term yet.
CampaignsReady ==
    \A c \in Members : campaign[c] # 0 =>
        /\ ~up[c] /\ role[c] = "Replica" /\ term[c] < campaign[c]
        /\ Len(log[c]) = confirmed[c] /\ confirmed[c] = applied[c]

\* A promise records at least what its member holds of the terms before it.
PromisesRecord ==
    \A w \in promises : \A i \in 1..Len(log[w.from]) :
        log[w.from][i].term < w.term =>
            \/ log[w.from][i].term < w.lastFrameTerm
            \/ log[w.from][i].term = w.lastFrameTerm /\ i <= w.durable

\* What the votes leave in terms, journals and promises.
Votes == FramesElected /\ TermsAscend /\ TermsElected /\ CampaignsReady /\ PromisesRecord

\* Frames of one term come from one journal.
JournalsMatch ==
    \A a, b \in Members : \A i \in 1..Len(log[a]) : \A j \in 1..Len(log[b]) :
        i <= j /\ log[a][i].term = log[b][j].term => Agree(a, b, i)

\* A Primary holds every frame of its term.
PrimaryHoldsTerm ==
    \A p, a \in Members : \A i \in 1..Len(log[a]) :
        role[p] = "Primary" /\ log[a][i].term = term[p] => Agree(a, p, i)

\* r follows its term: it can take the frames of the term.
Follows(r) == role[r] = "Replica" /\ ~reseed[r] /\ term[r] = promised[r]

\* A member that follows a term holds nothing that contradicts a journal with
\* a frame of that term, nor the term's Primary.
FollowersMatch ==
    /\ \A r, b \in Members : \A j \in 1..Len(log[b]) : \A k \in 1..j :
          Follows(r) /\ log[b][j].term = term[r] /\ k <= Len(log[r])
              => log[r][k] = log[b][k]
    /\ \A p, r \in Members :
          role[p] = "Primary" /\ Follows(r) /\ term[r] = term[p]
              => Agree(r, p, Len(log[r]))

\* The journals agree wherever they share a term.
Matching == JournalsMatch /\ PrimaryHoldsTerm /\ FollowersMatch

\* A journal with a frame of a later term, and a Primary of a later term, hold
\* every frame that is not blocked.
LaterHold ==
    /\ \A a, b \in Members : \A i \in 1..Len(log[a]) : \A j \in 1..Len(log[b]) :
          log[a][i].term < log[b][j].term =>
              (i < j /\ log[b][i] = log[a][i]) \/ Blocked(i, log[a][i].term)
    /\ \A a, p \in Members : \A i \in 1..Len(log[a]) :
          role[p] = "Primary" /\ log[a][i].term < term[p] =>
              (i <= Len(log[p]) /\ log[p][i] = log[a][i]) \/ Blocked(i, log[a][i].term)

\* They do until a promotion was overtaken.
LaterHolds == ~overtaken => LaterHold

\* What is not confirmed: nothing of a member that follows a term, and of a
\* Primary only frames of its own term.
Unconfirmed ==
    /\ \A r \in Members : Follows(r) => Len(log[r]) = confirmed[r]
    /\ \A p \in Members : \A i \in confirmed[p] + 1..Len(log[p]) :
          role[p] = "Primary" => log[p][i].term = term[p]
    /\ \A m \in Members : up[m] => ~reseed[m]

\* Every term begins with its anchor, a running Primary wrote it, and one that
\* serves has it confirmed.
Anchored ==
    /\ \A m \in Members : \A j \in 1..Len(log[m]) : \E i \in 1..j :
          log[m][i].anchor /\ log[m][i].term = log[m][j].term
    /\ \A p \in Members : Running(p, "Primary") => LastTerm(log[p]) = term[p]
    /\ \A p \in Members : ready[p] =>
          /\ Running(p, "Primary")
          /\ \E i \in 1..confirmed[p] : log[p][i].term = term[p]

\* The inductive invariant.
SafetyInv ==
    /\ IInv /\ Votes /\ Matching /\ LaterHolds /\ Unconfirmed /\ Anchored
    /\ ConfirmedOnTwo

-----------------------------------------------------------------------------
\* Votes.

\* What IInv says of the promises, and the group of three.
LEMMA PromiseFacts ==
  ASSUME IInv
  PROVE  /\ promised \in [Members -> 1..MaxTerm] /\ term \in [Members -> 1..MaxTerm]
         /\ \A m \in Members : promised[m] \in Nat /\ term[m] \in Nat /\ term[m] <= promised[m] /\ 1 <= term[m]
         /\ \A w \in promises : /\ w.from \in Members /\ w.to \in Members /\ w.term \in Nat
                                /\ w.lastFrameTerm \in Nat /\ w.durable \in Nat
                                /\ 1 < w.term /\ w.term <= promised[w.from]
         /\ \A v, w \in promises : v.from = w.from /\ v.term = w.term => v.to = w.to
<1>1. /\ promised \in [Members -> 1..MaxTerm] /\ term \in [Members -> 1..MaxTerm]
      /\ \A m \in Members : term[m] <= promised[m]
  BY DEF IInv, TypeOK, MemberOK
<1>2. \A w \in promises : /\ w.from \in Members /\ w.to \in Members /\ w.term \in Nat
                          /\ w.lastFrameTerm \in Nat /\ w.durable \in Nat
  BY BoundsAssumption DEF IInv, TypeOK, PromotionOK, PromotionPromise
<1>3. /\ \A w \in promises : 1 < w.term /\ w.term <= promised[w.from]
      /\ \A v, w \in promises : v.from = w.from /\ v.term = w.term => v.to = w.to
  BY DEF IInv, PromisesBind
<1>4. \A m \in Members : promised[m] \in Nat /\ term[m] \in Nat /\ 1 <= term[m]
  BY <1>1, BoundsAssumption
<1> QED BY <1>1, <1>2, <1>3, <1>4

\* Of three members, two pairs have one in common.
LEMMA PairsMeet ==
  ASSUME NEW a \in Members, NEW b \in Members, NEW x \in Members, NEW y \in Members, a # b, x # y
  PROVE  a = x \/ a = y \/ b = x \/ b = y
BY MembersAssumption

\* A term is given to one member.
LEMMA ElectedUnique ==
  ASSUME IInv, NEW c \in Members, NEW d \in Members, NEW t, Elected(c, t), Elected(d, t)
  PROVE  c = d
<1> SUFFICES ASSUME c # d PROVE FALSE
  OBVIOUS
<1>1. /\ \A w \in promises : w.from \in Members /\ 1 < w.term /\ w.term \in Nat
      /\ \A v, w \in promises : v.from = w.from /\ v.term = w.term => v.to = w.to
  BY PromiseFacts
<1>2. t # 1
  BY <1>1 DEF Elected, Proposed
<1>3. PICK v \in promises : v.from # c /\ v.to = c /\ v.term = t
  BY <1>2 DEF Elected, Answered
<1>4. PICK w \in promises : w.from # d /\ w.to = d /\ w.term = t
  BY <1>2 DEF Elected, Answered
<1>5. PICK v0 \in promises : v0.from = c /\ v0.to = c /\ v0.term = t
  BY <1>2 DEF Elected, Proposed
<1>6. PICK w0 \in promises : w0.from = d /\ w0.to = d /\ w0.term = t
  BY <1>2 DEF Elected, Proposed
<1>7. v.from # d /\ w.from # c /\ v.from # w.from
  BY <1>1, <1>3, <1>4, <1>5, <1>6
<1> QED BY <1>1, <1>3, <1>4, <1>7, PairsMeet

\* A term beyond the first binds two members.
LEMMA ElectedQuorum ==
  ASSUME IInv, NEW c \in Members, NEW t \in Nat, Elected(c, t), 1 < t
  PROVE  \E x, y \in Members : x # y /\ t <= promised[x] /\ t <= promised[y]
<1>1. PICK v \in promises : v.from # c /\ v.to = c /\ v.term = t
  BY DEF Elected, Answered
<1>2. PICK w \in promises : w.from = c /\ w.term = t
  BY DEF Elected, Proposed
<1> QED BY <1>1, <1>2, PromiseFacts

\* Promises are kept: who was elected stays so.
LEMMA ElectedStays ==
  ASSUME promises \subseteq promises', NEW c, NEW t, Elected(c, t)
  PROVE  Elected(c, t)'
BY DEF Elected, Proposed, Answered

\* A Primary was elected for its term.
LEMMA PrimaryElected ==
  ASSUME IInv, NEW p \in Members, role[p] = "Primary"
  PROVE  Elected(p, term[p]) /\ term[p] = promised[p]
BY DEF IInv, PrimariesElected, Elected

\* Journals and watermarks as numbers and frames.
LEMMA JournalFacts ==
  ASSUME TypeOK, NEW m \in Members
  PROVE  /\ log[m] \in Seq(Frame) /\ Len(log[m]) \in Nat
         /\ confirmed[m] \in Nat /\ applied[m] \in Nat
         /\ applied[m] <= confirmed[m] /\ confirmed[m] <= Len(log[m])
         /\ \A i \in 1..Len(log[m]) : log[m][i].term \in Nat /\ log[m][i].term >= 1 /\ log[m][i].by \in Members
<1>1. /\ log[m] \in Seq(Frame) /\ confirmed[m] \in Nat /\ applied[m] \in Nat
      /\ applied[m] <= confirmed[m] /\ confirmed[m] <= Len(log[m])
  BY DEF TypeOK, JournalOK
<1>2. Len(log[m]) \in Nat /\ \A i \in 1..Len(log[m]) : log[m][i] \in Frame
  BY <1>1
<1>3. \A i \in 1..Len(log[m]) : log[m][i].term \in 1..MaxTerm /\ log[m][i].by \in Members
  BY <1>2 DEF Frame
<1> QED BY <1>1, <1>2, <1>3, BoundsAssumption

\* LastTerm is the term of the last frame.
LEMMA LastTermIs ==
  ASSUME TypeOK, NEW m \in Members
  PROVE  /\ Len(log[m]) = 0 => LastTerm(log[m]) = 0
         /\ Len(log[m]) # 0 => LastTerm(log[m]) = log[m][Len(log[m])].term
         /\ LastTerm(log[m]) # 0 => Len(log[m]) \in 1..Len(log[m])
<1>1. log[m] \in Seq(Frame) /\ Len(log[m]) \in Nat
  BY JournalFacts
<1>2. log[m] = <<>> <=> Len(log[m]) = 0
  BY <1>1
<1> QED BY <1>1, <1>2 DEF LastTerm

\* A frame on two members is not blocked.
LEMMA HeldByTwo ==
  ASSUME TypeOK, NEW x \in Members, NEW y \in Members, x # y, NEW i \in Nat,
         i \in 1..Len(log[x]), i \in 1..Len(log[y]), log[x][i].term = log[y][i].term
  PROVE  ~Blocked(i, log[x][i].term)
<1> SUFFICES ASSUME NEW u \in Members, NEW v \in Members, u # v,
                    Never(u, i, log[x][i].term), Never(v, i, log[x][i].term)
             PROVE  FALSE
  BY DEF Blocked
<1>1. u # x /\ u # y /\ v # x /\ v # y
  BY DEF Never
<1> QED BY <1>1, PairsMeet

\* What is confirmed is in the journal of every Primary of its term or a later
\* one.
LEMMA ConfirmedHeld ==
  ASSUME SafetyInv, ~overtaken, NEW m \in Members, NEW i \in 1..confirmed[m],
         NEW p \in Members, role[p] = "Primary", log[m][i].term <= term[p]
  PROVE  i <= Len(log[p]) /\ log[p][i] = log[m][i]
<1>1. TypeOK /\ IInv /\ LaterHold
  BY DEF SafetyInv, IInv, LaterHolds
<1>2. i \in 1..Len(log[m]) /\ i \in Nat
  BY <1>1, JournalFacts
<1>3. PICK other \in Members : other # m /\ i <= Len(log[other]) /\ log[other][i] = log[m][i]
  BY DEF SafetyInv, ConfirmedOnTwo, Peers
<1>4. i \in 1..Len(log[other])
  BY <1>1, <1>2, <1>3, JournalFacts
<1>5. ~Blocked(i, log[m][i].term)
  BY <1>1, <1>2, <1>3, <1>4, HeldByTwo
<1>6. CASE log[m][i].term < term[p]
  BY <1>1, <1>2, <1>5, <1>6 DEF LaterHold
<1>7. CASE log[m][i].term = term[p]
  <2>1. Agree(m, p, i)
    BY <1>2, <1>7 DEF SafetyInv, Matching, PrimaryHoldsTerm
  <2> QED BY <1>2, <2>1 DEF Agree
<1> QED BY <1>1, <1>2, <1>6, <1>7, JournalFacts, PromiseFacts

\* Two members that count one index as confirmed hold the same frame there:
\* each of the two frames is on two members, and the two pairs meet.
LEMMA ConfirmedAgree ==
  ASSUME TypeOK, ConfirmedOnTwo, NEW r \in Members, NEW x \in Members,
         NEW i \in 1..confirmed[r], i \in 1..confirmed[x]
  PROVE  log[r][i] = log[x][i]
<1>1. PICK a \in Members : a # r /\ log[a][i] = log[r][i]
  BY DEF ConfirmedOnTwo, Peers
<1>2. PICK b \in Members : b # x /\ log[b][i] = log[x][i]
  BY DEF ConfirmedOnTwo, Peers
<1> QED BY <1>1, <1>2, PairsMeet

-----------------------------------------------------------------------------
\* What every step leaves: terms and promises grow, a new promise records the
\* journal, and a new frame is of its holder's promised term.

\* Terms and promises only grow, and a new term is that of another member
\* or one its member was elected for.
TermsGrow ==
    \A m \in Members :
        /\ term[m] <= term'[m] /\ promised[m] <= promised'[m]
        /\ (\E x \in Members : term'[m] = term[x]) \/ Elected(m, term'[m])

\* Promises are kept, and a new one records the journal as it is.
PromisesGrow ==
    /\ promises \subseteq promises'
    /\ \A w \in promises' :
          \/ w \in promises
          \/ /\ log' = log
             /\ w.lastFrameTerm = LastTerm(log[w.from]) /\ w.durable = Len(log[w.from])

\* A frame that was not in m's journal.
NewFrame(m, i) ==
    /\ log'[m][i].term = term'[m] /\ term'[m] = promised'[m]
    /\ \/ log'[m][i].by = m /\ Elected(m, term'[m])
       \/ \E a \in Members : \E j \in 1..Len(log[a]) : log'[m][i] = log[a][j]

\* Journals only grow, by new frames.
LogsGrow ==
    \A m \in Members :
        /\ Len(log[m]) <= Len(log'[m])
        /\ \A i \in 1..Len(log[m]) : log'[m][i] = log[m][i]
        /\ \A i \in 1..Len(log'[m]) : i \in 1..Len(log[m]) \/ NewFrame(m, i)

\* A promotion that was overtaken stays one.
HistoryGrows == overtaken => overtaken'

\* What every step leaves.
Grows == TermsGrow /\ PromisesGrow /\ LogsGrow /\ HistoryGrows

\* A journal that stays.
LEMMA LogsKept ==
  ASSUME TypeOK, log' = log
  PROVE  LogsGrow
<1>1. \A m \in Members : Len(log[m]) \in Nat /\ Len(log'[m]) = Len(log[m])
  BY JournalFacts
<1> QED BY <1>1 DEF LogsGrow

\* A blocked frame stays blocked.
LEMMA BlockedStays ==
  ASSUME IInv, Grows, NEW i \in Nat, NEW t \in Nat, Blocked(i, t), MemberOK'
  PROVE  Blocked(i, t)'
<1>1. ASSUME NEW x \in Members, Never(x, i, t)
      PROVE  Never(x, i, t)'
  <2>1. promised[x] \in Nat /\ promised'[x] \in Nat /\ promised[x] <= promised'[x]
    BY PromiseFacts, BoundsAssumption DEF MemberOK, Grows, TermsGrow
  <2>2. promised'[x] > t
    BY <1>1, <2>1 DEF Never
  <2>3. ASSUME i \in 1..Len(log'[x]), log'[x][i].term = t PROVE FALSE
    <3>1. CASE i \in 1..Len(log[x])
      BY <1>1, <2>3, <3>1 DEF Never, Grows, LogsGrow
    <3>2. CASE NewFrame(x, i)
      BY <2>1, <2>2, <2>3, <3>2 DEF NewFrame
    <3> QED BY <2>3, <3>1, <3>2 DEF Grows, LogsGrow
  <2> QED BY <2>2, <2>3 DEF Never
<1> QED BY <1>1 DEF Blocked

\* A new frame is a step up: the terms of the journals still ascend, are
\* elected and are what the promises recorded.
LEMMA VotesKept ==
  ASSUME IInv, Votes, Grows, IInv'
  PROVE  FramesElected' /\ TermsAscend' /\ TermsElected' /\ PromisesRecord'
<1>0. /\ \A m \in Members : /\ term[m] \in Nat /\ term'[m] \in Nat /\ term[m] <= term'[m]
                            /\ promised[m] \in Nat /\ promised'[m] \in Nat /\ promised[m] <= promised'[m]
      /\ promises \subseteq promises'
  BY PromiseFacts, BoundsAssumption DEF IInv, TypeOK, MemberOK, Grows, TermsGrow, PromisesGrow
<1>1. \A c, t : Elected(c, t) => Elected(c, t)'
  BY <1>0, ElectedStays
<1>2. \A m \in Members : \A i \in 1..Len(log[m]) :
        /\ log[m][i].term \in Nat /\ log[m][i].by \in Members
        /\ log[m][i].term <= term[m] /\ log[m][i].term <= term[log[m][i].by]
        /\ Elected(log[m][i].by, log[m][i].term)
  BY JournalFacts DEF Votes, FramesElected, IInv
<1>3. \A m \in Members : \A i \in 1..Len(log'[m]) :
        \/ i \in 1..Len(log[m]) /\ log'[m][i] = log[m][i]
        \/ NewFrame(m, i)
  BY DEF Grows, LogsGrow
<1>4. FramesElected'
  <2>1. ASSUME NEW m \in Members, NEW i \in 1..Len(log'[m])
        PROVE  /\ log'[m][i].term <= term'[m]
               /\ log'[m][i].term <= term'[log'[m][i].by]
               /\ Elected(log'[m][i].by, log'[m][i].term)
    <3>1. CASE i \in 1..Len(log[m]) /\ log'[m][i] = log[m][i]
      <4> DEFINE f == log[m][i]
      <4>1. /\ f.term \in Nat /\ f.by \in Members /\ f.term <= term[m] /\ f.term <= term[f.by]
            /\ Elected(f.by, f.term) /\ log'[m][i] = f
        BY <1>2, <3>1
      <4> HIDE DEF f
      <4>2. f.term <= term'[m] /\ f.term <= term'[f.by]
        BY <1>0, <4>1
      <4> QED BY <4>1, <4>2
    <3>2. CASE NewFrame(m, i)
      <4>1. log'[m][i].term = term'[m]
        BY <3>2 DEF NewFrame
      <4>2. CASE log'[m][i].by = m /\ Elected(m, term'[m])
        BY <1>0, <4>1, <4>2
      <4>3. CASE \E a \in Members : \E j \in 1..Len(log[a]) : log'[m][i] = log[a][j]
        BY <1>0, <1>2, <4>1, <4>3
      <4> QED BY <3>2, <4>2, <4>3 DEF NewFrame
    <3> QED BY <1>3, <3>1, <3>2
  <2> QED BY <1>1, <2>1 DEF FramesElected
<1>5. TermsAscend'
  <2>1. ASSUME NEW m \in Members, NEW i \in 1..Len(log'[m]), NEW j \in 1..Len(log'[m]), i <= j
        PROVE  log'[m][i].term <= log'[m][j].term
    <3>1. CASE j \in 1..Len(log[m]) /\ log'[m][j] = log[m][j]
      <4>1. i \in 1..Len(log[m]) /\ log'[m][i] = log[m][i]
        BY <2>1, <3>1, JournalFacts DEF Grows, LogsGrow, IInv
      <4> QED BY <2>1, <3>1, <4>1 DEF Votes, TermsAscend
    <3>2. CASE NewFrame(m, j)
      <4>1. log'[m][j].term = term'[m]
        BY <3>2 DEF NewFrame
      <4>2. log'[m][i].term <= term'[m]
        BY <1>4 DEF FramesElected
      <4> QED BY <4>1, <4>2
    <3> QED BY <1>3, <3>1, <3>2
  <2> QED BY <2>1 DEF TermsAscend
<1>6. TermsElected'
  <2>1. ASSUME NEW m \in Members
        PROVE  \E c \in Members : Elected(c, term'[m]) /\ term'[m] <= term'[c]
    <3>1. CASE Elected(m, term'[m])
      BY <1>0, <3>1
    <3>2. CASE \E x \in Members : term'[m] = term[x]
      <4>1. PICK c \in Members : Elected(c, term'[m]) /\ term'[m] <= term[c]
        BY <3>2 DEF Votes, TermsElected
      <4> QED BY <1>0, <4>1
    <3> QED BY <3>1, <3>2 DEF Grows, TermsGrow
  <2> QED BY <1>1, <2>1 DEF TermsElected
<1>7. PromisesRecord'
  <2>1. ASSUME NEW w \in promises', NEW i \in 1..Len(log'[w.from]), log'[w.from][i].term < w.term
        PROVE  \/ log'[w.from][i].term < w.lastFrameTerm
               \/ log'[w.from][i].term = w.lastFrameTerm /\ i <= w.durable
    <3>0. w.from \in Members /\ w.term \in Nat /\ w.term <= promised'[w.from]
      <4>1. w \in PromotionPromise /\ w.term <= promised'[w.from]
        BY DEF IInv, PromisesBind, TypeOK, PromotionOK
      <4> QED BY <4>1, BoundsAssumption DEF PromotionPromise
    <3>1. i \in 1..Len(log[w.from]) /\ log'[w.from][i] = log[w.from][i]
      BY <1>0, <1>3, <2>1, <3>0 DEF NewFrame
    <3>2. CASE w \in promises
      BY <2>1, <3>1, <3>2 DEF Votes, PromisesRecord
    <3>3. CASE w.lastFrameTerm = LastTerm(log[w.from]) /\ w.durable = Len(log[w.from])
      <4> DEFINE n == Len(log[w.from])
      <4>1. n \in Nat /\ i <= n /\ n \in 1..n
        BY <3>0, <3>1, JournalFacts DEF IInv
      <4>2. log[w.from][i].term <= log[w.from][n].term
        BY <3>0, <3>1, <4>1 DEF Votes, TermsAscend
      <4>3. LastTerm(log[w.from]) = log[w.from][n].term
        BY <3>0, <4>1, LastTermIs DEF IInv
      <4>4. log[w.from][i].term \in Nat /\ log[w.from][n].term \in Nat
        BY <1>2, <3>0, <3>1, <4>1
      <4> HIDE DEF n
      <4> QED BY <3>1, <3>3, <4>1, <4>2, <4>3, <4>4 DEF n
    <3> QED BY <3>2, <3>3 DEF Grows, PromisesGrow
  <2> QED BY <2>1 DEF PromisesRecord
<1> QED BY <1>4, <1>5, <1>6, <1>7

-----------------------------------------------------------------------------
\* The journals match, and later terms hold what may be confirmed: steps that
\* write no journal.

\* r may join the term of x: all of its journal is confirmed, and x, which
\* follows that term or is its Primary, has as much confirmed.
Joins(r, x) ==
    /\ Len(log[r]) = confirmed[r] /\ Len(log[r]) <= confirmed[x]
    /\ role[x] = "Primary" \/ Follows(x)

\* Such a member then holds nothing that contradicts the term.
LEMMA JoinedMatches ==
  ASSUME SafetyInv, NEW r \in Members, NEW x \in Members, Joins(r, x)
  PROVE  /\ \A b \in Members : \A j \in 1..Len(log[b]) : \A k \in 1..j :
              log[b][j].term = term[x] /\ k <= Len(log[r]) => log[r][k] = log[b][k]
         /\ \A p \in Members : role[p] = "Primary" /\ term[p] = term[x] => Agree(r, p, Len(log[r]))
<1>0. IInv /\ TypeOK /\ Matching /\ ConfirmedOnTwo
  BY DEF SafetyInv, IInv
<1>1. \A m \in Members : Len(log[m]) \in Nat /\ confirmed[m] \in Nat /\ confirmed[m] <= Len(log[m])
  BY <1>0, JournalFacts
<1>2. \A k \in 1..Len(log[r]) : k \in 1..confirmed[r] /\ k \in 1..confirmed[x] /\ k \in 1..Len(log[x])
  BY <1>1 DEF Joins
<1>3. \A k \in 1..Len(log[r]) : log[r][k] = log[x][k]
  BY <1>0, <1>2, ConfirmedAgree
<1>4. ASSUME NEW b \in Members, NEW j \in 1..Len(log[b]), NEW k \in 1..j,
             log[b][j].term = term[x], k <= Len(log[r])
      PROVE  log[r][k] = log[b][k]
  <2>1. k \in 1..Len(log[r])
    BY <1>1, <1>4
  <2>2. log[x][k] = log[b][k]
    <3>1. CASE role[x] = "Primary"
      <4>1. Agree(b, x, j)
        BY <1>0, <1>4, <3>1 DEF Matching, PrimaryHoldsTerm
      <4> QED BY <4>1 DEF Agree
    <3>2. CASE Follows(x)
      <4>1. k <= Len(log[x])
        BY <1>1, <1>2, <2>1
      <4> QED BY <1>0, <1>4, <3>2, <4>1 DEF Matching, FollowersMatch
    <3> QED BY <3>1, <3>2 DEF Joins
  <2> QED BY <1>3, <2>1, <2>2
<1>5. ASSUME NEW p \in Members, role[p] = "Primary", term[p] = term[x]
      PROVE  Agree(r, p, Len(log[r]))
  <2>1. Agree(x, p, Len(log[x]))
    <3>1. CASE role[x] = "Primary"
      <4>1. x = p
        BY <1>0, <1>5, <3>1, VotesMeet DEF OnePrimaryPerTerm
      <4> QED BY <1>1, <4>1 DEF Agree
    <3>2. CASE Follows(x)
      BY <1>0, <1>5, <3>2 DEF Matching, FollowersMatch
    <3> QED BY <3>1, <3>2 DEF Joins
  <2>2. Len(log[r]) <= Len(log[x]) /\ Len(log[x]) <= Len(log[p])
    BY <1>1, <2>1 DEF Joins, Agree
  <2>3. Len(log[r]) <= Len(log[p])
    BY <1>1, <2>2
  <2> QED BY <1>1, <1>2, <1>3, <2>1, <2>3 DEF Agree
<1> QED BY <1>4, <1>5

\* Nothing joins a term but with a journal that is confirmed as a whole.
LEMMA StillMatching ==
  ASSUME SafetyInv, Grows, IInv', log' = log,
         \A m \in Members : role'[m] = "Primary" => role[m] = "Primary" /\ term'[m] = term[m],
         \A r \in Members : Follows(r)' =>
             \/ Follows(r) /\ term'[r] = term[r]
             \/ \E x \in Members : Joins(r, x) /\ term'[r] = term[x]
  PROVE  Matching' /\ LaterHolds'
<1>0. IInv /\ Matching /\ LaterHolds /\ TypeOK
  BY DEF SafetyInv, IInv
<1>1. \A a, b \in Members : \A i : Agree(a, b, i)' <=> Agree(a, b, i)
  BY DEF Agree
<1>2. JournalsMatch'
  BY <1>0, <1>1 DEF Matching, JournalsMatch
<1>3. PrimaryHoldsTerm'
  BY <1>0, <1>1 DEF Matching, PrimaryHoldsTerm
<1>4. ASSUME NEW r \in Members, \E x \in Members : Joins(r, x) /\ term'[r] = term[x]
      PROVE  /\ \A b \in Members : \A j \in 1..Len(log[b]) : \A k \in 1..j :
                  log[b][j].term = term'[r] /\ k <= Len(log[r]) => log[r][k] = log[b][k]
             /\ \A p \in Members : role[p] = "Primary" /\ term[p] = term'[r] => Agree(r, p, Len(log[r]))
  BY <1>4, JoinedMatches
<1>5. FollowersMatch'
  <2>1. ASSUME NEW r \in Members, NEW b \in Members, NEW j \in 1..Len(log[b]), NEW k \in 1..j,
               Follows(r)', log[b][j].term = term'[r], k <= Len(log[r])
        PROVE  log[r][k] = log[b][k]
    <3>1. CASE Follows(r) /\ term'[r] = term[r]
      BY <1>0, <2>1, <3>1 DEF Matching, FollowersMatch
    <3>2. CASE \E x \in Members : Joins(r, x) /\ term'[r] = term[x]
      BY <1>4, <2>1, <3>2
    <3> QED BY <2>1, <3>1, <3>2
  <2>2. ASSUME NEW p \in Members, NEW r \in Members, role'[p] = "Primary", Follows(r)', term'[r] = term'[p]
        PROVE  Agree(r, p, Len(log[r]))
    <3>0. role[p] = "Primary" /\ term'[p] = term[p]
      BY <2>2
    <3>1. CASE Follows(r) /\ term'[r] = term[r]
      BY <1>0, <2>2, <3>0, <3>1 DEF Matching, FollowersMatch
    <3>2. CASE \E x \in Members : Joins(r, x) /\ term'[r] = term[x]
      BY <1>4, <2>2, <3>0, <3>2
    <3> QED BY <2>2, <3>1, <3>2
  <2> QED BY <1>1, <2>1, <2>2 DEF FollowersMatch
<1>6. LaterHolds'
  <2> SUFFICES ASSUME ~overtaken' PROVE LaterHold'
    BY DEF LaterHolds
  <2>0. LaterHold
    BY <1>0 DEF LaterHolds, Grows, HistoryGrows
  <2>1. \A a \in Members : \A i \in 1..Len(log[a]) :
          Blocked(i, log[a][i].term) => Blocked(i, log[a][i].term)'
    <3> TAKE a \in Members
    <3> TAKE i \in 1..Len(log[a])
    <3>1. i \in Nat /\ log[a][i].term \in Nat /\ log'[a][i] = log[a][i] /\ MemberOK'
      BY <1>0, JournalFacts DEF IInv, TypeOK
    <3> DEFINE t == log[a][i].term
    <3>2. ASSUME NEW u \in Nat, Blocked(i, u) PROVE Blocked(i, u)'
      BY <1>0, <3>1, <3>2, BlockedStays
    <3> QED BY <3>1, <3>2 DEF Blocked, Never
  <2> QED BY <2>0, <2>1 DEF LaterHold
<1> QED BY <1>2, <1>3, <1>5, <1>6 DEF Matching

\* A blocked frame of some journal stays blocked.
LEMMA FrameBlockedStays ==
  ASSUME IInv, Grows, IInv', NEW i \in Nat, NEW t \in Nat
  PROVE  Blocked(i, t) => Blocked(i, t)'
<1>1. MemberOK'
  BY DEF IInv, TypeOK
<1> QED BY <1>1, BlockedStays

\* A Replica that takes the next frame of p then holds a prefix of p's journal.
LEMMA ReceiveCopies ==
  ASSUME SafetyInv, NEW r \in Members, NEW p \in Members, Receive(r, p)
  PROVE  /\ Follows(r) /\ p # r /\ Len(log[r]) + 1 \in 1..Len(log[p])
         /\ log[p][Len(log[r]) + 1].term = term[r]
         /\ Len(log'[r]) = Len(log[r]) + 1
         /\ \A k \in 1..Len(log'[r]) : log'[r][k] = log[p][k] /\ k \in 1..Len(log[p])
         /\ \A k \in 1..Len(log[r]) : log'[r][k] = log[r][k]
         /\ \A m \in Members : m # r => log'[m] = log[m]
<1> DEFINE n == Len(log[r])
<1>0. IInv /\ TypeOK /\ Matching /\ Unconfirmed
  BY DEF SafetyInv, IInv
<1>1. /\ role[r] = "Replica" /\ up[r] /\ p # r /\ n + 1 <= Len(log[p])
      /\ log[p][n + 1].term >= promised[r] /\ log[p][n + 1].term = term[r]
      /\ log' = [log EXCEPT ![r] = Append(@, log[p][n + 1])]
  BY DEF Receive, Admits, Running
<1>2. log[r] \in Seq(Frame) /\ n \in Nat /\ Len(log[p]) \in Nat /\ log \in [Members -> Seq(Frame)]
  BY <1>0, JournalFacts DEF TypeOK, JournalOK
<1>3. term[r] = promised[r]
  BY <1>0, <1>1, PromiseFacts
<1>4. Follows(r)
  BY <1>0, <1>1, <1>3 DEF Follows, Unconfirmed
<1>5. n + 1 \in 1..Len(log[p])
  BY <1>1, <1>2
<1>6. \A k \in 1..n : log[r][k] = log[p][k]
  <2> TAKE k \in 1..n
  <2>1. k \in 1..n + 1 /\ k <= Len(log[r])
    BY <1>2
  <2> QED BY <1>0, <1>1, <1>4, <1>5, <2>1 DEF Matching, FollowersMatch
<1>7. log'[r] = Append(log[r], log[p][n + 1]) /\ \A m \in Members : m # r => log'[m] = log[m]
  BY <1>1, <1>2
<1>8. log[p][n + 1] \in Frame
  BY <1>2, <1>5
<1>9. /\ Len(log'[r]) = n + 1 /\ log'[r][n + 1] = log[p][n + 1]
      /\ \A k \in 1..n : log'[r][k] = log[r][k]
  BY <1>2, <1>7, <1>8
<1>10. \A k \in 1..n + 1 : (k \in 1..n \/ k = n + 1) /\ k \in 1..Len(log[p])
  BY <1>2, <1>5
<1> HIDE DEF n
<1>11. \A k \in 1..Len(log'[r]) : log'[r][k] = log[p][k] /\ k \in 1..Len(log[p])
  BY <1>6, <1>9, <1>10
<1> QED BY <1>1, <1>4, <1>5, <1>7, <1>9, <1>11 DEF n

\* The journals still match when a Replica takes a frame: its journal is a
\* prefix of the sender's, for which everything held.
LEMMA ReceiveMatching ==
  ASSUME SafetyInv, Grows, IInv', NEW r \in Members, NEW p \in Members, Receive(r, p)
  PROVE  Matching' /\ LaterHolds'
<1> DEFINE n == Len(log[r])
           S(m) == IF m = r THEN p ELSE m
<1>0. IInv /\ TypeOK /\ Matching /\ LaterHolds
  BY DEF SafetyInv, IInv
<1>1. /\ Follows(r) /\ p # r /\ n + 1 \in 1..Len(log[p]) /\ log[p][n + 1].term = term[r]
      /\ Len(log'[r]) = n + 1
      /\ \A k \in 1..Len(log'[r]) : log'[r][k] = log[p][k] /\ k \in 1..Len(log[p])
      /\ \A m \in Members : m # r => log'[m] = log[m]
  BY ReceiveCopies
<1>2. \A m \in Members : Len(log[m]) \in Nat /\ Len(log'[m]) \in Nat
  BY <1>0, <1>1, JournalFacts
<1>3. \A m \in Members : S(m) \in Members
  OBVIOUS
<1>4. \A m \in Members : \A k \in 1..Len(log'[m]) : log'[m][k] = log[S(m)][k] /\ k \in 1..Len(log[S(m)])
  BY <1>1
<1>5. role' = role /\ term' = term /\ promised' = promised /\ reseed' = reseed
  BY DEF Receive, member
<1>6. role[r] = "Replica"
  BY <1>1 DEF Follows
<1>7. \A m \in Members : Follows(m)' <=> Follows(m)
  BY <1>5 DEF Follows
<1> HIDE DEF n, S
<1>8. \A a, b \in Members : \A i \in Nat :
        i <= Len(log'[a]) /\ i <= Len(log'[b]) /\ Agree(S(a), S(b), i) => Agree(a, b, i)'
  <2> TAKE a, b \in Members
  <2> TAKE i \in Nat
  <2> HAVE i <= Len(log'[a]) /\ i <= Len(log'[b]) /\ Agree(S(a), S(b), i)
  <2>1. \A k \in 1..i : k \in 1..Len(log'[a]) /\ k \in 1..Len(log'[b])
    BY <1>2
  <2>2. \A k \in 1..i : log'[a][k] = log'[b][k]
    BY <1>4, <2>1 DEF Agree
  <2> QED BY <2>2 DEF Agree
<1>9. JournalsMatch'
  <2>1. ASSUME NEW a \in Members, NEW b \in Members,
               NEW i \in 1..Len(log'[a]), NEW j \in 1..Len(log'[b]),
               i <= j, log'[a][i].term = log'[b][j].term
        PROVE  Agree(a, b, i)'
    <3>1. Agree(S(a), S(b), i)
      BY <1>0, <1>3, <1>4, <2>1 DEF Matching, JournalsMatch
    <3>2. i \in Nat /\ i <= Len(log'[a]) /\ i <= Len(log'[b])
      BY <1>2, <2>1
    <3> QED BY <1>8, <3>1, <3>2
  <2> QED BY <2>1 DEF JournalsMatch
<1>10. PrimaryHoldsTerm'
  <2>1. ASSUME NEW q \in Members, NEW a \in Members, NEW i \in 1..Len(log'[a]),
               role[q] = "Primary", log'[a][i].term = term[q]
        PROVE  Agree(a, q, i)'
    <3>1. S(q) = q /\ log'[q] = log[q]
      BY <1>1, <1>6, <2>1 DEF S
    <3>2. Agree(S(a), S(q), i)
      BY <1>0, <1>3, <1>4, <2>1, <3>1 DEF Matching, PrimaryHoldsTerm
    <3>3. i \in Nat /\ i <= Len(log'[a]) /\ i <= Len(log'[q])
      BY <1>2, <3>1, <3>2 DEF Agree
    <3> QED BY <1>8, <3>2, <3>3
  <2> QED BY <1>5, <2>1 DEF PrimaryHoldsTerm
<1>11. FollowersMatch'
  <2>1. ASSUME NEW x \in Members, NEW b \in Members, NEW j \in 1..Len(log'[b]), NEW k \in 1..j,
               Follows(x), log'[b][j].term = term[x], k <= Len(log'[x])
        PROVE  log'[x][k] = log'[b][k]
    <3>1. k \in Nat /\ k \in 1..Len(log'[b]) /\ k \in 1..Len(log'[x]) /\ j \in Nat /\ k <= j
      BY <1>2, <2>1
    <3>2. /\ log'[b][k] = log[S(b)][k] /\ log'[x][k] = log[S(x)][k]
          /\ log[S(b)][j].term = term[x] /\ j \in 1..Len(log[S(b)])
      BY <1>4, <2>1, <3>1
    <3>3. CASE x # r
      <4>1. S(x) = x /\ k <= Len(log[x])
        BY <1>1, <2>1, <3>3 DEF S
      <4> QED BY <1>0, <1>3, <2>1, <3>2, <4>1 DEF Matching, FollowersMatch
    <3>4. CASE x = r
      <4>1. S(x) = p
        BY <3>4 DEF S
      <4>2. CASE n + 1 <= j
        <5>1. Agree(p, S(b), n + 1)
          BY <1>0, <1>1, <1>3, <3>2, <3>4, <4>2 DEF Matching, JournalsMatch
        <5>2. k \in 1..n + 1
          BY <1>1, <2>1, <3>1, <3>4
        <5> QED BY <3>2, <4>1, <5>1, <5>2 DEF Agree
      <4>3. CASE j <= n + 1
        <5>1. Agree(S(b), p, j)
          BY <1>0, <1>1, <1>3, <3>2, <3>4, <4>3 DEF Matching, JournalsMatch
        <5> QED BY <3>1, <3>2, <4>1, <5>1 DEF Agree
      <4> QED BY <1>2, <3>1, <4>2, <4>3 DEF n
    <3> QED BY <3>3, <3>4
  <2>2. ASSUME NEW q \in Members, NEW x \in Members, role[q] = "Primary", Follows(x), term[x] = term[q]
        PROVE  Agree(x, q, Len(log[x]))'
    <3>1. S(q) = q /\ log'[q] = log[q]
      BY <1>1, <1>6, <2>2 DEF S
    <3>2. CASE x # r
      <4>1. log'[x] = log[x] /\ Agree(x, q, Len(log[x]))
        BY <1>0, <1>1, <2>2, <3>2 DEF Matching, FollowersMatch
      <4> QED BY <3>1, <4>1 DEF Agree
    <3>3. CASE x = r
      <4>1. Agree(p, q, n + 1)
        BY <1>0, <1>1, <2>2, <3>3 DEF Matching, PrimaryHoldsTerm
      <4>2. Agree(S(x), S(q), Len(log'[x])) /\ Len(log'[x]) <= Len(log'[q])
        BY <1>1, <3>1, <3>3, <4>1 DEF S, Agree
      <4> QED BY <1>2, <1>8, <4>2
    <3> QED BY <3>2, <3>3
  <2> QED BY <1>5, <1>7, <2>1, <2>2 DEF FollowersMatch
<1>12. LaterHolds'
  <2> SUFFICES ASSUME ~overtaken' PROVE LaterHold'
    BY DEF LaterHolds
  <2>later. LaterHold
    BY <1>0 DEF LaterHolds, Grows, HistoryGrows
  <2>0. ASSUME NEW a \in Members, NEW i \in 1..Len(log'[a]), Blocked(i, log[S(a)][i].term)
        PROVE  Blocked(i, log[a][i].term)'
    <3>1. i \in Nat /\ log[S(a)][i].term \in Nat /\ log'[a][i] = log[S(a)][i]
      BY <1>0, <1>3, <1>4, JournalFacts
    <3>2. PICK u \in Nat : u = log[S(a)][i].term
      BY <3>1
    <3>3. Blocked(i, u)
      BY <2>0, <3>2
    <3>4. Blocked(i, u)'
      BY <1>0, <3>1, <3>3, FrameBlockedStays
    <3>5. u = log'[a][i].term
      BY <3>1, <3>2
    <3> QED BY <3>4, <3>5 DEF Blocked, Never
  <2>1. ASSUME NEW a \in Members, NEW b \in Members,
               NEW i \in 1..Len(log'[a]), NEW j \in 1..Len(log'[b]),
               log'[a][i].term < log'[b][j].term
        PROVE  (i < j /\ log'[b][i] = log'[a][i]) \/ Blocked(i, log[a][i].term)'
    <3>1. (i < j /\ log[S(b)][i] = log[S(a)][i]) \/ Blocked(i, log[S(a)][i].term)
      BY <2>later, <1>3, <1>4, <2>1 DEF LaterHold
    <3>2. i < j => i \in 1..Len(log'[b])
      BY <1>2
    <3> QED BY <1>4, <2>0, <3>1, <3>2
  <2>2. ASSUME NEW a \in Members, NEW q \in Members, NEW i \in 1..Len(log'[a]),
               role[q] = "Primary", log'[a][i].term < term[q]
        PROVE  (i <= Len(log'[q]) /\ log'[q][i] = log'[a][i]) \/ Blocked(i, log[a][i].term)'
    <3>1. log'[q] = log[q]
      BY <1>1, <1>6, <2>2
    <3>2. (i <= Len(log[q]) /\ log[q][i] = log[S(a)][i]) \/ Blocked(i, log[S(a)][i].term)
      BY <2>later, <1>3, <1>4, <2>2 DEF LaterHold
    <3> QED BY <1>4, <2>0, <3>1, <3>2
  <2> QED BY <1>5, <2>1, <2>2 DEF LaterHold
<1> QED BY <1>9, <1>10, <1>11, <1>12 DEF Matching

-----------------------------------------------------------------------------
\* Steps by which the Primary of a term writes its journal.

\* p may write frames of the term t: it holds every frame of t and all that
\* the followers of t hold.
Leads(p, t) ==
    /\ Elected(p, t) /\ promised[p] = t /\ term[p] <= t
    /\ \A a \in Members : \A i \in 1..Len(log[a]) :
          log[a][i].term = t => Agree(a, p, i)
    /\ \A r \in Members : r # p /\ Follows(r) /\ term[r] = t => Agree(r, p, Len(log[r]))

\* p holds every frame of a term before t that is not blocked.
Inherits(p, t) ==
    \A a \in Members : \A i \in 1..Len(log[a]) :
        log[a][i].term < t =>
            (i <= Len(log[p]) /\ log[p][i] = log[a][i]) \/ Blocked(i, log[a][i].term)

\* p is the Primary of t afterwards, nothing else changes but its journal.
Leading(p, t) ==
    /\ role'[p] = "Primary" /\ term'[p] = t
    /\ \A m \in Members \ {p} : role'[m] = role[m] /\ term'[m] = term[m] /\ log'[m] = log[m]
    /\ promised' = promised /\ reseed' = reseed

\* A term above t was given to somebody: a frame of t that nobody holds yet
\* is blocked.
LEMMA BlockedAbove ==
  ASSUME IInv, NEW c \in Members, NEW u \in Nat, Elected(c, u),
         NEW t \in Nat, 1 <= t, t < u, NEW i,
         \A x \in Members : ~(i \in 1..Len(log[x]) /\ log[x][i].term = t)
  PROVE  Blocked(i, t)
<1>1. PICK x, y \in Members : x # y /\ u <= promised[x] /\ u <= promised[y]
  BY ElectedQuorum
<1>2. promised[x] > t /\ promised[y] > t
  BY <1>1, PromiseFacts
<1> QED BY <1>1, <1>2 DEF Blocked, Never

\* One Primary of a term, before a step and after it.
LEMMA ElectedOne == IInv => OnePrimaryPerTerm
BY VotesMeet

\* The same after the step.
LEMMA ElectedAfter == IInv' => OnePrimaryPerTerm'
BY ElectedOne, PTL

\* The journals still match when the Primary of a term writes.
LEMMA WriteMatching ==
  ASSUME SafetyInv, Grows, IInv', NEW p \in Members, NEW t \in Nat, Leads(p, t), Leading(p, t),
         ~overtaken' => Inherits(p, t)
  PROVE  Matching' /\ LaterHolds'
<1> DEFINE n == Len(log[p])
           Old(a, k) == k \in 1..Len(log[a]) /\ log'[a][k] = log[a][k]
           New(a, k) == a = p /\ k > n /\ log'[a][k].term = t
<1>0. IInv /\ TypeOK /\ Matching /\ LaterHolds /\ Votes
  BY DEF SafetyInv, IInv
<1>1. /\ \A m \in Members : Len(log[m]) \in Nat /\ Len(log'[m]) \in Nat /\ Len(log[m]) <= Len(log'[m])
      /\ \A m \in Members : \A k \in 1..Len(log[m]) : k \in 1..Len(log'[m]) /\ log'[m][k] = log[m][k]
  <2>1. \A m \in Members : Len(log[m]) \in Nat
    BY <1>0, JournalFacts
  <2>2. log' \in [Members -> Seq(Frame)]
    BY DEF IInv, TypeOK, JournalOK
  <2>3. \A m \in Members : Len(log'[m]) \in Nat
    BY <2>2
  <2> QED BY <2>1, <2>3 DEF Grows, LogsGrow
<1>2. \A a \in Members : \A k \in 1..Len(log'[a]) : Old(a, k) \/ New(a, k)
  <2> TAKE a \in Members
  <2> TAKE k \in 1..Len(log'[a])
  <2>1. CASE k \in 1..Len(log[a])
    BY <1>1, <2>1
  <2>2. CASE ~(k \in 1..Len(log[a]))
    <3>1. k > Len(log[a])
      BY <1>1, <2>2
    <3>2. NewFrame(a, k)
      BY <2>2 DEF Grows, LogsGrow
    <3>3. a = p
      BY <1>1, <3>1 DEF Leading
    <3> QED BY <3>1, <3>2, <3>3 DEF NewFrame, Leading
  <2> QED BY <2>1, <2>2
<1>3. \A a, b \in Members : \A i \in Nat : Agree(a, b, i) => Agree(a, b, i)'
  <2> TAKE a, b \in Members
  <2> TAKE i \in Nat
  <2> HAVE Agree(a, b, i)
  <2>1. i <= Len(log'[a]) /\ i <= Len(log'[b])
    BY <1>1 DEF Agree
  <2>2. \A k \in 1..i : log'[a][k] = log'[b][k]
    <3> TAKE k \in 1..i
    <3>1. k \in 1..Len(log[a]) /\ k \in 1..Len(log[b]) /\ log[a][k] = log[b][k]
      BY <1>1 DEF Agree
    <3> QED BY <1>1, <3>1
  <2> QED BY <2>1, <2>2 DEF Agree
<1>4. /\ Elected(p, t) /\ promised[p] = t /\ term[p] <= t
      /\ role'[p] = "Primary" /\ term'[p] = t
      /\ \A m \in Members \ {p} : role'[m] = role[m] /\ term'[m] = term[m] /\ log'[m] = log[m]
      /\ promised' = promised /\ reseed' = reseed
  BY DEF Leads, Leading
<1>5. /\ \A a \in Members : \A i \in 1..Len(log[a]) : log[a][i].term = t => Agree(a, p, i)
      /\ \A r \in Members : r # p /\ Follows(r) /\ term[r] = t => Agree(r, p, Len(log[r]))
  BY DEF Leads
<1>7. \A r \in Members : Follows(r)' => r # p /\ Follows(r) /\ term'[r] = term[r] /\ log'[r] = log[r]
  BY <1>4 DEF Follows
<1>8. \A q \in Members : role'[q] = "Primary" /\ q # p =>
        role[q] = "Primary" /\ term'[q] = term[q] /\ term[q] # t /\ log'[q] = log[q]
  <2>1. OnePrimaryPerTerm'
    BY ElectedAfter
  <2> QED BY <1>4, <2>1 DEF OnePrimaryPerTerm
<1>9. JournalsMatch'
  <2>1. ASSUME NEW a \in Members, NEW b \in Members,
               NEW i \in 1..Len(log'[a]), NEW j \in 1..Len(log'[b]),
               i <= j, log'[a][i].term = log'[b][j].term
        PROVE  Agree(a, b, i)'
    <3>0. i \in Nat /\ j \in Nat /\ n \in Nat
      BY <1>1
    <3>1. CASE Old(a, i) /\ Old(b, j)
      <4>1. Agree(a, b, i)
        BY <1>0, <2>1, <3>1 DEF Matching, JournalsMatch
      <4> QED BY <1>3, <3>0, <4>1
    <3>2. CASE New(a, i) /\ b = p
      <4>1. i <= Len(log'[a]) /\ i <= Len(log'[b])
        BY <1>1, <2>1, <3>2
      <4> QED BY <3>2, <4>1 DEF Agree
    <3>3. CASE New(a, i) /\ b # p
      <4>1. Old(b, j) /\ log[b][j].term = t
        BY <1>2, <2>1, <3>3
      <4>2. Agree(b, p, j)
        BY <1>5, <4>1
      <4> QED BY <2>1, <3>0, <3>3, <4>2 DEF Agree
    <3>4. CASE Old(a, i) /\ New(b, j)
      <4>1. Agree(a, p, i)
        BY <1>5, <2>1, <3>4
      <4> QED BY <1>3, <3>0, <3>4, <4>1
    <3> QED BY <1>2, <3>1, <3>2, <3>3, <3>4
  <2> QED BY <2>1 DEF JournalsMatch
<1>10. PrimaryHoldsTerm'
  <2>1. ASSUME NEW q \in Members, NEW a \in Members, NEW i \in 1..Len(log'[a]),
               role'[q] = "Primary", log'[a][i].term = term'[q]
        PROVE  Agree(a, q, i)'
    <3>0. i \in Nat
      BY <1>1
    <3>1. CASE q = p /\ Old(a, i)
      BY <1>3, <1>4, <1>5, <2>1, <3>0, <3>1
    <3>2. CASE q = p /\ New(a, i)
      <4>1. i <= Len(log'[a])
        BY <1>1
      <4> QED BY <3>2, <4>1 DEF Agree
    <3>3. CASE q # p
      <4>1. role[q] = "Primary" /\ term'[q] = term[q] /\ term[q] # t
        BY <1>8, <2>1, <3>3
      <4>2. Old(a, i)
        BY <1>2, <2>1, <4>1
      <4>3. Agree(a, q, i)
        BY <1>0, <2>1, <4>1, <4>2 DEF Matching, PrimaryHoldsTerm
      <4> QED BY <1>3, <3>0, <4>3
    <3> QED BY <1>2, <3>1, <3>2, <3>3
  <2> QED BY <2>1 DEF PrimaryHoldsTerm
<1>11. FollowersMatch'
  <2>1. ASSUME NEW r \in Members, NEW b \in Members, NEW j \in 1..Len(log'[b]), NEW k \in 1..j,
               Follows(r)', log'[b][j].term = term'[r], k <= Len(log'[r])
        PROVE  log'[r][k] = log'[b][k]
    <3>0. r # p /\ Follows(r) /\ term'[r] = term[r] /\ log'[r] = log[r]
      BY <1>7, <2>1
    <3>1. CASE Old(b, j)
      <4>1. log[r][k] = log[b][k]
        BY <1>0, <2>1, <3>0, <3>1 DEF Matching, FollowersMatch
      <4>2. k \in 1..Len(log[b])
        BY <1>1, <3>1
      <4> QED BY <1>1, <3>0, <4>1, <4>2
    <3>2. CASE New(b, j)
      <4>1. Agree(r, p, Len(log[r]))
        BY <1>5, <2>1, <3>0, <3>2
      <4>2. k \in 1..Len(log[r]) /\ k \in 1..Len(log[p])
        BY <1>1, <2>1, <3>0, <4>1 DEF Agree
      <4> QED BY <1>1, <3>0, <3>2, <4>1, <4>2 DEF Agree
    <3> QED BY <1>2, <3>1, <3>2
  <2>2. ASSUME NEW q \in Members, NEW r \in Members, role'[q] = "Primary", Follows(r)', term'[r] = term'[q]
        PROVE  Agree(r, q, Len(log[r]))'
    <3>0. r # p /\ Follows(r) /\ term'[r] = term[r] /\ log'[r] = log[r] /\ Len(log[r]) \in Nat
      BY <1>1, <1>7, <2>2
    <3>1. Agree(r, q, Len(log[r]))
      <4>1. CASE q = p
        BY <1>4, <1>5, <2>2, <3>0, <4>1
      <4>2. CASE q # p
        BY <1>0, <1>8, <2>2, <3>0, <4>2 DEF Matching, FollowersMatch
      <4> QED BY <4>1, <4>2
    <3>2. ASSUME NEW i \in Nat, i = Len(log[r]) PROVE Agree(r, q, i)'
      BY <1>3, <3>1, <3>2
    <3> QED BY <3>0, <3>2 DEF Agree
  <2> QED BY <2>1, <2>2 DEF FollowersMatch
<1>12. LaterHolds'
  <2> SUFFICES ASSUME ~overtaken' PROVE LaterHold'
    BY DEF LaterHolds
  <2>later. LaterHold /\ Inherits(p, t)
    BY <1>0 DEF LaterHolds, Grows, HistoryGrows
  <2>0. ASSUME NEW a \in Members, NEW i \in 1..Len(log[a]), Blocked(i, log[a][i].term)
        PROVE  Blocked(i, log[a][i].term)'
    <3>1. i \in Nat /\ log[a][i].term \in Nat /\ log'[a][i] = log[a][i]
      BY <1>0, <1>1, JournalFacts
    <3>2. PICK u \in Nat : u = log[a][i].term
      BY <3>1
    <3>3. Blocked(i, u)
      BY <2>0, <3>2
    <3>4. Blocked(i, u)'
      BY <1>0, <3>1, <3>3, FrameBlockedStays
    <3>5. u = log'[a][i].term
      BY <3>1, <3>2
    <3> QED BY <3>4, <3>5 DEF Blocked, Never
  <2>1. ASSUME NEW a \in Members, NEW i \in 1..Len(log'[a]), New(a, i),
               NEW c \in Members, NEW u \in Nat, Elected(c, u), t < u
        PROVE  Blocked(i, log[a][i].term)'
    <3>1. ASSUME NEW x \in Members, i \in 1..Len(log[x]), log[x][i].term = t PROVE FALSE
      <4>1. Agree(x, p, i)
        BY <1>5, <3>1
      <4> QED BY <1>1, <2>1, <4>1 DEF Agree
    <3>2. 1 <= t /\ i \in Nat
      <4>1. 1 <= term[p] /\ term[p] \in Nat
        BY <1>0, PromiseFacts
      <4> QED BY <1>1, <1>4, <4>1
    <3>3. Blocked(i, t)
      BY <1>0, <2>1, <3>1, <3>2, BlockedAbove
    <3>4. Blocked(i, t)'
      BY <1>0, <3>2, <3>3, FrameBlockedStays
    <3> QED BY <2>1, <3>4 DEF Blocked, Never
  <2>2. ASSUME NEW a \in Members, NEW b \in Members,
               NEW i \in 1..Len(log'[a]), NEW j \in 1..Len(log'[b]),
               log'[a][i].term < log'[b][j].term
        PROVE  (i < j /\ log'[b][i] = log'[a][i]) \/ Blocked(i, log[a][i].term)'
    <3>1. CASE Old(a, i) /\ Old(b, j)
      <4>1. (i < j /\ log[b][i] = log[a][i]) \/ Blocked(i, log[a][i].term)
        BY <2>later, <2>2, <3>1 DEF LaterHold
      <4>2. i < j => i \in 1..Len(log[b])
        BY <1>1, <3>1
      <4> QED BY <1>1, <2>0, <3>1, <4>1, <4>2
    <3>2. CASE Old(a, i) /\ New(b, j)
      <4>1. (i <= Len(log[p]) /\ log[p][i] = log[a][i]) \/ Blocked(i, log[a][i].term)
        BY <2>later, <2>2, <3>2 DEF Inherits
      <4>2. i <= Len(log[p]) => i \in 1..Len(log[p]) /\ i < j
        BY <1>1, <3>2
      <4> QED BY <1>1, <2>0, <3>2, <4>1, <4>2
    <3>3. CASE New(a, i)
      <4>1. log'[b][j].term # t
        <5>1. log' \in [Members -> Seq(Frame)]
          BY DEF IInv, TypeOK, JournalOK
        <5>2. log'[b][j] \in Frame
          BY <5>1
        <5>3. log'[b][j].term \in Nat
          BY <5>2, BoundsAssumption DEF Frame
        <5> QED BY <2>2, <3>3, <5>3
      <4>2. Old(b, j)
        BY <1>2, <4>1
      <4>3. /\ log[b][j].term \in Nat /\ log[b][j].by \in Members
            /\ Elected(log[b][j].by, log[b][j].term)
        BY <1>0, <4>2, JournalFacts DEF Votes, FramesElected
      <4>4. t < log[b][j].term
        BY <2>2, <3>3, <4>2
      <4> QED BY <2>1, <3>3, <4>3, <4>4
    <3> QED BY <1>2, <3>1, <3>2, <3>3
  <2>3. ASSUME NEW a \in Members, NEW q \in Members, NEW i \in 1..Len(log'[a]),
               role'[q] = "Primary", log'[a][i].term < term'[q]
        PROVE  (i <= Len(log'[q]) /\ log'[q][i] = log'[a][i]) \/ Blocked(i, log[a][i].term)'
    <3>0. term'[q] \in Nat
      BY BoundsAssumption DEF IInv, TypeOK, MemberOK
    <3>1. CASE q = p
      <4>1. Old(a, i) /\ log[a][i].term < t
        BY <1>2, <1>4, <2>3, <3>0, <3>1
      <4>2. (i <= Len(log[p]) /\ log[p][i] = log[a][i]) \/ Blocked(i, log[a][i].term)
        BY <2>later, <4>1 DEF Inherits
      <4>3. i <= Len(log[p]) => i \in 1..Len(log[p]) /\ i <= Len(log'[p])
        BY <1>1, <4>1
      <4> QED BY <1>1, <2>0, <3>1, <4>1, <4>2, <4>3
    <3>2. CASE q # p /\ Old(a, i)
      <4>1. (i <= Len(log[q]) /\ log[q][i] = log[a][i]) \/ Blocked(i, log[a][i].term)
        BY <2>later, <1>8, <2>3, <3>2 DEF LaterHold
      <4> QED BY <1>8, <2>0, <2>3, <3>2, <4>1
    <3>3. CASE q # p /\ New(a, i)
      <4>1. role[q] = "Primary" /\ term'[q] = term[q]
        BY <1>8, <2>3, <3>3
      <4>2. Elected(q, term[q]) /\ t < term[q] /\ term[q] \in Nat
        BY <1>0, <2>3, <3>0, <3>3, <4>1, PrimaryElected
      <4> QED BY <2>1, <3>3, <4>2
    <3> QED BY <1>2, <3>1, <3>2, <3>3
  <2> QED BY <2>2, <2>3 DEF LaterHold
<1> QED BY <1>9, <1>10, <1>11, <1>12 DEF Matching

-----------------------------------------------------------------------------
\* What the invariant says of each member by itself.

\* A promotion of m that is under way.
MemberCampaign(m) ==
    campaign[m] # 0 =>
        /\ ~up[m] /\ role[m] = "Replica" /\ term[m] < campaign[m]
        /\ Len(log[m]) = confirmed[m] /\ confirmed[m] = applied[m]

\* What m has not confirmed.
MemberUnconfirmed(m) ==
    /\ Follows(m) => Len(log[m]) = confirmed[m]
    /\ \A i \in confirmed[m] + 1..Len(log[m]) : role[m] = "Primary" => log[m][i].term = term[m]
    /\ up[m] => ~reseed[m]

\* The anchors in m's journal, and the one of its own term.
MemberAnchors(m) ==
    \A j \in 1..Len(log[m]) : \E i \in 1..j :
        log[m][i].anchor /\ log[m][i].term = log[m][j].term

\* A running Primary wrote its term's anchor, and one that serves confirmed it.
MemberServes(m) ==
    /\ Running(m, "Primary") => LastTerm(log[m]) = term[m]
    /\ ready[m] => Running(m, "Primary") /\ \E i \in 1..confirmed[m] : log[m][i].term = term[m]

\* All that the invariant says of one member.
MemberInv(m) == MemberCampaign(m) /\ MemberUnconfirmed(m) /\ MemberAnchors(m) /\ MemberServes(m)

\* The step leaves m alone.
Same(m) ==
    /\ role'[m] = role[m] /\ term'[m] = term[m] /\ promised'[m] = promised[m]
    /\ log'[m] = log[m] /\ confirmed'[m] = confirmed[m] /\ applied'[m] = applied[m]
    /\ reseed'[m] = reseed[m] /\ up'[m] = up[m] /\ ready'[m] = ready[m]
    /\ campaign'[m] = campaign[m]

\* The invariant, with its parts about single members gathered.
LEMMA MemberParts ==
  SafetyInv <=> /\ IInv /\ FramesElected /\ TermsAscend /\ TermsElected /\ PromisesRecord
                /\ Matching /\ LaterHolds /\ ConfirmedOnTwo
                /\ \A m \in Members : MemberInv(m)
<1>1. CampaignsReady <=> \A m \in Members : MemberCampaign(m)
  BY DEF CampaignsReady, MemberCampaign
<1>2. Unconfirmed <=> \A m \in Members : MemberUnconfirmed(m)
  BY DEF Unconfirmed, MemberUnconfirmed
<1>3. Anchored <=> \A m \in Members : MemberAnchors(m) /\ MemberServes(m)
  BY DEF Anchored, MemberAnchors, MemberServes
<1> QED BY <1>1, <1>2, <1>3 DEF SafetyInv, Votes, MemberInv

\* The same after a step.
LEMMA MemberPartsAfter ==
  SafetyInv' <=> /\ IInv' /\ FramesElected' /\ TermsAscend' /\ TermsElected' /\ PromisesRecord'
                 /\ Matching' /\ LaterHolds' /\ ConfirmedOnTwo'
                 /\ (\A m \in Members : MemberInv(m))'
BY MemberParts, PTL

\* A member the step leaves alone keeps what the invariant says of it.
LEMMA SameKeeps ==
  ASSUME NEW m \in Members, Same(m), MemberInv(m)
  PROVE  MemberInv(m)'
<1>1. MemberCampaign(m)'
  BY DEF MemberInv, MemberCampaign, Same
<1>2. Follows(m)' <=> Follows(m)
  BY DEF Same, Follows
<1>3. MemberUnconfirmed(m)'
  BY <1>2 DEF MemberInv, MemberUnconfirmed, Same
<1>4. MemberAnchors(m)'
  BY DEF MemberInv, MemberAnchors, Same
<1>5. MemberServes(m)'
  BY DEF MemberInv, MemberServes, Same, Running
<1> QED BY <1>1, <1>3, <1>4, <1>5 DEF MemberInv

\* The parts of a step that changes one member.
LEMMA StepParts ==
  ASSUME SafetyInv, IInv', Grows, Matching', LaterHolds', ConfirmedOnTwo',
         NEW m \in Members, MemberInv(m)', \A x \in Members : x # m => Same(x)
  PROVE  SafetyInv'
<1>1. FramesElected' /\ TermsAscend' /\ TermsElected' /\ PromisesRecord'
  BY VotesKept DEF SafetyInv
<1>2. ASSUME NEW x \in Members PROVE MemberInv(x)'
  <2>1. CASE x = m
    BY <2>1
  <2>2. CASE x # m
    BY <2>2, MemberParts, SameKeeps
  <2> QED BY <2>1, <2>2
<1> QED BY <1>1, <1>2, MemberPartsAfter

\* What stays confirmed stays on two members: journals only grow.
LEMMA ConfirmedStays ==
  ASSUME SafetyInv, Grows, IInv', NEW m \in Members, NEW i \in 1..confirmed[m]
  PROVE  \E other \in Peers(m) : i <= Len(log'[other]) /\ log'[other][i] = log'[m][i]
<1>1. PICK other \in Peers(m) : i <= Len(log[other]) /\ log[other][i] = log[m][i]
  BY DEF SafetyInv, ConfirmedOnTwo
<1>2. other \in Members /\ TypeOK /\ TypeOK'
  BY DEF Peers, SafetyInv, IInv
<1>3. /\ Len(log[other]) \in Nat /\ i \in 1..Len(log[m]) /\ i \in 1..Len(log[other])
      /\ Len(log[other]) <= Len(log'[other])
  BY <1>1, <1>2, JournalFacts DEF Grows, LogsGrow
<1>4. Len(log'[other]) \in Nat
  BY <1>2 DEF TypeOK, JournalOK
<1> QED BY <1>1, <1>2, <1>3, <1>4 DEF Grows, LogsGrow

\* A step that confirms nothing.
LEMMA ConfirmedKept ==
  ASSUME SafetyInv, Grows, IInv', confirmed' = confirmed
  PROVE  ConfirmedOnTwo'
BY ConfirmedStays DEF ConfirmedOnTwo, Peers

-----------------------------------------------------------------------------
\* Steps that change neither a journal, nor a term, nor a promise.

\* Nothing that the journals are compared by changes; a reseed may be asked for.
Quiet ==
    /\ UNCHANGED <<role, term, promised, log, promises, overtaken>>
    /\ \A m \in Members : reseed[m] => reseed'[m]

\* Quiet steps leave the journals matching.
LEMMA QuietKeeps ==
  ASSUME SafetyInv, IInv', Quiet
  PROVE  Grows /\ Matching' /\ LaterHolds'
<1>0. IInv /\ TypeOK
  BY DEF SafetyInv, IInv
<1>1. Grows
  <2>1. TermsGrow
    BY <1>0, PromiseFacts DEF TermsGrow, Quiet
  <2>2. PromisesGrow
    BY DEF PromisesGrow, Quiet
  <2>3. LogsGrow
    BY <1>0, LogsKept DEF Quiet
  <2>4. HistoryGrows
    BY DEF HistoryGrows, Quiet
  <2> QED BY <2>1, <2>2, <2>3, <2>4 DEF Grows
<1>2. \A r \in Members : Follows(r)' => Follows(r) /\ term'[r] = term[r]
  BY DEF Quiet, Follows
<1>3. log' = log /\ \A m \in Members : role'[m] = "Primary" => role[m] = "Primary" /\ term'[m] = term[m]
  BY DEF Quiet
<1> QED BY <1>1, <1>2, <1>3, StillMatching

\* A quiet step that changes one member.
LEMMA QuietStepKeeps ==
  ASSUME SafetyInv, IInv', Quiet, ConfirmedOnTwo' \/ confirmed' = confirmed,
         NEW m \in Members, MemberInv(m)', \A x \in Members : x # m => Same(x)
  PROVE  SafetyInv'
BY QuietKeeps, StepParts, ConfirmedKept

\* A Replica opens its receiver.
LEMMA StartReplicaKeeps ==
  ASSUME SafetyInv, IInv', NEW m \in Members, StartReplica(m)
  PROVE  SafetyInv'
<1>0. IInv /\ TypeOK /\ MemberInv(m)
  BY MemberParts DEF IInv
<1>1. /\ campaign[m] = 0 /\ ~reseed[m] /\ role[m] = "Replica"
      /\ up' = [up EXCEPT ![m] = TRUE]
      /\ UNCHANGED <<role, term, promised, log, confirmed, applied, reseed, ready, campaign, promises, overtaken>>
  BY DEF StartReplica, Startable, member, journal, startup, rest
<1>2. Quiet /\ \A x \in Members : x # m => Same(x)
  BY <1>0, <1>1 DEF Quiet, Same, TypeOK, ProcessOK
<1>3. MemberInv(m)'
  <2>1. MemberCampaign(m)'
    BY <1>1 DEF MemberCampaign
  <2>2. Follows(m)' <=> Follows(m)
    BY <1>1 DEF Follows
  <2>3. MemberUnconfirmed(m)'
    BY <1>0, <1>1, <2>2 DEF MemberInv, MemberUnconfirmed
  <2>4. MemberAnchors(m)'
    BY <1>0, <1>1 DEF MemberInv, MemberAnchors
  <2>5. MemberServes(m)'
    BY <1>0, <1>1 DEF MemberInv, MemberServes, Running
  <2> QED BY <2>1, <2>3, <2>4, <2>5 DEF MemberInv
<1> QED BY <1>1, <1>2, <1>3, QuietStepKeeps

\* The process of m ends, or its promotion; nothing durable changes but that a
\* reseed may be asked for.
LEMMA StoppedKeeps ==
  ASSUME SafetyInv, IInv', NEW m \in Members,
         UNCHANGED <<role, term, promised, log, confirmed, applied, promises, overtaken>>,
         \A x \in Members : x # m => Same(x),
         ~up'[m] /\ ~ready'[m] /\ campaign'[m] \in {0, campaign[m]},
         reseed[m] => reseed'[m]
  PROVE  SafetyInv'
<1>0. MemberInv(m)
  BY MemberParts
<1>1. Quiet
  BY DEF Quiet, Same
<1>2. MemberCampaign(m)'
  BY <1>0 DEF MemberInv, MemberCampaign
<1>3. Follows(m)' => Follows(m)
  BY DEF Follows
<1>4. MemberUnconfirmed(m)'
  BY <1>0, <1>3 DEF MemberInv, MemberUnconfirmed
<1>5. MemberAnchors(m)'
  BY <1>0 DEF MemberInv, MemberAnchors
<1>6. MemberServes(m)'
  BY DEF MemberServes, Running
<1>7. MemberInv(m)'
  BY <1>2, <1>4, <1>5, <1>6 DEF MemberInv
<1> QED BY <1>1, <1>7, QuietStepKeeps

\* The end of a process, by member.
LEMMA ExitFacts ==
  ASSUME TypeOK, NEW m \in Members, Exit(m)
  PROVE  /\ up'[m] = FALSE /\ ready'[m] = FALSE
         /\ \A x \in Members : x # m => up'[x] = up[x] /\ ready'[x] = ready[x]
BY DEF TypeOK, ProcessOK, Exit

\* A crash.
LEMMA CrashKeeps ==
  ASSUME SafetyInv, IInv', NEW m \in Members, Crash(m)
  PROVE  SafetyInv'
<1>0. TypeOK
  BY DEF SafetyInv, IInv
<1>1. /\ UNCHANGED <<role, term, promised, log, confirmed, applied, reseed, campaign, promises, overtaken>>
      /\ Exit(m)
  BY DEF Crash, member, journal
<1>2. \A x \in Members : x # m => Same(x)
  BY <1>0, <1>1, ExitFacts DEF Same
<1> QED BY <1>0, <1>1, <1>2, ExitFacts, StoppedKeeps

\* A Replica that has to be reseeded stops.
LEMMA RequireReseedKeeps ==
  ASSUME SafetyInv, IInv', NEW m \in Members, NEW p \in Members, RequireReseed(m, p)
  PROVE  SafetyInv'
<1>0. TypeOK
  BY DEF SafetyInv, IInv
<1>1. /\ UNCHANGED <<role, term, promised, log, confirmed, applied, campaign, promises, overtaken>>
      /\ Exit(m) /\ reseed' = [reseed EXCEPT ![m] = TRUE]
  BY DEF RequireReseed, member, journal, rest
<1>2. reseed'[m] /\ \A x \in Members : x # m => reseed'[x] = reseed[x]
  BY <1>0, <1>1 DEF TypeOK, ProcessOK
<1>3. \A x \in Members : x # m => Same(x)
  BY <1>0, <1>1, <1>2, ExitFacts DEF Same
<1> QED BY <1>0, <1>1, <1>2, <1>3, ExitFacts, StoppedKeeps

\* A promotion is given up.
LEMMA AbandonKeeps ==
  ASSUME SafetyInv, IInv', NEW m \in Members, AbandonPromotion(m)
  PROVE  SafetyInv'
<1>0. IInv /\ TypeOK /\ MemberInv(m)
  BY MemberParts DEF IInv
<1>1. /\ UNCHANGED <<role, term, promised, log, confirmed, applied, reseed, up, ready, promises, overtaken>>
      /\ campaign[m] # 0 /\ campaign' = [campaign EXCEPT ![m] = 0]
  BY DEF AbandonPromotion, member, journal, startup
<1>2. campaign'[m] = 0 /\ \A x \in Members : x # m => Same(x)
  BY <1>0, <1>1 DEF TypeOK, PromotionOK, Same
<1>3. ~up'[m] /\ ~ready'[m]
  BY <1>0, <1>1 DEF MemberInv, MemberCampaign, MemberServes, Running
<1> QED BY <1>1, <1>2, <1>3, StoppedKeeps

\* Nothing the invariant speaks of changes but who was heard.
LEMMA NothingChanges ==
  ASSUME SafetyInv, IInv',
         UNCHANGED <<role, term, promised, log, confirmed, applied, reseed, up, ready, campaign, promises, overtaken>>
  PROVE  SafetyInv'
<1>1. Quiet /\ \A x \in Members : Same(x)
  BY DEF Quiet, Same
<1>2. MemberInv(First)'
  BY <1>1, MembersAssumption, MemberParts, SameKeeps
<1> QED BY <1>1, <1>2, MembersAssumption, QuietStepKeeps

\* Clients are let in once a frame of the term is confirmed.
LEMMA StartupReadyKeeps ==
  ASSUME SafetyInv, IInv', NEW m \in Members, StartupReady(m)
  PROVE  SafetyInv'
<1>0. IInv /\ TypeOK /\ MemberInv(m)
  BY MemberParts DEF IInv
<1>1. /\ UNCHANGED <<role, term, promised, log, confirmed, applied, reseed, up, campaign, promises, overtaken>>
      /\ Running(m, "Primary") /\ LastTerm(SubSeq(log[m], 1, confirmed[m])) = term[m]
      /\ ready' = [ready EXCEPT ![m] = TRUE]
  BY DEF StartupReady, member, journal, rest
<1>2. Quiet /\ \A x \in Members : x # m => Same(x)
  BY <1>0, <1>1 DEF Quiet, Same, TypeOK, ProcessOK
<1>3. \E i \in 1..confirmed[m] : log[m][i].term = term[m]
  <2> DEFINE c == confirmed[m]
             s == SubSeq(log[m], 1, c)
  <2>1. /\ log[m] \in Seq(Frame) /\ c \in Nat /\ c <= Len(log[m]) /\ Len(log[m]) \in Nat
        /\ term[m] \in Nat /\ 1 <= term[m]
    BY <1>0, JournalFacts, PromiseFacts
  <2>2. Len(s) = c /\ \A i \in 1..c : s[i] = log[m][i]
    BY <2>1
  <2>3. c # 0 /\ LastTerm(s) = s[c].term
    <3>1. s # <<>>
      BY <1>1, <2>1 DEF LastTerm
    <3>2. s \in Seq(Frame)
      BY <2>1
    <3>3. c # 0
      BY <2>2, <3>1, <3>2
    <3> HIDE DEF s
    <3> QED BY <2>2, <3>1, <3>3 DEF LastTerm
  <2>4. c \in 1..c
    BY <2>1, <2>3
  <2> QED BY <1>1, <2>2, <2>3, <2>4
<1>4. MemberInv(m)'
  <2>1. MemberCampaign(m)'
    BY <1>0, <1>1 DEF MemberInv, MemberCampaign
  <2>2. Follows(m)' <=> Follows(m)
    BY <1>1 DEF Follows
  <2>3. MemberUnconfirmed(m)'
    BY <1>0, <1>1, <2>2 DEF MemberInv, MemberUnconfirmed
  <2>4. MemberAnchors(m)'
    BY <1>0, <1>1 DEF MemberInv, MemberAnchors
  <2>5. MemberServes(m)'
    BY <1>0, <1>1, <1>3 DEF MemberInv, MemberServes, Running
  <2> QED BY <2>1, <2>3, <2>4, <2>5 DEF MemberInv
<1> QED BY <1>1, <1>2, <1>4, QuietStepKeeps

\* A projection moves on.
LEMMA AdvanceAppliedKeeps ==
  ASSUME SafetyInv, IInv', NEW m \in Members, NEW index, AdvanceApplied(m, index)
  PROVE  SafetyInv'
<1>0. IInv /\ TypeOK /\ MemberInv(m)
  BY MemberParts DEF IInv
<1>1. /\ UNCHANGED <<role, term, promised, log, confirmed, reseed, up, ready, campaign, promises, overtaken>>
      /\ up[m] /\ applied' = [applied EXCEPT ![m] = index]
  BY DEF AdvanceApplied, Running, member, startup, rest
<1>2. Quiet /\ \A x \in Members : x # m => Same(x)
  BY <1>0, <1>1 DEF Quiet, Same, TypeOK, JournalOK
<1>3. MemberInv(m)'
  <2>1. MemberCampaign(m)'
    BY <1>0, <1>1 DEF MemberInv, MemberCampaign
  <2>2. Follows(m)' <=> Follows(m)
    BY <1>1 DEF Follows
  <2>3. MemberUnconfirmed(m)'
    BY <1>0, <1>1, <2>2 DEF MemberInv, MemberUnconfirmed
  <2>4. MemberAnchors(m)'
    BY <1>0, <1>1 DEF MemberInv, MemberAnchors
  <2>5. MemberServes(m)'
    BY <1>0, <1>1 DEF MemberInv, MemberServes, Running
  <2> QED BY <2>1, <2>3, <2>4, <2>5 DEF MemberInv
<1> QED BY <1>1, <1>2, <1>3, QuietStepKeeps

\* An acknowledgement: r holds the prefix that p counts as confirmed.
LEMMA AcknowledgeKeeps ==
  ASSUME SafetyInv, IInv', NEW p \in Members, NEW r \in Members, NEW index, Acknowledge(p, r, index)
  PROVE  SafetyInv'
<1>0. IInv /\ TypeOK /\ MemberInv(p) /\ Matching /\ Unconfirmed
  BY MemberParts DEF IInv, SafetyInv
<1>1. /\ UNCHANGED <<role, term, promised, log, reseed, up, ready, campaign, promises, overtaken>>
      /\ up[p] /\ role[p] = "Primary" /\ r # p /\ Acknowledges(r, p, index)
      /\ index \in confirmed[p] + 1..Len(log[p])
      /\ confirmed' = [confirmed EXCEPT ![p] = index] /\ applied' = [applied EXCEPT ![p] = index]
  BY DEF Acknowledge, Running, member, startup, rest
<1>2. Quiet /\ \A x \in Members : x # p => Same(x)
  BY <1>0, <1>1 DEF Quiet, Same, TypeOK, JournalOK
<1>3. /\ confirmed'[p] = index /\ index \in Nat /\ confirmed[p] \in Nat /\ confirmed[p] <= index
      /\ index \in 1..Len(log[r]) /\ Len(log[r]) \in Nat
      /\ \A x \in Members : x # p => confirmed'[x] = confirmed[x]
  <2>1. confirmed[p] \in Nat /\ Len(log[p]) \in Nat /\ Len(log[r]) \in Nat
    BY <1>0, JournalFacts
  <2>2. confirmed'[p] = index /\ \A x \in Members : x # p => confirmed'[x] = confirmed[x]
    BY <1>0, <1>1 DEF TypeOK, JournalOK
  <2> QED BY <1>1, <2>1, <2>2 DEF Acknowledges
<1>4. \A i \in 1..index : i <= Len(log[r]) /\ log[r][i] = log[p][i]
  <2>1. CASE Joined(r, p)
    <3>1. Follows(r) /\ term[r] = term[p]
      BY <1>0, <2>1 DEF Joined, Running, Follows, Unconfirmed
    <3>2. Agree(r, p, Len(log[r]))
      BY <1>0, <1>1, <3>1 DEF Matching, FollowersMatch
    <3> QED BY <1>3, <3>2 DEF Agree
  <2>2. CASE log[r][index].term = term[p]
    <3>1. Agree(r, p, index)
      BY <1>0, <1>1, <1>3, <2>2 DEF Matching, PrimaryHoldsTerm
    <3> QED BY <1>3, <3>1 DEF Agree
  <2> QED BY <1>1, <2>1, <2>2 DEF Acknowledges
<1>5. ConfirmedOnTwo'
  <2>1. ASSUME NEW m \in Members, NEW i \in 1..confirmed'[m]
        PROVE  \E other \in Peers(m) : i <= Len(log[other]) /\ log[other][i] = log[m][i]
    <3>1. CASE m = p
      BY <1>1, <1>3, <1>4, <2>1, <3>1 DEF Peers
    <3>2. CASE m # p
      BY <1>3, <2>1, <3>2 DEF SafetyInv, ConfirmedOnTwo
    <3> QED BY <3>1, <3>2
  <2> QED BY <1>1, <2>1 DEF ConfirmedOnTwo, Peers
<1>6. MemberInv(p)'
  <2>1. MemberCampaign(p)'
    BY <1>0, <1>1 DEF MemberInv, MemberCampaign
  <2>2. ~Follows(p)'
    BY <1>1 DEF Follows
  <2>3. \A i \in confirmed'[p] + 1..Len(log[p]) : i \in confirmed[p] + 1..Len(log[p])
    BY <1>3
  <2>4. MemberUnconfirmed(p)'
    BY <1>0, <1>1, <2>2, <2>3 DEF MemberInv, MemberUnconfirmed
  <2>5. MemberAnchors(p)'
    BY <1>0, <1>1 DEF MemberInv, MemberAnchors
  <2>6. \A i \in 1..confirmed[p] : i \in 1..confirmed'[p]
    BY <1>3
  <2>7. MemberServes(p)'
    BY <1>0, <1>1, <2>6 DEF MemberInv, MemberServes, Running
  <2> QED BY <2>1, <2>4, <2>5, <2>7 DEF MemberInv
<1> QED BY <1>2, <1>5, <1>6, QuietStepKeeps

-----------------------------------------------------------------------------
\* Steps that raise a term or a promise.

\* m is a Replica afterwards, and follows a new term only with a journal that
\* is confirmed as a whole.
LEMMA RaisedKeeps ==
  ASSUME SafetyInv, IInv', NEW m \in Members, UNCHANGED <<log, confirmed, applied, overtaken>>,
         TermsGrow, PromisesGrow, role'[m] = "Replica",
         \A x \in Members : x # m => Same(x),
         Follows(m)' => \E x \in Members : Joins(m, x) /\ term'[m] = term[x],
         MemberCampaign(m)', up'[m] => ~reseed'[m], ~ready'[m]
  PROVE  SafetyInv'
<1>0. IInv /\ TypeOK /\ MemberInv(m)
  BY MemberParts DEF IInv
<1>1. Grows
  BY <1>0, LogsKept DEF Grows, HistoryGrows
<1>2. \A r \in Members : Follows(r)' =>
        \/ Follows(r) /\ term'[r] = term[r]
        \/ \E x \in Members : Joins(r, x) /\ term'[r] = term[x]
  BY DEF Same, Follows
<1>3. \A x \in Members : role'[x] = "Primary" => role[x] = "Primary" /\ term'[x] = term[x]
  BY DEF Same
<1>4. Matching' /\ LaterHolds'
  BY <1>1, <1>2, <1>3, StillMatching
<1>5. MemberUnconfirmed(m)'
  BY DEF MemberUnconfirmed, Joins
<1>6. MemberAnchors(m)'
  BY <1>0 DEF MemberInv, MemberAnchors
<1>7. MemberServes(m)'
  BY DEF MemberServes, Running
<1>8. MemberInv(m)'
  BY <1>5, <1>6, <1>7 DEF MemberInv
<1>9. ConfirmedOnTwo'
  BY <1>1, ConfirmedKept
<1> QED BY <1>1, <1>4, <1>8, <1>9, StepParts

\* A Primary that steps down follows the new term only with a journal that is
\* confirmed as a whole; otherwise it is marked for a reseed.
LEMMA HearHigherTermKeeps ==
  ASSUME SafetyInv, IInv', NEW p \in Members, NEW peer \in Members, HearHigherTerm(p, peer)
  PROVE  SafetyInv'
<1>0. IInv /\ TypeOK /\ MemberInv(p)
  BY MemberParts DEF IInv
<1>1. /\ UNCHANGED <<log, confirmed, applied, campaign, promises, overtaken>>
      /\ up[p] /\ up[peer] /\ role[p] = "Primary" /\ promised[peer] > term[p] /\ Exit(p)
      /\ role' = [role EXCEPT ![p] = "Replica"]
      /\ term' = [term EXCEPT ![p] = IF term[peer] > @ THEN term[peer] ELSE @]
      /\ promised' = [promised EXCEPT ![p] = promised[peer]]
      /\ reseed' = [reseed EXCEPT ![p] = @ \/ primaryProgressRequiresReseed(p, peer)]
  BY DEF HearHigherTerm, Running, journal, rest
<1>2. /\ role'[p] = "Replica" /\ term'[p] \in {term[peer], term[p]} /\ term[p] <= term'[p]
      /\ promised'[p] = promised[peer]
      /\ \A x \in Members : x # p => role'[x] = role[x] /\ term'[x] = term[x] /\ promised'[x] = promised[x]
  BY <1>0, <1>1, PromiseFacts DEF TypeOK, MemberOK
<1>3. reseed'[p] = (reseed[p] \/ primaryProgressRequiresReseed(p, peer))
  BY <1>0, <1>1 DEF TypeOK, ProcessOK
<1>4. \A x \in Members : x # p => Same(x)
  <2>1. \A x \in Members : x # p => reseed'[x] = reseed[x]
    BY <1>0, <1>1 DEF TypeOK, ProcessOK
  <2>2. \A x \in Members : x # p => up'[x] = up[x] /\ ready'[x] = ready[x]
    BY <1>0, <1>1, ExitFacts
  <2>3. log' = log /\ confirmed' = confirmed /\ applied' = applied /\ campaign' = campaign
    BY <1>1
  <2> QED BY <1>2, <2>1, <2>2, <2>3 DEF Same
<1>5. promised[p] = term[p] /\ promised[p] < promised'[p]
  BY <1>0, <1>1, <1>2, PrimaryElected, PromiseFacts
<1>6. TermsGrow
  BY <1>0, <1>2, <1>5, PromiseFacts DEF TermsGrow
<1>7. PromisesGrow
  BY <1>1 DEF PromisesGrow
<1>8. Follows(p)' => Joins(p, peer) /\ term'[p] = term[peer]
  <2> SUFFICES ASSUME Follows(p)' PROVE Joins(p, peer) /\ term'[p] = term[peer]
    OBVIOUS
  <2>1. ~primaryProgressRequiresReseed(p, peer) /\ term'[p] = promised[peer]
    BY <1>2, <1>3 DEF Follows
  <2>2. term'[p] = term[peer] /\ term[peer] = promised[peer]
    BY <1>0, <1>1, <1>2, <2>1, PromiseFacts
  <2>3. role[peer] = "Primary" \/ Follows(peer)
    BY <1>0, <1>1, <2>2, MemberParts DEF Follows, MemberInv, MemberUnconfirmed, TypeOK, MemberOK
  <2>4. Len(log[p]) = confirmed[p] /\ Len(log[p]) <= confirmed[peer]
    <3>1. Len(log[p]) = confirmed[p] /\ confirmed[p] = applied[p] /\ ~(applied[p] > applied[peer])
      BY <2>1 DEF primaryProgressRequiresReseed
    <3> QED BY <1>0, <3>1, JournalFacts
  <2> QED BY <2>2, <2>3, <2>4 DEF Joins
<1>9. ~up'[p] /\ ~ready'[p]
  BY <1>0, <1>1, ExitFacts
<1>10. MemberCampaign(p)'
  BY <1>0, <1>1 DEF MemberInv, MemberCampaign
<1> QED BY <1>1, <1>2, <1>4, <1>6, <1>7, <1>8, <1>9, <1>10, RaisedKeeps

\* A Replica adopts a term under the same condition.
LEMMA AdoptTermKeeps ==
  ASSUME SafetyInv, IInv', NEW r \in Members, NEW p \in Members, AdoptTerm(r, p)
  PROVE  SafetyInv'
<1>0. IInv /\ TypeOK /\ MemberInv(r)
  BY MemberParts DEF IInv
<1>1. /\ UNCHANGED <<role, promised, log, confirmed, applied, reseed, up, ready, campaign, promises, overtaken>>
      /\ up[r] /\ role[r] = "Replica" /\ term[p] > term[r] /\ term' = [term EXCEPT ![r] = term[p]]
      /\ role[p] = "Primary" /\ Len(log[r]) = confirmed[r] /\ confirmed[r] = applied[r]
      /\ ~(applied[r] > applied[p])
  BY DEF AdoptTerm, MeetsNewPrimary, Running, primaryProgressRequiresReseed, journal, startup, rest
<1>2. term'[r] = term[p] /\ \A x \in Members : x # r => term'[x] = term[x]
  BY <1>0, <1>1 DEF TypeOK, MemberOK
<1>3. \A x \in Members : x # r => Same(x)
  BY <1>1, <1>2 DEF Same
<1>4. TermsGrow /\ term[r] < term'[r]
  BY <1>0, <1>1, <1>2, PromiseFacts DEF TermsGrow
<1>5. PromisesGrow
  BY <1>1 DEF PromisesGrow
<1>6. up'[r] => ~reseed'[r]
  BY <1>0, <1>1 DEF MemberInv, MemberUnconfirmed
<1>7. ~ready'[r]
  BY <1>0, <1>1 DEF MemberInv, MemberServes, Running
<1>8. MemberCampaign(r)'
  BY <1>0, <1>1 DEF MemberInv, MemberCampaign
<1>9. Joins(r, p)
  <2>1. Len(log[r]) <= confirmed[p]
    BY <1>0, <1>1, JournalFacts
  <2> QED BY <1>1, <2>1 DEF Joins
<1> QED BY <1>1, <1>2, <1>3, <1>4, <1>5, <1>6, <1>7, <1>8, <1>9, RaisedKeeps

\* A member promises: it is bound beyond its term.
LEMMA BoundKeeps ==
  ASSUME SafetyInv, IInv', NEW m \in Members, NEW c \in Members, NEW t \in Nat,
         UNCHANGED <<term, log, confirmed, applied, reseed, overtaken>>,
         t > promised[m], promised' = [promised EXCEPT ![m] = t],
         role' = [role EXCEPT ![m] = "Replica"],
         promises' = promises \cup {PromiseOf(m, c, t)},
         \A x \in Members : x # m =>
             up'[x] = up[x] /\ ready'[x] = ready[x] /\ campaign'[x] = campaign[x],
         MemberCampaign(m)', up'[m] => up[m], ~ready'[m]
  PROVE  SafetyInv'
<1>0. IInv /\ TypeOK /\ MemberInv(m)
  BY MemberParts DEF IInv
<1>1. /\ role'[m] = "Replica" /\ promised'[m] = t
      /\ \A x \in Members : x # m => role'[x] = role[x] /\ promised'[x] = promised[x]
  BY <1>0 DEF TypeOK, MemberOK
<1>2. \A x \in Members : x # m => Same(x)
  BY <1>1 DEF Same
<1>3. TermsGrow
  BY <1>0, <1>1, PromiseFacts DEF TermsGrow
<1>4. PromisesGrow
  <2> DEFINE new == PromiseOf(m, c, t)
  <2>1. new.from = m /\ new.lastFrameTerm = LastTerm(log[m]) /\ new.durable = Len(log[m])
    BY DEF PromiseOf
  <2>2. promises' = promises \cup {new}
    OBVIOUS
  <2> HIDE DEF new
  <2>3. ASSUME NEW w \in promises'
        PROVE  \/ w \in promises
               \/ log' = log /\ w.lastFrameTerm = LastTerm(log[w.from]) /\ w.durable = Len(log[w.from])
    BY <2>1, <2>2
  <2> QED BY <2>2, <2>3 DEF PromisesGrow
<1>5. ~Follows(m)'
  BY <1>0, <1>1, PromiseFacts DEF Follows
<1>6. up'[m] => ~reseed'[m]
  BY <1>0 DEF MemberInv, MemberUnconfirmed
<1> QED BY <1>1, <1>2, <1>3, <1>4, <1>5, <1>6, RaisedKeeps

\* A candidate promises itself the next term.
LEMMA ProposeKeeps ==
  ASSUME SafetyInv, IInv', NEW c \in Members, Propose(c)
  PROVE  SafetyInv'
<1>0. IInv /\ TypeOK /\ MemberInv(c)
  BY MemberParts DEF IInv
<1>1. PICK t \in Nat : t = promised[c] + 1
  BY <1>0, PromiseFacts
<1>2. /\ UNCHANGED <<term, log, confirmed, applied, reseed, up, ready, overtaken>>
      /\ ~up[c] /\ Len(log[c]) = confirmed[c] /\ confirmed[c] = applied[c]
      /\ promised' = [promised EXCEPT ![c] = t] /\ role' = [role EXCEPT ![c] = "Replica"]
      /\ campaign' = [campaign EXCEPT ![c] = t] /\ promises' = promises \cup {PromiseOf(c, c, t)}
  BY <1>1 DEF Propose, journal, startup
<1>3. campaign'[c] = t /\ \A x \in Members : x # c => campaign'[x] = campaign[x]
  BY <1>0, <1>2 DEF TypeOK, PromotionOK
<1>4. t > promised[c] /\ term[c] < t /\ role'[c] = "Replica"
  BY <1>0, <1>1, <1>2, PromiseFacts DEF TypeOK, MemberOK
<1>5. MemberCampaign(c)'
  BY <1>2, <1>3, <1>4 DEF MemberCampaign
<1>6. ~ready'[c]
  BY <1>0, <1>2 DEF MemberInv, MemberServes, Running
<1> QED BY <1>2, <1>3, <1>4, <1>5, <1>6, BoundKeeps

\* A member answers a proposal.
LEMMA PromiseKeeps ==
  ASSUME SafetyInv, IInv', NEW m \in Members, NEW c \in Members, NEW t \in 1..MaxTerm, Promise(m, c, t)
  PROVE  SafetyInv'
<1>0. IInv /\ TypeOK /\ MemberInv(m) /\ t \in Nat
  BY MemberParts DEF IInv
<1>1. /\ UNCHANGED <<term, log, confirmed, applied, reseed, campaign, overtaken>>
      /\ up[m] /\ t > promised[m]
      /\ promised' = [promised EXCEPT ![m] = t] /\ role' = [role EXCEPT ![m] = "Replica"]
      /\ promises' = promises \cup {PromiseOf(m, c, t)}
      /\ Exit(m) \/ (role[m] # "Primary" /\ up' = up /\ ready' = ready)
  BY DEF Promise, journal, startup
<1>2. \A x \in Members : x # m => up'[x] = up[x] /\ ready'[x] = ready[x]
  BY <1>0, <1>1, ExitFacts
<1>3. ~ready'[m]
  BY <1>0, <1>1, ExitFacts DEF MemberInv, MemberServes, Running
<1>4. MemberCampaign(m)'
  BY <1>0, <1>1 DEF MemberInv, MemberCampaign
<1> QED BY <1>0, <1>1, <1>2, <1>3, <1>4, BoundKeeps

-----------------------------------------------------------------------------
\* Steps that write a journal.

\* A Replica takes a frame: what it holds is then held by the sender too.
LEMMA ReceiveKeeps ==
  ASSUME SafetyInv, IInv', NEW r \in Members, NEW p \in Members, Receive(r, p)
  PROVE  SafetyInv'
<1> DEFINE n == Len(log[r])
<1>0. IInv /\ TypeOK /\ MemberInv(r) /\ MemberInv(p)
  BY MemberParts DEF IInv
<1>1. /\ UNCHANGED <<role, term, promised, reseed, up, ready, applied, campaign, promises, overtaken>>
      /\ up[r] /\ role[r] = "Replica" /\ confirmed' = [confirmed EXCEPT ![r] = n + 1]
  BY DEF Receive, Running, member, startup, rest
<1>2. /\ Follows(r) /\ p # r /\ n + 1 \in 1..Len(log[p]) /\ log[p][n + 1].term = term[r]
      /\ Len(log'[r]) = n + 1
      /\ \A k \in 1..Len(log'[r]) : log'[r][k] = log[p][k] /\ k \in 1..Len(log[p])
      /\ \A k \in 1..n : log'[r][k] = log[r][k]
      /\ \A m \in Members : m # r => log'[m] = log[m]
  BY ReceiveCopies
<1>3. n \in Nat /\ Len(log[p]) \in Nat /\ \A m \in Members : Len(log[m]) \in Nat
  BY <1>0, JournalFacts
<1>4. confirmed'[r] = n + 1 /\ \A m \in Members : m # r => confirmed'[m] = confirmed[m]
  BY <1>0, <1>1 DEF TypeOK, JournalOK
<1> HIDE DEF n
<1>5. LogsGrow
  <2>1. ASSUME NEW i \in 1..n + 1, ~(i \in 1..n) PROVE NewFrame(r, i)
    <3>1. i = n + 1
      BY <1>3, <2>1
    <3>2. i \in 1..Len(log[p]) /\ log'[r][i] = log[p][i] /\ log[p][i].term = term[r]
      BY <1>2, <1>3, <2>1, <3>1
    <3>3. term[r] = promised[r]
      BY <1>2 DEF Follows
    <3> QED BY <1>1, <3>2, <3>3 DEF NewFrame
  <2>2. ASSUME NEW m \in Members
        PROVE  /\ Len(log[m]) <= Len(log'[m])
               /\ \A i \in 1..Len(log[m]) : log'[m][i] = log[m][i]
               /\ \A i \in 1..Len(log'[m]) : i \in 1..Len(log[m]) \/ NewFrame(m, i)
    <3>1. CASE m = r
      BY <1>2, <1>3, <2>1, <3>1 DEF n
    <3>2. CASE m # r
      BY <1>2, <1>3, <3>2
    <3> QED BY <3>1, <3>2
  <2> QED BY <2>2 DEF LogsGrow
<1>6. Grows
  <2>1. TermsGrow
    BY <1>0, <1>1, PromiseFacts DEF TermsGrow
  <2>2. PromisesGrow
    BY <1>1 DEF PromisesGrow
  <2> QED BY <1>1, <1>5, <2>1, <2>2 DEF Grows, HistoryGrows
<1>7. Matching' /\ LaterHolds'
  BY <1>6, ReceiveMatching
<1>8. ConfirmedOnTwo'
  <2>1. ASSUME NEW m \in Members, NEW i \in 1..confirmed'[m]
        PROVE  \E other \in Peers(m) : i <= Len(log'[other]) /\ log'[other][i] = log'[m][i]
    <3>1. CASE m = r
      <4>1. i \in 1..Len(log'[r])
        BY <1>2, <1>4, <2>1, <3>1
      <4>2. log'[p][i] = log'[r][i] /\ i <= Len(log'[p])
        BY <1>2, <1>3, <4>1
      <4> QED BY <1>2, <3>1, <4>2 DEF Peers
    <3>2. CASE m # r
      BY <1>4, <1>6, <2>1, <3>2, ConfirmedStays
    <3> QED BY <3>1, <3>2
  <2> QED BY <2>1 DEF ConfirmedOnTwo, Peers
<1>9. MemberInv(r)'
  <2>1. MemberCampaign(r)'
    BY <1>0, <1>1 DEF MemberInv, MemberCampaign
  <2>2. MemberUnconfirmed(r)'
    BY <1>0, <1>1, <1>2, <1>4 DEF MemberInv, MemberUnconfirmed
  <2>3. MemberAnchors(r)'
    <3>1. ASSUME NEW j \in 1..Len(log'[r])
          PROVE  \E i \in 1..j : log'[r][i].anchor /\ log'[r][i].term = log'[r][j].term
      <4>1. PICK i \in 1..j : log[p][i].anchor /\ log[p][i].term = log[p][j].term
        BY <1>0, <1>2, <3>1 DEF MemberInv, MemberAnchors
      <4>2. i \in 1..Len(log'[r])
        BY <1>2, <1>3, <3>1, <4>1
      <4> QED BY <1>2, <3>1, <4>1, <4>2
    <3> QED BY <3>1 DEF MemberAnchors
  <2>4. MemberServes(r)'
    BY <1>0, <1>1 DEF MemberInv, MemberServes, Running
  <2> QED BY <2>1, <2>2, <2>3, <2>4 DEF MemberInv
<1>10. \A x \in Members : x # r => Same(x)
  BY <1>1, <1>2, <1>4 DEF Same
<1> QED BY <1>6, <1>7, <1>8, <1>9, <1>10, StepParts

\* p's journal grows by frames of the term t, its anchor first.
Writes(p, t) ==
    /\ Len(log[p]) <= Len(log'[p])
    /\ \A k \in 1..Len(log[p]) : log'[p][k] = log[p][k]
    /\ \A k \in 1..Len(log'[p]) :
          \/ k \in 1..Len(log[p])
          \/ /\ log'[p][k].term = t /\ log'[p][k].by = p
             /\ \E i \in 1..k : log'[p][i].anchor /\ log'[p][i].term = t

\* A member that leads its term writes.
LEMMA WriteKeeps ==
  ASSUME SafetyInv, IInv', NEW p \in Members, NEW t \in Nat, Leads(p, t), Leading(p, t), Writes(p, t),
         HistoryGrows, ~overtaken' => Inherits(p, t), promises' = promises, confirmed' = confirmed, campaign'[p] = 0,
         \A x \in Members : x # p => Same(x),
         \A i \in confirmed[p] + 1..Len(log[p]) : log[p][i].term = t,
         up'[p] => ~reseed'[p] /\ LastTerm(log'[p]) = t,
         ready'[p] => up'[p] /\ ready[p] /\ term[p] = t
  PROVE  SafetyInv'
<1>0. IInv /\ TypeOK /\ MemberInv(p)
  BY MemberParts DEF IInv
<1>1. /\ Elected(p, t) /\ promised[p] = t /\ term[p] <= t /\ role'[p] = "Primary" /\ term'[p] = t
      /\ promised' = promised
  BY DEF Leads, Leading
<1>2. \A m \in Members : Len(log[m]) \in Nat /\ confirmed[m] \in Nat /\ confirmed[m] <= Len(log[m])
  BY <1>0, JournalFacts
<1>3. LogsGrow
  <2>1. ASSUME NEW m \in Members
        PROVE  /\ Len(log[m]) <= Len(log'[m])
               /\ \A i \in 1..Len(log[m]) : log'[m][i] = log[m][i]
               /\ \A i \in 1..Len(log'[m]) : i \in 1..Len(log[m]) \/ NewFrame(m, i)
    <3>1. CASE m = p
      BY <1>1, <3>1 DEF Writes, NewFrame
    <3>2. CASE m # p
      BY <1>2, <3>2 DEF Same
    <3> QED BY <3>1, <3>2
  <2> QED BY <2>1 DEF LogsGrow
<1>4. TermsGrow
  <2>1. ASSUME NEW m \in Members
        PROVE  /\ term[m] <= term'[m] /\ promised[m] <= promised'[m]
               /\ (\E x \in Members : term'[m] = term[x]) \/ Elected(m, term'[m])
    <3>0. term[m] \in Nat /\ promised[m] \in Nat
      BY <1>0, PromiseFacts
    <3>1. CASE m = p
      BY <1>1, <3>0, <3>1
    <3>2. CASE m # p
      <4>1. term'[m] = term[m]
        BY <3>2 DEF Same
      <4> QED BY <1>1, <3>0, <4>1
    <3> QED BY <3>1, <3>2
  <2> QED BY <2>1 DEF TermsGrow
<1>5. Grows
  BY <1>3, <1>4 DEF Grows, PromisesGrow
<1>6. Matching' /\ LaterHolds'
  BY <1>5, WriteMatching
<1>7. ConfirmedOnTwo'
  BY <1>5, ConfirmedKept
<1>8. MemberInv(p)'
  <2>1. MemberCampaign(p)'
    BY DEF MemberCampaign
  <2>2. MemberUnconfirmed(p)'
    <3>1. \A i \in confirmed[p] + 1..Len(log'[p]) : log'[p][i].term = t
      <4> TAKE i \in confirmed[p] + 1..Len(log'[p])
      <4>1. CASE i \in 1..Len(log[p])
        <5>1. i \in confirmed[p] + 1..Len(log[p])
          BY <1>2, <4>1
        <5> QED BY <4>1, <5>1 DEF Writes
      <4>2. CASE ~(i \in 1..Len(log[p]))
        <5>1. i \in 1..Len(log'[p])
          BY <1>2
        <5> QED BY <4>2, <5>1 DEF Writes
      <4> QED BY <4>1, <4>2
    <3>2. ~Follows(p)'
      BY <1>1 DEF Follows
    <3> QED BY <1>1, <3>1, <3>2 DEF MemberUnconfirmed
  <2>3. MemberAnchors(p)'
    <3>1. ASSUME NEW j \in 1..Len(log'[p])
          PROVE  \E i \in 1..j : log'[p][i].anchor /\ log'[p][i].term = log'[p][j].term
      <4>1. CASE j \in 1..Len(log[p])
        <5>1. PICK i \in 1..j : log[p][i].anchor /\ log[p][i].term = log[p][j].term
          BY <1>0, <4>1 DEF MemberInv, MemberAnchors
        <5>2. i \in 1..Len(log[p])
          BY <1>2, <4>1
        <5> QED BY <4>1, <5>1, <5>2 DEF Writes
      <4>2. CASE ~(j \in 1..Len(log[p]))
        BY <4>2 DEF Writes
      <4> QED BY <4>1, <4>2
    <3> QED BY <3>1 DEF MemberAnchors
  <2>4. MemberServes(p)'
    <3>1. ASSUME ready'[p] PROVE \E i \in 1..confirmed[p] : log'[p][i].term = t
      <4>1. PICK i \in 1..confirmed[p] : log[p][i].term = t
        BY <1>0, <3>1 DEF MemberInv, MemberServes
      <4>2. i \in 1..Len(log[p])
        BY <1>2
      <4> QED BY <4>1, <4>2 DEF Writes
    <3> QED BY <1>1, <3>1 DEF MemberServes, Running
  <2> QED BY <2>1, <2>2, <2>3, <2>4 DEF MemberInv
<1> QED BY <1>5, <1>6, <1>7, <1>8, StepParts

\* A Primary may write frames of its term.
LEMMA PrimaryLeads ==
  ASSUME SafetyInv, NEW p \in Members, NEW t \in Nat, role[p] = "Primary", term[p] = t
  PROVE  Leads(p, t) /\ (~overtaken => Inherits(p, t))
<1>0. IInv /\ Matching /\ LaterHolds
  BY DEF SafetyInv
<1>1. Elected(p, t) /\ promised[p] = t
  BY <1>0, PrimaryElected
<1>2. \A a \in Members : \A i \in 1..Len(log[a]) : log[a][i].term = t => Agree(a, p, i)
  BY <1>0 DEF Matching, PrimaryHoldsTerm
<1>3. \A r \in Members : Follows(r) /\ term[r] = t => Agree(r, p, Len(log[r]))
  BY <1>0 DEF Matching, FollowersMatch
<1>4. ~overtaken => Inherits(p, t)
  BY <1>0 DEF LaterHolds, LaterHold, Inherits
<1> QED BY <1>0, <1>1, <1>2, <1>3, <1>4 DEF Leads

\* One frame appended.
LEMMA AppendFacts ==
  ASSUME NEW s \in Seq(Frame), NEW f \in Frame
  PROVE  /\ Len(Append(s, f)) = Len(s) + 1 /\ Append(s, f)[Len(s) + 1] = f
         /\ \A k \in 1..Len(s) : Append(s, f)[k] = s[k]
         /\ LastTerm(Append(s, f)) = f.term
<1> DEFINE q == Append(s, f)
<1>1. /\ q \in Seq(Frame) /\ Len(q) = Len(s) + 1 /\ q[Len(s) + 1] = f /\ Len(s) \in Nat
      /\ \A k \in 1..Len(s) : q[k] = s[k]
  OBVIOUS
<1>2. q # <<>>
  BY <1>1
<1> HIDE DEF q
<1>3. LastTerm(q) = f.term
  BY <1>1, <1>2 DEF LastTerm
<1> QED BY <1>1, <1>3 DEF q

\* A Primary appends one frame of its term.
LEMMA AppendKeeps ==
  ASSUME SafetyInv, IInv', NEW p \in Members, NEW f \in Frame, role[p] = "Primary",
         f.term = term[p], f.by = p,
         f.anchor \/ LastTerm(log[p]) = term[p],
         log' = [log EXCEPT ![p] = Append(@, f)],
         UNCHANGED <<role, term, promised, confirmed, applied, reseed, ready, campaign, promises, overtaken>>,
         campaign[p] = 0, ~reseed[p], up' = [up EXCEPT ![p] = TRUE]
  PROVE  SafetyInv'
<1>0. IInv /\ TypeOK /\ MemberInv(p)
  BY MemberParts DEF IInv
<1>1. PICK t \in Nat : t = term[p]
  BY <1>0, PromiseFacts
<1>2. Leads(p, t) /\ HistoryGrows /\ (~overtaken' => Inherits(p, t))
  BY <1>1, PrimaryLeads DEF HistoryGrows
<1> DEFINE n == Len(log[p])
<1>3. log[p] \in Seq(Frame) /\ n \in Nat /\ log \in [Members -> Seq(Frame)] /\ up \in [Members -> BOOLEAN]
  BY <1>0, JournalFacts DEF TypeOK, JournalOK, ProcessOK
<1>4. log'[p] = Append(log[p], f) /\ up'[p] = TRUE /\ \A x \in Members : x # p => log'[x] = log[x] /\ up'[x] = up[x]
  BY <1>3
<1>5. /\ Len(log'[p]) = n + 1 /\ log'[p][n + 1] = f /\ LastTerm(log'[p]) = t
      /\ \A k \in 1..n : log'[p][k] = log[p][k]
  BY <1>1, <1>3, <1>4, AppendFacts
<1>6. Leading(p, t)
  BY <1>1, <1>4 DEF Leading
<1>7. \E i \in 1..n + 1 : log'[p][i].anchor /\ log'[p][i].term = t
  <2>1. CASE f.anchor
    <3>1. n + 1 \in 1..n + 1
      BY <1>3
    <3> QED BY <1>1, <1>5, <2>1, <3>1
  <2>2. CASE LastTerm(log[p]) = term[p]
    <3>1. n \in 1..n /\ log[p][n].term = t
      <4>1. LastTerm(log[p]) # 0
        BY <1>0, <2>2, PromiseFacts
      <4> QED BY <1>0, <1>1, <1>3, <2>2, <4>1, LastTermIs
    <3>2. PICK i \in 1..n : log[p][i].anchor /\ log[p][i].term = t
      BY <1>0, <3>1 DEF MemberInv, MemberAnchors
    <3>3. i \in 1..n + 1
      BY <1>3
    <3> QED BY <1>5, <3>2, <3>3
  <2> QED BY <2>1, <2>2
<1> HIDE DEF n
<1>8. Writes(p, t)
  <2>1. \A k \in 1..n + 1 : k \in 1..n \/ k = n + 1
    BY <1>3 DEF n
  <2>2. n <= n + 1
    BY <1>3 DEF n
  <2> QED BY <1>1, <1>5, <1>7, <2>1, <2>2 DEF Writes, n
<1>9. \A x \in Members : x # p => Same(x)
  BY <1>4 DEF Same
<1>10. \A i \in confirmed[p] + 1..Len(log[p]) : log[p][i].term = t
  BY <1>0, <1>1 DEF MemberInv, MemberUnconfirmed
<1>11. ready'[p] => up'[p] /\ ready[p] /\ term[p] = t
  BY <1>1, <1>4
<1> QED BY <1>2, <1>4, <1>5, <1>6, <1>8, <1>9, <1>10, <1>11, WriteKeeps

\* A write reaches the journal of a running Primary.
LEMMA RecordDurableKeeps ==
  ASSUME SafetyInv, IInv', NEW p \in Members, RecordDurable(p)
  PROVE  SafetyInv'
<1>0. IInv /\ TypeOK /\ MemberInv(p)
  BY MemberParts DEF IInv
<1>1. /\ UNCHANGED <<role, term, promised, confirmed, applied, reseed, up, ready, campaign, promises, overtaken>>
      /\ up[p] /\ role[p] = "Primary" /\ log' = [log EXCEPT ![p] = Append(@, Data(p, term[p]))]
  BY DEF RecordDurable, Running, member, startup, rest
<1>2. Data(p, term[p]) \in Frame /\ Data(p, term[p]).term = term[p] /\ Data(p, term[p]).by = p
  BY <1>0, FrameType DEF Data, TypeOK, MemberOK
<1>3. LastTerm(log[p]) = term[p] /\ ~reseed[p] /\ campaign[p] = 0
  BY <1>0, <1>1 DEF MemberInv, MemberServes, MemberUnconfirmed, MemberCampaign, Running
<1>4. up' = [up EXCEPT ![p] = TRUE]
  BY <1>0, <1>1 DEF TypeOK, ProcessOK
<1> QED BY <1>1, <1>2, <1>3, <1>4, AppendKeeps

\* A Primary starts, with the anchor of its term if it lacks it.
LEMMA StartPrimaryKeeps ==
  ASSUME SafetyInv, IInv', NEW m \in Members, StartPrimary(m)
  PROVE  SafetyInv'
<1>0. IInv /\ TypeOK /\ MemberInv(m)
  BY MemberParts DEF IInv
<1>1. /\ UNCHANGED <<role, term, promised, confirmed, applied, reseed, ready, campaign, promises, overtaken>>
      /\ ~up[m] /\ campaign[m] = 0 /\ ~reseed[m] /\ role[m] = "Primary"
      /\ up' = [up EXCEPT ![m] = TRUE]
      /\ log' = IF LastTerm(log[m]) = term[m] THEN log
                ELSE [log EXCEPT ![m] = Append(@, Anchor(m, term[m]))]
  BY DEF StartPrimary, Startable, member, rest
<1>2. CASE LastTerm(log[m]) = term[m]
  <2>1. log' = log
    BY <1>1, <1>2
  <2>2. Quiet /\ \A x \in Members : x # m => Same(x)
    BY <1>0, <1>1, <2>1 DEF Quiet, Same, TypeOK, ProcessOK
  <2>3. MemberCampaign(m)'
    BY <1>1 DEF MemberCampaign
  <2>4. Follows(m)' <=> Follows(m)
    BY <1>1 DEF Follows
  <2>5. MemberUnconfirmed(m)'
    BY <1>0, <1>1, <2>1, <2>4 DEF MemberInv, MemberUnconfirmed
  <2>6. MemberAnchors(m)'
    BY <1>0, <2>1 DEF MemberInv, MemberAnchors
  <2>7. MemberServes(m)'
    BY <1>0, <1>1, <1>2, <2>1 DEF MemberInv, MemberServes, Running
  <2>8. MemberInv(m)'
    BY <2>3, <2>5, <2>6, <2>7 DEF MemberInv
  <2> QED BY <1>1, <2>2, <2>8, QuietStepKeeps
<1>3. CASE LastTerm(log[m]) # term[m]
  <2>1. /\ Anchor(m, term[m]) \in Frame /\ Anchor(m, term[m]).term = term[m]
        /\ Anchor(m, term[m]).by = m /\ Anchor(m, term[m]).anchor
    BY <1>0, FrameType DEF Anchor, TypeOK, MemberOK
  <2>2. log' = [log EXCEPT ![m] = Append(@, Anchor(m, term[m]))]
    BY <1>1, <1>3
  <2> QED BY <1>1, <2>1, <2>2, AppendKeeps
<1> QED BY <1>2, <1>3

\* A candidate that two members promised leads its term.  When the second of
\* them is no further than the candidate, then of every frame of an earlier
\* term either the candidate holds it, or the two never do.
LEMMA PromotedLeads ==
  ASSUME SafetyInv, NEW c \in Members, NEW t \in Nat, t = campaign[c], Promote(c)
  PROVE  Leads(c, t) /\ HistoryGrows /\ (~overtaken' => Inherits(c, t)) /\ term[c] < t /\ 1 <= t
<1> DEFINE n == Len(log[c])
<1>0. IInv /\ TypeOK /\ MemberInv(c) /\ Votes /\ Matching /\ LaterHolds
  BY MemberParts DEF IInv, SafetyInv
<1>1. /\ campaign[c] # 0 /\ promised[c] = t /\ term[c] < t
  BY <1>0 DEF Promote, MemberInv, MemberCampaign
<1>2. term[c] \in Nat /\ 1 <= term[c]
  BY <1>0, PromiseFacts
<1>3. PICK answers \in SUBSET Answers(c) :
        /\ ValidatePromotionPromises(c, answers)
        /\ overtaken' = (overtaken \/ \A answer \in answers : Further(answer, c))
  BY DEF Promote
<1>4. PICK v \in answers : ~overtaken' => ~Further(v, c)
  BY <1>3 DEF ValidatePromotionPromises
<1>5. v \in promises /\ v.to = c /\ v.from # c /\ v.term = t
  BY <1>3, <1>4 DEF Answers
<1>6. v.from \in Members /\ v.lastFrameTerm \in Nat /\ v.durable \in Nat /\ t <= promised[v.from] /\ promised[v.from] \in Nat
  BY <1>0, <1>5, PromiseFacts
<1>7. Elected(c, t)
  <2>1. Proposed(c, t)
    BY <1>0, <1>1 DEF IInv, CampaignsProposed
  <2> QED BY <1>5, <2>1 DEF Elected, Answered
<1>8. \A a \in Members : \A i \in 1..Len(log[a]) : log[a][i].term # t
  <2> SUFFICES ASSUME NEW a \in Members, NEW i \in 1..Len(log[a]), log[a][i].term = t PROVE FALSE
    OBVIOUS
  <2>1. log[a][i].by \in Members /\ Elected(log[a][i].by, t) /\ t <= term[log[a][i].by]
    BY <1>0, JournalFacts DEF Votes, FramesElected
  <2>2. log[a][i].by = c
    BY <1>0, <1>7, <2>1, ElectedUnique
  <2> QED BY <1>1, <1>2, <2>1, <2>2
<1>9. \A r \in Members : term[r] # t
  <2> SUFFICES ASSUME NEW r \in Members, term[r] = t PROVE FALSE
    OBVIOUS
  <2>1. PICK d \in Members : Elected(d, t) /\ t <= term[d]
    BY <1>0 DEF Votes, TermsElected
  <2>2. d = c
    BY <1>0, <1>7, <2>1, ElectedUnique
  <2> QED BY <1>1, <1>2, <2>1, <2>2
<1>10. n \in Nat /\ (LastTerm(log[c]) # 0 => n \in 1..n /\ log[c][n].term = LastTerm(log[c]))
  BY <1>0, JournalFacts, LastTermIs
<1>11. LastTerm(log[c]) \in Nat
  BY <1>0, JournalFacts, LastTermType, BoundsAssumption
<1>12. HistoryGrows
  BY <1>3 DEF HistoryGrows
<1> HIDE DEF n
<1>13. ASSUME ~overtaken', NEW a \in Members, NEW i \in 1..Len(log[a]), log[a][i].term < t
       PROVE  (i <= n /\ log[c][i] = log[a][i]) \/ Blocked(i, log[a][i].term)
  <2> DEFINE u == log[a][i].term
             L == LastTerm(log[c])
             Holds(x) == i \in 1..Len(log[x]) /\ log[x][i].term = u
  <2>0. i \in Nat /\ u \in Nat /\ i >= 1 /\ u >= 1 /\ Len(log[a]) \in Nat /\ LaterHold
    BY <1>0, <1>12, <1>13, JournalFacts DEF LaterHolds, HistoryGrows
  <2>1. CASE ~Holds(c) /\ ~Holds(v.from)
    <3>1. promised[c] > u /\ promised[v.from] > u
      BY <1>1, <1>6, <1>13, <2>0
    <3>2. Never(c, i, u) /\ Never(v.from, i, u)
      BY <2>1, <3>1 DEF Never
    <3> HIDE DEF u
    <3> QED BY <1>5, <1>6, <3>2 DEF Blocked, u
  <2>2. CASE Holds(c)
    <3>1. Agree(a, c, i)
      BY <1>0, <2>0, <2>2 DEF Matching, JournalsMatch
    <3> QED BY <2>0, <3>1 DEF Agree, n
  <2>3. CASE Holds(v.from)
    <3>1. \/ u < v.lastFrameTerm
          \/ u = v.lastFrameTerm /\ i <= v.durable
      BY <1>0, <1>5, <1>13, <2>3 DEF Votes, PromisesRecord
    <3>2. v.lastFrameTerm < L \/ (v.lastFrameTerm = L /\ v.durable <= n)
      BY <1>4, <1>6, <1>10, <1>11, <1>13 DEF Further, n
    <3>3. u < L \/ (u = L /\ i <= n)
      BY <1>6, <1>10, <1>11, <2>0, <3>1, <3>2
    <3>4. n \in 1..n /\ log[c][n].term = L
      BY <1>10, <1>11, <2>0, <3>3
    <3>5. CASE u < L
      <4>1. (i < n /\ log[c][i] = log[a][i]) \/ Blocked(i, log[a][i].term)
        BY <2>0, <3>4, <3>5 DEF LaterHold, n
      <4> QED BY <1>10, <2>0, <4>1
    <3>6. CASE u = L /\ i <= n
      <4>1. Agree(a, c, i)
        BY <1>0, <3>4, <3>6 DEF Matching, JournalsMatch, n
      <4> QED BY <2>0, <3>6, <4>1 DEF Agree
    <3> QED BY <3>3, <3>5, <3>6
  <2> QED BY <2>1, <2>2, <2>3
<1>14. term[c] <= t /\ 1 <= t
  BY <1>1, <1>2
<1>15. ~overtaken' => Inherits(c, t)
  BY <1>13 DEF Inherits, n
<1> QED BY <1>1, <1>7, <1>8, <1>9, <1>12, <1>14, <1>15 DEF Leads

\* What a promotion appends: nothing, the anchor, or the anchor and the Audit
\* frame.
LEMMA PromotionWrites ==
  ASSUME TypeOK, NEW c \in Members, NEW t \in 1..MaxTerm,
         NEW frames \in {<<>>, <<Anchor(c, t)>>, <<Anchor(c, t), Data(c, t)>>},
         log' = [log EXCEPT ![c] = @ \o frames]
  PROVE  Writes(c, t) /\ \A x \in Members : x # c => log'[x] = log[x]
<1> DEFINE n == Len(log[c])
<1>1. log[c] \in Seq(Frame) /\ n \in Nat /\ log \in [Members -> Seq(Frame)]
  BY JournalFacts DEF TypeOK, JournalOK
<1>2. /\ Anchor(c, t) \in Frame /\ Anchor(c, t).term = t /\ Anchor(c, t).by = c /\ Anchor(c, t).anchor
      /\ Data(c, t) \in Frame /\ Data(c, t).term = t /\ Data(c, t).by = c
  BY FrameType DEF Anchor, Data
<1>3. log'[c] = log[c] \o frames /\ \A x \in Members : x # c => log'[x] = log[x]
  BY <1>1
<1>4. /\ frames \in Seq(Frame) /\ Len(frames) \in Nat
      /\ \A j \in 1..Len(frames) : frames[j].term = t /\ frames[j].by = c
      /\ Len(frames) # 0 => frames[1].anchor
  <2>1. CASE frames = <<>>
    BY <2>1
  <2>2. CASE frames = <<Anchor(c, t)>>
    <3> DEFINE f == Anchor(c, t)
    <3>1. f \in Frame /\ f.term = t /\ f.by = c /\ f.anchor
      BY <1>2
    <3>2. frames = <<f>>
      BY <2>2
    <3> HIDE DEF f
    <3> QED BY <3>1, <3>2
  <2>3. CASE frames = <<Anchor(c, t), Data(c, t)>>
    <3> DEFINE f == Anchor(c, t)
               g == Data(c, t)
    <3>1. f \in Frame /\ f.term = t /\ f.by = c /\ f.anchor /\ g \in Frame /\ g.term = t /\ g.by = c
      BY <1>2
    <3>2. frames = <<f, g>>
      BY <2>3
    <3> HIDE DEF f, g
    <3> QED BY <3>1, <3>2
  <2> QED BY <2>1, <2>2, <2>3
<1>5. /\ Len(log'[c]) = n + Len(frames)
      /\ \A k \in 1..n : log'[c][k] = log[c][k]
      /\ \A j \in 1..Len(frames) : log'[c][n + j] = frames[j]
  BY <1>1, <1>3, <1>4
<1> HIDE DEF n
<1>6. ASSUME NEW k \in 1..Len(log'[c]), ~(k \in 1..n)
      PROVE  /\ log'[c][k].term = t /\ log'[c][k].by = c
             /\ \E i \in 1..k : log'[c][i].anchor /\ log'[c][i].term = t
  <2>0. n \in Nat /\ Len(frames) \in Nat /\ k \in 1..n + Len(frames) /\ k > n
    BY <1>1, <1>4, <1>5, <1>6
  <2>1. /\ k - n \in 1..Len(frames) /\ n + (k - n) = k /\ n + 1 \in 1..k
        /\ 1 \in 1..Len(frames) /\ Len(frames) # 0
    BY <2>0
  <2>2. log'[c][k] = frames[k - n] /\ log'[c][n + 1] = frames[1]
    BY <1>5, <2>1
  <2> QED BY <1>4, <2>1, <2>2
<1>7. n <= n + Len(frames)
  BY <1>1, <1>4 DEF n
<1> QED BY <1>3, <1>5, <1>6, <1>7 DEF Writes, n

\* A promotion takes effect.
LEMMA PromoteKeeps ==
  ASSUME SafetyInv, IInv', NEW c \in Members, Promote(c)
  PROVE  SafetyInv'
<1>0. IInv /\ TypeOK /\ MemberInv(c)
  BY MemberParts DEF IInv
<1>1. PICK t \in 1..MaxTerm : t = campaign[c]
  BY <1>0 DEF Promote, TypeOK, PromotionOK
<1>2. t \in Nat /\ t = promised[c]
  BY <1>1 DEF Promote
<1>3. Leads(c, t) /\ HistoryGrows /\ (~overtaken' => Inherits(c, t)) /\ term[c] < t
  BY <1>1, <1>2, PromotedLeads
<1>4. /\ UNCHANGED <<promised, confirmed, applied, reseed, up, ready, promises>>
      /\ campaign[c] # 0 /\ campaign' = [campaign EXCEPT ![c] = 0]
      /\ role' = [role EXCEPT ![c] = "Primary"] /\ term' = [term EXCEPT ![c] = t]
  BY <1>2 DEF Promote, startup
<1>5. PICK frames \in {<<>>, <<Anchor(c, t)>>, <<Anchor(c, t), Data(c, t)>>} :
        log' = [log EXCEPT ![c] = @ \o frames]
  BY <1>2 DEF Promote
<1>6. Writes(c, t) /\ \A x \in Members : x # c => log'[x] = log[x]
  BY <1>0, <1>5, PromotionWrites
<1>7. /\ role'[c] = "Primary" /\ term'[c] = t /\ campaign'[c] = 0
      /\ \A x \in Members : x # c => role'[x] = role[x] /\ term'[x] = term[x] /\ campaign'[x] = campaign[x]
  BY <1>0, <1>4 DEF TypeOK, MemberOK, PromotionOK
<1>8. Leading(c, t)
  BY <1>4, <1>6, <1>7 DEF Leading
<1>9. \A x \in Members : x # c => Same(x)
  BY <1>4, <1>6, <1>7 DEF Same
<1>10. ~up'[c] /\ ~ready'[c] /\ Len(log[c]) = confirmed[c]
  BY <1>0, <1>4 DEF MemberInv, MemberCampaign, MemberServes, Running
<1>11. \A i \in confirmed[c] + 1..Len(log[c]) : log[c][i].term = t
  BY <1>0, <1>10, JournalFacts
<1> QED BY <1>2, <1>3, <1>4, <1>6, <1>7, <1>8, <1>9, <1>10, <1>11, WriteKeeps

-----------------------------------------------------------------------------
\* The invariant is inductive.

\* Every step keeps the invariant.
LEMMA SafetyStep ==
  ASSUME SafetyInv, [Next]_vars
  PROVE  SafetyInv'
<1>0. IInv'
  BY ElectionStep DEF SafetyInv
<1>1. CASE UNCHANGED vars
  BY <1>0, <1>1, NothingChanges DEF vars
<1>2. ASSUME NEW m \in Members,
             \/ StartReplica(m) \/ StartPrimary(m) \/ Crash(m) \/ StartupReady(m)
             \/ RecordDurable(m) \/ Propose(m) \/ Promote(m) \/ AbandonPromotion(m)
      PROVE  SafetyInv'
  BY <1>0, <1>2, StartReplicaKeeps, StartPrimaryKeeps, CrashKeeps, StartupReadyKeeps,
     RecordDurableKeeps, ProposeKeeps, PromoteKeeps, AbandonKeeps
<1>3. ASSUME NEW p \in Members, NEW r \in Members, HearReplica(p, r)
      PROVE  SafetyInv'
  BY <1>0, <1>3, NothingChanges DEF HearReplica, member, journal, rest
<1>4. ASSUME NEW p \in Members, NEW r \in Members,
             \/ HearHigherTerm(p, r) \/ AdoptTerm(r, p) \/ RequireReseed(r, p) \/ Receive(r, p)
             \/ \E index \in 1..Len(log[p]) : Acknowledge(p, r, index)
             \/ \E t \in 1..MaxTerm : Promise(r, p, t)
      PROVE  SafetyInv'
  BY <1>0, <1>4, HearHigherTermKeeps, AdoptTermKeeps, RequireReseedKeeps, ReceiveKeeps,
     AcknowledgeKeeps, PromiseKeeps
<1>5. ASSUME NEW r \in Members, NEW index \in 1..confirmed[r], AdvanceApplied(r, index)
      PROVE  SafetyInv'
  BY <1>0, <1>5, AdvanceAppliedKeeps
<1> QED BY <1>1, <1>2, <1>3, <1>4, <1>5 DEF Next

\* A formed group has empty journals.
LEMMA InitSafe == Init => SafetyInv
<1> SUFFICES ASSUME Init PROVE SafetyInv
  OBVIOUS
<1>1. IInv
  BY InitElected
<1>2. /\ \A m \in Members : /\ log[m] = <<>> /\ confirmed[m] = 0 /\ term[m] = 1 /\ promised[m] = 1
                            /\ ~up[m] /\ ~ready[m] /\ campaign[m] = 0 /\ ~reseed[m]
      /\ promises = {}
  BY DEF Init
<1>3. \A m \in Members : Len(log[m]) = 0 /\ 1..Len(log[m]) = {} /\ 1..confirmed[m] = {}
                         /\ confirmed[m] + 1..Len(log[m]) = {}
  BY <1>2
<1>4. FramesElected /\ TermsAscend /\ PromisesRecord
  BY <1>2, <1>3 DEF FramesElected, TermsAscend, PromisesRecord
<1>5. TermsElected
  <2>1. Elected(First, 1) /\ First \in Members /\ term[First] = 1
    BY <1>2, MembersAssumption DEF Elected
  <2> QED BY <1>2, <2>1 DEF TermsElected
<1>6. JournalsMatch /\ PrimaryHoldsTerm /\ LaterHolds /\ ConfirmedOnTwo
  BY <1>3 DEF JournalsMatch, PrimaryHoldsTerm, LaterHolds, LaterHold, ConfirmedOnTwo
<1>7. FollowersMatch
  BY <1>3 DEF FollowersMatch, Agree
<1>8. ASSUME NEW m \in Members PROVE MemberInv(m)
  <2>1. MemberCampaign(m) /\ MemberUnconfirmed(m)
    BY <1>2, <1>3 DEF MemberCampaign, MemberUnconfirmed
  <2>2. MemberAnchors(m) /\ MemberServes(m)
    BY <1>2, <1>3 DEF MemberAnchors, MemberServes, Running
  <2> QED BY <2>1, <2>2 DEF MemberInv
<1> QED BY <1>1, <1>4, <1>5, <1>6, <1>7, <1>8, MemberParts DEF Matching

\* The invariant holds throughout.
LEMMA Safe == Spec => []SafetyInv
<1>1. SafetyInv /\ [Next]_vars => SafetyInv'
  BY SafetyStep
<1> QED BY InitSafe, <1>1, PTL DEF Spec

-----------------------------------------------------------------------------
\* What a member counts as confirmed is on two members: the claim of
\* ReplicaReceiver.Receive, which asks nobody, and of one acknowledgement at
\* the Primary (PrimaryCoordinator).
THEOREM ConfirmedIsOnTwo == Spec => []ConfirmedOnTwo
<1>1. SafetyInv => ConfirmedOnTwo
  BY DEF SafetyInv
<1> QED BY Safe, <1>1, PTL

\* Until a promotion goes through on the word only of members that are further
\* than its candidate, no switch of the Primary loses a confirmed frame: every
\* Primary of its term or a later one holds it at its index
\* (ValidatePromotionPromises compares last terms and lengths only).
THEOREM SwitchLosesNothing == Spec => []ConfirmedSurvives
<1>1. SafetyInv => ConfirmedSurvives
  BY ConfirmedHeld DEF ConfirmedSurvives, SwitchKeepsConfirmed
<1> QED BY Safe, <1>1, PTL

\* A Replica in the term of a Primary that waits for no reseed holds a prefix
\* of its journal: the lengths that primaryProgressRequiresReseed compares are
\* enough.
THEOREM FollowerIsPrefix == Spec => []ReplicaHoldsPrefix
<1>1. SafetyInv => ReplicaHoldsPrefix
  <2> SUFFICES ASSUME SafetyInv, NEW p \in Members, NEW r \in Members,
                      role[p] = "Primary", role[r] = "Replica", ~reseed[r],
                      term[r] = term[p], promised[r] = term[p]
               PROVE  IsPrefix(log[r], log[p])
    BY DEF ReplicaHoldsPrefix
  <2>1. Agree(r, p, Len(log[r]))
    BY DEF SafetyInv, Matching, FollowersMatch, Follows
  <2>2. log[r] \in Seq(Frame) /\ log[p] \in Seq(Frame)
    BY JournalFacts DEF SafetyInv, IInv
  <2>3. Len(log[r]) <= Len(log[p]) /\ SubSeq(log[r], 1, Len(log[r])) = SubSeq(log[p], 1, Len(log[r]))
    BY <2>1, <2>2 DEF Agree
  <2> QED BY <2>2, <2>3 DEF IsPrefix
<1> QED BY Safe, <1>1, PTL

\* A Primary that lets clients in has the anchor of its term and all that came
\* before in a second journal (requireMemberStartup).
THEOREM ServesWhatASecondHolds == Spec => []ServesEstablishedTerm
<1>1. SafetyInv => ServesEstablishedTerm
  <2> SUFFICES ASSUME SafetyInv, NEW p \in Members, ready[p]
               PROVE  \E r \in Peers(p), i \in 1..Len(log[p]) :
                        /\ log[p][i].anchor /\ log[p][i].term = term[p]
                        /\ i <= Len(log[r])
                        /\ SubSeq(log[r], 1, i) = SubSeq(log[p], 1, i)
    BY DEF ServesEstablishedTerm
  <2>0. TypeOK /\ Anchored /\ Matching
    BY DEF SafetyInv, IInv
  <2>1. PICK j \in 1..confirmed[p] : log[p][j].term = term[p]
    BY <2>0 DEF Anchored
  <2>2. j \in 1..Len(log[p]) /\ j \in Nat
    BY <2>0, JournalFacts
  <2>3. PICK i \in 1..j : log[p][i].anchor /\ log[p][i].term = log[p][j].term
    BY <2>0, <2>2 DEF Anchored
  <2>4. i \in 1..confirmed[p] /\ i \in 1..Len(log[p]) /\ i \in Nat
    BY <2>0, <2>1, <2>2, JournalFacts
  <2>5. PICK r \in Peers(p) : i <= Len(log[r]) /\ log[r][i] = log[p][i]
    BY <2>4 DEF SafetyInv, ConfirmedOnTwo
  <2>6. r \in Members /\ log[r] \in Seq(Frame) /\ log[p] \in Seq(Frame) /\ i \in 1..Len(log[r])
    BY <2>0, <2>4, <2>5, JournalFacts DEF Peers
  <2>7. Agree(r, p, i)
    BY <2>0, <2>4, <2>5, <2>6 DEF Matching, JournalsMatch
  <2>8. SubSeq(log[r], 1, i) = SubSeq(log[p], 1, i)
    BY <2>4, <2>6, <2>7 DEF Agree
  <2> QED BY <2>1, <2>3, <2>4, <2>5, <2>8
<1> QED BY Safe, <1>1, PTL
=============================================================================
