----------------------------- MODULE WebAppProofs -----------------------------
(* Proofs about WebApp. Each page, and the node in the tab, has an inductive *)
(* invariant of its own; it holds in the application, since the step of      *)
(* another page leaves the page as it is (the StepOf lemmas).                *)
EXTENDS WebApp, Sequences, DataLemmas, SequenceTheorems, TLAPS

-----------------------------------------------------------------------------
(* The governance page: what the counters of Governance.sol mean.            *)
LEMMA PageAssumption == Governance!GovernanceAssumption
  BY Zenon, WebAppAssumption DEF WebAppAssumption

LEMMA SameCardinality == \A S : Governance!Cardinality(S) = Cardinality(S)
  BY Zenon DEF Governance!Cardinality, Cardinality

Ballot == [voter : Accounts, support : BOOLEAN]
Polled == Governance!Proposal

Agreeing(B, support) == {b \in B : b.support = support}

(* A proposal and its ballots: the counters are their number, no address has *)
(* two, and an executed proposal had its majority.                           *)
Counted(p, B) ==
    /\ IsFiniteSet(B)
    /\ p.yes = Cardinality(Agreeing(B, TRUE)) /\ p.no = Cardinality(Agreeing(B, FALSE))
    /\ \A b \in B : b.voter \in p.active
    /\ \A b, c \in B : b.voter = c.voter => b = c
    /\ p.executed => Governance!Passed(p.yes, p.activeCount)

(* What a handler of the page has under way: votes say yes or no.            *)
Call(c) ==
    \E at \in {"send", "read"} : \E id : \E s \in BOOLEAN :
        c = [at |-> at, id |-> id, support |-> s]
CallsSaid ==
    /\ DOMAIN govCall = Governance!Kinds
    /\ \A k \in Governance!Kinds : govCall[k] # Idle => Call(govCall[k])

(* The inductive invariant: the types that the contract's arithmetic needs,  *)
(* and every proposal counted.                                               *)
GInv ==
    /\ proposals \in Seq(Polled) /\ ballots \in Seq(SUBSET Ballot)
    /\ Len(ballots) = Len(proposals) /\ Len(proposals) <= MaxProposals
    /\ delegates \in [Accounts -> Accounts \cup {NoOne}]
    /\ govClock \in 1 .. MaxTime /\ lastExecuted \in 0 .. MaxTime
    /\ \A id \in DOMAIN proposals : Counted(proposals[id], ballots[id])

-----------------------------------------------------------------------------
(* Governance.sol's vote: one more ballot, of an address that has none.      *)
Voted(p, support) ==
    IF support THEN [p EXCEPT !.yes = @ + 1] ELSE [p EXCEPT !.no = @ + 1]

LEMMA BallotAdded ==
    ASSUME Governance!GovernanceAssumption, NEW p \in Polled, NEW B \in SUBSET Ballot,
           Counted(p, B),
           NEW v \in p.active, \A b \in B : b.voter # v, NEW s \in BOOLEAN
    PROVE  /\ Voted(p, s) \in Polled
           /\ Counted(Voted(p, s), B \cup {[voter |-> v, support |-> s]})
<1> DEFINE x == [voter |-> v, support |-> s]
           q == Voted(p, s)
<1>1. q \in Polled
  BY DEF Polled, Governance!Proposal, Voted
<1>2. /\ q.active = p.active /\ q.activeCount = p.activeCount /\ q.executed = p.executed
      /\ q.yes = (IF s THEN p.yes + 1 ELSE p.yes)
      /\ q.no = (IF s THEN p.no ELSE p.no + 1)
  BY DEF Polled, Governance!Proposal, Voted
<1>3. IsFiniteSet(B) /\ IsFiniteSet(B \cup {x}) /\ x \notin B
  <2>1. IsFiniteSet(B) /\ x \notin B
    BY DEF Counted
  <2> QED BY <2>1, FS_AddElement
<1>4. \A t \in BOOLEAN :
        Cardinality(Agreeing(B \cup {x}, t))
          = IF t = s THEN Cardinality(Agreeing(B, t)) + 1 ELSE Cardinality(Agreeing(B, t))
  <2> TAKE t \in BOOLEAN
  <2>1. IsFiniteSet(Agreeing(B, t))
    BY <1>3, FS_Subset DEF Agreeing
  <2>2. CASE t = s
    <3>1. Agreeing(B \cup {x}, t) = Agreeing(B, t) \cup {x}
      BY <2>2 DEF Agreeing
    <3>2. x \notin Agreeing(B, t)
      BY <1>3 DEF Agreeing
    <3> HIDE DEF x
    <3> QED BY <2>1, <2>2, <3>1, <3>2, FS_AddElement
  <2>3. CASE t # s
    <3>1. Agreeing(B \cup {x}, t) = Agreeing(B, t)
      BY <2>3 DEF Agreeing
    <3> QED BY <2>3, <3>1
  <2> QED BY <2>2, <2>3
<1>5. q.yes = Cardinality(Agreeing(B \cup {x}, TRUE))
      /\ q.no = Cardinality(Agreeing(B \cup {x}, FALSE))
  <2>1. p.yes = Cardinality(Agreeing(B, TRUE)) /\ p.no = Cardinality(Agreeing(B, FALSE))
    BY DEF Counted
  <2> HIDE DEF x, q
  <2>2. CASE s = TRUE
    BY <1>2, <1>4, <2>1, <2>2
  <2>3. CASE s = FALSE
    BY <1>2, <1>4, <2>1, <2>3
  <2> QED BY <2>2, <2>3
<1>6. \A b \in B \cup {x} : b.voter \in q.active
  BY <1>2 DEF Counted
<1>7. \A b, c \in B \cup {x} : b.voter = c.voter => b = c
  BY DEF Counted
<1>8. q.executed => Governance!Passed(q.yes, q.activeCount)
  <2> SUFFICES ASSUME q.executed PROVE Governance!Passed(q.yes, q.activeCount)
    OBVIOUS
  <2>1. p.yes > p.activeCount \div 2
    BY <1>2 DEF Counted, Governance!Passed
  <2>2. p.yes \in Nat /\ p.activeCount \in Nat
    BY DEF Polled, Governance!Proposal, Governance!GovernanceAssumption
  <2>3. q.yes = p.yes + 1 \/ q.yes = p.yes
    BY <1>2
  <2> HIDE DEF q
  <2>4. p.activeCount \div 2 \in Int
    BY <2>2
  <2> QED BY <1>2, <2>1, <2>2, <2>3, <2>4 DEF Governance!Passed
<1> QED BY <1>1, <1>3, <1>5, <1>6, <1>7, <1>8 DEF Counted

LEMMA VotePreserves ==
    ASSUME Governance!GovernanceAssumption, GInv, NEW sender \in Accounts, NEW id,
           NEW s \in BOOLEAN,
           Governance!Vote(sender, id, s)
    PROVE  GInv'
<1> DEFINE v == Governance!Voter(sender)
           x == [voter |-> v, support |-> s]
<1>1. /\ id \in DOMAIN proposals /\ id \in DOMAIN ballots
      /\ proposals[id] \in Polled /\ ballots[id] \in SUBSET Ballot
      /\ Counted(proposals[id], ballots[id])
  BY DEF GInv, Governance!Vote
<1>2. /\ v \in Accounts /\ v \in proposals[id].active
      /\ \A b \in ballots[id] : b.voter # v
  BY DEF GInv, Governance!Vote, Governance!Voter, Governance!HasVoted
<1>3. x \in Ballot
  BY <1>2 DEF Ballot
<1>4. /\ Voted(proposals[id], s) \in Polled
      /\ Counted(Voted(proposals[id], s), ballots[id] \cup {x})
  <2> HIDE DEF v
  <2> QED BY <1>1, <1>2, BallotAdded
<1>5. proposals' = [proposals EXCEPT ![id] = Voted(proposals[id], s)]
  BY <1>1 DEF Governance!Vote, Voted, GInv
<1>6. ballots' = [ballots EXCEPT ![id] = ballots[id] \cup {x}]
  BY <1>1 DEF Governance!Vote, GInv
<1> HIDE DEF x, v
<1>7. /\ proposals' \in Seq(Polled) /\ Len(proposals') = Len(proposals)
      /\ DOMAIN proposals' = DOMAIN proposals
  BY <1>1, <1>4, <1>5 DEF GInv
<1>8. ballots' \in Seq(SUBSET Ballot) /\ Len(ballots') = Len(ballots)
  <2>1. ballots[id] \cup {x} \in SUBSET Ballot
    BY <1>1, <1>3
  <2> QED BY <1>1, <1>6, <2>1 DEF GInv
<1>9. \A i \in DOMAIN proposals' : Counted(proposals'[i], ballots'[i])
  <2> TAKE i \in DOMAIN proposals'
  <2>1. CASE i = id
    <3>1. proposals'[i] = Voted(proposals[id], s) /\ ballots'[i] = ballots[id] \cup {x}
      BY <1>1, <1>5, <1>6, <2>1
    <3> QED BY <1>4, <3>1
  <2>2. CASE i # id
    <3>1. i \in DOMAIN proposals /\ proposals'[i] = proposals[i] /\ ballots'[i] = ballots[i]
      BY <1>1, <1>5, <1>6, <1>7, <2>2 DEF GInv
    <3> QED BY <3>1 DEF GInv
  <2> QED BY <2>1, <2>2
<1>10. delegates' = delegates /\ govClock' = govClock /\ lastExecuted' = lastExecuted
  BY DEF Governance!Vote
<1> QED BY <1>7, <1>8, <1>9, <1>10 DEF GInv

(* createProposal: a proposal without ballots.                               *)
LEMMA CreatePreserves ==
    ASSUME Governance!GovernanceAssumption, GInv, NEW active \in ActiveSets, NEW count \in Counts,
           Governance!CreateProposal(active, count)
    PROVE  GInv'
<1> DEFINE p == [active |-> active, activeCount |-> count, yes |-> 0, no |-> 0, executed |-> FALSE,
                 votingEndsAt |-> govClock + VotingPeriod,
                 executableAt |-> govClock + VotingPeriod + TimelockDelay]
<1>1. proposals' = Append(proposals, p) /\ ballots' = Append(ballots, {})
  BY DEF Governance!CreateProposal
<1>2. p \in Polled
  BY DEF Polled, Governance!Proposal, GInv, Governance!GovernanceAssumption
<1>3. Counted(p, {})
  <2>1. Agreeing({}, TRUE) = {} /\ Agreeing({}, FALSE) = {}
    BY DEF Agreeing
  <2>2. p.yes = 0 /\ p.no = 0 /\ p.executed = FALSE
    OBVIOUS
  <2> QED BY <2>1, <2>2, FS_EmptySet DEF Counted
<1> HIDE DEF p
<1>4. proposals' \in Seq(Polled) /\ ballots' \in Seq(SUBSET Ballot)
      /\ Len(ballots') = Len(proposals') /\ Len(proposals') <= MaxProposals
  BY <1>1, <1>2 DEF GInv, Governance!CreateProposal, Governance!GovernanceAssumption
<1>5. \A i \in DOMAIN proposals' : Counted(proposals'[i], ballots'[i])
  <2> TAKE i \in DOMAIN proposals'
  <2>1. CASE i = Len(proposals) + 1
    <3>1. proposals'[i] = p /\ ballots'[i] = {}
      BY <1>1, <2>1 DEF GInv
    <3> QED BY <1>3, <3>1
  <2>2. CASE i # Len(proposals) + 1
    <3>1. i \in DOMAIN proposals /\ proposals'[i] = proposals[i] /\ ballots'[i] = ballots[i]
      BY <1>1, <1>2, <2>2 DEF GInv
    <3> QED BY <3>1 DEF GInv
  <2> QED BY <2>1, <2>2
<1>6. delegates' = delegates /\ govClock' = govClock /\ lastExecuted' = lastExecuted
  BY DEF Governance!CreateProposal
<1> QED BY <1>4, <1>5, <1>6 DEF GInv

LEMMA ExecutePreserves ==
    ASSUME Governance!GovernanceAssumption, GInv, NEW id, Governance!Execute(id)
    PROVE  GInv'
<1> DEFINE q == [proposals[id] EXCEPT !.executed = TRUE]
<1>1. /\ id \in DOMAIN proposals /\ proposals[id] \in Polled
      /\ Counted(proposals[id], ballots[id])
      /\ Governance!Passed(proposals[id].yes, proposals[id].activeCount)
  BY DEF GInv, Governance!Execute
<1>2. /\ q \in Polled /\ q.yes = proposals[id].yes /\ q.no = proposals[id].no
      /\ q.active = proposals[id].active /\ q.activeCount = proposals[id].activeCount
  BY <1>1 DEF Polled, Governance!Proposal
<1>3. proposals' = [proposals EXCEPT ![id] = q] /\ ballots' = ballots
  BY DEF Governance!Execute
<1> HIDE DEF q
<1>4. Counted(q, ballots[id])
  BY <1>1, <1>2 DEF Counted
<1>5. /\ proposals' \in Seq(Polled) /\ Len(proposals') = Len(proposals)
      /\ DOMAIN proposals' = DOMAIN proposals
  BY <1>1, <1>2, <1>3 DEF GInv
<1>6. \A i \in DOMAIN proposals' : Counted(proposals'[i], ballots'[i])
  <2> TAKE i \in DOMAIN proposals'
  <2>1. CASE i = id
    BY <1>1, <1>3, <1>4, <2>1
  <2>2. CASE i # id
    BY <1>3, <1>5, <2>2 DEF GInv
  <2> QED BY <2>1, <2>2
<1>7. delegates' = delegates /\ govClock' = govClock /\ lastExecuted' \in 0 .. MaxTime
  BY DEF Governance!Execute, GInv, Governance!GovernanceAssumption
<1> QED BY <1>3, <1>5, <1>6, <1>7 DEF GInv

LEMMA UnchangedPreserves ==
    ASSUME GInv, UNCHANGED <<proposals, ballots, delegates, govClock, lastExecuted>>
    PROVE  GInv'
BY DEF GInv, Counted, Agreeing, Governance!Passed

-----------------------------------------------------------------------------
LEMMA InitCounted == Governance!GovernanceAssumption /\ Governance!Init => GInv
<1> SUFFICES ASSUME Governance!GovernanceAssumption, Governance!Init PROVE GInv
  OBVIOUS
<1>1. proposals = <<>> /\ ballots = <<>> /\ govClock = 1 /\ lastExecuted = 0
      /\ delegates = [a \in Accounts |-> NoOne]
  BY DEF Governance!Init
<1> QED BY <1>1 DEF GInv, Governance!GovernanceAssumption

LEMMA InitSaid == Governance!Init => CallsSaid
<1> SUFFICES ASSUME Governance!Init PROVE CallsSaid
  OBVIOUS
<1>1. govCall = [k \in Governance!Kinds |-> Idle]
  BY DEF Governance!Init
<1>2. DOMAIN govCall = Governance!Kinds /\ \A k \in Governance!Kinds : govCall[k] = Idle
  BY <1>1
<1> QED BY <1>2 DEF CallsSaid

LEMMA CallIs ==
    ASSUME NEW at \in {"send", "read"}, NEW id, NEW s \in BOOLEAN
    PROVE  Call([at |-> at, id |-> id, support |-> s])
BY DEF Call

LEMMA CallSet ==
    ASSUME CallsSaid, NEW k, NEW c, Call(c), govCall' = [govCall EXCEPT ![k] = c]
    PROVE  CallsSaid'
<1>1. /\ DOMAIN govCall' = Governance!Kinds
      /\ \A j \in Governance!Kinds : govCall'[j] = IF j = k THEN c ELSE govCall[j]
  BY DEF CallsSaid
<1>2. \A j \in Governance!Kinds : govCall'[j] # Idle => Call(govCall'[j])
  BY <1>1 DEF CallsSaid
<1> QED BY <1>1, <1>2 DEF CallsSaid, Call

LEMMA CallsStaySaid == CallsSaid /\ [Governance!Next]_(Governance!vars) => CallsSaid'
<1> SUFFICES ASSUME CallsSaid, [Governance!Next]_(Governance!vars) PROVE CallsSaid'
  OBVIOUS
<1>1. ASSUME UNCHANGED govCall PROVE CallsSaid'
  BY <1>1 DEF CallsSaid, Call
<1>2. ASSUME NEW k, govCall' = [govCall EXCEPT ![k] = Idle] PROVE CallsSaid'
  BY <1>2 DEF CallsSaid, Call
<1>3. ASSUME NEW k, NEW id, NEW s \in BOOLEAN, Governance!Start(k, id, s) PROVE CallsSaid'
  <2>1. PICK c : c = [at |-> "send", id |-> id, support |-> s]
    OBVIOUS
  <2>2. Call(c)
    BY <2>1, CallIs
  <2>3. govCall' = [govCall EXCEPT ![k] = c]
    BY <1>3, <2>1 DEF Governance!Start
  <2> QED BY <2>2, <2>3, CallSet
<1>4. ASSUME NEW k \in Governance!Kinds, Governance!CallMined(k) PROVE CallsSaid'
  <2>1. PICK at, id : \E s \in BOOLEAN : govCall[k] = [at |-> at, id |-> id, support |-> s]
    BY <1>4 DEF CallsSaid, Governance!CallMined, Call
  <2>2. PICK s \in BOOLEAN : govCall[k] = [at |-> at, id |-> id, support |-> s]
    BY <2>1
  <2>3. govCall' = [govCall EXCEPT ![k] = [govCall[k] EXCEPT !.at = "read"]]
    BY <1>4 DEF Governance!CallMined
  <2>4. PICK c : c = [govCall[k] EXCEPT !.at = "read"]
    OBVIOUS
  <2>5. Call(c)
    <3>1. c = [at |-> "read", id |-> id, support |-> s]
      BY <2>2, <2>4
    <3> QED BY <3>1, CallIs
  <2> QED BY <2>3, <2>4, <2>5, CallSet
<1>5. CASE Governance!Others \/ Governance!GovTick \/ Governance!FetchProposals
        \/ UNCHANGED Governance!vars
  BY <1>1, <1>5 DEF Governance!Others, Governance!GovTick, Governance!FetchProposals,
     Governance!vars, Governance!pageVars
<1>6. CASE Governance!VoteInRow \/ Governance!VoteByNumber \/ Governance!HandleExecute
        \/ Governance!HandleCreate
  BY <1>3, <1>6 DEF Governance!VoteInRow, Governance!VoteByNumber, Governance!HandleExecute,
     Governance!HandleCreate
<1>7. ASSUME NEW k \in Governance!Kinds \cup {"page"}, Governance!Continue(k) PROVE CallsSaid'
  <2>1. CASE Governance!GetProposal(k)
    BY <1>1, <2>1 DEF Governance!GetProposal
  <2>2. CASE Governance!ReadingDone(k) \/ Governance!ReadingFails(k)
    BY <1>1, <1>2, <2>2 DEF Governance!ReadingDone, Governance!ReadingFails
  <2>3. CASE k \in Governance!Kinds /\ Governance!CallMined(k)
    BY <1>4, <2>3
  <2>4. CASE Governance!CallFails(k)
    BY <1>2, <2>4 DEF Governance!CallFails
  <2> QED BY <1>7, <2>1, <2>2, <2>3, <2>4 DEF Governance!Continue
<1> QED BY <1>5, <1>6, <1>7 DEF Governance!Next

(* The page's own steps leave the contract alone until a call is mined.      *)
LEMMA StepCounted ==
    Governance!GovernanceAssumption /\ CallsSaid /\ GInv /\ [Governance!Next]_(Governance!vars)
        => GInv'
<1> SUFFICES ASSUME Governance!GovernanceAssumption, CallsSaid, GInv,
                    [Governance!Next]_(Governance!vars)
             PROVE  GInv'
  OBVIOUS
<1>1. CASE Governance!Others
  <2>1. ASSUME NEW s \in ActiveSets, NEW n \in Counts, Governance!CreateProposal(s, n) PROVE GInv'
    BY <2>1, CreatePreserves
  <2>2. ASSUME NEW a \in Accounts, NEW id \in DOMAIN proposals, NEW yes \in BOOLEAN,
               Governance!Vote(a, id, yes)
        PROVE  GInv'
    BY <2>2, VotePreserves
  <2>3. ASSUME NEW a \in Delegators, NEW d \in Accounts \cup {NoOne}, Governance!SetDelegate(a, d)
        PROVE  GInv'
    <3>1. delegates' \in [Accounts -> Accounts \cup {NoOne}]
      BY <2>3 DEF Governance!SetDelegate, GInv
    <3>2. UNCHANGED <<proposals, ballots, govClock, lastExecuted>>
      BY <2>3 DEF Governance!SetDelegate
    <3> QED BY <3>1, <3>2 DEF GInv, Counted, Agreeing, Governance!Passed
  <2>4. ASSUME NEW id \in DOMAIN proposals, Governance!Execute(id) PROVE GInv'
    BY <2>4, ExecutePreserves
  <2> QED BY <1>1, <2>1, <2>2, <2>3, <2>4 DEF Governance!Others
<1>2. CASE Governance!GovTick
  <2>1. govClock' \in 1 .. MaxTime /\ UNCHANGED <<proposals, ballots, delegates, lastExecuted>>
    BY <1>2 DEF Governance!GovTick, GInv, Governance!GovernanceAssumption
  <2> QED BY <2>1 DEF GInv, Counted, Agreeing, Governance!Passed
<1>3. CASE Governance!FetchProposals
  BY <1>3, UnchangedPreserves DEF Governance!FetchProposals, Governance!chainVars
<1>4. CASE Governance!VoteInRow \/ Governance!VoteByNumber \/ Governance!HandleExecute
        \/ Governance!HandleCreate
  BY <1>4, UnchangedPreserves DEF Governance!VoteInRow, Governance!VoteByNumber,
     Governance!HandleExecute, Governance!HandleCreate, Governance!Start, Governance!chainVars
<1>5. ASSUME NEW k \in Governance!Kinds \cup {"page"}, Governance!Continue(k) PROVE GInv'
  <2>1. CASE Governance!GetProposal(k) \/ Governance!ReadingDone(k) \/ Governance!ReadingFails(k)
    BY <2>1, UnchangedPreserves DEF Governance!GetProposal, Governance!ReadingDone,
       Governance!ReadingFails, Governance!chainVars
  <2>2. CASE Governance!CallFails(k)
    BY <2>2, UnchangedPreserves DEF Governance!CallFails, Governance!chainVars
  <2>3. CASE k \in Governance!Kinds /\ Governance!CallMined(k)
    <3>1. Governance!Mined(k, govCall[k])
      BY <2>3 DEF Governance!CallMined
    <3>2. CASE Governance!Vote(Me, govCall[k].id, govCall[k].support)
      <4>1. Me \in Accounts
        BY DEF Governance!GovernanceAssumption
      <4>2. govCall[k].support \in BOOLEAN
        BY <2>3 DEF Governance!CallMined, CallsSaid, Call
      <4> QED BY <3>2, <4>1, <4>2, VotePreserves
    <3>3. CASE Governance!Execute(govCall[k].id)
      BY <3>3, ExecutePreserves
    <3>4. CASE \E s \in ActiveSets, n \in Counts : Governance!CreateProposal(s, n)
      BY <3>4, CreatePreserves
    <3> QED BY <3>1, <3>2, <3>3, <3>4 DEF Governance!Mined
  <2> QED BY <1>5, <2>1, <2>2, <2>3 DEF Governance!Continue
<1>6. CASE UNCHANGED Governance!vars
  BY <1>6, UnchangedPreserves DEF Governance!vars, Governance!chainVars
<1> QED BY <1>1, <1>2, <1>3, <1>4, <1>5, <1>6 DEF Governance!Next

LEMMA CountedMeansBallots == GInv => CountsAreBallots
<1> SUFFICES ASSUME GInv, NEW id \in DOMAIN proposals
             PROVE  /\ proposals[id].yes = Cardinality(Governance!Saying(id, TRUE))
                    /\ proposals[id].no = Cardinality(Governance!Saying(id, FALSE))
                    /\ \A b \in ballots[id] : b.voter \in proposals[id].active
                    /\ \A b, c \in ballots[id] : b.voter = c.voter => b = c
                    /\ proposals[id].executed =>
                         Governance!Passed(
                             Cardinality({b.voter : b \in Governance!Saying(id, TRUE)}),
                             proposals[id].activeCount)
  BY SameCardinality DEF CountsAreBallots, Governance!CountsAreBallots
<1> DEFINE B == ballots[id]
           Yes == Governance!Saying(id, TRUE)
           Names == {b.voter : b \in Yes}
<1>1. Counted(proposals[id], B)
  BY DEF GInv
<1>2. /\ Governance!Saying(id, TRUE) = Agreeing(B, TRUE)
      /\ Governance!Saying(id, FALSE) = Agreeing(B, FALSE)
  BY DEF Governance!Saying, Agreeing
<1>3. Cardinality(Names) = Cardinality(Yes)
  <2>1. IsFiniteSet(Yes)
    <3>1. IsFiniteSet(B) /\ Yes \in SUBSET B
      BY <1>1 DEF Counted, Governance!Saying
    <3> QED BY <3>1, FS_Subset
  <2>2. \A b, c \in Yes : b.voter = c.voter => b = c
    BY <1>1 DEF Counted, Governance!Saying
  <2> HIDE DEF Yes
  <2> DEFINE f == [b \in Yes |-> b.voter]
  <2>3. f \in Bijection(Yes, Names)
    <3>1. f \in [Yes -> Names]
      OBVIOUS
    <3>2. \A b, c \in Yes : f[b] = f[c] => b = c
      BY <2>2
    <3>3. \A v \in Names : \E b \in Yes : f[b] = v
      OBVIOUS
    <3> HIDE DEF f, Names
    <3> QED BY <3>1, <3>2, <3>3 DEF Bijection, Injection, Surjection, IsInjective
  <2>4. ExistsBijection(Yes, Names)
    BY <2>3 DEF ExistsBijection
  <2> QED BY <2>1, <2>4, FS_Bijection
<1> QED BY <1>1, <1>2, <1>3 DEF Counted

-----------------------------------------------------------------------------
(* A step of the application is a step of the governance page, or it leaves  *)
(* that page alone.                                                          *)
LEMMA StepOfPage == [Next]_vars => [Governance!Next]_(Governance!vars)
<1> SUFFICES ASSUME [Next]_vars PROVE Governance!Next \/ UNCHANGED Governance!vars
  OBVIOUS
<1>1. CASE Open("governance") /\ Governance!Next /\ BesideGovernance
  BY <1>1
<1>2. CASE UNCHANGED governanceVars
  BY <1>2 DEF governanceVars, Governance!vars, Governance!chainVars, Governance!pageVars
<1>3. UNCHANGED governanceVars \/ (Open("governance") /\ Governance!Next /\ BesideGovernance)
  BY Zenon DEF Next, vars, BesideBridge, BesideVaultTabs, BesideClaims, BesideOrders, BesideRelay,
     BesideP2P
<1> QED BY <1>1, <1>2, <1>3

(* CountsAreBallots in every state of the application, for all accounts,     *)
(* delegations and numbers of proposals (Governance.sol, vote and execute).  *)
THEOREM CountersAreBallots == Spec => []CountsAreBallots
<1>1. Init => Governance!Init
  BY DEF Init
<1>2. Init => GInv /\ CallsSaid
  BY <1>1, PageAssumption, InitCounted, InitSaid
<1>3. GInv /\ CallsSaid /\ [Next]_vars => GInv' /\ CallsSaid'
  BY PageAssumption, StepOfPage, StepCounted, CallsStaySaid
<1>4. GInv => CountsAreBallots
  BY CountedMeansBallots
<1>5. Spec => [](GInv /\ CallsSaid)
  BY <1>2, <1>3, PTL DEF Spec
<1> QED BY <1>4, <1>5, PTL


-----------------------------------------------------------------------------
(* The order pages: what is under way in the forms, in the cancellations and *)
(* in the lists has its types, and an order that is past the check of its    *)
(* signature was signed by the account it names.                             *)
Placement ==
    [order : Orders!OrderData, at : {"signer", "sign", "verify", "post", "publish"},
     node : Orders!Nodes]
Cancellation ==
    [id : Orders!Ids, of : Accounts, signer : Accounts, node : Orders!Nodes,
     at : {"signer", "sign", "post"}]
CacheEntry == [known : BOOLEAN, ids : SUBSET Orders!Ids]

WalletTyped == account \in Accounts /\ walletAccount \in Accounts /\ online \in BOOLEAN
PlacementsTyped ==
    /\ DOMAIN placements = Forms
    /\ \A f \in Forms : placements[f] # Idle => placements[f] \in Placement
CancelsTyped == cancels \subseteq Cancellation /\ cancelLoading \in Orders!Ids \cup {Orders!None}
ListsTyped ==
    /\ lists \in [Orders!Listed -> SUBSET Orders!Ids]
    /\ listCache \in [book : CacheEntry, mine : [Accounts -> CacheEntry]]
    /\ fetching \subseteq Orders!Listed \X Accounts /\ reload \in BOOLEAN
BroadcastTyped == broadcast \in BOOLEAN /\ gossip \subseteq Orders!OrderData
NodesTyped ==
    /\ nodeOrders \in [Orders!Nodes -> SUBSET Orders!OrderData]
    /\ nodeOpen \in [Orders!Nodes -> SUBSET Orders!Ids]
    /\ \A n \in Orders!Nodes : nodeOpen[n] \subseteq {o.id : o \in nodeOrders[n]}
    /\ lastId \in 0 .. MaxOrders

(* Past the check: what is still to be sent, and what has left.              *)
CheckedIsSigned ==
    /\ \A f \in Forms : placements[f] # Idle /\ placements[f].at \in {"post", "publish"}
                           => placements[f].order.signer = placements[f].order.trader
    /\ \A o \in gossip : o.signer = o.trader
    /\ \A n \in Orders!Nodes : \A o \in nodeOrders[n] : o.signer = o.trader

OrdersInv ==
    /\ WalletTyped /\ PlacementsTyped /\ CancelsTyped /\ ListsTyped /\ BroadcastTyped /\ NodesTyped
    /\ CheckedIsSigned

LEMMA OrderPageAssumed == Orders!OrderPageAssumption
  BY Zenon, WebAppAssumption DEF WebAppAssumption

LEMMA OrderPageConstants ==
    /\ Me \in Accounts /\ NodeCount \in Nat \ {0} /\ MaxOrders \in Nat
    /\ 1 \in Orders!Nodes
BY OrderPageAssumed DEF Orders!OrderPageAssumption, Orders!Nodes

LEMMA OrdersInitially == Orders!Init => OrdersInv
<1> SUFFICES ASSUME Orders!Init PROVE OrdersInv
  OBVIOUS
<1>1. WalletTyped
  BY OrderPageConstants DEF WalletTyped, Orders!Init
<1>2. PlacementsTyped
  BY DEF PlacementsTyped, Orders!Init
<1>3. CancelsTyped
  BY DEF CancelsTyped, Orders!Init
<1>4. ListsTyped
  BY DEF ListsTyped, Orders!Init, CacheEntry, Orders!NoCache, Orders!Listed
<1>5. BroadcastTyped
  BY DEF BroadcastTyped, Orders!Init
<1>6. NodesTyped
  BY OrderPageConstants DEF NodesTyped, Orders!Init
<1>7. CheckedIsSigned
  BY DEF CheckedIsSigned, Orders!Init
<1> QED BY <1>1, <1>2, <1>3, <1>4, <1>5, <1>6, <1>7 DEF OrdersInv

(* What a step leaves alone keeps its part.                                  *)
LEMMA OrdersFrames ==
    ASSUME OrdersInv
    PROVE  /\ UNCHANGED Orders!walletVars => WalletTyped'
           /\ UNCHANGED placements => PlacementsTyped'
           /\ UNCHANGED Orders!cancelVars => CancelsTyped'
           /\ UNCHANGED Orders!listVars => ListsTyped'
           /\ UNCHANGED <<broadcast, gossip>> => BroadcastTyped'
           /\ UNCHANGED <<nodeOrders, nodeOpen, lastId>> => NodesTyped'
           /\ UNCHANGED <<placements, gossip, nodeOrders>> => CheckedIsSigned'
<1>1. UNCHANGED Orders!walletVars => WalletTyped'
  BY DEF OrdersInv, WalletTyped, Orders!walletVars
<1>2. UNCHANGED placements => PlacementsTyped'
  BY DEF OrdersInv, PlacementsTyped
<1>3. UNCHANGED Orders!cancelVars => CancelsTyped'
  BY DEF OrdersInv, CancelsTyped, Orders!cancelVars
<1>4. UNCHANGED Orders!listVars => ListsTyped'
  BY DEF OrdersInv, ListsTyped, Orders!listVars
<1>5. UNCHANGED <<broadcast, gossip>> => BroadcastTyped'
  BY DEF OrdersInv, BroadcastTyped
<1>6. UNCHANGED <<nodeOrders, nodeOpen, lastId>> => NodesTyped'
  BY DEF OrdersInv, NodesTyped
<1>7. UNCHANGED <<placements, gossip, nodeOrders>> => CheckedIsSigned'
  BY DEF OrdersInv, CheckedIsSigned
<1> QED BY <1>1, <1>2, <1>3, <1>4, <1>5, <1>6, <1>7

LEMMA WalletSteps ==
    ASSUME OrdersInv,
           Orders!SwitchWallet \/ Orders!AccountsChanged \/ Orders!OnlineStatus
    PROVE  OrdersInv'
<1>1. WalletTyped'
  BY DEF OrdersInv, WalletTyped, Orders!SwitchWallet, Orders!AccountsChanged, Orders!OnlineStatus
<1>2. ListsTyped'
  BY DEF OrdersInv, ListsTyped, Orders!SwitchWallet, Orders!AccountsChanged, Orders!OnlineStatus,
         Orders!listVars
<1>3. UNCHANGED <<placements, Orders!cancelVars, broadcast, gossip, nodeOrders, nodeOpen, lastId>>
  BY DEF Orders!SwitchWallet, Orders!AccountsChanged, Orders!OnlineStatus, Orders!cancelVars,
         Orders!nodeVars
<1> QED BY <1>1, <1>2, <1>3, OrdersFrames DEF OrdersInv

LEMMA NodesMatchKeeps ==
    ASSUME OrdersInv, Orders!NodesMatch
    PROVE  OrdersInv'
<1>1. NodesTyped'
  <2>1. PICK n \in Orders!Nodes, i \in Orders!Ids :
           i \in nodeOpen[n] /\ nodeOpen' = [nodeOpen EXCEPT ![n] = @ \ {i}]
    BY DEF Orders!NodesMatch
  <2>2. nodeOrders' = nodeOrders /\ lastId' = lastId
    BY DEF Orders!NodesMatch
  <2> QED BY <2>1, <2>2 DEF OrdersInv, NodesTyped
<1>2. UNCHANGED <<Orders!walletVars, placements, Orders!cancelVars, Orders!listVars, broadcast,
                  gossip, nodeOrders>>
  BY DEF Orders!NodesMatch
<1> QED BY <1>1, <1>2, OrdersFrames DEF OrdersInv

-----------------------------------------------------------------------------
(* The lists.                                                                *)
LEMMA AnswerTyped ==
    ASSUME OrdersInv, NEW n \in Orders!Nodes, NEW l, NEW a
    PROVE  Orders!Answer(n, l, a) \in SUBSET Orders!Ids
BY DEF OrdersInv, NodesTyped, Orders!Answer, Orders!OrderData

LEMMA SetCachedTyped ==
    ASSUME OrdersInv, NEW l \in Orders!Listed, NEW a \in Accounts, NEW e \in CacheEntry,
           Orders!SetCached(l, a, e)
    PROVE  listCache' \in [book : CacheEntry, mine : [Accounts -> CacheEntry]]
BY DEF OrdersInv, ListsTyped, Orders!SetCached, Orders!Listed

LEMMA CachedTyped ==
    ASSUME OrdersInv, NEW l \in Orders!Listed, NEW a \in Accounts
    PROVE  Orders!Cached(l, a) \in CacheEntry
BY DEF OrdersInv, ListsTyped, Orders!Cached, Orders!Listed

LEMMA ListSteps ==
    ASSUME OrdersInv,
           \/ Orders!Load \/ Orders!CacheExpires \/ Orders!OrderbookUpdate
           \/ \E l \in Orders!Listed, a \in Accounts : Orders!ContinueList(l, a)
    PROVE  OrdersInv'
<1>1. UNCHANGED <<Orders!walletVars, placements, Orders!cancelVars, broadcast, gossip, nodeOrders,
                  nodeOpen, lastId>>
  BY DEF Orders!Load, Orders!CacheExpires, Orders!OrderbookUpdate, Orders!ContinueList,
         Orders!ListArrives, Orders!ListFails, Orders!nodeVars
<1>2. /\ lists \in [Orders!Listed -> SUBSET Orders!Ids]
      /\ listCache \in [book : CacheEntry, mine : [Accounts -> CacheEntry]]
      /\ fetching \subseteq Orders!Listed \X Accounts /\ reload \in BOOLEAN
      /\ account \in Accounts
  BY DEF OrdersInv, ListsTyped, WalletTyped
<1>3. CASE Orders!Load
  <2>1. \A l \in Orders!Listed : Orders!Cached(l, account) \in CacheEntry
    BY <1>2, CachedTyped
  <2>2. lists' \in [Orders!Listed -> SUBSET Orders!Ids]
    BY <1>2, <1>3, <2>1 DEF Orders!Load, CacheEntry
  <2>3. reload' \in BOOLEAN
    BY <1>2, <1>3 DEF Orders!Load, CacheEntry
  <2>4. fetching' \subseteq Orders!Listed \X Accounts /\ listCache' = listCache
    BY <1>2, <1>3 DEF Orders!Load
  <2>5. ListsTyped'
    BY <1>2, <2>2, <2>3, <2>4 DEF ListsTyped
  <2> QED BY <1>1, <2>5, OrdersFrames DEF OrdersInv
<1>4. CASE Orders!CacheExpires
  <2>1. PICK a \in Accounts, l \in Orders!Listed : Orders!SetCached(l, a, Orders!NoCache)
    BY <1>4 DEF Orders!CacheExpires
  <2>2. Orders!NoCache \in CacheEntry
    BY DEF Orders!NoCache, CacheEntry
  <2>3. listCache' \in [book : CacheEntry, mine : [Accounts -> CacheEntry]]
    BY <2>1, <2>2, SetCachedTyped
  <2>4. UNCHANGED <<lists, fetching, reload>>
    BY <1>4 DEF Orders!CacheExpires
  <2>5. ListsTyped'
    BY <1>2, <2>3, <2>4 DEF ListsTyped
  <2> QED BY <1>1, <2>5, OrdersFrames DEF OrdersInv
<1>5. CASE Orders!OrderbookUpdate
  <2>1. PICK n \in Orders!Nodes : lists' = [lists EXCEPT !["book"] = nodeOpen[n]]
    BY <1>5 DEF Orders!OrderbookUpdate
  <2>2. nodeOpen[n] \subseteq Orders!Ids
    BY DEF OrdersInv, NodesTyped
  <2>3. reload' = TRUE /\ UNCHANGED <<listCache, fetching>>
    BY <1>5 DEF Orders!OrderbookUpdate
  <2>4. ListsTyped'
    BY <1>2, <2>1, <2>2, <2>3 DEF ListsTyped
  <2> QED BY <1>1, <2>4, OrdersFrames DEF OrdersInv
<1>6. ASSUME NEW l \in Orders!Listed, NEW a \in Accounts, Orders!ListArrives(l, a)
      PROVE  ListsTyped'
  <2>1. PICK n \in Orders!Nodes :
          /\ lists' = [lists EXCEPT ![l] = Orders!Answer(n, l, a)]
          /\ Orders!SetCached(l, a, [known |-> TRUE, ids |-> Orders!Answer(n, l, a)])
    BY <1>6 DEF Orders!ListArrives
  <2>2. Orders!Answer(n, l, a) \in SUBSET Orders!Ids
    BY AnswerTyped
  <2>3. [known |-> TRUE, ids |-> Orders!Answer(n, l, a)] \in CacheEntry
    BY <2>2 DEF CacheEntry
  <2>4. listCache' \in [book : CacheEntry, mine : [Accounts -> CacheEntry]]
    BY <2>1, <2>3, SetCachedTyped
  <2>5. fetching' \subseteq fetching /\ reload' \in BOOLEAN
    BY <1>2, <1>6 DEF Orders!ListArrives
  <2> QED BY <1>2, <2>1, <2>2, <2>4, <2>5 DEF ListsTyped
<1>7. ASSUME NEW l \in Orders!Listed, NEW a \in Accounts, Orders!ListFails(l, a)
      PROVE  ListsTyped'
  <2>1. lists' = lists \/ lists' = [lists EXCEPT ![l] = {}]
    BY <1>7 DEF Orders!ListFails
  <2>2. fetching' \subseteq fetching /\ UNCHANGED <<listCache, reload>>
    BY <1>7 DEF Orders!ListFails
  <2> QED BY <1>2, <2>1, <2>2 DEF ListsTyped
<1>8. CASE \E l \in Orders!Listed, a \in Accounts : Orders!ContinueList(l, a)
  <2>1. ListsTyped'
    BY <1>6, <1>7, <1>8 DEF Orders!ContinueList
  <2> QED BY <1>1, <2>1, OrdersFrames DEF OrdersInv
<1> QED BY <1>3, <1>4, <1>5, <1>8

LEMMA BroadcastSteps ==
    ASSUME OrdersInv, Orders!StartBroadcast \/ Orders!OrderHeard
    PROVE  OrdersInv'
<1>1. BroadcastTyped'
  BY DEF OrdersInv, BroadcastTyped, Orders!StartBroadcast, Orders!OrderHeard
<1>2. ListsTyped'
  BY DEF OrdersInv, ListsTyped, Orders!StartBroadcast, Orders!OrderHeard, Orders!listVars
<1>3. UNCHANGED <<Orders!walletVars, placements, Orders!cancelVars, gossip, nodeOrders, nodeOpen,
                  lastId>>
  BY DEF Orders!StartBroadcast, Orders!OrderHeard, Orders!nodeVars
<1> QED BY <1>1, <1>2, <1>3, OrdersFrames DEF OrdersInv


-----------------------------------------------------------------------------
(* The forms.                                                                *)

(* A form whose placement becomes c, which may be Idle.                      *)
LEMMA PlaceTyped ==
    ASSUME OrdersInv, NEW f \in Forms, NEW c, c \in Placement \/ c = Idle,
           placements' = [placements EXCEPT ![f] = c]
    PROVE  PlacementsTyped'
BY DEF OrdersInv, PlacementsTyped

(* ... and keeps to the check, when what is past it was signed.              *)
LEMMA PlaceChecked ==
    ASSUME OrdersInv, NEW f \in Forms, NEW c,
           c # Idle /\ c.at \in {"post", "publish"} => c.order.signer = c.order.trader,
           placements' = [placements EXCEPT ![f] = c]
    PROVE  \A g \in Forms :
              placements'[g] # Idle /\ placements'[g].at \in {"post", "publish"}
                 => placements'[g].order.signer = placements'[g].order.trader
<1> TAKE g \in Forms
<1>1. DOMAIN placements = Forms
  BY DEF OrdersInv, PlacementsTyped
<1>2. CASE g = f
  <2>1. placements'[g] = c
    BY <1>1, <1>2
  <2> QED BY <2>1
<1>3. CASE g # f
  <2>1. placements'[g] = placements[g]
    BY <1>1, <1>3
  <2> QED BY <2>1 DEF OrdersInv, CheckedIsSigned
<1> QED BY <1>2, <1>3

(* A step of a form that sends nothing.                                      *)
LEMMA PlaceInside ==
    ASSUME OrdersInv, NEW f \in Forms, NEW c, c \in Placement \/ c = Idle,
           c # Idle /\ c.at \in {"post", "publish"} => c.order.signer = c.order.trader,
           placements' = [placements EXCEPT ![f] = c],
           UNCHANGED <<Orders!walletVars, Orders!cancelVars, Orders!listVars, broadcast, gossip,
                       nodeOrders, nodeOpen, lastId>>
    PROVE  OrdersInv'
<1>1. PlacementsTyped'
  BY PlaceTyped
<1>2. CheckedIsSigned'
  <2>1. \A g \in Forms :
           placements'[g] # Idle /\ placements'[g].at \in {"post", "publish"}
              => placements'[g].order.signer = placements'[g].order.trader
    BY PlaceChecked
  <2>2. gossip' = gossip /\ nodeOrders' = nodeOrders
    OBVIOUS
  <2> QED BY <2>1, <2>2 DEF OrdersInv, CheckedIsSigned
<1> QED BY <1>1, <1>2, OrdersFrames DEF OrdersInv

LEMMA StartPlacingKeeps ==
    ASSUME OrdersInv, NEW f \in Forms, Orders!StartPlacing(f)
    PROVE  OrdersInv'
<1> DEFINE c == [order |-> [id |-> lastId + 1, trader |-> account, signer |-> account],
                 at |-> "signer", node |-> 1]
<1>1. placements' = [placements EXCEPT ![f] = c]
  BY DEF Orders!StartPlacing
<1>2. lastId + 1 \in Orders!Ids /\ lastId' \in 0 .. MaxOrders
  BY OrderPageConstants DEF OrdersInv, NodesTyped, Orders!StartPlacing, Orders!Ids
<1>3. c \in Placement
  BY <1>2, OrderPageConstants DEF OrdersInv, WalletTyped, Placement, Orders!OrderData
<1>4. c.at \notin {"post", "publish"}
  OBVIOUS
<1> HIDE DEF c
<1>5. PlacementsTyped'
  BY <1>1, <1>3, PlaceTyped
<1>6. UNCHANGED <<Orders!walletVars, Orders!cancelVars, Orders!listVars, broadcast, gossip,
                  nodeOrders, nodeOpen>>
  BY DEF Orders!StartPlacing, Orders!nodeVars
<1>7. CheckedIsSigned'
  <2>1. \A g \in Forms :
           placements'[g] # Idle /\ placements'[g].at \in {"post", "publish"}
              => placements'[g].order.signer = placements'[g].order.trader
    BY <1>1, <1>4, PlaceChecked
  <2> QED BY <1>6, <2>1 DEF OrdersInv, CheckedIsSigned
<1>8. NodesTyped'
  BY <1>2, <1>6 DEF OrdersInv, NodesTyped
<1> QED BY <1>5, <1>6, <1>7, <1>8, OrdersFrames DEF OrdersInv

LEMMA UnderWay ==
    ASSUME OrdersInv, NEW f \in Forms, placements[f] # Idle
    PROVE  placements[f] \in Placement
BY DEF OrdersInv, PlacementsTyped

(* The wallet's account signs, and the check compares the two.               *)
LEMMA SigningKeeps ==
    ASSUME OrdersInv, NEW f \in Forms,
           \/ Orders!GetSigner(f) \/ Orders!SignOrder(f) \/ Orders!VerifyOrderSignature(f)
           \/ Orders!PlaceFails(f)
    PROVE  OrdersInv'
<1> DEFINE p == placements[f]
<1>1. p \in Placement
  BY UnderWay DEF Orders!GetSigner, Orders!SignOrder, Orders!VerifyOrderSignature, Orders!PlaceFails
<1>2. UNCHANGED <<Orders!walletVars, Orders!cancelVars, Orders!listVars, broadcast, gossip,
                  nodeOrders, nodeOpen, lastId>>
  BY DEF Orders!GetSigner, Orders!SignOrder, Orders!VerifyOrderSignature, Orders!PlaceFails,
         Orders!nodeVars
<1>3. CASE Orders!GetSigner(f)
  <2> DEFINE o == [id |-> p.order.id, signer |-> walletAccount,
                   trader |-> IF f = "form" THEN walletAccount ELSE p.order.trader]
             c == [order |-> o, at |-> "sign", node |-> p.node]
  <2>1. placements' = [placements EXCEPT ![f] = c]
    BY <1>3 DEF Orders!GetSigner, Orders!Place
  <2>3. walletAccount \in Accounts
    BY DEF OrdersInv, WalletTyped
  <2>4. c \in Placement /\ c.at = "sign"
    BY <1>1, <2>3 DEF Placement, Orders!OrderData
  <2> HIDE DEF c
  <2> QED BY <1>2, <2>1, <2>4, PlaceInside
<1>4. CASE Orders!SignOrder(f)
  <2> DEFINE c == [p EXCEPT !.at = "verify"]
  <2>1. placements' = [placements EXCEPT ![f] = c]
    BY <1>4 DEF Orders!SignOrder, Orders!Place
  <2>2. c \in Placement /\ c.at = "verify"
    BY <1>1 DEF Placement
  <2> HIDE DEF c
  <2> QED BY <1>2, <2>1, <2>2, PlaceInside
<1>5. CASE Orders!VerifyOrderSignature(f)
  <2> DEFINE c == [p EXCEPT !.at = IF f = "form" THEN "publish" ELSE "post"]
  <2>1. placements' = [placements EXCEPT ![f] = c] /\ p.order.signer = p.order.trader
    BY <1>5 DEF Orders!VerifyOrderSignature, Orders!Place
  <2>2. c \in Placement /\ c.order = p.order
    BY <1>1 DEF Placement
  <2> HIDE DEF c, p
  <2> QED BY <1>2, <2>1, <2>2, PlaceInside
<1>6. CASE Orders!PlaceFails(f)
  <2>1. placements' = [placements EXCEPT ![f] = Idle]
    BY <1>6 DEF Orders!PlaceFails, Orders!Place
  <2> QED BY <1>2, <2>1, PlaceInside
<1> QED BY <1>3, <1>4, <1>5, <1>6

(* A node that takes a signed order has signed orders.                       *)
LEMMA TakesTyped ==
    ASSUME OrdersInv, NEW n \in Orders!Nodes, NEW o \in Orders!OrderData, o.signer = o.trader,
           Orders!TakesOrder(n, o) \/ UNCHANGED Orders!nodeVars, lastId' = lastId
    PROVE  NodesTyped' /\ \A m \in Orders!Nodes : \A q \in nodeOrders'[m] : q.signer = q.trader
<1>1. /\ nodeOrders \in [Orders!Nodes -> SUBSET Orders!OrderData]
      /\ nodeOpen \in [Orders!Nodes -> SUBSET Orders!Ids]
      /\ \A m \in Orders!Nodes : nodeOpen[m] \subseteq {q.id : q \in nodeOrders[m]}
      /\ lastId \in 0 .. MaxOrders
      /\ \A m \in Orders!Nodes : \A q \in nodeOrders[m] : q.signer = q.trader
  BY DEF OrdersInv, NodesTyped, CheckedIsSigned
<1>2. CASE UNCHANGED Orders!nodeVars
  BY <1>1, <1>2 DEF NodesTyped, Orders!nodeVars
<1>3. CASE Orders!TakesOrder(n, o)
  <2>1. /\ nodeOrders' = [nodeOrders EXCEPT ![n] = nodeOrders[n] \cup {o}]
        /\ nodeOpen' = [nodeOpen EXCEPT ![n] = nodeOpen[n] \cup {o.id}]
    BY <1>3 DEF Orders!TakesOrder
  <2>2. o.id \in Orders!Ids
    BY DEF Orders!OrderData
  <2>3. nodeOrders' \in [Orders!Nodes -> SUBSET Orders!OrderData]
    BY <1>1, <2>1
  <2>4. nodeOpen' \in [Orders!Nodes -> SUBSET Orders!Ids]
    BY <1>1, <2>1, <2>2
  <2>5. \A m \in Orders!Nodes : nodeOpen'[m] \subseteq {q.id : q \in nodeOrders'[m]}
    <3> TAKE m \in Orders!Nodes
    <3>1. nodeOpen[m] \subseteq {q.id : q \in nodeOrders[m]}
      BY <1>1
    <3>2. CASE m = n
      <4>1. nodeOpen'[m] = nodeOpen[m] \cup {o.id} /\ nodeOrders'[m] = nodeOrders[m] \cup {o}
        BY <1>1, <2>1, <3>2
      <4> QED BY <3>1, <4>1
    <3>3. CASE m # n
      BY <1>1, <2>1, <3>1, <3>3
    <3> QED BY <3>2, <3>3
  <2>6. \A m \in Orders!Nodes : \A q \in nodeOrders'[m] : q.signer = q.trader
    BY <1>1, <2>1
  <2> QED BY <1>1, <2>3, <2>4, <2>5, <2>6 DEF NodesTyped
<1> QED BY <1>2, <1>3

LEMMA NodePostKeeps ==
    ASSUME OrdersInv, NEW f \in Forms, Orders!NodePost(f)
    PROVE  OrdersInv'
<1> DEFINE p == placements[f]
<1>1. p \in Placement /\ p # Idle /\ p.at = "post"
  BY UnderWay DEF Orders!NodePost
<1>2. p.order \in Orders!OrderData /\ p.node \in Orders!Nodes /\ p.order.signer = p.order.trader
  BY <1>1 DEF Placement, OrdersInv, CheckedIsSigned
<1>3. UNCHANGED <<Orders!walletVars, Orders!cancelVars, Orders!listVars, broadcast, gossip, lastId>>
  BY DEF Orders!NodePost
<1>4. Orders!TakesOrder(p.node, p.order) \/ UNCHANGED Orders!nodeVars
  BY DEF Orders!NodePost
<1>5. NodesTyped' /\ \A m \in Orders!Nodes : \A q \in nodeOrders'[m] : q.signer = q.trader
  <2> HIDE DEF p
  <2> QED BY <1>2, <1>3, <1>4, TakesTyped
<1>6. PICK c : /\ placements' = [placements EXCEPT ![f] = c]
               /\ c \in Placement \/ c = Idle
               /\ c # Idle => c.order = p.order
  <2>1. CASE placements' = [placements EXCEPT ![f] = [p EXCEPT !.at = "publish"]]
    <3>1. [p EXCEPT !.at = "publish"] \in Placement /\ [p EXCEPT !.at = "publish"].order = p.order
      BY <1>1 DEF Placement
    <3> QED BY <2>1, <3>1
  <2>2. CASE /\ p.node < NodeCount
             /\ placements' = [placements EXCEPT ![f] = [p EXCEPT !.node = p.node + 1]]
    <3>1. p.node + 1 \in Orders!Nodes
      BY <1>2, <2>2, OrderPageConstants DEF Orders!Nodes
    <3>2. /\ [p EXCEPT !.node = p.node + 1] \in Placement
          /\ [p EXCEPT !.node = p.node + 1].order = p.order
      BY <1>1, <3>1 DEF Placement
    <3> QED BY <2>2, <3>2
  <2>3. CASE placements' = [placements EXCEPT ![f] = Idle]
    BY <2>3
  <2> QED BY <2>1, <2>2, <2>3 DEF Orders!NodePost, Orders!Place
<1>7. PlacementsTyped'
  BY <1>6, PlaceTyped
<1>8. \A g \in Forms :
         placements'[g] # Idle /\ placements'[g].at \in {"post", "publish"}
            => placements'[g].order.signer = placements'[g].order.trader
  <2> HIDE DEF p
  <2> QED BY <1>2, <1>6, PlaceChecked
<1>9. CheckedIsSigned'
  BY <1>3, <1>5, <1>8 DEF OrdersInv, CheckedIsSigned
<1> HIDE DEF p
<1> QED BY <1>3, <1>5, <1>7, <1>9, OrdersFrames DEF OrdersInv

LEMMA PublishKeeps ==
    ASSUME OrdersInv, NEW f \in Forms, Orders!PublishOrder(f)
    PROVE  OrdersInv'
<1>1. placements[f] \in Placement /\ placements[f] # Idle /\ placements[f].at = "publish"
  BY UnderWay DEF Orders!PublishOrder
<1>2. /\ placements[f].order \in Orders!OrderData
      /\ placements[f].order.signer = placements[f].order.trader
  BY <1>1 DEF Placement, OrdersInv, CheckedIsSigned
<1>3. gossip' \subseteq gossip \cup {placements[f].order} /\ broadcast' = broadcast
  BY DEF Orders!PublishOrder
<1>4. placements' = [placements EXCEPT ![f] = Idle]
  BY DEF Orders!PublishOrder, Orders!Place
<1>5. UNCHANGED <<Orders!walletVars, Orders!cancelVars, lists, listCache, fetching, nodeOrders,
                  nodeOpen, lastId>>
  BY DEF Orders!PublishOrder, Orders!nodeVars
<1>6. PlacementsTyped'
  BY <1>4, PlaceTyped
<1>7. BroadcastTyped'
  BY <1>2, <1>3 DEF OrdersInv, BroadcastTyped
<1>8. ListsTyped'
  <2>1. reload' \in BOOLEAN
    BY DEF OrdersInv, ListsTyped, Orders!PublishOrder
  <2> QED BY <1>5, <2>1 DEF OrdersInv, ListsTyped
<1>9. CheckedIsSigned'
  <2>1. \A g \in Forms :
           placements'[g] # Idle /\ placements'[g].at \in {"post", "publish"}
              => placements'[g].order.signer = placements'[g].order.trader
    BY <1>4, PlaceChecked
  <2>2. \A o \in gossip' : o.signer = o.trader
    BY <1>2, <1>3 DEF OrdersInv, CheckedIsSigned
  <2> QED BY <1>5, <2>1, <2>2 DEF OrdersInv, CheckedIsSigned
<1> QED BY <1>5, <1>6, <1>7, <1>8, <1>9, OrdersFrames DEF OrdersInv

-----------------------------------------------------------------------------
(* The cancellations: they send nothing that is an order.                    *)
LEMMA CancelKeeps ==
    ASSUME OrdersInv, Orders!HandleCancel \/ \E c \in cancels : Orders!ContinueCancel(c)
    PROVE  OrdersInv'
<1>1. /\ cancels \subseteq Cancellation /\ cancelLoading \in Orders!Ids \cup {Orders!None}
      /\ account \in Accounts /\ walletAccount \in Accounts
      /\ lists \in [Orders!Listed -> SUBSET Orders!Ids] /\ reload \in BOOLEAN
  BY DEF OrdersInv, CancelsTyped, WalletTyped, ListsTyped
<1>2. CASE Orders!HandleCancel
  <2>1. PICK i \in lists.mine \ {cancelLoading} :
          /\ cancels' = cancels \cup {[id |-> i, of |-> account, signer |-> account, node |-> 1,
                                       at |-> "signer"]}
          /\ cancelLoading' = i
    BY <1>2 DEF Orders!HandleCancel
  <2>2. i \in Orders!Ids
    BY <1>1, <2>1 DEF Orders!Listed
  <2>3. CancelsTyped'
    BY <1>1, <2>1, <2>2, OrderPageConstants DEF CancelsTyped, Cancellation
  <2>4. UNCHANGED <<Orders!walletVars, placements, Orders!listVars, broadcast, gossip, nodeOrders,
                    nodeOpen, lastId>>
    BY <1>2 DEF Orders!HandleCancel, Orders!nodeVars
  <2> QED BY <2>3, <2>4, OrdersFrames DEF OrdersInv
<1>3. ASSUME NEW c \in cancels, Orders!CancelSigner(c) \/ Orders!SignCancelOrder(c)
      PROVE  OrdersInv'
  <2>1. CancelsTyped'
    BY <1>1, <1>3
    DEF CancelsTyped, Cancellation, Orders!CancelSigner, Orders!SignCancelOrder, Orders!Cancel
  <2>2. UNCHANGED <<Orders!walletVars, placements, Orders!listVars, broadcast, gossip, nodeOrders,
                    nodeOpen, lastId>>
    BY <1>3 DEF Orders!CancelSigner, Orders!SignCancelOrder, Orders!nodeVars
  <2> QED BY <2>1, <2>2, OrdersFrames DEF OrdersInv
<1>4. ASSUME NEW c \in cancels, Orders!CancelFails(c) PROVE OrdersInv'
  <2>1. CancelsTyped'
    BY <1>1, <1>4 DEF CancelsTyped, Orders!CancelFails, Orders!CancelEnds
  <2>2. UNCHANGED <<Orders!walletVars, placements, Orders!listVars, broadcast, gossip, nodeOrders,
                    nodeOpen, lastId>>
    BY <1>4 DEF Orders!CancelFails, Orders!nodeVars
  <2> QED BY <2>1, <2>2, OrdersFrames DEF OrdersInv
<1>5. ASSUME NEW c \in cancels, Orders!PostCancel(c) PROVE OrdersInv'
  <2>1. CancelsTyped'
    <3>1. CASE Orders!CancelEnds(c)
      BY <1>1, <3>1 DEF CancelsTyped, Orders!CancelEnds
    <3>2. CASE /\ c.node < NodeCount /\ Orders!Cancel(c, [c EXCEPT !.node = c.node + 1])
               /\ UNCHANGED cancelLoading
      <4>1. c.node + 1 \in Orders!Nodes
        BY <1>1, <3>2, OrderPageConstants DEF Cancellation, Orders!Nodes
      <4>2. [c EXCEPT !.node = c.node + 1] \in Cancellation
        BY <1>1, <4>1 DEF Cancellation
      <4> QED BY <1>1, <3>2, <4>2 DEF CancelsTyped, Orders!Cancel
    <3> QED BY <1>5, <3>1, <3>2 DEF Orders!PostCancel
  <2>2. NodesTyped'
    <3>1. nodeOrders' = nodeOrders /\ lastId' = lastId
      BY <1>5 DEF Orders!PostCancel
    <3>2. /\ nodeOpen' \in [Orders!Nodes -> SUBSET Orders!Ids]
          /\ \A n \in Orders!Nodes : nodeOpen'[n] \subseteq nodeOpen[n]
      BY <1>5 DEF Orders!PostCancel, OrdersInv, NodesTyped
    <3> QED BY <3>1, <3>2 DEF OrdersInv, NodesTyped
  <2>3. ListsTyped'
    BY <1>5 DEF Orders!PostCancel, OrdersInv, ListsTyped
  <2>4. UNCHANGED <<Orders!walletVars, placements, broadcast, gossip, nodeOrders>>
    BY <1>5 DEF Orders!PostCancel
  <2> QED BY <2>1, <2>2, <2>3, <2>4, OrdersFrames DEF OrdersInv
<1> QED BY <1>2, <1>3, <1>4, <1>5 DEF Orders!ContinueCancel

-----------------------------------------------------------------------------
LEMMA StepKeepsOrdersInv ==
    ASSUME OrdersInv, [Orders!Next]_(Orders!vars)
    PROVE  OrdersInv'
<1>1. CASE UNCHANGED Orders!vars
  <2>1. UNCHANGED <<Orders!walletVars, placements, Orders!cancelVars, Orders!listVars, broadcast,
                    gossip, nodeOrders, nodeOpen, lastId>>
    BY <1>1 DEF Orders!vars, Orders!nodeVars
  <2> QED BY <2>1, OrdersFrames DEF OrdersInv
<1>2. CASE Orders!HandlePlaceOrder \/ Orders!WidgetPlaceOrder \/ Orders!HandleSubmit
  <2>1. \E f \in Forms : Orders!StartPlacing(f)
    BY <1>2 DEF Orders!HandlePlaceOrder, Orders!WidgetPlaceOrder, Orders!HandleSubmit,
                Orders!SectionButton, Orders!WidgetButton, Orders!FormButton
  <2> QED BY <2>1, StartPlacingKeeps
<1>3. ASSUME NEW f \in Forms, Orders!ContinuePlacing(f) PROVE OrdersInv'
  BY <1>3, SigningKeeps, NodePostKeeps, PublishKeeps DEF Orders!ContinuePlacing
<1>4. CASE Orders!SwitchWallet \/ Orders!AccountsChanged \/ Orders!OnlineStatus
  BY <1>4, WalletSteps
<1>5. CASE Orders!NodesMatch
  BY <1>5, NodesMatchKeeps
<1>6. CASE \/ Orders!Load \/ Orders!CacheExpires \/ Orders!OrderbookUpdate
           \/ \E l \in Orders!Listed, a \in Accounts : Orders!ContinueList(l, a)
  BY <1>6, ListSteps
<1>7. CASE Orders!StartBroadcast \/ Orders!OrderHeard
  BY <1>7, BroadcastSteps
<1>8. CASE Orders!HandleCancel \/ \E c \in cancels : Orders!ContinueCancel(c)
  BY <1>8, CancelKeeps
<1> QED BY <1>1, <1>2, <1>3, <1>4, <1>5, <1>6, <1>7, <1>8 DEF Orders!Next

(* The page within the application.                                          *)
LEMMA StepOfOrders == [Next]_vars => [Orders!Next]_(Orders!vars)
BY DEF Next, vars, orderVars, Orders!vars, Orders!walletVars, Orders!cancelVars, Orders!listVars,
       Orders!nodeVars, BesideBridge, BesideGovernance, BesideVaultTabs, BesideClaims, BesideRelay,
       BesideP2P

LEMMA OrdersInvariant == Spec => []OrdersInv
<1>1. Init => OrdersInv
  BY OrdersInitially DEF Init
<1>2. OrdersInv /\ [Next]_vars => OrdersInv'
  BY StepOfOrders, StepKeepsOrdersInv
<1> QED BY <1>1, <1>2, PTL DEF Spec

(* An order that left the page, to a node or to the other peers, was signed  *)
(* by the account it names, whatever the wallet did since the click          *)
(* (OrderBookSection.tsx handlePlaceOrder).                                  *)
THEOREM OrdersLeaveSigned == Spec => []OnlySignedLeave
<1>1. OrdersInv => OnlySignedLeave
  BY DEF OrdersInv, CheckedIsSigned, OnlySignedLeave, Orders!OnlySignedLeave
<1> QED BY <1>1, OrdersInvariant, PTL


-----------------------------------------------------------------------------
(* The claims: what the contracts have paid stays within what is due, and    *)
(* what the cards have under way has its types.                              *)
ReadEntry ==
    [at : {"idle", "asked", "told"}, of : Claims!Claimants, items : SUBSET Claims!Items]
ListEntry == [known : BOOLEAN, items : SUBSET Claims!Items]

(* All that ever came in as fees fits a word, so that a difference that      *)
(* wraps is more than the contract has. What is due now is within what was   *)
(* due at most: without it a claim could not be bounded by the history.      *)
FeesDue ==
    /\ recipients \in Lists /\ feePot \in Nat /\ feePot < Word
    /\ feeClaimed \in [Claims!Claimants -> Nat] /\ feeDue \in [Claims!Claimants -> Nat]
    /\ \A a \in Claims!Claimants : feeClaimed[a] <= feeDue[a]
    /\ \A a \in Claims!Claimants : Claims!FeeShares(feePot, recipients)[a] <= feeDue[a]
    /\ Claims!Paid(feeClaimed) <= feePot
RewardsDue ==
    /\ score \in [Claims!Claimants -> Nat] /\ rewardPot \in Nat
    /\ rewardClaimed \in [Claims!Claimants -> Nat] /\ rewardDue \in [Claims!Claimants -> Nat]
    /\ \A a \in Claims!Claimants : rewardClaimed[a] <= rewardDue[a]
    /\ \A a \in Claims!Claimants : Claims!RewardShares(rewardPot, score)[a] <= rewardDue[a]
AirdropOnce ==
    /\ airdrop \in [claimed : BOOLEAN, sent : Nat]
    /\ airdrop.sent = (IF airdrop.claimed THEN 1 ELSE 0)
CallsCounted == contractCalls \in 0 .. MaxCalls

(* A card that reads for a claim has that claim under way, and a claim that  *)
(* is mined is read for.                                                     *)
CardClaimSound(claim, read) ==
    /\ claim # Idle => claim \in Claims!Claim /\ claim.items # <<>>
    /\ read.at # "idle" => claim # Idle
    /\ claim # Idle => ((claim.at = "read") <=> (read.at # "idle"))
CardsTyped ==
    /\ listed \in [Claims!Cards -> ListEntry] /\ cardLoading \in [Claims!Cards -> BOOLEAN]
    /\ cardRead \in [Claims!Cards \X Claims!ReadBy -> ReadEntry]
    /\ DOMAIN cardClaim = Claims!Cards
    /\ \A c \in Claims!Cards : CardClaimSound(cardClaim[c], cardRead[<<c, "claim">>])
    /\ boardQuery \in Claims!Claimants /\ boardError \in BOOLEAN
AirCardTyped ==
    airCard \in [claimed : {"unknown", "yes", "no"}, checking : BOOLEAN, claiming : BOOLEAN]

ClaimsInv == FeesDue /\ RewardsDue /\ AirdropOnce /\ CallsCounted /\ CardsTyped /\ AirCardTyped

-----------------------------------------------------------------------------
LEMMA ClaimsAssumed == Claims!RewardAssumption
  BY Zenon, WebAppAssumption DEF WebAppAssumption

LEMMA ClaimsConstants ==
    /\ FirstList \in Lists /\ Me # Peer /\ Idle \notin Claims!Claim
    /\ Scores \subseteq Nat /\ FirstScore \in [Claims!Claimants -> Nat]
    /\ ReserveBps \in 0 .. 5000 /\ FeeIn \in Nat /\ RewardIn \in Nat /\ OtherPeriods \in Nat
    /\ Word \in Nat \ {0} /\ MaxCalls \in Nat
    /\ \A list \in Lists : list \in [Claims!Claimants -> Nat]
    /\ \A list \in Lists : Claims!TotalBps(list) \in Nat \ {0}
<1>1. FirstList \in Lists /\ Me # Peer /\ Idle \notin Claims!Claim
  BY ClaimsAssumed DEF Claims!RewardAssumption
<1>2. Scores \subseteq Nat /\ {FeeIn, RewardIn, OtherPeriods} \subseteq Nat
  BY ClaimsAssumed DEF Claims!RewardAssumption
<1>3. FeeIn \in Nat /\ RewardIn \in Nat /\ OtherPeriods \in Nat
  BY <1>2
<1>4. Word \in Nat \ {0} /\ MaxCalls \in Nat
      /\ FirstScore \in [Claims!Claimants -> Nat] /\ ReserveBps \in 0 .. 5000
  BY ClaimsAssumed DEF Claims!RewardAssumption
<1>5. \A list \in Lists :
         list \in [Claims!Claimants -> Nat] /\ Claims!TotalBps(list) \in 1 .. 10000
  BY ClaimsAssumed DEF Claims!RewardAssumption
<1>6. \A list \in Lists : Claims!TotalBps(list) \in Nat \ {0}
  <2> SUFFICES ASSUME NEW list \in Lists PROVE Claims!TotalBps(list) \in Nat \ {0}
    OBVIOUS
  <2>1. Claims!TotalBps(list) \in 1 .. 10000
    BY <1>5
  <2>2. PICK n : n = Claims!TotalBps(list)
    OBVIOUS
  <2>3. n \in 1 .. 10000
    BY <2>1, <2>2
  <2>4. n \in Nat \ {0}
    BY <2>3
  <2> QED BY <2>2, <2>4
<1> QED BY <1>1, <1>2, <1>3, <1>4, <1>5, <1>6

LEMMA Claiming == Claims!Claimants = {Me, Peer}
  BY DEF Claims!Claimants

LEMMA QuotientGrows ==
    ASSUME NEW p \in Nat, NEW q \in Nat, p <= q, NEW d \in Nat \ {0}
    PROVE  p \div d \in Nat /\ p \div d <= q \div d
OBVIOUS

LEMMA NothingShared ==
    ASSUME NEW a \in Nat, NEW d \in Nat \ {0}
    PROVE  (0 * a) \div d = 0
OBVIOUS

LEMMA WordBelow ==
    ASSUME NEW w \in Nat \ {0}, NEW x \in Nat
    PROVE  x % w \in Nat /\ x % w < w /\ x % w <= x
OBVIOUS

LEMMA WrapsDown ==
    ASSUME NEW w \in Nat \ {0}, NEW x \in Nat, NEW y \in Nat, x < w, y < w
    PROVE  (x - y) % w = IF x >= y THEN x - y ELSE w + x - y
OBVIOUS

(* The shares of a list, and of scores, are numbers.                         *)
LEMMA FeeSharesTyped ==
    ASSUME NEW list \in Lists, NEW p \in Nat
    PROVE  Claims!FeeShares(p, list) \in [Claims!Claimants -> Nat]
<1>1. \A a \in Claims!Claimants : (p * list[a]) \div Claims!TotalBps(list) \in Nat
  <2> TAKE a \in Claims!Claimants
  <2>1. list[a] \in Nat /\ Claims!TotalBps(list) \in Nat \ {0}
    BY ClaimsConstants
  <2>2. p * list[a] \in Nat
    BY <2>1
  <2> QED BY <2>1, <2>2, QuotientGrows
<1> QED BY <1>1 DEF Claims!FeeShares

LEMMA RewardSharesTyped ==
    ASSUME NEW p \in Nat, NEW s \in [Claims!Claimants -> Nat]
    PROVE  Claims!RewardShares(p, s) \in [Claims!Claimants -> Nat]
<1> DEFINE held == p * (10000 - ReserveBps)
           d == held \div 10000
           total == s[Me] + s[Peer]
<1>1. d \in Nat
  <2>1. 10000 - ReserveBps \in Nat
    BY ClaimsConstants
  <2>2. held \in Nat
    BY <2>1
  <2> HIDE DEF held
  <2> QED BY <2>2
<1>2. s[Me] \in Nat /\ s[Peer] \in Nat
  BY Claiming
<1> HIDE DEF d
<1>3. ASSUME NEW a \in Claims!Claimants, s[a] # 0 PROVE (d * s[a]) \div total \in Nat
  <2>1. s[a] \in Nat /\ d * s[a] \in Nat
    BY <1>1
  <2>2. total \in Nat \ {0}
    BY <1>2, <1>3, <2>1, Claiming
  <2> HIDE DEF total
  <2> QED BY <2>1, <2>2, QuotientGrows
<1>4. Claims!RewardShares(p, s)
         = [a \in Claims!Claimants |-> IF s[a] = 0 THEN 0 ELSE (d * s[a]) \div total]
  BY DEF Claims!RewardShares, d
<1> HIDE DEF total
<1> QED BY <1>3, <1>4

(* What was due at most, raised to new shares, bounds these and what it did  *)
(* before.                                                                   *)
LEMMA RaisedBounds ==
    ASSUME NEW due \in [Claims!Claimants -> Nat], NEW share \in [Claims!Claimants -> Nat]
    PROVE  /\ Claims!Raised(due, share) \in [Claims!Claimants -> Nat]
           /\ \A a \in Claims!Claimants : /\ due[a] <= Claims!Raised(due, share)[a]
                                          /\ share[a] <= Claims!Raised(due, share)[a]
BY DEF Claims!Raised

LEMMA StillWithin ==
    ASSUME NEW claimed \in [Claims!Claimants -> Nat], NEW due \in [Claims!Claimants -> Nat],
           NEW raised \in [Claims!Claimants -> Nat],
           \A a \in Claims!Claimants : claimed[a] <= due[a],
           \A a \in Claims!Claimants : due[a] <= raised[a]
    PROVE  \A a \in Claims!Claimants : claimed[a] <= raised[a]
OBVIOUS

-----------------------------------------------------------------------------
(* FeeDistributor.sol claim: what it pays, it can pay only up to the share.  *)
LEMMA FeePaid ==
    ASSUME FeesDue, NEW a \in Claims!Claimants,
           Claims!FeeClaimable(a) > 0,
           Claims!FeeClaimable(a) <= feePot - Claims!Paid(feeClaimed)
    PROVE  /\ Claims!FeeClaimable(a) \in Nat
           /\ feeClaimed[a] + Claims!FeeClaimable(a) <= feeDue[a]
<1> DEFINE r == recipients[a]
           t == Claims!TotalBps(recipients)
           x == (feePot * r) % Word
           share == x \div t
           amt == Claims!FeeClaimable(a)
<1>1. r \in Nat /\ t \in Nat \ {0} /\ feePot \in Nat /\ feePot < Word /\ Word \in Nat \ {0}
  BY ClaimsConstants DEF FeesDue
<1>2. feePot * r \in Nat
  BY <1>1
<1>3. x \in Nat /\ x <= feePot * r /\ x < Word
  <2> HIDE DEF r, t
  <2> QED BY <1>1, <1>2, WordBelow
<1>4. share \in Nat /\ share <= feeDue[a] /\ share < Word
  <2> HIDE DEF x
  <2>1. share \in Nat /\ share <= (feePot * r) \div t
    <3> HIDE DEF r, t
    <3> QED BY <1>1, <1>2, <1>3, QuotientGrows
  <2>2. share <= x
    BY <1>1, <1>3
  <2>3. (feePot * r) \div t <= feeDue[a] /\ feeDue[a] \in Nat
    BY DEF FeesDue, Claims!FeeShares
  <2>5. (feePot * r) \div t \in Nat
    <3> HIDE DEF r, t
    <3> QED BY <1>1, <1>2, QuotientGrows
  <2> HIDE DEF share, r, t
  <2>4. share < Word
    BY <1>1, <1>3, <2>1, <2>2
  <2>6. share <= feeDue[a]
    BY <2>1, <2>3, <2>5
  <2> QED BY <2>1, <2>4, <2>6
<1>5. r # 0 /\ amt = (share - feeClaimed[a]) % Word
  BY DEF Claims!FeeClaimable
<1>6. feeClaimed[a] \in Nat /\ feeClaimed[a] <= Claims!Paid(feeClaimed)
  BY Claiming DEF FeesDue, Claims!Paid
<1>7. Claims!Paid(feeClaimed) \in Nat /\ Claims!Paid(feeClaimed) <= feePot
  BY Claiming DEF FeesDue, Claims!Paid
<1> DEFINE c == feeClaimed[a]
           paid == Claims!Paid(feeClaimed)
<1> HIDE DEF share, amt, x, r, t, c, paid
<1>8. c < Word
  BY <1>1, <1>6, <1>7 DEF c, paid
<1>9. amt = IF share >= c THEN share - c ELSE Word + share - c
  BY <1>1, <1>4, <1>5, <1>6, <1>8, WrapsDown DEF c
<1>10. amt <= feePot - paid
  BY DEF amt, paid
<1>11. share >= c
  BY <1>1, <1>4, <1>6, <1>7, <1>9, <1>10 DEF c, paid
<1>12. amt \in Nat /\ c + amt = share
  BY <1>4, <1>6, <1>9, <1>11 DEF c
<1> QED BY <1>4, <1>12 DEF amt, c

LEMMA ClaimFeeKeeps ==
    ASSUME ClaimsInv, NEW a \in Claims!Claimants, Claims!ClaimFee(a)
    PROVE  FeesDue' /\ RewardsDue' /\ AirdropOnce' /\ CallsCounted'
<1> DEFINE amt == Claims!FeeClaimable(a)
<1>1. /\ amt > 0 /\ amt <= feePot - Claims!Paid(feeClaimed)
      /\ feeClaimed' = [feeClaimed EXCEPT ![a] = feeClaimed[a] + amt]
      /\ UNCHANGED <<recipients, feePot, feeDue, score, rewardPot, rewardClaimed, rewardDue,
                     airdrop>>
  BY DEF Claims!ClaimFee, Claims!rewardVars
<1>2. FeesDue
  BY DEF ClaimsInv
<1>3. amt \in Nat /\ feeClaimed[a] + amt <= feeDue[a]
  BY <1>1, <1>2, FeePaid
<1> HIDE DEF amt
<1>4. feeClaimed' \in [Claims!Claimants -> Nat]
  BY <1>1, <1>2, <1>3 DEF FeesDue
<1>5. \A b \in Claims!Claimants : feeClaimed'[b] <= feeDue[b]
  BY <1>1, <1>2, <1>3 DEF FeesDue
<1>6. (\A b \in Claims!Claimants : Claims!FeeShares(feePot, recipients)[b] <= feeDue[b])'
  BY <1>1, <1>2 DEF FeesDue, Claims!FeeShares, Claims!TotalBps
<1>7. Claims!Paid(feeClaimed)' <= feePot'
  <2>1. feeClaimed \in [{Me, Peer} -> Nat] /\ a \in {Me, Peer} /\ Me # Peer /\ feePot \in Nat
    BY <1>2, Claiming, ClaimsConstants DEF FeesDue
  <2>2. feeClaimed'[Me] + feeClaimed'[Peer] = feeClaimed[Me] + feeClaimed[Peer] + amt
    BY <1>1, <1>3, <2>1
  <2> QED BY <1>1, <1>3, <2>1, <2>2 DEF Claims!Paid
<1>8. FeesDue'
  BY <1>1, <1>2, <1>4, <1>5, <1>6, <1>7 DEF FeesDue
<1>9. RewardsDue' /\ AirdropOnce'
  BY <1>1 DEF ClaimsInv, RewardsDue, AirdropOnce, Claims!RewardShares
<1>10. CallsCounted'
  BY ClaimsConstants DEF ClaimsInv, CallsCounted, Claims!ClaimFee, Claims!Transaction
<1> QED BY <1>8, <1>9, <1>10

(* ContributorReward.sol claimReward: no more than the share by scores.      *)
LEMMA ClaimRewardKeeps ==
    ASSUME ClaimsInv, NEW a \in Claims!Claimants, Claims!ClaimReward(a)
    PROVE  FeesDue' /\ RewardsDue' /\ AirdropOnce' /\ CallsCounted'
<1> DEFINE share == Claims!RewardShares(rewardPot, score)[a]
           amt == Claims!RewardAmount(a)
<1>1. /\ Claims!RewardClaimable(a) > 0
      /\ rewardClaimed' = [rewardClaimed EXCEPT ![a] = rewardClaimed[a] + amt]
      /\ UNCHANGED <<recipients, feePot, feeClaimed, feeDue, score, rewardPot, rewardDue,
                     airdrop>>
  BY DEF Claims!ClaimReward, Claims!feeVars
<1>2. RewardsDue
  BY DEF ClaimsInv
<1>3. /\ rewardPot \in Nat /\ rewardClaimed[a] \in Nat /\ rewardDue[a] \in Nat
      /\ share <= rewardDue[a]
  BY <1>2 DEF RewardsDue
<1>4. share \in Nat
  <2>1. Claims!RewardShares(rewardPot, score) \in [Claims!Claimants -> Nat]
    BY <1>2, RewardSharesTyped DEF RewardsDue
  <2> QED BY <2>1
<1>5. amt \in Nat /\ amt <= share - rewardClaimed[a]
  <2>1. Claims!RewardClaimable(a) = share - rewardClaimed[a]
    BY DEF Claims!RewardClaimable, Claims!RewardShare
  <2>2. rewardPot \div 10 \in Nat
    BY <1>3
  <2> HIDE DEF share
  <2> QED BY <1>1, <1>3, <1>4, <2>1, <2>2 DEF Claims!RewardAmount
<1> HIDE DEF share, amt
<1>6. rewardClaimed[a] + amt <= rewardDue[a]
  BY <1>3, <1>4, <1>5
<1>7. /\ rewardClaimed' \in [Claims!Claimants -> Nat]
      /\ \A b \in Claims!Claimants : rewardClaimed'[b] <= rewardDue[b]
  BY <1>1, <1>2, <1>5, <1>6 DEF RewardsDue
<1>8. (\A b \in Claims!Claimants : Claims!RewardShares(rewardPot, score)[b] <= rewardDue[b])'
  BY <1>1, <1>2 DEF RewardsDue, Claims!RewardShares
<1>9. RewardsDue'
  BY <1>1, <1>2, <1>7, <1>8 DEF RewardsDue
<1>10. FeesDue' /\ AirdropOnce'
  BY <1>1
  DEF ClaimsInv, FeesDue, AirdropOnce, Claims!FeeShares, Claims!TotalBps, Claims!Paid
<1>11. CallsCounted'
  BY ClaimsConstants DEF ClaimsInv, CallsCounted, Claims!ClaimReward, Claims!Transaction
<1> QED BY <1>9, <1>10, <1>11

(* What is claimed and due stays what it was.                                *)
LEMMA FeesStay ==
    ASSUME FeesDue, UNCHANGED <<recipients, feePot, feeClaimed, feeDue>>
    PROVE  FeesDue'
BY DEF FeesDue, Claims!FeeShares, Claims!TotalBps, Claims!Paid

LEMMA RewardsStay ==
    ASSUME RewardsDue, UNCHANGED <<score, rewardPot, rewardClaimed, rewardDue>>
    PROVE  RewardsDue'
BY DEF RewardsDue, Claims!RewardShares

LEMMA ClaimAirdropKeeps ==
    ASSUME ClaimsInv, Claims!ClaimAirdrop
    PROVE  FeesDue' /\ RewardsDue' /\ AirdropOnce' /\ CallsCounted'
<1>1. ~airdrop.claimed /\ airdrop' = [claimed |-> TRUE, sent |-> airdrop.sent + 1]
  BY DEF Claims!ClaimAirdrop
<1>2. AirdropOnce'
  BY <1>1 DEF ClaimsInv, AirdropOnce
<1>3. UNCHANGED <<recipients, feePot, feeClaimed, feeDue, score, rewardPot, rewardClaimed,
                  rewardDue>>
  BY DEF Claims!ClaimAirdrop, Claims!feeVars, Claims!rewardVars
<1>4. FeesDue' /\ RewardsDue'
  BY <1>3, FeesStay, RewardsStay DEF ClaimsInv
<1>5. CallsCounted'
  BY ClaimsConstants DEF ClaimsInv, CallsCounted, Claims!ClaimAirdrop, Claims!Transaction
<1> QED BY <1>2, <1>4, <1>5

(* New shares are no reason to have been paid too much: what was due at most *)
(* is raised with them.                                                      *)
LEMMA FeesRaised ==
    ASSUME FeesDue, NEW list \in Lists, NEW p \in Nat, p < Word, feePot <= p,
           recipients' = list, feePot' = p, feeClaimed' = feeClaimed,
           feeDue' = Claims!Raised(feeDue, Claims!FeeShares(p, list))
    PROVE  FeesDue'
<1>1. PICK share : share = Claims!FeeShares(p, list)
  OBVIOUS
<1>2. share \in [Claims!Claimants -> Nat] /\ feeDue \in [Claims!Claimants -> Nat]
  BY <1>1, FeeSharesTyped DEF FeesDue
<1>3. /\ feeDue' \in [Claims!Claimants -> Nat]
      /\ \A a \in Claims!Claimants : feeDue[a] <= feeDue'[a] /\ share[a] <= feeDue'[a]
  BY <1>1, <1>2, RaisedBounds
<1>4. \A a \in Claims!Claimants : feeClaimed[a] <= feeDue'[a]
  BY <1>2, <1>3, StillWithin DEF FeesDue
<1>5. Claims!FeeShares(feePot, recipients)' = share
  BY <1>1 DEF Claims!FeeShares, Claims!TotalBps
<1>6. Claims!Paid(feeClaimed) \in Nat
  BY Claiming DEF FeesDue, Claims!Paid
<1>7. Claims!Paid(feeClaimed)' <= feePot'
  BY <1>6 DEF FeesDue, Claims!Paid
<1>8. (\A a \in Claims!Claimants : Claims!FeeShares(feePot, recipients)[a] <= feeDue[a])'
  BY <1>3, <1>5
<1> QED BY <1>3, <1>4, <1>7, <1>8 DEF FeesDue

LEMMA RewardsRaised ==
    ASSUME RewardsDue, NEW s \in [Claims!Claimants -> Nat], NEW p \in Nat,
           score' = s, rewardPot' = p, rewardClaimed' = rewardClaimed,
           rewardDue' = Claims!Raised(rewardDue, Claims!RewardShares(p, s))
    PROVE  RewardsDue'
<1>1. PICK share : share = Claims!RewardShares(p, s)
  OBVIOUS
<1>2. share \in [Claims!Claimants -> Nat] /\ rewardDue \in [Claims!Claimants -> Nat]
  BY <1>1, RewardSharesTyped DEF RewardsDue
<1>3. /\ rewardDue' \in [Claims!Claimants -> Nat]
      /\ \A a \in Claims!Claimants : rewardDue[a] <= rewardDue'[a] /\ share[a] <= rewardDue'[a]
  BY <1>1, <1>2, RaisedBounds
<1>4. \A a \in Claims!Claimants : rewardClaimed[a] <= rewardDue'[a]
  BY <1>2, <1>3, StillWithin DEF RewardsDue
<1>5. Claims!RewardShares(rewardPot, score)' = share
  BY <1>1 DEF Claims!RewardShares
<1>6. (\A a \in Claims!Claimants : Claims!RewardShares(rewardPot, score)[a] <= rewardDue[a])'
  BY <1>3, <1>5
<1> QED BY <1>3, <1>4, <1>6 DEF RewardsDue

(* The owners and the others who pay in.                                     *)
LEMMA OwnersKeep ==
    ASSUME ClaimsInv,
           \/ Claims!ReceiveFee \/ Claims!SetPeriodReward
           \/ \E list \in Lists : Claims!SetRecipients(list)
           \/ \E a \in Claims!Claimants, v \in Scores : Claims!SubmitProof(a, v)
    PROVE  FeesDue' /\ RewardsDue' /\ AirdropOnce' /\ CallsCounted'
<1>1. CallsCounted' /\ airdrop' = airdrop
  <2>1. Claims!Transaction /\ airdrop' = airdrop
    BY DEF Claims!ReceiveFee, Claims!SetPeriodReward, Claims!SetRecipients, Claims!SubmitProof
  <2>2. contractCalls \in 0 .. MaxCalls /\ MaxCalls \in Nat
    BY ClaimsConstants DEF ClaimsInv, CallsCounted
  <2> QED BY <2>1, <2>2 DEF CallsCounted, Claims!Transaction
<1>2. AirdropOnce'
  BY <1>1 DEF ClaimsInv, AirdropOnce
<1>3. FeesDue /\ RewardsDue
  BY DEF ClaimsInv
<1>4. CASE Claims!ReceiveFee
  <2>1. /\ feePot' = feePot + FeeIn /\ feePot + FeeIn < Word
        /\ feeDue' = Claims!Raised(feeDue, Claims!FeeShares(feePot + FeeIn, recipients))
        /\ UNCHANGED <<recipients, feeClaimed, score, rewardPot, rewardClaimed, rewardDue>>
    BY <1>4 DEF Claims!ReceiveFee, Claims!rewardVars
  <2>2. feePot + FeeIn \in Nat /\ feePot <= feePot + FeeIn /\ recipients \in Lists
    BY <1>3, ClaimsConstants DEF FeesDue
  <2>3. FeesDue'
    BY <1>3, <2>1, <2>2, FeesRaised
  <2> QED BY <1>1, <1>2, <1>3, <2>1, <2>3, RewardsStay
<1>5. CASE Claims!SetPeriodReward
  <2>1. /\ rewardPot' = rewardPot + RewardIn
        /\ rewardDue' = Claims!Raised(rewardDue, Claims!RewardShares(rewardPot + RewardIn, score))
        /\ UNCHANGED <<recipients, feePot, feeClaimed, feeDue, score, rewardClaimed>>
    BY <1>5 DEF Claims!SetPeriodReward, Claims!feeVars
  <2>2. rewardPot + RewardIn \in Nat /\ score \in [Claims!Claimants -> Nat]
    BY <1>3, ClaimsConstants DEF RewardsDue
  <2>3. RewardsDue'
    BY <1>3, <2>1, <2>2, RewardsRaised
  <2> QED BY <1>1, <1>2, <1>3, <2>1, <2>3, FeesStay
<1>6. ASSUME NEW list \in Lists, Claims!SetRecipients(list)
      PROVE  FeesDue' /\ RewardsDue'
  <2>1. /\ recipients' = list /\ feeDue' = Claims!Raised(feeDue, Claims!FeeShares(feePot, list))
        /\ UNCHANGED <<feePot, feeClaimed, score, rewardPot, rewardClaimed, rewardDue>>
    BY <1>6 DEF Claims!SetRecipients, Claims!rewardVars
  <2>2. feePot \in Nat /\ feePot < Word /\ feePot <= feePot
    BY <1>3 DEF FeesDue
  <2>3. FeesDue'
    BY <1>3, <2>1, <2>2, FeesRaised
  <2> QED BY <1>3, <2>1, <2>3, RewardsStay
<1>7. ASSUME NEW a \in Claims!Claimants, NEW v \in Scores, Claims!SubmitProof(a, v)
      PROVE  FeesDue' /\ RewardsDue'
  <2>1. PICK s : s = [score EXCEPT ![a] = v]
    OBVIOUS
  <2>2. /\ score' = s
        /\ rewardDue' = Claims!Raised(rewardDue, Claims!RewardShares(rewardPot, s))
        /\ UNCHANGED <<recipients, feePot, feeClaimed, feeDue, rewardPot, rewardClaimed>>
    BY <1>7, <2>1 DEF Claims!SubmitProof, Claims!feeVars
  <2>3. v \in Nat
    BY ClaimsConstants
  <2>4. s \in [Claims!Claimants -> Nat] /\ rewardPot \in Nat
    BY <1>3, <2>1, <2>3 DEF RewardsDue
  <2>5. RewardsDue'
    BY <1>3, <2>2, <2>4, RewardsRaised
  <2> QED BY <1>3, <2>2, <2>5, FeesStay
<1> QED BY <1>1, <1>2, <1>4, <1>5, <1>6, <1>7


-----------------------------------------------------------------------------
(* The cards.                                                                *)
LEMMA CardsFrames ==
    ASSUME ClaimsInv
    PROVE  /\ UNCHANGED Claims!contractVars =>
                 FeesDue' /\ RewardsDue' /\ AirdropOnce' /\ CallsCounted'
           /\ UNCHANGED Claims!cardVars => CardsTyped'
           /\ UNCHANGED airCard => AirCardTyped'
<1>1. ASSUME UNCHANGED Claims!contractVars
      PROVE  FeesDue' /\ RewardsDue' /\ AirdropOnce' /\ CallsCounted'
  <2>1. UNCHANGED <<recipients, feePot, feeClaimed, feeDue, score, rewardPot, rewardClaimed,
                    rewardDue, airdrop, contractCalls>>
    BY <1>1 DEF Claims!contractVars, Claims!feeVars, Claims!rewardVars
  <2>2. FeesDue' /\ RewardsDue'
    BY <2>1, FeesStay, RewardsStay DEF ClaimsInv
  <2>3. AirdropOnce' /\ CallsCounted'
    BY <2>1 DEF ClaimsInv, AirdropOnce, CallsCounted
  <2> QED BY <2>2, <2>3
<1>2. ASSUME UNCHANGED Claims!cardVars PROVE CardsTyped'
  BY <1>2 DEF ClaimsInv, CardsTyped, Claims!cardVars, Claims!boardVars
<1>3. ASSUME UNCHANGED airCard PROVE AirCardTyped'
  BY <1>3 DEF ClaimsInv, AirCardTyped
<1> QED BY <1>1, <1>2, <1>3

ReadBecomes(c, by, e) == cardRead' = [cardRead EXCEPT ![<<c, by>>] = e]

LEMMA ReadingSet ==
    ASSUME CardsTyped, NEW c \in Claims!Cards, NEW by \in Claims!ReadBy, NEW e \in ReadEntry,
           ReadBecomes(c, by, e)
    PROVE  /\ cardRead' \in [Claims!Cards \X Claims!ReadBy -> ReadEntry]
           /\ \A d \in Claims!Cards :
                 cardRead'[<<d, "claim">>] = IF d = c /\ by = "claim" THEN e
                                             ELSE cardRead[<<d, "claim">>]
<1>1. cardRead \in [Claims!Cards \X Claims!ReadBy -> ReadEntry]
  BY DEF CardsTyped
<1>2. \A d \in Claims!Cards : <<d, "claim">> \in Claims!Cards \X Claims!ReadBy
  BY DEF Claims!ReadBy
<1>3. \A d \in Claims!Cards : <<d, "claim">> = <<c, by>> <=> d = c /\ by = "claim"
  OBVIOUS
<1> QED BY <1>1, <1>2, <1>3 DEF ReadBecomes

LEMMA ReadingOf ==
    ASSUME CardsTyped, NEW c \in Claims!Cards, NEW by \in Claims!ReadBy
    PROVE  cardRead[<<c, by>>] \in ReadEntry
BY DEF CardsTyped

LEMMA ReadingEntries ==
    /\ Claims!NotReading \in ReadEntry /\ Claims!NotReading.at = "idle"
    /\ \A a \in Claims!Claimants : Claims!Asking(a) \in ReadEntry /\ Claims!Asking(a).at = "asked"
<1>1. Claims!NotReading \in ReadEntry /\ Claims!NotReading.at = "idle"
  BY Claiming DEF Claims!NotReading, ReadEntry
<1>2. ASSUME NEW a \in Claims!Claimants
      PROVE  Claims!Asking(a) \in ReadEntry /\ Claims!Asking(a).at = "asked"
  BY DEF Claims!NotReading, Claims!Asking, ReadEntry
<1> QED BY <1>1, <1>2

(* A reading begins.                                                         *)
LEMMA StartReadingTyped ==
    ASSUME CardsTyped, NEW c \in Claims!Cards, NEW by \in Claims!ReadBy,
           NEW a \in Claims!Claimants, Claims!StartReading(c, by, a)
    PROVE  /\ listed' \in [Claims!Cards -> ListEntry] /\ cardLoading' \in [Claims!Cards -> BOOLEAN]
           /\ cardRead' \in [Claims!Cards \X Claims!ReadBy -> ReadEntry]
           /\ boardError' \in BOOLEAN
           /\ \A d \in Claims!Cards :
                 cardRead'[<<d, "claim">>] = IF d = c /\ by = "claim" THEN Claims!Asking(a)
                                             ELSE cardRead[<<d, "claim">>]
<1>1. /\ listed \in [Claims!Cards -> ListEntry] /\ cardLoading \in [Claims!Cards -> BOOLEAN]
      /\ boardError \in BOOLEAN
  BY DEF CardsTyped
<1>2. ReadBecomes(c, by, Claims!Asking(a))
  BY DEF Claims!StartReading, ReadBecomes
<1>3. cardLoading' \in [Claims!Cards -> BOOLEAN]
  BY <1>1 DEF Claims!StartReading
<1>4. listed' \in [Claims!Cards -> ListEntry] /\ boardError' \in BOOLEAN
  <2>1. Claims!Unlisted \in ListEntry
    BY DEF Claims!Unlisted, ListEntry
  <2>2. \/ listed' = [listed EXCEPT !["board"] = Claims!Unlisted] /\ boardError' = FALSE
        \/ UNCHANGED <<listed, boardError>>
    BY DEF Claims!StartReading
  <2> QED BY <1>1, <2>1, <2>2
<1> QED BY <1>2, <1>3, <1>4, ReadingSet, ReadingEntries

LEMMA FetchDataKeeps ==
    ASSUME ClaimsInv, NEW c \in Claims!Cards, Claims!FetchData(c)
    PROVE  ClaimsInv'
<1> DEFINE a == IF c = "board" THEN boardQuery ELSE Me
<1>1. CardsTyped
  BY DEF ClaimsInv
<1>2. a \in Claims!Claimants /\ "page" \in Claims!ReadBy
  BY <1>1, Claiming DEF CardsTyped, Claims!ReadBy
<1>3. /\ Claims!StartReading(c, "page", a)
      /\ UNCHANGED <<Claims!contractVars, cardClaim, boardQuery, airCard>>
  BY DEF Claims!FetchData
<1> HIDE DEF a
<1>4. /\ listed' \in [Claims!Cards -> ListEntry] /\ cardLoading' \in [Claims!Cards -> BOOLEAN]
      /\ cardRead' \in [Claims!Cards \X Claims!ReadBy -> ReadEntry]
      /\ boardError' \in BOOLEAN
      /\ \A d \in Claims!Cards : cardRead'[<<d, "claim">>] = cardRead[<<d, "claim">>]
  BY <1>1, <1>2, <1>3, StartReadingTyped
<1>5. CardsTyped'
  BY <1>1, <1>3, <1>4 DEF CardsTyped
<1> QED BY <1>3, <1>5, CardsFrames DEF ClaimsInv

LEMMA AnswerKeeps ==
    ASSUME ClaimsInv, NEW c \in Claims!Cards, NEW by \in Claims!ReadBy, Claims!Answer(c, by)
    PROVE  ClaimsInv'
<1> DEFINE r == cardRead[<<c, by>>]
           e == [at |-> "told", of |-> r.of, items |-> Claims!Claimable(c, r.of)]
<1>1. CardsTyped
  BY DEF ClaimsInv
<1>2. r \in ReadEntry /\ r.at = "asked" /\ ReadBecomes(c, by, e)
  BY <1>1, ReadingOf DEF Claims!Answer, ReadBecomes
<1>3. e \in ReadEntry /\ e.at = "told"
  <2>1. Claims!Claimable(c, r.of) \subseteq Claims!Items
    BY DEF Claims!Claimable
  <2> QED BY <1>2, <2>1 DEF ReadEntry
<1>4. UNCHANGED <<Claims!contractVars, listed, cardLoading, cardClaim, boardQuery, boardError,
                  airCard>>
  BY DEF Claims!Answer, Claims!boardVars
<1> HIDE DEF e
<1>5. /\ cardRead' \in [Claims!Cards \X Claims!ReadBy -> ReadEntry]
      /\ \A d \in Claims!Cards :
            cardRead'[<<d, "claim">>] =
              IF d = c /\ by = "claim" THEN e ELSE cardRead[<<d, "claim">>]
  BY <1>1, <1>2, <1>3, ReadingSet
<1>6. \A d \in Claims!Cards : CardClaimSound(cardClaim'[d], cardRead'[<<d, "claim">>])
  <2> TAKE d \in Claims!Cards
  <2>1. CardClaimSound(cardClaim[d], cardRead[<<d, "claim">>]) /\ cardClaim'[d] = cardClaim[d]
    BY <1>1, <1>4 DEF CardsTyped
  <2>2. CASE d = c /\ by = "claim"
    <3>1. cardRead'[<<d, "claim">>] = e /\ cardRead[<<d, "claim">>].at = "asked"
      BY <1>2, <1>5, <2>2
    <3> QED BY <1>3, <2>1, <3>1 DEF CardClaimSound
  <2>3. CASE ~(d = c /\ by = "claim")
    BY <1>5, <2>1, <2>3
  <2> QED BY <2>2, <2>3
<1>7. CardsTyped'
  BY <1>1, <1>4, <1>5, <1>6 DEF CardsTyped
<1> QED BY <1>4, <1>7, CardsFrames DEF ClaimsInv

(* The next of several claims, or none.                                      *)
LEMMA NextClaimSound ==
    ASSUME NEW claim \in Claims!Claim, claim.items # <<>>, NEW read, read.at = "idle"
    PROVE  CardClaimSound(IF Len(claim.items) = 1 THEN Idle
                          ELSE [items |-> Tail(claim.items), at |-> "send"], read)
<1>1. CASE Len(claim.items) = 1
  BY <1>1 DEF CardClaimSound
<1>2. CASE Len(claim.items) # 1
  <2> DEFINE rest == [items |-> Tail(claim.items), at |-> "send"]
  <2>1. claim.items \in Seq(Claims!Items)
    BY DEF Claims!Claim
  <2>2. Tail(claim.items) \in Seq(Claims!Items) /\ Len(Tail(claim.items)) = Len(claim.items) - 1
    BY <2>1, HeadTailProperties
  <2>3. Len(claim.items) \in Nat /\ Len(claim.items) # 0
    BY <2>1, EmptySeq, LenProperties
  <2>4. Tail(claim.items) # <<>>
    <3>1. Len(Tail(claim.items)) # 0
      BY <1>2, <2>2, <2>3
    <3>2. Len(<<>>) = 0
      OBVIOUS
    <3> QED BY <3>1, <3>2, Zenon
  <2>5. rest \in Claims!Claim /\ rest.items # <<>> /\ rest.at = "send"
    BY <2>2, <2>4 DEF Claims!Claim
  <2> HIDE DEF rest
  <2>6. CardClaimSound(rest, read)
    BY <2>5 DEF CardClaimSound
  <2> QED BY <1>2, <2>6 DEF rest
<1> QED BY <1>1, <1>2

LEMMA ShowKeeps ==
    ASSUME ClaimsInv, NEW c \in Claims!Cards, NEW by \in Claims!ReadBy,
           Claims!Show(c, by) \/ Claims!FetchFails(c, by)
    PROVE  ClaimsInv'
<1>1. CardsTyped
  BY DEF ClaimsInv
<1>2. Claims!EndReading(c, by) /\ cardRead[<<c, by>>].at # "idle"
  BY DEF Claims!Show, Claims!FetchFails
<1>3. /\ ReadBecomes(c, by, Claims!NotReading)
      /\ UNCHANGED <<Claims!contractVars, boardQuery, airCard>>
  BY <1>2 DEF Claims!EndReading, ReadBecomes
<1>4. cardLoading' \in [Claims!Cards -> BOOLEAN]
  BY <1>1, <1>2 DEF Claims!EndReading, CardsTyped
<1>5. listed' \in [Claims!Cards -> ListEntry] /\ boardError' \in BOOLEAN
  <2>1. cardRead[<<c, by>>].items \subseteq Claims!Items
    BY <1>1, ReadingOf DEF ReadEntry
  <2>2. [known |-> TRUE, items |-> cardRead[<<c, by>>].items] \in ListEntry
    BY <2>1 DEF ListEntry
  <2>3. Claims!Unlisted \in ListEntry
    BY DEF Claims!Unlisted, ListEntry
  <2>4. listed \in [Claims!Cards -> ListEntry] /\ boardError \in BOOLEAN
    BY <1>1 DEF CardsTyped
  <2>5. \/ listed' = [listed EXCEPT ![c] = [known |-> TRUE, items |-> cardRead[<<c, by>>].items]]
        \/ listed' = [listed EXCEPT !["unified"] = Claims!Unlisted]
        \/ listed' = listed
    BY DEF Claims!Show, Claims!FetchFails
  <2>6. boardError' = TRUE \/ boardError' = boardError
    BY DEF Claims!Show, Claims!FetchFails
  <2> QED BY <2>2, <2>3, <2>4, <2>5, <2>6
<1>6. /\ cardRead' \in [Claims!Cards \X Claims!ReadBy -> ReadEntry]
      /\ \A d \in Claims!Cards :
            cardRead'[<<d, "claim">>] = IF d = c /\ by = "claim" THEN Claims!NotReading
                                        ELSE cardRead[<<d, "claim">>]
  BY <1>1, <1>3, ReadingSet, ReadingEntries
<1>7. DOMAIN cardClaim' = Claims!Cards
  BY <1>1, <1>2 DEF Claims!EndReading, Claims!NextClaim, CardsTyped
<1>8. \A d \in Claims!Cards : CardClaimSound(cardClaim'[d], cardRead'[<<d, "claim">>])
  <2> TAKE d \in Claims!Cards
  <2>1. CardClaimSound(cardClaim[d], cardRead[<<d, "claim">>]) /\ DOMAIN cardClaim = Claims!Cards
    BY <1>1 DEF CardsTyped
  <2>2. CASE d = c /\ by = "claim"
    <3> DEFINE claim == cardClaim[c]
    <3>1. claim \in Claims!Claim /\ claim.items # <<>>
      BY <1>2, <2>1, <2>2 DEF CardClaimSound
    <3>2. cardClaim'[d] = IF Len(claim.items) = 1 THEN Idle
                          ELSE [items |-> Tail(claim.items), at |-> "send"]
      BY <1>2, <2>1, <2>2 DEF Claims!EndReading, Claims!NextClaim
    <3>3. cardRead'[<<d, "claim">>].at = "idle"
      BY <1>6, <2>2, ReadingEntries
    <3> HIDE DEF claim
    <3> QED BY <3>1, <3>2, <3>3, NextClaimSound
  <2>3. CASE ~(d = c /\ by = "claim")
    <3>1. cardClaim'[d] = cardClaim[d]
      BY <1>2, <2>1, <2>3 DEF Claims!EndReading, Claims!NextClaim
    <3>2. cardRead'[<<d, "claim">>] = cardRead[<<d, "claim">>]
      BY <1>6, <2>3
    <3> QED BY <2>1, <3>1, <3>2
  <2> QED BY <2>2, <2>3
<1>9. CardsTyped'
  BY <1>1, <1>3, <1>4, <1>5, <1>6, <1>7, <1>8 DEF CardsTyped
<1> QED BY <1>3, <1>9, CardsFrames DEF ClaimsInv

LEMMA QueryKeeps ==
    ASSUME ClaimsInv, NEW a \in Claims!Claimants, Claims!QueryAddress(a)
    PROVE  ClaimsInv'
<1>1. CardsTyped'
  BY DEF ClaimsInv, CardsTyped, Claims!QueryAddress
<1>2. UNCHANGED <<Claims!contractVars, airCard>>
  BY DEF Claims!QueryAddress
<1> QED BY <1>1, <1>2, CardsFrames DEF ClaimsInv

(* A click: claims of what was listed, to be sent.                           *)
LEMMA StartClaimsKeeps ==
    ASSUME ClaimsInv, NEW c \in Claims!Cards, NEW items \in Seq(Claims!Items), items # <<>>,
           Claims!StartClaims(c, items), boardError' \in BOOLEAN
    PROVE  ClaimsInv'
<1> DEFINE x == [items |-> items, at |-> "send"]
<1>1. CardsTyped
  BY DEF ClaimsInv
<1>2. /\ cardClaim[c] = Idle /\ cardClaim' = [cardClaim EXCEPT ![c] = x]
      /\ UNCHANGED <<Claims!contractVars, listed, cardLoading, cardRead, boardQuery, airCard>>
  BY DEF Claims!StartClaims
<1>3. x \in Claims!Claim /\ x.items # <<>> /\ x.at = "send"
  BY DEF Claims!Claim
<1> HIDE DEF x
<1>4. \A d \in Claims!Cards : CardClaimSound(cardClaim'[d], cardRead'[<<d, "claim">>])
  <2> TAKE d \in Claims!Cards
  <2>1. CardClaimSound(cardClaim[d], cardRead[<<d, "claim">>]) /\ DOMAIN cardClaim = Claims!Cards
    BY <1>1 DEF CardsTyped
  <2>2. CASE d = c
    <3>1. cardRead[<<d, "claim">>].at = "idle"
      BY <1>2, <2>1, <2>2 DEF CardClaimSound
    <3>2. cardClaim'[d] = x /\ cardRead' = cardRead
      BY <1>2, <2>1, <2>2
    <3> QED BY <1>3, <3>1, <3>2 DEF CardClaimSound
  <2>3. CASE d # c
    BY <1>2, <2>1, <2>3
  <2> QED BY <2>2, <2>3
<1>5. CardsTyped'
  BY <1>1, <1>2, <1>4 DEF CardsTyped
<1> QED BY <1>2, <1>5, CardsFrames DEF ClaimsInv

LEMMA ClickKeeps ==
    ASSUME ClaimsInv, Claims!HandleClaim \/ Claims!HandleClaimAll \/ Claims!BoardClaim
    PROVE  ClaimsInv'
<1>1. "unified" \in Claims!Cards /\ "board" \in Claims!Cards
  BY DEF Claims!Cards
<1>2. listed["unified"].items \subseteq Claims!Items /\ boardError \in BOOLEAN
  BY <1>1 DEF ClaimsInv, CardsTyped, ListEntry
<1>3. CASE Claims!HandleClaim
  <2>1. PICK i \in listed["unified"].items : Claims!StartClaims("unified", <<i>>)
    BY <1>3 DEF Claims!HandleClaim
  <2>2. <<i>> \in Seq(Claims!Items) /\ <<i>> # <<>>
    BY <1>2
  <2>3. boardError' \in BOOLEAN
    BY <1>2, <1>3 DEF Claims!HandleClaim
  <2> QED BY <1>1, <2>1, <2>2, <2>3, StartClaimsKeeps
<1>4. CASE Claims!HandleClaimAll
  <2>1. Claims!StartClaims("unified", <<"fee", "reward">>) /\ boardError' = boardError
    BY <1>4 DEF Claims!HandleClaimAll
  <2>2. <<"fee", "reward">> \in Seq(Claims!Items) /\ <<"fee", "reward">> # <<>>
    BY DEF Claims!Items
  <2> QED BY <1>1, <1>2, <2>1, <2>2, StartClaimsKeeps
<1>5. CASE Claims!BoardClaim
  <2>1. Claims!StartClaims("board", <<"reward">>) /\ boardError' = FALSE
    BY <1>5 DEF Claims!BoardClaim
  <2>2. <<"reward">> \in Seq(Claims!Items) /\ <<"reward">> # <<>>
    BY DEF Claims!Items
  <2> QED BY <1>1, <2>1, <2>2, StartClaimsKeeps
<1> QED BY <1>3, <1>4, <1>5

LEMMA ClaimMinedKeeps ==
    ASSUME ClaimsInv, NEW c \in Claims!Cards, Claims!ClaimMined(c)
    PROVE  ClaimsInv'
<1> DEFINE claim == cardClaim[c]
           x == [claim EXCEPT !.at = "read"]
<1>1. CardsTyped /\ Me \in Claims!Claimants /\ "claim" \in Claims!ReadBy
  BY Claiming DEF ClaimsInv, Claims!ReadBy
<1>2. /\ claim # Idle /\ claim.at = "send" /\ (Claims!ClaimFee(Me) \/ Claims!ClaimReward(Me))
      /\ cardClaim' = [cardClaim EXCEPT ![c] = x] /\ Claims!StartReading(c, "claim", Me)
      /\ UNCHANGED <<boardQuery, airCard>>
  BY DEF Claims!ClaimMined
<1>3. FeesDue' /\ RewardsDue' /\ AirdropOnce' /\ CallsCounted'
  BY <1>1, <1>2, ClaimFeeKeeps, ClaimRewardKeeps
<1>4. claim \in Claims!Claim /\ claim.items # <<>>
  BY <1>1, <1>2 DEF CardsTyped, CardClaimSound
<1>5. x \in Claims!Claim /\ x.items # <<>> /\ x.at = "read" /\ x # Idle
  <2>1. x \in Claims!Claim /\ x.items # <<>> /\ x.at = "read"
    BY <1>4 DEF Claims!Claim
  <2>2. Idle \notin Claims!Claim
    BY ClaimsConstants
  <2> QED BY <2>1, <2>2
<1>6. /\ listed' \in [Claims!Cards -> ListEntry] /\ cardLoading' \in [Claims!Cards -> BOOLEAN]
      /\ cardRead' \in [Claims!Cards \X Claims!ReadBy -> ReadEntry]
      /\ boardError' \in BOOLEAN
      /\ \A d \in Claims!Cards :
            cardRead'[<<d, "claim">>] =
              IF d = c THEN Claims!Asking(Me) ELSE cardRead[<<d, "claim">>]
  BY <1>1, <1>2, StartReadingTyped
<1> HIDE DEF x, claim
<1>7. \A d \in Claims!Cards : CardClaimSound(cardClaim'[d], cardRead'[<<d, "claim">>])
  <2> TAKE d \in Claims!Cards
  <2>1. CardClaimSound(cardClaim[d], cardRead[<<d, "claim">>]) /\ DOMAIN cardClaim = Claims!Cards
    BY <1>1 DEF CardsTyped
  <2>2. CASE d = c
    <3>1. cardRead'[<<d, "claim">>].at = "asked"
      BY <1>1, <1>6, <2>2, ReadingEntries
    <3>2. cardClaim'[d] = x
      BY <1>2, <2>1, <2>2
    <3> QED BY <1>5, <3>1, <3>2 DEF CardClaimSound
  <2>3. CASE d # c
    BY <1>2, <1>6, <2>1, <2>3
  <2> QED BY <2>2, <2>3
<1>8. CardsTyped'
  BY <1>1, <1>2, <1>6, <1>7 DEF CardsTyped
<1> QED BY <1>2, <1>3, <1>8, CardsFrames DEF ClaimsInv

LEMMA ClaimFailsKeeps ==
    ASSUME ClaimsInv, NEW c \in Claims!Cards, Claims!ClaimFails(c)
    PROVE  ClaimsInv'
<1> DEFINE claim == cardClaim[c]
<1>1. CardsTyped
  BY DEF ClaimsInv
<1>2. /\ claim # Idle /\ claim.at = "send" /\ Claims!NextClaim(c)
      /\ UNCHANGED <<Claims!contractVars, listed, cardLoading, cardRead, boardQuery, airCard>>
  BY DEF Claims!ClaimFails
<1>3. boardError' \in BOOLEAN
  BY <1>1 DEF Claims!ClaimFails, CardsTyped
<1>4. DOMAIN cardClaim' = Claims!Cards
  BY <1>1, <1>2 DEF Claims!NextClaim, CardsTyped
<1>5. \A d \in Claims!Cards : CardClaimSound(cardClaim'[d], cardRead'[<<d, "claim">>])
  <2> TAKE d \in Claims!Cards
  <2>1. CardClaimSound(cardClaim[d], cardRead[<<d, "claim">>]) /\ DOMAIN cardClaim = Claims!Cards
    BY <1>1 DEF CardsTyped
  <2>2. CASE d = c
    <3>1. claim \in Claims!Claim /\ claim.items # <<>> /\ cardRead[<<d, "claim">>].at = "idle"
      BY <1>2, <2>1, <2>2 DEF CardClaimSound
    <3>2. cardClaim'[d] = IF Len(claim.items) = 1 THEN Idle
                          ELSE [items |-> Tail(claim.items), at |-> "send"]
      BY <1>2, <2>1, <2>2 DEF Claims!NextClaim
    <3>3. cardRead'[<<d, "claim">>] = cardRead[<<d, "claim">>]
      BY <1>2
    <3> HIDE DEF claim
    <3> QED BY <3>1, <3>2, <3>3, NextClaimSound
  <2>3. CASE d # c
    BY <1>2, <2>1, <2>3 DEF Claims!NextClaim
  <2> QED BY <2>2, <2>3
<1>6. CardsTyped'
  BY <1>1, <1>2, <1>3, <1>4, <1>5 DEF CardsTyped
<1> QED BY <1>2, <1>6, CardsFrames DEF ClaimsInv

LEMMA AirCardKeeps ==
    ASSUME ClaimsInv, Claims!CheckClaimed \/ Claims!DoClaim \/ Claims!ContinueAirdrop
    PROVE  ClaimsInv'
<1>1. AirCardTyped'
  BY DEF ClaimsInv, AirCardTyped, Claims!CheckClaimed, Claims!DoClaim, Claims!ContinueAirdrop,
         Claims!ClaimedChecked, Claims!AirdropMined, Claims!AirdropFails
<1>2. UNCHANGED Claims!cardVars
  BY DEF Claims!CheckClaimed, Claims!DoClaim, Claims!ContinueAirdrop,
         Claims!ClaimedChecked, Claims!AirdropMined, Claims!AirdropFails
<1>3. Claims!ClaimAirdrop \/ UNCHANGED Claims!contractVars
  BY DEF Claims!CheckClaimed, Claims!DoClaim, Claims!ContinueAirdrop,
         Claims!ClaimedChecked, Claims!AirdropMined, Claims!AirdropFails
<1>4. FeesDue' /\ RewardsDue' /\ AirdropOnce' /\ CallsCounted'
  BY <1>3, ClaimAirdropKeeps, CardsFrames
<1> QED BY <1>1, <1>2, <1>4, CardsFrames DEF ClaimsInv

LEMMA OthersClaimKeeps ==
    ASSUME ClaimsInv, Claims!Others
    PROVE  ClaimsInv'
<1>1. UNCHANGED <<Claims!cardVars, airCard>>
  BY DEF Claims!Others
<1>2. FeesDue' /\ RewardsDue' /\ AirdropOnce' /\ CallsCounted'
  <2>1. Peer \in Claims!Claimants
    BY Claiming
  <2>2. CASE Claims!ClaimFee(Peer)
    BY <2>1, <2>2, ClaimFeeKeeps
  <2>3. CASE Claims!ClaimReward(Peer)
    BY <2>1, <2>3, ClaimRewardKeeps
  <2>4. CASE \/ Claims!ReceiveFee \/ Claims!SetPeriodReward
             \/ \E list \in Lists : Claims!SetRecipients(list)
             \/ \E a \in Claims!Claimants, v \in Scores : Claims!SubmitProof(a, v)
    BY <2>4, OwnersKeep
  <2> QED BY <2>2, <2>3, <2>4 DEF Claims!Others
<1> QED BY <1>1, <1>2, CardsFrames DEF ClaimsInv

LEMMA OthersAirdropKeeps ==
    ASSUME ClaimsInv, Claims!OthersAirdrop
    PROVE  ClaimsInv'
<1>1. UNCHANGED <<Claims!cardVars, airCard>> /\ Claims!ClaimAirdrop
  BY DEF Claims!OthersAirdrop
<1>2. FeesDue' /\ RewardsDue' /\ AirdropOnce' /\ CallsCounted'
  BY <1>1, ClaimAirdropKeeps
<1> QED BY <1>1, <1>2, CardsFrames DEF ClaimsInv

-----------------------------------------------------------------------------
LEMMA StepKeepsClaimsInv ==
    ASSUME ClaimsInv, [Claims!Next]_(Claims!vars)
    PROVE  ClaimsInv'
<1>1. CASE UNCHANGED Claims!vars
  BY <1>1, CardsFrames DEF ClaimsInv, Claims!vars
<1>2. CASE Claims!Others
  BY <1>2, OthersClaimKeeps
<1>3. CASE \/ \E c \in Claims!Cards : Claims!FetchData(c)
           \/ \E a \in Claims!Claimants : Claims!QueryAddress(a)
  BY <1>3, FetchDataKeeps, QueryKeeps
<1>4. CASE Claims!HandleClaim \/ Claims!HandleClaimAll \/ Claims!BoardClaim
  BY <1>4, ClickKeeps
<1>5. ASSUME NEW c \in Claims!Cards, NEW by \in Claims!ReadBy, Claims!Continue(c, by)
      PROVE  ClaimsInv'
  BY <1>5, AnswerKeeps, ShowKeeps, ClaimMinedKeeps, ClaimFailsKeeps DEF Claims!Continue
<1>6. CASE Claims!CardsNext
  BY <1>2, <1>3, <1>4, <1>5, <1>6 DEF Claims!CardsNext
<1>7. CASE Claims!AirdropNext
  BY <1>7, AirCardKeeps, OthersAirdropKeeps DEF Claims!AirdropNext
<1> QED BY <1>1, <1>6, <1>7 DEF Claims!Next

LEMMA ClaimsInitially == Claims!Init => ClaimsInv
<1> SUFFICES ASSUME Claims!Init PROVE ClaimsInv
  OBVIOUS
<1>1. FeesDue
  <2>1. /\ recipients = FirstList /\ feePot = 0 /\ feeClaimed = [a \in Claims!Claimants |-> 0]
        /\ feeDue = [a \in Claims!Claimants |-> 0] /\ FirstList \in Lists /\ Word \in Nat \ {0}
    BY ClaimsConstants DEF Claims!Init
  <2>2. \A a \in Claims!Claimants : Claims!FeeShares(feePot, recipients)[a] <= feeDue[a]
    <3> TAKE a \in Claims!Claimants
    <3>1. Claims!FeeShares(feePot, recipients)[a]
            = (0 * FirstList[a]) \div Claims!TotalBps(FirstList)
      BY <2>1 DEF Claims!FeeShares
    <3>2. FirstList[a] \in Nat /\ Claims!TotalBps(FirstList) \in Nat \ {0}
      BY <2>1, ClaimsConstants
    <3>3. Claims!FeeShares(feePot, recipients)[a] = 0
      BY <3>1, <3>2, NothingShared
    <3> QED BY <2>1, <3>3
  <2>3. Claims!Paid(feeClaimed) <= feePot
    <3>1. feeClaimed[Me] = 0 /\ feeClaimed[Peer] = 0
      BY <2>1, Claiming
    <3> QED BY <2>1, <3>1 DEF Claims!Paid
  <2> QED BY <2>1, <2>2, <2>3 DEF FeesDue
<1>2. RewardsDue
  <2>1. /\ score = FirstScore /\ rewardPot = 0
        /\ rewardClaimed = [a \in Claims!Claimants |-> 0]
        /\ rewardDue = [a \in Claims!Claimants |-> 0]
        /\ FirstScore \in [Claims!Claimants -> Nat] /\ ReserveBps \in 0 .. 5000
    BY ClaimsConstants DEF Claims!Init
  <2>2. \A a \in Claims!Claimants : Claims!RewardShares(rewardPot, score)[a] <= rewardDue[a]
    <3> TAKE a \in Claims!Claimants
    <3> DEFINE d == (0 * (10000 - ReserveBps)) \div 10000
               total == FirstScore[Me] + FirstScore[Peer]
    <3>1. d = 0
      BY <2>1, NothingShared
    <3>2. Claims!RewardShares(rewardPot, score)[a]
            = IF FirstScore[a] = 0 THEN 0 ELSE (d * FirstScore[a]) \div total
      BY <2>1 DEF Claims!RewardShares
    <3> HIDE DEF d
    <3>3. FirstScore[a] \in Nat /\ FirstScore[Me] \in Nat /\ FirstScore[Peer] \in Nat
      BY <2>1, Claiming
    <3>4. FirstScore[a] # 0 => total \in Nat \ {0}
      BY <3>3, Claiming
    <3> HIDE DEF total
    <3>5. Claims!RewardShares(rewardPot, score)[a] = 0
      BY <3>1, <3>2, <3>3, <3>4, NothingShared
    <3> QED BY <2>1, <3>5
  <2> QED BY <2>1, <2>2 DEF RewardsDue
<1>3. AirdropOnce /\ CallsCounted
  BY ClaimsConstants DEF AirdropOnce, CallsCounted, Claims!Init
<1>4. CardsTyped
  <2>1. /\ listed = [c \in Claims!Cards |-> Claims!Unlisted]
        /\ cardLoading = [c \in Claims!Cards |-> FALSE]
        /\ cardRead = [r \in Claims!Cards \X Claims!ReadBy |-> Claims!NotReading]
        /\ cardClaim = [c \in Claims!Cards |-> Idle] /\ boardQuery = Me /\ boardError = FALSE
    BY DEF Claims!Init
  <2>2. Claims!Unlisted \in ListEntry
    BY DEF Claims!Unlisted, ListEntry
  <2>3. \A c \in Claims!Cards : CardClaimSound(cardClaim[c], cardRead[<<c, "claim">>])
    <3> TAKE c \in Claims!Cards
    <3>1. cardClaim[c] = Idle /\ cardRead[<<c, "claim">>] = Claims!NotReading
      BY <2>1 DEF Claims!ReadBy
    <3> QED BY <3>1, ReadingEntries DEF CardClaimSound
  <2> QED BY <2>1, <2>2, <2>3, ReadingEntries, Claiming DEF CardsTyped
<1>5. AirCardTyped
  BY DEF AirCardTyped, Claims!Init
<1> QED BY <1>1, <1>2, <1>3, <1>4, <1>5 DEF ClaimsInv

LEMMA StepOfClaims == [Next]_vars => [Claims!Next]_(Claims!vars)
<1> SUFFICES ASSUME [Next]_vars PROVE Claims!Next \/ UNCHANGED Claims!vars
  OBVIOUS
<1>1. CASE UNCHANGED claimVars
  BY <1>1 DEF claimVars, Claims!vars, Claims!contractVars, Claims!feeVars, Claims!rewardVars,
              Claims!cardVars, Claims!boardVars
<1>2. UNCHANGED claimVars \/ Claims!Next
  <2>1. UNCHANGED claimVars \/ Claims!CardsNext \/ Claims!AirdropNext
    BY Zenon DEF Next, vars, BesideBridge, BesideGovernance, BesideVaultTabs, BesideOrders,
       BesideRelay, BesideP2P
  <2> QED BY Zenon, <2>1 DEF Claims!Next
<1> QED BY <1>1, <1>2

LEMMA ClaimsInvariant == Spec => []ClaimsInv
<1>1. Init => ClaimsInv
  BY ClaimsInitially DEF Init
<1>2. ClaimsInv /\ [Next]_vars => ClaimsInv'
  BY StepOfClaims, StepKeepsClaimsInv
<1> QED BY <1>1, <1>2, PTL DEF Spec

(* Nobody is paid more than the largest share he ever had, for all lists,    *)
(* scores and payments, whichever cards claim, in a row or side by side      *)
(* (FeeDistributor.sol claim, ContributorReward.sol claimReward,             *)
(* MerkleDistributor.sol claim).                                             *)
THEOREM NobodyPaidTwice == Spec => []ClaimedOnce
<1>1. ClaimsInv => ClaimedOnce
  BY DEF ClaimsInv, FeesDue, RewardsDue, AirdropOnce, ClaimedOnce, Claims!ClaimedOnce
<1> QED BY <1>1, ClaimsInvariant, PTL


-----------------------------------------------------------------------------
(* The bridge: what its two contracts hold is what requests say.             *)
LEMMA BridgeAssumed == Bridge!BridgeAssumption
  BY Zenon, WebAppAssumption DEF WebAppAssumption

LEMMA BridgeConstants ==
    /\ Eid \in [Targets -> Nat] /\ BridgeFee \in Nat /\ Funds \in Nat /\ Pool \in Nat
    /\ Expiry \in Nat /\ BridgeTyped \subseteq Nat
    /\ MaxClock \in Nat /\ MaxSent \in Nat /\ MaxMounts \in Nat \ {0}
<1>1. /\ Eid \in [Targets -> Nat] /\ BridgeTyped \subseteq Nat
      /\ {BridgeFee, Funds, Pool, Expiry} \subseteq Nat
      /\ {MaxClock, MaxSent} \subseteq Nat /\ MaxMounts \in Nat \ {0}
  BY BridgeAssumed DEF Bridge!BridgeAssumption
<1> QED BY <1>1

LEMMA BridgeCardinality == \A S : Bridge!Cardinality(S) = Cardinality(S)
  BY Zenon DEF Bridge!Cardinality, Cardinality

LEMMA BridgeSum == \A f, S : Bridge!SumFunctionOnSet(f, S) = SumFunctionOnSet(f, S)
  BY Zenon DEF Bridge!SumFunctionOnSet, SumFunctionOnSet, Bridge!FoldFunctionOnSet,
               FoldFunctionOnSet, Bridge!MapThenFoldSet, MapThenFoldSet

LEMMA AmountsSum == \A S : Bridge!Amounts(S) = SumFunctionOnSet([r \in S |-> r.amount], S)
  BY BridgeSum, Zenon DEF Bridge!Amounts

LEMMA AmountsNone == Bridge!Amounts({}) = 0
  BY AmountsSum, SumEmpty

(* Another request adds its amount.                                          *)
LEMMA AmountsAdded ==
    ASSUME NEW S, S \subseteq Bridge!Request, IsFiniteSet(S), NEW r \in Bridge!Request, r \notin S
    PROVE  /\ IsFiniteSet(S \cup {r}) /\ Cardinality(S \cup {r}) = Cardinality(S) + 1
           /\ Bridge!Amounts(S) \in Nat /\ Bridge!Amounts(S \cup {r}) = Bridge!Amounts(S) + r.amount
<1> DEFINE T == S \cup {r}
           f == [q \in S |-> q.amount]
           g == [q \in T |-> q.amount]
<1>1. IsFiniteSet(T) /\ Cardinality(T) = Cardinality(S) + 1
  BY FS_AddElement
<1>2. (\A q \in S : f[q] \in Nat) /\ (\A q \in T : g[q] \in Nat) /\ g[r] = r.amount
  BY DEF Bridge!Request
<1>3. \A q \in S : f[q] = g[q]
  OBVIOUS
<1>4. T \ {r} = S /\ r \in T
  OBVIOUS
<1>5. Bridge!Amounts(S) = SumFunctionOnSet(f, S) /\ Bridge!Amounts(T) = SumFunctionOnSet(g, T)
  BY AmountsSum
<1> HIDE DEF T, f, g
<1>6. SumFunctionOnSet(g, T) = g[r] + SumFunctionOnSet(g, T \ {r})
  <2>1. \A q \in T : g[q] \in Int
    BY <1>2
  <2> QED BY <1>1, <1>4, <2>1, SumElement
<1>7. SumFunctionOnSet(f, S) = SumFunctionOnSet(g, S)
  BY <1>3, SumEqual
<1>8. SumFunctionOnSet(f, S) \in Nat
  BY <1>2, SumNat
<1>9. r.amount \in Nat
  BY DEF Bridge!Request
<1>10. Bridge!Amounts(T) = Bridge!Amounts(S) + r.amount
  BY <1>2, <1>4, <1>5, <1>6, <1>7, <1>8, <1>9
<1> QED BY <1>1, <1>5, <1>8, <1>10 DEF T

-----------------------------------------------------------------------------
BridgeStatus == [id : 0 .. MaxSent, shown : {"", "sent", "pending"}]
BridgePageTyped ==
    /\ bridgeMount \in 1 .. MaxMounts /\ bridgeForm \in Bridge!Form /\ bridgeLoading \in BOOLEAN
    /\ bridgeBalance \in Nat
    /\ bridgeStatus \in BridgeStatus
TransferAt(mount) ==
    [mount : 1 .. mount, form : Bridge!Form, fee : BOOLEAN,
     at : {"allowance", "approve", "fee", "send", "wait", "balance"}]
TransfersTyped == bridgeCalls \subseteq TransferAt(bridgeMount)

(* This chain. Requests are numbered, so that a new one is none of them.     *)
LockedForRequests ==
    /\ wallet \in Nat /\ locked \in Nat /\ wallet + locked = Funds /\ bridgeAllowance \in Nat
    /\ requests \subseteq Bridge!Request /\ IsFiniteSet(requests)
    /\ \A r \in requests : r.id <= Cardinality(requests)
    /\ Cardinality(requests) <= MaxSent
    /\ locked = Bridge!Amounts(requests) + BridgeFee * Cardinality(requests)
(* The other one.                                                            *)
ReleasedForRequests ==
    processed \subseteq requests /\ released \in 0 .. Pool /\ released = Bridge!Amounts(processed)
BridgeClockTyped == bridgeClock \in 0 .. MaxClock

BridgeInv ==
    /\ BridgePageTyped /\ TransfersTyped /\ LockedForRequests /\ ReleasedForRequests
    /\ BridgeClockTyped

LEMMA BridgeFrames ==
    ASSUME BridgeInv
    PROVE  /\ UNCHANGED Bridge!bridgePage => BridgePageTyped'
           /\ UNCHANGED <<bridgeCalls, bridgeMount>> => TransfersTyped'
           /\ UNCHANGED Bridge!bridgeChain => LockedForRequests'
           /\ UNCHANGED <<requests, Bridge!otherChain>> => ReleasedForRequests'
           /\ UNCHANGED bridgeClock => BridgeClockTyped'
<1>1. UNCHANGED Bridge!bridgePage => BridgePageTyped'
  BY DEF BridgeInv, BridgePageTyped, Bridge!bridgePage
<1>2. UNCHANGED <<bridgeCalls, bridgeMount>> => TransfersTyped'
  BY DEF BridgeInv, TransfersTyped
<1>3. UNCHANGED Bridge!bridgeChain => LockedForRequests'
  BY DEF BridgeInv, LockedForRequests, Bridge!bridgeChain, Bridge!Amounts
<1>4. UNCHANGED <<requests, Bridge!otherChain>> => ReleasedForRequests'
  BY DEF BridgeInv, ReleasedForRequests, Bridge!otherChain, Bridge!Amounts
<1>5. UNCHANGED bridgeClock => BridgeClockTyped'
  BY DEF BridgeInv, BridgeClockTyped
<1> QED BY <1>1, <1>2, <1>3, <1>4, <1>5

LEMMA FormsTyped ==
    /\ Bridge!EmptyForm \in Bridge!Form /\ Bridge!NoStatus \in BridgeStatus
    /\ \A n \in 0 .. MaxSent : [id |-> n, shown |-> "sent"] \in BridgeStatus
    /\ \A s \in BridgeStatus : [s EXCEPT !.shown = "pending"] \in BridgeStatus
<1>1. Bridge!EmptyForm \in Bridge!Form
  BY DEF Bridge!EmptyForm, Bridge!Form
<1>2. 0 \in 0 .. MaxSent
  BY BridgeConstants
<1>3. Bridge!NoStatus \in BridgeStatus
  BY <1>2 DEF Bridge!NoStatus, Bridge!NoRequest, BridgeStatus
<1>4. \A n \in 0 .. MaxSent : [id |-> n, shown |-> "sent"] \in BridgeStatus
  BY DEF BridgeStatus
<1>5. \A s \in BridgeStatus : [s EXCEPT !.shown = "pending"] \in BridgeStatus
  BY DEF BridgeStatus
<1> QED BY <1>1, <1>3, <1>4, <1>5

LEMMA BridgeInitially == Bridge!Init => BridgeInv
<1> SUFFICES ASSUME Bridge!Init PROVE BridgeInv
  OBVIOUS
<1>1. BridgePageTyped
  <2>1. 1 \in 1 .. MaxMounts
    BY BridgeConstants
  <2> QED BY <2>1, FormsTyped DEF BridgePageTyped, Bridge!Init
<1>2. TransfersTyped
  BY DEF TransfersTyped, Bridge!Init
<1>3. LockedForRequests
  <2>1. /\ wallet = Funds /\ locked = 0 /\ bridgeAllowance = 0 /\ requests = {}
    BY DEF Bridge!Init
  <2>2. IsFiniteSet(requests) /\ Cardinality(requests) = 0 /\ Bridge!Amounts(requests) = 0
    BY <2>1, FS_EmptySet, AmountsNone
  <2> QED BY <2>1, <2>2, BridgeConstants DEF LockedForRequests
<1>4. ReleasedForRequests
  BY AmountsNone, BridgeConstants DEF ReleasedForRequests, Bridge!Init
<1>5. BridgeClockTyped
  BY BridgeConstants DEF BridgeClockTyped, Bridge!Init
<1> QED BY <1>1, <1>2, <1>3, <1>4, <1>5 DEF BridgeInv

-----------------------------------------------------------------------------
(* The form, which knows no contract.                                        *)
LEMMA BridgeFormKeeps ==
    ASSUME BridgeInv,
           \/ Bridge!Remount \/ Bridge!SelectTarget \/ Bridge!TypeAmount \/ Bridge!MaxAmount
           \/ Bridge!FetchBalance \/ Bridge!CheckBridgeStatus \/ Bridge!HandleBridge
    PROVE  BridgeInv'
<1>1. /\ bridgeMount \in 1 .. MaxMounts /\ bridgeForm \in Bridge!Form /\ bridgeLoading \in BOOLEAN
      /\ bridgeBalance \in Nat
      /\ bridgeStatus \in BridgeStatus
      /\ bridgeCalls \subseteq TransferAt(bridgeMount)
  BY DEF BridgeInv, BridgePageTyped, TransfersTyped
<1>2. UNCHANGED <<Bridge!bridgeChain, Bridge!otherChain, bridgeClock>> /\ requests' = requests
  BY DEF Bridge!Remount, Bridge!SelectTarget, Bridge!TypeAmount, Bridge!MaxAmount, Bridge!Edit,
         Bridge!FetchBalance, Bridge!CheckBridgeStatus, Bridge!HandleBridge, Bridge!bridgeChain
<1>3. CASE Bridge!Remount
  <2>1. BridgePageTyped'
    <3>1. bridgeMount' \in 1 .. MaxMounts
      BY <1>1, <1>3, BridgeConstants DEF Bridge!Remount
    <3>2. /\ bridgeForm' = Bridge!EmptyForm /\ bridgeLoading' = FALSE /\ bridgeBalance' = 0
          /\ bridgeStatus' = Bridge!NoStatus
      BY <1>3 DEF Bridge!Remount
    <3> QED BY <3>1, <3>2, FormsTyped DEF BridgePageTyped
  <2>2. TransfersTyped'
    <3>1. bridgeMount' = bridgeMount + 1 /\ bridgeCalls' = bridgeCalls
      BY <1>3 DEF Bridge!Remount
    <3>2. 1 .. bridgeMount \subseteq 1 .. bridgeMount'
      <4>1. bridgeMount \in Nat
        BY <1>1, BridgeConstants
      <4> QED BY <3>1, <4>1
    <3> QED BY <1>1, <3>1, <3>2 DEF TransfersTyped, TransferAt
  <2> QED BY <1>2, <2>1, <2>2, BridgeFrames DEF BridgeInv
<1>4. ASSUME NEW f \in Bridge!Form, Bridge!Edit(f) PROVE BridgeInv'
  <2>1. BridgePageTyped'
    BY <1>1, <1>4 DEF Bridge!Edit, BridgePageTyped
  <2>2. TransfersTyped'
    BY <1>1, <1>4 DEF Bridge!Edit, TransfersTyped
  <2> QED BY <1>2, <2>1, <2>2, BridgeFrames DEF BridgeInv
<1>5. CASE Bridge!SelectTarget \/ Bridge!TypeAmount \/ Bridge!MaxAmount
  <2>1. \A t \in Targets \cup {NoTarget} : [bridgeForm EXCEPT !.target = t] \in Bridge!Form
    BY <1>1 DEF Bridge!Form
  <2>2. \A v \in Nat : [bridgeForm EXCEPT !.amount = v] \in Bridge!Form
    BY <1>1 DEF Bridge!Form
  <2>3. \E f \in Bridge!Form : Bridge!Edit(f)
    BY <1>1, <1>5, <2>1, <2>2, BridgeConstants
    DEF Bridge!SelectTarget, Bridge!TypeAmount, Bridge!MaxAmount
  <2> QED BY <1>4, <2>3
<1>6. CASE Bridge!FetchBalance \/ Bridge!CheckBridgeStatus
  <2>1. Bridge!FormatTokenAmount(wallet) \in Nat
    BY DEF BridgeInv, LockedForRequests, Bridge!FormatTokenAmount
  <2>2. BridgePageTyped'
    <3>1. UNCHANGED <<bridgeMount, bridgeForm, bridgeLoading>>
      BY <1>6 DEF Bridge!FetchBalance, Bridge!CheckBridgeStatus
    <3>2. bridgeBalance' \in Nat
      BY <1>1, <1>6, <2>1 DEF Bridge!FetchBalance, Bridge!CheckBridgeStatus
    <3>3. bridgeStatus' \in BridgeStatus
      BY <1>1, <1>6, FormsTyped DEF Bridge!FetchBalance, Bridge!CheckBridgeStatus
    <3> QED BY <1>1, <3>1, <3>2, <3>3 DEF BridgePageTyped
  <2>3. TransfersTyped'
    BY <1>1, <1>6 DEF Bridge!FetchBalance, Bridge!CheckBridgeStatus, TransfersTyped
  <2> QED BY <1>2, <2>2, <2>3, BridgeFrames DEF BridgeInv
<1>7. CASE Bridge!HandleBridge
  <2>1. BridgePageTyped'
    BY <1>1, <1>7 DEF Bridge!HandleBridge, BridgePageTyped
  <2>2. TransfersTyped'
    <3>1. [mount |-> bridgeMount, form |-> bridgeForm, at |-> "allowance", fee |-> FALSE]
             \in TransferAt(bridgeMount)
      <4>1. bridgeMount \in 1 .. bridgeMount
        <5>1. bridgeMount \in Nat /\ 1 <= bridgeMount
          BY <1>1, BridgeConstants
        <5> QED BY <5>1
      <4> QED BY <1>1, <4>1 DEF TransferAt
    <3> QED BY <1>1, <1>7, <3>1 DEF Bridge!HandleBridge, TransfersTyped
  <2> QED BY <1>2, <2>1, <2>2, BridgeFrames DEF BridgeInv
<1> QED BY <1>3, <1>5, <1>6, <1>7

(* A transfer's next step: it goes on as another, or it is over.             *)
LEMMA BridgeCallKeeps ==
    ASSUME BridgeInv, NEW c \in bridgeCalls,
           \/ Bridge!BridgeFails(c) \/ Bridge!CheckAllowance(c) \/ Bridge!ApproveBridge(c)
           \/ Bridge!EstimateFee(c) \/ Bridge!SendBridgeToken(c) \/ Bridge!BridgeDone(c)
    PROVE  BridgeInv'
<1>1. /\ bridgeMount \in 1 .. MaxMounts /\ bridgeForm \in Bridge!Form /\ bridgeLoading \in BOOLEAN
      /\ bridgeBalance \in Nat
      /\ bridgeStatus \in BridgeStatus
      /\ bridgeCalls \subseteq TransferAt(bridgeMount) /\ c \in TransferAt(bridgeMount)
  BY DEF BridgeInv, BridgePageTyped, TransfersTyped
<1>2. UNCHANGED <<bridgeMount, wallet, locked, requests, Bridge!otherChain, bridgeClock>>
  BY DEF Bridge!BridgeFails, Bridge!CheckAllowance, Bridge!ApproveBridge, Bridge!EstimateFee,
         Bridge!SendBridgeToken, Bridge!BridgeDone, Bridge!bridgePage, Bridge!bridgeChain
<1>3. TransfersTyped'
  <2>1. /\ [c EXCEPT !.at = IF bridgeAllowance < c.form.amount THEN "approve" ELSE "fee"]
              \in TransferAt(bridgeMount)
        /\ [c EXCEPT !.at = "fee"] \in TransferAt(bridgeMount)
        /\ [c EXCEPT !.at = "wait"] \in TransferAt(bridgeMount)
        /\ \A q \in BOOLEAN : [c EXCEPT !.at = "send", !.fee = q] \in TransferAt(bridgeMount)
    BY <1>1 DEF TransferAt
  <2>2. \A quoted \in {FALSE, Eid[c.form.target] # 0} : quoted \in BOOLEAN
    OBVIOUS
  <2>3. ASSUME NEW d \in TransferAt(bridgeMount), Bridge!Become(c, d)
        PROVE  bridgeCalls' \subseteq TransferAt(bridgeMount)
    BY <1>1, <2>3 DEF Bridge!Become
  <2>4. CASE bridgeCalls' = bridgeCalls \ {c}
    BY <1>1, <1>2, <2>4 DEF TransfersTyped
  <2>5. CASE Bridge!CheckAllowance(c) \/ Bridge!ApproveBridge(c) \/ Bridge!SendBridgeToken(c)
    BY <1>2, <2>1, <2>3, <2>5
    DEF Bridge!CheckAllowance, Bridge!ApproveBridge, Bridge!SendBridgeToken, TransfersTyped
  <2>6. CASE Bridge!EstimateFee(c)
    <3>1. PICK quoted \in {FALSE, Eid[c.form.target] # 0} :
            Bridge!Become(c, [c EXCEPT !.at = "send", !.fee = quoted])
      BY <2>6 DEF Bridge!EstimateFee
    <3> QED BY <1>2, <2>1, <2>2, <2>3, <3>1 DEF TransfersTyped
  <2> QED BY <2>4, <2>5, <2>6 DEF Bridge!BridgeFails, Bridge!BridgeDone
<1>4. LockedForRequests'
  <2>1. bridgeAllowance' \in Nat
    <3>1. bridgeAllowance \in Nat /\ c.form.amount \in Nat
      BY <1>1 DEF BridgeInv, LockedForRequests, TransferAt, Bridge!Form
    <3>2. bridgeAllowance' = bridgeAllowance \/ bridgeAllowance' = c.form.amount
      BY DEF Bridge!BridgeFails, Bridge!CheckAllowance, Bridge!ApproveBridge, Bridge!EstimateFee,
             Bridge!SendBridgeToken, Bridge!BridgeDone, Bridge!bridgeChain
    <3> QED BY <3>1, <3>2
  <2> QED BY <1>2, <2>1 DEF BridgeInv, LockedForRequests, Bridge!Amounts
<1>5. BridgePageTyped'
  <2>1. bridgeLoading' \in BOOLEAN /\ bridgeStatus' = bridgeStatus
    BY <1>1 DEF Bridge!BridgeFails, Bridge!CheckAllowance, Bridge!ApproveBridge, Bridge!EstimateFee,
             Bridge!SendBridgeToken, Bridge!BridgeDone, Bridge!bridgePage, Bridge!SetLoading
  <2>2. Bridge!FormatTokenAmount(wallet) \in Nat
    BY DEF BridgeInv, LockedForRequests, Bridge!FormatTokenAmount
  <2>3. bridgeBalance' \in Nat
    <3>1. \/ bridgeBalance' = bridgeBalance \/ bridgeBalance' = Bridge!FormatTokenAmount(wallet)
          \/ bridgeBalance' = 0
      BY DEF Bridge!BridgeFails, Bridge!CheckAllowance, Bridge!ApproveBridge,
             Bridge!EstimateFee, Bridge!SendBridgeToken, Bridge!BridgeDone, Bridge!bridgePage
    <3> QED BY <1>1, <2>2, <3>1
  <2>4. bridgeForm' \in Bridge!Form
    <3>1. [bridgeForm EXCEPT !.amount = 0] \in Bridge!Form
      BY <1>1 DEF Bridge!Form
    <3> QED BY <1>1, <3>1 DEF Bridge!BridgeFails, Bridge!CheckAllowance, Bridge!ApproveBridge,
             Bridge!EstimateFee, Bridge!SendBridgeToken, Bridge!BridgeDone, Bridge!bridgePage
  <2> QED BY <1>1, <1>2, <2>1, <2>3, <2>4 DEF BridgePageTyped
<1> QED BY <1>2, <1>3, <1>4, <1>5, BridgeFrames DEF BridgeInv

(* CrossChainBridge.sol bridgeToken: one more request, and its amount and    *)
(* the fee are locked.                                                       *)
LEMMA BridgeMinedKeeps ==
    ASSUME BridgeInv, NEW c \in bridgeCalls, Bridge!BridgeTokenMined(c)
    PROVE  BridgeInv'
<1> DEFINE v == c.form.amount
           eid == Eid[c.form.target]
           n == Cardinality(requests)
           r == Bridge!RequestFor(v, eid)
<1>1. /\ bridgeMount \in 1 .. MaxMounts /\ bridgeForm \in Bridge!Form /\ bridgeLoading \in BOOLEAN
      /\ bridgeBalance \in Nat
      /\ bridgeStatus \in BridgeStatus
      /\ bridgeCalls \subseteq TransferAt(bridgeMount) /\ c \in TransferAt(bridgeMount)
  BY DEF BridgeInv, BridgePageTyped, TransfersTyped
<1>2. UNCHANGED <<bridgeMount, bridgeForm, bridgeLoading, bridgeBalance, Bridge!otherChain,
                  bridgeClock>>
  BY DEF Bridge!BridgeTokenMined
<1>3. /\ v > BridgeFee /\ eid \in Mapped /\ v <= wallet /\ v <= bridgeAllowance
      /\ wallet' = wallet - v /\ bridgeAllowance' = bridgeAllowance - v /\ locked' = locked + v
      /\ requests' = requests \cup {r} /\ n < MaxSent
  BY BridgeCardinality DEF Bridge!BridgeTokenMined, Bridge!BridgeToken, Bridge!BridgeTokenAccepts
<1>4. v \in Nat /\ n \in Nat
  BY <1>1, FS_CardinalityType DEF TransferAt, Bridge!Form, BridgeInv, LockedForRequests
<1>5. r = [id |-> n + 1, amount |-> v - BridgeFee, eid |-> eid, time |-> bridgeClock]
  BY BridgeCardinality DEF Bridge!RequestFor
<1>6. r \in Bridge!Request /\ r.amount = v - BridgeFee /\ r.id = n + 1
  <2>1. n + 1 \in 1 .. MaxSent /\ v - BridgeFee \in Nat /\ bridgeClock \in 0 .. MaxClock
    BY <1>3, <1>4, BridgeConstants DEF BridgeInv, BridgeClockTyped
  <2> HIDE DEF r, n, v, eid
  <2> QED BY <1>3, <1>5, <2>1 DEF Bridge!Request
<1> HIDE DEF r, eid
<1>7. r \notin requests
  <2>1. \A q \in requests : q.id <= n /\ q.id \in Nat
    BY DEF BridgeInv, LockedForRequests, Bridge!Request
  <2> HIDE DEF n
  <2> QED BY <1>4, <1>6, <2>1
<1>8. /\ requests \subseteq Bridge!Request /\ IsFiniteSet(requests)
      /\ wallet \in Nat /\ locked \in Nat /\ wallet + locked = Funds /\ bridgeAllowance \in Nat
      /\ locked = Bridge!Amounts(requests) + BridgeFee * n
      /\ \A q \in requests : q.id <= n
  BY DEF BridgeInv, LockedForRequests
<1>9. /\ IsFiniteSet(requests') /\ Cardinality(requests') = n + 1
      /\ Bridge!Amounts(requests) \in Nat
      /\ Bridge!Amounts(requests \cup {r}) = Bridge!Amounts(requests) + r.amount
  BY <1>3, <1>6, <1>7, <1>8, AmountsAdded
<1> HIDE DEF n, v
<1>10. LockedForRequests'
  <2>1. /\ wallet' \in Nat /\ locked' \in Nat /\ wallet' + locked' = Funds
        /\ bridgeAllowance' \in Nat
    BY <1>3, <1>4, <1>8
  <2>2. requests' \subseteq Bridge!Request /\ (\A q \in requests' : q.id <= n + 1)
    <3>1. \A q \in requests : q.id \in Nat
      BY <1>8 DEF Bridge!Request
    <3> QED BY <1>3, <1>4, <1>6, <1>8, <3>1
  <2>3. n + 1 <= MaxSent
    BY <1>3, <1>4, BridgeConstants
  <2>4. BridgeFee * (n + 1) = BridgeFee * n + BridgeFee /\ BridgeFee * n \in Nat
    BY <1>4, BridgeConstants, Distribute
  <2>5. locked' = Bridge!Amounts(requests \cup {r}) + BridgeFee * (n + 1)
    <3>1. locked' = (Bridge!Amounts(requests) + BridgeFee * n) + v
      BY <1>3, <1>8
    <3> QED BY <1>4, <1>6, <1>9, <2>4, <3>1, BridgeConstants
  <2>6. Bridge!Amounts(requests)' = Bridge!Amounts(requests \cup {r})
    BY <1>3 DEF Bridge!Amounts
  <2> QED BY <1>9, <2>1, <2>2, <2>3, <2>5, <2>6 DEF LockedForRequests
<1>11. ReleasedForRequests'
  BY <1>2, <1>3 DEF BridgeInv, ReleasedForRequests, Bridge!otherChain, Bridge!Amounts
<1>12. TransfersTyped'
  <2>1. [c EXCEPT !.at = "balance"] \in TransferAt(bridgeMount)
    BY <1>1 DEF TransferAt
  <2> QED BY <1>1, <1>2, <2>1 DEF Bridge!BridgeTokenMined, Bridge!Become, TransfersTyped
<1>13. BridgePageTyped'
  <2>1. bridgeStatus' = bridgeStatus \/ bridgeStatus' = [id |-> n + 1, shown |-> "sent"]
    BY BridgeCardinality DEF Bridge!BridgeTokenMined, n
  <2>2. n + 1 \in 0 .. MaxSent
    BY <1>3, <1>4, BridgeConstants
  <2>3. bridgeStatus' \in BridgeStatus
    BY <1>1, <2>1, <2>2, FormsTyped
  <2> QED BY <1>1, <1>2, <2>3 DEF BridgePageTyped
<1> QED BY <1>2, <1>10, <1>11, <1>12, <1>13, BridgeFrames DEF BridgeInv

(* _lzReceive: a request of the other contract, which it has not processed.  *)
LEMMA LzReceiveKeeps ==
    ASSUME BridgeInv, NEW r \in requests, Bridge!LzReceive(r)
    PROVE  BridgeInv'
<1>1. /\ r \notin processed /\ released + r.amount <= Pool
      /\ processed' = processed \cup {r} /\ released' = released + r.amount
      /\ UNCHANGED <<Bridge!bridgePage, bridgeCalls, Bridge!bridgeChain, bridgeClock>>
  BY DEF Bridge!LzReceive
<1>2. bridgeMount' = bridgeMount /\ requests' = requests
  BY <1>1 DEF Bridge!bridgePage, Bridge!bridgeChain
<1>3. /\ processed \subseteq Bridge!Request /\ IsFiniteSet(processed) /\ r \in Bridge!Request
      /\ processed \subseteq requests /\ released \in Nat /\ released = Bridge!Amounts(processed)
  BY FS_Subset, BridgeConstants DEF BridgeInv, LockedForRequests, ReleasedForRequests
<1>4. r.amount \in Nat
  BY <1>3 DEF Bridge!Request
<1>5. Bridge!Amounts(processed \cup {r}) = Bridge!Amounts(processed) + r.amount
  BY <1>1, <1>3, AmountsAdded
<1>6. Bridge!Amounts(processed)' = Bridge!Amounts(processed \cup {r})
  BY <1>1 DEF Bridge!Amounts
<1>7. ReleasedForRequests'
  BY <1>1, <1>2, <1>3, <1>4, <1>5, <1>6, BridgeConstants DEF ReleasedForRequests
<1> QED BY <1>1, <1>2, <1>7, BridgeFrames DEF BridgeInv

-----------------------------------------------------------------------------
LEMMA StepKeepsBridgeInv ==
    ASSUME BridgeInv, [Bridge!Next]_(Bridge!vars)
    PROVE  BridgeInv'
<1>1. CASE UNCHANGED Bridge!vars
  <2>1. /\ UNCHANGED <<Bridge!bridgePage, bridgeCalls, Bridge!bridgeChain, Bridge!otherChain,
                       bridgeClock>>
        /\ bridgeMount' = bridgeMount /\ requests' = requests
    BY <1>1 DEF Bridge!vars, Bridge!bridgePage, Bridge!bridgeChain
  <2> QED BY <2>1, BridgeFrames DEF BridgeInv
<1>2. CASE Bridge!BridgeTick
  <2>1. BridgeClockTyped'
    BY <1>2, BridgeConstants DEF BridgeInv, BridgeClockTyped, Bridge!BridgeTick
  <2>2. /\ UNCHANGED <<Bridge!bridgePage, bridgeCalls, Bridge!bridgeChain, Bridge!otherChain>>
        /\ bridgeMount' = bridgeMount /\ requests' = requests
    BY <1>2 DEF Bridge!BridgeTick, Bridge!bridgePage, Bridge!bridgeChain
  <2> QED BY <2>1, <2>2, BridgeFrames DEF BridgeInv
<1>3. CASE \/ Bridge!Remount \/ Bridge!SelectTarget \/ Bridge!TypeAmount \/ Bridge!MaxAmount
           \/ Bridge!FetchBalance \/ Bridge!CheckBridgeStatus \/ Bridge!HandleBridge
  BY <1>3, BridgeFormKeeps
<1>4. ASSUME NEW c \in bridgeCalls, Bridge!Continue(c) PROVE BridgeInv'
  BY <1>4, BridgeCallKeeps, BridgeMinedKeeps DEF Bridge!Continue
<1>5. ASSUME NEW r \in requests, Bridge!LzReceive(r) PROVE BridgeInv'
  BY <1>5, LzReceiveKeeps
<1> QED BY <1>1, <1>2, <1>3, <1>4, <1>5 DEF Bridge!Next

LEMMA StepOfBridge == [Next]_vars => [Bridge!Next]_(Bridge!vars)
<1> SUFFICES ASSUME [Next]_vars PROVE Bridge!Next \/ UNCHANGED Bridge!vars
  OBVIOUS
<1>1. CASE UNCHANGED bridgeVars
  BY <1>1 DEF bridgeVars, Bridge!vars, Bridge!bridgePage, Bridge!bridgeChain, Bridge!otherChain
<1>2. UNCHANGED bridgeVars \/ Bridge!Next
  BY Zenon DEF Next, vars, BesideGovernance, BesideVaultTabs, BesideClaims, BesideOrders,
     BesideRelay, BesideP2P
<1> QED BY <1>1, <1>2

LEMMA BridgeInvariant == Spec => []BridgeInv
<1>1. Init => BridgeInv
  BY BridgeInitially DEF Init
<1>2. BridgeInv /\ [Next]_vars => BridgeInv'
  BY StepOfBridge, StepKeepsBridgeInv
<1> QED BY <1>1, <1>2, PTL DEF Spec

(* What the other chain has handed out was locked here, request by request,  *)
(* for any amounts, fee and number of pages, however messages are delayed or *)
(* delivered again (CrossChainBridge.sol bridgeToken, _lzReceive).           *)
THEOREM ReleasesAreLocked == Spec => []ReleasedWasLocked
<1>1. BridgeInv => ReleasedWasLocked
  <2> SUFFICES ASSUME BridgeInv PROVE ReleasedWasLocked
    OBVIOUS
  <2>1. Bridge!Cardinality(requests) = Cardinality(requests)
    BY BridgeCardinality
  <2> QED BY <2>1
      DEF BridgeInv, LockedForRequests, ReleasedForRequests, ReleasedWasLocked,
          Bridge!ReleasedWasLocked
<1> QED BY <1>1, BridgeInvariant, PTL


-----------------------------------------------------------------------------
(* Vault and swap: amounts stay numbers, and the pool keeps its product.     *)
TransferCall ==
    [amount : [VaultTabs!Tokens -> Nat],
     allow : [VaultTabs!Tokens -> {"check", "clear", "approve", "ready"}], at : {"allow", "mined"}]

VaultChainTyped ==
    /\ tokens \in [VaultTabs!Tokens -> Nat] /\ vaulted \in [VaultTabs!Tokens -> Nat]
    /\ vaultAllowed \in [VaultTabs!Tokens -> Nat] /\ poolAllowed \in [VaultTabs!Tokens -> Nat]
PoolTyped ==
    /\ reserve \in [VaultTabs!Tokens -> Nat] /\ provided \in [VaultTabs!Tokens -> Nat]
    /\ trades \in 0 .. MaxTrades
VaultCallsTyped ==
    /\ DOMAIN vaultCall = VaultTabs!Handlers
    /\ \A k \in VaultTabs!Handlers : vaultCall[k] # Idle => vaultCall[k] \in TransferCall

VaultInv == VaultChainTyped /\ PoolTyped /\ VaultCallsTyped

PoolProduct(r) == r[TokenA] * r[TokenB]

LEMMA VaultAssumed == VaultTabs!VaultPageAssumption
  BY Zenon, WebAppAssumption DEF WebAppAssumption

LEMMA VaultConstants ==
    /\ TokenA # TokenB /\ VaultTabs!Tokens = {TokenA, TokenB}
    /\ MinLiquidity \in Nat \ {0} /\ FeeBps \in 0 .. 1000
    /\ FeeCap \in [VaultTabs!Tokens -> Nat]
    /\ Traded \subseteq Nat /\ 0 \notin Traded /\ MaxTrades \in Nat
    /\ Holding \in Nat /\ Liquidity \in Nat
    /\ VaultTyped["deposit"] \subseteq Nat /\ VaultTyped["withdraw"] \subseteq Nat
    /\ VaultTyped["swap"] \subseteq Nat /\ VaultTyped["addLiquidity"] \subseteq Nat
<1>1. VaultTyped \in [{"deposit", "withdraw", "swap", "addLiquidity"} -> SUBSET Nat]
  BY VaultAssumed DEF VaultTabs!VaultPageAssumption
<1>2. /\ TokenA # TokenB /\ MinLiquidity \in Nat \ {0} /\ FeeBps \in 0 .. 1000
      /\ Traded \subseteq Nat \ {0} /\ MaxTrades \in Nat /\ Holding \in Nat /\ Liquidity \in Nat
      /\ FeeCap \in [VaultTabs!Tokens -> Nat]
  BY VaultAssumed DEF VaultTabs!VaultPageAssumption
<1>3. VaultTabs!Tokens = {TokenA, TokenB}
  BY DEF VaultTabs!Tokens
<1>4. Traded \subseteq Nat /\ 0 \notin Traded
  BY <1>2
<1>5. /\ VaultTyped["deposit"] \subseteq Nat /\ VaultTyped["withdraw"] \subseteq Nat
      /\ VaultTyped["swap"] \subseteq Nat /\ VaultTyped["addLiquidity"] \subseteq Nat
  BY <1>1
<1> QED BY <1>2, <1>3, <1>4, <1>5

LEMMA OtherToken ==
    /\ VaultTabs!Other(TokenA) = TokenB /\ VaultTabs!Other(TokenB) = TokenA
    /\ \A t \in VaultTabs!Tokens : VaultTabs!Other(t) \in VaultTabs!Tokens /\ VaultTabs!Other(t) # t
BY VaultConstants DEF VaultTabs!Other

-----------------------------------------------------------------------------
(* The arithmetic of a swap: the fee is a part of what comes in, and what    *)
(* goes out is rounded down.                                                 *)
LEMMA PartBelow ==
    ASSUME NEW p \in Nat, NEW a \in Nat, NEW d \in Nat \ {0}, a <= d
    PROVE  (p * a) \div d \in Nat /\ (p * a) \div d <= p
OBVIOUS

LEMMA FeeIsPart ==
    ASSUME NEW in \in VaultTabs!Tokens, NEW v \in Nat
    PROVE  VaultTabs!Fee(in, v) \in Nat /\ VaultTabs!Fee(in, v) <= v
<1> DEFINE fee == (v * FeeBps) \div 10000
<1>1. FeeBps \in Nat /\ FeeBps <= 10000 /\ FeeCap[in] \in Nat
  BY VaultConstants
<1>2. fee \in Nat /\ fee <= v
  BY <1>1, PartBelow
<1>3. VaultTabs!Fee(in, v) = IF FeeCap[in] > 0 /\ fee > FeeCap[in] THEN FeeCap[in] ELSE fee
  BY DEF VaultTabs!Fee
<1> HIDE DEF fee
<1> QED BY <1>1, <1>2, <1>3

LEMMA ProductGrows ==
    ASSUME NEW x \in Nat \ {0}, NEW y \in Nat, NEW n \in Nat
    PROVE  LET q == (y * n) \div (x + n)
           IN  q \in Nat /\ (q <= y => (x + n) * (y - q) >= x * y)
<1> DEFINE d == x + n
           q == (y * n) \div d
<1>1. d \in Nat \ {0} /\ y * n \in Nat
  OBVIOUS
<1>2. q \in Nat /\ d * q <= y * n
  <2> HIDE DEF d
  <2> QED BY <1>1
<1>3. q <= y => d * (y - q) >= x * y
  <2> SUFFICES ASSUME q <= y PROVE d * (y - q) >= x * y
    OBVIOUS
  <2> HIDE DEF q
  <2>1. d * (y - q) = d * y - d * q
    BY <1>1, <1>2
  <2>2. d * y = x * y + y * n
    OBVIOUS
  <2>3. d * y \in Nat /\ d * q \in Nat /\ x * y \in Nat
    BY <1>1, <1>2
  <2> QED BY <1>1, <1>2, <2>1, <2>2, <2>3
<1> QED BY <1>2, <1>3

LEMMA MoreKept ==
    ASSUME NEW n \in Nat, NEW m \in Nat, n <= m, NEW x \in Nat, NEW z \in Nat
    PROVE  (x + n) * z <= (x + m) * z
<1>1. PICK d \in Nat : m = n + d
  <2>1. m - n \in Nat /\ m = n + (m - n)
    OBVIOUS
  <2> QED BY <2>1
<1>2. (x + m) * z = (x + n) * z + d * z
  BY <1>1
<1>3. (x + n) * z \in Nat /\ d * z \in Nat
  OBVIOUS
<1> QED BY <1>2, <1>3

(* AMMPool.sol swap.                                                         *)
LEMMA SwapKeepsProduct ==
    ASSUME VaultInv, NEW in \in VaultTabs!Tokens, NEW v \in Nat, VaultTabs!Swap(in, v)
    PROVE  /\ reserve' \in [VaultTabs!Tokens -> Nat] /\ trades' \in 0 .. MaxTrades
           /\ VaultTabs!GetAmountOut(in, v) \in Nat
           /\ PoolProduct(reserve') >= PoolProduct(reserve)
<1> DEFINE out == VaultTabs!Other(in)
           n == v - VaultTabs!Fee(in, v)
           m == VaultTabs!Kept(in, v)
           x == reserve[in]
           y == reserve[out]
           q == VaultTabs!GetAmountOut(in, v)
<1>1. /\ reserve' = [t \in VaultTabs!Tokens |-> IF t = in THEN reserve[t] + m
                                                ELSE reserve[t] - q]
      /\ VaultTabs!SwapAccepts(in, v) /\ trades < MaxTrades /\ trades' = trades + 1
  BY DEF VaultTabs!Swap
<1>2. out \in VaultTabs!Tokens /\ out # in /\ n \in Nat /\ m \in Nat /\ n <= m
  <2>1. n \in Nat /\ n <= v
    BY FeeIsPart
  <2>2. m = n \/ m = v
    BY DEF VaultTabs!Kept
  <2> QED BY <2>1, <2>2, OtherToken
<1>3. reserve \in [VaultTabs!Tokens -> Nat] /\ trades \in 0 .. MaxTrades
  BY DEF VaultInv, PoolTyped
<1>4. x >= MinLiquidity /\ q < y
  BY <1>1 DEF VaultTabs!SwapAccepts
<1>5. x \in Nat \ {0} /\ y \in Nat
  <2>1. x \in Nat /\ y \in Nat
    BY <1>2, <1>3
  <2> QED BY <1>4, <2>1, VaultConstants
<1>6. q = (y * n) \div (x + n)
  BY DEF VaultTabs!GetAmountOut
<1>7. VaultTabs!Tokens = {in, out}
  BY <1>2, VaultConstants
<1>8. reserve'[in] = x + m /\ reserve'[out] = y - q
  <2> HIDE DEF q, m
  <2> QED BY <1>1, <1>2
<1> HIDE DEF out, n, m, x, y, q
<1>10. q \in Nat /\ (q <= y => (x + n) * (y - q) >= x * y)
  BY <1>2, <1>5, <1>6, ProductGrows
<1>11. q <= y /\ y - q \in Nat /\ x + m \in Nat
  BY <1>2, <1>4, <1>5, <1>10
<1>12. reserve' \in [VaultTabs!Tokens -> Nat]
  <2>1. DOMAIN reserve' = VaultTabs!Tokens /\ reserve' = [t \in VaultTabs!Tokens |-> reserve'[t]]
    BY <1>1
  <2>2. \A t \in VaultTabs!Tokens : reserve'[t] \in Nat
    BY <1>7, <1>8, <1>11
  <2> QED BY <2>1, <2>2
<1>13. PoolProduct(reserve') >= PoolProduct(reserve)
  <2>1. reserve'[in] * reserve'[out] >= reserve[in] * reserve[out]
    <3>1. (x + n) * (y - q) <= (x + m) * (y - q)
      BY <1>2, <1>5, <1>11, MoreKept
    <3>2. (x + n) * (y - q) >= x * y
      BY <1>10, <1>11
    <3>3. (x + n) * (y - q) \in Nat /\ (x + m) * (y - q) \in Nat /\ x * y \in Nat
      BY <1>2, <1>5, <1>11
    <3>4. (x + m) * (y - q) >= x * y
      BY <3>1, <3>2, <3>3
    <3> QED BY <1>8, <3>4 DEF x, y
  <2>2. CASE in = TokenA
    <3>1. out = TokenB
      BY <2>2, OtherToken DEF out
    <3> QED BY <2>1, <2>2, <3>1 DEF PoolProduct
  <2>3. CASE in = TokenB
    <3>1. out = TokenA
      BY <2>3, OtherToken DEF out
    <3>2. /\ reserve[TokenA] \in Nat /\ reserve[TokenB] \in Nat
          /\ reserve'[TokenA] \in Nat /\ reserve'[TokenB] \in Nat
      BY <1>3, <1>12, VaultConstants
    <3>3. reserve'[TokenB] * reserve'[TokenA] >= reserve[TokenB] * reserve[TokenA]
      BY <2>1, <2>3, <3>1
    <3>4. /\ reserve'[TokenB] * reserve'[TokenA] = reserve'[TokenA] * reserve'[TokenB]
          /\ reserve[TokenB] * reserve[TokenA] = reserve[TokenA] * reserve[TokenB]
      BY <3>2
    <3> QED BY <3>3, <3>4 DEF PoolProduct
  <2> QED BY <2>2, <2>3, VaultConstants
<1>14. trades' \in 0 .. MaxTrades
  BY <1>1, <1>3, VaultConstants
<1> QED BY <1>10, <1>12, <1>13, <1>14 DEF q

(* AMMPool.sol addLiquidity.                                                 *)
LEMMA AddKeepsProduct ==
    ASSUME VaultInv, NEW amount \in [VaultTabs!Tokens -> Nat], VaultTabs!AddLiquidity(amount)
    PROVE  /\ reserve' \in [VaultTabs!Tokens -> Nat] /\ trades' \in 0 .. MaxTrades
           /\ PoolProduct(reserve') >= PoolProduct(reserve)
<1>1. /\ reserve' = [t \in VaultTabs!Tokens |-> reserve[t] + amount[t]]
      /\ trades < MaxTrades /\ trades' = trades + 1
  BY DEF VaultTabs!AddLiquidity
<1>2. reserve \in [VaultTabs!Tokens -> Nat] /\ trades \in 0 .. MaxTrades
  BY DEF VaultInv, PoolTyped
<1>3. reserve' \in [VaultTabs!Tokens -> Nat] /\ trades' \in 0 .. MaxTrades
  BY <1>1, <1>2, VaultConstants
<1> DEFINE x == reserve[TokenA]
           y == reserve[TokenB]
           a == amount[TokenA]
           b == amount[TokenB]
<1>4. x \in Nat /\ y \in Nat /\ a \in Nat /\ b \in Nat
  BY <1>2, VaultConstants
<1>5. reserve'[TokenA] = x + a /\ reserve'[TokenB] = y + b
  BY <1>1, VaultConstants
<1>6. PoolProduct(reserve) = x * y /\ PoolProduct(reserve') = (x + a) * (y + b)
  BY <1>5 DEF PoolProduct
<1> HIDE DEF x, y, a, b
<1>7. (x + a) * (y + b) = x * y + a * y + (x + a) * b
  BY <1>4
<1>8. a * y \in Nat /\ (x + a) * b \in Nat /\ x * y \in Nat
  BY <1>4
<1> QED BY <1>3, <1>6, <1>7, <1>8

(* AMMPool.sol removeLiquidity: no more than there is, nor, but for the      *)
(* owner, than is recorded.                                                  *)
LEMMA RemoveKeeps ==
    ASSUME VaultInv, VaultTabs!RemoveLiquidity
    PROVE  VaultInv'
<1>1. PICK out \in [VaultTabs!Tokens -> {0} \cup Traded], byOwner \in BOOLEAN :
         /\ \A t \in VaultTabs!Tokens :
               out[t] <= reserve[t] /\ (byOwner \/ out[t] <= provided[t])
         /\ reserve' = [t \in VaultTabs!Tokens |-> reserve[t] - out[t]]
         /\ provided' = IF byOwner THEN provided
                        ELSE [t \in VaultTabs!Tokens |-> provided[t] - out[t]]
  BY DEF VaultTabs!RemoveLiquidity
<1>2. \A t \in VaultTabs!Tokens : out[t] \in Nat
  <2>1. {0} \cup Traded \subseteq Nat
    BY VaultConstants
  <2> QED BY <2>1
<1>3. /\ reserve \in [VaultTabs!Tokens -> Nat] /\ provided \in [VaultTabs!Tokens -> Nat]
      /\ trades \in 0 .. MaxTrades /\ trades < MaxTrades /\ trades' = trades + 1
  BY DEF VaultInv, PoolTyped, VaultTabs!RemoveLiquidity
<1>4. PoolTyped'
  <2>1. reserve' \in [VaultTabs!Tokens -> Nat]
    BY <1>1, <1>2, <1>3
  <2>2. provided' \in [VaultTabs!Tokens -> Nat]
    BY <1>1, <1>2, <1>3
  <2>3. trades' \in 0 .. MaxTrades
    BY <1>3, VaultConstants
  <2> QED BY <2>1, <2>2, <2>3 DEF PoolTyped
<1>5. UNCHANGED <<tokens, vaulted, vaultAllowed, poolAllowed, vaultCall>>
  BY DEF VaultTabs!RemoveLiquidity
<1>6. VaultChainTyped' /\ VaultCallsTyped'
  BY <1>5 DEF VaultInv, VaultChainTyped, VaultCallsTyped
<1> QED BY <1>4, <1>6 DEF VaultInv

-----------------------------------------------------------------------------
LEMMA VaultFrames ==
    ASSUME VaultInv
    PROVE  /\ UNCHANGED <<tokens, vaulted, vaultAllowed, poolAllowed>> => VaultChainTyped'
           /\ UNCHANGED <<reserve, provided, trades>> => PoolTyped'
           /\ UNCHANGED vaultCall => VaultCallsTyped'
<1>1. UNCHANGED <<tokens, vaulted, vaultAllowed, poolAllowed>> => VaultChainTyped'
  BY DEF VaultInv, VaultChainTyped
<1>2. UNCHANGED <<reserve, provided, trades>> => PoolTyped'
  BY DEF VaultInv, PoolTyped
<1>3. UNCHANGED vaultCall => VaultCallsTyped'
  BY DEF VaultInv, VaultCallsTyped
<1> QED BY <1>1, <1>2, <1>3

LEMMA VaultCallSet ==
    ASSUME VaultInv, NEW k \in VaultTabs!Handlers, NEW c, c \in TransferCall \/ c = Idle,
           vaultCall' = [vaultCall EXCEPT ![k] = c]
    PROVE  VaultCallsTyped'
BY DEF VaultInv, VaultCallsTyped

LEMMA AmountsTyped ==
    ASSUME NEW a \in Nat, NEW b \in Nat
    PROVE  /\ VaultTabs!Amounts(a, b) \in [VaultTabs!Tokens -> Nat]
           /\ VaultTabs!Steps(VaultTabs!Amounts(a, b))
                 \in [VaultTabs!Tokens -> {"check", "clear", "approve", "ready"}]
<1>1. VaultTabs!Amounts(a, b) \in [VaultTabs!Tokens -> Nat]
  BY DEF VaultTabs!Amounts
<1>2. VaultTabs!Steps(VaultTabs!Amounts(a, b))
         \in [VaultTabs!Tokens -> {"check", "clear", "approve", "ready"}]
  BY DEF VaultTabs!Steps
<1> QED BY <1>1, <1>2

LEMMA RunKeeps ==
    ASSUME VaultInv, NEW k \in VaultTabs!Handlers, NEW amount \in [VaultTabs!Tokens -> Nat],
           NEW allow \in [VaultTabs!Tokens -> {"check", "clear", "approve", "ready"}],
           VaultTabs!RunWithLoading(k, amount, allow)
    PROVE  VaultInv' /\ reserve' = reserve
<1> DEFINE c == [amount |-> amount, allow |-> allow, at |-> "allow"]
<1>1. vaultCall' = [vaultCall EXCEPT ![k] = c] /\ UNCHANGED VaultTabs!chainVars
  BY DEF VaultTabs!RunWithLoading
<1>2. c \in TransferCall
  BY DEF TransferCall
<1> HIDE DEF c
<1>3. VaultCallsTyped'
  BY <1>1, <1>2, VaultCallSet
<1>4. UNCHANGED <<tokens, vaulted, vaultAllowed, poolAllowed, reserve, provided, trades>>
  BY <1>1 DEF VaultTabs!chainVars
<1> QED BY <1>3, <1>4, VaultFrames DEF VaultInv

LEMMA HandlersKeep ==
    ASSUME VaultInv,
           \/ VaultTabs!HandleDeposit \/ VaultTabs!HandleWithdraw
           \/ VaultTabs!HandleSwap \/ VaultTabs!HandleAddLiquidity
    PROVE  VaultInv' /\ reserve' = reserve
<1>1. {"deposit", "withdraw", "swap", "addLiquidity"} \subseteq VaultTabs!Handlers
  BY DEF VaultTabs!Handlers, VaultTabs!VaultCards, VaultTabs!SwapCards
<1>2. CASE VaultTabs!HandleDeposit
  <2>1. PICK v \in VaultTyped["deposit"] :
           VaultTabs!RunWithLoading("deposit", VaultTabs!Amounts(v, 0),
                                    VaultTabs!Steps(VaultTabs!Amounts(v, 0)))
    BY <1>2 DEF VaultTabs!HandleDeposit
  <2>2. v \in Nat
    BY VaultConstants
  <2> QED BY <1>1, <2>1, <2>2, AmountsTyped, RunKeeps
<1>3. CASE VaultTabs!HandleWithdraw
  <2>1. PICK v \in VaultTyped["withdraw"] :
           VaultTabs!RunWithLoading("withdraw", VaultTabs!Amounts(v, 0),
                                    VaultTabs!Steps(VaultTabs!Amounts(0, 0)))
    BY <1>3 DEF VaultTabs!HandleWithdraw
  <2>2. v \in Nat
    BY VaultConstants
  <2> QED BY <1>1, <2>1, <2>2, AmountsTyped, RunKeeps
<1>4. CASE VaultTabs!HandleSwap
  <2>1. PICK v \in VaultTyped["swap"] :
           \/ VaultTabs!RunWithLoading("swap", VaultTabs!Amounts(v, 0),
                                       VaultTabs!Steps(VaultTabs!Amounts(v, 0)))
           \/ VaultTabs!RunWithLoading("swap", VaultTabs!Amounts(0, v),
                                       VaultTabs!Steps(VaultTabs!Amounts(0, v)))
    BY <1>4 DEF VaultTabs!HandleSwap
  <2>2. v \in Nat
    BY VaultConstants
  <2> QED BY <1>1, <2>1, <2>2, AmountsTyped, RunKeeps
<1>5. CASE VaultTabs!HandleAddLiquidity
  <2>1. PICK v \in VaultTyped["addLiquidity"], w \in VaultTyped["addLiquidity"] :
           VaultTabs!RunWithLoading("addLiquidity", VaultTabs!Amounts(v, w),
                                    VaultTabs!Steps(VaultTabs!Amounts(v, w)))
    BY <1>5 DEF VaultTabs!HandleAddLiquidity
  <2>2. v \in Nat /\ w \in Nat
    BY VaultConstants
  <2> QED BY <1>1, <2>1, <2>2, AmountsTyped, RunKeeps
<1> QED BY <1>2, <1>3, <1>4, <1>5

(* ensureAllowance, which takes a step at a time for each token.             *)
LEMMA AllowanceKeeps ==
    ASSUME VaultInv, NEW k \in VaultTabs!Handlers, NEW t \in VaultTabs!Tokens,
           \/ VaultTabs!CheckAllowance(k, t) \/ VaultTabs!ClearAllowance(k, t)
           \/ VaultTabs!ApproveAmount(k, t)
    PROVE  VaultInv' /\ reserve' = reserve
<1>1. vaultCall[k] \in TransferCall
  BY DEF VaultInv, VaultCallsTyped, VaultTabs!CheckAllowance, VaultTabs!ClearAllowance,
         VaultTabs!ApproveAmount
<1>2. UNCHANGED <<tokens, vaulted, reserve, provided, trades>>
  BY DEF VaultTabs!CheckAllowance, VaultTabs!ClearAllowance, VaultTabs!ApproveAmount,
         VaultTabs!Approve, VaultTabs!chainVars
<1>3. \E step \in {"clear", "approve", "ready"} : VaultTabs!Step(k, t, step)
  BY DEF VaultTabs!CheckAllowance, VaultTabs!ClearAllowance, VaultTabs!ApproveAmount
<1>4. VaultCallsTyped'
  <2>1. PICK step \in {"clear", "approve", "ready"} : VaultTabs!Step(k, t, step)
    BY <1>3
  <2> DEFINE a == [vaultCall[k].allow EXCEPT ![t] = step]
             c == [amount |-> vaultCall[k].amount, allow |-> a, at |-> vaultCall[k].at]
  <2>2. vaultCall' = [vaultCall EXCEPT ![k] = c]
    BY <2>1 DEF VaultTabs!Step
  <2>3. vaultCall[k].allow \in [VaultTabs!Tokens -> {"check", "clear", "approve", "ready"}]
    BY <1>1 DEF TransferCall
  <2>4. a \in [VaultTabs!Tokens -> {"check", "clear", "approve", "ready"}]
    BY <2>3
  <2> HIDE DEF a
  <2>5. c \in TransferCall
    BY <1>1, <2>4 DEF TransferCall
  <2> HIDE DEF c
  <2> QED BY <2>2, <2>5, VaultCallSet
<1>5. VaultChainTyped'
  <2>1. vaultAllowed \in [VaultTabs!Tokens -> Nat] /\ poolAllowed \in [VaultTabs!Tokens -> Nat]
        /\ vaultCall[k].amount[t] \in Nat
    BY <1>1 DEF TransferCall, VaultInv, VaultChainTyped
  <2>2. ASSUME NEW v \in Nat, VaultTabs!Approve(k, t, v)
        PROVE  vaultAllowed' \in [VaultTabs!Tokens -> Nat]
          /\ poolAllowed' \in [VaultTabs!Tokens -> Nat]
    <3>1. \/ vaultAllowed' = [vaultAllowed EXCEPT ![t] = v] /\ poolAllowed' = poolAllowed
          \/ poolAllowed' = [poolAllowed EXCEPT ![t] = v] /\ vaultAllowed' = vaultAllowed
      BY <2>2 DEF VaultTabs!Approve
    <3> QED BY <2>1, <3>1
  <2>3. CASE VaultTabs!CheckAllowance(k, t)
    BY <2>1, <2>3 DEF VaultTabs!CheckAllowance, VaultTabs!chainVars, VaultChainTyped, VaultInv
  <2>4. CASE VaultTabs!ClearAllowance(k, t)
    BY <1>2, <2>2, <2>4 DEF VaultTabs!ClearAllowance, VaultChainTyped, VaultInv
  <2>5. CASE VaultTabs!ApproveAmount(k, t)
    BY <1>2, <2>1, <2>2, <2>5 DEF VaultTabs!ApproveAmount, VaultChainTyped, VaultInv
  <2> QED BY <2>3, <2>4, <2>5
<1> QED BY <1>2, <1>4, <1>5, VaultFrames DEF VaultInv

LEMMA CallOverKeeps ==
    ASSUME VaultInv, NEW k \in VaultTabs!Handlers,
           VaultTabs!CallFails(k) \/ VaultTabs!CallDone(k)
    PROVE  VaultInv' /\ reserve' = reserve
<1>1. vaultCall' = [vaultCall EXCEPT ![k] = Idle] /\ UNCHANGED VaultTabs!chainVars
  BY DEF VaultTabs!CallFails, VaultTabs!CallDone
<1>2. UNCHANGED <<tokens, vaulted, vaultAllowed, poolAllowed, reserve, provided, trades>>
  BY <1>1 DEF VaultTabs!chainVars
<1>3. VaultCallsTyped'
  BY <1>1, VaultCallSet
<1> QED BY <1>2, <1>3, VaultFrames DEF VaultInv

(* What is subtracted was there.                                             *)
LEMMA LessTyped ==
    ASSUME NEW f \in [VaultTabs!Tokens -> Nat], NEW amount \in [VaultTabs!Tokens -> Nat],
           \A t \in VaultTabs!Tokens : amount[t] <= f[t]
    PROVE  [t \in VaultTabs!Tokens |-> f[t] - amount[t]] \in [VaultTabs!Tokens -> Nat]
OBVIOUS

LEMMA MoreTyped ==
    ASSUME NEW f \in [VaultTabs!Tokens -> Nat], NEW amount \in [VaultTabs!Tokens -> Nat]
    PROVE  [t \in VaultTabs!Tokens |-> f[t] + amount[t]] \in [VaultTabs!Tokens -> Nat]
OBVIOUS

(* A transaction of a handler: the account's side, and the pool's.           *)
LEMMA MinedTyped ==
    ASSUME VaultInv, NEW amount \in [VaultTabs!Tokens -> Nat],
           \/ VaultTabs!Deposit(amount) \/ VaultTabs!Withdraw(amount)
           \/ VaultTabs!SwapMine(amount) \/ VaultTabs!AddMine(amount)
    PROVE  /\ VaultChainTyped'
           /\ reserve' \in [VaultTabs!Tokens -> Nat] /\ trades' \in 0 .. MaxTrades
           /\ PoolProduct(reserve') >= PoolProduct(reserve)
<1>1. /\ tokens \in [VaultTabs!Tokens -> Nat] /\ vaulted \in [VaultTabs!Tokens -> Nat]
      /\ vaultAllowed \in [VaultTabs!Tokens -> Nat] /\ poolAllowed \in [VaultTabs!Tokens -> Nat]
      /\ reserve \in [VaultTabs!Tokens -> Nat] /\ trades \in 0 .. MaxTrades
  BY DEF VaultInv, VaultChainTyped, PoolTyped
<1>2. PoolProduct(reserve) >= PoolProduct(reserve)
  <2>1. reserve[TokenA] \in Nat /\ reserve[TokenB] \in Nat
    BY <1>1, VaultConstants
  <2>2. reserve[TokenA] * reserve[TokenB] \in Nat
    BY <2>1
  <2> QED BY <2>2 DEF PoolProduct
<1>3. CASE VaultTabs!Deposit(amount)
  <2>1. /\ \A t \in VaultTabs!Tokens : amount[t] <= vaultAllowed[t] /\ amount[t] <= tokens[t]
        /\ tokens' = [t \in VaultTabs!Tokens |-> tokens[t] - amount[t]]
        /\ vaultAllowed' = [t \in VaultTabs!Tokens |-> vaultAllowed[t] - amount[t]]
        /\ vaulted' = [t \in VaultTabs!Tokens |-> vaulted[t] + amount[t]]
        /\ UNCHANGED <<poolAllowed, reserve, trades>>
    BY <1>3 DEF VaultTabs!Deposit, VaultTabs!Take, VaultTabs!Less
  <2>2. VaultChainTyped'
    BY <1>1, <2>1, LessTyped, MoreTyped DEF VaultChainTyped
  <2> QED BY <1>1, <1>2, <2>1, <2>2
<1>4. CASE VaultTabs!Withdraw(amount)
  <2>1. /\ \A t \in VaultTabs!Tokens : amount[t] <= vaulted[t]
        /\ vaulted' = [t \in VaultTabs!Tokens |-> vaulted[t] - amount[t]]
        /\ tokens' = [t \in VaultTabs!Tokens |-> tokens[t] + amount[t]]
        /\ UNCHANGED <<vaultAllowed, poolAllowed, reserve, trades>>
    BY <1>4 DEF VaultTabs!Withdraw, VaultTabs!Less
  <2>2. VaultChainTyped'
    BY <1>1, <2>1, LessTyped, MoreTyped DEF VaultChainTyped
  <2> QED BY <1>1, <1>2, <2>1, <2>2
<1>5. CASE VaultTabs!SwapMine(amount)
  <2>1. PICK in \in VaultTabs!Tokens :
          /\ amount[in] # 0 /\ VaultTabs!Swap(in, amount[in])
          /\ amount[in] <= poolAllowed[in] /\ amount[in] <= tokens[in]
          /\ poolAllowed' = [poolAllowed EXCEPT ![in] = @ - amount[in]]
          /\ tokens' = [t \in VaultTabs!Tokens |->
                           IF t = in THEN tokens[t] - amount[in]
                           ELSE tokens[t] + VaultTabs!GetAmountOut(in, amount[in])]
          /\ UNCHANGED <<vaulted, vaultAllowed>>
    BY <1>5 DEF VaultTabs!SwapMine
  <2>2. amount[in] \in Nat
    OBVIOUS
  <2>3. /\ reserve' \in [VaultTabs!Tokens -> Nat] /\ trades' \in 0 .. MaxTrades
        /\ VaultTabs!GetAmountOut(in, amount[in]) \in Nat
        /\ PoolProduct(reserve') >= PoolProduct(reserve)
    BY <2>1, <2>2, SwapKeepsProduct
  <2>4. tokens' \in [VaultTabs!Tokens -> Nat]
    BY <1>1, <2>1, <2>2, <2>3
  <2>5. poolAllowed' \in [VaultTabs!Tokens -> Nat]
    BY <1>1, <2>1, <2>2
  <2>6. VaultChainTyped'
    BY <1>1, <2>1, <2>4, <2>5 DEF VaultChainTyped
  <2> QED BY <2>3, <2>6
<1>6. CASE VaultTabs!AddMine(amount)
  <2>1. /\ \A t \in VaultTabs!Tokens : amount[t] <= poolAllowed[t] /\ amount[t] <= tokens[t]
        /\ tokens' = [t \in VaultTabs!Tokens |-> tokens[t] - amount[t]]
        /\ poolAllowed' = [t \in VaultTabs!Tokens |-> poolAllowed[t] - amount[t]]
        /\ UNCHANGED <<vaulted, vaultAllowed>> /\ VaultTabs!AddLiquidity(amount)
    BY <1>6 DEF VaultTabs!AddMine, VaultTabs!Take, VaultTabs!Less
  <2>2. VaultChainTyped'
    BY <1>1, <2>1, LessTyped DEF VaultChainTyped
  <2> QED BY <2>1, <2>2, AddKeepsProduct
<1> QED BY <1>3, <1>4, <1>5, <1>6

LEMMA CallMinedKeeps ==
    ASSUME VaultInv, NEW k \in VaultTabs!Handlers, VaultTabs!CallMined(k)
    PROVE  VaultInv' /\ PoolProduct(reserve') >= PoolProduct(reserve)
<1> DEFINE c == vaultCall[k]
           d == [c EXCEPT !.at = "mined"]
<1>1. c \in TransferCall
  BY DEF VaultInv, VaultCallsTyped, VaultTabs!CallMined
<1>2. vaultCall' = [vaultCall EXCEPT ![k] = d] /\ provided' = provided
  BY DEF VaultTabs!CallMined
<1>3. d \in TransferCall /\ c.amount \in [VaultTabs!Tokens -> Nat]
  BY <1>1 DEF TransferCall
<1>4. \/ VaultTabs!Deposit(c.amount) \/ VaultTabs!Withdraw(c.amount)
      \/ VaultTabs!SwapMine(c.amount) \/ VaultTabs!AddMine(c.amount)
  <2>1. k \in {"deposit", "withdraw", "swap", "addLiquidity"}
    BY DEF VaultTabs!Handlers, VaultTabs!VaultCards, VaultTabs!SwapCards
  <2> QED BY <2>1 DEF VaultTabs!CallMined
<1> HIDE DEF d, c
<1>5. VaultCallsTyped'
  BY <1>2, <1>3, VaultCallSet
<1>6. /\ VaultChainTyped'
      /\ reserve' \in [VaultTabs!Tokens -> Nat] /\ trades' \in 0 .. MaxTrades
      /\ PoolProduct(reserve') >= PoolProduct(reserve)
  BY <1>3, <1>4, MinedTyped
<1>7. PoolTyped'
  BY <1>2, <1>6 DEF VaultInv, PoolTyped
<1> QED BY <1>5, <1>6, <1>7 DEF VaultInv

-----------------------------------------------------------------------------
LEMMA SameProduct ==
    ASSUME VaultInv, reserve' = reserve
    PROVE  PoolProduct(reserve') >= PoolProduct(reserve)
<1>1. reserve[TokenA] \in Nat /\ reserve[TokenB] \in Nat
  BY VaultConstants DEF VaultInv, PoolTyped
<1>2. reserve[TokenA] * reserve[TokenB] \in Nat
  BY <1>1
<1> QED BY <1>2 DEF PoolProduct

LEMMA StepKeepsVaultInv ==
    ASSUME VaultInv, [VaultTabs!Next]_(VaultTabs!vars)
    PROVE  /\ VaultInv'
           /\ VaultTabs!RemoveLiquidity \/ PoolProduct(reserve') >= PoolProduct(reserve)
<1>1. CASE UNCHANGED VaultTabs!vars
  <2>1. UNCHANGED <<tokens, vaulted, vaultAllowed, poolAllowed, reserve, provided, trades,
                    vaultCall>>
    BY <1>1 DEF VaultTabs!vars, VaultTabs!chainVars
  <2> QED BY <2>1, VaultFrames, SameProduct DEF VaultInv
<1>2. CASE VaultTabs!OthersSwap
  <2>1. PICK in \in VaultTabs!Tokens, v \in Traded : VaultTabs!Swap(in, v)
    BY <1>2 DEF VaultTabs!OthersSwap
  <2>2. v \in Nat
    BY VaultConstants
  <2>3. /\ reserve' \in [VaultTabs!Tokens -> Nat] /\ trades' \in 0 .. MaxTrades
        /\ PoolProduct(reserve') >= PoolProduct(reserve)
    BY <2>1, <2>2, SwapKeepsProduct
  <2>4. UNCHANGED <<tokens, vaulted, vaultAllowed, poolAllowed, provided, vaultCall>>
    BY <1>2 DEF VaultTabs!OthersSwap
  <2>5. PoolTyped'
    BY <2>3, <2>4 DEF VaultInv, PoolTyped
  <2> QED BY <2>3, <2>4, <2>5, VaultFrames DEF VaultInv
<1>3. CASE VaultTabs!RemoveLiquidity
  BY <1>3, RemoveKeeps
<1>4. CASE \/ VaultTabs!HandleDeposit \/ VaultTabs!HandleWithdraw
           \/ VaultTabs!HandleSwap \/ VaultTabs!HandleAddLiquidity
  BY <1>4, HandlersKeep, SameProduct
<1>5. ASSUME NEW k \in VaultTabs!Handlers, VaultTabs!Continue(k)
      PROVE  VaultInv' /\ PoolProduct(reserve') >= PoolProduct(reserve)
  <2>1. CASE VaultTabs!CallMined(k)
    BY <2>1, CallMinedKeeps
  <2>2. CASE VaultTabs!CallFails(k) \/ VaultTabs!FetchBalances(k) \/ VaultTabs!FetchReserves(k)
    BY <2>2, CallOverKeeps, SameProduct DEF VaultTabs!FetchBalances, VaultTabs!FetchReserves
  <2>3. ASSUME NEW t \in VaultTabs!Tokens,
               \/ VaultTabs!CheckAllowance(k, t) \/ VaultTabs!ClearAllowance(k, t)
               \/ VaultTabs!ApproveAmount(k, t)
        PROVE  VaultInv' /\ PoolProduct(reserve') >= PoolProduct(reserve)
    BY <2>3, AllowanceKeeps, SameProduct
  <2> QED BY <1>5, <2>1, <2>2, <2>3 DEF VaultTabs!Continue
<1> QED BY <1>1, <1>2, <1>3, <1>4, <1>5 DEF VaultTabs!Next

LEMMA VaultInitially == VaultTabs!Init => VaultInv
<1> SUFFICES ASSUME VaultTabs!Init PROVE VaultInv
  OBVIOUS
<1>1. VaultChainTyped
  BY VaultConstants DEF VaultTabs!Init, VaultChainTyped
<1>2. PoolTyped
  BY VaultConstants DEF VaultTabs!Init, PoolTyped
<1>3. VaultCallsTyped
  BY DEF VaultTabs!Init, VaultCallsTyped
<1> QED BY <1>1, <1>2, <1>3 DEF VaultInv

LEMMA StepOfVault == [Next]_vars => [VaultTabs!Next]_(VaultTabs!vars)
<1> SUFFICES ASSUME [Next]_vars PROVE VaultTabs!Next \/ UNCHANGED VaultTabs!vars
  OBVIOUS
<1>1. CASE UNCHANGED vaultVars
  BY <1>1 DEF vaultVars, VaultTabs!vars, VaultTabs!chainVars
<1>2. UNCHANGED vaultVars \/ VaultTabs!Next
  BY Zenon DEF Next, vars, BesideBridge, BesideGovernance, BesideClaims, BesideOrders, BesideRelay,
     BesideP2P
<1> QED BY <1>1, <1>2

LEMMA VaultInvariant == Spec => []VaultInv
<1>1. Init => VaultInv
  BY VaultInitially DEF Init
<1>2. VaultInv /\ [Next]_vars => VaultInv'
  BY StepOfVault, StepKeepsVaultInv
<1> QED BY <1>1, <1>2, PTL DEF Spec

(* Only removed liquidity takes value out of the pool, for all amounts,      *)
(* fees, caps and limits, and with all roundings (AMMPool.sol swap,          *)
(* addLiquidity, getAmountOut).                                              *)
THEOREM TradesKeepProduct == Spec => PoolKeepsProduct
<1>1. VaultInv /\ [Next]_vars
        => [VaultTabs!RemoveLiquidity
              \/ reserve'[TokenA] * reserve'[TokenB]
                    >= reserve[TokenA] * reserve[TokenB]]_(VaultTabs!vars)
  BY StepOfVault, StepKeepsVaultInv DEF PoolProduct
<1> QED BY <1>1, VaultInvariant, PTL DEF Spec, PoolKeepsProduct, VaultTabs!PoolKeepsProduct


-----------------------------------------------------------------------------
(* What the governance page has read and reads.                              *)
Reader(r, n) ==
    /\ r.upTo \in 0 .. n /\ r.next \in 1 .. r.upTo + 1 /\ r.list \in Seq(Governance!Row)
ReadingBy == Governance!Kinds \cup {"page"}
ReadersTyped ==
    /\ DOMAIN reading = ReadingBy
    /\ \A by \in ReadingBy : reading[by] # Idle => Reader(reading[by], Len(proposals))
RowsTyped == govRows \in Seq(Governance!Row) /\ govLoading \in BOOLEAN

GovernanceInv == GInv /\ CallsSaid /\ ReadersTyped /\ RowsTyped

(* No proposal is ever taken back.                                           *)
LEMMA ProposalsStay ==
    ASSUME GInv, [Governance!Next]_(Governance!vars)
    PROVE  Len(proposals') >= Len(proposals) /\ Len(proposals) \in Nat
<1>1. proposals \in Seq(Governance!Proposal) /\ Len(proposals) \in Nat
  BY DEF GInv, Polled
<1>2. ASSUME UNCHANGED proposals PROVE Len(proposals') >= Len(proposals)
  BY <1>1, <1>2
<1>3. ASSUME NEW s, NEW n, Governance!CreateProposal(s, n)
      PROVE  Len(proposals') >= Len(proposals)
  <2>1. PICK p : proposals' = Append(proposals, p)
    BY <1>3 DEF Governance!CreateProposal
  <2> QED BY <1>1, <2>1
<1>4. ASSUME NEW a, NEW id, NEW yes, Governance!Vote(a, id, yes)
      PROVE  Len(proposals') >= Len(proposals)
  <2>1. PICK p : proposals' = [proposals EXCEPT ![id] = p]
    <3>1. CASE yes
      <4>1. proposals' = [proposals EXCEPT ![id] = [proposals[id] EXCEPT !.yes = @ + 1]]
        BY <1>4, <3>1 DEF Governance!Vote
      <4> QED BY <4>1
    <3>2. CASE ~yes
      <4>1. proposals' = [proposals EXCEPT ![id] = [proposals[id] EXCEPT !.no = @ + 1]]
        BY <1>4, <3>2 DEF Governance!Vote
      <4> QED BY <4>1
    <3> QED BY <3>1, <3>2
  <2> QED BY <1>1, <2>1
<1>5. ASSUME NEW id, Governance!Execute(id) PROVE Len(proposals') >= Len(proposals)
  <2>1. PICK p : proposals' = [proposals EXCEPT ![id] = p]
    <3>1. proposals' = [proposals EXCEPT ![id] = [proposals[id] EXCEPT !.executed = TRUE]]
      BY <1>5 DEF Governance!Execute
    <3> QED BY <3>1
  <2> QED BY <1>1, <2>1
<1>6. CASE Governance!Others
  BY <1>2, <1>3, <1>4, <1>5, <1>6 DEF Governance!Others, Governance!SetDelegate
<1>7. CASE \/ Governance!GovTick \/ Governance!FetchProposals \/ UNCHANGED Governance!vars
           \/ Governance!VoteInRow \/ Governance!VoteByNumber \/ Governance!HandleExecute
           \/ Governance!HandleCreate
  BY <1>2, <1>7
     DEF Governance!GovTick, Governance!FetchProposals, Governance!vars, Governance!VoteInRow,
         Governance!VoteByNumber, Governance!HandleExecute, Governance!HandleCreate,
         Governance!Start, Governance!chainVars
<1>8. ASSUME NEW k \in ReadingBy, Governance!Continue(k) PROVE Len(proposals') >= Len(proposals)
  <2>1. CASE \/ Governance!GetProposal(k) \/ Governance!ReadingDone(k)
             \/ Governance!ReadingFails(k) \/ Governance!CallFails(k)
    BY <1>2, <2>1
       DEF Governance!GetProposal, Governance!ReadingDone, Governance!ReadingFails,
           Governance!CallFails, Governance!chainVars
  <2>2. CASE Governance!CallMined(k)
    BY <1>3, <1>4, <1>5, <2>2 DEF Governance!CallMined, Governance!Mined
  <2> QED BY <1>8, <2>1, <2>2 DEF Governance!Continue
<1> QED BY <1>1, <1>6, <1>7, <1>8 DEF Governance!Next, ReadingBy

LEMMA ReadersSet ==
    ASSUME ReadersTyped, Len(proposals') >= Len(proposals), Len(proposals) \in Nat,
           Len(proposals') \in Nat, NEW by, NEW r, r # Idle => Reader(r, Len(proposals')),
           reading' = [reading EXCEPT ![by] = r]
    PROVE  ReadersTyped'
<1>1. DOMAIN reading' = ReadingBy
      /\ \A b \in ReadingBy : reading'[b] = IF b = by THEN r ELSE reading[b]
  BY DEF ReadersTyped
<1>2. ASSUME NEW b \in ReadingBy, reading'[b] # Idle
      PROVE  Reader(reading'[b], Len(proposals'))
  <2>1. CASE b = by
    BY <1>1, <1>2, <2>1
  <2>2. CASE b # by
    <3>1. reading'[b] = reading[b] /\ Reader(reading[b], Len(proposals))
      BY <1>1, <1>2, <2>2 DEF ReadersTyped
    <3> QED BY <3>1 DEF Reader
  <2> QED BY <2>1, <2>2
<1> QED BY <1>1, <1>2 DEF ReadersTyped, ReadingBy

LEMMA ReadersSame ==
    ASSUME ReadersTyped, Len(proposals') >= Len(proposals), Len(proposals) \in Nat,
           Len(proposals') \in Nat, UNCHANGED reading
    PROVE  ReadersTyped'
<1>1. ASSUME NEW b \in ReadingBy, reading[b] # Idle PROVE Reader(reading[b], Len(proposals'))
  BY <1>1 DEF ReadersTyped, Reader
<1> QED BY <1>1 DEF ReadersTyped, ReadingBy

(* fetchProposals: the rows it shows are of proposals there are.             *)
LEMMA GetProposalKeeps ==
    ASSUME GovernanceInv, NEW by \in ReadingBy, Governance!GetProposal(by)
    PROVE  ReadersTyped'
<1>1. /\ reading[by] # Idle /\ reading[by].next <= reading[by].upTo
      /\ UNCHANGED proposals
  BY DEF Governance!GetProposal, Governance!chainVars
<1>2. PICK l \in {Append(reading[by].list, Governance!Shown(reading[by].next)),
                  reading[by].list} :
        reading' = [reading EXCEPT ![by] =
                      [upTo |-> reading[by].upTo, next |-> reading[by].next + 1, list |-> l]]
  BY DEF Governance!GetProposal
<1>3. /\ reading[by].upTo \in 0 .. Len(proposals)
      /\ reading[by].next \in 1 .. reading[by].upTo + 1
      /\ reading[by].list \in Seq(Governance!Row)
  BY <1>1 DEF GovernanceInv, ReadersTyped, Reader
<1>4. Len(proposals) \in Nat /\ Len(proposals) <= MaxProposals /\ MaxProposals \in Nat
  BY PageAssumption DEF GovernanceInv, GInv, Governance!GovernanceAssumption
<1> DEFINE u == reading[by].upTo
           x == reading[by].next
<1>5. u \in Nat /\ x \in Nat /\ x \in 1 .. MaxProposals /\ x + 1 \in 1 .. u + 1
  BY <1>1, <1>3, <1>4
<1>6. Governance!Shown(x) \in Governance!Row
  <2>1. (proposals[x].executableAt # 0) \in BOOLEAN
    OBVIOUS
  <2> HIDE DEF x
  <2> QED BY <1>5, <2>1 DEF Governance!Shown, Governance!Row
<1>7. l \in Seq(Governance!Row)
  <2> HIDE DEF x
  <2>1. l = reading[by].list \/ l = Append(reading[by].list, Governance!Shown(x))
    BY <1>2 DEF x
  <2>2. PICK s : s = Governance!Shown(x)
    OBVIOUS
  <2>3. PICK list : list = reading[by].list
    OBVIOUS
  <2>4. list \in Seq(Governance!Row) /\ s \in Governance!Row
    BY <1>3, <1>6, <2>2, <2>3
  <2>5. Append(list, s) \in Seq(Governance!Row)
    BY <2>4, AppendProperties
  <2> QED BY <2>1, <2>2, <2>3, <2>4, <2>5
<1>8. PICK r : r = [upTo |-> u, next |-> x + 1, list |-> l]
  OBVIOUS
<1>9. Reader(r, Len(proposals'))
  <2>1. r.upTo = u /\ r.next = x + 1 /\ r.list = l /\ Len(proposals') = Len(proposals)
    BY <1>1, <1>8
  <2>2. u \in 0 .. Len(proposals)
    BY <1>3
  <2> HIDE DEF u, x
  <2> QED BY <1>5, <1>7, <2>1, <2>2 DEF Reader
<1>10. reading' = [reading EXCEPT ![by] = r]
  BY <1>2, <1>8
<1>11. Len(proposals') \in Nat /\ Len(proposals') >= Len(proposals)
  BY <1>1, <1>4
<1> HIDE DEF u, x
<1> QED BY <1>4, <1>9, <1>10, <1>11, ReadersSet DEF GovernanceInv

LEMMA StepReads ==
    ASSUME GovernanceInv, GInv', [Governance!Next]_(Governance!vars)
    PROVE  ReadersTyped' /\ RowsTyped'
<1>1. Len(proposals') >= Len(proposals) /\ Len(proposals) \in Nat /\ Len(proposals') \in Nat
  BY ProposalsStay DEF GovernanceInv, GInv
<1>2. ReadersTyped /\ RowsTyped
  BY DEF GovernanceInv
<1>3. ASSUME UNCHANGED reading PROVE ReadersTyped'
  BY <1>1, <1>2, <1>3, ReadersSame
<1>4. ASSUME NEW by, reading' = [reading EXCEPT ![by] = Idle] PROVE ReadersTyped'
  <2>1. Idle # Idle => Reader(Idle, Len(proposals'))
    OBVIOUS
  <2> QED BY <1>1, <1>2, <1>4, <2>1, ReadersSet
<1>5. ASSUME NEW by, reading' = [reading EXCEPT ![by] = Governance!StartReading']
      PROVE  ReadersTyped'
  <2>1. PICK r : r = [upTo |-> Len(proposals'), next |-> 1, list |-> <<>>]
    OBVIOUS
  <2>2. reading' = [reading EXCEPT ![by] = r]
    BY <1>5, <2>1 DEF Governance!StartReading
  <2>3. r.upTo = Len(proposals') /\ r.next = 1 /\ r.list = <<>>
    BY <2>1
  <2>4. <<>> \in Seq(Governance!Row)
    OBVIOUS
  <2>5. Reader(r, Len(proposals'))
    BY <1>1, <2>3, <2>4 DEF Reader
  <2> QED BY <1>1, <1>2, <2>2, <2>5, ReadersSet
<1>6. ASSUME UNCHANGED govRows, govLoading' \in BOOLEAN PROVE RowsTyped'
  BY <1>2, <1>6 DEF RowsTyped
<1>7. govLoading \in BOOLEAN
  BY <1>2 DEF RowsTyped
<1>8. CASE \/ Governance!Others \/ Governance!GovTick \/ UNCHANGED Governance!vars
           \/ Governance!VoteInRow \/ Governance!VoteByNumber \/ Governance!HandleExecute
           \/ Governance!HandleCreate
  <2>1. UNCHANGED <<reading, govRows, govLoading>>
    BY <1>8
       DEF Governance!Others, Governance!GovTick, Governance!vars, Governance!pageVars,
           Governance!VoteInRow, Governance!VoteByNumber, Governance!HandleExecute,
           Governance!HandleCreate, Governance!Start
  <2> QED BY <1>3, <1>6, <1>7, <2>1
<1>9. CASE Governance!FetchProposals
  <2>1. /\ reading' = [reading EXCEPT !["page"] = Governance!StartReading]
        /\ govLoading' = TRUE /\ UNCHANGED <<proposals, govRows>>
    BY <1>9 DEF Governance!FetchProposals, Governance!chainVars
  <2>2. Governance!StartReading' = Governance!StartReading
    BY <2>1 DEF Governance!StartReading
  <2> QED BY <1>5, <1>6, <2>1, <2>2
<1>10. ASSUME NEW k \in ReadingBy, Governance!Continue(k) PROVE ReadersTyped' /\ RowsTyped'
  <2>1. CASE Governance!GetProposal(k)
    <3>1. UNCHANGED <<govRows, govLoading>>
      BY <2>1 DEF Governance!GetProposal
    <3> QED BY <1>6, <1>7, <2>1, <3>1, GetProposalKeeps
  <2>2. CASE Governance!ReadingDone(k)
    <3>1. /\ reading[k] # Idle /\ govRows' = reading[k].list /\ govLoading' = FALSE
          /\ reading' = [reading EXCEPT ![k] = Idle]
      BY <2>2 DEF Governance!ReadingDone
    <3>2. reading[k].list \in Seq(Governance!Row)
      BY <1>2, <1>10, <3>1 DEF ReadersTyped, Reader
    <3> QED BY <1>4, <3>1, <3>2 DEF RowsTyped
  <2>3. CASE Governance!ReadingFails(k)
    BY <1>4, <1>6, <2>3 DEF Governance!ReadingFails
  <2>4. CASE Governance!CallFails(k)
    BY <1>3, <1>6, <1>7, <2>4 DEF Governance!CallFails
  <2>5. CASE Governance!CallMined(k)
    <3>1. /\ reading' = [reading EXCEPT ![k] = Governance!StartReading']
          /\ govLoading' = TRUE /\ UNCHANGED govRows
      BY <2>5 DEF Governance!CallMined
    <3> QED BY <1>5, <1>6, <3>1
  <2> QED BY <1>10, <2>1, <2>2, <2>3, <2>4, <2>5 DEF Governance!Continue
<1> QED BY <1>8, <1>9, <1>10 DEF Governance!Next, ReadingBy

LEMMA ReadsInitially == Governance!Init => ReadersTyped /\ RowsTyped
<1> SUFFICES ASSUME Governance!Init PROVE ReadersTyped /\ RowsTyped
  OBVIOUS
<1>1. /\ proposals = <<>> /\ govRows = <<>> /\ govLoading = TRUE
      /\ reading = [by \in Governance!Kinds \cup {"page"} |->
                      IF by = "page" THEN [upTo |-> 0, next |-> 1, list |-> <<>>] ELSE Idle]
  BY DEF Governance!Init, Governance!StartReading
<1>2. DOMAIN reading = ReadingBy
      /\ \A by \in ReadingBy :
            reading[by] = IF by = "page" THEN [upTo |-> 0, next |-> 1, list |-> <<>>] ELSE Idle
  BY <1>1 DEF ReadingBy
<1>3. PICK r : r = [upTo |-> 0, next |-> 1, list |-> <<>>]
  OBVIOUS
<1>4. Reader(r, Len(proposals))
  <2>1. r.upTo = 0 /\ r.next = 1 /\ r.list = <<>> /\ Len(proposals) = 0
    BY <1>1, <1>3
  <2>2. <<>> \in Seq(Governance!Row)
    OBVIOUS
  <2> QED BY <2>1, <2>2 DEF Reader
<1>5. \A by \in ReadingBy : reading[by] = r \/ reading[by] = Idle
  BY <1>2, <1>3
<1>6. RowsTyped
  <2>1. <<>> \in Seq(Governance!Row)
    OBVIOUS
  <2> QED BY <1>1, <2>1 DEF RowsTyped
<1>7. \A by \in ReadingBy : reading[by] # Idle => Reader(reading[by], Len(proposals))
  BY <1>4, <1>5
<1> QED BY <1>2, <1>6, <1>7 DEF ReadersTyped

LEMMA GovernanceInvariant == Spec => []GovernanceInv
<1>1. Init => GovernanceInv
  BY PageAssumption, InitCounted, InitSaid, ReadsInitially DEF Init, GovernanceInv
<1>2. GovernanceInv /\ [Next]_vars => GovernanceInv'
  <2> SUFFICES ASSUME GovernanceInv, [Next]_vars PROVE GovernanceInv'
    OBVIOUS
  <2>1. GInv /\ CallsSaid /\ [Governance!Next]_(Governance!vars)
    BY StepOfPage DEF GovernanceInv
  <2>2. GInv' /\ CallsSaid'
    BY <2>1, PageAssumption, StepCounted, CallsStaySaid
  <2> QED BY <2>1, <2>2, StepReads DEF GovernanceInv
<1> QED BY <1>1, <1>2, PTL DEF Spec


-----------------------------------------------------------------------------
(* The relays: the timers and sockets there are were each asked for.         *)
LEMMA RelayAssumed == Relay!RelayAssumption
  BY Zenon, WebAppAssumption DEF WebAppAssumption

LEMMA RelayCardinality == \A S : Relay!Cardinality(S) = Cardinality(S)
  BY Zenon DEF Relay!Cardinality, Cardinality

TimerRunning == IF reconnectTimer THEN 1 ELSE 0
SocketsTyped ==
    /\ sockets \subseteq Relay!Socket /\ IsFiniteSet(sockets)
    /\ ws = Relay!NoSocket \/ \E s \in sockets : s.id = ws
ClientTyped ==
    /\ urlIndex \in 0 .. UrlCount - 1 /\ failures \in 0 .. Backoff
    /\ reconnectTimer \in BOOLEAN /\ strayTimers \in Nat
ConnectsCounted ==
    /\ connects \in 0 .. MaxConnects
    /\ Cardinality(sockets) + strayTimers + TimerRunning <= connects
RelayInv == SocketsTyped /\ ClientTyped /\ ConnectsCounted

LEMMA ConnectKeeps ==
    ASSUME RelayInv, Relay!Connect
    PROVE  /\ SocketsTyped' /\ Cardinality(sockets) \in Nat /\ Cardinality(sockets') \in Nat
           /\ Cardinality(sockets') <= Cardinality(sockets) + 1
           /\ UNCHANGED <<urlIndex, failures>>
<1>1. UNCHANGED <<urlIndex, failures>> /\ SocketsTyped /\ ClientTyped
  BY DEF Relay!Connect, RelayInv
<1>2. Cardinality(sockets) \in Nat
  BY <1>1, FS_CardinalityType DEF SocketsTyped
<1>3. CASE UNCHANGED <<sockets, ws>>
  BY <1>1, <1>2, <1>3 DEF SocketsTyped
<1>4. CASE \E i \in Relay!FreeIds :
             /\ sockets' = sockets \cup {[id |-> i, relay |-> urlIndex, open |-> FALSE]}
             /\ ws' = i
  <2>1. PICK i \in Relay!FreeIds :
          /\ sockets' = sockets \cup {[id |-> i, relay |-> urlIndex, open |-> FALSE]}
          /\ ws' = i
    BY <1>4
  <2>2. PICK s : s = [id |-> i, relay |-> urlIndex, open |-> FALSE]
    OBVIOUS
  <2>3. s \in Relay!Socket /\ s.id = i
    BY <1>1, <2>1, <2>2 DEF Relay!FreeIds, Relay!Socket, ClientTyped
  <2>4. sockets' = sockets \cup {s}
    BY <2>1, <2>2
  <2>5. /\ IsFiniteSet(sockets')
        /\ Cardinality(sockets') = Cardinality(sockets)
           \/ Cardinality(sockets') = Cardinality(sockets) + 1
    BY <1>1, <2>4, FS_AddElement DEF SocketsTyped
  <2>6. SocketsTyped'
    BY <1>1, <2>1, <2>3, <2>4, <2>5 DEF SocketsTyped
  <2> QED BY <1>1, <1>2, <2>5, <2>6
<1> QED BY <1>3, <1>4 DEF Relay!Connect

LEMMA OnOpenKeeps ==
    ASSUME RelayInv, NEW s, Relay!OnOpen(s)
    PROVE  RelayInv'
<1>1. PICK t : t = [s EXCEPT !.open = TRUE]
  OBVIOUS
<1>2. /\ s \in sockets /\ sockets' = (sockets \ {s}) \cup {t}
      /\ failures' = 0 /\ reconnectTimer' = FALSE
      /\ UNCHANGED <<ws, urlIndex, strayTimers, connects>>
  BY <1>1 DEF Relay!OnOpen
<1>3. s \in Relay!Socket /\ SocketsTyped /\ ClientTyped /\ ConnectsCounted
  BY <1>2 DEF RelayInv, SocketsTyped
<1>4. t \in Relay!Socket /\ t.id = s.id
  BY <1>1, <1>3 DEF Relay!Socket
<1>5. /\ IsFiniteSet(sockets') /\ Cardinality(sockets) \in Nat /\ Cardinality(sockets') \in Nat
      /\ Cardinality(sockets') <= Cardinality(sockets)
  <2>1. IsFiniteSet(sockets)
    BY <1>3 DEF SocketsTyped
  <2>2. /\ IsFiniteSet(sockets \ {s}) /\ Cardinality(sockets) \in Nat
        /\ Cardinality(sockets \ {s}) = Cardinality(sockets) - 1
    BY <1>2, <2>1, FS_RemoveElement, FS_CardinalityType
  <2>3. /\ IsFiniteSet(sockets')
        /\ Cardinality(sockets') = Cardinality(sockets \ {s})
           \/ Cardinality(sockets') = Cardinality(sockets \ {s}) + 1
    BY <1>2, <2>2, FS_AddElement
  <2>4. Cardinality(sockets') \in Nat
    BY <2>3, FS_CardinalityType
  <2> QED BY <2>2, <2>3, <2>4
<1>6. SocketsTyped'
  <2>1. sockets' \subseteq Relay!Socket
    BY <1>2, <1>3, <1>4 DEF SocketsTyped
  <2>2. ws' = Relay!NoSocket \/ \E r \in sockets' : r.id = ws'
    BY <1>2, <1>3, <1>4 DEF SocketsTyped
  <2> QED BY <1>5, <2>1, <2>2 DEF SocketsTyped, Relay!Socket, Relay!NoSocket
<1>7. ClientTyped'
  <2>1. reconnectTimer' \in BOOLEAN
    BY <1>2
  <2>2. failures' \in 0 .. Backoff
    BY <1>2, RelayAssumed DEF Relay!RelayAssumption
  <2> QED BY <1>2, <1>3, <2>1, <2>2 DEF ClientTyped
<1>8. ConnectsCounted'
  <2>1. strayTimers \in Nat /\ reconnectTimer \in BOOLEAN /\ connects \in Nat
    BY <1>3, RelayAssumed DEF ClientTyped, ConnectsCounted, Relay!RelayAssumption
  <2>2. Cardinality(sockets) + strayTimers <= connects
    BY <1>3, <1>5, <2>1 DEF ConnectsCounted, TimerRunning
  <2> QED BY <1>2, <1>3, <1>5, <2>1, <2>2 DEF ConnectsCounted, TimerRunning
<1> QED BY <1>6, <1>7, <1>8 DEF RelayInv

LEMMA OnCloseKeeps ==
    ASSUME RelayInv, NEW s, Relay!OnClose(s)
    PROVE  RelayInv'
<1>1. /\ s \in sockets /\ sockets' = sockets \ {s} /\ ws' = Relay!NoSocket
      /\ failures' = IF failures = Backoff THEN Backoff ELSE failures + 1
      /\ urlIndex' = (urlIndex + 1) % UrlCount
      /\ reconnectTimer' = TRUE
      /\ strayTimers' = strayTimers + (IF reconnectTimer THEN 1 ELSE 0)
      /\ UNCHANGED connects
  BY DEF Relay!OnClose
<1>2. SocketsTyped /\ ClientTyped /\ ConnectsCounted
  BY DEF RelayInv
<1>3. /\ IsFiniteSet(sockets') /\ Cardinality(sockets) \in Nat
      /\ Cardinality(sockets') = Cardinality(sockets) - 1
  BY <1>1, <1>2, FS_RemoveElement, FS_CardinalityType DEF SocketsTyped
<1>4. SocketsTyped'
  BY <1>1, <1>2, <1>3 DEF SocketsTyped, Relay!Socket, Relay!NoSocket
<1>5. ClientTyped'
  BY <1>1, <1>2, RelayAssumed DEF ClientTyped, Relay!RelayAssumption
<1>6. ConnectsCounted'
  <2>1. strayTimers \in Nat /\ reconnectTimer \in BOOLEAN /\ connects \in Nat
    BY <1>2, RelayAssumed DEF ClientTyped, ConnectsCounted, Relay!RelayAssumption
  <2> QED BY <1>1, <1>2, <1>3, <2>1 DEF ConnectsCounted, TimerRunning
<1> QED BY <1>4, <1>5, <1>6 DEF RelayInv

LEMMA StepKeepsRelayInv == RelayInv /\ [Relay!Next]_(Relay!vars) => RelayInv'
<1> SUFFICES ASSUME RelayInv, [Relay!Next]_(Relay!vars) PROVE RelayInv'
  OBVIOUS
<1>1. /\ MaxConnects \in Nat /\ connects \in 0 .. MaxConnects /\ strayTimers \in Nat
      /\ reconnectTimer \in BOOLEAN
      /\ Cardinality(sockets) + strayTimers + TimerRunning <= connects /\ ClientTyped
  BY RelayAssumed DEF RelayInv, ClientTyped, ConnectsCounted, Relay!RelayAssumption
<1>2. CASE Relay!PageConnects
  <2>1. /\ connects < MaxConnects /\ connects' = connects + 1 /\ Relay!Connect
        /\ UNCHANGED <<reconnectTimer, strayTimers>>
    BY <1>2 DEF Relay!PageConnects
  <2>2. /\ SocketsTyped' /\ Cardinality(sockets) \in Nat /\ Cardinality(sockets') \in Nat
        /\ Cardinality(sockets') <= Cardinality(sockets) + 1
        /\ UNCHANGED <<urlIndex, failures>>
    BY <2>1, ConnectKeeps
  <2>3. ClientTyped'
    BY <1>1, <2>1, <2>2 DEF ClientTyped
  <2>4. ConnectsCounted'
    BY <1>1, <2>1, <2>2 DEF ConnectsCounted, TimerRunning
  <2> QED BY <2>2, <2>3, <2>4 DEF RelayInv
<1>3. CASE Relay!TimerFires
  <2>1. /\ \/ reconnectTimer /\ reconnectTimer' = FALSE /\ UNCHANGED strayTimers
           \/ strayTimers > 0 /\ strayTimers' = strayTimers - 1 /\ UNCHANGED reconnectTimer
        /\ Relay!Connect /\ UNCHANGED connects
    BY <1>3 DEF Relay!TimerFires
  <2>2. /\ SocketsTyped' /\ Cardinality(sockets) \in Nat /\ Cardinality(sockets') \in Nat
        /\ Cardinality(sockets') <= Cardinality(sockets) + 1
        /\ UNCHANGED <<urlIndex, failures>>
    BY <2>1, ConnectKeeps
  <2>3. ClientTyped'
    <3>1. reconnectTimer' \in BOOLEAN
      BY <1>1, <2>1
    <3>2. strayTimers' \in Nat
      BY <1>1, <2>1
    <3> QED BY <1>1, <2>2, <3>1, <3>2 DEF ClientTyped
  <2>4. ConnectsCounted'
    BY <1>1, <2>1, <2>2 DEF ConnectsCounted, TimerRunning
  <2> QED BY <2>2, <2>3, <2>4 DEF RelayInv
<1>4. CASE Relay!Drop \/ \E i \in 1 .. MaxConnects : Relay!Resolve(i)
  BY <1>4, OnOpenKeeps, OnCloseKeeps DEF Relay!Drop, Relay!Resolve
<1>5. CASE UNCHANGED Relay!vars
  BY <1>5
     DEF Relay!vars, RelayInv, SocketsTyped, ClientTyped, ConnectsCounted, TimerRunning,
         Relay!Socket, Relay!NoSocket
<1> QED BY <1>2, <1>3, <1>4, <1>5 DEF Relay!Next

LEMMA RelayInitially == Relay!Init => RelayInv
<1> SUFFICES ASSUME Relay!Init PROVE RelayInv
  OBVIOUS
<1>1. /\ sockets = {} /\ ws = Relay!NoSocket /\ urlIndex = 0 /\ failures = 0
      /\ reconnectTimer = FALSE /\ strayTimers = 0 /\ connects = 0
  BY DEF Relay!Init
<1>2. UrlCount \in Nat \ {0} /\ Backoff \in Nat /\ MaxConnects \in Nat
  BY RelayAssumed DEF Relay!RelayAssumption
<1>3. IsFiniteSet({}) /\ Cardinality({}) = 0
  BY FS_EmptySet
<1>4. SocketsTyped
  BY <1>1, <1>3 DEF SocketsTyped
<1>5. ClientTyped
  <2>1. reconnectTimer \in BOOLEAN
    BY <1>1
  <2>2. urlIndex \in 0 .. UrlCount - 1 /\ failures \in 0 .. Backoff /\ strayTimers \in Nat
    BY <1>1, <1>2
  <2> QED BY <2>1, <2>2 DEF ClientTyped
<1>6. ConnectsCounted
  <2>1. connects \in 0 .. MaxConnects /\ Cardinality(sockets) = 0
    BY <1>1, <1>2, <1>3
  <2>2. TimerRunning = 0
    BY <1>1 DEF TimerRunning
  <2> QED BY <1>1, <2>1, <2>2 DEF ConnectsCounted
<1> QED BY <1>4, <1>5, <1>6 DEF RelayInv

LEMMA StepOfRelay == [Next]_vars => [Relay!Next]_(Relay!vars)
<1> SUFFICES ASSUME [Next]_vars PROVE Relay!Next \/ UNCHANGED Relay!vars
  OBVIOUS
<1>1. CASE UNCHANGED relayVars
  BY <1>1 DEF relayVars, Relay!vars
<1>2. UNCHANGED relayVars \/ Relay!Next
  BY Zenon
     DEF Next, vars, BesideBridge, BesideGovernance, BesideVaultTabs, BesideClaims, BesideOrders,
         BesideP2P
<1> QED BY <1>1, <1>2

LEMMA RelayInvariant == Spec => []RelayInv
<1>1. Init => RelayInv
  BY RelayInitially DEF Init
<1>2. RelayInv /\ [Next]_vars => RelayInv'
  BY StepOfRelay, StepKeepsRelayInv
<1> QED BY <1>1, <1>2, PTL DEF Spec

-----------------------------------------------------------------------------
(* The node in the tab.                                                      *)
LEMMA NodeAssumed == P2P!OrderAssumption
  BY Zenon, WebAppAssumption DEF WebAppAssumption

LEMMA OrderAssumed ==
    /\ \A o \in P2P!Orders : /\ Order[o].side \in {"buy", "sell"}
                             /\ Order[o].price \in Nat /\ Order[o].timestamp \in Nat
                             /\ Order[o].amount \in Nat /\ Order[o].amount > 0
    /\ MaxCopies \in [P2P!Orders -> Nat] /\ MaxOpens \in Nat
    /\ Own \in SUBSET P2P!Orders /\ \A o \in Own : MaxCopies[o] > 0
<1>1. \A o \in P2P!Orders :
         Order[o] \in [side : {"buy", "sell"}, price : Nat, timestamp : Nat, amount : Nat \ {0}]
  BY NodeAssumed DEF P2P!OrderAssumption
<1>2. \A n \in Nat \ {0} : n \in Nat /\ n > 0
  OBVIOUS
<1> QED BY <1>1, <1>2, NodeAssumed DEF P2P!OrderAssumption

(* The library's operators are the same in the node's module.                *)
LEMMA NodeCardinality == \A S : P2P!Cardinality(S) = Cardinality(S)
  BY Zenon DEF P2P!Cardinality, Cardinality

LEMMA NodeSum == \A f, S : P2P!SumFunctionOnSet(f, S) = SumFunctionOnSet(f, S)
  BY Zenon DEF P2P!SumFunctionOnSet, SumFunctionOnSet, P2P!FoldFunctionOnSet, FoldFunctionOnSet,
               P2P!MapThenFoldSet, MapThenFoldSet

LEMMA NodeKeepAt == \A s, keep : P2P!KeepAt(s, keep) = KeepAt(s, keep)
  BY Zenon DEF P2P!KeepAt, KeepAt, P2P!Cardinality, Cardinality

LEMMA NodeInsertAt == \A s, i, e : P2P!InsertAt(s, i, e) = InsertAt(s, i, e)
  BY Zenon DEF P2P!InsertAt, InsertAt

(* A side of the book: lots of orders of that side, one for each, in         *)
(* price-time order.                                                         *)
RestingLot == [id : P2P!Orders, amount : Nat \ {0}]
WholeLot(o) == [id |-> o, amount |-> Order[o].amount]

IdsOf(s) == {s[i].id : i \in 1 .. Len(s)}
LotsOf(s) == {s[i] : i \in 1 .. Len(s)}

SideSound(name, s) ==
    /\ s \in Seq(RestingLot)
    /\ \A i \in 1 .. Len(s) : Order[s[i].id].side = name
    /\ \A i, j \in 1 .. Len(s) :
          i < j => s[i].id # s[j].id /\ ~P2P!Outranks(s[j].id, s[i].id)

(* A list that keeps the order of another has what it has of its soundness.  *)
LEMMA SoundSubsequence ==
    ASSUME NEW name, NEW s, SideSound(name, s), NEW r \in Seq(RestingLot),
           NEW f \in [1 .. Len(r) -> 1 .. Len(s)],
           \A j \in 1 .. Len(r) : r[j].id = s[f[j]].id,
           \A j, k \in 1 .. Len(r) : j < k => f[j] < f[k]
    PROVE  SideSound(name, r)
<1>1. \A i \in 1 .. Len(r) : Order[r[i].id].side = name
  BY DEF SideSound
<1>2. ASSUME NEW i \in 1 .. Len(r), NEW j \in 1 .. Len(r), i < j
      PROVE  r[i].id # r[j].id /\ ~P2P!Outranks(r[j].id, r[i].id)
  <2>1. f[i] \in 1 .. Len(s) /\ f[j] \in 1 .. Len(s) /\ f[i] < f[j]
    BY <1>2
  <2>2. s[f[i]].id # s[f[j]].id /\ ~P2P!Outranks(s[f[j]].id, s[f[i]].id)
    BY <2>1 DEF SideSound
  <2>3. r[i].id = s[f[i]].id /\ r[j].id = s[f[j]].id
    OBVIOUS
  <2> QED BY Zenon, <2>2, <2>3
<1> QED BY <1>1, <1>2 DEF SideSound

(* removeOrder's filter: the order is gone, the others rest as before.       *)
LEMMA SideWithoutOrder ==
    ASSUME NEW name, NEW s, SideSound(name, s), NEW o
    PROVE  /\ SideSound(name, P2P!Without(s, o))
           /\ IdsOf(P2P!Without(s, o)) = IdsOf(s) \ {o}
           /\ LotsOf(P2P!Without(s, o)) \subseteq LotsOf(s)
<1> DEFINE keep == {i \in 1 .. Len(s) : s[i].id # o}
           r == P2P!Without(s, o)
<1>1. s \in Seq(RestingLot) /\ DOMAIN s = 1 .. Len(s)
  BY LenProperties DEF SideSound
<1>2. r = KeepAt(s, keep)
  BY Zenon, <1>1, NodeKeepAt DEF P2P!Without
<1>3. r \in Seq(RestingLot) /\ \E f : SelectedBy(s, r, keep, f)
  <2>1. keep \in SUBSET (1 .. Len(s))
    OBVIOUS
  <2> HIDE DEF keep, r
  <2> QED BY <1>1, <1>2, <2>1, KeepAtSelects
<1> HIDE DEF r
<1>4. PICK f : SelectedBy(s, r, keep, f)
  BY <1>3
<1>5. /\ f \in [1 .. Len(r) -> keep] /\ f \in [1 .. Len(r) -> 1 .. Len(s)]
      /\ \A j \in 1 .. Len(r) : r[j] = s[f[j]]
      /\ \A j, k \in 1 .. Len(r) : j < k => f[j] < f[k]
      /\ \A i \in keep : \E j \in 1 .. Len(r) : f[j] = i
  BY <1>4 DEF SelectedBy
<1>6. SideSound(name, r)
  BY <1>3, <1>5, SoundSubsequence
<1>7. LotsOf(r) \subseteq LotsOf(s)
  BY <1>5 DEF LotsOf
<1>8. IdsOf(r) \subseteq IdsOf(s) \ {o}
  <2> SUFFICES ASSUME NEW j \in 1 .. Len(r) PROVE r[j].id \in IdsOf(s) /\ r[j].id # o
    BY DEF IdsOf
  <2>1. f[j] \in 1 .. Len(s) /\ s[f[j]].id # o /\ r[j] = s[f[j]]
    BY <1>5
  <2> QED BY <2>1 DEF IdsOf
<1>9. IdsOf(s) \ {o} \subseteq IdsOf(r)
  <2> SUFFICES ASSUME NEW i \in 1 .. Len(s), s[i].id # o PROVE s[i].id \in IdsOf(r)
    BY DEF IdsOf
  <2>1. PICK j \in 1 .. Len(r) : f[j] = i
    BY <1>5
  <2> QED BY <1>5, <2>1 DEF IdsOf
<1> QED BY <1>6, <1>7, <1>8, <1>9 DEF r

(* Among orders of one side, outranking is a strict weak order.              *)
LEMMA OutranksIsWeakOrder ==
    ASSUME NEW o \in P2P!Orders, NEW p \in P2P!Orders, NEW q \in P2P!Orders,
           Order[o].side = Order[p].side, Order[p].side = Order[q].side
    PROVE  /\ P2P!Outranks(o, p) => ~P2P!Outranks(p, o)
           /\ ~P2P!Outranks(o, p) /\ ~P2P!Outranks(p, q) => ~P2P!Outranks(o, q)
BY OrderAssumed DEF P2P!Outranks

(* push and sort: the order is behind everything it does not outrank, and    *)
(* the side stays in price-time order.                                       *)
LEMMA SidePlaced ==
    ASSUME NEW name, NEW s, SideSound(name, s), NEW o \in P2P!Orders,
           Order[o].side = name, o \notin IdsOf(s)
    PROVE  /\ SideSound(name, P2P!Placed(s, o))
           /\ IdsOf(P2P!Placed(s, o)) = IdsOf(s) \cup {o}
           /\ LotsOf(P2P!Placed(s, o)) \subseteq LotsOf(s) \cup {WholeLot(o)}
<1> DEFINE n == Len(s)
           I == {i \in 1 .. n : ~P2P!Outranks(o, s[i].id)}
           c == Cardinality(I)
           r == P2P!Placed(s, o)
<1>1. s \in Seq(RestingLot) /\ n \in Nat /\ DOMAIN s = 1 .. n
  BY LenProperties DEF SideSound
<1>2. \A i \in 1 .. n : s[i] \in RestingLot /\ s[i].id \in P2P!Orders /\ Order[s[i].id].side = name
  <2>1. \A i \in 1 .. n : s[i] \in RestingLot
    BY <1>1, ElementOfSeq
  <2>2. \A i \in 1 .. n : s[i].id \in P2P!Orders
    BY <2>1 DEF RestingLot
  <2>3. \A i \in 1 .. n : Order[s[i].id].side = name
    BY DEF SideSound
  <2> HIDE DEF n
  <2> QED BY <2>1, <2>2, <2>3
<1>3. ASSUME NEW i \in 1 .. n, NEW j \in 1 .. n, i < j
      PROVE  s[i].id # s[j].id /\ ~P2P!Outranks(s[j].id, s[i].id)
  BY <1>3 DEF SideSound
<1>4. \A i \in I : \A j \in 1 .. n : j < i => j \in I
  <2> SUFFICES ASSUME NEW i \in 1 .. n, NEW j \in 1 .. n, j < i, ~P2P!Outranks(o, s[i].id)
               PROVE  ~P2P!Outranks(o, s[j].id)
    OBVIOUS
  <2>1. ~P2P!Outranks(s[i].id, s[j].id)
    BY <1>3
  <2> QED BY <1>2, <2>1, OutranksIsWeakOrder
<1>5. c \in 0 .. n /\ I = 1 .. c
  <2>1. I \in SUBSET (1 .. n)
    OBVIOUS
  <2> HIDE DEF I
  <2> QED BY <1>1, <1>4, <2>1, FrontOfPositions
<1>6. r = InsertAt(s, c + 1, WholeLot(o))
  BY Zenon, <1>1, NodeInsertAt, NodeCardinality DEF P2P!Placed, WholeLot
<1>7. WholeLot(o) \in RestingLot /\ WholeLot(o).id = o
  BY OrderAssumed DEF WholeLot, RestingLot
<1>8. \A i \in 1 .. c : ~P2P!Outranks(o, s[i].id)
  BY <1>5
<1>9. \A i \in c + 1 .. n : P2P!Outranks(o, s[i].id)
  <2> TAKE i \in c + 1 .. n
  <2>1. i \in 1 .. n /\ i \notin 1 .. c
    BY <1>1, <1>5
  <2> HIDE DEF c
  <2> QED BY <1>5, <2>1
<1> HIDE DEF r, c, I
<1>10. /\ r \in Seq(RestingLot) /\ Len(r) = n + 1
       /\ \A j \in 1 .. n + 1 :
             r[j] = IF j < c + 1 THEN s[j] ELSE IF j = c + 1 THEN WholeLot(o) ELSE s[j - 1]
  <2>1. c + 1 \in 1 .. Len(s) + 1
    BY <1>1, <1>5
  <2> DEFINE e == WholeLot(o)
             k == c + 1
  <2>2. e \in RestingLot /\ k \in 1 .. Len(s) + 1 /\ r = InsertAt(s, k, e)
    BY <1>6, <1>7, <2>1
  <2> HIDE DEF e, k
  <2>3. /\ InsertAt(s, k, e) \in Seq(RestingLot)
        /\ Len(InsertAt(s, k, e)) = Len(s) + 1
        /\ \A j \in 1 .. Len(s) + 1 : InsertAt(s, k, e)[j] =
             IF j < k THEN s[j] ELSE IF j = k THEN e ELSE s[j - 1]
    <3>1. s \in Seq(RestingLot)
      BY <1>1
    <3>2. e \in RestingLot
      BY <2>2
    <3>3. k \in 1 .. Len(s) + 1
      BY <2>2
    <3> QED BY <3>1, <3>2, <3>3, InsertAtPlaces
  <2> QED BY Zenon, <2>2, <2>3 DEF e, k
<1> HIDE DEF n
<1>11. /\ \A j \in 1 .. c : r[j] = s[j]
       /\ r[c + 1] = WholeLot(o)
       /\ \A j \in c + 1 .. n : r[j + 1] = s[j]
  <2>1. ASSUME NEW j \in 1 .. c PROVE r[j] = s[j]
    <3>1. j \in 1 .. n + 1 /\ j < c + 1
      BY <1>1, <1>5
    <3> QED BY <1>10, <3>1
  <2>2. r[c + 1] = WholeLot(o)
    <3>1. c + 1 \in 1 .. n + 1 /\ ~(c + 1 < c + 1)
      BY <1>1, <1>5
    <3> QED BY <1>10, <3>1
  <2>3. ASSUME NEW j \in c + 1 .. n PROVE r[j + 1] = s[j]
    <3>1. j + 1 \in 1 .. n + 1 /\ ~(j + 1 < c + 1) /\ j + 1 # c + 1 /\ j + 1 - 1 = j
      BY <1>1, <1>5
    <3> QED BY <1>10, <3>1
  <2> QED BY <2>1, <2>2, <2>3
<1>12. ASSUME NEW j \in 1 .. n + 1
       PROVE  j \in 1 .. c \/ j = c + 1 \/ \E k \in c + 1 .. n : j = k + 1
  <2>1. j \in 1 .. c \/ j = c + 1 \/ (j - 1 \in c + 1 .. n /\ j = (j - 1) + 1)
    BY <1>1, <1>5
  <2> QED BY <2>1
<1>13. LotsOf(r) \subseteq LotsOf(s) \cup {WholeLot(o)}
  <2> SUFFICES ASSUME NEW j \in 1 .. n + 1 PROVE r[j] \in LotsOf(s) \cup {WholeLot(o)}
    BY <1>10 DEF LotsOf
  <2>1. \A i \in 1 .. n : s[i] \in LotsOf(s)
    BY DEF LotsOf, n
  <2>2. CASE j \in 1 .. c
    <3>1. j \in 1 .. n
      BY <1>1, <1>5, <2>2
    <3> QED BY <1>11, <2>1, <2>2, <3>1
  <2>3. CASE j = c + 1
    BY <1>11, <2>3
  <2>4. CASE \E k \in c + 1 .. n : j = k + 1
    <3>1. PICK k \in c + 1 .. n : j = k + 1
      BY <2>4
    <3>2. k \in 1 .. n
      BY <1>1, <1>5
    <3> QED BY <1>11, <2>1, <3>1, <3>2
  <2> QED BY <1>12, <2>2, <2>3, <2>4
<1>14. IdsOf(r) \subseteq IdsOf(s) \cup {o}
  <2>1. \A l \in LotsOf(s) : l.id \in IdsOf(s)
    BY DEF LotsOf, IdsOf
  <2>2. \A j \in 1 .. Len(r) : r[j] \in LotsOf(r)
    BY DEF LotsOf
  <2> QED BY <1>7, <1>13, <2>1, <2>2 DEF IdsOf
<1>15. IdsOf(s) \cup {o} \subseteq IdsOf(r)
  <2>1. \A j \in 1 .. n + 1 : r[j].id \in IdsOf(r)
    BY <1>10 DEF IdsOf
  <2>2. o \in IdsOf(r)
    <3>1. c + 1 \in 1 .. n + 1
      BY <1>1, <1>5
    <3> QED BY <1>7, <1>11, <2>1, <3>1
  <2>3. ASSUME NEW i \in 1 .. n PROVE s[i].id \in IdsOf(r)
    <3>1. CASE i \in 1 .. c
      <4>1. i \in 1 .. n + 1
        BY <1>1
      <4> QED BY <1>11, <2>1, <3>1, <4>1
    <3>2. CASE i \in c + 1 .. n
      <4>1. i + 1 \in 1 .. n + 1
        BY <1>1
      <4> QED BY <1>11, <2>1, <3>2, <4>1
    <3> QED BY <1>1, <1>5, <3>1, <3>2
  <2> QED BY <2>2, <2>3 DEF IdsOf, n
<1>16. \A i \in 1 .. n : s[i].id # o
  BY DEF IdsOf, n
<1>17. \A j \in 1 .. n + 1 : Order[r[j].id].side = name
  <2> TAKE j \in 1 .. n + 1
  <2>1. \A i \in 1 .. c : i \in 1 .. n
    BY <1>1, <1>5
  <2>2. \A i \in c + 1 .. n : i \in 1 .. n
    BY <1>1, <1>5
  <2> QED BY <1>2, <1>7, <1>11, <1>12, <2>1, <2>2
<1>18. ASSUME NEW j \in 1 .. n + 1, NEW k \in 1 .. n + 1, j < k
       PROVE  r[j].id # r[k].id /\ ~P2P!Outranks(r[k].id, r[j].id)
  <2>1. CASE j \in 1 .. c /\ k \in 1 .. c
    <3>1. j \in 1 .. n /\ k \in 1 .. n
      BY <1>1, <1>5, <2>1
    <3> QED BY <1>3, <1>11, <1>18, <2>1, <3>1
  <2>2. CASE j \in 1 .. c /\ k = c + 1
    <3>1. j \in 1 .. n
      BY <1>1, <1>5, <2>2
    <3> QED BY <1>7, <1>8, <1>11, <1>16, <2>2, <3>1
  <2>3. CASE j \in 1 .. c /\ \E m \in c + 1 .. n : k = m + 1
    <3>1. PICK m \in c + 1 .. n : k = m + 1
      BY <2>3
    <3>2. j \in 1 .. n /\ m \in 1 .. n /\ j < m
      BY <1>1, <1>5, <2>3
    <3> QED BY <1>3, <1>11, <2>3, <3>1, <3>2
  <2>4. CASE j = c + 1 /\ \E m \in c + 1 .. n : k = m + 1
    <3>1. PICK m \in c + 1 .. n : k = m + 1
      BY <2>4
    <3>2. m \in 1 .. n
      BY <1>1, <1>5
    <3>3. P2P!Outranks(o, s[m].id)
      BY <1>9
    <3>4. ~P2P!Outranks(s[m].id, o)
      BY <1>2, <3>2, <3>3, OutranksIsWeakOrder
    <3> QED BY <1>7, <1>11, <1>16, <2>4, <3>1, <3>2, <3>4
  <2>5. CASE /\ \E i \in c + 1 .. n : j = i + 1
             /\ \E m \in c + 1 .. n : k = m + 1
    <3>1. PICK i \in c + 1 .. n : j = i + 1
      BY <2>5
    <3>2. PICK m \in c + 1 .. n : k = m + 1
      BY <2>5
    <3>3. i \in 1 .. n /\ m \in 1 .. n /\ i < m
      BY <1>1, <1>5, <1>18, <3>1, <3>2
    <3> QED BY <1>3, <1>11, <3>1, <3>2, <3>3
  <2>6. ~(j = c + 1 /\ k \in 1 .. c) /\ ~(j = c + 1 /\ k = c + 1)
    BY <1>1, <1>5, <1>18
  <2>7. ~((\E i \in c + 1 .. n : j = i + 1) /\ (k \in 1 .. c \/ k = c + 1))
    BY <1>1, <1>5, <1>18
  <2> QED BY <1>12, <2>1, <2>2, <2>3, <2>4, <2>5, <2>6, <2>7
<1>19. SideSound(name, r)
  BY <1>10, <1>17, <1>18 DEF SideSound
<1> QED BY <1>13, <1>14, <1>15, <1>19 DEF r

(* The book: two sound sides, and the index names the orders that rest.      *)
BookSound(b) ==
    /\ SideSound("buy", b.bids) /\ SideSound("sell", b.asks)
    /\ b.index = IdsOf(b.bids) \cup IdsOf(b.asks)

LotsIn(b) == LotsOf(b.bids) \cup LotsOf(b.asks)

LEMMA EmptyBookSound == BookSound(P2P!EmptyBook) /\ LotsIn(P2P!EmptyBook) = {}
<1>1. /\ P2P!EmptyBook.bids = <<>> /\ P2P!EmptyBook.asks = <<>>
      /\ P2P!EmptyBook.index = {}
  BY DEF P2P!EmptyBook
<1>2. <<>> \in Seq(RestingLot) /\ Len(<<>>) = 0
  OBVIOUS
<1>3. \A i \in 1 .. 0 : FALSE
  OBVIOUS
<1>4. SideSound("buy", <<>>) /\ SideSound("sell", <<>>)
  BY <1>2, <1>3 DEF SideSound
<1>5. IdsOf(<<>>) = {} /\ LotsOf(<<>>) = {}
  BY <1>2, <1>3 DEF IdsOf, LotsOf
<1> QED BY <1>1, <1>4, <1>5 DEF BookSound, LotsIn

LEMMA BookWithoutOrder ==
    ASSUME NEW b, BookSound(b), NEW o
    PROVE  /\ BookSound(P2P!RemoveOrder(b, o))
           /\ P2P!RemoveOrder(b, o).index = b.index \ {o}
           /\ LotsIn(P2P!RemoveOrder(b, o)) \subseteq LotsIn(b)
<1>1. CASE o \notin b.index
  <2>1. P2P!RemoveOrder(b, o) = b
    BY <1>1 DEF P2P!RemoveOrder
  <2> QED BY <1>1, <2>1
<1>2. CASE o \in b.index
  <2> DEFINE r == P2P!RemoveOrder(b, o)
  <2>1. /\ r.bids = P2P!Without(b.bids, o) /\ r.asks = P2P!Without(b.asks, o)
        /\ r.index = b.index \ {o}
    BY <1>2 DEF P2P!RemoveOrder
  <2> HIDE DEF r
  <2>2. SideSound("buy", b.bids) /\ SideSound("sell", b.asks)
        /\ b.index = IdsOf(b.bids) \cup IdsOf(b.asks)
    BY DEF BookSound
  <2>3. /\ SideSound("buy", r.bids) /\ IdsOf(r.bids) = IdsOf(b.bids) \ {o}
        /\ LotsOf(r.bids) \subseteq LotsOf(b.bids)
    BY <2>1, <2>2, SideWithoutOrder
  <2>4. /\ SideSound("sell", r.asks) /\ IdsOf(r.asks) = IdsOf(b.asks) \ {o}
        /\ LotsOf(r.asks) \subseteq LotsOf(b.asks)
    BY <2>1, <2>2, SideWithoutOrder
  <2>5. r.index = IdsOf(r.bids) \cup IdsOf(r.asks)
    BY <2>1, <2>2, <2>3, <2>4
  <2>6. LotsIn(r) \subseteq LotsIn(b)
    BY <2>3, <2>4 DEF LotsIn
  <2> QED BY <2>1, <2>3, <2>4, <2>5, <2>6 DEF BookSound, r
<1> QED BY <1>1, <1>2

(* addOrder: the order rests once, with its whole amount.                    *)
LEMMA BookWithOrder ==
    ASSUME NEW b, BookSound(b), NEW o \in P2P!Orders
    PROVE  /\ BookSound(P2P!AddOrder(b, o))
           /\ P2P!AddOrder(b, o).index = b.index \cup {o}
           /\ LotsIn(P2P!AddOrder(b, o)) \subseteq LotsIn(b) \cup {WholeLot(o)}
<1> DEFINE c == P2P!RemoveOrder(b, o)
           r == P2P!AddOrder(b, o)
<1>1. BookSound(c) /\ c.index = b.index \ {o} /\ LotsIn(c) \subseteq LotsIn(b)
  BY BookWithoutOrder
<1>2. r = P2P!AddTo(c, o)
  BY DEF P2P!AddOrder
<1> HIDE DEF c, r
<1>3. /\ SideSound("buy", c.bids) /\ SideSound("sell", c.asks)
      /\ o \notin IdsOf(c.bids) /\ o \notin IdsOf(c.asks)
      /\ c.index = IdsOf(c.bids) \cup IdsOf(c.asks)
  BY <1>1 DEF BookSound
<1>4. CASE Order[o].side = "buy"
  <2>1. /\ r.bids = P2P!Placed(c.bids, o) /\ r.asks = c.asks /\ r.index = c.index \cup {o}
    BY <1>2, <1>4 DEF P2P!AddTo
  <2>2. /\ SideSound("buy", r.bids) /\ IdsOf(r.bids) = IdsOf(c.bids) \cup {o}
        /\ LotsOf(r.bids) \subseteq LotsOf(c.bids) \cup {WholeLot(o)}
    BY <1>3, <1>4, <2>1, SidePlaced
  <2>3. SideSound("sell", r.asks)
    BY <1>3, <2>1
  <2>4. r.index = IdsOf(r.bids) \cup IdsOf(r.asks)
    BY <1>3, <2>1, <2>2
  <2>5. LotsIn(r) \subseteq LotsIn(c) \cup {WholeLot(o)}
    BY <2>1, <2>2 DEF LotsIn
  <2> QED BY <1>1, <2>1, <2>2, <2>3, <2>4, <2>5 DEF BookSound, r
<1>5. CASE Order[o].side = "sell"
  <2>1. /\ r.bids = c.bids /\ r.asks = P2P!Placed(c.asks, o) /\ r.index = c.index \cup {o}
    BY <1>2, <1>5 DEF P2P!AddTo
  <2>2. /\ SideSound("sell", r.asks) /\ IdsOf(r.asks) = IdsOf(c.asks) \cup {o}
        /\ LotsOf(r.asks) \subseteq LotsOf(c.asks) \cup {WholeLot(o)}
    BY <1>3, <1>5, <2>1, SidePlaced
  <2>3. SideSound("buy", r.bids)
    BY <1>3, <2>1
  <2>4. r.index = IdsOf(r.bids) \cup IdsOf(r.asks)
    BY <1>3, <2>1, <2>2
  <2>5. LotsIn(r) \subseteq LotsIn(c) \cup {WholeLot(o)}
    BY <2>1, <2>2 DEF LotsIn
  <2> QED BY <1>1, <2>1, <2>2, <2>3, <2>4, <2>5 DEF BookSound, r
<1> QED BY <1>4, <1>5, OrderAssumed

(* matchSide takes no more of a lot than there is.                           *)
LEMMA OfferedSteps ==
    ASSUME NEW s \in Seq(RestingLot), NEW i \in 1 .. Len(s)
    PROVE  /\ P2P!Offered(s, i) = P2P!Offered(s, i - 1) + s[i].amount
           /\ P2P!Offered(s, i) \in Nat /\ P2P!Offered(s, i - 1) \in Nat
           /\ s[i].amount \in Nat /\ s[i].amount > 0
<1> DEFINE n == Len(s)
           a == [k \in DOMAIN s |-> s[k].amount]
<1>1. n \in Nat /\ DOMAIN s = 1 .. n
  BY LenProperties
<1>2. \A k \in 1 .. n : a[k] = s[k].amount /\ a[k] \in Nat /\ a[k] > 0
  <2> TAKE k \in 1 .. n
  <2>1. s[k] \in RestingLot
    BY ElementOfSeq
  <2>2. a[k] = s[k].amount /\ s[k].amount \in Nat \ {0}
    BY <1>1, <2>1 DEF RestingLot
  <2> QED BY <2>2
<1>3. i \in Nat \ {0} /\ 1 .. i \subseteq 1 .. n
  BY <1>1
<1>4. /\ P2P!Offered(s, i) = SumFunctionOnSet(a, 1 .. i)
      /\ P2P!Offered(s, i - 1) = SumFunctionOnSet(a, 1 .. (i - 1))
  BY Zenon, NodeSum DEF P2P!Offered
<1>5. \A k \in 1 .. i : a[k] \in Nat
  BY <1>2, <1>3
<1> HIDE DEF a, n
<1>6. /\ SumFunctionOnSet(a, 1 .. i) = a[i] + SumFunctionOnSet(a, 1 .. (i - 1))
      /\ SumFunctionOnSet(a, 1 .. i) \in Nat
      /\ SumFunctionOnSet(a, 1 .. (i - 1)) \in Nat
  BY <1>3, <1>5, SumOfFront
<1>7. a[i] = s[i].amount /\ a[i] \in Nat /\ a[i] > 0
  BY <1>1, <1>2 DEF n
<1> QED BY <1>4, <1>6, <1>7

LEMMA FillIsBounded ==
    ASSUME NEW s \in Seq(RestingLot), NEW o \in P2P!Orders, NEW i \in 1 .. Len(s)
    PROVE  P2P!Fills(o, s)[i] \in 0 .. s[i].amount
<1>1. /\ P2P!Offered(s, i) = P2P!Offered(s, i - 1) + s[i].amount
      /\ P2P!Offered(s, i) \in Nat /\ P2P!Offered(s, i - 1) \in Nat
      /\ s[i].amount \in Nat
  BY OfferedSteps
<1>2. Order[o].amount \in Nat
  BY OrderAssumed
<1>3. i \in DOMAIN s
  BY LenProperties
<1>4. P2P!Fills(o, s)[i] =
        IF i \notin P2P!Reached(o, s) THEN 0
        ELSE IF P2P!Offered(s, i) <= Order[o].amount THEN s[i].amount
        ELSE Order[o].amount - P2P!Offered(s, i - 1)
  BY <1>3 DEF P2P!Fills
<1>5. i \in P2P!Reached(o, s) => P2P!Offered(s, i - 1) < Order[o].amount
  BY DEF P2P!Reached
<1> QED BY <1>1, <1>2, <1>4, <1>5

(* The lots left: those with an amount left, in the order they had.          *)
LEMMA SideLeft ==
    ASSUME NEW name, NEW s, SideSound(name, s), NEW o \in P2P!Orders
    PROVE  /\ SideSound(name, P2P!LeftOf(o, s))
           /\ IdsOf(P2P!LeftOf(o, s)) = IdsOf(s) \ P2P!UsedUp(o, s)
           /\ \A l \in LotsOf(P2P!LeftOf(o, s)) : \E i \in 1 .. Len(s) :
                 l = [id |-> s[i].id, amount |-> s[i].amount - P2P!Fills(o, s)[i]]
<1> DEFINE n == Len(s)
           fill == P2P!Fills(o, s)
           left == [i \in DOMAIN s |-> [id |-> s[i].id, amount |-> s[i].amount - fill[i]]]
           Lot == [id : P2P!Orders, amount : Nat]
           keep == {i \in DOMAIN s : left[i].amount > 0}
           r == P2P!LeftOf(o, s)
<1>1. s \in Seq(RestingLot) /\ n \in Nat /\ DOMAIN s = 1 .. n
  BY LenProperties DEF SideSound
<1>2. ASSUME NEW i \in 1 .. n
      PROVE  /\ s[i].id \in P2P!Orders /\ s[i].amount \in Nat /\ s[i].amount > 0
             /\ fill[i] \in 0 .. s[i].amount
  <2>1. s[i] \in RestingLot
    BY <1>1, ElementOfSeq
  <2>2. s[i].id \in P2P!Orders /\ s[i].amount \in Nat \ {0}
    BY <2>1 DEF RestingLot
  <2>3. fill[i] \in 0 .. s[i].amount
    BY <1>1, FillIsBounded
  <2> HIDE DEF fill
  <2> QED BY <2>2, <2>3
<1>3. r = KeepAt(left, keep)
  BY Zenon, NodeKeepAt DEF P2P!LeftOf
<1> HIDE DEF fill, r
<1>4. ASSUME NEW i \in 1 .. n
      PROVE  /\ left[i] = [id |-> s[i].id, amount |-> s[i].amount - fill[i]]
             /\ left[i].id = s[i].id /\ left[i].amount = s[i].amount - fill[i]
             /\ left[i].amount \in Nat /\ left[i] \in Lot
  <2>1. left[i] = [id |-> s[i].id, amount |-> s[i].amount - fill[i]]
    BY <1>1
  <2>2. s[i].amount - fill[i] \in Nat
    BY <1>2
  <2> HIDE DEF left
  <2> QED BY <1>2, <2>1, <2>2
<1>5. left \in Seq(Lot) /\ Len(left) = n
  <2>1. left \in [1 .. n -> Lot]
    BY <1>1, <1>4
  <2> HIDE DEF left, Lot, n
  <2> QED BY <1>1, <2>1
<1>6. keep \in SUBSET (1 .. Len(left))
  BY <1>1, <1>5
<1>7. r \in Seq(Lot) /\ \E f : SelectedBy(left, r, keep, f)
  <2> HIDE DEF left, keep, Lot
  <2> QED BY <1>3, <1>5, <1>6, KeepAtSelects
<1>8. PICK f : SelectedBy(left, r, keep, f)
  BY <1>7
<1> HIDE DEF left
<1>9. /\ f \in [1 .. Len(r) -> keep]
      /\ \A j \in 1 .. Len(r) : r[j] = left[f[j]]
      /\ \A j, k \in 1 .. Len(r) : j < k => f[j] < f[k]
      /\ \A i \in keep : \E j \in 1 .. Len(r) : f[j] = i
  BY <1>8 DEF SelectedBy
<1>10. f \in [1 .. Len(r) -> 1 .. Len(s)]
  BY <1>1, <1>9
<1>11. ASSUME NEW j \in 1 .. Len(r)
       PROVE  /\ f[j] \in 1 .. n /\ r[j] = left[f[j]] /\ r[j].id = s[f[j]].id
              /\ left[f[j]].amount > 0
  <2>1. f[j] \in 1 .. n /\ left[f[j]].amount > 0
    BY <1>1, <1>9
  <2> QED BY <1>4, <1>9, <2>1
<1>12. r \in Seq(RestingLot)
  <2>1. Len(r) \in Nat /\ DOMAIN r = 1 .. Len(r)
    BY <1>7, LenProperties
  <2>2. ASSUME NEW j \in 1 .. Len(r) PROVE r[j] \in RestingLot
    <3>1. r[j].amount \in Nat /\ r[j].amount > 0 /\ r[j] \in Lot
      BY <1>4, <1>11
    <3>2. r[j].id \in P2P!Orders /\ r[j] = [id |-> r[j].id, amount |-> r[j].amount]
      BY <3>1
    <3>3. r[j].amount \in Nat \ {0}
      BY <3>1
    <3> QED BY <3>2, <3>3 DEF RestingLot
  <2>3. r \in [1 .. Len(r) -> RestingLot]
    <3>1. r = [j \in 1 .. Len(r) |-> r[j]]
      <4>1. r \in [1 .. Len(r) -> Lot]
        BY <1>7, LenProperties
      <4> HIDE DEF Lot
      <4> QED BY <4>1
    <3> QED BY <2>2, <3>1
  <2> QED BY <2>1, <2>3
<1>13. SideSound(name, r)
  BY <1>9, <1>10, <1>11, <1>12, SoundSubsequence
<1>14. IdsOf(r) = IdsOf(s) \ P2P!UsedUp(o, s)
  <2>1. P2P!UsedUp(o, s) = {s[i].id : i \in {k \in 1 .. n : fill[k] = s[k].amount}}
    BY <1>1 DEF P2P!UsedUp, fill
  <2>2. ASSUME NEW i \in 1 .. n PROVE left[i].amount > 0 <=> fill[i] # s[i].amount
    <3>1. s[i].amount \in Nat /\ fill[i] \in 0 .. s[i].amount
      BY <1>2
    <3>2. left[i].amount = s[i].amount - fill[i]
      BY <1>4
    <3> QED BY <3>1, <3>2
  <2>3. \A i, k \in 1 .. n : s[i].id = s[k].id => i = k
    BY <1>1 DEF SideSound
  <2>4. ASSUME NEW j \in 1 .. Len(r) PROVE r[j].id \in IdsOf(s) \ P2P!UsedUp(o, s)
    <3>1. /\ f[j] \in 1 .. n /\ r[j].id = s[f[j]].id /\ fill[f[j]] # s[f[j]].amount
      BY <1>11, <2>2
    <3>2. r[j].id \in IdsOf(s)
      BY <3>1 DEF IdsOf
    <3>3. r[j].id \notin P2P!UsedUp(o, s)
      BY <2>1, <2>3, <3>1
    <3> QED BY <3>2, <3>3
  <2>5. ASSUME NEW i \in 1 .. n, s[i].id \notin P2P!UsedUp(o, s) PROVE s[i].id \in IdsOf(r)
    <3>1. fill[i] # s[i].amount
      BY <2>1, <2>5
    <3>2. i \in keep
      BY <1>1, <2>2, <3>1
    <3>3. PICK j \in 1 .. Len(r) : f[j] = i
      BY <1>9, <3>2
    <3> QED BY <1>11, <3>3 DEF IdsOf
  <2> QED BY <2>4, <2>5 DEF IdsOf
<1>15. \A l \in LotsOf(r) : \E i \in 1 .. Len(s) :
          l = [id |-> s[i].id, amount |-> s[i].amount - fill[i]]
  <2> SUFFICES ASSUME NEW j \in 1 .. Len(r)
               PROVE  \E i \in 1 .. Len(s) :
                         r[j] = [id |-> s[i].id, amount |-> s[i].amount - fill[i]]
    BY DEF LotsOf
  <2>1. f[j] \in 1 .. n /\ r[j] = left[f[j]]
    BY <1>11
  <2>2. r[j] = [id |-> s[f[j]].id, amount |-> s[f[j]].amount - fill[f[j]]]
    BY <1>4, <2>1
  <2> QED BY <2>1, <2>2
<1> QED BY <1>13, <1>14, <1>15 DEF r, fill

(* match: the book stays sound, and every lot is one of before less what the *)
(* taker took of it.                                                         *)
LEMMA BookMatched ==
    ASSUME NEW b, BookSound(b), NEW o \in P2P!Orders
    PROVE  /\ BookSound(P2P!Matched(b, o))
           /\ \A l \in LotsIn(P2P!Matched(b, o)) :
                 \/ l \in LotsIn(b) /\ l.id \notin IdsOf(P2P!Against(b, o))
                 \/ \E i \in 1 .. Len(P2P!Against(b, o)) :
                       l = [id |-> P2P!Against(b, o)[i].id,
                            amount |-> P2P!Against(b, o)[i].amount
                                         - P2P!Fills(o, P2P!Against(b, o))[i]]
<1> DEFINE m == P2P!Matched(b, o)
           s == P2P!Against(b, o)
           left == P2P!LeftOf(o, s)
<1>1. /\ SideSound("buy", b.bids) /\ SideSound("sell", b.asks)
      /\ b.index = IdsOf(b.bids) \cup IdsOf(b.asks)
  BY DEF BookSound
<1>2. ASSUME NEW i \in IdsOf(b.bids), NEW j \in IdsOf(b.asks) PROVE i # j
  BY <1>1 DEF SideSound, IdsOf
<1>3. \A l \in LotsOf(b.bids) : l.id \in IdsOf(b.bids)
  BY DEF LotsOf, IdsOf
<1>4. \A l \in LotsOf(b.asks) : l.id \in IdsOf(b.asks)
  BY DEF LotsOf, IdsOf
<1>5. CASE Order[o].side = "buy"
  <2>1. /\ s = b.asks /\ m.bids = b.bids /\ m.asks = left
        /\ m.index = b.index \ P2P!UsedUp(o, s)
    BY <1>5 DEF P2P!Matched, P2P!Against
  <2>2. /\ SideSound("sell", left) /\ IdsOf(left) = IdsOf(s) \ P2P!UsedUp(o, s)
        /\ \A l \in LotsOf(left) : \E i \in 1 .. Len(s) :
              l = [id |-> s[i].id, amount |-> s[i].amount - P2P!Fills(o, s)[i]]
    <3>1. SideSound("sell", s)
      BY <1>1, <2>1
    <3> HIDE DEF s
    <3> QED BY <3>1, SideLeft
  <2>3. P2P!UsedUp(o, s) \subseteq IdsOf(s)
    <3>1. DOMAIN s = 1 .. Len(s)
      BY <1>1, <2>1, LenProperties DEF SideSound
    <3> QED BY <3>1 DEF P2P!UsedUp, IdsOf
  <2> HIDE DEF m, s, left
  <2>4. m.index = IdsOf(m.bids) \cup IdsOf(m.asks)
    BY <1>1, <1>2, <2>1, <2>2, <2>3
  <2>5. BookSound(m)
    BY <1>1, <2>1, <2>2, <2>4 DEF BookSound
  <2>6. ASSUME NEW l \in LotsIn(m)
        PROVE  \/ l \in LotsIn(b) /\ l.id \notin IdsOf(s)
               \/ \E i \in 1 .. Len(s) :
                     l = [id |-> s[i].id, amount |-> s[i].amount - P2P!Fills(o, s)[i]]
    <3>1. l \in LotsOf(b.bids) \/ l \in LotsOf(left)
      BY <2>1 DEF LotsIn
    <3>2. CASE l \in LotsOf(b.bids)
      <4>1. l.id \in IdsOf(b.bids) /\ l.id \notin IdsOf(s)
        BY <1>2, <1>3, <2>1, <3>2
      <4> QED BY <3>2, <4>1 DEF LotsIn
    <3> QED BY <2>2, <3>1, <3>2
  <2> QED BY <2>5, <2>6 DEF m, s
<1>6. CASE Order[o].side = "sell"
  <2>1. /\ s = b.bids /\ m.asks = b.asks /\ m.bids = left
        /\ m.index = b.index \ P2P!UsedUp(o, s)
    BY <1>6 DEF P2P!Matched, P2P!Against
  <2>2. /\ SideSound("buy", left) /\ IdsOf(left) = IdsOf(s) \ P2P!UsedUp(o, s)
        /\ \A l \in LotsOf(left) : \E i \in 1 .. Len(s) :
              l = [id |-> s[i].id, amount |-> s[i].amount - P2P!Fills(o, s)[i]]
    <3>1. SideSound("buy", s)
      BY <1>1, <2>1
    <3> HIDE DEF s
    <3> QED BY <3>1, SideLeft
  <2>3. P2P!UsedUp(o, s) \subseteq IdsOf(s)
    <3>1. DOMAIN s = 1 .. Len(s)
      BY <1>1, <2>1, LenProperties DEF SideSound
    <3> QED BY <3>1 DEF P2P!UsedUp, IdsOf
  <2> HIDE DEF m, s, left
  <2>4. m.index = IdsOf(m.bids) \cup IdsOf(m.asks)
    BY <1>1, <1>2, <2>1, <2>2, <2>3
  <2>5. BookSound(m)
    BY <1>1, <2>1, <2>2, <2>4 DEF BookSound
  <2>6. ASSUME NEW l \in LotsIn(m)
        PROVE  \/ l \in LotsIn(b) /\ l.id \notin IdsOf(s)
               \/ \E i \in 1 .. Len(s) :
                     l = [id |-> s[i].id, amount |-> s[i].amount - P2P!Fills(o, s)[i]]
    <3>1. l \in LotsOf(b.asks) \/ l \in LotsOf(left)
      BY <2>1 DEF LotsIn
    <3>2. CASE l \in LotsOf(b.asks)
      <4>1. l.id \in IdsOf(b.asks) /\ l.id \notin IdsOf(s)
        BY <1>2, <1>4, <2>1, <3>2
      <4> QED BY <3>2, <4>1 DEF LotsIn
    <3> QED BY <2>2, <3>1, <3>2
  <2> QED BY <2>5, <2>6 DEF m, s
<1> QED BY <1>5, <1>6, OrderAssumed

(* start: the restored orders are added one by one.                          *)
AddedUpTo(s, n, f) ==
    f = [i \in 0 .. n |-> IF i = 0 THEN P2P!EmptyBook ELSE P2P!AddOrder(f[i - 1], s[i])]

LEMMA AddAllExists ==
    ASSUME NEW s, Len(s) \in Nat
    PROVE  AddedUpTo(s, Len(s), P2P!AddAll(s))
<1> DEFINE T == {n \in Nat : \E f : AddedUpTo(s, n, f)}
<1>1. 0 \in T
  <2> DEFINE f == [i \in 0 .. 0 |-> P2P!EmptyBook]
  <2>1. AddedUpTo(s, 0, f)
    BY DEF AddedUpTo
  <2> QED BY <2>1
<1>2. ASSUME NEW n \in Nat, n \in T PROVE n + 1 \in T
  <2>1. PICK f : AddedUpTo(s, n, f)
    BY <1>2
  <2>2. \A i \in 0 .. n :
           f[i] = IF i = 0 THEN P2P!EmptyBook ELSE P2P!AddOrder(f[i - 1], s[i])
    BY <2>1 DEF AddedUpTo
  <2> DEFINE g == [i \in 0 .. n + 1 |->
                      IF i = n + 1 THEN P2P!AddOrder(f[n], s[n + 1]) ELSE f[i]]
  <2>3. ASSUME NEW i \in 0 .. n + 1
        PROVE  g[i] = IF i = 0 THEN P2P!EmptyBook ELSE P2P!AddOrder(g[i - 1], s[i])
    <3>1. CASE i = n + 1
      <4>1. g[i] = P2P!AddOrder(f[n], s[n + 1]) /\ g[i - 1] = f[n] /\ i # 0
        BY <3>1
      <4> QED BY <3>1, <4>1
    <3>2. CASE i \in 1 .. n
      <4>1. g[i] = f[i] /\ g[i - 1] = f[i - 1] /\ i # 0 /\ i \in 0 .. n
        BY <3>2
      <4> QED BY <2>2, <4>1
    <3>3. CASE i = 0
      <4>1. g[i] = f[i] /\ i \in 0 .. n
        BY <3>3
      <4> QED BY <2>2, <3>3, <4>1
    <3> QED BY <3>1, <3>2, <3>3
  <2>4. DOMAIN g = 0 .. n + 1
    OBVIOUS
  <2>5. g = [i \in 0 .. n + 1 |-> g[i]]
    OBVIOUS
  <2> HIDE DEF g
  <2>6. AddedUpTo(s, n + 1, g)
    BY <2>3, <2>5 DEF AddedUpTo
  <2> QED BY <2>6
<1>3. Nat \subseteq T
  <2> HIDE DEF T
  <2> QED BY <1>1, <1>2, SetOfNatInduction
<1>4. \E f : AddedUpTo(s, Len(s), f)
  BY <1>3
<1>5. P2P!AddAll(s) = CHOOSE f : AddedUpTo(s, Len(s), f)
  BY DEF P2P!AddAll, AddedUpTo
<1> QED BY <1>4, <1>5

LEMMA BookOfAll ==
    ASSUME NEW s \in Seq(P2P!Orders)
    PROVE  /\ BookSound(P2P!AddAll(s)[Len(s)])
           /\ LotsIn(P2P!AddAll(s)[Len(s)]) \subseteq {WholeLot(s[i]) : i \in 1 .. Len(s)}
<1> DEFINE n == Len(s)
           f == P2P!AddAll(s)
           W == {WholeLot(s[i]) : i \in 1 .. n}
           T == {i \in Nat : i <= n => BookSound(f[i]) /\ LotsIn(f[i]) \subseteq W}
<1>1. n \in Nat
  BY LenProperties
<1>2. AddedUpTo(s, n, f)
  BY <1>1, AddAllExists
<1> HIDE DEF f
<1>3. f[0] = P2P!EmptyBook /\ \A i \in 1 .. n : f[i] = P2P!AddOrder(f[i - 1], s[i])
  <2> HIDE DEF n
  <2> QED BY <1>1, <1>2 DEF AddedUpTo
<1>4. \A i \in 1 .. n : s[i] \in P2P!Orders /\ WholeLot(s[i]) \in W
  BY <1>1, ElementOfSeq
<1> HIDE DEF W, n
<1>5. 0 \in T
  BY <1>3, EmptyBookSound
<1>6. ASSUME NEW i \in Nat, i \in T PROVE i + 1 \in T
  <2> SUFFICES ASSUME i + 1 <= n
               PROVE  BookSound(f[i + 1]) /\ LotsIn(f[i + 1]) \subseteq W
    OBVIOUS
  <2> DEFINE k == i + 1
  <2>1. BookSound(f[i]) /\ LotsIn(f[i]) \subseteq W
    BY <1>1, <1>6
  <2>2. k \in 1 .. n /\ k - 1 = i
    BY <1>1
  <2>3. f[k] = P2P!AddOrder(f[i], s[k]) /\ s[k] \in P2P!Orders /\ WholeLot(s[k]) \in W
    BY <1>3, <1>4, <2>2
  <2> HIDE DEF k
  <2>4. BookSound(f[k]) /\ LotsIn(f[k]) \subseteq W
    <3>1. /\ BookSound(P2P!AddOrder(f[i], s[k]))
          /\ LotsIn(P2P!AddOrder(f[i], s[k])) \subseteq LotsIn(f[i]) \cup {WholeLot(s[k])}
      BY <2>1, <2>3, BookWithOrder
    <3> QED BY <2>1, <2>3, <3>1
  <2> QED BY <2>4 DEF k
<1>7. Nat \subseteq T
  <2> HIDE DEF T
  <2> QED BY <1>5, <1>6, SetOfNatInduction
<1>8. BookSound(f[n]) /\ LotsIn(f[n]) \subseteq W
  BY <1>1, <1>7
<1> QED BY <1>8 DEF W, f, n

-----------------------------------------------------------------------------
(* What trades amount to.                                                    *)
Amounts(T) == SumFunctionOnSet([t \in T |-> t.amount], T)

LEMMA TotalIsAmounts == \A T : P2P!Total(T) = Amounts(T)
  BY Zenon, NodeSum DEF P2P!Total, Amounts

LEMMA AmountsIsNat ==
    ASSUME NEW T, IsFiniteSet(T), T \subseteq P2P!Trade
    PROVE  Amounts(T) \in Nat
<1> DEFINE a == [t \in T |-> t.amount]
<1>1. \A t \in T : a[t] \in Nat
  BY DEF P2P!Trade
<1> HIDE DEF a
<1>2. SumFunctionOnSet(a, T) \in Nat
  BY <1>1, SumNat
<1> QED BY <1>2 DEF a, Amounts

LEMMA AmountsGrow ==
    ASSUME NEW T, IsFiniteSet(T), T \subseteq P2P!Trade, NEW S, S \subseteq T
    PROVE  IsFiniteSet(S) /\ Amounts(S) \in Nat /\ Amounts(S) <= Amounts(T)
<1> DEFINE a == [t \in T |-> t.amount]
           c == [t \in S |-> t.amount]
<1>1. IsFiniteSet(S)
  BY FS_Subset
<1>2. \A t \in T : a[t] \in Nat
  BY DEF P2P!Trade
<1>3. \A t \in S : a[t] = c[t]
  OBVIOUS
<1>4. Amounts(S) \in Nat
  BY <1>1, AmountsIsNat
<1> HIDE DEF a, c
<1>5. SumFunctionOnSet(a, S) <= SumFunctionOnSet(a, T)
  BY <1>2, SumSubset
<1>6. SumFunctionOnSet(a, S) = SumFunctionOnSet(c, S)
  BY <1>1, <1>3, SumEqual
<1> QED BY <1>1, <1>4, <1>5, <1>6 DEF a, c, Amounts

LEMMA AmountsAdd ==
    ASSUME NEW T, IsFiniteSet(T), T \subseteq P2P!Trade, NEW t \in P2P!Trade, t \notin T
    PROVE  Amounts(T \cup {t}) = Amounts(T) + t.amount
<1> DEFINE U == T \cup {t}
           a == [u \in U |-> u.amount]
           c == [u \in T |-> u.amount]
<1>1. IsFiniteSet(U) /\ t \in U /\ U \ {t} = T
  BY FS_AddElement
<1>2. \A u \in U : a[u] \in Int
  BY DEF P2P!Trade
<1>3. (\A u \in T : a[u] = c[u]) /\ a[t] = t.amount /\ t.amount \in Nat
  BY DEF P2P!Trade
<1>4. Amounts(T) \in Nat
  BY AmountsIsNat
<1>5. Amounts(U) = SumFunctionOnSet(a, U) /\ Amounts(T) = SumFunctionOnSet(c, T)
  BY Zenon DEF Amounts
<1> HIDE DEF a, c, U
<1>6. SumFunctionOnSet(a, U) = a[t] + SumFunctionOnSet(a, U \ {t})
  BY <1>1, <1>2, SumElement
<1>7. SumFunctionOnSet(a, T) = SumFunctionOnSet(c, T)
  BY <1>3, SumEqual
<1>8. SumFunctionOnSet(a, U) = t.amount + SumFunctionOnSet(c, T)
  BY Zenon, <1>1, <1>3, <1>6, <1>7
<1> QED BY <1>3, <1>4, <1>5, <1>8 DEF U

-----------------------------------------------------------------------------
(* The invariant of the node.                                                *)
KnownTrades == matches \cup {j.trade : j \in trading}

(* The trades of which the maker's row holds what was written, or is gone.   *)
Unwritten == {j.trade : j \in {k \in trading : k.at \in {"read", "write"}}}
WrittenFor(o) == {t \in matches : t.maker = o /\ t \notin Unwritten}

NodeTyped ==
    /\ up \in BOOLEAN /\ opens \in 0 .. MaxOpens
    /\ rows \in [P2P!Orders -> P2P!Row \cup {NoRow}]
    /\ copies \in [P2P!Orders -> Nat] /\ \A o \in P2P!Orders : copies[o] <= MaxCopies[o]
    /\ placing \subseteq Own /\ expired \subseteq P2P!Orders /\ cancelled \subseteq P2P!Orders

(* A node that is not up has nothing in memory; before its first start there *)
(* is nothing in the tables either.                                          *)
NodeDown ==
    /\ ~up => saving = {} /\ trading = {} /\ placing = {} /\ book = P2P!EmptyBook
    /\ opens = 0 => /\ ~up /\ matches = {}
                    /\ \A o \in P2P!Orders : rows[o] = NoRow /\ copies[o] = 0

(* The handlers under way, each of a message of its own.                     *)
SavingTyped ==
    /\ saving \subseteq [id : P2P!Orders, run : Nat \ {0}]
    /\ IsFiniteSet(saving)
    /\ \A h \in saving : h.run <= copies[h.id]

TradingTyped ==
    \A j \in trading : /\ j = P2P!Handling(j.trade, j.at, j.read)
                       /\ j.at \in {"publish", "read", "write", "done"}
                       /\ j.at = "write" => j.read \in Nat

(* Every trade is known by the message that made it and handled once; what   *)
(* is handled is saved, except before it is published.                       *)
TradesOnce ==
    /\ KnownTrades \subseteq P2P!Trade /\ IsFiniteSet(KnownTrades)
    /\ settling \subseteq matches
    /\ \A t \in KnownTrades : t.run <= copies[t.taker]
    /\ \A t \in KnownTrades : \A h \in saving : ~(t.taker = h.id /\ t.run = h.run)
    /\ \A j, k \in trading : j.trade = k.trade => j = k
    /\ \A j \in trading : j.at = "publish" <=> j.trade \notin matches

(* A row holds no more than the trades written to it, and neither does what  *)
(* a handler has read of it.                                                 *)
RowBacked(row, o) ==
    /\ row.filled <= Amounts(WrittenFor(o))
    /\ row.status = "settled" => Order[o].amount <= Amounts(WrittenFor(o))
RowsWritten ==
    /\ \A o \in P2P!Orders : rows[o] # NoRow => RowBacked(rows[o], o)
    /\ \A j \in trading : j.at = "write" => j.read <= Amounts(WrittenFor(j.trade.maker))

(* What an order has made, and may still make: its message's handlers under  *)
(* way will each enter it once more, and what rests of it can be taken.      *)
MadeOf(o) == {t \in KnownTrades : t.maker = o}
RunsOf(o) == {h \in saving : h.id = o}
Load(o) == Amounts(MadeOf(o)) + Order[o].amount * Cardinality(RunsOf(o))
Entered(o) == Order[o].amount * (copies[o] + opens - 1)
MadeBounded ==
    opens > 0 =>
        /\ \A o \in P2P!Orders : Load(o) <= Entered(o)
        /\ \A l \in LotsIn(book) : Load(l.id) + l.amount <= Entered(l.id)

NodeInv ==
    /\ NodeTyped /\ NodeDown /\ SavingTyped /\ TradingTyped /\ TradesOnce
    /\ RowsWritten /\ BookSound(book) /\ MadeBounded

-----------------------------------------------------------------------------
LEMMA TimesGrows ==
    ASSUME NEW a \in Nat, NEW b \in Nat, NEW c \in Nat, b <= c
    PROVE  a * b \in Nat /\ a * c \in Nat /\ a * b <= a * c
<1>1. PICK d \in Nat : c = b + d
  <2>1. c = b + (c - b) /\ c - b \in Nat
    OBVIOUS
  <2> QED BY <2>1
<1>2. a * (b + d) = a * b + a * d
  BY Distribute
<1>3. a * b \in Nat /\ a * d \in Nat
  OBVIOUS
<1> QED BY <1>1, <1>2, <1>3

LEMMA TimesNext ==
    ASSUME NEW a \in Nat, NEW b \in Int
    PROVE  a * (b + 1) = a * b + a /\ a * b \in Int
<1>1. a * (b + 1) = a * b + a * 1
  BY Distribute
<1> QED BY <1>1

(* What is known of trades, loads and entries in any state.                  *)
LEMMA LoadTyped ==
    ASSUME NodeInv, NEW o \in P2P!Orders
    PROVE  /\ IsFiniteSet(MadeOf(o)) /\ MadeOf(o) \subseteq P2P!Trade
           /\ Amounts(MadeOf(o)) \in Nat
           /\ IsFiniteSet(RunsOf(o)) /\ Cardinality(RunsOf(o)) \in Nat
           /\ Order[o].amount * Cardinality(RunsOf(o)) \in Nat
           /\ Load(o) \in Nat
<1>1. KnownTrades \subseteq P2P!Trade /\ IsFiniteSet(KnownTrades) /\ IsFiniteSet(saving)
  BY DEF NodeInv, TradesOnce, SavingTyped
<1>2. MadeOf(o) \subseteq KnownTrades /\ RunsOf(o) \subseteq saving
  BY DEF MadeOf, RunsOf
<1>3. IsFiniteSet(MadeOf(o)) /\ MadeOf(o) \subseteq P2P!Trade /\ Amounts(MadeOf(o)) \in Nat
  BY <1>1, <1>2, AmountsGrow
<1>4. IsFiniteSet(RunsOf(o)) /\ Cardinality(RunsOf(o)) \in Nat
  BY <1>1, <1>2, FS_Subset, FS_CardinalityType
<1>5. Order[o].amount * Cardinality(RunsOf(o)) \in Nat
  BY <1>4, OrderAssumed, TimesGrows
<1> QED BY <1>3, <1>4, <1>5 DEF Load

LEMMA LoadFalls ==
    ASSUME NodeInv, NEW o \in P2P!Orders,
           KnownTrades' \subseteq KnownTrades, saving' \subseteq saving
    PROVE  Load(o)' \in Nat /\ Load(o)' <= Load(o) /\ Load(o) \in Nat
<1>1. /\ IsFiniteSet(MadeOf(o)) /\ MadeOf(o) \subseteq P2P!Trade /\ IsFiniteSet(RunsOf(o))
      /\ Amounts(MadeOf(o)) \in Nat /\ Cardinality(RunsOf(o)) \in Nat
  BY LoadTyped
<1>2. MadeOf(o)' \subseteq MadeOf(o) /\ RunsOf(o)' \subseteq RunsOf(o)
  BY DEF MadeOf, RunsOf
<1>3. Amounts(MadeOf(o)') \in Nat /\ Amounts(MadeOf(o)') <= Amounts(MadeOf(o))
  BY <1>1, <1>2, AmountsGrow
<1>4. /\ Cardinality(RunsOf(o)') \in Nat
      /\ Cardinality(RunsOf(o)') <= Cardinality(RunsOf(o))
  BY <1>1, <1>2, FS_Subset, FS_CardinalityType
<1>5. /\ Order[o].amount * Cardinality(RunsOf(o)') \in Nat
      /\ Order[o].amount * Cardinality(RunsOf(o)) \in Nat
      /\ Order[o].amount * Cardinality(RunsOf(o)') <= Order[o].amount * Cardinality(RunsOf(o))
  BY <1>1, <1>4, OrderAssumed, TimesGrows
<1>6. /\ Load(o) = Amounts(MadeOf(o)) + Order[o].amount * Cardinality(RunsOf(o))
      /\ Load(o)' = Amounts(MadeOf(o)') + Order[o].amount * Cardinality(RunsOf(o)')
  BY DEF Load
<1> QED BY <1>1, <1>3, <1>5, <1>6

(* A lot of the book is of an order.                                         *)
LEMMA LotOfOrder ==
    ASSUME NEW b, BookSound(b), NEW l \in LotsIn(b)
    PROVE  l \in RestingLot /\ l.id \in P2P!Orders /\ l.amount \in Nat /\ l.id \in b.index
<1>1. /\ b.bids \in Seq(RestingLot) /\ b.asks \in Seq(RestingLot)
      /\ b.index = IdsOf(b.bids) \cup IdsOf(b.asks)
  BY DEF BookSound, SideSound
<1>2. l \in LotsOf(b.bids) \/ l \in LotsOf(b.asks)
  BY DEF LotsIn
<1>3. l \in RestingLot
  <2>1. \A i \in 1 .. Len(b.bids) : b.bids[i] \in RestingLot
    BY <1>1, ElementOfSeq
  <2>2. \A i \in 1 .. Len(b.asks) : b.asks[i] \in RestingLot
    BY <1>1, ElementOfSeq
  <2> QED BY <1>2, <2>1, <2>2 DEF LotsOf
<1>4. l.id \in b.index
  BY <1>1, <1>2 DEF LotsOf, IdsOf
<1>5. l.id \in P2P!Orders /\ l.amount \in Nat \ {0}
  BY <1>3 DEF RestingLot
<1> QED BY <1>3, <1>4, <1>5

(* A step that makes no trade and brings nothing into the book.              *)
LEMMA NothingMade ==
    ASSUME NodeInv, KnownTrades' \subseteq KnownTrades, saving' \subseteq saving,
           LotsIn(book') \subseteq LotsIn(book), opens' = opens,
           copies' \in [P2P!Orders -> Nat], \A o \in P2P!Orders : copies[o] <= copies'[o]
    PROVE  MadeBounded'
<1> SUFFICES ASSUME opens > 0
             PROVE  /\ \A o \in P2P!Orders : Load(o)' <= Entered(o)'
                    /\ \A l \in LotsIn(book') : Load(l.id)' + l.amount <= Entered(l.id)'
  BY DEF MadeBounded
<1>1. ASSUME NEW o \in P2P!Orders
      PROVE  /\ Load(o)' \in Nat /\ Load(o) \in Nat /\ Load(o)' <= Load(o)
             /\ Entered(o) \in Nat /\ Entered(o)' \in Nat /\ Entered(o) <= Entered(o)'
  <2>1. Load(o)' \in Nat /\ Load(o)' <= Load(o) /\ Load(o) \in Nat
    BY LoadFalls
  <2>2. /\ copies[o] \in Nat /\ copies'[o] \in Nat /\ copies[o] <= copies'[o]
        /\ opens \in Nat /\ opens' = opens /\ Order[o].amount \in Nat
    BY OrderAssumed DEF NodeInv, NodeTyped
  <2> DEFINE c == copies[o] + opens - 1
             d == copies'[o] + opens' - 1
  <2>3. c \in Nat /\ d \in Nat /\ c <= d
    BY <2>2
  <2>4. Entered(o) = Order[o].amount * c /\ Entered(o)' = Order[o].amount * d
    BY DEF Entered
  <2> HIDE DEF c, d
  <2> QED BY <2>1, <2>2, <2>3, <2>4, TimesGrows
<1>2. /\ \A o \in P2P!Orders : Load(o) <= Entered(o)
      /\ \A l \in LotsIn(book) : Load(l.id) + l.amount <= Entered(l.id)
  BY DEF NodeInv, MadeBounded
<1>3. ASSUME NEW o \in P2P!Orders PROVE Load(o)' <= Entered(o)'
  BY <1>1, <1>2
<1>4. ASSUME NEW l \in LotsIn(book') PROVE Load(l.id)' + l.amount <= Entered(l.id)'
  <2>1. l \in LotsIn(book) /\ BookSound(book)
    BY DEF NodeInv
  <2>2. l.id \in P2P!Orders /\ l.amount \in Nat
    BY <2>1, LotOfOrder
  <2>3. PICK o \in P2P!Orders : o = l.id
    BY <2>2
  <2>4. Load(o)' + l.amount <= Entered(o)'
    <3>1. Load(o) + l.amount <= Entered(o)
      BY <1>2, <2>1, <2>3
    <3> QED BY <1>1, <2>2, <3>1
  <2> QED BY Zenon, <2>3, <2>4
<1> QED BY <1>3, <1>4

(* Rows are backed as before when what is written stays written.             *)
LEMMA WrittenGrows ==
    ASSUME NodeInv, NEW o \in P2P!Orders, TradesOnce',
           WrittenFor(o) \subseteq WrittenFor(o)'
    PROVE  /\ Amounts(WrittenFor(o)) \in Nat /\ Amounts(WrittenFor(o)') \in Nat
           /\ Amounts(WrittenFor(o)) <= Amounts(WrittenFor(o)')
<1>1. KnownTrades' \subseteq P2P!Trade /\ IsFiniteSet(KnownTrades')
  BY DEF NodeInv, TradesOnce
<1>2. WrittenFor(o)' \subseteq KnownTrades'
  BY DEF WrittenFor, KnownTrades
<1>3. WrittenFor(o)' \subseteq P2P!Trade /\ IsFiniteSet(WrittenFor(o)')
      /\ Amounts(WrittenFor(o)') \in Nat
  BY <1>1, <1>2, AmountsGrow
<1> QED BY <1>3, AmountsGrow

LEMMA RowTyped ==
    ASSUME NodeInv, NEW o \in P2P!Orders, rows[o] # NoRow
    PROVE  /\ rows[o] \in P2P!Row /\ rows[o].filled \in Nat
           /\ rows[o] = [status |-> rows[o].status, filled |-> rows[o].filled]
           /\ rows[o].status \in {"pending", "partial", "matched", "settled", "cancelled"}
<1>1. rows[o] \in P2P!Row
  BY DEF NodeInv, NodeTyped
<1> QED BY <1>1 DEF P2P!Row

LEMMA RowsKept ==
    ASSUME NodeInv, TradesOnce', \A o \in P2P!Orders : WrittenFor(o) \subseteq WrittenFor(o)',
           \A o \in P2P!Orders :
              \/ rows'[o] = NoRow
              \/ rows'[o] = rows[o]
              \/ rows'[o] = P2P!FreshRow
              \/ rows[o] # NoRow /\ \E status \in {"pending", "cancelled"} :
                    rows'[o] = [status |-> status, filled |-> rows[o].filled],
           \A j \in trading' : j.at = "write" => j \in trading
    PROVE  RowsWritten'
<1>1. ASSUME NEW o \in P2P!Orders
      PROVE  /\ Amounts(WrittenFor(o)) \in Nat /\ Amounts(WrittenFor(o)') \in Nat
             /\ Amounts(WrittenFor(o)) <= Amounts(WrittenFor(o)')
  BY WrittenGrows
<1>2. ASSUME NEW o \in P2P!Orders, rows'[o] # NoRow
      PROVE  /\ rows'[o].filled <= Amounts(WrittenFor(o)')
             /\ rows'[o].status = "settled" => Order[o].amount <= Amounts(WrittenFor(o)')
  <2>1. /\ Amounts(WrittenFor(o)) \in Nat /\ Amounts(WrittenFor(o)') \in Nat
        /\ Amounts(WrittenFor(o)) <= Amounts(WrittenFor(o)') /\ Order[o].amount \in Nat
    BY <1>1, OrderAssumed
  <2>2. rows[o] # NoRow =>
           /\ rows[o].filled \in Nat /\ rows[o].filled <= Amounts(WrittenFor(o))
           /\ rows[o].status = "settled" => Order[o].amount <= Amounts(WrittenFor(o))
    BY RowTyped DEF NodeInv, RowsWritten, RowBacked
  <2>3. CASE rows'[o] = rows[o]
    BY <1>2, <2>1, <2>2, <2>3
  <2>4. CASE rows'[o] = P2P!FreshRow
    <3>1. rows'[o].filled = 0 /\ rows'[o].status = "pending"
      BY <2>4 DEF P2P!FreshRow
    <3> QED BY <2>1, <3>1
  <2>5. CASE rows[o] # NoRow /\ \E status \in {"pending", "cancelled"} :
                rows'[o] = [status |-> status, filled |-> rows[o].filled]
    <3>1. rows'[o].filled = rows[o].filled /\ rows'[o].status # "settled"
      BY <2>5
    <3> QED BY <2>1, <2>2, <2>5, <3>1
  <2> QED BY <1>2, <2>3, <2>4, <2>5
<1>3. ASSUME NEW j \in trading', j.at = "write"
      PROVE  j.read <= Amounts(WrittenFor(j.trade.maker)')
  <2>1. j \in trading
    BY <1>3
  <2>2. j.read \in Nat /\ j.trade \in P2P!Trade
    BY <1>3, <2>1 DEF NodeInv, TradingTyped, TradesOnce, KnownTrades
  <2>3. PICK o \in P2P!Orders : o = j.trade.maker
    BY <2>2 DEF P2P!Trade
  <2>4. j.read <= Amounts(WrittenFor(o))
    BY <1>3, <2>1, <2>3 DEF NodeInv, RowsWritten
  <2>5. j.read <= Amounts(WrittenFor(o)')
    BY <1>1, <2>2, <2>4
  <2> QED BY Zenon, <2>3, <2>5
<1> QED BY <1>2, <1>3 DEF RowsWritten, RowBacked

(* A step of no handler of a trade.                                          *)
LEMMA TradesStay ==
    ASSUME NodeInv, UNCHANGED <<trading, matches, settling>>,
           copies' \in [P2P!Orders -> Nat], \A o \in P2P!Orders : copies[o] <= copies'[o],
           \A h \in saving' : h \in saving \/ \E o \in P2P!Orders :
              h.id = o /\ h.run = copies[o] + 1
    PROVE  /\ KnownTrades' = KnownTrades /\ TradingTyped' /\ TradesOnce'
           /\ \A o : WrittenFor(o)' = WrittenFor(o)
           /\ \A j \in trading' : j.at = "write" => j \in trading
<1>1. KnownTrades' = KnownTrades
  BY DEF KnownTrades
<1>2. \A o : WrittenFor(o)' = WrittenFor(o)
  BY DEF WrittenFor, Unwritten
<1>3. TradingTyped'
  BY DEF NodeInv, TradingTyped
<1>4. /\ KnownTrades \subseteq P2P!Trade /\ IsFiniteSet(KnownTrades) /\ settling \subseteq matches
      /\ \A t \in KnownTrades : t.run <= copies[t.taker]
      /\ \A t \in KnownTrades : \A h \in saving : ~(t.taker = h.id /\ t.run = h.run)
      /\ \A j, k \in trading : j.trade = k.trade => j = k
      /\ \A j \in trading : j.at = "publish" <=> j.trade \notin matches
  BY DEF NodeInv, TradesOnce
<1>5. ASSUME NEW t \in KnownTrades
      PROVE  t.run \in Nat /\ t.taker \in P2P!Orders /\ t.run <= copies[t.taker]
             /\ copies[t.taker] \in Nat
  <2>1. t \in P2P!Trade
    BY <1>4
  <2>2. t.run \in Nat \ {0} /\ t.taker \in P2P!Orders
    BY <2>1 DEF P2P!Trade
  <2> QED BY <1>4, <2>2 DEF NodeInv, NodeTyped
<1>6. \A t \in KnownTrades : t.run <= copies'[t.taker]
  <2> TAKE t \in KnownTrades
  <2>1. copies'[t.taker] \in Nat /\ copies[t.taker] <= copies'[t.taker]
    BY <1>5
  <2> QED BY <1>5, <2>1
<1>7. ASSUME NEW t \in KnownTrades, NEW h \in saving' PROVE ~(t.taker = h.id /\ t.run = h.run)
  <2>1. CASE h \in saving
    BY <1>4, <2>1
  <2>2. CASE \E o \in P2P!Orders : h.id = o /\ h.run = copies[o] + 1
    <3>1. PICK o \in P2P!Orders : h.id = o /\ h.run = copies[o] + 1
      BY <2>2
    <3>2. SUFFICES ASSUME t.taker = o PROVE t.run # copies[o] + 1
      BY <3>1
    <3> QED BY <1>5, <3>2
  <2> QED BY <2>1, <2>2
<1>8. TradesOnce'
  BY <1>1, <1>4, <1>6, <1>7 DEF TradesOnce
<1> QED BY <1>1, <1>2, <1>3, <1>8

LEMMA NoTradesNoLoad ==
    ASSUME NEW o
    PROVE  /\ Amounts({}) = 0 /\ Cardinality({}) = 0
           /\ Order[o].amount \in Nat => Order[o].amount * 0 = 0
<1>1. Amounts({}) = 0
  BY SumEmpty DEF Amounts
<1> QED BY <1>1, FS_EmptySet

(* The manager starts: what its book makes room for is one more entry.       *)
LEMMA OpenTabKeeps ==
    ASSUME NodeInv, P2P!OpenTab
    PROVE  NodeInv'
<1>1. /\ opens < MaxOpens /\ ~up /\ up' = TRUE /\ opens' = opens + 1
      /\ UNCHANGED <<rows, matches, saving, trading, placing, expired, copies, cancelled, settling>>
  BY DEF P2P!OpenTab, P2P!Start
<1>2. PICK s \in P2P!SetToSeqs(P2P!Restored) : book' = P2P!AddAll(s)[Len(s)]
  BY DEF P2P!OpenTab, P2P!Start
<1>3. s \in Seq(P2P!Restored) /\ s \in Seq(P2P!Orders)
  <2>1. P2P!Restored \subseteq P2P!Orders
    BY DEF P2P!Restored
  <2>2. \A S : P2P!IsFiniteSet(S) => IsFiniteSet(S)
    BY Zenon DEF P2P!IsFiniteSet, IsFiniteSet
  <2>3. IsFiniteSet(P2P!Orders)
    BY <2>2, NodeAssumed DEF P2P!OrderAssumption
  <2>4. Cardinality(P2P!Restored) \in Nat
    BY <2>1, <2>3, FS_Subset, FS_CardinalityType
  <2>5. s \in [1 .. P2P!Cardinality(P2P!Restored) -> P2P!Restored]
    BY DEF P2P!SetToSeqs
  <2>6. s \in [1 .. Cardinality(P2P!Restored) -> P2P!Restored]
    BY Zenon, <2>5, NodeCardinality
  <2>7. s \in Seq(P2P!Restored)
    BY <2>4, <2>6
  <2>8. s \in [1 .. Cardinality(P2P!Restored) -> P2P!Orders]
    BY <2>1, <2>6
  <2> QED BY <2>4, <2>7, <2>8
<1>4. /\ BookSound(book')
      /\ LotsIn(book') \subseteq {WholeLot(s[i]) : i \in 1 .. Len(s)}
  BY <1>2, <1>3, BookOfAll
<1>5. NodeTyped /\ NodeDown
  BY DEF NodeInv
<1>6. NodeTyped'
  BY <1>1, <1>5, OrderAssumed DEF NodeTyped
<1>7. NodeDown'
  BY <1>1, <1>6, <1>5 DEF NodeDown, NodeTyped
<1>8. SavingTyped'
  BY <1>1 DEF NodeInv, SavingTyped
<1>9. /\ KnownTrades' = KnownTrades /\ TradingTyped' /\ TradesOnce'
      /\ \A o : WrittenFor(o)' = WrittenFor(o)
      /\ \A j \in trading' : j.at = "write" => j \in trading
  <2>1. /\ copies' \in [P2P!Orders -> Nat]
        /\ \A o \in P2P!Orders : copies[o] \in Nat /\ copies' = copies
    BY <1>1, <1>5 DEF NodeTyped
  <2>2. \A o \in P2P!Orders : copies[o] <= copies'[o]
    BY <2>1
  <2> QED BY <1>1, <2>1, <2>2, TradesStay
<1>10. RowsWritten'
  BY <1>1, <1>9, RowsKept
<1>11. ASSUME NEW o \in P2P!Orders
       PROVE  /\ Load(o)' = Load(o) /\ Load(o) \in Nat /\ Entered(o)' \in Nat
              /\ Load(o) <= Entered(o)'
              /\ opens > 0 => Load(o) + Order[o].amount <= Entered(o)'
  <2>1. Load(o)' = Load(o) /\ Load(o) \in Nat
    BY <1>1, <1>9, LoadTyped DEF Load, MadeOf, RunsOf
  <2>2. /\ copies[o] \in Nat /\ copies'[o] = copies[o] /\ opens \in Nat
        /\ Order[o].amount \in Nat
    BY <1>1, <1>5, OrderAssumed DEF NodeTyped
  <2> DEFINE c == copies[o] + opens - 1
             d == copies[o] + opens
  <2>3. Entered(o) = Order[o].amount * c /\ Entered(o)' = Order[o].amount * d
    <3>1. copies'[o] + opens' - 1 = d
      BY <1>1, <2>2
    <3> QED BY <3>1 DEF Entered
  <2>4. c \in Int /\ d \in Nat /\ d = c + 1
    BY <2>2
  <2> HIDE DEF c, d
  <2>5. Entered(o)' = Entered(o) + Order[o].amount /\ Entered(o) \in Int /\ Entered(o)' \in Nat
    <3>1. Order[o].amount * (c + 1) = Order[o].amount * c + Order[o].amount
          /\ Order[o].amount * c \in Int
      BY <2>2, <2>4, TimesNext
    <3>2. Order[o].amount * d \in Nat
      <4>1. Order[o].amount \in Nat /\ d \in Nat /\ d <= d
        BY <2>2, <2>4
      <4> QED BY <4>1, TimesGrows
    <3> QED BY <2>3, <2>4, <3>1, <3>2
  <2>6. CASE opens > 0
    <3>1. Load(o) <= Entered(o)
      BY <2>6 DEF NodeInv, MadeBounded
    <3> QED BY <2>1, <2>2, <2>5, <3>1
  <2>7. CASE opens = 0
    <3>1. MadeOf(o) = {} /\ RunsOf(o) = {}
      BY <1>1, <1>5, <2>7 DEF NodeDown, MadeOf, RunsOf, KnownTrades
    <3>2. Load(o) = 0
      BY <2>2, <3>1, NoTradesNoLoad DEF Load
    <3> QED BY <2>1, <2>5, <2>7, <3>2
  <2> QED BY <2>1, <2>2, <2>5, <2>6, <2>7
<1>12. MadeBounded'
  <2>1. ASSUME NEW l \in LotsIn(book') PROVE Load(l.id)' + l.amount <= Entered(l.id)'
    <3>1. PICK i \in 1 .. Len(s) : l = WholeLot(s[i])
      BY <1>4
    <3>2. s[i] \in P2P!Restored
      BY <1>3, ElementOfSeq
    <3>3. PICK o \in P2P!Orders : o = s[i] /\ rows[o] # NoRow
      BY <3>2 DEF P2P!Restored, P2P!IsActiveOrder, P2P!IsOpen
    <3>4. l.id = o /\ l.amount = Order[o].amount
      BY <3>1, <3>3 DEF WholeLot
    <3>5. opens > 0
      BY <1>5, <3>3 DEF NodeDown, NodeTyped
    <3>6. Load(o)' + Order[o].amount <= Entered(o)'
      BY <1>11, <3>5
    <3> QED BY Zenon, <3>4, <3>6
  <2>2. \A o \in P2P!Orders : Load(o)' <= Entered(o)'
    BY <1>11
  <2> QED BY <2>1, <2>2 DEF MadeBounded
<1> QED BY <1>4, <1>6, <1>7, <1>8, <1>9, <1>10, <1>12 DEF NodeInv

(* The manager stops, or the tab is gone: only the tables stay.              *)
LEMMA CloseTabKeeps ==
    ASSUME NodeInv, P2P!CloseTab
    PROVE  NodeInv'
<1>1. /\ up' = FALSE /\ book' = P2P!EmptyBook
      /\ saving' = {} /\ trading' = {} /\ placing' = {}
      /\ UNCHANGED <<opens, rows, matches, expired, copies, cancelled, settling>>
  BY DEF P2P!CloseTab, P2P!Stop
<1>2. BookSound(book') /\ LotsIn(book') = {}
  BY <1>1, EmptyBookSound
<1>3. NodeTyped'
  BY <1>1 DEF NodeInv, NodeTyped
<1>4. NodeDown'
  BY <1>1 DEF NodeInv, NodeDown
<1>5. SavingTyped' /\ TradingTyped'
  BY <1>1, FS_EmptySet DEF SavingTyped, TradingTyped
<1>6. KnownTrades' = matches /\ KnownTrades' \subseteq KnownTrades
  BY <1>1 DEF KnownTrades
<1>7. TradesOnce'
  <2>1. KnownTrades' \subseteq P2P!Trade /\ IsFiniteSet(KnownTrades')
    BY <1>6, FS_Subset DEF NodeInv, TradesOnce
  <2> QED BY <1>1, <1>6, <2>1 DEF NodeInv, TradesOnce
<1>8. \A o \in P2P!Orders : WrittenFor(o) \subseteq WrittenFor(o)'
  BY <1>1 DEF WrittenFor, Unwritten
<1>9. RowsWritten'
  BY <1>1, <1>7, <1>8, RowsKept
<1>10. MadeBounded'
  <2>1. copies \in [P2P!Orders -> Nat]
    BY DEF NodeInv, NodeTyped
  <2>2. \A o \in P2P!Orders : copies[o] <= copies'[o]
    BY <1>1, <2>1
  <2> QED BY <1>1, <1>2, <1>6, <2>1, <2>2, NothingMade
<1> QED BY <1>2, <1>3, <1>4, <1>5, <1>7, <1>9, <1>10 DEF NodeInv

(* The handlers that touch rows and messages only.                           *)
LEMMA CleanupKeeps ==
    ASSUME NodeInv, P2P!Cleanup
    PROVE  NodeInv'
<1>1. /\ \E old : rows' = [o \in P2P!Orders |-> IF o \in P2P!Deleted(old) THEN NoRow ELSE rows[o]]
      /\ UNCHANGED <<up, opens, book, matches, saving, trading, placing, expired, copies,
                     cancelled, settling>>
      /\ up
  BY DEF P2P!Cleanup
<1>2. NodeTyped'
  <2>1. rows' \in [P2P!Orders -> P2P!Row \cup {NoRow}]
    BY <1>1 DEF NodeInv, NodeTyped
  <2> QED BY <1>1, <2>1 DEF NodeInv, NodeTyped
<1>3. NodeDown'
  <2>1. opens # 0
    BY <1>1 DEF NodeInv, NodeDown
  <2> QED BY <1>1, <2>1 DEF NodeInv, NodeDown
<1>4. copies' = copies /\ copies' \in [P2P!Orders -> Nat]
      /\ \A o \in P2P!Orders : copies[o] <= copies'[o]
  BY <1>1 DEF NodeInv, NodeTyped
<1>5. /\ KnownTrades' = KnownTrades /\ TradingTyped' /\ TradesOnce'
      /\ \A o : WrittenFor(o)' = WrittenFor(o)
      /\ \A j \in trading' : j.at = "write" => j \in trading
  BY <1>1, <1>4, TradesStay
<1>6. RowsWritten'
  <2>1. \A o \in P2P!Orders : rows'[o] = NoRow \/ rows'[o] = rows[o]
    BY <1>1
  <2> QED BY <1>5, <2>1, RowsKept
<1>7. SavingTyped' /\ BookSound(book')
  BY <1>1 DEF NodeInv, SavingTyped
<1>8. MadeBounded'
  BY <1>1, <1>4, <1>5, NothingMade
<1> QED BY <1>2, <1>3, <1>5, <1>6, <1>7, <1>8 DEF NodeInv

LEMMA ExpireKeeps ==
    ASSUME NodeInv, NEW o \in P2P!Orders, P2P!Expire(o)
    PROVE  NodeInv'
<1>1. /\ expired' = expired \cup {o}
      /\ UNCHANGED <<up, opens, book, rows, matches, saving, trading, placing, copies,
                     cancelled, settling>>
  BY DEF P2P!Expire
<1>2. NodeTyped' /\ NodeDown'
  BY <1>1 DEF NodeInv, NodeTyped, NodeDown
<1>3. copies' = copies /\ copies' \in [P2P!Orders -> Nat]
      /\ \A p \in P2P!Orders : copies[p] <= copies'[p]
  BY <1>1 DEF NodeInv, NodeTyped
<1>4. /\ KnownTrades' = KnownTrades /\ TradingTyped' /\ TradesOnce'
      /\ \A p : WrittenFor(p)' = WrittenFor(p)
      /\ \A j \in trading' : j.at = "write" => j \in trading
  BY <1>1, <1>3, TradesStay
<1>5. RowsWritten'
  BY <1>1, <1>4, RowsKept
<1>6. SavingTyped' /\ BookSound(book')
  BY <1>1 DEF NodeInv, SavingTyped
<1>7. MadeBounded'
  BY <1>1, <1>3, <1>4, NothingMade
<1> QED BY <1>2, <1>4, <1>5, <1>6, <1>7 DEF NodeInv

LEMMA PlaceOwnKeeps ==
    ASSUME NodeInv, NEW o \in P2P!Orders, P2P!PlaceOwn(o)
    PROVE  NodeInv'
<1>1. /\ up /\ o \in Own /\ copies[o] = 0
      /\ copies' = [copies EXCEPT ![o] = 1] /\ placing' = placing \cup {o}
      /\ UNCHANGED <<up, opens, book, rows, matches, saving, trading, expired, cancelled,
                     settling>>
  BY DEF P2P!PlaceOwn
<1>2. /\ copies' \in [P2P!Orders -> Nat]
      /\ \A p \in P2P!Orders : copies[p] <= copies'[p] /\ copies'[p] <= MaxCopies[p]
  <2>1. copies \in [P2P!Orders -> Nat] /\ \A p \in P2P!Orders : copies[p] <= MaxCopies[p]
    BY DEF NodeInv, NodeTyped
  <2>2. MaxCopies[o] \in Nat /\ MaxCopies[o] > 0
    BY <1>1, OrderAssumed
  <2> QED BY <1>1, <2>1, <2>2
<1>3. NodeTyped'
  BY <1>1, <1>2 DEF NodeInv, NodeTyped
<1>4. NodeDown'
  <2>1. opens # 0
    BY <1>1 DEF NodeInv, NodeDown
  <2> QED BY <1>1, <2>1 DEF NodeInv, NodeDown
<1>5. /\ KnownTrades' = KnownTrades /\ TradingTyped' /\ TradesOnce'
      /\ \A p : WrittenFor(p)' = WrittenFor(p)
      /\ \A j \in trading' : j.at = "write" => j \in trading
  BY <1>1, <1>2, TradesStay
<1>6. RowsWritten'
  BY <1>1, <1>5, RowsKept
<1>7. SavingTyped'
  <2>1. saving' \subseteq [id : P2P!Orders, run : Nat \ {0}] /\ IsFiniteSet(saving')
    BY <1>1 DEF NodeInv, SavingTyped
  <2>2. ASSUME NEW h \in saving' PROVE h.run <= copies'[h.id]
    <3>1. h \in saving /\ h.id \in P2P!Orders /\ h.run \in Nat /\ h.run <= copies[h.id]
      BY <1>1 DEF NodeInv, SavingTyped
    <3>2. copies[h.id] <= copies'[h.id] /\ copies[h.id] \in Nat /\ copies'[h.id] \in Nat
      BY <1>2, <3>1 DEF NodeInv, NodeTyped
    <3> QED BY <3>1, <3>2
  <2> QED BY <2>1, <2>2 DEF SavingTyped
<1>8. BookSound(book')
  BY <1>1 DEF NodeInv
<1>9. MadeBounded'
  BY <1>1, <1>2, <1>5, NothingMade
<1> QED BY <1>3, <1>4, <1>5, <1>6, <1>7, <1>8, <1>9 DEF NodeInv

LEMMA PlacedOwnKeeps ==
    ASSUME NodeInv, NEW o \in placing, P2P!PlacedOwn(o)
    PROVE  NodeInv'
<1>1. /\ placing' = placing \ {o}
      /\ rows' = [rows EXCEPT ![o] = P2P!FreshRow] \/ rows' = rows
      /\ UNCHANGED <<up, opens, book, matches, saving, trading, expired, copies, cancelled,
                     settling>>
  BY DEF P2P!PlacedOwn
<1>2. o \in P2P!Orders /\ P2P!FreshRow \in P2P!Row
  BY OrderAssumed DEF NodeInv, NodeTyped, P2P!FreshRow, P2P!Row
<1>3. NodeTyped'
  <2>1. rows' \in [P2P!Orders -> P2P!Row \cup {NoRow}]
    BY <1>1, <1>2 DEF NodeInv, NodeTyped
  <2> QED BY <1>1, <2>1 DEF NodeInv, NodeTyped
<1>4. copies' = copies /\ copies' \in [P2P!Orders -> Nat]
      /\ \A p \in P2P!Orders : copies[p] <= copies'[p]
  BY <1>1 DEF NodeInv, NodeTyped
<1>5. NodeDown'
  <2>1. opens # 0
    BY <1>2 DEF NodeInv, NodeDown
  <2> QED BY <1>1, <2>1 DEF NodeInv, NodeDown
<1>6. /\ KnownTrades' = KnownTrades /\ TradingTyped' /\ TradesOnce'
      /\ \A p : WrittenFor(p)' = WrittenFor(p)
      /\ \A j \in trading' : j.at = "write" => j \in trading
  BY <1>1, <1>4, TradesStay
<1>7. RowsWritten'
  <2>1. \A p \in P2P!Orders : rows'[p] = P2P!FreshRow \/ rows'[p] = rows[p]
    BY <1>1 DEF NodeInv, NodeTyped
  <2> QED BY <1>6, <2>1, RowsKept
<1>8. SavingTyped' /\ BookSound(book')
  BY <1>1 DEF NodeInv, SavingTyped
<1>9. MadeBounded'
  BY <1>1, <1>4, <1>6, NothingMade
<1> QED BY <1>3, <1>5, <1>6, <1>7, <1>8, <1>9 DEF NodeInv

LEMMA ReceiveCancelKeeps ==
    ASSUME NodeInv, NEW o \in P2P!Orders, P2P!ReceiveCancel(o)
    PROVE  NodeInv'
<1>1. /\ up /\ cancelled' = cancelled \cup {o}
      /\ book' = P2P!RemoveOrder(book, o)
      /\ rows' = IF rows[o] = NoRow THEN rows
                 ELSE [rows EXCEPT ![o] = [status |-> "cancelled", filled |-> rows[o].filled]]
      /\ UNCHANGED <<up, opens, matches, saving, trading, placing, expired, copies, settling>>
  BY DEF P2P!ReceiveCancel, P2P!UpdateStatus
<1>2. \A p \in P2P!Orders :
         \/ rows'[p] = rows[p]
         \/ rows[p] # NoRow /\ rows'[p] = [status |-> "cancelled", filled |-> rows[p].filled]
  BY <1>1 DEF NodeInv, NodeTyped
<1>3. NodeTyped'
  <2>1. rows[o] # NoRow => [status |-> "cancelled", filled |-> rows[o].filled] \in P2P!Row
    BY RowTyped DEF P2P!Row
  <2>2. rows' \in [P2P!Orders -> P2P!Row \cup {NoRow}]
    BY <1>1, <2>1 DEF NodeInv, NodeTyped
  <2> QED BY <1>1, <2>2 DEF NodeInv, NodeTyped
<1>4. copies' = copies /\ copies' \in [P2P!Orders -> Nat]
      /\ \A p \in P2P!Orders : copies[p] <= copies'[p]
  BY <1>1 DEF NodeInv, NodeTyped
<1>5. NodeDown'
  <2>1. opens # 0
    BY <1>1 DEF NodeInv, NodeDown
  <2> QED BY <1>1, <2>1 DEF NodeInv, NodeDown
<1>6. /\ KnownTrades' = KnownTrades /\ TradingTyped' /\ TradesOnce'
      /\ \A p : WrittenFor(p)' = WrittenFor(p)
      /\ \A j \in trading' : j.at = "write" => j \in trading
  BY <1>1, <1>4, TradesStay
<1>7. RowsWritten'
  <2>1. \A p \in P2P!Orders :
           \/ rows'[p] = rows[p]
           \/ rows[p] # NoRow /\ \E status \in {"pending", "cancelled"} :
                 rows'[p] = [status |-> status, filled |-> rows[p].filled]
    BY <1>2
  <2> QED BY <1>6, <2>1, RowsKept
<1>8. BookSound(book') /\ LotsIn(book') \subseteq LotsIn(book)
  BY <1>1, BookWithoutOrder DEF NodeInv
<1>9. SavingTyped'
  BY <1>1 DEF NodeInv, SavingTyped
<1>10. MadeBounded'
  BY <1>1, <1>4, <1>6, <1>8, NothingMade
<1> QED BY <1>3, <1>5, <1>6, <1>7, <1>8, <1>9, <1>10 DEF NodeInv

(* order/new: one more message, of which one more handler is under way.      *)
LEMMA ReceiveOrderKeeps ==
    ASSUME NodeInv, NEW o \in P2P!Orders, P2P!ReceiveOrder(o)
    PROVE  NodeInv'
<1> DEFINE h == [id |-> o, run |-> copies[o] + 1]
<1>1. /\ up /\ copies[o] < MaxCopies[o]
      /\ copies' = [copies EXCEPT ![o] = copies[o] + 1]
      /\ rows' = [rows EXCEPT ![o] = P2P!FreshRow]
      /\ saving' = saving \cup {h}
      /\ UNCHANGED <<up, opens, book, matches, trading, placing, expired, cancelled, settling>>
  BY DEF P2P!ReceiveOrder
<1>2. /\ copies \in [P2P!Orders -> Nat] /\ \A p \in P2P!Orders : copies[p] <= MaxCopies[p]
      /\ opens \in Nat /\ rows \in [P2P!Orders -> P2P!Row \cup {NoRow}]
  BY OrderAssumed DEF NodeInv, NodeTyped
<1>3. /\ copies' \in [P2P!Orders -> Nat] /\ copies'[o] = copies[o] + 1
      /\ \A p \in P2P!Orders : copies[p] <= copies'[p]
      /\ \A p \in P2P!Orders : p # o => copies'[p] = copies[p]
  BY <1>1, <1>2
<1>4. \A p \in P2P!Orders : copies'[p] <= MaxCopies[p]
  <2>1. MaxCopies[o] \in Nat
    BY OrderAssumed
  <2> QED BY <1>1, <1>2, <1>3, <2>1
<1>5. NodeTyped'
  <2>1. P2P!FreshRow \in P2P!Row
    BY DEF P2P!FreshRow, P2P!Row
  <2>2. rows' \in [P2P!Orders -> P2P!Row \cup {NoRow}]
    BY <1>1, <1>2, <2>1
  <2> QED BY <1>1, <1>3, <1>4, <2>2 DEF NodeInv, NodeTyped
<1>6. NodeDown'
  <2>1. opens # 0
    BY <1>1 DEF NodeInv, NodeDown
  <2> QED BY <1>1, <2>1 DEF NodeInv, NodeDown
<1>7. /\ KnownTrades' = KnownTrades /\ TradingTyped' /\ TradesOnce'
      /\ \A p : WrittenFor(p)' = WrittenFor(p)
      /\ \A j \in trading' : j.at = "write" => j \in trading
  <2>1. \A g \in saving' : g \in saving \/ \E p \in P2P!Orders :
           g.id = p /\ g.run = copies[p] + 1
    BY <1>1
  <2> QED BY <1>1, <1>3, <2>1, TradesStay
<1>8. RowsWritten'
  <2>1. \A p \in P2P!Orders : rows'[p] = P2P!FreshRow \/ rows'[p] = rows[p]
    BY <1>1, <1>2
  <2> QED BY <1>7, <2>1, RowsKept
<1>9. /\ saving \subseteq [id : P2P!Orders, run : Nat \ {0}] /\ IsFiniteSet(saving)
      /\ \A g \in saving : g.run <= copies[g.id]
  BY DEF NodeInv, SavingTyped
<1>10. h \in [id : P2P!Orders, run : Nat \ {0}] /\ h.id = o /\ h.run = copies[o] + 1
  BY <1>2
<1>11. h \notin saving
  <2>1. ASSUME h \in saving PROVE FALSE
    <3>1. copies[o] + 1 <= copies[o]
      BY <1>9, <1>10, <2>1
    <3> QED BY <1>2, <3>1
  <2> QED BY <2>1
<1> HIDE DEF h
<1>12. SavingTyped'
  <2>1. saving' \subseteq [id : P2P!Orders, run : Nat \ {0}] /\ IsFiniteSet(saving')
    BY <1>1, <1>9, <1>10, FS_AddElement
  <2>2. ASSUME NEW g \in saving' PROVE g.run <= copies'[g.id]
    <3>1. g.id \in P2P!Orders /\ g.run \in Nat
      BY <2>1
    <3>2. CASE g = h
      BY <1>2, <1>3, <1>10, <3>2
    <3>3. CASE g \in saving
      <4>1. g.run <= copies[g.id] /\ copies[g.id] <= copies'[g.id]
            /\ copies[g.id] \in Nat /\ copies'[g.id] \in Nat
        BY <1>2, <1>3, <1>9, <3>1, <3>3
      <4> QED BY <3>1, <4>1
    <3> QED BY <1>1, <3>2, <3>3
  <2> QED BY <2>1, <2>2 DEF SavingTyped
<1>13. BookSound(book')
  BY <1>1 DEF NodeInv
<1>14. ASSUME NEW p \in P2P!Orders
       PROVE  \E x \in Nat : /\ Load(p)' = Load(p) + x /\ Entered(p)' = Entered(p) + x
                             /\ Load(p) \in Nat /\ Entered(p) \in Int
  <2>1. MadeOf(p)' = MadeOf(p)
    BY <1>7 DEF MadeOf
  <2>2. /\ Amounts(MadeOf(p)) \in Nat /\ IsFiniteSet(RunsOf(p))
        /\ Cardinality(RunsOf(p)) \in Nat /\ Load(p) \in Nat
    BY LoadTyped
  <2>3. Order[p].amount \in Nat /\ copies[p] \in Nat
    BY <1>2, OrderAssumed
  <2> DEFINE n == Cardinality(RunsOf(p))
             c == copies[p] + opens - 1
  <2>4. /\ Load(p) = Amounts(MadeOf(p)) + Order[p].amount * n
        /\ Entered(p) = Order[p].amount * c
    BY DEF Load, Entered
  <2>5. c \in Int
    BY <1>2, <2>3
  <2>6. CASE p = o
    <3>1. RunsOf(p)' = RunsOf(p) \cup {h} /\ h \notin RunsOf(p)
      BY <1>1, <1>10, <1>11, <2>6 DEF RunsOf
    <3>2. Cardinality(RunsOf(p)') = n + 1
      BY <2>2, <3>1, FS_AddElement
    <3>3. copies'[p] + opens' - 1 = c + 1
      BY <1>1, <1>2, <1>3, <2>3, <2>6
    <3>4. Load(p)' = Amounts(MadeOf(p)) + Order[p].amount * (n + 1)
      BY <2>1, <3>2 DEF Load
    <3>5. Entered(p)' = Order[p].amount * (c + 1)
      BY <3>3 DEF Entered
    <3> HIDE DEF n, c
    <3>6. Order[p].amount \in Nat
      BY <2>3
    <3>9. n \in Int
      BY <2>2 DEF n
    <3>7. /\ Order[p].amount * (n + 1) = Order[p].amount * n + Order[p].amount
          /\ Order[p].amount * n \in Int
      BY <3>6, <3>9, TimesNext
    <3>8. /\ Order[p].amount * (c + 1) = Order[p].amount * c + Order[p].amount
          /\ Order[p].amount * c \in Int
      BY <2>3, <2>5, TimesNext
    <3> QED BY <2>2, <2>3, <2>4, <3>4, <3>5, <3>7, <3>8
  <2>7. CASE p # o
    <3>1. RunsOf(p)' = RunsOf(p)
      BY <1>1, <1>10, <2>7 DEF RunsOf
    <3>2. copies'[p] = copies[p] /\ opens' = opens
      BY <1>1, <1>3, <2>7
    <3>3. Load(p)' = Load(p) /\ Entered(p)' = Entered(p)
      BY <2>1, <3>1, <3>2 DEF Load, Entered
    <3>4. Entered(p) \in Int
      BY <2>3, <2>4, <2>5
    <3> QED BY <2>2, <3>3, <3>4
  <2> QED BY <2>6, <2>7
<1>15. MadeBounded'
  <2> SUFFICES ASSUME opens > 0
               PROVE  /\ \A p \in P2P!Orders : Load(p)' <= Entered(p)'
                      /\ \A l \in LotsIn(book') : Load(l.id)' + l.amount <= Entered(l.id)'
    BY <1>1 DEF MadeBounded
  <2>1. /\ \A p \in P2P!Orders : Load(p) <= Entered(p)
        /\ \A l \in LotsIn(book) : Load(l.id) + l.amount <= Entered(l.id)
    BY DEF NodeInv, MadeBounded
  <2>2. ASSUME NEW p \in P2P!Orders PROVE Load(p)' <= Entered(p)'
    <3>1. PICK x \in Nat : /\ Load(p)' = Load(p) + x /\ Entered(p)' = Entered(p) + x
                           /\ Load(p) \in Nat /\ Entered(p) \in Int
      BY <1>14
    <3> QED BY <2>1, <3>1
  <2>3. ASSUME NEW l \in LotsIn(book') PROVE Load(l.id)' + l.amount <= Entered(l.id)'
    <3>1. l \in LotsIn(book) /\ BookSound(book)
      BY <1>1 DEF NodeInv
    <3>2. l.id \in P2P!Orders /\ l.amount \in Nat
      BY <3>1, LotOfOrder
    <3>3. PICK p \in P2P!Orders : p = l.id
      BY <3>2
    <3>4. PICK x \in Nat : /\ Load(p)' = Load(p) + x /\ Entered(p)' = Entered(p) + x
                           /\ Load(p) \in Nat /\ Entered(p) \in Int
      BY <1>14
    <3>5. Load(p) + l.amount <= Entered(p)
      BY <2>1, <3>1, <3>3
    <3>6. Load(p)' + l.amount <= Entered(p)'
      BY <3>2, <3>4, <3>5
    <3> QED BY Zenon, <3>3, <3>6
  <2> QED BY <2>2, <2>3
<1> QED BY <1>5, <1>6, <1>7, <1>8, <1>12, <1>13, <1>15 DEF NodeInv


(* The trades of one match: one for each lot that gives something.           *)
LEMMA TradesOfMatch ==
    ASSUME NEW name, NEW s, SideSound(name, s), NEW o \in P2P!Orders, NEW run \in Nat \ {0}
    PROVE  /\ IsFiniteSet(P2P!TradesOn(o, run, s))
           /\ P2P!TradesOn(o, run, s) \subseteq P2P!Trade
           /\ \A t \in P2P!TradesOn(o, run, s) :
                 t.taker = o /\ t.run = run /\ t.maker \in IdsOf(s)
           /\ \A i \in 1 .. Len(s) :
                 \/ /\ P2P!Fills(o, s)[i] = 0
                    /\ {t \in P2P!TradesOn(o, run, s) : t.maker = s[i].id} = {}
                 \/ \E u \in P2P!Trade :
                       /\ u.amount = P2P!Fills(o, s)[i]
                       /\ {t \in P2P!TradesOn(o, run, s) : t.maker = s[i].id} = {u}
<1> DEFINE n == Len(s)
           fill == P2P!Fills(o, s)
           I == {j \in 1 .. n : fill[j] > 0}
           made(i) == [taker |-> o, run |-> run, nth |-> i, maker |-> s[i].id,
                       amount |-> fill[i]]
           T == P2P!TradesOn(o, run, s)
<1>1. s \in Seq(RestingLot) /\ n \in Nat /\ DOMAIN s = 1 .. n
  BY LenProperties DEF SideSound
<1>2. T = {made(i) : i \in I}
  BY <1>1 DEF P2P!TradesOn
<1>3. ASSUME NEW i \in 1 .. n
      PROVE  /\ s[i].id \in P2P!Orders /\ s[i].id \in IdsOf(s) /\ fill[i] \in Nat
             /\ made(i) \in P2P!Trade
             /\ made(i).taker = o /\ made(i).run = run /\ made(i).maker = s[i].id
             /\ made(i).amount = fill[i]
  <2>1. s[i] \in RestingLot
    BY <1>1, ElementOfSeq
  <2>2. s[i].id \in P2P!Orders /\ s[i].amount \in Nat
    BY <2>1 DEF RestingLot
  <2>3. fill[i] \in 0 .. s[i].amount
    BY <1>1, FillIsBounded
  <2>4. s[i].id \in IdsOf(s)
    BY DEF IdsOf
  <2> HIDE DEF fill
  <2>5. fill[i] \in Nat /\ i \in Nat
    BY <1>1, <2>2, <2>3
  <2>6. made(i) \in P2P!Trade
    BY <2>2, <2>5 DEF P2P!Trade
  <2> QED BY <2>2, <2>4, <2>5, <2>6
<1>4. \A i, j \in 1 .. n : s[i].id = s[j].id => i = j
  BY <1>1 DEF SideSound
<1> HIDE DEF made, fill, T
<1>5. IsFiniteSet(T)
  <2>1. IsFiniteSet(1 .. n)
    BY <1>1, FS_Interval
  <2>2. IsFiniteSet(I)
    BY <2>1, FS_Subset
  <2> DEFINE g == [i \in I |-> made(i)]
  <2>3. g \in Surjection(I, T)
    BY <1>2 DEF Surjection
  <2> HIDE DEF I, g
  <2> QED BY <2>2, <2>3, FS_Surjection
<1>6. T \subseteq P2P!Trade
  BY <1>2, <1>3
<1>7. \A t \in T : t.taker = o /\ t.run = run /\ t.maker \in IdsOf(s)
  BY <1>2, <1>3
<1>8. ASSUME NEW i \in 1 .. n
      PROVE  \/ fill[i] = 0 /\ {t \in T : t.maker = s[i].id} = {}
             \/ \E u \in P2P!Trade :
                   u.amount = fill[i] /\ {t \in T : t.maker = s[i].id} = {u}
  <2>1. \A j \in I : made(j).maker = s[i].id => j = i
    BY <1>3, <1>4
  <2>2. CASE i \in I
    <3>1. {t \in T : t.maker = s[i].id} = {made(i)}
      BY <1>2, <1>3, <2>1, <2>2
    <3> QED BY <1>3, <3>1
  <2>3. CASE i \notin I
    <3>1. {t \in T : t.maker = s[i].id} = {}
      BY <1>2, <2>1, <2>3
    <3>2. fill[i] = 0
      BY <1>3, <2>3
    <3> QED BY <3>1, <3>2
  <2> QED BY <2>2, <2>3
<1> QED BY <1>5, <1>6, <1>7, <1>8 DEF T, fill


(* The handler goes on once its row is saved: what it enters is its order's  *)
(* whole amount, what it takes of a lot the lot gives.                       *)
LEMMA AddAndMatchKeeps ==
    ASSUME NodeInv, NEW h \in saving, P2P!AddAndMatch(h)
    PROVE  NodeInv'
<1> DEFINE o == h.id
           b == P2P!AddOrder(book, o)
           s == P2P!Against(b, o)
           m == P2P!Matched(b, o)
           T == P2P!TradesOn(o, h.run, s)
           fill == P2P!Fills(o, s)
           new == {P2P!Handling(t, "publish", Gone) : t \in T}
<1>1. /\ book' = m /\ trading' = trading \cup new /\ saving' = saving \ {h}
      /\ UNCHANGED <<up, opens, rows, matches, placing, expired, copies, cancelled, settling>>
  BY DEF P2P!AddAndMatch
<1>2. /\ o \in P2P!Orders /\ h.run \in Nat \ {0} /\ h.run <= copies[o]
      /\ \A g \in saving : g.id = o /\ g.run = h.run => g = h
  BY DEF NodeInv, SavingTyped
<1>3. /\ BookSound(b) /\ LotsIn(b) \subseteq LotsIn(book) \cup {WholeLot(o)}
  BY <1>2, BookWithOrder DEF NodeInv
<1>4. \E name : SideSound(name, s)
  BY <1>3 DEF BookSound, P2P!Against
<1> HIDE DEF b
<1>5. /\ BookSound(m)
      /\ \A l \in LotsIn(m) :
            \/ l \in LotsIn(b) /\ l.id \notin IdsOf(s)
            \/ \E i \in 1 .. Len(s) : l = [id |-> s[i].id, amount |-> s[i].amount - fill[i]]
  BY <1>2, <1>3, BookMatched
<1>6. /\ IsFiniteSet(T) /\ T \subseteq P2P!Trade
      /\ \A t \in T : t.taker = o /\ t.run = h.run /\ t.maker \in IdsOf(s)
      /\ \A i \in 1 .. Len(s) :
            \/ fill[i] = 0 /\ {t \in T : t.maker = s[i].id} = {}
            \/ \E u \in P2P!Trade :
                  u.amount = fill[i] /\ {t \in T : t.maker = s[i].id} = {u}
  <2>1. PICK name : SideSound(name, s)
    BY <1>4
  <2> HIDE DEF s, o
  <2> QED BY <1>2, <2>1, TradesOfMatch
<1>7. s \in Seq(RestingLot) /\ \A i \in 1 .. Len(s) : s[i] \in LotsIn(b)
  BY <1>3 DEF BookSound, SideSound, P2P!Against, LotsIn, LotsOf
<1> HIDE DEF T, fill, s, m
<1>8. \A t \in T : t \notin KnownTrades
  BY <1>6 DEF NodeInv, TradesOnce
<1>9. /\ \A j \in new : \E t \in T : /\ j = P2P!Handling(t, "publish", Gone) /\ j.trade = t
                                     /\ j.at = "publish" /\ j.read = Gone
      /\ {j.trade : j \in new} = T
  <2>1. \A t \in T : /\ P2P!Handling(t, "publish", Gone).trade = t
                     /\ P2P!Handling(t, "publish", Gone).at = "publish"
                     /\ P2P!Handling(t, "publish", Gone).read = Gone
    BY DEF P2P!Handling
  <2> QED BY <2>1
<1> HIDE DEF new
<1>10. KnownTrades' = KnownTrades \cup T
  BY <1>1, <1>9 DEF KnownTrades
<1>11. up /\ opens \in Nat /\ opens > 0 /\ up' = up /\ opens' = opens
  BY <1>1, OrderAssumed DEF NodeInv, NodeTyped, NodeDown
<1>12. NodeTyped' /\ NodeDown'
  BY <1>1, <1>11 DEF NodeInv, NodeTyped, NodeDown
<1>13. SavingTyped'
  BY <1>1, FS_RemoveElement DEF NodeInv, SavingTyped
<1>14. TradingTyped'
  <2>1. \A j \in trading : /\ j = P2P!Handling(j.trade, j.at, j.read)
                           /\ j.at \in {"publish", "read", "write", "done"}
                           /\ j.at = "write" => j.read \in Nat
    BY DEF NodeInv, TradingTyped
  <2>2. \A j \in new : /\ j = P2P!Handling(j.trade, j.at, j.read) /\ j.at = "publish"
    BY Zenon, <1>9
  <2> QED BY <1>1, <2>1, <2>2 DEF TradingTyped
<1>15. TradesOnce'
  <2>1. /\ KnownTrades \subseteq P2P!Trade /\ IsFiniteSet(KnownTrades) /\ settling \subseteq matches
        /\ \A t \in KnownTrades : t.run <= copies[t.taker]
        /\ \A t \in KnownTrades : \A g \in saving : ~(t.taker = g.id /\ t.run = g.run)
        /\ \A j, k \in trading : j.trade = k.trade => j = k
        /\ \A j \in trading : j.at = "publish" <=> j.trade \notin matches
    BY DEF NodeInv, TradesOnce
  <2>2. KnownTrades' \subseteq P2P!Trade /\ IsFiniteSet(KnownTrades')
    BY <1>6, <1>10, <2>1, FS_Union
  <2>3. \A t \in KnownTrades' : t.run <= copies'[t.taker]
    BY <1>1, <1>2, <1>6, <1>10, <2>1
  <2>4. \A t \in KnownTrades' : \A g \in saving' : ~(t.taker = g.id /\ t.run = g.run)
    BY <1>1, <1>2, <1>6, <1>10, <2>1
  <2>5. \A j \in trading : j.trade \in KnownTrades
    BY DEF KnownTrades
  <2>6. ASSUME NEW j \in trading', NEW k \in trading', j.trade = k.trade PROVE j = k
    <3>1. (j \in trading \/ j \in new) /\ (k \in trading \/ k \in new)
      BY <1>1
    <3>2. CASE j \in trading /\ k \in trading
      BY <2>1, <2>6, <3>2
    <3>3. CASE j \in new /\ k \in new
      BY <1>9, <2>6, <3>3
    <3>4. ~(j \in trading /\ k \in new) /\ ~(j \in new /\ k \in trading)
      BY <1>8, <1>9, <2>5, <2>6
    <3> QED BY <3>1, <3>2, <3>3, <3>4
  <2>7. \A j \in trading' : j.at = "publish" <=> j.trade \notin matches'
    BY <1>1, <1>8, <1>9, <2>1 DEF KnownTrades
  <2> QED BY <1>1, <2>1, <2>2, <2>3, <2>4, <2>6, <2>7 DEF TradesOnce
<1>16. \A p : WrittenFor(p)' = WrittenFor(p)
  <2>1. Unwritten' = Unwritten
    BY <1>1, <1>9 DEF Unwritten
  <2> QED BY <1>1, <2>1 DEF WrittenFor
<1>17. RowsWritten'
  <2>1. \A j \in trading' : j.at = "write" => j \in trading
    BY <1>1, <1>9
  <2> QED BY <1>1, <1>15, <1>16, <2>1, RowsKept
<1> DEFINE left(p) == Amounts(MadeOf(p)) + Order[p].amount * Cardinality(RunsOf(p)')
<1>18. ASSUME NEW p \in P2P!Orders
       PROVE  /\ left(p) \in Nat /\ left(p) <= Load(p) /\ Load(p) \in Nat
              /\ p = o => left(p) + Order[p].amount = Load(p)
              /\ Entered(p)' = Entered(p) /\ Entered(p) \in Nat /\ Load(p) <= Entered(p)
  <2>1. /\ Amounts(MadeOf(p)) \in Nat /\ IsFiniteSet(RunsOf(p))
        /\ Cardinality(RunsOf(p)) \in Nat /\ Load(p) \in Nat
    BY LoadTyped
  <2>2. Order[p].amount \in Nat
    BY OrderAssumed
  <2> DEFINE n == Cardinality(RunsOf(p))
             k == Cardinality(RunsOf(p)')
  <2>3. Load(p) = Amounts(MadeOf(p)) + Order[p].amount * n
    BY DEF Load
  <2>4. Entered(p)' = Entered(p) /\ Entered(p) \in Nat
    <3> DEFINE c == copies[p] + opens - 1
    <3>1. c \in Nat
      BY <1>11 DEF NodeInv, NodeTyped
    <3>2. Entered(p) = Order[p].amount * c /\ Entered(p)' = Order[p].amount * c
      BY <1>1 DEF Entered
    <3> HIDE DEF c
    <3> QED BY <2>2, <3>1, <3>2, TimesGrows
  <2>5. Load(p) <= Entered(p)
    BY <1>11 DEF NodeInv, MadeBounded
  <2>6. CASE p = o
    <3>1. RunsOf(p)' = RunsOf(p) \ {h} /\ h \in RunsOf(p)
      BY <1>1, <2>6 DEF RunsOf
    <3>2. k \in Nat /\ k = n - 1
      BY <2>1, <3>1, FS_RemoveElement, FS_CardinalityType
    <3> HIDE DEF n, k
    <3>3. n = k + 1
      BY <2>1, <3>2 DEF n
    <3>4. k \in Int
      BY <3>2
    <3>5. Order[p].amount * (k + 1) = Order[p].amount * k + Order[p].amount
      BY <2>2, <3>4, TimesNext
    <3>6. Order[p].amount * k \in Nat
      BY <2>2, <3>2, TimesGrows
    <3>7. left(p) = Amounts(MadeOf(p)) + Order[p].amount * k
      BY DEF k
    <3> HIDE DEF left
    <3> QED BY <2>1, <2>2, <2>3, <2>4, <2>5, <3>3, <3>5, <3>6, <3>7
  <2>7. CASE p # o
    <3>1. RunsOf(p)' = RunsOf(p)
      BY <1>1, <2>7 DEF RunsOf
    <3>2. left(p) = Load(p)
      BY <3>1 DEF Load
    <3> HIDE DEF left
    <3> QED BY <2>1, <2>4, <2>5, <2>7, <3>2
  <2> QED BY <2>6, <2>7
<1> HIDE DEF left
<1>19. ASSUME NEW l \in LotsIn(b)
       PROVE  /\ l.id \in P2P!Orders /\ l.amount \in Nat
              /\ left(l.id) + l.amount <= Entered(l.id)
  <2>1. l.id \in P2P!Orders /\ l.amount \in Nat
    BY <1>3, LotOfOrder
  <2>2. PICK p \in P2P!Orders : p = l.id
    BY <2>1
  <2>3. CASE l \in LotsIn(book)
    <3>1. Load(p) + l.amount <= Entered(p)
      BY <1>11, <2>2, <2>3 DEF NodeInv, MadeBounded
    <3> QED BY <1>18, <2>1, <2>2, <3>1
  <2>4. CASE l = WholeLot(o)
    <3>1. p = o /\ l.amount = Order[p].amount
      BY <2>2, <2>4 DEF WholeLot
    <3> QED BY <1>18, <2>1, <2>2, <3>1
  <2> QED BY <1>3, <2>1, <2>3, <2>4
<1>20. ASSUME NEW p \in P2P!Orders
       PROVE  /\ Load(p)' = Amounts(MadeOf(p)') + Order[p].amount * Cardinality(RunsOf(p)')
              /\ MadeOf(p)' = MadeOf(p) \cup {t \in T : t.maker = p}
              /\ MadeOf(p) \subseteq P2P!Trade /\ IsFiniteSet(MadeOf(p))
              /\ Amounts(MadeOf(p)) \in Nat
  <2>1. Load(p)' = Amounts(MadeOf(p)') + Order[p].amount * Cardinality(RunsOf(p)')
    BY DEF Load
  <2>2. MadeOf(p)' = MadeOf(p) \cup {t \in T : t.maker = p}
    BY <1>10 DEF MadeOf
  <2> QED BY <2>1, <2>2, LoadTyped
<1>21. ASSUME NEW p \in P2P!Orders, p \notin IdsOf(s)
       PROVE  Load(p)' = left(p)
  <2>1. {t \in T : t.maker = p} = {}
    BY <1>6, <1>21
  <2>2. MadeOf(p)' = MadeOf(p) \cup {t \in T : t.maker = p}
    BY <1>20
  <2>3. MadeOf(p)' = MadeOf(p)
    BY <2>1, <2>2
  <2> QED BY <1>20, <2>3 DEF left
<1>22. ASSUME NEW i \in 1 .. Len(s), NEW p \in P2P!Orders, p = s[i].id
       PROVE  Load(p)' = left(p) + fill[i] /\ fill[i] \in 0 .. s[i].amount
  <2>1. fill[i] \in 0 .. s[i].amount
    BY <1>2, <1>7, FillIsBounded DEF fill
  <2>2. s[i].amount \in Nat /\ fill[i] \in Nat
    <3>1. s[i].amount \in Nat
      BY <1>7, <1>19
    <3> QED BY <2>1, <3>1
  <2>3. left(p) = Amounts(MadeOf(p)) + Order[p].amount * Cardinality(RunsOf(p)')
        /\ left(p) \in Nat
    BY <1>18 DEF left
  <2>4. Order[p].amount * Cardinality(RunsOf(p)') \in Int
    <3>1. IsFiniteSet(RunsOf(p)) /\ RunsOf(p)' \subseteq RunsOf(p)
      BY <1>1, LoadTyped DEF RunsOf
    <3>2. Cardinality(RunsOf(p)') \in Nat
      BY <3>1, FS_Subset, FS_CardinalityType
    <3>3. Order[p].amount * Cardinality(RunsOf(p)') \in Nat
      BY <3>2, OrderAssumed, TimesGrows
    <3> QED BY <3>3
  <2>5. CASE fill[i] = 0 /\ {t \in T : t.maker = s[i].id} = {}
    <3>1. MadeOf(p)' = MadeOf(p)
      BY <1>20, <1>22, <2>5
    <3>2. Load(p)' = left(p)
      BY <1>20, <3>1, <2>3
    <3> QED BY <2>1, <2>3, <2>5, <3>2
  <2>6. CASE \E u \in P2P!Trade :
                u.amount = fill[i] /\ {t \in T : t.maker = s[i].id} = {u}
    <3>1. PICK u \in P2P!Trade : u.amount = fill[i] /\ {t \in T : t.maker = s[i].id} = {u}
      BY <2>6
    <3>2. u \notin MadeOf(p)
      BY <1>8, <3>1 DEF MadeOf
    <3>3. MadeOf(p)' = MadeOf(p) \cup {u}
      BY <1>20, <1>22, <3>1
    <3>4. IsFiniteSet(MadeOf(p)) /\ MadeOf(p) \subseteq P2P!Trade /\ Amounts(MadeOf(p)) \in Nat
      BY <1>20
    <3>5. Amounts(MadeOf(p) \cup {u}) = Amounts(MadeOf(p)) + u.amount
      BY <3>1, <3>2, <3>4, AmountsAdd
    <3>6. Load(p)' = Amounts(MadeOf(p)) + fill[i] + Order[p].amount * Cardinality(RunsOf(p)')
      BY <1>20, <3>1, <3>3, <3>5
    <3> QED BY <2>1, <2>2, <2>3, <2>4, <3>4, <3>6
  <2> QED BY <1>6, <2>5, <2>6
<1>23. ASSUME NEW p \in P2P!Orders PROVE Load(p)' <= Entered(p)'
  <2>1. CASE p \notin IdsOf(s)
    BY <1>18, <1>21, <2>1
  <2>2. CASE p \in IdsOf(s)
    <3>1. PICK i \in 1 .. Len(s) : p = s[i].id
      BY <2>2 DEF IdsOf
    <3>2. Load(p)' = left(p) + fill[i] /\ fill[i] \in 0 .. s[i].amount
      BY <1>22, <3>1
    <3>3. left(p) + s[i].amount <= Entered(p) /\ s[i].amount \in Nat
      BY <1>7, <1>19, <3>1
    <3> QED BY <1>18, <3>2, <3>3
  <2> QED BY <2>1, <2>2
<1>24. ASSUME NEW l \in LotsIn(m) PROVE Load(l.id)' + l.amount <= Entered(l.id)'
  <2>1. l.id \in P2P!Orders /\ l.amount \in Nat
    BY <1>5, LotOfOrder
  <2>2. PICK p \in P2P!Orders : p = l.id
    BY <2>1
  <2>3. CASE l \in LotsIn(b) /\ l.id \notin IdsOf(s)
    <3>1. Load(p)' = left(p)
      BY <1>21, <2>2, <2>3
    <3>2. left(p) + l.amount <= Entered(p)
      BY <1>19, <2>2, <2>3
    <3>3. Load(p)' + l.amount <= Entered(p)'
      BY <1>18, <3>1, <3>2
    <3> QED BY Zenon, <2>2, <3>3
  <2>4. CASE \E i \in 1 .. Len(s) : l = [id |-> s[i].id, amount |-> s[i].amount - fill[i]]
    <3>1. PICK i \in 1 .. Len(s) : l = [id |-> s[i].id, amount |-> s[i].amount - fill[i]]
      BY <2>4
    <3>2. p = s[i].id /\ l.amount = s[i].amount - fill[i]
      BY <2>2, <3>1
    <3>3. Load(p)' = left(p) + fill[i] /\ fill[i] \in 0 .. s[i].amount
      BY <1>22, <3>2
    <3>4. left(p) + s[i].amount <= Entered(p) /\ s[i].amount \in Nat
      BY <1>7, <1>19, <3>2
    <3>5. Load(p)' + l.amount <= Entered(p)'
      BY <1>18, <3>2, <3>3, <3>4
    <3> QED BY Zenon, <2>2, <3>5
  <2> QED BY <1>5, <2>3, <2>4
<1>25. MadeBounded'
  BY <1>1, <1>23, <1>24 DEF MadeBounded
<1> QED BY <1>1, <1>5, <1>12, <1>13, <1>14, <1>15, <1>17, <1>25 DEF NodeInv


(* One trade's handler goes on, or ends, once its trade is saved.            *)
LEMMA HandlerGoesOn ==
    ASSUME NodeInv, NEW j \in trading, NEW N, trading' = (trading \ {j}) \cup N,
           \/ N = {}
           \/ /\ j.trade \in matches'
              /\ \E at \in {"read", "write", "done"} : \E read :
                    /\ at = "write" => read \in Nat
                    /\ N = {P2P!Handling(j.trade, at, read)},
           matches \subseteq matches', matches' \subseteq matches \cup {j.trade},
           settling' \subseteq matches', rows' \in [P2P!Orders -> P2P!Row \cup {NoRow}],
           UNCHANGED <<up, opens, book, saving, placing, expired, copies, cancelled>>
    PROVE  /\ NodeTyped' /\ NodeDown' /\ SavingTyped' /\ TradingTyped' /\ TradesOnce'
           /\ BookSound(book') /\ MadeBounded'
<1>1. \A k \in N : /\ k = P2P!Handling(k.trade, k.at, k.read) /\ k.trade = j.trade
                   /\ k.at \in {"read", "write", "done"} /\ k.trade \in matches'
                   /\ k.at = "write" => k.read \in Nat
  BY DEF P2P!Handling
<1>2. \A k, l \in N : k = l
  OBVIOUS
<1>3. KnownTrades' \subseteq KnownTrades
  BY <1>1 DEF KnownTrades
<1>4. up /\ opens # 0
  BY DEF NodeInv, NodeDown
<1>5. NodeTyped' /\ NodeDown'
  BY <1>4 DEF NodeInv, NodeTyped, NodeDown
<1>6. SavingTyped' /\ BookSound(book')
  BY DEF NodeInv, SavingTyped
<1>7. TradingTyped'
  <2>1. ASSUME NEW k \in trading'
        PROVE  /\ k = P2P!Handling(k.trade, k.at, k.read)
               /\ k.at \in {"publish", "read", "write", "done"}
               /\ k.at = "write" => k.read \in Nat
    <3>1. CASE k \in trading
      BY <3>1 DEF NodeInv, TradingTyped
    <3>2. CASE k \in N
      <4>1. k = P2P!Handling(k.trade, k.at, k.read) /\ k.at \in {"read", "write", "done"}
            /\ (k.at = "write" => k.read \in Nat)
        BY Zenon, <1>1, <3>2
      <4> QED BY <4>1
    <3> QED BY <3>1, <3>2
  <2> QED BY <2>1 DEF TradingTyped
<1>8. /\ KnownTrades \subseteq P2P!Trade /\ IsFiniteSet(KnownTrades)
      /\ \A t \in KnownTrades : t.run <= copies[t.taker]
      /\ \A t \in KnownTrades : \A h \in saving : ~(t.taker = h.id /\ t.run = h.run)
      /\ \A k, l \in trading : k.trade = l.trade => k = l
      /\ \A k \in trading : k.at = "publish" <=> k.trade \notin matches
  BY DEF NodeInv, TradesOnce
<1>9. \A k, l \in trading' : k.trade = l.trade => k = l
  <2>1. \A k \in trading \ {j} : k.trade # j.trade
    BY <1>8
  <2> QED BY <1>1, <1>2, <1>8, <2>1
<1>10. \A k \in trading' : k.at = "publish" <=> k.trade \notin matches'
  <2>1. \A k \in trading \ {j} : k.trade # j.trade
    BY <1>8
  <2>2. \A k \in N : k.at # "publish" /\ k.trade \in matches'
    BY <1>1
  <2> QED BY <1>8, <2>1, <2>2
<1>11. TradesOnce'
  <2>1. KnownTrades' \subseteq P2P!Trade /\ IsFiniteSet(KnownTrades')
    BY <1>3, <1>8, FS_Subset
  <2> QED BY <1>3, <1>8, <1>9, <1>10, <2>1 DEF TradesOnce
<1>12. MadeBounded'
  <2>1. copies' \in [P2P!Orders -> Nat] /\ \A o \in P2P!Orders : copies[o] <= copies'[o]
    BY DEF NodeInv, NodeTyped
  <2> QED BY <1>3, <2>1, NothingMade
<1> QED BY <1>5, <1>6, <1>7, <1>11, <1>12

LEMMA PublishTradeKeeps ==
    ASSUME NodeInv, NEW j \in trading, P2P!PublishTrade(j)
    PROVE  NodeInv'
<1> DEFINE t == j.trade
<1>1. /\ j.at = "publish"
      /\ UNCHANGED <<up, opens, book, rows, saving, placing, expired, copies, cancelled, settling>>
  BY DEF P2P!PublishTrade
<1>2. /\ rows' \in [P2P!Orders -> P2P!Row \cup {NoRow}] /\ settling \subseteq matches
      /\ t \notin matches
  BY <1>1 DEF NodeInv, NodeTyped, TradesOnce
<1>3. CASE /\ matches' = matches \cup {t}
           /\ trading' = (trading \ {j}) \cup {P2P!Handling(t, "read", Gone)}
  <2> DEFINE k == P2P!Handling(t, "read", Gone)
             N == {k}
  <2>1. k.trade = t /\ k.at = "read"
    BY DEF P2P!Handling
  <2>2. /\ t \in matches'
        /\ \E at \in {"read", "write", "done"} : \E read :
              (at = "write" => read \in Nat) /\ N = {P2P!Handling(t, at, read)}
    BY <1>3
  <2> HIDE DEF k
  <2>3. /\ NodeTyped' /\ NodeDown' /\ SavingTyped' /\ TradingTyped' /\ TradesOnce'
        /\ BookSound(book') /\ MadeBounded'
    <3>1. trading' = (trading \ {j}) \cup N
      BY <1>3 DEF k
    <3>2. /\ matches \subseteq matches' /\ matches' \subseteq matches \cup {t}
          /\ settling' \subseteq matches'
      BY <1>1, <1>2, <1>3
    <3> HIDE DEF N
    <3> QED BY <1>1, <1>2, <2>2, <3>1, <3>2, HandlerGoesOn
  <2>4. Unwritten' \subseteq Unwritten \cup {t}
    BY <1>3, <2>1 DEF Unwritten, k
  <2>5. \A o \in P2P!Orders : WrittenFor(o) \subseteq WrittenFor(o)'
    BY <1>2, <1>3, <2>4 DEF WrittenFor
  <2>6. \A i \in trading' : i.at = "write" => i \in trading
    BY <1>3, <2>1 DEF k
  <2>7. RowsWritten'
    BY <1>1, <2>3, <2>5, <2>6, RowsKept
  <2> QED BY <2>3, <2>7 DEF NodeInv
<1>4. CASE trading' = trading \ {j} /\ matches' = matches
  <2>1. /\ NodeTyped' /\ NodeDown' /\ SavingTyped' /\ TradingTyped' /\ TradesOnce'
        /\ BookSound(book') /\ MadeBounded'
    <3> DEFINE N == {}
    <3>1. trading' = (trading \ {j}) \cup N /\ N = {}
      BY <1>4
    <3>2. /\ matches \subseteq matches' /\ matches' \subseteq matches \cup {t}
          /\ settling' \subseteq matches'
      BY <1>1, <1>2, <1>4
    <3> HIDE DEF N
    <3> QED BY <1>1, <1>2, <3>1, <3>2, HandlerGoesOn
  <2>2. \A o \in P2P!Orders : WrittenFor(o) \subseteq WrittenFor(o)'
    BY <1>4 DEF WrittenFor, Unwritten
  <2>3. \A i \in trading' : i.at = "write" => i \in trading
    BY <1>4
  <2>4. RowsWritten'
    BY <1>1, <2>1, <2>2, <2>3, RowsKept
  <2> QED BY <2>1, <2>4 DEF NodeInv
<1> QED BY <1>3, <1>4 DEF P2P!PublishTrade

(* Reading the maker's row: what is read is backed as the row is.            *)
LEMMA ReadMakerKeeps ==
    ASSUME NodeInv, NEW j \in trading, P2P!ReadMaker(j)
    PROVE  NodeInv'
<1> DEFINE t == j.trade
           row == rows[t.maker]
           k == IF row = NoRow THEN P2P!Handling(t, "done", Gone)
                ELSE P2P!Handling(t, "write", row.filled)
           N == {k}
<1>1. /\ j.at = "read" /\ trading' = (trading \ {j}) \cup N
      /\ UNCHANGED <<up, opens, book, rows, matches, saving, placing, expired, copies, cancelled,
                     settling>>
  BY DEF P2P!ReadMaker
<1>2. /\ rows' \in [P2P!Orders -> P2P!Row \cup {NoRow}] /\ settling \subseteq matches
      /\ t \in matches
  BY <1>1 DEF NodeInv, NodeTyped, TradesOnce
<1>3. t \in P2P!Trade /\ t.maker \in P2P!Orders
  BY <1>2 DEF NodeInv, TradesOnce, KnownTrades, P2P!Trade
<1>4. row # NoRow => row.filled \in Nat /\ row.filled <= Amounts(WrittenFor(t.maker))
  BY <1>3, RowTyped DEF NodeInv, RowsWritten, RowBacked
<1>5. /\ k.trade = t
      /\ \/ k = P2P!Handling(t, "done", Gone) /\ k.at = "done"
         \/ k = P2P!Handling(t, "write", row.filled) /\ row # NoRow /\ k.at = "write"
            /\ k.read = row.filled
  BY DEF P2P!Handling
<1> HIDE DEF k
<1>6. /\ NodeTyped' /\ NodeDown' /\ SavingTyped' /\ TradingTyped' /\ TradesOnce'
      /\ BookSound(book') /\ MadeBounded'
  <2>1. /\ t \in matches'
        /\ \E at \in {"read", "write", "done"} : \E read :
              (at = "write" => read \in Nat) /\ N = {P2P!Handling(t, at, read)}
    BY <1>1, <1>2, <1>4, <1>5
  <2>2. /\ matches \subseteq matches' /\ matches' \subseteq matches \cup {t}
        /\ settling' \subseteq matches'
    BY <1>1, <1>2
  <2> HIDE DEF N
  <2> QED BY <1>1, <1>2, <2>1, <2>2, HandlerGoesOn
<1>7. Unwritten' \subseteq Unwritten
  BY <1>1, <1>5 DEF Unwritten
<1>8. ASSUME NEW o \in P2P!Orders
      PROVE  /\ Amounts(WrittenFor(o)) \in Nat /\ Amounts(WrittenFor(o)') \in Nat
             /\ Amounts(WrittenFor(o)) <= Amounts(WrittenFor(o)')
  <2>1. WrittenFor(o) \subseteq WrittenFor(o)'
    BY <1>1, <1>7 DEF WrittenFor
  <2> QED BY <1>6, <2>1, WrittenGrows
<1>9. ASSUME NEW o \in P2P!Orders, rows'[o] # NoRow
      PROVE  /\ rows'[o].filled <= Amounts(WrittenFor(o)')
             /\ rows'[o].status = "settled" => Order[o].amount <= Amounts(WrittenFor(o)')
  <2>1. /\ rows[o].filled \in Nat /\ rows[o].filled <= Amounts(WrittenFor(o))
        /\ rows[o].status = "settled" => Order[o].amount <= Amounts(WrittenFor(o))
    BY <1>1, <1>9, RowTyped DEF NodeInv, RowsWritten, RowBacked
  <2>2. Order[o].amount \in Nat /\ rows' = rows
    BY <1>1, OrderAssumed
  <2> QED BY <1>8, <2>1, <2>2
<1>10. ASSUME NEW i \in trading', i.at = "write"
       PROVE  i.read <= Amounts(WrittenFor(i.trade.maker)')
  <2>1. /\ i.read \in Nat /\ i.trade.maker \in P2P!Orders
        /\ i.read <= Amounts(WrittenFor(i.trade.maker))
    <3>1. CASE i \in trading
      <4>1. i.trade \in P2P!Trade
        BY <3>1 DEF NodeInv, TradesOnce, KnownTrades
      <4>2. i.trade.maker \in P2P!Orders
        BY <4>1 DEF P2P!Trade
      <4> QED BY <1>10, <3>1, <4>2 DEF NodeInv, TradingTyped, RowsWritten
    <3>2. CASE i = k
      BY <1>3, <1>4, <1>5, <1>10, <3>2
    <3> QED BY <1>1, <3>1, <3>2
  <2>2. PICK o \in P2P!Orders : o = i.trade.maker
    BY <2>1
  <2>3. i.read <= Amounts(WrittenFor(o)')
    BY <1>8, <2>1, <2>2
  <2> QED BY Zenon, <2>2, <2>3
<1>11. RowsWritten'
  BY <1>9, <1>10 DEF RowsWritten, RowBacked
<1> QED BY <1>6, <1>11 DEF NodeInv


(* Writing it: the trade counts as written from here on.                     *)
LEMMA WriteMakerKeeps ==
    ASSUME NodeInv, NEW j \in trading, P2P!WriteMaker(j)
    PROVE  NodeInv'
<1> DEFINE t == j.trade
           m == j.trade.maker
           k == P2P!Handling(t, "done", Gone)
           N == {k}
<1>1. /\ j.at = "write" /\ trading' = (trading \ {j}) \cup N
      /\ rows' = IF rows[m] = NoRow THEN rows
                 ELSE [rows EXCEPT ![m] = P2P!FilledRow(t, j.read)]
      /\ UNCHANGED <<up, opens, book, matches, saving, placing, expired, copies, cancelled,
                     settling>>
  BY DEF P2P!WriteMaker
<1>2. /\ settling \subseteq matches /\ t \in matches /\ j.read \in Nat
      /\ \A i \in trading : i.trade = t => i = j
  BY <1>1 DEF NodeInv, TradesOnce, TradingTyped
<1>3. t \in P2P!Trade /\ m \in P2P!Orders /\ t.amount \in Nat
  BY <1>2 DEF NodeInv, TradesOnce, KnownTrades, P2P!Trade
<1>4. k.trade = t /\ k.at = "done"
  BY DEF P2P!Handling
<1> DEFINE row == P2P!FilledRow(t, j.read)
<1>5. /\ row.filled = j.read + t.amount
      /\ row.status = "settled" => j.read + t.amount >= Order[m].amount
      /\ row \in P2P!Row
  BY <1>2, <1>3 DEF P2P!FilledRow, P2P!Row
<1> HIDE DEF row
<1>6. rows \in [P2P!Orders -> P2P!Row \cup {NoRow}]
  BY DEF NodeInv, NodeTyped
<1>7. /\ rows' \in [P2P!Orders -> P2P!Row \cup {NoRow}]
      /\ \A o \in P2P!Orders : rows'[o] = rows[o] \/ (o = m /\ rows'[o] = row)
  <2>1. rows' = rows \/ rows' = [rows EXCEPT ![m] = row]
    BY <1>1 DEF row
  <2> QED BY <1>3, <1>5, <1>6, <2>1
<1>8. /\ NodeTyped' /\ NodeDown' /\ SavingTyped' /\ TradingTyped' /\ TradesOnce'
      /\ BookSound(book') /\ MadeBounded'
  <2>1. /\ t \in matches'
        /\ \E at \in {"read", "write", "done"} : \E read :
              (at = "write" => read \in Nat) /\ N = {P2P!Handling(t, at, read)}
    BY <1>1, <1>2
  <2>2. /\ matches \subseteq matches' /\ matches' \subseteq matches \cup {t}
        /\ settling' \subseteq matches'
    BY <1>1, <1>2
  <2> HIDE DEF N
  <2> QED BY <1>1, <1>7, <2>1, <2>2, HandlerGoesOn
<1> HIDE DEF k
<1>9. t \in Unwritten /\ Unwritten' = Unwritten \ {t}
  BY <1>1, <1>2, <1>4 DEF Unwritten
<1>10. ASSUME NEW o \in P2P!Orders
       PROVE  /\ Amounts(WrittenFor(o)) \in Nat /\ Amounts(WrittenFor(o)') \in Nat
              /\ Amounts(WrittenFor(o)) <= Amounts(WrittenFor(o)')
  <2>1. WrittenFor(o) \subseteq WrittenFor(o)'
    BY <1>1, <1>9 DEF WrittenFor
  <2> QED BY <1>8, <2>1, WrittenGrows
<1>11. Amounts(WrittenFor(m)') = Amounts(WrittenFor(m)) + t.amount
  <2>1. WrittenFor(m)' = WrittenFor(m) \cup {t} /\ t \notin WrittenFor(m)
    BY <1>1, <1>2, <1>9 DEF WrittenFor
  <2>2. WrittenFor(m) \subseteq KnownTrades
    BY DEF WrittenFor, KnownTrades
  <2>3. IsFiniteSet(WrittenFor(m)) /\ WrittenFor(m) \subseteq P2P!Trade
    BY <2>2, FS_Subset DEF NodeInv, TradesOnce
  <2>4. Amounts(WrittenFor(m) \cup {t}) = Amounts(WrittenFor(m)) + t.amount
    BY <1>3, <2>1, <2>3, AmountsAdd
  <2> QED BY <2>1, <2>4
<1>12. j.read <= Amounts(WrittenFor(m))
  BY <1>1 DEF NodeInv, RowsWritten
<1>13. ASSUME NEW o \in P2P!Orders, rows'[o] # NoRow
       PROVE  /\ rows'[o].filled <= Amounts(WrittenFor(o)')
              /\ rows'[o].status = "settled" => Order[o].amount <= Amounts(WrittenFor(o)')
  <2>1. Order[o].amount \in Nat
    BY OrderAssumed
  <2>2. CASE rows'[o] = rows[o]
    <3>1. /\ rows[o].filled \in Nat /\ rows[o].filled <= Amounts(WrittenFor(o))
          /\ rows[o].status = "settled" => Order[o].amount <= Amounts(WrittenFor(o))
      BY <1>13, <2>2, RowTyped DEF NodeInv, RowsWritten, RowBacked
    <3> QED BY <1>10, <2>1, <2>2, <3>1
  <2>3. CASE o = m /\ rows'[o] = row
    <3>1. j.read + t.amount <= Amounts(WrittenFor(o)')
      BY <1>2, <1>3, <1>10, <1>11, <1>12, <2>3
    <3> QED BY <1>2, <1>3, <1>5, <1>10, <2>1, <2>3, <3>1
  <2> QED BY <1>7, <2>2, <2>3
<1>14. ASSUME NEW i \in trading', i.at = "write"
       PROVE  i.read <= Amounts(WrittenFor(i.trade.maker)')
  <2>1. i \in trading
    BY <1>1, <1>4, <1>14
  <2>2. i.read \in Nat /\ i.trade \in P2P!Trade
    BY <1>14, <2>1 DEF NodeInv, TradingTyped, TradesOnce, KnownTrades
  <2>3. PICK o \in P2P!Orders : o = i.trade.maker
    BY <2>2 DEF P2P!Trade
  <2>4. i.read <= Amounts(WrittenFor(o))
    BY <1>14, <2>1, <2>3 DEF NodeInv, RowsWritten
  <2>5. i.read <= Amounts(WrittenFor(o)')
    BY <1>10, <2>2, <2>4
  <2> QED BY Zenon, <2>3, <2>5
<1>15. RowsWritten'
  BY <1>13, <1>14 DEF RowsWritten, RowBacked
<1> QED BY <1>8, <1>15 DEF NodeInv

(* Only what is saved is announced.                                          *)
LEMMA AnnounceKeeps ==
    ASSUME NodeInv, NEW j \in trading, P2P!Announce(j)
    PROVE  NodeInv'
<1> DEFINE t == j.trade
<1>1. /\ j.at = "done" /\ trading' = trading \ {j} /\ settling' = settling \cup {t}
      /\ UNCHANGED <<up, opens, book, rows, matches, saving, placing, expired, copies, cancelled>>
  BY DEF P2P!Announce
<1>2. /\ rows' \in [P2P!Orders -> P2P!Row \cup {NoRow}] /\ settling \subseteq matches
      /\ t \in matches
  BY <1>1 DEF NodeInv, NodeTyped, TradesOnce
<1>3. /\ NodeTyped' /\ NodeDown' /\ SavingTyped' /\ TradingTyped' /\ TradesOnce'
      /\ BookSound(book') /\ MadeBounded'
  <2> DEFINE N == {}
  <2>1. trading' = (trading \ {j}) \cup N /\ N = {}
    BY <1>1
  <2>2. /\ matches \subseteq matches' /\ matches' \subseteq matches \cup {t}
        /\ settling' \subseteq matches'
    BY <1>1, <1>2
  <2> HIDE DEF N
  <2> QED BY <1>1, <1>2, <2>1, <2>2, HandlerGoesOn
<1>4. \A o \in P2P!Orders : WrittenFor(o) \subseteq WrittenFor(o)'
  BY <1>1 DEF WrittenFor, Unwritten
<1>5. \A i \in trading' : i.at = "write" => i \in trading
  BY <1>1
<1>6. RowsWritten'
  BY <1>1, <1>3, <1>4, <1>5, RowsKept
<1> QED BY <1>3, <1>6 DEF NodeInv

-----------------------------------------------------------------------------
LEMMA NodeInitially == P2P!Init => NodeInv
<1> SUFFICES ASSUME P2P!Init PROVE NodeInv
  OBVIOUS
<1>1. /\ up = FALSE /\ opens = 0 /\ book = P2P!EmptyBook
      /\ rows = [o \in P2P!Orders |-> NoRow]
      /\ matches = {} /\ saving = {} /\ trading = {} /\ placing = {}
      /\ expired = {} /\ copies = [o \in P2P!Orders |-> 0] /\ cancelled = {} /\ settling = {}
  BY DEF P2P!Init
<1>2. NodeTyped /\ NodeDown
  <2>1. \A o \in P2P!Orders : MaxCopies[o] \in Nat
    BY OrderAssumed
  <2>2. MaxOpens \in Nat
    BY OrderAssumed
  <2>3. rows \in [P2P!Orders -> P2P!Row \cup {NoRow}] /\ copies \in [P2P!Orders -> Nat]
    BY <1>1
  <2>4. \A o \in P2P!Orders : copies[o] <= MaxCopies[o] /\ copies[o] = 0 /\ rows[o] = NoRow
    BY <1>1, <2>1
  <2>5. opens \in 0 .. MaxOpens
    BY <1>1, <2>2
  <2>6. NodeTyped
    BY <1>1, <2>3, <2>4, <2>5 DEF NodeTyped
  <2>7. NodeDown
    BY <1>1, <2>4 DEF NodeDown
  <2> QED BY <2>6, <2>7
<1>3. KnownTrades = {} /\ IsFiniteSet({})
  BY <1>1, FS_EmptySet DEF KnownTrades
<1>4. SavingTyped /\ TradingTyped /\ TradesOnce
  BY <1>1, <1>3 DEF SavingTyped, TradingTyped, TradesOnce
<1>5. RowsWritten
  BY <1>1 DEF RowsWritten
<1>6. BookSound(book)
  BY <1>1, EmptyBookSound
<1>7. MadeBounded
  BY <1>1 DEF MadeBounded
<1> QED BY <1>2, <1>4, <1>5, <1>6, <1>7 DEF NodeInv

LEMMA StepKeepsNodeInv == NodeInv /\ [P2P!Next]_(P2P!vars) => NodeInv'
<1> SUFFICES ASSUME NodeInv, [P2P!Next]_(P2P!vars) PROVE NodeInv'
  OBVIOUS
<1>1. CASE P2P!OpenTab
  BY <1>1, OpenTabKeeps
<1>2. CASE P2P!CloseTab
  BY <1>2, CloseTabKeeps
<1>3. CASE P2P!Cleanup
  BY <1>3, CleanupKeeps
<1>4. ASSUME NEW o \in P2P!Orders, P2P!ReceiveOrder(o) PROVE NodeInv'
  BY <1>4, ReceiveOrderKeeps
<1>5. ASSUME NEW o \in P2P!Orders, P2P!ReceiveCancel(o) PROVE NodeInv'
  BY <1>5, ReceiveCancelKeeps
<1>6. ASSUME NEW o \in P2P!Orders, P2P!PlaceOwn(o) PROVE NodeInv'
  BY <1>6, PlaceOwnKeeps
<1>7. ASSUME NEW o \in P2P!Orders, P2P!Expire(o) PROVE NodeInv'
  BY <1>7, ExpireKeeps
<1>8. ASSUME NEW h \in saving, P2P!AddAndMatch(h) PROVE NodeInv'
  BY <1>8, AddAndMatchKeeps
<1>9. ASSUME NEW j \in trading, P2P!PublishTrade(j) PROVE NodeInv'
  BY <1>9, PublishTradeKeeps
<1>10. ASSUME NEW j \in trading, P2P!ReadMaker(j) PROVE NodeInv'
  BY <1>10, ReadMakerKeeps
<1>11. ASSUME NEW j \in trading, P2P!WriteMaker(j) PROVE NodeInv'
  BY <1>11, WriteMakerKeeps
<1>12. ASSUME NEW j \in trading, P2P!Announce(j) PROVE NodeInv'
  BY <1>12, AnnounceKeeps
<1>13. ASSUME NEW o \in placing, P2P!PlacedOwn(o) PROVE NodeInv'
  BY <1>13, PlacedOwnKeeps
<1>14. CASE UNCHANGED P2P!vars
  BY <1>14 DEF P2P!vars, NodeInv, NodeTyped, NodeDown, SavingTyped, TradingTyped, TradesOnce,
     KnownTrades, RowsWritten, RowBacked, WrittenFor, Unwritten, MadeBounded, Load, MadeOf,
     RunsOf, Entered
<1> QED
  BY Zenon, <1>1, <1>2, <1>3, <1>4, <1>5, <1>6, <1>7, <1>8, <1>9, <1>10, <1>11, <1>12, <1>13,
     <1>14 DEF P2P!Next, P2P!Continue


LEMMA StepOfNode == [Next]_vars => [P2P!Next]_(P2P!vars)
<1> SUFFICES ASSUME [Next]_vars PROVE P2P!Next \/ UNCHANGED P2P!vars
  OBVIOUS
<1>1. CASE UNCHANGED p2pVars
  BY <1>1 DEF p2pVars, P2P!vars
<1>2. UNCHANGED p2pVars \/ P2P!Next
  BY Zenon
     DEF Next, vars, BesideBridge, BesideGovernance, BesideVaultTabs, BesideClaims, BesideOrders,
         BesideRelay
<1> QED BY <1>1, <1>2

LEMMA NodeInvariant == Spec => []NodeInv
<1>1. Init => NodeInv
  BY NodeInitially DEF Init
<1>2. NodeInv /\ [Next]_vars => NodeInv'
  BY StepOfNode, StepKeepsNodeInv
<1> QED BY <1>1, <1>2, PTL DEF Spec

(* What a sound book says in the terms of BookIsSound: an order rests at one *)
(* place of one side, or at none.                                            *)
LEMMA SoundBookIsSound ==
    ASSUME BookSound(book)
    PROVE  BookIsSound
<1>1. /\ SideSound("buy", book.bids) /\ SideSound("sell", book.asks)
      /\ book.index = IdsOf(book.bids) \cup IdsOf(book.asks)
  BY DEF BookSound
<1>2. /\ DOMAIN book.bids = 1 .. Len(book.bids)
      /\ DOMAIN book.asks = 1 .. Len(book.asks)
  BY <1>1, LenProperties DEF SideSound
<1>3. \A side \in {book.bids, book.asks} :
         \A i, j \in DOMAIN side : i < j => ~P2P!Outranks(side[j].id, side[i].id)
  <2>1. \A i, j \in DOMAIN book.bids : i < j => ~P2P!Outranks(book.bids[j].id, book.bids[i].id)
    BY <1>1, <1>2 DEF SideSound
  <2>2. \A i, j \in DOMAIN book.asks : i < j => ~P2P!Outranks(book.asks[j].id, book.asks[i].id)
    BY <1>1, <1>2 DEF SideSound
  <2> QED BY <2>1, <2>2
<1>4. \A i, j \in 1 .. Len(book.bids) : book.bids[i].id = book.bids[j].id => i = j
  <2>1. Len(book.bids) \in Nat
    BY <1>1, LenProperties DEF SideSound
  <2> QED BY <1>1, <2>1 DEF SideSound
<1>5. \A i, j \in 1 .. Len(book.asks) : book.asks[i].id = book.asks[j].id => i = j
  <2>1. Len(book.asks) \in Nat
    BY <1>1, LenProperties DEF SideSound
  <2> QED BY <1>1, <2>1 DEF SideSound
<1>6. /\ \A i \in 1 .. Len(book.bids) : Order[book.bids[i].id].side = "buy"
      /\ \A i \in 1 .. Len(book.asks) : Order[book.asks[i].id].side = "sell"
  BY <1>1 DEF SideSound
<1>7. ASSUME NEW o \in P2P!Orders
      PROVE  Cardinality(P2P!Lot(o)) = IF o \in book.index THEN 1 ELSE 0
  <2> DEFINE Bids == {k \in 1 .. Len(book.bids) : book.bids[k].id = o}
             Asks == {k \in 1 .. Len(book.asks) : book.asks[k].id = o}
  <2>1. P2P!Lot(o) = {<<"bid", i>> : i \in Bids} \cup {<<"ask", i>> : i \in Asks}
    BY <1>2 DEF P2P!Lot
  <2>2. CASE o \in IdsOf(book.bids)
    <3>1. PICK i \in 1 .. Len(book.bids) : book.bids[i].id = o
      BY <2>2 DEF IdsOf
    <3>2. Bids = {i}
      BY <1>4, <3>1
    <3>3. Asks = {}
      BY <1>6, <3>1
    <3> HIDE DEF Bids, Asks
    <3>4. P2P!Lot(o) = {<<"bid", i>>}
      BY <2>1, <3>2, <3>3
    <3> QED BY <1>1, <2>2, <3>4, FS_Singleton
  <2>3. CASE o \in IdsOf(book.asks)
    <3>1. PICK i \in 1 .. Len(book.asks) : book.asks[i].id = o
      BY <2>3 DEF IdsOf
    <3>2. Asks = {i}
      BY <1>5, <3>1
    <3>3. Bids = {}
      BY <1>6, <3>1
    <3> HIDE DEF Bids, Asks
    <3>4. P2P!Lot(o) = {<<"ask", i>>}
      BY <2>1, <3>2, <3>3
    <3> QED BY <1>1, <2>3, <3>4, FS_Singleton
  <2>4. CASE o \notin book.index
    <3>1. Bids = {} /\ Asks = {}
      BY <1>1, <2>4 DEF IdsOf
    <3> HIDE DEF Bids, Asks
    <3>2. P2P!Lot(o) = {}
      BY <2>1, <3>1
    <3> QED BY <2>4, <3>2, FS_EmptySet
  <2> QED BY <1>1, <2>2, <2>3, <2>4
<1>8. \A o \in P2P!Orders :
         P2P!Cardinality(P2P!Lot(o)) = IF o \in book.index THEN 1 ELSE 0
  BY Zenon, <1>7, NodeCardinality
<1> QED BY Zenon, <1>3, <1>8 DEF BookIsSound, P2P!BookIsSound

(* BookIsSound for all orders, prices, messages, cancels and restarts        *)
(* (p2p/matchEngine.ts, addOrder, removeOrder and match).                    *)
THEOREM BookStaysSound == Spec => []BookIsSound
<1>1. NodeInv => BookIsSound
  BY SoundBookIsSound DEF NodeInv
<1> QED BY <1>1, NodeInvariant, PTL

LEMMA BackedRows ==
    ASSUME NodeInv
    PROVE  RowsBackedByMatches
<1>1. ASSUME NEW o \in P2P!Orders, rows[o] # NoRow
      PROVE  /\ rows[o].filled <= Amounts(P2P!MatchedFor(o))
             /\ rows[o].status = "settled" => Amounts(P2P!MatchedFor(o)) >= Order[o].amount
  <2>1. /\ rows[o].filled \in Nat /\ rows[o].filled <= Amounts(WrittenFor(o))
        /\ rows[o].status = "settled" => Order[o].amount <= Amounts(WrittenFor(o))
    BY <1>1, RowTyped DEF NodeInv, RowsWritten, RowBacked
  <2>2. /\ WrittenFor(o) \subseteq P2P!MatchedFor(o)
        /\ P2P!MatchedFor(o) \subseteq KnownTrades
    BY DEF WrittenFor, P2P!MatchedFor, KnownTrades
  <2>3. KnownTrades \subseteq P2P!Trade /\ IsFiniteSet(KnownTrades)
    BY DEF NodeInv, TradesOnce
  <2>4. /\ IsFiniteSet(P2P!MatchedFor(o)) /\ P2P!MatchedFor(o) \subseteq P2P!Trade
        /\ Amounts(P2P!MatchedFor(o)) \in Nat
    BY <2>2, <2>3, AmountsGrow
  <2>5. /\ Amounts(WrittenFor(o)) \in Nat
        /\ Amounts(WrittenFor(o)) <= Amounts(P2P!MatchedFor(o))
    BY <2>2, <2>4, AmountsGrow
  <2>6. Order[o].amount \in Nat
    BY OrderAssumed
  <2> QED BY <2>1, <2>4, <2>5, <2>6
<1>2. ASSUME NEW o \in P2P!Orders, rows[o] # NoRow
      PROVE  /\ rows[o].filled <= P2P!Total(P2P!MatchedFor(o))
             /\ rows[o].status = "settled" => P2P!Total(P2P!MatchedFor(o)) >= Order[o].amount
  BY Zenon, <1>1, <1>2, TotalIsAmounts
<1> QED BY Zenon, <1>2 DEF RowsBackedByMatches, P2P!RowsBackedByMatches

(* RowsBackedByMatches for every interleaving of the handlers                *)
(* (p2p/orderSubscriber.ts, storage.ts saveMatchAndUpdateMaker).             *)
THEOREM RowsStayBacked == Spec => []RowsBackedByMatches
<1> QED BY BackedRows, NodeInvariant, PTL

LEMMA FillsWithinEntries ==
    ASSUME NodeInv
    PROVE  MakerFillsBounded
<1>1. ASSUME NEW o \in P2P!Orders, opens > 0
      PROVE  P2P!Total(P2P!MadeFor(o)) <= Order[o].amount * (copies[o] + opens - 1)
  <2>1. P2P!MadeFor(o) = MadeOf(o)
    BY DEF P2P!MadeFor, MadeOf, KnownTrades
  <2>2. P2P!Total(P2P!MadeFor(o)) = Amounts(MadeOf(o))
    BY Zenon, <2>1, TotalIsAmounts
  <2>3. Load(o) <= Entered(o)
    BY <1>1 DEF NodeInv, MadeBounded
  <2>4. /\ Amounts(MadeOf(o)) \in Nat /\ Order[o].amount * Cardinality(RunsOf(o)) \in Nat
        /\ Load(o) = Amounts(MadeOf(o)) + Order[o].amount * Cardinality(RunsOf(o))
    BY LoadTyped DEF Load
  <2>5. Entered(o) \in Int
    <3>1. Order[o].amount \in Nat /\ copies[o] + opens - 1 \in Int
      BY OrderAssumed DEF NodeInv, NodeTyped
    <3> DEFINE c == copies[o] + opens - 1
    <3>2. Entered(o) = Order[o].amount * c
      BY DEF Entered
    <3> HIDE DEF c
    <3> QED BY <3>1, <3>2 DEF c
  <2>6. Amounts(MadeOf(o)) <= Entered(o)
    BY <2>3, <2>4, <2>5
  <2> QED BY Zenon, <2>2, <2>6 DEF Entered
<1> QED BY <1>1 DEF MakerFillsBounded, P2P!MakerFillsBounded

(* MakerFillsBounded for every number of messages and restarts               *)
(* (p2p/matchEngine.ts, matchSide; manager.ts, start).                       *)
THEOREM MakersFillBounded == Spec => []MakerFillsBounded
<1> QED BY FillsWithinEntries, NodeInvariant, PTL

(* SettlingIsRecorded whichever publishes fail (p2p/orderSubscriber.ts).     *)
THEOREM SettlingRecorded == Spec => []SettlingIsRecorded
<1>1. NodeInv => SettlingIsRecorded
  BY DEF NodeInv, TradesOnce, SettlingIsRecorded, P2P!SettlingIsRecorded
<1> QED BY <1>1, NodeInvariant, PTL

-----------------------------------------------------------------------------
(* The invariants of the pages give their types.                             *)
LEMMA GovernanceTypes == GovernanceInv => Governance!TypeOK
<1> SUFFICES ASSUME GovernanceInv PROVE Governance!TypeOK
  OBVIOUS
<1>1. /\ proposals \in Seq(Governance!Proposal) /\ Len(proposals) <= MaxProposals
      /\ ballots \in Seq(SUBSET [voter : Accounts, support : BOOLEAN])
      /\ Len(ballots) = Len(proposals)
      /\ delegates \in [Accounts -> Accounts \cup {NoOne}]
      /\ lastExecuted \in 0 .. MaxTime /\ govClock \in 1 .. MaxTime
  BY DEF GovernanceInv, GInv, Polled, Ballot
<1>2. govRows \in Seq(Governance!Row) /\ govLoading \in BOOLEAN
  BY DEF GovernanceInv, RowsTyped
<1>3. \A by \in DOMAIN reading :
         reading[by] # Idle => /\ reading[by].upTo \in 0 .. Len(proposals)
                               /\ reading[by].next \in 1 .. reading[by].upTo + 1
                               /\ reading[by].list \in Seq(Governance!Row)
  BY DEF GovernanceInv, ReadersTyped, Reader
<1>4. \A k \in Governance!Kinds : govCall[k] # Idle => govCall[k].at \in {"send", "read"}
  BY DEF GovernanceInv, CallsSaid, Call
<1> QED BY <1>1, <1>2, <1>3, <1>4 DEF Governance!TypeOK

LEMMA OrdersTypes == OrdersInv => Orders!TypeOK
<1> SUFFICES ASSUME OrdersInv PROVE Orders!TypeOK
  OBVIOUS
<1>1. {account, walletAccount} \subseteq Accounts /\ online \in BOOLEAN
  BY DEF OrdersInv, WalletTyped
<1>2. \A f \in Forms : placements[f] # Idle =>
         /\ placements[f].order \in Orders!OrderData /\ placements[f].node \in Orders!Nodes
         /\ placements[f].at \in {"signer", "sign", "verify", "post", "publish"}
  BY DEF OrdersInv, PlacementsTyped, Placement
<1>3. /\ cancels \subseteq [id : Orders!Ids, of : Accounts, signer : Accounts,
                            node : Orders!Nodes, at : {"signer", "sign", "post"}]
      /\ cancelLoading \in Orders!Ids \cup {Orders!None}
  BY DEF OrdersInv, CancelsTyped, Cancellation
<1>4. /\ lists \in [Orders!Listed -> SUBSET Orders!Ids]
      /\ fetching \subseteq Orders!Listed \X Accounts /\ reload \in BOOLEAN
      /\ listCache \in [book : CacheEntry, mine : [Accounts -> CacheEntry]]
  BY DEF OrdersInv, ListsTyped
<1>5. /\ listCache.book \in [known : BOOLEAN, ids : SUBSET Orders!Ids]
      /\ \A a \in Accounts :
            listCache.mine[a] \in [known : BOOLEAN, ids : SUBSET Orders!Ids]
  BY <1>4 DEF CacheEntry
<1>6. broadcast \in BOOLEAN /\ gossip \subseteq Orders!OrderData
  BY DEF OrdersInv, BroadcastTyped
<1>7. /\ nodeOrders \in [Orders!Nodes -> SUBSET Orders!OrderData] /\ lastId \in 0 .. MaxOrders
      /\ \A n \in Orders!Nodes : nodeOpen[n] \subseteq {o.id : o \in nodeOrders[n]}
  BY DEF OrdersInv, NodesTyped
<1> QED BY <1>1, <1>2, <1>3, <1>4, <1>5, <1>6, <1>7 DEF Orders!TypeOK

LEMMA ClaimsTypes == ClaimsInv => Claims!TypeOK
<1> SUFFICES ASSUME ClaimsInv PROVE Claims!TypeOK
  OBVIOUS
<1>1. /\ recipients \in Lists /\ {feePot, rewardPot} \subseteq Nat
      /\ {feeClaimed, feeDue, rewardClaimed, rewardDue} \subseteq [Claims!Claimants -> Nat]
      /\ score \in [Claims!Claimants -> Nat]
  BY DEF ClaimsInv, FeesDue, RewardsDue
<1>2. airdrop \in [claimed : BOOLEAN, sent : Nat] /\ contractCalls \in 0 .. MaxCalls
  BY DEF ClaimsInv, AirdropOnce, CallsCounted
<1>3. /\ listed \in [Claims!Cards -> [known : BOOLEAN, items : SUBSET Claims!Items]]
      /\ cardLoading \in [Claims!Cards -> BOOLEAN]
      /\ cardRead \in [Claims!Cards \X Claims!ReadBy ->
                         [at : {"idle", "asked", "told"}, of : Claims!Claimants,
                          items : SUBSET Claims!Items]]
      /\ boardQuery \in Claims!Claimants /\ boardError \in BOOLEAN
  BY DEF ClaimsInv, CardsTyped, ReadEntry, ListEntry
<1>4. \A c \in Claims!Cards : cardClaim[c] # Idle =>
         /\ cardClaim[c] \in Claims!Claim /\ cardClaim[c].items # <<>>
         /\ (cardClaim[c].at = "read") <=> (cardRead[<<c, "claim">>].at # "idle")
  BY DEF ClaimsInv, CardsTyped, CardClaimSound
<1>5. airCard \in [claimed : {"unknown", "yes", "no"}, checking : BOOLEAN, claiming : BOOLEAN]
  BY DEF ClaimsInv, AirCardTyped
<1> QED BY <1>1, <1>2, <1>3, <1>4, <1>5 DEF Claims!TypeOK

LEMMA BridgeTypes == BridgeInv => Bridge!TypeOK
<1> SUFFICES ASSUME BridgeInv PROVE Bridge!TypeOK
  OBVIOUS
<1>1. /\ bridgeMount \in 1 .. MaxMounts /\ bridgeForm \in Bridge!Form
      /\ bridgeLoading \in BOOLEAN /\ bridgeBalance \in Nat
      /\ bridgeStatus \in [id : 0 .. MaxSent, shown : {"", "sent", "pending"}]
  BY DEF BridgeInv, BridgePageTyped, BridgeStatus
<1>2. bridgeCalls \subseteq
         [mount : 1 .. bridgeMount, form : Bridge!Form, fee : BOOLEAN,
          at : {"allowance", "approve", "fee", "send", "wait", "balance"}]
  BY DEF BridgeInv, TransfersTyped, TransferAt
<1>3. wallet \in 0 .. Funds /\ locked \in 0 .. Funds /\ bridgeAllowance \in Nat
  <2>1. wallet \in Nat /\ locked \in Nat /\ wallet + locked = Funds /\ bridgeAllowance \in Nat
    BY DEF BridgeInv, LockedForRequests
  <2> QED BY <2>1
<1>4. requests \subseteq Bridge!Request /\ processed \subseteq requests /\ released \in 0 .. Pool
  BY DEF BridgeInv, LockedForRequests, ReleasedForRequests
<1>5. bridgeClock \in 0 .. MaxClock
  BY DEF BridgeInv, BridgeClockTyped
<1> QED BY <1>1, <1>2, <1>3, <1>4, <1>5 DEF Bridge!TypeOK

LEMMA VaultTypes == VaultInv => VaultTabs!TypeOK
<1> SUFFICES ASSUME VaultInv PROVE VaultTabs!TypeOK
  OBVIOUS
<1>1. {tokens, vaulted, vaultAllowed, poolAllowed, reserve, provided}
         \subseteq [VaultTabs!Tokens -> Nat]
  BY DEF VaultInv, VaultChainTyped, PoolTyped
<1>2. trades \in 0 .. MaxTrades
  BY DEF VaultInv, PoolTyped
<1>3. \A k \in VaultTabs!Handlers : vaultCall[k] # Idle =>
         /\ vaultCall[k].amount \in [VaultTabs!Tokens -> Nat]
         /\ vaultCall[k].allow \in [VaultTabs!Tokens -> {"check", "clear", "approve", "ready"}]
         /\ vaultCall[k].at \in {"allow", "mined"}
  BY DEF VaultInv, VaultCallsTyped, TransferCall
<1> QED BY <1>1, <1>2, <1>3 DEF VaultTabs!TypeOK

LEMMA RelayTypes == RelayInv => Relay!TypeOK
<1> SUFFICES ASSUME RelayInv PROVE Relay!TypeOK
  OBVIOUS
<1>1. sockets \subseteq Relay!Socket /\ ws \in {Relay!NoSocket} \cup {s.id : s \in sockets}
  BY DEF RelayInv, SocketsTyped
<1>2. /\ urlIndex \in 0 .. UrlCount - 1 /\ failures \in 0 .. Backoff
      /\ reconnectTimer \in BOOLEAN /\ strayTimers \in Nat /\ connects \in 0 .. MaxConnects
  BY DEF RelayInv, ClientTyped, ConnectsCounted
<1>3. Cardinality(sockets) + Relay!Timers <= connects
  <2>1. Cardinality(sockets) \in Nat
    BY FS_CardinalityType DEF RelayInv, SocketsTyped
  <2> QED BY <1>2, <2>1 DEF RelayInv, ConnectsCounted, TimerRunning, Relay!Timers
<1> QED BY <1>1, <1>2, <1>3, RelayCardinality DEF Relay!TypeOK

LEMMA NodeTypes == NodeInv => P2P!TypeOK
<1> SUFFICES ASSUME NodeInv PROVE P2P!TypeOK
  OBVIOUS
<1>1. /\ up \in BOOLEAN /\ opens \in 0 .. MaxOpens
      /\ placing \subseteq Own /\ expired \subseteq P2P!Orders /\ cancelled \subseteq P2P!Orders
      /\ rows \in [P2P!Orders -> P2P!Row \cup {NoRow}]
  BY DEF NodeInv, NodeTyped
<1>2. \A o \in P2P!Orders : copies[o] \in Nat /\ copies[o] <= MaxCopies[o] /\ MaxCopies[o] \in Nat
  BY OrderAssumed DEF NodeInv, NodeTyped
<1>3. \A o \in P2P!Orders : copies[o] \in 0 .. MaxCopies[o]
  BY <1>2
<1>4. \A o \in P2P!Orders : rows[o] = NoRow \/ rows[o] \in P2P!Row
  BY <1>1
<1>5. /\ book.bids \in Seq(RestingLot) /\ book.asks \in Seq(RestingLot)
      /\ book.index = IdsOf(book.bids) \cup IdsOf(book.asks)
  BY DEF NodeInv, BookSound, SideSound
<1>6. RestingLot \subseteq [id : P2P!Orders, amount : Nat]
  <2>1. Nat \ {0} \subseteq Nat
    OBVIOUS
  <2> QED BY <2>1 DEF RestingLot
<1>7. book.bids \in P2P!Lots /\ book.asks \in P2P!Lots
  <2>1. ASSUME NEW s \in Seq(RestingLot) PROVE s \in P2P!Lots
    <3> DEFINE n == Len(s)
               A == RestingLot
               B == [id : P2P!Orders, amount : Nat]
    <3>1. n \in Nat /\ s \in [1 .. n -> A]
      BY LenProperties
    <3>2. A \subseteq B
      BY <1>6
    <3> HIDE DEF n, A, B
    <3>3. s \in [1 .. n -> B]
      BY <3>1, <3>2
    <3>4. s \in Seq(B)
      BY <3>1, <3>3
    <3> QED BY <3>4 DEF P2P!Lots, B
  <2> QED BY <1>5, <2>1
<1>8. book.index \subseteq P2P!Orders
  <2>1. /\ \A i \in 1 .. Len(book.bids) : book.bids[i] \in RestingLot
        /\ \A i \in 1 .. Len(book.asks) : book.asks[i] \in RestingLot
    BY <1>5, ElementOfSeq
  <2> QED BY <1>5, <2>1 DEF IdsOf, RestingLot
<1>9. KnownTrades \subseteq P2P!Trade /\ settling \subseteq matches
  BY DEF NodeInv, TradesOnce
<1>10. /\ matches \subseteq P2P!Trade /\ settling \subseteq P2P!Trade
       /\ \A t \in trading : t.trade \in P2P!Trade
                             /\ t.at \in {"publish", "read", "write", "done"}
  BY <1>9 DEF KnownTrades, NodeInv, TradingTyped
<1>11. \A h \in saving : h.id \in P2P!Orders /\ h.run \in 1 .. MaxCopies[h.id]
  <2> TAKE h \in saving
  <2>1. h.id \in P2P!Orders /\ h.run \in Nat /\ h.run # 0 /\ h.run <= copies[h.id]
    BY DEF NodeInv, SavingTyped
  <2> QED BY <1>2, <2>1
<1> QED BY <1>1, <1>3, <1>4, <1>7, <1>8, <1>10, <1>11 DEF P2P!TypeOK

(* All pages, their contracts and what they have under way keep their types, *)
(* for all accounts, amounts, fees, relays and bounds (frontend/src/App.tsx).*)
THEOREM TypesStay == Spec => []TypeOK
<1>1. Init => tab \in Tabs
  BY DEF Init
<1>2. tab \in Tabs /\ [Next]_vars => (tab \in Tabs)'
  <2> SUFFICES ASSUME tab \in Tabs, [Next]_vars PROVE tab' = tab
    BY DEF Tabs
  <2> QED BY Zenon DEF Next, Open, vars
<1>3. ASSUME tab \in Tabs, BridgeInv, GovernanceInv, VaultInv, ClaimsInv, OrdersInv, RelayInv,
             NodeInv
      PROVE  TypeOK
  <2>1. Bridge!TypeOK /\ Governance!TypeOK /\ VaultTabs!TypeOK /\ Claims!TypeOK
    BY Zenon, <1>3, BridgeTypes, GovernanceTypes, VaultTypes, ClaimsTypes
  <2>2. Orders!TypeOK /\ Relay!TypeOK /\ P2P!TypeOK
    BY Zenon, <1>3, OrdersTypes, RelayTypes, NodeTypes
  <2> QED BY Zenon, <1>3, <2>1, <2>2 DEF TypeOK
<1>4. Spec => [](tab \in Tabs)
  BY <1>1, <1>2, PTL DEF Spec
<1> QED BY <1>3, <1>4, BridgeInvariant, GovernanceInvariant, VaultInvariant, ClaimsInvariant,
           OrdersInvariant, RelayInvariant, NodeInvariant, PTL
=============================================================================
