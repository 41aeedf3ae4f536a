--------------------------- MODULE ConsensusProofs ---------------------------
(* Proofs about Consensus, for every list of nodes and set of proposals.    *)
EXTENDS Consensus, FiniteSetTheorems, TLAPS

(* A prevote, counted or on its way, comes from a node that has handled the *)
(* proposal (HandleProposal registers before it votes).                     *)
PrevotesFromValidators ==
    /\ \A n \in Nodes, p \in Proposals : prevotes[n][p] \subseteq Validators(p)
    /\ \A n \in Nodes : \A m \in inbox[n] :
        m.type = "prevote" => m.from \in Validators(m.proposal)

Backed(p) == Cardinality(Validators(p)) >= QuorumSize

(* A precommit, counted or on its way, shows that a quorum has validated.   *)
PrecommitsBacked ==
    /\ \A n \in Nodes, p \in Proposals : precommits[n][p] # {} => Backed(p)
    /\ \A n \in Nodes : \A m \in inbox[n] : m.type = "precommit" => Backed(m.proposal)

(* onCommit has been called exactly for the committed proposals.            *)
OncePerCommit ==
    \A n \in Nodes, p \in Proposals : onCommit[n][p] = IF p \in committed[n] THEN 1 ELSE 0

IInv ==
    TypeOK /\ PrevotesFromValidators /\ PrecommitsBacked /\ CommitBacked /\ OncePerCommit

-----------------------------------------------------------------------------
LEMMA QuorumSizeInt == QuorumSize \in Int
<1>1. Cardinality(Nodes) \in Nat
  BY NodesAssumption, FS_CardinalityType
<1> QED BY <1>1 DEF QuorumSize

(* A set of validators as large as a quorum is a quorum of validators.      *)
LEMMA QuorumOfValidators ==
    ASSUME NEW p \in Proposals, NEW V \in SUBSET Validators(p), Cardinality(V) >= QuorumSize
    PROVE  Backed(p)
<1>1. IsFiniteSet(Validators(p))
  <2>1. Validators(p) \subseteq Nodes BY DEF Validators
  <2> QED BY <2>1, NodesAssumption, FS_Subset
<1>2. Cardinality(V) <= Cardinality(Validators(p)) /\ Cardinality(V) \in Nat
  BY <1>1, FS_Subset, FS_CardinalityType
<1>3. Cardinality(Validators(p)) \in Nat
  BY <1>1, FS_CardinalityType
<1> QED BY <1>2, <1>3, QuorumSizeInt DEF Backed

(* Proposals are only ever added to known, so what is backed stays backed.  *)
LEMMA BackedMonotone ==
    ASSUME NEW p \in Proposals, Backed(p), Validators(p) \subseteq Validators(p)'
    PROVE  Backed(p)'
<1>1. IsFiniteSet(Validators(p)')
  <2>1. Validators(p)' \subseteq Nodes BY DEF Validators
  <2> QED BY <2>1, NodesAssumption, FS_Subset
<1>2. Cardinality(Validators(p)) <= Cardinality(Validators(p)')
  BY <1>1, FS_Subset
<1>3. Cardinality(Validators(p)) \in Nat /\ Cardinality(Validators(p)') \in Nat
  BY <1>1, FS_Subset, FS_CardinalityType
<1>4. QuorumSize' = QuorumSize
  BY DEF QuorumSize
<1> QED BY <1>2, <1>3, <1>4, QuorumSizeInt DEF Backed

LEMMA InitIInv == Init => IInv
BY QuorumSizeInt DEF Init, IInv, TypeOK, PrevotesFromValidators, PrecommitsBacked, CommitBacked,
    OncePerCommit

-----------------------------------------------------------------------------
(* The part that the four handlers share. After n has counted the voters    *)
(* for p, the checks leave everything backed that was.                      *)
LEMMA CheckPreCommitSafe ==
    ASSUME TypeOK, CommitBacked, OncePerCommit, NEW n \in Nodes, NEW p \in Proposals,
           NEW voters \in SUBSET Nodes, voters # {} => Backed(p), UNCHANGED known,
           QuorumSize > 0, CheckPreCommit(n, p, voters)
    PROVE  /\ committed' \in [Nodes -> SUBSET Proposals]
           /\ onCommit' \in [Nodes -> [Proposals -> Nat]]
           /\ CommitBacked'
           /\ OncePerCommit'
<1>1. \A q \in Proposals : Validators(q)' = Validators(q)
  BY DEF Validators
<1>2. QuorumSize' = QuorumSize
  BY DEF QuorumSize
<1>3. CASE /\ Cardinality(voters) >= QuorumSize
           /\ p \in known[n] /\ p \notin committed[n]
  <2>1. voters # {}
    BY <1>3, QuorumSizeInt, FS_EmptySet
  <2>2. Cardinality(Validators(p)) >= QuorumSize
    BY <2>1 DEF Backed
  <2>3. /\ committed' = [committed EXCEPT ![n] = @ \cup {p}]
        /\ onCommit' = [onCommit EXCEPT ![n][p] = @ + 1]
    BY <1>3 DEF CheckPreCommit
  <2>4. \A k \in Nodes : committed'[k] = IF k = n THEN committed[n] \cup {p} ELSE committed[k]
    BY <2>3 DEF TypeOK
  <2>5. CommitBacked'
    BY <1>1, <1>2, <2>2, <2>4 DEF CommitBacked, TypeOK
  <2>6. /\ committed' \in [Nodes -> SUBSET Proposals]
        /\ onCommit' \in [Nodes -> [Proposals -> Nat]]
    BY <2>3 DEF TypeOK
  <2>7. onCommit[n][p] = 0
    BY <1>3 DEF OncePerCommit
  <2>8. \A k \in Nodes, q \in Proposals :
            onCommit'[k][q] = IF k = n /\ q = p THEN 1 ELSE onCommit[k][q]
    BY <2>3, <2>7 DEF TypeOK
  <2>9. OncePerCommit'
    BY <2>4, <2>8 DEF OncePerCommit, TypeOK
  <2> QED BY <2>5, <2>6, <2>9
<1>4. CASE ~(/\ Cardinality(voters) >= QuorumSize
             /\ p \in known[n] /\ p \notin committed[n])
  <2>1. UNCHANGED <<committed, onCommit>>
    BY <1>4 DEF CheckPreCommit
  <2> QED BY <1>1, <1>2, <2>1 DEF CommitBacked, OncePerCommit, TypeOK
<1> QED BY <1>3, <1>4

LEMMA QuorumSizePositive == QuorumSize > 0
<1>1. Cardinality(Nodes) \in Nat /\ Nodes # {}
  BY NodesAssumption, FS_CardinalityType
<1>2. Cardinality(Nodes) >= 1
  BY <1>1, NodesAssumption, FS_EmptySet
<1> QED BY <1>1, <1>2 DEF QuorumSize

(* What CheckPreVote leaves behind when all the voters are validators.      *)
LEMMA CheckPreVoteSafe ==
    ASSUME IInv, NEW n \in Nodes, NEW p \in Proposals, NEW m,
           NEW voters \in SUBSET Validators(p), UNCHANGED known, CheckPreVote(n, p, voters, m)
    PROVE  /\ precommits' \in [Nodes -> [Proposals -> SUBSET Nodes]]
           /\ inbox' \in [Nodes -> SUBSET Messages]
           /\ committed' \in [Nodes -> SUBSET Proposals]
           /\ onCommit' \in [Nodes -> [Proposals -> Nat]]
           /\ CommitBacked' /\ OncePerCommit' /\ PrecommitsBacked'
           /\ \A k \in Nodes : \A x \in inbox'[k] : x.type = "prevote" => x \in inbox[k]
<1>1. \A q \in Proposals : Validators(q)' = Validators(q) /\ Backed(q)' = Backed(q)
  BY DEF Validators, Backed, QuorumSize
<1>2. CASE Cardinality(voters) >= QuorumSize
  <2>1. Backed(p)
    BY <1>2, QuorumOfValidators
  <2>2. /\ precommits' = [precommits EXCEPT ![n][p] = @ \cup {n}]
        /\ TakeAndPublish(n, m, {Precommit(n, p)})
        /\ CheckPreCommit(n, p, precommits[n][p] \cup {n})
    BY <1>2 DEF CheckPreVote
  <2>3. precommits' \in [Nodes -> [Proposals -> SUBSET Nodes]]
    BY <2>2 DEF IInv, TypeOK
  <2>4. Precommit(n, p) \in Messages /\ Precommit(n, p).type = "precommit"
        /\ Precommit(n, p).proposal = p
    BY DEF Precommit, Messages
  <2>5. /\ inbox' \in [Nodes -> SUBSET Messages]
        /\ \A k \in Nodes : \A x \in inbox'[k] : x \in inbox[k] \/ x = Precommit(n, p)
    BY <2>2, <2>4 DEF TakeAndPublish, IInv, TypeOK
  <2>6. \A k \in Nodes, q \in Proposals :
            precommits'[k][q] # {} => precommits[k][q] # {} \/ q = p
    BY <2>2 DEF IInv, TypeOK
  <2>7. \A k \in Nodes, q \in Proposals : precommits'[k][q] # {} => Backed(q)'
    BY <1>1, <2>1, <2>6 DEF IInv, PrecommitsBacked
  <2>8. \A k \in Nodes : \A x \in inbox'[k] : x.type = "precommit" => Backed(x.proposal)'
    <3> SUFFICES ASSUME NEW k \in Nodes, NEW x \in inbox'[k], x.type = "precommit"
                 PROVE  Backed(x.proposal)'
      OBVIOUS
    <3>1. x.proposal \in Proposals
      BY <2>5 DEF Messages
    <3>2. Backed(x.proposal)
      BY <2>1, <2>4, <2>5 DEF IInv, PrecommitsBacked
    <3> QED BY <1>1, <3>1, <3>2
  <2>9. /\ committed' \in [Nodes -> SUBSET Proposals]
        /\ onCommit' \in [Nodes -> [Proposals -> Nat]]
        /\ CommitBacked' /\ OncePerCommit'
    <3>1. precommits[n][p] \cup {n} \in SUBSET Nodes
      BY DEF IInv, TypeOK
    <3> QED BY <2>1, <2>2, <3>1, QuorumSizePositive, CheckPreCommitSafe DEF IInv
  <2> QED BY <2>3, <2>4, <2>5, <2>7, <2>8, <2>9 DEF PrecommitsBacked
<1>3. CASE ~(Cardinality(voters) >= QuorumSize)
  <2>1. TakeAndPublish(n, m, {}) /\ UNCHANGED <<precommits, committed, onCommit>>
    BY <1>3 DEF CheckPreVote
  <2>2. /\ inbox' \in [Nodes -> SUBSET Messages]
        /\ \A k \in Nodes : inbox'[k] \subseteq inbox[k]
    BY <2>1 DEF TakeAndPublish, IInv, TypeOK
  <2>3. CommitBacked' /\ OncePerCommit'
    BY <2>1 DEF IInv, CommitBacked, OncePerCommit, Validators, QuorumSize
  <2>4. PrecommitsBacked'
    <3>1. \A k \in Nodes : \A x \in inbox'[k] : x \in inbox[k] /\ x.proposal \in Proposals
      BY <2>2 DEF Messages
    <3> QED BY <1>1, <2>1, <3>1 DEF IInv, PrecommitsBacked
  <2> QED BY <2>1, <2>2, <2>3, <2>4 DEF IInv, TypeOK
<1> QED BY <1>2, <1>3

-----------------------------------------------------------------------------
(* One lemma for each action of Next. First the two that let more nodes     *)
(* validate: they take votes away, or count the vote of the node itself.    *)
LEMMA ProposeMatchSafe ==
    ASSUME IInv, NEW p \in Proposals, ProposeMatch(p)
    PROVE  IInv'
<1>1. Leader \in Nodes
  BY NodesAssumption
<1>2. /\ known' = [known EXCEPT ![Leader] = @ \cup {p}]
      /\ prevotes' = [prevotes EXCEPT ![Leader][p] = {}]
      /\ precommits' = [precommits EXCEPT ![Leader][p] = {}]
      /\ proposed' = proposed \cup {p}
      /\ TakeAndPublish(Leader, NoProposal, {Propose(p)})
      /\ UNCHANGED <<committed, onCommit, checking, received>>
  BY DEF ProposeMatch
<1>3. Propose(p) \in Messages /\ Propose(p).type = "propose"
  BY <1>1 DEF Propose, Messages
<1>4. /\ inbox' \in [Nodes -> SUBSET Messages]
      /\ \A k \in Nodes : \A x \in inbox'[k] : x \in inbox[k] \/ x = Propose(p)
  BY <1>2, <1>3 DEF TakeAndPublish, IInv, TypeOK
<1>5. TypeOK'
  BY <1>1, <1>2, <1>4 DEF IInv, TypeOK
<1>6. \A q \in Proposals : Validators(q) \subseteq Validators(q)'
  BY <1>2 DEF Validators, IInv, TypeOK
<1>7. \A q \in Proposals : Backed(q) => Backed(q)'
  BY <1>6, BackedMonotone
<1>8. PrevotesFromValidators'
  <2>1. \A k \in Nodes, q \in Proposals : prevotes'[k][q] \subseteq prevotes[k][q]
    BY <1>2 DEF IInv, TypeOK
  <2>2. \A k \in Nodes : \A x \in inbox'[k] :
            x.type = "prevote" => x.proposal \in Proposals /\ x.from \in Validators(x.proposal)
    BY <1>3, <1>4 DEF IInv, PrevotesFromValidators, Messages, TypeOK
  <2> QED BY <1>6, <2>1, <2>2 DEF IInv, PrevotesFromValidators
<1>9. PrecommitsBacked'
  <2>1. \A k \in Nodes, q \in Proposals : precommits'[k][q] \subseteq precommits[k][q]
    BY <1>2 DEF IInv, TypeOK
  <2>2. \A k \in Nodes : \A x \in inbox'[k] :
            x.type = "precommit" => x.proposal \in Proposals /\ Backed(x.proposal)
    BY <1>3, <1>4 DEF IInv, PrecommitsBacked, Messages, TypeOK
  <2> QED BY <1>7, <2>1, <2>2 DEF IInv, PrecommitsBacked
<1>10. CommitBacked' /\ OncePerCommit'
  BY <1>2, <1>7 DEF IInv, CommitBacked, OncePerCommit, Backed, TypeOK
<1> QED BY <1>5, <1>8, <1>9, <1>10 DEF IInv

LEMMA HandleProposalSafe ==
    ASSUME IInv, NEW n \in Nodes, NEW p \in Proposals, HandleProposal(n, p)
    PROVE  IInv'
<1>1. /\ known' = [known EXCEPT ![n] = @ \cup {p}]
      /\ prevotes' = [prevotes EXCEPT ![n][p] = IF p \in known[n] THEN @ \cup {n} ELSE {n}]
      /\ precommits' = [precommits EXCEPT ![n][p] = IF p \in known[n] THEN @ ELSE {}]
      /\ checking' = [checking EXCEPT ![n] = p]
      /\ TakeAndPublish(n, Propose(p), {Prevote(n, p)})
      /\ received' = [received EXCEPT ![n][p] = @ \cup {n}]
      /\ UNCHANGED <<committed, onCommit, proposed>>
  BY DEF HandleProposal
<1>2. Prevote(n, p) \in Messages /\ Prevote(n, p).type = "prevote"
      /\ Prevote(n, p).from = n /\ Prevote(n, p).proposal = p
  BY DEF Prevote, Messages
<1>3. /\ inbox' \in [Nodes -> SUBSET Messages]
      /\ \A k \in Nodes : \A x \in inbox'[k] : x \in inbox[k] \/ x = Prevote(n, p)
  BY <1>1, <1>2 DEF TakeAndPublish, IInv, TypeOK
<1>4. TypeOK'
  <2>1. known' \in [Nodes -> SUBSET Proposals]
    BY <1>1 DEF IInv, TypeOK
  <2>2. /\ prevotes' \in [Nodes -> [Proposals -> SUBSET Nodes]]
        /\ received' \in [Nodes -> [Proposals -> SUBSET Nodes]]
    BY <1>1 DEF IInv, TypeOK
  <2>3. precommits' \in [Nodes -> [Proposals -> SUBSET Nodes]]
    BY <1>1 DEF IInv, TypeOK
  <2>4. checking' \in [Nodes -> Proposals \cup {NoProposal}]
    BY <1>1 DEF IInv, TypeOK
  <2> QED BY <1>1, <1>3, <2>1, <2>2, <2>3, <2>4 DEF IInv, TypeOK
<1>5. /\ \A q \in Proposals : Validators(q) \subseteq Validators(q)'
      /\ n \in Validators(p)'
  BY <1>1 DEF Validators, IInv, TypeOK
<1>6. \A q \in Proposals : Backed(q) => Backed(q)'
  BY <1>5, BackedMonotone
<1>7. PrevotesFromValidators'
  <2>1. \A k \in Nodes, q \in Proposals :
            prevotes'[k][q] \subseteq prevotes[k][q] \cup (IF q = p THEN {n} ELSE {})
    BY <1>1 DEF IInv, TypeOK
  <2>2. \A k \in Nodes, q \in Proposals : prevotes'[k][q] \subseteq Validators(q)'
    BY <1>5, <2>1 DEF IInv, PrevotesFromValidators
  <2>3. \A k \in Nodes : \A x \in inbox[k] : x.type = "prevote" =>
            x.proposal \in Proposals /\ x.from \in Validators(x.proposal)
    BY DEF IInv, PrevotesFromValidators, Messages, TypeOK
  <2>4. \A k \in Nodes : \A x \in inbox'[k] :
            x.type = "prevote" => x.from \in Validators(x.proposal)'
    BY <1>2, <1>3, <1>5, <2>3
  <2> QED BY <2>2, <2>4 DEF PrevotesFromValidators
<1>8. PrecommitsBacked'
  <2>1. \A k \in Nodes, q \in Proposals : precommits'[k][q] \subseteq precommits[k][q]
    BY <1>1 DEF IInv, TypeOK
  <2>2. \A k \in Nodes : \A x \in inbox'[k] :
            x.type = "precommit" => x.proposal \in Proposals /\ Backed(x.proposal)
    BY <1>2, <1>3 DEF IInv, PrecommitsBacked, Messages, TypeOK
  <2> QED BY <1>6, <2>1, <2>2 DEF IInv, PrecommitsBacked
<1>9. CommitBacked' /\ OncePerCommit'
  BY <1>1, <1>6 DEF IInv, CommitBacked, OncePerCommit, Backed, TypeOK
<1> QED BY <1>4, <1>7, <1>8, <1>9 DEF IInv

(* The handlers that count a vote leave known as it is.                     *)
LEMMA PrevoteCountedSafe ==
    ASSUME IInv, UNCHANGED known, NEW n \in Nodes, NEW p \in Proposals, NEW m,
           NEW voters \in SUBSET Validators(p), CheckPreVote(n, p, voters, m),
           \A k \in Nodes, q \in Proposals : prevotes'[k][q] \subseteq Validators(q),
           TypeOK'
    PROVE  IInv'
<1>1. \A q \in Proposals : Validators(q)' = Validators(q)
  BY DEF Validators
<1>2. CommitBacked' /\ OncePerCommit' /\ PrecommitsBacked'
  BY CheckPreVoteSafe
<1>3. \A k \in Nodes : \A x \in inbox'[k] : x.type = "prevote" => x \in inbox[k]
  BY CheckPreVoteSafe
<1>4. \A k \in Nodes : \A x \in inbox'[k] :
          x.type = "prevote" => x.proposal \in Proposals /\ x.from \in Validators(x.proposal)
  BY <1>3 DEF IInv, PrevotesFromValidators, Messages, TypeOK
<1>5. PrevotesFromValidators'
  BY <1>1, <1>4 DEF PrevotesFromValidators
<1> QED BY <1>2, <1>5 DEF IInv

LEMMA CheckProposalSafe ==
    ASSUME IInv, NEW n \in Nodes, CheckProposal(n)
    PROVE  IInv'
<1> DEFINE p == checking[n]
<1>1. p \in Proposals
  BY DEF CheckProposal, IInv, TypeOK
<1>2. CheckPreVote(n, p, prevotes[n][p], NoProposal) /\ UNCHANGED known
  BY DEF CheckProposal
<1>3. prevotes[n][p] \in SUBSET Validators(p)
  BY <1>1 DEF IInv, PrevotesFromValidators
<1>4. TypeOK'
  <2>1. /\ precommits' \in [Nodes -> [Proposals -> SUBSET Nodes]]
        /\ inbox' \in [Nodes -> SUBSET Messages]
        /\ committed' \in [Nodes -> SUBSET Proposals]
        /\ onCommit' \in [Nodes -> [Proposals -> Nat]]
    BY <1>1, <1>2, <1>3, CheckPreVoteSafe
  <2>2. checking' \in [Nodes -> Proposals \cup {NoProposal}]
    BY DEF CheckProposal, IInv, TypeOK
  <2> QED BY <2>1, <2>2 DEF CheckProposal, IInv, TypeOK
<1>5. \A k \in Nodes, q \in Proposals : prevotes'[k][q] \subseteq Validators(q)
  BY DEF CheckProposal, IInv, PrevotesFromValidators
<1> HIDE DEF p
<1> QED BY <1>1, <1>2, <1>3, <1>4, <1>5, PrevoteCountedSafe

LEMMA HandlePrevoteSafe ==
    ASSUME IInv, NEW n \in Nodes, NEW v \in Nodes, NEW p \in Proposals, HandlePrevote(n, v, p)
    PROVE  IInv'
<1>1. /\ Prevote(v, p) \in inbox[n]
      /\ prevotes' = [prevotes EXCEPT ![n][p] = @ \cup {v}]
      /\ CheckPreVote(n, p, prevotes[n][p] \cup {v}, Prevote(v, p))
      /\ received' = [received EXCEPT ![n][p] = @ \cup {v}]
      /\ UNCHANGED <<known, checking, proposed>>
  BY DEF HandlePrevote
<1>2. v \in Validators(p)
  BY <1>1 DEF Prevote, IInv, PrevotesFromValidators
<1>3. prevotes[n][p] \cup {v} \in SUBSET Validators(p)
  BY <1>2 DEF IInv, PrevotesFromValidators
<1>4. TypeOK'
  <2>1. /\ precommits' \in [Nodes -> [Proposals -> SUBSET Nodes]]
        /\ inbox' \in [Nodes -> SUBSET Messages]
        /\ committed' \in [Nodes -> SUBSET Proposals]
        /\ onCommit' \in [Nodes -> [Proposals -> Nat]]
    BY <1>1, <1>3, CheckPreVoteSafe
  <2>2. prevotes' \in [Nodes -> [Proposals -> SUBSET Nodes]]
    BY <1>1 DEF IInv, TypeOK
  <2>3. received' \in [Nodes -> [Proposals -> SUBSET Nodes]]
    BY <1>1 DEF IInv, TypeOK
  <2> QED BY <1>1, <2>1, <2>2, <2>3 DEF IInv, TypeOK
<1>5. \A k \in Nodes, q \in Proposals : prevotes'[k][q] \subseteq Validators(q)
  BY <1>1, <1>2 DEF IInv, PrevotesFromValidators, TypeOK
<1> QED BY <1>1, <1>3, <1>4, <1>5, PrevoteCountedSafe

LEMMA HandlePrecommitSafe ==
    ASSUME IInv, NEW n \in Nodes, NEW v \in Nodes, NEW p \in Proposals, HandlePrecommit(n, v, p)
    PROVE  IInv'
<1>1. /\ Precommit(v, p) \in inbox[n]
      /\ precommits' = [precommits EXCEPT ![n][p] = @ \cup {v}]
      /\ CheckPreCommit(n, p, precommits[n][p] \cup {v})
      /\ TakeAndPublish(n, Precommit(v, p), {})
      /\ UNCHANGED <<known, prevotes, checking, proposed, received>>
  BY DEF HandlePrecommit
<1>2. Backed(p)
  BY <1>1 DEF Precommit, IInv, PrecommitsBacked
<1>3. /\ inbox' \in [Nodes -> SUBSET Messages]
      /\ \A k \in Nodes : inbox'[k] \subseteq inbox[k]
  BY <1>1 DEF TakeAndPublish, IInv, TypeOK
<1>4. /\ committed' \in [Nodes -> SUBSET Proposals]
      /\ onCommit' \in [Nodes -> [Proposals -> Nat]]
      /\ CommitBacked' /\ OncePerCommit'
  <2>1. precommits[n][p] \cup {v} \in SUBSET Nodes
    BY DEF IInv, TypeOK
  <2> QED BY <1>1, <1>2, <2>1, QuorumSizePositive, CheckPreCommitSafe DEF IInv
<1>5. TypeOK'
  <2>1. precommits' \in [Nodes -> [Proposals -> SUBSET Nodes]]
    BY <1>1 DEF IInv, TypeOK
  <2> QED BY <1>1, <1>3, <1>4, <2>1 DEF IInv, TypeOK
<1>6. \A q \in Proposals : Validators(q)' = Validators(q) /\ Backed(q)' = Backed(q)
  BY <1>1 DEF Validators, Backed, QuorumSize
<1>7. \A k \in Nodes : \A x \in inbox'[k] : x \in inbox[k] /\ x.proposal \in Proposals
  BY <1>3 DEF Messages
<1>8. PrevotesFromValidators'
  BY <1>1, <1>6, <1>7 DEF IInv, PrevotesFromValidators
<1>9. PrecommitsBacked'
  <2>1. \A k \in Nodes, q \in Proposals :
            precommits'[k][q] # {} => precommits[k][q] # {} \/ q = p
    BY <1>1 DEF IInv, TypeOK
  <2> QED BY <1>2, <1>6, <1>7, <2>1 DEF IInv, PrecommitsBacked
<1> QED BY <1>4, <1>5, <1>8, <1>9 DEF IInv

LEMMA NextIInv == IInv /\ [Next]_vars => IInv'
<1> SUFFICES ASSUME IInv, [Next]_vars PROVE IInv'
  OBVIOUS
<1>1. CASE \E p \in Proposals : ProposeMatch(p)
  BY <1>1, ProposeMatchSafe
<1>2. CASE \E n \in Nodes, p \in Proposals : HandleProposal(n, p)
  BY <1>2, HandleProposalSafe
<1>3. CASE \E n \in Nodes : CheckProposal(n)
  BY <1>3, CheckProposalSafe
<1>4. CASE \E n \in Nodes, v \in Nodes, p \in Proposals : HandlePrevote(n, v, p)
  BY <1>4, HandlePrevoteSafe
<1>5. CASE \E n \in Nodes, v \in Nodes, p \in Proposals : HandlePrecommit(n, v, p)
  BY <1>5, HandlePrecommitSafe
<1>6. CASE UNCHANGED vars
  <2>1. TypeOK'
    BY <1>6 DEF vars, IInv, TypeOK
  <2>2. \A q \in Proposals : Validators(q)' = Validators(q) /\ Backed(q)' = Backed(q)
    BY <1>6 DEF vars, Validators, Backed, QuorumSize
  <2>3. \A k \in Nodes : \A x \in inbox[k] : x.proposal \in Proposals
    BY DEF IInv, TypeOK, Messages
  <2>4. PrevotesFromValidators' /\ PrecommitsBacked'
    BY <1>6, <2>2, <2>3 DEF vars, IInv, PrevotesFromValidators, PrecommitsBacked
  <2>5. CommitBacked' /\ OncePerCommit'
    BY <1>6, <2>2 DEF vars, IInv, TypeOK, CommitBacked, OncePerCommit, Backed
  <2> QED BY <2>1, <2>4, <2>5 DEF IInv
<1> QED BY <1>1, <1>2, <1>3, <1>4, <1>5, <1>6 DEF Next

-----------------------------------------------------------------------------
(* Every reachable state of the agreement satisfies the strengthening.      *)
THEOREM Invariance == Spec => []IInv
<1> QED BY InitIInv, NextIInv, PTL DEF Spec

(* The variables of consensus.go keep their types.                          *)
THEOREM TypeCorrect == Spec => []TypeOK
<1>1. IInv => TypeOK
  BY DEF IInv
<1> QED BY <1>1, Invariance, PTL

(* checkPreCommitThresholdLocked commits a proposal only when a quorum of   *)
(* the nodes has validated it, whatever is lost, late or overtaken.         *)
THEOREM CommittedIsBacked == Spec => []CommitBacked
<1>1. IInv => CommitBacked
  BY DEF IInv
<1> QED BY <1>1, Invariance, PTL

(* No node calls onCommit twice for one proposal.                           *)
THEOREM CommitsOnce == Spec => []CommitOnce
<1>1. IInv => CommitOnce
  BY DEF IInv, OncePerCommit, CommitOnce
<1> QED BY <1>1, Invariance, PTL
=============================================================================
