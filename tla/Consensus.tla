------------------------------ MODULE Consensus ------------------------------
(****************************************************************************)
(* The BFT-style agreement on match proposals                               *)
(* (node/internal/match/consensus.go): the leader proposes, every node      *)
(* prevotes for a valid proposal, precommits when it has counted a quorum   *)
(* of prevotes, and commits when it has counted a quorum of precommits.     *)
(*                                                                          *)
(* A node handles proposals in one goroutine and votes in others. A handler *)
(* runs under the engine's mutex, except that HandleProposal gives it up    *)
(* between registering the proposal and counting its votes. Messages are    *)
(* gossip: each reaches each node at most once and in any order; one that   *)
(* is never handled is one that was lost. A node may be down.               *)
(****************************************************************************)
EXTENDS Integers, FiniteSets

CONSTANTS
    Nodes,        \* ConsensusEngine.nodes, the same list everywhere
    Leader,       \* nodes[0]: Start elects it, and nothing elects again
    Down,         \* nodes of the list that do not run
    Proposals,    \* proposal identifiers
    NoProposal

ASSUME NodesAssumption == IsFiniteSet(Nodes) /\ Down \subseteq Nodes /\ Leader \in Nodes \ Down
ASSUME NoProposalAssumption == NoProposal \notin Proposals

VARIABLES
    known,        \* c.proposals: node -> proposals with a state
    prevotes,     \* c.prevotes: node -> proposal -> voters counted
    precommits,   \* c.precommits: node -> proposal -> voters counted
    committed,    \* ProposalState.Committed: node -> proposals
    onCommit,     \* node -> proposal -> calls of the onCommit callback
    checking,     \* the proposal HandleProposal still has to count votes for
    inbox,        \* node -> messages on their way to it
    proposed,     \* proposals the leader has made
    received      \* history: node -> proposal -> voters whose prevote it handled

vars == <<known, prevotes, precommits, committed, onCommit, checking, inbox, proposed,
          received>>

Propose(p)      == [type |-> "propose", proposal |-> p, from |-> Leader]
Prevote(n, p)   == [type |-> "prevote", proposal |-> p, from |-> n]
Precommit_Mistyped(n, p) == [type |-> "commit", proposal |-> p, from |-> n]
Precommit(n, p) == [type |-> "precommit", proposal |-> p, from |-> n]

Messages == [type : {"propose", "prevote", "precommit"}, proposal : Proposals, from : Nodes]

(* quorumSize: 2f+1 of the f faulty nodes that a list of this size allows.  *)
QuorumSize == 2 * ((Cardinality(Nodes) - 1) \div 3) + 1

TypeOK ==
    /\ known \in [Nodes -> SUBSET Proposals]
    /\ prevotes \in [Nodes -> [Proposals -> SUBSET Nodes]]
    /\ precommits \in [Nodes -> [Proposals -> SUBSET Nodes]]
    /\ committed \in [Nodes -> SUBSET Proposals]
    /\ onCommit \in [Nodes -> [Proposals -> Nat]]
    /\ checking \in [Nodes -> Proposals \cup {NoProposal}]
    /\ inbox \in [Nodes -> SUBSET Messages]
    /\ proposed \subseteq Proposals
    /\ received \in [Nodes -> [Proposals -> SUBSET Nodes]]

Init ==
    /\ known = [n \in Nodes |-> {}]
    /\ prevotes = [n \in Nodes |-> [p \in Proposals |-> {}]]
    /\ precommits = [n \in Nodes |-> [p \in Proposals |-> {}]]
    /\ committed = [n \in Nodes |-> {}]
    /\ onCommit = [n \in Nodes |-> [p \in Proposals |-> 0]]
    /\ checking = [n \in Nodes |-> NoProposal]
    /\ inbox = [n \in Nodes |-> {}]
    /\ proposed = {}
    /\ received = [n \in Nodes |-> [p \in Proposals |-> {}]]

(* n takes m from its inbox and publishes the messages out, to itself too.  *)
TakeAndPublish(n, m, out) ==
    inbox' = [k \in Nodes |->
        IF k \in Down THEN {} ELSE (IF k = n THEN inbox[k] \ {m} ELSE inbox[k]) \cup out]

-----------------------------------------------------------------------------
ProposeMatch(p) ==
    /\ p \notin proposed
    /\ proposed' = proposed \cup {p}
    /\ known' = [known EXCEPT ![Leader] = @ \cup {p}]
    /\ prevotes' = [prevotes EXCEPT ![Leader][p] = {}]
    /\ precommits' = [precommits EXCEPT ![Leader][p] = {}]
    /\ TakeAndPublish(Leader, NoProposal, {Propose(p)})
    /\ UNCHANGED <<committed, onCommit, checking, received>>

(* HandleProposal up to its first unlock. A proposal seen for the first     *)
(* time starts with empty vote maps, also when votes came before it.        *)
HandleProposal(n, p) ==
    /\ Propose(p) \in inbox[n] /\ checking[n] = NoProposal
    /\ known' = [known EXCEPT ![n] = @ \cup {p}]
    /\ prevotes' = [prevotes EXCEPT ![n][p] = IF p \in known[n] THEN @ \cup {n} ELSE {n}]
    /\ precommits' = [precommits EXCEPT ![n][p] = IF p \in known[n] THEN @ ELSE {}]
    /\ checking' = [checking EXCEPT ![n] = p]
    /\ TakeAndPublish(n, Propose(p), {Prevote(n, p)})
    /\ received' = [received EXCEPT ![n][p] = @ \cup {n}]
    /\ UNCHANGED <<committed, onCommit, proposed>>

(* checkPreCommitThresholdLocked, with voters as n's precommits for p.      *)
CheckPreCommit_Again(n, p, voters) ==
    IF Cardinality(voters) >= QuorumSize /\ p \in known[n]
    THEN /\ committed' = [committed EXCEPT ![n] = @ \cup {p}]
         /\ onCommit' = [onCommit EXCEPT ![n][p] = @ + 1]
    ELSE UNCHANGED <<committed, onCommit>>

CheckPreCommit(n, p, voters) ==
    IF Cardinality(voters) >= QuorumSize /\ p \in known[n] /\ p \notin committed[n]
    THEN /\ committed' = [committed EXCEPT ![n] = @ \cup {p}]
         /\ onCommit' = [onCommit EXCEPT ![n][p] = @ + 1]
    ELSE UNCHANGED <<committed, onCommit>>

(* checkPreVoteThresholdLocked after message m, with voters as n's prevotes *)
(* for p: every time the quorum is there, the precommit is sent (again).    *)
CheckPreVote_FirstVote(n, p, voters, m) ==
    /\ precommits' = [precommits EXCEPT ![n][p] = @ \cup {n}]
    /\ TakeAndPublish(n, m, {Precommit(n, p)})
    /\ CheckPreCommit(n, p, precommits[n][p] \cup {n})

CheckPreVote(n, p, voters, m) ==
    IF Cardinality(voters) >= QuorumSize
    THEN /\ precommits' = [precommits EXCEPT ![n][p] = @ \cup {n}]
         /\ TakeAndPublish(n, m, {Precommit(n, p)})
         /\ CheckPreCommit(n, p, precommits[n][p] \cup {n})
    ELSE /\ TakeAndPublish(n, m, {})
         /\ UNCHANGED <<precommits, committed, onCommit>>

(* The rest of HandleProposal. The proposal message is gone already.        *)
CheckProposal(n) ==
    /\ checking[n] # NoProposal
    /\ CheckPreVote(n, checking[n], prevotes[n][checking[n]], NoProposal)
    /\ checking' = [checking EXCEPT ![n] = NoProposal]
    /\ UNCHANGED <<known, prevotes, proposed, received>>

HandlePrevote(n, v, p) ==
    /\ Prevote(v, p) \in inbox[n]
    /\ prevotes' = [prevotes EXCEPT ![n][p] = @ \cup {v}]
    /\ CheckPreVote(n, p, prevotes[n][p] \cup {v}, Prevote(v, p))
    /\ received' = [received EXCEPT ![n][p] = @ \cup {v}]
    /\ UNCHANGED <<known, checking, proposed>>

HandlePrecommit(n, v, p) ==
    /\ Precommit(v, p) \in inbox[n]
    /\ precommits' = [precommits EXCEPT ![n][p] = @ \cup {v}]
    /\ CheckPreCommit(n, p, precommits[n][p] \cup {v})
    /\ TakeAndPublish(n, Precommit(v, p), {})
    /\ UNCHANGED <<known, prevotes, checking, proposed, received>>

Next ==
    \/ \E p \in Proposals : ProposeMatch(p)
    \/ \E n \in Nodes \ Down :
        \/ \E p \in Proposals : HandleProposal(n, p)
        \/ CheckProposal(n)
        \/ \E v \in Nodes, p \in Proposals : HandlePrevote(n, v, p) \/ HandlePrecommit(n, v, p)

Spec == Init /\ [][Next]_vars

-----------------------------------------------------------------------------
(* A node calls onCommit at most once for a proposal, however many          *)
(* precommits come in after the quorum and however often they are repeated. *)
CommitOnce == \A n \in Nodes, p \in Proposals : onCommit[n][p] <= 1

(* A proposal is committed anywhere only when a quorum of nodes has         *)
(* validated it: a quorum of precommits needs one node that has counted a   *)
(* quorum of prevotes, and only a node that has handled the proposal casts  *)
(* a prevote for it. Losses, overtaking messages and the resets of the vote *)
(* maps do not change that.                                                 *)
Validators(p) == {n \in Nodes : p \in known[n]}

CommitBacked ==
    \A n \in Nodes : \A p \in committed[n] : Cardinality(Validators(p)) >= QuorumSize

-----------------------------------------------------------------------------
(* "Threshold reached, send the precommit", consensus.go:283: a node that   *)
(* has handled the proposal and prevotes of a quorum has precommitted.      *)
ThresholdPrecommits ==
    \A n \in Nodes, p \in Proposals :
        /\ p \in known[n] /\ checking[n] = NoProposal
        /\ Cardinality(received[n][p]) >= QuorumSize
        => n \in precommits[n][p]
=============================================================================
