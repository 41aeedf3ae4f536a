---------------------------- MODULE GovernancePage ----------------------------
(***************************************************************************)
(* Proposals, votes and execution: the governance page                     *)
(* (frontend/src/GovernanceSection.tsx) and the contract it reads and      *)
(* writes (contracts/src/Governance.sol).                                  *)
(*                                                                         *)
(* A proposal sets a fee; its merkleRoot stands for the set of addresses   *)
(* that have a proof. The contract is used by others too. A call of the    *)
(* page takes effect when its transaction is mined and ends after it has   *)
(* read the proposals again, one request after the other.                  *)
(***************************************************************************)
EXTENDS Naturals, Sequences, FiniteSets

CONSTANTS
    Accounts, Me, NoOne,
    Delegators,      \* bound: the accounts that may delegate their vote
    ActiveSets,      \* the sets that roots are made of
    Counts,          \* bound: values of activeCount that proposers give
    VotingPeriod, TimelockDelay, CooldownPeriod,
    MaxProposals, MaxTime, MaxBusy, Idle    \* bounds

(* The page is one account's, and a proposal counts somebody as active.      *)
GovernanceAssumption ==
    /\ Me \in Accounts /\ NoOne \notin Accounts
    /\ ActiveSets \subseteq SUBSET Accounts /\ Counts \subseteq Nat \ {0}
    /\ {VotingPeriod, TimelockDelay, CooldownPeriod, MaxProposals} \subseteq Nat
    /\ MaxTime \in Nat \ {0}

VARIABLES
    proposals,      \* the contract's proposals, by id from 1
    ballots,        \* per proposal: hasVoted, with what each voter said
    delegates,      \* delegates
    lastExecuted,   \* lastExecutedAt of the one call proposed, 0 for never
    govClock,
    govRows,           \* state proposals of the page
    govLoading,     \* state loading
    reading,        \* fetchProposals under way, by who called it
    govCall         \* handleVote, handleExecute, handleCreate under way

chainVars == <<proposals, ballots, delegates, lastExecuted, govClock>>
pageVars == <<govRows, govLoading, reading, govCall>>
vars == <<chainVars, pageVars>>

Kinds == {"vote", "execute", "create"}
Proposal == [active : ActiveSets, activeCount : Counts, votingEndsAt : 0 .. MaxTime + VotingPeriod,
             executableAt : Nat, yes : Nat, no : Nat, executed : BOOLEAN]
Row == [id : 1 .. MaxProposals, executed : BOOLEAN]

TypeOK ==
    /\ proposals \in Seq(Proposal) /\ Len(proposals) <= MaxProposals
    /\ ballots \in Seq(SUBSET [voter : Accounts, support : BOOLEAN])
    /\ Len(ballots) = Len(proposals)
    /\ delegates \in [Accounts -> Accounts \cup {NoOne}]
    /\ lastExecuted \in 0 .. MaxTime /\ govClock \in 1 .. MaxTime
    /\ govRows \in Seq(Row) /\ govLoading \in BOOLEAN
    /\ \A by \in DOMAIN reading :
          reading[by] # Idle => /\ reading[by].upTo \in 0 .. Len(proposals)
                                /\ reading[by].next \in 1 .. reading[by].upTo + 1
                                /\ reading[by].list \in Seq(Row)
    /\ \A k \in Kinds : govCall[k] # Idle => govCall[k].at \in {"send", "read"}

-----------------------------------------------------------------------------
(* Governance.sol.                                                           *)

Voter(sender) == IF delegates[sender] # NoOne THEN delegates[sender] ELSE sender
HasVoted(id, v) == \E b \in ballots[id] : b.voter = v
Passed(yes, count) == yes > count \div 2

CreateProposal(active, count) ==
    /\ Len(proposals) < MaxProposals /\ govClock <= MaxTime
    /\ lastExecuted = 0 \/ govClock >= lastExecuted + CooldownPeriod
    /\ proposals' = Append(proposals,
           [active |-> active, activeCount |-> count, yes |-> 0, no |-> 0, executed |-> FALSE,
            votingEndsAt |-> govClock + VotingPeriod,
            executableAt |-> govClock + VotingPeriod + TimelockDelay])
    /\ ballots' = Append(ballots, {})
    /\ UNCHANGED <<delegates, lastExecuted, govClock>>

(* Whoever sends it, the vote is that of the sender's delegate.              *)
Vote_ChecksSender(sender, id, support) ==
    /\ id \in DOMAIN proposals /\ govClock < proposals[id].votingEndsAt
    /\ ~HasVoted(id, sender) /\ Voter(sender) \in proposals[id].active
    /\ ballots' = [ballots EXCEPT ![id] = @ \cup {[voter |-> Voter(sender), support |-> support]}]
    /\ proposals' = IF support THEN [proposals EXCEPT ![id].yes = @ + 1]
                    ELSE [proposals EXCEPT ![id].no = @ + 1]
    /\ UNCHANGED <<delegates, lastExecuted, govClock>>
Vote(sender, id, support) ==
    /\ id \in DOMAIN proposals /\ govClock < proposals[id].votingEndsAt
    /\ ~HasVoted(id, Voter(sender)) /\ Voter(sender) \in proposals[id].active
    /\ ballots' = [ballots EXCEPT ![id] = @ \cup {[voter |-> Voter(sender), support |-> support]}]
    /\ proposals' = IF support THEN [proposals EXCEPT ![id].yes = @ + 1]
                    ELSE [proposals EXCEPT ![id].no = @ + 1]
    /\ UNCHANGED <<delegates, lastExecuted, govClock>>

SetDelegate(a, d) ==
    /\ d # a /\ delegates' = [delegates EXCEPT ![a] = d]
    /\ UNCHANGED <<proposals, ballots, lastExecuted, govClock>>

(* The call of the target may fail, and then nothing has happened.           *)
Execute(id) ==
    /\ id \in DOMAIN proposals
    /\ LET p == proposals[id] IN
       /\ govClock >= p.votingEndsAt /\ govClock >= p.executableAt
       /\ ~p.executed /\ Passed(p.yes, p.activeCount)
    /\ proposals' = [proposals EXCEPT ![id].executed = TRUE]
    /\ lastExecuted' = govClock
    /\ UNCHANGED <<ballots, delegates, govClock>>

(* What anybody may do without the page.                                     *)
Others ==
    /\ \/ \E s \in ActiveSets, n \in Counts : CreateProposal(s, n)
       \/ \E a \in Accounts, id \in DOMAIN proposals, yes \in BOOLEAN : Vote(a, id, yes)
       \/ \E a \in Delegators, d \in Accounts \cup {NoOne} : SetDelegate(a, d)
       \/ \E id \in DOMAIN proposals : Execute(id)
    /\ UNCHANGED pageVars

GovTick ==
    /\ govClock < MaxTime /\ govClock' = govClock + 1
    /\ UNCHANGED <<proposals, ballots, delegates, lastExecuted, pageVars>>

-----------------------------------------------------------------------------
(* fetchProposals: the count, then one getProposal after the other.          *)

Init ==
    /\ proposals = <<>> /\ ballots = <<>> /\ lastExecuted = 0 /\ govClock = 1
    /\ delegates = [a \in Accounts |-> NoOne]
    /\ govRows = <<>> /\ govLoading = TRUE
    /\ reading = [by \in Kinds \cup {"page"} |->
                    IF by = "page" THEN [upTo |-> 0, next |-> 1, list |-> <<>>] ELSE Idle]
    /\ govCall = [k \in Kinds |-> Idle]

(* Bound: calls and refreshes of the page under way.                         *)
Room == Cardinality({k \in Kinds : govCall[k] # Idle})
        + (IF reading["page"] = Idle THEN 0 ELSE 1) < MaxBusy

StartReading == [upTo |-> Len(proposals), next |-> 1, list |-> <<>>]

(* On mount, every thirty seconds, or by the button, which waits for loading *)
(* (bound: one at a time).                                                   *)
FetchProposals ==
    /\ reading["page"] = Idle /\ Room
    /\ reading' = [reading EXCEPT !["page"] = StartReading] /\ govLoading' = TRUE
    /\ UNCHANGED <<chainVars, govRows, govCall>>

(* The ABI of the page has eight values and the contract returns nine: what  *)
(* it takes for executed is executableAt, and true when that is not 0.       *)
Shown(id) ==
    [id |-> id, executed |-> proposals[id].executableAt # 0]

(* A proposal that cannot be read is skipped and the next take its row.      *)
GetProposal(by) ==
    /\ reading[by] # Idle /\ reading[by].next <= reading[by].upTo
    /\ \E l \in {Append(reading[by].list, Shown(reading[by].next)), reading[by].list} :
          reading' = [reading EXCEPT ![by] =
                         [upTo |-> reading[by].upTo, next |-> reading[by].next + 1, list |-> l]]
    /\ UNCHANGED <<chainVars, govRows, govLoading, govCall>>

(* The last of several to end wins, and the first ends the loading of all.   *)
ReadingDone(by) ==
    /\ reading[by] # Idle /\ reading[by].next > reading[by].upTo
    /\ govRows' = reading[by].list /\ govLoading' = FALSE
    /\ reading' = [reading EXCEPT ![by] = Idle]
    /\ govCall' = IF by \in Kinds THEN [govCall EXCEPT ![by] = Idle] ELSE govCall
    /\ UNCHANGED chainVars

(* proposalCount fails.                                                      *)
ReadingFails(by) ==
    /\ reading[by] # Idle /\ reading[by].next = 1
    /\ govLoading' = FALSE
    /\ reading' = [reading EXCEPT ![by] = Idle]
    /\ govCall' = IF by \in Kinds THEN [govCall EXCEPT ![by] = Idle] ELSE govCall
    /\ UNCHANGED <<chainVars, govRows>>

-----------------------------------------------------------------------------
(* The buttons. Each handler has its flag, which disables its buttons.       *)

Start(k, id, support) ==
    /\ govCall[k] = Idle /\ Room
    /\ govCall' = [govCall EXCEPT ![k] = [at |-> "send", id |-> id, support |-> support]]
    /\ UNCHANGED <<chainVars, govRows, govLoading, reading>>

(* A row offers a vote while its proposal is voted on, and votes on the      *)
(* proposal that has the row's number.                                       *)
IsVoting(row) == proposals[row.id].votingEndsAt > govClock
VoteInRow ==
    /\ ~govLoading
    /\ \E i \in DOMAIN govRows, support \in BOOLEAN :
          IsVoting(govRows[i]) /\ Start("vote", i, support)
VoteByNumber == \E id \in 1 .. MaxProposals, support \in BOOLEAN : Start("vote", id, support)
HandleExecute == \E id \in 1 .. MaxProposals : Start("execute", id, TRUE)
HandleCreate == Start("create", 0, TRUE)

(* Sent and mined: what the contract does with the call of this account.     *)
Mined(k, c) ==
    \/ k = "vote" /\ Vote(Me, c.id, c.support)
    \/ k = "execute" /\ Execute(c.id)
    \/ k = "create" /\ \E s \in ActiveSets, n \in Counts : CreateProposal(s, n)

CallMined(k) ==
    /\ govCall[k] # Idle /\ govCall[k].at = "send"
    /\ Mined(k, govCall[k])
    /\ govCall' = [govCall EXCEPT ![k].at = "read"]
    /\ govLoading' = TRUE
    /\ reading' = [reading EXCEPT ![k] = StartReading']
    /\ UNCHANGED govRows

(* Refused by the wallet, or reverted.                                       *)
CallFails_StaysBusy(k) ==
    /\ govCall[k] # Idle /\ govCall[k].at = "send"
    /\ govCall' = [govCall EXCEPT ![k].at = "read"]
    /\ UNCHANGED <<chainVars, govRows, govLoading, reading>>
CallFails(k) ==
    /\ govCall[k] # Idle /\ govCall[k].at = "send"
    /\ govCall' = [govCall EXCEPT ![k] = Idle]
    /\ UNCHANGED <<chainVars, govRows, govLoading, reading>>

Continue(k) ==
    \/ GetProposal(k) \/ ReadingDone(k) \/ ReadingFails(k)
    \/ k \in Kinds /\ (CallMined(k) \/ CallFails(k))

Next ==
    \/ Others \/ GovTick \/ FetchProposals
    \/ VoteInRow \/ VoteByNumber \/ HandleExecute \/ HandleCreate
    \/ \E k \in Kinds \cup {"page"} : Continue(k)

Spec == Init /\ [][Next]_vars

-----------------------------------------------------------------------------
Saying(id, support) == {b \in ballots[id] : b.support = support}

(* The counters of a proposal are its ballots: each cast for an address of   *)
(* the active set, none for the same address twice, however votes by         *)
(* delegators, changes of delegates and the delegate's own vote interleave;  *)
(* and what was executed has a majority of distinct addresses behind it.     *)
CountsAreBallots ==
    \A id \in DOMAIN proposals :
        /\ proposals[id].yes = Cardinality(Saying(id, TRUE))
        /\ proposals[id].no = Cardinality(Saying(id, FALSE))
        /\ \A b \in ballots[id] : b.voter \in proposals[id].active
        /\ \A b, c \in ballots[id] : b.voter = c.voter => b = c
        /\ proposals[id].executed =>
              Passed(Cardinality({b.voter : b \in Saying(id, TRUE)}), proposals[id].activeCount)
================================================================================
