------------------------------ MODULE RewardPage ------------------------------
(***************************************************************************)
(* Claims: the three cards of the contribution tab over the contracts they *)
(* claim from. "unified" is components/UnifiedRewardClaim.tsx (claims of   *)
(* contribution rewards and of fees, one by one or all), "board" is        *)
(* ContributionSection.tsx (rewards, for any address that is typed), and   *)
(* components/MerkleAirdropClaim.tsx claims an airdrop (all frontend/src). *)
(* They know nothing of each other and share the account, which others     *)
(* share the contracts with: ContributorReward.sol, FeeDistributor.sol,    *)
(* MerkleDistributor.sol.                                                  *)
(*                                                                         *)
(* One period and one token; scores are not weighted by reputation and the *)
(* reserve is not changed. What the airdrop form is filled in with is      *)
(* right.                                                                  *)
(***************************************************************************)
EXTENDS Integers, Sequences, FiniteSets

CONSTANTS
    Me, Peer, Idle,
    FirstList, Lists,      \* the recipient lists that owners set: [Claimants -> shareBps]
    Scores, FirstScore,    \* bound: scores that proofs come to, and those at the start
    ReserveBps,            \* the part of a reward pot that is held back
    FeeIn, RewardIn,       \* bound: what is paid into the pots at a time
    OtherPeriods,          \* what the reward contract holds for other periods
    Word,                  \* 2^256
    MaxCalls, MaxBusy      \* bounds: transactions, page fetches and airdrop calls at a time

Claimants == {Me, Peer}
Items == {"fee", "reward"}
Claim == [items : Seq(Items), at : {"send", "read"}]
TotalBps(list) == list[Me] + list[Peer]

(* Shares are of what all recipients of a list have together.                *)
RewardAssumption ==
    /\ FirstList \in Lists /\ Me # Peer /\ Idle \notin Claim
    /\ \A l \in Lists : l \in [Claimants -> Nat] /\ TotalBps(l) \in 1 .. 10000
    /\ Scores \subseteq Nat /\ FirstScore \in [Claimants -> Nat]
    /\ ReserveBps \in 0 .. 5000 /\ {FeeIn, RewardIn, OtherPeriods} \subseteq Nat
    /\ Word \in Nat \ {0} /\ MaxCalls \in Nat

VARIABLES
    recipients, feePot, feeClaimed,        \* FeeDistributor: recipients, accumulated, claimed
    score, rewardPot, rewardClaimed,       \* ContributorReward
    feeDue, rewardDue,     \* history: the largest share an account has ever had of each
    airdrop,                               \* MerkleDistributor: claimed, tokens sent
    contractCalls,                         \* how many transactions there were
    listed,        \* what a card lists as claimable, and whether it lists anything
    cardLoading,   \* its state loading
    cardRead,      \* its fetches under way: the page's own, and the one of a claim
    cardClaim,     \* its claim, or claims, under way
    boardQuery, boardError,    \* the address typed into the board, its state error
    airCard        \* claimed, checking and claiming of the airdrop card

feeVars == <<recipients, feePot, feeClaimed, feeDue>>
rewardVars == <<score, rewardPot, rewardClaimed, rewardDue>>
contractVars == <<feeVars, rewardVars, airdrop, contractCalls>>
boardVars == <<boardQuery, boardError>>
cardVars == <<listed, cardLoading, cardRead, cardClaim, boardVars>>
vars == <<contractVars, cardVars, airCard>>

Cards == {"unified", "board"}
ReadBy == {"page", "claim"}
Unlisted == [known |-> FALSE, items |-> {}]
NotReading == [at |-> "idle", of |-> Me, items |-> {}]

TypeOK ==
    /\ recipients \in Lists /\ {feePot, rewardPot} \subseteq Nat
    /\ {feeClaimed, feeDue, rewardClaimed, rewardDue} \subseteq [Claimants -> Nat]
    /\ score \in [Claimants -> Nat]
    /\ airdrop \in [claimed : BOOLEAN, sent : Nat]
    /\ contractCalls \in 0 .. MaxCalls
    /\ listed \in [Cards -> [known : BOOLEAN, items : SUBSET Items]]
    /\ cardLoading \in [Cards -> BOOLEAN]
    /\ cardRead \in [Cards \X ReadBy -> [at : {"idle", "asked", "told"}, of : Claimants,
                                         items : SUBSET Items]]
    /\ \A c \in Cards : cardClaim[c] # Idle =>
          /\ cardClaim[c] \in Claim /\ cardClaim[c].items # <<>>
          /\ (cardClaim[c].at = "read") <=> (cardRead[<<c, "claim">>].at # "idle")
    /\ boardQuery \in Claimants /\ boardError \in BOOLEAN
    /\ airCard \in [claimed : {"unknown", "yes", "no"}, checking : BOOLEAN, claiming : BOOLEAN]

-----------------------------------------------------------------------------
(* FeeDistributor.sol: a share of all that ever came in, less what was       *)
(* claimed, in unchecked arithmetic.                                         *)

Paid(claimed) == claimed[Me] + claimed[Peer]

Transaction == contractCalls < MaxCalls /\ contractCalls' = contractCalls + 1

(* What was due at most so far, when the shares become these.                *)
Raised(due, share) == [a \in Claimants |-> IF share[a] > due[a] THEN share[a] ELSE due[a]]

FeeShares(pot, list) == [a \in Claimants |-> (pot * list[a]) \div TotalBps(list)]
FeeClaimable_ForgetsClaims(a) == FeeShares(feePot, recipients)[a]
FeeClaimable(a) ==
    LET share == ((feePot * recipients[a]) % Word) \div TotalBps(recipients)
    IN  IF recipients[a] = 0 THEN 0 ELSE (share - feeClaimed[a]) % Word

ClaimFee_CapsAtBalance(a) ==
    LET balance == feePot - Paid(feeClaimed)
        amount == IF FeeClaimable(a) > balance THEN balance ELSE FeeClaimable(a)
    IN  /\ Transaction
        /\ amount > 0
        /\ feeClaimed' = [feeClaimed EXCEPT ![a] = @ + amount]
        /\ UNCHANGED <<recipients, feePot, feeDue, rewardVars, airdrop>>
ClaimFee(a) ==
    /\ Transaction
    /\ FeeClaimable(a) > 0
    /\ FeeClaimable(a) <= feePot - Paid(feeClaimed)
    /\ feeClaimed' = [feeClaimed EXCEPT ![a] = @ + FeeClaimable(a)]
    /\ UNCHANGED <<recipients, feePot, feeDue, rewardVars, airdrop>>
ReceiveFee ==
    /\ Transaction /\ feePot + FeeIn < Word /\ feePot' = feePot + FeeIn
    /\ feeDue' = Raised(feeDue, FeeShares(feePot + FeeIn, recipients))
    /\ UNCHANGED <<recipients, feeClaimed, rewardVars, airdrop>>
SetRecipients(list) ==
    /\ Transaction /\ recipients' = list
    /\ feeDue' = Raised(feeDue, FeeShares(feePot, list))
    /\ UNCHANGED <<feePot, feeClaimed, rewardVars, airdrop>>

(* ContributorReward.sol: a share by scores of what the reserve leaves of    *)
(* the pot, a tenth of the pot at a time, in checked arithmetic, out of all  *)
(* the contract holds.                                                       *)
RewardShares(pot, scores) ==
    LET distributable == (pot * (10000 - ReserveBps)) \div 10000
    IN  [a \in Claimants |-> IF scores[a] = 0 THEN 0
                             ELSE (distributable * scores[a]) \div (scores[Me] + scores[Peer])]
RewardShare(a) == RewardShares(rewardPot, score)[a]
RewardReverts(a) == RewardShare(a) < rewardClaimed[a] /\ score[a] # 0 /\ rewardPot # 0
RewardClaimable_ForgetsClaims(a) == RewardShare(a)
RewardClaimable(a) == RewardShare(a) - rewardClaimed[a]
RewardAmount(a) ==
    IF RewardClaimable(a) > rewardPot \div 10 THEN rewardPot \div 10 ELSE RewardClaimable(a)

ClaimReward(a) ==
    /\ Transaction
    /\ score[a] > 0 /\ rewardPot > 0 /\ RewardClaimable(a) > 0
    /\ RewardAmount(a) <= OtherPeriods + rewardPot - Paid(rewardClaimed)
    /\ rewardClaimed' = [rewardClaimed EXCEPT ![a] = @ + RewardAmount(a)]
    /\ UNCHANGED <<feeVars, score, rewardPot, rewardDue, airdrop>>
SubmitProof(a, v) ==
    /\ Transaction /\ score' = [score EXCEPT ![a] = v]
    /\ rewardDue' = Raised(rewardDue, RewardShares(rewardPot, [score EXCEPT ![a] = v]))
    /\ UNCHANGED <<feeVars, rewardPot, rewardClaimed, airdrop>>
SetPeriodReward ==
    /\ Transaction /\ rewardPot' = rewardPot + RewardIn
    /\ rewardDue' = Raised(rewardDue, RewardShares(rewardPot + RewardIn, score))
    /\ UNCHANGED <<feeVars, score, rewardClaimed, airdrop>>

(* MerkleDistributor.sol: anybody may claim for the account.                 *)
ClaimAirdrop ==
    /\ Transaction /\ ~airdrop.claimed
    /\ airdrop' = [claimed |-> TRUE, sent |-> airdrop.sent + 1]
    /\ UNCHANGED <<feeVars, rewardVars>>

(* Lists and proofs that change nothing are left out.                        *)
Others ==
    /\ \/ ReceiveFee \/ SetPeriodReward
       \/ \E list \in Lists \ {recipients} : SetRecipients(list)
       \/ \E a \in Claimants : \E v \in Scores \ {score[a]} : SubmitProof(a, v)
       \/ ClaimFee(Peer) \/ ClaimReward(Peer)
    /\ UNCHANGED <<cardVars, airCard>>
OthersAirdrop == ClaimAirdrop /\ UNCHANGED <<cardVars, airCard>>

-----------------------------------------------------------------------------
Init ==
    /\ recipients = FirstList /\ feePot = 0 /\ feeClaimed = [a \in Claimants |-> 0]
    /\ score = FirstScore /\ rewardPot = 0 /\ rewardClaimed = [a \in Claimants |-> 0]
    /\ feeDue = [a \in Claimants |-> 0] /\ rewardDue = [a \in Claimants |-> 0]
    /\ airdrop = [claimed |-> FALSE, sent |-> 0] /\ contractCalls = 0
    /\ listed = [c \in Cards |-> Unlisted] /\ cardLoading = [c \in Cards |-> FALSE]
    /\ cardRead = [r \in Cards \X ReadBy |-> NotReading]
    /\ cardClaim = [c \in Cards |-> Idle]
    /\ boardQuery = Me /\ boardError = FALSE
    /\ airCard = [claimed |-> "unknown", checking |-> FALSE, claiming |-> FALSE]

-----------------------------------------------------------------------------
(* fetchData and fetchAll.                                                   *)

Asking(a) == [NotReading EXCEPT !.at = "asked", !.of = a]

(* Bound: fetches of the page under way, and calls of the airdrop card.      *)
Room == Cardinality({c \in Cards : cardRead[<<c, "page">>].at # "idle"}) < MaxBusy
AirRoom == (IF airCard.checking THEN 1 ELSE 0) + (IF airCard.claiming THEN 1 ELSE 0) < MaxBusy

(* Called by a claim of the card, or by the page: on mount and by buttons.   *)
(* The board empties its list, and forgets its error, before it reads.       *)
StartReading(c, by, a) ==
    /\ cardRead' = [cardRead EXCEPT ![<<c, by>>] = Asking(a)]
    /\ cardLoading' = [cardLoading EXCEPT ![c] = TRUE]
    /\ IF c = "board" THEN listed' = [listed EXCEPT !.board = Unlisted] /\ boardError' = FALSE
       ELSE UNCHANGED <<listed, boardError>>

(* A fetch of the page (bound: one at a time). Who has no rows has no button *)
(* to refresh them, and waits for the card to be opened again.               *)
FetchData(c) ==
    /\ cardRead[<<c, "page">>].at = "idle" /\ ~cardLoading[c] /\ Room
    /\ StartReading(c, "page", IF c = "board" THEN boardQuery ELSE Me)
    /\ UNCHANGED <<contractVars, cardClaim, boardQuery, airCard>>

(* The contracts answer for the state they are in then. One that reverts     *)
(* fails the whole fetch.                                                    *)
Claimable(c, a) ==
    {i \in Items : \/ i = "fee" /\ c = "unified" /\ FeeClaimable(a) > 0
                   \/ i = "reward" /\ RewardClaimable(a) > 0}
Answer(c, by) ==
    /\ cardRead[<<c, by>>].at = "asked" /\ ~RewardReverts(cardRead[<<c, by>>].of)
    /\ cardRead' = [cardRead EXCEPT ![<<c, by>>] =
                     [at |-> "told", of |-> @.of, items |-> Claimable(c, @.of)]]
    /\ UNCHANGED <<contractVars, listed, cardLoading, cardClaim, boardVars, airCard>>

(* The next claim of a claim-all is sent after this one, in one go.          *)
NextClaim(c) ==
    cardClaim' = [cardClaim EXCEPT ![c] =
        IF Len(@.items) = 1 THEN Idle ELSE [items |-> Tail(@.items), at |-> "send"]]
EndReading(c, by) ==
    /\ cardRead' = [cardRead EXCEPT ![<<c, by>>] = NotReading]
    /\ cardLoading' = [cardLoading EXCEPT ![c] = FALSE]
    /\ IF by = "claim" THEN NextClaim(c) ELSE UNCHANGED cardClaim
    /\ UNCHANGED <<contractVars, boardQuery, airCard>>

(* Whichever of two fetches ends last is what the card lists.                *)
Show(c, by) ==
    /\ cardRead[<<c, by>>].at = "told"
    /\ listed' = [listed EXCEPT ![c] = [known |-> TRUE, items |-> cardRead[<<c, by>>].items]]
    /\ EndReading(c, by)
    /\ UNCHANGED boardError
FetchFails(c, by) ==
    /\ cardRead[<<c, by>>].at = "asked"
    /\ IF c = "board" THEN boardError' = TRUE /\ UNCHANGED listed
       ELSE listed' = [listed EXCEPT !.unified = Unlisted] /\ UNCHANGED boardError
    /\ EndReading(c, by)

QueryAddress(a) ==
    /\ boardQuery' = a
    /\ UNCHANGED <<contractVars, listed, cardLoading, cardRead, cardClaim, boardError, airCard>>

-----------------------------------------------------------------------------
(* Claims.                                                                   *)

StartClaims(c, items) ==
    /\ cardClaim[c] = Idle
    /\ cardClaim' = [cardClaim EXCEPT ![c] = [items |-> items, at |-> "send"]]
    /\ UNCHANGED <<contractVars, listed, cardLoading, cardRead, boardQuery, airCard>>

HandleClaim ==
    \E i \in listed.unified.items : StartClaims("unified", <<i>>) /\ UNCHANGED boardError
(* Fees first. What is claimed is fixed by what was listed at the click.     *)
HandleClaimAll ==
    /\ listed.unified.items = Items
    /\ StartClaims("unified", <<"fee", "reward">>) /\ UNCHANGED boardError
(* The address typed decides whether the board's list is the account's own.  *)
BoardClaim ==
    /\ listed.board.items # {} /\ ~boardError /\ boardQuery = Me
    /\ StartClaims("board", <<"reward">>) /\ boardError' = FALSE

ClaimMined(c) ==
    /\ cardClaim[c] # Idle /\ cardClaim[c].at = "send"
    /\ IF Head(cardClaim[c].items) = "fee" THEN ClaimFee(Me) ELSE ClaimReward(Me)
    /\ cardClaim' = [cardClaim EXCEPT ![c] = [@ EXCEPT !.at = "read"]]
    /\ StartReading(c, "claim", Me)
    /\ UNCHANGED <<boardQuery, airCard>>

(* Refused or reverted: the error is shown and the next claim goes on.       *)
ClaimFails_Retries(c) ==
    /\ cardClaim[c] # Idle /\ cardClaim[c].at = "send"
    /\ boardError' = (c = "board" \/ boardError)
    /\ UNCHANGED <<contractVars, listed, cardLoading, cardRead, cardClaim, boardQuery, airCard>>
ClaimFails(c) ==
    /\ cardClaim[c] # Idle /\ cardClaim[c].at = "send"
    /\ boardError' = (c = "board" \/ boardError)
    /\ NextClaim(c)
    /\ UNCHANGED <<contractVars, listed, cardLoading, cardRead, boardQuery, airCard>>

Continue(c, by) ==
    \/ Answer(c, by) \/ Show(c, by) \/ FetchFails(c, by)
    \/ by = "claim" /\ (ClaimMined(c) \/ ClaimFails(c))

-----------------------------------------------------------------------------
(* The airdrop card: checked first, claimed when the check said no.          *)

CheckClaimed ==
    /\ ~airCard.checking /\ AirRoom /\ airCard' = [airCard EXCEPT !.checking = TRUE]
    /\ UNCHANGED <<contractVars, cardVars>>
ClaimedChecked ==
    /\ airCard.checking
    /\ \E seen \in {IF airdrop.claimed THEN "yes" ELSE "no", "unknown"} :
          airCard' = [airCard EXCEPT !.checking = FALSE, !.claimed = seen]
    /\ UNCHANGED <<contractVars, cardVars>>
ClaimButton == airCard.claimed = "no" /\ ~airCard.claiming
DoClaim ==
    /\ ClaimButton /\ AirRoom
    /\ airCard' = [airCard EXCEPT !.claiming = TRUE]
    /\ UNCHANGED <<contractVars, cardVars>>
AirdropMined ==
    /\ airCard.claiming /\ ClaimAirdrop
    /\ airCard' = [airCard EXCEPT !.claiming = FALSE, !.claimed = "yes"]
    /\ UNCHANGED cardVars
AirdropFails ==
    /\ airCard.claiming
    /\ airCard' = [airCard EXCEPT !.claiming = FALSE]
    /\ UNCHANGED <<contractVars, cardVars>>
ContinueAirdrop == ClaimedChecked \/ AirdropMined \/ AirdropFails

(* The two claim cards, and the airdrop card, which shares nothing with them *)
(* but the account.                                                          *)
CardsNext ==
    \/ Others
    \/ \E c \in Cards : FetchData(c)
    \/ \E a \in Claimants : QueryAddress(a)
    \/ HandleClaim \/ HandleClaimAll \/ BoardClaim
    \/ \E c \in Cards, by \in ReadBy : Continue(c, by)
AirdropNext == OthersAirdrop \/ CheckClaimed \/ DoClaim \/ ContinueAirdrop

Next == CardsNext \/ AirdropNext

Spec == Init /\ [][Next]_vars

-----------------------------------------------------------------------------
(* No account gets more out of the fees, nor out of a period's rewards, than *)
(* the largest share it ever had of them, and an airdrop is sent once:       *)
(* whichever cards claim it, in a row or side by side, whoever else claims,  *)
(* and however shares and scores move between what a card read and what it   *)
(* claims, or between two claims.                                            *)
ClaimedOnce ==
    /\ \A a \in Claimants : feeClaimed[a] <= feeDue[a] /\ rewardClaimed[a] <= rewardDue[a]
    /\ airdrop.sent = (IF airdrop.claimed THEN 1 ELSE 0)
================================================================================
