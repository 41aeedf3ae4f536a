------------------------------ MODULE BridgePage ------------------------------
(***************************************************************************)
(* A cross-chain transfer from the form to the other chain: the page       *)
(* (frontend/src/components/CrossChainBridge.tsx) and the two bridge       *)
(* contracts it moves tokens between (contracts/src/CrossChainBridge.sol). *)
(*                                                                         *)
(* One account, one token, one bridge contract per chain. The layer below  *)
(* the contracts is external: it quotes a fee or fails to, and delivers a  *)
(* message never, late, or more than once. Handlers interleave at their    *)
(* awaits, and those of a page that was left go on behind its successor.   *)
(* The estimate on display is left out: a transfer makes its own.          *)
(***************************************************************************)
EXTENDS Naturals, Functions, FiniteSets

CONSTANTS
    Targets, NoTarget,
    Eid,            \* LAYERZERO_EIDS: 0 for a chain the table leaves out
    Mapped,         \* the EIDs whose tokenMapping the owner has set
    BridgeFee,      \* bridgeFees[token]
    Funds, Pool,    \* the account's tokens here, the contract's tokens there
    Typed,          \* bound: amounts the user types
    Expiry,         \* the five minutes after which a request is refused
    MaxClock, MaxSent, MaxMounts    \* bounds

(* The table of EIDs, and amounts.                                           *)
BridgeAssumption ==
    /\ Eid \in [Targets -> Nat] /\ NoTarget \notin Targets /\ 0 \notin Mapped
    /\ {BridgeFee, Funds, Pool, Expiry} \subseteq Nat /\ Typed \subseteq Nat
    /\ {MaxClock, MaxSent} \subseteq Nat /\ MaxMounts \in Nat \ {0}

VARIABLES
    bridgeMount,    \* how often the page has been opened
    bridgeForm,     \* targetChainId and amount
    bridgeLoading,  \* loading
    bridgeBalance,  \* the balance shown
    bridgeStatus,   \* lastRequestId and the status shown for it
    bridgeCalls,    \* handleBridge calls under way
    wallet, bridgeAllowance, locked,    \* this chain's token
    requests,       \* this chain's contract: requests made
    processed,      \* the other chain's contract: requests it has processed
    released,       \* tokens it has handed out
    bridgeClock

bridgePage == <<bridgeMount, bridgeForm, bridgeLoading, bridgeBalance, bridgeStatus>>
bridgeChain == <<wallet, bridgeAllowance, locked, requests>>
otherChain == <<processed, released>>
vars == <<bridgePage, bridgeCalls, bridgeChain, otherChain, bridgeClock>>

NoRequest == 0
Form == [target : Targets \cup {NoTarget}, amount : Nat]
Request == [id : 1 .. MaxSent, amount : Nat, eid : Mapped, time : 0 .. MaxClock]

TypeOK ==
    /\ bridgeMount \in 1 .. MaxMounts /\ bridgeForm \in Form /\ bridgeLoading \in BOOLEAN
    /\ bridgeBalance \in Nat
    /\ bridgeStatus \in [id : 0 .. MaxSent, shown : {"", "sent", "pending"}]
    /\ bridgeCalls \subseteq
          [mount : 1 .. bridgeMount, form : Form, fee : BOOLEAN,
           at : {"allowance", "approve", "fee", "send", "wait", "balance"}]
    /\ wallet \in 0 .. Funds /\ locked \in 0 .. Funds /\ bridgeAllowance \in Nat
    /\ requests \subseteq Request /\ processed \subseteq requests /\ released \in 0 .. Pool
    /\ bridgeClock \in 0 .. MaxClock

-----------------------------------------------------------------------------
(* formatTokenAmount keeps six decimals of the token's eighteen, rounded:    *)
(* amounts count half a unit of the last decimal shown.                      *)
FormatTokenAmount(v) == 2 * ((v + 1) \div 2)

(* CrossChainBridge.sol on this chain. The id is a digest of everything that *)
(* tells requests apart; requests of one account are numbered instead.       *)
BridgeTokenAccepts(amount, eid) ==
    /\ amount > BridgeFee /\ eid \in Mapped
    /\ amount <= wallet /\ amount <= bridgeAllowance

RequestFor_Gross(amount, eid) ==
    [id |-> Cardinality(requests) + 1, amount |-> amount, eid |-> eid, time |-> bridgeClock]
RequestFor(amount, eid) ==
    [id |-> Cardinality(requests) + 1, amount |-> amount - BridgeFee, eid |-> eid,
     time |-> bridgeClock]

BridgeToken(amount, eid) ==
    /\ BridgeTokenAccepts(amount, eid)
    /\ wallet' = wallet - amount
    /\ bridgeAllowance' = bridgeAllowance - amount
    /\ locked' = locked + amount
    /\ requests' = requests \cup {RequestFor(amount, eid)}

(* _lzReceive on the other chain: once per request, not after it expired,    *)
(* and only while the contract has the tokens. A revert leaves no trace.     *)
LzReceive_NoReplayCheck(r) ==
    /\ r \in requests
    /\ bridgeClock - r.time <= Expiry
    /\ r.amount > 0 /\ released + r.amount <= Pool
    /\ processed' = processed \cup {r}
    /\ released' = released + r.amount
    /\ UNCHANGED <<bridgePage, bridgeCalls, bridgeChain, bridgeClock>>
LzReceive(r) ==
    /\ r \in requests \ processed
    /\ bridgeClock - r.time <= Expiry
    /\ r.amount > 0 /\ released + r.amount <= Pool
    /\ processed' = processed \cup {r}
    /\ released' = released + r.amount
    /\ UNCHANGED <<bridgePage, bridgeCalls, bridgeChain, bridgeClock>>

BridgeTick ==
    /\ bridgeClock < MaxClock
    /\ bridgeClock' = bridgeClock + 1
    /\ UNCHANGED <<bridgePage, bridgeCalls, bridgeChain, otherChain>>

-----------------------------------------------------------------------------
(* The page.                                                                 *)

EmptyForm == [target |-> NoTarget, amount |-> 0]
NoStatus == [id |-> NoRequest, shown |-> ""]

Init ==
    /\ bridgeMount = 1 /\ bridgeForm = EmptyForm /\ bridgeLoading = FALSE
    /\ bridgeBalance = 0 /\ bridgeStatus = NoStatus /\ bridgeCalls = {}
    /\ wallet = Funds /\ bridgeAllowance = 0 /\ locked = 0 /\ requests = {}
    /\ processed = {} /\ released = 0 /\ bridgeClock = 0

(* Another tab of the app and back: a new page, the old calls go on.         *)
Remount ==
    /\ bridgeMount < MaxMounts
    /\ bridgeMount' = bridgeMount + 1 /\ bridgeForm' = EmptyForm /\ bridgeLoading' = FALSE
    /\ bridgeBalance' = 0 /\ bridgeStatus' = NoStatus
    /\ UNCHANGED <<bridgeCalls, bridgeChain, otherChain, bridgeClock>>

(* Every field is disabled while a transfer is under way.                    *)
Edit(f) ==
    /\ ~bridgeLoading /\ bridgeForm' = f
    /\ UNCHANGED <<bridgeMount, bridgeLoading, bridgeBalance, bridgeStatus, bridgeCalls,
                   bridgeChain, otherChain, bridgeClock>>
SelectTarget == \E t \in Targets \cup {NoTarget} : Edit([bridgeForm EXCEPT !.target = t])
TypeAmount == \E v \in Typed : Edit([bridgeForm EXCEPT !.amount = v])
MaxAmount == bridgeBalance # 0 /\ Edit([bridgeForm EXCEPT !.amount = bridgeBalance])

(* The effect of a new token or chain; a failed read shows 0.                *)
FetchBalance ==
    /\ bridgeBalance' \in {FormatTokenAmount(wallet), 0}
    /\ UNCHANGED <<bridgeMount, bridgeForm, bridgeLoading, bridgeStatus, bridgeCalls,
                   bridgeChain, otherChain, bridgeClock>>

(* Every ten seconds. The status was Pending from the start, and nothing on  *)
(* this chain ever moves it: the other chain writes under another id.        *)
CheckBridgeStatus ==
    /\ bridgeStatus.id # NoRequest
    /\ bridgeStatus' = [bridgeStatus EXCEPT !.shown = "pending"]
    /\ UNCHANGED <<bridgeMount, bridgeForm, bridgeLoading, bridgeBalance, bridgeCalls,
                   bridgeChain, otherChain, bridgeClock>>

-----------------------------------------------------------------------------
(* handleBridge, one step per await.                                         *)

HandleBridge ==
    /\ ~bridgeLoading /\ bridgeForm.target # NoTarget /\ bridgeForm.amount # 0
    /\ bridgeLoading' = TRUE
    /\ bridgeCalls' = bridgeCalls \cup
           {[mount |-> bridgeMount, form |-> bridgeForm, at |-> "allowance", fee |-> FALSE]}
    /\ UNCHANGED <<bridgeMount, bridgeForm, bridgeBalance, bridgeStatus, bridgeChain, otherChain,
                   bridgeClock>>

Become(c, d) == bridgeCalls' = (bridgeCalls \ {c}) \cup {d}

(* React drops what a page that was left sets.                               *)
SetLoading(c, loading) ==
    bridgeLoading' = IF c.mount = bridgeMount THEN loading ELSE bridgeLoading

(* No contract address, a refusal of the wallet, a revert: the catch and the *)
(* finally. Nothing the call did before is undone.                           *)
BridgeFails_KeepLoading(c) ==
    /\ c \in bridgeCalls /\ c.at \in {"allowance", "approve", "send", "wait"}
    /\ bridgeCalls' = bridgeCalls \ {c}
    /\ UNCHANGED <<bridgePage, bridgeChain, otherChain, bridgeClock>>
BridgeFails(c) ==
    /\ c \in bridgeCalls /\ c.at \in {"allowance", "approve", "send", "wait"}
    /\ bridgeCalls' = bridgeCalls \ {c}
    /\ SetLoading(c, FALSE)
    /\ UNCHANGED <<bridgeMount, bridgeForm, bridgeBalance, bridgeStatus, bridgeChain, otherChain,
                   bridgeClock>>

CheckAllowance(c) ==
    /\ c \in bridgeCalls /\ c.at = "allowance"
    /\ Become(c, [c EXCEPT !.at = IF bridgeAllowance < c.form.amount THEN "approve" ELSE "fee"])
    /\ UNCHANGED <<bridgePage, bridgeChain, otherChain, bridgeClock>>

ApproveBridge(c) ==
    /\ c \in bridgeCalls /\ c.at = "approve"
    /\ bridgeAllowance' = c.form.amount
    /\ Become(c, [c EXCEPT !.at = "fee"])
    /\ UNCHANGED <<bridgePage, wallet, locked, requests, otherChain, bridgeClock>>

(* An estimate that fails, or cannot be made, counts as a fee of 0.          *)
EstimateFee(c) ==
    /\ c \in bridgeCalls /\ c.at = "fee"
    /\ \E quoted \in {FALSE, Eid[c.form.target] # 0} :
          Become(c, [c EXCEPT !.at = "send", !.fee = quoted])
    /\ UNCHANGED <<bridgePage, bridgeChain, otherChain, bridgeClock>>

(* The endpoint refuses a message that carries no fee.                       *)
SendBridgeToken(c) ==
    /\ c \in bridgeCalls /\ c.at = "send"
    /\ Eid[c.form.target] # 0 /\ c.fee
    /\ Become(c, [c EXCEPT !.at = "wait"])
    /\ UNCHANGED <<bridgePage, bridgeChain, otherChain, bridgeClock>>

(* Mined: the event names the request.                                       *)
BridgeTokenMined(c) ==
    /\ c \in bridgeCalls /\ c.at = "wait"
    /\ Cardinality(requests) < MaxSent
    /\ BridgeToken(c.form.amount, Eid[c.form.target])
    /\ Become(c, [c EXCEPT !.at = "balance"])
    /\ bridgeStatus' = IF c.mount # bridgeMount THEN bridgeStatus
                       ELSE [id |-> Cardinality(requests) + 1, shown |-> "sent"]
    /\ UNCHANGED <<bridgeMount, bridgeForm, bridgeLoading, bridgeBalance, otherChain, bridgeClock>>

(* The balance is read again and the amount cleared.                         *)
BridgeDone(c) ==
    /\ c \in bridgeCalls /\ c.at = "balance"
    /\ bridgeCalls' = bridgeCalls \ {c}
    /\ SetLoading(c, FALSE)
    /\ IF c.mount # bridgeMount THEN UNCHANGED <<bridgeForm, bridgeBalance>>
       ELSE /\ bridgeBalance' \in {FormatTokenAmount(wallet), 0}
            /\ bridgeForm' = [bridgeForm EXCEPT !.amount = 0]
    /\ UNCHANGED <<bridgeMount, bridgeStatus, bridgeChain, otherChain, bridgeClock>>

Continue(c) ==
    \/ BridgeFails(c) \/ CheckAllowance(c) \/ ApproveBridge(c) \/ EstimateFee(c)
    \/ SendBridgeToken(c) \/ BridgeTokenMined(c) \/ BridgeDone(c)

Next ==
    \/ BridgeTick \/ Remount \/ SelectTarget \/ TypeAmount \/ MaxAmount
    \/ FetchBalance \/ CheckBridgeStatus \/ HandleBridge
    \/ \E c \in bridgeCalls : Continue(c)
    \/ \E r \in requests : LzReceive(r)

Spec == Init /\ [][Next]_vars

-----------------------------------------------------------------------------
Amounts(S) == SumFunctionOnSet([r \in S |-> r.amount], S)

(* What the other chain has handed out was locked here, request by request,  *)
(* and the fees of all requests stay in the contract here: however messages  *)
(* are delivered, repeated or expire, and two pages transfer at a time.      *)
ReleasedWasLocked ==
    /\ released = Amounts(processed)
    /\ locked = Amounts(requests) + BridgeFee * Cardinality(requests)
    /\ wallet + locked = Funds
===============================================================================
