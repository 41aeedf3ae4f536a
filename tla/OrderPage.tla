------------------------------- MODULE OrderPage -------------------------------
(***************************************************************************)
(* Orders placed and cancelled through the nodes: the order book page      *)
(* (OrderBookSection.tsx, with nodeClient.ts and dataCache.ts), the form   *)
(* of the dashboard (components/dashboard/LimitOrderFormWidget.tsx), the   *)
(* form of the browser node (components/OrderForm.tsx), signing and its    *)
(* check (services/orderSigning.ts, orderVerification.ts), and the         *)
(* broadcast of what was placed (p2p/orderBroadcast.ts); all in            *)
(* frontend/src.                                                           *)
(*                                                                         *)
(* The wallet has an account of its own, which the page learns of later.   *)
(* A node may refuse, be away, or take a request and lose the answer. Its  *)
(* side is external; so are the matches it makes. An order is its id, its  *)
(* trader and who signed it; what is typed, and the checks that refuse it, *)
(* are left out.                                                           *)
(***************************************************************************)
EXTENDS Naturals, FiniteSets

CONSTANTS
    Accounts, First, Idle,
    Forms,           \* of "section", "widget" and "form"
    NodeCount,       \* NODE_API_URLS
    Storage,         \* the lists that localStorage has room for
    MaxOrders, MaxBusy    \* bounds: orders placed, handlers under way at a time

(* There is a node to ask.                                                   *)
OrderPageAssumption ==
    /\ First \in Accounts /\ Forms \subseteq {"section", "widget", "form"}
    /\ Storage \subseteq {"book", "mine"} /\ NodeCount \in Nat \ {0} /\ MaxOrders \in Nat

VARIABLES
    account, walletAccount,     \* what the page knows, what the wallet has
    online,
    placements,         \* the placements under way
    cancels,         \* handleCancel calls under way
    cancelLoading,   \* state cancelLoading
    lists, listCache,     \* the ids listed, and those kept in localStorage
    fetching,        \* requests for a list under way, and for whom
    reload,          \* the effect that loads the lists is to run
    broadcast,       \* p2pOrderBroadcast has a node
    gossip,          \* the orders broadcast
    nodeOrders, nodeOpen, lastId    \* what nodes have taken, which of it is open

walletVars == <<account, walletAccount, online>>
cancelVars == <<cancels, cancelLoading>>
listVars == <<lists, listCache, fetching, reload>>
nodeVars == <<nodeOrders, nodeOpen>>
vars == <<walletVars, placements, cancelVars, listVars, broadcast, gossip, nodeVars, lastId>>

Nodes == 1 .. NodeCount
Ids == 1 .. MaxOrders
OrderData == [id : Ids, trader : Accounts, signer : Accounts]
Listed == {"book", "mine"}
NoCache == [known |-> FALSE, ids |-> {}]
None == 0

TypeOK ==
    /\ {account, walletAccount} \subseteq Accounts /\ online \in BOOLEAN
    /\ \A f \in Forms : placements[f] # Idle =>
          /\ placements[f].order \in OrderData /\ placements[f].node \in Nodes
          /\ placements[f].at \in {"signer", "sign", "verify", "post", "publish"}
    /\ cancels \subseteq [id : Ids, of : Accounts, signer : Accounts, node : Nodes,
                          at : {"signer", "sign", "post"}]
    /\ cancelLoading \in Ids \cup {None}
    /\ lists \in [Listed -> SUBSET Ids]
    /\ listCache.book \in [known : BOOLEAN, ids : SUBSET Ids]
    /\ \A a \in Accounts : listCache.mine[a] \in [known : BOOLEAN, ids : SUBSET Ids]
    /\ fetching \subseteq Listed \X Accounts /\ reload \in BOOLEAN
    /\ broadcast \in BOOLEAN
    /\ gossip \subseteq OrderData /\ nodeOrders \in [Nodes -> SUBSET OrderData]
    /\ \A n \in Nodes : nodeOpen[n] \subseteq {o.id : o \in nodeOrders[n]}
    /\ lastId \in 0 .. MaxOrders

-----------------------------------------------------------------------------
(* The wallet and the network.                                               *)

SwitchWallet ==
    /\ \E a \in Accounts \ {walletAccount} : walletAccount' = a
    /\ UNCHANGED <<account, online, placements, cancelVars, listVars, broadcast, gossip, nodeVars,
                   lastId>>
AccountsChanged ==
    /\ account # walletAccount /\ account' = walletAccount /\ reload' = TRUE
    /\ UNCHANGED <<walletAccount, online, placements, cancelVars, lists, listCache, fetching,
                   broadcast, gossip, nodeVars, lastId>>
OnlineStatus ==
    /\ online' = ~online /\ reload' = TRUE
    /\ UNCHANGED <<account, walletAccount, placements, cancelVars, lists, listCache, fetching,
                   broadcast, gossip, nodeVars, lastId>>

(* The nodes match or relay what they have taken.                            *)
NodesMatch ==
    /\ \E n \in Nodes, i \in Ids :
          i \in nodeOpen[n] /\ nodeOpen' = [nodeOpen EXCEPT ![n] = @ \ {i}]
    /\ UNCHANGED <<walletVars, placements, cancelVars, listVars, broadcast, gossip, nodeOrders,
                   lastId>>

-----------------------------------------------------------------------------
Init ==
    /\ account = First /\ walletAccount = First /\ online = TRUE
    /\ placements = [f \in Forms |-> Idle]
    /\ cancels = {} /\ cancelLoading = None
    /\ lists = [l \in Listed |-> {}]
    /\ listCache = [book |-> NoCache, mine |-> [a \in Accounts |-> NoCache]]
    /\ fetching = {} /\ reload = TRUE
    /\ broadcast = FALSE /\ gossip = {}
    /\ nodeOrders = [n \in Nodes |-> {}] /\ nodeOpen = [n \in Nodes |-> {}] /\ lastId = 0

(* Bound.                                                                    *)
Room == Cardinality({f \in Forms : placements[f] # Idle}) + Cardinality(cancels)
        + Cardinality(fetching) < MaxBusy

-----------------------------------------------------------------------------
(* The lists.                                                                *)

Cached(l, a) == IF l = "book" THEN listCache.book ELSE listCache.mine[a]
SetCached(l, a, entry) ==
    listCache' = IF l \notin Storage THEN listCache
                 ELSE IF l = "book" THEN [listCache EXCEPT !.book = entry]
                 ELSE [listCache EXCEPT !.mine[a] = entry]

(* The cached lists are shown first; without a network nothing is asked. A   *)
(* cached book is a new book to React, and loads everything again.           *)
Load ==
    /\ reload /\ Room
    /\ lists' = [l \in Listed |-> IF Cached(l, account).known THEN Cached(l, account).ids
                                  ELSE lists[l]]
    /\ reload' = listCache.book.known
    /\ fetching' = IF online THEN fetching \cup (Listed \X {account}) ELSE fetching
    /\ UNCHANGED <<walletVars, placements, cancelVars, listCache, broadcast, gossip, nodeVars,
                   lastId>>

(* The answer of the first node to give one is shown, whoever is logged in   *)
(* by then, and another book is loaded for it.                               *)
Answer(n, l, a) ==
    IF l = "book" THEN nodeOpen[n] ELSE {o.id : o \in {p \in nodeOrders[n] :
                                          p.trader = a /\ p.id \in nodeOpen[n]}}
ListArrives(l, a) ==
    /\ <<l, a>> \in fetching /\ fetching' = fetching \ {<<l, a>>}
    /\ \E n \in Nodes :
          /\ lists' = [lists EXCEPT ![l] = Answer(n, l, a)]
          /\ SetCached(l, a, [known |-> TRUE, ids |-> Answer(n, l, a)])
    /\ reload' = (l = "book" \/ reload)
    /\ UNCHANGED <<walletVars, placements, cancelVars, broadcast, gossip, nodeVars, lastId>>
(* No node answers: what was not cached is shown empty.                      *)
ListFails(l, a) ==
    /\ <<l, a>> \in fetching /\ fetching' = fetching \ {<<l, a>>}
    /\ \E cached \in BOOLEAN :
          lists' = IF cached THEN lists ELSE [lists EXCEPT ![l] = {}]
    /\ UNCHANGED <<walletVars, placements, cancelVars, listCache, reload, broadcast, gossip,
                   nodeVars, lastId>>
(* After five minutes.                                                       *)
CacheExpires ==
    /\ \E a \in Accounts, l \in Listed : Cached(l, a).known /\ SetCached(l, a, NoCache)
    /\ UNCHANGED <<walletVars, placements, cancelVars, lists, fetching, reload, broadcast, gossip,
                   nodeVars, lastId>>

(* The relay pushes a book.                                                  *)
OrderbookUpdate ==
    /\ \E n \in Nodes : lists' = [lists EXCEPT !.book = nodeOpen[n]]
    /\ reload' = TRUE
    /\ UNCHANGED <<walletVars, placements, cancelVars, listCache, fetching, broadcast, gossip,
                   nodeVars, lastId>>

(* p2pOrderBroadcast.start: once, and again when it failed. An order that is *)
(* heard of loads the lists.                                                 *)
StartBroadcast ==
    /\ ~broadcast /\ broadcast' = TRUE
    /\ UNCHANGED <<walletVars, placements, cancelVars, listVars, gossip, nodeVars, lastId>>
OrderHeard ==
    /\ broadcast /\ reload' = TRUE
    /\ UNCHANGED <<walletVars, placements, cancelVars, lists, listCache, fetching, broadcast,
                   gossip, nodeVars, lastId>>

-----------------------------------------------------------------------------
(* The forms.                                                                *)

(* The buttons of the forms. Only the page's asks for a network.             *)
SectionButton == "section" \in Forms /\ placements["section"] = Idle /\ online
WidgetButton == "widget" \in Forms /\ placements["widget"] = Idle
FormButton == "form" \in Forms /\ placements["form"] = Idle

(* A new id; who the order is of is the account the page knows. The browser  *)
(* node's form asks the wallet instead, and has that account sign.           *)
StartPlacing(f) ==
    /\ lastId < MaxOrders /\ Room
    /\ lastId' = lastId + 1
    /\ placements' = [placements EXCEPT ![f] =
           [order |-> [id |-> lastId + 1, trader |-> account, signer |-> account],
            at |-> "signer", node |-> 1]]
    /\ UNCHANGED <<walletVars, cancelVars, listVars, broadcast, gossip,
                   nodeVars>>

HandlePlaceOrder == SectionButton /\ StartPlacing("section")
WidgetPlaceOrder == WidgetButton /\ StartPlacing("widget")
HandleSubmit == FormButton /\ StartPlacing("form")

Place(f, c) == placements' = [placements EXCEPT ![f] = c]

(* The wallet signs as the account it has when it is asked for a signer.     *)
GetSigner(f) ==
    /\ placements[f] # Idle /\ placements[f].at = "signer"
    /\ Place(f, [order |-> [id |-> placements[f].order.id, signer |-> walletAccount,
                            trader |-> IF f = "form" THEN walletAccount
                                       ELSE placements[f].order.trader],
                 at |-> "sign", node |-> placements[f].node])
    /\ UNCHANGED <<walletVars, cancelVars, listVars, broadcast, gossip,
                   nodeVars, lastId>>
SignOrder(f) ==
    /\ placements[f] # Idle /\ placements[f].at = "sign"
    /\ Place(f, [placements[f] EXCEPT !.at = "verify"])
    /\ UNCHANGED <<walletVars, cancelVars, listVars, broadcast, gossip,
                   nodeVars, lastId>>

(* What the browser node's form signed goes to that node's own topic.        *)
VerifyOrderSignature_Skip(f) ==
    /\ placements[f] # Idle /\ placements[f].at = "verify"
    /\ Place(f, [placements[f] EXCEPT !.at = IF f = "form" THEN "publish" ELSE "post"])
    /\ UNCHANGED <<walletVars, cancelVars, listVars, broadcast, gossip,
                   nodeVars, lastId>>
VerifyOrderSignature(f) ==
    /\ placements[f] # Idle /\ placements[f].at = "verify"
    /\ placements[f].order.signer = placements[f].order.trader
    /\ Place(f, [placements[f] EXCEPT !.at = IF f = "form" THEN "publish" ELSE "post"])
    /\ UNCHANGED <<walletVars, cancelVars, listVars, broadcast, gossip,
                   nodeVars, lastId>>

(* tryNodes: one node after the other until one answers. A node that took    *)
(* the order and whose answer was lost has it all the same.                  *)
TakesOrder(n, o) ==
    /\ nodeOrders' = [nodeOrders EXCEPT ![n] = @ \cup {o}]
    /\ nodeOpen' = [nodeOpen EXCEPT ![n] = @ \cup {o.id}]
NodePost(f) ==
    /\ placements[f] # Idle /\ placements[f].at = "post"
    /\ \/ /\ TakesOrder(placements[f].node, placements[f].order)
          /\ Place(f, [placements[f] EXCEPT !.at = "publish"])
       \/ /\ TakesOrder(placements[f].node, placements[f].order) \/ UNCHANGED nodeVars
          /\ placements[f].node < NodeCount
          /\ Place(f, [placements[f] EXCEPT !.node = @ + 1])
       \/ /\ TakesOrder(placements[f].node, placements[f].order) \/ UNCHANGED nodeVars
          /\ placements[f].node = NodeCount
          /\ Place(f, Idle)
    /\ UNCHANGED <<walletVars, cancelVars, listVars, broadcast, gossip, lastId>>

(* A broadcast that cannot be made is no error; then the lists are loaded.   *)
(* The form of the browser's node has that node to publish through.          *)
PublishOrder(f) ==
    /\ placements[f] # Idle /\ placements[f].at = "publish"
    /\ \/ (broadcast \/ f = "form") /\ gossip' = gossip \cup {placements[f].order}
       \/ UNCHANGED gossip
    /\ Place(f, Idle)
    /\ reload' = (f = "section" \/ reload)
    /\ UNCHANGED <<walletVars, cancelVars, lists, listCache, fetching, broadcast,
                   nodeVars, lastId>>

(* No signer, a refusal, a signature of another account or that took a day.  *)
PlaceFails_StaysLoading(f) ==
    /\ placements[f] # Idle /\ placements[f].at \in {"signer", "sign", "verify"}
    /\ UNCHANGED vars
PlaceFails(f) ==
    /\ placements[f] # Idle /\ placements[f].at \in {"signer", "sign", "verify"}
    /\ Place(f, Idle)
    /\ UNCHANGED <<walletVars, cancelVars, listVars, broadcast, gossip,
                   nodeVars, lastId>>

ContinuePlacing(f) ==
    \/ GetSigner(f) \/ SignOrder(f) \/ VerifyOrderSignature(f) \/ NodePost(f) \/ PublishOrder(f)
    \/ PlaceFails(f)

-----------------------------------------------------------------------------
(* handleCancel. Only the button of the order that began to be cancelled     *)
(* last is disabled, until any cancellation ends.                            *)

HandleCancel ==
    /\ Room
    /\ \E i \in lists.mine \ {cancelLoading} :
          /\ cancels' = cancels \cup {[id |-> i, of |-> account, signer |-> account, node |-> 1,
                                       at |-> "signer"]}
          /\ cancelLoading' = i
    /\ UNCHANGED <<walletVars, placements, listVars, broadcast, gossip, nodeVars, lastId>>

Cancel(c, d) == cancels' = (cancels \ {c}) \cup {d}
CancelEnds(c) == cancels' = cancels \ {c} /\ cancelLoading' = None

CancelSigner(c) ==
    /\ c \in cancels /\ c.at = "signer"
    /\ Cancel(c, [c EXCEPT !.signer = walletAccount, !.at = "sign"])
    /\ UNCHANGED <<walletVars, placements, cancelLoading, listVars, broadcast, gossip, nodeVars,
                   lastId>>
SignCancelOrder(c) ==
    /\ c \in cancels /\ c.at = "sign"
    /\ Cancel(c, [c EXCEPT !.at = "post"])
    /\ UNCHANGED <<walletVars, placements, cancelLoading, listVars, broadcast, gossip, nodeVars,
                   lastId>>

(* Nobody has checked this signature. A node that has the order does: what   *)
(* was signed names the account of the page, and has to be the trader's.     *)
MayCancel(n, c) ==
    \A o \in nodeOrders[n] : o.id = c.id => c.signer = o.trader /\ c.of = o.trader
PostCancel(c) ==
    /\ c \in cancels /\ c.at = "post"
    /\ \/ /\ MayCancel(c.node, c)
          /\ nodeOpen' = [n \in Nodes |-> IF MayCancel(n, c) THEN nodeOpen[n] \ {c.id}
                                          ELSE nodeOpen[n]]
          /\ CancelEnds(c) /\ reload' = TRUE
       \/ /\ c.node < NodeCount /\ Cancel(c, [c EXCEPT !.node = @ + 1])
          /\ UNCHANGED <<cancelLoading, reload, nodeOpen>>
    /\ UNCHANGED <<walletVars, placements, lists, listCache, fetching, broadcast, gossip,
                   nodeOrders, lastId>>
CancelFails(c) ==
    /\ c \in cancels /\ (c.at # "post" \/ c.node = NodeCount)
    /\ CancelEnds(c)
    /\ UNCHANGED <<walletVars, placements, listVars, broadcast, gossip, nodeVars, lastId>>

ContinueCancel(c) == CancelSigner(c) \/ SignCancelOrder(c) \/ PostCancel(c) \/ CancelFails(c)
ContinueList(l, a) == ListArrives(l, a) \/ ListFails(l, a)

Next ==
    \/ SwitchWallet \/ AccountsChanged \/ OnlineStatus \/ NodesMatch
    \/ Load \/ CacheExpires \/ OrderbookUpdate
    \/ StartBroadcast \/ OrderHeard
    \/ HandlePlaceOrder \/ WidgetPlaceOrder \/ HandleSubmit
    \/ \E f \in Forms : ContinuePlacing(f)
    \/ HandleCancel \/ \E c \in cancels : ContinueCancel(c)
    \/ \E l \in Listed, a \in Accounts : ContinueList(l, a)

Spec == Init /\ [][Next]_vars

-----------------------------------------------------------------------------
(* No order leaves the page but signed by the account it names, however the  *)
(* wallet changes accounts between the click, the signature and the request. *)
OnlySignedLeave ==
    \A o \in gossip \cup UNION {nodeOrders[n] : n \in Nodes} : o.signer = o.trader
================================================================================
