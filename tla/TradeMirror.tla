------------------------------ MODULE TradeMirror ------------------------------
(***************************************************************************)
(* What the tables of a browser promise about settled trades, without the  *)
(* handlers that fill them: the chain only grows, a match carries the hash *)
(* of a transaction that settled it, a trade is confirmed only when it is  *)
(* on the chain, and only a restored backup takes a hash away again.       *)
(***************************************************************************)
EXTENDS Naturals

CONSTANTS Deals, NoMatch

VARIABLES
    chain,   \* settlements on the chain: [deal, block]
    hash,    \* per deal: NoMatch, 0 (unsettled), or the block of its transaction
    saved,   \* confirmed rows of the table trades
    copy     \* the last backup exported, if any, as a set

vars == <<chain, hash, saved, copy>>

Event == [deal : Deals, block : Nat \ {0}]

Init ==
    /\ chain = {} /\ saved = {} /\ copy = {}
    /\ hash = [d \in Deals |-> NoMatch]

(* One more block, above all others.                                         *)
Settle ==
    /\ chain \subseteq chain' /\ chain' \ chain \subseteq Event
    /\ \A e \in chain' \ chain, f \in chain : f.block < e.block
    /\ \A e, f \in chain' \ chain : e.block = f.block
    /\ UNCHANGED <<hash, saved, copy>>

Matched(d) ==
    /\ hash[d] = NoMatch
    /\ hash' = [hash EXCEPT ![d] = 0]
    /\ UNCHANGED <<chain, saved, copy>>

Record(e) ==
    /\ e \in chain /\ hash[e.deal] # NoMatch
    /\ hash' = [hash EXCEPT ![e.deal] = e.block]
    /\ UNCHANGED <<chain, saved, copy>>

(* Rows are put, anew or over others, or cleaned up.                         *)
Write ==
    /\ saved' \ saved \subseteq chain
    /\ UNCHANGED <<chain, hash, copy>>

BackUp ==
    /\ copy' = {[hash |-> hash, saved |-> saved]}
    /\ UNCHANGED <<chain, hash, saved>>

Restore ==
    /\ \E c \in copy :
          /\ hash' = [d \in Deals |-> IF c.hash[d] = NoMatch THEN hash[d] ELSE c.hash[d]]
          /\ c.saved \subseteq saved' /\ saved' \subseteq saved \cup c.saved
    /\ UNCHANGED <<chain, copy>>

Next ==
    \/ Settle \/ Write \/ BackUp \/ Restore
    \/ \E d \in Deals : Matched(d)
    \/ \E e \in chain : Record(e)

Spec == Init /\ [][Next]_vars
================================================================================
