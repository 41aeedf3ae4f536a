-------------------------- MODULE SettleClientProofs --------------------------
(* Proofs about SettleClient, for every set of trades, users and overlapping *)
(* syncs: the tables implement TradeMirror, and the saved position leaves no *)
(* gap.                                                                      *)
EXTENDS SettleClient, TLAPS

(* A hash, in the table or in a backup, is that of a transaction that is     *)
(* mined and holds the trade.                                                *)
HashesOnChain(h) ==
    \A d \in Deals : h[d] # NoMatch /\ h[d] # 0 => [deal |-> d, block |-> h[d]] \in chain

(* What a call under way is about to write is on the chain already, and its  *)
(* match is in the table.                                                    *)
JobsOnChain ==
    /\ jobs \subseteq [by : {"hook", "batch"}, left : SUBSET Mine,
                       at : {"send", "wait", "write"}, block : Nat]
    /\ \A j \in jobs : \A d \in j.left :
          /\ hash[d] # NoMatch
          /\ j.at = "write" => [deal |-> d, block |-> j.block] \in chain

FoundOnChain == \A s \in Slots : sync[s].at = "blocks" => sync[s].found \subseteq chain

SyncCall == [at : {"number", "query", "blocks", "mark"}, as : Users \cup {NoUser},
             from : Nat \ {0}, upTo : Nat, found : SUBSET [deal : Deals, block : Nat \ {0}]]

MirrorInv ==
    /\ head \in Nat /\ position \in Nat /\ user \in Users \cup {NoUser}
    /\ chain \subseteq [deal : Deals, block : Nat \ {0}]
    /\ \A e \in chain : e.block <= head
    /\ hash \in [Deals -> Nat \cup {NoMatch}] /\ HashesOnChain(hash)
    /\ \A c \in copy : /\ c.hash \in [Deals -> Nat \cup {NoMatch}] /\ HashesOnChain(c.hash)
                       /\ c.saved \subseteq chain /\ c.live \subseteq chain
    /\ JobsOnChain
    /\ saved \subseteq chain /\ live \subseteq chain /\ heard \subseteq chain
    /\ sync \in [Slots -> {Idle} \cup SyncCall] /\ FoundOnChain

LEMMA InitMirrorInv == Init => MirrorInv
BY DEF Init, MirrorInv, HashesOnChain, JobsOnChain, FoundOnChain, Idle

(* One step of the tables: what TradeMirror allows, or nothing it sees.      *)
MirrorStep == [Mirror!Next]_(Mirror!vars)

LEMMA HandleMatchStep ==
    ASSUME MirrorInv, NEW d \in Deals, HandleMatch(d)
    PROVE  MirrorInv' /\ MirrorStep
<1>1. hash' \in [Deals -> Nat \cup {NoMatch}] /\ HashesOnChain(hash)'
  BY SettleAssumption DEF HandleMatch, MirrorInv, HashesOnChain
<1>2. JobsOnChain'
  BY SettleAssumption DEF HandleMatch, MirrorInv, JobsOnChain, client, SettleTrade
<1>3. MirrorInv'
  BY <1>1, <1>2 DEF HandleMatch, MirrorInv, HashesOnChain, FoundOnChain, listener
<1>4. Mirror!Matched(d)
  BY DEF HandleMatch, Mirror!Matched
<1> QED BY <1>3, <1>4 DEF MirrorStep, Mirror!Next

LEMMA SettleTradesBatchStep ==
    ASSUME MirrorInv, NEW S \in SUBSET Mine, SettleTradesBatch(S)
    PROVE  MirrorInv' /\ MirrorStep
<1>1. JobsOnChain'
  BY SettleAssumption DEF SettleTradesBatch, MirrorInv, JobsOnChain, tables, Unsettled
<1>2. MirrorInv'
  BY <1>1 DEF SettleTradesBatch, MirrorInv, HashesOnChain, FoundOnChain, listener, tables
<1> QED BY <1>2 DEF MirrorStep, Mirror!vars, SettleTradesBatch, tables

(* What a job does up to the moment it writes.                               *)
LEMMA JobWaitsStep ==
    ASSUME MirrorInv, NEW j \in jobs, SendTransaction(j) \/ WaitFailed(j)
    PROVE  MirrorInv' /\ MirrorStep
<1>1. /\ UNCHANGED <<chain, head, tables, user, listener, sync>>
      /\ jobs' = jobs \ {j} \/ jobs' = (jobs \ {j}) \cup {[j EXCEPT !.at = "wait"]}
  BY DEF SendTransaction, WaitFailed, Replace, EndJob
<1>2. JobsOnChain'
  BY <1>1 DEF MirrorInv, JobsOnChain, tables
<1>3. MirrorInv'
  BY <1>1, <1>2 DEF MirrorInv, HashesOnChain, FoundOnChain, listener, tables
<1> QED BY <1>1, <1>3 DEF MirrorStep, Mirror!vars, tables

(* A block is mined: its trades follow all that was on the chain.            *)
LEMMA BlockStep ==
    ASSUME MirrorInv, NEW S \in SUBSET Deals,
           chain' = chain \cup {[deal |-> d, block |-> head + 1] : d \in S}, head' = head + 1,
           UNCHANGED <<tables, user, sync>>, JobsOnChain', heard' \subseteq chain'
    PROVE  MirrorInv' /\ MirrorStep
<1> DEFINE new == {[deal |-> d, block |-> head + 1] : d \in S}
<1>1. head + 1 \in Nat \ {0} /\ \A e \in chain : e.block < head + 1
  BY DEF MirrorInv
<1>2. chain' \subseteq [deal : Deals, block : Nat \ {0}] /\ \A e \in chain' : e.block <= head'
  BY <1>1 DEF MirrorInv
<1>3. /\ HashesOnChain(hash)' /\ FoundOnChain' /\ saved' \subseteq chain' /\ live' \subseteq chain'
      /\ \A c \in copy : /\ HashesOnChain(c.hash)'
                         /\ c.saved \subseteq chain' /\ c.live \subseteq chain'
  BY DEF MirrorInv, HashesOnChain, FoundOnChain, tables
<1>4. MirrorInv'
  BY <1>1, <1>2, <1>3 DEF MirrorInv, tables
<1>5. Mirror!Settle
  <2>1. \A e \in chain' \ chain : e \in [deal : Deals, block : Nat \ {0}] /\ e.block = head + 1
    BY <1>1
  <2>2. chain \subseteq chain' /\ UNCHANGED <<hash, saved, live, copy>>
    BY DEF tables
  <2>3. chain' \ chain \subseteq [deal : Deals, block : Nat \ {0}]
    BY <2>1
  <2>4. \A e \in chain' \ chain, f \in chain : f.block < e.block
    BY <1>1, <2>1
  <2>5. \A e, f \in chain' \ chain : e.block = f.block
    BY <2>1
  <2> HIDE DEF new
  <2> QED BY <2>2, <2>3, <2>4, <2>5 DEF Mirror!Settle, Mirror!Event
<1> QED BY <1>4, <1>5 DEF MirrorStep, Mirror!Next

LEMMA WaitMinedStep ==
    ASSUME MirrorInv, NEW j \in jobs, WaitMined(j)
    PROVE  MirrorInv' /\ MirrorStep
<1> DEFINE new == {[deal |-> d, block |-> head + 1] : d \in j.left}
<1>1. /\ chain' = chain \cup new /\ head' = head + 1 /\ UNCHANGED <<tables, user, sync>>
      /\ jobs' = (jobs \ {j}) \cup {[j EXCEPT !.at = "write", !.block = head + 1]}
  BY DEF WaitMined, Replace
<1>2. j.left \in SUBSET Deals
  BY SettleAssumption DEF MirrorInv, JobsOnChain
<1>3. heard' \subseteq chain'
  BY <1>1 DEF WaitMined, Hear, Decoded, MirrorInv
<1>4. JobsOnChain'
  <2> DEFINE k == [j EXCEPT !.at = "write", !.block = head + 1]
             Job == [by : {"hook", "batch"}, left : SUBSET Mine,
                     at : {"send", "wait", "write"}, block : Nat]
  <2>1. j \in Job /\ head \in Nat
    BY DEF MirrorInv, JobsOnChain
  <2>2. k \in Job /\ k.left = j.left /\ k.block = head + 1
    <3> DEFINE w == [j EXCEPT !.at = "write"]
    <3>1. w \in Job /\ w.left = j.left
      BY <2>1
    <3>2. head + 1 \in Nat /\ k = [w EXCEPT !.block = head + 1]
      BY <2>1
    <3> HIDE DEF w, k
    <3> QED BY <3>1, <3>2
  <2>3. \A i \in jobs' : i \in jobs \/ i = k
    BY <1>1
  <2>4. \A d \in k.left : [deal |-> d, block |-> k.block] \in chain'
    BY <1>1, <2>2
  <2>5. jobs \subseteq Job /\ hash' = hash /\ chain \subseteq chain'
    BY <1>1 DEF MirrorInv, JobsOnChain, tables
  <2> HIDE DEF k
  <2>6. jobs' \subseteq Job
    BY <2>2, <2>3, <2>5
  <2>7. \A i \in jobs' : \A d \in i.left :
           hash'[d] # NoMatch /\ (i.at = "write" => [deal |-> d, block |-> i.block] \in chain')
    BY <2>2, <2>3, <2>4, <2>5 DEF MirrorInv, JobsOnChain
  <2> QED BY <2>6, <2>7 DEF JobsOnChain
<1> QED BY <1>1, <1>2, <1>3, <1>4, BlockStep

LEMMA OthersSettleStep ==
    ASSUME MirrorInv, NEW d \in Deals, OthersSettle(d)
    PROVE  MirrorInv' /\ MirrorStep
<1> DEFINE e == [deal |-> d, block |-> head + 1]
<1>1. /\ chain' = chain \cup {[deal |-> b, block |-> head + 1] : b \in {d}} /\ head' = head + 1
      /\ UNCHANGED <<tables, user, sync, jobs>>
  BY DEF OthersSettle, client
<1>2. heard' \subseteq chain'
  BY DEF OthersSettle, Hear, Decoded, MirrorInv
<1>3. JobsOnChain'
  BY <1>1 DEF MirrorInv, JobsOnChain, tables
<1>4. {d} \in SUBSET Deals
  OBVIOUS
<1>5. PICK S \in SUBSET Deals : S = {d}
  BY <1>4
<1> HIDE DEF e
<1> QED BY <1>1, <1>2, <1>3, <1>5, BlockStep

LEMMA WriteTxHashStep ==
    ASSUME MirrorInv, NEW j \in jobs, WriteTxHash(j)
    PROVE  MirrorInv' /\ MirrorStep
<1>1. PICK d \in j.left : /\ UpdateMatchTxHash(d, j.block)
                          /\ \/ jobs' = jobs \ {j}
                             \/ jobs' = (jobs \ {j}) \cup {[j EXCEPT !.left = @ \ {d}]}
  BY DEF WriteTxHash, EndJob, Replace
<1>2. /\ d \in Deals /\ hash[d] # NoMatch /\ j.block \in Nat
      /\ [deal |-> d, block |-> j.block] \in chain
  BY SettleAssumption DEF WriteTxHash, MirrorInv, JobsOnChain
<1>3. hash' = [hash EXCEPT ![d] = j.block]
  BY <1>1, <1>2 DEF UpdateMatchTxHash
<1>4. UNCHANGED <<chain, head, saved, live, position, copy, user, listener, sync>>
  BY DEF WriteTxHash
<1>5. hash' \in [Deals -> Nat \cup {NoMatch}] /\ HashesOnChain(hash)'
  BY <1>2, <1>3, <1>4 DEF MirrorInv, HashesOnChain
<1>6. JobsOnChain'
  BY <1>1, <1>2, <1>3, <1>4, SettleAssumption DEF MirrorInv, JobsOnChain
<1>7. MirrorInv'
  BY <1>4, <1>5, <1>6 DEF MirrorInv, HashesOnChain, FoundOnChain, listener
<1>8. Mirror!Record([deal |-> d, block |-> j.block])
  BY <1>2, <1>3, <1>4 DEF Mirror!Record
<1> QED BY <1>2, <1>7, <1>8 DEF MirrorStep, Mirror!Next

LEMMA HandleTradeEventStep ==
    ASSUME MirrorInv, NEW e \in heard, HandleTradeEvent(e)
    PROVE  MirrorInv' /\ MirrorStep
<1>1. /\ live' \subseteq live \cup {e} /\ e \in chain /\ heard' \subseteq heard
      /\ UNCHANGED <<chain, head, hash, saved, position, copy, user, client, sync>>
  BY DEF HandleTradeEvent, SaveTrade, MirrorInv
<1>2. MirrorInv'
  BY <1>1 DEF MirrorInv, HashesOnChain, FoundOnChain, JobsOnChain, client
<1>3. Mirror!Write
  BY <1>1 DEF Mirror!Write
<1> QED BY <1>2, <1>3 DEF MirrorStep, Mirror!Next

(* A step of a sync in one slot: a call stays a call or ends.                *)
LEMMA SyncSteps ==
    ASSUME MirrorInv, NEW s \in Slots,
           \/ GetBlockNumber(s) \/ QueryFilter(s) \/ SyncHistoricalTrades(s)
           \/ IncrementalSync(s) \/ SyncFails(s)
    PROVE  MirrorInv' /\ MirrorStep
<1>1. SyncKeeps
  BY DEF GetBlockNumber, QueryFilter, SyncHistoricalTrades, IncrementalSync, SyncFails
<1>2. sync[s] \in SyncCall
  BY DEF MirrorInv, Idle, GetBlockNumber, QueryFilter, SyncHistoricalTrades, IncrementalSync,
         SyncFails
<1>3. position' \in Nat
  BY SettleAssumption DEF MirrorInv, GetBlockNumber, QueryFilter, SyncHistoricalTrades,
     IncrementalSync, SyncFails, SaveLatestSyncedBlock
<1>4. saved \subseteq saved' /\ saved' \ saved \subseteq chain
  BY DEF MirrorInv, FoundOnChain, GetBlockNumber, QueryFilter, SyncHistoricalTrades,
     IncrementalSync, SyncFails, SaveTrades, Decoded
<1>5. PICK c \in {Idle} \cup SyncCall :
         /\ sync' = [sync EXCEPT ![s] = c]
         /\ c.at = "blocks" => c.found \subseteq chain
  <2>1. CASE GetBlockNumber(s)
    <3> DEFINE c == [sync[s] EXCEPT !.upTo = head, !.at = "query"]
    <3>1. c \in SyncCall /\ c.at = "query"
      BY <1>2 DEF SyncCall, MirrorInv
    <3> QED BY <2>1, <3>1 DEF GetBlockNumber, MirrorInv
  <2>2. CASE QueryFilter(s)
    <3> DEFINE found == {e \in chain : /\ e.block \in sync[s].from .. sync[s].upTo
                                       /\ Filter(sync[s].as, e)}
               c == [sync[s] EXCEPT !.found = found, !.at = "blocks"]
    <3>1. c \in SyncCall /\ c.found \subseteq chain
      BY <1>2 DEF SyncCall, MirrorInv
    <3>2. sync' = [sync EXCEPT ![s] = c]
      BY <2>2 DEF QueryFilter, MirrorInv
    <3> QED BY <3>1, <3>2
  <2>3. CASE SyncHistoricalTrades(s)
    <3> DEFINE trades == Decoded(sync[s].found)
               call == [sync[s] EXCEPT !.at = "mark", !.found = trades]
               c == IF trades = {} THEN Idle ELSE call
    <3>1. call \in SyncCall /\ call.at = "mark"
      BY <1>2 DEF SyncCall, Decoded
    <3>2. c \in {Idle} \cup SyncCall /\ c.at # "blocks"
      BY <3>1 DEF Idle
    <3>3. sync' = [sync EXCEPT ![s] = c]
      BY <2>3 DEF SyncHistoricalTrades, MirrorInv
    <3> QED BY <3>2, <3>3
  <2>4. CASE IncrementalSync(s) \/ SyncFails(s)
    <3>1. sync' = [sync EXCEPT ![s] = Idle]
      BY <2>4 DEF IncrementalSync, SyncFails
    <3>2. Idle.at # "blocks"
      BY DEF Idle
    <3> QED BY <3>1, <3>2
  <2> QED BY <2>1, <2>2, <2>3, <2>4
<1>6. sync' \in [Slots -> {Idle} \cup SyncCall] /\ FoundOnChain'
  BY <1>1, <1>5 DEF MirrorInv, FoundOnChain, SyncKeeps
<1>7. MirrorInv'
  BY <1>1, <1>3, <1>4, <1>6 DEF MirrorInv, HashesOnChain, JobsOnChain, SyncKeeps, client, listener
<1>8. Mirror!Write
  BY <1>1, <1>4 DEF Mirror!Write, SyncKeeps
<1> QED BY <1>7, <1>8 DEF MirrorStep, Mirror!Next

(* What the page does: no table changes, or a backup is made or restored.    *)
LEMMA PageStep ==
    ASSUME MirrorInv,
           \/ OpenPage \/ InitFails \/ ClosePage
           \/ \E u \in Users \cup {NoUser}, s \in Slots : InitChainSync(u, s)
           \/ \E s \in Slots : SyncInterval(s)
    PROVE  MirrorInv' /\ MirrorStep
<1>1. UNCHANGED <<chain, head, tables>>
  BY DEF OpenPage, InitFails, ClosePage, InitChainSync, SyncInterval
<1>2. \A u \in Users \cup {NoUser} : Asked(u) \in SyncCall /\ Asked(u).at # "blocks"
  BY DEF Asked, GetLatestSyncedBlock, SyncCall, MirrorInv
<1>3. Idle.at # "blocks"
  BY DEF Idle
<1>4. /\ sync' \in [Slots -> {Idle} \cup SyncCall] /\ FoundOnChain'
      /\ user' \in Users \cup {NoUser} /\ heard' \subseteq chain' /\ jobs' \subseteq jobs
  <2>1. CASE OpenPage \/ InitFails
    BY <1>1, <2>1 DEF OpenPage, InitFails, MirrorInv, FoundOnChain, client, listener
  <2>2. CASE ClosePage
    BY <1>3, <2>2 DEF ClosePage, Gone, MirrorInv, FoundOnChain
  <2>3. CASE \E u \in Users \cup {NoUser}, s \in Slots : InitChainSync(u, s)
    BY <1>1, <1>2, <2>3 DEF InitChainSync, MirrorInv, FoundOnChain, client
  <2>4. CASE \E s \in Slots : SyncInterval(s)
    BY <1>1, <1>2, <2>4 DEF SyncInterval, MirrorInv, FoundOnChain, client, listener
  <2> QED BY <2>1, <2>2, <2>3, <2>4
<1>5. MirrorInv'
  BY <1>1, <1>4 DEF MirrorInv, HashesOnChain, JobsOnChain, tables
<1> QED BY <1>1, <1>5 DEF MirrorStep, Mirror!vars, tables

LEMMA BackupStep ==
    ASSUME MirrorInv, HandleExport \/ HandleImport \/ HandleCleanup
    PROVE  MirrorInv' /\ MirrorStep
<1>1. CASE HandleExport
  <2>1. MirrorInv'
    BY <1>1 DEF HandleExport, MirrorInv, HashesOnChain, FoundOnChain, JobsOnChain, client, listener
  <2>2. Mirror!BackUp
    BY <1>1 DEF HandleExport, Mirror!BackUp
  <2> QED BY <2>1, <2>2 DEF MirrorStep, Mirror!Next
<1>2. CASE HandleImport
  <2>1. PICK c \in copy :
           /\ hash' = [d \in Deals |-> IF c.hash[d] = NoMatch THEN hash[d] ELSE c.hash[d]]
           /\ saved' = saved \cup c.saved
           /\ live' = IF c.live = {} THEN live ELSE c.live
    BY <1>2 DEF HandleImport
  <2>2. /\ jobs' = {} /\ heard' = {} /\ sync' = [s \in Slots |-> Idle] /\ user' = NoUser
        /\ UNCHANGED <<chain, head, position, copy>>
    BY <1>2 DEF HandleImport, Gone
  <2>3. hash' \in [Deals -> Nat \cup {NoMatch}] /\ HashesOnChain(hash)'
    BY <2>1, <2>2 DEF MirrorInv, HashesOnChain
  <2>4. FoundOnChain' /\ sync' \in [Slots -> {Idle} \cup SyncCall]
    BY <2>2 DEF FoundOnChain, Idle
  <2>5. MirrorInv'
    BY <2>1, <2>2, <2>3, <2>4 DEF MirrorInv, HashesOnChain, JobsOnChain
  <2>6. Mirror!Restore
    <3> DEFINE b == [hash |-> c.hash, saved |-> c.saved \cup c.live]
               backups == {[hash |-> k.hash, saved |-> k.saved \cup k.live] : k \in copy}
    <3>1. b \in backups /\ b.hash = c.hash /\ b.saved = c.saved \cup c.live
      OBVIOUS
    <3>2. /\ b.saved \subseteq saved' \cup live'
          /\ saved' \cup live' \subseteq (saved \cup live) \cup b.saved
      BY <2>1, <3>1
    <3>3. hash' = [d \in Deals |-> IF b.hash[d] = NoMatch THEN hash[d] ELSE b.hash[d]]
      BY <2>1, <3>1
    <3>4. chain' = chain /\ copy' = copy
      BY <2>2
    <3> HIDE DEF b
    <3> QED BY <3>1, <3>2, <3>3, <3>4 DEF Mirror!Restore
  <2> QED BY <2>5, <2>6 DEF MirrorStep, Mirror!Next
<1>3. CASE HandleCleanup
  <2>1. saved' \subseteq saved /\ live' \subseteq live
    BY <1>3 DEF HandleCleanup
  <2>2. MirrorInv'
    BY <1>3, <2>1 DEF HandleCleanup, MirrorInv, HashesOnChain, FoundOnChain, JobsOnChain, client,
       listener
  <2>3. Mirror!Write
    BY <1>3, <2>1 DEF HandleCleanup, Mirror!Write
  <2> QED BY <2>2, <2>3 DEF MirrorStep, Mirror!Next
<1> QED BY <1>1, <1>2, <1>3

LEMMA NextMirrors == MirrorInv /\ [Next]_vars => MirrorInv' /\ MirrorStep
<1> SUFFICES ASSUME MirrorInv, [Next]_vars PROVE MirrorInv' /\ MirrorStep
  OBVIOUS
<1>1. CASE UNCHANGED vars
  BY <1>1 DEF vars, tables, client, listener, MirrorInv, HashesOnChain, FoundOnChain,
     JobsOnChain, MirrorStep, Mirror!vars
<1>2. CASE \/ OpenPage \/ InitFails \/ ClosePage
           \/ \E u \in Users \cup {NoUser}, s \in Slots : InitChainSync(u, s)
           \/ \E s \in Slots : SyncInterval(s)
  BY <1>2, PageStep
<1>3. CASE HandleExport \/ HandleImport \/ HandleCleanup
  BY <1>3, BackupStep
<1>4. CASE \E d \in Deals : HandleMatch(d) \/ OthersSettle(d)
  BY <1>4, HandleMatchStep, OthersSettleStep
<1>5. CASE \E S \in SUBSET Mine : SettleTradesBatch(S)
  BY <1>5, SettleTradesBatchStep
<1>6. CASE Continue
  BY <1>6, JobWaitsStep, WaitMinedStep, WriteTxHashStep, HandleTradeEventStep, SyncSteps
     DEF Continue
<1> QED BY <1>1, <1>2, <1>3, <1>4, <1>5, <1>6 DEF Next

(* The tables of a browser implement TradeMirror: whatever the hook, the     *)
(* batch, the listener, the syncs and the backups do, a hash is that of a    *)
(* mined settlement of the trade and a confirmed trade is on the chain.      *)
THEOREM TablesMirrorChain == Spec => MirrorsChain
<1>1. Init => Mirror!Init
  BY DEF Init, Mirror!Init
<1> QED BY <1>1, InitMirrorInv, NextMirrors, PTL DEF Spec, MirrorsChain, Mirror!Spec, MirrorStep

-----------------------------------------------------------------------------
(* What a position b claims: nothing the askers wanted and could read is     *)
(* missing up to it.                                                         *)
Wanted(e) == e.deal \in Readable /\ \A u \in askers : Filter(u, e)
CompleteUpTo(b) == \A e \in chain : e.block <= b /\ Wanted(e) => e \in saved \cup cleaned

(* What a sync under way knows, by the point it has come to.                 *)
SyncKnows(q) ==
    /\ q.from <= head + 1 /\ CompleteUpTo(q.from - 1)
    /\ q.at \in {"query", "blocks", "mark"} => q.upTo <= head
    /\ q.at \in {"blocks", "mark"} =>
          /\ \A e \in Decoded(chain) :
                q.from <= e.block /\ e.block <= q.upTo /\ Filter(q.as, e) => e \in q.found
          /\ \A e \in q.found : q.from <= e.block /\ e.block <= q.upTo
    /\ q.at = "mark" => q.found \subseteq saved \cup cleaned

GapInv ==
    /\ position <= head /\ CompleteUpTo(position)
    /\ \A s \in Slots : sync[s] # Idle => SyncKnows(sync[s])

LEMMA InitGapInv == Init => GapInv
BY DEF Init, GapInv, CompleteUpTo, Idle

(* A step that moves neither the position nor a sync can only help: blocks   *)
(* are added above the head, rows leave the table only by a cleanup.         *)
LEMMA TablesGrow ==
    ASSUME MirrorInv, GapInv,
           head' \in Nat, head <= head', chain \subseteq chain',
           \A e \in chain' \ chain : e.block \in Nat /\ e.block > head,
           saved \cup cleaned \subseteq saved' \cup cleaned',
           askers \subseteq askers'
    PROVE  /\ \A b \in Nat : b <= head /\ CompleteUpTo(b) => CompleteUpTo(b)'
           /\ \A q \in SyncCall : SyncKnows(q) => SyncKnows(q)'
<1>1. \A b \in Nat : b <= head /\ CompleteUpTo(b) => CompleteUpTo(b)'
  BY DEF CompleteUpTo, Wanted, MirrorInv
<1>2. ASSUME NEW q \in SyncCall, SyncKnows(q) PROVE SyncKnows(q)'
  <2>1. /\ q.from \in Nat \ {0} /\ q.upTo \in Nat /\ head \in Nat
        /\ q.from <= head + 1
    BY <1>2 DEF SyncCall, SyncKnows, MirrorInv
  <2>2. CompleteUpTo(q.from - 1)'
    BY <1>1, <1>2, <2>1 DEF SyncKnows
  <2>3. q.at \in {"blocks", "mark"} =>
           \A e \in Decoded(chain') :
              q.from <= e.block /\ e.block <= q.upTo /\ Filter(q.as, e) => e \in q.found
    BY <1>2, <2>1 DEF SyncKnows, Decoded
  <2>4. q.from <= head' + 1 /\ (q.at \in {"query", "blocks", "mark"} => q.upTo <= head')
    BY <1>2, <2>1 DEF SyncKnows
  <2> QED BY <1>2, <2>2, <2>3, <2>4 DEF SyncKnows, Filter, Decoded
<1> QED BY <1>1, <1>2

LEMMA NewSyncKnows ==
    ASSUME MirrorInv, GapInv, NEW u \in Users \cup {NoUser}
    PROVE  Asked(u) \in SyncCall /\ SyncKnows(Asked(u))
BY DEF Asked, GetLatestSyncedBlock, SyncCall, SyncKnows, MirrorInv, GapInv

(* Every step but those of a sync.                                           *)
LEMMA OtherStepsKeepGapInv ==
    ASSUME MirrorInv, GapInv, MirrorInv',
           UNCHANGED <<position, askers>>,
           head' \in Nat, head <= head', chain \subseteq chain',
           \A e \in chain' \ chain : e.block \in Nat /\ e.block > head,
           saved \cup cleaned \subseteq saved' \cup cleaned',
           \A s \in Slots : \/ sync'[s] \in {sync[s], Idle}
                            \/ \E u \in Users \cup {NoUser} : sync'[s] = Asked(u)
    PROVE  GapInv'
<1>1. position \in Nat /\ position <= head /\ head \in Nat
  BY DEF MirrorInv, GapInv
<1>2. position' <= head' /\ CompleteUpTo(position)'
  <2>1. CompleteUpTo(position) /\ position' = position
    BY DEF GapInv
  <2>2. \A b \in Nat : b <= head /\ CompleteUpTo(b) => CompleteUpTo(b)'
    BY TablesGrow
  <2>3. \A e \in chain' : e.block <= position /\ Wanted(e)' => e \in saved' \cup cleaned'
    BY <1>1, <2>1, <2>2 DEF CompleteUpTo
  <2> QED BY <1>1, <2>1, <2>3 DEF CompleteUpTo
<1>3. ASSUME NEW s \in Slots, sync'[s] # Idle PROVE SyncKnows(sync[s])'
  <2>1. CASE sync'[s] = sync[s]
    <3>1. sync[s] \in SyncCall /\ SyncKnows(sync[s])
      BY <1>3, <2>1 DEF MirrorInv, GapInv
    <3>2. SyncKnows(sync[s])'
      BY <2>1, <3>1, TablesGrow DEF SyncKnows, CompleteUpTo, Wanted
    <3> QED BY <3>2
  <2>2. CASE \E u \in Users \cup {NoUser} : sync'[s] = Asked(u)
    <3>1. PICK u \in Users \cup {NoUser} : sync'[s] = Asked(u)
      BY <2>2
    <3> DEFINE q == Asked(u)
    <3>2. q \in SyncCall /\ SyncKnows(q)
      BY NewSyncKnows
    <3> QED BY <3>1, <3>2, TablesGrow DEF SyncKnows, CompleteUpTo, Wanted
  <2> QED BY <1>3, <2>1, <2>2
<1> QED BY <1>2, <1>3 DEF GapInv

(* A step of the sync in slot s that leaves the position where it is.        *)
LEMMA OneSyncKnows ==
    ASSUME MirrorInv, GapInv, NEW s \in Slots, NEW q,
           UNCHANGED <<chain, head, position, cleaned, askers>>, saved \subseteq saved',
           sync' = [sync EXCEPT ![s] = q], q = Idle \/ SyncKnows(q)'
    PROVE  GapInv'
<1>1. \A b : CompleteUpTo(b) => CompleteUpTo(b)'
  BY DEF CompleteUpTo, Wanted
<1>2. ASSUME NEW r \in Slots, sync'[r] # Idle PROVE SyncKnows(sync[r])'
  <2>1. CASE r = s
    BY <1>2, <2>1 DEF MirrorInv
  <2>2. CASE r # s
    <3>1. sync'[r] = sync[r]
      BY <2>2 DEF MirrorInv
    <3>2. SyncKnows(sync[r])
      BY <1>2, <3>1 DEF GapInv
    <3> QED BY <1>1, <3>1, <3>2 DEF SyncKnows
  <2> QED BY <2>1, <2>2
<1> QED BY <1>1, <1>2 DEF GapInv

LEMMA SyncStepsKeepGapInv ==
    ASSUME MirrorInv, GapInv, NEW s \in Slots,
           \/ GetBlockNumber(s) \/ QueryFilter(s) \/ SyncHistoricalTrades(s) \/ SyncFails(s)
    PROVE  GapInv'
<1>1. UNCHANGED <<chain, head, position, cleaned, askers>> /\ saved \subseteq saved'
  BY DEF GetBlockNumber, QueryFilter, SyncHistoricalTrades, SyncFails, SyncKeeps, SaveTrades
<1>2. sync[s] \in SyncCall /\ SyncKnows(sync[s])
  <2>1. sync[s] # Idle
    BY DEF GetBlockNumber, QueryFilter, SyncHistoricalTrades, SyncFails, Idle
  <2> QED BY <2>1 DEF MirrorInv, GapInv
<1>3. \A b : CompleteUpTo(b) => CompleteUpTo(b)'
  BY <1>1 DEF CompleteUpTo, Wanted
<1>4. CASE GetBlockNumber(s)
  <2> DEFINE call == [sync[s] EXCEPT !.upTo = head, !.at = "query"]
  <2>1. PICK q : q = call
    OBVIOUS
  <2>2. q.at = "query" /\ q.from = sync[s].from /\ q.upTo = head
    BY <1>2, <2>1 DEF SyncCall
  <2>3. sync' = [sync EXCEPT ![s] = q]
    BY <1>4, <2>1 DEF GetBlockNumber, MirrorInv
  <2> HIDE DEF call
  <2>4. SyncKnows(q)'
    BY <1>1, <1>2, <1>3, <2>2 DEF SyncKnows, MirrorInv
  <2> QED BY <1>1, <2>3, <2>4, OneSyncKnows
<1>5. CASE QueryFilter(s)
  <2> DEFINE found == {e \in chain : /\ e.block \in sync[s].from .. sync[s].upTo
                                     /\ Filter(sync[s].as, e)}
             call == [sync[s] EXCEPT !.found = found, !.at = "blocks"]
  <2>0. PICK q : q = call
    OBVIOUS
  <2>1. /\ q.at = "blocks" /\ q.from = sync[s].from /\ q.upTo = sync[s].upTo
        /\ q.as = sync[s].as /\ q.found = found
    BY <1>2, <2>0 DEF SyncCall
  <2>2. sync' = [sync EXCEPT ![s] = q]
    BY <1>5, <2>0 DEF QueryFilter, MirrorInv
  <2>3. /\ sync[s].from \in Nat /\ sync[s].upTo \in Nat /\ sync[s].upTo <= head
        /\ \A e \in chain : e.block \in Nat
    BY <1>2, <1>5 DEF SyncCall, SyncKnows, QueryFilter, MirrorInv
  <2>4. SyncKnows(q)'
    <3>1. \A e \in Decoded(chain) :
             q.from <= e.block /\ e.block <= q.upTo /\ Filter(q.as, e) => e \in q.found
      BY <2>1, <2>3 DEF Decoded
    <3>2. \A e \in q.found : q.from <= e.block /\ e.block <= q.upTo
      BY <2>1, <2>3
    <3> HIDE DEF call, found
    <3> QED BY <1>1, <1>2, <1>3, <2>1, <2>3, <3>1, <3>2 DEF SyncKnows, Filter
  <2> QED BY <1>1, <2>2, <2>4, OneSyncKnows
<1>6. CASE SyncHistoricalTrades(s)
  <2> DEFINE trades == Decoded(sync[s].found)
             call == [sync[s] EXCEPT !.at = "mark", !.found = trades]
  <2>0. PICK q : q = call
    OBVIOUS
  <2>1. CASE trades = {}
    <3>1. sync' = [sync EXCEPT ![s] = Idle]
      BY <1>6, <2>1 DEF SyncHistoricalTrades
    <3> QED BY <1>1, <3>1, OneSyncKnows
  <2>2. CASE trades # {}
    <3>1. /\ q.at = "mark" /\ q.from = sync[s].from /\ q.upTo = sync[s].upTo
          /\ q.as = sync[s].as /\ q.found = trades
      BY <1>2, <2>0 DEF SyncCall
    <3>2. sync' = [sync EXCEPT ![s] = q] /\ trades \subseteq saved'
      BY <1>6, <2>0, <2>2 DEF SyncHistoricalTrades, SaveTrades, MirrorInv
    <3>3. SyncKnows(q)'
      <4>1. sync[s].at = "blocks"
        BY <1>6 DEF SyncHistoricalTrades
      <4> HIDE DEF call
      <4> QED BY <1>1, <1>2, <1>3, <3>1, <3>2, <4>1 DEF SyncKnows, Filter, Decoded
    <3> QED BY <1>1, <3>2, <3>3, OneSyncKnows
  <2> QED BY <2>1, <2>2
<1>7. CASE SyncFails(s)
  BY <1>1, <1>7, OneSyncKnows DEF SyncFails
<1> QED BY <1>4, <1>5, <1>6, <1>7

(* The position moves to the last block found: below the range every asker's *)
(* trades were complete when the sync began, within it they were found.      *)
LEMMA IncrementalSyncKeepsGapInv ==
    ASSUME MirrorInv, GapInv, NEW s \in Slots, IncrementalSync(s)
    PROVE  GapInv'
<1> DEFINE q == sync[s]
<1>1. q \in SyncCall /\ SyncKnows(q) /\ q.at = "mark"
  <2>1. q.at = "mark" /\ q # Idle
    BY DEF IncrementalSync, Idle
  <2> QED BY <2>1 DEF MirrorInv, GapInv
<1>2. /\ UNCHANGED <<chain, head, saved, cleaned>> /\ askers' = askers \cup {q.as}
      /\ sync' = [sync EXCEPT ![s] = Idle]
  BY DEF IncrementalSync, SyncKeeps
<1>3. PICK e0 \in q.found : position' = e0.block /\ \A f \in q.found : f.block <= e0.block
  BY DEF IncrementalSync, LastBlock, SaveLatestSyncedBlock
<1>4. /\ q.from \in Nat \ {0} /\ q.upTo \in Nat /\ e0.block \in Nat /\ head \in Nat
      /\ \A e \in chain : e.block \in Nat
  BY <1>1 DEF SyncCall, MirrorInv
<1>5. q.upTo <= head /\ e0.block <= q.upTo /\ q.found \subseteq saved \cup cleaned
  BY <1>1, <1>3 DEF SyncKnows
<1>6. \A b : CompleteUpTo(b) => CompleteUpTo(b)'
  BY <1>2 DEF CompleteUpTo, Wanted
<1>7. CompleteUpTo(position)'
  <2> SUFFICES ASSUME NEW e \in chain, e.block <= e0.block,
                      e.deal \in Readable, \A u \in askers \cup {q.as} : Filter(u, e)
               PROVE  e \in saved \cup cleaned
    BY <1>2, <1>3 DEF CompleteUpTo, Wanted, Filter
  <2>1. CASE e.block < q.from
    <3>1. e.block <= q.from - 1
      BY <1>4, <2>1
    <3>2. CompleteUpTo(q.from - 1)
      BY <1>1 DEF SyncKnows
    <3> QED BY <3>1, <3>2 DEF CompleteUpTo, Wanted
  <2>2. CASE q.from <= e.block
    <3>1. e.block <= q.upTo /\ Filter(q.as, e)
      BY <1>4, <1>5
    <3> QED BY <1>1, <1>5, <2>2, <3>1 DEF SyncKnows, Decoded
  <2> QED BY <1>4, <2>1, <2>2
<1>8. ASSUME NEW r \in Slots, sync'[r] # Idle PROVE SyncKnows(sync[r])'
  <2>1. sync'[r] = sync[r]
    BY <1>2, <1>8 DEF MirrorInv
  <2>2. SyncKnows(sync[r])
    BY <1>8, <2>1 DEF GapInv
  <2> QED BY <1>2, <1>6, <2>1, <2>2 DEF SyncKnows, Filter
<1> QED BY <1>2, <1>3, <1>4, <1>5, <1>7, <1>8 DEF GapInv

LEMMA NextKeepsGapInv == MirrorInv /\ GapInv /\ [Next]_vars => GapInv'
<1> SUFFICES ASSUME MirrorInv, GapInv, [Next]_vars PROVE GapInv'
  OBVIOUS
<1>1. MirrorInv'
  BY NextMirrors
<1>2. head \in Nat /\ DOMAIN sync = Slots
  BY DEF MirrorInv
<1>3. CASE UNCHANGED vars
  BY <1>1, <1>2, <1>3, OtherStepsKeepGapInv DEF vars, tables
<1>4. CASE OpenPage \/ InitFails \/ ClosePage
  BY <1>1, <1>2, <1>4, OtherStepsKeepGapInv DEF OpenPage, InitFails, ClosePage, Gone, tables
<1>5. CASE \E u \in Users \cup {NoUser}, s \in Slots : InitChainSync(u, s)
  BY <1>1, <1>2, <1>5, OtherStepsKeepGapInv DEF InitChainSync, tables, MirrorInv
<1>6. CASE \E s \in Slots : SyncInterval(s)
  BY <1>1, <1>2, <1>6, OtherStepsKeepGapInv DEF SyncInterval, tables, MirrorInv
<1>7. CASE HandleExport \/ HandleCleanup
  BY <1>1, <1>2, <1>7, OtherStepsKeepGapInv DEF HandleExport, HandleCleanup
<1>8. CASE HandleImport
  BY <1>1, <1>2, <1>8, OtherStepsKeepGapInv DEF HandleImport, Gone
<1>9. CASE \E d \in Deals : HandleMatch(d) \/ OthersSettle(d)
  BY <1>1, <1>2, <1>9, OtherStepsKeepGapInv DEF HandleMatch, OthersSettle, tables
<1>10. CASE \E S \in SUBSET Mine : SettleTradesBatch(S)
  BY <1>1, <1>2, <1>10, OtherStepsKeepGapInv DEF SettleTradesBatch, tables
<1>11. CASE \E j \in jobs : SendTransaction(j) \/ WaitMined(j) \/ WaitFailed(j) \/ WriteTxHash(j)
  <2>1. PICK j \in jobs : SendTransaction(j) \/ WaitMined(j) \/ WaitFailed(j) \/ WriteTxHash(j)
    BY <1>11
  <2>2. CASE SendTransaction(j) \/ WaitFailed(j) \/ WriteTxHash(j)
    BY <1>1, <1>2, <2>2, OtherStepsKeepGapInv DEF SendTransaction, WaitFailed, WriteTxHash, tables
  <2>3. CASE WaitMined(j)
    BY <1>1, <1>2, <2>3, OtherStepsKeepGapInv DEF WaitMined, tables
  <2> QED BY <2>1, <2>2, <2>3
<1>12. CASE \E e \in heard : HandleTradeEvent(e)
  BY <1>1, <1>2, <1>12, OtherStepsKeepGapInv DEF HandleTradeEvent, SaveTrade
<1>13. CASE \E s \in Slots : \/ GetBlockNumber(s) \/ QueryFilter(s) \/ SyncHistoricalTrades(s)
                             \/ IncrementalSync(s) \/ SyncFails(s)
  BY <1>13, SyncStepsKeepGapInv, IncrementalSyncKeepsGapInv
<1> QED BY <1>3, <1>4, <1>5, <1>6, <1>7, <1>8, <1>9, <1>10, <1>11, <1>12, <1>13
        DEF Next, Continue

(* The saved position leaves no gap, for any number of overlapping syncs of  *)
(* any accounts and any set of trades whose logs can be decoded: those they  *)
(* asked for up to it are in the table, or were cleaned up from there        *)
(* (incrementalSync, syncHistoricalTrades).                                  *)
THEOREM SyncedUpToPosition == Spec => []SyncLeavesNoGap
<1>1. GapInv => SyncLeavesNoGap
  BY DEF GapInv, SyncLeavesNoGap, CompleteUpTo, Wanted, Decoded
<1> QED BY <1>1, InitMirrorInv, InitGapInv, NextMirrors, NextKeepsGapInv, PTL DEF Spec

-----------------------------------------------------------------------------
LEMMA NextHookSettlesOne ==
    MirrorInv /\ HookSettlesOne /\ [Next]_vars => HookSettlesOne'
<1> SUFFICES ASSUME MirrorInv, HookSettlesOne, [Next]_vars PROVE HookSettlesOne'
  OBVIOUS
<1> DEFINE Job == [by : {"hook", "batch"}, left : SUBSET Mine,
                   at : {"send", "wait", "write"}, block : Nat]
<1>1. jobs \subseteq Job
  BY DEF MirrorInv, JobsOnChain
<1>2. CASE UNCHANGED client
  BY <1>2 DEF client, HookSettlesOne
<1>3. CASE ClosePage \/ HandleImport
  BY <1>3 DEF ClosePage, HandleImport, Gone, HookSettlesOne
<1>4. CASE \E d \in Deals : HandleMatch(d)
  <2>1. PICK d \in Deals : HandleMatch(d)
    BY <1>4
  <2>2. CASE user = NoUser \/ settling
    BY <1>2, <2>1, <2>2 DEF HandleMatch
  <2>3. CASE ~(user = NoUser \/ settling)
    <3> DEFINE k == [by |-> "hook", left |-> {d}, at |-> "send", block |-> 0]
    <3>1. jobs' = jobs \cup {k} /\ settling' = TRUE /\ k.by = "hook"
      BY <2>1, <2>3 DEF HandleMatch, SettleTrade
    <3>2. \A j \in jobs : j.by # "hook"
      BY <2>3 DEF HookSettlesOne
    <3> HIDE DEF k
    <3> QED BY <3>1, <3>2 DEF HookSettlesOne
  <2> QED BY <2>2, <2>3
<1>5. CASE \E S \in SUBSET Mine : SettleTradesBatch(S)
  BY <1>5 DEF SettleTradesBatch, HookSettlesOne
<1>6. ASSUME NEW j \in jobs, EndJob(j) PROVE HookSettlesOne'
  BY <1>6 DEF EndJob, Replace, HookSettlesOne
<1>7. ASSUME NEW j \in jobs, NEW k, k.by = j.by, Replace(j, {k}), UNCHANGED settling
      PROVE  HookSettlesOne'
  <2>1. \A i \in jobs' : i = k \/ (i \in jobs /\ i # j)
    BY <1>7 DEF Replace
  <2>2. \A i \in jobs' : \A l \in jobs' : i.by = "hook" /\ l.by = "hook" => i = l
    BY <1>7, <2>1 DEF HookSettlesOne
  <2>3. settling' => \E i \in jobs' : i.by = "hook"
    <3>1. \A i \in jobs : i = j \/ i \in jobs'
      BY <1>7 DEF Replace
    <3>2. k \in jobs'
      BY <1>7 DEF Replace
    <3> QED BY <1>7, <3>1, <3>2 DEF HookSettlesOne
  <2>4. (\E i \in jobs' : i.by = "hook") => settling'
    BY <1>7, <2>1 DEF HookSettlesOne
  <2> QED BY <2>2, <2>3, <2>4 DEF HookSettlesOne
<1>8. CASE \E j \in jobs : SendTransaction(j) \/ WaitMined(j) \/ WaitFailed(j) \/ WriteTxHash(j)
  <2>1. PICK j \in jobs : SendTransaction(j) \/ WaitMined(j) \/ WaitFailed(j) \/ WriteTxHash(j)
    BY <1>8
  <2>2. j \in Job
    BY <1>1
  <2>3. CASE SendTransaction(j)
    <3>1. [j EXCEPT !.at = "wait"].by = j.by
      BY <2>2
    <3> QED BY <1>6, <1>7, <2>3, <3>1 DEF SendTransaction
  <2>4. CASE WaitMined(j)
    <3>1. [j EXCEPT !.at = "write", !.block = head + 1].by = j.by
      BY <2>2
    <3> QED BY <1>7, <2>4, <3>1 DEF WaitMined
  <2>5. CASE WriteTxHash(j)
    <3>1. \A d : [j EXCEPT !.left = @ \ {d}].by = j.by
      BY <2>2
    <3> QED BY <1>6, <1>7, <2>5, <3>1 DEF WriteTxHash
  <2> QED BY <1>6, <2>1, <2>3, <2>4, <2>5 DEF WaitFailed
<1> QED BY <1>2, <1>3, <1>4, <1>5, <1>8 DEF Next, Continue, vars, client, OpenPage, InitFails,
       HandleExport, HandleCleanup, InitChainSync, SyncInterval, OthersSettle, HandleTradeEvent,
       GetBlockNumber, QueryFilter, SyncHistoricalTrades, IncrementalSync, SyncFails, SyncKeeps

(* However announcements, refusals, reverts and reloads interleave, the hook *)
(* has at most one settlement under way, and its ref says whether it has.    *)
THEOREM HookNeverOverlaps == Spec => []HookSettlesOne
<1>1. Init => HookSettlesOne
  BY DEF Init, HookSettlesOne
<1> QED BY <1>1, InitMirrorInv, NextMirrors, NextHookSettlesOne, PTL DEF Spec


-----------------------------------------------------------------------------
(* Types. A block number is one of the chain, wherever it has got to.        *)
BackupTyped ==
    copy \subseteq [hash : [Deals -> Nat \cup {NoMatch}], saved : SUBSET Event,
                    live : SUBSET Event]
PageTyped ==
    /\ page \in {"closed", "asking", "open"} /\ opens \in 0 .. MaxOpens
    /\ settling \in BOOLEAN /\ listening \in BOOLEAN
JobsBounded == \A j \in jobs : j.block <= MaxBlock
SyncsBounded ==
    \A s \in Slots : sync[s] # Idle => sync[s].upTo <= MaxBlock /\ sync[s].found \subseteq Event
HistoryTyped == cleaned \subseteq Event /\ askers \subseteq Users \cup {NoUser}
TypeInv ==
    /\ head <= MaxBlock
    /\ BackupTyped /\ PageTyped /\ JobsBounded /\ SyncsBounded /\ HistoryTyped

LEMMA ChainTyped ==
    MirrorInv /\ head <= MaxBlock
        => chain \subseteq Event /\ saved \subseteq Event /\ live \subseteq Event
<1> SUFFICES ASSUME MirrorInv, head <= MaxBlock PROVE chain \subseteq Event
  BY DEF MirrorInv
<1>1. ASSUME NEW e \in chain PROVE e \in Event
  <2>1. e \in [deal : Deals, block : Nat \ {0}] /\ e.block <= head /\ head \in Nat
    BY <1>1 DEF MirrorInv
  <2>2. e.block \in 1 .. MaxBlock
    BY <2>1, SettleAssumption DEF SettleAssumption
  <2> QED BY <2>1, <2>2 DEF Event
<1> QED BY <1>1

LEMMA InitTypeInv == Init => TypeInv
<1> SUFFICES ASSUME Init PROVE TypeInv
  OBVIOUS
<1>1. head = 0 /\ copy = {} /\ cleaned = {} /\ askers = {} /\ jobs = {}
  BY DEF Init
<1>2. page = "closed" /\ opens = 0 /\ settling = FALSE /\ listening = FALSE
  BY DEF Init
<1>3. \A s \in Slots : sync[s] = Idle
  BY DEF Init
<1>4. MaxBlock \in Nat /\ MaxOpens \in Nat
  BY SettleAssumption DEF SettleAssumption
<1>5. PageTyped
  <2>1. page \in {"closed", "asking", "open"}
    BY <1>2
  <2>2. opens \in 0 .. MaxOpens
    BY <1>2, <1>4
  <2>3. settling \in BOOLEAN /\ listening \in BOOLEAN
    BY <1>2
  <2> QED BY <2>1, <2>2, <2>3 DEF PageTyped
<1> QED BY <1>1, <1>3, <1>4, <1>5
        DEF TypeInv, BackupTyped, JobsBounded, SyncsBounded, HistoryTyped

(* What a step leaves alone keeps its types.                                 *)
LEMMA TypeFrames ==
    ASSUME TypeInv
    PROVE  /\ UNCHANGED head => head' <= MaxBlock
           /\ UNCHANGED copy => BackupTyped'
           /\ UNCHANGED <<page, opens, settling, listening>> => PageTyped'
           /\ UNCHANGED jobs => JobsBounded'
           /\ UNCHANGED sync => SyncsBounded'
           /\ UNCHANGED <<cleaned, askers>> => HistoryTyped'
BY DEF TypeInv, BackupTyped, PageTyped, JobsBounded, SyncsBounded, HistoryTyped, Event, Idle

LEMMA SettlingStays ==
    ASSUME TypeInv, UNCHANGED <<page, opens, listening>>, settling' \in BOOLEAN
    PROVE  PageTyped'
BY DEF TypeInv, PageTyped

(* The calls that settle.                                                    *)
LEMMA JobsKeepTypes ==
    ASSUME MirrorInv, TypeInv,
           \/ \E d \in Deals : HandleMatch(d)
           \/ \E S \in SUBSET Mine : SettleTradesBatch(S)
           \/ \E j \in jobs : SendTransaction(j) \/ WaitMined(j) \/ WaitFailed(j) \/ WriteTxHash(j)
    PROVE  TypeInv'
<1>1. /\ UNCHANGED <<copy, cleaned, askers, page, opens, listening, sync>>
      /\ settling' \in BOOLEAN
  <2>1. settling \in BOOLEAN
    BY DEF TypeInv, PageTyped
  <2> QED BY <2>1
     DEF HandleMatch, SettleTradesBatch, SendTransaction, WaitMined, WaitFailed, WriteTxHash,
         tables, client, listener, EndJob
<1>2. MaxBlock \in Nat /\ head \in Nat
  BY SettleAssumption DEF SettleAssumption, MirrorInv
<1>3. head' <= MaxBlock
  <2>1. CASE \E j \in jobs : WaitMined(j)
    <3>1. head < MaxBlock /\ head' = head + 1
      BY <2>1 DEF WaitMined
    <3> QED BY <1>2, <3>1
  <2>2. CASE UNCHANGED head
    BY <2>2 DEF TypeInv
  <2> QED BY <2>1, <2>2
     DEF HandleMatch, SettleTradesBatch, SendTransaction, WaitFailed, WriteTxHash
<1>4. \A j \in jobs' : \/ j.block = 0 \/ (\E i \in jobs : j.block = i.block)
                        \/ (j.block = head + 1 /\ head < MaxBlock)
  <2>1. ASSUME NEW d \in Deals, HandleMatch(d)
        PROVE  \A j \in jobs' : j.block = 0 \/ (\E i \in jobs : j.block = i.block)
    BY <2>1 DEF HandleMatch, SettleTrade, client
  <2>2. ASSUME NEW S \in SUBSET Mine, SettleTradesBatch(S)
        PROVE  \A j \in jobs' : j.block = 0 \/ (\E i \in jobs : j.block = i.block)
    BY <2>2 DEF SettleTradesBatch
  <2>3. ASSUME NEW j \in jobs,
               SendTransaction(j) \/ WaitMined(j) \/ WaitFailed(j) \/ WriteTxHash(j)
        PROVE  \A k \in jobs' : \/ k.block = 0 \/ (\E i \in jobs : k.block = i.block)
                                \/ (k.block = head + 1 /\ head < MaxBlock)
    <3>1. j \in [by : {"hook", "batch"}, left : SUBSET Mine,
                 at : {"send", "wait", "write"}, block : Nat]
      BY DEF MirrorInv, JobsOnChain
    <3>2. CASE jobs' = jobs \ {j}
      BY <3>2
    <3>3. CASE SendTransaction(j) \/ WaitFailed(j)
      <4>1. jobs' = jobs \ {j} \/ jobs' = (jobs \ {j}) \cup {[j EXCEPT !.at = "wait"]}
        BY <3>3 DEF SendTransaction, WaitFailed, Replace, EndJob
      <4> QED BY <3>1, <4>1
    <3>4. CASE WriteTxHash(j)
      <4>1. PICK d \in j.left :
              jobs' = jobs \ {j} \/ jobs' = (jobs \ {j}) \cup {[j EXCEPT !.left = @ \ {d}]}
        BY <3>4 DEF WriteTxHash, Replace, EndJob
      <4> QED BY <3>1, <4>1
    <3>5. CASE WaitMined(j)
      <4>1. PICK k : k = [j EXCEPT !.at = "write", !.block = head + 1]
        OBVIOUS
      <4>2. k.block = head + 1
        BY <3>1, <4>1
      <4>3. jobs' = (jobs \ {j}) \cup {k} /\ head < MaxBlock
        BY <3>5, <4>1 DEF WaitMined, Replace
      <4> QED BY <4>2, <4>3
    <3> QED BY <2>3, <3>3, <3>4, <3>5
  <2> QED BY <2>1, <2>2, <2>3
<1>5. JobsBounded'
  BY <1>2, <1>4 DEF TypeInv, JobsBounded
<1> QED BY <1>1, <1>3, <1>5, TypeFrames, SettlingStays DEF TypeInv

(* A sync, or the page that starts one: one slot at a time.                  *)
LEMMA SlotBounded ==
    ASSUME MirrorInv, TypeInv, NEW s \in Slots, NEW q, sync' = [sync EXCEPT ![s] = q],
           q = Idle \/ (q.upTo <= MaxBlock /\ q.found \subseteq Event)
    PROVE  SyncsBounded'
BY DEF MirrorInv, TypeInv, SyncsBounded, Event, Idle

LEMMA SyncsKeepTypes ==
    ASSUME MirrorInv, TypeInv, NEW s \in Slots,
           \/ GetBlockNumber(s) \/ QueryFilter(s) \/ SyncHistoricalTrades(s)
           \/ IncrementalSync(s) \/ SyncFails(s)
    PROVE  TypeInv'
<1>1. SyncKeeps /\ UNCHANGED cleaned
  BY DEF GetBlockNumber, QueryFilter, SyncHistoricalTrades, IncrementalSync, SyncFails
<1>2. sync[s] \in SyncCall /\ sync[s] # Idle
  BY DEF MirrorInv, Idle, GetBlockNumber, QueryFilter, SyncHistoricalTrades, IncrementalSync,
         SyncFails
<1>3. sync[s].upTo <= MaxBlock /\ sync[s].found \subseteq Event /\ head <= MaxBlock
  BY <1>2 DEF TypeInv, SyncsBounded
<1>4. HistoryTyped'
  <2>1. askers' \subseteq Users \cup {NoUser}
    <3>1. sync[s].as \in Users \cup {NoUser} /\ askers \subseteq Users \cup {NoUser}
      BY <1>2 DEF SyncCall, TypeInv, HistoryTyped
    <3> QED BY <3>1
       DEF GetBlockNumber, QueryFilter, SyncHistoricalTrades, IncrementalSync, SyncFails
  <2> QED BY <1>1, <2>1 DEF TypeInv, HistoryTyped, Event
<1>5. SyncsBounded'
  <2>1. CASE GetBlockNumber(s)
    <3>1. PICK q : q = [sync[s] EXCEPT !.upTo = head, !.at = "query"]
      OBVIOUS
    <3>2. q.upTo = head /\ q.found = sync[s].found
      BY <1>2, <3>1 DEF SyncCall
    <3>3. sync' = [sync EXCEPT ![s] = q]
      BY <2>1, <3>1 DEF GetBlockNumber, MirrorInv
    <3> QED BY <1>3, <3>2, <3>3, SlotBounded
  <2>2. CASE QueryFilter(s)
    <3> DEFINE found == {e \in chain : /\ e.block \in sync[s].from .. sync[s].upTo
                                       /\ Filter(sync[s].as, e)}
    <3>1. PICK q : q = [sync[s] EXCEPT !.found = found, !.at = "blocks"]
      OBVIOUS
    <3>2. q.upTo = sync[s].upTo /\ q.found = found
      BY <1>2, <3>1 DEF SyncCall
    <3>3. sync' = [sync EXCEPT ![s] = q]
      BY <2>2, <3>1 DEF QueryFilter, MirrorInv
    <3>4. found \subseteq Event
      BY <1>3, ChainTyped
    <3> HIDE DEF found
    <3> QED BY <1>3, <3>2, <3>3, <3>4, SlotBounded
  <2>3. CASE SyncHistoricalTrades(s)
    <3>1. PICK q : q = [sync[s] EXCEPT !.at = "mark", !.found = Decoded(sync[s].found)]
      OBVIOUS
    <3>2. q.upTo = sync[s].upTo /\ q.found \subseteq sync[s].found
      BY <1>2, <3>1 DEF SyncCall, Decoded
    <3>3. sync' = [sync EXCEPT ![s] = q] \/ sync' = [sync EXCEPT ![s] = Idle]
      BY <2>3, <3>1 DEF SyncHistoricalTrades, MirrorInv
    <3> QED BY <1>3, <3>2, <3>3, SlotBounded
  <2>4. CASE IncrementalSync(s) \/ SyncFails(s)
    BY <2>4, SlotBounded DEF IncrementalSync, SyncFails
  <2> QED BY <2>1, <2>2, <2>3, <2>4
<1>6. UNCHANGED <<head, copy, page, opens, settling, listening, jobs>>
  BY <1>1 DEF SyncKeeps, client, listener
<1> QED BY <1>4, <1>5, <1>6, TypeFrames DEF TypeInv

LEMMA PagesKeepTypes ==
    ASSUME MirrorInv, TypeInv,
           \/ OpenPage \/ InitFails \/ ClosePage \/ HandleExport \/ HandleImport \/ HandleCleanup
           \/ \E u \in Users \cup {NoUser}, s \in Slots : InitChainSync(u, s)
           \/ \E s \in Slots : SyncInterval(s)
    PROVE  TypeInv'
<1>1. UNCHANGED <<head, askers>>
  BY DEF OpenPage, InitFails, ClosePage, HandleExport, HandleImport, HandleCleanup,
         InitChainSync, SyncInterval, tables
<1>2. BackupTyped'
  <2>1. CASE UNCHANGED copy
    BY <2>1, TypeFrames
  <2>2. CASE copy' = {[hash |-> hash, saved |-> saved, live |-> live]}
    <3>1. /\ hash \in [Deals -> Nat \cup {NoMatch}]
          /\ saved \in SUBSET Event /\ live \in SUBSET Event
      BY ChainTyped DEF MirrorInv, TypeInv
    <3>2. [hash |-> hash, saved |-> saved, live |-> live]
             \in [hash : [Deals -> Nat \cup {NoMatch}], saved : SUBSET Event,
                  live : SUBSET Event]
      BY <3>1
    <3> QED BY <2>2, <3>2 DEF BackupTyped, Event
  <2> QED BY <2>1, <2>2
     DEF OpenPage, InitFails, ClosePage, HandleExport, HandleImport, HandleCleanup,
         InitChainSync, SyncInterval, tables
<1>3. PageTyped'
  <2>1. /\ page' \in {"closed", "asking", "open"} /\ settling' \in BOOLEAN
        /\ listening' \in BOOLEAN
    BY DEF TypeInv, PageTyped, OpenPage, InitFails, ClosePage, HandleExport, HandleImport,
           HandleCleanup, InitChainSync, SyncInterval, client, listener, Gone
  <2>2. opens' = opens \/ (opens < MaxOpens /\ opens' = opens + 1)
    BY DEF OpenPage, InitFails, ClosePage, HandleExport, HandleImport,
           HandleCleanup, InitChainSync, SyncInterval
  <2>3. opens' \in 0 .. MaxOpens
    BY <2>2, SettleAssumption DEF TypeInv, PageTyped, SettleAssumption
  <2> QED BY <2>1, <2>3 DEF PageTyped
<1>4. JobsBounded'
  <2>1. jobs' = jobs \/ jobs' = {}
    BY DEF OpenPage, InitFails, ClosePage, HandleExport, HandleImport, HandleCleanup,
           InitChainSync, SyncInterval, client, Gone
  <2> QED BY <2>1 DEF TypeInv, JobsBounded
<1>5. SyncsBounded'
  <2>1. CASE UNCHANGED sync
    BY <2>1, TypeFrames
  <2>2. CASE sync' = [s \in Slots |-> Idle]
    BY <2>2 DEF SyncsBounded
  <2>3. ASSUME NEW s \in Slots, NEW u \in Users \cup {NoUser},
               sync' = [sync EXCEPT ![s] = Asked(u)]
        PROVE  SyncsBounded'
    <3>1. PICK q : q = Asked(u)
      OBVIOUS
    <3>2. q.upTo = 0 /\ q.found = {}
      BY <3>1 DEF Asked
    <3>3. q.upTo <= MaxBlock /\ q.found \subseteq Event
      BY <3>2, SettleAssumption DEF SettleAssumption
    <3> QED BY <2>3, <3>1, <3>3, SlotBounded
  <2>4. user \in Users \cup {NoUser}
    BY DEF MirrorInv
  <2> QED BY <2>1, <2>2, <2>3, <2>4
     DEF OpenPage, InitFails, ClosePage, HandleExport, HandleImport, HandleCleanup,
         InitChainSync, SyncInterval, Gone
<1>6. HistoryTyped'
  <2>1. cleaned' \subseteq cleaned \cup saved
    BY DEF OpenPage, InitFails, ClosePage, HandleExport, HandleImport, HandleCleanup,
           InitChainSync, SyncInterval, tables
  <2> QED BY <1>1, <2>1, ChainTyped DEF TypeInv, HistoryTyped, Event
<1> QED BY <1>1, <1>2, <1>3, <1>4, <1>5, <1>6, TypeFrames DEF TypeInv

LEMMA NextKeepsTypeInv == MirrorInv /\ TypeInv /\ [Next]_vars => TypeInv'
<1> SUFFICES ASSUME MirrorInv, TypeInv, [Next]_vars PROVE TypeInv'
  OBVIOUS
<1>1. CASE UNCHANGED vars
  BY <1>1, TypeFrames DEF vars, tables, client, listener, TypeInv
<1>2. CASE \E d \in Deals : OthersSettle(d)
  <2>1. /\ head < MaxBlock /\ head' = head + 1
        /\ UNCHANGED <<copy, page, opens, settling, listening, jobs, sync, cleaned, askers>>
    BY <1>2 DEF OthersSettle, tables, client
  <2>2. head' <= MaxBlock
    BY <2>1, SettleAssumption DEF MirrorInv, SettleAssumption
  <2> QED BY <2>1, <2>2, TypeFrames DEF TypeInv
<1>3. CASE \E e \in heard : HandleTradeEvent(e)
  <2>1. UNCHANGED <<head, copy, page, opens, settling, listening, jobs, sync, cleaned, askers>>
    BY <1>3 DEF HandleTradeEvent, client
  <2> QED BY <2>1, TypeFrames DEF TypeInv
<1> QED BY <1>1, <1>2, <1>3, JobsKeepTypes, SyncsKeepTypes, PagesKeepTypes DEF Next, Continue

LEMMA TypesFollow == MirrorInv /\ GapInv /\ TypeInv => TypeOK
<1> SUFFICES ASSUME MirrorInv, GapInv, TypeInv PROVE TypeOK
  OBVIOUS
<1>1. head \in 0 .. MaxBlock /\ position \in 0 .. MaxBlock /\ MaxBlock \in Nat
  BY SettleAssumption DEF MirrorInv, GapInv, TypeInv, SettleAssumption
<1>2. /\ chain \subseteq Event /\ saved \subseteq Event /\ live \subseteq Event
      /\ heard \subseteq Event
  BY ChainTyped DEF MirrorInv, TypeInv
<1>3. ASSUME NEW h \in [Deals -> Nat \cup {NoMatch}], HashesOnChain(h)
      PROVE  h \in [Deals -> 0 .. MaxBlock \cup {NoMatch}]
  <2>1. ASSUME NEW d \in Deals PROVE h[d] \in 0 .. MaxBlock \cup {NoMatch}
    <3>1. CASE h[d] = NoMatch \/ h[d] = 0
      BY <1>1, <3>1
    <3>2. CASE h[d] # NoMatch /\ h[d] # 0
      <4>1. [deal |-> d, block |-> h[d]] \in Event
        BY <1>2, <1>3, <3>2 DEF HashesOnChain
      <4> QED BY <4>1 DEF Event
    <3> QED BY <3>1, <3>2
  <2> QED BY <2>1
<1>4. hash \in [Deals -> 0 .. MaxBlock \cup {NoMatch}]
  BY <1>3 DEF MirrorInv
<1>5. copy \subseteq [hash : [Deals -> 0 .. MaxBlock \cup {NoMatch}], saved : SUBSET Event,
                      live : SUBSET Event]
  <2>1. ASSUME NEW c \in copy
        PROVE  c \in [hash : [Deals -> 0 .. MaxBlock \cup {NoMatch}], saved : SUBSET Event,
                      live : SUBSET Event]
    <3>1. c \in [hash : [Deals -> Nat \cup {NoMatch}], saved : SUBSET Event,
                 live : SUBSET Event]
      BY DEF TypeInv, BackupTyped
    <3>2. c.hash \in [Deals -> 0 .. MaxBlock \cup {NoMatch}]
      BY <1>3 DEF MirrorInv
    <3> QED BY <3>1, <3>2
  <2> QED BY <2>1
<1>6. /\ page \in {"closed", "asking", "open"} /\ opens \in 0 .. MaxOpens
      /\ user \in Users \cup {NoUser} /\ settling \in BOOLEAN /\ listening \in BOOLEAN
  BY DEF MirrorInv, TypeInv, PageTyped
<1>7. jobs \subseteq [by : {"hook", "batch"}, left : SUBSET Mine,
                      at : {"send", "wait", "write"}, block : 0 .. MaxBlock]
  <2>1. ASSUME NEW j \in jobs
        PROVE  j \in [by : {"hook", "batch"}, left : SUBSET Mine,
                      at : {"send", "wait", "write"}, block : 0 .. MaxBlock]
    <3>1. j \in [by : {"hook", "batch"}, left : SUBSET Mine,
                 at : {"send", "wait", "write"}, block : Nat]
      BY DEF MirrorInv, JobsOnChain
    <3>2. j.block \in 0 .. MaxBlock
      BY <1>1, <3>1 DEF TypeInv, JobsBounded
    <3> QED BY <3>1, <3>2
  <2> QED BY <2>1
<1> DEFINE Bounded == [at : {"number", "query", "blocks", "mark"}, as : Users \cup {NoUser},
                       from : 1 .. MaxBlock + 1, upTo : 0 .. MaxBlock, found : SUBSET Event]
<1>8. sync \in [Slots -> {Idle} \cup Bounded]
  <2>1. ASSUME NEW s \in Slots, sync[s] # Idle PROVE sync[s] \in Bounded
    <3>1. sync[s] \in SyncCall /\ SyncKnows(sync[s])
      BY <2>1 DEF MirrorInv, GapInv
    <3>2. sync[s].from \in 1 .. MaxBlock + 1
      BY <1>1, <3>1 DEF SyncCall, SyncKnows
    <3>3. sync[s].upTo \in 0 .. MaxBlock /\ sync[s].found \in SUBSET Event
      BY <1>1, <2>1, <3>1 DEF SyncCall, TypeInv, SyncsBounded
    <3> QED BY <3>1, <3>2, <3>3 DEF SyncCall
  <2> HIDE DEF Bounded
  <2> QED BY <2>1 DEF MirrorInv
<1>9. cleaned \subseteq Event /\ askers \subseteq Users \cup {NoUser}
  BY DEF TypeInv, HistoryTyped
<1> QED BY <1>1, <1>2, <1>4, <1>5, <1>6, <1>7, <1>8, <1>9 DEF TypeOK

(* The tables, the calls and the syncs keep their types, and no block number *)
(* runs ahead of the chain, for every set of trades, users and slots         *)
(* (p2p/storage.ts, services/chainSync.ts).                                  *)
THEOREM TypeCorrect == Spec => []TypeOK
<1>1. Init => MirrorInv /\ GapInv /\ TypeInv
  BY InitMirrorInv, InitGapInv, InitTypeInv
<1>2. MirrorInv /\ GapInv /\ TypeInv /\ [Next]_vars => MirrorInv' /\ GapInv' /\ TypeInv'
  BY NextMirrors, NextKeepsGapInv, NextKeepsTypeInv
<1> QED BY <1>1, <1>2, TypesFollow, PTL DEF Spec
=============================================================================
