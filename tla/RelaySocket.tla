------------------------------ MODULE RelaySocket ------------------------------
(***************************************************************************)
(* The socket to the relays (frontend/src/services/wsClient.ts): one of a  *)
(* list of relays at a time, the next one after each loss, with a timer in *)
(* between. Pages ask to be connected when they open; nobody disconnects.  *)
(*                                                                         *)
(* A socket that was replaced keeps its handlers, and so does a timer      *)
(* whose handle was overwritten. Which relays are up does not change, but  *)
(* any of them may drop a connection.                                      *)
(***************************************************************************)
EXTENDS Naturals, FiniteSets

CONSTANTS
    UrlCount,      \* RELAY_WS_URLS
    UpRelays,      \* the relays that accept connections
    Backoff,       \* the failures after which the delay grows no more
    MaxConnects    \* bound: pages opened

(* Some relay is up.                                                         *)
RelayAssumption ==
    /\ UrlCount \in Nat \ {0} /\ UpRelays \subseteq 0 .. UrlCount - 1 /\ UpRelays # {}
    /\ Backoff \in Nat /\ MaxConnects \in Nat

VARIABLES
    sockets,            \* the sockets that have not closed
    ws,                 \* the one the client knows, or NoSocket
    urlIndex,           \* currentIndex
    failures,           \* consecutiveFailures
    reconnectTimer,     \* the timer the client knows is running
    strayTimers,        \* how many others are
    connects            \* how many pages have asked

vars == <<sockets, ws, urlIndex, failures, reconnectTimer, strayTimers, connects>>

NoSocket == 0
Socket == [id : 1 .. MaxConnects, relay : 0 .. UrlCount - 1, open : BOOLEAN]
Timers == strayTimers + (IF reconnectTimer THEN 1 ELSE 0)

(* There is a socket or a timer for each page that asked, at most.           *)
TypeOK ==
    /\ sockets \subseteq Socket /\ ws \in {NoSocket} \cup {s.id : s \in sockets}
    /\ urlIndex \in 0 .. UrlCount - 1 /\ failures \in 0 .. Backoff
    /\ reconnectTimer \in BOOLEAN /\ strayTimers \in Nat
    /\ connects \in 0 .. MaxConnects
    /\ Cardinality(sockets) + Timers <= connects

Init ==
    /\ sockets = {} /\ ws = NoSocket /\ urlIndex = 0 /\ failures = 0
    /\ reconnectTimer = FALSE /\ strayTimers = 0 /\ connects = 0

(* A socket that is still connecting does not count as one.                  *)
IsOpen == \E s \in sockets : s.id = ws /\ s.open
FreeIds == 1 .. MaxConnects \ {s.id : s \in sockets}
Connect ==
    /\ IF IsOpen THEN UNCHANGED <<sockets, ws>>
       ELSE \E i \in FreeIds :
               /\ \A j \in FreeIds : i <= j
               /\ sockets' = sockets \cup {[id |-> i, relay |-> urlIndex, open |-> FALSE]}
               /\ ws' = i
    /\ UNCHANGED <<urlIndex, failures>>

PageConnects ==
    /\ connects < MaxConnects /\ connects' = connects + 1
    /\ Connect
    /\ UNCHANGED <<reconnectTimer, strayTimers>>
TimerFires ==
    /\ \/ reconnectTimer /\ reconnectTimer' = FALSE /\ UNCHANGED strayTimers
       \/ strayTimers > 0 /\ strayTimers' = strayTimers - 1 /\ UNCHANGED reconnectTimer
    /\ Connect
    /\ UNCHANGED connects

OnOpen(s) ==
    /\ s \in sockets /\ ~s.open /\ s.relay \in UpRelays
    /\ sockets' = (sockets \ {s}) \cup {[s EXCEPT !.open = TRUE]}
    /\ failures' = 0 /\ reconnectTimer' = FALSE
    /\ UNCHANGED <<ws, urlIndex, strayTimers, connects>>

(* Whichever socket closes, the client forgets the one it knows.             *)
OnClose_SameRelay(s) ==
    /\ s \in sockets /\ (s.open \/ s.relay \notin UpRelays)
    /\ sockets' = sockets \ {s} /\ ws' = NoSocket
    /\ failures' = IF failures = Backoff THEN Backoff ELSE failures + 1
    /\ reconnectTimer' = TRUE
    /\ strayTimers' = strayTimers + (IF reconnectTimer THEN 1 ELSE 0)
    /\ UNCHANGED <<urlIndex, connects>>
OnClose_NoWrap(s) ==
    /\ s \in sockets /\ (s.open \/ s.relay \notin UpRelays)
    /\ sockets' = sockets \ {s} /\ ws' = NoSocket
    /\ failures' = IF failures = Backoff THEN Backoff ELSE failures + 1
    /\ urlIndex' = urlIndex + 1
    /\ reconnectTimer' = TRUE
    /\ strayTimers' = strayTimers + (IF reconnectTimer THEN 1 ELSE 0)
    /\ UNCHANGED connects
OnClose(s) ==
    /\ s \in sockets /\ (s.open \/ s.relay \notin UpRelays)
    /\ sockets' = sockets \ {s} /\ ws' = NoSocket
    /\ failures' = IF failures = Backoff THEN Backoff ELSE failures + 1
    /\ urlIndex' = (urlIndex + 1) % UrlCount
    /\ reconnectTimer' = TRUE
    /\ strayTimers' = strayTimers + (IF reconnectTimer THEN 1 ELSE 0)
    /\ UNCHANGED connects

(* A relay that is up answers; what is down refuses.                         *)
Resolve(i) == \E s \in sockets : s.id = i /\ ~s.open /\ (OnOpen(s) \/ OnClose(s))
Drop == \E s \in sockets : s.open /\ OnClose(s)

Next == PageConnects \/ TimerFires \/ Drop \/ \E i \in 1 .. MaxConnects : Resolve(i)

Spec == Init /\ [][Next]_vars
================================================================================
