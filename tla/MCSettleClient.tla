--------------------------- MODULE MCSettleClient ---------------------------
(* Instances of SettleClient for TLC.                                        *)
EXTENDS SettleClient, TLC

CONSTANTS m1, m2, u, v

(* The account makes the first of its browser's matches, whose log can be    *)
(* decoded, and takes no part in the second, a match of two others. Both may *)
(* be settled by others as well.                                             *)
MakerOf == (m1 :> u) @@ (m2 :> v)
TakerOf == (m1 :> v) @@ (m2 :> "w")
===============================================================================
