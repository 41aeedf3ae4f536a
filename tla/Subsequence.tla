------------------------------ MODULE Subsequence ------------------------------
(* What a loop or a filter that keeps some elements of a list leaves of it. *)
(* SelectSeq of the standard module is recursive; this form of it, by the   *)
(* positions that stay, can be proved about.                                *)
EXTENDS Naturals, FiniteSets

(* The subsequence of s at the positions in keep.                           *)
KeepAt(s, keep) ==
    [j \in 1 .. Cardinality(keep) |->
        s[CHOOSE i \in keep : Cardinality({k \in keep : k <= i}) = j]]
================================================================================
