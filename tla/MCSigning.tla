----------------------------- MODULE MCSigning -----------------------------
(***************************************************************************)
(* A 2-of-3 group: the coordinator and m1 agreed to sign, m2 may join.     *)
(***************************************************************************)
EXTENDS Signing

CONSTANTS co, m1, m2

Group == {co, m1, m2}

SigningSet == {co, m1}
=============================================================================
