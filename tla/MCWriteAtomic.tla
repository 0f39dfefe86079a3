---------------------------- MODULE MCWriteAtomic ----------------------------
(***************************************************************************)
(* Two runs that archive under one name, and one of checksums.              *)
(***************************************************************************)
EXTENDS WriteAtomic, TLC

CONSTANTS zip, spdx, sums, a1, a2, c1

SameName == a1 :> zip @@ a2 :> zip @@ c1 :> sums

Archives == Permutations({a1, a2})
=============================================================================
