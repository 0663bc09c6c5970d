---------------------------- MODULE MCCabinetLocks ----------------------------
(* Two caller threads and the poll thread; one IP with two cabinet        *)
(* objects, so that an update can replace the object in the fleet by      *)
(* another one or by itself.                                              *)
EXTENDS CabinetLocks, TLC

CONSTANTS p, t1, t2, o1, o2, i1

MCCallers == {t1, t2}
MCObjs == {o1, o2}
MCIPs == {i1}
MCObjIp == (o1 :> i1) @@ (o2 :> i1)
MCSymmetry == Permutations(MCCallers)
=============================================================================
