------------------------------ MODULE MCCabinet ------------------------------
(* One cabinet object driving one physical cabinet, for TLC.              *)
EXTENDS Cabinet

CONSTANTS c1, i1, f1, f2

MCCabs == {c1}
MCIPs == {i1}
MCIpOf == [c \in MCCabs |-> i1]
MCFiles == {f1, f2}
=============================================================================
