--------------------------- MODULE MCCabinetManager ---------------------------
(* A fleet slot for one physical cabinet and two Cabinet objects that   *)
(* can in turn hold it (loaded, added, replacements), for TLC.            *)
EXTENDS CabinetManager

CONSTANTS c1, c2, i1, f1, f2

MCCabs == {c1, c2}
MCIPs == {i1}
MCIpOf == [c \in MCCabs |-> i1]
MCFiles == {f1, f2}
=============================================================================
