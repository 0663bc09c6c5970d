--------------------------- MODULE CabinetDelivery ---------------------------
(***************************************************************************)
(* What a Cabinet promises about the physical cabinet it drives (spec     *)
(* section 4.2), without phases, probes or transfers: a delivery of the   *)
(* selected game starts only while the cabinet is on, carries that game   *)
(* until it ends, and the cabinet boots a game only at the end of a       *)
(* delivery of it; otherwise it only loses its game when switched off.    *)
(***************************************************************************)
CONSTANTS Cabs, IPs, IpOf, Files, NoFile

VARIABLES
    busy,      \* busy[c]: a delivery by c is under way
    inflight,  \* inflight[c]: the game it delivers (NoFile when idle)
    target,    \* target[c]: the game the operator selected
    power,     \* as in Cabinet
    running    \* as in Cabinet

avars == <<busy, inflight, target, power, running>>

Init ==
    /\ busy = [c \in Cabs |-> FALSE]
    /\ inflight = [c \in Cabs |-> NoFile]
    /\ target \in [Cabs -> Files \cup {NoFile}]
    /\ power \in [IPs -> {"on", "off"}]
    /\ running \in {r \in [IPs -> Files \cup {NoFile}] :
                        \A i \in IPs : power[i] = "off" => r[i] = NoFile}

Select(c, f) ==
    /\ target' = [target EXCEPT ![c] = f]
    /\ UNCHANGED <<busy, inflight, power, running>>

StartDelivery(c) ==
    /\ ~busy[c]
    /\ power[IpOf[c]] = "on"
    /\ target[c] # NoFile
    /\ busy' = [busy EXCEPT ![c] = TRUE]
    /\ inflight' = [inflight EXCEPT ![c] = target[c]]
    /\ UNCHANGED <<target, power, running>>

(* A delivery ends: the cabinet now runs the game delivered, or nothing   *)
(* (its DIMM was wiped meanwhile), or, if it failed, what it ran before.  *)
EndDelivery(c) ==
    /\ busy[c]
    /\ busy' = [busy EXCEPT ![c] = FALSE]
    /\ inflight' = [inflight EXCEPT ![c] = NoFile]
    /\ running' \in {[running EXCEPT ![IpOf[c]] = g] :
                        g \in {running[IpOf[c]], inflight[c], NoFile}}
    /\ UNCHANGED <<target, power>>

SwitchOff(ip) ==
    /\ power[ip] = "on"
    /\ power' = [power EXCEPT ![ip] = "off"]
    /\ running' = [running EXCEPT ![ip] = NoFile]
    /\ UNCHANGED <<busy, inflight, target>>

SwitchOn(ip) ==
    /\ power[ip] = "off"
    /\ power' = [power EXCEPT ![ip] = "on"]
    /\ UNCHANGED <<busy, inflight, target, running>>

Next ==
    \/ \E c \in Cabs : StartDelivery(c) \/ EndDelivery(c)
    \/ \E c \in Cabs, f \in Files \cup {NoFile} : Select(c, f)
    \/ \E ip \in IPs : SwitchOff(ip) \/ SwitchOn(ip)

Spec == Init /\ [][Next]_avars

(* Every delivery ends. *)
FairSpec == Spec /\ \A c \in Cabs : WF_avars(EndDelivery(c))

=============================================================================
