---------------------------- MODULE CabinetManager ----------------------------
(***************************************************************************)
(* CabinetManager of src/netboot/cabinet.py: the fleet map ip -> Cabinet, *)
(* the poll thread that snapshots the fleet under the manager lock and    *)
(* then ticks each cabinet of the snapshot without it, and the fleet      *)
(* operations of caller threads.                                          *)
(*                                                                         *)
(* Cabinet objects come from the pool Cabs; an object is constructed once *)
(* (used), for the IP IpOf[c].  A replaced or removed object keeps its    *)
(* Host, whose transfer thread runs on, and may still be ticked once from *)
(* a snapshot taken before it left the fleet.  Manager operations that    *)
(* hold the manager lock are single steps; the ones that raise            *)
(* CabinetException change nothing and are left out.                      *)
(***************************************************************************)
EXTENDS Cabinet, FiniteSets

CONSTANT NoCab   \* no cabinet for this IP in the fleet

ASSUME ManagerAssumption == NoCab \notin Cabs

VARIABLES
    fleet,     \* CabinetManager.__cabinets, keyed by IP
    used,      \* objects constructed so far
    pending    \* the poll thread's snapshot: cabinets still to tick

mgrVars == <<fleet, used, pending>>
allVars == <<vars, mgrVars>>

InFleet == {fleet[ip] : ip \in {i \in IPs : fleet[i] # NoCab}}

MgrTypeOK ==
    /\ TypeOK
    /\ fleet \in [IPs -> Cabs \cup {NoCab}]
    /\ used \subseteq Cabs
    /\ pending \subseteq Cabs

(* CabinetManager.from_yaml: a fleet of constructed cabinets, one per IP; *)
(* objects not yet constructed hold no filename.                          *)
MgrInit ==
    /\ Init
    /\ fleet \in {m \in [IPs -> Cabs \cup {NoCab}] :
                    \A i \in IPs : m[i] # NoCab => IpOf[m[i]] = i}
    /\ used = {fleet[i] : i \in {j \in IPs : fleet[j] # NoCab}}
    /\ \A c \in Cabs \ used : newFilename[c] = NoFile
    /\ pending = {}

-----------------------------------------------------------------------------
(* The poll thread.                                                       *)

(* Snapshot the fleet under the manager lock (the previous pass is done   *)
(* and its sleep over).                                                   *)
PollSnapshot ==
    /\ pending = {}
    /\ pending' = InFleet
    /\ UNCHANGED <<vars, fleet, used>>

(* Mutant of PollTick: the pass does not move past the cabinet it ticks  *)
(* (the snapshot is never used up and never taken again).                 *)
PollTickStuck(c) ==
    /\ c \in pending
    /\ Tick(c)
    /\ UNCHANGED <<fleet, used, pending>>

(* Tick one cabinet of the snapshot, without the manager lock: it may     *)
(* have left the fleet since the snapshot.                                *)
PollTick(c) ==
    /\ c \in pending
    /\ Tick(c)
    /\ pending' = pending \ {c}
    /\ UNCHANGED <<fleet, used>>

-----------------------------------------------------------------------------
(* Caller threads.                                                        *)

(* Mutant of ClonedState: the send_game test dropped.                    *)
ClonedStateAll(old) == state[old]

(* Cabinet._clone_state: the state the replacement starts from. *)
ClonedState(old) ==
    IF state[old].phase # "send_game" THEN state[old] ELSE StartState

AddCabinet(c, f) ==
    /\ c \notin used
    /\ fleet[IpOf[c]] = NoCab
    /\ Construct(c, f)
    /\ state' = [state EXCEPT ![c] = StartState]
    /\ fleet' = [fleet EXCEPT ![IpOf[c]] = c]
    /\ used' = used \cup {c}
    /\ UNCHANGED <<physVars, envVars, pending>>

RemoveCabinet(ip) ==
    /\ fleet[ip] # NoCab
    /\ fleet' = [fleet EXCEPT ![ip] = NoCab]
    /\ UNCHANGED <<vars, used, pending>>

(* Construct the replacement c, clone the old cabinet's state into it     *)
(* under the old cabinet's lock, and swap it in.                          *)
UpdateCabinet(c, f) ==
    LET old == fleet[IpOf[c]] IN
    /\ c \notin used
    /\ old # NoCab
    /\ Construct(c, f)
    /\ state' = [state EXCEPT ![c] = ClonedState(old)]
    /\ fleet' = [fleet EXCEPT ![IpOf[c]] = c]
    /\ used' = used \cup {c}
    /\ UNCHANGED <<physVars, envVars, pending>>

(* Setting the filename of a Cabinet the caller holds, possibly one that  *)
(* has since left the fleet.                                              *)
MgrSetFilename(c, f) ==
    /\ c \in used
    /\ SetFilename(c, f)
    /\ UNCHANGED mgrVars

-----------------------------------------------------------------------------

MgrNext ==
    \/ PollSnapshot
    \/ \E c \in Cabs : PollTick(c)
    \/ \E c \in used : HostNext(c) /\ UNCHANGED mgrVars
    \/ \E c \in Cabs, f \in EditFiles : MgrSetFilename(c, f)
    \/ \E ip \in IPs : (PowerOff(ip) \/ PowerOn(ip)) /\ UNCHANGED mgrVars
    \/ \E c \in Cabs, f \in InitFiles : AddCabinet(c, f) \/ UpdateCabinet(c, f)
    \/ \E ip \in IPs : RemoveCabinet(ip)

MgrSpec == MgrInit /\ [][MgrNext]_allVars

(* __poll_thread is a daemon loop that only sleeps between passes: it    *)
(* keeps taking snapshots and ticking the cabinets of its snapshot.       *)
MgrFairness ==
    /\ WF_allVars(PollSnapshot)
    /\ \A c \in Cabs : WF_allVars(PollTick(c))

MgrFairSpec == MgrSpec /\ MgrFairness

-----------------------------------------------------------------------------
(* Properties.                                                            *)

(* At most one transfer to a physical cabinet at a time: replacing or     *)
(* removing a Cabinet never leaves two Hosts pushing a game to one IP.    *)
OneTransferPerCabinet ==
    \A ip \in IPs :
        Cardinality({c \in used : IpOf[c] = ip /\ host[c].status = "transferring"}) <= 1

(* The poll thread ticks, again and again, every cabinet that stays in   *)
(* the fleet: whatever fleet operations race its snapshots, a cabinet     *)
(* added or swapped in by update_cabinet is picked up by a later pass.    *)
EveryCabinetTicked ==
    \A c \in Cabs : <>[](c \in InFleet) => []<><<PollTick(c)>>_allVars

=============================================================================
