------------------------- MODULE CabinetManagerProofs -------------------------
(***************************************************************************)
(* Proofs about the fleet of CabinetManager.tla: the poll thread's stale  *)
(* snapshot and update_cabinet's state cloning never bring a cabinet      *)
(* object into send_game without a transfer, for every fleet size.        *)
(***************************************************************************)
EXTENDS CabinetManager, CabinetProofs, TLAPS

(* The state _clone_state hands the replacement is never send_game. *)
LEMMA ClonedNotSending ==
    ASSUME TypeOK, NEW old \in Cabs
    PROVE  /\ ClonedState(old) \in [phase: Phases, progress: 0..100]
           /\ ClonedState(old).phase # "send_game"
BY DEF ClonedState, StartState, TypeOK, Phases

(* Constructing object c with filename f gives it well-typed filenames    *)
(* and an idle Host.                                                      *)
LEMMA ConstructShape ==
    ASSUME TypeOK, NEW c \in Cabs, NEW f \in InitFiles, Construct(c, f)
    PROVE  /\ currentFilename' \in [Cabs -> FileOrNone]
           /\ newFilename' \in [Cabs -> FileOrNone]
           /\ host' \in [Cabs -> HostRec]
           /\ host'[c].status = "inactive"
           /\ \A d \in Cabs \ {c} : host'[d] = host[d]
<1>1. NewHost \in HostRec /\ NewHost.status = "inactive"
  BY CabinetAssumption DEF NewHost, HostRec, Statuses, FileOrNone
<1>2. f \in FileOrNone
  BY CabinetAssumption
<1>3. QED
  BY <1>1, <1>2 DEF Construct, TypeOK

(* A fleet operation (add, update) preserves the types and the agreement *)
(* of transport and phase.                                                *)
LEMMA FleetOpKeeps ==
    ASSUME MgrTypeOK, TransportInStep,
           NEW c \in Cabs, NEW f \in InitFiles,
           AddCabinet(c, f) \/ UpdateCabinet(c, f)
    PROVE  MgrTypeOK' /\ TransportInStep'
<1>1. CASE AddCabinet(c, f)
  <2>1. state' \in [Cabs -> [phase: Phases, progress: 0..100]]
        /\ state'[c].phase # "send_game"
        /\ \A d \in Cabs \ {c} : state'[d] = state[d]
    BY <1>1 DEF AddCabinet, StartState, MgrTypeOK, TypeOK, Phases
  <2>2. QED
    BY <1>1, <2>1, ConstructShape
    DEF AddCabinet, MgrTypeOK, TypeOK, TransportInStep, physVars, envVars
<1>2. CASE UpdateCabinet(c, f)
  <2> DEFINE old == fleet[IpOf[c]]
  <2>1. old \in Cabs
    BY <1>2, CabinetAssumption DEF UpdateCabinet, MgrTypeOK
  <2>2. state' \in [Cabs -> [phase: Phases, progress: 0..100]]
        /\ state'[c].phase # "send_game"
        /\ \A d \in Cabs \ {c} : state'[d] = state[d]
    BY <1>2, <2>1, ClonedNotSending DEF UpdateCabinet, MgrTypeOK, TypeOK
  <2>3. QED
    BY <1>2, <2>2, ConstructShape, CabinetAssumption
    DEF UpdateCabinet, MgrTypeOK, TypeOK, TransportInStep, physVars, envVars
<1>3. QED
  BY <1>1, <1>2

(* Every state of the fleet is well typed and its transports agree with  *)
(* the phases.                                                            *)
LEMMA MgrStep ==
    ASSUME MgrTypeOK, TransportInStep, [MgrNext]_allVars
    PROVE  MgrTypeOK' /\ TransportInStep'
<1>1. CASE PollSnapshot
  BY <1>1 DEF PollSnapshot, MgrTypeOK, TypeOK, TransportInStep, InFleet, vars,
     cabVars, physVars, envVars
<1>2. ASSUME NEW c \in Cabs, PollTick(c) PROVE MgrTypeOK' /\ TransportInStep'
  BY <1>2, TickTypeOK, TickKeepsTransport DEF PollTick, MgrTypeOK
<1>3. ASSUME NEW c \in used, HostNext(c), UNCHANGED mgrVars
      PROVE MgrTypeOK' /\ TransportInStep'
  BY <1>3, HostNextTypeOK, HostKeepsTransport DEF MgrTypeOK, mgrVars
<1>4. ASSUME NEW c \in Cabs, NEW f \in EditFiles, MgrSetFilename(c, f)
      PROVE MgrTypeOK' /\ TransportInStep'
  BY <1>4, EnvTypeOK DEF MgrSetFilename, SetFilename, MgrTypeOK, mgrVars,
     TransportInStep
<1>5. ASSUME NEW ip \in IPs, PowerOff(ip) \/ PowerOn(ip), UNCHANGED mgrVars
      PROVE MgrTypeOK' /\ TransportInStep'
  BY <1>5, EnvTypeOK DEF PowerOff, PowerOn, cabVars, MgrTypeOK, mgrVars,
     TransportInStep
<1>6. ASSUME NEW c \in Cabs, NEW f \in InitFiles,
             AddCabinet(c, f) \/ UpdateCabinet(c, f)
      PROVE MgrTypeOK' /\ TransportInStep'
  BY <1>6, FleetOpKeeps
<1>7. ASSUME NEW ip \in IPs, RemoveCabinet(ip)
      PROVE MgrTypeOK' /\ TransportInStep'
  BY <1>7 DEF RemoveCabinet, MgrTypeOK, TypeOK, TransportInStep, vars,
     cabVars, physVars, envVars
<1>8. CASE UNCHANGED allVars
  BY <1>8 DEF allVars, vars, mgrVars, cabVars, physVars, envVars, MgrTypeOK,
     TypeOK, TransportInStep
<1>9. QED
  BY <1>1, <1>2, <1>3, <1>4, <1>5, <1>6, <1>7, <1>8 DEF MgrNext

(* Whatever fleet operations race the poll thread, tick() never meets an  *)
(* inactive Host in send_game, and no transfer runs outside send_game:    *)
(* update_cabinet's refusal to clone send_game is what keeps this.        *)
LEMMA MgrInitKeeps == MgrInit => MgrTypeOK /\ TransportInStep
BY InitTypeOK, ManagerAssumption, CabinetAssumption
DEF MgrInit, Init, MgrTypeOK, TransportInStep, NewHost, StartState

THEOREM MgrTransportInvariant == MgrSpec => []TransportInStep
BY MgrInitKeeps, MgrStep, PTL DEF MgrSpec

(* The fleet map, the set of constructed objects and the poll thread's    *)
(* snapshot keep their types, together with every object's cabinet state: *)
(* the snapshot only ever holds cabinet objects, stale ones included.     *)
THEOREM MgrTypeCorrect == MgrSpec => []MgrTypeOK
BY MgrInitKeeps, MgrStep, PTL DEF MgrSpec

=============================================================================
