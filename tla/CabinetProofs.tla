---------------------------- MODULE CabinetProofs ----------------------------
(***************************************************************************)
(* Proofs about the cabinet state machine of Cabinet.tla, for every set  *)
(* of cabinets, IPs and files and every transfer length.                  *)
(***************************************************************************)
EXTENDS Cabinet, TLAPS

(* The progress tick() computes from a transfer in flight stays in 0..100. *)
LEMMA ProgressInRange ==
    ASSUME NEW h, h.sent \in 0..Chunks
    PROVE  Progress(h) \in 0..100
<1>1. ASSUME NEW n \in 0..Chunks PROVE (n * 100) \div Chunks \in 0..100
  BY CabinetAssumption
<1>2. QED
  BY <1>1 DEF Progress

(* A Host as tick() leaves it, probed and possibly sent a file, is a Host. *)
LEMMA HostShapes ==
    ASSUME TypeOK, NEW c \in Cabs, NEW f \in FileOrNone
    PROVE  /\ Probed(host[c], IpOf[c]) \in HostRec
           /\ Send(Probed(host[c], IpOf[c]), f) \in HostRec
<1>1. host[c] \in HostRec
  BY DEF TypeOK
<1>2. (power[IpOf[c]] = "on") \in BOOLEAN
  OBVIOUS
<1>3. Probed(host[c], IpOf[c]) \in HostRec
  BY <1>1, <1>2, Zenon DEF Probed, HostRec
<1>4. Send(Probed(host[c], IpOf[c]), f) \in HostRec
  <2>1. 0 \in 0..Chunks /\ "transferring" \in Statuses
    BY CabinetAssumption DEF Statuses
  <2>2. QED
    BY <1>3, <2>1 DEF Send, HostRec
<1>5. QED
  BY <1>3, <1>4

-----------------------------------------------------------------------------
(* Type correctness.                                                      *)

(* A step of tick() preserves the types. *)
LEMMA TickTypeOK ==
    ASSUME TypeOK, NEW c \in Cabs, Tick(c)
    PROVE  TypeOK'
<1> DEFINE h == Probed(host[c], IpOf[c])
<1>0. UNCHANGED <<newFilename, power, loaded, edits, cycles, fails>>
  BY DEF Tick, envVars
<1>1. h \in HostRec /\ newFilename[c] \in FileOrNone
  BY HostShapes DEF TypeOK
<1>2. Send(h, newFilename[c]) \in HostRec
  BY HostShapes DEF TypeOK
<1>3. Progress(h) \in 0..100
  BY <1>1, ProgressInRange DEF HostRec
<1>4. CASE TickStartup(c, h)
  BY <1>0, <1>1, <1>4 DEF TickStartup, SetState, SetHost, TypeOK, Phases
<1>5. CASE TickWaitPowerOn(c, h)
  <2>1. CASE ~h.alive /\ SetHost(c, h) /\ UNCHANGED state
    BY <1>0, <1>1, <1>5, <2>1 DEF TickWaitPowerOn, SetHost, TypeOK
  <2>2. CASE SetState(c, "wait_power_off", 0) /\ SetHost(c, h)
    BY <1>0, <1>1, <1>5, <2>2 DEF TickWaitPowerOn, SetState, SetHost, TypeOK, Phases
  <2>3. CASE SetState(c, "send_game", 0) /\ SetHost(c, Send(h, newFilename[c]))
    BY <1>0, <1>2, <1>5, <2>3 DEF TickWaitPowerOn, SetState, SetHost, TypeOK, Phases
  <2>4. QED
    BY <1>5, <2>1, <2>2, <2>3 DEF TickWaitPowerOn
<1>6. CASE TickSendGame(c, h)
  <2>1. running' \in [IPs -> FileOrNone]
    BY <1>6 DEF TickSendGame, Reboot, TypeOK
  <2>2. state' \in [Cabs -> [phase: Phases, progress: 0..100]]
    BY <1>3, <1>6 DEF TickSendGame, SetState, TypeOK, Phases
  <2>3. QED
    BY <1>0, <1>1, <1>6, <2>1, <2>2 DEF TickSendGame, SetHost, TypeOK
<1>7. CASE TickWaitPowerOff(c, h)
  <2>1. host' \in [Cabs -> HostRec] /\ running' = running
    BY <1>1, <1>7 DEF TickWaitPowerOff, SetHost, TypeOK
  <2>2. state' \in [Cabs -> [phase: Phases, progress: 0..100]]
    BY <1>7 DEF TickWaitPowerOff, SetState, TypeOK, Phases
  <2>3. currentFilename' \in [Cabs -> FileOrNone]
    BY <1>7 DEF TickWaitPowerOff, TypeOK
  <2>4. QED
    BY <1>0, <2>1, <2>2, <2>3 DEF TypeOK
<1>8. QED
  BY <1>4, <1>5, <1>6, <1>7 DEF Tick

(* A step of the transfer thread preserves the types. *)
LEMMA HostNextTypeOK ==
    ASSUME TypeOK, NEW c \in Cabs, HostNext(c)
    PROVE  TypeOK'
<1> USE CabinetAssumption DEF TypeOK, HostRec, physVars, envVars, Statuses
<1>1. CASE HostTransfer(c)
  BY <1>1 DEF HostTransfer
<1>2. CASE HostComplete(c)
  BY <1>2 DEF HostComplete
<1>3. CASE HostLost(c)
  BY <1>3 DEF HostLost
<1>4. CASE HostFail(c)
  BY <1>4 DEF HostFail
<1>5. QED
  BY <1>1, <1>2, <1>3, <1>4 DEF HostNext

(* The filename setter and the power switch preserve the types. *)
LEMMA EnvTypeOK ==
    ASSUME TypeOK,
           \/ \E c \in Cabs, f \in EditFiles : SetFilename(c, f)
           \/ \E ip \in IPs : PowerOff(ip) \/ PowerOn(ip)
    PROVE  TypeOK'
<1>1. ASSUME NEW c \in Cabs, NEW f \in EditFiles, SetFilename(c, f)
      PROVE TypeOK'
  BY <1>1, CabinetAssumption DEF SetFilename, TypeOK, physVars
<1>2. ASSUME NEW ip \in IPs, PowerOff(ip) \/ PowerOn(ip) PROVE TypeOK'
  BY <1>2, CabinetAssumption DEF PowerOff, PowerOn, TypeOK, cabVars, envVars,
     FileOrNone
<1>3. QED
  BY <1>1, <1>2

(* The initial states are well typed. *)
LEMMA InitTypeOK == Init => TypeOK
BY CabinetAssumption
DEF Init, TypeOK, NewHost, HostRec, StartState, FileOrNone, Phases, Statuses

(* Every reachable state has the types TypeOK gives it. *)
THEOREM TypeCorrect == Spec => []TypeOK
<1>1. TypeOK /\ [Next]_vars => TypeOK'
  <2> SUFFICES ASSUME TypeOK, [Next]_vars PROVE TypeOK'
    OBVIOUS
  <2>1. CASE \E c \in Cabs : Tick(c)
    BY <2>1, TickTypeOK
  <2>2. CASE \E c \in Cabs : HostNext(c)
    BY <2>2, HostNextTypeOK
  <2>3. CASE EnvNext
    BY <2>3, EnvTypeOK DEF EnvNext
  <2>4. CASE UNCHANGED vars
    BY <2>4 DEF vars, cabVars, physVars, envVars, TypeOK
  <2>5. QED
    BY <2>1, <2>2, <2>3, <2>4 DEF Next
<1>2. QED
  BY <1>1, InitTypeOK, PTL DEF Spec

-----------------------------------------------------------------------------
(* The transport and the phase agree.  TransportInStep is inductive       *)
(* given the types: tick() starts a transfer only as it enters send_game, *)
(* and leaves send_game only on a failed or completed status, which the   *)
(* transfer thread never turns back into "transferring".                  *)

(* A step of tick() keeps the transport in step with the phase. *)
LEMMA TickKeepsTransport ==
    ASSUME TypeOK, TransportInStep, NEW c \in Cabs, Tick(c)
    PROVE  TransportInStep'
<1> DEFINE h == Probed(host[c], IpOf[c])
<1>1. h.status = host[c].status
  BY DEF Probed, TypeOK, HostRec
<1>2. \A d \in Cabs \ {c} : state'[d] = state[d] /\ host'[d] = host[d]
  BY DEF Tick, TickStartup, TickWaitPowerOn, TickSendGame, TickWaitPowerOff,
         SetState, SetHost, TypeOK
<1>3. /\ state'[c].phase = "send_game" => host'[c].status # "inactive"
      /\ host'[c].status = "transferring" => state'[c].phase = "send_game"
  <2>1. CASE TickStartup(c, h)
    BY <1>1, <2>1 DEF TickStartup, SetState, SetHost, TypeOK, TransportInStep
  <2>2. CASE TickWaitPowerOn(c, h)
    <3>1. h \in HostRec /\ state[c].phase # "send_game"
      BY <2>2, HostShapes DEF TickWaitPowerOn, TypeOK
    <3>2. host[c].status # "transferring"
      BY <3>1 DEF TransportInStep
    <3>3. CASE ~h.alive /\ SetHost(c, h) /\ UNCHANGED state
      BY <1>1, <3>1, <3>2, <3>3 DEF SetHost, TypeOK
    <3>4. CASE SetState(c, "wait_power_off", 0) /\ SetHost(c, h)
      BY <1>1, <3>1, <3>2, <3>4 DEF SetState, SetHost, TypeOK
    <3>5. CASE SetState(c, "send_game", 0) /\ SetHost(c, Send(h, newFilename[c]))
      BY <3>1, <3>5 DEF SetState, SetHost, Send, TypeOK, HostRec
    <3>6. QED
      BY <2>2, <3>3, <3>4, <3>5 DEF TickWaitPowerOn
  <2>3. CASE TickSendGame(c, h)
    <3>1. host'[c].status = h.status /\ h.status # "inactive"
      BY <2>3 DEF TickSendGame, SetHost, TypeOK
    <3>2. CASE h.status = "transferring"
      BY <2>3, <3>1, <3>2 DEF TickSendGame, SetState, TypeOK
    <3>3. CASE h.status \in {"failed", "completed"}
      BY <2>3, <3>1, <3>3 DEF TickSendGame, SetState, TypeOK
    <3>4. QED
      BY <3>1, <3>2, <3>3, <1>1 DEF TypeOK, HostRec, Statuses
  <2>4. CASE TickWaitPowerOff(c, h)
    BY <1>1, <2>4 DEF TickWaitPowerOff, SetState, SetHost, TypeOK, TransportInStep
  <2>5. QED
    BY <2>1, <2>2, <2>3, <2>4 DEF Tick
<1>4. QED
  BY <1>2, <1>3 DEF TransportInStep

(* A step of the transfer thread keeps the transport in step with the    *)
(* phase: it only moves a running transfer on or ends it.                 *)
LEMMA HostKeepsTransport ==
    ASSUME TypeOK, TransportInStep, NEW c \in Cabs, HostNext(c)
    PROVE  TransportInStep'
<1> USE DEF TransportInStep, TypeOK
<1>1. CASE HostTransfer(c)
  BY <1>1 DEF HostTransfer
<1>2. CASE HostComplete(c)
  BY <1>2 DEF HostComplete
<1>3. CASE HostLost(c)
  BY <1>3 DEF HostLost
<1>4. CASE HostFail(c)
  BY <1>4 DEF HostFail
<1>5. QED
  BY <1>1, <1>2, <1>3, <1>4 DEF HostNext

(* tick() never meets an inactive Host in send_game, and no transfer runs *)
(* outside send_game, in any reachable state.                             *)
THEOREM TransportInvariant == Spec => []TransportInStep
<1> DEFINE IInv == TypeOK /\ TransportInStep
<1>1. Init => IInv
  BY CabinetAssumption
  DEF Init, TypeOK, TransportInStep, NewHost, HostRec, StartState, FileOrNone,
      Phases, Statuses
<1>2. IInv /\ [Next]_vars => TransportInStep'
  <2> SUFFICES ASSUME TypeOK, TransportInStep, [Next]_vars
               PROVE  TransportInStep'
    OBVIOUS
  <2>1. ASSUME NEW c \in Cabs, Tick(c) PROVE TransportInStep'
    BY <2>1, TickKeepsTransport
  <2>2. ASSUME NEW c \in Cabs, HostNext(c) PROVE TransportInStep'
    BY <2>2, HostKeepsTransport
  <2>3. ASSUME NEW c \in Cabs, NEW f \in EditFiles, SetFilename(c, f)
        PROVE TransportInStep'
    BY <2>3 DEF SetFilename, TransportInStep
  <2>4. ASSUME NEW ip \in IPs, PowerOff(ip) \/ PowerOn(ip)
        PROVE TransportInStep'
    BY <2>4 DEF PowerOff, PowerOn, cabVars, TransportInStep
  <2>5. CASE UNCHANGED vars
    BY <2>5 DEF vars, cabVars, TransportInStep
  <2>6. QED
    BY <2>1, <2>2, <2>3, <2>4, <2>5 DEF Next, EnvNext
<1>3. QED
  BY <1>1, <1>2, TypeCorrect, PTL DEF Spec


-----------------------------------------------------------------------------
(* Refinement: Cabinet implements CabinetDelivery (the safety part of     *)
(* ImplementsDelivery), for every cabinet whose IP no other object drives.*)
(* The step that needs an invariant is the reboot after a completed       *)
(* transfer: the cabinet must restart into the game delivered, or into    *)
(* nothing.  CompletedLoaded says the DIMM holds that game or nothing     *)
(* while tick() has still to see the completion; a second object driving *)
(* the same IP would break it (see OneTransferPerCabinet).                 *)

IpInjective == \A c, d \in Cabs : IpOf[c] = IpOf[d] => c = d

CompletedLoaded ==
    \A c \in Cabs :
        state[c].phase = "send_game" /\ host[c].status = "completed"
            => loaded[IpOf[c]] \in {host[c].file, NoFile}

(* The transfer thread keeps CompletedLoaded: only a completion writes    *)
(* the DIMM, and it writes the file of the completing transfer.           *)
LEMMA HostKeepsLoaded ==
    ASSUME IpInjective, TypeOK, CompletedLoaded, NEW c \in Cabs, HostNext(c)
    PROVE  CompletedLoaded'
<1> USE CabinetAssumption DEF CompletedLoaded, TypeOK, HostRec, IpInjective,
           physVars, envVars
<1>1. CASE HostTransfer(c)
  BY <1>1 DEF HostTransfer
<1>2. CASE HostComplete(c)
  BY <1>2 DEF HostComplete
<1>3. CASE HostLost(c)
  BY <1>3 DEF HostLost
<1>4. CASE HostFail(c)
  BY <1>4 DEF HostFail
<1>5. QED
  BY <1>1, <1>2, <1>3, <1>4 DEF HostNext

(* tick() keeps CompletedLoaded: it enters send_game with a transfer just *)
(* started and never changes the DIMM.                                    *)
LEMMA TickKeepsLoaded ==
    ASSUME TypeOK, CompletedLoaded, NEW c \in Cabs, Tick(c)
    PROVE  CompletedLoaded'
<1> DEFINE h == Probed(host[c], IpOf[c])
<1>1. loaded' = loaded /\ h.status = host[c].status /\ h.file = host[c].file
  BY CabinetAssumption DEF Tick, Probed, TypeOK, HostRec
<1>2. \A d \in Cabs \ {c} : state'[d] = state[d] /\ host'[d] = host[d]
  BY DEF Tick, TickStartup, TickWaitPowerOn, TickSendGame, TickWaitPowerOff,
         SetState, SetHost, TypeOK
<1>3. state'[c].phase = "send_game" /\ host'[c].status = "completed"
        => loaded[IpOf[c]] \in {host'[c].file, NoFile}
  <2>1. CASE TickStartup(c, h)
    BY <2>1 DEF TickStartup, SetState, TypeOK
  <2>2. CASE TickWaitPowerOn(c, h)
    <3>1. state[c].phase = "wait_power_on"
      BY <2>2 DEF TickWaitPowerOn
    <3>2. CASE UNCHANGED state
      BY <3>1, <3>2
    <3>3. CASE SetState(c, "wait_power_off", 0)
      BY <3>3 DEF SetState, TypeOK
    <3>4. CASE SetState(c, "send_game", 0) /\ SetHost(c, Send(h, newFilename[c]))
      <4>1. h \in HostRec
        <5>1. newFilename[c] \in FileOrNone
          BY DEF TypeOK
        <5>2. QED
          BY <5>1, HostShapes
      <4>2. QED
        BY <3>4, <4>1 DEF SetHost, Send, TypeOK, HostRec
    <3>5. QED
      BY <2>2, <3>2, <3>3, <3>4 DEF TickWaitPowerOn
  <2>3. CASE TickSendGame(c, h)
    BY <1>1, <2>3 DEF TickSendGame, SetState, SetHost, TypeOK, CompletedLoaded
  <2>4. CASE TickWaitPowerOff(c, h)
    BY <2>4 DEF TickWaitPowerOff, SetState, SetHost, TypeOK
  <2>5. QED
    BY <2>1, <2>2, <2>3, <2>4 DEF Tick
<1>4. QED
  BY <1>1, <1>2, <1>3, CabinetAssumption DEF CompletedLoaded

(* With one object per IP, CompletedLoaded holds in every reachable state. *)
LEMMA LoadedInvariant ==
    ASSUME IpInjective PROVE Spec => []CompletedLoaded
<1>1. Init => CompletedLoaded
  BY DEF Init, CompletedLoaded, StartState
<1>2. TypeOK /\ CompletedLoaded /\ [Next]_vars => CompletedLoaded'
  <2> SUFFICES ASSUME TypeOK, CompletedLoaded, [Next]_vars
               PROVE  CompletedLoaded'
    OBVIOUS
  <2>1. ASSUME NEW c \in Cabs, Tick(c) PROVE CompletedLoaded'
    BY <2>1, TickKeepsLoaded
  <2>2. ASSUME NEW c \in Cabs, HostNext(c) PROVE CompletedLoaded'
    BY <2>2, HostKeepsLoaded
  <2>3. ASSUME NEW c \in Cabs, NEW f \in EditFiles, SetFilename(c, f)
        PROVE CompletedLoaded'
    BY <2>3 DEF SetFilename, CompletedLoaded, physVars
  <2>4. ASSUME NEW ip \in IPs, PowerOff(ip) PROVE CompletedLoaded'
    BY <2>4, CabinetAssumption DEF PowerOff, cabVars, CompletedLoaded, TypeOK
  <2>5. ASSUME NEW ip \in IPs, PowerOn(ip) PROVE CompletedLoaded'
    BY <2>5 DEF PowerOn, cabVars, CompletedLoaded
  <2>6. CASE UNCHANGED vars
    BY <2>6 DEF vars, cabVars, physVars, CompletedLoaded
  <2>7. QED
    BY <2>1, <2>2, <2>3, <2>4, <2>5, <2>6 DEF Next, EnvNext
<1>3. QED
  BY <1>1, <1>2, TypeCorrect, PTL DEF Spec


(* The abstract variables, as the refinement mapping of Cabinet.tla       *)
(* defines them.                                                          *)
ABusy == [c \in Cabs |-> state[c].phase = "send_game"]
AInflight == [c \in Cabs |-> IF state[c].phase = "send_game" THEN host[c].file ELSE NoFile]

(* A step that keeps the phases, the files of the transfers in send_game, *)
(* the selected files, the power and what runs is an abstract stutter.    *)
LEMMA AbstractStutter ==
    ASSUME ABusy' = ABusy, AInflight' = AInflight,
           UNCHANGED <<newFilename, power, running>>
    PROVE  UNCHANGED Delivery!avars
BY DEF Delivery!avars, ABusy, AInflight

(* tick() is a delivery starting (WaitPowerOn sends), a delivery ending   *)
(* (SendGame sees a failure or a completion and reboots), or a stutter.   *)
LEMMA TickRefines ==
    ASSUME TypeOK, CompletedLoaded, NEW c \in Cabs, Tick(c)
    PROVE  [Delivery!Next]_Delivery!avars
<1> DEFINE h == Probed(host[c], IpOf[c]) ip == IpOf[c]
<1>0. /\ UNCHANGED <<newFilename, power, loaded>>
      /\ h \in HostRec /\ h.status = host[c].status /\ h.file = host[c].file
      /\ h.alive = (power[ip] = "on")
      /\ \A d \in Cabs \ {c} : state'[d] = state[d] /\ host'[d] = host[d]
  <2>1. newFilename[c] \in FileOrNone
    BY DEF TypeOK
  <2>2. QED
    BY <2>1, HostShapes, CabinetAssumption
    DEF Tick, Probed, TypeOK, HostRec, TickStartup, TickWaitPowerOn,
        TickSendGame, TickWaitPowerOff, SetState, SetHost
<1>1. CASE TickStartup(c, h)
  <2>1. ABusy' = ABusy /\ AInflight' = AInflight /\ running' = running
    BY <1>0, <1>1 DEF TickStartup, SetState, SetHost, ABusy, AInflight, TypeOK
  <2>2. QED
    BY <1>0, <2>1, AbstractStutter
<1>2. CASE TickWaitPowerOn(c, h)
  <2>0. state[c].phase = "wait_power_on" /\ running' = running
    BY <1>2 DEF TickWaitPowerOn
  <2>1. CASE ~h.alive /\ SetHost(c, h) /\ UNCHANGED state
    <3>1. ABusy' = ABusy /\ AInflight' = AInflight
      BY <1>0, <2>0, <2>1 DEF SetHost, ABusy, AInflight, TypeOK
    <3>2. QED
      BY <1>0, <2>0, <3>1, AbstractStutter
  <2>2. CASE SetState(c, "wait_power_off", 0) /\ SetHost(c, h)
    <3>1. ABusy' = ABusy /\ AInflight' = AInflight
      BY <1>0, <2>0, <2>2 DEF SetState, SetHost, ABusy, AInflight, TypeOK
    <3>2. QED
      BY <1>0, <2>0, <3>1, AbstractStutter
  <2>3. CASE /\ h.alive /\ newFilename[c] # NoFile
             /\ SetState(c, "send_game", 0) /\ SetHost(c, Send(h, newFilename[c]))
    <3>1. /\ ~ABusy[c]
          /\ power[ip] = "on"
          /\ newFilename[c] # NoFile
          /\ ABusy' = [ABusy EXCEPT ![c] = TRUE]
          /\ AInflight' = [AInflight EXCEPT ![c] = newFilename[c]]
      BY <1>0, <2>0, <2>3 DEF SetState, SetHost, Send, ABusy, AInflight, TypeOK,
         HostRec
    <3>2. Delivery!StartDelivery(c)
      BY <1>0, <2>0, <3>1 DEF Delivery!StartDelivery, ABusy, AInflight
    <3>3. QED
      BY <3>2 DEF Delivery!Next
  <2>4. QED
    BY <1>2, <2>1, <2>2, <2>3 DEF TickWaitPowerOn
<1>3. CASE TickSendGame(c, h)
  <2>0. state[c].phase = "send_game" /\ host'[c] = h
    BY <1>3 DEF TickSendGame, SetHost, TypeOK
  <2>1. CASE h.status = "transferring" /\ SetState(c, "send_game", Progress(h))
             /\ UNCHANGED running
    <3>1. ABusy' = ABusy /\ AInflight' = AInflight
      BY <1>0, <2>0, <2>1 DEF SetState, ABusy, AInflight, TypeOK
    <3>2. QED
      BY <1>0, <2>1, <3>1, AbstractStutter
  <2>2. CASE h.status \in {"failed", "completed"}
    <3>1. /\ ABusy[c]
          /\ ABusy' = [ABusy EXCEPT ![c] = FALSE]
          /\ AInflight' = [AInflight EXCEPT ![c] = NoFile]
      <4>1. \E p \in {"wait_power_on", "wait_power_off"} : SetState(c, p, 0)
        BY <1>3, <2>2 DEF TickSendGame
      <4>2. state'[c].phase # "send_game"
        BY <4>1 DEF SetState, TypeOK
      <4>3. QED
        BY <1>0, <2>0, <4>1, <4>2 DEF SetState, ABusy, AInflight, TypeOK
    <3>2. running' \in {[running EXCEPT ![ip] = g] :
                          g \in {running[ip], AInflight[c], NoFile}}
      <4>1. CASE h.status = "failed"
        <5>1. running' = running
          BY <1>3, <4>1 DEF TickSendGame
        <5>2. running = [running EXCEPT ![ip] = running[ip]]
          BY CabinetAssumption DEF TypeOK
        <5>3. QED
          BY <5>1, <5>2
      <4>2. CASE h.status = "completed"
        <5>1. Reboot(ip)
          BY <1>3, <4>2 DEF TickSendGame
        <5>2. loaded[ip] \in {running[ip], AInflight[c], NoFile}
          BY <1>0, <2>0, <4>2 DEF CompletedLoaded, AInflight
        <5>3. QED
          BY <5>1, <5>2, CabinetAssumption DEF Reboot, TypeOK
      <4>3. QED
        BY <2>2, <4>1, <4>2
    <3>3. Delivery!EndDelivery(c)
      BY <1>0, <3>1, <3>2 DEF Delivery!EndDelivery, ABusy, AInflight
    <3>4. QED
      BY <3>3 DEF Delivery!Next
  <2>3. QED
    BY <1>3, <2>1, <2>2 DEF TickSendGame
<1>4. CASE TickWaitPowerOff(c, h)
  <2>1. ABusy' = ABusy /\ AInflight' = AInflight /\ running' = running
    BY <1>0, <1>4 DEF TickWaitPowerOff, SetState, SetHost, ABusy, AInflight, TypeOK
  <2>2. QED
    BY <1>0, <2>1, AbstractStutter
<1>5. QED
  BY <1>1, <1>2, <1>3, <1>4 DEF Tick


(* The transfer thread never changes the phase, the file of a transfer or *)
(* what runs: an abstract stutter.                                        *)
LEMMA HostRefines ==
    ASSUME TypeOK, NEW c \in Cabs, HostNext(c)
    PROVE  UNCHANGED Delivery!avars
<1>1. /\ UNCHANGED <<state, newFilename, power, running>>
      /\ \A d \in Cabs : host'[d].file = host[d].file
  <2> USE DEF TypeOK, HostRec, physVars
  <2>1. CASE HostTransfer(c)
    BY <2>1 DEF HostTransfer
  <2>2. CASE HostComplete(c)
    BY <2>2 DEF HostComplete
  <2>3. CASE HostLost(c)
    BY <2>3 DEF HostLost
  <2>4. CASE HostFail(c)
    BY <2>4 DEF HostFail
  <2>5. QED
    BY <2>1, <2>2, <2>3, <2>4 DEF HostNext
<1>2. ABusy' = ABusy /\ AInflight' = AInflight
  BY <1>1 DEF ABusy, AInflight
<1>3. QED
  BY <1>1, <1>2, AbstractStutter

(* The filename setter selects a game; the power switch is the abstract   *)
(* one.                                                                   *)
LEMMA EnvRefines ==
    ASSUME TypeOK, EnvNext
    PROVE  [Delivery!Next]_Delivery!avars
<1>1. ASSUME NEW c \in Cabs, NEW f \in EditFiles, SetFilename(c, f)
      PROVE Delivery!Select(c, f) /\ f \in Files \cup {NoFile}
  BY <1>1, CabinetAssumption DEF SetFilename, Delivery!Select, physVars, ABusy,
     AInflight, FileOrNone
<1>2. ASSUME NEW ip \in IPs, PowerOff(ip) PROVE Delivery!SwitchOff(ip)
  BY <1>2 DEF PowerOff, Delivery!SwitchOff, cabVars, ABusy, AInflight
<1>3. ASSUME NEW ip \in IPs, PowerOn(ip) PROVE Delivery!SwitchOn(ip)
  BY <1>3 DEF PowerOn, Delivery!SwitchOn, cabVars, ABusy, AInflight
<1>4. QED
  BY <1>1, <1>2, <1>3 DEF EnvNext, Delivery!Next

(* Cabinet implements CabinetDelivery: every behaviour of the state       *)
(* machine, the transport and the physical cabinet, seen through the      *)
(* refinement mapping of Cabinet.tla, is a behaviour of the abstract      *)
(* delivery spec, when no two Cabinet objects drive the same IP.          *)
THEOREM Refinement ==
    ASSUME IpInjective PROVE Spec => Delivery!Spec
<1>1. Init => Delivery!Init
  <2> SUFFICES ASSUME Init PROVE Delivery!Init
    OBVIOUS
  <2>0. state = [c \in Cabs |-> StartState]
    BY DEF Init
  <2>1. ABusy = [c \in Cabs |-> FALSE] /\ AInflight = [c \in Cabs |-> NoFile]
    BY <2>0 DEF StartState, ABusy, AInflight
  <2>2. newFilename \in [Cabs -> Files \cup {NoFile}]
    BY CabinetAssumption DEF Init, FileOrNone
  <2>3. QED
    BY <2>1, <2>2 DEF Init, Delivery!Init, ABusy, AInflight, FileOrNone
<1>2. TypeOK /\ CompletedLoaded /\ [Next]_vars => [Delivery!Next]_Delivery!avars
  <2> SUFFICES ASSUME TypeOK, CompletedLoaded, [Next]_vars
               PROVE  [Delivery!Next]_Delivery!avars
    OBVIOUS
  <2>1. CASE \E c \in Cabs : Tick(c)
    BY <2>1, TickRefines
  <2>2. CASE \E c \in Cabs : HostNext(c)
    BY <2>2, HostRefines
  <2>3. CASE EnvNext
    BY <2>3, EnvRefines
  <2>4. CASE UNCHANGED vars
    BY <2>4 DEF vars, cabVars, physVars, Delivery!avars
  <2>5. QED
    BY <2>1, <2>2, <2>3, <2>4 DEF Next
<1>3. QED
  BY <1>1, <1>2, TypeCorrect, LoadedInvariant, PTL DEF Spec, Delivery!Spec

=============================================================================
