------------------------------- MODULE Cabinet -------------------------------
(***************************************************************************)
(* The per-cabinet state machine of src/netboot/cabinet.py (class Cabinet) *)
(* together with what it drives: the netboot transport object it owns     *)
(* (netboot.hostutils.Host, not under src/, modelled from the spec) and    *)
(* the physical cabinet at the other end of the wire.                      *)
(*                                                                         *)
(* Cabinet objects are indexed by the set Cabs, so that CabinetManager can *)
(* reuse these actions for a fleet in which several objects (an old one    *)
(* and its replacement) point at the same physical cabinet, IpOf[c].       *)
(*                                                                         *)
(* Data is abstracted: a ROM path is a model value of Files, None is       *)
(* NoFile, a transfer is Chunks steps long, patches are left out (they     *)
(* are passed through to Host.send unchanged).                             *)
(***************************************************************************)
EXTENDS Naturals

CONSTANTS
    Cabs,       \* Cabinet objects
    IPs,        \* physical cabinets, one per IP address
    IpOf,       \* IpOf[c]: the IP the object c was constructed with
    Files,      \* ROM paths the operator can choose
    NoFile,     \* Python None as a filename
    InitFiles,  \* filenames a Cabinet may be constructed with
    EditFiles,  \* filenames the operator may assign through the setter
    Chunks,     \* length of a transfer, in progress steps
    MaxEdits,   \* bound on filename setter calls
    MaxCycles,  \* bound on power-off events of the physical cabinets
    MaxFails    \* bound on transfers failing while the cabinet is on

FileOrNone == Files \cup {NoFile}

ASSUME CabinetAssumption ==
    /\ IpOf \in [Cabs -> IPs]
    /\ NoFile \notin Files
    /\ InitFiles \subseteq FileOrNone
    /\ EditFiles \subseteq FileOrNone
    /\ Chunks \in Nat \ {0}
    /\ MaxEdits \in Nat /\ MaxCycles \in Nat /\ MaxFails \in Nat

VARIABLES
    state,            \* Cabinet.__state: [phase, progress]
    currentFilename,  \* Cabinet.__current_filename
    newFilename,      \* Cabinet.__new_filename
    host,             \* Cabinet.__host: the transport object
    power,            \* physical cabinet: "on" or "off"
    loaded,           \* game held by the cabinet's net DIMM
    running,          \* game the cabinet is running
    edits, cycles, fails   \* environment budgets

cabVars  == <<state, currentFilename, newFilename, host>>
physVars == <<power, loaded, running>>
envVars  == <<edits, cycles, fails>>
vars     == <<cabVars, physVars, envVars>>

Phases == {"startup", "wait_power_on", "send_game", "wait_power_off"}
Statuses == {"inactive", "transferring", "failed", "completed"}

HostRec == [alive: BOOLEAN, status: Statuses, file: FileOrNone, sent: 0..Chunks]

TypeOK ==
    /\ state \in [Cabs -> [phase: Phases, progress: 0..100]]
    /\ currentFilename \in [Cabs -> FileOrNone]
    /\ newFilename \in [Cabs -> FileOrNone]
    /\ host \in [Cabs -> HostRec]
    /\ power \in [IPs -> {"on", "off"}]
    /\ loaded \in [IPs -> FileOrNone]
    /\ running \in [IPs -> FileOrNone]
    /\ edits \in 0..MaxEdits /\ cycles \in 0..MaxCycles /\ fails \in 0..MaxFails

(* A fresh Host: no transfer, liveness not yet probed. *)
NewHost == [alive |-> FALSE, status |-> "inactive", file |-> NoFile, sent |-> 0]

(* Cabinet.__init__ for object c: both filenames set to the constructor's *)
(* filename and a fresh Host; the caller sets the state.                   *)
Construct(c, f) ==
    /\ currentFilename' = [currentFilename EXCEPT ![c] = f]
    /\ newFilename' = [newFilename EXCEPT ![c] = f]
    /\ host' = [host EXCEPT ![c] = NewHost]

StartState == [phase |-> "startup", progress |-> 0]

Init ==
    /\ \E f \in [Cabs -> InitFiles] :
          /\ state = [c \in Cabs |-> StartState]
          /\ currentFilename = f
          /\ newFilename = f
    /\ host = [c \in Cabs |-> NewHost]
    /\ power \in [IPs -> {"on", "off"}]
    \* a powered cabinet may already run a game from before the process start
    /\ running \in {r \in [IPs -> FileOrNone] :
                        \A i \in IPs : power[i] = "off" => r[i] = NoFile}
    /\ loaded = running
    /\ edits = 0 /\ cycles = 0 /\ fails = 0

-----------------------------------------------------------------------------
(* Transport operations, modelled from the spec's NetbootTransport.       *)

(* Host.tick(): probe liveness. *)
Probed(h, ip) == [h EXCEPT !.alive = (power[ip] = "on")]

(* Host.send(path, patches): start a transfer. *)
Send(h, f) == [h EXCEPT !.status = "transferring", !.file = f, !.sent = 0]

(* Host.reboot(): the cabinet restarts into what its DIMM holds. *)
Reboot(ip) ==
    running' = IF power[ip] = "on"
                 THEN [running EXCEPT ![ip] = loaded[ip]]
                 ELSE running

(* Mutant of Progress: the transfer counted one chunk ahead. *)
ProgressAhead(h) == ((h.sent + 1) * 100) \div Chunks

(* int(float(current * 100) / float(total)) of Host.progress. *)
Progress(h) == (h.sent * 100) \div Chunks

SetState(c, p, n) == state' = [state EXCEPT ![c] = [phase |-> p, progress |-> n]]
SetHost(c, h) == host' = [host EXCEPT ![c] = h]

-----------------------------------------------------------------------------
(* Cabinet.tick(): one transition under the cabinet lock, after the Host's *)
(* own tick.  Each phase is one operator; h is the probed Host.            *)

TickStartup(c, h) ==
    /\ state[c].phase = "startup"
    /\ SetState(c, "wait_power_on", 0)
    /\ SetHost(c, h)
    /\ UNCHANGED <<currentFilename, running>>

(* Mutant of TickWaitPowerOn: the acknowledged filename is sent instead  *)
(* of the selected one.                                                   *)
TickWaitPowerOnCurrent(c, h) ==
    /\ state[c].phase = "wait_power_on"
    /\ \/ /\ ~h.alive
          /\ SetHost(c, h)
          /\ UNCHANGED state
       \/ /\ h.alive
          /\ newFilename[c] = NoFile
          /\ SetState(c, "wait_power_off", 0)
          /\ SetHost(c, h)
       \/ /\ h.alive
          /\ newFilename[c] # NoFile
          /\ SetState(c, "send_game", 0)
          /\ SetHost(c, Send(h, currentFilename[c]))
    /\ UNCHANGED <<currentFilename, running>>

TickWaitPowerOn(c, h) ==
    /\ state[c].phase = "wait_power_on"
    /\ \/ /\ ~h.alive
          /\ SetHost(c, h)
          /\ UNCHANGED state
       \/ /\ h.alive
          /\ newFilename[c] = NoFile
          /\ SetState(c, "wait_power_off", 0)
          /\ SetHost(c, h)
       \/ /\ h.alive
          /\ newFilename[c] # NoFile
          /\ SetState(c, "send_game", 0)
          /\ SetHost(c, Send(h, newFilename[c]))
    /\ UNCHANGED <<currentFilename, running>>

(* Mutants of TickSendGame: the failed test widened to "not completed";  *)
(* a failure taken for a running transfer; a failure taken as done (no retry).         *)
TickSendGameFailWide(c, h) ==
    /\ state[c].phase = "send_game"
    /\ h.status # "inactive"
    /\ SetHost(c, h)
    /\ \/ /\ h.status # "completed"
          /\ SetState(c, "wait_power_on", 0)
          /\ UNCHANGED running
       \/ /\ h.status = "completed"
          /\ Reboot(IpOf[c])
          /\ SetState(c, "wait_power_off", 0)
    /\ UNCHANGED currentFilename

TickSendGameFailStays(c, h) ==
    /\ state[c].phase = "send_game"
    /\ h.status # "inactive"
    /\ SetHost(c, h)
    /\ \/ /\ h.status \in {"transferring", "failed"}
          /\ SetState(c, "send_game", Progress(h))
          /\ UNCHANGED running
       \/ /\ h.status = "completed"
          /\ Reboot(IpOf[c])
          /\ SetState(c, "wait_power_off", 0)
    /\ UNCHANGED currentFilename

TickSendGameNoRetry(c, h) ==
    /\ state[c].phase = "send_game"
    /\ h.status # "inactive"
    /\ SetHost(c, h)
    /\ \/ /\ h.status = "transferring"
          /\ SetState(c, "send_game", Progress(h))
          /\ UNCHANGED running
       \/ /\ h.status = "failed"
          /\ SetState(c, "wait_power_off", 0)
          /\ UNCHANGED running
       \/ /\ h.status = "completed"
          /\ Reboot(IpOf[c])
          /\ SetState(c, "wait_power_off", 0)
    /\ UNCHANGED currentFilename

(* An "inactive" Host here raises in the poll thread: no step is taken.   *)
TickSendGame(c, h) ==
    /\ state[c].phase = "send_game"
    /\ h.status # "inactive"
    /\ SetHost(c, h)
    /\ \/ /\ h.status = "transferring"
          /\ SetState(c, "send_game", Progress(h))
          /\ UNCHANGED running
       \/ /\ h.status = "failed"
          /\ SetState(c, "wait_power_on", 0)
          /\ UNCHANGED running
       \/ /\ h.status = "completed"
          /\ Reboot(IpOf[c])
          /\ SetState(c, "wait_power_off", 0)
    /\ UNCHANGED currentFilename

TickWaitPowerOff(c, h) ==
    /\ state[c].phase = "wait_power_off"
    /\ SetHost(c, h)
    /\ \/ /\ ~h.alive
          /\ SetState(c, "wait_power_on", 0)
          /\ UNCHANGED currentFilename
       \/ /\ h.alive
          /\ currentFilename[c] # newFilename[c]
          /\ currentFilename' = [currentFilename EXCEPT ![c] = newFilename[c]]
          /\ SetState(c, "wait_power_on", 0)
       \/ /\ h.alive
          /\ currentFilename[c] = newFilename[c]
          /\ UNCHANGED <<state, currentFilename>>
    /\ UNCHANGED running

Tick(c) ==
    LET h == Probed(host[c], IpOf[c]) IN
    /\ \/ TickStartup(c, h)
       \/ TickWaitPowerOn(c, h)
       \/ TickSendGame(c, h)
       \/ TickWaitPowerOff(c, h)
    /\ UNCHANGED <<newFilename, power, loaded, envVars>>

(* The filename property setter, under the cabinet lock. *)
SetFilename(c, f) ==
    /\ edits < MaxEdits
    /\ newFilename' = [newFilename EXCEPT ![c] = f]
    /\ edits' = edits + 1
    /\ UNCHANGED <<state, currentFilename, host, physVars, cycles, fails>>

-----------------------------------------------------------------------------
(* The Host's transfer thread, modelled from the spec.                    *)

HostTransfer(c) ==
    /\ host[c].status = "transferring"
    /\ power[IpOf[c]] = "on"
    /\ host[c].sent < Chunks
    /\ host' = [host EXCEPT ![c].sent = @ + 1]
    /\ UNCHANGED <<state, currentFilename, newFilename, physVars, envVars>>

HostComplete(c) ==
    /\ host[c].status = "transferring"
    /\ power[IpOf[c]] = "on"
    /\ host[c].sent = Chunks
    /\ host' = [host EXCEPT ![c].status = "completed"]
    /\ loaded' = [loaded EXCEPT ![IpOf[c]] = host[c].file]
    /\ UNCHANGED <<state, currentFilename, newFilename, power, running, envVars>>

(* A transfer to a powered-off cabinet fails. *)
HostLost(c) ==
    /\ host[c].status = "transferring"
    /\ power[IpOf[c]] = "off"
    /\ host' = [host EXCEPT ![c].status = "failed"]
    /\ UNCHANGED <<state, currentFilename, newFilename, physVars, envVars>>

(* A transfer to a powered cabinet fails (network error), within budget.  *)
HostFail(c) ==
    /\ host[c].status = "transferring"
    /\ power[IpOf[c]] = "on"
    /\ fails < MaxFails
    /\ host' = [host EXCEPT ![c].status = "failed"]
    /\ fails' = fails + 1
    /\ UNCHANGED <<state, currentFilename, newFilename, physVars, edits, cycles>>

-----------------------------------------------------------------------------
(* The physical cabinet: switching off loses the netbooted game.          *)

PowerOff(ip) ==
    /\ power[ip] = "on"
    /\ cycles < MaxCycles
    /\ power' = [power EXCEPT ![ip] = "off"]
    /\ loaded' = [loaded EXCEPT ![ip] = NoFile]
    /\ running' = [running EXCEPT ![ip] = NoFile]
    /\ cycles' = cycles + 1
    /\ UNCHANGED <<cabVars, edits, fails>>

PowerOn(ip) ==
    /\ power[ip] = "off"
    /\ power' = [power EXCEPT ![ip] = "on"]
    /\ UNCHANGED <<cabVars, loaded, running, envVars>>

HostNext(c) == HostTransfer(c) \/ HostComplete(c) \/ HostLost(c) \/ HostFail(c)

EnvNext ==
    \/ \E c \in Cabs, f \in EditFiles : SetFilename(c, f)
    \/ \E ip \in IPs : PowerOff(ip) \/ PowerOn(ip)

Next ==
    \/ \E c \in Cabs : Tick(c) \/ HostNext(c)
    \/ EnvNext

(* The poll thread ticks every cabinet once a second, and the transfer    *)
(* thread runs while it has work; operator and power are not fair.        *)
Fairness ==
    \A c \in Cabs :
        /\ WF_vars(Tick(c))
        /\ WF_vars(HostTransfer(c))
        /\ WF_vars(HostComplete(c))
        /\ WF_vars(HostLost(c))

Spec == Init /\ [][Next]_vars
FairSpec == Spec /\ Fairness

-----------------------------------------------------------------------------
(* Properties.                                                            *)

(* The transport and the phase agree: tick() is in send_game only with a *)
(* transfer started (so its "shouldn't be possible" raise on an inactive  *)
(* Host is unreachable), and a transfer runs only while tick() is in      *)
(* send_game to watch it.                                                 *)
TransportInStep ==
    \A c \in Cabs :
        /\ state[c].phase = "send_game" => host[c].status # "inactive"
        /\ host[c].status = "transferring" => state[c].phase = "send_game"

(* Every transfer ends: whatever the network and the power switch do,     *)
(* tick() does not stay in send_game for ever.                            *)
TransferEnds ==
    \A c \in Cabs : state[c].phase = "send_game" ~> state[c].phase # "send_game"

(* The machine believes cabinet c is up with the chosen game: waiting for *)
(* power off, the cabinet on and the filename acknowledged.               *)
Settled(c) ==
    /\ state[c].phase = "wait_power_off"
    /\ power[IpOf[c]] = "on"
    /\ currentFilename[c] = newFilename[c]
    /\ newFilename[c] # NoFile

(* When tick() has settled in wait_power_off with the chosen filename     *)
(* acknowledged, a cabinet that runs a game runs the chosen one: no       *)
(* interleaving of filename edits with tick() leaves it on another game.  *)
NeverWrongGame ==
    \A c \in Cabs :
        Settled(c) /\ running[IpOf[c]] # NoFile => running[IpOf[c]] = newFilename[c]

(* tick() leaves wait_power_off while the cabinet is on only to push a    *)
(* different game: a cabinet already running the chosen game is never    *)
(* rebooted again (the reason tick() keeps __current_filename).           *)
RunningNotResent ==
    [][\A c \in Cabs :
         /\ state[c].phase = "wait_power_off"
         /\ state'[c].phase = "wait_power_on"
         /\ power[IpOf[c]] = "on"
         => running[IpOf[c]] # newFilename[c]]_vars

(* The controller pushes the selected game (spec section 1) and retries  *)
(* an interrupted push after the next power cycle (spec section 7): once  *)
(* the operator and the power switch stop, every powered cabinet with a   *)
(* chosen game ends up running it for good.  tick() in wait_power_off     *)
(* learns of a power cycle only by polling host.alive while it is off.     *)
Convergence ==
    <>[](\A c \in Cabs :
            power[IpOf[c]] = "on" /\ newFilename[c] # NoFile
                => running[IpOf[c]] = newFilename[c])

-----------------------------------------------------------------------------
(* Refinement: a cabinet in send_game is a delivery of the file its Host  *)
(* sends; the selected game is newFilename.                               *)

Delivery == INSTANCE CabinetDelivery WITH
    busy     <- [c \in Cabs |-> state[c].phase = "send_game"],
    inflight <- [c \in Cabs |-> IF state[c].phase = "send_game"
                                THEN host[c].file ELSE NoFile],
    target   <- newFilename

(* Cabinet.tick() with its Host implements the delivery promise: it       *)
(* starts a delivery only of the selected game and only on a powered      *)
(* cabinet, reboots the cabinet only into the game it delivered, and      *)
(* every delivery ends.                                                   *)
ImplementsDelivery == Delivery!FairSpec

=============================================================================
