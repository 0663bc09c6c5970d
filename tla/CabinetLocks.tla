----------------------------- MODULE CabinetLocks -----------------------------
(***************************************************************************)
(* The two kinds of threading.Lock of src/netboot/cabinet.py and the order *)
(* in which threads take them: CabinetManager.__lock (Mgr) guarding the    *)
(* fleet map, and one Cabinet.__lock per cabinet object.  The threads are  *)
(* the manager's poll thread and caller threads that add, remove and       *)
(* update cabinets, set a cabinet's filename through cabinet(ip), and save *)
(* the fleet with to_yaml.                                                 *)
(*                                                                         *)
(* Only the locking is modelled; what the critical sections compute is    *)
(* left to Cabinet and CabinetManager, except the fleet map, which decides *)
(* which locks are taken.  Taking a lock is a step of its own, enabled     *)
(* only while the lock is free (threading.Lock is not reentrant); each     *)
(* critical section, up to its release, is one step.                       *)
(***************************************************************************)
EXTENDS FiniteSets

CONSTANTS
    Poller,   \* the poll thread
    Callers,  \* caller threads
    Objs,     \* Cabinet objects
    IPs,      \* cabinet IP addresses
    ObjIp,    \* ObjIp[o]: the IP cabinet object o was constructed for
    Mgr,      \* the manager lock
    Free,     \* owner of a free lock
    NoObj,    \* no object or IP (fleet slot empty, no argument held)
    NoLock    \* a thread that wants no lock

ASSUME LocksAssumption ==
    /\ Poller \notin Callers
    /\ ObjIp \in [Objs -> IPs]
    /\ Mgr \notin Objs
    /\ NoObj \notin Objs
    /\ NoLock \notin {Mgr} \cup Objs
    /\ Free \notin {Poller} \cup Callers

Threads == {Poller} \cup Callers
Locks == {Mgr} \cup Objs

VARIABLES
    owner,  \* owner[l]: the thread holding lock l, or Free
    pc,     \* pc[t]: where thread t is
    got,    \* got[t]: t holds the lock its pc asks for
    fleet,  \* CabinetManager.__cabinets: IP -> object
    obj,    \* obj[t]: the cabinet passed to add_cabinet / update_cabinet
    arg,    \* arg[t]: the IP passed to remove_cabinet / cabinet
    ref,    \* ref[t]: the cabinet whose lock t works with
    todo    \* todo[t]: cabinets of a fleet snapshot still to visit

vars == <<owner, pc, got, fleet, obj, arg, ref, todo>>

PCs == {"p_snap", "p_next", "p_tick",
        "idle", "add", "remove", "lookup", "fname", "yaml", "y_next", "y_get",
        "upd", "upd_old", "upd_new", "upd_set"}

TypeOK ==
    /\ owner \in [Locks -> Threads \cup {Free}]
    /\ pc \in [Threads -> PCs]
    /\ got \in [Threads -> BOOLEAN]
    /\ fleet \in [IPs -> Objs \cup {NoObj}]
    /\ obj \in [Threads -> Objs \cup {NoObj}]
    /\ arg \in [Threads -> IPs \cup {NoObj}]
    /\ ref \in [Threads -> Objs \cup {NoObj}]
    /\ todo \in [Threads -> SUBSET Objs]

(* The objects in the fleet. *)
InFleet == {fleet[ip] : ip \in {i \in IPs : fleet[i] # NoObj}}

(* The lock thread t must take to go on from pc[t]: the manager lock to   *)
(* enter a `with self.__lock` of CabinetManager, the lock of ref[t] or    *)
(* obj[t] to enter one of Cabinet.                                        *)
Want(t) ==
    IF pc[t] \in {"p_snap", "add", "remove", "lookup", "yaml", "upd"} THEN Mgr
    ELSE IF pc[t] \in {"p_tick", "fname", "y_get", "upd_old"} THEN ref[t]
    ELSE IF pc[t] = "upd_new" THEN obj[t]
    ELSE NoLock

(* t is blocked on a lock held by another thread or by itself. *)
Waiting(t) == ~got[t] /\ Want(t) # NoLock /\ owner[Want(t)] # Free

Init ==
    /\ owner = [l \in Locks |-> Free]
    /\ pc = [t \in Threads |-> IF t = Poller THEN "p_snap" ELSE "idle"]
    /\ got = [t \in Threads |-> FALSE]
    /\ fleet \in {m \in [IPs -> Objs \cup {NoObj}] :
                    \A i \in IPs : m[i] # NoObj => ObjIp[m[i]] = i}
    /\ obj = [t \in Threads |-> NoObj]
    /\ arg = [t \in Threads |-> NoObj]
    /\ ref = [t \in Threads |-> NoObj]
    /\ todo = [t \in Threads |-> {}]

Release(l) == owner' = [owner EXCEPT ![l] = Free]

Goto(t, p) ==
    /\ pc' = [pc EXCEPT ![t] = p]
    /\ got' = [got EXCEPT ![t] = FALSE]

(* Return from a manager operation, dropping its arguments. *)
Done(t) ==
    /\ Goto(t, "idle")
    /\ obj' = [obj EXCEPT ![t] = NoObj]
    /\ arg' = [arg EXCEPT ![t] = NoObj]
    /\ ref' = [ref EXCEPT ![t] = NoObj]

(* Enter a `with x.__lock:` block: block until the lock is free. *)
Acquire(t) ==
    /\ ~got[t]
    /\ Want(t) # NoLock
    /\ owner[Want(t)] = Free
    /\ owner' = [owner EXCEPT ![Want(t)] = t]
    /\ got' = [got EXCEPT ![t] = TRUE]
    /\ UNCHANGED <<pc, fleet, obj, arg, ref, todo>>

-----------------------------------------------------------------------------
(* The poll thread and to_yaml: snapshot the fleet under the manager      *)
(* lock, then take each cabinet's lock in turn without it (tick() and the *)
(* filename getter).  The snapshot is visited in any order.               *)

PollSnapshot ==
    /\ pc[Poller] = "p_snap" /\ got[Poller]
    /\ todo' = [todo EXCEPT ![Poller] = InFleet]
    /\ Release(Mgr)
    /\ Goto(Poller, "p_next")
    /\ UNCHANGED <<fleet, obj, arg, ref>>

(* Next cabinet to tick; after the last, sleep and snapshot again. *)
PollNext ==
    /\ pc[Poller] = "p_next"
    /\ \/ /\ todo[Poller] = {}
          /\ Goto(Poller, "p_snap")
          /\ UNCHANGED <<ref, todo>>
       \/ \E o \in todo[Poller] :
            /\ ref' = [ref EXCEPT ![Poller] = o]
            /\ todo' = [todo EXCEPT ![Poller] = @ \ {o}]
            /\ Goto(Poller, "p_tick")
    /\ UNCHANGED <<owner, fleet, obj, arg>>

(* Cabinet.tick(), under the cabinet's lock. *)
PollTick ==
    /\ pc[Poller] = "p_tick" /\ got[Poller]
    /\ Release(ref[Poller])
    /\ Goto(Poller, "p_next")
    /\ UNCHANGED <<fleet, obj, arg, ref, todo>>

YamlSnapshot(t) ==
    /\ pc[t] = "yaml" /\ got[t]
    /\ todo' = [todo EXCEPT ![t] = InFleet]
    /\ Release(Mgr)
    /\ Goto(t, "y_next")
    /\ UNCHANGED <<fleet, obj, arg, ref>>

YamlNext(t) ==
    /\ pc[t] = "y_next"
    /\ \/ /\ todo[t] = {}
          /\ Done(t)
          /\ UNCHANGED todo
       \/ \E o \in todo[t] :
            /\ ref' = [ref EXCEPT ![t] = o]
            /\ todo' = [todo EXCEPT ![t] = @ \ {o}]
            /\ Goto(t, "y_get")
            /\ UNCHANGED <<obj, arg>>
    /\ UNCHANGED <<owner, fleet>>

(* The cab.filename getter of to_yaml. *)
YamlGet(t) ==
    /\ pc[t] = "y_get" /\ got[t]
    /\ Release(ref[t])
    /\ Goto(t, "y_next")
    /\ UNCHANGED <<fleet, obj, arg, ref, todo>>


-----------------------------------------------------------------------------
(* Caller threads.  A caller calls one manager operation at a time, with  *)
(* any cabinet object it holds (a new one, or one it got from cabinet()). *)

Call(t) ==
    /\ pc[t] = "idle"
    /\ \/ \E o \in Objs :
            /\ obj' = [obj EXCEPT ![t] = o]
            /\ \E p \in {"add", "upd"} : Goto(t, p)
            /\ UNCHANGED arg
       \/ \E ip \in IPs :
            /\ arg' = [arg EXCEPT ![t] = ip]
            /\ \E p \in {"remove", "lookup"} : Goto(t, p)
            /\ UNCHANGED obj
       \/ Goto(t, "yaml") /\ UNCHANGED <<obj, arg>>
    /\ UNCHANGED <<owner, fleet, ref, todo>>

(* add_cabinet: raises, releasing the lock, if the IP is taken. *)
AddCabinet(t) ==
    /\ pc[t] = "add" /\ got[t]
    /\ IF fleet[ObjIp[obj[t]]] = NoObj
         THEN fleet' = [fleet EXCEPT ![ObjIp[obj[t]]] = obj[t]]
         ELSE UNCHANGED fleet
    /\ Release(Mgr)
    /\ Done(t)
    /\ UNCHANGED todo

(* remove_cabinet: raises if the IP is absent. *)
RemoveCabinet(t) ==
    /\ pc[t] = "remove" /\ got[t]
    /\ fleet' = [fleet EXCEPT ![arg[t]] = NoObj]
    /\ Release(Mgr)
    /\ Done(t)
    /\ UNCHANGED todo

(* cabinet(ip) returns the object, which the caller then uses outside the *)
(* manager lock: `manager.cabinet(ip).filename = f`.                      *)
LookupCabinet(t) ==
    /\ pc[t] = "lookup" /\ got[t]
    /\ Release(Mgr)
    /\ IF fleet[arg[t]] = NoObj
         THEN Done(t)
         ELSE /\ ref' = [ref EXCEPT ![t] = fleet[arg[t]]]
              /\ Goto(t, "fname")
              /\ UNCHANGED <<obj, arg>>
    /\ UNCHANGED <<fleet, todo>>

(* A mutant of SetFilename: the setter saves the fleet (to_yaml) before  *)
(* leaving the cabinet's lock.                                            *)
SetFilenameSaving(t) ==
    /\ pc[t] = "fname" /\ got[t]
    /\ Goto(t, "yaml")
    /\ UNCHANGED <<owner, fleet, obj, arg, ref, todo>>

(* The filename setter, under the cabinet's lock. *)
SetFilename(t) ==
    /\ pc[t] = "fname" /\ got[t]
    /\ Release(ref[t])
    /\ Done(t)
    /\ UNCHANGED <<fleet, todo>>

(* update_cabinet, holding the manager lock: raise if the IP is absent,   *)
(* else call _clone_state on the object in the fleet, keeping the lock.   *)
UpdateCabinet(t) ==
    /\ pc[t] = "upd" /\ got[t]
    /\ IF fleet[ObjIp[obj[t]]] = NoObj
         THEN /\ Release(Mgr)
              /\ Done(t)
         ELSE /\ ref' = [ref EXCEPT ![t] = fleet[ObjIp[obj[t]]]]
              /\ Goto(t, "upd_old")
              /\ UNCHANGED <<owner, obj, arg>>
    /\ UNCHANGED <<fleet, todo>>

(* A mutant of CloneReadOld: the destination's state is written inside    *)
(* the `with other_cabinet.__lock:` block, so the source's lock is still  *)
(* held when the destination's is taken.                                  *)
CloneReadOldNested(t) ==
    /\ pc[t] = "upd_old" /\ got[t]
    /\ \/ Goto(t, "upd_new") /\ UNCHANGED owner
       \/ Release(ref[t]) /\ Goto(t, "upd_set")
    /\ UNCHANGED <<fleet, obj, arg, ref, todo>>

(* _clone_state, first block: read the source's state under its lock;    *)
(* copy it (take the destination's lock) unless it is in send_game.       *)
CloneReadOld(t) ==
    /\ pc[t] = "upd_old" /\ got[t]
    /\ Release(ref[t])
    /\ \E copy \in BOOLEAN : Goto(t, IF copy THEN "upd_new" ELSE "upd_set")
    /\ UNCHANGED <<fleet, obj, arg, ref, todo>>

(* _clone_state, second block: write the destination's state. *)
CloneWriteNew(t) ==
    /\ pc[t] = "upd_new" /\ got[t]
    /\ Release(obj[t])
    /\ Goto(t, "upd_set")
    /\ UNCHANGED <<fleet, obj, arg, ref, todo>>

(* update_cabinet: replace the object and leave the manager lock. *)
UpdateReplace(t) ==
    /\ pc[t] = "upd_set"
    /\ fleet' = [fleet EXCEPT ![ObjIp[obj[t]]] = obj[t]]
    /\ Release(Mgr)
    /\ Done(t)
    /\ UNCHANGED todo

-----------------------------------------------------------------------------
Next ==
    \/ \E t \in Threads : Acquire(t)
    \/ PollSnapshot \/ PollNext \/ PollTick
    \/ \E t \in Callers :
         \/ Call(t) \/ AddCabinet(t) \/ RemoveCabinet(t) \/ LookupCabinet(t)
         \/ SetFilename(t) \/ YamlSnapshot(t) \/ YamlNext(t) \/ YamlGet(t)
         \/ UpdateCabinet(t) \/ CloneReadOld(t) \/ CloneWriteNew(t)
         \/ UpdateReplace(t)

Spec == Init /\ [][Next]_vars

-----------------------------------------------------------------------------
(* No deadlock among the threads: there is no set of threads each blocked *)
(* on a lock held by a thread of the set (a thread blocked on a lock it   *)
(* holds itself is such a set).  A cycle needs a thread to hold one lock  *)
(* while it waits for another, which only update_cabinet does.            *)
NoWaitCycle ==
    \A S \in (SUBSET Threads) \ {{}} :
        \E t \in S : ~Waiting(t) \/ owner[Want(t)] \notin S

(* The lock hierarchy of spec section 5: a thread holding a cabinet lock  *)
(* never waits for the manager lock.                                      *)
LockHierarchy ==
    \A t \in Threads :
        Want(t) = Mgr /\ ~got[t] => \A o \in Objs : owner[o] # t

(* Spec section 5: update_cabinet never holds a cabinet lock together     *)
(* with the manager lock.                                                 *)
OneLockInUpdate ==
    \A t \in Threads :
        owner[Mgr] = t => \A o \in Objs : owner[o] # t
=============================================================================
