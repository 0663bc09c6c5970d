-------------------------- MODULE CabinetLocksProofs --------------------------
(***************************************************************************)
(* Proofs about the lock order of src/netboot/cabinet.py (CabinetLocks),  *)
(* for any number of callers, cabinet objects and IPs.                     *)
(*                                                                         *)
(* Each thread's program counter determines the locks it holds (Held):    *)
(* the lock of the `with` block it is in, and the manager lock throughout *)
(* update_cabinet's call of _clone_state.  LockInv says that owner agrees *)
(* with Held.  From it: a thread waiting for the manager lock holds no    *)
(* lock, and a waiting thread holds at most the manager lock, so a wait   *)
(* cycle would have a waiter for a cabinet lock held by a waiter, which   *)
(* holds only the manager lock.                                            *)
(***************************************************************************)
EXTENDS CabinetLocks, TLAPS

(* The states of update_cabinet after its check, which hold Mgr. *)
InUpdate == {"upd_old", "upd_new", "upd_set"}

Held(t) ==
    (IF got[t] THEN {Want(t)} ELSE {}) \cup (IF pc[t] \in InUpdate THEN {Mgr} ELSE {})

(* The arguments a thread's program counter uses are set. *)
ArgsSet ==
    \A t \in Threads :
        /\ pc[t] \in {"p_tick", "fname", "y_get", "upd_old"} => ref[t] \in Objs
        /\ pc[t] \in {"add", "upd"} \cup InUpdate => obj[t] \in Objs
        /\ pc[t] \in {"remove", "lookup"} => arg[t] \in IPs

LockInv ==
    /\ \A t \in Threads : got[t] => Want(t) \in Locks
    /\ \A t \in Threads, l \in Locks : owner[l] = t <=> l \in Held(t)

IInv == TypeOK /\ ArgsSet /\ LockInv

USE LocksAssumption

(* The states the model starts in satisfy the invariant. *)
LEMMA InitIInv == Init => IInv
BY DEF Init, IInv, TypeOK, ArgsSet, LockInv, Held, Threads, Locks, PCs,
    InUpdate

(* Taking a free lock records its owner in the thread's Held set. *)
LEMMA AcquireIInv ==
    ASSUME IInv, NEW t \in Threads, Acquire(t)
    PROVE  IInv'
BY DEF IInv, TypeOK, ArgsSet, LockInv, Held, Want, Acquire, Threads, Locks,
   InUpdate, PCs

(* The poll thread's steps keep the invariant. *)
LEMMA PollIInv ==
    ASSUME IInv, PollSnapshot \/ PollNext \/ PollTick
    PROVE  IInv'
<1> USE DEF IInv, TypeOK, ArgsSet, LockInv, Held, Want, Threads, Locks,
            Release, Goto, InFleet, PCs, InUpdate
<1>1. CASE PollSnapshot
  BY <1>1 DEF PollSnapshot
<1>2. CASE PollNext
  <2>1. ~got[Poller] /\ Held(Poller) = {}
    BY <1>2 DEF PollNext
  <2>2. CASE todo[Poller] = {} /\ Goto(Poller, "p_snap") /\ UNCHANGED <<ref, todo>>
    BY <1>2, <2>1, <2>2 DEF PollNext
  <2>3. ASSUME NEW o \in todo[Poller],
               /\ ref' = [ref EXCEPT ![Poller] = o]
               /\ todo' = [todo EXCEPT ![Poller] = @ \ {o}]
               /\ Goto(Poller, "p_tick")
        PROVE IInv'
    BY <1>2, <2>1, <2>3 DEF PollNext
  <2>4. QED
    BY <1>2, <2>2, <2>3 DEF PollNext
<1>3. CASE PollTick
  BY <1>3 DEF PollTick
<1>4. QED
  BY <1>1, <1>2, <1>3

(* to_yaml's steps keep the invariant. *)
LEMMA YamlIInv ==
    ASSUME IInv, NEW t \in Callers,
           YamlSnapshot(t) \/ YamlNext(t) \/ YamlGet(t)
    PROVE  IInv'
<1> USE DEF IInv, TypeOK, ArgsSet, LockInv, Held, Want, Threads, Locks,
            Release, Goto, Done, InFleet, PCs, InUpdate
<1>1. CASE YamlSnapshot(t)
  BY <1>1 DEF YamlSnapshot
<1>2. CASE YamlNext(t)
  <2>1. ~got[t] /\ Held(t) = {}
    BY <1>2 DEF YamlNext
  <2>2. CASE todo[t] = {} /\ Done(t) /\ UNCHANGED todo
    BY <1>2, <2>1, <2>2 DEF YamlNext
  <2>3. ASSUME NEW o \in todo[t],
               /\ ref' = [ref EXCEPT ![t] = o]
               /\ todo' = [todo EXCEPT ![t] = @ \ {o}]
               /\ Goto(t, "y_get")
               /\ UNCHANGED <<obj, arg>>
        PROVE IInv'
    BY <1>2, <2>1, <2>3 DEF YamlNext
  <2>4. QED
    BY <1>2, <2>2, <2>3 DEF YamlNext
<1>3. CASE YamlGet(t)
  BY <1>3 DEF YamlGet
<1>4. QED
  BY <1>1, <1>2, <1>3

(* A caller's call of a manager operation keeps the invariant. *)
LEMMA CallIInv ==
    ASSUME IInv, NEW t \in Callers, Call(t)
    PROVE  IInv'
<1> USE DEF IInv, TypeOK, ArgsSet, LockInv, Held, Want, Threads, Locks,
            Goto, PCs, InUpdate
<1>1. ~got[t] /\ Held(t) = {}
  BY DEF Call
<1>0. UNCHANGED <<owner, fleet, ref, todo>>
  BY DEF Call
<1>2. ASSUME NEW o \in Objs, obj' = [obj EXCEPT ![t] = o],
             NEW p \in {"add", "upd"}, Goto(t, p), UNCHANGED arg
      PROVE IInv'
  BY <1>0, <1>1, <1>2
<1>3. ASSUME NEW ip \in IPs, arg' = [arg EXCEPT ![t] = ip],
             NEW p \in {"remove", "lookup"}, Goto(t, p), UNCHANGED obj
      PROVE IInv'
  BY <1>0, <1>1, <1>3
<1>4. CASE Goto(t, "yaml") /\ UNCHANGED <<obj, arg>>
  BY <1>0, <1>1, <1>4
<1>5. QED
  BY <1>2, <1>3, <1>4 DEF Call

(* add_cabinet, remove_cabinet, cabinet() and the filename setter keep    *)
(* the invariant.                                                         *)
LEMMA FleetOpIInv ==
    ASSUME IInv, NEW t \in Callers,
           AddCabinet(t) \/ RemoveCabinet(t) \/ LookupCabinet(t) \/ SetFilename(t)
    PROVE  IInv'
<1> USE DEF IInv, TypeOK, ArgsSet, LockInv, Held, Want, Threads, Locks,
            Release, Goto, Done, PCs, InUpdate
<1>1. CASE AddCabinet(t)
  BY <1>1 DEF AddCabinet
<1>2. CASE RemoveCabinet(t)
  BY <1>2 DEF RemoveCabinet
<1>3. CASE LookupCabinet(t)
  <2>0. /\ pc[t] = "lookup" /\ got[t] /\ Release(Mgr)
        /\ UNCHANGED <<fleet, todo>>
    BY <1>3 DEF LookupCabinet
  <2>1. CASE fleet[arg[t]] = NoObj
    <3>1. Done(t)
      BY <1>3, <2>1 DEF LookupCabinet
    <3>2. QED
      BY <2>0, <3>1
  <2>2. CASE fleet[arg[t]] # NoObj
    <3>1. /\ ref' = [ref EXCEPT ![t] = fleet[arg[t]]]
          /\ Goto(t, "fname")
          /\ UNCHANGED <<obj, arg>>
      BY <1>3, <2>2 DEF LookupCabinet
    <3>2. fleet[arg[t]] \in Objs
      BY <2>0, <2>2
    <3>3. QED
      BY <2>0, <3>1, <3>2
  <2>3. QED
    BY <2>1, <2>2
<1>4. CASE SetFilename(t)
  BY <1>4 DEF SetFilename
<1>5. QED
  BY <1>1, <1>2, <1>3, <1>4

(* update_cabinet and its call of _clone_state keep the invariant. *)
LEMMA UpdateIInv ==
    ASSUME IInv, NEW t \in Callers,
           \/ UpdateCabinet(t) \/ CloneReadOld(t) \/ CloneWriteNew(t)
           \/ UpdateReplace(t)
    PROVE  IInv'
<1> USE DEF IInv, TypeOK, ArgsSet, LockInv, Held, Want, Threads, Locks,
            Release, Goto, Done, PCs, InUpdate
<1>1. CASE UpdateCabinet(t)
  <2>0. /\ pc[t] = "upd" /\ got[t] /\ UNCHANGED <<fleet, todo>>
        /\ obj[t] \in Objs /\ ObjIp[obj[t]] \in IPs
    BY <1>1 DEF UpdateCabinet
  <2>1. CASE fleet[ObjIp[obj[t]]] = NoObj
    <3>1. Release(Mgr) /\ Done(t)
      BY <1>1, <2>1 DEF UpdateCabinet
    <3>2. QED
      BY <2>0, <3>1
  <2>2. CASE fleet[ObjIp[obj[t]]] # NoObj
    <3>1. /\ ref' = [ref EXCEPT ![t] = fleet[ObjIp[obj[t]]]]
          /\ Goto(t, "upd_old")
          /\ UNCHANGED <<owner, obj, arg>>
      BY <1>1, <2>2 DEF UpdateCabinet
    <3>2. fleet[ObjIp[obj[t]]] \in Objs
      BY <2>0, <2>2
    <3>3. QED
      BY <2>0, <3>1, <3>2
  <2>3. QED
    BY <2>1, <2>2
<1>2. CASE CloneReadOld(t)
  <2>1. ASSUME NEW copy \in BOOLEAN,
               Goto(t, IF copy THEN "upd_new" ELSE "upd_set")
        PROVE IInv'
    BY <1>2, <2>1 DEF CloneReadOld
  <2>2. QED
    BY <1>2, <2>1 DEF CloneReadOld
<1>3. CASE CloneWriteNew(t)
  BY <1>3 DEF CloneWriteNew
<1>4. CASE UpdateReplace(t)
  BY <1>4 DEF UpdateReplace
<1>5. QED
  BY <1>1, <1>2, <1>3, <1>4

-----------------------------------------------------------------------------
(* LockInv holds in every reachable state: owner always records exactly  *)
(* the locks each thread's position in the code holds.                    *)
THEOREM LockInvariant == Spec => []IInv
<1>1. IInv /\ [Next]_vars => IInv'
  <2> SUFFICES ASSUME IInv, [Next]_vars PROVE IInv'
    OBVIOUS
  <2>1. CASE \E t \in Threads : Acquire(t)
    BY <2>1, AcquireIInv
  <2>2. CASE PollSnapshot \/ PollNext \/ PollTick
    BY <2>2, PollIInv
  <2>3. ASSUME NEW t \in Callers,
               \/ Call(t) \/ AddCabinet(t) \/ RemoveCabinet(t) \/ LookupCabinet(t)
               \/ SetFilename(t) \/ YamlSnapshot(t) \/ YamlNext(t) \/ YamlGet(t)
               \/ UpdateCabinet(t) \/ CloneReadOld(t) \/ CloneWriteNew(t)
               \/ UpdateReplace(t)
        PROVE IInv'
    BY <2>3, CallIInv, FleetOpIInv, YamlIInv, UpdateIInv
  <2>4. CASE UNCHANGED vars
    BY <2>4 DEF vars, IInv, TypeOK, ArgsSet, LockInv, Held, Want, InUpdate
  <2>5. QED
    BY <2>1, <2>2, <2>3, <2>4 DEF Next
<1>2. QED
  BY <1>1, InitIInv, PTL DEF Spec

(* The lock hierarchy of spec section 5 holds for every number of callers *)
(* and cabinets: a thread waiting for the manager lock (the poll thread's *)
(* snapshot, every manager operation, to_yaml) holds no cabinet lock.     *)
THEOREM HierarchyHolds == Spec => []LockHierarchy
<1>1. IInv => LockHierarchy
  <2> SUFFICES ASSUME IInv, NEW t \in Threads, Want(t) = Mgr, ~got[t],
                      NEW o \in Objs
               PROVE  owner[o] # t
    BY DEF LockHierarchy
  <2>1. pc[t] \notin InUpdate
    BY LocksAssumption DEF Want, InUpdate, IInv, ArgsSet, Threads
  <2>2. Held(t) = {}
    BY <2>1 DEF Held
  <2>3. QED
    BY <2>2 DEF IInv, LockInv, Locks
<1>2. QED
  BY <1>1, LockInvariant, PTL

(* A waiting thread holds at most the manager lock, and then waits for a  *)
(* cabinet lock (update_cabinet in _clone_state).                         *)
LEMMA WaiterHolds ==
    ASSUME IInv, NEW u \in Threads, ~got[u], NEW l \in Locks, owner[l] = u
    PROVE  /\ l = Mgr
           /\ pc[u] \in InUpdate
           /\ Want(u) \in Objs \cup {NoLock}
<1>1. l \in Held(u)
  BY DEF IInv, LockInv
<1>2. l = Mgr /\ pc[u] \in InUpdate
  BY <1>1 DEF Held
<1>3. Want(u) \in Objs \cup {NoLock}
  BY <1>2 DEF IInv, ArgsSet, Want, InUpdate
<1>4. QED
  BY <1>2, <1>3

(* No set of threads ever waits on locks held within the set: the lock    *)
(* order manager-then-cabinet of update_cabinet, with cabinet locks taken *)
(* one at a time, admits no deadlock, for any number of threads.          *)
THEOREM DeadlockFree == Spec => []NoWaitCycle
<1>1. IInv => NoWaitCycle
  <2> SUFFICES ASSUME IInv, NEW S \in (SUBSET Threads) \ {{}},
                      \A t \in S : Waiting(t) /\ owner[Want(t)] \in S
               PROVE  FALSE
    BY DEF NoWaitCycle
  <2>1. PICK t \in S : TRUE
    BY DEF Threads
  <2>2. Want(t) \in Locks /\ owner[Want(t)] \in S
    BY <2>1 DEF Waiting, IInv, TypeOK, ArgsSet, Want, Locks, InUpdate
  <2>3. PICK u \in S : owner[Want(t)] = u
    BY <2>2
  <2>4. Waiting(u) /\ owner[Want(u)] \in S
    OBVIOUS
  <2>5. Want(u) \in Objs
    BY <2>2, <2>3, <2>4, WaiterHolds DEF Waiting
  <2>6. PICK v \in S : owner[Want(u)] = v
    BY <2>4
  <2>7. Want(u) = Mgr
    BY <2>5, <2>6, WaiterHolds DEF Waiting, Locks
  <2>8. QED
    BY <2>5, <2>7, LocksAssumption
<1>2. QED
  BY <1>1, LockInvariant, PTL

=============================================================================
