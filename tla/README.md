# Formal models of netboot's cabinet controller and ROM settings patcher

This directory holds TLA+ models of the core of this repository, TLC
configurations that check them on small instances, and TLAPS proofs of
their main invariants for every instance.

## The system

The repository has two parts under `src/`:

* `src/netboot/cabinet.py` is the **cabinet fleet controller**.
  * `Cabinet` is one state machine per arcade cabinet: startup, wait for
    power on, send game, wait for power off. It drives a `Host`
    (netboot.hostutils, the netboot transport), which probes the cabinet,
    pushes a ROM in a transfer thread of its own, and reboots the cabinet.
  * `CabinetManager` owns the map from IP to `Cabinet` and a daemon poll
    thread. Once a second the thread copies the map under the manager lock
    and then calls `tick()` on each cabinet of the copy, holding only that
    cabinet's lock.
  * Caller threads, such as the web UI, add, remove and replace cabinets
    (`update_cabinet` clones the old state into the new object) and set
    filenames.
* `src/naomi/rom_patch.py` is the **ROM settings patcher**
  (`NaomiSettingsPatcher`). It finds and reads the EEPROM or SRAM settings
  attached to a NAOMI ROM and attaches new ones. SRAM settings go in as an
  extra executable section. EEPROM settings go in through a relocated
  "trojan" executable, which becomes the ROM's entrypoint and chains to the
  game.

How the parts interact: the poll thread ticks cabinets. `tick()` probes the
Host and may call `Host.send`, whose thread then pushes the file. The
patcher prepares ROMs offline or before a send; it shares no state with the
controller.

## Inventory and what is modelled

| Part | Source | Module | Status |
|------|--------|--------|--------|
| Cabinet state machine | cabinet.py 15-147 | `Cabinet` | modelled |
| CabinetManager, poll thread, fleet operations | cabinet.py 149-269 | `CabinetManager` | modelled |
| Locks of the manager, the cabinets and their callers | cabinet.py 49-81, 149-270 | `CabinetLocks` | modelled |
| from_yaml / to_yaml | cabinet.py 160-224 | `CabinetManager` (MgrInit), `CabinetLocks` (to_yaml's locking) | partly |
| What a Cabinet promises (abstract) | spec 4.2 | `CabinetDelivery` | abstract spec |
| Host (netboot transport), physical cabinet | not under src/ | `Cabinet` | modelled from the spec |
| NaomiSettingsPatcher, add_or_update_section/trojan | rom_patch.py 22-403 | `SettingsPatcher` | partly (header cache not a variable) |
| get_default_trojan | rom_patch.py 10-19 | none | not modelled (file I/O) |
| RomHeader, EepromCodec, PatchApplier | external | none | not modelled |

### `Cabinet.tla`

Each variable is indexed by a cabinet object `c` in `Cabs`:

* `state[c]` is `Cabinet.__state`, the pair (phase, progress).
* `currentFilename[c]` and `newFilename[c]` are the two filename fields.
* `host[c]` is the Host, abstracted to four fields:
  * `alive`, the result of the last probe;
  * `status`;
  * `file`, the file being sent;
  * `sent`, the chunks sent so far, out of `Chunks`.

The physical cabinet of an IP is modelled by three variables:

* `power[ip]`, on or off;
* `loaded[ip]`, the game in the DIMM;
* `running[ip]`, the game it booted.

Files are model values, and `NoFile` stands for `None`.

The actions are:

* `Tick(c)` is the whole of `tick()`. It runs the Host probe (`Probed`) and
  then exactly one of four branches, one per phase: `TickStartup`,
  `TickWaitPowerOn`, `TickSendGame` and `TickWaitPowerOff`. Each branch
  copies the guards and assignments of its `if` block.
  * The send in WaitPowerOn is `Send`.
  * The reboot in SendGame is `Reboot`: a powered cabinet boots its loaded
    game.
  * Progress is `Progress`, the integer division of `int(current*100/total)`.
* `SetFilename(c, f)` is the setter.
* `HostTransfer`, `HostComplete`, `HostLost` and `HostFail` are the Host's
  transfer thread:
  * `HostTransfer` sends one chunk;
  * `HostComplete` finishes a transfer, which loads the game into the DIMM;
  * `HostLost` fails a transfer when the cabinet powers off;
  * `HostFail` is a spontaneous network failure.
* `PowerOff` and `PowerOn` model the power switch.
* The three environment actions (edits, power cycles, failures) each have a
  budget: `MaxEdits`, `MaxCycles` and `MaxFails`.

### `CabinetManager.tla`

This module extends `Cabinet` with:

* `fleet`, the map `__cabinets`;
* `used`, the objects constructed so far;
* `pending`, what is left of the poll thread's current snapshot.

Cabinet objects come from a pool, and each one has a fixed IP, `IpOf[c]`.

The poll thread is two actions:

* `PollSnapshot` copies the fleet under the lock.
* `PollTick(c)` is `tick()` on a member of the copy, which may have left
  the fleet since.

The caller-thread actions are:

* `AddCabinet`;
* `RemoveCabinet`;
* `UpdateCabinet`, which uses `ClonedState`, that is `_clone_state`;
* `MgrSetFilename`, a write through a reference from `cabinet(ip)`, possibly
  to an object already replaced.

A Host whose object has left the fleet keeps its transfer thread: its
`HostNext` steps stay enabled.

The paths that raise CabinetException change nothing and are left out.

### `CabinetDelivery.tla` and the refinement

`CabinetDelivery` is what a Cabinet promises about the physical cabinet,
without phases, probes or transfers:

* `StartDelivery(c)`: a delivery of the selected game (`target[c]`) starts
  only while the cabinet is on and a game is selected;
* `EndDelivery(c)`: it ends with the cabinet running the game delivered,
  nothing (the DIMM was wiped), or, if it failed, what it ran before;
* `Select`, `SwitchOff`, `SwitchOn`: the operator and the power switch;
* `FairSpec`: every delivery ends.

`Cabinet.tla` instantiates it as `Delivery` with the mapping:

* `busy[c]` is "phase is send_game";
* `inflight[c]` is the Host's file while in send_game, else `NoFile`;
* `target` is `newFilename`.

`ImplementsDelivery == Delivery!FairSpec` is a property of `FairSpec`.
The Host steps, the phase changes outside send_game and the
`currentFilename` bookkeeping are abstract stutters.

### `CabinetLocks.tla`

This module models the locking of `cabinet.py` apart from the data the
critical sections compute:

* `owner[l]` for the manager lock `Mgr` and one lock per cabinet object;
* per thread, a program counter `pc`, whether it holds the lock its `pc`
  asks for (`got`), and its arguments;
* `fleet`, because it decides which cabinet locks are taken.

Taking a lock (`Acquire`) is a step of its own, enabled only while the lock
is free; `threading.Lock` is not reentrant. Each critical section, up to its
release, is one step. The threads are:

* the poll thread: `PollSnapshot` under `Mgr`, then `PollTick` under each
  cabinet lock of the snapshot;
* callers, each calling one operation at a time (`Call`):
  * `AddCabinet`;
  * `RemoveCabinet`;
  * `LookupCabinet` then `SetFilename`, that is `cabinet(ip).filename = f`;
  * `to_yaml` (`YamlSnapshot`, then `YamlGet` per cabinet);
  * `update_cabinet`: `UpdateCabinet`, `CloneReadOld` and `CloneWriteNew`
    (the two `with` blocks of `_clone_state`), and `UpdateReplace`, all
    under `Mgr`.

A caller may pass `update_cabinet` a new object or the one already in the
fleet. Whether the old state is copied (it is not in send_game) is a free
choice.

### `SettingsPatcher.tla`

A ROM is abstracted to three parts:

* `entry`, the header's entrypoint;
* `secs`, the section table, a sequence of records [load address, block
  index];
* `blocks`, the section data, one block per section.

A block is one of four things:

* the game;
* a zeroed region;
* an SRAM image;
* a trojan, which carries its load address, the entrypoint it chains to
  (the 0xAA placeholder) and its EEPROM (the 0xBB placeholder).

`offset + length == len(data)` becomes "the section's block is the last
one". The model has no bytes.

Patcher objects are used one after another on the ROM the last one left.
The patcher state is:

* `trojan`, the object's trojan build, or `NoTrojan`;
* `ptype`, the cached `__type`, with "unset" standing for `None`.

The actions are:

* `NewPatcher` is `__init__`.
* `GetType` is the `type` property (`DetectType`: SRAM first, then a
  trojan at the entry).
* `GetSettings` is `get_settings` (`ReadKind`/`ReadSettings`: the first
  SRAM or entry-trojan section in table order).
* `PutEeprom` and `PutSram` are `put_settings`. Each caches the type, then
  calls `AddOrUpdateTrojan`/`AttachTrojan` or `AddOrUpdateSection`, or
  raises and leaves the ROM unchanged (`SectionsFull`, no trojan).

The puts that raise before any assignment are left out:

* an invalid EEPROM;
* a wrong serial;
* an unknown length.

The boot of a patched ROM is `BootChain`: from the header's entrypoint,
each trojan jumps to its chained entrypoint.

## Runs

| Run | Checks | Result |
|-----|--------|--------|
| cabinet_safety | TypeOK, TransportInStep, TransferEnds, ImplementsDelivery | pass |
| cabinet_converge | Convergence | violation (finding) |
| cabinet_wronggame | NeverWrongGame | violation (finding) |
| cabinet_resend | RunningNotResent | violation (finding) |
| manager_safety | MgrTypeOK, TransportInStep, EveryCabinetTicked | pass |
| manager_twotransfers | OneTransferPerCabinet | violation (finding) |
| locks_safety | NoWaitCycle, LockHierarchy | pass |
| locks_onelock | OneLockInUpdate | violation (finding) |
| patcher_safety | TypeOK, EntryChainsToGame, LatestSettingsBoot, RomGrowthBounded | pass |
| patcher_kinds | KindsExclusive | violation (finding) |
| patcher_stalechain | LatestSettingsBoot | violation (finding) |
| patcher_cachedtype | CachedTypeCurrent | violation (finding) |

### The properties

* **TransportInStep**: a cabinet is in SendGame exactly when its Host has a
  transfer outstanding, and a Host transfers only while its cabinet is in
  SendGame.
  * It makes the `raise` at cabinet.py:114 unreachable. If that raise
    fired, it would end the poll thread for the whole fleet.
  * Breaking it takes a send, a failure or completion, and a tick in the
    wrong order.
  * Under the manager it also covers `_clone_state`: cloning a SendGame
    state would leave the new object in SendGame with an inactive Host.
* **TransferEnds**: every SendGame phase is left. This holds under power
  loss, network failure and the retry path.
* **Convergence**: once edits and power cycles stop, a powered cabinet with
  a selected game ends up running that game for good. This is what the
  spec promises (sections 1 and 7). It is violated by a single power cycle
  that falls between two polls: see findings. Edits break it too, as
  `NeverWrongGame` shows.
* **NeverWrongGame**: a cabinet at rest in WaitPowerOff, powered and with
  its filenames equal, runs the selected game. It is violated: see
  findings.
* **RunningNotResent**: an action property. Leaving WaitPowerOff for a new
  send while powered means the cabinet is not already running the selected
  game. It is violated: see findings.
* **OneTransferPerCabinet**: at most one Host pushes to an IP at a time. It
  is violated under update_cabinet and stale snapshots.
* **ImplementsDelivery**: the cabinet implements `CabinetDelivery` under
  `FairSpec`.
  * A delivery starts only for the selected game while the cabinet is on.
  * It carries that game until tick() sees it end.
  * The cabinet boots only the game delivered.
  * Every delivery ends.
  * Sending `currentFilename` instead of `newFilename` breaks it.
* **EveryCabinetTicked**: every cabinet that stays in the fleet is ticked
  infinitely often. This includes one added or swapped in after a snapshot
  was taken, which only a later pass picks up.
* **NoWaitCycle**: no set of threads waits in a cycle on the locks. A
  thread waiting on a lock it holds itself counts as a cycle.
  * A nested `_clone_state`, which takes the new object's lock while still
    holding the old one's, deadlocks when the update passes the object
    already in the fleet. The mutant `CloneReadOldNested` shows it.
* **LockHierarchy**: a thread holding a cabinet lock never waits for the
  manager lock (spec section 5).
* **OneLockInUpdate**: `update_cabinet` never holds a cabinet lock together
  with the manager lock (spec section 5). It is violated: see findings.

* **EntryChainsToGame**: booting a patched ROM reaches the game, with no
  loop through trojans.
  * A re-patch must take the old trojan's saved entrypoint. The header's
    entrypoint already points at the old trojan, so taking it would make
    the new trojan jump to itself.
* **LatestSettingsBoot**: the settings of the last successful put are the
  ones the boot applies. For EEPROM these are the settings of the last
  trojan before the game; for SRAM, the SRAM section's.
* **RomGrowthBounded**: re-patching leaves at most one dead (zeroed)
  region. It is weaker than spec invariant 4, which allows one extra
  trojan section for puts that are all EEPROM; the bound of one dead block
  is what holds when EEPROM and SRAM puts alternate.
* **KindsExclusive**: no ROM carries both SRAM settings and an EEPROM
  trojan. This is spec 4.1 and scenario 5.
* **CachedTypeCurrent**: a patcher's cached type is the type `type` would
  compute from its ROM (spec section 9).
  * Both `put_settings` and `get_settings` write the cache.
  * `get_settings` under a cached type raises "Logic error!" only when the
    cache is wrong: a trojan of another cached kind raises inside the
    `try` at rom_patch.py:343 and is skipped, so that raise escapes only
    for an SRAM section (318) or when nothing is found (350).
  * On a fresh patcher `get_settings` caches the kind of the first
    matching section in table order, EEPROM when the entry trojan comes
    before an SRAM section, where `type` says SRAM.

### Bounds

* The patcher runs use:
  * one game section, or two;
  * a table of three sections;
  * two EEPROM and two SRAM images;
  * four puts.
* This is the smallest instance where a trojan is re-patched both at the
  tail and mid-file (after an SRAM section was appended), and where the
  section limit is hit.
* The stale-chain run adds a second trojan build with another load
  address.
* The cached-type run uses a full one-section table.

* The cabinet runs use one cabinet and two files, plus `NoFile`.
* `Chunks = 2`, so a transfer has an intermediate progress value.
* The budgets are three edits, two power cycles and one failure. That is
  enough for these cases:
  * an edit during a send;
  * an edit reverted after a send;
  * a power loss in each phase;
  * one retry.
* The convergence run allows no edits and no failures and one power
  cycle. That one cycle, between two polls, is enough to break
  `Convergence`.
* `ImplementsDelivery` is checked in cabinet_safety. That instance has one
  object per IP, the case the refinement holds for.
* The lock run uses the poll thread, two callers, one IP and two cabinet
  objects (23,559 states).
  * Two callers are needed for two updates to race each other.
  * The second object makes an update replace the fleet object by another
    one; passing the same object covers the self-wait case.
  * The callers are symmetric.
* The manager runs use one IP with two cabinet objects. The second object
  is the replacement or the re-added cabinet. The runs use one chunk and
  one of each budget.
  * This is the smallest instance where update_cabinet, remove followed by
    add, and a stale snapshot tick can all occur.
  * With three objects the state space takes over two minutes without
    adding a new kind of step.

### Fairness

`FairSpec` puts weak fairness on two groups of actions.

* `Tick` on each cabinet. The poll thread loops for ever with a 1 s sleep,
  and `tick()` takes only the cabinet's lock, which every holder releases.
* The Host thread actions: a started transfer proceeds, completes, or is
  lost when the cabinet goes off.

The operator, the power switch and network failures are not fair: they may
stop at any time.

`MgrFairSpec`, the specification of manager_safety, puts weak fairness on `PollSnapshot` and
on each `PollTick(c)`. `__poll_thread` is a daemon `while True` loop that
only sleeps between passes.

The lock model is checked for safety only. Python's `threading.Lock` is not
fair, so a thread waiting for a lock may starve. No fairness assumption
would be justified for it.

## Findings

1. **Stranded on the wrong game** (`NeverWrongGame`, cabinet.py:132).
   * `current_filename` is never set when a game is sent.
   * The failing sequence is:
     1. Select G while F is running.
     2. G is sent and the cabinet reboots into G.
     3. Set the filename back to F before the next WaitPowerOff tick.
   * The cabinet then runs G, while the state machine sees current = new = F
     and never sends F again.
2. **Double send** (`RunningNotResent`, cabinet.py:133).
   * Change the filename before the first send.
   * The new game is sent and booted, and then sent and booted again,
     because `current_filename` still holds the constructor's value.
3. **Two transfers to one cabinet** (`OneTransferPerCabinet`,
   cabinet.py:265).
   * A replaced object keeps its Host transfer running. The replacement, or
     a stale-snapshot tick of the old object, starts a second one.
   * The spec does not say what happens to a transfer in flight when its
     object is replaced.

4. **Lock hierarchy not as specified** (`OneLockInUpdate`,
   cabinet.py:265).
   * `update_cabinet` calls `_clone_state` inside `with self.__lock`. It
     therefore holds the manager lock while it takes the old cabinet's lock,
     which a `tick()` may hold across network I/O.
   * Spec section 5 forbids this. The order is always manager then cabinet,
     so `NoWaitCycle` still holds.

5. **Mixed settings kinds** (`KindsExclusive`, rom_patch.py:372).
   * The EEPROM/SRAM conflict is checked only against the cached type.
   * A fresh patcher therefore attaches SRAM to an EEPROM ROM, or the
     reverse.
6. **Stale cached type** (`CachedTypeCurrent`, rom_patch.py:369).
   * `put_settings` caches the type before the attach, which can raise
     because there is no trojan or the section table is full.
   * The patcher's `type` then reports settings the ROM does not have, a
     put of the other kind is refused, and a `get_settings` that finds
     nothing raises "Logic error!" (line 350).
8. **Power cycle missed between polls** (`Convergence`, cabinet.py:130).
   * WaitPowerOff leaves only when a poll sees `host.alive` false.
   * A cabinet switched off and on again between two polls (the loop
     sleeps 1 s, line 234) is seen alive with current = new. tick() stays
     in WaitPowerOff and the freshly booted cabinet is never sent its game.
   * The spec says an interrupted push is retried after the next power
     cycle (section 7); its state table assumes the power-off is seen.
7. **Stale settings at boot** (`LatestSettingsBoot`, rom_patch.py:182).
   * A trojan with a new load address chains to the header's entrypoint,
     which is the old trojan.
   * The old trojan then writes the old EEPROM after the new one.

## Proofs

* `CabinetProofs.tla` proves two theorems for every value of the constants,
  assuming only `CabinetAssumption`:
  * `TypeCorrect`: `Spec => []TypeOK`.
  * `TransportInvariant`: `Spec => []TransportInStep`.
* The inductive invariant is `TypeOK /\ TransportInStep`:
  * `TransportInStep` alone is not inductive, because the Tick and Host
    steps need the record shapes of `TypeOK`.
  * One lemma per action group (Tick, Host thread, environment) shows each
    step preserves it.
  * The Tick lemma has one case per phase and per branch.
* `CabinetManagerProofs.tla` proves `MgrTypeCorrect`
  (`MgrSpec => []MgrTypeOK`) and `MgrTransportInvariant`
  (`MgrSpec => []TransportInStep`).
  * It reuses the cabinet lemmas.
  * Its key lemma `ClonedNotSending` says `_clone_state` never yields
    SendGame.
  * Construction gives a fresh object an inactive Host in Startup.

* `CabinetProofs.tla` also proves `Refinement`: `Spec => Delivery!Spec`
  under the hypothesis `IpInjective` (no two objects share an IP).
  * `Init` maps to `Delivery!Init`.
  * Each step maps to a `StartDelivery`, an `EndDelivery`, a `Select`, a
    switch, or a stutter (`TickRefines`, `HostRefines`, `EnvRefines`).
  * The reboot after a completed transfer needs the invariant
    `CompletedLoaded`: in send_game with a completed transfer, the DIMM
    holds the file sent or nothing. `LoadedInvariant` proves it. It is
    where injectivity is used: a second object on the same IP could load
    another game.
* `CabinetLocksProofs.tla` proves three theorems, for any number of
  callers, objects and IPs:
  * `LockInvariant`: `Spec => []IInv`.
    * `IInv` is `TypeOK`, `ArgsSet` (the arguments a `pc` uses are set),
      and `LockInv`.
    * `LockInv` says the owner of a lock is exactly the thread whose `pc`
      holds it (`Held`): the lock of the `with` block it is in, plus `Mgr`
      throughout `update_cabinet`'s call of `_clone_state`.
  * `HierarchyHolds`: `Spec => []LockHierarchy`.
  * `DeadlockFree`: `Spec => []NoWaitCycle`.
    * By `WaiterHolds`, a waiting thread holds at most `Mgr`, and then
      waits for a cabinet lock.
    * In a cycle, the holder of a waiter's lock is itself a waiter. So it
      holds only `Mgr`, and its own wanted cabinet lock is held by a waiter
      that must also be holding `Mgr`. That is impossible.

* `SettingsPatcherProofs.tla` proves four theorems about the patcher,
  assuming only `PatcherAssumption`.
  * The section lookup `SectionAt` is `SelectInSeq`, the `Min` of a set of
    indices. `MinNat` shows that a non-empty set of naturals has a least
    element. It uses `WFMin` and `NatLessThanWellFounded` from
    `WellFoundedInduction`, which take no operator parameter.
  * `FirstSpec`, `FirstAppend` and `SectionAtIsFirst` then state what the
    lookup returns, and how appending a section changes it.
  * The recursive function `BootChain` is handled in two steps:
    * `BootChainEq` gets its defining equation, by showing that a chain of
      every length up to `MaxSections` exists.
    * Its values come from a least counterexample (`MinNat`), not from an
      induction theorem.
  * `PatcherTypeCorrect`: `Spec => []TypeOK`. The inductive invariant
    `TInv` adds two facts to `TypeOK`:
    * no two sections share a block;
    * a section holds a trojan exactly when it loads at a trojan address.
  * `ChainsToGame`: `Spec => []EntryChainsToGame`, for any set of trojan
    builds.
    * The inductive invariant `CInv` is `TInv` plus two facts: the header
      enters at the game or at a trojan that has a section, and every
      trojan jumps to the game or to a trojan whose first section comes
      earlier in the table.
    * So the chain's section index decreases strictly (`ChainDescends`)
      and reaches the game within `MaxSections` jumps.
    * The second fact is preserved because `add_or_update_trojan` keeps
      the old trojan's entrypoint. `attach_trojan` chains a new trojan,
      which gets the last section, to the current entrypoint.
  * `GrowthBounded` (`RomGrowthBounded`) and `LatestBoots`
    (`LatestSettingsBoot`) assume one trojan build (`TrojanLocs = {T}`),
    like the run.
    * With two builds both fail. `patcher_stalechain` shows it for
      `LatestSettingsBoot`, and TLC finds `RomGrowthBounded` violated with
      `TrojanLocs = {tA, tB}`. The hypothesis is therefore the property's
      real scope, not a convenience.
    * Their inductive invariant `SInv(T)` adds four facts to `TInv`:
      * the header enters at the game or at T's section;
      * every trojan jumps to the game;
      * a dead block exists only behind a tail trojan, and only once an
        SRAM section is present. A mid-file trojan has an SRAM section
        after it.
      * the last put's settings are in T's section or in an SRAM section.

The following are checked by TLC only:

* the liveness properties (`TransferEnds`, `EveryCabinetTicked`),
  because TLAPS does not handle fairness or ENABLED. Both rest on the
  fairness above: a Host transfer that never ends (cabinet.py:113 has no
  timeout) or a tick that hangs is assumed away, not caught;
* the fairness part of `ImplementsDelivery`;
* the violated properties, which are findings and not theorems.

## Not modelled

* The patcher's byte-level scans: `get_config`, `patch_bytesequence`, and
  the EEPROM window search with its off-by-one ranges (lines 79 and 336).
  They depend on the layout of the compiled trojan, which is not under
  `src/`.
* The parsed-header cache `__rom`, and the trojan size check.

* The YAML parsing and validation, and `to_yaml` (file I/O).
* Regions, descriptions and patches of a cabinet. They are data passed to
  the Host, and no property tells them apart.
* The Host's network protocol. It is represented by the abstract transfer
  above.
* In `Cabinet` and `CabinetManager`, the lock objects themselves. There,
  each manager operation and each tick is atomic. `CabinetLocks` shows
  that the lock order justifies this.

## Further work

* **Manager-level refinement.**
  * Relate `CabinetManager` to `CabinetDelivery` per IP.
  * `OneTransferPerCabinet` shows this fails as long as a replaced object
    keeps transferring.
* **Growth with two trojan builds.**
  * Alternating two trojan builds makes the ROM grow on every put:
    `RomGrowthBounded` fails with two load addresses.
  * Add this as a run once it is clear whether the code intends to support
    trojan builds at different addresses.
