--------------------------- MODULE SettingsPatcher ---------------------------
(***************************************************************************)
(* NaomiSettingsPatcher of src/naomi/rom_patch.py and the module         *)
(* functions it calls (add_or_update_section, add_or_update_trojan).      *)
(*                                                                         *)
(* A ROM is abstracted to its header entrypoint, its section table and    *)
(* the blocks of the file the sections point at.  A section is its load   *)
(* address and the index of its block: "offset + length = len(data)" is   *)
(* "the block is the last one".  A block is a game, a zeroed region, an   *)
(* SRAM image or a trojan, which carries its own load address, the        *)
(* entrypoint it chains to (0xAA) and its EEPROM (0xBB).  Settings are    *)
(* model values: the EEPROM images are valid and carry the game's serial, *)
(* the SRAM images are SRAM_SIZE long; the puts that raise before any     *)
(* assignment (bad EEPROM, wrong serial, unknown length) change nothing   *)
(* and are left out.                                                      *)
(*                                                                         *)
(* Patcher objects are used one at a time, on the ROM the previous one    *)
(* left: the state is the ROM and the current object's trojan and cached  *)
(* type.                                                                  *)
(***************************************************************************)
EXTENDS Naturals, Sequences, SequencesExt

CONSTANTS
    GameLoc,      \* the game's own entrypoint and load address
    SramLoc,      \* SRAM_LOCATION
    TrojanLocs,   \* load addresses the trojan builds declare in their config
    NoTrojan,     \* trojan=None
    Eeproms,      \* 128-byte settings images
    Srams,        \* SRAM_SIZE settings images
    None,         \* Python None
    MaxSections,  \* 8 in the code
    InitGames,    \* possible numbers of game sections of an unpatched ROM
    MaxPuts       \* bound on put_settings calls

Addrs == {GameLoc, SramLoc} \cup TrojanLocs
Types == {"none", "eeprom", "sram"}

ASSUME PatcherAssumption ==
    /\ GameLoc \notin TrojanLocs /\ SramLoc \notin TrojanLocs /\ GameLoc # SramLoc
    /\ NoTrojan \notin Addrs /\ None \notin Eeproms \cup Srams
    /\ Eeproms \cap Srams = {}   \* EEPROM_SIZE # SRAM_SIZE
    /\ MaxSections \in Nat /\ MaxPuts \in Nat
    /\ InitGames \subseteq 1..MaxSections

VARIABLES
    entry,    \* header.main_executable.entrypoint
    secs,     \* header.main_executable.sections: <<[load, off]>>
    blocks,   \* the file's section data, indexed by off
    trojan,   \* self.__trojan of the current patcher: its load address
    ptype,    \* self.__type: "unset" for None
    lastPut,  \* the settings of the last put_settings that returned
    puts

romVars == <<entry, secs, blocks>>
vars == <<entry, secs, blocks, trojan, ptype, lastPut, puts>>

Block == [kind : {"game", "zero"}] \cup [kind : {"sram"}, val : Srams]
           \cup [kind : {"trojan"}, loc : TrojanLocs, entry : Addrs, val : Eeproms]

TypeOK ==
    /\ entry \in Addrs
    /\ secs \in Seq([load : Addrs, off : Nat])
    /\ blocks \in Seq(Block)
    /\ \A i \in 1..Len(secs) : secs[i].off \in 1..Len(blocks)
    /\ Len(secs) <= MaxSections
    /\ trojan \in TrojanLocs \cup {NoTrojan}
    /\ ptype \in Types \cup {"unset"}
    /\ lastPut \in Eeproms \cup Srams \cup {None}
    /\ puts \in 0..MaxPuts

(* An unpatched ROM: game sections only, entered at the game. *)
Init ==
    /\ \E n \in InitGames :
          /\ secs = [i \in 1..n |-> [load |-> GameLoc, off |-> i]]
          /\ blocks = [i \in 1..n |-> [kind |-> "game"]]
    /\ entry = GameLoc
    /\ trojan \in TrojanLocs \cup {NoTrojan}
    /\ ptype = "unset"
    /\ lastPut = None
    /\ puts = 0

-----------------------------------------------------------------------------
(* Reading a ROM.                                                         *)

BlockOf(i) == blocks[secs[i].off]

(* The first section at load address a, 0 if none. *)
SectionAt(a) == SelectInSeq(secs, LAMBDA s : s.load = a)

IsSram(i) == secs[i].load = SramLoc /\ BlockOf(i).kind = "sram"

(* Section i holds the entrypoint and get_config finds a trojan config in *)
(* it (a game section is over MAX_TROJAN_SIZE or has no config).          *)
IsEntryTrojan(i) == secs[i].load = entry /\ BlockOf(i).kind = "trojan"

(* NaomiSettingsPatcher.type when no type is cached. *)
DetectType ==
    IF \E i \in 1..Len(secs) : IsSram(i) THEN "sram"
    ELSE IF \E i \in 1..Len(secs) : IsEntryTrojan(i) THEN "eeprom"
    ELSE "none"

(* get_settings: the first section that is SRAM or the entry trojan. *)
FoundAt == SelectInSeq([i \in 1..Len(secs) |-> i],
                       LAMBDA i : IsSram(i) \/ IsEntryTrojan(i))

ReadKind == IF FoundAt = 0 THEN "none"
            ELSE IF IsSram(FoundAt) THEN "sram" ELSE "eeprom"

ReadSettings == IF FoundAt = 0 THEN None ELSE BlockOf(FoundAt).val

-----------------------------------------------------------------------------
(* Writing a ROM.                                                         *)

(* add_or_update_section(data, SRAM_LOCATION, s): overwrite the section   *)
(* in place, or append a section and its data at the end of the file.     *)
AddOrUpdateSection(s) ==
    LET i == SectionAt(SramLoc) IN
    IF i # 0
    THEN /\ blocks' = [blocks EXCEPT ![secs[i].off] = [kind |-> "sram", val |-> s]]
         /\ UNCHANGED <<entry, secs>>
    ELSE /\ secs' = Append(secs, [load |-> SramLoc, off |-> Len(blocks) + 1])
         /\ blocks' = Append(blocks, [kind |-> "sram", val |-> s])
         /\ UNCHANGED entry

(* The trojan patched with its chained entrypoint and EEPROM. *)
Exe(loc, e, val) == [kind |-> "trojan", loc |-> loc, entry |-> e, val |-> val]

(* Mutant of AddOrUpdateTrojan: a trojan at the same address chains to    *)
(* the header entrypoint instead of the old trojan's.                     *)
AddOrUpdateTrojanHeaderEntry(loc, s) ==
    LET i == SectionAt(loc) IN
    /\ i # 0
    /\ blocks' = [blocks EXCEPT ![secs[i].off] = Exe(loc, entry, s)]
    /\ entry' = loc
    /\ UNCHANGED secs

(* Mutant of AddOrUpdateTrojan: the old trojan is always taken to be mid- *)
(* file and moved to the end.                                             *)
AddOrUpdateTrojanNoTail(loc, s) ==
    LET i == SectionAt(loc) IN
    /\ i # 0
    /\ blocks' = Append([blocks EXCEPT ![secs[i].off] = [kind |-> "zero"]],
                        Exe(loc, BlockOf(i).entry, s))
    /\ secs' = [secs EXCEPT ![i].off = Len(blocks) + 1]
    /\ entry' = loc

(* Mutant of AddOrUpdateTrojan: the tail case cuts the file after the old *)
(* trojan instead of at its offset, so the section keeps the old one.     *)
AddOrUpdateTrojanKeepOld(loc, s) ==
    LET i == SectionAt(loc) IN
    /\ i # 0
    /\ IF secs[i].off = Len(blocks)
       THEN /\ blocks' = Append(blocks, Exe(loc, BlockOf(i).entry, s))
            /\ UNCHANGED secs
       ELSE /\ blocks' = Append([blocks EXCEPT ![secs[i].off] = [kind |-> "zero"]],
                                Exe(loc, BlockOf(i).entry, s))
            /\ secs' = [secs EXCEPT ![i].off = Len(blocks) + 1]
    /\ entry' = loc

(* add_or_update_trojan with an existing section at the trojan's load     *)
(* address: chain to the entrypoint in the old trojan's config, then      *)
(* replace it at the end of the file, or zero it and append the new one.  *)
AddOrUpdateTrojan(loc, s) ==
    LET i == SectionAt(loc)
        exe == Exe(loc, BlockOf(i).entry, s) IN
    /\ i # 0
    /\ IF secs[i].off = Len(blocks)
       THEN /\ blocks' = [blocks EXCEPT ![secs[i].off] = exe]
            /\ UNCHANGED secs
       ELSE /\ blocks' = Append([blocks EXCEPT ![secs[i].off] = [kind |-> "zero"]], exe)
            /\ secs' = [secs EXCEPT ![i].off = Len(blocks) + 1]
    /\ entry' = loc

(* Mutant of AttachTrojan: the section limit tested with > instead of >=. *)
AttachTrojanOverfull(loc, s) ==
    /\ SectionAt(loc) = 0
    /\ Len(secs) <= MaxSections
    /\ secs' = Append(secs, [load |-> loc, off |-> Len(blocks) + 1])
    /\ blocks' = Append(blocks, Exe(loc, entry, s))
    /\ entry' = loc

(* add_or_update_trojan without one: a new section chaining to the        *)
(* header's entrypoint, if the table has room.                            *)
AttachTrojan(loc, s) ==
    /\ SectionAt(loc) = 0
    /\ Len(secs) < MaxSections
    /\ secs' = Append(secs, [load |-> loc, off |-> Len(blocks) + 1])
    /\ blocks' = Append(blocks, Exe(loc, entry, s))
    /\ entry' = loc

(* The add_or_update_* call raises: ROM unchanged. *)
SectionsFull(loc) == SectionAt(loc) = 0 /\ Len(secs) >= MaxSections

-----------------------------------------------------------------------------
(* Patcher operations.                                                    *)

(* NaomiSettingsPatcher(rom, trojan): a new object on the current ROM. *)
NewPatcher(t) ==
    /\ trojan' = t
    /\ ptype' = "unset"
    /\ UNCHANGED <<romVars, lastPut, puts>>

(* The type property: compute and cache the type. *)
GetType ==
    /\ ptype = "unset"
    /\ ptype' = DetectType
    /\ UNCHANGED <<romVars, trojan, lastPut, puts>>

(* get_settings: cache the kind of what it found.  With a type cached it *)
(* only returns or raises "Logic error!".                                 *)
GetSettings ==
    /\ ptype = "unset"
    /\ ptype' = ReadKind
    /\ UNCHANGED <<romVars, trojan, lastPut, puts>>

(* put_settings of an EEPROM image: refused when SRAM is cached; the type *)
(* is cached as EEPROM before the trojan is attached, which may raise.    *)
PutEeprom(s) ==
    /\ puts < MaxPuts
    /\ ptype # "sram"
    /\ ptype' = "eeprom"
    /\ puts' = puts + 1
    /\ UNCHANGED trojan
    /\ \/ /\ trojan = NoTrojan \/ SectionsFull(trojan)
          /\ UNCHANGED <<romVars, lastPut>>
       \/ /\ trojan # NoTrojan
          /\ AddOrUpdateTrojan(trojan, s) \/ AttachTrojan(trojan, s)
          /\ lastPut' = s

(* put_settings of an SRAM image: refused when EEPROM is cached; the type *)
(* is cached as SRAM before the section is attached, which may raise.     *)
PutSram(s) ==
    /\ puts < MaxPuts
    /\ ptype # "eeprom"
    /\ ptype' = "sram"
    /\ puts' = puts + 1
    /\ UNCHANGED trojan
    /\ \/ /\ SectionsFull(SramLoc)
          /\ UNCHANGED <<romVars, lastPut>>
       \/ /\ ~SectionsFull(SramLoc)
          /\ AddOrUpdateSection(s)
          /\ lastPut' = s

Next ==
    \/ \E t \in TrojanLocs \cup {NoTrojan} : NewPatcher(t)
    \/ GetType
    \/ GetSettings
    \/ \E s \in Eeproms : PutEeprom(s)
    \/ \E s \in Srams : PutSram(s)

Spec == Init /\ [][Next]_vars

-----------------------------------------------------------------------------
(* Properties.                                                            *)

(* Where the console goes from address a at boot: a trojan jumps to the   *)
(* entrypoint in its config, anything else is where execution stays.      *)
BootStep(a) ==
    LET i == SectionAt(a) IN
    IF i # 0 /\ BlockOf(i).kind = "trojan" THEN BlockOf(i).entry ELSE a

BootChain[n \in 0..MaxSections] == IF n = 0 THEN entry ELSE BootStep(BootChain[n - 1])

(* The trojan the boot runs last, just before the game, if any. *)
LastTrojans ==
    {i \in 1..Len(secs) : /\ secs[i].load \in {BootChain[n] : n \in 0..MaxSections}
                          /\ BlockOf(i).kind = "trojan"
                          /\ BlockOf(i).entry = GameLoc}

(* Booting a patched ROM reaches the game: the header enters at the game  *)
(* or at a trojan whose chain of saved entrypoints (add_or_update_trojan  *)
(* reads the old trojan's config for it) ends at the game, with no loop.  *)
EntryChainsToGame == BootChain[MaxSections] = GameLoc

(* The settings the last successful put_settings attached are the ones    *)
(* the console applies at boot: for EEPROM the last trojan before the     *)
(* game carries them, for SRAM the SRAM section holds them.               *)
LatestSettingsBoot ==
    /\ lastPut \in Eeproms =>
          \E i \in LastTrojans : SectionAt(secs[i].load) = i /\ BlockOf(i).val = lastPut
    /\ lastPut \in Srams =>
          \E i \in 1..Len(secs) : IsSram(i) /\ BlockOf(i).val = lastPut

(* Re-patching never leaves more than one dead region in the file:        *)
(* add_or_update_trojan reuses the tail trojan in place and moves a       *)
(* mid-file one only once.                                                *)
RomGrowthBounded == Len(blocks) <= Len(secs) + 1

(* A ROM carries EEPROM or SRAM settings, never both (put_settings'       *)
(* "Cannot attach both an EEPROM and an SRAM settings file!").            *)
KindsExclusive ==
    ~(/\ \E i \in 1..Len(secs) : IsSram(i)
      /\ \E i \in 1..Len(secs) : IsEntryTrojan(i))

(* The cached type of a patcher is the type its ROM has: put_settings    *)
(* (lines 369, 376) and get_settings (lines 317, 338) write the cache and *)
(* the type property then returns it, while spec section 9 says the kind  *)
(* is always the one computed from the ROM contents.  (With it, a         *)
(* get_settings under a cached type never raises "Logic error!".)         *)
CachedTypeCurrent == ptype \in {"unset", DetectType}

=============================================================================
