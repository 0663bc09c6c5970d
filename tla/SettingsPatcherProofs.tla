------------------------ MODULE SettingsPatcherProofs ------------------------
(***************************************************************************)
(* Proofs about SettingsPatcher.tla.  The section lookups of rom_patch.py  *)
(* take the first matching section (SelectInSeq, a Min); the lemmas below *)
(* give what Min returns from the well-foundedness of < on Nat.           *)
(***************************************************************************)
EXTENDS SettingsPatcher, WellFoundedInduction, TLAPS

(* A non-empty set of naturals has a least element, and Min returns it.  *)
LEMMA MinNat ==
    ASSUME NEW T \in SUBSET Nat, T # {}
    PROVE  Min(T) \in T /\ \A y \in T : Min(T) <= y
<1> DEFINE LT == OpToRel(<, Nat)
<1>1. IsWellFoundedOn(LT, Nat)
  BY NatLessThanWellFounded
<1>2. \E x \in T : \A y \in T : ~(<<y, x>> \in LT)
  BY <1>1, WFMin, Zenon
<1>3. ASSUME NEW x \in T, NEW y \in T, ~(<<y, x>> \in LT) PROVE x <= y
  <2>1. ~(y < x)
    BY <1>3 DEF OpToRel
  <2>2. QED
    BY <2>1
<1>4. \E x \in T : \A y \in T : x <= y
  BY <1>2, <1>3
<1>5. QED
  BY <1>4 DEF Min

-----------------------------------------------------------------------------
(* SelectInSeq on a section table: the first section at load address a.   *)

Sec == [load : Addrs, off : Nat]

First(s, a) == SelectInSeq(s, LAMBDA x : x.load = a)

LEMMA SectionAtIsFirst ==
    ASSUME NEW a
    PROVE  SectionAt(a) = First(secs, a) /\ SectionAt(a)' = First(secs', a)
BY DEF SectionAt, First, SelectInSeq

(* First(s, a) is 0 when no section is at a, else the least index of one. *)
LEMMA FirstSpec ==
    ASSUME NEW s \in Seq(Sec), NEW a
    PROVE  /\ First(s, a) \in 0..Len(s)
           /\ First(s, a) = 0 <=> \A i \in 1..Len(s) : s[i].load # a
           /\ First(s, a) # 0 => /\ s[First(s, a)].load = a
                                 /\ \A j \in 1..First(s, a) - 1 : s[j].load # a
<1> DEFINE I == {i \in 1..Len(s) : s[i].load = a}
<1>1. First(s, a) = IF I # {} THEN Min(I) ELSE 0
  BY DEF First, SelectInSeq
<1>2. CASE I = {}
  BY <1>1, <1>2
<1>3. CASE I # {}
  <2>1. Min(I) \in I /\ \A y \in I : Min(I) <= y
    BY <1>3, MinNat
  <2> DEFINE m == Min(I)
  <2>2. m \in 1..Len(s) /\ s[m].load = a
    BY <2>1
  <2>3. \A j \in 1..m - 1 : s[j].load # a
    BY <2>1
  <2>4. First(s, a) = m
    BY <1>1, <1>3
  <2>5. QED
    BY <2>2, <2>3, <2>4
<1>4. QED
  BY <1>2, <1>3

(* Hence the first section at a is the one at a with none at a before it. *)
LEMMA FirstUnique ==
    ASSUME NEW s \in Seq(Sec), NEW a, NEW k \in 1..Len(s), s[k].load = a,
           \A j \in 1..k - 1 : s[j].load # a
    PROVE  First(s, a) = k
BY FirstSpec

(* First reads only the load addresses. *)
LEMMA FirstSameLoads ==
    ASSUME NEW s \in Seq(Sec), NEW t \in Seq(Sec), Len(s) = Len(t),
           \A i \in 1..Len(s) : s[i].load = t[i].load, NEW a
    PROVE  First(s, a) = First(t, a)
<1>1. {i \in 1..Len(s) : s[i].load = a} = {i \in 1..Len(t) : t[i].load = a}
  OBVIOUS
<1>2. QED
  BY <1>1 DEF First, SelectInSeq

(* Appending a section finds it only where no earlier one was found. *)
LEMMA FirstAppend ==
    ASSUME NEW s \in Seq(Sec), NEW r \in Sec, NEW a
    PROVE  First(Append(s, r), a) =
             IF First(s, a) # 0 THEN First(s, a)
             ELSE IF r.load = a THEN Len(s) + 1 ELSE 0
<1> DEFINE t == Append(s, r)
<1>1. t \in Seq(Sec) /\ Len(t) = Len(s) + 1 /\ \A i \in 1..Len(s) : t[i] = s[i]
      /\ t[Len(s) + 1] = r
  OBVIOUS
<1>2. CASE First(s, a) # 0
  <2> DEFINE k == First(s, a)
  <2>1. k \in 1..Len(s) /\ s[k].load = a /\ \A j \in 1..k - 1 : s[j].load # a
    BY <1>2, FirstSpec
  <2>2. k \in 1..Len(t) /\ t[k].load = a /\ \A j \in 1..k - 1 : t[j].load # a
    BY <1>1, <2>1
  <2>3. First(t, a) = k
    BY <1>1, <2>2, FirstUnique
  <2>4. QED
    BY <1>2, <2>3
<1>3. CASE First(s, a) = 0 /\ r.load = a
  <2>1. \A j \in 1..Len(s) : s[j].load # a
    BY <1>3, FirstSpec
  <2>2. Len(s) + 1 \in 1..Len(t) /\ t[Len(s) + 1].load = a
        /\ \A j \in 1..(Len(s) + 1) - 1 : t[j].load # a
    BY <1>1, <1>3, <2>1
  <2>3. First(t, a) = Len(s) + 1
    BY <1>1, <2>2, FirstUnique
  <2>4. QED
    BY <1>3, <2>3
<1>4. CASE First(s, a) = 0 /\ r.load # a
  <2>1. \A j \in 1..Len(s) : s[j].load # a
    BY <1>4, FirstSpec
  <2>2. \A j \in 1..Len(t) : t[j].load # a
    BY <1>1, <1>4, <2>1
  <2>3. First(t, a) = 0
    BY <1>1, <2>2, FirstSpec
  <2>4. QED
    BY <1>4, <2>3
<1>5. QED
  BY <1>2, <1>3, <1>4

-----------------------------------------------------------------------------
(* The inductive invariants.                                              *)

(* Each block of the file belongs to at most one section. *)
OffsDistinct ==
    \A i, j \in 1..Len(secs) : i # j => secs[i].off # secs[j].off

(* A section holds a trojan exactly when it is at a trojan load address. *)
TrojanSecs ==
    \A i \in 1..Len(secs) : secs[i].load \in TrojanLocs <=> BlockOf(i).kind = "trojan"

(* The ROM is well formed: TypeOK's conjuncts on the ROM, strengthened.   *)
RomInv ==
    /\ entry \in Addrs
    /\ secs \in Seq(Sec)
    /\ blocks \in Seq(Block)
    /\ \A i \in 1..Len(secs) : secs[i].off \in 1..Len(blocks)
    /\ Len(secs) <= MaxSections
    /\ OffsDistinct
    /\ TrojanSecs

TInv ==
    /\ RomInv
    /\ trojan \in TrojanLocs \cup {NoTrojan}
    /\ ptype \in Types \cup {"unset"}
    /\ lastPut \in Eeproms \cup Srams \cup {None}
    /\ puts \in 0..MaxPuts

(* With the one trojan build T: the header enters at the game, or at a    *)
(* section at T; every trojan jumps to the game.                          *)
EntryInv(T) == entry = GameLoc \/ (entry = T /\ SectionAt(T) # 0)

ChainInv ==
    \A i \in 1..Len(secs) : BlockOf(i).kind = "trojan" => BlockOf(i).entry = GameLoc

(* A dead block exists only behind the tail trojan, and then also an SRAM *)
(* section: no later call appends to the file.  A mid-file trojan has an  *)
(* SRAM section after it.                                                 *)
GrowthInv(T) ==
    /\ Len(blocks) <= Len(secs) + 1
    /\ Len(blocks) = Len(secs) + 1 =>
          /\ SectionAt(T) # 0 /\ secs[SectionAt(T)].off = Len(blocks)
          /\ SectionAt(SramLoc) # 0
    /\ SectionAt(T) # 0 /\ secs[SectionAt(T)].off # Len(blocks) => SectionAt(SramLoc) # 0

(* Where the last settings put are. *)
PutInv(T) ==
    /\ lastPut \in Eeproms =>
          /\ entry = T /\ SectionAt(T) # 0
          /\ BlockOf(SectionAt(T)).val = lastPut
    /\ lastPut \in Srams =>
          \E i \in 1..Len(secs) : IsSram(i) /\ BlockOf(i).val = lastPut

SInv(T) == TInv /\ EntryInv(T) /\ ChainInv /\ GrowthInv(T) /\ PutInv(T)

(* Any trojan builds: the header enters at the game or at a trojan        *)
(* address with a section, and a trojan jumps to the game or to a trojan  *)
(* whose section comes earlier in the table.                              *)
GEntryInv == entry = GameLoc \/ (entry \in TrojanLocs /\ SectionAt(entry) # 0)

GChainInv ==
    \A i \in 1..Len(secs) :
        BlockOf(i).kind = "trojan" =>
            \/ BlockOf(i).entry = GameLoc
            \/ BlockOf(i).entry \in TrojanLocs /\ SectionAt(BlockOf(i).entry) \in 1..i - 1

CInv == TInv /\ GEntryInv /\ GChainInv

-----------------------------------------------------------------------------
(* The ROM writes keep the ROM well formed.                               *)

(* add_or_update_section, in place or appended. *)
LEMMA SectionWriteOK ==
    ASSUME RomInv, NEW s \in Srams, ~SectionsFull(SramLoc), AddOrUpdateSection(s)
    PROVE  RomInv'
<1>1. PICK i \in 0..Len(secs) : i = SectionAt(SramLoc)
  BY SectionAtIsFirst, FirstSpec DEF RomInv
<1>2. i # 0 => secs[i].load = SramLoc
  BY <1>1, SectionAtIsFirst, FirstSpec DEF RomInv
<1>3. SramLoc \notin TrojanLocs
  BY PatcherAssumption
<1>4. CASE i # 0
  <2>1. /\ blocks' = [blocks EXCEPT ![secs[i].off] = [kind |-> "sram", val |-> s]]
        /\ UNCHANGED <<entry, secs>>
    BY <1>1, <1>4 DEF AddOrUpdateSection
  <2>2. \A j \in 1..Len(secs) : j # i => BlockOf(j)' = BlockOf(j)
    BY <1>2, <1>4, <2>1 DEF RomInv, OffsDistinct, BlockOf
  <2>3. BlockOf(i)' = [kind |-> "sram", val |-> s]
    BY <1>2, <1>4, <2>1 DEF RomInv, BlockOf
  <2>4. TrojanSecs'
    BY <1>2, <1>3, <1>4, <2>1, <2>2, <2>3 DEF RomInv, TrojanSecs
  <2>5. QED
    BY <1>2, <1>4, <2>1, <2>4 DEF RomInv, OffsDistinct, Block
<1>5. CASE i = 0
  <2>1. /\ secs' = Append(secs, [load |-> SramLoc, off |-> Len(blocks) + 1])
        /\ blocks' = Append(blocks, [kind |-> "sram", val |-> s])
        /\ UNCHANGED entry
    BY <1>1, <1>5 DEF AddOrUpdateSection
  <2>2. Len(secs) < MaxSections
    BY <1>1, <1>5, PatcherAssumption DEF SectionsFull, RomInv
  <2>3. \A j \in 1..Len(secs) : BlockOf(j)' = BlockOf(j)
    BY <2>1 DEF RomInv, BlockOf
  <2>4. TrojanSecs'
    BY <1>3, <2>1, <2>3 DEF RomInv, TrojanSecs, BlockOf
  <2>5. QED
    BY <2>1, <2>2, <2>4, PatcherAssumption DEF RomInv, OffsDistinct, Block, Sec, Addrs
<1>6. QED
  BY <1>4, <1>5

(* The section at a trojan address holds a trojan, whose chained          *)
(* entrypoint is an address.                                              *)
LEMMA TrojanAt ==
    ASSUME RomInv, NEW loc \in TrojanLocs, SectionAt(loc) # 0
    PROVE  /\ SectionAt(loc) \in 1..Len(secs)
           /\ secs[SectionAt(loc)].load = loc
           /\ BlockOf(SectionAt(loc)) \in Block
           /\ BlockOf(SectionAt(loc)).kind = "trojan"
           /\ BlockOf(SectionAt(loc)).entry \in Addrs
<1>1. SectionAt(loc) \in 1..Len(secs) /\ secs[SectionAt(loc)].load = loc
  BY SectionAtIsFirst, FirstSpec DEF RomInv
<1>2. BlockOf(SectionAt(loc)) \in Block
  BY <1>1 DEF RomInv, BlockOf
<1>3. BlockOf(SectionAt(loc)).kind = "trojan"
  BY <1>1 DEF RomInv, TrojanSecs
<1>4. QED
  BY <1>1, <1>2, <1>3 DEF Block

(* add_or_update_trojan over an old trojan, at the tail or mid-file. *)
LEMMA TrojanWriteOK ==
    ASSUME RomInv, NEW loc \in TrojanLocs, NEW s \in Eeproms, AddOrUpdateTrojan(loc, s)
    PROVE  RomInv'
<1>1. PICK i \in 1..Len(secs) : i = SectionAt(loc)
  BY TrojanAt DEF AddOrUpdateTrojan
<1>2. /\ secs[i].load = loc /\ BlockOf(i).entry \in Addrs
      /\ secs[i].off \in 1..Len(blocks)
  BY <1>1, TrojanAt DEF AddOrUpdateTrojan, RomInv
<1> DEFINE exe == Exe(loc, BlockOf(i).entry, s)
<1>3. exe \in Block /\ exe.kind = "trojan"
  BY <1>2 DEF Exe, Block
<1>4. entry' = loc
  BY DEF AddOrUpdateTrojan
<1>5. CASE secs[i].off = Len(blocks)
  <2>1. blocks' = [blocks EXCEPT ![secs[i].off] = exe] /\ secs' = secs
    BY <1>1, <1>5 DEF AddOrUpdateTrojan
  <2>2. \A j \in 1..Len(secs) : j # i => BlockOf(j)' = BlockOf(j)
    BY <2>1 DEF RomInv, OffsDistinct, BlockOf
  <2>3. BlockOf(i)' = exe
    BY <1>2, <2>1 DEF BlockOf
  <2>4. TrojanSecs'
    BY <1>2, <1>3, <2>1, <2>2, <2>3 DEF RomInv, TrojanSecs
  <2>5. QED
    BY <1>3, <1>4, <2>1, <2>4 DEF RomInv, OffsDistinct, Addrs
<1>6. CASE secs[i].off # Len(blocks)
  <2> DEFINE zeroed == [blocks EXCEPT ![secs[i].off] = [kind |-> "zero"]]
  <2>1. /\ blocks' = Append(zeroed, exe)
        /\ secs' = [secs EXCEPT ![i].off = Len(blocks) + 1]
    BY <1>1, <1>6 DEF AddOrUpdateTrojan
  <2> DEFINE moved == [load |-> loc, off |-> Len(blocks) + 1]
  <2>a. secs[i] \in Sec
    BY DEF RomInv
  <2>b. [secs[i] EXCEPT !.off = Len(blocks) + 1] = moved
    BY <1>2, <2>a DEF Sec
  <2>c. secs' = [secs EXCEPT ![i] = moved]
    BY <2>1, <2>b
  <2>2. /\ zeroed \in Seq(Block) /\ Len(zeroed) = Len(blocks)
        /\ blocks' \in Seq(Block) /\ Len(blocks') = Len(blocks) + 1
        /\ secs' \in Seq(Sec) /\ Len(secs') = Len(secs)
        /\ \A j \in 1..Len(secs) : secs'[j].load = secs[j].load
        /\ secs'[i] = moved /\ \A j \in 1..Len(secs) : j # i => secs'[j] = secs[j]
    BY <1>2, <1>3, <2>1, <2>c DEF RomInv, Block, Sec, Addrs
  <2>d. \A k \in 1..Len(blocks) : k # secs[i].off => blocks'[k] = blocks[k]
    BY <1>2, <2>1 DEF RomInv
  <2>3. \A j \in 1..Len(secs) : j # i => BlockOf(j)' = BlockOf(j)
    <3> SUFFICES ASSUME NEW j \in 1..Len(secs), j # i
                 PROVE  blocks'[secs'[j].off] = blocks[secs[j].off]
      BY DEF BlockOf
    <3>1. secs'[j] = secs[j] /\ secs[j].off \in 1..Len(blocks)
          /\ secs[j].off # secs[i].off
      BY <2>2 DEF RomInv, OffsDistinct
    <3>2. QED
      BY <3>1, <2>d
  <2>4. BlockOf(i)' = exe
    BY <2>1, <2>2 DEF BlockOf, RomInv
  <2>5. TrojanSecs'
    BY <1>2, <1>3, <2>2, <2>3, <2>4 DEF RomInv, TrojanSecs
  <2>6. OffsDistinct'
    <3> SUFFICES ASSUME NEW j \in 1..Len(secs), NEW k \in 1..Len(secs), j # k
                 PROVE  secs'[j].off # secs'[k].off
      BY <2>2 DEF OffsDistinct
    <3>1. CASE j = i
      BY <3>1, <2>2 DEF RomInv
    <3>2. CASE k = i
      BY <3>2, <2>2 DEF RomInv
    <3>3. CASE j # i /\ k # i
      BY <3>3, <2>2 DEF RomInv, OffsDistinct
    <3>4. QED
      BY <3>1, <3>2, <3>3
  <2>7. \A j \in 1..Len(secs') : secs'[j].off \in 1..Len(blocks')
    BY <2>2 DEF RomInv
  <2>8. QED
    BY <1>4, <2>2, <2>5, <2>6, <2>7 DEF RomInv, Addrs
<1>7. QED
  BY <1>5, <1>6

(* add_or_update_trojan appending a new trojan section. *)
LEMMA AttachOK ==
    ASSUME RomInv, NEW loc \in TrojanLocs, NEW s \in Eeproms, AttachTrojan(loc, s)
    PROVE  RomInv'
<1>1. /\ secs' = Append(secs, [load |-> loc, off |-> Len(blocks) + 1])
      /\ blocks' = Append(blocks, Exe(loc, entry, s))
      /\ entry' = loc
      /\ Len(secs) < MaxSections
  BY DEF AttachTrojan
<1>2. Exe(loc, entry, s) \in Block /\ [load |-> loc, off |-> Len(blocks) + 1] \in Sec
  BY DEF RomInv, Exe, Block, Sec, Addrs
<1>3. \A j \in 1..Len(secs) : BlockOf(j)' = BlockOf(j)
  BY <1>1 DEF RomInv, BlockOf
<1>4. TrojanSecs'
  BY <1>1, <1>2, <1>3 DEF RomInv, TrojanSecs, BlockOf, Exe
<1>5. QED
  BY <1>1, <1>2, <1>4, PatcherAssumption DEF RomInv, OffsDistinct, Addrs

(* The first section at any address stays where it is while the table   *)
(* does.                                                                  *)
LEMMA SectionAtSame ==
    ASSUME secs' = secs
    PROVE  \A a : SectionAt(a)' = SectionAt(a)
BY SectionAtIsFirst

LEMMA RomUnchanged ==
    ASSUME RomInv, UNCHANGED romVars
    PROVE  RomInv'
BY DEF RomInv, OffsDistinct, TrojanSecs, BlockOf, romVars

-----------------------------------------------------------------------------
(* Type correctness, for any trojan builds and settings.                  *)

LEMMA InitTInv == Init => TInv
<1> SUFFICES ASSUME Init PROVE TInv
  OBVIOUS
<1>1. PICK n \in InitGames :
        /\ secs = [i \in 1..n |-> [load |-> GameLoc, off |-> i]]
        /\ blocks = [i \in 1..n |-> [kind |-> "game"]]
  BY DEF Init
<1>2. n \in 1..MaxSections /\ GameLoc \in Addrs /\ GameLoc \notin TrojanLocs
  BY PatcherAssumption DEF Addrs
<1>3. RomInv
  BY <1>1, <1>2 DEF Init, RomInv, Sec, Block, OffsDistinct, TrojanSecs, BlockOf
<1>4. QED
  BY <1>3, PatcherAssumption DEF Init, TInv, Types

(* put_settings: whichever call raises or writes, the ROM stays well     *)
(* formed.                                                                *)
LEMMA PutRomOK ==
    ASSUME TInv, \/ \E s \in Eeproms : PutEeprom(s)
                 \/ \E s \in Srams : PutSram(s)
    PROVE  RomInv'
<1>1. ASSUME NEW s \in Eeproms, PutEeprom(s) PROVE RomInv'
  <2>1. CASE UNCHANGED romVars
    BY <2>1, RomUnchanged DEF TInv
  <2>2. CASE trojan # NoTrojan /\ (AddOrUpdateTrojan(trojan, s) \/ AttachTrojan(trojan, s))
    <3>1. trojan \in TrojanLocs
      BY <2>2 DEF TInv
    <3>2. QED
      BY <2>2, <3>1, TrojanWriteOK, AttachOK DEF TInv
  <2>3. QED
    BY <1>1, <2>1, <2>2 DEF PutEeprom
<1>2. ASSUME NEW s \in Srams, PutSram(s) PROVE RomInv'
  <2>1. CASE UNCHANGED romVars
    BY <2>1, RomUnchanged DEF TInv
  <2>2. CASE ~SectionsFull(SramLoc) /\ AddOrUpdateSection(s)
    BY <2>2, SectionWriteOK DEF TInv
  <2>3. QED
    BY <1>2, <2>1, <2>2 DEF PutSram
<1>3. QED
  BY <1>1, <1>2

LEMMA TInvStep ==
    ASSUME TInv, [Next]_vars
    PROVE  TInv'
<1>1. RomInv'
  <2>1. CASE \/ \E s \in Eeproms : PutEeprom(s)
             \/ \E s \in Srams : PutSram(s)
    BY <2>1, PutRomOK
  <2>2. CASE ~(\/ \E s \in Eeproms : PutEeprom(s)
               \/ \E s \in Srams : PutSram(s))
    <3>1. UNCHANGED romVars
      BY <2>2 DEF Next, NewPatcher, GetType, GetSettings, vars, romVars
    <3>2. QED
      BY <3>1, RomUnchanged DEF TInv
  <2>3. QED
    BY <2>1, <2>2
<1>2. /\ trojan' \in TrojanLocs \cup {NoTrojan}
      /\ ptype' \in Types \cup {"unset"}
      /\ lastPut' \in Eeproms \cup Srams \cup {None}
      /\ puts' \in 0..MaxPuts
  BY PatcherAssumption DEF TInv, Next, NewPatcher, GetType, GetSettings, PutEeprom,
     PutSram, DetectType, ReadKind, Types, vars
<1>3. QED
  BY <1>1, <1>2 DEF TInv

(* Every ROM the patchers produce is well typed: every section points at *)
(* a block of the file and the table never grows past MaxSections, so    *)
(* add_or_update_trojan always finds a trojan config to read the chained *)
(* entrypoint from.                                                       *)
THEOREM PatcherTypeCorrect == Spec => []TypeOK
<1>1. TInv => TypeOK
  BY DEF TInv, RomInv, TypeOK, Sec
<1>2. QED
  BY <1>1, InitTInv, TInvStep, PTL DEF Spec

-----------------------------------------------------------------------------
(* One trojan build T: the boot chain, the growth of the file and where   *)
(* the last settings are.                                                 *)

(* A call that leaves the ROM and the last settings alone. *)
LEMMA QuietKeeps ==
    ASSUME NEW T, SInv(T), UNCHANGED <<romVars, lastPut>>
    PROVE  EntryInv(T)' /\ ChainInv' /\ GrowthInv(T)' /\ PutInv(T)'
<1>1. \A a : SectionAt(a)' = SectionAt(a)
  BY SectionAtSame DEF romVars
<1>2. QED
  BY <1>1 DEF SInv, EntryInv, ChainInv, GrowthInv, PutInv, BlockOf, IsSram, romVars

(* put_settings of SRAM that writes the section. *)
LEMMA SramKeeps ==
    ASSUME NEW T, TrojanLocs = {T}, SInv(T),
           NEW s \in Srams, ~SectionsFull(SramLoc), AddOrUpdateSection(s),
           lastPut' = s
    PROVE  EntryInv(T)' /\ ChainInv' /\ GrowthInv(T)' /\ PutInv(T)'
<1>1. PICK i \in 0..Len(secs) : i = SectionAt(SramLoc)
  BY SectionAtIsFirst, FirstSpec DEF SInv, TInv, RomInv
<1>2. i # 0 => secs[i].load = SramLoc
  BY <1>1, SectionAtIsFirst, FirstSpec DEF SInv, TInv, RomInv
<1>3. T # SramLoc /\ s \notin Eeproms
  BY PatcherAssumption
<1>4. CASE i # 0
  <2>1. /\ blocks' = [blocks EXCEPT ![secs[i].off] = [kind |-> "sram", val |-> s]]
        /\ UNCHANGED <<entry, secs>>
    BY <1>1, <1>4 DEF AddOrUpdateSection
  <2>2. \A a : SectionAt(a)' = SectionAt(a)
    BY <2>1, SectionAtSame
  <2>3. \A j \in 1..Len(secs) : j # i => BlockOf(j)' = BlockOf(j)
    BY <1>1, <1>4, <2>1 DEF SInv, TInv, RomInv, OffsDistinct, BlockOf
  <2>4. BlockOf(i)' = [kind |-> "sram", val |-> s] /\ Len(blocks') = Len(blocks)
    BY <1>4, <2>1 DEF SInv, TInv, RomInv, BlockOf
  <2>5. EntryInv(T)'
    BY <2>1, <2>2 DEF SInv, EntryInv
  <2>6. ChainInv'
    BY <2>1, <2>3, <2>4 DEF SInv, ChainInv
  <2>7. GrowthInv(T)'
    BY <2>1, <2>2, <2>4 DEF SInv, GrowthInv
  <2>8. PutInv(T)'
    BY <1>2, <1>3, <1>4, <2>1, <2>4 DEF PutInv, IsSram
  <2>9. QED
    BY <2>5, <2>6, <2>7, <2>8
<1>5. CASE i = 0
  <2> DEFINE r == [load |-> SramLoc, off |-> Len(blocks) + 1]
  <2>1. /\ secs' = Append(secs, r)
        /\ blocks' = Append(blocks, [kind |-> "sram", val |-> s])
        /\ UNCHANGED entry
    BY <1>1, <1>5 DEF AddOrUpdateSection
  <2>2. secs \in Seq(Sec) /\ r \in Sec /\ blocks \in Seq(Block)
    BY PatcherAssumption DEF SInv, TInv, RomInv, Sec, Addrs
  <2>3. SectionAt(T)' = SectionAt(T) /\ SectionAt(SramLoc)' = Len(secs) + 1
    <3>1. First(secs', T) = First(secs, T)
      BY <1>3, <2>1, <2>2, FirstAppend
    <3>2. First(secs', SramLoc) = Len(secs) + 1
      BY <1>1, <1>5, <2>1, <2>2, FirstAppend, SectionAtIsFirst
    <3>3. QED
      BY <3>1, <3>2, SectionAtIsFirst
  <2>4. /\ \A j \in 1..Len(secs) : secs'[j] = secs[j] /\ BlockOf(j)' = BlockOf(j)
        /\ Len(secs') = Len(secs) + 1 /\ Len(blocks') = Len(blocks) + 1
        /\ secs'[Len(secs) + 1] = r
        /\ \A j \in 1..Len(secs') : j > Len(secs) =>
              BlockOf(j)' = [kind |-> "sram", val |-> s]
    <3>1. Len(secs') = Len(secs) + 1 /\ Len(blocks') = Len(blocks) + 1
          /\ secs'[Len(secs) + 1] = r
          /\ blocks'[Len(blocks) + 1] = [kind |-> "sram", val |-> s]
      BY <2>1, <2>2
    <3>2. ASSUME NEW j \in 1..Len(secs) PROVE secs'[j] = secs[j] /\ BlockOf(j)' = BlockOf(j)
      <4>1. secs'[j] = secs[j] /\ secs[j].off \in 1..Len(blocks)
        BY <2>1, <2>2 DEF SInv, TInv, RomInv
      <4>2. blocks'[secs[j].off] = blocks[secs[j].off]
        BY <4>1, <2>1, <2>2
      <4>3. QED
        BY <4>1, <4>2 DEF BlockOf
    <3>3. QED
      BY <3>1, <3>2 DEF BlockOf, r
  <2>5. SectionAt(T) \in 0..Len(secs)
    BY SectionAtIsFirst, FirstSpec, <2>2
  <2>6. Len(blocks) <= Len(secs)
    BY <1>1, <1>5, <2>2 DEF SInv, GrowthInv
  <2>7. EntryInv(T)'
    BY <2>1, <2>3 DEF SInv, EntryInv
  <2>8. ChainInv'
    BY <2>4 DEF SInv, ChainInv
  <2>9. GrowthInv(T)'
    BY <2>2, <2>3, <2>4, <2>5, <2>6 DEF GrowthInv
  <2>10. PutInv(T)'
    BY <1>3, <2>2, <2>4 DEF PutInv, IsSram
  <2>11. QED
    BY <2>7, <2>8, <2>9, <2>10
<1>6. QED
  BY <1>4, <1>5

(* put_settings of EEPROM over the trojan already at T. *)
LEMMA TrojanKeeps ==
    ASSUME NEW T, TrojanLocs = {T}, SInv(T), RomInv',
           NEW s \in Eeproms, AddOrUpdateTrojan(T, s), lastPut' = s
    PROVE  EntryInv(T)' /\ ChainInv' /\ GrowthInv(T)' /\ PutInv(T)'
<1>1. PICK i \in 1..Len(secs) : i = SectionAt(T)
  BY TrojanAt DEF AddOrUpdateTrojan, SInv, TInv
<1>2. /\ secs[i].load = T /\ BlockOf(i).kind = "trojan"
      /\ BlockOf(i).entry = GameLoc /\ secs[i].off \in 1..Len(blocks)
  BY <1>1, TrojanAt DEF SInv, ChainInv, TInv, RomInv
<1> DEFINE exe == Exe(T, GameLoc, s)
<1>3. entry' = T /\ s \notin Srams /\ exe.kind = "trojan" /\ exe.entry = GameLoc
      /\ exe.val = s
  BY PatcherAssumption DEF AddOrUpdateTrojan, Exe
<1>4. CASE secs[i].off = Len(blocks)
  <2>1. blocks' = [blocks EXCEPT ![secs[i].off] = exe] /\ secs' = secs
    BY <1>1, <1>2, <1>4 DEF AddOrUpdateTrojan
  <2>2. \A a : SectionAt(a)' = SectionAt(a)
    BY <2>1, SectionAtSame
  <2>3. \A j \in 1..Len(secs) : j # i => BlockOf(j)' = BlockOf(j)
    BY <1>2, <2>1 DEF SInv, TInv, RomInv, OffsDistinct, BlockOf
  <2>4. BlockOf(i)' = exe /\ Len(blocks') = Len(blocks)
    BY <1>2, <2>1 DEF SInv, TInv, RomInv, BlockOf
  <2>5. EntryInv(T)'
    BY <1>1, <1>3, <2>2 DEF EntryInv
  <2>6. ChainInv'
    BY <1>3, <2>1, <2>3, <2>4 DEF SInv, ChainInv
  <2>7. GrowthInv(T)'
    BY <2>1, <2>2, <2>4 DEF SInv, GrowthInv
  <2>8. PutInv(T)'
    BY <1>1, <1>3, <2>2, <2>4 DEF PutInv, BlockOf
  <2>9. QED
    BY <2>5, <2>6, <2>7, <2>8
<1>5. CASE secs[i].off # Len(blocks)
  <2> DEFINE zeroed == [blocks EXCEPT ![secs[i].off] = [kind |-> "zero"]]
  <2> DEFINE moved == [load |-> T, off |-> Len(blocks) + 1]
  <2>1. /\ blocks' = Append(zeroed, exe)
        /\ secs' = [secs EXCEPT ![i] = moved]
    <3>1. blocks' = Append(zeroed, exe)
          /\ secs' = [secs EXCEPT ![i].off = Len(blocks) + 1]
      BY <1>1, <1>2, <1>5 DEF AddOrUpdateTrojan
    <3>2. secs[i] \in Sec
      BY DEF SInv, TInv, RomInv
    <3>3. [secs[i] EXCEPT !.off = Len(blocks) + 1] = moved
      BY <1>2, <3>2 DEF Sec
    <3>4. QED
      BY <3>1, <3>3
  <2>2. /\ Len(blocks') = Len(blocks) + 1 /\ Len(secs') = Len(secs)
        /\ secs'[i] = moved /\ \A j \in 1..Len(secs) : j # i => secs'[j] = secs[j]
        /\ \A j \in 1..Len(secs) : secs'[j].load = secs[j].load
    BY <1>2, <2>1 DEF SInv, TInv, RomInv
  <2>3. \A a : SectionAt(a)' = SectionAt(a)
    <3> SUFFICES ASSUME NEW a PROVE First(secs', a) = First(secs, a)
      BY SectionAtIsFirst
    <3>1. secs \in Seq(Sec) /\ secs' \in Seq(Sec)
      BY DEF SInv, TInv, RomInv
    <3>2. QED
      BY <2>2, <3>1, FirstSameLoads
  <2>4. \A j \in 1..Len(secs) : j # i => BlockOf(j)' = BlockOf(j)
    <3> SUFFICES ASSUME NEW j \in 1..Len(secs), j # i
                 PROVE  blocks'[secs'[j].off] = blocks[secs[j].off]
      BY DEF BlockOf
    <3>1. secs'[j] = secs[j] /\ secs[j].off \in 1..Len(blocks)
          /\ secs[j].off # secs[i].off
      BY <2>2 DEF SInv, TInv, RomInv, OffsDistinct
    <3>2. QED
      BY <1>2, <2>1, <3>1 DEF SInv, TInv, RomInv
  <2>5. BlockOf(i)' = exe
    BY <2>1, <2>2 DEF BlockOf, SInv, TInv, RomInv
  <2>6. Len(blocks) <= Len(secs) /\ SectionAt(SramLoc) # 0
    BY <1>1, <1>5 DEF SInv, GrowthInv
  <2>7. EntryInv(T)'
    BY <1>1, <1>3, <2>3 DEF EntryInv
  <2>8. ChainInv'
    BY <1>3, <2>2, <2>4, <2>5 DEF SInv, ChainInv
  <2>9. GrowthInv(T)'
    BY <1>1, <2>2, <2>3, <2>6 DEF GrowthInv
  <2>10. PutInv(T)'
    BY <1>1, <1>3, <2>3, <2>5 DEF PutInv, BlockOf
  <2>11. QED
    BY <2>7, <2>8, <2>9, <2>10
<1>6. QED
  BY <1>4, <1>5

(* put_settings of EEPROM attaching the first trojan. *)
LEMMA AttachKeeps ==
    ASSUME NEW T, TrojanLocs = {T}, SInv(T),
           NEW s \in Eeproms, AttachTrojan(T, s), lastPut' = s
    PROVE  EntryInv(T)' /\ ChainInv' /\ GrowthInv(T)' /\ PutInv(T)'
<1>1. SectionAt(T) = 0 /\ entry = GameLoc
  BY DEF AttachTrojan, SInv, EntryInv
<1> DEFINE r == [load |-> T, off |-> Len(blocks) + 1]
<1> DEFINE exe == Exe(T, GameLoc, s)
<1>2. /\ secs' = Append(secs, r) /\ blocks' = Append(blocks, exe) /\ entry' = T
  BY <1>1 DEF AttachTrojan
<1>3. /\ secs \in Seq(Sec) /\ r \in Sec /\ blocks \in Seq(Block)
      /\ T # SramLoc /\ s \notin Srams
      /\ exe.kind = "trojan" /\ exe.entry = GameLoc /\ exe.val = s
  BY PatcherAssumption DEF SInv, TInv, RomInv, Sec, Addrs, Exe
<1>4. SectionAt(T)' = Len(secs) + 1 /\ SectionAt(SramLoc)' = SectionAt(SramLoc)
  <2>1. First(secs', T) = Len(secs) + 1
    BY <1>1, <1>2, <1>3, FirstAppend, SectionAtIsFirst
  <2>2. First(secs', SramLoc) = First(secs, SramLoc)
    BY <1>2, <1>3, FirstAppend
  <2>3. QED
    BY <2>1, <2>2, SectionAtIsFirst
<1>5. /\ Len(secs') = Len(secs) + 1 /\ Len(blocks') = Len(blocks) + 1
      /\ secs'[Len(secs) + 1] = r /\ blocks'[Len(blocks) + 1] = exe
      /\ \A j \in 1..Len(secs) : secs'[j] = secs[j] /\ BlockOf(j)' = BlockOf(j)
  <2>1. Len(secs') = Len(secs) + 1 /\ Len(blocks') = Len(blocks) + 1
        /\ secs'[Len(secs) + 1] = r /\ blocks'[Len(blocks) + 1] = exe
    BY <1>2, <1>3
  <2>2. ASSUME NEW j \in 1..Len(secs) PROVE secs'[j] = secs[j] /\ BlockOf(j)' = BlockOf(j)
    <3>1. secs'[j] = secs[j] /\ secs[j].off \in 1..Len(blocks)
      BY <1>2, <1>3 DEF SInv, TInv, RomInv
    <3>2. blocks'[secs[j].off] = blocks[secs[j].off]
      BY <1>2, <1>3, <3>1
    <3>3. QED
      BY <3>1, <3>2 DEF BlockOf
  <2>3. QED
    BY <2>1, <2>2
<1>6. \A j \in 1..Len(secs') : j > Len(secs) => BlockOf(j)' = exe
  BY <1>3, <1>5 DEF BlockOf, r
<1>7. Len(blocks) <= Len(secs)
  BY <1>1, <1>3 DEF SInv, GrowthInv
<1>8. EntryInv(T)'
  BY <1>2, <1>4 DEF EntryInv
<1>9. ChainInv'
  BY <1>3, <1>5, <1>6 DEF SInv, ChainInv
<1>10. GrowthInv(T)'
  BY <1>3, <1>4, <1>5, <1>7 DEF GrowthInv, r
<1>11. PutInv(T)'
  <2>1. BlockOf(SectionAt(T))' = exe
    BY <1>3, <1>4, <1>5 DEF BlockOf, r
  <2>2. QED
    BY <1>2, <1>3, <1>4, <2>1 DEF PutInv
<1>12. QED
  BY <1>8, <1>9, <1>10, <1>11

(* Every step keeps the single-build invariant. *)
LEMMA SInvStep ==
    ASSUME NEW T, TrojanLocs = {T}, SInv(T), [Next]_vars
    PROVE  SInv(T)'
<1>1. TInv'
  BY TInvStep DEF SInv
<1> SUFFICES EntryInv(T)' /\ ChainInv' /\ GrowthInv(T)' /\ PutInv(T)'
  BY <1>1 DEF SInv
<1>2. CASE \E s \in Eeproms : PutEeprom(s)
  <2>1. PICK s \in Eeproms : PutEeprom(s)
    BY <1>2
  <2>2. CASE UNCHANGED <<romVars, lastPut>>
    BY <2>2, QuietKeeps
  <2>3. CASE trojan # NoTrojan /\ (AddOrUpdateTrojan(trojan, s) \/ AttachTrojan(trojan, s))
             /\ lastPut' = s
    <3>1. trojan = T
      BY <2>3 DEF SInv, TInv
    <3>2. QED
      BY <1>1, <2>3, <3>1, TrojanKeeps, AttachKeeps DEF TInv
  <2>4. QED
    BY <2>1, <2>2, <2>3 DEF PutEeprom, romVars
<1>3. CASE \E s \in Srams : PutSram(s)
  <2>1. PICK s \in Srams : PutSram(s)
    BY <1>3
  <2>2. CASE UNCHANGED <<romVars, lastPut>>
    BY <2>2, QuietKeeps
  <2>3. CASE ~SectionsFull(SramLoc) /\ AddOrUpdateSection(s) /\ lastPut' = s
    BY <2>3, SramKeeps
  <2>4. QED
    BY <2>1, <2>2, <2>3 DEF PutSram, romVars
<1>4. CASE ~(\E s \in Eeproms : PutEeprom(s)) /\ ~(\E s \in Srams : PutSram(s))
  <2>1. UNCHANGED <<romVars, lastPut>>
    BY <1>4 DEF Next, NewPatcher, GetType, GetSettings, vars, romVars
  <2>2. QED
    BY <2>1, QuietKeeps
<1>5. QED
  BY <1>2, <1>3, <1>4

LEMMA InitSInv ==
    ASSUME NEW T, TrojanLocs = {T}
    PROVE  Init => SInv(T)
<1> SUFFICES ASSUME Init PROVE SInv(T)
  OBVIOUS
<1>1. TInv
  BY InitTInv
<1>2. PICK n \in InitGames :
        /\ secs = [i \in 1..n |-> [load |-> GameLoc, off |-> i]]
        /\ blocks = [i \in 1..n |-> [kind |-> "game"]]
  BY DEF Init
<1>3. n \in Nat /\ GameLoc # T /\ lastPut \notin Eeproms \cup Srams /\ entry = GameLoc
  BY PatcherAssumption DEF Init
<1>4. SectionAt(T) = 0
  BY <1>1, <1>2, <1>3, SectionAtIsFirst, FirstSpec DEF TInv, RomInv
<1>5. \A i \in 1..Len(secs) : BlockOf(i).kind = "game"
  BY <1>2, <1>3 DEF BlockOf
<1>6. QED
  BY <1>1, <1>2, <1>3, <1>4, <1>5 DEF SInv, EntryInv, ChainInv, GrowthInv, PutInv

-----------------------------------------------------------------------------
(* The boot chain.  BootChain is a recursive function; its defining       *)
(* equation is obtained from a witness, and its values by a least         *)
(* counterexample, which MinNat provides.                                 *)

(* The header's entrypoint and the game both step to the game. *)
LEMMA BootStepFacts ==
    ASSUME NEW T, TrojanLocs = {T}, SInv(T)
    PROVE  BootStep(entry) = GameLoc /\ BootStep(GameLoc) = GameLoc
<1>1. secs \in Seq(Sec)
  BY DEF SInv, TInv, RomInv
<1>2. BootStep(GameLoc) = GameLoc
  <2>1. PICK k \in 0..Len(secs) : k = SectionAt(GameLoc)
    BY <1>1, SectionAtIsFirst, FirstSpec
  <2>2. k # 0 => BlockOf(k).kind # "trojan"
    BY <1>1, <2>1, SectionAtIsFirst, FirstSpec, PatcherAssumption
    DEF SInv, TInv, RomInv, TrojanSecs
  <2>3. QED
    BY <2>1, <2>2 DEF BootStep
<1>3. CASE entry = T
  <2>1. PICK k \in 1..Len(secs) : k = SectionAt(T)
    BY <1>1, <1>3, SectionAtIsFirst, FirstSpec, PatcherAssumption DEF SInv, EntryInv
  <2>2. BlockOf(k).kind = "trojan" /\ BlockOf(k).entry = GameLoc
    BY <2>1, TrojanAt DEF SInv, TInv, ChainInv
  <2>3. QED
    BY <1>2, <1>3, <2>1, <2>2 DEF BootStep
<1>4. QED
  BY <1>2, <1>3 DEF SInv, EntryInv

(* With one trojan build the boot goes entry, then the game for good. *)
LEMMA BootChainValues ==
    ASSUME NEW T, TrojanLocs = {T}, SInv(T)
    PROVE  \A n \in 0..MaxSections : BootChain[n] = IF n = 0 THEN entry ELSE GameLoc
<1> DEFINE g == [n \in 0..MaxSections |-> IF n = 0 THEN entry ELSE GameLoc]
<1>1. g = [n \in 0..MaxSections |-> IF n = 0 THEN entry ELSE BootStep(g[n - 1])]
  BY BootStepFacts, PatcherAssumption
<1>2. BootChain = [n \in 0..MaxSections |-> IF n = 0 THEN entry ELSE BootStep(BootChain[n - 1])]
  BY <1>1 DEF BootChain
<1> DEFINE D == {n \in 0..MaxSections : BootChain[n] # g[n]}
<1>3. D = {}
  <2> SUFFICES ASSUME D # {} PROVE FALSE
    OBVIOUS
  <2>0. D \in SUBSET Nat
    BY PatcherAssumption
  <2>1. Min(D) \in D /\ \A y \in D : Min(D) <= y
    BY <2>0, MinNat
  <2>2. PICK m \in D : m = Min(D)
    BY <2>1
  <2>3. m # 0
    BY <1>2, <2>2
  <2>4. m - 1 \in 0..MaxSections /\ m - 1 \notin D
    BY <2>1, <2>2, <2>3, PatcherAssumption
  <2>5. BootChain[m] = BootStep(BootChain[m - 1]) /\ g[m] = BootStep(g[m - 1])
    BY <1>1, <1>2, <2>2, <2>3, PatcherAssumption
  <2>6. QED
    BY <2>2, <2>4, <2>5
<1>4. QED
  BY <1>3

-----------------------------------------------------------------------------
(* Two properties of patcher_safety, for every section limit, number of   *)
(* game sections, number of puts and set of settings, with one trojan     *)
(* build (two builds break LatestSettingsBoot and RomGrowthBounded: the   *)
(* run patcher_stalechain and the README).  EntryChainsToGame holds for   *)
(* any set of builds and is proved at the end of the module.              *)

(* Re-patching a ROM with settings never leaves more than one dead block  *)
(* in the file: add_or_update_trojan rewrites a tail trojan in place and  *)
(* moves a mid-file one to the tail only while an SRAM section sits after *)
(* it, and nothing is appended once it has moved.                         *)
THEOREM GrowthBounded ==
    ASSUME NEW T, TrojanLocs = {T}
    PROVE  Spec => []RomGrowthBounded
<1>1. SInv(T) => RomGrowthBounded
  BY DEF SInv, GrowthInv, RomGrowthBounded
<1>2. QED
  BY <1>1, InitSInv, SInvStep, PTL DEF Spec

(* The settings of the last put_settings that returned are the ones the   *)
(* console applies: the trojan the boot reaches last, the first section   *)
(* at its address, carries that EEPROM, or an SRAM section holds that     *)
(* SRAM image.                                                            *)
THEOREM LatestBoots ==
    ASSUME NEW T, TrojanLocs = {T}
    PROVE  Spec => []LatestSettingsBoot
<1>1. SInv(T) => LatestSettingsBoot
  <2> SUFFICES ASSUME SInv(T) PROVE LatestSettingsBoot
    OBVIOUS
  <2>1. ASSUME lastPut \in Eeproms
        PROVE  \E i \in LastTrojans : SectionAt(secs[i].load) = i /\ BlockOf(i).val = lastPut
    <3>1. PICK i \in 1..Len(secs) : i = SectionAt(T)
      BY <2>1, TrojanAt DEF SInv, PutInv, TInv
    <3>2. secs[i].load = T /\ BlockOf(i).kind = "trojan" /\ BlockOf(i).entry = GameLoc
          /\ BlockOf(i).val = lastPut /\ entry = T
      BY <2>1, <3>1, TrojanAt DEF SInv, PutInv, TInv, ChainInv
    <3>3. BootChain[0] = T
      BY <3>2, BootChainValues, PatcherAssumption
    <3>4. i \in LastTrojans
      BY <3>2, <3>3, PatcherAssumption DEF LastTrojans
    <3>5. QED
      BY <3>1, <3>2, <3>4
  <2>2. QED
    BY <2>1 DEF LatestSettingsBoot, SInv, PutInv
<1>2. QED
  BY <1>1, InitSInv, SInvStep, PTL DEF Spec

-----------------------------------------------------------------------------
(* The boot chain for any set of trojan builds.                           *)

(* Appending a section and its block. *)
LEMMA AppendFacts ==
    ASSUME RomInv, NEW r \in Sec, r.off = Len(blocks) + 1, NEW b,
           secs' = Append(secs, r), blocks' = Append(blocks, b)
    PROVE  /\ \A a : SectionAt(a)' = IF SectionAt(a) # 0 THEN SectionAt(a)
                                     ELSE IF r.load = a THEN Len(secs) + 1 ELSE 0
           /\ Len(secs') = Len(secs) + 1
           /\ \A j \in 1..Len(secs) : BlockOf(j)' = BlockOf(j)
           /\ \A j \in 1..Len(secs') : j > Len(secs) => BlockOf(j)' = b
<1>1. secs \in Seq(Sec) /\ blocks \in Seq(Block)
  BY DEF RomInv
<1>2. \A a : SectionAt(a)' = IF SectionAt(a) # 0 THEN SectionAt(a)
                             ELSE IF r.load = a THEN Len(secs) + 1 ELSE 0
  BY <1>1, FirstAppend, SectionAtIsFirst
<1>3. ASSUME NEW j \in 1..Len(secs) PROVE BlockOf(j)' = BlockOf(j)
  <2>1. secs'[j] = secs[j] /\ secs[j].off \in 1..Len(blocks)
    BY <1>1 DEF RomInv
  <2>2. QED
    BY <1>1, <2>1 DEF BlockOf
<1>4. ASSUME NEW j \in 1..Len(secs'), j > Len(secs) PROVE BlockOf(j)' = b
  <2>1. j = Len(secs) + 1 /\ secs'[j] = r
    BY <1>1, <1>4
  <2>2. blocks'[Len(blocks) + 1] = b
    BY <1>1
  <2>3. QED
    BY <2>1, <2>2 DEF BlockOf
<1>5. QED
  BY <1>1, <1>2, <1>3, <1>4

(* add_or_update_trojan over the trojan at loc, section i. *)
LEMMA TrojanWriteFacts ==
    ASSUME RomInv, NEW loc \in TrojanLocs, NEW s \in Eeproms, AddOrUpdateTrojan(loc, s),
           NEW i \in 1..Len(secs), i = SectionAt(loc)
    PROVE  /\ \A a : SectionAt(a)' = SectionAt(a)
           /\ Len(secs') = Len(secs)
           /\ BlockOf(i)' = Exe(loc, BlockOf(i).entry, s)
           /\ \A j \in 1..Len(secs) : j # i => BlockOf(j)' = BlockOf(j)
           /\ entry' = loc
<1>1. secs[i].load = loc /\ secs[i].off \in 1..Len(blocks) /\ RomInv'
  BY TrojanAt, TrojanWriteOK DEF RomInv
<1> DEFINE exe == Exe(loc, BlockOf(i).entry, s)
<1>2. CASE secs[i].off = Len(blocks)
  <2>1. blocks' = [blocks EXCEPT ![secs[i].off] = exe] /\ secs' = secs /\ entry' = loc
    BY <1>2 DEF AddOrUpdateTrojan
  <2>2. QED
    BY <1>1, <2>1, SectionAtSame DEF RomInv, OffsDistinct, BlockOf
<1>3. CASE secs[i].off # Len(blocks)
  <2> DEFINE moved == [load |-> loc, off |-> Len(blocks) + 1]
  <2>1. /\ blocks' = Append([blocks EXCEPT ![secs[i].off] = [kind |-> "zero"]], exe)
        /\ secs' = [secs EXCEPT ![i] = moved] /\ entry' = loc
    <3>1. /\ blocks' = Append([blocks EXCEPT ![secs[i].off] = [kind |-> "zero"]], exe)
          /\ secs' = [secs EXCEPT ![i].off = Len(blocks) + 1] /\ entry' = loc
      BY <1>3 DEF AddOrUpdateTrojan
    <3>2. secs[i] \in Sec
      BY DEF RomInv
    <3>4. [secs[i] EXCEPT !.off = Len(blocks) + 1] = moved
      BY <1>1, <3>2 DEF Sec
    <3>3. QED
      BY <3>1, <3>4
  <2>2. /\ Len(secs') = Len(secs) /\ secs'[i] = moved
        /\ \A j \in 1..Len(secs) : j # i => secs'[j] = secs[j]
        /\ \A j \in 1..Len(secs) : secs'[j].load = secs[j].load
    BY <1>1, <2>1 DEF RomInv
  <2>3. \A a : SectionAt(a)' = SectionAt(a)
    <3> SUFFICES ASSUME NEW a PROVE First(secs', a) = First(secs, a)
      BY SectionAtIsFirst
    <3>1. QED
      BY <1>1, <2>2, FirstSameLoads DEF RomInv
  <2>4. \A j \in 1..Len(secs) : j # i => BlockOf(j)' = BlockOf(j)
    <3> SUFFICES ASSUME NEW j \in 1..Len(secs), j # i
                 PROVE  blocks'[secs'[j].off] = blocks[secs[j].off]
      BY DEF BlockOf
    <3>1. secs'[j] = secs[j] /\ secs[j].off \in 1..Len(blocks)
          /\ secs[j].off # secs[i].off
      BY <2>2 DEF RomInv, OffsDistinct
    <3>2. QED
      BY <1>1, <2>1, <3>1 DEF RomInv
  <2>5. BlockOf(i)' = exe
    BY <1>1, <2>1, <2>2 DEF BlockOf, RomInv
  <2>6. QED
    BY <2>1, <2>2, <2>3, <2>4, <2>5
<1>4. QED
  BY <1>2, <1>3

LEMMA CSramKeeps ==
    ASSUME CInv, NEW s \in Srams, ~SectionsFull(SramLoc), AddOrUpdateSection(s)
    PROVE  GEntryInv' /\ GChainInv'
<1>1. PICK i \in 0..Len(secs) : i = SectionAt(SramLoc)
  BY SectionAtIsFirst, FirstSpec DEF CInv, TInv, RomInv
<1>2. /\ i # 0 => secs[i].load = SramLoc
      /\ SramLoc \notin TrojanLocs
  BY <1>1, SectionAtIsFirst, FirstSpec, PatcherAssumption DEF CInv, TInv, RomInv
<1>3. CASE i # 0
  <2>1. /\ blocks' = [blocks EXCEPT ![secs[i].off] = [kind |-> "sram", val |-> s]]
        /\ UNCHANGED <<entry, secs>>
    BY <1>1, <1>3 DEF AddOrUpdateSection
  <2>2. \A a : SectionAt(a)' = SectionAt(a)
    BY <2>1, SectionAtSame
  <2>3. /\ \A j \in 1..Len(secs) : j # i => BlockOf(j)' = BlockOf(j)
        /\ BlockOf(i)' = [kind |-> "sram", val |-> s]
    BY <1>1, <1>3, <2>1 DEF CInv, TInv, RomInv, OffsDistinct, BlockOf
  <2>4. QED
    BY <2>1, <2>2, <2>3 DEF CInv, GEntryInv, GChainInv
<1>4. CASE i = 0
  <2> DEFINE r == [load |-> SramLoc, off |-> Len(blocks) + 1]
  <2>1. /\ secs' = Append(secs, r)
        /\ blocks' = Append(blocks, [kind |-> "sram", val |-> s])
        /\ UNCHANGED entry
    BY <1>1, <1>4 DEF AddOrUpdateSection
  <2>2. r \in Sec
    BY PatcherAssumption DEF Sec, Addrs
  <2>3. /\ \A a \in TrojanLocs : SectionAt(a)' = SectionAt(a)
        /\ \A j \in 1..Len(secs) : BlockOf(j)' = BlockOf(j)
        /\ \A j \in 1..Len(secs') : j > Len(secs) => BlockOf(j)' = [kind |-> "sram", val |-> s]
        /\ Len(secs') = Len(secs) + 1
    BY <1>2, <2>1, <2>2, AppendFacts DEF CInv, TInv
  <2>4. QED
    BY <2>1, <2>3 DEF CInv, GEntryInv, GChainInv
<1>5. QED
  BY <1>3, <1>4

LEMMA CTrojanKeeps ==
    ASSUME CInv, NEW loc \in TrojanLocs, NEW s \in Eeproms, AddOrUpdateTrojan(loc, s)
    PROVE  GEntryInv' /\ GChainInv'
<1>1. PICK i \in 1..Len(secs) : i = SectionAt(loc)
  BY TrojanAt DEF AddOrUpdateTrojan, CInv, TInv
<1>2. /\ \A a : SectionAt(a)' = SectionAt(a)
      /\ Len(secs') = Len(secs)
      /\ BlockOf(i)' = Exe(loc, BlockOf(i).entry, s)
      /\ \A j \in 1..Len(secs) : j # i => BlockOf(j)' = BlockOf(j)
      /\ entry' = loc
  BY <1>1, TrojanWriteFacts DEF CInv, TInv
<1>3. BlockOf(i).kind = "trojan"
  BY <1>1, TrojanAt DEF CInv, TInv
<1>4. BlockOf(i)'.kind = "trojan" /\ BlockOf(i)'.entry = BlockOf(i).entry
  BY <1>2 DEF Exe
<1>5. GEntryInv'
  BY <1>1, <1>2 DEF GEntryInv
<1>6. GChainInv'
  BY <1>2, <1>3, <1>4 DEF CInv, GChainInv
<1>7. QED
  BY <1>5, <1>6

LEMMA CAttachKeeps ==
    ASSUME CInv, NEW loc \in TrojanLocs, NEW s \in Eeproms, AttachTrojan(loc, s)
    PROVE  GEntryInv' /\ GChainInv'
<1> DEFINE r == [load |-> loc, off |-> Len(blocks) + 1]
<1> DEFINE exe == Exe(loc, entry, s)
<1>1. /\ SectionAt(loc) = 0
      /\ secs' = Append(secs, r) /\ blocks' = Append(blocks, exe) /\ entry' = loc
  BY DEF AttachTrojan
<1>2. r \in Sec /\ exe.kind = "trojan" /\ exe.entry = entry
  BY DEF CInv, TInv, RomInv, Sec, Addrs, Exe
<1>3. /\ \A a : SectionAt(a)' = IF SectionAt(a) # 0 THEN SectionAt(a)
                               ELSE IF r.load = a THEN Len(secs) + 1 ELSE 0
      /\ Len(secs') = Len(secs) + 1
      /\ \A j \in 1..Len(secs) : BlockOf(j)' = BlockOf(j)
      /\ \A j \in 1..Len(secs') : j > Len(secs) => BlockOf(j)' = exe
  BY <1>1, <1>2, AppendFacts DEF CInv, TInv
<1>4. \A a : SectionAt(a) \in 0..Len(secs)
  BY SectionAtIsFirst, FirstSpec DEF CInv, TInv, RomInv
<1>5. GEntryInv'
  BY <1>1, <1>3 DEF GEntryInv
<1>6. GChainInv'
  <2> SUFFICES ASSUME NEW j \in 1..Len(secs'), (BlockOf(j).kind = "trojan")'
               PROVE  (\/ BlockOf(j).entry = GameLoc
                       \/ /\ BlockOf(j).entry \in TrojanLocs
                          /\ SectionAt(BlockOf(j).entry) \in 1..j - 1)'
    BY DEF GChainInv
  <2>1. CASE j \in 1..Len(secs)
    BY <1>3, <1>4, <2>1 DEF CInv, GChainInv
  <2>2. CASE j = Len(secs) + 1
    BY <1>2, <1>3, <1>4, <2>2 DEF CInv, GEntryInv
  <2>3. QED
    BY <1>3, <2>1, <2>2
<1>7. QED
  BY <1>5, <1>6

LEMMA CInvStep ==
    ASSUME CInv, [Next]_vars
    PROVE  CInv'
<1>1. TInv'
  BY TInvStep DEF CInv
<1> SUFFICES GEntryInv' /\ GChainInv'
  BY <1>1 DEF CInv
<1>2. CASE UNCHANGED romVars
  <2>1. \A a : SectionAt(a)' = SectionAt(a)
    BY <1>2, SectionAtSame DEF romVars
  <2>2. QED
    BY <1>2, <2>1 DEF romVars, CInv, GEntryInv, GChainInv, BlockOf
<1>3. CASE \E s \in Eeproms : trojan # NoTrojan /\ AddOrUpdateTrojan(trojan, s)
  BY <1>3, CTrojanKeeps DEF CInv, TInv
<1>4. CASE \E s \in Eeproms : trojan # NoTrojan /\ AttachTrojan(trojan, s)
  BY <1>4, CAttachKeeps DEF CInv, TInv
<1>5. CASE \E s \in Srams : ~SectionsFull(SramLoc) /\ AddOrUpdateSection(s)
  BY <1>5, CSramKeeps
<1>6. QED
  BY <1>2, <1>3, <1>4, <1>5
  DEF Next, PutEeprom, PutSram, NewPatcher, GetType, GetSettings, vars, romVars

LEMMA InitCInv == Init => CInv
<1> SUFFICES ASSUME Init PROVE CInv
  OBVIOUS
<1>1. PICK n \in InitGames :
        /\ secs = [i \in 1..n |-> [load |-> GameLoc, off |-> i]]
        /\ blocks = [i \in 1..n |-> [kind |-> "game"]]
  BY DEF Init
<1>2. n \in Nat /\ entry = GameLoc
  BY PatcherAssumption DEF Init
<1>3. \A i \in 1..Len(secs) : BlockOf(i).kind = "game"
  BY <1>1, <1>2 DEF BlockOf
<1>4. QED
  BY <1>2, <1>3, InitTInv DEF CInv, GEntryInv, GChainInv

(* A trojan with a section jumps to its saved entrypoint; every other      *)
(* address is where the boot stays.                                       *)
LEMMA BootStepCases ==
    ASSUME RomInv, NEW a
    PROVE  BootStep(a) = IF a \in TrojanLocs /\ SectionAt(a) # 0
                         THEN BlockOf(SectionAt(a)).entry ELSE a
<1>1. CASE a \in TrojanLocs /\ SectionAt(a) # 0
  BY <1>1, TrojanAt DEF BootStep
<1>2. CASE ~(a \in TrojanLocs /\ SectionAt(a) # 0)
  <2>1. PICK i \in 0..Len(secs) : i = SectionAt(a)
    BY SectionAtIsFirst, FirstSpec DEF RomInv
  <2>2. i # 0 => secs[i].load = a
    BY <2>1, SectionAtIsFirst, FirstSpec DEF RomInv
  <2>3. i # 0 => BlockOf(i).kind # "trojan"
    BY <1>2, <2>1, <2>2 DEF RomInv, TrojanSecs
  <2>4. QED
    BY <1>2, <2>1, <2>3 DEF BootStep
<1>3. QED
  BY <1>1, <1>2

(* Under CInv the boot moves from the game to the game, and from a trojan  *)
(* with a section to the game or to a trojan with an earlier section.     *)
LEMMA BootStepDown ==
    ASSUME CInv, NEW a, a = GameLoc \/ (a \in TrojanLocs /\ SectionAt(a) # 0)
    PROVE  \/ BootStep(a) = GameLoc
           \/ /\ BootStep(a) \in TrojanLocs
              /\ SectionAt(BootStep(a)) \in 1..SectionAt(a) - 1
<1>1. CASE a = GameLoc
  BY <1>1, BootStepCases, PatcherAssumption DEF CInv, TInv
<1>2. CASE a \in TrojanLocs /\ SectionAt(a) # 0
  <2>1. PICK i \in 1..Len(secs) : i = SectionAt(a)
    BY <1>2, TrojanAt DEF CInv, TInv
  <2>2. BootStep(a) = BlockOf(i).entry /\ BlockOf(i).kind = "trojan"
    BY <1>2, <2>1, BootStepCases, TrojanAt DEF CInv, TInv
  <2>3. QED
    BY <2>1, <2>2 DEF CInv, GChainInv
<1>3. QED
  BY <1>1, <1>2

(* BootChain is defined: a chain of MaxSections boot steps exists. *)
LEMMA BootChainEq ==
    ASSUME RomInv
    PROVE  BootChain = [n \in 0..MaxSections |-> IF n = 0 THEN entry
                                                ELSE BootStep(BootChain[n - 1])]
<1> DEFINE E(k) == \E f \in [0..k -> Addrs] :
                      /\ f[0] = entry
                      /\ \A n \in 1..k : f[n] = BootStep(f[n - 1])
<1>1. \A a \in Addrs : BootStep(a) \in Addrs
  BY BootStepCases, TrojanAt
<1> DEFINE D == {k \in 0..MaxSections : ~E(k)}
<1>2. D = {}
  <2> SUFFICES ASSUME D # {} PROVE FALSE
    OBVIOUS
  <2>0. D \in SUBSET Nat
    BY PatcherAssumption
  <2>1. Min(D) \in D /\ \A y \in D : Min(D) <= y
    BY <2>0, MinNat
  <2>2. PICK m \in D : m = Min(D)
    BY <2>1
  <2>3. m \in 1..MaxSections
    <3>1. m \in 0..MaxSections
      BY <2>2, Zenon DEF D
    <3> DEFINE g == [n \in 0..0 |-> entry]
    <3>2. g \in [0..0 -> Addrs]
      BY DEF RomInv
    <3>3. g[0] = entry /\ \A n \in 1..0 : g[n] = BootStep(g[n - 1])
      OBVIOUS
    <3>4. E(0)
      BY <3>2, <3>3, Zenon DEF E
    <3>5. m # 0
      BY <2>2, <3>4, Zenon DEF D
    <3>6. QED
      BY <3>1, <3>5, PatcherAssumption
  <2>4. m - 1 \in 0..MaxSections /\ m - 1 \notin D
    <3>1. m - 1 \in 0..MaxSections
      BY <2>3, PatcherAssumption
    <3>2. ASSUME m - 1 \in D PROVE FALSE
      <4>1. m <= m - 1
        BY <2>1, <2>2, <3>2, Zenon
      <4>2. QED
        BY <2>3, <4>1, PatcherAssumption
    <3>3. QED
      BY <3>1, <3>2
  <2>5. PICK f \in [0..m - 1 -> Addrs] :
          /\ f[0] = entry
          /\ \A n \in 1..m - 1 : f[n] = BootStep(f[n - 1])
    BY <2>4, Zenon DEF D, E
  <2> DEFINE h == [n \in 0..m |-> IF n < m THEN f[n] ELSE BootStep(f[m - 1])]
  <2>6. h \in [0..m -> Addrs]
    BY <1>1, <2>3, <2>5, PatcherAssumption DEF h
  <2>7. h[0] = entry /\ \A n \in 1..m : h[n] = BootStep(h[n - 1])
    BY <2>3, <2>5, PatcherAssumption DEF h
  <2>8. E(m)
    BY <2>6, <2>7, Zenon DEF E
  <2>9. QED
    BY <2>2, <2>8
<1>3. PICK f \in [0..MaxSections -> Addrs] :
        /\ f[0] = entry
        /\ \A n \in 1..MaxSections : f[n] = BootStep(f[n - 1])
  BY <1>2, PatcherAssumption
<1>4. f = [n \in 0..MaxSections |-> IF n = 0 THEN entry ELSE BootStep(f[n - 1])]
  BY <1>3, PatcherAssumption
<1>5. QED
  BY <1>4 DEF BootChain

(* Along the boot chain the section of the current trojan strictly        *)
(* decreases, so after n steps it is below Len(secs) - n + 1.             *)
LEMMA ChainDescends ==
    ASSUME CInv
    PROVE  \A n \in 0..MaxSections :
              \/ BootChain[n] = GameLoc
              \/ /\ BootChain[n] \in TrojanLocs
                 /\ SectionAt(BootChain[n]) \in 1..Len(secs) - n
<1> DEFINE R(n) == \/ BootChain[n] = GameLoc
                   \/ /\ BootChain[n] \in TrojanLocs
                      /\ SectionAt(BootChain[n]) \in 1..Len(secs) - n
<1>1. BootChain = [n \in 0..MaxSections |-> IF n = 0 THEN entry
                                           ELSE BootStep(BootChain[n - 1])]
  BY BootChainEq DEF CInv, TInv
<1>2. \A a : SectionAt(a) \in 0..Len(secs)
  BY SectionAtIsFirst, FirstSpec DEF CInv, TInv, RomInv
<1> DEFINE D == {n \in 0..MaxSections : ~R(n)}
<1>3. D = {}
  <2> SUFFICES ASSUME D # {} PROVE FALSE
    OBVIOUS
  <2>0. D \in SUBSET Nat
    BY PatcherAssumption
  <2>1. Min(D) \in D /\ \A y \in D : Min(D) <= y
    BY <2>0, MinNat
  <2>2. PICK m \in D : m = Min(D)
    BY <2>1
  <2>3. m \in 0..MaxSections /\ ~R(m)
    BY <2>2
  <2>4. CASE m = 0
    <3>1. BootChain[0] = entry
      BY <1>1, PatcherAssumption
    <3>2. entry \in TrojanLocs /\ SectionAt(entry) # 0 => SectionAt(entry) \in 1..Len(secs)
      BY TrojanAt DEF CInv, TInv
    <3>3. QED
      BY <2>3, <2>4, <3>1, <3>2 DEF CInv, GEntryInv
  <2>5. CASE m # 0
    <3>1. m - 1 \in 0..MaxSections /\ R(m - 1)
      <4>1. m - 1 \in 0..MaxSections
        BY <2>3, <2>5, PatcherAssumption
      <4>2. ASSUME ~R(m - 1) PROVE FALSE
        <5>1. m - 1 \in D
          BY <4>1, <4>2
        <5>2. m <= m - 1
          BY <2>1, <2>2, <5>1
        <5>3. QED
          BY <2>3, <5>2, PatcherAssumption
      <4>3. QED
        BY <4>1, <4>2
    <3>2. PICK a : a = BootChain[m - 1]
      OBVIOUS
    <3>3. BootChain[m] = BootStep(a)
      BY <1>1, <2>3, <2>5, <3>2, PatcherAssumption
    <3>4. \/ BootStep(a) = GameLoc
          \/ /\ BootStep(a) \in TrojanLocs
             /\ SectionAt(BootStep(a)) \in 1..SectionAt(a) - 1
      BY <3>1, <3>2, BootStepDown
    <3>5. a = GameLoc \/ SectionAt(a) <= Len(secs) - (m - 1)
      BY <3>1, <3>2
    <3>6. a = GameLoc => BootStep(a) = GameLoc
      BY BootStepCases, PatcherAssumption DEF CInv, TInv
    <3>7. QED
      BY <1>2, <2>3, <3>3, <3>4, <3>5, <3>6, PatcherAssumption
  <2>6. QED
    BY <2>4, <2>5
<1>4. QED
  BY <1>3

(* The console always boots through to the game, whatever trojan builds    *)
(* patched the ROM: the header enters at the game or at a trojan with a   *)
(* section, and each trojan jumps to the game or to a trojan whose first  *)
(* section comes earlier, because add_or_update_trojan keeps the old      *)
(* trojan's saved entrypoint and attach_trojan saves the current one; so  *)
(* the chain cannot loop and reaches the game within MaxSections jumps.   *)
THEOREM ChainsToGame == Spec => []EntryChainsToGame
<1>1. CInv => EntryChainsToGame
  <2> SUFFICES ASSUME CInv PROVE BootChain[MaxSections] = GameLoc
    BY DEF EntryChainsToGame
  <2>1. MaxSections \in 0..MaxSections /\ Len(secs) <= MaxSections
    BY PatcherAssumption DEF CInv, TInv, RomInv
  <2>2. QED
    BY <2>1, ChainDescends, PatcherAssumption
<1>2. QED
  BY <1>1, InitCInv, CInvStep, PTL DEF Spec

=============================================================================
