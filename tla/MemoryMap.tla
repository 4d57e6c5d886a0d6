------------------------------ MODULE MemoryMap ------------------------------
(* What RetroAchievements reads as the game's memory (src/src/Memory.cpp).   *)
(* The core describes its memory, rcheevos turns that into a list of         *)
(* regions, and Memory installs them as banks in the toolkit.  While the     *)
(* core has no memory to show, one deferred bank asks again as it is read.   *)
(* A byte is named by where it is: a block of the core and an offset.        *)
EXTENDS Integers, Sequences, FiniteSets, SequencesExt, FiniteSetsExt

CONSTANTS
  Maps,          \* bound: the lists of descriptors the core may show, each with
                 \* a length, or a block and the bits that select it
  Bits,          \* bound: the bits of an address, 0..n
  MaxBanks,      \* the banks that have functions of their own
  MaxAttempts,   \* how often a deferred bank asks again
  Reloads,       \* a game is only loaded into a core that was loaded for it
  Null           \* no block

VARIABLES
  shown,         \* the descriptors the core shows
  regions,       \* g_memoryRegions
  firstRegion,   \* g_memoryBankFirstRegion
  banks,         \* the toolkit's banks
  asked,         \* g_lastMemoryRefresh # 0
  attempts,      \* g_refreshAttempts
  active,        \* a game is being played
  known,         \* the descriptors when the core was last asked for them
  got            \* what the toolkit read last through a deferred bank

vars == <<shown, regions, firstRegion, banks, asked, attempts, active, known, got>>

Zero    == <<Null, 0>>
Nothing == [byte |-> Zero, right |-> Zero, holed |-> FALSE]

NoReader == -1       \* a bank of bytes that cannot be read
Asking   == -2       \* the bank of deferredMemoryRead

-----------------------------------------------------------------------------
(* Core::setMemoryMaps gives a descriptor without a length the one its       *)
(* select and disconnect bits leave room for.  A number is the set of its    *)
(* bits.                                                                     *)
Value(bits)   == FoldSet(LAMBDA b, sum : sum + 2^b, 0, bits)
FillBits(n)   == IF n = {} THEN {} ELSE 0..Max(n)
DropBit(v, b) == {c \in v : c < b} \cup {c - 1 : c \in {d \in v : d > b}}

(* Mutant: the mask is not shifted along with the bits it has removed.       *)
CollapseUnshifted(bits, mask) ==
  FoldLeft(LAMBDA v, b : DropBit(v, b), bits, SetToSortSeq(mask, <))

Collapse(bits, mask) ==
  LET f[v \in SUBSET Bits, m \in SUBSET Bits] ==
        IF m = {} THEN v
        ELSE LET b == Min(m) IN f[DropBit(v, b), {c - 1 : c \in m \ {b}}]
  IN f[bits, mask]

Length(d) ==
  IF d.ptr # Null /\ d.len = 0 /\ d.select # {}
    THEN Value(Collapse(FillBits(d.select) \ d.select, d.disconnect)) + 1
    ELSE d.len

(* rc_libretro_memory_init: one region for each descriptor.                  *)
Regions(map) == [i \in DOMAIN map |-> [data |-> map[i].ptr, size |-> Length(map[i])]]
HasValidRegion(rs) == \E i \in DOMAIN rs : rs[i].data # Null

TotalSize(rs) == FoldLeft(LAMBDA sum, r : sum + r.size, 0, rs)

-----------------------------------------------------------------------------
(* memoryRead and memoryReadBlock: from a bank's first region on, through    *)
(* all that follow, to the first that has no data.                           *)
MemoryRead(rs, addr, first) ==
  LET f[i \in Nat, a \in Nat] ==
        IF i > Len(rs) THEN Zero
        ELSE IF a < rs[i].size
          THEN IF rs[i].data = Null THEN Zero ELSE <<rs[i].data, a>>
          ELSE f[i + 1, a - rs[i].size]
  IN f[first, addr]

MemoryReadBlock(rs, addr, count, first) ==
  LET f[i \in Nat, a \in Int, n \in Nat] ==
        IF i > Len(rs) \/ n = 0 THEN <<>>
        ELSE IF a >= rs[i].size THEN f[i + 1, a - rs[i].size, n]
        ELSE IF rs[i].data = Null THEN <<>>
        ELSE LET avail == IF rs[i].size - a < n THEN rs[i].size - a ELSE n
             IN [j \in 1..avail |-> <<rs[i].data, a + j - 1>>]
                  \o f[i + 1, a + avail - rs[i].size, n - avail]
  IN f[first, addr, count]

-----------------------------------------------------------------------------
(* Memory::installMemoryBanks: neighbours that are all there, or all not,    *)
(* share a bank; the v-th bank that is there has the v-th reader.            *)
Valid(rs, i) == rs[i].data # Null
Starts(rs) == {i \in DOMAIN rs : i = 1 \/ Valid(rs, i) # Valid(rs, i - 1)}
End(rs, i) == LET later == {j \in Starts(rs) : j > i}
              IN IF later = {} THEN Len(rs) ELSE Min(later) - 1

Reader(rs, i) == Cardinality({j \in Starts(rs) : j < i /\ Valid(rs, j)})

Bank(rs, i) == [reader |-> IF Valid(rs, i) THEN Reader(rs, i) ELSE NoReader,
                size   |-> TotalSize(SubSeq(rs, i, End(rs, i)))]

Fits(rs) == Cardinality({i \in Starts(rs) : Valid(rs, i)}) <= MaxBanks

InstallMemoryBanks(rs) ==
  LET starts == SelectSeq(SetToSortSeq(Starts(rs), <),
                          LAMBDA i : ~Valid(rs, i) \/ Reader(rs, i) < MaxBanks)
  IN /\ banks' = [b \in DOMAIN starts |-> Bank(rs, starts[b])]
     /\ firstRegion' =
          [v \in 0..(MaxBanks - 1) |->
             LET mine == {i \in Starts(rs) : Valid(rs, i) /\ Reader(rs, i) = v}
             IN IF mine = {} THEN firstRegion[v] ELSE Min(mine)]

(* The parts of Memory::attachToCore: the banks, which may have been cleared *)
(* before, and when the core is asked again.  With nothing to show after     *)
(* there was something, the old banks stay.                                  *)
Attach(map, before) ==
  LET rs == Regions(map) IN
  /\ known' = map
  /\ regions' = rs
  /\ \/ rs = regions
        /\ banks' = before /\ UNCHANGED firstRegion
     \/ rs # regions /\ HasValidRegion(rs)
        /\ InstallMemoryBanks(rs)
     \/ /\ rs # regions /\ ~HasValidRegion(rs)
        /\ banks' = IF asked THEN before
                    ELSE <<[reader |-> Asking, size |-> TotalSize(rs)]>>
        /\ UNCHANGED firstRegion

AskLater(map) ==
  IF Regions(map) = regions \/ HasValidRegion(Regions(map)) \/ asked
    THEN UNCHANGED <<asked, attempts>>
    ELSE asked' = TRUE /\ attempts' = 0

AttachToCore(map, before) == Attach(map, before) /\ AskLater(map)

-----------------------------------------------------------------------------
(* Application::loadGame clears the banks before it asks the core.  Its menu *)
(* reloads the core first, which destroys the map, unless the user refused   *)
(* to give the old game up when first asked (see Frontend).                  *)
LoadGame(map) ==
  /\ ~active /\ (Reloads => regions = <<>>)
  /\ active' = TRUE /\ shown' = map /\ got' = Nothing
  /\ AttachToCore(map, <<>>)

UnloadGame ==
  /\ active /\ active' = FALSE
  /\ UNCHANGED <<shown, regions, firstRegion, banks, asked, attempts, known, got>>

(* Application::unloadCore calls Memory::destroy.                            *)
UnloadCore ==
  /\ ~active
  /\ regions' = <<>> /\ banks' = <<>> /\ asked' = FALSE /\ attempts' = 0
  /\ shown' = <<>> /\ known' = <<>>
  /\ UNCHANGED <<firstRegion, active, got>>

(* Core::setMemoryMaps in a game; a core may also have its memory elsewhere  *)
(* without a word.                                                           *)
SetMemoryMaps(map) ==
  /\ active
  /\ shown' = map /\ AttachToCore(map, banks)
  /\ UNCHANGED <<active, got>>

CoreMovesMemory(map) ==
  /\ active /\ shown' = map
  /\ UNCHANGED <<regions, firstRegion, banks, asked, attempts, active, known, got>>

(* Application::refreshMemoryMap, after a reset or the options dialog.       *)
RefreshMemoryMap ==
  /\ active /\ AttachToCore(shown, banks)
  /\ UNCHANGED <<shown, active, got>>

-----------------------------------------------------------------------------
(* What the toolkit finds at an address: it looks for the bank, and calls    *)
(* that bank's reader with the address in it.                                *)
Before(sizes, i) == FoldLeft(+, 0, SubSeq(sizes, 1, i - 1))
Holder(sizes, addr) ==
  CHOOSE i \in DOMAIN sizes : /\ Before(sizes, i) <= addr
                              /\ addr < Before(sizes, i) + sizes[i]
BankSizes == [b \in DOMAIN banks |-> banks[b].size]
Deferred  == banks # <<>> /\ banks[1].reader = Asking

ToolkitBlock(addr, n) ==
  IF addr >= Before(BankSizes, Len(banks) + 1) THEN <<>>
  ELSE LET b == Holder(BankSizes, addr)
       IN IF banks[b].reader = NoReader THEN <<>>
          ELSE MemoryReadBlock(regions, addr - Before(BankSizes, b), n,
                               firstRegion[banks[b].reader])
ToolkitByte(addr) ==
  IF addr >= Before(BankSizes, Len(banks) + 1) THEN Zero
  ELSE LET b == Holder(BankSizes, addr)
       IN IF banks[b].reader = NoReader THEN Zero
          ELSE MemoryRead(regions, addr - Before(BankSizes, b), firstRegion[banks[b].reader])

(* What is really there: each descriptor has a place for every value of the  *)
(* bits it leaves, the disconnected ones taken out.                          *)
Reach(d) ==
  IF d.len > 0 THEN d.len
  ELSE LET left   == FillBits(d.select) \ d.select
           Place(b) == Cardinality({c \in 0..(b - 1) : c \notin d.disconnect})
       IN 1 + Value({Place(b) : b \in left \ d.disconnect})
Reaches(map) == [i \in DOMAIN map |-> Reach(map[i])]
Extent(map)  == Before(Reaches(map), Len(map) + 1)
ByteAt(map, addr) ==
  IF addr >= Extent(map) THEN Zero
  ELSE LET i == Holder(Reaches(map), addr)
       IN IF map[i].ptr = Null THEN Zero
          ELSE <<map[i].ptr, addr - Before(Reaches(map), i)>>

(* deferredMemoryRead: too often, too early, or it asks and reads through    *)
(* the first reader.                                                         *)
ReadDeferred(addr) ==
  /\ active /\ Deferred /\ addr < banks[1].size
  /\ attempts < MaxAttempts
  /\ attempts' = attempts + 1
  /\ Attach(shown, banks)
  /\ got' = [byte  |-> MemoryRead(regions', addr, firstRegion'[0]),
             right |-> ByteAt(shown, addr),
             holed |-> shown # <<>> /\ shown[1].ptr = Null]
  /\ UNCHANGED <<shown, asked, active>>

-----------------------------------------------------------------------------
Init ==
  /\ shown = <<>> /\ regions = <<>> /\ known = <<>> /\ banks = <<>>
  /\ firstRegion = [v \in 0..(MaxBanks - 1) |-> 1]
  /\ asked = FALSE /\ attempts = 0 /\ active = FALSE /\ got = Nothing

Next ==
  \/ \E map \in Maps : LoadGame(map) \/ SetMemoryMaps(map) \/ CoreMovesMemory(map)
  \/ UnloadGame \/ UnloadCore \/ RefreshMemoryMap
  \/ \E addr \in 0..Max({0} \cup {Extent(map) : map \in Maps}) : ReadDeferred(addr)

Spec == Init /\ [][Next]_vars

-----------------------------------------------------------------------------
(* In a game, RetroAchievements reads at every address the byte the core     *)
(* showed when it was last asked, one by one and in blocks, whatever banks,  *)
(* attempts and other maps came before; unless the bank still asks.  What    *)
(* the bank that asks returns is that byte or zero, if the map does not      *)
(* begin with a hole.                                                        *)
FilledTo(map, addr, n) ==
  LET stops == {j \in 1..n : ByteAt(map, addr + j - 1) = Zero}
  IN [j \in 1..(IF stops = {} THEN n ELSE Min(stops) - 1) |-> ByteAt(map, addr + j - 1)]

BlocksAreRight ==
  \A addr \in 0..Extent(known), n \in 1..3 :
    ToolkitBlock(addr, n) = FilledTo(known, addr, n)
ReadsTheCore ==
  /\ active /\ ~Deferred /\ Fits(Regions(known)) =>
       /\ \A addr \in 0..Extent(known) : ToolkitByte(addr) = ByteAt(known, addr)
       /\ BlocksAreRight
  /\ got.holed \/ got.byte \in {Zero, got.right}
=============================================================================
