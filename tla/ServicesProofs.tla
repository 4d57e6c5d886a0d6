--------------------------- MODULE ServicesProofs ---------------------------
(* What parts around a running core promise, for every value of the          *)
(* constants Services leaves open: that nothing a core declared outlives it, *)
(* that the microphone is heard in order, that the program's start and end   *)
(* undo what was made, that the picture is drawn as it is, that messages     *)
(* are drawn as often as they should, and that the log shows its latest      *)
(* lines. Each part has an inductive invariant over its own variables; a     *)
(* lemma for each says that Services lets the part run as it does alone.     *)
EXTENDS Services, Totals, SequenceTheorems, FiniteSetTheorems, WellFoundedInduction, TLAPS

-----------------------------------------------------------------------------
(* The declarations of cores: Declarations.                                  *)

(* Beside the other parts the declarations run as they do alone.             *)
LEMMA CoreRuns == Spec => Core!Spec
<1>1. Init => Core!Init
  BY DEF Init
<1>2. [Next]_vars => [Core!Next]_(Core!vars)
  <2>1. ASSUME OthersStay, which # "core"  PROVE UNCHANGED Core!vars
    BY <2>1 DEF OthersStay, coreVars, Core!vars
  <2>2. ASSUME Next  PROVE Core!Next \/ UNCHANGED Core!vars
    BY <2>1, <2>2 DEF Next
  <2>3. UNCHANGED vars => UNCHANGED Core!vars
    BY DEF vars, coreVars, Core!vars
  <2>4. QED  BY <2>2, <2>3
<1>3. QED  BY <1>1, <1>2, PTL DEF Spec, Core!Spec

(* KeepsOnlyOwn and, so that a value can be set in it, that kept is a        *)
(* function on the items.                                                    *)
CoreInv == DOMAIN kept = Core!Items /\ Core!KeepsOnlyOwn

(* The items a declaration names are among those that are kept.              *)
LEMMA Kinds ==
  /\ \A i \in {"descriptors", "subsystems", "controllers", "ports",
               "descriptorsOfMemory", "override", "path", "samples", "names"} : i \in Core!Items
  /\ Core!Functions \cup Core!Values \cup {"updateDisplay", "diskControl", "keyboard"}
       \subseteq Core!Items
BY DEF Core!Items, Core!Copies, Core!Functions, Core!Values

(* What is declared now is the present core's.                               *)
LEMMA DeclaringKeeps ==
  ASSUME CoreInv, state # "closed", UNCHANGED <<state, load>>,
         NEW item \in Core!Items, NEW value, value = Undeclared \/ value.from = load,
         kept' = [kept EXCEPT ![item] = value]
  PROVE  CoreInv'
BY DEF CoreInv, Core!KeepsOnlyOwn

(* Core::reset leaves only what Config keeps, so it may happen anywhere.     *)
LEMMA ResetKeepsNothing ==
  ASSUME NEW k
  PROVE  /\ DOMAIN Core!Reset(k) = Core!Items
         /\ \A i \in Core!Items \ {"updateDisplay"} : Core!Reset(k)[i] = Undeclared
BY DEF Core!Reset

(* What is kept of a declaration is marked as the present core's.            *)
LEMMA OwnIsOfThisLoad ==
  ASSUME NEW n, NEW m
  PROVE  Core!Own(n, m).from = load
BY DEF Core!Own

(* Core::environmentCallback replaces what was kept of one kind, of two for  *)
(* setControllerInfo, by the present core's.                                 *)
LEMMA EnvironmentKeeps ==
  ASSUME CoreInv, Core!EnvironmentCallback
  PROVE  CoreInv'
<1>1. state # "closed" /\ UNCHANGED <<state, load>>
  BY DEF Core!EnvironmentCallback, Core!Unchanged
<1>2. ASSUME NEW n, NEW item \in {"descriptors", "subsystems"}, Core!SetList(item, n)
      PROVE  CoreInv'
  <2>1. PICK m : kept' = [kept EXCEPT ![item] = Core!Own(n, m)]
    BY <1>2 DEF Core!SetList
  <2>2. QED  BY <1>1, <2>1, OwnIsOfThisLoad, Kinds, DeclaringKeeps
<1>3. ASSUME NEW n, Core!SetControllerInfo(n)  PROVE CoreInv'
  <2>1. PICK one, two : kept' = [kept EXCEPT !["controllers"] = Core!Own(n, one),
                                            !["ports"] = Core!Own(n, two)]
    BY <1>3 DEF Core!SetControllerInfo
  <2>2. \A m : Core!Own(n, m).from = load  BY OwnIsOfThisLoad
  <2>3. QED  BY <1>1, <2>1, <2>2 DEF CoreInv, Core!KeepsOnlyOwn
<1>4. ASSUME NEW n, Core!SetMemoryMaps(n)  PROVE CoreInv'
  <2>1. PICK m : kept' = [kept EXCEPT !["descriptorsOfMemory"] = Core!Own(n, m)]
    BY <1>4 DEF Core!SetMemoryMaps
  <2>2. QED  BY <1>1, <2>1, OwnIsOfThisLoad, Kinds, DeclaringKeeps
<1>5. ASSUME NEW override, Core!SetContentInfoOverride(override)  PROVE CoreInv'
  <2>1. PICK value : /\ value = Undeclared \/ value.from = load
                     /\ kept' = [kept EXCEPT !["override"] = value]
    BY <1>5, OwnIsOfThisLoad DEF Core!SetContentInfoOverride
  <2>2. QED  BY <1>1, <2>1, Kinds, DeclaringKeeps
<1>6. ASSUME NEW item \in Core!Items, Core!SetValue(item) \/ Core!TakeBack(item)  PROVE CoreInv'
  <2>1. PICK value : /\ value = Undeclared \/ value.from = load
                     /\ kept' = [kept EXCEPT ![item] = value]
    BY <1>6, OwnIsOfThisLoad DEF Core!SetValue, Core!TakeBack
  <2>2. QED  BY <1>1, <2>1, DeclaringKeeps
<1>7. QED
  BY <1>2, <1>3, <1>4, <1>5, <1>6, Kinds DEF Core!EnvironmentCallback

(* Application::loadCore keeps only what it copied itself.                   *)
LEMMA LoadCoreKeeps ==
  ASSUME NEW opens \in BOOLEAN, NEW system, Core!LoadCore(opens, system)
  PROVE  CoreInv'
<1>1. /\ DOMAIN kept' = Core!Items
      /\ load' = load + 1
      /\ state' = IF opens THEN "core" ELSE "closed"
  BY DEF Core!LoadCore
<1>2. \A i \in Core!Items \ {"updateDisplay"} :
        \/ kept'[i] = Undeclared
        \/ /\ kept'[i].from = load'
           /\ opens \/ i \in {"path", "samples"}
  BY <1>1, ResetKeepsNothing DEF Core!LoadCore
<1>3. QED  BY <1>1, <1>2 DEF CoreInv, Core!KeepsOnlyOwn

(* A reset comes before a library is closed: when a core is unloaded, and    *)
(* when it refused its game.  So nothing outlives its core: KeepsOnlyOwn.    *)
THEOREM OnlyOwnIsKept == Spec => []KeepsOnlyOwn
<1>1. Core!Init => CoreInv
  BY DEF Core!Init, CoreInv, Core!KeepsOnlyOwn
<1>2. ASSUME CoreInv, [Core!Next]_(Core!vars)  PROVE CoreInv'
  <2>1. CASE Core!EnvironmentCallback
    BY <1>2, <2>1, EnvironmentKeeps
  <2>2. ASSUME NEW opens \in BOOLEAN, NEW system \in Systems, Core!LoadCore(opens, system)
        PROVE  CoreInv'
    BY <2>2, LoadCoreKeeps
  <2>3. ASSUME NEW ext \in Extensions, NEW zipped \in BOOLEAN, NEW accepts \in BOOLEAN,
               Core!LoadGame(ext, zipped, accepts)
        PROVE  CoreInv'
    <3>1. CASE accepts
      BY <1>2, <2>3, <3>1 DEF Core!LoadGame, CoreInv, Core!KeepsOnlyOwn
    <3>2. CASE ~accepts
      BY <2>3, <3>2, ResetKeepsNothing DEF Core!LoadGame, CoreInv, Core!KeepsOnlyOwn
    <3>3. QED  BY <3>1, <3>2
  <2>4. CASE Core!UnloadGame
    BY <1>2, <2>4 DEF Core!UnloadGame, CoreInv, Core!KeepsOnlyOwn
  <2>5. CASE Core!UnloadCore
    BY <2>5, ResetKeepsNothing DEF Core!UnloadCore, CoreInv, Core!KeepsOnlyOwn
  <2>6. CASE UNCHANGED Core!vars
    BY <1>2, <2>6 DEF Core!vars, CoreInv, Core!KeepsOnlyOwn
  <2>7. QED  BY <1>2, <2>1, <2>2, <2>3, <2>4, <2>5, <2>6 DEF Core!Next
<1>3. CoreInv => KeepsOnlyOwn
  BY DEF CoreInv, KeepsOnlyOwn
<1>4. QED  BY CoreRuns, <1>1, <1>2, <1>3, PTL DEF Core!Spec

-----------------------------------------------------------------------------
(* The microphone: Microphone.                                               *)

(* Samples in the order they were recorded; all of them after one and up to  *)
(* another; and samples that were recorded before others.                    *)
Rising(s) == \A i, j \in 1..Len(s) : i < j => s[i] < s[j]
Between(s, low, high) == \A i \in 1..Len(s) : low < s[i] /\ s[i] <= high
Before(s, t) == \A i \in 1..Len(s), j \in 1..Len(t) : s[i] < t[j]

(* No samples at all are in order.                                           *)
LEMMA SilenceIsOrdered ==
  /\ <<>> \in Seq(Int) /\ Len(<<>>) = 0 /\ Rising(<<>>)
  /\ \A low, high : Between(<<>>, low, high)
  /\ \A t : Before(<<>>, t)
BY DEF Rising, Between, Before

(* Samples put behind earlier ones stay in order.                            *)
LEMMA Joined ==
  ASSUME NEW s \in Seq(Int), NEW t \in Seq(Int), Rising(s), Rising(t), Before(s, t)
  PROVE  /\ s \o t \in Seq(Int) /\ Rising(s \o t)
         /\ \A low, high : Between(s, low, high) /\ Between(t, low, high)
              => Between(s \o t, low, high)
<1>1. /\ s \o t \in Seq(Int) /\ Len(s \o t) = Len(s) + Len(t)
      /\ \A i \in 1..Len(s \o t) : (s \o t)[i] = IF i <= Len(s) THEN s[i] ELSE t[i - Len(s)]
  OBVIOUS
<1>2. Rising(s \o t)
  <2>1. SUFFICES ASSUME NEW i \in 1..Len(s \o t), NEW j \in 1..Len(s \o t), i < j
                 PROVE  (s \o t)[i] < (s \o t)[j]
    BY DEF Rising
  <2>2. CASE j <= Len(s)
    BY <1>1, <2>1, <2>2 DEF Rising
  <2>3. CASE i > Len(s)
    <3>1. /\ i - Len(s) \in 1..Len(t) /\ j - Len(s) \in 1..Len(t)
          /\ i - Len(s) < j - Len(s) /\ j > Len(s)
      BY <1>1, <2>1, <2>3
    <3>2. t[i - Len(s)] < t[j - Len(s)]
      BY <3>1 DEF Rising
    <3>3. QED  BY <1>1, <2>1, <2>3, <3>1, <3>2
  <2>4. CASE i <= Len(s) /\ j > Len(s)
    BY <1>1, <2>1, <2>4 DEF Before
  <2>5. QED  BY <2>2, <2>3, <2>4
<1>3. \A low, high : Between(s, low, high) /\ Between(t, low, high) => Between(s \o t, low, high)
  BY <1>1 DEF Between
<1>4. QED  BY <1>1, <1>2, <1>3

(* Fifo::read takes the first samples: those and the rest are in order, and  *)
(* the rest came after those.                                                *)
LEMMA Part ==
  ASSUME NEW s \in Seq(Int), Rising(s), NEW k \in 0..Len(s)
  PROVE  /\ SubSeq(s, 1, k) \in Seq(Int) /\ Len(SubSeq(s, 1, k)) = k /\ Rising(SubSeq(s, 1, k))
         /\ \A low, high : Between(s, low, high) => Between(SubSeq(s, 1, k), low, high)
         /\ LET rest == SubSeq(s, k + 1, Len(s))
            IN /\ rest \in Seq(Int) /\ Len(rest) = Len(s) - k /\ Rising(rest)
               /\ \A low, high : Between(s, low, high) => Between(rest, low, high)
               /\ \A low, high : Between(s, low, high) /\ k > 0 => Between(rest, s[k], high)
               /\ \A t : Before(s, t) => Before(rest, t)
<1> DEFINE rest == SubSeq(s, k + 1, Len(s))
           start == SubSeq(s, 1, k)
<1>1. /\ start \in Seq(Int) /\ Len(start) = k
      /\ \A i \in 1..k : start[i] = s[i]
  OBVIOUS
<1>2. /\ rest \in Seq(Int) /\ Len(rest) = Len(s) - k
      /\ \A i \in 1..(Len(s) - k) : rest[i] = s[k + i]
  OBVIOUS
<1> HIDE DEF rest, start
<1>3. k \in Nat /\ Len(s) \in Nat /\ k <= Len(s)
  OBVIOUS
<1>4. \A i \in 1..Len(start) : i \in 1..Len(s) /\ start[i] = s[i]
  BY <1>1, <1>3
<1>5. \A i \in 1..Len(rest) : k + i \in 1..Len(s) /\ rest[i] = s[k + i]
  BY <1>2, <1>3
<1>6. Rising(start) /\ \A low, high : Between(s, low, high) => Between(start, low, high)
  BY <1>4 DEF Rising, Between
<1>7. \A low, high : Between(s, low, high) => Between(rest, low, high)
  BY <1>5 DEF Between
<1>8. Rising(rest)
  <2>1. SUFFICES ASSUME NEW i \in 1..Len(rest), NEW j \in 1..Len(rest), i < j
                 PROVE  rest[i] < rest[j]
    BY DEF Rising
  <2>2. k + i < k + j  BY <1>3, <1>2, <2>1
  <2>3. s[k + i] < s[k + j]  BY <1>5, <2>2 DEF Rising
  <2>4. QED  BY <1>5, <2>3
<1>9. \A t : Before(s, t) => Before(rest, t)
  BY <1>5 DEF Before
<1>10. ASSUME NEW low, NEW high, Between(s, low, high), k > 0
      PROVE  Between(rest, s[k], high)
  <2>1. k \in 1..Len(s)  BY <1>3, <1>10
  <2>2. ASSUME NEW i \in 1..Len(rest)  PROVE s[k] < rest[i] /\ rest[i] <= high
    <3>1. k + i \in 1..Len(s) /\ k < k + i  BY <1>3, <1>5, <1>2
    <3>2. s[k] < s[k + i]  BY <2>1, <3>1 DEF Rising
    <3>3. s[k + i] <= high  BY <1>10, <3>1 DEF Between
    <3>4. QED  BY <1>5, <3>2, <3>3
  <2>3. QED  BY <2>2 DEF Between
<1>11. QED  BY <1>1, <1>2, <1>6, <1>7, <1>8, <1>9, <1>10 DEF rest, start

(* What the Fifo or the callback holds, when the core heard as far as h, the *)
(* microphone was last turned off at o, and r samples were recorded.         *)
Sound(s, h, o, r) ==
  /\ s \in Seq(Int) /\ Rising(s)
  /\ Between(s, h, r) /\ Between(s, o, r)

(* The parts of Sound, for the steps that use them.                          *)
LEMMA SoundSplits ==
  ASSUME NEW s, NEW h, NEW o, NEW r, Sound(s, h, o, r)
  PROVE  s \in Seq(Int) /\ Rising(s) /\ Between(s, h, r) /\ Between(s, o, r)
BY DEF Sound

(* An emptied Fifo holds nothing that is out of order.                       *)
LEMMA SilenceIsSound == \A h, o, r : Sound(<<>>, h, o, r)
BY SilenceIsOrdered, Zenon DEF Sound

(* Fifo::write.                                                              *)
LEMMA SoundJoins ==
  ASSUME NEW s, NEW t, NEW h, NEW o, NEW r,
         Sound(s, h, o, r), Sound(t, h, o, r), Before(s, t)
  PROVE  Sound(s \o t, h, o, r)
<1>1. s \in Seq(Int) /\ Rising(s) /\ Between(s, h, r) /\ Between(s, o, r)
  BY SoundSplits
<1>2. t \in Seq(Int) /\ Rising(t) /\ Between(t, h, r) /\ Between(t, o, r)
  BY SoundSplits
<1>3. QED  BY <1>1, <1>2, Joined, Zenon DEF Sound

(* What Fifo::read takes.                                                    *)
LEMMA SoundBegins ==
  ASSUME NEW s, NEW h, NEW o, NEW r, Sound(s, h, o, r), NEW k \in 0..Len(s)
  PROVE  Sound(SubSeq(s, 1, k), h, o, r) /\ Len(SubSeq(s, 1, k)) = k
<1>1. s \in Seq(Int) /\ Rising(s) /\ Between(s, h, r) /\ Between(s, o, r)
  BY SoundSplits
<1>2. QED  BY <1>1, Part, Zenon DEF Sound

(* What Fifo::read leaves; what was taken counts as heard.                   *)
LEMMA SoundGoesOn ==
  ASSUME NEW s, NEW h, NEW o, NEW r, Sound(s, h, o, r), NEW k \in 0..Len(s)
  PROVE  LET rest == SubSeq(s, k + 1, Len(s))
         IN /\ Sound(rest, h, o, r) /\ Len(rest) = Len(s) - k
            /\ k > 0 => Sound(rest, s[k], o, r)
            /\ \A t : Before(s, t) => Before(rest, t)
<1>1. s \in Seq(Int) /\ Rising(s) /\ Between(s, h, r) /\ Between(s, o, r)
  BY SoundSplits
<1>2. QED  BY <1>1, Part, Zenon DEF Sound

(* Sound stays in order when more is recorded.                               *)
LEMMA SoundIsLasting ==
  ASSUME NEW s, NEW h, NEW o, NEW r \in Int, NEW q \in Int, Sound(s, h, o, r), r <= q
  PROVE  Sound(s, h, o, q)
<1>1. s \in Seq(Int) /\ Rising(s) /\ Between(s, h, r) /\ Between(s, o, r)
  BY SoundSplits
<1>2. \A i \in 1..Len(s) : s[i] \in Int
  BY <1>1
<1>3. Between(s, h, q) /\ Between(s, o, q)
  BY <1>1, <1>2 DEF Between
<1>4. QED  BY <1>1, <1>3, Zenon DEF Sound

(* What comes next.                                                          *)
Fresh(r, n) == [i \in 1..n |-> r + i]

(* What SDL records comes after all that was recorded before.                *)
LEMMA NewSound ==
  ASSUME NEW h \in Int, NEW o \in Int, NEW r \in Int, h <= r, o <= r, NEW n \in Nat
  PROVE  /\ Sound(Fresh(r, n), h, o, r + n) /\ Len(Fresh(r, n)) = n
         /\ \A s : Sound(s, h, o, r) => Before(s, Fresh(r, n))
<1> DEFINE new == Fresh(r, n)
<1>1. new \in Seq(Int) /\ Len(new) = n /\ \A i \in 1..n : new[i] = r + i
  BY DEF Fresh
<1> HIDE DEF new
<1>2. Rising(new) /\ Between(new, h, r + n) /\ Between(new, o, r + n)
  BY <1>1 DEF Rising, Between
<1>3. ASSUME NEW s, Sound(s, h, o, r)  PROVE Before(s, new)
  <2>1. s \in Seq(Int) /\ Between(s, h, r)
    BY <1>3, SoundSplits
  <2>2. \A i \in 1..Len(s) : s[i] \in Int /\ s[i] <= r
    BY <2>1 DEF Between
  <2>3. QED  BY <1>1, <2>2 DEF Before
<1>4. Sound(new, h, o, r + n)
  BY <1>1, <1>2, Zenon DEF Sound
<1>5. QED  BY <1>1, <1>3, <1>4 DEF new

(* The counters; the samples in the Fifo, of which nothing is known while it *)
(* is torn; what the callback has to write, which follows the Fifo's; the    *)
(* room it found for that, which is still there; and the core's call, which  *)
(* reads no more than the Fifo has, or had when it was emptied.              *)
Counted ==
  /\ recorded \in Nat /\ heard \in Nat /\ off \in Nat /\ have \in Nat /\ free \in Nat
  /\ heard <= recorded /\ off <= recorded
Expected == callback = [at |-> callback.at, out |-> callback.out, tries |-> callback.tries]
Held == Sound(fifo, heard, off, recorded) /\ (torn => fifo = <<>>)
Coming ==
  Mic!Busy => /\ open /\ Sound(callback.out, heard, off, recorded)
              /\ Before(fifo, callback.out)
Room ==
  ~torn => /\ free = FifoSize - Len(fifo)
           /\ callback.at = "writes" => Len(callback.out) <= free
Called ==
  /\ core # "idle" => open
  /\ ~torn /\ core = "reads" /\ have > Len(fifo) => late

MicInv == Counted /\ Expected /\ Held /\ Coming /\ Room /\ Called

(* No count of a whole Fifo reaches the end of a size_t.                     *)
LEMMA CountsFit ==
  /\ FifoSize \in Nat /\ SizeT \in Nat \ {0} /\ FifoSize < SizeT
  /\ \A x \in 0..FifoSize : x % SizeT = x
  /\ \A x \in Int : x % SizeT \in Nat
BY MicrophoneAssumption

(* Nothing was recorded when the program starts.                             *)
LEMMA MicInit == Mic!Init => MicInv
<1>1. ASSUME Mic!Init  PROVE MicInv
  <2>1. Sound(<<>>, 0, 0, 0)
    BY SilenceIsSound
  <2>2. callback.at = "idle" /\ Expected
    BY <1>1 DEF Mic!Init, Mic!Idle, Expected
  <2>3. QED  BY <1>1, <2>1, <2>2, SilenceIsOrdered, CountsFit
        DEF Mic!Init, MicInv, Mic!Busy, Counted, Held, Coming, Room, Called
<1>2. QED  BY <1>1

(* The invariant as facts with types.                                        *)
LEMMA Unfolded ==
  ASSUME MicInv
  PROVE  /\ recorded \in Nat /\ heard \in Nat /\ off \in Nat /\ have \in Nat /\ free \in Nat
         /\ heard <= recorded /\ off <= recorded
         /\ Sound(fifo, heard, off, recorded) /\ fifo \in Seq(Int) /\ Len(fifo) \in Nat
         /\ Mic!Busy => /\ open /\ Sound(callback.out, heard, off, recorded)
                        /\ callback.out \in Seq(Int) /\ Len(callback.out) \in Nat
                        /\ Before(fifo, callback.out)
<1>1. Counted /\ Held /\ Coming
  BY DEF MicInv
<1>2. Sound(fifo, heard, off, recorded)
  BY <1>1 DEF Held
<1>3. fifo \in Seq(Int)
  BY <1>2 DEF Sound
<1>4. ASSUME Mic!Busy
      PROVE  /\ open /\ Sound(callback.out, heard, off, recorded)
             /\ callback.out \in Seq(Int) /\ Len(callback.out) \in Nat
             /\ Before(fifo, callback.out)
  <2>1. open /\ Sound(callback.out, heard, off, recorded) /\ Before(fifo, callback.out)
    BY <1>1, <1>4 DEF Coming
  <2>2. callback.out \in Seq(Int)
    BY <2>1 DEF Sound
  <2>3. QED  BY <2>1, <2>2
<1>5. QED  BY <1>1, <1>2, <1>3, <1>4 DEF Counted

(* What the core is given comes from the Fifo, which is in order.            *)
LEMMA MicImplies == MicInv => Mic!HearsInOrder
<1>1. SUFFICES ASSUME MicInv, ~torn  PROVE Mic!HearsInOrder
  BY DEF Mic!HearsInOrder
<1>2. /\ Sound(fifo, heard, off, recorded) /\ fifo \in Seq(Int) /\ Len(fifo) \in Nat
      /\ heard \in Int /\ off \in Int /\ free \in Nat
  BY <1>1, Unfolded
<1>3. free = FifoSize - Len(fifo) /\ Len(fifo) <= FifoSize
  <2>1. free = FifoSize - Len(fifo)
    BY <1>1 DEF MicInv, Room
  <2>2. QED  BY <1>2, <2>1, CountsFit
<1>4. \A i \in 1..(Len(fifo) - 1) : fifo[i] < fifo[i + 1]
  BY <1>2 DEF Sound, Rising
<1>5. \A i \in 1..Len(fifo) : fifo[i] > heard /\ fifo[i] > off
  <2>1. Between(fifo, heard, recorded) /\ Between(fifo, off, recorded)
    BY <1>2 DEF Sound
  <2>2. QED  BY <1>2, <2>1 DEF Between
<1>6. ASSUME Mic!Busy, fifo # <<>>, callback.out # <<>>
      PROVE  callback.out[1] > Mic!Last(fifo)
  <2>1. callback.out \in Seq(Int) /\ Before(fifo, callback.out)
    BY <1>1, <1>6, Unfolded
  <2>2. Len(fifo) \in 1..Len(fifo) /\ 1 \in 1..Len(callback.out)
    BY <1>2, <1>6, <2>1
  <2>3. fifo[Len(fifo)] < callback.out[1] /\ fifo[Len(fifo)] \in Int /\ callback.out[1] \in Int
    BY <1>2, <2>1, <2>2 DEF Before
  <2>4. QED  BY <2>3 DEF Mic!Last
<1>7. core = "reads" /\ have > Len(fifo) => late
  BY <1>1 DEF MicInv, Called
<1>8. QED  BY <1>3, <1>4, <1>5, <1>6, <1>7 DEF Mic!HearsInOrder

(* What leaves the samples alone.                                            *)
LEMMA SamplesStay ==
  ASSUME MicInv, UNCHANGED <<fifo, free, torn, callback, recorded, heard, off>>, have' \in Nat,
         core' # "idle" \/ Mic!Busy => open',
         ~torn /\ core' = "reads" /\ have' > Len(fifo) => late'
  PROVE  MicInv'
<1>1. Counted'
  BY DEF MicInv, Counted
<1>2. Expected' /\ Held'
  BY DEF MicInv, Expected, Held
<1>3. Coming' /\ Room'
  BY DEF MicInv, Coming, Room, Mic!Busy
<1>4. Called'
  BY DEF Called
<1>5. QED  BY <1>1, <1>2, <1>3, <1>4 DEF MicInv

(* Opening, enabling, pausing and the core's question leave the samples      *)
(* alone.                                                                    *)
LEMMA QuietSteps ==
  ASSUME MicInv,
         \/ Mic!ResamplerFails \/ Mic!CloseMic \/ Mic!MicCloses \/ Mic!CloseNull
         \/ (\E on \in BOOLEAN : Mic!SetMicState(on)) \/ Mic!MicStarts
         \/ (\E n \in Requests : Mic!ReadMic(n)) \/ Mic!PauseApp \/ UNCHANGED Mic!vars
  PROVE  MicInv'
<1>1. have \in Nat /\ Called /\ (Mic!Busy => open) /\ Len(fifo) \in Nat /\ free \in Nat
  BY Unfolded DEF MicInv
<1>2. UNCHANGED <<fifo, free, torn, callback, recorded, heard, off>>
  BY DEF Mic!ResamplerFails, Mic!CloseMic, Mic!MicCloses, Mic!CloseNull, Mic!SetMicState,
         Mic!Begin, Mic!MicStarts, Mic!ReadMic, Mic!PauseApp, Mic!vars, Mic!micVars, Mic!ring
<1>3. ASSUME Mic!ResamplerFails \/ Mic!CloseNull \/ Mic!PauseApp \/ UNCHANGED Mic!vars
      PROVE  MicInv'
  <2>1. UNCHANGED <<open, core, have, late>>
    BY <1>3 DEF Mic!ResamplerFails, Mic!CloseNull, Mic!PauseApp, Mic!vars, Mic!reading
  <2>2. QED  BY <1>1, <1>2, <2>1, SamplesStay DEF Called
<1>4. ASSUME NEW call \in {"closes", "starts", "stops"}, Mic!Begin(call)  PROVE MicInv'
  <2>1. UNCHANGED <<open, have>> /\ open /\ core' # "reads"
    BY <1>4 DEF Mic!Begin, Mic!reading
  <2>2. QED  BY <1>1, <1>2, <2>1, SamplesStay
<1>5. ASSUME NEW n \in Requests, Mic!ReadMic(n)  PROVE MicInv'
  <2> DEFINE occupied == (FifoSize - free) % SizeT
  <2>1. n \in Nat /\ occupied \in Nat
    <3>1. FifoSize - free \in Int
      BY <1>1, CountsFit
    <3>2. QED  BY <3>1, CountsFit, MicrophoneAssumption
  <2>2. ~torn => occupied = Len(fifo)
    <3>1. ~torn => free = FifoSize - Len(fifo)
      BY DEF MicInv, Room
    <3>2. ~torn => FifoSize - free = Len(fifo) /\ Len(fifo) \in 0..FifoSize
      BY <1>1, <3>1, CountsFit
    <3>3. QED  BY <3>2, CountsFit
  <2>3. have' = IF occupied < n THEN occupied ELSE n
    BY <1>5 DEF Mic!ReadMic
  <2> HIDE DEF occupied
  <2>4. have' \in Nat /\ (~torn => ~(have' > Len(fifo)))
    BY <1>1, <2>1, <2>2, <2>3
  <2>5. open'
    BY <1>5 DEF Mic!ReadMic
  <2>6. QED  BY <1>2, <2>4, <2>5, SamplesStay
<1>6. ASSUME Mic!MicCloses \/ Mic!MicStarts  PROVE MicInv'
  <2>1. /\ ~Mic!Busy /\ core' = "idle" /\ UNCHANGED have
    BY <1>6 DEF Mic!MicCloses, Mic!MicStarts, Mic!reading
  <2>2. QED  BY <1>1, <1>2, <2>1, SamplesStay
<1>7. QED
  BY <1>3, <1>4, <1>5, <1>6 DEF Mic!CloseMic, Mic!SetMicState

(* What changes only what the callback is at or has to write.                *)
LEMMA CallbackMoves ==
  ASSUME MicInv, UNCHANGED <<open, fifo, free, torn, recorded, core, have, late, heard, off>>,
         NEW at, NEW out, NEW tries, callback' = [at |-> at, out |-> out, tries |-> tries],
         at # "idle" => open /\ Sound(out, heard, off, recorded) /\ Before(fifo, out),
         at = "writes" /\ ~torn => Len(out) <= free
  PROVE  MicInv'
<1>1. Counted' /\ Held' /\ Called'
  BY DEF MicInv, Counted, Held, Called
<1>2. callback'.at = at /\ callback'.out = out /\ Expected'
  BY DEF Expected
<1>3. Coming'
  BY <1>2 DEF Coming, Mic!Busy
<1>4. Room'
  BY <1>2 DEF MicInv, Room
<1>5. QED  BY <1>1, <1>2, <1>3, <1>4 DEF MicInv

(* The callback finds room for what was recorded, or waits.                  *)
LEMMA RecordCallbackKeeps ==
  ASSUME MicInv, NEW n \in Batches, Mic!RecordCallback(n)
  PROVE  MicInv'
<1> DEFINE new == Fresh(recorded, n)
<1>1. n \in Nat
  BY MicrophoneAssumption
<1>2. /\ recorded' = recorded + n /\ open
      /\ UNCHANGED <<open, fifo, free, torn, core, have, late, heard, off>>
      /\ \/ n <= free /\ callback' = [at |-> "writes", out |-> new, tries |-> 0]
         \/ callback' = [at |-> "waits", out |-> new, tries |-> MaxWait]
  BY DEF Mic!RecordCallback, Mic!New, Fresh, Mic!ring, Mic!reading
<1>3. /\ Sound(new, heard, off, recorded') /\ Len(new) = n
      /\ Before(fifo, new)
  <2>1. heard \in Int /\ off \in Int /\ recorded \in Int
    BY Unfolded
  <2>2. Sound(fifo, heard, off, recorded) /\ heard <= recorded /\ off <= recorded
    BY Unfolded
  <2>3. QED  BY <1>1, <1>2, <2>1, <2>2, NewSound, Zenon
<1> HIDE DEF new
<1>4. Sound(fifo, heard, off, recorded')
  <2>1. recorded' \in Int /\ recorded \in Int /\ recorded <= recorded'
    BY <1>1, <1>2, Unfolded
  <2>2. QED  BY <2>1, Unfolded, SoundIsLasting, Zenon
<1>5. Counted'
  BY <1>1, <1>2, Unfolded DEF Counted
<1>6. Held' /\ Called'
  BY <1>2, <1>4 DEF MicInv, Held, Called
<1>7. callback'.out = new /\ (callback'.at = "writes" => n <= free) /\ Expected'
  BY <1>2 DEF Expected
<1>8. Coming'
  BY <1>2, <1>3, <1>7 DEF Coming
<1>9. Room'
  BY <1>2, <1>3, <1>7 DEF MicInv, Room
<1>10. QED  BY <1>5, <1>6, <1>7, <1>8, <1>9 DEF MicInv

(* What the core has read is heard, and what is left came after it.          *)
LEMMA HeardGoesOn ==
  ASSUME MicInv, have \in 1..Len(fifo)
  PROVE  LET rest == SubSeq(fifo, have + 1, Len(fifo))
         IN /\ fifo[have] \in Nat /\ fifo[have] <= recorded
            /\ Sound(rest, fifo[have], off, recorded)
            /\ Mic!Busy => Sound(callback.out, fifo[have], off, recorded)
<1> DEFINE rest == SubSeq(fifo, have + 1, Len(fifo))
<1>1. /\ Sound(fifo, heard, off, recorded) /\ have \in 0..Len(fifo) /\ have > 0
      /\ heard \in Nat /\ recorded \in Nat
  BY Unfolded
<1> HIDE DEF rest
<1>2. Sound(rest, fifo[have], off, recorded)
  BY <1>1, SoundGoesOn, Zenon DEF rest
<1>3. fifo[have] \in Nat /\ fifo[have] <= recorded
  <2>1. fifo \in Seq(Int) /\ Between(fifo, heard, recorded)
    BY <1>1, SoundSplits
  <2>2. fifo[have] \in Int /\ heard < fifo[have] /\ fifo[have] <= recorded
    BY <2>1 DEF Between
  <2>3. QED  BY <1>1, <2>2
<1>4. ASSUME Mic!Busy  PROVE Sound(callback.out, fifo[have], off, recorded)
  <2>1. Sound(callback.out, heard, off, recorded) /\ Before(fifo, callback.out)
    BY <1>4, Unfolded
  <2>2. callback.out \in Seq(Int) /\ Rising(callback.out) /\ Between(callback.out, heard, recorded)
        /\ Between(callback.out, off, recorded)
    BY <2>1, SoundSplits
  <2>3. \A i \in 1..Len(callback.out) : fifo[have] < callback.out[i]
    BY <2>1 DEF Before
  <2>4. Between(callback.out, fifo[have], recorded)
    BY <2>2, <2>3 DEF Between
  <2>5. QED  BY <2>2, <2>4, Zenon DEF Sound
<1>5. QED  BY <1>2, <1>3, <1>4 DEF rest

(* Fifo::reset, whatever it met: the Fifo is empty and its count fits, or it *)
(* is known not to.                                                          *)
LEMMA FifoEmptied ==
  ASSUME MicInv, fifo' = <<>>, free' \in Nat, torn' \/ free' = FifoSize,
         UNCHANGED recorded, heard' \in Nat, heard' <= recorded,
         off' \in {off, recorded}, have' \in Nat,
         Expected', callback'.at # "writes",
         Mic!Busy' => open' /\ Sound(callback'.out, heard', off', recorded),
         core' # "idle" => open', core' = "reads" => torn' \/ late'
  PROVE  MicInv'
<1>1. Counted'
  BY Unfolded DEF Counted
<1>2. Held'
  BY SilenceIsSound DEF Held
<1>3. Coming'
  BY SilenceIsOrdered DEF Coming
<1>4. Room'
  <2>1. Len(<<>>) = 0 /\ FifoSize = FifoSize - 0
    BY CountsFit
  <2>2. QED  BY <2>1 DEF Room
<1>5. Called'
  BY DEF Called
<1>6. QED  BY <1>1, <1>2, <1>3, <1>4, <1>5 DEF MicInv

(* The callback gives up waiting and empties the Fifo, whatever the core is  *)
(* at.                                                                       *)
LEMMA ResetKeeps ==
  ASSUME MicInv, Mic!Busy, Mic!ResetAlone \/ Mic!ResetDuringRead,
         callback' = [at |-> "emptied", out |-> callback.out, tries |-> 0],
         UNCHANGED <<open, recorded, off>>
  PROVE  MicInv'
<1>1. /\ callback'.at = "emptied" /\ callback'.out = callback.out /\ Expected'
  BY DEF Expected
<1>2. /\ open /\ Sound(callback.out, heard, off, recorded)
      /\ heard \in Nat /\ heard <= recorded /\ have \in Nat /\ free \in Nat
  BY Unfolded
<1>3. CASE Mic!ResetAlone
  <2>1. /\ fifo' = <<>> /\ free' = FifoSize /\ UNCHANGED <<core, have, heard>>
        /\ late' = (core = "reads")
    BY <1>3 DEF Mic!ResetAlone
  <2>2. core' = "reads" => late'
    BY <2>1, Zenon
  <2>3. QED  BY <1>1, <1>2, <2>1, <2>2, CountsFit, FifoEmptied
<1>4. CASE Mic!ResetDuringRead
  <2>1. /\ fifo' = <<>> /\ core' = "idle" /\ have' = 0
        /\ free' \in {FifoSize, (FifoSize + have) % SizeT, (free + have) % SizeT}
        /\ torn' \in {TRUE, free' # FifoSize}
        /\ heard' = IF torn' \/ have \notin 1..Len(fifo) THEN heard ELSE fifo[have]
    BY <1>4 DEF Mic!ResetDuringRead
  <2>2. free' \in Nat
    BY <1>2, <2>1, CountsFit
  <2>3. torn' \/ free' = FifoSize
    BY <2>1, Zenon
  <2>4. CASE heard' = heard
    BY <1>1, <1>2, <2>1, <2>2, <2>3, <2>4, FifoEmptied
  <2>5. CASE have \in 1..Len(fifo) /\ heard' = fifo[have]
    <3>1. /\ fifo[have] \in Nat /\ fifo[have] <= recorded
          /\ Sound(callback.out, fifo[have], off, recorded)
      BY <2>5, HeardGoesOn
    <3>2. QED  BY <1>1, <1>2, <2>1, <2>2, <2>3, <2>5, <3>1, FifoEmptied
  <2>6. QED  BY <2>1, <2>4, <2>5
<1>5. QED  BY <1>3, <1>4

(* What a callback that looks in vain has left.                              *)
LEMMA Moved ==
  ASSUME Expected
  PROVE  [callback EXCEPT !.tries = @ - 1]
           = [at |-> callback.at, out |-> callback.out, tries |-> callback.tries - 1]
BY DEF Expected

(* When the callback looks again, it goes on, waits or empties the Fifo.     *)
LEMMA LookAgainKeeps ==
  ASSUME MicInv, Mic!LookAgain
  PROVE  MicInv'
<1> DEFINE out == callback.out
<1>1. callback.at = "waits" /\ Mic!Busy /\ Expected
  BY DEF Mic!LookAgain, Mic!Busy, MicInv
<1>2. open /\ Sound(out, heard, off, recorded) /\ Before(fifo, out)
  BY <1>1, Unfolded
<1>3. UNCHANGED <<open, recorded, off>>
  BY DEF Mic!LookAgain
<1>4. \/ /\ callback' = Mic!Idle
         /\ UNCHANGED <<fifo, free, torn, core, have, late, heard>>
      \/ /\ callback' = Mic!Writing /\ Len(out) <= free
         /\ UNCHANGED <<fifo, free, torn, core, have, late, heard>>
      \/ /\ callback' = [callback EXCEPT !.tries = @ - 1]
         /\ UNCHANGED <<fifo, free, torn, core, have, late, heard>>
      \/ /\ callback' = [at |-> "emptied", out |-> out, tries |-> 0]
         /\ Mic!ResetAlone \/ Mic!ResetDuringRead
  BY DEF Mic!LookAgain, Mic!ring, Mic!reading
<1>5. CASE callback' = Mic!Idle /\ UNCHANGED <<fifo, free, torn, core, have, late, heard>>
  BY <1>3, <1>5, CallbackMoves DEF Mic!Idle
<1>6. CASE /\ callback' = Mic!Writing /\ Len(out) <= free
           /\ UNCHANGED <<fifo, free, torn, core, have, late, heard>>
  BY <1>1, <1>2, <1>3, <1>6, CallbackMoves DEF Mic!Writing
<1>7. CASE /\ callback' = [callback EXCEPT !.tries = @ - 1]
           /\ UNCHANGED <<fifo, free, torn, core, have, late, heard>>
  BY <1>1, <1>2, <1>3, <1>7, Moved, CallbackMoves
<1>8. CASE /\ callback' = [at |-> "emptied", out |-> out, tries |-> 0]
           /\ Mic!ResetAlone \/ Mic!ResetDuringRead
  BY <1>1, <1>3, <1>8, ResetKeeps
<1>9. QED  BY <1>4, <1>5, <1>6, <1>7, <1>8

(* What is cut off came last.                                                *)
LEMMA CutToRoomKeeps ==
  ASSUME MicInv, Mic!CutToRoom
  PROVE  MicInv'
<1> DEFINE out == callback.out
           cut == IF Len(out) > free THEN SubSeq(out, 1, free) ELSE out
<1>1. Mic!Busy /\ Expected
  BY DEF Mic!CutToRoom, Mic!Busy, MicInv
<1>2. /\ open /\ Sound(out, heard, off, recorded) /\ out \in Seq(Int) /\ Len(out) \in Nat
      /\ Before(fifo, out) /\ free \in Nat /\ fifo \in Seq(Int)
  BY <1>1, Unfolded
<1>3. UNCHANGED <<open, fifo, free, torn, recorded, core, have, late, heard, off>>
  BY DEF Mic!CutToRoom, Mic!micVars, Mic!ring, Mic!reading
<1>4. callback' = [at |-> "writes", out |-> cut, tries |-> 0]
  <2>1. callback' = [Mic!Writing EXCEPT !.out = IF Len(@) > free THEN SubSeq(@, 1, free) ELSE @]
    BY DEF Mic!CutToRoom
  <2>2. Mic!Writing = [at |-> "writes", out |-> out, tries |-> 0]
    BY DEF Mic!Writing
  <2>3. QED  BY <2>1, <2>2
<1>5. Sound(cut, heard, off, recorded) /\ Before(fifo, cut) /\ Len(cut) <= free
  <2>1. CASE Len(out) > free
    <3>1. free \in 0..Len(out)
      BY <1>2, <2>1
    <3> HIDE DEF out
    <3>2. Sound(SubSeq(out, 1, free), heard, off, recorded) /\ Len(SubSeq(out, 1, free)) = free
      BY <1>2, <3>1, SoundBegins
    <3>3. \A i \in 1..free : i \in 1..Len(out) /\ SubSeq(out, 1, free)[i] = out[i]
      BY <1>2, <3>1
    <3>4. Before(fifo, SubSeq(out, 1, free))
      BY <1>2, <3>2, <3>3 DEF Before
    <3>5. QED  BY <1>2, <2>1, <3>2, <3>4
  <2>2. CASE ~(Len(out) > free)
    BY <1>2, <2>2
  <2>3. QED  BY <2>1, <2>2
<1> HIDE DEF cut
<1>6. QED  BY <1>2, <1>3, <1>4, <1>5, CallbackMoves

(* The room the callback found is there when it writes.                      *)
LEMMA WriteOutKeeps ==
  ASSUME MicInv, Mic!WriteOut
  PROVE  MicInv'
<1> DEFINE out == callback.out
<1>1. /\ Mic!Busy /\ callback.at = "writes" /\ callback' = Mic!Idle
      /\ free' = (free - Len(out)) % SizeT
      /\ fifo' = IF torn THEN <<>> ELSE fifo \o out
      /\ UNCHANGED <<open, torn, recorded, core, have, late, heard, off>>
  BY DEF Mic!WriteOut, Mic!Busy, Mic!reading
<1>2. /\ Sound(out, heard, off, recorded) /\ out \in Seq(Int) /\ Len(out) \in Nat
      /\ Before(fifo, out) /\ free \in Nat /\ fifo \in Seq(Int) /\ Len(fifo) \in Nat
      /\ Sound(fifo, heard, off, recorded)
  BY <1>1, Unfolded
<1>3. Expected' /\ Coming' /\ callback'.at = "idle"
  BY <1>1 DEF Mic!Idle, Expected, Coming, Mic!Busy
<1> HIDE DEF out
<1>4. Counted'
  <2>1. free' \in Nat
    <3>1. free - Len(out) \in Int
      BY <1>2
    <3>2. QED  BY <1>1, <3>1, CountsFit
  <2>2. QED  BY <1>1, <2>1, Unfolded DEF Counted
<1>5. CASE torn
  <2>1. Held' /\ Room' /\ Called'
    BY <1>1, <1>5, SilenceIsSound DEF MicInv, Held, Room, Called
  <2>2. QED  BY <1>3, <1>4, <2>1 DEF MicInv
<1>6. CASE ~torn
  <2>1. fifo' = fifo \o out
    BY <1>1, <1>6
  <2>2. Sound(fifo', heard, off, recorded)
    BY <1>2, <2>1, SoundJoins, Zenon
  <2>3. Len(fifo') = Len(fifo) + Len(out)
    BY <1>2, <2>1, ConcatProperties
  <2>4. free = FifoSize - Len(fifo) /\ Len(out) <= free
    BY <1>1, <1>6 DEF MicInv, Room, out
  <2>5. free - Len(out) \in 0..FifoSize
    BY <1>2, <2>4, CountsFit
  <2>6. free' = free - Len(out)
    BY <1>1, <2>5, CountsFit
  <2>7. free' = FifoSize - Len(fifo')
    BY <1>2, <2>3, <2>4, <2>6, CountsFit
  <2>8. Held'
    BY <1>1, <1>6, <2>2 DEF Held
  <2>9. Room'
    BY <1>3, <2>7 DEF Room
  <2>10. Called'
    <3>1. have > Len(fifo') => have > Len(fifo)
      BY <1>2, <2>3, Unfolded
    <3>2. QED  BY <1>1, <1>6, <3>1 DEF MicInv, Called
  <2>11. QED  BY <1>3, <1>4, <2>8, <2>9, <2>10 DEF MicInv
<1>7. QED  BY <1>5, <1>6

(* The steps that empty the Fifo while nobody writes it.                     *)
LEMMA EmptyingSteps ==
  ASSUME MicInv, Mic!OpenMic \/ Mic!MicStops
  PROVE  MicInv'
<1>1. /\ heard \in Nat /\ heard <= recorded /\ have \in Nat /\ Expected /\ (Mic!Busy => open)
      /\ (core # "idle" => open)
  BY Unfolded DEF MicInv, Called
<1>2. /\ ~Mic!Busy /\ core' = "idle" /\ UNCHANGED <<callback, recorded, have, heard>>
  BY <1>1 DEF Mic!OpenMic, Mic!MicStops, Mic!reading
<1>3. Expected' /\ ~Mic!Busy' /\ callback'.at # "writes"
  BY <1>1, <1>2 DEF Expected, Mic!Busy
<1>4. CASE Mic!Emptied /\ off' = recorded
  <2>1. fifo' = <<>> /\ free' = FifoSize /\ FifoSize \in Nat
    BY <1>4, CountsFit DEF Mic!Emptied
  <2>2. QED  BY <1>1, <1>2, <1>3, <1>4, <2>1, FifoEmptied
<1>5. CASE UNCHANGED <<fifo, free, torn, off>>
  BY <1>1, <1>2, <1>5, SamplesStay
<1>6. QED  BY <1>4, <1>5 DEF Mic!OpenMic, Mic!MicStops, Mic!ring

(* The core's read takes what the Fifo had when it was asked, or tears it.   *)
LEMMA MicReadsKeeps ==
  ASSUME MicInv, Mic!MicReads
  PROVE  MicInv'
<1> DEFINE rest == SubSeq(fifo, have + 1, Len(fifo))
<1>1. /\ core' = "idle" /\ have' = 0 /\ open
      /\ free' = (free + have) % SizeT
      /\ torn' = (torn \/ have > Len(fifo))
      /\ torn' => fifo' = <<>> /\ UNCHANGED heard
      /\ ~torn' => fifo' = rest /\ heard' = IF have = 0 THEN heard ELSE fifo[have]
      /\ UNCHANGED <<open, callback, recorded, off>>
  BY DEF Mic!MicReads, MicInv, Called
<1>2. /\ have \in Nat /\ free \in Nat /\ Len(fifo) \in Nat /\ heard \in Nat /\ heard <= recorded
      /\ Sound(fifo, heard, off, recorded)
      /\ recorded \in Nat /\ off \in Nat /\ off <= recorded
  BY Unfolded
<1>3. free' \in Nat
  <2>1. free + have \in Int
    BY <1>2
  <2>2. QED  BY <1>1, <2>1, CountsFit
<1>4. Expected' /\ Called'
  BY <1>1 DEF MicInv, Expected, Called
<1> HIDE DEF rest
<1>5. CASE torn'
  <2>1. Counted' /\ Held'
    BY <1>1, <1>2, <1>3, <1>5, SilenceIsSound DEF Counted, Held
  <2>2. Coming'
    BY <1>1, <1>5, SilenceIsOrdered, Unfolded DEF Coming, Mic!Busy
  <2>3. Room'
    BY <1>5 DEF Room
  <2>4. QED  BY <1>4, <2>1, <2>2, <2>3 DEF MicInv
<1>6. CASE ~torn'
  <2>1. ~torn /\ ~(have > Len(fifo))
    BY <1>1, <1>6
  <2>2. have \in 0..Len(fifo)
    BY <1>2, <2>1
  <2>3. /\ Sound(rest, heard, off, recorded) /\ Len(rest) = Len(fifo) - have
        /\ \A t : Before(fifo, t) => Before(rest, t)
    BY <1>2, <2>2, SoundGoesOn, Zenon DEF rest
  <2>4. /\ heard' \in Nat /\ heard' <= recorded /\ Sound(rest, heard', off, recorded)
        /\ Mic!Busy => Sound(callback.out, heard', off, recorded)
    <3>1. CASE have = 0
      BY <1>1, <1>2, <1>6, <2>3, <3>1, Unfolded
    <3>2. CASE have # 0
      <4>1. have \in 1..Len(fifo)
        BY <2>2, <3>2
      <4>2. heard' = fifo[have]
        BY <1>1, <1>6, <3>2
      <4>3. QED  BY <4>1, <4>2, HeardGoesOn DEF rest
    <3>3. QED  BY <3>1, <3>2
  <2>5. fifo' = rest
    BY <1>1, <1>6
  <2>6. Counted' /\ Held'
    BY <1>1, <1>2, <1>3, <1>6, <2>4, <2>5 DEF Counted, Held
  <2>7. Coming'
    BY <1>1, <2>3, <2>4, <2>5, Unfolded DEF Coming, Mic!Busy
  <2>8. free' = FifoSize - Len(fifo')
    <3>1. free = FifoSize - Len(fifo)
      BY <2>1 DEF MicInv, Room
    <3>2. free + have \in 0..FifoSize /\ free + have = FifoSize - (Len(fifo) - have)
      BY <1>2, <2>2, <3>1, CountsFit
    <3>3. QED  BY <1>1, <2>3, <2>5, <3>2, CountsFit
  <2>9. Room'
    <3>1. free <= free'
      <4>1. free = FifoSize - Len(fifo)
        BY <2>1 DEF MicInv, Room
      <4>2. QED  BY <1>2, <2>2, <2>3, <2>5, <2>8, <4>1, CountsFit
    <3>2. callback.at = "writes" => Len(callback.out) <= free
      BY <2>1 DEF MicInv, Room
    <3>3. callback.at = "writes" => Len(callback.out) \in Nat
      BY Unfolded DEF Mic!Busy
    <3>4. QED  BY <1>1, <1>2, <1>3, <2>8, <3>1, <3>2, <3>3 DEF Room
  <2>10. QED  BY <1>4, <2>6, <2>7, <2>9 DEF MicInv
<1>7. QED  BY <1>5, <1>6

(* Beside the other parts the microphone runs as it does alone.              *)
LEMMA MicRuns == Spec => Mic!Init /\ [][Mic!Next]_(Mic!vars)
<1>1. Init => Mic!Init
  BY DEF Init
<1>2. [Next]_vars => [Mic!Next]_(Mic!vars)
  <2>1. ASSUME OthersStay, which # "microphone"  PROVE UNCHANGED Mic!vars
    BY <2>1 DEF OthersStay, micVars, Mic!vars, Mic!ring, Mic!reading
  <2>2. ASSUME Next  PROVE Mic!Next \/ UNCHANGED Mic!vars
    BY <2>1, <2>2 DEF Next
  <2>3. UNCHANGED vars => UNCHANGED Mic!vars
    BY DEF vars, micVars, Mic!vars, Mic!ring, Mic!reading
  <2>4. QED  BY <2>2, <2>3
<1>3. QED  BY <1>1, <1>2, PTL DEF Spec

(* HearsInOrder: what the core hears of the microphone is in the order SDL   *)
(* recorded it, without what was recorded before it was last turned off, and *)
(* is there when it is read unless the Fifo was emptied since the core       *)
(* looked, whatever the Fifo's size, the batches SDL records and the numbers *)
(* the core asks for; until a reset, which takes no mutex, meets a read, and *)
(* again after the next that meets none.                                     *)
THEOREM MicrophoneHears == Spec => []HearsInOrder
<1>1. ASSUME MicInv, [Mic!Next]_(Mic!vars)  PROVE MicInv'
  <2>1. ASSUME NEW n \in Batches, Mic!RecordCallback(n)  PROVE MicInv'
    BY <1>1, <2>1, RecordCallbackKeeps
  <2>2. CASE Mic!CallbackGoesOn
    BY <1>1, <2>2, LookAgainKeeps, CutToRoomKeeps, WriteOutKeeps DEF Mic!CallbackGoesOn
  <2>3. CASE Mic!OpenMic \/ Mic!MicStops
    BY <1>1, <2>3, EmptyingSteps
  <2>4. CASE Mic!MicReads
    BY <1>1, <2>4, MicReadsKeeps
  <2>5. QED
    BY <1>1, <2>1, <2>2, <2>3, <2>4, QuietSteps DEF Mic!Next, Mic!CoreNext
<1>2. MicInv => HearsInOrder
  BY MicImplies DEF HearsInOrder
<1>3. QED  BY <1>1, <1>2, MicInit, MicRuns, PTL

-----------------------------------------------------------------------------
(* The start and the end of the program: Startup.                            *)

All == {"logger", "sdl", "library", "window", "device", "fifo", "input", "video"}
(* What stands when each step of Application::init begins.                   *)
Standing ==
  <<{}, {"logger"}, {"logger"}, {"logger"}, {"logger", "sdl"}, {"logger", "sdl"},
    {"logger", "sdl", "library"},
    {"logger", "sdl", "library", "window"}, {"logger", "sdl", "library", "window"},
    {"logger", "sdl", "library", "window", "device"},
    All \ {"input", "video"}, All \ {"input", "video"},
    All \ {"video"}, All \ {"video"}, All \ {"video"}, All, All>>

(* The case the error path begins with when that step fails.                 *)
Entered == <<14, 13, 12, 11, 10, 9, 9, 9, 8, 7, 6, 5, 4, 3, 2, 1>>

(* What the cases from one on expect to find; SDL takes the library along.   *)
Expects ==
  <<All \ {"library"},
    All \ {"library", "video"}, All \ {"library", "video"}, All \ {"library", "video"},
    All \ {"library", "video", "input"}, All \ {"library", "video", "input"},
    {"logger", "sdl", "window", "device"}, {"logger", "sdl", "window"},
    {"logger", "sdl"}, {"logger", "sdl"}, {"logger"}, {"logger"}, {"logger"}, {}>>

(* What stands when each step of Application::destroy begins, the first of   *)
(* which saves.                                                              *)
Remaining ==
  <<All, All, All \ {"video"}, All \ {"video"},
    All \ {"video", "input"}, All \ {"video", "input"}, All \ {"video", "input"}, All \ {"video", "input"},
    {"logger", "sdl", "library", "window", "device"},
    {"logger", "sdl", "library", "window"}, {"logger", "sdl", "library"},
    {"logger"}, {"logger"}, {}>>

(* A step that makes nothing that has to be undone adds nothing.             *)
With(part) == IF Program!Holds(part) THEN {part} ELSE {}

(* Each step of Application::init adds its part.                             *)
LEMMA StepsStand ==
  \A i \in 1..16 : Standing[i] \cup With(Program!Steps[i].part) = Standing[i + 1]
<1>1. SUFFICES ASSUME NEW i \in 1..16
               PROVE  Standing[i] \cup With(Program!Steps[i].part) = Standing[i + 1]
  OBVIOUS
<1>2. QED
  BY DEF Standing, With, Program!Steps, Program!Holds, Program!Made, All

(* The cases of the error path have different labels, so that each is the    *)
(* one its label finds.                                                      *)
LEMMA CaseIs ==
  \A i \in 1..14 : Program!Case(Program!Undo[i].of) = i
BY DEF Program!Case, Program!Undo, Program!CaseOf

(* How many steps there are.                                                 *)
LEMMA StepsAreEnough == Len(Program!Steps) = 16 /\ Len(Program!Undo) = 14 /\ Len(Program!Order) = 13
BY DEF Program!Steps, Program!Undo, Program!Order

(* What inited holds when a step fails leads to the case that undoes what    *)
(* stands, and to none of what does not.                                     *)
LEMMA FailuresEnter ==
  /\ \A i \in 1..16 : /\ Entered[i] \in 1..14
                      /\ Expects[Entered[i]] \subseteq Standing[i]
                      /\ Standing[i] \subseteq Expects[Entered[i]] \cup Program!OfSdl
                      /\ Standing[i] \cap Program!OfSdl # {} => Entered[i] <= 10
  /\ \A i \in 1..15 : Program!Undo[Entered[i + 1]].of = Program!Steps[i].notes
  /\ Program!Undo[Entered[1]].of = "kNothingInited"
<1>1. Entered[1] = 14 /\ \A i \in 1..16 : Entered[i] \in 1..14
  BY DEF Entered
<1>2. ASSUME NEW i \in 1..16
      PROVE  /\ Expects[Entered[i]] \subseteq Standing[i]
             /\ Standing[i] \subseteq Expects[Entered[i]] \cup Program!OfSdl
             /\ Standing[i] \cap Program!OfSdl # {} => Entered[i] <= 10
  BY DEF Entered, Standing, Expects, All, Program!OfSdl
<1>3. \A i \in 1..15 : Program!Undo[Entered[i + 1]].of = Program!Steps[i].notes
  BY DEF Entered, Program!Undo, Program!Steps, Program!CaseOf, Program!Made
<1>4. Program!Undo[14].of = "kNothingInited"
  BY DEF Program!Undo, Program!CaseOf
<1>5. QED  BY <1>1, <1>2, <1>3, <1>4

(* What goes with parts that are destroyed, and which of them hold           *)
(* something.                                                                *)
Gone(parts) == parts \cup (IF "sdl" \in parts THEN Program!OfSdl ELSE {})
Holding(parts) == {p \in parts : Program!Holds(p)}

(* The parts of short lists.                                                 *)
LEMMA SetsOfFew ==
  /\ Program!ToSet(<<>>) = {}
  /\ \A a : Program!ToSet(<<a>>) = {a}
  /\ \A a, b : Program!ToSet(<<a, b>>) = {a, b}
BY DEF Program!ToSet

(* What each case of the error path destroys.                                *)
UndoParts ==
  <<{"video"}, {}, {"context"}, {"input"}, {"audio"}, {"fifo"}, {"microphone", "device"},
    {"window"}, {"keybinds"}, {"sdl"}, {"allocator"}, {"config"}, {"logger"}, {}>>

(* The table of those parts is the code's.                                   *)
LEMMA UndoPartsAre == \A i \in 1..14 : Program!ToSet(Program!Undo[i].parts) = UndoParts[i]
<1>1. SUFFICES ASSUME NEW i \in 1..14
               PROVE  Program!ToSet(Program!Undo[i].parts) = UndoParts[i]
  OBVIOUS
<1>2. CASE i \in {2, 14}
  <2>1. Program!Undo[i].parts = <<>> /\ UndoParts[i] = {}
    BY <1>2 DEF Program!Undo, Program!CaseOf, UndoParts
  <2>2. QED  BY <2>1, SetsOfFew
<1>3. CASE i = 7
  <2>1. Program!Undo[i].parts = <<"microphone", "device">> /\ UndoParts[i] = {"microphone", "device"}
    BY <1>3 DEF Program!Undo, Program!CaseOf, UndoParts
  <2>2. QED  BY <2>1, SetsOfFew
<1>4. CASE i \notin {2, 7, 14}
  <2>1. PICK a : Program!Undo[i].parts = <<a>> /\ UndoParts[i] = {a}
    <3>1. Program!Undo[i].parts = <<Program!Undo[i].parts[1]>> /\ UndoParts[i] = {Program!Undo[i].parts[1]}
      BY <1>4 DEF Program!Undo, Program!CaseOf, UndoParts
    <3>2. QED  BY <3>1
  <2>2. QED  BY <2>1, SetsOfFew
<1>5. QED  BY <1>2, <1>3, <1>4

(* Each case finds the parts it destroys and leaves those the next expects.  *)
LEMMA UndoingMeets ==
  \A i \in 1..14 :
    /\ Holding(UndoParts[i]) \subseteq Expects[i]
    /\ i < 14 => Expects[i] \ Gone(UndoParts[i]) = Expects[i + 1]
    /\ i = 10 => Program!OfSdl \subseteq Gone(UndoParts[i])
    /\ i = 14 => Expects[i] = {}
<1>1. SUFFICES ASSUME NEW i \in 1..14
      PROVE  /\ Holding(UndoParts[i]) \subseteq Expects[i]
             /\ i < 14 => Expects[i] \ Gone(UndoParts[i]) = Expects[i + 1]
             /\ i = 10 => Program!OfSdl \subseteq Gone(UndoParts[i])
             /\ i = 14 => Expects[i] = {}
  OBVIOUS
<1>2. QED
  BY DEF Holding, Gone, UndoParts, Expects, Program!OfSdl, Program!Holds, All

(* So does each step of Application::destroy.                                *)
LEMMA DestroyingMeets ==
  \A i \in 1..13 :
    /\ i # 1 => Program!Order[i] # "save" /\ Holding({Program!Order[i]}) \subseteq Remaining[i]
    /\ i # 1 => Remaining[i] \ Gone({Program!Order[i]}) = Remaining[i + 1]
<1>1. SUFFICES ASSUME NEW i \in 1..13, i # 1
      PROVE  /\ Program!Order[i] # "save" /\ Holding({Program!Order[i]}) \subseteq Remaining[i]
             /\ Remaining[i] \ Gone({Program!Order[i]}) = Remaining[i + 1]
  OBVIOUS
<1>2. Program!Order[i] # "save" /\ Holding({Program!Order[i]}) \subseteq Remaining[i]
  BY <1>1 DEF Holding, Program!Order, Remaining, Program!Holds, All
<1>3. CASE i = 11
  <2>1. /\ Program!Order[11] = "sdl" /\ Remaining[11] = {"logger", "sdl", "library"}
        /\ Remaining[12] = {"logger"}
    BY DEF Program!Order, Remaining
  <2>2. Gone({"sdl"}) = {"sdl", "window", "device", "library"}
    BY DEF Gone, Program!OfSdl
  <2>3. QED  BY <1>2, <1>3, <2>1, <2>2
<1>4. CASE i # 11
  <2>1. Program!Order[i] # "sdl"
    BY <1>1, <1>4 DEF Program!Order
  <2>2. Remaining[i] \ {Program!Order[i]} = Remaining[i + 1]
    <3>1. CASE i \in {2, 3, 4}
      BY <3>1 DEF Program!Order, Remaining, All
    <3>2. CASE i \in {5, 6, 7}
      BY <3>2 DEF Program!Order, Remaining, All
    <3>3. CASE i \in {8, 9, 10}
      BY <3>3 DEF Program!Order, Remaining, All
    <3>4. CASE i \in {12, 13}
      BY <3>4 DEF Program!Order, Remaining, All
    <3>5. QED  BY <1>1, <1>4, <3>1, <3>2, <3>3, <3>4
  <2>3. Gone({Program!Order[i]}) = {Program!Order[i]}
    BY <2>1 DEF Gone
  <2>4. QED  BY <1>2, <2>2, <2>3
<1>5. QED  BY <1>2, <1>3, <1>4

(* What stands in each phase is what the tables say.                         *)
ProgramInv ==
  /\ phase \in {"init", "undo", "arguments", "run", "destroy", "ended"}
  /\ phase = "init" =>
       /\ step \in 1..16 /\ there = Standing[step] /\ inited = Program!Undo[Entered[step]].of
       /\ ~game /\ ok /\ ending = "none" /\ misused = {}
  /\ phase = "undo" =>
       /\ step \in 1..14 /\ Expects[step] \subseteq there
       /\ there \subseteq Expects[step] \cup Program!OfSdl
       /\ there \cap Program!OfSdl # {} => step <= 10
       /\ ~game /\ ~ok /\ ending = "failed" /\ misused = {}
  /\ phase = "arguments" =>
       /\ there = (IF ok THEN All ELSE {}) /\ ending = (IF ok THEN "none" ELSE "failed")
       /\ ~game /\ misused = {}
  /\ phase = "run" => ok /\ there = All /\ ending = "none" /\ misused = {}
  /\ phase = "destroy" =>
       /\ step \in 1..13 /\ there = Remaining[step] /\ (step > 1 => saved)
       /\ ok /\ ending \in {"quit", "exception"}
       /\ ending = "quit" => ~game /\ misused = {}
  /\ phase = "ended" => Program!EndsClean

(* Nothing stands before the first step.                                     *)
LEMMA ProgramInit == Program!Init => ProgramInv
<1>1. Entered[1] \in 1..14 /\ Program!Undo[Entered[1]].of = "kNothingInited"
  BY FailuresEnter
<1>2. Standing[1] = {}
  BY DEF Standing
<1>3. QED  BY <1>1, <1>2 DEF Program!Init, ProgramInv

(* A step of Application::init makes its part or enters the error path.      *)
LEMMA InitStepKeeps ==
  ASSUME ProgramInv, Program!InitStep
  PROVE  ProgramInv'
<1>1. /\ phase = "init" /\ step \in 1..16 /\ there = Standing[step]
      /\ inited = Program!Undo[Entered[step]].of
      /\ ~game /\ ok /\ ending = "none" /\ misused = {}
  BY DEF ProgramInv, Program!InitStep
<1>2. UNCHANGED <<game, saved, misused>>
  BY DEF Program!InitStep
<1>3. ASSUME there' = there \cup With(Program!Steps[step].part),
             inited' = Program!Steps[step].notes,
             phase' = IF step = 16 THEN "arguments" ELSE "init",
             step' = step + 1, UNCHANGED <<ok, ending>>
      PROVE  ProgramInv'
  <2>1. there' = Standing[step + 1]
    BY <1>1, <1>3, StepsStand
  <2>2. CASE step = 16
    <3>1. Standing[17] = All
      BY DEF Standing
    <3>2. QED  BY <1>1, <1>2, <1>3, <2>1, <2>2, <3>1 DEF ProgramInv
  <2>3. CASE step # 16
    <3>1. step \in 1..15 /\ step + 1 \in 1..16
      BY <1>1, <2>3
    <3>2. Program!Undo[Entered[step + 1]].of = Program!Steps[step].notes
      BY <3>1, FailuresEnter
    <3>3. QED  BY <1>1, <1>2, <1>3, <2>1, <2>3, <3>1, <3>2 DEF ProgramInv
  <2>4. QED  BY <2>2, <2>3
<1>4. ASSUME phase' = "undo", step' = Program!Case(inited), ok' = FALSE, ending' = "failed",
             UNCHANGED there
      PROVE  ProgramInv'
  <2>1. step' = Entered[step] /\ Entered[step] \in 1..14
    BY <1>1, <1>4, FailuresEnter, CaseIs
  <2>2. /\ Expects[Entered[step]] \subseteq there
        /\ there \subseteq Expects[Entered[step]] \cup Program!OfSdl
        /\ there \cap Program!OfSdl # {} => Entered[step] <= 10
    BY <1>1, FailuresEnter
  <2>3. QED  BY <1>1, <1>2, <1>4, <2>1, <2>2 DEF ProgramInv
<1>5. QED
  <2>1. Len(Program!Steps) = 16
    BY StepsAreEnough
  <2>2. QED  BY <1>3, <1>4, <2>1 DEF Program!InitStep, With

(* What a list of parts that are there, or hold nothing, leaves.             *)
LEMMA DestroyedIs ==
  ASSUME NEW parts, Program!Destroyed(parts)
  PROVE  /\ there' = there \ Gone(Program!ToSet(parts))
         /\ Holding(Program!ToSet(parts)) \subseteq there => misused' = misused
BY DEF Program!Destroyed, Gone, Holding

(* The same of one part.                                                     *)
LEMMA DestroyedOne ==
  ASSUME NEW part, Program!Destroyed(<<part>>)
  PROVE  /\ there' = there \ Gone({part})
         /\ Holding({part}) \subseteq there => misused' = misused
<1>1. Program!ToSet(<<part>>) = {part}
  BY SetsOfFew
<1>2. QED  BY <1>1, DestroyedIs

(* The error path goes from case to case, down to the last.                  *)
LEMMA UndoStepKeeps ==
  ASSUME ProgramInv, Program!UndoStep
  PROVE  ProgramInv'
<1>1. /\ phase = "undo" /\ step \in 1..14 /\ Expects[step] \subseteq there
      /\ there \subseteq Expects[step] \cup Program!OfSdl
      /\ there \cap Program!OfSdl # {} => step <= 10
      /\ ~game /\ ~ok /\ ending = "failed" /\ misused = {}
  BY DEF ProgramInv, Program!UndoStep
<1>2. /\ phase' = (IF step = 14 THEN "arguments" ELSE "undo") /\ step' = step + 1
      /\ UNCHANGED <<inited, game, ok, saved, ending>>
  BY StepsAreEnough DEF Program!UndoStep
<1> DEFINE gone == Gone(UndoParts[step])
<1>3. there' = there \ gone /\ misused' = {}
  <2>1. Program!Destroyed(Program!Undo[step].parts)
    BY DEF Program!UndoStep
  <2>2. Program!ToSet(Program!Undo[step].parts) = UndoParts[step]
    BY <1>1, UndoPartsAre
  <2>3. Holding(UndoParts[step]) \subseteq there
    BY <1>1, UndoingMeets
  <2>4. QED  BY <1>1, <2>1, <2>2, <2>3, DestroyedIs
<1> HIDE DEF gone
<1>4. CASE step = 14
  BY <1>1, <1>2, <1>3, <1>4, UndoingMeets DEF ProgramInv
<1>5. CASE step # 14
  <2>1. Expects[step] \ gone = Expects[step + 1] /\ step + 1 \in 1..14
    BY <1>1, <1>5, UndoingMeets DEF gone
  <2>2. Expects[step + 1] \subseteq there' /\ there' \subseteq Expects[step + 1] \cup Program!OfSdl
    BY <1>1, <1>3, <2>1
  <2>3. there' \cap Program!OfSdl # {} => step + 1 <= 10
    <3>1. CASE step = 10
      BY <1>3, <3>1, UndoingMeets DEF gone
    <3>2. CASE step # 10
      BY <1>1, <1>3, <3>2
    <3>3. QED  BY <3>1, <3>2
  <2>4. QED  BY <1>1, <1>2, <1>3, <1>5, <2>1, <2>2, <2>3 DEF ProgramInv
<1>6. QED  BY <1>4, <1>5

(* Application::destroy undoes one part after the other.                     *)
LEMMA DestroyStepKeeps ==
  ASSUME ProgramInv, Program!DestroyStep
  PROVE  ProgramInv'
<1>1. /\ phase = "destroy" /\ step \in 1..13 /\ there = Remaining[step] /\ (step > 1 => saved)
      /\ ok /\ ending \in {"quit", "exception"}
      /\ ending = "quit" => ~game /\ misused = {}
  BY DEF ProgramInv, Program!DestroyStep
<1>2. /\ phase' = (IF step = 13 THEN "ended" ELSE "destroy") /\ step' = step + 1
      /\ UNCHANGED <<inited, game, ok, ending>>
  BY StepsAreEnough DEF Program!DestroyStep
<1>3. /\ there' = Remaining[step + 1] /\ saved'
      /\ ending = "quit" => misused' = misused
  <2>1. CASE step = 1
    <3>1. Program!Order[1] = "save" /\ Remaining[1] = Remaining[2]
      BY DEF Program!Order, Remaining
    <3>2. QED  BY <1>1, <2>1, <3>1 DEF Program!DestroyStep
  <2>2. CASE step # 1
    <3>1. /\ Program!Order[step] # "save"
          /\ Holding({Program!Order[step]}) \subseteq there
          /\ there \ Gone({Program!Order[step]}) = Remaining[step + 1]
      BY <1>1, <2>2, DestroyingMeets
    <3>2. Program!Destroyed(<<Program!Order[step]>>) /\ saved' = saved
      BY <3>1 DEF Program!DestroyStep
    <3>3. /\ there' = there \ Gone({Program!Order[step]})
          /\ misused' = misused
      BY <3>1, <3>2, DestroyedOne
    <3>4. QED  BY <1>1, <2>2, <3>1, <3>2, <3>3
  <2>3. QED  BY <2>1, <2>2
<1>4. CASE step = 13
  <2>1. Remaining[14] = {}
    BY DEF Remaining
  <2>2. QED  BY <1>1, <1>2, <1>3, <1>4, <2>1 DEF ProgramInv, Program!EndsClean
<1>5. CASE step # 13
  BY <1>1, <1>2, <1>3, <1>5 DEF ProgramInv
<1>6. QED  BY <1>4, <1>5

(* The arguments, the game, the main loop's end and SDL's audio thread,      *)
(* which only meets a Fifo that is there.                                    *)
LEMMA OtherStepsKeep ==
  ASSUME ProgramInv,
         \/ Program!HandleArgs \/ Program!PlayGame
         \/ (\E how \in {"quit", "exception"} : Program!RunReturns(how))
         \/ Program!AudioCallback \/ UNCHANGED Program!vars
  PROVE  ProgramInv'
<1>1. CASE Program!HandleArgs
  BY <1>1 DEF ProgramInv, Program!HandleArgs, Program!EndsClean
<1>2. CASE Program!PlayGame
  BY <1>2 DEF ProgramInv, Program!PlayGame
<1>3. ASSUME NEW how \in {"quit", "exception"}, Program!RunReturns(how)  PROVE ProgramInv'
  <2>1. Remaining[1] = All
    BY DEF Remaining
  <2>2. QED  BY <1>3, <2>1 DEF ProgramInv, Program!RunReturns
<1>4. CASE Program!AudioCallback
  <2>1. phase \in {"run", "destroy"} /\ (phase = "run" => misused' = misused)
        /\ (phase = "destroy" => ending = "exception")
    BY <1>4 DEF ProgramInv, Program!AudioCallback, All
  <2>2. QED  BY <1>4, <2>1 DEF ProgramInv, Program!AudioCallback
<1>5. CASE UNCHANGED Program!vars
  BY <1>5 DEF ProgramInv, Program!vars, Program!EndsClean
<1>6. QED  BY <1>1, <1>2, <1>3, <1>4, <1>5

(* Beside the other parts the program starts and ends as it does alone.      *)
LEMMA ProgramRuns == Spec => Program!Spec
<1>1. Init => Program!Init
  BY DEF Init
<1>2. [Next]_vars => [Program!Next]_(Program!vars)
  <2>1. ASSUME OthersStay, which # "program"  PROVE UNCHANGED Program!vars
    BY <2>1 DEF OthersStay, startVars, Program!vars
  <2>2. ASSUME Next  PROVE Program!Next \/ UNCHANGED Program!vars
    BY <2>1, <2>2 DEF Next
  <2>3. UNCHANGED vars => UNCHANGED Program!vars
    BY DEF vars, startVars, Program!vars
  <2>4. QED  BY <2>2, <2>3
<1>3. QED  BY <1>1, <1>2, PTL DEF Spec, Program!Spec

(* EndsClean: wherever Application::init fails and however the program ends, *)
(* all that was made is destroyed and nothing is used that was not made,     *)
(* whichever parts may fail.                                                 *)
THEOREM ProgramEndsClean == Spec => []EndsClean
<1>1. ASSUME ProgramInv, [Program!Next]_(Program!vars)  PROVE ProgramInv'
  BY <1>1, InitStepKeeps, UndoStepKeeps, DestroyStepKeeps, OtherStepsKeep DEF Program!Next
<1>2. ProgramInv => EndsClean
  BY DEF ProgramInv, EndsClean, Program!EndsClean
<1>3. QED  BY <1>1, <1>2, ProgramInit, ProgramRuns, PTL DEF Program!Spec

-----------------------------------------------------------------------------
(* The picture: Picture.                                                     *)

(* Sizes in pixels, and lengths that are not zero.                           *)
Sizes == Nat \X Nat
Positive == Nat \ {0}

(* PictureAssumption in these words.                                         *)
LEMMA PictureBounds ==
  /\ FirstWindow \in Sizes /\ Windows \subseteq Sizes
  /\ Frames \subseteq Positive \X Positive
  /\ Geometries \subseteq [base : Sizes, max : Sizes, aspect : Positive \X Positive]
BY PictureAssumption DEF Sizes, Positive

(* The fields of a Video.                                                    *)
Fields == {"texture", "format", "linear", "hwEnabled", "frameBuffer", "view", "window",
           "preserveAspect", "rotation", "aspect", "vertices"}

(* A record of Video's fields, and whether its vertices are those of its     *)
(* view, if it has one.                                                      *)
IsVideo(v) ==
  /\ DOMAIN v = Fields
  /\ v.rotation \in 0..3 /\ v.window \in Sizes /\ v.aspect \in Positive \X Positive
  /\ v.texture \in Int \X Int /\ v.vertices.scaled \in Int \X Int
ViewIsDrawn(v) ==
  v.texture # Screen!None /\ v.view # Screen!NoSize =>
    /\ v.vertices.covers = <<v.view, v.texture>>
    /\ v.vertices.window = v.window /\ v.vertices.rotation = v.rotation
    /\ ~v.preserveAspect => v.vertices.scaled = v.window

(* Video::ensureFramebuffer: afterwards the texture is at least as large as  *)
(* was asked for; a new one has no view yet.                                 *)
LEMMA FramebufferIs ==
  ASSUME NEW v, IsVideo(v), NEW size \in Int \X Int, NEW format, NEW linear,
         NEW w, w = Screen!EnsureFramebuffer(v, size, format, linear)
  PROVE  /\ IsVideo(w)
         /\ w.format = format /\ w.linear = linear
         /\ w.frameBuffer = v.hwEnabled /\ w.hwEnabled = v.hwEnabled
         /\ w.window = v.window /\ w.rotation = v.rotation /\ w.aspect = v.aspect
         /\ w.preserveAspect = v.preserveAspect /\ w.vertices = v.vertices
         /\ \/ w.texture = v.texture /\ w.view = v.view /\ v.texture # Screen!None
            \/ w.texture = size /\ w.view = Screen!NoSize
         /\ size[1] <= w.texture[1] /\ size[2] <= w.texture[2]
<1>1. DOMAIN w = Fields
  BY DEF IsVideo, Fields, Screen!EnsureFramebuffer
<1>2. CASE \/ v.texture = Screen!None \/ v.hwEnabled # v.frameBuffer
           \/ size[1] > v.texture[1] \/ size[2] > v.texture[2]
           \/ format # v.format \/ linear # v.linear
  <2>1. w = [v EXCEPT !.texture = size, !.format = format, !.linear = linear,
                      !.frameBuffer = v.hwEnabled, !.view = Screen!NoSize]
    BY <1>2 DEF Screen!EnsureFramebuffer
  <2>2. QED  BY <1>1, <2>1 DEF IsVideo, Fields
<1>3. CASE ~(\/ v.texture = Screen!None \/ v.hwEnabled # v.frameBuffer
             \/ size[1] > v.texture[1] \/ size[2] > v.texture[2]
             \/ format # v.format \/ linear # v.linear)
  <2>1. w = v
    BY <1>3 DEF Screen!EnsureFramebuffer
  <2>2. QED  BY <1>3, <2>1 DEF IsVideo
<1>4. QED  BY <1>2, <1>3

(* The scaled size is a size, the window's where the aspect is not kept.     *)
LEMMA ScaledIsPair ==
  ASSUME NEW win \in Sizes, NEW rotation \in 0..3, NEW preserve,
         NEW aspect \in Positive \X Positive
  PROVE  /\ Screen!Scaled(win, rotation, preserve, aspect) \in Int \X Int
         /\ ~preserve => Screen!Scaled(win, rotation, preserve, aspect) = win
<1>1. \A a, b \in Nat, c \in Positive : (a * b) \div c \in Int
  BY DEF Positive
<1>2. win[1] \in Nat /\ win[2] \in Nat /\ aspect[1] \in Positive /\ aspect[2] \in Positive
  BY DEF Sizes
<1>3. Positive \subseteq Nat
  BY DEF Positive
<1> DEFINE w == (win[2] * aspect[1]) \div aspect[2]
           h == (win[1] * aspect[1]) \div aspect[2]
           w1 == (win[1] * aspect[2]) \div aspect[1]
           h1 == (win[2] * aspect[2]) \div aspect[1]
<1>4. w \in Int /\ h \in Int /\ w1 \in Int /\ h1 \in Int
  BY <1>1, <1>2, <1>3
<1>5. Screen!Scaled(win, rotation, preserve, aspect) =
        IF ~preserve THEN win
        ELSE IF Screen!Odd(rotation)
          THEN IF h > win[2] THEN <<h1, win[2]>> ELSE <<win[1], h>>
        ELSE IF w > win[1] THEN <<win[1], w1>> ELSE <<w, win[2]>>
  BY DEF Screen!Scaled
<1> HIDE DEF w, h, w1, h1
<1>6. QED  BY <1>2, <1>4, <1>5 DEF Sizes

(* Video::ensureView: afterwards the vertices are those of the view, the     *)
(* window and the rotation.                                                  *)
LEMMA ViewIs ==
  ASSUME NEW v, IsVideo(v), ViewIsDrawn(v), NEW size \in Int \X Int, NEW win \in Sizes,
         NEW preserve, NEW rotation \in 0..3,
         NEW w, w = Screen!EnsureView(v, size, win, preserve, rotation)
  PROVE  /\ IsVideo(w) /\ ViewIsDrawn(w)
         /\ w.window = win /\ w.texture = v.texture
         /\ w.view \in {v.view, size} /\ (v.texture # Screen!None => w.view = size)
         /\ w.format = v.format /\ w.linear = v.linear
         /\ w.frameBuffer = v.frameBuffer /\ w.hwEnabled = v.hwEnabled
<1>1. CASE v.texture = Screen!None
  <2>1. w = [v EXCEPT !.window = win]
    BY <1>1 DEF Screen!EnsureView
  <2>2. QED  BY <1>1, <2>1 DEF IsVideo, ViewIsDrawn, Fields
<1>2. CASE v.texture # Screen!None /\ ~Screen!Changed(v, size, win, preserve, rotation)
  <2>1. w = v
    BY <1>2 DEF Screen!EnsureView
  <2>2. v.view = size /\ v.window = win
    BY <1>2 DEF Screen!Changed
  <2>3. QED  BY <2>1, <2>2
<1>3. CASE v.texture # Screen!None /\ Screen!Changed(v, size, win, preserve, rotation)
  <2> DEFINE set == [v EXCEPT !.preserveAspect = preserve, !.rotation = rotation]
             drawing == Screen!Vertices(set, size, win)
  <2>1. w = [set EXCEPT !.view = size, !.window = win, !.vertices = drawing]
    BY <1>3 DEF Screen!EnsureView
  <2>2. /\ DOMAIN set = Fields
        /\ set.preserveAspect = preserve /\ set.rotation = rotation
        /\ set.texture = v.texture /\ set.aspect = v.aspect /\ set.format = v.format
        /\ set.linear = v.linear /\ set.frameBuffer = v.frameBuffer
        /\ set.hwEnabled = v.hwEnabled
    BY DEF IsVideo, Fields
  <2>3. /\ drawing.covers = <<size, v.texture>>
        /\ drawing.window = win /\ drawing.rotation = rotation
        /\ drawing.scaled = Screen!Scaled(win, rotation, preserve, v.aspect)
    BY <2>2 DEF Screen!Vertices
  <2>4. v.aspect \in Positive \X Positive /\ v.texture \in Int \X Int
    BY DEF IsVideo
  <2>5. drawing.scaled \in Int \X Int /\ (~preserve => drawing.scaled = win)
    BY <2>3, <2>4, ScaledIsPair
  <2> HIDE DEF set, drawing
  <2>6. /\ DOMAIN w = Fields /\ w.view = size /\ w.window = win /\ w.vertices = drawing
        /\ w.preserveAspect = preserve /\ w.rotation = rotation
        /\ w.texture = v.texture /\ w.aspect = v.aspect /\ w.format = v.format
        /\ w.linear = v.linear /\ w.frameBuffer = v.frameBuffer /\ w.hwEnabled = v.hwEnabled
    BY <2>1, <2>2 DEF Fields
  <2>7. IsVideo(w)
    BY <2>4, <2>5, <2>6 DEF IsVideo
  <2>8. ViewIsDrawn(w)
    BY <2>3, <2>5, <2>6 DEF ViewIsDrawn
  <2>9. QED  BY <2>6, <2>7, <2>8
<1>4. QED  BY <1>1, <1>2, <1>3

-----------------------------------------------------------------------------
(* The texture holds what the core says its frames may need.                 *)
Covers(texture, geometry) ==
  \A i \in {1, 2} : Screen!Larger(geometry.base[i], geometry.max[i]) <= texture[i]
IsGeometry(g) == g \in [base : Sizes, max : Sizes, aspect : Positive \X Positive]

(* The last size the window had is the one Video uses, or its event is on    *)
(* the way.                                                                  *)
Told ==
  /\ events \in Seq(Sizes) /\ sdl \in Sizes
  /\ IF events = <<>> THEN video.window = sdl ELSE events[Len(events)] = sdl
(* While a game is played the framebuffer is as the core asked.              *)
Playing ==
  drawn.playing =>
    /\ IsGeometry(av.geometry) /\ Covers(video.texture, av.geometry)
    /\ video.texture # Screen!None
    /\ video.format = av.format /\ video.hwEnabled = drawn.hw /\ video.frameBuffer = drawn.hw
(* What is on the screen is the core's last frame, inside the texture.       *)
OnTheScreen ==
  frame # Screen!NoSize =>
    /\ frame \in Positive \X Positive
    /\ video.view = frame /\ video.texture # Screen!None
    /\ frame[1] <= video.texture[1] /\ frame[2] <= video.texture[2]

(* The vertices are right for the view, the window is told, and the frame is *)
(* the view.                                                                 *)
PictureInv ==
  /\ IsVideo(video) /\ ViewIsDrawn(video)
  /\ video.view \in Int \X Int
  /\ DOMAIN drawn = {"loaded", "playing", "hw", "bottom"}
  /\ DOMAIN av = {"geometry", "format"}
  /\ Told /\ Playing /\ OnTheScreen

(* Before a game is loaded there is no texture.                              *)
LEMMA PictureInit == Screen!Init => PictureInv
<1>1. SUFFICES ASSUME Screen!Init  PROVE PictureInv
  OBVIOUS
<1>2. IsVideo(video)
  BY <1>1, PictureBounds DEF Screen!Init, IsVideo, Fields, Sizes, Positive, Screen!None, Screen!NoSize
<1>3. video.view \in Int \X Int /\ ViewIsDrawn(video) /\ video.window = FirstWindow
  BY <1>1 DEF Screen!Init, ViewIsDrawn, Screen!NoSize
<1>4. ~drawn.playing /\ DOMAIN drawn = {"loaded", "playing", "hw", "bottom"}
  BY <1>1 DEF Screen!Init, Screen!NoCore
<1>5. DOMAIN av = {"geometry", "format"}
  BY <1>1 DEF Screen!Init
<1>6. Told
  BY <1>1, <1>3, PictureBounds DEF Screen!Init, Told
<1>7. QED  BY <1>1, <1>2, <1>3, <1>4, <1>5, <1>6 DEF Screen!Init, PictureInv, Playing, OnTheScreen

(* So what is shown is current.                                              *)
LEMMA PictureImplies == PictureInv => Screen!PictureIsCurrent
<1>1. SUFFICES ASSUME PictureInv  PROVE Screen!PictureIsCurrent
  OBVIOUS
<1>2. ASSUME frame # Screen!NoSize
      PROVE  /\ video.vertices.covers = <<frame, video.texture>>
             /\ \A i \in {1, 2} : frame[i] <= video.texture[i]
             /\ video.vertices.window = video.window
             /\ video.vertices.rotation = video.rotation
             /\ ~video.preserveAspect => video.vertices.scaled = video.window
  BY <1>1, <1>2 DEF PictureInv, OnTheScreen, ViewIsDrawn
<1>3. drawn.playing => /\ video.format = av.format
                       /\ video.frameBuffer = drawn.hw
  BY <1>1 DEF PictureInv, Playing
<1>4. events = <<>> => video.window = sdl
  BY <1>1 DEF PictureInv, Told
<1>5. QED  BY <1>2, <1>3, <1>4 DEF Screen!PictureIsCurrent

(* A window that is resized because the picture was turned is told of by an  *)
(* event.                                                                    *)
LEMMA TurnedTells ==
  ASSUME Told, NEW v, NEW rotation, v.window \in Sizes, Screen!Turned(v, rotation),
         v.window = video.window, video'.window = video.window
  PROVE  Told'
<1>1. CASE UNCHANGED <<sdl, events>>
  BY <1>1 DEF Told
<1>2. CASE sdl' = Screen!Swap(v.window) /\ events' = Append(events, Screen!Swap(v.window))
  <2> DEFINE turned == Screen!Swap(v.window)
  <2>1. turned \in Sizes
    BY DEF Screen!Swap, Sizes
  <2>2. events \in Seq(Sizes)
    BY DEF Told
  <2> HIDE DEF turned
  <2>3. Append(events, turned) \in Seq(Sizes) /\ Append(events, turned) # <<>>
        /\ Append(events, turned)[Len(Append(events, turned))] = turned
    BY <2>1, <2>2
  <2>4. sdl' = turned /\ events' = Append(events, turned)
    BY <1>2 DEF turned
  <2>5. QED  BY <2>1, <2>3, <2>4 DEF Told
<1>3. QED  BY <1>1, <1>2 DEF Screen!Turned

(* Video::setRotation makes the vertices anew.                               *)
LEMMA RotationKeeps ==
  ASSUME PictureInv, NEW rotation \in 0..3, Screen!SetRotation(rotation),
         DOMAIN drawn' = {"loaded", "playing", "hw", "bottom"}, UNCHANGED av,
         drawn' = drawn \/ ~drawn'.playing
  PROVE  PictureInv'
<1>1. /\ IsVideo(video) /\ ViewIsDrawn(video) /\ video.view \in Int \X Int
      /\ video.window \in Sizes
  BY DEF PictureInv, IsVideo
<1>2. video' = Screen!EnsureView(video, video.view, video.window, video.preserveAspect, rotation)
  BY DEF Screen!SetRotation
<1>3. /\ IsVideo(video') /\ ViewIsDrawn(video') /\ video'.view = video.view
      /\ video'.window = video.window /\ video'.texture = video.texture
      /\ video'.format = video.format /\ video'.hwEnabled = video.hwEnabled
      /\ video'.frameBuffer = video.frameBuffer
  BY <1>1, <1>2, ViewIs
<1>4. Told'
  BY <1>1, <1>3, TurnedTells DEF PictureInv, Screen!SetRotation
<1>5. Playing'
  BY <1>3 DEF PictureInv, Playing
<1>6. OnTheScreen'
  BY DEF OnTheScreen, Screen!SetRotation, Screen!NoSize
<1>7. QED  BY <1>1, <1>3, <1>4, <1>5, <1>6 DEF PictureInv

(* Video::setGeometry, with what Core keeps of the geometry.                 *)
LEMMA GeometryKeeps ==
  ASSUME PictureInv, NEW geometry, IsGeometry(geometry), NEW format,
         Screen!SetGeometry(geometry, format, drawn.hw),
         DOMAIN drawn' = DOMAIN drawn, drawn'.hw = drawn.hw, drawn'.playing,
         DOMAIN av' = {"geometry", "format"}, av'.geometry = geometry, av'.format = format,
         frame' = Screen!NoSize, UNCHANGED <<sdl, events>>
  PROVE  PictureInv'
<1> DEFINE size == <<Screen!Larger(geometry.base[1], geometry.max[1]),
                     Screen!Larger(geometry.base[2], geometry.max[2])>>
           before == [video EXCEPT !.hwEnabled = drawn.hw]
           v == Screen!EnsureFramebuffer(before, size, format, video.linear)
<1>1. IsVideo(video) /\ ViewIsDrawn(video) /\ video.view \in Int \X Int
  BY DEF PictureInv
<1>2. /\ IsVideo(before) /\ before.hwEnabled = drawn.hw /\ before.texture = video.texture
      /\ before.view = video.view /\ before.window = video.window
      /\ before.rotation = video.rotation /\ before.preserveAspect = video.preserveAspect
      /\ before.vertices = video.vertices
  BY <1>1 DEF IsVideo, Fields
<1>3. size \in Sizes /\ size \in Int \X Int
  <2>1. geometry.base \in Sizes /\ geometry.max \in Sizes
    BY DEF IsGeometry
  <2>2. QED  BY <2>1 DEF Screen!Larger, Sizes
<1>4. video' = [v EXCEPT !.aspect = geometry.aspect]
  BY DEF Screen!SetGeometry
<1> HIDE DEF before
<1>5. /\ IsVideo(v)
      /\ v.format = format /\ v.frameBuffer = drawn.hw /\ v.hwEnabled = drawn.hw
      /\ v.window = video.window /\ v.rotation = video.rotation
      /\ v.preserveAspect = video.preserveAspect /\ v.vertices = video.vertices
      /\ \/ v.texture = video.texture /\ v.view = video.view /\ video.texture # Screen!None
         \/ v.texture = size /\ v.view = Screen!NoSize
      /\ size[1] <= v.texture[1] /\ size[2] <= v.texture[2]
  BY <1>2, <1>3, FramebufferIs
<1> HIDE DEF v
<1>6. /\ IsVideo(video')
      /\ video'.format = format /\ video'.frameBuffer = drawn.hw /\ video'.hwEnabled = drawn.hw
      /\ video'.window = video.window /\ video'.rotation = video.rotation
      /\ video'.preserveAspect = video.preserveAspect /\ video'.vertices = video.vertices
      /\ video'.texture = v.texture /\ video'.view = v.view
  <2>1. geometry.aspect \in Positive \X Positive
    BY DEF IsGeometry
  <2>2. QED  BY <1>4, <1>5, <2>1 DEF IsVideo, Fields
<1>7. ViewIsDrawn(video')
  BY <1>1, <1>5, <1>6 DEF ViewIsDrawn
<1>8. video'.view \in Int \X Int
  BY <1>1, <1>5, <1>6 DEF Screen!NoSize
<1>9. video'.texture # Screen!None
  BY <1>3, <1>5, <1>6 DEF Screen!None, Sizes
<1>10. Covers(video'.texture, geometry)
  BY <1>5, <1>6 DEF Covers
<1>11. Playing'
  BY <1>6, <1>9, <1>10 DEF Playing
<1>12. Told'
  BY <1>6 DEF PictureInv, Told
<1>13. OnTheScreen'
  BY DEF OnTheScreen, Screen!NoSize
<1>14. QED  BY <1>6, <1>7, <1>8, <1>11, <1>12, <1>13 DEF PictureInv

(* The steps that turn the picture.                                          *)
LEMMA TurningSteps ==
  ASSUME PictureInv,
         \/ \E hw, bottom \in BOOLEAN : (bottom => hw) /\ Screen!LoadCore(hw, bottom)
         \/ \E r \in 0..3 : Screen!CoreSetsRotation(r)
         \/ \E turn \in {1, 3} : Screen!UserRotates(turn)
  PROVE  PictureInv'
<1>1. ASSUME NEW hw \in BOOLEAN, NEW bottom \in BOOLEAN, Screen!LoadCore(hw, bottom)
      PROVE  PictureInv'
  BY <1>1, RotationKeeps DEF Screen!LoadCore
<1>2. ASSUME NEW r \in 0..3, Screen!CoreSetsRotation(r)  PROVE PictureInv'
  BY <1>2, RotationKeeps DEF Screen!CoreSetsRotation, PictureInv
<1>3. ASSUME NEW turn \in {1, 3}, Screen!UserRotates(turn)  PROVE PictureInv'
  <2>1. video.rotation \in 0..3
    BY DEF PictureInv, IsVideo
  <2>2. (video.rotation + turn) % 4 \in 0..3
    BY <2>1
  <2>3. QED  BY <1>3, <2>2, RotationKeeps DEF Screen!UserRotates, PictureInv
<1>4. QED  BY <1>1, <1>2, <1>3

(* The steps that set the geometry.                                          *)
LEMMA GeometrySteps ==
  ASSUME PictureInv,
         \/ \E g \in Geometries, f \in Formats : Screen!LoadGame(g, f)
         \/ \E g \in Geometries : Screen!SetSystemAVInfo(g) \/ Screen!CoreSetsGeometry(g)
  PROVE  PictureInv'
<1>1. ASSUME NEW g \in Geometries  PROVE IsGeometry(g)
  BY PictureBounds DEF IsGeometry
<1>2. ASSUME NEW g \in Geometries, NEW f \in Formats, Screen!LoadGame(g, f)  PROVE PictureInv'
  <2>1. /\ DOMAIN drawn' = DOMAIN drawn /\ drawn'.hw = drawn.hw /\ drawn'.playing
        /\ DOMAIN av' = {"geometry", "format"} /\ av'.geometry = g /\ av'.format = f
    BY <1>2 DEF PictureInv, Screen!LoadGame
  <2>2. /\ Screen!SetGeometry(g, f, drawn.hw) /\ frame' = Screen!NoSize
        /\ UNCHANGED <<sdl, events>>
    BY <1>2 DEF Screen!LoadGame
  <2>3. QED  BY <1>1, <2>1, <2>2, GeometryKeeps
<1>3. ASSUME NEW g \in Geometries, Screen!SetSystemAVInfo(g)  PROVE PictureInv'
  <2>1. /\ UNCHANGED drawn /\ drawn.playing
        /\ DOMAIN av' = {"geometry", "format"} /\ av'.geometry = g /\ av'.format = av.format
    BY <1>3 DEF PictureInv, Screen!SetSystemAVInfo
  <2>2. /\ Screen!SetGeometry(g, av.format, drawn.hw) /\ frame' = Screen!NoSize
        /\ UNCHANGED <<sdl, events>>
    BY <1>3 DEF Screen!SetSystemAVInfo
  <2>3. QED  BY <1>1, <2>1, <2>2, GeometryKeeps
<1>4. ASSUME NEW g \in Geometries, Screen!CoreSetsGeometry(g)  PROVE PictureInv'
  <2> DEFINE new == [g EXCEPT !.max = av.geometry.max]
  <2>1. /\ UNCHANGED drawn /\ drawn.playing
        /\ DOMAIN av' = {"geometry", "format"} /\ av'.geometry = new /\ av'.format = av.format
    BY <1>4 DEF PictureInv, Screen!CoreSetsGeometry
  <2>2. IsGeometry(av.geometry)
    BY <2>1 DEF PictureInv, Playing
  <2>3. IsGeometry(new)
    BY <1>1, <2>2 DEF IsGeometry
  <2>4. /\ Screen!SetGeometry(av'.geometry, av.format, drawn.hw) /\ frame' = Screen!NoSize
        /\ UNCHANGED <<sdl, events>>
    BY <1>4 DEF Screen!CoreSetsGeometry
  <2> HIDE DEF new
  <2>5. Screen!SetGeometry(new, av.format, drawn.hw)
    BY <2>1, <2>4
  <2>6. QED  BY <2>1, <2>3, <2>4, <2>5, GeometryKeeps
<1>5. QED  BY <1>2, <1>3, <1>4

(* Video::refresh: the frame is the view.                                    *)
LEMMA RefreshKeeps ==
  ASSUME PictureInv, NEW size \in Frames, Screen!Refresh(size)
  PROVE  PictureInv'
<1>1. /\ IsVideo(video) /\ ViewIsDrawn(video) /\ video.view \in Int \X Int
      /\ video.window \in Sizes /\ video.rotation \in 0..3 /\ video.texture \in Int \X Int
  BY DEF PictureInv, IsVideo
<1>2. size \in Positive \X Positive /\ size \in Int \X Int
  BY PictureBounds DEF Positive
<1>3. /\ IsVideo(video') /\ ViewIsDrawn(video') /\ video'.view = size
      /\ video'.window = video.window /\ video'.texture = video.texture
      /\ video'.format = video.format /\ video'.hwEnabled = video.hwEnabled
      /\ video'.frameBuffer = video.frameBuffer /\ video.texture # Screen!None
  <2>1. video' = Screen!EnsureView(video, size, video.window, video.preserveAspect, video.rotation)
        /\ drawn.playing
    BY DEF Screen!Refresh
  <2>2. video.texture # Screen!None
    BY <2>1 DEF PictureInv, Playing
  <2>3. QED  BY <1>1, <1>2, <2>1, <2>2, ViewIs
<1>4. size[1] <= video.texture[1] /\ size[2] <= video.texture[2]
  <2>1. /\ \A i \in {1, 2} : size[i] <= Screen!Larger(av.geometry.base[i], av.geometry.max[i])
        /\ drawn.playing
    BY DEF Screen!Refresh
  <2>2. Covers(video.texture, av.geometry) /\ IsGeometry(av.geometry)
    BY <2>1 DEF PictureInv, Playing
  <2>3. \A i \in {1, 2} : /\ Screen!Larger(av.geometry.base[i], av.geometry.max[i]) \in Nat
                         /\ Screen!Larger(av.geometry.base[i], av.geometry.max[i]) <= video.texture[i]
    BY <2>2 DEF Covers, IsGeometry, Sizes, Screen!Larger
  <2>4. size[1] \in Int /\ size[2] \in Int /\ video.texture[1] \in Int /\ video.texture[2] \in Int
    BY <1>1, <1>2
  <2>5. QED  BY <2>1, <2>3, <2>4
<1>5. UNCHANGED <<drawn, av, sdl, events>> /\ frame' = size
  BY DEF Screen!Refresh
<1>6. Told' /\ Playing'
  BY <1>3, <1>5 DEF PictureInv, Told, Playing
<1>7. OnTheScreen'
  BY <1>2, <1>3, <1>4, <1>5 DEF OnTheScreen
<1>8. QED  BY <1>2, <1>3, <1>5, <1>6, <1>7 DEF PictureInv

(* Without a core the vertices stay.                                         *)
LEMMA PictureUnloadKeeps ==
  ASSUME PictureInv, Screen!UnloadCore
  PROVE  PictureInv'
<1>1. /\ IsVideo(video) /\ ViewIsDrawn(video)
  BY DEF PictureInv
<1>2. IsVideo(video') /\ ViewIsDrawn(video') /\ video'.view = video.view
      /\ video'.window = video.window
  BY <1>1 DEF Screen!UnloadCore, IsVideo, Fields, ViewIsDrawn
<1>3. /\ ~drawn'.playing /\ DOMAIN drawn' = {"loaded", "playing", "hw", "bottom"}
      /\ frame' = Screen!NoSize /\ UNCHANGED <<av, sdl, events>>
  BY DEF Screen!UnloadCore, Screen!NoCore
<1>4. QED
  BY <1>2, <1>3 DEF PictureInv, Told, Playing, OnTheScreen

(* Video::windowResized, when the event arrives.                             *)
LEMMA WindowEventKeeps ==
  ASSUME PictureInv, Screen!HandleWindowEvent
  PROVE  PictureInv'
<1>1. /\ IsVideo(video) /\ ViewIsDrawn(video) /\ video.view \in Int \X Int
      /\ video.rotation \in 0..3
  BY DEF PictureInv, IsVideo
<1> DEFINE win == Head(events)
<1>2. /\ events \in Seq(Sizes) /\ events # <<>> /\ events[Len(events)] = sdl
  BY DEF PictureInv, Told, Screen!HandleWindowEvent
<1>3. /\ win \in Sizes /\ Tail(events) \in Seq(Sizes)
      /\ Tail(events) = <<>> => win = sdl
      /\ Tail(events) # <<>> => Tail(events)[Len(Tail(events))] = sdl
  <2> HIDE DEF win
  <2>1. /\ win = events[1] /\ Len(events) \in Nat \ {0} /\ win \in Sizes
        /\ Tail(events) \in Seq(Sizes) /\ Len(Tail(events)) = Len(events) - 1
        /\ \A i \in 1..Len(Tail(events)) : Tail(events)[i] = events[i + 1]
    BY <1>2, HeadTailProperties, EmptySeq DEF win
  <2>2. CASE Len(events) = 1
    <3>1. Len(Tail(events)) = 0 /\ win = sdl
      BY <1>2, <2>1, <2>2
    <3>2. Tail(events) = <<>>
      BY <2>1, <3>1, EmptySeq
    <3>3. QED  BY <2>1, <3>1, <3>2
  <2>3. CASE Len(events) # 1
    <3>1. Len(Tail(events)) \in 1..Len(Tail(events)) /\ Len(Tail(events)) + 1 = Len(events)
      BY <2>1, <2>3
    <3>2. Tail(events)[Len(Tail(events))] = sdl
      BY <1>2, <2>1, <3>1
    <3>3. Tail(events) # <<>>
      <4>1. Len(<<>>) = 0 /\ Len(Tail(events)) > 0
        BY <2>1, <3>1
      <4>2. QED  BY <4>1
    <3>4. QED  BY <2>1, <3>2, <3>3
  <2>4. QED  BY <2>2, <2>3
<1> HIDE DEF win
<1>4. /\ video' = Screen!EnsureView(video, video.view, win, video.preserveAspect, video.rotation)
      /\ events' = Tail(events) /\ UNCHANGED <<drawn, av, sdl, frame>>
  BY DEF Screen!HandleWindowEvent, Screen!WindowResized, win
<1>5. /\ IsVideo(video') /\ ViewIsDrawn(video') /\ video'.view = video.view
      /\ video'.window = win /\ video'.texture = video.texture
      /\ video'.format = video.format /\ video'.hwEnabled = video.hwEnabled
      /\ video'.frameBuffer = video.frameBuffer
  BY <1>1, <1>3, <1>4, ViewIs
<1>6. Told'
  BY <1>3, <1>4, <1>5 DEF PictureInv, Told
<1>7. Playing' /\ OnTheScreen'
  BY <1>4, <1>5 DEF PictureInv, Playing, OnTheScreen
<1>8. QED  BY <1>1, <1>4, <1>5, <1>6, <1>7 DEF PictureInv

(* A resized window is told of by an event.                                  *)
LEMMA UserResizesKeeps ==
  ASSUME PictureInv, NEW win \in Windows, Screen!UserResizes(win)
  PROVE  PictureInv'
<1>1. win \in Sizes /\ events \in Seq(Sizes)
  BY PictureBounds DEF PictureInv, Told
<1>2. sdl' = win /\ events' = Append(events, win) /\ UNCHANGED <<video, drawn, av, frame>>
  BY DEF Screen!UserResizes
<1>3. Append(events, win) \in Seq(Sizes) /\ Append(events, win) # <<>>
      /\ Append(events, win)[Len(Append(events, win))] = win
  BY <1>1
<1>4. Told'
  BY <1>1, <1>2, <1>3 DEF Told
<1>5. QED  BY <1>2, <1>4 DEF PictureInv, Playing, OnTheScreen

(* Video::showDialog may replace the framebuffer.                            *)
LEMMA ShowDialogKeeps ==
  ASSUME PictureInv, NEW preserve \in BOOLEAN, NEW linear \in BOOLEAN, NEW rotation \in 0..3,
         Screen!ShowDialog(preserve, linear, rotation)
  PROVE  PictureInv'
<1> DEFINE size == IF video.texture = Screen!None THEN Screen!NoSize ELSE video.texture
           v == Screen!EnsureFramebuffer(video, size, video.format, linear)
<1>1. /\ IsVideo(video) /\ ViewIsDrawn(video) /\ video.view \in Int \X Int
      /\ video.window \in Sizes /\ video.texture \in Int \X Int
  BY DEF PictureInv, IsVideo
<1>2. size \in Int \X Int
  BY <1>1 DEF Screen!NoSize
<1>3. /\ video' = Screen!EnsureView(v, v.view, v.window, preserve, rotation)
      /\ Screen!Turned(v, rotation) /\ frame' = Screen!NoSize /\ UNCHANGED <<drawn, av>>
  BY DEF Screen!ShowDialog
<1> HIDE DEF v
<1>4. /\ IsVideo(v)
      /\ v.format = video.format /\ v.frameBuffer = video.hwEnabled /\ v.hwEnabled = video.hwEnabled
      /\ v.window = video.window /\ v.rotation = video.rotation
      /\ v.preserveAspect = video.preserveAspect /\ v.vertices = video.vertices
      /\ \/ v.texture = video.texture /\ v.view = video.view /\ video.texture # Screen!None
         \/ v.texture = size /\ v.view = Screen!NoSize
  BY <1>1, <1>2, FramebufferIs DEF v
<1>5. ViewIsDrawn(v) /\ v.view \in Int \X Int
  BY <1>1, <1>4 DEF ViewIsDrawn, Screen!NoSize
<1>6. video.texture # Screen!None => v.texture = video.texture
  BY <1>4
<1> HIDE DEF size
<1>7. /\ IsVideo(video') /\ ViewIsDrawn(video') /\ video'.view = v.view
      /\ video'.window = v.window /\ video'.texture = v.texture
      /\ video'.format = v.format /\ video'.hwEnabled = v.hwEnabled
      /\ video'.frameBuffer = v.frameBuffer
  BY <1>1, <1>3, <1>4, <1>5, ViewIs
<1>8. Told'
  BY <1>1, <1>3, <1>4, <1>7, TurnedTells DEF PictureInv
<1>9. Playing'
  BY <1>3, <1>4, <1>6, <1>7 DEF PictureInv, Playing
<1>10. OnTheScreen'
  BY <1>3 DEF OnTheScreen, Screen!NoSize
<1>11. QED  BY <1>3, <1>5, <1>7, <1>8, <1>9, <1>10 DEF PictureInv

(* Every step of the picture.                                                *)
LEMMA PictureKeeps ==
  ASSUME PictureInv, [Screen!Next]_(Screen!vars)
  PROVE  PictureInv'
<1>1. CASE UNCHANGED Screen!vars
  BY <1>1 DEF Screen!vars, PictureInv, Told, Playing, OnTheScreen
<1>2. CASE Screen!CoreNext
  BY <1>2, TurningSteps, GeometrySteps, RefreshKeeps, PictureUnloadKeeps DEF Screen!CoreNext
<1>3. CASE Screen!UserNext
  BY <1>3, TurningSteps, WindowEventKeeps, UserResizesKeeps, ShowDialogKeeps DEF Screen!UserNext
<1>4. QED  BY <1>1, <1>2, <1>3 DEF Screen!Next
-----------------------------------------------------------------------------

(* What a division leaves out is less than the divisor.                      *)
LEMMA Quotient ==
  ASSUME NEW p \in Nat, NEW s \in Nat, s > 0
  PROVE  p \div s \in Nat /\ (p \div s) * s <= p /\ p < ((p \div s) + 1) * s
<1>1. ASSUME NEW q, q = p \div s  PROVE q * s <= p
  BY <1>1
<1>2. ASSUME NEW q, q = p \div s  PROVE p < (q + 1) * s
  BY <1>2
<1>3. p \div s \in Int /\ p \div s >= 0
  OBVIOUS
<1>4. QED  BY <1>1, <1>2, <1>3

(* A pixel q of f that covers the place a of s; see PointerHitsPixel.        *)
Hits(q, f, a, s) == q \in 0..(f - 1) /\ q * s <= a * f /\ a * f <= (q + 1) * s

(* Along an axis the division finds that pixel, from the other side, too.    *)
LEMMA AlongHits ==
  ASSUME NEW a \in Nat, NEW s \in Nat, a < s, NEW f \in Nat, f > 0
  PROVE  LET q == (a * f) \div s
         IN Hits(q, f, a, s) /\ Hits(f - q - 1, f, s - a, s)
<1> DEFINE p == a * f
           q == p \div s
<1>1. p \in Nat /\ s > 0
  OBVIOUS
<1>2. p < s * f
  OBVIOUS
<1> HIDE DEF p
<1>3. q \in Nat /\ q * s <= p /\ p < (q + 1) * s
  BY <1>1, Quotient
<1> HIDE DEF q
<1>4. q < f
  <2>1. SUFFICES ASSUME q >= f  PROVE FALSE
    BY <1>3
  <2>2. q * s >= f * s
    BY <1>3, <2>1
  <2>3. f * s = s * f /\ s * f \in Int /\ q * s \in Int
    BY <1>3
  <2>4. QED  BY <1>1, <1>2, <1>3, <2>2, <2>3
<1>5. Hits(q, f, a, s)
  BY <1>3, <1>4 DEF Hits, p
<1>6. Hits(f - q - 1, f, s - a, s)
  <2>1. (f - q - 1) * s = f * s - (q + 1) * s /\ (s - a) * f = s * f - p
    BY <1>3 DEF p
  <2>2. (f - q - 1 + 1) * s = f * s - q * s
    BY <1>3
  <2>3. QED  BY <1>1, <1>3, <1>4, <2>1, <2>2 DEF Hits
<1>7. QED  BY <1>5, <1>6 DEF p, q

(* A point that is clipped lies inside.                                      *)
LEMMA ClipIs ==
  ASSUME NEW x \in Int, NEW length \in Int, length > 0
  PROVE  Screen!Clip(x, length) \in 0..(length - 1)
BY DEF Screen!Clip

(* Wherever the picture is shown, a point of the window finds the pixel that *)
(* is drawn there, turned or not.                                            *)
LEMMA PointerHits == PictureInv => Screen!PointerHitsPixel
<1>1. SUFFICES ASSUME PictureInv, frame # Screen!NoSize,
                      Screen!ViewScaled[1] > 0, Screen!ViewScaled[2] > 0,
                      NEW x \in 0..(video.window[1] - 1), NEW y \in 0..(video.window[2] - 1)
               PROVE  LET at    == Screen!OnScreen(Screen!InView(<<x, y>>))
                          pixel == Screen!Absolute(<<x, y>>)
                      IN \A i \in {1, 2} :
                           /\ pixel[i] \in 0..(frame[i] - 1)
                           /\ pixel[i] * at[i][2] <= at[i][1] * frame[i]
                           /\ at[i][1] * frame[i] <= (pixel[i] + 1) * at[i][2]
  BY DEF Screen!PointerHitsPixel
<1> DEFINE a == Screen!InView(<<x, y>>)
           s == Screen!ViewScaled
           Along(i, axis) == (a[i] * frame[axis]) \div s[i]
<1>2. /\ s[1] \in Int /\ s[2] \in Int /\ video.rotation \in 0..3
      /\ video.window[1] \in Int /\ video.window[2] \in Int
  BY <1>1 DEF PictureInv, IsVideo, Screen!ViewScaled, Sizes
<1>3. /\ frame[1] \in Nat /\ frame[1] > 0 /\ frame[2] \in Nat /\ frame[2] > 0
      /\ video.view = frame /\ video.vertices.rotation = video.rotation
  BY <1>1 DEF PictureInv, OnTheScreen, ViewIsDrawn, Positive
<1>4. a[1] \in 0..(s[1] - 1) /\ a[2] \in 0..(s[2] - 1)
  <2>1. /\ a[1] = Screen!Clip(x - (video.window[1] - s[1]) \div 2, s[1])
        /\ a[2] = Screen!Clip(y - (video.window[2] - s[2]) \div 2, s[2])
    BY DEF Screen!InView
  <2>2. /\ x - (video.window[1] - s[1]) \div 2 \in Int
        /\ y - (video.window[2] - s[2]) \div 2 \in Int
    BY <1>2
  <2> HIDE DEF a, s
  <2>3. s[1] > 0 /\ s[2] > 0
    BY <1>1 DEF s
  <2>4. QED  BY <1>2, <2>1, <2>2, <2>3, ClipIs
<1>5. /\ Screen!OnScreen(a) =
           CASE video.rotation = 0 -> <<<<a[1], s[1]>>, <<a[2], s[2]>>>>
             [] video.rotation = 1 -> <<<<s[2] - a[2], s[2]>>, <<a[1], s[1]>>>>
             [] video.rotation = 2 -> <<<<s[1] - a[1], s[1]>>, <<s[2] - a[2], s[2]>>>>
             [] video.rotation = 3 -> <<<<a[2], s[2]>>, <<s[1] - a[1], s[1]>>>>
      /\ Screen!Absolute(<<x, y>>) =
           CASE video.rotation = 0 -> <<Along(1, 1), Along(2, 2)>>
             [] video.rotation = 1 -> <<frame[1] - Along(2, 1) - 1, Along(1, 2)>>
             [] video.rotation = 2 -> <<frame[1] - Along(1, 1) - 1, frame[2] - Along(2, 2) - 1>>
             [] video.rotation = 3 -> <<Along(2, 1), frame[2] - Along(1, 2) - 1>>
  BY <1>3 DEF Screen!OnScreen, Screen!Absolute
<1>6. s[1] > 0 /\ s[2] > 0
  BY <1>1
<1> HIDE DEF a, s
<1>7. ASSUME NEW i \in {1, 2}, NEW axis \in {1, 2}
      PROVE  /\ Hits(Along(i, axis), frame[axis], a[i], s[i])
             /\ Hits(frame[axis] - Along(i, axis) - 1, frame[axis], s[i] - a[i], s[i])
  <2>1. a[i] \in Nat /\ s[i] \in Nat /\ a[i] < s[i] /\ frame[axis] \in Nat /\ frame[axis] > 0
    BY <1>2, <1>3, <1>4, <1>6
  <2>2. QED  BY <2>1, AlongHits
<1> HIDE DEF Along
<1>8. /\ video.rotation = 0 =>
           /\ Screen!OnScreen(a) = <<<<a[1], s[1]>>, <<a[2], s[2]>>>>
           /\ Screen!Absolute(<<x, y>>) = <<Along(1, 1), Along(2, 2)>>
      /\ video.rotation = 1 =>
           /\ Screen!OnScreen(a) = <<<<s[2] - a[2], s[2]>>, <<a[1], s[1]>>>>
           /\ Screen!Absolute(<<x, y>>) = <<frame[1] - Along(2, 1) - 1, Along(1, 2)>>
      /\ video.rotation = 2 =>
           /\ Screen!OnScreen(a) = <<<<s[1] - a[1], s[1]>>, <<s[2] - a[2], s[2]>>>>
           /\ Screen!Absolute(<<x, y>>) = <<frame[1] - Along(1, 1) - 1, frame[2] - Along(2, 2) - 1>>
      /\ video.rotation = 3 =>
           /\ Screen!OnScreen(a) = <<<<a[2], s[2]>>, <<s[1] - a[1], s[1]>>>>
           /\ Screen!Absolute(<<x, y>>) = <<Along(2, 1), frame[2] - Along(1, 2) - 1>>
  BY <1>5
<1> DEFINE at == Screen!OnScreen(a)
           pixel == Screen!Absolute(<<x, y>>)
<1>9. \A i \in {1, 2} : Hits(pixel[i], frame[i], at[i][1], at[i][2])
  <2>1. CASE video.rotation = 0
    BY <1>7, <1>8, <2>1
  <2>2. CASE video.rotation = 1
    BY <1>7, <1>8, <2>2
  <2>3. CASE video.rotation = 2
    BY <1>7, <1>8, <2>3
  <2>4. CASE video.rotation = 3
    BY <1>7, <1>8, <2>4
  <2>5. QED  BY <1>2, <2>1, <2>2, <2>3, <2>4
<1>10. QED  BY <1>9 DEF Hits, a

(* Beside the other parts the picture is drawn as it is alone.               *)
LEMMA ScreenRuns == Spec => Screen!Spec
<1>1. Init => Screen!Init
  BY DEF Init
<1>2. [Next]_vars => [Screen!Next]_(Screen!vars)
  <2>1. ASSUME OthersStay, which # "video"  PROVE UNCHANGED Screen!vars
    BY <2>1 DEF OthersStay, videoVars, Screen!vars
  <2>2. ASSUME Next  PROVE Screen!Next \/ UNCHANGED Screen!vars
    BY <2>1, <2>2 DEF Next
  <2>3. UNCHANGED vars => UNCHANGED Screen!vars
    BY DEF vars, videoVars, Screen!vars
  <2>4. QED  BY <2>2, <2>3
<1>3. QED  BY <1>1, <1>2, PTL DEF Spec, Screen!Spec

(* PictureIsRight: whatever geometries, frames and windows follow each       *)
(* other, the vertices show the core's last frame as the window is and       *)
(* turned as asked, and the pointer finds the pixel that is drawn under it,  *)
(* for pictures of at least one pixel and any size of window.                *)
THEOREM PictureStaysRight == Spec => []PictureIsRight
<1>1. PictureInv => PictureIsRight
  BY PictureImplies, PointerHits DEF PictureIsRight
<1>2. QED  BY <1>1, PictureInit, PictureKeeps, ScreenRuns, PTL DEF Screen!Spec

-----------------------------------------------------------------------------
(* The messages over the picture: Overlay.                                   *)

(* Beside the other parts the messages run as they do alone.                 *)
LEMMA OverlayRuns == Spec => Messages!Spec
<1>1. Init => Messages!Init
  BY DEF Init
<1>2. [Next]_vars => [Messages!Next]_(Messages!vars)
  <2>1. ASSUME OthersStay, which # "overlay"  PROVE UNCHANGED Messages!vars
    BY <2>1 DEF OthersStay, overlayVars, Messages!vars
  <2>2. ASSUME Next  PROVE Messages!Next \/ UNCHANGED Messages!vars
    BY <2>1, <2>2 DEF Next
  <2>3. UNCHANGED vars => UNCHANGED Messages!vars
    BY DEF vars, overlayVars, Messages!vars
  <2>4. QED  BY <2>2, <2>3
<1>3. QED  BY <1>1, <1>2, PTL DEF Spec, Messages!Spec

Notices == [texture: Nat, frames: Nat \ {0}]

Ascending(list) == \A i, j \in DOMAIN list : i < j => list[i].texture < list[j].texture

(* A message when it has been drawn once more.                               *)
Later(m) == [texture |-> m.texture, frames |-> m.frames - 1]

(* The messages behind the k-th that are not done after one more draw, and   *)
(* the textures of those that are.                                           *)
StaysBehind(list, k, m) == \E j \in (k + 1)..Len(list) : list[j].frames # 1 /\ m = Later(list[j])
DoneBehind(list, k) == {list[j].texture : j \in {i \in (k + 1)..Len(list) : list[i].frames = 1}}

(* Where the loop over the messages has come to the k-th: those up to it are *)
(* as they were, and those behind it were drawn.                             *)
LoopAt(list, textured, k, s) ==
  /\ s.messages \in Seq(Notices) /\ Ascending(s.messages)
  /\ k <= Len(s.messages) /\ Len(s.messages) <= Len(list)
  /\ \A j \in 1..k : s.messages[j] = list[j]
  /\ \A j \in (k + 1)..Len(s.messages) : StaysBehind(list, k, s.messages[j])
  /\ \A m : StaysBehind(list, k, m) => \E j \in (k + 1)..Len(s.messages) : s.messages[j] = m
  /\ s.textures = textured \ DoneBehind(list, k)

(* A list without its k-th element.                                          *)
LEMMA Without ==
  ASSUME NEW list \in Seq(Notices), NEW k \in 1..Len(list)
  PROVE  /\ Messages!RemoveAt(list, k) \in Seq(Notices)
         /\ Len(Messages!RemoveAt(list, k)) = Len(list) - 1
         /\ \A j \in 1..(Len(list) - 1) :
              Messages!RemoveAt(list, k)[j] = IF j < k THEN list[j] ELSE list[j + 1]
<1> DEFINE a == SubSeq(list, 1, k - 1)
           b == SubSeq(list, k + 1, Len(list))
<1>1. Messages!RemoveAt(list, k) = a \o b
  BY DEF Messages!RemoveAt
<1>2. /\ a \in Seq(Notices) /\ Len(a) = k - 1 /\ \A j \in 1..(k - 1) : a[j] = list[j]
  OBVIOUS
<1>3. b \in Seq(Notices) /\ Len(b) = Len(list) - k /\ \A j \in 1..(Len(list) - k) : b[j] = list[k + j]
  OBVIOUS
<1> HIDE DEF a, b
<1>4. /\ a \o b \in Seq(Notices) /\ Len(a \o b) = Len(list) - 1
      /\ \A j \in 1..(Len(list) - 1) :
           (a \o b)[j] = IF j <= k - 1 THEN a[j] ELSE b[j - (k - 1)]
  <2>1. /\ a \o b \in Seq(Notices) /\ Len(a \o b) = Len(a) + Len(b)
        /\ \A j \in 1..Len(a) + Len(b) : (a \o b)[j] = IF j <= Len(a) THEN a[j] ELSE b[j - Len(a)]
    BY <1>2, <1>3, ConcatProperties
  <2>2. Len(a \o b) = Len(list) - 1
    BY <1>2, <1>3, <2>1
  <2>3. QED  BY <1>2, <2>1, <2>2
<1>5. ASSUME NEW j \in 1..(Len(list) - 1)
      PROVE  (a \o b)[j] = IF j < k THEN list[j] ELSE list[j + 1]
  <2>1. CASE j < k
    BY <1>2, <1>4, <2>1
  <2>2. CASE ~(j < k)
    <3>1. (a \o b)[j] = b[j - (k - 1)] /\ j - (k - 1) \in 1..(Len(list) - k)
      <4>1. Len(list) \in Nat /\ ~(j <= k - 1) /\ j - (k - 1) \in 1..(Len(list) - k)
        BY <2>2
      <4>2. QED  BY <1>4, <4>1
    <3>2. b[j - (k - 1)] = list[k + (j - (k - 1))] /\ k + (j - (k - 1)) = j + 1
      BY <1>3, <3>1
    <3>3. QED  BY <2>2, <3>1, <3>2
  <2>3. QED  BY <2>1, <2>2
<1>6. QED  BY <1>1, <1>4, <1>5

(* One turn of the loop: the k-th message is drawn, and stays or goes.       *)
LEMMA LoopStep ==
  ASSUME NEW list \in Seq(Notices), NEW textured, NEW k \in 1..Len(list),
         NEW s, LoopAt(list, textured, k, s)
  PROVE  LoopAt(list, textured, k - 1, Messages!DrawMessage(s, k))
<1> DEFINE old == s.messages
           m == list[k]
           r == Messages!DrawMessage(s, k)
<1>1. /\ old \in Seq(Notices) /\ Len(old) \in Nat /\ Len(list) \in Nat
      /\ k <= Len(old) /\ Len(old) <= Len(list)
      /\ k \in DOMAIN old /\ old[k] = m /\ m \in Notices
      /\ \A i, j \in DOMAIN old : i < j => old[i].texture < old[j].texture
      /\ \A j \in 1..k : old[j] = list[j]
      /\ \A j \in (k + 1)..Len(old) : StaysBehind(list, k, old[j])
      /\ \A x : StaysBehind(list, k, x) => \E j \in (k + 1)..Len(old) : old[j] = x
      /\ s.textures = textured \ DoneBehind(list, k)
  BY DEF LoopAt, Ascending
<1>2. /\ m.texture \in Nat /\ m.frames \in Nat \ {0}
      /\ \A j \in DOMAIN old : old[j].texture \in Nat /\ old[j] \in Notices
      /\ DOMAIN old = 1..Len(old)
  <2>1. old \in Seq(Notices) /\ m \in Notices
    BY <1>1
  <2> HIDE DEF old, m
  <2>2. DOMAIN old = 1..Len(old) /\ \A j \in DOMAIN old : old[j] \in Notices
    BY <2>1
  <2>3. \A x \in Notices : x.texture \in Nat /\ x.frames \in Nat \ {0}
    BY DEF Notices
  <2>4. QED  BY <2>1, <2>2, <2>3
<1>3. ~(k > Len(old))
  BY <1>1
<1>4. /\ \A x : StaysBehind(list, k - 1, x) <=> StaysBehind(list, k, x) \/ (m.frames # 1 /\ x = Later(m))
      /\ DoneBehind(list, k - 1) = DoneBehind(list, k) \cup {j \in {m.texture} : m.frames = 1}
  <2>1. \A j : j \in k..Len(list) <=> j \in (k + 1)..Len(list) \/ j = k
    BY <1>1
  <2>2. (k - 1) + 1 = k
    BY <1>1
  <2>3. QED  BY <2>1, <2>2 DEF StaysBehind, DoneBehind
<1>5. CASE m.frames = 1
  <2> DEFINE new == Messages!RemoveAt(old, k)
  <2>1. r.messages = new /\ r.textures = s.textures \ {m.texture}
    BY <1>1, <1>3, <1>5 DEF Messages!DrawMessage
  <2>2. /\ new \in Seq(Notices) /\ Len(new) = Len(old) - 1
        /\ \A j \in 1..(Len(old) - 1) : new[j] = IF j < k THEN old[j] ELSE old[j + 1]
    <3>1. old \in Seq(Notices) /\ k \in 1..Len(old)
      BY <1>1
    <3> HIDE DEF old
    <3>2. QED  BY <3>1, Without
  <2> HIDE DEF new, r, m
  <2>3. DOMAIN new = 1..(Len(old) - 1)
    BY <1>1, <2>2
  <2>4. Ascending(new)
    <3>1. SUFFICES ASSUME NEW i \in 1..(Len(old) - 1), NEW j \in 1..(Len(old) - 1), i < j
                   PROVE  new[i].texture < new[j].texture
      BY <2>3 DEF Ascending
    <3> DEFINE p == IF i < k THEN i ELSE i + 1
               q == IF j < k THEN j ELSE j + 1
    <3>2. new[i] = old[p] /\ new[j] = old[q]
      BY <2>2
    <3>3. p \in DOMAIN old /\ q \in DOMAIN old /\ p < q
      BY <1>1, <1>2, <3>1
    <3> HIDE DEF p, q
    <3>4. QED  BY <1>1, <3>2, <3>3
  <2>5. \A j \in 1..(k - 1) : new[j] = list[j]
    <3>1. \A j \in 1..(k - 1) : j \in 1..(Len(old) - 1) /\ j < k /\ j \in 1..k
      BY <1>1
    <3>2. QED  BY <1>1, <2>2, <3>1
  <2>6. \A j \in k..(Len(old) - 1) : j + 1 \in (k + 1)..Len(old) /\ new[j] = old[j + 1]
    <3>1. \A j \in k..(Len(old) - 1) : j \in 1..(Len(old) - 1) /\ ~(j < k) /\ j + 1 \in (k + 1)..Len(old)
      BY <1>1
    <3>2. QED  BY <2>2, <3>1
  <2>7. \A j \in k..Len(new) : StaysBehind(list, k - 1, new[j])
    BY <1>1, <1>4, <2>2, <2>6
  <2>8. ASSUME NEW x, StaysBehind(list, k - 1, x)  PROVE \E j \in k..Len(new) : new[j] = x
    <3>1. PICK j \in (k + 1)..Len(old) : old[j] = x
      BY <1>1, <1>4, <1>5, <2>8
    <3>2. j - 1 \in k..Len(new) /\ j - 1 \in k..(Len(old) - 1) /\ (j - 1) + 1 = j
      BY <1>1, <2>2
    <3>3. QED  BY <2>6, <3>1, <3>2
  <2>9. r.textures = textured \ DoneBehind(list, k - 1)
    BY <1>1, <1>4, <1>5, <2>1
  <2>10. k - 1 <= Len(new) /\ Len(new) <= Len(list) /\ (k - 1) + 1 = k
    BY <1>1, <2>2
  <2>11. QED  BY <2>1, <2>2, <2>4, <2>5, <2>7, <2>8, <2>9, <2>10 DEF LoopAt, r
<1>6. CASE m.frames # 1
  <2> DEFINE new == [old EXCEPT ![k].frames = @ - 1]
  <2>1. r.messages = new /\ r.textures = s.textures
    BY <1>1, <1>3, <1>6 DEF Messages!DrawMessage
  <2>2. new = [old EXCEPT ![k] = Later(m)] /\ Later(m) \in Notices
    <3>1. m = [texture |-> m.texture, frames |-> m.frames] /\ m.frames - 1 \in Nat \ {0}
      <4>1. m \in Notices /\ m.frames \in Nat \ {0}
        BY <1>1, <1>2
      <4> HIDE DEF m
      <4>2. m = [texture |-> m.texture, frames |-> m.frames]
        BY <4>1 DEF Notices
      <4>3. QED  BY <1>6, <4>1, <4>2
    <3>2. [m EXCEPT !.frames = @ - 1] = Later(m)
      BY <3>1 DEF Later
    <3>3. Later(m) \in Notices
      BY <1>2, <3>1 DEF Later, Notices
    <3>4. new = [old EXCEPT ![k] = [m EXCEPT !.frames = @ - 1]]
      BY <1>1
    <3>5. QED  BY <3>2, <3>3, <3>4
  <2> HIDE DEF new, r, m
  <2>3. /\ new \in Seq(Notices) /\ Len(new) = Len(old) /\ DOMAIN new = DOMAIN old
        /\ new[k] = Later(m) /\ \A j \in DOMAIN old : j # k => new[j] = old[j]
    BY <1>1, <2>2
  <2>4. Later(m).texture = m.texture
    BY DEF Later
  <2>5. Ascending(new)
    <3>1. \A j \in DOMAIN old : new[j].texture = old[j].texture
      BY <1>1, <2>3, <2>4
    <3>2. QED  BY <1>1, <2>3, <3>1 DEF Ascending
  <2>6. \A j \in 1..(k - 1) : new[j] = list[j]
    <3>1. \A j \in 1..(k - 1) : j \in DOMAIN old /\ j # k /\ j \in 1..k
      BY <1>1, <1>2
    <3>2. QED  BY <1>1, <2>3, <3>1
  <2>7. \A j \in k..Len(new) : j = k \/ (j \in (k + 1)..Len(old) /\ new[j] = old[j])
    <3>1. \A j \in k..Len(new) : j \in DOMAIN old /\ (j = k \/ (j # k /\ j \in (k + 1)..Len(old)))
      BY <1>1, <1>2, <2>3
    <3>2. QED  BY <2>3, <3>1
  <2>8. \A j \in k..Len(new) : StaysBehind(list, k - 1, new[j])
    <3>1. StaysBehind(list, k - 1, Later(m))
      BY <1>4, <1>6
    <3>2. QED  BY <1>1, <1>4, <2>3, <2>7, <3>1
  <2>9. ASSUME NEW x, StaysBehind(list, k - 1, x)  PROVE \E j \in k..Len(new) : new[j] = x
    <3>1. CASE x = Later(m)
      <4>1. k \in k..Len(new)
        BY <1>1, <2>3
      <4>2. QED  BY <2>3, <3>1, <4>1
    <3>2. CASE StaysBehind(list, k, x)
      <4>1. PICK j \in (k + 1)..Len(old) : old[j] = x
        BY <1>1, <3>2
      <4>2. j \in k..Len(new) /\ j \in DOMAIN old /\ j # k
        BY <1>1, <1>2, <2>3
      <4>3. QED  BY <2>3, <4>1, <4>2
    <3>3. QED  BY <1>4, <2>9, <3>1, <3>2
  <2>10. r.textures = textured \ DoneBehind(list, k - 1)
    BY <1>1, <1>4, <1>6, <2>1
  <2>11. k - 1 <= Len(new) /\ Len(new) <= Len(list) /\ (k - 1) + 1 = k
    BY <1>1, <2>3
  <2>12. QED  BY <2>1, <2>3, <2>5, <2>6, <2>8, <2>9, <2>10, <2>11 DEF LoopAt, r
<1>7. QED  BY <1>5, <1>6

(* Some numbers have a least one.                                            *)
LEMMA HasLeast ==
  ASSUME NEW S, S \subseteq Nat, S # {}
  PROVE  \E x \in S : \A y \in S : x <= y
<1> DEFINE less == OpToRel(<, Nat)
<1>1. IsWellFoundedOn(less, Nat)
  BY NatLessThanWellFounded
<1>2. \A x, y \in Nat : <<y, x>> \in less <=> y < x
  BY DEF OpToRel
<1> HIDE DEF less
<1>3. PICK x \in S : \A y \in S : ~(<<y, x>> \in less)
  BY <1>1, WFMin
<1>4. ASSUME NEW y \in S  PROVE x <= y
  <2>1. ~(y < x) /\ x \in Nat /\ y \in Nat
    BY <1>2, <1>3
  <2>2. QED  BY <2>1
<1>5. QED  BY <1>4

(* The loop takes the messages one after the other, from the last to the     *)
(* first.                                                                    *)
LEMMA LoopInOrder ==
  ASSUME NEW list \in Seq(Notices), NEW textured
  PROVE  \E after :
           /\ after[0] = Messages!Shown(list, textured)
           /\ \A n \in 1..Len(list) :
                after[n] = Messages!DrawMessage(after[n - 1], Len(list) + 1 - n)
           /\ Messages!Drawn(list, textured) = after[Len(list)]
<1> DEFINE len == Len(list)
           start == Messages!Shown(list, textured)
           Turned(f, n) == IF n = 0 THEN start ELSE Messages!DrawMessage(f[n - 1], len + 1 - n)
           Follows(f, m) == f = [n \in 0..m |-> Turned(f, n)]
<1>1. len \in Nat
  OBVIOUS
<1>2. Messages!Drawn(list, textured) = (CHOOSE f : Follows(f, len))[len]
  BY DEF Messages!Drawn
<1> DEFINE bad == {m \in 0..len : ~\E f : Follows(f, m)}
<1>3. bad = {}
  <2>1. SUFFICES ASSUME bad # {} PROVE FALSE
    OBVIOUS
  <2>2. PICK m \in bad : \A j \in bad : m <= j
    <3>1. bad \subseteq Nat
      BY <1>1
    <3> HIDE DEF bad
    <3>2. QED  BY <2>1, <3>1, HasLeast
  <2>3. m \in 0..len /\ ~\E f : Follows(f, m)
    BY <2>2
  <2>4. CASE m = 0
    <3> DEFINE f == [n \in 0..0 |-> start]
    <3>1. Follows(f, 0)
      OBVIOUS
    <3>2. QED  BY <2>3, <2>4, <3>1
  <2>5. CASE m # 0
    <3>1. m - 1 \in 0..len /\ ~(m <= m - 1)
      BY <1>1, <2>3, <2>5
    <3>2. PICK f : Follows(f, m - 1)
      BY <2>2, <3>1
    <3> DEFINE added == Turned(f, m)
               g == [n \in 0..m |-> IF n = m THEN added ELSE f[n]]
    <3>3. \A n \in 0..m : Turned(g, n) = Turned(f, n)
      <4>1. \A n \in 0..m : n # 0 => n - 1 \in 0..m /\ n - 1 # m
        BY <1>1, <2>3
      <4> HIDE DEF added
      <4>2. \A n \in 0..m : n # 0 => g[n - 1] = f[n - 1]
        BY <4>1
      <4> HIDE DEF g
      <4>3. QED  BY <4>2
    <3>4. \A n \in 0..m : n # m => f[n] = Turned(f, n)
      <4>1. \A n \in 0..m : n # m => n \in 0..(m - 1)
        BY <1>1, <2>3
      <4> HIDE DEF Turned
      <4>2. QED  BY <3>2, <4>1
    <3>5. g = [n \in 0..m |-> Turned(f, n)]
      <4> HIDE DEF Turned
      <4>1. QED  BY <3>4
    <3>6. Follows(g, m)
      <4> HIDE DEF Turned, g
      <4>1. QED  BY <3>3, <3>5
    <3>7. QED  BY <2>3, <3>6
  <2>6. QED  BY <2>4, <2>5
<1>4. PICK f : Follows(f, len)
  <2>1. len \in 0..len
    BY <1>1
  <2>2. QED  BY <1>3, <2>1
<1> DEFINE after == CHOOSE h : Follows(h, len)
<1>5. Follows(after, len)
  <2> HIDE DEF Follows
  <2>1. QED  BY <1>4
<1> HIDE DEF after
<1>6. \A n \in 0..len : after[n] = Turned(after, n)
  <2> HIDE DEF Turned
  <2>1. QED  BY <1>5
<1>7. after[0] = start
  BY <1>1, <1>6
<1>8. \A n \in 1..len : after[n] = Messages!DrawMessage(after[n - 1], len + 1 - n)
  <2>1. \A n \in 1..len : n \in 0..len /\ n # 0
    BY <1>1
  <2>2. QED  BY <1>6, <2>1
<1>9. Messages!Drawn(list, textured) = after[len]
  BY <1>2 DEF after
<1>10. QED  BY <1>7, <1>8, <1>9

(* Once the loop is through, every message was drawn once more.              *)
LEMMA LoopDraws ==
  ASSUME NEW list \in Seq(Notices), Ascending(list), NEW textured
  PROVE  LoopAt(list, textured, 0, Messages!Drawn(list, textured))
<1> DEFINE len == Len(list)
<1>1. PICK after :
        /\ after[0] = Messages!Shown(list, textured)
        /\ \A n \in 1..len : after[n] = Messages!DrawMessage(after[n - 1], len + 1 - n)
        /\ Messages!Drawn(list, textured) = after[len]
  BY LoopInOrder
<1> DEFINE Good(n) == LoopAt(list, textured, len - n, after[n])
<1>2. len \in Nat
  OBVIOUS
<1>3. Good(0)
  <2>1. after[0].messages = list /\ after[0].textures = textured
    BY <1>1 DEF Messages!Shown
  <2>2. \A j \in (len + 1)..len : FALSE
    BY <1>2
  <2>3. len - 0 = len
    BY <1>2
  <2>4. DoneBehind(list, len) = {} /\ \A x : ~StaysBehind(list, len, x)
    BY <2>2 DEF DoneBehind, StaysBehind
  <2>5. LoopAt(list, textured, len, after[0])
    BY <1>2, <2>1, <2>2, <2>4 DEF LoopAt
  <2>6. QED  BY <2>3, <2>5
<1>4. ASSUME NEW n \in 1..len, Good(n - 1)  PROVE Good(n)
  <2> DEFINE k == len + 1 - n
  <2>1. k \in 1..len /\ len - (n - 1) = k /\ len - n = k - 1
    BY <1>2
  <2>2. LoopAt(list, textured, k, after[n - 1])
    BY <1>4, <2>1
  <2>3. LoopAt(list, textured, k - 1, Messages!DrawMessage(after[n - 1], k))
    <3> HIDE DEF k
    <3>1. QED  BY <2>1, <2>2, LoopStep
  <2>4. after[n] = Messages!DrawMessage(after[n - 1], k)
    BY <1>1
  <2>5. QED  BY <2>1, <2>3, <2>4
<1>5. \A n \in 0..len : Good(n)
  <2> DEFINE bad == {n \in 0..len : ~Good(n)}
  <2>1. SUFFICES ASSUME bad # {} PROVE FALSE
    OBVIOUS
  <2> HIDE DEF Good
  <2>2. PICK n \in bad : \A j \in bad : n <= j
    <3>1. bad \subseteq Nat
      BY <1>2
    <3> HIDE DEF bad
    <3>2. QED  BY <2>1, <3>1, HasLeast
  <2>3. n \in 0..len /\ ~Good(n) /\ n # 0
    BY <1>3, <2>2
  <2>4. n \in 1..len /\ n - 1 \in 0..len /\ ~(n <= n - 1)
    BY <1>2, <2>3
  <2>5. Good(n - 1)
    BY <2>2, <2>4
  <2>6. QED  BY <1>4, <2>3, <2>4, <2>5
<1>6. Good(len) /\ len - len = 0
  BY <1>2, <1>5
<1>7. QED  BY <1>1, <1>6

(* What a message in the list was promised, when draws frames were drawn.    *)
Due(m, draws) == [texture |-> m.texture, upTo |-> draws + m.frames]
LiveAt(draws) == {p \in promised : p.upTo > draws}
DueOf(list, draws) == {Due(list[i], draws) : i \in DOMAIN list}

(* A list of messages and the textures there are agree with what was         *)
(* promised.                                                                 *)
ListFits(list, textured, draws) ==
  /\ list \in Seq(Notices) /\ Len(list) <= Slots /\ Ascending(list)
  /\ \A i \in DOMAIN list : list[i].texture <= count.messages
  /\ LiveAt(draws) = DueOf(list, draws)
  /\ textured = {list[i].texture : i \in DOMAIN list}

WipedAtLast == window.by = "turn" /\ messages = <<>> => window.drawn = {}

OverlayInv ==
  /\ count \in [messages: Nat, draws: Nat]
  /\ promised \subseteq [texture: Nat, upTo: Nat]
  /\ ListFits(messages, textures, count.draws)
  /\ WipedAtLast

(* A list of notices, entry by entry.                                        *)
LEMMA NoticeTypes ==
  ASSUME NEW list \in Seq(Notices)
  PROVE  /\ DOMAIN list = 1..Len(list) /\ Len(list) \in Nat
         /\ \A i \in DOMAIN list : list[i].texture \in Nat /\ list[i].frames \in Nat \ {0}
<1>1. DOMAIN list = 1..Len(list) /\ Len(list) \in Nat /\ \A i \in DOMAIN list : list[i] \in Notices
  OBVIOUS
<1>2. \A x \in Notices : x.texture \in Nat /\ x.frames \in Nat \ {0}
  BY DEF Notices
<1>3. QED  BY <1>1, <1>2

(* Drawing keeps the agreement, with a frame more.                           *)
LEMMA DrawFits ==
  ASSUME NEW list, NEW textured, NEW draws \in Nat,
         promised \subseteq [texture: Nat, upTo: Nat], ListFits(list, textured, draws)
  PROVE  LET s == Messages!Drawn(list, textured)
         IN ListFits(s.messages, s.textures, draws + 1)
<1> DEFINE s == Messages!Drawn(list, textured)
           new == s.messages
<1>1. list \in Seq(Notices) /\ Ascending(list) /\ Len(list) <= Slots
  BY DEF ListFits
<1>2. LoopAt(list, textured, 0, s)
  BY <1>1, LoopDraws
<1> HIDE DEF s
<1>3. /\ new \in Seq(Notices) /\ Ascending(new) /\ Len(new) <= Len(list)
      /\ \A j \in 1..Len(new) : StaysBehind(list, 0, new[j])
      /\ \A m : StaysBehind(list, 0, m) => \E j \in 1..Len(new) : new[j] = m
      /\ s.textures = textured \ DoneBehind(list, 0)
  BY <1>2 DEF LoopAt
<1>4. /\ DOMAIN list = 1..Len(list) /\ Len(list) \in Nat
      /\ \A i \in DOMAIN list : list[i].texture \in Nat /\ list[i].frames \in Nat \ {0}
      /\ DOMAIN new = 1..Len(new) /\ Len(new) \in Nat
  BY <1>1, <1>3, NoticeTypes
<1> HIDE DEF new
<1>5. Len(new) <= Slots
  BY <1>1, <1>3, <1>4, OverlayAssumption
<1>6. \A m : StaysBehind(list, 0, m) <=>
        \E i \in DOMAIN list : list[i].frames # 1 /\ m = Later(list[i])
  BY <1>4 DEF StaysBehind
<1>7. \A i \in DOMAIN new : new[i].texture <= count.messages
  <2>1. SUFFICES ASSUME NEW i \in DOMAIN new  PROVE new[i].texture <= count.messages
    OBVIOUS
  <2>2. PICK j \in DOMAIN list : new[i] = Later(list[j])
    BY <1>3, <1>4, <1>6
  <2>3. new[i].texture = list[j].texture
    BY <2>2 DEF Later
  <2>4. QED  BY <2>3 DEF ListFits
<1>8. LiveAt(draws + 1) = DueOf(new, draws + 1)
  <2>1. ASSUME NEW p \in LiveAt(draws + 1)  PROVE p \in DueOf(new, draws + 1)
    <3>1. p \in promised /\ p.upTo \in Nat /\ p.upTo > draws + 1
      BY <2>1 DEF LiveAt
    <3>2. p \in LiveAt(draws)
      BY <3>1 DEF LiveAt
    <3>3. PICK i \in DOMAIN list : p = Due(list[i], draws)
      BY <3>2 DEF ListFits, DueOf
    <3>4. p.upTo = draws + list[i].frames
      BY <3>3 DEF Due
    <3>5. list[i].frames # 1 /\ draws + list[i].frames = (draws + 1) + (list[i].frames - 1)
      BY <1>4, <3>1, <3>4
    <3>6. PICK j \in DOMAIN new : new[j] = Later(list[i])
      BY <1>3, <1>4, <1>6, <3>5
    <3>7. Due(new[j], draws + 1) = p
      BY <3>3, <3>5, <3>6 DEF Due, Later
    <3>8. QED  BY <3>7 DEF DueOf
  <2>2. ASSUME NEW j \in DOMAIN new  PROVE Due(new[j], draws + 1) \in LiveAt(draws + 1)
    <3>1. PICK i \in DOMAIN list : list[i].frames # 1 /\ new[j] = Later(list[i])
      BY <1>3, <1>4, <1>6
    <3>2. draws + list[i].frames = (draws + 1) + (list[i].frames - 1)
          /\ draws + list[i].frames > draws + 1
      BY <1>4, <3>1
    <3>3. Due(new[j], draws + 1) = Due(list[i], draws)
      BY <3>1, <3>2 DEF Due, Later
    <3>4. Due(list[i], draws) \in promised /\ Due(list[i], draws).upTo = draws + list[i].frames
      BY DEF ListFits, DueOf, LiveAt, Due
    <3>5. QED  BY <3>2, <3>3, <3>4 DEF LiveAt
  <2>3. QED  BY <2>1, <2>2 DEF DueOf
<1>9. s.textures = {new[i].texture : i \in DOMAIN new}
  <2>1. ASSUME NEW t \in s.textures  PROVE \E j \in DOMAIN new : t = new[j].texture
    <3>1. PICK i \in DOMAIN list : t = list[i].texture
      BY <1>3, <2>1 DEF ListFits
    <3>2. list[i].frames # 1
      BY <1>3, <1>4, <2>1, <3>1 DEF DoneBehind
    <3>3. PICK j \in DOMAIN new : new[j] = Later(list[i])
      BY <1>3, <1>4, <1>6, <3>2
    <3>4. QED  BY <3>1, <3>3 DEF Later
  <2>2. ASSUME NEW j \in DOMAIN new  PROVE new[j].texture \in s.textures
    <3>1. PICK i \in DOMAIN list : list[i].frames # 1 /\ new[j] = Later(list[i])
      BY <1>3, <1>4, <1>6
    <3>2. new[j].texture = list[i].texture
      BY <3>1 DEF Later
    <3>3. list[i].texture \in textured
      BY DEF ListFits
    <3>4. list[i].texture \notin DoneBehind(list, 0)
      <4>1. SUFFICES ASSUME NEW h \in DOMAIN list, list[h].frames = 1, list[h].texture = list[i].texture
                     PROVE  FALSE
        BY <1>4 DEF DoneBehind
      <4>2. h < i \/ i < h
        BY <1>4, <3>1, <4>1
      <4>3. QED  BY <1>1, <1>4, <4>1, <4>2 DEF Ascending
    <3>5. QED  BY <1>3, <3>2, <3>3, <3>4
  <2>3. QED  BY <2>1, <2>2
<1>10. QED  BY <1>3, <1>5, <1>7, <1>8, <1>9 DEF ListFits, new, s

(* What is promised counts as many as there are messages.                    *)
LEMMA AsManyPromised ==
  ASSUME NEW list, NEW textured, NEW draws \in Nat, ListFits(list, textured, draws)
  PROVE  Messages!Cardinality(LiveAt(draws)) = Len(list)
<1> DEFINE due == [i \in 1..Len(list) |-> Due(list[i], draws)]
           S == DueOf(list, draws)
<1>1. /\ list \in Seq(Notices) /\ Ascending(list) /\ LiveAt(draws) = S
  BY DEF ListFits
<1>2. /\ DOMAIN list = 1..Len(list) /\ Len(list) \in Nat
      /\ \A i \in DOMAIN list : list[i].texture \in Nat
  BY <1>1, NoticeTypes
<1>3. due \in Surjection(1..Len(list), S)
  <2>1. \A i \in 1..Len(list) : due[i] \in S
    BY <1>2 DEF DueOf
  <2>2. \A x \in S : \E i \in 1..Len(list) : due[i] = x
    BY <1>2 DEF DueOf
  <2> HIDE DEF S
  <2>3. QED  BY <2>1, <2>2 DEF Surjection
<1>4. \A i, j \in 1..Len(list) : due[i] = due[j] => i = j
  <2>1. SUFFICES ASSUME NEW i \in 1..Len(list), NEW j \in 1..Len(list), due[i] = due[j], i < j \/ j < i
                 PROVE  FALSE
    BY <1>2
  <2>2. list[i].texture = list[j].texture
    <3>1. Due(list[i], draws).texture = Due(list[j], draws).texture
      BY <2>1
    <3>2. QED  BY <3>1 DEF Due
  <2>3. QED  BY <1>1, <1>2, <2>1, <2>2 DEF Ascending
<1>5. ExistsBijection(1..Len(list), S)
  <2> HIDE DEF due, S
  <2>1. due \in Bijection(1..Len(list), S)
    BY <1>3, <1>4 DEF Bijection, Injection, Surjection, IsInjective
  <2>2. QED  BY <2>1 DEF ExistsBijection
<1>6. Cardinality(S) = Len(list)
  <2> HIDE DEF S
  <2>1. QED  BY <1>2, <1>5, FS_CountingElements
<1>7. \A T : Messages!Cardinality(T) = Cardinality(T)
  BY DEF Messages!Cardinality, Cardinality
<1>8. QED  BY <1>1, <1>6, <1>7

(* A frame or more that is drawn keeps what the invariant says of the list.  *)
LEMMA ListDrawn ==
  ASSUME OverlayInv, NEW list, NEW textured, NEW draws \in Nat, ListFits(list, textured, draws),
         messages' = list, textures' = textured, promised' = promised,
         count' = [count EXCEPT !.draws = draws]
  PROVE  /\ count' \in [messages: Nat, draws: Nat]
         /\ promised' \subseteq [texture: Nat, upTo: Nat]
         /\ ListFits(messages, textures, count.draws)'
<1>1. count' \in [messages: Nat, draws: Nat] /\ count'.messages = count.messages /\ count'.draws = draws
  BY DEF OverlayInv
<1>2. ListFits(messages, textures, count.draws)'
  BY <1>1 DEF ListFits, LiveAt, DueOf, Due, Ascending, Notices
<1>3. QED  BY <1>1, <1>2 DEF OverlayInv

(* Drawing keeps the invariant.                                              *)
LEMMA DrawKeeps ==
  ASSUME OverlayInv, promised' = promised, NEW by, by # "turn", Messages!Draw(by)
  PROVE  OverlayInv'
<1> DEFINE s == Messages!Drawn(messages, textures)
<1>1. CASE ~ready
  <2>1. UNCHANGED <<messages, textures, window, count, promised>>
    BY <1>1 DEF Messages!Draw
  <2>2. QED  BY <2>1 DEF OverlayInv, ListFits, LiveAt, DueOf, Due, Ascending, Notices, WipedAtLast
<1>2. CASE ready
  <2>1. /\ messages' = s.messages /\ textures' = s.textures /\ window'.by = by
        /\ count' = [count EXCEPT !.draws = @ + 1]
    BY <1>2 DEF Messages!Draw
  <2>2. count.draws \in Nat /\ ListFits(s.messages, s.textures, count.draws + 1)
    BY DrawFits DEF OverlayInv
  <2> HIDE DEF s
  <2>3. count' = [count EXCEPT !.draws = count.draws + 1] /\ count.draws + 1 \in Nat
    BY <2>1, <2>2
  <2>4. /\ count' \in [messages: Nat, draws: Nat]
        /\ promised' \subseteq [texture: Nat, upTo: Nat]
        /\ ListFits(messages, textures, count.draws)'
    BY <2>1, <2>2, <2>3, ListDrawn
  <2>5. QED  BY <2>1, <2>4 DEF OverlayInv, WipedAtLast
<1>3. QED  BY <1>1, <1>2

(* So does a frame, which may not be drawn.                                  *)
LEMMA FrameKeeps == ASSUME OverlayInv, NEW skipped, Messages!Frame(skipped)  PROVE OverlayInv'
<1>1. CASE skipped
  <2>1. UNCHANGED <<messages, textures, window, count, promised>>
    BY <1>1 DEF Messages!Frame
  <2>2. QED  BY <2>1 DEF OverlayInv, ListFits, LiveAt, DueOf, Due, Ascending, Notices, WipedAtLast
<1>2. CASE ~skipped
  <2>1. promised' = promised /\ Messages!Draw("frame")
    BY <1>2 DEF Messages!Frame
  <2>2. QED  BY <2>1, DrawKeeps
<1>3. QED  BY <1>1, <1>2

(* So does a turn of the loop without a frame.                               *)
LEMMA TurnKeeps == ASSUME OverlayInv, Messages!Turn  PROVE OverlayInv'
<1> DEFINE s == Messages!Drawn(messages, textures)
<1>1. /\ messages' = s.messages /\ textures' = s.textures /\ promised' = promised
      /\ window' = [by |-> "turn", drawn |-> IF s.messages = <<>> THEN {} ELSE s.drawn]
      /\ count' = [count EXCEPT !.draws = @ + 1]
  BY DEF Messages!Turn
<1>2. count.draws \in Nat /\ ListFits(s.messages, s.textures, count.draws + 1)
  BY DrawFits DEF OverlayInv
<1> HIDE DEF s
<1>3. count' = [count EXCEPT !.draws = count.draws + 1] /\ count.draws + 1 \in Nat
  BY <1>1, <1>2
<1>4. /\ count' \in [messages: Nat, draws: Nat]
      /\ promised' \subseteq [texture: Nat, upTo: Nat]
      /\ ListFits(messages, textures, count.draws)'
  BY <1>1, <1>2, <1>3, ListDrawn
<1>5. WipedAtLast'
  BY <1>1 DEF WipedAtLast
<1>6. QED  BY <1>4, <1>5 DEF OverlayInv

(* So does a change of the speed indicator.                                  *)
LEMMA IndicatorKeeps ==
  ASSUME OverlayInv, promised' = promised, Messages!UpdateSpeedIndicator  PROVE OverlayInv'
<1>1. UNCHANGED <<messages, textures, window, count>> \/ Messages!Draw("frame")
  BY DEF Messages!UpdateSpeedIndicator
<1>2. CASE UNCHANGED <<messages, textures, window, count>>
  BY <1>2 DEF OverlayInv, ListFits, LiveAt, DueOf, Due, Ascending, Notices, WipedAtLast
<1>3. QED  BY <1>1, <1>2, DrawKeeps

(* With a paused game the dialog's end draws twice.                          *)
LEMMA SettingsKeep == ASSUME OverlayInv, Messages!ShowEmulatorSettings  PROVE OverlayInv'
<1> DEFINE once  == Messages!Drawn(messages, textures)
           twice == Messages!Drawn(once.messages, once.textures)
<1>1. /\ promised' = promised
      /\ \/ UNCHANGED <<messages, textures, window, count>>
         \/ /\ messages' = twice.messages /\ textures' = twice.textures /\ window'.by = "frame"
            /\ count' = [count EXCEPT !.draws = @ + 2]
         \/ Messages!Draw("frame")
  BY DEF Messages!ShowEmulatorSettings
<1>2. CASE UNCHANGED <<messages, textures, window, count>>
  BY <1>1, <1>2 DEF OverlayInv, ListFits, LiveAt, DueOf, Due, Ascending, Notices, WipedAtLast
<1>3. CASE /\ messages' = twice.messages /\ textures' = twice.textures /\ window'.by = "frame"
           /\ count' = [count EXCEPT !.draws = @ + 2]
  <2>1. count.draws \in Nat /\ promised \subseteq [texture: Nat, upTo: Nat]
        /\ ListFits(once.messages, once.textures, count.draws + 1)
    BY DrawFits DEF OverlayInv
  <2> HIDE DEF once
  <2>2. ListFits(twice.messages, twice.textures, (count.draws + 1) + 1)
    BY <2>1, DrawFits
  <2> HIDE DEF twice
  <2>3. /\ count' = [count EXCEPT !.draws = (count.draws + 1) + 1]
        /\ (count.draws + 1) + 1 \in Nat
    BY <1>3, <2>1
  <2>4. /\ count' \in [messages: Nat, draws: Nat]
        /\ promised' \subseteq [texture: Nat, upTo: Nat]
        /\ ListFits(messages, textures, count.draws)'
    BY <1>1, <1>3, <2>2, <2>3, ListDrawn
  <2>5. QED  BY <1>3, <2>4 DEF OverlayInv, WipedAtLast
<1>4. QED  BY <1>1, <1>2, <1>3, DrawKeeps

(* The room that is made for a new message: a full list loses its first, and *)
(* what was promised of it is forgotten.                                     *)
LEMMA RoomFits ==
  ASSUME OverlayInv
  PROVE  LET full == Len(messages) = Slots
             left == IF full THEN Tail(messages) ELSE messages
         IN /\ left \in Seq(Notices) /\ Len(left) < Slots /\ Ascending(left)
            /\ \A i \in DOMAIN left : left[i].texture <= count.messages
            /\ (IF Messages!Cardinality(Messages!Live) = Slots
                  THEN Messages!Live \ Messages!Oldest ELSE Messages!Live) = DueOf(left, count.draws)
            /\ (IF full THEN textures \ {messages[1].texture} ELSE textures)
                 = {left[i].texture : i \in DOMAIN left}
            /\ full => left # <<>>
<1> DEFINE d == count.draws
<1>1. /\ messages \in Seq(Notices) /\ Len(messages) <= Slots /\ Ascending(messages) /\ d \in Nat
      /\ \A i \in DOMAIN messages : messages[i].texture <= count.messages
      /\ LiveAt(d) = DueOf(messages, d)
      /\ textures = {messages[i].texture : i \in DOMAIN messages}
      /\ ListFits(messages, textures, d)
  BY DEF OverlayInv, ListFits
<1>2. Messages!Live = LiveAt(d) /\ Messages!Cardinality(LiveAt(d)) = Len(messages)
  BY <1>1, AsManyPromised DEF Messages!Live, LiveAt
<1>3. /\ DOMAIN messages = 1..Len(messages) /\ Len(messages) \in Nat
      /\ \A i \in DOMAIN messages : messages[i].texture \in Nat
  BY <1>1, NoticeTypes
<1> HIDE DEF d
<1>4. CASE Len(messages) # Slots
  BY <1>1, <1>2, <1>3, <1>4, OverlayAssumption DEF d
<1>5. CASE Len(messages) = Slots
  <2> DEFINE rest == Tail(messages)
  <2>1. /\ rest \in Seq(Notices) /\ Len(rest) = Len(messages) - 1
        /\ \A i \in 1..Len(rest) : rest[i] = messages[i + 1]
    <3>1. messages # <<>>
      BY <1>3, <1>5, OverlayAssumption
    <3>2. QED  BY <1>1, <3>1, HeadTailProperties
  <2> HIDE DEF rest
  <2>2. DOMAIN rest = 1..Len(rest) /\ Len(rest) \in Nat /\ Len(rest) >= 1
    BY <1>3, <1>5, <2>1, OverlayAssumption
  <2>3. \A i \in DOMAIN rest : i + 1 \in DOMAIN messages /\ 1 < i + 1 /\ rest[i] = messages[i + 1]
    BY <1>3, <2>1, <2>2
  <2>4. 1 \in DOMAIN messages /\ \A i \in DOMAIN messages : i # 1 => i - 1 \in DOMAIN rest
                                                            /\ rest[i - 1] = messages[i] /\ 1 < i
    <3>1. \A i \in DOMAIN messages : i # 1 => i - 1 \in DOMAIN rest /\ (i - 1) + 1 = i /\ 1 < i
      BY <1>3, <2>1, <2>2
    <3>2. QED  BY <1>3, <2>1, <2>2, <2>3, <3>1
  <2>5. Ascending(rest)
    <3>1. SUFFICES ASSUME NEW i \in DOMAIN rest, NEW j \in DOMAIN rest, i < j
                   PROVE  rest[i].texture < rest[j].texture
      BY DEF Ascending
    <3>2. i + 1 < j + 1
      BY <2>2, <3>1
    <3>3. QED  BY <1>1, <2>3, <3>2 DEF Ascending
  <2>6. \A i \in DOMAIN messages : i # 1 => messages[1].texture < messages[i].texture
    BY <1>1, <2>4 DEF Ascending
  <2>7. Messages!Oldest = {Due(messages[1], d)}
    <3>1. Messages!Oldest = {p \in DueOf(messages, d) : \A q \in DueOf(messages, d) : p.texture <= q.texture}
      BY <1>1, <1>2 DEF Messages!Oldest
    <3>2. \A i \in DOMAIN messages : Due(messages[i], d).texture = messages[i].texture
      BY DEF Due
    <3>3. \A i \in DOMAIN messages : messages[1].texture <= messages[i].texture
      BY <1>3, <2>4, <2>6
    <3>4. Due(messages[1], d) \in Messages!Oldest
      BY <2>4, <3>1, <3>2, <3>3 DEF DueOf
    <3>5. ASSUME NEW p \in Messages!Oldest  PROVE p = Due(messages[1], d)
      <4>1. PICK i \in DOMAIN messages : p = Due(messages[i], d)
        BY <3>1, <3>5 DEF DueOf
      <4>2. p.texture <= messages[1].texture
        BY <2>4, <3>1, <3>2, <3>5 DEF DueOf
      <4>3. i = 1
        BY <1>3, <2>4, <2>6, <3>2, <4>1, <4>2
      <4>4. QED  BY <4>1, <4>3
    <3>6. QED  BY <3>4, <3>5
  <2>8. DueOf(messages, d) \ {Due(messages[1], d)} = DueOf(rest, d)
    <3>1. ASSUME NEW p \in DueOf(messages, d), p # Due(messages[1], d)  PROVE p \in DueOf(rest, d)
      <4>1. PICK i \in DOMAIN messages : p = Due(messages[i], d)
        BY <3>1 DEF DueOf
      <4>2. i # 1
        BY <3>1, <4>1
      <4>3. QED  BY <2>4, <4>1, <4>2 DEF DueOf
    <3>2. ASSUME NEW i \in DOMAIN rest
          PROVE  Due(rest[i], d) \in DueOf(messages, d) /\ Due(rest[i], d) # Due(messages[1], d)
      <4>1. messages[1].texture < messages[i + 1].texture
        BY <1>1, <2>3, <2>4 DEF Ascending
      <4>2. Due(rest[i], d).texture = messages[i + 1].texture /\ Due(messages[1], d).texture = messages[1].texture
        BY <2>3 DEF Due
      <4>3. Due(rest[i], d) # Due(messages[1], d)
        BY <1>3, <2>3, <2>4, <4>1, <4>2
      <4>4. QED  BY <2>3, <4>3 DEF DueOf
    <3>3. QED  BY <3>1, <3>2 DEF DueOf
  <2>9. textures \ {messages[1].texture} = {rest[i].texture : i \in DOMAIN rest}
    <3>1. \A i \in DOMAIN messages : i # 1 => messages[i].texture # messages[1].texture
      BY <1>3, <2>4, <2>6
    <3>2. \A i \in DOMAIN rest : i + 1 # 1
      BY <2>2
    <3>3. QED  BY <1>1, <2>3, <2>4, <3>1, <3>2
  <2>10. \A i \in DOMAIN rest : rest[i].texture <= count.messages
    BY <1>1, <2>3
  <2>11. Len(rest) < Slots /\ rest # <<>>
    BY <1>5, <2>1, <2>2, OverlayAssumption
  <2>12. QED  BY <1>1, <1>2, <1>5, <2>1, <2>5, <2>7, <2>8, <2>9, <2>10, <2>11 DEF rest, d
<1>6. QED  BY <1>4, <1>5

(* So does a message that is shown, in a slot of its own or the oldest       *)
(* one's.                                                                    *)
LEMMA ShowKeeps ==
  ASSUME OverlayInv, NEW shownFor \in Durations, NEW made \in BOOLEAN,
         Messages!ShowMessage(shownFor, made)
  PROVE  OverlayInv'
<1> DEFINE full == Len(messages) = Slots
           left == IF full THEN Tail(messages) ELSE messages
           new  == count.messages + 1
           due  == IF Messages!Cardinality(Messages!Live) = Slots
                     THEN Messages!Live \ Messages!Oldest ELSE Messages!Live
           stay == IF full THEN textures \ {messages[1].texture} ELSE textures
           d    == count.draws
           m    == [texture |-> new, frames |-> shownFor]
<1>1. /\ messages' = IF made THEN Append(left, m) ELSE left
      /\ textures' = stay \cup (IF made THEN {new} ELSE {})
      /\ promised' = due \cup (IF made THEN {[texture |-> new, upTo |-> d + shownFor]} ELSE {})
      /\ count' = [count EXCEPT !.messages = new] /\ window' = window
  BY DEF Messages!ShowMessage, Messages!Message
<1>2. /\ left \in Seq(Notices) /\ Len(left) < Slots /\ Ascending(left)
      /\ \A i \in DOMAIN left : left[i].texture <= count.messages
      /\ due = DueOf(left, d) /\ stay = {left[i].texture : i \in DOMAIN left}
      /\ full => left # <<>>
  BY RoomFits
<1>3. count \in [messages: Nat, draws: Nat] /\ count.messages \in Nat /\ d \in Nat /\ new \in Nat
  BY DEF OverlayInv
<1>4. count' \in [messages: Nat, draws: Nat] /\ count'.messages = new /\ count'.draws = d
  BY <1>1, <1>3
<1>5. shownFor \in Nat \ {0}
  BY OverlayAssumption
<1>6. m \in Notices
  BY <1>3, <1>5 DEF Notices
<1>7. ~full => left = messages
  OBVIOUS
<1> HIDE DEF full, left, new, due, stay, d
<1>8. /\ DOMAIN left = 1..Len(left) /\ Len(left) \in Nat
      /\ \A i \in DOMAIN left : left[i].texture \in Nat /\ left[i].frames \in Nat \ {0}
  BY <1>2, NoticeTypes
<1>9. m.texture = new /\ m.frames = shownFor /\ Due(m, d) = [texture |-> new, upTo |-> d + shownFor]
  BY DEF Due
<1> HIDE DEF m
<1>10. /\ messages' \in Seq(Notices) /\ Len(messages') <= Slots
       /\ Len(messages') \in Nat /\ DOMAIN messages' = 1..Len(messages')
       /\ Len(messages') = IF made THEN Len(left) + 1 ELSE Len(left)
       /\ \A i \in DOMAIN left : i \in DOMAIN messages' /\ messages'[i] = left[i]
       /\ made => Len(left) + 1 \in DOMAIN messages' /\ messages'[Len(left) + 1] = m
  <2>1. CASE made
    <3>1. messages' = Append(left, m)
      BY <1>1, <2>1
    <3>2. QED  BY <1>2, <1>6, <1>8, <2>1, <3>1, OverlayAssumption
  <2>2. CASE ~made
    BY <1>1, <1>2, <1>8, <2>2, OverlayAssumption
  <2>3. QED  BY <2>1, <2>2
<1>11. \A i \in DOMAIN messages' : i \in DOMAIN left \/ (made /\ i = Len(left) + 1)
  BY <1>8, <1>10
<1>12. Ascending(messages')
  <2>1. SUFFICES ASSUME NEW i \in DOMAIN messages', NEW j \in DOMAIN messages', i < j
                 PROVE  messages'[i].texture < messages'[j].texture
    BY DEF Ascending
  <2>2. CASE j \in DOMAIN left
    <3>1. i \in DOMAIN left
      BY <1>8, <1>10, <2>1, <2>2
    <3>2. QED  BY <1>2, <1>10, <2>1, <2>2, <3>1 DEF Ascending
  <2>3. CASE made /\ j = Len(left) + 1
    <3>1. i \in DOMAIN left
      BY <1>8, <1>10, <2>1, <2>3
    <3>2. left[i].texture <= count.messages /\ left[i].texture \in Nat
      BY <1>2, <1>8, <3>1
    <3>3. QED  BY <1>3, <1>9, <1>10, <2>3, <3>1, <3>2 DEF new
  <2>4. QED  BY <1>11, <2>2, <2>3
<1>13. \A i \in DOMAIN messages' : messages'[i].texture <= new
  <2>1. ASSUME NEW i \in DOMAIN left  PROVE messages'[i].texture <= new
    <3>1. left[i].texture <= count.messages /\ left[i].texture \in Nat /\ messages'[i] = left[i]
      BY <1>2, <1>8, <1>10
    <3>2. QED  BY <1>3, <3>1 DEF new
  <2>2. made => messages'[Len(left) + 1].texture <= new
    BY <1>3, <1>9, <1>10
  <2>3. QED  BY <1>11, <2>1, <2>2
<1>14. promised' = {Due(messages'[i], d) : i \in DOMAIN messages'}
  <2>1. CASE made
    <3>1. promised' = due \cup {Due(m, d)}
      BY <1>1, <1>9, <2>1
    <3>2. QED  BY <1>2, <1>10, <1>11, <2>1, <3>1 DEF DueOf
  <2>2. CASE ~made
    BY <1>1, <1>2, <1>10, <1>11, <2>2 DEF DueOf
  <2>3. QED  BY <2>1, <2>2
<1>15. \A i \in DOMAIN messages' :
         /\ Due(messages'[i], d) \in [texture: Nat, upTo: Nat] /\ Due(messages'[i], d).upTo > d
  <2>1. SUFFICES ASSUME NEW i \in DOMAIN messages'
                 PROVE  /\ Due(messages'[i], d) \in [texture: Nat, upTo: Nat]
                        /\ Due(messages'[i], d).upTo > d
    OBVIOUS
  <2>2. messages'[i].texture \in Nat /\ messages'[i].frames \in Nat \ {0}
    BY <1>10, NoticeTypes
  <2>3. QED  BY <1>3, <2>2 DEF Due
<1>16. LiveAt(d)' = DueOf(messages', d)
  <2>1. LiveAt(count.draws)' = {p \in promised' : p.upTo > d}
    BY <1>4 DEF LiveAt
  <2>2. {p \in promised' : p.upTo > d} = promised'
    BY <1>14, <1>15
  <2>3. LiveAt(d)' = LiveAt(count.draws)'
    BY DEF d
  <2>4. QED  BY <1>14, <2>1, <2>2, <2>3 DEF DueOf
<1>17. textures' = {messages'[i].texture : i \in DOMAIN messages'}
  <2>1. CASE made
    BY <1>1, <1>2, <1>9, <1>10, <1>11, <2>1
  <2>2. CASE ~made
    BY <1>1, <1>2, <1>10, <1>11, <2>2
  <2>3. QED  BY <2>1, <2>2
<1>18. ListFits(messages, textures, count.draws)'
  <2>1. LiveAt(count.draws)' = DueOf(messages, count.draws)'
    <3>1. DueOf(messages, count.draws)' = DueOf(messages', d)
      BY <1>4 DEF DueOf, Due
    <3>2. QED  BY <1>16, <3>1 DEF d
  <2>2. Ascending(messages)'
    BY <1>12 DEF Ascending
  <2>3. QED  BY <1>4, <1>10, <1>13, <1>17, <2>1, <2>2 DEF ListFits, Notices
<1>19. promised' \subseteq [texture: Nat, upTo: Nat]
  BY <1>14, <1>15
<1>20. WipedAtLast'
  <2>1. messages' = <<>> => messages = <<>>
    <3>1. messages' = <<>> => Len(messages') = 0
      OBVIOUS
    <3>2. messages' = <<>> => Len(left) = 0
      BY <1>8, <1>10, <3>1
    <3>3. Len(left) = 0 => left = <<>>
      BY <1>2
    <3>4. QED  BY <1>2, <1>7, <3>2, <3>3
  <2>2. QED  BY <1>1, <2>1 DEF OverlayInv, WipedAtLast
<1>21. QED  BY <1>4, <1>18, <1>19, <1>20 DEF OverlayInv

(* A message is drawn with each of the frames it was shown for, in order,    *)
(* unless newer ones took its slot, its texture is deleted then and no other *)
(* is, and nothing of the last one is left in the window of a paused game,   *)
(* for any number of slots but one, any messages and any frames, with or     *)
(* without a game (Video::showMessage, Video::draw, Application::run).       *)
THEOREM MessagesAlwaysDrawn == Spec => []MessagesAreDrawn
<1>1. Messages!Init => OverlayInv
  <2>1. SUFFICES ASSUME Messages!Init  PROVE OverlayInv
    OBVIOUS
  <2>2. /\ messages = <<>> /\ promised = {} /\ textures = {} /\ window.by = "clear"
        /\ count = [messages |-> 0, draws |-> 0]
    BY <2>1 DEF Messages!Init
  <2>3. ListFits(messages, textures, count.draws)
    <3>1. DOMAIN messages = {} /\ messages \in Seq(Notices) /\ Len(messages) = 0
      BY <2>2
    <3>2. QED  BY <2>2, <3>1, OverlayAssumption DEF ListFits, Ascending, LiveAt, DueOf
  <2>4. QED  BY <2>2, <2>3 DEF OverlayInv, WipedAtLast
<1>2. OverlayInv /\ [Messages!Next]_(Messages!vars) => OverlayInv'
  <2>1. ASSUME OverlayInv, Messages!Next  PROVE OverlayInv'
    <3>1. CASE \E shownFor \in Durations, made \in BOOLEAN : Messages!ShowMessage(shownFor, made)
      BY <2>1, <3>1, ShowKeeps
    <3>2. CASE \E skipped \in BOOLEAN : Messages!Frame(skipped)
      BY <2>1, <3>2, FrameKeeps
    <3>3. CASE Messages!Turn
      BY <2>1, <3>3, TurnKeeps
    <3>4. CASE Messages!ChangeMode
      BY <2>1, <3>4, IndicatorKeeps DEF Messages!ChangeMode
    <3>5. CASE Messages!ToggleFastForwarding
      BY <2>1, <3>5, IndicatorKeeps DEF Messages!ToggleFastForwarding
    <3>6. CASE Messages!ShowEmulatorSettings
      BY <2>1, <3>6, SettingsKeep
    <3>7. CASE Messages!LoadGame \/ Messages!PauseForBadPerformance
      <4>1. UNCHANGED <<textures, messages, window, count, promised>>
        BY <3>7 DEF Messages!LoadGame, Messages!PauseForBadPerformance
      <4>2. QED  BY <2>1, <4>1 DEF OverlayInv, ListFits, LiveAt, DueOf, Due, Ascending, Notices,
                                    WipedAtLast
    <3>8. CASE Messages!UnloadCore
      <4>1. /\ UNCHANGED <<textures, messages, count, promised>>
            /\ window' = window \/ window'.by = "clear"
        BY <3>8 DEF Messages!UnloadCore
      <4>2. QED  BY <2>1, <4>1 DEF OverlayInv, ListFits, LiveAt, DueOf, Due, Ascending, Notices,
                                    WipedAtLast
    <3>9. QED  BY <2>1, <3>1, <3>2, <3>3, <3>4, <3>5, <3>6, <3>7, <3>8 DEF Messages!Next
  <2>2. OverlayInv /\ UNCHANGED Messages!vars => OverlayInv'
    BY DEF OverlayInv, ListFits, LiveAt, DueOf, Due, Ascending, Notices, WipedAtLast, Messages!vars
  <2>3. QED  BY <2>1, <2>2
<1>3. OverlayInv => Messages!MessagesAreDrawn
  <2>1. SUFFICES ASSUME OverlayInv  PROVE Messages!MessagesAreDrawn
    OBVIOUS
  <2>2. Messages!Live = {[texture |-> messages[i].texture, upTo |-> count.draws + messages[i].frames] :
                           i \in DOMAIN messages}
    BY <2>1 DEF OverlayInv, ListFits, LiveAt, DueOf, Due, Messages!Live
  <2>3. QED  BY <2>1, <2>2 DEF OverlayInv, ListFits, Ascending, WipedAtLast, Messages!MessagesAreDrawn
<1>4. Messages!Spec => []OverlayInv
  BY <1>1, <1>2, PTL DEF Messages!Spec
<1>5. QED  BY <1>3, <1>4, OverlayRuns, PTL DEF MessagesAreDrawn

-----------------------------------------------------------------------------
(* Steps, totals and remainders.                                             *)

(* What holds at first, and of each number if of the one before, holds.      *)
LEMMA StepByStep ==
  ASSUME NEW N \in Nat, NEW G, 0 \in G, \A n \in 1..N : n - 1 \in G => n \in G
  PROVE  \A n \in 0..N : n \in G
<1> DEFINE bad == {n \in 0..N : n \notin G}
<1>1. SUFFICES ASSUME bad # {}  PROVE FALSE
  OBVIOUS
<1>2. PICK m \in bad : \A j \in bad : m <= j
  <2>1. bad \subseteq Nat
    OBVIOUS
  <2> HIDE DEF bad
  <2>2. QED  BY <1>1, <2>1, HasLeast
<1>3. m \in 1..N /\ m \notin G
  BY <1>2
<1>4. m - 1 \in 0..N /\ ~(m <= m - 1)
  BY <1>3
<1>5. m - 1 \in G
  BY <1>2, <1>4
<1>6. QED  BY <1>3, <1>5

(* A loop that takes one value of a set to the next can be run.              *)
Loop(f, S, start, N, turn) ==
  f \in [0..N -> S] /\ f[0] = start /\ \A n \in 1..N : f[n] = turn[n][f[n - 1]]
LEMMA Iterates ==
  ASSUME NEW S, NEW start \in S, NEW N \in Nat, NEW turn \in [1..N -> [S -> S]]
  PROVE  \E f : Loop(f, S, start, N, turn)
<1> DEFINE Runs(f, m) == /\ f \in [0..m -> S] /\ f[0] = start
                         /\ \A n \in 1..m : f[n] = turn[n][f[n - 1]]
           G == {m \in 0..N : \E f : Runs(f, m)}
<1>1. 0 \in G
  <2>1. Runs([n \in 0..0 |-> start], 0)
    OBVIOUS
  <2> HIDE DEF Runs
  <2>2. QED  BY <2>1
<1>2. ASSUME NEW m \in 1..N, m - 1 \in G  PROVE m \in G
  <2>1. PICK f : Runs(f, m - 1)
    BY <1>2
  <2> DEFINE g == [n \in 0..m |-> IF n = m THEN turn[m][f[m - 1]] ELSE f[n]]
  <2>2. f[m - 1] \in S /\ turn[m] \in [S -> S]
    BY <2>1
  <2>3. g \in [0..m -> S]
    <3>1. \A n \in 0..m : n # m => n \in 0..(m - 1)
      OBVIOUS
    <3>2. QED  BY <2>1, <2>2, <3>1
  <2>4. g[0] = start
    BY <2>1
  <2>5. ASSUME NEW n \in 1..m  PROVE g[n] = turn[n][g[n - 1]]
    <3>1. n - 1 \in 0..m /\ n - 1 # m /\ n \in 0..m
      OBVIOUS
    <3>2. g[n - 1] = f[n - 1]
      BY <3>1
    <3>3. CASE n = m
      BY <3>1, <3>2, <3>3
    <3>4. CASE n # m
      <4>1. n \in 1..(m - 1) /\ g[n] = f[n]
        BY <3>1, <3>4
      <4>2. QED  BY <2>1, <3>2, <4>1
    <3>5. QED  BY <3>3, <3>4
  <2>6. Runs(g, m)
    <3> HIDE DEF g
    <3>1. QED  BY <2>3, <2>4, <2>5
  <2>7. m \in 0..N
    OBVIOUS
  <2> HIDE DEF Runs
  <2>8. QED  BY <2>6, <2>7
<1>3. N \in G
  <2> HIDE DEF G
  <2>1. N \in 0..N
    OBVIOUS
  <2>2. QED  BY <1>1, <1>2, <2>1, StepByStep
<1>4. PICK f : Runs(f, N)
  BY <1>3
<1>5. QED  BY <1>4 DEF Loop

(* What a running total is.                                                  *)
LEMMA TotalsAre ==
  ASSUME NEW s \in Seq(Nat)
  PROVE  /\ Totals(s) \in [0..Len(s) -> Nat] /\ Totals(s)[0] = 0
         /\ \A n \in 1..Len(s) : Totals(s)[n] = Totals(s)[n - 1] + s[n]
<1> DEFINE len == Len(s)
           turn == [n \in 1..len |-> [x \in Nat |-> x + s[n]]]
           Follows(f) == f = [n \in 0..len |-> IF n = 0 THEN 0 ELSE f[n - 1] + s[n]]
<1>1. len \in Nat /\ \A n \in 1..len : s[n] \in Nat
  OBVIOUS
<1>2. turn \in [1..len -> [Nat -> Nat]]
  BY <1>1
<1>3. PICK f : Loop(f, Nat, 0, len, turn)
  BY <1>1, <1>2, Iterates
<1>4. \A n \in 0..len : n # 0 => n \in 1..len /\ n - 1 \in 0..len
  BY <1>1
<1>5. \A n \in 0..len : n # 0 => turn[n][f[n - 1]] = f[n - 1] + s[n]
  BY <1>3, <1>4 DEF Loop
<1>6. Follows(f)
  <2>1. \A n \in 0..len : f[n] = IF n = 0 THEN 0 ELSE f[n - 1] + s[n]
    <3> HIDE DEF turn, len
    <3>1. QED  BY <1>3, <1>5 DEF Loop
  <2> HIDE DEF turn, len
  <2>2. QED  BY <1>3, <2>1 DEF Loop
<1>7. Totals(s) = CHOOSE g : Follows(g)
  BY DEF Totals
<1>8. Follows(Totals(s))
  <2> HIDE DEF Follows
  <2>1. QED  BY <1>6, <1>7
<1> DEFINE t == Totals(s)
<1> HIDE DEF t
<1>9. t = [n \in 0..len |-> IF n = 0 THEN 0 ELSE t[n - 1] + s[n]]
  BY <1>8 DEF t
<1>10. t[0] = 0 /\ \A n \in 1..len : t[n] = t[n - 1] + s[n]
  <2>1. 0 \in 0..len /\ \A n \in 1..len : n \in 0..len /\ n # 0
    BY <1>1
  <2> HIDE DEF len
  <2>2. QED  BY <1>9, <2>1
<1> DEFINE G == {n \in 0..len : t[n] \in Nat}
<1>11. \A n \in 1..len : n - 1 \in G => n \in G
  BY <1>1, <1>10
<1>12. \A n \in 0..len : n \in G
  <2>1. 0 \in G
    BY <1>1, <1>10
  <2> HIDE DEF G, len
  <2>2. QED  BY <1>1, <1>11, <2>1, StepByStep
<1>13. t \in [0..len -> Nat]
  <2> HIDE DEF len
  <2>1. QED  BY <1>9, <1>12
<1>14. QED  BY <1>10, <1>13 DEF t

(* A total only depends on what was added up.                                *)
LEMMA TotalsExtend ==
  ASSUME NEW s \in Seq(Nat), NEW t \in Seq(Nat), Len(s) <= Len(t),
         \A i \in 1..Len(s) : s[i] = t[i]
  PROVE  \A n \in 0..Len(s) : Totals(t)[n] = Totals(s)[n]
<1> DEFINE a == Totals(s)
           b == Totals(t)
           G == {n \in 0..Len(s) : b[n] = a[n]}
<1>1. a[0] = 0 /\ b[0] = 0 /\ Len(s) \in Nat /\ Len(t) \in Nat
  BY TotalsAre
<1>2. ASSUME NEW n \in 1..Len(s), n - 1 \in G  PROVE n \in G
  <2>1. n \in 1..Len(t) /\ n \in 0..Len(s)
    BY <1>1
  <2>2. a[n] = a[n - 1] + s[n] /\ b[n] = b[n - 1] + t[n]
    BY <2>1, TotalsAre
  <2>3. QED  BY <1>2, <2>1, <2>2
<1>3. 0 \in G
  BY <1>1
<1>4. QED
  <2>1. \A n \in 0..Len(s) : n \in G
    <3> HIDE DEF G
    <3>1. QED  BY <1>1, <1>2, <1>3, StepByStep
  <2>2. QED  BY <2>1

(* Where each thing has a size of at least m, totals are that far apart.     *)
LEMMA TotalsGrow ==
  ASSUME NEW s \in Seq(Nat), NEW m \in Nat, \A i \in 1..Len(s) : s[i] >= m
  PROVE  \A j \in 0..Len(s), i \in 0..Len(s) :
           /\ i < j => Totals(s)[i] + m <= Totals(s)[j]
           /\ i <= j /\ m > 0 => Totals(s)[i] + (j - i) <= Totals(s)[j]
           /\ i <= j => Totals(s)[i] <= Totals(s)[j]
<1> DEFINE t == Totals(s)
           len == Len(s)
           Far(i, j) == /\ i < j => t[i] + m <= t[j]
                        /\ i <= j /\ m > 0 => t[i] + (j - i) <= t[j]
                        /\ i <= j => t[i] <= t[j]
           G == {j \in 0..len : \A i \in 0..len : Far(i, j)}
<1>1. /\ len \in Nat /\ t \in [0..len -> Nat]
      /\ \A n \in 1..len : t[n] = t[n - 1] + s[n] /\ s[n] \in Nat
  BY TotalsAre
<1> HIDE DEF t, len
<1>2. 0 \in G
  BY <1>1
<1>3. ASSUME NEW j \in 1..len, j - 1 \in G  PROVE j \in G
  <2>1. j \in 0..len /\ j - 1 \in 0..len /\ t[j] = t[j - 1] + s[j] /\ s[j] \in Nat /\ s[j] >= m
    BY <1>1 DEF len
  <2>2. ASSUME NEW i \in 0..len  PROVE Far(i, j)
    <3>1. t[i] \in Nat /\ t[j] \in Nat /\ t[j - 1] \in Nat
      BY <1>1, <2>1
    <3>2. Far(i, j - 1)
      BY <1>3
    <3>3. CASE i <= j - 1
      <4>1. t[i] <= t[j - 1] /\ t[j] >= t[j - 1] + m /\ i <= j /\ i \in Nat /\ j \in Nat
        <5>1. t[i] <= t[j - 1]
          BY <3>2, <3>3
        <5>2. t[j] >= t[j - 1] + m
          BY <2>1, <3>1
        <5>3. i <= j /\ i \in Nat /\ j \in Nat
          BY <1>1, <2>1, <3>3
        <5>4. QED  BY <5>1, <5>2, <5>3
      <4>2. t[i] + m <= t[j] /\ t[i] <= t[j]
        BY <3>1, <4>1
      <4>3. m > 0 => t[i] + (j - i) <= t[j]
        <5>1. m > 0 => t[i] + ((j - 1) - i) <= t[j - 1]
          BY <3>2, <3>3
        <5>2. QED  BY <3>1, <4>1, <5>1
      <4>4. QED  BY <4>2, <4>3
    <3>4. CASE i = j
      BY <3>1, <3>4, <1>1
    <3>5. CASE i > j
      BY <3>5, <1>1
    <3>6. QED  BY <3>3, <3>4, <3>5, <1>1
  <2> HIDE DEF Far
  <2>3. QED  BY <2>1, <2>2
<1>4. \A j \in 0..len : j \in G
  <2> HIDE DEF G
  <2>1. QED  BY <1>1, <1>2, <1>3, StepByStep
<1>5. QED  BY <1>4 DEF t, len

-----------------------------------------------------------------------------
(* Remainders.                                                               *)
LEMMA DivisionIs ==
  ASSUME NEW n \in Nat, n # 0, NEW x \in Int
  PROVE  x % n \in 0..(n - 1) /\ x \div n \in Int /\ x = n * (x \div n) + (x % n)
OBVIOUS

(* Multiples of a number.                                                    *)
LEMMA Multiples ==
  ASSUME NEW n \in Nat, NEW p \in Int, NEW q \in Int
  PROVE  /\ n * p \in Int /\ n * (p + q) = n * p + n * q /\ n * (p - q) = n * p - n * q
         /\ p >= 1 => n * p >= n
         /\ p <= -1 => n * p <= -n
<1>1. n * p \in Int /\ n * (p + q) = n * p + n * q /\ n * (p - q) = n * p - n * q
  OBVIOUS
<1>2. p >= 1 => n * p >= n
  OBVIOUS
<1>3. p <= -1 => n * p <= -n
  OBVIOUS
<1>4. QED  BY <1>1, <1>2, <1>3

(* There is only one way to divide with a remainder.                         *)
LEMMA RemainderIs ==
  ASSUME NEW n \in Nat, n # 0, NEW q \in Int, NEW r \in 0..(n - 1), NEW x \in Int, x = n * q + r
  PROVE  x % n = r /\ x \div n = q
<1> DEFINE p == x \div n
           np == n * p
           nq == n * q
           d == p - q
           nd == n * d
           m == x % n
<1>1. m \in 0..(n - 1) /\ p \in Int /\ x = np + m
  BY DivisionIs
<1>2. d \in Int
  BY <1>1
<1> HIDE DEF p, m
<1>3. np \in Int /\ nq \in Int /\ nd = np - nq
  BY <1>1, Multiples
<1>4. (d >= 1 => nd >= n) /\ (d <= -1 => nd <= -n)
  <2> HIDE DEF d
  <2>1. QED  BY <1>2, Multiples
<1>5. x = nq + r
  OBVIOUS
<1> HIDE DEF np, nq, nd
<1>6. nd < n /\ nd > -n
  BY <1>1, <1>3, <1>5
<1>7. d = 0
  <2> HIDE DEF d
  <2>1. nd \in Int
    BY <1>3
  <2>2. QED  BY <1>2, <1>4, <1>6, <2>1
<1>8. p = q
  BY <1>1, <1>7
<1>9. np = nq
  BY <1>8 DEF np, nq
<1>10. m = r
  BY <1>1, <1>3, <1>5, <1>9
<1>11. QED  BY <1>8, <1>10 DEF p, m

(* A remainder may be taken before or after something is added.              *)
LEMMA RemainderAdds ==
  ASSUME NEW n \in Nat, n # 0, NEW x \in Int, NEW y \in Int
  PROVE  ((x % n) + y) % n = (x + y) % n
<1> DEFINE q == x \div n
           m == x % n
           z == m + y
           p == z \div n
           l == z % n
           np == n * p
           nq == n * q
           ns == n * (q + p)
           w == x + y
<1>1. m \in 0..(n - 1) /\ q \in Int /\ x = nq + m
  BY DivisionIs
<1> HIDE DEF q, m
<1>2. z \in Int
  BY <1>1
<1> HIDE DEF z
<1>3. l \in 0..(n - 1) /\ p \in Int /\ z = np + l
  BY <1>2, DivisionIs
<1> HIDE DEF p, l
<1>4. np \in Int /\ nq \in Int /\ ns = nq + np
  BY <1>1, <1>3, Multiples
<1>5. q + p \in Int /\ w \in Int
  BY <1>1, <1>3
<1> HIDE DEF np, nq
<1>6. w = nq + z
  BY <1>1, <1>4 DEF z
<1>7. w = ns + l
  <2> HIDE DEF ns, w
  <2>1. QED  BY <1>2, <1>3, <1>4, <1>6
<1>8. w % n = l
  <2> DEFINE s == q + p
  <2>1. s \in Int /\ w = n * s + l
    BY <1>5, <1>7
  <2> HIDE DEF s, w
  <2>2. QED  BY <1>3, <1>5, <2>1, RemainderIs
<1>9. QED  BY <1>8 DEF z, l, m

(* A remainder may be taken before or after two numbers are subtracted.      *)
LEMMA RemainderSubtracts ==
  ASSUME NEW n \in Nat, n # 0, NEW x \in Int, NEW y \in Int
  PROVE  ((x % n) - (y % n)) % n = (x - y) % n
<1> DEFINE a == y % n
           b == x % n
           q == y \div n
           c == x - a
           nq == n * q
           d == x - y
           e == -q
           ne == n * e
           f == c % n
           g == c \div n
           ng == n * g
           nh == n * (g - q)
<1>1. a \in 0..(n - 1) /\ q \in Int /\ y = nq + a
  BY DivisionIs
<1>2. b \in Int
  BY DivisionIs
<1> HIDE DEF a, b, q
<1>3. (b + (-a)) % n = (x + (-a)) % n
  <2>1. -a \in Int
    BY <1>1
  <2>2. QED  BY <2>1, RemainderAdds DEF b
<1>4. c \in Int /\ b - a = b + (-a) /\ c = x + (-a)
  BY <1>1, <1>2
<1>5. (b - a) % n = c % n
  BY <1>3, <1>4
<1> HIDE DEF c
<1>6. f \in 0..(n - 1) /\ g \in Int /\ c = ng + f
  BY <1>4, DivisionIs
<1> HIDE DEF f, g
<1>7. ng \in Int /\ nq \in Int /\ nh = ng - nq
  BY <1>1, <1>6, Multiples
<1> HIDE DEF ng, nq
<1>8. d = c - nq
  BY <1>1, <1>7 DEF c
<1>9. d \in Int /\ g - q \in Int
  BY <1>1, <1>6
<1> HIDE DEF d
<1>10. d = nh + f
  <2> HIDE DEF nh
  <2>1. QED  BY <1>4, <1>6, <1>7, <1>8
<1>11. d % n = f
  <2> DEFINE s == g - q
  <2>1. s \in Int /\ d = n * s + f
    BY <1>9, <1>10
  <2> HIDE DEF s
  <2>2. QED  BY <1>6, <1>9, <2>1, RemainderIs
<1>12. QED  BY <1>5, <1>11 DEF a, b, d, f

(* Numbers that are close and leave the same remainder are the same.         *)
LEMMA RemainderTells ==
  ASSUME NEW n \in Nat, n # 0, NEW x \in Int, NEW y \in Int, x <= y, y - x < n, x % n = y % n
  PROVE  x = y
<1>1. ((y % n) - (x % n)) % n = (y - x) % n
  BY RemainderSubtracts
<1>2. (y % n) - (x % n) = 0
  BY DivisionIs
<1>3. 0 % n = 0
  <2>1. 0 = n * 0 + 0 /\ 0 \in 0..(n - 1)
    OBVIOUS
  <2>2. QED  BY <2>1, RemainderIs
<1>4. (y - x) % n = y - x
  <2> DEFINE d == y - x
  <2>1. d = n * 0 + d /\ d \in 0..(n - 1) /\ d \in Int
    OBVIOUS
  <2> HIDE DEF d
  <2>2. d % n = d
    BY <2>1, RemainderIs
  <2>3. QED  BY <2>2 DEF d
<1>5. y - x = 0
  BY <1>1, <1>2, <1>3, <1>4
<1>6. QED  BY <1>5

(* A number that is small is its own remainder; a negative one is a turn     *)
(* behind.                                                                   *)
LEMMA RemainderOfSmall ==
  ASSUME NEW n \in Nat, n # 0, NEW x \in Int
  PROVE  /\ 0 <= x /\ x < n => x % n = x
         /\ x < 0 /\ x >= -n => x % n = x + n
<1>1. ASSUME 0 <= x, x < n  PROVE x % n = x
  <2>1. x = n * 0 + x /\ x \in 0..(n - 1)
    BY <1>1
  <2>2. QED  BY <2>1, RemainderIs
<1>2. ASSUME x < 0, x >= -n  PROVE x % n = x + n
  <2>1. x = n * (-1) + (x + n) /\ x + n \in 0..(n - 1) /\ -1 \in Int
    BY <1>2
  <2>2. QED  BY <2>1, RemainderIs
<1>3. QED  BY <1>1, <1>2

-----------------------------------------------------------------------------
(* The log: LogRing.                                                         *)

(* Beside the other parts the log runs as it does alone.                     *)
LEMMA LogRuns == Spec => Log!Spec
<1>1. Init => Log!Init
  BY DEF Init
<1>2. [Next]_vars => [Log!Next]_(Log!vars)
  <2>1. ASSUME OthersStay, which # "log"  PROVE UNCHANGED Log!vars
    BY <2>1 DEF OthersStay, logVars, Log!vars
  <2>2. ASSUME Next  PROVE Log!Next \/ UNCHANGED Log!vars
    BY <2>1, <2>2 DEF Next
  <2>3. UNCHANGED vars => UNCHANGED Log!vars
    BY DEF vars, logVars, Log!vars
  <2>4. QED  BY <2>2, <2>3
<1>3. QED  BY <1>1, <1>2, PTL DEF Spec, Log!Spec

Logged == Seq([level: Nat, line: Seq(Nat)])

(* The record of a line in a list, and where the records of a list end, were *)
(* there no end of the ring.                                                 *)
RecordOf(list, i) == Log!Record(list[i].level, Log!Cut(list[i].line))
SizesOf(list) == [i \in DOMAIN list |-> 3 + Len(Log!Cut(list[i].line))]
EndsOf(list) == Totals(SizesOf(list))

(* Of the records of a list the ring has all but the first so many, which    *)
(* had to go.                                                                *)
HasRecords(ring, list, gone) ==
  \A i \in (gone + 1)..Len(list) : \A j \in 1..Len(RecordOf(list, i)) :
    ring[(EndsOf(list)[i - 1] + j - 1) % RingSize] = RecordOf(list, i)[j]
RingFits(list, gone) ==
  /\ gone \in 0..Len(list)
  /\ last = EndsOf(list)[Len(list)] % RingSize
  /\ first = EndsOf(list)[gone] % RingSize
  /\ avail = RingSize - (EndsOf(list)[Len(list)] - EndsOf(list)[gone])
  /\ avail >= 0
  /\ \A j \in 0..(gone - 1) : EndsOf(list)[Len(list)] - EndsOf(list)[j] > RingSize
  /\ HasRecords(buffer, list, gone)

LogInv ==
  /\ logged \in Logged
  /\ buffer \in [0..(RingSize - 1) -> Nat]
  /\ \E gone : RingFits(logged, gone)

(* Places in the ring.                                                       *)
LEMMA RingLaws ==
  /\ RingSize \in Nat /\ RingSize # 0
  /\ \A x \in Int : x % RingSize \in 0..(RingSize - 1) /\ x % RingSize \in Int
  /\ \A x, y \in Int : ((x % RingSize) + y) % RingSize = (x + y) % RingSize
  /\ \A x, y \in Int : ((x % RingSize) - (y % RingSize)) % RingSize = (x - y) % RingSize
<1>1. RingSize \in Nat /\ RingSize # 0
  BY LogAssumption
<1>2. ASSUME NEW x \in Int
      PROVE  x % RingSize \in 0..(RingSize - 1) /\ x % RingSize \in Int
  BY <1>1
<1>3. QED  BY <1>1, <1>2, RemainderAdds, RemainderSubtracts

(* A cut line and its record.                                                *)
LEMMA CutIs ==
  ASSUME NEW line \in Seq(Nat)
  PROVE  Log!Cut(line) \in Seq(Nat) /\ Len(Log!Cut(line)) <= MaxLine - 3
<1> DEFINE m == IF Len(line) > MaxLine - 3 THEN MaxLine - 3 ELSE Len(line)
<1>1. Len(line) \in Nat /\ MaxLine - 3 \in Nat
  BY LogAssumption
<1>2. m \in 0..Len(line) /\ m <= MaxLine - 3
  BY <1>1
<1>3. Log!Cut(line) = SubSeq(line, 1, m)
  BY DEF Log!Cut
<1> HIDE DEF m
<1>4. SubSeq(line, 1, m) \in Seq(Nat) /\ Len(SubSeq(line, 1, m)) = m
  BY <1>1, <1>2, SubSeqProperties
<1>5. QED  BY <1>2, <1>3, <1>4

(* A record has the level, the length and the line.                          *)
LEMMA RecordIs ==
  ASSUME NEW level \in Nat, NEW line \in Seq(Nat)
  PROVE  LET r == Log!Record(level, line) IN
         /\ r \in Seq(Nat) /\ Len(r) = 3 + Len(line)
         /\ r[1] = level /\ r[2] + Base * r[3] = Len(line)
         /\ \A j \in 1..Len(line) : r[3 + j] = line[j]
<1> DEFINE len == Len(line)
           low == len % Base
           high == len \div Base
           meta == <<level, low, high>>
           r == meta \o line
<1>1. len \in Nat /\ Base \in Nat /\ Base # 0
  BY LogAssumption
<1>2. low \in Nat /\ high \in Int /\ len = Base * high + low
  <2> HIDE DEF len
  <2>1. QED  BY <1>1, DivisionIs
<1>3. high \in Nat
  <2> HIDE DEF len
  <2>1. QED  BY <1>1
<1> HIDE DEF low, high
<1>4. meta \in Seq(Nat) /\ Len(meta) = 3
  BY <1>2, <1>3
<1>5. meta[1] = level /\ meta[2] = low /\ meta[3] = high
  OBVIOUS
<1> HIDE DEF meta
<1>6. /\ r \in Seq(Nat) /\ Len(r) = Len(meta) + len
      /\ \A j \in 1..(Len(meta) + len) :
           r[j] = IF j <= Len(meta) THEN meta[j] ELSE line[j - Len(meta)]
  BY <1>4, ConcatProperties, Zenon
<1>7. \A j \in 1..(3 + len) : r[j] = IF j <= 3 THEN meta[j] ELSE line[j - 3]
  <2> HIDE DEF r, len
  <2>1. QED  BY <1>4, <1>6
<1>8. r[1] = level /\ r[2] = low /\ r[3] = high
  <2>1. 1 \in 1..(3 + len) /\ 2 \in 1..(3 + len) /\ 3 \in 1..(3 + len)
    BY <1>1
  <2> HIDE DEF r, len
  <2>2. r[1] = meta[1] /\ r[2] = meta[2] /\ r[3] = meta[3]
    BY <1>7, <2>1
  <2>3. QED  BY <1>5, <2>2
<1>9. \A j \in 1..len : r[3 + j] = line[j]
  <2>1. \A j \in 1..len : 3 + j \in 1..(3 + len) /\ ~(3 + j <= 3) /\ (3 + j) - 3 = j
    BY <1>1
  <2> HIDE DEF r
  <2>2. QED  BY <1>7, <2>1
<1>10. low + Base * high = len
  <2> DEFINE m == Base * high
  <2>1. m \in Int
    BY <1>1, <1>3
  <2>2. len = m + low
    BY <1>2
  <2> HIDE DEF m, len
  <2>3. low + m = len
    BY <1>1, <1>2, <2>1, <2>2
  <2>4. QED  BY <2>3 DEF m
<1>11. Log!Record(level, line) = r
  BY DEF Log!Record, meta, low, high
<1> HIDE DEF r
<1>12. Len(r) = 3 + Len(line)
  BY <1>4, <1>6
<1>13. QED  BY <1>6, <1>8, <1>9, <1>10, <1>11, <1>12

(* The places of records.                                                    *)
LEMMA PlacesAre ==
  ASSUME NEW list \in Logged
  PROVE  /\ Len(list) \in Nat
         /\ SizesOf(list) \in Seq(Nat) /\ Len(SizesOf(list)) = Len(list)
         /\ \A i \in 1..Len(list) :
              /\ list[i].level \in Nat /\ Log!Cut(list[i].line) \in Seq(Nat)
              /\ SizesOf(list)[i] = 3 + Len(Log!Cut(list[i].line))
              /\ SizesOf(list)[i] \in 3..MaxLine
              /\ Len(RecordOf(list, i)) = SizesOf(list)[i]
              /\ EndsOf(list)[i] = EndsOf(list)[i - 1] + SizesOf(list)[i]
         /\ EndsOf(list) \in [0..Len(list) -> Nat] /\ EndsOf(list)[0] = 0
         /\ \A i, j \in 0..Len(list) :
              /\ i < j => EndsOf(list)[i] + 3 <= EndsOf(list)[j]
              /\ i <= j => EndsOf(list)[i] + (j - i) <= EndsOf(list)[j]
<1> DEFINE sizes == SizesOf(list)
<1>1. Len(list) \in Nat /\ DOMAIN list = 1..Len(list)
  BY DEF Logged
<1>2. ASSUME NEW i \in 1..Len(list)
      PROVE  /\ list[i].level \in Nat /\ Log!Cut(list[i].line) \in Seq(Nat)
             /\ sizes[i] = 3 + Len(Log!Cut(list[i].line))
             /\ sizes[i] \in 3..MaxLine
             /\ Len(RecordOf(list, i)) = sizes[i]
  <2>1. list[i].level \in Nat /\ list[i].line \in Seq(Nat)
    <3>1. list[i] \in [level: Nat, line: Seq(Nat)]
      BY ElementOfSeq DEF Logged
    <3>2. QED  BY <3>1
  <2> DEFINE cut == Log!Cut(list[i].line)
  <2>2. cut \in Seq(Nat) /\ Len(cut) <= MaxLine - 3 /\ Len(cut) \in Nat
    BY <2>1, CutIs
  <2> HIDE DEF cut
  <2>3. Len(Log!Record(list[i].level, cut)) = 3 + Len(cut)
    BY <2>1, <2>2, RecordIs
  <2>4. sizes[i] = 3 + Len(cut)
    BY <1>1 DEF SizesOf, cut
  <2>5. sizes[i] \in 3..MaxLine
    BY <2>2, <2>4, LogAssumption
  <2>6. QED  BY <2>1, <2>2, <2>3, <2>4, <2>5 DEF RecordOf, cut
<1>3. sizes \in Seq(Nat) /\ Len(sizes) = Len(list)
  <2>1. sizes = [i \in 1..Len(list) |-> 3 + Len(Log!Cut(list[i].line))]
    BY <1>1 DEF SizesOf
  <2>2. \A i \in 1..Len(list) : 3 + Len(Log!Cut(list[i].line)) \in Nat
    BY <1>2, LogAssumption
  <2> HIDE DEF sizes
  <2>3. sizes \in [1..Len(list) -> Nat]
    BY <2>1, <2>2
  <2>4. QED  BY <1>1, <2>3
<1> HIDE DEF sizes
<1>4. /\ Totals(sizes) \in [0..Len(list) -> Nat] /\ Totals(sizes)[0] = 0
      /\ \A n \in 1..Len(list) : Totals(sizes)[n] = Totals(sizes)[n - 1] + sizes[n]
  BY <1>3, TotalsAre
<1>5. \A j \in 0..Len(sizes), i \in 0..Len(sizes) :
        /\ i < j => Totals(sizes)[i] + 3 <= Totals(sizes)[j]
        /\ i <= j /\ 3 > 0 => Totals(sizes)[i] + (j - i) <= Totals(sizes)[j]
        /\ i <= j => Totals(sizes)[i] <= Totals(sizes)[j]
  <2>1. \A i \in 1..Len(sizes) : sizes[i] >= 3
    BY <1>2, <1>3
  <2>2. 3 \in Nat
    OBVIOUS
  <2>3. QED  BY <1>3, <2>1, <2>2, TotalsGrow
<1>6. EndsOf(list) = Totals(sizes)
  BY DEF EndsOf, sizes
<1>7. QED  BY <1>1, <1>2, <1>3, <1>4, <1>5, <1>6 DEF sizes

(* A record that is in the ring is read as it was written.                   *)
LEMMA ReadsRecord ==
  ASSUME LogInv, NEW gone, RingFits(logged, gone), NEW i \in (gone + 1)..Len(logged),
         NEW pos, pos = EndsOf(logged)[i - 1] % RingSize
  PROVE  LET meta == Log!Peek(pos, 3)
             line == Log!Cut(logged[i].line)
         IN /\ meta[1] = logged[i].level
            /\ Log!LengthIn(meta) = Len(line)
            /\ Log!Peek((pos + 3) % RingSize, Len(line)) = line
            /\ (pos + (3 + Len(line))) % RingSize = EndsOf(logged)[i] % RingSize
<1> DEFINE line == Log!Cut(logged[i].line)
           level == logged[i].level
           rec == RecordOf(logged, i)
           at == EndsOf(logged)[i - 1]
           meta == Log!Peek(pos, 3)
           len == Len(line)
<1>1. RingSize \in Nat /\ RingSize # 0
  BY LogAssumption
<1>2. logged \in Logged /\ gone \in 0..Len(logged) /\ HasRecords(buffer, logged, gone)
  BY DEF LogInv, RingFits
<1>3. i \in 1..Len(logged) /\ i - 1 \in 0..Len(logged) /\ Len(logged) \in Nat
  BY <1>2, PlacesAre
<1>4. at \in Nat
  BY <1>2, <1>3, PlacesAre
<1>5. /\ level \in Nat /\ line \in Seq(Nat)
      /\ EndsOf(logged)[i] = at + (3 + len)
      /\ Len(rec) = 3 + len
  <2>1. /\ SizesOf(logged)[i] = 3 + len
        /\ EndsOf(logged)[i] = at + SizesOf(logged)[i]
        /\ Len(rec) = SizesOf(logged)[i]
    BY <1>2, <1>3, PlacesAre
  <2>2. level \in Nat /\ line \in Seq(Nat)
    BY <1>2, <1>3, PlacesAre
  <2> HIDE DEF level, line, rec, at
  <2>3. QED  BY <2>1, <2>2
<1>6. \A j \in 1..Len(rec) : buffer[(at + j - 1) % RingSize] = rec[j]
  BY <1>2 DEF HasRecords
<1>7. /\ rec[1] = level /\ rec[2] + Base * rec[3] = len
      /\ \A j \in 1..len : rec[3 + j] = line[j]
  <2>1. rec = Log!Record(level, line)
    BY DEF RecordOf
  <2> HIDE DEF level, line, rec
  <2>2. QED  BY <1>5, <2>1, RecordIs
<1>8. len \in Nat
  <2> HIDE DEF line
  <2>1. QED  BY <1>5
<1> HIDE DEF line, level, rec, at, len
<1>9. pos = at % RingSize /\ pos \in Int
  <2>1. pos = at % RingSize
    BY DEF at
  <2>2. at \in Int
    BY <1>4
  <2>3. at % RingSize \in Int
    BY <2>2, RingLaws
  <2>4. QED  BY <2>1, <2>3
<1>10. \A k \in Int : (pos + k) % RingSize = (at + k) % RingSize
  <2>1. at \in Int
    BY <1>4
  <2>2. \A k \in Int : ((at % RingSize) + k) % RingSize = (at + k) % RingSize
    BY <2>1, RingLaws, Zenon
  <2>3. QED  BY <1>9, <2>2, Zenon
<1>11. \A j \in 1..3 : meta[j] = rec[j]
  <2>1. SUFFICES ASSUME NEW j \in 1..3  PROVE meta[j] = rec[j]
    OBVIOUS
  <2>2. meta[j] = buffer[(pos + j - 1) % RingSize]
    BY DEF Log!Peek
  <2>3. pos + j - 1 = pos + (j - 1) /\ at + j - 1 = at + (j - 1) /\ j - 1 \in Int
    BY <1>4, <1>9
  <2>4. j \in 1..Len(rec)
    BY <1>5, <1>8
  <2> HIDE DEF meta
  <2>5. QED  BY <1>6, <1>10, <2>2, <2>3, <2>4
<1>12. meta[1] = level /\ Log!LengthIn(meta) = len
  <2>1. meta[1] = rec[1] /\ meta[2] = rec[2] /\ meta[3] = rec[3]
    <3> HIDE DEF meta
    <3>1. QED  BY <1>11
  <2>2. Log!LengthIn(meta) = meta[2] + Base * meta[3]
    BY DEF Log!LengthIn
  <2> HIDE DEF meta
  <2>3. QED  BY <1>7, <2>1, <2>2
<1>13. (pos + (3 + len)) % RingSize = EndsOf(logged)[i] % RingSize
  <2>1. 3 + len \in Int
    BY <1>8
  <2>2. QED  BY <1>5, <1>10, <2>1
<1>14. Log!Peek((pos + 3) % RingSize, len) = line
  <2> DEFINE q == (pos + 3) % RingSize
             seen == Log!Peek(q, len)
  <2>1. q \in Int /\ \A k \in Int : (q + k) % RingSize = ((pos + 3) + k) % RingSize
    <3>1. pos + 3 \in Int
      BY <1>9
    <3>2. QED  BY <3>1, RingLaws
  <2> HIDE DEF q
  <2>2. seen = [k \in 1..len |-> buffer[(q + k - 1) % RingSize]]
    BY DEF Log!Peek
  <2>3. \A k \in 1..len : buffer[(q + k - 1) % RingSize] = line[k]
    <3>1. SUFFICES ASSUME NEW k \in 1..len  PROVE buffer[(q + k - 1) % RingSize] = line[k]
      OBVIOUS
    <3>2. q + k - 1 = q + (k - 1) /\ k - 1 \in Int
      BY <1>8, <2>1
    <3>3. (pos + 3) + (k - 1) = pos + (k + 2) /\ at + (k + 2) = at + (3 + k) - 1 /\ k + 2 \in Int
      BY <1>4, <1>8, <1>9
    <3>4. (q + k - 1) % RingSize = (at + (3 + k) - 1) % RingSize
      BY <1>10, <2>1, <3>2, <3>3
    <3>5. 3 + k \in 1..Len(rec)
      BY <1>5, <1>8
    <3>6. QED  BY <1>6, <1>7, <3>4, <3>5
  <2>4. line = [k \in 1..len |-> line[k]]
    BY <1>5 DEF len
  <2> HIDE DEF seen
  <2>5. seen = line
    BY <2>2, <2>3, <2>4
  <2>6. QED  BY <2>5 DEF seen, q
<1>15. QED  BY <1>12, <1>13, <1>14 DEF line, level, len

(* A turn of the loop that makes room, and of the one that shows the log,    *)
(* from any place of the ring.                                               *)
Rooms == [first: Int, avail: Int]
Pages == [pos: Int, shown: Seq([level: Nat, line: Seq(Nat)])]

(* A look into the ring finds bytes.                                         *)
LEMMA PeeksBytes ==
  ASSUME buffer \in [0..(RingSize - 1) -> Nat], NEW pos \in Int, NEW n \in Nat
  PROVE  Log!Peek(pos, n) \in Seq(Nat) /\ Len(Log!Peek(pos, n)) = n
<1>1. RingSize \in Nat /\ RingSize # 0
  BY LogAssumption
<1>2. \A k \in 1..n : (pos + k - 1) % RingSize \in 0..(RingSize - 1)
  BY <1>1
<1>3. \A k \in 1..n : buffer[(pos + k - 1) % RingSize] \in Nat
  BY <1>2
<1>4. Log!Peek(pos, n) = [k \in 1..n |-> buffer[(pos + k - 1) % RingSize]]
  BY DEF Log!Peek
<1>5. Log!Peek(pos, n) \in [1..n -> Nat]
  BY <1>3, <1>4
<1>6. QED  BY <1>5

(* A turn of either loop leaves what it computes of its kind.                *)
LEMMA TurnsType ==
  ASSUME buffer \in [0..(RingSize - 1) -> Nat]
  PROVE  /\ \A r \in Rooms, needed \in Nat : Log!DropOldest(r, needed) \in Rooms
         /\ \A r \in Pages : Log!ShowNext(r) \in Pages
<1>1. RingSize \in Nat /\ RingSize # 0 /\ Base \in Nat
  BY LogAssumption
<1>2. \A pos \in Int : Log!Peek(pos, 3)[1] \in Nat /\ Log!LengthIn(Log!Peek(pos, 3)) \in Nat
  <2>1. SUFFICES ASSUME NEW pos \in Int, NEW meta, meta = Log!Peek(pos, 3)
                 PROVE  meta[1] \in Nat /\ Log!LengthIn(meta) \in Nat
    OBVIOUS
  <2>2. meta \in Seq(Nat) /\ Len(meta) = 3
    BY <2>1, PeeksBytes
  <2>3. meta[1] \in Nat /\ meta[2] \in Nat /\ meta[3] \in Nat
    <3>1. 1 \in 1..Len(meta) /\ 2 \in 1..Len(meta) /\ 3 \in 1..Len(meta)
      BY <2>2
    <3>2. QED  BY <2>2, <3>1, ElementOfSeq
  <2>4. \A a, b \in Nat : a + Base * b \in Nat
    BY <1>1
  <2>5. QED  BY <2>3, <2>4 DEF Log!LengthIn
<1>3. ASSUME NEW r \in Rooms, NEW needed \in Nat  PROVE Log!DropOldest(r, needed) \in Rooms
  <2> DEFINE gone == 3 + Log!LengthIn(Log!Peek(r.first, 3))
  <2>1. r.first \in Int /\ r.avail \in Int
    BY DEF Rooms
  <2>2. gone \in Nat
    <3>1. Log!LengthIn(Log!Peek(r.first, 3)) \in Nat
      BY <1>2, <2>1
    <3> DEFINE l == Log!LengthIn(Log!Peek(r.first, 3))
    <3> HIDE DEF l
    <3>2. 3 + l \in Nat
      BY <3>1 DEF l
    <3>3. QED  BY <3>2 DEF l
  <2>3. Log!DropOldest(r, needed) =
          IF r.avail >= needed THEN r
          ELSE [first |-> (r.first + gone) % RingSize, avail |-> r.avail + gone]
    BY DEF Log!DropOldest
  <2> HIDE DEF gone
  <2>4. (r.first + gone) % RingSize \in Int /\ r.avail + gone \in Int
    <3>1. r.first + gone \in Int /\ r.avail + gone \in Int
      BY <2>1, <2>2
    <3>2. QED  BY <3>1, RingLaws
  <2>5. QED  BY <2>3, <2>4 DEF Rooms
<1>4. ASSUME NEW r \in Pages  PROVE Log!ShowNext(r) \in Pages
  <2> DEFINE meta == Log!Peek(r.pos, 3)
             length == Log!LengthIn(meta)
             line == Log!Peek((r.pos + 3) % RingSize, length)
             new == [level |-> meta[1], line |-> line]
  <2>1. r.pos \in Int /\ r.shown \in Seq([level: Nat, line: Seq(Nat)])
    BY DEF Pages
  <2>2. meta[1] \in Nat /\ length \in Nat
    BY <1>2, <2>1
  <2>3. (r.pos + 3) % RingSize \in Int
    <3>1. r.pos + 3 \in Int
      BY <2>1
    <3>2. QED  BY <3>1, RingLaws
  <2> HIDE DEF meta, length
  <2>4. line \in Seq(Nat)
    BY <2>2, <2>3, PeeksBytes
  <2>5. Log!ShowNext(r) = IF r.pos = last THEN r
                          ELSE [pos |-> (r.pos + 3 + length) % RingSize,
                                shown |-> Append(r.shown, new)]
    BY DEF Log!ShowNext, meta, length
  <2> HIDE DEF line
  <2>6. new \in [level: Nat, line: Seq(Nat)]
    BY <2>2, <2>4
  <2>7. (r.pos + 3 + length) % RingSize \in Int
    <3>1. r.pos + 3 + length \in Int
      BY <2>1, <2>2
    <3>2. QED  BY <3>1, RingLaws
  <2> HIDE DEF new
  <2>8. Append(r.shown, new) \in Seq([level: Nat, line: Seq(Nat)])
    BY <2>1, <2>6, AppendProperties
  <2>9. QED  BY <2>5, <2>7, <2>8 DEF Pages
<1>5. QED  BY <1>3, <1>4

(* The two loops run as they are written.                                    *)
LEMMA RoomRuns ==
  ASSUME buffer \in [0..(RingSize - 1) -> Nat], first \in Int, avail \in Int, NEW needed \in Nat
  PROVE  \E after :
           /\ after[0] = [first |-> first, avail |-> avail]
           /\ \A n \in 1..RingSize : after[n] = Log!DropOldest(after[n - 1], needed)
           /\ Log!Room(needed) = after[RingSize]
<1> DEFINE start == [first |-> first, avail |-> avail]
           Turned(f, n) == IF n = 0 THEN start ELSE Log!DropOldest(f[n - 1], needed)
           Follows(f) == f = [n \in 0..RingSize |-> Turned(f, n)]
           turn == [n \in 1..RingSize |-> [r \in Rooms |-> Log!DropOldest(r, needed)]]
<1>1. RingSize \in Nat
  BY RingLaws
<1>2. start \in Rooms
  BY DEF Rooms
<1>3. turn \in [1..RingSize -> [Rooms -> Rooms]]
  BY TurnsType
<1>4. PICK f : Loop(f, Rooms, start, RingSize, turn)
  <2> HIDE DEF start, turn
  <2>1. QED  BY <1>1, <1>2, <1>3, Iterates
<1>5. \A n \in 0..RingSize : f[n] = Turned(f, n)
  <2>1. SUFFICES ASSUME NEW n \in 0..RingSize, n # 0  PROVE f[n] = Log!DropOldest(f[n - 1], needed)
    <3> HIDE DEF turn, start
    <3>1. QED  BY <1>4 DEF Loop
  <2>2. n \in 1..RingSize /\ n - 1 \in 0..RingSize
    BY <1>1, <2>1
  <2>3. f[n - 1] \in Rooms /\ f[n] = turn[n][f[n - 1]]
    <3> HIDE DEF turn, start
    <3>1. QED  BY <1>4, <2>2 DEF Loop
  <2>4. QED  BY <2>2, <2>3
<1>6. Follows(f)
  <2> HIDE DEF Turned
  <2>1. f = [n \in 0..RingSize |-> f[n]]
    <3> HIDE DEF turn, start
    <3>1. QED  BY <1>4 DEF Loop
  <2>2. QED  BY <1>5, <2>1
<1> DEFINE after == CHOOSE g : Follows(g)
<1>7. Follows(after)
  <2> HIDE DEF Follows
  <2>1. QED  BY <1>6
<1>8. Log!Room(needed) = after[RingSize]
  BY DEF Log!Room
<1> HIDE DEF after
<1>9. \A n \in 0..RingSize : after[n] = Turned(after, n)
  <2> HIDE DEF Turned
  <2>1. QED  BY <1>7
<1>10. after[0] = start
  <2>1. 0 \in 0..RingSize
    BY <1>1
  <2>2. QED  BY <1>9, <2>1
<1>11. \A n \in 1..RingSize : after[n] = Log!DropOldest(after[n - 1], needed)
  <2>1. \A n \in 1..RingSize : n \in 0..RingSize /\ n # 0
    BY <1>1
  <2>2. QED  BY <1>9, <2>1
<1>12. QED  BY <1>8, <1>10, <1>11

(* The second of them.                                                       *)
LEMMA ContentsRun ==
  ASSUME buffer \in [0..(RingSize - 1) -> Nat], first \in Int
  PROVE  \E after :
           /\ after[0] = [pos |-> first, shown |-> <<>>]
           /\ \A n \in 1..RingSize : after[n] = Log!ShowNext(after[n - 1])
           /\ Log!Contents = after[RingSize].shown
<1> DEFINE start == [pos |-> first, shown |-> <<>>]
           Turned(f, n) == IF n = 0 THEN start ELSE Log!ShowNext(f[n - 1])
           Follows(f) == f = [n \in 0..RingSize |-> Turned(f, n)]
           turn == [n \in 1..RingSize |-> [r \in Pages |-> Log!ShowNext(r)]]
<1>1. RingSize \in Nat
  BY RingLaws
<1>2. start \in Pages
  BY DEF Pages
<1>3. turn \in [1..RingSize -> [Pages -> Pages]]
  BY TurnsType
<1>4. PICK f : Loop(f, Pages, start, RingSize, turn)
  <2> HIDE DEF start, turn
  <2>1. QED  BY <1>1, <1>2, <1>3, Iterates
<1>5. \A n \in 0..RingSize : f[n] = Turned(f, n)
  <2>1. SUFFICES ASSUME NEW n \in 0..RingSize, n # 0  PROVE f[n] = Log!ShowNext(f[n - 1])
    <3> HIDE DEF turn, start
    <3>1. QED  BY <1>4 DEF Loop
  <2>2. n \in 1..RingSize /\ n - 1 \in 0..RingSize
    BY <1>1, <2>1
  <2>3. f[n - 1] \in Pages /\ f[n] = turn[n][f[n - 1]]
    <3> HIDE DEF turn, start
    <3>1. QED  BY <1>4, <2>2 DEF Loop
  <2>4. QED  BY <2>2, <2>3
<1>6. Follows(f)
  <2> HIDE DEF Turned
  <2>1. f = [n \in 0..RingSize |-> f[n]]
    <3> HIDE DEF turn, start
    <3>1. QED  BY <1>4 DEF Loop
  <2>2. QED  BY <1>5, <2>1
<1> DEFINE after == CHOOSE g : Follows(g)
<1>7. Follows(after)
  <2> HIDE DEF Follows
  <2>1. QED  BY <1>6
<1>8. Log!Contents = after[RingSize].shown
  BY DEF Log!Contents
<1> HIDE DEF after
<1>9. \A n \in 0..RingSize : after[n] = Turned(after, n)
  <2> HIDE DEF Turned
  <2>1. QED  BY <1>7
<1>10. after[0] = start
  <2>1. 0 \in 0..RingSize
    BY <1>1
  <2>2. QED  BY <1>9, <2>1
<1>11. \A n \in 1..RingSize : after[n] = Log!ShowNext(after[n - 1])
  <2>1. \A n \in 1..RingSize : n \in 0..RingSize /\ n # 0
    BY <1>1
  <2>2. QED  BY <1>9, <2>1
<1>12. QED  BY <1>8, <1>10, <1>11

(* The place of the first record that is left, and the room there is, when   *)
(* so many are gone.                                                         *)
PlaceAfter(e) == [first |-> EndsOf(logged)[e] % RingSize,
                  avail |-> RingSize - (EndsOf(logged)[Len(logged)] - EndsOf(logged)[e])]

(* Where the records that were logged end.                                   *)
LEMMA LoggedEnds ==
  ASSUME LogInv
  PROVE  /\ Len(logged) \in Nat
         /\ \A i \in 0..Len(logged) : EndsOf(logged)[i] \in Nat
         /\ \A i \in 1..Len(logged) :
              /\ Len(Log!Cut(logged[i].line)) \in Nat
              /\ EndsOf(logged)[i] = EndsOf(logged)[i - 1] + (3 + Len(Log!Cut(logged[i].line)))
         /\ \A i, j \in 0..Len(logged) :
              i <= j => EndsOf(logged)[i] + (j - i) <= EndsOf(logged)[j]
<1>1. logged \in Logged
  BY DEF LogInv
<1>2. Len(logged) \in Nat /\ \A i \in 0..Len(logged) : EndsOf(logged)[i] \in Nat
  BY <1>1, PlacesAre
<1>3. ASSUME NEW i \in 1..Len(logged)
      PROVE  /\ Len(Log!Cut(logged[i].line)) \in Nat
             /\ EndsOf(logged)[i] = EndsOf(logged)[i - 1] + (3 + Len(Log!Cut(logged[i].line)))
  <2>1. /\ Log!Cut(logged[i].line) \in Seq(Nat)
        /\ SizesOf(logged)[i] = 3 + Len(Log!Cut(logged[i].line))
        /\ EndsOf(logged)[i] = EndsOf(logged)[i - 1] + SizesOf(logged)[i]
    BY <1>1, PlacesAre
  <2>2. QED  BY <2>1
<1>4. \A i, j \in 0..Len(logged) :
        i <= j => EndsOf(logged)[i] + (j - i) <= EndsOf(logged)[j]
  BY <1>1, PlacesAre
<1>5. QED  BY <1>2, <1>3, <1>4

(* Skipping makes room, and no more of it than is needed.                    *)
LEMMA MakesRoom ==
  ASSUME LogInv, NEW gone, RingFits(logged, gone), NEW needed \in Nat, needed <= RingSize
  PROVE  \E e \in gone..Len(logged) :
           /\ Log!Room(needed) = PlaceAfter(e) /\ PlaceAfter(e).avail >= needed
           /\ \A j \in gone..(e - 1) : PlaceAfter(j).avail < needed
<1> DEFINE len == Len(logged)
<1>1. /\ logged \in Logged /\ buffer \in [0..(RingSize - 1) -> Nat] /\ gone \in 0..len
      /\ first = PlaceAfter(gone).first /\ avail = PlaceAfter(gone).avail
  BY DEF LogInv, RingFits, PlaceAfter
<1>2. /\ len \in Nat
      /\ \A i \in 0..len : EndsOf(logged)[i] \in Nat
      /\ \A i \in 1..len : EndsOf(logged)[i] = EndsOf(logged)[i - 1] + (3 + Len(Log!Cut(logged[i].line)))
      /\ \A i \in 1..len : Len(Log!Cut(logged[i].line)) \in Nat
      /\ \A i, j \in 0..len : i <= j => EndsOf(logged)[i] + (j - i) <= EndsOf(logged)[j]
  BY LoggedEnds
<1>3. \A e \in 0..len : PlaceAfter(e).first \in Int /\ PlaceAfter(e).avail \in Int
  <2>1. SUFFICES ASSUME NEW e \in 0..len  PROVE PlaceAfter(e).first \in Int /\ PlaceAfter(e).avail \in Int
    OBVIOUS
  <2>2. EndsOf(logged)[e] \in Int /\ EndsOf(logged)[len] \in Int
    BY <1>2
  <2>3. EndsOf(logged)[e] % RingSize \in Int /\ RingSize \in Int
    <3>1. EndsOf(logged)[e] % RingSize \in Int
      BY <2>2, RingLaws, Zenon
    <3>2. RingSize \in Int
      BY RingLaws
    <3>3. QED  BY <3>1, <3>2
  <2>4. QED  BY <2>2, <2>3 DEF PlaceAfter
<1>4. PICK after : /\ after[0] = [first |-> first, avail |-> avail]
                   /\ \A n \in 1..RingSize : after[n] = Log!DropOldest(after[n - 1], needed)
                   /\ Log!Room(needed) = after[RingSize]
  BY <1>1, <1>3, RoomRuns
<1> DEFINE At(n, e) == /\ after[n] = PlaceAfter(e)
                       /\ \A j \in gone..(e - 1) : PlaceAfter(j).avail < needed
                       /\ after[n].avail >= needed \/ e = gone + n
           G == {n \in 0..RingSize : \E e \in gone..len : At(n, e)}
<1>5. RingSize \in Nat
  BY RingLaws
<1>6. 0 \in G
  <2>1. after[0] = PlaceAfter(gone)
    BY <1>1, <1>4 DEF PlaceAfter
  <2>2. gone \in gone..len /\ gone + 0 = gone /\ \A j \in gone..(gone - 1) : FALSE
    BY <1>1, <1>2
  <2>3. At(0, gone)
    BY <2>1, <2>2
  <2> HIDE DEF At
  <2>4. QED  BY <1>5, <2>2, <2>3
<1>7. ASSUME NEW n \in 1..RingSize, n - 1 \in G  PROVE n \in G
  <2>1. PICK e \in gone..len : At(n - 1, e)
    BY <1>7
  <2> DEFINE r == PlaceAfter(e)
  <2>2. e \in 0..len /\ r.avail \in Int /\ r.first \in Int
    BY <1>1, <1>2, <1>3
  <2>3. after[n] = Log!DropOldest(r, needed)
    BY <1>4, <2>1
  <2>4. CASE r.avail >= needed
    <3>1. after[n] = r
      BY <2>3, <2>4 DEF Log!DropOldest
    <3>2. At(n, e)
      BY <2>1, <2>4, <3>1
    <3> HIDE DEF At
    <3>3. QED  BY <3>2
  <2>5. CASE ~(r.avail >= needed)
    <3>1. e = gone + (n - 1)
      BY <2>1, <2>5
    <3>2. e # len
      <4>1. SUFFICES ASSUME e = len  PROVE FALSE
        OBVIOUS
      <4>2. r.avail = RingSize
        BY <1>2, <1>5, <4>1 DEF PlaceAfter
      <4>3. QED  BY <2>5, <4>2
    <3>3. e + 1 \in (gone + 1)..len /\ e + 1 \in 1..len /\ (e + 1) - 1 = e /\ e + 1 \in gone..len
      BY <1>1, <1>2, <3>2
    <3> DEFINE length == Log!LengthIn(Log!Peek(r.first, 3))
               line == Log!Cut(logged[e + 1].line)
    <3>4. r.first = EndsOf(logged)[(e + 1) - 1] % RingSize
      BY <3>3 DEF PlaceAfter
    <3>5. length = Len(line) /\ (r.first + (3 + Len(line))) % RingSize = EndsOf(logged)[e + 1] % RingSize
      BY <3>3, <3>4, ReadsRecord
    <3>6. after[n] = [first |-> (r.first + (3 + length)) % RingSize, avail |-> r.avail + (3 + length)]
      BY <2>3, <2>5 DEF Log!DropOldest
    <3>7. EndsOf(logged)[e + 1] = EndsOf(logged)[e] + (3 + Len(line)) /\ Len(line) \in Nat
      BY <1>2, <3>3
    <3> HIDE DEF length, line
    <3>8. r.avail + (3 + length) = PlaceAfter(e + 1).avail
      <4>1. EndsOf(logged)[e] \in Nat /\ EndsOf(logged)[len] \in Nat
        BY <1>2, <2>2
      <4>2. QED  BY <1>5, <3>5, <3>7, <4>1 DEF PlaceAfter
    <3>9. after[n] = PlaceAfter(e + 1)
      BY <3>5, <3>6, <3>8 DEF PlaceAfter
    <3>10. \A j \in gone..((e + 1) - 1) : PlaceAfter(j).avail < needed
      <4>1. \A j \in gone..e : j \in gone..(e - 1) \/ j = e
        BY <1>1, <2>2
      <4>2. r.avail < needed
        BY <2>2, <2>5
      <4>3. QED  BY <2>1, <3>3, <4>1, <4>2
    <3>11. e + 1 = gone + n
      BY <1>1, <3>1
    <3>12. At(n, e + 1)
      BY <3>9, <3>10, <3>11
    <3> HIDE DEF At
    <3>13. QED  BY <3>3, <3>12
  <2>6. QED  BY <2>4, <2>5
<1>8. RingSize \in G
  <2> HIDE DEF G
  <2>1. \A n \in 0..RingSize : n \in G
    BY <1>5, <1>6, <1>7, StepByStep
  <2>2. RingSize \in 0..RingSize
    BY <1>5
  <2>3. QED  BY <2>1, <2>2
<1>9. PICK e \in gone..len : At(RingSize, e)
  BY <1>8
<1>10. PlaceAfter(e).avail >= needed
  <2>1. CASE e = gone + RingSize
    <3>1. e \in 0..len /\ len \in 0..len /\ EndsOf(logged)[gone] \in Nat
      BY <1>1, <1>2
    <3>2. EndsOf(logged)[gone] + RingSize <= EndsOf(logged)[e] /\ EndsOf(logged)[e] <= EndsOf(logged)[len]
      <4>1. EndsOf(logged)[gone] + (e - gone) <= EndsOf(logged)[e]
        BY <1>1, <1>2, <1>5, <2>1, <3>1
      <4>2. EndsOf(logged)[e] + (len - e) <= EndsOf(logged)[len]
        BY <1>2, <3>1
      <4>3. e - gone = RingSize /\ len - e >= 0
        BY <1>1, <1>2, <1>5, <2>1, <3>1
      <4>4. EndsOf(logged)[e] \in Nat /\ EndsOf(logged)[len] \in Nat
        BY <1>2, <3>1
      <4>5. QED  BY <3>1, <4>1, <4>2, <4>3, <4>4
    <3>3. PlaceAfter(gone).avail = avail /\ avail >= 0
      BY <1>1 DEF RingFits
    <3>4. PlaceAfter(gone).avail = RingSize - (EndsOf(logged)[len] - EndsOf(logged)[gone])
      BY DEF PlaceAfter
    <3>5. EndsOf(logged)[e] \in Nat /\ EndsOf(logged)[len] \in Nat
      BY <1>2, <3>1
    <3>6. EndsOf(logged)[len] = EndsOf(logged)[e]
      BY <1>5, <3>1, <3>2, <3>3, <3>4, <3>5
    <3>7. PlaceAfter(e).avail = RingSize
      BY <1>5, <3>5, <3>6 DEF PlaceAfter
    <3>8. QED  BY <3>7
  <2>2. QED  BY <1>9, <2>1
<1>11. QED  BY <1>4, <1>9, <1>10

(* A whole turn around the ring leads back.                                  *)
LEMMA RemainderTurns ==
  ASSUME NEW n \in Nat, n # 0, NEW x \in Int
  PROVE  (x + n) % n = x % n
<1> DEFINE q == x \div n
           m == x % n
           w == x + n
           s == q + 1
           nq == n * q
<1>1. m \in 0..(n - 1) /\ q \in Int /\ x = nq + m
  BY DivisionIs
<1> HIDE DEF q, m
<1>2. nq \in Int /\ n * (q + 1) = nq + n * 1 /\ n * 1 = n
  BY <1>1, Multiples
<1> HIDE DEF nq
<1>3. w = n * s + m /\ s \in Int /\ w \in Int
  BY <1>1, <1>2
<1> HIDE DEF w, s
<1>4. w % n = m
  BY <1>1, <1>3, RemainderIs
<1>5. QED  BY <1>4 DEF w, m

(* The lines that are left when so many are gone.                            *)
Item(i) == [level |-> logged[i].level, line |-> Log!Cut(logged[i].line)]
Items(gone, upto) == [k \in 1..(upto - gone) |-> Item(gone + k)]

(* What the ring shows: what is left, or nothing when that fills it.         *)
LEMMA ShowsItems ==
  ASSUME LogInv, NEW gone, RingFits(logged, gone)
  PROVE  Log!Contents = IF avail = 0 THEN <<>> ELSE Items(gone, Len(logged))
<1> DEFINE len == Len(logged)
           ends == EndsOf(logged)
<1>1. /\ logged \in Logged /\ buffer \in [0..(RingSize - 1) -> Nat] /\ gone \in 0..len
      /\ first = ends[gone] % RingSize /\ last = ends[len] % RingSize
      /\ avail = RingSize - (ends[len] - ends[gone]) /\ avail >= 0
  BY DEF LogInv, RingFits
<1>2. /\ len \in Nat
      /\ \A i \in 0..len : ends[i] \in Nat
      /\ \A i, j \in 0..len : i <= j => ends[i] + (j - i) <= ends[j]
  BY LoggedEnds
<1> HIDE DEF ends
<1>3. RingSize \in Nat /\ RingSize # 0
  BY RingLaws
<1>4. first \in Int
  <2>1. ends[gone] \in Int
    BY <1>1, <1>2
  <2>2. QED  BY <1>1, <2>1, RingLaws, Zenon
<1>5. PICK after : /\ after[0] = [pos |-> first, shown |-> <<>>]
                   /\ \A n \in 1..RingSize : after[n] = Log!ShowNext(after[n - 1])
                   /\ Log!Contents = after[RingSize].shown
  BY <1>1, <1>4, ContentsRun
<1> DEFINE At(n, e) == /\ after[n] = [pos |-> ends[e] % RingSize, shown |-> Items(gone, e)]
                       /\ IF avail = 0 THEN e = gone ELSE e = len \/ e = gone + n
           G == {n \in 0..RingSize : \E e \in gone..len : At(n, e)}
<1>6. 0 \in G
  <2>1. Items(gone, gone) = <<>>
    <3>1. gone - gone = 0
      BY <1>1
    <3>2. QED  BY <3>1 DEF Items
  <2>2. gone \in gone..len /\ gone + 0 = gone
    BY <1>1, <1>2
  <2>3. At(0, gone)
    BY <1>1, <1>5, <2>1, <2>2
  <2> HIDE DEF At
  <2>4. QED  BY <1>3, <2>2, <2>3
(* The loop ends where it should.                                            *)
<1>7. ASSUME NEW e \in gone..len, IF avail = 0 THEN e = gone ELSE TRUE
      PROVE  ends[e] % RingSize = last <=> avail = 0 \/ e = len
  <2>1. /\ e \in 0..len /\ len \in 0..len /\ ends[e] \in Nat /\ ends[len] \in Nat
        /\ ends[gone] \in Nat
    BY <1>1, <1>2
  <2>2. ASSUME avail = 0  PROVE ends[e] % RingSize = last
    <3>1. e = gone /\ ends[len] = ends[e] + RingSize
      <4>1. e = gone
        BY <1>7, <2>2
      <4>2. RingSize - (ends[len] - ends[gone]) = 0
        BY <1>1, <2>2
      <4>3. ends[len] \in Int /\ ends[gone] \in Int /\ RingSize \in Int
        BY <1>3, <2>1
      <4> HIDE DEF len
      <4>4. ends[len] = ends[gone] + RingSize
        BY <4>2, <4>3
      <4>5. QED  BY <4>1, <4>4
    <3>2. ends[e] \in Int
      BY <2>1
    <3>3. (ends[e] + RingSize) % RingSize = ends[e] % RingSize
      BY <1>3, <3>2, RemainderTurns
    <3>4. QED  BY <1>1, <3>1, <3>3
  <2>3. ASSUME avail # 0, ends[e] % RingSize = last  PROVE e = len
    <3>1. ends[gone] + (e - gone) <= ends[e] /\ ends[e] + (len - e) <= ends[len]
      BY <1>1, <1>2, <2>1
    <3>2. e - gone >= 0 /\ len - e >= 0 /\ e - gone \in Int /\ len - e \in Int
      BY <1>1, <1>2, <2>1
    <3>3. ends[e] <= ends[len] /\ ends[len] - ends[e] < RingSize
      <4>1. ends[len] - ends[gone] < RingSize
        BY <1>1, <1>3, <2>1, <2>3
      <4>2. QED  BY <1>3, <2>1, <3>1, <3>2, <4>1
    <3>4. ends[e] = ends[len]
      <4>1. ends[e] \in Int /\ ends[len] \in Int
        BY <2>1
      <4>2. ends[e] % RingSize = ends[len] % RingSize
        BY <1>1, <2>3
      <4>3. QED  BY <1>3, <3>3, <4>1, <4>2, RemainderTells
    <3>5. QED  BY <1>2, <2>1, <3>1, <3>2, <3>4
  <2>4. QED  BY <1>1, <2>2, <2>3
<1>8. ASSUME NEW n \in 1..RingSize, n - 1 \in G  PROVE n \in G
  <2>1. PICK e \in gone..len : At(n - 1, e)
    BY <1>8
  <2> DEFINE r == after[n - 1]
  <2>2. r.pos = ends[e] % RingSize /\ r.shown = Items(gone, e)
    BY <2>1
  <2>3. after[n] = Log!ShowNext(r)
    BY <1>5
  <2>4. CASE avail = 0 \/ e = len
    <3>1. r.pos = last
      BY <1>7, <2>1, <2>2, <2>4
    <3> HIDE DEF r
    <3>2. after[n] = r
      BY <2>3, <3>1 DEF Log!ShowNext
    <3>3. At(n, e)
      BY <2>1, <2>4, <3>2 DEF r
    <3> HIDE DEF At
    <3>4. QED  BY <3>3
  <2>5. CASE ~(avail = 0 \/ e = len)
    <3>1. e = gone + (n - 1) /\ r.pos # last
      BY <1>7, <2>1, <2>2, <2>5
    <3>2. e + 1 \in (gone + 1)..len /\ (e + 1) - 1 = e /\ e + 1 \in gone..len /\ e + 1 = gone + n
      BY <1>1, <1>2, <2>5, <3>1
    <3> DEFINE meta == Log!Peek(r.pos, 3)
               line == Log!Cut(logged[e + 1].line)
    <3> HIDE DEF r
    <3>3. /\ meta[1] = logged[e + 1].level /\ Log!LengthIn(meta) = Len(line)
          /\ Log!Peek((r.pos + 3) % RingSize, Len(line)) = line
          /\ (r.pos + (3 + Len(line))) % RingSize = ends[e + 1] % RingSize
      <4>1. r.pos = EndsOf(logged)[(e + 1) - 1] % RingSize
        BY <2>2, <3>2 DEF ends
      <4>2. QED  BY <3>2, <4>1, ReadsRecord DEF ends
    <3>4. Len(line) \in Nat
      BY <1>1, <1>2, <3>2, LoggedEnds
    <3>5. r.pos \in Int
      <4>1. ends[e] \in Int
        BY <1>1, <1>2
      <4>2. QED  BY <2>2, <4>1, RingLaws, Zenon
    <3>6. after[n] = [pos |-> (r.pos + 3 + Log!LengthIn(meta)) % RingSize,
                      shown |-> Append(r.shown,
                        [level |-> meta[1],
                         line |-> Log!Peek((r.pos + 3) % RingSize, Log!LengthIn(meta))])]
      BY <2>3, <3>1 DEF Log!ShowNext, r
    <3> HIDE DEF meta, line
    <3>7. r.pos + 3 + Len(line) = r.pos + (3 + Len(line))
      BY <3>4, <3>5
    <3>8. after[n] = [pos |-> ends[e + 1] % RingSize, shown |-> Append(r.shown, Item(e + 1))]
      BY <3>3, <3>6, <3>7 DEF Item, line
    <3>9. Append(r.shown, Item(e + 1)) = Items(gone, e + 1)
      <4> DEFINE m == e - gone
      <4>1. m \in Nat /\ (e + 1) - gone = m + 1 /\ gone + (m + 1) = e + 1
        BY <1>1, <1>2
      <4>2. Items(gone, e) = [k \in 1..m |-> Item(gone + k)]
        BY DEF Items
      <4>3. Items(gone, e + 1) = [k \in 1..(m + 1) |-> Item(gone + k)]
        BY <4>1 DEF Items
      <4> HIDE DEF m
      <4>4. \A f : f = [k \in 1..m |-> Item(gone + k)] =>
              Append(f, Item(gone + (m + 1))) = [k \in 1..(m + 1) |-> Item(gone + k)]
        BY <4>1
      <4>5. QED  BY <2>2, <4>1, <4>2, <4>3, <4>4
    <3>10. At(n, e + 1)
      BY <2>5, <3>2, <3>8, <3>9
    <3> HIDE DEF At
    <3>11. QED  BY <3>2, <3>10
  <2>6. QED  BY <2>4, <2>5
<1>9. RingSize \in G
  <2> HIDE DEF G
  <2>1. \A n \in 0..RingSize : n \in G
    BY <1>3, <1>6, <1>8, StepByStep
  <2>2. RingSize \in 0..RingSize
    BY <1>3
  <2>3. QED  BY <2>1, <2>2
<1>10. PICK e \in gone..len : At(RingSize, e)
  BY <1>9
<1>11. Log!Contents = Items(gone, e)
  BY <1>5, <1>10
<1>12. CASE avail = 0
  <2>1. e = gone
    BY <1>10, <1>12
  <2>2. gone - gone = 0
    BY <1>1
  <2>3. Items(gone, gone) = <<>>
    BY <2>2 DEF Items
  <2>4. QED  BY <1>11, <1>12, <2>1, <2>3
<1>13. CASE avail # 0
  <2>1. e = len
    <3>1. SUFFICES ASSUME e = gone + RingSize  PROVE FALSE
      BY <1>10, <1>13
    <3>2. e \in 0..len /\ len \in 0..len /\ gone \in 0..len
      BY <1>1, <1>2
    <3>3. ends[gone] + (len - gone) <= ends[len] /\ len - gone >= RingSize
      BY <1>1, <1>2, <1>3, <3>1, <3>2
    <3>4. ends[gone] \in Nat /\ ends[len] \in Nat /\ len - gone \in Int
      BY <1>2, <3>2
    <3>5. ends[len] - ends[gone] < RingSize
      BY <1>1, <1>3, <1>13, <3>4
    <3>6. QED  BY <1>3, <3>3, <3>4, <3>5
  <2>2. QED  BY <1>11, <1>13, <2>1
<1>14. QED  BY <1>12, <1>13

(* The lines the property names are those.                                   *)
LEMMA LogImplies == LogInv => Log!LogShowsLatest
<1> SUFFICES ASSUME LogInv  PROVE Log!LogShowsLatest
  OBVIOUS
<1> DEFINE len == Len(logged)
           ends == EndsOf(logged)
           Fits(k) == /\ Log!Weight(k) <= RingSize
                      /\ \A j \in (k + 1)..len : Log!Weight(j) > RingSize
<1>1. PICK gone : RingFits(logged, gone)
  BY DEF LogInv
<1>2. /\ gone \in 0..len /\ avail = RingSize - (ends[len] - ends[gone]) /\ avail >= 0
      /\ \A j \in 0..(gone - 1) : ends[len] - ends[j] > RingSize
  BY <1>1 DEF RingFits
<1>3. Log!Ends = ends
  BY DEF Log!Ends, EndsOf, SizesOf, Log!Totals, Totals
<1>4. len \in Nat /\ \A i \in 0..len : ends[i] \in Nat
  BY LoggedEnds
<1>5. \A k : Log!Weight(k) = ends[len] - ends[len - k]
  BY <1>3 DEF Log!Weight
<1> HIDE DEF ends
<1> DEFINE k0 == len - gone
<1>6. k0 \in 0..len /\ len - k0 = gone
  BY <1>2, <1>4
<1>7. RingSize \in Nat
  BY RingLaws
<1>8. Log!Weight(k0) = RingSize - avail
  <2>1. Log!Weight(k0) = ends[len] - ends[gone]
    BY <1>5, <1>6
  <2>2. ends[gone] \in Nat /\ ends[len] \in Nat
    BY <1>2, <1>4
  <2>3. QED  BY <1>2, <1>7, <2>1, <2>2
<1>9. avail \in Int
  <2>1. ends[gone] \in Nat /\ ends[len] \in Nat
    BY <1>2, <1>4
  <2>2. QED  BY <1>2, <1>7, <2>1
<1>10. Fits(k0)
  <2>1. \A j \in (k0 + 1)..len : len - j \in 0..(gone - 1)
    BY <1>2, <1>4
  <2>2. \A j \in (k0 + 1)..len : Log!Weight(j) > RingSize
    BY <1>2, <1>5, <2>1
  <2>3. Log!Weight(k0) <= RingSize
    BY <1>2, <1>7, <1>8, <1>9
  <2>4. QED  BY <2>2, <2>3
<1>11. \A k \in 0..len : Fits(k) => k = k0
  <2>1. SUFFICES ASSUME NEW k \in 0..len, Fits(k), k # k0  PROVE FALSE
    OBVIOUS
  <2>2. Log!Weight(k) \in Int /\ Log!Weight(k0) \in Int
    <3>1. len - k \in 0..len /\ len - k0 \in 0..len /\ len \in 0..len
      BY <1>4, <1>6
    <3>2. ends[len - k] \in Nat /\ ends[len - k0] \in Nat /\ ends[len] \in Nat
      BY <1>4, <3>1
    <3>3. /\ Log!Weight(k) = ends[len] - ends[len - k]
          /\ Log!Weight(k0) = ends[len] - ends[len - k0]
      BY <1>5
    <3> HIDE DEF len, k0
    <3>4. QED  BY <3>2, <3>3
  <2>3. CASE k < k0
    <3>1. k0 \in (k + 1)..len
      BY <1>4, <1>6, <2>3
    <3>2. QED  BY <1>7, <1>10, <2>1, <2>2, <3>1
  <2>4. CASE k > k0
    <3>1. k \in (k0 + 1)..len
      BY <1>4, <1>6, <2>4
    <3>2. QED  BY <1>7, <1>10, <2>1, <2>2, <3>1
  <2>5. k \in Int /\ k0 \in Int
    BY <1>4, <1>6
  <2>6. QED  BY <2>1, <2>3, <2>4, <2>5
<1>12. Log!Fitting = k0
  <2>1. Log!Fitting = CHOOSE k \in 0..len : Fits(k)
    BY DEF Log!Fitting
  <2> HIDE DEF Fits
  <2>2. QED  BY <1>6, <1>10, <1>11, <2>1
<1>13. Log!Kept(k0) = Items(gone, len)
  <2>1. \A i : len - k0 + i = gone + i
    BY <1>6
  <2>2. Log!Kept(k0) = [i \in 1..k0 |-> Item(len - k0 + i)]
    BY DEF Log!Kept, Item
  <2>3. Items(gone, len) = [i \in 1..k0 |-> Item(gone + i)]
    BY DEF Items
  <2> HIDE DEF k0
  <2>4. QED  BY <2>1, <2>2, <2>3
<1>14. Log!Weight(k0) = RingSize <=> avail = 0
  BY <1>7, <1>8, <1>9
<1>15. Log!Contents = IF avail = 0 THEN <<>> ELSE Items(gone, len)
  BY <1>1, ShowsItems
<1>16. QED  BY <1>12, <1>13, <1>14, <1>15 DEF Log!LogShowsLatest

(* At first nothing was logged.                                              *)
LEMMA LogInit == Log!Init => LogInv
<1> SUFFICES ASSUME Log!Init  PROVE LogInv
  OBVIOUS
<1>1. RingSize \in Nat /\ RingSize # 0
  BY RingLaws
<1>2. /\ buffer = [p \in 0..(RingSize - 1) |-> 0] /\ avail = RingSize
      /\ first = 0 /\ last = 0 /\ logged = <<>>
  BY DEF Log!Init
<1>3. logged \in Logged /\ Len(logged) = 0
  BY <1>2 DEF Logged
<1>4. EndsOf(logged)[0] = 0
  BY <1>3, PlacesAre
<1>5. 0 % RingSize = 0
  BY <1>1, RemainderOfSmall
<1>6. HasRecords(buffer, logged, 0)
  <2>1. \A i \in (0 + 1)..Len(logged) : FALSE
    BY <1>3
  <2>2. QED  BY <2>1 DEF HasRecords
<1>7. RingFits(logged, 0)
  <2>1. \A j \in 0..(0 - 1) : FALSE
    OBVIOUS
  <2>2. QED  BY <1>1, <1>2, <1>3, <1>4, <1>5, <1>6, <2>1 DEF RingFits
<1>8. buffer \in [0..(RingSize - 1) -> Nat]
  BY <1>2
<1>9. QED  BY <1>3, <1>7, <1>8 DEF LogInv

(* A longer list has the same records at the same places, and one more.      *)
LEMMA EndsExtend ==
  ASSUME NEW list \in Logged, NEW item \in [level: Nat, line: Seq(Nat)],
         NEW more, more = Append(list, item)
  PROVE  /\ more \in Logged /\ Len(more) = Len(list) + 1 /\ more[Len(list) + 1] = item
         /\ \A i \in 1..Len(list) : more[i] = list[i] /\ RecordOf(more, i) = RecordOf(list, i)
         /\ \A n \in 0..Len(list) : EndsOf(more)[n] = EndsOf(list)[n]
         /\ EndsOf(more)[Len(list) + 1]
              = EndsOf(list)[Len(list)] + Len(RecordOf(more, Len(list) + 1))
<1> DEFINE len == Len(list)
<1>1. /\ more \in Logged /\ len \in Nat /\ Len(more) = len + 1 /\ more[len + 1] = item
      /\ \A i \in 1..len : more[i] = list[i]
  <2>1. len \in Nat
    BY DEF Logged
  <2>2. QED  BY <2>1, AppendProperties DEF Logged
<1>2. \A i \in 1..len : RecordOf(more, i) = RecordOf(list, i)
  BY <1>1 DEF RecordOf
<1>3. \A n \in 0..len : EndsOf(more)[n] = EndsOf(list)[n]
  <2>1. /\ SizesOf(list) \in Seq(Nat) /\ Len(SizesOf(list)) = len
        /\ SizesOf(more) \in Seq(Nat) /\ Len(SizesOf(more)) = len + 1
    BY <1>1, PlacesAre
  <2>2. \A i \in 1..len : SizesOf(list)[i] = SizesOf(more)[i]
    <3>1. SUFFICES ASSUME NEW i \in 1..len  PROVE SizesOf(list)[i] = SizesOf(more)[i]
      OBVIOUS
    <3>2. i \in 1..Len(more)
      BY <1>1
    <3>3. /\ SizesOf(list)[i] = 3 + Len(Log!Cut(list[i].line))
          /\ SizesOf(more)[i] = 3 + Len(Log!Cut(more[i].line))
      BY <1>1, <3>2, PlacesAre
    <3>4. QED  BY <1>1, <3>3
  <2>3. len <= len + 1
    BY <1>1
  <2> HIDE DEF len
  <2>4. \A n \in 0..len : Totals(SizesOf(more))[n] = Totals(SizesOf(list))[n]
    BY <2>1, <2>2, <2>3, TotalsExtend
  <2>5. QED  BY <2>4 DEF EndsOf
<1>4. EndsOf(more)[len + 1] = EndsOf(list)[len] + Len(RecordOf(more, len + 1))
  <2>1. len + 1 \in 1..Len(more) /\ (len + 1) - 1 = len /\ len \in 0..len
    BY <1>1
  <2>2. /\ EndsOf(more)[len + 1] = EndsOf(more)[(len + 1) - 1] + SizesOf(more)[len + 1]
        /\ SizesOf(more)[len + 1] = Len(RecordOf(more, len + 1))
    BY <1>1, <2>1, PlacesAre
  <2>3. QED  BY <1>3, <2>1, <2>2
<1>5. QED  BY <1>1, <1>2, <1>3, <1>4

(* Logging a line keeps the ring right: the records that made room are gone, *)
(* and the new one is written over no other.                                 *)
LEMMA LogKeeps ==
  ASSUME LogInv, NEW level \in Levels, NEW length \in Lengths, Log!Log(level, length)
  PROVE  LogInv'
<1> DEFINE len == Len(logged)
           line == Log!Line(len, length)
           cut == Log!Cut(line)
           record == Log!Record(level, cut)
           size == Len(record)
           item == [level |-> level, line |-> line]
           ends == EndsOf(logged)
           more == logged'
           after == EndsOf(more)
           ring == buffer'
<1>1. PICK gone : RingFits(logged, gone)
  BY DEF LogInv
<1>2. RingSize \in Nat /\ RingSize # 0
  BY RingLaws
<1>3. /\ logged \in Logged /\ buffer \in [0..(RingSize - 1) -> Nat] /\ gone \in 0..len
      /\ last = ends[len] % RingSize
  BY <1>1 DEF LogInv, RingFits
<1>4. /\ ring = [p \in 0..(RingSize - 1) |->
                  IF ((p - last) % RingSize) < size
                    THEN record[((p - last) % RingSize) + 1] ELSE buffer[p]]
      /\ first' = Log!Room(size).first
      /\ last' = (last + size) % RingSize
      /\ avail' = Log!Room(size).avail - size
      /\ more = Append(logged, item)
  BY DEF Log!Log
<1>5. line \in Seq(Nat) /\ level \in Nat
  <2>1. length \in Nat /\ Base \in Nat /\ level \in Nat /\ len \in Nat
    BY <1>3, LogAssumption, LoggedEnds
  <2>2. \A i \in 1..length : Base * len + i \in Nat
    <3> DEFINE b == Base * len
    <3>1. b \in Nat
      BY <2>1
    <3> HIDE DEF b
    <3>2. \A i \in 1..length : b + i \in Nat
      BY <2>1, <3>1
    <3>3. QED  BY <3>2 DEF b
  <2>3. line = [i \in 1..length |-> Base * len + i]
    BY DEF Log!Line
  <2> HIDE DEF line
  <2>4. line \in [1..length -> Nat]
    BY <2>2, <2>3
  <2>5. QED  BY <2>1, <2>4
<1> HIDE DEF line
<1>6. cut \in Seq(Nat) /\ Len(cut) <= MaxLine - 3 /\ Len(cut) \in Nat
  BY <1>5, CutIs
<1>7. /\ record \in Seq(Nat) /\ size = 3 + Len(cut)
  <2> HIDE DEF cut
  <2>1. QED  BY <1>5, <1>6, RecordIs
<1>8. size \in Nat /\ size >= 3 /\ size <= RingSize
  <2> HIDE DEF cut, size
  <2>1. QED  BY <1>6, <1>7, LogAssumption
<1>9. item \in [level: Nat, line: Seq(Nat)]
  BY <1>5
<1>10. /\ len \in Nat
       /\ \A i \in 0..len : ends[i] \in Nat
       /\ \A i, j \in 0..len : i <= j => ends[i] + (j - i) <= ends[j]
  BY LoggedEnds
<1> HIDE DEF item
<1>11. /\ more \in Logged /\ Len(more) = len + 1 /\ more[len + 1] = item
       /\ \A i \in 1..len : more[i] = logged[i] /\ RecordOf(more, i) = RecordOf(logged, i)
       /\ \A n \in 0..len : after[n] = ends[n]
       /\ after[len + 1] = ends[len] + Len(RecordOf(more, len + 1))
  <2>1. more = Append(logged, item)
    BY <1>4
  <2> HIDE DEF more
  <2> DEFINE Extends(m, x) ==
        /\ m \in Logged /\ Len(m) = len + 1 /\ m[len + 1] = x
        /\ \A i \in 1..len : m[i] = logged[i] /\ RecordOf(m, i) = RecordOf(logged, i)
        /\ \A n \in 0..len : EndsOf(m)[n] = ends[n]
        /\ EndsOf(m)[len + 1] = ends[len] + Len(RecordOf(m, len + 1))
  <2>2. \A x \in [level: Nat, line: Seq(Nat)] : \A m : m = Append(logged, x) => Extends(m, x)
    BY <1>3, EndsExtend
  <2> HIDE DEF Extends
  <2>3. Extends(more, item)
    BY <1>9, <2>1, <2>2
  <2>4. QED  BY <2>3 DEF Extends
<1>12. RecordOf(more, len + 1) = record
  BY <1>11 DEF RecordOf, item
<1>13. after[len + 1] = ends[len] + size
  BY <1>11, <1>12
<1> HIDE DEF record, size, more, after
<1>14. PICK e \in gone..len :
         /\ Log!Room(size) = PlaceAfter(e) /\ PlaceAfter(e).avail >= size
         /\ \A j \in gone..(e - 1) : PlaceAfter(j).avail < size
  BY <1>1, <1>8, MakesRoom
<1>15. \A j : PlaceAfter(j).first = ends[j] % RingSize
              /\ PlaceAfter(j).avail = RingSize - (ends[len] - ends[j])
  BY DEF PlaceAfter
<1> HIDE DEF ends
<1>16. e \in 0..len /\ ends[e] \in Nat /\ ends[len] \in Nat /\ len \in 0..len
  BY <1>3, <1>10, <1>14
<1>17. RingSize - (ends[len] - ends[e]) >= size
  BY <1>14, <1>15
<1>18. /\ last' = after[len + 1] % RingSize
       /\ first' = after[e] % RingSize
       /\ avail' = RingSize - (after[len + 1] - after[e])
       /\ avail' >= 0
  <2>1. last' = after[len + 1] % RingSize
    <3>1. ends[len] \in Int /\ size \in Int
      BY <1>8, <1>16
    <3>2. ((ends[len] % RingSize) + size) % RingSize = (ends[len] + size) % RingSize
      BY <3>1, RingLaws, Zenon
    <3>3. QED  BY <1>3, <1>4, <1>13, <3>2
  <2>2. first' = after[e] % RingSize
    BY <1>4, <1>11, <1>14, <1>15, <1>16
  <2>3. avail' = (RingSize - (ends[len] - ends[e])) - size
    BY <1>4, <1>14, <1>15
  <2>4. after[e] = ends[e]
    BY <1>11, <1>16
  <2> DEFINE a == ends[e]
             z == ends[len]
  <2>5. a \in Int /\ z \in Int /\ RingSize \in Int /\ size \in Int
    BY <1>2, <1>8, <1>16
  <2>6. avail' = (RingSize - (z - a)) - size /\ RingSize - (z - a) >= size
        /\ after[len + 1] - after[e] = (z + size) - a
    BY <1>13, <1>17, <2>3, <2>4
  <2> HIDE DEF a, z
  <2>7. avail' = RingSize - (after[len + 1] - after[e]) /\ avail' >= 0
    BY <2>5, <2>6
  <2>8. QED  BY <2>1, <2>2, <2>7
<1>19. \A j \in 0..(e - 1) : after[len + 1] - after[j] > RingSize
  <2>1. SUFFICES ASSUME NEW j \in 0..(e - 1)  PROVE after[len + 1] - after[j] > RingSize
    OBVIOUS
  <2>2. j \in 0..len
    BY <1>10, <1>16
  <2>3. ends[j] \in Nat /\ after[j] = ends[j]
    BY <1>10, <1>11, <2>2
  <2> DEFINE b == ends[j]
             z == ends[len]
  <2>4. b \in Int /\ z \in Int /\ size \in Int /\ RingSize \in Int /\ size >= 3
        /\ after[len + 1] = z + size /\ after[j] = b
    BY <1>2, <1>8, <1>13, <1>16, <2>3
  <2>5. z - b > RingSize \/ RingSize - (z - b) < size
    <3>1. CASE j < gone
      <4>1. j \in 0..(gone - 1)
        BY <1>3, <1>10, <2>2, <3>1
      <4>2. EndsOf(logged)[len] - EndsOf(logged)[j] > RingSize
        BY <1>1, <4>1 DEF RingFits
      <4>3. QED  BY <4>2 DEF ends
    <3>2. CASE j >= gone
      <4>1. j \in gone..(e - 1)
        BY <1>3, <1>10, <2>2, <3>2
      <4>2. QED  BY <1>14, <1>15, <4>1
    <3>3. gone \in Int /\ j \in Int
      BY <1>3, <1>10
    <3>4. QED  BY <3>1, <3>2, <3>3
  <2> HIDE DEF b, z
  <2>6. (z + size) - b > RingSize
    BY <2>4, <2>5
  <2>7. QED  BY <2>4, <2>6
<1>20. HasRecords(ring, more, e)
  <2> DEFINE Place(i, j) == after[i - 1] + j - 1
  <2>1. SUFFICES ASSUME NEW i \in (e + 1)..(len + 1), NEW j \in 1..Len(RecordOf(more, i))
                 PROVE  ring[Place(i, j) % RingSize] = RecordOf(more, i)[j]
    BY <1>11 DEF HasRecords, after
  <2>2. i \in 1..Len(more) /\ i - 1 \in 0..len /\ i - 1 \in e..len
    BY <1>10, <1>11, <1>16
  <2>3. Len(RecordOf(more, i)) \in Nat /\ after[i] = after[i - 1] + Len(RecordOf(more, i))
    <3>1. /\ Len(RecordOf(more, i)) = SizesOf(more)[i] /\ SizesOf(more)[i] \in 3..MaxLine
          /\ after[i] = after[i - 1] + SizesOf(more)[i]
      BY <1>11, <2>2, PlacesAre DEF after
    <3>2. QED  BY <3>1, LogAssumption
  <2> DEFINE x == Place(i, j)
             z == ends[len]
             a == after[i - 1]
  <2>4. a \in Nat /\ z \in Nat /\ a = ends[i - 1]
    BY <1>10, <1>11, <1>16, <2>2
  <2>5. x \in Int /\ x >= a /\ x < a + Len(RecordOf(more, i))
    <3> HIDE DEF a
    <3>1. x = a + j - 1
      BY DEF a
    <3>2. QED  BY <2>3, <2>4, <3>1
  <2> DEFINE p == x % RingSize
  <2> HIDE DEF x
  <2>6. p \in 0..(RingSize - 1) /\ p \in Int
    BY <2>5, RingLaws, Zenon
  <2>7. (p - last) % RingSize = (x - z) % RingSize
    <3>1. z \in Int
      BY <2>4
    <3>2. ((x % RingSize) - (z % RingSize)) % RingSize = (x - z) % RingSize
      BY <2>5, <3>1, RingLaws, Zenon
    <3>3. QED  BY <1>3, <3>2
  <2>8. ring[p] = IF ((p - last) % RingSize) < size
                    THEN record[((p - last) % RingSize) + 1] ELSE buffer[p]
    <3> HIDE DEF p
    <3>1. QED  BY <1>4, <2>6
  <2>9. CASE i = len + 1
    <3>1. RecordOf(more, i) = record /\ i - 1 = len /\ a = z
      BY <1>10, <1>12, <2>4, <2>9
    <3>2. x = z + (j - 1) /\ j \in Int
      BY <2>3, <2>4, <3>1 DEF x
    <3> HIDE DEF a, z
    <3>3. Len(RecordOf(more, i)) = size
      BY <3>1 DEF size
    <3>4. x - z = j - 1 /\ 0 <= j - 1 /\ j - 1 < RingSize /\ j - 1 < size /\ j - 1 \in Int
      BY <1>2, <1>8, <2>4, <3>2, <3>3
    <3>5. (j - 1) % RingSize = j - 1
      BY <1>2, <3>4, RemainderOfSmall
    <3>6. (p - last) % RingSize = j - 1
      BY <2>7, <3>4, <3>5
    <3> HIDE DEF p
    <3>7. ring[p] = record[(j - 1) + 1] /\ (j - 1) + 1 = j
      BY <2>8, <3>2, <3>4, <3>6
    <3>8. QED  BY <3>1, <3>7 DEF p, x
  <2>10. CASE i # len + 1
    <3>1. i \in 1..len /\ i \in (e + 1)..len /\ i \in (gone + 1)..len /\ i \in 0..len
          /\ i - 1 \in 0..len
      <4>1. i \in Int /\ i # len + 1 /\ i <= len + 1 /\ i >= e + 1 /\ e >= gone /\ gone >= 0
            /\ e \in Int /\ gone \in Int
        BY <1>3, <1>10, <1>14, <1>16, <2>10
      <4> HIDE DEF len
      <4>2. QED  BY <1>10, <4>1
    <3>2. RecordOf(more, i) = RecordOf(logged, i) /\ after[i] = ends[i] /\ a = ends[i - 1]
      BY <1>11, <3>1
    <3>3. buffer[p] = RecordOf(logged, i)[j]
      <4>1. buffer[(EndsOf(logged)[i - 1] + j - 1) % RingSize] = RecordOf(logged, i)[j]
        BY <1>1, <3>1, <3>2 DEF RingFits, HasRecords
      <4>2. x = EndsOf(logged)[i - 1] + j - 1
        BY <3>2 DEF x, ends
      <4>3. QED  BY <4>1, <4>2
    <3>4. x < z /\ x >= ends[e]
      <4>1. ends[i] + (len - i) <= z /\ ends[e] + ((i - 1) - e) <= a
        BY <1>10, <1>16, <2>2, <2>4, <3>1
      <4>2. len - i >= 0 /\ (i - 1) - e >= 0 /\ len - i \in Int /\ (i - 1) - e \in Int
        BY <1>10, <1>16, <3>1
      <4>3. ends[i] \in Nat /\ ends[e] \in Nat
        BY <1>10, <1>16, <3>1
      <4>4. x < ends[i]
        BY <2>3, <2>5, <3>2
      <4> HIDE DEF a, z
      <4>5. x < z
        BY <2>4, <2>5, <4>1, <4>2, <4>3, <4>4
      <4>6. x >= ends[e]
        BY <2>4, <2>5, <4>1, <4>2, <4>3
      <4>7. QED  BY <4>5, <4>6
    <3>5. RingSize - (z - ends[e]) >= size /\ ends[e] \in Int
      BY <1>16, <1>17
    <3> HIDE DEF z
    <3>6. x - z < 0 /\ x - z >= -RingSize /\ x - z \in Int /\ (x - z) + RingSize >= size
      BY <1>2, <1>8, <2>4, <2>5, <3>4, <3>5
    <3>7. (x - z) % RingSize = (x - z) + RingSize
      <4> DEFINE y == x - z
      <4>1. y < 0 /\ y >= -RingSize /\ y \in Int
        BY <3>6
      <4> HIDE DEF y
      <4>2. y % RingSize = y + RingSize
        BY <1>2, <4>1, RemainderOfSmall
      <4>3. QED  BY <4>2 DEF y
    <3>8. (p - last) % RingSize >= size /\ (p - last) % RingSize \in Int
      BY <1>2, <2>7, <3>6, <3>7
    <3> HIDE DEF p
    <3>9. ring[p] = buffer[p]
      BY <1>8, <2>8, <3>8
    <3>10. QED  BY <3>2, <3>3, <3>9 DEF p, x
  <2>11. QED  BY <2>9, <2>10
<1>21. ring \in [0..(RingSize - 1) -> Nat]
  <2>1. SUFFICES ASSUME NEW p \in 0..(RingSize - 1)
                 PROVE  (IF ((p - last) % RingSize) < size
                           THEN record[((p - last) % RingSize) + 1] ELSE buffer[p]) \in Nat
    BY <1>4
  <2>2. last \in Int
    <3>1. ends[len] \in Int
      BY <1>16
    <3>2. QED  BY <1>3, <3>1, RingLaws, Zenon
  <2> DEFINE d == (p - last) % RingSize
  <2>3. d \in 0..(RingSize - 1)
    <3>1. p - last \in Int
      BY <2>2
    <3>2. QED  BY <3>1, RingLaws, Zenon
  <2> HIDE DEF d
  <2>4. ASSUME d < size  PROVE record[d + 1] \in Nat
    <3>1. d + 1 \in 1..Len(record)
      BY <1>2, <1>8, <2>3, <2>4 DEF size
    <3>2. QED  BY <1>7, <3>1, ElementOfSeq
  <2>5. (IF d < size THEN record[d + 1] ELSE buffer[p]) \in Nat
    BY <1>3, <2>4
  <2>6. QED  BY <2>5 DEF d
<1>22. RingFits(logged, e)'
  <2>1. e \in 0..Len(more) /\ Len(more) = len + 1
    BY <1>10, <1>11, <1>16
  <2>2. QED
    BY <1>18, <1>19, <1>20, <2>1 DEF RingFits, HasRecords, after, more, ring
<1>23. QED
  BY <1>11, <1>21, <1>22 DEF LogInv, more, ring

(* What the about box shows is always the latest of what was logged.         *)
THEOREM LogStaysLatest == Spec => []LogShowsLatest
<1>1. Log!Init => LogInv
  BY LogInit
<1>2. LogInv /\ [Log!Next]_(Log!vars) => LogInv'
  <2>1. ASSUME LogInv, Log!Next  PROVE LogInv'
    <3>1. PICK level \in Levels, length \in Lengths : Log!Log(level, length)
      BY <2>1 DEF Log!Next
    <3>2. QED  BY <2>1, <3>1, LogKeeps
  <2>2. ASSUME LogInv, UNCHANGED Log!vars  PROVE LogInv'
    <3>1. buffer' = buffer /\ avail' = avail /\ first' = first /\ last' = last /\ logged' = logged
      BY <2>2 DEF Log!vars
    <3>2. PICK gone : RingFits(logged, gone)
      BY <2>2 DEF LogInv
    <3>3. RingFits(logged, gone)'
      BY <3>1, <3>2 DEF RingFits, HasRecords
    <3>4. QED  BY <2>2, <3>1, <3>3 DEF LogInv
  <2>3. QED  BY <2>1, <2>2
<1>3. LogInv => LogShowsLatest
  BY LogImplies DEF LogShowsLatest
<1>4. QED  BY <1>1, <1>2, <1>3, LogRuns, PTL DEF Log!Spec
=============================================================================
