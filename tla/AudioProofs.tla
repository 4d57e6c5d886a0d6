----------------------------- MODULE AudioProofs -----------------------------
(***************************************************************************)
(* That the Fifo stays sound between the two threads, for every size of    *)
(* buffer, Fifo and batch and every number of channels, until a reset that *)
(* takes no mutex meets a read, and from the next reset on that meets none.*)
(*                                                                         *)
(* mix looks at the free space once and writes later, in pieces.  That     *)
(* this is sound needs two things beside the property itself: what it saw  *)
(* is still there, because the other side only ever adds to it; and what   *)
(* it has to write fits an empty Fifo, because it writes after a reset     *)
(* without looking again.  The second holds whatever became of the Fifo    *)
(* (Loose), and so a reset makes a torn one whole again.                   *)
(*                                                                         *)
(* The second half shows that the path keeps the promise of AudioStream:   *)
(* what is on its way is one sequence, which each step adds to at the end, *)
(* takes from in front, or moves along.                                    *)
(***************************************************************************)
EXTENDS AudioPipeline, SequenceTheorems, TLAPS

Fits(frames) == Len(frames) * Channels <= FifoSize

AllFit == Fits(out) /\ \A i \in 1..Len(toMix): Fits(toMix[i])

(* What a callback may hand to mix.                                        *)
HandOver(list) ==
  list \in Seq(Seq(1..MaxFrames)) /\ \A i \in 1..Len(list): Fits(list[i])

SeenIsThere == mixing = "decide" => seen <= avail

(* What holds of the path whatever became of the Fifo.                     *)
Loose == TypeOK /\ AllFit

(* What holds of the Fifo while it is whole.                               *)
Agreed == IndicesAgree /\ WriteFits /\ ReadsWhatIsThere

Inv ==
  /\ TypeOK /\ AllFit /\ ~torn
  /\ avail <= FifoSize
  /\ device = "looked" => have <= FifoSize
  /\ SeenIsThere /\ Agreed

(* Inductive: the Fifo is whole, or it is known not to be.                 *)
TornOrWhole == Loose /\ (torn \/ Inv)

-----------------------------------------------------------------------------
(* Arithmetic.                                                             *)
(* Samples are added behind the last one, and taken after the first.       *)
LEMMA RingAdds ==
  ASSUME NEW n \in Nat \ {0}, NEW f \in 0..(n - 1), NEW l \in 0..(n - 1),
         NEW o \in 0..n, NEW k \in 0..n, o + k <= n, (f + o) % n = l
  PROVE  (f + (o + k)) % n = (l + k) % n
<1>1. l = IF f + o < n THEN f + o ELSE f + o - n
  OBVIOUS
<1>2. (l + k) % n = IF l + k < n THEN l + k ELSE l + k - n
  OBVIOUS
<1>3. f + (o + k) \in 0..(2 * n - 1)
  OBVIOUS
<1>4. (f + (o + k)) % n = IF f + (o + k) < n THEN f + (o + k) ELSE f + (o + k) - n
  BY <1>3
<1> QED  BY <1>1, <1>2, <1>4

LEMMA RingTakes ==
  ASSUME NEW n \in Nat \ {0}, NEW f \in 0..(n - 1), NEW l \in 0..(n - 1),
         NEW o \in 0..n, NEW k \in 0..o, (f + o) % n = l
  PROVE  (((f + k) % n) + (o - k)) % n = l
<1>1. l = IF f + o < n THEN f + o ELSE f + o - n
  OBVIOUS
<1>2. (f + k) % n = IF f + k < n THEN f + k ELSE f + k - n
  OBVIOUS
<1>3. CASE f + k < n
  BY <1>1, <1>2, <1>3
<1>4. CASE ~(f + k < n)
  <2>1. f + k - n \in Int /\ f + k - n + (o - k) = f + o - n
    OBVIOUS
  <2>2. f + o - n \in 0..(n - 1)
    BY <1>4
  <2>3. (f + o - n) % n = f + o - n
    BY <2>2
  <2> QED  BY <1>1, <1>2, <1>4, <2>1, <2>2, <2>3
<1> QED  BY <1>3, <1>4

LEMMA ScalesUp ==
  ASSUME NEW a \in Nat, NEW b \in Nat, NEW c \in Nat, a <= b
  PROVE  a * c <= b * c
BY SMT

(* Cutting to whole frames of the device leaves what fits.                 *)
LEMMA CutFits ==
  ASSUME NEW s \in Nat, NEW c \in Nat \ {0}
  PROVE  LET f == ((2 * s) \div c) \div 2
         IN  f \in Nat /\ f * c <= s
<1> DEFINE q == (2 * s) \div c
           f == q \div 2
<1>1. q \in Nat /\ q * c <= 2 * s
  BY SMT
<1>2. f \in Nat /\ 2 * f <= q
  <2> HIDE DEF q
  <2> QED  BY <1>1
<1> HIDE DEF f, q
<1>3. (2 * f) * c <= q * c
  BY <1>1, <1>2, ScalesUp
<1>4. f * c \in Int /\ (2 * f) * c = 2 * (f * c)
  BY <1>2
<1>5. f * c <= s
  BY <1>1, <1>2, <1>3, <1>4
<1> QED  BY <1>2, <1>5 DEF f, q

LEMMA Sizes ==
  /\ BufferFrames \in Nat \ {0} /\ FifoSize \in Nat \ {0}
  /\ Channels \in Nat \ {0} /\ FlushFrames \in Nat \ {0}
  /\ DeviceSamples \in Nat \ {0} /\ MaxWait \in Nat \ {0}
  /\ MaxBatch \in Nat \ {0} /\ MaxFrames \in Nat \ {0}
  /\ SizeT \in Nat \ {0} /\ FifoSize < SizeT
BY SizesAssumption, SizeTAssumption

(* No count of a whole Fifo reaches the end of a size_t.                   *)
LEMMA NoWrap ==
  ASSUME NEW x \in 0..FifoSize
  PROVE  x % SizeT = x /\ x \in 0..(SizeT - 1)
BY Sizes

(* What is no longer than a batch or the buffer fits the Fifo.             *)
LEMMA ShortFits ==
  ASSUME NEW S, NEW s \in Seq(S),
         Len(s) <= MaxBatch \/ Len(s) <= BufferFrames
  PROVE  Fits(s)
<1>1. Len(s) \in Nat
  OBVIOUS
<1>2. CASE Len(s) <= MaxBatch
  <2>1. Len(s) * Channels <= MaxBatch * Channels
    BY <1>1, <1>2, Sizes, ScalesUp
  <2>2. MaxBatch * Channels \in Nat /\ Len(s) * Channels \in Nat
    BY <1>1, Sizes
  <2> QED  BY <2>1, <2>2, BatchFitsAssumption, Sizes DEF Fits
<1>3. CASE Len(s) <= BufferFrames
  <2>1. Len(s) * Channels <= BufferFrames * Channels
    BY <1>1, <1>3, Sizes, ScalesUp
  <2>2. BufferFrames * Channels \in Nat /\ Len(s) * Channels \in Nat
    BY <1>1, Sizes
  <2> QED  BY <2>1, <2>2, BatchFitsAssumption, Sizes DEF Fits
<1> QED  BY <1>2, <1>3

(* The frames a core emits, and pieces of them.                            *)
LEMMA NewFramesType ==
  ASSUME TypeOK, NEW n \in Nat \ {0}, emitted + n <= MaxFrames
  PROVE  /\ NewFrames(n) \in Seq(1..MaxFrames)
         /\ Len(NewFrames(n)) = n
<1>1. emitted \in Nat
  BY Sizes DEF TypeOK
<1>2. \A i \in 1..n: emitted + i \in 1..MaxFrames
  BY <1>1, Sizes
<1> QED  BY <1>2 DEF NewFrames

LEMMA Piece ==
  ASSUME NEW S, NEW s \in Seq(S), NEW a \in 1..(Len(s) + 1), NEW b \in 0..Len(s),
         a <= b + 1
  PROVE  SubSeq(s, a, b) \in Seq(S) /\ Len(SubSeq(s, a, b)) = b - a + 1
BY SubSeqProperties

LEMMA Joined ==
  ASSUME NEW S, NEW s \in Seq(S), NEW t \in Seq(S)
  PROVE  s \o t \in Seq(S) /\ Len(s \o t) = Len(s) + Len(t)
OBVIOUS

LEMMA UpToTwo ==
  ASSUME NEW a \in Seq(1..MaxFrames), NEW b \in Seq(1..MaxFrames), Fits(a), Fits(b)
  PROVE  HandOver(<<>>) /\ HandOver(<<a>>) /\ HandOver(<<a, b>>)
<1>1. HandOver(<<>>)
  BY DEF HandOver
<1>2. HandOver(<<a>>)
  BY DEF HandOver
<1>3. HandOver(<<a, b>>)
  BY DEF HandOver
<1> QED  BY <1>1, <1>2, <1>3

LEMMA EmptyFits == <<>> \in Seq(1..MaxFrames) /\ Fits(<<>>)
BY Sizes DEF Fits

-----------------------------------------------------------------------------
LEMMA InitInv == Init => Inv
<1> SUFFICES ASSUME Init  PROVE Inv
  OBVIOUS
<1> USE Sizes
<1>1. TypeOK /\ ~torn /\ avail <= FifoSize /\ have <= FifoSize
  <2>1. /\ samples = <<>> /\ toMix = <<>> /\ out = <<>>
        /\ avail = FifoSize /\ have = 0 /\ seen = 0 /\ ~torn
    BY DEF Init
  <2>2. /\ samples \in Seq(1..MaxFrames) /\ Len(samples) <= BufferFrames
        /\ toMix \in Seq(Seq(1..MaxFrames)) /\ out \in Seq(1..MaxFrames)
    BY <2>1
  <2>3. 0 \in 0..SizeT - 1 /\ FifoSize \in 0..SizeT - 1 /\ 0 \in 0..FifoSize - 1
        /\ 0 \in 0..MaxFrames /\ 0 \in 0..MaxWait
    OBVIOUS
  <2>4. /\ stepping \in BOOLEAN /\ blocking \in BOOLEAN /\ generating \in BOOLEAN
        /\ late \in BOOLEAN /\ torn \in BOOLEAN
        /\ mixing \in {"no", "decide", "wait", "write"} /\ device \in {"asleep", "looked"}
    BY Zenon DEF Init
  <2>5. /\ emitted = 0 /\ tries = 0 /\ first = 0 /\ last = 0
    BY DEF Init
  <2>6. TypeOK
    BY <2>1, <2>2, <2>3, <2>4, <2>5, Zenon DEF TypeOK
  <2>7. avail <= FifoSize /\ have <= FifoSize
    BY <2>1
  <2> QED  BY <2>1, <2>6, <2>7
<1>2. AllFit
  BY DEF Init, AllFit, Fits
<1>3. SeenIsThere /\ WriteFits /\ ReadsWhatIsThere
  BY DEF Init, SeenIsThere, WriteFits, ReadsWhatIsThere
<1>4. IndicesAgree
  <2>1. first + Occupied = 0 /\ last = 0
    BY DEF Init, Occupied
  <2>2. 0 % FifoSize = 0
    OBVIOUS
  <2> QED  BY <2>1, <2>2 DEF IndicesAgree
<1> QED  BY <1>1, <1>2, <1>3, <1>4 DEF Inv, Agreed

-----------------------------------------------------------------------------
(* The core's steps touch neither mix nor the Fifo.                        *)
LEMMA CoreLeavesRing ==
  ASSUME Inv, Loose', UNCHANGED <<mix, fifo, device, have, history>>
  PROVE  Inv'
BY DEF Inv, Loose, SeenIsThere, Agreed, IndicesAgree, WriteFits, ReadsWhatIsThere,
       Occupied, Needed, mix, fifo, history

LEMMA StepBeginsLoose ==
  ASSUME Loose, NEW b \in BOOLEAN, NEW g \in BOOLEAN, StepBegins(b, g)
  PROVE  Loose'
<1>1. TypeOK'
  BY DEF Loose, TypeOK, StepBegins, mix, fifo, history
<1>2. AllFit'
  BY DEF Loose, AllFit, Fits, StepBegins, mix
<1> QED  BY <1>1, <1>2 DEF Loose

(* A callback hands what it collected to mix, in one piece or in two.      *)
LEMMA BatchLoose ==
  ASSUME Loose, NEW n \in 1..MaxBatch, BatchCallback(n)
  PROVE  Loose'
<1> DEFINE new  == NewFrames(n)
           room == BufferFrames - Len(samples)
           rest == SubSeq(new, room + 1, n)
           both == samples \o SubSeq(new, 1, room)
<1> USE Sizes
<1>1. /\ TypeOK /\ n \in Nat \ {0} /\ n <= MaxBatch
      /\ samples \in Seq(1..MaxFrames) /\ Len(samples) \in 0..BufferFrames
      /\ room \in 0..BufferFrames
  BY DEF Loose, TypeOK
<1>3. /\ UNCHANGED <<mixing, out, seen, tries, first, last, avail, device, have>>
      /\ UNCHANGED history
      /\ UNCHANGED <<stepping, blocking, generating>>
      /\ toMix = <<>>
  BY DEF BatchCallback, mix, fifo, CoreRuns
<1>4. SUFFICES /\ emitted' \in 0..MaxFrames
               /\ samples' \in Seq(1..MaxFrames) /\ Len(samples') <= BufferFrames
               /\ HandOver(toMix')
  BY <1>3 DEF Loose, TypeOK, AllFit, Fits, HandOver, history
<1>5. HandOver(<<>>)
  BY EmptyFits, UpToTwo
<1>6. CASE ~generating
  <2>1. samples' = <<>> /\ emitted' = emitted /\ toMix' = <<>>
    BY <1>3, <1>6 DEF BatchCallback
  <2>2. emitted \in 0..MaxFrames /\ Len(<<>>) = 0
    BY <1>1 DEF TypeOK
  <2> QED  BY <1>1, <1>5, <2>1, <2>2, EmptyFits
<1>7. CASE generating
  <2>1. emitted + n <= MaxFrames /\ emitted' = emitted + n
    BY <1>7 DEF BatchCallback
  <2>2. emitted' \in 0..MaxFrames
    BY <1>1, <2>1 DEF TypeOK
  <2>3. new \in Seq(1..MaxFrames) /\ Len(new) = n
    BY <1>1, <2>1, NewFramesType
  <2>4. Fits(new)
    <3> HIDE DEF new
    <3> QED  BY <1>1, <2>3, ShortFits
  <2>5. CASE samples = <<>> /\ n >= BufferFrames
    <3>1. toMix' = <<new>> /\ samples' = samples
      BY <1>7, <2>5 DEF BatchCallback
    <3>2. HandOver(<<new>>)
      <4> HIDE DEF new
      <4> QED  BY <2>3, <2>4, UpToTwo
    <3> QED  BY <1>1, <2>2, <3>1, <3>2
  <2>6. CASE ~(samples = <<>> /\ n >= BufferFrames) /\ room > n
    <3>1. samples' = samples \o new /\ UNCHANGED toMix
      BY <1>1, <1>7, <2>6 DEF BatchCallback
    <3> HIDE DEF new
    <3>2. samples \o new \in Seq(1..MaxFrames) /\ Len(samples \o new) = Len(samples) + n
      BY <1>1, <2>3
    <3> QED  BY <1>1, <1>3, <1>5, <2>2, <2>6, <3>1, <3>2
  <2>7. CASE ~(samples = <<>> /\ n >= BufferFrames) /\ room <= n
    <3>1. \/ Len(rest) > BufferFrames /\ toMix' = <<both, rest>> /\ samples' = <<>>
          \/ ~(Len(rest) > BufferFrames) /\ toMix' = <<both>> /\ samples' = rest
      <4>1. ~(room > n)
        BY <1>1, <2>7
      <4> QED  BY <1>7, <2>7, <4>1 DEF BatchCallback
    <3>2. room \in 0..n /\ Len(samples) + room = BufferFrames
      BY <1>1, <2>7
    <3> HIDE DEF new, room
    <3>3. /\ SubSeq(new, 1, room) \in Seq(1..MaxFrames)
          /\ Len(SubSeq(new, 1, room)) = room
      <4>1. 1 \in 1..(Len(new) + 1) /\ room \in 0..Len(new) /\ 1 <= room + 1
        BY <1>1, <2>3, <3>2
      <4>2. room - 1 + 1 = room
        BY <3>2
      <4> QED  BY <2>3, <4>1, <4>2, Piece
    <3>4. rest \in Seq(1..MaxFrames) /\ Len(rest) = n - room
      <4>1. room + 1 \in 1..(Len(new) + 1) /\ n \in 0..Len(new) /\ room + 1 <= n + 1
        BY <1>1, <2>3, <3>2
      <4>2. n - (room + 1) + 1 = n - room
        BY <1>1, <3>2
      <4> QED  BY <2>3, <4>1, <4>2, Piece
    <3>5. both \in Seq(1..MaxFrames) /\ Len(both) = BufferFrames
      BY <1>1, <3>2, <3>3
    <3>6. Len(rest) <= MaxBatch
      BY <1>1, <3>2, <3>4
    <3> HIDE DEF both, rest
    <3>7. Fits(both) /\ Fits(rest)
      BY <3>4, <3>5, <3>6, ShortFits
    <3>8. HandOver(<<both>>) /\ HandOver(<<both, rest>>)
      BY <3>4, <3>5, <3>7, UpToTwo
    <3>9. Len(rest) \in Nat /\ Len(<<>>) = 0
      BY <3>4
    <3>10. CASE Len(rest) > BufferFrames
      <4>1. toMix' = <<both, rest>> /\ samples' = <<>>
        BY <3>1, <3>10
      <4>2. Len(<<>>) <= BufferFrames
        OBVIOUS
      <4> QED  BY <2>2, <3>8, <4>1, <4>2, EmptyFits
    <3>11. CASE ~(Len(rest) > BufferFrames)
      <4>1. Len(rest) <= BufferFrames
        BY <3>9, <3>11
      <4> QED  BY <2>2, <3>1, <3>4, <3>8, <3>11, <4>1
    <3> QED  BY <3>10, <3>11
  <2> QED  BY <1>1, <2>5, <2>6, <2>7
<1> QED  BY <1>1, <1>6, <1>7 DEF TypeOK

LEMMA SampleLoose ==
  ASSUME Loose, SampleCallback
  PROVE  Loose'
<1> USE Sizes
<1>1. /\ TypeOK /\ toMix = <<>>
      /\ samples \in Seq(1..MaxFrames) /\ Len(samples) <= BufferFrames
      /\ emitted \in Nat /\ emitted + 1 <= MaxFrames /\ emitted' = emitted + 1
  BY DEF Loose, TypeOK, SampleCallback, CoreRuns
<1>3. NewFrames(1) \in Seq(1..MaxFrames) /\ Len(NewFrames(1)) = 1
  <2>1. 1 \in Nat \ {0}
    OBVIOUS
  <2> QED  BY <1>1, <2>1, NewFramesType
<1>4. HandOver(<<>>) /\ HandOver(<<samples>>)
  BY <1>1, ShortFits, UpToTwo
<1>5. /\ samples' \in Seq(1..MaxFrames) /\ Len(samples') <= BufferFrames
      /\ HandOver(toMix')
  <2>1. CASE Len(samples) < BufferFrames
    <3>1. samples' = samples \o NewFrames(1) /\ toMix' = toMix
      BY <2>1 DEF SampleCallback
    <3>2. /\ samples \o NewFrames(1) \in Seq(1..MaxFrames)
          /\ Len(samples \o NewFrames(1)) = Len(samples) + 1
      <4> DEFINE new == NewFrames(1)
      <4>1. new \in Seq(1..MaxFrames) /\ Len(new) = 1
        BY <1>3
      <4> HIDE DEF new
      <4>2. samples \o new \in Seq(1..MaxFrames) /\ Len(samples \o new) = Len(samples) + 1
        BY <1>1, <4>1, Joined
      <4> QED  BY <4>2 DEF new
    <3>3. Len(samples) + 1 <= BufferFrames
      BY <1>1, <2>1
    <3> QED  BY <1>1, <1>4, <3>1, <3>2, <3>3
  <2>2. CASE ~(Len(samples) < BufferFrames)
    <3>1. samples' = NewFrames(1) /\ toMix' = <<samples>>
      BY <2>2 DEF SampleCallback
    <3>2. 1 <= BufferFrames
      OBVIOUS
    <3>3. samples' \in Seq(1..MaxFrames) /\ Len(samples') <= BufferFrames
      BY <1>3, <3>1, <3>2
    <3> QED  BY <1>4, <3>1, <3>3
  <2> QED  BY <2>1, <2>2
<1>6. /\ UNCHANGED <<mixing, out, seen, tries, first, last, avail, device, have>>
      /\ UNCHANGED <<stepping, blocking, generating, history>>
  BY DEF SampleCallback, mix, fifo
<1> QED  BY <1>1, <1>5, <1>6 DEF Loose, TypeOK, AllFit, Fits, HandOver, history

LEMMA StepEndsLoose ==
  ASSUME Loose, StepEnds
  PROVE  Loose'
<1> USE Sizes
<1>1. /\ TypeOK
      /\ samples \in Seq(1..MaxFrames) /\ Len(samples) <= BufferFrames
  BY DEF Loose, TypeOK
<1>3. HandOver(<<>>) /\ HandOver(<<samples>>)
  BY <1>1, ShortFits, UpToTwo
<1>4. HandOver(toMix')
  BY <1>3 DEF StepEnds
<1>5. /\ UNCHANGED <<mixing, out, seen, tries, first, last, avail, device, have>>
      /\ UNCHANGED <<blocking, generating, emitted>> /\ samples' = <<>>
      /\ stepping' = FALSE /\ UNCHANGED history
  BY DEF StepEnds, mix, fifo
<1>6. samples' \in Seq(1..MaxFrames) /\ Len(samples') <= BufferFrames
  BY <1>5, EmptyFits
<1> QED  BY <1>1, <1>4, <1>5, <1>6 DEF Loose, TypeOK, AllFit, Fits, HandOver, history

-----------------------------------------------------------------------------
(* mix until it writes: the Fifo is what it was, unless it is reset.       *)
LEMMA MixBeginsLoose ==
  ASSUME Loose, MixBegins
  PROVE  Loose'
<1> USE Sizes
<1>1. /\ toMix \in Seq(Seq(1..MaxFrames)) /\ toMix # <<>>
      /\ avail \in 0..SizeT - 1
  BY DEF Loose, TypeOK, MixBegins
<1>2. /\ Head(toMix) = toMix[1] /\ Head(toMix) \in Seq(1..MaxFrames)
      /\ Tail(toMix) \in Seq(Seq(1..MaxFrames))
      /\ Len(Tail(toMix)) = Len(toMix) - 1 /\ Len(toMix) \in Nat \ {0}
      /\ \A i \in 1..Len(Tail(toMix)): Tail(toMix)[i] = toMix[i + 1]
  BY <1>1
<1>3. TypeOK'
  BY <1>1, <1>2 DEF Loose, TypeOK, MixBegins, fifo, history
<1>4. AllFit'
  BY <1>2 DEF Loose, AllFit, Fits, MixBegins
<1> QED  BY <1>3, <1>4 DEF Loose

LEMMA MixBeginsInv ==
  ASSUME Inv, Loose', MixBegins
  PROVE  Inv'
<1>1. avail \in Nat
  BY Sizes DEF Inv, TypeOK
<1> QED
  BY <1>1 DEF Inv, Loose, SeenIsThere, Agreed, IndicesAgree, WriteFits,
              ReadsWhatIsThere, Occupied, MixBegins, fifo, history

(* What of a lot fits is cut from its front.                               *)
LEMMA DecideCuts ==
  ASSUME Loose, Decide, seen < Needed
  PROVE  Fitting \in 0..Len(out) /\ Fitting * Channels <= seen /\ seen \in Nat
<1> USE Sizes
<1>1. out \in Seq(1..MaxFrames) /\ Len(out) \in Nat /\ seen \in Nat
  BY DEF Loose, TypeOK
<1>2. Fitting \in Nat /\ Fitting * Channels <= seen
  BY <1>1, CutFits DEF Fitting
<1>3. SUFFICES ASSUME Len(out) <= Fitting  PROVE Fitting <= Len(out)
  BY <1>1, <1>2
<1>4. Len(out) * Channels <= Fitting * Channels
  BY <1>1, <1>2, <1>3, ScalesUp
<1>5. Fitting * Channels \in Nat /\ Len(out) * Channels \in Nat
  BY <1>1, <1>2
<1> QED  BY <1>1, <1>2, <1>4, <1>5 DEF Needed

LEMMA DecideLoose ==
  ASSUME Loose, Decide
  PROVE  Loose' /\ (seen <= avail /\ mixing' = "write" => Len(out') * Channels <= avail)
<1> USE Sizes
<1>1. /\ out \in Seq(1..MaxFrames) /\ Len(out) \in Nat
      /\ seen \in Nat /\ avail \in Nat
      /\ Needed \in Nat /\ Fits(out)
  BY DEF Loose, TypeOK, Decide, AllFit, Needed
<1>2. UNCHANGED <<core, seen, fifo, device, have, history>>
  BY DEF Decide
<1>3. /\ out' \in Seq(1..MaxFrames) /\ tries' \in 0..MaxWait
      /\ mixing' \in {"no", "wait", "write"}
      /\ seen <= avail /\ mixing' = "write" => Len(out') * Channels <= avail
      /\ Len(out') * Channels <= FifoSize
  <2>1. CASE seen >= Needed /\ mixing' = "write" /\ UNCHANGED <<out, tries>>
    BY <1>1, <2>1 DEF Loose, TypeOK, Needed, Fits
  <2>2. CASE /\ seen < Needed
             /\ out' = SubSeq(out, 1, Fitting)
             /\ mixing' = IF Fitting = 0 THEN "no" ELSE "write"
             /\ UNCHANGED tries
    <3>1. Fitting \in 0..Len(out) /\ Fitting * Channels <= seen
      BY <2>2, DecideCuts
    <3>2. out' \in Seq(1..MaxFrames) /\ Len(out') = Fitting
      BY <1>1, <2>2, <3>1, Piece
    <3>3. Fitting \in Nat /\ Fitting * Channels \in Nat /\ Len(out) * Channels \in Nat
      BY <1>1, <3>1
    <3>4. Fitting * Channels <= Len(out) * Channels
      <4>1. Fitting <= Len(out) /\ Channels \in Nat
        BY <1>1, <3>1
      <4> QED  BY <1>1, <3>3, <4>1, ScalesUp, Zenon
    <3>5. Len(out') * Channels \in Nat /\ Len(out') * Channels <= seen
          /\ Len(out') * Channels <= FifoSize
      BY <1>1, <3>1, <3>2, <3>3, <3>4 DEF Fits
    <3> QED  BY <1>1, <2>2, <3>2, <3>5 DEF Loose, TypeOK
  <2>3. CASE mixing' = "wait" /\ tries' = MaxWait /\ UNCHANGED out
    BY <1>1, <2>3 DEF Fits
  <2> QED  BY <2>1, <2>2, <2>3 DEF Decide
<1>4. TypeOK'
  BY <1>2, <1>3 DEF Loose, TypeOK, core, fifo, history
<1>5. AllFit'
  BY <1>2, <1>3 DEF Loose, AllFit, Fits, core
<1> QED  BY <1>3, <1>4, <1>5 DEF Loose

LEMMA DecideInv ==
  ASSUME Inv, Decide
  PROVE  Inv'
<1>1. Loose /\ mixing = "decide" /\ seen <= avail
  BY DEF Inv, Loose, Decide, SeenIsThere
<1>2. Loose' /\ (mixing' = "write" => Len(out') * Channels <= avail)
  BY <1>1, DecideLoose
<1>3. UNCHANGED <<fifo, device, have, history>> /\ mixing' # "decide"
  BY DEF Decide
<1> QED
  BY <1>2, <1>3 DEF Inv, Loose, SeenIsThere, Agreed, IndicesAgree, WriteFits, Needed,
                    ReadsWhatIsThere, Occupied, fifo, history

LEMMA WaitLoose ==
  ASSUME Loose, Wait \/ WaitEnds
  PROVE  Loose'
<1>1. TypeOK'
  <2>1. CASE Wait
    <3>1. tries' \in 0..MaxWait
      BY <2>1, Sizes DEF Loose, TypeOK, Wait
    <3> QED  BY <2>1, <3>1 DEF Loose, TypeOK, Wait, core, fifo, history
  <2>2. CASE WaitEnds
    BY <2>2 DEF Loose, TypeOK, WaitEnds, core, fifo, history
  <2> QED  BY <2>1, <2>2
<1>2. AllFit'
  BY DEF Loose, AllFit, Fits, Wait, WaitEnds, core
<1> QED  BY <1>1, <1>2 DEF Loose

LEMMA WaitInv ==
  ASSUME Inv, Loose', Wait \/ WaitEnds
  PROVE  Inv'
<1>1. SeenIsThere'
  BY DEF Inv, SeenIsThere, Wait, WaitEnds, fifo
<1>2. IndicesAgree' /\ ReadsWhatIsThere'
  BY DEF Inv, Agreed, IndicesAgree, ReadsWhatIsThere, Occupied, Wait,
         WaitEnds, fifo, history
<1>3. WriteFits'
  BY Sizes DEF Inv, TypeOK, Agreed, WriteFits, Needed, Wait, WaitEnds, fifo
<1> QED
  BY <1>1, <1>2, <1>3 DEF Inv, Loose, Agreed, Wait, WaitEnds, fifo, history

(* Wherever the reset finds the device, the types hold.                    *)
LEMMA FlushLoose ==
  ASSUME Loose, Flush
  PROVE  Loose'
<1> USE Sizes
<1>1. /\ last' = 0 /\ mixing' = "write" /\ tries' = 0
      /\ UNCHANGED <<core, out, seen, have>>
      /\ ResetAlone \/ ResetDuringRead
  BY DEF Flush, Flushes
<1>2. first \in 0..FifoSize - 1 /\ have \in Nat /\ avail \in Nat /\ torn \in BOOLEAN
      /\ device \in {"asleep", "looked"}
  BY DEF Loose, TypeOK
<1>3. Wanted \in Nat
  BY <1>2 DEF Wanted
<1>4. /\ first' \in 0..FifoSize - 1 /\ avail' \in 0..SizeT - 1
      /\ device' \in {"asleep", "looked"} /\ late' \in BOOLEAN /\ torn' \in BOOLEAN
  <2>1. CASE ResetAlone
    <3>1. torn' \in BOOLEAN /\ late' \in BOOLEAN
      BY <2>1, <1>2, Zenon DEF ResetAlone
    <3> QED  BY <1>2, <2>1, <3>1 DEF ResetAlone
  <2>2. CASE ResetDuringRead
    <3>1. \A x \in Nat: x % FifoSize \in 0..FifoSize - 1 /\ x % SizeT \in 0..SizeT - 1
      OBVIOUS
    <3>2. /\ Wanted % FifoSize \in 0..FifoSize - 1
          /\ (first + Wanted) % FifoSize \in 0..FifoSize - 1
          /\ (FifoSize + Wanted) % SizeT \in 0..SizeT - 1
          /\ (avail + Wanted) % SizeT \in 0..SizeT - 1
      <4>1. first + Wanted \in Nat /\ FifoSize + Wanted \in Nat /\ avail + Wanted \in Nat
        BY <1>2, <1>3
      <4> QED  BY <1>3, <3>1, <4>1
    <3>3. torn' \in BOOLEAN /\ late' \in BOOLEAN
      BY <2>2, Zenon DEF ResetDuringRead
    <3> QED  BY <2>2, <3>2, <3>3 DEF ResetDuringRead
  <2> QED  BY <1>1, <2>1, <2>2
<1>5. TypeOK'
  BY <1>1, <1>4 DEF Loose, TypeOK, core
<1>6. AllFit'
  BY <1>1 DEF Loose, AllFit, Fits, core
<1> QED  BY <1>5, <1>6 DEF Loose

(* A reset that meets no read leaves the Fifo empty and whole, with room   *)
(* for what is to be written, whatever it was before.                      *)
LEMMA FlushInv ==
  ASSUME Loose, torn \/ Inv, Flush, ~torn'
  PROVE  Inv'
<1> USE Sizes
<1>1. /\ last' = 0 /\ mixing' = "write"
      /\ UNCHANGED <<core, out, seen, have>>
      /\ ResetAlone \/ ResetDuringRead
  BY DEF Flush, Flushes
<1>2. avail' = FifoSize /\ first' = 0
  BY <1>1 DEF ResetAlone, ResetDuringRead
<1>3. device' = "looked" => have' <= FifoSize /\ late'
  BY <1>1 DEF ResetAlone, ResetDuringRead, Inv
<1>4. Loose'
  BY FlushLoose
<1>5. SeenIsThere' /\ WriteFits' /\ ReadsWhatIsThere'
  BY <1>1, <1>2, <1>3, <1>4 DEF Loose, SeenIsThere, WriteFits, ReadsWhatIsThere, Needed,
                                AllFit, Fits
<1>6. IndicesAgree'
  <2>1. first' + Occupied' = 0
    BY <1>2 DEF Occupied
  <2>2. 0 % FifoSize = 0
    OBVIOUS
  <2> QED  BY <1>1, <2>1, <2>2 DEF IndicesAgree
<1> QED  BY <1>2, <1>3, <1>4, <1>5, <1>6 DEF Inv, Loose, Agreed

(* What mix hands to Fifo::write, and what it keeps.                       *)
Portion == IF Channels = 2 \/ Len(out) < FlushFrames THEN Len(out) ELSE FlushFrames
Written == Expand(SubSeq(out, 1, Portion))

WriteMoves ==
  /\ Len(Written) = Portion * Channels /\ Len(Written) \in Nat
  /\ last' = (last + Len(Written)) % FifoSize
  /\ avail' = (avail - Len(Written)) % SizeT
  /\ out' \in Seq(1..MaxFrames)
  /\ Len(out') * Channels \in Nat
  /\ Len(out') * Channels + Len(Written) = Len(out) * Channels
  /\ mixing' \in {"no", "write"}
  /\ UNCHANGED <<core, seen, tries, first, device, have, history>>

LEMMA WriteIsMove ==
  ASSUME Loose, Write
  PROVE  WriteMoves
<1> DEFINE n     == Portion
           piece == SubSeq(out, 1, n)
<1> USE Sizes
<1>1. out \in Seq(1..MaxFrames) /\ Len(out) \in Nat
  BY DEF Loose, TypeOK
<1>2. n \in 0..Len(out)
  BY <1>1 DEF Portion
<1>3. /\ last' = (last + Len(Written)) % FifoSize
      /\ avail' = (avail - Len(Written)) % SizeT
      /\ out' = SubSeq(out, n + 1, Len(out))
      /\ mixing' \in {"no", "write"}
      /\ UNCHANGED <<core, seen, tries, first, device, have, history>>
  BY DEF Write, Portion, Written
<1>4. Written = Expand(piece)
  BY DEF Written
<1> HIDE DEF n
<1>5. piece \in Seq(1..MaxFrames) /\ Len(piece) = n
  BY <1>1, <1>2, Piece
<1>6. out' \in Seq(1..MaxFrames) /\ Len(out') = Len(out) - n
  <2>1. n + 1 \in 1..(Len(out) + 1) /\ Len(out) \in 0..Len(out) /\ n + 1 <= Len(out) + 1
    BY <1>1, <1>2
  <2>2. /\ SubSeq(out, n + 1, Len(out)) \in Seq(1..MaxFrames)
        /\ Len(SubSeq(out, n + 1, Len(out))) = Len(out) - (n + 1) + 1
    BY <1>1, <2>1, Piece
  <2>3. Len(out) - (n + 1) + 1 = Len(out) - n
    BY <1>1, <1>2
  <2> QED  BY <1>3, <2>2, <2>3, Zenon
<1> HIDE DEF piece
<1>7. Len(Written) = n * Channels /\ n * Channels \in Nat
  <2>1. n * Channels \in Nat
    BY <1>2
  <2> QED  BY <1>4, <1>5, <2>1 DEF Expand
<1>8. Len(out') * Channels + Len(Written) = Len(out) * Channels
  BY <1>1, <1>2, <1>6, <1>7
<1>9. Len(out') * Channels \in Nat
  BY <1>1, <1>2, <1>6
<1> QED  BY <1>3, <1>6, <1>7, <1>8, <1>9, Zenon DEF WriteMoves, n

LEMMA WriteLoose ==
  ASSUME Loose, Write
  PROVE  Loose'
<1> USE Sizes
<1>1. WriteMoves
  BY WriteIsMove
<1> DEFINE k == Len(Written)
<1>2. /\ k \in Nat /\ last' = (last + k) % FifoSize /\ avail' = (avail - k) % SizeT
      /\ last \in Nat /\ avail \in Nat
  BY <1>1 DEF Loose, TypeOK, WriteMoves
<1>3. /\ Len(out') * Channels \in Nat /\ Len(out) * Channels \in Nat
      /\ Len(out') * Channels + k = Len(out) * Channels
  BY <1>1 DEF Loose, TypeOK, WriteMoves
<1> HIDE DEF k
<1>4. last' \in 0..FifoSize - 1 /\ avail' \in 0..SizeT - 1
  <2>1. last + k \in Nat /\ avail - k \in Int
    BY <1>2
  <2>2. /\ \A x \in Nat: x % FifoSize \in 0..FifoSize - 1
        /\ \A x \in Int: x % SizeT \in 0..SizeT - 1
    OBVIOUS
  <2> QED  BY <1>2, <2>1, <2>2
<1>5. TypeOK'
  BY <1>1, <1>4 DEF Loose, TypeOK, WriteMoves, core, history
<1>6. AllFit'
  <2>1. Len(out') * Channels <= Len(out) * Channels
    BY <1>2, <1>3
  <2>2. Len(out') * Channels <= FifoSize
    BY <1>3, <2>1 DEF Loose, AllFit, Fits
  <2> QED  BY <1>1, <2>2 DEF Loose, AllFit, Fits, WriteMoves, core
<1> QED  BY <1>5, <1>6 DEF Loose

(* What of the Fifo is left when mix has written.                          *)
LEMMA WriteTakesRoom ==
  ASSUME Inv, Write
  PROVE  /\ Len(Written) \in 0..avail /\ avail \in 0..FifoSize
         /\ avail' = avail - Len(Written)
         /\ Len(out') * Channels <= avail'
<1> USE Sizes
<1>1. WriteMoves
  BY WriteIsMove DEF Inv, Loose
<1> DEFINE k == Len(Written)
           p == Len(out) * Channels
           q == Len(out') * Channels
<1>2. /\ avail \in 0..FifoSize /\ p <= avail /\ p \in Nat
  BY DEF Inv, TypeOK, Agreed, WriteFits, Needed, Write
<1>3. k \in Nat /\ q \in Nat /\ q + k = p /\ avail' = (avail - k) % SizeT
  BY <1>1 DEF WriteMoves
<1> HIDE DEF k, p, q
<1>4. k \in 0..avail /\ avail - k \in 0..FifoSize /\ q <= avail - k
  BY <1>2, <1>3
<1>5. (avail - k) % SizeT = avail - k
  BY <1>4, NoWrap
<1> QED  BY <1>2, <1>3, <1>4, <1>5 DEF k, q

(* A piece is written: the ring's indices move by as much as its count.    *)
LEMMA WriteInv ==
  ASSUME Inv, Loose', Write
  PROVE  Inv'
<1> USE Sizes
<1>1. WriteMoves
  BY WriteIsMove DEF Inv, Loose
<1>2. /\ first \in 0..FifoSize - 1 /\ last \in 0..FifoSize - 1
      /\ device = "looked" => have \in Nat
  BY DEF Inv, TypeOK
<1> DEFINE k == Len(Written)
<1>3. /\ k \in 0..avail /\ avail \in 0..FifoSize /\ avail' = avail - k
      /\ Len(out') * Channels <= avail'
  BY WriteTakesRoom
<1>4. last' = (last + k) % FifoSize
  BY <1>1 DEF WriteMoves
<1> HIDE DEF k
<1>5. UNCHANGED <<core, first, device, have, late, torn>> /\ mixing' # "decide"
  BY <1>1 DEF WriteMoves, history
<1>6. SeenIsThere' /\ WriteFits' /\ avail' <= FifoSize
  BY <1>3, <1>5 DEF SeenIsThere, WriteFits, Needed
<1>7. ReadsWhatIsThere'
  BY <1>2, <1>3, <1>5 DEF Inv, Agreed, ReadsWhatIsThere, Occupied
<1>8. IndicesAgree'
  <2>1. /\ Occupied \in 0..FifoSize /\ k \in 0..FifoSize
        /\ Occupied + k <= FifoSize
        /\ Occupied' = Occupied + k
    BY <1>3 DEF Occupied
  <2>2. (first + Occupied) % FifoSize = last
    BY DEF Inv, Agreed, IndicesAgree
  <2>3. (first + (Occupied + k)) % FifoSize = (last + k) % FifoSize
    <3>1. /\ FifoSize \in Nat \ {0} /\ first \in 0..(FifoSize - 1)
          /\ last \in 0..(FifoSize - 1)
      BY <1>2
    <3> QED  BY <2>1, <2>2, <3>1, RingAdds
  <2> QED  BY <1>4, <1>5, <2>1, <2>3, Zenon DEF IndicesAgree
<1> QED  BY <1>5, <1>6, <1>7, <1>8 DEF Inv, Loose, Agreed

-----------------------------------------------------------------------------
(* The device only ever makes room, if what it takes is there.             *)
LEMMA DeviceLooksLoose ==
  ASSUME Loose, DeviceLooks
  PROVE  Loose'
<1> USE Sizes
<1>1. have' \in 0..SizeT - 1
  <2>1. Occupied \in Int
    BY DEF Loose, TypeOK, Occupied
  <2>2. \A x \in Int: x % SizeT \in 0..SizeT - 1
    OBVIOUS
  <2> QED  BY <2>1, <2>2 DEF DeviceLooks
<1>2. TypeOK'
  BY <1>1 DEF Loose, TypeOK, DeviceLooks, core, mix, fifo
<1>3. AllFit'
  BY DEF Loose, AllFit, Fits, DeviceLooks, core, mix
<1> QED  BY <1>2, <1>3 DEF Loose

(* It sees what there is.                                                  *)
LEMMA LooksAtAll ==
  ASSUME Inv, DeviceLooks
  PROVE  have' = Occupied /\ Occupied \in 0..FifoSize
<1>1. Occupied \in 0..FifoSize
  BY Sizes DEF Inv, TypeOK, Occupied
<1>2. have' = Occupied % SizeT
  BY DEF DeviceLooks
<1> QED  BY <1>1, <1>2, NoWrap

LEMMA DeviceLooksInv ==
  ASSUME Inv, Loose', DeviceLooks
  PROVE  Inv'
<1> USE Sizes
<1>1. UNCHANGED <<core, mixing, out, seen, ring, first, last, avail, torn>>
  BY DEF DeviceLooks, mix, fifo
<1>2. SeenIsThere' /\ WriteFits' /\ IndicesAgree'
  BY <1>1 DEF Inv, SeenIsThere, Agreed, WriteFits, Needed, IndicesAgree, Occupied
<1>3. have' = Occupied /\ Occupied \in 0..FifoSize
  BY LooksAtAll
<1>4. ReadsWhatIsThere'
  BY <1>1, <1>3 DEF ReadsWhatIsThere, Occupied
<1> QED  BY <1>1, <1>2, <1>3, <1>4 DEF Inv, Loose, Agreed

LEMMA DeviceReadsLoose ==
  ASSUME Loose, DeviceReads
  PROVE  Loose'
<1> USE Sizes
<1>1. Wanted \in Nat /\ first \in Nat /\ avail \in Nat
  BY DEF Loose, TypeOK, Wanted
<1>2. first' \in 0..FifoSize - 1 /\ avail' \in 0..SizeT - 1
  <2>1. first + Wanted \in Nat /\ avail + Wanted \in Nat
    BY <1>1
  <2>2. \A x \in Nat: x % FifoSize \in 0..FifoSize - 1 /\ x % SizeT \in 0..SizeT - 1
    OBVIOUS
  <2> QED  BY <2>1, <2>2 DEF DeviceReads
<1>3. torn' \in BOOLEAN
  BY Zenon DEF DeviceReads
<1>4. TypeOK'
  BY <1>2, <1>3 DEF Loose, TypeOK, DeviceReads, core, mix
<1>5. AllFit'
  BY DEF Loose, AllFit, Fits, DeviceReads, core, mix
<1> QED  BY <1>4, <1>5 DEF Loose

(* What a read takes of a Fifo that it leaves whole.                       *)
LEMMA ReadTakes ==
  ASSUME Inv, DeviceReads, ~torn'
  PROVE  /\ avail \in 0..FifoSize /\ Wanted \in 0..Occupied
         /\ avail' = avail + Wanted /\ avail' \in 0..FifoSize
<1> USE Sizes
<1>1. avail \in 0..FifoSize /\ have \in Nat
  BY DEF Inv, TypeOK
<1>2. Wanted \in 0..(FifoSize - avail)
  <2>1. Wanted \in Nat
    BY <1>1 DEF Wanted
  <2>2. ~(Wanted > FifoSize - avail)
    BY DEF DeviceReads, Occupied
  <2> QED  BY <1>1, <2>1, <2>2
<1>3. avail + Wanted \in 0..FifoSize /\ avail' = (avail + Wanted) % SizeT
  BY <1>1, <1>2 DEF DeviceReads
<1>4. (avail + Wanted) % SizeT = avail + Wanted
  BY <1>3, NoWrap
<1> QED  BY <1>1, <1>2, <1>3, <1>4 DEF Occupied

LEMMA DeviceReadsInv ==
  ASSUME Inv, Loose', DeviceReads, ~torn'
  PROVE  Inv'
<1> USE Sizes
<1>1. first \in 0..FifoSize - 1 /\ last \in 0..FifoSize - 1
  BY DEF Inv, TypeOK
<1>2. /\ avail \in 0..FifoSize /\ Wanted \in 0..Occupied
      /\ avail' = avail + Wanted /\ avail' \in 0..FifoSize
  BY ReadTakes
<1>3. /\ first' = (first + Wanted) % FifoSize
      /\ device' = "asleep"
      /\ UNCHANGED <<mixing, out, seen, last>>
  BY DEF DeviceReads, mix
<1>4. avail <= avail'
  BY <1>2
<1>5. SeenIsThere' /\ WriteFits' /\ ReadsWhatIsThere'
  <2>1. Needed' = Needed /\ mixing' = mixing /\ seen' = seen
    BY <1>3 DEF Needed
  <2>2. Needed \in Int /\ seen \in Int
    BY DEF Inv, TypeOK, Needed
  <2> QED
    BY <1>2, <1>3, <1>4, <2>1, <2>2 DEF Inv, SeenIsThere, Agreed, WriteFits,
                                        ReadsWhatIsThere
<1>6. IndicesAgree'
  <2>1. /\ Occupied \in 0..FifoSize
        /\ Occupied' = Occupied - Wanted
    BY <1>2 DEF Occupied
  <2>2. (first + Occupied) % FifoSize = last
    BY DEF Inv, Agreed, IndicesAgree
  <2>3. (((first + Wanted) % FifoSize) + (Occupied - Wanted)) % FifoSize = last
    <3>1. /\ FifoSize \in Nat \ {0} /\ first \in 0..(FifoSize - 1)
          /\ last \in 0..(FifoSize - 1)
      BY <1>1
    <3> QED  BY <1>2, <2>1, <2>2, <3>1, RingTakes
  <2>4. last' = last
    BY <1>3
  <2> QED  BY <1>3, <2>1, <2>3, <2>4, Zenon DEF IndicesAgree
<1> QED  BY <1>2, <1>3, <1>5, <1>6 DEF Inv, Loose, Agreed

-----------------------------------------------------------------------------
LEMMA StutterLoose == Loose /\ UNCHANGED vars => Loose'
BY DEF Loose, TypeOK, AllFit, Fits, vars, core, mix, fifo, history

LEMMA StutterInv == Inv /\ UNCHANGED vars => Inv'
<1> SUFFICES ASSUME Inv, UNCHANGED vars  PROVE Inv'
  OBVIOUS
<1>1. Loose'
  BY StutterLoose DEF Inv, Loose
<1> QED  BY <1>1, CoreLeavesRing DEF vars

(* Whatever the Fifo is, a step keeps the types and the lengths.           *)
LEMMA NextLoose == Loose /\ [Next]_vars => Loose'
<1> SUFFICES ASSUME Loose, [Next]_vars  PROVE Loose'
  OBVIOUS
<1>1. ASSUME NEW b \in BOOLEAN, NEW g \in BOOLEAN, StepBegins(b, g)  PROVE Loose'
  BY <1>1, StepBeginsLoose
<1>2. ASSUME NEW n \in 1..MaxBatch, BatchCallback(n)  PROVE Loose'
  BY <1>2, BatchLoose
<1>3. CASE SampleCallback \/ StepEnds
  BY <1>3, SampleLoose, StepEndsLoose
<1>4. CASE MixStep
  BY <1>4, MixBeginsLoose, DecideLoose, WaitLoose, FlushLoose, WriteLoose DEF MixStep
<1>5. CASE DeviceLooks \/ DeviceReads
  BY <1>5, DeviceLooksLoose, DeviceReadsLoose
<1>6. CASE UNCHANGED vars
  BY <1>6, StutterLoose
<1> QED  BY <1>1, <1>2, <1>3, <1>4, <1>5, <1>6 DEF Next

(* Only a reset makes a torn Fifo whole.                                   *)
LEMMA OnlyFlushHeals == torn /\ [Next]_vars /\ ~torn' => Flush
<1> SUFFICES ASSUME torn, [Next]_vars, ~torn'  PROVE Flush
  OBVIOUS
<1>1. CASE \/ \E b, g \in BOOLEAN: StepBegins(b, g)
           \/ \E n \in 1..MaxBatch: BatchCallback(n)
           \/ SampleCallback \/ StepEnds
  BY <1>1 DEF StepBegins, BatchCallback, SampleCallback, StepEnds, history
<1>2. CASE MixStep
  BY <1>2 DEF MixStep, MixBegins, Decide, Wait, WaitEnds, Write, history
<1>3. CASE DeviceLooks \/ DeviceReads
  BY <1>3 DEF DeviceLooks, DeviceReads
<1>4. CASE UNCHANGED vars
  BY <1>4 DEF vars, history
<1> QED  BY <1>1, <1>2, <1>3, <1>4 DEF Next

(* And a whole one stays whole, unless the step tears it.                  *)
LEMMA WholeStays == Inv /\ [Next]_vars /\ ~torn' => Inv'
<1> SUFFICES ASSUME Inv, [Next]_vars, ~torn'  PROVE Inv'
  OBVIOUS
<1>0. Loose /\ Loose'
  BY NextLoose DEF Inv, Loose
<1>1. CASE \/ \E b, g \in BOOLEAN: StepBegins(b, g)
           \/ \E n \in 1..MaxBatch: BatchCallback(n)
           \/ SampleCallback \/ StepEnds
  <2>1. UNCHANGED <<mix, fifo, device, have, history>>
    BY <1>1 DEF StepBegins, BatchCallback, SampleCallback, StepEnds
  <2> QED  BY <1>0, <2>1, CoreLeavesRing
<1>2. CASE MixStep
  BY <1>0, <1>2, MixBeginsInv, DecideInv, WaitInv, FlushInv, WriteInv DEF MixStep
<1>3. CASE DeviceLooks \/ DeviceReads
  BY <1>0, <1>3, DeviceLooksInv, DeviceReadsInv
<1>4. CASE UNCHANGED vars
  BY <1>4, StutterInv
<1> QED  BY <1>1, <1>2, <1>3, <1>4 DEF Next

LEMMA NextInv == TornOrWhole /\ [Next]_vars => TornOrWhole'
<1> SUFFICES ASSUME TornOrWhole, [Next]_vars  PROVE TornOrWhole'
  OBVIOUS
<1>1. Loose /\ Loose'
  BY NextLoose DEF TornOrWhole
<1>2. SUFFICES ASSUME ~torn'  PROVE Inv'
  BY <1>1, Zenon DEF TornOrWhole
<1>3. CASE torn
  <2>1. Flush
    BY <1>2, <1>3, OnlyFlushHeals
  <2> QED  BY <1>1, <1>2, <1>3, <2>1, FlushInv
<1>4. CASE Inv
  BY <1>2, <1>4, WholeStays
<1> QED  BY <1>3, <1>4 DEF TornOrWhole

LEMMA InitTornOrWhole == Init => TornOrWhole
BY InitInv DEF Inv, Loose, TornOrWhole

(* Every sample is in its place: whatever the sizes, the two indices of    *)
(* the Fifo agree with its count, a write never reaches samples that were  *)
(* not played, and the device finds what it saw, unless mix emptied the    *)
(* Fifo meanwhile; until a reset meets a read, and again after one that    *)
(* meets none (Audio::mix, Fifo::reset, Application::s_audioCallback).     *)
THEOREM RingStaysSound == Spec => []RingIsSound
<1>1. TornOrWhole => RingIsSound
  BY DEF TornOrWhole, Inv, Agreed, RingIsSound
<1> QED  BY <1>1, NextInv, InitTornOrWhole, PTL DEF Spec

(* And every variable keeps its type, whenever the reset comes: no index   *)
(* ever leaves the ring (Fifo::read, Fifo::write, Fifo::reset).            *)
THEOREM TypeCorrect == Spec => []TypeOK
<1>1. TornOrWhole => TypeOK
  BY DEF TornOrWhole, Loose
<1> QED  BY <1>1, NextInv, InitTornOrWhole, PTL DEF Spec

-----------------------------------------------------------------------------
(* That the path keeps the promise of AudioStream.                         *)
(*                                                                         *)
(* The samples to be heard are those in the Fifo followed by the frames    *)
(* that are still to be expanded.  So that each step of the path is one of *)
(* AudioStream, expanding has to commute with cutting and joining, and the *)
(* ring has to read as a queue; and, since AudioStream speaks of whole     *)
(* frames, the Fifo has to hold whole frames at every moment.              *)
(* What a sample is: the frame it belongs to and its channel. *)
Sound == (0..MaxFrames) \X (0..(Channels - 1))

LEMMA Quotient ==
  ASSUME NEW c \in Nat \ {0}, NEW j \in Nat
  PROVE  /\ j \div c \in Nat /\ j % c \in 0..(c - 1)
         /\ (j \div c) * c <= j
         /\ j = (j \div c) * c + (j % c)
<1>1. j \div c \in Nat /\ j % c \in 0..(c - 1)
  BY SMT
<1>2. (j \div c) * c <= j
  BY SMT
<1>3. j = (j \div c) * c + (j % c)
  BY SMT
<1> QED  BY <1>1, <1>2, <1>3, Zenon

LEMMA DividedOnce ==
  ASSUME NEW c \in Nat \ {0}, NEW x \in Nat, NEW y \in 0..(c - 1)
  PROVE  (x * c + y) \div c = x /\ (x * c + y) % c = y
BY SMT

(* k times c and j more.                                                   *)
Splits(n, k, c, j) == n = k * c + j

LEMMA Shifted ==
  ASSUME NEW c \in Nat \ {0}, NEW k \in Nat, NEW j \in Nat, NEW n,
         Splits(n, k, c, j)
  PROVE  n \div c = k + (j \div c) /\ n % c = j % c
<1> DEFINE q == j \div c
           r == j % c
           m == k + q
<1>1. q \in Nat /\ r \in 0..(c - 1) /\ j = q * c + r
  BY Quotient
<1> HIDE DEF q, r
<1>2. m \in Nat /\ n = m * c + r
  <2>0. n = k * c + j
    BY DEF Splits
  <2>1. m * c = k * c + q * c
    BY <1>1, SMT
  <2>2. k * c \in Nat /\ q * c \in Nat
    BY <1>1, SMT
  <2> QED  BY <1>1, <2>0, <2>1, <2>2
<1>3. m = k + q
  OBVIOUS
<1> HIDE DEF m
<1>4. n \div c = m /\ n % c = r
  BY <1>1, <1>2, DividedOnce
<1> QED  BY <1>3, <1>4 DEF q, r

LEMMA ChannelsShift ==
  ASSUME NEW x, NEW k \in Nat, NEW y \in Nat, Splits(x, k, Channels, y)
  PROVE  x \div Channels = k + (y \div Channels) /\ x % Channels = y % Channels
<1>1. Channels \in Nat \ {0}
  BY Sizes
<1> QED  BY <1>1, Shifted

LEMMA Multiples ==
  ASSUME NEW c \in Nat \ {0}, NEW a \in Nat, NEW b \in Nat, b % c = 0
  PROVE  /\ (a + b) % c = a % c
         /\ a % c = 0 /\ b <= a => (a - b) % c = 0
<1>1. PICK k \in Nat : b = k * c
  <2>1. b \div c \in Nat /\ b = (b \div c) * c + (b % c)
    BY Quotient
  <2>2. b = (b \div c) * c
    BY <2>1, (b \div c) * c \in Nat
  <2> QED  BY <2>1, <2>2
<1>2. \A x \in Nat : (x + b) % c = x % c
  <2> TAKE x \in Nat
  <2>1. k * c \in Nat
    BY <1>1
  <2>2. Splits(x + b, k, c, x)
    BY <1>1, <2>1 DEF Splits
  <2> QED  BY <1>1, <2>2, Shifted
<1>3. ASSUME a % c = 0, b <= a  PROVE (a - b) % c = 0
  <2>1. a - b \in Nat /\ (a - b) + b = a
    BY <1>3
  <2> QED  BY <1>2, <1>3, <2>1
<1> QED  BY <1>2, <1>3

LEMMA Product ==
  ASSUME NEW c \in Nat \ {0}, NEW a \in Nat
  PROVE  a * c \in Nat /\ (a * c) % c = 0
<1>1. a * c = a * c + 0 /\ 0 \in 0..(c - 1) /\ a * c \in Nat
  BY SMT
<1> QED  BY <1>1, DividedOnce

LEMMA ExpandType ==
  ASSUME NEW s \in Seq(1..MaxFrames)
  PROVE  /\ Expand(s) \in Seq(Sound)
         /\ Len(Expand(s)) = Len(s) * Channels
         /\ \A i \in 1..(Len(s) * Channels) :
              /\ (i - 1) \div Channels \in 0..(Len(s) - 1)
              /\ Expand(s)[i] = <<s[1 + (i - 1) \div Channels], (i - 1) % Channels>>
<1> USE Sizes
<1>1. Len(s) \in Nat /\ Len(s) * Channels \in Nat
  BY SMT
<1>2. ASSUME NEW i \in 1..(Len(s) * Channels)
      PROVE  /\ (i - 1) \div Channels \in 0..(Len(s) - 1)
             /\ (i - 1) % Channels \in 0..(Channels - 1)
  <2> DEFINE q == (i - 1) \div Channels
  <2>1. q \in Nat /\ q * Channels <= i - 1 /\ (i - 1) % Channels \in 0..(Channels - 1)
    <3>1. i - 1 \in Nat
      OBVIOUS
    <3> QED  BY <3>1, Quotient
  <2> HIDE DEF q
  <2>2. q < Len(s)
    <3>1. SUFFICES ASSUME Len(s) <= q  PROVE FALSE
      BY <1>1, <2>1
    <3>2. Len(s) * Channels <= q * Channels
      BY <1>1, <2>1, <3>1, ScalesUp
    <3>3. q * Channels \in Nat
      BY <2>1
    <3> QED  BY <1>1, <2>1, <3>2, <3>3
  <2> QED  BY <1>1, <2>1, <2>2 DEF q
<1>3. \A i \in 1..(Len(s) * Channels) :
        <<s[1 + (i - 1) \div Channels], (i - 1) % Channels>> \in Sound
  <2> TAKE i \in 1..(Len(s) * Channels)
  <2>1. 1 + (i - 1) \div Channels \in 1..Len(s)
    BY <1>1, <1>2
  <2>2. s[1 + (i - 1) \div Channels] \in 0..MaxFrames
    BY <2>1
  <2> QED  BY <1>2, <2>2 DEF Sound
<1>4. Expand(s) = [i \in 1..(Len(s) * Channels) |->
                     <<s[1 + (i - 1) \div Channels], (i - 1) % Channels>>]
  BY DEF Expand
<1>5. Expand(s) \in Seq(Sound) /\ Len(Expand(s)) = Len(s) * Channels
  BY <1>1, <1>3, <1>4, IsASeq
<1> QED  BY <1>2, <1>4, <1>5

LEMMA ExpandConcat ==
  ASSUME NEW s \in Seq(1..MaxFrames), NEW t \in Seq(1..MaxFrames)
  PROVE  Expand(s \o t) = Expand(s) \o Expand(t)
<1> USE Sizes
<1> DEFINE a == Len(s) * Channels
           b == Len(t) * Channels
<1>1. /\ s \o t \in Seq(1..MaxFrames) /\ Len(s \o t) = Len(s) + Len(t)
      /\ \A i \in 1..(Len(s) + Len(t)) :
           (s \o t)[i] = IF i <= Len(s) THEN s[i] ELSE t[i - Len(s)]
  BY ConcatProperties
<1>2. Len(s) \in Nat /\ Len(t) \in Nat
  OBVIOUS
<1>3. a \in Nat /\ b \in Nat /\ (Len(s) + Len(t)) * Channels = a + b
  BY <1>2, SMT
<1>8. a = Len(s) * Channels /\ b = Len(t) * Channels
  OBVIOUS
<1> HIDE DEF a, b
<1>4. /\ Expand(s \o t) \in Seq(Sound) /\ Len(Expand(s \o t)) = a + b
      /\ \A i \in 1..(a + b) :
              /\ (i - 1) \div Channels \in 0..(Len(s) + Len(t) - 1)
              /\ Expand(s \o t)[i] = <<(s \o t)[1 + (i - 1) \div Channels], (i - 1) % Channels>>
  <2> DEFINE u == s \o t
  <2>1. /\ u \in Seq(1..MaxFrames) /\ Len(u) = Len(s) + Len(t)
        /\ Len(u) * Channels = a + b
    BY <1>1, <1>3
  <2> HIDE DEF u
  <2>2. /\ Expand(u) \in Seq(Sound) /\ Len(Expand(u)) = Len(u) * Channels
        /\ \A i \in 1..(Len(u) * Channels) :
             /\ (i - 1) \div Channels \in 0..(Len(u) - 1)
             /\ Expand(u)[i] = <<u[1 + (i - 1) \div Channels], (i - 1) % Channels>>
    BY <2>1, ExpandType
  <2>0. Expand(u) \in Seq(Sound) /\ Len(Expand(u)) = a + b
    BY <2>1, <2>2
  <2>3. \A i \in 1..(a + b) :
             /\ (i - 1) \div Channels \in 0..(Len(s) + Len(t) - 1)
             /\ Expand(u)[i] = <<u[1 + (i - 1) \div Channels], (i - 1) % Channels>>
    <3> TAKE i \in 1..(a + b)
    <3>1. i \in 1..(Len(u) * Channels)
      BY <2>1
    <3>2. /\ (i - 1) \div Channels \in 0..(Len(u) - 1)
          /\ Expand(u)[i] = <<u[1 + (i - 1) \div Channels], (i - 1) % Channels>>
      BY <2>2, <3>1
    <3> QED  BY <2>1, <3>2
  <2> QED  BY <2>0, <2>3, Zenon DEF u
<1>5. /\ Expand(s) \in Seq(Sound) /\ Len(Expand(s)) = a
      /\ \A i \in 1..a : /\ (i - 1) \div Channels \in 0..(Len(s) - 1)
                         /\ Expand(s)[i] = <<s[1 + (i - 1) \div Channels], (i - 1) % Channels>>
      /\ Expand(t) \in Seq(Sound) /\ Len(Expand(t)) = b
      /\ \A i \in 1..b : /\ (i - 1) \div Channels \in 0..(Len(t) - 1)
                         /\ Expand(t)[i] = <<t[1 + (i - 1) \div Channels], (i - 1) % Channels>>
  BY <1>8, ExpandType
<1>6. /\ Expand(s) \o Expand(t) \in Seq(Sound) /\ Len(Expand(s) \o Expand(t)) = a + b
      /\ \A i \in 1..(a + b) : (Expand(s) \o Expand(t))[i] =
           IF i <= a THEN Expand(s)[i] ELSE Expand(t)[i - a]
  BY <1>5, ConcatProperties
<1>7. ASSUME NEW i \in 1..(a + b)
      PROVE  Expand(s \o t)[i] = (Expand(s) \o Expand(t))[i]
  <2>1. CASE i <= a
    <3>1. i \in 1..a
      BY <1>3, <2>1
    <3>2. 1 + (i - 1) \div Channels \in 1..Len(s)
      BY <1>2, <1>5, <3>1
    <3>3. (s \o t)[1 + (i - 1) \div Channels] = s[1 + (i - 1) \div Channels]
      BY <1>1, <1>2, <3>2
    <3> QED  BY <1>4, <1>5, <1>6, <2>1, <3>1, <3>3
  <2>2. CASE ~(i <= a)
    <3> DEFINE j == i - a
    <3>1. j \in 1..b /\ j - 1 \in Nat /\ i - 1 = Len(s) * Channels + (j - 1)
      BY <1>3, <1>8, <2>2
    <3>0. i - a = j
      OBVIOUS
    <3> HIDE DEF j
    <3>2. /\ (i - 1) \div Channels = Len(s) + ((j - 1) \div Channels)
          /\ (i - 1) % Channels = (j - 1) % Channels
      <4>2. Splits(i - 1, Len(s), Channels, j - 1)
        BY <3>1 DEF Splits
      <4> QED  BY <1>2, <3>1, <4>2, ChannelsShift, Zenon
    <3>3. (j - 1) \div Channels \in 0..(Len(t) - 1)
      BY <1>5, <3>1
    <3>4. (s \o t)[1 + (i - 1) \div Channels] = t[1 + (j - 1) \div Channels]
      <4> DEFINE q == (j - 1) \div Channels
      <4>1. q \in 0..(Len(t) - 1) /\ (i - 1) \div Channels = Len(s) + q
        BY <3>2, <3>3
      <4> HIDE DEF q
      <4>2. (s \o t)[1 + (Len(s) + q)] = t[1 + (Len(s) + q) - Len(s)]
        BY <1>1, <1>2, <4>1
      <4>3. 1 + (Len(s) + q) - Len(s) = 1 + q
        BY <1>2, <4>1
      <4> QED  BY <4>1, <4>2, <4>3 DEF q
    <3>5. Expand(s \o t)[i] = <<t[1 + (j - 1) \div Channels], (j - 1) % Channels>>
      BY <1>4, <3>2, <3>4
    <3> QED  BY <1>5, <1>6, <2>2, <3>0, <3>1, <3>5
  <2> QED  BY <2>1, <2>2
<1> QED  BY <1>4, <1>6, <1>7, SeqEqual

-----------------------------------------------------------------------------
(* Sequences: taking off what is in front, and cutting out what is between.*)
LEMMA WithoutFront ==
  ASSUME NEW S, NEW s \in Seq(S), NEW t \in Seq(S)
  PROVE  /\ SubSeq(s \o t, 1, Len(s)) = s
         /\ SubSeq(s \o t, Len(s) + 1, Len(s \o t)) = t
<1> DEFINE w == s \o t
           l == Len(s)
           k == Len(t)
<1>1. /\ w \in Seq(S) /\ Len(w) = l + k /\ l \in Nat /\ k \in Nat
      /\ \A i \in 1..(l + k): w[i] = IF i <= l THEN s[i] ELSE t[i - l]
  BY ConcatProperties
<1>2. SubSeq(w, 1, l) = s
  <2> HIDE DEF w
  <2>1. \A i \in 1..l: w[i] \in S /\ w[i] = s[i]
    BY <1>1
  <2>2. /\ SubSeq(w, 1, l) \in Seq(S) /\ Len(SubSeq(w, 1, l)) = l
        /\ \A i \in 1..l: SubSeq(w, 1, l)[i] = w[1 + i - 1]
    BY <1>1, <2>1, SubSeqProperties
  <2>3. \A i \in 1..l: SubSeq(w, 1, l)[i] = s[i]
    BY <1>1, <2>1, <2>2
  <2> QED  BY <2>2, <2>3, SeqEqual
<1>3. SubSeq(w, l + 1, l + k) = t
  <2> HIDE DEF w, l, k
  <2>0. k = Len(t)
    BY DEF k
  <2>1. \A i \in (l + 1)..(l + k): w[i] \in S /\ w[i] = t[i - l]
    BY <1>1, <2>0
  <2>2. /\ SubSeq(w, l + 1, l + k) \in Seq(S) /\ Len(SubSeq(w, l + 1, l + k)) = k
        /\ \A i \in 1..k: SubSeq(w, l + 1, l + k)[i] = w[(l + 1) + i - 1]
    BY <1>1, <2>1, SubSeqProperties
  <2>3. \A i \in 1..k: SubSeq(w, l + 1, l + k)[i] = t[i]
    BY <1>1, <2>1, <2>2
  <2> QED  BY <2>0, <2>2, <2>3, SeqEqual
<1> QED  BY <1>1, <1>2, <1>3

(* Concatenation may be read either way.                                   *)
Regrouped(s, t, u) == (s \o t) \o u = s \o (t \o u)

LEMMA Regroup ==
  ASSUME NEW S, NEW s \in Seq(S), NEW t \in Seq(S), NEW u \in Seq(S)
  PROVE  Regrouped(s, t, u)
BY ConcatAssociative DEF Regrouped

(* A sequence that lacks its k elements after the first f.                 *)
CutOut(w, f, k) == SubSeq(w, 1, f) \o SubSeq(w, f + k + 1, Len(w))

LEMMA WithoutMiddle ==
  ASSUME NEW S, NEW s \in Seq(S), NEW t \in Seq(S), NEW u \in Seq(S)
  PROVE  CutOut(s \o (t \o u), Len(s), Len(t)) = s \o u
<1> DEFINE w == s \o (t \o u)
<1>1. t \o u \in Seq(S) /\ s \o t \in Seq(S) /\ Len(s \o t) = Len(s) + Len(t)
  BY ConcatProperties
<1>2. SubSeq(w, 1, Len(s)) = s
  BY <1>1, WithoutFront
<1>3. w = (s \o t) \o u
  BY ConcatAssociative
<1> HIDE DEF w
<1>4. SubSeq(w, Len(s \o t) + 1, Len(w)) = u
  BY <1>1, <1>3, WithoutFront
<1>5. SubSeq(w, Len(s) + Len(t) + 1, Len(w)) = u
  BY <1>1, <1>4
<1> QED  BY <1>2, <1>5 DEF CutOut, w

LEMMA Halves ==
  ASSUME NEW S, NEW s \in Seq(S), NEW n \in 0..Len(s)
  PROVE  /\ SubSeq(s, 1, n) \in Seq(S) /\ Len(SubSeq(s, 1, n)) = n
         /\ SubSeq(s, n + 1, Len(s)) \in Seq(S)
         /\ Len(SubSeq(s, n + 1, Len(s))) = Len(s) - n
         /\ s = SubSeq(s, 1, n) \o SubSeq(s, n + 1, Len(s))
<1>1. Len(s) \in Nat /\ \A i \in 1..Len(s): s[i] \in S
  OBVIOUS
<1>2. SubSeq(s, 1, n) \in Seq(S) /\ Len(SubSeq(s, 1, n)) = n
  BY <1>1, SubSeqProperties
<1>3. /\ SubSeq(s, n + 1, Len(s)) \in Seq(S)
      /\ Len(SubSeq(s, n + 1, Len(s))) = Len(s) - n
  BY <1>1, SubSeqProperties
<1>4. SubSeq(s, 1, n) \o SubSeq(s, n + 1, Len(s)) = SubSeq(s, 1, Len(s))
  <2>1. 1 \in 1..Len(s) + 1 /\ n \in 1 - 1..Len(s) /\ Len(s) \in n..Len(s)
    BY <1>1
  <2> QED  BY <2>1, ConcatAdjacentSubSeq
<1>5. SubSeq(s, 1, Len(s)) = s
  BY SubSeqFull
<1> QED  BY <1>2, <1>3, <1>4, <1>5

(* The frames a core emits are the samples AudioStream says they are.      *)
LEMMA NewIsExpanded ==
  ASSUME TypeOK, NEW n \in Nat \ {0}, emitted + n <= MaxFrames
  PROVE  Expand(NewFrames(n)) = Stream!Samples(emitted + 1, n)
<1> DEFINE new == NewFrames(n)
<1>1. new \in Seq(1..MaxFrames) /\ Len(new) = n
  BY NewFramesType
<1>2. \A k \in 1..n: new[k] = emitted + k
  BY DEF NewFrames
<1> HIDE DEF new
<1>3. \A i \in 1..(n * Channels): (i - 1) \div Channels \in 0..(n - 1)
  BY <1>1, ExpandType
<1>4. ASSUME NEW i \in 1..(n * Channels)
      PROVE  new[1 + (i - 1) \div Channels] = (emitted + 1) + ((i - 1) \div Channels)
  <2> DEFINE q == (i - 1) \div Channels
  <2>1. q \in 0..(n - 1) /\ emitted \in Nat
    BY <1>3, Sizes DEF TypeOK
  <2> HIDE DEF q
  <2>2. new[1 + q] = emitted + (1 + q)
    BY <1>2, <2>1
  <2>3. new[1 + q] = (emitted + 1) + q
    BY <2>1, <2>2
  <2> QED  BY <2>3 DEF q
<1>5. Expand(new) = [i \in 1..(n * Channels) |->
                       <<new[1 + (i - 1) \div Channels], (i - 1) % Channels>>]
  BY <1>1, Zenon DEF Expand
<1>6. Stream!Samples(emitted + 1, n) = [i \in 1..(n * Channels) |->
                       <<(emitted + 1) + ((i - 1) \div Channels), (i - 1) % Channels>>]
  BY DEF Stream!Samples
<1>7. Expand(new) = Stream!Samples(emitted + 1, n)
  BY <1>4, <1>5, <1>6, Zenon
<1> QED  BY <1>7 DEF new

(* What the refinement needs beside: mix has nothing in hand when it is    *)
(* not running, a callback hands it at most two lots, and the ring holds   *)
(* samples; while it is whole, whole frames of them.                       *)
Tidy ==
  /\ mixing = "no" => out = <<>>
  /\ Len(toMix) <= 2
  /\ ring \in [0..(FifoSize - 1) -> Sound]

WholeFrames ==
  /\ avail % Channels = 0
  /\ device = "looked" => have % Channels = 0

RInv == Inv /\ Tidy /\ WholeFrames

RTornOrWhole == Loose /\ Tidy /\ (torn \/ RInv)

(* Where the i-th sample of the Fifo lies, seen from the last one.         *)
Placed(n, f, l, o, i) ==
  /\ (f + i - 1) % n \in 0..(n - 1)
  /\ (((f + i - 1) % n) - l) % n = IF i <= o THEN i - 1 - o + n ELSE i - 1 - o

LEMMA RingPlace ==
  ASSUME NEW n \in Nat \ {0}, NEW f \in 0..(n - 1), NEW l \in 0..(n - 1),
         NEW o \in 0..n, (f + o) % n = l, NEW i \in 1..n
  PROVE  Placed(n, f, l, o, i)
<1> DEFINE p == (f + i - 1) % n
<1>1. l = IF f + o < n THEN f + o ELSE f + o - n
  OBVIOUS
<1>2. p = IF f + i - 1 < n THEN f + i - 1 ELSE f + i - 1 - n
  <2> DEFINE x == f + i - 1
  <2>1. x \in 0..(2 * n - 1)
    OBVIOUS
  <2> HIDE DEF x
  <2>2. x % n = IF x < n THEN x ELSE x - n
    BY <2>1
  <2> QED  BY <2>2 DEF x
<1> HIDE DEF p
<1>3. p \in 0..(n - 1)
  BY <1>2
<1>4. p - l \in (1 - n)..(n - 1)
  BY <1>3
<1>5. (p - l) % n = IF p - l >= 0 THEN p - l ELSE p - l + n
  <2> DEFINE x == p - l
  <2>1. x \in (1 - n)..(n - 1)
    BY <1>4
  <2> HIDE DEF x
  <2>2. x % n = IF x >= 0 THEN x ELSE x + n
    BY <2>1
  <2> QED  BY <1>3, <2>2 DEF x
<1>6. (p - l) % n = IF i <= o THEN i - 1 - o + n ELSE i - 1 - o
  BY <1>1, <1>2, <1>3, <1>5
<1> QED  BY <1>3, <1>6 DEF p, Placed

LEMMA RingPlaceAfter ==
  ASSUME NEW n \in Nat \ {0}, NEW f \in 0..(n - 1), NEW w \in 0..n, NEW i \in 1..n,
         w + i <= n
  PROVE  (((f + w) % n) + i - 1) % n = (f + (w + i) - 1) % n
<1> DEFINE g == (f + w) % n
<1>1. g = IF f + w < n THEN f + w ELSE f + w - n
  OBVIOUS
<1> HIDE DEF g
<1>0. g \in 0..(n - 1)
  BY <1>1
<1>2. g + i - 1 \in 0..(2 * n - 1) /\ f + (w + i) - 1 \in 0..(2 * n - 1)
  BY <1>1
<1>3. \A x \in 0..(2 * n - 1): x % n = IF x < n THEN x ELSE x - n
  OBVIOUS
<1>4. (g + i - 1) % n = IF g + i - 1 < n THEN g + i - 1 ELSE g + i - 1 - n
  <2> DEFINE x == g + i - 1
  <2>1. x \in 0..(2 * n - 1)
    BY <1>2
  <2> HIDE DEF x
  <2>2. x % n = IF x < n THEN x ELSE x - n
    BY <1>3, <2>1
  <2> QED  BY <1>0, <2>2 DEF x
<1>5. (f + (w + i) - 1) % n = IF f + (w + i) - 1 < n THEN f + (w + i) - 1
                                                     ELSE f + (w + i) - 1 - n
  <2> DEFINE x == f + (w + i) - 1
  <2>1. x \in 0..(2 * n - 1)
    BY <1>2
  <2> HIDE DEF x
  <2>2. x % n = IF x < n THEN x ELSE x - n
    BY <1>3, <2>1
  <2> QED  BY <1>0, <2>2 DEF x
<1>6. (g + i - 1) % n = (f + (w + i) - 1) % n
  <2>1. CASE f + w < n
    BY <1>1, <2>1
  <2>2. CASE ~(f + w < n)
    BY <1>1, <1>4, <1>5, <2>2
  <2> QED  BY <2>1, <2>2
<1> QED  BY <1>6 DEF g

QueueIsRing ==
  /\ Occupied \in 0..FifoSize
  /\ Queued \in Seq(Sound) /\ Len(Queued) = Occupied
  /\ \A i \in 1..Occupied: Queued[i] = ring[(first + i - 1) % FifoSize]

LEMMA QueuedType == RInv => QueueIsRing
<1> SUFFICES ASSUME RInv  PROVE QueueIsRing
  OBVIOUS
<1> USE Sizes
<1>1. /\ Occupied \in 0..FifoSize /\ first \in 0..(FifoSize - 1)
      /\ ring \in [0..(FifoSize - 1) -> Sound]
  BY DEF RInv, Inv, TypeOK, Tidy, Occupied
<1>2. \A i \in 1..Occupied: ring[(first + i - 1) % FifoSize] \in Sound
  <2> TAKE i \in 1..Occupied
  <2>1. (first + i - 1) % FifoSize \in 0..(FifoSize - 1)
    BY <1>1
  <2> QED  BY <1>1, <2>1
<1>3. Queued = [i \in 1..Occupied |-> ring[(first + i - 1) % FifoSize]]
  BY DEF Queued
<1>4. Queued \in Seq(Sound)
  BY <1>1, <1>2, <1>3, IsASeq
<1>5. Len(Queued) = Occupied /\ \A i \in 1..Occupied: Queued[i] = ring[(first + i - 1) % FifoSize]
  BY <1>1, <1>3
<1> QED  BY <1>1, <1>4, <1>5 DEF QueueIsRing

LEMMA QueuedTypeNext == RInv' => QueueIsRing'
BY QueuedType, PTL
-----------------------------------------------------------------------------
(* A piece written to the Fifo is queued behind what is there.             *)
LEMMA WriteQueues ==
  ASSUME RInv, RInv', NEW chunk \in Seq(Sound), Len(chunk) <= avail,
         ring' = [i \in 0..(FifoSize - 1) |->
                    IF (i - last) % FifoSize < Len(chunk)
                      THEN chunk[((i - last) % FifoSize) + 1] ELSE ring[i]],
         avail' = avail - Len(chunk), first' = first
  PROVE  Queued' = Queued \o chunk
<1> USE Sizes
<1> DEFINE m == Len(chunk)
<1>1. /\ first \in 0..(FifoSize - 1) /\ last \in 0..(FifoSize - 1)
      /\ avail \in 0..FifoSize /\ m \in 0..avail
      /\ (first + Occupied) % FifoSize = last
  BY DEF RInv, Inv, TypeOK, Agreed, IndicesAgree
<1>2. /\ Occupied \in 0..FifoSize
      /\ Queued \in Seq(Sound) /\ Len(Queued) = Occupied
      /\ \A i \in 1..Occupied: Queued[i] = ring[(first + i - 1) % FifoSize]
  BY QueuedType DEF QueueIsRing
<1>3. /\ Queued' \in Seq(Sound) /\ Len(Queued') = Occupied'
      /\ \A i \in 1..Occupied': Queued'[i] = ring'[(first' + i - 1) % FifoSize]
  BY QueuedTypeNext DEF QueueIsRing
<1>4. Occupied' = Occupied + m /\ Occupied + m <= FifoSize
  BY <1>1 DEF Occupied
<1>5. /\ Queued \o chunk \in Seq(Sound) /\ Len(Queued \o chunk) = Occupied + m
      /\ \A i \in 1..(Occupied + m): (Queued \o chunk)[i] =
           IF i <= Occupied THEN Queued[i] ELSE chunk[i - Occupied]
  BY <1>2, ConcatProperties
<1>6. ASSUME NEW i \in 1..(Occupied + m)
      PROVE  Queued'[i] = (Queued \o chunk)[i]
  <2> DEFINE p == (first + i - 1) % FifoSize
  <2>1. Queued'[i] = ring'[p]
    BY <1>3, <1>4
  <2>2. i \in 1..FifoSize
    BY <1>1, <1>2, <1>4
  <2>3. /\ p \in 0..(FifoSize - 1)
        /\ (p - last) % FifoSize = IF i <= Occupied THEN i - 1 - Occupied + FifoSize
                                                    ELSE i - 1 - Occupied
    <3>1. /\ FifoSize \in Nat \ {0} /\ first \in 0..(FifoSize - 1)
          /\ last \in 0..(FifoSize - 1) /\ Occupied \in 0..FifoSize
          /\ (first + Occupied) % FifoSize = last /\ i \in 1..FifoSize
      BY <1>1, <1>2, <2>2
    <3>2. Placed(FifoSize, first, last, Occupied, i)
      BY <3>1, RingPlace, Zenon
    <3> QED  BY <1>1, <1>2, <3>1, <3>2 DEF Placed
  <2>4. i <= Occupied => Queued[i] = ring[p]
    BY <1>2
  <2> HIDE DEF p, m
  <2> DEFINE d == (p - last) % FifoSize
  <2>5. ring'[p] = IF d < m THEN chunk[d + 1] ELSE ring[p]
    BY <2>3 DEF m
  <2>6. d = IF i <= Occupied THEN i - 1 - Occupied + FifoSize ELSE i - 1 - Occupied
    BY <2>3
  <2> HIDE DEF d
  <2>7. CASE i <= Occupied
    <3>1. ~(d < m)
      BY <1>1, <1>2, <1>4, <2>6, <2>7
    <3> QED  BY <1>5, <2>1, <2>4, <2>5, <2>7, <3>1
  <2>8. CASE ~(i <= Occupied)
    <3>1. d < m /\ d + 1 = i - Occupied
      BY <1>1, <1>2, <1>4, <2>6, <2>8
    <3> QED  BY <1>5, <2>1, <2>5, <2>8, <3>1
  <2> QED  BY <2>7, <2>8
<1> QED  BY <1>3, <1>4, <1>5, <1>6, SeqEqual

(* The device takes samples from the front.                                *)
LEMMA ReadTakesFront ==
  ASSUME RInv, RInv', DeviceReads
  PROVE  /\ Wanted \in 0..Occupied
         /\ Queued' = SubSeq(Queued, Wanted + 1, Occupied)
<1> USE Sizes
<1>0. /\ avail \in 0..FifoSize /\ Wanted \in 0..Occupied /\ avail' = avail + Wanted
  BY ReadTakes DEF RInv, Inv
<1>1. /\ first \in 0..(FifoSize - 1)
      /\ first' = (first + Wanted) % FifoSize
      /\ ring' = ring
  BY DEF RInv, Inv, TypeOK, DeviceReads
<1>2. /\ Occupied \in 0..FifoSize
      /\ Queued \in Seq(Sound) /\ Len(Queued) = Occupied
      /\ \A i \in 1..Occupied: Queued[i] = ring[(first + i - 1) % FifoSize]
  BY QueuedType DEF QueueIsRing
<1>3. /\ Queued' \in Seq(Sound) /\ Len(Queued') = Occupied'
      /\ \A i \in 1..Occupied': Queued'[i] = ring'[(first' + i - 1) % FifoSize]
  BY QueuedTypeNext DEF QueueIsRing
<1>4. Wanted \in 0..Occupied
  BY <1>0
<1>5. Occupied' = Occupied - Wanted
  BY <1>0 DEF Occupied
<1> DEFINE rest == SubSeq(Queued, Wanted + 1, Occupied)
<1>6. /\ rest \in Seq(Sound) /\ Len(rest) = Occupied - Wanted
      /\ \A i \in 1..(Occupied - Wanted): rest[i] = Queued[Wanted + i]
  <2> DEFINE w == Wanted
  <2>0. w \in 0..Occupied
    BY <1>4
  <2> HIDE DEF w
  <2>1. \A i \in (w + 1)..Occupied: Queued[i] \in Sound
    BY <1>2, <2>0
  <2>2. w + 1 \in Int /\ Occupied \in Int
    BY <1>2, <2>0
  <2>3. /\ SubSeq(Queued, w + 1, Occupied) \in Seq(Sound)
        /\ Len(SubSeq(Queued, w + 1, Occupied)) =
             IF w + 1 <= Occupied THEN Occupied - (w + 1) + 1 ELSE 0
        /\ \A i \in 1..(Occupied - (w + 1) + 1):
             SubSeq(Queued, w + 1, Occupied)[i] = Queued[(w + 1) + i - 1]
    BY <2>1, <2>2, SubSeqProperties
  <2>4. \A i \in 1..(Occupied - w): SubSeq(Queued, w + 1, Occupied)[i] = Queued[w + i]
    <3> TAKE i \in 1..(Occupied - w)
    <3>1. i \in 1..(Occupied - (w + 1) + 1) /\ (w + 1) + i - 1 = w + i
      BY <1>2, <2>0
    <3> QED  BY <2>3, <3>1
  <2>5. Len(SubSeq(Queued, w + 1, Occupied)) = Occupied - w
    BY <1>2, <2>0, <2>3
  <2> QED  BY <2>3, <2>4, <2>5 DEF w
<1>7. ASSUME NEW i \in 1..(Occupied - Wanted)
      PROVE  Queued'[i] = rest[i]
  <2> DEFINE w == Wanted
  <2>0. w \in 0..Occupied /\ w \in 0..FifoSize
    BY <1>2, <1>4
  <2>1. Queued'[i] = ring[(((first + w) % FifoSize) + i - 1) % FifoSize]
    BY <1>1, <1>3, <1>5
  <2>2. rest[i] = Queued[w + i]
    BY <1>6
  <2> HIDE DEF rest, w
  <2>3. Queued[w + i] = ring[(first + (w + i) - 1) % FifoSize]
    <3> DEFINE k == w + i
    <3>1. k \in 1..Occupied
      BY <1>2, <2>0 DEF w
    <3> HIDE DEF k
    <3>2. Queued[k] = ring[(first + k - 1) % FifoSize]
      BY <1>2, <3>1
    <3> QED  BY <3>2 DEF k
  <2>4. i \in 1..FifoSize /\ w + i <= FifoSize
    BY <1>2, <2>0 DEF w
  <2>5. (((first + w) % FifoSize) + i - 1) % FifoSize = (first + (w + i) - 1) % FifoSize
    BY <1>1, <2>0, <2>4, RingPlaceAfter
  <2> QED  BY <2>1, <2>2, <2>3, <2>5
<1> HIDE DEF rest
<1>8. Queued' = rest
  BY <1>3, <1>5, <1>6, <1>7, SeqEqual
<1> QED  BY <1>4, <1>8 DEF rest

LEMMA SizesWhole == DeviceSamples % Channels = 0 /\ FifoSize % Channels = 0
BY SizesAssumption

LEMMA InitWhole == Init => Tidy /\ WholeFrames
<1> SUFFICES ASSUME Init  PROVE Tidy /\ WholeFrames
  OBVIOUS
<1> USE Sizes
<1>1. 0 % Channels = 0 /\ 0 \in 0..MaxFrames /\ 0 \in 0..(Channels - 1)
  OBVIOUS
<1>2. Free \in Sound
  BY <1>1 DEF Free, Sound
<1>3. ring \in [0..(FifoSize - 1) -> Sound]
  BY <1>2 DEF Init
<1>4. Len(<<>>) <= 2
  OBVIOUS
<1> QED  BY <1>1, <1>3, <1>4, SizesWhole DEF Init, Tidy, WholeFrames

-----------------------------------------------------------------------------
(* What holds of the path whatever became of the Fifo.                     *)
LEMMA CoreTidy ==
  ASSUME Tidy, \/ \E b, g \in BOOLEAN: StepBegins(b, g)
               \/ \E n \in 1..MaxBatch: BatchCallback(n)
               \/ SampleCallback \/ StepEnds
  PROVE  Tidy'
<1>1. UNCHANGED <<ring, mixing, out>> /\ Len(toMix) <= 2
  BY DEF Tidy, StepBegins, BatchCallback, SampleCallback, StepEnds, mix, fifo
<1>2. \A a, b: Len(<<>>) <= 2 /\ Len(<<a>>) <= 2 /\ Len(<<a, b>>) <= 2
  OBVIOUS
<1>3. Len(toMix') <= 2
  <2>1. CASE \E b, g \in BOOLEAN: StepBegins(b, g)
    BY <1>1, <2>1 DEF StepBegins
  <2>2. CASE \E n \in 1..MaxBatch: BatchCallback(n)
    BY <1>1, <1>2, <2>2 DEF BatchCallback
  <2>3. CASE SampleCallback \/ StepEnds
    BY <1>1, <1>2, <2>3 DEF SampleCallback, StepEnds
  <2> QED  BY <2>1, <2>2, <2>3
<1> QED  BY <1>1, <1>3 DEF Tidy

LEMMA WaitTidy ==
  ASSUME Loose, Tidy, MixBegins \/ Wait \/ WaitEnds
  PROVE  Tidy'
<1>1. UNCHANGED ring /\ mixing' # "no" /\ Len(toMix) <= 2
  BY DEF Tidy, MixBegins, Wait, WaitEnds, fifo
<1>2. Len(toMix') <= 2
  <2>1. CASE MixBegins
    <3>1. toMix \in Seq(Seq(1..MaxFrames)) /\ toMix # <<>> /\ toMix' = Tail(toMix)
      BY <2>1 DEF Loose, TypeOK, MixBegins
    <3>2. Len(toMix') = Len(toMix) - 1 /\ Len(toMix) \in Nat
      BY <3>1
    <3> QED  BY <1>1, <3>2
  <2>2. CASE Wait \/ WaitEnds
    BY <1>1, <2>2 DEF Wait, WaitEnds, core
  <2> QED  BY <2>1, <2>2
<1> QED  BY <1>1, <1>2 DEF Tidy

LEMMA DecideTidy ==
  ASSUME Tidy, Decide
  PROVE  Tidy'
<1>1. UNCHANGED ring /\ UNCHANGED toMix /\ Len(toMix) <= 2
  BY DEF Tidy, Decide, core, fifo
<1>2. mixing' = "no" => out' = <<>>
  <2>1. SUFFICES ASSUME mixing' = "no"  PROVE out' = <<>>
    OBVIOUS
  <2>2. out' = SubSeq(out, 1, Fitting) /\ Fitting = 0
    BY <2>1 DEF Decide
  <2>3. out' = SubSeq(out, 1, 0)
    BY <2>2, Zenon
  <2> QED  BY <2>3, SubSeqEmpty
<1> QED  BY <1>1, <1>2 DEF Tidy

LEMMA OthersTidy ==
  ASSUME Tidy, Flush \/ DeviceLooks \/ DeviceReads \/ UNCHANGED vars
  PROVE  Tidy'
<1>1. UNCHANGED <<ring, toMix>> /\ (mixing' = "no" => mixing = "no" /\ out' = out)
  BY DEF Flush, Flushes, DeviceLooks, DeviceReads, vars, core, mix, fifo
<1> QED  BY <1>1 DEF Tidy

LEMMA WriteTaken ==
  ASSUME Loose, Write
  PROVE  /\ Portion \in 0..Len(out) /\ Len(out) \in Nat
         /\ SubSeq(out, 1, Portion) \in Seq(1..MaxFrames)
         /\ SubSeq(out, Portion + 1, Len(out)) \in Seq(1..MaxFrames)
         /\ out = SubSeq(out, 1, Portion) \o SubSeq(out, Portion + 1, Len(out))
         /\ out' = SubSeq(out, Portion + 1, Len(out))
         /\ Written \in Seq(Sound) /\ Len(Written) % Channels = 0
         /\ mixing' = "no" => out' = <<>>
<1> USE Sizes
<1>1. out \in Seq(1..MaxFrames) /\ Len(out) \in Nat
  BY DEF Loose, TypeOK
<1>2. Portion \in 0..Len(out)
  BY <1>1 DEF Portion
<1>3. out' = SubSeq(out, Portion + 1, Len(out)) /\ (mixing' = "no" => Portion = Len(out))
  BY DEF Write, Portion
<1>4. /\ SubSeq(out, 1, Portion) \in Seq(1..MaxFrames)
      /\ SubSeq(out, Portion + 1, Len(out)) \in Seq(1..MaxFrames)
      /\ out = SubSeq(out, 1, Portion) \o SubSeq(out, Portion + 1, Len(out))
  <2>1. SubSeq(out, 1, Portion) \in Seq(1..MaxFrames)
    BY <1>1, <1>2, Halves, Zenon
  <2>2. SubSeq(out, Portion + 1, Len(out)) \in Seq(1..MaxFrames)
    BY <1>1, <1>2, Halves, Zenon
  <2>3. out = SubSeq(out, 1, Portion) \o SubSeq(out, Portion + 1, Len(out))
    BY <1>1, <1>2, Halves, Zenon
  <2> QED  BY <2>1, <2>2, <2>3
<1>5. Written \in Seq(Sound)
  BY <1>4, ExpandType DEF Written
<1>6. Len(Written) % Channels = 0
  <2>1. Len(Written) = Portion * Channels
    BY WriteIsMove DEF WriteMoves
  <2>2. Portion \in Nat /\ Channels \in Nat \ {0}
    BY <1>2
  <2> QED  BY <2>1, <2>2, Product
<1>7. mixing' = "no" => out' = <<>>
  <2> SUFFICES ASSUME mixing' = "no"  PROVE out' = <<>>
    OBVIOUS
  <2>1. out' = SubSeq(out, Len(out) + 1, Len(out))
    BY <1>3, Zenon
  <2>2. Len(out) + 1 \in Int /\ Len(out) \in Int /\ Len(out) < Len(out) + 1
    BY <1>1
  <2> QED  BY <2>1, <2>2, SubSeqEmpty
<1> QED  BY <1>1, <1>2, <1>3, <1>4, <1>5, <1>6, <1>7, Zenon

LEMMA WriteFills ==
  ASSUME Write
  PROVE  /\ ring' = [i \in 0..(FifoSize - 1) |->
                       IF (i - last) % FifoSize < Len(Written)
                         THEN Written[((i - last) % FifoSize) + 1] ELSE ring[i]]
         /\ UNCHANGED <<core, first, have>>
BY DEF Write, Written, Portion

LEMMA WriteTidy ==
  ASSUME Loose, Tidy, Write
  PROVE  Tidy'
<1> USE Sizes
<1>1. /\ Written \in Seq(Sound) /\ Len(Written) \in Nat
      /\ mixing' = "no" => out' = <<>>
  BY WriteTaken
<1>2. /\ ring' = [i \in 0..(FifoSize - 1) |->
                    IF (i - last) % FifoSize < Len(Written)
                      THEN Written[((i - last) % FifoSize) + 1] ELSE ring[i]]
      /\ UNCHANGED toMix
  BY WriteFills DEF core
<1>3. /\ last \in 0..(FifoSize - 1)
      /\ ring \in [0..(FifoSize - 1) -> Sound]
      /\ Len(toMix) <= 2
  BY DEF Loose, TypeOK, Tidy
<1>4. \A i \in 0..(FifoSize - 1):
        (IF (i - last) % FifoSize < Len(Written)
           THEN Written[((i - last) % FifoSize) + 1] ELSE ring[i]) \in Sound
  <2> TAKE i \in 0..(FifoSize - 1)
  <2> DEFINE d == (i - last) % FifoSize
  <2>1. d \in Nat
    BY <1>3
  <2> HIDE DEF d
  <2>2. d < Len(Written) => d + 1 \in 1..Len(Written)
    BY <1>1, <1>3, <2>1
  <2>3. d < Len(Written) => Written[d + 1] \in Sound
    BY <1>1, <2>2, ElementOfSeq
  <2> QED  BY <1>3, <2>3 DEF d
<1>5. ring' \in [0..(FifoSize - 1) -> Sound]
  BY <1>2, <1>4
<1> QED  BY <1>1, <1>2, <1>3, <1>5 DEF Tidy

LEMMA NextTidy == Loose /\ Tidy /\ [Next]_vars => Tidy'
<1> SUFFICES ASSUME Loose, Tidy, [Next]_vars  PROVE Tidy'
  OBVIOUS
<1>1. CASE \/ \E b, g \in BOOLEAN: StepBegins(b, g)
           \/ \E n \in 1..MaxBatch: BatchCallback(n)
           \/ SampleCallback \/ StepEnds
  BY <1>1, CoreTidy
<1>2. CASE MixStep
  BY <1>2, WaitTidy, DecideTidy, OthersTidy, WriteTidy DEF MixStep
<1>3. CASE DeviceLooks \/ DeviceReads \/ UNCHANGED vars
  BY <1>3, OthersTidy
<1> QED  BY <1>1, <1>2, <1>3 DEF Next

-----------------------------------------------------------------------------
(* A whole Fifo holds whole frames, and is seen and taken from in these.   *)
LEMMA FifoLeft ==
  ASSUME WholeFrames, UNCHANGED <<avail, device, have>>
  PROVE  WholeFrames'
BY DEF WholeFrames

LEMMA WriteWhole ==
  ASSUME RInv, Write
  PROVE  WholeFrames'
<1> DEFINE m == Len(Written)
<1>1. avail \in Nat /\ m \in Nat /\ m <= avail /\ avail' = avail - m
  BY WriteTakesRoom DEF RInv
<1>2. m % Channels = 0 /\ avail % Channels = 0 /\ UNCHANGED <<device, have>>
  BY WriteTaken DEF RInv, Inv, Loose, WholeFrames, Write
<1> HIDE DEF m
<1>3. (avail - m) % Channels = 0
  BY <1>1, <1>2, Multiples, Sizes
<1> QED  BY <1>1, <1>2, <1>3 DEF RInv, WholeFrames

LEMMA DeviceLooksWhole ==
  ASSUME RInv, DeviceLooks
  PROVE  WholeFrames'
<1>1. avail' = avail /\ have' = FifoSize - avail /\ avail \in 0..FifoSize
  <2>1. avail' = avail /\ have' = Occupied
    BY LooksAtAll DEF RInv, DeviceLooks, fifo
  <2>2. avail \in 0..FifoSize
    BY Sizes DEF RInv, Inv, TypeOK
  <2> QED  BY <2>1, <2>2 DEF Occupied
<1>2. FifoSize \in Nat /\ avail \in Nat /\ avail <= FifoSize /\ avail % Channels = 0
  BY <1>1, Sizes DEF RInv, WholeFrames
<1>3. (FifoSize - avail) % Channels = 0
  BY <1>2, SizesWhole, Multiples, Sizes, Zenon
<1> QED  BY <1>1, <1>2, <1>3 DEF WholeFrames

LEMMA DeviceReadsWhole ==
  ASSUME RInv, DeviceReads, ~torn'
  PROVE  WholeFrames'
<1>1. avail \in Nat /\ Wanted \in Nat /\ avail' = avail + Wanted /\ device' = "asleep"
  <2>1. /\ avail \in 0..FifoSize /\ Wanted \in 0..Occupied
        /\ avail' = avail + Wanted
    BY ReadTakes DEF RInv
  <2> QED  BY <2>1 DEF DeviceReads
<1>2. avail % Channels = 0 /\ Wanted % Channels = 0
  BY SizesWhole DEF Wanted, RInv, WholeFrames, DeviceReads
<1>3. (avail + Wanted) % Channels = avail % Channels
  BY <1>1, <1>2, Multiples, Sizes, Zenon
<1> QED  BY <1>1, <1>2, <1>3 DEF WholeFrames

LEMMA FlushWhole ==
  ASSUME torn \/ RInv, Flush, ~torn'
  PROVE  WholeFrames'
<1>1. ResetAlone \/ ResetDuringRead
  BY DEF Flush, Flushes
<1>2. avail' = FifoSize /\ have' = have
  BY <1>1 DEF Flush, Flushes, ResetAlone, ResetDuringRead
<1>3. device' = "looked" => have' % Channels = 0
  BY <1>1, <1>2 DEF ResetAlone, ResetDuringRead, RInv, WholeFrames
<1> QED  BY <1>2, <1>3, SizesWhole DEF WholeFrames

LEMMA RNextInv == RTornOrWhole /\ [Next]_vars => RTornOrWhole'
<1> SUFFICES ASSUME RTornOrWhole, [Next]_vars  PROVE RTornOrWhole'
  OBVIOUS
<1>1. TornOrWhole /\ Loose /\ Tidy
  BY DEF RTornOrWhole, TornOrWhole, RInv
<1>2. TornOrWhole' /\ Loose' /\ Tidy'
  BY <1>1, NextInv, NextLoose, NextTidy
<1>3. SUFFICES ASSUME ~torn'  PROVE WholeFrames'
  BY <1>2, Zenon DEF RTornOrWhole, TornOrWhole, RInv
<1>4. CASE torn
  <2>1. Flush
    BY <1>3, <1>4, OnlyFlushHeals
  <2> QED  BY <1>3, <1>4, <2>1, FlushWhole
<1>5. CASE RInv
  <2>1. CASE \/ \E b, g \in BOOLEAN: StepBegins(b, g)
             \/ \E n \in 1..MaxBatch: BatchCallback(n)
             \/ SampleCallback \/ StepEnds
    <3>1. UNCHANGED <<avail, device, have>>
      BY <2>1 DEF StepBegins, BatchCallback, SampleCallback, StepEnds, fifo
    <3> QED  BY <1>5, <3>1, FifoLeft DEF RInv
  <2>2. CASE MixBegins \/ Decide \/ Wait \/ WaitEnds
    <3>1. UNCHANGED <<avail, device, have>>
      BY <2>2 DEF MixBegins, Decide, Wait, WaitEnds, fifo
    <3> QED  BY <1>5, <3>1, FifoLeft DEF RInv
  <2>3. CASE Flush \/ Write
    BY <1>3, <1>5, <2>3, FlushWhole, WriteWhole
  <2>4. CASE DeviceLooks \/ DeviceReads
    BY <1>3, <1>5, <2>4, DeviceLooksWhole, DeviceReadsWhole
  <2>5. CASE UNCHANGED vars
    BY <1>5, <2>5, FifoLeft DEF RInv, vars, fifo
  <2> QED  BY <2>1, <2>2, <2>3, <2>4, <2>5 DEF Next, MixStep
<1> QED  BY <1>4, <1>5 DEF RTornOrWhole

-----------------------------------------------------------------------------
(* What is to be heard, of its types.                                      *)
LEMMA InOneType ==
  ASSUME RInv
  PROVE  InOne(toMix) \in Seq(1..MaxFrames)
<1>1. /\ toMix \in Seq(Seq(1..MaxFrames)) /\ Len(toMix) <= 2
  BY DEF RInv, Inv, TypeOK, Tidy
<1>2. CASE toMix = <<>>
  BY <1>2, EmptyFits DEF InOne
<1>3. CASE toMix # <<>>
  <2> DEFINE T == Seq(1..MaxFrames)
  <2>0. toMix \in Seq(T) /\ Len(toMix) <= 2 /\ T = Seq(1..MaxFrames)
    BY <1>1
  <2> HIDE DEF T
  <2>1. Len(toMix) = 1 \/ Len(toMix) = 2
    <3>1. Len(toMix) \in Nat \ {0}
      BY <1>3, <2>0, EmptySeq
    <3>2. \A n \in Nat \ {0}: n <= 2 => n = 1 \/ n = 2
      OBVIOUS
    <3> QED  BY <2>0, <3>1, <3>2, Zenon
  <2>2. toMix[1] \in Seq(1..MaxFrames)
    BY <2>0, <2>1
  <2>3. Len(toMix) = 2 => toMix[2] \in Seq(1..MaxFrames)
    BY <2>0
  <2>4. Len(toMix) = 2 => toMix[1] \o toMix[2] \in Seq(1..MaxFrames)
    BY <2>2, <2>3, ConcatProperties
  <2> QED  BY <1>3, <2>1, <2>2, <2>4 DEF InOne
<1> QED  BY <1>2, <1>3

PathTyped ==
  /\ out \in Seq(1..MaxFrames) /\ samples \in Seq(1..MaxFrames)
  /\ InOne(toMix) \in Seq(1..MaxFrames)
  /\ Pending \in Seq(1..MaxFrames)
  /\ Expand(Pending) \in Seq(Sound)
  /\ Queued \in Seq(Sound)
  /\ Unheard \in Seq(Sound)
  /\ Len(Unheard) \in Nat

LEMMA PathType == RInv => PathTyped
<1> SUFFICES ASSUME RInv  PROVE PathTyped
  OBVIOUS
<1>1. out \in Seq(1..MaxFrames) /\ samples \in Seq(1..MaxFrames)
  BY DEF RInv, Inv, TypeOK
<1>2. InOne(toMix) \in Seq(1..MaxFrames)
  BY InOneType
<1>3. Pending \in Seq(1..MaxFrames)
  <2>1. out \o InOne(toMix) \in Seq(1..MaxFrames)
    BY <1>1, <1>2, ConcatProperties
  <2> QED  BY <1>1, <2>1, ConcatProperties DEF Pending
<1>4. Expand(Pending) \in Seq(Sound)
  BY <1>3, ExpandType
<1>5. Queued \in Seq(Sound)
  BY QueuedType DEF QueueIsRing
<1>6. Unheard \in Seq(Sound)
  BY <1>4, <1>5, ConcatProperties DEF Unheard
<1>7. Len(Unheard) \in Nat
  BY <1>6
<1> QED  BY <1>1, <1>2, <1>3, <1>4, <1>5, <1>6, <1>7 DEF PathTyped

LEMMA PathTypeNext == RInv' => PathTyped'
BY PathType, PTL

(* A step of AudioStream while the Fifo is whole.                          *)
Keeps ==
  \/ \E n \in 1..MaxBatch: Stream!Emit(n)
  \/ \E n \in 1..Len(Unheard): Stream!Play(n)
  \/ \E k \in 0..Len(Unheard), n \in 1..Len(Unheard): Stream!Lose(k, n)
  \/ UNCHANGED <<Unheard, emitted>>

(* The steps of AudioStream, from what they do to the samples to be heard. *)
LEMMA NothingHeard ==
  ASSUME Unheard' = Unheard, emitted' = emitted
  PROVE  Keeps
BY DEF Keeps

LEMMA Emitted ==
  ASSUME NEW n \in 1..MaxBatch, Unheard' = Unheard \o Stream!Samples(emitted + 1, n),
         emitted' = emitted + n
  PROVE  Keeps
BY DEF Keeps, Stream!Emit

LEMMA Played ==
  ASSUME NEW s \in Seq(Sound), NEW t \in Seq(Sound), Unheard = s \o t, Unheard' = t,
         Len(s) % Channels = 0, emitted' = emitted
  PROVE  Keeps
<1>1. CASE s = <<>>
  <2>1. s \o t = t
    BY <1>1, ConcatEmptySeq
  <2> QED  BY <2>1, NothingHeard
<1>2. CASE s # <<>>
  <2> DEFINE n == Len(s)
  <2>1. /\ Len(Unheard) = n + Len(t) /\ n \in Nat \ {0} /\ Len(t) \in Nat
        /\ n % Channels = 0
    BY <1>2, ConcatProperties
  <2>2. Unheard' = SubSeq(Unheard, n + 1, Len(Unheard))
    BY WithoutFront
  <2> HIDE DEF n
  <2>3. n \in 1..Len(Unheard)
    BY <2>1
  <2>4. Stream!Play(n)
    BY <2>1, <2>2 DEF Stream!Play, Stream!Whole
  <2> QED  BY <2>3, <2>4 DEF Keeps
<1> QED  BY <1>1, <1>2

LEMMA Lost ==
  ASSUME NEW s \in Seq(Sound), NEW t \in Seq(Sound), NEW u \in Seq(Sound),
         Unheard = s \o (t \o u), Unheard' = s \o u, MayLose,
         Len(s) % Channels = 0, Len(t) % Channels = 0, emitted' = emitted
  PROVE  Keeps
<1>1. CASE t = <<>>
  <2>1. t \o u = u
    BY <1>1, ConcatEmptySeq
  <2> QED  BY <2>1, NothingHeard
<1>2. CASE t # <<>>
  <2> DEFINE f == Len(s)
             n == Len(t)
             w == Unheard
  <2>0. t \o u \in Seq(Sound) /\ Len(t \o u) = n + Len(u)
    BY ConcatProperties
  <2>1. /\ Len(w) = f + (n + Len(u)) /\ f \in Nat /\ n \in Nat \ {0} /\ Len(u) \in Nat
        /\ n % Channels = 0 /\ f % Channels = 0
    BY <1>2, <2>0, ConcatProperties
  <2>2. Unheard' = CutOut(w, f, n)
    BY WithoutMiddle
  <2> HIDE DEF n, f
  <2>3. n \in 1..Len(w) /\ f \in 0..Len(w) /\ f + n <= Len(w)
    BY <2>1
  <2>4. Stream!Lose(f, n)
    BY <2>1, <2>2, <2>3 DEF Stream!Lose, Stream!Whole, CutOut
  <2> QED  BY <2>3, <2>4 DEF Keeps
<1> QED  BY <1>1, <1>2

LEMMA QueueLeft ==
  ASSUME UNCHANGED <<ring, first, avail>>
  PROVE  Queued' = Queued
BY DEF Queued, Occupied

LEMMA AllLeft ==
  ASSUME UNCHANGED <<ring, first, avail, emitted>>, Pending' = Pending
  PROVE  Keeps
<1>1. Unheard' = Unheard
  BY QueueLeft DEF Unheard, Expand
<1> QED  BY <1>1, NothingHeard

(* What the core emits is pending as soon as it collected it.              *)
LEMMA CoreEmits ==
  ASSUME RInv, UNCHANGED <<ring, first, avail>>, NEW n \in 1..MaxBatch,
         emitted + n <= MaxFrames, emitted' = emitted + n,
         Pending' = Pending \o NewFrames(n)
  PROVE  Keeps
<1> DEFINE new == NewFrames(n)
<1>1. n \in Nat \ {0} /\ TypeOK
  BY Sizes DEF RInv, Inv
<1>2. new \in Seq(1..MaxFrames) /\ Expand(new) = Stream!Samples(emitted + 1, n)
  BY <1>1, NewFramesType, NewIsExpanded
<1>3. PathTyped
  BY PathType
<1> HIDE DEF new
<1>4. Expand(Pending \o new) = Expand(Pending) \o Expand(new)
  BY <1>2, <1>3, ExpandConcat DEF PathTyped
<1>5. Expand(new) \in Seq(Sound)
  BY <1>2, ExpandType
<1>6. Pending' = Pending \o new
  BY DEF new
<1>7. Unheard' = Queued \o (Expand(Pending) \o Expand(new))
  <2>1. Expand(Pending)' = Expand(Pending \o new)
    BY <1>6 DEF Expand
  <2> QED  BY <1>4, <2>1, QueueLeft DEF Unheard
<1>8. Unheard' = Unheard \o Expand(new)
  <2> DEFINE q == Queued
             p == Expand(Pending)
             e == Expand(new)
  <2>1. q \in Seq(Sound) /\ p \in Seq(Sound) /\ e \in Seq(Sound)
    BY <1>3, <1>5 DEF PathTyped
  <2> HIDE DEF q, p, e
  <2>2. q \o (p \o e) = (q \o p) \o e
    BY <2>1, ConcatAssociative
  <2> QED  BY <1>7, <2>2 DEF Unheard, q, p, e
<1> QED  BY <1>2, <1>8, Emitted

LEMMA Idle ==
  ASSUME RInv, CoreRuns
  PROVE  /\ out = <<>> /\ toMix = <<>> /\ InOne(toMix) = <<>> /\ Pending = samples
         /\ samples \in Seq(1..MaxFrames)
<1>1. out = <<>> /\ toMix = <<>> /\ samples \in Seq(1..MaxFrames)
  BY DEF RInv, Inv, TypeOK, Tidy, CoreRuns
<1>2. InOne(toMix) = <<>>
  BY <1>1 DEF InOne
<1>3. <<>> \o samples = samples /\ <<>> \o <<>> = <<>>
  BY <1>1, EmptyFits, ConcatEmptySeq
<1> QED  BY <1>1, <1>2, <1>3 DEF Pending

(* One lot or two, and what the buffer holds beside it.                    *)
LEMMA Lots ==
  ASSUME NEW a \in Seq(1..MaxFrames), NEW b \in Seq(1..MaxFrames)
  PROVE  /\ InOne(<<>>) = <<>> /\ InOne(<<a>>) = a /\ InOne(<<a, b>>) = a \o b
         /\ <<>> \o InOne(<<>>) \o b = b
         /\ <<>> \o InOne(<<a>>) \o b = a \o b
         /\ <<>> \o InOne(<<a, b>>) \o <<>> = a \o b
<1>1. InOne(<<>>) = <<>>
  BY DEF InOne
<1>2. InOne(<<a>>) = a
  <2>1. <<a>> # <<>> /\ Len(<<a>>) = 1 /\ <<a>>[1] = a
    OBVIOUS
  <2> QED  BY <2>1 DEF InOne
<1>3. InOne(<<a, b>>) = a \o b
  <2>1. <<a, b>> # <<>> /\ Len(<<a, b>>) = 2 /\ <<a, b>>[1] = a /\ <<a, b>>[2] = b
    OBVIOUS
  <2> QED  BY <2>1 DEF InOne
<1>4. a \o b \in Seq(1..MaxFrames) /\ <<>> \in Seq(1..MaxFrames)
  BY EmptyFits, ConcatProperties
<1>5. /\ <<>> \o <<>> = <<>> /\ <<>> \o a = a /\ <<>> \o b = b
      /\ <<>> \o (a \o b) = a \o b /\ (a \o b) \o <<>> = a \o b
  BY <1>4, ConcatEmptySeq
<1> QED  BY <1>1, <1>2, <1>3, <1>5

LEMMA StepBeginsKeeps ==
  ASSUME RInv, NEW b \in BOOLEAN, NEW g \in BOOLEAN, StepBegins(b, g)
  PROVE  Keeps
<1>1. UNCHANGED <<ring, first, avail, emitted, out, toMix, samples>>
  BY DEF StepBegins, mix, fifo
<1>2. Pending' = Pending
  BY <1>1 DEF Pending, InOne
<1> QED  BY <1>1, <1>2, AllLeft

LEMMA StepEndsKeeps ==
  ASSUME RInv, StepEnds
  PROVE  Keeps
<1>1. UNCHANGED <<ring, first, avail, emitted, out>> /\ CoreRuns /\ samples' = <<>>
  BY DEF StepEnds, mix, fifo
<1>2. out = <<>> /\ Pending = samples /\ samples \in Seq(1..MaxFrames)
  BY <1>1, Idle
<1>3. Pending' = <<>> \o InOne(toMix') \o <<>>
  BY <1>1, <1>2 DEF Pending, InOne
<1>4. CASE samples = <<>>
  <2>1. toMix' = <<>>
    BY <1>4 DEF StepEnds
  <2> QED  BY <1>1, <1>2, <1>3, <1>4, <2>1, EmptyFits, Lots, AllLeft
<1>5. CASE samples # <<>>
  <2>1. toMix' = <<samples>>
    BY <1>5 DEF StepEnds
  <2>2. <<>> \o InOne(<<samples>>) \o <<>> = samples \o <<>>
    BY <1>2, EmptyFits, Lots
  <2>3. samples \o <<>> = samples
    BY <1>2, ConcatEmptySeq
  <2>4. Pending' = Pending
    BY <1>2, <1>3, <2>1, <2>2, <2>3
  <2> QED  BY <1>1, <2>4, AllLeft
<1> QED  BY <1>4, <1>5

LEMMA SampleKeeps ==
  ASSUME RInv, SampleCallback
  PROVE  Keeps
<1> DEFINE new == NewFrames(1)
<1>1. /\ UNCHANGED <<ring, first, avail, out>> /\ CoreRuns
      /\ emitted < MaxFrames /\ emitted' = emitted + 1
  BY DEF SampleCallback, mix, fifo
<1>2. /\ out = <<>> /\ toMix = <<>> /\ Pending = samples
      /\ samples \in Seq(1..MaxFrames)
  BY <1>1, Idle
<1>3. emitted + 1 <= MaxFrames /\ 1 \in Nat \ {0} /\ 1 \in 1..MaxBatch /\ TypeOK
  BY <1>1, Sizes DEF RInv, Inv, TypeOK
<1>4. new \in Seq(1..MaxFrames)
  BY <1>3, NewFramesType
<1>5. Pending' = <<>> \o InOne(toMix') \o samples'
  BY <1>1, <1>2 DEF Pending, InOne
<1>6. \/ samples' = samples \o new /\ toMix' = <<>>
      \/ samples' = new /\ toMix' = <<samples>>
  BY <1>2 DEF SampleCallback
<1> HIDE DEF new
<1>7. samples \o new \in Seq(1..MaxFrames)
  BY <1>2, <1>4, ConcatProperties
<1>8. Pending' = samples \o new
  <2>1. CASE samples' = samples \o new /\ toMix' = <<>>
    BY <1>5, <1>7, <2>1, Lots
  <2>2. CASE samples' = new /\ toMix' = <<samples>>
    BY <1>2, <1>4, <1>5, <2>2, Lots
  <2> QED  BY <1>6, <2>1, <2>2
<1>9. Pending' = Pending \o NewFrames(1)
  BY <1>2, <1>8 DEF new
<1> QED  BY <1>1, <1>3, <1>9, CoreEmits

LEMMA QueueWhole ==
  ASSUME RInv
  PROVE  Queued \in Seq(Sound) /\ Len(Queued) % Channels = 0
<1>1. Queued \in Seq(Sound) /\ Len(Queued) = FifoSize - avail
  BY QueuedType DEF QueueIsRing, Occupied
<1>2. FifoSize \in Nat /\ avail \in Nat /\ avail <= FifoSize /\ avail % Channels = 0
  BY Sizes DEF RInv, Inv, TypeOK, WholeFrames
<1>3. (FifoSize - avail) % Channels = 0
  BY <1>2, SizesWhole, Multiples, Sizes, Zenon
<1> QED  BY <1>1, <1>3

LEMMA ExpandWhole ==
  ASSUME NEW s \in Seq(1..MaxFrames)
  PROVE  Expand(s) \in Seq(Sound) /\ Len(Expand(s)) % Channels = 0
<1>1. Expand(s) \in Seq(Sound) /\ Len(Expand(s)) = Len(s) * Channels
  BY ExpandType
<1>2. Len(s) \in Nat
  OBVIOUS
<1> QED  BY <1>1, <1>2, Sizes, Product

LEMMA BatchKeeps ==
  ASSUME RInv, RInv', NEW n \in 1..MaxBatch, BatchCallback(n)
  PROVE  Keeps
<1> DEFINE new  == NewFrames(n)
           room == BufferFrames - Len(samples)
           rest == SubSeq(new, room + 1, n)
           some == SubSeq(new, 1, room)
<1> USE Sizes
<1>1. UNCHANGED <<ring, first, avail, out, blocking, generating>> /\ CoreRuns
  BY DEF BatchCallback, mix, fifo
<1>2. /\ out = <<>> /\ toMix = <<>> /\ Pending = samples
      /\ samples \in Seq(1..MaxFrames)
  BY <1>1, Idle
<1>3. TypeOK /\ n \in Nat \ {0} /\ Len(samples) <= BufferFrames
  BY DEF RInv, Inv, TypeOK
<1>4. Pending' = <<>> \o InOne(toMix') \o samples'
  BY <1>1, <1>2 DEF Pending, InOne
<1>5. CASE ~generating
  <2>1. samples' = <<>> /\ emitted' = emitted /\ toMix' = <<>>
    BY <1>2, <1>5 DEF BatchCallback
  <2>2. Pending' = <<>>
    BY <1>4, <2>1, EmptyFits, Lots
  <2>3. PathTyped /\ PathTyped'
    BY PathType, PathTypeNext
  <2>4. Expand(<<>>) = <<>> /\ Expand(Pending)' = <<>>
    <3>1. Expand(<<>>) \in Seq(Sound) /\ Len(Expand(<<>>)) = 0 * Channels
      BY EmptyFits, ExpandType
    <3>2. Len(Expand(<<>>)) = 0
      BY <3>1
    <3>3. Expand(<<>>) = <<>>
      BY <3>1, <3>2, EmptySeq
    <3> QED  BY <2>2, <3>3 DEF Expand
  <2>5. Queued \in Seq(Sound) /\ Len(Queued) % Channels = 0
    BY QueueWhole
  <2>6. Expand(Pending) \in Seq(Sound) /\ Len(Expand(Pending)) % Channels = 0
    BY <2>3, ExpandWhole DEF PathTyped
  <2>7. /\ Expand(Pending) \o <<>> = Expand(Pending)
        /\ Unheard' = Queued \o <<>> /\ <<>> \in Seq(Sound)
    BY <1>1, <2>4, <2>6, QueueLeft, ConcatEmptySeq DEF Unheard
  <2>8. Unheard = Queued \o (Expand(Pending) \o <<>>)
    BY <2>7 DEF Unheard
  <2>9. MayLose
    BY <1>5 DEF MayLose
  <2> QED  BY <2>1, <2>5, <2>6, <2>7, <2>8, <2>9, Lost
<1>6. CASE generating
  <2>1. emitted + n <= MaxFrames /\ emitted' = emitted + n
    BY <1>6 DEF BatchCallback
  <2>2. new \in Seq(1..MaxFrames) /\ Len(new) = n
    BY <1>3, <2>1, NewFramesType
  <2>3. Pending' = samples \o new
    <3>1. CASE samples = <<>> /\ n >= BufferFrames
      <4>1. toMix' = <<new>> /\ samples' = samples
        BY <1>6, <3>1 DEF BatchCallback
      <4> HIDE DEF new
      <4>2. Pending' = new \o <<>>
        BY <1>4, <2>2, <3>1, <4>1, EmptyFits, Lots
      <4> QED  BY <2>2, <3>1, <4>2, ConcatEmptySeq
    <3>2. CASE ~(samples = <<>> /\ n >= BufferFrames) /\ room > n
      <4>1. samples' = samples \o new /\ toMix' = <<>>
        BY <1>2, <1>3, <1>6, <3>2 DEF BatchCallback
      <4> HIDE DEF new
      <4>2. samples \o new \in Seq(1..MaxFrames)
        BY <1>2, <2>2, ConcatProperties
      <4> QED  BY <1>4, <4>1, <4>2, Lots
    <3>3. CASE ~(samples = <<>> /\ n >= BufferFrames) /\ room <= n
      <4>1. \/ toMix' = <<samples \o some, rest>> /\ samples' = <<>>
            \/ toMix' = <<samples \o some>> /\ samples' = rest
        <5>1. ~(room > n)
          BY <1>2, <1>3, <3>3
        <5> QED  BY <1>6, <3>3, <5>1 DEF BatchCallback
      <4>2. room \in 0..n
        BY <1>2, <1>3, <3>3
      <4> HIDE DEF new, room
      <4>3. /\ some \in Seq(1..MaxFrames) /\ rest \in Seq(1..MaxFrames)
            /\ new = some \o rest
        <5> DEFINE F == 1..MaxFrames
        <5>1. new \in Seq(F) /\ room \in 0..Len(new) /\ Len(new) = n
          BY <2>2, <4>2
        <5> HIDE DEF F
        <5>2. SubSeq(new, 1, room) \in Seq(F)
          BY <5>1, Halves, Zenon
        <5>3. SubSeq(new, room + 1, Len(new)) \in Seq(F)
          BY <5>1, Halves, Zenon
        <5>4. new = SubSeq(new, 1, room) \o SubSeq(new, room + 1, Len(new))
          BY <5>1, Halves, Zenon
        <5> QED  BY <5>1, <5>2, <5>3, <5>4 DEF F
      <4> HIDE DEF some, rest
      <4>4. samples \o some \in Seq(1..MaxFrames)
        BY <1>2, <4>3, ConcatProperties
      <4>5. Pending' = (samples \o some) \o rest
        <5>1. CASE toMix' = <<samples \o some, rest>> /\ samples' = <<>>
          BY <1>4, <4>3, <4>4, <5>1, Lots
        <5>2. CASE toMix' = <<samples \o some>> /\ samples' = rest
          BY <1>4, <4>3, <4>4, <5>2, Lots
        <5> QED  BY <4>1, <5>1, <5>2
      <4>6. (samples \o some) \o rest = samples \o (some \o rest)
        <5>1. Regrouped(samples, some, rest)
          BY <1>2, <4>3, Regroup, Zenon
        <5> QED  BY <5>1 DEF Regrouped
      <4> QED  BY <4>3, <4>5, <4>6
    <3> QED  BY <1>2, <1>3, <3>1, <3>2, <3>3
  <2> QED  BY <1>1, <1>2, <2>1, <2>3, CoreEmits
<1> QED  BY <1>3, <1>5, <1>6 DEF TypeOK

LEMMA MixBeginsKeeps ==
  ASSUME RInv, MixBegins
  PROVE  Keeps
<1>1. UNCHANGED <<ring, first, avail, emitted, samples>>
  BY DEF MixBegins, fifo
<1>2. /\ out = <<>> /\ toMix # <<>> /\ Len(toMix) <= 2
      /\ toMix \in Seq(Seq(1..MaxFrames))
      /\ out' = Head(toMix) /\ toMix' = Tail(toMix)
  BY DEF RInv, Inv, TypeOK, Tidy, MixBegins
<1>3. <<>> \o InOne(toMix) = Head(toMix) \o InOne(Tail(toMix))
  <2> DEFINE T == Seq(1..MaxFrames)
  <2>0. toMix \in Seq(T) /\ toMix # <<>> /\ Len(toMix) <= 2 /\ T = Seq(1..MaxFrames)
    BY <1>2
  <2> HIDE DEF T
  <2>1. /\ Len(toMix) \in Nat \ {0} /\ Head(toMix) = toMix[1] /\ toMix[1] \in T
        /\ Tail(toMix) \in Seq(T) /\ Len(Tail(toMix)) = Len(toMix) - 1
        /\ \A i \in 1..Len(Tail(toMix)): Tail(toMix)[i] = toMix[i + 1]
    BY <2>0, EmptySeq, HeadTailProperties
  <2>2. \A n \in Nat \ {0}: n <= 2 => n = 1 \/ n = 2
    OBVIOUS
  <2>3. Len(toMix) = 1 \/ Len(toMix) = 2
    BY <2>0, <2>1, <2>2, Zenon
  <2>4. CASE Len(toMix) = 1
    <3>1. Len(Tail(toMix)) = 0
      BY <2>1, <2>4
    <3>2. Tail(toMix) = <<>>
      BY <2>1, <3>1, EmptySeq
    <3>3. InOne(toMix) = Head(toMix) /\ InOne(Tail(toMix)) = <<>>
      BY <2>0, <2>1, <2>4, <3>2 DEF InOne
    <3>4. Head(toMix) \in Seq(1..MaxFrames)
      BY <2>0, <2>1
    <3>5. <<>> \o Head(toMix) = Head(toMix) /\ Head(toMix) \o <<>> = Head(toMix)
      BY <3>4, ConcatEmptySeq
    <3> QED  BY <3>3, <3>5
  <2>5. CASE Len(toMix) = 2
    <3>1. Len(Tail(toMix)) = 1 /\ Tail(toMix)[1] = toMix[2]
      <4> DEFINE s == toMix
                 t == Tail(toMix)
      <4>1. /\ Len(s) = 2 /\ Len(t) = Len(s) - 1
            /\ \A i \in 1..Len(t): t[i] = s[i + 1]
        BY <2>1, <2>5
      <4> HIDE DEF s, t
      <4>2. Len(t) = 1 /\ t[1] = s[1 + 1]
        BY <4>1
      <4> QED  BY <4>2 DEF s, t
    <3>2. Tail(toMix) # <<>>
      <4> DEFINE t == Tail(toMix)
      <4>1. Len(t) = 1
        BY <3>1
      <4> HIDE DEF t
      <4>2. t # <<>>
        BY <4>1
      <4> QED  BY <4>2 DEF t
    <3>3. toMix[2] \in T
      <4>1. 2 \in 1..Len(toMix)
        BY <2>5
      <4> QED  BY <2>0, <4>1, ElementOfSeq
    <3>4. InOne(Tail(toMix)) = toMix[2]
      BY <3>1, <3>2 DEF InOne
    <3>5. InOne(toMix) = toMix[1] \o toMix[2]
      BY <2>0, <2>5 DEF InOne
    <3>6. toMix[1] \o toMix[2] \in Seq(1..MaxFrames)
      BY <2>0, <2>1, <3>3, ConcatProperties
    <3>7. <<>> \o (toMix[1] \o toMix[2]) = toMix[1] \o toMix[2]
      BY <3>6, ConcatEmptySeq
    <3> QED  BY <2>1, <3>4, <3>5, <3>7
  <2> QED  BY <2>3, <2>4, <2>5
<1>4. InOne(toMix)' = InOne(Tail(toMix))
  BY <1>2 DEF InOne
<1>5. Pending' = Pending
  BY <1>1, <1>2, <1>3, <1>4 DEF Pending
<1> QED  BY <1>1, <1>5, AllLeft

LEMMA WaitKeeps ==
  ASSUME RInv, Wait \/ WaitEnds
  PROVE  Keeps
<1>1. UNCHANGED <<ring, first, avail, emitted, out, toMix, samples>>
  BY DEF Wait, WaitEnds, core, fifo
<1>2. Pending' = Pending
  BY <1>1 DEF Pending, InOne
<1> QED  BY <1>1, <1>2, AllLeft

(* What is lost is whole frames at the end of what mix has in hand.        *)
LEMMA DecideKeeps ==
  ASSUME RInv, Decide
  PROVE  Keeps
<1> USE Sizes
<1>1. UNCHANGED <<ring, first, avail, emitted, toMix, samples>>
  BY DEF Decide, core, fifo
<1>2. CASE UNCHANGED out
  <2>1. Pending' = Pending
    BY <1>1, <1>2 DEF Pending, InOne
  <2> QED  BY <1>1, <2>1, AllLeft
<1>3. CASE seen < Needed /\ ~blocking /\ out' = SubSeq(out, 1, Fitting)
  <2> DEFINE kept == SubSeq(out, 1, Fitting)
             cut  == SubSeq(out, Fitting + 1, Len(out))
             more == InOne(toMix) \o samples
  <2>0. PathTyped
    BY PathType
  <2>1. out \in Seq(1..MaxFrames) /\ Len(out) \in Nat /\ seen \in Nat
    BY <2>0 DEF RInv, Inv, TypeOK, PathTyped
  <2>2. Fitting \in Nat /\ Fitting * Channels <= seen
    BY <2>1, CutFits DEF Fitting
  <2>3. Fitting \in 0..Len(out)
    <3>1. SUFFICES ASSUME Len(out) <= Fitting  PROVE Fitting <= Len(out)
      BY <2>1, <2>2
    <3>2. Len(out) * Channels <= Fitting * Channels
      BY <2>1, <2>2, <3>1, ScalesUp
    <3>3. Fitting * Channels \in Nat /\ Len(out) * Channels \in Nat
      BY <2>1, <2>2
    <3> QED  BY <1>3, <2>1, <2>2, <3>2, <3>3 DEF Needed
  <2>4. kept \in Seq(1..MaxFrames)
    BY <2>1, <2>3, Halves, Zenon
  <2>5. cut \in Seq(1..MaxFrames)
    BY <2>1, <2>3, Halves, Zenon
  <2>6. out = kept \o cut
    BY <2>1, <2>3, Halves, Zenon
  <2>7. more \in Seq(1..MaxFrames) /\ out' = kept
    BY <1>3, <2>0, ConcatProperties DEF PathTyped
  <2>8. Pending = (kept \o cut) \o more /\ Pending' = kept \o more
    <3>1. InOne(toMix)' = InOne(toMix)
      BY <1>1 DEF InOne
    <3>2. InOne(toMix) \in Seq(1..MaxFrames) /\ samples \in Seq(1..MaxFrames)
      BY <2>0 DEF PathTyped
    <3>3. Pending = out \o more
      <4>1. Regrouped(out, InOne(toMix), samples)
        BY <2>1, <3>2, Regroup, Zenon
      <4> QED  BY <4>1 DEF Regrouped, Pending
    <3>4. Pending' = (kept \o InOne(toMix)) \o samples
      BY <1>1, <2>7, <3>1 DEF Pending
    <3>5. Pending' = kept \o more
      <4>1. Regrouped(kept, InOne(toMix), samples)
        BY <2>4, <3>2, Regroup, Zenon
      <4> QED  BY <3>4, <4>1 DEF Regrouped
    <3> QED  BY <2>6, <3>3, <3>5
  <2> HIDE DEF kept, cut, more
  <2> DEFINE q == Queued
             k == Expand(kept)
             c == Expand(cut)
             m == Expand(more)
  <2>9. /\ q \in Seq(Sound) /\ Len(q) % Channels = 0
        /\ k \in Seq(Sound) /\ Len(k) % Channels = 0
        /\ c \in Seq(Sound) /\ Len(c) % Channels = 0
        /\ m \in Seq(Sound)
    BY <2>4, <2>5, <2>7, QueueWhole, ExpandWhole
  <2>10. Expand(Pending) = (k \o c) \o m /\ Expand(Pending)' = k \o m
    <3>1. kept \o cut \in Seq(1..MaxFrames)
      BY <2>4, <2>5, ConcatProperties
    <3>2. Expand(Pending) = Expand(kept \o cut) \o m
      BY <2>7, <2>8, <3>1, ExpandConcat
    <3>3. Expand(kept \o cut) = k \o c
      BY <2>4, <2>5, ExpandConcat
    <3>4. Expand(Pending)' = Expand(kept \o more)
      BY <2>8 DEF Expand
    <3>5. Expand(kept \o more) = k \o m
      BY <2>4, <2>7, ExpandConcat
    <3> QED  BY <3>2, <3>3, <3>4, <3>5
  <2>11. Unheard = q \o ((k \o c) \o m) /\ Unheard' = q \o (k \o m)
    BY <1>1, <2>10, QueueLeft DEF Unheard
  <2> HIDE DEF q, k, c, m
  <2>12. Unheard = (q \o k) \o (c \o m)
    <3>1. (k \o c) \o m = k \o (c \o m)
      BY <2>9, ConcatAssociative
    <3>2. c \o m \in Seq(Sound)
      BY <2>9, ConcatProperties
    <3>3. q \o (k \o (c \o m)) = (q \o k) \o (c \o m)
      <4>1. Regrouped(q, k, c \o m)
        BY <2>9, <3>2, Regroup, Zenon
      <4> QED  BY <4>1 DEF Regrouped
    <3> QED  BY <2>11, <3>1, <3>3
  <2>13. Unheard' = (q \o k) \o m
    <3>1. Regrouped(q, k, m)
      BY <2>9, Regroup, Zenon
    <3> QED  BY <2>11, <3>1 DEF Regrouped
  <2>14. q \o k \in Seq(Sound) /\ Len(q \o k) % Channels = 0
    <3>1. q \o k \in Seq(Sound) /\ Len(q \o k) = Len(q) + Len(k)
      BY <2>9, ConcatProperties
    <3>2. Len(q) \in Nat /\ Len(k) \in Nat
      BY <2>9
    <3>3. (Len(q) + Len(k)) % Channels = Len(q) % Channels
      BY <2>9, <3>2, Multiples, Sizes, Zenon
    <3> QED  BY <2>9, <3>1, <3>3
  <2>15. MayLose /\ emitted' = emitted
    BY <1>1, <1>3 DEF MayLose
  <2> QED  BY <2>9, <2>12, <2>13, <2>14, <2>15, Lost
<1> QED  BY <1>2, <1>3 DEF Decide

(* All that was in the Fifo is lost.                                       *)
LEMMA FlushKeeps ==
  ASSUME RInv, RInv', Flush
  PROVE  Keeps
<1> USE Sizes
<1>1. /\ avail' = FifoSize /\ UNCHANGED <<emitted, out, toMix, samples>>
      /\ mixing = "wait" /\ tries = 1
  <2>1. ~torn'
    BY DEF RInv, Inv
  <2>2. /\ ResetAlone \/ ResetDuringRead
        /\ UNCHANGED <<emitted, out, toMix, samples>> /\ mixing = "wait" /\ tries = 1
    BY DEF Flush, Flushes, core
  <2> QED  BY <2>1, <2>2 DEF ResetAlone, ResetDuringRead
<1>2. PathTyped /\ PathTyped'
  BY PathType, PathTypeNext
<1>3. Queued' = <<>>
  <2>1. Queued' \in Seq(Sound) /\ Len(Queued') = 0
    BY <1>1, QueuedTypeNext DEF QueueIsRing, Occupied
  <2> QED  BY <2>1, EmptySeq
<1>4. Pending' = Pending
  BY <1>1 DEF Pending, InOne
<1>5. Expand(Pending)' = Expand(Pending)
  BY <1>4 DEF Expand
<1> DEFINE q == Queued
           p == Expand(Pending)
<1>6. /\ q \in Seq(Sound) /\ Len(q) % Channels = 0 /\ p \in Seq(Sound)
      /\ <<>> \in Seq(Sound)
  BY <1>2, QueueWhole, EmptySeq DEF PathTyped
<1>7. Unheard = q \o p /\ Unheard' = <<>> \o p
  BY <1>3, <1>5 DEF Unheard
<1> HIDE DEF q, p
<1>8. q \o p \in Seq(Sound)
  BY <1>6, ConcatProperties
<1>9. Unheard = <<>> \o (q \o p)
  BY <1>7, <1>8, ConcatEmptySeq
<1>10. Len(<<>>) = 0 /\ 0 % Channels = 0
  OBVIOUS
<1>11. MayLose /\ emitted' = emitted
  BY <1>1 DEF MayLose
<1> QED  BY <1>6, <1>7, <1>9, <1>10, <1>11, Lost

LEMMA WriteKeeps ==
  ASSUME RInv, RInv', Write
  PROVE  Keeps
<1> DEFINE piece == SubSeq(out, 1, Portion)
           left  == SubSeq(out, Portion + 1, Len(out))
           more  == InOne(toMix) \o samples
<1>0. PathTyped
  BY PathType
<1>1. /\ piece \in Seq(1..MaxFrames) /\ left \in Seq(1..MaxFrames)
      /\ out = piece \o left /\ out' = left
      /\ Written \in Seq(Sound) /\ Len(Written) <= avail
      /\ Written = Expand(piece)
  <2>1. Len(Written) \in 0..avail /\ avail \in Nat /\ Loose
    BY WriteTakesRoom DEF RInv, Inv, Loose
  <2>2. Len(Written) <= avail
    BY <2>1
  <2>3. Written = Expand(piece)
    BY DEF Written
  <2> QED  BY <2>1, <2>2, <2>3, WriteTaken, Zenon
<1>2. Queued' = Queued \o Written
  <2>1. avail' = avail - Len(Written) /\ first' = first
    BY WriteTakesRoom DEF RInv, Write
  <2> QED  BY <1>1, <2>1, WriteFills, WriteQueues
<1>3. UNCHANGED <<emitted, samples, toMix>>
  BY WriteFills DEF core
<1>4. InOne(toMix) \in Seq(1..MaxFrames) /\ samples \in Seq(1..MaxFrames)
  BY <1>0 DEF PathTyped
<1>5. more \in Seq(1..MaxFrames)
  BY <1>4, ConcatProperties
<1>6. Pending = out \o more /\ Pending' = left \o more
  <2>1. Regrouped(out, InOne(toMix), samples) /\ Regrouped(left, InOne(toMix), samples)
    BY <1>0, <1>1, <1>4, Regroup, Zenon DEF PathTyped
  <2>2. InOne(toMix)' = InOne(toMix)
    BY <1>3 DEF InOne
  <2> QED  BY <1>1, <1>3, <2>1, <2>2 DEF Pending, Regrouped
<1> HIDE DEF piece, left, more
<1>7. Pending = piece \o (left \o more) /\ left \o more \in Seq(1..MaxFrames)
  <2>1. Regrouped(piece, left, more)
    BY <1>1, <1>5, Regroup, Zenon
  <2> QED  BY <1>1, <1>5, <1>6, <2>1, ConcatProperties DEF Regrouped
<1> DEFINE q == Queued
           w == Written
           r == Expand(left \o more)
<1>8. /\ Expand(Pending) = w \o r /\ Expand(Pending)' = r /\ r \in Seq(Sound)
  <2>1. Expand(Pending) = Expand(piece) \o r
    BY <1>1, <1>7, ExpandConcat
  <2>2. Expand(Pending)' = Expand(left \o more)
    BY <1>6 DEF Expand
  <2> QED  BY <1>1, <1>7, <2>1, <2>2, ExpandType
<1>9. Unheard = q \o (w \o r) /\ Unheard' = (q \o w) \o r
  BY <1>2, <1>8 DEF Unheard
<1>10. Regrouped(q, w, r)
  BY <1>0, <1>1, <1>8, Regroup, Zenon DEF PathTyped
<1>11. Unheard' = Unheard
  BY <1>9, <1>10 DEF Regrouped
<1> QED  BY <1>3, <1>11, NothingHeard

LEMMA DeviceLooksKeeps ==
  ASSUME RInv, DeviceLooks
  PROVE  Keeps
<1>1. UNCHANGED <<ring, first, avail, emitted, out, toMix, samples>>
  BY DEF DeviceLooks, core, mix, fifo
<1>2. Pending' = Pending
  BY <1>1 DEF Pending, InOne
<1> QED  BY <1>1, <1>2, AllLeft

LEMMA DeviceReadsKeeps ==
  ASSUME RInv, RInv', DeviceReads
  PROVE  Keeps
<1> USE Sizes
<1> DEFINE n == Wanted
           s == SubSeq(Queued, 1, n)
           t == SubSeq(Queued, n + 1, Len(Queued))
           p == Expand(Pending)
<1>0. PathTyped
  BY PathType
<1>1. /\ Queued \in Seq(Sound) /\ Len(Queued) = Occupied /\ Occupied \in Nat
  BY QueuedType DEF QueueIsRing
<1>2. n \in 0..Len(Queued) /\ Queued' = t
  BY <1>1, ReadTakesFront
<1>3. UNCHANGED <<emitted, out, toMix, samples>>
  BY DEF DeviceReads, core, mix
<1>4. Expand(Pending)' = Expand(Pending)
  BY <1>3 DEF Pending, InOne, Expand
<1>5. n % Channels = 0
  BY SizesWhole DEF Wanted, RInv, WholeFrames, DeviceReads
<1> HIDE DEF n
<1>6. s \in Seq(Sound)
  BY <1>1, <1>2, Halves, Zenon
<1>7. Len(s) = n
  <2>1. \A k \in 0..Len(Queued): Len(SubSeq(Queued, 1, k)) = k
    BY <1>1, Halves
  <2> QED  BY <1>2, <2>1
<1>8. t \in Seq(Sound)
  BY <1>1, <1>2, Halves, Zenon
<1>9. Queued = s \o t
  BY <1>1, <1>2, Halves, Zenon
<1>10. p \in Seq(Sound)
  BY <1>0 DEF PathTyped
<1>11. Unheard = (s \o t) \o p /\ Unheard' = t \o p
  BY <1>2, <1>4, <1>9 DEF Unheard
<1> HIDE DEF s, t, p
<1>12. Regrouped(s, t, p)
  BY <1>6, <1>8, <1>10, Regroup, Zenon
<1>13. Unheard = s \o (t \o p)
  BY <1>11, <1>12 DEF Regrouped
<1>14. t \o p \in Seq(Sound)
  BY <1>8, <1>10, ConcatProperties
<1> QED  BY <1>3, <1>5, <1>6, <1>7, <1>11, <1>13, <1>14, Played

-----------------------------------------------------------------------------
LEMMA InitKeeps == Init => Stream!Init
<1> SUFFICES ASSUME Init  PROVE Stream!Init
  OBVIOUS
<1>1. /\ out = <<>> /\ toMix = <<>> /\ samples = <<>> /\ emitted = 0
      /\ avail = FifoSize /\ torn = FALSE
  BY DEF Init
<1>2. Pending = <<>>
  <2>1. InOne(toMix) = <<>> /\ <<>> \o <<>> = <<>>
    BY <1>1, EmptyFits, ConcatEmptySeq DEF InOne
  <2> QED  BY <1>1, <2>1 DEF Pending
<1>3. Expand(Pending) = <<>>
  <2>1. Expand(<<>>) \in Seq(Sound) /\ Len(Expand(<<>>)) = 0 * Channels
    BY EmptyFits, ExpandType
  <2>2. 0 * Channels = 0
    BY Sizes
  <2> QED  BY <1>2, <2>1, <2>2, EmptySeq
<1>4. Queued = <<>>
  <2>1. Queued \in Seq(Sound) /\ Len(Queued) = Occupied
    BY InitInv, InitWhole, QueuedType DEF RInv, QueueIsRing
  <2>2. Occupied = 0
    BY <1>1, Sizes DEF Occupied
  <2> QED  BY <2>1, <2>2, EmptySeq
<1>5. Unheard = <<>>
  <2>1. <<>> \in Seq(Sound)
    BY EmptySeq
  <2>2. <<>> \o <<>> = <<>>
    BY <2>1, ConcatEmptySeq
  <2> QED  BY <1>3, <1>4, <2>2 DEF Unheard
<1>6. MayLose \in BOOLEAN
  BY DEF MayLose
<1> QED  BY <1>1, <1>5, <1>6, Zenon DEF Stream!Init

LEMMA NextKeeps == RInv /\ RInv' /\ [Next]_vars => Keeps
<1> SUFFICES ASSUME RInv, RInv', [Next]_vars  PROVE Keeps
  OBVIOUS
<1>1. ASSUME NEW b \in BOOLEAN, NEW g \in BOOLEAN, StepBegins(b, g)  PROVE Keeps
  BY <1>1, StepBeginsKeeps
<1>2. ASSUME NEW n \in 1..MaxBatch, BatchCallback(n)  PROVE Keeps
  BY <1>2, BatchKeeps
<1>3. CASE SampleCallback \/ StepEnds
  BY <1>3, SampleKeeps, StepEndsKeeps
<1>4. CASE MixStep
  BY <1>4, MixBeginsKeeps, DecideKeeps, WaitKeeps, FlushKeeps, WriteKeeps DEF MixStep
<1>5. CASE DeviceLooks \/ DeviceReads
  BY <1>5, DeviceLooksKeeps, DeviceReadsKeeps
<1>6. CASE UNCHANGED vars
  <2>1. UNCHANGED <<ring, first, avail, emitted, out, toMix, samples>>
    BY <1>6 DEF vars, core, mix, fifo
  <2>2. Pending' = Pending
    BY <2>1 DEF Pending, InOne
  <2> QED  BY <2>1, <2>2, AllLeft
<1> QED  BY <1>1, <1>2, <1>3, <1>4, <1>5, <1>6 DEF Next

LEMMA StreamSteps ==
  RTornOrWhole /\ RTornOrWhole' /\ [Next]_vars
    => [Stream!Next]_<<Unheard, emitted, MayLose, torn>>
<1> SUFFICES ASSUME RTornOrWhole, RTornOrWhole', [Next]_vars  PROVE Stream!Next
  OBVIOUS
<1>1. MayLose' \in BOOLEAN
  BY DEF MayLose
<1>2. torn' \in BOOLEAN
  BY DEF RTornOrWhole, Loose, TypeOK
<1>3. CASE torn \/ torn'
  BY <1>1, <1>2, <1>3, Zenon DEF Stream!Next
<1>4. CASE ~torn /\ ~torn'
  <2>1. RInv /\ RInv'
    BY <1>4, Zenon DEF RTornOrWhole
  <2>2. Keeps
    BY <2>1, NextKeeps
  <2> QED  BY <1>1, <1>2, <2>2, Zenon DEF Keeps, Stream!Next
<1> QED  BY <1>3, <1>4

(* The samples of a core reach the device once each, in order and in whole *)
(* frames, and none is lost but while the game is silent or in turbo, or   *)
(* because the device took nothing for so long that mix emptied the Fifo;  *)
(* but while the Fifo is torn because the device came back in that very    *)
(* moment (Core's audio callbacks, Audio::mix, Fifo,                       *)
(* Application::s_audioCallback).                                          *)
THEOREM PromiseKept == Spec => KeepsPromise
<1>1. Init => RTornOrWhole
  BY InitInv, InitWhole DEF RTornOrWhole, RInv, Inv, Loose
<1>2. RTornOrWhole /\ [Next]_vars => RTornOrWhole'
  BY RNextInv
<1>3. RTornOrWhole /\ RTornOrWhole' /\ [Next]_vars
        => [Stream!Next]_<<Unheard, emitted, MayLose, torn>>
  BY StreamSteps
<1>4. Init => Stream!Init
  BY InitKeeps
<1> QED  BY <1>1, <1>2, <1>3, <1>4, PTL DEF Spec, KeepsPromise, Stream!Spec
=============================================================================
