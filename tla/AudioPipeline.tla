---------------------------- MODULE AudioPipeline ----------------------------
(***************************************************************************)
(* The way of a core's sound: libretro::Core collects frames in a buffer,  *)
(* Audio::mix expands them to the device's channels and puts them in the   *)
(* Fifo, from which SDL's audio thread takes them.  The Fifo is a ring     *)
(* whose read and write hold a mutex; reset, which mix calls when the      *)
(* device has stalled, does not, and may come between the device's look at *)
(* the Fifo and its read, or overlap the read.  What that leaves of the    *)
(* Fifo is remembered in two history variables, "late" and "torn".         *)
(*                                                                         *)
(* Sizes are counted in samples of two bytes, a frame of the core being    *)
(* two of them.  Core and device run at the same rate: no resampling.      *)
(***************************************************************************)
EXTENDS Integers, SequencesExt

CONSTANTS
  BufferFrames,  \* SAMPLE_COUNT / 2
  FifoSize,      \* Fifo::_size
  Channels,      \* of the device
  FlushFrames,   \* how many expanded frames mix writes at once
  DeviceSamples, \* how many samples the device asks for
  MaxWait,       \* how often mix looks again before it empties the Fifo
  MaxBatch,      \* bound: the frames of one audio_sample_batch call
  MaxFrames,     \* bound: the frames emitted in all
  SizeT          \* a size_t counts modulo this

ASSUME SizesAssumption ==
  /\ {BufferFrames, FifoSize, Channels, FlushFrames, DeviceSamples, MaxWait,
      MaxBatch, MaxFrames} \subseteq Nat \ {0}
  /\ DeviceSamples % Channels = 0
  /\ FifoSize % Channels = 0

(* A batch that does not fit the Fifo as a whole would overrun it once mix *)
(* had emptied it: cores are taken not to send such batches.               *)
ASSUME BatchFitsAssumption ==
  /\ MaxBatch * Channels <= FifoSize
  /\ BufferFrames * Channels <= FifoSize
ASSUME SizeTAssumption == SizeT \in Nat /\ SizeT > FifoSize

VARIABLES
  stepping,   \* the core runs a frame
  blocking,   \* Audio::_blocking
  generating, \* Core::_generateAudio
  emitted,    \* frames the core has emitted to be heard
  samples,    \* Core::_samples: the frames collected
  toMix,      \* what the running callback has still to pass to mix
  mixing,     \* where mix is
  out,        \* mix: the frames not yet written
  seen,       \* mix: the free space it saw
  tries,      \* mix: how often it will look again
  ring, first, last, avail,   \* the Fifo
  device,     \* where the audio thread is
  have,       \* the samples it saw in the Fifo
  late,       \* history: mix has emptied the Fifo since the device looked
  torn        \* history: the Fifo's count does not fit its indices any more

core == <<stepping, blocking, generating, emitted, samples, toMix>>
mix  == <<mixing, out, seen, tries>>
fifo == <<ring, first, last, avail>>
history == <<late, torn>>
vars == <<core, mix, fifo, device, have, history>>

Occupied == FifoSize - avail

Free == <<0, 0>>   \* what the ring holds where nothing was written yet

TypeOK ==
  /\ stepping \in BOOLEAN /\ blocking \in BOOLEAN /\ generating \in BOOLEAN
  /\ emitted \in 0..MaxFrames
  /\ samples \in Seq(1..MaxFrames) /\ Len(samples) <= BufferFrames
  /\ toMix \in Seq(Seq(1..MaxFrames))
  /\ mixing \in {"no", "decide", "wait", "write"}
  /\ out \in Seq(1..MaxFrames)
  /\ seen \in 0..SizeT - 1
  /\ tries \in 0..MaxWait
  /\ first \in 0..FifoSize - 1 /\ last \in 0..FifoSize - 1
  /\ avail \in 0..SizeT - 1
  /\ device \in {"asleep", "looked"}
  /\ have \in 0..SizeT - 1
  /\ late \in BOOLEAN /\ torn \in BOOLEAN

Init ==
  /\ stepping = FALSE /\ blocking = TRUE /\ generating = TRUE
  /\ emitted = 0 /\ samples = <<>> /\ toMix = <<>>
  /\ mixing = "no" /\ out = <<>> /\ seen = 0 /\ tries = 0
  /\ ring = [i \in 0..FifoSize - 1 |-> Free]
  /\ first = 0 /\ last = 0 /\ avail = FifoSize
  /\ device = "asleep" /\ have = 0
  /\ late = FALSE /\ torn = FALSE

-----------------------------------------------------------------------------
(* The core.  It runs only while no callback of its own is mixing.         *)

CoreRuns == mixing = "no" /\ toMix = <<>>

NewFrames(n) == [i \in 1..n |-> emitted + i]

(* Core::step begins: at normal speed, or in turbo with or without sound,  *)
(* or for the one silent frame of a frame step.                            *)
StepBegins(b, g) ==
  /\ CoreRuns /\ ~stepping
  /\ stepping' = TRUE /\ blocking' = b /\ generating' = g
  /\ UNCHANGED <<emitted, samples, toMix, mix, fifo, device, have, history>>

(* Core::audioSampleBatchCallback: frames are collected until the buffer   *)
(* is full, then mixed; what would not fit the empty buffer is mixed as it *)
(* is.                                                                     *)
BatchCallback(n) ==
  LET new  == NewFrames(n)
      room == BufferFrames - Len(samples)
      rest == SubSeq(new, room + 1, n)
  IN
  /\ CoreRuns /\ stepping
  /\ \/ /\ ~generating
        /\ samples' = <<>>
        /\ UNCHANGED <<emitted, toMix>>
     \/ /\ generating
        /\ emitted + n <= MaxFrames
        /\ emitted' = emitted + n
        /\ \/ /\ samples = <<>> /\ n >= BufferFrames
              /\ toMix' = <<new>>
              /\ UNCHANGED samples
           \/ /\ ~(samples = <<>> /\ n >= BufferFrames)
              /\ room > n
              /\ samples' = samples \o new
              /\ UNCHANGED toMix
           \/ /\ ~(samples = <<>> /\ n >= BufferFrames)
              /\ room <= n
              /\ IF Len(rest) > BufferFrames
                   THEN /\ toMix' = <<samples \o SubSeq(new, 1, room), rest>>
                        /\ samples' = <<>>
                   ELSE /\ toMix' = <<samples \o SubSeq(new, 1, room)>>
                        /\ samples' = rest
  /\ UNCHANGED <<stepping, blocking, generating, mix, fifo, device, have, history>>

(* Mutant: the frame that found the buffer full is dropped.                *)
SampleCallbackForgets ==
  /\ CoreRuns /\ stepping
  /\ emitted < MaxFrames
  /\ emitted' = emitted + 1
  /\ IF Len(samples) < BufferFrames
       THEN samples' = samples \o NewFrames(1) /\ UNCHANGED toMix
       ELSE toMix' = <<samples>> /\ samples' = <<>>
  /\ UNCHANGED <<stepping, blocking, generating, mix, fifo, device, have, history>>

(* Core::audioSampleCallback: one frame, wanted or not.                    *)
SampleCallback ==
  /\ CoreRuns /\ stepping
  /\ emitted < MaxFrames
  /\ emitted' = emitted + 1
  /\ IF Len(samples) < BufferFrames
       THEN /\ samples' = samples \o NewFrames(1)
            /\ UNCHANGED toMix
       ELSE /\ toMix' = <<samples>>
            /\ samples' = NewFrames(1)
  /\ UNCHANGED <<stepping, blocking, generating, mix, fifo, device, have, history>>

(* Core::step ends: what is left in the buffer is mixed.                   *)
StepEnds ==
  /\ CoreRuns /\ stepping
  /\ stepping' = FALSE
  /\ toMix' = IF samples = <<>> THEN <<>> ELSE <<samples>>
  /\ samples' = <<>>
  /\ UNCHANGED <<blocking, generating, emitted, mix, fifo, device, have, history>>

-----------------------------------------------------------------------------
(* Audio::mix.                                                             *)

Needed == Len(out) * Channels

MixBegins ==
  /\ mixing = "no" /\ toMix # <<>>
  /\ mixing' = "decide"
  /\ out' = Head(toMix) /\ toMix' = Tail(toMix)
  /\ seen' = avail
  /\ UNCHANGED <<stepping, blocking, generating, emitted, samples, tries, fifo,
                 device, have, history>>

(* Without blocking, what does not fit is cut off, in whole frames.        *)
Fitting == ((2 * seen) \div Channels) \div 2

Decide ==
  /\ mixing = "decide"
  /\ \/ /\ seen >= Needed
        /\ mixing' = "write"
        /\ UNCHANGED <<out, tries>>
     \/ /\ seen < Needed /\ ~blocking
        /\ out' = SubSeq(out, 1, Fitting)
        /\ mixing' = IF Fitting = 0 THEN "no" ELSE "write"
        /\ UNCHANGED tries
     \/ /\ seen < Needed /\ blocking
        /\ mixing' = "wait" /\ tries' = MaxWait
        /\ UNCHANGED out
  /\ UNCHANGED <<core, seen, fifo, device, have, history>>

(* Mutant: it looks again for as long as the device does not play.         *)
WaitForever ==
  /\ mixing = "wait"
  /\ avail < Needed
  /\ UNCHANGED vars

Wait ==
  /\ mixing = "wait"
  /\ avail < Needed /\ tries > 1
  /\ tries' = tries - 1
  /\ UNCHANGED <<core, mixing, out, seen, fifo, device, have, history>>

WaitEnds ==
  /\ mixing = "wait"
  /\ avail >= Needed
  /\ mixing' = "write"
  /\ UNCHANGED <<core, out, seen, tries, fifo, device, have, history>>

(* "FIFO still full": Fifo::reset, before or after whatever the device is  *)
(* at.  A Fifo that nobody reads is whole again.                           *)
ResetAlone ==
  /\ avail' = FifoSize /\ first' = 0
  /\ late' = (device = "looked")
  /\ torn' = (torn /\ device = "looked")
  /\ UNCHANGED device

(* How much the device takes of what it saw.                               *)
Wanted == IF have < DeviceSamples THEN have ELSE DeviceSamples

(* Fifo::reset without the mutex while Fifo::read holds it: each of the    *)
(* two variables both write is left as the one or the other wrote it, or   *)
(* as read wrote it from what it was before the reset.                     *)
ResetDuringRead ==
  /\ device = "looked" /\ device' = "asleep"
  /\ first' \in {0, Wanted % FifoSize, (first + Wanted) % FifoSize}
  /\ avail' \in {FifoSize, (FifoSize + Wanted) % SizeT, (avail + Wanted) % SizeT}
  /\ late' = FALSE
  /\ torn' = (first' # 0 \/ avail' # FifoSize)

Flushes ==
  /\ mixing = "wait"
  /\ avail < Needed /\ tries = 1
  /\ ResetAlone \/ ResetDuringRead
  /\ mixing' = "write" /\ tries' = 0
  /\ UNCHANGED <<core, out, seen, ring, have>>

(* Mutant: the write index is not reset.                                   *)
FlushHalf == Flushes /\ UNCHANGED last

Flush == Flushes /\ last' = 0

(* One frame as the device hears it: mono takes the left sample, and       *)
(* channels beyond the second are silent.                                  *)
Expand(frames) ==
  [i \in 1..Len(frames) * Channels |-> <<frames[1 + (i - 1) \div Channels],
                                         (i - 1) % Channels>>]

(* Fifo::write, of everything for a stereo device and else piece by piece. *)
Write ==
  LET n     == IF Channels = 2 \/ Len(out) < FlushFrames THEN Len(out)
                                                         ELSE FlushFrames
      chunk == Expand(SubSeq(out, 1, n))
  IN
  /\ mixing = "write"
  /\ ring' = [i \in 0..FifoSize - 1 |->
                LET d == (i - last) % FifoSize
                IN  IF d < Len(chunk) THEN chunk[d + 1] ELSE ring[i]]
  /\ last' = (last + Len(chunk)) % FifoSize
  /\ avail' = (avail - Len(chunk)) % SizeT
  /\ out' = SubSeq(out, n + 1, Len(out))
  /\ mixing' = IF n = Len(out) THEN "no" ELSE "write"
  /\ UNCHANGED <<core, seen, tries, first, device, have, history>>

-----------------------------------------------------------------------------
(* Application::s_audioCallback, while a game runs: it asks how much there *)
(* is, then takes what the device wants or, if that is more, what there    *)
(* was, and pads the rest with silence.                                    *)

DeviceLooks ==
  /\ device = "asleep"
  /\ device' = "looked"
  /\ have' = Occupied % SizeT
  /\ late' = FALSE
  /\ UNCHANGED <<core, mix, fifo, torn>>

DeviceReads ==
  /\ device = "looked"
  /\ device' = "asleep"
  /\ first' = (first + Wanted) % FifoSize
  /\ avail' = (avail + Wanted) % SizeT
  /\ late' = FALSE
  /\ torn' = (torn \/ Wanted > Occupied)
  /\ UNCHANGED <<core, mix, ring, last, have>>

-----------------------------------------------------------------------------
MixStep == MixBegins \/ Decide \/ Wait \/ WaitEnds \/ Flush \/ Write

Next ==
  \/ \E b, g \in BOOLEAN: StepBegins(b, g)
  \/ \E n \in 1..MaxBatch: BatchCallback(n)
  \/ SampleCallback \/ StepEnds
  \/ MixStep
  \/ DeviceLooks \/ DeviceReads

Spec == Init /\ [][Next]_vars

(* The main thread runs, and a callback of the audio thread returns; the   *)
(* device need not ever ask for sound.                                     *)
FairSpec == Spec /\ WF_vars(MixStep) /\ WF_vars(DeviceReads)

-----------------------------------------------------------------------------
(* The ring's two indices and its count, each updated by both threads,     *)
(* agree.                                                                  *)
IndicesAgree == (first + Occupied) % FifoSize = last

(* A write never runs into samples the device has not taken, though mix    *)
(* checks once and writes in pieces later.                                 *)
WriteFits == mixing = "write" => Needed <= avail

(* "Audio hardware requested %d bytes, only %zu available", Application:   *)
(* what the callback saw in the Fifo is there when it reads, unless mix    *)
(* emptied the Fifo in between.                                            *)
ReadsWhatIsThere == device = "looked" /\ have > Occupied => late

(* So the ring stays sound between the two threads, until a reset meets a  *)
(* read: no sample is overwritten before it was played, none is played     *)
(* that was not written.                                                   *)
RingIsSound == torn \/ (IndicesAgree /\ WriteFits /\ ReadsWhatIsThere)

(* mix returns, whether or not the device ever plays anything.             *)
MixReturns == (mixing # "no") ~> (mixing = "no")

(* What is in the Fifo, oldest first, and everything that is to follow it. *)
Queued == [i \in 1..Occupied |-> ring[(first + i - 1) % FifoSize]]

(* A callback passes at most two lots of frames to mix.                    *)
InOne(lots) == IF lots = <<>> THEN <<>>
               ELSE IF Len(lots) = 1 THEN lots[1]
               ELSE lots[1] \o lots[2]

Pending == out \o InOne(toMix) \o samples
Unheard == Queued \o Expand(Pending)
MayLose == ~blocking \/ ~generating \/ (mixing = "wait" /\ tries = 1)

Stream == INSTANCE AudioStream WITH stream <- Unheard, lossy <- MayLose, broken <- torn

(* The path keeps the promise of AudioStream.                              *)
KeepsPromise == Stream!Spec

-----------------------------------------------------------------------------
(* What the Fifo's mutex is for, and reset does not take: that its count   *)
(* always fits its indices.  It fails when the device comes back in the    *)
(* moment in which mix gives it up.                                        *)
NeverTorn == ~torn
=============================================================================
