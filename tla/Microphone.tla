----------------------------- MODULE Microphone -----------------------------
(* The microphone a core may open (src/src/components/Microphone.cpp): SDL's *)
(* capture thread fills a Fifo from recordCallback, the core reads it.  SDL  *)
(* holds the device's lock during the callback, and takes it to pause, to    *)
(* start and to close the device.  The Fifo's own mutex is not held by       *)
(* reset, with which the callback empties it: that may come between the      *)
(* core's look at the Fifo and its read, or overlap the read.                *)
EXTENDS Integers, Sequences, SequencesExt

CONSTANTS
  FifoSize,     \* Fifo::_size, in samples
  Batches,      \* the samples a callback has after resampling
  Requests,     \* the samples the core asks for at once
  MaxWait,      \* MAX_WAIT, how often the callback looks for room
  MaxSamples,   \* bound: the samples recorded in all
  SizeT         \* a size_t counts samples modulo this

VARIABLES
  open,         \* Microphone::_data is not null
  enabled,      \* SDLData::enabled
  paused,       \* the device does not call back
  appPaused,    \* Application::isPaused
  fifo,         \* SDLData::fifo: the samples in it, numbered as recorded
  avail,        \* Fifo::_avail
  callback,     \* what the callback is at, has to write, and how long it waits
  recorded,     \* the samples recorded so far
  core,         \* what the core's thread is at
  have,         \* readMic: the samples it will take
  heard,        \* the latest sample the core read
  off,          \* recorded, when the microphone was last turned off
  late,         \* history: the Fifo was emptied since the core looked
  torn,         \* history: the Fifo's count does not fit its samples any more
  harm          \* what a call touched that is not there

ring    == <<fifo, avail, torn>>
reading == <<have, late>>
vars == <<open, enabled, paused, appPaused, ring, callback, recorded, core, reading,
          heard, off, harm>>
micVars == <<enabled, appPaused, ring, recorded, heard, off>>

Idle   == [at |-> "idle", out |-> <<>>, tries |-> 0]
Busy   == callback.at # "idle"
New(n) == [i \in 1..n |-> recorded + i]

-----------------------------------------------------------------------------
(* Microphone::recordCallback.  Nothing is kept of a microphone that is off  *)
(* or of a paused game.                                                      *)
RecordCallback(n) ==
  /\ open /\ ~paused /\ ~Busy
  /\ enabled /\ ~appPaused
  /\ recorded + n <= MaxSamples /\ recorded' = recorded + n
  /\ callback' = IF n <= avail
                   THEN [at |-> "writes", out |-> New(n), tries |-> 0]
                   ELSE [at |-> "waits", out |-> New(n), tries |-> MaxWait]
  /\ UNCHANGED <<open, enabled, paused, appPaused, ring, core, reading, heard, off, harm>>

(* The resampler cannot be made: the device pauses itself.                   *)
ResamplerFails ==
  /\ open /\ ~paused /\ ~Busy /\ enabled /\ ~appPaused
  /\ paused' = TRUE
  /\ UNCHANGED <<open, micVars, callback, core, reading, harm>>

Writing == [at |-> "writes", out |-> callback.out, tries |-> 0]

(* Mutant: the callback waits for room however long it takes.                *)
LookAgainForEver ==
  /\ callback.at = "waits" /\ (~enabled \/ Len(callback.out) <= avail)
  /\ callback' = IF enabled THEN Writing ELSE Idle
  /\ UNCHANGED <<open, paused, micVars, core, reading, harm>>

(* Fifo::reset, before or after whatever the core is at.                     *)
ResetAlone ==
  /\ fifo' = <<>> /\ avail' = FifoSize
  /\ torn' = (torn /\ core = "reads")
  /\ late' = (core = "reads")
  /\ UNCHANGED <<core, have, heard>>

(* Fifo::reset while Fifo::read holds the mutex: the count is left as the    *)
(* one or the other wrote it, and may not fit the indices that are left; if  *)
(* it does, the core has what it was to read.                                *)
ResetDuringRead ==
  /\ core = "reads" /\ core' = "idle"
  /\ fifo' = <<>>
  /\ avail' \in {FifoSize, (FifoSize + have) % SizeT, (avail + have) % SizeT}
  /\ torn' \in {TRUE, avail' # FifoSize}
  /\ heard' = IF torn' \/ have \notin 1..Len(fifo) THEN heard ELSE fifo[have]
  /\ have' = 0 /\ late' = FALSE

(* The callback looks again after a millisecond.  After the last look it     *)
(* empties the Fifo, without taking its mutex.                               *)
LookAgain ==
  /\ callback.at = "waits"
  /\ \/ /\ ~enabled
        /\ callback' = Idle
        /\ UNCHANGED <<ring, core, reading, heard>>
     \/ /\ enabled /\ Len(callback.out) <= avail
        /\ callback' = Writing
        /\ UNCHANGED <<ring, core, reading, heard>>
     \/ /\ enabled /\ Len(callback.out) > avail /\ callback.tries > 1
        /\ callback' = [callback EXCEPT !.tries = @ - 1]
        /\ UNCHANGED <<ring, core, reading, heard>>
     \/ /\ enabled /\ Len(callback.out) > avail /\ callback.tries = 1
        /\ callback' = [at |-> "emptied", out |-> callback.out, tries |-> 0]
        /\ ResetAlone \/ ResetDuringRead
  /\ UNCHANGED <<open, enabled, paused, appPaused, recorded, off, harm>>

(* What does not fit the empty Fifo is cut off.                              *)
CutToRoom ==
  /\ callback.at = "emptied"
  /\ callback' = [Writing EXCEPT !.out = IF Len(@) > avail THEN SubSeq(@, 1, avail) ELSE @]
  /\ UNCHANGED <<open, paused, micVars, core, reading, harm>>

(* Fifo::write                                                               *)
WriteOut ==
  /\ callback.at = "writes" /\ callback' = Idle
  /\ avail' = (avail - Len(callback.out)) % SizeT
  /\ fifo' = IF torn THEN <<>> ELSE fifo \o callback.out
  /\ UNCHANGED <<open, enabled, paused, appPaused, torn, recorded, core, reading, heard,
                 off, harm>>

CallbackGoesOn == LookAgain \/ CutToRoom \/ WriteOut

-----------------------------------------------------------------------------
(* The core's thread.                                                        *)

(* A Fifo just made, or reset while nobody writes it.                        *)
Emptied == fifo' = <<>> /\ avail' = FifoSize /\ torn' = FALSE

OpenMic ==
  /\ core = "idle" /\ ~open
  /\ open' = TRUE /\ enabled' = FALSE /\ paused' = TRUE
  /\ Emptied /\ off' = recorded
  /\ UNCHANGED <<appPaused, callback, recorded, core, reading, heard, harm>>

(* What takes the device's lock waits for the callback to end.               *)
Begin(call) ==
  /\ core = "idle" /\ open /\ core' = call
  /\ UNCHANGED <<open, micVars, paused, callback, reading, harm>>

(* Microphone::closeMic                                                      *)
CloseMic == Begin("closes")
MicCloses ==
  /\ core = "closes" /\ ~Busy
  /\ open' = FALSE /\ core' = "idle"
  /\ UNCHANGED <<micVars, paused, callback, reading, harm>>

(* A core may close the NULL that openMic gave it: the handle is compared    *)
(* with _data, which is NULL too when no microphone is open.                 *)
CloseNull ==
  /\ core = "idle" /\ ~open
  /\ harm' = "closed no microphone"
  /\ UNCHANGED <<open, micVars, paused, callback, core, reading>>

(* Microphone::setMicState.  The device may have been lost.                  *)
SetMicState(on) == Begin(IF on THEN "starts" ELSE "stops")

MicStarts ==
  /\ core = "starts" /\ ~Busy
  /\ core' = "idle"
  /\ \/ paused' = FALSE /\ enabled' = TRUE
     \/ UNCHANGED <<paused, enabled>>
  /\ UNCHANGED <<open, appPaused, ring, callback, recorded, reading, heard, off, harm>>

(* Mutant: what was recorded before stays in the Fifo.                       *)
MicStopsKeepingSound ==
  /\ core = "stops" /\ ~Busy
  /\ core' = "idle" /\ paused' = TRUE
  /\ enabled' = FALSE /\ off' = recorded
  /\ UNCHANGED <<open, appPaused, ring, callback, recorded, reading, heard, harm>>

MicStops ==
  /\ core = "stops" /\ ~Busy
  /\ core' = "idle"
  /\ paused' = TRUE
  /\ \/ enabled' = FALSE /\ Emptied /\ off' = recorded
     \/ UNCHANGED <<enabled, ring, off>>
  /\ UNCHANGED <<open, appPaused, callback, recorded, reading, heard, harm>>

(* Microphone::readMic: it looks what there is and takes as much.            *)
ReadMic(n) ==
  /\ core = "idle" /\ open /\ enabled
  /\ core' = "reads"
  /\ LET occupied == (FifoSize - avail) % SizeT
     IN  have' = IF occupied < n THEN occupied ELSE n
  /\ late' = FALSE
  /\ UNCHANGED <<open, micVars, paused, callback, harm>>

MicReads ==
  /\ core = "reads" /\ core' = "idle" /\ have' = 0 /\ late' = FALSE
  /\ avail' = (avail + have) % SizeT
  /\ torn' = (torn \/ have > Len(fifo))
  /\ IF torn' THEN fifo' = <<>> /\ UNCHANGED heard
              ELSE /\ fifo' = SubSeq(fifo, have + 1, Len(fifo))
                   /\ heard' = IF have = 0 THEN heard ELSE fifo[have]
  /\ UNCHANGED <<open, enabled, paused, appPaused, callback, recorded, off, harm>>

PauseApp ==
  /\ core = "idle" /\ appPaused' = ~appPaused
  /\ UNCHANGED <<open, enabled, paused, ring, callback, recorded, core, reading, heard,
                 off, harm>>

-----------------------------------------------------------------------------
Init ==
  /\ open = FALSE /\ enabled = FALSE /\ paused = TRUE /\ appPaused = FALSE
  /\ fifo = <<>> /\ avail = FifoSize /\ callback = Idle /\ recorded = 0
  /\ core = "idle" /\ have = 0 /\ heard = 0 /\ off = 0
  /\ late = FALSE /\ torn = FALSE /\ harm = "none"

CoreNext ==
  \/ OpenMic \/ CloseMic \/ CloseNull \/ MicCloses
  \/ (\E on \in BOOLEAN : SetMicState(on)) \/ MicStarts \/ MicStops
  \/ (\E n \in Requests : ReadMic(n)) \/ MicReads
  \/ PauseApp
Next ==
  \/ \E n \in Batches : RecordCallback(n)
  \/ ResamplerFails
  \/ CallbackGoesOn
  \/ CoreNext

(* A sleeping callback wakes up; a thread gets a lock that is let go again   *)
(* and again; what does not wait goes on.                                    *)
Fairness ==
  /\ WF_vars(CallbackGoesOn) /\ WF_vars(MicReads)
  /\ SF_vars(MicCloses) /\ SF_vars(MicStarts) /\ SF_vars(MicStops)

Spec == Init /\ [][Next]_vars /\ Fairness

-----------------------------------------------------------------------------
(* What the core reads was recorded since the microphone was last turned on, *)
(* in the order it was recorded and no sample twice, although the Fifo is    *)
(* emptied by both sides and written after a look at it; and it is there     *)
(* when it is read, unless the callback emptied the Fifo since the core      *)
(* looked.  So until a reset meets a read, and again after the next reset    *)
(* that meets none.                                                          *)
HearsInOrder ==
  open /\ ~torn =>
    /\ \A i \in 1..(Len(fifo) - 1) : fifo[i] < fifo[i + 1]
    /\ \A i \in 1..Len(fifo) : fifo[i] > heard /\ fifo[i] > off
    /\ Len(fifo) <= FifoSize /\ avail = FifoSize - Len(fifo)
    /\ Busy /\ fifo # <<>> /\ callback.out # <<>> => callback.out[1] > Last(fifo)
    /\ core = "reads" /\ have > Len(fifo) => late

(* A call that has to wait for the callback returns, although the callback   *)
(* may be waiting for the very thread that makes the call.                   *)
CallsReturn == core # "idle" ~> core = "idle"

(* What the Fifo's mutex is for, and reset does not take: its count always   *)
(* fits its samples.  It fails when the core comes back in the moment in     *)
(* which the callback gives it up.                                           *)
NeverTorn == ~torn

(* libretro.h says of close_mic that it does nothing when given NULL.        *)
ClosesOnlyOpenMic == harm # "closed no microphone"
=============================================================================
