------------------------------ MODULE Services ------------------------------
(* What surrounds a running core, part by part: one is picked at the start   *)
(* and runs, the others stay as they begin.  They share no state, so that    *)
(* what one of them promises alone it promises among the others, too.        *)
EXTENDS Integers, Sequences, FiniteSets

CONSTANTS
  Which,                       \* the parts that run
  Null, Undeclared,
  \* what the parts take as they are; see there
  RingSize, MaxLine, Base, Levels, Lengths, MaxLines,
  FifoSize, Batches, Requests, MaxWait, MaxSamples, SizeT,
  Maps, Bits, MaxBanks, MaxAttempts, Reloads,
  Geometries, Formats, Frames, Windows, FirstWindow, MaxEvents,
  Slots, Durations, MaxMessages, MaxDraws,
  Systems, Overrides, Declared, Counts, Extensions, Arena, MaxLoads,
  MayFail

(* The log's ring holds a line of the longest, whose length fits two bytes.  *)
ASSUME LogAssumption ==
  /\ RingSize \in Nat /\ MaxLine \in Nat /\ Base \in Nat \ {0}
  /\ 3 <= MaxLine /\ MaxLine <= RingSize /\ MaxLine - 3 < Base * Base
  /\ Levels \subseteq Nat /\ Lengths \subseteq Nat

(* Sizes and numbers are as C's are.                                         *)
ASSUME MicrophoneAssumption ==
  /\ FifoSize \in Nat /\ MaxWait \in Nat
  /\ SizeT \in Nat /\ FifoSize < SizeT
  /\ Batches \subseteq Nat /\ Requests \subseteq Nat

(* Of the pictures, the frames a core shows and the parts of its aspect      *)
(* ratio are not zero.                                                       *)
ASSUME PictureAssumption ==
  /\ FirstWindow \in Nat \X Nat /\ Windows \subseteq Nat \X Nat
  /\ Frames \subseteq (Nat \ {0}) \X (Nat \ {0})
  /\ Geometries \subseteq [base : Nat \X Nat, max : Nat \X Nat,
                           aspect : (Nat \ {0}) \X (Nat \ {0})]

(* There is room for more than one message, and each is shown for a while.   *)
ASSUME OverlayAssumption == Slots \in Nat /\ Slots > 1 /\ Durations \subseteq Nat \ {0}

VARIABLES
  which,
  buffer, avail, first, last, logged,
  open, enabled, paused, appPaused, fifo, free, callback, recorded, core, have, heard, off,
  late, torn, harm,
  shown, regions, firstRegion, banks, asked, attempts, active, known, got,
  video, drawn, av, sdl, events, frame, upright,
  mode, fast, show, ready, textures, messages, indicator, window, count, promised,
  state, load, room, kept, info, overrides, given,
  phase, step, inited, there, playing, game, ok, saved, ending, misused

logVars     == <<buffer, avail, first, last, logged>>
micVars     == <<open, enabled, paused, appPaused, fifo, free, callback, recorded, core, have,
                 heard, off, late, torn, harm>>
memoryVars  == <<shown, regions, firstRegion, banks, asked, attempts, active, known, got>>
videoVars   == <<video, drawn, av, sdl, events, frame, upright>>
overlayVars == <<mode, fast, show, ready, textures, messages, indicator, window, count, promised>>
coreVars    == <<state, load, room, kept, info, overrides, given>>
startVars   == <<phase, step, inited, there, playing, game, ok, saved, ending, misused>>
vars == <<which, logVars, micVars, memoryVars, videoVars, overlayVars, coreVars, startVars>>

-----------------------------------------------------------------------------
Log      == INSTANCE LogRing WITH Size <- RingSize
Mic      == INSTANCE Microphone WITH avail <- free
Memory   == INSTANCE MemoryMap
Screen   == INSTANCE Picture WITH core <- drawn
Messages == INSTANCE Overlay
Core     == INSTANCE Declarations WITH asked <- overrides, Room <- Arena, Nothing <- Undeclared
Program  == INSTANCE Startup WITH at <- step, harm <- misused

-----------------------------------------------------------------------------
Init ==
  /\ which \in Which
  /\ Log!Init /\ Mic!Init /\ Memory!Init /\ Screen!Init
  /\ Messages!Init /\ Core!Init /\ Program!Init

OthersStay ==
  /\ UNCHANGED which
  /\ IF which = "log"        THEN TRUE ELSE UNCHANGED logVars
  /\ IF which = "microphone" THEN TRUE ELSE UNCHANGED micVars
  /\ IF which = "memory"     THEN TRUE ELSE UNCHANGED memoryVars
  /\ IF which = "video"      THEN TRUE ELSE UNCHANGED videoVars
  /\ IF which = "overlay"    THEN TRUE ELSE UNCHANGED overlayVars
  /\ IF which = "core"       THEN TRUE ELSE UNCHANGED coreVars
  /\ IF which = "program"    THEN TRUE ELSE UNCHANGED startVars
Next ==
  \/ which = "log"        /\ OthersStay /\ Log!Next
  \/ which = "microphone" /\ OthersStay /\ Mic!Next
  \/ which = "memory"     /\ OthersStay /\ Memory!Next
  \/ which = "video"      /\ OthersStay /\ Screen!Next
  \/ which = "overlay"    /\ OthersStay /\ Messages!Next
  \/ which = "core"       /\ OthersStay /\ Core!Next
  \/ which = "program"    /\ OthersStay /\ Program!Next

Spec == Init /\ [][Next]_vars /\ Mic!Fairness

-----------------------------------------------------------------------------
LogShowsLatest   == which = "log" => Log!LogShowsLatest
HearsInOrder     == which = "microphone" => Mic!HearsInOrder
CallsReturn      == Mic!CallsReturn
ReadsTheCore     == which = "memory" => Memory!ReadsTheCore
PictureIsRight   == which = "video" => Screen!PictureIsCurrent /\ Screen!PointerHitsPixel
MessagesAreDrawn == which = "overlay" => Messages!MessagesAreDrawn
KeepsOnlyOwn     == which = "core" => Core!KeepsOnlyOwn
EndsClean        == which = "program" => Program!EndsClean
=============================================================================
