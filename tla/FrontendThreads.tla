--------------------------- MODULE FrontendThreads ---------------------------
(***************************************************************************)
(* Frontend with the second thread that writes Fsm::__state: SDL's audio   *)
(* thread.  Its callback looks at the state and at _processingEvents once, *)
(* at its start, and much later may call pauseForBadPerformance, which     *)
(* reads the state and writes it in two further steps.  Nothing locks.     *)
(***************************************************************************)
EXTENDS Frontend

VARIABLES
  loop,   \* where the main thread is: processing the events of run, those
          \* of runSmoothed (_processingEvents is set), or running a frame
  audio   \* where the audio thread is

threads == <<loop, audio>>
allVars == <<vars, threads>>

ThreadsTypeOK ==
  /\ TypeOK
  /\ loop \in {"run", "smoothed", "frame"}
  /\ audio \in {"asleep", "callback", "pausing"}

ThreadsInit == Init /\ loop = "run" /\ audio = "asleep"

-----------------------------------------------------------------------------
(* The main thread.                                                        *)

ProcessingEvents == loop = "smoothed"

(* The handlers of the events, in either loop.                             *)
HandleEvent == loop # "frame" /\ (Continue \/ Input) /\ UNCHANGED threads

(* run: the frame of a frame step, or on into runSmoothed.                 *)
StepFrame == loop = "run" /\ fsm = "FrameStep" /\ RunFrame /\ UNCHANGED threads

EnterRunSmoothed ==
  /\ loop = "run" /\ Idle
  /\ fsm = "GameRunning"
  /\ loop' = "smoothed"
  /\ UNCHANGED <<vars, audio>>

(* runSmoothed: no event is left, so a frame follows, or it returns.       *)
EventsDone ==
  /\ loop = "smoothed"
  /\ todo = <<>> /\ doing = "nothing"
  /\ loop' = IF fsm = "GameRunning" THEN "frame" ELSE "run"
  /\ UNCHANGED <<vars, audio>>

(* The frame, after which the game may be found too slow.  The state is    *)
(* not looked at before the core runs.                                     *)
SmoothedFrame ==
  /\ loop = "frame"
  /\ loop' = "smoothed"
  /\ UNCHANGED <<todo, handler, doing, content, achievements, system, console,
                 audio>>
  /\ UseGame("run") /\ DeclareAnew
  /\ fsm' \in {fsm} \cup IF hardcore THEN {FsmPauseGame(fsm)} ELSE {}

-----------------------------------------------------------------------------
(* The audio thread.                                                       *)

AudioOnly == UNCHANGED <<todo, handler, doing, content, settings, achievements,
                         system, console, coreVars, loop>>

(* s_audioCallback begins: a game runs, and no events are being processed. *)
AudioCallback ==
  /\ audio = "asleep"
  /\ fsm = "GameRunning" /\ ~ProcessingEvents
  /\ audio' = "callback"
  /\ UNCHANGED fsm /\ AudioOnly

(* It was the last of too many faults: pauseForBadPerformance asks whether *)
(* hardcore is on, and Fsm::pauseGame reads the state; or it was not.      *)
AudioFault ==
  /\ audio = "callback"
  /\ audio' \in {"asleep"} \cup
       IF hardcore /\ FsmPauseGame(fsm) # fsm THEN {"pausing"} ELSE {}
  /\ UNCHANGED fsm /\ AudioOnly

(* Fsm::pauseGame writes the state.                                        *)
AudioPause ==
  /\ audio = "pausing"
  /\ audio' = "asleep"
  /\ fsm' = "GamePaused"
  /\ AudioOnly

ThreadsNext ==
  \/ HandleEvent \/ StepFrame \/ EnterRunSmoothed \/ EventsDone
  \/ SmoothedFrame
  \/ AudioCallback \/ AudioFault \/ AudioPause

ThreadsSpec == ThreadsInit /\ [][ThreadsNext]_allVars

-----------------------------------------------------------------------------
(* "Return whether a game has been loaded.  Should return FALSE if no ROM  *)
(* is loaded, or a ROM has been unloaded", RA_Implementation.cpp.          *)
GameIsActiveMeansLoaded == IsGameActive => lib.state = "playing"
=============================================================================
