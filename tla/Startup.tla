------------------------------ MODULE Startup ------------------------------
(* How the program begins and ends: Application::init makes its parts one    *)
(* after the other and undoes what was made when one fails; main then takes  *)
(* the arguments, runs, and destroys.  SDL's audio thread calls back from    *)
(* the moment the device is let play until it is closed.  A part is there    *)
(* when it holds something of the system: memory, a thread, a window.        *)
EXTENDS Integers, Sequences, SequencesExt

CONSTANTS
  MayFail     \* bound: the steps of init that may fail; see Steps

VARIABLES
  phase,      \* "init", "undo", "arguments", "run", "destroy", "ended"
  at,         \* the step of init, or the case of the switch, that is next
  inited,     \* Application::init: how far it came
  there,      \* the parts that hold something
  playing,    \* the device plays: the audio thread calls back
  game,       \* the Fsm says GameRunning
  ok,         \* main's: init and the arguments succeeded
  saved,      \* saveConfiguration was called
  ending,     \* for the properties: how the program came to its end
  harm        \* for the properties: what was done to what was not there

vars == <<phase, at, inited, there, playing, game, ok, saved, ending, harm>>

-----------------------------------------------------------------------------
(* Application::init, step by step: what it makes, and what it then notes.   *)
Made(part, notes) == [part |-> part, notes |-> notes]
Steps ==
  <<Made("logger", "kLoggerInited"), Made("config", "kConfigInited"),
    Made("allocator", "kAllocatorInited"), Made("sdl", "kSdlInited"),
    Made("keybinds", "kKeyBindsInited"), Made("library", "kKeyBindsInited"),
    Made("window", "kKeyBindsInited"), Made("menu", "kWindowInited"),
    Made("device", "kAudioDeviceInited"), Made("fifo", "kFifoInited"),
    Made("audio", "kAudioInited"), Made("input", "kInputInited"),
    Made("context", "kVideoContextInited"), Made("gl", "kGlInited"),
    Made("video", "kVideoInited"), Made("cores", "kVideoInited")>>

(* Parts that hold nothing, or nothing yet, when they have been made.        *)
Holds(part) == part \notin {"config", "allocator", "keybinds", "audio", "menu", "context",
                            "gl", "cores", "microphone"}

(* The switch of the error path: from the case of what was noted last, one   *)
(* falls through to the next.                                                *)
CaseOf(notes, parts) == [of |-> notes, parts |-> parts]
(* Mutant: the fifo is not in it.                                            *)
UndoWithoutFifo ==
  <<CaseOf("kVideoInited", <<"video">>), CaseOf("kGlInited", <<>>),
    CaseOf("kVideoContextInited", <<"context">>), CaseOf("kInputInited", <<"input">>),
    CaseOf("kAudioInited", <<"audio">>), CaseOf("kFifoInited", <<>>),
    CaseOf("kAudioDeviceInited", <<"microphone", "device">>),
    CaseOf("kWindowInited", <<"window">>), CaseOf("kKeyBindsInited", <<"keybinds">>),
    CaseOf("kSdlInited", <<"sdl">>), CaseOf("kAllocatorInited", <<"allocator">>),
    CaseOf("kConfigInited", <<"config">>), CaseOf("kLoggerInited", <<"logger">>),
    CaseOf("kNothingInited", <<>>)>>

Undo ==
  <<CaseOf("kVideoInited", <<"video">>), CaseOf("kGlInited", <<>>),
    CaseOf("kVideoContextInited", <<"context">>), CaseOf("kInputInited", <<"input">>),
    CaseOf("kAudioInited", <<"audio">>), CaseOf("kFifoInited", <<"fifo">>),
    CaseOf("kAudioDeviceInited", <<"microphone", "device">>),
    CaseOf("kWindowInited", <<"window">>), CaseOf("kKeyBindsInited", <<"keybinds">>),
    CaseOf("kSdlInited", <<"sdl">>), CaseOf("kAllocatorInited", <<"allocator">>),
    CaseOf("kConfigInited", <<"config">>), CaseOf("kLoggerInited", <<"logger">>),
    CaseOf("kNothingInited", <<>>)>>
Case(notes) == CHOOSE c \in DOMAIN Undo : Undo[c].of = notes

(* SDL_Quit takes windows, devices and the library with it.                  *)
OfSdl == {"sdl", "window", "device", "library"}
Destroyed(parts) ==
  LET gone == ToSet(parts) \cup (IF "sdl" \in ToSet(parts) THEN OfSdl ELSE {})
  IN /\ there' = there \ gone
     /\ playing' = (playing /\ "device" \notin gone)
     /\ harm' = harm \cup {p \in ToSet(parts) : Holds(p) /\ p \notin there}

InitStep ==
  LET step == Steps[at]
  IN /\ phase = "init"
     /\ \/ /\ there' = there \cup (IF Holds(step.part) THEN {step.part} ELSE {})
           /\ inited' = step.notes
           /\ playing' = (playing \/ step.part = "fifo")
           /\ phase' = IF at = Len(Steps) THEN "arguments" ELSE "init"
           /\ at' = at + 1
           /\ UNCHANGED <<ok, ending>>
        \/ /\ step.part \in MayFail
           /\ phase' = "undo" /\ at' = Case(inited)
           /\ ok' = FALSE /\ ending' = "failed"
           /\ UNCHANGED <<there, inited, playing>>
     /\ UNCHANGED <<game, saved, harm>>

(* goto error                                                                *)
UndoStep ==
  /\ phase = "undo"
  /\ Destroyed(Undo[at].parts)
  /\ phase' = IF at = Len(Undo) THEN "arguments" ELSE "undo"
  /\ at' = at + 1
  /\ UNCHANGED <<inited, game, ok, saved, ending>>

(* main looks at the arguments whether init succeeded or not: without them   *)
(* there is nothing to do; with them a game is loaded, or not.  Only then it *)
(* looks at what both returned.  Arguments after a failed init, whose parts  *)
(* are gone, are left out: what follows is undefined.                        *)
HandleArgs ==
  /\ phase = "arguments"
  /\ \/ /\ phase' = IF ok THEN "run" ELSE "ended"
        /\ UNCHANGED <<ok, game, ending>>
     \/ /\ ok /\ phase' = "run" /\ game' = TRUE
        /\ UNCHANGED <<ok, ending>>
     \/ /\ ok /\ ok' = FALSE /\ ending' = "arguments" /\ phase' = "ended"
        /\ UNCHANGED game
  /\ UNCHANGED <<at, inited, there, playing, saved, harm>>

(* Application::run: games are loaded and unloaded; Quit ends them; run      *)
(* returns as well when it catches an exception, whatever is going on.       *)
PlayGame ==
  /\ phase = "run" /\ game' = ~game
  /\ UNCHANGED <<phase, at, inited, there, playing, ok, saved, ending, harm>>
RunReturns(how) ==
  /\ phase = "run" /\ (how = "quit" => ~game)
  /\ phase' = "destroy" /\ at' = 1 /\ ending' = how
  /\ UNCHANGED <<inited, there, playing, game, ok, saved, harm>>

(* Application::destroy                                                      *)
Order == <<"save", "video", "keybinds", "input", "config", "microphone", "audio", "fifo",
           "device", "window", "sdl", "allocator", "logger">>
DestroyStep ==
  /\ phase = "destroy"
  /\ IF Order[at] = "save" THEN saved' = TRUE /\ UNCHANGED <<there, playing, harm>>
                           ELSE Destroyed(<<Order[at]>>) /\ UNCHANGED saved
  /\ phase' = IF at = Len(Order) THEN "ended" ELSE "destroy"
  /\ at' = at + 1
  /\ UNCHANGED <<inited, game, ok, ending>>

(* Application::s_audioCallback: it reads the fifo of a game that runs.      *)
AudioCallback ==
  /\ playing /\ game /\ phase # "ended"
  /\ harm' = IF "fifo" \in there THEN harm ELSE harm \cup {"fifo read"}
  /\ UNCHANGED <<phase, at, inited, there, playing, game, ok, saved, ending>>

Init ==
  /\ phase = "init" /\ at = 1 /\ inited = "kNothingInited"
  /\ there = {} /\ playing = FALSE /\ game = FALSE /\ ok = TRUE /\ saved = FALSE
  /\ ending = "none" /\ harm = {}

Next ==
  \/ InitStep \/ UndoStep
  \/ HandleArgs
  \/ PlayGame
  \/ \E how \in {"quit", "exception"} : RunReturns(how)
  \/ DestroyStep
  \/ AudioCallback

Spec == Init /\ [][Next]_vars

-----------------------------------------------------------------------------
(* Wherever init fails, and however a run ends, what was made is undone,     *)
(* nothing that was not made or is gone already is, and the sound's thread   *)
(* finds the fifo as long as it calls; unless an exception ends the run.     *)
EndsClean ==
  /\ phase = "ended" /\ ending # "arguments" => there = {} /\ (ok => saved)
  /\ ending # "exception" => harm = {}

(* The same of arguments that are refused, and after an exception.           *)
AlwaysEndsClean ==
  /\ phase = "ended" => there = {}
  /\ harm = {}
=============================================================================
