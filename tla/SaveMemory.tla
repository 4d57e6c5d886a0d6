----------------------------- MODULE SaveMemory -----------------------------
(***************************************************************************)
(* The battery-backed memory of a game (States.cpp, SRAM), and the file it *)
(* is kept in between sessions.  Where the file lies is a setting; a game  *)
(* whose file lies where the setting was before may have it moved.  The    *)
(* settings themselves are saved only when the program exits, so a crash   *)
(* takes them back.  One core and one system; a file is as long as the     *)
(* core's memory; files are written and moved as a whole.                  *)
(***************************************************************************)
EXTENDS Naturals

CONSTANTS
  Games,     \* the names of the games' files, one game each
  Contents,  \* what the memory may contain
  Blank,     \* what it contains in a game that has no file
  Locations, \* the choices of _sramPaths, by their index
  Nothing    \* no game, no file, no copy

ASSUME BlankAssumption     == Blank \in Contents
ASSUME NothingAssumption   == Nothing \notin Contents \cup Games
ASSUME LocationsAssumption == Locations \subseteq Nat

VARIABLES
  game,      \* States::_gameFileName
  playing,   \* the core has a game
  memory,    \* its RETRO_MEMORY_SAVE_RAM
  copy,      \* States::_lastSaveData
  interval,  \* States::_saveInterval is not 0
  location,  \* States::_sramPath
  config,    \* the settings as saveConfiguration left them
  files,     \* what the .sram file of a game contains, in each location
  (* What the user knows, for the properties.                              *)
  kept,      \* the memory each game was left or periodically saved with
  declined   \* games whose file the user once refused to have moved

settings == <<interval, location>>
vars == <<game, playing, memory, copy, settings, config, files, kept, declined>>

File == Contents \cup {Nothing}

TypeOK ==
  /\ game \in Games \cup {Nothing} /\ playing \in BOOLEAN
  /\ memory \in Contents /\ copy \in File
  /\ interval \in BOOLEAN /\ location \in Locations
  /\ config \in [interval: BOOLEAN, location: Locations]
  /\ files \in [Games -> [Locations -> File]]
  /\ kept \in [Games -> File] /\ declined \subseteq Games

Init ==
  /\ game = Nothing /\ playing = FALSE /\ memory = Blank /\ copy = Nothing
  /\ interval \in BOOLEAN /\ location \in Locations
  /\ config = [interval |-> interval, location |-> location]
  /\ files = [g \in Games |-> [l \in Locations |-> Nothing]]
  /\ kept = [g \in Games |-> Nothing] /\ declined = {}

-----------------------------------------------------------------------------
(* States::setGame frees the copy.  Mutant: it does not.                   *)
NotFreed == copy
Freed == Nothing

SetGame(g) == game' = g /\ copy' = Freed

(* States::loadSRAM, after setGame.                                        *)
LoadSRAM(file) ==
  /\ memory' = IF file = Nothing THEN Blank ELSE file
  /\ copy' = IF interval /\ file # Nothing THEN file ELSE Freed

(* States::saveSRAM: the memory becomes the file in the present location.  *)
SaveSRAM(g) ==
  /\ files' = [files EXCEPT ![g][location] = memory]
  /\ kept' = [kept EXCEPT ![g] = memory]

Found(g) == files[g][location] # Nothing

(* migrateFiles moves the file from the first of the locations that has it.*)
FirstElsewhere(g, l) ==
  /\ ~Found(g) /\ files[g][l] # Nothing
  /\ \A k \in Locations: k < l => files[g][k] = Nothing

-----------------------------------------------------------------------------
(* Application::loadGame names the game before the core gets it, and does  *)
(* not take that back when the core refuses it.                            *)
LoadFails(g) ==
  /\ ~playing
  /\ SetGame(g)
  /\ UNCHANGED <<playing, memory, settings, config, files, kept, declined>>

Starting(g) ==
  /\ ~playing
  /\ game' = g /\ playing' = TRUE
  /\ UNCHANGED <<settings, config, kept>>

(* The game has its file in place, or none anywhere.                       *)
LoadGame(g) ==
  /\ Starting(g)
  /\ Found(g) \/ \A l \in Locations: files[g][l] = Nothing
  /\ LoadSRAM(files[g][location])
  /\ UNCHANGED <<files, declined>>

(* Mutant: the file is copied.                                             *)
LoadGameCopying(g) ==
  \E l \in Locations:
    /\ Starting(g) /\ FirstElsewhere(g, l)
    /\ LoadSRAM(files[g][l])
    /\ files' = [files EXCEPT ![g][location] = files[g][l]]
    /\ UNCHANGED declined

(* "Found SRAM data in ... Move to ...?" answered with yes, and with no.   *)
LoadGameMoving(g) ==
  \E l \in Locations:
    /\ Starting(g) /\ FirstElsewhere(g, l)
    /\ LoadSRAM(files[g][l])
    /\ files' = [files EXCEPT ![g][location] = files[g][l], ![g][l] = Nothing]
    /\ UNCHANGED declined

LoadGameDeclining(g) ==
  \E l \in Locations:
    /\ Starting(g) /\ FirstElsewhere(g, l)
    /\ LoadSRAM(Nothing)
    /\ declined' = declined \cup {g}
    /\ UNCHANGED files

(* The game writes to its memory, or a save state is loaded.               *)
Play ==
  /\ playing
  /\ memory' \in Contents
  /\ UNCHANGED <<game, playing, copy, settings, config, files, kept, declined>>

(* States::periodicSaveSRAM, once its interval is over.                    *)
PeriodicSave ==
  /\ playing /\ interval
  /\ copy # memory
  /\ copy' = memory
  /\ SaveSRAM(game)
  /\ UNCHANGED <<game, playing, memory, settings, config, declined>>

(* Application::unloadGame saves the memory first.  In the next three the  *)
(* core gives up its memory.                                               *)
UnloadGame ==
  /\ playing
  /\ SaveSRAM(game)
  /\ SetGame(Nothing)
  /\ playing' = FALSE /\ memory' = Blank
  /\ UNCHANGED <<settings, config, declined>>

(* Application::loadCore, which the Fsm calls only without a game.         *)
LoadCore ==
  /\ ~playing
  /\ SetGame(Nothing)
  /\ UNCHANGED <<playing, memory, settings, config, files, kept, declined>>

(* States::showDialog looks at the name, not at what the core has.         *)
ShowDialog ==
  /\ game = Nothing
  /\ interval' \in BOOLEAN /\ location' \in Locations
  /\ UNCHANGED <<game, playing, memory, copy, config, files, kept, declined>>

(* A new process has no game, and the settings the configuration has.      *)
NewProcess ==
  /\ game' = Nothing /\ playing' = FALSE /\ memory' = Blank /\ copy' = Nothing
  /\ interval' = config'.interval /\ location' = config'.location
  /\ UNCHANGED <<files, kept, declined>>

(* Fsm::quit unloads the game before Application::destroy.                 *)
Exit ==
  /\ ~playing
  /\ config' = [interval |-> interval, location |-> location]
  /\ NewProcess

Crash == UNCHANGED config /\ NewProcess

Next ==
  \/ \E g \in Games: \/ LoadFails(g) \/ LoadGame(g)
                     \/ LoadGameMoving(g) \/ LoadGameDeclining(g)
  \/ Play \/ PeriodicSave \/ UnloadGame \/ LoadCore \/ ShowDialog
  \/ Exit \/ Crash

Spec == Init /\ [][Next]_vars

-----------------------------------------------------------------------------
(* periodicSaveSRAM compares the memory with the copy instead of the file, *)
(* and writes nothing when they are equal.  So the copy is never anything  *)
(* but what the file of this game, where it is kept now, contains.         *)
CopyIsFile == playing /\ copy # Nothing => files[game][location] = copy

(* A game begins with the memory it was left with, or last saved with      *)
(* before a crash, wherever the settings had the file then, unless its     *)
(* user refused to have it moved; and with a blank one the first time.     *)
BeginsWhereItEnded ==
  [][\A g \in Games \ declined':
       ~playing /\ playing' /\ game' = g =>
         memory' = IF kept[g] = Nothing THEN Blank ELSE kept[g]]_vars
=============================================================================
