---------------------------- MODULE Declarations ----------------------------
(* What a core declares of itself through the environment callback, and what *)
(* Core.cpp, Config and Input keep of it: copies in an arena that is emptied *)
(* when the next core is loaded, functions of the core's library, which is   *)
(* closed when the core is unloaded, and plain values.  And how the content  *)
(* of a game is then given to the core: as a path, or read into memory.      *)
(* Space is counted in units, one for a copied text or element.              *)
EXTENDS Integers, Sequences, FiniteSets

CONSTANTS
  Systems,      \* bound: what cores say, [fullPath, zips, blocks]; see SystemInfo
  Overrides,    \* bound: content overrides, sequences of [of, fullPath, persistent]
  Declared,     \* bound: what cores declare
  Counts,       \* bound: how many of a thing are declared at once
  Extensions,   \* bound: the types of files
  Room,         \* the arena: what is left of it after path, samples and names
  MaxLoads,     \* bound on the cores loaded
  Nothing       \* nothing declared, no content given

VARIABLES
  state,   \* "closed", "core": retro_init was called, "game": a game was loaded
  load,    \* how many cores were loaded; the arena was emptied as often
  room,    \* Allocator::_head: the space that is left
  kept,    \* what is kept of each kind: whose it is, how many, how many are there
  info,    \* Core::_systemInfo
  asked,   \* for the properties: the overrides as the core declared them
  given    \* for the properties: the content given to the core last

vars == <<state, load, room, kept, info, asked, given>>

(* Copies in the arena; functions of the library; values.                    *)
Copies    == {"path", "samples", "names", "descriptors", "subsystems", "controllers", "ports",
              "descriptorsOfMemory", "override"}
Functions == {"hardwareRender", "diskControl", "keyboard"}
Values    == {"pixelFormat", "performanceLevel", "supportsNoGame", "achievements", "calls"}
Items     == Copies \cup Functions \cup Values \cup {"updateDisplay"}

Own(count, there) == [from |-> load, count |-> count, there |-> there]

-----------------------------------------------------------------------------
(* Core::reset.  Config keeps its function: Config::reset does not know it.  *)
(* Mutant: the function that renders is kept, too.                           *)
ResetButRender(k) ==
  [i \in Items |-> IF i \in {"updateDisplay", "hardwareRender"} THEN k[i] ELSE Nothing]
Reset(k) == [i \in Items |-> IF i = "updateDisplay" THEN k[i] ELSE Nothing]

(* Application::loadCore: Config and Input are reset, then Core::init,       *)
(* Core::loadCore and Core::initCore.  Where there is no library the path    *)
(* and the samples are kept.                                                 *)
LoadCore(opens, system) ==
  LET fresh == [from |-> load + 1, count |-> 1, there |-> 1]
      first == IF opens THEN {"path", "samples", "names"} ELSE {"path", "samples"}
  IN /\ state = "closed" /\ load < MaxLoads
     /\ load' = load + 1
     /\ room' = Room
     /\ kept' = [i \in Items |-> IF i \in first THEN fresh ELSE Reset(kept)[i]]
     /\ info' = IF opens THEN system ELSE Nothing
     /\ state' = IF opens THEN "core" ELSE "closed"
     /\ asked' = <<>> /\ given' = Nothing

(* Allocator::allocate, of several things one after the other: how much      *)
(* there was room for.  A text may fit where a list did not.                 *)
Fitting(sizes) ==
  LET Left[n \in 0..Len(sizes)] ==
        IF n = 0 THEN room
        ELSE IF sizes[n] <= Left[n - 1] THEN Left[n - 1] - sizes[n] ELSE Left[n - 1]
  IN [left |-> Left[Len(sizes)],
      fits |-> {n \in DOMAIN sizes : sizes[n] <= Left[n - 1]}]

Unchanged == UNCHANGED <<state, load, info, given>>

(* setInputDescriptors, setSubsystemInfo, setControllerInfo: the number is   *)
(* set first; a list there is no room for is gone.  Its texts follow.        *)
SetList(item, count) ==
  LET got == Fitting(<<count, count>>)
      there == IF 1 \in got.fits THEN count ELSE 0
  IN /\ room' = IF there = 0 THEN room ELSE got.left
     /\ kept' = [kept EXCEPT ![item] = Own(count, there)]

(* Core::setControllerInfo: both lists are asked for before either is looked *)
(* at.                                                                       *)
SetControllerInfo(count) ==
  LET got == Fitting(<<count, count>>)
      there == [n \in {1, 2} |-> IF n \in got.fits THEN count ELSE 0]
  IN /\ room' = got.left
     /\ kept' = [kept EXCEPT !["controllers"] = Own(count, there[1]),
                             !["ports"] = Own(count, there[2])]

(* Core::setMemoryMaps: without room the list is still the former one.       *)
SetMemoryMaps(count) ==
  LET former == kept["descriptorsOfMemory"]
  IN IF count <= room
       THEN /\ room' = room - count
            /\ kept' = [kept EXCEPT !["descriptorsOfMemory"] = Own(count, count)]
       ELSE /\ kept' = [kept EXCEPT !["descriptorsOfMemory"] =
                          Own(count, IF former = Nothing THEN 0 ELSE former.there)]
            /\ UNCHANGED room

(* Core::setContentInfoOverride copies one element.                          *)
SetContentInfoOverride(override) ==
  LET got == Fitting(<<1, 1>>)
  IN /\ asked' = override
     /\ room' = IF 1 \in got.fits THEN got.left ELSE room
     /\ kept' = [kept EXCEPT !["override"] =
                   IF 1 \in got.fits THEN Own(1, Cardinality(got.fits)) ELSE Nothing]

(* The calls that keep a function or a value, or note that they were made.   *)
(* A core may take back its disks and its keyboard.                          *)
SetValue(item) ==
  /\ kept' = [kept EXCEPT ![item] = Own(1, 1)]
  /\ UNCHANGED <<room, asked>>
TakeBack(item) ==
  /\ kept' = [kept EXCEPT ![item] = Nothing]
  /\ UNCHANGED <<room, asked>>

(* Core::environmentCallback, while the core starts, loads a game or runs.   *)
EnvironmentCallback ==
  /\ state # "closed"
  /\ \/ \E count \in Counts :
          /\ \/ \E item \in Declared \cap {"descriptors", "subsystems"} : SetList(item, count)
             \/ "controllers" \in Declared /\ SetControllerInfo(count)
             \/ "descriptorsOfMemory" \in Declared /\ SetMemoryMaps(count)
          /\ UNCHANGED asked
     \/ state = "core" /\ \E override \in Overrides : SetContentInfoOverride(override)
     \/ \E item \in Declared \cap (Functions \cup Values \cup {"updateDisplay"}) : SetValue(item)
     \/ \E item \in Declared \cap {"diskControl", "keyboard"} : TakeBack(item)
  /\ Unchanged

-----------------------------------------------------------------------------
(* Core::getNeedsFullPath and Core::getPersistData.                          *)
Overridden(ext) == kept["override"] # Nothing /\ ext \in asked[1].of
NeedsFullPath(ext) ==
  IF Overridden(ext) THEN asked[1].fullPath ELSE ext \in {"m3u", "cue"} \/ info.fullPath
PersistData(ext) == Overridden(ext) /\ asked[1].persistent

(* What Application::loadGame gives the core of a file, or of the one file   *)
(* in an archive: a path to it or its data, or a path to the archive.  A     *)
(* core that wants paths has archives extracted, unless it reads them.       *)
Content(ext, zipped) ==
  IF zipped /\ info.fullPath /\ info.blocks THEN "archive"
  ELSE IF zipped /\ ~info.fullPath /\ NeedsFullPath(ext) THEN "archive"
  ELSE IF NeedsFullPath(ext) THEN "path"
  ELSE "data"

(* Core::loadGame.  A refusal ends the core: reset, then Fsm::unloadCore.    *)
LoadGame(ext, zipped, accepts) ==
  /\ state = "core"
  /\ zipped /\ info.fullPath => info.zips
  /\ given' = LET by == Content(ext, zipped)
              IN [ext |-> ext, zipped |-> zipped, by |-> by,
                  stays |-> by # "data" \/ PersistData(ext)]
  /\ state' = IF accepts THEN "game" ELSE "closed"
  /\ kept' = IF accepts THEN kept ELSE Reset(kept)
  /\ info' = IF accepts THEN info ELSE Nothing
  /\ UNCHANGED <<load, room, asked>>

UnloadGame ==
  /\ state = "game"
  /\ state' = "core" /\ given' = Nothing
  /\ UNCHANGED <<load, room, kept, info, asked>>

(* Application::unloadCore: Core::destroy.                                   *)
UnloadCore ==
  /\ state = "core"
  /\ state' = "closed" /\ info' = Nothing /\ given' = Nothing
  /\ kept' = Reset(kept)
  /\ UNCHANGED <<load, room, asked>>

Init ==
  /\ state = "closed" /\ load = 0 /\ room = Room
  /\ kept = [i \in Items |-> Nothing]
  /\ info = Nothing /\ asked = <<>> /\ given = Nothing

Next ==
  \/ \E opens \in BOOLEAN, system \in Systems : LoadCore(opens, system)
  \/ EnvironmentCallback
  \/ \E ext \in Extensions, zipped, accepts \in BOOLEAN : LoadGame(ext, zipped, accepts)
  \/ UnloadGame
  \/ UnloadCore

Spec == Init /\ [][Next]_vars

-----------------------------------------------------------------------------
(* Nothing outlives its core: no copy lies in an arena that was emptied      *)
(* since, no function is one of a library that was closed, and no value was  *)
(* another core's, however loading, refusing and unloading follow each other *)
(* and whenever the core declares.                                           *)
KeepsOnlyOwn ==
  \A i \in Items \ {"updateDisplay"} : kept[i] # Nothing =>
    /\ kept[i].from = load
    /\ state = "closed" => i \in {"path", "samples"}

(* The same of the function Config calls when its dialog is closed.          *)
ForgetsUpdateDisplay ==
  kept["updateDisplay"] # Nothing => kept["updateDisplay"].from = load /\ state # "closed"

(* libretro.h lets descriptors be declared "at any time": as many are there  *)
(* as the number says.                                                       *)
CountsHaveMemory == \A i \in Items : kept[i] # Nothing => kept[i].there >= kept[i].count

(* libretro.h: "'data' points to an array", so the content is given as the   *)
(* first element that names its type asks.                                   *)
ContentIsGivenAsAsked ==
  LET Naming == {n \in DOMAIN asked : given.ext \in asked[n].of}
  IN given # Nothing /\ ~given.zipped /\ kept["override"] # Nothing =>
       \A n \in Naming : (\A m \in Naming : n <= m) =>
         given.by = IF asked[n].fullPath THEN "path" ELSE "data"
=============================================================================
