----------------------------- MODULE SaveStates -----------------------------
(***************************************************************************)
(* The numbered save states of a game (States.cpp).  A slot's file is      *)
(* called game.state1, and was called game.001.state by earlier versions;  *)
(* both lie where a setting says, and when the setting has changed the     *)
(* program offers to move them.  Application lists the first slots in its  *)
(* menu and refuses to load those it does not list.  One game, core and    *)
(* system.  A file is written or deleted as a whole, and the moving of all *)
(* files is one step; a crash may come between the writing of a slot's new *)
(* file and the deletion of its old one.                                   *)
(***************************************************************************)
EXTENDS Naturals

CONSTANTS
  Slots,     \* the numbers of the states, 1 to 99 in the code
  Shown,     \* those in the menu, 1 to 10 in the code
  Contents,  \* what a state may contain
  Locations, \* the choices of _statePaths, by their index
  Nothing    \* no file, no slot

ASSUME ShownAssumption     == Shown \subseteq Slots
ASSUME NothingAssumption   == Nothing \notin Contents \cup Slots
ASSUME LocationsAssumption == Locations \subseteq Nat

VARIABLES
  stage,     \* States knows no game, its name, or one that is being played
  valid,     \* Application::_validSlots
  saving,    \* the slot written whose old file is still to be deleted
  location,  \* States::_statePath
  config,    \* the same, as saveConfiguration left it
  new, old,  \* the files of both formats, in each location and slot
  (* What the user knows, for the properties.                              *)
  latest,    \* what was saved last in each slot
  declined   \* moving the states was refused once

disk == <<new, old>>
vars == <<stage, valid, saving, location, config, disk, latest, declined>>

File  == Contents \cup {Nothing}
Files == [Locations -> [Slots -> File]]

TypeOK ==
  /\ stage \in {"none", "named", "playing"}
  /\ valid \subseteq Shown /\ saving \in Slots \cup {Nothing}
  /\ location \in Locations /\ config \in Locations
  /\ new \in Files /\ old \in Files
  /\ latest \in [Slots -> File] /\ declined \in BOOLEAN

(* An earlier version left states behind in one location.                  *)
Init ==
  /\ stage = "none" /\ valid = {} /\ saving = Nothing /\ declined = FALSE
  /\ location \in Locations /\ config = location
  /\ new = [l \in Locations |-> [n \in Slots |-> Nothing]]
  /\ latest \in [Slots -> File]
  /\ \E home \in Locations:
       old = [l \in Locations |->
                IF l = home THEN latest ELSE [n \in Slots |-> Nothing]]

-----------------------------------------------------------------------------
(* States::loadState takes the file of the new format if there is one.     *)
(* Mutant: that of the old one.                                            *)
StateAtOldFirst(l, n) == IF old[l][n] # Nothing THEN old[l][n] ELSE new[l][n]
StateAt(l, n)         == IF new[l][n] # Nothing THEN new[l][n] ELSE old[l][n]

Exists(l, n) == new[l][n] # Nothing \/ old[l][n] # Nothing
Lists(l)     == {n \in Shown: Exists(l, n)}

(* What Application::loadState loads from a slot.                          *)
Loads(n) == IF n \in Shown \ valid THEN Nothing ELSE StateAt(location, n)

(* migrateFiles takes the first of the locations that has a listed slot.   *)
FirstElsewhere(l) ==
  /\ Lists(location) = {} /\ Lists(l) # {}
  /\ \A k \in Locations: k < l => Lists(k) = {}

Moved(files, l) ==
  [files EXCEPT
     ![location] = [n \in Slots |-> IF n \in Shown /\ files[l][n] # Nothing
                                      THEN files[l][n] ELSE @[n]],
     ![l]        = [n \in Slots |-> IF n \in Shown THEN Nothing ELSE @[n]]]

-----------------------------------------------------------------------------
Starting ==
  /\ stage # "playing"
  /\ stage' = "playing"
  /\ UNCHANGED <<saving, location, config, latest>>

(* Application::loadGame, where nothing is moved: the menu lists the slots.*)
LoadGame ==
  /\ Starting
  /\ Lists(location) # {} \/ \A l \in Locations: Lists(l) = {}
  /\ valid' = Lists(location)
  /\ UNCHANGED <<disk, declined>>

(* Mutant: the slots are listed before they are moved.                     *)
LoadGameListingFirst ==
  \E l \in Locations:
    /\ Starting /\ FirstElsewhere(l)
    /\ new' = Moved(new, l) /\ old' = Moved(old, l)
    /\ valid' = Lists(location)
    /\ UNCHANGED declined

(* "Found save state data in ... Move to ...?", yes and no.                *)
LoadGameMoving ==
  \E l \in Locations:
    /\ Starting /\ FirstElsewhere(l)
    /\ new' = Moved(new, l) /\ old' = Moved(old, l)
    /\ valid' = Lists(location)'
    /\ UNCHANGED declined

LoadGameDeclining ==
  /\ Starting
  /\ \E l \in Locations: FirstElsewhere(l)
  /\ declined' = TRUE
  /\ valid' = Lists(location)
  /\ UNCHANGED disk

(* The name is set before the game is loaded, and stays if that fails.     *)
LoadFails ==
  /\ stage # "playing"
  /\ stage' = "named"
  /\ UNCHANGED <<valid, saving, location, config, disk, latest, declined>>

(* States::saveState writes the file, and deletes the one of the old       *)
(* format; then Application lists the slot.                                *)
SaveState(n) ==
  /\ stage = "playing" /\ saving = Nothing
  /\ \E c \in Contents:
       /\ new' = [new EXCEPT ![location][n] = c]
       /\ latest' = [latest EXCEPT ![n] = c]
  /\ saving' = n
  /\ UNCHANGED <<stage, valid, location, config, old, declined>>

StateSaved ==
  /\ saving # Nothing
  /\ old' = [old EXCEPT ![location][saving] = Nothing]
  /\ valid' = valid \cup ({saving} \cap Shown)
  /\ saving' = Nothing
  /\ UNCHANGED <<stage, location, config, new, latest, declined>>

UnloadGame ==
  /\ stage = "playing" /\ saving = Nothing
  /\ stage' = "none" /\ valid' = {}
  /\ UNCHANGED <<saving, location, config, disk, latest, declined>>

(* Application::loadCore, which the Fsm calls only without a game.         *)
LoadCore ==
  /\ stage # "playing"
  /\ stage' = "none"
  /\ UNCHANGED <<valid, saving, location, config, disk, latest, declined>>

ShowDialog ==
  /\ stage = "none"
  /\ location' \in Locations
  /\ UNCHANGED <<stage, valid, saving, config, disk, latest, declined>>

NewProcess ==
  /\ stage' = "none" /\ valid' = {} /\ saving' = Nothing
  /\ location' = config'
  /\ UNCHANGED <<disk, latest, declined>>

(* Fsm::quit unloads the game before Application::destroy saves settings.  *)
Exit == stage # "playing" /\ config' = location /\ NewProcess

Crash == UNCHANGED config /\ NewProcess

Next ==
  \/ LoadGame \/ LoadGameMoving \/ LoadGameDeclining \/ LoadFails
  \/ \E n \in Slots: SaveState(n)
  \/ StateSaved \/ UnloadGame \/ LoadCore \/ ShowDialog \/ Exit \/ Crash

Spec == Init /\ [][Next]_vars

-----------------------------------------------------------------------------
(* The slots of the menu hold what was saved in them last, by whichever    *)
(* version of the program and wherever the settings had the files then,    *)
(* unless the user refused to have them moved.  Every listed slot can be   *)
(* loaded, and every other is empty.                                       *)
SlotHoldsLatest ==
  stage = "playing" /\ saving = Nothing /\ ~declined =>
    \A n \in Shown: Loads(n) = latest[n]

(* The menu lists the slots that have a file, also after files were moved, *)
(* left where they are, or half replaced when the program crashed.         *)
MenuListsFiles ==
  stage = "playing" /\ saving = Nothing => valid = Lists(location)
=============================================================================
