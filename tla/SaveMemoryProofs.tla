-------------------------- MODULE SaveMemoryProofs --------------------------
(***************************************************************************)
(* Theorems about SaveMemory, for every set of games, contents and         *)
(* locations.                                                              *)
(*                                                                         *)
(* That a game begins where it ended is a matter of there being one file:  *)
(* as long as the user never refused to move a game's file, at most one    *)
(* location has it, it contains what was kept last, and while the game is  *)
(* played no location but the present one has it.  That needs the settings *)
(* to stay as they are during a game, which the dialog ensures by the name *)
(* of the game.                                                            *)
(***************************************************************************)
EXTENDS SaveMemory, TLAPS

Undivided(g) ==
  /\ \A l \in Locations: files[g][l] \in {Nothing, kept[g]}
  /\ \A k, l \in Locations: k # l => Nothing \in {files[g][k], files[g][l]}
  /\ kept[g] # Nothing => \E l \in Locations: files[g][l] = kept[g]
  /\ playing /\ game = g =>
       \A l \in Locations: l # location => files[g][l] = Nothing

(* A copy belongs to a game being played, and only that one has a memory.  *)
CopyHasGame == IF playing THEN game \in Games ELSE copy = Nothing

Preserved == \A g \in Games \ declined: Undivided(g)

Inv == TypeOK /\ CopyHasGame /\ CopyIsFile /\ Preserved

-----------------------------------------------------------------------------
(* Types: each action is an assignment from sets that are in the types.    *)
LEMMA InitType == Init => TypeOK
<1> SUFFICES ASSUME Init  PROVE TypeOK
  OBVIOUS
<1>1. /\ files \in [Games -> [Locations -> File]]
      /\ kept \in [Games -> File]
  BY DEF Init, File
<1>2. /\ game \in Games \cup {Nothing} /\ playing \in BOOLEAN
      /\ memory \in Contents /\ copy \in File
      /\ interval \in BOOLEAN /\ location \in Locations
      /\ declined \subseteq Games
  BY BlankAssumption DEF Init, File
<1>3. config \in [interval: BOOLEAN, location: Locations]
  BY DEF Init
<1>4. QED  BY <1>1, <1>2, <1>3 DEF TypeOK

LEMMA NextType == TypeOK /\ [Next]_vars => TypeOK'
<1> SUFFICES ASSUME TypeOK, [Next]_vars  PROVE TypeOK'
  OBVIOUS
<1> USE BlankAssumption DEF TypeOK, File, settings
<1>1. ASSUME NEW g \in Games, LoadFails(g)  PROVE TypeOK'
  BY <1>1 DEF LoadFails, SetGame, Freed
<1>2. ASSUME NEW g \in Games, LoadGame(g)  PROVE TypeOK'
  BY <1>2 DEF LoadGame, Starting, LoadSRAM, Freed
<1>3. ASSUME NEW g \in Games, LoadGameMoving(g)  PROVE TypeOK'
  BY <1>3 DEF LoadGameMoving, Starting, FirstElsewhere, LoadSRAM, Freed
<1>4. ASSUME NEW g \in Games, LoadGameDeclining(g)  PROVE TypeOK'
  BY <1>4 DEF LoadGameDeclining, Starting, FirstElsewhere, LoadSRAM, Freed
<1>5. CASE Play
  BY <1>5 DEF Play
<1>6. CASE PeriodicSave
  BY <1>6 DEF PeriodicSave, SaveSRAM
<1>7. CASE UnloadGame
  BY <1>7 DEF UnloadGame, SaveSRAM, SetGame, Freed
<1>8. CASE LoadCore
  BY <1>8 DEF LoadCore, SetGame, Freed
<1>9. CASE ShowDialog
  BY <1>9 DEF ShowDialog
<1>10. CASE Exit
  BY <1>10 DEF Exit, NewProcess
<1>11. CASE Crash
  BY <1>11 DEF Crash, NewProcess
<1>12. CASE UNCHANGED vars
  BY <1>12 DEF vars
<1>13. QED
  BY <1>1, <1>2, <1>3, <1>4, <1>5, <1>6, <1>7, <1>8, <1>9, <1>10, <1>11, <1>12
  DEF Next

-----------------------------------------------------------------------------
LEMMA InitInv == Init => Inv
BY InitType DEF Init, Inv, CopyHasGame, CopyIsFile, Preserved, Undivided

(* What a load finds, of a game whose file was never left behind: its one  *)
(* file is what the memory is taken from.                                  *)
LEMMA FoundIsKept ==
  ASSUME TypeOK, NEW g \in Games, Undivided(g)
  PROVE  /\ Found(g) => files[g][location] = kept[g]
         /\ (\A l \in Locations: files[g][l] = Nothing) => kept[g] = Nothing
         /\ \A l \in Locations: FirstElsewhere(g, l) => files[g][l] = kept[g]
BY DEF TypeOK, Undivided, Found, FirstElsewhere

(* Writing the memory to the present location, when no other has the file, *)
(* leaves one file.                                                        *)
LEMMA SavedIsUndivided ==
  ASSUME Inv, playing, SaveSRAM(game), declined' = declined,
         location' = location
  PROVE  /\ \A g \in Games \ declined: g # game =>
              files'[g] = files[g] /\ kept'[g] = kept[g]
         /\ game \notin declined =>
              /\ kept'[game] = memory /\ files'[game][location] = memory
              /\ \A l \in Locations: l # location => files'[game][l] = Nothing
BY DEF Inv, TypeOK, CopyHasGame, SaveSRAM, Preserved, Undivided

LEMMA NextInv == Inv /\ [Next]_vars => Inv'
<1> SUFFICES ASSUME Inv, [Next]_vars  PROVE Inv'
  OBVIOUS
<1>0. TypeOK /\ TypeOK'
  BY NextType DEF Inv
<1> DEFINE Rest == CopyHasGame /\ CopyIsFile /\ Preserved
<1>1. ASSUME NEW g \in Games, LoadFails(g)  PROVE Rest'
  <2>1. CopyHasGame' /\ CopyIsFile'
    BY <1>1 DEF LoadFails, SetGame, Freed, CopyHasGame, CopyIsFile
  <2>2. Preserved'
    BY <1>1 DEF Inv, Preserved, Undivided, LoadFails, settings
  <2>3. QED  BY <2>1, <2>2
<1>2. ASSUME NEW g \in Games, LoadGame(g)  PROVE Rest'
  <2>1. CopyHasGame' /\ CopyIsFile'
    BY <1>2, NothingAssumption
    DEF LoadGame, Starting, LoadSRAM, Freed, CopyHasGame, CopyIsFile, settings
  <2>2. Preserved'
    <3>1. ASSUME NEW h \in Games \ declined  PROVE Undivided(h)'
      <4>1. Undivided(h)
        BY DEF Inv, Preserved
      <4>2. h = g => \A l \in Locations: l # location => files[g][l] = Nothing
        BY <1>2, <4>1 DEF LoadGame, Found, Undivided, TypeOK, Inv
      <4>3. QED
        BY <1>2, <4>1, <4>2 DEF LoadGame, Starting, Undivided, settings
    <3>2. QED  BY <1>2, <3>1 DEF LoadGame, Preserved
  <2>3. QED  BY <2>1, <2>2
<1>3. ASSUME NEW g \in Games, LoadGameMoving(g)  PROVE Rest'
  <2> PICK l \in Locations:
        /\ Starting(g) /\ FirstElsewhere(g, l)
        /\ LoadSRAM(files[g][l])
        /\ files' = [files EXCEPT ![g][location] = files[g][l],
                                  ![g][l] = Nothing]
        /\ UNCHANGED declined
    BY <1>3 DEF LoadGameMoving
  <2>1. l # location /\ files[g][l] # Nothing
    BY DEF FirstElsewhere, Found
  <2>2. /\ files'[g][location] = files[g][l] /\ files'[g][l] = Nothing
        /\ \A k \in Locations \ {l, location}: files'[g][k] = files[g][k]
        /\ \A h \in Games \ {g}: files'[h] = files[h]
    BY <1>0, <2>1 DEF TypeOK
  <2>3. CopyHasGame' /\ CopyIsFile'
    BY <2>2, NothingAssumption
    DEF Starting, LoadSRAM, Freed, CopyHasGame, CopyIsFile, settings
  <2>4. Preserved'
    <3>1. ASSUME NEW h \in Games \ declined  PROVE Undivided(h)'
      <4>1. Undivided(h)
        BY DEF Inv, Preserved
      <4>2. CASE h = g
        <5>1. \A k \in Locations: k # location => files'[g][k] = Nothing
          BY <1>0, <2>1, <2>2, <4>1, <4>2 DEF Undivided, TypeOK
        <5>2. files'[g][location] = kept[g]
          BY <2>1, <2>2, <4>1, <4>2 DEF Undivided
        <5>3. QED
          BY <1>0, <4>2, <5>1, <5>2
          DEF Starting, Undivided, settings, TypeOK
      <4>3. CASE h # g
        BY <2>2, <4>1, <4>3 DEF Starting, Undivided, settings
      <4>4. QED  BY <4>2, <4>3
    <3>2. QED  BY <3>1 DEF Preserved
  <2>5. QED  BY <2>3, <2>4
<1>4. ASSUME NEW g \in Games, LoadGameDeclining(g)  PROVE Rest'
  <2>1. CopyHasGame' /\ CopyIsFile'
    BY <1>4, NothingAssumption
    DEF LoadGameDeclining, Starting, LoadSRAM, Freed, CopyHasGame, CopyIsFile
  <2>2. Preserved'
    BY <1>4
    DEF LoadGameDeclining, Starting, Inv, Preserved, Undivided, settings
  <2>3. QED  BY <2>1, <2>2
<1>5. ASSUME Play  PROVE Rest'
  <2>1. CopyHasGame' /\ CopyIsFile'
    BY <1>5 DEF Play, Inv, CopyHasGame, CopyIsFile, settings
  <2>2. Preserved'
    BY <1>5 DEF Play, Inv, Preserved, Undivided, settings
  <2>3. QED  BY <2>1, <2>2
<1>6. ASSUME PeriodicSave  PROVE Rest'
  <2>1. CopyHasGame' /\ CopyIsFile'
    BY <1>0, <1>6
    DEF PeriodicSave, SaveSRAM, Inv, CopyHasGame, CopyIsFile, settings, TypeOK
  <2>2. Preserved'
    <3>1. playing /\ SaveSRAM(game) /\ declined' = declined
          /\ location' = location /\ game' = game /\ playing' = playing
      BY <1>6 DEF PeriodicSave, settings
    <3>2. ASSUME NEW h \in Games \ declined  PROVE Undivided(h)'
      <4>1. Undivided(h)
        BY DEF Inv, Preserved
      <4>2. CASE h = game
        BY <1>0, <3>1, <4>2, SavedIsUndivided DEF Undivided, TypeOK
      <4>3. CASE h # game
        BY <3>1, <4>1, <4>3, SavedIsUndivided DEF Undivided
      <4>4. QED  BY <4>2, <4>3
    <3>3. QED  BY <3>1, <3>2 DEF Preserved
  <2>3. QED  BY <2>1, <2>2
<1>7. ASSUME UnloadGame  PROVE Rest'
  <2>1. CopyHasGame' /\ CopyIsFile'
    BY <1>7 DEF UnloadGame, SetGame, Freed, CopyHasGame, CopyIsFile
  <2>2. Preserved'
    <3>1. playing /\ SaveSRAM(game) /\ declined' = declined
          /\ location' = location /\ ~playing'
      BY <1>7 DEF UnloadGame, settings
    <3>2. ASSUME NEW h \in Games \ declined  PROVE Undivided(h)'
      <4>1. Undivided(h)
        BY DEF Inv, Preserved
      <4>2. CASE h = game
        BY <1>0, <3>1, <4>2, SavedIsUndivided DEF Undivided, TypeOK
      <4>3. CASE h # game
        BY <3>1, <4>1, <4>3, SavedIsUndivided DEF Undivided
      <4>4. QED  BY <4>2, <4>3
    <3>3. QED  BY <3>1, <3>2 DEF Preserved
  <2>3. QED  BY <2>1, <2>2
<1>8. ASSUME LoadCore  PROVE Rest'
  <2>1. CopyHasGame' /\ CopyIsFile'
    BY <1>8 DEF LoadCore, SetGame, Freed, CopyHasGame, CopyIsFile
  <2>2. Preserved'
    BY <1>8 DEF LoadCore, Inv, Preserved, Undivided, settings
  <2>3. QED  BY <2>1, <2>2
<1>9. ASSUME ShowDialog  PROVE Rest'
  <2>1. ~playing
    BY <1>9, NothingAssumption DEF ShowDialog, Inv, CopyHasGame
  <2>2. CopyHasGame' /\ CopyIsFile'
    BY <1>9, <2>1 DEF ShowDialog, Inv, CopyHasGame, CopyIsFile
  <2>3. Preserved'
    BY <1>9, <2>1 DEF ShowDialog, Inv, Preserved, Undivided
  <2>4. QED  BY <2>2, <2>3
<1>10. ASSUME NewProcess  PROVE Rest'
  <2>1. CopyHasGame' /\ CopyIsFile'
    BY <1>10 DEF NewProcess, CopyHasGame, CopyIsFile
  <2>2. Preserved'
    BY <1>10 DEF NewProcess, Inv, Preserved, Undivided
  <2>3. QED  BY <2>1, <2>2
<1>11. ASSUME UNCHANGED vars  PROVE Rest'
  BY <1>11
  DEF vars, settings, Inv, CopyHasGame, CopyIsFile, Preserved, Undivided
<1>12. Rest'
  BY <1>1, <1>2, <1>3, <1>4, <1>5, <1>6, <1>7, <1>8, <1>9, <1>10, <1>11
  DEF Next, Exit, Crash
<1>13. QED  BY <1>0, <1>12 DEF Inv

-----------------------------------------------------------------------------
(* The inductive invariant holds.                                          *)
THEOREM Invariance == Spec => []Inv
BY InitInv, NextInv, PTL DEF Spec

(* Every variable has its type.                                            *)
THEOREM TypeCorrect == Spec => []TypeOK
<1>1. Inv => TypeOK
  BY DEF Inv
<1>2. QED  BY <1>1, Invariance, PTL

(* States::_lastSaveData is what the present game's file contains.         *)
THEOREM CopyIsAlwaysFile == Spec => []CopyIsFile
<1>1. Inv => CopyIsFile
  BY DEF Inv
<1>2. QED  BY <1>1, Invariance, PTL

(* No change of settings, crash or failed load makes a game begin with     *)
(* anything but the memory it was kept with.                               *)
THEOREM NothingIsLost == Spec => BeginsWhereItEnded
<1> DEFINE Begins ==
      \A g \in Games \ declined':
        ~playing /\ playing' /\ game' = g =>
          memory' = IF kept[g] = Nothing THEN Blank ELSE kept[g]
<1>1. Inv /\ [Next]_vars => [Begins]_vars
  <2> SUFFICES ASSUME Inv, Next, NEW g \in Games \ declined',
                      ~playing, playing', game' = g
               PROVE  memory' = IF kept[g] = Nothing THEN Blank ELSE kept[g]
    BY DEF vars
  <2> DEFINE Goal == memory' = IF kept[g] = Nothing THEN Blank ELSE kept[g]
  <2>1. g \in Games /\ (g \notin declined => Undivided(g)) /\ TypeOK
    BY DEF Inv, Preserved
  <2>2. CASE LoadGame(g)
    <3>1. g \notin declined
      BY <2>2 DEF LoadGame
    <3>2. files[g][location] = kept[g]
      BY <2>1, <2>2, <3>1, FoundIsKept DEF LoadGame, TypeOK
    <3>3. QED  BY <2>2, <3>2 DEF LoadGame, LoadSRAM
  <2>3. CASE LoadGameMoving(g)
    <3>1. g \notin declined
      BY <2>3 DEF LoadGameMoving
    <3>2. PICK l \in Locations: FirstElsewhere(g, l) /\ LoadSRAM(files[g][l])
      BY <2>3 DEF LoadGameMoving
    <3>3. files[g][l] = kept[g]
      BY <2>1, <3>1, <3>2, FoundIsKept
    <3>4. QED  BY <3>2, <3>3 DEF LoadSRAM
  <2>4. CASE LoadGameDeclining(g)
    BY <2>4 DEF LoadGameDeclining
  <2>5. LoadGame(g) \/ LoadGameMoving(g) \/ LoadGameDeclining(g)
    BY DEF Next, LoadFails, LoadGame, LoadGameMoving, LoadGameDeclining,
           Starting, Play, PeriodicSave, UnloadGame, LoadCore, ShowDialog,
           Exit, Crash, NewProcess
  <2>6. QED  BY <2>2, <2>3, <2>4, <2>5
<1>2. QED  BY <1>1, Invariance, PTL DEF Spec, BeginsWhereItEnded
=============================================================================
