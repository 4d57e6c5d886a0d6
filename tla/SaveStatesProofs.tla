-------------------------- MODULE SaveStatesProofs --------------------------
(***************************************************************************)
(* Theorems about SaveStates, for every set of slots, contents and         *)
(* locations.                                                              *)
(*                                                                         *)
(* As long as no move was refused one location has all the listed slots,   *)
(* so what migrateFiles finds is everything, and a slot's file of the new  *)
(* format, if any, is what was saved last.  That a game is played with the *)
(* slots where the setting says follows from the migration that starts it. *)
(***************************************************************************)
EXTENDS SaveStates, TLAPS

(* While a slot is being saved, it may be missing in the menu's list.      *)
MenuFollows ==
  IF stage = "playing"
    THEN /\ valid \cup ({saving} \cap Shown) = Lists(location)
         /\ saving # Nothing => new[location][saving] # Nothing
    ELSE valid = {} /\ saving = Nothing

Together ==
  /\ \A l \in Locations, n \in Shown: StateAt(l, n) \in {Nothing, latest[n]}
  /\ \A k, l \in Locations: k # l => Lists(k) = {} \/ Lists(l) = {}
  /\ \A n \in Shown: latest[n] # Nothing =>
       \E l \in Locations: StateAt(l, n) = latest[n]
  /\ stage = "playing" =>
       \A l \in Locations: l # location => Lists(l) = {}

Inv == TypeOK /\ MenuFollows /\ (~declined => Together)

-----------------------------------------------------------------------------
(* A file of either format is what makes a slot one with a state.          *)
LEMMA EmptyIsUnlisted ==
  ASSUME TypeOK, NEW l \in Locations, NEW n \in Shown
  PROVE  /\ n \in Lists(l) <=> StateAt(l, n) # Nothing
         /\ StateAt(l, n) \in File
BY ShownAssumption DEF TypeOK, Files, File, Lists, Exists, StateAt

LEMMA MovedFiles ==
  ASSUME NEW f \in Files, NEW l \in Locations, location \in Locations,
         l # location
  PROVE  /\ Moved(f, l) \in Files
         /\ \A n \in Shown:
              /\ Moved(f, l)[location][n] =
                   IF f[l][n] # Nothing THEN f[l][n] ELSE f[location][n]
              /\ Moved(f, l)[l][n] = Nothing
         /\ \A k \in Locations \ {l, location}: Moved(f, l)[k] = f[k]
BY ShownAssumption DEF Moved, Files, File

(* Moving the slots of another location when the present one has none      *)
(* makes every slot what it was there.                                     *)
LEMMA MovedStates ==
  ASSUME TypeOK, NEW l \in Locations, FirstElsewhere(l),
         new' = Moved(new, l), old' = Moved(old, l), location' = location
  PROVE  /\ new' \in Files /\ old' \in Files
         /\ \A n \in Shown: StateAt(location, n)' = StateAt(l, n)
         /\ \A n \in Shown: StateAt(l, n)' = Nothing
         /\ \A k \in Locations \ {l, location}, n \in Shown:
              StateAt(k, n)' = StateAt(k, n)
<1>1. l # location /\ location \in Locations /\ new \in Files /\ old \in Files
  BY DEF FirstElsewhere, TypeOK
<1>2. \A n \in Shown: new[location][n] = Nothing /\ old[location][n] = Nothing
  BY DEF FirstElsewhere, Lists, Exists
<1>3. QED
  BY <1>1, <1>2, MovedFiles DEF StateAt

-----------------------------------------------------------------------------
LEMMA InitInv == Init => Inv
<1> SUFFICES ASSUME Init  PROVE Inv
  OBVIOUS
<1>1. PICK home \in Locations:
        old = [l \in Locations |->
                 IF l = home THEN latest ELSE [n \in Slots |-> Nothing]]
  BY DEF Init
<1>2. new \in Files /\ old \in Files
  BY <1>1 DEF Init, Files, File
<1>3. TypeOK
  BY <1>2 DEF Init, TypeOK
<1>4. MenuFollows
  BY DEF Init, MenuFollows
<1>5. \A l \in Locations, n \in Shown:
        StateAt(l, n) = IF l = home THEN latest[n] ELSE Nothing
  BY <1>1, ShownAssumption DEF Init, StateAt
<1>6. Together
  <2>1. \A l \in Locations: l # home => Lists(l) = {}
    BY <1>3, <1>5, EmptyIsUnlisted DEF Lists
  <2>2. QED  BY <1>5, <2>1 DEF Together, Init
<1>7. QED  BY <1>3, <1>4, <1>6 DEF Inv

(* What Together says is unchanged while files, history and settings are,  *)
(* and no game is started.                                                 *)
LEMMA SameDisk ==
  ASSUME Inv, UNCHANGED <<disk, latest, declined>>,
         stage' = "playing" => stage = "playing" /\ location' = location
  PROVE  ~declined' => Together'
BY DEF Inv, disk, Together, Lists, Exists, StateAt

LEMMA NextInv == Inv /\ [Next]_vars => Inv'
<1> SUFFICES ASSUME Inv, [Next]_vars  PROVE Inv'
  OBVIOUS
<1>0. /\ TypeOK /\ new \in Files /\ old \in Files /\ location \in Locations
      /\ MenuFollows
  BY DEF Inv, TypeOK
<1>1. ASSUME LoadGame  PROVE Inv'
  <2>1. TypeOK'
    BY <1>0, <1>1 DEF LoadGame, Starting, TypeOK, Lists, disk
  <2>2. MenuFollows'
    BY <1>0, <1>1, NothingAssumption, ShownAssumption
    DEF LoadGame, Starting, MenuFollows, disk, Lists, Exists
  <2>3. ASSUME ~declined'  PROVE Together'
    <3>1. Together
      BY <1>1, <2>3 DEF LoadGame, Inv
    <3>2. \A l \in Locations: l # location => Lists(l) = {}
      BY <1>0, <1>1, <3>1 DEF LoadGame, Together
    <3>3. QED
      BY <1>1, <3>1, <3>2
      DEF LoadGame, Starting, Together, disk, Lists, Exists, StateAt
  <2>4. QED  BY <2>1, <2>2, <2>3 DEF Inv
<1>2. ASSUME LoadGameMoving  PROVE Inv'
  <2> PICK l \in Locations:
        /\ Starting /\ FirstElsewhere(l)
        /\ new' = Moved(new, l) /\ old' = Moved(old, l)
        /\ valid' = Lists(location)' /\ UNCHANGED declined
    BY <1>2 DEF LoadGameMoving
  <2>0. location' = location
    BY DEF Starting
  <2>1. /\ new' \in Files /\ old' \in Files
        /\ \A n \in Shown: StateAt(location, n)' = StateAt(l, n)
        /\ \A n \in Shown: StateAt(l, n)' = Nothing
        /\ \A k \in Locations \ {l, location}, n \in Shown:
             StateAt(k, n)' = StateAt(k, n)
    BY <1>0, <2>0, MovedStates
  <2>2. TypeOK'
    BY <1>0, <2>1 DEF Starting, TypeOK, Lists
  <2>3. MenuFollows'
    BY <1>0, <2>0, NothingAssumption, ShownAssumption
    DEF Starting, MenuFollows
  <2>4. ASSUME ~declined'  PROVE Together'
    <3>1. Together /\ stage' = "playing" /\ latest' = latest /\ l # location
      BY <2>4 DEF Inv, Starting, FirstElsewhere
    <3>2. \A k \in Locations, n \in Shown: k # l => StateAt(k, n) = Nothing
      BY <1>0, <3>1, EmptyIsUnlisted DEF Together, FirstElsewhere
    <3>3. \A k \in Locations, n \in Shown:
            k # location => StateAt(k, n)' = Nothing
      BY <2>1, <3>2
    <3>4. \A k \in Locations: k # location' => Lists(k)' = {}
      <4>1. TypeOK' => \A k \in Locations, n \in Shown:
                         n \in Lists(k)' <=> StateAt(k, n)' # Nothing
        BY ShownAssumption DEF TypeOK, Files, File, Lists, Exists, StateAt
      <4>2. QED  BY <2>0, <2>2, <3>3, <4>1 DEF Lists
    <3>5. \A n \in Shown: StateAt(location, n)' = StateAt(l, n)
      BY <2>1
    <3>6. \A n \in Shown: latest[n] # Nothing => StateAt(l, n) = latest[n]
      BY <3>1, <3>2 DEF Together
    <3>7. \A k \in Locations, n \in Shown:
            StateAt(k, n)' \in {Nothing, latest[n]}
      BY <2>0, <3>1, <3>3, <3>5 DEF Together
    <3>8. QED
      BY <1>0, <2>0, <3>1, <3>4, <3>5, <3>6, <3>7 DEF Together
  <2>5. QED  BY <2>2, <2>3, <2>4 DEF Inv
<1>3. ASSUME LoadGameDeclining  PROVE Inv'
  <2>1. TypeOK'
    BY <1>0, <1>3 DEF LoadGameDeclining, Starting, TypeOK, Lists, disk
  <2>2. MenuFollows'
    BY <1>0, <1>3, NothingAssumption, ShownAssumption
    DEF LoadGameDeclining, Starting, MenuFollows, disk, Lists, Exists
  <2>3. QED  BY <1>3, <2>1, <2>2 DEF LoadGameDeclining, Inv
<1>4. ASSUME LoadFails \/ UnloadGame \/ LoadCore \/ ShowDialog
             \/ Exit \/ Crash  PROVE Inv'
  <2>1. /\ UNCHANGED <<disk, latest, declined>>
        /\ stage' # "playing" /\ valid' = {} /\ saving' = Nothing
    BY <1>0, <1>4
    DEF LoadFails, UnloadGame, LoadCore, ShowDialog, Exit, Crash, NewProcess,
        MenuFollows
  <2>2. TypeOK'
    BY <1>0, <1>4
    DEF LoadFails, UnloadGame, LoadCore, ShowDialog, Exit, Crash, NewProcess,
        TypeOK, disk
  <2>3. QED  BY <2>1, <2>2, SameDisk DEF Inv, MenuFollows
<1>5. ASSUME NEW n \in Slots, SaveState(n)  PROVE Inv'
  <2> PICK c \in Contents:
        /\ new' = [new EXCEPT ![location][n] = c]
        /\ latest' = [latest EXCEPT ![n] = c]
    BY <1>5 DEF SaveState
  <2>1. TypeOK'
    BY <1>0, <1>5 DEF SaveState, TypeOK, Files, File
  <2>2. /\ new'[location][n] = c /\ c # Nothing
        /\ \A k \in Locations, m \in Slots:
             k # location \/ m # n => new'[k][m] = new[k][m]
        /\ latest'[n] = c
        /\ \A m \in Slots: m # n => latest'[m] = latest[m]
    BY <1>0, NothingAssumption DEF Files, TypeOK
  <2>3. MenuFollows'
    <3>1. Lists(location)' = Lists(location) \cup ({n} \cap Shown)
      BY <1>0, <1>5, <2>2, ShownAssumption DEF SaveState, Lists, Exists
    <3>2. valid = Lists(location)
      BY <1>0, <1>5, NothingAssumption, ShownAssumption
      DEF SaveState, MenuFollows
    <3>3. QED  BY <1>5, <2>2, <3>1, <3>2 DEF SaveState, MenuFollows
  <2>4. ASSUME ~declined'  PROVE Together'
    <3>1. /\ Together /\ stage = "playing" /\ stage' = "playing"
          /\ location' = location /\ old' = old
      BY <1>5, <2>4 DEF SaveState, Inv
    <3>2. \A k \in Locations, m \in Shown:
            k # location \/ m # n => StateAt(k, m)' = StateAt(k, m)
      BY <2>2, <3>1, ShownAssumption DEF StateAt
    <3>3. StateAt(location, n)' = c
      BY <2>2, <3>1 DEF StateAt
    <3>4. \A k \in Locations: k # location => Lists(k)' = Lists(k)
      BY <2>2, <3>1, ShownAssumption DEF Lists, Exists
    <3>5. \A k \in Locations, m \in Shown: k # location => StateAt(k, m) = Nothing
      BY <1>0, <3>1, EmptyIsUnlisted DEF Together
    <3>6. \A k \in Locations, m \in Shown:
            StateAt(k, m)' \in {Nothing, latest'[m]}
      BY <2>2, <3>1, <3>2, <3>3, <3>5, ShownAssumption DEF Together
    <3>7. \A m \in Shown: latest'[m] # Nothing =>
            StateAt(location, m)' = latest'[m]
      BY <1>0, <2>2, <3>1, <3>2, <3>3, <3>5, ShownAssumption DEF Together
    <3>8. QED
      BY <1>0, <3>1, <3>4, <3>6, <3>7 DEF Together
  <2>5. QED  BY <2>1, <2>3, <2>4 DEF Inv
<1>6. ASSUME StateSaved  PROVE Inv'
  <2>0. stage = "playing" /\ saving \in Slots
        /\ new[location][saving] # Nothing
    BY <1>0, <1>6 DEF StateSaved, MenuFollows, TypeOK
  <2>1. TypeOK'
    BY <1>0, <1>6 DEF StateSaved, TypeOK, Files, File
  <2>2. /\ old'[location][saving] = Nothing
        /\ \A k \in Locations, m \in Slots:
             k # location \/ m # saving => old'[k][m] = old[k][m]
        /\ new' = new
    BY <1>0, <1>6, <2>0 DEF StateSaved, Files
  <2>3. /\ \A k \in Locations: Lists(k)' = Lists(k)
        /\ \A k \in Locations, m \in Shown: StateAt(k, m)' = StateAt(k, m)
    BY <2>0, <2>2, ShownAssumption DEF Lists, Exists, StateAt
  <2>4. MenuFollows'
    <3>1. Lists(location)' = Lists(location) /\ location' = location
      BY <1>0, <1>6, <2>3 DEF StateSaved
    <3>2. QED
      BY <1>0, <1>6, <2>0, <3>1, NothingAssumption, ShownAssumption
      DEF StateSaved, MenuFollows
  <2>5. ASSUME ~declined'  PROVE Together'
    BY <1>6, <2>3, <2>5 DEF StateSaved, Inv, Together
  <2>6. QED  BY <2>1, <2>4, <2>5 DEF Inv
<1>7. ASSUME UNCHANGED vars  PROVE Inv'
  <2>1. TypeOK' /\ MenuFollows'
    BY <1>0, <1>7 DEF vars, disk, TypeOK, MenuFollows, Lists, Exists
  <2>2. QED  BY <1>7, <2>1, SameDisk DEF vars, Inv
<1>8. QED
  BY <1>1, <1>2, <1>3, <1>4, <1>5, <1>6, <1>7 DEF Next

-----------------------------------------------------------------------------
(* The inductive invariant holds.                                          *)
THEOREM Invariance == Spec => []Inv
BY InitInv, NextInv, PTL DEF Spec

(* Every variable has its type.                                            *)
THEOREM TypeCorrect == Spec => []TypeOK
<1>1. Inv => TypeOK
  BY DEF Inv
<1>2. QED  BY <1>1, Invariance, PTL

(* Between saves the menu lists the slots that have a file.                *)
THEOREM MenuIsRight == Spec => []MenuListsFiles
<1>1. Inv => MenuListsFiles
  BY NothingAssumption, ShownAssumption DEF Inv, MenuFollows, MenuListsFiles
<1>2. QED  BY <1>1, Invariance, PTL

(* A listed slot is loaded with what was saved in it last.                 *)
THEOREM NoStateIsLost == Spec => []SlotHoldsLatest
<1>1. Inv => SlotHoldsLatest
  <2> SUFFICES ASSUME Inv, stage = "playing", saving = Nothing, ~declined,
                      NEW n \in Shown
               PROVE  Loads(n) = latest[n]
    BY DEF SlotHoldsLatest
  <2>0. TypeOK /\ location \in Locations /\ Together
    BY DEF Inv, TypeOK
  <2>1. valid = Lists(location)
    BY NothingAssumption, ShownAssumption DEF Inv, MenuFollows
  <2>2. StateAt(location, n) = latest[n]
    BY <2>0, EmptyIsUnlisted DEF Together
  <2>3. QED  BY <2>0, <2>1, <2>2, EmptyIsUnlisted DEF Loads
<1>2. QED  BY <1>1, Invariance, PTL
=============================================================================
