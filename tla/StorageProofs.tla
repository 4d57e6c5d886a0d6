---------------------------- MODULE StorageProofs ----------------------------
(* What parts that keep files, or read them, promise for every value of the  *)
(* constants Storage leaves open: that the drive and its menu agree, that    *)
(* the recent list is the one a user expects, that a hash is that of the     *)
(* finished file, that the menu of cores loads what it says, that a core's   *)
(* files hold what it wrote, that settings and bindings return, that a state *)
(* brings back what it was saved of, and that a hash of a compressed disc is *)
(* of the track asked for. Each part has an inductive invariant over its own *)
(* variables; a lemma for each says that Storage lets the part run as it     *)
(* does alone.                                                               *)
EXTENDS Storage, SequenceTheorems, WellFoundedInduction, FiniteSetTheorems, TLAPS

-----------------------------------------------------------------------------
(* The discs and the drive: Discs.                                           *)

(* Beside the other parts the drive runs as it does alone.                   *)
LEMMA DriveRuns == Spec => Drive!Spec
<1>1. Init => Drive!Init
  BY DEF Init
<1>2. [Next]_vars => [Drive!Next]_(Drive!vars)
  <2>1. ASSUME OthersStay, which # "drive"  PROVE UNCHANGED Drive!vars
    BY <2>1 DEF OthersStay, driveVars, Drive!vars
  <2>2. ASSUME Next  PROVE Drive!Next \/ UNCHANGED Drive!vars
    BY <2>1, <2>2 DEF Next
  <2>3. UNCHANGED vars => UNCHANGED Drive!vars
    BY DEF vars, driveVars, Drive!vars
  <2>4. QED  BY <2>2, <2>3
<1>3. QED  BY <1>1, <1>2, PTL DEF Spec, Drive!Spec

(* Games, and drives.                                                        *)
GameSet == [discs: Seq(STRING), named: BOOLEAN, playlist: BOOLEAN]
DriveSet == [open: BOOLEAN, index: Int]

(* Which kinds of values the drive's variables have.                         *)
DriveTypes ==
  /\ game \in GameSet \cup {NoGame}
  /\ drive \in DriveSet /\ saved \in DriveSet
  /\ hardcore \in BOOLEAN

(* The menu's labels are those of the game also while the core's drive is    *)
(* not what the frontend saw last: an update that looks no labels up relies  *)
(* on the ones there are.                                                    *)
LabelsAreGames ==
  game # NoGame =>
    /\ discs.labels = [i \in 1..Len(game.discs) |-> Drive!Label(game, names, i)]
    /\ discs.tray = (game.discs # <<>>)
    /\ told => discs.checked = drive.index /\ discs.discs = drive.open
    /\ discs = [labels |-> discs.labels, checked |-> discs.checked, discs |-> discs.discs,
               tray |-> discs.tray]

(* LabelsAreGames, and that hardcore knows the disc.                         *)
DriveInv == DriveTypes /\ LabelsAreGames /\ Drive!HardcoreKnowsDisc

(* The drive and the menu.                                                   *)
LEMMA MenuOf ==
  ASSUME NEW g \in GameSet, NEW cnt, NEW now, NEW old, NEW labels \in BOOLEAN,
         labels \/ old.labels = [i \in 1..Len(g.discs) |-> Drive!Label(g, cnt, i)]
  PROVE  /\ Drive!Menu(g, cnt, now, labels, old).labels =
              [i \in 1..Len(g.discs) |-> Drive!Label(g, cnt, i)]
         /\ Drive!Menu(g, cnt, now, labels, old).checked = now.index
         /\ Drive!Menu(g, cnt, now, labels, old).discs = now.open
         /\ Drive!Menu(g, cnt, now, labels, old).tray = (g.discs # <<>>)
         /\ LET new == Drive!Menu(g, cnt, now, labels, old)
            IN new = [labels |-> new.labels, checked |-> new.checked,
                      discs |-> new.discs, tray |-> new.tray]
<1>1. Len(g.discs) \in Nat
  BY DEF GameSet
<1>2. CASE labels
  BY <1>2 DEF Drive!Menu
<1>3. CASE ~labels
  <2> DEFINE all == [i \in 1..Len(g.discs) |-> Drive!Label(g, cnt, i)]
  <2>1. Len(all) = Len(g.discs)
    BY <1>1
  <2>2. \A i \in 1..Len(g.discs) : i <= Len(old.labels) /\ old.labels[i] = Drive!Label(g, cnt, i)
    BY <1>1, <1>3, <2>1
  <2>3. Drive!Menu(g, cnt, now, labels, old).labels = all
    BY <1>3, <2>2 DEF Drive!Menu
  <2>4. QED  BY <2>3 DEF Drive!Menu
<1>4. QED  BY <1>2, <1>3

(* An update leaves a menu that is right, if the labels were or are looked   *)
(* up.                                                                       *)
LEMMA UpdateShows ==
  ASSUME NEW labels \in BOOLEAN, Drive!UpdateDiscMenu(labels), game' \in GameSet,
         labels \/ (game # NoGame /\ LabelsAreGames /\ UNCHANGED <<game, names>>)
  PROVE  LabelsAreGames'
<1>1. discs' = Drive!Menu(game', names', drive', labels, discs)
  BY DEF Drive!UpdateDiscMenu
<1>2. labels \/ discs.labels = [i \in 1..Len(game'.discs) |-> Drive!Label(game', names', i)]
  BY DEF LabelsAreGames
<1> DEFINE new == Drive!Menu(game', names', drive', labels, discs)
<1>3. /\ new.labels = [i \in 1..Len(game'.discs) |-> Drive!Label(game', names', i)]
      /\ new.checked = drive'.index
      /\ new.discs = drive'.open
      /\ new.tray = (game'.discs # <<>>)
      /\ new = [labels |-> new.labels, checked |-> new.checked,
                discs |-> new.discs, tray |-> new.tray]
  BY <1>2, MenuOf
<1> HIDE DEF new
<1>4. discs' = new  BY <1>1 DEF new
<1>5. QED  BY <1>3, <1>4 DEF LabelsAreGames

(* Another disc that is put in: Application::readyDisc.                      *)
LEMMA ReadyDiscKeeps ==
  ASSUME DriveInv, game # NoGame, NEW i \in Int, Drive!ReadyDisc(i)
  PROVE  DriveInv'
<1>1. /\ hardcore' \in BOOLEAN
      /\ hardcore' => hardcore
      /\ hardcore' /\ Drive!Asked(i) => game.discs[i] # "unknown"
  <2>1. CASE UNCHANGED hardcore /\ (Drive!Asked(i) /\ game.discs[i] = "unknown" => ~hardcore)
    BY <2>1, Zenon DEF DriveInv, DriveTypes
  <2>2. CASE hardcore' = FALSE
    BY <2>2
  <2>3. QED  BY <2>1, <2>2, Zenon DEF Drive!ReadyDisc, Drive!Admitted
<1>2. /\ UNCHANGED <<game, names, saved>> /\ game \in GameSet /\ Drive!UpdateDiscMenu(FALSE)
      /\ \/ drive' = [drive EXCEPT !.index = i]
         \/ drive' = drive
  BY DEF Drive!ReadyDisc, DriveInv, DriveTypes
<1>3. LabelsAreGames'
  BY <1>2, UpdateShows DEF DriveInv
<1>4. drive' \in DriveSet /\ drive'.index \in {drive.index, i}
  BY <1>2 DEF DriveInv, DriveTypes, DriveSet
<1>5. vouched \subseteq vouched'
  BY DEF Drive!ReadyDisc
<1>6. ASSUME hardcore'
      PROVE  game.discs[i] # "unknown" \/ i \in vouched'
  <2>1. CASE Drive!Asked(i)
    BY <1>1, <1>6, <2>1
  <2>2. CASE ~Drive!Asked(i)
    BY <2>2 DEF Drive!ReadyDisc
  <2>3. QED  BY <2>1, <2>2
<1>7. Drive!HardcoreKnowsDisc'
  BY <1>1, <1>2, <1>4, <1>5, <1>6 DEF Drive!HardcoreKnowsDisc, DriveInv
<1>8. DriveTypes'
  BY <1>1, <1>2, <1>4 DEF DriveInv, DriveTypes
<1>9. QED  BY <1>3, <1>7, <1>8 DEF DriveInv

(* Every step of the drive.                                                  *)
LEMMA DriveKeeps ==
  ASSUME DriveInv, Drive!Next
  PROVE  DriveInv'
<1> USE DEF DriveInv, DriveTypes
<1>1. CASE Drive!LoadCore \/ Drive!UnloadGame
  BY <1>1 DEF Drive!LoadCore, Drive!UnloadGame, LabelsAreGames, Drive!HardcoreKnowsDisc
<1>2. ASSUME NEW g \in Games, Drive!LoadGame(g)  PROVE DriveInv'
  <2>1. /\ game' = g /\ g \in GameSet /\ drive' = Drive!NoDrive /\ 1 \in vouched'
        /\ saved' = Drive!NoDrive /\ UNCHANGED hardcore /\ Drive!UpdateDiscMenu(TRUE)
    BY <1>2, DriveAssumption DEF Drive!LoadGame, GameSet
  <2>2. Drive!NoDrive \in DriveSet /\ Drive!NoDrive.index = 1
    BY DEF Drive!NoDrive, DriveSet
  <2>3. LabelsAreGames'  BY <2>1, UpdateShows
  <2>4. QED  BY <2>1, <2>2, <2>3 DEF Drive!HardcoreKnowsDisc
<1>3. ASSUME NEW g \in Games, Drive!LoadGameFails(g)  PROVE DriveInv'
  BY <1>3, DriveAssumption DEF Drive!LoadGameFails, LabelsAreGames, Drive!HardcoreKnowsDisc
<1>4. CASE Drive!ToggleTray
  <2>1. game \in GameSet /\ game # NoGame
    BY <1>4 DEF Drive!ToggleTray, Drive!NumDiscs
  <2>2. /\ UNCHANGED <<game, names, saved, hardcore, vouched>> /\ Drive!UpdateDiscMenu(FALSE)
        /\ drive' \in DriveSet /\ drive'.index = drive.index
    BY <1>4 DEF Drive!ToggleTray, DriveSet
  <2>3. LabelsAreGames'  BY <2>1, <2>2, UpdateShows
  <2>4. QED  BY <2>2, <2>3 DEF Drive!HardcoreKnowsDisc
<1>5. CASE Drive!SaveState
  BY <1>5 DEF Drive!SaveState, LabelsAreGames, Drive!HardcoreKnowsDisc
<1>6. CASE Drive!LoadState
  <2>1. /\ game \in GameSet /\ game # NoGame /\ UNCHANGED <<game, names, saved>>
        /\ drive' = saved /\ hardcore' = FALSE /\ Drive!UpdateDiscMenu(FALSE)
    BY <1>6 DEF Drive!LoadState
  <2>2. LabelsAreGames'  BY <2>1, UpdateShows
  <2>3. QED  BY <2>1, <2>2 DEF Drive!HardcoreKnowsDisc
<1>7. ASSUME NEW i \in 1..Len(discs.labels), Drive!MenuReadiesDisc(i)  PROVE DriveInv'
  BY <1>7, ReadyDiscKeeps DEF Drive!MenuReadiesDisc
<1>8. ASSUME NEW offset \in {-1, 1}, Drive!ReadyNextDisc(offset)  PROVE DriveInv'
  <2>1. Drive!NumDiscs > 0 /\ game # NoGame /\ Drive!NumDiscs \in Int
    BY <1>8 DEF Drive!ReadyNextDisc, Drive!NumDiscs, GameSet
  <2>2. drive.index - 1 + Drive!NumDiscs + offset \in Int
    BY <2>1 DEF DriveSet
  <2>3. ((drive.index - 1 + Drive!NumDiscs + offset) % Drive!NumDiscs) + 1 \in Int
    BY <2>1, <2>2
  <2>4. QED  BY <1>8, <2>1, <2>3, ReadyDiscKeeps DEF Drive!ReadyNextDisc
<1>9. ASSUME NEW i \in 1..Drive!NumDiscs, NEW open \in BOOLEAN,
             Drive!CoreChanges([open |-> open, index |-> i])
      PROVE  DriveInv'
  <2>1. [open |-> open, index |-> i] \in DriveSet
    BY DEF DriveSet
  <2>2. /\ drive' = [open |-> open, index |-> i] /\ told' = FALSE
        /\ vouched' = vouched \cup {i} /\ drive'.index = i
        /\ UNCHANGED <<game, discs, names, saved, hardcore>>
    BY <1>9 DEF Drive!CoreChanges
  <2>3. LabelsAreGames'  BY <2>2 DEF LabelsAreGames
  <2>4. Drive!HardcoreKnowsDisc'  BY <2>2 DEF Drive!HardcoreKnowsDisc
  <2>5. QED  BY <2>1, <2>2, <2>3, <2>4
<1>10. ASSUME NEW on \in BOOLEAN, Drive!SetHardcore(on)  PROVE DriveInv'
  <2>1. /\ UNCHANGED <<game, drive, discs, names, saved, told>> /\ hardcore' = on
        /\ on => drive.index \in vouched'
    BY <1>10 DEF Drive!SetHardcore
  <2>2. LabelsAreGames'  BY <2>1 DEF LabelsAreGames
  <2>3. Drive!HardcoreKnowsDisc'  BY <2>1 DEF Drive!HardcoreKnowsDisc
  <2>4. QED  BY <2>1, <2>2, <2>3
<1>11. QED
  BY <1>1, <1>2, <1>3, <1>4, <1>5, <1>6, <1>7, <1>8, <1>9, <1>10 DEF Drive!Next

(* So the menu is as it would be made anew.                                  *)
LEMMA DriveShows ==
  ASSUME DriveInv
  PROVE  Drive!DrivesAgree
<1>1. ASSUME game # NoGame, told  PROVE discs = Drive!Menu(game, names, drive, TRUE, discs)
  <2>1. /\ discs.labels = [i \in 1..Len(game.discs) |-> Drive!Label(game, names, i)]
        /\ discs.checked = drive.index /\ discs.discs = drive.open
        /\ discs.tray = (game.discs # <<>>)
        /\ discs = [labels |-> discs.labels, checked |-> discs.checked,
                   discs |-> discs.discs, tray |-> discs.tray]
    BY <1>1 DEF DriveInv, LabelsAreGames
  <2>2. Drive!Menu(game, names, drive, TRUE, discs) =
          [labels  |-> [i \in 1..Len(game.discs) |-> Drive!Label(game, names, i)],
           checked |-> drive.index, discs |-> drive.open, tray |-> game.discs # <<>>]
    BY DEF Drive!Menu
  <2>3. QED  BY <2>1, <2>2
<1>2. ASSUME game # NoGame, NEW i \in DOMAIN discs.labels, Drive!Asked(i)
      PROVE  discs.labels[i] = i
  BY <1>2 DEF DriveInv, LabelsAreGames, Drive!Label, Drive!Asked
<1>3. QED  BY <1>1, <1>2 DEF Drive!DrivesAgree, Drive!MenuShowsDrive, DriveInv

(* The menu shows the drive, and hardcore knows the disc, through trays that *)
(* do not move, discs that are refused and states that bring another disc.   *)
THEOREM DrivesAlwaysAgree == Spec => []DrivesAgree
<1>1. Drive!Init => DriveInv
  BY DEF Drive!Init, DriveInv, DriveTypes, Drive!NoDrive, DriveSet, LabelsAreGames,
         Drive!HardcoreKnowsDisc
<1>2. DriveInv /\ [Drive!Next]_(Drive!vars) => DriveInv'
  <2>1. DriveInv /\ UNCHANGED Drive!vars => DriveInv'
    BY DEF DriveInv, DriveTypes, Drive!vars, LabelsAreGames, Drive!HardcoreKnowsDisc
  <2>2. QED  BY <2>1, DriveKeeps
<1>3. DriveInv => DrivesAgree  BY DriveShows DEF DrivesAgree
<1>4. QED  BY <1>1, <1>2, <1>3, DriveRuns, PTL DEF Drive!Spec

-----------------------------------------------------------------------------
(* The recent list: RecentList.                                              *)

(* Beside the other parts the recent list runs as it does alone.             *)
LEMMA RecentRuns == Spec => Recent!Spec
<1>1. Init => Recent!Init
  BY DEF Init
<1>2. [Next]_vars => [Recent!Next]_(Recent!vars)
  <2>1. ASSUME OthersStay, which # "recent"  PROVE UNCHANGED Recent!vars
    BY <2>1 DEF OthersStay, recentVars, Recent!vars
  <2>2. ASSUME Next  PROVE Recent!Next \/ UNCHANGED Recent!vars
    BY <2>1, <2>2 DEF Next
  <2>3. UNCHANGED vars => UNCHANGED Recent!vars
    BY DEF vars, recentVars, Recent!vars
  <2>4. QED  BY <2>2, <2>3
<1>3. QED  BY <1>1, <1>2, PTL DEF Spec, Recent!Spec

(* What may be on the list: files, and what zips were extracted to.          *)
Items == [path: UserFiles \cup {Extracted[p] : p \in UserFiles}, emulator: Emulators]

(* A list shows what was loaded last, as what is known of the loads has it.  *)
Latest(list, known) ==
  /\ \A i \in 1..Len(list): list[i] \in DOMAIN known
  /\ \A i, j \in 1..Len(list): i < j => list[j] \in known[list[i]]
  /\ \A item \in DOMAIN known:
       \/ Recent!Contains(list, item)
       \/ /\ Len(list) = MaxRecent
          /\ \A i \in 1..Len(list): item \in known[list[i]]

(* Nothing was loaded before itself.                                         *)
NoneBeforeItself(known) == \A item \in DOMAIN known: item \notin known[item]

(* No zip was extracted so far.                                              *)
NoneExtracts == \A item \in DOMAIN history: ~Recent!Extracts(item)

(* What holds however the games were loaded.                                 *)
Listed == recent \in Seq(Items) /\ Recent!FrontIsPlayed /\ Recent!FitsMenu

(* The order, as long as none was extracted, and of what is known.           *)
InOrder ==
  /\ NoneBeforeItself(history)
  /\ NoneExtracts => Latest(recent, history)

(* Both together.                                                            *)
RecentInv == Listed /\ InOrder

-----------------------------------------------------------------------------
(* Some numbers have a least one.                                            *)
LEMMA HasLeast ==
  ASSUME NEW S, S \subseteq Nat, S # {}
  PROVE  Recent!Min(S) \in S /\ \A y \in S : Recent!Min(S) <= y
<1> DEFINE less == OpToRel(<, Nat)
<1>1. IsWellFoundedOn(less, Nat)
  BY NatLessThanWellFounded
<1>2. \A x, y \in Nat: <<y, x>> \in less <=> y < x
  BY DEF OpToRel
<1> HIDE DEF less
<1>3. PICK x \in S: \A y \in S: ~(<<y, x>> \in less)
  BY <1>1, WFMin
<1>4. ASSUME NEW y \in S  PROVE x =< y
  <2>1. ~(y < x) /\ x \in Nat /\ y \in Nat
    BY <1>2, <1>3
  <2>2. QED  BY <2>1
<1>5. QED  BY <1>4 DEF Recent!Min

(* Where an item is on the list.                                             *)
Place(list, item) == Recent!SelectInSeq(list, LAMBDA x: x = item)

(* An item that is found is where it is found.                               *)
LEMMA FoundIn ==
  ASSUME NEW list \in Seq(Items), NEW item
  PROVE  /\ Recent!Contains(list, item) =>
              Place(list, item) \in 1..Len(list) /\ list[Place(list, item)] = item
         /\ ~Recent!Contains(list, item) => Place(list, item) = 0
<1> DEFINE Places == {i \in 1..Len(list): list[i] = item}
<1>1. Place(list, item) = IF Places # {} THEN Recent!Min(Places) ELSE 0
  BY DEF Place, Recent!SelectInSeq
<1>2. Recent!Contains(list, item) <=> Places # {}
  BY DEF Recent!Contains
<1>3. Places # {} => Recent!Min(Places) \in Places
  <2>1. Places \subseteq Nat  OBVIOUS
  <2> HIDE DEF Places
  <2>2. QED  BY <2>1, HasLeast
<1>4. QED  BY <1>1, <1>2, <1>3

-----------------------------------------------------------------------------
(* The lists that a load makes.                                              *)

(* Where the entries of a list go when one of them is moved to the front.    *)
Moved(list, i, k) == IF k = 1 THEN list[i] ELSE IF k <= i THEN list[k - 1] ELSE list[k]

(* A list with an entry moved to the front has the same length.              *)
LEMMA MovedToFront ==
  ASSUME NEW list \in Seq(Items), NEW i \in 1..Len(list)
  PROVE  /\ Recent!ToFront(list, i) \in Seq(Items)
         /\ Len(Recent!ToFront(list, i)) = Len(list)
         /\ Recent!ToFront(list, i)[1] = list[i]
         /\ \A k \in 1..Len(list): Recent!ToFront(list, i)[k] = Moved(list, i, k)
<1> DEFINE front == SubSeq(list, 1, i - 1)
           behind == SubSeq(list, i + 1, Len(list))
           rest   == front \o behind
<1>1. /\ front \in Seq(Items) /\ Len(front) = i - 1
      /\ \A k \in 1..(i - 1): front[k] = list[k]
  OBVIOUS
<1>2. /\ behind \in Seq(Items) /\ Len(behind) = Len(list) - i
      /\ \A k \in 1..(Len(list) - i): behind[k] = list[i + k]
  OBVIOUS
<1> HIDE DEF front, behind
<1>3. /\ rest \in Seq(Items) /\ Len(rest) = Len(list) - 1
      /\ \A k \in 1..(Len(list) - 1): rest[k] = IF k < i THEN list[k] ELSE list[k + 1]
  <2>1. rest \in Seq(Items) /\ Len(rest) = Len(list) - 1
    BY <1>1, <1>2
  <2>2. ASSUME NEW k \in 1..(Len(list) - 1), k < i  PROVE rest[k] = list[k]
    BY <1>1, <1>2, <2>2
  <2>3. ASSUME NEW k \in 1..(Len(list) - 1), ~(k < i)  PROVE rest[k] = list[k + 1]
    <3>1. rest[k] = behind[k - (i - 1)] /\ k - (i - 1) \in 1..(Len(list) - i)
      BY <1>1, <1>2, <2>3
    <3>2. i + (k - (i - 1)) = k + 1
      OBVIOUS
    <3>3. QED  BY <1>2, <3>1, <3>2
  <2>4. QED  BY <2>1, <2>2, <2>3
<1>4. list[i] \in Items /\ Recent!ToFront(list, i) = <<list[i]>> \o rest
  BY DEF Recent!ToFront, Recent!RemoveAt, front, behind
<1> HIDE DEF rest
<1>5. /\ <<list[i]>> \o rest \in Seq(Items)
      /\ Len(<<list[i]>> \o rest) = 1 + Len(rest)
      /\ (<<list[i]>> \o rest)[1] = list[i]
      /\ \A k \in 2..Len(list): (<<list[i]>> \o rest)[k] = rest[k - 1]
  BY <1>3, <1>4
<1>6. ASSUME NEW k \in 1..Len(list)  PROVE Recent!ToFront(list, i)[k] = Moved(list, i, k)
  <2>1. CASE k = 1
    BY <1>4, <1>5, <2>1 DEF Moved
  <2>2. CASE k # 1
    <3>1. k \in 2..Len(list) /\ k - 1 \in 1..(Len(list) - 1)
      BY <2>2
    <3>2. Recent!ToFront(list, i)[k] = IF k - 1 < i THEN list[k - 1] ELSE list[(k - 1) + 1]
      BY <1>3, <1>4, <1>5, <3>1
    <3>3. (k - 1 < i <=> k <= i) /\ (k - 1) + 1 = k
      OBVIOUS
    <3>4. QED  BY <2>2, <3>2, <3>3 DEF Moved
  <2>3. QED  BY <2>1, <2>2
<1>7. /\ Recent!ToFront(list, i) \in Seq(Items)
      /\ Len(Recent!ToFront(list, i)) = Len(list)
      /\ Recent!ToFront(list, i)[1] = list[i]
  BY <1>3, <1>4, <1>5
<1>8. QED  BY <1>6, <1>7

(* Remembering puts an item in front of a list that still fits.              *)
LEMMA Remembered ==
  ASSUME NEW list \in Seq(Items), NEW item \in Items, Len(list) <= MaxRecent
  PROVE  /\ Recent!Remember(list, item) \in Seq(Items)
         /\ Len(Recent!Remember(list, item)) \in 1..MaxRecent
         /\ Recent!Remember(list, item)[1] = item
<1>1. CASE Recent!Contains(list, item)
  <2> DEFINE i == Place(list, item)
  <2>1. i \in 1..Len(list) /\ list[i] = item
    BY <1>1, FoundIn
  <2>2. Recent!Remember(list, item) = Recent!ToFront(list, i)
    BY <1>1 DEF Recent!Remember, Place
  <2> HIDE DEF i
  <2>3. QED  BY <2>1, <2>2, MovedToFront
<1>2. CASE ~Recent!Contains(list, item)
  <2> DEFINE kept == SubSeq(list, 1, IF Len(list) = MaxRecent THEN MaxRecent - 1
                                                             ELSE Len(list))
  <2>1. kept \in Seq(Items) /\ Len(kept) <= MaxRecent - 1
    BY MenuAssumption
  <2>2. Recent!Remember(list, item) = <<item>> \o kept
    BY <1>2 DEF Recent!Remember
  <2> HIDE DEF kept
  <2>3. /\ <<item>> \o kept \in Seq(Items)
        /\ Len(<<item>> \o kept) = 1 + Len(kept)
        /\ (<<item>> \o kept)[1] = item
    BY <2>1
  <2>4. QED  BY MenuAssumption, <2>1, <2>2, <2>3
<1>3. QED  BY <1>1, <1>2

(* The entries of a list that is in order are different.                     *)
LEMMA Differ ==
  ASSUME NEW list \in Seq(Items), NEW known, Latest(list, known), NoneBeforeItself(known),
         NEW i \in 1..Len(list), NEW j \in 1..Len(list), i # j
  PROVE  list[i] # list[j]
<1>1. CASE i < j
  BY <1>1 DEF Latest, NoneBeforeItself
<1>2. CASE j < i
  BY <1>2 DEF Latest, NoneBeforeItself
<1>3. QED  BY <1>1, <1>2

(* What the user knows once an item was loaded.                              *)
Learned(known, item) ==
  [other \in DOMAIN known \cup {item} |->
     IF other = item THEN DOMAIN known \ {item} ELSE known[other] \ {item}]

(* The entries of a new list behind its first are those of the old one, in   *)
(* their order, but for the item in front and for the last one of a full     *)
(* list.                                                                     *)
Follows(new, list, item, F) ==
  /\ F \in [2..Len(new) -> 1..Len(list)]
  /\ \A k \in 2..Len(new): new[k] = list[F[k]] /\ list[F[k]] # item
  /\ \A k, m \in 2..Len(new): k < m => F[k] < F[m]
  /\ \A k \in 1..Len(list):
       \/ list[k] = item
       \/ \E m \in 2..Len(new): F[m] = k
       \/ /\ k = Len(list) /\ Len(list) = MaxRecent /\ Len(new) = MaxRecent
          /\ \A m \in 2..Len(new): F[m] < k
  /\ Len(list) = MaxRecent => Len(new) = MaxRecent

(* A list that shows what was loaded last does so when another is loaded.    *)
LEMMA OrderKept ==
  ASSUME NEW list \in Seq(Items), NEW item \in Items, Len(list) <= MaxRecent,
         NEW known, Latest(list, known), NoneBeforeItself(known)
  PROVE  Latest(Recent!Remember(list, item), Learned(known, item))
<1> DEFINE new   == Recent!Remember(list, item)
           after == Learned(known, item)
<1>1. /\ DOMAIN after = DOMAIN known \cup {item}
      /\ after[item] = DOMAIN known \ {item}
      /\ \A other \in DOMAIN known: other # item => after[other] = known[other] \ {item}
  BY DEF Learned
<1>2. new \in Seq(Items) /\ Len(new) \in 1..MaxRecent /\ new[1] = item
  BY Remembered
<1>3. ASSUME NEW G, Follows(new, list, item, G)
      PROVE  Latest(new, after)
  <2> DEFINE F == G
  <2>1. /\ F \in [2..Len(new) -> 1..Len(list)]
        /\ \A k \in 2..Len(new): new[k] = list[F[k]] /\ list[F[k]] # item
        /\ \A k, m \in 2..Len(new): k < m => F[k] < F[m]
        /\ \A k \in 1..Len(list):
             \/ list[k] = item
             \/ \E m \in 2..Len(new): F[m] = k
             \/ /\ k = Len(list) /\ Len(list) = MaxRecent /\ Len(new) = MaxRecent
                /\ \A m \in 2..Len(new): F[m] < k
        /\ Len(list) = MaxRecent => Len(new) = MaxRecent
    BY <1>3 DEF Follows
  <2> HIDE DEF new, after, F
  <2>2. \A k \in 1..Len(list): list[k] \in DOMAIN known
    BY DEF Latest
  <2>3. ASSUME NEW k \in 1..Len(new)  PROVE new[k] \in DOMAIN after
    <3>1. CASE k = 1  BY <1>1, <1>2, <3>1
    <3>2. CASE k # 1
      <4>1. k \in 2..Len(new)  BY <1>2, <3>2
      <4>2. new[k] = list[F[k]] /\ F[k] \in 1..Len(list)  BY <2>1, <4>1
      <4>3. QED  BY <1>1, <2>2, <4>2
    <3>3. QED  BY <3>1, <3>2
  <2>4. ASSUME NEW k \in 1..Len(new), NEW m \in 1..Len(new), k < m
        PROVE  new[m] \in after[new[k]]
    <3>1. m \in 2..Len(new)  BY <1>2, <2>4
    <3>2. new[m] = list[F[m]] /\ new[m] # item /\ F[m] \in 1..Len(list)
      BY <2>1, <3>1
    <3>3. CASE k = 1
      BY <1>1, <1>2, <2>2, <3>2, <3>3
    <3>4. CASE k # 1
      <4>1. k \in 2..Len(new)  BY <1>2, <3>4
      <4>2. /\ new[k] = list[F[k]] /\ new[k] # item /\ F[k] \in 1..Len(list)
            /\ F[k] < F[m]
        BY <2>1, <2>4, <3>1, <4>1
      <4>3. list[F[m]] \in known[list[F[k]]]
        BY <3>2, <4>2 DEF Latest
      <4>4. after[new[k]] = known[new[k]] \ {item}
        BY <1>1, <2>2, <4>2
      <4>5. QED  BY <3>2, <4>2, <4>3, <4>4
    <3>5. QED  BY <3>3, <3>4
  <2>5. ASSUME NEW x \in DOMAIN after, ~Recent!Contains(new, x)
        PROVE  Len(new) = MaxRecent /\ \A k \in 1..Len(new): x \in after[new[k]]
    <3>1. x # item /\ x \in DOMAIN known
      BY <1>1, <1>2, <2>5 DEF Recent!Contains
    <3>2. \A m \in 2..Len(new): list[F[m]] # x
      BY <1>2, <2>1, <2>5 DEF Recent!Contains
    <3>3. /\ Len(new) = MaxRecent
          /\ \A m \in 2..Len(new): x \in known[list[F[m]]]
      <4>1. CASE Recent!Contains(list, x)
        <5>1. PICK k \in 1..Len(list): list[k] = x
          BY <4>1 DEF Recent!Contains
        <5>2. /\ k = Len(list) /\ Len(new) = MaxRecent
              /\ \A m \in 2..Len(new): F[m] < k
          BY <2>1, <3>1, <3>2, <5>1
        <5>3. \A m \in 2..Len(new): F[m] \in 1..Len(list) /\ list[k] \in known[list[F[m]]]
          BY <2>1, <5>1, <5>2 DEF Latest
        <5>4. QED  BY <5>1, <5>2, <5>3
      <4>2. CASE ~Recent!Contains(list, x)
        <5>1. Len(list) = MaxRecent /\ \A k \in 1..Len(list): x \in known[list[k]]
          BY <3>1, <4>2 DEF Latest
        <5>2. \A m \in 2..Len(new): F[m] \in 1..Len(list)
          BY <2>1
        <5>3. QED  BY <2>1, <5>1, <5>2
      <4>3. QED  BY <4>1, <4>2
    <3>4. ASSUME NEW k \in 1..Len(new)  PROVE x \in after[new[k]]
      <4>1. CASE k = 1
        BY <1>1, <1>2, <3>1, <4>1
      <4>2. CASE k # 1
        <5>1. k \in 2..Len(new)  BY <1>2, <4>2
        <5>2. new[k] = list[F[k]] /\ new[k] # item /\ F[k] \in 1..Len(list)
          BY <2>1, <5>1
        <5>3. after[new[k]] = known[new[k]] \ {item}
          BY <1>1, <2>2, <5>2
        <5>4. QED  BY <3>1, <3>3, <5>1, <5>2, <5>3
      <4>3. QED  BY <4>1, <4>2
    <3>5. QED  BY <3>3, <3>4
  <2>6. QED  BY <2>3, <2>4, <2>5 DEF Latest
<1> HIDE DEF after
<1>4. CASE Recent!Contains(list, item)
  <2> DEFINE p == Place(list, item)
  <2>1. p \in 1..Len(list) /\ list[p] = item
    BY <1>4, FoundIn
  <2>2. new = Recent!ToFront(list, p)
    BY <1>4 DEF Recent!Remember, Place
  <2> HIDE DEF p, new
  <2>3. /\ Len(new) = Len(list)
        /\ \A k \in 1..Len(list): new[k] = Moved(list, p, k)
    BY <2>1, <2>2, MovedToFront
  <2> DEFINE F == [k \in 2..Len(new) |-> IF k <= p THEN k - 1 ELSE k]
  <2>4. F \in [2..Len(new) -> 1..Len(list)]
    BY <2>1, <2>3
  <2>5. \A k \in 1..Len(list): k # p => list[k] # item
    BY <2>1, Differ
  <2>6. ASSUME NEW k \in 2..Len(new)  PROVE new[k] = list[F[k]] /\ list[F[k]] # item
    <3>1. k \in 1..Len(list) /\ k # 1 /\ F[k] \in 1..Len(list) /\ F[k] # p
      BY <2>1, <2>3
    <3>2. new[k] = list[F[k]]
      BY <2>3, <3>1 DEF Moved
    <3>3. QED  BY <2>5, <3>1, <3>2
  <2>7. \A k, m \in 2..Len(new): k < m => F[k] < F[m]
    BY <2>1, <2>3
  <2>8. ASSUME NEW k \in 1..Len(list)
        PROVE  list[k] = item \/ \E m \in 2..Len(new): F[m] = k
    <3>1. CASE k = p  BY <2>1, <3>1
    <3>2. CASE k < p
      <4>1. k + 1 \in 2..Len(new) /\ F[k + 1] = k
        BY <2>1, <2>3, <3>2
      <4>2. QED  BY <4>1
    <3>3. CASE k > p
      <4>1. k \in 2..Len(new) /\ F[k] = k
        BY <2>1, <2>3, <3>3
      <4>2. QED  BY <4>1
    <3>4. QED  BY <2>1, <3>1, <3>2, <3>3
  <2> HIDE DEF F
  <2>9. Follows(new, list, item, F)
    BY <2>3, <2>4, <2>6, <2>7, <2>8 DEF Follows
  <2>10. QED  BY <1>3, <2>9 DEF new, after
<1>5. CASE ~Recent!Contains(list, item)
  <2> DEFINE n == IF Len(list) = MaxRecent THEN MaxRecent - 1 ELSE Len(list)
             kept == SubSeq(list, 1, n)
  <2>1. /\ n \in Nat /\ n <= Len(list) /\ n < MaxRecent
        /\ n = Len(list) \/ (Len(list) = MaxRecent /\ n = Len(list) - 1)
    BY MenuAssumption
  <2>2. /\ kept \in Seq(Items) /\ Len(kept) = n
        /\ \A k \in 1..n: kept[k] = list[k]
    BY <2>1
  <2>3. new = <<item>> \o kept
    BY <1>5 DEF Recent!Remember
  <2> HIDE DEF n, kept, new
  <2>4. /\ Len(new) = n + 1
        /\ \A k \in 2..(n + 1): new[k] = kept[k - 1]
    BY <2>1, <2>2, <2>3
  <2> DEFINE F == [k \in 2..Len(new) |-> k - 1]
  <2>5. F \in [2..Len(new) -> 1..Len(list)]
    BY <2>1, <2>4
  <2>6. ASSUME NEW k \in 2..Len(new)  PROVE new[k] = list[F[k]] /\ list[F[k]] # item
    <3>1. k - 1 \in 1..n /\ k - 1 \in 1..Len(list) /\ F[k] = k - 1 /\ k \in 2..(n + 1)
      BY <2>1, <2>4
    <3>2. list[k - 1] # item
      BY <1>5, <3>1 DEF Recent!Contains
    <3>3. QED  BY <2>2, <2>4, <3>1, <3>2
  <2>7. \A k, m \in 2..Len(new): k < m => F[k] < F[m]
    OBVIOUS
  <2>8. ASSUME NEW k \in 1..Len(list)
        PROVE  \/ \E m \in 2..Len(new): F[m] = k
               \/ /\ k = Len(list) /\ Len(list) = MaxRecent /\ Len(new) = MaxRecent
                  /\ \A m \in 2..Len(new): F[m] < k
    <3>1. CASE k <= n
      <4>1. k + 1 \in 2..Len(new) /\ F[k + 1] = k
        BY <2>1, <2>4, <3>1
      <4>2. QED  BY <4>1
    <3>2. CASE ~(k <= n)
      BY <2>1, <2>4, <3>2
    <3>3. QED  BY <3>1, <3>2
  <2>9. Len(list) = MaxRecent => Len(new) = MaxRecent
    BY <2>1, <2>4
  <2> HIDE DEF F
  <2>10. Follows(new, list, item, F)
    BY <2>5, <2>6, <2>7, <2>8, <2>9 DEF Follows
  <2>11. QED  BY <1>3, <2>10 DEF new, after
<1>6. QED  BY <1>4, <1>5

(* Renaming keeps the length.                                                *)
LEMMA Renamed ==
  ASSUME NEW list \in Seq(Items), NEW item \in Items, item.path \in UserFiles
  PROVE  /\ Recent!Rename(list, item) \in Seq(Items)
         /\ Len(Recent!Rename(list, item)) = Len(list)
<1> DEFINE i == Place(list, item)
<1>1. CASE Recent!Contains(list, item)
  <2>1. i \in 1..Len(list)
    BY <1>1, FoundIn
  <2>2. Recent!Rename(list, item) =
          [Recent!ToFront(list, i) EXCEPT ![i].path = Extracted[item.path]]
    BY <2>1 DEF Recent!Rename, Place
  <2> HIDE DEF i
  <2>3. Recent!ToFront(list, i) \in Seq(Items) /\ Len(Recent!ToFront(list, i)) = Len(list)
    BY <2>1, MovedToFront
  <2>4. [Recent!ToFront(list, i)[i] EXCEPT !.path = Extracted[item.path]] \in Items
    <3>1. Recent!ToFront(list, i)[i] \in Items
      BY <2>1, <2>3
    <3>2. PICK name \in UserFiles \cup {Extracted[p] : p \in UserFiles} :
            name = Extracted[item.path]
      OBVIOUS
    <3>3. \A entry \in Items : [entry EXCEPT !.path = name] \in Items
      BY DEF Items
    <3>4. QED  BY <3>1, <3>2, <3>3
  <2>5. QED  BY <2>1, <2>2, <2>3, <2>4
<1>2. CASE ~Recent!Contains(list, item)
  <2>1. i = 0  BY <1>2, FoundIn
  <2>2. QED  BY <2>1 DEF Recent!Rename, Place
<1>3. QED  BY <1>1, <1>2

-----------------------------------------------------------------------------

(* A load leaves a list that fits, with what is played in front.             *)
LEMMA ListedKept ==
  ASSUME Listed, NEW item \in Items, item.path \in UserFiles,
         NEW ok \in BOOLEAN, Recent!Load(item, ok)
  PROVE  Listed'
<1>1. recent \in Seq(Items) /\ Len(recent) <= MaxRecent
  BY DEF Listed, Recent!FitsMenu
<1>2. playing' = IF ok THEN item ELSE NoItem
  BY DEF Recent!Load
<1>3. ASSUME recent' \in Seq(Items), Len(recent') <= MaxRecent,
             ok => Len(recent') >= 1 /\ recent'[1] = item
      PROVE  Listed'
  <2>1. ok => recent' # <<>>
    BY <1>3
  <2>2. QED  BY <1>2, <1>3, <2>1 DEF Listed, Recent!FitsMenu, Recent!FrontIsPlayed
<1>4. CASE Recent!LoadPlain(item, ok)
  <2>1. CASE ok
    <3>1. recent' = Recent!Remember(recent, item)  BY <1>4, <2>1 DEF Recent!LoadPlain
    <3>2. /\ Recent!Remember(recent, item) \in Seq(Items)
          /\ Len(Recent!Remember(recent, item)) \in 1..MaxRecent
          /\ Recent!Remember(recent, item)[1] = item
      BY <1>1, Remembered
    <3>3. QED  BY <1>3, <3>1, <3>2
  <2>2. CASE ~ok
    BY <1>1, <1>3, <1>4, <2>2 DEF Recent!LoadPlain
  <2>3. QED  BY <2>1, <2>2
<1>5. CASE Recent!LoadZip(item, ok)
  <2> DEFINE extracted == [item EXCEPT !.path = Extracted[item.path]]
             renamed   == Recent!Rename(recent, item)
             after     == Recent!Remember(renamed, extracted)
  <2>1. /\ renamed \in Seq(Items) /\ Len(renamed) = Len(recent)
        /\ Len(renamed) <= MaxRecent
    BY <1>1, Renamed
  <2>2. /\ extracted \in Items
        /\ [extracted EXCEPT !.path = item.path] = item
    <3>1. PICK name \in UserFiles \cup {Extracted[p] : p \in UserFiles} :
            name = Extracted[item.path]
      OBVIOUS
    <3>2. /\ [item EXCEPT !.path = name] \in Items
          /\ [[item EXCEPT !.path = name] EXCEPT !.path = item.path] = item
      BY DEF Items
    <3>3. QED  BY <3>1, <3>2
  <2>3. recent' = IF ok THEN [after EXCEPT ![1].path = item.path]
                  ELSE IF Recent!Contains(recent, item)
                    THEN [renamed EXCEPT ![1].path = item.path]
                    ELSE recent
    BY <1>5 DEF Recent!LoadZip
  <2>4. \A list \in Seq(Items) : Len(list) >= 1 =>
          /\ [list EXCEPT ![1].path = item.path] \in Seq(Items)
          /\ Len([list EXCEPT ![1].path = item.path]) = Len(list)
          /\ [list EXCEPT ![1].path = item.path][1] =
               [list[1] EXCEPT !.path = item.path]
    <3> SUFFICES ASSUME NEW list \in Seq(Items), Len(list) >= 1
                 PROVE  /\ [list EXCEPT ![1].path = item.path] \in Seq(Items)
                        /\ Len([list EXCEPT ![1].path = item.path]) = Len(list)
                        /\ [list EXCEPT ![1].path = item.path][1] =
                             [list[1] EXCEPT !.path = item.path]
      OBVIOUS
    <3>1. list[1] \in Items
      OBVIOUS
    <3>2. [list[1] EXCEPT !.path = item.path] \in Items
      BY <3>1 DEF Items
    <3>3. QED  BY <3>2
  <2> HIDE DEF extracted, renamed, after
  <2>5. CASE ok
    <3>1. /\ after \in Seq(Items) /\ Len(after) \in 1..MaxRecent
          /\ after[1] = extracted
      BY <2>1, <2>2, Remembered DEF after
    <3>2. recent' = [after EXCEPT ![1].path = item.path]
      BY <2>3, <2>5
    <3>3. /\ recent' \in Seq(Items) /\ Len(recent') = Len(after)
          /\ recent'[1] = item
      BY <2>2, <2>4, <3>1, <3>2
    <3>4. QED  BY <1>3, <3>1, <3>3
  <2>6. CASE ~ok /\ Recent!Contains(recent, item)
    <3>1. Len(renamed) >= 1
      BY <1>1, <2>1, <2>6 DEF Recent!Contains
    <3>2. recent' \in Seq(Items) /\ Len(recent') = Len(renamed)
      BY <2>1, <2>3, <2>4, <2>6, <3>1
    <3>3. QED  BY <1>3, <2>1, <2>6, <3>2
  <2>7. CASE ~ok /\ ~Recent!Contains(recent, item)
    BY <1>1, <1>3, <2>3, <2>7
  <2>8. QED  BY <2>5, <2>6, <2>7
<1>6. QED  BY <1>4, <1>5 DEF Recent!Load

(* A load keeps the order. A zip that is extracted ends what the order       *)
(* promises; one that cannot be loaded was not on a list that has none.      *)
LEMMA OrderIsKept ==
  ASSUME RecentInv, NEW item \in Items, item.path \in UserFiles,
         NEW ok \in BOOLEAN, Recent!Load(item, ok)
  PROVE  InOrder'
<1>1. /\ recent \in Seq(Items) /\ Len(recent) <= MaxRecent
      /\ NoneBeforeItself(history)
      /\ NoneExtracts => Latest(recent, history)
  BY DEF RecentInv, Listed, InOrder, Recent!FitsMenu
<1>2. CASE ok
  <2>1. history' = Learned(history, item)
    BY <1>2 DEF Recent!Load, Recent!Loaded, Learned
  <2>2. NoneBeforeItself(Learned(history, item))
    BY <1>1 DEF NoneBeforeItself, Learned
  <2>3. NoneBeforeItself(history')
    BY <2>1, <2>2
  <2>4. ASSUME NoneExtracts'  PROVE Latest(recent', history')
    <3>1. DOMAIN history' = DOMAIN history \cup {item}
      BY <2>1 DEF Learned
    <3>2. NoneExtracts /\ ~Recent!Extracts(item)
      BY <2>4, <3>1 DEF NoneExtracts, Recent!Extracts
    <3>3. recent' = Recent!Remember(recent, item)
      BY <1>2, <3>2 DEF Recent!Load, Recent!LoadPlain, Recent!LoadZip
    <3>4. Latest(Recent!Remember(recent, item), Learned(history, item))
      BY <1>1, <3>2, OrderKept
    <3>5. QED  BY <2>1, <3>3, <3>4
  <2>5. QED  BY <2>3, <2>4 DEF InOrder, NoneBeforeItself, Latest
<1>3. CASE ~ok
  <2>1. UNCHANGED history
    BY <1>3 DEF Recent!Load
  <2>2. ASSUME NoneExtracts'  PROVE NoneExtracts /\ UNCHANGED recent
    <3>1. NoneExtracts
      BY <2>1, <2>2 DEF NoneExtracts, Recent!Extracts
    <3>2. Recent!Contains(recent, item) => item \in DOMAIN history
      BY <1>1, <3>1 DEF Latest, Recent!Contains
    <3>3. Recent!Extracts(item) => ~Recent!Contains(recent, item)
      BY <3>1, <3>2 DEF NoneExtracts
    <3>4. QED  BY <1>3, <3>1, <3>3 DEF Recent!Load, Recent!LoadPlain, Recent!LoadZip
  <2>3. QED  BY <1>1, <2>1, <2>2 DEF InOrder, NoneBeforeItself, Latest
<1>4. QED  BY <1>2, <1>3

(* Through extracted archives, failed loads and the nested load that puts a  *)
(* temporary name into the list, the menu shows the items loaded last, each  *)
(* once, with the game that is played in front, and no more than it has room *)
(* for.                                                                      *)
THEOREM MenuStaysRight == Spec => []MenuIsRight
<1>1. Recent!Init => RecentInv
  <2>1. ASSUME Recent!Init  PROVE Listed
    BY <2>1, MenuAssumption DEF Recent!Init, Listed, Recent!FrontIsPlayed, Recent!FitsMenu
  <2>2. ASSUME Recent!Init  PROVE InOrder
    <3>1. recent = <<>> /\ DOMAIN history = {}
      BY <2>2 DEF Recent!Init
    <3>2. QED  BY <3>1 DEF InOrder, NoneBeforeItself, Latest
  <2>3. QED  BY <2>1, <2>2 DEF RecentInv
<1>2. RecentInv /\ [Recent!Next]_(Recent!vars) => RecentInv'
  <2>1. ASSUME RecentInv, NEW item \in Items, item.path \in UserFiles, NEW ok \in BOOLEAN,
               Recent!Load(item, ok)
        PROVE  RecentInv'
    BY <2>1, ListedKept, OrderIsKept DEF RecentInv
  <2>2. ASSUME RecentInv, Recent!LoadFile  PROVE RecentInv'
    <3>1. PICK p \in UserFiles, e \in Emulators, ok \in BOOLEAN :
            Recent!Load([path |-> p, emulator |-> e], ok)
      BY <2>2 DEF Recent!LoadFile
    <3>2. [path |-> p, emulator |-> e] \in Items  BY DEF Items
    <3>3. QED  BY <2>1, <2>2, <3>1, <3>2
  <2>3. ASSUME RecentInv, Recent!LoadRecent  PROVE RecentInv'
    <3>1. PICK i \in 1..Len(recent), ok \in BOOLEAN :
            recent[i].path \in UserFiles /\ Recent!Load(recent[i], ok)
      BY <2>3 DEF Recent!LoadRecent
    <3>2. recent[i] \in Items  BY <2>3 DEF RecentInv, Listed
    <3>3. QED  BY <2>1, <2>3, <3>1, <3>2
  <2>4. RecentInv /\ UNCHANGED Recent!vars => RecentInv'
    BY DEF RecentInv, Listed, InOrder, NoneBeforeItself, NoneExtracts, Latest,
           Recent!Extracts, Recent!Contains, Recent!vars, Recent!FrontIsPlayed, Recent!FitsMenu
  <2>5. QED  BY <2>2, <2>3, <2>4 DEF Recent!Next
<1>3. RecentInv => MenuIsRight
  BY DEF RecentInv, Listed, InOrder, NoneExtracts, Latest, MenuIsRight, Recent!MenuIsRight,
         Recent!ShowsLatest
<1>4. QED  BY <1>1, <1>2, <1>3, RecentRuns, PTL DEF Recent!Spec

-----------------------------------------------------------------------------
(* The hash of a file that may be unfinished: HashFile.                      *)

(* Beside the other parts the hashing runs as it does alone.                 *)
LEMMA HashRuns == Spec => Hash!Spec
<1>1. Init => Hash!Init
  BY DEF Init
<1>2. [Next]_vars => [Hash!Next]_(Hash!vars)
  <2>1. ASSUME OthersStay, which # "hash"  PROVE UNCHANGED Hash!vars
    BY <2>1 DEF OthersStay, hashVars, Hash!vars
  <2>2. ASSUME Next  PROVE Hash!Next \/ UNCHANGED Hash!vars
    BY <2>1, <2>2 DEF Next
  <2>3. UNCHANGED vars => UNCHANGED Hash!vars
    BY DEF vars, hashVars, Hash!vars
  <2>4. QED  BY <2>2, <2>3
<1>3. QED  BY <1>1, <1>2, PTL DEF Spec, Hash!Spec

(* There is a value for every caller.                                        *)
HashDomains ==
  /\ DOMAIN job = Callers /\ DOMAIN expected = Callers /\ DOMAIN written = Callers
  /\ DOMAIN at = Callers /\ DOMAIN ctx = Callers /\ DOMAIN before = Callers
  /\ DOMAIN result = Callers

(* A caller's file is the only one, and its final size is known.             *)
Alone(t) == expected[t] # 0 /\ Len(job[t].sizes) = 1

(* What is on the disk grows to the final sizes.                             *)
Grows(t) ==
  /\ job[t].sizes \in Seq(Nat) \ {<<>>}
  /\ written[t] \in [DOMAIN job[t].sizes -> Nat]
  /\ \A f \in DOMAIN job[t].sizes : written[t][f] <= job[t].sizes[f]
  /\ at[t] # "new" => job[t] \in Jobs /\ expected[t] \in {0, job[t].sizes[1]}

(* Once the size was looked at, the only file is all there.                  *)
Complete(t) ==
  at[t] \in {"waits", "hashes", "ends"} /\ Alone(t) =>
    before[t] = job[t].sizes /\ written[t] = job[t].sizes

(* The library is a caller's own while it hashes.                            *)
Owns(t) ==
  /\ at[t] \in {"hashes", "ends"} <=> lock = t
  /\ lock = t => cdreader = Hash!Reader(t) /\ ctx[t].readers \subseteq {Hash!Reader(t)}

(* What there is to be read of a file that is all there, piece by piece.     *)
Wanted(j) ==
  IF j.whole THEN <<[file |-> 1, from |-> 0, count |-> j.sizes[1]]>> ELSE j.reads
Piece(j, i) ==
  [file |-> Wanted(j)[i].file, from |-> Wanted(j)[i].from,
   count |-> Hash!Got(j.sizes[Wanted(j)[i].file], Wanted(j)[i].from, Wanted(j)[i].count)]

(* What was read of such a file is what there is.                            *)
ReadSoFar(t) ==
  at[t] \in {"hashes", "ends"} /\ Alone(t) =>
    /\ ctx[t].next \in 1..(Len(Wanted(job[t])) + 1)
    /\ ctx[t].read = [i \in 1..(ctx[t].next - 1) |-> Piece(job[t], i)]
    /\ at[t] = "ends" => ctx[t].next = Len(Wanted(job[t])) + 1

(* Only who knows how long the file will be asks for more.                   *)
AsksWithReason(t) ==
  /\ ctx[t].needMore => expected[t] # 0
  /\ result[t] = "more" => expected[t] # 0
  /\ at[t] = "new" => result[t] = "none" /\ ~ctx[t].needMore

(* What was returned stays true.                                             *)
Returned(t) ==
  result[t] \in {"done", "failed"} =>
    /\ at[t] = "over"
    /\ ctx[t].readers \subseteq {Hash!Reader(t)}
    /\ Alone(t) => before[t] = job[t].sizes /\ (result[t] = "done" => Hash!OfFinished(t))

(* What holds of each caller,                                                *)
OfCaller(t) ==
  Grows(t) /\ Complete(t) /\ Owns(t) /\ ReadSoFar(t) /\ AsksWithReason(t) /\ Returned(t)

(* and so of all.                                                            *)
HashInv == HashDomains /\ \A t \in Callers : OfCaller(t)

(* A caller is not disturbed by another.                                     *)
LEMMA Undisturbed ==
  ASSUME NEW t, OfCaller(t),
         job[t]' = job[t], expected[t]' = expected[t], written[t]' = written[t],
         at[t]' = at[t], ctx[t]' = ctx[t], before[t]' = before[t], result[t]' = result[t],
         lock' = t <=> lock = t, lock = t => cdreader' = cdreader
  PROVE  OfCaller(t)'
<1>1. Alone(t)' = Alone(t) /\ Hash!Reader(t)' = Hash!Reader(t)
  BY DEF Alone, Hash!Reader
<1>2. Grows(t)'  BY DEF OfCaller, Grows
<1>3. Complete(t)'  BY <1>1 DEF OfCaller, Complete
<1>4. Owns(t)'  BY <1>1 DEF OfCaller, Owns
<1>5. ReadSoFar(t)'  BY <1>1 DEF OfCaller, ReadSoFar
<1>6. AsksWithReason(t)'  BY DEF OfCaller, AsksWithReason
<1>7. Returned(t)'
  <2>1. Hash!OfFinished(t)' = Hash!OfFinished(t)
    BY DEF Hash!OfFinished
  <2>2. QED  BY <1>1, <2>1 DEF OfCaller, Returned
<1>8. QED  BY <1>2, <1>3, <1>4, <1>5, <1>6, <1>7 DEF OfCaller

(* The rest of a caller's facts, where only what is not read is changed.     *)
LEMMA BeginKeeps ==
  ASSUME HashInv, NEW t \in Callers, NEW j \in Jobs, NEW known \in BOOLEAN,
         Hash!Begin(t, j, known)
  PROVE  OfCaller(t)'
<1>1. /\ at[t] = "new" /\ at'[t] = "writes" /\ job'[t] = j /\ lock' = lock
      /\ expected'[t] = IF known THEN j.sizes[1] ELSE 0
      /\ written'[t] = [f \in DOMAIN j.sizes |-> 0]
      /\ ctx'[t] = ctx[t] /\ result'[t] = result[t]
  BY DEF Hash!Begin, HashInv, HashDomains
<1>2. lock # t /\ ~ctx[t].needMore /\ result[t] = "none"
  BY <1>1 DEF HashInv, OfCaller, Owns, AsksWithReason
<1>3. j.sizes \in Seq(Nat) \ {<<>>}
  BY HashAssumption
<1>4. Grows(t)'
  BY <1>1, <1>3 DEF Grows
<1>5. Complete(t)' /\ Owns(t)' /\ ReadSoFar(t)' /\ AsksWithReason(t)' /\ Returned(t)'
  BY <1>1, <1>2 DEF Complete, Owns, ReadSoFar, AsksWithReason, Returned
<1>6. QED  BY <1>4, <1>5 DEF OfCaller

(* The writer adds to a file that is not complete.                           *)
LEMMA WriteKeeps ==
  ASSUME HashInv, NEW t \in Callers, NEW f \in DOMAIN written[t], at[t] # "new",
         Hash!Write(t, f)
  PROVE  OfCaller(t)'
<1>1. /\ written[t][f] < job[t].sizes[f]
      /\ written'[t] = [written[t] EXCEPT ![f] = @ + 1]
      /\ UNCHANGED <<job, expected, at, lock, cdreader, ctx, before, result>>
  BY DEF Hash!Write, HashInv, HashDomains
<1>2. OfCaller(t)  BY DEF HashInv
<1>3. Grows(t)'
  BY <1>1, <1>2 DEF OfCaller, Grows
<1>4. Complete(t)'
  BY <1>1, <1>2 DEF OfCaller, Complete, Grows, Alone
<1>5. Owns(t)' /\ ReadSoFar(t)' /\ AsksWithReason(t)'
  BY <1>1, <1>2 DEF OfCaller, Owns, ReadSoFar, AsksWithReason, Alone, Hash!Reader
<1>6. Returned(t)'
  BY <1>1, <1>2 DEF OfCaller, Returned, Alone, Hash!Reader, Hash!OfFinished
<1>7. QED  BY <1>3, <1>4, <1>5, <1>6 DEF OfCaller

(* Before the library is asked.                                              *)
LEMMA CallKeeps ==
  ASSUME HashInv, NEW t \in Callers, Hash!HashFile(t) \/ Hash!Refuse(t)
  PROVE  OfCaller(t)'
<1>1. /\ at[t] = "writes" /\ before'[t] = written[t]
      /\ UNCHANGED <<job, expected, written, lock, cdreader, ctx>>
      /\ \/ /\ at'[t] = "writes" /\ result'[t] = "more" /\ expected[t] # 0
         \/ /\ at'[t] = "waits" /\ result'[t] = "none"
            /\ expected[t] = 0 \/ ~(written[t][1] < expected[t])
         \/ at'[t] = "over" /\ result'[t] \in {"invalid", "io"}
  BY DEF Hash!HashFile, Hash!Refuse, Hash!Returns, HashInv, HashDomains
<1>2. OfCaller(t)  BY DEF HashInv
<1>3. lock # t  BY <1>1, <1>2 DEF OfCaller, Owns
<1>4. Grows(t)'  BY <1>1, <1>2 DEF OfCaller, Grows
<1>5. Complete(t)'
  <2> SUFFICES ASSUME at'[t] = "waits", Alone(t)
               PROVE  written[t] = job[t].sizes
    BY <1>1 DEF Complete, Alone
  <2>1. /\ job[t].sizes \in Seq(Nat) /\ Len(job[t].sizes) = 1
        /\ written[t] \in [1..1 -> Nat] /\ written[t][1] <= job[t].sizes[1]
        /\ expected[t] = job[t].sizes[1]
    BY <1>1, <1>2 DEF OfCaller, Grows, Alone
  <2>2. written[t][1] = job[t].sizes[1]
    BY <1>1, <2>1 DEF Alone
  <2>3. QED  BY <2>1, <2>2
<1>6. Owns(t)' /\ ReadSoFar(t)' /\ AsksWithReason(t)' /\ Returned(t)'
  BY <1>1, <1>2, <1>3 DEF OfCaller, Owns, ReadSoFar, AsksWithReason, Returned
<1>7. QED  BY <1>4, <1>5, <1>6 DEF OfCaller

(* Who gets the mutex prepares the library for its own file.                 *)
LEMMA LockKeeps ==
  ASSUME HashInv, NEW t \in Callers, Hash!Lock(t)
  PROVE  OfCaller(t)'
<1>1. /\ at[t] = "waits" /\ lock' = t /\ at'[t] = "hashes" /\ cdreader' = Hash!Reader(t)
      /\ ctx'[t] = Hash!NoContext
      /\ UNCHANGED <<job, expected, written, before, result>>
  BY DEF Hash!Lock, HashInv, HashDomains
<1>2. OfCaller(t)  BY DEF HashInv
<1>3. result[t] \notin {"done", "failed"}  BY <1>1, <1>2 DEF OfCaller, Returned
<1>4. Grows(t)' /\ Complete(t)'  BY <1>1, <1>2 DEF OfCaller, Grows, Complete, Alone
<1>5. Owns(t)' /\ AsksWithReason(t)' /\ Returned(t)'
  BY <1>1, <1>2, <1>3 DEF OfCaller, Owns, AsksWithReason, Returned, Hash!NoContext, Hash!Reader
<1>6. ReadSoFar(t)'
  <2>1. Len(Wanted(job[t])) \in Nat
    BY <1>1, <1>2, HashAssumption DEF OfCaller, Grows, Wanted
  <2>2. ctx'[t].next = 1 /\ ctx'[t].read = <<>> /\ <<>> = [i \in 1..0 |-> Piece(job[t], i)]
    BY <1>1 DEF Hash!NoContext
  <2>3. QED  BY <1>1, <2>1, <2>2 DEF ReadSoFar
<1>7. QED  BY <1>4, <1>5, <1>6 DEF OfCaller

(* A read of a complete file gets what there is.                             *)
LEMMA ReadKeeps ==
  ASSUME HashInv, NEW t \in Callers, Hash!Read(t)
  PROVE  OfCaller(t)'
<1> DEFINE read  == Hash!Reads(t)[ctx[t].next]
           got   == Hash!Got(written[t][read.file], read.from, read.count)
           entry == [file |-> read.file, from |-> read.from, count |-> got]
<1>1. /\ at[t] = "hashes" /\ ctx[t].next <= Len(Hash!Reads(t))
      /\ ctx'[t].read = Append(ctx[t].read, entry)
      /\ ctx'[t].next = ctx[t].next + 1
      /\ ctx'[t].readers = ctx[t].readers \cup {cdreader}
      /\ ctx'[t].needMore => ctx[t].needMore \/ expected[t] # 0
      /\ at'[t] = IF ctx[t].next + 1 > Len(Hash!Reads(t)) THEN "ends" ELSE "hashes"
      /\ UNCHANGED <<job, expected, written, lock, cdreader, before, result>>
  BY Zenon DEF Hash!Read, HashInv, HashDomains
<1>2. OfCaller(t)  BY DEF HashInv
<1> HIDE DEF entry
<1>3. result[t] \notin {"done", "failed"}  BY <1>1, <1>2 DEF OfCaller, Returned
<1>4. Grows(t)' /\ Complete(t)'  BY <1>1, <1>2 DEF OfCaller, Grows, Complete, Alone
<1>5. Owns(t)' /\ AsksWithReason(t)' /\ Returned(t)'
  BY <1>1, <1>2, <1>3 DEF OfCaller, Owns, AsksWithReason, Returned, Hash!Reader
<1>6. ReadSoFar(t)'
  <2> SUFFICES ASSUME Alone(t)
               PROVE  /\ ctx'[t].next \in 1..(Len(Wanted(job[t])) + 1)
                      /\ ctx'[t].read = [i \in 1..(ctx'[t].next - 1) |-> Piece(job[t], i)]
                      /\ at'[t] = "ends" => ctx'[t].next = Len(Wanted(job[t])) + 1
    BY <1>1 DEF ReadSoFar, Alone
  <2> DEFINE n == ctx[t].next
             so == [i \in 1..(n - 1) |-> Piece(job[t], i)]
  <2>1. written[t] = job[t].sizes
    BY <1>1, <1>2 DEF OfCaller, Complete
  <2>2. Hash!Reads(t) = Wanted(job[t])
    BY <2>1 DEF Hash!Reads, Wanted
  <2>3. entry = Piece(job[t], n)
    BY <2>1, <2>2 DEF entry, Piece
  <2>4. n \in 1..(Len(Wanted(job[t])) + 1) /\ ctx[t].read = so
    BY <1>1, <1>2 DEF OfCaller, ReadSoFar
  <2>5. Len(Wanted(job[t])) \in Nat
    BY <1>1, <1>2, HashAssumption DEF OfCaller, Grows, Wanted
  <2>6. Append(so, Piece(job[t], n)) = [i \in 1..n |-> Piece(job[t], i)]
    <3> DEFINE S == {Piece(job[t], i) : i \in 1..n}
    <3>1. so \in Seq(S) /\ Len(so) = n - 1 /\ Piece(job[t], n) \in S
      BY <2>4
    <3> HIDE DEF S
    <3>2. /\ Append(so, Piece(job[t], n)) \in Seq(S)
          /\ Len(Append(so, Piece(job[t], n))) = n
          /\ \A i \in 1..n : Append(so, Piece(job[t], n))[i] =
                               IF i = n THEN Piece(job[t], n) ELSE so[i]
      BY <2>4, <3>1
    <3>3. QED  BY <2>4, <3>2
  <2> HIDE DEF so
  <2>7. n <= Len(Wanted(job[t])) /\ ctx'[t].next = n + 1
    BY <1>1, <2>2
  <2>8. ctx'[t].read = [i \in 1..n |-> Piece(job[t], i)]
    BY <1>1, <2>3, <2>4, <2>6
  <2>9. (n + 1) - 1 = n /\ n + 1 \in 1..(Len(Wanted(job[t])) + 1)
    BY <2>4, <2>5, <2>7
  <2>10. at'[t] = "ends" => n + 1 = Len(Wanted(job[t])) + 1
    BY <1>1, <2>2, <2>4, <2>5, <2>7
  <2>11. QED  BY <2>7, <2>8, <2>9, <2>10
<1>7. QED  BY <1>4, <1>5, <1>6 DEF OfCaller

(* Who is done has read all of it, and lets the mutex go.                    *)
LEMMA EndKeeps ==
  ASSUME HashInv, NEW t \in Callers, Hash!GiveUp(t) \/ Hash!Done(t)
  PROVE  OfCaller(t)'
<1>1. /\ at[t] \in {"hashes", "ends"} /\ lock' = NoOne
      /\ UNCHANGED <<job, expected, written, cdreader, ctx, before>>
      /\ \/ at'[t] = "writes" /\ result'[t] = "more" /\ ctx[t].needMore
         \/ at'[t] = "over" /\ result'[t] = "failed"
         \/ at[t] = "ends" /\ at'[t] = "over" /\ result'[t] = "done"
  BY DEF Hash!GiveUp, Hash!Done, Hash!Returns, HashInv, HashDomains
<1>2. OfCaller(t)  BY DEF HashInv
<1>3. lock = t /\ lock' # t  BY <1>1, <1>2, HashAssumption DEF OfCaller, Owns
<1>4. Grows(t)' /\ Complete(t)'  BY <1>1, <1>2 DEF OfCaller, Grows, Complete, Alone
<1>5. Owns(t)' /\ AsksWithReason(t)' /\ ReadSoFar(t)'
  BY <1>1, <1>2, <1>3 DEF OfCaller, Owns, AsksWithReason, ReadSoFar
<1>6. Returned(t)'
  <2> SUFFICES ASSUME result'[t] \in {"done", "failed"}
               PROVE  /\ ctx[t].readers \subseteq {Hash!Reader(t)}
                      /\ Alone(t) => before[t] = job[t].sizes
                      /\ Alone(t) /\ result'[t] = "done" => Hash!OfFinished(t)
    <3>1. Hash!OfFinished(t)' = Hash!OfFinished(t)
      BY <1>1 DEF Hash!OfFinished
    <3>2. Alone(t)' = Alone(t) /\ Hash!Reader(t)' = Hash!Reader(t)
      BY <1>1 DEF Alone, Hash!Reader
    <3>3. /\ UNCHANGED <<job, before, ctx>>
          /\ result'[t] \in {"done", "failed"} => at'[t] = "over"
      BY <1>1
    <3>4. QED  BY <3>1, <3>2, <3>3 DEF Returned
  <2>1. ctx[t].readers \subseteq {Hash!Reader(t)}
    BY <1>2, <1>3 DEF OfCaller, Owns
  <2>2. Alone(t) => before[t] = job[t].sizes
    BY <1>1, <1>2 DEF OfCaller, Complete
  <2>3. ASSUME Alone(t), result'[t] = "done"  PROVE Hash!OfFinished(t)
    <3>1. /\ ctx[t].next = Len(Wanted(job[t])) + 1
          /\ ctx[t].read = [i \in 1..(ctx[t].next - 1) |-> Piece(job[t], i)]
      BY <1>1, <1>2, <2>3 DEF OfCaller, ReadSoFar
    <3>2. /\ Len(Wanted(job[t])) \in Nat
          /\ DOMAIN Wanted(job[t]) = 1..Len(Wanted(job[t]))
      <4>1. job[t].reads \in Seq([file: DOMAIN job[t].sizes, from: Nat, count: Nat])
        BY <1>1, <1>2, HashAssumption DEF OfCaller, Grows
      <4>2. \A S : \A r \in Seq(S) : Len(r) \in Nat /\ DOMAIN r = 1..Len(r)
        OBVIOUS
      <4>3. Len(job[t].reads) \in Nat /\ DOMAIN job[t].reads = 1..Len(job[t].reads)
        BY <4>1, <4>2
      <4>4. \A x : Len(<<x>>) = 1 /\ DOMAIN <<x>> = 1..1
        OBVIOUS
      <4>5. CASE job[t].whole
        <5> DEFINE all == [file |-> 1, from |-> 0, count |-> job[t].sizes[1]]
        <5>1. Wanted(job[t]) = <<all>>
          BY <4>5 DEF Wanted
        <5> HIDE DEF all
        <5>2. QED  BY <4>4, <5>1
      <4>6. CASE ~job[t].whole
        BY <4>3, <4>6 DEF Wanted
      <4>7. QED  BY <4>5, <4>6
    <3>3. ctx[t].read = [i \in DOMAIN Wanted(job[t]) |-> Piece(job[t], i)]
      BY <3>1, <3>2
    <3>4. QED  BY <3>3 DEF Hash!OfFinished, Wanted, Piece
  <2>4. QED  BY <2>1, <2>2, <2>3
<1>7. QED  BY <1>4, <1>5, <1>6 DEF OfCaller

(* A step is a caller's, and disturbs no other.                              *)
LEMMA HashKeeps ==
  ASSUME HashInv, Hash!Next
  PROVE  HashInv'
<1>1. PICK t \in Callers :
        \/ \E j \in Jobs, known \in BOOLEAN : Hash!Begin(t, j, known)
        \/ \E f \in DOMAIN written[t] : at[t] # "new" /\ Hash!Write(t, f)
        \/ Hash!Call(t)
  BY DEF Hash!Next
<1>2. OfCaller(t)'
  BY <1>1, BeginKeeps, WriteKeeps, CallKeeps, LockKeeps, ReadKeeps, EndKeeps DEF Hash!Call
<1>3. HashDomains'
  BY <1>1 DEF HashInv, HashDomains, Hash!Begin, Hash!Write, Hash!Call, Hash!HashFile,
              Hash!Refuse, Hash!Returns, Hash!Lock, Hash!Read, Hash!GiveUp, Hash!Done
<1>4. ASSUME NEW u \in Callers, u # t  PROVE OfCaller(u)'
  <2>1. OfCaller(u)  BY DEF HashInv
  <2>2. /\ job'[u] = job[u] /\ expected'[u] = expected[u] /\ written'[u] = written[u]
        /\ at'[u] = at[u] /\ ctx'[u] = ctx[u] /\ before'[u] = before[u]
        /\ result'[u] = result[u]
    BY <1>1, <1>4 DEF HashInv, HashDomains, Hash!Begin, Hash!Write, Hash!Call, Hash!HashFile,
              Hash!Refuse, Hash!Returns, Hash!Lock, Hash!Read, Hash!GiveUp, Hash!Done
  <2>3. (lock' = u <=> lock = u) /\ (lock = u => cdreader' = cdreader)
    <3>1. \/ UNCHANGED <<lock, cdreader>>
          \/ lock = NoOne /\ lock' = t
          \/ at[t] \in {"hashes", "ends"} /\ lock' = NoOne /\ UNCHANGED cdreader
      BY <1>1 DEF Hash!Begin, Hash!Write, Hash!Call, Hash!HashFile, Hash!Refuse, Hash!Lock,
                  Hash!Read, Hash!GiveUp, Hash!Done
    <3>2. at[t] \in {"hashes", "ends"} => lock = t
      BY DEF HashInv, OfCaller, Owns
    <3>3. QED  BY <1>4, <3>1, <3>2, HashAssumption
  <2>4. QED  BY <2>1, <2>2, <2>3, Undisturbed
<1>5. QED  BY <1>2, <1>3, <1>4 DEF HashInv

(* Whatever other callers do between its steps, and however its file grows,  *)
(* the hash that a caller gets is that of the finished file.                 *)
THEOREM HashesAreOfFinishedFiles == Spec => []HashIsOfFinishedFile
<1>1. Hash!Init => HashInv
  <2> SUFFICES ASSUME Hash!Init  PROVE HashInv
    OBVIOUS
  <2>1. HashDomains
    BY DEF Hash!Init, HashDomains
  <2>2. ASSUME NEW t \in Callers  PROVE OfCaller(t)
    <3>1. /\ job[t].sizes = <<0>> /\ written[t] = <<0>> /\ at[t] = "new" /\ lock = NoOne
          /\ ctx[t] = Hash!NoContext /\ result[t] = "none" /\ expected[t] = 0 /\ t # NoOne
      BY HashAssumption DEF Hash!Init
    <3>2. Grows(t)
      BY <3>1 DEF Grows
    <3>3. Complete(t) /\ Owns(t) /\ ReadSoFar(t) /\ AsksWithReason(t) /\ Returned(t)
      BY <3>1 DEF Complete, Owns, ReadSoFar, AsksWithReason, Returned, Hash!NoContext
    <3>4. QED  BY <3>2, <3>3 DEF OfCaller
  <2>3. QED  BY <2>1, <2>2 DEF HashInv
<1>2. HashInv /\ [Hash!Next]_(Hash!vars) => HashInv'
  <2>1. ASSUME HashInv, UNCHANGED Hash!vars  PROVE HashInv'
    <3>1. HashDomains'
      BY <2>1 DEF HashInv, HashDomains, Hash!vars
    <3>2. ASSUME NEW t \in Callers  PROVE OfCaller(t)'
      <4>1. OfCaller(t)  BY <2>1 DEF HashInv
      <4>2. UNCHANGED <<job, expected, written, at, lock, cdreader, ctx, before, result>>
        BY <2>1 DEF Hash!vars
      <4>3. QED  BY <4>1, <4>2, Undisturbed
    <3>3. QED  BY <3>1, <3>2 DEF HashInv
  <2>2. QED  BY <2>1, HashKeeps
<1>3. HashInv => HashIsOfFinishedFile
  <2> SUFFICES ASSUME HashInv, NEW t \in Callers
               PROVE  /\ result[t] \in {"done", "failed"} =>
                           /\ ctx[t].readers \subseteq {Hash!Reader(t)}
                           /\ expected[t] # 0 /\ Len(job[t].sizes) = 1 =>
                                before[t] = job[t].sizes
                      /\ result[t] = "done" /\ expected[t] # 0 /\ Len(job[t].sizes) = 1 =>
                           Hash!OfFinished(t)
                      /\ expected[t] = 0 => result[t] # "more"
    BY DEF HashIsOfFinishedFile, Hash!HashIsOfFinishedFile
  <2>1. Returned(t) /\ AsksWithReason(t)  BY DEF HashInv, OfCaller
  <2>2. QED  BY <2>1 DEF Returned, AsksWithReason, Alone
<1>4. QED  BY <1>1, <1>2, <1>3, HashRuns, PTL DEF Hash!Spec

-----------------------------------------------------------------------------
(* The files of a core: CoreFiles.                                           *)

(* Beside the other parts the files of a core run as they do alone.          *)
LEMMA FilesRuns == Spec => Files!Spec
<1>1. Init => Files!Init
  BY DEF Init
<1>2. [Next]_vars => [Files!Next]_(Files!vars)
  <2>1. ASSUME OthersStay, which # "files"  PROVE UNCHANGED Files!vars
    BY <2>1 DEF OthersStay, fileVars, Files!vars
  <2>2. ASSUME Next  PROVE Files!Next \/ UNCHANGED Files!vars
    BY <2>1, <2>2 DEF Next
  <2>3. UNCHANGED vars => UNCHANGED Files!vars
    BY DEF vars, fileVars, Files!vars
  <2>4. QED  BY <2>2, <2>3
<1>3. QED  BY <1>1, <1>2, PTL DEF Spec, Files!Spec

(* The contents of files, what a stream may keep, and open streams.          *)
Contents == Seq(Values \cup {0})
Writes   == [place: Nat, value: Values]
Handles  == [at: Nat, writes: BOOLEAN, reads: BOOLEAN, kept: Writes \cup {None}]

(* Which kinds of values the file system and the streams have.               *)
FileTypes ==
  /\ places \in [Files!Places -> Contents \cup {None}]
  /\ stream \in [Streams -> Handles \cup {None}]

(* Only one stream writes, and only it keeps what was written.               *)
OneWriter ==
  /\ \A h, g \in Streams :
       Files!Open(h) /\ Files!Open(g) /\ stream[h].writes /\ stream[g].writes => h = g
  /\ \A h \in Streams : Files!Open(h) /\ stream[h].kept # None => stream[h].writes

(* The file is there while a stream is open on it, and is as promised, but   *)
(* for what its writer keeps.                                                *)
Keeps == \E h \in Streams : Files!Open(h) /\ stream[h].kept # None
Held ==
  /\ (\E h \in Streams : Files!Open(h)) => places["path"] # None
  /\ ~Keeps => places["path"] = owed
  /\ \A h \in Streams : Files!Open(h) /\ stream[h].kept # None =>
       Files!Flushed(places["path"], stream[h]) = owed

(* One writer, and a file that is as promised.                               *)
FilesInv == FileTypes /\ OneWriter /\ Held

(* No file, no handle and nothing kept are none of these.                    *)
LEMMA NoneIsNone ==
  None \notin Contents /\ None \notin Writes /\ None \notin Handles
BY FilesAssumption DEF Contents, Writes, Handles

(* A write leaves a content, as long as what is written comes behind its     *)
(* beginning.                                                                *)
LEMMA PutIsContent ==
  ASSUME NEW content \in Contents, NEW place \in Nat, NEW value \in Values
  PROVE  Files!Put(content, place, value) \in Contents
<1> DEFINE n == IF place > Len(content) THEN place ELSE Len(content)
           all == [i \in 1..n |-> IF i = place THEN value
                                  ELSE IF i > Len(content) THEN 0 ELSE content[i]]
<1>1. n \in Nat
  OBVIOUS
<1>2. \A i \in 1..n : (IF i = place THEN value ELSE IF i > Len(content) THEN 0 ELSE content[i])
                        \in Values \cup {0}
  BY <1>1 DEF Contents
<1>3. all \in Seq(Values \cup {0})
  <2> HIDE DEF n
  <2>1. all \in [1..n -> Values \cup {0}]
    BY <1>2
  <2> HIDE DEF all
  <2>2. QED  BY <1>1, <2>1
<1>4. Files!Put(content, place, value) = all
  BY DEF Files!Put
<1>5. QED  BY <1>3, <1>4 DEF Contents

(* Nor does what a stream puts down spoil the content.                       *)
LEMMA FlushedIsContent ==
  ASSUME NEW content \in Contents, NEW s \in Handles
  PROVE  Files!Flushed(content, s) \in Contents
<1>1. CASE s.kept = None
  BY <1>1 DEF Files!Flushed
<1>2. CASE s.kept # None
  <2>1. s.kept.place \in Nat /\ s.kept.value \in Values
    BY <1>2 DEF Handles, Writes
  <2>2. Files!Put(content, s.kept.place, s.kept.value) \in Contents
    BY <2>1, PutIsContent
  <2>3. QED  BY <2>2 DEF Files!Flushed
<1>3. QED  BY <1>1, <1>2

(* What an open stream may rely on.                                          *)
LEMMA OfOpen ==
  ASSUME FilesInv, NEW h \in Streams, Files!Open(h)
  PROVE  /\ stream[h] \in Handles /\ places["path"] \in Contents
         /\ Files!Flushed(places["path"], stream[h]) \in Contents
         /\ stream[h].kept # None => Files!Flushed(places["path"], stream[h]) = owed
         /\ stream[h].kept = None => Files!Flushed(places["path"], stream[h]) = places["path"]
         /\ stream[h].writes /\ stream[h].kept = None => ~Keeps
<1>1. stream[h] \in Handles /\ places["path"] \in Contents
  BY DEF FilesInv, FileTypes, Held, Files!Open, Files!Places
<1>2. Files!Flushed(places["path"], stream[h]) \in Contents
  BY <1>1, FlushedIsContent
<1>3. stream[h].kept = None => Files!Flushed(places["path"], stream[h]) = places["path"]
  BY DEF Files!Flushed
<1>4. stream[h].writes /\ stream[h].kept = None => ~Keeps
  BY DEF FilesInv, OneWriter, Keeps
<1>5. QED  BY <1>1, <1>2, <1>3, <1>4 DEF FilesInv, Held

(* A stream that puts down what it keeps, and moves or closes, leaves the    *)
(* file as it was, or as was promised.                                       *)
LEMMA PutDown ==
  ASSUME FilesInv, NEW h \in Streams, Files!Open(h), owed' = owed,
         places' = [places EXCEPT !["path"] = Files!Flushed(@, stream[h])],
         NEW s \in Handles \cup {None}, stream' = [stream EXCEPT ![h] = s],
         s # None => s.kept = None /\ s.writes = stream[h].writes
  PROVE  FilesInv'
<1> DEFINE c == Files!Flushed(places["path"], stream[h])
<1>1. /\ c \in Contents
      /\ stream[h].kept # None => c = owed
      /\ stream[h].kept = None => c = places["path"]
  BY OfOpen
<1> HIDE DEF c
<1>2. /\ places'["path"] = c
      /\ places' = [places EXCEPT !["path"] = c]
  BY DEF FilesInv, FileTypes, Files!Places, c
<1>3. /\ stream'[h] = s /\ \A g \in Streams : g # h => stream'[g] = stream[g]
  BY DEF FilesInv, FileTypes
<1>4. FileTypes'
  <2>1. \A p \in Files!Places : places'[p] \in Contents \cup {None}
    BY <1>1, <1>2 DEF FilesInv, FileTypes
  <2>2. places' \in [Files!Places -> Contents \cup {None}]
    BY <1>2, <2>1 DEF FilesInv, FileTypes
  <2>3. stream' \in [Streams -> Handles \cup {None}]
    BY DEF FilesInv, FileTypes
  <2>4. QED  BY <2>2, <2>3 DEF FileTypes
<1>5. OneWriter'
  BY <1>3 DEF FilesInv, OneWriter, Files!Open
<1>6. CASE stream[h].kept # None
  <2>1. c = owed /\ c # None
    BY <1>1, <1>6, NoneIsNone
  <2>2. ~Keeps'
    BY <1>3, <1>6 DEF FilesInv, OneWriter, Keeps, Files!Open
  <2>3. Held'
    BY <1>2, <2>1, <2>2 DEF Held, Keeps
  <2>4. QED  BY <1>4, <1>5, <2>3 DEF FilesInv
<1>7. CASE stream[h].kept = None
  <2>1. places'["path"] = places["path"] /\ places["path"] # None
    BY <1>1, <1>2, <1>7 DEF FilesInv, Held
  <2>2. Keeps' <=> Keeps
    BY <1>3, <1>7 DEF Keeps, Files!Open
  <2>3. ASSUME NEW g \in Streams, Files!Open(g)', stream'[g].kept # None
        PROVE  Files!Flushed(places'["path"], stream'[g]) = owed
    <3>1. g # h /\ stream'[g] = stream[g]
      BY <1>3, <2>3 DEF Files!Open
    <3>2. QED  BY <2>1, <2>3, <3>1 DEF FilesInv, Held, Files!Open
  <2>4. Held'
    BY <2>1, <2>2, <2>3 DEF FilesInv, Held
  <2>5. QED  BY <1>4, <1>5, <2>4 DEF FilesInv
<1>8. QED  BY <1>6, <1>7

(* A stream that keeps nothing moves, opened or not before.                  *)
LEMMA OpenKeeps ==
  ASSUME FilesInv, NEW h \in Streams, NEW mode \in Files!Modes, Files!FileOpen(h, mode)
  PROVE  FilesInv'
<1>1. CASE Files!Refuses(h)
  BY <1>1 DEF Files!Refuses, FilesInv, FileTypes, OneWriter, Held, Keeps, Files!Open
<1>2. CASE ~Files!Refuses(h)
  <2> DEFINE new == [at |-> 0, writes |-> mode # "read", reads |-> mode # "write", kept |-> None]
             existing == mode \in {"read", "update"}
  <2>1. /\ ~Files!Open(h) /\ Files!Shared(mode # "read")
        /\ existing => places["path"] # None
        /\ stream' = [stream EXCEPT ![h] = new]
        /\ places' = IF existing THEN places ELSE [places EXCEPT !["path"] = <<>>]
        /\ owed' = IF existing THEN owed ELSE <<>>
    BY <1>2 DEF Files!FileOpen, Files!Opened
  <2>2. new \in Handles /\ new.writes = (mode # "read") /\ new.kept = None
    BY DEF Handles
  <2> HIDE DEF new
  <2>3. stream'[h] = new /\ \A g \in Streams : g # h => stream'[g] = stream[g]
    BY <2>1 DEF FilesInv, FileTypes
  <2>4. <<>> \in Contents /\ <<>> # None
    <3>1. <<>> \in Contents  BY DEF Contents
    <3>2. QED  BY <3>1, NoneIsNone
  <2>5. FileTypes'
    BY <2>1, <2>2, <2>4 DEF FilesInv, FileTypes, Files!Places
  <2>6. OneWriter'
    BY <2>1, <2>2, <2>3 DEF FilesInv, OneWriter, Files!Shared, Files!Open
  <2>7. Keeps' <=> Keeps
    BY <2>1, <2>2, <2>3 DEF Keeps, Files!Open
  <2>8. CASE existing
    <3>1. UNCHANGED <<places, owed>> /\ places["path"] # None
      BY <2>1, <2>8
    <3>2. ASSUME NEW g \in Streams, Files!Open(g)', stream'[g].kept # None
          PROVE  Files!Flushed(places'["path"], stream'[g]) = owed'
      <4>1. g # h /\ stream'[g] = stream[g]
        BY <2>2, <2>3, <3>2
      <4>2. QED  BY <3>1, <3>2, <4>1 DEF FilesInv, Held, Files!Open
    <3>3. Held'
      BY <2>7, <3>1, <3>2 DEF FilesInv, Held
    <3>4. QED  BY <2>5, <2>6, <3>3 DEF FilesInv
  <2>9. CASE ~existing
    <3>1. ~Keeps
      BY <2>1, <2>9 DEF FilesInv, OneWriter, Keeps, Files!Shared
    <3>2. places'["path"] = <<>> /\ owed' = <<>>
      BY <2>1, <2>9 DEF FilesInv, FileTypes, Files!Places
    <3>3. Held'
      BY <2>4, <2>7, <3>1, <3>2 DEF Held, Keeps
    <3>4. QED  BY <2>5, <2>6, <3>3 DEF FilesInv
  <2>10. QED  BY <2>8, <2>9
<1>3. QED  BY <1>1, <1>2

(* A write puts down what was kept before it, and keeps itself.              *)
LEMMA WriteHolds ==
  ASSUME FilesInv, NEW h \in Streams, NEW value \in Values, Files!FileWrite(h, value)
  PROVE  FilesInv'
<1> DEFINE c    == Files!Flushed(places["path"], stream[h])
           p    == stream[h].at + 1
           new  == [stream[h] EXCEPT !.at = p, !.kept = [place |-> p, value |-> value]]
<1>1. /\ Files!Open(h) /\ stream[h].writes
      /\ places' = [places EXCEPT !["path"] = c]
      /\ stream' = [stream EXCEPT ![h] = new]
      /\ owed' = Files!Put(owed, p, value)
  BY DEF Files!FileWrite, FilesInv, FileTypes, Files!Places
<1>2. /\ stream[h] \in Handles /\ c \in Contents
      /\ ~Keeps => places["path"] = owed
      /\ stream[h].kept # None => c = owed
      /\ stream[h].kept = None => c = places["path"] /\ ~Keeps
  BY <1>1, OfOpen DEF FilesInv, Held
<1>3. c = owed
  BY <1>2
<1> HIDE DEF c
<1>4. p \in Nat
  BY <1>2 DEF Handles
<1>5. /\ new \in Handles /\ new.kept = [place |-> p, value |-> value] /\ new.kept # None
      /\ new.writes = stream[h].writes
  <2>1. [place |-> p, value |-> value] \in Writes
    BY <1>4 DEF Writes
  <2>2. /\ new \in Handles /\ new.kept = [place |-> p, value |-> value]
        /\ new.writes = stream[h].writes
    BY <1>2, <1>4, <2>1 DEF Handles
  <2>3. QED  BY <2>1, <2>2, NoneIsNone
<1> HIDE DEF new
<1>6. /\ stream'[h] = new /\ places'["path"] = c
      /\ \A g \in Streams : g # h => stream'[g] = stream[g]
  BY <1>1 DEF FilesInv, FileTypes, Files!Places
<1>7. FileTypes'
  BY <1>1, <1>2, <1>5 DEF FilesInv, FileTypes, Files!Places
<1>8. OneWriter'
  BY <1>1, <1>5, <1>6 DEF FilesInv, OneWriter, Files!Open
<1>9. c # None
  BY <1>2, NoneIsNone
<1>10. Files!Flushed(c, new) = owed'
  BY <1>1, <1>3, <1>5, <1>9 DEF Files!Flushed
<1>11. new # None => Keeps'
  BY <1>5, <1>6 DEF Keeps, Files!Open
<1>12. ASSUME NEW g \in Streams, Files!Open(g)', stream'[g].kept # None
       PROVE  g = h
  <2>1. stream'[g].writes /\ (new # None => Files!Open(h)' /\ stream'[h].writes)
    BY <1>1, <1>5, <1>6, <1>8, <1>12 DEF OneWriter, Files!Open
  <2>2. g # h => Files!Open(g) /\ stream[g].kept # None
    BY <1>6, <1>12 DEF Files!Open
  <2>3. QED  BY <1>1, <2>2 DEF FilesInv, OneWriter
<1>13. new # None
  BY <1>5, NoneIsNone
<1>14. Held'
  BY <1>6, <1>9, <1>10, <1>11, <1>12, <1>13 DEF Held
<1>15. QED  BY <1>7, <1>8, <1>14 DEF FilesInv

(* A file that is cut while its writer keeps nothing.                        *)
LEMMA TruncateKeeps ==
  ASSUME FilesInv, NEW h \in Streams, NEW length \in Nat, Files!FileTruncate(h, length)
  PROVE  FilesInv'
<1> DEFINE Cut(content) == [i \in 1..length |-> IF i <= Len(content) THEN content[i] ELSE 0]
           c == Cut(places["path"])
<1>1. /\ Files!Open(h) /\ stream[h].writes /\ stream[h].kept = None
      /\ places' = [places EXCEPT !["path"] = c]
      /\ owed' = Cut(owed) /\ UNCHANGED stream
  BY DEF Files!FileTruncate, FilesInv, FileTypes, Files!Places
<1>2. places["path"] \in Contents /\ ~Keeps /\ places["path"] = owed
  BY <1>1, OfOpen DEF FilesInv, Held
<1>3. c \in Contents
  <2>1. \A i \in 1..length : (IF i <= Len(places["path"]) THEN places["path"][i] ELSE 0)
                                \in Values \cup {0}
    BY <1>2 DEF Contents
  <2>2. c \in [1..length -> Values \cup {0}]
    BY <2>1
  <2> HIDE DEF c
  <2>3. QED  BY <2>2 DEF Contents
<1>4. owed' = c
  BY <1>1, <1>2
<1> HIDE DEF c
<1>5. FileTypes' /\ places'["path"] = c
  BY <1>1, <1>3 DEF FilesInv, FileTypes, Files!Places
<1>6. OneWriter'
  BY <1>1 DEF FilesInv, OneWriter, Files!Open
<1>7. ~Keeps' /\ c # None
  BY <1>1, <1>2, <1>3, NoneIsNone DEF Keeps, Files!Open
<1>8. Held'
  BY <1>4, <1>5, <1>7 DEF Held, Keeps
<1>9. QED  BY <1>5, <1>6, <1>8 DEF FilesInv

(* Every step of a core's files.                                             *)
LEMMA FilesKeep ==
  ASSUME FilesInv, Files!Next
  PROVE  FilesInv'
<1>1. ASSUME NEW h \in Streams, Files!FileClose(h)  PROVE FilesInv'
  BY <1>1, PutDown DEF Files!FileClose
<1>2. ASSUME NEW h \in Streams, Files!Open(h), Files!Flush(h), owed' = owed  PROVE FilesInv'
  <2> DEFINE s == [stream[h] EXCEPT !.kept = None]
  <2>1. s \in Handles /\ s.kept = None /\ s.writes = stream[h].writes
    BY <1>2, OfOpen DEF Handles
  <2>2. /\ stream' = [stream EXCEPT ![h] = s]
        /\ places' = [places EXCEPT !["path"] = Files!Flushed(@, stream[h])]
    BY <1>2 DEF Files!Flush
  <2> HIDE DEF s
  <2>3. QED  BY <1>2, <2>1, <2>2, PutDown
<1>3. ASSUME NEW h \in Streams, NEW offset \in -1..1, NEW from \in {"start", "current", "end"},
             Files!FileSeek(h, offset, from)
      PROVE  FilesInv'
  <2> DEFINE size == Len(Files!Flushed(places["path"], stream[h]))
             to   == offset + CASE from = "start" -> 0 [] from = "current" -> stream[h].at
                                [] from = "end" -> size
             s    == [stream[h] EXCEPT !.kept = None, !.at = to]
  <2>1. Files!Open(h) /\ owed' = owed
    BY <1>3 DEF Files!FileSeek
  <2>2. stream[h] \in Handles /\ Files!Flushed(places["path"], stream[h]) \in Contents
    BY <2>1, OfOpen
  <2>3. size \in Nat /\ stream[h].at \in Nat
    BY <2>2 DEF Handles, Contents
  <2>4. to \in Int
    BY <2>3
  <2>5. CASE to < 0
    <3>1. UNCHANGED <<places, stream, owed>>
      BY <1>3, <2>5 DEF Files!FileSeek
    <3>2. QED
      BY <3>1 DEF FilesInv, FileTypes, OneWriter, Held, Keeps, Files!Open
  <2>6. CASE ~(to < 0)
    <3>1. /\ places' = [places EXCEPT !["path"] = Files!Flushed(@, stream[h])]
          /\ stream' = [stream EXCEPT ![h].kept = None, ![h].at = to]
      BY <1>3, <2>6 DEF Files!FileSeek
    <3> HIDE DEF to
    <3>2. s \in Handles /\ s.kept = None /\ s.writes = stream[h].writes
      <4>1. to \in Nat  BY <2>4, <2>6
      <4>2. QED  BY <2>2, <4>1 DEF Handles
    <3>3. stream' = [stream EXCEPT ![h] = s]
      BY <3>1 DEF FilesInv, FileTypes
    <3> HIDE DEF s
    <3>4. QED  BY <2>1, <3>1, <3>2, <3>3, PutDown
  <2>7. QED  BY <2>5, <2>6
<1>4. ASSUME NEW h \in Streams, Files!FileRead(h)  PROVE FilesInv'
  <2> DEFINE s == [stream[h] EXCEPT !.at = stream'[h].at]
  <2>1. Files!Open(h) /\ stream[h] \in Handles /\ stream[h].kept = None
    BY <1>4, OfOpen DEF Files!FileRead
  <2>2. /\ stream'[h] = s /\ s \in Handles /\ s.kept = None /\ s.writes = stream[h].writes
        /\ stream' = [stream EXCEPT ![h] = s] /\ UNCHANGED <<places, owed>>
    BY <1>4, <2>1 DEF Files!FileRead, FilesInv, FileTypes, Handles
  <2> HIDE DEF s
  <2>3. places' = [places EXCEPT !["path"] = Files!Flushed(@, stream[h])]
    BY <2>1, <2>2 DEF Files!Flushed, FilesInv, FileTypes, Files!Places
  <2>4. QED  BY <2>1, <2>2, <2>3, PutDown
<1>5. ASSUME UNCHANGED <<places, stream, owed>>  PROVE FilesInv'
  BY <1>5 DEF FilesInv, FileTypes, OneWriter, Held, Keeps, Files!Open
<1>6. CASE Files!FileRemove
  <2>1. CASE Files!Unused /\ places["path"] # None
    <3>1. /\ places' = [places EXCEPT !["path"] = None] /\ owed' = None /\ UNCHANGED stream
          /\ \A h \in Streams : ~Files!Open(h)
      BY <1>6, <2>1 DEF Files!FileRemove, Files!Unused
    <3>2. places'["path"] = None
      BY <3>1 DEF FilesInv, FileTypes, Files!Places
    <3>3. QED
      BY <3>1, <3>2 DEF FilesInv, FileTypes, Files!Places, OneWriter, Held, Files!Open
  <2>2. CASE ~(Files!Unused /\ places["path"] # None)
    BY <1>5, <1>6, <2>2 DEF Files!FileRemove
  <2>3. QED  BY <2>1, <2>2
<1>7. ASSUME NEW from \in Files!Places, NEW to \in Files!Places, Files!FileRename(from, to)
      PROVE  FilesInv'
  <2>1. /\ places' = [places EXCEPT ![to] = places[from], ![from] = None] /\ UNCHANGED stream
        /\ owed' = (IF from = "path" THEN None ELSE places[from]) /\ from # to
        /\ \A h \in Streams : ~Files!Open(h)
    BY <1>7 DEF Files!FileRename, Files!Unused
  <2>2. places'["path"] = owed'
    BY <2>1 DEF FilesInv, FileTypes, Files!Places
  <2>3. FileTypes'
    BY <2>1 DEF FilesInv, FileTypes
  <2>4. QED
    BY <2>1, <2>2, <2>3 DEF FilesInv, OneWriter, Held, Files!Open
<1>8. ASSUME NEW h \in Streams, NEW length \in 0..MaxLength, Files!FileTruncate(h, length)
      PROVE  FilesInv'
  <2>1. length \in Nat  OBVIOUS
  <2>2. QED  BY <1>8, <2>1, TruncateKeeps
<1>9. ASSUME NEW h \in Streams, Files!FileSize(h) \/ Files!FileFlush(h)  PROVE FilesInv'
  BY <1>2, <1>9 DEF Files!FileSize, Files!FileFlush
<1>10. ASSUME NEW h \in Streams, Files!FileTell(h)  PROVE FilesInv'
  BY <1>5, <1>10 DEF Files!FileTell
<1>11. QED
  BY <1>1, <1>3, <1>4, <1>6, <1>7, <1>8, <1>9, <1>10, OpenKeeps, WriteHolds DEF Files!Next

(* What a core wrote is in the file once its streams keep nothing, whichever *)
(* of them wrote, moved, flushed, closed or emptied it.                      *)
THEOREM FilesAlwaysHold == Spec => []FilesHoldWrites
<1>1. Files!Init => FilesInv
  BY DEF Files!Init, FilesInv, FileTypes, OneWriter, Held, Files!Open, Files!Places
<1>2. FilesInv /\ [Files!Next]_(Files!vars) => FilesInv'
  <2>1. FilesInv /\ UNCHANGED Files!vars => FilesInv'
    BY DEF FilesInv, FileTypes, OneWriter, Held, Keeps, Files!Open, Files!vars
  <2>2. QED  BY <2>1, FilesKeep
<1>3. FilesInv => FilesHoldWrites
  BY DEF FilesInv, Held, Keeps, FilesHoldWrites, Files!FilesHoldWrites
<1>4. QED  BY <1>1, <1>2, <1>3, FilesRuns, PTL DEF Files!Spec
-----------------------------------------------------------------------------
(* The cores and their menu: CoreList.                                       *)

(* Beside the other parts the list of cores runs as it does alone.           *)
LEMMA CoresRun == Spec => Cores!Spec
<1>1. Init => Cores!Init
  BY DEF Init
<1>2. [Next]_vars => [Cores!Next]_(Cores!vars)
  <2>1. ASSUME OthersStay, which # "cores"  PROVE UNCHANGED Cores!vars
    BY <2>1 DEF OthersStay, coreVars, Cores!vars
  <2>2. ASSUME Next  PROVE Cores!Next \/ UNCHANGED Cores!vars
    BY <2>1, <2>2 DEF Next
  <2>3. UNCHANGED vars => UNCHANGED Cores!vars
    BY DEF vars, coreVars, Cores!vars
  <2>4. QED  BY <2>2, <2>3
<1>3. QED  BY <1>1, <1>2, PTL DEF Spec, Cores!Spec

(* A quotient and a remainder are found again.                               *)
LEMMA DivMod ==
  ASSUME NEW n \in Nat, n # 0, NEW p \in Nat, NEW i \in 0..(n - 1)
  PROVE  (p * n + i) % n = i /\ (p * n + i) \div n = p
<1> DEFINE e == p * n + i
           q == e \div n
           r == e % n
<1>1. e \in Nat
  OBVIOUS
<1>2. e = n * q + r /\ r \in 0..(n - 1) /\ q \in Int
  BY <1>1
<1> HIDE DEF q, r, e
<1>3. e = p * n + i
  BY DEF e
<1>4. (q - p) * n = i - r /\ i - r < n /\ i - r > -n
  BY <1>2, <1>3
<1>5. q - p < 1
  <2>1. SUFFICES ASSUME q - p >= 1 PROVE FALSE
    BY <1>2
  <2>2. (q - p) * n >= n
    BY <1>2, <2>1
  <2>3. QED  BY <1>2, <1>4, <2>2
<1>6. q - p > -1
  <2>1. SUFFICES ASSUME p - q >= 1 PROVE FALSE
    BY <1>2
  <2>2. (p - q) * n >= n /\ (p - q) * n = -((q - p) * n)
    BY <1>2, <2>1
  <2>3. QED  BY <1>2, <1>4, <2>2
<1>7. q = p
  BY <1>2, <1>5, <1>6
<1>8. r = i
  BY <1>2, <1>3, <1>7
<1>9. QED  BY <1>7, <1>8 DEF e, q, r

(* The list of cores counts as everyone does.                                *)
LEMMA SameCount == \A S : Cores!Cardinality(S) = Cardinality(S)
BY DEF Cores!Cardinality, Cardinality

(* Each of a core's systems has a place of its own among them.               *)
LEMMA OwnPlace ==
  ASSUME NEW S, S \subseteq Nat, IsFiniteSet(S), NEW s \in S
  PROVE  /\ Cores!Place(S, s) \in Nat /\ Cores!Place(S, s) < Cardinality(S)
         /\ Cardinality(S) \in Nat
         /\ \A t \in S : Cores!Place(S, t) = Cores!Place(S, s) => t = s
<1> DEFINE Less(t) == {r \in S : r < t}
<1>1. \A t : Cores!Place(S, t) = Cardinality(Less(t))
  BY SameCount DEF Cores!Place
<1>2. ASSUME NEW t \in S
      PROVE  IsFiniteSet(Less(t)) /\ Cardinality(Less(t)) \in Nat /\ Cardinality(Less(t)) < Cardinality(S)
  <2>1. Less(t) \in SUBSET S /\ t \notin Less(t)
    OBVIOUS
  <2> HIDE DEF Less
  <2>2. /\ IsFiniteSet(Less(t)) /\ Cardinality(Less(t)) <= Cardinality(S)
        /\ Cardinality(S) = Cardinality(Less(t)) => S = Less(t)
    BY <2>1, FS_Subset
  <2>3. Cardinality(Less(t)) \in Nat /\ Cardinality(S) \in Nat
    BY <2>2, FS_CardinalityType
  <2>4. QED  BY <2>1, <2>2, <2>3
<1>3. ASSUME NEW t \in S, NEW u \in S, t < u
      PROVE  Cardinality(Less(t)) # Cardinality(Less(u))
  <2>1. Less(t) \in SUBSET Less(u) /\ t \in Less(u) /\ t \notin Less(t)
    <3>1. \A r \in S : r < t => r < u
      BY <1>3
    <3>2. t < u /\ ~(t < t)
      BY <1>3
    <3>3. QED  BY <3>1, <3>2
  <2> HIDE DEF Less
  <2>2. IsFiniteSet(Less(u))
    BY <1>2
  <2>3. Cardinality(Less(u)) = Cardinality(Less(t)) => Less(u) = Less(t)
    BY <2>1, <2>2, FS_Subset
  <2>4. QED  BY <2>1, <2>3
<1>4. Cardinality(S) \in Nat
  BY FS_CardinalityType
<1> HIDE DEF Less
<1>5. ASSUME NEW t \in S, Cardinality(Less(t)) = Cardinality(Less(s))
      PROVE  t = s
  <2>1. t < s \/ s < t \/ t = s
    OBVIOUS
  <2>2. QED  BY <1>3, <1>5, <2>1
<1>6. QED  BY <1>1, <1>2, <1>4, <1>5

(* What an item of the menu carries is its core and its system.              *)
LEMMA ItemNamesCore ==
  ASSUME NEW i \in DOMAIN Entries, NEW s \in Entries[i].systems
  PROVE  LET id == Cores!EncodeCoreName(Entries[i].name, s)
         IN /\ id \in Nat
            /\ Cores!GetCoreName(id).file = Entries[i].file
            /\ Cores!GetCoreName(id).name = Entries[i].name
            /\ Cores!GetCoreName(id).system = s
<1> DEFINE found == {n \in DOMAIN Entries : Entries[n].name = Entries[i].name /\ s \in Entries[n].systems}
           k  == Cores!First(found)
           id == Cores!EncodeCoreName(Entries[i].name, s)
           p  == Cores!Place(Entries[k].systems, s)
<1>1. found \subseteq Nat /\ i \in found
  BY CoresAssumption
<1>2. k \in found
  <2> HIDE DEF found
  <2>1. k = Recent!Min(found)
    BY DEF Cores!First, Recent!Min
  <2> HIDE DEF k
  <2>2. QED  BY <1>1, <2>1, HasLeast
<1>3. id = p * Len(Entries) + (k - 1)
  BY <1>1 DEF Cores!EncodeCoreName, Cores!Listed
<1> HIDE DEF id, k
<1>4. /\ k \in 1..Len(Entries) /\ k - 1 \in 0..(Len(Entries) - 1) /\ Len(Entries) \in Nat \ {0}
      /\ Entries[k].name = Entries[i].name /\ s \in Entries[k].systems
  BY <1>2, CoresAssumption
<1>5. Entries[k].file = Entries[i].file
  BY <1>4, CoresAssumption
<1> HIDE DEF found, p
<1>6. /\ p \in Nat /\ Cardinality(Entries[k].systems) \in Nat
      /\ p < Cardinality(Entries[k].systems) /\ ~(p > Cardinality(Entries[k].systems))
      /\ \A t \in Entries[k].systems : Cores!Place(Entries[k].systems, t) = p => t = s
  BY <1>4, OwnPlace, CoresAssumption DEF p
<1>7. id % Len(Entries) = k - 1 /\ id \div Len(Entries) = p
  BY <1>3, <1>4, <1>6, DivMod
<1>8. id \in Nat
  BY <1>3, <1>4, <1>6
<1>9. (id % Len(Entries)) + 1 = k
  BY <1>4, <1>7
<1>10. Cores!GetCoreName(id) =
         [file |-> Entries[k].file, name |-> Entries[k].name,
          system |-> CHOOSE t \in Entries[k].systems : Cores!Place(Entries[k].systems, t) = p]
  BY <1>6, <1>7, <1>9, SameCount DEF Cores!GetCoreName
<1>11. (CHOOSE t \in Entries[k].systems : Cores!Place(Entries[k].systems, t) = p) = s
  BY <1>4, <1>6 DEF p
<1>12. QED  BY <1>4, <1>5, <1>8, <1>10, <1>11 DEF id

(* Every core's file has a first entry.                                      *)
LEMMA FirstEntry ==
  ASSUME NEW i \in DOMAIN Entries
  PROVE  /\ Cores!FirstOf(Entries[i].file) \in DOMAIN Entries
         /\ Entries[Cores!FirstOf(Entries[i].file)].file = Entries[i].file
<1> DEFINE same == {k \in DOMAIN Entries : Entries[k].file = Entries[i].file}
<1>1. same \subseteq Nat /\ same # {}
  BY CoresAssumption
<1>2. Cores!FirstOf(Entries[i].file) = Recent!Min(same)
  BY DEF Cores!FirstOf, Cores!First, Cores!Listed, Recent!Min
<1>3. Cores!FirstOf(Entries[i].file) \in same
  <2> HIDE DEF same
  <2>1. QED  BY <1>1, <1>2, HasLeast
<1>4. QED  BY <1>3

(* What the entries say of the files: every entry of a file that is there    *)
(* has a time, and the first entry of one that is not has none.  A further   *)
(* entry of a core that was deleted keeps its time.                          *)
TimesFit ==
  /\ \A i \in Cores!Listed : disk[Entries[i].file] # 0 => filetime[i] # 0
  /\ \A i \in Cores!Listed : disk[Entries[i].file] = 0 => filetime[Cores!FirstOf(Entries[i].file)] = 0

(* The menu was made from the entries' times, unless the dialog has changes  *)
(* it has not been closed with; without any core it may be an older one.     *)
MenuFits ==
  \/ dialog.modified
  \/ Cores!Available(filetime) = {}
  \/ menu = Cores!SystemsMenu(filetime)

IsItem(item) ==
  \E i \in Cores!Listed : \E s \in Entries[i].systems :
    item = [label |-> Entries[i].name, system |-> s, id |-> Cores!EncodeCoreName(Entries[i].name, s)]
OnlyItems == \A item \in menu : IsItem(item)

(* An item is loaded later only as long as the dialog is shown.              *)
ChoiceFits ==
  /\ dialog.modified => dialog.shown
  /\ chosen # None => dialog.shown /\ \E item \in menu : chosen = item.id

LoadedFits ==
  /\ loaded # None => loaded \in Cores!Files /\ disk[loaded] # 0
  /\ loaded # None /\ chosen = None /\ system # 0 => Cores!DoesCoreSupportSystem(loaded, system)

CoresInv ==
  /\ DOMAIN disk = Cores!Files /\ DOMAIN filetime = Cores!Listed
  /\ dialog \in [shown: BOOLEAN, modified: BOOLEAN]
  /\ TimesFit /\ MenuFits /\ OnlyItems /\ ChoiceFits /\ LoadedFits

(* What an item of the menu stands for.                                      *)
LEMMA ItemIsOf ==
  ASSUME NEW item, IsItem(item)
  PROVE  /\ item.id # None
         /\ Cores!GetCoreName(item.id).name = item.label
         /\ Cores!GetCoreName(item.id).system = item.system
         /\ \E i \in Cores!Listed : /\ Cores!GetCoreName(item.id).file = Entries[i].file
                                    /\ item.system \in Entries[i].systems
<1>1. PICK i \in DOMAIN Entries : \E s \in Entries[i].systems :
        item = [label |-> Entries[i].name, system |-> s, id |-> Cores!EncodeCoreName(Entries[i].name, s)]
  BY DEF IsItem, Cores!Listed
<1>2. PICK s \in Entries[i].systems :
        item = [label |-> Entries[i].name, system |-> s, id |-> Cores!EncodeCoreName(Entries[i].name, s)]
  BY <1>1
<1> DEFINE id == Cores!EncodeCoreName(Entries[i].name, s)
<1>3. item.label = Entries[i].name /\ item.system = s /\ item.id = id
  <2> HIDE DEF id
  <2>1. QED  BY <1>2 DEF id
<1>4. /\ id \in Nat
      /\ Cores!GetCoreName(id).file = Entries[i].file
      /\ Cores!GetCoreName(id).name = Entries[i].name
      /\ Cores!GetCoreName(id).system = s
  BY ItemNamesCore
<1> HIDE DEF id
<1>5. QED  BY <1>3, <1>4, CoresAssumption DEF Cores!Listed

(* The menu made from times has items only, and it has those of every core   *)
(* that is there.                                                            *)
LEMMA MenuHasItems ==
  ASSUME NEW times
  PROVE  /\ \A item \in Cores!SystemsMenu(times) :
              \E i \in Cores!Available(times) : \E s \in Entries[i].systems :
                item = [label |-> Entries[i].name, system |-> s,
                        id |-> Cores!EncodeCoreName(Entries[i].name, s)]
         /\ \A item \in Cores!SystemsMenu(times) : IsItem(item)
         /\ \A i \in Cores!Available(times) : \A s \in Entries[i].systems :
              [label |-> Entries[i].name, system |-> s,
               id |-> Cores!EncodeCoreName(Entries[i].name, s)] \in Cores!SystemsMenu(times)
<1>1. \A item \in Cores!SystemsMenu(times) :
        \E i \in Cores!Available(times) : \E s \in Entries[i].systems :
          item = [label |-> Entries[i].name, system |-> s,
                  id |-> Cores!EncodeCoreName(Entries[i].name, s)]
  BY DEF Cores!SystemsMenu
<1>2. \A item \in Cores!SystemsMenu(times) : IsItem(item)
  BY <1>1 DEF IsItem, Cores!Available
<1>3. \A i \in Cores!Available(times) : \A s \in Entries[i].systems :
        [label |-> Entries[i].name, system |-> s,
         id |-> Cores!EncodeCoreName(Entries[i].name, s)] \in Cores!SystemsMenu(times)
  BY DEF Cores!SystemsMenu
<1>4. QED  BY <1>1, <1>2, <1>3

(* The menu that is built anew fits.                                         *)
LEMMA BuiltMenu ==
  ASSUME OnlyItems, Cores!BuildSystemsMenu
  PROVE  /\ OnlyItems'
         /\ Cores!Available(filetime) = {} \/ menu' = Cores!SystemsMenu(filetime)
<1>1. CASE Cores!Available(filetime) = {}
  BY <1>1 DEF OnlyItems, Cores!BuildSystemsMenu, IsItem
<1>2. CASE Cores!Available(filetime) # {}
  <2>1. menu' = Cores!SystemsMenu(filetime)
    BY <1>2 DEF Cores!BuildSystemsMenu
  <2>2. \A item \in menu' : IsItem(item)
    BY <2>1, MenuHasItems
  <2>3. QED  BY <2>1, <2>2 DEF OnlyItems, IsItem
<1>3. QED  BY <1>1, <1>2

(* A core that was just loaded is there and serves its system.               *)
LEMMA LoadFits ==
  ASSUME CoresInv, NEW item \in menu,
         Cores!Load(Cores!GetCoreName(item.id).file, Cores!GetCoreName(item.id).system)
  PROVE  /\ loaded' # None => loaded' \in Cores!Files /\ disk[loaded'] # 0
         /\ loaded' # None /\ system' # 0 => Cores!DoesCoreSupportSystem(loaded', system')
<1> DEFINE core == Cores!GetCoreName(item.id).file
           s == Cores!GetCoreName(item.id).system
<1>1. IsItem(item)
  BY DEF CoresInv, OnlyItems
<1>2. s = item.system
  BY <1>1, ItemIsOf
<1>3. PICK i \in Cores!Listed : core = Entries[i].file /\ item.system \in Entries[i].systems
  BY <1>1, ItemIsOf
<1>4. (disk[core] # 0 /\ loaded' = core /\ system' = s) \/ (loaded' \in {loaded, None} /\ system' = 0)
  BY DEF Cores!Load
<1> HIDE DEF core, s
<1>5. core \in Cores!Files /\ Cores!DoesCoreSupportSystem(core, s)
  BY <1>2, <1>3 DEF Cores!Files, Cores!DoesCoreSupportSystem
<1>6. QED  BY <1>4, <1>5 DEF CoresInv, LoadedFits

-----------------------------------------------------------------------------
(* The invariant of the list of cores, action by action.                     *)

(* At the start the menu is made from what is there, and nothing is loaded.  *)
LEMMA CoresBegin == Cores!Init => CoresInv
<1> SUFFICES ASSUME Cores!Init  PROVE CoresInv
  OBVIOUS
<1>1. /\ DOMAIN disk = Cores!Files /\ filetime = [i \in Cores!Listed |-> disk[Entries[i].file]]
      /\ menu = Cores!SystemsMenu(filetime) /\ dialog = [shown |-> FALSE, modified |-> FALSE]
      /\ chosen = None /\ loaded = None
  BY DEF Cores!Init, Cores!Closed
<1>2. TimesFit
  <2>1. \A i \in Cores!Listed : disk[Entries[i].file] = 0 => filetime[Cores!FirstOf(Entries[i].file)] = 0
    BY <1>1, FirstEntry DEF Cores!Listed
  <2>2. QED  BY <1>1, <2>1 DEF TimesFit
<1>3. OnlyItems
  BY <1>1, MenuHasItems DEF OnlyItems
<1>4. ChoiceFits /\ LoadedFits /\ MenuFits
  BY <1>1 DEF ChoiceFits, LoadedFits, MenuFits
<1>5. QED  BY <1>1, <1>2, <1>3, <1>4 DEF CoresInv

(* Deleting and updating a core write its file and its entries' times, and   *)
(* never those of a loaded one.                                              *)
LEMMA DeleteKeeps == ASSUME CoresInv, NEW i \in Cores!Listed, Cores!DeleteCore(i)  PROVE CoresInv'
<1> DEFINE core == Entries[i].file
<1>1. /\ dialog.shown /\ core # loaded
      /\ disk' = [disk EXCEPT ![core] = 0]
      /\ filetime' = [filetime EXCEPT ![Cores!FirstOf(core)] = 0]
      /\ dialog' = [dialog EXCEPT !.modified = TRUE]
      /\ menu' = menu /\ chosen' = chosen /\ loaded' = loaded /\ system' = system
  BY DEF Cores!DeleteCore
<1>2. core \in Cores!Files /\ Cores!FirstOf(core) \in Cores!Listed /\ Entries[Cores!FirstOf(core)].file = core
  BY FirstEntry DEF Cores!Files, Cores!Listed
<1> HIDE DEF core
<1>3. DOMAIN disk' = Cores!Files /\ DOMAIN filetime' = Cores!Listed
  BY <1>1 DEF CoresInv
<1>4. dialog' \in [shown: BOOLEAN, modified: BOOLEAN] /\ dialog'.shown /\ dialog'.modified
  BY <1>1 DEF CoresInv
<1>5. TimesFit'
  <2>1. ASSUME NEW k \in Cores!Listed, disk'[Entries[k].file] # 0  PROVE filetime'[k] # 0
    <3>1. Entries[k].file \in Cores!Files
      BY <2>1 DEF Cores!Files
    <3>2. Entries[k].file # core /\ disk[Entries[k].file] # 0
      BY <1>1, <2>1, <3>1 DEF CoresInv
    <3>3. k # Cores!FirstOf(core) /\ filetime[k] # 0
      BY <1>2, <2>1, <3>2 DEF CoresInv, TimesFit
    <3>4. QED  BY <1>1, <2>1, <3>3 DEF CoresInv
  <2>2. ASSUME NEW k \in Cores!Listed, disk'[Entries[k].file] = 0
        PROVE  filetime'[Cores!FirstOf(Entries[k].file)] = 0
    <3>1. Entries[k].file \in Cores!Files /\ Cores!FirstOf(Entries[k].file) \in Cores!Listed
      BY <2>2, FirstEntry DEF Cores!Files, Cores!Listed
    <3>2. CASE Entries[k].file = core
      BY <1>1, <1>2, <3>2 DEF CoresInv
    <3>3. CASE Entries[k].file # core
      <4>1. disk[Entries[k].file] = 0
        BY <1>1, <2>2, <3>1, <3>3 DEF CoresInv
      <4>2. filetime[Cores!FirstOf(Entries[k].file)] = 0
        BY <2>2, <4>1 DEF CoresInv, TimesFit
      <4>3. QED  BY <1>1, <3>1, <4>2 DEF CoresInv
    <3>4. QED  BY <3>2, <3>3
  <2>3. QED  BY <2>1, <2>2 DEF TimesFit, Cores!Listed, Cores!FirstOf, Cores!First
<1>6. MenuFits' /\ OnlyItems' /\ ChoiceFits'
  BY <1>1, <1>4 DEF CoresInv, MenuFits, OnlyItems, IsItem, ChoiceFits
<1>7. LoadedFits'
  <2>1. loaded # None => disk'[loaded] = disk[loaded]
    BY <1>1, <1>2 DEF CoresInv, LoadedFits
  <2>2. QED  BY <1>1, <2>1 DEF CoresInv, LoadedFits, Cores!Files, Cores!DoesCoreSupportSystem
<1>8. QED  BY <1>3, <1>4, <1>5, <1>6, <1>7 DEF CoresInv, Cores!Files, Cores!Listed

(* A download of a core keeps the invariant.                                 *)
LEMMA UpdateKeeps == ASSUME CoresInv, NEW i \in Cores!Listed, Cores!UpdateCore(i)  PROVE CoresInv'
<1> DEFINE core == Entries[i].file
<1>1. /\ dialog.shown /\ core # loaded
      /\ dialog' = [dialog EXCEPT !.modified = TRUE]
      /\ menu' = menu /\ chosen' = chosen /\ loaded' = loaded /\ system' = system
  BY DEF Cores!UpdateCore
<1>2. PICK time \in {disk[core], 2} :
        /\ disk' = [disk EXCEPT ![core] = time]
        /\ filetime' = [n \in Cores!Listed |-> IF Entries[n].file = core THEN time ELSE filetime[n]]
  BY DEF Cores!UpdateCore
<1>3. core \in Cores!Files
  BY DEF Cores!Files
<1> HIDE DEF core
<1>4. DOMAIN disk' = Cores!Files /\ DOMAIN filetime' = Cores!Listed
  BY <1>2 DEF CoresInv
<1>5. dialog' \in [shown: BOOLEAN, modified: BOOLEAN] /\ dialog'.shown /\ dialog'.modified
  BY <1>1 DEF CoresInv
<1>6. TimesFit'
  <2>1. ASSUME NEW k \in Cores!Listed, disk'[Entries[k].file] # 0  PROVE filetime'[k] # 0
    <3>1. Entries[k].file \in Cores!Files
      BY <2>1 DEF Cores!Files
    <3>2. CASE Entries[k].file = core
      BY <1>2, <2>1, <3>1, <3>2 DEF CoresInv
    <3>3. CASE Entries[k].file # core
      BY <1>2, <2>1, <3>1, <3>3 DEF CoresInv, TimesFit
    <3>4. QED  BY <3>2, <3>3
  <2>2. ASSUME NEW k \in Cores!Listed, disk'[Entries[k].file] = 0
        PROVE  filetime'[Cores!FirstOf(Entries[k].file)] = 0
    <3> DEFINE first == Cores!FirstOf(Entries[k].file)
    <3>1. Entries[k].file \in Cores!Files /\ first \in Cores!Listed /\ Entries[first].file = Entries[k].file
      BY <2>2, FirstEntry DEF Cores!Files, Cores!Listed
    <3>2. disk[Entries[k].file] = 0 /\ Entries[k].file # core => filetime[first] = 0
      BY <2>2 DEF CoresInv, TimesFit
    <3> HIDE DEF first
    <3>3. ASSUME Entries[k].file = core  PROVE filetime'[first] = 0
      BY <1>2, <2>2, <3>1, <3>3 DEF CoresInv
    <3>4. ASSUME Entries[k].file # core  PROVE filetime'[first] = 0
      BY <1>2, <2>2, <3>1, <3>2, <3>4 DEF CoresInv
    <3>5. QED  BY <3>3, <3>4 DEF first
  <2>3. QED  BY <2>1, <2>2 DEF TimesFit, Cores!Listed, Cores!FirstOf, Cores!First
<1>7. MenuFits' /\ OnlyItems' /\ ChoiceFits'
  BY <1>1, <1>5 DEF CoresInv, MenuFits, OnlyItems, IsItem, ChoiceFits
<1>8. LoadedFits'
  <2>1. loaded # None => disk'[loaded] = disk[loaded]
    BY <1>1, <1>2, <1>3 DEF CoresInv, LoadedFits
  <2>2. QED  BY <1>1, <2>1 DEF CoresInv, LoadedFits, Cores!Files, Cores!DoesCoreSupportSystem
<1>9. QED  BY <1>4, <1>5, <1>6, <1>7, <1>8 DEF CoresInv, Cores!Files, Cores!Listed

(* Showing the dialog forgets nothing that was changed in it before.         *)
LEMMA ShowKeeps ==
  ASSUME CoresInv, Cores!ShowCoresDialog, UNCHANGED <<disk, filetime, menu>>
  PROVE  /\ dialog' = [shown |-> TRUE, modified |-> FALSE]
         /\ DOMAIN disk' = Cores!Files /\ DOMAIN filetime' = Cores!Listed
         /\ TimesFit' /\ MenuFits' /\ OnlyItems'
<1>1. ~dialog.shown /\ dialog' = [shown |-> TRUE, modified |-> FALSE]
  BY DEF Cores!ShowCoresDialog, Cores!Closed
<1>2. ~dialog.modified
  BY <1>1 DEF CoresInv, ChoiceFits
<1>3. TimesFit'
  BY DEF CoresInv, TimesFit, Cores!Listed, Cores!FirstOf, Cores!First
<1>4. MenuFits' /\ OnlyItems'
  BY <1>1, <1>2 DEF CoresInv, MenuFits, OnlyItems, IsItem, Cores!Available, Cores!Listed,
                    Cores!SystemsMenu, Cores!EncodeCoreName, Cores!First, Cores!Place
<1>5. QED  BY <1>1, <1>3, <1>4 DEF CoresInv

(* So does opening the dialog.                                               *)
LEMMA ManageKeeps == ASSUME CoresInv, Cores!ManageCores  PROVE CoresInv'
<1>1. /\ Cores!ShowCoresDialog /\ UNCHANGED <<disk, filetime, menu>> /\ chosen = None
      /\ chosen' = chosen /\ loaded' = loaded /\ system' = system
  BY DEF Cores!ManageCores
<1>2. ChoiceFits'
  BY <1>1, ShowKeeps DEF ChoiceFits
<1>3. LoadedFits'
  BY <1>1 DEF CoresInv, LoadedFits, Cores!Files, Cores!Listed, Cores!DoesCoreSupportSystem
<1>4. dialog' \in [shown: BOOLEAN, modified: BOOLEAN]
  <2>1. dialog' = [shown |-> TRUE, modified |-> FALSE]
    BY <1>1, ShowKeeps
  <2>2. QED  BY <2>1
<1>5. QED  BY <1>1, <1>2, <1>3, <1>4, ShowKeeps DEF CoresInv, Cores!Files, Cores!Listed

(* The menu is built anew once the dialog is closed, and what was chosen     *)
(* before is loaded.                                                         *)
LEMMA CloseKeeps == ASSUME CoresInv, Cores!CloseDialog  PROVE CoresInv'
<1>1. /\ dialog' = [shown |-> FALSE, modified |-> FALSE] /\ chosen' = None
      /\ disk' = disk /\ filetime' = filetime
      /\ IF dialog.modified THEN Cores!BuildSystemsMenu ELSE UNCHANGED menu
  BY DEF Cores!CloseDialog, Cores!Closed
<1>2. OnlyItems' /\ MenuFits'
  <2>1. CASE dialog.modified
    <3>1. OnlyItems' /\ (Cores!Available(filetime) = {} \/ menu' = Cores!SystemsMenu(filetime))
      BY <1>1, <2>1, BuiltMenu DEF CoresInv
    <3>2. QED  BY <1>1, <3>1 DEF MenuFits
  <2>2. CASE ~dialog.modified
    BY <1>1, <2>2 DEF CoresInv, OnlyItems, MenuFits, IsItem
  <2>3. QED  BY <2>1, <2>2
<1>3. TimesFit'
  BY <1>1 DEF CoresInv, TimesFit
<1>4. LoadedFits'
  <2>1. CASE chosen = None
    <3>1. loaded' = loaded /\ system' = system
      BY <2>1 DEF Cores!CloseDialog
    <3>2. QED  BY <1>1, <2>1, <3>1 DEF CoresInv, LoadedFits
  <2>2. CASE chosen # None
    <3>1. PICK item \in menu : chosen = item.id
      BY <2>2 DEF CoresInv, ChoiceFits
    <3>2. Cores!Load(Cores!GetCoreName(item.id).file, Cores!GetCoreName(item.id).system)
      BY <2>2, <3>1 DEF Cores!CloseDialog
    <3>3. QED  BY <1>1, <3>2, LoadFits DEF LoadedFits
  <2>3. QED  BY <2>1, <2>2
<1>5. ChoiceFits' /\ dialog' \in [shown: BOOLEAN, modified: BOOLEAN]
  BY <1>1 DEF ChoiceFits
<1>6. QED  BY <1>1, <1>2, <1>3, <1>4, <1>5 DEF CoresInv

(* An item of the menu is loaded, or the dialog is shown first.              *)
LEMMA SelectKeeps == ASSUME CoresInv, NEW item \in menu, Cores!SelectCore(item)  PROVE CoresInv'
<1>1. /\ UNCHANGED <<disk, filetime, menu>> /\ ~dialog.shown
      /\ \/ chosen' = item.id /\ loaded' = loaded /\ Cores!ShowCoresDialog
         \/ /\ Cores!Load(Cores!GetCoreName(item.id).file, Cores!GetCoreName(item.id).system)
            /\ chosen' = chosen /\ dialog' = dialog
  BY DEF Cores!SelectCore
<1>2. chosen = None /\ ~dialog.modified
  BY <1>1 DEF CoresInv, ChoiceFits
<1>3. item.id # None
  <2>1. IsItem(item)
    BY DEF CoresInv, OnlyItems
  <2>2. QED  BY <2>1, ItemIsOf
<1>4. CASE chosen' = item.id /\ loaded' = loaded /\ Cores!ShowCoresDialog
  <2>1. ChoiceFits' /\ dialog' \in [shown: BOOLEAN, modified: BOOLEAN]
    <3>1. dialog' = [shown |-> TRUE, modified |-> FALSE]
      BY <1>1, <1>4, ShowKeeps
    <3>2. QED  BY <1>1, <1>4, <3>1 DEF ChoiceFits
  <2>2. LoadedFits'
    BY <1>1, <1>3, <1>4 DEF CoresInv, LoadedFits
  <2>3. QED  BY <1>1, <1>4, <2>1, <2>2, ShowKeeps DEF CoresInv
<1>5. CASE /\ Cores!Load(Cores!GetCoreName(item.id).file, Cores!GetCoreName(item.id).system)
           /\ chosen' = chosen /\ dialog' = dialog
  <2>1. LoadedFits'
    BY <1>1, <1>5, LoadFits DEF LoadedFits
  <2>2. TimesFit' /\ MenuFits' /\ OnlyItems' /\ ChoiceFits'
    BY <1>1, <1>5 DEF CoresInv, TimesFit, MenuFits, OnlyItems, IsItem, ChoiceFits
  <2>3. QED  BY <1>1, <1>5, <2>1, <2>2 DEF CoresInv
<1>6. QED  BY <1>1, <1>4, <1>5

(* So does a core named on the command line.                                 *)
LEMMA ArgsKeep ==
  ASSUME CoresInv, NEW f \in Cores!Files, NEW s, Cores!HandleArgs(f, s)  PROVE CoresInv'
<1>1. /\ UNCHANGED <<disk, filetime, menu, dialog, chosen>> /\ loaded = None
      /\ Cores!DoesCoreSupportSystem(f, s) /\ system' = s
      /\ (disk[f] # 0 /\ loaded' = f) \/ loaded' = None
  BY DEF Cores!HandleArgs
<1>2. LoadedFits'
  BY <1>1 DEF LoadedFits
<1>3. TimesFit' /\ MenuFits' /\ OnlyItems' /\ ChoiceFits'
  BY <1>1 DEF CoresInv, TimesFit, MenuFits, OnlyItems, IsItem, ChoiceFits
<1>4. QED  BY <1>1, <1>2, <1>3 DEF CoresInv

-----------------------------------------------------------------------------
(* What the invariant says of a closed dialog's menu: cores that are there   *)
(* have their items, and other items are of cores on the list twice.         *)
LEMMA ItemsOfCores ==
  ASSUME CoresInv, ~dialog.shown
  PROVE  /\ \A i \in Cores!Listed, s \in Cores!Systems :
              disk[Entries[i].file] # 0 /\ s \in Entries[i].systems =>
                \E item \in menu : /\ item.label = Entries[i].name /\ item.system = s
                                   /\ Cores!GetCoreName(item.id).file = Entries[i].file
         /\ \A item \in menu : \/ disk[Cores!GetCoreName(item.id).file] # 0
                               \/ Cores!Twice(Cores!GetCoreName(item.id).file)
                               \/ Cores!Available(filetime) = {}
<1>1. Cores!Available(filetime) = {} \/ menu = Cores!SystemsMenu(filetime)
  BY DEF CoresInv, MenuFits, ChoiceFits
<1>2. ASSUME NEW i \in Cores!Listed, NEW s \in Entries[i].systems, disk[Entries[i].file] # 0
      PROVE  \E item \in menu : /\ item.label = Entries[i].name /\ item.system = s
                                /\ Cores!GetCoreName(item.id).file = Entries[i].file
  <2> DEFINE id   == Cores!EncodeCoreName(Entries[i].name, s)
             item == [label |-> Entries[i].name, system |-> s, id |-> id]
  <2>1. i \in Cores!Available(filetime)
    BY <1>2 DEF Cores!Available, CoresInv, TimesFit
  <2>2. item \in menu
    BY <1>1, <2>1, MenuHasItems
  <2>3. Cores!GetCoreName(id).file = Entries[i].file
    BY ItemNamesCore DEF Cores!Listed
  <2> HIDE DEF id
  <2>4. item.label = Entries[i].name /\ item.system = s /\ item.id = id
    OBVIOUS
  <2> HIDE DEF item
  <2>5. QED  BY <2>2, <2>3, <2>4
<1>3. ASSUME NEW item \in menu, Cores!Available(filetime) # {},
             disk[Cores!GetCoreName(item.id).file] = 0
      PROVE  Cores!Twice(Cores!GetCoreName(item.id).file)
  <2>1. PICK i \in Cores!Available(filetime) : \E s \in Entries[i].systems :
          item = [label |-> Entries[i].name, system |-> s,
                  id |-> Cores!EncodeCoreName(Entries[i].name, s)]
    BY <1>1, <1>3, MenuHasItems
  <2>2. i \in DOMAIN Entries /\ filetime[i] # 0
    BY DEF Cores!Available, Cores!Listed
  <2>3. Cores!GetCoreName(item.id).file = Entries[i].file
    <3>1. PICK s \in Entries[i].systems :
            item = [label |-> Entries[i].name, system |-> s,
                    id |-> Cores!EncodeCoreName(Entries[i].name, s)]
      BY <2>1
    <3> DEFINE id == Cores!EncodeCoreName(Entries[i].name, s)
    <3>2. Cores!GetCoreName(id).file = Entries[i].file
      BY <2>2, ItemNamesCore
    <3> HIDE DEF id
    <3>3. item.id = id
      BY <3>1 DEF id
    <3>4. QED  BY <3>2, <3>3
  <2> DEFINE first == Cores!FirstOf(Entries[i].file)
             same  == {k \in Cores!Listed : Entries[k].file = Entries[i].file}
  <2>4. first \in DOMAIN Entries /\ Entries[first].file = Entries[i].file
    BY <2>2, FirstEntry
  <2>5. filetime[first] = 0
    BY <1>3, <2>2, <2>3 DEF CoresInv, TimesFit, Cores!Listed
  <2> HIDE DEF first
  <2>6. first \in same /\ i \in same /\ first # i
    BY <2>2, <2>4, <2>5 DEF Cores!Listed
  <2>7. IsFiniteSet(same)
    <3>1. same \in SUBSET (1..Len(Entries))
      BY CoresAssumption DEF Cores!Listed
    <3>2. IsFiniteSet(1..Len(Entries))
      BY CoresAssumption, FS_Interval
    <3> HIDE DEF same
    <3>3. QED  BY <3>1, <3>2, FS_Subset
  <2> HIDE DEF same
  <2>8. Cardinality(same) > 1
    <3>1. {first, i} \in SUBSET same
      BY <2>6
    <3>2. Cardinality({first, i}) = 2
      <4>1. IsFiniteSet({i}) /\ Cardinality({i}) = 1
        BY FS_Singleton
      <4>2. {first, i} = {i} \cup {first} /\ first \notin {i}
        BY <2>6
      <4>3. Cardinality({i} \cup {first}) = Cardinality({i}) + 1
        BY <4>1, <4>2, FS_AddElement
      <4>4. QED  BY <4>1, <4>2, <4>3
    <3>3. Cardinality({first, i}) <= Cardinality(same) /\ Cardinality(same) \in Nat
      BY <2>7, <3>1, FS_Subset, FS_CardinalityType
    <3>4. QED  BY <3>2, <3>3
  <2>9. QED  BY <2>3, <2>8, SameCount DEF Cores!Twice, same
<1>4. QED  BY <1>2, <1>3

(* Whatever cores the list names and whatever was downloaded, deleted and    *)
(* loaded in whatever order, the menu offers every core that is there for    *)
(* all its systems, an item loads the core and the system it names, and the  *)
(* loaded core serves the present system and was not deleted under it        *)
(* (Emulator.cpp, loadCores, encodeCoreName, getCoreName and the dialog).    *)
THEOREM MenuAlwaysLoads == Spec => []MenuLoadsWhatItSays
<1>1. CoresInv /\ [Cores!Next]_(Cores!vars) => CoresInv'
  <2>1. ASSUME CoresInv, Cores!Next  PROVE CoresInv'
    <3>1. \/ Cores!ManageCores \/ Cores!CloseDialog
          \/ \E i \in Cores!Listed : Cores!DeleteCore(i) \/ Cores!UpdateCore(i)
          \/ \E item \in menu : Cores!SelectCore(item)
          \/ \E f \in Cores!Files, s \in Cores!Systems : Cores!HandleArgs(f, s)
      BY <2>1 DEF Cores!Next
    <3>2. QED  BY <2>1, <3>1, ManageKeeps, CloseKeeps, DeleteKeeps, UpdateKeeps, SelectKeeps, ArgsKeep
  <2>2. CoresInv /\ UNCHANGED Cores!vars => CoresInv'
    BY DEF CoresInv, Cores!vars, TimesFit, MenuFits, OnlyItems, IsItem, ChoiceFits, LoadedFits
  <2>3. QED  BY <2>1, <2>2
<1>2. CoresInv => Cores!MenuLoadsWhatItSays
  <2>1. SUFFICES ASSUME CoresInv  PROVE Cores!MenuLoadsWhatItSays
    OBVIOUS
  <2>2. \A item \in menu : /\ Cores!GetCoreName(item.id).name = item.label
                           /\ Cores!GetCoreName(item.id).system = item.system
    BY <2>1, ItemIsOf DEF CoresInv, OnlyItems
  <2>3. /\ loaded # None => disk[loaded] # 0
        /\ loaded # None /\ chosen = None /\ system # 0 => Cores!DoesCoreSupportSystem(loaded, system)
    BY <2>1 DEF CoresInv, LoadedFits
  <2>4. QED  BY <2>1, <2>2, <2>3, ItemsOfCores DEF Cores!MenuLoadsWhatItSays
<1>3. Cores!Spec => []CoresInv
  BY <1>1, CoresBegin, PTL DEF Cores!Spec
<1>4. QED  BY <1>2, <1>3, CoresRun, PTL DEF MenuLoadsWhatItSays

-----------------------------------------------------------------------------
(* What the program remembers: Configuration.  A list of bindings is written *)
(* as texts, and the texts are read one after the other; so it is to be shown *)
(* that a text says what its binding does, that a loop over the entries does *)
(* with each what is to be done, and that the file of a program that ended   *)
(* is there until one ends again.                                            *)

(* What holds at first, and of each number if of the one before, holds.      *)
LEMMA StepByStep ==
  ASSUME NEW N \in Nat, NEW G, 0 \in G, \A n \in 1..N : n - 1 \in G => n \in G
  PROVE  \A n \in 0..N : n \in G
<1> DEFINE bad == {n \in 0..N : n \notin G}
<1>1. SUFFICES ASSUME bad # {}  PROVE FALSE
  OBVIOUS
<1>2. PICK m \in bad : \A j \in bad : m <= j
  <2>1. bad \subseteq Nat
    OBVIOUS
  <2> HIDE DEF bad
  <2>2. QED  BY <1>1, <2>1, HasLeast
<1>3. m \in 1..N /\ m \notin G
  BY <1>2
<1>4. m - 1 \in 0..N /\ ~(m <= m - 1)
  BY <1>3
<1>5. m - 1 \in G
  BY <1>2, <1>4
<1>6. QED  BY <1>3, <1>5

(* A loop that takes one value of a set to the next can be run.              *)
Loop(f, S, start, N, turn) ==
  f \in [0..N -> S] /\ f[0] = start /\ \A n \in 1..N : f[n] = turn[n][f[n - 1]]

(* It comes to its end.                                                      *)
LEMMA Iterates ==
  ASSUME NEW S, NEW start \in S, NEW N \in Nat, NEW turn \in [1..N -> [S -> S]]
  PROVE  \E f : Loop(f, S, start, N, turn)
<1> DEFINE Runs(f, m) == /\ f \in [0..m -> S] /\ f[0] = start
                         /\ \A n \in 1..m : f[n] = turn[n][f[n - 1]]
           G == {m \in 0..N : \E f : Runs(f, m)}
<1>1. 0 \in G
  <2>1. Runs([n \in 0..0 |-> start], 0)
    OBVIOUS
  <2> HIDE DEF Runs
  <2>2. QED  BY <2>1
<1>2. ASSUME NEW m \in 1..N, m - 1 \in G  PROVE m \in G
  <2>1. PICK f : Runs(f, m - 1)
    BY <1>2
  <2> DEFINE g == [n \in 0..m |-> IF n = m THEN turn[m][f[m - 1]] ELSE f[n]]
  <2>2. f[m - 1] \in S /\ turn[m] \in [S -> S]
    BY <2>1
  <2>3. g \in [0..m -> S]
    <3>1. \A n \in 0..m : n # m => n \in 0..(m - 1)
      OBVIOUS
    <3>2. QED  BY <2>1, <2>2, <3>1
  <2>4. g[0] = start
    BY <2>1
  <2>5. ASSUME NEW n \in 1..m  PROVE g[n] = turn[n][g[n - 1]]
    <3>1. n - 1 \in 0..m /\ n - 1 # m /\ n \in 0..m
      OBVIOUS
    <3>2. g[n - 1] = f[n - 1]
      BY <3>1
    <3>3. CASE n = m
      BY <3>1, <3>2, <3>3
    <3>4. CASE n # m
      <4>1. n \in 1..(m - 1) /\ g[n] = f[n]
        BY <3>1, <3>4
      <4>2. QED  BY <2>1, <3>2, <4>1
    <3>5. QED  BY <3>3, <3>4
  <2>6. Runs(g, m)
    <3> HIDE DEF g
    <3>1. QED  BY <2>3, <2>4, <2>5
  <2>7. m \in 0..N
    OBVIOUS
  <2> HIDE DEF Runs
  <2>8. QED  BY <2>6, <2>7
<1>3. N \in G
  <2> HIDE DEF G
  <2>1. N \in 0..N
    OBVIOUS
  <2>2. QED  BY <1>1, <1>2, <2>1, StepByStep
<1>4. PICK f : Runs(f, N)
  BY <1>3
<1>5. QED  BY <1>4 DEF Loop

(* What a sequence is with one word more.                                    *)
In(s) == {s[i] : i \in 1..Len(s)}
LEMMA WordAfter ==
  ASSUME NEW S, NEW s \in Seq(S), NEW w \in S
  PROVE  /\ s \o <<w>> \in Seq(S) /\ Len(s \o <<w>>) = Len(s) + 1
         /\ (s \o <<w>>)[Len(s) + 1] = w
         /\ \A i \in 1..Len(s) : (s \o <<w>>)[i] = s[i]
         /\ In(s \o <<w>>) = In(s) \cup {w}
<1> DEFINE one == <<w>>
           r == s \o one
<1>1. one \in Seq(S) /\ Len(one) = 1 /\ one[1] = w
  OBVIOUS
<1> HIDE DEF one
<1>2. /\ r \in Seq(S) /\ Len(r) = Len(s) + Len(one)
      /\ \A i \in 1..(Len(s) + Len(one)) :
           r[i] = IF i <= Len(s) THEN s[i] ELSE one[i - Len(s)]
  BY <1>1, ConcatProperties, Zenon
<1> HIDE DEF r
<1>3. Len(s) \in Nat /\ Len(r) = Len(s) + 1
  BY <1>1, <1>2
<1>4. \A i \in 1..Len(s) : r[i] = s[i]
  <2>1. \A i \in 1..Len(s) : i \in 1..(Len(s) + Len(one)) /\ i <= Len(s)
    BY <1>1, <1>3
  <2>2. QED  BY <1>2, <2>1, Zenon
<1>5. r[Len(s) + 1] = w
  <2> DEFINE l == Len(s)
             k == l + 1
  <2>1. k \in 1..(l + Len(one)) /\ ~(k <= l) /\ k - l = 1
    BY <1>1, <1>3
  <2>2. r[k] = one[k - l]
    <3> HIDE DEF k
    <3>1. QED  BY <1>2, <2>1, Zenon
  <2>3. QED  BY <1>1, <2>1, <2>2
<1>6. In(r) = In(s) \cup {w}
  <2> DEFINE l == Len(s)
  <2>1. 1..(l + 1) = (1..l) \cup {l + 1}
    BY <1>3
  <2> HIDE DEF l
  <2>2. QED  BY <1>3, <1>4, <1>5, <2>1 DEF l, In
<1>7. QED  BY <1>2, <1>3, <1>4, <1>5, <1>6 DEF r, one

(* And with one that may be there.                                           *)
LEMMA SaidAfter ==
  ASSUME NEW S, NEW s \in Seq(S), NEW w \in S, NEW m
  PROVE  /\ s \o Settings!Said(w, m) \in Seq(S)
         /\ In(s \o Settings!Said(w, m)) = In(s) \cup ({w} \cap m)
<1> DEFINE r == s \o Settings!Said(w, m)
<1>1. CASE w \in m
  <2> DEFINE a == s \o <<w>>
  <2>1. Settings!Said(w, m) = <<w>> /\ {w} \cap m = {w}
    BY <1>1 DEF Settings!Said
  <2>2. a \in Seq(S) /\ In(a) = In(s) \cup {w}
    BY WordAfter
  <2>3. r = a
    BY <2>1
  <2> HIDE DEF a
  <2>4. QED  BY <2>1, <2>2, <2>3
<1>2. CASE w \notin m
  <2>1. Settings!Said(w, m) = <<>> /\ {w} \cap m = {}
    BY <1>2 DEF Settings!Said
  <2>2. s \o <<>> = s
    BY ConcatEmptySeq
  <2>3. r = s
    BY <2>1, <2>2
  <2>4. QED  BY <1>2, <2>1, <2>3
<1>3. QED  BY <1>1, <1>2

(* A word that may be there, at first.                                       *)
LEMMA SaidFirst ==
  ASSUME NEW S, NEW w \in S, NEW m
  PROVE  LET r == Settings!Said(w, m)
         IN r \in Seq(S) /\ {r[i] : i \in 1..Len(r)} = {w} \cap m
<1>1. CASE w \in m
  <2> DEFINE r == <<w>>
  <2>1. r \in Seq(S) /\ Len(r) = 1 /\ r[1] = w
    OBVIOUS
  <2>2. Settings!Said(w, m) = r /\ {w} \cap m = {w}
    BY <1>1 DEF Settings!Said
  <2> HIDE DEF r
  <2>3. {r[i] : i \in 1..Len(r)} = {w}
    BY <2>1
  <2>4. QED  BY <2>1, <2>2, <2>3
<1>2. CASE w \notin m
  <2> DEFINE r == <<>>
  <2>1. r \in Seq(S) /\ Len(r) = 0
    OBVIOUS
  <2>2. Settings!Said(w, m) = r /\ {w} \cap m = {}
    BY <1>2 DEF Settings!Said
  <2> HIDE DEF r
  <2>3. {r[i] : i \in 1..Len(r)} = {}
    BY <2>1
  <2>4. QED  BY <2>1, <2>2, <2>3
<1>3. QED  BY <1>1, <1>2

(* A key's modifiers, in their order.                                        *)
LEMMA SpokenIs ==
  ASSUME NEW m
  PROVE  /\ Settings!Spoken(m) \in Seq(Settings!Modifiers)
         /\ In(Settings!Spoken(m)) = m \cap Settings!Modifiers
<1> DEFINE M == Settings!Modifiers
           s1 == Settings!Said("Ctrl+", m)
           s2 == s1 \o Settings!Said("Alt+", m)
           s3 == s2 \o Settings!Said("Shift+", m)
<1>1. "Ctrl+" \in M /\ "Alt+" \in M /\ "Shift+" \in M /\ M = {"Ctrl+", "Alt+", "Shift+"}
  BY DEF Settings!Modifiers
<1>2. Settings!Spoken(m) = s3
  BY DEF Settings!Spoken
<1> HIDE DEF M
<1>3. s1 \in Seq(M) /\ In(s1) = {"Ctrl+"} \cap m
  BY <1>1, SaidFirst DEF In
<1> HIDE DEF s1
<1>4. s2 \in Seq(M) /\ In(s2) = In(s1) \cup ({"Alt+"} \cap m)
  BY <1>1, <1>3, SaidAfter
<1> HIDE DEF s2
<1>5. s3 \in Seq(M) /\ In(s3) = In(s2) \cup ({"Shift+"} \cap m)
  <2> DEFINE w == "Shift+"
  <2>1. w \in M /\ s2 \in Seq(M)
    BY <1>1, <1>4
  <2> HIDE DEF w
  <2>2. s2 \o Settings!Said(w, m) \in Seq(M) /\ In(s2 \o Settings!Said(w, m)) = In(s2) \cup ({w} \cap m)
    BY <2>1, SaidAfter
  <2>3. QED  BY <2>2 DEF w
<1> HIDE DEF s3
<1>6. In(s3) = m \cap M
  BY <1>1, <1>3, <1>4, <1>5
<1>7. QED  BY <1>2, <1>5, <1>6 DEF M

(* A key's text: its modifiers, and the key.                                 *)
LEMMA TextOfKey ==
  ASSUME NEW b \in Settings!Bindings, b.type = "key"
  PROVE  LET t == Settings!BindingString(b)
         IN /\ t \in Seq(Settings!Words) /\ Len(t) >= 1 /\ t[Len(t)] = b.code
            /\ Settings!Front(t) = Settings!Spoken(b.mods)
            /\ b.mods = In(Settings!Spoken(b.mods))
            /\ Len(t) > 1 => t[1] \in b.mods
<1> DEFINE W == Settings!Words
           c == b.code
           m == b.mods
           s == Settings!Spoken(m)
           t == s \o <<c>>
<1>1. c \in W /\ m \subseteq Settings!Modifiers /\ Settings!Modifiers \subseteq W
  BY DEF Settings!Bindings, Settings!Words
<1>2. Settings!BindingString(b) = t
  BY DEF Settings!BindingString
<1> HIDE DEF c, m, W
<1>3. s \in Seq(W) /\ In(s) = m
  <2>1. s \in Seq(Settings!Modifiers) /\ In(s) = m \cap Settings!Modifiers
    BY SpokenIs
  <2> HIDE DEF s
  <2>2. QED  BY <1>1, <2>1
<1> HIDE DEF s
<1>4. /\ t \in Seq(W) /\ Len(t) = Len(s) + 1 /\ t[Len(s) + 1] = c
      /\ \A i \in 1..Len(s) : t[i] = s[i]
  BY <1>1, <1>3, WordAfter
<1>5. Len(s) \in Nat
  BY <1>3
<1> HIDE DEF t
<1>6. Settings!Front(t) = s
  <2> DEFINE n == Len(t) - 1
  <2>1. n = Len(s) /\ n \in Nat /\ n <= Len(t)
    BY <1>4, <1>5
  <2>2. Settings!Front(t) = SubSeq(t, 1, n)
    BY DEF Settings!Front
  <2> HIDE DEF n
  <2>3. SubSeq(t, 1, n) = [i \in 1..n |-> t[i]]
    BY <1>4, <2>1
  <2>4. s = [i \in 1..n |-> s[i]]
    BY <1>3, <2>1
  <2>5. QED  BY <1>4, <2>1, <2>2, <2>3, <2>4
<1>7. Len(t) > 1 => t[1] \in In(s)
  <2>1. Len(t) > 1 => 1 \in 1..Len(s)
    BY <1>4, <1>5
  <2>2. In(s) = {t[i] : i \in 1..Len(s)}
    BY <1>4 DEF In
  <2>3. QED  BY <2>1, <2>2
<1>8. QED
  BY <1>2, <1>3, <1>4, <1>5, <1>6, <1>7 DEF c, m, W, s

(* No two digits look alike.                                                 *)
LEMMA DigitsDiffer ==
  /\ \A n, m \in 0..9 : Settings!Digit(n) = Settings!Digit(m) => n = m
  /\ \A n \in 0..9 : Settings!Digit(n) \in Settings!Words /\ Settings!Digit(n) \in Settings!AllDigits
<1>1. \A n, m \in 0..9 : Settings!Digit(n) = Settings!Digit(m) => n = m
  BY DEF Settings!Digit
<1>2. \A n \in 0..9 : Settings!Digit(n) \in Settings!AllDigits
  BY DEF Settings!AllDigits
<1>3. QED  BY <1>1, <1>2 DEF Settings!Words

(* The words of a pad's text; the provers keep apart what they are not told. *)
Jay   == "J"
Blank == " "
Minus == "-"
Plus  == "+"

(* How a pad's text begins: its number has one digit, or two.                *)
LEMMA PadHead ==
  ASSUME NEW pad \in 0..99
  PROVE  LET h == <<Jay>> \o Settings!Digits(pad) \o <<Blank>>
         IN /\ h \in Seq(Settings!Words) /\ Len(h) >= 3 /\ h[1] = Jay /\ h[2] \in Settings!AllDigits
            /\ pad \in 0..9 => Len(h) = 3 /\ h[2] = Settings!Digit(pad)
            /\ pad \notin 0..9 => Len(h) = 4 /\ h[4] = Blank
<1> DEFINE W == Settings!Words
           h0 == <<Jay>>
           h1 == h0 \o Settings!Digits(pad)
           h == h1 \o <<Blank>>
<1>1. Jay \in W /\ Blank \in W
  BY DEF Settings!Words, Jay, Blank
<1>2. \A n \in 0..9 : Settings!Digit(n) \in W /\ Settings!Digit(n) \in Settings!AllDigits
  BY DigitsDiffer
<1> HIDE DEF W
<1>3. h0 \in Seq(W) /\ Len(h0) = 1 /\ h0[1] = Jay
  BY <1>1
<1> HIDE DEF h0
<1>4. CASE pad \in 0..9
  <2> DEFINE d == Settings!Digit(pad)
  <2>1. d \in W /\ d \in Settings!AllDigits
    BY <1>2, <1>4
  <2>2. h1 = h0 \o <<d>>
    BY <1>4 DEF Settings!Digits
  <2> HIDE DEF h1, d
  <2>3. /\ h1 \in Seq(W) /\ Len(h1) = Len(h0) + 1 /\ h1[Len(h0) + 1] = d
        /\ \A i \in 1..Len(h0) : h1[i] = h0[i]
    <3>1. /\ h0 \o <<d>> \in Seq(W) /\ Len(h0 \o <<d>>) = Len(h0) + 1
          /\ (h0 \o <<d>>)[Len(h0) + 1] = d
          /\ \A i \in 1..Len(h0) : (h0 \o <<d>>)[i] = h0[i]
      <4>1. h0 \in Seq(W) /\ d \in W
        BY <1>3, <2>1
      <4>2. QED  BY <4>1, WordAfter
    <3>2. QED  BY <2>2, <3>1
  <2>4. Len(h1) = 2 /\ h1[1] = Jay /\ h1[2] = d
    BY <1>3, <2>3
  <2>5. /\ h \in Seq(W) /\ Len(h) = Len(h1) + 1
        /\ \A i \in 1..Len(h1) : h[i] = h1[i]
    BY <1>1, <2>3, WordAfter
  <2> HIDE DEF h
  <2>6. Len(h) = 3 /\ h[1] = Jay /\ h[2] = d
    BY <2>4, <2>5
  <2>7. QED  BY <1>4, <2>1, <2>5, <2>6 DEF d, h, h1, h0, W
<1>5. CASE pad \notin 0..9
  <2> DEFINE p == pad \div 10
             q == pad % 10
             a == Settings!Digit(p)
             b == Settings!Digit(q)
             two == <<a, b>>
  <2>1. p \in 0..9 /\ q \in 0..9
    BY <1>5
  <2>2. Settings!Digits(pad) = two
    BY <1>5 DEF Settings!Digits
  <2> HIDE DEF p, q
  <2>3. a \in W /\ b \in W /\ a \in Settings!AllDigits
    BY <1>2, <2>1
  <2> HIDE DEF a, b
  <2>4. two \in Seq(W) /\ Len(two) = 2 /\ two[1] = a
    BY <2>3
  <2> HIDE DEF two
  <2>5. h1 = h0 \o two
    BY <2>2
  <2>6. /\ h0 \o two \in Seq(W) /\ Len(h0 \o two) = Len(h0) + Len(two)
        /\ \A i \in 1..(Len(h0) + Len(two)) :
             (h0 \o two)[i] = IF i <= Len(h0) THEN h0[i] ELSE two[i - Len(h0)]
    BY <1>3, <2>4, ConcatProperties, Zenon
  <2>7. /\ h1 \in Seq(W) /\ Len(h1) = 3
        /\ \A i \in 1..3 : h1[i] = IF i <= 1 THEN h0[i] ELSE two[i - 1]
    BY <1>3, <2>4, <2>5, <2>6
  <2> HIDE DEF h1
  <2>8. h1[1] = Jay /\ h1[2] = a
    <3>1. 1 \in 1..3 /\ 2 \in 1..3 /\ 1 <= 1 /\ ~(2 <= 1) /\ 2 - 1 = 1
      OBVIOUS
    <3>2. h1[1] = h0[1] /\ h1[2] = two[1]
      BY <2>7, <3>1
    <3>3. QED  BY <1>3, <2>4, <3>2
  <2>9. /\ h \in Seq(W) /\ Len(h) = Len(h1) + 1 /\ h[Len(h1) + 1] = Blank
        /\ \A i \in 1..Len(h1) : h[i] = h1[i]
    <3>1. h1 \in Seq(W) /\ Blank \in W
      BY <1>1, <2>7
    <3>2. QED  BY <3>1, WordAfter
  <2> HIDE DEF h
  <2>10. Len(h) = 4 /\ h[1] = Jay /\ h[2] = a /\ h[4] = Blank
    BY <2>7, <2>8, <2>9
  <2>11. QED  BY <1>5, <2>3, <2>9, <2>10 DEF h, h1, h0, W
<1>6. QED  BY <1>4, <1>5

(* A pad's text: its number, a sign if there is one, and the code.           *)
LEMMA TextOfPad ==
  ASSUME NEW b \in Settings!Bindings, b.type \in {"axis", "button"}
  PROVE  LET t == Settings!BindingString(b)
         IN /\ t \in Seq(Settings!Words) /\ Len(t) >= 4
            /\ t[1] = Jay /\ t[2] \in Settings!AllDigits
            /\ b.pad \notin 0..9 => Len(t) > 4 /\ t[4] = Blank
            /\ b.pad \in 0..9 => t[2] = Settings!Digit(b.pad)
            /\ b.pad \in 0..9 /\ b.mods = {} => Len(t) = 4 /\ t[4] = b.code
            /\ \A s : b.pad \in 0..9 /\ b.mods = {s} => Len(t) = 5 /\ t[4] = s /\ t[5] = b.code
<1> DEFINE W == Settings!Words
           c == b.code
           m == b.mods
           pad == b.pad
           h == <<Jay>> \o Settings!Digits(pad) \o <<Blank>>
           g == h \o Settings!Said(Minus, m) \o Settings!Said(Plus, m)
           t == g \o <<c>>
<1>1. c \in W /\ (m = {} \/ m = {Minus} \/ m = {Plus}) /\ pad \in 0..99
  BY DEF Settings!Bindings, Settings!Words, Minus, Plus
<1>2. Settings!BindingString(b) = t
  BY DEF Settings!BindingString, Jay, Blank, Minus, Plus
<1>3. Minus \in W /\ Plus \in W
  BY DEF Settings!Words, Settings!Signs, Minus, Plus
<1> HIDE DEF c, m, pad
<1>4. /\ h \in Seq(W) /\ Len(h) >= 3 /\ h[1] = Jay /\ h[2] \in Settings!AllDigits
      /\ pad \in 0..9 => Len(h) = 3 /\ h[2] = Settings!Digit(pad)
      /\ pad \notin 0..9 => Len(h) = 4 /\ h[4] = Blank
  BY <1>1, PadHead
<1> HIDE DEF h, W
<1>5. Len(h) \in Nat
  BY <1>4
<1>6. /\ g \in Seq(W) /\ \A i \in 1..Len(h) : g[i] = h[i]
      /\ m = {} => Len(g) = Len(h)
      /\ \A s : m = {s} => Len(g) = Len(h) + 1 /\ g[Len(h) + 1] = s
  <2>1. h \o <<>> = h
    BY <1>4, ConcatEmptySeq
  <2>2. ASSUME m = {}  PROVE g = h
    BY <2>1, <2>2 DEF Settings!Said
  <2>3. ASSUME NEW s \in {Minus, Plus}, m = {s}  PROVE g = h \o <<s>>
    <3>1. h \o <<s>> \in Seq(W)
      BY <1>3, <1>4, WordAfter
    <3>2. (h \o <<s>>) \o <<>> = h \o <<s>>
      BY <3>1, ConcatEmptySeq
    <3>3. s = Minus => g = (h \o <<s>>) \o <<>>
      BY <2>3 DEF Settings!Said, Minus, Plus
    <3>4. s = Plus => g = (h \o <<>>) \o <<s>>
      BY <2>3 DEF Settings!Said, Minus, Plus
    <3>5. QED  BY <2>1, <3>2, <3>3, <3>4
  <2>4. \A s \in {Minus, Plus} :
          /\ h \o <<s>> \in Seq(W) /\ Len(h \o <<s>>) = Len(h) + 1
          /\ (h \o <<s>>)[Len(h) + 1] = s
          /\ \A i \in 1..Len(h) : (h \o <<s>>)[i] = h[i]
    BY <1>3, <1>4, WordAfter
  <2> HIDE DEF g
  <2>5. CASE m = {}
    BY <1>4, <1>5, <2>2, <2>5
  <2>6. ASSUME NEW s \in {Minus, Plus}, m = {s}
        PROVE  /\ g \in Seq(W) /\ Len(g) = Len(h) + 1 /\ g[Len(h) + 1] = s
               /\ \A i \in 1..Len(h) : g[i] = h[i]
    BY <2>3, <2>4, <2>6
  <2>7. \A s, z : m = {z} /\ m = {s} => z = s
    OBVIOUS
  <2>8. \A z : m = {z} => m # {}
    OBVIOUS
  <2>9. QED  BY <1>1, <2>5, <2>6, <2>7, <2>8
<1> HIDE DEF g
<1>7. /\ t \in Seq(W) /\ Len(t) = Len(g) + 1 /\ t[Len(g) + 1] = c
      /\ \A i \in 1..Len(g) : t[i] = g[i]
  BY <1>1, <1>6, WordAfter
<1> HIDE DEF t
<1>8. Len(g) \in Nat /\ Len(g) >= Len(h)
  <2>1. m = {} \/ \E s : m = {s}
    BY <1>1
  <2>2. Len(g) = Len(h) \/ Len(g) = Len(h) + 1
    BY <1>6, <2>1, Zenon
  <2>3. QED  BY <1>5, <2>2
<1>9. \A i \in 1..Len(h) : t[i] = h[i]
  <2>1. \A i \in 1..Len(h) : i \in 1..Len(g)
    BY <1>5, <1>8
  <2>2. QED  BY <1>6, <1>7, <2>1
<1>10. 1 \in 1..Len(h) /\ 2 \in 1..Len(h)
  BY <1>4, <1>5
<1>11. t[1] = Jay /\ t[2] = h[2] /\ Len(t) >= 4
  BY <1>4, <1>5, <1>7, <1>8, <1>9, <1>10
<1>12. pad \notin 0..9 => Len(t) > 4 /\ t[4] = Blank
  <2>1. SUFFICES ASSUME pad \notin 0..9  PROVE Len(t) > 4 /\ t[4] = Blank
    OBVIOUS
  <2>2. Len(h) = 4 /\ h[4] = Blank
    BY <1>4, <2>1
  <2>3. 4 \in 1..Len(h)
    BY <2>2
  <2>4. QED  BY <1>7, <1>8, <1>9, <2>2, <2>3
<1>13. pad \in 0..9 /\ m = {} => Len(t) = 4 /\ t[4] = c
  BY <1>4, <1>6, <1>7
<1>14. ASSUME NEW s, pad \in 0..9, m = {s}  PROVE Len(t) = 5 /\ t[4] = s /\ t[5] = c
  <2>1. Len(h) = 3
    BY <1>4, <1>14
  <2>2. Len(g) = Len(h) + 1 /\ g[Len(h) + 1] = s
    BY <1>6, <1>14
  <2>3. Len(g) = 4 /\ g[4] = s
    BY <2>1, <2>2
  <2>4. 4 \in 1..Len(g)
    BY <2>3
  <2>5. QED  BY <1>7, <2>3, <2>4
<1>15. QED
  BY <1>2, <1>4, <1>7, <1>11, <1>12, <1>13, <1>14 DEF c, m, pad, W

(* What is not bound is a binding, too.                                      *)
LEMMA UnboundIs == Settings!Unbound \in Settings!Bindings /\ Settings!Unbound.type = "none"
<1> DEFINE u == Settings!Unbound
<1>1. u = [type |-> "none", pad |-> 0, code |-> "", mods |-> {}]
  BY DEF Settings!Unbound
<1>2. "" \in Settings!Codes
  BY DEF Settings!Codes
<1>3. u \in [type: {"none", "key", "button", "axis"}, pad: Int, code: Settings!Codes,
             mods: SUBSET (Settings!Modifiers \cup Settings!Signs)]
  <2> DEFINE type == "none"
             code == ""
             types == {"none", "key", "button", "axis"}
             all == SUBSET (Settings!Modifiers \cup Settings!Signs)
  <2>1. type \in types /\ {} \in all /\ code \in Settings!Codes
    BY <1>2
  <2>2. u = [type |-> type, pad |-> 0, code |-> code, mods |-> {}]
    BY <1>1
  <2> HIDE DEF type, code, types, all, u
  <2>3. u \in [type: types, pad: Int, code: Settings!Codes, mods: all]
    BY <2>1, <2>2
  <2>4. QED  BY <2>3 DEF types, all
<1>4. u.type = "none"
  BY <1>1
<1> HIDE DEF u
<1>5. u \in Settings!Bindings
  BY <1>3, <1>4 DEF Settings!Bindings
<1>6. QED  BY <1>4, <1>5 DEF u

(* What is read is a binding, whatever the text.                             *)
LEMMA ParseIsBinding ==
  ASSUME NEW old \in Settings!Bindings, NEW text \in Seq(Settings!Words)
  PROVE  Settings!ParseBindingString(old, text) \in Settings!Bindings
<1>1. Settings!Unbound \in Settings!Bindings
  BY UnboundIs
<1>2. ASSUME Settings!IsPad(text)  PROVE Settings!ParsePad(old, text) \in Settings!Bindings
  <2>1. Settings!PadOf(text) \in 0..9
    BY <1>2 DEF Settings!IsPad, Settings!PadOf, Settings!AllDigits
  <2> DEFINE sign == {text[4]} \cap Settings!Signs
             words == IF sign = {} THEN 4 ELSE 5
             code == text[words]
             type == IF code \in Axes THEN "axis" ELSE "button"
             new == [type |-> type, pad |-> Settings!PadOf(text), code |-> code, mods |-> sign]
  <2>2. sign = {} \/ sign = {"-"} \/ sign = {"+"}
    BY DEF Settings!Signs
  <2>3. ASSUME code \in IF sign = {} THEN Buttons \cup Axes ELSE Axes
        PROVE  new \in Settings!Bindings
    <3> HIDE DEF sign, code
    <3>1. sign \in SUBSET (Settings!Modifiers \cup Settings!Signs)
      BY <2>2 DEF Settings!Signs
    <3>2. code \in Settings!Codes
      BY <2>3 DEF Settings!Codes
    <3>3. new \in [type: {"none", "key", "button", "axis"}, pad: Int, code: Settings!Codes,
                   mods: SUBSET (Settings!Modifiers \cup Settings!Signs)]
      BY <2>1, <3>1, <3>2
    <3>4. type = "button" => code \in Buttons /\ sign = {}
      BY <2>3
    <3>5. type = "axis" => code \in Axes
      BY <2>3
    <3>6. QED  BY <2>1, <2>2, <3>3, <3>4, <3>5 DEF Settings!Bindings
  <2> HIDE DEF sign, code, new
  <2>4. Settings!ParsePad(old, text)
          = IF Len(text) = words /\ code \in (IF sign = {} THEN Buttons \cup Axes ELSE Axes)
              THEN new ELSE old
    BY DEF Settings!ParsePad, sign, code, new
  <2>5. QED  BY <2>3, <2>4
<1>3. Settings!ParseKey(old, text) \in Settings!Bindings
  <2> DEFINE code == Settings!Last(text)
             mods == Settings!ToSet(Settings!Front(text))
             new == [type |-> "key", pad |-> 0, code |-> code, mods |-> mods]
  <2>1. ASSUME code \in Keys, mods \subseteq Settings!Modifiers  PROVE new \in Settings!Bindings
    <3> HIDE DEF code, mods
    <3>1. code \in Settings!Codes /\ mods \in SUBSET (Settings!Modifiers \cup Settings!Signs)
      BY <2>1 DEF Settings!Codes
    <3>2. new \in [type: {"none", "key", "button", "axis"}, pad: Int, code: Settings!Codes,
                   mods: SUBSET (Settings!Modifiers \cup Settings!Signs)]
      BY <3>1
    <3>3. new.type = "key" /\ new.mods = mods
      OBVIOUS
    <3> HIDE DEF new
    <3>4. QED  BY <2>1, <3>2, <3>3 DEF Settings!Bindings
  <2>2. ASSUME Settings!Front(text) = Settings!Spoken(mods)  PROVE mods \subseteq Settings!Modifiers
    <3> DEFINE f == Settings!Spoken(mods)
    <3>1. mods = Settings!ToSet(f)
      BY <2>2
    <3>2. f \in Seq(Settings!Modifiers)
      BY SpokenIs
    <3> HIDE DEF f, mods
    <3>3. Settings!ToSet(f) \subseteq Settings!Modifiers
      BY <3>2 DEF Settings!ToSet
    <3>4. QED  BY <3>1, <3>3
  <2> HIDE DEF code, mods, new
  <2>3. Settings!ParseKey(old, text)
          = IF code \in Keys /\ Settings!Front(text) = Settings!Spoken(mods) THEN new ELSE old
    BY DEF Settings!ParseKey, code, mods, new
  <2>4. QED  BY <2>1, <2>2, <2>3
<1>4. QED  BY <1>1, <1>2, <1>3 DEF Settings!ParseBindingString

(* A binding that can be written is read as it was.                          *)
LEMMA ParseReturns ==
  ASSUME NEW old \in Settings!Bindings, NEW b \in Settings!Bindings, Settings!Sayable(b)
  PROVE  Settings!Same(Settings!ParseBindingString(old, Settings!BindingString(b)), b)
<1> DEFINE t == Settings!BindingString(b)
<1>1. CASE b.type = "none"
  <2>1. t = Settings!NothingBound
    BY <1>1 DEF Settings!BindingString
  <2> HIDE DEF t
  <2>2. Settings!ParseBindingString(old, t) = Settings!Unbound
    <3>1. Len(<<"none">>) = 1
      OBVIOUS
    <3>2. ~Settings!IsPad(t)
      BY <2>1, <3>1 DEF Settings!IsPad, Settings!NothingBound
    <3>3. QED  BY <2>1, <3>2 DEF Settings!ParseBindingString
  <2>3. Settings!Unbound.type = "none"
    BY DEF Settings!Unbound
  <2>4. QED  BY <1>1, <2>2, <2>3 DEF Settings!Same, t
<1>2. CASE b.type = "key"
  <2> DEFINE c == b.code
             m == b.mods
  <2>1. c \in Keys /\ m \subseteq Settings!Modifiers
    BY <1>2 DEF Settings!Sayable, Settings!Bindings
  <2>2. /\ t \in Seq(Settings!Words) /\ Len(t) >= 1 /\ t[Len(t)] = c
        /\ Settings!Front(t) = Settings!Spoken(m) /\ m = In(Settings!Spoken(m))
        /\ Len(t) > 1 => t[1] \in m
    BY <1>2, TextOfKey
  <2> HIDE DEF t, c, m
  <2>3. t # Settings!NothingBound
    <3>1. SUFFICES ASSUME t = <<"none">>  PROVE FALSE
      BY DEF Settings!NothingBound
    <3>2. Len(t) = 1 /\ t[1] = "none"
      BY <3>1
    <3>3. c = "none"
      BY <2>2, <3>2
    <3>4. QED  BY <2>1, <3>3, SettingsAssumption
  <2>4. ~Settings!IsPad(t)
    <3>1. SUFFICES ASSUME Len(t) > 1, t[1] = "J"  PROVE FALSE
      BY DEF Settings!IsPad
    <3>2. t[1] \in Settings!Modifiers
      BY <2>1, <2>2, <3>1
    <3>3. QED  BY <3>1, <3>2 DEF Settings!Modifiers
  <2>5. Settings!Last(t) = c
    BY <2>2 DEF Settings!Last
  <2>6. Settings!ToSet(Settings!Front(t)) = m /\ Settings!Front(t) = Settings!Spoken(m)
    <3> DEFINE f == Settings!Spoken(m)
    <3>1. f \in Seq(Settings!Modifiers)
      BY SpokenIs
    <3>2. Settings!Front(t) = f /\ m = In(f)
      BY <2>2
    <3> HIDE DEF f
    <3>3. Settings!ToSet(f) = In(f)
      BY <3>1 DEF Settings!ToSet, In
    <3>4. Settings!Front(t) = Settings!Spoken(m)
      BY <2>2
    <3>5. QED  BY <3>2, <3>3, <3>4
  <2>7. Settings!ParseBindingString(old, t) = [type |-> "key", pad |-> 0, code |-> c, mods |-> m]
    <3>1. Settings!ParseBindingString(old, t) = Settings!ParseKey(old, t)
      BY <2>3, <2>4 DEF Settings!ParseBindingString
    <3>2. QED  BY <2>1, <2>5, <2>6, <3>1 DEF Settings!ParseKey
  <2>8. QED  BY <1>2, <2>7 DEF Settings!Same, t, c, m
<1>3. CASE b.type \in {"button", "axis"}
  <2> DEFINE c == b.code
             m == b.mods
             pad == b.pad
  <2>1. pad \in 0..9
    BY <1>3 DEF Settings!Sayable
  <2>2. /\ m = {} \/ m = {"-"} \/ m = {"+"}
        /\ b.type = "axis" => c \in Axes
        /\ b.type = "button" => c \in Buttons /\ c \notin Axes /\ m = {}
    BY <1>3, SettingsAssumption DEF Settings!Bindings
  <2>3. /\ t \in Seq(Settings!Words) /\ Len(t) >= 4
        /\ t[1] = Jay /\ t[2] \in Settings!AllDigits /\ t[2] = Settings!Digit(pad)
        /\ m = {} => Len(t) = 4 /\ t[4] = c
        /\ \A s : m = {s} => Len(t) = 5 /\ t[4] = s /\ t[5] = c
    BY <1>3, <2>1, TextOfPad
  <2> HIDE DEF t, c, m, pad
  <2>4. Settings!IsPad(t)
    BY <2>3 DEF Settings!IsPad, Jay
  <2>5. t # Settings!NothingBound
    BY <2>3 DEF Settings!NothingBound
  <2>6. Settings!PadOf(t) = pad
    BY <2>1, <2>3, DigitsDiffer DEF Settings!PadOf
  <2>7. {t[4]} \cap Settings!Signs = m
    <3>1. CASE m = {}
      <4>1. t[4] = c
        BY <2>3, <3>1
      <4>2. c \notin Settings!Signs
        BY <1>3, <2>2, SettingsAssumption DEF Settings!Signs
      <4>3. QED  BY <3>1, <4>1, <4>2
    <3>2. CASE m = {"-"}
      <4>1. t[4] = "-"
        BY <2>3, <3>2
      <4>2. QED  BY <3>2, <4>1 DEF Settings!Signs
    <3>3. CASE m = {"+"}
      <4>1. t[4] = "+"
        BY <2>3, <3>3
      <4>2. QED  BY <3>3, <4>1 DEF Settings!Signs
    <3>4. QED  BY <2>2, <3>1, <3>2, <3>3
  <2>8. /\ m = {} => Len(t) = 4 /\ t[4] = c
        /\ m # {} => Len(t) = 5 /\ t[5] = c
    BY <2>2, <2>3
  <2>9. Settings!ParsePad(old, t) = [type |-> b.type, pad |-> pad, code |-> c, mods |-> m]
    <3>1. b.type = IF c \in Axes THEN "axis" ELSE "button"
      BY <1>3, <2>2
    <3>2. CASE m = {}
      <4>1. c \in Buttons \cup Axes
        BY <1>3, <2>2
      <4>2. QED  BY <2>6, <2>7, <2>8, <3>1, <3>2, <4>1 DEF Settings!ParsePad
    <3>3. CASE m # {}
      <4>1. c \in Axes
        BY <1>3, <2>2, <3>3
      <4>2. QED  BY <2>6, <2>7, <2>8, <3>1, <3>3, <4>1 DEF Settings!ParsePad
    <3>4. QED  BY <3>2, <3>3
  <2>10. Settings!ParseBindingString(old, t) = Settings!ParsePad(old, t)
    BY <2>4, <2>5 DEF Settings!ParseBindingString
  <2>11. QED  BY <1>3, <2>9, <2>10 DEF Settings!Same, t, c, m, pad
<1>4. QED  BY <1>1, <1>2, <1>3 DEF Settings!Bindings

(* The text of a binding.                                                    *)
LEMMA TextIs ==
  ASSUME NEW b \in Settings!Bindings
  PROVE  Settings!BindingString(b) \in Seq(Settings!Words) \ {<<>>}
<1> DEFINE t == Settings!BindingString(b)
<1>1. ASSUME t \in Seq(Settings!Words), Len(t) >= 1  PROVE t \in Seq(Settings!Words) \ {<<>>}
  <2> HIDE DEF t
  <2>1. QED  BY <1>1
<1>2. CASE b.type = "none"
  <2>1. t = <<"none">>
    BY <1>2 DEF Settings!BindingString, Settings!NothingBound
  <2> DEFINE w == "none"
  <2>2. w \in Settings!Words
    BY DEF Settings!Words
  <2>3. t = <<w>>
    BY <2>1
  <2> HIDE DEF w, t
  <2>4. t \in Seq(Settings!Words) /\ Len(t) = 1
    BY <2>2, <2>3
  <2>5. QED  BY <1>1, <2>4 DEF t
<1>3. CASE b.type = "key"
  BY <1>1, <1>3, TextOfKey
<1>4. CASE b.type \in {"button", "axis"}
  <2>1. t \in Seq(Settings!Words) /\ Len(t) >= 4
    BY <1>4, TextOfPad
  <2> HIDE DEF t
  <2>2. Len(t) >= 1
    BY <2>1
  <2>3. QED  BY <1>1, <2>1, <2>2 DEF t
<1>5. QED  BY <1>2, <1>3, <1>4 DEF Settings!Bindings

(* Every name's binding.                                                     *)
Lists == [Settings!Ids -> Settings!Bindings]

(* Texts that can be read.                                                   *)
Readable(e) ==
  /\ e \in Settings!Texts
  /\ e.name.what = "LSTICK_X" =>
       e.text = Settings!NothingBound \/ (Settings!IsPad(e.text) /\ Settings!Last(e.text) \in Axes)

(* What a binding is called, of the list of names.                           *)
LEMMA NamesAre ==
  /\ Len(BindingNames) \in Nat /\ Settings!Ids = 1..Len(BindingNames)
  /\ \A i \in Settings!Ids : /\ BindingNames[i] \in [port: Nat, what: STRING]
                             /\ BindingNames[i].what # "LSTICK_X"
  /\ \A i, j \in Settings!Ids : BindingNames[i] = BindingNames[j] => i = j
<1>1. Len(BindingNames) \in Nat /\ DOMAIN BindingNames = 1..Len(BindingNames)
  BY SettingsAssumption
<1>2. \A i \in 1..Len(BindingNames) : BindingNames[i] \in [port: Nat, what: STRING]
  BY SettingsAssumption, ElementOfSeq
<1>3. QED  BY <1>1, <1>2, SettingsAssumption DEF Settings!Ids

(* What is written can be read.                                              *)
LEMMA EntryReadable ==
  ASSUME NEW i \in Settings!Ids, NEW b \in Settings!Bindings
  PROVE  Readable(Settings!Entry(BindingNames[i], b))
<1>1. Settings!BindingString(b) \in Seq(Settings!Words) \ {<<>>}
  BY TextIs
<1>2. BindingNames[i] \in [port: Nat, what: STRING] /\ BindingNames[i].what # "LSTICK_X"
  BY NamesAre
<1> DEFINE e == Settings!Entry(BindingNames[i], b)
<1>3. e = [name |-> BindingNames[i], text |-> Settings!BindingString(b)]
  BY DEF Settings!Entry
<1> HIDE DEF e
<1>4. QED  BY <1>1, <1>2, <1>3 DEF Readable, Settings!Texts, e

(* Reading an entry leaves a list of bindings.                               *)
LEMMA ReadIsList ==
  ASSUME NEW list \in Lists, NEW e, Readable(e)
  PROVE  Settings!ReadEntry(list, e) \in Lists
<1>1. e.text \in Seq(Settings!Words)
  BY DEF Readable, Settings!Texts
<1>2. CASE e.name.what = "LSTICK_X"
  <2> DEFINE text == e.text
             b == Settings!ParseBindingString(Settings!Unbound, text)
  <2>1. Settings!Unbound \in Settings!Bindings /\ Settings!Unbound.type = "none"
    BY UnboundIs
  <2>2. b \in Settings!Bindings
    BY <1>1, <2>1, ParseIsBinding
  <2>3. b.type \in {"none", "axis"}
    <3>1. text = Settings!NothingBound \/ (Settings!IsPad(text) /\ Settings!Last(text) \in Axes)
      BY <1>2 DEF Readable
    <3> HIDE DEF text
    <3>2. CASE text = Settings!NothingBound
      <4>1. Len(<<"none">>) = 1
        OBVIOUS
      <4>2. ~Settings!IsPad(text)
        BY <3>2, <4>1 DEF Settings!IsPad, Settings!NothingBound
      <4>3. b = Settings!Unbound
        BY <3>2, <4>2 DEF Settings!ParseBindingString
      <4>4. QED  BY <2>1, <4>3
    <3>3. CASE Settings!IsPad(text) /\ Settings!Last(text) \in Axes
      <4>1. Len(<<"none">>) = 1
        OBVIOUS
      <4>2. text # Settings!NothingBound
        BY <3>3, <4>1 DEF Settings!IsPad, Settings!NothingBound
      <4>3. b = Settings!ParsePad(Settings!Unbound, text)
        BY <3>3, <4>2 DEF Settings!ParseBindingString
      <4>4. text[Len(text)] \in Axes
        BY <3>3 DEF Settings!Last
      <4> DEFINE sign == {text[4]} \cap Settings!Signs
                 words == IF sign = {} THEN 4 ELSE 5
      <4>5. CASE Len(text) = words
        <5>1. text[words] \in Axes
          BY <4>4, <4>5
        <5>2. b.type = "axis"
          BY <4>3, <4>5, <5>1 DEF Settings!ParsePad
        <5>3. QED  BY <5>2
      <4>6. CASE Len(text) # words
        <5>1. b = Settings!Unbound
          BY <4>3, <4>6 DEF Settings!ParsePad
        <5>2. QED  BY <2>1, <5>1
      <4>7. QED  BY <4>5, <4>6
    <3>4. QED  BY <3>1, <3>2, <3>3
  <2> HIDE DEF b
  <2>4. [b EXCEPT !.mods = {"-"}] \in Settings!Bindings /\ [b EXCEPT !.mods = {"+"}] \in Settings!Bindings
    <3>1. ASSUME NEW s \in {{"-"}, {"+"}}  PROVE [b EXCEPT !.mods = s] \in Settings!Bindings
      <4> DEFINE c == [b EXCEPT !.mods = s]
      <4>1. b \in [type: {"none", "key", "button", "axis"}, pad: Int, code: Settings!Codes,
                   mods: SUBSET (Settings!Modifiers \cup Settings!Signs)]
        BY <2>2 DEF Settings!Bindings
      <4>2. s \in SUBSET (Settings!Modifiers \cup Settings!Signs)
        BY DEF Settings!Signs
      <4>3. c \in [type: {"none", "key", "button", "axis"}, pad: Int, code: Settings!Codes,
                   mods: SUBSET (Settings!Modifiers \cup Settings!Signs)]
        BY <4>1, <4>2
      <4>4. c.type = b.type /\ c.pad = b.pad /\ c.code = b.code /\ c.mods = s
        BY <4>1
      <4>5. b.type = "axis" => b.pad \in 0..99 /\ b.code \in Axes
        BY <2>2 DEF Settings!Bindings
      <4> HIDE DEF c
      <4>6. QED  BY <2>3, <4>3, <4>4, <4>5 DEF Settings!Bindings, c
    <3>2. QED  BY <3>1
  <2>5. Settings!ReadEntry(list, e) = Settings!RemapBinding(list, e.name.port, b)
    BY <1>2 DEF Settings!ReadEntry, b
  <2>6. \A i \in Settings!Ids : list[i] \in Settings!Bindings
    BY DEF Lists
  <2> DEFINE left == [port |-> e.name.port, what |-> "LSTICK_LEFT"]
             right == [port |-> e.name.port, what |-> "LSTICK_RIGHT"]
             Part(i) == CASE BindingNames[i] = left -> [b EXCEPT !.mods = {"-"}]
                        [] BindingNames[i] = right -> [b EXCEPT !.mods = {"+"}]
                        [] OTHER -> list[i]
  <2>7. Settings!RemapBinding(list, e.name.port, b) = [i \in Settings!Ids |-> Part(i)]
    BY DEF Settings!RemapBinding
  <2>8. \A i \in Settings!Ids : Part(i) \in Settings!Bindings
    <3> HIDE DEF left, right
    <3>1. QED  BY <2>4, <2>6
  <2> HIDE DEF Part
  <2>9. QED  BY <2>5, <2>7, <2>8 DEF Lists
<1>3. CASE e.name.what # "LSTICK_X"
  <2>1. \A i \in Settings!Ids : list[i] \in Settings!Bindings
    BY DEF Lists
  <2>2. \A i \in Settings!Ids : Settings!ParseBindingString(list[i], e.text) \in Settings!Bindings
    BY <1>1, <2>1, ParseIsBinding
  <2>3. QED  BY <1>3, <2>1, <2>2 DEF Settings!ReadEntry, Lists
<1>4. QED  BY <1>2, <1>3

(* An entry read for its place, and for no other.                            *)
ReadFor(list, p, N, n, text) ==
  [i \in Settings!Ids |-> IF i \in (p + 1)..(p + N) /\ BindingNames[i - p] = BindingNames[n]
                            THEN Settings!ParseBindingString(list[i], text) ELSE list[i]]

(* The binding that was written is there then, and the others stay.          *)
LEMMA ReadsFor ==
  ASSUME NEW list \in Lists, NEW p \in Nat, NEW N \in Nat, N <= Len(BindingNames),
         p + N <= Len(BindingNames), NEW n \in 1..N, NEW b \in Settings!Bindings
  PROVE  /\ ReadFor(list, p, N, n, Settings!BindingString(b)) \in Lists
         /\ Settings!Sayable(b) => Settings!Same(ReadFor(list, p, N, n, Settings!BindingString(b))[p + n], b)
         /\ \A k \in 1..N : k # n => ReadFor(list, p, N, n, Settings!BindingString(b))[p + k] = list[p + k]
<1> DEFINE text == Settings!BindingString(b)
           Part(i) == IF i \in (p + 1)..(p + N) /\ BindingNames[i - p] = BindingNames[n]
                        THEN Settings!ParseBindingString(list[i], text) ELSE list[i]
           new == ReadFor(list, p, N, n, text)
<1>1. \A i \in Settings!Ids : new[i] = Part(i)
  BY DEF ReadFor
<1>2. new = [i \in Settings!Ids |-> Part(i)]
  BY DEF ReadFor
<1>3. text \in Seq(Settings!Words)
  BY TextIs
<1>4. \A i \in Settings!Ids : list[i] \in Settings!Bindings
  BY DEF Lists
<1>5. \A i \in Settings!Ids : Settings!ParseBindingString(list[i], text) \in Settings!Bindings
  <2> HIDE DEF text
  <2>1. QED  BY <1>3, <1>4, ParseIsBinding
<1>6. new \in Lists
  <2>1. \A i \in Settings!Ids : Part(i) \in Settings!Bindings
    <3> HIDE DEF text
    <3>1. QED  BY <1>4, <1>5
  <2> HIDE DEF Part, new
  <2>2. QED  BY <1>2, <2>1 DEF Lists
<1>7. \A k \in 1..N : /\ p + k \in Settings!Ids /\ p + k \in (p + 1)..(p + N) /\ (p + k) - p = k
                      /\ k \in Settings!Ids
  <2>1. Len(BindingNames) \in Nat /\ Settings!Ids = 1..Len(BindingNames)
    BY NamesAre
  <2>2. QED  BY <2>1
<1>8. \A i, j \in Settings!Ids : BindingNames[i] = BindingNames[j] => i = j
  BY NamesAre
<1> HIDE DEF new
<1>9. new[p + n] = Settings!ParseBindingString(list[p + n], text)
  <2> DEFINE i == p + n
  <2>1. i \in Settings!Ids /\ i \in (p + 1)..(p + N) /\ i - p = n
    BY <1>7
  <2> HIDE DEF i, text
  <2>2. new[i] = Settings!ParseBindingString(list[i], text)
    BY <1>1, <2>1
  <2>3. QED  BY <2>2 DEF i
<1>10. ASSUME NEW k \in 1..N, k # n  PROVE new[p + k] = list[p + k]
  <2> DEFINE i == p + k
  <2>1. i \in Settings!Ids /\ i - p = k /\ k \in Settings!Ids /\ n \in Settings!Ids
    BY <1>7
  <2>2. BindingNames[k] # BindingNames[n]
    BY <1>8, <1>10, <2>1
  <2> HIDE DEF i, text
  <2>3. new[i] = list[i]
    BY <1>1, <2>1, <2>2
  <2>4. QED  BY <2>3 DEF i
<1>11. Settings!Sayable(b) => Settings!Same(new[p + n], b)
  <2>1. list[p + n] \in Settings!Bindings
    BY <1>4, <1>7
  <2>2. QED  BY <1>9, <2>1, ParseReturns
<1>12. QED  BY <1>6, <1>10, <1>11 DEF new

(* Reading one entry after the other brings every binding back.              *)
LEMMA AllReturn ==
  ASSUME NEW p \in Nat, NEW N \in Nat, N <= Len(BindingNames), p + N <= Len(BindingNames),
         NEW was, \A n \in 1..N : was[n] \in Settings!Bindings,
         NEW after, after[0] \in Lists,
         \A n \in 1..N : after[n] = ReadFor(after[n - 1], p, N, n, Settings!BindingString(was[n]))
  PROVE  /\ after[N] \in Lists
         /\ \A n \in 1..N : Settings!Sayable(was[n]) => Settings!Same(after[N][p + n], was[n])
<1> DEFINE Back(m) == \A n \in 1..m : Settings!Sayable(was[n]) => Settings!Same(after[m][p + n], was[n])
           G == {m \in 0..N : after[m] \in Lists /\ Back(m)}
<1>1. 0 \in G
  <2>1. Back(0)
    OBVIOUS
  <2> HIDE DEF Back
  <2>2. QED  BY <2>1
<1>2. ASSUME NEW m \in 1..N, m - 1 \in G  PROVE m \in G
  <2>1. after[m - 1] \in Lists /\ Back(m - 1)
    BY <1>2
  <2> DEFINE list == after[m - 1]
             b == was[m]
             new == ReadFor(list, p, N, m, Settings!BindingString(b))
  <2>2. list \in Lists /\ b \in Settings!Bindings /\ after[m] = new
    BY <2>1
  <2> HIDE DEF list, b
  <2>3. /\ new \in Lists
        /\ Settings!Sayable(b) => Settings!Same(new[p + m], b)
        /\ \A k \in 1..N : k # m => new[p + k] = list[p + k]
    BY <2>2, ReadsFor
  <2> HIDE DEF new
  <2>4. ASSUME NEW n \in 1..m, Settings!Sayable(was[n])  PROVE Settings!Same(new[p + n], was[n])
    <3>1. CASE n = m
      BY <2>3, <2>4, <3>1 DEF b
    <3>2. CASE n # m
      <4>1. n \in 1..(m - 1) /\ n \in 1..N
        BY <3>2
      <4>2. Settings!Same(list[p + n], was[n])
        BY <2>1, <2>4, <4>1 DEF list
      <4>3. new[p + n] = list[p + n]
        BY <2>3, <3>2, <4>1
      <4>4. QED  BY <4>2, <4>3
    <3>3. QED  BY <3>1, <3>2
  <2>5. Back(m)
    BY <2>2, <2>4
  <2>6. m \in 0..N
    OBVIOUS
  <2> HIDE DEF Back
  <2>7. QED  BY <2>2, <2>3, <2>5, <2>6
<1>3. N \in G
  <2> HIDE DEF G
  <2>1. N \in 0..N
    OBVIOUS
  <2>2. QED  BY <1>1, <1>2, <2>1, StepByStep
<1>4. QED  BY <1>3

(* Reading a file's entries goes on as it is written.                        *)
LEMMA DeserializeRuns ==
  ASSUME NEW list \in Lists, NEW entries, Len(entries) \in Nat,
         \A n \in 1..Len(entries) : Readable(entries[n])
  PROVE  \E after :
           /\ after[0] = list
           /\ \A n \in 1..Len(entries) : after[n] = Settings!ReadEntry(after[n - 1], entries[n])
           /\ Settings!DeserializeBindings(list, entries) = after[Len(entries)]
           /\ after[Len(entries)] \in Lists
<1> DEFINE N == Len(entries)
           Turned(f, n) == IF n = 0 THEN list ELSE Settings!ReadEntry(f[n - 1], entries[n])
           Unrolls(f) == f = [n \in 0..N |-> Turned(f, n)]
           turn == [n \in 1..N |-> [l \in Lists |-> Settings!ReadEntry(l, entries[n])]]
<1>1. N \in Nat
  OBVIOUS
<1>2. turn \in [1..N -> [Lists -> Lists]]
  <2>1. \A n \in 1..N : \A l \in Lists : Settings!ReadEntry(l, entries[n]) \in Lists
    BY ReadIsList
  <2> HIDE DEF N
  <2>2. QED  BY <2>1
<1>3. Settings!DeserializeBindings(list, entries) = (CHOOSE f : Unrolls(f))[N]
  BY DEF Settings!DeserializeBindings
<1>4. PICK f : Loop(f, Lists, list, N, turn)
  <2> HIDE DEF turn, N
  <2>1. QED  BY <1>1, <1>2, Iterates
<1> HIDE DEF N
<1>5. \A n \in 0..N : f[n] = Turned(f, n)
  <2>1. SUFFICES ASSUME NEW n \in 0..N, n # 0
                 PROVE  f[n] = Settings!ReadEntry(f[n - 1], entries[n])
    <3> HIDE DEF turn
    <3>1. QED  BY <1>4 DEF Loop
  <2>2. n \in 1..N /\ n - 1 \in 0..N
    BY <1>1, <2>1
  <2>3. f[n - 1] \in Lists /\ f[n] = turn[n][f[n - 1]]
    <3> HIDE DEF turn
    <3>1. QED  BY <1>4, <2>2 DEF Loop
  <2>4. QED  BY <2>2, <2>3
<1>6. Unrolls(f)
  <2> HIDE DEF Turned
  <2>1. f = [n \in 0..N |-> f[n]]
    <3> HIDE DEF turn
    <3>1. QED  BY <1>4 DEF Loop
  <2>2. QED  BY <1>5, <2>1
<1> DEFINE after == CHOOSE g : Unrolls(g)
<1>7. Unrolls(after)
  <2> HIDE DEF Unrolls
  <2>1. QED  BY <1>6
<1> HIDE DEF after
<1>8. \A n \in 0..N : after[n] = Turned(after, n)
  <2> HIDE DEF Turned
  <2>1. QED  BY <1>7
<1>9. after[0] = list
  <2>1. 0 \in 0..N
    BY <1>1
  <2>2. QED  BY <1>8, <2>1
<1>10. \A n \in 1..N : after[n] = Settings!ReadEntry(after[n - 1], entries[n])
  <2>1. \A n \in 1..N : n \in 0..N /\ n # 0
    BY <1>1
  <2>2. QED  BY <1>8, <2>1
<1>11. after[N] \in Lists
  <2> DEFINE G == {n \in 0..N : after[n] \in Lists}
  <2>1. 0 \in G
    BY <1>1, <1>9
  <2>2. ASSUME NEW n \in 1..N, n - 1 \in G  PROVE n \in G
    <3> DEFINE l == after[n - 1]
               e == entries[n]
    <3>1. l \in Lists /\ Readable(e) /\ after[n] = Settings!ReadEntry(l, e)
      BY <1>10, <2>2 DEF N
    <3> HIDE DEF l, e
    <3>2. after[n] \in Lists
      BY <3>1, ReadIsList
    <3>3. n \in 0..N
      BY <1>1
    <3>4. QED  BY <3>2, <3>3
  <2>3. N \in G
    <3> HIDE DEF G
    <3>1. N \in 0..N
      BY <1>1
    <3>2. QED  BY <1>1, <2>1, <2>2, <3>1, StepByStep
  <2>4. QED  BY <2>3
<1>12. Settings!DeserializeBindings(list, entries) = after[N]
  BY <1>3 DEF after
<1>13. QED  BY <1>9, <1>10, <1>11, <1>12 DEF N

(* What was written is read again, whatever there was before.                *)
LEMMA DeserializeReturns ==
  ASSUME NEW list \in Lists, NEW was \in Lists
  PROVE  \A i \in Settings!Ids :
           Settings!Sayable(was[i]) =>
             Settings!Same(Settings!DeserializeBindings(list, Settings!SerializeBindings(was))[i], was[i])
<1> DEFINE entries == Settings!SerializeBindings(was)
           N == Len(BindingNames)
<1>1. N \in Nat /\ Settings!Ids = 1..N
  BY NamesAre
<1>2. \A i \in 1..N : was[i] \in Settings!Bindings
  BY <1>1 DEF Lists
<1>3. entries = [i \in 1..N |-> Settings!Entry(BindingNames[i], was[i])]
  BY <1>1 DEF Settings!SerializeBindings
<1> HIDE DEF entries
<1>4. Len(entries) = N /\ \A n \in 1..N : entries[n] = Settings!Entry(BindingNames[n], was[n])
  <2> HIDE DEF N
  <2>1. QED  BY <1>1, <1>3
<1>5. \A n \in 1..N : Readable(entries[n])
  BY <1>1, <1>2, <1>4, EntryReadable
<1>6. PICK after :
        /\ after[0] = list
        /\ \A n \in 1..N : after[n] = Settings!ReadEntry(after[n - 1], entries[n])
        /\ Settings!DeserializeBindings(list, entries) = after[N]
  <2>1. Len(entries) \in Nat /\ \A n \in 1..Len(entries) : Readable(entries[n])
    <3> HIDE DEF N
    <3>1. QED  BY <1>1, <1>4, <1>5
  <2>2. \E after :
           /\ after[0] = list
           /\ \A n \in 1..Len(entries) : after[n] = Settings!ReadEntry(after[n - 1], entries[n])
           /\ Settings!DeserializeBindings(list, entries) = after[Len(entries)]
           /\ after[Len(entries)] \in Lists
    BY <2>1, DeserializeRuns
  <2>3. QED  BY <1>4, <2>2
<1>7. ASSUME NEW n \in 1..N, NEW l
      PROVE  Settings!ReadEntry(l, entries[n]) = ReadFor(l, 0, N, n, Settings!BindingString(was[n]))
  <2> DEFINE name == BindingNames[n]
             text == Settings!BindingString(was[n])
             e == entries[n]
  <2>1. e.name = name /\ e.text = text
    <3>1. e = Settings!Entry(name, was[n])
      BY <1>4
    <3>2. e = [name |-> name, text |-> text]
      BY <3>1 DEF Settings!Entry
    <3> HIDE DEF e, name, text
    <3>3. QED  BY <3>2
  <2>2. name.what # "LSTICK_X"
    BY <1>1, NamesAre
  <2> HIDE DEF name, text, e
  <2>3. Settings!ReadEntry(l, e) =
          [i \in Settings!Ids |-> IF BindingNames[i] = name
                                    THEN Settings!ParseBindingString(l[i], text) ELSE l[i]]
    BY <2>1, <2>2 DEF Settings!ReadEntry
  <2>4. \A i \in Settings!Ids : i \in (0 + 1)..(0 + N) /\ i - 0 = i
    BY <1>1
  <2>5. ReadFor(l, 0, N, n, text) =
          [i \in Settings!Ids |-> IF BindingNames[i] = name
                                    THEN Settings!ParseBindingString(l[i], text) ELSE l[i]]
    BY <2>4 DEF ReadFor, name
  <2>6. QED  BY <2>3, <2>5 DEF e, text
<1>8. \A n \in 1..N : after[n] = ReadFor(after[n - 1], 0, N, n, Settings!BindingString(was[n]))
  BY <1>6, <1>7
<1>9. \A n \in 1..N : Settings!Sayable(was[n]) => Settings!Same(after[N][0 + n], was[n])
  <2>1. N <= Len(BindingNames) /\ 0 + N <= Len(BindingNames) /\ 0 \in Nat
    BY <1>1
  <2>2. after[0] \in Lists
    BY <1>6
  <2> HIDE DEF N
  <2>3. QED  BY <1>1, <1>2, <1>8, <2>1, <2>2, AllReturn
<1>10. \A n \in 1..N : 0 + n = n
  BY <1>1
<1>11. \A n \in 1..N : Settings!Sayable(was[n]) => Settings!Same(after[N][n], was[n])
  BY <1>9, <1>10
<1>12. QED  BY <1>1, <1>6, <1>11 DEF entries

(* A controller's bindings as they were exported.                            *)
Exports ==
  {x \in [entries: Seq(Settings!Texts), was: [1..PerPort -> Settings!Bindings]] :
     x.entries = [n \in 1..PerPort |-> Settings!Entry(BindingNames[n], x.was[n])]}

(* What a controller's dialog shows are names of the list.                   *)
LEMMA ShownAre ==
  ASSUME NEW port \in Nat, port < Ports
  PROVE  /\ port * PerPort \in Nat /\ PerPort \in Nat
         /\ port * PerPort + PerPort <= Len(BindingNames) /\ PerPort <= Len(BindingNames)
<1> DEFINE a == port * PerPort
           b == Ports * PerPort
<1>1. PerPort \in Nat /\ Ports \in Nat /\ b <= Len(BindingNames)
  BY SettingsAssumption
<1>2. a \in Nat /\ b \in Nat
  BY <1>1
<1>3. (port + 1) * PerPort = a + PerPort
  BY <1>1
<1>4. (port + 1) * PerPort <= b
  <2> DEFINE d == Ports - (port + 1)
  <2>1. d \in Nat
    BY <1>1
  <2>2. Ports = (port + 1) + d
    BY <1>1
  <2>3. d * PerPort \in Nat
    BY <1>1, <2>1
  <2> HIDE DEF d
  <2>4. ((port + 1) + d) * PerPort = (port + 1) * PerPort + d * PerPort
    BY <1>1, <2>1
  <2>5. b = (port + 1) * PerPort + d * PerPort
    BY <2>2, <2>4
  <2>6. (port + 1) * PerPort \in Nat
    BY <1>1
  <2> DEFINE x == (port + 1) * PerPort
             y == d * PerPort
  <2> HIDE DEF x, y, b
  <2>7. QED  BY <2>3, <2>5, <2>6 DEF x, y
<1>5. Len(BindingNames) \in Nat
  BY NamesAre
<1> HIDE DEF a, b
<1>6. a + PerPort <= b
  BY <1>3, <1>4
<1>7. a + PerPort <= Len(BindingNames) /\ PerPort <= Len(BindingNames)
  BY <1>1, <1>2, <1>5, <1>6
<1>8. QED  BY <1>1, <1>2, <1>7 DEF a

(* Importing goes on as it is written.                                       *)
LEMMA ImportRuns ==
  ASSUME exported \in Exports, inputDialog.copy \in Lists, PerPort \in Nat
  PROVE  \E after :
           /\ after[0] = inputDialog.copy
           /\ \A n \in 1..PerPort : after[n] = Settings!ImportEntry(after[n - 1], exported.entries[n])
           /\ Settings!Imported = after[PerPort]
<1> DEFINE list == inputDialog.copy
           entries == exported.entries
           N == PerPort
           Turned(f, n) == IF n = 0 THEN list ELSE Settings!ImportEntry(f[n - 1], entries[n])
           Unrolls(f) == f = [n \in 0..N |-> Turned(f, n)]
           turn == [n \in 1..N |-> [l \in Lists |-> Settings!ImportEntry(l, entries[n])]]
<1>1. N \in Nat /\ Len(entries) = N
  BY DEF Exports
<1>2. turn \in [1..N -> [Lists -> Lists]]
  <2>1. ASSUME NEW n \in 1..N, NEW l \in Lists  PROVE Settings!ImportEntry(l, entries[n]) \in Lists
    <3> DEFINE text == entries[n].text
    <3>1. entries[n] \in Settings!Texts
      <4>1. entries \in Seq(Settings!Texts)
        BY DEF Exports
      <4> HIDE DEF entries
      <4>2. QED  BY <1>1, <4>1, ElementOfSeq
    <3>2. text \in Seq(Settings!Words)
      BY <3>1 DEF Settings!Texts
    <3>3. \A i \in Settings!Ids : l[i] \in Settings!Bindings
      BY DEF Lists
    <3>4. \A i \in Settings!Ids : Settings!ParseBindingString(l[i], text) \in Settings!Bindings
      <4> HIDE DEF text
      <4>1. QED  BY <3>2, <3>3, ParseIsBinding
    <3>5. QED  BY <3>3, <3>4 DEF Settings!ImportEntry, Lists
  <2> HIDE DEF N, entries
  <2>2. QED  BY <2>1
<1>3. Settings!Imported = (CHOOSE f : Unrolls(f))[N]
  BY <1>1 DEF Settings!Imported
<1>4. PICK f : Loop(f, Lists, list, N, turn)
  <2> HIDE DEF turn, N
  <2>1. QED  BY <1>1, <1>2, Iterates
<1> HIDE DEF N, entries, list
<1>5. \A n \in 0..N : f[n] = Turned(f, n)
  <2>1. SUFFICES ASSUME NEW n \in 0..N, n # 0
                 PROVE  f[n] = Settings!ImportEntry(f[n - 1], entries[n])
    <3> HIDE DEF turn
    <3>1. QED  BY <1>4 DEF Loop
  <2>2. n \in 1..N /\ n - 1 \in 0..N
    BY <1>1, <2>1
  <2>3. f[n - 1] \in Lists /\ f[n] = turn[n][f[n - 1]]
    <3> HIDE DEF turn
    <3>1. QED  BY <1>4, <2>2 DEF Loop
  <2>4. QED  BY <2>2, <2>3
<1>6. Unrolls(f)
  <2> HIDE DEF Turned
  <2>1. f = [n \in 0..N |-> f[n]]
    <3> HIDE DEF turn
    <3>1. QED  BY <1>4 DEF Loop
  <2>2. QED  BY <1>5, <2>1
<1> DEFINE after == CHOOSE g : Unrolls(g)
<1>7. Unrolls(after)
  <2> HIDE DEF Unrolls
  <2>1. QED  BY <1>6
<1> HIDE DEF after
<1>8. \A n \in 0..N : after[n] = Turned(after, n)
  <2> HIDE DEF Turned
  <2>1. QED  BY <1>7
<1>9. after[0] = list
  <2>1. 0 \in 0..N
    BY <1>1
  <2>2. QED  BY <1>8, <2>1
<1>10. \A n \in 1..N : after[n] = Settings!ImportEntry(after[n - 1], entries[n])
  <2>1. \A n \in 1..N : n \in 0..N /\ n # 0
    BY <1>1
  <2>2. QED  BY <1>8, <2>1
<1>11. Settings!Imported = after[N]
  BY <1>3 DEF after
<1>12. QED  BY <1>9, <1>10, <1>11 DEF N, list, entries

(* What was exported reacts to what it did, for whatever controller it is    *)
(* imported.                                                                 *)
LEMMA ImportReturns ==
  ASSUME exported \in Exports, inputDialog.copy \in Lists,
         NEW port \in Nat, port < Ports, inputDialog.first = port * PerPort
  PROVE  /\ Settings!Imported \in Lists
         /\ \A n \in 1..PerPort :
              Settings!Sayable(exported.was[n]) =>
                Settings!Same(Settings!Imported[inputDialog.first + n], exported.was[n])
<1> DEFINE p == inputDialog.first
           was == exported.was
           entries == exported.entries
<1>1. p \in Nat /\ PerPort \in Nat /\ PerPort <= Len(BindingNames) /\ p + PerPort <= Len(BindingNames)
  BY ShownAre
<1>2. PICK after :
        /\ after[0] = inputDialog.copy
        /\ \A n \in 1..PerPort : after[n] = Settings!ImportEntry(after[n - 1], entries[n])
        /\ Settings!Imported = after[PerPort]
  BY <1>1, ImportRuns
<1>3. \A n \in 1..PerPort : was[n] \in Settings!Bindings
  BY DEF Exports
<1>4. ASSUME NEW n \in 1..PerPort, NEW l
      PROVE  Settings!ImportEntry(l, entries[n]) = ReadFor(l, p, PerPort, n, Settings!BindingString(was[n]))
  <2> DEFINE name == BindingNames[n]
             text == Settings!BindingString(was[n])
             e == entries[n]
  <2>1. e.name = name /\ e.text = text
    <3>1. e = Settings!Entry(name, was[n])
      BY DEF Exports
    <3>2. e = [name |-> name, text |-> text]
      BY <3>1 DEF Settings!Entry
    <3> HIDE DEF e, name, text
    <3>3. QED  BY <3>2
  <2> HIDE DEF text, e
  <2>2. \A i \in Settings!Ids : i \in Settings!Shown <=> i \in (p + 1)..(p + PerPort)
    <3>1. Len(BindingNames) \in Nat /\ Settings!Ids = 1..Len(BindingNames)
      BY NamesAre
    <3>2. Settings!Shown = {i \in Settings!Ids : i > p /\ i <= p + PerPort}
      BY DEF Settings!Shown
    <3> HIDE DEF p
    <3>3. QED  BY <1>1, <3>1, <3>2
  <2>3. QED  BY <2>1, <2>2 DEF Settings!ImportEntry, ReadFor, e, text
<1>5. \A n \in 1..PerPort : after[n] = ReadFor(after[n - 1], p, PerPort, n, Settings!BindingString(was[n]))
  BY <1>2, <1>4
<1>6. /\ after[PerPort] \in Lists
      /\ \A n \in 1..PerPort : Settings!Sayable(was[n]) => Settings!Same(after[PerPort][p + n], was[n])
  <2> HIDE DEF p, was, entries
  <2>1. after[0] \in Lists
    BY <1>2
  <2>2. QED  BY <1>1, <1>3, <1>5, <2>1, AllReturn
<1>7. QED  BY <1>2, <1>6

(* A path is written as its letters, each of them once.                      *)
LEMMA PathReturns ==
  ASSUME NEW path \in Settings!Paths
  PROVE  /\ Settings!EncodePath(path) \in Seq(Settings!Letters)
         /\ Settings!ToSet(Settings!EncodePath(path)) = path
<1> DEFINE L == Settings!Letters
           place == IF "T" \in path THEN "T" ELSE "S"
           s0 == <<place>>
           s1 == s0 \o Settings!Said("Y", path)
           s2 == s1 \o Settings!Said("C", path)
           s3 == s2 \o Settings!Said("G", path)
<1>1. path \subseteq {"S", "T", "Y", "C", "G"} /\ (("S" \in path) # ("T" \in path))
  BY DEF Settings!Paths, Settings!Letters
<1>2. place \in L /\ "Y" \in L /\ "C" \in L /\ "G" \in L
  BY DEF Settings!Letters
<1>3. {place} = path \cap {"S", "T"}
  BY <1>1
<1>4. Settings!EncodePath(path) = s3
  BY DEF Settings!EncodePath
<1> HIDE DEF L, place
<1>5. s0 \in Seq(L) /\ In(s0) = {place}
  <2>1. s0 \in Seq(L) /\ Len(s0) = 1 /\ s0[1] = place
    BY <1>2
  <2> HIDE DEF s0
  <2>2. QED  BY <2>1 DEF In
<1> HIDE DEF s0
<1>6. s1 \in Seq(L) /\ In(s1) = In(s0) \cup ({"Y"} \cap path)
  BY <1>2, <1>5, SaidAfter
<1> HIDE DEF s1
<1>7. s2 \in Seq(L) /\ In(s2) = In(s1) \cup ({"C"} \cap path)
  BY <1>2, <1>6, SaidAfter
<1> HIDE DEF s2
<1>8. s3 \in Seq(L) /\ In(s3) = In(s2) \cup ({"G"} \cap path)
  BY <1>2, <1>7, SaidAfter
<1> HIDE DEF s3
<1>9. In(s3) = path
  BY <1>1, <1>3, <1>5, <1>6, <1>7, <1>8
<1>10. Settings!ToSet(s3) = In(s3)
  BY <1>8 DEF Settings!ToSet, In
<1>11. QED  BY <1>4, <1>8, <1>9, <1>10 DEF L

(* The bindings a program has that was never used.                           *)
LEMMA DefaultIs ==
  ASSUME NEW name, NEW plugged \in BOOLEAN
  PROVE  Settings!DefaultBinding(name, plugged) \in Settings!Bindings
<1> DEFINE key == "key"
           button == "button"
           axis == "axis"
           p == "P"
           x == "X"
           a == "a"
           l == "leftx"
           types == {"none", "key", "button", "axis"}
           all == SUBSET (Settings!Modifiers \cup Settings!Signs)
           left == IF name.what = "LSTICK_LEFT" THEN {"-"} ELSE {"+"}
           pause == [type |-> key, pad |-> 0, code |-> p, mods |-> {}]
           ex == [type |-> key, pad |-> 0, code |-> x, mods |-> {}]
           b == [type |-> button, pad |-> 0, code |-> a, mods |-> {}]
           stick == [type |-> axis, pad |-> 0, code |-> l, mods |-> left]
<1>1. key \in types /\ button \in types /\ axis \in types /\ {} \in all /\ left \in all
  BY DEF Settings!Signs
<1>2. p \in Settings!Codes /\ x \in Settings!Codes /\ a \in Settings!Codes /\ l \in Settings!Codes
  BY SettingsAssumption DEF Settings!Codes
<1>3. a \in Buttons /\ l \in Axes /\ left \in {{}, {"-"}, {"+"}}
  BY SettingsAssumption
<1>4. key # button /\ key # axis /\ button # axis
  OBVIOUS
<1>5. Settings!DefaultBinding(name, plugged) \in {pause, Settings!Unbound, ex, b, stick}
  BY DEF Settings!DefaultBinding
<1>6. \A c \in [type: types, pad: Int, code: Settings!Codes, mods: all] :
        /\ c.type = key    => c.mods \subseteq Settings!Modifiers
        /\ c.type = button => c.pad \in 0..99 /\ c.code \in Buttons /\ c.mods = {}
        /\ c.type = axis   => c.pad \in 0..99 /\ c.code \in Axes /\ c.mods \in {{}, {"-"}, {"+"}}
        => c \in Settings!Bindings
  BY DEF Settings!Bindings
<1> HIDE DEF key, button, axis, p, x, a, l, types, all, left
<1>7. pause \in Settings!Bindings /\ ex \in Settings!Bindings
  BY <1>1, <1>2, <1>4, <1>6
<1>8. b \in Settings!Bindings
  BY <1>1, <1>2, <1>3, <1>4, <1>6
<1>9. stick \in Settings!Bindings
  BY <1>1, <1>2, <1>3, <1>4, <1>6
<1>10. Settings!Unbound \in Settings!Bindings
  BY UnboundIs
<1> HIDE DEF pause, ex, b, stick
<1>11. QED  BY <1>5, <1>7, <1>8, <1>9, <1>10

(* All of them.                                                              *)
LEMMA DefaultsAre == \A plugged \in BOOLEAN : Settings!Defaults(plugged) \in Lists
BY DefaultIs DEF Settings!Defaults, Lists

-----------------------------------------------------------------------------
(* What is set, the window, a controller's or the hot keys' dialog, and what *)
(* the program was when it ended.                                            *)
SettingsSet == [ratio: 2..10, interval: Int, path: Settings!Paths, filter: BOOLEAN]
WindowSet   == [size: Int \X Int, rotation: Int, full: BOOLEAN]
DialogSet   == [first: {port * PerPort : port \in 0..Ports}, copy: Lists, imported: BOOLEAN]
EndSet      == [bindings: Lists, settings: SettingsSet, window: WindowSet]

(* The settings file of a program that ended as this.                        *)
FileOf(e) ==
  [bindings |-> Settings!SerializeBindings(e.bindings),
   emulator |-> [ratio |-> e.settings.ratio],
   saves    |-> [interval |-> e.settings.interval, path |-> Settings!EncodePath(e.settings.path)],
   video    |-> [filter |-> e.settings.filter],
   window   |-> IF e.window.full THEN None ELSE Settings!Upright(e.window)]

SettingsTypes ==
  /\ bindings \in Lists /\ settings \in SettingsSet /\ window \in WindowSet
  /\ inputDialog # None => inputDialog \in DialogSet
  /\ config # None => config \in Settings!ConfigFiles /\ Settings!Holds(config)
  /\ exported # None => exported \in Exports

(* The file is that of the program that ended last; what was begun with a    *)
(* dialog is no fresh start.                                                 *)
EndWritten == ended # None => ended \in EndSet /\ config = FileOf(ended)
DialogIsUsed == inputDialog # None => session = "on"

SettingsInv == SettingsTypes /\ EndWritten /\ DialogIsUsed /\ Settings!ConfigurationReturns

(* What a program writes can be read.                                        *)
LEMMA FileIsRead ==
  ASSUME NEW e \in EndSet
  PROVE  FileOf(e) \in Settings!ConfigFiles /\ Settings!Holds(FileOf(e)) /\ FileOf(e) # None
<1> DEFINE list == Settings!SerializeBindings(e.bindings)
           path == Settings!EncodePath(e.settings.path)
           size == IF e.window.full THEN None ELSE Settings!Upright(e.window)
           content == FileOf(e)
<1>1. /\ e.bindings \in Lists /\ e.settings \in SettingsSet /\ e.window \in WindowSet
      /\ e.settings.path \in Settings!Paths
  BY DEF EndSet, SettingsSet
<1>2. path \in Seq(Settings!Letters) /\ Settings!ToSet(path) \in Settings!Paths
  BY <1>1, PathReturns
<1>3. list \in Seq(Settings!Texts) /\ \A i \in DOMAIN list : Readable(list[i])
  <2> DEFINE N == Len(BindingNames)
             b == e.bindings
             One(i) == Settings!Entry(BindingNames[i], b[i])
  <2>1. N \in Nat /\ Settings!Ids = 1..N
    BY NamesAre
  <2>2. \A i \in 1..N : b[i] \in Settings!Bindings
    BY <1>1, <2>1 DEF Lists
  <2>3. \A i \in 1..N : Readable(One(i))
    <3> HIDE DEF b
    <3>1. QED  BY <2>1, <2>2, EntryReadable
  <2>4. list = [i \in 1..N |-> One(i)]
    BY <2>1 DEF Settings!SerializeBindings
  <2>5. \A i \in 1..N : One(i) \in Settings!Texts
    BY <2>3 DEF Readable
  <2> HIDE DEF N, One, list
  <2>6. QED  BY <2>1, <2>3, <2>4, <2>5
<1>4. size \in (Int \X Int) \cup {None}
  <2>1. e.window.size \in Int \X Int
    BY <1>1 DEF WindowSet
  <2>2. Settings!Upright(e.window) \in Int \X Int
    BY <2>1 DEF Settings!Upright
  <2>3. QED  BY <2>2
<1>5. e.settings.ratio \in Int /\ e.settings.interval \in Int /\ e.settings.filter \in BOOLEAN
  BY <1>1 DEF SettingsSet
<1>6. content = [bindings |-> list, emulator |-> [ratio |-> e.settings.ratio],
              saves |-> [interval |-> e.settings.interval, path |-> path],
              video |-> [filter |-> e.settings.filter], window |-> size]
  BY DEF FileOf
<1> HIDE DEF list, path, size, content
<1>7. content \in Settings!ConfigFiles
  BY <1>2, <1>3, <1>4, <1>5, <1>6 DEF Settings!ConfigFiles
<1>8. content.bindings = list /\ content.saves.path = path
  BY <1>6
<1>9. Settings!Holds(content)
  BY <1>2, <1>3, <1>8 DEF Settings!Holds, Readable
<1>10. content # None
  BY <1>7, SettingsAssumption
<1>11. QED  BY <1>7, <1>9, <1>10 DEF content

(* A step of a dialog changes its copy, which is a list again.               *)
LEMMA DialogKeeps ==
  ASSUME SettingsInv, NEW copy \in Lists, NEW imported \in BOOLEAN,
         Settings!DialogStep(copy, imported),
         exported' # None => exported' \in Exports,
         imported => \A n \in 1..PerPort : Settings!Sayable(exported'.was[n]) =>
                       Settings!Same(copy[inputDialog.first + n], exported'.was[n])
  PROVE  SettingsInv'
<1> DEFINE d == inputDialog
<1>1. /\ d # None /\ inputDialog' = [d EXCEPT !.copy = copy, !.imported = imported]
      /\ session' = "on" /\ UNCHANGED <<bindings, settings, window, config, ended>>
  BY DEF Settings!DialogStep, Settings!Changed
<1>2. d \in DialogSet
  BY <1>1 DEF SettingsInv, SettingsTypes
<1>3. /\ inputDialog' \in DialogSet
      /\ inputDialog'.copy = copy /\ inputDialog'.imported = imported
      /\ inputDialog'.first = d.first
  <2>1. inputDialog' = [first |-> d.first, copy |-> copy, imported |-> imported]
    BY <1>1, <1>2 DEF DialogSet
  <2>2. d.first \in {port * PerPort : port \in 0..Ports}
    BY <1>2 DEF DialogSet
  <2> HIDE DEF d
  <2>3. QED  BY <2>1, <2>2 DEF DialogSet
<1>4. SettingsTypes'
  BY <1>1, <1>3 DEF SettingsInv, SettingsTypes
<1>5. EndWritten' /\ DialogIsUsed'
  BY <1>1 DEF SettingsInv, EndWritten, DialogIsUsed, FileOf
<1>6. Settings!ConfigurationReturns'
  <2>1. session' # "fresh"
    BY <1>1
  <2>2. inputDialog' # None /\ inputDialog'.imported =>
          \A i \in 1..PerPort : Settings!Sayable(exported'.was[i]) =>
            Settings!Same(inputDialog'.copy[inputDialog'.first + i], exported'.was[i])
    BY <1>3
  <2>3. QED  BY <2>1, <2>2 DEF Settings!ConfigurationReturns
<1>7. QED  BY <1>4, <1>5, <1>6 DEF SettingsInv

(* What the user presses is bound in the dialog's copy.                      *)
LEMMA UpdateButtonKeeps ==
  ASSUME SettingsInv, NEW i \in Settings!Ids, NEW b \in Pressed, inputDialog # None,
         Settings!UpdateButton(i, b)
  PROVE  SettingsInv'
<1> DEFINE copy == [inputDialog.copy EXCEPT ![i] = b]
<1>1. b \in Settings!Bindings
  BY SettingsAssumption
<1>2. inputDialog.copy \in Lists
  BY DEF SettingsInv, SettingsTypes, DialogSet
<1>3. copy \in Lists
  BY <1>1, <1>2 DEF Lists
<1>4. Settings!DialogStep(copy, FALSE) /\ exported' = exported
  BY DEF Settings!UpdateButton
<1>5. exported' # None => exported' \in Exports
  BY <1>4 DEF SettingsInv, SettingsTypes
<1> HIDE DEF copy
<1>6. QED  BY <1>3, <1>4, <1>5, DialogKeeps

(* What a controller's dialog shows is unbound.                              *)
LEMMA ClearKeeps ==
  ASSUME SettingsInv, Settings!Clear
  PROVE  SettingsInv'
<1> DEFINE copy == [i \in Settings!Ids |-> IF i \in Settings!Shown THEN Settings!Unbound
                                           ELSE inputDialog.copy[i]]
<1>1. inputDialog # None
  BY DEF Settings!Clear, Settings!ForController
<1>2. inputDialog.copy \in Lists
  BY <1>1 DEF SettingsInv, SettingsTypes, DialogSet
<1>3. copy \in Lists
  BY <1>2, UnboundIs DEF Lists
<1>4. Settings!DialogStep(copy, FALSE) /\ exported' = exported
  BY DEF Settings!Clear
<1>5. exported' # None => exported' \in Exports
  BY <1>4 DEF SettingsInv, SettingsTypes
<1> HIDE DEF copy
<1>6. QED  BY <1>3, <1>4, <1>5, DialogKeeps

(* The controller a dialog shows.                                            *)
LEMMA ControllerIs ==
  ASSUME SettingsInv, Settings!ForController
  PROVE  /\ inputDialog # None /\ inputDialog \in DialogSet
         /\ \E port \in Nat : port < Ports /\ inputDialog.first = port * PerPort
<1>1. inputDialog # None /\ inputDialog.first < Ports * PerPort /\ inputDialog \in DialogSet
  BY DEF Settings!ForController, SettingsInv, SettingsTypes
<1>2. PICK port \in 0..Ports : inputDialog.first = port * PerPort
  BY <1>1 DEF DialogSet
<1>3. port # Ports
  <2> DEFINE all == Ports * PerPort
  <2>1. all \in Nat
    BY SettingsAssumption
  <2>2. inputDialog.first < all
    BY <1>1
  <2>3. port = Ports => inputDialog.first = all
    BY <1>2
  <2> HIDE DEF all
  <2>4. QED  BY <2>1, <2>2, <2>3
<1>4. port \in Nat /\ port < Ports
  BY <1>3, SettingsAssumption
<1>5. QED  BY <1>1, <1>2, <1>4

(* What is exported is what the dialog shows.                                *)
LEMMA ExportKeeps ==
  ASSUME SettingsInv, Settings!ExportJson
  PROVE  SettingsInv'
<1> DEFINE copy == inputDialog.copy
           first == inputDialog.first
           was == SubSeq(copy, first + 1, first + PerPort)
           entries == [i \in 1..PerPort |-> Settings!Entry(BindingNames[i], copy[first + i])]
<1>1. Settings!ForController /\ Settings!DialogStep(copy, FALSE)
  BY DEF Settings!ExportJson
<1>2. exported' = [entries |-> entries, was |-> was]
  BY DEF Settings!ExportJson
<1>3. PICK port \in Nat : port < Ports /\ first = port * PerPort
  BY <1>1, ControllerIs
<1>4. copy \in Lists
  BY <1>1, ControllerIs DEF DialogSet
<1>5. first \in Nat /\ PerPort \in Nat /\ first + PerPort <= Len(BindingNames)
      /\ PerPort <= Len(BindingNames)
  BY <1>3, ShownAre
<1>6. Len(BindingNames) \in Nat /\ Settings!Ids = 1..Len(BindingNames)
  BY NamesAre
<1> HIDE DEF copy, first
<1>7. was = [n \in 1..PerPort |-> copy[first + n]]
  <2>1. copy \in Seq(Settings!Bindings) /\ Len(copy) = Len(BindingNames)
    <3> DEFINE N == Len(BindingNames)
    <3>1. copy \in [1..N -> Settings!Bindings] /\ N \in Nat
      BY <1>4, <1>6 DEF Lists
    <3> HIDE DEF N
    <3>2. copy \in Seq(Settings!Bindings) /\ Len(copy) = N
      BY <3>1
    <3>3. QED  BY <3>2 DEF N
  <2>2. first + PerPort - (first + 1) + 1 = PerPort
    BY <1>5
  <2> DEFINE from == first + 1
             to == first + PerPort
  <2>3. \A n \in 1..PerPort : from + n - 1 = first + n
    BY <1>5
  <2>4. from \in Nat /\ to \in Nat /\ to - from + 1 = PerPort
    BY <1>5
  <2> HIDE DEF from, to
  <2>5. SubSeq(copy, from, to) = [n \in 1..(to - from + 1) |-> copy[from + n - 1]]
    BY <2>1, <2>4
  <2>6. QED  BY <2>3, <2>4, <2>5 DEF from, to
<1>8. \A n \in 1..PerPort : first + n \in Settings!Ids /\ n \in Settings!Ids
  BY <1>5, <1>6
<1>9. was \in [1..PerPort -> Settings!Bindings] /\ \A n \in 1..PerPort : was[n] = copy[first + n]
  BY <1>4, <1>7, <1>8 DEF Lists
<1> HIDE DEF was
<1>10. \A n \in 1..PerPort : Settings!Entry(BindingNames[n], copy[first + n]) \in Settings!Texts
  BY <1>4, <1>8, EntryReadable DEF Lists, Readable
<1>11. entries \in Seq(Settings!Texts)
  <2>1. entries \in [1..PerPort -> Settings!Texts]
    BY <1>10
  <2> HIDE DEF entries
  <2>2. QED  BY <1>5, <2>1
<1>12. entries = [n \in 1..PerPort |-> Settings!Entry(BindingNames[n], was[n])]
  BY <1>9
<1> HIDE DEF entries
<1>13. exported' \in Exports
  <2> DEFINE x == [entries |-> entries, was |-> was]
  <2>1. x \in [entries: Seq(Settings!Texts), was: [1..PerPort -> Settings!Bindings]]
    BY <1>9, <1>11
  <2>2. x.entries = entries /\ x.was = was
    OBVIOUS
  <2> HIDE DEF x
  <2>3. x \in Exports
    BY <1>12, <2>1, <2>2 DEF Exports
  <2>4. QED  BY <1>2, <2>3 DEF x
<1>14. QED  BY <1>1, <1>4, <1>13, DialogKeeps DEF copy

(* What was exported is bound in the copy.                                   *)
LEMMA ImportKeeps ==
  ASSUME SettingsInv, Settings!ImportJson
  PROVE  SettingsInv'
<1>1. /\ Settings!ForController /\ exported # None
      /\ Settings!DialogStep(Settings!Imported, TRUE) /\ exported' = exported
  BY DEF Settings!ImportJson
<1>2. exported \in Exports
  BY <1>1 DEF SettingsInv, SettingsTypes
<1>3. inputDialog.copy \in Lists
  BY <1>1, ControllerIs DEF DialogSet
<1>4. PICK port \in Nat : port < Ports /\ inputDialog.first = port * PerPort
  BY <1>1, ControllerIs
<1> DEFINE copy == Settings!Imported
<1>5. /\ copy \in Lists
      /\ \A n \in 1..PerPort :
           Settings!Sayable(exported.was[n]) =>
             Settings!Same(copy[inputDialog.first + n], exported.was[n])
  BY <1>2, <1>3, <1>4, ImportReturns
<1> HIDE DEF copy
<1>6. Settings!DialogStep(copy, TRUE)
  BY <1>1 DEF copy
<1>7. QED  BY <1>1, <1>2, <1>5, <1>6, DialogKeeps

(* Dialogs are opened on a copy, and closed.                                 *)
LEMMA ShowBindsKeeps ==
  ASSUME SettingsInv, NEW port \in 0..Ports, Settings!ShowControllerDialog(port)
  PROVE  SettingsInv'
<1>1. /\ inputDialog' = [first |-> port * PerPort, copy |-> bindings, imported |-> FALSE]
      /\ session' = "on"
      /\ UNCHANGED <<bindings, settings, window, config, exported, ended, count>>
  BY DEF Settings!ShowControllerDialog
<1>2. bindings \in Lists
  BY DEF SettingsInv, SettingsTypes
<1>3. inputDialog' \in DialogSet /\ ~inputDialog'.imported
  <2> DEFINE first == port * PerPort
  <2>1. first \in {p * PerPort : p \in 0..Ports}
    OBVIOUS
  <2> HIDE DEF first
  <2>2. inputDialog' = [first |-> first, copy |-> bindings, imported |-> FALSE]
    BY <1>1 DEF first
  <2>3. QED  BY <1>2, <2>1, <2>2 DEF DialogSet
<1>4. SettingsTypes'
  BY <1>1, <1>3 DEF SettingsInv, SettingsTypes
<1>5. EndWritten' /\ DialogIsUsed'
  BY <1>1 DEF SettingsInv, EndWritten, DialogIsUsed, FileOf
<1>6. Settings!ConfigurationReturns'
  <2>1. session' # "fresh"
    BY <1>1
  <2>2. QED  BY <1>3, <2>1 DEF Settings!ConfigurationReturns
<1>7. QED  BY <1>4, <1>5, <1>6 DEF SettingsInv

(* It is taken, or not.                                                      *)
LEMMA CloseBindsKeeps ==
  ASSUME SettingsInv, NEW ok \in BOOLEAN, Settings!CloseDialog(ok)
  PROVE  SettingsInv'
<1>1. /\ inputDialog # None /\ inputDialog' = None
      /\ bindings' = (IF ok THEN inputDialog.copy ELSE bindings)
      /\ UNCHANGED <<session, settings, window, config, exported, ended, count>>
  BY DEF Settings!CloseDialog
<1>2. inputDialog.copy \in Lists
  BY <1>1 DEF SettingsInv, SettingsTypes, DialogSet
<1>3. bindings' \in Lists
  BY <1>1, <1>2 DEF SettingsInv, SettingsTypes
<1>4. SettingsTypes'
  BY <1>1, <1>3 DEF SettingsInv, SettingsTypes
<1>5. EndWritten' /\ DialogIsUsed'
  BY <1>1 DEF SettingsInv, EndWritten, DialogIsUsed, FileOf
<1>6. Settings!ConfigurationReturns'
  <2>1. session' # "fresh"
    BY <1>1 DEF SettingsInv, DialogIsUsed
  <2>2. QED  BY <1>1, <2>1 DEF Settings!ConfigurationReturns
<1>7. QED  BY <1>4, <1>5, <1>6 DEF SettingsInv

(* The dialogs that change what is set, and the window.                      *)
LEMMA AltersKeeps ==
  ASSUME SettingsInv, NEW new \in SettingsSet, NEW win \in WindowSet, Settings!Alters(new, win)
  PROVE  SettingsInv'
<1>1. /\ inputDialog = None /\ settings' = new /\ window' = win /\ session' = "on"
      /\ UNCHANGED <<bindings, inputDialog, config, exported, ended>>
  BY DEF Settings!Alters, Settings!Changed
<1>2. SettingsTypes'
  BY <1>1 DEF SettingsInv, SettingsTypes
<1>3. EndWritten' /\ DialogIsUsed'
  BY <1>1 DEF SettingsInv, EndWritten, DialogIsUsed, FileOf
<1>4. Settings!ConfigurationReturns'
  <2>1. session' # "fresh"
    BY <1>1
  <2>2. QED  BY <1>1, <2>1 DEF Settings!ConfigurationReturns
<1>5. QED  BY <1>2, <1>3, <1>4 DEF SettingsInv

(* They are these.                                                           *)
LEMMA SettingsChange ==
  ASSUME SettingsInv,
         \/ \E ratio \in Ratios : Settings!ShowEmulatorSettings(ratio)
         \/ \E n \in {None, 30}, path \in {{"S"}, {"S", "Y", "G"}} : Settings!ShowSavingSettings(n, path)
         \/ \E filter \in BOOLEAN, rot \in {0, 90} : Settings!ShowVideoSettings(filter, rot)
         \/ \E size \in Windows : Settings!ResizeWindow(size)
         \/ Settings!ToggleFullscreen
  PROVE  SettingsInv'
<1>1. settings \in SettingsSet /\ window \in WindowSet
  BY DEF SettingsInv, SettingsTypes
<1>2. ASSUME NEW ratio \in Ratios, Settings!ShowEmulatorSettings(ratio)  PROVE SettingsInv'
  <2> DEFINE new == [settings EXCEPT !.ratio = ratio]
  <2>1. ratio \in 2..10
    BY SettingsAssumption
  <2>2. new \in SettingsSet
    BY <1>1, <2>1 DEF SettingsSet
  <2>3. Settings!Alters(new, window)
    BY <1>2 DEF Settings!ShowEmulatorSettings
  <2> HIDE DEF new
  <2>4. QED  BY <1>1, <2>2, <2>3, AltersKeeps
<1>3. ASSUME NEW n \in {None, 30}, NEW path \in {{"S"}, {"S", "Y", "G"}},
             Settings!ShowSavingSettings(n, path)
      PROVE  SettingsInv'
  <2> DEFINE interval == IF n = None THEN Settings!Offered ELSE n
             new == [settings EXCEPT !.interval = interval, !.path = path]
  <2>1. interval \in Int
    <3>1. settings.interval \in Int
      BY <1>1 DEF SettingsSet
    <3>2. Settings!Offered \in Int
      BY <3>1 DEF Settings!Offered
    <3>3. QED  BY <3>2
  <2>2. path \in Settings!Paths
    BY DEF Settings!Paths, Settings!Letters
  <2> HIDE DEF interval
  <2>3. new \in SettingsSet
    BY <1>1, <2>1, <2>2 DEF SettingsSet
  <2>4. Settings!Alters(new, window)
    BY <1>3 DEF Settings!ShowSavingSettings, interval
  <2> HIDE DEF new
  <2>5. QED  BY <1>1, <2>3, <2>4, AltersKeeps
<1>4. ASSUME NEW filter \in BOOLEAN, NEW rot \in {0, 90}, Settings!ShowVideoSettings(filter, rot)
      PROVE  SettingsInv'
  <2> DEFINE new == [settings EXCEPT !.filter = filter]
             win == [window EXCEPT !.rotation = rot]
  <2>1. new \in SettingsSet
    BY <1>1 DEF SettingsSet
  <2>2. win \in WindowSet
    BY <1>1 DEF WindowSet
  <2>3. Settings!Alters(new, win)
    BY <1>4 DEF Settings!ShowVideoSettings
  <2> HIDE DEF new, win
  <2>4. QED  BY <2>1, <2>2, <2>3, AltersKeeps
<1>5. ASSUME NEW size \in Windows, Settings!ResizeWindow(size)  PROVE SettingsInv'
  <2> DEFINE win == [window EXCEPT !.size = size]
  <2>1. size \in Int \X Int
    BY SettingsAssumption
  <2>2. win \in WindowSet
    BY <1>1, <2>1 DEF WindowSet
  <2>3. Settings!Alters(settings, win)
    BY <1>5 DEF Settings!ResizeWindow
  <2> HIDE DEF win
  <2>4. QED  BY <1>1, <2>2, <2>3, AltersKeeps
<1>6. ASSUME Settings!ToggleFullscreen  PROVE SettingsInv'
  <2> DEFINE full == ~window.full
             win == [window EXCEPT !.full = full]
  <2>1. full \in BOOLEAN
    OBVIOUS
  <2> HIDE DEF full
  <2>2. win \in WindowSet
    BY <1>1, <2>1 DEF WindowSet
  <2>3. Settings!Alters(settings, win)
    BY <1>6 DEF Settings!ToggleFullscreen, full
  <2> HIDE DEF win
  <2>4. QED  BY <1>1, <2>2, <2>3, AltersKeeps
<1>7. QED  BY <1>2, <1>3, <1>4, <1>5, <1>6

(* What a program has that was never used.                                   *)
LEMMA FirstAre ==
  /\ Settings!FirstSettings \in SettingsSet /\ Settings!FirstWindow \in WindowSet
<1> DEFINE path == {"S"}
           size == <<640, 480>>
<1>1. path \in Settings!Paths
  BY DEF Settings!Paths, Settings!Letters
<1>2. size \in Int \X Int
  OBVIOUS
<1>3. /\ Settings!FirstSettings = [ratio |-> 5, interval |-> 0, path |-> path, filter |-> FALSE]
      /\ Settings!FirstWindow = [size |-> size, rotation |-> 0, full |-> FALSE]
  BY DEF Settings!FirstSettings, Settings!FirstWindow
<1> HIDE DEF path, size
<1>4. QED  BY <1>1, <1>2, <1>3 DEF SettingsSet, WindowSet

(* A program that does not run is as it begins.                              *)
LEMMA ForgottenIs ==
  ASSUME Settings!Forgotten, SettingsInv, UNCHANGED exported,
         config' # None => config' \in Settings!ConfigFiles /\ Settings!Holds(config)',
         EndWritten'
  PROVE  SettingsInv'
<1>1. /\ session' = "off" /\ bindings' = Settings!Defaults(FALSE) /\ inputDialog' = None
      /\ settings' = Settings!FirstSettings /\ window' = Settings!FirstWindow
  BY DEF Settings!Forgotten
<1>2. SettingsTypes'
  BY <1>1, FirstAre, DefaultsAre DEF SettingsInv, SettingsTypes
<1>3. DialogIsUsed' /\ Settings!ConfigurationReturns'
  BY <1>1 DEF DialogIsUsed, Settings!ConfigurationReturns
<1>4. QED  BY <1>2, <1>3 DEF SettingsInv

(* The program ends, and writes its settings.                                *)
LEMMA DestroyKeeps ==
  ASSUME SettingsInv, Settings!Destroy
  PROVE  SettingsInv'
<1> DEFINE e == [bindings |-> bindings, settings |-> settings, window |-> window]
<1>1. /\ Settings!Forgotten /\ UNCHANGED exported
      /\ config' = Settings!Written /\ ended' = e
  BY DEF Settings!Destroy
<1>2. e \in EndSet
  BY DEF SettingsInv, SettingsTypes, EndSet
<1>3. e.bindings = bindings /\ e.settings = settings /\ e.window = window
  OBVIOUS
<1> HIDE DEF e
<1>4. Settings!Written = FileOf(e)
  BY <1>3 DEF Settings!Written, FileOf, Settings!EmulatorSettings, Settings!SavingSettings,
              Settings!VideoSettings
<1>5. config' = FileOf(e)
  BY <1>1, <1>4
<1>6. FileOf(e) \in Settings!ConfigFiles /\ Settings!Holds(FileOf(e))
  BY <1>2, FileIsRead
<1>7. FileOf(ended)' = FileOf(e)
  <2>1. FileOf(ended)' = FileOf(ended')
    BY DEF FileOf, Settings!SerializeBindings, Settings!Entry, Settings!BindingString,
           Settings!NothingBound, Settings!Said, Settings!Spoken, Settings!Digits, Settings!Digit,
           Settings!EncodePath, Settings!Upright, Settings!Ids
  <2>2. QED  BY <1>1, <2>1
<1>8. EndWritten'
  BY <1>1, <1>2, <1>5, <1>7 DEF EndWritten
<1>9. config' \in Settings!ConfigFiles /\ Settings!Holds(config)'
  BY <1>5, <1>6 DEF Settings!Holds
<1>10. QED  BY <1>1, <1>8, <1>9, ForgottenIs

(* The program is ended, and writes nothing.                                 *)
LEMMA CrashKeeps ==
  ASSUME SettingsInv, Settings!Crash
  PROVE  SettingsInv'
<1>1. Settings!Forgotten /\ UNCHANGED <<config, exported, ended>>
  BY DEF Settings!Crash
<1>2. EndWritten'
  BY <1>1 DEF SettingsInv, EndWritten, FileOf
<1>3. config' # None => config' \in Settings!ConfigFiles /\ Settings!Holds(config)'
  BY <1>1 DEF SettingsInv, SettingsTypes, Settings!Holds
<1>4. QED  BY <1>1, <1>2, <1>3, ForgottenIs

(* What a file says of the settings is read.                                 *)
LEMMA SettingsAreRead ==
  ASSUME NEW read \in Settings!ConfigFiles, Settings!Holds(read), NEW new,
         new = Settings!DeserializeEmulator(Settings!DeserializeVideo(Settings!DeserializeSaving(
                 Settings!FirstSettings, read.saves), read.video), read.emulator)
  PROVE  /\ new \in SettingsSet
         /\ \A e \in EndSet : read = FileOf(e) => new = e.settings
<1> DEFINE path == Settings!ToSet(read.saves.path)
           ratio == Settings!Clamped(read.emulator.ratio)
           interval == read.saves.interval
           filter == read.video.filter
<1>1. new = [ratio |-> ratio, interval |-> interval, path |-> path, filter |-> filter]
  BY DEF Settings!DeserializeEmulator, Settings!DeserializeVideo, Settings!DeserializeSaving,
         Settings!FirstSettings
<1>2. path \in Settings!Paths
  BY DEF Settings!Holds
<1>3. interval \in Int /\ filter \in BOOLEAN /\ read.emulator.ratio \in Int
  BY DEF Settings!ConfigFiles
<1>4. ratio \in 2..10
  BY <1>3 DEF Settings!Clamped
<1> HIDE DEF path, ratio, interval, filter
<1>5. new \in SettingsSet
  BY <1>1, <1>2, <1>3, <1>4 DEF SettingsSet
<1>6. ASSUME NEW e \in EndSet, read = FileOf(e)  PROVE new = e.settings
  <2> DEFINE s == e.settings
  <2>1. s \in SettingsSet
    BY DEF EndSet
  <2>2. /\ read.emulator.ratio = s.ratio /\ read.saves.interval = s.interval
        /\ read.saves.path = Settings!EncodePath(s.path) /\ read.video.filter = s.filter
    BY <1>6 DEF FileOf
  <2> HIDE DEF s
  <2>3. s.ratio \in 2..10 /\ s.path \in Settings!Paths
    BY <2>1 DEF SettingsSet
  <2>4. ratio = s.ratio
    BY <2>2, <2>3 DEF ratio, Settings!Clamped
  <2>5. path = s.path
    BY <2>2, <2>3, PathReturns DEF path
  <2>6. interval = s.interval /\ filter = s.filter
    BY <2>2 DEF interval, filter
  <2>7. s = [ratio |-> s.ratio, interval |-> s.interval, path |-> s.path, filter |-> s.filter]
    BY <2>1 DEF SettingsSet
  <2>8. QED  BY <1>1, <2>4, <2>5, <2>6, <2>7 DEF s
<1>7. QED  BY <1>5, <1>6

(* The program starts with what it was when it ended.                        *)
LEMMA StartKeeps ==
  ASSUME SettingsInv, NEW plugged \in BOOLEAN, Settings!Start(plugged)
  PROVE  SettingsInv'
<1> DEFINE list == Settings!Defaults(plugged)
           entries == IF config = None THEN <<>> ELSE config.bindings
           new == Settings!DeserializeEmulator(Settings!DeserializeVideo(Settings!DeserializeSaving(
                    Settings!FirstSettings, config.saves), config.video), config.emulator)
           sizes == IF config = None THEN {Settings!FirstWindow.size}
                    ELSE IF config.window = None THEN {Settings!FirstWindow.size, Settings!Leftover}
                    ELSE {config.window}
<1>1. /\ bindings' = Settings!DeserializeBindings(list, entries)
      /\ settings' = IF config = None THEN Settings!FirstSettings ELSE new
      /\ \E size \in sizes : window' = [Settings!FirstWindow EXCEPT !.size = size]
      /\ session' = "fresh" /\ session = "off"
      /\ UNCHANGED <<inputDialog, config, exported, ended>>
  BY DEF Settings!Start
<1>2. list \in Lists
  BY DefaultsAre
<1>3. config # None => config \in Settings!ConfigFiles /\ Settings!Holds(config)
  BY DEF SettingsInv, SettingsTypes
<1>4. inputDialog = None /\ inputDialog' = None
  BY <1>1 DEF SettingsInv, DialogIsUsed
<1>5. Len(entries) \in Nat /\ \A n \in 1..Len(entries) : Readable(entries[n])
  <2>1. CASE config = None
    <3>1. entries = <<>>
      BY <2>1
    <3> HIDE DEF entries
    <3>2. Len(entries) = 0
      BY <3>1
    <3>3. QED  BY <3>2
  <2>2. CASE config # None
    <3>1. entries = config.bindings /\ config.bindings \in Seq(Settings!Texts)
      BY <1>3, <2>2 DEF Settings!ConfigFiles
    <3>2. \A n \in DOMAIN config.bindings :
            config.bindings[n].name.what = "LSTICK_X" =>
              \/ config.bindings[n].text = Settings!NothingBound
              \/ /\ Settings!IsPad(config.bindings[n].text)
                 /\ Settings!Last(config.bindings[n].text) \in Axes
      BY <1>3, <2>2 DEF Settings!Holds
    <3> HIDE DEF entries
    <3>3. Len(entries) \in Nat /\ DOMAIN entries = 1..Len(entries)
      BY <3>1
    <3>4. \A n \in 1..Len(entries) : entries[n] \in Settings!Texts
      BY <3>1, ElementOfSeq
    <3>5. QED  BY <3>1, <3>2, <3>3, <3>4 DEF Readable
  <2>3. QED  BY <2>1, <2>2
<1>6. bindings' \in Lists
  <2> HIDE DEF list, entries
  <2>1. \E after :
           /\ after[0] = list
           /\ \A n \in 1..Len(entries) : after[n] = Settings!ReadEntry(after[n - 1], entries[n])
           /\ Settings!DeserializeBindings(list, entries) = after[Len(entries)]
           /\ after[Len(entries)] \in Lists
    BY <1>2, <1>5, DeserializeRuns
  <2>2. QED  BY <1>1, <2>1
<1>7. settings' \in SettingsSet
  <2>1. CASE config = None
    BY <1>1, <2>1, FirstAre
  <2>2. CASE config # None
    BY <1>1, <1>3, <2>2, SettingsAreRead
  <2>3. QED  BY <2>1, <2>2
<1>8. PICK size \in sizes : window' = [Settings!FirstWindow EXCEPT !.size = size]
  BY <1>1
<1>9. window' \in WindowSet /\ window'.size = size
  <2>1. Settings!FirstWindow \in WindowSet
    BY FirstAre
  <2>2. Settings!FirstWindow.size \in Int \X Int /\ Settings!Leftover \in Int \X Int
    BY <2>1 DEF WindowSet, Settings!Leftover
  <2>3. config # None => config.window \in (Int \X Int) \cup {None}
    BY <1>3 DEF Settings!ConfigFiles
  <2>4. size \in Int \X Int
    <3>1. CASE config = None
      BY <2>2, <3>1
    <3>2. CASE config # None /\ config.window = None
      BY <2>2, <3>2
    <3>3. CASE config # None /\ config.window # None
      BY <2>3, <3>3
    <3>4. QED  BY <3>1, <3>2, <3>3
  <2> HIDE DEF sizes
  <2>5. QED  BY <1>8, <2>1, <2>4 DEF WindowSet
<1>10. SettingsTypes'
  <2>1. config' # None => config' \in Settings!ConfigFiles /\ Settings!Holds(config)'
    BY <1>1, <1>3 DEF Settings!Holds
  <2>2. exported' # None => exported' \in Exports
    BY <1>1 DEF SettingsInv, SettingsTypes
  <2> HIDE DEF list, entries, new, sizes
  <2>3. QED  BY <1>4, <1>6, <1>7, <1>9, <2>1, <2>2 DEF SettingsTypes
<1>11. EndWritten' /\ DialogIsUsed'
  BY <1>1, <1>4 DEF SettingsInv, EndWritten, DialogIsUsed, FileOf
<1>12. ASSUME ended # None
       PROVE  /\ \A i \in Settings!Ids : Settings!Sayable(ended.bindings[i]) =>
                                           Settings!Same(bindings'[i], ended.bindings[i])
              /\ settings' = ended.settings
              /\ ~ended.window.full => window'.size = Settings!Upright(ended.window)
  <2>1. ended \in EndSet /\ config = FileOf(ended)
    BY <1>12 DEF SettingsInv, EndWritten
  <2>2. config # None
    BY <2>1, FileIsRead
  <2>3. \A i \in Settings!Ids : Settings!Sayable(ended.bindings[i]) =>
                                  Settings!Same(bindings'[i], ended.bindings[i])
    <3> DEFINE was == ended.bindings
    <3>1. was \in Lists
      BY <2>1 DEF EndSet
    <3>2. entries = Settings!SerializeBindings(was)
      BY <2>1, <2>2 DEF FileOf
    <3>3. bindings' = Settings!DeserializeBindings(list, Settings!SerializeBindings(was))
      BY <1>1, <3>2
    <3> HIDE DEF was, list
    <3>4. QED  BY <1>2, <3>1, <3>3, DeserializeReturns DEF was
  <2>4. settings' = ended.settings
    <3>1. settings' = new
      BY <1>1, <2>2
    <3>2. QED  BY <1>3, <2>1, <2>2, <3>1, SettingsAreRead
  <2>5. ASSUME ~ended.window.full  PROVE window'.size = Settings!Upright(ended.window)
    <3>1. config.window = Settings!Upright(ended.window)
      BY <2>1, <2>5 DEF FileOf
    <3>2. ended.window.size \in Int \X Int
      BY <2>1 DEF EndSet, WindowSet
    <3>3. Settings!Upright(ended.window) \in Int \X Int
      BY <3>2 DEF Settings!Upright
    <3>4. config.window # None
      BY <3>1, <3>3, SettingsAssumption
    <3>5. size = config.window
      BY <2>2, <3>4
    <3>6. QED  BY <1>9, <3>1, <3>5
  <2>6. QED  BY <2>3, <2>4, <2>5
<1>13. Settings!ConfigurationReturns'
  <2>1. ended' = ended
    BY <1>1
  <2> HIDE DEF list, entries, new, sizes
  <2>2. QED  BY <1>4, <1>12, <2>1 DEF Settings!ConfigurationReturns, Settings!Sayable, Settings!Same,
                                      Settings!Upright, Settings!Ids
<1>14. QED  BY <1>10, <1>11, <1>13 DEF SettingsInv

(* Settings that were never written promise nothing yet.                     *)
LEMMA SettingsBegin ==
  ASSUME Settings!Init
  PROVE  SettingsInv
<1>1. /\ session = "off" /\ bindings = Settings!Defaults(FALSE) /\ inputDialog = None
      /\ settings = Settings!FirstSettings /\ window = Settings!FirstWindow
      /\ config \in OldFiles \cup {None} /\ exported = None /\ ended = None
  BY DEF Settings!Init
<1>2. config # None => config \in Settings!ConfigFiles /\ Settings!Holds(config)
  BY <1>1, SettingsAssumption
<1>3. SettingsTypes
  BY <1>1, <1>2, FirstAre, DefaultsAre DEF SettingsTypes
<1>4. EndWritten /\ DialogIsUsed /\ Settings!ConfigurationReturns
  BY <1>1 DEF EndWritten, DialogIsUsed, Settings!ConfigurationReturns
<1>5. QED  BY <1>3, <1>4 DEF SettingsInv

(* No step breaks the promise.                                               *)
LEMMA SettingsKeep ==
  ASSUME SettingsInv, [Settings!Next]_(Settings!vars)
  PROVE  SettingsInv'
<1>1. CASE UNCHANGED Settings!vars
  BY <1>1 DEF Settings!vars, SettingsInv, SettingsTypes, EndWritten, DialogIsUsed, FileOf, Exports,
              Settings!Holds, Settings!ConfigurationReturns, Settings!Sayable, Settings!Same,
              Settings!Upright
<1>2. ASSUME NEW plugged \in BOOLEAN, Settings!Start(plugged)  PROVE SettingsInv'
  BY <1>2, StartKeeps
<1>3. ASSUME NEW port \in 0..(Ports - 1), Settings!ShowControllerDialog(port)  PROVE SettingsInv'
  <2>1. port \in 0..Ports
    BY SettingsAssumption
  <2>2. QED  BY <1>3, <2>1, ShowBindsKeeps
<1>4. ASSUME Settings!ShowHotKeyDialog  PROVE SettingsInv'
  <2>1. Ports \in 0..Ports /\ Settings!ShowControllerDialog(Ports)
    BY <1>4, SettingsAssumption DEF Settings!ShowHotKeyDialog
  <2>2. QED  BY <2>1, ShowBindsKeeps
<1>5. ASSUME NEW i \in Settings!Ids, NEW b \in Pressed, inputDialog # None,
             Settings!UpdateButton(i, b)
      PROVE  SettingsInv'
  BY <1>5, UpdateButtonKeeps
<1>6. ASSUME NEW ok \in BOOLEAN, Settings!CloseDialog(ok)  PROVE SettingsInv'
  BY <1>6, CloseBindsKeeps
<1>7. QED
  BY <1>1, <1>2, <1>3, <1>4, <1>5, <1>6, ClearKeeps, ExportKeeps, ImportKeeps, SettingsChange,
     DestroyKeeps, CrashKeeps
  DEF Settings!Next

(* Beside the other parts the settings change as they do alone.              *)
LEMMA SettingsRun == Spec => Settings!Spec
<1>1. Init => Settings!Init
  BY DEF Init
<1>2. [Next]_vars => [Settings!Next]_(Settings!vars)
  <2>1. ASSUME OthersStay, which # "settings"  PROVE UNCHANGED Settings!vars
    BY <2>1 DEF OthersStay, configVars, Settings!vars
  <2>2. ASSUME Next  PROVE Settings!Next \/ UNCHANGED Settings!vars
    BY <2>1, <2>2 DEF Next
  <2>3. UNCHANGED vars => UNCHANGED Settings!vars
    BY DEF vars, configVars, Settings!vars
  <2>4. QED  BY <2>2, <2>3
<1>3. QED  BY <1>1, <1>2, PTL DEF Spec, Settings!Spec

(* The program starts with the settings, the bindings and the window that it  *)
(* had when it last ended properly, whatever the defaults are now and        *)
(* whether it crashed since, and a controller that is imported reacts as the *)
(* one that was exported: Application::saveConfiguration and                 *)
(* loadConfiguration, KeyBinds' bindings written as text and parsed, and     *)
(* InputDialog's export and import.                                          *)
THEOREM ConfigurationAlwaysReturns == Spec => []ConfigurationReturns
<1>1. Settings!Init => SettingsInv
  BY SettingsBegin
<1>2. SettingsInv /\ [Settings!Next]_(Settings!vars) => SettingsInv'
  BY SettingsKeep
<1>3. SettingsInv => ConfigurationReturns
  BY DEF SettingsInv, ConfigurationReturns
<1>4. QED  BY <1>1, <1>2, <1>3, SettingsRun, PTL DEF Settings!Spec

-----------------------------------------------------------------------------
(* What a state brings back: StateFile.  The picture goes through an image    *)
(* of 24 bits and back; the blocks of a file are found one after the other.  *)

Formats == {"RGB565", "0RGB1555", "XRGB8888"}
Colours == [1..3 -> 0..255]
(* The pixels of a format, and what the texture may hold.                    *)
Pixels(format) == {p \in Colours : \A c \in 1..3 : p[c] < State!Shades(format)[c]}
Textures(format) == [1..Texture[2] -> [1..Texture[1] -> Pixels(format)]]
(* An image with the size of a view.                                         *)
Image24(v) == [1..v[2] -> [1..v[1] -> Colours]]

Screens ==
  {s \in [format: Formats, view: Views, preserve: BOOLEAN, bottom: BOOLEAN,
          rows: [1..Texture[2] -> [1..Texture[1] -> Colours]]] : s.rows \in Textures(s.format)}
Machines == [size: Sizes, at: Nat]

(* The numbers the texture and a view have.                                  *)
LEMMA ViewFits ==
  /\ Texture[1] \in Nat /\ Texture[2] \in Nat
  /\ \A v \in Views : v[1] \in 1..Texture[1] /\ v[2] \in 1..Texture[2]
BY StateAssumption

(* How many shades there are.                                                *)
LEMMA ShadesAre ==
  ASSUME NEW f \in Formats, NEW c \in 1..3
  PROVE  State!Shades(f)[c] \in {32, 64, 256}
BY DEF Formats, State!Shades

(* A shade is what comes back from the 8 bits it is widened to, and any 8    *)
(* bits give a shade.                                                        *)
LEMMA ShadeReturns ==
  ASSUME NEW n \in {32, 64, 256}
  PROVE  /\ \A p \in 0..(n - 1) : /\ (p * 255) \div (n - 1) \in 0..255
                                  /\ ((p * 255) \div (n - 1)) \div (256 \div n) = p
         /\ \A v \in 0..255 : v \div (256 \div n) \in 0..(n - 1)
<1>1. CASE n = 32
  <2>1. ASSUME NEW p \in 0..31
        PROVE  (p * 255) \div 31 \in 0..255 /\ ((p * 255) \div 31) \div 8 = p
    <3> DEFINE v == (p * 255) \div 31
    <3>1. v \in Int /\ 31 * v <= p * 255 /\ p * 255 < 31 * v + 31
      OBVIOUS
    <3> HIDE DEF v
    <3>2. v \in 0..255 /\ 8 * p <= v /\ v < 8 * p + 8
      BY <3>1
    <3>3. v \div 8 = p
      BY <3>2
    <3>4. QED  BY <3>2, <3>3 DEF v
  <2>2. 256 \div n = 8 /\ n - 1 = 31
    BY <1>1
  <2>3. \A v \in 0..255 : v \div 8 \in 0..31
    OBVIOUS
  <2>4. QED  BY <2>1, <2>2, <2>3
<1>2. CASE n = 64
  <2>1. ASSUME NEW p \in 0..63
        PROVE  (p * 255) \div 63 \in 0..255 /\ ((p * 255) \div 63) \div 4 = p
    <3> DEFINE v == (p * 255) \div 63
    <3>1. v \in Int /\ 63 * v <= p * 255 /\ p * 255 < 63 * v + 63
      OBVIOUS
    <3> HIDE DEF v
    <3>2. v \in 0..255 /\ 4 * p <= v /\ v < 4 * p + 4
      BY <3>1
    <3>3. v \div 4 = p
      BY <3>2
    <3>4. QED  BY <3>2, <3>3 DEF v
  <2>2. 256 \div n = 4 /\ n - 1 = 63
    BY <1>2
  <2>3. \A v \in 0..255 : v \div 4 \in 0..63
    OBVIOUS
  <2>4. QED  BY <2>1, <2>2, <2>3
<1>3. CASE n = 256
  <2>1. \A p \in 0..255 : (p * 255) \div 255 = p /\ p \div 1 = p
    OBVIOUS
  <2>2. 256 \div n = 1 /\ n - 1 = 255
    BY <1>3
  <2>3. QED  BY <2>1, <2>2
<1>4. QED  BY <1>1, <1>2, <1>3

(* A pixel is a colour, and comes back from it.                              *)
LEMMA PixelReturns ==
  ASSUME NEW f \in Formats
  PROVE  /\ \A p \in Pixels(f) : /\ State!Widen(f, p) \in Colours
                                 /\ State!Narrow(f, State!Widen(f, p)) = p
         /\ \A q \in Colours : State!Narrow(f, q) \in Pixels(f)
<1> DEFINE n(c) == State!Shades(f)[c]
<1>1. \A c \in 1..3 : n(c) \in {32, 64, 256}
  BY ShadesAre
<1> HIDE DEF n
<1>2. ASSUME NEW p \in Pixels(f)
      PROVE  State!Widen(f, p) \in Colours /\ State!Narrow(f, State!Widen(f, p)) = p
  <2>1. p \in [1..3 -> 0..255] /\ \A c \in 1..3 : p[c] < n(c)
    BY DEF Pixels, Colours, n
  <2> DEFINE w == [c \in 1..3 |-> (p[c] * 255) \div (n(c) - 1)]
  <2>2. State!Widen(f, p) = w /\ State!Narrow(f, w) = [c \in 1..3 |-> w[c] \div (256 \div n(c))]
    BY DEF State!Widen, State!Narrow, n
  <2>3. ASSUME NEW c \in 1..3
        PROVE  w[c] \in 0..255 /\ w[c] \div (256 \div n(c)) = p[c]
    <3>1. p[c] \in 0..(n(c) - 1)
      BY <1>1, <2>1
    <3>2. QED  BY <1>1, <3>1, ShadeReturns
  <2> HIDE DEF w
  <2>4. w \in Colours
    <3>1. w = [c \in 1..3 |-> w[c]]
      BY DEF w
    <3>2. QED  BY <2>3, <3>1 DEF Colours
  <2>5. State!Narrow(f, w) = p
    BY <2>1, <2>2, <2>3
  <2>6. QED  BY <2>2, <2>4, <2>5
<1>3. ASSUME NEW q \in Colours  PROVE State!Narrow(f, q) \in Pixels(f)
  <2>1. State!Narrow(f, q) = [c \in 1..3 |-> q[c] \div (256 \div n(c))]
    BY DEF State!Narrow, n
  <2>2. ASSUME NEW c \in 1..3
        PROVE  q[c] \div (256 \div n(c)) \in 0..255 /\ q[c] \div (256 \div n(c)) < n(c)
    <3>1. q[c] \in 0..255
      BY DEF Colours
    <3>2. q[c] \div (256 \div n(c)) \in 0..(n(c) - 1)
      BY <1>1, <3>1, ShadeReturns
    <3>3. QED  BY <1>1, <3>2
  <2> DEFINE r == State!Narrow(f, q)
  <2>3. r = [c \in 1..3 |-> q[c] \div (256 \div n(c))]
    BY <2>1
  <2> HIDE DEF r
  <2>4. r \in Colours
    BY <2>2, <2>3 DEF Colours
  <2>5. \A c \in 1..3 : r[c] < n(c)
    BY <2>2, <2>3
  <2>6. r \in Pixels(f)
    BY <2>4, <2>5 DEF Pixels, n
  <2>7. QED  BY <2>6 DEF r
<1>4. QED  BY <1>2, <1>3

(* A buffer of rows, and a row of what may be turned over.                   *)
Buffers(n, R) == [1..n -> R]
RowOf(s, rows, h, y) == IF s.bottom THEN rows[h + 1 - y] ELSE rows[y]

(* Turning the first rows of a buffer over keeps it one.                     *)
LEMMA FlipIs ==
  ASSUME NEW R, NEW n \in Nat, NEW rows \in Buffers(n, R), NEW h \in 0..n
  PROVE  \A t : /\ State!Flipped(t, rows, h) \in Buffers(n, R)
               /\ \A y \in 1..h : State!Flipped(t, rows, h)[y] = RowOf(t, rows, h, y)
<1> USE DEF Buffers
<1>1. \A y \in 1..h : h + 1 - y \in 1..n /\ y \in 1..n
  OBVIOUS
<1>2. State!Flip(rows, h) = [y \in 1..n |-> IF y <= h THEN rows[h + 1 - y] ELSE rows[y]]
  BY DEF State!Flip
<1>3. \A y \in 1..n : y <= h => h + 1 - y \in 1..n
  OBVIOUS
<1>4. State!Flip(rows, h) \in [1..n -> R]
  BY <1>2, <1>3
<1>5. \A y \in 1..h : State!Flip(rows, h)[y] = rows[h + 1 - y]
  BY <1>1, <1>2
<1>6. QED  BY <1>4, <1>5 DEF State!Flipped, RowOf

(* What is seen is of the format's pixels, and as large as the view.         *)
LEMMA ShownIs ==
  ASSUME NEW s \in Screens
  PROVE  /\ State!Shown(s) \in [1..s.view[2] -> [1..s.view[1] -> Pixels(s.format)]]
         /\ State!Shown(s) \in Image24(s.view) /\ State!Shown(s) # NoFile
         /\ \A y \in 1..s.view[2], x \in 1..s.view[1] :
              State!Shown(s)[y][x] =
                (IF s.bottom THEN s.rows[s.view[2] + 1 - y] ELSE s.rows[y])[x]
<1> DEFINE w == s.view[1]
           h == s.view[2]
           R == [1..Texture[1] -> Pixels(s.format)]
           rows == State!Flipped(s, s.rows, h)
<1>1. /\ s.view \in Views /\ w \in 1..Texture[1] /\ h \in 1..Texture[2]
      /\ Texture[1] \in Nat /\ Texture[2] \in Nat /\ s.rows \in [1..Texture[2] -> R]
  BY ViewFits DEF Screens, Textures
<1>2. /\ rows \in [1..Texture[2] -> R]
      /\ \A y \in 1..h : rows[y] = IF s.bottom THEN s.rows[h + 1 - y] ELSE s.rows[y]
  <2> DEFINE n == Texture[2]
             buffer == s.rows
  <2>1. n \in Nat
    BY <1>1
  <2>2. h \in 0..n
    BY <1>1
  <2>3. buffer \in Buffers(n, R)
    BY <1>1 DEF Buffers
  <2> HIDE DEF R, h, n, buffer
  <2>4. \A t : /\ State!Flipped(t, buffer, h) \in Buffers(n, R)
             /\ \A y \in 1..h : State!Flipped(t, buffer, h)[y] = RowOf(t, buffer, h, y)
    BY <2>1, <2>2, <2>3, FlipIs
  <2>5. QED  BY <2>4 DEF n, buffer, RowOf, Buffers
<1>3. State!Shown(s) = [y \in 1..h |-> [x \in 1..w |-> rows[y][x]]]
  BY DEF State!Shown
<1>4. \A y \in 1..h, x \in 1..w : rows[y][x] \in Pixels(s.format)
  <2> HIDE DEF rows, w, h
  <2>1. ASSUME NEW y \in 1..h, NEW x \in 1..w  PROVE rows[y][x] \in Pixels(s.format)
    <3>1. y \in 1..Texture[2] /\ x \in 1..Texture[1]
      BY <1>1
    <3>2. QED  BY <1>2, <3>1
  <2>2. QED  BY <2>1
<1> HIDE DEF rows, w, h
<1>5. State!Shown(s) \in [1..h -> [1..w -> Pixels(s.format)]]
  BY <1>3, <1>4
<1>6. Pixels(s.format) \subseteq Colours
  BY DEF Pixels
<1>7. State!Shown(s) \in [1..h -> [1..w -> Colours]]
  BY <1>3, <1>4, <1>6
<1>8. \A y \in 1..h, x \in 1..w :
        State!Shown(s)[y][x] = (IF s.bottom THEN s.rows[h + 1 - y] ELSE s.rows[y])[x]
  BY <1>2, <1>3
<1>9. State!Shown(s) # NoFile
  BY <1>1, <1>7, StateAssumption DEF w, h, Colours
<1>10. QED  BY <1>5, <1>7, <1>8, <1>9 DEF w, h, Image24

(* The picture of a state is what is seen, in 24 bits.                       *)
LEMMA FramebufferIs ==
  ASSUME NEW s \in Screens
  PROVE  /\ State!GetFramebuffer(s) \in Image24(s.view)
         /\ \A y \in 1..s.view[2], x \in 1..s.view[1] :
              State!GetFramebuffer(s)[y][x] = State!Widen(s.format, State!Shown(s)[y][x])
<1> DEFINE w == s.view[1]
           h == s.view[2]
           rows == State!Flipped(s, s.rows, h)
<1>1. State!GetFramebuffer(s) =
        [y \in 1..h |-> [x \in 1..w |-> State!Widen(s.format, rows[y][x])]]
  BY DEF State!GetFramebuffer, State!ToRgb
<1>2. State!Shown(s) = [y \in 1..h |-> [x \in 1..w |-> rows[y][x]]]
  BY DEF State!Shown
<1>3. \A y \in 1..h, x \in 1..w :
        State!GetFramebuffer(s)[y][x] = State!Widen(s.format, State!Shown(s)[y][x])
  <2> HIDE DEF rows, w, h
  <2>1. QED  BY <1>1, <1>2
<1>4. \A y \in 1..h, x \in 1..w : State!Widen(s.format, rows[y][x]) \in Colours
  <2>1. s.format \in Formats /\ \A y \in 1..h, x \in 1..w : State!Shown(s)[y][x] \in Pixels(s.format)
    <3>1. s.format \in Formats
      BY DEF Screens
    <3> DEFINE seen == State!Shown(s)
    <3>2. seen \in [1..h -> [1..w -> Pixels(s.format)]]
      BY ShownIs
    <3> HIDE DEF seen, w, h
    <3>3. \A y \in 1..h, x \in 1..w : seen[y][x] \in Pixels(s.format)
      BY <3>2
    <3>4. QED  BY <3>1, <3>3 DEF seen
  <2>2. \A y \in 1..h, x \in 1..w : rows[y][x] = State!Shown(s)[y][x]
    <3> HIDE DEF rows, w, h
    <3>1. QED  BY <1>2
  <2> HIDE DEF rows, w, h
  <2>3. QED  BY <2>1, <2>2, PixelReturns
<1>5. State!GetFramebuffer(s) \in [1..h -> [1..w -> Colours]]
  <2> HIDE DEF rows, w, h
  <2>1. QED  BY <1>1, <1>4
<1>6. QED  BY <1>3, <1>5 DEF Image24

(* Where a picture is put, the texture stays one, and nothing else changes;  *)
(* of the size and format of the view, and not stretched, it is seen.        *)
LEMMA FramebufferReturns ==
  ASSUME NEW s \in Screens, NEW v \in Views, NEW image \in Image24(v)
  PROVE  /\ State!RestoreFrameBuffer(s, image) \in Screens
         /\ State!RestoreFrameBuffer(s, image).view = s.view
         /\ State!RestoreFrameBuffer(s, image).format = s.format
         /\ State!RestoreFrameBuffer(s, image).preserve = s.preserve
         /\ ~s.preserve /\ s.view = v =>
              \A y \in 1..v[2], x \in 1..v[1] :
                State!Shown(State!RestoreFrameBuffer(s, image))[y][x]
                  = State!Narrow(s.format, image[y][x])
<1> DEFINE size == State!GetFramebufferSize(s)
           width == Len(image[1])
           height == State!Smaller(size[2], Len(image))
           TW == Texture[1]
           TH == Texture[2]
           N(y, x) == State!Narrow(s.format, image[y][x])
           P == State!FromRgb(image, s.format)
           I == State!Flipped(s, P, height)
           rows == [y \in 1..TH |->
                      IF y > height \/ width > TW THEN s.rows[y]
                      ELSE [x \in 1..TW |-> IF x > width THEN s.rows[y][x] ELSE I[y][x]]]
           new == [s EXCEPT !.rows = rows]
<1>1. /\ TW \in Nat /\ TH \in Nat /\ v[1] \in 1..TW /\ v[2] \in 1..TH
      /\ s.view \in Views /\ s.view[1] \in 1..TW /\ s.view[2] \in 1..TH
      /\ s.format \in Formats /\ s.rows \in Textures(s.format)
  BY ViewFits DEF Screens
<1>2. Len(image) = v[2] /\ width = v[1] /\ DOMAIN image = 1..v[2]
      /\ \A y \in 1..v[2] : DOMAIN image[y] = 1..v[1] /\ \A x \in 1..v[1] : image[y][x] \in Colours
  <2> HIDE DEF TW, TH
  <2>1. v[1] \in Nat /\ v[2] \in Nat /\ 1 \in 1..v[2]
    BY <1>1
  <2>2. image \in [1..v[2] -> [1..v[1] -> Colours]]
    BY DEF Image24
  <2>3. image \in Seq([1..v[1] -> Colours]) /\ Len(image) = v[2]
    BY <2>1, <2>2
  <2>4. image[1] \in [1..v[1] -> Colours]
    BY <2>1, <2>2
  <2>5. Len(image[1]) = v[1]
    BY <2>1, <2>4
  <2>6. QED  BY <2>2, <2>3, <2>5
<1>3. size[2] \in Int /\ (~s.preserve => size = s.view)
  <2> DEFINE a == Aspect[1]
             b == Aspect[2]
             u == s.view[1]
             h == s.view[2]
  <2>1. a \in Nat \ {0} /\ b \in Nat \ {0} /\ u \in Nat /\ h \in Nat
    BY <1>1, StateAssumption
  <2>2. size = IF ~s.preserve THEN s.view
               ELSE IF (h * a) \div b < u THEN <<u, (u * b) \div a>> ELSE <<(h * a) \div b, h>>
    BY DEF State!GetFramebufferSize
  <2> HIDE DEF size, a, b, u
  <2>3. (u * b) \div a \in Int
    BY <2>1
  <2>4. QED  BY <2>1, <2>2, <2>3
<1>4. height \in Int /\ height <= v[2] /\ (~s.preserve /\ s.view = v => height = v[2])
  <2> HIDE DEF size
  <2>1. QED  BY <1>1, <1>2, <1>3 DEF State!Smaller
<1> HIDE DEF size, height, width
<1>5. \A y \in 1..v[2], x \in 1..v[1] : N(y, x) \in Pixels(s.format)
  BY <1>1, <1>2, PixelReturns
<1>6. P = [y \in 1..v[2] |-> [x \in 1..v[1] |-> N(y, x)]]
  BY <1>2 DEF State!FromRgb
<1> HIDE DEF N
<1>7. P \in [1..v[2] -> [1..v[1] -> Pixels(s.format)]]
  <2> HIDE DEF P
  <2>1. QED  BY <1>5, <1>6
<1>8. State!RestoreFrameBuffer(s, image) = IF width # size[1] THEN s ELSE new
  <2>1. State!RestoreFrameBuffer(s, image) =
          IF width # size[1] THEN s ELSE State!SetFramebuffer(s, P, width, height)
    BY DEF State!RestoreFrameBuffer, size, width, height
  <2>2. State!SetFramebuffer(s, P, width, height) = new
    <3>1. DOMAIN s.rows = 1..TH /\ \A y \in 1..TH : DOMAIN s.rows[y] = 1..TW
      BY <1>1 DEF Textures
    <3>2. s.rows \in [1..TH -> [1..TW -> Pixels(s.format)]] /\ s = [s EXCEPT !.rows = s.rows]
      BY <1>1 DEF Textures, Screens
    <3> HIDE DEF P
    <3>3. QED  BY <3>1 DEF State!SetFramebuffer
  <2>3. QED  BY <2>1, <2>2
<1> HIDE DEF P
<1>9. height >= 0 => /\ I \in [1..v[2] -> [1..v[1] -> Pixels(s.format)]]
                     /\ \A y \in 1..height : I[y] = IF s.bottom THEN P[height + 1 - y] ELSE P[y]
  <2>1. SUFFICES ASSUME height >= 0
        PROVE  /\ I \in [1..v[2] -> [1..v[1] -> Pixels(s.format)]]
               /\ \A y \in 1..height : I[y] = IF s.bottom THEN P[height + 1 - y] ELSE P[y]
    OBVIOUS
  <2>2. v[2] \in Nat /\ height \in 0..v[2]
    BY <1>1, <1>4, <2>1
  <2> DEFINE R == [1..v[1] -> Pixels(s.format)]
             n == v[2]
  <2>3. n \in Nat
    BY <2>2
  <2>4. height \in 0..n
    BY <2>2
  <2>5. P \in Buffers(n, R)
    BY <1>7 DEF Buffers
  <2> HIDE DEF R, n
  <2>6. \A t : /\ State!Flipped(t, P, height) \in Buffers(n, R)
             /\ \A y \in 1..height : State!Flipped(t, P, height)[y] = RowOf(t, P, height, y)
    BY <2>3, <2>4, <2>5, FlipIs
  <2>7. QED  BY <2>6 DEF R, n, RowOf, Buffers
<1> HIDE DEF I
<1>10. rows \in Textures(s.format)
  <2>1. ASSUME NEW y \in 1..TH, NEW x \in 1..TW, ~(y > height \/ width > TW), ~(x > width)
        PROVE  I[y][x] \in Pixels(s.format)
    <3>1. height >= 0 /\ y \in 1..v[2] /\ x \in 1..v[1]
      BY <1>1, <1>2, <1>4, <2>1
    <3>2. QED  BY <1>9, <3>1
  <2>2. s.rows \in [1..TH -> [1..TW -> Pixels(s.format)]]
    BY <1>1 DEF Textures
  <2> HIDE DEF TW, TH
  <2>3. ASSUME NEW y \in 1..TH  PROVE rows[y] \in [1..TW -> Pixels(s.format)]
    <3>1. CASE y > height \/ width > TW
      <4>1. rows[y] = s.rows[y]
        BY <3>1
      <4>2. QED  BY <2>2, <4>1
    <3>2. CASE ~(y > height \/ width > TW)
      <4>1. rows[y] = [x \in 1..TW |-> IF x > width THEN s.rows[y][x] ELSE I[y][x]]
        BY <3>2
      <4>2. \A x \in 1..TW : s.rows[y][x] \in Pixels(s.format)
        BY <2>2
      <4>3. QED  BY <2>1, <3>2, <4>1, <4>2
    <3>3. QED  BY <3>1, <3>2
  <2>4. rows \in [1..TH -> [1..TW -> Pixels(s.format)]]
    <3>1. rows = [y \in 1..TH |-> rows[y]]
      OBVIOUS
    <3> HIDE DEF rows
    <3>2. QED  BY <2>3, <3>1
  <2>5. QED  BY <2>4 DEF Textures, TH, TW
<1>11. new \in Screens /\ new.view = s.view /\ new.format = s.format /\ new.preserve = s.preserve
       /\ new.bottom = s.bottom /\ new.rows = rows
  <2> HIDE DEF rows
  <2>1. rows \in [1..Texture[2] -> [1..Texture[1] -> Colours]]
    <3>1. Pixels(s.format) \subseteq Colours
      BY DEF Pixels
    <3>2. QED  BY <1>10, <3>1 DEF Textures
  <2>2. QED  BY <1>10, <2>1 DEF Screens
<1>12. ASSUME ~s.preserve, s.view = v, NEW y \in 1..v[2], NEW x \in 1..v[1]
       PROVE  State!Shown(State!RestoreFrameBuffer(s, image))[y][x] = N(y, x)
  <2>1. width = size[1] /\ height = v[2] /\ height \in Nat
    BY <1>1, <1>2, <1>3, <1>4, <1>12
  <2>2. State!RestoreFrameBuffer(s, image) = new
    BY <1>8, <2>1
  <2>3. \A j \in 1..v[2] : rows[j][x] = I[j][x]
    <3>1. ASSUME NEW j \in 1..v[2]  PROVE rows[j][x] = I[j][x]
      <4>1. j \in 1..TH /\ x \in 1..TW /\ ~(j > height) /\ ~(width > TW) /\ ~(x > width)
        BY <1>1, <1>2, <1>12, <2>1
      <4> HIDE DEF TW, TH
      <4>2. QED  BY <4>1
    <3>2. QED  BY <3>1
  <2> HIDE DEF rows
  <2>4. v[2] + 1 - y \in 1..v[2] /\ v[2] + 1 - (v[2] + 1 - y) = y
    BY <1>1, <1>12
  <2> HIDE DEF new
  <2>5. State!Shown(new)[y][x] = (IF new.bottom THEN new.rows[v[2] + 1 - y] ELSE new.rows[y])[x]
    BY <1>11, <1>12, ShownIs
  <2>6. State!Shown(new)[y][x] = (IF s.bottom THEN I[v[2] + 1 - y] ELSE I[y])[x]
    BY <1>11, <1>12, <2>3, <2>4, <2>5
  <2>7. I[y] = (IF s.bottom THEN P[v[2] + 1 - y] ELSE P[y])
        /\ I[v[2] + 1 - y] = (IF s.bottom THEN P[y] ELSE P[v[2] + 1 - y])
    BY <1>9, <1>12, <2>1, <2>4
  <2>8. State!Shown(new)[y][x] = P[y][x]
    BY <2>6, <2>7
  <2>9. P[y][x] = N(y, x)
    BY <1>6, <1>12
  <2>10. QED  BY <2>2, <2>8, <2>9
<1>13. QED  BY <1>8, <1>11, <1>12 DEF N

-----------------------------------------------------------------------------
(* Blocks.                                                                   *)

Tags == {"RASTATE", "MEM ", "ACHV", "RPLY", "SCRN", "END ", "#RZIPv", "chunk"}
(* The cells of a file that is of some values.                               *)
CellsOf(V) == [is: Tags, size: Nat, of: V]
StateFiles(V) == Seq(CellsOf(V))

(* What a block has in it.                                                   *)
Filled(tag, n, of) == [i \in 1..n |-> State!Cell(tag, i, of)]

(* A block is in a file at a place.                                          *)
HasBlock(data, k, tag, size, of) ==
  /\ k \in 1..Len(data) /\ k + State!Cells(size) <= Len(data)
  /\ data[k] = State!Cell(tag, size, 0)
  /\ \A i \in 1..State!Cells(size) : data[k + i] = State!Cell(tag, i, of)

(* How many cells a size takes.                                              *)
LEMMA CellsAre ==
  /\ \A size \in Nat : State!Cells(size) \in Nat
  /\ \A size \in Nat \ {0} : State!Cells(size) >= 1
  /\ State!Cells(0) = 0
BY DEF State!Cells

(* A block has a header and its cells.                                       *)
LEMMA BlockIs ==
  ASSUME NEW V, 0 \in V, NEW tag \in Tags, NEW size \in Nat, NEW of \in V
  PROVE  /\ State!Block(tag, size, of) \in Seq(CellsOf(V))
         /\ Len(State!Block(tag, size, of)) = 1 + State!Cells(size)
         /\ State!Block(tag, size, of)[1] = State!Cell(tag, size, 0)
         /\ \A i \in 1..State!Cells(size) :
              State!Block(tag, size, of)[1 + i] = State!Cell(tag, i, of)
         /\ Tail(State!Block(tag, size, of)) = Filled(tag, State!Cells(size), of)
<1> DEFINE n == State!Cells(size)
           C == CellsOf(V)
           front == <<State!Cell(tag, size, 0)>>
           rest == [i \in 1..n |-> State!Cell(tag, i, of)]
           block == front \o rest
<1>1. n \in Nat
  BY CellsAre
<1>2. State!Block(tag, size, of) = block
  BY DEF State!Block
<1>3. State!Cell(tag, size, 0) \in C /\ \A i \in 1..n : State!Cell(tag, i, of) \in C
  <2> HIDE DEF n
  <2>1. \A i \in 1..n : i \in Nat
    BY <1>1
  <2>2. QED  BY <2>1 DEF State!Cell, CellsOf
<1> HIDE DEF n, C
<1>4. front \in Seq(C) /\ Len(front) = 1 /\ front[1] = State!Cell(tag, size, 0)
  BY <1>3
<1>5. rest \in Seq(C) /\ Len(rest) = n /\ \A i \in 1..n : rest[i] = State!Cell(tag, i, of)
  BY <1>1, <1>3
<1> HIDE DEF front, rest
<1>6. /\ block \in Seq(C) /\ Len(block) = 1 + n
      /\ \A i \in 1..(1 + n) : block[i] = IF i <= 1 THEN front[i] ELSE rest[i - 1]
  <2>1. /\ front \o rest \in Seq(C) /\ Len(front \o rest) = Len(front) + Len(rest)
        /\ \A i \in 1..(Len(front) + Len(rest)) :
             (front \o rest)[i] = IF i <= Len(front) THEN front[i] ELSE rest[i - Len(front)]
    BY <1>4, <1>5, ConcatProperties
  <2>2. Len(front) = 1 /\ Len(rest) = n
    BY <1>4, <1>5
  <2> HIDE DEF block
  <2>3. QED  BY <2>1, <2>2 DEF block
<1>7. block[1] = State!Cell(tag, size, 0) /\ \A i \in 1..n : block[1 + i] = State!Cell(tag, i, of)
  <2>1. 1 \in 1..(1 + n) /\ \A i \in 1..n : 1 + i \in 1..(1 + n) /\ ~(1 + i <= 1) /\ 1 + i - 1 = i
    BY <1>1
  <2> HIDE DEF block
  <2>2. block[1] = front[1]
    BY <1>6, <2>1
  <2>3. \A i \in 1..n : block[1 + i] = rest[i]
    BY <1>6, <2>1
  <2>4. QED  BY <1>4, <1>5, <2>2, <2>3
<1>8. Tail(block) = rest
  <2> HIDE DEF block
  <2>1. block # <<>>
    BY <1>1, <1>6
  <2>2. Tail(block) \in Seq(C) /\ Len(Tail(block)) = n /\ \A i \in 1..n : Tail(block)[i] = block[i + 1]
    BY <1>1, <1>6, <2>1, HeadTailProperties
  <2>3. \A i \in 1..n : Tail(block)[i] = rest[i]
    BY <1>1, <1>5, <1>7, <2>2
  <2>4. QED  BY <1>5, <2>2, <2>3, SeqEqual
<1>9. QED  BY <1>2, <1>6, <1>7, <1>8 DEF n, C, rest, Filled

(* A file that goes on with a block has it, and what it had.                 *)
Kept(data, more) == \A k, t, z, o : HasBlock(data, k, t, z, o) /\ State!Cells(z) \in Nat =>
                                       HasBlock(more, k, t, z, o)
GrownBy(V, data, more, tag, size, of) ==
  /\ more \in StateFiles(V) /\ more # <<>> /\ more[1] = data[1]
  /\ Len(more) = Len(data) + 1 + State!Cells(size)
  /\ HasBlock(more, Len(data) + 1, tag, size, of)
  /\ Kept(data, more)
LEMMA GoesOn ==
  ASSUME NEW V, 0 \in V, NEW data \in StateFiles(V), data # <<>>,
         NEW tag \in Tags, NEW size \in Nat, NEW of \in V
  PROVE  GrownBy(V, data, data \o State!Block(tag, size, of), tag, size, of)
<1> DEFINE C == CellsOf(V)
           n == State!Cells(size)
           block == State!Block(tag, size, of)
           more == data \o block
           L == Len(data)
<1>11. data \in Seq(C)
  BY DEF StateFiles
<1>1. n \in Nat /\ L \in Nat
  BY <1>11, CellsAre
<1>2. /\ block \in Seq(C) /\ Len(block) = 1 + n /\ block[1] = State!Cell(tag, size, 0)
      /\ \A i \in 1..n : block[1 + i] = State!Cell(tag, i, of)
  BY BlockIs
<1> HIDE DEF C, n, block
<1>3. L >= 1
  BY <1>11
<1>4. /\ more \in Seq(C) /\ Len(more) = L + (1 + n)
      /\ \A i \in 1..(L + (1 + n)) : more[i] = IF i <= L THEN data[i] ELSE block[i - L]
  <2>1. data \in Seq(C) /\ block \in Seq(C) /\ more = data \o block
    BY <1>2, <1>11 DEF C, block
  <2>2. /\ data \o block \in Seq(C) /\ Len(data \o block) = Len(data) + Len(block)
        /\ \A i \in 1..(Len(data) + Len(block)) :
             (data \o block)[i] = IF i <= Len(data) THEN data[i] ELSE block[i - Len(data)]
    BY <2>1, ConcatProperties
  <2>3. Len(block) = 1 + n
    BY <1>2
  <2>4. QED  BY <2>1, <2>2, <2>3
<1> HIDE DEF more
<1>5. \A i \in 1..L : more[i] = data[i]
  <2>1. \A i \in 1..L : i \in 1..(L + (1 + n)) /\ i <= L
    BY <1>1
  <2>2. QED  BY <1>4, <2>1
<1>6. \A i \in 1..(1 + n) : more[L + i] = block[i]
  <2>2. ASSUME NEW i \in 1..(1 + n)  PROVE more[L + i] = block[i]
    <3> DEFINE j == L + i
    <3>1. j \in 1..(L + (1 + n)) /\ ~(j <= L) /\ j - L = i
      BY <1>1
    <3> HIDE DEF j, L
    <3>2. more[j] = block[i]
      BY <1>4, <3>1
    <3>3. QED  BY <3>2 DEF j
  <2>3. QED  BY <2>2
<1>7. HasBlock(more, L + 1, tag, size, of)
  <2>1. L + 1 \in 1..Len(more) /\ L + 1 + n <= Len(more)
    BY <1>1, <1>4
  <2>2. more[L + 1] = State!Cell(tag, size, 0)
    <3>1. 1 \in 1..(1 + n)
      BY <1>1
    <3> HIDE DEF L
    <3>2. QED  BY <1>2, <1>6, <3>1
  <2>3. ASSUME NEW i \in 1..n  PROVE more[L + 1 + i] = State!Cell(tag, i, of)
    <3>1. 1 + i \in 1..(1 + n) /\ L + 1 + i = L + (1 + i)
      BY <1>1
    <3> HIDE DEF L
    <3>2. QED  BY <1>2, <1>6, <3>1
  <2>4. QED  BY <2>1, <2>2, <2>3 DEF HasBlock, n
<1>8. ASSUME NEW k, NEW t, NEW z, NEW o, HasBlock(data, k, t, z, o), State!Cells(z) \in Nat
      PROVE  HasBlock(more, k, t, z, o)
  <2> DEFINE m == State!Cells(z)
  <2>1. /\ k \in 1..L /\ k + m <= L /\ data[k] = State!Cell(t, z, 0) /\ m \in Nat
        /\ \A i \in 1..m : data[k + i] = State!Cell(t, i, o)
    BY <1>8 DEF HasBlock
  <2> HIDE DEF m
  <2>2. k \in 1..Len(more) /\ k + m <= Len(more) /\ \A i \in 1..m : k + i \in 1..L
    BY <1>1, <1>4, <2>1
  <2> HIDE DEF L
  <2>3. more[k] = State!Cell(t, z, 0) /\ \A i \in 1..m : more[k + i] = State!Cell(t, i, o)
    BY <1>5, <2>1, <2>2
  <2>4. QED  BY <2>2, <2>3 DEF HasBlock, m
<1>9. more[1] = data[1] /\ more # <<>>
  BY <1>1, <1>3, <1>4, <1>5
<1>10. more \in StateFiles(V) /\ Len(more) = L + 1 + n
  <2> HIDE DEF L
  <2>1. QED  BY <1>1, <1>4 DEF C, StateFiles
<1>12. Kept(data, more)
  BY <1>8 DEF Kept
<1>13. QED  BY <1>7, <1>9, <1>10, <1>12 DEF GrownBy, n, more, block

(* What memory a core takes from where a block of it is.                     *)
MemoryTag == "MEM "
Takes(m, data, k, size, of) ==
  /\ size = m.size => State!Unserialize(m, data, k + 1, size)
                        = [ok |-> TRUE, machine |-> [size |-> size, at |-> of]]
  /\ size # m.size => State!Unserialize(m, data, k + 1, size) = [ok |-> FALSE, machine |-> m]
LEMMA TakesItsOwn ==
  ASSUME NEW V, NEW data \in StateFiles(V), NEW m \in Machines, NEW size \in Sizes,
         NEW of \in V, 0 \in V, NEW k \in Nat, k + State!Cells(size) <= Len(data),
         \A i \in 1..State!Cells(size) : data[k + i] = State!Cell(MemoryTag, i, of)
  PROVE  Takes(m, data, k, size, of)
<1> DEFINE n == State!Cells(size)
           input == k + 1
           e == input + n - 1
           mine == [m EXCEPT !.at = data[input].of]
           part == SubSeq(data, input, e)
<1>14. data \in Seq(CellsOf(V))
  BY DEF StateFiles
<1>1. n \in Nat /\ n >= 1 /\ size \in Nat
  BY StateAssumption, CellsAre
<1>2. MemoryTag \in Tags
  BY DEF Tags, MemoryTag
<1>3. State!Unserialize(m, data, input, size) =
        IF size = m.size /\ part = State!Memory(mine) THEN [ok |-> TRUE, machine |-> mine]
        ELSE [ok |-> FALSE, machine |-> m]
  BY DEF State!Unserialize
<1>4. k + n <= Len(data) /\ \A i \in 1..n : data[k + i] = State!Cell(MemoryTag, i, of)
  BY <1>14
<1> HIDE DEF n
<1>5. data[input] = State!Cell(MemoryTag, 1, of)
  <2>1. 1 \in 1..n
    BY <1>1
  <2>2. QED  BY <1>4, <2>1
<1> HIDE DEF input
<1>6. data[input].of = of
  BY <1>5 DEF State!Cell
<1>7. mine = [size |-> m.size, at |-> of]
  <2>1. [m EXCEPT !.at = of] = [size |-> m.size, at |-> of]
    BY DEF Machines
  <2>2. QED  BY <1>6, <2>1
<1>8. Tail(State!Block(MemoryTag, size, of)) = Filled(MemoryTag, n, of)
  BY <1>1, <1>2, BlockIs DEF n
<1>9. size = m.size => State!Memory(mine) = Filled(MemoryTag, n, of)
  <2> HIDE DEF mine
  <2>1. State!Memory(mine) = Tail(State!Block(MemoryTag, mine.size, mine.at))
    BY DEF State!Memory, MemoryTag
  <2>2. mine.size = m.size /\ mine.at = of
    BY <1>7
  <2>3. QED  BY <1>8, <2>1, <2>2
<1>10. input \in 1..(Len(data) + 1) /\ e \in (input - 1)..Len(data) /\ e - input + 1 = n
       /\ \A i \in 1..n : input + i - 1 = k + i
  <2>1. Len(data) \in Nat
    BY <1>14
  <2>2. QED  BY <1>1, <1>4, <2>1 DEF input
<1> HIDE DEF e
<1>11. part = [i \in 1..n |-> data[k + i]]
  <2>1. /\ part \in Seq(CellsOf(V)) /\ Len(part) = n
        /\ \A i \in 1..n : part[i] = data[input + i - 1]
    <3>1. /\ part \in Seq(CellsOf(V)) /\ Len(part) = (IF input <= e THEN e - input + 1 ELSE 0)
          /\ \A i \in 1..(e - input + 1) : part[i] = data[input + i - 1]
      <4>1. \A i \in input..e : i \in 1..Len(data)
        BY <1>10
      <4>2. input \in Int /\ e \in Int /\ \A i \in input..e : data[i] \in CellsOf(V)
        BY <1>10, <1>14, <4>1
      <4>3. QED  BY <4>2, <1>10, SubSeqProperties
    <3>2. input <= e
      BY <1>1, <1>10
    <3> HIDE DEF part
    <3>3. QED  BY <1>10, <3>1, <3>2
  <2> HIDE DEF part
  <2>2. part = [i \in 1..n |-> part[i]]
    BY <2>1
  <2>3. \A i \in 1..n : part[i] = data[k + i]
    BY <1>10, <2>1
  <2>4. QED  BY <2>2, <2>3
<1>12. size = m.size => part = State!Memory(mine)
  <2> HIDE DEF part, mine
  <2>1. QED  BY <1>4, <1>9, <1>11 DEF Filled
<1> HIDE DEF mine, part
<1>13. QED  BY <1>3, <1>7, <1>12 DEF input, Takes

-----------------------------------------------------------------------------
(* The loop that takes the blocks.                                           *)

ProgressTag == "ACHV"
ScreenTag   == "SCRN"
OtherTag    == "RPLY"
EndTag      == "END "
OwnTag      == "RASTATE"

(* No two tags are one.                                                      *)
LEMMA TagsDiffer ==
  /\ {OwnTag, MemoryTag, ProgressTag, ScreenTag, OtherTag, EndTag} \subseteq Tags
  /\ EndTag \notin {MemoryTag, ProgressTag, ScreenTag, OtherTag}
  /\ MemoryTag \notin {ProgressTag, ScreenTag, OtherTag}
  /\ ProgressTag \notin {ScreenTag, OtherTag} /\ ScreenTag # OtherTag
BY DEF Tags, OwnTag, MemoryTag, ProgressTag, ScreenTag, OtherTag, EndTag

(* Where the loop is, and what has been loaded until then.                   *)
Reading(k, done, m, p, s, b) ==
  [at |-> k, ok |-> done, machine |-> m, progress |-> p, screen |-> s, seen |-> b]

(* What has these parts is this state of the loop.                           *)
Only(k, done, m, p, s, b) ==
  [at: {k}, ok: {done}, machine: {m}, progress: {p}, screen: {s}, seen: {b}]
LEMMA ReadingWith ==
  ASSUME NEW k, NEW done, NEW m, NEW p, NEW s, NEW b, NEW r \in Only(k, done, m, p, s, b)
  PROVE  r = Reading(k, done, m, p, s, b)
BY DEF Reading, Only

(* Its parts.                                                                *)
LEMMA ReadingHas ==
  ASSUME NEW k, NEW done, NEW m, NEW p, NEW s, NEW b
  PROVE  /\ Reading(k, done, m, p, s, b).at = k /\ Reading(k, done, m, p, s, b).ok = done
         /\ Reading(k, done, m, p, s, b).machine = m /\ Reading(k, done, m, p, s, b).progress = p
         /\ Reading(k, done, m, p, s, b).screen = s /\ Reading(k, done, m, p, s, b).seen = b
BY DEF Reading

Yes == TRUE
No  == FALSE

(* What a turn does, by the block that is there.                             *)
TurnDoes(data, k, m, p, s, b, tag, size, of) ==
  LET r == Reading(k, Yes, m, p, s, b)
      n == k + 1 + State!Cells(size)
      u == State!Unserialize(m, data, k + 1, size)
  IN /\ tag = EndTag => State!TakeBlock(r, data) = r
     /\ tag = MemoryTag => State!TakeBlock(r, data) = Reading(n, u.ok, u.machine, p, s, b)
     /\ tag = OtherTag => State!TakeBlock(r, data) = Reading(n, Yes, m, p, s, b)
     /\ State!Cells(size) >= 1 =>
          /\ tag = ProgressTag => State!TakeBlock(r, data) = Reading(n, Yes, m, of, s, Yes)
          /\ tag = ScreenTag =>
               State!TakeBlock(r, data) = Reading(n, Yes, m, p, State!RestoreFrameBuffer(s, of), b)
LEMMA TurnIs ==
  ASSUME NEW data, NEW k, NEW m, NEW p, NEW s, NEW b, NEW tag, NEW size, NEW of,
         HasBlock(data, k, tag, size, of), Len(data) \in Nat, State!Cells(size) \in Nat
  PROVE  TurnDoes(data, k, m, p, s, b, tag, size, of)
<1> DEFINE yes == TRUE
           r == Reading(k, yes, m, p, s, b)
           c == State!Cells(size)
           input == k + 1
           n == k + 1 + c
           next == Reading(n, yes, m, p, s, b)
           u == State!Unserialize(m, data, input, size)
           is == data[k].is
           first == data[input]
<1>1. /\ r.at = k /\ r.ok /\ k \in 1..Len(data) /\ data[k] = State!Cell(tag, size, 0)
      /\ c >= 1 => first = State!Cell(tag, 1, of)
  <2>1. k \in 1..Len(data) /\ data[k] = State!Cell(tag, size, 0)
    BY DEF HasBlock
  <2>2. \A i \in 1..c : data[k + i] = State!Cell(tag, i, of)
    BY DEF HasBlock
  <2>3. c >= 1 => 1 \in 1..c
    OBVIOUS
  <2> HIDE DEF c
  <2>4. c >= 1 => first = State!Cell(tag, 1, of)
    BY <2>2, <2>3
  <2>5. r.at = k /\ r.ok
    <3>1. yes = TRUE
      OBVIOUS
    <3> HIDE DEF yes
    <3>2. r.at = k /\ r.ok = yes
      BY ReadingHas
    <3>3. QED  BY <3>1, <3>2
  <2>6. QED  BY <2>1, <2>4, <2>5
<1>2. is = tag /\ data[k].size = size
  <2>1. State!Cell(tag, size, 0).is = tag /\ State!Cell(tag, size, 0).size = size
    BY DEF State!Cell
  <2>2. QED  BY <1>1, <2>1
<1>3. c >= 1 => first.is = tag /\ first.of = of
  <2>1. State!Cell(tag, 1, of).is = tag /\ State!Cell(tag, 1, of).of = of
    BY DEF State!Cell
  <2> HIDE DEF first, c
  <2>2. QED  BY <1>1, <2>1
<1>4. [r EXCEPT !.at = State!BlockAfter(data, r.at)] = next
  <2>1. State!BlockAfter(data, r.at) = n
    BY <1>1, <1>2 DEF State!BlockAfter
  <2> DEFINE a == State!BlockAfter(data, r.at)
  <2>2. [r EXCEPT !.at = a] = Reading(a, yes, m, p, s, b)
    <3> HIDE DEF a, yes
    <3>1. [r EXCEPT !.at = a] \in Only(a, yes, m, p, s, b)
      BY DEF Reading, Only
    <3> DEFINE new == [r EXCEPT !.at = a]
    <3> HIDE DEF new
    <3>2. new = Reading(a, yes, m, p, s, b)
      BY <3>1, ReadingWith DEF new
    <3>3. QED  BY <3>2 DEF new
  <2> HIDE DEF n
  <2>3. QED  BY <2>1, <2>2
<1>5. ~(r.at > Len(data)) /\ r.machine = m
  <2>1. r.machine = m
    <3> HIDE DEF yes
    <3>1. QED  BY ReadingHas
  <2> HIDE DEF r
  <2>2. QED  BY <1>1, <2>1
<1>6. State!TakeBlock(r, data) =
        IF ~r.ok \/ r.at > Len(data) \/ data[r.at].is = EndTag THEN r
        ELSE IF data[r.at].is = MemoryTag
          THEN [[r EXCEPT !.at = State!BlockAfter(data, r.at)] EXCEPT
                  !.ok = State!Unserialize(r.machine, data, r.at + 1, data[r.at].size).ok,
                  !.machine = State!Unserialize(r.machine, data, r.at + 1, data[r.at].size).machine]
        ELSE IF data[r.at].is = ProgressTag
          THEN [[r EXCEPT !.at = State!BlockAfter(data, r.at)] EXCEPT
                  !.progress = State!RestoreState(data, r.at + 1), !.seen = TRUE]
        ELSE IF data[r.at].is = ScreenTag /\ data[r.at + 1].is = ScreenTag
          THEN [[r EXCEPT !.at = State!BlockAfter(data, r.at)] EXCEPT
                  !.screen = State!RestoreFrameBuffer(@, data[r.at + 1].of)]
        ELSE [r EXCEPT !.at = State!BlockAfter(data, r.at)]
  BY DEF State!TakeBlock, EndTag, MemoryTag, ProgressTag, ScreenTag
<1> HIDE DEF r
<1>7. State!TakeBlock(r, data) =
        IF tag = EndTag THEN r
        ELSE IF tag = MemoryTag THEN [next EXCEPT !.ok = u.ok, !.machine = u.machine]
        ELSE IF tag = ProgressTag
          THEN [next EXCEPT !.progress = State!RestoreState(data, input), !.seen = TRUE]
        ELSE IF tag = ScreenTag /\ first.is = ScreenTag
          THEN [next EXCEPT !.screen = State!RestoreFrameBuffer(@, first.of)]
        ELSE next
  <2> HIDE DEF next
  <2>1. QED  BY <1>1, <1>2, <1>4, <1>5, <1>6
<1> HIDE DEF u, first, n, is, input
<1>20. yes = TRUE
  OBVIOUS
<1> HIDE DEF yes
<1>8. [next EXCEPT !.ok = u.ok, !.machine = u.machine] = Reading(n, u.ok, u.machine, p, s, b)
  <2> DEFINE new == [next EXCEPT !.ok = u.ok, !.machine = u.machine]
  <2>1. new \in Only(n, u.ok, u.machine, p, s, b)
    BY DEF Reading, Only
  <2> HIDE DEF new
  <2>2. new = Reading(n, u.ok, u.machine, p, s, b)
    BY <2>1, ReadingWith
  <2>3. QED  BY <2>2 DEF new
<1>9. [next EXCEPT !.progress = of, !.seen = TRUE] = Reading(n, yes, m, of, s, yes)
  <2>1. [next EXCEPT !.progress = of, !.seen = yes] = Reading(n, yes, m, of, s, yes)
    <3> DEFINE new == [next EXCEPT !.progress = of, !.seen = yes]
    <3>1. new \in Only(n, yes, m, of, s, yes)
      BY DEF Reading, Only
    <3> HIDE DEF new
    <3>2. new = Reading(n, yes, m, of, s, yes)
      BY <3>1, ReadingWith
    <3>3. QED  BY <3>2 DEF new
  <2> HIDE DEF next
  <2>2. QED  BY <1>20, <2>1
<1>10. [next EXCEPT !.screen = State!RestoreFrameBuffer(@, of)]
         = Reading(n, yes, m, p, State!RestoreFrameBuffer(s, of), b)
  <2>1. [next EXCEPT !.screen = State!RestoreFrameBuffer(@, of)]
          = [next EXCEPT !.screen = State!RestoreFrameBuffer(next.screen, of)]
    OBVIOUS
  <2>2. next.screen = s
    BY ReadingHas
  <2> DEFINE t == State!RestoreFrameBuffer(s, of)
  <2>3. [next EXCEPT !.screen = t] = Reading(n, yes, m, p, t, b)
    <3> HIDE DEF t
    <3> DEFINE new == [next EXCEPT !.screen = t]
    <3>1. new \in Only(n, yes, m, p, t, b)
      BY DEF Reading, Only
    <3> HIDE DEF new
    <3>2. new = Reading(n, yes, m, p, t, b)
      BY <3>1, ReadingWith
    <3>3. QED  BY <3>2 DEF new
  <2> HIDE DEF next
  <2>4. QED  BY <2>1, <2>2, <2>3
<1>11. c >= 1 /\ tag = ProgressTag => State!RestoreState(data, input) = of
  <2>1. SUFFICES ASSUME c >= 1, tag = ProgressTag  PROVE State!RestoreState(data, input) = of
    OBVIOUS
  <2>2. first.is = ProgressTag /\ first.of = of
    BY <1>3, <2>1
  <2>3. QED  BY <2>2 DEF State!RestoreState, first, ProgressTag
<1> HIDE DEF next, c
<1>12. tag = EndTag => State!TakeBlock(r, data) = r
  BY <1>7
<1>13. tag = MemoryTag => State!TakeBlock(r, data) = Reading(n, u.ok, u.machine, p, s, b)
  BY <1>7, <1>8, TagsDiffer
<1>14. tag = OtherTag => State!TakeBlock(r, data) = next
  BY <1>7, TagsDiffer
<1>15. c >= 1 /\ tag = ProgressTag => State!TakeBlock(r, data) = Reading(n, yes, m, of, s, yes)
  BY <1>7, <1>9, <1>11, TagsDiffer
<1>16. c >= 1 /\ tag = ScreenTag =>
         State!TakeBlock(r, data) = Reading(n, yes, m, p, State!RestoreFrameBuffer(s, of), b)
  BY <1>3, <1>7, <1>10, TagsDiffer
<1>17. QED
  BY <1>12, <1>13, <1>14, <1>15, <1>16 DEF r, c, n, next, u, input, yes, TurnDoes, Yes

(* A load that was refused goes no further.                                  *)
LEMMA Refused ==
  ASSUME NEW data, NEW k, NEW m, NEW p, NEW s, NEW b
  PROVE  State!TakeBlock(Reading(k, No, m, p, s, b), data) = Reading(k, No, m, p, s, b)
<1> DEFINE r == Reading(k, No, m, p, s, b)
<1>1. ~r.ok
  BY DEF Reading, No
<1> HIDE DEF r
<1>2. State!TakeBlock(r, data) = r
  BY <1>1 DEF State!TakeBlock
<1>3. QED  BY <1>2 DEF r

(* The loop ends where three turns lead, if another changes nothing.         *)
Turns(data, r1, r2, k, done, m, p, s, b) ==
  /\ State!TakeBlock(Reading(2, Yes, machine, progress, screen, No), data) = r1
  /\ State!TakeBlock(r1, data) = r2
  /\ State!TakeBlock(r2, data) = Reading(k, done, m, p, s, b)
  /\ State!TakeBlock(Reading(k, done, m, p, s, b), data) = Reading(k, done, m, p, s, b)
Ends(data, k, done, m, p, s, b) ==
  /\ b = Yes => State!LoadRAState1(data) = Reading(k, done, m, p, s, b)
  /\ b = No => State!LoadRAState1(data) = Reading(k, done, m, 0, s, b)
LEMMA BlocksRun ==
  ASSUME NEW data, Len(data) \in Nat, Len(data) >= 3, NEW r1, NEW r2,
         NEW k, NEW done, NEW m, NEW p, NEW s, NEW b, Turns(data, r1, r2, k, done, m, p, s, b)
  PROVE  Ends(data, k, done, m, p, s, b)
<1> DEFINE N == Len(data)
           begun == Reading(2, Yes, machine, progress, screen, No)
           r3 == Reading(k, done, m, p, s, b)
           path == [n \in 0..N |->
                      IF n = 0 THEN begun ELSE IF n = 1 THEN r1 ELSE IF n = 2 THEN r2 ELSE r3]
           Next1(f, n) == IF n = 0 THEN begun ELSE State!TakeBlock(f[n - 1], data)
           Unrolls(f) == f = [n \in 0..N |-> Next1(f, n)]
           after == CHOOSE f : Unrolls(f)
<1>1. N \in Nat /\ N >= 3
  OBVIOUS
<1>2. begun = [at |-> Len(State!Identifier) + 1, ok |-> TRUE, machine |-> machine,
               progress |-> progress, screen |-> screen, seen |-> FALSE]
  <2>1. Len(State!Identifier) = 1
    BY DEF State!Identifier
  <2>2. QED  BY <2>1 DEF Reading, Yes, No
<1>3. State!LoadRAState1(data) = [after[N] EXCEPT !.progress = IF after[N].seen THEN @ ELSE 0]
  <2> HIDE DEF begun
  <2>1. QED  BY <1>2 DEF State!LoadRAState1
<1> HIDE DEF N, begun
<1>4. /\ State!TakeBlock(begun, data) = r1 /\ State!TakeBlock(r1, data) = r2
       /\ State!TakeBlock(r2, data) = r3 /\ State!TakeBlock(r3, data) = r3
  BY DEF begun, Turns
<1>5. r3.seen = b /\ r3.progress = p
  BY ReadingHas
<1>6. ASSUME NEW q  PROVE [r3 EXCEPT !.progress = q] = Reading(k, done, m, q, s, b)
  <2> DEFINE new == [r3 EXCEPT !.progress = q]
  <2>1. new \in Only(k, done, m, q, s, b)
    BY DEF Reading, Only
  <2> HIDE DEF new
  <2>2. new = Reading(k, done, m, q, s, b)
    BY <2>1, ReadingWith
  <2>3. QED  BY <2>2 DEF new
<1> HIDE DEF r3
<1>7. \A n \in 0..N : path[n] = Next1(path, n)
  <2>1. ASSUME NEW n \in 0..N  PROVE path[n] = Next1(path, n)
    <3>1. n # 0 => n - 1 \in 0..N
      BY <1>1
    <3>2. path[n] = IF n = 0 THEN begun ELSE IF n = 1 THEN r1 ELSE IF n = 2 THEN r2 ELSE r3
      OBVIOUS
    <3>3. n # 0 => path[n - 1] = IF n = 1 THEN begun ELSE IF n = 2 THEN r1
                                 ELSE IF n = 3 THEN r2 ELSE r3
      BY <1>1, <3>1
    <3> HIDE DEF path
    <3>4. CASE n = 0
      BY <3>2, <3>4
    <3>5. CASE n = 1
      BY <1>4, <3>2, <3>3, <3>5
    <3>6. CASE n = 2
      <4>1. path[n] = r2 /\ path[n - 1] = r1 /\ n # 0
        <5>1. n # 0 /\ n # 1
          BY <3>6
        <5>2. path[n] = r2
          BY <3>2, <3>6, <5>1
        <5>3. path[n - 1] = r1
          BY <3>3, <3>6, <5>1
        <5>4. QED  BY <5>1, <5>2, <5>3
      <4>2. QED  BY <1>4, <4>1
    <3>7. CASE n = 3
      <4>1. path[n] = r3 /\ path[n - 1] = r2 /\ n # 0
        <5>1. n # 0 /\ n # 1 /\ n # 2
          BY <3>7
        <5>2. path[n] = r3
          BY <3>2, <5>1
        <5>3. path[n - 1] = r2
          BY <3>3, <3>7, <5>1
        <5>4. QED  BY <5>1, <5>2, <5>3
      <4>2. QED  BY <1>4, <4>1
    <3>8. CASE n \notin {0, 1, 2, 3}
      BY <1>4, <3>2, <3>3, <3>8
    <3>9. QED  BY <3>4, <3>5, <3>6, <3>7, <3>8
  <2>2. QED  BY <2>1
<1>8. Unrolls(path)
  <2> HIDE DEF Next1
  <2>1. path = [n \in 0..N |-> path[n]]
    OBVIOUS
  <2>2. QED  BY <1>7, <2>1
<1>9. Unrolls(after)
  <2> HIDE DEF Unrolls, path
  <2>1. QED  BY <1>8
<1> HIDE DEF after
<1>10. \A n \in 0..N : after[n] = Next1(after, n)
  <2> HIDE DEF Next1
  <2>1. QED  BY <1>9
<1> DEFINE G == {n \in 0..N : after[n] = path[n]}
<1>11. 0 \in G
  <2>1. 0 \in 0..N
    BY <1>1
  <2>2. after[0] = Next1(after, 0) /\ path[0] = Next1(path, 0)
    <3> HIDE DEF Next1, path
    <3>1. QED  BY <1>7, <1>10, <2>1
  <2> HIDE DEF path
  <2>3. QED  BY <2>1, <2>2
<1>12. ASSUME NEW n \in 1..N, n - 1 \in G  PROVE n \in G
  <2>1. n \in 0..N /\ n # 0
    BY <1>1
  <2> HIDE DEF path
  <2>2. after[n - 1] = path[n - 1]
    BY <1>12
  <2>3. after[n] = path[n]
    BY <1>7, <1>10, <2>1, <2>2
  <2>4. QED  BY <2>1, <2>3
<1>13. after[N] = r3
  <2>1. N \in G
    <3> HIDE DEF G
    <3>1. N \in 0..N
      BY <1>1
    <3>2. QED  BY <1>1, <1>11, <1>12, <3>1, StepByStep
  <2>2. path[N] = r3
    <3>1. N \in 0..N /\ N # 0 /\ N # 1 /\ N # 2
      BY <1>1
    <3>2. QED  BY <3>1
  <2> HIDE DEF path
  <2>3. QED  BY <2>1, <2>2
<1> DEFINE end == IF r3.seen THEN r3.progress ELSE 0
<1>14. State!LoadRAState1(data) = Reading(k, done, m, end, s, b)
  <2>1. State!LoadRAState1(data) = [r3 EXCEPT !.progress = end]
    BY <1>3, <1>13
  <2> HIDE DEF end
  <2>2. QED  BY <1>6, <2>1
<1>15. (b = TRUE => end = p) /\ (b = FALSE => end = 0)
  BY <1>5
<1> HIDE DEF end
<1>16. QED  BY <1>14, <1>15 DEF Ends, Yes, No

-----------------------------------------------------------------------------
(* The files.                                                                *)

(* What a save with a core, achievements and a picture is, and what          *)
(* RetroArch leaves.                                                         *)
OwnFile(m, p, image) ==
  State!Identifier \o State!Block(MemoryTag, m.size, m.at) \o State!CheevosBlock(p)
    \o State!Block(ScreenTag, 5, image) \o State!EndBlock
RetroArchFile(m, p) ==
  State!Identifier \o State!Block(MemoryTag, m.size, m.at) \o State!Block(OtherTag, 9, 0)
    \o State!CheevosBlock(p) \o State!EndBlock

(* What is loaded of a core's file: everything, if it is one of this core's  *)
(* version, and nothing if not.                                              *)
Loads(data, m, p, s) ==
  /\ m.size = machine.size => \E k, b : State!LoadRAState1(data) = Reading(k, Yes, m, p, s, b)
  /\ m.size # machine.size =>
       \E k, b : State!LoadRAState1(data) = Reading(k, No, machine, 0, screen, b)

(* The first of a file's cells.                                              *)
LEMMA BeginsOwn ==
  ASSUME NEW V, 0 \in V
  PROVE  /\ State!Identifier \in StateFiles(V) /\ State!Identifier # <<>>
         /\ Len(State!Identifier) = 1 /\ State!Identifier[1].is = OwnTag
<1>1. State!Cell(OwnTag, 1, 0) \in CellsOf(V) /\ State!Cell(OwnTag, 1, 0).is = OwnTag
  BY TagsDiffer DEF State!Cell, CellsOf
<1> DEFINE cell == State!Cell(OwnTag, 1, 0)
<1>2. State!Identifier = <<cell>>
  BY DEF State!Identifier, OwnTag
<1> HIDE DEF cell
<1>3. cell \in CellsOf(V) /\ cell.is = OwnTag
  BY <1>1 DEF cell
<1>4. QED  BY <1>2, <1>3 DEF StateFiles

(* The loop at the memory, which is taken or refused.                        *)
MemoryDone(data, m) ==
  LET begun == Reading(2, Yes, machine, progress, screen, No)
      n == 3 + State!Cells(m.size)
  IN /\ m.size = machine.size => State!TakeBlock(begun, data) = Reading(n, Yes, m, progress, screen, No)
     /\ m.size # machine.size =>
          State!TakeBlock(begun, data) = Reading(n, No, machine, progress, screen, No)
LEMMA MemoryTurn ==
  ASSUME machine \in Machines, NEW V, 0 \in V, NEW data \in StateFiles(V),
         NEW m \in Machines, m.at \in V, HasBlock(data, 2, MemoryTag, m.size, m.at)
  PROVE  MemoryDone(data, m)
<1> DEFINE c == State!Cells(m.size)
           u == State!Unserialize(machine, data, 3, m.size)
<1>1. m.size \in Sizes /\ m.size \in Nat /\ m = [size |-> m.size, at |-> m.at] /\ c \in Nat
  <2>1. m.size \in Sizes /\ m = [size |-> m.size, at |-> m.at]
    BY DEF Machines
  <2>2. m.size \in Nat
    BY <2>1, StateAssumption
  <2>3. QED  BY <2>1, <2>2, CellsAre
<1>2. /\ 2 + c <= Len(data) /\ Len(data) \in Nat
      /\ \A i \in 1..c : data[2 + i] = State!Cell(MemoryTag, i, m.at)
  <2>1. 2 + c <= Len(data) /\ \A i \in 1..c : data[2 + i] = State!Cell(MemoryTag, i, m.at)
    BY DEF HasBlock
  <2> HIDE DEF c
  <2>2. data \in Seq(CellsOf(V))
    BY DEF StateFiles
  <2>3. QED  BY <2>1, <2>2
<1>3. State!TakeBlock(Reading(2, Yes, machine, progress, screen, No), data)
        = Reading(2 + 1 + c, State!Unserialize(machine, data, 2 + 1, m.size).ok,
                  State!Unserialize(machine, data, 2 + 1, m.size).machine, progress, screen, No)
  <2>1. TurnDoes(data, 2, machine, progress, screen, No, MemoryTag, m.size, m.at)
    BY <1>1, <1>2, TurnIs
  <2>2. QED  BY <2>1 DEF TurnDoes
<1>4. 2 + 1 = 3 /\ 2 + 1 + c = 3 + c
  <2> HIDE DEF c
  <2>1. QED  BY <1>1
<1>5. /\ m.size = machine.size => State!Unserialize(machine, data, 2 + 1, m.size) = [ok |-> TRUE, machine |-> m]
      /\ m.size # machine.size => State!Unserialize(machine, data, 2 + 1, m.size) = [ok |-> FALSE, machine |-> machine]
  <2> DEFINE size == m.size
             of == m.at
  <2>1. size \in Sizes /\ of \in V /\ 2 + State!Cells(size) <= Len(data)
        /\ \A i \in 1..State!Cells(size) : data[2 + i] = State!Cell(MemoryTag, i, of)
    BY <1>1, <1>2
  <2> HIDE DEF size, of
  <2>2. Takes(machine, data, 2, size, of)
    BY <2>1, TakesItsOwn
  <2>3. [size |-> size, at |-> of] = m
    BY <1>1 DEF size, of
  <2>4. size = m.size
    BY DEF size
  <2>5. QED  BY <2>2, <2>3, <2>4 DEF Takes
<1> DEFINE v == State!Unserialize(machine, data, 2 + 1, m.size)
<1>6. /\ m.size = machine.size => v.ok = Yes /\ v.machine = m
      /\ m.size # machine.size => v.ok = No /\ v.machine = machine
  <2> HIDE DEF v
  <2>1. m.size = machine.size => v = [ok |-> TRUE, machine |-> m]
    BY <1>5 DEF v
  <2>2. m.size # machine.size => v = [ok |-> FALSE, machine |-> machine]
    BY <1>5 DEF v
  <2>3. QED  BY <2>1, <2>2 DEF Yes, No
<1> HIDE DEF v, c
<1>7. QED  BY <1>3, <1>4, <1>6 DEF MemoryDone, v, c

(* Where the achievements' block would be.                                   *)
CheevosFollow(V, data, more, p) ==
  /\ more \in StateFiles(V) /\ more # <<>> /\ more[1] = data[1]
  /\ p = 0 => more = data
  /\ p # 0 => /\ Len(more) = Len(data) + 1 + State!Cells(12)
              /\ HasBlock(more, Len(data) + 1, ProgressTag, 12, p)
  /\ Kept(data, more)
LEMMA GoesOnWithCheevos ==
  ASSUME NEW V, 0 \in V, NEW data \in StateFiles(V), data # <<>>, NEW p \in V
  PROVE  CheevosFollow(V, data, data \o State!CheevosBlock(p), p)
<1> DEFINE more == data \o State!CheevosBlock(p)
<1>1. CASE p = 0
  <2>1. State!CheevosBlock(p) = <<>>
    BY <1>1 DEF State!CheevosBlock
  <2>2. data \o <<>> = data
    BY ConcatEmptySeq DEF StateFiles
  <2>3. Kept(data, data)
    BY DEF Kept
  <2>4. QED  BY <1>1, <2>1, <2>2, <2>3 DEF CheevosFollow
<1>2. CASE p # 0
  <2>1. State!CheevosBlock(p) = State!Block(ProgressTag, 12, p)
    BY <1>2 DEF State!CheevosBlock, ProgressTag
  <2>2. ProgressTag \in Tags /\ 12 \in Nat
    BY TagsDiffer
  <2>3. more = data \o State!Block(ProgressTag, 12, p)
    BY <2>1
  <2>4. GrownBy(V, data, data \o State!Block(ProgressTag, 12, p), ProgressTag, 12, p)
    BY <2>2, GoesOn
  <2>5. QED  BY <1>2, <2>3, <2>4 DEF GrownBy, CheevosFollow
<1>3. QED  BY <1>1, <1>2

(* A file of this program's is loaded.                                       *)
LEMMA OwnLoads ==
  ASSUME machine \in Machines, NEW m \in Machines, NEW p, NEW image
  PROVE  /\ OwnFile(m, p, image)[1].is = OwnTag /\ OwnFile(m, p, image) # <<>>
         /\ OwnFile(m, p, image) \in StateFiles({0, m.at, p, image})
         /\ Loads(OwnFile(m, p, image), m, p, State!RestoreFrameBuffer(screen, image))
<1> DEFINE V == {0, m.at, p, image}
           d1 == State!Identifier
           d2 == d1 \o State!Block(MemoryTag, m.size, m.at)
           d3 == d2 \o State!CheevosBlock(p)
           d4 == d3 \o State!Block(ScreenTag, 5, image)
           d5 == d4 \o State!EndBlock
           c == State!Cells(m.size)
           a == State!Cells(12)
           i == State!Cells(5)
           new == State!RestoreFrameBuffer(screen, image)
           q == progress
           begun == Reading(2, Yes, machine, q, screen, No)
           F == StateFiles(V)
<1>1. m.size \in Nat /\ c \in Nat /\ c >= 1 /\ a \in Nat /\ a >= 1 /\ i \in Nat /\ i >= 1
      /\ State!Cells(0) = 0
  <2>1. m.size \in Sizes
    BY DEF Machines
  <2>2. m.size \in Nat \ {0}
    BY <2>1, StateAssumption
  <2>3. QED  BY <2>2, CellsAre
<1>2. 0 \in V /\ m.at \in V /\ p \in V /\ image \in V
  OBVIOUS
<1>3. OwnFile(m, p, image) = d5 /\ State!EndBlock = State!Block(EndTag, 0, 0)
  BY DEF OwnFile, State!EndBlock, EndTag
<1> HIDE DEF V
<1>4. d1 \in F /\ d1 # <<>> /\ Len(d1) = 1 /\ d1[1].is = OwnTag
  BY <1>2, BeginsOwn
<1>5. /\ d2 \in F /\ d2 # <<>> /\ Len(d2) = 1 + 1 + c /\ d2[1] = d1[1]
      /\ HasBlock(d2, 2, MemoryTag, m.size, m.at)
  <2> HIDE DEF d1
  <2>1. MemoryTag \in Tags
    BY TagsDiffer
  <2>2. GrownBy(V, d1, d2, MemoryTag, m.size, m.at)
    BY <1>1, <1>2, <1>4, <2>1, GoesOn
  <2> HIDE DEF d2, c
  <2>3. /\ d2 \in F /\ d2 # <<>> /\ Len(d2) = Len(d1) + 1 + c /\ d2[1] = d1[1]
        /\ HasBlock(d2, Len(d1) + 1, MemoryTag, m.size, m.at)
    BY <2>2 DEF GrownBy, c
  <2>4. Len(d1) + 1 = 2 /\ Len(d1) + 1 + c = 1 + 1 + c
    BY <1>4
  <2>5. QED  BY <2>3, <2>4
<1>6. /\ d3 \in F /\ d3 # <<>> /\ d3[1] = d1[1]
      /\ HasBlock(d3, 2, MemoryTag, m.size, m.at)
      /\ p = 0 => Len(d3) = 2 + c
      /\ p # 0 => Len(d3) = 3 + c + a /\ HasBlock(d3, 3 + c, ProgressTag, 12, p)
  <2> HIDE DEF d2
  <2>4. CheevosFollow(V, d2, d3, p)
    BY <1>2, <1>5, GoesOnWithCheevos
  <2> HIDE DEF d3
  <2>1. /\ d3 \in F /\ d3 # <<>> /\ d3[1] = d2[1]
        /\ p = 0 => d3 = d2
        /\ p # 0 => Len(d3) = Len(d2) + 1 + a /\ HasBlock(d3, Len(d2) + 1, ProgressTag, 12, p)
        /\ HasBlock(d3, 2, MemoryTag, m.size, m.at)
    BY <1>1, <1>5, <2>4 DEF CheevosFollow, Kept
  <2> HIDE DEF c, a
  <2>2. Len(d2) = 2 + c /\ Len(d2) + 1 = 3 + c /\ Len(d2) + 1 + a = 3 + c + a
    BY <1>1, <1>5
  <2>3. QED  BY <1>5, <2>1, <2>2
<1>7. /\ d4 \in F /\ d4 # <<>> /\ d4[1] = d1[1] /\ Len(d4) = Len(d3) + 1 + i
      /\ HasBlock(d4, 2, MemoryTag, m.size, m.at)
      /\ p # 0 => HasBlock(d4, 3 + c, ProgressTag, 12, p)
      /\ HasBlock(d4, Len(d3) + 1, ScreenTag, 5, image)
  <2> HIDE DEF d3
  <2>1. ScreenTag \in Tags /\ 5 \in Nat
    BY TagsDiffer
  <2>2. GrownBy(V, d3, d4, ScreenTag, 5, image)
    BY <1>2, <1>6, <2>1, GoesOn
  <2> HIDE DEF d4
  <2>3. QED  BY <1>1, <1>6, <2>2 DEF GrownBy, Kept
<1>8. /\ d5 \in F /\ d5 # <<>> /\ d5[1] = d1[1] /\ Len(d5) \in Nat /\ Len(d5) >= 3
      /\ HasBlock(d5, 2, MemoryTag, m.size, m.at)
      /\ p # 0 => HasBlock(d5, 3 + c, ProgressTag, 12, p)
      /\ HasBlock(d5, Len(d3) + 1, ScreenTag, 5, image)
      /\ HasBlock(d5, Len(d3) + 1 + i + 1, EndTag, 0, 0)
  <2> HIDE DEF d3, d4
  <2>1. EndTag \in Tags /\ 0 \in Nat
    BY TagsDiffer
  <2>2. GrownBy(V, d4, d4 \o State!Block(EndTag, 0, 0), EndTag, 0, 0)
    BY <1>2, <1>7, <2>1, GoesOn
  <2>3. GrownBy(V, d4, d5, EndTag, 0, 0)
    BY <1>3, <2>2
  <2> HIDE DEF d5
  <2>4. /\ d5 \in F /\ d5 # <<>> /\ d5[1] = d4[1] /\ Len(d5) = Len(d4) + 1 + State!Cells(0)
        /\ HasBlock(d5, Len(d4) + 1, EndTag, 0, 0) /\ Kept(d4, d5)
    BY <2>3 DEF GrownBy
  <2>5. d3 \in Seq(CellsOf(V)) /\ d3 # <<>>
    BY <1>6 DEF StateFiles
  <2>6. Len(d3) \in Nat /\ Len(d3) >= 1
    BY <2>5
  <2> HIDE DEF i, c, a
  <2>7. Len(d5) \in Nat /\ Len(d5) >= 3
    BY <1>1, <1>7, <2>4, <2>6
  <2>8. /\ HasBlock(d5, 2, MemoryTag, m.size, m.at)
        /\ p # 0 => HasBlock(d5, 3 + c, ProgressTag, 12, p)
        /\ HasBlock(d5, Len(d3) + 1, ScreenTag, 5, image)
    BY <1>1, <1>7, <2>4 DEF Kept, c, i, a
  <2>9. QED  BY <1>7, <2>4, <2>7, <2>8
<1> HIDE DEF d1, d2, d3, d4, d5, F
<1>9. /\ m.size = machine.size => State!TakeBlock(begun, d5) = Reading(3 + c, Yes, m, q, screen, No)
      /\ m.size # machine.size =>
           State!TakeBlock(begun, d5) = Reading(3 + c, No, machine, q, screen, No)
  <2>1. MemoryDone(d5, m)
    BY <1>2, <1>8, MemoryTurn DEF F
  <2>2. QED  BY <2>1 DEF MemoryDone
<1>10. CASE m.size # machine.size
  <2> DEFINE r == Reading(3 + c, No, machine, q, screen, No)
  <2>1. State!TakeBlock(begun, d5) = r
    BY <1>9, <1>10
  <2>2. State!TakeBlock(r, d5) = r
    BY Refused
  <2> HIDE DEF c
  <2>3. Turns(d5, r, r, 3 + c, No, machine, q, screen, No)
    BY <2>1, <2>2 DEF Turns
  <2>4. Ends(d5, 3 + c, No, machine, q, screen, No)
    <3> HIDE DEF r
    <3>1. QED  BY <1>8, <2>3, BlocksRun
  <2>5. State!LoadRAState1(d5) = Reading(3 + c, No, machine, 0, screen, No)
    BY <2>4 DEF Ends
  <2>6. Loads(d5, m, p, new)
    BY <1>10, <2>5 DEF Loads
  <2>7. QED  BY <1>3, <1>4, <1>8, <2>6 DEF F, V
<1>11. CASE m.size = machine.size
  <2> DEFINE r1 == Reading(3 + c, Yes, m, q, screen, No)
  <2>1. State!TakeBlock(begun, d5) = r1
    BY <1>9, <1>11
  <2>2. ASSUME NEW k, NEW x, NEW b, k = Len(d3) + 1
        PROVE  State!TakeBlock(Reading(k, Yes, m, x, screen, b), d5)
                 = Reading(k + 1 + i, Yes, m, x, new, b)
    <3>1. TurnDoes(d5, k, m, x, screen, b, ScreenTag, 5, image)
      BY <1>1, <1>8, <2>2, TurnIs
    <3>2. QED  BY <1>1, <3>1 DEF TurnDoes
  <2>3. ASSUME NEW k, NEW x, NEW b, k = Len(d3) + 1 + i + 1
        PROVE  State!TakeBlock(Reading(k, Yes, m, x, new, b), d5) = Reading(k, Yes, m, x, new, b)
    <3>1. TurnDoes(d5, k, m, x, new, b, EndTag, 0, 0)
      BY <1>1, <1>8, <2>3, TurnIs
    <3>2. QED  BY <3>1 DEF TurnDoes
  <2>4. CASE p = 0
    <3> DEFINE k2 == 3 + c + 1 + i
               r2 == Reading(k2, Yes, m, q, new, No)
    <3>1. 3 + c = Len(d3) + 1 /\ k2 = Len(d3) + 1 + i + 1
      <4>1. Len(d3) = 2 + c
        BY <1>6, <2>4
      <4> HIDE DEF i, c
      <4>2. QED  BY <1>1, <4>1
    <3>2. State!TakeBlock(r1, d5) = r2
      <4> HIDE DEF i, c
      <4>1. QED  BY <2>2, <3>1
    <3> HIDE DEF k2
    <3>3. State!TakeBlock(r2, d5) = r2
      <4> HIDE DEF i, c
      <4>1. QED  BY <2>3, <3>1
    <3>4. Turns(d5, r1, r2, k2, Yes, m, q, new, No)
      BY <2>1, <3>2, <3>3 DEF Turns
    <3>5. Ends(d5, k2, Yes, m, q, new, No)
      <4> HIDE DEF r1, r2
      <4>1. QED  BY <1>8, <3>4, BlocksRun
    <3>6. State!LoadRAState1(d5) = Reading(k2, Yes, m, p, new, No)
      BY <2>4, <3>5 DEF Ends
    <3>7. Loads(d5, m, p, new)
      BY <1>11, <3>6 DEF Loads
    <3>8. QED  BY <1>3, <1>4, <1>8, <3>7 DEF F, V
  <2>5. CASE p # 0
    <3> DEFINE k2 == 3 + c + 1 + a
               k3 == k2 + 1 + i
               r2 == Reading(k2, Yes, m, p, screen, Yes)
               r3 == Reading(k3, Yes, m, p, new, Yes)
    <3>1. k2 = Len(d3) + 1 /\ k3 = Len(d3) + 1 + i + 1
      <4>1. Len(d3) = 3 + c + a
        BY <1>6, <2>5
      <4> HIDE DEF i, c, a
      <4>2. QED  BY <1>1, <4>1
    <3>2. State!TakeBlock(r1, d5) = r2
      <4>1. HasBlock(d5, 3 + c, ProgressTag, 12, p)
        BY <1>8, <2>5
      <4>2. TurnDoes(d5, 3 + c, m, q, screen, No, ProgressTag, 12, p)
        BY <1>1, <1>8, <4>1, TurnIs
      <4>3. QED  BY <1>1, <4>2 DEF TurnDoes
    <3>3. State!TakeBlock(r2, d5) = r3
      <4> HIDE DEF k2, i
      <4>1. QED  BY <2>2, <3>1
    <3> HIDE DEF k2, k3
    <3>4. State!TakeBlock(r3, d5) = r3
      <4> HIDE DEF i
      <4>1. QED  BY <2>3, <3>1
    <3>5. Turns(d5, r1, r2, k3, Yes, m, p, new, Yes)
      BY <2>1, <3>2, <3>3, <3>4 DEF Turns
    <3>6. Ends(d5, k3, Yes, m, p, new, Yes)
      <4> HIDE DEF r1, r2
      <4>1. QED  BY <1>8, <3>5, BlocksRun
    <3>7. State!LoadRAState1(d5) = Reading(k3, Yes, m, p, new, Yes)
      BY <3>6 DEF Ends
    <3>8. Loads(d5, m, p, new)
      BY <1>11, <3>7 DEF Loads
    <3>9. QED  BY <1>3, <1>4, <1>8, <3>8 DEF F, V
  <2>6. QED  BY <2>4, <2>5
<1>12. QED  BY <1>10, <1>11

(* A file of RetroArch's is loaded.                                          *)
LEMMA RetroArchLoads ==
  ASSUME machine \in Machines, NEW m \in Machines, NEW p
  PROVE  /\ RetroArchFile(m, p)[1].is = OwnTag /\ RetroArchFile(m, p) # <<>>
         /\ RetroArchFile(m, p) \in StateFiles({0, m.at, p})
         /\ Loads(RetroArchFile(m, p), m, p, screen)
<1> DEFINE V == {0, m.at, p}
           d1 == State!Identifier
           d2 == d1 \o State!Block(MemoryTag, m.size, m.at)
           d3 == d2 \o State!Block(OtherTag, 9, 0)
           d4 == d3 \o State!CheevosBlock(p)
           d5 == d4 \o State!EndBlock
           c == State!Cells(m.size)
           a == State!Cells(12)
           i == State!Cells(9)
           q == progress
           begun == Reading(2, Yes, machine, q, screen, No)
           F == StateFiles(V)
<1>1. m.size \in Nat /\ c \in Nat /\ c >= 1 /\ a \in Nat /\ a >= 1 /\ i \in Nat
      /\ State!Cells(0) = 0
  <2>1. m.size \in Sizes
    BY DEF Machines
  <2>2. m.size \in Nat \ {0}
    BY <2>1, StateAssumption
  <2>3. QED  BY <2>2, CellsAre
<1>2. 0 \in V /\ m.at \in V /\ p \in V
  OBVIOUS
<1>3. RetroArchFile(m, p) = d5 /\ State!EndBlock = State!Block(EndTag, 0, 0)
  BY DEF RetroArchFile, State!EndBlock, EndTag
<1> HIDE DEF V
<1>4. d1 \in F /\ d1 # <<>> /\ Len(d1) = 1 /\ d1[1].is = OwnTag
  BY <1>2, BeginsOwn
<1>5. /\ d2 \in F /\ d2 # <<>> /\ Len(d2) = 1 + 1 + c /\ d2[1] = d1[1]
      /\ HasBlock(d2, 2, MemoryTag, m.size, m.at)
  <2> HIDE DEF d1
  <2>1. MemoryTag \in Tags
    BY TagsDiffer
  <2>2. GrownBy(V, d1, d2, MemoryTag, m.size, m.at)
    BY <1>1, <1>2, <1>4, <2>1, GoesOn
  <2> HIDE DEF d2, c
  <2>3. /\ d2 \in F /\ d2 # <<>> /\ Len(d2) = Len(d1) + 1 + c /\ d2[1] = d1[1]
        /\ HasBlock(d2, Len(d1) + 1, MemoryTag, m.size, m.at)
    BY <2>2 DEF GrownBy, c
  <2>4. Len(d1) + 1 = 2 /\ Len(d1) + 1 + c = 1 + 1 + c
    BY <1>4
  <2>5. QED  BY <2>3, <2>4
<1>6. /\ d3 \in F /\ d3 # <<>> /\ d3[1] = d1[1] /\ Len(d3) = 3 + c + i
      /\ HasBlock(d3, 2, MemoryTag, m.size, m.at)
      /\ HasBlock(d3, 3 + c, OtherTag, 9, 0)
  <2> HIDE DEF d2
  <2>1. OtherTag \in Tags /\ 9 \in Nat
    BY TagsDiffer
  <2>2. GrownBy(V, d2, d3, OtherTag, 9, 0)
    BY <1>2, <1>5, <2>1, GoesOn
  <2> HIDE DEF d3
  <2>3. /\ d3 \in F /\ d3 # <<>> /\ d3[1] = d2[1] /\ Len(d3) = Len(d2) + 1 + i
        /\ HasBlock(d3, Len(d2) + 1, OtherTag, 9, 0)
        /\ HasBlock(d3, 2, MemoryTag, m.size, m.at)
    BY <1>1, <1>5, <2>2 DEF GrownBy, Kept
  <2> HIDE DEF c, i
  <2>4. Len(d2) + 1 = 3 + c /\ Len(d2) + 1 + i = 3 + c + i
    BY <1>1, <1>5
  <2>5. QED  BY <1>5, <2>3, <2>4
<1>7. /\ d4 \in F /\ d4 # <<>> /\ d4[1] = d1[1]
      /\ HasBlock(d4, 2, MemoryTag, m.size, m.at)
      /\ HasBlock(d4, 3 + c, OtherTag, 9, 0)
      /\ p = 0 => Len(d4) = 3 + c + i
      /\ p # 0 => Len(d4) = 4 + c + i + a /\ HasBlock(d4, 4 + c + i, ProgressTag, 12, p)
  <2> HIDE DEF d3
  <2>1. CheevosFollow(V, d3, d4, p)
    BY <1>2, <1>6, GoesOnWithCheevos
  <2> HIDE DEF d4
  <2>2. /\ d4 \in F /\ d4 # <<>> /\ d4[1] = d3[1]
        /\ p = 0 => d4 = d3
        /\ p # 0 => Len(d4) = Len(d3) + 1 + a /\ HasBlock(d4, Len(d3) + 1, ProgressTag, 12, p)
    BY <2>1 DEF CheevosFollow
  <2>3. HasBlock(d4, 2, MemoryTag, m.size, m.at) /\ HasBlock(d4, 3 + c, OtherTag, 9, 0)
    BY <1>1, <1>6, <2>1 DEF CheevosFollow, Kept
  <2> HIDE DEF c, a, i
  <2>4. Len(d3) + 1 = 4 + c + i /\ Len(d3) + 1 + a = 4 + c + i + a
    BY <1>1, <1>6
  <2>5. QED  BY <1>6, <2>2, <2>3, <2>4
<1>8. /\ d5 \in F /\ d5 # <<>> /\ d5[1] = d1[1] /\ Len(d5) \in Nat /\ Len(d5) >= 3
      /\ HasBlock(d5, 2, MemoryTag, m.size, m.at)
      /\ HasBlock(d5, 3 + c, OtherTag, 9, 0)
      /\ p # 0 => HasBlock(d5, 4 + c + i, ProgressTag, 12, p)
      /\ HasBlock(d5, Len(d4) + 1, EndTag, 0, 0)
  <2> HIDE DEF d3, d4
  <2>1. EndTag \in Tags /\ 0 \in Nat
    BY TagsDiffer
  <2>2. GrownBy(V, d4, d4 \o State!Block(EndTag, 0, 0), EndTag, 0, 0)
    BY <1>2, <1>7, <2>1, GoesOn
  <2>3. GrownBy(V, d4, d5, EndTag, 0, 0)
    BY <1>3, <2>2
  <2> HIDE DEF d5
  <2>4. /\ d5 \in F /\ d5 # <<>> /\ d5[1] = d4[1] /\ Len(d5) = Len(d4) + 1 + State!Cells(0)
        /\ HasBlock(d5, Len(d4) + 1, EndTag, 0, 0) /\ Kept(d4, d5)
    BY <2>3 DEF GrownBy
  <2> HIDE DEF i, c, a
  <2>5. Len(d5) \in Nat /\ Len(d5) >= 3
    BY <1>1, <1>7, <2>4
  <2>6. /\ HasBlock(d5, 2, MemoryTag, m.size, m.at) /\ HasBlock(d5, 3 + c, OtherTag, 9, 0)
        /\ p # 0 => HasBlock(d5, 4 + c + i, ProgressTag, 12, p)
    BY <1>1, <1>7, <2>4 DEF Kept, c, i, a
  <2>7. QED  BY <1>7, <2>4, <2>5, <2>6
<1> HIDE DEF d1, d2, d3, d4, d5, F
<1>9. /\ m.size = machine.size => State!TakeBlock(begun, d5) = Reading(3 + c, Yes, m, q, screen, No)
      /\ m.size # machine.size =>
           State!TakeBlock(begun, d5) = Reading(3 + c, No, machine, q, screen, No)
  <2>1. MemoryDone(d5, m)
    BY <1>2, <1>8, MemoryTurn DEF F
  <2>2. QED  BY <2>1 DEF MemoryDone
<1>10. CASE m.size # machine.size
  <2> DEFINE r == Reading(3 + c, No, machine, q, screen, No)
  <2>1. State!TakeBlock(begun, d5) = r
    BY <1>9, <1>10
  <2>2. State!TakeBlock(r, d5) = r
    BY Refused
  <2> HIDE DEF c
  <2>3. Turns(d5, r, r, 3 + c, No, machine, q, screen, No)
    BY <2>1, <2>2 DEF Turns
  <2>4. Ends(d5, 3 + c, No, machine, q, screen, No)
    <3> HIDE DEF r
    <3>1. QED  BY <1>8, <2>3, BlocksRun
  <2>5. State!LoadRAState1(d5) = Reading(3 + c, No, machine, 0, screen, No)
    BY <2>4 DEF Ends
  <2>6. Loads(d5, m, p, screen)
    BY <1>10, <2>5 DEF Loads
  <2>7. QED  BY <1>3, <1>4, <1>8, <2>6 DEF F, V
<1>11. CASE m.size = machine.size
  <2> DEFINE k2 == 3 + c + 1 + i
             r1 == Reading(3 + c, Yes, m, q, screen, No)
             r2 == Reading(k2, Yes, m, q, screen, No)
  <2>1. State!TakeBlock(begun, d5) = r1
    BY <1>9, <1>11
  <2>2. State!TakeBlock(r1, d5) = r2
    <3>1. TurnDoes(d5, 3 + c, m, q, screen, No, OtherTag, 9, 0)
      BY <1>1, <1>8, TurnIs
    <3>2. QED  BY <3>1 DEF TurnDoes
  <2>3. ASSUME NEW k, NEW x, NEW b, k = Len(d4) + 1
        PROVE  State!TakeBlock(Reading(k, Yes, m, x, screen, b), d5) = Reading(k, Yes, m, x, screen, b)
    <3>1. TurnDoes(d5, k, m, x, screen, b, EndTag, 0, 0)
      BY <1>1, <1>8, <2>3, TurnIs
    <3>2. QED  BY <3>1 DEF TurnDoes
  <2>4. CASE p = 0
    <3>1. k2 = Len(d4) + 1
      <4>1. Len(d4) = 3 + c + i
        BY <1>7, <2>4
      <4> HIDE DEF i, c
      <4>2. QED  BY <1>1, <4>1
    <3> HIDE DEF k2, c
    <3>2. State!TakeBlock(r2, d5) = r2
      BY <2>3, <3>1
    <3>3. Turns(d5, r1, r2, k2, Yes, m, q, screen, No)
      BY <2>1, <2>2, <3>2 DEF Turns
    <3>4. Ends(d5, k2, Yes, m, q, screen, No)
      <4> HIDE DEF r1, r2
      <4>1. QED  BY <1>8, <3>3, BlocksRun
    <3>5. State!LoadRAState1(d5) = Reading(k2, Yes, m, p, screen, No)
      BY <2>4, <3>4 DEF Ends
    <3>6. Loads(d5, m, p, screen)
      BY <1>11, <3>5 DEF Loads
    <3>7. QED  BY <1>3, <1>4, <1>8, <3>6 DEF F, V
  <2>5. CASE p # 0
    <3> DEFINE k3 == k2 + 1 + a
               r3 == Reading(k3, Yes, m, p, screen, Yes)
    <3>1. k2 = 4 + c + i /\ k3 = Len(d4) + 1
      <4>1. Len(d4) = 4 + c + i + a
        BY <1>7, <2>5
      <4> HIDE DEF i, c, a
      <4>2. QED  BY <1>1, <4>1
    <3>2. State!TakeBlock(r2, d5) = r3
      <4>1. HasBlock(d5, k2, ProgressTag, 12, p)
        BY <1>8, <2>5, <3>1
      <4> HIDE DEF k2
      <4>2. TurnDoes(d5, k2, m, q, screen, No, ProgressTag, 12, p)
        BY <1>1, <1>8, <4>1, TurnIs
      <4>3. QED  BY <1>1, <4>2 DEF TurnDoes
    <3> HIDE DEF k2, k3, c
    <3>3. State!TakeBlock(r3, d5) = r3
      BY <2>3, <3>1
    <3>4. Turns(d5, r1, r2, k3, Yes, m, p, screen, Yes)
      BY <2>1, <2>2, <3>2, <3>3 DEF Turns
    <3>5. Ends(d5, k3, Yes, m, p, screen, Yes)
      <4> HIDE DEF r1, r2
      <4>1. QED  BY <1>8, <3>4, BlocksRun
    <3>6. State!LoadRAState1(d5) = Reading(k3, Yes, m, p, screen, Yes)
      BY <3>5 DEF Ends
    <3>7. Loads(d5, m, p, screen)
      BY <1>11, <3>6 DEF Loads
    <3>8. QED  BY <1>3, <1>4, <1>8, <3>7 DEF F, V
  <2>6. QED  BY <2>4, <2>5
<1>12. QED  BY <1>10, <1>11

(* The memory alone, as it was kept before there were blocks.                *)
MemoryIs(data, m) ==
  LET u == State!Unserialize(machine, data, 1, m.size)
  IN /\ data \in StateFiles({0, m.at}) /\ data # <<>> /\ data[1].is = MemoryTag
     /\ Len(data) = State!Cells(m.size)
     /\ machine.size = m.size => u = [ok |-> TRUE, machine |-> m]
     /\ machine.size # m.size => u = [ok |-> FALSE, machine |-> machine]
LEMMA MemoryLoads ==
  ASSUME machine \in Machines, NEW m \in Machines
  PROVE  MemoryIs(State!Memory(m), m)
<1> DEFINE V == {0, m.at}
           c == State!Cells(m.size)
           data == State!Memory(m)
           u == State!Unserialize(machine, data, 1, m.size)
<1>1. m.size \in Sizes /\ m.size \in Nat /\ m = [size |-> m.size, at |-> m.at] /\ c \in Nat /\ c >= 1
  <2>1. m.size \in Sizes /\ m = [size |-> m.size, at |-> m.at]
    BY DEF Machines
  <2>2. m.size \in Nat \ {0}
    BY <2>1, StateAssumption
  <2>3. QED  BY <2>1, <2>2, CellsAre
<1>2. 0 \in V /\ m.at \in V /\ MemoryTag \in Tags
  BY TagsDiffer
<1> HIDE DEF V
<1>3. data = Filled(MemoryTag, c, m.at)
  <2>1. data = Tail(State!Block(MemoryTag, m.size, m.at))
    BY DEF State!Memory, MemoryTag
  <2>2. Tail(State!Block(MemoryTag, m.size, m.at)) = Filled(MemoryTag, c, m.at)
    BY <1>1, <1>2, BlockIs
  <2> HIDE DEF data
  <2>3. QED  BY <2>1, <2>2
<1> HIDE DEF c, data
<1>4. \A j \in 1..c : j \in Nat
  BY <1>1
<1>5. \A j \in 1..c : State!Cell(MemoryTag, j, m.at) \in CellsOf(V)
  BY <1>2, <1>4 DEF State!Cell, CellsOf
<1>6. /\ data \in StateFiles(V) /\ Len(data) = c
      /\ \A j \in 1..c : data[j] = State!Cell(MemoryTag, j, m.at)
  BY <1>1, <1>3, <1>5 DEF Filled, StateFiles
<1>7. data # <<>> /\ data[1].is = MemoryTag
  <2>1. 1 \in 1..c
    BY <1>1
  <2>2. data[1] = State!Cell(MemoryTag, 1, m.at)
    BY <1>6, <2>1
  <2>3. data[1].is = MemoryTag
    BY <2>2 DEF State!Cell
  <2>4. QED  BY <1>1, <1>6, <2>3
<1> DEFINE size == m.size
           of == m.at
<1>8. Takes(machine, data, 0, size, of)
  <2>1. size \in Sizes /\ of \in V /\ 0 \in Nat /\ State!Cells(size) = c
    BY <1>1, <1>2 DEF c
  <2>2. 0 + c <= Len(data) /\ \A j \in 1..c : 0 + j \in Nat /\ 0 + j = j
    BY <1>1, <1>6
  <2> HIDE DEF size
  <2>3. 0 + State!Cells(size) <= Len(data)
        /\ \A j \in 1..State!Cells(size) : data[0 + j] = State!Cell(MemoryTag, j, of)
    BY <1>6, <2>1, <2>2
  <2> HIDE DEF of
  <2>4. QED  BY <1>2, <1>6, <2>1, <2>3, TakesItsOwn
<1>9. 0 + 1 = 1
  OBVIOUS
<1>10. /\ machine.size = m.size => u = [ok |-> TRUE, machine |-> m]
       /\ machine.size # m.size => u = [ok |-> FALSE, machine |-> machine]
  BY <1>1, <1>8, <1>9 DEF Takes
<1>11. QED  BY <1>6, <1>7, <1>10 DEF c, data, V, MemoryIs

(* What a file has up to a place, and what RetroArch's compression leaves of *)
(* it: how much there is, and its parts.                                     *)
Front(data, n) == SubSeq(data, 1, n)

(* The first cell of a compressed file, and a chunk.                         *)
ZipTag == "#RZIPv"
ChunkTag == "chunk"

(* What a cell has.                                                          *)
LEMMA CellHas ==
  ASSUME NEW is, NEW size, NEW of
  PROVE  /\ State!Cell(is, size, of).is = is /\ State!Cell(is, size, of).size = size
         /\ State!Cell(is, size, of).of = of
BY DEF State!Cell

(* A file that was compressed is what it was when it is opened.              *)
LEMMA OpensAgain ==
  ASSUME NEW C, NEW data \in Seq(C), data # <<>>
  PROVE  /\ State!Rzip(data)[1].is = ZipTag /\ State!Rzip(data) # <<>>
         /\ State!DecompressRzip(State!Rzip(data)) = data
<1> DEFINE L == Len(data)
           n == (L + 1) \div 2
           part(i) == SubSeq(data, 2 * i - 1, State!Smaller(2 * i, L))
           S == {State!Cell(ZipTag, 2, L)} \cup {State!Cell(ChunkTag, 2, part(i)) : i \in 1..n}
           head == <<State!Cell(ZipTag, 2, L)>>
           rest == [i \in 1..n |-> State!Cell(ChunkTag, 2, part(i))]
           zip == head \o rest
<1>1. State!Rzip(data) = zip
  BY DEF State!Rzip, ZipTag, ChunkTag
<1>2. L \in Nat /\ L >= 1 /\ n \in Nat /\ 2 * n >= L /\ 2 * n <= L + 1
  <2>1. L \in Nat /\ L >= 1
    OBVIOUS
  <2> HIDE DEF L
  <2>2. QED  BY <2>1
<1> HIDE DEF n, part
<1>3. /\ head \in Seq(S) /\ Len(head) = 1 /\ head[1] = State!Cell(ZipTag, 2, L)
      /\ rest \in Seq(S) /\ Len(rest) = n
      /\ \A i \in 1..n : rest[i] = State!Cell(ChunkTag, 2, part(i))
  <2> DEFINE cell(i) == State!Cell(ChunkTag, 2, part(i))
             first == State!Cell(ZipTag, 2, L)
  <2>1. first \in S /\ \A i \in 1..n : cell(i) \in S
    OBVIOUS
  <2> HIDE DEF cell, first, S
  <2>2. <<first>> \in Seq(S) /\ Len(<<first>>) = 1 /\ <<first>>[1] = first
    BY <2>1
  <2>3. [i \in 1..n |-> cell(i)] \in Seq(S) /\ Len([i \in 1..n |-> cell(i)]) = n
    BY <1>2, <2>1
  <2>4. \A i \in 1..n : [j \in 1..n |-> cell(j)][i] = cell(i)
    OBVIOUS
  <2>5. QED  BY <2>2, <2>3, <2>4 DEF cell, first
<1> HIDE DEF S, head, rest
<1>4. /\ Len(zip) = 1 + n /\ zip[1] = State!Cell(ZipTag, 2, L)
      /\ \A i \in 1..n : zip[i + 1] = State!Cell(ChunkTag, 2, part(i))
  <2>1. /\ zip \in Seq(S) /\ Len(zip) = Len(head) + Len(rest)
        /\ \A i \in 1..(Len(head) + Len(rest)) :
             zip[i] = IF i <= Len(head) THEN head[i] ELSE rest[i - Len(head)]
    BY <1>3, ConcatProperties
  <2> HIDE DEF zip
  <2>2. zip[1] = head[1]
    BY <1>2, <1>3, <2>1
  <2>3. ASSUME NEW i \in 1..n  PROVE zip[i + 1] = rest[i]
    <3> DEFINE j == i + 1
    <3>1. j \in 1..(1 + n) /\ ~(j <= 1) /\ j - 1 = i
      BY <1>2
    <3> HIDE DEF j
    <3>2. zip[j] = rest[i]
      BY <1>3, <2>1, <3>1
    <3>3. QED  BY <3>2 DEF j
  <2>4. QED  BY <1>2, <1>3, <2>1, <2>2, <2>3
<1> HIDE DEF zip
<1>5. zip[1].is = ZipTag /\ zip[1].of = L /\ \A i \in 1..n : zip[i + 1].of = part(i)
  <2>1. zip[1].is = ZipTag /\ zip[1].of = L
    BY <1>4, CellHas
  <2>2. ASSUME NEW i \in 1..n  PROVE zip[i + 1].of = part(i)
    <3>1. zip[i + 1] = State!Cell(ChunkTag, 2, part(i))
      BY <1>4
    <3>2. QED  BY <3>1, CellHas
  <2>3. QED  BY <2>1, <2>2
<1> DEFINE upto(i) == State!Smaller(2 * i, L)
           N == Len(zip) - 1
           Next1(f, i) == IF i = 0 THEN <<>>
                          ELSE IF Len(f[i - 1]) >= L THEN f[i - 1] ELSE f[i - 1] \o zip[i + 1].of
           Unrolls(f) == f = [i \in 0..N |-> Next1(f, i)]
           Out == CHOOSE f : Unrolls(f)
           opened == [i \in 0..N |-> Front(data, upto(i))]
<1>6. N = n
  BY <1>2, <1>4
<1>7. State!DecompressRzip(zip) = Front(Out[N], L)
  BY <1>5 DEF State!DecompressRzip, Front
<1> HIDE DEF N
<1>8. \A i \in 0..n : /\ upto(i) \in 0..L /\ upto(0) = 0 /\ upto(n) = L
                      /\ i # 0 => /\ i - 1 \in 0..n /\ i \in 1..n /\ upto(i - 1) = 2 * i - 2
                                  /\ upto(i - 1) < L /\ upto(i - 1) <= upto(i)
  <2> HIDE DEF L
  <2>1. QED  BY <1>2 DEF State!Smaller
<1> HIDE DEF upto
<1>9. \A k \in 0..L : Front(data, k) \in Seq(C) /\ Len(Front(data, k)) = k
                      /\ (k = 0 => Front(data, k) = <<>>)
  <2>1. ASSUME NEW k \in 0..L
        PROVE  /\ Front(data, k) \in Seq(C) /\ Len(Front(data, k)) = k
               /\ k = 0 => Front(data, k) = <<>>
    <3>1. \A i \in 1..k : data[i] \in C
      BY <1>2
    <3>2. k \in Int /\ 1 \in Int /\ k - 1 + 1 = k
      BY <1>2
    <3> HIDE DEF L
    <3>3. /\ SubSeq(data, 1, k) \in Seq(C)
          /\ Len(SubSeq(data, 1, k)) = IF 1 <= k THEN k - 1 + 1 ELSE 0
      BY <3>1, <3>2, SubSeqProperties
    <3>4. Len(SubSeq(data, 1, k)) = k
      BY <1>2, <3>2, <3>3
    <3>5. k = 0 => SubSeq(data, 1, k) = <<>>
      BY <3>2, SubSeqEmpty
    <3>6. QED  BY <3>3, <3>4, <3>5 DEF Front
  <2>2. QED  BY <2>1
<1>10. \A i \in 1..n : Front(data, upto(i)) = Front(data, upto(i - 1)) \o part(i)
  <2>1. ASSUME NEW i \in 1..n  PROVE Front(data, upto(i)) = Front(data, upto(i - 1)) \o part(i)
    <3> DEFINE k == upto(i - 1)
               e == upto(i)
    <3>1. k \in 0..L /\ e \in k..L /\ k = 2 * i - 2 /\ k < L /\ i \in 0..n /\ i # 0
      BY <1>2, <1>8
    <3>2. part(i) = SubSeq(data, k + 1, e)
      <4>1. k + 1 = 2 * i - 1
        BY <1>2, <3>1
      <4>2. QED  BY <4>1 DEF part, upto
    <3> HIDE DEF k, e
    <3>3. SubSeq(data, 1, k) \o SubSeq(data, k + 1, e) = SubSeq(data, 1, e)
      BY <1>2, <3>1, ConcatAdjacentSubSeq
    <3>4. QED  BY <3>2, <3>3 DEF Front, k, e
  <2>2. QED  BY <2>1
<1>11. \A i \in 0..n : opened[i] = Next1(opened, i)
  <2>1. ASSUME NEW i \in 0..n  PROVE opened[i] = Next1(opened, i)
    <3>1. opened[i] = Front(data, upto(i)) /\ (i # 0 => opened[i - 1] = Front(data, upto(i - 1)))
      BY <1>6, <1>8
    <3> HIDE DEF opened
    <3>2. CASE i = 0
      BY <1>2, <1>8, <1>9, <3>1, <3>2
    <3>3. CASE i # 0
      <4>1. i \in 1..n /\ upto(i - 1) \in 0..L /\ upto(i - 1) < L
        BY <1>2, <1>8, <3>3
      <4>2. ~(Len(opened[i - 1]) >= L)
        BY <1>2, <1>9, <3>1, <3>3, <4>1
      <4>3. opened[i] = opened[i - 1] \o zip[i + 1].of
        BY <1>5, <1>10, <3>1, <3>3, <4>1
      <4>4. QED  BY <3>3, <4>2, <4>3
    <3>4. QED  BY <3>2, <3>3
  <2>2. QED  BY <2>1
<1>12. Unrolls(opened)
  <2> HIDE DEF Next1
  <2>1. opened = [i \in 0..N |-> opened[i]]
    OBVIOUS
  <2>2. QED  BY <1>6, <1>11, <2>1
<1>13. Unrolls(Out)
  <2> HIDE DEF Unrolls, opened
  <2>1. QED  BY <1>12
<1> HIDE DEF Out
<1>14. \A i \in 0..n : Out[i] = Next1(Out, i)
  <2> HIDE DEF Next1
  <2>1. QED  BY <1>6, <1>13
<1> DEFINE G == {i \in 0..n : Out[i] = opened[i]}
<1>15. 0 \in G
  <2>1. 0 \in 0..n
    BY <1>2
  <2>2. Out[0] = <<>> /\ opened[0] = <<>>
    <3> HIDE DEF opened
    <3>1. QED  BY <1>11, <1>14, <2>1
  <2> HIDE DEF opened
  <2>3. QED  BY <2>1, <2>2
<1>16. ASSUME NEW i \in 1..n, i - 1 \in G  PROVE i \in G
  <2>1. i \in 0..n /\ i # 0
    BY <1>2
  <2> HIDE DEF opened
  <2>2. Out[i - 1] = opened[i - 1]
    BY <1>16
  <2>3. Out[i] = opened[i]
    BY <1>11, <1>14, <2>1, <2>2
  <2>4. QED  BY <2>1, <2>3
<1>17. Out[n] = opened[n]
  <2> DEFINE H == G
  <2>1. n \in 0..n
    BY <1>2
  <2>2. n \in G
    <3> HIDE DEF G
    <3>1. QED  BY <1>2, <1>15, <1>16, <2>1, StepByStep
  <2>3. QED  BY <2>2
<1>18. opened[n] = Front(data, L) /\ Front(data, L) = data
  <2>1. n \in 0..n /\ n \in 0..N /\ upto(n) = L
    BY <1>2, <1>6, <1>8
  <2>2. SubSeq(data, 1, L) = data
    BY SubSeqFull
  <2>3. QED  BY <2>1, <2>2 DEF Front
<1>19. State!DecompressRzip(zip) = data
  BY <1>6, <1>7, <1>17, <1>18
<1>20. zip # <<>>
  BY <1>2, <1>4
<1>21. QED  BY <1>1, <1>5, <1>19, <1>20

-----------------------------------------------------------------------------
(* The screen.                                                               *)

(* What a picture put on a screen leaves there: the screen it was taken from *)
(* is seen again, unless it is of another size or format, or is stretched.   *)
PictureBack(s, was, new) ==
  /\ new \in Screens
  /\ new.view = s.view /\ new.format = s.format /\ new.preserve = s.preserve
  /\ was.view = s.view /\ was.format = s.format /\ ~s.preserve =>
       State!Shown(new) = State!Shown(was)
LEMMA ImageReturns ==
  ASSUME NEW s \in Screens, NEW was \in Screens
  PROVE  PictureBack(s, was, State!RestoreFrameBuffer(s, State!GetFramebuffer(was)))
<1> DEFINE v == was.view
           image == State!GetFramebuffer(was)
           new == State!RestoreFrameBuffer(s, image)
           seen == State!Shown(new)
           old == State!Shown(was)
<1>1. v \in Views /\ s.format \in Formats /\ was.format \in Formats
  BY DEF Screens
<1>2. /\ image \in Image24(v)
      /\ \A y \in 1..v[2], x \in 1..v[1] : image[y][x] = State!Widen(was.format, old[y][x])
  BY FramebufferIs
<1> HIDE DEF image
<1>3. /\ new \in Screens /\ new.view = s.view /\ new.format = s.format
      /\ new.preserve = s.preserve
      /\ ~s.preserve /\ s.view = v =>
           \A y \in 1..v[2], x \in 1..v[1] :
             State!Shown(new)[y][x] = State!Narrow(s.format, image[y][x])
  BY <1>1, <1>2, FramebufferReturns
<1> HIDE DEF new
<1>4. ASSUME v = s.view, was.format = s.format, ~s.preserve
      PROVE  seen = old
  <2> DEFINE w == v[1]
             h == v[2]
             P == Pixels(s.format)
  <2>1. seen \in [1..h -> [1..w -> P]] /\ old \in [1..h -> [1..w -> P]]
    <3>1. seen \in [1..new.view[2] -> [1..new.view[1] -> Pixels(new.format)]]
      BY <1>3, ShownIs
    <3>2. old \in [1..was.view[2] -> [1..was.view[1] -> Pixels(was.format)]]
      BY ShownIs
    <3> HIDE DEF seen, old
    <3>3. QED  BY <1>3, <1>4, <3>1, <3>2
  <2>2. \A y \in 1..h, x \in 1..w : seen[y][x] = State!Narrow(s.format, image[y][x])
    BY <1>3, <1>4
  <2> HIDE DEF seen, old, v, w, h, P
  <2>3. ASSUME NEW y \in 1..h, NEW x \in 1..w  PROVE seen[y][x] = old[y][x]
    <3>1. old[y][x] \in P
      BY <2>1
    <3>2. image[y][x] = State!Widen(s.format, old[y][x])
      BY <1>2, <1>4 DEF w, h
    <3>3. State!Narrow(s.format, State!Widen(s.format, old[y][x])) = old[y][x]
      BY <1>1, <3>1, PixelReturns DEF P
    <3>4. seen[y][x] = State!Narrow(s.format, image[y][x])
      BY <2>2
    <3>5. QED  BY <3>2, <3>3, <3>4
  <2>4. ASSUME NEW y \in 1..h  PROVE seen[y] = old[y]
    <3> DEFINE a == seen[y]
               b == old[y]
    <3>1. a \in [1..w -> P] /\ b \in [1..w -> P]
      BY <2>1
    <3>2. \A x \in 1..w : a[x] = b[x]
      BY <2>3
    <3> HIDE DEF a, b
    <3>3. a = [x \in 1..w |-> a[x]] /\ b = [x \in 1..w |-> b[x]]
      BY <3>1
    <3>4. a = b
      BY <3>2, <3>3
    <3>5. QED  BY <3>4 DEF a, b
  <2> DEFINE R == [1..w -> P]
  <2>5. seen \in [1..h -> R] /\ old \in [1..h -> R]
    BY <2>1
  <2> HIDE DEF R
  <2>6. seen = [y \in 1..h |-> seen[y]] /\ old = [y \in 1..h |-> old[y]]
    BY <2>5
  <2>7. QED  BY <2>4, <2>6
<1>5. QED  BY <1>3, <1>4 DEF PictureBack, new, image

(* A frame has the format's pixels.                                          *)
LEMMA FrameIs ==
  ASSUME NEW m \in Nat, NEW view \in Views, NEW format \in Formats
  PROVE  State!Frame(m, view, format) \in Buffers(view[2], [1..view[1] -> Pixels(format)])
<1> DEFINE w == view[1]
           h == view[2]
           n(c) == State!Shades(format)[c]
           e(y, x, c) == 31 * m + 7 * x + 11 * y + 5 * c
           pixel(y, x) == [c \in 1..3 |-> e(y, x, c) % n(c)]
<1>1. w \in Nat /\ h \in Nat
  BY ViewFits
<1>2. \A c \in 1..3 : n(c) \in {32, 64, 256}
  BY ShadesAre
<1>3. \A y \in 1..h, x \in 1..w, c \in 1..3 : e(y, x, c) \in Nat
  <2> HIDE DEF w, h
  <2>1. QED  BY <1>1
<1>4. State!Frame(m, view, format) = [y \in 1..h |-> [x \in 1..w |-> pixel(y, x)]]
  BY DEF State!Frame
<1> HIDE DEF w, h, n, e
<1>5. ASSUME NEW y \in 1..h, NEW x \in 1..w  PROVE pixel(y, x) \in Pixels(format)
  <2>1. \A c \in 1..3 : e(y, x, c) % n(c) \in 0..255 /\ e(y, x, c) % n(c) < n(c)
    <3>1. ASSUME NEW c \in 1..3
          PROVE  e(y, x, c) % n(c) \in 0..255 /\ e(y, x, c) % n(c) < n(c)
      <4> DEFINE i == e(y, x, c)
      <4>1. i \in Nat
        BY <1>3
      <4> HIDE DEF i
      <4>2. i % 32 \in 0..31 /\ i % 64 \in 0..63 /\ i % 256 \in 0..255
        BY <4>1
      <4>3. i % n(c) \in 0..255 /\ i % n(c) < n(c)
        BY <1>2, <4>2
      <4>4. QED  BY <4>3 DEF i
    <3>2. QED  BY <3>1
  <2> DEFINE p == pixel(y, x)
  <2>2. p \in Colours /\ \A c \in 1..3 : p[c] < n(c)
    BY <2>1 DEF Colours
  <2> HIDE DEF p
  <2>3. p \in Pixels(format)
    BY <2>2 DEF Pixels, n
  <2>4. QED  BY <2>3 DEF p
<1> HIDE DEF pixel
<1>6. [y \in 1..h |-> [x \in 1..w |-> pixel(y, x)]] \in [1..h -> [1..w -> Pixels(format)]]
  BY <1>5
<1>7. QED  BY <1>4, <1>6 DEF Buffers, w, h

(* A frame is put on any screen, also on one that has shown nothing.         *)
Canvases(V) ==
  {s \in [format: Formats, view: V, preserve: BOOLEAN, bottom: BOOLEAN,
          rows: [1..Texture[2] -> [1..Texture[1] -> Colours]]] : s.rows \in Textures(s.format)}
LEMMA RefreshedIs ==
  ASSUME NEW V, NEW s \in Canvases(V), NEW m \in Nat, NEW view \in Views
  PROVE  State!Refreshed(s, m, view) \in Screens
<1> DEFINE TW == Texture[1]
           TH == Texture[2]
           w == view[1]
           h == view[2]
           P == Pixels(s.format)
           R == [1..w -> P]
           frame == State!Frame(m, view, s.format)
           image == State!Flipped(s, frame, h)
           rows == [y \in 1..TH |-> [x \in 1..TW |->
                      IF y <= h /\ x <= w THEN image[y][x] ELSE s.rows[y][x]]]
<1>1. s.format \in Formats /\ s.rows \in [1..TH -> [1..TW -> P]] /\ w \in 1..TW /\ h \in 1..TH
      /\ TW \in Nat /\ TH \in Nat
  BY ViewFits DEF Canvases, Textures
<1>2. image \in [1..h -> R]
  <2>1. frame \in Buffers(h, R)
    BY <1>1, FrameIs
  <2>2. h \in Nat /\ h \in 0..h
    BY <1>1
  <2> HIDE DEF frame, R, h
  <2>3. \A t : /\ State!Flipped(t, frame, h) \in Buffers(h, R)
               /\ \A y \in 1..h : State!Flipped(t, frame, h)[y] = RowOf(t, frame, h, y)
    BY <2>1, <2>2, FlipIs
  <2>4. QED  BY <2>3 DEF Buffers
<1> HIDE DEF image
<1>3. rows \in [1..TH -> [1..TW -> P]]
  <2> HIDE DEF TW, TH, w, h, P
  <2>1. ASSUME NEW y \in 1..TH, NEW x \in 1..TW
        PROVE  (IF y <= h /\ x <= w THEN image[y][x] ELSE s.rows[y][x]) \in P
    <3>1. CASE y <= h /\ x <= w
      <4>1. y \in 1..h /\ x \in 1..w
        BY <1>1, <3>1
      <4>2. image[y][x] \in P
        BY <1>2, <4>1
      <4>3. QED  BY <3>1, <4>2
    <3>2. CASE ~(y <= h /\ x <= w)
      BY <1>1, <3>2
    <3>3. QED  BY <3>1, <3>2
  <2>2. QED  BY <2>1
<1>4. State!Refreshed(s, m, view) = [s EXCEPT !.view = view, !.rows = rows]
  <2>1. DOMAIN s.rows = 1..TH /\ \A y \in 1..TH : DOMAIN s.rows[y] = 1..TW
    BY <1>1
  <2> DEFINE made == [y \in DOMAIN s.rows |-> [x \in DOMAIN s.rows[y] |->
                        IF y <= view[2] /\ x <= view[1] THEN image[y][x] ELSE s.rows[y][x]]]
  <2>2. made = rows
    <3> HIDE DEF TW, TH
    <3>1. QED  BY <2>1
  <2>3. s = [s EXCEPT !.view = s.view] /\ s \in [format: Formats, view: V, preserve: BOOLEAN,
          bottom: BOOLEAN, rows: [1..Texture[2] -> [1..Texture[1] -> Colours]]]
    BY DEF Canvases
  <2>4. [s EXCEPT !.view = view].rows = s.rows
    BY <2>3
  <2>5. State!Refreshed(s, m, view) = [s EXCEPT !.view = view, !.rows = made]
    BY <2>4 DEF State!Refreshed, image, frame
  <2> HIDE DEF made, rows
  <2>6. QED  BY <2>2, <2>5
<1> HIDE DEF rows
<1>5. rows \in [1..Texture[2] -> [1..Texture[1] -> Colours]] /\ rows \in Textures(s.format)
  <2>1. P \subseteq Colours
    BY DEF Pixels
  <2>2. QED  BY <1>3, <2>1 DEF Textures
<1> DEFINE new == [s EXCEPT !.view = view, !.rows = rows]
<1>6. s \in [format: Formats, view: V, preserve: BOOLEAN,
             bottom: BOOLEAN, rows: [1..Texture[2] -> [1..Texture[1] -> Colours]]]
  BY DEF Canvases
<1>7. new.format = s.format /\ new.rows = rows
  BY <1>6
<1>8. new \in [format: Formats, view: Views, preserve: BOOLEAN,
               bottom: BOOLEAN, rows: [1..Texture[2] -> [1..Texture[1] -> Colours]]]
  BY <1>5, <1>6
<1> HIDE DEF new
<1>9. new \in Screens
  BY <1>5, <1>7, <1>8 DEF Screens
<1>10. QED  BY <1>4, <1>9 DEF new

(* A core's first screen.                                                    *)
LEMMA BeginningIs ==
  ASSUME NEW look \in Looks
  PROVE  State!Beginning(look) \in Screens
<1> DEFINE V == {<<0, 0>>}
           TW == Texture[1]
           TH == Texture[2]
           s == [format |-> look.format, preserve |-> look.preserve, bottom |-> look.bottom,
                 view |-> <<0, 0>>, rows |-> State!Black]
           view == CHOOSE v \in Views : TRUE
<1>1. look.format \in Formats /\ look.preserve \in BOOLEAN /\ look.bottom \in BOOLEAN
  BY StateAssumption DEF Formats
<1>2. view \in Views
  BY StateAssumption
<1> DEFINE black == [c \in 1..3 |-> 0]
<1>3. <<0, 0, 0>> = black /\ black \in Colours /\ \A c \in 1..3 : black[c] = 0
  BY DEF Colours
<1>4. black \in Pixels(look.format)
  <2> HIDE DEF black
  <2>1. \A c \in 1..3 : State!Shades(look.format)[c] > 0
    BY <1>1, ShadesAre
  <2>2. \A c \in 1..3 : black[c] < State!Shades(look.format)[c]
    BY <1>1, <1>3, <2>1, ShadesAre
  <2>3. QED  BY <1>3, <2>2 DEF Pixels
<1>5. State!Black = [y \in 1..TH |-> [x \in 1..TW |-> black]]
  <2> HIDE DEF black
  <2>1. QED  BY <1>3 DEF State!Black
<1> HIDE DEF black
<1>6. State!Black \in Textures(look.format)
      /\ State!Black \in [1..Texture[2] -> [1..Texture[1] -> Colours]]
  BY <1>3, <1>4, <1>5 DEF Textures
<1>7. s \in Canvases(V)
  BY <1>1, <1>6 DEF Canvases
<1>8. State!Beginning(look) = State!Refreshed(s, 0, view)
  BY DEF State!Beginning
<1> HIDE DEF s, view, V
<1>9. QED  BY <1>2, <1>7, <1>8, RefreshedIs

-----------------------------------------------------------------------------
(* What a load does with the files there can be.                             *)

(* What is remembered of the moment a file was made in.                      *)
Remembers(f, m, p, s, shown) ==
  /\ f.of.size = m.size /\ f.of.at = m.at /\ f.of.progress = p
  /\ f.of.view = s.view /\ f.of.format = s.format /\ f.of.shown = shown

(* The files of this program, of RetroArch, and of the earlier versions, of  *)
(* one moment.                                                               *)
IsOwn(f, m, p, s) ==
  f.data = OwnFile(m, p, State!GetFramebuffer(s)) /\ Remembers(f, m, p, s, State!Shown(s))
IsRetroArchs(f, m, p, s) ==
  /\ f.data = RetroArchFile(m, p) \/ f.data = State!Rzip(RetroArchFile(m, p))
  /\ Remembers(f, m, p, s, NoFile)
IsOld(f, m, p, s) ==
  /\ f.data = State!Memory(m) \/ f.data = State!Rzip(State!Memory(m))
  /\ f.slack = 8 * State!Cells(m.size) - m.size /\ f.rap = p
  /\ \/ f.png = NoFile /\ Remembers(f, m, p, s, NoFile)
     \/ f.png = State!GetFramebuffer(s) /\ Remembers(f, m, p, s, State!Shown(s))
IsFile(f) ==
  \E m \in Machines, s \in Screens : \E p \in {0, m.at} :
    IsOwn(f, m, p, s) \/ IsRetroArchs(f, m, p, s) \/ IsOld(f, m, p, s)

(* What is in a file once it is opened, and what loading it results in.      *)
Opened(f) == IF f.data[1].is = ZipTag THEN State!DecompressRzip(f.data) ELSE f.data
Outcome(f) ==
  IF Opened(f)[1].is = OwnTag THEN State!LoadRAState1(Opened(f))
                              ELSE State!LoadOldState(f, Opened(f))

(* The kinds of values that hold what is running.                            *)
StateTypes ==
  machine \in Machines /\ moment \in Nat /\ screen \in Screens /\ progress \in {0, machine.at}

(* What a load owes: the kinds of values stay, and everything in a file of   *)
(* this version of the core is back.                                         *)
Restores(f, r) ==
  /\ r.machine \in Machines /\ r.screen \in Screens /\ r.progress \in {0, r.machine.at}
  /\ f.of.size = r.machine.size =>
       /\ r.ok
       /\ r.machine.at = f.of.at /\ r.progress = f.of.progress
       /\ f.of.shown = NoFile => State!Shown(r.screen) = State!Shown(screen)
       /\ f.of.shown # NoFile /\ f.of.view = r.screen.view
            /\ f.of.format = r.screen.format /\ ~r.screen.preserve =>
              State!Shown(r.screen) = f.of.shown

(* The first cells tell the kinds of files apart.                            *)
LEMMA FilesDiffer == ZipTag \notin {OwnTag, MemoryTag} /\ MemoryTag # OwnTag
BY DEF ZipTag, OwnTag, MemoryTag

(* A picture is not NoFile.                                                  *)
LEMMA PictureIsOne ==
  ASSUME NEW s \in Screens
  PROVE  State!GetFramebuffer(s) # NoFile /\ State!Shown(s) # NoFile
<1>1. s.view \in Views
  BY DEF Screens
<1>2. NoFile \notin Image24(s.view)
  BY <1>1, StateAssumption DEF Image24, Colours
<1>3. QED  BY <1>2, FramebufferIs, ShownIs

(* A file with blocks, loaded.                                               *)
LEMMA BlocksRestore ==
  ASSUME StateTypes, NEW f, NEW m \in Machines, NEW p \in {0, m.at}, NEW s \in Screens,
         NEW new, NEW shown, NEW data, Remembers(f, m, p, s, shown), Loads(data, m, p, new),
         \/ shown = NoFile /\ new = screen
         \/ shown = State!Shown(s) /\ PictureBack(screen, s, new)
  PROVE  Restores(f, State!LoadRAState1(data))
<1> DEFINE r == State!LoadRAState1(data)
<1>1. machine \in Machines /\ screen \in Screens
  BY DEF StateTypes
<1>2. State!Shown(s) # NoFile
  BY PictureIsOne
<1>3. CASE m.size = machine.size
  <2>1. PICK k, b : r = Reading(k, Yes, m, p, new, b)
    BY <1>3 DEF Loads
  <2>2. r.ok = Yes /\ r.machine = m /\ r.progress = p /\ r.screen = new
    BY <2>1, ReadingHas
  <2> HIDE DEF r
  <2>3. /\ r.ok /\ r.machine.at = f.of.at /\ r.progress = f.of.progress
        /\ r.machine \in Machines /\ r.progress \in {0, r.machine.at}
    BY <2>2 DEF Yes, Remembers
  <2>4. CASE shown = NoFile /\ new = screen
    <3>1. f.of.shown = NoFile /\ r.screen = screen
      BY <2>2, <2>4 DEF Remembers
    <3>2. Restores(f, r)
      BY <1>1, <2>3, <3>1 DEF Restores
    <3>3. QED  BY <3>2 DEF r
  <2>5. CASE shown = State!Shown(s) /\ PictureBack(screen, s, new)
    <3>1. new \in Screens /\ f.of.shown = State!Shown(s) /\ f.of.view = s.view
          /\ f.of.format = s.format
      BY <2>5 DEF PictureBack, Remembers
    <3>2. f.of.view = new.view /\ f.of.format = new.format /\ ~new.preserve =>
            State!Shown(new) = f.of.shown
      BY <2>5, <3>1 DEF PictureBack
    <3>3. Restores(f, r)
      BY <1>2, <2>2, <2>3, <3>1, <3>2 DEF Restores
    <3>4. QED  BY <3>3 DEF r
  <2>6. QED  BY <2>4, <2>5
<1>4. CASE m.size # machine.size
  <2>1. PICK k, b : r = Reading(k, No, machine, 0, screen, b)
    BY <1>4 DEF Loads
  <2>2. r.machine = machine /\ r.progress = 0 /\ r.screen = screen
    BY <2>1, ReadingHas
  <2>3. f.of.size # r.machine.size
    BY <1>4, <2>2 DEF Remembers
  <2> HIDE DEF r
  <2>4. Restores(f, r)
    BY <1>1, <2>2, <2>3 DEF Restores
  <2>5. QED  BY <2>4 DEF r
<1>5. QED  BY <1>3, <1>4

(* Opening gives what was written, compressed or not.                        *)
LEMMA OpenedIs ==
  ASSUME NEW f, NEW V, NEW data \in StateFiles(V), data # <<>>, data[1].is # ZipTag,
         f.data = data \/ f.data = State!Rzip(data)
  PROVE  Opened(f) = data
<1> DEFINE C == CellsOf(V)
<1>1. data \in Seq(C)
  BY DEF StateFiles
<1> HIDE DEF C
<1>2. State!Rzip(data)[1].is = ZipTag /\ State!DecompressRzip(State!Rzip(data)) = data
  BY <1>1, OpensAgain
<1>3. QED  BY <1>2 DEF Opened

(* A file of the old format, loaded.                                         *)
LEMMA MemoryRestores ==
  ASSUME StateTypes, NEW f, NEW m \in Machines, NEW p \in {0, m.at}, NEW s \in Screens,
         NEW data, MemoryIs(data, m), f.slack = 8 * State!Cells(m.size) - m.size, f.rap = p,
         \/ f.png = NoFile /\ Remembers(f, m, p, s, NoFile)
         \/ f.png = State!GetFramebuffer(s) /\ Remembers(f, m, p, s, State!Shown(s))
  PROVE  Restores(f, State!LoadOldState(f, data))
<1> DEFINE r == State!LoadOldState(f, data)
           u == State!Unserialize(machine, data, 1, m.size)
           new == IF f.png = NoFile THEN screen ELSE State!RestoreFrameBuffer(screen, f.png)
<1>1. machine \in Machines /\ screen \in Screens /\ progress \in {0, machine.at}
  BY DEF StateTypes
<1>2. State!Shown(s) # NoFile /\ State!GetFramebuffer(s) # NoFile
  BY PictureIsOne
<1>3. 8 * Len(data) - f.slack = m.size
  <2> DEFINE c == State!Cells(m.size)
             size == m.size
  <2>1. size \in Nat /\ c \in Nat
    <3>1. m.size \in Sizes
      BY DEF Machines
    <3>2. m.size \in Nat
      BY <3>1, StateAssumption
    <3>3. QED  BY <3>2, CellsAre
  <2>2. Len(data) = c /\ f.slack = 8 * c - size
    BY DEF MemoryIs
  <2> HIDE DEF c, size
  <2>3. 8 * Len(data) - f.slack = size
    BY <2>1, <2>2
  <2>4. QED  BY <2>3 DEF size
<1>4. r.ok = (u.ok \/ f.png = NoFile) /\ r.machine = u.machine
      /\ r.progress = (IF u.ok THEN f.rap ELSE progress) /\ r.screen = new
  <2>1. State!Unserialize(machine, data, 1, 8 * Len(data) - f.slack) = u
    BY <1>3
  <2> HIDE DEF u, new
  <2>2. r = [ok |-> u.ok \/ f.png = NoFile, machine |-> u.machine,
             progress |-> IF u.ok THEN f.rap ELSE progress, screen |-> new]
    BY <2>1 DEF State!LoadOldState, new
  <2> HIDE DEF r
  <2>3. QED  BY <2>2
<1>5. /\ machine.size = m.size => u.ok = TRUE /\ u.machine = m
      /\ machine.size # m.size => u.ok = FALSE /\ u.machine = machine
  <2> HIDE DEF u
  <2>1. /\ machine.size = m.size => u = [ok |-> TRUE, machine |-> m]
        /\ machine.size # m.size => u = [ok |-> FALSE, machine |-> machine]
    BY DEF MemoryIs, u
  <2>2. QED  BY <2>1
<1>6. /\ new \in Screens
      /\ f.of.shown = NoFile => State!Shown(new) = State!Shown(screen)
      /\ f.of.shown # NoFile /\ f.of.view = new.view /\ f.of.format = new.format
           /\ ~new.preserve => State!Shown(new) = f.of.shown
  <2>1. CASE f.png = NoFile /\ Remembers(f, m, p, s, NoFile)
    BY <1>1, <2>1 DEF Remembers
  <2>2. CASE f.png = State!GetFramebuffer(s) /\ Remembers(f, m, p, s, State!Shown(s))
    <3>1. new = State!RestoreFrameBuffer(screen, State!GetFramebuffer(s))
      BY <1>2, <2>2
    <3>2. PictureBack(screen, s, new)
      BY <1>1, <3>1, ImageReturns
    <3>3. f.of.shown = State!Shown(s) /\ f.of.view = s.view /\ f.of.format = s.format
      BY <2>2 DEF Remembers
    <3> HIDE DEF new
    <3>4. QED  BY <1>2, <3>2, <3>3 DEF PictureBack
  <2>3. QED  BY <2>1, <2>2
<1> HIDE DEF r, u, new
<1>7. f.of.size = m.size /\ f.of.at = m.at /\ f.of.progress = p
  BY DEF Remembers
<1>8. CASE machine.size = m.size
  <2>1. r.ok /\ r.machine = m /\ r.progress = p /\ r.screen = new
    BY <1>4, <1>5, <1>8
  <2>2. Restores(f, r)
    BY <1>6, <1>7, <2>1 DEF Restores
  <2>3. QED  BY <2>2 DEF r
<1>9. CASE machine.size # m.size
  <2>1. r.machine = machine /\ r.progress = progress /\ r.screen = new
    BY <1>4, <1>5, <1>9
  <2>2. Restores(f, r)
    BY <1>1, <1>6, <1>7, <1>9, <2>1 DEF Restores
  <2>3. QED  BY <2>2 DEF r
<1>10. QED  BY <1>8, <1>9

(* Any file there can be, loaded.                                            *)
LEMMA FilesRestore ==
  ASSUME StateTypes, NEW f, IsFile(f)
  PROVE  Restores(f, Outcome(f))
<1>1. PICK m \in Machines, s \in Screens : \E p \in {0, m.at} :
        IsOwn(f, m, p, s) \/ IsRetroArchs(f, m, p, s) \/ IsOld(f, m, p, s)
  BY DEF IsFile
<1>2. PICK p \in {0, m.at} :
        IsOwn(f, m, p, s) \/ IsRetroArchs(f, m, p, s) \/ IsOld(f, m, p, s)
  BY <1>1
<1>3. machine \in Machines /\ screen \in Screens
  BY DEF StateTypes
<1>4. CASE IsOwn(f, m, p, s)
  <2> DEFINE image == State!GetFramebuffer(s)
             data == OwnFile(m, p, image)
             new == State!RestoreFrameBuffer(screen, image)
             V == {0, m.at, p, image}
  <2>1. /\ data[1].is = OwnTag /\ data # <<>> /\ data \in StateFiles(V)
        /\ Loads(data, m, p, new)
    <3> HIDE DEF image
    <3>1. QED  BY <1>3, OwnLoads
  <2>2. PictureBack(screen, s, new)
    BY <1>3, ImageReturns
  <2>3. f.data = data /\ Remembers(f, m, p, s, State!Shown(s))
    BY <1>4 DEF IsOwn
  <2> HIDE DEF data, V, new
  <2>4. data[1].is # ZipTag
    BY <2>1, FilesDiffer
  <2>5. Opened(f) = data
    BY <2>1, <2>3, <2>4, OpenedIs
  <2>6. Outcome(f) = State!LoadRAState1(data)
    BY <2>1, <2>5 DEF Outcome
  <2> DEFINE shown == State!Shown(s)
  <2>7. shown = State!Shown(s)
    OBVIOUS
  <2> HIDE DEF shown
  <2>8. Restores(f, State!LoadRAState1(data))
    BY <2>1, <2>2, <2>3, <2>7, BlocksRestore
  <2>9. QED  BY <2>6, <2>8
<1>5. CASE IsRetroArchs(f, m, p, s)
  <2> DEFINE data == RetroArchFile(m, p)
             V == {0, m.at, p}
  <2>1. /\ data[1].is = OwnTag /\ data # <<>> /\ data \in StateFiles(V)
        /\ Loads(data, m, p, screen)
    BY <1>3, RetroArchLoads
  <2>2. (f.data = data \/ f.data = State!Rzip(data)) /\ Remembers(f, m, p, s, NoFile)
    BY <1>5 DEF IsRetroArchs
  <2> HIDE DEF data, V
  <2>3. data[1].is # ZipTag
    BY <2>1, FilesDiffer
  <2>4. Opened(f) = data
    BY <2>1, <2>2, <2>3, OpenedIs
  <2>5. Outcome(f) = State!LoadRAState1(data)
    BY <2>1, <2>4 DEF Outcome
  <2>6. Restores(f, State!LoadRAState1(data))
    BY <2>1, <2>2, BlocksRestore
  <2>7. QED  BY <2>5, <2>6
<1>6. CASE IsOld(f, m, p, s)
  <2> DEFINE data == State!Memory(m)
             V == {0, m.at}
  <2>1. MemoryIs(data, m)
    BY <1>3, MemoryLoads
  <2>2. f.data = data \/ f.data = State!Rzip(data)
    BY <1>6 DEF IsOld
  <2> HIDE DEF data
  <2>3. data \in StateFiles(V) /\ data # <<>> /\ data[1].is = MemoryTag
    BY <2>1 DEF MemoryIs
  <2> HIDE DEF V
  <2>4. data[1].is # ZipTag /\ data[1].is # OwnTag
    BY <2>3, FilesDiffer
  <2>5. Opened(f) = data
    BY <2>2, <2>3, <2>4, OpenedIs
  <2>6. Outcome(f) = State!LoadOldState(f, data)
    BY <2>4, <2>5 DEF Outcome
  <2>7. Restores(f, State!LoadOldState(f, data))
    BY <1>6, <2>1, MemoryRestores DEF IsOld
  <2>8. QED  BY <2>6, <2>7
<1>7. QED  BY <1>2, <1>4, <1>5, <1>6

-----------------------------------------------------------------------------
(* The runs of the part.                                                     *)

(* Beside the other parts the states run as they do alone.                   *)
LEMMA StateRuns == Spec => State!Spec
<1>1. Init => State!Init
  BY DEF Init
<1>2. [Next]_vars => [State!Next]_(State!vars)
  <2>1. ASSUME OthersStay, which # "state"  PROVE UNCHANGED State!vars
    BY <2>1 DEF OthersStay, stateVars, State!vars
  <2>2. ASSUME Next  PROVE State!Next \/ UNCHANGED State!vars
    BY <2>1, <2>2 DEF Next
  <2>3. UNCHANGED vars => UNCHANGED State!vars
    BY DEF vars, stateVars, State!vars
  <2>4. QED  BY <2>2, <2>3
<1>3. QED  BY <1>1, <1>2, PTL DEF Spec, State!Spec

(* The file is one that was made at some moment by one of the three, and a   *)
(* load restores.                                                            *)
StateInv == StateTypes /\ (file = NoFile \/ IsFile(file)) /\ State!LoadRestores

(* A frame of the game keeps the invariant.                                  *)
LEMMA PlayKeeps ==
  ASSUME StateInv, NEW view \in Views, NEW achievements \in BOOLEAN,
         State!Play(view, achievements)
  PROVE  StateInv'
<1>1. machine \in Machines /\ moment \in Nat /\ screen \in Screens
  BY DEF StateInv, StateTypes
<1>2. moment' \in Nat
  BY <1>1 DEF State!Play
<1>3. machine' \in Machines /\ machine'.at = moment' /\ progress' \in {0, machine'.at}
  BY <1>1, <1>2 DEF State!Play, Machines
<1>4. screen' \in Screens
  <2>1. screen \in Canvases(Views)
    BY <1>1 DEF Canvases, Screens
  <2>2. screen' = State!Refreshed(screen, moment', view)
    BY DEF State!Play
  <2>3. QED  BY <1>2, <2>1, <2>2, RefreshedIs
<1>5. file' = file /\ restored' = NoFile
  BY DEF State!Play
<1>6. QED  BY <1>2, <1>3, <1>4, <1>5 DEF StateInv, StateTypes, State!LoadRestores

(* So does a file that is left.                                              *)
LEMMA LeftKeeps ==
  ASSUME StateInv, NEW data, NEW png, NEW rap, NEW slack, NEW of,
         State!Left(data, png, rap, slack, of), IsFile(file')
  PROVE  StateInv'
BY DEF State!Left, StateInv, StateTypes, State!LoadRestores

(* What the moment leaves of itself.                                         *)
LEMMA NowIs ==
  ASSUME StateInv, NEW picture \in BOOLEAN, NEW p, NEW data, NEW png, NEW rap, NEW slack,
         State!Left(data, png, rap, slack, State!Now(picture, p))
  PROVE  /\ file'.data = data /\ file'.png = png /\ file'.rap = rap /\ file'.slack = slack
         /\ picture => Remembers(file', machine, p, screen, State!Shown(screen))
         /\ ~picture => Remembers(file', machine, p, screen, NoFile)
<1> DEFINE of == State!Now(picture, p)
<1>1. /\ of.size = machine.size /\ of.at = machine.at /\ of.progress = p
      /\ of.view = screen.view /\ of.format = screen.format
      /\ of.shown = IF picture THEN State!Shown(screen) ELSE NoFile
  BY DEF State!Now
<1> HIDE DEF of
<1>2. file' = [data |-> data, png |-> png, rap |-> rap, slack |-> slack, of |-> of]
  BY DEF State!Left, of
<1>3. file'.data = data /\ file'.png = png /\ file'.rap = rap /\ file'.slack = slack /\ file'.of = of
  BY <1>2
<1>4. QED  BY <1>1, <1>3 DEF Remembers

(* This program's saves keep the invariant.                                  *)
LEMMA SaveStateKeeps ==
  ASSUME StateInv, State!SaveState
  PROVE  StateInv'
<1> DEFINE data == OwnFile(machine, progress, State!GetFramebuffer(screen))
           p == progress
<1>1. State!Left(data, NoFile, 0, 0, State!Now(TRUE, p))
  BY DEF State!SaveState, OwnFile, MemoryTag, ScreenTag
<1> HIDE DEF data, p
<1>2. file'.data = data /\ Remembers(file', machine, p, screen, State!Shown(screen))
  BY <1>1, NowIs
<1>3. IsOwn(file', machine, p, screen)
  BY <1>2 DEF IsOwn, data, p
<1>4. machine \in Machines /\ screen \in Screens /\ p \in {0, machine.at}
  BY DEF StateInv, StateTypes, p
<1>5. IsFile(file')
  BY <1>3, <1>4 DEF IsFile
<1>6. QED  BY <1>1, <1>5, LeftKeeps

(* So do RetroArch's.                                                        *)
LEMMA RetroArchSavesKeeps ==
  ASSUME StateInv, NEW compressed \in BOOLEAN, State!RetroArchSaves(compressed)
  PROVE  StateInv'
<1> DEFINE plain == RetroArchFile(machine, progress)
           data == IF compressed THEN State!Rzip(plain) ELSE plain
           p == progress
<1>1. State!Left(data, NoFile, 0, 0, State!Now(FALSE, p))
  BY DEF State!RetroArchSaves, RetroArchFile, MemoryTag, OtherTag
<1>2. data = plain \/ data = State!Rzip(plain)
  OBVIOUS
<1> HIDE DEF data, p, plain
<1>3. file'.data = data /\ Remembers(file', machine, p, screen, NoFile)
  BY <1>1, NowIs
<1>4. IsRetroArchs(file', machine, p, screen)
  BY <1>2, <1>3 DEF IsRetroArchs, plain, p
<1>5. machine \in Machines /\ screen \in Screens /\ p \in {0, machine.at}
  BY DEF StateInv, StateTypes, p
<1>6. IsFile(file')
  BY <1>4, <1>5 DEF IsFile
<1>7. QED  BY <1>1, <1>6, LeftKeeps

(* So do those of the versions before.                                       *)
LEMMA OldVersionSavesKeeps ==
  ASSUME StateInv, NEW compressed \in BOOLEAN, NEW image \in BOOLEAN, NEW rap \in BOOLEAN,
         State!OldVersionSaves(compressed, image, rap)
  PROVE  StateInv'
<1> DEFINE plain == State!Memory(machine)
           data == IF compressed THEN State!Rzip(plain) ELSE plain
           png == IF image THEN State!GetFramebuffer(screen) ELSE NoFile
           p == IF rap THEN progress ELSE 0
           slack == 8 * State!Cells(machine.size) - machine.size
<1>1. State!Left(data, png, p, slack, State!Now(image, p))
  BY DEF State!OldVersionSaves
<1>2. data = plain \/ data = State!Rzip(plain)
  OBVIOUS
<1>3. /\ image => png = State!GetFramebuffer(screen)
      /\ ~image => png = NoFile
  OBVIOUS
<1>4. machine \in Machines /\ screen \in Screens /\ p \in {0, machine.at}
  BY DEF StateInv, StateTypes
<1> HIDE DEF data, p, plain, png
<1>5. /\ file'.data = data /\ file'.png = png /\ file'.rap = p /\ file'.slack = slack
      /\ image => Remembers(file', machine, p, screen, State!Shown(screen))
      /\ ~image => Remembers(file', machine, p, screen, NoFile)
  <2> HIDE DEF slack
  <2>1. QED  BY <1>1, NowIs
<1>6. IsOld(file', machine, p, screen)
  BY <1>2, <1>3, <1>5 DEF IsOld, plain
<1>7. IsFile(file')
  BY <1>4, <1>6 DEF IsFile
<1> HIDE DEF slack
<1>8. QED  BY <1>1, <1>7, LeftKeeps

(* So does a load, of whichever file there is.                               *)
LEMMA LoadStateKeeps ==
  ASSUME StateInv, State!LoadState
  PROVE  StateInv'
<1> DEFINE r == Outcome(file)
<1>1. IsFile(file) /\ StateTypes /\ moment' = moment /\ file' = file
  BY DEF State!LoadState, StateInv
<1>2. machine' = r.machine /\ progress' = r.progress /\ screen' = r.screen
      /\ restored' = [ok |-> r.ok, shown |-> State!Shown(screen)]
  BY DEF State!LoadState, Outcome, Opened, ZipTag, OwnTag
<1>3. Restores(file, r)
  BY <1>1, FilesRestore
<1> DEFINE seen == State!Shown(screen)
<1>4. restored'.ok = r.ok /\ restored'.shown = seen
  <2> HIDE DEF r, seen
  <2>1. restored' = [ok |-> r.ok, shown |-> seen]
    BY <1>2 DEF seen
  <2>2. QED  BY <2>1
<1>5. State!Shown(screen)' = State!Shown(r.screen)
  BY <1>2 DEF State!Shown, State!Flipped, State!Flip
<1> HIDE DEF r
<1>6. StateTypes'
  BY <1>1, <1>2, <1>3 DEF StateTypes, Restores
<1>7. State!LoadRestores'
  BY <1>1, <1>2, <1>3, <1>4, <1>5 DEF State!LoadRestores, Restores, seen
<1>8. QED  BY <1>1, <1>6, <1>7 DEF StateInv

(* So does another core: the game starts anew.                               *)
LEMMA ChangeCoreKeeps ==
  ASSUME StateInv, NEW size \in Sizes, NEW look \in Looks, State!ChangeCore(size, look)
  PROVE  StateInv'
<1>1. machine' = [size |-> size, at |-> 0] /\ progress' = 0 /\ screen' = State!Beginning(look)
      /\ restored' = NoFile /\ moment' = moment /\ file' = file
  BY DEF State!ChangeCore
<1>2. machine' \in Machines
  BY <1>1 DEF Machines
<1>3. screen' \in Screens
  BY <1>1, BeginningIs
<1>4. QED  BY <1>1, <1>2, <1>3 DEF StateInv, StateTypes, State!LoadRestores

(* A state brings memory, progress and picture of one moment back, in every  *)
(* sequence of frames, saves, loads and changes of the core, whichever of    *)
(* the three programs wrote it and for every size of memory and frame:       *)
(* States.cpp's loaders find every block its writers aligned, and Util.cpp's *)
(* conversions give every pixel back.                                        *)
THEOREM StatesAlwaysRestore == Spec => []LoadRestores
<1>1. State!Init => StateInv
  <2> SUFFICES ASSUME State!Init  PROVE StateInv
    OBVIOUS
  <2>1. machine \in Machines /\ moment \in Nat /\ progress = 0 /\ restored = NoFile
        /\ file = NoFile
    BY StateAssumption DEF State!Init, Machines
  <2>2. screen \in Screens
    <3> DEFINE look == CHOOSE l \in Looks : TRUE
    <3>1. look \in Looks
      BY StateAssumption
    <3>2. screen = State!Beginning(look)
      BY DEF State!Init
    <3> HIDE DEF look
    <3>3. QED  BY <3>1, <3>2, BeginningIs
  <2>3. QED  BY <2>1, <2>2 DEF StateInv, StateTypes, State!LoadRestores
<1>2. StateInv /\ [State!Next]_(State!vars) => StateInv'
  <2>1. ASSUME StateInv, UNCHANGED State!vars  PROVE StateInv'
    BY <2>1 DEF StateInv, StateTypes, State!vars, State!LoadRestores, State!Shown, State!Flipped,
               State!Flip
  <2>2. ASSUME StateInv, State!Next  PROVE StateInv'
    BY <2>2, PlayKeeps, SaveStateKeeps, RetroArchSavesKeeps, OldVersionSavesKeeps,
       LoadStateKeeps, ChangeCoreKeeps DEF State!Next
  <2>3. QED  BY <2>1, <2>2
<1>3. StateInv => LoadRestores
  BY DEF StateInv, LoadRestores
<1>4. QED  BY <1>1, <1>2, <1>3, StateRuns, PTL DEF State!Spec

-----------------------------------------------------------------------------
(* What is read of a disc: DiscImage.  Tracks and frames are counted by      *)
(* totals, loops over them by functions that a step at a time leaves no      *)
(* choice for.                                                               *)
(* What a running total is.                                                  *)
LEMMA SumsAre ==
  ASSUME NEW s \in Seq(Nat)
  PROVE  /\ Image!Totals(s) \in [0..Len(s) -> Nat] /\ Image!Totals(s)[0] = 0
         /\ \A n \in 1..Len(s) : Image!Totals(s)[n] = Image!Totals(s)[n - 1] + s[n]
<1> DEFINE len == Len(s)
           turn == [n \in 1..len |-> [x \in Nat |-> x + s[n]]]
           Solves(f) == f = [n \in 0..len |-> IF n = 0 THEN 0 ELSE f[n - 1] + s[n]]
<1>1. len \in Nat /\ \A n \in 1..len : s[n] \in Nat
  OBVIOUS
<1>2. turn \in [1..len -> [Nat -> Nat]]
  BY <1>1
<1>3. PICK f : Loop(f, Nat, 0, len, turn)
  BY <1>1, <1>2, Iterates
<1>4. \A n \in 0..len : n # 0 => n \in 1..len /\ n - 1 \in 0..len
  BY <1>1
<1>5. \A n \in 0..len : n # 0 => turn[n][f[n - 1]] = f[n - 1] + s[n]
  BY <1>3, <1>4 DEF Loop
<1>6. Solves(f)
  <2>1. \A n \in 0..len : f[n] = IF n = 0 THEN 0 ELSE f[n - 1] + s[n]
    <3> HIDE DEF turn, len
    <3>1. QED  BY <1>3, <1>5 DEF Loop
  <2> HIDE DEF turn, len
  <2>2. QED  BY <1>3, <2>1 DEF Loop
<1>7. Image!Totals(s) = CHOOSE g : Solves(g)
  BY DEF Image!Totals
<1>8. Solves(Image!Totals(s))
  <2> HIDE DEF Solves
  <2>1. QED  BY <1>6, <1>7
<1> DEFINE t == Image!Totals(s)
<1> HIDE DEF t
<1>9. t = [n \in 0..len |-> IF n = 0 THEN 0 ELSE t[n - 1] + s[n]]
  BY <1>8 DEF t
<1>10. t[0] = 0 /\ \A n \in 1..len : t[n] = t[n - 1] + s[n]
  <2>1. 0 \in 0..len /\ \A n \in 1..len : n \in 0..len /\ n # 0
    BY <1>1
  <2> HIDE DEF len
  <2>2. QED  BY <1>9, <2>1
<1> DEFINE G == {n \in 0..len : t[n] \in Nat}
<1>11. \A n \in 1..len : n - 1 \in G => n \in G
  BY <1>1, <1>10
<1>12. \A n \in 0..len : n \in G
  <2>1. 0 \in G
    BY <1>1, <1>10
  <2> HIDE DEF G, len
  <2>2. QED  BY <1>1, <1>11, <2>1, StepByStep
<1>13. t \in [0..len -> Nat]
  <2> HIDE DEF len
  <2>1. QED  BY <1>9, <1>12
<1>14. QED  BY <1>10, <1>13 DEF t

(* Totals never shrink.                                                      *)
LEMMA SumsGrow ==
  ASSUME NEW s \in Seq(Nat)
  PROVE  \A j \in 0..Len(s) : \A i \in 0..j : Image!Totals(s)[i] <= Image!Totals(s)[j]
<1> DEFINE t == Image!Totals(s)
           len == Len(s)
           G == {j \in 0..len : \A i \in 0..j : t[i] <= t[j]}
<1>1. /\ len \in Nat /\ t \in [0..len -> Nat]
      /\ \A n \in 1..len : t[n] = t[n - 1] + s[n] /\ s[n] \in Nat
  BY SumsAre
<1> HIDE DEF t, len
<1>2. 0 \in G
  BY <1>1
<1>3. ASSUME NEW j \in 1..len, j - 1 \in G  PROVE j \in G
  <2>1. t[j] = t[j - 1] + s[j] /\ s[j] \in Nat /\ t[j] \in Nat /\ t[j - 1] \in Nat
    BY <1>1
  <2>2. ASSUME NEW i \in 0..j  PROVE t[i] <= t[j]
    <3>1. CASE i = j
      BY <2>1, <3>1
    <3>2. CASE i # j
      <4>1. i \in 0..(j - 1) /\ i \in 0..len
        BY <1>1, <3>2
      <4>2. t[i] <= t[j - 1] /\ t[i] \in Nat
        BY <1>1, <1>3, <4>1
      <4>3. QED  BY <2>1, <4>2
    <3>3. QED  BY <3>1, <3>2
  <2>3. j \in 0..len
    BY <1>1
  <2>4. QED  BY <2>2, <2>3
<1>4. \A j \in 0..len : j \in G
  <2> HIDE DEF G
  <2>1. QED  BY <1>1, <1>2, <1>3, StepByStep
<1>5. QED  BY <1>4 DEF t, len

(* How long the tracks are, and what they take of the image.                 *)
Lengths(d) == [k \in DOMAIN d.tracks |-> d.tracks[k].frames]
Spaces(d)  == [k \in DOMAIN d.tracks |-> d.tracks[k].pregap + Image!Padded(d.tracks[k].frames)]

(* A track's fields, by the assumption on images.                            *)
LEMMA TrackHas ==
  ASSUME NEW d \in Images
  PROVE  /\ Len(d.tracks) \in Nat \ {0} /\ DOMAIN d.tracks = 1..Len(d.tracks)
         /\ d.perHunk \in Nat \ {0}
         /\ \A i \in 1..Len(d.tracks) :
              /\ d.tracks[i].number \in Nat /\ d.tracks[i].frames \in Nat
              /\ d.tracks[i].pregap \in Nat
              /\ d.tracks[i].form.header \in Nat /\ d.tracks[i].form.size \in Nat \ {0}
              /\ d.tracks[i].form.header + d.tracks[i].form.size <= 2448
BY ImageAssumption DEF Image!Unit

(* Padding adds frames, and never takes any away.                            *)
LEMMA PaddedHolds == ASSUME NEW f \in Nat  PROVE Image!Padded(f) \in Nat /\ Image!Padded(f) >= f
BY DEF Image!Padded

(* Where a track lies: its sectors follow those of the track before it, its  *)
(* frames come after that one's padding and its own pregap.                  *)
LEMMA TracksLie ==
  ASSUME NEW d \in Images
  PROVE  /\ Image!SectorsBefore(d.tracks, 1) = 0 /\ Image!FramesBefore(d.tracks, 1) = 0
         /\ \A i \in 1..(Len(d.tracks) + 1) : /\ Image!SectorsBefore(d.tracks, i) \in Nat
                                              /\ Image!FramesBefore(d.tracks, i) \in Nat
         /\ \A i \in 1..Len(d.tracks) :
              /\ Image!SectorsBefore(d.tracks, i + 1)
                   = Image!SectorsBefore(d.tracks, i) + d.tracks[i].frames
              /\ Image!FramesBefore(d.tracks, i + 1)
                   = Image!FramesBefore(d.tracks, i) + d.tracks[i].pregap
                       + Image!Padded(d.tracks[i].frames)
              /\ Image!FramesBefore(d.tracks, i + 1)
                   <= Image!FramesBefore(d.tracks, Len(d.tracks) + 1)
<1> DEFINE len == Len(d.tracks)
           a == Lengths(d)
           b == Spaces(d)
<1>1. len \in Nat \ {0} /\ DOMAIN d.tracks = 1..len
  BY TrackHas
<1>2. \A i \in 1..len : /\ d.tracks[i].frames \in Nat
                        /\ d.tracks[i].pregap + Image!Padded(d.tracks[i].frames) \in Nat
  <2>1. ASSUME NEW i \in 1..len
        PROVE  /\ d.tracks[i].frames \in Nat
               /\ d.tracks[i].pregap + Image!Padded(d.tracks[i].frames) \in Nat
    <3>1. d.tracks[i].frames \in Nat /\ d.tracks[i].pregap \in Nat
      BY <2>1, TrackHas
    <3>2. Image!Padded(d.tracks[i].frames) \in Nat
      BY <3>1, PaddedHolds
    <3>3. QED  BY <3>1, <3>2
  <2>2. QED  BY <2>1
<1>3. a \in Seq(Nat) /\ Len(a) = len /\ \A i \in 1..len : a[i] = d.tracks[i].frames
  <2> HIDE DEF len
  <2>1. a = [i \in 1..len |-> d.tracks[i].frames]
    BY <1>1 DEF Lengths
  <2> HIDE DEF a
  <2>2. QED  BY <1>1, <1>2, <2>1
<1>4. /\ b \in Seq(Nat) /\ Len(b) = len
      /\ \A i \in 1..len : b[i] = d.tracks[i].pregap + Image!Padded(d.tracks[i].frames)
  <2> HIDE DEF len
  <2>1. b = [i \in 1..len |-> d.tracks[i].pregap + Image!Padded(d.tracks[i].frames)]
    BY <1>1 DEF Spaces
  <2> HIDE DEF b
  <2>2. QED  BY <1>1, <1>2, <2>1
<1>5. \A i : /\ Image!SectorsBefore(d.tracks, i) = Image!Totals(a)[i - 1]
             /\ Image!FramesBefore(d.tracks, i) = Image!Totals(b)[i - 1]
  BY DEF Image!SectorsBefore, Image!FramesBefore, Lengths, Spaces
<1> DEFINE ta == Image!Totals(a)
           tb == Image!Totals(b)
<1> HIDE DEF a, b
<1>6. /\ ta \in [0..len -> Nat] /\ ta[0] = 0 /\ \A n \in 1..len : ta[n] = ta[n - 1] + a[n]
      /\ tb \in [0..len -> Nat] /\ tb[0] = 0 /\ \A n \in 1..len : tb[n] = tb[n - 1] + b[n]
  BY <1>3, <1>4, SumsAre
<1>7. \A i \in 0..len : tb[i] <= tb[len]
  <2>1. len \in 0..len
    BY <1>1
  <2>2. QED  BY <1>4, <2>1, SumsGrow
<1>8. \A i : /\ Image!SectorsBefore(d.tracks, i) = ta[i - 1]
             /\ Image!FramesBefore(d.tracks, i) = tb[i - 1]
  BY <1>5
<1> HIDE DEF ta, tb
<1>9. Image!SectorsBefore(d.tracks, 1) = 0 /\ Image!FramesBefore(d.tracks, 1) = 0
  BY <1>6, <1>8
<1>10. ASSUME NEW i \in 1..(len + 1)
       PROVE  Image!SectorsBefore(d.tracks, i) \in Nat /\ Image!FramesBefore(d.tracks, i) \in Nat
  <2>1. i - 1 \in 0..len
    BY <1>1, <1>10
  <2>2. QED  BY <1>6, <1>8, <2>1
<1>11. ASSUME NEW i \in 1..len
       PROVE  /\ Image!SectorsBefore(d.tracks, i + 1)
                   = Image!SectorsBefore(d.tracks, i) + d.tracks[i].frames
              /\ Image!FramesBefore(d.tracks, i + 1)
                   = Image!FramesBefore(d.tracks, i) + d.tracks[i].pregap
                       + Image!Padded(d.tracks[i].frames)
              /\ Image!FramesBefore(d.tracks, i + 1) <= Image!FramesBefore(d.tracks, len + 1)
  <2>1. i \in 0..len /\ i - 1 \in 0..len /\ (i + 1) - 1 = i /\ (len + 1) - 1 = len
    BY <1>1, <1>11
  <2>2. ta[i] = ta[i - 1] + d.tracks[i].frames
    BY <1>3, <1>6, <1>11
  <2>3. tb[i] = tb[i - 1] + d.tracks[i].pregap + Image!Padded(d.tracks[i].frames)
    <3>1. tb[i] = tb[i - 1] + b[i] /\ tb[i - 1] \in Nat
      BY <1>6, <1>11, <2>1
    <3>2. b[i] = d.tracks[i].pregap + Image!Padded(d.tracks[i].frames)
      BY <1>4, <1>11
    <3>3. d.tracks[i].pregap \in Nat /\ Image!Padded(d.tracks[i].frames) \in Nat
      <4>1. d.tracks[i].pregap \in Nat /\ d.tracks[i].frames \in Nat
        BY <1>11, TrackHas
      <4>2. QED  BY <4>1, PaddedHolds
    <3>4. QED  BY <3>1, <3>2, <3>3
  <2>4. QED  BY <1>7, <1>8, <2>1, <2>2, <2>3
<1>12. QED  BY <1>9, <1>10, <1>11

(* What is known of a track that has been reached.                           *)
MetadataOf(d, i) ==
  Image!GetMetadata(d, i, Image!SectorsBefore(d.tracks, i),
                    Image!FramesBefore(d.tracks, i) + d.tracks[i].pregap)

Reached(d, i, s) ==
  /\ s.sector = Image!SectorsBefore(d.tracks, i + 1)
  /\ s.frame = Image!FramesBefore(d.tracks, i + 1)
  /\ i > 0 => s.metadata = MetadataOf(d, i)

(* What the loop over the tracks passes from one to the next.                *)
Places(d) ==
  [metadata : {None} \cup {Image!GetMetadata(d, i, s, f) : i \in 1..Len(d.tracks), s \in Nat,
                                                           f \in Nat},
   sector : Nat, frame : Nat, size : Nat, largest : Nat]

(* From where one track lies the loop knows where the next one does.         *)
LEMMA PlaceFollows ==
  ASSUME NEW d \in Images, NEW i \in 1..Len(d.tracks), NEW s \in Places(d)
  PROVE  /\ Image!NextTrack(d, i, s) \in Places(d)
         /\ Reached(d, i - 1, s) => Reached(d, i, Image!NextTrack(d, i, s))
<1> DEFINE t == d.tracks[i]
           m == Image!GetMetadata(d, i, s.sector, s.frame + t.pregap)
<1>1. /\ t.frames \in Nat /\ t.pregap \in Nat /\ Image!Padded(t.frames) \in Nat
      /\ i \in Nat
  <2>1. t.frames \in Nat /\ t.pregap \in Nat /\ i \in Nat
    BY TrackHas
  <2>2. QED  BY <2>1, PaddedHolds
<1>2. s.sector \in Nat /\ s.frame \in Nat /\ s.size \in Nat /\ s.largest \in Nat
  BY DEF Places
<1>3. m.frames = t.frames /\ m.frame = s.frame + t.pregap
  BY DEF Image!GetMetadata
<1>4. \E j \in 1..Len(d.tracks), z \in Nat, f \in Nat : m = Image!GetMetadata(d, j, z, f)
  <2>1. s.frame + t.pregap \in Nat
    BY <1>1, <1>2
  <2>2. QED  BY <1>2, <2>1
<1> DEFINE n == Image!NextTrack(d, i, s)
<1>5. /\ n = [metadata |-> n.metadata, sector |-> n.sector, frame |-> n.frame,
              size |-> n.size, largest |-> n.largest]
      /\ n.metadata = m /\ n.sector = s.sector + t.frames
      /\ n.frame = s.frame + t.pregap + Image!Padded(t.frames)
      /\ n.size \in {t.frames, s.size} /\ n.largest \in {i, s.largest}
  <2> HIDE DEF m
  <2>1. n = [metadata |-> m, sector |-> s.sector + m.frames,
             frame |-> m.frame + Image!Padded(m.frames),
             size |-> IF m.type # "AUDIO" /\ m.frames > s.size THEN m.frames ELSE s.size,
             largest |-> IF m.type # "AUDIO" /\ m.frames > s.size THEN i ELSE s.largest]
    BY DEF Image!NextTrack, m
  <2> HIDE DEF n
  <2>2. QED  BY <1>3, <2>1
<1> HIDE DEF n, m, t
<1>6. n \in Places(d)
  <2>1. n.sector \in Nat /\ n.frame \in Nat /\ n.size \in Nat /\ n.largest \in Nat
    BY <1>1, <1>2, <1>5
  <2>2. n.metadata \in {None} \cup {Image!GetMetadata(d, j, z, f) : j \in 1..Len(d.tracks),
                                                                     z \in Nat, f \in Nat}
    BY <1>4, <1>5
  <2>3. QED  BY <1>5, <2>1, <2>2 DEF Places
<1>7. ASSUME Reached(d, i - 1, s)  PROVE Reached(d, i, n)
  <2>1. /\ s.sector = Image!SectorsBefore(d.tracks, i)
        /\ s.frame = Image!FramesBefore(d.tracks, i)
    BY <1>1, <1>7 DEF Reached
  <2>2. /\ Image!SectorsBefore(d.tracks, i + 1) = Image!SectorsBefore(d.tracks, i) + t.frames
        /\ Image!FramesBefore(d.tracks, i + 1)
             = Image!FramesBefore(d.tracks, i) + t.pregap + Image!Padded(t.frames)
    BY TracksLie DEF t
  <2>3. n.metadata = MetadataOf(d, i)
    BY <1>5, <2>1 DEF MetadataOf, m, t
  <2>4. QED  BY <1>5, <2>1, <2>2, <2>3 DEF Reached
<1>8. QED  BY <1>6, <1>7 DEF n

(* The loop over the tracks finds out where each lies.                       *)
LEMMA TracksAre ==
  ASSUME NEW d \in Images
  PROVE  \A i \in 1..Len(d.tracks) : Image!Tracks(d)[i].metadata = MetadataOf(d, i)
<1> DEFINE len == Len(d.tracks)
           start == [metadata |-> None, sector |-> 0, frame |-> 0, size |-> 0, largest |-> 1]
           turn == [i \in 1..len |-> [s \in Places(d) |-> Image!NextTrack(d, i, s)]]
           Solves(f) == f = [i \in 0..len |-> IF i = 0 THEN start
                                               ELSE Image!NextTrack(d, i, f[i - 1])]
<1>1. len \in Nat \ {0}
  BY TrackHas
<1>2. start \in Places(d)
  BY DEF Places
<1>3. turn \in [1..len -> [Places(d) -> Places(d)]]
  <2>1. ASSUME NEW i \in 1..len  PROVE [s \in Places(d) |-> Image!NextTrack(d, i, s)]
                                        \in [Places(d) -> Places(d)]
    BY <2>1, PlaceFollows
  <2>2. QED  BY <2>1
<1>4. PICK f : Loop(f, Places(d), start, len, turn)
  <2> HIDE DEF turn, start, len
  <2>1. QED  BY <1>1, <1>2, <1>3, Iterates
<1>5. \A i \in 0..len : i # 0 => i \in 1..len /\ i - 1 \in 0..len
  BY <1>1
<1>6. \A i \in 0..len : i # 0 => turn[i][f[i - 1]] = Image!NextTrack(d, i, f[i - 1])
  <2>1. ASSUME NEW i \in 0..len, i # 0
        PROVE  turn[i][f[i - 1]] = Image!NextTrack(d, i, f[i - 1])
    <3>1. i \in 1..len /\ f[i - 1] \in Places(d)
      BY <1>4, <1>5, <2>1 DEF Loop
    <3>2. QED  BY <3>1
  <2>2. QED  BY <2>1
<1>7. Solves(f)
  <2>1. \A i \in 0..len : f[i] = IF i = 0 THEN start ELSE Image!NextTrack(d, i, f[i - 1])
    <3> HIDE DEF turn, len, start
    <3>1. QED  BY <1>4, <1>5, <1>6 DEF Loop
  <2> HIDE DEF turn, len, start
  <2>2. QED  BY <1>4, <2>1 DEF Loop
<1>8. Image!Tracks(d) = CHOOSE g : Solves(g)
  BY DEF Image!Tracks
<1>9. Solves(Image!Tracks(d))
  <2> HIDE DEF Solves
  <2>1. QED  BY <1>7, <1>8
<1> DEFINE t == Image!Tracks(d)
<1> HIDE DEF t
<1>10. t = [i \in 0..len |-> IF i = 0 THEN start ELSE Image!NextTrack(d, i, t[i - 1])]
  BY <1>9 DEF t
<1>11. t[0] = start /\ \A i \in 1..len : t[i] = Image!NextTrack(d, i, t[i - 1])
  <2>1. 0 \in 0..len /\ \A i \in 1..len : i \in 0..len /\ i # 0
    BY <1>1
  <2> HIDE DEF len, start
  <2>2. QED  BY <1>10, <2>1
<1> DEFINE G == {i \in 0..len : t[i] \in Places(d) /\ Reached(d, i, t[i])}
<1>12. 0 \in G
  <2>1. Reached(d, 0, start)
    <3>1. start.sector = 0 /\ start.frame = 0 /\ 0 + 1 = 1 /\ ~(0 > 0)
      OBVIOUS
    <3> HIDE DEF start
    <3>2. QED  BY <3>1, TracksLie DEF Reached
  <2> HIDE DEF start
  <2>2. QED  BY <1>1, <1>2, <1>11, <2>1
<1>13. ASSUME NEW i \in 1..len, i - 1 \in G  PROVE i \in G
  <2>1. t[i - 1] \in Places(d) /\ Reached(d, i - 1, t[i - 1]) /\ i \in 0..len
    BY <1>1, <1>13
  <2>2. QED  BY <1>11, <1>13, <2>1, PlaceFollows
<1>14. \A i \in 0..len : i \in G
  <2> HIDE DEF G, len
  <2>1. QED  BY <1>1, <1>12, <1>13, StepByStep
<1>15. ASSUME NEW i \in 1..len  PROVE t[i].metadata = MetadataOf(d, i)
  <2>1. i \in 0..len /\ i > 0
    BY <1>1, <1>15
  <2>2. Reached(d, i, t[i])
    BY <1>14, <2>1
  <2>3. QED  BY <2>1, <2>2 DEF Reached
<1>16. QED  BY <1>15 DEF t

-----------------------------------------------------------------------------
(* Some numbers have a least one, and only one.                              *)
LEMMA LeastIs ==
  ASSUME NEW S, S \subseteq Nat, S # {}
  PROVE  /\ Image!Least(S) \in S
         /\ {i \in S : \A j \in S : i <= j} = {Image!Least(S)}
<1>1. Image!Least(S) \in S /\ \A j \in S : Image!Least(S) <= j
  <2>1. \E i \in S : \A j \in S : i <= j
    BY HasLeast
  <2>2. QED  BY <2>1 DEF Image!Least
<1>2. QED
  <2> DEFINE l == Image!Least(S)
  <2>1. l \in S /\ \A j \in S : l <= j
    BY <1>1
  <2> HIDE DEF l
  <2>2. ASSUME NEW i \in S, \A j \in S : i <= j  PROVE i = l
    <3>1. i <= l /\ l <= i /\ i \in Nat /\ l \in Nat
      BY <2>1, <2>2
    <3>2. QED  BY <3>1
  <2>3. {i \in S : \A j \in S : i <= j} = {l}
    BY <2>1, <2>2
  <2>4. QED  BY <2>1, <2>3 DEF l

(* Which track is wanted, but for the largest.                               *)
Sought(d, asked) ==
  CASE asked = Image!FirstData -> {i \in 1..Len(d.tracks) : d.tracks[i].type # "AUDIO"}
    [] asked = Image!LastTrack -> {}
    [] asked = Image!SecondSession -> {i \in 1..Len(d.tracks) : d.tracks[i].number = 2}
    [] OTHER -> {i \in 1..Len(d.tracks) : d.tracks[i].number = asked}

(* What is asked for by other means than a number is no number.              *)
LEMMA SpecialAre ==
  /\ Image!FirstData \notin Nat /\ Image!LastTrack \notin Nat /\ Image!Largest \notin Nat
  /\ Image!SecondSession \notin Nat
  /\ Image!FirstData # Image!LastTrack /\ Image!FirstData # Image!Largest
  /\ Image!FirstData # Image!SecondSession /\ Image!LastTrack # Image!Largest
  /\ Image!LastTrack # Image!SecondSession /\ Image!Largest # Image!SecondSession
  /\ Image!Special = {Image!FirstData, Image!LastTrack, Image!Largest, Image!SecondSession}
BY DEF Image!FirstData, Image!LastTrack, Image!Largest, Image!SecondSession, Image!Special

(* What can be asked for.                                                    *)
Numbered(d) == {d.tracks[i].number : i \in DOMAIN d.tracks}

(* A number is that of one track.                                            *)
LEMMA NumberIs ==
  ASSUME NEW d \in Images, NEW n \in Nat, NEW i \in 1..Len(d.tracks), d.tracks[i].number = n
  PROVE  {k \in 1..Len(d.tracks) : d.tracks[k].number = n} = {i}
<1>1. \A k \in 1..Len(d.tracks) : d.tracks[k].number = d.tracks[i].number => k = i
  BY ImageAssumption
<1>2. QED  BY <1>1

(* The track found is the one that was meant, and where it lies is right.    *)
LEMMA FoundTrackIs ==
  ASSUME NEW d \in Images, NEW asked \in Image!Special \cup Numbered(d),
         asked # Image!Largest, Image!FindTrack(d, asked) # None
  PROVE  \E i \in 1..Len(d.tracks) :
           /\ Image!FindTrack(d, asked) = MetadataOf(d, i)
           /\ IF asked = Image!LastTrack THEN i = Len(d.tracks)
              ELSE Sought(d, asked) # {} /\ i = Image!Least(Sought(d, asked))
<1> DEFINE number == IF asked = Image!SecondSession THEN 2 ELSE asked
           W(t) == IF number \in Image!Special THEN number = Image!FirstData /\ t.type # "AUDIO"
                                               ELSE t.number = number
           found == {i \in 1..Len(d.tracks) : W(d.tracks[i])}
           last == Image!Tracks(d)[Len(d.tracks)]
<1>1. Image!FindTrack(d, asked) =
        IF found # {} THEN Image!Tracks(d)[Image!Least(found)].metadata
        ELSE IF number = Image!LastTrack THEN last.metadata
        ELSE IF number = Image!Largest
          THEN Image!GetMetadata(d, last.largest, last.metadata.sector, last.metadata.frame)
        ELSE None
  BY DEF Image!FindTrack
<1>2. Len(d.tracks) \in Nat \ {0} /\ DOMAIN d.tracks = 1..Len(d.tracks)
  BY TrackHas
<1>3. asked \in Nat \/ asked \in Image!Special
  BY <1>2, TrackHas DEF Numbered
<1>4. number # Image!Largest /\ (number = Image!LastTrack <=> asked = Image!LastTrack)
  BY SpecialAre
<1>5. found = Sought(d, asked)
  <2>1. CASE asked = Image!FirstData
    BY <2>1, SpecialAre DEF Sought
  <2>2. CASE asked = Image!LastTrack
    <3>1. number = Image!LastTrack /\ number \in Image!Special /\ number # Image!FirstData
      BY <2>2, SpecialAre
    <3>2. \A t : ~W(t)
      BY <3>1
    <3>3. Sought(d, asked) = {}
      BY <2>2, SpecialAre DEF Sought
    <3>4. QED  BY <3>2, <3>3
  <2>3. CASE asked = Image!SecondSession
    <3>1. number = 2 /\ 2 \notin Image!Special
      BY <2>3, SpecialAre
    <3>2. \A t : W(t) <=> t.number = 2
      BY <3>1
    <3>3. Sought(d, asked) = {i \in 1..Len(d.tracks) : d.tracks[i].number = 2}
      BY <2>3, SpecialAre DEF Sought
    <3>4. QED  BY <3>2, <3>3
  <2>4. CASE asked \in Nat
    <3>1. number = asked /\ asked \notin Image!Special
      BY <2>4, SpecialAre
    <3>2. \A t : W(t) <=> t.number = asked
      BY <3>1
    <3>3. Sought(d, asked) = {i \in 1..Len(d.tracks) : d.tracks[i].number = asked}
      BY <2>4, SpecialAre DEF Sought
    <3>4. QED  BY <3>2, <3>3
  <2>5. QED  BY <1>3, <2>1, <2>2, <2>3, <2>4, SpecialAre
<1> HIDE DEF found, last, number
<1>6. CASE found # {}
  <2>1. Image!Least(found) \in found
    <3>1. found \subseteq Nat
      BY DEF found
    <3>2. QED  BY <1>6, <3>1, LeastIs
  <2>2. Image!Least(found) \in 1..Len(d.tracks)
    BY <2>1 DEF found
  <2>3. Image!FindTrack(d, asked) = MetadataOf(d, Image!Least(found))
    BY <1>1, <1>6, <2>2, TracksAre
  <2>4. asked # Image!LastTrack
    BY <1>5, <1>6, SpecialAre DEF Sought
  <2>5. QED  BY <1>5, <1>6, <2>2, <2>3, <2>4
<1>7. CASE found = {}
  <2>1. number = Image!LastTrack /\ Image!FindTrack(d, asked) = last.metadata
    BY <1>1, <1>4, <1>7
  <2>2. Len(d.tracks) \in 1..Len(d.tracks)
    BY <1>2
  <2>3. last.metadata = MetadataOf(d, Len(d.tracks))
    BY <2>2, TracksAre DEF last
  <2>4. QED  BY <1>4, <2>1, <2>2, <2>3
<1>8. QED  BY <1>6, <1>7

(* What was meant by what was asked for, whatever the state.                 *)
MeantOf(d, asked) ==
  LET Data == {i \in DOMAIN d.tracks : d.tracks[i].type # "AUDIO"}
  IN CASE asked = Image!LastTrack -> {Len(d.tracks)}
       [] asked = Image!FirstData -> {i \in Data : \A j \in Data : i <= j}
       [] asked = Image!SecondSession -> {i \in DOMAIN d.tracks : d.tracks[i].number = 2}
       [] asked = Image!Largest ->
            {i \in Data : \A j \in Data : d.tracks[j].frames <= d.tracks[i].frames}
       [] OTHER -> {i \in DOMAIN d.tracks : d.tracks[i].number = asked}

(* In the present state it is what the property says.                        *)
LEMMA MeantNow == Image!Meant = MeantOf(disc, track)
BY DEF Image!Meant, MeantOf, Image!Data, Image!Numbers

(* What was meant is one track, unless there is none.                        *)
LEMMA MeantIs ==
  ASSUME NEW d \in Images, NEW asked \in Image!Special \cup Numbered(d), asked # Image!Largest,
         NEW i \in 1..Len(d.tracks),
         IF asked = Image!LastTrack THEN i = Len(d.tracks)
         ELSE Sought(d, asked) # {} /\ i = Image!Least(Sought(d, asked))
  PROVE  MeantOf(d, asked) = {i}
<1>1. Len(d.tracks) \in Nat \ {0} /\ DOMAIN d.tracks = 1..Len(d.tracks)
  BY TrackHas
<1>2. asked \in Nat \/ asked \in Image!Special
  BY <1>1, TrackHas DEF Numbered
<1>3. asked # Image!LastTrack =>
        /\ i \in Sought(d, asked)
        /\ {k \in Sought(d, asked) : \A j \in Sought(d, asked) : k <= j} = {i}
  <2>1. Sought(d, asked) \subseteq Nat
    BY DEF Sought
  <2>2. QED  BY <2>1, LeastIs
<1>4. CASE asked = Image!FirstData
  <2>1. Sought(d, asked) = {k \in DOMAIN d.tracks : d.tracks[k].type # "AUDIO"}
    BY <1>1, <1>4, SpecialAre DEF Sought
  <2>2. MeantOf(d, asked) = {k \in Sought(d, asked) : \A j \in Sought(d, asked) : k <= j}
    BY <1>4, <2>1, SpecialAre DEF MeantOf
  <2>3. QED  BY <1>3, <1>4, <2>2, SpecialAre
<1>5. CASE asked = Image!LastTrack
  BY <1>5, SpecialAre DEF MeantOf
<1>6. CASE asked = Image!SecondSession
  <2>1. MeantOf(d, asked) = {k \in 1..Len(d.tracks) : d.tracks[k].number = 2}
    BY <1>1, <1>6, SpecialAre DEF MeantOf
  <2>2. Sought(d, asked) = {k \in 1..Len(d.tracks) : d.tracks[k].number = 2}
    BY <1>6, SpecialAre DEF Sought
  <2>3. d.tracks[i].number = 2
    BY <1>3, <1>6, <2>2, SpecialAre
  <2>4. 2 \in Nat
    OBVIOUS
  <2>5. QED  BY <2>1, <2>3, <2>4, NumberIs
<1>7. CASE asked \in Nat
  <2>1. MeantOf(d, asked) = {k \in 1..Len(d.tracks) : d.tracks[k].number = asked}
    BY <1>1, <1>7, SpecialAre DEF MeantOf
  <2>2. Sought(d, asked) = {k \in 1..Len(d.tracks) : d.tracks[k].number = asked}
    BY <1>7, SpecialAre DEF Sought
  <2>3. d.tracks[i].number = asked
    BY <1>3, <1>7, <2>2, SpecialAre
  <2>4. QED  BY <1>7, <2>1, <2>3, NumberIs
<1>8. QED  BY <1>2, <1>4, <1>5, <1>6, <1>7, SpecialAre

-----------------------------------------------------------------------------
(* Reading.                                                                  *)
(* A quotient and a remainder, of the number they make.                      *)
LEMMA DivIs ==
  ASSUME NEW n \in Nat, n # 0, NEW p \in Nat, NEW i \in 0..(n - 1), NEW x, x = p * n + i
  PROVE  x % n = i /\ x \div n = p
BY DivMod

(* Which hunk a frame is in, and where in it: it is followed by the next one *)
(* in its hunk, or by the first of the next hunk.                            *)
Lies(x, p) == x \div p \in Nat /\ x % p \in 0..(p - 1) /\ x = (x \div p) * p + (x % p)
Continues(x, p) ==
  /\ x % p = p - 1 => (x + 1) \div p = x \div p + 1 /\ (x + 1) % p = 0
  /\ x % p # p - 1 => (x + 1) \div p = x \div p /\ (x + 1) % p = (x % p) + 1

LEMMA NextIn == ASSUME NEW p \in Nat, p # 0, NEW x \in Nat  PROVE Lies(x, p) /\ Continues(x, p)
<1> DEFINE q == x \div p
           r == x % p
<1>1. q \in Int /\ r \in 0..(p - 1) /\ x = p * q + r
  OBVIOUS
<1>2. q \in Nat
  <2> HIDE DEF q, r
  <2>1. SUFFICES ASSUME q <= -1  PROVE FALSE
    BY <1>1
  <2>2. p * q <= -p
    BY <1>1, <2>1
  <2>3. QED  BY <1>1, <2>2
<1>3. ASSUME r = p - 1  PROVE (x + 1) \div p = q + 1 /\ (x + 1) % p = 0
  <2> HIDE DEF q, r
  <2> DEFINE y == x + 1
  <2>1. y = (q + 1) * p + 0
    BY <1>1, <1>3
  <2>2. 0 \in 0..(p - 1) /\ q + 1 \in Nat
    BY <1>2
  <2> HIDE DEF y
  <2>3. y % p = 0 /\ y \div p = q + 1
    BY <2>1, <2>2, DivIs
  <2>4. QED  BY <2>3 DEF y
<1>4. ASSUME r # p - 1  PROVE (x + 1) \div p = q /\ (x + 1) % p = r + 1
  <2> HIDE DEF q, r
  <2>1. x + 1 = q * p + (r + 1)
    BY <1>1
  <2>2. r + 1 \in 0..(p - 1)
    BY <1>1, <1>4
  <2>3. QED  BY <1>2, <2>1, <2>2, DivMod
<1>5. x = q * p + r
  <2> HIDE DEF q, r
  <2>1. QED  BY <1>1
<1>6. /\ q \in Nat /\ r \in 0..(p - 1) /\ x = q * p + r
      /\ r = p - 1 => (x + 1) \div p = q + 1 /\ (x + 1) % p = 0
      /\ r # p - 1 => (x + 1) \div p = q /\ (x + 1) % p = r + 1
  <2> HIDE DEF q, r
  <2>1. q \in Nat /\ r \in 0..(p - 1) /\ x = q * p + r
    BY <1>1, <1>2, <1>5
  <2>2. QED  BY <1>3, <1>4, <2>1, Zenon
<1>7. QED  BY <1>6 DEF Lies, Continues

(* How sectors can be: header and data fit a frame.                          *)
IsHandle(h) ==
  /\ h.perHunk \in Nat \ {0} /\ h.header \in Nat /\ h.size \in Nat \ {0}
  /\ h.header + h.size <= 2448

(* So a header is shorter than a frame.                                      *)
LEMMA HandleHas ==
  ASSUME NEW h, IsHandle(h)
  PROVE  /\ h.perHunk \in Nat /\ h.perHunk # 0 /\ h.header \in Nat /\ h.header <= 2447
         /\ h.size \in Nat /\ h.size # 0 /\ h.header + h.size <= 2448
BY DEF IsHandle

(* How far a read that began at a frame is after n frames.                   *)
After(h, g, bytes, n) ==
  Image!Step((g + n) \div h.perHunk, ((g + n) % h.perHunk) * Image!Unit + h.header,
             bytes - n * h.size)

(* After a frame, the read goes on where the next frame of the image begins  *)
(* its data, in the same hunk or another.                                    *)
LEMMA FrameFollows ==
  ASSUME NEW h, IsHandle(h), h.header > 0, NEW g \in Nat, NEW bytes \in Nat, NEW n \in Nat, n # 0
  PROVE  Image!NextFrame(h, After(h, g, bytes, n - 1)) = After(h, g, bytes, n)
<1> DEFINE p == h.perHunk
           head == h.header
           z == h.size
           x == g + (n - 1)
           y == g + n
           q == x \div p
           r == x % p
           rest == bytes - (n - 1) * z
           s == After(h, g, bytes, n - 1)
<1>1. p \in Nat /\ p # 0 /\ head \in 1..2447 /\ z \in Nat
  <2>1. p \in Nat /\ p # 0 /\ head \in Nat /\ head <= 2447 /\ z \in Nat
    BY HandleHas
  <2>2. head > 0
    OBVIOUS
  <2> HIDE DEF p, head, z
  <2>3. QED  BY <2>1, <2>2
<1>2. x \in Nat /\ x + 1 = y
  OBVIOUS
<1>3. s = Image!Step(q, r * 2448 + head, rest)
  BY DEF After, Image!Unit
<1>4. After(h, g, bytes, n) = Image!Step(y \div p, (y % p) * 2448 + head, bytes - n * z)
  BY DEF After, Image!Unit
<1> HIDE DEF x, y, s
<1>5. /\ q \in Nat /\ r \in 0..(p - 1)
      /\ r = p - 1 => y \div p = q + 1 /\ y % p = 0
      /\ r # p - 1 => y \div p = q /\ y % p = r + 1
  <2> HIDE DEF p
  <2>1. Lies(x, p) /\ Continues(x, p)
    BY <1>1, <1>2, NextIn
  <2>2. x + 1 = y
    BY <1>2
  <2>3. /\ q \in Nat /\ r \in 0..(p - 1)
        /\ r = p - 1 => (x + 1) \div p = q + 1 /\ (x + 1) % p = 0
        /\ r # p - 1 => (x + 1) \div p = q /\ (x + 1) % p = r + 1
    BY <2>1 DEF Lies, Continues
  <2>4. QED  BY <2>2, <2>3, Zenon
<1>6. rest - z = bytes - n * z /\ rest \in Int
  <2> HIDE DEF z
  <2>1. n * z = (n - 1) * z + z /\ (n - 1) * z \in Int /\ n * z \in Int
    BY <1>1
  <2> DEFINE a == n * z
             b == (n - 1) * z
  <2> HIDE DEF a, b
  <2>2. a = b + z /\ b \in Int /\ a \in Int
    BY <2>1 DEF a, b
  <2>3. bytes - b - z = bytes - a /\ bytes - b \in Int
    BY <1>1, <2>2
  <2>4. QED  BY <2>3 DEF a, b
<1>7. s.hunk = q /\ s.offset = r * 2448 + head /\ s.rest = rest
  <2> HIDE DEF q, r, head, rest
  <2>1. QED  BY <1>3 DEF Image!Step
<1>8. Image!NextFrame(h, s) =
        IF s.offset + 2448 > p * 2448
          THEN Image!Step(s.hunk + 1, head, s.rest - z)
          ELSE Image!Step(s.hunk, s.offset + 2448, s.rest - z)
  BY DEF Image!NextFrame, Image!Unit
<1> HIDE DEF q, r, p, head, z, rest
<1>9. CASE r = p - 1
  <2>1. s.offset + 2448 > p * 2448
    <3>1. (r * 2448 + head) + 2448 > p * 2448
      BY <1>1, <1>5, <1>9
    <3>2. QED  BY <1>7, <3>1
  <2>2. (y % p) * 2448 + head = head /\ y \div p = q + 1
    <3>1. 0 * 2448 + head = head
      BY <1>1
    <3>2. QED  BY <1>5, <1>9, <3>1
  <2>3. Image!NextFrame(h, s) = Image!Step(q + 1, head, rest - z)
    BY <1>7, <1>8, <2>1
  <2>4. QED  BY <1>4, <1>6, <2>2, <2>3 DEF s
<1>10. CASE r # p - 1
  <2>1. ~(s.offset + 2448 > p * 2448)
    <3>1. ~((r * 2448 + head) + 2448 > p * 2448)
      BY <1>1, <1>5, <1>10
    <3>2. QED  BY <1>7, <3>1
  <2>2. (y % p) * 2448 + head = s.offset + 2448 /\ y \div p = q
    <3>1. (r + 1) * 2448 + head = (r * 2448 + head) + 2448
      BY <1>1, <1>5
    <3>2. QED  BY <1>5, <1>7, <1>10, <3>1
  <2>3. Image!NextFrame(h, s) = Image!Step(q, s.offset + 2448, rest - z)
    BY <1>7, <1>8, <2>1
  <2>4. QED  BY <1>4, <1>6, <2>2, <2>3 DEF s
<1>11. QED  BY <1>9, <1>10

(* How many frames there are before the last of a read.                      *)
LEMMA LastIs ==
  ASSUME NEW h, IsHandle(h), NEW bytes \in Nat, bytes # 0
  PROVE  LET k == Image!LastFrame(h, bytes)
         IN /\ k \in Nat /\ k * h.size <= bytes - 1 /\ bytes <= k * h.size + h.size
            /\ bytes <= h.size => k = 0
<1> DEFINE z == h.size
           k == (bytes - 1) \div z
           r == (bytes - 1) % z
<1>1. z \in Nat /\ z # 0 /\ bytes - 1 \in Nat
  BY DEF IsHandle
<1>2. k \in Nat /\ r \in 0..(z - 1) /\ bytes - 1 = k * z + r
  <2> HIDE DEF z
  <2> DEFINE w == bytes - 1
  <2> HIDE DEF w
  <2>1. Lies(w, z)
    BY <1>1, NextIn DEF w
  <2>2. QED  BY <2>1 DEF Lies, w
<1>3. bytes <= z => k = 0
  <2>1. SUFFICES ASSUME bytes <= z, k >= 1  PROVE FALSE
    BY <1>2
  <2> HIDE DEF z, k, r
  <2>2. k * z >= z
    BY <1>1, <1>2, <2>1
  <2>3. k * z \in Int
    BY <1>1, <1>2
  <2>4. QED  BY <1>1, <1>2, <2>1, <2>2, <2>3
<1>4. k * z <= bytes - 1 /\ bytes <= k * z + z
  <2> HIDE DEF z, k, r
  <2>1. k * z \in Int
    BY <1>1, <1>2
  <2>2. QED  BY <1>1, <1>2, <2>1
<1>5. QED  BY <1>2, <1>3, <1>4 DEF Image!LastFrame

(* The loop over frames, without what was before.                            *)
LEMMA FramesAre ==
  ASSUME NEW h, IsHandle(h), NEW g \in Nat, NEW bytes \in Nat, bytes # 0,
         h.header > 0 \/ bytes <= h.size
  PROVE  \A n \in 0..Image!LastFrame(h, bytes) :
           Image!Frames(h, g, bytes)[n] = After(h, g, bytes, n)
<1> DEFINE last == Image!LastFrame(h, bytes)
           start == Image!Step(g \div h.perHunk, (g % h.perHunk) * Image!Unit + h.header, bytes)
           Solves(f) == f = [n \in 0..last |-> IF n = 0 THEN start
                                                ELSE Image!NextFrame(h, f[n - 1])]
           f == [n \in 0..last |-> After(h, g, bytes, n)]
<1>1. last \in Nat /\ (bytes <= h.size => last = 0)
  BY LastIs
<1>2. start = After(h, g, bytes, 0)
  <2>1. g + 0 = g /\ h.size \in Nat
    BY DEF IsHandle
  <2>2. bytes - 0 * h.size = bytes
    BY <2>1
  <2>3. QED  BY <2>1, <2>2 DEF After
<1>3. ASSUME NEW n \in 1..last
      PROVE  Image!NextFrame(h, After(h, g, bytes, n - 1)) = After(h, g, bytes, n)
  <2>1. h.header > 0 /\ n \in Nat /\ n # 0
    BY <1>1
  <2>2. QED  BY <2>1, FrameFollows
<1>4. \A n \in 0..last : n # 0 => n \in 1..last /\ n - 1 \in 0..last
  BY <1>1
<1>5. Solves(f)
  <2> HIDE DEF last, start
  <2>1. ASSUME NEW n \in 0..last
        PROVE  f[n] = IF n = 0 THEN start ELSE Image!NextFrame(h, f[n - 1])
    <3>1. CASE n = 0
      BY <1>2, <3>1
    <3>2. CASE n # 0
      <4>1. n \in 1..last /\ n - 1 \in 0..last
        BY <1>4, <3>2
      <4>2. f[n - 1] = After(h, g, bytes, n - 1)
        BY <4>1
      <4>3. QED  BY <1>3, <3>2, <4>1, <4>2
    <3>3. QED  BY <3>1, <3>2
  <2>2. f = [n \in 0..last |-> f[n]]
    OBVIOUS
  <2> HIDE DEF f
  <2>3. QED  BY <2>1, <2>2
<1>6. Image!Frames(h, g, bytes) = CHOOSE e : Solves(e)
  BY DEF Image!Frames
<1>7. Solves(Image!Frames(h, g, bytes))
  <2> HIDE DEF Solves, f
  <2>1. QED  BY <1>5, <1>6
<1> DEFINE t == Image!Frames(h, g, bytes)
<1> HIDE DEF t
<1>8. t = [n \in 0..last |-> IF n = 0 THEN start ELSE Image!NextFrame(h, t[n - 1])]
  BY <1>7 DEF t
<1>9. t[0] = start /\ \A n \in 1..last : t[n] = Image!NextFrame(h, t[n - 1])
  <2>1. 0 \in 0..last /\ \A n \in 1..last : n \in 0..last /\ n # 0
    BY <1>1
  <2> HIDE DEF last, start
  <2>2. QED  BY <1>8, <2>1
<1> DEFINE G == {n \in 0..last : t[n] = After(h, g, bytes, n)}
<1> HIDE DEF start, f
<1>10. 0 \in G
  BY <1>1, <1>2, <1>9
<1>11. ASSUME NEW n \in 1..last, n - 1 \in G  PROVE n \in G
  <2>1. n \in 0..last
    BY <1>1
  <2>2. t[n - 1] = After(h, g, bytes, n - 1)
    BY <1>11
  <2> HIDE DEF last
  <2>3. QED  BY <1>3, <1>9, <1>11, <2>1, <2>2
<1>12. \A n \in 0..last : n \in G
  <2> HIDE DEF G, last
  <2>1. QED  BY <1>1, <1>10, <1>11, StepByStep
<1>13. QED  BY <1>12 DEF t

(* The handle of a track.                                                    *)
HandleOf(d, i, hunk) ==
  [perHunk |-> d.perHunk, firstSector |-> Image!SectorsBefore(d.tracks, i),
   firstFrame |-> Image!FramesBefore(d.tracks, i) + d.tracks[i].pregap,
   frames |-> d.tracks[i].frames, header |-> d.tracks[i].form.header,
   size |-> d.tracks[i].form.size, hunk |-> hunk, index |-> i]

(* What is copied when n frames are behind.                                  *)
CopyAfter(h, g, bytes, n) ==
  [frame |-> g + n, at |-> h.header,
   count |-> IF (n + 1) * h.size <= bytes THEN h.size ELSE bytes % h.size, inside |-> TRUE]

(* A copy takes the user data of one frame, or what is left to read of it.   *)
LEMMA CopiedIs ==
  ASSUME NEW h, IsHandle(h), NEW g \in Nat, NEW bytes \in Nat, bytes # 0,
         NEW n \in 0..Image!LastFrame(h, bytes)
  PROVE  Image!Copied(h, After(h, g, bytes, n)) = CopyAfter(h, g, bytes, n)
<1> DEFINE p == h.perHunk
           head == h.header
           z == h.size
           x == g + n
           q == x \div p
           r == x % p
           last == Image!LastFrame(h, bytes)
           offset == r * 2448 + head
           rest == bytes - n * z
<1>1. p \in Nat /\ p # 0 /\ head \in 0..2447 /\ z \in Nat /\ z # 0
  <2>1. p \in Nat /\ p # 0 /\ head \in Nat /\ head <= 2447 /\ z \in Nat /\ z # 0
    BY HandleHas
  <2> HIDE DEF p, head, z
  <2>2. QED  BY <2>1
<1>2. last \in Nat /\ last * z <= bytes - 1 /\ bytes <= last * z + z /\ n \in 0..last
  BY LastIs
<1>3. x \in Nat
  <2>1. n \in Nat
    BY <1>2
  <2>2. QED  BY <2>1
<1>4. q \in Nat /\ r \in 0..(p - 1) /\ x = q * p + r
  <2> HIDE DEF x, p
  <2>1. Lies(x, p)
    BY <1>1, <1>3, NextIn
  <2>2. QED  BY <2>1 DEF Lies
<1>5. After(h, g, bytes, n) = Image!Step(q, offset, rest)
  BY DEF After, Image!Unit
<1> HIDE DEF x, q, r, last
<1>6. offset % 2448 = head /\ offset \div 2448 = r /\ (offset < p * 2448) = TRUE
  <2>1. r \in Nat /\ 2448 \in Nat /\ 2448 # 0 /\ head \in 0..(2448 - 1)
    BY <1>1, <1>4
  <2>2. offset % 2448 = head /\ offset \div 2448 = r
    <3> HIDE DEF head
    <3>1. offset = r * 2448 + head
      OBVIOUS
    <3> HIDE DEF offset
    <3>2. QED  BY <2>1, <3>1
  <2>3. offset < p * 2448
    <3> HIDE DEF head, p
    <3>1. QED  BY <1>1, <1>4
  <2>4. QED  BY <2>2, <2>3
<1>7. (IF rest < z THEN rest ELSE z) = (IF (n + 1) * z <= bytes THEN z ELSE bytes % z)
  <2> DEFINE a == n * z
             b == (n + 1) * z
  <2> HIDE DEF z
  <2>1. a \in Nat /\ b = a + z
    <3>1. n \in Nat
      BY <1>2
    <3>2. QED  BY <1>1, <3>1
  <2>2. a <= bytes - 1
    <3>1. last - n \in Nat /\ n \in Nat
      BY <1>2
    <3>2. (last - n) * z \in Nat /\ last * z = a + (last - n) * z
      BY <1>1, <1>2, <3>1
    <3> DEFINE c == last * z
               e == (last - n) * z
    <3> HIDE DEF a, b, c, e
    <3>3. e \in Nat /\ c = a + e /\ c <= bytes - 1
      BY <1>2, <3>2 DEF c, e
    <3>4. QED  BY <2>1, <3>3
  <2>3. CASE b <= bytes
    <3>1. rest = bytes - a
      OBVIOUS
    <3> HIDE DEF a, b, rest
    <3>2. ~(rest < z)
      BY <1>1, <2>1, <2>3, <3>1
    <3>3. (IF rest < z THEN rest ELSE z) = z /\ (IF b <= bytes THEN z ELSE bytes % z) = z
      BY <2>3, <3>2
    <3>4. QED  BY <3>3 DEF b
  <2>4. CASE ~(b <= bytes)
    <3>1. rest = bytes - a /\ bytes = n * z + rest
      <4>1. rest = bytes - a /\ a = n * z
        OBVIOUS
      <4> HIDE DEF a, rest
      <4>2. QED  BY <2>1, <4>1
    <3> HIDE DEF a, b, rest
    <3>2. rest < z /\ rest \in 0..(z - 1) /\ n \in Nat
      BY <1>1, <1>2, <2>1, <2>2, <2>4, <3>1
    <3>3. bytes % z = rest
      BY <1>1, <3>1, <3>2, DivIs
    <3>4. (IF rest < z THEN rest ELSE z) = rest /\ (IF b <= bytes THEN z ELSE bytes % z) = bytes % z
      BY <2>4, <3>2
    <3>5. QED  BY <3>3, <3>4 DEF b
  <2>5. QED  BY <2>3, <2>4
<1> DEFINE s == Image!Step(q, offset, rest)
           left == IF rest < z THEN rest ELSE z
<1>8. s.hunk = q /\ s.offset = offset /\ s.rest = rest
  <2> HIDE DEF offset, rest
  <2>1. QED  BY DEF Image!Step
<1> HIDE DEF s, p, z, head, offset, rest
<1>9. Image!Copied(h, s) =
        [frame |-> q * p + offset \div 2448, at |-> offset % 2448, count |-> left,
         inside |-> offset < p * 2448]
  BY <1>8 DEF Image!Copied, Image!Unit, p, z
<1> HIDE DEF left
<1>10. Image!Copied(h, s) = [frame |-> x, at |-> head, count |-> left, inside |-> TRUE]
  <2>1. q * p + offset \div 2448 = x
    BY <1>4, <1>6
  <2> DEFINE f == q * p + offset \div 2448
             a == offset % 2448
             w == offset < p * 2448
  <2>2. f = x /\ a = head /\ w = TRUE
    BY <1>6, <2>1
  <2>3. Image!Copied(h, s) = [frame |-> f, at |-> a, count |-> left, inside |-> w]
    BY <1>9
  <2> HIDE DEF f, a, w
  <2>4. QED  BY <2>2, <2>3, Zenon
<1>11. CopyAfter(h, g, bytes, n) = [frame |-> x, at |-> head, count |-> left, inside |-> TRUE]
  BY <1>7 DEF CopyAfter, x, head, left, z
<1>12. QED  BY <1>5, <1>10, <1>11 DEF s

(* The number of hunks is such that each frame is in one.                    *)
LEMMA HunkIsThere ==
  ASSUME NEW p \in Nat, p # 0, NEW x \in Nat, NEW total \in Nat, x < total
  PROVE  x \div p < (total + p - 1) \div p
<1> DEFINE a == x \div p
           y == total + p - 1
           b == y \div p
<1>1. y \in Nat /\ y >= x + p
  OBVIOUS
<1> DEFINE r == x % p
           s == y % p
<1>2. a \in Nat /\ r \in 0..(p - 1) /\ x = a * p + r
  <2>1. Lies(x, p)
    BY NextIn
  <2>2. QED  BY <2>1 DEF Lies
<1>3. b \in Nat /\ s \in 0..(p - 1) /\ y = b * p + s
  <2> HIDE DEF y
  <2>1. Lies(y, p)
    BY <1>1, NextIn
  <2>2. QED  BY <2>1 DEF Lies
<1> HIDE DEF a, b, r, s, y
<1>4. SUFFICES ASSUME b <= a  PROVE FALSE
  BY <1>2, <1>3 DEF a, b, y
<1>5. b * p <= a * p
  BY <1>2, <1>3, <1>4
<1> DEFINE ap == a * p
           bp == b * p
<1>6. ap \in Nat /\ bp \in Nat
  BY <1>2, <1>3
<1>7. bp <= ap /\ x = ap + r /\ y = bp + s /\ r \in 0..(p - 1) /\ s \in 0..(p - 1)
  BY <1>2, <1>3, <1>5
<1> HIDE DEF ap, bp
<1>8. QED  BY <1>1, <1>6, <1>7

(* A read within the track copies its sectors' data.                         *)
LEMMA ReadIs ==
  ASSUME disc \in Images, NEW i \in 1..Len(disc.tracks), NEW hunk,
         answer.sector \in Nat, answer.bytes \in Nat, answer.bytes # 0, Image!InTrack(i),
         disc.tracks[i].form.header > 0 \/ answer.bytes <= disc.tracks[i].form.size
  PROVE  Image!ReadSector(disc, HandleOf(disc, i, hunk), answer.sector, answer.bytes)
           = Image!Expected(i)
<1> DEFINE h == HandleOf(disc, i, hunk)
           t == disc.tracks[i]
           bytes == answer.bytes
           sector == answer.sector
           first == Image!SectorsBefore(disc.tracks, i)
           frame == sector - first
           start == Image!FramesBefore(disc.tracks, i) + t.pregap
           frames == t.frames
           g == frame + start
           total == Image!FramesBefore(disc.tracks, Len(disc.tracks) + 1)
           last == Image!LastFrame(h, bytes)
           run == Image!Frames(h, g, bytes)
<1>1. /\ h.perHunk = disc.perHunk /\ h.firstSector = first /\ h.firstFrame = start
      /\ h.frames = frames /\ h.header = t.form.header /\ h.size = t.form.size
  BY DEF HandleOf
<1> HIDE DEF h
<1>2. /\ disc.perHunk \in Nat \ {0} /\ frames \in Nat /\ t.pregap \in Nat
      /\ t.form.header \in Nat /\ t.form.size \in Nat \ {0}
      /\ t.form.header + t.form.size <= 2448
  BY TrackHas
<1>3. IsHandle(h)
  BY <1>1, <1>2 DEF IsHandle
<1>4. /\ first \in Nat /\ start \in Nat /\ total \in Nat
      /\ Image!SectorsBefore(disc.tracks, i + 1) = first + frames
      /\ start + frames <= total
  <2>1. i \in 1..(Len(disc.tracks) + 1) /\ Len(disc.tracks) + 1 \in 1..(Len(disc.tracks) + 1)
    BY TrackHas
  <2>2. first \in Nat /\ Image!FramesBefore(disc.tracks, i) \in Nat /\ total \in Nat
    BY <2>1, TracksLie
  <2>3. Image!SectorsBefore(disc.tracks, i + 1) = first + frames
    BY TracksLie
  <2> DEFINE ahead == Image!FramesBefore(disc.tracks, i)
             pad == Image!Padded(frames)
             gap == t.pregap
  <2>4. Image!FramesBefore(disc.tracks, i + 1) = ahead + gap + pad
        /\ Image!FramesBefore(disc.tracks, i + 1) <= total
    BY TracksLie
  <2>5. frames \in Nat /\ gap \in Nat
    BY <1>2
  <2> HIDE DEF gap, ahead, total, frames
  <2>6. pad \in Nat /\ pad >= frames
    BY <2>5, PaddedHolds
  <2> HIDE DEF pad
  <2>7. ahead \in Nat /\ ahead + gap + pad <= total
    BY <2>2, <2>4 DEF ahead
  <2>8. ahead + gap \in Nat /\ (ahead + gap) + frames <= total
    BY <2>2, <2>5, <2>6, <2>7
  <2>9. QED  BY <2>2, <2>3, <2>8 DEF ahead, gap
<1>5. bytes \in Nat /\ bytes # 0 /\ sector \in Nat
  OBVIOUS
<1>6. last \in Nat /\ last = (bytes - 1) \div t.form.size
  <2>1. last \in Nat
    BY <1>3, LastIs
  <2>2. QED  BY <1>1, <2>1 DEF Image!LastFrame
<1>7. sector >= first /\ sector + last < first + frames
  BY <1>4, <1>6 DEF Image!InTrack
<1>8. ~(sector < h.firstSector \/ frame > h.frames) /\ frame \in Nat /\ g \in Nat
      /\ \A n \in 0..last : g + n < total /\ g + n \in Nat
  <2>1. frames \in Nat /\ last \in Nat
    BY <1>2, <1>6
  <2> HIDE DEF last, total, first, start, sector, frames
  <2>2. ~(sector < first) /\ ~(frame > frames) /\ frame \in Nat /\ g \in Nat
    <3>1. sector \in Nat /\ first \in Nat /\ start \in Nat
      BY <1>4, <1>5
    <3>2. sector >= first /\ sector + last < first + frames
      BY <1>7
    <3>3. frame \in Nat
      BY <3>1, <3>2
    <3>4. ~(sector < first)
      BY <3>1, <3>2
    <3>5. ~(frame > frames)
      BY <2>1, <3>1, <3>2
    <3>6. g \in Nat
      <4> HIDE DEF frame
      <4>1. QED  BY <3>1, <3>3
    <3>7. QED  BY <3>3, <3>4, <3>5, <3>6
  <2>3. \A n \in 0..last : g + n < total /\ g + n \in Nat
    BY <1>4, <1>5, <1>7, <2>1
  <2> HIDE DEF frame
  <2>4. QED  BY <1>1, <2>2, <2>3
<1>9. \A n \in 0..last : run[n] = After(h, g, bytes, n)
  <2>1. h.header > 0 \/ bytes <= h.size
    BY <1>1
  <2> HIDE DEF g
  <2>2. QED  BY <1>3, <1>5, <1>8, <2>1, FramesAre
<1>10. ASSUME NEW n \in 0..last  PROVE run[n].hunk < Image!Hunks(disc)
  <2>1. run[n].hunk = (g + n) \div disc.perHunk
    <3> DEFINE a == (g + n) \div h.perHunk
               b == ((g + n) % h.perHunk) * Image!Unit + h.header
               c == bytes - n * h.size
    <3>1. run[n] = Image!Step(a, b, c)
      BY <1>9 DEF After
    <3> HIDE DEF a, b, c, run
    <3>2. run[n].hunk = a
      BY <3>1 DEF Image!Step
    <3>3. QED  BY <1>1, <3>2 DEF a
  <2>2. Image!Hunks(disc) = (total + disc.perHunk - 1) \div disc.perHunk
    BY DEF Image!Hunks
  <2> DEFINE x == g + n
             p == disc.perHunk
  <2>3. x \in Nat /\ x < total /\ total \in Nat /\ p \in Nat /\ p # 0
    BY <1>2, <1>4, <1>8
  <2> HIDE DEF x, p, total, run
  <2>4. x \div p < (total + p - 1) \div p
    BY <2>3, HunkIsThere
  <2>5. QED  BY <2>1, <2>2, <2>4 DEF x, p
<1> DEFINE There(n) == \A k \in 1..n : run[k - 1].hunk < Image!Hunks(disc)
           readable == {n \in 1..(last + 1) : There(n)}
<1>11. readable = 1..(last + 1)
  <2>1. ASSUME NEW n \in 1..(last + 1), NEW k \in 1..n  PROVE run[k - 1].hunk < Image!Hunks(disc)
    <3>1. k - 1 \in 0..last
      BY <1>6
    <3> HIDE DEF last, run
    <3>2. QED  BY <1>10, <3>1
  <2> HIDE DEF last, run
  <2>2. QED  BY <2>1
<1>12. Image!ReadSector(disc, h, sector, bytes) = [n \in readable |-> Image!Copied(h, run[n - 1])]
  <2>1. g = (sector - h.firstSector) + h.firstFrame /\ frame = sector - h.firstSector
    BY <1>1
  <2>2. Image!ReadSector(disc, h, sector, bytes) =
          IF sector < h.firstSector \/ frame > h.frames THEN <<>>
          ELSE [n \in readable |-> Image!Copied(h, run[n - 1])]
    BY <2>1 DEF Image!ReadSector
  <2>3. QED  BY <1>8, <2>2
<1>13. ASSUME NEW n \in 1..(last + 1)
       PROVE  Image!Copied(h, run[n - 1]) = CopyAfter(h, g, bytes, n - 1)
  <2>1. n - 1 \in 0..last
    BY <1>6
  <2> HIDE DEF last, run, g
  <2>2. run[n - 1] = After(h, g, bytes, n - 1)
    BY <1>9, <2>1
  <2>3. Image!Copied(h, After(h, g, bytes, n - 1)) = CopyAfter(h, g, bytes, n - 1)
    BY <1>3, <1>5, <1>8, <2>1, CopiedIs DEF last
  <2>4. QED  BY <2>2, <2>3
<1>14. ASSUME NEW n \in 1..(last + 1)
       PROVE  CopyAfter(h, g, bytes, n - 1) =
                [frame |-> (start + sector - first) + n - 1, at |-> t.form.header,
                 count |-> IF n * t.form.size <= bytes THEN t.form.size ELSE bytes % t.form.size,
                 inside |-> TRUE]
  <2>1. n \in Nat /\ (n - 1) + 1 = n
    BY <1>6
  <2>2. g + (n - 1) = (start + sector - first) + n - 1
    <3> HIDE DEF start, first, sector
    <3>1. QED  BY <1>4, <1>5, <2>1
  <2> HIDE DEF g
  <2>3. QED  BY <1>1, <2>1, <2>2 DEF CopyAfter
<1>15. Image!Expected(i) =
         [n \in 1..(last + 1) |->
            [frame |-> (start + sector - first) + n - 1, at |-> t.form.header,
             count |-> IF n * t.form.size <= bytes THEN t.form.size ELSE bytes % t.form.size,
             inside |-> TRUE]]
  BY <1>6 DEF Image!Expected
<1>16. QED
  <2> HIDE DEF readable, run, last, g, start, sector, first, bytes
  <2>1. Image!ReadSector(disc, h, sector, bytes) = [n \in 1..(last + 1) |-> Image!Copied(h, run[n - 1])]
    BY <1>11, <1>12
  <2>2. [n \in 1..(last + 1) |-> Image!Copied(h, run[n - 1])] = Image!Expected(i)
    BY <1>13, <1>14, <1>15
  <2>3. QED  BY <2>1, <2>2 DEF h, sector, bytes

-----------------------------------------------------------------------------
(* A parent.                                                                 *)
(* However files are brought to the front, each remains.                     *)
Has(s, x) == \E j \in 1..Len(s) : s[j] = x
Brought(files, i, s) ==
  IF i > 1 /\ files[i].alike THEN <<files[i]>> \o s ELSE Append(s, files[i])

LEMMA BroughtHas ==
  ASSUME NEW S, NEW s \in Seq(S), NEW files, NEW i \in Nat, files[i] \in S
  PROVE  /\ Brought(files, i, s) \in Seq(S) /\ Has(Brought(files, i, s), files[i])
         /\ \A x : Has(s, x) => Has(Brought(files, i, s), x)
<1> DEFINE f == files[i]
           a == <<f>> \o s
           b == Append(s, f)
<1> HIDE DEF f
<1>1. f \in S
  BY DEF f
<1>2. a \in Seq(S) /\ Has(a, f) /\ \A x : Has(s, x) => Has(a, x)
  <2>1. a \in Seq(S) /\ Len(a) = Len(s) + 1 /\ a[1] = f /\ Len(s) \in Nat
        /\ \A j \in 1..Len(s) : a[j + 1] = s[j]
    BY <1>1
  <2> HIDE DEF a
  <2>2. Has(a, f)
    <3>1. 1 \in 1..Len(a)
      BY <2>1
    <3>2. QED  BY <2>1, <3>1 DEF Has
  <2>3. ASSUME NEW x, NEW j \in 1..Len(s), s[j] = x  PROVE Has(a, x)
    <3>1. j + 1 \in 1..Len(a) /\ a[j + 1] = x
      BY <2>1, <2>3
    <3>2. QED  BY <3>1 DEF Has
  <2>4. QED  BY <2>1, <2>2, <2>3 DEF Has
<1>3. b \in Seq(S) /\ Has(b, f) /\ \A x : Has(s, x) => Has(b, x)
  <2>1. b \in Seq(S) /\ Len(b) = Len(s) + 1 /\ b[Len(s) + 1] = f /\ Len(s) \in Nat
        /\ \A j \in 1..Len(s) : b[j] = s[j]
    BY <1>1
  <2> HIDE DEF b
  <2>2. Has(b, f)
    <3>1. Len(s) + 1 \in 1..Len(b)
      BY <2>1
    <3>2. QED  BY <2>1, <3>1 DEF Has
  <2>3. ASSUME NEW x, NEW j \in 1..Len(s), s[j] = x  PROVE Has(b, x)
    <3>1. j \in 1..Len(b) /\ b[j] = x
      BY <2>1, <2>3
    <3>2. QED  BY <3>1 DEF Has
  <2>4. QED  BY <2>1, <2>2, <2>3 DEF Has
<1> HIDE DEF a, b
<1>4. Brought(files, i, s) = IF i > 1 /\ files[i].alike THEN a ELSE b
  BY DEF Brought, a, b, f
<1>5. CASE i > 1 /\ files[i].alike
  BY <1>2, <1>4, <1>5 DEF f
<1>6. CASE ~(i > 1 /\ files[i].alike)
  BY <1>3, <1>4, <1>6 DEF f
<1>7. QED  BY <1>5, <1>6

(* So each of the files is still looked at.                                  *)
LEMMA RotatedHas ==
  ASSUME NEW files, Len(files) \in Nat, NEW S, \A i \in 1..Len(files) : files[i] \in S
  PROVE  /\ Image!Rotated(files) \in Seq(S)
         /\ \A i \in 1..Len(files) : Has(Image!Rotated(files), files[i])
<1> DEFINE len == Len(files)
           turn == [i \in 1..len |-> [s \in Seq(S) |-> Brought(files, i, s)]]
           Solves(f) == f = [i \in 0..len |-> IF i = 0 THEN <<>> ELSE Brought(files, i, f[i - 1])]
<1>1. len \in Nat
  OBVIOUS
<1>2. turn \in [1..len -> [Seq(S) -> Seq(S)]]
  <2>1. ASSUME NEW i \in 1..len
        PROVE  [s \in Seq(S) |-> Brought(files, i, s)] \in [Seq(S) -> Seq(S)]
    <3>1. i \in Nat /\ files[i] \in S
      BY <1>1
    <3>2. QED  BY <3>1, BroughtHas
  <2>2. QED  BY <2>1
<1>3. PICK f : Loop(f, Seq(S), <<>>, len, turn)
  <2>1. <<>> \in Seq(S)
    OBVIOUS
  <2> HIDE DEF turn, len
  <2>2. QED  BY <1>1, <1>2, <2>1, Iterates
<1>4. \A i \in 0..len : i # 0 => i \in 1..len /\ i - 1 \in 0..len
  BY <1>1
<1>5. \A i \in 0..len : i # 0 => turn[i][f[i - 1]] = Brought(files, i, f[i - 1])
  <2>1. ASSUME NEW i \in 0..len, i # 0  PROVE turn[i][f[i - 1]] = Brought(files, i, f[i - 1])
    <3>1. i \in 1..len /\ f[i - 1] \in Seq(S)
      BY <1>3, <1>4, <2>1 DEF Loop
    <3>2. QED  BY <3>1
  <2>2. QED  BY <2>1
<1>6. Solves(f)
  <2>1. \A i \in 0..len : f[i] = IF i = 0 THEN <<>> ELSE Brought(files, i, f[i - 1])
    <3> HIDE DEF turn, len
    <3>1. QED  BY <1>3, <1>4, <1>5 DEF Loop
  <2> HIDE DEF turn, len
  <2>2. QED  BY <1>3, <2>1 DEF Loop
<1> DEFINE t == CHOOSE g : Solves(g)
<1>7. Image!Rotated(files) = t[len]
  BY DEF Image!Rotated, Brought
<1>8. Solves(t)
  <2> HIDE DEF Solves
  <2>1. QED  BY <1>6
<1> HIDE DEF t
<1>9. t[0] = <<>> /\ \A i \in 1..len : t[i] = Brought(files, i, t[i - 1])
  <2>1. t = [i \in 0..len |-> IF i = 0 THEN <<>> ELSE Brought(files, i, t[i - 1])]
    BY <1>8
  <2>2. 0 \in 0..len /\ \A i \in 1..len : i \in 0..len /\ i # 0
    BY <1>1
  <2> HIDE DEF len
  <2>3. QED  BY <2>1, <2>2
<1> DEFINE G == {i \in 0..len : t[i] \in Seq(S) /\ \A k \in 1..i : Has(t[i], files[k])}
<1>10. 0 \in G
  <2>1. t[0] \in Seq(S) /\ 0 \in 0..len
    BY <1>1, <1>9
  <2>2. \A k \in 1..0 : FALSE
    OBVIOUS
  <2>3. QED  BY <2>1, <2>2
<1>11. ASSUME NEW i \in 1..len, i - 1 \in G  PROVE i \in G
  <2>1. /\ t[i - 1] \in Seq(S) /\ \A k \in 1..(i - 1) : Has(t[i - 1], files[k])
        /\ i \in 0..len /\ i \in Nat /\ files[i] \in S
    BY <1>1, <1>11
  <2>2. /\ t[i] \in Seq(S) /\ Has(t[i], files[i])
        /\ \A x : Has(t[i - 1], x) => Has(t[i], x)
    <3> HIDE DEF len
    <3>1. QED  BY <1>9, <1>11, <2>1, BroughtHas
  <2>3. ASSUME NEW k \in 1..i  PROVE Has(t[i], files[k])
    <3>1. CASE k = i
      BY <2>2, <3>1
    <3>2. CASE k # i
      <4>1. k \in 1..(i - 1)
        BY <2>1, <3>2
      <4>2. QED  BY <2>1, <2>2, <4>1
    <3>3. QED  BY <3>1, <3>2
  <2>4. QED  BY <2>1, <2>2, <2>3
<1>12. \A i \in 0..len : i \in G
  <2> HIDE DEF G, len
  <2>1. QED  BY <1>1, <1>10, <1>11, StepByStep
<1>13. len \in G
  BY <1>1, <1>12
<1>14. QED  BY <1>7, <1>13

(* An image opens when the parent it names is among the other files.         *)
LEMMA ParentOpens ==
  ASSUME NEW d \in Images, d.parent # None, NEW n \in 1..Len(d.files),
         d.files[n].md5 = d.parent.md5, d.files[n].sha1 = d.parent.sha1,
         d.files[n].readable, d.files[n].opens
  PROVE  Image!Opens(d)
<1> DEFINE S == {d.files[i] : i \in 1..Len(d.files)}
           files == Image!Rotated(d.files)
           f == d.files[n]
           Fits(x) == ~x.itself /\ x.readable /\ Image!SumsFit(d, x)
           fitting == {i \in DOMAIN files : Fits(files[i])}
<1>1. /\ Len(d.files) \in Nat
      /\ \A i \in 1..Len(d.files) : d.files[i] # None
      /\ \A i, k \in 1..Len(d.files) :
           /\ d.files[i].readable /\ Image!SumsFit(d, d.files[i])
           /\ d.files[k].readable /\ Image!SumsFit(d, d.files[k])
           =>
             /\ d.files[i].md5 = d.parent.md5 /\ d.files[i].sha1 = d.parent.sha1
             /\ ~d.files[i].itself /\ d.files[i].opens = d.files[k].opens
  BY ImageAssumption
<1>2. files \in Seq(S) /\ Has(files, f)
  <2>1. \A i \in 1..Len(d.files) : d.files[i] \in S
    OBVIOUS
  <2> HIDE DEF S
  <2>2. files \in Seq(S) /\ \A i \in 1..Len(d.files) : Has(files, d.files[i])
    BY <1>1, <2>1, RotatedHas
  <2>3. QED  BY <2>2
<1>3. Fits(f)
  <2>1. Image!SumsFit(d, f)
    BY DEF Image!SumsFit
  <2>2. QED  BY <1>1, <2>1, Zenon
<1>4. PICK j \in 1..Len(files) : files[j] = f
  BY <1>2 DEF Has
<1> HIDE DEF files
<1>5. DOMAIN files = 1..Len(files) /\ \A i \in 1..Len(files) : files[i] \in S
  <2> HIDE DEF S
  <2>1. QED  BY <1>2
<1>6. fitting \subseteq Nat /\ fitting # {}
  <2>1. j \in DOMAIN files /\ Fits(files[j])
    BY <1>3, <1>4, <1>5, Zenon
  <2>2. fitting # {}
    <3> HIDE DEF Fits
    <3>1. QED  BY <2>1
  <2>3. fitting \subseteq Nat
    <3> HIDE DEF Fits
    <3>1. QED  BY <1>5
  <2>4. QED  BY <2>2, <2>3
<1> DEFINE g == files[Image!Least(fitting)]
<1>7. Image!Parent(d) = g
  <2>1. Image!Parent(d) = IF fitting = {} THEN None ELSE files[Image!Least(fitting)]
    BY DEF Image!Parent, files
  <2> HIDE DEF fitting
  <2>2. QED  BY <1>6, <2>1
<1>8. Fits(g) /\ g \in S
  <2>1. Image!Least(fitting) \in fitting
    <3> HIDE DEF fitting
    <3>1. QED  BY <1>6, LeastIs
  <2> DEFINE l == Image!Least(fitting)
  <2> HIDE DEF l
  <2>2. l \in DOMAIN files /\ Fits(files[l])
    <3> HIDE DEF Fits
    <3>1. QED  BY <2>1 DEF l
  <2>3. files[l] \in S
    <3> HIDE DEF S
    <3>1. QED  BY <1>5, <2>2
  <2>4. QED  BY <2>2, <2>3 DEF l
<1> HIDE DEF g
<1>9. PICK k \in 1..Len(d.files) : g = d.files[k]
  BY <1>8
<1>10. /\ g # None /\ g.md5 = d.parent.md5 /\ g.sha1 = d.parent.sha1 /\ g.opens = f.opens
  <2>1. g.readable /\ Image!SumsFit(d, g) /\ f.readable /\ Image!SumsFit(d, f)
    BY <1>3, <1>8
  <2>2. QED  BY <1>1, <1>9, <2>1, Zenon
<1>11. g.opens
  BY <1>10, Zenon
<1>12. QED  BY <1>7, <1>10, <1>11, Zenon DEF Image!Opens

-----------------------------------------------------------------------------
(* What was read of a track, with whatever hunk in memory.                   *)
AnswerIs(i) ==
  /\ answer.sector \in Nat /\ answer.bytes \in Nat /\ answer.bytes # 0
  /\ \E hunk : answer.pieces =
       Image!ReadSector(disc, HandleOf(disc, i, hunk), answer.sector, answer.bytes)

(* A handle is of the one track that was meant, as is what was read with it. *)
ImageInv ==
  /\ disc \in Images
  /\ (handle # None \/ answer # None) /\ track # Image!Largest =>
       \E i \in 1..Len(disc.tracks) :
         /\ MeantOf(disc, track) = {i}
         /\ \E hunk : handle = HandleOf(disc, i, hunk)
         /\ answer # None => AnswerIs(i)

(* OpenTrack makes the handle of the track that was asked for.               *)
LEMMA OpenTrackKeeps ==
  ASSUME ImageInv, NEW a \in Image!Special \cup Numbered(disc), Image!OpenTrack(a)
  PROVE  ImageInv'
<1> DEFINE m == Image!FindTrack(disc, a)
           made == Image!Recognize(m.type, disc.tracks[m.index].form)
           Handle(hunk) ==
             [perHunk |-> disc.perHunk, firstSector |-> m.sector, firstFrame |-> m.frame,
              frames |-> m.frames, header |-> made[1], size |-> made[2], hunk |-> hunk,
              index |-> m.index]
<1>1. disc' = disc /\ track' = a /\ answer' = None /\ disc \in Images
  BY DEF ImageInv, Image!OpenTrack
<1>2. handle' # None => m # None /\ \E hunk : handle' = Handle(hunk)
  <2> DEFINE Guess(header, size, hunk) ==
               [perHunk |-> disc.perHunk, firstSector |-> m.sector, firstFrame |-> m.frame,
                frames |-> m.frames, header |-> header, size |-> size, hunk |-> hunk,
                index |-> m.index]
             guess == Guess(0, IF m.type = "MODE2_RAW" THEN 2336 ELSE 2352, -1)
             toc == Image!ReadSector(disc, guess, m.sector + Toc, 32)
             one == Handle(-1)
             two == Handle(Image!HunkAfter(guess, toc))
  <2>1. handle' = IF ~Image!Opens(disc) THEN None
                  ELSE IF m = None THEN None
                  ELSE IF m.type \in Image!Declared THEN one
                  ELSE IF toc = <<>> THEN None
                  ELSE two
    BY DEF Image!OpenTrack
  <2> HIDE DEF one, two, toc
  <2>2. handle' # None => m # None /\ (handle' = one \/ handle' = two)
    <3> HIDE DEF m
    <3>1. QED  BY <2>1
  <2>3. QED  BY <2>2 DEF one, two
<1>3. ASSUME handle' # None, a # Image!Largest
      PROVE  \E i \in 1..Len(disc.tracks) :
               MeantOf(disc, a) = {i} /\ \E hunk : handle' = HandleOf(disc, i, hunk)
  <2>1. m # None
    BY <1>2, <1>3
  <2>2. PICK i \in 1..Len(disc.tracks) :
          /\ m = MetadataOf(disc, i)
          /\ IF a = Image!LastTrack THEN i = Len(disc.tracks)
             ELSE Sought(disc, a) # {} /\ i = Image!Least(Sought(disc, a))
    <3> HIDE DEF m
    <3>1. QED  BY <1>1, <1>3, <2>1, FoundTrackIs DEF m
  <2>3. MeantOf(disc, a) = {i}
    BY <1>1, <1>3, <2>2, MeantIs
  <2>4. PICK hunk : handle' = Handle(hunk)
    BY <1>2, <1>3
  <2> HIDE DEF m
  <2>5. /\ m.sector = Image!SectorsBefore(disc.tracks, i)
        /\ m.frame = Image!FramesBefore(disc.tracks, i) + disc.tracks[i].pregap
        /\ m.frames = disc.tracks[i].frames /\ m.type = disc.tracks[i].type /\ m.index = i
    BY <2>2 DEF MetadataOf, Image!GetMetadata
  <2>6. made = <<disc.tracks[i].form.header, disc.tracks[i].form.size>>
    <3>1. made = Image!Recognize(disc.tracks[i].type, disc.tracks[i].form)
      BY <2>5
    <3>2. i \in DOMAIN disc.tracks
      BY <1>1, TrackHas
    <3>3. Image!Recognize(disc.tracks[i].type, disc.tracks[i].form)
            = <<disc.tracks[i].form.header, disc.tracks[i].form.size>>
      BY <1>1, <3>2, ImageAssumption
    <3>4. QED  BY <3>1, <3>3
  <2> HIDE DEF made
  <2>7. made[1] = disc.tracks[i].form.header /\ made[2] = disc.tracks[i].form.size
    BY <2>6
  <2>8. Handle(hunk) = HandleOf(disc, i, hunk)
    BY <2>5, <2>7 DEF HandleOf
  <2>9. QED  BY <2>3, <2>4, <2>8
<1>4. QED
  <2> HIDE DEF m, made, Handle
  <2>1. handle' # None /\ track' # Image!Largest =>
          \E i \in 1..Len(disc'.tracks) :
            MeantOf(disc', track') = {i} /\ \E hunk : handle' = HandleOf(disc', i, hunk)
    BY <1>1, <1>3
  <2>2. QED  BY <1>1, <2>1 DEF ImageInv

(* Read only changes which hunk is in memory.                                *)
LEMMA ReadKeepsTrack ==
  ASSUME ImageInv, NEW sector \in Nat, NEW bytes \in Nat, bytes # 0, Image!Read(sector, bytes)
  PROVE  ImageInv'
<1> DEFINE pieces == Image!ReadSector(disc, handle, sector, bytes)
           new == Image!HunkAfter(handle, pieces)
<1>1. /\ handle # None /\ disc' = disc /\ track' = track /\ disc \in Images
      /\ answer' = [sector |-> sector, bytes |-> bytes, pieces |-> pieces]
      /\ handle' = [handle EXCEPT !.hunk = new]
  BY DEF ImageInv, Image!Read
<1>2. answer'.sector = sector /\ answer'.bytes = bytes /\ answer'.pieces = pieces
  BY <1>1
<1> HIDE DEF pieces, new
<1>3. ASSUME track # Image!Largest
      PROVE  \E i \in 1..Len(disc.tracks) :
               /\ MeantOf(disc, track) = {i}
               /\ \E hunk : handle' = HandleOf(disc, i, hunk)
               /\ AnswerIs(i)'
  <2>1. PICK i \in 1..Len(disc.tracks) :
          MeantOf(disc, track) = {i} /\ \E hunk : handle = HandleOf(disc, i, hunk)
    BY <1>1, <1>3 DEF ImageInv
  <2>2. PICK hunk : handle = HandleOf(disc, i, hunk)
    BY <2>1
  <2>3. handle' = HandleOf(disc, i, new)
    BY <1>1, <2>2 DEF HandleOf
  <2>4. answer'.pieces =
          Image!ReadSector(disc, HandleOf(disc, i, hunk), answer'.sector, answer'.bytes)
    BY <1>2, <2>2 DEF pieces
  <2>5. AnswerIs(i)'
    <3>1. \E k : answer'.pieces =
            Image!ReadSector(disc', HandleOf(disc', i, k), answer'.sector, answer'.bytes)
      BY <1>1, <2>4
    <3>2. QED  BY <1>2, <3>1 DEF AnswerIs
  <2>6. QED  BY <2>1, <2>3, <2>5
<1>4. QED  BY <1>1, <1>3 DEF ImageInv

(* The invariant is inductive.                                               *)
LEMMA ImageKeeps ==
  ASSUME ImageInv, [Image!Next]_(Image!vars)
  PROVE  ImageInv'
<1>1. CASE UNCHANGED Image!vars
  <2>1. disc' = disc /\ track' = track /\ handle' = handle /\ answer' = answer
    BY <1>1 DEF Image!vars
  <2>2. \A i : AnswerIs(i) => AnswerIs(i)'
    BY <2>1 DEF AnswerIs
  <2>3. QED  BY <2>1, <2>2 DEF ImageInv
<1>2. ASSUME NEW a \in Image!Special \cup {disc.tracks[i].number : i \in DOMAIN disc.tracks},
             Image!OpenTrack(a)
      PROVE  ImageInv'
  <2>1. a \in Image!Special \cup Numbered(disc)
    BY DEF Numbered
  <2>2. QED  BY <1>2, <2>1, OpenTrackKeeps
<1>3. ASSUME NEW sector \in 0..Image!SectorsBefore(disc.tracks, Len(disc.tracks) + 1),
             NEW bytes \in Amounts, Image!Read(sector, bytes)
      PROVE  ImageInv'
  <2>1. sector \in Nat
    <3>1. disc \in Images
      BY DEF ImageInv
    <3>2. Len(disc.tracks) + 1 \in 1..(Len(disc.tracks) + 1)
      BY <3>1, TrackHas
    <3>3. Image!SectorsBefore(disc.tracks, Len(disc.tracks) + 1) \in Nat
      BY <3>1, <3>2, TracksLie
    <3>4. QED  BY <3>3
  <2>2. bytes \in Nat /\ bytes # 0
    BY ImageAssumption
  <2>3. QED  BY <1>3, <2>1, <2>2, ReadKeepsTrack
<1>4. CASE Image!CloseTrack
  BY <1>4 DEF Image!CloseTrack, ImageInv
<1>5. QED  BY <1>1, <1>2, <1>3, <1>4 DEF Image!Next

(* What the invariant says of answers is what a hash needs.                  *)
LEMMA AnswersAreRight == ASSUME ImageInv  PROVE Image!ReadsAskedTrack
<1>1. disc \in Images
  BY DEF ImageInv
<1>2. ASSUME handle # None \/ answer # None, track # Image!Largest
      PROVE  \E i \in 1..Len(disc.tracks) :
               /\ Image!Meant = {i}
               /\ \E hunk : handle = HandleOf(disc, i, hunk)
               /\ answer # None => AnswerIs(i)
  BY <1>2, MeantNow DEF ImageInv
<1>3. handle # None /\ track # Image!Largest => handle.index \in Image!Meant
  <2> SUFFICES ASSUME handle # None, track # Image!Largest  PROVE handle.index \in Image!Meant
    OBVIOUS
  <2>1. PICK i \in 1..Len(disc.tracks) :
          Image!Meant = {i} /\ \E hunk : handle = HandleOf(disc, i, hunk)
    BY <1>2
  <2>2. handle.index = i
    BY <2>1 DEF HandleOf
  <2>3. QED  BY <2>1, <2>2
<1>4. ASSUME answer # None, track # Image!Largest, NEW n \in Image!Meant, Image!InTrack(n),
             handle.header > 0 \/ answer.bytes <= handle.size
      PROVE  answer.pieces = Image!Expected(n)
  <2>1. PICK i \in 1..Len(disc.tracks) :
          /\ Image!Meant = {i} /\ \E hunk : handle = HandleOf(disc, i, hunk)
          /\ AnswerIs(i)
    BY <1>2, <1>4
  <2>2. n = i
    BY <1>4, <2>1
  <2>3. handle.header = disc.tracks[i].form.header /\ handle.size = disc.tracks[i].form.size
    BY <2>1 DEF HandleOf
  <2>4. PICK hunk : answer.pieces =
          Image!ReadSector(disc, HandleOf(disc, i, hunk), answer.sector, answer.bytes)
    BY <2>1 DEF AnswerIs
  <2>5. answer.sector \in Nat /\ answer.bytes \in Nat /\ answer.bytes # 0
    BY <2>1 DEF AnswerIs
  <2>6. disc.tracks[i].form.header > 0 \/ answer.bytes <= disc.tracks[i].form.size
    BY <1>4, <2>3
  <2>7. Image!InTrack(i)
    BY <1>4, <2>2
  <2>8. QED  BY <1>1, <2>2, <2>4, <2>5, <2>6, <2>7, ReadIs
<1>5. ASSUME NEW f \in Image!ToSet(IF disc.parent = None THEN <<>> ELSE disc.files),
             f.md5 = disc.parent.md5, f.sha1 = disc.parent.sha1, f.readable, f.opens
      PROVE  Image!Opens(disc)
  <2>1. CASE disc.parent = None
    BY <2>1 DEF Image!Opens
  <2>2. CASE disc.parent # None
    <3>1. DOMAIN disc.files = 1..Len(disc.files)
      BY <1>1, ImageAssumption
    <3>2. PICK n \in 1..Len(disc.files) : f = disc.files[n]
      BY <2>2, <3>1 DEF Image!ToSet
    <3>3. QED  BY <1>1, <1>5, <2>2, <3>2, ParentOpens, Zenon
  <2>3. QED  BY <2>1, <2>2
<1>6. QED  BY <1>3, <1>4, <1>5 DEF Image!ReadsAskedTrack

(* Beside the other parts images are read as they are alone.                 *)
LEMMA ImageRuns == Spec => Image!Spec
<1>1. Init => Image!Init
  BY DEF Init
<1>2. [Next]_vars => [Image!Next]_(Image!vars)
  <2>1. ASSUME OthersStay, which # "image"  PROVE UNCHANGED Image!vars
    BY <2>1 DEF OthersStay, imageVars, Image!vars
  <2>2. ASSUME Next  PROVE Image!Next \/ UNCHANGED Image!vars
    BY <2>1, <2>2 DEF Next
  <2>3. UNCHANGED vars => UNCHANGED Image!vars
    BY DEF vars, imageVars, Image!vars
  <2>4. QED  BY <2>2, <2>3
<1>3. QED  BY <1>1, <1>2, PTL DEF Spec, Image!Spec

(* A hash of a compressed disc is made of the track that was asked for, but  *)
(* for the largest: of the user data of just the sectors asked for, however  *)
(* tracks are padded and frames are packed in hunks; and an image whose      *)
(* parent is there can be opened: rc_hash_find_chd_track, rc_hash_handle_chd_*)
(* open_track and read_sector.                                               *)
THEOREM AskedTracksAreRead == Spec => []ReadsAskedTrack
<1>1. Image!Init => ImageInv
  BY DEF Image!Init, ImageInv
<1>2. ImageInv /\ [Image!Next]_(Image!vars) => ImageInv'
  BY ImageKeeps
<1>3. ImageInv => ReadsAskedTrack
  BY AnswersAreRight DEF ReadsAskedTrack
<1>4. QED  BY <1>1, <1>2, <1>3, ImageRuns, PTL DEF Image!Spec
=============================================================================
