-------------------------------- MODULE Discs --------------------------------
(* The drive: the core's discs and tray, the menu that shows them            *)
(* (Application::updateDiscMenu), the names of discs read from a playlist    *)
(* (src/src/CdRom.cpp), and what RetroAchievements is told of a disc before  *)
(* it goes in (romLoaded, src/src/Hash.cpp).  A disc is known by what        *)
(* identifying it gives.                                                     *)
EXTENDS Integers, Sequences

CONSTANTS
  Games,     \* bound: what there is to load, [discs, named, playlist], below
  Empty,     \* the label of a new item
  NoGame     \* no game was loaded

VARIABLES
  game,      \* what is being played: the discs, whether the core names them,
             \* and whether a playlist does
  drive,     \* the core's tray and current disc, counted from 1
  menu,      \* the CD-ROM menu: its labels, the item checked, which are enabled
  names,     \* Application::_discPaths: how many names there are
  saved,     \* drive, in the state that was saved
  hardcore,  \* RA_HardcoreModeIsActive
  told,      \* the drive is as the frontend last saw it
  vouched    \* the discs that were in the drive when nobody had to be asked

vars == <<game, drive, menu, names, saved, hardcore, told, vouched>>

NoDrive == [open |-> FALSE, index |-> 1]
NumDiscs == IF game = NoGame THEN 0 ELSE Len(game.discs)

-----------------------------------------------------------------------------
(* Application::getDiscLabel: the core's, or the file's name, or a text that *)
(* the code makes by stepping into a literal.                                *)
Label(g, count, i) == IF g.named \/ i <= count THEN i ELSE Empty

(* Application::updateDiscMenu: labels are only looked up when asked for.    *)
Menu(g, count, now, labels, old) ==
  [labels  |-> [i \in 1..Len(g.discs) |->
                  IF labels THEN Label(g, count, i)
                  ELSE IF i <= Len(old.labels) THEN old.labels[i] ELSE Empty],
   checked |-> now.index,
   discs   |-> now.open,
   tray    |-> g.discs # <<>>]

UpdateDiscMenu(labels) ==
  /\ menu' = Menu(game', names', drive', labels, menu)
  /\ told' = TRUE

(* Application::loadCore empties the menu.                                   *)
LoadCore ==
  /\ game = NoGame
  /\ menu' = [labels |-> <<>>, checked |-> 1, discs |-> FALSE, tray |-> FALSE]
  /\ UNCHANGED <<game, drive, names, saved, hardcore, told, vouched>>

(* cdrom_get_cd_names                                                        *)
Names(g) == IF g.discs = <<>> THEN 0 ELSE IF g.playlist THEN Len(g.discs) ELSE 1

(* The end of Application::loadGame; the first disc is in the drive.         *)
LoadGame(g) ==
  /\ game = NoGame
  /\ game' = g /\ drive' = NoDrive /\ names' = Names(g)
  /\ vouched' = {1} /\ saved' = NoDrive
  /\ UpdateDiscMenu(TRUE)
  /\ UNCHANGED hardcore

(* The hash cannot be made: the menu is made from the discs of a game that   *)
(* is then unloaded.                                                         *)
LoadGameFails(g) ==
  /\ game = NoGame
  /\ names' = 0
  /\ menu' = Menu(g, 0, NoDrive, TRUE, menu)
  /\ UNCHANGED <<game, drive, saved, hardcore, told, vouched>>

UnloadGame ==
  /\ game # NoGame /\ game' = NoGame
  /\ UNCHANGED <<drive, menu, names, saved, hardcore, told, vouched>>

-----------------------------------------------------------------------------
(* Application::toggleTray.  The core may leave its tray as it is.           *)
ToggleTray ==
  /\ NumDiscs > 0
  /\ \/ drive' = [drive EXCEPT !.open = ~@]
     \/ UNCHANGED drive
  /\ UNCHANGED <<game, names, saved, hardcore, vouched>>
  /\ UpdateDiscMenu(FALSE)

(* romLoaded, changing discs: an unknown disc costs hardcore, or stays out.  *)
Asked(i) == game.named \/ i <= names
Admitted(i) ==
  \/ (Asked(i) /\ game.discs[i] = "unknown" => ~hardcore) /\ UNCHANGED hardcore
  \/ Asked(i) /\ game.discs[i] = "unknown" /\ hardcore /\ hardcore' = FALSE

(* Application::readyDisc.  Whether the core took the disc is not looked at. *)
ReadyDisc(i) ==
  /\ i # drive.index
  /\ Admitted(i)
  /\ \/ drive' = [drive EXCEPT !.index = i]
     \/ UNCHANGED drive
  /\ vouched' = IF Asked(i) THEN vouched ELSE vouched \cup {i}
  /\ UNCHANGED <<game, names, saved>>
  /\ UpdateDiscMenu(FALSE)

(* Mutant: the menu is made before the core has the disc.                    *)
MenuReadiesDiscLate(i) ==
  /\ game # NoGame /\ menu.discs /\ i \in 1..Len(menu.labels) /\ i # drive.index
  /\ Admitted(i)
  /\ drive' = [drive EXCEPT !.index = i]
  /\ menu' = Menu(game, names, drive, FALSE, menu) /\ told' = TRUE
  /\ UNCHANGED <<game, names, saved, vouched>>

(* An item of the menu; it is enabled when the menu last saw the tray open.  *)
(* The items outlive their game; what a core without a game answers to them  *)
(* is its own affair, and left out.                                          *)
MenuReadiesDisc(i) ==
  /\ game # NoGame /\ menu.discs /\ i \in 1..Len(menu.labels)
  /\ ReadyDisc(i)

(* Application::readyNextDisc                                                *)
ReadyNextDisc(offset) ==
  /\ NumDiscs > 0 /\ drive.open
  /\ ReadyDisc(((drive.index - 1 + NumDiscs + offset) % NumDiscs) + 1)

-----------------------------------------------------------------------------
(* States keep the core's drive.  Loading one costs hardcore.                *)
SaveState ==
  /\ game # NoGame /\ saved' = drive
  /\ UNCHANGED <<game, drive, menu, names, hardcore, told, vouched>>

(* Application::loadState                                                    *)
LoadState ==
  /\ game # NoGame /\ drive' = saved /\ hardcore' = FALSE
  /\ UNCHANGED <<game, names, saved, vouched>>
  /\ UpdateDiscMenu(FALSE)

(* The core opens its tray, or changes discs, on its own.                    *)
CoreChanges(now) ==
  /\ NumDiscs > 0 /\ now.index <= NumDiscs /\ now # drive
  /\ drive' = now /\ told' = FALSE
  /\ vouched' = vouched \cup {now.index}
  /\ UNCHANGED <<game, menu, names, saved, hardcore>>

(* The user turns hardcore on, whatever disc is in, or off.                  *)
SetHardcore(on) ==
  /\ hardcore' = on
  /\ vouched' = IF on THEN vouched \cup {drive.index} ELSE vouched
  /\ UNCHANGED <<game, drive, menu, names, saved, told>>

-----------------------------------------------------------------------------
Init ==
  /\ game = NoGame /\ drive = NoDrive /\ saved = NoDrive /\ names = 0
  /\ menu = [labels |-> <<>>, checked |-> 1, discs |-> FALSE, tray |-> FALSE]
  /\ hardcore = TRUE /\ told = TRUE /\ vouched = {}

Next ==
  \/ LoadCore \/ UnloadGame
  \/ \E g \in Games : LoadGame(g) \/ LoadGameFails(g)
  \/ ToggleTray \/ SaveState \/ LoadState
  \/ \E i \in 1..Len(menu.labels) : MenuReadiesDisc(i)
  \/ \E offset \in {-1, 1} : ReadyNextDisc(offset)
  \/ \E i \in 1..NumDiscs, open \in BOOLEAN : CoreChanges([open |-> open, index |-> i])
  \/ \E on \in BOOLEAN : SetHardcore(on)

Spec == Init /\ [][Next]_vars

-----------------------------------------------------------------------------
(* The menu shows the discs of the present game by their own labels, checks  *)
(* the one that is in and lets another be chosen when the tray is open,      *)
(* through loaded states and failed changes, unless the core changed its     *)
(* drive without a word.                                                     *)
MenuShowsDrive ==
  game # NoGame /\ told =>
    /\ menu = Menu(game, names, drive, TRUE, menu)
    /\ \A i \in DOMAIN menu.labels : Asked(i) => menu.labels[i] = i

(* In hardcore no unknown disc is in the drive that was not in when the game *)
(* began or hardcore was turned on, or put there by the core, or nameless.   *)
HardcoreKnowsDisc ==
  game # NoGame /\ hardcore /\ game.discs # <<>> =>
    game.discs[drive.index] # "unknown" \/ drive.index \in vouched

DrivesAgree == MenuShowsDrive /\ HardcoreKnowsDisc
=============================================================================
