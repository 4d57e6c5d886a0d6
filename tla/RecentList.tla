----------------------------- MODULE RecentList -----------------------------
(***************************************************************************)
(* The list of recent games that Application keeps, shows in its menu and  *)
(* saves between sessions.  An item names a file and the emulator (a core  *)
(* for a system) that ran it.  A zip whose core wants a plain file is      *)
(* extracted next to itself and loaded by a nested loadGame, so the name   *)
(* of a file that will be deleted passes through the list.                 *)
(***************************************************************************)
EXTENDS Naturals, SequencesExt

CONSTANTS
  Files,       \* the files a user may open
  Zips,        \* those of them that are zip archives
  Emulators,   \* the pairs of a core and a system
  Extracting,  \* those whose core wants a zip's content extracted
  Extracted,   \* the name a zip's content is extracted to, which is not in Files
  NoItem,      \* no game is loaded
  MaxRecent    \* how many items the list and its menu hold (10)

VARIABLES
  recent,   \* Application::_recentList
  playing,  \* what the user last loaded, or NoItem once that failed
  history   \* of every item loaded so far, the items loaded before it

vars == <<recent, playing, history>>

(* loadConfiguration: what an earlier session saved, at first nothing.     *)
Init == recent = <<>> /\ playing = NoItem /\ history = [item \in {} |-> {}]

-----------------------------------------------------------------------------
ToFront(list, i) == <<list[i]>> \o RemoveAt(list, i)

(* A load that succeeds puts its item in front, and lets the last one go.  *)
Remember(list, item) ==
  IF Contains(list, item) THEN ToFront(list, SelectInSeq(list, LAMBDA x: x = item))
  ELSE <<item>> \o SubSeq(list, 1, IF Len(list) = MaxRecent THEN MaxRecent - 1
                                                            ELSE Len(list))

(* The item of a zip goes to the front, and the item at the place it was   *)
(* found at takes the name of the extracted file.                          *)
Rename(list, item) ==
  LET i == SelectInSeq(list, LAMBDA x: x = item)
  IN  IF i = 0 THEN list
      ELSE [ToFront(list, i) EXCEPT ![i].path = Extracted[item.path]]

(* loadGame extracts the file, since the core neither reads zips nor       *)
(* refuses to have them extracted.                                         *)
Extracts(item) == item.path \in Zips /\ item.emulator \in Extracting

(* Whether a load fails is for Frontend to say; here it just may.          *)
LoadPlain(item, ok) ==
  /\ ~Extracts(item)
  /\ recent' = IF ok THEN Remember(recent, item) ELSE recent

(* Mutant: the name of the zip is not put back.                            *)
LoadZipUnrestored(item, ok) ==
  /\ Extracts(item)
  /\ recent' = IF ok THEN Remember(Rename(recent, item),
                            [item EXCEPT !.path = Extracted[item.path]])
                     ELSE recent

LoadZip(item, ok) ==
  /\ Extracts(item)
  /\ LET extracted == [item EXCEPT !.path = Extracted[item.path]]
         renamed   == Rename(recent, item)
     IN  recent' =
           IF ok THEN [Remember(renamed, extracted) EXCEPT ![1].path = item.path]
           ELSE IF Contains(recent, item)
                  THEN [renamed EXCEPT ![1].path = item.path]
                  ELSE recent

(* What the user remembers: the item was loaded after all others.          *)
Loaded(item) ==
  [other \in DOMAIN history \cup {item} |->
     IF other = item THEN DOMAIN history \ {item} ELSE history[other] \ {item}]

Load(item, ok) ==
  /\ LoadPlain(item, ok) \/ LoadZip(item, ok)
  /\ playing' = IF ok THEN item ELSE NoItem
  /\ history' = IF ok THEN Loaded(item) ELSE history

(* From the file dialog, with the emulator last chosen, or from the menu;  *)
(* a file that is gone cannot be loaded.                                   *)
LoadFile ==
  \E p \in Files, e \in Emulators, ok \in BOOLEAN:
    Load([path |-> p, emulator |-> e], ok)

LoadRecent ==
  \E i \in 1..Len(recent), ok \in BOOLEAN:
    /\ recent[i].path \in Files
    /\ Load(recent[i], ok)

Next == LoadFile \/ LoadRecent

Spec == Init /\ [][Next]_vars

-----------------------------------------------------------------------------
(* The list is what its menu shows: the items loaded last, the latest      *)
(* first, each once (none was loaded before itself), as many as there is   *)
(* room for.  It is that of a user whose cores never had a zip extracted.  *)
ShowsLatest ==
  (\A item \in DOMAIN history: ~Extracts(item)) =>
    /\ \A i \in 1..Len(recent): recent[i] \in DOMAIN history
    /\ \A i, j \in 1..Len(recent): i < j => recent[j] \in history[recent[i]]
    /\ \A item \in DOMAIN history:
         \/ Contains(recent, item)
         \/ /\ Len(recent) = MaxRecent
            /\ \A i \in 1..Len(recent): item \in history[recent[i]]

(* Whatever the load went through, the game being played is in front,      *)
(* under the name the user knows it by.                                    *)
FrontIsPlayed == playing # NoItem => recent # <<>> /\ recent[1] = playing

(* The list never outgrows the ten entries of its menu, although the       *)
(* nested load may add the extracted file to it.                           *)
FitsMenu == Len(recent) <= MaxRecent

(* The menu of recent items is right in all three respects.                *)
MenuIsRight == ShowsLatest /\ FrontIsPlayed /\ FitsMenu

(* "loadGame would have put the temporary file into the recent list, update*)
(* the path to the zip because the temporary file will get deleted",       *)
(* Application.cpp: no item keeps a temporary file's name.                 *)
NoTemporaryItem == \A i \in 1..Len(recent): recent[i].path \in Files
=============================================================================
