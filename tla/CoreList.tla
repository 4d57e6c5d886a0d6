------------------------------- MODULE CoreList -------------------------------
(* The cores that can be loaded: the list read from cores.json, the dialog   *)
(* that downloads and deletes them (both src/src/Emulator.cpp), and the menu *)
(* of systems and their cores (Application::buildSystemsMenu).  A core that  *)
(* serves several systems may be on the list several times.                  *)
EXTENDS Integers, Sequences, FiniteSets

CONSTANTS
  Entries,   \* s_coreInfos: what the list says of each core, in its order
  Absent,    \* the files that are not there at the start
  None       \* no core

VARIABLES
  disk,      \* each core's file: 0 if there is none, 1 if old, 2 if new
  filetime,  \* CoreInfo::filetime of each entry
  servers,   \* the server's list of cores was fetched
  menu,      \* the items of the menu
  dialog,    \* the dialog: whether it is shown, and whether anything changed
  chosen,    \* the item that is loaded once the dialog is closed
  loaded,    \* Application::_coreName
  system     \* Application::_system

vars == <<disk, filetime, servers, menu, dialog, chosen, loaded, system>>

Closed == [shown |-> FALSE, modified |-> FALSE]
Listed == DOMAIN Entries
Files  == {Entries[i].file : i \in Listed}
First(S) == CHOOSE n \in S : \A m \in S : n <= m

-----------------------------------------------------------------------------
(* encodeCoreName and getCoreName: a core and one of its systems as a number *)
(* that a menu item can carry.  Systems are a std::set, in ascending order.  *)
Place(systems, s) == Cardinality({r \in systems : r < s})

EncodeCoreName(name, s) ==
  LET found == {n \in Listed : Entries[n].name = name /\ s \in Entries[n].systems}
      i     == First(found)
  IN IF found = {} THEN 0 ELSE Place(Entries[i].systems, s) * Len(Entries) + (i - 1)

GetCoreName(id) ==
  LET i == (id % Len(Entries)) + 1
      n == id \div Len(Entries)
      systems == Entries[i].systems
      j == IF n > Cardinality(systems) THEN 0 ELSE n
  IN [file |-> Entries[i].file, name |-> Entries[i].name,
      system |-> CHOOSE s \in systems : Place(systems, s) = j]

DoesCoreSupportSystem(file, s) ==
  \E i \in Listed : Entries[i].file = file /\ s \in Entries[i].systems

(* Application::buildSystemsMenu and buildSystemMenu.  Without any core the  *)
(* menu stays as it is.                                                      *)
Available(times) == {i \in Listed : times[i] # 0}
SystemsMenu(times) ==
  UNION {{[label |-> Entries[i].name, system |-> s, id |-> EncodeCoreName(Entries[i].name, s)] :
             s \in Entries[i].systems} : i \in Available(times)}

BuildSystemsMenu ==
  menu' = IF Available(filetime) = {} THEN menu ELSE SystemsMenu(filetime)

-----------------------------------------------------------------------------
(* showCoresDialog.  The server's list is fetched once a day, if at all.     *)
ShowCoresDialog ==
  /\ ~dialog.shown
  /\ dialog' = [Closed EXCEPT !.shown = TRUE]
  /\ servers' \in {servers, TRUE}

ManageCores ==
  /\ chosen = None
  /\ ShowCoresDialog
  /\ UNCHANGED <<disk, filetime, menu, chosen, loaded, system>>

(* A row of the dialog: deprecated cores that are not there have none.       *)
Row(i) == ~Entries[i].deprecated \/ filetime[i] # 0

FirstOf(file) == First({i \in Listed : Entries[i].file = file})

(* CoreDialog::deleteCore marks the first entry of the core, and no other.   *)
DeleteCore(i) ==
  /\ dialog.shown /\ Row(i) /\ filetime[i] # 0 /\ Entries[i].file # loaded
  /\ disk' = [disk EXCEPT ![Entries[i].file] = 0]
  /\ filetime' = [filetime EXCEPT ![FirstOf(Entries[i].file)] = 0]
  /\ dialog' = [dialog EXCEPT !.modified = TRUE]
  /\ UNCHANGED <<servers, menu, chosen, loaded, system>>

(* Mutant: only the entry that was shown learns of the new file.             *)
UpdateCoreShown(i) ==
  /\ dialog.shown /\ Row(i) /\ servers /\ filetime[i] # 2 /\ Entries[i].file # loaded
  /\ disk' = [disk EXCEPT ![Entries[i].file] = 2]
  /\ filetime' = [filetime EXCEPT ![FirstOf(Entries[i].file)] = 2]
  /\ dialog' = [dialog EXCEPT !.modified = TRUE]
  /\ UNCHANGED <<servers, menu, chosen, loaded, system>>

(* CoreDialog::updateCore.  After a failed download the file of an earlier   *)
(* one is unzipped, if it was left; every entry takes the file's time.       *)
UpdateCore(i) ==
  /\ dialog.shown /\ Row(i) /\ servers /\ filetime[i] # 2 /\ Entries[i].file # loaded
  /\ \E time \in {disk[Entries[i].file], 2} :
       /\ disk' = [disk EXCEPT ![Entries[i].file] = time]
       /\ filetime' = [n \in Listed |-> IF Entries[n].file = Entries[i].file THEN time
                                        ELSE filetime[n]]
  /\ dialog' = [dialog EXCEPT !.modified = TRUE]
  /\ UNCHANGED <<servers, menu, chosen, loaded, system>>

(* Fsm::loadCore with what the user chose; the old core is unloaded first,   *)
(* the user may refuse that, and the new one may fail to load.               *)
Load(file, s) ==
  \/ disk[file] # 0 /\ loaded' = file /\ system' = s
  \/ loaded' \in {loaded, None} /\ system' = 0

CloseDialog ==
  /\ dialog.shown /\ dialog' = Closed
  /\ IF dialog.modified THEN BuildSystemsMenu ELSE UNCHANGED menu
  /\ chosen' = None
  /\ IF chosen = None THEN UNCHANGED <<loaded, system>>
     ELSE Load(GetCoreName(chosen).file, GetCoreName(chosen).system)
  /\ UNCHANGED <<disk, filetime, servers>>

-----------------------------------------------------------------------------
(* An item of the menu.  A core that is old, or not there, may be updated    *)
(* first, in the dialog.                                                     *)
SelectCore(item) ==
  /\ ~dialog.shown /\ item \in menu
  /\ LET core == GetCoreName(item.id)
     IN \/ /\ core.file # loaded /\ disk[core.file] < 2
           /\ chosen' = item.id /\ system' = core.system
           /\ ShowCoresDialog
           /\ UNCHANGED loaded
        \/ /\ Load(core.file, core.system)
           /\ UNCHANGED <<chosen, dialog, servers>>
  /\ UNCHANGED <<disk, filetime, menu>>

(* Application::handleArgs                                                   *)
HandleArgs(file, s) ==
  /\ ~dialog.shown /\ loaded = None
  /\ DoesCoreSupportSystem(file, s)
  /\ \/ disk[file] # 0 /\ loaded' = file
     \/ UNCHANGED loaded
  /\ system' = s
  /\ UNCHANGED <<disk, filetime, servers, menu, dialog, chosen>>

-----------------------------------------------------------------------------
(* loadCores, and the menu that Application::init builds.                    *)
Init ==
  /\ disk = [f \in Files |-> IF f \in Absent THEN 0 ELSE 1]
  /\ filetime = [i \in Listed |-> disk[Entries[i].file]]
  /\ menu = SystemsMenu(filetime)
  /\ servers = FALSE /\ dialog = Closed /\ chosen = None
  /\ loaded = None /\ system = 0

Systems == UNION {Entries[i].systems : i \in Listed}
Next ==
  \/ ManageCores \/ CloseDialog
  \/ \E i \in Listed : DeleteCore(i) \/ UpdateCore(i)
  \/ \E item \in menu : SelectCore(item)
  \/ \E file \in Files, s \in Systems : HandleArgs(file, s)

Spec == Init /\ [][Next]_vars

-----------------------------------------------------------------------------
(* Every core that is there can be chosen for every system it serves, and    *)
(* nothing else but cores on the list twice that were deleted (or, once all  *)
(* are, any).  Choosing an item gives the core and the system it names, and  *)
(* a loaded core serves the present system and was not deleted under it.     *)
Twice(file) == Cardinality({i \in Listed : Entries[i].file = file}) > 1
MenuLoadsWhatItSays ==
  /\ ~dialog.shown =>
       /\ \A i \in Listed, s \in Systems :
            disk[Entries[i].file] # 0 /\ s \in Entries[i].systems =>
              \E item \in menu : /\ item.label = Entries[i].name /\ item.system = s
                                 /\ GetCoreName(item.id).file = Entries[i].file
       /\ \A item \in menu :
            \/ disk[GetCoreName(item.id).file] # 0
            \/ Twice(GetCoreName(item.id).file)
            \/ Available(filetime) = {}
  /\ \A item \in menu : /\ GetCoreName(item.id).name = item.label
                        /\ GetCoreName(item.id).system = item.system
  /\ loaded # None => disk[loaded] # 0
  /\ loaded # None /\ chosen = None /\ system # 0 => DoesCoreSupportSystem(loaded, system)
===============================================================================
