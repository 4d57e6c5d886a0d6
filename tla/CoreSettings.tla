---------------------------- MODULE CoreSettings ----------------------------
(* What the user sets for a core: the core's options                         *)
(* (src/src/components/Config.cpp) and the device in each port               *)
(* (src/src/components/Input.cpp).  The core declares both through its       *)
(* environment (src/src/libretro/Core.cpp), the application keeps them in a  *)
(* file from one use of the core to the next (Application::loadCore and      *)
(* unloadCore), and the dialog Config::showDialog changes them while the     *)
(* core is between two frames.                                               *)
EXTENDS Integers, Sequences, FiniteSets

CONSTANTS
  Cores, NoCore,
  Options,      \* core -> the tables of options it may declare: sets of
                \*   functions key -> [values, default]
  Layouts,      \* core -> the controllers it declares: port -> device ids
  EarlyCores,   \* the cores that declare them in retro_set_environment; the
                \*   others do in retro_load_game
  Described,    \* core -> the ports it describes the buttons of
  Preset,       \* core -> what is selected when it has no file yet
  Ports         \* 0..kMaxPorts-1

NONE == 0       \* RETRO_DEVICE_NONE
JOYPAD == 1     \* RETRO_DEVICE_JOYPAD
Empty == [k \in {} |-> 0]

(* Ports are counted from 0, and a core's controllers are lists.             *)
ASSUME SettingsAssumption ==
  /\ NoCore \notin Cores
  /\ 0 \in Ports /\ Ports \subseteq Nat
  /\ \A c \in Cores : \A p \in DOMAIN Layouts[c] : Layouts[c][p] \in Seq(Nat)

VARIABLES
  core,         \* the core that is loaded
  game,         \* whether it runs a game
  file,         \* core -> its settings file, of the cores that have one
  options,      \* Config::_variables: key -> [values, selected, hidden]
  selections,   \* Config::_selections: key -> value
  updated,      \* Config::_updated
  info,         \* Input::_info: port -> the ids of its devices
  devices,      \* Input::_devices: port -> index into info
  portMask,     \* Input::_ports: the ports the core has
  ctrlUpdated,  \* Input::_updated
  told,         \* Core::_ports: declared port -> the id the core was given
  view,         \* the values the core got when it last asked: key -> value
  dropped,      \* a change was pending when the dialog was left as it was
  last          \* core -> [got, device]: how things stood when it was unloaded

configVars == <<options, selections, updated>>
inputVars  == <<info, devices, portMask, ctrlUpdated, told>>
vars == <<core, game, file, configVars, inputVars, view, dropped, last>>

-----------------------------------------------------------------------------
(* Values, as functions of the state they are looked up in.                  *)
Put(f, k, v) == [x \in DOMAIN f \cup {k} |-> IF x = k THEN v ELSE f[x]]
Over(f, g)   == [x \in DOMAIN f \cup DOMAIN g |-> IF x \in DOMAIN g THEN g[x] ELSE f[x]]
IndexOf(s, v) == CHOOSE i \in DOMAIN s : s[i] = v
Among(s, v)  == \E i \in DOMAIN s : s[i] = v

(* Config::getVariable: a selection counts even when it is not offered.      *)
Got(opts, sel, k) ==
  IF k \in DOMAIN sel THEN sel[k] ELSE opts[k].values[opts[k].selected]
Get(k) == Got(options, selections, k)

(* Config::setOptions: a selection takes the place of the default, offered   *)
(* or not.                                                                   *)
Variable(k, o, sel) ==
  LET wanted == IF k \in DOMAIN sel THEN sel[k] ELSE o.default
  IN [values |-> o.values, hidden |-> FALSE,
      selected |-> IF Among(o.values, wanted) THEN IndexOf(o.values, wanted) ELSE 1]
Declared(table, sel) == [k \in DOMAIN table |-> Variable(k, table[k], sel)]

(* Mutant: only the options declared later see what was read.                *)
ReselectedLater(opts, sel) == opts

(* Config::deserialize: what is read replaces and adds to the selections.    *)
Reselected(opts, sel) ==
  [k \in DOMAIN opts |->
     IF k \in DOMAIN sel /\ Among(opts[k].values, sel[k])
       THEN [opts[k] EXCEPT !.selected = IndexOf(opts[k].values, sel[k])] ELSE opts[k]]

(* Mutant: what nothing was selected for is not saved.                       *)
SerializedSelections == selections

(* Config::serialize selects what is shown where nothing was selected.       *)
Serialized ==
  Over([k \in DOMAIN options |-> options[k].values[options[k].selected]], selections)

(* Input::setControllerInfo: None and RetroPad, then what the core declares  *)
(* besides a joypad.  A port counts when there is such a device.             *)
Plain        == [p \in Ports |-> <<NONE, JOYPAD>>]
Others(ids)  ==
  LET other == {i \in DOMAIN ids : ids[i] # JOYPAD}
      Nth(n) == CHOOSE i \in other : Cardinality({j \in other : j <= i}) = n
  IN [n \in 1..Cardinality(other) |-> ids[Nth(n)]]
Listed(l)    == [p \in Ports |-> <<NONE, JOYPAD>> \o (IF p \in DOMAIN l THEN Others(l[p])
                                                      ELSE <<>>)]
Counted(l)   == {p \in DOMAIN l : Others(l[p]) # <<>>}
Kept(l, dev) == [p \in Ports |-> IF dev[p] > Len(Listed(l)[p]) THEN 0 ELSE dev[p]]

InRange(p)   == devices[p] + 1 \in DOMAIN info[p]

(* Input::getController; an index beyond the list reads some other memory.   *)
Ids == {NONE, JOYPAD} \cup
       UNION {UNION {{l[p][i] : i \in DOMAIN l[p]} : p \in DOMAIN l} :
                l \in {Layouts[c] : c \in Cores}}
Controller(p) == IF InRange(p) THEN {info[p][devices[p] + 1]} ELSE Ids

SetControllerInfo(l, dev) ==
  /\ info' = Listed(l) /\ portMask' = Counted(l) /\ devices' = Kept(l, dev)
  /\ ctrlUpdated' = TRUE /\ told' = [p \in DOMAIN l |-> NONE]

-----------------------------------------------------------------------------
(* Application::loadCore: everything is reset, the core declares its options *)
(* and perhaps its controllers while it is opened, and then its file is read.*)
(* The devices were written as an array of objects; what reads them looks    *)
(* for an object after the name "input", and finds that of the first port.   *)
FirstPort == CHOOSE p \in Ports : \A q \in Ports : p <= q
Restored(c) == IF c \in DOMAIN file THEN file[c].selections ELSE Preset[c]

LoadCore(c, table) ==
  /\ core = NoCore
  /\ selections' = Restored(c)
  /\ options' = Reselected(Declared(table, Empty), Restored(c))
  /\ updated' = (DOMAIN table \cup DOMAIN Restored(c) # {})
  /\ IF c \in EarlyCores
       THEN /\ info' = Listed(Layouts[c]) /\ portMask' = Counted(Layouts[c])
            /\ told' = [p \in DOMAIN Layouts[c] |-> NONE]
       ELSE info' = Plain /\ portMask' = {} /\ told' = [p \in {} |-> NONE]
  /\ devices' = [p \in Ports |-> IF p = FirstPort /\ c \in DOMAIN file
                                   THEN file[c].devices[p] ELSE 0]
  /\ ctrlUpdated' = (c \in EarlyCores \cup DOMAIN file)
  /\ core' = c /\ view' = Empty /\ dropped' = FALSE
  /\ UNCHANGED <<game, file, last>>

(* Application::unloadCore                                                   *)
UnloadCore ==
  /\ core # NoCore
  /\ file' = Put(file, core, [selections |-> Serialized, devices |-> devices])
  /\ last' = [last EXCEPT ![core] = [got |-> [k \in DOMAIN options |-> Get(k)],
                                     device |-> devices[FirstPort]]]
  /\ core' = NoCore /\ game' = FALSE /\ selections' = Serialized
  /\ told' = [p \in {} |-> NONE] /\ view' = Empty
  /\ UNCHANGED <<options, updated, info, devices, portMask, ctrlUpdated, dropped>>

(* The program ends without unloading the core.                              *)
Crash ==
  /\ core # NoCore
  /\ core' = NoCore /\ game' = FALSE
  /\ options' = Empty /\ selections' = Empty /\ updated' = FALSE
  /\ info' = Plain /\ devices' = [p \in Ports |-> 0] /\ portMask' = {}
  /\ ctrlUpdated' = FALSE /\ told' = [p \in {} |-> NONE]
  /\ view' = Empty /\ dropped' = FALSE
  /\ UNCHANGED <<file, last>>

(* Application::loadGame: the core describes its buttons, perhaps declares   *)
(* its controllers only now, and Input::autoAssign puts a joypad in every    *)
(* port the core has and nothing is selected for.                            *)
StartGame ==
  LET late == core \notin EarlyCores
      dev  == IF late THEN Kept(Layouts[core], devices) ELSE devices
  IN /\ core # NoCore /\ ~game /\ game' = TRUE
     /\ IF late
          THEN /\ info' = Listed(Layouts[core])
               /\ told' = [p \in DOMAIN Layouts[core] |-> NONE]
               /\ portMask' \in {Counted(Layouts[core]),
                                 Counted(Layouts[core]) \cup Described[core]}
          ELSE portMask' = portMask \cup Described[core] /\ UNCHANGED <<info, told>>
     /\ devices' = [p \in Ports |-> IF p \in portMask' /\ dev[p] = 0 THEN 1 ELSE dev[p]]
     /\ ctrlUpdated' = (ctrlUpdated \/ late \/ portMask' # {})
     /\ UNCHANGED <<core, file, configVars, view, dropped, last>>

(* Mutant: only the first port is told.                                      *)
FrameOfFirstPort ==
  /\ game /\ ctrlUpdated /\ ctrlUpdated' = FALSE
  /\ \E id \in Controller(FirstPort) : told' = [told EXCEPT ![FirstPort] = id]
  /\ UNCHANGED <<core, game, file, configVars, info, devices, portMask, view, dropped, last>>

(* Core::step, before the core runs                                          *)
Frame ==
  /\ game /\ ctrlUpdated /\ ctrlUpdated' = FALSE
  /\ told' \in {t \in [DOMAIN told -> Ids] : \A p \in DOMAIN told : t[p] \in Controller(p)}
  /\ UNCHANGED <<core, game, file, configVars, info, devices, portMask, view, dropped, last>>

(* A pad goes away (Input::removeController).                                *)
RemovePad ==
  /\ ~ctrlUpdated /\ ctrlUpdated' = TRUE
  /\ UNCHANGED <<core, game, file, configVars, info, devices, portMask, told, view,
                 dropped, last>>

-----------------------------------------------------------------------------
(* Mutant: options declared again are no update.                             *)
SetVariablesUntold(table) ==
  /\ game
  /\ options' = Declared(table, selections)
  /\ view' = [k \in DOMAIN view \cap DOMAIN table |-> view[k]]
  /\ UNCHANGED <<core, game, file, selections, updated, inputVars, dropped, last>>

(* What the core asks for while it runs (Core::environmentCallback).         *)
(* SET_VARIABLES, SET_CORE_OPTIONS and SET_CORE_OPTIONS_V2                   *)
SetVariables(table) ==
  /\ game
  /\ options' = Declared(table, selections) /\ updated' = TRUE
  /\ view' = [k \in DOMAIN view \cap DOMAIN table |-> view[k]]
  /\ UNCHANGED <<core, game, file, selections, inputVars, dropped, last>>

(* SET_CORE_OPTIONS_DISPLAY                                                  *)
SetVariableDisplay(k, visible) ==
  /\ game /\ options[k].hidden = visible
  /\ options' = [options EXCEPT ![k].hidden = ~visible]
  /\ UNCHANGED <<core, game, file, selections, updated, inputVars, view, dropped, last>>

(* GET_VARIABLE, as a core does when it starts                               *)
GetVariable(k) ==
  /\ core # NoCore /\ view' = Put(view, k, Get(k))
  /\ UNCHANGED <<core, game, file, configVars, inputVars, dropped, last>>

(* GET_VARIABLE_UPDATE, and GET_VARIABLE of all it has when the answer is    *)
(* yes                                                                       *)
GetVariableUpdate ==
  /\ game /\ updated' = FALSE
  /\ view' = IF updated THEN [k \in DOMAIN options |-> Get(k)] ELSE view
  /\ dropped' = (dropped /\ ~updated)
  /\ UNCHANGED <<core, game, file, options, selections, inputVars, last>>

-----------------------------------------------------------------------------
(* Config::showDialog.  Leaving it with Cancel, or with OK and nothing       *)
(* changed, stores FALSE as well.                                            *)
LeaveDialog ==
  /\ core # NoCore
  /\ updated' = FALSE
  /\ dropped' = (dropped \/ updated)
  /\ UNCHANGED <<core, game, file, options, selections, inputVars, view, last>>

(* A change hardcore forbids, and a user who stays in hardcore.              *)
RefuseDialog ==
  /\ core # NoCore /\ ~updated
  /\ updated' = TRUE
  /\ UNCHANGED <<core, game, file, options, selections, inputVars, view, dropped, last>>

(* OK writes back every option that is not hidden, and every port; a port    *)
(* whose selection the dialog could not show comes back as -1.               *)
Accept(chosen, ports) ==
  /\ core # NoCore
  /\ LET dialog == {k \in DOMAIN options : ~options[k].hidden}
     IN /\ DOMAIN chosen = dialog
        /\ options' = [k \in DOMAIN options |->
                         IF k \in dialog THEN [options[k] EXCEPT !.selected = chosen[k]]
                                         ELSE options[k]]
        /\ selections' = Over(selections,
                              [k \in dialog |-> options[k].values[chosen[k]]])
  /\ devices' = ports
  /\ updated' = TRUE /\ ctrlUpdated' = TRUE
  /\ UNCHANGED <<core, game, file, info, portMask, told, view, dropped, last>>

Chosen  == [k \in {x \in DOMAIN options : ~options[x].hidden} |-> options[k].selected]
OnPorts == [p \in Ports |-> IF InRange(p) THEN devices[p] ELSE -1]

ChangeOption(k, i) ==
  /\ k \in DOMAIN Chosen /\ i # Chosen[k]
  /\ Accept([Chosen EXCEPT ![k] = i], OnPorts)

ChangeDevice(p, i) ==
  /\ i # OnPorts[p]
  /\ Accept(Chosen, [OnPorts EXCEPT ![p] = i])

-----------------------------------------------------------------------------
Init ==
  /\ core = NoCore /\ game = FALSE /\ file = Empty
  /\ options = Empty /\ selections = Empty /\ updated = FALSE
  /\ info = Plain /\ devices = [p \in Ports |-> 0] /\ portMask = {}
  /\ ctrlUpdated = FALSE /\ told = [p \in {} |-> NONE]
  /\ view = Empty /\ dropped = FALSE
  /\ last = [c \in Cores |-> [got |-> Empty, device |-> 0]]

Next ==
  \/ \E c \in Cores : \E table \in Options[c] : LoadCore(c, table)
  \/ UnloadCore
  \/ Crash
  \/ StartGame
  \/ Frame
  \/ RemovePad
  \/ core # NoCore /\ \E table \in Options[core] : SetVariables(table)
  \/ \E k \in DOMAIN options, visible \in BOOLEAN : SetVariableDisplay(k, visible)
  \/ \E k \in DOMAIN options : GetVariable(k)
  \/ GetVariableUpdate
  \/ LeaveDialog
  \/ RefuseDialog
  \/ \E k \in DOMAIN options : \E i \in DOMAIN options[k].values : ChangeOption(k, i)
  \/ \E p \in Ports : \E i \in DOMAIN info[p] : ChangeDevice(p, i - 1)

Spec == Init /\ [][Next]_vars

-----------------------------------------------------------------------------
(* What the core last got of an option is what it would get now, or the next *)
(* GET_VARIABLE_UPDATE tells it to ask again, as libretro.h says of that     *)
(* call.  It does not: leaving the dialog forgets a change the core has yet  *)
(* to be told of.                                                            *)
EveryChangeIsTold ==
  core # NoCore => \A k \in DOMAIN view : k \in DOMAIN options =>
                     (view[k] = Get(k) \/ updated)

(* The same, unless the dialog was left that way.                            *)
ChangesAreTold == ~dropped => EveryChangeIsTold

(* The dialog shows what the core gets, unless what was selected is not      *)
(* among the values the core now offers.                                     *)
DialogShowsWhatCoreGets ==
  core # NoCore => \A k \in DOMAIN options :
    Among(options[k].values, Get(k)) => options[k].values[options[k].selected] = Get(k)

(* A core that is loaded again gets the values it got when it was unloaded,  *)
(* and finds its first controller where it was; a crash in between loses no  *)
(* more than the changes since it was loaded.                                *)
SettingsReturn ==
  [][ core = NoCore /\ core' # NoCore =>
        /\ \A k \in DOMAIN options' : k \in DOMAIN last[core'].got =>
             Got(options', selections', k) = last[core'].got[k]
        /\ devices'[FirstPort] = last[core'].device ]_vars

(* Between two frames either the core was given the id of the controller     *)
(* selected in each port it declared, or a call that gives it is pending,    *)
(* and the selection is always one the core has.  A core that declares its   *)
(* controllers with the game has none until then.                            *)
CoreHasSelectedController ==
  (core # NoCore /\ core \in EarlyCores) =>
    \A p \in Ports : /\ InRange(p)
                     /\ p \in DOMAIN told => {told[p]} = Controller(p) \/ ctrlUpdated
=============================================================================
