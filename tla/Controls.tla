------------------------------ MODULE Controls ------------------------------
(* From a key or a pad to the machine's joypad: SDL's events                 *)
(* (Application::processEvents), the key binder that translates them, the    *)
(* handlers that act on the result (Application::handle) and the state the   *)
(* running core reads (src/src/components/Input.cpp), while pads come and    *)
(* go, hotkeys are rebound, the game focus is toggled and another core is    *)
(* loaded.                                                                   *)
EXTENDS KeyBinds

CONSTANTS
  Keys,         \* keyboard keys
  Mods,         \* states of the modifier keys, 0 for none
  Guids,        \* kinds of pads, as their GUIDs tell them apart
  Buttons,      \* the buttons of a pad
  Axes,         \* the axes of a pad
  Positions,    \* the values an axis reports
  Ports,        \* the ports of the emulated machine
  Devices,      \* the devices a port can be set to (indices into _info)
  Triggers,     \* the axes that also set a joypad button, L2 and R2
  Defaults,     \* the bindings KeyBinds::init makes for "keys" and "pads"
  Rebinds,      \* the same: targets with a binding the dialogs may give them
  MaxHeld,      \* bound: keys and pad buttons held and axes away from rest at once
  MaxIds,       \* bound: pads ever connected
  MaxUpsets     \* bound: changes of the circumstances controls are used under

(* A joypad input is one of a port; a binding to an axis is one of those     *)
(* pads have; the first device is there for every port; keys are no targets. *)
Bindable(b) == b.type = "axis" => b.code \in Axes
ASSUME ControlsAssumption ==
  /\ \A i \in TargetIds : LET t == Targets[i] IN
       /\ t.kind \in {"button", "stick", "trigger"} => "port" \in DOMAIN t /\ t.port \in Ports
       /\ IsAnalog(t) => (t.kind = "trigger" <=> t.what \in Triggers)
  /\ 0 \in Devices /\ Devices \subseteq Nat /\ Positions \subseteq Int
  /\ \A k \in Keys : k \notin TargetIds \cup {0}
  /\ \A p \in DOMAIN Defaults : /\ DOMAIN Defaults[p] = TargetIds
                                /\ \A i \in TargetIds : Bindable(Defaults[p][i])
                                /\ \A r \in Rebinds[p] : /\ r.target \in TargetIds
                                                         /\ Bindable(r.binding)

VARIABLES
  pads,         \* Input::_pads: pad id -> [guid, nav], the keyboard left out
  guids,        \* Input::_joystickGUIDs: the GUIDs seen, at their first id
  nextId,       \* the id SDL gives to the next pad
  joy,          \* Input::_info: port, device -> [buttons, axes]
  device,       \* Input::_devices: port -> device
  keys,         \* Input::_keyboard._keys: the keys the core sees pressed
  fast,         \* Config::_fastForwarding
  turbo,        \* the menu item IDM_TURBO_GAME: [checked, enabled]
  plays,        \* what the user plays with: "keys" or "pads"
  mod,          \* the modifiers held
  held,         \* what is held: source -> [thing, mod, focus] when pressed
  position,     \* [id, axis] -> where the axis is
  excused,      \* the things whose press or release went somewhere else
  upsets,       \* how often that has happened
  twins         \* the GUIDs of which two pads have been present at once

inputVars == <<pads, guids, nextId, joy, device, keys, fast, turbo>>
userVars  == <<plays, mod, held, position, excused, upsets, twins>>
vars      == <<bindVars, inputVars, userVars>>

-----------------------------------------------------------------------------
(* What a handler changes, as a function of the state it finds.              *)
Idle      == [buttons |-> {}, axes |-> [x \in {} |-> 0]]
AxisOf(j, what) == IF what \in DOMAIN j.axes THEN j.axes[what] ELSE 0
SetAxis(j, what, v) ==
  [j EXCEPT !.axes = [x \in DOMAIN j.axes \cup {what} |->
                        IF x = what THEN v ELSE j.axes[x]]]
SetButton(j, what, down) ==
  [j EXCEPT !.buttons = IF down THEN @ \cup {what} ELSE @ \ {what}]

Handlers == [joy |-> joy, keys |-> keys, fast |-> fast, turbo |-> turbo]

(* Mutant: the first device is pressed, whichever is selected.               *)
ButtonEventFirst(s, a) ==
  [s EXCEPT !.joy[a.port][0] = SetButton(@, a.what, a.value)]

(* Input::buttonEvent                                                        *)
ButtonEvent(s, a) ==
  [s EXCEPT !.joy[a.port][device[a.port]] = SetButton(@, a.what, a.value)]

(* Input::axisEvent.  L2 and R2 are also joypad buttons: they are pressed    *)
(* beyond a threshold that is looked up with the number of the selected      *)
(* device in place of the pad's id, and is 0 when no pad has that id.        *)
AxisEvent(s, a) ==
  LET sensitivity == IF device[a.port] \in DOMAIN pads THEN Threshold ELSE 0
      set         == SetAxis(s.joy[a.port][device[a.port]], a.what, a.value)
  IN [s EXCEPT !.joy[a.port][device[a.port]] =
        IF a.what \in Triggers THEN SetButton(set, a.what, a.value > sensitivity)
                               ELSE set]

(* Input::keyboardEvent                                                      *)
KeyboardEvent(s, a) ==
  [s EXCEPT !.keys = IF a.value THEN @ \cup {a.key} ELSE @ \ {a.key}]

(* Mutant: letting go flips the speed too.                                   *)
ToggleFastForwardingFlips(s, extra) ==
  IF extra = 2 THEN [s EXCEPT !.fast = ~s.fast,
                              !.turbo = [checked |-> ~s.fast, enabled |-> TRUE]]
               ELSE [s EXCEPT !.fast = ~s.fast]

(* Application::toggleFastForwarding.  The menu item counts as checked only  *)
(* when its state is exactly MFS_CHECKED, which a disabled item's is not;    *)
(* setting the state enables it.                                             *)
ToggleFastForwarding(s, extra) ==
  LET checked == s.turbo.checked /\ s.turbo.enabled IN
  CASE extra = 0 -> [s EXCEPT !.fast = checked]
    [] extra = 1 -> [s EXCEPT !.fast = ~checked]
    [] extra = 2 -> [s EXCEPT !.fast = ~checked,
                              !.turbo = [checked |-> ~checked, enabled |-> TRUE]]

(* Application::handle.  The hotkeys that reach other components do nothing  *)
(* to the state here.                                                        *)
Handled(s, a) ==
  CASE a.act = "button"          -> ButtonEvent(s, a)
    [] a.act = "axis"            -> AxisEvent(s, a)
    [] a.act = "keyboard"        -> KeyboardEvent(s, a)
    [] a.act = "fastForward"     -> ToggleFastForwarding(s, a.value)
    [] OTHER                     -> s

Becomes(b, s) ==
  /\ axesHeld' = b.axes /\ gameFocus' = b.focus /\ slot' = b.slot
  /\ joy' = s.joy /\ keys' = s.keys /\ fast' = s.fast /\ turbo' = s.turbo

-----------------------------------------------------------------------------
(* The user's side.  A thing is what a press was taken for: a target, or a   *)
(* key as keyboard input, or None.  A thing is excused when the event that   *)
(* should have set or cleared it was translated under other circumstances.   *)
None == 0
KeySource(k)     == <<"key", k>>
PadSource(id, b) == <<"pad", id, b>>
Holders(h, x)    == {src \in DOMAIN h : h[src].thing = x}
Lasting(x)       == x \in Keys \/ (x \in TargetIds /\ Targets[x].kind \in
                                     {"button", "stick", "trigger", "fastForward"})
HeldThings       == {x \in {held[src].thing : src \in DOMAIN held} : Lasting(x)}
Without(h, S)    == [src \in DOMAIN h \ S |-> h[src]]
With(h, src, r)  == [x \in DOMAIN h \cup {src} |-> IF x = src THEN r ELSE h[x]]

KeyThing(k) ==
  LET t == {i \in KeyTargets(k, mod) : Targets[i].kind = "gameFocusToggle"}
      s == IF gameFocus THEN t ELSE KeyTargets(k, mod)
  IN IF s = {} THEN k ELSE First(s)
PadThing(id, b) ==
  LET s == PadTargets("button", id, b) IN IF s = {} THEN None ELSE First(s)

Away(pos)   == {q \in DOMAIN pos : pos[q] # 0}
InUse(pos)  == Cardinality(DOMAIN held) + Cardinality(Away(pos))
Upset == upsets < MaxUpsets /\ upsets' = upsets + 1

Presses(src, thing) ==
  /\ src \notin DOMAIN held /\ InUse(position) < MaxHeld
  /\ held' = With(held, src, [thing |-> thing, mod |-> mod, focus |-> gameFocus])
  /\ excused' = IF Holders(held, thing) = {} THEN excused \ {thing} ELSE excused
  /\ UNCHANGED upsets

Releases(src) ==
  /\ src \in DOMAIN held
  /\ held' = Without(held, {src})
  /\ LET r      == held[src]
         others == Holders(held, r.thing) # {src}
         strays == \/ src[1] = "key" /\ (r.mod # mod \/ r.focus # gameFocus)
                   \/ src[1] = "pad" /\ twins # {}
         touched == {r.thing} \cup (IF src[1] = "pad" THEN {PadThing(src[2], src[3])}
                                   ELSE {})
     IN /\ excused' = IF strays \/ others
                        THEN excused \cup {x \in touched : Lasting(x)} ELSE excused
        /\ IF strays /\ Lasting(r.thing) THEN Upset ELSE UNCHANGED upsets

(* The present pads that answer to the bindings of one id.                   *)
Answering(map, ps, original) == {p \in DOMAIN ps : BindingId(map, p) = original}


-----------------------------------------------------------------------------
(* SDL_KEYDOWN and SDL_KEYUP                                                 *)
KeyDown(k) ==
  LET y == TranslateKey(k, mod, TRUE) IN
  /\ Presses(KeySource(k), KeyThing(k))
  /\ Becomes(y.binder, Handled(Handlers, y.action))
  /\ UNCHANGED <<bindings, bindingMap, pads, guids, nextId, device,
                 plays, mod, position, twins>>

KeyUp(k) ==
  LET y == TranslateKey(k, mod, FALSE) IN
  /\ Releases(KeySource(k))
  /\ Becomes(y.binder, Handled(Handlers, y.action))
  /\ UNCHANGED <<bindings, bindingMap, pads, guids, nextId, device,
                 plays, mod, position, twins>>

ChangeModifiers(m) ==
  /\ m # mod /\ mod' = m
  /\ UNCHANGED <<bindVars, inputVars, plays, held, position, excused, upsets, twins>>

(* SDL_CONTROLLERBUTTONDOWN and SDL_CONTROLLERBUTTONUP                       *)
PadDown(id, b) ==
  LET y == TranslatePadButton(id, b, TRUE) IN
  /\ Presses(PadSource(id, b), PadThing(id, b))
  /\ Becomes(y.binder, Handled(Handlers, y.action))
  /\ UNCHANGED <<bindings, bindingMap, pads, guids, nextId, device,
                 plays, mod, position, twins>>

PadUp(id, b) ==
  LET y == TranslatePadButton(id, b, FALSE) IN
  /\ Releases(PadSource(id, b))
  /\ Becomes(y.binder, Handled(Handlers, y.action))
  /\ UNCHANGED <<bindings, bindingMap, pads, guids, nextId, device,
                 plays, mod, position, twins>>

(* SDL_CONTROLLERAXISMOTION: the first of the two actions is left out when   *)
(* it equals the second, whatever their arguments are.                       *)
AxisMotion(id, x, v) ==
  LET r    == TranslatePadAxis(id, x, v)
      once == IF r.action1.act # r.action2.act \/
                 (r.action1.act \in {"button", "axis"} /\ r.action1.what # r.action2.what)
                THEN Handled(Handlers, r.action1) ELSE Handlers
      moved == PadTargets("axis", id, x)
      stick == First(AnalogTargets(id, x))
      driven == IF AnalogTargets(id, x) = {} THEN {}
                ELSE moved \cap ({stick} \cup Opposite(stick))
  IN /\ v # position[<<id, x>>]
     /\ position' = [position EXCEPT ![<<id, x>>] = v] /\ InUse(position') <= MaxHeld
     /\ excused' = IF Answering(bindingMap, pads, BindingId(bindingMap, id)) = {id}
                     THEN (excused \cup moved) \ driven ELSE excused \cup moved
     /\ Becomes(r.binder, Handled(once, r.action2))
     /\ UNCHANGED <<bindings, bindingMap, pads, guids, nextId, device,
                    plays, mod, held, upsets, twins>>

-----------------------------------------------------------------------------
(* SDL_CONTROLLERDEVICEADDED (Input::addController): a pad whose GUID was    *)
(* seen first under another id takes over the bindings of that id.  SDL      *)
(* names every connection with a new id.                                     *)
GuidId(gs, g) == (CHOOSE n \in DOMAIN gs : gs[n] = g) - 1

AddController(g) ==
  LET id      == nextId
      seen    == IF g \in {guids[n] : n \in DOMAIN guids} THEN guids
                 ELSE Append(guids, g)
      map     == IF GuidId(seen, g) = id THEN bindingMap
                 ELSE MapDevice(GuidId(seen, g), id)
      remapped == {p \in DOMAIN pads : BindingId(map, p) # BindingId(bindingMap, p)}
  IN /\ id < MaxIds
     /\ nextId' = id + 1
     /\ guids' = seen
     /\ bindingMap' = map
     /\ pads' = [p \in DOMAIN pads \cup {id} |->
                   IF p = id THEN [guid |-> g, nav |-> NavigationPort(map, id)]
                             ELSE pads[p]]
     /\ position' = [q \in DOMAIN position \cup ({id} \X Axes) |->
                       IF q[1] = id THEN 0 ELSE position[q]]
     /\ twins' = IF \E p \in DOMAIN pads : pads[p].guid = g
                   THEN twins \cup {g} ELSE twins
     /\ excused' = excused
          \cup {held[src].thing : src \in {s \in DOMAIN held :
                                             s[1] = "pad" /\ s[2] \in remapped}}
          \cup {i \in TargetIds : /\ bindings[i].type = "axis"
                                  /\ bindings[i].pad \in {BindingId(map, p) :
                                                           p \in remapped \cup {id}}}
     /\ UNCHANGED <<bindings, axesHeld, gameFocus, slot, joy, device, keys, fast,
                    turbo, plays, mod, held, upsets>>

(* SDL_CONTROLLERDEVICEREMOVED (Input::removeController): neither the        *)
(* binding map nor what the pad had pressed is cleaned up.                   *)
RemoveController(id) ==
  LET srcs    == {src \in DOMAIN held : src[1] = "pad" /\ src[2] = id}
      lost    == {held[src].thing : src \in srcs}
      leaning == {i \in TargetIds : /\ bindings[i].type = "axis"
                                    /\ bindings[i].pad = BindingId(bindingMap, id)}
  IN /\ pads' = [p \in DOMAIN pads \ {id} |-> pads[p]]
     /\ held' = Without(held, srcs)
     /\ position' = [q \in {r \in DOMAIN position : r[1] # id} |-> position[q]]
     /\ excused' = excused \cup lost \cup leaning
     /\ UNCHANGED <<bindVars, guids, nextId, joy, device, keys, fast, turbo,
                    plays, mod, upsets, twins>>

-----------------------------------------------------------------------------
(* The dialogs of the key bindings (KeyBinds::showControllerDialog,          *)
(* showHotKeyDialog): OK writes the whole list back; no event is translated  *)
(* while the dialog is open.  A pad button is captured under the id its pad  *)
(* answers to.  A dialog that changes several bindings is several of these.  *)
Rebind(i, b) ==
  /\ b # bindings[i]
  /\ bindings' = [bindings EXCEPT ![i] = b]
  /\ excused' = excused \cup HeldThings \cup {i} \cup Opposite(i)
  /\ Upset
  /\ UNCHANGED <<bindingMap, axesHeld, gameFocus, slot, inputVars, plays, mod,
                 held, position, twins>>

(* The menu: IDM_TURBO_GAME, and updateMenu enabling or disabling the item   *)
(* with the game that is loaded.                                             *)
MenuTurbo ==
  /\ turbo.enabled
  /\ LET s == ToggleFastForwarding(Handlers, 2)
     IN fast' = s.fast /\ turbo' = s.turbo
  /\ UNCHANGED <<bindVars, pads, guids, nextId, joy, device, keys, userVars>>

UpdateMenu(on) ==
  /\ turbo.enabled # on
  /\ turbo' = [turbo EXCEPT !.enabled = on]
  /\ excused' = excused \cup {i \in TargetIds : Targets[i].kind = "fastForward"}
  /\ IF on THEN UNCHANGED upsets ELSE Upset
  /\ UNCHANGED <<bindVars, pads, guids, nextId, joy, device, keys, fast, plays,
                 mod, held, position, twins>>

(* Another device for a port, from the core's dialog                         *)
(* (Input::setSelectedControllerIndex).                                      *)
SelectDevice(p, d) ==
  /\ d # device[p]
  /\ device' = [device EXCEPT ![p] = d]
  /\ excused' = excused \cup {i \in TargetIds : "port" \in DOMAIN Targets[i]
                                                /\ Targets[i].port = p}
  /\ Upset
  /\ UNCHANGED <<bindVars, pads, guids, nextId, joy, keys, fast, turbo, plays,
                 mod, held, position, twins>>

(* Application::loadCore: the input is reset, and the devices become those   *)
(* the core's settings were saved with.  Nothing is pressed any more in the  *)
(* eyes of the new core, whatever is held; the key binder is not told.       *)
LoadCore ==
  /\ joy' = [p \in Ports |-> [e \in Devices |-> Idle]]
  /\ keys' = {}
  /\ excused' = excused \cup HeldThings \cup
                {i \in TargetIds : IsAnalog(Targets[i]) \/ bindings[i].type = "axis"}
  /\ Upset
  /\ UNCHANGED <<bindVars, pads, guids, nextId, device, fast, turbo, plays, mod,
                 held, position, twins>>

-----------------------------------------------------------------------------
(* KeyBinds::init makes one list for players with a pad and one for players  *)
(* without; Input::init adds the pads present, which SDL then announces.     *)
Init ==
  /\ plays \in DOMAIN Defaults /\ bindings = Defaults[plays]
  /\ bindingMap = [id \in {} |-> 0] /\ axesHeld = {} /\ gameFocus = FALSE
  /\ slot = 1
  /\ pads = [id \in {} |-> 0] /\ guids = <<>> /\ nextId = 0
  /\ joy = [p \in Ports |-> [d \in Devices |-> Idle]]
  /\ device = [p \in Ports |-> CHOOSE d \in Devices : \A e \in Devices : d <= e]
  /\ keys = {} /\ fast = FALSE /\ turbo = [checked |-> FALSE, enabled |-> FALSE]
  /\ mod = 0 /\ held = [s \in {} |-> 0] /\ position = [q \in {} |-> 0]
  /\ excused = {} /\ upsets = 0 /\ twins = {}

KeyboardNext ==
  /\ plays = "keys"
  /\ \/ \E k \in Keys : KeyDown(k) \/ KeyUp(k)
     \/ \E m \in Mods : ChangeModifiers(m)
     \/ \E on \in BOOLEAN : UpdateMenu(on)
     \/ MenuTurbo

PadNext ==
  /\ plays = "pads"
  /\ \/ \E id \in DOMAIN pads, b \in Buttons : PadDown(id, b) \/ PadUp(id, b)
     \/ \E id \in DOMAIN pads, x \in Axes, v \in Positions : AxisMotion(id, x, v)
     \/ \E g \in Guids : AddController(g)
     \/ \E id \in DOMAIN pads : RemoveController(id)

Next ==
  \/ KeyboardNext
  \/ PadNext
  \/ \E r \in Rebinds[plays] : Rebind(r.target, r.binding)
  \/ plays = "pads" /\ \E p \in Ports, d \in Devices : SelectDevice(p, d)
  \/ LoadCore

Spec == Init /\ [][Next]_vars

-----------------------------------------------------------------------------
Selected(p)    == joy[p][device[p]]
ByButton(i)    == bindings[i].type \in {"key", "button"}
IsHeld(i)      == Holders(held, i) # {}
Settled(i)     == i \notin excused /\ ByButton(i)

(* A joypad button or trigger is pressed in the core's eyes exactly while    *)
(* the key or pad button bound to it is held, unless its press or its        *)
(* release was translated under other modifiers, another focus, another      *)
(* binding or another device, or its pad went away.                          *)
ButtonsAreHeld ==
  \A i \in TargetIds : (Targets[i].kind \in {"button", "trigger"} /\ Settled(i)) =>
    (Targets[i].what \in Selected(Targets[i].port).buttons <=> IsHeld(i))

(* The same of the keys the core sees on its keyboard.                       *)
KeysAreHeld == \A k \in Keys \ excused : k \in keys <=> IsHeld(k)

(* What the core sees pressed is what is held.                               *)
HeldIsPressed == ButtonsAreHeld /\ KeysAreHeld

(* A stick driven by two buttons stands where they say: released with both,  *)
(* at the end of the one that is held, and never in the middle when both     *)
(* are; letting one go returns to the other.                                 *)
StickFollowsKeys ==
  \A i \in TargetIds : \A j \in Opposite(i) :
    (Settled(i) /\ Settled(j)) =>
      LET at == AxisOf(Selected(Targets[i].port), Targets[i].what) IN
      /\ ~IsHeld(i) /\ ~IsHeld(j) => at = 0
      /\ IsHeld(i) /\ ~IsHeld(j)  => at = Targets[i].dir * Full
      /\ IsHeld(i) /\ IsHeld(j)   => at \in {-Full, Full}

(* A stick or a trigger bound to a pad's axis stands where the axis is, with *)
(* the dead zone around its middle cut out, as long as one pad answers to    *)
(* the binding and both directions name the same axis.                       *)
Shaped(v) == IF v < -Full THEN -Full
             ELSE IF v > Threshold \div 4 \/ v < -(Threshold \div 4) THEN v ELSE 0
StickFollowsPad ==
  \A i \in TargetIds, id \in DOMAIN pads :
    ( /\ IsAnalog(Targets[i])
      /\ i \in PadTargets("axis", id, bindings[i].code) \ excused
      /\ Targets[i].kind = "stick" => Opposite(i) \subseteq
                                      PadTargets("axis", id, bindings[i].code) \ excused )
    => AxisOf(Selected(Targets[i].port), Targets[i].what)
         = Shaped(position[<<id, bindings[i].code>>])

(* A stick stands where the buttons or the axis bound to it say.             *)
SticksFollow == StickFollowsKeys /\ StickFollowsPad

(* What the core is told of the input is what is held: buttons, keys, sticks. *)
InputFollows == HeldIsPressed /\ SticksFollow

(* Once the hold key is released the game runs at the speed the menu shows.  *)
SpeedFollowsMenu ==
  \A i \in TargetIds :
    (Targets[i].kind = "fastForward" /\ Settled(i) /\ ~IsHeld(i) /\ turbo.enabled)
      => fast = turbo.checked

(* A pad that is plugged in again answers to the bindings it had, as long as *)
(* no two pads of its kind have been present at once.                        *)
PadKeepsItsBindings ==
  \A p \in DOMAIN pads : pads[p].guid \notin twins =>
    BindingId(bindingMap, p) = GuidId(guids, pads[p].guid)
=============================================================================
