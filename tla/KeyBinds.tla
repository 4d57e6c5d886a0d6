------------------------------ MODULE KeyBinds ------------------------------
(* The key bindings (src/src/KeyBinds.cpp): which hotkey or joypad input a   *)
(* key, a pad button or a pad axis stands for.  A binding's place in the     *)
(* list is its target; the first binding that matches an event decides.      *)
EXTENDS Integers, Sequences, FiniteSets

CONSTANTS
  Targets,      \* the sequence of targets, in the order of the code's enum
  Full,         \* 32767: an axis at its end
  Threshold,    \* 32767 times a pad's sensitivity
  Slots         \* the number of save slots the hotkeys walk through (99)

VARIABLES
  bindings,     \* KeyBinds::_bindings: a binding per target
  bindingMap,   \* KeyBinds::_bindingMap: pad id -> the id its bindings name
  axesHeld,     \* KeyBinds::_axesHeld: the analog targets held as buttons
  gameFocus,    \* KeyBinds::_gameFocus
  slot          \* KeyBinds::_slot

bindVars == <<bindings, bindingMap, axesHeld, gameFocus, slot>>

TargetIds == DOMAIN Targets

(* A target is a record; "kind" says what it does and "port" whose it is.    *)
(*   button  [port, what]       a joypad button                              *)
(*   stick   [port, what, dir]  one direction (-1 or 1) of an analog stick   *)
(*   trigger [port, what]       L2 or R2                                     *)
(*   save, load, setSlot [n]; saveCurrent, loadCurrent, prevSlot, nextSlot   *)
(*   fastForward, fastForwardToggle, gameFocusToggle, and other hotkeys      *)
IsAnalog(t) == t.kind \in {"stick", "trigger"}

(* The target that pulls the same stick the other way.                       *)
Opposite(i) ==
  {j \in TargetIds : /\ {Targets[i].kind, Targets[j].kind} = {"stick"}
                     /\ Targets[j].port = Targets[i].port
                     /\ Targets[j].what = Targets[i].what
                     /\ Targets[j].dir = -Targets[i].dir}

(* No two targets are the same button, direction or trigger, and one is to   *)
(* hold for speed.  A pad's sensitivity is one half.                         *)
SamePlace(i, j) == Targets[i].port = Targets[j].port /\ Targets[i].what = Targets[j].what
ASSUME TargetsAssumption ==
  /\ Len(Targets) \in Nat /\ TargetIds = 1..Len(Targets)
  /\ Full \in Nat /\ Threshold \in Nat /\ Threshold < Full
  /\ \A i \in TargetIds : /\ Targets[i].kind \notin {"axis", "keyboard"}
                          /\ Targets[i].kind = "stick" => Targets[i].dir \in {-1, 1}
  /\ \A i, j \in TargetIds : i # j =>
       /\ {Targets[i].kind, Targets[j].kind} \subseteq {"button", "trigger"} => ~SamePlace(i, j)
       /\ IsAnalog(Targets[i]) /\ IsAnalog(Targets[j]) /\ SamePlace(i, j) => j \in Opposite(i)
       /\ {Targets[i].kind, Targets[j].kind} # {"fastForward"}

KeyBinding(k, m)       == [type |-> "key", pad |-> 0, code |-> k, mod |-> m]
ButtonBinding(p, b)    == [type |-> "button", pad |-> p, code |-> b, mod |-> 0]
AxisBinding(p, x, dir) == [type |-> "axis", pad |-> p, code |-> x, mod |-> dir]

Nothing                == [act |-> "nothing"]
Button(t, down)        == [act |-> "button", port |-> t.port, what |-> t.what,
                           value |-> down]
Axis(t, v)             == [act |-> "axis", port |-> t.port, what |-> t.what,
                           value |-> v]
KeyboardInput(k, down) == [act |-> "keyboard", key |-> k, value |-> down]
FastForward(extra)     == [act |-> "fastForward", value |-> extra]
StateAction(kind, n)   == [act |-> kind, slot |-> n]
Hotkey(t)              == [act |-> t.kind]

(* What translating an event yields: the action for the application, and the *)
(* key binder's own state after it.                                          *)
Binder        == [axes |-> axesHeld, focus |-> gameFocus, slot |-> slot]
Yields(s, a)  == [action |-> a, binder |-> s]

SlotAfter(s, t) ==
  CASE t.kind = "prevSlot" -> IF s.slot = 1 THEN Slots ELSE s.slot - 1
    [] t.kind = "nextSlot" -> IF s.slot = Slots THEN 1 ELSE s.slot + 1
    [] t.kind = "setSlot"  -> t.n

(* KeyBinds::translateButtonPress                                            *)
TranslateButtonPress(s, i) ==
  LET t == Targets[i] IN
  CASE t.kind = "button"  -> Yields(s, Button(t, TRUE))
    [] t.kind = "trigger" -> Yields(s, Axis(t, Full))
    [] t.kind = "stick"   -> Yields([s EXCEPT !.axes = @ \cup {i}],
                                    Axis(t, t.dir * Full))
    [] t.kind \in {"save", "load"} -> Yields(s, StateAction(t.kind, t.n))
    [] t.kind = "saveCurrent"      -> Yields(s, StateAction("save", s.slot))
    [] t.kind = "loadCurrent"      -> Yields(s, StateAction("load", s.slot))
    [] t.kind \in {"prevSlot", "nextSlot", "setSlot"} ->
         Yields([s EXCEPT !.slot = SlotAfter(s, t)],
                StateAction("changeSlot", SlotAfter(s, t)))
    [] t.kind = "fastForward"       -> Yields(s, FastForward(1))
    [] t.kind = "fastForwardToggle" -> Yields(s, FastForward(2))
    [] t.kind = "gameFocusToggle"   -> Yields([s EXCEPT !.focus = ~@], Hotkey(t))
    [] OTHER                        -> Yields(s, Hotkey(t))

(* Where a stick goes back to when a button lets it go: to the direction     *)
(* that is still held.                                                       *)
RestsInTheMiddle(s, i) == 0   \* Mutant

Rests(s, i) == IF Opposite(i) \cap s.axes # {} THEN -Targets[i].dir * Full ELSE 0

(* KeyBinds::translateButtonReleased: a hotkey other than fast forward has   *)
(* no release.                                                               *)
TranslateButtonReleased(s, i) ==
  LET t == Targets[i] IN
  CASE t.kind = "button"  -> Yields(s, Button(t, FALSE))
    [] t.kind = "trigger" -> Yields(s, Axis(t, 0))
    [] t.kind = "stick"   ->
         Yields([s EXCEPT !.axes = @ \ {i}], Axis(t, Rests(s, i)))
    [] t.kind = "fastForward" -> Yields(s, FastForward(0))
    [] OTHER                  -> Yields(s, Nothing)

(* KeyBinds::translateAnalog: the lowest value is clipped.                   *)
TranslateAnalog(s, i, v) ==
  Yields(s, Axis(Targets[i], IF v < -Full THEN -Full ELSE v))

First(S) == CHOOSE i \in S : \A j \in S : i <= j

(* KeyBinds::translate of a keyboard event.  In game focus the only hotkey   *)
(* is the one that leaves it; a key no hotkey takes is keyboard input.       *)
KeyTargets(k, m) ==
  {i \in TargetIds : /\ bindings[i].type = "key"
                     /\ bindings[i].code = k
                     /\ bindings[i].mod = m}

TranslateKey(k, m, down) ==
  LET focusKey == {i \in KeyTargets(k, m) : Targets[i].kind = "gameFocusToggle"}
      taken    == IF gameFocus THEN focusKey ELSE KeyTargets(k, m)
  IN CASE taken = {} -> Yields(Binder, KeyboardInput(k, down))
       [] taken # {} /\ down -> TranslateButtonPress(Binder, First(taken))
       [] OTHER -> IF gameFocus THEN Yields(Binder, Nothing)
                   ELSE TranslateButtonReleased(Binder, First(taken))

(* KeyBinds::getBindingID                                                    *)
BindingId(map, id) == IF id \in DOMAIN map THEN map[id] ELSE id

(* KeyBinds::translate of a pad button                                       *)
PadTargets(type, id, code) ==
  {i \in TargetIds : /\ bindings[i].type = type
                     /\ bindings[i].code = code
                     /\ bindings[i].pad = BindingId(bindingMap, id)}

TranslatePadButton(id, b, down) ==
  LET taken == PadTargets("button", id, b) IN
  IF taken = {} THEN Yields(Binder, Nothing)
  ELSE IF down THEN TranslateButtonPress(Binder, First(taken))
  ELSE TranslateButtonReleased(Binder, First(taken))

(* KeyBinds::translate of a pad axis.  The bindings are taken in order, each *)
(* on the state the one before left: an analog target ends the search; the   *)
(* others press or release, the last one bound to the negative side giving   *)
(* the first action and the last one bound to the positive side the second.  *)
AxisStep(r, i, v) ==
  LET minus  == bindings[i].mod = -1
      beyond == IF minus THEN v < -Threshold ELSE v > Threshold
      quiet  == -(Threshold \div 4) <= v /\ v <= Threshold \div 4
      analog == IsAnalog(Targets[i])
      y == CASE analog -> TranslateAnalog(r.binder, i, IF quiet THEN 0 ELSE v)
             [] ~analog /\ beyond  -> TranslateButtonPress(r.binder, i)
             [] ~analog /\ ~beyond -> TranslateButtonReleased(r.binder, i)
  IN [action1 |-> IF analog \/ minus THEN y.action ELSE r.action1,
      action2 |-> IF analog \/ minus THEN r.action2 ELSE y.action,
      binder  |-> y.binder]

AnalogTargets(id, x) == {i \in PadTargets("axis", id, x) : IsAnalog(Targets[i])}
AxisTargets(id, x) ==
  IF AnalogTargets(id, x) = {} THEN PadTargets("axis", id, x)
  ELSE {i \in PadTargets("axis", id, x) : i <= First(AnalogTargets(id, x))}

TranslatePadAxis(id, x, v) ==
  LET after[n \in 0..Len(Targets)] ==
        IF n = 0 THEN [action1 |-> Nothing, action2 |-> Nothing, binder |-> Binder]
        ELSE IF n \in AxisTargets(id, x) THEN AxisStep(after[n - 1], n, v)
        ELSE after[n - 1]
  IN after[Len(Targets)]

(* Mutant: only a pad that took the bindings over once is followed.          *)
MapDeviceAgain(originalId, newId) ==
  [id \in {x \in DOMAIN bindingMap : bindingMap[x] # originalId} \cup
          {y \in {newId} : \E x \in DOMAIN bindingMap : bindingMap[x] = originalId} |->
     IF id = newId THEN originalId ELSE bindingMap[id]]

(* KeyBinds::mapDevice: the pad newId answers to the bindings of originalId, *)
(* and the pad that did so before no longer does.                            *)
MapDevice(originalId, newId) ==
  LET previous == {id \in DOMAIN bindingMap : bindingMap[id] = originalId}
      left     == DOMAIN bindingMap \
                    (IF previous = {} THEN {} ELSE {First(previous)})
  IN [id \in left \cup {newId} |->
        IF id \in left THEN bindingMap[id] ELSE originalId]

(* KeyBinds::getNavigationPort, -1 standing for 0xFFFFFFFF: the port whose   *)
(* right button, or else whose left stick, is bound to the pad.              *)
NavigationPort(map, id) ==
  LET Bound(type, IsIt(_)) ==
        {Targets[i].port : i \in {j \in TargetIds :
           /\ IsIt(Targets[j])
           /\ bindings[j].type = type
           /\ bindings[j].pad = BindingId(map, id)}}
      Right(t)    == t.kind = "button" /\ t.what = "right"
      StickLeft(t) == t.kind = "stick" /\ t.what = "leftX" /\ t.dir = -1
  IN CASE Bound("button", Right) # {}     -> First(Bound("button", Right))
       [] Bound("button", Right) = {} /\ Bound("axis", StickLeft) # {}
            -> First(Bound("axis", StickLeft))
       [] Bound("button", Right) = {} /\ Bound("axis", StickLeft) = {}
            /\ Bound("button", StickLeft) # {}
            -> First(Bound("button", StickLeft))
       [] OTHER -> -1
=============================================================================
