----------------------------- MODULE MCControls -----------------------------
(* Controls with one port, two kinds of pads and a dozen targets.            *)
EXTENDS Controls, TLC

CONSTANTS kA, kL, kR, kF, unbound, gA, gB

MCTargets == <<
  [kind |-> "button", port |-> 0, what |-> "right"],
  [kind |-> "button", port |-> 0, what |-> "a"],
  [kind |-> "stick", port |-> 0, what |-> "leftX", dir |-> -1],
  [kind |-> "stick", port |-> 0, what |-> "leftX", dir |-> 1],
  [kind |-> "trigger", port |-> 0, what |-> "L2"],
  [kind |-> "fastForward"],
  [kind |-> "gameFocusToggle"]>>

MCNoBinding == [type |-> "none", pad |-> 0, code |-> unbound, mod |-> 0]

MCDefaults == [
  keys |-> <<MCNoBinding, KeyBinding(kA, 0), KeyBinding(kL, 0), KeyBinding(kR, 0),
             KeyBinding(kA, 1), KeyBinding(kF, 0), KeyBinding(kF, 1)>>,
  pads |-> <<ButtonBinding(0, "right"), KeyBinding(kA, 0), AxisBinding(0, "leftX", -1),
             AxisBinding(0, "leftX", 1), MCNoBinding, KeyBinding(kF, 0), KeyBinding(kF, 1)>>]
MCRebinds == [
  keys |-> {[target |-> 2, binding |-> KeyBinding(kL, 0)]},
  pads |-> {[target |-> 1, binding |-> ButtonBinding(1, "right")]}]
Symmetry    == Permutations(Guids)
MCPositions == {-9, 0, 1}
=============================================================================
