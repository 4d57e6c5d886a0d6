--------------------------- MODULE ControlsProofs ---------------------------
(* What is held and what the core is told of it, for any targets, bindings,  *)
(* keys, pads and ports: a pad that returns answers to the bindings it had,  *)
(* the game runs at the speed the menu shows, and what the core sees pressed *)
(* is what is held.                                                          *)
EXTENDS Controls, WellFoundedInduction, TLAPS

(* The state of the machine's joypads and of what the hotkeys of Handlers    *)
(* change.                                                                   *)
Machine(s) ==
  /\ s = [joy |-> s.joy, keys |-> s.keys, fast |-> s.fast, turbo |-> s.turbo]
  /\ DOMAIN s.joy = Ports
  /\ \A p \in Ports : DOMAIN s.joy[p] = Devices
  /\ \A p \in Ports, d \in Devices : DOMAIN s.joy[p][d] = {"buttons", "axes"}
  /\ s.turbo.checked \in BOOLEAN /\ s.turbo.enabled \in BOOLEAN
  /\ DOMAIN s.turbo = {"checked", "enabled"}

Sources == {KeySource(k) : k \in Keys} \cup
           {PadSource(id, b) : id \in DOMAIN pads, b \in Buttons}

TypesInv ==
  /\ plays \in DOMAIN Defaults
  /\ DOMAIN bindings = TargetIds /\ \A i \in TargetIds : Bindable(bindings[i])
  /\ nextId \in Nat /\ DOMAIN pads \subseteq 0..(nextId - 1)
  /\ DOMAIN bindingMap \subseteq 0..(nextId - 1)
  /\ guids \in Seq(Guids)
  /\ device \in [Ports -> Devices]
  /\ DOMAIN position = (DOMAIN pads) \X Axes
  /\ \A q \in DOMAIN position : position[q] \in Int
  /\ Machine(Handlers)
  /\ DOMAIN held \subseteq Sources

(* A GUID has one place in the list of those seen, which holds every present *)
(* pad's; two present pads are twins when theirs are the same.               *)
PadsInv ==
  /\ \A m, n \in DOMAIN guids : guids[m] = guids[n] => m = n
  /\ \A p \in DOMAIN pads : \E n \in DOMAIN guids : guids[n] = pads[p].guid
  /\ \A p, q \in DOMAIN pads : p # q /\ pads[p].guid = pads[q].guid => pads[p].guid \in twins
  /\ PadKeepsItsBindings

-----------------------------------------------------------------------------
(* Some numbers have a first one.                                            *)
LEMMA HasFirst ==
  ASSUME NEW S, S \subseteq Nat, S # {}
  PROVE  First(S) \in S /\ \A j \in S : First(S) <= j
<1> DEFINE less == OpToRel(<, Nat)
<1>1. IsWellFoundedOn(less, Nat)
  BY NatLessThanWellFounded
<1>2. \A x, y \in Nat : <<y, x>> \in less <=> y < x
  BY DEF OpToRel
<1> HIDE DEF less
<1>3. PICK x \in S : \A y \in S : ~(<<y, x>> \in less)
  BY <1>1, WFMin
<1>4. ASSUME NEW y \in S  PROVE x <= y
  <2>1. ~(y < x) /\ x \in Nat /\ y \in Nat
    BY <1>2, <1>3
  <2>2. QED  BY <2>1
<1>5. QED  BY <1>4 DEF First

-----------------------------------------------------------------------------
(* The pads and their bindings.                                              *)

(* A GUID that is in the list has its place there as its id.                 *)
LEMMA OwnGuidId ==
  ASSUME NEW gs, NEW n \in DOMAIN gs,
         \A m, k \in DOMAIN gs : gs[m] = gs[k] => m = k
  PROVE  GuidId(gs, gs[n]) = n - 1
BY DEF GuidId

(* A pad that is connected again takes its bindings over, and no other pad's.*)
LEMMA MapsDevice ==
  ASSUME NEW original, NEW new, DOMAIN bindingMap \subseteq Nat
  PROVE  /\ DOMAIN MapDevice(original, new) \subseteq DOMAIN bindingMap \cup {new}
         /\ new \notin DOMAIN bindingMap => BindingId(MapDevice(original, new), new) = original
         /\ \A p : p # new /\ BindingId(bindingMap, p) # original =>
              BindingId(MapDevice(original, new), p) = BindingId(bindingMap, p)
<1> DEFINE previous == {id \in DOMAIN bindingMap : bindingMap[id] = original}
           left     == DOMAIN bindingMap \ (IF previous = {} THEN {} ELSE {First(previous)})
           map      == [id \in left \cup {new} |-> IF id \in left THEN bindingMap[id] ELSE original]
<1>1. MapDevice(original, new) = map
  BY DEF MapDevice
<1>2. left \subseteq DOMAIN bindingMap  OBVIOUS
<1>3. new \notin DOMAIN bindingMap => BindingId(map, new) = original
  BY <1>2 DEF BindingId
<1>4. ASSUME NEW p, p # new, BindingId(bindingMap, p) # original
      PROVE  BindingId(map, p) = BindingId(bindingMap, p)
  <2>1. previous # {} => First(previous) \in previous
    <3>1. previous \subseteq Nat  OBVIOUS
    <3> HIDE DEF previous
    <3>2. QED  BY <3>1, HasFirst
  <2>2. p \in left <=> p \in DOMAIN bindingMap
    BY <1>4, <2>1 DEF BindingId
  <2>3. QED  BY <1>4, <2>2 DEF BindingId
<1>5. DOMAIN map \subseteq DOMAIN bindingMap \cup {new}  OBVIOUS
<1>6. QED  BY <1>1, <1>3, <1>4, <1>5

-----------------------------------------------------------------------------
(* What the handlers do to the machine.                                      *)
PressedIn(s, p, w) == w \in s.joy[p][device[p]].buttons
StandsIn(s, p, w)  == AxisOf(s.joy[p][device[p]], w)

(* A button event sets its own button only.                                  *)
LEMMA ButtonEventSets ==
  ASSUME NEW s, Machine(s), device \in [Ports -> Devices],
         NEW a, a.port \in Ports, a.value \in BOOLEAN
  PROVE  LET r == ButtonEvent(s, a) IN
         /\ Machine(r) /\ r.keys = s.keys /\ r.fast = s.fast /\ r.turbo = s.turbo
         /\ \A p \in Ports : \A w : PressedIn(r, p, w) <=>
              IF p = a.port /\ w = a.what THEN a.value ELSE PressedIn(s, p, w)
         /\ \A p \in Ports : \A w : StandsIn(r, p, w) = StandsIn(s, p, w)
<1> DEFINE d == device[a.port]
           j == s.joy[a.port][d]
           r == ButtonEvent(s, a)
<1>1. d \in Devices  OBVIOUS
<1>2. r = [joy |-> [s.joy EXCEPT ![a.port] = [s.joy[a.port] EXCEPT ![d] = SetButton(j, a.what, a.value)]],
           keys |-> s.keys, fast |-> s.fast, turbo |-> s.turbo]
  BY <1>1 DEF ButtonEvent, Machine
<1>3. \A p \in Ports : DOMAIN r.joy[p] = Devices
  BY <1>1, <1>2 DEF Machine
<1>4. \A p \in Ports, e \in Devices : r.joy[p][e] =
        IF p = a.port /\ e = d THEN SetButton(j, a.what, a.value) ELSE s.joy[p][e]
  BY <1>1, <1>2 DEF Machine
<1>5. /\ DOMAIN SetButton(j, a.what, a.value) = {"buttons", "axes"}
      /\ SetButton(j, a.what, a.value).axes = j.axes
      /\ SetButton(j, a.what, a.value).buttons =
           IF a.value THEN j.buttons \cup {a.what} ELSE j.buttons \ {a.what}
  BY <1>1 DEF SetButton, Machine
<1> HIDE DEF r
<1>6. Machine(r)
  <2>1. DOMAIN r.joy = Ports
    BY <1>2 DEF Machine
  <2>2. \A p \in Ports, e \in Devices : DOMAIN r.joy[p][e] = {"buttons", "axes"}
    BY <1>4, <1>5 DEF Machine
  <2>3. r.turbo = s.turbo /\ r = [joy |-> r.joy, keys |-> r.keys, fast |-> r.fast, turbo |-> r.turbo]
    BY <1>2
  <2>4. QED  BY <1>3, <2>1, <2>2, <2>3 DEF Machine
<1>7. r.keys = s.keys /\ r.fast = s.fast /\ r.turbo = s.turbo
  BY <1>2
<1>8. \A p \in Ports : device[p] \in Devices  OBVIOUS
<1>9. \A p \in Ports : \A w : PressedIn(r, p, w) <=>
        IF p = a.port /\ w = a.what THEN a.value ELSE PressedIn(s, p, w)
  <2> SUFFICES ASSUME NEW p \in Ports, NEW w
               PROVE  PressedIn(r, p, w) <=>
                        IF p = a.port /\ w = a.what THEN a.value ELSE PressedIn(s, p, w)
    OBVIOUS
  <2>1. CASE p = a.port
    <3>1. r.joy[p][device[p]].buttons = IF a.value THEN j.buttons \cup {a.what} ELSE j.buttons \ {a.what}
      BY <1>1, <1>4, <1>5, <2>1
    <3>2. QED  BY <2>1, <3>1 DEF PressedIn
  <2>2. CASE p # a.port
    BY <1>4, <1>8, <2>2 DEF PressedIn
  <2>3. QED  BY <2>1, <2>2
<1>10. \A p \in Ports : \A w : StandsIn(r, p, w) = StandsIn(s, p, w)
  BY <1>4, <1>5, <1>8 DEF StandsIn, AxisOf
<1>11. QED  BY <1>6, <1>7, <1>9, <1>10 DEF r

(* An axis event sets its own axis, and a trigger's button with it.          *)
LEMMA AxisEventSets ==
  ASSUME NEW s, Machine(s), device \in [Ports -> Devices],
         NEW a, a.port \in Ports
  PROVE  LET r == AxisEvent(s, a)
             sensitivity == IF device[a.port] \in DOMAIN pads THEN Threshold ELSE 0
         IN
         /\ Machine(r) /\ r.keys = s.keys /\ r.fast = s.fast /\ r.turbo = s.turbo
         /\ \A p \in Ports : \A w : PressedIn(r, p, w) <=>
              IF p = a.port /\ w = a.what /\ w \in Triggers THEN a.value > sensitivity
                                                         ELSE PressedIn(s, p, w)
         /\ \A p \in Ports : \A w : StandsIn(r, p, w) =
              IF p = a.port /\ w = a.what THEN a.value ELSE StandsIn(s, p, w)
<1> DEFINE d == device[a.port]
           j == s.joy[a.port][d]
           r == AxisEvent(s, a)
           sensitivity == IF d \in DOMAIN pads THEN Threshold ELSE 0
           set == SetAxis(j, a.what, a.value)
           new == IF a.what \in Triggers THEN SetButton(set, a.what, a.value > sensitivity) ELSE set
<1>1. d \in Devices  OBVIOUS
<1>2. r = [joy |-> [s.joy EXCEPT ![a.port] = [s.joy[a.port] EXCEPT ![d] = new]],
           keys |-> s.keys, fast |-> s.fast, turbo |-> s.turbo]
  <2>1. r = [s EXCEPT !.joy[a.port][d] = new]
    BY DEF AxisEvent
  <2> HIDE DEF new, r
  <2>2. QED  BY <1>1, <2>1 DEF Machine
<1>5. DOMAIN j = {"buttons", "axes"}
  BY <1>1 DEF Machine
<1>6. /\ DOMAIN set = {"buttons", "axes"} /\ set.buttons = j.buttons
      /\ set.axes = [x \in DOMAIN j.axes \cup {a.what} |-> IF x = a.what THEN a.value ELSE j.axes[x]]
  BY <1>5 DEF SetAxis
<1> HIDE DEF set
<1>7. /\ DOMAIN new = {"buttons", "axes"} /\ new.axes = set.axes
      /\ a.what \notin Triggers => new.buttons = j.buttons
      /\ a.what \in Triggers => new.buttons = IF a.value > sensitivity THEN j.buttons \cup {a.what}
                                                                    ELSE j.buttons \ {a.what}
  BY <1>6 DEF SetButton
<1> HIDE DEF new
<1>3. \A p \in Ports : DOMAIN r.joy[p] = Devices
  BY <1>1, <1>2 DEF Machine
<1>4. \A p \in Ports, e \in Devices : r.joy[p][e] =
        IF p = a.port /\ e = d THEN new ELSE s.joy[p][e]
  BY <1>1, <1>2 DEF Machine
<1> HIDE DEF r
<1>8. Machine(r)
  <2>1. DOMAIN r.joy = Ports
    BY <1>2 DEF Machine
  <2>2. \A p \in Ports, e \in Devices : DOMAIN r.joy[p][e] = {"buttons", "axes"}
    BY <1>4, <1>7 DEF Machine
  <2>3. r.turbo = s.turbo /\ r = [joy |-> r.joy, keys |-> r.keys, fast |-> r.fast, turbo |-> r.turbo]
    BY <1>2
  <2>4. QED  BY <1>3, <2>1, <2>2, <2>3 DEF Machine
<1>9. r.keys = s.keys /\ r.fast = s.fast /\ r.turbo = s.turbo
  BY <1>2
<1>10. \A p \in Ports : device[p] \in Devices  OBVIOUS
<1>11. \A p \in Ports : \A w : PressedIn(r, p, w) <=>
        IF p = a.port /\ w = a.what /\ w \in Triggers THEN a.value > sensitivity ELSE PressedIn(s, p, w)
  BY <1>4, <1>7, <1>10 DEF PressedIn
<1>12. \A p \in Ports : \A w : StandsIn(r, p, w) = IF p = a.port /\ w = a.what THEN a.value ELSE StandsIn(s, p, w)
  <2>1. \A w : AxisOf(new, w) = IF w = a.what THEN a.value ELSE AxisOf(j, w)
    <3>1. /\ DOMAIN new.axes = DOMAIN j.axes \cup {a.what}
          /\ \A x \in DOMAIN j.axes \cup {a.what} :
               new.axes[x] = IF x = a.what THEN a.value ELSE j.axes[x]
      BY <1>6, <1>7
    <3> HIDE DEF j
    <3>2. QED  BY <3>1 DEF AxisOf
  <2>2. QED  BY <1>4, <1>10, <2>1 DEF StandsIn
<1>13. QED  BY <1>8, <1>9, <1>11, <1>12 DEF r

(* The change from s to r touches nothing but what the targets of S stand    *)
(* for: other buttons and axes keep their state, and the speed too, or is    *)
(* the one the menu shows.                                                   *)
Touches(s, r, S) ==
  /\ Machine(r)
  /\ \A i \in TargetIds \ S : Targets[i].kind \in {"button", "trigger"} =>
       (PressedIn(r, Targets[i].port, Targets[i].what) <=>
          PressedIn(s, Targets[i].port, Targets[i].what))
  /\ \A i \in TargetIds : IsAnalog(Targets[i]) /\ S \cap ({i} \cup Opposite(i)) = {} =>
       StandsIn(r, Targets[i].port, Targets[i].what) = StandsIn(s, Targets[i].port, Targets[i].what)
  /\ \/ r.fast = s.fast /\ r.turbo = s.turbo
     \/ r.fast = r.turbo.checked
     \/ \E i \in S : Targets[i].kind = "fastForward"

(* The actions that targets of S give the application.                       *)
ActsFor(a, S) ==
  \/ a.act \notin {"button", "axis", "keyboard", "fastForward"}
  \/ \E i \in S, down \in BOOLEAN : Targets[i].kind = "button" /\ a = Button(Targets[i], down)
  \/ \E i \in S, v \in Int : IsAnalog(Targets[i]) /\ a = Axis(Targets[i], v)
  \/ \E i \in S : Targets[i].kind = "fastForward" /\ a \in {FastForward(0), FastForward(1)}
  \/ a = FastForward(2)

(* Two targets of the same stick pull it opposite ways.                      *)
LEMMA Opposites ==
  /\ \A i \in TargetIds, j \in TargetIds :
       IsAnalog(Targets[i]) /\ IsAnalog(Targets[j]) /\ SamePlace(i, j) => j \in {i} \cup Opposite(i)
  /\ \A i \in TargetIds : \A j \in Opposite(i) :
       /\ j \in TargetIds /\ i # j /\ i \in Opposite(j) /\ SamePlace(i, j)
       /\ Targets[i].kind = "stick" /\ Targets[j].kind = "stick"
       /\ Targets[j].dir = -Targets[i].dir /\ Targets[i].dir \in {-1, 1}
       /\ Opposite(i) = {j}
<1>1. \A i \in TargetIds, j \in TargetIds :
       IsAnalog(Targets[i]) /\ IsAnalog(Targets[j]) /\ SamePlace(i, j) => j \in {i} \cup Opposite(i)
  BY TargetsAssumption
<1>2. ASSUME NEW i \in TargetIds, NEW j \in Opposite(i)
      PROVE  /\ j \in TargetIds /\ i # j /\ i \in Opposite(j) /\ SamePlace(i, j)
             /\ Targets[i].kind = "stick" /\ Targets[j].kind = "stick"
             /\ Targets[j].dir = -Targets[i].dir /\ Targets[i].dir \in {-1, 1}
  <2>1. /\ j \in TargetIds /\ {Targets[i].kind, Targets[j].kind} = {"stick"}
        /\ Targets[j].port = Targets[i].port /\ Targets[j].what = Targets[i].what
        /\ Targets[j].dir = -Targets[i].dir
    BY DEF Opposite
  <2>2. Targets[i].kind = "stick" /\ Targets[j].kind = "stick"
    BY <2>1
  <2>3. Targets[i].dir \in {-1, 1}
    BY <2>2, TargetsAssumption
  <2>4. i # j /\ Targets[i].dir = -Targets[j].dir
    BY <2>1, <2>3
  <2>5. i \in Opposite(j)
    BY <2>1, <2>2, <2>4 DEF Opposite
  <2>6. QED  BY <2>1, <2>2, <2>3, <2>4, <2>5 DEF SamePlace
<1>3. ASSUME NEW i \in TargetIds, NEW j \in Opposite(i), NEW k \in Opposite(i)
      PROVE  k = j
  <2>1. SamePlace(j, k) /\ Targets[j].dir = Targets[k].dir /\ j \in TargetIds /\ k \in TargetIds
    BY <1>2 DEF SamePlace
  <2>2. IsAnalog(Targets[j]) /\ IsAnalog(Targets[k])
    BY <1>2 DEF IsAnalog
  <2>3. CASE j # k
    <3>1. k \in Opposite(j)
      BY <2>1, <2>2, <2>3, TargetsAssumption
    <3>2. Targets[k].dir = -Targets[j].dir /\ Targets[j].dir \in {-1, 1}
      BY <1>2, <2>1, <3>1
    <3>3. QED  BY <2>1, <3>2
  <2>4. QED  BY <2>3
<1>4. QED  BY <1>1, <1>2, <1>3

(* What an action for targets does touches only what they stand for.         *)
LEMMA ActsTouch ==
  ASSUME NEW s, Machine(s), device \in [Ports -> Devices],
         NEW S, S \subseteq TargetIds, NEW a, ActsFor(a, S)
  PROVE  /\ Touches(s, Handled(s, a), S) /\ Handled(s, a).keys = s.keys
         /\ a.act # "axis" => \A p \in Ports : \A w : StandsIn(Handled(s, a), p, w) = StandsIn(s, p, w)
<1>0. \A i \in TargetIds : Targets[i].kind \in {"button", "stick", "trigger"} => Targets[i].port \in Ports
  BY ControlsAssumption
<1>1. CASE a.act \notin {"button", "axis", "keyboard", "fastForward"}
  BY <1>1 DEF Handled, Touches
<1>2. ASSUME NEW i \in S, NEW down \in BOOLEAN, Targets[i].kind = "button", a = Button(Targets[i], down)
      PROVE  /\ Touches(s, Handled(s, a), S) /\ Handled(s, a).keys = s.keys
             /\ \A p \in Ports : \A w : StandsIn(Handled(s, a), p, w) = StandsIn(s, p, w)
  <2> DEFINE r == Handled(s, a)
  <2>1. a.act = "button" /\ a.port = Targets[i].port /\ a.what = Targets[i].what /\ a.value = down
    BY <1>2 DEF Button
  <2>2. r = ButtonEvent(s, a)
    BY <2>1 DEF Handled
  <2>3. a.port \in Ports /\ a.value \in BOOLEAN
    BY <1>0, <1>2, <2>1
  <2> HIDE DEF r
  <2>4. /\ Machine(r) /\ r.keys = s.keys /\ r.fast = s.fast /\ r.turbo = s.turbo
        /\ \A p \in Ports : \A w : PressedIn(r, p, w) <=>
             IF p = a.port /\ w = a.what THEN a.value ELSE PressedIn(s, p, w)
        /\ \A p \in Ports : \A w : StandsIn(r, p, w) = StandsIn(s, p, w)
    BY <2>2, <2>3, ButtonEventSets
  <2>5. ASSUME NEW j \in TargetIds \ S, Targets[j].kind \in {"button", "trigger"}
        PROVE  PressedIn(r, Targets[j].port, Targets[j].what) <=>
                 PressedIn(s, Targets[j].port, Targets[j].what)
    <3>1. ~SamePlace(i, j)
      BY <1>2, <2>5, TargetsAssumption
    <3>2. Targets[j].port \in Ports
      BY <1>0, <2>5
    <3>3. QED  BY <2>1, <2>4, <3>1, <3>2 DEF SamePlace
  <2>6. \A j \in TargetIds : IsAnalog(Targets[j]) =>
          StandsIn(r, Targets[j].port, Targets[j].what) = StandsIn(s, Targets[j].port, Targets[j].what)
    BY <1>0, <2>4 DEF IsAnalog
  <2>7. Touches(s, r, S)
    BY <2>4, <2>5, <2>6 DEF Touches
  <2>8. QED  BY <2>4, <2>7 DEF r
<1>3. ASSUME NEW i \in S, NEW v \in Int, IsAnalog(Targets[i]), a = Axis(Targets[i], v)
      PROVE  Touches(s, Handled(s, a), S) /\ Handled(s, a).keys = s.keys /\ a.act = "axis"
  <2> DEFINE r == Handled(s, a)
  <2>1. a.act = "axis" /\ a.port = Targets[i].port /\ a.what = Targets[i].what /\ a.value = v
    BY <1>3 DEF Axis
  <2>2. r = AxisEvent(s, a)
    BY <2>1 DEF Handled
  <2>3. a.port \in Ports
    BY <1>0, <1>3, <2>1 DEF IsAnalog
  <2> HIDE DEF r
  <2>4. /\ Machine(r) /\ r.keys = s.keys /\ r.fast = s.fast /\ r.turbo = s.turbo
        /\ \A p \in Ports : \A w : (p # a.port \/ w # a.what \/ w \notin Triggers) =>
             (PressedIn(r, p, w) <=> PressedIn(s, p, w))
        /\ \A p \in Ports : \A w : (p # a.port \/ w # a.what) =>
             StandsIn(r, p, w) = StandsIn(s, p, w)
    BY <2>2, <2>3, AxisEventSets
  <2>5. ASSUME NEW j \in TargetIds \ S, Targets[j].kind \in {"button", "trigger"}
        PROVE  PressedIn(r, Targets[j].port, Targets[j].what) <=>
                 PressedIn(s, Targets[j].port, Targets[j].what)
    <3>1. Targets[i].kind = "trigger" => ~SamePlace(i, j)
      BY <1>3, <2>5, TargetsAssumption
    <3>2. Targets[i].kind = "stick" => a.what \notin Triggers
      BY <1>3, <2>1, ControlsAssumption
    <3>3. Targets[j].port \in Ports
      BY <1>0, <2>5
    <3>4. QED  BY <1>3, <2>1, <2>4, <3>1, <3>2, <3>3 DEF SamePlace, IsAnalog
  <2>6. ASSUME NEW j \in TargetIds, IsAnalog(Targets[j]), S \cap ({j} \cup Opposite(j)) = {}
        PROVE  StandsIn(r, Targets[j].port, Targets[j].what) = StandsIn(s, Targets[j].port, Targets[j].what)
    <3>1. ~SamePlace(j, i)
      BY <1>3, <2>6, Opposites
    <3>2. Targets[j].port \in Ports
      BY <1>0, <2>6 DEF IsAnalog
    <3>3. QED  BY <2>1, <2>4, <3>1, <3>2 DEF SamePlace
  <2>7. QED  BY <2>1, <2>4, <2>5, <2>6 DEF Touches, r
<1>4. ASSUME a.act = "fastForward", a.value \in {0, 1, 2},
             a.value # 2 => \E i \in S : Targets[i].kind = "fastForward"
      PROVE  /\ Touches(s, Handled(s, a), S) /\ Handled(s, a).keys = s.keys
             /\ \A p \in Ports : \A w : StandsIn(Handled(s, a), p, w) = StandsIn(s, p, w)
  <2> DEFINE r == Handled(s, a)
  <2>1. r = ToggleFastForwarding(s, a.value)
    BY <1>4 DEF Handled
  <2>2. /\ r = [joy |-> s.joy, keys |-> s.keys, fast |-> r.fast, turbo |-> r.turbo]
        /\ a.value = 2 => r.fast = r.turbo.checked
        /\ r.turbo.checked \in BOOLEAN /\ r.turbo.enabled \in BOOLEAN
        /\ DOMAIN r.turbo = {"checked", "enabled"}
    <3>1. CASE a.value = 0  BY <2>1, <3>1 DEF ToggleFastForwarding, Machine
    <3>2. CASE a.value = 1  BY <2>1, <3>2 DEF ToggleFastForwarding, Machine
    <3>3. CASE a.value = 2
      <4> DEFINE checked == s.turbo.checked /\ s.turbo.enabled
                 set     == [checked |-> ~checked, enabled |-> TRUE]
      <4>1. r = [s EXCEPT !.fast = ~checked, !.turbo = set]
        BY <2>1, <3>3 DEF ToggleFastForwarding
      <4>2. set.checked = ~checked /\ set.enabled = TRUE /\ DOMAIN set = {"checked", "enabled"}
        OBVIOUS
      <4>3. checked \in BOOLEAN
        OBVIOUS
      <4> HIDE DEF checked, set, r
      <4>4. r = [joy |-> s.joy, keys |-> s.keys, fast |-> ~checked, turbo |-> set]
        BY <4>1 DEF Machine
      <4>5. r.fast = ~checked /\ r.turbo = set
        BY <4>4
      <4>6. QED  BY <4>2, <4>3, <4>4, <4>5
    <3>4. QED  BY <1>4, <3>1, <3>2, <3>3
  <2> HIDE DEF r
  <2>3. r.joy = s.joy /\ r.keys = s.keys
    BY <2>2
  <2>4. Machine(r)
    BY <2>2, <2>3 DEF Machine
  <2>5. /\ \A p, w : PressedIn(r, p, w) <=> PressedIn(s, p, w)
        /\ \A p, w : StandsIn(r, p, w) = StandsIn(s, p, w)
    BY <2>3 DEF PressedIn, StandsIn
  <2>6. Touches(s, r, S)
    BY <1>4, <2>2, <2>3, <2>4, <2>5 DEF Touches
  <2>7. QED  BY <2>3, <2>5, <2>6 DEF r
<1>5. CASE \E i \in S : Targets[i].kind = "fastForward" /\ a \in {FastForward(0), FastForward(1)}
  <2>1. a.act = "fastForward" /\ a.value \in {0, 1}
    BY <1>5 DEF FastForward
  <2>2. QED  BY <1>4, <1>5, <2>1
<1>6. CASE a = FastForward(2)
  <2>1. a.act = "fastForward" /\ a.value = 2
    BY <1>6 DEF FastForward
  <2>2. QED  BY <1>4, <2>1
<1>7. QED  BY <1>1, <1>2, <1>3, <1>5, <1>6 DEF ActsFor

(* Where a stick stands when one of its directions is held.                  *)
End(i) == Targets[i].dir * Full

(* What a machine in the state r was told of a target that is pressed, and   *)
(* of one that is let go when the key binder b holds the others.             *)
Down(i, r) ==
  LET t == Targets[i] IN
  /\ t.kind \in {"button", "trigger"} => PressedIn(r, t.port, t.what)
  /\ t.kind = "stick" => StandsIn(r, t.port, t.what) = End(i)
Up(i, b, r) ==
  LET t == Targets[i] IN
  /\ t.kind \in {"button", "trigger"} => ~PressedIn(r, t.port, t.what)
  /\ t.kind = "stick" => StandsIn(r, t.port, t.what) = Rests(b, i)
  /\ t.kind = "fastForward" => r.turbo = turbo /\ (turbo.enabled => r.fast = turbo.checked)

(* Pressing a target: its button is pressed, its stick stands at its end.    *)
LEMMA PressDoes ==
  ASSUME NEW s, Machine(s), device \in [Ports -> Devices],
         NEW i \in TargetIds, NEW b, b = [axes |-> b.axes, focus |-> b.focus, slot |-> b.slot]
  PROVE  LET t == Targets[i]
             y == TranslateButtonPress(b, i)
             r == Handled(s, y.action)
         IN /\ ActsFor(y.action, {i})
            /\ y.action.act = "axis" => IsAnalog(t)
            /\ y.binder.axes = b.axes \cup (IF t.kind = "stick" THEN {i} ELSE {})
            /\ y.binder = [axes |-> y.binder.axes, focus |-> y.binder.focus, slot |-> y.binder.slot]
            /\ Down(i, r)
<1> DEFINE t == Targets[i]
           y == TranslateButtonPress(b, i)
           r == Handled(s, y.action)
<1>0. t.kind \in {"button", "stick", "trigger"} => t.port \in Ports
  BY ControlsAssumption
<1>1. CASE t.kind = "button"
  <2>1. y = Yields(b, Button(t, TRUE))
    BY <1>1 DEF TranslateButtonPress
  <2>2. y.binder = b /\ y.action = Button(t, TRUE)
    BY <2>1 DEF Yields
  <2>3. /\ y.action.act = "button" /\ y.action.port = t.port /\ y.action.what = t.what
        /\ y.action.value = TRUE
    BY <2>2 DEF Button
  <2>4. r = ButtonEvent(s, y.action)
    BY <2>3 DEF Handled
  <2>5. ActsFor(y.action, {i})
    BY <1>1, <2>2 DEF ActsFor
  <2> HIDE DEF y
  <2>6. PressedIn(r, t.port, t.what)
    <3>1. y.action.port \in Ports /\ y.action.value \in BOOLEAN
      BY <1>0, <1>1, <2>3
    <3>2. \A p \in Ports : \A w : PressedIn(r, p, w) <=>
            IF p = y.action.port /\ w = y.action.what THEN y.action.value ELSE PressedIn(s, p, w)
      BY <2>4, <3>1, ButtonEventSets
    <3> HIDE DEF r
    <3>3. QED  BY <2>3, <3>1, <3>2
  <2>7. QED  BY <1>1, <2>2, <2>3, <2>5, <2>6 DEF y, Down
<1>2. CASE t.kind = "trigger"
  <2>1. y = Yields(b, Axis(t, Full))
    BY <1>2 DEF TranslateButtonPress
  <2>2. y.binder = b /\ y.action = Axis(t, Full)
    BY <2>1 DEF Yields
  <2>3. /\ y.action.act = "axis" /\ y.action.port = t.port /\ y.action.what = t.what
        /\ y.action.value = Full
    BY <2>2 DEF Axis
  <2>4. r = AxisEvent(s, y.action)
    BY <2>3 DEF Handled
  <2>5. ActsFor(y.action, {i})
    BY <1>2, <2>2, TargetsAssumption DEF ActsFor, IsAnalog
  <2>6. t.what \in Triggers
    BY <1>2, ControlsAssumption DEF IsAnalog
  <2>7. Full > Threshold /\ Full > 0
    BY TargetsAssumption
  <2> HIDE DEF y
  <2>8. PressedIn(r, t.port, t.what)
    <3> DEFINE sensitivity == IF device[y.action.port] \in DOMAIN pads THEN Threshold ELSE 0
    <3>1. y.action.port \in Ports
      BY <1>0, <1>2, <2>3
    <3>2. \A p \in Ports : \A w : PressedIn(r, p, w) <=>
            IF p = y.action.port /\ w = y.action.what /\ w \in Triggers
              THEN y.action.value > sensitivity ELSE PressedIn(s, p, w)
      BY <2>4, <3>1, AxisEventSets
    <3>3. sensitivity \in {Threshold, 0}  OBVIOUS
    <3> HIDE DEF r, sensitivity
    <3>4. PressedIn(r, t.port, t.what) <=> y.action.value > sensitivity
      BY <2>3, <2>6, <3>1, <3>2
    <3>5. QED  BY <2>3, <2>7, <3>3, <3>4
  <2>9. QED  BY <1>2, <2>2, <2>3, <2>5, <2>8 DEF y, IsAnalog, Down
<1>3. CASE t.kind = "stick"
  <2>1. y = Yields([b EXCEPT !.axes = @ \cup {i}], Axis(t, t.dir * Full))
    BY <1>3 DEF TranslateButtonPress
  <2>2. y.binder = [b EXCEPT !.axes = @ \cup {i}] /\ y.action = Axis(t, t.dir * Full)
    BY <2>1 DEF Yields
  <2>3. /\ y.action.act = "axis" /\ y.action.port = t.port /\ y.action.what = t.what
        /\ y.action.value = t.dir * Full
    BY <2>2 DEF Axis
  <2>4. r = AxisEvent(s, y.action)
    BY <2>3 DEF Handled
  <2>5. t.dir * Full \in Int
    <3>1. t.dir \in {-1, 1} /\ Full \in Nat
      BY <1>3, TargetsAssumption
    <3>2. QED  BY <3>1
  <2>6. ActsFor(y.action, {i})
    BY <1>3, <2>2, <2>5 DEF ActsFor, IsAnalog
  <2>7. y.binder = [axes |-> b.axes \cup {i}, focus |-> b.focus, slot |-> b.slot]
    BY <2>2
  <2> HIDE DEF y
  <2>8. StandsIn(r, t.port, t.what) = t.dir * Full
    BY <1>0, <1>3, <2>3, <2>4, AxisEventSets
  <2>9. QED  BY <1>3, <2>3, <2>6, <2>7, <2>8 DEF y, IsAnalog, End, Down
<1>4. CASE t.kind = "fastForward"
  <2>1. y = Yields(b, FastForward(1))
    BY <1>4 DEF TranslateButtonPress
  <2>2. y.binder = b /\ y.action = FastForward(1)
    BY <2>1 DEF Yields
  <2>3. ActsFor(y.action, {i}) /\ y.action.act = "fastForward"
    BY <1>4, <2>2 DEF ActsFor, FastForward
  <2>4. QED  BY <1>4, <2>2, <2>3 DEF Down
<1>5. CASE t.kind = "fastForwardToggle"
  <2>1. y = Yields(b, FastForward(2))
    BY <1>5 DEF TranslateButtonPress
  <2>2. y.binder = b /\ y.action = FastForward(2)
    BY <2>1 DEF Yields
  <2>3. ActsFor(y.action, {i}) /\ y.action.act = "fastForward"
    BY <2>2 DEF ActsFor, FastForward
  <2>4. QED  BY <1>5, <2>2, <2>3 DEF Down
<1>6. CASE t.kind \notin {"button", "trigger", "stick", "fastForward", "fastForwardToggle"}
  <2>1. /\ y.binder.axes = b.axes
        /\ y.binder = [axes |-> y.binder.axes, focus |-> y.binder.focus, slot |-> y.binder.slot]
        /\ y.action.act \notin {"button", "axis", "keyboard", "fastForward"}
    <3>1. t.kind \notin {"axis", "keyboard"}
      BY TargetsAssumption
    <3>2. CASE t.kind \in {"save", "load"}
      <4>1. y = Yields(b, StateAction(t.kind, t.n))
        BY <3>2 DEF TranslateButtonPress
      <4>2. QED  BY <3>2, <4>1 DEF Yields, StateAction
    <3>3. CASE t.kind = "saveCurrent"
      <4>1. y = Yields(b, StateAction("save", b.slot))
        BY <3>3 DEF TranslateButtonPress
      <4>2. QED  BY <4>1 DEF Yields, StateAction
    <3>4. CASE t.kind = "loadCurrent"
      <4>1. y = Yields(b, StateAction("load", b.slot))
        BY <3>4 DEF TranslateButtonPress
      <4>2. QED  BY <4>1 DEF Yields, StateAction
    <3>5. CASE t.kind \in {"prevSlot", "nextSlot", "setSlot"}
      <4>1. y = Yields([b EXCEPT !.slot = SlotAfter(b, t)], StateAction("changeSlot", SlotAfter(b, t)))
        BY <3>5 DEF TranslateButtonPress
      <4>2. QED  BY <4>1 DEF Yields, StateAction
    <3>6. CASE t.kind = "gameFocusToggle"
      <4>1. y = Yields([b EXCEPT !.focus = ~@], Hotkey(t))
        BY <3>6 DEF TranslateButtonPress
      <4>2. QED  BY <3>6, <4>1 DEF Yields, Hotkey
    <3>7. CASE t.kind \notin {"save", "load", "saveCurrent", "loadCurrent", "prevSlot", "nextSlot",
                             "setSlot", "gameFocusToggle"}
      <4>1. y = Yields(b, Hotkey(t))
        BY <1>6, <3>7 DEF TranslateButtonPress
      <4>2. QED  BY <1>6, <3>1, <4>1 DEF Yields, Hotkey
    <3>8. QED  BY <3>2, <3>3, <3>4, <3>5, <3>6, <3>7
  <2>2. QED  BY <1>6, <2>1 DEF ActsFor, Down
<1>7. QED  BY <1>1, <1>2, <1>3, <1>4, <1>5, <1>6

(* Letting a target go: its button is released, its stick goes where Rests   *)
(* says, the speed to what the menu says.                                    *)
LEMMA ReleaseDoes ==
  ASSUME NEW s, Machine(s), s.turbo = turbo, device \in [Ports -> Devices],
         NEW i \in TargetIds, NEW b, b = [axes |-> b.axes, focus |-> b.focus, slot |-> b.slot]
  PROVE  LET t == Targets[i]
             y == TranslateButtonReleased(b, i)
             r == Handled(s, y.action)
         IN /\ ActsFor(y.action, {i})
            /\ y.action.act = "axis" => IsAnalog(t)
            /\ y.binder.axes = b.axes \ (IF t.kind = "stick" THEN {i} ELSE {})
            /\ y.binder = [axes |-> y.binder.axes, focus |-> y.binder.focus, slot |-> y.binder.slot]
            /\ Up(i, b, r)
<1> DEFINE t == Targets[i]
           y == TranslateButtonReleased(b, i)
           r == Handled(s, y.action)
<1>0. t.kind \in {"button", "stick", "trigger"} => t.port \in Ports
  BY ControlsAssumption
<1>1. CASE t.kind = "button"
  <2>1. y = Yields(b, Button(t, FALSE))
    BY <1>1 DEF TranslateButtonReleased
  <2>2. y.binder = b /\ y.action = Button(t, FALSE)
    BY <2>1 DEF Yields
  <2>3. /\ y.action.act = "button" /\ y.action.port = t.port /\ y.action.what = t.what
        /\ y.action.value = FALSE
    BY <2>2 DEF Button
  <2>4. r = ButtonEvent(s, y.action)
    BY <2>3 DEF Handled
  <2>5. ActsFor(y.action, {i})
    BY <1>1, <2>2 DEF ActsFor
  <2> HIDE DEF y
  <2>6. ~PressedIn(r, t.port, t.what)
    <3>1. y.action.port \in Ports /\ y.action.value \in BOOLEAN
      BY <1>0, <1>1, <2>3
    <3>2. \A p \in Ports : \A w : PressedIn(r, p, w) <=>
            IF p = y.action.port /\ w = y.action.what THEN y.action.value ELSE PressedIn(s, p, w)
      BY <2>4, <3>1, ButtonEventSets
    <3> HIDE DEF r
    <3>3. QED  BY <2>3, <3>1, <3>2
  <2>7. QED  BY <1>1, <2>2, <2>3, <2>5, <2>6 DEF y, Up
<1>2. CASE t.kind = "trigger"
  <2>1. y = Yields(b, Axis(t, 0))
    BY <1>2 DEF TranslateButtonReleased
  <2>2. y.binder = b /\ y.action = Axis(t, 0)
    BY <2>1 DEF Yields
  <2>3. /\ y.action.act = "axis" /\ y.action.port = t.port /\ y.action.what = t.what
        /\ y.action.value = 0
    BY <2>2 DEF Axis
  <2>4. r = AxisEvent(s, y.action)
    BY <2>3 DEF Handled
  <2>5. ActsFor(y.action, {i})
    BY <1>2, <2>2 DEF ActsFor, IsAnalog
  <2>6. t.what \in Triggers
    BY <1>2, ControlsAssumption DEF IsAnalog
  <2>7. ~(0 > Threshold) /\ ~(0 > 0)
    BY TargetsAssumption
  <2> HIDE DEF y
  <2>8. ~PressedIn(r, t.port, t.what)
    <3> DEFINE sensitivity == IF device[y.action.port] \in DOMAIN pads THEN Threshold ELSE 0
    <3>1. y.action.port \in Ports
      BY <1>0, <1>2, <2>3
    <3>2. \A p \in Ports : \A w : PressedIn(r, p, w) <=>
            IF p = y.action.port /\ w = y.action.what /\ w \in Triggers
              THEN y.action.value > sensitivity ELSE PressedIn(s, p, w)
      BY <2>4, <3>1, AxisEventSets
    <3>3. sensitivity \in {Threshold, 0}  OBVIOUS
    <3> HIDE DEF r, sensitivity
    <3>4. PressedIn(r, t.port, t.what) <=> y.action.value > sensitivity
      BY <2>3, <2>6, <3>1, <3>2
    <3>5. QED  BY <2>3, <2>7, <3>3, <3>4
  <2>9. QED  BY <1>2, <2>2, <2>3, <2>5, <2>8 DEF y, IsAnalog, Up
<1>3. CASE t.kind = "stick"
  <2>1. y = Yields([b EXCEPT !.axes = @ \ {i}], Axis(t, Rests(b, i)))
    BY <1>3 DEF TranslateButtonReleased
  <2>2. y.binder = [b EXCEPT !.axes = @ \ {i}] /\ y.action = Axis(t, Rests(b, i))
    BY <2>1 DEF Yields
  <2>3. /\ y.action.act = "axis" /\ y.action.port = t.port /\ y.action.what = t.what
        /\ y.action.value = Rests(b, i)
    BY <2>2 DEF Axis
  <2>4. r = AxisEvent(s, y.action)
    BY <2>3 DEF Handled
  <2>5. Rests(b, i) \in Int
    <3>1. t.dir \in {-1, 1} /\ Full \in Nat
      BY <1>3, TargetsAssumption
    <3>2. -t.dir * Full \in Int
      BY <3>1
    <3>3. QED  BY <3>2 DEF Rests
  <2>6. ActsFor(y.action, {i})
    BY <1>3, <2>2, <2>5 DEF ActsFor, IsAnalog
  <2>7. y.binder = [axes |-> b.axes \ {i}, focus |-> b.focus, slot |-> b.slot]
    BY <2>2
  <2> HIDE DEF y
  <2>8. StandsIn(r, t.port, t.what) = Rests(b, i)
    BY <1>0, <1>3, <2>3, <2>4, AxisEventSets
  <2>9. QED  BY <1>3, <2>3, <2>6, <2>7, <2>8 DEF y, IsAnalog, Up
<1>4. CASE t.kind = "fastForward"
  <2>1. y = Yields(b, FastForward(0))
    BY <1>4 DEF TranslateButtonReleased
  <2>2. y.binder = b /\ y.action = FastForward(0)
    BY <2>1 DEF Yields
  <2>3. ActsFor(y.action, {i}) /\ y.action.act = "fastForward" /\ y.action.value = 0
    BY <1>4, <2>2 DEF ActsFor, FastForward
  <2>4. r = [s EXCEPT !.fast = s.turbo.checked /\ s.turbo.enabled]
    BY <2>3 DEF Handled, ToggleFastForwarding
  <2>5. r.turbo = s.turbo /\ r.fast = (s.turbo.checked /\ s.turbo.enabled)
    BY <2>4 DEF Machine
  <2>6. s.turbo.enabled => r.fast = s.turbo.checked
    BY <2>5 DEF Machine
  <2>7. QED  BY <1>4, <2>2, <2>3, <2>5, <2>6 DEF Up
<1>5. CASE t.kind \notin {"button", "trigger", "stick", "fastForward"}
  <2>1. y = Yields(b, Nothing)
    BY <1>5 DEF TranslateButtonReleased
  <2>2. y.binder = b /\ y.action.act = "nothing"
    BY <2>1 DEF Yields, Nothing
  <2>3. QED  BY <1>5, <2>2 DEF ActsFor, Up
<1>6. QED  BY <1>1, <1>2, <1>3, <1>4, <1>5

-----------------------------------------------------------------------------
(* The translation of a pad's axis.                                          *)

(* The bindings of an axis are taken one after the other.                    *)
LEMMA AxisInOrder ==
  ASSUME NEW id, NEW x, NEW v
  PROVE  \E after :
           /\ after[0] = [action1 |-> Nothing, action2 |-> Nothing, binder |-> Binder]
           /\ \A n \in 1..Len(Targets) : after[n] =
                IF n \in AxisTargets(id, x) THEN AxisStep(after[n - 1], n, v) ELSE after[n - 1]
           /\ TranslatePadAxis(id, x, v) = after[Len(Targets)]
<1> DEFINE start == [action1 |-> Nothing, action2 |-> Nothing, binder |-> Binder]
           Step(f, n) == IF n = 0 THEN start
                         ELSE IF n \in AxisTargets(id, x) THEN AxisStep(f[n - 1], n, v)
                         ELSE f[n - 1]
           Follows(f, m) == f = [n \in 0..m |-> Step(f, n)]
           len == Len(Targets)
<1>1. len \in Nat
  BY TargetsAssumption
<1>2. TranslatePadAxis(id, x, v) = (CHOOSE f : Follows(f, len))[len]
  BY DEF TranslatePadAxis
<1> DEFINE bad == {m \in 0..len : ~\E f : Follows(f, m)}
<1>3. bad = {}
  <2>1. SUFFICES ASSUME bad # {} PROVE FALSE
    OBVIOUS
  <2> DEFINE m == First(bad)
  <2>2. m \in bad /\ \A j \in bad : m <= j
    <3>1. bad \subseteq Nat
      BY <1>1
    <3> HIDE DEF bad
    <3>2. QED  BY <2>1, <3>1, HasFirst
  <2>3. m \in 0..len /\ ~\E f : Follows(f, m)
    BY <2>2
  <2> HIDE DEF m
  <2>4. CASE m = 0
    <3> DEFINE f == [n \in 0..0 |-> start]
    <3>1. Follows(f, 0)
      OBVIOUS
    <3>2. QED  BY <2>3, <2>4, <3>1
  <2>5. CASE m # 0
    <3>1. m - 1 \in 0..len /\ ~(m <= m - 1)
      BY <1>1, <2>3, <2>5
    <3>2. PICK f : Follows(f, m - 1)
      BY <2>2, <3>1
    <3> DEFINE last == Step(f, m)
               g == [n \in 0..m |-> IF n = m THEN last ELSE f[n]]
    <3>3. \A n \in 0..m : Step(g, n) = Step(f, n)
      <4>1. \A n \in 0..m : n # 0 => n - 1 \in 0..m /\ n - 1 # m
        BY <1>1, <2>3
      <4> HIDE DEF last
      <4>2. \A n \in 0..m : n # 0 => g[n - 1] = f[n - 1]
        BY <4>1
      <4> HIDE DEF g
      <4>3. QED  BY <4>2
    <3>4. \A n \in 0..m : n # m => f[n] = Step(f, n)
      <4>1. \A n \in 0..m : n # m => n \in 0..(m - 1)
        BY <1>1, <2>3
      <4> HIDE DEF Step
      <4>2. QED  BY <3>2, <4>1
    <3>5. g = [n \in 0..m |-> Step(f, n)]
      <4> HIDE DEF Step
      <4>1. QED  BY <3>4
    <3>6. Follows(g, m)
      <4> HIDE DEF Step, g
      <4>1. QED  BY <3>3, <3>5
    <3>7. QED  BY <2>3, <3>6
  <2>6. QED  BY <2>4, <2>5
<1>4. PICK f : Follows(f, len)
  <2>1. len \in 0..len
    BY <1>1
  <2>2. QED  BY <1>3, <2>1
<1> DEFINE after == CHOOSE h : Follows(h, len)
<1>5. Follows(after, len)
  <2> HIDE DEF Follows
  <2>1. QED  BY <1>4
<1> HIDE DEF after
<1>6. \A n \in 0..len : after[n] = Step(after, n)
  <2> HIDE DEF Step
  <2>1. QED  BY <1>5
<1>7. after[0] = start
  BY <1>1, <1>6
<1>8. \A n \in 1..len : after[n] =
        IF n \in AxisTargets(id, x) THEN AxisStep(after[n - 1], n, v) ELSE after[n - 1]
  <2>1. \A n \in 1..len : n \in 0..len /\ n # 0
    BY <1>1
  <2>2. QED  BY <1>6, <2>1
<1>9. TranslatePadAxis(id, x, v) = after[len]
  BY <1>2 DEF after
<1>10. QED  BY <1>7, <1>8, <1>9

(* A value cut to what a pad's axis may report.                              *)
LEMMA ShapedIsInteger ==
  ASSUME NEW v \in Int
  PROVE  /\ Shaped(v) \in Int
         /\ LET quiet == -(Threshold \div 4) <= v /\ v <= Threshold \div 4
                w == IF quiet THEN 0 ELSE v
            IN  Shaped(v) = IF w < -Full THEN -Full ELSE w
<1>1. Full \in Nat /\ Threshold \in Nat /\ Threshold < Full
  BY TargetsAssumption
<1>2. Threshold \div 4 \in Nat /\ Threshold \div 4 <= Threshold
  BY <1>1
<1> DEFINE q == Threshold \div 4
<1> HIDE DEF q
<1>3. q \in Nat /\ q < Full
  BY <1>1, <1>2 DEF q
<1>4. Shaped(v) = IF v < -Full THEN -Full ELSE IF v > q \/ v < -q THEN v ELSE 0
  BY DEF Shaped, q
<1>5. Shaped(v) \in Int
  BY <1>1, <1>4
<1>6. Shaped(v) = LET quiet == -q <= v /\ v <= q
                      w == IF quiet THEN 0 ELSE v
                  IN  IF w < -Full THEN -Full ELSE w
  BY <1>1, <1>3, <1>4
<1>7. QED  BY <1>5, <1>6 DEF q

(* What an axis of a pad yields: actions for the targets bound to it, with   *)
(* no button held or let go for an axis of the machine; the first analog     *)
(* target is the one that goes where the axis is.                            *)
LEMMA AxisYields ==
  ASSUME NEW id, NEW x, NEW v \in Int, Machine(Handlers), device \in [Ports -> Devices]
  PROVE  LET r      == TranslatePadAxis(id, x, v)
             moved  == PadTargets("axis", id, x)
             analog == AnalogTargets(id, x)
         IN /\ ActsFor(r.action1, moved) /\ ActsFor(r.action2, moved)
            /\ r.action2.act # "axis" /\ r.binder.axes = axesHeld
            /\ analog = {} => r.action1.act # "axis"
            /\ analog # {} => r.action1 = Axis(Targets[First(analog)], Shaped(v))
<1> DEFINE moved  == PadTargets("axis", id, x)
           analog == AnalogTargets(id, x)
           last   == First(analog)
           taken  == AxisTargets(id, x)
           len    == Len(Targets)
<1>1. PICK after :
        /\ after[0] = [action1 |-> Nothing, action2 |-> Nothing, binder |-> Binder]
        /\ \A n \in 1..len : after[n] =
             IF n \in taken THEN AxisStep(after[n - 1], n, v) ELSE after[n - 1]
        /\ TranslatePadAxis(id, x, v) = after[len]
  BY AxisInOrder
<1> DEFINE Good(n, r) ==
             /\ ActsFor(r.action1, moved) /\ ActsFor(r.action2, moved)
             /\ r.action2.act # "axis" /\ r.binder.axes = axesHeld
             /\ r.binder = [axes |-> r.binder.axes, focus |-> r.binder.focus, slot |-> r.binder.slot]
             /\ r.action1.act = "axis" => analog # {}
             /\ (analog # {} /\ last <= n) => r.action1 = Axis(Targets[last], Shaped(v))
<1>2. len \in Nat /\ TargetIds = 1..len
  BY TargetsAssumption
<1>3. moved \subseteq TargetIds /\ analog = {i \in moved : IsAnalog(Targets[i])}
  BY DEF PadTargets, AnalogTargets
<1>4. analog # {} => last \in analog /\ \A j \in analog : last <= j
  <2>1. analog \subseteq Nat
    BY <1>2, <1>3
  <2> HIDE DEF analog
  <2>2. QED  BY <2>1, HasFirst
<1>11. analog # {} => last \in 1..len /\ last \in moved /\ IsAnalog(Targets[last])
  <2> HIDE DEF last
  <2>1. QED  BY <1>2, <1>3, <1>4
<1>5. taken = IF analog = {} THEN moved ELSE {i \in moved : i <= last}
  BY DEF AxisTargets
<1> HIDE DEF moved, analog, last, taken
<1>6. Good(0, after[0])
  <2>1. after[0].action1.act = "nothing" /\ after[0].action2.act = "nothing"
    BY <1>1 DEF Nothing
  <2>2. after[0].binder = [axes |-> axesHeld, focus |-> gameFocus, slot |-> slot]
    BY <1>1 DEF Binder
  <2>3. analog # {} => ~(last <= 0)
    BY <1>2, <1>11
  <2>4. QED  BY <2>1, <2>2, <2>3 DEF ActsFor
<1>7. ASSUME NEW n \in 1..len, Good(n - 1, after[n - 1])
      PROVE  Good(n, after[n])
  <2> DEFINE r == after[n - 1]
  <2>0. Good(n - 1, r) /\ n \in Nat /\ n \in TargetIds
    BY <1>2, <1>7
  <2>5. r.binder = [axes |-> r.binder.axes, focus |-> r.binder.focus, slot |-> r.binder.slot]
    BY <2>0
  <2>1. after[n] = IF n \in taken THEN AxisStep(r, n, v) ELSE r
    BY <1>1
  <2> HIDE DEF r
  <2>2. CASE n \notin taken
    <3>1. after[n] = r
      BY <2>1, <2>2
    <3>2. (analog # {} /\ last <= n) => last <= n - 1
      <4>1. SUFFICES ASSUME analog # {}, last <= n PROVE last # n
        BY <1>2, <1>11
      <4>2. QED  BY <1>5, <1>11, <2>0, <2>2, <4>1
    <3>3. QED  BY <2>0, <3>1, <3>2
  <2>3. CASE n \in taken
    <3> DEFINE minus  == bindings[n].mod = -1
               beyond == IF minus THEN v < -Threshold ELSE v > Threshold
               quiet  == -(Threshold \div 4) <= v /\ v <= Threshold \div 4
               y == CASE IsAnalog(Targets[n]) -> TranslateAnalog(r.binder, n, IF quiet THEN 0 ELSE v)
                      [] ~IsAnalog(Targets[n]) /\ beyond  -> TranslateButtonPress(r.binder, n)
                      [] ~IsAnalog(Targets[n]) /\ ~beyond -> TranslateButtonReleased(r.binder, n)
    <3>1. after[n] = [action1 |-> IF IsAnalog(Targets[n]) \/ minus THEN y.action ELSE r.action1,
                      action2 |-> IF IsAnalog(Targets[n]) \/ minus THEN r.action2 ELSE y.action,
                      binder  |-> y.binder]
      BY <2>1, <2>3 DEF AxisStep
    <3>2. n \in moved
      BY <1>5, <2>3
    <3>3. CASE IsAnalog(Targets[n])
      <4>1. n \in analog /\ last = n
        <5>1. n \in analog
          BY <1>3, <3>2, <3>3
        <5>2. last \in 1..len /\ last <= n
          BY <1>4, <1>11, <5>1
        <5>3. n <= last
          BY <1>5, <2>3, <5>1
        <5>4. QED  BY <1>2, <2>0, <5>1, <5>2, <5>3
      <4>2. y = TranslateAnalog(r.binder, n, IF quiet THEN 0 ELSE v)
        BY <3>3
      <4>3. y.binder = r.binder /\ y.action = Axis(Targets[n], Shaped(v))
        <5>1. Shaped(v) = LET w == IF quiet THEN 0 ELSE v IN IF w < -Full THEN -Full ELSE w
          BY ShapedIsInteger
        <5>2. QED  BY <4>2, <5>1 DEF TranslateAnalog, Yields
      <4> HIDE DEF y
      <4>4. /\ after[n].action1 = Axis(Targets[n], Shaped(v)) /\ after[n].action2 = r.action2
            /\ after[n].binder = r.binder
        BY <3>1, <3>3, <4>3
      <4>5. ActsFor(after[n].action1, moved)
        BY <3>2, <3>3, <4>4, ShapedIsInteger DEF ActsFor
      <4>6. QED  BY <2>0, <4>1, <4>4, <4>5
    <3>4. CASE ~IsAnalog(Targets[n])
      <4>1. /\ ActsFor(y.action, {n}) /\ y.action.act # "axis" /\ y.binder.axes = r.binder.axes
            /\ y.binder = [axes |-> y.binder.axes, focus |-> y.binder.focus, slot |-> y.binder.slot]
        <5>1. Targets[n].kind # "stick"
          BY <3>4 DEF IsAnalog
        <5>2. CASE beyond
          <6>1. y = TranslateButtonPress(r.binder, n)
            BY <3>4, <5>2
          <6> DEFINE z == TranslateButtonPress(r.binder, n)
          <6>2. /\ ActsFor(z.action, {n}) /\ (z.action.act = "axis" => IsAnalog(Targets[n]))
                /\ z.binder.axes = r.binder.axes \cup (IF Targets[n].kind = "stick" THEN {n} ELSE {})
                /\ z.binder = [axes |-> z.binder.axes, focus |-> z.binder.focus, slot |-> z.binder.slot]
            BY <2>0, <2>5, PressDoes
          <6> HIDE DEF y, z
          <6>3. y = z
            BY <6>1 DEF z
          <6>4. QED  BY <3>4, <5>1, <6>2, <6>3
        <5>3. CASE ~beyond
          <6>1. y = TranslateButtonReleased(r.binder, n)
            BY <3>4, <5>3
          <6> DEFINE z == TranslateButtonReleased(r.binder, n)
          <6>2. /\ ActsFor(z.action, {n}) /\ (z.action.act = "axis" => IsAnalog(Targets[n]))
                /\ z.binder.axes = r.binder.axes \ (IF Targets[n].kind = "stick" THEN {n} ELSE {})
                /\ z.binder = [axes |-> z.binder.axes, focus |-> z.binder.focus, slot |-> z.binder.slot]
            BY <2>0, <2>5, ReleaseDoes DEF Handlers
          <6> HIDE DEF y, z
          <6>3. y = z
            BY <6>1 DEF z
          <6>4. QED  BY <3>4, <5>1, <6>2, <6>3
        <5>4. QED  BY <5>2, <5>3
      <4> HIDE DEF y
      <4>2. ActsFor(y.action, moved)
        BY <3>2, <4>1 DEF ActsFor
      <4>3. ~(analog # {} /\ last <= n)
        <5>1. SUFFICES ASSUME analog # {}, last <= n PROVE last = n
          BY <1>11, <3>4
        <5>2. n <= last
          BY <1>5, <2>3, <5>1
        <5>3. QED  BY <1>2, <1>11, <2>0, <5>1, <5>2
      <4>4. CASE minus
        <5>1. after[n].action1 = y.action /\ after[n].action2 = r.action2 /\ after[n].binder = y.binder
          BY <3>1, <4>4
        <5>2. QED  BY <2>0, <4>1, <4>2, <4>3, <5>1
      <4>5. CASE ~minus
        <5>1. after[n].action1 = r.action1 /\ after[n].action2 = y.action /\ after[n].binder = y.binder
          BY <3>1, <3>4, <4>5
        <5>2. QED  BY <2>0, <4>1, <4>2, <4>3, <5>1
      <4>6. QED  BY <4>4, <4>5
    <3>5. QED  BY <3>3, <3>4
  <2>4. QED  BY <2>2, <2>3
<1>8. Good(len, after[len])
  <2> DEFINE bad == {n \in 0..len : ~Good(n, after[n])}
  <2>1. bad = {}
    <3>1. SUFFICES ASSUME bad # {} PROVE FALSE
      OBVIOUS
    <3>2. bad \subseteq Nat
      BY <1>2
    <3> DEFINE m == First(bad)
    <3>3. m \in bad /\ \A j \in bad : m <= j
      <4> HIDE DEF bad
      <4>1. QED  BY <3>1, <3>2, HasFirst
    <3> HIDE DEF m, Good
    <3>4. m # 0 /\ m \in 1..len
      BY <1>2, <1>6, <3>3
    <3>5. m - 1 \in 0..len /\ ~(m <= m - 1)
      BY <1>2, <3>4
    <3>6. Good(m - 1, after[m - 1])
      BY <3>3, <3>5
    <3>7. QED  BY <1>7, <3>3, <3>4, <3>6
  <2> HIDE DEF Good
  <2>2. QED  BY <1>2, <2>1
<1>9. analog # {} => last <= len
  BY <1>2, <1>11
<1>10. QED  BY <1>1, <1>8, <1>9 DEF moved, analog, last

-----------------------------------------------------------------------------
(* What is held, and what it is taken for.                                   *)

(* What a key is taken for under the modifiers m, in game focus or not.      *)
KeyThingAt(k, m, focus) ==
  LET t == {i \in KeyTargets(k, m) : Targets[i].kind = "gameFocusToggle"}
      s == IF focus THEN t ELSE KeyTargets(k, m)
  IN IF s = {} THEN k ELSE First(s)

(* What a source would be taken for if it were pressed as r says it was.     *)
ThingOf(src, r) ==
  IF src[1] = "key" THEN KeyThingAt(src[2], r.mod, r.focus) ELSE PadThing(src[2], src[3])

(* A thing that a source is still taken for when it is not excused.          *)
Steady(x) == Lasting(x) /\ x \notin excused /\ (x \in Keys \/ ByButton(x))

(* What is held for a steady thing would still be taken for it.              *)
HeldInv ==
  \A src \in DOMAIN held :
    Steady(held[src].thing) => ThingOf(src, held[src]) = held[src].thing

Pressed(i) == PressedIn(Handlers, Targets[i].port, Targets[i].what)
Stands(i)  == StandsIn(Handlers, Targets[i].port, Targets[i].what)

(* What the machine and the key binder hold of a target is what is held.     *)
ButtonRight(i) == (Targets[i].kind \in {"button", "trigger"} /\ Settled(i)) =>
                    (Pressed(i) <=> IsHeld(i))
BookRight(i)   == (Targets[i].kind = "stick" /\ Settled(i)) => (i \in axesHeld <=> IsHeld(i))
SpeedRight(i)  == (Targets[i].kind = "fastForward" /\ Settled(i) /\ ~IsHeld(i) /\ turbo.enabled) =>
                    fast = turbo.checked
StickRight(i)  ==
  \A j \in Opposite(i) : (Settled(i) /\ Settled(j)) =>
    /\ ~IsHeld(i) /\ ~IsHeld(j) => Stands(i) = 0
    /\ IsHeld(i) /\ ~IsHeld(j)  => Stands(i) = Targets[i].dir * Full
    /\ IsHeld(i) /\ IsHeld(j)   => Stands(i) \in {-Full, Full}
Led(i, id)     ==
  /\ IsAnalog(Targets[i])
  /\ i \in PadTargets("axis", id, bindings[i].code) \ excused
  /\ Targets[i].kind = "stick" =>
       Opposite(i) \subseteq PadTargets("axis", id, bindings[i].code) \ excused
AxisRight(i)   ==
  \A id \in DOMAIN pads : Led(i, id) => Stands(i) = Shaped(position[<<id, bindings[i].code>>])
KeyRight(k)    == k \notin excused => (k \in keys <=> IsHeld(k))

TargetRight(i) ==
  ButtonRight(i) /\ BookRight(i) /\ SpeedRight(i) /\ StickRight(i) /\ AxisRight(i)

InputInv ==
  /\ HeldInv
  /\ \A i \in TargetIds : TargetRight(i)
  /\ \A k \in Keys : KeyRight(k)

(* What holds of each target and each key is what the properties say.        *)
LEMMA InputIsRight == InputInv => InputFollows /\ SpeedFollowsMenu
<1>1. SUFFICES ASSUME InputInv PROVE InputFollows /\ SpeedFollowsMenu
  OBVIOUS
<1>2. \A i \in TargetIds : ButtonRight(i) /\ SpeedRight(i) /\ StickRight(i) /\ AxisRight(i)
  BY <1>1 DEF InputInv, TargetRight
<1>3. \A k \in Keys : KeyRight(k)
  BY <1>1 DEF InputInv
<1>4. /\ \A i : Pressed(i) <=> Targets[i].what \in Selected(Targets[i].port).buttons
      /\ \A i : Stands(i) = AxisOf(Selected(Targets[i].port), Targets[i].what)
  BY DEF Pressed, PressedIn, Stands, StandsIn, Selected, Handlers
<1>5. ButtonsAreHeld
  BY <1>2, <1>4 DEF ButtonsAreHeld, ButtonRight
<1>6. KeysAreHeld
  BY <1>3 DEF KeysAreHeld, KeyRight
<1>7. StickFollowsKeys
  BY <1>2, <1>4 DEF StickFollowsKeys, StickRight
<1>8. StickFollowsPad
  BY <1>2, <1>4 DEF StickFollowsPad, AxisRight, Led
<1>9. SpeedFollowsMenu
  BY <1>2 DEF SpeedFollowsMenu, SpeedRight
<1>10. QED  BY <1>5, <1>6, <1>7, <1>8, <1>9 DEF InputFollows, HeldIsPressed, SticksFollow

(* A key is taken for a target it is bound to, or for itself; a pad's button *)
(* for a target or for nothing.                                              *)
LEMMA ThingIsBound ==
  /\ \A k, m, focus : LET x == KeyThingAt(k, m, focus) IN
       x = k \/ (x \in TargetIds /\ bindings[x].type = "key" /\ bindings[x].code = k)
  /\ \A id, b : LET x == PadThing(id, b) IN
       x = None \/ (/\ x \in TargetIds /\ bindings[x].type = "button" /\ bindings[x].code = b
                    /\ bindings[x].pad = BindingId(bindingMap, id))
<1>0. TargetIds \subseteq Nat
  BY TargetsAssumption
<1>1. ASSUME NEW k, NEW m, NEW focus
      PROVE  LET x == KeyThingAt(k, m, focus) IN
             x = k \/ (x \in TargetIds /\ bindings[x].type = "key" /\ bindings[x].code = k)
  <2> DEFINE t == {i \in KeyTargets(k, m) : Targets[i].kind = "gameFocusToggle"}
             s == IF focus THEN t ELSE KeyTargets(k, m)
             x == KeyThingAt(k, m, focus)
  <2>1. x = IF s = {} THEN k ELSE First(s)
    BY DEF KeyThingAt
  <2>2. s \subseteq KeyTargets(k, m)
    OBVIOUS
  <2>3. KeyTargets(k, m) \subseteq TargetIds
    BY DEF KeyTargets
  <2> HIDE DEF s, x
  <2>4. s # {} => First(s) \in s
    BY <1>0, <2>2, <2>3, HasFirst
  <2>5. QED  BY <2>1, <2>2, <2>4 DEF KeyTargets, x
<1>2. ASSUME NEW id, NEW b
      PROVE  LET x == PadThing(id, b) IN
             x = None \/ (/\ x \in TargetIds /\ bindings[x].type = "button" /\ bindings[x].code = b
                          /\ bindings[x].pad = BindingId(bindingMap, id))
  <2> DEFINE s == PadTargets("button", id, b)
             x == PadThing(id, b)
  <2>1. x = IF s = {} THEN None ELSE First(s)
    BY DEF PadThing
  <2>2. s \subseteq TargetIds
    BY DEF PadTargets
  <2> HIDE DEF s, x
  <2>3. s # {} => First(s) \in s
    BY <1>0, <2>2, HasFirst
  <2>4. QED  BY <2>1, <2>3 DEF PadTargets, s, x
<1>3. QED  BY <1>1, <1>2

(* Without twins, two present pads answer to different bindings.             *)
LEMMA PadsDiffer ==
  ASSUME TypesInv, PadsInv, twins = {},
         NEW p \in DOMAIN pads, NEW q \in DOMAIN pads,
         BindingId(bindingMap, p) = BindingId(bindingMap, q)
  PROVE  p = q
<1>1. PICK m \in DOMAIN guids : guids[m] = pads[p].guid
  BY DEF PadsInv
<1>2. PICK n \in DOMAIN guids : guids[n] = pads[q].guid
  BY DEF PadsInv
<1>3. GuidId(guids, pads[p].guid) = m - 1 /\ GuidId(guids, pads[q].guid) = n - 1
  BY <1>1, <1>2, OwnGuidId DEF PadsInv
<1>4. /\ BindingId(bindingMap, p) = GuidId(guids, pads[p].guid)
      /\ BindingId(bindingMap, q) = GuidId(guids, pads[q].guid)
  BY DEF PadsInv, PadKeepsItsBindings
<1>5. m \in Int /\ n \in Int
  BY DEF TypesInv
<1>6. m = n
  <2>1. m - 1 = n - 1
    BY <1>3, <1>4
  <2>2. QED  BY <1>5, <2>1
<1>7. QED  BY <1>1, <1>2, <1>6 DEF PadsInv

(* One source is taken for a key or a target, unless there are twins.        *)
LEMMA OneSource ==
  ASSUME TypesInv, PadsInv, NEW x \in Keys \cup TargetIds,
         NEW src \in Sources, NEW r, ThingOf(src, r) = x,
         NEW other \in Sources, NEW o, ThingOf(other, o) = x,
         src[1] = "key" \/ twins = {}
  PROVE  src = other
<1>1. \A k \in Keys : k \notin TargetIds /\ k # None
  BY ControlsAssumption DEF None
<1>2. TargetIds \subseteq Nat \ {0}
  BY TargetsAssumption
<1>3. ASSUME NEW s \in Sources, NEW e, ThingOf(s, e) = x
      PROVE  \/ x \in Keys /\ s = KeySource(x)
             \/ x \in TargetIds /\ bindings[x].type = "key" /\ s = KeySource(bindings[x].code)
             \/ /\ x \in TargetIds /\ bindings[x].type = "button"
                /\ \E id \in DOMAIN pads : /\ s = PadSource(id, bindings[x].code)
                                           /\ bindings[x].pad = BindingId(bindingMap, id)
  <2>1. CASE \E k \in Keys : s = KeySource(k)
    <3>1. PICK k \in Keys : s = KeySource(k)
      BY <2>1
    <3>2. KeyThingAt(k, e.mod, e.focus) = x
      BY <1>3, <3>1 DEF ThingOf, KeySource
    <3>3. QED  BY <1>1, <3>1, <3>2, ThingIsBound
  <2>2. CASE \E id \in DOMAIN pads, b \in Buttons : s = PadSource(id, b)
    <3>1. PICK id \in DOMAIN pads, b \in Buttons : s = PadSource(id, b)
      BY <2>2
    <3>2. PadThing(id, b) = x
      BY <1>3, <3>1 DEF ThingOf, PadSource
    <3>3. x # None
      BY <1>1, <1>2 DEF None
    <3>4. QED  BY <3>1, <3>2, <3>3, ThingIsBound
  <2>3. QED  BY <2>1, <2>2 DEF Sources
<1>4. CASE x \in Keys
  BY <1>1, <1>3, <1>4
<1>5. CASE x \in TargetIds /\ bindings[x].type = "key"
  BY <1>1, <1>3, <1>5
<1>6. CASE x \in TargetIds /\ bindings[x].type = "button"
  <2>1. PICK p \in DOMAIN pads : /\ src = PadSource(p, bindings[x].code)
                                /\ bindings[x].pad = BindingId(bindingMap, p)
    BY <1>1, <1>3, <1>6
  <2>2. PICK q \in DOMAIN pads : /\ other = PadSource(q, bindings[x].code)
                                /\ bindings[x].pad = BindingId(bindingMap, q)
    BY <1>1, <1>3, <1>6
  <2>3. twins = {}
    BY <2>1 DEF PadSource
  <2>4. p = q
    BY <2>1, <2>2, <2>3, PadsDiffer
  <2>5. QED  BY <2>1, <2>2, <2>4
<1>7. x \in Keys \/ (x \in TargetIds /\ bindings[x].type \in {"key", "button"})
  BY <1>3
<1>8. QED  BY <1>4, <1>5, <1>6, <1>7

-----------------------------------------------------------------------------
(* A step of the user keeps what the machine holds right.                    *)

(* There is one hotkey to hold for speed.                                    *)
LEMMA OneFastForward ==
  \A i, j \in TargetIds :
    Targets[i].kind = "fastForward" /\ Targets[j].kind = "fastForward" => i = j
BY TargetsAssumption

(* What the core reads after an event is what its handler made.              *)
LEMMA AfterEvent ==
  ASSUME NEW b, NEW r, Machine(r), Becomes(b, r), device' = device
  PROVE  /\ Machine(Handlers)' /\ axesHeld' = b.axes /\ keys' = r.keys
         /\ fast' = r.fast /\ turbo' = r.turbo
         /\ \A i : Pressed(i)' <=> PressedIn(r, Targets[i].port, Targets[i].what)
         /\ \A i : Stands(i)' = StandsIn(r, Targets[i].port, Targets[i].what)
<1>1. /\ axesHeld' = b.axes /\ keys' = r.keys /\ fast' = r.fast /\ turbo' = r.turbo /\ joy' = r.joy
  BY DEF Becomes
<1>2. Handlers' = r
  BY <1>1 DEF Handlers, Machine
<1>3. Machine(Handlers)'
  BY <1>2 DEF Machine
<1>4. /\ \A i : Pressed(i)' <=> PressedIn(r, Targets[i].port, Targets[i].what)
      /\ \A i : Stands(i)' = StandsIn(r, Targets[i].port, Targets[i].what)
  BY <1>2 DEF Pressed, PressedIn, Stands, StandsIn
<1>5. QED  BY <1>1, <1>3, <1>4

(* A press of what is taken for y, when it changes nothing but y.            *)
LEMMA PressKeeps ==
  ASSUME TypesInv, PadsInv, InputInv,
         NEW src \in Sources, NEW y, Presses(src, y),
         ThingOf(src, [thing |-> y, mod |-> mod, focus |-> gameFocus]) = y,
         NEW b, NEW r, Becomes(b, r), Touches(Handlers, r, {y} \cap TargetIds),
         r.keys = keys \cup ({y} \cap Keys),
         b.axes = axesHeld \cup {i \in {y} \cap TargetIds : Targets[i].kind = "stick"},
         y \in TargetIds => Down(y, r),
         UNCHANGED <<bindings, bindingMap, pads, device, position>>
  PROVE  InputInv'
<1>1. /\ src \notin DOMAIN held
      /\ held' = With(held, src, [thing |-> y, mod |-> mod, focus |-> gameFocus])
      /\ excused' = IF Holders(held, y) = {} THEN excused \ {y} ELSE excused
  BY DEF Presses
<1>2. /\ DOMAIN held' = DOMAIN held \cup {src}
      /\ held'[src] = [thing |-> y, mod |-> mod, focus |-> gameFocus]
      /\ \A o \in DOMAIN held : held'[o] = held[o]
  BY <1>1 DEF With
<1>3. \A x : IsHeld(x)' <=> (IsHeld(x) \/ x = y)
  BY <1>2 DEF IsHeld, Holders
<1>4. \A x : x # y => (x \in excused' <=> x \in excused)
  BY <1>1
<1>5. /\ Machine(r) /\ axesHeld' = b.axes /\ keys' = r.keys /\ fast' = r.fast /\ turbo' = r.turbo
      /\ \A i : Pressed(i)' <=> PressedIn(r, Targets[i].port, Targets[i].what)
      /\ \A i : Stands(i)' = StandsIn(r, Targets[i].port, Targets[i].what)
  <2>1. Machine(r)
    BY DEF Touches
  <2>2. QED  BY <2>1, AfterEvent
<1>6. y \in TargetIds => bindings[y].type # "axis"
  <2>1. \A k \in Keys : k \notin TargetIds
    BY ControlsAssumption
  <2>2. TargetIds \subseteq Nat \ {0}
    BY TargetsAssumption
  <2>3. CASE \E k \in Keys : src = KeySource(k)
    <3>1. PICK k \in Keys : src = KeySource(k)
      BY <2>3
    <3>2. KeyThingAt(k, mod, gameFocus) = y
      BY <3>1 DEF ThingOf, KeySource
    <3>3. QED  BY <2>1, <3>2, ThingIsBound
  <2>4. CASE \E id \in DOMAIN pads, c \in Buttons : src = PadSource(id, c)
    <3>1. PICK id \in DOMAIN pads, c \in Buttons : src = PadSource(id, c)
      BY <2>4
    <3>2. PadThing(id, c) = y
      BY <3>1 DEF ThingOf, PadSource
    <3>3. QED  BY <2>2, <3>2, ThingIsBound DEF None
  <2>5. QED  BY <2>3, <2>4 DEF Sources
<1>7. HeldInv'
  <2> SUFFICES ASSUME NEW o \in DOMAIN held', Steady(held[o].thing)'
               PROVE  (ThingOf(o, held[o]) = held[o].thing)'
    BY DEF HeldInv
  <2>1. CASE o = src
    <3>1. held'[src].mod = mod /\ held'[src].focus = gameFocus /\ held'[src].thing = y
      BY <1>2
    <3>2. CASE src[1] = "key"
      <4>1. KeyThingAt(src[2], mod, gameFocus) = y
        BY <3>2 DEF ThingOf
      <4>2. KeyThingAt(src[2], held[src].mod, held[src].focus)' = y
        BY <3>1, <4>1 DEF KeyThingAt, KeyTargets
      <4>3. QED  BY <2>1, <3>1, <3>2, <4>2 DEF ThingOf
    <3>3. CASE src[1] # "key"
      <4>1. PadThing(src[2], src[3]) = y
        BY <3>3 DEF ThingOf
      <4>2. PadThing(src[2], src[3])' = y
        BY <4>1 DEF PadThing, PadTargets, BindingId
      <4>3. QED  BY <2>1, <3>1, <3>3, <4>2 DEF ThingOf
    <3>4. QED  BY <3>2, <3>3
  <2>2. CASE o # src
    <3>1. o \in DOMAIN held /\ held'[o] = held[o]
      BY <1>2, <2>2
    <3> DEFINE x == held[o].thing
    <3>2. x \notin excused
      <4>1. x \notin excused'
        BY <3>1 DEF Steady
      <4>2. x = y => excused' = excused
        BY <1>1, <3>1 DEF Holders
      <4>3. QED  BY <1>4, <4>1, <4>2
    <3>3. Steady(x)
      BY <3>1, <3>2 DEF Steady, ByButton
    <3>4. ThingOf(o, held[o]) = x
      BY <3>1, <3>3 DEF InputInv, HeldInv
    <3>5. QED  BY <3>1, <3>4 DEF ThingOf, KeyThingAt, KeyTargets, PadThing, PadTargets, BindingId
  <2>3. QED  BY <2>1, <2>2
<1>8. ASSUME NEW i \in TargetIds
      PROVE  TargetRight(i)'
  <2>0. TargetRight(i)
    BY DEF InputInv
  <2>1. ButtonRight(i)'
    <3> SUFFICES ASSUME Targets[i].kind \in {"button", "trigger"}, Settled(i)'
                 PROVE  (Pressed(i) <=> IsHeld(i))'
      BY DEF ButtonRight
    <3>1. CASE i = y
      BY <1>3, <1>5, <3>1 DEF Down
    <3>2. CASE i # y
      <4>1. Settled(i)
        BY <1>4, <3>2 DEF Settled, ByButton
      <4>2. Pressed(i)' <=> Pressed(i)
        BY <1>5, <3>2 DEF Touches, Pressed
      <4>3. QED  BY <1>3, <2>0, <3>2, <4>1, <4>2 DEF TargetRight, ButtonRight
    <3>3. QED  BY <3>1, <3>2
  <2>2. BookRight(i)'
    <3> SUFFICES ASSUME Targets[i].kind = "stick", Settled(i)'
                 PROVE  (i \in axesHeld <=> IsHeld(i))'
      BY DEF BookRight
    <3>1. CASE i = y
      BY <1>3, <1>5, <3>1
    <3>2. CASE i # y
      <4>1. Settled(i)
        BY <1>4, <3>2 DEF Settled, ByButton
      <4>2. QED  BY <1>3, <1>5, <2>0, <3>2, <4>1 DEF TargetRight, BookRight
    <3>3. QED  BY <3>1, <3>2
  <2>3. SpeedRight(i)'
    <3> SUFFICES ASSUME Targets[i].kind = "fastForward", Settled(i)', ~IsHeld(i)', turbo'.enabled
                 PROVE  fast' = turbo'.checked
      BY DEF SpeedRight
    <3>1. i # y /\ ~IsHeld(i)
      BY <1>3
    <3>2. Settled(i)
      BY <1>4, <3>1 DEF Settled, ByButton
    <3>3. ~\E j \in {y} \cap TargetIds : Targets[j].kind = "fastForward"
      BY <3>1, OneFastForward
    <3>4. CASE r.fast = fast /\ r.turbo = turbo
      BY <1>5, <2>0, <3>1, <3>2, <3>4 DEF TargetRight, SpeedRight
    <3>5. CASE r.fast = r.turbo.checked
      BY <1>5, <3>5
    <3>6. QED  BY <3>3, <3>4, <3>5 DEF Touches, Handlers
  <2>4. StickRight(i)'
    <3> SUFFICES ASSUME NEW j \in Opposite(i), Settled(i)', Settled(j)'
                 PROVE  (/\ ~IsHeld(i) /\ ~IsHeld(j) => Stands(i) = 0
                         /\ IsHeld(i) /\ ~IsHeld(j)  => Stands(i) = Targets[i].dir * Full
                         /\ IsHeld(i) /\ IsHeld(j)   => Stands(i) \in {-Full, Full})'
      BY DEF StickRight
    <3>1. /\ j \in TargetIds /\ i # j /\ SamePlace(i, j) /\ Opposite(i) = {j}
          /\ Targets[i].kind = "stick" /\ Targets[j].kind = "stick"
          /\ Targets[i].dir \in {-1, 1} /\ Targets[j].dir \in {-1, 1}
      BY Opposites
    <3>2. \A d \in {-1, 1} : d * Full \in {-Full, Full}
      BY TargetsAssumption
    <3>3. CASE i = y
      <4>1. IsHeld(i)' /\ Stands(i)' = Targets[i].dir * Full
        BY <1>3, <1>5, <3>1, <3>3 DEF Down, End
      <4>2. QED  BY <3>1, <3>2, <4>1
    <3>4. CASE j = y
      <4>1. IsHeld(j)' /\ Stands(i)' = Targets[j].dir * Full
        BY <1>3, <1>5, <3>1, <3>4 DEF SamePlace, Down, End
      <4>2. QED  BY <3>1, <3>2, <4>1
    <3>5. CASE i # y /\ j # y
      <4>1. Settled(i) /\ Settled(j)
        BY <1>4, <3>5 DEF Settled, ByButton
      <4>2. Stands(i)' = Stands(i)
        <5>1. ({y} \cap TargetIds) \cap ({i} \cup Opposite(i)) = {} /\ IsAnalog(Targets[i])
          BY <3>1, <3>5 DEF IsAnalog
        <5>2. QED  BY <1>5, <5>1 DEF Touches, Stands
      <4>3. (IsHeld(i)' <=> IsHeld(i)) /\ (IsHeld(j)' <=> IsHeld(j))
        BY <1>3, <3>5
      <4>4. QED  BY <2>0, <4>1, <4>2, <4>3 DEF TargetRight, StickRight
    <3>6. QED  BY <3>3, <3>4, <3>5
  <2>5. AxisRight(i)'
    <3> SUFFICES ASSUME NEW id \in DOMAIN pads, Led(i, id)'
                 PROVE  (Stands(i) = Shaped(position[<<id, bindings[i].code>>]))'
      BY DEF AxisRight
    <3>1. \A j \in TargetIds : j \in PadTargets("axis", id, bindings[i].code)' \ excused' =>
            j # y /\ j \in PadTargets("axis", id, bindings[i].code) \ excused
      BY <1>4, <1>6 DEF PadTargets, BindingId
    <3>2. Led(i, id) /\ IsAnalog(Targets[i]) /\ y \notin {i} \cup Opposite(i)
      BY <3>1, Opposites DEF Led, IsAnalog, Opposite
    <3>3. Stands(i)' = Stands(i)
      BY <1>5, <3>2 DEF Touches, Stands
    <3>4. QED  BY <2>0, <3>2, <3>3 DEF TargetRight, AxisRight, Shaped
  <2>6. QED  BY <2>1, <2>2, <2>3, <2>4, <2>5 DEF TargetRight
<1>9. ASSUME NEW k \in Keys
      PROVE  KeyRight(k)'
  BY <1>3, <1>4, <1>5 DEF InputInv, KeyRight
<1>10. QED  BY <1>7, <1>8, <1>9 DEF InputInv

(* A release that changes nothing but what the source is now taken for.      *)
LEMMA ReleaseKeeps ==
  ASSUME TypesInv, PadsInv, InputInv,
         NEW src, Releases(src),
         NEW z, ThingOf(src, [thing |-> z, mod |-> mod, focus |-> gameFocus]) = z,
         NEW b, NEW r, Becomes(b, r), Touches(Handlers, r, {z} \cap TargetIds),
         r.keys = keys \ ({z} \cap Keys),
         b.axes = axesHeld \ {i \in {z} \cap TargetIds : Targets[i].kind = "stick"},
         z \in TargetIds => Up(z, Binder, r),
         UNCHANGED <<bindings, bindingMap, pads, device, position>>
  PROVE  InputInv'
<1> DEFINE x == held[src].thing
           strays == \/ src[1] = "key" /\ (held[src].mod # mod \/ held[src].focus # gameFocus)
                     \/ src[1] = "pad" /\ twins # {}
           touched == {x} \cup (IF src[1] = "pad" THEN {PadThing(src[2], src[3])} ELSE {})
<1>1. /\ src \in DOMAIN held /\ src \in Sources
      /\ held' = Without(held, {src})
      /\ excused' = IF strays \/ Holders(held, x) # {src}
                      THEN excused \cup {w \in touched : Lasting(w)} ELSE excused
  BY DEF Releases, TypesInv
<1>2. /\ DOMAIN held' = DOMAIN held \ {src}
      /\ \A o \in DOMAIN held' : held'[o] = held[o]
  BY <1>1 DEF Without
<1>3. \A w : Lasting(w)' <=> Lasting(w)
  BY DEF Lasting
<1>4. \A w : w \notin excused' => w \notin excused
  BY <1>1
<1>5. /\ Machine(r) /\ axesHeld' = b.axes /\ keys' = r.keys /\ fast' = r.fast /\ turbo' = r.turbo
      /\ \A i : Pressed(i)' <=> PressedIn(r, Targets[i].port, Targets[i].what)
      /\ \A i : Stands(i)' = StandsIn(r, Targets[i].port, Targets[i].what)
  <2>1. Machine(r)
    BY DEF Touches
  <2>2. QED  BY <2>1, AfterEvent
<1>6. \/ src[1] = "key" /\ z = KeyThingAt(src[2], mod, gameFocus)
      \/ src[1] = "pad" /\ z = PadThing(src[2], src[3])
  <2>1. src[1] \in {"key", "pad"}
    BY <1>1 DEF Sources, KeySource, PadSource
  <2>2. QED  BY <2>1 DEF ThingOf
<1>7. /\ \A k \in Keys : k \notin TargetIds /\ k # None
      /\ TargetIds \subseteq Nat \ {0}
  BY ControlsAssumption, TargetsAssumption DEF None
<1>8. z \in TargetIds => bindings[z].type # "axis"
  BY <1>6, <1>7, ThingIsBound, <1>1 DEF None, Sources, KeySource, PadSource
<1>9. ASSUME NEW w, Steady(w)'
      PROVE  Steady(w) /\ (IsHeld(w)' <=> (IsHeld(w) /\ w # z))
  <2>1. Steady(w) /\ w \in Keys \cup TargetIds
    BY <1>3, <1>4, <1>9 DEF Steady, ByButton, Lasting
  <2>2. \A o \in DOMAIN held : held[o].thing = w => ThingOf(o, held[o]) = w
    BY <2>1 DEF InputInv, HeldInv
  <2>3. w \notin excused'
    BY <1>9 DEF Steady
  <2>4. CASE w = z
    <3> SUFFICES ASSUME NEW o \in DOMAIN held, o # src, held[o].thing = w
                 PROVE  FALSE
      BY <1>2, <2>1, <2>4 DEF IsHeld, Holders
    <3>1. src[1] = "key" \/ twins = {}
      <4>1. src[1] = "pad" => z \in touched
        BY <1>6 DEF KeySource
      <4>2. src[1] = "pad" /\ twins # {} => z \in excused'
        BY <1>1, <2>1, <2>4, <4>1 DEF Steady
      <4>3. QED  BY <1>6, <2>3, <2>4, <4>2
    <3>2. ThingOf(o, held[o]) = w /\ o \in Sources
      BY <2>2 DEF TypesInv
    <3> DEFINE q == [thing |-> z, mod |-> mod, focus |-> gameFocus]
    <3>3. ThingOf(src, q) = w
      BY <2>4
    <3> HIDE DEF q
    <3>4. src = o
      BY <1>1, <2>1, <3>1, <3>2, <3>3, OneSource
    <3>5. QED  BY <3>4
  <2>5. CASE w # z
    <3>1. SUFFICES ASSUME x = w, Holders(held, w) = {src} PROVE FALSE
      <4>1. IsHeld(w)' => IsHeld(w)
        BY <1>2 DEF IsHeld, Holders
      <4>2. CASE x = w /\ Holders(held, w) = {src}
        BY <3>1, <4>2
      <4>3. CASE x # w \/ Holders(held, w) # {src}
        <5>1. ASSUME IsHeld(w) PROVE IsHeld(w)'
          <6>1. PICK o \in DOMAIN held : held[o].thing = w /\ o # src
            BY <1>1, <4>3, <5>1 DEF IsHeld, Holders
          <6>2. QED  BY <1>2, <6>1 DEF IsHeld, Holders
        <5>2. QED  BY <2>1, <2>5, <4>1, <5>1
      <4>4. QED  BY <4>2, <4>3
    <3>2. ~strays
      <4>1. w \in touched /\ Lasting(w)
        BY <2>1, <3>1 DEF Steady
      <4>2. QED  BY <1>1, <2>3, <4>1
    <3>3. ThingOf(src, held[src]) = w
      BY <1>1, <2>2, <3>1
    <3>4. QED  BY <1>6, <2>5, <3>2, <3>3 DEF ThingOf
  <2>6. QED  BY <2>1, <2>4, <2>5
<1>10. \A i \in TargetIds : Settled(i)' /\ Targets[i].kind \in {"button", "stick", "trigger", "fastForward"} =>
         Steady(i)' /\ Settled(i)
  BY <1>4 DEF Settled, Steady, ByButton, Lasting
<1>11. HeldInv'
  <2> SUFFICES ASSUME NEW o \in DOMAIN held', Steady(held[o].thing)'
               PROVE  (ThingOf(o, held[o]) = held[o].thing)'
    BY DEF HeldInv
  <2>1. o \in DOMAIN held /\ held'[o] = held[o]
    BY <1>2
  <2>2. Steady(held[o].thing)
    BY <1>3, <1>4, <2>1 DEF Steady, ByButton
  <2>3. ThingOf(o, held[o]) = held[o].thing
    BY <2>1, <2>2 DEF InputInv, HeldInv
  <2>4. QED  BY <2>1, <2>3 DEF ThingOf, KeyThingAt, KeyTargets, PadThing, PadTargets, BindingId
<1>12. ASSUME NEW i \in TargetIds
      PROVE  TargetRight(i)'
  <2>0. TargetRight(i)
    BY DEF InputInv
  <2>1. ButtonRight(i)'
    <3> SUFFICES ASSUME Targets[i].kind \in {"button", "trigger"}, Settled(i)'
                 PROVE  (Pressed(i) <=> IsHeld(i))'
      BY DEF ButtonRight
    <3>1. Settled(i) /\ (IsHeld(i)' <=> (IsHeld(i) /\ i # z))
      BY <1>9, <1>10
    <3>2. CASE i = z
      BY <1>5, <3>1, <3>2 DEF Up
    <3>3. CASE i # z
      <4>1. Pressed(i)' <=> Pressed(i)
        BY <1>5, <3>3 DEF Touches, Pressed
      <4>2. QED  BY <2>0, <3>1, <3>3, <4>1 DEF TargetRight, ButtonRight
    <3>4. QED  BY <3>2, <3>3
  <2>2. BookRight(i)'
    <3> SUFFICES ASSUME Targets[i].kind = "stick", Settled(i)'
                 PROVE  (i \in axesHeld <=> IsHeld(i))'
      BY DEF BookRight
    <3>1. Settled(i) /\ (IsHeld(i)' <=> (IsHeld(i) /\ i # z))
      BY <1>9, <1>10
    <3>2. QED  BY <1>5, <2>0, <3>1 DEF TargetRight, BookRight
  <2>3. SpeedRight(i)'
    <3> SUFFICES ASSUME Targets[i].kind = "fastForward", Settled(i)', ~IsHeld(i)', turbo'.enabled
                 PROVE  fast' = turbo'.checked
      BY DEF SpeedRight
    <3>1. Settled(i) /\ (IsHeld(i)' <=> (IsHeld(i) /\ i # z))
      BY <1>9, <1>10
    <3>2. CASE i = z
      BY <1>5, <3>2 DEF Up
    <3>3. CASE i # z
      <4>1. ~\E j \in {z} \cap TargetIds : Targets[j].kind = "fastForward"
        BY <3>3, OneFastForward
      <4>2. CASE r.fast = fast /\ r.turbo = turbo
        BY <1>5, <2>0, <3>1, <3>3, <4>2 DEF TargetRight, SpeedRight
      <4>3. CASE r.fast = r.turbo.checked
        BY <1>5, <4>3
      <4>4. QED  BY <4>1, <4>2, <4>3 DEF Touches, Handlers
    <3>4. QED  BY <3>2, <3>3
  <2>4. StickRight(i)'
    <3> SUFFICES ASSUME NEW j \in Opposite(i), Settled(i)', Settled(j)'
                 PROVE  (/\ ~IsHeld(i) /\ ~IsHeld(j) => Stands(i) = 0
                         /\ IsHeld(i) /\ ~IsHeld(j)  => Stands(i) = Targets[i].dir * Full
                         /\ IsHeld(i) /\ IsHeld(j)   => Stands(i) \in {-Full, Full})'
      BY DEF StickRight
    <3>1. /\ j \in TargetIds /\ i # j /\ SamePlace(i, j) /\ Opposite(i) = {j}
          /\ Targets[i].kind = "stick" /\ Targets[j].kind = "stick"
          /\ Targets[j].dir = -Targets[i].dir /\ Targets[i].dir \in {-1, 1}
          /\ Opposite(j) = {i}
      BY Opposites
    <3>2. /\ Settled(i) /\ (IsHeld(i)' <=> (IsHeld(i) /\ i # z))
          /\ Settled(j) /\ (IsHeld(j)' <=> (IsHeld(j) /\ j # z))
      BY <1>9, <1>10, <3>1
    <3>3. (i \in axesHeld <=> IsHeld(i)) /\ (j \in axesHeld <=> IsHeld(j))
      BY <3>1, <3>2 DEF InputInv, TargetRight, BookRight
    <3>4. CASE i = z
      <4>1. Stands(i)' = IF j \in axesHeld THEN -Targets[i].dir * Full ELSE 0
        <5>1. Stands(i)' = Rests(Binder, i)
          BY <1>5, <3>1, <3>4 DEF Up
        <5>2. Opposite(i) \cap axesHeld # {} <=> j \in axesHeld
          BY <3>1
        <5>3. QED  BY <5>1, <5>2 DEF Rests, Binder
      <4>2. ~IsHeld(i)' /\ (IsHeld(j)' <=> IsHeld(j))
        BY <3>1, <3>2, <3>4
      <4>3. QED  BY <3>3, <4>1, <4>2
    <3>5. CASE j = z
      <4>1. Stands(i)' = IF i \in axesHeld THEN -Targets[j].dir * Full ELSE 0
        <5>1. Stands(i)' = Rests(Binder, j)
          BY <1>5, <3>1, <3>5 DEF SamePlace, Up
        <5>2. Opposite(j) \cap axesHeld # {} <=> i \in axesHeld
          BY <3>1
        <5>3. QED  BY <5>1, <5>2 DEF Rests, Binder
      <4>2. ~IsHeld(j)' /\ (IsHeld(i)' <=> IsHeld(i))
        BY <3>1, <3>2, <3>5
      <4>3. -Targets[j].dir * Full = Targets[i].dir * Full
        <5>1. \A d \in {-1, 1}, e \in Int : e = -d => -e * Full = d * Full
          BY TargetsAssumption
        <5>2. QED  BY <3>1, <5>1
      <4>4. QED  BY <3>3, <4>1, <4>2, <4>3
    <3>6. CASE i # z /\ j # z
      <4>1. Stands(i)' = Stands(i)
        <5>1. ({z} \cap TargetIds) \cap ({i} \cup Opposite(i)) = {} /\ IsAnalog(Targets[i])
          BY <3>1, <3>6 DEF IsAnalog
        <5>2. QED  BY <1>5, <5>1 DEF Touches, Stands
      <4>2. QED  BY <2>0, <3>2, <3>6, <4>1 DEF TargetRight, StickRight
    <3>7. QED  BY <3>4, <3>5, <3>6
  <2>5. AxisRight(i)'
    <3> SUFFICES ASSUME NEW id \in DOMAIN pads, Led(i, id)'
                 PROVE  (Stands(i) = Shaped(position[<<id, bindings[i].code>>]))'
      BY DEF AxisRight
    <3>1. \A j \in TargetIds : j \in PadTargets("axis", id, bindings[i].code)' \ excused' =>
            j # z /\ j \in PadTargets("axis", id, bindings[i].code) \ excused
      BY <1>4, <1>8 DEF PadTargets, BindingId
    <3>2. Led(i, id) /\ IsAnalog(Targets[i]) /\ z \notin {i} \cup Opposite(i)
      BY <3>1, Opposites DEF Led, IsAnalog, Opposite
    <3>3. Stands(i)' = Stands(i)
      BY <1>5, <3>2 DEF Touches, Stands
    <3>4. QED  BY <2>0, <3>2, <3>3 DEF TargetRight, AxisRight, Shaped
  <2>6. QED  BY <2>1, <2>2, <2>3, <2>4, <2>5 DEF TargetRight
<1>13. ASSUME NEW k \in Keys
      PROVE  KeyRight(k)'
  <2>1. k \notin excused' => Steady(k)'
    BY DEF Steady, Lasting
  <2>2. QED  BY <1>4, <1>5, <1>9, <2>1 DEF InputInv, KeyRight
<1>14. QED  BY <1>11, <1>12, <1>13 DEF InputInv

-----------------------------------------------------------------------------
(* The events of keys and of a pad's buttons.                                *)

(* Types of what the translations start from.                                *)
LEMMA Starts ==
  ASSUME TypesInv
  PROVE  /\ Machine(Handlers) /\ device \in [Ports -> Devices]
         /\ Binder = [axes |-> Binder.axes, focus |-> Binder.focus, slot |-> Binder.slot]
         /\ Binder.axes = axesHeld /\ Handlers.keys = keys
         /\ Handlers.turbo = turbo /\ Handlers.fast = fast
         /\ \A k \in Keys : k \notin TargetIds /\ k # None
         /\ TargetIds \subseteq Nat \ {0}
BY TargetsAssumption, ControlsAssumption DEF TypesInv, Binder, Handlers, None

(* A change of nothing touches nothing.                                      *)
LEMMA TouchesNothing ==
  ASSUME NEW s, Machine(s), NEW r, r = [joy |-> s.joy, keys |-> r.keys, fast |-> s.fast, turbo |-> s.turbo]
  PROVE  Touches(s, r, {})
<1>1. r.joy = s.joy /\ r.fast = s.fast /\ r.turbo = s.turbo
  OBVIOUS
<1>2. Machine(r)
  BY <1>1 DEF Machine
<1>3. QED  BY <1>1, <1>2 DEF Touches, PressedIn, StandsIn

(* Pressing a key acts on what it is taken for.                            *)
LEMMA KeyPressActs ==
  ASSUME TypesInv, NEW k \in Keys
  PROVE  LET y == TranslateKey(k, mod, TRUE)
             z == KeyThing(k)
             r == Handled(Handlers, y.action)
         IN /\ Touches(Handlers, r, {z} \cap TargetIds) /\ r.keys = keys \cup ({z} \cap Keys)
            /\ y.binder.axes = axesHeld \cup {i \in {z} \cap TargetIds : Targets[i].kind = "stick"}
            /\ z \in TargetIds => Down(z, r)
<1> DEFINE t == {i \in KeyTargets(k, mod) : Targets[i].kind = "gameFocusToggle"}
           taken == IF gameFocus THEN t ELSE KeyTargets(k, mod)
           y == TranslateKey(k, mod, TRUE)
           z == KeyThing(k)
           r == Handled(Handlers, y.action)
<1>1. z = IF taken = {} THEN k ELSE First(taken)
  BY DEF KeyThing
<1>2. /\ taken = {} => y = Yields(Binder, KeyboardInput(k, TRUE))
      /\ taken # {} => y = TranslateButtonPress(Binder, First(taken))
  BY DEF TranslateKey
<1>3. taken \subseteq TargetIds
  BY DEF KeyTargets
<1> HIDE DEF taken, y, z
<1>4. CASE taken = {}
  <2>1. z = k /\ y.binder = Binder /\ y.action = KeyboardInput(k, TRUE)
    BY <1>1, <1>2, <1>4 DEF Yields, KeyboardInput
  <2>2. y.action.act = "keyboard" /\ y.action.key = k /\ y.action.value = TRUE
    BY <2>1 DEF KeyboardInput
  <2>3. r = [Handlers EXCEPT !.keys = @ \cup {k}]
    BY <2>2 DEF Handled, KeyboardEvent
  <2>4. r = [joy |-> joy, keys |-> keys \cup {k}, fast |-> fast, turbo |-> turbo]
    BY <2>3 DEF Handlers
  <2> HIDE DEF r
  <2>5. Touches(Handlers, r, {})
    <3>1. r = [joy |-> Handlers.joy, keys |-> r.keys, fast |-> Handlers.fast, turbo |-> Handlers.turbo]
      BY <2>4 DEF Handlers
    <3>2. QED  BY <3>1, Starts, TouchesNothing
  <2>6. {z} \cap TargetIds = {} /\ {z} \cap Keys = {k} /\ z \notin TargetIds
    BY <2>1, Starts
  <2>7. r.keys = keys \cup {k}
    BY <2>4
  <2>8. QED  BY <2>1, <2>5, <2>6, <2>7, Starts DEF r, y, z
<1>5. CASE taken # {}
  <2>1. z = First(taken) /\ z \in TargetIds
    BY <1>1, <1>3, <1>5, HasFirst, Starts
  <2>2. y = TranslateButtonPress(Binder, z)
    BY <1>2, <1>5, <2>1
  <2>3. {z} \cap TargetIds = {z} /\ {z} \cap Keys = {}
    BY <2>1, Starts
  <2>4. ActsFor(y.action, {z})
    BY <2>1, <2>2, PressDoes, Starts
  <2>5. Touches(Handlers, r, {z}) /\ r.keys = keys
    BY <2>1, <2>4, ActsTouch, Starts
  <2>6. y.binder.axes = axesHeld \cup {i \in {z} : Targets[i].kind = "stick"}
    <3>1. y.binder.axes = Binder.axes \cup (IF Targets[z].kind = "stick" THEN {z} ELSE {})
      BY <2>1, <2>2, PressDoes, Starts
    <3>2. {i \in {z} : Targets[i].kind = "stick"} = IF Targets[z].kind = "stick" THEN {z} ELSE {}
      OBVIOUS
    <3>3. QED  BY <3>1, <3>2, Starts
  <2>7. Down(z, r)
    BY <2>1, <2>2, PressDoes, Starts
  <2>8. QED  BY <2>3, <2>5, <2>6, <2>7 DEF r, y, z
<1>6. QED  BY <1>4, <1>5

(* Letting go of a key acts on what it is taken for.                       *)
LEMMA KeyReleaseActs ==
  ASSUME TypesInv, NEW k \in Keys
  PROVE  LET y == TranslateKey(k, mod, FALSE)
             z == KeyThing(k)
             r == Handled(Handlers, y.action)
         IN /\ Touches(Handlers, r, {z} \cap TargetIds) /\ r.keys = keys \ ({z} \cap Keys)
            /\ y.binder.axes = axesHeld \ {i \in {z} \cap TargetIds : Targets[i].kind = "stick"}
            /\ z \in TargetIds => Up(z, Binder, r)
<1> DEFINE t == {i \in KeyTargets(k, mod) : Targets[i].kind = "gameFocusToggle"}
           taken == IF gameFocus THEN t ELSE KeyTargets(k, mod)
           y == TranslateKey(k, mod, FALSE)
           z == KeyThing(k)
           r == Handled(Handlers, y.action)
<1>1. z = IF taken = {} THEN k ELSE First(taken)
  BY DEF KeyThing
<1>2. /\ taken = {} => y = Yields(Binder, KeyboardInput(k, FALSE))
      /\ taken # {} => y = TranslateButtonReleased(Binder, First(taken))
  <2>1. CASE taken = {}
    BY <2>1 DEF TranslateKey
  <2>2. CASE taken # {} /\ ~gameFocus
    BY <2>2 DEF TranslateKey
  <2>3. CASE taken # {} /\ gameFocus
    <3>1. y = Yields(Binder, Nothing)
      BY <2>3 DEF TranslateKey
    <3>2. First(taken) \in taken
      <4>1. taken \subseteq Nat
        BY Starts DEF KeyTargets
      <4> HIDE DEF taken
      <4>2. QED  BY <2>3, <4>1, HasFirst
    <3>3. Targets[First(taken)].kind = "gameFocusToggle"
      BY <2>3, <3>2
    <3>4. TranslateButtonReleased(Binder, First(taken)) = Yields(Binder, Nothing)
      BY <3>3 DEF TranslateButtonReleased
    <3>5. QED  BY <2>3, <3>1, <3>4
  <2>4. QED  BY <2>1, <2>2, <2>3
<1>3. taken \subseteq TargetIds
  BY DEF KeyTargets
<1> HIDE DEF taken, y, z
<1>4. CASE taken = {}
  <2>1. z = k /\ y.binder = Binder /\ y.action = KeyboardInput(k, FALSE)
    BY <1>1, <1>2, <1>4 DEF Yields, KeyboardInput
  <2>2. y.action.act = "keyboard" /\ y.action.key = k /\ y.action.value = FALSE
    BY <2>1 DEF KeyboardInput
  <2>3. r = [Handlers EXCEPT !.keys = @ \ {k}]
    BY <2>2 DEF Handled, KeyboardEvent
  <2>4. r = [joy |-> joy, keys |-> keys \ {k}, fast |-> fast, turbo |-> turbo]
    BY <2>3 DEF Handlers
  <2> HIDE DEF r
  <2>5. Touches(Handlers, r, {})
    <3>1. r = [joy |-> Handlers.joy, keys |-> r.keys, fast |-> Handlers.fast, turbo |-> Handlers.turbo]
      BY <2>4 DEF Handlers
    <3>2. QED  BY <3>1, Starts, TouchesNothing
  <2>6. {z} \cap TargetIds = {} /\ {z} \cap Keys = {k} /\ z \notin TargetIds
    BY <2>1, Starts
  <2>7. r.keys = keys \ {k}
    BY <2>4
  <2>8. QED  BY <2>1, <2>5, <2>6, <2>7, Starts DEF r, y, z
<1>5. CASE taken # {}
  <2>1. z = First(taken) /\ z \in TargetIds
    BY <1>1, <1>3, <1>5, HasFirst, Starts
  <2>2. y = TranslateButtonReleased(Binder, z)
    BY <1>2, <1>5, <2>1
  <2>3. {z} \cap TargetIds = {z} /\ {z} \cap Keys = {}
    BY <2>1, Starts
  <2>4. ActsFor(y.action, {z})
    BY <2>1, <2>2, ReleaseDoes, Starts
  <2>5. Touches(Handlers, r, {z}) /\ r.keys = keys
    BY <2>1, <2>4, ActsTouch, Starts
  <2>6. y.binder.axes = axesHeld \ {i \in {z} : Targets[i].kind = "stick"}
    <3>1. y.binder.axes = Binder.axes \ (IF Targets[z].kind = "stick" THEN {z} ELSE {})
      BY <2>1, <2>2, ReleaseDoes, Starts
    <3>2. {i \in {z} : Targets[i].kind = "stick"} = IF Targets[z].kind = "stick" THEN {z} ELSE {}
      OBVIOUS
    <3>3. QED  BY <3>1, <3>2, Starts
  <2>7. Up(z, Binder, r)
    BY <2>1, <2>2, ReleaseDoes, Starts
  <2>8. QED  BY <2>3, <2>5, <2>6, <2>7 DEF r, y, z
<1>6. QED  BY <1>4, <1>5

(* Pressing a pad's button acts on what it is taken for.                   *)
LEMMA PadPressActs ==
  ASSUME TypesInv, NEW id, NEW b
  PROVE  LET y == TranslatePadButton(id, b, TRUE)
             z == PadThing(id, b)
             r == Handled(Handlers, y.action)
         IN /\ Touches(Handlers, r, {z} \cap TargetIds) /\ r.keys = keys \cup ({z} \cap Keys)
            /\ y.binder.axes = axesHeld \cup {i \in {z} \cap TargetIds : Targets[i].kind = "stick"}
            /\ z \in TargetIds => Down(z, r)
<1> DEFINE taken == PadTargets("button", id, b)
           y == TranslatePadButton(id, b, TRUE)
           z == PadThing(id, b)
           r == Handled(Handlers, y.action)
<1>1. z = IF taken = {} THEN None ELSE First(taken)
  BY DEF PadThing
<1>2. /\ taken = {} => y = Yields(Binder, Nothing)
      /\ taken # {} => y = TranslateButtonPress(Binder, First(taken))
  BY DEF TranslatePadButton
<1>3. taken \subseteq TargetIds
  BY DEF PadTargets
<1>4. TargetIds \subseteq Nat \ {0} /\ \A k \in Keys : k \notin TargetIds /\ k # None
  BY Starts
<1> HIDE DEF taken, y, z
<1>5. CASE taken = {}
  <2>1. z = None /\ y.binder = Binder /\ y.action.act = "nothing"
    BY <1>1, <1>2, <1>5 DEF Yields, Nothing
  <2>2. r = Handlers
    BY <2>1 DEF Handled
  <2>3. {z} \cap TargetIds = {} /\ {z} \cap Keys = {} /\ z \notin TargetIds
    BY <1>4, <2>1 DEF None
  <2>4. Touches(Handlers, Handlers, {})
    BY Starts DEF Touches
  <2>5. QED  BY <2>1, <2>2, <2>3, <2>4, Starts DEF r, y, z
<1>6. CASE taken # {}
  <2>1. z = First(taken) /\ z \in TargetIds
    BY <1>1, <1>3, <1>4, <1>6, HasFirst
  <2>2. y = TranslateButtonPress(Binder, z)
    BY <1>2, <1>6, <2>1
  <2>3. {z} \cap TargetIds = {z} /\ {z} \cap Keys = {}
    BY <1>4, <2>1
  <2>4. ActsFor(y.action, {z})
    BY <2>1, <2>2, PressDoes, Starts
  <2>5. Touches(Handlers, r, {z}) /\ r.keys = keys
    BY <2>1, <2>4, ActsTouch, Starts
  <2>6. y.binder.axes = axesHeld \cup {i \in {z} : Targets[i].kind = "stick"}
    <3>1. y.binder.axes = Binder.axes \cup (IF Targets[z].kind = "stick" THEN {z} ELSE {})
      BY <2>1, <2>2, PressDoes, Starts
    <3>2. {i \in {z} : Targets[i].kind = "stick"} = IF Targets[z].kind = "stick" THEN {z} ELSE {}
      OBVIOUS
    <3>3. QED  BY <3>1, <3>2, Starts
  <2>7. Down(z, r)
    BY <2>1, <2>2, PressDoes, Starts
  <2>8. QED  BY <2>3, <2>5, <2>6, <2>7 DEF r, y, z
<1>7. QED  BY <1>5, <1>6

(* Letting go of a pad's button acts on what it is taken for.              *)
LEMMA PadReleaseActs ==
  ASSUME TypesInv, NEW id, NEW b
  PROVE  LET y == TranslatePadButton(id, b, FALSE)
             z == PadThing(id, b)
             r == Handled(Handlers, y.action)
         IN /\ Touches(Handlers, r, {z} \cap TargetIds) /\ r.keys = keys \ ({z} \cap Keys)
            /\ y.binder.axes = axesHeld \ {i \in {z} \cap TargetIds : Targets[i].kind = "stick"}
            /\ z \in TargetIds => Up(z, Binder, r)
<1> DEFINE taken == PadTargets("button", id, b)
           y == TranslatePadButton(id, b, FALSE)
           z == PadThing(id, b)
           r == Handled(Handlers, y.action)
<1>1. z = IF taken = {} THEN None ELSE First(taken)
  BY DEF PadThing
<1>2. /\ taken = {} => y = Yields(Binder, Nothing)
      /\ taken # {} => y = TranslateButtonReleased(Binder, First(taken))
  BY DEF TranslatePadButton
<1>3. taken \subseteq TargetIds
  BY DEF PadTargets
<1>4. TargetIds \subseteq Nat \ {0} /\ \A k \in Keys : k \notin TargetIds /\ k # None
  BY Starts
<1> HIDE DEF taken, y, z
<1>5. CASE taken = {}
  <2>1. z = None /\ y.binder = Binder /\ y.action.act = "nothing"
    BY <1>1, <1>2, <1>5 DEF Yields, Nothing
  <2>2. r = Handlers
    BY <2>1 DEF Handled
  <2>3. {z} \cap TargetIds = {} /\ {z} \cap Keys = {} /\ z \notin TargetIds
    BY <1>4, <2>1 DEF None
  <2>4. Touches(Handlers, Handlers, {})
    BY Starts DEF Touches
  <2>5. QED  BY <2>1, <2>2, <2>3, <2>4, Starts DEF r, y, z
<1>6. CASE taken # {}
  <2>1. z = First(taken) /\ z \in TargetIds
    BY <1>1, <1>3, <1>4, <1>6, HasFirst
  <2>2. y = TranslateButtonReleased(Binder, z)
    BY <1>2, <1>6, <2>1
  <2>3. {z} \cap TargetIds = {z} /\ {z} \cap Keys = {}
    BY <1>4, <2>1
  <2>4. ActsFor(y.action, {z})
    BY <2>1, <2>2, ReleaseDoes, Starts
  <2>5. Touches(Handlers, r, {z}) /\ r.keys = keys
    BY <2>1, <2>4, ActsTouch, Starts
  <2>6. y.binder.axes = axesHeld \ {i \in {z} : Targets[i].kind = "stick"}
    <3>1. y.binder.axes = Binder.axes \ (IF Targets[z].kind = "stick" THEN {z} ELSE {})
      BY <2>1, <2>2, ReleaseDoes, Starts
    <3>2. {i \in {z} : Targets[i].kind = "stick"} = IF Targets[z].kind = "stick" THEN {z} ELSE {}
      OBVIOUS
    <3>3. QED  BY <3>1, <3>2, Starts
  <2>7. Up(z, Binder, r)
    BY <2>1, <2>2, ReleaseDoes, Starts
  <2>8. QED  BY <2>3, <2>5, <2>6, <2>7 DEF r, y, z
<1>7. QED  BY <1>5, <1>6

(* The type of the state after an event.                                     *)
LEMMA EventTypes ==
  ASSUME TypesInv, NEW b, NEW r, Machine(r), Becomes(b, r),
         DOMAIN held' \subseteq Sources, DOMAIN position' = DOMAIN position,
         \A q \in DOMAIN position' : position'[q] \in Int,
         UNCHANGED <<plays, bindings, nextId, pads, bindingMap, guids, device>>
  PROVE  TypesInv'
<1>1. Machine(Handlers)'
  BY AfterEvent
<1>2. Sources' = Sources
  BY DEF Sources
<1>3. QED  BY <1>1, <1>2 DEF TypesInv

(* Pads that stay, with what they are bound to, keep PadsInv.                *)
LEMMA SamePads ==
  ASSUME PadsInv, UNCHANGED <<pads, guids, bindingMap, twins>>
  PROVE  PadsInv'
BY DEF PadsInv, PadKeepsItsBindings, BindingId

(* What every step keeps.                                                    *)
Inv == TypesInv /\ PadsInv /\ InputInv

(* A key that goes down is held, and the machine is told of it.              *)
LEMMA KeyDownKeeps ==
  ASSUME Inv, NEW k \in Keys, KeyDown(k)
  PROVE  Inv'
<1> DEFINE y == TranslateKey(k, mod, TRUE)
           z == KeyThing(k)
           r == Handled(Handlers, y.action)
           src == KeySource(k)
<1>0. TypesInv /\ PadsInv /\ InputInv
  BY DEF Inv
<1>1. /\ Presses(src, z) /\ Becomes(y.binder, r)
      /\ UNCHANGED <<bindings, bindingMap, pads, guids, nextId, device, plays, mod, position, twins>>
  BY DEF KeyDown
<1>2. /\ Touches(Handlers, r, {z} \cap TargetIds) /\ r.keys = keys \cup ({z} \cap Keys)
      /\ y.binder.axes = axesHeld \cup {i \in {z} \cap TargetIds : Targets[i].kind = "stick"}
      /\ z \in TargetIds => Down(z, r)
  BY <1>0, KeyPressActs
<1>3. src \in Sources /\ src[1] = "key" /\ src[2] = k
  BY DEF Sources, KeySource
<1>4. ThingOf(src, [thing |-> z, mod |-> mod, focus |-> gameFocus]) = z
  BY <1>3 DEF ThingOf, KeyThingAt, KeyThing
<1> HIDE DEF y, z, r, src
<1>5. Machine(r)
  BY <1>2 DEF Touches
<1>6. DOMAIN held' = DOMAIN held \cup {src}
  BY <1>1 DEF Presses, With
<1>7. TypesInv'
  <2>1. /\ DOMAIN held' \subseteq Sources /\ DOMAIN position' = DOMAIN position
        /\ \A q \in DOMAIN position' : position'[q] \in Int
        /\ UNCHANGED <<plays, bindings, nextId, pads, bindingMap, guids, device>>
    BY <1>0, <1>1, <1>3, <1>6 DEF TypesInv
  <2>2. QED  BY <1>0, <1>1, <1>5, <2>1, EventTypes
<1>8. PadsInv'
  BY <1>0, <1>1, SamePads
<1>9. InputInv'
  <2>1. UNCHANGED <<bindings, bindingMap, pads, device, position>>
    BY <1>1
  <2>2. QED  BY <1>0, <1>1, <1>2, <1>3, <1>4, <2>1, PressKeeps
<1>10. QED  BY <1>7, <1>8, <1>9 DEF Inv

(* A key that comes up is let go, and the machine is told of it.             *)
LEMMA KeyUpKeeps ==
  ASSUME Inv, NEW k \in Keys, KeyUp(k)
  PROVE  Inv'
<1> DEFINE y == TranslateKey(k, mod, FALSE)
           z == KeyThing(k)
           r == Handled(Handlers, y.action)
           src == KeySource(k)
<1>0. TypesInv /\ PadsInv /\ InputInv
  BY DEF Inv
<1>1. /\ Releases(src) /\ Becomes(y.binder, r)
      /\ UNCHANGED <<bindings, bindingMap, pads, guids, nextId, device, plays, mod, position, twins>>
  BY DEF KeyUp
<1>2. /\ Touches(Handlers, r, {z} \cap TargetIds) /\ r.keys = keys \ ({z} \cap Keys)
      /\ y.binder.axes = axesHeld \ {i \in {z} \cap TargetIds : Targets[i].kind = "stick"}
      /\ z \in TargetIds => Up(z, Binder, r)
  BY <1>0, KeyReleaseActs
<1>3. src[1] = "key" /\ src[2] = k
  BY DEF KeySource
<1>4. ThingOf(src, [thing |-> z, mod |-> mod, focus |-> gameFocus]) = z
  BY <1>3 DEF ThingOf, KeyThingAt, KeyThing
<1> HIDE DEF y, z, r, src
<1>5. Machine(r)
  BY <1>2 DEF Touches
<1>6. DOMAIN held' = DOMAIN held \ {src}
  BY <1>1 DEF Releases, Without
<1>7. TypesInv'
  <2>1. /\ DOMAIN held' \subseteq Sources /\ DOMAIN position' = DOMAIN position
        /\ \A q \in DOMAIN position' : position'[q] \in Int
        /\ UNCHANGED <<plays, bindings, nextId, pads, bindingMap, guids, device>>
    BY <1>0, <1>1, <1>6 DEF TypesInv
  <2>2. QED  BY <1>0, <1>1, <1>5, <2>1, EventTypes
<1>8. PadsInv'
  BY <1>0, <1>1, SamePads
<1>9. InputInv'
  <2>1. UNCHANGED <<bindings, bindingMap, pads, device, position>>
    BY <1>1
  <2>2. QED  BY <1>0, <1>1, <1>2, <1>4, <2>1, ReleaseKeeps
<1>10. QED  BY <1>7, <1>8, <1>9 DEF Inv

(* A pad's button that goes down is held, and the machine is told of it.     *)
LEMMA PadDownKeeps ==
  ASSUME Inv, NEW id \in DOMAIN pads, NEW b \in Buttons, PadDown(id, b)
  PROVE  Inv'
<1> DEFINE y == TranslatePadButton(id, b, TRUE)
           z == PadThing(id, b)
           r == Handled(Handlers, y.action)
           src == PadSource(id, b)
<1>0. TypesInv /\ PadsInv /\ InputInv
  BY DEF Inv
<1>1. /\ Presses(src, z) /\ Becomes(y.binder, r)
      /\ UNCHANGED <<bindings, bindingMap, pads, guids, nextId, device, plays, mod, position, twins>>
  BY DEF PadDown
<1>2. /\ Touches(Handlers, r, {z} \cap TargetIds) /\ r.keys = keys \cup ({z} \cap Keys)
      /\ y.binder.axes = axesHeld \cup {i \in {z} \cap TargetIds : Targets[i].kind = "stick"}
      /\ z \in TargetIds => Down(z, r)
  BY <1>0, PadPressActs
<1>3. src \in Sources /\ src[1] = "pad" /\ src[2] = id /\ src[3] = b
  BY DEF Sources, PadSource
<1>4. ThingOf(src, [thing |-> z, mod |-> mod, focus |-> gameFocus]) = z
  BY <1>3 DEF ThingOf
<1> HIDE DEF y, z, r, src
<1>5. Machine(r)
  BY <1>2 DEF Touches
<1>6. DOMAIN held' = DOMAIN held \cup {src}
  BY <1>1 DEF Presses, With
<1>7. TypesInv'
  <2>1. /\ DOMAIN held' \subseteq Sources /\ DOMAIN position' = DOMAIN position
        /\ \A q \in DOMAIN position' : position'[q] \in Int
        /\ UNCHANGED <<plays, bindings, nextId, pads, bindingMap, guids, device>>
    BY <1>0, <1>1, <1>3, <1>6 DEF TypesInv
  <2>2. QED  BY <1>0, <1>1, <1>5, <2>1, EventTypes
<1>8. PadsInv'
  BY <1>0, <1>1, SamePads
<1>9. InputInv'
  <2>1. UNCHANGED <<bindings, bindingMap, pads, device, position>>
    BY <1>1
  <2>2. QED  BY <1>0, <1>1, <1>2, <1>3, <1>4, <2>1, PressKeeps
<1>10. QED  BY <1>7, <1>8, <1>9 DEF Inv

(* A pad's button that comes up is let go, and the machine is told of it.    *)
LEMMA PadUpKeeps ==
  ASSUME Inv, NEW id \in DOMAIN pads, NEW b \in Buttons, PadUp(id, b)
  PROVE  Inv'
<1> DEFINE y == TranslatePadButton(id, b, FALSE)
           z == PadThing(id, b)
           r == Handled(Handlers, y.action)
           src == PadSource(id, b)
<1>0. TypesInv /\ PadsInv /\ InputInv
  BY DEF Inv
<1>1. /\ Releases(src) /\ Becomes(y.binder, r)
      /\ UNCHANGED <<bindings, bindingMap, pads, guids, nextId, device, plays, mod, position, twins>>
  BY DEF PadUp
<1>2. /\ Touches(Handlers, r, {z} \cap TargetIds) /\ r.keys = keys \ ({z} \cap Keys)
      /\ y.binder.axes = axesHeld \ {i \in {z} \cap TargetIds : Targets[i].kind = "stick"}
      /\ z \in TargetIds => Up(z, Binder, r)
  BY <1>0, PadReleaseActs
<1>3. src[1] = "pad" /\ src[2] = id /\ src[3] = b
  BY DEF PadSource
<1>4. ThingOf(src, [thing |-> z, mod |-> mod, focus |-> gameFocus]) = z
  BY <1>3 DEF ThingOf
<1> HIDE DEF y, z, r, src
<1>5. Machine(r)
  BY <1>2 DEF Touches
<1>6. DOMAIN held' = DOMAIN held \ {src}
  BY <1>1 DEF Releases, Without
<1>7. TypesInv'
  <2>1. /\ DOMAIN held' \subseteq Sources /\ DOMAIN position' = DOMAIN position
        /\ \A q \in DOMAIN position' : position'[q] \in Int
        /\ UNCHANGED <<plays, bindings, nextId, pads, bindingMap, guids, device>>
    BY <1>0, <1>1, <1>6 DEF TypesInv
  <2>2. QED  BY <1>0, <1>1, <1>5, <2>1, EventTypes
<1>8. PadsInv'
  BY <1>0, <1>1, SamePads
<1>9. InputInv'
  <2>1. UNCHANGED <<bindings, bindingMap, pads, device, position>>
    BY <1>1
  <2>2. QED  BY <1>0, <1>1, <1>2, <1>4, <2>1, ReleaseKeeps
<1>10. QED  BY <1>7, <1>8, <1>9 DEF Inv

-----------------------------------------------------------------------------
(* The axis of a pad.                                                        *)

(* Two changes that touch nothing else touch nothing else together.          *)
LEMMA TouchesAgain ==
  ASSUME NEW s, NEW q, NEW r, NEW S, Touches(s, q, S), Touches(q, r, S)
  PROVE  Touches(s, r, S)
<1>1. \A i \in TargetIds \ S : Targets[i].kind \in {"button", "trigger"} =>
        (PressedIn(r, Targets[i].port, Targets[i].what) <=>
           PressedIn(s, Targets[i].port, Targets[i].what))
  BY DEF Touches
<1>2. \A i \in TargetIds : IsAnalog(Targets[i]) /\ S \cap ({i} \cup Opposite(i)) = {} =>
        StandsIn(r, Targets[i].port, Targets[i].what) = StandsIn(s, Targets[i].port, Targets[i].what)
  BY DEF Touches
<1>3. \/ r.fast = s.fast /\ r.turbo = s.turbo
      \/ r.fast = r.turbo.checked
      \/ \E i \in S : Targets[i].kind = "fastForward"
  BY DEF Touches
<1>4. Machine(r)
  BY DEF Touches
<1>5. QED  BY <1>1, <1>2, <1>3, <1>4 DEF Touches

(* The axis moves nothing but what is bound to it, and takes the stick or    *)
(* trigger that it drives along.                                             *)
LEMMA AxisActs ==
  ASSUME TypesInv, NEW id, NEW x, NEW v \in Int
  PROVE  LET y     == TranslatePadAxis(id, x, v)
             once  == IF y.action1.act # y.action2.act \/
                        (y.action1.act \in {"button", "axis"} /\ y.action1.what # y.action2.what)
                      THEN Handled(Handlers, y.action1) ELSE Handlers
             r     == Handled(once, y.action2)
             stick == First(AnalogTargets(id, x))
         IN /\ Touches(Handlers, r, PadTargets("axis", id, x)) /\ r.keys = keys
            /\ y.binder.axes = axesHeld
            /\ AnalogTargets(id, x) # {} =>
                 /\ stick \in PadTargets("axis", id, x) /\ IsAnalog(Targets[stick])
                 /\ StandsIn(r, Targets[stick].port, Targets[stick].what) = Shaped(v)
<1> DEFINE y      == TranslatePadAxis(id, x, v)
           apart  == y.action1.act # y.action2.act \/
                       (y.action1.act \in {"button", "axis"} /\ y.action1.what # y.action2.what)
           once   == IF apart THEN Handled(Handlers, y.action1) ELSE Handlers
           r      == Handled(once, y.action2)
           moved  == PadTargets("axis", id, x)
           analog == AnalogTargets(id, x)
           stick  == First(analog)
<1>1. /\ ActsFor(y.action1, moved) /\ ActsFor(y.action2, moved)
      /\ y.action2.act # "axis" /\ y.binder.axes = axesHeld
      /\ analog # {} => y.action1 = Axis(Targets[stick], Shaped(v))
  BY AxisYields, Starts
<1>2. moved \subseteq TargetIds /\ analog = {i \in moved : IsAnalog(Targets[i])}
  BY DEF PadTargets, AnalogTargets
<1>3. analog # {} => stick \in analog
  <2>1. analog \subseteq Nat
    BY <1>2, Starts
  <2> HIDE DEF analog
  <2>2. QED  BY <2>1, HasFirst
<1> HIDE DEF y, moved, analog, stick
<1>4. Touches(Handlers, Handlers, moved)
  BY Starts DEF Touches
<1>5. Touches(Handlers, once, moved) /\ once.keys = keys
  <2>1. CASE apart
    <3>1. once = Handled(Handlers, y.action1)
      BY <2>1
    <3>2. QED  BY <1>1, <1>2, <3>1, ActsTouch, Starts
  <2>2. CASE ~apart
    BY <1>4, <2>2, Starts
  <2>3. QED  BY <2>1, <2>2
<1>6. Machine(once)
  BY <1>5 DEF Touches
<1>7. analog # {} => StandsIn(once, Targets[stick].port, Targets[stick].what) = Shaped(v)
  <2> SUFFICES ASSUME analog # {}
               PROVE  StandsIn(once, Targets[stick].port, Targets[stick].what) = Shaped(v)
    OBVIOUS
  <2>1. /\ y.action1.act = "axis" /\ y.action1.port = Targets[stick].port
        /\ y.action1.what = Targets[stick].what /\ y.action1.value = Shaped(v)
    BY <1>1 DEF Axis
  <2>2. apart
    BY <1>1, <2>1
  <2>3. once = AxisEvent(Handlers, y.action1)
    BY <2>1, <2>2 DEF Handled
  <2>4. Targets[stick].port \in Ports
    BY <1>2, <1>3, ControlsAssumption DEF IsAnalog
  <2> HIDE DEF once
  <2>5. \A p \in Ports : \A w : StandsIn(once, p, w) =
          IF p = y.action1.port /\ w = y.action1.what THEN y.action1.value ELSE StandsIn(Handlers, p, w)
    BY <2>1, <2>3, <2>4, AxisEventSets, Starts
  <2>6. QED  BY <2>1, <2>4, <2>5
<1> HIDE DEF once
<1>8. /\ Touches(once, r, moved) /\ r.keys = once.keys
      /\ \A p \in Ports : \A w : StandsIn(r, p, w) = StandsIn(once, p, w)
  BY <1>1, <1>2, <1>6, ActsTouch, Starts
<1> HIDE DEF r
<1>9. Touches(Handlers, r, moved) /\ r.keys = keys
  BY <1>5, <1>8, TouchesAgain
<1>10. analog # {} =>
         /\ stick \in moved /\ IsAnalog(Targets[stick])
         /\ StandsIn(r, Targets[stick].port, Targets[stick].what) = Shaped(v)
  <2>1. analog # {} => Targets[stick].port \in Ports
    BY <1>2, <1>3, ControlsAssumption DEF IsAnalog
  <2>2. QED  BY <1>2, <1>3, <1>7, <1>8, <2>1
<1>11. QED  BY <1>1, <1>9, <1>10 DEF y, once, r, moved, analog, stick

(* An axis moves the stick it leads, or presses what is bound to its ends.   *)
LEMMA AxisMotionKeeps ==
  ASSUME Inv, NEW id \in DOMAIN pads, NEW x \in Axes, NEW v \in Positions, AxisMotion(id, x, v)
  PROVE  Inv'
<1> DEFINE y      == TranslatePadAxis(id, x, v)
           once   == IF y.action1.act # y.action2.act \/
                       (y.action1.act \in {"button", "axis"} /\ y.action1.what # y.action2.what)
                     THEN Handled(Handlers, y.action1) ELSE Handlers
           r      == Handled(once, y.action2)
           moved  == PadTargets("axis", id, x)
           analog == AnalogTargets(id, x)
           stick  == First(analog)
           driven == IF analog = {} THEN {} ELSE moved \cap ({stick} \cup Opposite(stick))
           alone  == Answering(bindingMap, pads, BindingId(bindingMap, id)) = {id}
<1>0. TypesInv /\ PadsInv /\ InputInv
  BY DEF Inv
<1>1. /\ position' = [position EXCEPT ![<<id, x>>] = v]
      /\ excused' = IF alone THEN (excused \cup moved) \ driven ELSE excused \cup moved
      /\ Becomes(y.binder, r)
      /\ UNCHANGED <<bindings, bindingMap, pads, guids, nextId, device, plays, mod, held, upsets, twins>>
  BY DEF AxisMotion
<1>2. v \in Int
  BY ControlsAssumption
<1>3. /\ Touches(Handlers, r, moved) /\ r.keys = keys /\ y.binder.axes = axesHeld
      /\ analog # {} =>
           /\ stick \in moved /\ IsAnalog(Targets[stick])
           /\ StandsIn(r, Targets[stick].port, Targets[stick].what) = Shaped(v)
  BY <1>0, <1>2, AxisActs
<1>4. \A i \in moved : i \in TargetIds /\ bindings[i].type = "axis" /\ bindings[i].code = x
                      /\ bindings[i].pad = BindingId(bindingMap, id)
  BY DEF PadTargets
<1>4a. \A i \in TargetIds : bindings[i].type = "axis" /\ bindings[i].code = x
                      /\ bindings[i].pad = BindingId(bindingMap, id) => i \in moved
  BY DEF PadTargets
<1> HIDE DEF y, once, r, moved, analog, stick, driven, alone
<1>5. driven \subseteq moved /\ (analog = {} => driven = {})
  BY DEF driven
<1>6. /\ Machine(r) /\ axesHeld' = axesHeld /\ keys' = keys /\ fast' = r.fast /\ turbo' = r.turbo
      /\ \A i : Pressed(i)' <=> PressedIn(r, Targets[i].port, Targets[i].what)
      /\ \A i : Stands(i)' = StandsIn(r, Targets[i].port, Targets[i].what)
  <2>1. Machine(r)
    BY <1>3 DEF Touches
  <2>2. QED  BY <1>1, <1>3, <2>1, AfterEvent
<1>7. \A i : IsHeld(i)' <=> IsHeld(i)
  BY <1>1 DEF IsHeld, Holders
<1>8. /\ \A w : w \notin excused' /\ w \notin driven => w \notin excused
      /\ \A w : w \in moved /\ w \notin excused' => w \in driven /\ alone
  BY <1>1
<1>9. TypesInv'
  <2>1. DOMAIN held' \subseteq Sources
    BY <1>0, <1>1 DEF TypesInv
  <2>2. DOMAIN position' = DOMAIN position /\ \A q \in DOMAIN position' : position'[q] \in Int
    BY <1>0, <1>1, <1>2 DEF TypesInv
  <2>3. QED  BY <1>0, <1>1, <1>6, <2>1, <2>2, EventTypes
<1>10. PadsInv'
  BY <1>0, <1>1, SamePads
<1>11. HeldInv'
  <2> SUFFICES ASSUME NEW o \in DOMAIN held', Steady(held[o].thing)'
               PROVE  (ThingOf(o, held[o]) = held[o].thing)'
    BY DEF HeldInv
  <2>1. held[o].thing \notin driven
    BY <1>1, <1>4, <1>5, <1>0, Starts DEF Steady, ByButton
  <2>2. Steady(held[o].thing)
    BY <1>1, <1>8, <2>1 DEF Steady, ByButton, Lasting
  <2>3. ThingOf(o, held[o]) = held[o].thing
    BY <1>0, <1>1, <2>2 DEF InputInv, HeldInv
  <2>4. QED  BY <1>1, <2>3 DEF ThingOf, KeyThingAt, KeyTargets, PadThing, PadTargets, BindingId
<1>12. ASSUME NEW i \in TargetIds
       PROVE  TargetRight(i)'
  <2>0. TargetRight(i)
    BY <1>0 DEF InputInv
  <2>1. Settled(i)' => Settled(i) /\ i \notin moved
    BY <1>1, <1>4, <1>5, <1>8 DEF Settled, ByButton
  <2>2. ButtonRight(i)'
    <3> SUFFICES ASSUME Targets[i].kind \in {"button", "trigger"}, Settled(i)'
                 PROVE  (Pressed(i) <=> IsHeld(i))'
      BY DEF ButtonRight
    <3>1. Pressed(i)' <=> Pressed(i)
      BY <1>3, <1>6, <2>1 DEF Touches, Pressed
    <3>2. QED  BY <1>7, <2>0, <2>1, <3>1 DEF TargetRight, ButtonRight
  <2>3. BookRight(i)'
    BY <1>6, <1>7, <2>0, <2>1 DEF TargetRight, BookRight
  <2>4. SpeedRight(i)'
    <3> SUFFICES ASSUME Targets[i].kind = "fastForward", Settled(i)', ~IsHeld(i)', turbo'.enabled
                 PROVE  fast' = turbo'.checked
      BY DEF SpeedRight
    <3>1. ~\E j \in moved : Targets[j].kind = "fastForward"
      BY <1>4, <2>1, OneFastForward
    <3>2. CASE r.fast = fast /\ r.turbo = turbo
      BY <1>6, <1>7, <2>0, <2>1, <3>2 DEF TargetRight, SpeedRight
    <3>3. CASE r.fast = r.turbo.checked
      BY <1>6, <3>3
    <3>4. QED  BY <1>3, <3>1, <3>2, <3>3 DEF Touches, Handlers
  <2>5. StickRight(i)'
    <3> SUFFICES ASSUME NEW j \in Opposite(i), Settled(i)', Settled(j)'
                 PROVE  (/\ ~IsHeld(i) /\ ~IsHeld(j) => Stands(i) = 0
                         /\ IsHeld(i) /\ ~IsHeld(j)  => Stands(i) = Targets[i].dir * Full
                         /\ IsHeld(i) /\ IsHeld(j)   => Stands(i) \in {-Full, Full})'
      BY DEF StickRight
    <3>1. j \in TargetIds /\ Opposite(i) = {j} /\ IsAnalog(Targets[i])
      BY Opposites DEF IsAnalog
    <3>2. Settled(j) /\ j \notin moved
      BY <1>1, <1>4, <1>5, <1>8, <3>1 DEF Settled, ByButton
    <3>3. Stands(i)' = Stands(i)
      BY <1>3, <1>6, <2>1, <3>1, <3>2 DEF Touches, Stands
    <3>4. QED  BY <1>7, <2>0, <2>1, <3>2, <3>3 DEF TargetRight, StickRight
  <2>6. AxisRight(i)'
    <3> SUFFICES ASSUME NEW p \in DOMAIN pads, Led(i, p)'
                 PROVE  (Stands(i) = Shaped(position[<<p, bindings[i].code>>]))'
      BY <1>1 DEF AxisRight
    <3>1. /\ IsAnalog(Targets[i]) /\ i \notin excused'
          /\ i \in PadTargets("axis", p, bindings[i].code)
          /\ Targets[i].kind = "stick" =>
               Opposite(i) \subseteq PadTargets("axis", p, bindings[i].code) \ excused'
      BY <1>1 DEF Led, PadTargets, BindingId
    <3>2. bindings[i].type = "axis" /\ bindings[i].pad = BindingId(bindingMap, p)
      BY <3>1 DEF PadTargets
    <3>3. \A j \in Opposite(i) : /\ j \in TargetIds /\ j \notin excused'
                                 /\ bindings[j].type = "axis" /\ bindings[j].code = bindings[i].code
                                 /\ bindings[j].pad = BindingId(bindingMap, p)
      BY <3>1, Opposites DEF PadTargets
    <3>4. CASE i \in moved
      <4>1. i \in driven /\ alone /\ analog # {}
        BY <1>5, <1>8, <3>1, <3>4
      <4>2. p = id /\ bindings[i].code = x
        BY <1>4, <3>2, <3>4, <4>1 DEF alone, Answering
      <4>3. SamePlace(i, stick)
        BY <1>3, <1>4, <4>1, Opposites DEF driven, SamePlace
      <4>4. Stands(i)' = Shaped(v)
        BY <1>3, <1>6, <4>1, <4>3 DEF SamePlace
      <4>5. position'[<<p, bindings[i].code>>] = v
        BY <1>0, <1>1, <4>2 DEF TypesInv
      <4>6. QED  BY <1>1, <4>4, <4>5 DEF Shaped
    <3>5. CASE i \notin moved
      <4>1. \A j \in Opposite(i) : j \notin moved
        BY <1>4, <1>4a, <3>2, <3>3, <3>5
      <4>2. Stands(i)' = Stands(i)
        BY <1>3, <1>6, <3>1, <3>5, <4>1 DEF Touches, Stands
      <4>3. position'[<<p, bindings[i].code>>] = position[<<p, bindings[i].code>>]
        <5>1. <<p, bindings[i].code>> # <<id, x>>
          BY <1>4a, <3>2, <3>5
        <5>2. <<p, bindings[i].code>> \in DOMAIN position
          BY <1>0, <3>2 DEF TypesInv, Bindable
        <5>3. QED  BY <1>1, <5>1, <5>2
      <4>4. Led(i, p)
        <5>1. i \notin excused /\ \A j \in Opposite(i) : j \notin excused
          BY <1>5, <1>8, <3>1, <3>3, <3>5, <4>1
        <5>2. QED  BY <3>1, <5>1 DEF Led
      <4>5. Stands(i) = Shaped(position[<<p, bindings[i].code>>])
        BY <2>0, <4>4 DEF TargetRight, AxisRight
      <4>6. QED  BY <1>1, <4>2, <4>3, <4>5 DEF Shaped
    <3>6. QED  BY <3>4, <3>5
  <2>7. QED  BY <2>2, <2>3, <2>4, <2>5, <2>6 DEF TargetRight
<1>13. ASSUME NEW k \in Keys
       PROVE  KeyRight(k)'
  <2>1. k \notin driven
    BY <1>0, <1>4, <1>5, Starts
  <2>2. QED  BY <1>0, <1>6, <1>7, <1>8, <2>1 DEF InputInv, KeyRight
<1>14. QED  BY <1>9, <1>10, <1>11, <1>12, <1>13 DEF Inv, InputInv

-----------------------------------------------------------------------------
(* The steps that change the circumstances controls are used under.          *)

(* A target stays right when what is not excused is held, and stands, as it  *)
(* did.                                                                      *)
LEMMA RightAgain ==
  ASSUME NEW i \in TargetIds, TargetRight(i), axesHeld' = axesHeld,
         Settled(i)' => Settled(i) /\ (IsHeld(i)' <=> IsHeld(i)),
         \A j \in Opposite(i) : Settled(j)' => Settled(j) /\ (IsHeld(j)' <=> IsHeld(j)),
         Settled(i)' /\ Targets[i].kind \in {"button", "trigger"} => (Pressed(i)' <=> Pressed(i)),
         Settled(i)' /\ Targets[i].kind = "stick" => Stands(i)' = Stands(i),
         SpeedRight(i)', AxisRight(i)'
  PROVE  TargetRight(i)'
<1>1. ButtonRight(i)'
  BY DEF TargetRight, ButtonRight
<1>2. BookRight(i)'
  BY DEF TargetRight, BookRight
<1>3. StickRight(i)'
  <2> SUFFICES ASSUME NEW j \in Opposite(i), Settled(i)', Settled(j)'
               PROVE  (/\ ~IsHeld(i) /\ ~IsHeld(j) => Stands(i) = 0
                       /\ IsHeld(i) /\ ~IsHeld(j)  => Stands(i) = Targets[i].dir * Full
                       /\ IsHeld(i) /\ IsHeld(j)   => Stands(i) \in {-Full, Full})'
    BY DEF StickRight
  <2>1. Targets[i].kind = "stick"
    BY Opposites
  <2>2. /\ Settled(i) /\ (IsHeld(i)' <=> IsHeld(i)) /\ Stands(i)' = Stands(i)
        /\ Settled(j) /\ (IsHeld(j)' <=> IsHeld(j))
    BY <2>1
  <2>3. QED  BY <2>2 DEF TargetRight, StickRight
<1>4. QED  BY <1>1, <1>2, <1>3 DEF TargetRight

(* The hold key stays right when the speed and the menu do.                  *)
LEMMA SpeedAgain ==
  ASSUME NEW i \in TargetIds, TargetRight(i), UNCHANGED <<fast, turbo>>,
         Settled(i)' => Settled(i) /\ (IsHeld(i)' <=> IsHeld(i))
  PROVE  SpeedRight(i)'
BY DEF TargetRight, SpeedRight

(* A stick led by a pad stays right when the same pads lead it.              *)
LEMMA AxisAgain ==
  ASSUME NEW i \in TargetIds, TargetRight(i),
         \A p \in DOMAIN pads' : Led(i, p)' =>
           /\ p \in DOMAIN pads /\ Led(i, p) /\ Stands(i)' = Stands(i)
           /\ position'[<<p, bindings'[i].code>>] = position[<<p, bindings[i].code>>]
  PROVE  AxisRight(i)'
<1> SUFFICES ASSUME NEW p \in DOMAIN pads', Led(i, p)'
             PROVE  (Stands(i) = Shaped(position[<<p, bindings[i].code>>]))'
  BY DEF AxisRight
<1>1. /\ p \in DOMAIN pads /\ Led(i, p) /\ Stands(i)' = Stands(i)
      /\ position'[<<p, bindings'[i].code>>] = position[<<p, bindings[i].code>>]
  OBVIOUS
<1>2. Stands(i) = Shaped(position[<<p, bindings[i].code>>])
  BY <1>1 DEF TargetRight, AxisRight
<1>3. QED  BY <1>1, <1>2 DEF Shaped

(* The same binding leads a stick when the bindings are the same.            *)
LEMMA LedAgain ==
  ASSUME NEW i \in TargetIds, NEW p, Led(i, p)', UNCHANGED bindings,
         excused \subseteq excused', BindingId(bindingMap, p)' = BindingId(bindingMap, p)
  PROVE  Led(i, p)
<1>1. \A j : j \in PadTargets("axis", p, bindings[i].code)' =>
             j \in PadTargets("axis", p, bindings[i].code)
  BY DEF PadTargets
<1>2. QED  BY <1>1 DEF Led

(* What is held is still taken for what it was by the same bindings.         *)
LEMMA HeldAgain ==
  ASSUME HeldInv, UNCHANGED bindings,
         \A o \in DOMAIN held' : o \in DOMAIN held /\ held'[o] = held[o],
         \A o \in DOMAIN held' : Steady(held[o].thing)' =>
           /\ Steady(held[o].thing)
           /\ o[1] # "key" => BindingId(bindingMap, o[2])' = BindingId(bindingMap, o[2])
  PROVE  HeldInv'
<1> SUFFICES ASSUME NEW o \in DOMAIN held', Steady(held[o].thing)'
             PROVE  (ThingOf(o, held[o]) = held[o].thing)'
  BY DEF HeldInv
<1>1. ThingOf(o, held[o]) = held[o].thing /\ held'[o] = held[o]
  BY DEF HeldInv
<1>2. CASE o[1] = "key"
  BY <1>1, <1>2 DEF ThingOf, KeyThingAt, KeyTargets
<1>3. CASE o[1] # "key"
  <2>1. BindingId(bindingMap, o[2])' = BindingId(bindingMap, o[2])
    BY <1>3
  <2>2. PadTargets("button", o[2], o[3])' = PadTargets("button", o[2], o[3])
    BY <2>1 DEF PadTargets
  <2>3. PadThing(o[2], o[3])' = PadThing(o[2], o[3])
    BY <2>2 DEF PadThing
  <2>4. QED  BY <1>1, <1>3, <2>3 DEF ThingOf
<1>4. QED  BY <1>2, <1>3

(* The modifiers decide what the next key is taken for, not the last.        *)
LEMMA ChangeModifiersKeeps ==
  ASSUME Inv, NEW m, ChangeModifiers(m)
  PROVE  Inv'
<1>1. UNCHANGED <<bindings, bindingMap, axesHeld, gameFocus, slot, pads, guids, nextId, joy, device,
                  keys, fast, turbo, plays, held, position, excused, upsets, twins>>
  BY DEF ChangeModifiers, bindVars, inputVars
<1>2. TypesInv'
  <2>1. Sources' = Sources /\ Handlers' = Handlers
    BY <1>1 DEF Sources, Handlers
  <2>2. QED  BY <1>1, <2>1 DEF Inv, TypesInv, Machine
<1>3. PadsInv'
  BY <1>1, SamePads DEF Inv
<1>4. HeldInv'
  <2>1. \A o \in DOMAIN held' : Steady(held[o].thing)' => Steady(held[o].thing)
    BY <1>1 DEF Steady, Lasting, ByButton
  <2>2. QED  BY <1>1, <2>1, HeldAgain DEF Inv, InputInv
<1>5. ASSUME NEW i
      PROVE  /\ (Settled(i)' <=> Settled(i)) /\ (IsHeld(i)' <=> IsHeld(i))
             /\ (Pressed(i)' <=> Pressed(i)) /\ Stands(i)' = Stands(i)
  BY <1>1 DEF Settled, ByButton, IsHeld, Holders, Pressed, PressedIn, Stands, StandsIn, Handlers
<1>6. ASSUME NEW i \in TargetIds
      PROVE  TargetRight(i)'
  <2>1. TargetRight(i)
    BY DEF Inv, InputInv
  <2>2. SpeedRight(i)'
    BY <1>1, <1>5, <2>1, SpeedAgain
  <2>3. AxisRight(i)'
    <3>1. \A p \in DOMAIN pads' : Led(i, p)' => Led(i, p)
      BY <1>1, LedAgain DEF BindingId
    <3>2. QED  BY <1>1, <1>5, <2>1, <3>1, AxisAgain
  <2>4. QED  BY <1>1, <1>5, <2>1, <2>2, <2>3, RightAgain
<1>7. \A k \in Keys : KeyRight(k)'
  BY <1>1, <1>5 DEF Inv, InputInv, KeyRight
<1>8. QED  BY <1>2, <1>3, <1>4, <1>6, <1>7 DEF Inv, InputInv

(* The menu's own item sets the speed it then shows.                         *)
LEMMA MenuTurboKeeps ==
  ASSUME Inv, MenuTurbo
  PROVE  Inv'
<1>1. UNCHANGED <<bindings, bindingMap, axesHeld, gameFocus, slot, pads, guids, nextId, joy, device,
                  keys, plays, mod, held, position, excused, upsets, twins>>
  BY DEF MenuTurbo, bindVars, userVars
<1>2. fast' = turbo'.checked /\ Machine(Handlers)'
  <2> DEFINE r == ToggleFastForwarding(Handlers, 2)
             checked == turbo.checked /\ turbo.enabled
             set     == [checked |-> ~checked, enabled |-> TRUE]
  <2>1. fast' = r.fast /\ turbo' = r.turbo
    BY DEF MenuTurbo
  <2>2. r = [Handlers EXCEPT !.fast = ~checked, !.turbo = set]
    BY DEF ToggleFastForwarding, Handlers
  <2>3. set.checked = ~checked /\ set.enabled = TRUE /\ DOMAIN set = {"checked", "enabled"}
    OBVIOUS
  <2>4. checked \in BOOLEAN
    OBVIOUS
  <2> HIDE DEF checked, set, r
  <2>5. r = [joy |-> joy, keys |-> keys, fast |-> ~checked, turbo |-> set]
    BY <2>2 DEF Handlers
  <2>6. fast' = ~checked /\ turbo' = set
    BY <2>1, <2>5
  <2>7. Handlers' = [joy |-> joy, keys |-> keys, fast |-> ~checked, turbo |-> set]
    BY <1>1, <2>6 DEF Handlers
  <2>8. Machine(Handlers)
    BY DEF Inv, TypesInv
  <2>9. Machine(Handlers)'
    <3>1. Handlers.joy = joy
      BY DEF Handlers
    <3> HIDE DEF Handlers
    <3>2. /\ Handlers'.joy = Handlers.joy /\ Handlers'.turbo = set
          /\ Handlers' = [joy |-> Handlers'.joy, keys |-> Handlers'.keys, fast |-> Handlers'.fast,
                          turbo |-> Handlers'.turbo]
      BY <2>7, <3>1
    <3>3. set.checked \in BOOLEAN /\ set.enabled \in BOOLEAN
      BY <2>3, <2>4
    <3>4. QED  BY <2>3, <2>8, <3>2, <3>3 DEF Machine
  <2>10. QED  BY <2>3, <2>6, <2>9
<1>3. TypesInv'
  BY <1>1, <1>2 DEF Inv, TypesInv, Sources
<1>4. PadsInv'
  BY <1>1, SamePads DEF Inv
<1>5. HeldInv'
  <2>1. \A o \in DOMAIN held' : Steady(held[o].thing)' => Steady(held[o].thing)
    BY <1>1 DEF Steady, Lasting, ByButton
  <2>2. QED  BY <1>1, <2>1, HeldAgain DEF Inv, InputInv
<1>6. ASSUME NEW i
      PROVE  /\ (Settled(i)' <=> Settled(i)) /\ (IsHeld(i)' <=> IsHeld(i))
             /\ (Pressed(i)' <=> Pressed(i)) /\ Stands(i)' = Stands(i)
  BY <1>1 DEF Settled, ByButton, IsHeld, Holders, Pressed, PressedIn, Stands, StandsIn, Handlers
<1>7. ASSUME NEW i \in TargetIds
      PROVE  TargetRight(i)'
  <2>1. TargetRight(i)
    BY DEF Inv, InputInv
  <2>2. SpeedRight(i)'
    BY <1>2 DEF SpeedRight
  <2>3. AxisRight(i)'
    <3>1. \A p \in DOMAIN pads' : Led(i, p)' => Led(i, p)
      BY <1>1, LedAgain DEF BindingId
    <3>2. QED  BY <1>1, <1>6, <2>1, <3>1, AxisAgain
  <2>4. QED  BY <1>1, <1>6, <2>1, <2>2, <2>3, RightAgain
<1>8. \A k \in Keys : KeyRight(k)'
  BY <1>1, <1>6 DEF Inv, InputInv, KeyRight
<1>9. QED  BY <1>3, <1>4, <1>5, <1>7, <1>8 DEF Inv, InputInv

(* The item that a game enables shows another speed until it is chosen.      *)
LEMMA UpdateMenuKeeps ==
  ASSUME Inv, NEW on \in BOOLEAN, UpdateMenu(on)
  PROVE  Inv'
<1>1. /\ turbo' = [turbo EXCEPT !.enabled = on]
      /\ excused' = excused \cup {i \in TargetIds : Targets[i].kind = "fastForward"}
      /\ UNCHANGED <<bindings, bindingMap, axesHeld, gameFocus, slot, pads, guids, nextId, joy, device,
                     keys, fast, plays, mod, held, position, twins>>
  BY DEF UpdateMenu, bindVars
<1>2. Machine(Handlers)'
  <2>1. Machine(Handlers)
    BY DEF Inv, TypesInv
  <2>2. DOMAIN turbo = {"checked", "enabled"} /\ turbo.checked \in BOOLEAN
    BY <2>1 DEF Machine, Handlers
  <2>3. turbo'.checked = turbo.checked /\ turbo'.enabled = on /\ DOMAIN turbo' = {"checked", "enabled"}
    BY <1>1, <2>2
  <2>4. Handlers' = [joy |-> joy, keys |-> keys, fast |-> fast, turbo |-> turbo']
    BY <1>1 DEF Handlers
  <2> HIDE DEF Handlers
  <2>5. /\ Handlers'.joy = Handlers.joy /\ Handlers'.turbo = turbo'
        /\ Handlers' = [joy |-> Handlers'.joy, keys |-> Handlers'.keys, fast |-> Handlers'.fast,
                        turbo |-> Handlers'.turbo]
    BY <2>4 DEF Handlers
  <2>6. QED  BY <2>1, <2>2, <2>3, <2>5 DEF Machine
<1>3. TypesInv'
  BY <1>1, <1>2 DEF Inv, TypesInv, Sources
<1>4. PadsInv'
  BY <1>1, SamePads DEF Inv
<1>5. HeldInv'
  <2>1. \A o \in DOMAIN held' : Steady(held[o].thing)' => Steady(held[o].thing)
    BY <1>1 DEF Steady, Lasting, ByButton
  <2>2. QED  BY <1>1, <2>1, HeldAgain DEF Inv, InputInv
<1>6. ASSUME NEW i
      PROVE  /\ (Settled(i)' => Settled(i)) /\ (IsHeld(i)' <=> IsHeld(i))
             /\ (Pressed(i)' <=> Pressed(i)) /\ Stands(i)' = Stands(i)
  BY <1>1 DEF Settled, ByButton, IsHeld, Holders, Pressed, PressedIn, Stands, StandsIn, Handlers
<1>7. ASSUME NEW i \in TargetIds
      PROVE  TargetRight(i)'
  <2>1. TargetRight(i)
    BY DEF Inv, InputInv
  <2>2. SpeedRight(i)'
    BY <1>1 DEF SpeedRight, Settled
  <2>3. AxisRight(i)'
    <3>1. \A p \in DOMAIN pads' : Led(i, p)' => Led(i, p)
      BY <1>1, LedAgain DEF BindingId
    <3>2. QED  BY <1>1, <1>6, <2>1, <3>1, AxisAgain
  <2>4. QED  BY <1>1, <1>6, <2>1, <2>2, <2>3, RightAgain
<1>8. \A k \in Keys : KeyRight(k)'
  BY <1>1, <1>6 DEF Inv, InputInv, KeyRight
<1>9. QED  BY <1>3, <1>4, <1>5, <1>7, <1>8 DEF Inv, InputInv

(* Another device has seen nothing of what is held.                          *)
LEMMA SelectDeviceKeeps ==
  ASSUME Inv, NEW q \in Ports, NEW d \in Devices, SelectDevice(q, d)
  PROVE  Inv'
<1>1. /\ device' = [device EXCEPT ![q] = d]
      /\ excused' = excused \cup {i \in TargetIds : "port" \in DOMAIN Targets[i] /\ Targets[i].port = q}
      /\ UNCHANGED <<bindings, bindingMap, axesHeld, gameFocus, slot, pads, guids, nextId, joy,
                     keys, fast, turbo, plays, mod, held, position, twins>>
  BY DEF SelectDevice, bindVars
<1>2. TypesInv'
  <2>1. Sources' = Sources /\ Handlers' = Handlers
    BY <1>1 DEF Sources, Handlers
  <2>2. device' \in [Ports -> Devices]
    BY <1>1 DEF Inv, TypesInv
  <2>3. QED  BY <1>1, <2>1, <2>2 DEF Inv, TypesInv, Machine
<1>3. PadsInv'
  BY <1>1, SamePads DEF Inv
<1>4. HeldInv'
  <2>1. \A o \in DOMAIN held' : Steady(held[o].thing)' => Steady(held[o].thing)
    BY <1>1 DEF Steady, Lasting, ByButton
  <2>2. QED  BY <1>1, <2>1, HeldAgain DEF Inv, InputInv
<1>5. ASSUME NEW i
      PROVE  (Settled(i)' => Settled(i)) /\ (IsHeld(i)' <=> IsHeld(i))
  BY <1>1 DEF Settled, ByButton, IsHeld, Holders
<1>6. ASSUME NEW i \in TargetIds, i \notin excused', Targets[i].kind \in {"button", "stick", "trigger"}
      PROVE  (Pressed(i)' <=> Pressed(i)) /\ Stands(i)' = Stands(i)
  <2>1. "port" \in DOMAIN Targets[i] /\ Targets[i].port \in Ports
    BY <1>6, ControlsAssumption
  <2>2. Targets[i].port # q
    BY <1>1, <1>6, <2>1
  <2>3. device'[Targets[i].port] = device[Targets[i].port]
    BY <1>1, <2>1, <2>2 DEF Inv, TypesInv
  <2>4. Handlers' = Handlers
    BY <1>1 DEF Handlers
  <2>5. QED  BY <2>3, <2>4 DEF Pressed, PressedIn, Stands, StandsIn
<1>7. ASSUME NEW i \in TargetIds
      PROVE  TargetRight(i)'
  <2>1. TargetRight(i)
    BY DEF Inv, InputInv
  <2>2. SpeedRight(i)'
    BY <1>1, <1>5, <2>1, SpeedAgain
  <2>3. AxisRight(i)'
    <3>1. \A p \in DOMAIN pads' : Led(i, p)' => Led(i, p)
      BY <1>1, LedAgain DEF BindingId
    <3>2. \A p \in DOMAIN pads' : Led(i, p)' => Stands(i)' = Stands(i)
      BY <1>6 DEF Led, IsAnalog
    <3>3. QED  BY <1>1, <2>1, <3>1, <3>2, AxisAgain
  <2>4. Settled(i)' => i \notin excused'
    BY DEF Settled
  <2>5. QED  BY <1>1, <1>5, <1>6, <2>1, <2>2, <2>3, <2>4, RightAgain
<1>8. \A k \in Keys : KeyRight(k)'
  BY <1>1, <1>5 DEF Inv, InputInv, KeyRight
<1>9. QED  BY <1>2, <1>3, <1>4, <1>7, <1>8 DEF Inv, InputInv

(* A new core has seen nothing of what is held.                              *)
LEMMA LoadCoreKeeps ==
  ASSUME Inv, LoadCore
  PROVE  Inv'
<1>1. /\ joy' = [p \in Ports |-> [e \in Devices |-> Idle]] /\ keys' = {}
      /\ excused' = excused \cup HeldThings \cup
                      {i \in TargetIds : IsAnalog(Targets[i]) \/ bindings[i].type = "axis"}
      /\ UNCHANGED <<bindings, bindingMap, axesHeld, gameFocus, slot, pads, guids, nextId, device,
                     fast, turbo, plays, mod, held, position, twins>>
  BY DEF LoadCore, bindVars
<1>2. TypesInv'
  <2>1. Machine(Handlers)
    BY DEF Inv, TypesInv
  <2>2. Handlers' = [joy |-> joy', keys |-> keys', fast |-> fast, turbo |-> turbo]
    BY <1>1 DEF Handlers
  <2>3. /\ DOMAIN joy' = Ports /\ \A p \in Ports : DOMAIN joy'[p] = Devices
        /\ \A p \in Ports, d \in Devices : joy'[p][d] = Idle
    BY <1>1
  <2>4. DOMAIN Idle = {"buttons", "axes"}
    BY DEF Idle
  <2>5. Machine(Handlers)'
    BY <2>1, <2>2, <2>3, <2>4 DEF Machine, Handlers
  <2>6. QED  BY <1>1, <2>5 DEF Inv, TypesInv, Sources
<1>3. PadsInv'
  BY <1>1, SamePads DEF Inv
<1>4. HeldInv'
  <2>1. \A o \in DOMAIN held' : Steady(held[o].thing)' => Steady(held[o].thing)
    BY <1>1 DEF Steady, Lasting, ByButton
  <2>2. QED  BY <1>1, <2>1, HeldAgain DEF Inv, InputInv
<1>5. ASSUME NEW i
      PROVE  (Settled(i)' => Settled(i)) /\ (IsHeld(i)' <=> IsHeld(i))
  BY <1>1 DEF Settled, ByButton, IsHeld, Holders
<1>6. ASSUME NEW x, Lasting(x), x \notin excused'
      PROVE  ~IsHeld(x)
  BY <1>1, <1>6 DEF HeldThings, IsHeld, Holders
<1>7. ASSUME NEW i \in TargetIds
      PROVE  TargetRight(i)'
  <2>1. TargetRight(i)
    BY DEF Inv, InputInv
  <2>2. SpeedRight(i)'
    BY <1>1, <1>5, <2>1, SpeedAgain
  <2>3. IsAnalog(Targets[i]) => i \in excused'
    BY <1>1
  <2>4. AxisRight(i)'
    BY <2>3 DEF AxisRight, Led
  <2>5. ASSUME Settled(i)', Targets[i].kind \in {"button", "trigger"}
        PROVE  Pressed(i)' <=> Pressed(i)
    <3>1. ~IsHeld(i)
      BY <1>6, <2>5 DEF Settled, Lasting
    <3>2. ~Pressed(i)
      BY <1>5, <2>1, <2>5, <3>1 DEF TargetRight, ButtonRight
    <3>3. ~Pressed(i)'
      <4>1. Targets[i].port \in Ports /\ device[Targets[i].port] \in Devices
        BY <2>5, ControlsAssumption DEF Inv, TypesInv
      <4>2. QED  BY <1>1, <4>1 DEF Pressed, PressedIn, Handlers, Idle
    <3>4. QED  BY <3>2, <3>3
  <2>6. Settled(i)' => Targets[i].kind # "stick"
    BY <2>3 DEF Settled, IsAnalog
  <2>7. QED  BY <1>1, <1>5, <2>1, <2>2, <2>4, <2>5, <2>6, RightAgain
<1>8. \A k \in Keys : KeyRight(k)'
  BY <1>1, <1>5, <1>6 DEF KeyRight, Lasting
<1>9. QED  BY <1>2, <1>3, <1>4, <1>7, <1>8 DEF Inv, InputInv
(* The dialogs leave what is held to the bindings it was pressed with.       *)
LEMMA RebindKeeps ==
  ASSUME Inv, NEW r \in Rebinds[plays], Rebind(r.target, r.binding)
  PROVE  Inv'
<1> DEFINE t == r.target
           b == r.binding
<1>1. /\ bindings' = [bindings EXCEPT ![t] = b]
      /\ excused' = excused \cup HeldThings \cup {t} \cup Opposite(t)
      /\ UNCHANGED <<bindingMap, axesHeld, gameFocus, slot, pads, guids, nextId, joy, device, keys,
                     fast, turbo, plays, mod, held, position, twins>>
  BY DEF Rebind, inputVars
<1>2. t \in TargetIds /\ Bindable(b)
  BY ControlsAssumption DEF Inv, TypesInv
<1> HIDE DEF t, b
<1>3. /\ DOMAIN bindings' = TargetIds
      /\ \A i \in TargetIds : i # t => bindings'[i] = bindings[i]
      /\ bindings'[t] = b
  BY <1>1, <1>2 DEF Inv, TypesInv
<1>4. TypesInv'
  <2>1. Sources' = Sources /\ Handlers' = Handlers
    BY <1>1 DEF Sources, Handlers
  <2>2. \A i \in TargetIds : Bindable(bindings'[i])
    BY <1>2, <1>3 DEF Inv, TypesInv
  <2>3. QED  BY <1>1, <1>3, <2>1, <2>2 DEF Inv, TypesInv, Machine
<1>5. PadsInv'
  BY <1>1, SamePads DEF Inv
<1>6. ASSUME NEW x, Lasting(x), x \notin excused'
      PROVE  ~IsHeld(x)
  BY <1>1, <1>6 DEF HeldThings, IsHeld, Holders
<1>7. HeldInv'
  <2>1. \A o \in DOMAIN held' : ~Steady(held[o].thing)'
    <3>1. ASSUME NEW o \in DOMAIN held, Lasting(held[o].thing)
          PROVE  held[o].thing \in excused'
      BY <1>1, <3>1 DEF HeldThings
    <3>2. QED  BY <1>1, <3>1 DEF Steady, Lasting
  <2>2. QED  BY <2>1 DEF HeldInv
<1>8. ASSUME NEW i
      PROVE  (IsHeld(i)' <=> IsHeld(i)) /\ (Pressed(i)' <=> Pressed(i)) /\ Stands(i)' = Stands(i)
  BY <1>1 DEF IsHeld, Holders, Pressed, PressedIn, Stands, StandsIn, Handlers
<1>9. ASSUME NEW i \in TargetIds
      PROVE  Settled(i)' => Settled(i)
  BY <1>1, <1>3 DEF Settled, ByButton
<1>10. ASSUME NEW i \in TargetIds
      PROVE  TargetRight(i)'
  <2>1. TargetRight(i)
    BY DEF Inv, InputInv
  <2>2. SpeedRight(i)'
    BY <1>1, <1>8, <1>9, <2>1, SpeedAgain
  <2>3. AxisRight(i)'
    <3> SUFFICES ASSUME NEW p \in DOMAIN pads', Led(i, p)'
                 PROVE  /\ p \in DOMAIN pads /\ Led(i, p) /\ Stands(i)' = Stands(i)
                        /\ position'[<<p, bindings'[i].code>>] = position[<<p, bindings[i].code>>]
      BY <2>1, AxisAgain
    <3>1. bindings'[i] = bindings[i] /\ i \notin excused'
      BY <1>1, <1>3 DEF Led
    <3>2. ASSUME NEW j \in TargetIds, j \notin excused', j \in PadTargets("axis", p, bindings[i].code)'
          PROVE  j \in PadTargets("axis", p, bindings[i].code) \ excused
      <4>1. bindings'[j] = bindings[j]
        BY <1>1, <1>3, <3>2
      <4>2. /\ bindings'[j].type = "axis" /\ bindings'[j].code = bindings'[i].code
            /\ bindings'[j].pad = BindingId(bindingMap', p)
        BY <3>2 DEF PadTargets
      <4>3. j \notin excused
        BY <1>1, <3>2
      <4>4. QED  BY <1>1, <3>1, <4>1, <4>2, <4>3 DEF PadTargets
    <3>3. Led(i, p)
      <4>1. \A j \in Opposite(i) : j \in TargetIds
        BY Opposites
      <4>2. i \in PadTargets("axis", p, bindings[i].code)'
        BY DEF Led
      <4>3. i \in PadTargets("axis", p, bindings[i].code) \ excused
        BY <3>1, <3>2, <4>2
      <4>4. Targets[i].kind = "stick" => \A j \in Opposite(i) :
              j \in PadTargets("axis", p, bindings[i].code)' /\ j \notin excused'
        BY DEF Led
      <4>5. Targets[i].kind = "stick" =>
              Opposite(i) \subseteq PadTargets("axis", p, bindings[i].code) \ excused
        BY <3>2, <4>1, <4>4
      <4>6. IsAnalog(Targets[i])
        BY DEF Led
      <4>7. QED  BY <4>3, <4>5, <4>6 DEF Led
    <3>4. QED  BY <1>1, <1>8, <3>1, <3>3
  <2>4. \A j \in Opposite(i) : j \in TargetIds
    BY Opposites
  <2>5. QED  BY <1>1, <1>8, <1>9, <2>1, <2>2, <2>3, <2>4, RightAgain
<1>11. \A k \in Keys : KeyRight(k)'
  BY <1>1, <1>8 DEF Inv, InputInv, KeyRight
<1>12. QED  BY <1>4, <1>5, <1>7, <1>10, <1>11 DEF Inv, InputInv

-----------------------------------------------------------------------------
(* Pads that come and go.                                                    *)

(* What a pad that goes had pressed, and where it had moved a stick, stays.  *)
LEMMA RemoveControllerKeeps ==
  ASSUME Inv, NEW id \in DOMAIN pads, RemoveController(id)
  PROVE  Inv'
<1> DEFINE srcs == {src \in DOMAIN held : src[1] = "pad" /\ src[2] = id}
           lost == {held[src].thing : src \in srcs}
<1>1. /\ pads' = [p \in DOMAIN pads \ {id} |-> pads[p]]
      /\ held' = Without(held, srcs)
      /\ position' = [q \in {w \in DOMAIN position : w[1] # id} |-> position[q]]
      /\ excused \cup lost \subseteq excused'
      /\ UNCHANGED <<bindings, bindingMap, axesHeld, gameFocus, slot, guids, nextId, joy, device, keys,
                     fast, turbo, plays, mod, twins>>
  BY DEF RemoveController, bindVars
<1>2. /\ DOMAIN held' = DOMAIN held \ srcs
      /\ \A o \in DOMAIN held' : o \in DOMAIN held /\ held'[o] = held[o]
  BY <1>1 DEF Without
<1>3. /\ DOMAIN pads' = DOMAIN pads \ {id}
      /\ \A p \in DOMAIN pads' : p \in DOMAIN pads /\ p # id /\ pads'[p] = pads[p]
  BY <1>1
<1>4. TypesInv'
  <2>1. Handlers' = Handlers
    BY <1>1 DEF Handlers
  <2>2. DOMAIN held' \subseteq Sources'
    <3> SUFFICES ASSUME NEW o \in DOMAIN held' PROVE o \in Sources'
      OBVIOUS
    <3>1. o \in Sources /\ o \notin srcs /\ o \in DOMAIN held
      BY <1>2 DEF Inv, TypesInv
    <3>2. CASE \E k \in Keys : o = KeySource(k)
      BY <3>2 DEF Sources
    <3>3. CASE \E p \in DOMAIN pads, b \in Buttons : o = PadSource(p, b)
      <4>1. PICK p \in DOMAIN pads, b \in Buttons : o = PadSource(p, b)
        BY <3>3
      <4>2. p # id
        BY <3>1, <4>1 DEF PadSource
      <4>3. QED  BY <1>3, <4>1, <4>2 DEF Sources
    <3>4. QED  BY <3>1, <3>2, <3>3 DEF Sources
  <2>3. /\ DOMAIN position' = (DOMAIN pads') \X Axes
        /\ \A q \in DOMAIN position' : position'[q] \in Int
    BY <1>1, <1>3 DEF Inv, TypesInv
  <2>4. QED  BY <1>1, <1>3, <2>1, <2>2, <2>3 DEF Inv, TypesInv, Machine
<1>5. PadsInv'
  <2>1. PadsInv
    BY DEF Inv
  <2>2. \A p \in DOMAIN pads' : BindingId(bindingMap', p) = BindingId(bindingMap, p)
    BY <1>1
  <2>3. QED  BY <1>1, <1>3, <2>1, <2>2 DEF PadsInv, PadKeepsItsBindings
<1> HIDE DEF srcs
<1>6. ASSUME NEW i, i \notin excused'
      PROVE  IsHeld(i)' <=> IsHeld(i)
  BY <1>1, <1>2, <1>6 DEF IsHeld, Holders
<1>7. HeldInv'
  <2>1. \A o \in DOMAIN held' : Steady(held[o].thing)' => Steady(held[o].thing)
    BY <1>1, <1>2 DEF Steady, Lasting, ByButton
  <2>2. QED  BY <1>1, <1>2, <2>1, HeldAgain DEF Inv, InputInv, BindingId
<1>8. ASSUME NEW i
      PROVE  /\ (Settled(i)' => Settled(i) /\ (IsHeld(i)' <=> IsHeld(i)))
             /\ (Pressed(i)' <=> Pressed(i)) /\ Stands(i)' = Stands(i)
  BY <1>1, <1>6 DEF Settled, ByButton, Pressed, PressedIn, Stands, StandsIn, Handlers
<1>9. ASSUME NEW i \in TargetIds
      PROVE  TargetRight(i)'
  <2>1. TargetRight(i)
    BY DEF Inv, InputInv
  <2>2. SpeedRight(i)'
    BY <1>1, <1>8, <2>1, SpeedAgain
  <2>3. AxisRight(i)'
    <3> SUFFICES ASSUME NEW p \in DOMAIN pads', Led(i, p)'
                 PROVE  /\ p \in DOMAIN pads /\ Led(i, p) /\ Stands(i)' = Stands(i)
                        /\ position'[<<p, bindings'[i].code>>] = position[<<p, bindings[i].code>>]
      BY <2>1, AxisAgain
    <3>1. Led(i, p)
      BY <1>1, LedAgain DEF BindingId
    <3>2. bindings[i].type = "axis"
      BY <3>1 DEF Led, PadTargets
    <3>3. <<p, bindings[i].code>> \in DOMAIN position /\ p # id
      BY <1>3, <3>2 DEF Inv, TypesInv, Bindable
    <3>4. QED  BY <1>1, <1>3, <1>8, <3>1, <3>3
  <2>4. QED  BY <1>1, <1>8, <2>1, <2>2, <2>3, RightAgain
<1>10. \A k \in Keys : KeyRight(k)'
  BY <1>1, <1>6 DEF Inv, InputInv, KeyRight
<1>11. QED  BY <1>4, <1>5, <1>7, <1>9, <1>10 DEF Inv, InputInv
(* A pad that comes answers to the bindings its kind was seen first with,    *)
(* and what it or a pad that loses them had pressed or moved stays.          *)
LEMMA AddControllerKeeps ==
  ASSUME Inv, NEW g \in Guids, AddController(g)
  PROVE  Inv'
<1> DEFINE id   == nextId
           seen == IF g \in {guids[n] : n \in DOMAIN guids} THEN guids ELSE Append(guids, g)
           map  == IF GuidId(seen, g) = id THEN bindingMap ELSE MapDevice(GuidId(seen, g), id)
           remapped == {p \in DOMAIN pads : BindingId(map, p) # BindingId(bindingMap, p)}
<1>0. TypesInv /\ PadsInv /\ InputInv
  BY DEF Inv
<1>1. /\ nextId' = id + 1 /\ guids' = seen /\ bindingMap' = map
      /\ pads' = [p \in DOMAIN pads \cup {id} |->
                    IF p = id THEN [guid |-> g, nav |-> NavigationPort(map, id)] ELSE pads[p]]
      /\ position' = [q \in DOMAIN position \cup ({id} \X Axes) |-> IF q[1] = id THEN 0 ELSE position[q]]
      /\ twins' = IF \E p \in DOMAIN pads : pads[p].guid = g THEN twins \cup {g} ELSE twins
      /\ excused' = excused
           \cup {held[src].thing : src \in {s \in DOMAIN held : s[1] = "pad" /\ s[2] \in remapped}}
           \cup {i \in TargetIds : /\ bindings[i].type = "axis"
                                   /\ bindings[i].pad \in {BindingId(map, p) : p \in remapped \cup {id}}}
      /\ UNCHANGED <<bindings, axesHeld, gameFocus, slot, joy, device, keys, fast, turbo, plays, mod,
                     held, upsets>>
  BY DEF AddController
<1>2. /\ id \in Nat /\ id \notin DOMAIN pads /\ id \notin DOMAIN bindingMap
      /\ DOMAIN bindingMap \subseteq Nat /\ DOMAIN pads \subseteq 0..(id - 1)
      /\ DOMAIN bindingMap \subseteq 0..(id - 1)
  BY <1>0 DEF TypesInv
<1>3. /\ seen \in Seq(Guids)
      /\ \A n \in DOMAIN guids : n \in DOMAIN seen /\ seen[n] = guids[n]
      /\ \E n \in DOMAIN seen : seen[n] = g
      /\ \A m, n \in DOMAIN seen : seen[m] = seen[n] => m = n
  <2>1. guids \in Seq(Guids) /\ \A m, n \in DOMAIN guids : guids[m] = guids[n] => m = n
    BY <1>0 DEF TypesInv, PadsInv
  <2>2. CASE g \in {guids[n] : n \in DOMAIN guids}
    BY <2>1, <2>2
  <2>3. CASE g \notin {guids[n] : n \in DOMAIN guids}
    <3>1. seen = Append(guids, g)
      BY <2>3
    <3> HIDE DEF seen
    <3>2. /\ DOMAIN guids = 1..Len(guids) /\ Len(guids) \in Nat
          /\ DOMAIN seen = 1..(Len(guids) + 1)
          /\ \A n \in 1..Len(guids) : seen[n] = guids[n]
          /\ seen[Len(guids) + 1] = g /\ seen \in Seq(Guids)
      BY <2>1, <3>1
    <3>3. \A n \in 1..(Len(guids) + 1) : n \in 1..Len(guids) \/ n = Len(guids) + 1
      BY <3>2
    <3>4. Len(guids) + 1 \in 1..(Len(guids) + 1) /\ 1..Len(guids) \subseteq 1..(Len(guids) + 1)
      BY <3>2
    <3>5. \A m, n \in DOMAIN seen : seen[m] = seen[n] => m = n
      BY <2>1, <2>3, <3>2, <3>3
    <3>6. QED  BY <3>2, <3>4, <3>5
  <2>4. QED  BY <2>2, <2>3
<1> HIDE DEF seen
<1>4. PICK n \in DOMAIN seen : seen[n] = g
  BY <1>3
<1>5. GuidId(seen, g) = n - 1 /\ n \in Int
  BY <1>3, <1>4, OwnGuidId
<1>6. /\ DOMAIN map \subseteq DOMAIN bindingMap \cup {id}
      /\ BindingId(map, id) = GuidId(seen, g)
      /\ \A p : p # id /\ BindingId(bindingMap, p) # GuidId(seen, g) =>
           BindingId(map, p) = BindingId(bindingMap, p)
  <2>1. CASE GuidId(seen, g) = id
    BY <1>2, <2>1 DEF BindingId
  <2>2. CASE GuidId(seen, g) # id
    <3>1. map = MapDevice(GuidId(seen, g), id)
      BY <2>2
    <3> HIDE DEF map
    <3>2. QED  BY <1>2, <3>1, MapsDevice
  <2>3. QED  BY <2>1, <2>2
<1> HIDE DEF map
<1>7. /\ DOMAIN pads' = DOMAIN pads \cup {id} /\ pads'[id].guid = g
      /\ \A p \in DOMAIN pads : p # id /\ pads'[p] = pads[p]
  BY <1>1, <1>2
<1>8. twins \subseteq twins' /\ \A p \in DOMAIN pads : pads[p].guid = g => g \in twins'
  BY <1>1
<1>9. TypesInv'
  <2>1. Handlers' = Handlers
    BY <1>1 DEF Handlers
  <2>2. DOMAIN held' \subseteq Sources'
    <3>1. Sources \subseteq Sources'
      BY <1>7 DEF Sources
    <3>2. QED  BY <1>0, <1>1, <3>1 DEF TypesInv
  <2>3. DOMAIN position' = (DOMAIN pads') \X Axes
    BY <1>0, <1>1, <1>7 DEF TypesInv
  <2>4. \A q \in DOMAIN position' : position'[q] \in Int
    <3>1. \A q \in DOMAIN position' : q[1] # id => q \in DOMAIN position
      BY <1>1
    <3>2. QED  BY <1>0, <1>1, <3>1 DEF TypesInv
  <2>5. /\ nextId' \in Nat /\ DOMAIN pads' \subseteq 0..(nextId' - 1)
        /\ DOMAIN bindingMap' \subseteq 0..(nextId' - 1)
    <3>1. 0..(id - 1) \subseteq 0..(id + 1 - 1) /\ id \in 0..(id + 1 - 1) /\ id + 1 \in Nat
      BY <1>2
    <3>2. QED  BY <1>1, <1>2, <1>6, <1>7, <3>1
  <2>6. Machine(Handlers)'
    BY <1>0, <2>1 DEF TypesInv, Machine
  <2>7. /\ plays \in DOMAIN Defaults /\ DOMAIN bindings = TargetIds
        /\ \A i \in TargetIds : Bindable(bindings[i])
        /\ device \in [Ports -> Devices]
    BY <1>0 DEF TypesInv
  <2>8. QED  BY <1>1, <1>3, <2>2, <2>3, <2>4, <2>5, <2>6, <2>7 DEF TypesInv
<1>10. PadsInv'
  <2>1. \A m, k \in DOMAIN guids' : guids'[m] = guids'[k] => m = k
    BY <1>1, <1>3
  <2>2. \A p \in DOMAIN pads' : \E m \in DOMAIN guids' : guids'[m] = pads'[p].guid
    <3> SUFFICES ASSUME NEW p \in DOMAIN pads'
                 PROVE  \E m \in DOMAIN guids' : guids'[m] = pads'[p].guid
      OBVIOUS
    <3>1. CASE p = id
      BY <1>1, <1>4, <1>7, <3>1
    <3>2. CASE p \in DOMAIN pads
      <4>1. PICK m \in DOMAIN guids : guids[m] = pads[p].guid
        BY <1>0, <3>2 DEF PadsInv
      <4>2. QED  BY <1>1, <1>3, <1>7, <3>2, <4>1
    <3>3. QED  BY <1>7, <3>1, <3>2
  <2>3. ASSUME NEW p \in DOMAIN pads', NEW q \in DOMAIN pads', p # q, pads'[p].guid = pads'[q].guid
        PROVE  pads'[p].guid \in twins'
    <3>1. CASE p \in DOMAIN pads /\ q \in DOMAIN pads
      BY <1>0, <1>7, <1>8, <2>3, <3>1 DEF PadsInv
    <3>2. CASE p = id \/ q = id
      BY <1>7, <1>8, <2>3, <3>2
    <3>3. QED  BY <1>7, <3>1, <3>2
  <2>4. ASSUME NEW p \in DOMAIN pads', pads'[p].guid \notin twins'
        PROVE  BindingId(map, p) = GuidId(seen, pads'[p].guid)
    <3>1. CASE p = id
      BY <1>6, <1>7, <3>1
    <3>2. CASE p \in DOMAIN pads
      <4>1. PICK m \in DOMAIN guids : guids[m] = pads[p].guid
        BY <1>0, <3>2 DEF PadsInv
      <4>2. GuidId(guids, pads[p].guid) = m - 1
        BY <1>0, <4>1, OwnGuidId DEF PadsInv
      <4>3. m \in DOMAIN seen /\ seen[m] = pads[p].guid /\ m \in Int
        BY <1>0, <1>3, <4>1 DEF TypesInv
      <4>4. GuidId(seen, pads[p].guid) = m - 1
        BY <1>3, <4>3, OwnGuidId
      <4>5. pads[p].guid \notin twins /\ pads[p].guid # g /\ pads'[p].guid = pads[p].guid
        BY <1>7, <1>8, <2>4, <3>2
      <4>6. BindingId(bindingMap, p) = m - 1
        BY <1>0, <3>2, <4>2, <4>5 DEF PadsInv, PadKeepsItsBindings
      <4>7. BindingId(bindingMap, p) # GuidId(seen, g)
        <5>1. m # n
          BY <1>4, <4>3, <4>5
        <5>2. m - 1 # n - 1
          BY <1>5, <4>3, <5>1
        <5>3. QED  BY <1>5, <4>6, <5>2
      <4>8. QED  BY <1>6, <1>7, <3>2, <4>4, <4>5, <4>6, <4>7
    <3>3. QED  BY <1>7, <3>1, <3>2
  <2>5. PadKeepsItsBindings'
    BY <1>1, <2>4 DEF PadKeepsItsBindings
  <2>6. QED  BY <2>1, <2>2, <2>3, <2>5 DEF PadsInv
<1>11. /\ excused \subseteq excused'
       /\ \A o \in DOMAIN held : o[1] = "pad" /\ o[2] \in remapped => held[o].thing \in excused'
       /\ \A i \in TargetIds, p \in remapped \cup {id} :
            bindings[i].type = "axis" /\ bindings[i].pad = BindingId(map, p) => i \in excused'
  BY <1>1
<1>12. \A p \in DOMAIN pads : p \notin remapped => BindingId(map, p) = BindingId(bindingMap, p)
  OBVIOUS
<1> HIDE DEF remapped
<1>13. HeldInv'
  <2>1. ASSUME NEW o \in DOMAIN held', Steady(held[o].thing)'
        PROVE  /\ Steady(held[o].thing)
               /\ o[1] # "key" => BindingId(bindingMap, o[2])' = BindingId(bindingMap, o[2])
    <3>1. held[o].thing \notin excused' /\ o \in DOMAIN held
      BY <1>1, <2>1 DEF Steady
    <3>2. Steady(held[o].thing)
      BY <1>1, <1>11, <2>1, <3>1 DEF Steady, Lasting, ByButton
    <3>3. ASSUME o[1] # "key"
          PROVE  BindingId(map, o[2]) = BindingId(bindingMap, o[2])
      <4>1. o \in Sources
        BY <1>0, <3>1 DEF TypesInv
      <4>2. o[1] = "pad" /\ o[2] \in DOMAIN pads
        BY <3>3, <4>1 DEF Sources, KeySource, PadSource
      <4>3. QED  BY <1>11, <1>12, <3>1, <4>2
    <3>4. QED  BY <1>1, <3>2, <3>3
  <2>2. HeldInv
    BY <1>0 DEF InputInv
  <2>3. QED  BY <1>1, <2>1, <2>2, HeldAgain
<1>14. ASSUME NEW i
      PROVE  /\ (Settled(i)' => Settled(i)) /\ (IsHeld(i)' <=> IsHeld(i))
             /\ (Pressed(i)' <=> Pressed(i)) /\ Stands(i)' = Stands(i)
  BY <1>1 DEF Settled, ByButton, IsHeld, Holders, Pressed, PressedIn, Stands, StandsIn, Handlers
<1>15. ASSUME NEW i \in TargetIds
      PROVE  TargetRight(i)'
  <2>1. TargetRight(i)
    BY <1>0 DEF InputInv
  <2>2. SpeedRight(i)'
    BY <1>1, <1>14, <2>1, SpeedAgain
  <2>3. AxisRight(i)'
    <3> SUFFICES ASSUME NEW p \in DOMAIN pads', Led(i, p)'
                 PROVE  /\ p \in DOMAIN pads /\ Led(i, p) /\ Stands(i)' = Stands(i)
                        /\ position'[<<p, bindings'[i].code>>] = position[<<p, bindings[i].code>>]
      BY <2>1, AxisAgain
    <3>1. bindings[i].type = "axis" /\ bindings[i].pad = BindingId(map, p) /\ i \notin excused'
      BY <1>1 DEF Led, PadTargets
    <3>2. p \in DOMAIN pads /\ p # id /\ p \notin remapped
      BY <1>7, <1>11, <3>1
    <3>3. Led(i, p)
      <4>1. BindingId(bindingMap, p)' = BindingId(bindingMap, p)
        BY <1>1, <1>12, <3>2
      <4>2. QED  BY <1>1, <1>11, <4>1, LedAgain
    <3>4. position'[<<p, bindings[i].code>>] = position[<<p, bindings[i].code>>]
      <4>1. <<p, bindings[i].code>> \in DOMAIN position
        BY <1>0, <3>1, <3>2 DEF TypesInv, Bindable
      <4>2. QED  BY <1>1, <3>2, <4>1
    <3>5. QED  BY <1>1, <1>14, <3>2, <3>3, <3>4
  <2>4. QED  BY <1>1, <1>14, <2>1, <2>2, <2>3, RightAgain
<1>16. \A k \in Keys : KeyRight(k)'
  BY <1>0, <1>1, <1>11, <1>14 DEF InputInv, KeyRight
<1>17. QED  BY <1>9, <1>10, <1>13, <1>15, <1>16 DEF Inv, InputInv

-----------------------------------------------------------------------------
(* The theorems.                                                             *)

(* At the start nothing is held, and nothing is connected.                   *)
LEMMA InitIsRight == Init => Inv
<1> SUFFICES ASSUME Init PROVE Inv
  OBVIOUS
<1>1. /\ plays \in DOMAIN Defaults /\ bindings = Defaults[plays] /\ DOMAIN bindingMap = {}
      /\ axesHeld = {} /\ DOMAIN pads = {} /\ guids = <<>> /\ nextId = 0
      /\ joy = [p \in Ports |-> [d \in Devices |-> Idle]]
      /\ device = [p \in Ports |-> First(Devices)]
      /\ keys = {} /\ turbo = [checked |-> FALSE, enabled |-> FALSE]
      /\ DOMAIN held = {} /\ DOMAIN position = {}
  BY DEF Init, First
<1>2. First(Devices) \in Devices
  BY ControlsAssumption, HasFirst
<1>3. TypesInv
  <2>1. DOMAIN Idle = {"buttons", "axes"}
    BY DEF Idle
  <2>2. Machine(Handlers)
    <3>1. /\ DOMAIN joy = Ports /\ \A p \in Ports : DOMAIN joy[p] = Devices
          /\ \A p \in Ports, d \in Devices : joy[p][d] = Idle
      BY <1>1
    <3>2. Handlers = [joy |-> joy, keys |-> keys, fast |-> fast, turbo |-> turbo]
      BY DEF Handlers
    <3>3. turbo.checked \in BOOLEAN /\ turbo.enabled \in BOOLEAN /\ DOMAIN turbo = {"checked", "enabled"}
      BY <1>1
    <3>4. QED  BY <2>1, <3>1, <3>2, <3>3 DEF Machine
  <2>3. /\ DOMAIN bindings = TargetIds /\ \A i \in TargetIds : Bindable(bindings[i])
    BY <1>1, ControlsAssumption
  <2>4. QED  BY <1>1, <1>2, <2>2, <2>3 DEF TypesInv
<1>4. PadsInv
  BY <1>1 DEF PadsInv, PadKeepsItsBindings
<1>5. ASSUME NEW i  PROVE ~IsHeld(i)
  BY <1>1 DEF IsHeld, Holders
<1>6. ASSUME NEW p \in Ports, NEW w
      PROVE  ~PressedIn(Handlers, p, w) /\ StandsIn(Handlers, p, w) = 0
  <2>1. joy[p][device[p]] = Idle
    BY <1>1, <1>2
  <2>2. QED  BY <2>1 DEF PressedIn, StandsIn, AxisOf, Idle, Handlers
<1>7. ASSUME NEW i \in TargetIds
      PROVE  TargetRight(i)
  <2>1. Targets[i].kind \in {"button", "stick", "trigger"} => ~Pressed(i) /\ Stands(i) = 0
    BY <1>6, ControlsAssumption DEF Pressed, Stands
  <2>2. \A j \in Opposite(i) : Targets[i].kind = "stick"
    BY Opposites
  <2>3. StickRight(i)
    BY <1>5, <2>1, <2>2 DEF StickRight
  <2>4. QED  BY <1>1, <1>5, <2>1, <2>3 DEF TargetRight, ButtonRight, BookRight, SpeedRight, AxisRight
<1>8. HeldInv
  BY <1>1 DEF HeldInv
<1>9. \A k \in Keys : KeyRight(k)
  BY <1>1, <1>5 DEF KeyRight
<1>10. QED  BY <1>3, <1>4, <1>7, <1>8, <1>9 DEF Inv, InputInv

(* Every step keeps all of it.                                               *)
LEMMA StepKeeps == Inv /\ [Next]_vars => Inv'
<1> SUFFICES ASSUME Inv, [Next]_vars PROVE Inv'
  OBVIOUS
<1>1. CASE KeyboardNext
  <2>1. \/ \E k \in Keys : KeyDown(k) \/ KeyUp(k)
        \/ \E m \in Mods : ChangeModifiers(m)
        \/ \E on \in BOOLEAN : UpdateMenu(on)
        \/ MenuTurbo
    BY <1>1 DEF KeyboardNext
  <2>2. QED  BY <2>1, KeyDownKeeps, KeyUpKeeps, ChangeModifiersKeeps, UpdateMenuKeeps, MenuTurboKeeps
<1>2. CASE PadNext
  <2>1. \/ \E id \in DOMAIN pads, b \in Buttons : PadDown(id, b) \/ PadUp(id, b)
        \/ \E id \in DOMAIN pads, x \in Axes, v \in Positions : AxisMotion(id, x, v)
        \/ \E g \in Guids : AddController(g)
        \/ \E id \in DOMAIN pads : RemoveController(id)
    BY <1>2 DEF PadNext
  <2>2. QED
    BY <2>1, PadDownKeeps, PadUpKeeps, AxisMotionKeeps, AddControllerKeeps, RemoveControllerKeeps
<1>3. CASE \E r \in Rebinds[plays] : Rebind(r.target, r.binding)
  BY <1>3, RebindKeeps
<1>4. CASE \E p \in Ports, d \in Devices : SelectDevice(p, d)
  BY <1>4, SelectDeviceKeeps
<1>5. CASE LoadCore
  BY <1>5, LoadCoreKeeps
<1>6. CASE UNCHANGED vars
  <2>1. UNCHANGED <<bindings, bindingMap, axesHeld, gameFocus, slot, pads, guids, nextId, joy, device,
                    keys, fast, turbo, plays, mod, held, position, excused, upsets, twins>>
    BY <1>6 DEF vars, bindVars, inputVars, userVars
  <2>2. TypesInv'
    <3>1. Sources' = Sources /\ Handlers' = Handlers
      BY <2>1 DEF Sources, Handlers
    <3>2. QED  BY <2>1, <3>1 DEF Inv, TypesInv, Machine
  <2>3. PadsInv'
    BY <2>1, SamePads DEF Inv
  <2>4. HeldInv'
    <3>1. \A o \in DOMAIN held' : Steady(held[o].thing)' => Steady(held[o].thing)
      BY <2>1 DEF Steady, Lasting, ByButton
    <3>2. QED  BY <2>1, <3>1, HeldAgain DEF Inv, InputInv
  <2>5. ASSUME NEW i
        PROVE  /\ (Settled(i)' <=> Settled(i)) /\ (IsHeld(i)' <=> IsHeld(i))
               /\ (Pressed(i)' <=> Pressed(i)) /\ Stands(i)' = Stands(i)
    BY <2>1 DEF Settled, ByButton, IsHeld, Holders, Pressed, PressedIn, Stands, StandsIn, Handlers
  <2>6. ASSUME NEW i \in TargetIds
        PROVE  TargetRight(i)'
    <3>1. TargetRight(i)
      BY DEF Inv, InputInv
    <3>2. SpeedRight(i)'
      BY <2>1, <2>5, <3>1, SpeedAgain
    <3>3. \A p \in DOMAIN pads' : Led(i, p)' => Led(i, p)
      BY <2>1, LedAgain DEF BindingId
    <3>4. AxisRight(i)'
      BY <2>1, <2>5, <3>1, <3>3, AxisAgain
    <3>5. QED  BY <2>1, <2>5, <3>1, <3>2, <3>4, RightAgain
  <2>7. \A k \in Keys : KeyRight(k)'
    BY <2>1, <2>5 DEF Inv, InputInv, KeyRight
  <2>8. QED  BY <2>2, <2>3, <2>4, <2>6, <2>7 DEF Inv, InputInv
<1>7. QED  BY <1>1, <1>2, <1>3, <1>4, <1>5, <1>6 DEF Next

(* The invariant holds of every run.                                         *)
LEMMA InvAlways == Spec => []Inv
BY InitIsRight, StepKeeps, PTL DEF Spec

(* A pad that is plugged in again answers to the bindings it had.            *)
THEOREM PadsKeepTheirBindings == Spec => []PadKeepsItsBindings
<1>1. Inv => PadKeepsItsBindings
  BY DEF Inv, PadsInv
<1>2. QED  BY <1>1, InvAlways, PTL

(* What the core is told of buttons, keys and sticks is what is held.        *)
THEOREM InputAlwaysFollows == Spec => []InputFollows
<1>1. Inv => InputFollows
  BY InputIsRight DEF Inv
<1>2. QED  BY <1>1, InvAlways, PTL

(* Once the hold key is released the game runs at the speed the menu shows.  *)
THEOREM SpeedAlwaysFollows == Spec => []SpeedFollowsMenu
<1>1. Inv => SpeedFollowsMenu
  BY InputIsRight DEF Inv
<1>2. QED  BY <1>1, InvAlways, PTL
=============================================================================
