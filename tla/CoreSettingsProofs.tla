------------------------- MODULE CoreSettingsProofs -------------------------
(* What a user set for a core, for any cores with any options, values,       *)
(* controllers and ports: the core is told of every change that leaving the  *)
(* dialog did not forget, the dialog shows what the core gets, the core has  *)
(* the controllers that are selected, and all of it returns with the core.   *)
EXTENDS CoreSettings, FiniteSetTheorems, SequenceTheorems, TLAPS

(* The variables of options are records; a core that is loaded is a core.    *)
Shape ==
  /\ core \in Cores \cup {NoCore}
  /\ game => core # NoCore
  /\ \A k \in DOMAIN options :
       options[k] = [values |-> options[k].values, hidden |-> options[k].hidden,
                     selected |-> options[k].selected]

(* What the dialog shows of an option.                                       *)
Shows(opts, sel) ==
  \A k \in DOMAIN opts :
    Among(opts[k].values, Got(opts, sel, k)) =>
      opts[k].values[opts[k].selected] = Got(opts, sel, k)

(* What the core knows of the options.                                       *)
Knows == \A k \in DOMAIN view \cap DOMAIN options : view[k] = Get(k) \/ updated

OptionsInv ==
  /\ Shape
  /\ core # NoCore => Shows(options, selections)
  /\ core # NoCore /\ ~dropped => Knows

-----------------------------------------------------------------------------
(* A value that is among others is where it is found.                        *)
LEMMA Found ==
  ASSUME NEW s, NEW v, Among(s, v)
  PROVE  s[IndexOf(s, v)] = v
BY DEF Among, IndexOf

(* What is declared shows what was selected before.                          *)
LEMMA DeclaredShows ==
  ASSUME NEW table, NEW sel
  PROVE  /\ DOMAIN Declared(table, sel) = DOMAIN table
         /\ \A k \in DOMAIN table :
              Declared(table, sel)[k] = [values |-> Declared(table, sel)[k].values,
                                         hidden |-> Declared(table, sel)[k].hidden,
                                         selected |-> Declared(table, sel)[k].selected]
         /\ Shows(Declared(table, sel), sel)
<1> DEFINE d == Declared(table, sel)
<1>1. DOMAIN d = DOMAIN table /\ \A k \in DOMAIN table : d[k] = Variable(k, table[k], sel)
  BY DEF Declared
<1> HIDE DEF d
<1>2. ASSUME NEW k \in DOMAIN table
      PROVE  d[k] = [values |-> d[k].values, hidden |-> d[k].hidden, selected |-> d[k].selected]
  BY <1>1 DEF Variable
<1>3. ASSUME NEW k \in DOMAIN d, Among(d[k].values, Got(d, sel, k))
      PROVE  d[k].values[d[k].selected] = Got(d, sel, k)
  <2>1. CASE k \in DOMAIN sel
    <3>1. Got(d, sel, k) = sel[k] /\ d[k].values = table[k].values
      BY <1>1, <2>1 DEF Got, Variable
    <3>2. d[k].selected = IndexOf(table[k].values, sel[k])
      BY <1>1, <1>3, <2>1, <3>1 DEF Variable
    <3>3. QED  BY <1>3, <3>1, <3>2, Found
  <2>2. CASE k \notin DOMAIN sel
    BY <2>2 DEF Got
  <2>3. QED  BY <2>1, <2>2
<1>4. Shows(d, sel)  BY <1>3 DEF Shows
<1>5. QED  BY <1>1, <1>2, <1>4 DEF d

(* What is read from a file is shown, too.                                   *)
LEMMA ReselectedShows ==
  ASSUME NEW opts, NEW sel,
         \A k \in DOMAIN opts :
           opts[k] = [values |-> opts[k].values, hidden |-> opts[k].hidden,
                      selected |-> opts[k].selected]
  PROVE  /\ DOMAIN Reselected(opts, sel) = DOMAIN opts
         /\ \A k \in DOMAIN opts :
              Reselected(opts, sel)[k] = [values |-> Reselected(opts, sel)[k].values,
                                          hidden |-> Reselected(opts, sel)[k].hidden,
                                          selected |-> Reselected(opts, sel)[k].selected]
         /\ Shows(Reselected(opts, sel), sel)
<1> DEFINE d == Reselected(opts, sel)
<1>1. /\ DOMAIN d = DOMAIN opts
      /\ \A k \in DOMAIN opts :
           d[k] = IF k \in DOMAIN sel /\ Among(opts[k].values, sel[k])
                    THEN [opts[k] EXCEPT !.selected = IndexOf(opts[k].values, sel[k])]
                    ELSE opts[k]
  BY DEF Reselected
<1> HIDE DEF d
<1>2. ASSUME NEW k \in DOMAIN opts
      PROVE  /\ d[k] = [values |-> d[k].values, hidden |-> d[k].hidden, selected |-> d[k].selected]
             /\ d[k].values = opts[k].values
             /\ k \in DOMAIN sel /\ Among(opts[k].values, sel[k]) =>
                  d[k].selected = IndexOf(opts[k].values, sel[k])
  <2>1. opts[k] = [values |-> opts[k].values, hidden |-> opts[k].hidden,
                   selected |-> opts[k].selected]
    OBVIOUS
  <2>2. QED  BY <1>1, <2>1
<1>3. ASSUME NEW k \in DOMAIN d, Among(d[k].values, Got(d, sel, k))
      PROVE  d[k].values[d[k].selected] = Got(d, sel, k)
  <2>1. CASE k \in DOMAIN sel
    <3>1. Got(d, sel, k) = sel[k] /\ k \in DOMAIN opts
      BY <1>1, <2>1 DEF Got
    <3>2. d[k].values = opts[k].values /\ d[k].selected = IndexOf(opts[k].values, sel[k])
      BY <1>2, <1>3, <2>1, <3>1
    <3>3. QED  BY <1>3, <3>1, <3>2, Found
  <2>2. CASE k \notin DOMAIN sel
    BY <2>2 DEF Got
  <2>3. QED  BY <2>1, <2>2
<1>4. Shows(d, sel)  BY <1>3 DEF Shows
<1>5. QED  BY <1>1, <1>2, <1>4 DEF d

(* What OK writes back is shown.                                             *)
LEMMA AcceptKeeps ==
  ASSUME OptionsInv, NEW chosen, NEW ports, Accept(chosen, ports)
  PROVE  OptionsInv'
<1> DEFINE dialog == {k \in DOMAIN options : ~options[k].hidden}
<1>1. /\ core # NoCore /\ UNCHANGED <<core, game, view, dropped>> /\ updated' = TRUE
      /\ DOMAIN options' = DOMAIN options
      /\ \A k \in DOMAIN options :
           options'[k] = IF k \in dialog THEN [options[k] EXCEPT !.selected = chosen[k]]
                                         ELSE options[k]
      /\ selections' = Over(selections, [k \in dialog |-> options[k].values[chosen[k]]])
  BY DEF Accept
<1>2. \A k \in DOMAIN options :
        options[k] = [values |-> options[k].values, hidden |-> options[k].hidden,
                      selected |-> options[k].selected]
  BY DEF OptionsInv, Shape
<1>3. ASSUME NEW k \in DOMAIN options
      PROVE  /\ options'[k] = [values |-> options'[k].values, hidden |-> options'[k].hidden,
                               selected |-> options'[k].selected]
             /\ options'[k].values = options[k].values
             /\ options'[k].selected = IF k \in dialog THEN chosen[k] ELSE options[k].selected
  <2>1. options[k] = [values |-> options[k].values, hidden |-> options[k].hidden,
                      selected |-> options[k].selected]
    BY <1>2
  <2>2. CASE k \in dialog
    <3>1. options'[k] = [options[k] EXCEPT !.selected = chosen[k]]
      BY <1>1, <2>2
    <3>2. QED  BY <2>1, <2>2, <3>1
  <2>3. CASE k \notin dialog
    <3>1. options'[k] = options[k]
      BY <1>1, <2>3
    <3>2. QED  BY <2>1, <2>3, <3>1
  <2>4. QED  BY <2>2, <2>3
<1>4. Shape'
  BY <1>1, <1>3 DEF OptionsInv, Shape
<1> HIDE DEF dialog
<1>5. /\ DOMAIN selections' = DOMAIN selections \cup dialog
      /\ \A k \in dialog : selections'[k] = options[k].values[chosen[k]]
      /\ \A k \in DOMAIN selections \ dialog : selections'[k] = selections[k]
  BY <1>1 DEF Over
<1>6. Shows(options', selections')
  <2> SUFFICES ASSUME NEW k \in DOMAIN options,
                      Among(options'[k].values, Got(options', selections', k))
               PROVE  options'[k].values[options'[k].selected] = Got(options', selections', k)
    BY <1>1 DEF Shows
  <2>1. CASE k \in dialog
    BY <1>3, <1>5, <2>1 DEF Got
  <2>2. CASE k \notin dialog
    <3>1. /\ options'[k].values = options[k].values
          /\ options'[k].selected = options[k].selected
      BY <1>3, <2>2
    <3>2. Got(options', selections', k) = Got(options, selections, k)
      BY <1>5, <2>2, <3>1 DEF Got
    <3>3. QED  BY <1>1, <3>1, <3>2 DEF OptionsInv, Shows
  <2>3. QED  BY <2>1, <2>2
<1>7. Knows'  BY <1>1 DEF Knows
<1>8. QED  BY <1>4, <1>6, <1>7 DEF OptionsInv

(* Every step of the program, as far as options go.                          *)
LEMMA OptionsKeep ==
  ASSUME OptionsInv, Next
  PROVE  OptionsInv'
<1>1. ASSUME NEW c \in Cores, NEW table \in Options[c], LoadCore(c, table)
      PROVE  OptionsInv'
  <2> DEFINE d == Declared(table, Empty)
  <2>1. /\ core' = c /\ c # NoCore /\ game' = game /\ core = NoCore /\ view' = Empty
        /\ selections' = Restored(c) /\ options' = Reselected(d, Restored(c))
    BY <1>1, SettingsAssumption DEF LoadCore
  <2>2. \A k \in DOMAIN d : d[k] = [values |-> d[k].values, hidden |-> d[k].hidden,
                                    selected |-> d[k].selected]
    BY DeclaredShows
  <2> HIDE DEF d
  <2>3. /\ \A k \in DOMAIN options' :
             options'[k] = [values |-> options'[k].values, hidden |-> options'[k].hidden,
                            selected |-> options'[k].selected]
        /\ Shows(options', selections')
    <3>1. LET r == Reselected(d, Restored(c))
          IN /\ \A k \in DOMAIN r : r[k] = [values |-> r[k].values, hidden |-> r[k].hidden,
                                            selected |-> r[k].selected]
             /\ Shows(r, Restored(c))
      BY <2>2, ReselectedShows
    <3>2. QED  BY <2>1, <3>1
  <2>4. Shape'
    BY <2>1, <2>3 DEF OptionsInv, Shape
  <2>5. Knows'
    BY <2>1 DEF Knows, Empty
  <2>6. QED  BY <2>3, <2>4, <2>5 DEF OptionsInv
<1>2. CASE UnloadCore
  BY <1>2 DEF UnloadCore, OptionsInv, Shape
<1>3. CASE Crash
  <2>1. core' = NoCore /\ game' = FALSE /\ options' = Empty
    BY <1>3 DEF Crash
  <2>2. QED  BY <2>1 DEF OptionsInv, Shape, Empty
<1>4. ASSUME UNCHANGED <<core, options, selections, updated, view, dropped>>,
             game' => core # NoCore
      PROVE  OptionsInv'
  BY <1>4 DEF OptionsInv, Shape, Shows, Knows, Got, Get, Among
<1>5. CASE StartGame \/ Frame \/ RemovePad
  <2>1. UNCHANGED <<core, options, selections, updated, view, dropped>>
    BY <1>5 DEF StartGame, Frame, RemovePad, configVars
  <2>2. game' => core # NoCore
    BY <1>5 DEF StartGame, Frame, RemovePad, OptionsInv, Shape
  <2>3. QED  BY <1>4, <2>1, <2>2
<1>6. ASSUME NEW table, SetVariables(table)  PROVE OptionsInv'
  <2>1. /\ UNCHANGED <<core, game, selections>> /\ updated' = TRUE
        /\ options' = Declared(table, selections)
    BY <1>6 DEF SetVariables
  <2>2. Shape' /\ Shows(options', selections')
    BY <2>1, DeclaredShows DEF OptionsInv, Shape
  <2>3. Knows'  BY <2>1 DEF Knows
  <2>4. QED  BY <2>2, <2>3 DEF OptionsInv
<1>7. ASSUME NEW k \in DOMAIN options, NEW visible \in BOOLEAN, SetVariableDisplay(k, visible)
      PROVE  OptionsInv'
  <2>1. /\ UNCHANGED <<core, game, selections, updated, view, dropped>>
        /\ options' = [options EXCEPT ![k].hidden = ~visible]
    BY <1>7 DEF SetVariableDisplay
  <2>2. DOMAIN options' = DOMAIN options
    BY <2>1
  <2>3. ASSUME NEW j \in DOMAIN options
        PROVE  /\ options'[j] = [values |-> options'[j].values, hidden |-> options'[j].hidden,
                                 selected |-> options'[j].selected]
               /\ options'[j].values = options[j].values
               /\ options'[j].selected = options[j].selected
    <3>1. options[j] = [values |-> options[j].values, hidden |-> options[j].hidden,
                        selected |-> options[j].selected]
      BY DEF OptionsInv, Shape
    <3>2. options'[j] = IF j = k THEN [options[j] EXCEPT !.hidden = ~visible] ELSE options[j]
      BY <2>1
    <3>3. QED  BY <3>1, <3>2
  <2>4. \A j \in DOMAIN options : Got(options', selections', j) = Got(options, selections, j)
    BY <2>1, <2>3 DEF Got
  <2>5. Shape'
    BY <2>1, <2>2, <2>3 DEF OptionsInv, Shape
  <2>6. core # NoCore => Shows(options', selections')
    BY <2>2, <2>3, <2>4 DEF OptionsInv, Shows
  <2>7. core # NoCore /\ ~dropped => Knows'
    BY <2>1, <2>2, <2>4 DEF OptionsInv, Knows, Get
  <2>8. QED  BY <2>1, <2>5, <2>6, <2>7 DEF OptionsInv
<1>8. ASSUME NEW k \in DOMAIN options, GetVariable(k)  PROVE OptionsInv'
  <2>1. /\ UNCHANGED <<core, game, options, selections, updated, dropped>>
        /\ view' = Put(view, k, Get(k))
    BY <1>8 DEF GetVariable, configVars
  <2>2. core # NoCore /\ ~dropped => Knows'
    <3>1. \A j \in DOMAIN view' : view'[j] = IF j = k THEN Get(k) ELSE view[j]
      BY <2>1 DEF Put
    <3>2. \A j \in DOMAIN view' : j = k \/ j \in DOMAIN view
      BY <2>1 DEF Put
    <3>3. QED  BY <2>1, <3>1, <3>2 DEF OptionsInv, Knows, Get, Got
  <2>3. Shape' /\ (core # NoCore => Shows(options', selections'))
    BY <2>1 DEF OptionsInv, Shape, Shows, Got, Among
  <2>4. QED  BY <2>1, <2>2, <2>3 DEF OptionsInv
<1>9. CASE GetVariableUpdate
  <2>1. /\ UNCHANGED <<core, game, options, selections>> /\ updated' = FALSE
        /\ view' = IF updated THEN [k \in DOMAIN options |-> Get(k)] ELSE view
        /\ dropped' = (dropped /\ ~updated)
    BY <1>9 DEF GetVariableUpdate
  <2>2. core # NoCore /\ ~dropped' => Knows'
    BY <2>1 DEF OptionsInv, Knows, Get, Got
  <2>3. Shape' /\ (core # NoCore => Shows(options', selections'))
    BY <2>1 DEF OptionsInv, Shape, Shows, Got, Among
  <2>4. QED  BY <2>1, <2>2, <2>3 DEF OptionsInv
<1>10. CASE LeaveDialog \/ RefuseDialog
  <2>1. /\ UNCHANGED <<core, game, options, selections, view>>
        /\ \/ updated' = FALSE /\ dropped' = (dropped \/ updated)
           \/ updated' = TRUE
    BY <1>10 DEF LeaveDialog, RefuseDialog
  <2>2. core # NoCore /\ ~dropped' => Knows'
    BY <2>1 DEF OptionsInv, Knows, Get, Got
  <2>3. Shape' /\ (core # NoCore => Shows(options', selections'))
    BY <2>1 DEF OptionsInv, Shape, Shows, Got, Among
  <2>4. QED  BY <2>1, <2>2, <2>3 DEF OptionsInv
<1>11. ASSUME NEW k, NEW i, ChangeOption(k, i)  PROVE OptionsInv'
  BY <1>11, AcceptKeeps DEF ChangeOption
<1>12. ASSUME NEW p, NEW i, ChangeDevice(p, i)  PROVE OptionsInv'
  BY <1>12, AcceptKeeps DEF ChangeDevice
<1>13. QED
  BY <1>1, <1>2, <1>3, <1>5, <1>6, <1>7, <1>8, <1>9, <1>10, <1>11, <1>12 DEF Next

(* Nothing is selected, known or pending before the first core.              *)
LEMMA OptionsAlways == Spec => []OptionsInv
<1>1. Init => OptionsInv
  BY DEF Init, OptionsInv, Shape, Empty
<1>2. OptionsInv /\ [Next]_vars => OptionsInv'
  <2>1. OptionsInv /\ UNCHANGED vars => OptionsInv'
    BY DEF OptionsInv, Shape, Shows, Knows, Got, Get, Among, vars, configVars
  <2>2. QED  BY <2>1, OptionsKeep
<1>3. QED  BY <1>1, <1>2, PTL DEF Spec

(* The next GET_VARIABLE_UPDATE tells the core of every change since it last *)
(* asked, unless leaving the dialog forgot one, whatever it declares, asks   *)
(* and hides and the user selects meanwhile.                                 *)
THEOREM ChangesAreAlwaysTold == Spec => []ChangesAreTold
<1>1. OptionsInv => ChangesAreTold
  BY DEF OptionsInv, Knows, ChangesAreTold, EveryChangeIsTold
<1>2. QED  BY <1>1, OptionsAlways, PTL

(* What the dialog shows for an option is what the core gets when it asks,   *)
(* through options declared anew with other values.                          *)
THEOREM DialogShowsIt == Spec => []DialogShowsWhatCoreGets
<1>1. OptionsInv => DialogShowsWhatCoreGets
  BY DEF OptionsInv, Shows, DialogShowsWhatCoreGets, Get
<1>2. QED  BY <1>1, OptionsAlways, PTL

-----------------------------------------------------------------------------
(* The id of the controller in each declared port, and the devices a core    *)
(* that declares them early finds.                                           *)
Selects(c, dev) == \A p \in Ports : dev[p] + 1 \in DOMAIN Listed(Layouts[c])[p]

ControlsInv ==
  /\ core \in Cores \cup {NoCore}
  /\ core # NoCore /\ core \in EarlyCores =>
       /\ info = Listed(Layouts[core])
       /\ DOMAIN devices = Ports
       /\ Selects(core, devices)
       /\ ~ctrlUpdated => \A p \in DOMAIN told \cap Ports : {told[p]} = Controller(p)
  /\ \A c \in DOMAIN file : c \in Cores \cap EarlyCores =>
       file[c].devices[FirstPort] + 1 \in DOMAIN Listed(Layouts[c])[FirstPort]

(* The first port is the port 0.                                             *)
LEMMA FirstIsPort == FirstPort \in Ports
<1>1. 0 \in Ports /\ \A q \in Ports : 0 <= q
  BY SettingsAssumption
<1>2. QED  BY <1>1 DEF FirstPort

(* What a port can hold starts with None and RetroPad.                       *)
LEMMA ListedHasBoth ==
  ASSUME NEW c \in Cores, NEW p \in Ports
  PROVE  \E n \in Nat : n >= 2 /\ DOMAIN Listed(Layouts[c])[p] = 1..n
<1> DEFINE more == IF p \in DOMAIN Layouts[c] THEN Others(Layouts[c][p]) ELSE <<>>
<1>1. \E n \in Nat : DOMAIN more = 1..n /\ more \in Seq({more[i] : i \in 1..n})
  <2>1. CASE p \in DOMAIN Layouts[c]
    <3> DEFINE ids == Layouts[c][p]
               other == {i \in DOMAIN ids : ids[i] # JOYPAD}
    <3>1. ids \in Seq(Nat)
      BY <2>1, SettingsAssumption
    <3>2. Cardinality(other) \in Nat
      <4>1. IsFiniteSet(DOMAIN ids)
        BY <3>1, FS_Interval
      <4>2. QED  BY <4>1, FS_Subset, FS_CardinalityType
    <3> DEFINE n == Cardinality(other)
    <3>3. \E f : more = [i \in 1..n |-> f[i]]
      <4> DEFINE Nth(k) == CHOOSE i \in other : Cardinality({j \in other : j <= i}) = k
      <4>1. more = [k \in 1..n |-> ids[Nth(k)]]
        BY <2>1 DEF Others
      <4>2. more = [k \in 1..n |-> more[k]]
        BY <4>1
      <4>3. QED  BY <4>2
    <3> HIDE DEF n, more
    <3>4. DOMAIN more = 1..n /\ more = [i \in 1..n |-> more[i]]
      BY <3>3
    <3>5. more \in [1..n -> {more[i] : i \in 1..n}]
      BY <3>4
    <3>6. n \in Nat  BY <3>2 DEF n
    <3>7. more \in Seq({more[i] : i \in 1..n})
      BY <3>5, <3>6
    <3>8. QED  BY <3>4, <3>6, <3>7
  <2>2. CASE p \notin DOMAIN Layouts[c]
    <3>1. more = <<>>  BY <2>2
    <3> HIDE DEF more
    <3>2. DOMAIN more = 1..0 /\ more \in Seq({more[i] : i \in 1..0})
      BY <3>1
    <3>3. QED  BY <3>2
  <2>3. QED  BY <2>1, <2>2
<1> HIDE DEF more
<1>2. Listed(Layouts[c])[p] = <<NONE, JOYPAD>> \o more
  BY DEF Listed, more
<1>3. PICK n \in Nat : DOMAIN more = 1..n /\ more \in Seq({more[i] : i \in 1..n})
  BY <1>1
<1>4. Len(more) = n
  BY <1>3
<1> DEFINE S == {more[i] : i \in 1..n} \cup {NONE, JOYPAD}
<1>5. more \in Seq(S) /\ <<NONE, JOYPAD>> \in Seq(S)
  <2>1. more \in Seq(S)
    BY <1>3
  <2>2. NONE \in S /\ JOYPAD \in S
    OBVIOUS
  <2> HIDE DEF S
  <2>3. QED  BY <2>1, <2>2
<1> HIDE DEF S
<1>6. DOMAIN (<<NONE, JOYPAD>> \o more) = 1..(2 + n)
  <2>1. Len(<<NONE, JOYPAD>> \o more) = Len(<<NONE, JOYPAD>>) + Len(more)
        /\ <<NONE, JOYPAD>> \o more \in Seq(S)
    BY <1>5
  <2>2. Len(<<NONE, JOYPAD>>) = 2
    OBVIOUS
  <2>3. QED  BY <1>4, <2>1, <2>2
<1>7. 2 + n \in Nat /\ 2 + n >= 2
  OBVIOUS
<1>8. QED  BY <1>2, <1>6, <1>7

(* None and RetroPad are there, and places in the list are numbers.          *)
LEMMA ListedPlaces ==
  ASSUME NEW c \in Cores, NEW p \in Ports
  PROVE  /\ 0 + 1 \in DOMAIN Listed(Layouts[c])[p]
         /\ 1 + 1 \in DOMAIN Listed(Layouts[c])[p]
         /\ \A i \in DOMAIN Listed(Layouts[c])[p] : i \in Nat /\ (i - 1) + 1 = i
<1>1. PICK n \in Nat : n >= 2 /\ DOMAIN Listed(Layouts[c])[p] = 1..n
  BY ListedHasBoth
<1>2. QED  BY <1>1

(* OK in the dialog leaves every port with a device it can hold.             *)
LEMMA AcceptSelects ==
  ASSUME ControlsInv, NEW chosen, NEW ports, Accept(chosen, ports),
         core \in EarlyCores => DOMAIN ports = Ports /\ Selects(core, ports)
  PROVE  ControlsInv'
BY DEF Accept, ControlsInv

(* Every step of the program, as far as controllers go.                      *)
LEMMA ControlsKeep ==
  ASSUME ControlsInv, Next
  PROVE  ControlsInv'
<1> USE SettingsAssumption
<1>1. ASSUME NEW c \in Cores, NEW table \in Options[c], LoadCore(c, table)
      PROVE  ControlsInv'
  <2>1. /\ core' = c /\ file' = file
        /\ devices' = [p \in Ports |-> IF p = FirstPort /\ c \in DOMAIN file
                                         THEN file[c].devices[p] ELSE 0]
        /\ c \in EarlyCores => info' = Listed(Layouts[c]) /\ ctrlUpdated' = TRUE
    BY <1>1 DEF LoadCore
  <2>2. c \in EarlyCores => Selects(c, devices')
    <3> SUFFICES ASSUME c \in EarlyCores, NEW p \in Ports
                 PROVE  devices'[p] + 1 \in DOMAIN Listed(Layouts[c])[p]
      BY DEF Selects
    <3>1. CASE p = FirstPort /\ c \in DOMAIN file
      BY <2>1, <3>1 DEF ControlsInv
    <3>2. CASE ~(p = FirstPort /\ c \in DOMAIN file)
      <4>1. devices'[p] = 0
        BY <2>1, <3>2
      <4>2. QED  BY <4>1, ListedPlaces
    <3>3. QED  BY <3>1, <3>2
  <2>3. QED  BY <2>1, <2>2 DEF ControlsInv
<1>2. CASE UnloadCore
  <2>1. /\ core # NoCore /\ core' = NoCore
        /\ file' = Put(file, core, [selections |-> Serialized, devices |-> devices])
    BY <1>2 DEF UnloadCore
  <2>2. ASSUME NEW c \in DOMAIN file', c \in Cores \cap EarlyCores
        PROVE  file'[c].devices[FirstPort] + 1 \in DOMAIN Listed(Layouts[c])[FirstPort]
    <3>1. CASE c = core
      <4>1. file'[c].devices = devices
        BY <2>1, <3>1 DEF Put
      <4>2. QED  BY <2>1, <2>2, <3>1, <4>1, FirstIsPort DEF ControlsInv, Selects
    <3>2. CASE c # core
      <4>1. c \in DOMAIN file /\ file'[c] = file[c]
        BY <2>1, <3>2 DEF Put
      <4>2. QED  BY <2>2, <4>1 DEF ControlsInv
    <3>3. QED  BY <3>1, <3>2
  <2>3. QED  BY <2>1, <2>2 DEF ControlsInv
<1>3. CASE Crash
  BY <1>3 DEF Crash, ControlsInv
<1>4. CASE StartGame
  <2>1. /\ core # NoCore /\ UNCHANGED <<core, file>>
        /\ core \in EarlyCores =>
             /\ UNCHANGED <<info, told>>
             /\ devices' = [p \in Ports |-> IF p \in portMask' /\ devices[p] = 0 THEN 1
                                            ELSE devices[p]]
             /\ ctrlUpdated' = (ctrlUpdated \/ portMask' # {})
    BY <1>4 DEF StartGame
  <2>2. ASSUME core \in EarlyCores
        PROVE  /\ DOMAIN devices' = Ports
               /\ Selects(core, devices')
               /\ ~ctrlUpdated' => devices' = devices /\ ctrlUpdated = FALSE
    <3>1. Selects(core, devices) /\ core \in Cores /\ DOMAIN devices = Ports
      BY <2>1, <2>2 DEF ControlsInv
    <3>2. ASSUME NEW p \in Ports
          PROVE  devices'[p] + 1 \in DOMAIN Listed(Layouts[core])[p]
      <4>1. devices'[p] = 1 \/ devices'[p] = devices[p]
        BY <2>1, <2>2
      <4>2. devices[p] + 1 \in DOMAIN Listed(Layouts[core])[p]
        BY <3>1 DEF Selects
      <4>3. QED  BY <3>1, <4>1, <4>2, ListedPlaces
    <3>3. ASSUME ~ctrlUpdated'
          PROVE  devices' = devices /\ ctrlUpdated = FALSE
      <4>1. portMask' = {}
        BY <2>1, <2>2, <3>3
      <4>2. devices' = [p \in Ports |-> devices[p]]
        BY <2>1, <2>2, <4>1
      <4>3. QED  BY <2>1, <2>2, <3>1, <3>3, <4>2
    <3>4. QED  BY <2>1, <2>2, <3>2, <3>3 DEF Selects
  <2>3. QED  BY <2>1, <2>2 DEF ControlsInv, Controller, InRange
<1>5. CASE Frame
  <2>1. /\ UNCHANGED <<core, file, info, devices>>
        /\ \A p \in DOMAIN told' : told'[p] \in Controller(p)
    BY <1>5 DEF Frame
  <2>2. ASSUME core # NoCore, core \in EarlyCores, NEW p \in DOMAIN told' \cap Ports
        PROVE  {told'[p]} = Controller(p)
    BY <2>1, <2>2 DEF ControlsInv, Selects, Controller, InRange
  <2>3. QED  BY <2>1, <2>2 DEF ControlsInv, Controller, InRange
<1>6. CASE RemovePad
  BY <1>6 DEF RemovePad, ControlsInv
<1>7. ASSUME UNCHANGED <<core, file, inputVars>>
      PROVE  ControlsInv'
  BY <1>7 DEF ControlsInv, inputVars, Controller, InRange
<1>8. ASSUME NEW k \in DOMAIN options, NEW i, ChangeOption(k, i)  PROVE ControlsInv'
  <2>1. core # NoCore /\ core \in EarlyCores => DOMAIN OnPorts = Ports /\ Selects(core, OnPorts)
    BY DEF ControlsInv, OnPorts, InRange, Selects
  <2> DEFINE chosen == [Chosen EXCEPT ![k] = i]
  <2>2. Accept(chosen, OnPorts) /\ core # NoCore
    BY <1>8 DEF ChangeOption, Accept
  <2> HIDE DEF chosen
  <2>3. QED  BY <2>1, <2>2, AcceptSelects
<1>9. ASSUME NEW q \in Ports, NEW i \in DOMAIN info[q], ChangeDevice(q, i - 1)
      PROVE  ControlsInv'
  <2> DEFINE ports == [OnPorts EXCEPT ![q] = i - 1]
  <2>1. Accept(Chosen, ports) /\ core # NoCore
    BY <1>9 DEF ChangeDevice, Accept
  <2>2. ASSUME core \in EarlyCores
        PROVE  DOMAIN ports = Ports /\ Selects(core, ports)
    <3>1. info = Listed(Layouts[core]) /\ Selects(core, devices) /\ core \in Cores
      BY <2>1, <2>2 DEF ControlsInv
    <3>2. i - 1 + 1 \in DOMAIN Listed(Layouts[core])[q]
      BY <1>9, <3>1, ListedPlaces
    <3>3. \A p \in Ports : OnPorts[p] = devices[p]
      BY <3>1 DEF OnPorts, InRange, Selects
    <3>4. \A p \in Ports : ports[p] = IF p = q THEN i - 1 ELSE devices[p]
      BY <3>3 DEF OnPorts
    <3>5. QED  BY <3>1, <3>2, <3>4 DEF Selects, OnPorts
  <2> HIDE DEF ports
  <2>3. QED  BY <2>1, <2>2, AcceptSelects
<1>10. QED
  <2>1. CASE \/ \E table \in Options[core] : SetVariables(table)
             \/ \E k \in DOMAIN options, visible \in BOOLEAN : SetVariableDisplay(k, visible)
             \/ \E k \in DOMAIN options : GetVariable(k)
             \/ GetVariableUpdate \/ LeaveDialog \/ RefuseDialog
    <3>1. UNCHANGED <<core, file, inputVars>>
      BY <2>1 DEF SetVariables, SetVariableDisplay, GetVariable, GetVariableUpdate,
                  LeaveDialog, RefuseDialog
    <3>2. QED  BY <1>7, <3>1
  <2>2. QED  BY <1>1, <1>2, <1>3, <1>4, <1>5, <1>6, <1>8, <1>9, <2>1 DEF Next

(* No core is loaded and none has a file before the first.                   *)
LEMMA ControlsAlways == Spec => []ControlsInv
<1>1. Init => ControlsInv
  BY DEF Init, ControlsInv, Empty
<1>2. ControlsInv /\ [Next]_vars => ControlsInv'
  <2>1. ControlsInv /\ UNCHANGED vars => ControlsInv'
    BY DEF ControlsInv, vars, inputVars, Controller, InRange
  <2>2. QED  BY <2>1, ControlsKeep
<1>3. QED  BY <1>1, <1>2, PTL DEF Spec

(* A core that declares its controllers early always has one it can hold     *)
(* selected in each port, and was given it or will be before the next frame: *)
(* through games, files, the dialog, pads that go away and ends without      *)
(* unloading.                                                                *)
THEOREM ItHasTheController == Spec => []CoreHasSelectedController
<1>1. ControlsInv => CoreHasSelectedController
  BY DEF ControlsInv, Selects, CoreHasSelectedController, InRange
<1>2. QED  BY <1>1, ControlsAlways, PTL

-----------------------------------------------------------------------------
(* The file of a core holds what it got when it was unloaded.                *)
Returns(c) ==
  /\ c \in DOMAIN file =>
       /\ \A k \in DOMAIN last[c].got : /\ k \in DOMAIN file[c].selections
                                        /\ file[c].selections[k] = last[c].got[k]
       /\ last[c].device = file[c].devices[FirstPort]
  /\ c \notin DOMAIN file => DOMAIN last[c].got = {} /\ last[c].device = 0

SavedInv ==
  /\ core \in Cores \cup {NoCore}
  /\ DOMAIN last = Cores
  /\ \A c \in Cores : Returns(c)

(* Unloading a core writes what it would get.                                *)
LEMMA UnloadSaves ==
  ASSUME SavedInv, UnloadCore
  PROVE  SavedInv'
<1>1. /\ core # NoCore /\ core' = NoCore
      /\ file' = Put(file, core, [selections |-> Serialized, devices |-> devices])
      /\ last' = [last EXCEPT ![core] = [got |-> [k \in DOMAIN options |-> Get(k)],
                                         device |-> devices[FirstPort]]]
  BY DEF UnloadCore
<1>2. core \in Cores /\ DOMAIN last = Cores
  BY <1>1 DEF SavedInv
<1>3. \A k \in DOMAIN options : k \in DOMAIN Serialized /\ Serialized[k] = Get(k)
  BY DEF Serialized, Over, Get, Got
<1>4. ASSUME NEW c \in Cores  PROVE Returns(c)'
  <2>1. CASE c = core
    <3>1. c \in DOMAIN file' /\ file'[c] = [selections |-> Serialized, devices |-> devices]
      BY <1>1, <2>1 DEF Put
    <3>2. last'[c] = [got |-> [k \in DOMAIN options |-> Get(k)], device |-> devices[FirstPort]]
      BY <1>1, <1>2, <2>1
    <3>3. /\ DOMAIN last'[c].got = DOMAIN options
          /\ \A k \in DOMAIN options : last'[c].got[k] = Get(k)
          /\ last'[c].device = devices[FirstPort]
      BY <3>2
    <3>4. file'[c].selections = Serialized /\ file'[c].devices = devices
      BY <3>1
    <3>5. QED  BY <1>3, <3>1, <3>3, <3>4 DEF Returns
  <2>2. CASE c # core
    <3>1. /\ c \in DOMAIN file' <=> c \in DOMAIN file
          /\ c \in DOMAIN file => file'[c] = file[c]
          /\ last'[c] = last[c]
      BY <1>1, <1>2, <2>2 DEF Put
    <3>2. QED  BY <3>1 DEF SavedInv, Returns
  <2>3. QED  BY <2>1, <2>2
<1>5. QED  BY <1>1, <1>2, <1>4 DEF SavedInv

(* Nothing else writes a file.                                               *)
LEMMA SavedKeep ==
  ASSUME SavedInv, Next
  PROVE  SavedInv'
<1>1. CASE UnloadCore
  BY <1>1, UnloadSaves
<1>2. CASE ~UnloadCore
  <2>1. UNCHANGED <<file, last>> /\ core' \in Cores \cup {NoCore, core}
    BY <1>2 DEF Next, LoadCore, Crash, StartGame, Frame, RemovePad, SetVariables,
                SetVariableDisplay, GetVariable, GetVariableUpdate, LeaveDialog,
                RefuseDialog, ChangeOption, ChangeDevice, Accept
  <2>2. QED  BY <2>1 DEF SavedInv, Returns
<1>3. QED  BY <1>1, <1>2

(* No core has a file yet.                                                   *)
LEMMA SavedAlways == Spec => []SavedInv
<1>1. Init => SavedInv
  BY DEF Init, SavedInv, Returns, Empty
<1>2. SavedInv /\ [Next]_vars => SavedInv'
  <2>1. SavedInv /\ UNCHANGED vars => SavedInv'
    BY DEF SavedInv, Returns, vars
  <2>2. QED  BY <2>1, SavedKeep
<1>3. QED  BY <1>1, <1>2, PTL DEF Spec

(* A core that is loaded again gets what it got when it was unloaded and its *)
(* first controller is where it was, whatever cores, dialogs and ends        *)
(* without unloading came in between.                                        *)
THEOREM SettingsAlwaysReturn == Spec => SettingsReturn
<1>1. SavedInv /\ [Next]_vars =>
        (core = NoCore /\ core' # NoCore =>
           /\ \A k \in DOMAIN options' : k \in DOMAIN last[core'].got =>
                Got(options', selections', k) = last[core'].got[k]
           /\ devices'[FirstPort] = last[core'].device)
  <2> SUFFICES ASSUME SavedInv, [Next]_vars, core = NoCore, core' # NoCore
               PROVE  /\ \A k \in DOMAIN options' : k \in DOMAIN last[core'].got =>
                           Got(options', selections', k) = last[core'].got[k]
                      /\ devices'[FirstPort] = last[core'].device
    OBVIOUS
  <2>1. PICK c \in Cores : \E table \in Options[c] : LoadCore(c, table)
    BY DEF Next, vars, UnloadCore, Crash, StartGame, Frame, RemovePad, SetVariables,
           SetVariableDisplay, GetVariable, GetVariableUpdate, LeaveDialog,
           RefuseDialog, ChangeOption, ChangeDevice, Accept
  <2>2. /\ core' = c /\ selections' = Restored(c)
        /\ devices' = [p \in Ports |-> IF p = FirstPort /\ c \in DOMAIN file
                                         THEN file[c].devices[p] ELSE 0]
    BY <2>1 DEF LoadCore
  <2>3. Returns(c)  BY DEF SavedInv
  <2>4. ASSUME NEW k \in DOMAIN last[c].got
        PROVE  Got(options', selections', k) = last[c].got[k]
    BY <2>2, <2>3, <2>4 DEF Returns, Restored, Got
  <2>5. devices'[FirstPort] = last[c].device
    BY <2>2, <2>3, FirstIsPort DEF Returns
  <2>6. QED  BY <2>2, <2>4, <2>5
<1>2. QED  BY <1>1, SavedAlways, PTL DEF Spec, SettingsReturn
=============================================================================
