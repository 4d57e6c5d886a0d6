---------------------------- MODULE Configuration ----------------------------
(* What the program remembers: the settings file (RALibretro.json) written   *)
(* when it ends and read when it starts, and the file a controller's         *)
(* bindings are exported to and imported from.  Bindings are written as text *)
(* and read back from it; a text is a sequence of its words.                 *)
EXTENDS Integers, Sequences, FiniteSets, SequencesExt

CONSTANTS
  Names,        \* KeyBinds.cpp bindingNames, as [port, what], in the list's order
  PerPort,      \* kJoy1Up - kJoy0Up: how many of them a controller has
  Ports,        \* how many controllers there are, 4 in the code
  Pressed,      \* what the user can press: bindings as captured from SDL
  Buttons, Axes, Keys,  \* external: what SDL has a name for
  OldFiles,     \* settings files of earlier versions
  Ratios, Windows,      \* what the user picks from
  MaxChanges,   \* bound on what is changed in the sessions
  MaxSessions,  \* bound on the starts of the program
  None

VARIABLES
  session,      \* "off", "fresh" right after a start, "on"
  bindings,     \* KeyBinds::_bindings
  dialog,       \* InputDialog: its copy of the bindings and its first one; or None
  settings,     \* Config, States and Video: ratio, interval, path
  window,       \* the SDL window: its size, and the rotation and whether it is full screen
  config,       \* the settings file, or None
  exported,     \* an exported controller, or None
  before,       \* for the properties: what the program was when it last wrote its settings
  count         \* how much was changed and how often the program was started

vars == <<session, bindings, dialog, settings, window, config, exported, before, count>>

Ids       == 1..Len(Names)
Unbound   == [type |-> "none", pad |-> 0, code |-> "", mods |-> {}]
(* Two bindings that react to the same events: keys belong to no pad, and    *)
(* what is not bound reacts to none.                                         *)
Same(b, c) ==
  /\ b.type = c.type
  /\ b.type # "none" => b.code = c.code /\ b.mods = c.mods
  /\ b.type \in {"button", "axis"} => b.pad = c.pad

-----------------------------------------------------------------------------
(* KeyBinds::getBindingString.  An axis goes one way, "-" or "+", or is whole *)
(* and has no sign; a key has its modifiers in front.                        *)
Digit(d)   == <<"0", "1", "2", "3", "4", "5", "6", "7", "8", "9">>[d + 1]
AllDigits  == {Digit(d) : d \in 0..9}
Digits(n)  == IF n < 10 THEN <<Digit(n)>> ELSE <<Digit(n \div 10), Digit(n % 10)>>
Modifiers  == {"Ctrl+", "Alt+", "Shift+"}
Signs      == {"-", "+"}
(* What a binding can be; what SDL has no name for is called "".             *)
Codes == Buttons \cup Axes \cup Keys \cup {""}
Bindings ==
  {b \in [type: {"none", "key", "button", "axis"}, pad: Int, code: Codes,
          mods: SUBSET (Modifiers \cup Signs)] :
     /\ b.type = "key"    => b.mods \subseteq Modifiers
     /\ b.type = "button" => b.pad \in 0..99 /\ b.code \in Buttons /\ b.mods = {}
     /\ b.type = "axis"   => b.pad \in 0..99 /\ b.code \in Axes /\ b.mods \in {{}, {"-"}, {"+"}}}

NothingBound  == <<"none">>
Said(m, mods) == IF m \in mods THEN <<m>> ELSE <<>>
Spoken(mods)  == Said("Ctrl+", mods) \o Said("Alt+", mods) \o Said("Shift+", mods)
BindingString(b) ==
  CASE b.type = "none" -> NothingBound
    [] b.type = "key"  -> Spoken(b.mods) \o <<b.code>>
    [] OTHER           -> <<"J">> \o Digits(b.pad) \o <<" ">>
                            \o Said("-", b.mods) \o Said("+", b.mods) \o <<b.code>>

(* parseBindingString: the number of a pad is one digit, and what follows it *)
(* is skipped; a binding whose text makes no sense stays what it was.        *)
IsPad(text)  == text[1] = "J" /\ Len(text) > 1 /\ text[2] \in AllDigits
PadOf(text)  == CHOOSE n \in 0..9 : Digit(n) = text[2]
ParsePad(old, text) ==
  LET sign  == {text[4]} \cap Signs
      words == IF sign = {} THEN 4 ELSE 5
      code  == text[words]
      known == IF sign = {} THEN Buttons \cup Axes ELSE Axes
  IN IF Len(text) = words /\ code \in known
       THEN [type |-> IF code \in Axes THEN "axis" ELSE "button", pad |-> PadOf(text),
             code |-> code, mods |-> sign]
       ELSE old
ParseKey(old, text) ==
  LET mods == ToSet(Front(text))
  IN IF Last(text) \in Keys /\ Front(text) = Spoken(mods)
       THEN [type |-> "key", pad |-> 0, code |-> Last(text), mods |-> mods]
       ELSE old
ParseBindingString(old, text) ==
  CASE text = NothingBound -> Unbound
    [] IsPad(text)       -> ParsePad(old, text)
    [] OTHER             -> ParseKey(old, text)

(* remapBinding: a stick's axis of an old file becomes its two halves.       *)
RemapBinding(list, port, b) ==
  [i \in Ids |-> CASE Names[i] = [port |-> port, what |-> "LSTICK_LEFT"]  -> [b EXCEPT !.mods = {"-"}]
                   [] Names[i] = [port |-> port, what |-> "LSTICK_RIGHT"] -> [b EXCEPT !.mods = {"+"}]
                   [] OTHER -> list[i]]

(* KeyBinds::serializeBindings and deserializeBindings.                      *)
Entry(name, b) == [name |-> name, text |-> BindingString(b)]
(* Mutant: what is not bound is left out.                                    *)
SerializeBound(list) ==
  SelectSeq([i \in Ids |-> Entry(Names[i], list[i])], LAMBDA e : e.text # NothingBound)
SerializeBindings(list) == [i \in Ids |-> Entry(Names[i], list[i])]
ReadEntry(list, e) ==
  IF e.name.what = "LSTICK_X"
    THEN RemapBinding(list, e.name.port, ParseBindingString(Unbound, e.text))
    ELSE [i \in Ids |-> IF Names[i] = e.name THEN ParseBindingString(list[i], e.text) ELSE list[i]]
DeserializeBindings(list, entries) ==
  LET After[n \in 0..Len(entries)] ==
        IF n = 0 THEN list ELSE ReadEntry(After[n - 1], entries[n])
  IN After[Len(entries)]

(* KeyBinds::init: the first controller is the first pad, if one is there.   *)
DefaultBinding(name, plugged) ==
  CASE name.what = "PAUSE" -> [type |-> "key", pad |-> 0, code |-> "P", mods |-> {}]
    [] name.port # 0       -> Unbound
    [] ~plugged            -> [type |-> "key", pad |-> 0, code |-> "X", mods |-> {}]
    [] name.what = "B"     -> [type |-> "button", pad |-> 0, code |-> "a", mods |-> {}]
    [] OTHER               -> [type |-> "axis", pad |-> 0, code |-> "leftx",
                               mods |-> IF name.what = "LSTICK_LEFT" THEN {"-"} ELSE {"+"}]
Defaults(plugged) == [i \in Ids |-> DefaultBinding(Names[i], plugged)]

-----------------------------------------------------------------------------
(* The dialogs of KeyBinds: they change a copy.                              *)
Changes == count.changes < MaxChanges
Changed(what) == count' = [count EXCEPT !.changes = @ + 1] /\ session' = "on" /\ what

ShowControllerDialog(port) ==
  /\ session # "off" /\ dialog = None
  /\ dialog' = [first |-> port * PerPort, copy |-> bindings, imported |-> FALSE]
  /\ session' = "on"
  /\ UNCHANGED <<bindings, settings, window, config, exported, before, count>>
ShowHotKeyDialog == ShowControllerDialog(Ports)

DialogStep(copy, imported) ==
  /\ dialog # None /\ Changes
  /\ Changed(dialog' = [dialog EXCEPT !.copy = copy, !.imported = imported])
  /\ UNCHANGED <<bindings, settings, window, config, before>>

Shown == {i \in Ids : i > dialog.first /\ i <= dialog.first + PerPort}
ForController == dialog # None /\ dialog.first < Ports * PerPort

(* InputDialog::updateButton with ChangeInputDialog.                         *)
UpdateButton(i, b) ==
  DialogStep([dialog.copy EXCEPT ![i] = b], FALSE) /\ UNCHANGED exported
Clear ==
  /\ ForController
  /\ DialogStep([i \in Ids |-> IF i \in Shown THEN Unbound ELSE dialog.copy[i]], FALSE)
  /\ UNCHANGED exported
(* exportJson: under the names of the first controller, whichever it is.     *)
ExportJson ==
  /\ ForController
  /\ DialogStep(dialog.copy, FALSE)
  /\ exported' = [entries |-> [i \in 1..PerPort |-> Entry(Names[i], dialog.copy[dialog.first + i])],
                  was |-> SubSeq(dialog.copy, dialog.first + 1, dialog.first + PerPort)]
ImportEntry(list, e) ==
  [i \in Ids |-> IF i \in Shown /\ Names[i - dialog.first] = e.name
                   THEN ParseBindingString(list[i], e.text) ELSE list[i]]
Imported ==
  LET After[n \in 0..Len(exported.entries)] ==
        IF n = 0 THEN dialog.copy ELSE ImportEntry(After[n - 1], exported.entries[n])
  IN After[Len(exported.entries)]
ImportJson ==
  /\ ForController /\ exported # None
  /\ DialogStep(Imported, TRUE)
  /\ UNCHANGED exported

CloseDialog(ok) ==
  /\ dialog # None
  /\ bindings' = IF ok THEN dialog.copy ELSE bindings
  /\ dialog' = None
  /\ UNCHANGED <<session, settings, window, config, exported, before, count>>

-----------------------------------------------------------------------------
(* Config::showEmulatorSettingsDialog, States::showDialog with no game: they *)
(* offer what the file may hold, except an interval that is not one of       *)
(* _saveIntervals, which is shown, and taken, as the first of them.          *)
SaveIntervals == {0, 10, 30, 60, 120, 300, 600}
SramPaths     == {{"S"}, {"S", "C"}, {"S", "C", "G"}, {"S", "Y"}, {"S", "Y", "G"},
                  {"S", "Y", "C"}, {"S", "Y", "C", "G"}}
Offered == IF settings.interval \in SaveIntervals THEN settings.interval ELSE 0
Alters(new, win) ==
  /\ session # "off" /\ dialog = None /\ Changes
  /\ Changed(settings' = new /\ window' = win)
  /\ UNCHANGED <<bindings, dialog, config, exported, before>>
ShowEmulatorSettings(ratio)    == Alters([settings EXCEPT !.ratio = ratio], window)
ShowSavingSettings(n, path)    ==
  Alters([settings EXCEPT !.interval = IF n = None THEN Offered ELSE n, !.path = path], window)
ShowVideoSettings(filter, rot) ==
  Alters([settings EXCEPT !.filter = filter], [window EXCEPT !.rotation = rot])
ResizeWindow(size)             == Alters(settings, [window EXCEPT !.size = size])
ToggleFullscreen               == Alters(settings, [window EXCEPT !.full = ~@])

(* The state of a program that does not run.                                 *)
FirstSettings == [ratio |-> 5, interval |-> 0, path |-> {"S"}, filter |-> FALSE]
FirstWindow   == [size |-> <<640, 480>>, rotation |-> 0, full |-> FALSE]
Forgotten ==
  /\ session' = "off" /\ bindings' = Defaults(FALSE) /\ dialog' = None
  /\ settings' = FirstSettings /\ window' = FirstWindow

(* Application::saveConfiguration: the size is that of an upright picture; a *)
(* full screen window has none.  States::encodePath gives a path's letters.  *)
Upright(w) == IF w.rotation \in {90, 270} THEN <<w.size[2], w.size[1]>> ELSE w.size
EncodePath(path) ==
  <<IF "T" \in path THEN "T" ELSE "S">> \o Said("Y", path) \o Said("C", path) \o Said("G", path)
(* Config::serializeEmulatorSettings, States and Video::serializeSettings.    *)
EmulatorSettings == [ratio |-> settings.ratio]
SavingSettings   == [interval |-> settings.interval, path |-> EncodePath(settings.path)]
VideoSettings    == [filter |-> settings.filter]
Written ==
  [bindings |-> SerializeBindings(bindings), emulator |-> EmulatorSettings,
   saves |-> SavingSettings, video |-> VideoSettings,
   window |-> IF window.full THEN None ELSE Upright(window)]
Destroy ==
  /\ session # "off" /\ dialog = None
  /\ config' = Written
  /\ before' = [bindings |-> bindings, settings |-> settings, window |-> window]
  /\ Forgotten
  /\ UNCHANGED <<exported, count>>
(* The program is ended from outside: nothing is written.                    *)
Crash ==
  /\ session # "off"
  /\ Forgotten
  /\ UNCHANGED <<config, exported, before, count>>

(* Application::loadConfiguration.  It looks at the size it read also when   *)
(* the file has none, and then at what the stack holds.                      *)
Clamped(n) == IF n < 2 THEN 2 ELSE IF n > 10 THEN 10 ELSE n
DeserializeEmulator(s, file) == [s EXCEPT !.ratio = Clamped(file.ratio)]
DeserializeSaving(s, file)   == [s EXCEPT !.interval = file.interval, !.path = ToSet(file.path)]
DeserializeVideo(s, file)    == [s EXCEPT !.filter = file.filter]
Leftover == <<1, 1>>
Start(plugged) ==
  /\ session = "off" /\ count.sessions < MaxSessions
  /\ bindings' = DeserializeBindings(Defaults(plugged),
                                     IF config = None THEN <<>> ELSE config.bindings)
  /\ settings' = IF config = None THEN FirstSettings
                 ELSE DeserializeEmulator(DeserializeVideo(DeserializeSaving(
                        FirstSettings, config.saves), config.video), config.emulator)
  /\ \E size \in IF config = None THEN {FirstWindow.size}
                 ELSE IF config.window = None THEN {FirstWindow.size, Leftover}
                 ELSE {config.window} :
       window' = [FirstWindow EXCEPT !.size = size]
  /\ session' = "fresh"
  /\ count' = [count EXCEPT !.sessions = @ + 1]
  /\ UNCHANGED <<dialog, config, exported, before>>

Init ==
  /\ session = "off" /\ bindings = Defaults(FALSE) /\ dialog = None
  /\ settings = FirstSettings /\ window = FirstWindow
  /\ config \in OldFiles \cup {None} /\ exported = None /\ before = None
  /\ count = [changes |-> 0, sessions |-> 0]

Next ==
  \/ \E plugged \in BOOLEAN : Start(plugged)
  \/ \E port \in 0..(Ports - 1) : ShowControllerDialog(port)
  \/ ShowHotKeyDialog
  \/ \E i \in Ids, b \in Pressed : dialog # None /\ i \in Shown /\ UpdateButton(i, b)
  \/ Clear
  \/ ExportJson
  \/ ImportJson
  \/ \E ok \in BOOLEAN : CloseDialog(ok)
  \/ \E ratio \in Ratios : ShowEmulatorSettings(ratio)
  \/ \E n \in {None, 30}, path \in {{"S"}, {"S", "Y", "G"}} : ShowSavingSettings(n, path)
  \/ \E filter \in BOOLEAN, rot \in {0, 90} : ShowVideoSettings(filter, rot)
  \/ \E size \in Windows : ResizeWindow(size)
  \/ ToggleFullscreen
  \/ Destroy
  \/ Crash

Spec == Init /\ [][Next]_vars

-----------------------------------------------------------------------------
(* What a binding's text can say: one digit of a pad, a key that has a name. *)
Sayable(b) ==
  \/ b.type = "none"
  \/ b.type = "key" /\ b.code \in Keys
  \/ b.type \in {"button", "axis"} /\ b.pad \in 0..9

(* What was set when the program last ended properly is what it starts with, *)
(* whether or not a pad is there now and whatever the defaults are, and also *)
(* after a crash in between; the picture is upright again.  A controller     *)
(* that was exported and is imported for any port reacts to what it did.     *)
ConfigurationReturns ==
  /\ session = "fresh" /\ before # None =>
       /\ \A i \in Ids : Sayable(before.bindings[i]) => Same(bindings[i], before.bindings[i])
       /\ settings = before.settings
       /\ ~before.window.full => window.size = Upright(before.window)
  /\ dialog # None /\ dialog.imported =>
       \A i \in 1..PerPort :
         Sayable(exported.was[i]) => Same(dialog.copy[dialog.first + i], exported.was[i])

(* Every binding is there again.  It is not: a pad numbered ten or above is  *)
(* written with two digits and read with one, and a key SDL has no name for  *)
(* is written as nothing; the default is back instead.                       *)
EveryBindingReturns ==
  session = "fresh" /\ before # None =>
    \A i \in Ids : Same(bindings[i], before.bindings[i])

(* Paths are in one of two places.                                           *)
Letters == {"S", "T", "Y", "C", "G"}
Paths   == {p \in SUBSET Letters : ("S" \in p) # ("T" \in p)}
(* What a settings file may hold: texts for names, the stick of an old file  *)
(* bound to an axis or to nothing, and what the program wrote otherwise.     *)
Words == {"none", "J", " "} \cup AllDigits \cup Modifiers \cup Signs \cup Codes
Texts == [name: [port: Nat, what: STRING], text: Seq(Words) \ {<<>>}]
Holds(file) ==
  /\ \A i \in DOMAIN file.bindings :
       LET e == file.bindings[i]
       IN e.name.what = "LSTICK_X" => e.text = NothingBound \/ (IsPad(e.text) /\ Last(e.text) \in Axes)
  /\ ToSet(file.saves.path) \in Paths
ConfigFiles ==
  [bindings: Seq(Texts), emulator: [ratio: Int], saves: [interval: Int, path: Seq(Letters)],
   video: [filter: BOOLEAN], window: (Int \X Int) \cup {None}]

(* A window that was full screen comes back with the size the program begins *)
(* with.  It need not: the size that was not in the file is used as it is.   *)
FullscreenStartsPlain ==
  session = "fresh" /\ before # None /\ before.window.full => window.size = FirstWindow.size
=============================================================================
