# RALibretro in TLA+

RALibretro is a libretro frontend for Windows with RetroAchievements built in:
it opens a *core* (a DLL with `retro_*` entry points that emulates a console),
loads a game into it, runs it frame by frame, and tells the RetroAchievements
toolkit (a DLL of its own, `RA_*`) what happens, so that achievements can be
awarded, in *hardcore* mode under stricter rules. Beside the program lives
`src/user/rahasher_stream.cpp`, a library of one function that hashes a file
while it is still being written. This directory models the parts of both whose
correctness depends on order: who knows what when a load fails, a user refuses,
a thread interferes, a device stalls, a core declares something early or late,
a file is left behind.

Paths are relative to the repository. `A:` stands for
`src/src/Application.cpp`, other file names are those of `src/src/`,
`src/src/components/` and `src/src/libretro/`.

## 1. Inventory

| part | state | operations | modelled in |
|---|---|---|---|
| State machine (`Fsm`) | `__state`: Start, CoreLoaded, GameRunning, GamePaused, GamePausedNoOvl, FrameStep, Quit | loadCore, unloadCore, loadGame, unloadGame, quit, pauseGame, pauseGameNoOvl, resumeGame, step, resetGame | `Frontend`, `FrontendThreads` |
| Application | `_system`, `cancelLoad`, `_gameData`, `_gamePathIsTemporary`, `_processingEvents`, the menus | init, loadCore, loadGame (two), unloadGame, handlers of menus and keys, `run`, `runSmoothed`, `s_audioCallback`, destroy | `Frontend`, `FrontendThreads`, `Startup`, and the modules of what it keeps for others |
| Core library wrapper (`libretro::Core`, `BareCore`) | the library handle and its entry points, `_gameLoaded`, `_systemInfo`, what the core declared, the buffer of samples | init, loadCore, initCore, loadGame, unloadGame, destroy, step, resetGame, the environment callback, the file interface | `LibretroCore`, `Declarations`, `CoreFiles`, `AudioPipeline` |
| Allocator | a bump allocator | allocate, reset | `Declarations` |
| Hardcore validation | `_hadDisallowedSetting` | validateSettingsForHardcore | `Frontend` |
| Core options and controllers (`Config`, parts of `Input`) | variables, selections, visibility, the devices of ports, the flags that tell the core of changes | setVariables, getVariable, serialize, deserialize, showDialog | `CoreSettings` |
| Input | pads, their GUIDs, ports, buttons, axes, keys | addController, removeController, buttonEvent, axisEvent, keyboardEvent, read | `Controls`, `CoreSettings` |
| Key bindings | `_bindings`, `_bindingMap`, game focus, the slot, keys held for sticks | translate, mapDevice, the dialogs, serializeBindings, deserializeBindings | `KeyBinds`, `Controls`, `Configuration` |
| Audio (`Audio`, `Fifo`) | the ring, its indices and its mutex, `_blocking` | mix, read, write, reset, occupied, free | `AudioPipeline` |
| Microphone | a second user of `Fifo`, filled by a capture thread | openMic, setMicState, readMic, closeMic, recordCallback | `Microphone` |
| Video | texture, vertices, view, rotation, window, messages, speed indicator | setGeometry, refresh, setRotation, windowResized, showMessage, draw, getFramebuffer, setFramebuffer | `Picture`, `Overlay`, `StateFile` |
| Memory map | regions, banks, the deferred bank | attachToCore, installMemoryBanks, deferredMemoryRead, the readers | `MemoryMap` |
| Logger | a ring of records | log, contents | `LogRing` |
| CD-ROM and drive | the tray, the disc in it, the menu, the names of discs | readyNextDisc, toggleTray, updateDiscMenu, romLoaded | `Discs` |
| Emulators and cores list | the list of cores, their files, the menu of systems | loadCores, showCoresDialog, buildSystemsMenu, getCoreName | `CoreList` |
| Recent list | `_recentList` | changed by loadGame, and by the menu | `RecentList` |
| Save memory (half of `States`) | the game's name, the paths, the copy of what was saved last, the files | setGame, loadSRAM, saveSRAM, periodicSaveSRAM, migrateFiles, showDialog | `SaveMemory` |
| Save states (the other half) | the slots' files, `_validSlots` | saveState, loadState, migrateFiles, existsState | `SaveStates`, `StateFile` |
| Hashing of unfinished files | `g_hash_mutex`, the reader of discs set last | rahasher_hash_file | `HashFile` |
| Hashing and RAHasher | the compressed disc that is open: its track and its hunk | the callbacks of `HashCHD.cpp` | `DiscImage`; the rest is not modelled |
| Utilities | | files, paths, images, archives | as far as `StateFile` and `CoreFiles` use them |
| OpenGL; Dialogs and about box; RetroAchievements glue | | | not modelled, section 7 |

How they interact. Almost everything runs on the main thread. A menu item, a
key or the toolkit calls a handler of `Application`; the handler calls `Fsm`,
whose generated transitions call back `Application::loadCore`, `loadGame`,
`unloadGame`, which in turn call `Core`, which calls the library. `Application`
calls `Fsm` again from within those (`Fsm::unloadCore` from a failed load,
`Fsm::unloadGame` from a hardcore switch). The library calls back through the
environment, at any moment of its life, and what it says goes from `Core` to
`Config`, `Input`, `Video`, `Memory` and the microphone. SDL's audio thread
enters `s_audioCallback`, which reads the Fsm's state and the `Fifo`, and may
*write* the Fsm's state by `pauseForBadPerformance`; SDL's capture thread fills
the microphone's `Fifo`. `States` is told the name of a game before the core
loads it; its files outlive the process, its settings do so only when the
process exits as it should. The toolkit reads the core's memory through the
banks that `Memory` installed.

What is hard. The same facts (is a core open, is a game loaded, is it watched,
which disc is in, which option has which value) are kept by several parts, each
updated at its own moment, on paths with many early returns; user dialogs can
refuse half-way; two threads share the state machine without a lock, and the
ring with one that one of its operations does not take; pads come and go while
their buttons are held; cores declare things earlier or later than others; the
program may crash between any two of its saves. `PROJECT.json` lists forty
of these hazards line by line, section 8 the others.

Vendored or generated, and left alone: `src/src/speex`, `src/src/libmincrypt`,
`src/src/dynlib`, `stb_image*.h`, `libretro.h`, `GameControllerDB.inl`,
`BitmapFont.h`, `build/`.

## 2. Modules

### The life cycle: LibretroCore, Frontend, FrontendThreads

`LibretroCore` is the wrapper and the library. The library is an automaton
(`closed`, `opened`, `ready`, `playing`); each call has the state it belongs in
(`Before`) and the state it leaves (`Behind`). A call made elsewhere is still
followed, and remembered in `lib.misuse`: the protocol properties are about that
set. `api` is what BareCore's function pointers are: null, bound, or dangling,
the last when a library lacks a symbol and is closed again with the pointers
found so far still set (`BareCore::load`). Operations of `Core` are the
sequences of calls the code makes, e.g. `LoadGame("no_av")` closes twice, as
`initAV` tears down what `loadGame`'s error path tears down again.

`Frontend` is `Fsm` and `Application` on the main thread.

* `fsm` is `Fsm::__state`. The transitions of the generated code that are
  `&&` chains of others put these into `todo`; the first to fail drops the rest
  (`Return`). `handler` remembers which handler waits for `Fsm::loadCore`, since
  the four of them do different things with its result: the menu's loadGame
  ignores it, a recent item and the command line go on to loadGame only when it
  succeeded, a recent item and the system menu reset `_system` when it did not.
* `doing` splits the long methods at the points where a caller, the toolkit or
  the core may decide something: loadCore in `openCore`, `startCore`; loadGame
  in `validate`, `loadContent`, `tearDown`, `revalidate`, `identify`, `finish`.
  `zip` says that the loadGame running is nested in one that extracted a zip.
* `disallowed` stands for all core options: whether one has a value that
  hardcore forbids. Reading saved options, initialising the core and loading a
  game may change it, as may the options dialog, and a core that declares its
  options anew while it runs or is reset (`DeclareAnew`, `Config.cpp:196-272`):
  `Config::setVariables` validates nothing. `redeclared` is a history variable:
  the forbidden value came from the latter, in hardcore.
* `hardcore`, `raGame`, `overlay` are the toolkit's, `console` what it was told
  last by `RA_SetConsoleID`.

Actions and code: `FsmLoadCore`, `FsmLoadGame`, `FsmUnloadCore`,
`FsmUnloadGame`, `FsmQuit` are the methods of `Fsm` (with `FsmUnloadCore` and
`FsmUnloadGame` including the method of Application they call); `OpenCore`,
`StartCore` are `Application::loadCore`; `Validate` to `FinishLoad` are
`Application::loadGame(path)`; `MenuLoadGame`, `LoadRecent`, `SelectCore`,
`CommandLine`, `Exit`, `Pause`, `Resume`, `PauseToggle`, `PauseToggleNoOvl`,
`Step`, `ResetGame`, `CoreConfig` are handlers; `EnableHardcore` is the toolkit's
`reset` callback, `RunFrame` and `BadPerformance` are the loop.

`FrontendThreads` is `Frontend` with SDL's audio thread and the place of the
main thread in `run` and `runSmoothed`. The callback reads the state and
`_processingEvents` once; when it has counted too many faults it asks for
hardcore, and `Fsm::pauseGame` reads and then writes the state. Those are three
steps, since nothing locks.

### Sound: AudioStream, AudioPipeline, Microphone

`AudioStream` is what the sound path promises: every sample a core emits is
played once, in order, in whole frames, and only lost, in whole frames, while
`lossy` holds. `AudioPipeline` is the path: Core's buffer
(`audioSampleBatchCallback`, `audioSampleCallback`, the flush in `step`),
`Audio::mix` in its steps (look, decide, wait or cut or flush, write in pieces),
the `Fifo`, and the device's callback in two steps (ask, read). It implements
`AudioStream` under the mapping `stream <- Queued \o Expand(Pending)`, with
`lossy` true in turbo or without audio, and when `mix` is about to empty the
ring.

`Fifo::read` and `Fifo::write` take the Fifo's mutex; `Fifo::reset`
(`Audio.cpp:56-60`) does not, and neither of its callers that empty a full Fifo
(`Audio.cpp:308`, `Microphone.cpp:142`) has anything else to keep the reader away.
So a reset comes wherever the reader is: before or after its two calls, between
them (`ResetAlone`), or while `Fifo::read` is at work (`ResetDuringRead`), which
leaves each of `_first` and `_avail` as reset wrote it, as read wrote it, or as
read made it of what was there before. Two history variables tell what became
of it: `late`, the Fifo was emptied since the reader asked how much there is,
and `torn`, its count and its indices do not fit each other any more. They stay
so until a reset that no reader is in the middle of. In the refinement a torn
Fifo is the `broken` stream, of which nothing is promised.

`Microphone` is the opposite direction: the capture callback writes samples into
a `Fifo`, waiting for room while it holds the device's lock; the core opens,
turns on and off, reads and closes. `MicStarts`, `MicStops` and `MicCloses` need
that lock. A callback looks for room, may have to wait, empties the Fifo after the
last look, cuts off what does not fit, and writes: each is a step of its own, and
`readMic` is two. A write of more than the whole Fifo, which only a torn count
lets through, is modelled in what it does to the Fifo. `off` is the last sample
recorded before the microphone was turned on last, `heard` the last the core
read; both are auxiliary.

### The user's hands: KeyBinds, Controls, CoreSettings

`KeyBinds` translates: a binding's place in the list is its target, the first
that matches an event decides, sticks are driven by pairs of keys, ids of pads
go through `_bindingMap` so that a pad plugged in again finds its bindings.
`Controls` puts it between SDL's events and what the core reads: pads that come
(`Input::addController`) and go, keys under modifiers, the game focus that sends
keys to the core's keyboard, hotkeys for speed, rebinding by the dialogs, another
core loaded meanwhile. `held` and `position` are the truth about the user's
hands; `excused` are the targets and keys whose press or release was translated
under other circumstances than the opposite.

`CoreSettings` is the options and the controllers of a core: declared through
the environment in `retro_init`, at loading, or with the game, read from the
core's file when it is loaded and written when it is unloaded, changed in a
dialog, and told to the core by GET_VARIABLE_UPDATE and
`retro_set_controller_port_device`. `view` and `told` are what the core knows,
`last` what it had when it was unloaded.

### Around a running core, composed by Services

* `LogRing`: the log's ring byte by byte in its arithmetic: records of a level,
  a length in two bytes and a text, whole records dropped to make room. `Totals`
  adds up the lengths of what lies one after another.
* `MemoryMap`: the descriptors of a core, turned into regions as rcheevos does
  it, and installed as banks; the one deferred bank that asks again, twice,
  while there is no memory yet. `known` is what the core showed when it was last
  asked. Descriptors without a length get it from their select and disconnect
  bits (`Core.cpp:1579`).
* `Picture`: the texture as large as the core may need, the vertices computed
  again only when something changed, the rotation that turns the window, the
  window's messages that come later, and the pointer's way back from the window
  into the frame.
* `Overlay`: messages and the speed indicator over the picture, drawn with the
  frames of a running game or by the loop of a paused one.
* `Declarations`: what a core declares of itself and what of that is a copy in
  the arena, a function of its library or a plain value; which part of it is
  reset when; and whether content is given as a path or in memory. `from` is
  the load of a core a kept thing belongs to.
* `Startup`: `Application::init` step by step, the switch that undoes what was
  made, `main`'s handling of arguments, and `destroy`, with the audio thread
  between.

They share no state; `Services` starts one of them (`which`) and runs it, and has
their constants as its own, so that what it promises can be proved for all of
them. `MCServices` only gives the constants their values.

### Files, composed by Storage

* `HashFile`: `rahasher_hash_file` on several threads under its mutex, with the
  writer of each file between any two steps; an algorithm is the pieces it
  reads. A call is several steps: the gate that compares the file's size with
  the least and the expected one, the taking of the mutex, each read, and the
  end, so that a file grows between the gate and the reads and between two
  reads. What goes through `filereader_read` is counted and may set
  `need_more_data`; the data of a compressed disc is read by libchdr
  (`HashCHD.cpp:209`, `:265`), which opens the file itself, and does neither.
* `Discs`: the drive of the core, its menu, the hotkeys, a playlist's names, and
  `romLoaded`, which identifies a disc before it goes in and ends hardcore for
  an unknown one.
* `DiscImage`: `HashCHD.cpp`: choosing a track, finding the parent image beside
  it, the sector formats, and reads through the one hunk that is kept. Where tracks
  begin is taken from `Totals` of the tracks before.
* `CoreList`: the list of cores, what of it is there, the dialog that downloads
  and deletes, the numbers of menu items that stand for a core and a system.
* `RecentList`: the list through loads from a file or from the menu. Whether a
  load succeeds is a choice; a zip whose core wants a plain file goes through
  the rename, nested load and restore of `A:1081-1121`. `history` is an
  auxiliary variable: for every item loaded so far, the items that were loaded
  last before it.
* `StateFile`: the contents of one state: blocks aligned to eight bytes, written
  by this program, by RetroArch (compressed or not), or by an earlier version
  with companions beside it; and what loading one does to the core's memory, to
  the achievements' progress and to the picture.
* `CoreFiles`: the file interface given to cores, over streams that buffer.
* `Configuration`: the settings file and the text of bindings, written when the
  program ends and read when it starts, through crashes, files of earlier
  versions, exports and imports.

As with `Services`, they share no state, and `MCStorage` only gives the constants
of `Storage` their values.

### The user's progress: SaveMemory, SaveStates

The two halves of `States`. `SaveMemory` is the battery-backed memory: `memory`
is the core's, `copy` is `_lastSaveData`, `files` are the `.sram` files, by game
and by location, a location being an index of `_sramPaths`. `LoadGame`,
`LoadGameMoving` and `LoadGameDeclining` are the end of
`Application::loadGame`, with what `migrateFiles` finds and what the user
answers; `PeriodicSave` is `periodicSaveSRAM` with its interval over;
`UnloadGame` saves and then names no game. `LoadFails` leaves the name, which is
why `ShowDialog` looks at the name and may be closed though nothing is loaded.
`Exit` saves the settings, `Crash` does not, and both start over.

`SaveStates` is the numbered states: `new` and `old` are the files of the two
formats, `valid` is `_validSlots`. Saving is two steps, `SaveState` (the file is
written) and `StateSaved` (the old file is deleted, the slot is listed), since a
crash may come between. `Loads(n)` is what `loadState` would load; loading
changes nothing here, what it changes is in `StateFile`.

`kept`, `latest` and `declined` are auxiliary variables: what the user knows.

The guard `~playing` of the loads is what `Frontend` shows of them: the Fsm
unloads a game, and saves its memory, before the next one (also in
`loads_over_game`, where only the core keeps it).

### Proofs

`FrontendProofs`, `SaveMemoryProofs`, `SaveStatesProofs`, `AudioProofs`,
`ControlsProofs`, `CoreSettingsProofs`, `ServicesProofs` and `StorageProofs` hold
the theorems; section 5 says what they establish.

Definitions like `MenuLoadGameInPlace` or `ReleaseKeepsAchievements`, right before
the definition they vary, are the form it would have with a plausible mistake;
each property of a run fails when one of them takes the place of the original,
which shows that the property watches that code.

## 3. Runs

| run | distinct states | what it shows |
|---|---|---|
| `frontend_safety` | 218,464 | all of `Frontend` with both answers to every dialog, all outcomes of a load, options that may become disallowed: Fsm, wrapper and library agree (`FsmAgreesWithCore`), no call uses a game that is not there (`UsesOnlyLoadedGame`), init and deinit alternate (`InitPairedWithDeinit`), no game is played in hardcore with a forbidden value, but for one that a core declaring its options anew in hardcore brought (`HardcoreHasCleanSettings`), the toolkit watches a game exactly while there is one (`AchievementsFollowGame`) |
| `frontend_liveness` | 57,944 | with every confirmation given handlers end, Exit quits, and no game is loaded over another (`NeverLoadsOverGame`): that needs a refusal |
| `frontend_threads` | 1,087,724 | with the audio thread, and the legacy DLL that cannot refuse a hardcore switch, an extracted file is deleted once and only it (`ExtractedFileHasOwner`) |
| `audio_pipeline` | 163,939 | `RingIsSound`: until a reset without the mutex meets a read, the Fifo's indices agree with what is occupied (`IndicesAgree`), what is written fits (`WriteFits`), what is read is there unless the Fifo was emptied since the look (`ReadsWhatIsThere`); `MixReturns`; and the refinement, `KeepsPromise` |
| `save_memory` | 243,000 | a game begins with the memory it was left with, or last saved with before a crash, wherever the settings had its file then (`BeginsWhereItEnded`), unless the user refused to move it; the periodic save compares with the file's content (`CopyIsFile`), so it never skips a save that is needed |
| `save_states` | 1,272,996 | a slot of the menu is loaded with what was saved in it last (`SlotHoldsLatest`), and the menu lists the slots that have a file (`MenuListsFiles`), through both formats, moves, refusals and crashes |
| `controls` | 480,439 | what the core sees pressed is what is held, sticks stand where keys or pads say (`InputFollows` = `HeldIsPressed` and `SticksFollow`); the speed is the menu's once the hold key is released (`SpeedFollowsMenu`); a pad plugged in again has its bindings (`PadKeepsItsBindings`) |
| `core_settings` | 1,243,499 | the core is told of every change (`ChangesAreTold`), the dialog shows what the core gets (`DialogShowsWhatCoreGets`), the controller selected is the one the core was given (`CoreHasSelectedController`), and all of it returns with the core (`SettingsReturn`) |
| `services` | 360,119 | per part: the about box shows the latest lines (`LogShowsLatest`); the core hears what was recorded, in order, until a reset meets a read (`HearsInOrder`), and its calls return (`CallsReturn`); RetroAchievements reads the core's memory (`ReadsTheCore`); the picture is that of now and the pointer hits the pixel under it (`PictureIsRight`); messages are drawn as long as they should be (`MessagesAreDrawn`); nothing outlives its core (`KeepsOnlyOwn`); what init made is undone, once (`EndsClean`) |
| `storage` | 580,156 | per part: a finished hash is the finished file's (`HashIsOfFinishedFile`); menu, drive and hardcore agree on the disc (`DrivesAgree`); a read gives the track's data (`ReadsAskedTrack`); a menu item loads what it says (`MenuLoadsWhatItSays`); the recent list is the latest, in order, with what is played in front (`MenuIsRight`); a state brings one moment back (`LoadRestores`); files hold what was written (`FilesHoldWrites`); the settings return (`ConfigurationReturns`) |

Two runs expect a violation, each a disagreement of the code with a line of the
repository:

* `loads_over_game`: refuse to unload once, agree the second time, and
  `retro_load_game` is called over a loaded game (`A:1611`, against the
  assertion of `A:1609`).
* `not_done`: `rahasher_hash_file` says that a complete plain file is not finished
  when its header points behind its end (`rahasher_stream.cpp:244`, against
  `rahasher_stream.h:30-31` and `:36`), so a caller that polls never stops.

### Stated, but not checked by a run

The modules also state what a reader of the code might expect and what does not
hold, next to the properties that do. They are not runs because nothing in the
repository promises them, because the trace is a step or two long, or because a
doc speaks of something close and not of this.

| property | why it fails |
|---|---|
| `Frontend.PersistentDataOutlivesGame` | persistent content is freed before the core is told that its game is gone (`A:1407`) |
| `Frontend.ForbiddenSystemIsNotHardcore` | a refused switch of cores zeroes `_system` (`A:2380`, `A:2542`) |
| `Frontend.NeverDisallowed` | a core that runs in hardcore declares its options anew, and nobody validates their values (`Config.cpp:196-272`) |
| `Frontend.SoftcoreIsTracked` | the dialog tracks a forbidden value in hardcore only (`Config.cpp:939`), although `:497` says that softcore tracks it |
| `FrontendThreads.GameIsActiveMeansLoaded` | the audio thread's `GamePaused` overtakes an unload of the game (`A:1524`) |
| `RecentList.NoTemporaryItem` | `_recentList[i]` is renamed after the list was reordered (`A:1100`) |
| `CoreSettings.EveryChangeIsTold` | leaving the dialog forgets a change the core has not been told of; `ChangesAreTold` leaves this out |
| `Picture.WindowTurnsWithPicture` | the picture is turned twice before the window's message came (`A:1489`) |
| `AudioPipeline.NeverTorn` | `Fifo::reset` takes no mutex: the device comes back in the moment in which `mix` gives it up (`Audio.cpp:308`) |
| `Microphone.NeverTorn` | the same, when the core reads in the moment in which the callback gives it up (`Microphone.cpp:142`) |
| `Microphone.ClosesOnlyOpenMic` | the NULL that open_mic returned is taken for the microphone that is not open (`Microphone.cpp:201`) |
| `StateFile.FailureIsTold` | an old state without a picture counts as loaded when the core refused it (`States.cpp:461`) |
| `StateFile.PictureReturns` | the picture is stretched to the frame buffer's size (`States.cpp:503`) |
| `DiscImage.StaysInHunk` | a read of several headerless sectors leaves the hunk one byte late (`HashCHD.cpp:228`) |
| `DiscImage.HandleIsOfTrack` | the largest track gets the offsets of the end of the list (`HashCHD.cpp:177`) |
| `CoreFiles.SeekTellsPosition` | seeking returns what fseek returns (`Core.cpp:1012`) |
| `Declarations.ForgetsUpdateDisplay` | the callback for hiding options is kept when another core is loaded (`Config.cpp:105`) |
| `Declarations.CountsHaveMemory` | the number of descriptors is set before there is room for them (`Core.cpp:1581`) |
| `Declarations.ContentIsGivenAsAsked` | of a list of content overrides only the first is kept (`Core.cpp:1143`) |
| `Overlay.IndicatorAgrees` | the setting is changed, or the game paused for bad performance, without the indicator being made anew (`Config.cpp:1006`) |
| `Startup.AlwaysEndsClean` | refused arguments end the program without destroy (`main.cpp:78`); the Fifo goes before the device (`A:718`) |
| `Configuration.EveryBindingReturns` | pads with two digits, keys without a name (`KeyBinds.cpp:1192`) |
| `Configuration.FullscreenStartsPlain` | a window's place that the file does not name is read uninitialised (`A:2249`) |

### What the checked properties leave out

Where the code does not do a thing in one corner, the property that holds
elsewhere says so in its text:

* `HardcoreHasCleanSettings` leaves out the values that a core brings by declaring
  its options anew while it runs in hardcore, until they are set or declared
  again; and it is about what was tracked, which the dialog does in hardcore only.
* `RingIsSound`, `KeepsPromise` and `HearsInOrder` say nothing while the Fifo is
  torn. A reset between the reader's look and its read that leaves less than the
  reader takes counts from the read on: until then the properties hold, with
  `late` saying why the read will not find what the look saw.
* `ReadsAskedTrack`: the track asked for as "the largest", reads past the first
  sector of tracks whose sectors have no header, and the one frame behind the
  end of a track that `HashCHD.cpp:199` lets through.
* `LogShowsLatest` says what the code does with a ring full to the last byte:
  it shows nothing (`Logger.cpp:170`).
* `HashIsOfFinishedFile` is about files without siblings and of known size.
* `MenuLoadsWhatItSays` leaves out cores that are on the list twice once they
  are deleted, and the menu when no core is left (`Emulator.cpp:528`, `A:2040`).
* `SettingsReturn` is about the first port: of the devices of several ports,
  written as an array, only one comes back (`A:793`).
* `CoreHasSelectedController` is about cores that declare their controllers when
  they are opened.
* `PadKeepsItsBindings` ends with the first time two pads of one kind are
  present at once: from then on they are told apart by order only.
* `ReadsTheCore` holds where the core is loaded anew with its game, and its banks
  are not more than there are readers.
* `PictureIsCurrent` leaves out the aspect alone and the origin
  (`Video.cpp:283`, `:830`).
* `HardcoreKnowsDisc` leaves out the disc that was in when the game began or
  hardcore was turned on, and what the core does to its drive by itself.
* `EndsClean` leaves to the operating system what refused arguments leave
  behind, and the order of Fifo and device after an exception.
* `ConfigurationReturns` is about bindings their text can say.
* `ExitQuits` leaves out the one loop iteration of a frame step, in which an
  Exit is lost (`Fsm.cpp:490`).

## 4. Bounds, assumptions, fairness

* Frontend runs: two systems, one of them forbidden: `_system` matters only
  through being zero, allowed or forbidden. Nothing else is bounded: the state
  space is finite, `todo` being at most three calls long.
* `frontend_threads`: `FewMisuses` stops exploration once the race has led to
  two kinds of misplaced calls; what a library does after them is undefined.
  Outcome `no_av` and disallowed options are left to `frontend_safety`.
* `audio_pipeline`: a buffer of 3 frames, a ring of 16 samples, a device of 4
  channels that asks for 8 samples, pieces of 2 frames, batches up to 4 frames,
  6 frames in all. A batch may leave the buffer short, fill it exactly, overflow
  it by a part and exceed it alone; the ring wraps around, fills and empties; a
  piece is left over. `MaxWait` is 2 instead of 250. Core and device run at the
  same rate: the resampler is not modelled. `BatchFitsAssumption`: a batch fits
  the empty ring, which has four device buffers. A `size_t` counts modulo
  `SizeT = 40`, more than twice the ring, so that a count below nothing, which
  only a torn Fifo has, is as far from its size as it is in the code.
* `save_memory`: two games, a blank memory and one with progress, three
  locations of the seven: the present one, and two for `migrateFiles` to choose
  from. The games are interchangeable (symmetry). `save_states`: one game, two
  listed slots and one beyond the menu, two contents (interchangeable), two
  locations, and any old files in one of them. Files are written, deleted and
  moved as wholes and without failure; a file is as long as the memory; games
  have different base names, and locations are different directories
  (with `_system = 0` some coincide). A crash between two moves of
  `migrateFiles` is not modelled. The hotkeys that save or load a state without
  a game are not modelled.
* `controls`: seven targets, so that each kind is there (two buttons, both
  directions of a stick, a trigger, speed, focus); four keys, one modifier, two
  interchangeable kinds of pads with one button and one axis; one port with the
  joypad and nothing; at most two things held or pushed at once, three pads
  ever, one change of circumstances (modifier, focus, binding, device, core)
  that excuses what is held then. Two things held are what one stick or one
  target can tell apart, three pads let one return between two others; `Full` is
  8, `Threshold` 4, an axis at -9, 0 or 1: beyond the end, at rest, in the dead
  zone.
* `core_settings`: a core that declares its controllers when opened and changes
  an option's values and default, and one that declares with the game and has a
  saved option it never declares; two ports, of which the first has two kinds.
* `services`: a log of 17 bytes with records up to 9, five lines, lengths that
  fit, fill and exceed a record, and a ring that can be full to the byte; a
  microphone's Fifo of 3 samples, batches smaller and larger than it, two looks
  instead of `MAX_WAIT`, six samples, a `size_t` of 8 values; nine memory maps over four address bits
  with holes and mirrored blocks, two banks, two attempts; two
  geometries, two formats, two frame sizes, two windows, one message under way; two slots of messages,
  five draws; an arena of five units, so that a declaration can fail to get room,
  and two loads of a core; every step of init that may fail.
* `storage`: two callers and three algorithms, one of them over two files; games
  without discs, with discs known, unknown and unsupported, named by the core or
  by a playlist; four images, with 2 to 4 frames per hunk so that hunk and
  track ends fall apart, one of which needs a parent; four entries of cores, one
  file twice and absent at first, one deprecated; a recent list of three with two archives; sizes of a
  state that are and are not multiples of eight, two frame sizes; two streams of
  two values; two controllers of three bindings and one hotkey, two changes, two
  sessions.
* The dialogs of RetroAchievements are modal, options are changed by a core
  while it is opened, loads a game, runs a frame or is reset, and events that arrive after Quit are ignored.
  `CoreConfig` and `EnableHardcore` are taken to happen only with a core open.
* `CHECK_DEADLOCK FALSE` where the system really stops: `Quit` is a state without
  steps, and the bounded parts end when their bound is reached.
* Symmetry is used in runs without liveness only.

Fairness, where liveness is checked:

* `WF(Continue)`: a handler is a sequence of calls on one thread, and nothing in
  it waits for another.
* `WF(MixStep)`: mix runs on the main thread and waits by a bounded `SDL_Delay`
  loop. `WF(DeviceReads)`: a callback that has begun returns.
* `WF(CallbackGoesOn)`, `WF(MicReads)`: the capture callback waits by a bounded loop
  of delays, then writes; a read that has begun goes on. `SF(MicCloses)`, `SF(MicStarts)`,
  `SF(MicStops)`: these calls wait for SDL's device lock, which the callback
  takes again and again; a mutex that is free infinitely often is got in the end.
* Nothing is assumed of devices, cores or users: they may never act.

## 5. Proofs

Machine-checked for every value of the constants.

`FrontendProofs`:

* `TypeCorrect`. Actions of `Continue` and `Input` are treated one by one, the
  wrapper's operations through `CallType`: a call leaves a library a library.
* `FsmAgrees`, `OnlyLoadedGameUsed`, `InitsPaired`, from the inductive invariant
  `Phases`. `FsmAgreesWithCore` is not inductive: it says nothing of the moments
  within loadCore and loadGame, when the parts disagree. `Phases` states, for
  each value of `doing`, what the library, the pointers and the Fsm are; the
  invariants of the runs follow from it.
* `ExtractedFileOwned`, from `Extracted`, which adds in which steps a zip may be
  under way and that only an active game is temporary.
* `HardcoreIsClean`, from `CleanHardcore`, for a DLL that can refuse a switch:
  from `identify` on, hardcore implies that nothing was tracked, and that a
  forbidden value is one declared anew in hardcore. A frame without hardcore may
  bring such a value, too, but `redeclared` is then false, and the switch to
  hardcore validates it. `AchievementsFollow`, from
  `GameWatched`, under the same assumption; with the 0.78 DLL a cancelled load
  leaves the game active in the toolkit (`A:1265`).

* `LoadsInOrder`, that no game is loaded over another as long as no request to
  unload is refused (`FALSE \notin ConfirmAnswers`). The inductive invariant is
  `Ordered`: what is left in `todo` is one of the finitely many tails of the Fsm's
  chains, and a load is only at its head when the Fsm has no game. The run
  `loads_over_game` shows that the assumption is needed.

`AudioProofs`: `RingStaysSound` and `TypeCorrect`, for a reset that comes wherever
the device is. The inductive invariant is `TornOrWhole`: always `Loose`, which is
what does not depend on the Fifo's count (the types, and that every batch on its
way fits the empty Fifo), and `Inv` unless the Fifo is torn. `RingIsSound` is not inductive: `mix` looks at the free space once and
writes later. `Inv` adds `SeenIsThere` (what mix saw is still free: the other side
only takes) and uses that, by `AllFit`, what is left after a flush fits. That `Loose` is kept while the Fifo is torn is needed because
a reset that meets no read mends it, and `Inv` has to hold from there. The
arithmetic of the ring is in `RingAdds`, `RingTakes` and `CutFits`. Assumed are the
constants' relations in `BatchFitsAssumption` and `SizeTAssumption` only.

`PromiseKept`, in the same module, is the refinement: every step of
`AudioPipeline` is, under the mapping of section 2, a step of `AudioStream` or
none; steps that begin or end in a torn Fifo are those of a broken stream.
`WholeFrames` is what the mapping needs beside soundness:
buffer, batches and Fifo hold whole frames, and the ring holds samples where it
is not empty. A write to the ring queues behind what is there (`WriteQueues`), a
read takes from its front, and expanding a frame to the channels of the device
distributes over joining and cutting; `mix` is proved step by step.

`SaveMemoryProofs`, for any games, contents and locations: `CopyIsAlwaysFile`
and `NothingIsLost`. `BeginsWhereItEnded` speaks of a step; that it holds of
every step needs `Undivided`: of a game whose file was never left behind, at most
one location has a file, that file is what was kept last, and while the game is
played it can only be in the present location. `ShowDialog` keeps this because a
game that is played has a name (`CopyHasGame`).

`SaveStatesProofs`, for any slots, contents and locations: `MenuIsRight` from
`MenuFollows`, which adds the slot being saved, and `NoStateIsLost` from
`Together`: one location has all listed slots, in each of which the file of the
newer format, if there is one, was saved last. `MovedStates` is the lemma on
`migrateFiles`: when the present location lists nothing, moving makes each slot
what it was elsewhere, whichever of the two formats it has.

`ControlsProofs`, for any targets, bindings, keys, pads, axes, ports and devices,
and any number of things held at once; the invariant is `Inv`, in three parts:

* `PadsKeepTheirBindings`, from `PadsInv`: a GUID has one place in the list of
  those seen, and two present pads are twins when they share one. `MapsDevice` is
  what `mapDevice` does to the pads it is not about: it takes the bindings from
  one pad at most, and that is one with the same GUID.
* `InputAlwaysFollows` and `SpeedAlwaysFollows`, from `InputInv`. `InputFollows` is
  not inductive: that a release clears what its press set needs `HeldInv`, that
  what is held for a target which is not excused would still be taken for it, and
  `BookRight`, that the key binder's own list of directions held, from which it
  computes where a stick goes back to, is what is held. `OneSource` is the reason
  that a release clears a target: nothing else is held for it, unless there are
  twins or other modifiers, and then the target is excused.
* Handlers are treated by what they touch (`Touches`): an action for some targets
  changes what these stand for and nothing else (`ActsTouch`), pressing and
  releasing yield actions for their target (`PressDoes`, `ReleaseDoes`), and so do
  keys, buttons and axes. An axis goes through all bindings, each on the state the
  one before left; what that comes to (`AxisYields`) is shown by the first binding
  for which it would not hold.

The proofs found a gap in the model: a stick bound to the axis of an id that
another pad comes to answer to was not `excused`; no binding of the run names such
an id.

`CoreSettingsProofs`, for any cores, options, values, ports and controllers.

* `ChangesAreAlwaysTold` and `DialogShowsIt`, from `OptionsInv`: what an option
  shows is what is selected for it where that is offered (`Shows`), and what the
  core knows is that, or an update is pending (`Knows`). Both have to hold for
  options declared anew while selections stay, and `Shows` for what a file
  selects after the core declared (`ReselectedShows`).
* `ItHasTheController`, from `ControlsInv`, which adds that the file of a core that
  declares early selects, for the first port, a device the core declares: it is
  read before anything asks for it.
* `SettingsAlwaysReturn`, an action property, from `SavedInv`: the file of a core
  holds at least what the core got when it was unloaded.

`ServicesProofs` proves of each part that its own steps are all that can happen
to it (`CoreRuns`, `MicRuns`, `ProgramRuns`, `ScreenRuns`, `OverlayRuns`, `LogRuns`),
and then:

* `OnlyOwnIsKept`, for any cores, any order of declarations and any room in the
  arena. `KeepsOnlyOwn` is inductive with the domain of `kept`.
* `MicrophoneHears`, whenever the Fifo is reset. What the core heard, what is in the Fifo
  and what a callback holds are one sequence in the order of recording, cut by
  each of the three from its neighbour (`Sound` and the lemmas on it). `MicInv`
  says this of a torn Fifo as well, of which nothing is counted as held, and of
  one that is not, that its count is what it holds, that a callback about to
  write has the room, and that a core about to read finds what it saw unless the
  Fifo was emptied since (`Room`, `Called`).
* `ProgramEndsClean`: `ProgramInv` says, for each step of init, of the undoing and
  of `destroy`, which parts exist then and in which state the steps still to come
  expect them. That the tables of steps fit each other is in `StepsStand`,
  `UndoingMeets` and `DestroyingMeets`.
* `PictureStaysRight`: `PictureInv` says which messages are on their way to the
  window when the vertices are not those of now, and that the texture covers what
  the core may draw. `PointerHits` is the arithmetic of the way back from a
  window's pixel into the frame, with its two roundings.

* `MessagesAlwaysDrawn`: `OverlayInv` says that the list holds what is promised
  now, in the order it came. The loop that draws runs through the list from its
  end while it takes messages out of it: `LoopAt` says what is true when it has
  come to the k-th, `LoopStep` that a turn keeps it, and `LoopDraws` that it
  holds at the end, by the first turn after which it would not (`HasLeast`).
* `LogStaysLatest`, for any size of the ring, lengths and number of lines.
  `LogShowsLatest` compares what is shown with the lines logged; `LogInv` says how
  these are in the ring: all records but the first few, byte by byte, each where
  the ones before it end, modulo the ring's size, and that the dropped ones would
  not fit (`RingFits`). That dropping stops at exactly that place, and that the
  loop which shows the ring finds one record after the other and then ends, is
  shown turn by turn (`Iterates`). A ring filled to the last byte has `first` equal
  to `last`, like an empty one, and is the case in which nothing is shown.

`StorageProofs`, with the same lemmas (`DriveRuns`, `RecentRuns`, `HashRuns`,
`CoresRun`, `FilesRuns`, `SettingsRun`, `StateRuns`):

* `DrivesAlwaysAgree`, for any games with any number of discs. The menu is a
  function of the drive at the moment it was made (`MenuOf`); that its labels
  still are the present game's is `LabelsAreGames`, which has to hold also
  between games and after a failed load.
* `MenuStaysRight`, for any files, archives, names of extracted files and any
  length of the menu. `Listed` says what the list is made of and how long it is,
  `InOrder` that each item is followed by those loaded before it. The load of an
  archive, which adds an item, plays it and renames it, is the case that needs
  `Renamed`, `Remembered` and `OrderKept` together.
* `HashesAreOfFinishedFiles`, for any callers, files and algorithms. `HashInv`
  holds for each caller: its file only grows, is complete once its size is
  reached, the mutex and the reader it set are its own until it returns, and what
  was read so far are the pieces the algorithm asked for, from a complete file or
  with a request for more on record.
* `MenuAlwaysLoads`, for any list of cores that keeps to `CoresAssumption`.
  `ItemNamesCore` is the arithmetic of the number a menu item carries: a quotient,
  the system's place among its core's (`OwnPlace`), and a remainder, the core
  (`DivMod`). `CoresInv` relates files, the entries' times, the menu made from
  them, and a choice that waits for the dialog: an entry of a file that is there
  always has a time, but of a file that is gone only the first entry must have
  none (`TimesFit`), and the menu may be behind while the dialog is open
  (`MenuFits`).
* `FilesAlwaysHold`, for any streams and values. `FilesInv`: one stream writes a
  file at a time, and what it keeps back is what the file lacks of what the core
  was promised.
* `ConfigurationAlwaysReturns`, for any names of bindings, pads, keys, dialogs and
  files of earlier versions. `ParseReturns` is that a binding's text gives the
  binding back where the property says so; `DeserializeReturns`, `ImportReturns`
  and `PathReturns` carry it through the loops over a file. `SettingsInv` adds that
  the file is the one the program that ended last wrote (`EndWritten`), or the
  property would not survive the crashes after it, and that an open dialog belongs
  to a program under way (`DialogIsUsed`).
* `StatesAlwaysRestore`, for any sizes of memory, frames and texture, any aspect and
  any number of moments. `StateInv` says that the file is one of this program's, of
  RetroArch's or of an earlier version's, of some moment (`IsFile`), and that the
  progress is none or that of the memory. `GoesOn` finds each block of a file where
  the ones before it end, `TurnIs` is what a turn of the loop does with a block, and
  `OwnLoads`, `RetroArchLoads` and `MemoryLoads` go through a file of each kind;
  `OpensAgain` is that a compressed file is what it was. `PixelReturns` is the
  arithmetic of the three formats: the 8 bits a shade is widened to give the shade
  back. With `FlipIs` and `FramebufferReturns` it makes the picture of a frame of
  the same size and format the one that was saved (`ImageReturns`).
* `AskedTracksAreRead`, for any images with any number of tracks, frames and hunks,
  any files beside them and any amount read. `ImageInv` ties the handle to the one
  track that was meant, and the last answer to a read with such a handle and
  whatever hunk. `TracksAre` is that the offsets the loop over the tracks counts are
  the running totals of `Totals`, and `FoundTrackIs` that the loop stops where it
  should. `After` gives the place of a read after n frames in closed form;
  `FrameFollows` and `FramesAre` are that the loop, with its test for the end of a
  hunk, gets there whenever sectors have a header, and `HunkIsThere` that a track's
  frames lie in hunks the image has (`TracksLie`). `ParentOpens` follows the image's
  parent through the reordered files beside it (`RotatedHas`).

The assumptions are those on the constants: forbidden systems are systems,
answers are Booleans, outcomes are those of `LoadGame`; `Nothing` is no content,
listed slots are slots, locations are numbers; no core is none, ports count from
0; frames and aspects are not zero; batches, requests and sizes are numbers; games
have discs with names of kinds; the pieces an algorithm reads are pieces of its
files; the menu has at least one item; what stands for nothing is none of the
things there are; no two targets are the same button, direction or trigger, and
one is held for speed, as in the enum of `KeyBinds.h` (`TargetsAssumption`); and
targets belong to ports, device 0 is one, and bindings to axes name axes
(`ControlsAssumption`); entries of the list of cores with one name and several
files are for different systems (`CoresAssumption`), as in `etc/cores.json`, where
no name is given twice; there is room for two messages, and each is shown for a
frame at least (`OverlayAssumption`); the log's ring holds a line of the longest,
whose length fits two bytes (`LogAssumption`); each controller has its bindings,
no two of one name, SDL's names are told apart, there are those of the defaults,
and old files have what a file has (`SettingsAssumption`); a core's memory and its
frames have a size, frames fit the texture, and formats are libretro's
three (`StateAssumption`); an image's tracks have numbers of their own, a frame has
room for a sector, whose form can be told as the code tells it, and of the files
that have the sums the code compares each is the parent, none is the image itself,
and either all of them open or none (`ImageAssumption`). TLC evaluates each of them in the runs.

Model-checked only, and why:

* Liveness (`HandlersEnd`, `ExitQuits`, `MixReturns`, `CallsReturn`): the prover
  has no rules for fairness here.
* What compares with a value computed by a fold over data, for which induction
  over data would be needed: `ReadsTheCore` (regions from descriptors, sorted and
  split as rcheevos does it). Where a recursion counts, the first number for which a
  claim fails stands in for induction: so it is done for the bindings of an axis, the
  messages to draw, the records of the log, the bindings in a file, the blocks of a
  state, the tracks of a disc and the frames of a read (`AxisYields`, `LoopDraws`,
  `Iterates`, `StepByStep`, `TracksAre`, `FramesAre`). The models of those loops are
  recursive functions of a number for that reason.
* `ExtractedFileHasOwner` with the audio thread: not attempted yet.

## 6. How the project is laid out

Modules of one component extend only standard and community modules; `LogRing` and `DiscImage`
extend `Totals`, `Controls` extends `KeyBinds`, `Frontend` extends `LibretroCore`, `FrontendThreads` extends
`Frontend`, `AudioPipeline` instantiates `AudioStream`. `MC*` modules give the
constants their values; `Services` and `Storage` compose parts that share no
state, one of which runs, so that one run covers the many small parts and each
keeps the module and the properties of its own. `Services` and `Storage` are
parametric, the modules with proofs extend them.

Worth doing next: failed and partial writes in `SaveMemory` and `SaveStates`;
`SaveStates` joined with `StateFile`, for the companions that are not moved;
`Configuration` joined with `CoreSettings`; `ReadsTheCore` over any descriptors.

## 7. Not modelled

* The OpenGL calls, shaders and the font: they forward or draw, and keep no state
  beyond the names `Overlay`, `Picture` and `Startup` count.
* Windows' dialogs and the about box as such. Those that change modelled state
  are actions of `Frontend`, `Controls`, `CoreSettings`, `Configuration`,
  `Picture`, `CoreList`, `SaveMemory`.
* The glue to the RetroAchievements toolkit, and the toolkit: a submodule. Its
  callbacks are actions of `Frontend` and `MemoryMap`.
* `Hash3DS.cpp`, which is arithmetic on keys, and `RAHasher.cpp`, a sequential
  program that prints hashes.
* The resampler (speex) of sound and microphone; the counters of audio faults.
* The table of scan codes and key names; rumble, the mouse's buttons and relative
  motion, light guns.
* Reading cores.json and the server's list; unzipping; the making of path names;
  screenshots a user takes.
* The handler of aborts (`main.cpp:66`): its outcome is undefined.
* Memory writes, which go the way reads do, and the intervals at which memory is
  looked at again or saved: the model lets them happen at any time.
* Environment calls that only report a constant or are only logged.

## 8. Further hazards

`PROJECT.json` lists the forty hazards that matter most. These are the others met
while modelling, with the properties that watch them, if any.

| where | what | watched by |
|---|---|---|
| `BareCore.cpp:66` | A library without one of the symbols is closed again, but the pointers found before stay set and point into it | `UsesOnlyLoadedGame` |
| `A:1222` | After a failed revalidation or identification the game is unloaded in the library only: Core::_gameLoaded stays set, and destroying the core unloads it again | the second retro_unload_game is recorded in lib.misuse, but nothing in the repository says it may not happen, and many cores allow it |
| `A:2542` | A switch of cores the user refused resets _system although the game of that system goes on | Frontend defines ForbiddenSystemIsNotHardcore: the model shows that it fails in exactly this way, so no passing run can check it |
| `Config.cpp:939` | A disallowed option seen only by the dialog, in softcore, is not remembered; the later check looks at current values only | Config.cpp:497 says of softcore "just track the fact that a disallowed setting was set"; the dialog does so in hardcore only. HardcoreHasCleanSettings is about what is set, and what was tracked; Frontend also defines SoftcoreIsTracked, which the model shows to fail |
| `A:1407` | Content the core keeps pointers to is freed before the core is told that its game is gone | Frontend defines PersistentDataOutlivesGame: the model shows that it fails on every unload of such a game, so no passing run can check it |
| `A:1111` | The file extracted from a zip is deleted on one of many exits of a nested call, or when the game ends, and never a file of the user's | `ExtractedFileHasOwner` |
| `A:1524` | pauseForBadPerformance shows a modal message box from the audio callback; the main thread may meanwhile wait in mix for a device that asks for nothing | `MixReturns` |
| `Audio.cpp:287` | What fits must be cut to whole frames of the device, not of the core, or the channels shift | `RingIsSound`, `KeepsPromise` |
| `A:1307` | Ten items fit the menu; the nested load of a zip adds an item of its own before the outer one renames it | `MenuIsRight` |
| `Fsm.cpp:490` | In FrameStep, quit, loadCore and loadGame have no transition: an Exit that arrives in the one loop iteration of a frame step is lost | ExitQuits leaves the state out; nothing in the repository promises otherwise |
| `main.cpp:63` | RA_Integration's request to load a ROM calls Application::loadGame past the Fsm, from a dialog opened in any state | the callback is only invoked by parts of the toolkit outside the repository |
| `States.cpp:613` | A file shorter than the core's memory becomes the copy as it is; the periodic save then compares, and copies, the length of the memory | SaveMemory takes a file to be as long as the memory |
| `States.cpp:668` | What saveFile returns is ignored, after the copy was updated: a periodic save that failed is not tried again until the memory changes | SaveMemory takes writes to succeed; unloading the game writes whatever the copy is |
| `A:478` | The interval after which save memory is written is looked at in runTurbo only, never at normal speed | no property says how often PeriodicSave happens: the code guarantees nothing |
| `A:1170` | States is told of the game before it is loaded and not told when loading fails; its settings stay locked, "with a game loaded", until a core is loaded | modelled by LoadFails in SaveMemory and SaveStates; a lock that is too strict violates none of their properties |
| `States.cpp:756` | Save states are moved file by file; when one move fails, or the program ends between two, the rest is never looked for again | SaveStates moves all files in one step |
| `States.cpp:713` | Only the ten listed slots are looked for and moved, although up to 99 can be saved and loaded by key bindings | SlotHoldsLatest is about the listed slots; it does not hold of the others |
| `States.cpp:773` | Only the companions (.rap, .png) of files of the new format are moved; an old state loses its screenshot and its achievement progress | StateFile models what is in the companions, SaveStates which files are moved: no property joins the two |
| `A:2673` | The key bindings save and load states whatever the Fsm's state, and without a core through null entry points | SaveStates saves only in a game: the menu items are disabled without one, the key bindings are not looked at |
| `KeyBinds.cpp:384` | Two keys drive the two directions of one stick; they are pressed and released in any order | `InputFollows` |
| `Input.cpp:289` | Whether L2 or R2 counts as pressed is looked up with the index of the port's device where a pad's id belongs | AxisEvent models it; nothing in the repository says how far the trigger must be pulled |
| `KeyBinds.cpp:1304` | Saved bindings name the ids of pads in the order they were connected in that session; another order gives them to other pads, and ids beyond 9 are not read back | `ConfigurationReturns` (the property leaves out pads numbered ten and above and keys without a name; Configuration also defines EveryBindingReturns, which the model shows to fail for them) |
| `A:2606` | The pointer's position is divided by the size of the view, which may be 0 in a tiny window, and is 16 bits wide | `PictureIsRight` (the property holds where the view has a size; relative positions are not modelled) |
| `A:1347` | A core's settings are written when it is unloaded only | `SettingsReturn` |
| `Input.cpp:415` | A selected controller that no longer exists is detected with > instead of >=, here and where the state is read | `CoreHasSelectedController` (the property is about the cores that declare their controllers when they are opened; for others the index may be one too large until they do, and the id read is arbitrary in the model) |
| `A:793` | The devices of all ports are written as an array, but only an object after "input" is read: one port's device comes back, the others' are lost | `SettingsReturn` (the property is about the first port) |
| `Input.cpp:221` | A port for which the user chose None gets a joypad when the next game starts | StartGame models it; nothing in the repository says that None is kept |
| `Config.cpp:105` | The core's callback for hiding options, and the names of its categories, are kept when another core is loaded | `KeepsOnlyOwn` (KeepsOnlyOwn is about everything else a core declares; Declarations also defines ForgetsUpdateDisplay, which the model shows to fail, since Config::reset forgets the options only) |
| `Logger.cpp:170` | A ring that is full to the last byte looks like an empty one | `LogShowsLatest` (the property says what the code does there: nothing is shown) |
| `Logger.cpp:101` | The log's ring has no lock, and the audio thread logs too | LogRing takes each line to be logged in one step: the outcome of two at once is undefined |
| `Microphone.cpp:201` | A core may close the NULL that open_mic returned; it is taken for the microphone that is not open | Microphone defines ClosesOnlyOpenMic, which fails in one step: it needs no run to see |
| `Core.cpp:1579` | The length of a descriptor that has none comes from its select and disconnect bits, taken out one after the other | `ReadsTheCore` |
| `Memory.cpp:230` | A bank without memory asks the core again as it is read, a hundred times at growing intervals | `ReadsTheCore` (the intervals are not modelled; a map that begins with a hole is read through the wrong region, and left out) |
| `Memory.cpp:154` | There are sixteen readers; banks beyond them are left out | `ReadsTheCore` (checked for maps whose banks fit; the bound is two) |
| `A:1229` | The banks are cleared on every load, but installed only when the core's memory is not what it was | `ReadsTheCore` (checked where the core is loaded anew with its game (Reloads); after a refused and then accepted dialog it is not, and no banks are left) |
| `Core.cpp:1581` | The number of descriptors is set before the room for them is known to be there | Declarations defines CountsHaveMemory, which the model shows to fail when the allocator is full |
| `Allocator.h:47` | The room left is computed from a position that alignment may have moved past the end of the buffer | Declarations models the room as the number of requests that fit, not bytes: no request of a core comes near its 64 KB |
| `A:1489` | A turn swaps the sides of the window, whose messages come later; the handler calls windowResized from the middle of ensureView, whose caller then stores what it had | `PictureIsRight` (that Video knows the window's size; Picture also defines WindowTurnsWithPicture, which the model shows to fail when the picture is turned twice before a message came) |
| `A:2558` | A position in the window becomes one in the frame, through bars, scaling and four rotations, and must not leave it | `PictureIsRight` |
| `Video.cpp:283` | A change of the aspect alone is stored, but the picture is fitted anew only when its size changes | PictureIsRight leaves the aspect out; the core is told that the geometry was taken |
| `Video.cpp:830` | Whether the picture is upside down is asked of the core when vertices are made; a software core after one that renders from the bottom may find the old ones | PictureIsRight leaves the origin out |
| `Video.cpp:431` | A failed allocation counts one message down that was not counted up yet | running out of memory is not modelled; MessagesAreDrawn covers a texture that cannot be made |
| `rahasher_stream.cpp:194` | The expected size is that of the file itself; a sibling it refers to may still be short, and a hash of part of it is returned as done | HashIsOfFinishedFile is about files without siblings: with one it fails |
| `Hash.cpp:80` | A disc is identified before it goes in, and an unknown one costs hardcore; hardcore may be turned on with such a disc in | `DrivesAgree` (turning hardcore on with an unknown disc in is allowed by the code and left out) |
| `Core.cpp:766` | Whether the core took the disc is not looked at; the message says it did | `DrivesAgree` (the menu is made from what the core says, and is right) |
| `A:1748` | After a game is unloaded, or failed to load, the menu has its discs still | MenuShowsDrive is about a game being played: without one the items reach a core without a game |
| `CdRom.cpp:39` | A playlist of 2048 bytes or more is cut there, and its end is marked one byte behind the buffer | Names counts a playlist's lines; its length is not modelled |
| `Emulator.cpp:528` | Deleting a core marks the first of its entries only; the others keep the menu items of a core that is gone | `MenuLoadsWhatItSays` (cores that are on the list twice are left out once deleted) |
| `A:2040` | With no core left the menu is not built anew, and offers what was there before | `MenuLoadsWhatItSays` (left out by the property) |
| `Emulator.cpp:549` | After a failed download the rest of an earlier one is unzipped; the entry takes whatever time the file then has | `MenuLoadsWhatItSays` |
| `Core.cpp:1143` | A core gives a list of content overrides; the first entry is kept | Declarations defines ContentIsGivenAsAsked, which the model shows to fail for any entry but the first, although libretro.h:1419-1420 speaks of an array |
| `States.cpp:461` | A state can be loaded while its screenshot or its achievement progress cannot; each of the three parts has its own way to fail | `LoadRestores` (StateFile also defines FailureIsTold, which the model shows to fail: a state of the old format without a picture counts as loaded when the core refused it) |
| `States.cpp:449` | A compressed state that cannot be decompressed is reported, and its data, which are not there, are then compared with a name | StateFile takes files to be whole |
| `States.cpp:503` | The picture kept with a state may have another size than the frame buffer, and is put back by stretching it | `LoadRestores` (the property restores pictures of the buffer's size; StateFile also defines PictureReturns, which the model shows to fail for the others) |
| `HashCHD.cpp:199` | A sector behind the end of a track is refused by > where >= belongs: one frame of the next track can be read | `ReadsAskedTrack` (the property is about sectors in the track; that one frame is left out) |
| `HashCHD.cpp:212` | A hunk that cannot be read leaves the buffer half overwritten, while the number of the hunk it held stays set: a later read of that hunk takes what is there | the hash gives up a track when a read of it fails, so DiscImage ends there |
| `HashCHD.cpp:228` | A read of several sectors leaves its hunk when the offset is greater than its size, not when it is equal: without a header, the next copy begins one byte behind the hunk | `ReadsAskedTrack` (reads past the first sector where sectors have no header are left out; DiscImage also defines StaysInHunk, which the model shows to fail there) |
| `HashCHD.cpp:177` | For the largest track the metadata is read again, but the offsets counted so far are those of the end of the list | `ReadsAskedTrack` (the largest track is left out; DiscImage also defines HandleIsOfTrack, which the model shows to fail for it) |
| `Core.cpp:1012` | Seeking returns what fseek returns, 0, where libretro.h:1929 promises the new position | CoreFiles defines SeekTellsPosition, which fails in one step: it needs no run to see |
| `Config.cpp:1006` | The indicator is shown when the speed or the pause changes, the setting that forbids it is changed in a dialog at any time | Overlay defines IndicatorAgrees, which the model shows to fail when the setting is changed, or the game paused for bad performance (Application.cpp:436) |
| `A:205` | Without the window's handle the window is left to nobody: it was created, but the error path starts at the step before | `EndsClean` (the property leaves this failure to SDL_Quit, which ends the window too) |
| `A:718` | The Fifo and its mutex are freed before the audio device that reads it is closed | `EndsClean` (the property leaves this order out; Startup also defines AlwaysEndsClean, which the model shows to fail there) |
| `main.cpp:78` | When the arguments are refused the program ends without destroy, so nothing that was begun is ended | Startup models it; AlwaysEndsClean fails for it, and the operating system takes everything back |
| `main.cpp:66` | An abort anywhere unloads the core and destroys everything, from whatever state the program is in, also from inside that core | an abort ends the program in a signal handler; its outcome is undefined |
| `A:2249` | The window's place is read into variables that nothing initialised; a file that names none leaves what happened to be there | Configuration defines FullscreenStartsPlain, which the model shows to fail for such a file |
| `A:705` | The settings, the list of recent games and the bindings are written by destroy only, from what half a dozen components say of themselves, and read back by each | `ConfigurationReturns` |
| `KeyBinds.cpp:1192` | The number of a pad is one digit in the file; a binding of the tenth is read as something else | `ConfigurationReturns` (pads above nine are left out; EveryBindingReturns fails for them) |
| `KeyBinds.cpp:1351` | An old entry for a stick is read into a Binding whose members nobody has set when its text cannot be understood | Configuration reads such entries where their text can be understood |
| `States.cpp:999` | A save interval that is not among the listed ones is shown as the first, and becomes it with OK | only a file edited by hand contains one |
| `A:1177` | Whether a core needs the path is asked of the extension inside a zip, and the path it then gets is that of the zip | what a core does with the path of an archive is its own affair; ContentIsGivenAsAsked is about the buffer |
| `main.cpp:78` | The arguments are looked at also when init has failed and undone everything: a core named there is loaded into parts that are gone | Startup takes a failed init to be followed by no arguments: what the parts do afterwards is undefined |
