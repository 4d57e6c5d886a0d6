------------------------------ MODULE Frontend ------------------------------
(***************************************************************************)
(* Application and Fsm: how RALibretro opens cores, loads and unloads      *)
(* games, pauses, steps and quits, and how RetroAchievements' hardcore     *)
(* mode constrains it.  Everything here runs on the main thread; what the  *)
(* audio thread adds is in FrontendThreads.                                *)
(*                                                                         *)
(* A handler calls methods of Fsm, each of which is a transition of the    *)
(* generated state machine or a short-circuit conjunction of other such    *)
(* calls.  "todo" holds the calls a handler is still to make: the first to *)
(* fail drops the rest, as && does.  The two long methods of Application,  *)
(* loadCore and loadGame, run in steps; "doing" names the next one.        *)
(***************************************************************************)
EXTENDS LibretroCore, Naturals, Sequences

CONSTANTS
  Systems,          \* the consoles (RC_CONSOLE_*) a user may pick
  ForbiddenSystems, \* those rc_libretro_is_system_allowed rejects
  NoSystem,         \* _system = 0
  ConfirmAnswers,   \* what RA_ConfirmLoadNewRom may return
  LoadOutcomes,     \* how Core::loadGame may end
  Disallowed,       \* may an option of a core be set as hardcore forbids?
  LegacyDll         \* TRUE: RA_DisableHardcore throws (the 0.78 DLL)

ASSUME SystemsAssumption ==
  ForbiddenSystems \subseteq Systems /\ NoSystem \notin Systems
ASSUME ConfirmAnswersAssumption == ConfirmAnswers \subseteq BOOLEAN
ASSUME LoadOutcomesAssumption ==
  LoadOutcomes \subseteq {"loaded", "refused", "no_av"}
ASSUME DisallowedAssumption == Disallowed \subseteq BOOLEAN
ASSUME LegacyDllAssumption == LegacyDll \in BOOLEAN

VARIABLES
  fsm,            \* Fsm::__state
  todo,           \* the Fsm calls the running handler has yet to make
  handler,        \* the handler waiting for what Fsm::loadCore returns
  doing,          \* the next step of Application::loadCore or loadGame
  system,         \* Application::_system
  console,        \* the console last passed to RA_SetConsoleID
  cancelLoad,     \* the flag validateHardcoreEnablement raises
  zip,            \* loadGame runs inside the loadGame that extracted a zip
  tempOnDisk,     \* the file extracted from a zip exists
  temporary,      \* Application::_gamePathIsTemporary
  gameData,       \* content lent to the core until retro_deinit
  hardcore,       \* RA_HardcoreModeIsActive()
  raGame,         \* a game is active in RetroAchievements
  overlay,        \* the overlay RA_SetPaused shows and hides
  disallowed,     \* a core option has a value hardcore does not allow
  hadDisallowed,  \* Config::_hadDisallowedSetting
  redeclared      \* history: such a value came with options declared anew
                  \* by a core that ran in hardcore, and is still set

control  == <<fsm, todo, handler, doing>>
content  == <<cancelLoad, zip, tempOnDisk, temporary, gameData>>
settings == <<disallowed, hadDisallowed, redeclared>>
achievements == <<hardcore, raGame, overlay>>
vars == <<control, content, settings, achievements, system, console, coreVars>>

-----------------------------------------------------------------------------
GameStates   == {"GameRunning", "GamePaused", "GamePausedNoOvl"}
ActiveStates == GameStates \cup {"FrameStep"}
FsmStates    == ActiveStates \cup {"Start", "CoreLoaded", "Quit"}
FsmCalls     == {"loadCore", "unloadCore", "loadGame", "unloadGame", "quit"}
Handlers     == {"none", "menuLoad", "recent", "select", "commandLine"}
LoadSteps    == {"validate", "loadContent", "revalidate", "identify", "finish"}
Steps        == LoadSteps \cup {"nothing", "openCore", "startCore", "tearDown"}

(* Application::isGameActive and Application::isPaused.                    *)
IsGameActive == fsm \in ActiveStates
IsPaused     == fsm \in {"GamePaused", "GamePausedNoOvl"}

TypeOK ==
  /\ CoreTypeOK
  /\ fsm \in FsmStates
  /\ todo \in Seq(FsmCalls)
  /\ handler \in Handlers
  /\ doing \in Steps
  /\ system \in Systems \cup {NoSystem}
  /\ console \in Systems \cup {NoSystem}
  /\ cancelLoad \in BOOLEAN /\ zip \in BOOLEAN
  /\ tempOnDisk \in BOOLEAN /\ temporary \in BOOLEAN
  /\ gameData \in {"none", "lent", "freed"}
  /\ hardcore \in BOOLEAN /\ raGame \in BOOLEAN /\ overlay \in BOOLEAN
  /\ disallowed \in BOOLEAN /\ hadDisallowed \in BOOLEAN
  /\ redeclared \in BOOLEAN

Init ==
  /\ CoreInit
  /\ fsm = "Start" /\ todo = <<>> /\ handler = "none" /\ doing = "nothing"
  /\ system = NoSystem /\ console = NoSystem
  /\ cancelLoad = FALSE /\ zip = FALSE
  /\ tempOnDisk = FALSE /\ temporary = FALSE /\ gameData = "none"
  /\ hardcore \in BOOLEAN /\ raGame = FALSE /\ overlay = FALSE
  /\ disallowed = FALSE /\ hadDisallowed = FALSE /\ redeclared = FALSE

-----------------------------------------------------------------------------
(* Config::validateSettingsForHardcore.                                    *)

HardcoreAllowed ==
  /\ ~disallowed
  /\ ~hadDisallowed
  /\ system \notin ForbiddenSystems

(* With a prompt, the user may give up hardcore instead, except when the   *)
(* offending option has already been set back.                             *)
ValidateSettings(ok) ==
  \/ /\ ~hardcore /\ ok
     /\ hadDisallowed' = (hadDisallowed \/ disallowed)
     /\ UNCHANGED hardcore
  \/ /\ hardcore /\ (HardcoreAllowed <=> ok)
     /\ UNCHANGED <<hardcore, hadDisallowed>>
  \/ /\ hardcore /\ ok
     /\ \/ disallowed
        \/ ~hadDisallowed /\ system \in ForbiddenSystems
     /\ hardcore' = FALSE
     /\ hadDisallowed' = (hadDisallowed \/ disallowed)

(* Application::validateHardcoreEnablement, called back while RetroAchieve-*)
(* ments turns hardcore on: the switch is undone when validation fails,    *)
(* which the legacy DLL cannot do.                                         *)
SwitchToHardcore ==
  /\ hardcore' = (HardcoreAllowed \/ LegacyDll)
  /\ cancelLoad' = (cancelLoad \/ (~HardcoreAllowed /\ LegacyDll))

-----------------------------------------------------------------------------
(* How a call ends.                                                        *)

(* An Fsm method returns: the rest of the conjunction follows, or the      *)
(* handler continues.  The menu's loadGame ignores what loadCore returned. *)
Return(ok) ==
  IF ok /\ Len(todo) > 1
    THEN /\ todo' = Tail(todo)
         /\ UNCHANGED <<handler, system>>
    ELSE /\ todo' = IF \/ handler = "menuLoad"
                       \/ ok /\ handler \in {"recent", "commandLine"}
                      THEN <<"loadGame">> ELSE <<>>
         /\ handler' = "none"
         /\ system' = IF ~ok /\ handler \in {"recent", "select"}
                        THEN NoSystem ELSE system

Calling(call) == doing = "nothing" /\ todo # <<>> /\ Head(todo) = call

(* The transitions of the generated Fsm that are conjunctions of others.   *)
Expand(calls) == todo' = calls \o Tail(todo) /\ UNCHANGED <<handler, system>>

-----------------------------------------------------------------------------
(* Fsm::loadCore and Application::loadCore.                                *)

(* Mutants: the core that is loaded is not unloaded first; the game that   *)
(* runs is not unloaded first.                                             *)
FsmLoadCoreOverCore ==
  /\ Calling("loadCore")
  /\ fsm \in {"Start", "CoreLoaded"}
  /\ doing' = "openCore"
  /\ UNCHANGED <<fsm, todo, handler, system, content, settings, achievements,
                 console, coreVars>>

FsmLoadCoreOverGame ==
  /\ Calling("loadCore")
  /\ fsm \in GameStates \cup {"Start"}
  /\ IF fsm = "Start" THEN doing' = "openCore" /\ UNCHANGED <<todo, handler, system>>
                      ELSE Expand(<<"loadCore">>) /\ UNCHANGED doing
  /\ UNCHANGED <<fsm, content, settings, achievements, console, coreVars>>

FsmLoadCore ==
  /\ Calling("loadCore")
  /\ \/ /\ fsm = "Start"
        /\ doing' = "openCore"
        /\ UNCHANGED <<todo, handler, system>>
     \/ /\ fsm = "CoreLoaded"
        /\ Expand(<<"unloadCore", "loadCore">>)
        /\ UNCHANGED doing
     \/ /\ fsm \in GameStates
        /\ Expand(<<"unloadGame", "unloadCore", "loadCore">>)
        /\ UNCHANGED doing
     \/ /\ fsm \in {"FrameStep", "Quit"}
        /\ Return(FALSE)
        /\ UNCHANGED doing
  /\ UNCHANGED <<fsm, content, settings, achievements, console, coreVars>>

(* The first half: options are forgotten, the library is opened, and the   *)
(* saved options of the core are read.                                     *)
OpenCore(ok) ==
  /\ doing = "openCore"
  /\ LoadCore(ok)
  /\ disallowed' \in IF ok THEN Disallowed ELSE {FALSE}
  /\ hadDisallowed' = FALSE /\ redeclared' = FALSE
  /\ IF ok THEN doing' = "startCore" /\ UNCHANGED <<todo, handler, system>>
           ELSE doing' = "nothing" /\ Return(FALSE)
  /\ UNCHANGED <<fsm, content, achievements, console>>

(* The second half: the core starts, and declares its options.             *)
StartCore(ok) ==
  /\ doing = "startCore"
  /\ InitCore(ok)
  /\ disallowed' \in Disallowed /\ redeclared' = FALSE
  /\ fsm' = IF ok THEN "CoreLoaded" ELSE fsm
  /\ doing' = "nothing"
  /\ Return(ok)
  /\ UNCHANGED <<hadDisallowed, content, achievements, console>>

(* Fsm::unloadCore and Application::unloadCore.                            *)
FsmUnloadCore ==
  /\ Calling("unloadCore")
  /\ \/ /\ fsm = "CoreLoaded"
        /\ Destroy
        /\ gameData' = "none"
        /\ fsm' = "Start"
        /\ Return(TRUE)
     \/ /\ fsm # "CoreLoaded"
        /\ Return(FALSE)
        /\ UNCHANGED <<fsm, gameData, coreVars>>
  /\ UNCHANGED <<doing, cancelLoad, zip, tempOnDisk, temporary, settings,
                 achievements, console>>

-----------------------------------------------------------------------------
(* Fsm::loadGame and Application::loadGame.                                *)

FsmLoadGame ==
  /\ Calling("loadGame")
  /\ \/ /\ fsm = "CoreLoaded"
        /\ doing' = "validate"
        /\ UNCHANGED <<todo, handler, system>>
     \/ /\ fsm \in GameStates
        /\ Expand(<<"unloadGame", "loadGame">>)
        /\ UNCHANGED doing
     \/ /\ fsm \in {"Start", "FrameStep", "Quit"}
        /\ Return(FALSE)
        /\ UNCHANGED doing
  /\ UNCHANGED <<fsm, content, settings, achievements, console, coreVars>>

(* Mutant: the outer loadGame leaves the file behind.                      *)
LoadFailsLeavingFile ==
  doing' = "nothing" /\ zip' = FALSE /\ UNCHANGED tempOnDisk /\ Return(FALSE)

(* loadGame returns false; around it, the loadGame that extracted the zip  *)
(* deletes what it extracted.                                              *)
LoadFails ==
  /\ doing' = "nothing"
  /\ zip' = FALSE
  /\ tempOnDisk' = IF zip THEN FALSE ELSE tempOnDisk
  /\ Return(FALSE)

(* The settings are validated; then either the content is read, or it is a *)
(* zip the core wants extracted: the extracted file is loaded by a nested  *)
(* call that starts over.                                                  *)
Validate ==
  /\ doing = "validate"
  /\ \/ /\ ValidateSettings(TRUE)
        /\ doing' = "loadContent"
        /\ UNCHANGED <<todo, handler, system, zip, tempOnDisk>>
     \/ /\ ValidateSettings(TRUE)
        /\ ~zip
        /\ zip' = TRUE /\ tempOnDisk' = TRUE
        /\ UNCHANGED <<todo, handler, system, doing>>
     \/ /\ ValidateSettings(FALSE) \/ ValidateSettings(TRUE)
        /\ LoadFails
  /\ UNCHANGED <<fsm, cancelLoad, temporary, gameData, disallowed, redeclared,
                 raGame, overlay, console, coreVars>>

(* retro_load_game runs.  It may change options, and the core may have     *)
(* asked for its content to stay in memory.                                *)
LoadContent(outcome) ==
  /\ doing = "loadContent"
  /\ LoadGame(outcome)
  /\ disallowed' \in Disallowed /\ redeclared' = FALSE
  /\ gameData' \in IF outcome = "loaded" THEN {"none", "lent"} ELSE {"none"}
  /\ doing' = IF outcome = "loaded" THEN "revalidate" ELSE "tearDown"
  /\ UNCHANGED <<fsm, todo, handler, system, cancelLoad, zip, tempOnDisk,
                 temporary, hadDisallowed, achievements, console>>

(* Mutant: the Fsm is not told that the core is gone.                      *)
TearDownUnnoticed ==
  /\ doing = "tearDown"
  /\ LoadFails
  /\ UNCHANGED <<fsm, cancelLoad, temporary, gameData, settings, achievements,
                 console, coreVars>>

(* "A failure in loadGame typically destroys the core": Fsm::unloadCore.   *)
TearDown ==
  /\ doing = "tearDown"
  /\ IF libraryName
       THEN UNCHANGED <<fsm, coreVars>>
       ELSE Destroy /\ fsm' = "Start"
  /\ LoadFails
  /\ UNCHANGED <<cancelLoad, temporary, gameData, settings, achievements,
                 console>>

(* The core gives the game up, and its content is freed.                   *)
AbandonGame ==
  /\ UnloadGame
  /\ gameData' = IF gameData = "lent" THEN "freed" ELSE gameData
  /\ LoadFails

(* Mutant: what retro_load_game changed is not looked at.                  *)
RevalidateNothing ==
  /\ doing = "revalidate"
  /\ doing' = "identify"
  /\ console' = system
  /\ UNCHANGED <<fsm, todo, handler, system, content, settings, achievements,
                 coreVars>>

(* The settings are validated again, as loading may have changed them.     *)
Revalidate ==
  /\ doing = "revalidate"
  /\ \/ /\ ValidateSettings(TRUE)
        /\ doing' = "identify"
        /\ console' = system
        /\ UNCHANGED <<todo, handler, system, zip, tempOnDisk, gameData,
                       coreVars>>
     \/ /\ ValidateSettings(FALSE)
        /\ AbandonGame
        /\ UNCHANGED console
  /\ UNCHANGED <<fsm, cancelLoad, temporary, disallowed, redeclared, raGame,
                 overlay>>

(* romLoaded hashes the content and activates the game, at which point     *)
(* RetroAchievements may turn hardcore on.                                 *)
Identify ==
  /\ doing = "identify"
  /\ \/ /\ raGame' = TRUE
        /\ doing' = "finish"
        /\ \/ UNCHANGED <<hardcore, cancelLoad>>
           \/ ~hardcore /\ SwitchToHardcore
        /\ UNCHANGED <<todo, handler, system, zip, tempOnDisk, gameData,
                       coreVars>>
     \/ /\ AbandonGame
        /\ UNCHANGED <<raGame, hardcore, cancelLoad>>
  /\ UNCHANGED <<fsm, temporary, settings, overlay, console>>

(* Mutant: the file extracted from a zip is not marked as temporary.       *)
FinishLoadUnmarked ==
  /\ doing = "finish" /\ ~cancelLoad
  /\ UseGame("memory")
  /\ fsm' = "GameRunning"
  /\ doing' = "nothing"
  /\ zip' = FALSE
  /\ Return(TRUE)
  /\ UNCHANGED <<cancelLoad, tempOnDisk, temporary, gameData, settings,
                 achievements, console>>

FinishLoad ==
  /\ doing = "finish"
  /\ cancelLoad' = FALSE
  /\ \/ /\ cancelLoad    \* the Fsm is in CoreLoaded and ignores unloadGame
        /\ LoadFails
        /\ UNCHANGED <<fsm, temporary, coreVars>>
     \/ /\ ~cancelLoad
        /\ UseGame("memory")
        /\ fsm' = "GameRunning"
        /\ doing' = "nothing"
        /\ temporary' = zip
        /\ zip' = FALSE
        /\ UNCHANGED tempOnDisk
        /\ Return(TRUE)
  /\ UNCHANGED <<gameData, settings, achievements, console>>

(* Application::unloadGame once the user agrees: the battery-backed memory *)
(* is saved, and the game forgotten everywhere but in the core.            *)
ReleaseKeepsAchievements ==
  /\ UseGame("memory")
  /\ UNCHANGED raGame
  /\ tempOnDisk' = IF temporary THEN FALSE ELSE tempOnDisk
  /\ temporary' = FALSE
  /\ gameData' = IF gameData = "lent" THEN "freed" ELSE gameData

ReleaseGame ==
  /\ UseGame("memory")
  /\ raGame' = FALSE
  /\ tempOnDisk' = IF temporary THEN FALSE ELSE tempOnDisk
  /\ temporary' = FALSE
  /\ gameData' = IF gameData = "lent" THEN "freed" ELSE gameData

(* Fsm::unloadGame.                                                        *)
FsmUnloadGame ==
  /\ Calling("unloadGame")
  /\ \/ /\ fsm \in GameStates
        /\ cancelLoad' = FALSE
        /\ \/ /\ TRUE \in ConfirmAnswers
              /\ ReleaseGame
              /\ fsm' = "CoreLoaded"
              /\ Return(TRUE)
           \/ /\ FALSE \in ConfirmAnswers
              /\ Return(FALSE)
              /\ UNCHANGED <<fsm, raGame, tempOnDisk, temporary, gameData,
                             coreVars>>
     \/ /\ fsm \notin GameStates
        /\ Return(FALSE)
        /\ UNCHANGED <<fsm, raGame, content, coreVars>>
  /\ UNCHANGED <<doing, zip, settings, hardcore, overlay, console>>

(* Mutant: quitting a game stops at unloading it.                          *)
FsmQuitGameOnly ==
  /\ Calling("quit")
  /\ IF fsm = "Start" THEN fsm' = "Quit" /\ Return(TRUE)
       ELSE /\ UNCHANGED fsm
            /\ Expand(<<IF fsm = "CoreLoaded" THEN "unloadCore" ELSE "unloadGame">>)
  /\ UNCHANGED <<doing, content, settings, achievements, console, coreVars>>

(* Fsm::quit.                                                              *)
FsmQuit ==
  /\ Calling("quit")
  /\ \/ /\ fsm = "Start"
        /\ fsm' = "Quit"
        /\ Return(TRUE)
     \/ /\ fsm = "CoreLoaded"
        /\ Expand(<<"unloadCore", "quit">>)
        /\ UNCHANGED fsm
     \/ /\ fsm \in GameStates
        /\ Expand(<<"unloadGame", "quit">>)
        /\ UNCHANGED fsm
     \/ /\ fsm \in {"FrameStep", "Quit"}
        /\ Return(FALSE)
        /\ UNCHANGED fsm
  /\ UNCHANGED <<doing, content, settings, achievements, console, coreVars>>

-----------------------------------------------------------------------------
(* What the user, RetroAchievements and the frame loop do between handlers.*)

Idle == doing = "nothing" /\ todo = <<>> /\ fsm # "Quit"

Start(calls, waiting) ==
  /\ Idle
  /\ todo' = calls
  /\ handler' = waiting
  /\ UNCHANGED <<fsm, doing, content, settings, achievements, console, coreVars>>

(* Mutant: the core is not started afresh.                                 *)
MenuLoadGameInPlace ==
  /\ fsm \in GameStates \cup {"CoreLoaded"}
  /\ Start(<<"loadGame">>, "none")
  /\ UNCHANGED system

(* File > Load Game, enabled in every state but Start and FrameStep.       *)
MenuLoadGame ==
  /\ fsm \in GameStates \cup {"CoreLoaded"}
  /\ IF gameLoaded THEN Start(<<"loadCore">>, "menuLoad")
                   ELSE Start(<<"loadGame">>, "none")
  /\ UNCHANGED system

LoadRecent(s)  == Start(<<"loadCore">>, "recent") /\ system' = s
SelectCore(s)  == Start(<<"loadCore">>, "select") /\ system' = s
CommandLine(s) == /\ fsm = "Start" /\ Start(<<"loadCore">>, "commandLine")
                  /\ system' = s
Exit           == Start(<<"quit">>, "none") /\ UNCHANGED system

(* Fsm::pauseGame, pauseGameNoOvl, resumeGame and step, as functions of    *)
(* the state they are called in.                                           *)
FsmPauseGameOddly(state) == "Paused"   \* Mutant: a state there is not

FsmPauseGame(state) ==
  IF state \in {"GameRunning", "GamePausedNoOvl"} THEN "GamePaused" ELSE state

FsmPauseGameNoOvl(state) ==
  IF state = "GameRunning" /\ ~hardcore THEN "GamePausedNoOvl" ELSE state

FsmResumeGame(state) ==
  CASE state = "FrameStep" -> "GamePaused"
    [] state \in {"GamePaused", "GamePausedNoOvl"} -> "GameRunning"
    [] OTHER -> state

FsmStep(state) ==
  IF state \in GameStates /\ ~hardcore THEN "FrameStep" ELSE state

(* A handler that only moves the Fsm to "state" and maybe RA_SetPaused.    *)
MoveTo(state, paused) ==
  /\ Idle
  /\ fsm' = state
  /\ overlay' = paused
  /\ UNCHANGED <<todo, handler, doing, content, settings, hardcore, raGame,
                 system, console, coreVars>>

Resume == MoveTo(FsmResumeGame(fsm), FALSE)

Pause == IF hardcore THEN MoveTo(FsmPauseGame(fsm), TRUE)
                     ELSE MoveTo(FsmPauseGameNoOvl(fsm), overlay)

PauseToggle ==
  IF fsm = "GamePaused" \/ overlay
    THEN Resume
    ELSE MoveTo(FsmPauseGame(fsm), TRUE)

PauseToggleNoOvl ==
  CASE fsm = "GamePausedNoOvl" -> MoveTo(FsmResumeGame(fsm), overlay)
    [] fsm = "GamePaused"      -> Resume
    [] OTHER                   -> MoveTo(FsmPauseGameNoOvl(fsm), overlay)

Step == MoveTo(FsmStep(fsm), overlay)

(* pauseForBadPerformance, when fast-forwarding falls short.               *)
BadPerformance ==
  fsm = "GameRunning" /\ hardcore /\ MoveTo(FsmPauseGame(fsm), overlay)

(* A core that runs, or is reset, may declare its options anew: Config::   *)
(* setVariables gives each the value it has in _selections, the default or *)
(* the first, and nobody validates what comes of it.                       *)
DeclareAnew ==
  /\ \/ UNCHANGED <<disallowed, redeclared>>
     \/ disallowed' \in Disallowed /\ redeclared' = (hardcore' /\ disallowed')
  /\ UNCHANGED hadDisallowed

(* One frame of the game, in run and runSmoothed.                          *)
RunFrame ==
  /\ Idle
  /\ fsm \in {"GameRunning", "FrameStep"}
  /\ UNCHANGED <<todo, handler, doing, content, achievements, system, console>>
  /\ UseGame("run") /\ DeclareAnew
  /\ fsm' = IF fsm = "FrameStep" THEN FsmResumeGame(fsm) ELSE fsm

(* Application::resetGame: the core is reset and its memory mapped again.   *)
ResetCore ==
  /\ lib' = Call(Call(lib, "reset"), "memory")
  /\ DeclareAnew
  /\ UNCHANGED <<api, gameLoaded, libraryName>>

(* Mutant: the core is reset whatever the Fsm says.                        *)
ResetGameAlways ==
  /\ Idle
  /\ UNCHANGED <<control, content, achievements, system, console>>
  /\ ResetCore

(* Reset, from the menu or a key: a paused game is then run for one frame. *)
ResetGame ==
  /\ Idle
  /\ fsm \in GameStates
  /\ UNCHANGED <<todo, handler, doing, content, achievements, system, console>>
  /\ ResetCore
  /\ fsm' = IF IsPaused THEN FsmStep(fsm) ELSE fsm

(* Config::showDialog is closed with OK.  In hardcore, a value that is not *)
(* allowed needs the user to give hardcore up, and is remembered; without  *)
(* hardcore nobody looks at the values.                                    *)
CoreConfig(d) ==
  /\ Idle
  /\ libraryName
  /\ disallowed' = d /\ redeclared' = FALSE
  /\ hardcore' = (hardcore /\ ~d)
  /\ hadDisallowed' = (hadDisallowed \/ (hardcore /\ d))
  /\ IF IsGameActive THEN UseGame("memory") ELSE UNCHANGED coreVars
  /\ UNCHANGED <<control, content, raGame, overlay, system, console>>

(* The user turns hardcore on: RetroAchievements calls reset(), which      *)
(* resets the game when the switch is valid.  With the legacy DLL an       *)
(* invalid switch unloads the game instead.                                *)
EnableHardcore ==
  /\ Idle
  /\ libraryName
  /\ ~hardcore
  /\ SwitchToHardcore
  /\ IF HardcoreAllowed /\ IsGameActive THEN ResetCore
                                        ELSE UNCHANGED <<settings, coreVars>>
  /\ todo' = IF ~HardcoreAllowed /\ LegacyDll THEN <<"unloadGame">> ELSE todo
  /\ UNCHANGED <<fsm, handler, doing, zip, tempOnDisk, temporary, gameData,
                 raGame, overlay, system, console>>

DisableHardcore ==
  /\ Idle
  /\ hardcore
  /\ hardcore' = FALSE
  /\ UNCHANGED <<control, content, settings, raGame, overlay, system, console,
                 coreVars>>

-----------------------------------------------------------------------------
(* What continues a handler once it has begun, what begins one, and what   *)
(* the frame loop does of its own accord.                                  *)
Continue ==
  \/ FsmLoadCore \/ FsmUnloadCore \/ FsmLoadGame \/ FsmUnloadGame \/ FsmQuit
  \/ \E ok \in BOOLEAN: OpenCore(ok) \/ StartCore(ok)
  \/ Validate
  \/ \E outcome \in LoadOutcomes: LoadContent(outcome)
  \/ TearDown \/ Revalidate \/ Identify \/ FinishLoad

Input ==
  \/ MenuLoadGame \/ Exit
  \/ \E s \in Systems: LoadRecent(s) \/ SelectCore(s) \/ CommandLine(s)
  \/ Resume \/ Pause \/ PauseToggle \/ PauseToggleNoOvl \/ Step \/ ResetGame
  \/ \E d \in Disallowed: CoreConfig(d)
  \/ EnableHardcore \/ DisableHardcore

Next == Continue \/ Input \/ RunFrame \/ BadPerformance

Spec == Init /\ [][Next]_vars

(* A handler, once begun, runs: nothing in it waits for another actor.     *)
FairSpec == Spec /\ WF_vars(Continue)

-----------------------------------------------------------------------------
(* While the Fsm shows a game, the core has one loaded and its entry       *)
(* points are valid; with a core loaded it has been started.  Fsm, Core    *)
(* and the library keep three separate records of this, written at         *)
(* different moments of loadCore, loadGame and unloadGame.                 *)
FsmAgreesWithCore ==
  /\ fsm \in ActiveStates =>
       api = "bound" /\ lib.state = "playing" /\ gameLoaded
  /\ fsm = "CoreLoaded" /\ doing # "tearDown" =>
       api = "bound" /\ lib.state \in {"ready", "playing"}

(* No frame, reset or memory access ever reaches a core without a game,    *)
(* and nothing is called through a pointer of a library already closed.    *)
UsesOnlyLoadedGame ==
  lib.misuse \cap {"run", "reset", "memory", "pointer"} = {}

(* retro_init and retro_deinit alternate, however a load fails.            *)
InitPairedWithDeinit == lib.misuse \cap {"open", "init", "deinit"} = {}

(* What loadGame extracts from a zip is deleted once: it exists only while *)
(* it is being loaded or is the game being played, and _gamePathIsTemporary*)
(* never marks a file of the user's for deletion.                          *)
ExtractedFileHasOwner ==
  /\ tempOnDisk <=> (zip \/ temporary)
  /\ temporary => IsGameActive
  /\ zip => doing # "nothing"

(* A game is not played in hardcore with options that the saved settings,  *)
(* the dialog, the load or a frame without hardcore gave values hardcore   *)
(* forbids, nor after such a value was tracked and set back: each way to   *)
(* such a value and each way to hardcore is looked at in a step of its own.*)
(* Values that come with options declared anew by a core running in hard-  *)
(* core are left out: nothing validates those (see NeverDisallowed).       *)
HardcoreHasCleanSettings ==
  hardcore /\ IsGameActive => ~hadDisallowed /\ (disallowed => redeclared)

(* "Return whether a game has been loaded", RA_Implementation.cpp: Retro-  *)
(* Achievements watches a game exactly while the Fsm has one, except while *)
(* a load is under way.                                                    *)
AchievementsFollowGame ==
  doing = "nothing" => (raGame <=> IsGameActive)

(* Every handler comes to its end: no cycle of Fsm calls expands forever.  *)
HandlersEnd == (todo # <<>>) ~> (todo = <<>>)

(* A confirmed Exit ends the program, from every state but FrameStep,      *)
(* where the Fsm has no quit transition.                                   *)
ExitQuits ==
  (todo = <<"quit">> /\ fsm \in FsmStates \ {"FrameStep", "Quit"})
     ~> fsm = "Quit"

-----------------------------------------------------------------------------
(* What comments and headers of the repository say, and the code does not  *)
(* always do.                                                              *)

(* "ASSERT: loadCore will unload the current core, even if it's the same   *)
(* core", Application.cpp: retro_load_game never finds a game loaded.      *)
NeverLoadsOverGame == "load_game" \notin lib.misuse

(* "data and size are valid until retro_deinit returns", libretro.h, of    *)
(* content the core asked to keep.                                         *)
PersistentDataOutlivesGame == gameData # "freed"

(* "%s cannot be set to %s in hardcore mode", Config.cpp:491: fails, for a *)
(* core may declare its options anew in retro_run or retro_reset.          *)
NeverDisallowed == hardcore /\ IsGameActive => ~disallowed

(* "non hardcore mode - just track the fact that a disallowed setting was  *)
(* set", Config.cpp:497: fails, for the dialog tracks in hardcore only, and *)
(* what is set and set back between two validations leaves no trace.       *)
SoftcoreIsTracked ==
  [][~hardcore /\ CoreConfig(TRUE) => hadDisallowed']_vars

(* "You cannot earn hardcore achievements for %s using %s", Config.cpp: no *)
(* game of a forbidden system is played in hardcore.                       *)
ForbiddenSystemIsNotHardcore ==
  hardcore /\ IsGameActive => console \notin ForbiddenSystems
=============================================================================
