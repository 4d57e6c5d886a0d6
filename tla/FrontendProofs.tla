--------------------------- MODULE FrontendProofs ---------------------------
(***************************************************************************)
(* Theorems about Frontend, for every value of its constants.              *)
(*                                                                         *)
(* What a step of a handler may do depends on which step it is: the Fsm,   *)
(* the wrapper and the library agree only between handlers.  Phases says   *)
(* what holds of them in each step, and is inductive given TypeOK.         *)
(***************************************************************************)
EXTENDS Frontend, TLAPS

-----------------------------------------------------------------------------
(* The types of what the operators change.                                 *)

ControlTypeOK ==
  /\ todo \in Seq(FsmCalls)
  /\ handler \in Handlers
  /\ system \in Systems \cup {NoSystem}

(* A call leaves a library a library.                                      *)
LEMMA CallType ==
  ASSUME NEW l \in LibType, NEW c \in LibCalls
  PROVE  /\ After(l, c) \in LibType
         /\ Call(l, c) \in LibType
         /\ GuardedCall(l, c) \in LibType
BY DEF After, Call, GuardedCall, LibType, LibStates, Misuses, LibCalls,
       Before, Behind

(* The same of the wrapper's operations, which are sequences of calls.     *)
LEMMA CoreOperationTypes ==
  ASSUME CoreTypeOK
  PROVE  /\ \A ok \in BOOLEAN: LoadCore(ok) \/ InitCore(ok) => CoreTypeOK'
         /\ \A o \in {"loaded", "refused", "no_av"}: LoadGame(o) => CoreTypeOK'
         /\ UnloadGame \/ Destroy \/ ResetCore => CoreTypeOK'
         /\ \A c \in {"run", "memory"}: UseGame(c) => CoreTypeOK'
<1>1. \A ok \in BOOLEAN: LoadCore(ok) => CoreTypeOK'
  BY CallType DEF CoreTypeOK, LoadCore, Reset, LibCalls
<1>2. \A ok \in BOOLEAN: InitCore(ok) => CoreTypeOK'
  BY CallType DEF CoreTypeOK, InitCore, LibCalls
<1>3. ASSUME NEW o \in {"loaded", "refused", "no_av"}, LoadGame(o)
      PROVE  CoreTypeOK'
  <2>1. lib' \in LibType
    <3>1. CASE o = "loaded"
      BY <1>3, <3>1, CallType DEF CoreTypeOK, LoadGame, LibCalls
    <3>2. CASE o = "refused"
      <4>1. Call(lib, "load_refused") \in LibType
        BY CallType DEF CoreTypeOK, LibCalls
      <4>2. GuardedCall(Call(lib, "load_refused"), "deinit") \in LibType
        BY <4>1, CallType DEF LibCalls
      <4>3. QED  BY <1>3, <3>2, <4>2, CallType DEF LoadGame, LibCalls
    <3>3. CASE o = "no_av"
      <4>1. Call(lib, "load_game") \in LibType
        BY CallType DEF CoreTypeOK, LibCalls
      <4>2. GuardedCall(Call(lib, "load_game"), "unload_game") \in LibType
        BY <4>1, CallType DEF LibCalls
      <4>3. GuardedCall(GuardedCall(Call(lib, "load_game"), "unload_game"),
                        "deinit") \in LibType
        BY <4>2, CallType DEF LibCalls
      <4>4. After(GuardedCall(GuardedCall(Call(lib, "load_game"),
                              "unload_game"), "deinit"), "close") \in LibType
        BY <4>3, CallType DEF LibCalls
      <4>5. QED  BY <1>3, <3>3, <4>4, CallType DEF LoadGame, LibCalls
    <3>4. QED  BY <3>1, <3>2, <3>3
  <2>2. QED  BY <1>3, <2>1 DEF LoadGame, CoreTypeOK, Reset
<1>4. UnloadGame => CoreTypeOK'
  BY CallType DEF CoreTypeOK, UnloadGame, LibCalls
<1>5. ASSUME Destroy  PROVE CoreTypeOK'
  <2> DEFINE unloaded == IF gameLoaded THEN GuardedCall(lib, "unload_game")
                                       ELSE lib
  <2>1. unloaded \in LibType
    BY CallType DEF CoreTypeOK, LibCalls
  <2>2. GuardedCall(unloaded, "deinit") \in LibType
    BY <2>1, CallType DEF LibCalls
  <2>3. After(GuardedCall(unloaded, "deinit"), "close") \in LibType
    BY <2>2, CallType DEF LibCalls
  <2>4. QED  BY <1>5, <2>3 DEF Destroy, CoreTypeOK, Reset
<1>6. ResetCore => CoreTypeOK'
  <2>1. Call(lib, "reset") \in LibType
    BY CallType DEF CoreTypeOK, LibCalls
  <2>2. Call(Call(lib, "reset"), "memory") \in LibType
    BY <2>1, CallType DEF LibCalls
  <2>3. QED  BY <2>2 DEF ResetCore, CoreTypeOK
<1>7. \A c \in {"run", "memory"}: UseGame(c) => CoreTypeOK'
  BY CallType DEF CoreTypeOK, UseGame, LibCalls
<1>8. QED  BY <1>1, <1>2, <1>3, <1>4, <1>5, <1>6, <1>7

(* However a call of the Fsm ends, what a handler has left to do is a      *)
(* sequence of such calls.                                                 *)
LEMMA ReturnType ==
  ASSUME TypeOK, NEW ok \in BOOLEAN, Return(ok)
  PROVE  ControlTypeOK'
<1>1. todo' \in Seq(FsmCalls)
  <2>1. CASE ok /\ Len(todo) > 1
    <3>1. todo # <<>>  BY <2>1 DEF TypeOK
    <3>2. Tail(todo) \in Seq(FsmCalls)  BY <3>1 DEF TypeOK
    <3>3. QED  BY <2>1, <3>2 DEF Return
  <2>2. CASE ~(ok /\ Len(todo) > 1)
    <3>1. <<"loadGame">> \in Seq(FsmCalls) /\ <<>> \in Seq(FsmCalls)
      BY DEF FsmCalls
    <3>2. QED  BY <2>2, <3>1 DEF Return
  <2>3. QED  BY <2>1, <2>2
<1>2. handler' \in Handlers /\ system' \in Systems \cup {NoSystem}
  BY DEF Return, TypeOK, Handlers
<1>3. QED  BY <1>1, <1>2 DEF ControlTypeOK

LEMMA ExpandType ==
  ASSUME TypeOK, todo # <<>>, NEW calls \in Seq(FsmCalls), Expand(calls)
  PROVE  ControlTypeOK'
<1>1. Tail(todo) \in Seq(FsmCalls)  BY DEF TypeOK
<1>2. calls \o Tail(todo) \in Seq(FsmCalls)  BY <1>1
<1>3. QED  BY <1>2 DEF Expand, TypeOK, ControlTypeOK

(* The sequences the transitions of the Fsm expand to.                     *)
LEMMA ExpansionTypes ==
  /\ <<"unloadCore", "loadCore">> \in Seq(FsmCalls)
  /\ <<"unloadGame", "unloadCore", "loadCore">> \in Seq(FsmCalls)
  /\ <<"unloadGame", "loadGame">> \in Seq(FsmCalls)
  /\ <<"unloadCore", "quit">> \in Seq(FsmCalls)
  /\ <<"unloadGame", "quit">> \in Seq(FsmCalls)
  /\ <<"unloadGame">> \in Seq(FsmCalls)
  /\ <<"loadGame">> \in Seq(FsmCalls)
  /\ <<"loadCore">> \in Seq(FsmCalls)
  /\ <<"quit">> \in Seq(FsmCalls)
BY DEF FsmCalls

-----------------------------------------------------------------------------
(* Type correctness.                                                       *)

LEMMA ValidateType ==
  ASSUME TypeOK, NEW ok \in BOOLEAN, ValidateSettings(ok)
  PROVE  hardcore' \in BOOLEAN /\ hadDisallowed' \in BOOLEAN
BY DEF TypeOK, ValidateSettings

LEMMA DeclareAnewType ==
  ASSUME TypeOK, DeclareAnew, hardcore' \in BOOLEAN
  PROVE  disallowed' \in BOOLEAN /\ hadDisallowed' \in BOOLEAN /\ redeclared' \in BOOLEAN
<1>1. CASE UNCHANGED <<disallowed, redeclared>>  BY <1>1 DEF TypeOK, DeclareAnew
<1>2. CASE disallowed' \in Disallowed /\ redeclared' = (hardcore' /\ disallowed')
  BY <1>2, DisallowedAssumption, Zenon DEF TypeOK, DeclareAnew
<1>3. QED  BY <1>1, <1>2 DEF DeclareAnew

LEMMA LoadFailsType ==
  ASSUME TypeOK, LoadFails
  PROVE  ControlTypeOK' /\ doing' \in Steps /\ zip' \in BOOLEAN
         /\ tempOnDisk' \in BOOLEAN
<1>1. ControlTypeOK'  BY ReturnType DEF LoadFails
<1>2. QED  BY <1>1 DEF LoadFails, TypeOK, Steps

LEMMA FsmTypes ==
  ASSUME TypeOK
  PROVE  /\ FsmPauseGame(fsm) \in FsmStates
         /\ FsmPauseGameNoOvl(fsm) \in FsmStates
         /\ FsmResumeGame(fsm) \in FsmStates
         /\ FsmStep(fsm) \in FsmStates
BY DEF TypeOK, FsmStates, ActiveStates, GameStates, FsmPauseGame,
       FsmPauseGameNoOvl, FsmResumeGame, FsmStep

(* The steps that continue a handler keep the types.                       *)
LEMMA ContinueType ==
  ASSUME TypeOK, Continue
  PROVE  TypeOK'
<1> USE DEF control, content, settings, achievements, coreVars, vars
<1>1. CASE FsmLoadCore
  <2>1. ControlTypeOK'
    BY <1>1, ReturnType, ExpandType, ExpansionTypes
    DEF FsmLoadCore, Calling, ControlTypeOK, TypeOK
  <2>2. /\ doing' \in {doing, "openCore"}
        /\ UNCHANGED <<fsm, content, settings, achievements, console, coreVars>>
    BY <1>1 DEF FsmLoadCore
  <2>3. QED
    BY <2>1, <2>2 DEF ControlTypeOK, TypeOK, CoreTypeOK, Steps
<1>2. CASE FsmUnloadCore
  <2>1. ControlTypeOK'  BY <1>2, ReturnType DEF FsmUnloadCore
  <2>2. CoreTypeOK'
    BY <1>2, CoreOperationTypes DEF FsmUnloadCore, TypeOK, CoreTypeOK
  <2>3. /\ fsm' \in {fsm, "Start"} /\ gameData' \in {gameData, "none"}
        /\ UNCHANGED <<doing, cancelLoad, zip, tempOnDisk, temporary, settings,
                       achievements, console>>
    BY <1>2 DEF FsmUnloadCore
  <2>4. QED
    BY <2>1, <2>2, <2>3 DEF ControlTypeOK, TypeOK, FsmStates
<1>3. CASE FsmLoadGame
  <2>1. ControlTypeOK'
    BY <1>3, ReturnType, ExpandType, ExpansionTypes
    DEF FsmLoadGame, Calling, ControlTypeOK, TypeOK
  <2>2. /\ doing' \in {doing, "validate"}
        /\ UNCHANGED <<fsm, content, settings, achievements, console, coreVars>>
    BY <1>3 DEF FsmLoadGame
  <2>3. QED
    BY <2>1, <2>2 DEF ControlTypeOK, TypeOK, CoreTypeOK, Steps, LoadSteps
<1>4. CASE FsmUnloadGame
  <2>1. ControlTypeOK'  BY <1>4, ReturnType DEF FsmUnloadGame
  <2>2. CoreTypeOK'
    BY <1>4, CoreOperationTypes
    DEF FsmUnloadGame, ReleaseGame, TypeOK, CoreTypeOK
  <2>3. /\ fsm' \in {fsm, "CoreLoaded"} /\ gameData' \in {gameData, "freed"}
        /\ UNCHANGED <<doing, zip, settings, hardcore, overlay, console>>
    BY <1>4 DEF FsmUnloadGame, ReleaseGame
  <2>4. /\ cancelLoad' \in {cancelLoad, FALSE} /\ raGame' \in {raGame, FALSE}
        /\ tempOnDisk' \in {tempOnDisk, FALSE}
        /\ temporary' \in {temporary, FALSE}
    BY <1>4 DEF FsmUnloadGame, ReleaseGame
  <2>5. /\ cancelLoad' \in BOOLEAN /\ raGame' \in BOOLEAN
        /\ tempOnDisk' \in BOOLEAN /\ temporary' \in BOOLEAN
    BY <2>4, Zenon DEF TypeOK
  <2>6. QED
    BY <2>1, <2>2, <2>3, <2>5 DEF ControlTypeOK, TypeOK, FsmStates
<1>5. CASE FsmQuit
  <2>1. ControlTypeOK'
    BY <1>5, ReturnType, ExpandType, ExpansionTypes
    DEF FsmQuit, Calling, ControlTypeOK, TypeOK
  <2>2. /\ fsm' \in {fsm, "Quit"}
        /\ UNCHANGED <<doing, content, settings, achievements, console, coreVars>>
    BY <1>5 DEF FsmQuit
  <2>3. QED
    BY <2>1, <2>2 DEF ControlTypeOK, TypeOK, CoreTypeOK, FsmStates
<1>6. ASSUME NEW ok \in BOOLEAN, OpenCore(ok)  PROVE TypeOK'
  <2>1. ControlTypeOK'
    BY <1>6, ReturnType DEF OpenCore, ControlTypeOK, TypeOK
  <2>2. CoreTypeOK'  BY <1>6, CoreOperationTypes DEF OpenCore, TypeOK
  <2>3. QED
    BY <1>6, <2>1, <2>2, DisallowedAssumption
    DEF OpenCore, ControlTypeOK, TypeOK, Steps
<1>7. ASSUME NEW ok \in BOOLEAN, StartCore(ok)  PROVE TypeOK'
  <2>1. ControlTypeOK'  BY <1>7, ReturnType DEF StartCore
  <2>2. CoreTypeOK'  BY <1>7, CoreOperationTypes DEF StartCore, TypeOK
  <2>3. QED
    BY <1>7, <2>1, <2>2, DisallowedAssumption
    DEF StartCore, ControlTypeOK, TypeOK, Steps, FsmStates
<1>8. CASE Validate
  <2>1. hardcore' \in BOOLEAN /\ hadDisallowed' \in BOOLEAN
    BY <1>8, ValidateType DEF Validate
  <2>2. ControlTypeOK' /\ doing' \in Steps /\ zip' \in BOOLEAN
        /\ tempOnDisk' \in BOOLEAN
    BY <1>8, LoadFailsType
    DEF Validate, ControlTypeOK, TypeOK, Steps, LoadSteps
  <2>3. QED
    BY <1>8, <2>1, <2>2 DEF Validate, ControlTypeOK, TypeOK, CoreTypeOK
<1>9. ASSUME NEW outcome \in LoadOutcomes, LoadContent(outcome)
      PROVE  TypeOK'
  <2>1. CoreTypeOK'
    BY <1>9, CoreOperationTypes, LoadOutcomesAssumption
    DEF LoadContent, TypeOK
  <2>2. QED
    BY <1>9, <2>1, DisallowedAssumption
    DEF LoadContent, TypeOK, Steps, LoadSteps
<1>10. CASE TearDown
  <2>1. ControlTypeOK' /\ doing' \in Steps /\ zip' \in BOOLEAN
        /\ tempOnDisk' \in BOOLEAN
    BY <1>10, LoadFailsType DEF TearDown
  <2>2. CoreTypeOK'
    BY <1>10, CoreOperationTypes DEF TearDown, TypeOK, CoreTypeOK
  <2>3. QED
    BY <1>10, <2>1, <2>2 DEF TearDown, ControlTypeOK, TypeOK, FsmStates
<1>11. ASSUME AbandonGame
       PROVE  /\ CoreTypeOK' /\ ControlTypeOK' /\ doing' \in Steps
              /\ gameData' \in {"none", "lent", "freed"}
              /\ zip' \in BOOLEAN /\ tempOnDisk' \in BOOLEAN
  BY <1>11, CoreOperationTypes, LoadFailsType DEF AbandonGame, TypeOK
<1>12. CASE Revalidate
  <2>1. hardcore' \in BOOLEAN /\ hadDisallowed' \in BOOLEAN
    BY <1>12, ValidateType DEF Revalidate
  <2>2. /\ CoreTypeOK' /\ ControlTypeOK' /\ doing' \in Steps
        /\ gameData' \in {"none", "lent", "freed"}
        /\ zip' \in BOOLEAN /\ tempOnDisk' \in BOOLEAN
    BY <1>12, <1>11
    DEF Revalidate, ControlTypeOK, TypeOK, CoreTypeOK, Steps, LoadSteps
  <2>3. QED
    BY <1>12, <2>1, <2>2 DEF Revalidate, ControlTypeOK, TypeOK
<1>13. CASE Identify
  <2>1. /\ CoreTypeOK' /\ ControlTypeOK' /\ doing' \in Steps
        /\ gameData' \in {"none", "lent", "freed"}
        /\ zip' \in BOOLEAN /\ tempOnDisk' \in BOOLEAN
    BY <1>13, <1>11
    DEF Identify, ControlTypeOK, TypeOK, CoreTypeOK, Steps, LoadSteps
  <2>2. raGame' \in BOOLEAN /\ hardcore' \in BOOLEAN /\ cancelLoad' \in BOOLEAN
    BY <1>13, LegacyDllAssumption DEF Identify, SwitchToHardcore, TypeOK
  <2>3. QED
    BY <1>13, <2>1, <2>2 DEF Identify, ControlTypeOK, TypeOK
<1>14. CASE FinishLoad
  <2>1. ControlTypeOK' /\ doing' \in Steps /\ zip' \in BOOLEAN
        /\ tempOnDisk' \in BOOLEAN
    BY <1>14, LoadFailsType, ReturnType DEF FinishLoad, TypeOK, Steps
  <2>2. CoreTypeOK'
    BY <1>14, CoreOperationTypes DEF FinishLoad, TypeOK, CoreTypeOK
  <2>3. cancelLoad' \in BOOLEAN /\ temporary' \in BOOLEAN
    BY <1>14, Zenon DEF FinishLoad, TypeOK
  <2>4. /\ fsm' \in {fsm, "GameRunning"}
        /\ UNCHANGED <<gameData, settings, achievements, console>>
    BY <1>14 DEF FinishLoad
  <2>5. QED
    BY <2>1, <2>2, <2>3, <2>4
    DEF ControlTypeOK, TypeOK, FsmStates, ActiveStates, GameStates
<1>15. QED
  BY <1>1, <1>2, <1>3, <1>4, <1>5, <1>6, <1>7, <1>8, <1>9, <1>10, <1>12,
     <1>13, <1>14 DEF Continue

(* So does what begins a handler, or is one in a single step.              *)
LEMMA InputType ==
  ASSUME TypeOK, Input \/ RunFrame \/ BadPerformance
  PROVE  TypeOK'
<1> USE DEF control, content, settings, achievements, coreVars
<1>1. ASSUME NEW calls \in Seq(FsmCalls), NEW waiting \in Handlers,
             Start(calls, waiting), system' \in Systems \cup {NoSystem}
      PROVE  TypeOK'
  BY <1>1 DEF Start, TypeOK, CoreTypeOK
<1>2. ASSUME NEW state \in FsmStates, NEW paused \in BOOLEAN,
             MoveTo(state, paused)
      PROVE  TypeOK'
  BY <1>2 DEF MoveTo, TypeOK, CoreTypeOK
<1>3. CASE MenuLoadGame
  BY <1>3, <1>1, ExpansionTypes DEF MenuLoadGame, Handlers, TypeOK
<1>4. CASE Exit
  BY <1>4, <1>1, ExpansionTypes DEF Exit, Handlers, TypeOK
<1>5. ASSUME NEW s \in Systems, LoadRecent(s) \/ SelectCore(s) \/ CommandLine(s)
      PROVE  TypeOK'
  BY <1>5, <1>1, ExpansionTypes
  DEF LoadRecent, SelectCore, CommandLine, Handlers
<1>6. CASE Resume \/ Pause \/ PauseToggle \/ PauseToggleNoOvl \/ Step
           \/ BadPerformance
  <2>1. overlay \in BOOLEAN  BY DEF TypeOK
  <2>2. QED
    BY <1>6, <1>2, <2>1, FsmTypes
    DEF Resume, Pause, PauseToggle, PauseToggleNoOvl, Step, BadPerformance
<1>7. CASE ResetGame
  <2>1. CoreTypeOK'  BY <1>7, CoreOperationTypes DEF ResetGame, TypeOK
  <2>2. disallowed' \in BOOLEAN /\ hadDisallowed' \in BOOLEAN /\ redeclared' \in BOOLEAN
    BY <1>7, DeclareAnewType DEF ResetGame, ResetCore, TypeOK
  <2>3. QED  BY <1>7, <2>1, <2>2, FsmTypes DEF ResetGame, TypeOK
<1>8. ASSUME NEW d \in Disallowed, CoreConfig(d)  PROVE TypeOK'
  <2>1. CoreTypeOK'
    BY <1>8, CoreOperationTypes DEF CoreConfig, TypeOK, CoreTypeOK
  <2>2. QED  BY <1>8, <2>1, DisallowedAssumption DEF CoreConfig, TypeOK
<1>9. CASE EnableHardcore
  <2>1. CoreTypeOK'
    BY <1>9, CoreOperationTypes DEF EnableHardcore, TypeOK, CoreTypeOK
  <2>2. todo' \in Seq(FsmCalls)
    BY <1>9, ExpansionTypes DEF EnableHardcore, TypeOK
  <2>3. hardcore' \in BOOLEAN /\ cancelLoad' \in BOOLEAN
    BY <1>9, LegacyDllAssumption DEF EnableHardcore, SwitchToHardcore, TypeOK
  <2>4. disallowed' \in BOOLEAN /\ hadDisallowed' \in BOOLEAN /\ redeclared' \in BOOLEAN
    BY <1>9, <2>3, DeclareAnewType DEF EnableHardcore, ResetCore, TypeOK
  <2>5. QED  BY <1>9, <2>1, <2>2, <2>3, <2>4 DEF EnableHardcore, TypeOK
<1>10. CASE DisableHardcore
  <2>1. hardcore' \in BOOLEAN  BY <1>10, Zenon DEF DisableHardcore
  <2>2. UNCHANGED <<control, content, settings, raGame, overlay, system, console,
                    coreVars>>
    BY <1>10 DEF DisableHardcore
  <2>3. QED  BY <2>1, <2>2 DEF TypeOK, CoreTypeOK
<1>11. CASE RunFrame
  <2>1. CoreTypeOK'  BY <1>11, CoreOperationTypes DEF RunFrame, TypeOK
  <2>2. disallowed' \in BOOLEAN /\ hadDisallowed' \in BOOLEAN /\ redeclared' \in BOOLEAN
    BY <1>11, DeclareAnewType DEF RunFrame, TypeOK
  <2>3. QED  BY <1>11, <2>1, <2>2, FsmTypes DEF RunFrame, TypeOK
<1>12. QED
  BY <1>3, <1>4, <1>5, <1>6, <1>7, <1>8, <1>9, <1>10, <1>11 DEF Input

(* Every variable of the front end keeps its type, whatever the user does  *)
(* and however cores and loads fail.                                       *)
THEOREM TypeCorrect == Spec => []TypeOK
<1>1. Init => TypeOK
  <2>1. CoreInit => CoreTypeOK
    <3>1. CoreInit => lib \in LibType  BY DEF CoreInit, LibType, LibStates
    <3>2. CoreInit => gameLoaded \in BOOLEAN /\ libraryName \in BOOLEAN
      BY Zenon DEF CoreInit
    <3>3. QED  BY <3>1, <3>2 DEF CoreInit, CoreTypeOK
  <2>2. Init => /\ cancelLoad \in BOOLEAN /\ zip \in BOOLEAN
                /\ tempOnDisk \in BOOLEAN /\ temporary \in BOOLEAN
                /\ hardcore \in BOOLEAN /\ raGame \in BOOLEAN
                /\ overlay \in BOOLEAN
                /\ disallowed \in BOOLEAN /\ hadDisallowed \in BOOLEAN
                /\ redeclared \in BOOLEAN
    BY Zenon DEF Init
  <2>3. Init => /\ fsm \in FsmStates /\ todo \in Seq(FsmCalls)
                /\ handler \in Handlers /\ doing \in Steps
                /\ gameData \in {"none", "lent", "freed"}
                /\ system \in Systems \cup {NoSystem}
                /\ console \in Systems \cup {NoSystem}
    <3>1. Init => todo \in Seq(FsmCalls)  BY DEF Init
    <3>2. Init => fsm = "Start" /\ handler = "none" /\ doing = "nothing"
                  /\ gameData = "none" /\ system = NoSystem
                  /\ console = NoSystem
      BY DEF Init
    <3>3. QED  BY <3>1, <3>2 DEF FsmStates, Handlers, Steps
  <2>4. QED  BY <2>1, <2>2, <2>3 DEF Init, TypeOK
<1>2. TypeOK /\ [Next]_vars => TypeOK'
  <2>1. TypeOK /\ Next => TypeOK'
    BY ContinueType, InputType DEF Next
  <2>2. TypeOK /\ UNCHANGED vars => TypeOK'
    BY DEF TypeOK, CoreTypeOK, vars, control, content, settings, achievements,
           coreVars
  <2>3. QED  BY <2>1, <2>2
<1>3. QED  BY <1>1, <1>2, PTL DEF Spec

-----------------------------------------------------------------------------
(* The Fsm, the wrapper and the library.                                   *)

(* The calls that are never misplaced.                                     *)
Protected == {"open", "init", "deinit", "run", "reset", "memory", "pointer"}

Clean(l) == l.misuse \cap Protected = {}

(* The inductive invariant: what the Fsm and the next step of a load say   *)
(* of the library and of the pointers to it.                               *)
Phases ==
  /\ Clean(lib)
  /\ lib.state = "playing" => gameLoaded
  /\ fsm \in ActiveStates => api = "bound" /\ lib.state = "playing"
  /\ fsm = "CoreLoaded" /\ doing # "tearDown" =>
       api = "bound" /\ lib.state \in {"ready", "playing"}
  /\ fsm = "Start" /\ doing # "startCore" => lib.state = "closed"
  /\ doing = "startCore" => api = "bound" /\ lib.state = "opened"
  /\ doing \in {"openCore", "startCore"} => fsm = "Start"
  /\ doing \in LoadSteps \cup {"tearDown"} => fsm = "CoreLoaded"
  /\ doing \in {"revalidate", "identify", "finish"} => lib.state = "playing"
  /\ doing = "tearDown" => api = "null" /\ lib.state = "closed" /\ ~libraryName

(* Where a call leaves the library, and when it is not misplaced.          *)
LEMMA AfterEffect ==
  ASSUME NEW l \in LibType, NEW c \in LibCalls
  PROVE  /\ After(l, c).state = Behind[c]
         /\ Clean(l) /\ (l.state = Before[c] \/ c \notin Protected)
              => Clean(After(l, c))
BY DEF After, Clean, LibType

(* Core::destroy closes a library that has been started, in order.         *)
LEMMA DestroyEffect ==
  ASSUME CoreTypeOK, Clean(lib), Destroy,
         api = "bound", lib.state \in {"ready", "playing"},
         lib.state = "playing" => gameLoaded
  PROVE  Clean(lib') /\ lib'.state = "closed"
<1> DEFINE unloaded  == IF gameLoaded THEN GuardedCall(lib, "unload_game")
                                      ELSE lib
           deinitialized == GuardedCall(unloaded, "deinit")
<1>1. unloaded \in LibType /\ Clean(unloaded) /\ unloaded.state = "ready"
  <2>1. CASE gameLoaded
    <3>1. unloaded = After(lib, "unload_game")
      BY <2>1 DEF GuardedCall, Call
    <3>2. /\ After(lib, "unload_game") \in LibType
          /\ Clean(After(lib, "unload_game"))
          /\ After(lib, "unload_game").state = "ready"
      BY CallType, AfterEffect DEF CoreTypeOK, LibCalls, Behind, Protected
    <3> HIDE DEF unloaded
    <3>3. QED  BY <3>1, <3>2
  <2>2. CASE ~gameLoaded
    <3>1. unloaded = lib  BY <2>2
    <3>2. lib.state = "ready"  BY <2>2, Zenon
    <3>3. QED  BY <3>1, <3>2 DEF CoreTypeOK
  <2>3. QED  BY <2>1, <2>2
<1>2. /\ deinitialized \in LibType /\ Clean(deinitialized)
  <2>1. deinitialized = After(unloaded, "deinit")
    BY DEF GuardedCall, Call
  <2>2. QED
    BY <1>1, <2>1, CallType, AfterEffect DEF LibCalls, Before
<1>3. lib' = After(deinitialized, "close")
  BY DEF Destroy
<1>4. QED
  BY <1>2, <1>3, AfterEffect DEF LibCalls, Behind, Protected

(* What Core::loadGame leaves behind of a library that has been started.   *)
LEMMA LoadGameEffect ==
  ASSUME CoreTypeOK, Clean(lib), api = "bound",
         NEW outcome \in {"loaded", "refused", "no_av"}, LoadGame(outcome)
  PROVE  /\ Clean(lib')
         /\ outcome = "loaded" =>
              lib'.state = "playing" /\ gameLoaded' /\ api' = "bound"
         /\ outcome # "loaded" =>
              lib'.state = "closed" /\ api' = "null" /\ ~libraryName'
<1>1. CASE outcome = "loaded"
  <2>1. lib' = After(lib, "load_game") /\ gameLoaded' /\ api' = "bound"
    BY <1>1 DEF LoadGame, Call
  <2>2. QED
    BY <1>1, <2>1, AfterEffect DEF CoreTypeOK, LibCalls, Behind, Protected
<1>2. CASE outcome = "refused"
  <2> DEFINE refused == After(lib, "load_refused")
             ended   == After(refused, "deinit")
  <2>1. refused \in LibType /\ Clean(refused) /\ refused.state = "ready"
    BY CallType, AfterEffect DEF CoreTypeOK, LibCalls, Behind, Protected
  <2>2. ended \in LibType /\ Clean(ended)
    BY <2>1, CallType, AfterEffect DEF LibCalls, Before
  <2>3. lib' = After(ended, "close") /\ api' = "null" /\ ~libraryName'
    BY <1>2 DEF LoadGame, Reset, Call, GuardedCall
  <2>4. Clean(After(ended, "close")) /\ After(ended, "close").state = "closed"
    BY <2>2, AfterEffect DEF LibCalls, Behind, Protected
  <2>5. QED  BY <1>2, <2>3, <2>4
<1>3. CASE outcome = "no_av"
  <2> DEFINE loaded   == After(lib, "load_game")
             unloaded == After(loaded, "unload_game")
             ended    == After(unloaded, "deinit")
             closed   == After(ended, "close")
  <2>1. loaded \in LibType /\ Clean(loaded)
    BY CallType, AfterEffect DEF CoreTypeOK, LibCalls, Protected
  <2>2. unloaded \in LibType /\ Clean(unloaded) /\ unloaded.state = "ready"
    BY <2>1, CallType, AfterEffect DEF LibCalls, Behind, Protected
  <2>3. ended \in LibType /\ Clean(ended)
    BY <2>2, CallType, AfterEffect DEF LibCalls, Before
  <2>4. closed \in LibType /\ Clean(closed)
    BY <2>3, CallType, AfterEffect DEF LibCalls, Protected
  <2>5. lib' = After(closed, "close") /\ api' = "null" /\ ~libraryName'
    BY <1>3 DEF LoadGame, Reset, Call, GuardedCall
  <2>6. Clean(After(closed, "close")) /\ After(closed, "close").state = "closed"
    BY <2>4, AfterEffect DEF LibCalls, Behind, Protected
  <2>7. QED  BY <1>3, <2>5, <2>6
<1>4. QED  BY <1>1, <1>2, <1>3

(* Using a game leaves a library that plays one as it was.                 *)
LEMMA UseGameEffect ==
  ASSUME CoreTypeOK, Clean(lib), api = "bound", lib.state = "playing"
  PROVE  /\ \A c \in {"run", "memory"}: UseGame(c) =>
              /\ Clean(lib') /\ lib'.state = "playing"
              /\ UNCHANGED <<api, gameLoaded, libraryName>>
         /\ ResetCore =>
              /\ Clean(lib') /\ lib'.state = "playing"
              /\ UNCHANGED <<api, gameLoaded, libraryName>>
<1>1. ASSUME NEW c \in {"run", "memory"}, UseGame(c)
      PROVE  Clean(lib') /\ lib'.state = "playing"
  <2>1. lib' = After(lib, c)  BY <1>1 DEF UseGame, Call
  <2>2. QED
    BY <2>1, AfterEffect DEF CoreTypeOK, LibCalls, Behind, Before
<1>2. ASSUME ResetCore  PROVE Clean(lib') /\ lib'.state = "playing"
  <2>1. /\ After(lib, "reset") \in LibType /\ Clean(After(lib, "reset"))
        /\ After(lib, "reset").state = "playing"
    BY CallType, AfterEffect DEF CoreTypeOK, LibCalls, Behind, Before
  <2>2. lib' = After(After(lib, "reset"), "memory")
    BY <1>2 DEF ResetCore, Call
  <2>3. QED  BY <2>1, <2>2, AfterEffect DEF LibCalls, Behind, Before
<1>3. QED  BY <1>1, <1>2 DEF UseGame, ResetCore

(* What pauses, resumes or steps moves between the states with a game, and *)
(* leaves the others alone.                                                *)
LEMMA MovesStayActive ==
  ASSUME NEW state \in {FsmPauseGame(fsm), FsmPauseGameNoOvl(fsm),
                        FsmResumeGame(fsm), FsmStep(fsm)}
  PROVE  /\ fsm \in ActiveStates => state \in ActiveStates
         /\ fsm \notin ActiveStates => state = fsm
BY DEF ActiveStates, GameStates, FsmPauseGame, FsmPauseGameNoOvl,
       FsmResumeGame, FsmStep

(* Phases across a step that does not touch the core, moves the Fsm only   *)
(* between states with a game, and is not a step of a load.                *)
LEMMA PhasesMove ==
  ASSUME Phases, doing = "nothing", doing' = "nothing",
         UNCHANGED <<lib, api, gameLoaded, libraryName>>,
         fsm' = fsm \/ (fsm \in ActiveStates /\ fsm' \in ActiveStates)
  PROVE  Phases'
BY DEF Phases, coreVars, ActiveStates, GameStates, LoadSteps

(* The same of a step that uses the game.                                  *)
LEMMA PhasesUse ==
  ASSUME Phases, doing = "nothing", doing' = "nothing",
         fsm \in ActiveStates, fsm' \in ActiveStates,
         Clean(lib'), lib'.state = "playing",
         UNCHANGED <<api, gameLoaded, libraryName>>
  PROVE  Phases'
BY DEF Phases, ActiveStates, GameStates, LoadSteps

(* A load that gives its game up leaves a started core.                    *)
LEMMA PhasesAbandon ==
  ASSUME TypeOK, Phases, UnloadGame, UNCHANGED fsm, doing' = "nothing",
         doing \in {"revalidate", "identify"}
  PROVE  Phases'
<1>1. lib' = After(lib, "unload_game")
  BY DEF UnloadGame, GuardedCall, Call, Phases, LoadSteps
<1>2. Clean(lib') /\ lib'.state = "ready"
  BY <1>1, AfterEffect
  DEF Phases, TypeOK, CoreTypeOK, LibCalls, Behind, Protected
<1>3. fsm = "CoreLoaded" /\ api = "bound" /\ api' = "bound"
  BY DEF Phases, LoadSteps, UnloadGame
<1>4. QED  BY <1>2, <1>3 DEF Phases, LoadSteps, ActiveStates, GameStates

LEMMA ContinuePhases ==
  ASSUME TypeOK, Phases, Continue
  PROVE  Phases'
<1> USE DEF control, content, settings, achievements, coreVars
<1>1. CASE FsmLoadCore
  <2>1. /\ doing = "nothing" /\ UNCHANGED fsm /\ UNCHANGED coreVars
        /\ doing' = "nothing" \/ (fsm = "Start" /\ doing' = "openCore")
    BY <1>1 DEF FsmLoadCore, Calling
  <2>2. QED  BY <2>1, PhasesMove DEF Phases, coreVars, LoadSteps, ActiveStates,
                                     GameStates
<1>2. CASE FsmUnloadCore
  <2>1. doing = "nothing" /\ doing' = "nothing"
    BY <1>2 DEF FsmUnloadCore, Calling
  <2>2. CASE fsm = "CoreLoaded"
    <3>1. Destroy /\ fsm' = "Start"  BY <1>2, <2>2 DEF FsmUnloadCore
    <3>2. Clean(lib') /\ lib'.state = "closed"
      BY <2>1, <2>2, <3>1, DestroyEffect DEF Phases, TypeOK
    <3>3. QED
      BY <2>1, <3>1, <3>2 DEF Phases, LoadSteps, ActiveStates, GameStates
  <2>3. CASE fsm # "CoreLoaded"
    BY <1>2, <2>1, <2>3, PhasesMove DEF FsmUnloadCore
  <2>4. QED  BY <2>2, <2>3
<1>3. CASE FsmLoadGame
  <2>1. /\ doing = "nothing" /\ UNCHANGED fsm /\ UNCHANGED coreVars
        /\ doing' = "nothing" \/ (fsm = "CoreLoaded" /\ doing' = "validate")
    BY <1>3 DEF FsmLoadGame, Calling
  <2>2. QED  BY <2>1, PhasesMove DEF Phases, coreVars, LoadSteps, ActiveStates,
                                     GameStates
<1>4. CASE FsmUnloadGame
  <2>1. doing = "nothing" /\ doing' = "nothing"
    BY <1>4 DEF FsmUnloadGame, Calling
  <2>2. CASE ReleaseGame /\ fsm \in GameStates /\ fsm' = "CoreLoaded"
    <3>1. api = "bound" /\ lib.state = "playing"
      BY <2>2 DEF Phases, ActiveStates
    <3>2. /\ Clean(lib') /\ lib'.state = "playing"
          /\ UNCHANGED <<api, gameLoaded, libraryName>>
      BY <2>2, <3>1, UseGameEffect DEF ReleaseGame, Phases, TypeOK
    <3>3. QED
      BY <2>1, <2>2, <3>1, <3>2 DEF Phases, LoadSteps, ActiveStates, GameStates
  <2>3. CASE UNCHANGED fsm /\ UNCHANGED coreVars
    BY <2>1, <2>3, PhasesMove
  <2>4. QED  BY <1>4, <2>2, <2>3 DEF FsmUnloadGame
<1>5. CASE FsmQuit
  <2>1. /\ doing = "nothing" /\ doing' = "nothing" /\ UNCHANGED coreVars
        /\ UNCHANGED fsm \/ fsm' = "Quit"
    BY <1>5 DEF FsmQuit, Calling
  <2>2. QED  BY <2>1 DEF Phases, coreVars, LoadSteps, ActiveStates, GameStates
<1>6. ASSUME NEW ok \in BOOLEAN, OpenCore(ok)  PROVE Phases'
  <2>1. /\ doing = "openCore" /\ fsm = "Start" /\ fsm' = "Start"
        /\ lib.state = "closed" /\ Clean(lib) /\ lib \in LibType
    BY <1>6 DEF OpenCore, Phases, TypeOK, CoreTypeOK
  <2>2. /\ After(lib, "open") \in LibType /\ Clean(After(lib, "open"))
        /\ After(lib, "open").state = "opened"
    BY <2>1, CallType, AfterEffect DEF LibCalls, Behind, Before
  <2>3. /\ Clean(After(After(lib, "open"), "close"))
        /\ After(After(lib, "open"), "close").state = "closed"
    BY <2>2, AfterEffect DEF LibCalls, Behind, Protected
  <2>4. CASE ok
    <3>1. doing' = "startCore" /\ lib' = After(lib, "open") /\ api' = "bound"
      BY <1>6, <2>4 DEF OpenCore, LoadCore
    <3>2. QED
      BY <2>1, <2>2, <3>1 DEF Phases, LoadSteps, ActiveStates, GameStates
  <2>5. CASE ~ok
    <3>1. /\ doing' = "nothing"
          /\ lib' = lib \/ lib' = After(After(lib, "open"), "close")
      BY <1>6, <2>5 DEF OpenCore, LoadCore
    <3>2. Clean(lib') /\ lib'.state = "closed"
      BY <2>1, <2>3, <3>1
    <3>3. QED
      BY <2>1, <3>1, <3>2 DEF Phases, LoadSteps, ActiveStates, GameStates
  <2>6. QED  BY <2>4, <2>5
<1>7. ASSUME NEW ok \in BOOLEAN, StartCore(ok)  PROVE Phases'
  <2>1. /\ fsm = "Start" /\ doing' = "nothing" /\ lib \in LibType
        /\ lib.state = "opened" /\ Clean(lib) /\ api = "bound"
    BY <1>7 DEF StartCore, Phases, TypeOK, CoreTypeOK
  <2>2. CASE ok
    <3>1. lib' = After(lib, "init") /\ api' = api /\ fsm' = "CoreLoaded"
      BY <1>7, <2>1, <2>2 DEF StartCore, InitCore, Call
    <3>2. Clean(lib') /\ lib'.state = "ready"
      BY <2>1, <3>1, AfterEffect DEF LibCalls, Behind, Before
    <3>3. QED
      BY <2>1, <3>1, <3>2 DEF Phases, LoadSteps, ActiveStates, GameStates
  <2>3. CASE ~ok
    <3>1. lib' = After(lib, "close") /\ fsm' = "Start"
      BY <1>7, <2>1, <2>3 DEF StartCore, InitCore
    <3>2. Clean(lib') /\ lib'.state = "closed"
      BY <2>1, <3>1, AfterEffect DEF LibCalls, Behind, Protected
    <3>3. QED
      BY <2>1, <3>1, <3>2 DEF Phases, LoadSteps, ActiveStates, GameStates
  <2>4. QED  BY <2>2, <2>3
<1>8. CASE Validate
  <2>1. /\ doing = "validate" /\ UNCHANGED fsm /\ UNCHANGED coreVars
        /\ doing' \in {"validate", "loadContent", "nothing"}
    BY <1>8 DEF Validate, LoadFails
  <2>2. QED
    BY <2>1 DEF Phases, coreVars, LoadSteps, ActiveStates, GameStates
<1>9. ASSUME NEW outcome \in LoadOutcomes, LoadContent(outcome)
      PROVE  Phases'
  <2>1. /\ fsm = "CoreLoaded" /\ fsm' = "CoreLoaded"
        /\ api = "bound" /\ Clean(lib)
    BY <1>9 DEF LoadContent, Phases, LoadSteps
  <2>2. outcome \in {"loaded", "refused", "no_av"} /\ LoadGame(outcome)
    BY <1>9, LoadOutcomesAssumption DEF LoadContent
  <2>3. /\ outcome = "loaded" => doing' = "revalidate"
        /\ outcome # "loaded" => doing' = "tearDown"
    BY <1>9 DEF LoadContent
  <2>4. QED
    BY <2>1, <2>2, <2>3, LoadGameEffect
    DEF Phases, TypeOK, LoadSteps, ActiveStates, GameStates
<1>10. CASE TearDown
  <2>1. /\ lib \in LibType /\ Clean(lib) /\ api = "null" /\ ~libraryName
        /\ lib.state = "closed"
    BY <1>10 DEF TearDown, Phases, TypeOK, CoreTypeOK
  <2>2. Destroy /\ fsm' = "Start" /\ doing' = "nothing"
    BY <1>10, <2>1 DEF TearDown, LoadFails
  <2>3. lib' = After(lib, "close")
    BY <2>1, <2>2 DEF Destroy, GuardedCall
  <2>4. Clean(lib') /\ lib'.state = "closed"
    BY <2>1, <2>3, AfterEffect DEF LibCalls, Behind, Protected
  <2>5. QED
    BY <2>2, <2>4 DEF Phases, LoadSteps, ActiveStates, GameStates
<1>11. ASSUME doing \in {"revalidate", "identify"}, AbandonGame, UNCHANGED fsm
       PROVE  Phases'
  BY <1>11, PhasesAbandon DEF AbandonGame, LoadFails
<1>12. ASSUME doing \in {"revalidate", "identify"}, UNCHANGED fsm,
              UNCHANGED coreVars, doing' \in {"identify", "finish"}
       PROVE  Phases'
  BY <1>12 DEF Phases, coreVars, LoadSteps, ActiveStates, GameStates
<1>13. CASE Revalidate
  BY <1>11, <1>12, <1>13 DEF Revalidate
<1>14. CASE Identify
  BY <1>11, <1>12, <1>14 DEF Identify
<1>15. CASE FinishLoad
  <2>1. /\ fsm = "CoreLoaded" /\ lib.state = "playing" /\ api = "bound"
        /\ doing' = "nothing"
    BY <1>15 DEF FinishLoad, LoadFails, Phases, LoadSteps
  <2>2. CASE UNCHANGED fsm /\ UNCHANGED coreVars
    BY <2>1, <2>2 DEF Phases, coreVars, LoadSteps, ActiveStates, GameStates
  <2>3. CASE UseGame("memory") /\ fsm' = "GameRunning"
    <3>1. /\ Clean(lib') /\ lib'.state = "playing"
          /\ UNCHANGED <<api, gameLoaded, libraryName>>
      BY <2>1, <2>3, UseGameEffect DEF Phases, TypeOK
    <3>2. QED
      BY <2>1, <2>3, <3>1 DEF Phases, LoadSteps, ActiveStates, GameStates
  <2>4. QED  BY <1>15, <2>2, <2>3 DEF FinishLoad
<1>16. QED
  BY <1>1, <1>2, <1>3, <1>4, <1>5, <1>6, <1>7, <1>8, <1>9, <1>10, <1>13,
     <1>14, <1>15 DEF Continue

LEMMA InputPhases ==
  ASSUME TypeOK, Phases, Input \/ RunFrame \/ BadPerformance
  PROVE  Phases'
<1> USE DEF control, coreVars
<1>1. ASSUME NEW calls, NEW waiting, Start(calls, waiting)  PROVE Phases'
  BY <1>1, PhasesMove DEF Start, Idle
<1>2. ASSUME NEW state \in {fsm, FsmPauseGame(fsm), FsmPauseGameNoOvl(fsm),
                            FsmResumeGame(fsm), FsmStep(fsm)},
             NEW paused, MoveTo(state, paused)
      PROVE  Phases'
  BY <1>2, MovesStayActive, PhasesMove DEF MoveTo, Idle
<1>3. fsm \in ActiveStates => api = "bound" /\ lib.state = "playing"
  BY DEF Phases
<1>4. CASE MenuLoadGame \/ Exit
  BY <1>1, <1>4 DEF MenuLoadGame, Exit
<1>5. ASSUME NEW s \in Systems, LoadRecent(s) \/ SelectCore(s) \/ CommandLine(s)
      PROVE  Phases'
  BY <1>1, <1>5 DEF LoadRecent, SelectCore, CommandLine
<1>6. CASE Resume \/ Pause \/ PauseToggle \/ PauseToggleNoOvl \/ Step
           \/ BadPerformance
  BY <1>2, <1>6
  DEF Resume, Pause, PauseToggle, PauseToggleNoOvl, Step, BadPerformance
<1>7. CASE ResetGame
  <2>1. fsm \in ActiveStates /\ doing = "nothing" /\ doing' = "nothing"
        /\ ResetCore /\ fsm' \in {fsm, FsmStep(fsm)}
    BY <1>7 DEF ResetGame, Idle, ActiveStates
  <2>2. fsm' \in ActiveStates  BY <2>1, MovesStayActive
  <2>3. QED
    BY <1>3, <2>1, <2>2, UseGameEffect, PhasesUse DEF Phases, TypeOK
<1>8. ASSUME NEW d \in Disallowed, CoreConfig(d)  PROVE Phases'
  <2>1. doing = "nothing" /\ doing' = "nothing" /\ UNCHANGED fsm
    BY <1>8 DEF CoreConfig, Idle
  <2>2. CASE IsGameActive /\ UseGame("memory")
    BY <1>3, <2>1, <2>2, UseGameEffect, PhasesUse
    DEF Phases, TypeOK, IsGameActive
  <2>3. CASE UNCHANGED coreVars
    BY <2>1, <2>3, PhasesMove
  <2>4. QED  BY <1>8, <2>2, <2>3 DEF CoreConfig
<1>9. CASE EnableHardcore
  <2>1. doing = "nothing" /\ doing' = "nothing" /\ UNCHANGED fsm
    BY <1>9 DEF EnableHardcore, Idle
  <2>2. CASE IsGameActive /\ ResetCore
    BY <1>3, <2>1, <2>2, UseGameEffect, PhasesUse
    DEF Phases, TypeOK, IsGameActive
  <2>3. CASE UNCHANGED coreVars
    BY <2>1, <2>3, PhasesMove
  <2>4. QED  BY <1>9, <2>2, <2>3 DEF EnableHardcore
<1>10. CASE DisableHardcore
  BY <1>10, PhasesMove DEF DisableHardcore, Idle
<1>11. CASE RunFrame
  <2>1. /\ fsm \in ActiveStates /\ doing = "nothing" /\ doing' = "nothing"
        /\ UseGame("run") /\ fsm' \in {fsm, FsmResumeGame(fsm)}
    BY <1>11 DEF RunFrame, Idle, ActiveStates, GameStates
  <2>2. fsm' \in ActiveStates  BY <2>1, MovesStayActive
  <2>3. QED
    BY <1>3, <2>1, <2>2, UseGameEffect, PhasesUse DEF Phases, TypeOK
<1>12. QED
  BY <1>4, <1>5, <1>6, <1>7, <1>8, <1>9, <1>10, <1>11 DEF Input

(* Phases holds throughout.                                                *)
LEMMA PhasesHold == Spec => []Phases
<1>1. Init => Phases
  BY DEF Init, CoreInit, Phases, Clean, LoadSteps, ActiveStates, GameStates
<1>2. TypeOK /\ Phases /\ [Next]_vars => Phases'
  <2>1. TypeOK /\ Phases /\ Next => Phases'
    BY ContinuePhases, InputPhases DEF Next
  <2>2. Phases /\ UNCHANGED vars => Phases'
    BY DEF Phases, vars, control, coreVars
  <2>3. QED  BY <2>1, <2>2
<1>3. QED  BY <1>1, <1>2, TypeCorrect, PTL DEF Spec

(* The Fsm's idea of what is loaded is the wrapper's and the library's.    *)
THEOREM FsmAgrees == Spec => []FsmAgreesWithCore
<1>1. Phases => FsmAgreesWithCore
  BY DEF Phases, FsmAgreesWithCore
<1>2. QED  BY <1>1, PhasesHold, PTL

(* No frame, reset or memory access reaches a core without a game, and no  *)
(* call goes through a stale pointer.                                      *)
THEOREM OnlyLoadedGameUsed == Spec => []UsesOnlyLoadedGame
<1>1. Phases => UsesOnlyLoadedGame
  BY DEF Phases, UsesOnlyLoadedGame, Clean, Protected
<1>2. QED  BY <1>1, PhasesHold, PTL

(* retro_init and retro_deinit alternate on every path of a failing load.  *)
THEOREM InitsPaired == Spec => []InitPairedWithDeinit
<1>1. Phases => InitPairedWithDeinit
  BY DEF Phases, InitPairedWithDeinit, Clean, Protected
<1>2. QED  BY <1>1, PhasesHold, PTL

-----------------------------------------------------------------------------
(* The file extracted from a zip.                                          *)

(* Inductive given Phases: the file is loadGame's own only during a load,  *)
(* when no earlier file can be left, as that belongs to a game.            *)
Extracted ==
  /\ tempOnDisk <=> (zip \/ temporary)
  /\ temporary => fsm \in ActiveStates
  /\ zip => fsm = "CoreLoaded" /\ doing # "nothing"

(* Extracted across a step that leaves the file and its owner alone.       *)
LEMMA ExtractedMove ==
  ASSUME Extracted, UNCHANGED <<zip, tempOnDisk, temporary>>,
         zip => UNCHANGED fsm /\ doing' # "nothing",
         fsm \in ActiveStates => fsm' \in ActiveStates
  PROVE  Extracted'
BY DEF Extracted

(* Extracted across a load that fails.                                     *)
LEMMA ExtractedFails ==
  ASSUME Extracted, LoadFails, UNCHANGED temporary, fsm \notin ActiveStates
  PROVE  Extracted'
BY DEF Extracted, LoadFails

LEMMA ContinueExtracted ==
  ASSUME TypeOK, Phases, Extracted, Continue
  PROVE  Extracted'
<1> USE DEF content
<1>1. doing = "nothing" => ~zip
  BY DEF Extracted
<1>2. doing \in LoadSteps \cup {"tearDown"} =>
        fsm = "CoreLoaded" /\ fsm \notin ActiveStates
  BY DEF Phases, ActiveStates, GameStates
<1>3. CASE FsmLoadCore
  BY <1>1, <1>3, ExtractedMove DEF FsmLoadCore, Calling
<1>4. CASE FsmUnloadCore
  BY <1>1, <1>4, ExtractedMove DEF FsmUnloadCore, Calling, ActiveStates, GameStates
<1>5. CASE FsmLoadGame
  BY <1>1, <1>5, ExtractedMove DEF FsmLoadGame, Calling
<1>6. CASE FsmUnloadGame
  <2>1. ~zip /\ ~zip'  BY <1>1, <1>6 DEF FsmUnloadGame, Calling
  <2>2. CASE ReleaseGame
    BY <2>1, <2>2 DEF Extracted, ReleaseGame
  <2>3. CASE UNCHANGED <<fsm, tempOnDisk, temporary>>
    BY <1>6, <2>1, <2>3, ExtractedMove DEF FsmUnloadGame
  <2>4. QED  BY <1>6, <2>2, <2>3 DEF FsmUnloadGame
<1>7. CASE FsmQuit
  BY <1>1, <1>7, ExtractedMove DEF FsmQuit, Calling, ActiveStates, GameStates
<1>8. ASSUME NEW ok \in BOOLEAN, OpenCore(ok) \/ StartCore(ok)
      PROVE  Extracted'
  <2>1. fsm = "Start" /\ UNCHANGED <<zip, tempOnDisk, temporary>>
    BY <1>8 DEF OpenCore, StartCore, Phases
  <2>2. ~zip /\ fsm \notin ActiveStates
    BY <2>1 DEF Extracted, ActiveStates, GameStates
  <2>3. QED  BY <2>1, <2>2, ExtractedMove
<1>9. CASE Validate
  <2>1. fsm = "CoreLoaded" /\ fsm' = fsm /\ fsm \notin ActiveStates
        /\ UNCHANGED temporary
    BY <1>2, <1>9 DEF Validate, LoadSteps
  <2>2. CASE UNCHANGED <<zip, tempOnDisk>> /\ doing' = "loadContent"
    BY <2>1, <2>2, ExtractedMove
  <2>3. CASE zip' = TRUE /\ tempOnDisk' = TRUE /\ doing' = doing
    BY <1>9, <2>1, <2>3 DEF Extracted, Validate
  <2>4. CASE LoadFails
    BY <2>1, <2>4, ExtractedFails
  <2>5. QED  BY <1>9, <2>2, <2>3, <2>4 DEF Validate
<1>10. ASSUME NEW outcome \in LoadOutcomes, LoadContent(outcome)
       PROVE  Extracted'
  BY <1>10, ExtractedMove DEF LoadContent
<1>11. CASE TearDown
  BY <1>2, <1>11, ExtractedFails DEF TearDown, LoadSteps
<1>12. CASE Revalidate
  <2>1. fsm \notin ActiveStates /\ UNCHANGED <<fsm, temporary>>
    BY <1>2, <1>12 DEF Revalidate, LoadSteps
  <2>2. CASE UNCHANGED <<zip, tempOnDisk>> /\ doing' = "identify"
    BY <2>1, <2>2, ExtractedMove
  <2>3. CASE LoadFails
    BY <2>1, <2>3, ExtractedFails
  <2>4. QED  BY <1>12, <2>2, <2>3 DEF Revalidate, AbandonGame
<1>13. CASE Identify
  <2>1. fsm \notin ActiveStates /\ UNCHANGED <<fsm, temporary>>
    BY <1>2, <1>13 DEF Identify, LoadSteps
  <2>2. CASE UNCHANGED <<zip, tempOnDisk>> /\ doing' = "finish"
    BY <2>1, <2>2, ExtractedMove
  <2>3. CASE LoadFails
    BY <2>1, <2>3, ExtractedFails
  <2>4. QED  BY <1>13, <2>2, <2>3 DEF Identify, AbandonGame
<1>14. CASE FinishLoad
  <2>1. fsm = "CoreLoaded" /\ fsm \notin ActiveStates
    BY <1>2, <1>14 DEF FinishLoad, LoadSteps
  <2>2. CASE LoadFails /\ UNCHANGED temporary
    BY <2>1, <2>2, ExtractedFails
  <2>3. CASE /\ fsm' = "GameRunning" /\ temporary' = zip /\ zip' = FALSE
             /\ UNCHANGED tempOnDisk
    <3>1. fsm' \in ActiveStates  BY <2>3 DEF ActiveStates, GameStates
    <3>2. ~temporary  BY <2>1 DEF Extracted
    <3>3. QED  BY <2>3, <3>1, <3>2, Zenon DEF Extracted
  <2>4. QED  BY <1>14, <2>2, <2>3 DEF FinishLoad
<1>15. QED
  BY <1>3, <1>4, <1>5, <1>6, <1>7, <1>8, <1>9, <1>10, <1>11, <1>12, <1>13,
     <1>14 DEF Continue

LEMMA InputExtracted ==
  ASSUME Extracted, Input \/ RunFrame \/ BadPerformance
  PROVE  Extracted'
<1> USE DEF content, control
<1>1. Idle => ~zip
  BY DEF Idle, Extracted
<1>2. ASSUME Idle, UNCHANGED content, UNCHANGED fsm  PROVE Extracted'
  BY <1>1, <1>2, ExtractedMove
<1>3. ASSUME NEW state \in {fsm, FsmPauseGame(fsm), FsmPauseGameNoOvl(fsm),
                            FsmResumeGame(fsm), FsmStep(fsm)},
             Idle, UNCHANGED content, fsm' = state
      PROVE  Extracted'
  BY <1>1, <1>3, ExtractedMove, MovesStayActive
<1>4. CASE MenuLoadGame \/ Exit
  BY <1>2, <1>4 DEF MenuLoadGame, Exit, Start
<1>5. ASSUME NEW s \in Systems, LoadRecent(s) \/ SelectCore(s) \/ CommandLine(s)
      PROVE  Extracted'
  BY <1>2, <1>5 DEF LoadRecent, SelectCore, CommandLine, Start
<1>6. CASE Resume \/ Pause \/ PauseToggle \/ PauseToggleNoOvl \/ Step
           \/ BadPerformance
  BY <1>3, <1>6
  DEF Resume, Pause, PauseToggle, PauseToggleNoOvl, Step, BadPerformance, MoveTo
<1>7. CASE ResetGame \/ RunFrame
  BY <1>3, <1>7 DEF ResetGame, RunFrame
<1>8. ASSUME NEW d \in Disallowed, CoreConfig(d)  PROVE Extracted'
  BY <1>2, <1>8 DEF CoreConfig
<1>9. CASE EnableHardcore
  BY <1>1, <1>9, ExtractedMove DEF EnableHardcore
<1>10. CASE DisableHardcore
  BY <1>2, <1>10 DEF DisableHardcore
<1>11. QED
  BY <1>4, <1>5, <1>6, <1>7, <1>8, <1>9, <1>10 DEF Input

(* A file extracted from a zip is deleted with the load or with the game   *)
(* it was extracted for, and no file of the user's is taken for one.       *)
THEOREM ExtractedFileOwned == Spec => []ExtractedFileHasOwner
<1>1. Init => Extracted
  BY DEF Init, Extracted
<1>2. TypeOK /\ Phases /\ Extracted /\ [Next]_vars => Extracted'
  <2>1. TypeOK /\ Phases /\ Extracted /\ Next => Extracted'
    BY ContinueExtracted, InputExtracted DEF Next
  <2>2. Extracted /\ UNCHANGED vars => Extracted'
    BY DEF Extracted, vars, control, content
  <2>3. QED  BY <2>1, <2>2
<1>3. Extracted => ExtractedFileHasOwner
  BY DEF Extracted, ExtractedFileHasOwner, IsGameActive
<1>4. QED  BY <1>1, <1>2, <1>3, TypeCorrect, PhasesHold, PTL DEF Spec

-----------------------------------------------------------------------------
(* RetroAchievements, with a DLL that can refuse the switch to hardcore.   *)

(* Inductive given Phases: from the second validation of a load onwards,   *)
(* hardcore is watched over as it is in a game.                            *)
CleanHardcore ==
  hardcore /\ (fsm \in ActiveStates \/ doing \in {"identify", "finish"}) =>
    ~hadDisallowed /\ (disallowed => redeclared)

(* CleanHardcore across a step that changes no setting.                    *)
LEMMA CleanHardcoreMove ==
  ASSUME CleanHardcore, UNCHANGED settings, hardcore' => hardcore,
         fsm' \in ActiveStates \/ doing' \in {"identify", "finish"} =>
           fsm \in ActiveStates \/ doing \in {"identify", "finish"}
  PROVE  CleanHardcore'
BY DEF CleanHardcore, settings

(* CleanHardcore holds where there is no game.                             *)
LEMMA CleanHardcoreIdle ==
  ASSUME fsm' \notin ActiveStates, doing' \notin {"identify", "finish"}
  PROVE  CleanHardcore'
BY DEF CleanHardcore

LEMMA ContinueCleanHardcore ==
  ASSUME ~LegacyDll, Phases, CleanHardcore, Continue
  PROVE  CleanHardcore'
<1> USE DEF achievements, settings
<1>1. doing \in LoadSteps \cup {"tearDown"} =>
        fsm = "CoreLoaded" /\ fsm \notin ActiveStates
  BY DEF Phases, ActiveStates, GameStates
<1>2. CASE FsmLoadCore
  BY <1>2, CleanHardcoreMove DEF FsmLoadCore, Calling
<1>3. CASE FsmUnloadCore
  BY <1>3, CleanHardcoreMove DEF FsmUnloadCore, ActiveStates, GameStates
<1>4. CASE FsmLoadGame
  BY <1>4, CleanHardcoreMove DEF FsmLoadGame, Calling
<1>5. CASE FsmUnloadGame
  BY <1>5, CleanHardcoreMove DEF FsmUnloadGame, ActiveStates, GameStates
<1>6. CASE FsmQuit
  BY <1>6, CleanHardcoreMove DEF FsmQuit, ActiveStates, GameStates
<1>7. ASSUME NEW ok \in BOOLEAN, OpenCore(ok) \/ StartCore(ok)
      PROVE  CleanHardcore'
  <2>1. /\ fsm' \in {"Start", "CoreLoaded"}
        /\ doing' \in {"nothing", "startCore"}
    BY <1>7 DEF OpenCore, StartCore, Phases
  <2>2. QED  BY <2>1, CleanHardcoreIdle DEF ActiveStates, GameStates
<1>8. CASE Validate
  <2>1. fsm' \notin ActiveStates
        /\ doing' \in {"validate", "loadContent", "nothing"}
    BY <1>1, <1>8 DEF Validate, LoadFails, LoadSteps
  <2>2. QED  BY <2>1, CleanHardcoreIdle
<1>9. ASSUME NEW outcome \in LoadOutcomes, LoadContent(outcome)
      PROVE  CleanHardcore'
  <2>1. fsm' \notin ActiveStates /\ doing' \in {"revalidate", "tearDown"}
    BY <1>1, <1>9 DEF LoadContent, LoadSteps
  <2>2. QED  BY <2>1, CleanHardcoreIdle
<1>10. CASE TearDown
  <2>1. fsm' \in {"Start", "CoreLoaded"} /\ doing' = "nothing"
    BY <1>1, <1>10 DEF TearDown, LoadFails
  <2>2. QED  BY <2>1, CleanHardcoreIdle DEF ActiveStates, GameStates
<1>11. CASE Revalidate
  <2>1. fsm' \notin ActiveStates /\ disallowed' = disallowed
    BY <1>1, <1>11 DEF Revalidate, LoadSteps
  <2>2. CASE ValidateSettings(TRUE)
    <3>1. hardcore' => HardcoreAllowed /\ hadDisallowed' = hadDisallowed
      BY <2>2 DEF ValidateSettings
    <3>2. QED  BY <2>1, <3>1 DEF CleanHardcore, HardcoreAllowed
  <2>3. CASE LoadFails
    BY <2>1, <2>3, CleanHardcoreIdle DEF LoadFails
  <2>4. QED  BY <1>11, <2>2, <2>3 DEF Revalidate, AbandonGame
<1>12. CASE Identify
  <2>1. fsm' \notin ActiveStates /\ UNCHANGED settings /\ doing = "identify"
    BY <1>1, <1>12 DEF Identify, LoadSteps
  <2>2. CASE SwitchToHardcore
    BY <2>1, <2>2 DEF SwitchToHardcore, HardcoreAllowed, CleanHardcore
  <2>3. CASE UNCHANGED hardcore
    BY <2>1, <2>3, CleanHardcoreMove
  <2>4. QED  BY <1>12, <2>2, <2>3 DEF Identify
<1>13. CASE FinishLoad
  BY <1>13, CleanHardcoreMove DEF FinishLoad
<1>14. QED
  BY <1>2, <1>3, <1>4, <1>5, <1>6, <1>7, <1>8, <1>9, <1>10, <1>11, <1>12,
     <1>13 DEF Continue

LEMMA InputCleanHardcore ==
  ASSUME ~LegacyDll, CleanHardcore, Input \/ RunFrame \/ BadPerformance
  PROVE  CleanHardcore'
<1> USE DEF control, achievements, settings
<1>1. ASSUME Idle, UNCHANGED <<doing, settings, hardcore>>,
             NEW state \in {fsm, FsmPauseGame(fsm), FsmPauseGameNoOvl(fsm),
                            FsmResumeGame(fsm), FsmStep(fsm)}, fsm' = state
      PROVE  CleanHardcore'
  BY <1>1, CleanHardcoreMove, MovesStayActive DEF Idle
<1>2. CASE MenuLoadGame \/ Exit
  BY <1>1, <1>2 DEF MenuLoadGame, Exit, Start
<1>3. ASSUME NEW s \in Systems, LoadRecent(s) \/ SelectCore(s) \/ CommandLine(s)
      PROVE  CleanHardcore'
  BY <1>1, <1>3 DEF LoadRecent, SelectCore, CommandLine, Start
<1>4. CASE Resume \/ Pause \/ PauseToggle \/ PauseToggleNoOvl \/ Step
           \/ BadPerformance
  BY <1>1, <1>4
  DEF Resume, Pause, PauseToggle, PauseToggleNoOvl, Step, BadPerformance, MoveTo
<1>5. CASE ResetGame \/ RunFrame
  <2>1. /\ UNCHANGED <<doing, hardcore, hadDisallowed>>
        /\ fsm' \in {fsm, FsmResumeGame(fsm), FsmStep(fsm)}
        /\ hardcore' /\ disallowed' =>
             redeclared' \/ (disallowed /\ redeclared' = redeclared)
        /\ Idle
    <3>1. DeclareAnew /\ UNCHANGED hardcore
      BY <1>5 DEF ResetGame, ResetCore, RunFrame
    <3>2. /\ UNCHANGED <<doing, hardcore>> /\ Idle
          /\ fsm' \in {fsm, FsmResumeGame(fsm), FsmStep(fsm)}
      BY <1>5 DEF ResetGame, RunFrame
    <3>3. CASE UNCHANGED <<disallowed, redeclared>>
      BY <3>1, <3>2, <3>3 DEF DeclareAnew
    <3>4. CASE redeclared' = (hardcore' /\ disallowed')
      BY <3>1, <3>2, <3>4 DEF DeclareAnew
    <3>5. QED  BY <3>1, <3>3, <3>4 DEF DeclareAnew
  <2>2. fsm' \in ActiveStates => fsm \in ActiveStates
    BY <2>1, MovesStayActive DEF Idle
  <2>3. QED  BY <2>1, <2>2 DEF CleanHardcore
<1>6. ASSUME NEW d \in Disallowed, CoreConfig(d)  PROVE CleanHardcore'
  <2>1. /\ UNCHANGED <<fsm, doing>> /\ disallowed' = d
        /\ hardcore' = (hardcore /\ ~d)
        /\ hadDisallowed' = (hadDisallowed \/ (hardcore /\ d))
    BY <1>6 DEF CoreConfig
  <2>2. QED  BY <2>1 DEF CleanHardcore
<1>7. CASE EnableHardcore
  <2>1. /\ hardcore' => HardcoreAllowed
        /\ UNCHANGED <<fsm, doing, hadDisallowed>>
        /\ hardcore' /\ disallowed' => redeclared' \/ disallowed
    BY <1>7 DEF EnableHardcore, SwitchToHardcore, ResetCore, DeclareAnew
  <2>2. QED  BY <2>1 DEF CleanHardcore, HardcoreAllowed
<1>8. CASE DisableHardcore
  BY <1>8 DEF DisableHardcore, CleanHardcore
<1>9. QED
  BY <1>2, <1>3, <1>4, <1>5, <1>6, <1>7, <1>8 DEF Input

(* Whatever the user, the core and RetroAchievements do in whatever order, *)
(* no game is played in hardcore after a value hardcore does not allow was *)
(* tracked, nor with such a value, unless the core itself declared its     *)
(* options anew in a frame or a reset when hardcore was on already.        *)
THEOREM HardcoreIsClean ==
  ASSUME ~LegacyDll
  PROVE  Spec => []HardcoreHasCleanSettings
<1>1. Init => CleanHardcore
  BY DEF Init, CleanHardcore
<1>2. Phases /\ CleanHardcore /\ [Next]_vars => CleanHardcore'
  <2>1. Phases /\ CleanHardcore /\ Next => CleanHardcore'
    BY ContinueCleanHardcore, InputCleanHardcore DEF Next
  <2>2. CleanHardcore /\ UNCHANGED vars => CleanHardcore'
    BY DEF CleanHardcore, vars, control, settings, achievements
  <2>3. QED  BY <2>1, <2>2
<1>3. CleanHardcore => HardcoreHasCleanSettings
  BY DEF CleanHardcore, HardcoreHasCleanSettings, IsGameActive
<1>4. QED  BY <1>1, <1>2, <1>3, PhasesHold, PTL DEF Spec

(* Inductive given Phases: RetroAchievements' game and the flag that would *)
(* cancel a load, which only the legacy DLL's answer raises.               *)
GameWatched ==
  /\ ~cancelLoad
  /\ raGame <=> (fsm \in ActiveStates \/ doing = "finish")

LEMMA ContinueGameWatched ==
  ASSUME ~LegacyDll, Phases, GameWatched, Continue
  PROVE  GameWatched'
<1> USE DEF achievements, content
<1>1. doing \in LoadSteps \cup {"tearDown"} =>
        fsm = "CoreLoaded" /\ fsm \notin ActiveStates
  BY DEF Phases, ActiveStates, GameStates
<1>2. ASSUME UNCHANGED <<cancelLoad, raGame>>, doing # "finish", doing' # "finish",
             fsm' \in ActiveStates <=> fsm \in ActiveStates
      PROVE  GameWatched'
  BY <1>2 DEF GameWatched
<1>3. CASE FsmLoadCore
  BY <1>2, <1>3 DEF FsmLoadCore, Calling
<1>4. CASE FsmUnloadCore
  BY <1>2, <1>4 DEF FsmUnloadCore, Calling, ActiveStates, GameStates
<1>5. CASE FsmLoadGame
  BY <1>2, <1>5 DEF FsmLoadGame, Calling
<1>6. CASE FsmUnloadGame
  <2>1. doing = "nothing" /\ doing' = "nothing"
    BY <1>6 DEF FsmUnloadGame, Calling
  <2>2. CASE ReleaseGame /\ fsm' = "CoreLoaded" /\ cancelLoad' = FALSE
    BY <2>1, <2>2 DEF GameWatched, ReleaseGame, ActiveStates, GameStates
  <2>3. CASE UNCHANGED <<fsm, raGame>> /\ (cancelLoad' => cancelLoad)
    BY <2>1, <2>3 DEF GameWatched
  <2>4. cancelLoad' = FALSE \/ cancelLoad' = cancelLoad
    BY <1>6 DEF FsmUnloadGame
  <2>5. \/ ReleaseGame /\ fsm' = "CoreLoaded" /\ cancelLoad' = FALSE
        \/ UNCHANGED <<fsm, raGame>>
    BY <1>6 DEF FsmUnloadGame
  <2>6. cancelLoad' => cancelLoad  BY <2>4, Zenon
  <2>7. QED  BY <2>2, <2>3, <2>5, <2>6
<1>7. CASE FsmQuit
  BY <1>2, <1>7 DEF FsmQuit, Calling, ActiveStates, GameStates
<1>8. ASSUME NEW ok \in BOOLEAN, OpenCore(ok) \/ StartCore(ok)
      PROVE  GameWatched'
  <2>1. /\ fsm = "Start" /\ fsm' \in {"Start", "CoreLoaded"}
        /\ doing \in {"openCore", "startCore"}
        /\ doing' \in {"nothing", "startCore"}
        /\ UNCHANGED <<cancelLoad, raGame>>
    BY <1>8 DEF OpenCore, StartCore, Phases
  <2>2. QED  BY <1>2, <2>1 DEF ActiveStates, GameStates
<1>9. CASE Validate
  BY <1>2, <1>9 DEF Validate, LoadFails
<1>10. ASSUME NEW outcome \in LoadOutcomes, LoadContent(outcome)
       PROVE  GameWatched'
  BY <1>2, <1>10 DEF LoadContent
<1>11. CASE TearDown
  <2>1. /\ fsm' \in {"Start", "CoreLoaded"} /\ fsm = "CoreLoaded"
        /\ doing = "tearDown" /\ doing' = "nothing"
        /\ UNCHANGED <<cancelLoad, raGame>>
    BY <1>1, <1>11 DEF TearDown, LoadFails
  <2>2. QED  BY <1>2, <2>1 DEF ActiveStates, GameStates
<1>12. CASE Revalidate
  BY <1>2, <1>12 DEF Revalidate, AbandonGame, LoadFails
<1>13. CASE Identify
  <2>1. fsm' \notin ActiveStates /\ fsm \notin ActiveStates /\ doing = "identify"
    BY <1>1, <1>13 DEF Identify, LoadSteps
  <2>2. cancelLoad' = cancelLoad \/ SwitchToHardcore
    BY <1>13 DEF Identify
  <2>3. ~cancelLoad'
    BY <2>2 DEF SwitchToHardcore, GameWatched
  <2>4. CASE raGame' = TRUE /\ doing' = "finish"
    BY <2>1, <2>3, <2>4 DEF GameWatched
  <2>5. CASE AbandonGame /\ UNCHANGED raGame
    BY <2>1, <2>3, <2>5 DEF GameWatched, AbandonGame, LoadFails
  <2>6. QED  BY <1>13, <2>4, <2>5 DEF Identify
<1>14. CASE FinishLoad
  <2>1. fsm' = "GameRunning" /\ doing' = "nothing" /\ cancelLoad' = FALSE
        /\ raGame /\ UNCHANGED raGame
    BY <1>14 DEF FinishLoad, GameWatched
  <2>2. QED  BY <2>1 DEF GameWatched, ActiveStates, GameStates
<1>15. QED
  BY <1>3, <1>4, <1>5, <1>6, <1>7, <1>8, <1>9, <1>10, <1>11, <1>12, <1>13,
     <1>14 DEF Continue

LEMMA InputGameWatched ==
  ASSUME ~LegacyDll, GameWatched, Input \/ RunFrame \/ BadPerformance
  PROVE  GameWatched'
<1> USE DEF control, achievements, content
<1>1. ASSUME UNCHANGED <<doing, cancelLoad, raGame>>,
             NEW state \in {fsm, FsmPauseGame(fsm), FsmPauseGameNoOvl(fsm),
                            FsmResumeGame(fsm), FsmStep(fsm)}, fsm' = state
      PROVE  GameWatched'
  BY <1>1, MovesStayActive DEF GameWatched
<1>2. CASE MenuLoadGame \/ Exit
  BY <1>1, <1>2 DEF MenuLoadGame, Exit, Start
<1>3. ASSUME NEW s \in Systems, LoadRecent(s) \/ SelectCore(s) \/ CommandLine(s)
      PROVE  GameWatched'
  BY <1>1, <1>3 DEF LoadRecent, SelectCore, CommandLine, Start
<1>4. CASE Resume \/ Pause \/ PauseToggle \/ PauseToggleNoOvl \/ Step
           \/ BadPerformance
  BY <1>1, <1>4
  DEF Resume, Pause, PauseToggle, PauseToggleNoOvl, Step, BadPerformance, MoveTo
<1>5. CASE ResetGame \/ RunFrame
  BY <1>1, <1>5 DEF ResetGame, RunFrame
<1>6. ASSUME NEW d \in Disallowed, CoreConfig(d)  PROVE GameWatched'
  BY <1>1, <1>6 DEF CoreConfig
<1>7. CASE EnableHardcore
  <2>1. ~cancelLoad' /\ UNCHANGED <<fsm, doing, raGame>>
    BY <1>7 DEF EnableHardcore, SwitchToHardcore, GameWatched
  <2>2. QED  BY <2>1 DEF GameWatched
<1>8. CASE DisableHardcore
  BY <1>1, <1>8 DEF DisableHardcore
<1>9. QED
  BY <1>2, <1>3, <1>4, <1>5, <1>6, <1>7, <1>8 DEF Input

(* RetroAchievements watches a game exactly while the Fsm has one, except  *)
(* while a load is under way.                                              *)
THEOREM AchievementsFollow ==
  ASSUME ~LegacyDll
  PROVE  Spec => []AchievementsFollowGame
<1>1. Init => GameWatched
  BY DEF Init, GameWatched, ActiveStates, GameStates
<1>2. Phases /\ GameWatched /\ [Next]_vars => GameWatched'
  <2>1. Phases /\ GameWatched /\ Next => GameWatched'
    BY ContinueGameWatched, InputGameWatched DEF Next
  <2>2. GameWatched /\ UNCHANGED vars => GameWatched'
    BY DEF GameWatched, vars, control, content, achievements
  <2>3. QED  BY <2>1, <2>2
<1>3. GameWatched => AchievementsFollowGame
  BY DEF GameWatched, AchievementsFollowGame, IsGameActive
<1>4. QED  BY <1>1, <1>2, <1>3, PhasesHold, PTL DEF Spec

-----------------------------------------------------------------------------
(***************************************************************************)
(* That no core is given a game over another, for any systems, options and *)
(* outcomes of a load, as long as the user refuses no request to unload.   *)
(*                                                                         *)
(* Nothing looks at the library before retro_load_game: that there is no   *)
(* game follows from the order of calls alone.  So the invariant is about  *)
(* what is left to do, in each state of the Fsm.                           *)
(***************************************************************************)
(* The chains of calls there are.                                          *)
LoadCoreChains ==
  {<<"loadCore">>, <<"unloadCore", "loadCore">>,
   <<"unloadGame", "unloadCore", "loadCore">>}
QuitChains == {<<"quit">>, <<"unloadCore", "quit">>, <<"unloadGame", "quit">>}
Chains == LoadCoreChains \cup QuitChains
            \cup {<<>>, <<"loadGame">>, <<"unloadGame">>}

(* What a load that begins now may rely on: Fsm::loadGame refuses, or the  *)
(* core has no game.                                                       *)
MayLoad(state, l) ==
  \/ state \in {"Start", "FrameStep", "Quit"}
  \/ state = "CoreLoaded" /\ l.state = "ready"

Ordered ==
  /\ NeverLoadsOverGame
  /\ todo \in Chains
  /\ handler # "none" => todo \in LoadCoreChains
  /\ todo \in {<<"unloadCore", "loadCore">>, <<"unloadCore", "quit">>} =>
       fsm = "CoreLoaded"
  /\ todo \in {<<"unloadGame", "unloadCore", "loadCore">>,
               <<"unloadGame", "quit">>} => fsm \in GameStates
  /\ doing \in {"openCore", "startCore"} => todo = <<"loadCore">>
  /\ doing \in LoadSteps \cup {"tearDown"} => todo = <<"loadGame">>
  /\ todo = <<"loadGame">> /\ doing \in {"nothing", "validate", "loadContent"} =>
       MayLoad(fsm, lib)

-----------------------------------------------------------------------------
(* Chains.                                                                 *)

LEMMA ChainHeads ==
  ASSUME NEW chain \in Chains, chain # <<>>
  PROVE  /\ Head(chain) = "loadCore" => chain = <<"loadCore">>
         /\ Head(chain) = "loadGame" => chain = <<"loadGame">>
         /\ Head(chain) = "quit" => chain = <<"quit">>
         /\ Head(chain) = "unloadCore" =>
              chain \in {<<"unloadCore", "loadCore">>, <<"unloadCore", "quit">>}
         /\ Head(chain) = "unloadGame" =>
              chain \in {<<"unloadGame", "unloadCore", "loadCore">>,
                         <<"unloadGame", "quit">>, <<"unloadGame">>}
BY DEF Chains, LoadCoreChains, QuitChains

LEMMA ChainTails ==
  /\ Tail(<<"unloadCore", "loadCore">>) = <<"loadCore">>
  /\ Tail(<<"unloadCore", "quit">>) = <<"quit">>
  /\ Tail(<<"unloadGame", "quit">>) = <<"quit">>
  /\ Tail(<<"unloadGame", "unloadCore", "loadCore">>) =
       <<"unloadCore", "loadCore">>
OBVIOUS

Singles == {<<>>, <<"loadCore">>, <<"loadGame">>, <<"quit">>, <<"unloadGame">>}

LEMMA ChainLengths ==
  ASSUME NEW chain \in Singles
  PROVE  ~(Len(chain) > 1)
<1>1. CASE chain = <<>>  BY <1>1
<1>2. ASSUME NEW call, chain = <<call>>  PROVE ~(Len(chain) > 1)
  BY <1>2
<1>3. QED  BY <1>1, <1>2 DEF Singles

(* Each of the others has more than one call.                              *)
LEMMA LongChains ==
  ASSUME NEW chain \in Chains \ Singles
  PROVE  Len(chain) > 1
<1>1. CASE chain = <<"unloadCore", "loadCore">>  BY <1>1
<1>2. CASE chain = <<"unloadCore", "quit">>  BY <1>2
<1>3. CASE chain = <<"unloadGame", "quit">>  BY <1>3
<1>4. CASE chain = <<"unloadGame", "unloadCore", "loadCore">>  BY <1>4
<1>5. QED
  BY <1>1, <1>2, <1>3, <1>4 DEF Chains, Singles, LoadCoreChains, QuitChains

LEMMA ChainsExpanded ==
  /\ <<"unloadCore", "loadCore">> \o Tail(<<"loadCore">>) =
       <<"unloadCore", "loadCore">>
  /\ <<"unloadGame", "unloadCore", "loadCore">> \o Tail(<<"loadCore">>) =
       <<"unloadGame", "unloadCore", "loadCore">>
  /\ <<"unloadCore", "quit">> \o Tail(<<"quit">>) = <<"unloadCore", "quit">>
  /\ <<"unloadGame", "quit">> \o Tail(<<"quit">>) = <<"unloadGame", "quit">>
OBVIOUS

(* The chains tell themselves apart.                                       *)
LEMMA ChainsDiffer ==
  /\ \A chain \in LoadCoreChains: chain # <<"loadGame">> /\ chain # <<>>
  /\ \A chain \in QuitChains: chain # <<"loadGame">> /\ chain # <<>>
  /\ LoadCoreChains \cap QuitChains = {}
  /\ <<"unloadGame">> \notin LoadCoreChains \cup QuitChains \cup {<<>>, <<"loadGame">>}
  /\ <<"loadGame">> # <<>>
BY DEF LoadCoreChains, QuitChains

-----------------------------------------------------------------------------
(* Calls of the library.                                                   *)

Unspoilt(l) == l \in LibType /\ "load_game" \notin l.misuse

(* No other call is remembered as a misplaced retro_load_game.             *)
LEMMA CallKeeps ==
  ASSUME NEW l, Unspoilt(l), NEW c \in LibCalls \ {"load_game"}
  PROVE  Unspoilt(After(l, c)) /\ Unspoilt(Call(l, c)) /\ Unspoilt(GuardedCall(l, c))
<1>1. After(l, c) \in LibType /\ Call(l, c) \in LibType /\ GuardedCall(l, c) \in LibType
  BY CallType DEF Unspoilt
<1>2. /\ "load_game" \notin After(l, c).misuse
      /\ "load_game" \notin Call(l, c).misuse
      /\ "load_game" \notin GuardedCall(l, c).misuse
  BY DEF Unspoilt, After, Call, GuardedCall, LibType
<1>3. QED  BY <1>1, <1>2 DEF Unspoilt

LEMMA OperationsKeep ==
  ASSUME Unspoilt(lib)
  PROVE  /\ \A ok \in BOOLEAN: LoadCore(ok) \/ InitCore(ok) => Unspoilt(lib')
         /\ UnloadGame \/ Destroy \/ ResetCore => Unspoilt(lib')
         /\ \A c \in {"run", "memory"}: UseGame(c) => Unspoilt(lib')
<1>1. \A ok \in BOOLEAN: LoadCore(ok) => Unspoilt(lib')
  <2>1. Unspoilt(After(lib, "open")) /\ Unspoilt(After(After(lib, "open"), "close"))
    BY CallKeeps DEF LibCalls
  <2>2. QED  BY <2>1 DEF LoadCore
<1>2. \A ok \in BOOLEAN: InitCore(ok) => Unspoilt(lib')
  BY CallKeeps DEF InitCore, LibCalls
<1>3. UnloadGame => Unspoilt(lib')
  BY CallKeeps DEF UnloadGame, LibCalls
<1>4. ASSUME Destroy  PROVE Unspoilt(lib')
  <2> DEFINE unloaded == IF gameLoaded THEN GuardedCall(lib, "unload_game")
                                       ELSE lib
  <2>1. Unspoilt(unloaded)
    BY CallKeeps DEF LibCalls
  <2>2. lib' = After(GuardedCall(unloaded, "deinit"), "close")
    BY <1>4 DEF Destroy
  <2> HIDE DEF unloaded
  <2>3. Unspoilt(GuardedCall(unloaded, "deinit"))
    BY <2>1, CallKeeps DEF LibCalls
  <2>4. QED  BY <2>2, <2>3, CallKeeps DEF LibCalls
<1>5. ResetCore => Unspoilt(lib')
  <2>1. Unspoilt(Call(lib, "reset"))  BY CallKeeps DEF LibCalls
  <2>2. QED  BY <2>1, CallKeeps DEF ResetCore, LibCalls
<1>6. \A c \in {"run", "memory"}: UseGame(c) => Unspoilt(lib')
  BY CallKeeps DEF UseGame, LibCalls
<1>7. QED  BY <1>1, <1>2, <1>3, <1>4, <1>5, <1>6

(* Loading keeps to the order when the library is ready.                   *)
LEMMA LoadingKeeps ==
  ASSUME Unspoilt(lib), lib.state = "ready", api = "bound",
         NEW outcome \in {"loaded", "refused", "no_av"}, LoadGame(outcome)
  PROVE  Unspoilt(lib')
<1>1. Unspoilt(After(lib, "load_game"))
  BY CallType DEF Unspoilt, After, Before, LibType, LibCalls
<1>2. CASE outcome = "loaded"
  BY <1>1, <1>2 DEF LoadGame, Call
<1>3. CASE outcome = "refused"
  <2> DEFINE refused == Call(lib, "load_refused")
  <2>1. Unspoilt(refused)  BY CallKeeps DEF LibCalls
  <2>2. lib' = After(GuardedCall(refused, "deinit"), "close")
    BY <1>3 DEF LoadGame
  <2> HIDE DEF refused
  <2>3. Unspoilt(GuardedCall(refused, "deinit"))
    BY <2>1, CallKeeps DEF LibCalls
  <2>4. QED  BY <2>2, <2>3, CallKeeps DEF LibCalls
<1>4. CASE outcome = "no_av"
  <2> DEFINE loaded == Call(lib, "load_game")
  <2>1. Unspoilt(loaded)  BY <1>1 DEF Call
  <2>2. lib' = After(After(GuardedCall(GuardedCall(loaded, "unload_game"),
                                       "deinit"), "close"), "close")
    BY <1>4 DEF LoadGame
  <2> HIDE DEF loaded
  <2>3. Unspoilt(GuardedCall(loaded, "unload_game"))
    BY <2>1, CallKeeps DEF LibCalls
  <2>4. Unspoilt(GuardedCall(GuardedCall(loaded, "unload_game"), "deinit"))
    BY <2>3, CallKeeps DEF LibCalls
  <2>5. Unspoilt(After(GuardedCall(GuardedCall(loaded, "unload_game"),
                                   "deinit"), "close"))
    BY <2>4, CallKeeps DEF LibCalls
  <2>6. QED  BY <2>2, <2>5, CallKeeps DEF LibCalls
<1>5. QED  BY <1>2, <1>3, <1>4

-----------------------------------------------------------------------------
(* The steps.                                                              *)

LEMMA OrderedAtRest ==
  ASSUME Unspoilt(lib'), todo' = <<>>, handler' = "none", doing' = "nothing"
  PROVE  Ordered'
BY ChainsDiffer DEF Ordered, NeverLoadsOverGame, Unspoilt, Chains, LoadSteps

(* When the load of a game returns, nothing is left to do.                 *)
LEMMA LoadReturns ==
  ASSUME Ordered, NEW ok \in BOOLEAN, Return(ok), todo = <<"loadGame">>
  PROVE  todo' = <<>> /\ handler' = "none"
<1>1. todo \notin LoadCoreChains /\ handler = "none"
  BY ChainsDiffer DEF Ordered
<1>2. todo \in Singles  BY DEF Singles
<1>3. Len(todo) = 1  OBVIOUS
<1>4. ~(ok /\ Len(todo) > 1)  BY <1>3
<1>5. QED  BY <1>1, <1>4 DEF Return

(* When the loading of a core returns, a game may be loaded next.          *)
LEMMA CoreReturns ==
  ASSUME Ordered, NEW ok \in BOOLEAN, Return(ok), todo = <<"loadCore">>,
         doing' = "nothing", Unspoilt(lib'), MayLoad(fsm', lib')
  PROVE  Ordered'
<1>1. todo \in Singles  BY DEF Singles
<1>2. ~(ok /\ Len(todo) > 1)  BY <1>1, ChainLengths
<1>3. handler' = "none" /\ todo' \in {<<>>, <<"loadGame">>}
  BY <1>2 DEF Return
<1>4. QED
  BY <1>3, ChainsDiffer
  DEF Ordered, NeverLoadsOverGame, Unspoilt, Chains, LoadSteps, LoadCoreChains,
      QuitChains

LEMMA ContinueOrdered ==
  ASSUME FALSE \notin ConfirmAnswers, TypeOK, Phases, Ordered, Continue
  PROVE  Ordered'
<1> USE DEF control, content, settings, achievements, coreVars
<1>1. Unspoilt(lib)
  BY DEF Unspoilt, TypeOK, CoreTypeOK, Ordered, NeverLoadsOverGame
<1>2. CASE FsmLoadCore
  <2>1. /\ doing = "nothing" /\ todo = <<"loadCore">>
        /\ UNCHANGED <<fsm, lib>>
    BY <1>2, ChainHeads DEF FsmLoadCore, Calling, Ordered
  <2>2. CASE doing' = "openCore" /\ UNCHANGED <<todo, handler>>
    BY <1>1, <2>1, <2>2, ChainsDiffer
    DEF Ordered, NeverLoadsOverGame, LoadSteps, LoadCoreChains
  <2>3. CASE /\ fsm = "CoreLoaded" /\ Expand(<<"unloadCore", "loadCore">>)
             /\ UNCHANGED doing
    <3>1. todo' = <<"unloadCore", "loadCore">> /\ UNCHANGED handler
      BY <2>1, <2>3, ChainsExpanded DEF Expand
    <3>2. QED
      BY <2>1, <2>3, <3>1, ChainsDiffer
      DEF Ordered, NeverLoadsOverGame, LoadSteps, LoadCoreChains, Chains
  <2>4. CASE /\ fsm \in GameStates
             /\ Expand(<<"unloadGame", "unloadCore", "loadCore">>)
             /\ UNCHANGED doing
    <3>1. todo' = <<"unloadGame", "unloadCore", "loadCore">> /\ UNCHANGED handler
      BY <2>1, <2>4, ChainsExpanded DEF Expand
    <3>2. QED
      BY <2>1, <2>4, <3>1, ChainsDiffer
      DEF Ordered, NeverLoadsOverGame, LoadSteps, LoadCoreChains, Chains
  <2>5. CASE fsm \in {"FrameStep", "Quit"} /\ Return(FALSE) /\ UNCHANGED doing
    BY <1>1, <2>1, <2>5, CoreReturns DEF MayLoad
  <2>6. QED  BY <1>2, <2>2, <2>3, <2>4, <2>5 DEF FsmLoadCore
<1>3. CASE FsmUnloadCore
  <2>1. /\ doing = "nothing" /\ doing' = "nothing" /\ fsm = "CoreLoaded"
        /\ todo \in {<<"unloadCore", "loadCore">>, <<"unloadCore", "quit">>}
    BY <1>3, ChainHeads DEF FsmUnloadCore, Calling, Ordered
  <2>2. Destroy /\ fsm' = "Start" /\ Return(TRUE)
    BY <1>3, <2>1 DEF FsmUnloadCore
  <2>3. Unspoilt(lib')
    BY <1>1, <2>2, OperationsKeep
  <2>4. /\ \/ /\ todo = <<"unloadCore", "loadCore">>
              /\ todo' = <<"loadCore">>
           \/ /\ todo = <<"unloadCore", "quit">>
              /\ todo' = <<"quit">>
        /\ UNCHANGED handler
    <3>1. todo \notin Singles
      BY <2>1 DEF Singles
    <3>2. Len(todo) > 1  BY <2>1, <3>1, LongChains DEF Ordered
    <3>3. todo' = Tail(todo) /\ UNCHANGED handler  BY <2>2, <3>2 DEF Return
    <3>4. CASE todo = <<"unloadCore", "loadCore">>
      BY <3>3, <3>4, ChainTails, Zenon
    <3>5. CASE todo = <<"unloadCore", "quit">>
      BY <3>3, <3>5, ChainTails, Zenon
    <3>6. todo = <<"unloadCore", "loadCore">> \/ todo = <<"unloadCore", "quit">>
      BY <2>1
    <3>7. QED  BY <3>4, <3>5, <3>6, Zenon
  <2>5. handler # "none" => todo' \in LoadCoreChains
    BY <2>4, ChainsDiffer DEF Ordered, LoadCoreChains, QuitChains
  <2>6. QED
    BY <2>1, <2>3, <2>4, <2>5
    DEF Ordered, NeverLoadsOverGame, Unspoilt, LoadSteps, LoadCoreChains, QuitChains,
        Chains
<1>4. CASE FsmLoadGame
  <2>1. doing = "nothing" /\ todo = <<"loadGame">> /\ UNCHANGED <<fsm, lib>>
    BY <1>4, ChainHeads DEF FsmLoadGame, Calling, Ordered
  <2>2. MayLoad(fsm, lib)  BY <2>1 DEF Ordered
  <2>3. CASE fsm = "CoreLoaded"
    <3>1. doing' = "validate" /\ UNCHANGED <<todo, handler>>
      BY <1>4, <2>3 DEF FsmLoadGame, GameStates
    <3>2. QED
      BY <2>1, <2>2, <3>1, ChainsDiffer DEF Ordered, NeverLoadsOverGame, MayLoad, LoadSteps
  <2>4. CASE fsm # "CoreLoaded"
    <3>1. Return(FALSE) /\ UNCHANGED doing
      BY <1>4, <2>2, <2>4 DEF FsmLoadGame, MayLoad, GameStates
    <3>2. QED  BY <1>1, <2>1, <3>1, LoadReturns, OrderedAtRest
  <2>5. QED  BY <2>3, <2>4
<1>5. CASE FsmUnloadGame
  <2>1. /\ doing = "nothing" /\ doing' = "nothing"
        /\ todo \in {<<"unloadGame", "unloadCore", "loadCore">>,
                     <<"unloadGame", "quit">>, <<"unloadGame">>}
    BY <1>5, ChainHeads DEF FsmUnloadGame, Calling, Ordered
  <2>2. CASE fsm \in GameStates
    <3>1. ReleaseGame /\ fsm' = "CoreLoaded" /\ Return(TRUE)
      BY <1>5, <2>2 DEF FsmUnloadGame
    <3>2. Unspoilt(lib')
      BY <1>1, <3>1, OperationsKeep DEF ReleaseGame
    <3>3. CASE todo = <<"unloadGame">>
      <4>1. todo \in Singles /\ todo \notin LoadCoreChains /\ handler = "none"
        BY <3>3, ChainsDiffer DEF Singles, Ordered
      <4>2. ~(Len(todo) > 1)  BY <4>1, ChainLengths
      <4>3. todo' = <<>> /\ handler' = "none"
        BY <3>1, <4>1, <4>2 DEF Return
      <4>4. QED  BY <2>1, <3>2, <4>3, OrderedAtRest
    <3>4. CASE todo # <<"unloadGame">>
      <4>1. todo \notin Singles
        BY <2>1, <3>4 DEF Singles
      <4>2. /\ \/ /\ todo = <<"unloadGame", "unloadCore", "loadCore">>
                 /\ todo' = <<"unloadCore", "loadCore">>
              \/ /\ todo = <<"unloadGame", "quit">>
                 /\ todo' = <<"quit">>
            /\ UNCHANGED handler
        <5>1. Len(todo) > 1  BY <4>1, LongChains DEF Ordered
        <5>2. todo' = Tail(todo) /\ UNCHANGED handler  BY <3>1, <5>1 DEF Return
        <5>3. CASE todo = <<"unloadGame", "unloadCore", "loadCore">>
          BY <5>2, <5>3, ChainTails, Zenon
        <5>4. CASE todo = <<"unloadGame", "quit">>
          BY <5>2, <5>4, ChainTails, Zenon
        <5>5. \/ todo = <<"unloadGame", "unloadCore", "loadCore">>
              \/ todo = <<"unloadGame", "quit">>
          BY <2>1, <3>4
        <5>6. QED  BY <5>3, <5>4, <5>5, Zenon
      <4>3. handler # "none" => todo' \in LoadCoreChains
        BY <4>2, ChainsDiffer DEF Ordered, LoadCoreChains, QuitChains
      <4>4. QED
        BY <2>1, <3>1, <3>2, <4>2, <4>3
        DEF Ordered, NeverLoadsOverGame, Unspoilt, LoadSteps, LoadCoreChains,
            QuitChains, Chains
    <3>5. QED  BY <3>3, <3>4
  <2>3. CASE fsm \notin GameStates
    <3>1. Return(FALSE) /\ UNCHANGED lib
      BY <1>5, <2>3 DEF FsmUnloadGame
    <3>2. todo = <<"unloadGame">>
      BY <2>1, <2>3 DEF Ordered
    <3>3. todo \notin LoadCoreChains /\ handler = "none"
      BY <3>2, ChainsDiffer DEF Ordered
    <3>4. todo' = <<>> /\ handler' = "none"
      BY <3>1, <3>3 DEF Return
    <3>5. QED  BY <1>1, <2>1, <3>1, <3>4, OrderedAtRest
  <2>4. QED  BY <2>2, <2>3
<1>6. CASE FsmQuit
  <2>1. doing = "nothing" /\ doing' = "nothing" /\ todo = <<"quit">> /\ UNCHANGED lib
    BY <1>6, ChainHeads DEF FsmQuit, Calling, Ordered
  <2>2. todo \in Singles /\ todo \notin LoadCoreChains /\ handler = "none"
    <3>1. <<"quit">> \in QuitChains  BY DEF QuitChains
    <3>2. QED  BY <2>1, <3>1, ChainsDiffer DEF Singles, Ordered
  <2>3. ASSUME NEW ok \in BOOLEAN, Return(ok)  PROVE Ordered'
    <3>1. ~(Len(todo) > 1)  BY <2>2, ChainLengths
    <3>2. todo' = <<>> /\ handler' = "none"
      BY <2>2, <2>3, <3>1 DEF Return
    <3>3. QED  BY <1>1, <2>1, <3>2, OrderedAtRest
  <2>4. CASE fsm = "CoreLoaded" /\ UNCHANGED fsm /\ Expand(<<"unloadCore", "quit">>)
    <3>1. todo' = <<"unloadCore", "quit">> /\ handler' = "none"
      BY <2>1, <2>2, <2>4, ChainsExpanded DEF Expand
    <3>2. QED
      BY <2>1, <2>4, <3>1, ChainsDiffer
      DEF Ordered, NeverLoadsOverGame, LoadSteps, QuitChains, Chains
  <2>5. CASE fsm \in GameStates /\ UNCHANGED fsm /\ Expand(<<"unloadGame", "quit">>)
    <3>1. todo' = <<"unloadGame", "quit">> /\ handler' = "none"
      BY <2>1, <2>2, <2>5, ChainsExpanded DEF Expand
    <3>2. QED
      BY <2>1, <2>5, <3>1, ChainsDiffer
      DEF Ordered, NeverLoadsOverGame, LoadSteps, QuitChains, Chains
  <2>6. QED  BY <1>6, <2>3, <2>4, <2>5 DEF FsmQuit
<1>7. ASSUME NEW ok \in BOOLEAN, OpenCore(ok)  PROVE Ordered'
  <2>1. Unspoilt(lib')  BY <1>1, <1>7, OperationsKeep DEF OpenCore
  <2>2. todo = <<"loadCore">> /\ fsm' = "Start"
    BY <1>7 DEF OpenCore, Ordered, Phases
  <2>3. CASE ok
    <3>1. doing' = "startCore" /\ UNCHANGED <<todo, handler>>
      BY <1>7, <2>3 DEF OpenCore
    <3>2. QED
      BY <2>1, <2>2, <3>1, ChainsDiffer
      DEF Ordered, NeverLoadsOverGame, Unspoilt, LoadSteps, LoadCoreChains
  <2>4. CASE ~ok
    <3>1. doing' = "nothing" /\ Return(FALSE)
      BY <1>7, <2>4 DEF OpenCore
    <3>2. QED  BY <2>1, <2>2, <3>1, CoreReturns DEF MayLoad
  <2>5. QED  BY <2>3, <2>4
<1>8. ASSUME NEW ok \in BOOLEAN, StartCore(ok)  PROVE Ordered'
  <2>1. /\ todo = <<"loadCore">> /\ doing' = "nothing" /\ Return(ok)
        /\ Unspoilt(lib') /\ fsm = "Start"
    BY <1>1, <1>8, OperationsKeep DEF StartCore, Ordered, Phases
  <2>2. CASE ok
    <3>1. lib' = After(lib, "init") /\ fsm' = "CoreLoaded"
      BY <1>8, <2>2 DEF StartCore, InitCore, Phases, Call
    <3>2. lib'.state = "ready"
      BY <1>1, <3>1, AfterEffect DEF Unspoilt, LibCalls, Behind
    <3>3. QED  BY <2>1, <3>1, <3>2, CoreReturns DEF MayLoad
  <2>3. CASE ~ok
    <3>1. fsm' = "Start"  BY <1>8, <2>1, <2>3 DEF StartCore
    <3>2. QED  BY <2>1, <3>1, CoreReturns DEF MayLoad
  <2>4. QED  BY <2>2, <2>3
<1>9. ASSUME doing \in LoadSteps \cup {"tearDown"}, LoadFails, Unspoilt(lib')
      PROVE  Ordered'
  <2>1. todo = <<"loadGame">>  BY <1>9 DEF Ordered
  <2>2. QED  BY <1>9, <2>1, LoadReturns, OrderedAtRest DEF LoadFails
<1>10. ASSUME doing \in LoadSteps, doing' \in LoadSteps \cup {"tearDown"},
              UNCHANGED <<todo, handler>>, Unspoilt(lib'),
              doing' \in {"validate", "loadContent"} =>
                doing \in {"validate", "loadContent"} /\ UNCHANGED <<fsm, lib>>
       PROVE  Ordered'
  <2>1. todo = <<"loadGame">> /\ handler = "none"
    BY <1>10, ChainsDiffer DEF Ordered
  <2>2. doing' \notin {"nothing", "openCore", "startCore"}
    BY <1>10 DEF LoadSteps
  <2>3. QED
    BY <1>10, <2>1, <2>2, ChainsDiffer
    DEF Ordered, NeverLoadsOverGame, Unspoilt, LoadCoreChains, QuitChains
<1>11. CASE Validate
  <2>1. doing = "validate" /\ UNCHANGED <<fsm, lib>>
    BY <1>11 DEF Validate
  <2>2. QED  BY <1>1, <1>9, <1>10, <1>11, <2>1 DEF Validate, LoadSteps
<1>12. ASSUME NEW outcome \in LoadOutcomes, LoadContent(outcome)
       PROVE  Ordered'
  <2>1. /\ doing = "loadContent" /\ todo = <<"loadGame">> /\ fsm = "CoreLoaded"
        /\ api = "bound"
    BY <1>12 DEF LoadContent, Ordered, Phases, LoadSteps
  <2>2. lib.state = "ready"
    BY <2>1 DEF Ordered, MayLoad
  <2>3. outcome \in {"loaded", "refused", "no_av"} /\ LoadGame(outcome)
    BY <1>12, LoadOutcomesAssumption DEF LoadContent
  <2>4. Unspoilt(lib')
    BY <1>1, <2>1, <2>2, <2>3, LoadingKeeps
  <2>5. doing' \in {"revalidate", "tearDown"} /\ UNCHANGED <<todo, handler>>
    BY <1>12 DEF LoadContent
  <2>6. QED  BY <1>10, <2>1, <2>4, <2>5 DEF LoadSteps
<1>13. CASE TearDown
  <2>1. Unspoilt(lib')
    BY <1>1, <1>13, OperationsKeep DEF TearDown
  <2>2. QED  BY <1>9, <1>13, <2>1 DEF TearDown
<1>14. ASSUME doing \in LoadSteps, AbandonGame  PROVE Ordered'
  BY <1>1, <1>9, <1>14, OperationsKeep DEF AbandonGame
<1>15. CASE Revalidate \/ Identify
  <2>1. doing \in {"revalidate", "identify"}
    BY <1>15 DEF Revalidate, Identify
  <2>2. \/ AbandonGame
        \/ UNCHANGED <<todo, handler, lib>> /\ doing' \in {"identify", "finish"}
    BY <1>15 DEF Revalidate, Identify
  <2>3. QED  BY <1>1, <1>10, <1>14, <2>1, <2>2 DEF LoadSteps
<1>16. CASE FinishLoad
  <2>1. todo = <<"loadGame">> /\ doing = "finish"
    BY <1>16 DEF FinishLoad, Ordered, LoadSteps
  <2>2. Unspoilt(lib')
    BY <1>1, <1>16, OperationsKeep DEF FinishLoad
  <2>3. doing' = "nothing" /\ (Return(TRUE) \/ Return(FALSE))
    BY <1>16 DEF FinishLoad, LoadFails
  <2>4. QED  BY <2>1, <2>2, <2>3, LoadReturns, OrderedAtRest
<1>17. QED
  BY <1>2, <1>3, <1>4, <1>5, <1>6, <1>7, <1>8, <1>11, <1>12, <1>13, <1>15, <1>16
  DEF Continue

LEMMA InputOrdered ==
  ASSUME TypeOK, Phases, Ordered, Input \/ RunFrame \/ BadPerformance
  PROVE  Ordered'
<1> USE DEF control, coreVars
<1>1. Unspoilt(lib)
  BY DEF Unspoilt, TypeOK, CoreTypeOK, Ordered, NeverLoadsOverGame
<1>2. Idle => handler = "none"
  BY ChainsDiffer DEF Idle, Ordered
<1>3. ASSUME Idle, UNCHANGED <<todo, handler, doing>>, Unspoilt(lib')
      PROVE  Ordered'
  BY <1>2, <1>3, OrderedAtRest DEF Idle
<1>4. ASSUME NEW waiting, Start(<<"loadCore">>, waiting)  PROVE Ordered'
  <2>1. /\ todo' = <<"loadCore">> /\ doing' = "nothing" /\ UNCHANGED lib
    BY <1>4 DEF Start, Idle
  <2>2. QED
    BY <1>1, <2>1, ChainsDiffer
    DEF Ordered, NeverLoadsOverGame, Unspoilt, Chains, LoadCoreChains, LoadSteps
<1>5. CASE MenuLoadGame
  <2>1. CASE gameLoaded
    BY <1>4, <1>5, <2>1 DEF MenuLoadGame
  <2>2. CASE ~gameLoaded
    <3>1. /\ todo' = <<"loadGame">> /\ handler' = "none"
          /\ doing' = "nothing" /\ doing = "nothing" /\ UNCHANGED <<fsm, lib>>
      BY <1>5, <2>2 DEF MenuLoadGame, Start, Idle
    <3>2. MayLoad(fsm, lib)
      <4>1. fsm \in GameStates \cup {"CoreLoaded"} /\ lib.state # "playing"
        BY <1>5, <2>2 DEF MenuLoadGame, Phases
      <4>2. QED
        BY <3>1, <4>1 DEF Phases, MayLoad, ActiveStates
    <3>3. QED
      BY <1>1, <3>1, <3>2, ChainsDiffer
      DEF Ordered, NeverLoadsOverGame, Unspoilt, Chains, LoadSteps, MayLoad
  <2>3. QED  BY <2>1, <2>2
<1>6. CASE Exit
  <2>1. /\ todo' = <<"quit">> /\ handler' = "none" /\ doing' = "nothing"
        /\ UNCHANGED lib
    BY <1>6 DEF Exit, Start, Idle
  <2>2. <<"quit">> \in QuitChains  BY DEF QuitChains
  <2>3. QED
    BY <1>1, <2>1, <2>2, ChainsDiffer
    DEF Ordered, NeverLoadsOverGame, Unspoilt, Chains, LoadSteps
<1>7. ASSUME NEW s \in Systems, LoadRecent(s) \/ SelectCore(s) \/ CommandLine(s)
      PROVE  Ordered'
  BY <1>4, <1>7 DEF LoadRecent, SelectCore, CommandLine
<1>8. ASSUME NEW state, NEW paused, MoveTo(state, paused)  PROVE Ordered'
  BY <1>1, <1>3, <1>8 DEF MoveTo, Idle
<1>9. CASE Resume \/ Pause \/ PauseToggle \/ PauseToggleNoOvl \/ Step
           \/ BadPerformance
  BY <1>8, <1>9
  DEF Resume, Pause, PauseToggle, PauseToggleNoOvl, Step, BadPerformance
<1>10. CASE ResetGame \/ RunFrame
  BY <1>1, <1>3, <1>10, OperationsKeep DEF ResetGame, RunFrame
<1>11. ASSUME NEW d \in Disallowed, CoreConfig(d)  PROVE Ordered'
  BY <1>1, <1>3, <1>11, OperationsKeep DEF CoreConfig
<1>12. CASE EnableHardcore
  <2>1. Unspoilt(lib')
    BY <1>1, <1>12, OperationsKeep DEF EnableHardcore
  <2>2. /\ doing' = "nothing" /\ handler' = "none"
        /\ todo' \in {<<>>, <<"unloadGame">>}
    BY <1>2, <1>12 DEF EnableHardcore, Idle
  <2>3. CASE todo' = <<>>  BY <2>1, <2>2, <2>3, OrderedAtRest
  <2>4. CASE todo' = <<"unloadGame">>
    <3>1. /\ todo' \in Chains /\ todo' # <<"loadGame">>
          /\ todo' \notin {<<"unloadCore", "loadCore">>, <<"unloadCore", "quit">>,
                          <<"unloadGame", "unloadCore", "loadCore">>,
                          <<"unloadGame", "quit">>}
      BY <2>4 DEF Chains
    <3>2. doing' \notin LoadSteps \cup {"openCore", "startCore", "tearDown"}
      BY <2>2 DEF LoadSteps
    <3>3. QED
      BY <2>1, <2>2, <3>1, <3>2, Zenon DEF Ordered, NeverLoadsOverGame, Unspoilt
  <2>5. QED  BY <2>2, <2>3, <2>4
<1>13. CASE DisableHardcore
  BY <1>1, <1>3, <1>13 DEF DisableHardcore
<1>14. QED
  BY <1>5, <1>6, <1>7, <1>9, <1>10, <1>11, <1>12, <1>13 DEF Input

(* "loadCore will unload the current core, even if it's the same core": as *)
(* long as no request to unload is refused, retro_load_game never finds a  *)
(* game loaded, whatever fails and whichever handler leads there.          *)
THEOREM LoadsInOrder ==
  ASSUME FALSE \notin ConfirmAnswers
  PROVE  Spec => []NeverLoadsOverGame
<1>1. Init => Ordered
  <2>1. ASSUME Init  PROVE /\ todo = <<>> /\ handler = "none" /\ doing = "nothing"
                           /\ "load_game" \notin lib.misuse
    BY <2>1 DEF Init, CoreInit
  <2>2. QED
    BY <2>1, ChainsDiffer DEF Ordered, NeverLoadsOverGame, Chains, LoadSteps
<1>2. TypeOK /\ Phases /\ Ordered /\ [Next]_vars => Ordered'
  <2>1. TypeOK /\ Phases /\ Ordered /\ Next => Ordered'
    BY ContinueOrdered, InputOrdered DEF Next
  <2>2. Ordered /\ UNCHANGED vars => Ordered'
    BY DEF Ordered, NeverLoadsOverGame, MayLoad, vars, control, coreVars
  <2>3. QED  BY <2>1, <2>2
<1>3. Ordered => NeverLoadsOverGame
  BY DEF Ordered
<1>4. QED  BY <1>1, <1>2, <1>3, TypeCorrect, PhasesHold, PTL DEF Spec
=============================================================================
