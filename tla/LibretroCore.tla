---------------------------- MODULE LibretroCore ----------------------------
(***************************************************************************)
(* libretro::Core and libretro::BareCore: the wrapper RALibretro keeps      *)
(* around one core library (a DLL with the retro_* entry points), and the  *)
(* library itself as an automaton.                                         *)
(*                                                                         *)
(* An operation of the wrapper is written as the sequence of retro_* and   *)
(* dynlib_* calls it makes.  The library ("lib") follows every call, also  *)
(* one made at the wrong moment, and remembers in lib.misuse which calls   *)
(* were: that record is what the protocol properties are about.            *)
(***************************************************************************)
EXTENDS FiniteSets

VARIABLES
  lib,          \* the core library: where it is in its life, calls misplaced
  api,          \* BareCore's function pointers: "null", "bound", "dangling"
  gameLoaded,   \* Core::_gameLoaded
  libraryName   \* whether Core::_systemInfo.library_name is not NULL

coreVars == <<lib, api, gameLoaded, libraryName>>

-----------------------------------------------------------------------------
(* The library.                                                            *)

LibStates == {"closed", "opened", "ready", "playing"}

(* The calls on a library, each with the state it belongs in and the state *)
(* it leaves behind.  "load_refused" is a retro_load_game that returned    *)
(* false; "run", "reset" and "memory" are the calls that use a game.       *)
Before == [open         |-> "closed",  close       |-> "opened",
           init         |-> "opened",  deinit      |-> "ready",
           load_game    |-> "ready",   unload_game |-> "playing",
           load_refused |-> "ready",   run         |-> "playing",
           reset        |-> "playing", memory      |-> "playing"]

Behind == [open         |-> "opened",  close       |-> "closed",
           init         |-> "ready",   deinit      |-> "opened",
           load_game    |-> "playing", unload_game |-> "ready",
           load_refused |-> "ready",   run         |-> "playing",
           reset        |-> "playing", memory      |-> "playing"]

LibCalls == {"open", "close", "init", "deinit", "load_game", "unload_game",
             "load_refused", "run", "reset", "memory"}

(* "pointer" stands for a call through a function pointer that is NULL or  *)
(* belongs to a library already closed.                                    *)
Misuses == LibCalls \cup {"pointer"}

LibType == [state: LibStates, misuse: SUBSET Misuses]

After(l, call) ==
  [state  |-> Behind[call],
   misuse |-> IF l.state = Before[call] THEN l.misuse
                                        ELSE l.misuse \cup {call}]

(* A call BareCore makes without testing the pointer, and one it tests     *)
(* first (only deinit and unloadGame do).                                  *)
Call(l, call) ==
  IF api = "bound" THEN After(l, call)
                   ELSE [l EXCEPT !.misuse = @ \cup {"pointer"}]

GuardedCall(l, call) == IF api = "null" THEN l ELSE Call(l, call)

-----------------------------------------------------------------------------
(* The wrapper.                                                            *)

CoreTypeOK ==
  /\ lib \in LibType
  /\ api \in {"null", "bound", "dangling"}
  /\ gameLoaded \in BOOLEAN
  /\ libraryName \in BOOLEAN

CoreInit ==
  /\ lib = [state |-> "closed", misuse |-> {}]
  /\ api = "null"
  /\ gameLoaded = FALSE
  /\ libraryName = FALSE

Reset == gameLoaded' = FALSE /\ libraryName' = FALSE

(* Core::init followed by Core::loadCore.  The file may not open at all    *)
(* or lack a symbol; in the second case the handle is closed again and the *)
(* pointers fetched so far stay set.                                       *)
LoadCore(ok) ==
  /\ Reset
  /\ \/ /\ ok
        /\ lib' = After(lib, "open")
        /\ api' = "bound"
     \/ /\ ~ok
        /\ UNCHANGED <<lib, api>>
     \/ /\ ~ok
        /\ lib' = After(After(lib, "open"), "close")
        /\ api' = "dangling"

(* Core::initCore: copies the system info, then retro_init.  The copies    *)
(* may fail one by one, so library_name may be set all the same.           *)
InitCore(ok) ==
  /\ UNCHANGED gameLoaded
  /\ \/ /\ ok
        /\ libraryName' = TRUE
        /\ lib' = Call(lib, "init")
        /\ UNCHANGED api
     \/ /\ ~ok
        /\ libraryName' \in BOOLEAN
        /\ lib' = After(lib, "close")
        /\ api' = "null"

(* Core::loadGame.  "refused": retro_load_game returned false; the core is *)
(* torn down.  "no_av": initAV failed, which tears everything down itself  *)
(* before loadGame's error path does so once more.                         *)
LoadGame(outcome) ==
  \/ /\ outcome = "loaded"
     /\ lib' = Call(lib, "load_game")
     /\ gameLoaded' = TRUE
     /\ UNCHANGED <<api, libraryName>>
  \/ /\ outcome = "refused"
     /\ lib' = After(GuardedCall(Call(lib, "load_refused"), "deinit"), "close")
     /\ api' = "null"
     /\ Reset
  \/ /\ outcome = "no_av"
     /\ lib' = LET torn == After(GuardedCall(GuardedCall(Call(lib, "load_game"),
                                   "unload_game"), "deinit"), "close")
               IN  After(torn, "close")
     /\ api' = "null"
     /\ Reset

(* Core::unloadGame: passes the call on and forgets nothing.               *)
UnloadGame ==
  /\ lib' = GuardedCall(lib, "unload_game")
  /\ UNCHANGED <<api, gameLoaded, libraryName>>

(* Core::destroy.                                                          *)
Destroy ==
  /\ lib' = LET unloaded == IF gameLoaded THEN GuardedCall(lib, "unload_game")
                                          ELSE lib
            IN  After(GuardedCall(unloaded, "deinit"), "close")
  /\ api' = "null"
  /\ Reset

(* Core::step, Core::resetGame, Core::getMemoryData and the like.          *)
UseGame(call) ==
  /\ lib' = Call(lib, call)
  /\ UNCHANGED <<api, gameLoaded, libraryName>>

=============================================================================
