--------------------------- MODULE MCCoreSettings ---------------------------
(* CoreSettings with a core that declares its controllers early and changes  *)
(* an option's default, and one that declares them with the game.            *)
EXTENDS CoreSettings, TLC

CONSTANTS earlyCore, lateCore, speed

MCOptions ==
  [c \in {earlyCore, lateCore} |->
     IF c = earlyCore THEN {speed :> [values |-> <<"a", "b">>, default |-> "a"],
                        speed :> [values |-> <<"b", "c">>, default |-> "c"]}
                  ELSE {Empty}]
MCLayouts   == [c \in {earlyCore, lateCore} |-> IF c = earlyCore THEN (0 :> <<1, 5>>) @@ (1 :> <<1>>)
                                                     ELSE (0 :> <<1, 6>>)]
MCDescribed == [c \in {earlyCore, lateCore} |-> IF c = earlyCore THEN {1} ELSE {}]
MCPreset    == [c \in {earlyCore, lateCore} |-> IF c = earlyCore THEN Empty ELSE speed :> "b"]
=============================================================================
