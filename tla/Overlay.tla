------------------------------ MODULE Overlay ------------------------------
(* What Video draws over the game: messages, each for a number of frames,    *)
(* and the indicator of the speed; and when Application has them drawn: with *)
(* the frames of a game that runs, and by itself while none does.            *)
EXTENDS Integers, Sequences, FiniteSets, SequencesExt

CONSTANTS
  Slots,        \* how many messages fit, 4 in the code
  Durations,    \* bound: the frames messages are shown for
  MaxMessages,  \* bound on the messages shown
  MaxDraws      \* bound on the frames drawn

VARIABLES
  mode,        \* the Fsm's state: "none", "running", "paused" or "step"
  fast,        \* Config::_fastForwarding
  show,        \* Config::_showSpeedIndicator
  ready,       \* Video::_texture # 0: there was a game to draw
  textures,    \* the textures of messages OpenGL has; they are numbered
  messages,    \* Video::_messageTexture and _messageFrames
  indicator,   \* what _speedIndicatorTexture shows
  window,      \* what the window shows: messages, and whether the loop or a frame drew
  count,       \* how many messages and frames there were
  promised     \* for the properties: messages and the frame they are shown up to

vars == <<mode, fast, show, ready, textures, messages, indicator, window, count, promised>>

Message(t, n) == [texture |-> t, frames |-> n]

-----------------------------------------------------------------------------
(* The loop of Video::draw over the messages: each is drawn, and leaves the  *)
(* list when that was its last frame; those behind it move up.               *)
DrawMessage(s, i) ==
  IF i > Len(s.messages) THEN s
  ELSE LET m == s.messages[i]
       IN IF m.frames = 1
            THEN [messages |-> RemoveAt(s.messages, i), drawn |-> s.drawn \cup {m.texture},
                  textures |-> s.textures \ {m.texture}]
            ELSE [s EXCEPT !.messages[i].frames = @ - 1, !.drawn = @ \cup {m.texture}]

Shown(list, there) == [messages |-> list, drawn |-> {}, textures |-> there]
(* Mutant: the list is gone through from its beginning.                      *)
DrawnUpwards(list, there) ==
  LET After[n \in 0..Len(list)] ==
        IF n = 0 THEN Shown(list, there) ELSE DrawMessage(After[n - 1], n)
  IN After[Len(list)]

Drawn(list, there) ==
  LET After[n \in 0..Len(list)] ==
        IF n = 0 THEN Shown(list, there) ELSE DrawMessage(After[n - 1], Len(list) + 1 - n)
  IN After[Len(list)]

(* Video::draw, where there is something to draw.                            *)
Draw(by) ==
  LET s == Drawn(messages, textures)
  IN IF ~ready THEN UNCHANGED <<messages, textures, window, count>>
     ELSE /\ messages' = s.messages /\ textures' = s.textures
          /\ window' = [by |-> by, drawn |-> s.drawn]
          /\ count' = [count EXCEPT !.draws = @ + 1]

(* Video::showMessage: a full list loses its oldest, also when the texture   *)
(* for the new one cannot be made.                                           *)
Live == {p \in promised : p.upTo > count.draws}
Oldest == {p \in Live : \A q \in Live : p.texture <= q.texture}

ShowMessage(frames, made) ==
  LET full == Len(messages) = Slots
      kept == IF full THEN Tail(messages) ELSE messages
      new  == count.messages + 1
  IN /\ new <= MaxMessages
     /\ messages' = IF made THEN Append(kept, Message(new, frames)) ELSE kept
     /\ textures' = (IF full THEN textures \ {messages[1].texture} ELSE textures)
                      \cup (IF made THEN {new} ELSE {})
     /\ promised' = (IF Cardinality(Live) = Slots THEN Live \ Oldest ELSE Live)
                      \cup (IF made THEN {[texture |-> new, upTo |-> count.draws + frames]}
                                    ELSE {})
     /\ count' = [count EXCEPT !.messages = new]
     /\ UNCHANGED <<mode, fast, show, ready, indicator, window>>

(* Application::updateSpeedIndicator, after the Fsm or the settings changed. *)
UpdateSpeedIndicator ==
  IF ~show' THEN indicator' = "none" /\ UNCHANGED <<messages, textures, window, count>>
  ELSE IF mode' \in {"paused", "step"} THEN indicator' = "paused" /\ Draw("frame")
  ELSE /\ indicator' = IF fast' THEN "fast" ELSE "none"
       /\ UNCHANGED <<messages, textures, window, count>>

-----------------------------------------------------------------------------
(* A frame of a game: Video::refresh.  Frames skipped while forwarding are   *)
(* not drawn.  After a single step the Fsm pauses again, without a word.     *)
Frame(skipped) ==
  /\ mode \in {"running", "step"} /\ (skipped => fast /\ mode = "running")
  /\ ready' = TRUE
  /\ mode' = IF mode = "step" THEN "paused" ELSE mode
  /\ IF skipped THEN UNCHANGED <<messages, textures, window, count>> ELSE Draw("frame")
  /\ UNCHANGED <<fast, show, indicator, promised>>

(* A turn of Application::run without a game that runs: messages go on, and  *)
(* the last of them is wiped away.                                           *)
Turn ==
  LET s == Drawn(messages, textures)
  IN /\ mode \in {"none", "paused"} /\ messages # <<>> /\ ready
     /\ messages' = s.messages /\ textures' = s.textures
     /\ window' = [by |-> "turn", drawn |-> IF s.messages = <<>> THEN {} ELSE s.drawn]
     /\ count' = [count EXCEPT !.draws = @ + 1]
     /\ UNCHANGED <<mode, fast, show, ready, indicator, promised>>

(* Application::pauseGame, the keys that pause, resume and step: the Fsm     *)
(* changes or refuses to, and the indicator follows.                         *)
Pause  == mode = "running" /\ mode' = "paused"
Resume == mode = "paused" /\ mode' = "running"
Step   == mode \in {"running", "paused"} /\ mode' = "step"
ChangeMode ==
  /\ Pause \/ Resume \/ Step
  /\ UNCHANGED <<fast, show>>
  /\ UpdateSpeedIndicator
  /\ UNCHANGED <<ready, promised>>

(* Application::toggleFastForwarding; IDM_EMULATOR_CONFIG, which draws.      *)
ToggleFastForwarding ==
  /\ fast' = ~fast
  /\ UNCHANGED <<mode, show>>
  /\ UpdateSpeedIndicator
  /\ UNCHANGED <<ready, promised>>
ShowEmulatorSettings ==
  /\ show' = ~show /\ UNCHANGED <<mode, fast>>
  /\ IF show' /\ mode = "paused"
       THEN LET once  == Drawn(messages, textures)
                twice == Drawn(once.messages, once.textures)
            IN IF ~ready THEN UNCHANGED <<messages, textures, window, count>>
               ELSE /\ messages' = twice.messages /\ textures' = twice.textures
                    /\ window' = [by |-> "frame", drawn |-> twice.drawn]
                    /\ count' = [count EXCEPT !.draws = @ + 2]
       ELSE Draw("frame")
  /\ indicator' = IF ~show' THEN "none"
                  ELSE IF mode \in {"paused", "step"} THEN "paused"
                  ELSE IF fast THEN "fast" ELSE "none"
  /\ UNCHANGED <<ready, promised>>

(* A game begins, without a word to the indicator; pauseForBadPerformance is *)
(* as quiet; a core that is unloaded, its game before it, is not.            *)
LoadGame ==
  /\ mode # "step" /\ mode' = "running"
  /\ UNCHANGED <<fast, show, ready, textures, messages, indicator, window, count, promised>>
PauseForBadPerformance ==
  /\ mode = "running" /\ mode' = "paused"
  /\ UNCHANGED <<fast, show, ready, textures, messages, indicator, window, count, promised>>
UnloadCore ==
  /\ mode # "step" /\ mode' = "none"
  /\ window' = IF mode = "none" THEN window ELSE [by |-> "clear", drawn |-> {}]
  /\ UNCHANGED <<fast, show, ready, textures, messages, count, promised>>
  /\ indicator' = IF show /\ fast THEN "fast" ELSE "none"

Init ==
  /\ mode = "none" /\ fast = FALSE /\ show = TRUE /\ ready = FALSE
  /\ textures = {} /\ messages = <<>> /\ promised = {}
  /\ indicator = "none" /\ window = [by |-> "clear", drawn |-> {}]
  /\ count = [messages |-> 0, draws |-> 0]

Next ==
  /\ count.draws < MaxDraws
  /\ \/ \E frames \in Durations, made \in BOOLEAN : ShowMessage(frames, made)
     \/ \E skipped \in BOOLEAN : Frame(skipped)
     \/ Turn
     \/ ChangeMode \/ ToggleFastForwarding \/ ShowEmulatorSettings
     \/ LoadGame \/ PauseForBadPerformance \/ UnloadCore

Spec == Init /\ [][Next]_vars

-----------------------------------------------------------------------------
(* Every message is drawn with each of the frames it was shown for, in the   *)
(* order they came, unless newer ones took its slot; then its texture is     *)
(* gone, and no other is.  Nothing is left in the window of a paused game    *)
(* once the loop has drawn the last message.                                 *)
MessagesAreDrawn ==
  /\ Live = {[texture |-> messages[i].texture, upTo |-> count.draws + messages[i].frames] :
                i \in DOMAIN messages}
  /\ \A i, j \in DOMAIN messages : i < j => messages[i].texture < messages[j].texture
  /\ textures = {messages[i].texture : i \in DOMAIN messages}
  /\ window.by = "turn" /\ messages = <<>> => window.drawn = {}

(* The setting's label says "Show Indicator when Paused or Fast Forwarding". *)
IndicatorAgrees ==
  show => indicator = IF mode \in {"paused", "step"} THEN "paused"
                      ELSE IF fast THEN "fast" ELSE "none"
=============================================================================
