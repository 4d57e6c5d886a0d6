------------------------------- MODULE Picture -------------------------------
(* The game's picture and the pointer on it: src/src/components/Video.cpp,   *)
(* what Core and Application tell it, and the mouse of Application.cpp.      *)
(* Video keeps a texture as large as the core may need and vertices computed *)
(* from window, view, rotation and aspect, and renews either only when it    *)
(* sees that something changed.  Creating textures is taken to succeed.      *)
EXTENDS Integers, Sequences, SequencesExt

CONSTANTS
  Geometries,   \* bound: what cores report, [base, max, aspect: two numbers]
  Formats,      \* bound: the pixel formats
  Frames,       \* bound: the sizes of frames
  Windows,      \* bound: the sizes a user gives the window
  FirstWindow,  \* the window's size at the start
  MaxEvents     \* bound: resize messages under way

VARIABLES
  video,    \* Video's fields
  core,     \* the core: loaded, playing, whether it renders itself, from the bottom
  av,       \* Core::_systemAVInfo.geometry and _pixelFormat
  sdl,      \* the window's real size
  events,   \* SDL_WINDOWEVENT_SIZE_CHANGED messages not handled yet
  frame,    \* the size of the frame on the screen; <<0, 0>> after anything new
  upright   \* the window's size as the user chose it, for a picture not turned

vars == <<video, core, av, sdl, events, frame, upright>>

NoSize    == <<0, 0>>
None      == <<-1, -1>>                 \* no texture
NoCore    == [loaded |-> FALSE, playing |-> FALSE, hw |-> FALSE, bottom |-> FALSE]
Swap(s)   == <<s[2], s[1]>>
Odd(r)    == r % 2 = 1
Larger(a, b) == IF a > b THEN a ELSE b

-----------------------------------------------------------------------------
(* Video::ensureVertexArray: the part of the window that is drawn to, with   *)
(* black bars where the aspect is preserved.                                 *)
Scaled(window, rotation, preserve, aspect) ==
  LET long == window[1]  high == window[2]
      w == (high * aspect[1]) \div aspect[2]
      h == (long * aspect[1]) \div aspect[2]
  IN IF ~preserve THEN window
     ELSE IF Odd(rotation)
       THEN IF h > high THEN <<(high * aspect[2]) \div aspect[1], high>> ELSE <<long, h>>
     ELSE IF w > long THEN <<long, (long * aspect[2]) \div aspect[1]>> ELSE <<w, high>>

Flipped(v) == v.hwEnabled /\ core.bottom

Vertices(v, size, window) ==
  [scaled   |-> Scaled(window, v.rotation, v.preserveAspect, v.aspect),
   window   |-> window,
   rotation |-> v.rotation,
   covers   |-> <<size, v.texture>>,
   flipped  |-> Flipped(v)]

(* Mutant: a new texture leaves the view as it is.                           *)
EnsureFramebufferOnly(v, size, format, linear) ==
  IF \/ v.texture = None \/ v.hwEnabled # v.frameBuffer
     \/ size[1] > v.texture[1] \/ size[2] > v.texture[2]
     \/ format # v.format \/ linear # v.linear
    THEN [v EXCEPT !.texture = size, !.format = format, !.linear = linear,
                   !.frameBuffer = v.hwEnabled]
    ELSE v

(* Video::ensureFramebuffer.  A new texture makes the view stale.            *)
EnsureFramebuffer(v, size, format, linear) ==
  IF \/ v.texture = None \/ v.hwEnabled # v.frameBuffer
     \/ size[1] > v.texture[1] \/ size[2] > v.texture[2]
     \/ format # v.format \/ linear # v.linear
    THEN [v EXCEPT !.texture = size, !.format = format, !.linear = linear,
                   !.frameBuffer = v.hwEnabled, !.view = NoSize]
    ELSE v

(* Video::ensureView.  Without a texture it forgets all but the window.      *)
(* The handler of a turn calls windowResized in the middle of it; what that  *)
(* sets is set again after it, from the arguments of the outer call.         *)
Changed(v, size, window, preserve, rotation) ==
  <<size, window, preserve, rotation>> # <<v.view, v.window, v.preserveAspect, v.rotation>>

EnsureView(v, size, window, preserve, rotation) ==
  IF v.texture = None THEN [v EXCEPT !.window = window]
  ELSE IF ~Changed(v, size, window, preserve, rotation) THEN v
  ELSE LET set == [v EXCEPT !.preserveAspect = preserve, !.rotation = rotation]
       IN [set EXCEPT !.view = size, !.window = window,
                      !.vertices = Vertices(set, size, window)]

(* Application::onRotationChanged: the window turns with the picture.        *)
Turned(v, rotation) ==
  IF v.texture # None /\ Odd(v.rotation) # Odd(rotation)
    THEN sdl' = Swap(v.window) /\ events' = Append(events, Swap(v.window))
    ELSE UNCHANGED <<sdl, events>>

(* Video::setRotation                                                        *)
SetRotation(rotation) ==
  /\ Len(events) < MaxEvents
  /\ video' = EnsureView(video, video.view, video.window, video.preserveAspect, rotation)
  /\ Turned(video, rotation)
  /\ frame' = NoSize
  /\ UNCHANGED upright

(* Video::setGeometry                                                        *)
SetGeometry(geometry, format, hw) ==
  LET v == EnsureFramebuffer([video EXCEPT !.hwEnabled = hw],
             <<Larger(geometry.base[1], geometry.max[1]), Larger(geometry.base[2], geometry.max[2])>>,
             format, video.linear)
  IN video' = [v EXCEPT !.aspect = geometry.aspect]

-----------------------------------------------------------------------------
(* Application::loadCore, up to what the core says of itself.                *)
LoadCore(hw, bottom) ==
  /\ ~core.loaded
  /\ core' = [loaded |-> TRUE, playing |-> FALSE, hw |-> hw, bottom |-> bottom]
  /\ SetRotation(0)
  /\ UNCHANGED av

(* Core::setRotation, at any time from then on.                              *)
CoreSetsRotation(rotation) ==
  /\ core.loaded
  /\ SetRotation(rotation)
  /\ UNCHANGED <<core, av>>

(* Core::initAV at the end of loadGame                                       *)
LoadGame(geometry, format) ==
  /\ core.loaded /\ ~core.playing
  /\ core' = [core EXCEPT !.playing = TRUE]
  /\ av' = [geometry |-> geometry, format |-> format]
  /\ SetGeometry(geometry, format, core.hw)
  /\ frame' = NoSize
  /\ UNCHANGED <<sdl, events, upright>>

(* Core::setSystemAVInfo.                                                    *)
SetSystemAVInfo(geometry) ==
  /\ core.playing
  /\ av' = [av EXCEPT !.geometry = geometry]
  /\ SetGeometry(geometry, av.format, core.hw)
  /\ frame' = NoSize
  /\ UNCHANGED <<core, sdl, events, upright>>

(* Core::setGeometry: all but the largest size.                              *)
CoreSetsGeometry(geometry) ==
  /\ core.playing
  /\ av' = [av EXCEPT !.geometry = [geometry EXCEPT !.max = av.geometry.max]]
  /\ SetGeometry(av'.geometry, av.format, core.hw)
  /\ frame' = NoSize
  /\ UNCHANGED <<core, sdl, events, upright>>

(* Video::refresh.  Frames are no larger than the core said they would be.   *)
Refresh(size) ==
  /\ core.playing
  /\ \A i \in {1, 2} : size[i] <= Larger(av.geometry.base[i], av.geometry.max[i])
  /\ video' = EnsureView(video, size, video.window, video.preserveAspect, video.rotation)
  /\ frame' = size
  /\ UNCHANGED <<core, av, sdl, events, upright>>

(* Application::unloadCore: Video::reset, and Core forgets its callback.     *)
UnloadCore ==
  /\ core.loaded /\ core' = NoCore
  /\ video' = [video EXCEPT !.frameBuffer = @ /\ ~video.hwEnabled]
  /\ frame' = NoSize
  /\ UNCHANGED <<av, sdl, events, upright>>

-----------------------------------------------------------------------------
(* Video::windowResized                                                      *)
WindowResized(v, window) ==
  EnsureView(v, v.view, window, v.preserveAspect, v.rotation)

(* Application::handle, of an SDL_WindowEvent                              *)
HandleWindowEvent ==
  /\ events # <<>> /\ events' = Tail(events)
  /\ video' = WindowResized(video, Head(events))
  /\ UNCHANGED <<core, av, sdl, frame, upright>>

UserResizes(window) ==
  /\ Len(events) < MaxEvents /\ window # sdl
  /\ sdl' = window /\ events' = Append(events, window)
  /\ upright' = IF Odd(video.rotation) THEN Swap(window) ELSE window
  /\ UNCHANGED <<video, core, av, frame>>

(* The keys kRotateRight and kRotateLeft                                     *)
UserRotates(turn) ==
  /\ SetRotation((video.rotation + turn) % 4)
  /\ UNCHANGED <<core, av>>

(* Video::showDialog, confirmed.                                             *)
ShowDialog(preserve, linear, rotation) ==
  LET size == IF video.texture = None THEN NoSize ELSE video.texture
      v    == EnsureFramebuffer(video, size, video.format, linear)
  IN /\ Len(events) < MaxEvents
     /\ video' = EnsureView(v, v.view, v.window, preserve, rotation)
     /\ Turned(v, rotation)
     /\ frame' = NoSize
     /\ UNCHANGED <<core, av, upright>>

-----------------------------------------------------------------------------
(* Application::handle, of an SDL_MouseMotionEvent: where a position in the *)
(* window is in the frame.  In relative mode the position is the sum of the  *)
(* motions; it is absolute here.                                             *)
Clip(x, length) == IF x < 0 THEN 0 ELSE IF x >= length THEN length - 1 ELSE x
ViewScaled == video.vertices.scaled
InView(mouse) ==
  [i \in {1, 2} |-> Clip(mouse[i] - (video.window[i] - ViewScaled[i]) \div 2, ViewScaled[i])]

(* Mutant: turned by 90 degrees, the frame is not mirrored.                  *)
AbsoluteUnmirrored(mouse) ==
  LET at == InView(mouse)
      Along(i, axis) == (at[i] * video.view[axis]) \div ViewScaled[i]
      Back(i, axis)  == video.view[axis] - Along(i, axis) - 1
  IN CASE video.rotation = 0 -> <<Along(1, 1), Along(2, 2)>>
       [] video.rotation = 1 -> <<Along(2, 1), Along(1, 2)>>
       [] video.rotation = 2 -> <<Back(1, 1), Back(2, 2)>>
       [] video.rotation = 3 -> <<Along(2, 1), Back(1, 2)>>

Absolute(mouse) ==
  LET at == InView(mouse)
      Along(i, axis) == (at[i] * video.view[axis]) \div ViewScaled[i]
      Back(i, axis)  == video.view[axis] - Along(i, axis) - 1
  IN CASE video.rotation = 0 -> <<Along(1, 1), Along(2, 2)>>
       [] video.rotation = 1 -> <<Back(2, 1), Along(1, 2)>>
       [] video.rotation = 2 -> <<Back(1, 1), Back(2, 2)>>
       [] video.rotation = 3 -> <<Along(2, 1), Back(1, 2)>>

-----------------------------------------------------------------------------
Init ==
  /\ video = [texture |-> None, format |-> CHOOSE f \in Formats : TRUE, linear |-> FALSE,
              hwEnabled |-> FALSE, frameBuffer |-> FALSE, view |-> NoSize,
              window |-> FirstWindow, preserveAspect |-> TRUE, rotation |-> 0,
              aspect |-> <<1, 1>>, vertices |-> [scaled |-> NoSize]]
  /\ core = NoCore
  /\ av \in {[geometry |-> g, format |-> f] : g \in {CHOOSE x \in Geometries : TRUE},
                                              f \in {CHOOSE x \in Formats : TRUE}}
  /\ sdl = FirstWindow /\ upright = FirstWindow /\ events = <<>> /\ frame = NoSize

CoreNext ==
  \/ \E hw, bottom \in BOOLEAN : (bottom => hw) /\ LoadCore(hw, bottom)
  \/ \E r \in 0..3 : CoreSetsRotation(r)
  \/ \E g \in Geometries, f \in Formats : LoadGame(g, f)
  \/ \E g \in Geometries : SetSystemAVInfo(g) \/ CoreSetsGeometry(g)
  \/ \E size \in Frames : Refresh(size)
  \/ UnloadCore
UserNext ==
  \/ HandleWindowEvent
  \/ \E window \in Windows : UserResizes(window)
  \/ \E turn \in {1, 3} : UserRotates(turn)
  \/ \E preserve, linear \in BOOLEAN, r \in 0..3 : ShowDialog(preserve, linear, r)
Next == CoreNext \/ UserNext

Spec == Init /\ [][Next]_vars

-----------------------------------------------------------------------------
(* What is on the screen is computed from what holds now, though Video       *)
(* computes it only when it sees a change: the frame fits the texture and    *)
(* all of it is drawn, turned, and fitted to the window, as the settings     *)
(* say; a core that renders has a frame buffer, another none; and Video      *)
(* knows the window's size when no message is under way.  The aspect alone,  *)
(* and the origin of the picture, may be those of an earlier core.           *)
PictureIsCurrent ==
  /\ frame # NoSize =>
       /\ video.vertices.covers = <<frame, video.texture>>
       /\ \A i \in {1, 2} : frame[i] <= video.texture[i]
       /\ video.vertices.window = video.window
       /\ video.vertices.rotation = video.rotation
       /\ ~video.preserveAspect => video.vertices.scaled = video.window
  /\ core.playing => /\ video.format = av.format
                     /\ video.frameBuffer = core.hw
  /\ events = <<>> => video.window = sdl

(* The frame's corner that the texture's vertices put at a corner of the     *)
(* view; a position between them is that far between.                        *)
OnScreen(at) ==
  LET x == <<at[1], ViewScaled[1]>>
      y == <<at[2], ViewScaled[2]>>
      Rest(p) == <<p[2] - p[1], p[2]>>
  IN CASE video.vertices.rotation = 0 -> <<x, y>>
       [] video.vertices.rotation = 1 -> <<Rest(y), x>>
       [] video.vertices.rotation = 2 -> <<Rest(x), Rest(y)>>
       [] video.vertices.rotation = 3 -> <<y, Rest(x)>>

(* A core that asks for the mouse gets the pixel that is drawn under it, in  *)
(* every rotation and with bars at either side, and never one outside the    *)
(* frame.                                                                    *)
PointerHitsPixel ==
  frame # NoSize /\ ViewScaled[1] > 0 /\ ViewScaled[2] > 0 =>
    \A x \in 0..(video.window[1] - 1), y \in 0..(video.window[2] - 1) :
      LET at    == OnScreen(InView(<<x, y>>))
          pixel == Absolute(<<x, y>>)
      IN \A i \in {1, 2} :
           /\ pixel[i] \in 0..(frame[i] - 1)
           /\ pixel[i] * at[i][2] <= at[i][1] * frame[i]
           /\ at[i][1] * frame[i] <= (pixel[i] + 1) * at[i][2]

(* Application.cpp says that windowResized is called at once because the     *)
(* rotation may change again before the message comes: the window is turned  *)
(* exactly when the picture is.                                              *)
WindowTurnsWithPicture ==
  events = <<>> => sdl = IF Odd(video.rotation) THEN Swap(upright) ELSE upright
=============================================================================
