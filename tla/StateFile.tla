----------------------------- MODULE StateFile -----------------------------
(* What a save state contains: States.cpp writes the core's memory, the      *)
(* progress of achievements and the picture as blocks of one file, aligned   *)
(* to 8 bytes; it loads such files, those of RetroArch, which may be         *)
(* compressed, and the core's memory alone as earlier versions left it, with *)
(* picture and progress in files beside it.  The picture goes through        *)
(* Video.cpp and the conversions of Util.cpp.  A cell of a file is 8 bytes.  *)
(* One file stands for a slot; the core's memory and the toolkit's progress  *)
(* are known by the moment of play they belong to.  Files are whole.         *)
EXTENDS Integers, Sequences

CONSTANTS
  Sizes,       \* bound: the bytes versions of a core need for a state
  Views,       \* bound: the sizes of frames
  Looks,       \* bound: of cores, [format, bottom], and of the user, [preserve]
  Texture,     \* the size of Video's texture
  Aspect,      \* the aspect ratio a core asks for: two numbers
  MaxMoments,  \* bound on the moments of play
  NoFile       \* no file, no picture, no load

VARIABLES
  moment,      \* how far the game was played
  machine,     \* the core: the bytes of its states, and the moment in its memory
  progress,    \* the moment of the achievements' progress; 0 when it was reset
  screen,      \* Video: format, view, preserveAspect, bottom_left_origin, texture's rows
  file,        \* the state file, with the files beside it
  loaded       \* for the properties: the last load, until something else happens

vars == <<moment, machine, progress, screen, file, loaded>>

Smaller(a, b) == IF a < b THEN a ELSE b

-----------------------------------------------------------------------------
(* Pixels: how many shades each of red, green and blue has; there and back   *)
(* from the 24 bits of an image, as util::toRgb and util::fromRgb do it.     *)
Shades(format) ==
  CASE format = "RGB565"   -> <<32, 64, 32>>
    [] format = "0RGB1555" -> <<32, 32, 32>>
    [] format = "XRGB8888" -> <<256, 256, 256>>

Widen(format, pixel) ==
  [c \in 1..3 |-> (pixel[c] * 255) \div (Shades(format)[c] - 1)]
Narrow(format, rgb) ==
  [c \in 1..3 |-> rgb[c] \div (256 \div Shades(format)[c])]

(* The part of the rows of a buffer, which may be longer, that is the image. *)
ToRgb(rows, width, height, format) ==
  [y \in 1..height |-> [x \in 1..width |-> Widen(format, rows[y][x])]]
FromRgb(rows, format) ==
  [y \in DOMAIN rows |-> [x \in DOMAIN rows[y] |-> Narrow(format, rows[y][x])]]

(* verticalFlipRawTexture, of the first rows                                 *)
Flip(rows, height) ==
  [y \in DOMAIN rows |-> IF y <= height THEN rows[height + 1 - y] ELSE rows[y]]
Flipped(s, rows, height) == IF s.bottom THEN Flip(rows, height) ELSE rows

(* Video::getFramebuffer, as util::toPng writes it.                          *)
GetFramebuffer(s) ==
  ToRgb(Flipped(s, s.rows, s.view[2]), s.view[1], s.view[2], s.format)

(* Video::getFramebufferSize: the size the view is stretched to.             *)
GetFramebufferSize(s) ==
  LET w == (s.view[2] * Aspect[1]) \div Aspect[2]
  IN IF ~s.preserve THEN s.view
     ELSE IF w < s.view[1] THEN <<s.view[1], (s.view[1] * Aspect[2]) \div Aspect[1]>>
     ELSE <<w, s.view[2]>>

(* Video::setFramebuffer, row by row; OpenGL refuses what leaves the texture.*)
SetFramebuffer(s, pixels, width, height) ==
  LET image == Flipped(s, pixels, height)
  IN [s EXCEPT !.rows = [y \in DOMAIN @ |->
        IF y > height \/ width > Texture[1] THEN @[y]
        ELSE [x \in DOMAIN @[y] |-> IF x > width THEN @[y][x] ELSE image[y][x]]]]

(* States::restoreFrameBuffer                                                *)
RestoreFrameBuffer(s, image) ==
  LET size  == GetFramebufferSize(s)
      width == Len(image[1])
  IN IF width # size[1] THEN s
     ELSE SetFramebuffer(s, FromRgb(image, s.format), width, Smaller(size[2], Len(image)))

(* What the texture shows.                                                   *)
Shown(s) ==
  LET rows == Flipped(s, s.rows, s.view[2])
  IN [y \in 1..s.view[2] |-> [x \in 1..s.view[1] |-> rows[y][x]]]

-----------------------------------------------------------------------------
(* alignSize, in cells                                                       *)
Cells(size) == (size + 7) \div 8

Cell(is, size, of) == [is |-> is, size |-> size, of |-> of]
(* writeBlockHeader and what follows it.                                     *)
Block(tag, size, of) ==
  <<Cell(tag, size, 0)>> \o [i \in 1..Cells(size) |-> Cell(tag, i, of)]

Memory(m)        == Tail(Block("MEM ", m.size, m.at))
Identifier       == <<Cell("RASTATE", 1, 0)>>
CheevosBlock(at) == IF at = 0 THEN <<>> ELSE Block("ACHV", 12, at)
EndBlock         == Block("END ", 0, 0)

(* A core takes the memory of its own version, and no other.                 *)
Unserialize(m, data, input, size) ==
  IF size = m.size /\ SubSeq(data, input, input + Cells(size) - 1)
                        = Memory([m EXCEPT !.at = data[input].of])
    THEN [ok |-> TRUE, machine |-> [m EXCEPT !.at = data[input].of]]
    ELSE [ok |-> FALSE, machine |-> m]

(* RA_RestoreState: anything but progress resets it.                         *)
RestoreState(data, input) == IF data[input].is = "ACHV" THEN data[input].of ELSE 0

(* Where the block after this one begins.  Mutant: sizes are taken as they   *)
(* are.                                                                      *)
BlockAfterUnaligned(data, at) == at + 1 + data[at].size \div 8
BlockAfter(data, at) == at + 1 + Cells(data[at].size)

(* A turn of the loop of States::loadRAState1, which stops at the end or when *)
(* the core refuses.  What is no image leaves the screen alone.              *)
TakeBlock(r, data) ==
  LET tag   == data[r.at].is
      input == r.at + 1
      next  == [r EXCEPT !.at = BlockAfter(data, r.at)]
      taken == Unserialize(r.machine, data, input, data[r.at].size)
  IN IF ~r.ok \/ r.at > Len(data) \/ tag = "END " THEN r
     ELSE IF tag = "MEM " THEN [next EXCEPT !.ok = taken.ok, !.machine = taken.machine]
     ELSE IF tag = "ACHV" THEN [next EXCEPT !.progress = RestoreState(data, input), !.seen = TRUE]
     ELSE IF tag = "SCRN" /\ data[input].is = "SCRN"
       THEN [next EXCEPT !.screen = RestoreFrameBuffer(@, data[input].of)]
     ELSE next

(* The blocks one after the other; without one of theirs, the achievements   *)
(* start anew.                                                               *)
LoadRAState1(data) ==
  LET Begun == [at |-> Len(Identifier) + 1, ok |-> TRUE, machine |-> machine,
                progress |-> progress, screen |-> screen, seen |-> FALSE]
      After[n \in 0..Len(data)] == IF n = 0 THEN Begun ELSE TakeBlock(After[n - 1], data)
      end == After[Len(data)]
  IN [end EXCEPT !.progress = IF end.seen THEN @ ELSE 0]

(* The old format.  RA_OnLoadState takes the progress from the file beside   *)
(* it, and resets it when there is none.  Without an image the load counts   *)
(* as done, whether the core took the memory or not.                         *)
LoadOldState(f, data) ==
  LET u == Unserialize(machine, data, 1, 8 * Len(data) - f.slack)
  IN [ok       |-> u.ok \/ f.png = NoFile,
      machine  |-> u.machine,
      progress |-> IF u.ok THEN f.rap ELSE progress,
      screen   |-> IF f.png = NoFile THEN screen ELSE RestoreFrameBuffer(screen, f.png)]

(* decompressRzip: chunks are appended until there is as much as announced.  *)
DecompressRzip(data) ==
  LET Out[i \in 0..(Len(data) - 1)] ==
        IF i = 0 THEN <<>>
        ELSE IF Len(Out[i - 1]) >= data[1].of THEN Out[i - 1]
        ELSE Out[i - 1] \o data[i + 1].of
  IN SubSeq(Out[Len(data) - 1], 1, data[1].of)
(* How RetroArch compresses: chunks of two cells.                            *)
Rzip(data) ==
  <<Cell("#RZIPv", 2, Len(data))>>
  \o [i \in 1..((Len(data) + 1) \div 2) |->
        Cell("chunk", 2, SubSeq(data, 2 * i - 1, Smaller(2 * i, Len(data))))]

-----------------------------------------------------------------------------
(* A frame: no two moments look alike.                                       *)
Frame(m, view, format) ==
  [y \in 1..view[2] |-> [x \in 1..view[1] |->
     [c \in 1..3 |-> (31 * m + 7 * x + 11 * y + 5 * c) % Shades(format)[c]]]]
Black == [y \in 1..Texture[2] |-> [x \in 1..Texture[1] |-> <<0, 0, 0>>]]
Refreshed(s, m, view) ==
  LET image == Flipped(s, Frame(m, view, s.format), view[2])
  IN [s EXCEPT !.view = view,
               !.rows = [y \in DOMAIN @ |-> [x \in DOMAIN @[y] |->
                           IF y <= view[2] /\ x <= view[1] THEN image[y][x] ELSE @[y][x]]]]

(* A frame of the game, with or without achievements.                        *)
Play(view, achievements) ==
  /\ moment < MaxMoments
  /\ moment' = moment + 1
  /\ machine' = [machine EXCEPT !.at = moment']
  /\ progress' = IF achievements THEN moment' ELSE 0
  /\ screen' = Refreshed(screen, moment', view)
  /\ loaded' = NoFile
  /\ UNCHANGED file

Left(data, png, rap, slack, of) ==
  /\ file' = [data |-> data, png |-> png, rap |-> rap, slack |-> slack, of |-> of]
  /\ loaded' = NoFile
  /\ UNCHANGED <<moment, machine, progress, screen>>

Now(picture, achieved) ==
  [size |-> machine.size, at |-> machine.at, view |-> screen.view, format |-> screen.format,
   progress |-> achieved, shown |-> IF picture THEN Shown(screen) ELSE NoFile]

(* States::saveState, of a core that can.  The image has a cell; it need not *)
(* fill it.                                                                  *)
SaveState ==
  Left(Identifier \o Block("MEM ", machine.size, machine.at) \o CheevosBlock(progress)
         \o Block("SCRN", 5, GetFramebuffer(screen)) \o EndBlock,
       NoFile, 0, 0, Now(TRUE, progress))

(* RetroArch's files, compressed or not: they have no picture, and a block   *)
(* that is not known here.                                                   *)
RetroArchSaves(compressed) ==
  LET data == Identifier \o Block("MEM ", machine.size, machine.at)
                \o Block("RPLY", 9, 0) \o CheevosBlock(progress) \o EndBlock
  IN Left(IF compressed THEN Rzip(data) ELSE data, NoFile, 0, 0, Now(FALSE, progress))

(* An earlier version's files, or those of RetroArch's before it had blocks. *)
OldVersionSaves(compressed, image, rap) ==
  Left(IF compressed THEN Rzip(Memory(machine)) ELSE Memory(machine),
       IF image THEN GetFramebuffer(screen) ELSE NoFile,
       IF rap THEN progress ELSE 0, 8 * Cells(machine.size) - machine.size,
       Now(image, IF rap THEN progress ELSE 0))

(* States::loadState of a path                                               *)
LoadState ==
  /\ file # NoFile
  /\ LET data   == IF file.data[1].is = "#RZIPv" THEN DecompressRzip(file.data) ELSE file.data
         result == IF data[1].is = "RASTATE" THEN LoadRAState1(data)
                                             ELSE LoadOldState(file, data)
     IN /\ machine' = result.machine
        /\ progress' = result.progress
        /\ screen' = result.screen
        /\ loaded' = [ok |-> result.ok, shown |-> Shown(screen)]
  /\ UNCHANGED <<moment, file>>

(* Another version of the core, in the menu; the game starts anew.           *)
Beginning(look) ==
  Refreshed([format |-> look.format, preserve |-> look.preserve, bottom |-> look.bottom,
             view |-> <<0, 0>>, rows |-> Black], 0, CHOOSE v \in Views : TRUE)
ChangeCore(size, look) ==
  /\ machine' = [size |-> size, at |-> 0]
  /\ progress' = 0
  /\ screen' = Beginning(look)
  /\ loaded' = NoFile
  /\ UNCHANGED <<moment, file>>

Init ==
  /\ moment = 0 /\ file = NoFile /\ loaded = NoFile /\ progress = 0
  /\ machine = [size |-> CHOOSE s \in Sizes : TRUE, at |-> 0]
  /\ screen = Beginning(CHOOSE look \in Looks : TRUE)

Next ==
  \/ \E view \in Views, achievements \in BOOLEAN : Play(view, achievements)
  \/ SaveState
  \/ \E compressed \in BOOLEAN : RetroArchSaves(compressed)
  \/ \E compressed, image, rap \in BOOLEAN :
       (compressed => ~image) /\ OldVersionSaves(compressed, image, rap)
  \/ LoadState
  \/ \E size \in Sizes, look \in Looks : ChangeCore(size, look)

Spec == Init /\ [][Next]_vars

-----------------------------------------------------------------------------
(* A state brings memory, progress and picture of one moment back, whoever   *)
(* wrote it and however large its parts are; what the file does not have is  *)
(* reset or left alone.  Whether or not it could be loaded, the progress is  *)
(* never that of another moment than the memory's.  The picture is the one   *)
(* saved when the frame has the size it had and is not stretched.            *)
LoadRestores ==
  /\ progress \in {0, machine.at}
  /\ loaded # NoFile /\ file.of.size = machine.size =>
       /\ loaded.ok
       /\ machine.at = file.of.at /\ progress = file.of.progress
       /\ file.of.shown = NoFile => Shown(screen) = loaded.shown
       /\ file.of.shown # NoFile /\ file.of.view = screen.view
            /\ file.of.format = screen.format /\ ~screen.preserve =>
              Shown(screen) = file.of.shown

(* States.cpp says of the picture that it is saved "so we can restore it if  *)
(* the state is loaded while paused".                                        *)
PictureReturns ==
  loaded # NoFile /\ file.of.size = machine.size /\ file.of.shown # NoFile
    /\ file.of.view = screen.view /\ file.of.format = screen.format =>
      Shown(screen) = file.of.shown

(* A load that did not happen is told to the user.                           *)
FailureIsTold ==
  loaded # NoFile /\ file.of.size # machine.size => ~loaded.ok
=============================================================================
