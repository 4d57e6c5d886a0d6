----------------------------- MODULE DiscImage -----------------------------
(* Compressed images of discs, as HashCHD.cpp reads them for the hashing     *)
(* library: which track is opened, which of several files holds what an      *)
(* image lacks, where the track lies in the image, how its sectors are made, *)
(* and what a read of some bytes of a sector copies from the hunk of frames  *)
(* that is kept in memory.  What the image holds, and where its tracks begin,*)
(* is taken from how the code uses the library libchdr.  The hash gives up a *)
(* track when a read of it fails.                                            *)
EXTENDS Integers, Sequences, SequencesExt, Totals

CONSTANTS
  Discs,      \* bound: images, [tracks, perHunk, parent, files]; see Track
  Amounts,    \* bound: how many bytes are read
  Toc,        \* the sector looked at to know the format, 16 in the code
  None        \* no handle, no answer, no parent

VARIABLES
  disc,       \* the image
  asked,      \* which track was asked for: a number, or one of Special
  handle,     \* chd_track_handle_t
  answer      \* for the properties: the last read, and what it copied

vars == <<disc, asked, handle, answer>>

Unit == 2448                    \* header->unitbytes: the bytes a frame has in a hunk
(* RC_HASH_CDTRACK_FIRST_DATA and so on, instead of a track's number.        *)
FirstData     == -1
LastTrack     == -2
Largest       == -3
SecondSession == -4
Special == {FirstData, LastTrack, Largest, SecondSession}
Track(number, type, frames, pregap, form) ==
  [number |-> number, type |-> type, frames |-> frames, pregap |-> pregap, form |-> form]

Least(S) == CHOOSE i \in S : \A j \in S : i <= j

-----------------------------------------------------------------------------
(* How sectors are made: what comes before the data, how much data there is, *)
(* where the sign of a file system is in the first bytes, and the marks of   *)
(* the header, which a sector has that begins with the sync pattern.         *)
Form(header, size, sign, sync, mode, second) ==
  [header |-> header, size |-> size, sign |-> sign, sync |-> sync, mode |-> mode,
   second |-> second]

(* Where the code, and RetroArch before it, expects the tracks: each is      *)
(* padded to four frames, and its pregap comes first.                        *)
Padded(frames) == ((frames + 3) \div 4) * 4
SectorsBefore(tracks, i) == Totals([k \in DOMAIN tracks |-> tracks[k].frames])[i - 1]
FramesBefore(tracks, i) ==
  Totals([k \in DOMAIN tracks |-> tracks[k].pregap + Padded(tracks[k].frames)])[i - 1]
Hunks(d) == (FramesBefore(d.tracks, Len(d.tracks) + 1) + d.perHunk - 1) \div d.perHunk

-----------------------------------------------------------------------------
(* rc_hash_get_chd_metadata: what the image says of a track; the offsets are *)
(* not in it and are what they were.                                         *)
GetMetadata(d, i, sector, frame) ==
  LET t == d.tracks[i]
  IN [track |-> t.number, type |-> t.type, frames |-> t.frames, pregap |-> t.pregap,
      index |-> i, sector |-> sector, frame |-> frame]

(* One turn of the loop of rc_hash_find_chd_track: the metadata and, beside  *)
(* it, the offsets of the next track and the largest track of data so far.   *)
(* Mutant: tracks follow each other without padding.                         *)
NextTrackUnpadded(d, i, s) ==
  LET m == GetMetadata(d, i, s.sector, s.frame + d.tracks[i].pregap)
      larger == m.type # "AUDIO" /\ m.frames > s.size
  IN [metadata |-> m, sector |-> s.sector + m.frames, frame |-> m.frame + m.frames,
      size |-> IF larger THEN m.frames ELSE s.size,
      largest |-> IF larger THEN i ELSE s.largest]

NextTrack(d, i, s) ==
  LET m == GetMetadata(d, i, s.sector, s.frame + d.tracks[i].pregap)
      larger == m.type # "AUDIO" /\ m.frames > s.size
  IN [metadata |-> m, sector |-> s.sector + m.frames,
      frame |-> m.frame + Padded(m.frames),
      size |-> IF larger THEN m.frames ELSE s.size,
      largest |-> IF larger THEN i ELSE s.largest]

Tracks(d) ==
  LET At[i \in 0..Len(d.tracks)] ==
        IF i = 0 THEN [metadata |-> None, sector |-> 0, frame |-> 0, size |-> 0, largest |-> 1]
                 ELSE NextTrack(d, i, At[i - 1])
  IN At

(* rc_hash_find_chd_track.  The index is one past the last track when it is  *)
(* compared with the largest's, so the largest is always asked for again, and*)
(* the offsets are those of the last track.                                  *)
FindTrack(d, track) ==
  LET number == IF track = SecondSession THEN 2 ELSE track
      Wanted(t) == IF number \in Special THEN number = FirstData /\ t.type # "AUDIO"
                                         ELSE t.number = number
      found  == {i \in 1..Len(d.tracks) : Wanted(d.tracks[i])}
      last   == Tracks(d)[Len(d.tracks)]
  IN IF found # {} THEN Tracks(d)[Least(found)].metadata
     ELSE IF number = LastTrack THEN last.metadata
     ELSE IF number = Largest
       THEN GetMetadata(d, last.largest, last.metadata.sector, last.metadata.frame)
     ELSE None

-----------------------------------------------------------------------------
(* rc_hash_handle_chd_read_sector: frames are copied one by one, and the hunk*)
(* is changed when the offset has left it: how far it is after n of them.    *)
Step(hunk, offset, rest) == [hunk |-> hunk, offset |-> offset, rest |-> rest]
NextFrame(h, s) ==
  LET offset == s.offset + Unit
  IN IF offset > h.perHunk * Unit THEN Step(s.hunk + 1, h.header, s.rest - h.size)
                                  ELSE Step(s.hunk, offset, s.rest - h.size)
LastFrame(h, bytes) == (bytes - 1) \div h.size
Frames(h, start, bytes) ==
  LET Upto[n \in 0..LastFrame(h, bytes)] ==
        IF n = 0
          THEN Step(start \div h.perHunk, (start % h.perHunk) * Unit + h.header, bytes)
          ELSE NextFrame(h, Upto[n - 1])
  IN Upto

(* The piece that is copied next is named by the frame of the image and the  *)
(* place in it.                                                              *)
Copied(h, s) ==
  [frame |-> s.hunk * h.perHunk + s.offset \div Unit, at |-> s.offset % Unit,
   count |-> IF s.rest < h.size THEN s.rest ELSE h.size,
   inside |-> s.offset < h.perHunk * Unit]

(* A hunk the image does not have ends the read.                             *)
ReadSector(d, h, sector, bytes) ==
  LET frame == sector - h.firstSector
      run   == Frames(h, frame + h.firstFrame, bytes)
      Readable(n) == \A k \in 1..n : run[k - 1].hunk < Hunks(d)
  IN IF sector < h.firstSector \/ frame > h.frames THEN <<>>
     ELSE [n \in {n \in 1..(LastFrame(h, bytes) + 1) : Readable(n)} |-> Copied(h, run[n - 1])]

(* The hunk that is in memory afterwards; chd_read is not called for it again.*)
HunkAfter(h, pieces) ==
  IF pieces = <<>> THEN h.hunk ELSE Last(pieces).frame \div h.perHunk

(* The last part of rc_hash_handle_chd_open_track: the data in a sector, and *)
(* what is before it, by the type or by the first bytes of a sector.         *)
Recognize(type, form) ==
  CASE type = "MODE1_RAW"  -> <<16, 2048>>
    [] type = "MODE1"      -> <<0, 2048>>
    [] type = "AUDIO"      -> <<0, 2352>>
    [] form.sign = 25      -> <<24, IF form.second THEN 2324 ELSE 2048>>
    [] form.sign = 17      -> <<16, IF form.mode = 1 THEN 2048 ELSE 2336>>
    [] form.sign = 1       -> <<0, 2048>>
    [] form.sync           -> <<16, IF form.mode = 1 THEN 2048 ELSE 2336>>
    [] OTHER               -> <<0, 2048>>

Declared == {"MODE1_RAW", "MODE1", "AUDIO"}

(* The other images in the directory, those first whose names begin alike:   *)
(* each but the first of them is brought to the front in turn.               *)
Rotated(files) ==
  LET Upto[i \in 0..Len(files)] ==
        IF i = 0 THEN <<>>
        ELSE IF i > 1 /\ files[i].alike THEN <<files[i]>> \o Upto[i - 1]
        ELSE Append(Upto[i - 1], files[i])
  IN Upto[Len(files)]

(* The search for a parent: the first that has the sums the image names, of  *)
(* those kinds of sums that the image has of itself.                         *)
SumsFit(d, f) == /\ d.hasMD5 => f.md5 = d.parent.md5
                 /\ d.hasSHA1 => f.sha1 = d.parent.sha1
Parent(d) ==
  LET files   == Rotated(d.files)
      fitting == {i \in DOMAIN files :
                    ~files[i].itself /\ files[i].readable /\ SumsFit(d, files[i])}
  IN IF fitting = {} THEN None ELSE files[Least(fitting)]

(* libchdr opens an image that needs a parent only with the right one.       *)
Opens(d) == \/ d.parent = None
            \/ /\ Parent(d) # None /\ Parent(d).opens
               /\ Parent(d).md5 = d.parent.md5 /\ Parent(d).sha1 = d.parent.sha1

(* rc_hash_handle_chd_open_track                                             *)
OpenTrack(track) ==
  LET m == FindTrack(disc, track)
      Handle(header, size, hunk) ==
        [perHunk |-> disc.perHunk, firstSector |-> m.sector, firstFrame |-> m.frame,
         frames |-> m.frames, header |-> header, size |-> size, hunk |-> hunk,
         index |-> m.index]
      guess == Handle(0, IF m.type = "MODE2_RAW" THEN 2336 ELSE 2352, -1)
      toc   == ReadSector(disc, guess, m.sector + Toc, 32)
      made  == Recognize(m.type, disc.tracks[m.index].form)
  IN /\ handle = None
     /\ asked' = track /\ answer' = None
     /\ handle' = IF ~Opens(disc) THEN None
                  ELSE IF m = None THEN None
                  ELSE IF m.type \in Declared THEN Handle(made[1], made[2], -1)
                  ELSE IF toc = <<>> THEN None
                  ELSE Handle(made[1], made[2], HunkAfter(guess, toc))
     /\ UNCHANGED disc

Read(sector, bytes) ==
  /\ handle # None
  /\ LET pieces == ReadSector(disc, handle, sector, bytes)
     IN /\ answer' = [sector |-> sector, bytes |-> bytes, pieces |-> pieces]
        /\ handle' = [handle EXCEPT !.hunk = HunkAfter(handle, pieces)]
  /\ UNCHANGED <<disc, asked>>

(* rc_hash_handle_chd_close_track                                            *)
CloseTrack ==
  /\ handle # None
  /\ handle' = None /\ answer' = None
  /\ UNCHANGED <<disc, asked>>

Init == disc \in Discs /\ asked = None /\ handle = None /\ answer = None

Next ==
  \/ \E track \in Special \cup {disc.tracks[i].number : i \in DOMAIN disc.tracks} :
       OpenTrack(track)
  \/ \E sector \in 0..SectorsBefore(disc.tracks, Len(disc.tracks) + 1), bytes \in Amounts :
       Read(sector, bytes)
  \/ CloseTrack

Spec == Init /\ [][Next]_vars

-----------------------------------------------------------------------------
(* The track that was meant.                                                 *)
Numbers(n) == {i \in DOMAIN disc.tracks : disc.tracks[i].number = n}
Data == {i \in DOMAIN disc.tracks : disc.tracks[i].type # "AUDIO"}
Meant ==
  CASE asked = LastTrack     -> {Len(disc.tracks)}
    [] asked = FirstData     -> {i \in Data : \A j \in Data : i <= j}
    [] asked = SecondSession -> Numbers(2)
    [] asked = Largest       -> {i \in Data : \A j \in Data :
                                     disc.tracks[j].frames <= disc.tracks[i].frames}
    [] OTHER                    -> Numbers(asked)

(* What a read of that track must copy: the data of its sectors, in order.   *)
Expected(i) ==
  LET form  == disc.tracks[i].form
      frame == FramesBefore(disc.tracks, i) + disc.tracks[i].pregap
                 + answer.sector - SectorsBefore(disc.tracks, i)
  IN [n \in 1..((answer.bytes - 1) \div form.size + 1) |->
        [frame |-> frame + n - 1, at |-> form.header,
         count |-> IF n * form.size <= answer.bytes THEN form.size
                                                    ELSE answer.bytes % form.size,
         inside |-> TRUE]]
InTrack(i) ==
  /\ answer.sector >= SectorsBefore(disc.tracks, i)
  /\ answer.sector + (answer.bytes - 1) \div disc.tracks[i].form.size
       < SectorsBefore(disc.tracks, i + 1)

(* The hash is of the data of the track that was asked for: of the sectors   *)
(* asked for, without headers, wherever hunks and padding fall, in whatever  *)
(* order they are read, and of an image that needs another whenever that one *)
(* is there.  The largest track, and reads past the first sector where       *)
(* sectors have no header, are left out: see README.                         *)
ReadsAskedTrack ==
  /\ handle # None /\ asked # Largest => handle.index \in Meant
  /\ answer # None /\ asked # Largest =>
       \A i \in Meant :
         InTrack(i) /\ (handle.header > 0 \/ answer.bytes <= handle.size)
           => answer.pieces = Expected(i)
  /\ \A f \in ToSet(IF disc.parent = None THEN <<>> ELSE disc.files) :
       f.md5 = disc.parent.md5 /\ f.sha1 = disc.parent.sha1 /\ f.readable /\ f.opens
         => Opens(disc)

(* The fields of the handle are said to be the "First sector associated to   *)
(* the track" and the "First CHD frame associated to the track".             *)
HandleIsOfTrack ==
  handle # None => \E i \in Meant :
    /\ handle.firstSector = SectorsBefore(disc.tracks, i)
    /\ handle.firstFrame = FramesBefore(disc.tracks, i) + disc.tracks[i].pregap

(* A read copies from the hunk in memory, and from no more than it has.      *)
StaysInHunk == answer # None => \A n \in DOMAIN answer.pieces : answer.pieces[n].inside
=============================================================================
