----------------------------- MODULE CoreFiles -----------------------------
(* The files a core opens through the frontend: retro_vfs_* of Core.cpp and  *)
(* the opening and deleting of Util.cpp, over the C library's streams, which *)
(* keep what is written until they are flushed, moved or closed.  One path;  *)
(* another takes its place when it is renamed.  The streams, and what Windows*)
(* lets two of them do to one file, are taken from how the code uses them.   *)
EXTENDS Integers, Sequences

CONSTANTS
  Streams,    \* bound: the handles a core has
  Values,     \* bound: what it writes
  MaxLength,  \* bound: the length of a file
  None        \* no handle, no file

VARIABLES
  disk,       \* what the file system has for the path, and for the other name
  stream,     \* retro_vfs_file_handle of each: where it is, what it may do, what it keeps
  promised,   \* for the properties: the file as libretro.h describes it
  told        \* for the properties: the last answer and what libretro.h has it be

vars == <<disk, stream, promised, told>>

Modes  == {"read", "write", "read_write", "update"}
Places == {"path", "renamed"}
Nothing == [answer |-> 0, promise |-> 0]

-----------------------------------------------------------------------------
(* The C library: writing at a place, which fills what lies before it.       *)
Put(content, place, value) ==
  [i \in 1..(IF place > Len(content) THEN place ELSE Len(content)) |->
     IF i = place THEN value ELSE IF i > Len(content) THEN 0 ELSE content[i]]
Flushed(content, s) ==
  IF s.kept = None \/ content = None THEN content
  ELSE Put(content, s.kept.place, s.kept.value)
Flush(h) ==
  /\ disk' = [disk EXCEPT !["path"] = Flushed(@, stream[h])]
  /\ stream' = [stream EXCEPT ![h].kept = None]

Open(h)  == stream[h] # None
Opened(h, writes, reads) ==
  stream' = [stream EXCEPT ![h] = [at |-> 0, writes |-> writes, reads |-> reads, kept |-> None]]

(* util::openFile: who opens to write keeps others from doing so.            *)
Shared(writes) == writes => \A h \in Streams : Open(h) => ~stream[h].writes

Refuses(h) ==
  /\ told' = Nothing
  /\ UNCHANGED <<disk, stream, promised>>

(* retro_vfs_file_open_impl.  Mutant: a file to be updated is emptied.       *)
FileOpenEmptying(h, mode) ==
  /\ ~Open(h)
  /\ \/ /\ Shared(mode # "read") /\ (mode = "read" => disk["path"] # None)
        /\ Opened(h, mode # "read", mode # "write")
        /\ disk' = IF mode = "read" THEN disk ELSE [disk EXCEPT !["path"] = <<>>]
        /\ promised' = IF mode \in {"write", "read_write"} THEN <<>>
                       ELSE IF promised = None THEN <<>> ELSE promised
        /\ told' = Nothing
     \/ /\ ~Shared(mode # "read") \/ (mode = "read" /\ disk["path"] = None)
        /\ Refuses(h)

FileOpen(h, mode) ==
  LET existing == mode \in {"read", "update"}
      may      == Shared(mode # "read") /\ (existing => disk["path"] # None)
  IN /\ ~Open(h)
     /\ \/ /\ may
           /\ Opened(h, mode # "read", mode # "write")
           /\ disk' = IF existing THEN disk ELSE [disk EXCEPT !["path"] = <<>>]
           /\ promised' = IF existing THEN promised ELSE <<>>
           /\ told' = Nothing
        \/ ~may /\ Refuses(h)

(* retro_vfs_file_close_impl                                                 *)
FileClose(h) ==
  /\ Open(h)
  /\ disk' = [disk EXCEPT !["path"] = Flushed(@, stream[h])]
  /\ stream' = [stream EXCEPT ![h] = None]
  /\ told' = Nothing
  /\ UNCHANGED promised

(* retro_vfs_file_size_impl: to the end and back; moving flushes.            *)
FileSize(h) ==
  /\ Open(h)
  /\ Flush(h)
  /\ told' = [answer |-> Len(disk'["path"]), promise |-> Len(promised)]
  /\ UNCHANGED promised

(* retro_vfs_file_tell_impl                                                  *)
FileTell(h) ==
  /\ Open(h)
  /\ told' = [answer |-> stream[h].at, promise |-> stream[h].at]
  /\ UNCHANGED <<disk, stream, promised>>

(* retro_vfs_file_seek_impl: what _fseeki64 returns is 0, or not.            *)
FileSeek(h, offset, from) ==
  LET size == Len(Flushed(disk["path"], stream[h]))
      at   == offset + CASE from = "start" -> 0 [] from = "current" -> stream[h].at
                         [] from = "end" -> size
  IN /\ Open(h) /\ at <= MaxLength
     /\ IF at < 0
          THEN /\ told' = [answer |-> -1, promise |-> -1]
               /\ UNCHANGED <<disk, stream>>
          ELSE /\ told' = [answer |-> 0, promise |-> at]
               /\ disk' = [disk EXCEPT !["path"] = Flushed(@, stream[h])]
               /\ stream' = [stream EXCEPT ![h].kept = None, ![h].at = at]
     /\ UNCHANGED promised

(* retro_vfs_file_write_impl.  Between a write and a read a core has to move.*)
FileWrite(h, value) ==
  LET at == stream[h].at + 1
  IN /\ Open(h) /\ stream[h].writes /\ at <= MaxLength
     /\ disk' = [disk EXCEPT !["path"] = Flushed(@, stream[h])]
     /\ stream' = [stream EXCEPT ![h].at = at,
                                 ![h].kept = [place |-> at, value |-> value]]
     /\ promised' = Put(promised, at, value)
     /\ told' = [answer |-> 1, promise |-> 1]

(* retro_vfs_file_read_impl, of one value                                    *)
FileRead(h) ==
  LET at  == stream[h].at + 1
      all == Flushed(disk["path"], stream[h])
      has == at <= Len(all)
  IN /\ Open(h) /\ stream[h].reads /\ stream[h].kept = None
     /\ \A g \in Streams : Open(g) => stream[g].kept = None
     /\ stream' = [stream EXCEPT ![h].at = IF has THEN at ELSE @]
     /\ told' = [answer |-> IF has THEN all[at] ELSE -1,
                 promise |-> IF at <= Len(promised) THEN promised[at] ELSE -1]
     /\ UNCHANGED <<disk, promised>>

(* retro_vfs_file_flush_impl                                                 *)
FileFlush(h) == Open(h) /\ Flush(h) /\ told' = Nothing /\ UNCHANGED promised

(* retro_vfs_file_truncate_impl changes the file below the stream: a core    *)
(* flushes first.                                                            *)
FileTruncate(h, length) ==
  LET Cut(content) == [i \in 1..length |-> IF i <= Len(content) THEN content[i] ELSE 0]
  IN /\ Open(h) /\ stream[h].writes /\ stream[h].kept = None
     /\ disk' = [disk EXCEPT !["path"] = Cut(@)]
     /\ promised' = Cut(promised)
     /\ told' = Nothing
     /\ UNCHANGED stream

(* retro_vfs_file_remove_impl: 0 whatever happened; an open file stays.      *)
Unused == \A h \in Streams : ~Open(h)
FileRemove ==
  LET may == Unused /\ disk["path"] # None
  IN /\ disk' = IF may THEN [disk EXCEPT !["path"] = None] ELSE disk
     /\ promised' = IF may THEN None ELSE promised
     /\ told' = [answer |-> 0, promise |-> IF may THEN 0 ELSE -1]
     /\ UNCHANGED stream

(* retro_vfs_file_rename_impl, to the other name and back; _wrename does not *)
(* replace a file.                                                           *)
FileRename(from, to) ==
  /\ Unused /\ from # to /\ disk[from] # None /\ disk[to] = None
  /\ disk' = [disk EXCEPT ![to] = disk[from], ![from] = None]
  /\ promised' = IF from = "path" THEN None ELSE disk[from]
  /\ told' = Nothing
  /\ UNCHANGED stream

Init ==
  /\ disk = [p \in Places |-> None] /\ stream = [h \in Streams |-> None]
  /\ promised = None /\ told = Nothing

Next ==
  \/ \E h \in Streams :
       \/ \E mode \in Modes : FileOpen(h, mode)
       \/ FileClose(h) \/ FileSize(h) \/ FileTell(h) \/ FileRead(h) \/ FileFlush(h)
       \/ \E value \in Values : FileWrite(h, value)
       \/ \E offset \in -1..1, from \in {"start", "current", "end"} : FileSeek(h, offset, from)
       \/ \E length \in 0..MaxLength : FileTruncate(h, length)
  \/ FileRemove
  \/ \E from, to \in Places : FileRename(from, to)

Spec == Init /\ [][Next]_vars

-----------------------------------------------------------------------------
(* What a core wrote through any of its streams, one of them opened only to  *)
(* update the file, is in the file once they are flushed, moved or closed,   *)
(* and nothing else is.                                                      *)
FilesHoldWrites ==
  (\A h \in Streams : Open(h) => stream[h].kept = None) => disk["path"] = promised

(* libretro.h says of seeking: "Returns the new position".                   *)
SeekTellsPosition == told.answer = told.promise
=============================================================================
