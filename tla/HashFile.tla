------------------------------- MODULE HashFile -------------------------------
(* rahasher_hash_file (src/user/rahasher_stream.cpp): the hash of a file     *)
(* that its caller may still be writing.  A caller calls again as long as it *)
(* is told that the hash is not done; callers on several threads share the   *)
(* hashing library, which keeps state of its own.  The library's algorithms  *)
(* are known by what they read: pieces of the file, or of files beside it,   *)
(* or all there is of it.                                                    *)
EXTENDS Integers, Sequences

CONSTANTS
  Callers,   \* the threads that call, each with a file of its own
  Jobs,      \* bound: [sizes, reads, whole, chd, intact], see below; chd: a .chd
             \* that is hashed as a disc, so that libchdr reads it
  NoOne      \* nobody holds g_hash_mutex

VARIABLES
  job,       \* each caller's file: the final sizes of it and of its siblings,
             \* the reads of its algorithm, and whether it can be hashed at all
  expected,  \* expected_total_bytes: the final size, or 0
  written,   \* how much of each file is on the disk
  at,        \* what each caller is at
  lock,      \* g_hash_mutex
  cdreader,  \* the library's reader of discs
  ctx,       \* rahasher_file_ctx, with what the algorithm has read
  before,    \* written, when the call began
  result     \* what the latest call returned

vars == <<job, expected, written, at, lock, cdreader, ctx, before, result>>

NoContext == [bytes |-> 0, needMore |-> FALSE, read |-> <<>>, next |-> 1, readers |-> {}]

Min2(a, b) == IF a < b THEN a ELSE b

(* What a file of n bytes has of the count bytes from a place on.            *)
Got(n, from, count) == IF n < from THEN 0 ELSE Min2(n - from, count)

Reader(t) == IF job[t].chd THEN "chd" ELSE "default"

-----------------------------------------------------------------------------
(* A caller and its writer take a file up.                                   *)
Begin(t, j, known) ==
  /\ at[t] = "new"
  /\ at' = [at EXCEPT ![t] = "writes"]
  /\ job' = [job EXCEPT ![t] = j]
  /\ expected' = [expected EXCEPT ![t] = IF known THEN j.sizes[1] ELSE 0]
  /\ written' = [written EXCEPT ![t] = [f \in DOMAIN j.sizes |-> 0]]
  /\ UNCHANGED <<lock, cdreader, ctx, before, result>>

Write(t, f) ==
  /\ written[t][f] < job[t].sizes[f]
  /\ written' = [written EXCEPT ![t][f] = @ + 1]
  /\ UNCHANGED <<job, expected, at, lock, cdreader, ctx, before, result>>

Returns(t, r) ==
  /\ at' = [at EXCEPT ![t] = IF r = "more" THEN "writes" ELSE "over"]
  /\ result' = [result EXCEPT ![t] = r]

(* Mutant: the library is prepared before the others are kept out.           *)
HashFileUnlocked(t) ==
  /\ at[t] = "writes"
  /\ before' = [before EXCEPT ![t] = written[t]]
  /\ IF expected[t] # 0 /\ written[t][1] < expected[t]
       THEN Returns(t, "more") /\ UNCHANGED cdreader
       ELSE /\ at' = [at EXCEPT ![t] = "waits"] /\ cdreader' = Reader(t)
            /\ result' = [result EXCEPT ![t] = "none"]
  /\ UNCHANGED <<job, expected, written, lock, ctx>>

(* rahasher_hash_file, up to the mutex: a file that is not long enough, if    *)
(* its final size is known.                                                  *)
HashFile(t) ==
  /\ at[t] = "writes"
  /\ before' = [before EXCEPT ![t] = written[t]]
  /\ IF expected[t] # 0 /\ written[t][1] < expected[t]
       THEN Returns(t, "more")
       ELSE /\ at' = [at EXCEPT ![t] = "waits"]
            /\ result' = [result EXCEPT ![t] = "none"]
  /\ UNCHANGED <<job, expected, written, lock, cdreader, ctx>>

(* What the arguments rule out (a console, a playlist), and a file that      *)
(* cannot be opened.                                                         *)
Refuse(t) ==
  /\ at[t] = "writes"
  /\ \/ Returns(t, "invalid")
     \/ expected[t] # 0 /\ written[t][1] = 0 /\ Returns(t, "io")
  /\ before' = [before EXCEPT ![t] = written[t]]
  /\ UNCHANGED <<job, expected, written, lock, cdreader, ctx>>

Lock(t) ==
  /\ at[t] = "waits" /\ lock = NoOne
  /\ lock' = t /\ at' = [at EXCEPT ![t] = "hashes"]
  /\ cdreader' = Reader(t)
  /\ ctx' = [ctx EXCEPT ![t] = NoContext]
  /\ UNCHANGED <<job, expected, written, before, result>>

(* What the algorithm reads: certain pieces, or all that is there.           *)
Reads(t) == IF job[t].whole THEN <<[file |-> 1, from |-> 0, count |-> written[t][1]]>>
            ELSE job[t].reads

(* The algorithm reads, and after a short read goes on or gives up.  Only    *)
(* what goes through filereader_read is counted there, and can leave         *)
(* need_more_data behind: the data of a compressed disc is read by libchdr,  *)
(* which opens the file itself.                                              *)
Read(t) ==
  LET read  == Reads(t)[ctx[t].next]
      got   == Got(written[t][read.file], read.from, read.count)
      bytes == IF job[t].chd THEN ctx[t].bytes ELSE ctx[t].bytes + got
      short == ~job[t].chd /\ got < read.count
  IN /\ at[t] = "hashes" /\ ctx[t].next <= Len(Reads(t))
     /\ ctx' = [ctx EXCEPT ![t] =
                  [bytes    |-> bytes,
                   needMore |-> @.needMore \/ (short /\ expected[t] # 0 /\ bytes < expected[t]),
                   read     |-> Append(@.read, [file |-> read.file, from |-> read.from,
                                                count |-> got]),
                   next     |-> @.next + 1,
                   readers  |-> @.readers \cup {cdreader}]]
     /\ at' = [at EXCEPT ![t] = IF ctx'[t].next > Len(Reads(t)) THEN "ends" ELSE @]
     /\ UNCHANGED <<job, expected, written, lock, cdreader, before, result>>

GiveUp(t) ==
  /\ at[t] \in {"hashes", "ends"}
  /\ \/ ~job[t].intact
     \/ before[t][1] = 0
     \/ ctx[t].read # <<>>
        /\ LET last == ctx[t].read[Len(ctx[t].read)]
           IN last.count < Reads(t)[Len(ctx[t].read)].count
  /\ Returns(t, IF ctx[t].needMore THEN "more" ELSE "failed")
  /\ lock' = NoOne
  /\ UNCHANGED <<job, expected, written, cdreader, ctx, before>>

Done(t) ==
  /\ at[t] = "ends" /\ job[t].intact
  /\ Returns(t, "done")
  /\ lock' = NoOne
  /\ UNCHANGED <<job, expected, written, cdreader, ctx, before>>

-----------------------------------------------------------------------------
Init ==
  /\ job = [t \in Callers |-> [sizes |-> <<0>>]]
  /\ expected = [t \in Callers |-> 0]
  /\ written = [t \in Callers |-> <<0>>]
  /\ at = [t \in Callers |-> "new"]
  /\ lock = NoOne /\ cdreader = "none"
  /\ ctx = [t \in Callers |-> NoContext]
  /\ before = written
  /\ result = [t \in Callers |-> "none"]

Call(t) == Refuse(t) \/ HashFile(t) \/ Lock(t) \/ Read(t) \/ GiveUp(t) \/ Done(t)
Next ==
  \E t \in Callers :
    \/ \E j \in Jobs, known \in BOOLEAN : Begin(t, j, known)
    \/ \E f \in DOMAIN written[t] : at[t] # "new" /\ Write(t, f)
    \/ Call(t)

Spec == Init /\ [][Next]_vars

-----------------------------------------------------------------------------
OfFinished(t) ==
  LET Full(read) == Got(job[t].sizes[read.file], read.from, read.count)
      reads == IF job[t].whole THEN <<[file |-> 1, from |-> 0, count |-> job[t].sizes[1]]>>
               ELSE job[t].reads
  IN ctx[t].read = [i \in DOMAIN reads |->
                      [file |-> reads[i].file, from |-> reads[i].from, count |-> Full(reads[i])]]

(* A hash that is done, of a file whose final size was given and that has no *)
(* siblings, is that of the finished file, read through the reader its own   *)
(* format needs, whatever other callers do; and such a file is only said to  *)
(* have failed when all of it was there.                                     *)
HashIsOfFinishedFile ==
  \A t \in Callers :
    /\ result[t] \in {"done", "failed"} =>
         /\ ctx[t].readers \subseteq {Reader(t)}
         /\ expected[t] # 0 /\ Len(job[t].sizes) = 1 => before[t] = job[t].sizes
    /\ result[t] = "done" /\ expected[t] # 0 /\ Len(job[t].sizes) = 1 => OfFinished(t)
    /\ expected[t] = 0 => result[t] # "more"

(* rahasher_stream.h says that not done means the algorithm needed data that *)
(* is not on the disk yet, and that corrupt data is a negative return: a     *)
(* file that was all there is not asked for again.  It fails for a plain     *)
(* file whose header points behind its end; a compressed disc has nothing    *)
(* that sets need_more_data.                                                 *)
NotDoneMeansMore ==
  \A t \in Callers : result[t] = "more" => before[t] # job[t].sizes
===============================================================================
