------------------------------ MODULE LogRing ------------------------------
(* The log that the about box shows (src/src/components/Logger.cpp): a ring  *)
(* of records, each a byte for its level, two for its length, and the line.  *)
(* Whole records are dropped from the old end to make room for a new one.    *)
EXTENDS Integers, Sequences, Totals

CONSTANTS
  Size,         \* RING_LOG_MAX_BUFFER_SIZE
  MaxLine,      \* RING_LOG_MAX_LINE_SIZE, the three bytes included; at most Size
  Base,         \* the values of a byte; MaxLine - 3 is less than Base * Base
  Levels,       \* the levels but RETRO_LOG_DEBUG, which is not kept here
  Lengths,      \* bound: the lengths of the lines that are logged
  MaxLines      \* bound: how many lines are logged

VARIABLES
  buffer,       \* Logger::_buffer
  avail,        \* Logger::_avail
  first, last,  \* Logger::_first, _last
  logged        \* what log was called with: a sequence of [level, line]

vars == <<buffer, avail, first, last, logged>>

-----------------------------------------------------------------------------
(* The n-th line's bytes, told apart from those of the others.               *)
Line(n, length) == [i \in 1..length |-> Base * n + i]

(* Logger::peek: n bytes from pos on, around the end of the buffer.          *)
Peek(pos, n) == [i \in 1..n |-> buffer[(pos + i - 1) % Size]]

(* Mutant: the high byte of the length is forgotten.                         *)
LengthLow(meta) == meta[2]

LengthIn(meta) == meta[2] + Base * meta[3]
Record(level, line) == <<level, Len(line) % Base, Len(line) \div Base>> \o line

(* Logger::log.  Records are read and skipped until there is room; there     *)
(* cannot be more of them than bytes.                                        *)
DropOldest(r, needed) ==
  LET gone == 3 + LengthIn(Peek(r.first, 3))
  IN IF r.avail >= needed THEN r
     ELSE [first |-> (r.first + gone) % Size, avail |-> r.avail + gone]
Room(needed) ==
  LET After[n \in 0..Size] ==
        IF n = 0 THEN [first |-> first, avail |-> avail] ELSE DropOldest(After[n - 1], needed)
  IN After[Size]

Cut(line) == SubSeq(line, 1, IF Len(line) > MaxLine - 3 THEN MaxLine - 3 ELSE Len(line))

Log(level, length) ==
  LET line   == Cut(Line(Len(logged), length))
      record == Record(level, line)
      room   == Room(Len(record))
  IN /\ Len(logged) < MaxLines
     /\ buffer' = [p \in 0..(Size - 1) |->
                     IF ((p - last) % Size) < Len(record)
                       THEN record[((p - last) % Size) + 1] ELSE buffer[p]]
     /\ first' = room.first
     /\ last'  = (last + Len(record)) % Size
     /\ avail' = room.avail - Len(record)
     /\ logged' = Append(logged, [level |-> level, line |-> Line(Len(logged), length)])

(* Logger::iterate, which contents calls for the about box, up to the end.   *)
ShowNext(r) ==
  LET meta   == Peek(r.pos, 3)
      length == LengthIn(meta)
      line   == Peek((r.pos + 3) % Size, length)
  IN IF r.pos = last THEN r
     ELSE [pos   |-> (r.pos + 3 + length) % Size,
           shown |-> Append(r.shown, [level |-> meta[1], line |-> line])]
Contents ==
  LET After[n \in 0..Size] ==
        IF n = 0 THEN [pos |-> first, shown |-> <<>>] ELSE ShowNext(After[n - 1])
  IN After[Size].shown

Init ==
  /\ buffer = [p \in 0..(Size - 1) |-> 0]
  /\ avail = Size /\ first = 0 /\ last = 0 /\ logged = <<>>

Next == \E level \in Levels, length \in Lengths : Log(level, length)

Spec == Init /\ [][Next]_vars

-----------------------------------------------------------------------------
(* The about box shows the latest lines, in their order, as many as fit and  *)
(* each cut to the longest line there may be.  When they fill the ring to    *)
(* the last byte it shows none: the ring then looks as it does when empty.   *)
Kept(k) == [i \in 1..k |-> LET l == logged[Len(logged) - k + i]
                           IN [level |-> l.level, line |-> Cut(l.line)]]
Ends      == Totals([i \in DOMAIN logged |-> 3 + Len(Cut(logged[i].line))])
Weight(k) == Ends[Len(logged)] - Ends[Len(logged) - k]
Fitting   == CHOOSE k \in 0..Len(logged) :
               /\ Weight(k) <= Size
               /\ \A j \in (k + 1)..Len(logged) : Weight(j) > Size
LogShowsLatest == Contents = IF Weight(Fitting) = Size THEN <<>> ELSE Kept(Fitting)
=============================================================================
