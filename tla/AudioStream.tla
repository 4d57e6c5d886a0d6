----------------------------- MODULE AudioStream -----------------------------
(***************************************************************************)
(* What the audio path promises, seen from its two ends: the samples a     *)
(* core emits reach the sound device once each, in order and in whole      *)
(* frames.  Samples may be lost, again in whole frames, only while "lossy" *)
(* holds.  Nothing is promised while it is "broken", nor of the steps in   *)
(* which it breaks or is made whole.                                       *)
(***************************************************************************)
EXTENDS Naturals, Sequences

CONSTANTS Channels, MaxBatch

VARIABLES
  stream,   \* the samples emitted and neither played nor lost, oldest first
  emitted,  \* how many frames the core has emitted
  lossy,    \* samples may be lost now
  broken    \* what is kept of the samples is not to be relied on

(* A sample is known by its frame and its channel.                         *)
Samples(from, n) ==
  [i \in 1..n * Channels |-> <<from + (i - 1) \div Channels,
                               (i - 1) % Channels>>]

Whole(n) == n % Channels = 0

Init == stream = <<>> /\ emitted = 0 /\ lossy \in BOOLEAN /\ broken = FALSE

Emit(n) ==
  /\ stream' = stream \o Samples(emitted + 1, n)
  /\ emitted' = emitted + n

Play(n) ==
  /\ Whole(n)
  /\ stream' = SubSeq(stream, n + 1, Len(stream))
  /\ UNCHANGED emitted

Lose(first, n) ==
  /\ lossy /\ Whole(first) /\ Whole(n)
  /\ first + n <= Len(stream)
  /\ stream' = SubSeq(stream, 1, first) \o
               SubSeq(stream, first + n + 1, Len(stream))
  /\ UNCHANGED emitted

Next ==
  /\ \/ broken \/ broken'
     \/ \E n \in 1..MaxBatch: Emit(n)
     \/ \E n \in 1..Len(stream): Play(n)
     \/ \E first \in 0..Len(stream), n \in 1..Len(stream): Lose(first, n)
     \/ UNCHANGED <<stream, emitted>>
  /\ lossy' \in BOOLEAN /\ broken' \in BOOLEAN

Spec == Init /\ [][Next]_<<stream, emitted, lossy, broken>>
=============================================================================
