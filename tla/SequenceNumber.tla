--------------------------- MODULE SequenceNumber ---------------------------
(***************************************************************************)
(* bdCore/bdContainers/bdSequenceNumber: a wire counter of "bits" bits is  *)
(* widened to a full sequence number relative to the last number seen.     *)
(* Range stands for 2^bits (bits is 16 for DTLS counters and for data      *)
(* chunks).  The full numbers are int32 in the code; no run reaches their  *)
(* limit, so they are integers here.                                       *)
(***************************************************************************)
EXTENDS Integers

CONSTANT Range   \* number of distinct wire counters, 2^bits

ASSUME RangeAssumption == Range \in Nat /\ Range > 1 /\ Range % 2 = 0

Half == Range \div 2

\* C's % truncates towards zero: the remainder takes the dividend's sign.
CRem(a) == IF a >= 0 THEN a % Range ELSE -((-a) % Range)

\* The counter that travels for the full number n (a cast to bdUInt16).
Wire(n) == n % Range

\* Mutant: a smaller counter always means that the sender wrapped.
SetForward(last, seqNumber) ==
    LET curSeq == seqNumber % Range
    IN  IF last < 0 THEN seqNumber
        ELSE last + ((curSeq - last) % Range)

\* bdSequenceNumber::set(last, seqNumber, bits).  lastLess and lastGreater
\* only matter through the change of range they cause; at a distance of
\* exactly Half the code warns and keeps the range of last.
Set(last, seqNumber) ==
    LET lastSeq       == CRem(last)
        lastRangeBase == last - lastSeq
        curSeq        == seqNumber % Range
        rangeChange   == IF curSeq - lastSeq > Half THEN -1
                         ELSE IF lastSeq - curSeq > Half THEN 1 ELSE 0
    IN  IF lastSeq < 0 THEN seqNumber
        ELSE IF lastSeq = curSeq THEN last
        ELSE curSeq + rangeChange * Range + lastRangeBase
=============================================================================
