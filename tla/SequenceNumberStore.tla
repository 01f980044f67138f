------------------------ MODULE SequenceNumberStore ------------------------
(***************************************************************************)
(* bdCore/bdContainers/bdSequenceNumberStore: the anti-replay window of a  *)
(* DTLS association.  m_bitmap is a bdUInt32 whose bit d stands for the    *)
(* number m_lastSeq - d; it is modelled as the set of its bits that are    *)
(* set, and a shift drops the bits that leave its Window (32) positions.   *)
(***************************************************************************)
EXTENDS Integers

CONSTANTS SeqNumbers,   \* the numbers a client of the store checks
          Window        \* width of m_bitmap, 32 in the code

ASSUME StoreAssumption == /\ SeqNumbers \subseteq Int
                          /\ Window \in Nat /\ Window > 0

Bits == 0 .. Window - 1

VARIABLES m_lastSeq, m_bitmap,
          accepted     \* history: numbers answered VALID since the last reset

storeVars == <<m_lastSeq, m_bitmap, accepted>>

Statuses == {"VALID_LARGER", "VALID_MUCH_LARGER", "VALID_SMALLER",
             "INVALID_DUPLICATE", "INVALID_SMALLER"}
Valid == {"VALID_LARGER", "VALID_MUCH_LARGER", "VALID_SMALLER"}

\* bitmap << d: what leaves the width is lost.
ShiftLeft(bitmap, d) == {b \in Bits : b - d \in bitmap}

\* Mutants: the far edge of the window is off by one; a jump keeps the old bits.
StatusWideWindow(thisSeq) ==
    IF thisSeq > m_lastSeq
    THEN IF thisSeq - m_lastSeq >= Window THEN "VALID_MUCH_LARGER"
                                          ELSE "VALID_LARGER"
    ELSE IF m_lastSeq - thisSeq > Window THEN "INVALID_SMALLER"
         ELSE IF m_lastSeq - thisSeq \in m_bitmap THEN "INVALID_DUPLICATE"
                                                  ELSE "VALID_SMALLER"
BitmapKeptOnJump(thisSeq) == m_bitmap \cup {0}

\* The value check returns for thisSeq.
Status(thisSeq) ==
    IF thisSeq > m_lastSeq
    THEN IF thisSeq - m_lastSeq >= Window THEN "VALID_MUCH_LARGER"
                                          ELSE "VALID_LARGER"
    ELSE IF m_lastSeq - thisSeq >= Window THEN "INVALID_SMALLER"
         ELSE IF m_lastSeq - thisSeq \in m_bitmap THEN "INVALID_DUPLICATE"
                                                  ELSE "VALID_SMALLER"

\* What check does to the bitmap; it leaves it alone when it refuses.
BitmapAfter(thisSeq) ==
    CASE Status(thisSeq) = "VALID_MUCH_LARGER" -> {0}
      [] Status(thisSeq) = "VALID_LARGER" ->
            ShiftLeft(m_bitmap, thisSeq - m_lastSeq) \cup {0}
      [] Status(thisSeq) = "VALID_SMALLER" ->
            m_bitmap \cup {m_lastSeq - thisSeq}
      [] OTHER -> m_bitmap

\* bdSequenceNumberStore::check
Check(thisSeq) ==
    /\ m_lastSeq' = IF thisSeq > m_lastSeq THEN thisSeq ELSE m_lastSeq
    /\ m_bitmap' = BitmapAfter(thisSeq)
    /\ accepted' = IF Status(thisSeq) \in Valid THEN accepted \cup {thisSeq}
                                                ELSE accepted

\* bdSequenceNumberStore::reset, and assigning a store built from initial.
Reset(initial) == /\ m_lastSeq' = initial
                  /\ m_bitmap' = {}
                  /\ accepted' = {}

StoreInit == /\ m_lastSeq \in SeqNumbers
             /\ m_bitmap = {}
             /\ accepted = {}

-----------------------------------------------------------------------------
\* Nothing accepted lies ahead of m_lastSeq, and the bitmap remembers exactly
\* the accepted numbers of the window: bit d is set if and only if
\* m_lastSeq - d was accepted, whatever jumps, slides and gap fills
\* (bdSequenceNumberStore.cpp:28, :33, :50) led there.
WindowIsMemory ==
    /\ \A n \in accepted : n <= m_lastSeq
    /\ \A d \in Bits : d \in m_bitmap <=> m_lastSeq - d \in accepted

\* Whatever number is offered next, check answers VALID if and only if the
\* number is fresh and not too old: never twice for one number, also when it
\* left the window in between, and never a refusal of a fresh one in reach.
VerdictIsRight ==
    \A n \in SeqNumbers :
        Status(n) \in Valid <=> n \notin accepted /\ m_lastSeq - n < Window
=============================================================================
