---------------------------- MODULE StoreClient ----------------------------
(***************************************************************************)
(* A client that calls bdSequenceNumberStore with any numbers in any order *)
(* and remembers the answer it got: the store seen from outside.           *)
(***************************************************************************)
EXTENDS SequenceNumberStore

VARIABLE checked   \* the last call of check: its argument and its result

clientVars == <<m_lastSeq, m_bitmap, accepted, checked>>

NoCheck == [number |-> 0, status |-> "NONE"]

CallCheck(n) == /\ Check(n)
                /\ checked' = [number |-> n, status |-> Status(n)]

CallReset(n) == Reset(n) /\ checked' = NoCheck

ClientInit == StoreInit /\ checked = NoCheck

ClientNext == \E n \in SeqNumbers : CallCheck(n) \/ CallReset(n)

ClientSpec == ClientInit /\ [][ClientNext]_clientVars
-----------------------------------------------------------------------------
ClientTypeOK == /\ m_lastSeq \in SeqNumbers
                /\ m_bitmap \subseteq Bits
                /\ accepted \subseteq SeqNumbers
                /\ checked \in [number : SeqNumbers \cup {0},
                                status : Statuses \cup {"NONE"}]

\* The filter only tells accepted from refused.
Verdict(status) == IF status = "NONE" THEN "none"
                   ELSE IF status \in Valid THEN "accepted" ELSE "refused"

\* The 32-bit store implements the filter with perfect memory: what it
\* answers to every call is what the filter would answer.
Filter == INSTANCE ReplayFilter
            WITH newest <- m_lastSeq, seen <- accepted,
                 answer <- [number  |-> checked.number,
                            verdict |-> Verdict(checked.status)]
ImplementsFilter == Filter!FilterSpec
=============================================================================
