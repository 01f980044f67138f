---------------------------- MODULE ReplayProofs ----------------------------
(***************************************************************************)
(* Proofs about the anti-replay store and about the DTLS data path that    *)
(* drives it: for every window width and every set of numbers, and for     *)
(* every counter range, window, drift and number of packets and restarts.  *)
(* The inductive invariant of the store is its type invariant together     *)
(* with WindowIsMemory; the data path adds where the numbers come from.    *)
(***************************************************************************)
EXTENDS DTLSData, TLAPS
-----------------------------------------------------------------------------
(* The store, driven by any client.                                        *)

StoreInv == ClientTypeOK /\ WindowIsMemory

\* One call of check keeps the types: the bitmap stays within its width.
LEMMA CheckTypes ==
  ASSUME StoreInv, NEW n \in SeqNumbers, CallCheck(n)
  PROVE  ClientTypeOK'
<1> USE StoreAssumption DEF StoreInv, ClientTypeOK, CallCheck, Check, Bits
<1>1. m_lastSeq' \in SeqNumbers
  OBVIOUS
<1>2. Status(n) \in Statuses
  BY DEF Status, Statuses
<1>3. m_bitmap' \subseteq 0 .. Window - 1
  <2>1. CASE Status(n) = "VALID_MUCH_LARGER"
    BY <2>1 DEF BitmapAfter
  <2>2. CASE Status(n) = "VALID_LARGER"
    BY <2>2 DEF BitmapAfter, ShiftLeft
  <2>3. CASE Status(n) = "VALID_SMALLER"
    BY <2>3 DEF BitmapAfter, Status
  <2>4. CASE Status(n) \in {"INVALID_DUPLICATE", "INVALID_SMALLER"}
    BY <2>4 DEF BitmapAfter
  <2> QED BY <1>2, <2>1, <2>2, <2>3, <2>4 DEF Statuses
<1>4. accepted' \subseteq SeqNumbers
  OBVIOUS
<1>5. checked' \in [number : SeqNumbers \cup {0}, status : Statuses \cup {"NONE"}]
  BY <1>2
<1> QED BY <1>1, <1>3, <1>4, <1>5

\* One call of check keeps the bitmap an exact memory of the window.
LEMMA CheckRemembers ==
  ASSUME StoreInv, NEW n \in SeqNumbers, CallCheck(n)
  PROVE  WindowIsMemory'
<1> USE StoreAssumption DEF StoreInv, ClientTypeOK, CallCheck, Check, Bits,
                            WindowIsMemory, Valid
<1>0. n \in Int /\ m_lastSeq \in Int /\ accepted \subseteq Int
  OBVIOUS
<1>1. CASE Status(n) = "VALID_MUCH_LARGER"
  <2>1. n > m_lastSeq /\ n - m_lastSeq >= Window
    BY <1>0, <1>1 DEF Status
  <2>2. m_lastSeq' = n /\ m_bitmap' = {0} /\ accepted' = accepted \cup {n}
    BY <1>1, <2>1 DEF BitmapAfter
  <2> QED BY <1>0, <2>1, <2>2
<1>2. CASE Status(n) = "VALID_LARGER"
  <2>1. n > m_lastSeq /\ n - m_lastSeq < Window
    BY <1>0, <1>2 DEF Status
  <2>2. /\ m_lastSeq' = n
        /\ m_bitmap' = {b \in Bits : b - (n - m_lastSeq) \in m_bitmap} \cup {0}
        /\ accepted' = accepted \cup {n}
    BY <1>2, <2>1 DEF BitmapAfter, ShiftLeft
  <2>3. \A m \in accepted' : m <= m_lastSeq'
    BY <1>0, <2>1, <2>2
  <2>4. ASSUME NEW d \in Bits
        PROVE  d \in m_bitmap' <=> m_lastSeq' - d \in accepted'
    <3>1. CASE d = 0
      BY <1>0, <2>2, <3>1
    <3>2. CASE d # 0 /\ d < n - m_lastSeq
      BY <1>0, <2>1, <2>2, <3>2
    <3>3. CASE d # 0 /\ d >= n - m_lastSeq
      <4>1. d - (n - m_lastSeq) \in Bits
        BY <1>0, <2>1, <3>3
      <4>2. m_lastSeq - (d - (n - m_lastSeq)) = n - d
        BY <1>0
      <4>3. d - (n - m_lastSeq) \in m_bitmap <=> n - d \in accepted
        BY <4>1, <4>2
      <4> QED BY <1>0, <2>2, <3>3, <4>3
    <3> QED BY <1>0, <2>1, <3>1, <3>2, <3>3
  <2> QED BY <2>3, <2>4
<1>3. CASE Status(n) = "VALID_SMALLER"
  <2>1. n <= m_lastSeq /\ m_lastSeq - n \in Bits
    BY <1>0, <1>3 DEF Status
  <2>2. /\ m_lastSeq' = m_lastSeq
        /\ m_bitmap' = m_bitmap \cup {m_lastSeq - n}
        /\ accepted' = accepted \cup {n}
    BY <1>0, <1>3, <2>1 DEF BitmapAfter
  <2> QED BY <1>0, <2>1, <2>2
<1>4. CASE Status(n) \in {"INVALID_DUPLICATE", "INVALID_SMALLER"}
  <2>1. n <= m_lastSeq
    BY <1>0, <1>4 DEF Status
  <2>2. UNCHANGED <<m_lastSeq, m_bitmap, accepted>>
    BY <1>0, <1>4, <2>1 DEF BitmapAfter
  <2> QED BY <2>2
<1> QED BY <1>1, <1>2, <1>3, <1>4 DEF Status

\* The invariant is inductive.
LEMMA StoreInvInductive ==
  /\ ClientInit => StoreInv
  /\ StoreInv /\ [ClientNext]_clientVars => StoreInv'
<1>1. ClientInit => StoreInv
  BY StoreAssumption DEF ClientInit, StoreInit, NoCheck, StoreInv, ClientTypeOK,
                         WindowIsMemory, Bits
<1>2. ASSUME StoreInv, [ClientNext]_clientVars
      PROVE  StoreInv'
  <2>1. CASE \E n \in SeqNumbers : CallCheck(n)
    BY <1>2, <2>1, CheckTypes, CheckRemembers DEF StoreInv
  <2>2. CASE \E n \in SeqNumbers : CallReset(n)
    BY <2>2, StoreAssumption DEF CallReset, Reset, NoCheck, StoreInv,
                                 ClientTypeOK, WindowIsMemory, Bits
  <2>3. CASE UNCHANGED clientVars
    BY <1>2, <2>3 DEF clientVars, StoreInv, ClientTypeOK, WindowIsMemory
  <2> QED BY <1>2, <2>1, <2>2, <2>3 DEF ClientNext
<1> QED BY <1>1, <1>2

\* The types of the store and of its client hold in every reachable state.
THEOREM TypesHold == ClientSpec => []ClientTypeOK
<1>1. StoreInv => ClientTypeOK
  BY DEF StoreInv
<1> QED BY <1>1, StoreInvInductive, PTL DEF ClientSpec

\* The bitmap remembers exactly the accepted numbers of the window.
THEOREM MemoryHolds == ClientSpec => []WindowIsMemory
<1>1. StoreInv => WindowIsMemory
  BY DEF StoreInv
<1> QED BY <1>1, StoreInvInductive, PTL DEF ClientSpec

\* What check would answer is right for every number in every state.
LEMMA MemoryGivesVerdict == StoreInv => VerdictIsRight
<1> SUFFICES ASSUME StoreInv, NEW n \in SeqNumbers
             PROVE  Status(n) \in Valid
                        <=> n \notin accepted /\ m_lastSeq - n < Window
  BY DEF VerdictIsRight
<1> USE StoreAssumption DEF StoreInv, ClientTypeOK, WindowIsMemory, Bits
<1>0. n \in Int /\ m_lastSeq \in Int
  OBVIOUS
<1>1. CASE n > m_lastSeq
  BY <1>0, <1>1 DEF Status, Valid
<1>2. CASE m_lastSeq - n >= Window
  BY <1>0, <1>2 DEF Status, Valid
<1>3. CASE n <= m_lastSeq /\ m_lastSeq - n < Window
  <2>1. m_lastSeq - n \in Bits /\ m_lastSeq - (m_lastSeq - n) = n
    BY <1>0, <1>3
  <2>2. m_lastSeq - n \in m_bitmap <=> n \in accepted
    BY <2>1
  <2> QED BY <1>0, <1>3, <2>2 DEF Status, Valid
<1> QED BY <1>0, <1>1, <1>2, <1>3

\* No number is ever answered VALID twice between resets, and no fresh number
\* within reach is refused.
THEOREM VerdictHolds == ClientSpec => []VerdictIsRight
BY StoreInvInductive, MemoryGivesVerdict, PTL DEF ClientSpec

\* The bitmap implements the filter with perfect memory: a call of check is
\* one of the filter's three answers, a reset is its restart.
THEOREM StoreImplementsFilter == ClientSpec => ImplementsFilter
<1>1. ClientInit => Filter!FilterInit
  BY DEF ClientInit, StoreInit, NoCheck, Verdict, Filter!FilterInit,
         Filter!StartAt, Filter!NoAnswer
<1>2. ASSUME StoreInv, StoreInv', [ClientNext]_clientVars
      PROVE  [Filter!FilterNext]_(Filter!filterVars)
  <2>1. ASSUME NEW n \in SeqNumbers, CallCheck(n)
        PROVE  Filter!FilterNext
    <3>0. n \in Int /\ m_lastSeq \in Int
      BY <1>2, StoreAssumption DEF StoreInv, ClientTypeOK
    <3>1. Status(n) \in Valid <=> n \notin accepted /\ m_lastSeq - n < Window
      BY <1>2, MemoryGivesVerdict DEF VerdictIsRight
    <3>2. \A a \in accepted : a <= m_lastSeq
      BY <1>2 DEF StoreInv, WindowIsMemory
    <3>3. CASE n > m_lastSeq
      <4>1. Filter!Advance(n)
        BY <2>1, <3>0, <3>3 DEF CallCheck, Check, Status, Valid, Verdict,
                                Filter!Advance, Filter!Accept
      <4> QED BY <4>1 DEF Filter!FilterNext
    <3>4. CASE n <= m_lastSeq /\ Status(n) \in Valid
      <4>1. Filter!FillGap(n)
        BY <2>1, <3>0, <3>1, <3>4 DEF CallCheck, Check, Verdict, Valid,
                                      Filter!FillGap, Filter!Accept
      <4> QED BY <4>1 DEF Filter!FilterNext
    <3>5. CASE n <= m_lastSeq /\ Status(n) \notin Valid
      <4>1. Filter!Refuse(n)
        BY <1>2, <2>1, <3>0, <3>1, <3>5, StoreAssumption
           DEF CallCheck, Check, Status, Valid, Verdict, Filter!Refuse
      <4> QED BY <4>1 DEF Filter!FilterNext
    <3> QED BY <3>0, <3>3, <3>4, <3>5
  <2>2. ASSUME NEW n \in SeqNumbers, CallReset(n)
        PROVE  Filter!FilterNext
    <3>1. Filter!Restart(n)
      BY <2>2 DEF CallReset, Reset, NoCheck, Verdict, Filter!Restart,
                  Filter!NoAnswer
    <3> QED BY <3>1 DEF Filter!FilterNext
  <2>3. CASE UNCHANGED clientVars
    BY <2>3 DEF clientVars, Filter!filterVars
  <2> QED BY <1>2, <2>1, <2>2, <2>3 DEF ClientNext
<1> QED BY <1>1, <1>2, StoreInvInductive, PTL
        DEF ClientSpec, ImplementsFilter, Filter!FilterSpec
-----------------------------------------------------------------------------
(* The data path.                                                          *)

\* Euclidean division, for a quotient and a remainder that have names.
LEMMA Euclid ==
  ASSUME NEW n \in Int, NEW b \in Nat, b > 0,
         NEW q \in Int, q = n \div b, NEW r \in Int, r = n % b
  PROVE  b * q + r = n
BY Z3

\* The quotient and the remainder of a number by Range.
LEMMA DivMod ==
  ASSUME NEW n \in Nat
  PROVE  /\ n \div Range \in Nat
         /\ n % Range \in 0 .. Range - 1
         /\ n = Range * (n \div Range) + (n % Range)
<1> DEFINE q == n \div Range
           r == n % Range
<1>1. Range \in Nat /\ Range > 0
  BY RangeAssumption
<1>2. r \in 0 .. Range - 1 /\ q \in Int
  BY <1>1
<1>3. Range * q + r = n
  BY <1>1, <1>2, Euclid
<1> HIDE DEF q, r
<1>4. q >= 0
  BY <1>1, <1>2, <1>3
<1>5. q \in Nat
  BY <1>2, <1>4
<1>6. q \in Nat /\ r \in 0 .. Range - 1 /\ n = Range * q + r
  BY <1>2, <1>3, <1>5
<1> QED BY <1>6 DEF q, r

\* Two numbers less than Half apart have quotients at most one apart.
LEMMA NearQuotients ==
  ASSUME NEW a \in Nat, NEW b \in Nat, a - b < Half, b - a < Half
  PROVE  a \div Range - b \div Range \in {-1, 0, 1}
<1> DEFINE q == a \div Range - b \div Range
           r == (b % Range) - (a % Range)
<1>1. Range \in Nat /\ Range > 1 /\ Half \in Nat /\ 2 * Half = Range
  BY RangeAssumption DEF Half
<1>2. q \in Int /\ r \in Int /\ r < Range /\ -Range < r
  BY <1>1, DivMod
<1>3. Range * q = a - b + r
  <2>1. Range * q = Range * (a \div Range) - Range * (b \div Range)
    BY <1>1, DivMod
  <2> QED BY <2>1, <1>1, DivMod
<1>4. Range * q < 2 * Range /\ -(2 * Range) < Range * q
  BY <1>1, <1>2, <1>3
<1> HIDE DEF q
<1>5. q < 2
  BY <1>1, <1>2, <1>4
<1>6. -2 < q
  BY <1>1, <1>2, <1>4
<1>7. q \in {-1, 0, 1}
  BY <1>2, <1>5, <1>6
<1> QED BY <1>7 DEF q

\* A counter of 16 bits widens to the number it was cut from, whenever that
\* number lies less than half a range from the last one; -1 is the start.
LEMMA SetExact ==
  ASSUME NEW last \in Int, last >= -1, NEW n \in Nat,
         n - last < Half, last - n < Half
  PROVE  Set(last, Wire(n)) = n
<1>1. Range \in Nat /\ Range > 1 /\ Half \in Nat /\ 2 * Half = Range
  BY RangeAssumption DEF Half
<1>2. Wire(n) \in 0 .. Range - 1 /\ Wire(n) % Range = Wire(n)
  BY <1>1, DivMod DEF Wire
<1>3. CASE last = -1
  <2>1. n < Range
    BY <1>1, <1>3
  <2>2. Wire(n) = n
    BY <1>1, <2>1 DEF Wire
  <2>3. 1 % Range = 1
    BY <1>1
  <2>4. CRem(last) = -1
    BY <1>3, <2>3 DEF CRem
  <2> QED BY <2>2, <2>4 DEF Set
<1>4. CASE last >= 0
  <2> DEFINE c == n % Range
             l == last % Range
             q == n \div Range
             p == last \div Range
  <2>0. last \in Nat
    BY <1>4
  <2>1. /\ n = Range * q + c /\ last = Range * p + l
        /\ c \in 0 .. Range - 1 /\ l \in 0 .. Range - 1
        /\ q \in Nat /\ p \in Nat
    <3>1. n = Range * q + c /\ c \in 0 .. Range - 1 /\ q \in Nat
      BY DivMod
    <3>2. last = Range * p + l /\ l \in 0 .. Range - 1 /\ p \in Nat
      BY <2>0, DivMod
    <3> QED BY <3>1, <3>2
  <2>2. q - p \in {-1, 0, 1}
    BY <2>0, NearQuotients
  <2>3. CRem(last) = l /\ Wire(n) % Range = c
    BY <1>2, <1>4 DEF CRem, Wire
  <2> HIDE DEF c, l, q, p
  <2>4. CASE q = p
    <3>1. n - last = c - l
      BY <1>1, <2>1, <2>4
    <3>2. Set(last, Wire(n)) = IF l = c THEN last ELSE c + (last - l)
      BY <1>1, <2>1, <2>3, <3>1 DEF Set
    <3> QED BY <2>1, <3>1, <3>2
  <2>5. CASE q = p + 1
    <3>1. Range * q = Range * p + Range
      BY <1>1, <2>1, <2>5
    <3>2. n - last = c - l + Range
      BY <1>1, <2>1, <3>1
    <3>3. l - c > Half
      BY <1>1, <2>1, <3>2
    <3>4. Set(last, Wire(n)) = c + Range + (last - l)
      BY <1>1, <2>1, <2>3, <3>3 DEF Set
    <3> QED BY <1>1, <2>1, <3>2, <3>4
  <2>6. CASE q = p - 1
    <3>1. Range * q = Range * p - Range
      BY <1>1, <2>1, <2>6
    <3>2. n - last = c - l - Range
      BY <1>1, <2>1, <3>1
    <3>3. c - l > Half
      BY <1>1, <2>1, <3>2
    <3>4. Set(last, Wire(n)) = c - Range + (last - l)
      BY <1>1, <2>1, <2>3, <3>3 DEF Set
    <3> QED BY <1>1, <2>1, <3>2, <3>4
  <2> QED BY <2>1, <2>2, <2>4, <2>5, <2>6
<1> QED BY <1>3, <1>4

-----------------------------------------------------------------------------
\* The inductive invariant: everything delivered under the current tag is
\* known to the store, and nothing was delivered under a tag of the future.
DataInv ==
    /\ DataTypeOK
    /\ accepted \subseteq Int
    /\ \A n \in accepted : n <= m_lastSeq
    /\ \A p \in delivered : p.vtag <= m_localTag
    /\ \A p \in delivered : p.vtag = m_localTag => p.seq \in accepted

\* The store's bitmap never grows past its width.
LEMMA BitmapFits ==
  ASSUME NEW n \in Int, m_lastSeq \in Int, m_bitmap \subseteq Bits
  PROVE  BitmapAfter(n) \subseteq Bits
<1> USE StoreAssumption DEF Bits
<1>1. CASE Status(n) = "VALID_MUCH_LARGER"
  BY <1>1 DEF BitmapAfter
<1>2. CASE Status(n) = "VALID_LARGER"
  BY <1>2 DEF BitmapAfter, ShiftLeft
<1>3. CASE Status(n) = "VALID_SMALLER"
  BY <1>3 DEF BitmapAfter, Status
<1>4. CASE Status(n) \in {"INVALID_DUPLICATE", "INVALID_SMALLER"}
  BY <1>4 DEF BitmapAfter
<1> QED BY <1>1, <1>2, <1>3, <1>4 DEF Status

\* In every state the receiver widens what the network may bring exactly.
LEMMA InvWidens == DataInv => WideningExact
<1> SUFFICES ASSUME DataInv, NEW p \in InFlight, SameTag(p), NotTooFar(p)
             PROVE  NewSeqNum(p) = p.seq
  BY DEF WideningExact
<1>1. m_lastSeq \in Int /\ m_lastSeq >= -1 /\ p.seq \in Nat
  BY DataAssumption DEF DataInv, DataTypeOK, InFlight, Packets
<1>2. p.seq - m_lastSeq < Half /\ m_lastSeq - p.seq < Half
  <2>1. Half \in Int
    BY RangeAssumption DEF Half
  <2> QED BY <1>1, <2>1, DataAssumption DEF SameTag, NotTooFar
<1> QED BY <1>1, <1>2, SetExact DEF NewSeqNum

\* Only a number above all accepted ones is handed on, so never the same twice.
LEMMA InvDelivers == DataInv => DeliveredOnce
<1> SUFFICES ASSUME DataInv, NEW p \in InFlight, NotTooFar(p), WouldDeliver(p)
             PROVE  p \notin delivered /\ p.vtag = m_localTag
  BY DEF DeliveredOnce
<1>1. p.vtag = m_localTag /\ p \in Packets
  BY DEF WouldDeliver, SameTag, InFlight
<1>2. NewSeqNum(p) = p.seq
  BY InvWidens DEF WideningExact, WouldDeliver
<1>3. p.seq > m_lastSeq
  BY <1>1, <1>2 DEF WouldDeliver, VerifyAccepts, Status
<1>4. p.seq \notin accepted
  BY <1>1, <1>3 DEF DataInv, DataTypeOK, Packets
<1> QED BY <1>1, <1>4 DEF DataInv

\* The invariant holds initially and every step keeps it.
LEMMA DataInvInductive == /\ DataInit => DataInv
                          /\ DataInv /\ [DataNext]_dataVars => DataInv'
<1> USE DataAssumption DEF Tags
<1>1. DataInit => DataInv
  BY DEF DataInit, DataInv, DataTypeOK, Bits
<1>2. ASSUME DataInv, SendData PROVE DataInv'
  BY <1>2 DEF SendData, clientVars, DataInv, DataTypeOK
<1>3. ASSUME DataInv, NEW p \in InFlight, NotTooFar(p), HandleData(p)
      PROVE  DataInv'
  <2>1. NewSeqNum(p) = p.seq
    BY <1>3, InvWidens DEF WideningExact, HandleData
  <2>2. /\ p \in Packets /\ p.vtag = m_localTag
        /\ p.seq \in 1 .. MaxSeq /\ m_lastSeq \in -1 .. MaxSeq
    BY <1>3 DEF InFlight, Packets, HandleData, SameTag, DataInv, DataTypeOK
  <2>3. /\ m_lastSeq' = IF p.seq > m_lastSeq THEN p.seq ELSE m_lastSeq
        /\ m_bitmap' = BitmapAfter(p.seq)
        /\ accepted' = IF Status(p.seq) \in Valid THEN accepted \cup {p.seq}
                                                  ELSE accepted
        /\ delivered' = IF VerifyAccepts(Status(p.seq))
                        THEN delivered \cup {p} ELSE delivered
        /\ UNCHANGED <<m_localTag, m_seqNum>>
    BY <1>3, <2>1 DEF HandleData, CallCheck, Check
  <2>4. m_lastSeq' \in -1 .. MaxSeq /\ m_lastSeq' >= m_lastSeq
    BY <2>2, <2>3
  <2>5. m_bitmap' \subseteq Bits
    <3>1. p.seq \in Int /\ m_lastSeq \in Int
      BY <2>2
    <3>2. m_bitmap \subseteq Bits
      BY <1>3 DEF DataInv, DataTypeOK
    <3> QED BY <2>3, <3>1, <3>2, BitmapFits
  <2>6. DataTypeOK'
    BY <1>3, <2>2, <2>3, <2>4, <2>5 DEF DataInv, DataTypeOK
  <2>7. accepted' \subseteq Int
    <3>1. accepted' \subseteq accepted \cup {p.seq} /\ p.seq \in Int
      BY <2>2, <2>3
    <3> QED BY <1>3, <3>1 DEF DataInv
  <2>8. \A n \in accepted' : n <= m_lastSeq'
    BY <1>3, <2>2, <2>3 DEF DataInv
  <2>9. \A q \in delivered' : q.vtag <= m_localTag'
    BY <1>3, <2>2, <2>3 DEF DataInv, DataTypeOK
  <2>10. \A q \in delivered' : q.vtag = m_localTag' => q.seq \in accepted'
    BY <1>3, <2>2, <2>3 DEF DataInv, VerifyAccepts, Valid
  <2> QED BY <2>6, <2>7, <2>8, <2>9, <2>10 DEF DataInv
<1>4. ASSUME DataInv, RestartAssociation PROVE DataInv'
  BY <1>4 DEF RestartAssociation, CallReset, Reset, DataInv, DataTypeOK, Packets, Bits
<1>5. ASSUME DataInv, UNCHANGED dataVars PROVE DataInv'
  BY <1>5 DEF dataVars, clientVars, DataInv, DataTypeOK
<1> QED BY <1>1, <1>2, <1>3, <1>4, <1>5 DEF DataNext

\* The types of the data path hold in every reachable state.
THEOREM DataTypesHold == DataSpec => []DataTypeOK
<1>1. DataInv => DataTypeOK
  BY DEF DataInv
<1> QED BY <1>1, DataInvInductive, PTL DEF DataSpec

\* For every width of the counter, widening is exact in every reachable state.
THEOREM WideningHolds == DataSpec => []WideningExact
BY DataInvInductive, InvWidens, PTL DEF DataSpec

\* No packet reaches the application twice, and none from before a restart.
THEOREM DeliveryHolds == DataSpec => []DeliveredOnce
BY DataInvInductive, InvDelivers, PTL DEF DataSpec

-----------------------------------------------------------------------------
\* The data path calls its store as any client may: every step of DataSpec is
\* a call with one of SeqNumbers or leaves the store alone.
THEOREM DataDrivesStore == DataSpec => ClientSpec
<1> USE DataAssumption
<1>1. DataInit => ClientInit
  BY DEF DataInit, ClientInit, StoreInit
<1>2. DataInv /\ [DataNext]_dataVars => [ClientNext]_clientVars
  <2>1. ASSUME DataInv, NEW p \in InFlight, NotTooFar(p), HandleData(p)
        PROVE  ClientNext
    <3>1. NewSeqNum(p) = p.seq
      BY <2>1, InvWidens DEF WideningExact, HandleData
    <3>2. p.seq \in -1 .. MaxSeq
      BY DEF InFlight, Packets
    <3>3. p.seq \in SeqNumbers /\ CallCheck(p.seq)
      BY <2>1, <3>1, <3>2 DEF HandleData
    <3> QED BY <3>3 DEF ClientNext
  <2>2. ASSUME RestartAssociation PROVE ClientNext
    BY <2>2 DEF RestartAssociation, ClientNext
  <2>3. ASSUME SendData \/ UNCHANGED dataVars PROVE UNCHANGED clientVars
    BY <2>3 DEF SendData, dataVars
  <2> QED BY <2>1, <2>2, <2>3 DEF DataNext
<1> QED BY <1>1, <1>2, DataInvInductive, PTL DEF DataSpec, ClientSpec

\* So what holds of the store holds of the store a data path drives: whatever
\* packets arrive, in whatever order, it answers as the perfect filter would.
THEOREM DataImplementsFilter == DataSpec => ImplementsFilter
BY DataDrivesStore, StoreImplementsFilter
=============================================================================
