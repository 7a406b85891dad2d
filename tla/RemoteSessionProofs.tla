------------------------- MODULE RemoteSessionProofs -------------------------
(* Proofs about a remote session: about RemoteSender, then RemoteReceiver, *)
(* then RemoteSession, from what is proved of its two halves.              *)
EXTENDS RemoteSession, TLAPS

(***************************************************************************)
(* The sending half, for any messages and any bounds.                      *)
(***************************************************************************)

-----------------------------------------------------------------------------
(* Least and greatest numbers.                                             *)

LEMMA LeastExists ==
    ASSUME NEW S \in SUBSET Nat, S # {}
    PROVE  \E n \in S : \A m \in S : n <= m
<1> DEFINE R == OpToRel(<, Nat)
<1>1. \E n \in S : \A m \in S : <<m, n>> \notin R
  <2>1. IsWellFoundedOn(R, Nat)
    BY NatLessThanWellFounded
  <2> HIDE DEF R
  <2> QED
    BY <2>1, WFMin
<1>2. PICK n \in S : \A m \in S : <<m, n>> \notin R
  BY <1>1
<1>3. \A m \in S : ~(m < n)
  BY <1>2 DEF OpToRel
<1> QED
  BY <1>3

LEMMA GreatestExists ==
    ASSUME NEW k \in Nat, NEW S \in SUBSET (0 .. k), S # {}
    PROVE  \E n \in S : \A m \in S : n >= m
<1> DEFINE T == {k - n : n \in S}
<1>1. T \in SUBSET Nat /\ T # {}
  <2>1. \A n \in S : k - n \in Nat
    OBVIOUS
  <2> QED
    BY <2>1
<1>2. PICK t \in T : \A u \in T : t <= u
  <2> HIDE DEF T
  <2> QED
    BY <1>1, LeastExists
<1>3. PICK n \in S : t = k - n
  BY <1>2
<1>4. \A m \in S : k - n <= k - m
  BY <1>2, <1>3
<1> QED
  BY <1>3, <1>4

LEMMA MinIs ==
    ASSUME NEW S \in SUBSET Nat, S # {}
    PROVE  Min(S) \in S /\ \A m \in S : Min(S) <= m
<1>1. \E n \in S : \A m \in S : n <= m
  BY LeastExists
<1> QED
  BY <1>1 DEF Min

LEMMA MaxIs ==
    ASSUME NEW k \in Nat, NEW S \in SUBSET (0 .. k), S # {}
    PROVE  Max(S) \in S /\ \A m \in S : Max(S) >= m
<1>1. \E n \in S : \A m \in S : n >= m
  BY GreatestExists
<1> QED
  BY <1>1 DEF Max

-----------------------------------------------------------------------------
(* Rows and windows.                                                       *)

IsMap(f) == f = [x \in DOMAIN f |-> f[x]]

LEMMA RowsAre ==
    ASSUME NEW n \in Nat, NEW rows
    PROVE  rows \in RowsType(n) <=>
              /\ IsMap(rows)
              /\ DOMAIN rows \subseteq 1 .. n
              /\ \A seq \in DOMAIN rows : rows[seq] \in 1 .. n
<1>1. ASSUME rows \in RowsType(n)
      PROVE  /\ IsMap(rows)
             /\ DOMAIN rows \subseteq 1 .. n
             /\ \A seq \in DOMAIN rows : rows[seq] \in 1 .. n
  <2>1. PICK seqs \in SUBSET (1 .. n) : rows \in [seqs -> 1 .. n]
    BY <1>1 DEF RowsType
  <2> QED
    BY <2>1 DEF IsMap
<1>2. ASSUME IsMap(rows),
             DOMAIN rows \subseteq 1 .. n,
             \A seq \in DOMAIN rows : rows[seq] \in 1 .. n
      PROVE  rows \in RowsType(n)
  <2>1. rows \in [DOMAIN rows -> 1 .. n]
    BY <1>2 DEF IsMap
  <2> QED
    BY <1>2, <2>1 DEF RowsType
<1> QED
  BY <1>1, <1>2

LEMMA WaitingAre ==
    ASSUME NEW n \in Nat, NEW f
    PROVE  f \in WaitingType(n) <=>
              /\ IsMap(f)
              /\ DOMAIN f \subseteq 1 .. n
              /\ \A seq \in DOMAIN f : f[seq] \in BOOLEAN
<1>1. ASSUME f \in WaitingType(n)
      PROVE  /\ IsMap(f)
             /\ DOMAIN f \subseteq 1 .. n
             /\ \A seq \in DOMAIN f : f[seq] \in BOOLEAN
  <2>1. PICK seqs \in SUBSET (1 .. n) : f \in [seqs -> BOOLEAN]
    BY <1>1 DEF WaitingType
  <2> QED
    BY <2>1 DEF IsMap
<1>2. ASSUME IsMap(f),
             DOMAIN f \subseteq 1 .. n,
             \A seq \in DOMAIN f : f[seq] \in BOOLEAN
      PROVE  f \in WaitingType(n)
  <2>1. f \in [DOMAIN f -> BOOLEAN]
    BY <1>2 DEF IsMap
  <2> QED
    BY <1>2, <2>1 DEF WaitingType
<1> QED
  BY <1>1, <1>2

LEMMA FewerRows ==
    ASSUME NEW n \in Nat, NEW rows \in RowsType(n), NEW gone
    PROVE  Without(rows, gone) \in RowsType(n)
<1> DEFINE t == Without(rows, gone)
<1>1. /\ DOMAIN rows \subseteq 1 .. n
      /\ \A k \in DOMAIN rows : rows[k] \in 1 .. n
  BY RowsAre
<1>2. /\ DOMAIN t = DOMAIN rows \ gone
      /\ \A k \in DOMAIN t : t[k] = rows[k]
      /\ IsMap(t)
  BY DEF Without, IsMap
<1> HIDE DEF t
<1>3. t \in RowsType(n)
  BY <1>1, <1>2, RowsAre
<1> QED
  BY <1>3 DEF t

LEMMA FewerWaiting ==
    ASSUME NEW n \in Nat, NEW f \in WaitingType(n), NEW gone
    PROVE  Without(f, gone) \in WaitingType(n)
<1> DEFINE t == Without(f, gone)
<1>1. /\ DOMAIN f \subseteq 1 .. n
      /\ \A k \in DOMAIN f : f[k] \in BOOLEAN
  BY WaitingAre
<1>2. /\ DOMAIN t = DOMAIN f \ gone
      /\ \A k \in DOMAIN t : t[k] = f[k]
      /\ IsMap(t)
  BY DEF Without, IsMap
<1> HIDE DEF t
<1>3. t \in WaitingType(n)
  BY <1>1, <1>2, WaitingAre
<1> QED
  BY <1>3 DEF t

LEMMA OneMoreRow ==
    ASSUME NEW n \in Nat, NEW rows \in RowsType(n), NEW seq \in 1 .. n + 1,
           NEW msg \in 1 .. n + 1
    PROVE  With(rows, seq, msg) \in RowsType(n + 1)
<1> DEFINE t == With(rows, seq, msg)
<1>1. /\ DOMAIN rows \subseteq 1 .. n
      /\ \A k \in DOMAIN rows : rows[k] \in 1 .. n
  BY RowsAre
<1>2. /\ DOMAIN t = DOMAIN rows \cup {seq} /\ t[seq] = msg
      /\ \A k \in DOMAIN rows : k # seq => t[k] = rows[k]
      /\ IsMap(t)
  BY DEF With, IsMap
<1> HIDE DEF t
<1>3. DOMAIN t \subseteq 1 .. n + 1
  BY <1>1, <1>2
<1>4. ASSUME NEW k \in DOMAIN t PROVE t[k] \in 1 .. n + 1
  <2>1. CASE k = seq
    BY <1>2, <2>1
  <2>2. CASE k # seq
    <3>1. k \in DOMAIN rows
      BY <1>2, <2>2
    <3>2. t[k] = rows[k] /\ rows[k] \in 1 .. n
      BY <1>1, <1>2, <2>2, <3>1
    <3> QED
      BY <3>2
  <2> QED
    BY <2>1, <2>2
<1>5. n + 1 \in Nat
  OBVIOUS
<1>6. t \in RowsType(n + 1)
  BY <1>2, <1>3, <1>4, <1>5, RowsAre
<1> QED
  BY <1>6 DEF t

LEMMA OneMoreWaiting ==
    ASSUME NEW n \in Nat, NEW f \in WaitingType(n), NEW seq \in 1 .. n,
           NEW value \in BOOLEAN
    PROVE  With(f, seq, value) \in WaitingType(n)
<1> DEFINE t == With(f, seq, value)
<1>1. /\ DOMAIN f \subseteq 1 .. n /\ \A k \in DOMAIN f : f[k] \in BOOLEAN
  BY WaitingAre
<1>2. /\ DOMAIN t = DOMAIN f \cup {seq} /\ t[seq] = value
      /\ \A k \in DOMAIN f : k # seq => t[k] = f[k]
      /\ IsMap(t)
  BY DEF With, IsMap
<1> HIDE DEF t
<1>3. DOMAIN t \subseteq 1 .. n
  BY <1>1, <1>2
<1>4. \A k \in DOMAIN t : t[k] \in BOOLEAN
  BY <1>1, <1>2
<1>5. t \in WaitingType(n)
  BY <1>2, <1>3, <1>4, WaitingAre
<1> QED
  BY <1>5 DEF t

LEMMA TypesGrow ==
    ASSUME NEW n \in Nat
    PROVE  /\ WindowType(n) \subseteq WindowType(n + 1)
           /\ RowsType(n) \subseteq RowsType(n + 1)
           /\ StoreType(n) \subseteq StoreType(n + 1)
           /\ WaitingType(n) \subseteq WaitingType(n + 1)
           /\ SendType(n) \subseteq SendType(n + 1)
           /\ Seq(SendType(n)) \subseteq Seq(SendType(n + 1))
           /\ OwedType(n) \subseteq OwedType(n + 1)
           /\ PacketType(n) \subseteq PacketType(n + 1)
           /\ 1 .. n \subseteq 1 .. n + 1 /\ 0 .. n \subseteq 0 .. n + 1
<1>1. 1 .. n \subseteq 1 .. n + 1 /\ 0 .. n \subseteq 0 .. n + 1
      /\ 0 .. n + 1 \subseteq 0 .. n + 1 + 1 /\ n + 1 \in Nat
  OBVIOUS
<1>2. WindowType(n) \subseteq WindowType(n + 1)
  BY <1>1 DEF WindowType
<1>3. RowsType(n) \subseteq RowsType(n + 1)
  <2> SUFFICES ASSUME NEW rows \in RowsType(n) PROVE rows \in RowsType(n + 1)
    OBVIOUS
  <2>1. /\ IsMap(rows)
        /\ DOMAIN rows \subseteq 1 .. n
        /\ \A seq \in DOMAIN rows : rows[seq] \in 1 .. n
    BY RowsAre
  <2> QED
    BY <1>1, <2>1, RowsAre
<1>4. StoreType(n) \subseteq StoreType(n + 1)
  BY <1>1, <1>3 DEF StoreType
<1>5. WaitingType(n) \subseteq WaitingType(n + 1)
  <2> SUFFICES ASSUME NEW f \in WaitingType(n) PROVE f \in WaitingType(n + 1)
    OBVIOUS
  <2>1. /\ IsMap(f)
        /\ DOMAIN f \subseteq 1 .. n
        /\ \A seq \in DOMAIN f : f[seq] \in BOOLEAN
    BY WaitingAre
  <2> QED
    BY <1>1, <2>1, WaitingAre
<1>6. SendType(n) \subseteq SendType(n + 1)
  BY <1>1 DEF SendType
<1>7. Seq(SendType(n)) \subseteq Seq(SendType(n + 1))
  <2> DEFINE S == SendType(n)
             T == SendType(n + 1)
  <2>1. S \subseteq T
    BY <1>6
  <2> HIDE DEF S, T
  <2>2. Seq(S) \subseteq Seq(T)
    BY <2>1
  <2> QED
    BY <2>2 DEF S, T
<1>8. OwedType(n) \subseteq OwedType(n + 1)
  BY <1>1 DEF OwedType
<1>9. PacketType(n) \subseteq PacketType(n + 1)
  BY <1>1 DEF PacketType
<1> QED
  BY <1>1, <1>2, <1>3, <1>4, <1>5, <1>6, <1>7, <1>8, <1>9

LEMMA PersistAcknowledgedTyped ==
    ASSUME NEW n \in Nat, NEW s \in StoreType(n), NEW w \in WindowType(n)
    PROVE  PersistAcknowledged(s, w) \in StoreType(n)
<1> DEFINE gone == {m \in s.start .. s.next : m < w.start}
<1>1. /\ s.start \in 0 .. n + 1 /\ s.next \in 0 .. n /\ s.rows \in RowsType(n)
      /\ w.start \in 0 .. n + 1
  BY DEF StoreType, WindowType
<1>2. Without(s.rows, gone) \in RowsType(n)
  BY <1>1, FewerRows
<1>3. (IF s.next < w.start - 1 THEN w.start - 1 ELSE s.next) \in 0 .. n
  BY <1>1
<1> HIDE DEF gone
<1>4. [start |-> w.start,
       next  |-> IF s.next < w.start - 1 THEN w.start - 1 ELSE s.next,
       rows  |-> Without(s.rows, gone)] \in StoreType(n)
  BY <1>1, <1>2, <1>3 DEF StoreType
<1> QED
  BY <1>4 DEF PersistAcknowledged, gone

LEMMA EmptyStoreTyped ==
    ASSUME NEW n \in Nat
    PROVE  EmptyStore \in StoreType(n) /\ NoRows \in WaitingType(n)
<1>1. IsMap(NoRows) /\ DOMAIN NoRows = {}
  BY DEF IsMap, NoRows
<1>2. NoRows \in WaitingType(n) /\ NoRows \in RowsType(n)
  BY <1>1, WaitingAre, RowsAre
<1> QED
  BY <1>2 DEF EmptyStore, StoreType

LEMMA SendWindowTyped ==
    ASSUME NEW n \in Nat, NEW s \in StoreType(n), NEW w \in WindowType(n)
    PROVE  /\ SendWindow(s, w) \in WindowType(n)
           /\ NextNumber(s, w) \in 1 .. n + 1
           /\ Persisted(s, w) \in OwedType(n + 1)
<1>1. ASSUME NEW t \in StoreType(n) PROVE SendWindow(t, w) \in WindowType(n)
  BY <1>1 DEF SendWindow, StoredWindow, StoreType, WindowType
<1>2. NextNumber(s, w) \in 1 .. n + 1
  <2> DEFINE v == SendWindow(PersistAcknowledged(s, w), w)
  <2>1. v \in WindowType(n)
    BY <1>1, PersistAcknowledgedTyped
  <2> HIDE DEF v
  <2>2. v.next + 1 \in 1 .. n + 1
    BY <2>1 DEF WindowType
  <2> QED
    BY <2>2 DEF NextNumber, v
<1>3. Persisted(s, w) \in OwedType(n + 1)
  BY <1>2 DEF Persisted, OwedType, HasPending
<1> QED
  BY <1>1, <1>2, <1>3

LEMMA PersistTyped ==
    ASSUME NEW n \in Nat, NEW s \in StoreType(n), NEW w \in WindowType(n)
    PROVE  Persist(s, w, n + 1) \in StoreType(n + 1)
<1> DEFINE acked == PersistAcknowledged(s, w)
           seq == NextNumber(s, w)
<1>1. acked \in StoreType(n)
  BY PersistAcknowledgedTyped
<1>2. seq \in 1 .. n + 1
  BY SendWindowTyped
<1>3. Persist(s, w, n + 1) =
        [start |-> IF HasPending(acked) THEN acked.start ELSE seq,
         next |-> seq, rows |-> With(acked.rows, seq, n + 1)]
  BY DEF Persist
<1> HIDE DEF acked, seq
<1>4. acked.start \in 0 .. n + 1 /\ acked.rows \in RowsType(n)
  BY <1>1 DEF StoreType
<1>5. With(acked.rows, seq, n + 1) \in RowsType(n + 1)
  BY <1>2, <1>4, OneMoreRow
<1>6. (IF HasPending(acked) THEN acked.start ELSE seq) \in 0 .. n + 1 + 1
  BY <1>2, <1>4
<1>7. seq \in 0 .. n + 1
  BY <1>2
<1> QED
  BY <1>3, <1>5, <1>6, <1>7 DEF StoreType

LEMMA RowTyped ==
    ASSUME NEW n \in Nat, NEW s \in StoreType(n)
    PROVE  /\ DOMAIN s.rows \subseteq 1 .. n
           /\ \A seq \in DOMAIN s.rows : s.rows[seq] \in 1 .. n
           /\ Queued(s) \in SUBSET PacketType(n)
<1>1. s.rows \in RowsType(n)
  BY DEF StoreType
<1>2. /\ DOMAIN s.rows \subseteq 1 .. n
      /\ \A seq \in DOMAIN s.rows : s.rows[seq] \in 1 .. n
  BY <1>1, RowsAre
<1> QED
  BY <1>2 DEF Queued, PacketType

-----------------------------------------------------------------------------
(* What a flush does.                                                      *)

(* The numbers a flush that stops at `stop` hands over.                    *)
Passed(stop, rows) ==
    {n \in lastTransmittedSeq + 1 .. stop - 1 :
        n >= window.start /\ n \in DOMAIN rows}

(* It stops at the first number it may not pass.                           *)
IsStop(stop, waiting, rows) ==
    /\ stop \in lastTransmittedSeq + 1 .. MaxMade + 1
    /\ StopsAt(stop, waiting, rows)
    /\ \A m \in lastTransmittedSeq + 1 .. stop - 1 :
          ~StopsAt(m, waiting, rows)

(* The types a flush needs of what it reads.                               *)
FlushTyped(waiting, rows, top) ==
    /\ top \in 0 .. MaxMade
    /\ window \in WindowType(top)
    /\ lastTransmittedSeq \in 0 .. top
    /\ chain \in Seq(SendType(top))
    /\ waiting \in WaitingType(top)
    /\ rows \in RowsType(top)

(* A flush that goes ahead, up to `stop`.                                  *)
Flushed(stop, waiting, rows, top) ==
    LET passed == Passed(stop, rows)
    IN  /\ IsStop(stop, waiting, rows)
        /\ lastTransmittedSeq' = stop - 1
        /\ awaitingTransmit' =
               Without(waiting, {n \in DOMAIN waiting : n <= stop})
        /\ window' \in WindowType(top)
        /\ window'.start >= window.start
        /\ window'.next >= window.next
        /\ \/ window'.start = window.start
           \/ \E n \in passed \cap DOMAIN waiting :
                 waiting[n] /\ window'.start = n
        /\ \A n \in passed \cap DOMAIN waiting :
              waiting[n] => n <= window'.start
        /\ \A n \in passed : n <= window'.next
        /\ window'.next = window.next \/ window'.next \in passed
        /\ handed' = handed \cup { <<n, rows[n]>> : n \in passed }
        /\ chain' = chain \o [i \in 1 .. Cardinality(passed) |->
                                 Send(InOrder(passed)[i],
                                      rows[InOrder(passed)[i]], FALSE)]
        /\ chain' \in Seq(SendType(top))
        /\ chain # <<>> => chain' # <<>>
        /\ \A i \in DOMAIN chain' :
              \/ \E j \in DOMAIN chain : chain'[i] = chain[j]
              \/ \E n \in passed : chain'[i] = Send(n, rows[n], FALSE)

LEMMA StopsAbove ==
    ASSUME NEW waiting, NEW rows, NEW top, FlushTyped(waiting, rows, top)
    PROVE  StopsAt(top + 1, waiting, rows) /\ StopsAt(MaxMade + 1, waiting, rows)
<1>1. top \in 0 .. MaxMade /\ MaxMade \in Nat
  BY SenderAssumption DEF FlushTyped
<1>2. DOMAIN waiting \subseteq 1 .. top
  BY WaitingAre, <1>1 DEF FlushTyped
<1>3. top + 1 \notin DOMAIN waiting /\ MaxMade + 1 \notin DOMAIN waiting
  BY <1>1, <1>2
<1>4. window.start \in 0 .. top + 1 /\ window.next \in 0 .. top
  BY DEF FlushTyped, WindowType
<1> QED
  BY <1>1, <1>3, <1>4 DEF StopsAt

LEMMA StopExists ==
    ASSUME NEW waiting, NEW rows, NEW top, FlushTyped(waiting, rows, top)
    PROVE  \E stop : IsStop(stop, waiting, rows)
<1> DEFINE S == {n \in lastTransmittedSeq + 1 .. MaxMade + 1 :
                    StopsAt(n, waiting, rows)}
<1>1. top \in 0 .. MaxMade /\ MaxMade \in Nat /\ lastTransmittedSeq \in 0 .. top
  BY SenderAssumption DEF FlushTyped
<1>2. MaxMade + 1 \in S
  <2>1. StopsAt(MaxMade + 1, waiting, rows)
    BY StopsAbove
  <2>2. MaxMade + 1 \in lastTransmittedSeq + 1 .. MaxMade + 1
    BY <1>1
  <2> QED
    BY <2>1, <2>2
<1>3. S \in SUBSET Nat
  BY <1>1
<1>4. PICK stop \in S : \A m \in S : stop <= m
  BY <1>2, <1>3, LeastExists
<1>5. stop \in lastTransmittedSeq + 1 .. MaxMade + 1 /\ StopsAt(stop, waiting, rows)
  BY <1>4
<1>6. ASSUME NEW m \in lastTransmittedSeq + 1 .. stop - 1,
             StopsAt(m, waiting, rows)
      PROVE  FALSE
  <2>1. m \in lastTransmittedSeq + 1 .. MaxMade + 1
    BY <1>1, <1>5
  <2>2. ~(stop <= m)
    BY <1>1, <1>5
  <2>3. m \in S
    BY <1>6, <2>1
  <2> HIDE DEF S
  <2> QED
    BY <1>4, <2>2, <2>3
<1> QED
  BY <1>5, <1>6 DEF IsStop

LEMMA PassedTyped ==
    ASSUME NEW stop, NEW waiting, NEW rows, NEW top, FlushTyped(waiting, rows, top),
           IsStop(stop, waiting, rows)
    PROVE  /\ stop - 1 \in lastTransmittedSeq .. top
           /\ Passed(stop, rows) \in SUBSET (1 .. top)
           /\ \A n \in Passed(stop, rows) :
                 /\ n \in DOMAIN rows /\ n >= window.start
                 /\ rows[n] \in 1 .. top
                 /\ n > lastTransmittedSeq /\ n < stop
                 /\ Send(n, rows[n], FALSE) \in SendType(top)
<1>1. top \in 0 .. MaxMade /\ MaxMade \in Nat /\ lastTransmittedSeq \in 0 .. top
      /\ stop \in lastTransmittedSeq + 1 .. MaxMade + 1
  BY SenderAssumption DEF FlushTyped, IsStop
<1>2. DOMAIN rows \subseteq 1 .. top /\ \A n \in DOMAIN rows : rows[n] \in 1 .. top
  BY RowsAre DEF FlushTyped
<1>3. Passed(stop, rows) \in SUBSET (1 .. top)
  BY <1>1, <1>2 DEF Passed
<1>4. ASSUME NEW n \in Passed(stop, rows)
      PROVE  /\ n \in DOMAIN rows /\ n >= window.start
             /\ rows[n] \in 1 .. top
             /\ n > lastTransmittedSeq /\ n < stop
             /\ Send(n, rows[n], FALSE) \in SendType(top)
  <2>1. n \in DOMAIN rows /\ n >= window.start
        /\ n > lastTransmittedSeq /\ n < stop
    BY <1>1 DEF Passed
  <2>2. n \in 1 .. top /\ rows[n] \in 1 .. top
    BY <1>2, <2>1
  <2>3. Send(n, rows[n], FALSE) \in SendType(top)
    BY <2>2 DEF Send, SendType
  <2> QED
    BY <2>1, <2>2, <2>3
<1>5. stop - 1 \in lastTransmittedSeq .. top
  <2>1. ~(top + 1 \in lastTransmittedSeq + 1 .. stop - 1)
    BY StopsAbove DEF IsStop
  <2> QED
    BY <1>1, <2>1
<1> QED
  BY <1>3, <1>4, <1>5

(* The window only goes forward, and only as far as what is handed over.   *)
LEMMA WindowGoesForward ==
    ASSUME NEW top \in Nat, NEW start \in 0 .. top + 1, NEW next \in 0 .. top,
           NEW passed \in SUBSET (1 .. top), NEW firsts \in SUBSET passed,
           \A n \in passed : n >= start
    PROVE  /\ Max({start} \cup firsts) \in 0 .. top + 1
           /\ Max({start} \cup firsts) >= start
           /\ Max({start} \cup firsts) = start
                \/ Max({start} \cup firsts) \in firsts
           /\ \A n \in firsts : n <= Max({start} \cup firsts)
           /\ Max({next} \cup passed) \in 0 .. top
           /\ Max({next} \cup passed) >= next
           /\ Max({next} \cup passed) = next
                \/ Max({next} \cup passed) \in passed
           /\ \A n \in passed : n <= Max({next} \cup passed)
<1> DEFINE S == {start} \cup firsts
           T == {next} \cup passed
<1>1. S \in SUBSET (0 .. top + 1) /\ S # {} /\ start \in S /\ firsts \subseteq S
  OBVIOUS
<1>2. T \in SUBSET (0 .. top) /\ T # {} /\ next \in T /\ passed \subseteq T
  OBVIOUS
<1>3. \A n \in S : n = start \/ n \in firsts
  OBVIOUS
<1>4. \A n \in T : n = next \/ n \in passed
  OBVIOUS
<1> HIDE DEF S, T
<1>5. Max(S) \in S /\ \A n \in S : Max(S) >= n
  <2>1. top + 1 \in Nat
    OBVIOUS
  <2> QED
    BY <1>1, <2>1, MaxIs
<1>6. Max(T) \in T /\ \A n \in T : Max(T) >= n
  BY <1>2, MaxIs
<1>7. /\ Max(S) \in 0 .. top + 1 /\ Max(S) >= start
      /\ Max(S) = start \/ Max(S) \in firsts
  BY <1>1, <1>3, <1>5
<1>8. \A n \in firsts : n <= Max(S)
  <2> TAKE n \in firsts
  <2>1. n \in S /\ n \in Int /\ Max(S) \in Int
    BY <1>1, <1>7
  <2>2. Max(S) >= n
    BY <1>5, <2>1
  <2> QED
    BY <2>1, <2>2
<1>9. /\ Max(T) \in 0 .. top /\ Max(T) >= next
      /\ Max(T) = next \/ Max(T) \in passed
  BY <1>2, <1>4, <1>6
<1>10. \A n \in passed : n <= Max(T)
  <2> TAKE n \in passed
  <2>1. n \in T /\ n \in Int /\ Max(T) \in Int
    BY <1>2, <1>9
  <2>2. Max(T) >= n
    BY <1>6, <2>1
  <2> QED
    BY <2>1, <2>2
<1> QED
  BY <1>7, <1>8, <1>9, <1>10 DEF S, T

LEMMA ChainGrows ==
    ASSUME NEW S, NEW s \in Seq(S), NEW k \in Nat, NEW f \in [1 .. k -> S]
    PROVE  /\ s \o f \in Seq(S)
           /\ s # <<>> => s \o f # <<>>
           /\ \A i \in DOMAIN (s \o f) :
                 \/ \E j \in DOMAIN s : (s \o f)[i] = s[j]
                 \/ \E j \in 1 .. k : (s \o f)[i] = f[j]
<1>1. f \in Seq(S) /\ Len(f) = k
  OBVIOUS
<1>2. s \o f \in Seq(S) /\ Len(s \o f) = Len(s) + k /\ Len(s) \in Nat
  BY <1>1
<1>3. s # <<>> => s \o f # <<>>
  BY <1>1
<1>4. ASSUME NEW i \in DOMAIN (s \o f)
      PROVE  \/ \E j \in DOMAIN s : (s \o f)[i] = s[j]
             \/ \E j \in 1 .. k : (s \o f)[i] = f[j]
  <2>1. i \in 1 .. Len(s) + k
    BY <1>2
  <2>2. CASE i <= Len(s)
    <3>1. i \in 1 .. Len(s)
      BY <1>2, <2>1, <2>2
    <3>2. (s \o f)[i] = s[i]
      BY <1>1, <3>1
    <3> QED
      BY <3>1, <3>2
  <2>3. CASE ~(i <= Len(s))
    <3>1. i - Len(s) \in 1 .. k
      BY <1>2, <2>1, <2>3
    <3>2. (s \o f)[i] = f[i - Len(s)]
      BY <1>1, <1>2, <2>1, <2>3
    <3> QED
      BY <3>1, <3>2
  <2> QED
    BY <2>2, <2>3
<1> QED
  BY <1>2, <1>3, <1>4

LEMMA FlushIs ==
    ASSUME NEW waiting, NEW rows, NEW timer, NEW top,
           FlushTyped(waiting, rows, top),
           FlushTransmitQueue(waiting, rows, timer), attached'
    PROVE  \E stop : Flushed(stop, waiting, rows, top)
<1> DEFINE IsIt(n) ==
              /\ StopsAt(n, waiting, rows)
              /\ \A m \in lastTransmittedSeq + 1 .. n - 1 :
                    ~StopsAt(m, waiting, rows)
           stop == CHOOSE n \in lastTransmittedSeq + 1 .. MaxMade + 1 : IsIt(n)
           sent == Passed(stop, rows)
           firsts == {n \in sent \cap DOMAIN waiting : waiting[n]}
           tail == [i \in 1 .. Cardinality(sent) |->
                      Send(InOrder(sent)[i], rows[InOrder(sent)[i]], FALSE)]
<1>1. /\ lastTransmittedSeq' = stop - 1
      /\ awaitingTransmit' =
             Without(waiting, {n \in DOMAIN waiting : n <= stop})
      /\ window' = [start |-> Max({window.start} \cup firsts),
                    next  |-> Max({window.next} \cup sent)]
      /\ chain' = chain \o tail
      /\ handed' = handed \cup { <<seq, rows[seq]>> : seq \in sent }
  BY DEF FlushTransmitQueue, Passed
<1>2. IsStop(stop, waiting, rows)
  <2>1. \E n \in lastTransmittedSeq + 1 .. MaxMade + 1 : IsIt(n)
    <3>1. PICK n : IsStop(n, waiting, rows)
      BY StopExists
    <3> QED
      BY <3>1 DEF IsStop
  <2>2. stop \in lastTransmittedSeq + 1 .. MaxMade + 1 /\ IsIt(stop)
    <3> HIDE DEF IsIt
    <3> QED
      BY <2>1
  <2> HIDE DEF stop
  <2> QED
    BY <2>2 DEF IsStop
<1> HIDE DEF stop
<1>3. /\ stop - 1 \in lastTransmittedSeq .. top
      /\ sent \in SUBSET (1 .. top)
      /\ \A n \in sent :
            /\ n \in DOMAIN rows /\ n >= window.start
            /\ rows[n] \in 1 .. top
            /\ n > lastTransmittedSeq /\ n < stop
            /\ Send(n, rows[n], FALSE) \in SendType(top)
  BY <1>2, PassedTyped
<1>4. /\ top \in Nat
      /\ window.start \in 0 .. top + 1 /\ window.next \in 0 .. top
      /\ chain \in Seq(SendType(top))
  BY SenderAssumption DEF FlushTyped, WindowType
<1>5. firsts \in SUBSET sent
  OBVIOUS
<1>6. /\ InOrder(sent) \in [1 .. Cardinality(sent) -> sent]
      /\ Cardinality(sent) \in Nat
  <2> HIDE DEF sent
  <2> QED
    BY <1>3, <1>4, InOrderOrders
<1>7. \A n \in firsts : n \in sent /\ n \in DOMAIN waiting /\ waiting[n]
  OBVIOUS
<1>8. \A n \in sent \cap DOMAIN waiting : waiting[n] => n \in firsts
  OBVIOUS
<1>9. \A i \in 1 .. Cardinality(sent) :
         \E n \in sent : tail[i] = Send(n, rows[n], FALSE)
  <2> HIDE DEF sent
  <2> QED
    BY <1>6
<1>10. sent = Passed(stop, rows)
  OBVIOUS
<1>11. tail \in [1 .. Cardinality(sent) -> SendType(top)]
  <2> HIDE DEF sent
  <2> QED
    BY <1>3, <1>6
<1> HIDE DEF sent, firsts, tail
<1>12. /\ window'.start = Max({window.start} \cup firsts)
       /\ window'.next = Max({window.next} \cup sent)
       /\ window' \in WindowType(top)
       /\ window'.start >= window.start
       /\ window'.next >= window.next
       /\ window'.start = window.start \/ window'.start \in firsts
       /\ window'.next = window.next \/ window'.next \in sent
       /\ \A n \in firsts : n <= window'.start
       /\ \A n \in sent : n <= window'.next
  <2> DEFINE start == Max({window.start} \cup firsts)
             next == Max({window.next} \cup sent)
  <2>1. \A n \in sent : n >= window.start
    BY <1>3
  <2>2. /\ start \in 0 .. top + 1 /\ start >= window.start
        /\ start = window.start \/ start \in firsts
        /\ \A n \in firsts : n <= start
        /\ next \in 0 .. top /\ next >= window.next
        /\ next = window.next \/ next \in sent
        /\ \A n \in sent : n <= next
    BY <1>3, <1>4, <1>5, <2>1, WindowGoesForward
  <2>3. window' = [start |-> start, next |-> next]
    BY <1>1
  <2> HIDE DEF start, next
  <2>4. window'.start = start /\ window'.next = next /\ window' \in WindowType(top)
    BY <2>2, <2>3 DEF WindowType
  <2> QED
    BY <2>2, <2>4 DEF start, next
<1>13. /\ chain' \in Seq(SendType(top))
       /\ chain # <<>> => chain' # <<>>
       /\ \A i \in DOMAIN chain' :
             \/ \E j \in DOMAIN chain : chain'[i] = chain[j]
             \/ \E j \in 1 .. Cardinality(sent) : chain'[i] = tail[j]
  <2> DEFINE S == SendType(top)
             k == Cardinality(sent)
  <2>1. chain \in Seq(S) /\ tail \in [1 .. k -> S] /\ k \in Nat
    BY <1>4, <1>6, <1>11
  <2> HIDE DEF S, k
  <2>2. /\ chain \o tail \in Seq(S)
        /\ chain # <<>> => chain \o tail # <<>>
        /\ \A i \in DOMAIN (chain \o tail) :
             \/ \E j \in DOMAIN chain : (chain \o tail)[i] = chain[j]
             \/ \E j \in 1 .. k : (chain \o tail)[i] = tail[j]
    BY <2>1, ChainGrows
  <2> QED
    BY <1>1, <2>2 DEF S, k
<1>14. \A i \in DOMAIN chain' :
           \/ \E j \in DOMAIN chain : chain'[i] = chain[j]
           \/ \E n \in sent : chain'[i] = Send(n, rows[n], FALSE)
  BY <1>9, <1>13, ZenonT(60)
<1>15. \A n \in sent \cap DOMAIN waiting : waiting[n] => n <= window'.start
  BY <1>8, <1>12
<1>16. \/ window'.start = window.start
       \/ \E n \in sent \cap DOMAIN waiting :
             waiting[n] /\ window'.start = n
  BY <1>7, <1>12
<1>17. chain' = chain \o [i \in 1 .. Cardinality(sent) |->
                            Send(InOrder(sent)[i], rows[InOrder(sent)[i]],
                                 FALSE)]
  BY <1>1 DEF tail
<1>18. Flushed(stop, waiting, rows, top)
  BY <1>1, <1>2, <1>10, <1>12, <1>13, <1>14, <1>15, <1>16, <1>17 DEF Flushed
<1> QED
  BY <1>18

LEMMA FlushWaits ==
    ASSUME NEW waiting, NEW rows, NEW timer,
           FlushTransmitQueue(waiting, rows, timer), ~attached'
    PROVE  /\ awaitingTransmit' = waiting
           /\ ackTimer' = timer
           /\ UNCHANGED <<window, lastTransmittedSeq, chain, handed>>
BY DEF FlushTransmitQueue

LEMMA FlushTypes ==
    ASSUME NEW waiting, NEW rows, NEW timer \in BOOLEAN, NEW top,
           FlushTyped(waiting, rows, top), handed \in SUBSET PacketType(top),
           FlushTransmitQueue(waiting, rows, timer)
    PROVE  /\ window' \in WindowType(top)
           /\ lastTransmittedSeq' \in 0 .. top
           /\ awaitingTransmit' \in WaitingType(top)
           /\ chain' \in Seq(SendType(top))
           /\ chain # <<>> => chain' # <<>>
           /\ ackTimer' \in BOOLEAN
           /\ handed' \in SUBSET PacketType(top)
<1>1. CASE ~attached'
  BY <1>1, FlushWaits DEF FlushTyped
<1>2. CASE attached'
  <2>1. PICK stop : Flushed(stop, waiting, rows, top)
    BY <1>2, FlushIs
  <2>2. IsStop(stop, waiting, rows)
    BY <2>1 DEF Flushed
  <2>3. /\ stop - 1 \in lastTransmittedSeq .. top
        /\ Passed(stop, rows) \in SUBSET (1 .. top)
        /\ \A n \in Passed(stop, rows) : rows[n] \in 1 .. top
    BY <2>2, PassedTyped
  <2>4. top \in Nat /\ lastTransmittedSeq \in 0 .. top
    BY SenderAssumption DEF FlushTyped
  <2>5. lastTransmittedSeq' \in 0 .. top
    <3>1. stop - 1 \in 0 .. top
      BY <2>3, <2>4
    <3>2. lastTransmittedSeq' = stop - 1
      BY <2>1 DEF Flushed
    <3> QED
      BY <3>1, <3>2
  <2>6. awaitingTransmit' \in WaitingType(top)
    <3>1. awaitingTransmit' =
             Without(waiting, {n \in DOMAIN waiting : n <= stop})
      BY <2>1 DEF Flushed
    <3> QED
      BY <2>4, <3>1, FewerWaiting DEF FlushTyped
  <2>7. handed' \in SUBSET PacketType(top)
    <3>1. handed' = handed \cup { <<n, rows[n]>> : n \in Passed(stop, rows) }
      BY <2>1 DEF Flushed
    <3>2. { <<n, rows[n]>> : n \in Passed(stop, rows) } \subseteq PacketType(top)
      BY <2>3 DEF PacketType
    <3> QED
      BY <3>1, <3>2
  <2>8. ackTimer' \in BOOLEAN
    BY <1>2 DEF FlushTransmitQueue
  <2>9. /\ window' \in WindowType(top) /\ chain' \in Seq(SendType(top))
        /\ chain # <<>> => chain' # <<>>
    BY <2>1 DEF Flushed
  <2> QED
    BY <2>5, <2>6, <2>7, <2>8, <2>9
<1> QED
  BY <1>1, <1>2

LEMMA TransmitTypes ==
    ASSUME NEW sent, NEW rows, NEW top,
           sent \in OwedType(top), ackTimer \in BOOLEAN,
           FlushTyped(awaitingTransmit, rows, top),
           handed \in SUBSET PacketType(top),
           Transmit(sent, rows)
    PROVE  /\ window' \in WindowType(top)
           /\ lastTransmittedSeq' \in 0 .. top
           /\ awaitingTransmit' \in WaitingType(top)
           /\ chain' \in Seq(SendType(top))
           /\ chain # <<>> => chain' # <<>>
           /\ ackTimer' \in BOOLEAN
           /\ handed' \in SUBSET PacketType(top)
<1> DEFINE waiting == With(awaitingTransmit, sent.seq, sent.wasEmpty)
<1>1. top \in Nat /\ awaitingTransmit \in WaitingType(top)
  BY SenderAssumption DEF FlushTyped
<1>2. waiting \in WaitingType(top)
  <2>1. sent.seq \in 1 .. top /\ sent.wasEmpty \in BOOLEAN
    BY DEF OwedType
  <2> QED
    BY <1>1, <2>1, OneMoreWaiting
<1>3. FlushTransmitQueue(waiting, rows, ackTimer)
  BY DEF Transmit
<1> HIDE DEF waiting
<1>4. FlushTyped(waiting, rows, top)
  BY <1>2 DEF FlushTyped
<1> QED
  BY <1>3, <1>4, FlushTypes

-----------------------------------------------------------------------------
(* What giving up, retransmitting and restarting do.                       *)

LEMMA RetiredTyped ==
    ASSUME NEW n \in Nat, NEW sends \in Seq(SendType(n))
    PROVE  /\ Retired(sends) \in Seq(SendType(n))
           /\ Len(Retired(sends)) = Len(sends)
           /\ \A i \in DOMAIN Retired(sends) : Retired(sends)[i].retired
<1> DEFINE k == Len(sends)
<1>1. k \in Nat /\ sends \in [1 .. k -> SendType(n)]
  OBVIOUS
<1> HIDE DEF k
<1>2. \A i \in 1 .. k : [sends[i] EXCEPT !.retired = TRUE] \in SendType(n)
                          /\ [sends[i] EXCEPT !.retired = TRUE].retired
  <2> TAKE i \in 1 .. k
  <2>1. sends[i] \in SendType(n)
    BY <1>1
  <2> QED
    BY <2>1 DEF SendType
<1>3. Retired(sends) \in [1 .. k -> SendType(n)]
      /\ \A i \in 1 .. k : Retired(sends)[i].retired
  BY <1>1, <1>2 DEF Retired
<1>4. Retired(sends) \in Seq(SendType(n)) /\ Len(Retired(sends)) = k
  <2> DEFINE S == SendType(n)
             t == Retired(sends)
  <2>1. t \in [1 .. k -> S]
    BY <1>3
  <2> HIDE DEF S, t
  <2>2. t \in Seq(S) /\ Len(t) = k
    BY <1>1, <2>1
  <2> QED
    BY <2>2 DEF S, t
<1>5. DOMAIN Retired(sends) = 1 .. k
  BY <1>3
<1> QED
  BY <1>3, <1>4, <1>5 DEF k

(* The state before a step, in the parts the steps use.                    *)
LEMMA SenderTyped ==
    ASSUME SenderTypeOK
    PROVE  /\ made \in 0 .. MaxMade /\ MaxMade \in Nat /\ made \in Nat
           /\ window \in WindowType(made)
           /\ lastTransmittedSeq \in 0 .. made
           /\ awaitingTransmit \in WaitingType(made)
           /\ chain \in Seq(SendType(made))
           /\ kv \in StoreType(made) /\ undo \in StoreType(made)
           /\ kv.rows \in RowsType(made) /\ undo.rows \in RowsType(made)
           /\ handed \in SUBSET PacketType(made)
BY SenderAssumption DEF SenderTypeOK, StoreType

LEMMA GiveUpTypes ==
    ASSUME SenderTypeOK, NEW sends \in Seq(SendType(made)), GiveUp(sends)
    PROVE  /\ window' \in WindowType(made)
           /\ lastTransmittedSeq' \in 0 .. made
           /\ awaitingTransmit' \in WaitingType(made)
           /\ chain' \in Seq(SendType(made))
           /\ Len(chain') = Len(sends)
           /\ retryCount' \in 0 .. MaxRetries
           /\ ackTimer' \in BOOLEAN
           /\ kv' \in StoreType(made)
           /\ handed' \in SUBSET PacketType(made)
           /\ abandoned' \in SUBSET (1 .. made)
<1> DEFINE pending == SendWindow(kv, window)
<1>1. pending \in WindowType(made)
  BY SenderTyped, SendWindowTyped
<1>2. /\ made \in Nat /\ kv \in StoreType(made)
      /\ DOMAIN kv.rows \subseteq 1 .. made
      /\ \A seq \in DOMAIN kv.rows : kv.rows[seq] \in 1 .. made
  BY SenderTyped, RowTyped
<1>3. chain' \in Seq(SendType(made)) /\ Len(chain') = Len(sends)
  BY <1>2, RetiredTyped DEF GiveUp
<1>4. /\ ackTimer' \in BOOLEAN /\ lastTransmittedSeq' \in 0 .. made
      /\ awaitingTransmit' \in WaitingType(made)
      /\ handed' \in SUBSET PacketType(made)
  BY DEF GiveUp, SenderTypeOK
<1>5. CASE ~HasPending(pending)
  BY <1>3, <1>4, <1>5 DEF GiveUp, SenderTypeOK
<1>6. CASE HasPending(pending)
  <2>1. /\ window' = [start |-> pending.next + 1, next |-> pending.next]
        /\ kv' = [kv EXCEPT !.start = pending.next + 1, !.next = pending.next]
        /\ retryCount' = 0
        /\ abandoned' = abandoned \cup
             {kv.rows[seq] : seq \in {n \in DOMAIN kv.rows :
                           n \in pending.start .. pending.next}}
    BY <1>6 DEF GiveUp
  <2> HIDE DEF pending
  <2>2. pending.next \in 0 .. made /\ pending.next + 1 \in 0 .. made + 1
    BY <1>1, <1>2 DEF WindowType
  <2>3. window' \in WindowType(made)
    BY <2>1, <2>2 DEF WindowType
  <2>4. kv' \in StoreType(made)
    BY <1>2, <2>1, <2>2 DEF StoreType
  <2>5. retryCount' \in 0 .. MaxRetries
    BY <2>1, SenderAssumption
  <2>6. abandoned' \in SUBSET (1 .. made)
    BY <1>2, <2>1 DEF SenderTypeOK
  <2> QED
    BY <1>3, <1>4, <2>3, <2>4, <2>5, <2>6
<1> QED
  BY <1>5, <1>6

LEMMA RetransmitTypes ==
    ASSUME SenderTypeOK, NEW n \in Nat, NEW sends \in Seq(SendType(made)),
           NEW timer \in BOOLEAN, RetransmitFrom(n, sends, timer)
    PROVE  /\ chain' \in Seq(SendType(made))
           /\ ackTimer' \in BOOLEAN
           /\ sends # <<>> => chain' # <<>>
           /\ \/ chain' = sends
              \/ \E send \in SendType(made) :
                    send.loop /\ chain' = Append(sends, send)
<1> DEFINE left == {seq \in DOMAIN kv.rows : n <= seq /\ seq <= window.next}
           send == Send(Min(left), kv.rows[Min(left)], TRUE)
<1>1. CASE left = {}
  BY <1>1 DEF RetransmitFrom, TimerFor, HasPending, SenderTypeOK
<1>2. CASE left # {}
  <2>1. chain' = Append(sends, send) /\ ackTimer' = timer
    BY <1>2 DEF RetransmitFrom
  <2>2. /\ DOMAIN kv.rows \subseteq 1 .. made /\ made \in Nat
        /\ \A seq \in DOMAIN kv.rows : kv.rows[seq] \in 1 .. made
    BY SenderTyped, RowTyped
  <2>3. Min(left) \in left
    <3>1. left \in SUBSET Nat
      BY <2>2
    <3> HIDE DEF left
    <3> QED
      BY <1>2, <3>1, MinIs
  <2>4. Min(left) \in DOMAIN kv.rows
    BY <2>3
  <2> HIDE DEF left
  <2>5. send \in SendType(made) /\ send.loop
    BY <2>2, <2>4 DEF Send, SendType
  <2> HIDE DEF send
  <2>6. Append(sends, send) \in Seq(SendType(made)) /\ Append(sends, send) # <<>>
    BY <2>5
  <2> QED
    BY <2>1, <2>5, <2>6
<1> QED
  BY <1>1, <1>2

LEMMA RestartTypes ==
    ASSUME NEW top \in Nat, NEW s \in StoreType(top), RestartOver(s),
           durable \in SUBSET PacketType(top),
           abandoned \in SUBSET (1 .. top),
           faults \in 0 .. MaxFaults
    PROVE  /\ window' \in WindowType(top)
           /\ lastTransmittedSeq' \in 0 .. top
           /\ awaitingTransmit' \in WaitingType(top)
           /\ chain' \in Seq(SendType(top))
           /\ ~writing' /\ writing' \in BOOLEAN
           /\ retryCount' \in 0 .. MaxRetries
           /\ ackTimer' \in BOOLEAN /\ attached' \in BOOLEAN
           /\ inCrank' \in BOOLEAN
           /\ kv' \in StoreType(top) /\ undo' \in StoreType(top)
           /\ owed' = NoDelivery
           /\ durable' \in SUBSET PacketType(top)
           /\ handed' \in SUBSET PacketType(top)
           /\ abandoned' \in SUBSET (1 .. top)
           /\ faults' \in 0 .. MaxFaults
<1>1. PICK known \in BOOLEAN :
        LET next == IF s.next + 1 \in DOMAIN s.rows THEN s.next + 1
                                                    ELSE s.next
            start == IF known \/ next = 0 THEN s.start ELSE 1
        IN  /\ window' = [start |-> start, next |-> next]
            /\ lastTransmittedSeq' = IF start = 0 THEN 0 ELSE start - 1
            /\ kv' = [start |-> start, next |-> next,
                      rows |-> Without(s.rows, 0 .. start - 1)]
            /\ durable' = durable \cup Queued(kv')
            /\ abandoned' = abandoned \ {packet[2] : packet \in Queued(kv')}
  BY DEF RestartOver
<1> DEFINE next == IF s.next + 1 \in DOMAIN s.rows THEN s.next + 1 ELSE s.next
           start == IF known \/ next = 0 THEN s.start ELSE 1
<1>2. /\ s.start \in 0 .. top + 1 /\ s.next \in 0 .. top
      /\ s.rows \in RowsType(top) /\ DOMAIN s.rows \subseteq 1 .. top
  BY RowTyped DEF StoreType
<1>3. next \in 0 .. top
  BY <1>2
<1>4. start \in 0 .. top + 1 /\ (IF start = 0 THEN 0 ELSE start - 1) \in 0 .. top
  BY <1>2, <1>3
<1>5. Without(s.rows, 0 .. start - 1) \in RowsType(top)
  BY <1>2, FewerRows
<1>6. /\ window' = [start |-> start, next |-> next]
      /\ lastTransmittedSeq' = IF start = 0 THEN 0 ELSE start - 1
      /\ kv' = [start |-> start, next |-> next,
                rows |-> Without(s.rows, 0 .. start - 1)]
      /\ durable' = durable \cup Queued(kv')
      /\ abandoned' \subseteq abandoned
  BY <1>1
<1> HIDE DEF start, next
<1>7. window' \in WindowType(top) /\ kv' \in StoreType(top)
  BY <1>3, <1>4, <1>5, <1>6 DEF WindowType, StoreType
<1>8. durable' \in SUBSET PacketType(top)
  BY <1>6, <1>7, RowTyped
<1>9. NoRows \in WaitingType(top) /\ EmptyStore \in StoreType(top)
  BY EmptyStoreTyped
<1>11. <<>> \in Seq(SendType(top))
  OBVIOUS
<1>12. /\ awaitingTransmit' = NoRows /\ chain' = <<>> /\ writing' = FALSE
       /\ retryCount' = 0 /\ ackTimer' = FALSE /\ attached' = FALSE
       /\ inCrank' = FALSE /\ undo' = EmptyStore /\ owed' = NoDelivery
       /\ handed' = {} /\ faults' = faults + 1 /\ faults < MaxFaults
  BY DEF RestartOver
<1>13. faults' \in 0 .. MaxFaults /\ retryCount' \in 0 .. MaxRetries
  BY <1>12, SenderAssumption
<1>14. chain' \in Seq(SendType(top))
  BY <1>11, <1>12
<1> QED
  BY <1>4, <1>6, <1>7, <1>8, <1>9, <1>12, <1>13, <1>14

-----------------------------------------------------------------------------
(* Type correctness.                                                       *)

LEMMA SenderTypedInitially == SenderInit => SenderTypeOK
<1> SUFFICES ASSUME SenderInit PROVE SenderTypeOK
  OBVIOUS
<1>1. made = 0 /\ MaxMade \in Nat /\ MaxRetries \in Nat /\ MaxFaults \in Nat
  BY SenderAssumption DEF SenderInit
<1>2. EmptyStore \in StoreType(0) /\ NoRows \in WaitingType(0)
  BY EmptyStoreTyped
<1>3. EmptyWindow \in WindowType(0)
  BY DEF EmptyWindow, WindowType
<1>4. <<>> \in Seq(SendType(0))
  OBVIOUS
<1>5. window \in WindowType(made) /\ kv \in StoreType(made)
      /\ undo \in StoreType(made) /\ awaitingTransmit \in WaitingType(made)
  BY <1>1, <1>2, <1>3 DEF SenderInit
<1>6. chain \in Seq(SendType(made))
  BY <1>1, <1>4 DEF SenderInit
<1>7. /\ lastTransmittedSeq = 0 /\ retryCount = 0 /\ ackedUpTo = 0 /\ faults = 0
      /\ writing = FALSE /\ ackTimer = FALSE /\ attached = FALSE
      /\ inCrank = FALSE /\ owed = NoDelivery
      /\ durable = {} /\ handed = {} /\ wired = {} /\ abandoned = {}
  BY DEF SenderInit
<1>8. /\ made \in 0 .. MaxMade /\ lastTransmittedSeq \in 0 .. made
      /\ retryCount \in 0 .. MaxRetries /\ ackedUpTo \in 0 .. made
      /\ faults \in 0 .. MaxFaults
  BY <1>1, <1>7
<1>9. /\ durable \in SUBSET PacketType(made)
      /\ handed \in SUBSET PacketType(made)
      /\ wired \in SUBSET PacketType(made)
      /\ abandoned \in SUBSET (1 .. made)
  BY <1>7
<1> QED
  BY <1>5, <1>6, <1>7, <1>8, <1>9 DEF SenderTypeOK

(* Whatever was typed before another message is made is typed after it.    *)
LEMMA TypesGrowTo ==
    ASSUME SenderTypeOK, made < MaxMade
    PROVE  LET n == made + 1 IN
           /\ n \in 0 .. MaxMade /\ n \in 1 .. n /\ n \in Nat
           /\ window \in WindowType(n)
           /\ lastTransmittedSeq \in 0 .. n
           /\ awaitingTransmit \in WaitingType(n)
           /\ chain \in Seq(SendType(n))
           /\ kv \in StoreType(n) /\ undo \in StoreType(n)
           /\ owed = NoDelivery \/ owed \in OwedType(n)
           /\ durable \in SUBSET PacketType(n)
           /\ handed \in SUBSET PacketType(n)
           /\ wired \in SUBSET PacketType(n)
           /\ ackedUpTo \in 0 .. n
           /\ abandoned \in SUBSET (1 .. n)
<1>1. made \in Nat /\ made + 1 \in 0 .. MaxMade
      /\ made + 1 \in 1 .. made + 1 /\ made + 1 \in Nat
  BY SenderTyped
<1>2. /\ WindowType(made) \subseteq WindowType(made + 1)
      /\ StoreType(made) \subseteq StoreType(made + 1)
      /\ WaitingType(made) \subseteq WaitingType(made + 1)
      /\ Seq(SendType(made)) \subseteq Seq(SendType(made + 1))
      /\ OwedType(made) \subseteq OwedType(made + 1)
      /\ PacketType(made) \subseteq PacketType(made + 1)
      /\ 1 .. made \subseteq 1 .. made + 1 /\ 0 .. made \subseteq 0 .. made + 1
  BY <1>1, TypesGrow
<1>3. chain \in Seq(SendType(made + 1))
  BY <1>2 DEF SenderTypeOK
<1> QED
  BY <1>1, <1>2, <1>3 DEF SenderTypeOK

LEMMA AckMovesWindow ==
    ASSUME NEW n \in Nat, NEW w \in WindowType(n), NEW ack \in 0 .. n
    PROVE  [w EXCEPT !.start =
               IF HasPending(w) /\ w.start <= ack
               THEN Min({ack, w.next}) + 1 ELSE @] \in WindowType(n)
<1>1. {ack, w.next} \in SUBSET Nat /\ w.start \in 0 .. n + 1 /\ w.next \in 0 .. n
  BY DEF WindowType
<1>2. Min({ack, w.next}) \in 0 .. n
  BY <1>1, MinIs
<1> DEFINE start == IF HasPending(w) /\ w.start <= ack
                    THEN Min({ack, w.next}) + 1 ELSE w.start
<1>3. start \in 0 .. n + 1
  BY <1>1, <1>2
<1> HIDE DEF start
<1>4. [w EXCEPT !.start = start] \in WindowType(n)
  BY <1>3 DEF WindowType
<1> QED
  BY <1>4 DEF start

LEMMA SameLength ==
    ASSUME NEW S, NEW s \in Seq(S), NEW t \in Seq(S), Len(s) = Len(t), s # <<>>
    PROVE  t # <<>>
OBVIOUS

LEMMA HeadTyped ==
    ASSUME SenderTypeOK, chain # <<>>
    PROVE  /\ Head(chain) \in SendType(made)
           /\ Tail(chain) \in Seq(SendType(made))
           /\ Head(chain).seq + 1 \in Nat
           /\ Head(chain).seq \in 1 .. made /\ Head(chain).msg \in 1 .. made
           /\ Head(chain).loop \in BOOLEAN /\ Head(chain).retired \in BOOLEAN
<1>1. chain \in Seq(SendType(made)) /\ made \in Nat
  BY SenderTyped
<1>2. Head(chain) \in SendType(made) /\ Tail(chain) \in Seq(SendType(made))
  <2> DEFINE S == SendType(made)
  <2>1. chain \in Seq(S)
    BY <1>1
  <2> HIDE DEF S
  <2>2. Head(chain) \in S /\ Tail(chain) \in Seq(S)
    BY <2>1
  <2> QED
    BY <2>2 DEF S
<1>3. /\ Head(chain).seq \in 1 .. made /\ Head(chain).msg \in 1 .. made
      /\ Head(chain).loop \in BOOLEAN /\ Head(chain).retired \in BOOLEAN
  BY <1>2 DEF SendType
<1> QED
  BY <1>1, <1>2, <1>3

LEMMA SendIsOverTypes ==
    ASSUME SenderTypeOK, chain # <<>>, SendIsOver
    PROVE  /\ chain' \in Seq(SendType(made))
           /\ ackTimer' \in BOOLEAN
           /\ writing' = FALSE
           /\ UNCHANGED <<window, lastTransmittedSeq, awaitingTransmit,
                          retryCount, attached, inCrank, kv, undo, owed, made,
                          durable, handed, ackedUpTo, abandoned>>
<1>1. CASE Head(chain).loop
  BY <1>1, HeadTyped, RetransmitTypes DEF SendIsOver, SenderTypeOK
<1>2. CASE ~Head(chain).loop
  BY <1>2, HeadTyped DEF SendIsOver, SenderTypeOK
<1> QED
  BY <1>1, <1>2 DEF SendIsOver

(* A step of the sender, or a death that leaves a write half done.          *)
AnySenderStep ==
    \/ [SenderNext]_senderVars
    \/ RestartWhileEnqueueing
    \/ \E packet \in wired : RestartWhileAcknowledging(packet[1])

LEMMA NextSenderTyped ==
    ASSUME SenderTypeOK, AnySenderStep
    PROVE  SenderTypeOK'
<1> USE SenderAssumption
<1>1. CASE BeginCrank
  BY <1>1 DEF BeginCrank, SenderTypeOK, memoryVars, historyVars
<1>2. ASSUME NEW exempt \in BOOLEAN, DeliverToPeer(exempt) PROVE SenderTypeOK'
  <2>1. made < MaxMade /\ made' = made + 1
    BY <1>2 DEF DeliverToPeer
  <2>2. kv' \in StoreType(made') /\ owed' \in OwedType(made')
    BY <1>2, <2>1, SenderTyped, PersistTyped, SendWindowTyped DEF DeliverToPeer
  <2>3. /\ made' \in 0 .. MaxMade
        /\ window \in WindowType(made')
        /\ lastTransmittedSeq \in 0 .. made'
        /\ awaitingTransmit \in WaitingType(made')
        /\ chain \in Seq(SendType(made'))
        /\ undo \in StoreType(made')
        /\ durable \in SUBSET PacketType(made')
        /\ handed \in SUBSET PacketType(made')
        /\ wired \in SUBSET PacketType(made')
        /\ ackedUpTo \in 0 .. made'
        /\ abandoned \in SUBSET (1 .. made')
    BY <2>1, TypesGrowTo
  <2> QED
    BY <1>2, <2>2, <2>3 DEF DeliverToPeer, SenderTypeOK, memoryVars
<1>3. CASE SendRemoteCommand
  <2> DEFINE n == made + 1
  <2>1. made < MaxMade /\ made' = n
    BY <1>3 DEF SendRemoteCommand
  <2>2. kv' \in StoreType(n) /\ Persisted(kv, window) \in OwedType(n)
    BY <1>3, <2>1, SenderTyped, PersistTyped, SendWindowTyped
    DEF SendRemoteCommand
  <2>3. /\ n \in 0 .. MaxMade
        /\ window \in WindowType(n)
        /\ lastTransmittedSeq \in 0 .. n
        /\ awaitingTransmit \in WaitingType(n)
        /\ chain \in Seq(SendType(n))
        /\ undo \in StoreType(n)
        /\ owed = NoDelivery \/ owed \in OwedType(n)
        /\ durable \in SUBSET PacketType(n)
        /\ handed \in SUBSET PacketType(n)
        /\ wired \in SUBSET PacketType(n)
        /\ ackedUpTo \in 0 .. n
        /\ abandoned \in SUBSET (1 .. n)
    BY <2>1, TypesGrowTo
  <2> HIDE DEF n
  <2>4. Queued(kv') \in SUBSET PacketType(n) /\ kv'.rows \in RowsType(n)
    BY <2>2, <2>3, RowTyped DEF StoreType
  <2>5. FlushTyped(awaitingTransmit, kv'.rows, n)
    BY <2>3, <2>4 DEF FlushTyped
  <2>6. Transmit(Persisted(kv, window), kv'.rows) /\ ackTimer \in BOOLEAN
    BY <1>3 DEF SendRemoteCommand, SenderTypeOK
  <2>7. /\ window' \in WindowType(n)
        /\ lastTransmittedSeq' \in 0 .. n
        /\ awaitingTransmit' \in WaitingType(n)
        /\ chain' \in Seq(SendType(n))
        /\ chain # <<>> => chain' # <<>>
        /\ ackTimer' \in BOOLEAN
        /\ handed' \in SUBSET PacketType(n)
    BY <2>2, <2>3, <2>5, <2>6, TransmitTypes
  <2>8. durable' \in SUBSET PacketType(n)
    BY <1>3, <2>3, <2>4 DEF SendRemoteCommand
  <2>9. UNCHANGED <<writing, retryCount, attached, inCrank, undo, owed, wired,
                    ackedUpTo, abandoned, faults>>
    BY <1>3 DEF SendRemoteCommand
  <2> QED
    BY <2>1, <2>2, <2>3, <2>7, <2>8, <2>9 DEF SenderTypeOK
<1>4. CASE CommitCrank
  <2>1. Queued(kv) \in SUBSET PacketType(made)
    BY SenderTyped, RowTyped
  <2>2. EmptyStore \in StoreType(made)
    BY SenderTyped, EmptyStoreTyped
  <2>3. durable' \in SUBSET PacketType(made)
    BY <1>4, <2>1 DEF CommitCrank, SenderTypeOK
  <2>4. UNCHANGED <<writing, retryCount, attached, kv, made, wired, ackedUpTo,
                    abandoned, faults>>
        /\ inCrank' = FALSE /\ owed' = NoDelivery /\ undo' = EmptyStore
    BY <1>4 DEF CommitCrank
  <2>5. CASE owed = NoDelivery
    <3>1. UNCHANGED <<memoryVars, handed>>
      BY <1>4, <2>5 DEF CommitCrank
    <3> QED
      BY <2>2, <2>3, <2>4, <3>1 DEF SenderTypeOK, memoryVars
  <2>6. CASE owed # NoDelivery
    <3>1. Transmit(owed, kv.rows) /\ owed \in OwedType(made)
      BY <1>4, <2>6 DEF CommitCrank, SenderTypeOK
    <3>2. FlushTyped(awaitingTransmit, kv.rows, made)
      BY SenderTyped DEF FlushTyped
    <3>3. /\ window' \in WindowType(made)
          /\ lastTransmittedSeq' \in 0 .. made
          /\ awaitingTransmit' \in WaitingType(made)
          /\ chain' \in Seq(SendType(made))
          /\ chain # <<>> => chain' # <<>>
          /\ ackTimer' \in BOOLEAN
          /\ handed' \in SUBSET PacketType(made)
      <4>1. ackTimer \in BOOLEAN /\ handed \in SUBSET PacketType(made)
        BY DEF SenderTypeOK
      <4> QED
        BY <3>1, <3>2, <4>1, TransmitTypes
    <3> QED
      BY <2>2, <2>3, <2>4, <3>3 DEF SenderTypeOK
  <2> QED
    BY <2>5, <2>6
<1>5. CASE RollbackCrank
  <2>1. EmptyStore \in StoreType(made)
    BY SenderTyped, EmptyStoreTyped
  <2> QED
    BY <1>5, <2>1 DEF RollbackCrank, SenderTypeOK, memoryVars, historyVars
<1>6. ASSUME NEW ack \in 0 .. made, HandleAck(ack) PROVE SenderTypeOK'
  <2>1. window \in WindowType(made) /\ made \in Nat /\ ackedUpTo \in 0 .. made
    BY SenderTyped DEF SenderTypeOK
  <2>2. window' \in WindowType(made)
    BY <1>6, <2>1, AckMovesWindow DEF HandleAck
  <2>3. kv' \in StoreType(made)
    BY <1>6, <2>1, <2>2, SenderTyped, PersistAcknowledgedTyped DEF HandleAck
  <2>4. ackedUpTo' \in 0 .. made
    <3>1. {ackedUpTo, ack} \in SUBSET (0 .. made)
      BY <2>1
    <3>2. Max({ackedUpTo, ack}) \in {ackedUpTo, ack}
      BY <2>1, <3>1, MaxIs
    <3> QED
      BY <1>6, <3>1, <3>2 DEF HandleAck
  <2>5. retryCount' \in 0 .. MaxRetries /\ ackTimer' \in BOOLEAN
    BY <1>6 DEF HandleAck, TimerFor, HasPending, SenderTypeOK
  <2> QED
    BY <1>6, <2>2, <2>3, <2>4, <2>5 DEF HandleAck, SenderTypeOK
<1>7. CASE HandleAckTimeout
  <2>1. UNCHANGED <<writing, attached, inCrank, undo, owed, made, durable,
                    wired, ackedUpTo, faults>>
    BY <1>7 DEF HandleAckTimeout
  <2>2. CASE /\ ~HasPending(window)
             /\ ackTimer' = FALSE
             /\ UNCHANGED <<window, lastTransmittedSeq, awaitingTransmit, chain,
                            retryCount, kv, handed, abandoned>>
    BY <2>1, <2>2 DEF SenderTypeOK
  <2>3. CASE GiveUp(chain)
    <3>1. /\ window' \in WindowType(made)
          /\ lastTransmittedSeq' \in 0 .. made
          /\ awaitingTransmit' \in WaitingType(made)
          /\ chain' \in Seq(SendType(made))
          /\ Len(chain') = Len(chain)
          /\ retryCount' \in 0 .. MaxRetries
          /\ ackTimer' \in BOOLEAN
          /\ kv' \in StoreType(made)
          /\ handed' \in SUBSET PacketType(made)
          /\ abandoned' \in SUBSET (1 .. made)
      BY <2>3, SenderTyped, GiveUpTypes
    <3>2. chain # <<>> => chain' # <<>>
      BY <3>1, SenderTyped, SameLength
    <3> QED
      BY <2>1, <3>1, <3>2 DEF SenderTypeOK
  <2>4. CASE /\ ~RetriesSpent
             /\ retryCount' = retryCount + 1
             /\ RetransmitFrom(window.start, chain, FALSE)
             /\ UNCHANGED <<window, lastTransmittedSeq, awaitingTransmit, kv,
                            handed, abandoned>>
    <3>1. window.start \in Nat
      BY SenderTyped DEF WindowType
    <3>2. /\ chain' \in Seq(SendType(made))
          /\ ackTimer' \in BOOLEAN
          /\ chain # <<>> => chain' # <<>>
      BY <2>4, <3>1, SenderTyped, RetransmitTypes
    <3>3. retryCount' \in 0 .. MaxRetries
      BY <2>4 DEF RetriesSpent, SenderTypeOK
    <3> QED
      BY <2>1, <2>4, <3>2, <3>3 DEF SenderTypeOK
  <2> QED
    BY <1>7, <2>2, <2>3, <2>4 DEF HandleAckTimeout
<1>8. CASE TransportGivesUp
  <2>1. /\ window' \in WindowType(made)
        /\ lastTransmittedSeq' \in 0 .. made
        /\ awaitingTransmit' \in WaitingType(made)
        /\ chain' \in Seq(SendType(made))
        /\ Len(chain') = Len(chain)
        /\ retryCount' \in 0 .. MaxRetries
        /\ ackTimer' \in BOOLEAN
        /\ kv' \in StoreType(made)
        /\ handed' \in SUBSET PacketType(made)
        /\ abandoned' \in SUBSET (1 .. made)
    BY <1>8, SenderTyped, GiveUpTypes DEF TransportGivesUp
  <2>2. chain # <<>> => chain' # <<>>
    BY <2>1, SenderTyped, SameLength
  <2>3. faults' \in 0 .. MaxFaults
    BY <1>8 DEF TransportGivesUp, SenderTypeOK
  <2>4. UNCHANGED <<writing, attached, inCrank, undo, owed, made, durable,
                    wired, ackedUpTo>>
    BY <1>8 DEF TransportGivesUp
  <2> QED
    BY <2>1, <2>2, <2>3, <2>4 DEF SenderTypeOK
<1>9. CASE StartSend
  <2>1. /\ UNCHANGED <<window, lastTransmittedSeq, awaitingTransmit, retryCount,
                       attached, inCrank, kv, undo, owed, historyVars, faults>>
        /\ chain # <<>> /\ ~writing
    BY <1>9 DEF StartSend
  <2>2. CASE Head(chain).retired
    <3>1. writing' = writing
      BY <1>9, <2>2 DEF StartSend
    <3>2. chain' \in Seq(SendType(made)) /\ ackTimer' \in BOOLEAN
      <4>1. CASE Head(chain).loop
        BY <1>9, <2>1, <2>2, <4>1, HeadTyped, RetransmitTypes
        DEF StartSend, SenderTypeOK
      <4>2. CASE ~Head(chain).loop
        BY <1>9, <2>1, <2>2, <4>2, HeadTyped DEF StartSend, SenderTypeOK
      <4> QED
        BY <4>1, <4>2
    <3> QED
      BY <2>1, <3>1, <3>2 DEF SenderTypeOK, historyVars
  <2>3. CASE ~Head(chain).retired
    <3>1. writing' = TRUE /\ UNCHANGED <<chain, ackTimer>>
      BY <1>9, <2>3 DEF StartSend
    <3> QED
      BY <2>1, <3>1 DEF SenderTypeOK, historyVars
  <2> QED
    BY <2>2, <2>3
<1>10. CASE WriteMessage
  <2>1. writing /\ chain # <<>> /\ SendIsOver
    BY <1>10 DEF WriteMessage, SenderTypeOK
  <2>2. wired' \in SUBSET PacketType(made)
    <3>1. <<Head(chain).seq, Head(chain).msg>> \in PacketType(made)
      BY <2>1, HeadTyped DEF PacketType
    <3> QED
      BY <1>10, <3>1 DEF WriteMessage, SenderTypeOK
  <2>3. /\ chain' \in Seq(SendType(made)) /\ ackTimer' \in BOOLEAN
        /\ writing' = FALSE
        /\ UNCHANGED <<window, lastTransmittedSeq, awaitingTransmit, retryCount,
                       attached, inCrank, kv, undo, owed, made, durable,
                       handed, ackedUpTo, abandoned>>
    BY <2>1, SendIsOverTypes
  <2> QED
    BY <1>10, <2>2, <2>3 DEF WriteMessage, SenderTypeOK
<1>11. CASE SendFails
  <2>1. writing /\ chain # <<>> /\ SendIsOver
    BY <1>11 DEF SendFails, SenderTypeOK
  <2>2. faults' \in 0 .. MaxFaults /\ wired' = wired
    BY <1>11 DEF SendFails, SenderTypeOK
  <2>3. /\ chain' \in Seq(SendType(made)) /\ ackTimer' \in BOOLEAN
        /\ writing' = FALSE
        /\ UNCHANGED <<window, lastTransmittedSeq, awaitingTransmit, retryCount,
                       attached, inCrank, kv, undo, owed, made, durable,
                       handed, ackedUpTo, abandoned>>
    BY <2>1, SendIsOverTypes
  <2> QED
    BY <2>2, <2>3 DEF SenderTypeOK
<1>12. CASE SendFailsForGood
  <2>1. writing /\ chain # <<>> /\ GiveUp(Tail(chain))
    BY <1>12 DEF SendFailsForGood, SenderTypeOK
  <2>2. faults' \in 0 .. MaxFaults /\ writing' = FALSE
    BY <1>12 DEF SendFailsForGood, SenderTypeOK
  <2>3. UNCHANGED <<attached, inCrank, undo, owed, made, durable, wired,
                    ackedUpTo>>
    BY <1>12 DEF SendFailsForGood
  <2>4. /\ window' \in WindowType(made)
        /\ lastTransmittedSeq' \in 0 .. made
        /\ awaitingTransmit' \in WaitingType(made)
        /\ chain' \in Seq(SendType(made))
        /\ retryCount' \in 0 .. MaxRetries
        /\ ackTimer' \in BOOLEAN
        /\ kv' \in StoreType(made)
        /\ handed' \in SUBSET PacketType(made)
        /\ abandoned' \in SUBSET (1 .. made)
    BY <2>1, HeadTyped, GiveUpTypes
  <2> QED
    BY <2>2, <2>3, <2>4 DEF SenderTypeOK
<1>13. CASE AttachTransport
  <2>1. /\ UNCHANGED <<writing, retryCount, inCrank, kv, undo, owed, made,
                       durable, wired, ackedUpTo, abandoned, faults>>
        /\ attached' = TRUE
        /\ FlushTransmitQueue(awaitingTransmit, kv.rows, HasPending(window))
    BY <1>13 DEF AttachTransport
  <2>2. FlushTyped(awaitingTransmit, kv.rows, made)
    BY SenderTyped DEF FlushTyped
  <2>3. HasPending(window) \in BOOLEAN /\ handed \in SUBSET PacketType(made)
    BY DEF HasPending, SenderTypeOK
  <2>4. /\ window' \in WindowType(made)
        /\ lastTransmittedSeq' \in 0 .. made
        /\ awaitingTransmit' \in WaitingType(made)
        /\ chain' \in Seq(SendType(made))
        /\ chain # <<>> => chain' # <<>>
        /\ ackTimer' \in BOOLEAN
        /\ handed' \in SUBSET PacketType(made)
    BY <2>1, <2>2, <2>3, FlushTypes
  <2> QED
    BY <2>1, <2>4 DEF SenderTypeOK
<1>14. ASSUME NEW s, s \in StoreType(made'), RestartOver(s),
              made' \in 0 .. MaxMade, ackedUpTo' \in 0 .. made',
              durable \in SUBSET PacketType(made'),
              wired \in SUBSET PacketType(made'),
              abandoned \in SUBSET (1 .. made')
       PROVE  SenderTypeOK'
  <2>1. made' \in Nat /\ faults \in 0 .. MaxFaults
    BY <1>14 DEF SenderTypeOK
  <2>2. wired' \in SUBSET PacketType(made')
    BY <1>14 DEF RestartOver
  <2>3. /\ window' \in WindowType(made')
        /\ lastTransmittedSeq' \in 0 .. made'
        /\ awaitingTransmit' \in WaitingType(made')
        /\ chain' \in Seq(SendType(made'))
        /\ ~writing' /\ writing' \in BOOLEAN
        /\ retryCount' \in 0 .. MaxRetries
        /\ ackTimer' \in BOOLEAN /\ attached' \in BOOLEAN
        /\ inCrank' \in BOOLEAN
        /\ kv' \in StoreType(made') /\ undo' \in StoreType(made')
        /\ owed' = NoDelivery
        /\ durable' \in SUBSET PacketType(made')
        /\ handed' \in SUBSET PacketType(made')
        /\ abandoned' \in SUBSET (1 .. made')
        /\ faults' \in 0 .. MaxFaults
    BY <1>14, <2>1, RestartTypes
  <2> QED
    BY <1>14, <2>2, <2>3 DEF SenderTypeOK
<1>15. CASE Restart
  <2>1. PICK s \in {kv} \cup (IF inCrank THEN {undo} ELSE {}) : RestartOver(s)
    BY <1>15 DEF Restart
  <2>2. s \in StoreType(made)
    BY <2>1, SenderTyped
  <2>3. made' = made /\ ackedUpTo' = ackedUpTo
    BY <1>15 DEF Restart
  <2> QED
    BY <1>14, <2>1, <2>2, <2>3 DEF SenderTypeOK
<1>16. CASE RestartWhileEnqueueing
  <2> DEFINE n == made + 1
             whole == Persist(kv, window, made')
             acked == PersistAcknowledged(kv, window)
  <2>1. /\ made < MaxMade /\ made' = n /\ ackedUpTo' = ackedUpTo
        /\ \E start \in {acked.start, whole.start} :
             RestartOver([start |-> start, next |-> acked.next,
                          rows |-> whole.rows])
    BY <1>16 DEF RestartWhileEnqueueing
  <2>2. PICK start \in {acked.start, whole.start} :
             RestartOver([start |-> start, next |-> acked.next,
                          rows |-> whole.rows])
    BY <2>1
  <2>3. /\ n \in 0 .. MaxMade
        /\ kv \in StoreType(n) /\ window \in WindowType(n) /\ n \in Nat
        /\ durable \in SUBSET PacketType(n)
        /\ wired \in SUBSET PacketType(n)
        /\ ackedUpTo \in 0 .. n
        /\ abandoned \in SUBSET (1 .. n)
    BY <2>1, TypesGrowTo
  <2>4. whole \in StoreType(n)
    BY <2>1, SenderTyped, PersistTyped
  <2>5. acked \in StoreType(n)
    BY <2>3, PersistAcknowledgedTyped
  <2> HIDE DEF whole, acked, n
  <2>6. [start |-> start, next |-> acked.next, rows |-> whole.rows]
          \in StoreType(n)
    BY <2>4, <2>5 DEF StoreType
  <2> QED
    BY <1>14, <2>1, <2>2, <2>3, <2>6
<1>17. ASSUME NEW ack \in 0 .. made, RestartWhileAcknowledging(ack)
       PROVE  SenderTypeOK'
  <2> DEFINE w == [window EXCEPT !.start = Min({ack, window.next}) + 1]
             acked == PersistAcknowledged(kv, w)
  <2>1. /\ made' = made /\ ackedUpTo' = Max({ackedUpTo, ack})
        /\ HasPending(window) /\ window.start <= ack
        /\ \E cut \in kv.start .. ack :
             RestartOver([acked EXCEPT !.rows =
                            Without(kv.rows, kv.start .. cut - 1)])
    BY <1>17 DEF RestartWhileAcknowledging
  <2>2. PICK cut \in kv.start .. ack :
             RestartOver([acked EXCEPT !.rows =
                            Without(kv.rows, kv.start .. cut - 1)])
    BY <2>1
  <2>3. w \in WindowType(made)
    BY <2>1, SenderTyped, AckMovesWindow
  <2>4. acked \in StoreType(made)
    BY <2>3, SenderTyped, PersistAcknowledgedTyped
  <2>5. Without(kv.rows, kv.start .. cut - 1) \in RowsType(made)
    BY SenderTyped, FewerRows
  <2> HIDE DEF acked
  <2>6. [acked EXCEPT !.rows = Without(kv.rows, kv.start .. cut - 1)]
          \in StoreType(made)
    BY <2>4, <2>5 DEF StoreType
  <2>7. Max({ackedUpTo, ack}) \in 0 .. made
    <3>1. {ackedUpTo, ack} \in SUBSET (0 .. made) /\ made \in Nat
      BY SenderTyped DEF SenderTypeOK
    <3> QED
      BY <3>1, MaxIs
  <2> QED
    BY <1>14, <2>1, <2>2, <2>6, <2>7 DEF SenderTypeOK
<1>18. CASE UNCHANGED senderVars
  BY <1>18 DEF senderVars, SenderTypeOK
<1>19. \A packet \in wired : packet[1] \in 0 .. made
  BY SenderTyped DEF SenderTypeOK, PacketType
<1> QED
  BY <1>1, <1>2, <1>3, <1>4, <1>5, <1>6, <1>7, <1>8, <1>9, <1>10, <1>11,
     <1>12, <1>13, <1>15, <1>16, <1>17, <1>18, <1>19
   DEF AnySenderStep, SenderNext, SenderStep

(* Nothing is ever numbered, stored, waiting, handed over or acknowledged  *)
(* beyond the messages made, whatever the limits and the timing of sends   *)
(* and restarts.                                                           *)
THEOREM SenderTypeCorrect == SenderSpec => []SenderTypeOK
<1>1. SenderInit => SenderTypeOK
  BY SenderTypedInitially
<1>2. SenderTypeOK /\ [SenderNext]_senderVars => SenderTypeOK'
  BY NextSenderTyped DEF AnySenderStep
<1> QED
  BY <1>1, <1>2, PTL DEF SenderSpec

-----------------------------------------------------------------------------
(* What keeps the handle's business in order.                              *)

Settled(seq, msg) == seq <= ackedUpTo \/ msg \in abandoned

(* What the store holds if the kernel dies now.                            *)
Base == IF inCrank THEN undo ELSE kv

RowOf(s, seq, msg) == seq \in DOMAIN s.rows /\ s.rows[seq] = msg

Known(seq, msg) ==
    <<seq, msg>> \in durable \/ RowOf(kv, seq, msg) \/ RowOf(undo, seq, msg)

(* A message keeps the one number it was given.                            *)
OneNumber ==
    \A m, n, msg \in 1 .. MaxMade : Known(m, msg) /\ Known(n, msg) => m = n

StoreOrder(s) == s.start <= s.next + 1 /\ DOMAIN s.rows \subseteq 1 .. s.next

CrankOrder ==
    /\ ~inCrank => undo = EmptyStore /\ owed = NoDelivery
    /\ undo.next <= kv.next
    /\ owed # NoDelivery => owed.seq > undo.next

(* What is committed and not settled is in the store.                      *)
Kept ==
    \A packet \in durable :
        Settled(packet[1], packet[2]) \/ RowOf(Base, packet[1], packet[2])

StoreInv ==
    /\ StoreOrder(kv)
    /\ StoreOrder(undo)
    /\ CrankOrder
    /\ OneNumber
    /\ Kept

(* The rest relates memory to the store `k`, to `u`, which the open crank  *)
(* found, and to what waits: `waiting`, and the delivery `pending`.        *)

(* A crank only adds rows to those it found and memory still counts.       *)
Extends(k, u) ==
    \A n \in DOMAIN u.rows : n >= window.start => RowOf(k, n, u.rows[n])

HandedBelow(s) ==
    \A n \in DOMAIN s.rows :
        n >= window.start /\ n <= lastTransmittedSeq
            => <<n, s.rows[n]>> \in handed

(* A row that is still the handle's business is in both windows, and has   *)
(* been handed over or will be.                                            *)
Reached(n, msg, waiting, pending) ==
    \/ <<n, msg>> \in handed
    \/ /\ n > lastTransmittedSeq
       /\ \/ n <= window.next
          \/ n \in DOMAIN waiting
          \/ pending # NoDelivery /\ n = pending.seq

InHand(s, waiting, pending) ==
    \A n \in DOMAIN s.rows :
        \/ Settled(n, s.rows[n])
        \/ /\ n >= window.start
           /\ n >= s.start
           /\ Reached(n, s.rows[n], waiting, pending)

(* The numbers whose hand-over moves the window's start to them.           *)
Opens(n, waiting, pending) ==
    \/ n \in DOMAIN waiting /\ waiting[n]
    \/ pending # NoDelivery /\ pending.wasEmpty /\ n = pending.seq

(* The window's start moves only past what is settled ...                  *)
OpensSettled(s, waiting, pending) ==
    \A n \in 1 .. MaxMade, m \in DOMAIN s.rows :
        Opens(n, waiting, pending) /\ m < n => Settled(m, s.rows[m])

(* ... and no message is to be numbered below one that moves it.           *)
OpensLow(b, waiting, pending) ==
    \A n \in 1 .. MaxMade :
        Opens(n, waiting, pending) => n <= window.next + 1 \/ n <= b.next + 1

(* Nothing given up on is still to be handed over.                         *)
FreshAbove(s) ==
    \A n \in DOMAIN s.rows :
        n >= window.start /\ n > lastTransmittedSeq
            => s.rows[n] \notin abandoned

FreshChain ==
    \A i \in DOMAIN chain :
        ~chain[i].loop /\ ~chain[i].retired => chain[i].msg \notin abandoned

MemoryInv(k, u, b, waiting, pending) ==
    /\ window.start <= window.next + 1
    /\ lastTransmittedSeq <= window.next
    /\ Extends(k, u)
    /\ k.start > k.next => k.next <= window.next \/ k.next = b.next
    /\ HandedBelow(k) /\ HandedBelow(u)
    /\ InHand(k, waiting, pending) /\ InHand(u, waiting, pending)
    /\ OpensSettled(k, waiting, pending) /\ OpensSettled(u, waiting, pending)
    /\ OpensLow(b, waiting, pending)
    /\ FreshAbove(k) /\ FreshAbove(u)
    /\ FreshChain

Memory == MemoryInv(kv, undo, Base, awaitingTransmit, owed)

BusinessInv == StoreInv /\ Memory

LEMMA SenderNumbers ==
    ASSUME SenderTypeOK
    PROVE  /\ made \in Nat /\ MaxMade \in Nat /\ made <= MaxMade
           /\ window.start \in 0 .. made + 1 /\ window.next \in 0 .. made
           /\ lastTransmittedSeq \in 0 .. made
           /\ ackedUpTo \in 0 .. made
           /\ kv.start \in 0 .. made + 1 /\ kv.next \in 0 .. made
           /\ undo.start \in 0 .. made + 1 /\ undo.next \in 0 .. made
           /\ DOMAIN kv.rows \subseteq 1 .. made
           /\ DOMAIN undo.rows \subseteq 1 .. made
           /\ \A n \in DOMAIN kv.rows : kv.rows[n] \in 1 .. made
           /\ \A n \in DOMAIN undo.rows : undo.rows[n] \in 1 .. made
           /\ DOMAIN awaitingTransmit \subseteq 1 .. made
           /\ \A n \in DOMAIN awaitingTransmit : awaitingTransmit[n] \in BOOLEAN
           /\ owed # NoDelivery =>
                 owed.seq \in 1 .. made /\ owed.wasEmpty \in BOOLEAN
           /\ \A packet \in durable : packet[1] \in 1 .. made
                                        /\ packet[2] \in 1 .. made
           /\ abandoned \subseteq 1 .. made
<1>1. made \in 0 .. MaxMade /\ MaxMade \in Nat /\ made \in Nat
  BY SenderTyped
<1>2. window.start \in 0 .. made + 1 /\ window.next \in 0 .. made
  BY SenderTyped DEF WindowType
<1>3. lastTransmittedSeq \in 0 .. made /\ ackedUpTo \in 0 .. made
      /\ abandoned \subseteq 1 .. made
  BY DEF SenderTypeOK
<1>4. /\ kv.start \in 0 .. made + 1 /\ kv.next \in 0 .. made
      /\ undo.start \in 0 .. made + 1 /\ undo.next \in 0 .. made
  BY SenderTyped DEF StoreType
<1>5. /\ DOMAIN kv.rows \subseteq 1 .. made
      /\ DOMAIN undo.rows \subseteq 1 .. made
      /\ \A n \in DOMAIN kv.rows : kv.rows[n] \in 1 .. made
      /\ \A n \in DOMAIN undo.rows : undo.rows[n] \in 1 .. made
  BY SenderTyped, RowTyped
<1>6. /\ DOMAIN awaitingTransmit \subseteq 1 .. made
      /\ \A n \in DOMAIN awaitingTransmit : awaitingTransmit[n] \in BOOLEAN
  BY SenderTyped, WaitingAre
<1>7. owed # NoDelivery => owed.seq \in 1 .. made /\ owed.wasEmpty \in BOOLEAN
  BY DEF SenderTypeOK, OwedType
<1>8. \A packet \in durable : packet[1] \in 1 .. made /\ packet[2] \in 1 .. made
  BY DEF SenderTypeOK, PacketType
<1> QED
  BY <1>1, <1>2, <1>3, <1>4, <1>5, <1>6, <1>7, <1>8

(* A row that was there when the crank began, and is not settled, is still *)
(* there.                                                                  *)
LEMMA StillThere ==
    ASSUME SenderTypeOK, BusinessInv, NEW n, NEW msg, RowOf(undo, n, msg),
           ~Settled(n, msg)
    PROVE  RowOf(kv, n, msg) /\ n >= window.start
BY DEF BusinessInv, Memory, MemoryInv, InHand, Extends, RowOf

LEMMA KeptInStore ==
    ASSUME SenderTypeOK, BusinessInv, NEW packet \in durable,
           ~Settled(packet[1], packet[2])
    PROVE  RowOf(kv, packet[1], packet[2]) /\ RowOf(Base, packet[1], packet[2])
<1>1. RowOf(Base, packet[1], packet[2])
  BY DEF BusinessInv, StoreInv, Kept
<1>2. CASE inCrank
  BY <1>1, <1>2, StillThere DEF Base
<1>3. CASE ~inCrank
  BY <1>1, <1>3 DEF Base
<1> QED
  BY <1>1, <1>2, <1>3

LEMMA BusinessForgetsNothing ==
    ASSUME SenderTypeOK, BusinessInv
    PROVE  NothingForgotten
<1> SUFFICES ASSUME NEW packet \in durable,
                    ~(packet[1] <= ackedUpTo), packet[2] \notin abandoned
             PROVE  /\ RowOf(kv, packet[1], packet[2])
                    /\ packet[1] >= window.start
                    /\ \/ packet \in handed
                       \/ /\ packet[1] > lastTransmittedSeq
                          /\ \/ packet[1] <= window.next
                             \/ packet[1] \in DOMAIN awaitingTransmit
  BY DEF NothingForgotten, RowOf
<1> DEFINE seq == packet[1]
           msg == packet[2]
<1>1. ~Settled(seq, msg)
  BY DEF Settled
<1>2. RowOf(kv, seq, msg) /\ RowOf(Base, seq, msg)
  BY <1>1, KeptInStore
<1>3. packet = <<seq, msg>> /\ seq \in Nat
  BY SenderTyped DEF SenderTypeOK, PacketType
<1> HIDE DEF seq, msg
<1>4. seq >= window.start /\ Reached(seq, msg, awaitingTransmit, owed)
  BY <1>1, <1>2 DEF BusinessInv, Memory, MemoryInv, InHand, RowOf
<1>5. ~(owed # NoDelivery /\ seq = owed.seq)
  <2> SUFFICES ASSUME owed # NoDelivery, seq = owed.seq PROVE FALSE
    OBVIOUS
  <2>1. inCrank /\ owed.seq > undo.next
    BY DEF BusinessInv, StoreInv, CrankOrder
  <2>2. seq \in DOMAIN undo.rows
    BY <1>2, <2>1 DEF Base, RowOf
  <2>3. seq <= undo.next
    BY <2>2, SenderNumbers DEF BusinessInv, StoreInv, StoreOrder
  <2> QED
    BY <1>3, <2>1, <2>3, SenderNumbers
<1> QED
  BY <1>2, <1>3, <1>4, <1>5 DEF Reached, seq, msg

LEMMA BusinessStepsOverNothing ==
    ASSUME SenderTypeOK, BusinessInv
    PROVE  NothingSteppedOver
<1> SUFFICES ASSUME NEW seq \in DOMAIN kv.rows,
                    seq \in window.start .. lastTransmittedSeq
             PROVE  <<seq, kv.rows[seq]>> \in handed
  BY DEF NothingSteppedOver
<1>1. seq >= window.start /\ seq <= lastTransmittedSeq
  BY SenderNumbers
<1> QED
  BY <1>1 DEF BusinessInv, Memory, MemoryInv, HandedBelow

-----------------------------------------------------------------------------
(* A flush keeps memory in order.                                          *)

(* What a flush up to `stop` makes of a row of the store, or of one the    *)
(* open crank found.                                                       *)
LEMMA FlushedRow ==
    ASSUME NEW top, NEW k, NEW s, NEW waiting, NEW pending, NEW stop,
           FlushTyped(waiting, k.rows, top),
           Flushed(stop, waiting, k.rows, top),
           DOMAIN s.rows \subseteq 1 .. top,
           Extends(k, s), HandedBelow(s), InHand(s, waiting, pending),
           OpensSettled(s, waiting, pending),
           NEW n \in DOMAIN s.rows
    PROVE  /\ n >= window'.start /\ n <= lastTransmittedSeq'
                => <<n, s.rows[n]>> \in handed'
           /\ \/ Settled(n, s.rows[n])
              \/ /\ n >= window'.start
                 /\ n >= s.start
                 /\ \/ <<n, s.rows[n]>> \in handed'
                    \/ /\ n > lastTransmittedSeq'
                       /\ \/ n <= window'.next
                          \/ n \in DOMAIN awaitingTransmit'
                          \/ pending # NoDelivery /\ n = pending.seq
<1> DEFINE passed == Passed(stop, k.rows)
<1>1. /\ top \in 0 .. MaxMade /\ MaxMade \in Nat
      /\ window.start \in Int /\ window.next \in Int
      /\ lastTransmittedSeq \in Int /\ stop \in Int /\ n \in Int
      /\ n \in 1 .. MaxMade
  <2>1. top \in 0 .. MaxMade /\ MaxMade \in Nat
        /\ window \in WindowType(top) /\ lastTransmittedSeq \in 0 .. top
    BY SenderAssumption DEF FlushTyped
  <2>2. stop \in Int
    BY <2>1 DEF Flushed, IsStop
  <2>3. n \in 1 .. top
    OBVIOUS
  <2> QED
    BY <2>1, <2>2, <2>3 DEF WindowType
<1> DEFINE ws == window'.start
           wn == window'.next
<1>2. /\ ws \in Int /\ wn \in Int
      /\ ws >= window.start /\ wn >= window.next
      /\ lastTransmittedSeq' = stop - 1
      /\ IsStop(stop, waiting, k.rows)
      /\ \A m \in passed : m <= wn
      /\ handed' = handed \cup { <<m, k.rows[m]>> : m \in passed }
      /\ awaitingTransmit' =
             Without(waiting, {m \in DOMAIN waiting : m <= stop})
      /\ \/ ws = window.start
         \/ \E m \in passed \cap DOMAIN waiting : waiting[m] /\ ws = m
  <2>1. window' \in WindowType(top)
    BY DEF Flushed
  <2>2. ws \in Int /\ wn \in Int
    BY <1>1, <2>1 DEF WindowType
  <2> QED
    BY <2>2 DEF Flushed
<1>3. n >= window.start => n \in DOMAIN k.rows /\ k.rows[n] = s.rows[n]
  BY DEF Extends, RowOf
<1>4. ASSUME n >= window.start, n > lastTransmittedSeq, n < stop
      PROVE  <<n, s.rows[n]>> \in handed' /\ n \in passed
  <2>1. n \in passed
    BY <1>1, <1>3, <1>4 DEF Passed
  <2> QED
    BY <1>2, <1>3, <1>4, <2>1
<1>5. handed \subseteq handed'
  BY <1>2
<1>6. DOMAIN awaitingTransmit' = {m \in DOMAIN waiting : ~(m <= stop)}
  BY <1>2 DEF Without
<1>7. n = stop /\ n >= window.start => n \notin DOMAIN waiting /\ n > window.next
  BY <1>2, <1>3 DEF IsStop, StopsAt
<1>8. ASSUME n < ws, n >= window.start
      PROVE  Settled(n, s.rows[n])
  <2>1. PICK m \in passed \cap DOMAIN waiting : waiting[m] /\ ws = m
    BY <1>1, <1>2, <1>8
  <2>2. m \in 1 .. MaxMade
    <3>1. passed \in SUBSET (1 .. top)
      BY <1>2, PassedTyped
    <3>2. m \in 1 .. top
      BY <3>1
    <3> QED
      BY <1>1, <3>2
  <2>3. Opens(m, waiting, pending) /\ n < m
    BY <1>8, <2>1 DEF Opens
  <2> QED
    BY <2>2, <2>3 DEF OpensSettled
<1> HIDE DEF ws, wn, passed
<1>9. n >= ws /\ n <= lastTransmittedSeq' => <<n, s.rows[n]>> \in handed'
  <2> SUFFICES ASSUME n >= ws, n <= stop - 1 PROVE <<n, s.rows[n]>> \in handed'
    BY <1>2
  <2>1. n >= window.start /\ n < stop
    BY <1>1, <1>2
  <2>2. CASE n <= lastTransmittedSeq
    BY <1>5, <2>1, <2>2 DEF HandedBelow
  <2>3. CASE n > lastTransmittedSeq
    BY <1>4, <2>1, <2>3
  <2> QED
    BY <1>1, <2>2, <2>3
<1>10. ASSUME ~Settled(n, s.rows[n])
       PROVE  /\ n >= ws
              /\ n >= s.start
              /\ \/ <<n, s.rows[n]>> \in handed'
                 \/ /\ n > lastTransmittedSeq'
                    /\ \/ n <= wn
                       \/ n \in DOMAIN awaitingTransmit'
                       \/ pending # NoDelivery /\ n = pending.seq
  <2>1. n >= window.start /\ n >= s.start
        /\ Reached(n, s.rows[n], waiting, pending)
    BY <1>10 DEF InHand
  <2>2. n >= ws
    BY <1>1, <1>2, <1>8, <1>10, <2>1
  <2>3. CASE <<n, s.rows[n]>> \in handed
    BY <1>5, <2>1, <2>2, <2>3
  <2>4. CASE /\ n > lastTransmittedSeq
             /\ \/ n <= window.next
                \/ n \in DOMAIN waiting
                \/ pending # NoDelivery /\ n = pending.seq
    <3>1. CASE n < stop
      BY <1>4, <2>1, <2>2, <2>4, <3>1
    <3>2. CASE n >= stop
      <4>1. n > lastTransmittedSeq'
        BY <1>1, <1>2, <3>2
      <4>2. CASE n <= window.next
        <5>1. n <= wn
          BY <1>1, <1>2, <4>2
        <5> QED
          BY <2>1, <2>2, <4>1, <5>1
      <4>3. CASE n \in DOMAIN waiting
        <5>1. n # stop
          BY <1>7, <2>1, <4>3
        <5>2. ~(n <= stop)
          BY <1>1, <3>2, <5>1
        <5>3. n \in DOMAIN awaitingTransmit'
          BY <1>6, <4>3, <5>2
        <5> QED
          BY <2>1, <2>2, <4>1, <5>3
      <4>4. CASE pending # NoDelivery /\ n = pending.seq
        BY <2>1, <2>2, <4>1, <4>4
      <4> QED
        BY <2>4, <4>2, <4>3, <4>4
    <3> QED
      BY <1>1, <3>1, <3>2
  <2> QED
    BY <2>1, <2>3, <2>4 DEF Reached
<1> QED
  BY <1>9, <1>10 DEF ws, wn

(* Nothing is passed over by a window that ends below it.                  *)
LEMMA FlushedWindow ==
    ASSUME NEW top, NEW rows, NEW waiting, NEW stop,
           FlushTyped(waiting, rows, top),
           Flushed(stop, waiting, rows, top),
           window.start <= window.next + 1,
           lastTransmittedSeq <= window.next
    PROVE  /\ window'.start <= window'.next + 1
           /\ lastTransmittedSeq' <= window'.next
           /\ window'.start >= window.start /\ window'.next >= window.next
           /\ lastTransmittedSeq' >= lastTransmittedSeq
           /\ window'.start \in Nat /\ window'.next \in Nat
           /\ lastTransmittedSeq' \in Nat
<1> DEFINE passed == Passed(stop, rows)
           ws == window'.start
           wn == window'.next
<1>1. /\ window.start \in Nat /\ window.next \in Nat
      /\ lastTransmittedSeq \in Nat /\ ws \in Nat /\ wn \in Nat
      /\ top \in Nat
  BY SenderAssumption DEF FlushTyped, Flushed, WindowType
<1>2. IsStop(stop, waiting, rows)
  BY DEF Flushed
<1>3. /\ stop \in lastTransmittedSeq + 1 .. MaxMade + 1 /\ stop \in Int
      /\ lastTransmittedSeq' = stop - 1
      /\ ws >= window.start /\ wn >= window.next
      /\ \A n \in passed : n <= wn
      /\ ws = window.start \/ ws \in passed
  BY <1>1, <1>2, SenderAssumption DEF Flushed, IsStop
<1>4. stop - 1 <= wn
  <2>1. CASE stop = lastTransmittedSeq + 1
    BY <1>1, <1>3, <2>1
  <2>2. CASE stop # lastTransmittedSeq + 1
    <3> DEFINE m == stop - 1
    <3>1. m \in lastTransmittedSeq + 1 .. stop - 1 /\ m \in Int
      BY <1>1, <1>3, <2>2
    <3>2. ~StopsAt(m, waiting, rows)
      BY <1>2, <3>1 DEF IsStop
    <3> HIDE DEF m
    <3>3. CASE ~(m >= window.start)
      BY <1>1, <1>3, <3>1, <3>3 DEF m
    <3>4. CASE m >= window.start /\ m \in DOMAIN rows
      <4>1. m \in passed
        BY <3>1, <3>4 DEF Passed
      <4> QED
        BY <1>3, <4>1 DEF m
    <3>5. CASE m >= window.start /\ m \notin DOMAIN rows
      <4>1. ~(m > window.next)
        BY <3>2, <3>5 DEF StopsAt
      <4>2. m <= wn
        BY <1>1, <1>3, <3>1, <4>1
      <4> QED
        BY <4>2 DEF m
    <3> QED
      BY <3>3, <3>4, <3>5 DEF m
  <2> QED
    BY <2>1, <2>2
<1>5. ws <= wn + 1
  <2>1. CASE ws = window.start
    BY <1>1, <1>3, <2>1
  <2>2. CASE ws \in passed
    BY <1>1, <1>3, <2>2
  <2> QED
    BY <1>3, <2>1, <2>2
<1>6. stop - 1 \in Nat /\ stop - 1 >= lastTransmittedSeq
  BY <1>1, <1>3
<1> HIDE DEF ws, wn, passed
<1>7. lastTransmittedSeq' <= wn /\ lastTransmittedSeq' >= lastTransmittedSeq
      /\ lastTransmittedSeq' \in Nat
  BY <1>3, <1>4, <1>6
<1> QED
  BY <1>1, <1>3, <1>5, <1>7 DEF ws, wn

LEMMA FlushedChain ==
    ASSUME NEW top, NEW k, NEW waiting, NEW stop,
           FlushTyped(waiting, k.rows, top),
           Flushed(stop, waiting, k.rows, top),
           FreshAbove(k), FreshChain, abandoned' = abandoned
    PROVE  FreshChain'
<1>1. \A n \in Passed(stop, k.rows) : k.rows[n] \notin abandoned
  <2> TAKE n \in Passed(stop, k.rows)
  <2>1. n \in DOMAIN k.rows /\ n >= window.start /\ n > lastTransmittedSeq
    BY PassedTyped DEF Flushed
  <2> QED
    BY <2>1 DEF FreshAbove
<1>2. \A i \in DOMAIN chain' :
         \/ \E j \in DOMAIN chain : chain'[i] = chain[j]
         \/ \E n \in Passed(stop, k.rows) : chain'[i] = Send(n, k.rows[n], FALSE)
  BY DEF Flushed
<1> SUFFICES ASSUME NEW i \in DOMAIN chain', ~chain'[i].loop, ~chain'[i].retired
             PROVE  chain'[i].msg \notin abandoned
  BY DEF FreshChain
<1>3. CASE \E j \in DOMAIN chain : chain'[i] = chain[j]
  BY <1>3 DEF FreshChain
<1>4. CASE \E n \in Passed(stop, k.rows) : chain'[i] = Send(n, k.rows[n], FALSE)
  BY <1>1, <1>4 DEF Send
<1> QED
  BY <1>2, <1>3, <1>4

(* Memory that does not move is in order when it was in order over the     *)
(* store that the step leaves.                                             *)
LEMMA MemoryStays ==
    ASSUME NEW k, NEW u, NEW b, NEW waiting, NEW pending,
           kv' = k, undo' = u, Base' = b, owed' = pending,
           awaitingTransmit' = waiting,
           UNCHANGED <<window, lastTransmittedSeq, handed, ackedUpTo, abandoned>>,
           FreshChain',
           MemoryInv(k, u, b, waiting, pending)
    PROVE  Memory'
<1> USE DEF MemoryInv
<1>1. Extends(k, u)'
  BY DEF Extends, RowOf
<1>2. (HandedBelow(kv) /\ HandedBelow(undo))'
  BY DEF HandedBelow
<1>3. (InHand(kv, awaitingTransmit, owed) /\ InHand(undo, awaitingTransmit, owed))'
  BY DEF InHand, Settled, Reached
<1>4. (OpensSettled(kv, awaitingTransmit, owed)
        /\ OpensSettled(undo, awaitingTransmit, owed))'
  BY DEF OpensSettled, Opens, Settled
<1>5. OpensLow(Base, awaitingTransmit, owed)'
  BY DEF OpensLow, Opens
<1>6. (FreshAbove(kv) /\ FreshAbove(undo))'
  BY DEF FreshAbove
<1>7. Extends(kv, undo)'
  BY <1>1 DEF Extends, RowOf
<1> QED
  BY <1>2, <1>3, <1>4, <1>5, <1>6, <1>7 DEF Memory

LEMMA FlushKeepsMemory ==
    ASSUME NEW top, NEW k, NEW u, NEW b, NEW waiting, NEW pending, NEW timer,
           FlushTyped(waiting, k.rows, top), kv' = k,
           undo' = u, DOMAIN u.rows \subseteq 1 .. top,
           Base' = b, b.next \in Nat, k.start \in Nat, k.next \in Nat,
           owed' = pending,
           FlushTransmitQueue(waiting, k.rows, timer),
           UNCHANGED <<ackedUpTo, abandoned>>,
           MemoryInv(k, u, b, waiting, pending)
    PROVE  Memory'
<1>1. /\ window.start <= window.next + 1
      /\ lastTransmittedSeq <= window.next
      /\ Extends(k, u)
      /\ k.start > k.next => k.next <= window.next \/ k.next = b.next
      /\ HandedBelow(k) /\ HandedBelow(u)
      /\ InHand(k, waiting, pending) /\ InHand(u, waiting, pending)
      /\ OpensSettled(k, waiting, pending) /\ OpensSettled(u, waiting, pending)
      /\ OpensLow(b, waiting, pending)
      /\ FreshAbove(k) /\ FreshAbove(u)
      /\ FreshChain
  BY DEF MemoryInv
<1>2. CASE ~attached'
  <2>1. /\ awaitingTransmit' = waiting
        /\ UNCHANGED <<window, lastTransmittedSeq, chain, handed>>
    BY <1>2, FlushWaits
  <2>2. FreshChain'
    BY <1>1, <2>1 DEF FreshChain
  <2> QED
    BY <2>1, <2>2, MemoryStays
<1>3. CASE attached'
  <2>1. PICK stop : Flushed(stop, waiting, k.rows, top)
    BY <1>3, FlushIs
  <2>2. /\ window'.start <= window'.next + 1
        /\ lastTransmittedSeq' <= window'.next
        /\ window'.start >= window.start /\ window'.next >= window.next
        /\ lastTransmittedSeq' >= lastTransmittedSeq
        /\ window'.start \in Nat /\ window'.next \in Nat
        /\ lastTransmittedSeq' \in Nat
    BY <1>1, <2>1, FlushedWindow
  <2>3. /\ window.start \in Nat /\ window.next \in Nat
        /\ lastTransmittedSeq \in Nat /\ top \in 0 .. MaxMade /\ MaxMade \in Nat
    BY SenderAssumption DEF FlushTyped, WindowType
  <2>4. /\ DOMAIN awaitingTransmit' \subseteq DOMAIN waiting
        /\ \A n \in DOMAIN awaitingTransmit' : awaitingTransmit'[n] = waiting[n]
    BY <2>1 DEF Flushed, Without
  <2>5. DOMAIN k.rows \subseteq 1 .. top
    BY <2>3, RowsAre DEF FlushTyped
  <2>6. Extends(k, k)
    BY DEF Extends, RowOf
  <2>7. ASSUME NEW s \in {k, u}
        PROVE  /\ \A n \in DOMAIN s.rows :
                     n >= window'.start /\ n <= lastTransmittedSeq'
                       => <<n, s.rows[n]>> \in handed'
               /\ \A n \in DOMAIN s.rows :
                     \/ Settled(n, s.rows[n])
                     \/ /\ n >= window'.start
                        /\ n >= s.start
                        /\ \/ <<n, s.rows[n]>> \in handed'
                           \/ /\ n > lastTransmittedSeq'
                              /\ \/ n <= window'.next
                                 \/ n \in DOMAIN awaitingTransmit'
                                 \/ pending # NoDelivery /\ n = pending.seq
               /\ \A n \in DOMAIN s.rows :
                     n >= window'.start /\ n > lastTransmittedSeq'
                        => s.rows[n] \notin abandoned
    <3>1. /\ Extends(k, s) /\ HandedBelow(s) /\ InHand(s, waiting, pending)
          /\ OpensSettled(s, waiting, pending) /\ FreshAbove(s)
          /\ DOMAIN s.rows \subseteq 1 .. top
      BY <1>1, <2>5, <2>6
    <3>2. \A n \in DOMAIN s.rows :
             n >= window'.start /\ n > lastTransmittedSeq'
                => s.rows[n] \notin abandoned
      BY <2>2, <2>3, <3>1 DEF FreshAbove
    <3>3. \A n \in DOMAIN s.rows :
             /\ n >= window'.start /\ n <= lastTransmittedSeq'
                  => <<n, s.rows[n]>> \in handed'
             /\ \/ Settled(n, s.rows[n])
                \/ /\ n >= window'.start
                   /\ n >= s.start
                   /\ \/ <<n, s.rows[n]>> \in handed'
                      \/ /\ n > lastTransmittedSeq'
                         /\ \/ n <= window'.next
                            \/ n \in DOMAIN awaitingTransmit'
                            \/ pending # NoDelivery /\ n = pending.seq
      BY <2>1, <3>1, FlushedRow
    <3> QED
      BY <3>2, <3>3
  <2>8. (HandedBelow(kv) /\ HandedBelow(undo))'
    BY <2>7 DEF HandedBelow
  <2>9. (InHand(kv, awaitingTransmit, owed) /\ InHand(undo, awaitingTransmit, owed))'
    BY <2>7 DEF InHand, Settled, Reached
  <2>10. (FreshAbove(kv) /\ FreshAbove(undo))'
    BY <2>7 DEF FreshAbove
  <2>11. FreshChain'
    BY <1>1, <2>1, FlushedChain
  <2>12. Extends(kv, undo)'
    BY <1>1, <2>2, <2>3 DEF Extends, RowOf
  <2>13. \A n \in 1 .. MaxMade :
            Opens(n, awaitingTransmit, owed)' => Opens(n, waiting, pending)
    BY <2>4 DEF Opens
  <2>14. (OpensSettled(kv, awaitingTransmit, owed)
           /\ OpensSettled(undo, awaitingTransmit, owed))'
    BY <1>1, <2>13 DEF OpensSettled, Settled
  <2>15. OpensLow(Base, awaitingTransmit, owed)'
    BY <1>1, <2>2, <2>3, <2>13 DEF OpensLow
  <2>16. (kv.start > kv.next => kv.next <= window.next \/ kv.next = Base.next)'
    BY <1>1, <2>2, <2>3
  <2> QED
    BY <2>2, <2>8, <2>9, <2>10, <2>11, <2>12, <2>14, <2>15, <2>16
    DEF Memory, MemoryInv
<1> QED
  BY <1>2, <1>3

-----------------------------------------------------------------------------
(* What acknowledging and writing down do to the store.                    *)

LEMMA AcknowledgedStore ==
    ASSUME NEW top \in Nat, NEW s \in StoreType(top), NEW w \in WindowType(top),
           StoreOrder(s), w.start <= w.next + 1,
           NEW a, a = PersistAcknowledged(s, w)
    PROVE  /\ a \in StoreType(top) /\ StoreOrder(a)
           /\ a.next >= s.next /\ a.start >= s.start
           /\ a.next = s.next \/ a.next = w.start - 1
           /\ a.start = s.start \/ a.start = w.start
           /\ a = s \/ (s.start < w.start /\ a.start = w.start)
           /\ \A n \in DOMAIN a.rows : RowOf(s, n, a.rows[n])
           /\ \A n \in DOMAIN s.rows : n >= w.start => RowOf(a, n, s.rows[n])
<1>1. /\ s.start \in 0 .. top + 1 /\ s.next \in 0 .. top
      /\ w.start \in 0 .. top + 1 /\ w.next \in 0 .. top
      /\ DOMAIN s.rows \subseteq 1 .. top
      /\ DOMAIN s.rows \subseteq 1 .. s.next /\ s.start <= s.next + 1
  BY RowTyped DEF StoreType, WindowType, StoreOrder
<1>2. a \in StoreType(top)
  BY PersistAcknowledgedTyped
<1>3. CASE ~HasPending(s) \/ s.start >= w.start
  <2>1. a = s
    BY <1>3 DEF PersistAcknowledged
  <2> QED
    BY <1>1, <1>2, <2>1 DEF RowOf
<1>4. CASE ~(~HasPending(s) \/ s.start >= w.start)
  <2> DEFINE gone == {n \in s.start .. s.next : n < w.start}
             next == IF s.next < w.start - 1 THEN w.start - 1 ELSE s.next
  <2>1. a = [start |-> w.start, next |-> next, rows |-> Without(s.rows, gone)]
    BY <1>4 DEF PersistAcknowledged
  <2>2. a.start = w.start /\ a.next = next /\ a.rows = Without(s.rows, gone)
    BY <2>1
  <2>3. /\ next >= s.next
        /\ next = s.next \/ next = w.start - 1
        /\ w.start - 1 <= next /\ next \in Int /\ w.start <= next + 1
    BY <1>1
  <2>4. s.start < w.start
    BY <1>1, <1>4
  <2>5. /\ DOMAIN a.rows = DOMAIN s.rows \ gone
        /\ \A n \in DOMAIN a.rows : a.rows[n] = s.rows[n]
    BY <2>2 DEF Without
  <2>6. \A n \in DOMAIN s.rows : n >= w.start => n \notin gone
    BY <1>1
  <2> HIDE DEF gone, next
  <2>7. DOMAIN a.rows \subseteq 1 .. a.next
    <3>1. DOMAIN a.rows \subseteq 1 .. s.next
      BY <1>1, <2>5
    <3>2. a.next \in Int /\ a.next >= s.next /\ s.next \in Int
      BY <1>1, <2>2, <2>3
    <3>3. 1 .. s.next \subseteq 1 .. a.next
      BY <3>2
    <3> QED
      BY <3>1, <3>3
  <2>8. /\ \A n \in DOMAIN a.rows : RowOf(s, n, a.rows[n])
        /\ \A n \in DOMAIN s.rows : n >= w.start => RowOf(a, n, s.rows[n])
    BY <2>5, <2>6 DEF RowOf
  <2>9. /\ a.start <= a.next + 1 /\ a.next >= s.next /\ a.start >= s.start
        /\ a.next = s.next \/ a.next = w.start - 1
    BY <1>1, <2>2, <2>3, <2>4
  <2>10. StoreOrder(a)
    BY <2>7, <2>9 DEF StoreOrder
  <2> QED
    BY <1>2, <2>2, <2>4, <2>8, <2>9, <2>10
<1> QED
  BY <1>3, <1>4

LEMMA WrittenDown ==
    ASSUME NEW top \in Nat, NEW s \in StoreType(top), NEW w \in WindowType(top),
           StoreOrder(s), w.start <= w.next + 1,
           NEW k, k = Persist(s, w, top + 1), NEW p, p = Persisted(s, w)
    PROVE  /\ k \in StoreType(top + 1) /\ p \in OwedType(top + 1)
           /\ StoreOrder(k) /\ k.start <= k.next
           /\ p.seq = k.next
           /\ k.next > s.next /\ k.next > w.next
           /\ RowOf(k, k.next, top + 1)
           /\ \A n \in DOMAIN k.rows : n # k.next => RowOf(s, n, k.rows[n])
           /\ \A n \in DOMAIN s.rows : n >= w.start => RowOf(k, n, s.rows[n])
           /\ \A n \in DOMAIN s.rows : n >= w.start /\ n >= s.start
                => n >= k.start /\ ~p.wasEmpty
           /\ p.wasEmpty => \/ k.next = w.next + 1
                            \/ k.next = s.next + 1 /\ s.start > s.next
<1> DEFINE a == PersistAcknowledged(s, w)
           v == SendWindow(a, w)
           seq == v.next + 1
<1>1. /\ a \in StoreType(top) /\ StoreOrder(a)
      /\ a.next >= s.next /\ a.start >= s.start
      /\ a.next = s.next \/ a.next = w.start - 1
      /\ a.start = s.start \/ a.start = w.start
      /\ a = s \/ (s.start < w.start /\ a.start = w.start)
      /\ \A n \in DOMAIN a.rows : RowOf(s, n, a.rows[n])
      /\ \A n \in DOMAIN s.rows : n >= w.start => RowOf(a, n, s.rows[n])
  BY AcknowledgedStore
<1>2. /\ k = [start |-> IF HasPending(a) THEN a.start ELSE seq,
              next |-> seq, rows |-> With(a.rows, seq, top + 1)]
      /\ p = [seq |-> seq, wasEmpty |-> ~HasPending(v)]
  BY DEF Persist, Persisted, NextNumber
<1>3. k \in StoreType(top + 1) /\ p \in OwedType(top + 1)
  BY PersistTyped, SendWindowTyped
<1>4. v = IF w.next > a.next THEN w ELSE [start |-> a.start, next |-> a.next]
  BY DEF SendWindow, StoredWindow
<1> HIDE DEF a, v
<1>5. /\ s.start \in 0 .. top + 1 /\ s.next \in 0 .. top
      /\ w.start \in 0 .. top + 1 /\ w.next \in 0 .. top
      /\ a.start \in 0 .. top + 1 /\ a.next \in 0 .. top
      /\ DOMAIN s.rows \subseteq 1 .. s.next /\ s.start <= s.next + 1
      /\ DOMAIN a.rows \subseteq 1 .. a.next /\ a.start <= a.next + 1
  BY <1>1 DEF StoreType, WindowType, StoreOrder
<1>6. /\ v.next \in 0 .. top
      /\ v.next >= a.next /\ v.next >= w.next
      /\ v.next = w.next \/ v.next = a.next
  <2>1. CASE w.next > a.next
    BY <1>4, <1>5, <2>1
  <2>2. CASE ~(w.next > a.next)
    <3>1. v.next = a.next
      BY <1>4, <2>2
    <3> QED
      BY <1>5, <2>2, <3>1
  <2> QED
    BY <2>1, <2>2
<1>7. /\ seq \in 1 .. top + 1 /\ seq > a.next /\ seq > s.next /\ seq > w.next
      /\ seq = w.next + 1 \/ seq = a.next + 1
  BY <1>1, <1>5, <1>6
<1>8. seq = v.next + 1
  OBVIOUS
<1> HIDE DEF seq
<1>9. /\ k.start = IF HasPending(a) THEN a.start ELSE seq
      /\ k.next = seq
      /\ DOMAIN k.rows = DOMAIN a.rows \cup {seq}
      /\ k.rows[seq] = top + 1
      /\ \A n \in DOMAIN a.rows : n # seq => k.rows[n] = a.rows[n]
      /\ p.seq = seq /\ p.wasEmpty = ~HasPending(v)
  <2>1. /\ k.start = IF HasPending(a) THEN a.start ELSE seq
        /\ k.next = seq /\ k.rows = With(a.rows, seq, top + 1)
        /\ p.seq = seq /\ p.wasEmpty = ~HasPending(v)
    BY <1>2
  <2>2. /\ DOMAIN k.rows = DOMAIN a.rows \cup {seq}
        /\ k.rows[seq] = top + 1
        /\ \A n \in DOMAIN a.rows : n # seq => k.rows[n] = a.rows[n]
    BY <2>1 DEF With
  <2> QED
    BY <2>1, <2>2
<1>10. seq \notin DOMAIN a.rows /\ seq \notin DOMAIN s.rows
  BY <1>5, <1>7
<1>11. /\ RowOf(k, k.next, top + 1)
       /\ \A n \in DOMAIN k.rows : n # k.next => RowOf(s, n, k.rows[n])
       /\ \A n \in DOMAIN s.rows : n >= w.start => RowOf(k, n, s.rows[n])
  <2>1. RowOf(k, k.next, top + 1)
    BY <1>9 DEF RowOf
  <2>2. \A n \in DOMAIN k.rows : n # k.next => RowOf(s, n, k.rows[n])
    BY <1>1, <1>9 DEF RowOf
  <2>3. \A n \in DOMAIN s.rows : n >= w.start => RowOf(k, n, s.rows[n])
    BY <1>1, <1>9, <1>10 DEF RowOf
  <2> QED
    BY <2>1, <2>2, <2>3
<1>12. StoreOrder(k) /\ k.start <= k.next
  <2>1. k.start <= k.next /\ k.start \in Int
    <3>1. CASE HasPending(a)
      BY <1>5, <1>7, <1>9, <3>1 DEF HasPending
    <3>2. CASE ~HasPending(a)
      BY <1>7, <1>9, <3>2
    <3> QED
      BY <3>1, <3>2
  <2>2. DOMAIN k.rows \subseteq 1 .. k.next
    BY <1>5, <1>7, <1>9
  <2> QED
    BY <1>7, <1>9, <2>1, <2>2 DEF StoreOrder
<1>13. ASSUME NEW n \in DOMAIN s.rows, n >= w.start, n >= s.start
       PROVE  n >= k.start /\ ~p.wasEmpty
  <2>1. n \in DOMAIN a.rows
    BY <1>1, <1>13 DEF RowOf
  <2>2. n \in 1 .. a.next
    BY <1>5, <2>1
  <2>3. n >= a.start
    BY <1>1, <1>13
  <2>4. HasPending(a)
    BY <1>5, <2>2, <2>3 DEF HasPending
  <2>5. HasPending(v)
    <3>1. CASE w.next > a.next
      BY <1>4, <1>5, <1>13, <2>2, <3>1 DEF HasPending
    <3>2. CASE ~(w.next > a.next)
      BY <1>4, <2>4, <3>2 DEF HasPending
    <3> QED
      BY <3>1, <3>2
  <2> QED
    BY <1>9, <2>3, <2>4, <2>5
<1>14. ASSUME p.wasEmpty, k.next # w.next + 1
       PROVE  k.next = s.next + 1 /\ s.start > s.next
  <2>1. ~HasPending(v) /\ seq = a.next + 1 /\ v.next = a.next /\ ~(w.next > a.next)
    BY <1>4, <1>5, <1>6, <1>7, <1>8, <1>9, <1>14
  <2>2. v.start = a.start /\ v.next = a.next
    BY <1>4, <2>1
  <2>3. a.next # w.next
    BY <1>7, <1>9, <1>14, <2>1
  <2>4. a.next > w.next /\ a.next > 0 /\ a.start > a.next
    BY <1>5, <2>1, <2>2, <2>3 DEF HasPending
  <2>5. a = s
    BY <1>1, <1>5, <2>4
  <2> QED
    BY <1>9, <2>1, <2>4, <2>5
<1>15. k.next > s.next /\ k.next > w.next /\ p.seq = k.next
  BY <1>7, <1>9
<1> QED
  BY <1>3, <1>11, <1>12, <1>13, <1>14, <1>15

(* Memory is in order over a store that has one more message, once that    *)
(* message waits in its turn or for its crank.                             *)
LEMMA WrittenMemory ==
    ASSUME SenderTypeOK, BusinessInv, made < MaxMade,
           NEW k, k = Persist(kv, window, made + 1),
           NEW p, p = Persisted(kv, window),
           NEW b, b = IF inCrank THEN undo ELSE k,
           NEW waiting, NEW pending,
           DOMAIN awaitingTransmit \subseteq DOMAIN waiting,
           owed # NoDelivery => pending = owed,
           \/ k.next \in DOMAIN waiting
           \/ pending # NoDelivery /\ pending.seq = k.next,
           \A n \in 1 .. MaxMade :
              Opens(n, waiting, pending) =>
                 \/ Opens(n, awaitingTransmit, owed)
                 \/ n = k.next /\ p.wasEmpty
    PROVE  MemoryInv(k, undo, b, waiting, pending)
<1>1. /\ StoreOrder(kv) /\ StoreOrder(undo) /\ CrankOrder
      /\ window.start <= window.next + 1
      /\ lastTransmittedSeq <= window.next
      /\ Extends(kv, undo)
      /\ kv.start > kv.next => kv.next <= window.next \/ kv.next = Base.next
      /\ HandedBelow(kv) /\ HandedBelow(undo)
      /\ InHand(kv, awaitingTransmit, owed) /\ InHand(undo, awaitingTransmit, owed)
      /\ OpensSettled(kv, awaitingTransmit, owed)
      /\ OpensSettled(undo, awaitingTransmit, owed)
      /\ OpensLow(Base, awaitingTransmit, owed)
      /\ FreshAbove(kv) /\ FreshAbove(undo)
      /\ FreshChain
  BY DEF BusinessInv, StoreInv, Memory, MemoryInv
<1>2. /\ k \in StoreType(made + 1) /\ p \in OwedType(made + 1)
      /\ StoreOrder(k) /\ k.start <= k.next
      /\ p.seq = k.next
      /\ k.next > kv.next /\ k.next > window.next
      /\ RowOf(k, k.next, made + 1)
      /\ \A n \in DOMAIN k.rows : n # k.next => RowOf(kv, n, k.rows[n])
      /\ \A n \in DOMAIN kv.rows : n >= window.start => RowOf(k, n, kv.rows[n])
      /\ \A n \in DOMAIN kv.rows : n >= window.start /\ n >= kv.start
           => n >= k.start /\ ~p.wasEmpty
      /\ p.wasEmpty => \/ k.next = window.next + 1
                       \/ k.next = kv.next + 1 /\ kv.start > kv.next
  BY <1>1, SenderTyped, WrittenDown
<1>3. /\ made \in Nat /\ MaxMade \in Nat /\ made <= MaxMade
      /\ window.start \in Int /\ window.next \in Int
      /\ lastTransmittedSeq \in Int
      /\ kv.start \in Int /\ kv.next \in Int /\ undo.next \in Int
      /\ DOMAIN kv.rows \subseteq 1 .. made /\ DOMAIN undo.rows \subseteq 1 .. made
      /\ abandoned \subseteq 1 .. made
  BY SenderNumbers
<1>4. k.next \in Int /\ k.start \in Int /\ DOMAIN k.rows \subseteq 1 .. made + 1
      /\ made + 1 \in Nat
  BY <1>2, <1>3, RowTyped DEF StoreType
<1>5. k.next >= window.start /\ k.next > lastTransmittedSeq
  BY <1>1, <1>2, <1>3, <1>4
<1>6. undo.next <= kv.next
  BY <1>1 DEF CrankOrder
<1>7. Extends(k, undo)
  BY <1>1, <1>2 DEF Extends, RowOf
<1>8. HandedBelow(k)
  <2> SUFFICES ASSUME NEW n \in DOMAIN k.rows, n >= window.start,
                      n <= lastTransmittedSeq
               PROVE  <<n, k.rows[n]>> \in handed
    BY DEF HandedBelow
  <2>1. n # k.next
    BY <1>3, <1>4, <1>5
  <2> QED
    BY <1>1, <1>2, <2>1 DEF HandedBelow, RowOf
<1>9. \A n, msg : Reached(n, msg, awaitingTransmit, owed)
                    => Reached(n, msg, waiting, pending)
  BY DEF Reached
<1>10. InHand(k, waiting, pending)
  <2> SUFFICES ASSUME NEW n \in DOMAIN k.rows, ~Settled(n, k.rows[n])
               PROVE  n >= window.start /\ n >= k.start
                        /\ Reached(n, k.rows[n], waiting, pending)
    BY DEF InHand
  <2>1. CASE n = k.next
    BY <1>2, <1>4, <1>5, <2>1 DEF Reached
  <2>2. CASE n # k.next
    <3>1. n \in DOMAIN kv.rows /\ kv.rows[n] = k.rows[n]
      BY <1>2, <2>2 DEF RowOf
    <3>2. n >= window.start /\ n >= kv.start
          /\ Reached(n, k.rows[n], awaitingTransmit, owed)
      BY <1>1, <3>1 DEF InHand
    <3> QED
      BY <1>2, <1>9, <3>1, <3>2
  <2> QED
    BY <2>1, <2>2
<1>11. InHand(undo, waiting, pending)
  BY <1>1, <1>9 DEF InHand
<1>12. ASSUME NEW s, NEW m \in DOMAIN s.rows, ~Settled(m, s.rows[m]),
              RowOf(kv, m, s.rows[m]), p.wasEmpty
       PROVE  FALSE
  <2>1. m >= window.start /\ m >= kv.start
    BY <1>1, <1>12 DEF InHand, RowOf
  <2> QED
    BY <1>2, <1>12, <2>1 DEF RowOf
<1>13. OpensSettled(k, waiting, pending)
  <2> SUFFICES ASSUME NEW n \in 1 .. MaxMade, NEW m \in DOMAIN k.rows,
                      Opens(n, waiting, pending), m < n,
                      ~Settled(m, k.rows[m])
               PROVE  FALSE
    BY DEF OpensSettled
  <2>1. CASE m = k.next
    <3>1. Opens(n, awaitingTransmit, owed)
      BY <1>3, <1>4, <2>1
    <3>2. n <= window.next + 1 \/ n <= Base.next + 1
      BY <1>1, <3>1 DEF OpensLow
    <3>3. Base.next <= kv.next /\ Base.next \in Int
      BY <1>3, <1>6 DEF Base
    <3> QED
      BY <1>2, <1>3, <1>4, <2>1, <3>2, <3>3
  <2>2. CASE m # k.next
    <3>1. RowOf(kv, m, k.rows[m])
      BY <1>2, <2>2
    <3>2. CASE Opens(n, awaitingTransmit, owed)
      BY <1>1, <3>1, <3>2 DEF OpensSettled, RowOf
    <3>3. CASE p.wasEmpty
      BY <1>12, <3>1, <3>3
    <3> QED
      BY <3>2, <3>3
  <2> QED
    BY <2>1, <2>2
<1>14. OpensSettled(undo, waiting, pending)
  <2> SUFFICES ASSUME NEW n \in 1 .. MaxMade, NEW m \in DOMAIN undo.rows,
                      Opens(n, waiting, pending), m < n,
                      ~Settled(m, undo.rows[m])
               PROVE  FALSE
    BY DEF OpensSettled
  <2>1. RowOf(kv, m, undo.rows[m])
    BY StillThere DEF RowOf
  <2>2. CASE Opens(n, awaitingTransmit, owed)
    BY <1>1, <2>2 DEF OpensSettled
  <2>3. CASE p.wasEmpty
    BY <1>12, <2>1, <2>3
  <2> QED
    BY <2>2, <2>3
<1>15. OpensLow(b, waiting, pending)
  <2> SUFFICES ASSUME NEW n \in 1 .. MaxMade, Opens(n, waiting, pending)
               PROVE  n <= window.next + 1 \/ n <= b.next + 1
    BY DEF OpensLow
  <2>1. Base.next <= b.next /\ Base.next \in Int /\ b.next \in Int
    BY <1>2, <1>3, <1>4 DEF Base
  <2>2. CASE Opens(n, awaitingTransmit, owed)
    <3>1. n <= window.next + 1 \/ n <= Base.next + 1
      BY <1>1, <2>2 DEF OpensLow
    <3> QED
      BY <1>3, <2>1, <3>1
  <2>3. CASE n = k.next /\ p.wasEmpty
    <3>1. CASE inCrank
      <4>1. b = undo /\ Base = undo
        BY <3>1 DEF Base
      <4> QED
        BY <1>1, <1>2, <1>3, <1>4, <2>3, <4>1
    <3>2. CASE ~inCrank
      <4>1. b = k
        BY <3>2
      <4> QED
        BY <1>4, <2>3, <4>1
    <3> QED
      BY <3>1, <3>2
  <2> QED
    BY <2>2, <2>3
<1>16. FreshAbove(k)
  <2> SUFFICES ASSUME NEW n \in DOMAIN k.rows, n >= window.start,
                      n > lastTransmittedSeq
               PROVE  k.rows[n] \notin abandoned
    BY DEF FreshAbove
  <2>1. CASE n = k.next
    <3>1. k.rows[n] = made + 1
      BY <1>2, <2>1 DEF RowOf
    <3> QED
      BY <1>3, <3>1
  <2>2. CASE n # k.next
    BY <1>1, <1>2, <2>2 DEF FreshAbove, RowOf
  <2> QED
    BY <2>1, <2>2
<1>17. k.start > k.next => k.next <= window.next \/ k.next = b.next
  BY <1>2, <1>4
<1> QED
  BY <1>1, <1>7, <1>8, <1>10, <1>11, <1>13, <1>14, <1>15, <1>16, <1>17
  DEF MemoryInv

-----------------------------------------------------------------------------
(* The messages of a crank, and of a request.                              *)

(* Numbers stay single when the store learns nothing.                      *)
LEMMA NothingNew ==
    ASSUME OneNumber, \A n, msg : Known(n, msg)' => Known(n, msg)
    PROVE  OneNumber'
<1> SUFFICES ASSUME NEW m \in 1 .. MaxMade, NEW n \in 1 .. MaxMade,
                    NEW msg \in 1 .. MaxMade, Known(m, msg)', Known(n, msg)'
             PROVE  m = n
  BY DEF OneNumber
<1> QED
  BY DEF OneNumber

(* An empty store leaves nothing to keep in order.                         *)
LEMMA NoCrank ==
    ASSUME NEW waiting, NEW pending
    PROVE  /\ StoreOrder(EmptyStore)
           /\ EmptyStore.next = 0 /\ EmptyStore.start = 0
           /\ DOMAIN EmptyStore.rows = {}
           /\ \A s : Extends(s, EmptyStore)
           /\ HandedBelow(EmptyStore)
           /\ InHand(EmptyStore, waiting, pending)
           /\ OpensSettled(EmptyStore, waiting, pending)
           /\ FreshAbove(EmptyStore)
<1>1. DOMAIN EmptyStore.rows = {} /\ EmptyStore.next = 0 /\ EmptyStore.start = 0
  BY DEF EmptyStore, NoRows
<1> QED
  BY <1>1 DEF StoreOrder, Extends, HandedBelow, InHand, OpensSettled, FreshAbove

LEMMA BeginKeepsBusiness ==
    ASSUME SenderTypeOK, BusinessInv, BeginCrank
    PROVE  BusinessInv'
<1>1. /\ ~inCrank /\ inCrank' /\ undo' = kv
      /\ UNCHANGED <<memoryVars, kv, owed, historyVars>>
  BY DEF BeginCrank
<1>2. UNCHANGED <<window, lastTransmittedSeq, awaitingTransmit, chain, kv, owed,
                  durable, handed, ackedUpTo, abandoned>>
  BY <1>1 DEF memoryVars, historyVars
<1>3. Base' = kv /\ Base = kv /\ owed = NoDelivery
  BY <1>1 DEF Base, BusinessInv, StoreInv, CrankOrder
<1>4. \A n, msg : Known(n, msg)' => Known(n, msg)
  BY <1>1, <1>2 DEF Known, RowOf
<1>5. OneNumber'
  BY <1>4, NothingNew DEF BusinessInv, StoreInv
<1>6. Kept'
  <2>1. \A packet \in durable :
          Settled(packet[1], packet[2]) \/ RowOf(kv, packet[1], packet[2])
    BY <1>3 DEF BusinessInv, StoreInv, Kept
  <2> QED
    BY <1>2, <1>3, <2>1 DEF Kept, Settled, RowOf
<1>7. (StoreOrder(kv) /\ StoreOrder(undo) /\ CrankOrder)'
  <2>1. StoreOrder(kv) /\ kv.next <= kv.next
    BY SenderNumbers DEF BusinessInv, StoreInv
  <2> QED
    BY <1>1, <1>2, <1>3, <2>1 DEF StoreOrder, CrankOrder
<1>8. FreshChain'
  BY <1>2 DEF BusinessInv, Memory, MemoryInv, FreshChain
<1>9. MemoryInv(kv, kv, kv, awaitingTransmit, owed)
  <2>1. Extends(kv, kv)
    BY DEF Extends, RowOf
  <2> QED
    BY <1>3, <2>1 DEF BusinessInv, Memory, MemoryInv
<1>10. Memory'
  <2>1. PICK k : k = kv
    OBVIOUS
  <2>2. MemoryInv(k, k, k, awaitingTransmit, owed)
    BY <1>9, <2>1
  <2> QED
    BY <1>1, <1>2, <1>3, <1>8, <2>1, <2>2, MemoryStays
<1> QED
  BY <1>5, <1>6, <1>7, <1>10 DEF BusinessInv, StoreInv

LEMMA RollbackKeepsBusiness ==
    ASSUME SenderTypeOK, BusinessInv, RollbackCrank
    PROVE  BusinessInv'
<1>1. /\ inCrank /\ ~inCrank' /\ owed' = NoDelivery /\ undo' = EmptyStore
      /\ kv' = undo
      /\ UNCHANGED <<window, lastTransmittedSeq, awaitingTransmit, chain,
                     durable, handed, ackedUpTo, abandoned>>
  BY DEF RollbackCrank, memoryVars, historyVars
<1>2. Base' = undo /\ Base = undo
  BY <1>1 DEF Base
<1>3. DOMAIN EmptyStore.rows = {} /\ EmptyStore.next = 0
  BY NoCrank
<1>4. \A n, msg : Known(n, msg)' => Known(n, msg)
  BY <1>1, <1>3 DEF Known, RowOf
<1>5. OneNumber'
  BY <1>4, NothingNew DEF BusinessInv, StoreInv
<1>6. Kept'
  BY <1>1, <1>2 DEF BusinessInv, StoreInv, Kept, Settled, RowOf
<1>7. (StoreOrder(kv) /\ StoreOrder(undo) /\ CrankOrder)'
  <2>1. StoreOrder(undo) /\ StoreOrder(EmptyStore) /\ 0 <= undo.next
    BY NoCrank, SenderNumbers DEF BusinessInv, StoreInv
  <2> QED
    BY <1>1, <1>3, <2>1 DEF StoreOrder, CrankOrder
<1>8. FreshChain'
  BY <1>1 DEF BusinessInv, Memory, MemoryInv, FreshChain
<1>9. MemoryInv(undo, EmptyStore, undo, awaitingTransmit, NoDelivery)
  <2>1. \A n : Opens(n, awaitingTransmit, NoDelivery)
                 => Opens(n, awaitingTransmit, owed)
    BY DEF Opens
  <2>2. InHand(undo, awaitingTransmit, NoDelivery)
    <3> SUFFICES ASSUME NEW n \in DOMAIN undo.rows, ~Settled(n, undo.rows[n])
                 PROVE  n >= window.start /\ n >= undo.start
                         /\ Reached(n, undo.rows[n], awaitingTransmit, NoDelivery)
      BY DEF InHand
    <3>1. n >= window.start /\ n >= undo.start
          /\ Reached(n, undo.rows[n], awaitingTransmit, owed)
      BY DEF BusinessInv, Memory, MemoryInv, InHand
    <3>2. n <= undo.next
      BY SenderNumbers DEF BusinessInv, StoreInv, StoreOrder
    <3>3. ~(owed # NoDelivery /\ n = owed.seq)
      BY <3>2, SenderNumbers DEF BusinessInv, StoreInv, CrankOrder
    <3> QED
      BY <3>1, <3>3 DEF Reached
  <2>3. OpensSettled(undo, awaitingTransmit, NoDelivery)
    BY <2>1 DEF BusinessInv, Memory, MemoryInv, OpensSettled
  <2>4. OpensLow(undo, awaitingTransmit, NoDelivery)
    BY <1>2, <2>1 DEF BusinessInv, Memory, MemoryInv, OpensLow
  <2>5. /\ Extends(undo, EmptyStore) /\ HandedBelow(EmptyStore)
        /\ InHand(EmptyStore, awaitingTransmit, NoDelivery)
        /\ OpensSettled(EmptyStore, awaitingTransmit, NoDelivery)
        /\ FreshAbove(EmptyStore)
    BY NoCrank
  <2> QED
    BY <2>2, <2>3, <2>4, <2>5 DEF BusinessInv, Memory, MemoryInv
<1>10. Memory'
  <2>1. PICK k : k = undo
    OBVIOUS
  <2>2. MemoryInv(k, EmptyStore, k, awaitingTransmit, NoDelivery)
    BY <1>9, <2>1
  <2> QED
    BY <1>1, <1>2, <1>8, <2>1, <2>2, MemoryStays
<1> QED
  BY <1>5, <1>6, <1>7, <1>10 DEF BusinessInv, StoreInv

(* A message written down takes a number of its own.                       *)
LEMMA WrittenStore ==
    ASSUME SenderTypeOK, BusinessInv, made < MaxMade,
           kv' = Persist(kv, window, made + 1),
           UNCHANGED <<inCrank, undo, ackedUpTo, abandoned>>,
           \/ owed' = owed
           \/ inCrank /\ owed' = Persisted(kv, window),
           \/ durable' = durable
           \/ ~inCrank /\ durable' = durable \cup Queued(kv')
    PROVE  StoreInv'
<1> DEFINE p == Persisted(kv, window)
<1> PICK k : k = kv'
  OBVIOUS
<1>1. /\ StoreOrder(k)
      /\ p.seq = k.next
      /\ k.next > kv.next
      /\ RowOf(k, k.next, made + 1)
      /\ \A n \in DOMAIN k.rows : n # k.next => RowOf(kv, n, k.rows[n])
      /\ \A n \in DOMAIN kv.rows : n >= window.start => RowOf(k, n, kv.rows[n])
      /\ k \in StoreType(made + 1)
  BY SenderTyped, WrittenDown DEF BusinessInv, StoreInv, Memory, MemoryInv
<1>2. /\ made \in Nat /\ kv.next \in Int /\ undo.next \in Int
      /\ \A n \in DOMAIN kv.rows : kv.rows[n] \in 1 .. made
      /\ \A n \in DOMAIN undo.rows : undo.rows[n] \in 1 .. made
      /\ \A packet \in durable : packet[2] \in 1 .. made
  BY SenderNumbers
<1>3. k.next \in Int
  BY <1>1, <1>2 DEF StoreType
<1> HIDE DEF p
<1>4. (StoreOrder(kv) /\ StoreOrder(undo))'
  BY <1>1 DEF BusinessInv, StoreInv, StoreOrder
<1>5. CrankOrder'
  <2>1. undo.next <= kv.next /\ (~inCrank => undo = EmptyStore /\ owed = NoDelivery)
        /\ (owed # NoDelivery => owed.seq > undo.next)
    BY DEF BusinessInv, StoreInv, CrankOrder
  <2>2. undo.next <= k.next /\ k.next > undo.next
    BY <1>1, <1>2, <1>3, <2>1
  <2>3. CASE owed' = owed
    BY <2>1, <2>2, <2>3 DEF CrankOrder
  <2>4. CASE inCrank /\ owed' = p
    BY <1>1, <2>1, <2>2, <2>4 DEF CrankOrder
  <2> QED
    BY <2>3, <2>4 DEF p
<1>6. \A packet \in Queued(k) : RowOf(k, packet[1], packet[2])
  BY DEF Queued, RowOf
<1>7. \A n, msg : Known(n, msg)' => Known(n, msg) \/ (n = k.next /\ msg = made + 1)
  <2> SUFFICES ASSUME NEW n, NEW msg, Known(n, msg)'
               PROVE  Known(n, msg) \/ (n = k.next /\ msg = made + 1)
    OBVIOUS
  <2>1. RowOf(k, n, msg) => RowOf(kv, n, msg) \/ (n = k.next /\ msg = made + 1)
    BY <1>1 DEF RowOf
  <2>2. <<n, msg>> \in durable' => <<n, msg>> \in durable \/ RowOf(k, n, msg)
    <3>1. <<n, msg>> \in Queued(k) => RowOf(k, n, msg)
      BY <1>6
    <3> QED
      BY <3>1
  <2>3. <<n, msg>> \in durable' \/ RowOf(k, n, msg) \/ RowOf(undo, n, msg)
    BY DEF Known, RowOf
  <2> QED
    BY <2>1, <2>2, <2>3 DEF Known
<1>8. \A n, msg : Known(n, msg) => msg # made + 1
  <2> SUFFICES ASSUME NEW n, NEW msg, Known(n, msg) PROVE msg \in 1 .. made
    BY <1>2
  <2>1. CASE <<n, msg>> \in durable
    BY <1>2, <2>1
  <2>2. CASE RowOf(kv, n, msg)
    BY <1>2, <2>2 DEF RowOf
  <2>3. CASE RowOf(undo, n, msg)
    BY <1>2, <2>3 DEF RowOf
  <2> QED
    BY <2>1, <2>2, <2>3 DEF Known
<1>9. OneNumber'
  <2> SUFFICES ASSUME NEW m \in 1 .. MaxMade, NEW n \in 1 .. MaxMade,
                      NEW msg \in 1 .. MaxMade, Known(m, msg)', Known(n, msg)'
               PROVE  m = n
    BY DEF OneNumber
  <2>1. Known(m, msg) /\ Known(n, msg) => m = n
    BY DEF BusinessInv, StoreInv, OneNumber
  <2> QED
    BY <1>7, <1>8, <2>1
<1>10. Kept'
  <2>1. CASE inCrank
    <3>1. Base' = Base /\ durable' = durable
      BY <2>1 DEF Base
    <3> QED
      BY <3>1 DEF BusinessInv, StoreInv, Kept, Settled, RowOf
  <2>2. CASE ~inCrank
    <3>1. Base' = k /\ Base = kv
      BY <2>2 DEF Base
    <3>2. ASSUME NEW packet \in durable, ~Settled(packet[1], packet[2])
          PROVE  RowOf(k, packet[1], packet[2])
      <4>1. RowOf(kv, packet[1], packet[2])
        BY <3>2, KeptInStore
      <4>2. packet[1] >= window.start
        BY <3>2, <4>1 DEF BusinessInv, Memory, MemoryInv, InHand, RowOf
      <4> QED
        BY <1>1, <4>1, <4>2 DEF RowOf
    <3>3. \A packet \in durable' : packet \in durable \/ packet \in Queued(k)
      OBVIOUS
    <3>4. \A packet \in durable' :
             Settled(packet[1], packet[2]) \/ RowOf(k, packet[1], packet[2])
      BY <1>6, <3>2, <3>3
    <3> QED
      BY <3>1, <3>4 DEF Kept, Settled, RowOf
  <2> QED
    BY <2>1, <2>2
<1> QED
  BY <1>4, <1>5, <1>9, <1>10 DEF StoreInv

LEMMA DeliveryKeepsBusiness ==
    ASSUME SenderTypeOK, BusinessInv, NEW exempt, DeliverToPeer(exempt)
    PROVE  BusinessInv'
<1>1. /\ inCrank /\ owed = NoDelivery /\ made < MaxMade /\ made' = made + 1
      /\ kv' = Persist(kv, window, made + 1)
      /\ owed' = Persisted(kv, window)
      /\ UNCHANGED <<window, lastTransmittedSeq, awaitingTransmit, chain,
                     inCrank, undo, durable, handed, ackedUpTo, abandoned>>
  BY DEF DeliverToPeer, memoryVars
<1>2. StoreInv'
  BY <1>1, WrittenStore
<1>3. PICK k, p : k = kv' /\ p = owed'
  OBVIOUS
<1>4. p.seq = k.next /\ p \in OwedType(made + 1)
  BY <1>1, <1>3, SenderTyped, WrittenDown
  DEF BusinessInv, StoreInv, Memory, MemoryInv
<1>5. p # NoDelivery
  <2>1. p \in [seq : Nat, wasEmpty : BOOLEAN]
    BY <1>4, SenderTyped DEF OwedType
  <2> QED
    BY <2>1, SenderAssumption
<1>6. \A n \in 1 .. MaxMade :
        Opens(n, awaitingTransmit, p) =>
           \/ Opens(n, awaitingTransmit, owed)
           \/ n = k.next /\ p.wasEmpty
  BY <1>4 DEF Opens
<1>7. MemoryInv(k, undo, undo, awaitingTransmit, p)
  BY <1>1, <1>3, <1>4, <1>5, <1>6, WrittenMemory
<1>8. FreshChain'
  BY <1>1 DEF BusinessInv, Memory, MemoryInv, FreshChain
<1>9. Base' = undo
  BY <1>1 DEF Base
<1>10. Memory'
  BY <1>1, <1>3, <1>7, <1>8, <1>9, MemoryStays
<1> QED
  BY <1>2, <1>10 DEF BusinessInv

LEMMA RequestKeepsBusiness ==
    ASSUME SenderTypeOK, BusinessInv, SendRemoteCommand
    PROVE  BusinessInv'
<1>1. /\ made < MaxMade
      /\ kv' = Persist(kv, window, made + 1)
      /\ durable' = IF inCrank THEN durable ELSE durable \cup Queued(kv')
      /\ UNCHANGED <<inCrank, undo, owed, ackedUpTo, abandoned>>
      /\ Transmit(Persisted(kv, window), kv'.rows)
  BY DEF SendRemoteCommand
<1>2. StoreInv'
  BY <1>1, WrittenStore
<1>3. PICK k, p, b, waiting, pending :
         /\ k = kv' /\ p = Persisted(kv, window)
         /\ b = (IF inCrank THEN undo ELSE k)
         /\ waiting = With(awaitingTransmit, p.seq, p.wasEmpty)
         /\ pending = owed
  OBVIOUS
<1>4. p.seq = k.next /\ p \in OwedType(made + 1) /\ k \in StoreType(made + 1)
  BY <1>1, <1>3, SenderTyped, WrittenDown
  DEF BusinessInv, StoreInv, Memory, MemoryInv
<1>5. /\ made \in Nat /\ made + 1 \in 0 .. MaxMade
      /\ DOMAIN undo.rows \subseteq 1 .. made + 1
  BY <1>1, SenderNumbers
<1>6. FlushTyped(waiting, k.rows, made + 1)
  <2>1. waiting \in WaitingType(made + 1)
    BY <1>1, <1>3, <1>4, <1>5, TypesGrowTo, OneMoreWaiting DEF OwedType
  <2>2. k.rows \in RowsType(made + 1)
    BY <1>4 DEF StoreType
  <2> QED
    BY <1>1, <1>5, <2>1, <2>2, TypesGrowTo DEF FlushTyped
<1>7. /\ DOMAIN waiting = DOMAIN awaitingTransmit \cup {p.seq}
      /\ waiting[p.seq] = p.wasEmpty
      /\ \A n \in DOMAIN awaitingTransmit :
            n # p.seq => waiting[n] = awaitingTransmit[n]
  BY <1>3 DEF With
<1>8. \A n \in 1 .. MaxMade :
        Opens(n, waiting, pending) =>
           \/ Opens(n, awaitingTransmit, owed)
           \/ n = k.next /\ p.wasEmpty
  BY <1>3, <1>4, <1>7 DEF Opens
<1>9. MemoryInv(k, undo, b, waiting, pending)
  <2>1. k = Persist(kv, window, made + 1)
    BY <1>1, <1>3
  <2>2. DOMAIN awaitingTransmit \subseteq DOMAIN waiting /\ k.next \in DOMAIN waiting
    BY <1>4, <1>7
  <2> QED
    BY <1>1, <1>3, <1>8, <2>1, <2>2, WrittenMemory
<1>10. Base' = b
  BY <1>1, <1>3 DEF Base
<1>11. b.next \in Nat /\ k.start \in Nat /\ k.next \in Nat
  BY <1>3, <1>4, <1>5, SenderNumbers DEF StoreType
<1>12. FlushTransmitQueue(waiting, k.rows, ackTimer)
  BY <1>1, <1>3 DEF Transmit
<1>13. Memory'
  <2>1. PICK u : u = undo
    OBVIOUS
  <2> QED
    BY <1>1, <1>3, <1>5, <1>6, <1>9, <1>10, <1>11, <1>12, <2>1, FlushKeepsMemory
<1> QED
  BY <1>2, <1>13 DEF BusinessInv

LEMMA CommitKeepsBusiness ==
    ASSUME SenderTypeOK, BusinessInv, CommitCrank
    PROVE  BusinessInv'
<1>1. /\ inCrank /\ ~inCrank' /\ owed' = NoDelivery /\ undo' = EmptyStore
      /\ durable' = durable \cup Queued(kv)
      /\ UNCHANGED <<kv, ackedUpTo, abandoned>>
  BY DEF CommitCrank
<1>2. Base' = kv /\ Base = undo
  BY <1>1 DEF Base
<1>3. DOMAIN EmptyStore.rows = {} /\ EmptyStore.next = 0 /\ StoreOrder(EmptyStore)
  BY NoCrank
<1>4. \A packet \in Queued(kv) : RowOf(kv, packet[1], packet[2])
  BY DEF Queued, RowOf
<1>5. OneNumber'
  <2>1. \A n, msg : <<n, msg>> \in Queued(kv) => RowOf(kv, n, msg)
    BY <1>4
  <2>2. \A n, msg : Known(n, msg)' => Known(n, msg)
    BY <1>1, <1>3, <2>1 DEF Known, RowOf
  <2> QED
    BY <2>2, NothingNew DEF BusinessInv, StoreInv
<1>6. Kept'
  <2>1. \A packet \in durable :
           Settled(packet[1], packet[2]) \/ RowOf(kv, packet[1], packet[2])
    BY KeptInStore
  <2>2. \A packet \in durable' :
           Settled(packet[1], packet[2]) \/ RowOf(kv, packet[1], packet[2])
    BY <1>1, <1>4, <2>1
  <2> QED
    BY <1>1, <1>2, <2>2 DEF Kept, Settled, RowOf
<1>7. (StoreOrder(kv) /\ StoreOrder(undo) /\ CrankOrder)'
  <2>1. StoreOrder(kv) /\ 0 <= kv.next
    BY SenderNumbers DEF BusinessInv, StoreInv
  <2> QED
    BY <1>1, <1>3, <2>1 DEF StoreOrder, CrankOrder
<1>8. StoreInv'
  BY <1>5, <1>6, <1>7 DEF StoreInv
<1>9. PICK k, waiting :
         /\ k = kv
         /\ waiting = IF owed = NoDelivery THEN awaitingTransmit
                      ELSE With(awaitingTransmit, owed.seq, owed.wasEmpty)
  OBVIOUS
<1>10. /\ DOMAIN awaitingTransmit \subseteq DOMAIN waiting
       /\ owed # NoDelivery => owed.seq \in DOMAIN waiting
       /\ \A n \in DOMAIN waiting : waiting[n] =>
             Opens(n, awaitingTransmit, owed)
       /\ waiting \in WaitingType(made)
  <2>1. CASE owed = NoDelivery
    BY <1>9, <2>1, SenderTyped DEF Opens
  <2>2. CASE owed # NoDelivery
    <3>1. waiting = With(awaitingTransmit, owed.seq, owed.wasEmpty)
      BY <1>9, <2>2
    <3>2. /\ DOMAIN waiting = DOMAIN awaitingTransmit \cup {owed.seq}
          /\ waiting[owed.seq] = owed.wasEmpty
          /\ \A n \in DOMAIN awaitingTransmit :
                n # owed.seq => waiting[n] = awaitingTransmit[n]
      BY <3>1 DEF With
    <3>3. waiting \in WaitingType(made)
      BY <2>2, <3>1, SenderNumbers, SenderTyped, OneMoreWaiting
    <3> QED
      BY <2>2, <3>2, <3>3 DEF Opens
  <2> QED
    BY <2>1, <2>2
<1>11. \A n : Opens(n, waiting, NoDelivery) => Opens(n, awaitingTransmit, owed)
  BY <1>10 DEF Opens
<1>12. MemoryInv(k, EmptyStore, k, waiting, NoDelivery)
  <2>1. \A n, msg : Reached(n, msg, awaitingTransmit, owed)
                      => Reached(n, msg, waiting, NoDelivery)
    BY <1>10 DEF Reached
  <2>2. InHand(k, waiting, NoDelivery)
    BY <1>9, <2>1 DEF BusinessInv, Memory, MemoryInv, InHand
  <2>3. OpensSettled(k, waiting, NoDelivery)
    BY <1>9, <1>11 DEF BusinessInv, Memory, MemoryInv, OpensSettled
  <2>4. OpensLow(k, waiting, NoDelivery)
    <3> SUFFICES ASSUME NEW n \in 1 .. MaxMade, Opens(n, waiting, NoDelivery)
                 PROVE  n <= window.next + 1 \/ n <= k.next + 1
      BY DEF OpensLow
    <3>1. n <= window.next + 1 \/ n <= undo.next + 1
      BY <1>2, <1>11 DEF BusinessInv, Memory, MemoryInv, OpensLow
    <3>2. undo.next <= k.next
      BY <1>9 DEF BusinessInv, StoreInv, CrankOrder
    <3> QED
      BY <1>9, <3>1, <3>2, SenderNumbers
  <2>5. /\ Extends(k, EmptyStore) /\ HandedBelow(EmptyStore)
        /\ InHand(EmptyStore, waiting, NoDelivery)
        /\ OpensSettled(EmptyStore, waiting, NoDelivery)
        /\ FreshAbove(EmptyStore)
    BY NoCrank
  <2> QED
    BY <1>9, <2>2, <2>3, <2>4, <2>5 DEF BusinessInv, Memory, MemoryInv
<1>13. Memory'
  <2>1. CASE owed = NoDelivery
    <3>1. UNCHANGED <<window, lastTransmittedSeq, awaitingTransmit, chain, handed>>
      BY <2>1 DEF CommitCrank, memoryVars
    <3>2. FreshChain'
      BY <1>1, <3>1 DEF BusinessInv, Memory, MemoryInv, FreshChain
    <3> QED
      BY <1>1, <1>2, <1>9, <1>12, <2>1, <3>1, <3>2, MemoryStays
  <2>2. CASE owed # NoDelivery
    <3>1. FlushTransmitQueue(waiting, k.rows, ackTimer)
      BY <1>9, <2>2 DEF CommitCrank, Transmit
    <3>2. FlushTyped(waiting, k.rows, made)
      BY <1>9, <1>10, SenderTyped DEF FlushTyped
    <3>3. k.next \in Nat /\ k.start \in Nat
      BY <1>9, SenderNumbers
    <3>4. DOMAIN EmptyStore.rows \subseteq 1 .. made
      BY <1>3
    <3> QED
      BY <1>1, <1>2, <1>9, <1>12, <3>1, <3>2, <3>3, <3>4, FlushKeepsMemory
  <2> QED
    BY <2>1, <2>2
<1> QED
  BY <1>8, <1>13 DEF BusinessInv

LEMMA AttachKeepsBusiness ==
    ASSUME SenderTypeOK, BusinessInv, AttachTransport
    PROVE  BusinessInv'
<1>1. /\ UNCHANGED <<inCrank, kv, undo, owed, durable, ackedUpTo, abandoned>>
      /\ FlushTransmitQueue(awaitingTransmit, kv.rows, HasPending(window))
  BY DEF AttachTransport
<1>2. Base' = Base
  BY <1>1 DEF Base
<1>3. StoreInv'
  <2>1. \A n, msg : Known(n, msg)' => Known(n, msg)
    BY <1>1 DEF Known, RowOf
  <2>2. OneNumber'
    BY <2>1, NothingNew DEF BusinessInv, StoreInv
  <2> QED
    BY <1>1, <1>2, <2>2
    DEF BusinessInv, StoreInv, StoreOrder, CrankOrder, Kept, Settled, RowOf
<1>4. PICK k, u, b, waiting, pending, timer :
         /\ k = kv /\ u = undo /\ b = Base /\ waiting = awaitingTransmit
         /\ pending = owed /\ timer = HasPending(window)
  OBVIOUS
<1>5. FlushTyped(waiting, k.rows, made)
  BY <1>4, SenderTyped DEF FlushTyped
<1>6. /\ b.next \in Nat /\ k.start \in Nat /\ k.next \in Nat
      /\ DOMAIN u.rows \subseteq 1 .. made
  BY <1>4, SenderNumbers DEF Base
<1>7. MemoryInv(k, u, b, waiting, pending)
  BY <1>4 DEF BusinessInv, Memory
<1>8. Memory'
  BY <1>1, <1>2, <1>4, <1>5, <1>6, <1>7, FlushKeepsMemory
<1> QED
  BY <1>3, <1>8 DEF BusinessInv

-----------------------------------------------------------------------------
(* Acknowledgements.                                                       *)

LEMMA AcknowledgedWindow ==
    ASSUME SenderTypeOK, window.start <= window.next + 1, NEW ack \in 0 .. made,
           HandleAck(ack), NEW w, w = window'
    PROVE  /\ w \in WindowType(made)
           /\ w.next = window.next
           /\ w.start >= window.start
           /\ w.start <= w.next + 1
           /\ w.start # window.start => w.start <= ack + 1
           /\ ackedUpTo' \in Nat
           /\ ackedUpTo <= ackedUpTo'
           /\ ack <= ackedUpTo'
<1>1. /\ w = [window EXCEPT !.start =
                IF HasPending(window) /\ window.start <= ack
                THEN Min({ack, window.next}) + 1 ELSE @]
      /\ ackedUpTo' = Max({ackedUpTo, ack})
  BY DEF HandleAck
<1>2. /\ window.start \in Nat /\ window.next \in Nat /\ made \in Nat /\ ack \in Nat
      /\ ackedUpTo \in 0 .. made /\ window \in WindowType(made)
  BY SenderNumbers, SenderTyped
<1>3. w \in WindowType(made)
  BY <1>1, <1>2, AckMovesWindow
<1>4. w.next = window.next
  BY <1>1, <1>2 DEF WindowType
<1>5. /\ w.start >= window.start
      /\ w.start <= w.next + 1
      /\ w.start # window.start => w.start <= ack + 1
  <2>1. CASE HasPending(window) /\ window.start <= ack
    <3> DEFINE least == Min({ack, window.next})
    <3>1. least \in {ack, window.next} /\ least <= ack /\ least <= window.next
      BY <1>2, MinIs
    <3>2. w.start = least + 1
      BY <1>1, <1>2, <2>1 DEF WindowType
    <3> HIDE DEF least
    <3>3. window.start <= window.next
      BY <2>1 DEF HasPending
    <3>4. least \in Nat /\ least >= window.start
      BY <1>2, <2>1, <3>1, <3>3
    <3> QED
      BY <1>2, <1>4, <3>1, <3>2, <3>4
  <2>2. CASE ~(HasPending(window) /\ window.start <= ack)
    <3>1. w.start = window.start
      BY <1>1, <1>2, <2>2 DEF WindowType
    <3> QED
      BY <1>2, <1>4, <3>1
  <2> QED
    BY <2>1, <2>2
<1>6. ackedUpTo' \in Nat /\ ackedUpTo <= ackedUpTo' /\ ack <= ackedUpTo'
  <2>1. {ackedUpTo, ack} \in SUBSET (0 .. made)
    BY <1>2
  <2> DEFINE greatest == Max({ackedUpTo, ack})
  <2>2. greatest \in {ackedUpTo, ack} /\ greatest >= ackedUpTo /\ greatest >= ack
    BY <1>2, <2>1, MaxIs
  <2> HIDE DEF greatest
  <2>3. greatest \in Nat /\ ackedUpTo <= greatest /\ ack <= greatest
    BY <1>2, <2>2
  <2> QED
    BY <1>1, <2>3 DEF greatest
<1> QED
  BY <1>3, <1>4, <1>5, <1>6

LEMMA AckKeepsBusiness ==
    ASSUME SenderTypeOK, BusinessInv, NEW ack \in 0 .. made, HandleAck(ack)
    PROVE  BusinessInv'
<1> PICK w, k, b, u : w = window' /\ k = kv' /\ b = Base' /\ u = undo
  OBVIOUS
<1>1. /\ StoreOrder(kv) /\ StoreOrder(undo) /\ CrankOrder /\ OneNumber /\ Kept
      /\ window.start <= window.next + 1
      /\ lastTransmittedSeq <= window.next
      /\ Extends(kv, undo)
      /\ kv.start > kv.next => kv.next <= window.next \/ kv.next = Base.next
      /\ HandedBelow(kv) /\ HandedBelow(undo)
      /\ InHand(kv, awaitingTransmit, owed) /\ InHand(undo, awaitingTransmit, owed)
      /\ OpensSettled(kv, awaitingTransmit, owed)
      /\ OpensSettled(undo, awaitingTransmit, owed)
      /\ OpensLow(Base, awaitingTransmit, owed)
      /\ FreshAbove(kv) /\ FreshAbove(undo)
      /\ FreshChain
  BY DEF BusinessInv, StoreInv, Memory, MemoryInv
<1>2. /\ k = PersistAcknowledged(kv, w)
      /\ UNCHANGED <<lastTransmittedSeq, awaitingTransmit, chain, inCrank, undo,
                     owed, durable, handed, abandoned>>
  BY DEF HandleAck
<1>3. /\ w \in WindowType(made)
      /\ w.next = window.next
      /\ w.start >= window.start
      /\ w.start <= w.next + 1
      /\ w.start # window.start => w.start <= ack + 1
      /\ ackedUpTo' \in Nat
      /\ ackedUpTo <= ackedUpTo'
      /\ ack <= ackedUpTo'
  BY <1>1, AcknowledgedWindow
<1>4. /\ k \in StoreType(made) /\ StoreOrder(k)
      /\ k.next >= kv.next /\ k.start >= kv.start
      /\ k.next = kv.next \/ k.next = w.start - 1
      /\ k.start = kv.start \/ k.start = w.start
      /\ k = kv \/ (kv.start < w.start /\ k.start = w.start)
      /\ \A n \in DOMAIN k.rows : RowOf(kv, n, k.rows[n])
      /\ \A n \in DOMAIN kv.rows : n >= w.start => RowOf(k, n, kv.rows[n])
  BY <1>1, <1>2, <1>3, SenderTyped, AcknowledgedStore
<1>5. /\ made \in Nat /\ window.start \in Int /\ window.next \in Int
      /\ lastTransmittedSeq \in Int /\ ackedUpTo \in Int
      /\ kv.start \in Int /\ kv.next \in Int
      /\ undo.start \in Int /\ undo.next \in Int
      /\ DOMAIN kv.rows \subseteq 1 .. made /\ DOMAIN undo.rows \subseteq 1 .. made
      /\ \A packet \in durable : packet[1] \in 1 .. made
      /\ w.start \in Int /\ w.next \in Int /\ k.start \in Int /\ k.next \in Int
      /\ DOMAIN k.rows \subseteq 1 .. made
  BY <1>3, <1>4, SenderNumbers, RowTyped DEF WindowType, StoreType
<1>6. \A msg : \A n \in 1 .. made : Settled(n, msg) => Settled(n, msg)'
  BY <1>2, <1>3, <1>5 DEF Settled
<1>7. \A msg : \A n \in 1 .. made :
         n >= window.start /\ ~(n >= w.start) => Settled(n, msg)'
  BY <1>3, <1>5 DEF Settled
<1>8. Base.next <= b.next /\ Base.next \in Int /\ b.next \in Int
      /\ b = IF inCrank THEN undo ELSE k
  BY <1>2, <1>4, <1>5 DEF Base
<1>9. StoreInv'
  <2>1. (StoreOrder(kv) /\ StoreOrder(undo))'
    BY <1>1, <1>2, <1>4 DEF StoreOrder
  <2>2. CrankOrder'
    <3>1. undo.next <= k.next
      BY <1>1, <1>4, <1>5 DEF CrankOrder
    <3> QED
      BY <1>1, <1>2, <3>1 DEF CrankOrder
  <2>3. OneNumber'
    <3>1. \A n, msg : Known(n, msg)' => Known(n, msg)
      BY <1>2, <1>4 DEF Known, RowOf
    <3> QED
      BY <1>1, <3>1, NothingNew
  <2>4. Kept'
    <3> SUFFICES ASSUME NEW packet \in durable,
                        ~Settled(packet[1], packet[2])'
                 PROVE  RowOf(b, packet[1], packet[2])
      BY <1>2 DEF Kept, RowOf
    <3>1. ~Settled(packet[1], packet[2]) /\ packet[1] \in 1 .. made
      BY <1>5, <1>6
    <3>2. RowOf(kv, packet[1], packet[2]) /\ RowOf(Base, packet[1], packet[2])
      BY <3>1, KeptInStore
    <3>3. CASE inCrank
      BY <1>8, <3>2, <3>3 DEF Base
    <3>4. CASE ~inCrank
      <4>1. packet[1] >= window.start
        BY <1>1, <3>1, <3>2 DEF InHand, RowOf
      <4>2. packet[1] >= w.start
        BY <1>7, <3>1, <4>1
      <4> QED
        BY <1>4, <1>8, <3>2, <3>4, <4>2 DEF RowOf
    <3> QED
      BY <3>3, <3>4
  <2> QED
    BY <2>1, <2>2, <2>3, <2>4 DEF StoreInv
<1>10. \A n \in 1 .. made : n >= w.start => n >= window.start
  BY <1>3, <1>5
<1>11. Extends(k, undo)'
  BY <1>1, <1>2, <1>4, <1>5, <1>10 DEF Extends, RowOf
<1>12. (kv.start > kv.next => kv.next <= window.next \/ kv.next = Base.next)'
  <2>1. k.start > k.next => k.next <= w.next \/ k.next = b.next
    <3>1. CASE k = kv
      BY <1>1, <1>3, <1>8, <3>1 DEF Base
    <3>2. CASE k.start = w.start
      BY <1>3, <1>5, <3>2
    <3> QED
      BY <1>4, <3>1, <3>2
  <2> QED
    BY <2>1
<1>13. (HandedBelow(kv) /\ HandedBelow(undo))'
  <2>1. HandedBelow(k)'
    BY <1>1, <1>2, <1>4, <1>5, <1>10 DEF HandedBelow, RowOf
  <2>2. HandedBelow(undo)'
    BY <1>1, <1>2, <1>5, <1>10 DEF HandedBelow
  <2> QED
    BY <2>1, <2>2 DEF HandedBelow
<1>14. \A n, msg : Reached(n, msg, awaitingTransmit, owed)
                     => Reached(n, msg, awaitingTransmit, owed)'
  BY <1>2, <1>3 DEF Reached
<1>15. (InHand(kv, awaitingTransmit, owed) /\ InHand(undo, awaitingTransmit, owed))'
  <2>1. ASSUME NEW n \in DOMAIN k.rows, ~Settled(n, k.rows[n])'
        PROVE  n >= w.start /\ n >= k.start
                 /\ Reached(n, k.rows[n], awaitingTransmit, owed)'
    <3>1. n \in 1 .. made /\ n \in DOMAIN kv.rows /\ kv.rows[n] = k.rows[n]
      BY <1>4, <1>5 DEF RowOf
    <3>2. n >= window.start /\ n >= kv.start
          /\ Reached(n, k.rows[n], awaitingTransmit, owed)
      BY <1>1, <1>6, <2>1, <3>1 DEF InHand
    <3> QED
      BY <1>4, <1>7, <1>14, <2>1, <3>1, <3>2
  <2>2. ASSUME NEW n \in DOMAIN u.rows, ~Settled(n, u.rows[n])'
        PROVE  n >= w.start /\ n >= u.start
                 /\ Reached(n, u.rows[n], awaitingTransmit, owed)'
    <3>1. n \in 1 .. made
      BY <1>5
    <3>2. n >= window.start /\ n >= u.start
          /\ Reached(n, u.rows[n], awaitingTransmit, owed)
      BY <1>1, <1>6, <2>2, <3>1 DEF InHand
    <3> QED
      BY <1>7, <1>14, <2>2, <3>1, <3>2
  <2> QED
    BY <1>2, <2>1, <2>2 DEF InHand
<1>16. \A n : Opens(n, awaitingTransmit, owed)' => Opens(n, awaitingTransmit, owed)
  BY <1>2 DEF Opens
<1>17. (OpensSettled(kv, awaitingTransmit, owed)
         /\ OpensSettled(undo, awaitingTransmit, owed))'
  <2>1. ASSUME NEW n \in 1 .. MaxMade, NEW m \in DOMAIN k.rows,
               Opens(n, awaitingTransmit, owed)', m < n
        PROVE  Settled(m, k.rows[m])'
    <3>1. m \in 1 .. made /\ m \in DOMAIN kv.rows /\ kv.rows[m] = k.rows[m]
      BY <1>4, <1>5 DEF RowOf
    <3>2. Settled(m, k.rows[m])
      BY <1>1, <1>16, <2>1, <3>1 DEF OpensSettled
    <3> QED
      BY <1>6, <3>1, <3>2
  <2>2. ASSUME NEW n \in 1 .. MaxMade, NEW m \in DOMAIN u.rows,
               Opens(n, awaitingTransmit, owed)', m < n
        PROVE  Settled(m, u.rows[m])'
    <3>1. m \in 1 .. made
      BY <1>5
    <3>2. Settled(m, u.rows[m])
      BY <1>1, <1>16, <2>2 DEF OpensSettled
    <3> QED
      BY <1>6, <3>1, <3>2
  <2> QED
    BY <1>2, <2>1, <2>2 DEF OpensSettled
<1>18. OpensLow(Base, awaitingTransmit, owed)'
  <2> SUFFICES ASSUME NEW n \in 1 .. MaxMade, Opens(n, awaitingTransmit, owed)'
               PROVE  n <= w.next + 1 \/ n <= b.next + 1
    BY DEF OpensLow
  <2>1. n <= window.next + 1 \/ n <= Base.next + 1
    BY <1>1, <1>16 DEF OpensLow
  <2> QED
    BY <1>3, <1>5, <1>8, <2>1
<1>19. (FreshAbove(kv) /\ FreshAbove(undo) /\ FreshChain)'
  <2>1. FreshAbove(k)'
    BY <1>1, <1>2, <1>4, <1>5, <1>10 DEF FreshAbove, RowOf
  <2>2. FreshAbove(undo)'
    BY <1>1, <1>2, <1>5, <1>10 DEF FreshAbove
  <2>3. FreshChain'
    BY <1>1, <1>2 DEF FreshChain
  <2> QED
    BY <2>1, <2>2, <2>3 DEF FreshAbove
<1>20. (window.start <= window.next + 1 /\ lastTransmittedSeq <= window.next)'
  BY <1>1, <1>2, <1>3
<1>21. Extends(kv, undo)'
  BY <1>11 DEF Extends, RowOf
<1> QED
  BY <1>9, <1>12, <1>13, <1>15, <1>17, <1>18, <1>19, <1>20, <1>21
  DEF BusinessInv, Memory, MemoryInv

-----------------------------------------------------------------------------
(* Giving up, and the chain of sends.                                      *)

LEMMA RetiredIsFresh ==
    ASSUME NEW n \in Nat, NEW sends \in Seq(SendType(n)), chain' = Retired(sends)
    PROVE  FreshChain'
BY RetiredTyped DEF FreshChain

(* The store's side of a step that leaves the store alone.                 *)
LEMMA StoreStays ==
    ASSUME StoreInv, UNCHANGED <<inCrank, kv, undo, owed, durable, ackedUpTo>>,
           abandoned \subseteq abandoned'
    PROVE  StoreInv'
<1>1. \A n, msg : Known(n, msg)' => Known(n, msg)
  BY DEF Known, RowOf
<1>2. OneNumber'
  BY <1>1, NothingNew DEF StoreInv
<1>3. Base' = Base
  BY DEF Base
<1>4. Kept'
  BY <1>3 DEF StoreInv, Kept, Settled, RowOf
<1>5. (StoreOrder(kv) /\ StoreOrder(undo) /\ CrankOrder)'
  BY DEF StoreInv, StoreOrder, CrankOrder
<1> QED
  BY <1>2, <1>4, <1>5 DEF StoreInv

LEMMA ChainKeepsBusiness ==
    ASSUME SenderTypeOK, BusinessInv,
           UNCHANGED <<window, lastTransmittedSeq, awaitingTransmit, inCrank,
                       kv, undo, owed, durable, handed, ackedUpTo, abandoned>>,
           FreshChain'
    PROVE  BusinessInv'
<1>1. StoreInv'
  BY StoreStays DEF BusinessInv
<1>2. PICK k, u, b, waiting, pending :
         /\ k = kv /\ u = undo /\ b = Base /\ waiting = awaitingTransmit
         /\ pending = owed
  OBVIOUS
<1>3. MemoryInv(k, u, b, waiting, pending)
  BY <1>2 DEF BusinessInv, Memory
<1>4. Base' = b
  BY <1>2 DEF Base
<1>5. Memory'
  BY <1>2, <1>3, <1>4, MemoryStays
<1> QED
  BY <1>1, <1>5 DEF BusinessInv

LEMMA GiveUpKeepsBusiness ==
    ASSUME SenderTypeOK, BusinessInv, NEW sends \in Seq(SendType(made)),
           GiveUp(sends), UNCHANGED <<inCrank, undo, owed, durable, ackedUpTo>>
    PROVE  BusinessInv'
<1> DEFINE pending == SendWindow(kv, window)
<1>1. FreshChain' /\ UNCHANGED <<lastTransmittedSeq, awaitingTransmit, handed>>
  BY SenderTyped, RetiredIsFresh DEF GiveUp
<1>2. CASE ~HasPending(pending)
  <2>1. UNCHANGED <<window, kv, abandoned>>
    BY <1>2 DEF GiveUp
  <2> QED
    BY <1>1, <2>1, ChainKeepsBusiness
<1>3. CASE HasPending(pending)
  <2>1. /\ window' = [start |-> pending.next + 1, next |-> pending.next]
        /\ kv' = [kv EXCEPT !.start = pending.next + 1, !.next = pending.next]
        /\ abandoned' = abandoned \cup
             {kv.rows[seq] : seq \in {n \in DOMAIN kv.rows :
                           n \in pending.start .. pending.next}}
    BY <1>3 DEF GiveUp
  <2>2. pending = window \/ (pending.start = kv.start /\ pending.next = kv.next)
    BY DEF SendWindow, StoredWindow
  <2>3. pending.next >= kv.next /\ pending.next >= window.next
        /\ pending.next \in Nat /\ pending.start \in Int
    <3>1. CASE window.next > kv.next
      BY <3>1, SenderNumbers DEF SendWindow
    <3>2. CASE ~(window.next > kv.next)
      <4>1. pending.next = kv.next /\ pending.start = kv.start
        BY <3>2 DEF SendWindow, StoredWindow
      <4> QED
        BY <3>2, <4>1, SenderNumbers
    <3> QED
      BY <3>1, <3>2
  <2> HIDE DEF pending
  <2> PICK last : last = pending.next
    OBVIOUS
  <2>4. /\ window'.start = last + 1 /\ window'.next = last
        /\ kv'.start = last + 1 /\ kv'.next = last /\ kv'.rows = kv.rows
        /\ last \in Nat /\ last >= kv.next /\ last >= window.next
    BY <2>1, <2>3, SenderTyped DEF StoreType
  <2>5. /\ window.start <= window.next + 1
        /\ lastTransmittedSeq <= window.next
        /\ lastTransmittedSeq \in Int /\ window.next \in Int
        /\ kv.next \in Int /\ undo.next \in Int /\ kv.start \in Int
        /\ undo.next <= kv.next
        /\ DOMAIN kv.rows \subseteq 1 .. kv.next
        /\ DOMAIN undo.rows \subseteq 1 .. undo.next
        /\ Base.next <= kv.next /\ Base.next \in Int
    BY SenderNumbers, SMTT(60)
    DEF BusinessInv, StoreInv, StoreOrder, CrankOrder, Memory, MemoryInv, Base
  <2>6. /\ \A n \in DOMAIN kv.rows : n \in Int /\ n <= last
        /\ \A n \in DOMAIN undo.rows : n \in Int /\ n <= last
    BY <2>4, <2>5, SMTT(60)
  <2>7. \A n, msg : Settled(n, msg) => Settled(n, msg)'
    BY <2>1 DEF Settled
  <2>8. ASSUME NEW n, NEW msg, RowOf(kv, n, msg) PROVE Settled(n, msg)'
    <3>1. CASE Settled(n, msg)
      BY <2>7, <3>1
    <3>2. CASE ~Settled(n, msg)
      <4>1. n >= window.start /\ n >= kv.start /\ n \in DOMAIN kv.rows
            /\ kv.rows[n] = msg
        BY <2>8, <3>2 DEF BusinessInv, Memory, MemoryInv, InHand, RowOf
      <4>2. n \in pending.start .. pending.next
        <5>1. n \in Int /\ n <= pending.next
          BY <2>6, <4>1
        <5>2. n >= pending.start
          BY <2>2, <4>1
        <5> QED
          BY <2>3, <5>1, <5>2
      <4>3. msg \in abandoned'
        BY <2>1, <4>1, <4>2
      <4> QED
        BY <4>3 DEF Settled
    <3> QED
      BY <3>1, <3>2
  <2>9. ASSUME NEW n, NEW msg, RowOf(undo, n, msg) PROVE Settled(n, msg)'
    BY <2>7, <2>8, <2>9, StillThere
  <2>10. StoreInv'
    <3>1. (StoreOrder(kv) /\ StoreOrder(undo))'
      <4>1. DOMAIN kv'.rows \subseteq 1 .. last /\ last + 1 <= last + 1
        BY <2>4, <2>5
      <4> QED
        BY <2>4, <4>1 DEF BusinessInv, StoreInv, StoreOrder
    <3>2. CrankOrder'
      <4>1. undo.next <= last
        BY <2>4, <2>5
      <4> QED
        BY <2>4, <4>1 DEF BusinessInv, StoreInv, CrankOrder
    <3>3. OneNumber'
      <4>1. \A n, msg : Known(n, msg)' => Known(n, msg)
        BY <2>4 DEF Known, RowOf
      <4> QED
        BY <4>1, NothingNew DEF BusinessInv, StoreInv
    <3>4. Kept'
      <4>1. Base'.rows = Base.rows
        BY <2>4 DEF Base
      <4> QED
        BY <2>7, <4>1 DEF BusinessInv, StoreInv, Kept, RowOf
    <3> QED
      BY <3>1, <3>2, <3>3, <3>4 DEF StoreInv
  <2>11. Memory'
    <3>1. /\ window'.start <= window'.next + 1
          /\ lastTransmittedSeq' <= window'.next
      BY <1>1, <2>4, <2>5
    <3>2. /\ \A n \in DOMAIN kv'.rows : ~(n >= window'.start)
          /\ \A n \in DOMAIN undo'.rows : ~(n >= window'.start)
      BY <2>4, <2>6
    <3>3. (Extends(kv, undo) /\ HandedBelow(kv) /\ HandedBelow(undo)
             /\ FreshAbove(kv) /\ FreshAbove(undo))'
      BY <3>2 DEF Extends, HandedBelow, FreshAbove
    <3>4. /\ \A n \in DOMAIN kv'.rows : Settled(n, kv.rows[n])'
          /\ \A n \in DOMAIN undo'.rows : Settled(n, undo.rows[n])'
      BY <2>4, <2>8, <2>9 DEF RowOf, Settled
    <3>5. (InHand(kv, awaitingTransmit, owed)
             /\ InHand(undo, awaitingTransmit, owed))'
      BY <3>4 DEF InHand
    <3>6. (OpensSettled(kv, awaitingTransmit, owed)
             /\ OpensSettled(undo, awaitingTransmit, owed))'
      BY <3>4 DEF OpensSettled
    <3>7. \A n : Opens(n, awaitingTransmit, owed)'
                   => Opens(n, awaitingTransmit, owed)
      BY <1>1 DEF Opens
    <3>8. OpensLow(Base, awaitingTransmit, owed)'
      <4> SUFFICES ASSUME NEW n \in 1 .. MaxMade,
                          Opens(n, awaitingTransmit, owed)'
                   PROVE  n <= window'.next + 1
        BY DEF OpensLow
      <4>1. n <= window.next + 1 \/ n <= Base.next + 1
        BY <3>7 DEF BusinessInv, Memory, MemoryInv, OpensLow
      <4>2. n <= last + 1
        BY <2>4, <2>5, <4>1, SenderAssumption
      <4> QED
        BY <2>4, <4>2
    <3>9. (kv.start > kv.next => kv.next <= window.next \/ kv.next = Base.next)'
      BY <2>4
    <3> QED
      BY <1>1, <3>1, <3>3, <3>5, <3>6, <3>8, <3>9 DEF Memory, MemoryInv
  <2> QED
    BY <2>10, <2>11 DEF BusinessInv
<1> QED
  BY <1>2, <1>3

-----------------------------------------------------------------------------
(* Restarts.                                                               *)

(* What is found in a store that keeps its order is that store, less the   *)
(* rows below its start.                                                   *)
LEMMA RestartFinds ==
    ASSUME NEW top \in Nat, NEW s \in StoreType(top), StoreOrder(s),
           RestartOver(s), NEW k, k = kv'
    PROVE  /\ window'.start = s.start /\ window'.next = s.next
           /\ k.start = s.start /\ k.next = s.next
           /\ lastTransmittedSeq' = IF s.start = 0 THEN 0 ELSE s.start - 1
           /\ DOMAIN k.rows = {n \in DOMAIN s.rows : n >= s.start}
           /\ \A n \in DOMAIN k.rows : k.rows[n] = s.rows[n]
           /\ durable' = durable \cup Queued(k)
           /\ abandoned' = abandoned \ {packet[2] : packet \in Queued(k)}
<1>1. PICK known \in BOOLEAN :
        /\ known \/ (s.start = 0 /\ s.next = 0)
        /\ LET next == IF s.next + 1 \in DOMAIN s.rows THEN s.next + 1
                                                       ELSE s.next
               start == IF known \/ next = 0 THEN s.start ELSE 1
           IN  /\ window' = [start |-> start, next |-> next]
               /\ lastTransmittedSeq' = IF start = 0 THEN 0 ELSE start - 1
               /\ kv' = [start |-> start, next |-> next,
                         rows |-> Without(s.rows, 0 .. start - 1)]
               /\ durable' = durable \cup Queued(kv')
               /\ abandoned' = abandoned \ {packet[2] : packet \in Queued(kv')}
  BY DEF RestartOver
<1>2. /\ s.start \in 0 .. top + 1 /\ s.next \in 0 .. top
      /\ DOMAIN s.rows \subseteq 1 .. s.next
  BY DEF StoreType, StoreOrder
<1>3. s.next + 1 \notin DOMAIN s.rows
  BY <1>2
<1>4. known \/ s.next = 0
  BY <1>1
<1>5. /\ window' = [start |-> s.start, next |-> s.next]
      /\ lastTransmittedSeq' = IF s.start = 0 THEN 0 ELSE s.start - 1
      /\ k = [start |-> s.start, next |-> s.next,
              rows |-> Without(s.rows, 0 .. s.start - 1)]
      /\ durable' = durable \cup Queued(k)
      /\ abandoned' = abandoned \ {packet[2] : packet \in Queued(k)}
  BY <1>1, <1>3, <1>4
<1>6. /\ DOMAIN k.rows = DOMAIN s.rows \ (0 .. s.start - 1)
      /\ \A n \in DOMAIN k.rows : k.rows[n] = s.rows[n]
  BY <1>5 DEF Without
<1>7. DOMAIN s.rows \ (0 .. s.start - 1) = {n \in DOMAIN s.rows : n >= s.start}
  <2>1. \A n \in DOMAIN s.rows : n \notin 0 .. s.start - 1 <=> n >= s.start
    BY <1>2
  <2> QED
    BY <2>1
<1>8. DOMAIN k.rows = {n \in DOMAIN s.rows : n >= s.start}
  BY <1>6, <1>7
<1>9. /\ window'.start = s.start /\ window'.next = s.next
      /\ k.start = s.start /\ k.next = s.next
  BY <1>5
<1> QED
  BY <1>5, <1>6, <1>8, <1>9

LEMMA RestartKeepsBusiness ==
    ASSUME SenderTypeOK, BusinessInv, Restart
    PROVE  BusinessInv'
<1>1. PICK s \in {kv} \cup (IF inCrank THEN {undo} ELSE {}) : RestartOver(s)
  BY DEF Restart
<1>2. s = kv \/ (inCrank /\ s = undo)
  OBVIOUS
<1>3. /\ StoreOrder(s) /\ InHand(s, awaitingTransmit, owed)
      /\ s \in StoreType(made) /\ DOMAIN s.rows \subseteq 1 .. made
      /\ made \in Nat /\ MaxMade \in Nat /\ made <= MaxMade
  BY <1>2, SenderTyped, SenderNumbers
  DEF BusinessInv, StoreInv, Memory, MemoryInv
<1> PICK k : k = kv'
  OBVIOUS
<1>4. /\ window'.start = s.start /\ window'.next = s.next
      /\ k.start = s.start /\ k.next = s.next
      /\ lastTransmittedSeq' = IF s.start = 0 THEN 0 ELSE s.start - 1
      /\ DOMAIN k.rows = {n \in DOMAIN s.rows : n >= s.start}
      /\ \A n \in DOMAIN k.rows : k.rows[n] = s.rows[n]
      /\ durable' = durable \cup Queued(k)
      /\ abandoned' = abandoned \ {packet[2] : packet \in Queued(k)}
  BY <1>1, <1>3, RestartFinds
<1>5. /\ awaitingTransmit' = NoRows /\ chain' = <<>> /\ ~inCrank'
      /\ undo' = EmptyStore /\ owed' = NoDelivery
      /\ ackedUpTo' = ackedUpTo
  BY <1>1 DEF Restart, RestartOver
<1>6. /\ s.start \in Nat /\ s.next \in Nat /\ s.start <= s.next + 1
      /\ \A n \in DOMAIN s.rows : n \in Nat /\ n >= 1 /\ n <= s.next
                                    /\ n \in 1 .. MaxMade /\ s.rows[n] \in 1 .. MaxMade
  <2>1. s.start \in Nat /\ s.next \in Nat /\ s.start <= s.next + 1
        /\ DOMAIN s.rows \subseteq 1 .. s.next
    BY <1>3 DEF StoreOrder, StoreType
  <2>2. \A n \in DOMAIN s.rows : s.rows[n] \in 1 .. made
    BY <1>3, RowTyped
  <2>3. 1 .. made \subseteq 1 .. MaxMade
    BY <1>3
  <2> QED
    BY <1>3, <2>1, <2>2, <2>3
<1>7. Base' = k
  BY <1>5 DEF Base
<1>8. \A n, msg : RowOf(k, n, msg) <=> RowOf(s, n, msg) /\ n >= s.start
  BY <1>4 DEF RowOf
<1>9. \A n, msg : <<n, msg>> \in Queued(k) <=> RowOf(k, n, msg)
  <2>1. \A n \in DOMAIN k.rows : n <= k.next
    BY <1>4, <1>6
  <2> QED
    BY <2>1 DEF Queued, RowOf
<1>10. \A packet \in Queued(k) : packet = <<packet[1], packet[2]>>
  BY DEF Queued
<1>11. \A n, msg : RowOf(s, n, msg) => Known(n, msg)
  BY <1>2 DEF Known
<1>12. DOMAIN EmptyStore.rows = {} /\ EmptyStore.next = 0
       /\ StoreOrder(EmptyStore)
  BY NoCrank
<1>13. StoreInv'
  <2>1. (StoreOrder(kv) /\ StoreOrder(undo))'
    <3>1. k.start <= k.next + 1 /\ DOMAIN k.rows \subseteq 1 .. k.next
      BY <1>4, <1>6
    <3> QED
      BY <1>5, <1>12, <3>1 DEF StoreOrder
  <2>2. CrankOrder'
    BY <1>4, <1>5, <1>6, <1>12 DEF CrankOrder
  <2>3. OneNumber'
    <3>1. \A n, msg : Known(n, msg)' => Known(n, msg)
      <4> SUFFICES ASSUME NEW n, NEW msg, Known(n, msg)' PROVE Known(n, msg)
        OBVIOUS
      <4>1. CASE <<n, msg>> \in durable'
        BY <1>4, <1>8, <1>9, <1>11, <4>1 DEF Known
      <4>2. CASE RowOf(k, n, msg)
        BY <1>8, <1>11, <4>2
      <4>3. ~RowOf(undo', n, msg)
        BY <1>5, <1>12 DEF RowOf
      <4>4. <<n, msg>> \in durable' \/ RowOf(k, n, msg)
        BY <4>3 DEF Known, RowOf
      <4> QED
        BY <4>1, <4>2, <4>4
    <3> QED
      BY <3>1, NothingNew DEF BusinessInv, StoreInv
  <2>4. Kept'
    <3> SUFFICES ASSUME NEW packet \in durable',
                        ~(packet[1] <= ackedUpTo), packet[2] \notin abandoned'
                 PROVE  RowOf(k, packet[1], packet[2])
      BY <1>5, <1>7 DEF Kept, Settled, RowOf
    <3>1. CASE packet \in Queued(k)
      BY <1>9, <1>10, <3>1
    <3>2. CASE packet \in durable /\ packet[2] \in abandoned
      <4>1. PICK other \in Queued(k) : other[2] = packet[2]
        BY <1>4, <3>2
      <4>2. RowOf(k, other[1], packet[2])
        BY <1>9, <1>10, <4>1
      <4>3. RowOf(s, other[1], packet[2])
        BY <1>8, <4>2
      <4>4. Known(other[1], packet[2]) /\ Known(packet[1], packet[2])
        <5>1. packet = <<packet[1], packet[2]>>
          BY <3>2 DEF SenderTypeOK, PacketType
        <5> QED
          BY <1>11, <3>2, <4>3, <5>1 DEF Known
      <4>5. other[1] \in 1 .. MaxMade /\ packet[2] \in 1 .. MaxMade
        BY <1>6, <4>3 DEF RowOf
      <4>6. packet[1] \in 1 .. MaxMade
        <5>1. packet[1] \in 1 .. made
          BY <3>2, SenderNumbers
        <5> QED
          BY <1>3, <5>1
      <4>7. other[1] = packet[1]
        BY <4>4, <4>5, <4>6 DEF BusinessInv, StoreInv, OneNumber
      <4> QED
        BY <4>2, <4>7
    <3>3. CASE packet \in durable /\ packet[2] \notin abandoned
      <4>1. ~Settled(packet[1], packet[2])
        BY <3>3 DEF Settled
      <4>2. RowOf(kv, packet[1], packet[2]) /\ RowOf(Base, packet[1], packet[2])
        BY <3>3, <4>1, KeptInStore
      <4>3. RowOf(s, packet[1], packet[2])
        BY <1>2, <4>2 DEF Base
      <4>4. packet[1] >= s.start
        BY <1>3, <4>1, <4>3 DEF InHand, RowOf
      <4> QED
        BY <1>8, <4>3, <4>4
    <3> QED
      BY <1>4, <3>1, <3>2, <3>3
  <2> QED
    BY <2>1, <2>2, <2>3, <2>4 DEF StoreInv
<1>14. Memory'
  <2>1. /\ window'.start <= window'.next + 1
        /\ lastTransmittedSeq' <= window'.next
    BY <1>4, <1>6
  <2>2. \A n \in DOMAIN k.rows : /\ n >= s.start /\ n <= s.next
                                 /\ n > lastTransmittedSeq'
                                 /\ ~(n <= lastTransmittedSeq')
    <3> TAKE n \in DOMAIN k.rows
    <3>1. n >= s.start /\ n \in Nat /\ n >= 1 /\ n <= s.next
      BY <1>4, <1>6
    <3>2. CASE s.start = 0
      BY <1>4, <3>1, <3>2
    <3>3. CASE s.start # 0
      <4> DEFINE lts == s.start - 1
      <4>1. lastTransmittedSeq' = lts
        BY <1>4, <3>3
      <4>2. n > lts /\ ~(n <= lts)
        BY <1>6, <3>1, <3>3
      <4> HIDE DEF lts
      <4> QED
        BY <3>1, <4>1, <4>2
    <3> QED
      BY <3>2, <3>3
  <2>3. \A n, waiting, pending : n \in DOMAIN k.rows =>
            Reached(n, k.rows[n], awaitingTransmit, owed)'
    BY <1>4, <2>2 DEF Reached
  <2>4. (Extends(kv, undo) /\ HandedBelow(kv) /\ HandedBelow(undo))'
    BY <1>5, <1>12, <2>2 DEF Extends, HandedBelow
  <2>5. InHand(kv, awaitingTransmit, owed)'
    BY <1>4, <2>2, <2>3 DEF InHand
  <2>6. InHand(undo, awaitingTransmit, owed)'
    BY <1>5, <1>12 DEF InHand
  <2>7. \A n : ~Opens(n, awaitingTransmit, owed)'
    <3>1. DOMAIN NoRows = {}
      BY DEF NoRows
    <3> QED
      BY <1>5, <3>1 DEF Opens
  <2>8. (OpensSettled(kv, awaitingTransmit, owed)
          /\ OpensSettled(undo, awaitingTransmit, owed)
          /\ OpensLow(Base, awaitingTransmit, owed))'
    BY <2>7 DEF OpensSettled, OpensLow
  <2>9. FreshAbove(kv)'
    <3>1. \A n \in DOMAIN k.rows : k.rows[n] \notin abandoned'
      <4> TAKE n \in DOMAIN k.rows
      <4>1. <<n, k.rows[n]>> \in Queued(k)
        BY <1>9 DEF RowOf
      <4>2. k.rows[n] \in {packet[2] : packet \in Queued(k)}
        BY <4>1
      <4> QED
        BY <1>4, <4>2
    <3> QED
      BY <3>1 DEF FreshAbove
  <2>10. (FreshAbove(undo) /\ FreshChain)'
    BY <1>5, <1>12 DEF FreshAbove, FreshChain
  <2>11. (kv.start > kv.next => kv.next <= window.next \/ kv.next = Base.next)'
    BY <1>7
  <2> QED
    BY <2>1, <2>4, <2>5, <2>6, <2>8, <2>9, <2>10, <2>11 DEF Memory, MemoryInv
<1> QED
  BY <1>13, <1>14 DEF BusinessInv

-----------------------------------------------------------------------------
(* The steps of the chain, and all the steps together.                     *)

LEMMA BusinessInitially == SenderInit => BusinessInv
<1> SUFFICES ASSUME SenderInit PROVE BusinessInv
  OBVIOUS
<1>1. /\ window.start = 0 /\ window.next = 0 /\ lastTransmittedSeq = 0
      /\ chain = <<>> /\ ~inCrank /\ kv = EmptyStore /\ undo = EmptyStore
      /\ owed = NoDelivery /\ durable = {} /\ awaitingTransmit = NoRows
      /\ Base = EmptyStore
  BY DEF SenderInit, EmptyWindow, Base
<1>2. /\ DOMAIN EmptyStore.rows = {} /\ EmptyStore.next = 0
      /\ StoreOrder(EmptyStore) /\ EmptyStore.start = 0
      /\ DOMAIN NoRows = {} /\ DOMAIN chain = {}
  BY <1>1, NoCrank DEF EmptyStore, NoRows
<1>3. StoreInv
  BY <1>1, <1>2 DEF StoreInv, CrankOrder, OneNumber, Known, RowOf, Kept
<1>4. /\ Extends(kv, undo)
      /\ HandedBelow(kv) /\ HandedBelow(undo)
      /\ InHand(kv, awaitingTransmit, owed)
      /\ InHand(undo, awaitingTransmit, owed)
      /\ OpensSettled(kv, awaitingTransmit, owed)
      /\ OpensSettled(undo, awaitingTransmit, owed)
      /\ FreshAbove(kv) /\ FreshAbove(undo) /\ FreshChain
  BY <1>1, <1>2 DEF Extends, HandedBelow, InHand, OpensSettled, FreshAbove,
                    FreshChain
<1>5. OpensLow(Base, awaitingTransmit, owed)
  BY <1>1, <1>2 DEF OpensLow, Opens
<1>6. Memory
  BY <1>1, <1>2, <1>4, <1>5 DEF Memory, MemoryInv
<1> QED
  BY <1>3, <1>6 DEF BusinessInv

(* The sends of `sends` the flush made are of nothing given up on.         *)
FreshSends(sends) ==
    \A i \in DOMAIN sends :
        ~sends[i].loop /\ ~sends[i].retired => sends[i].msg \notin abandoned

LEMMA TailIsFresh ==
    ASSUME SenderTypeOK, chain # <<>>, FreshChain
    PROVE  /\ FreshSends(Tail(chain))
           /\ Tail(chain) \in Seq(SendType(made))
<1>1. chain \in Seq(SendType(made))
  BY SenderTyped
<1>2. /\ Tail(chain) \in Seq(SendType(made))
      /\ \A i \in DOMAIN Tail(chain) :
            i + 1 \in DOMAIN chain /\ Tail(chain)[i] = chain[i + 1]
  <2>1. Len(chain) \in Nat /\ Len(chain) # 0
    BY <1>1
  <2>2. /\ Tail(chain) \in Seq(SendType(made))
        /\ Len(Tail(chain)) = Len(chain) - 1
        /\ \A i \in 1 .. Len(Tail(chain)) : Tail(chain)[i] = chain[i + 1]
    BY <1>1
  <2>3. DOMAIN Tail(chain) = 1 .. Len(Tail(chain))
    BY <2>2
  <2>4. \A i \in 1 .. Len(chain) - 1 : i + 1 \in 1 .. Len(chain)
    BY <2>1
  <2> QED
    BY <1>1, <2>2, <2>3, <2>4
<1> QED
  BY <1>2 DEF FreshChain, FreshSends

LEMMA RetransmitIsFresh ==
    ASSUME SenderTypeOK, NEW n \in Nat, NEW sends \in Seq(SendType(made)),
           NEW timer \in BOOLEAN, RetransmitFrom(n, sends, timer),
           FreshSends(sends), UNCHANGED abandoned
    PROVE  FreshChain'
<1>1. \/ chain' = sends
      \/ \E send \in SendType(made) :
            send.loop /\ chain' = Append(sends, send)
  BY RetransmitTypes
<1>2. CASE chain' = sends
  BY <1>2 DEF FreshChain, FreshSends
<1>3. CASE \E send \in SendType(made) :
              send.loop /\ chain' = Append(sends, send)
  <2>1. PICK send \in SendType(made) :
            send.loop /\ chain' = Append(sends, send)
    BY <1>3
  <2>2. \A i \in DOMAIN chain' :
            \/ i \in DOMAIN sends /\ chain'[i] = sends[i]
            \/ chain'[i] = send
    BY <2>1
  <2> QED
    BY <2>1, <2>2 DEF FreshChain, FreshSends
<1> QED
  BY <1>1, <1>2, <1>3

LEMMA TimeoutKeepsBusiness ==
    ASSUME SenderTypeOK, BusinessInv, HandleAckTimeout
    PROVE  BusinessInv'
<1>1. UNCHANGED <<inCrank, undo, owed, durable, ackedUpTo>>
  BY DEF HandleAckTimeout
<1>2. FreshChain /\ chain \in Seq(SendType(made)) /\ window.start \in Nat
  BY SenderTyped, SenderNumbers DEF BusinessInv, Memory, MemoryInv
<1>3. CASE ~HasPending(window)
  <2>1. UNCHANGED <<window, lastTransmittedSeq, awaitingTransmit, chain, kv,
                    handed, abandoned>>
    BY <1>3 DEF HandleAckTimeout
  <2>2. FreshChain'
    BY <1>2, <2>1 DEF FreshChain
  <2> QED
    BY <1>1, <2>1, <2>2, ChainKeepsBusiness
<1>4. CASE HasPending(window) /\ RetriesSpent
  <2>1. GiveUp(chain)
    BY <1>4 DEF HandleAckTimeout
  <2> QED
    BY <1>1, <1>2, <2>1, GiveUpKeepsBusiness
<1>5. CASE HasPending(window) /\ ~RetriesSpent
  <2>1. /\ RetransmitFrom(window.start, chain, FALSE)
        /\ UNCHANGED <<window, lastTransmittedSeq, awaitingTransmit, kv,
                       handed, abandoned>>
    BY <1>5 DEF HandleAckTimeout
  <2>2. FreshSends(chain)
    BY <1>2 DEF FreshChain, FreshSends
  <2>3. FreshChain'
    BY <1>2, <2>1, <2>2, RetransmitIsFresh
  <2> QED
    BY <1>1, <2>1, <2>3, ChainKeepsBusiness
<1> QED
  BY <1>3, <1>4, <1>5

(* What follows a send whose turn is over.                                 *)
LEMMA NextRoundIsFresh ==
    ASSUME SenderTypeOK, BusinessInv, chain # <<>>, UNCHANGED abandoned,
           IF Head(chain).loop
           THEN RetransmitFrom(Head(chain).seq + 1, Tail(chain), ackTimer)
           ELSE chain' = Tail(chain) /\ UNCHANGED ackTimer
    PROVE  FreshChain'
<1>1. FreshSends(Tail(chain)) /\ Tail(chain) \in Seq(SendType(made))
  BY TailIsFresh DEF BusinessInv, Memory, MemoryInv
<1>2. CASE Head(chain).loop
  <2>1. Head(chain).seq + 1 \in Nat
    BY HeadTyped
  <2>2. ackTimer \in BOOLEAN
    BY DEF SenderTypeOK
  <2> QED
    BY <1>1, <1>2, <2>1, <2>2, RetransmitIsFresh
<1>3. CASE ~Head(chain).loop
  BY <1>1, <1>3 DEF FreshSends, FreshChain
<1> QED
  BY <1>2, <1>3

LEMMA StartKeepsBusiness ==
    ASSUME SenderTypeOK, BusinessInv, StartSend
    PROVE  BusinessInv'
<1>1. /\ chain # <<>>
      /\ UNCHANGED <<window, lastTransmittedSeq, awaitingTransmit, inCrank,
                     kv, undo, owed, durable, handed, ackedUpTo, abandoned>>
  BY DEF StartSend, historyVars
<1>2. FreshChain'
  <2>1. CASE Head(chain).retired
    BY <1>1, <2>1, NextRoundIsFresh DEF StartSend
  <2>2. CASE ~Head(chain).retired
    BY <1>1, <2>2 DEF StartSend, BusinessInv, Memory, MemoryInv, FreshChain
  <2> QED
    BY <2>1, <2>2
<1> QED
  BY <1>1, <1>2, ChainKeepsBusiness

LEMMA EndKeepsBusiness ==
    ASSUME SenderTypeOK, BusinessInv, writing, SendIsOver
    PROVE  BusinessInv'
<1>1. chain # <<>>
  BY DEF SenderTypeOK
<1>2. UNCHANGED <<window, lastTransmittedSeq, awaitingTransmit, inCrank,
                  kv, undo, owed, durable, handed, ackedUpTo, abandoned>>
  BY DEF SendIsOver
<1>3. FreshChain'
  BY <1>1, <1>2, NextRoundIsFresh DEF SendIsOver
<1> QED
  BY <1>2, <1>3, ChainKeepsBusiness

LEMMA FailForGoodKeepsBusiness ==
    ASSUME SenderTypeOK, BusinessInv, SendFailsForGood
    PROVE  BusinessInv'
<1>1. chain # <<>>
  BY DEF SenderTypeOK, SendFailsForGood
<1>2. Tail(chain) \in Seq(SendType(made))
  BY <1>1, TailIsFresh DEF BusinessInv, Memory, MemoryInv
<1> QED
  BY <1>2, GiveUpKeepsBusiness DEF SendFailsForGood

(* Every step keeps the invariant.                                         *)
LEMMA NextKeepsBusiness ==
    ASSUME SenderTypeOK, BusinessInv, [SenderNext]_senderVars
    PROVE  BusinessInv'
<1>1. CASE BeginCrank
  BY <1>1, BeginKeepsBusiness
<1>2. CASE \E exempt \in BOOLEAN : DeliverToPeer(exempt)
  BY <1>2, DeliveryKeepsBusiness
<1>3. CASE SendRemoteCommand
  BY <1>3, RequestKeepsBusiness
<1>4. CASE CommitCrank
  BY <1>4, CommitKeepsBusiness
<1>5. CASE RollbackCrank
  BY <1>5, RollbackKeepsBusiness
<1>6. CASE HandleAckTimeout
  BY <1>6, TimeoutKeepsBusiness
<1>7. CASE TransportGivesUp
  BY <1>7, SenderTyped, GiveUpKeepsBusiness DEF TransportGivesUp
<1>8. CASE StartSend
  BY <1>8, StartKeepsBusiness
<1>9. CASE SendFails \/ WriteMessage
  BY <1>9, EndKeepsBusiness DEF SendFails, WriteMessage
<1>10. CASE SendFailsForGood
  BY <1>10, FailForGoodKeepsBusiness
<1>11. CASE AttachTransport
  BY <1>11, AttachKeepsBusiness
<1>12. CASE Restart
  BY <1>12, RestartKeepsBusiness
<1>13. CASE \E packet \in wired : HandleAck(packet[1])
  <2>1. PICK packet \in wired : HandleAck(packet[1])
    BY <1>13
  <2>2. packet[1] \in 0 .. made
    BY <2>1 DEF SenderTypeOK, PacketType
  <2> QED
    BY <2>1, <2>2, AckKeepsBusiness
<1>14. CASE UNCHANGED senderVars
  <2>1. UNCHANGED <<window, lastTransmittedSeq, awaitingTransmit, inCrank,
                    kv, undo, owed, durable, handed, ackedUpTo, abandoned>>
    BY <1>14 DEF senderVars
  <2>2. FreshChain'
    BY <1>14 DEF senderVars, BusinessInv, Memory, MemoryInv, FreshChain
  <2> QED
    BY <2>1, <2>2, ChainKeepsBusiness
<1> QED
  BY <1>1, <1>2, <1>3, <1>4, <1>5, <1>6, <1>7, <1>8, <1>9, <1>10, <1>11,
     <1>12, <1>13, <1>14
  DEF SenderNext, SenderStep

(* A message the store has committed stays the handle's business until it  *)
(* is acknowledged or given up on: no crank rolled back under a request,   *)
(* late flush, repeated acknowledgement or restart drops its row, its      *)
(* place in the queue or its turn to be handed over (RemoteHandle's        *)
(* #persistRemoteCommand, #flushTransmitQueue, #persistAcknowledged and    *)
(* #restorePersistedState).  The kernel may die in a transaction or between *)
(* two of them.                                                            *)
THEOREM BusinessIsNotForgotten == SenderSpec => []NothingForgotten
<1>1. SenderInit => SenderTypeOK /\ BusinessInv
  BY SenderTypedInitially, BusinessInitially
<1>2. SenderTypeOK /\ BusinessInv /\ [SenderNext]_senderVars
        => (SenderTypeOK /\ BusinessInv)'
  BY NextSenderTyped, NextKeepsBusiness DEF AnySenderStep
<1>3. SenderTypeOK /\ BusinessInv => NothingForgotten
  BY BusinessForgetsNothing
<1> QED
  BY <1>1, <1>2, <1>3, PTL DEF SenderSpec

(* The hand-over leaves no message behind (#flushTransmitQueue): a row in  *)
(* the queue at or below the watermark has been given to the transport.    *)
THEOREM HandOverLeavesNoneBehind == SenderSpec => []NothingSteppedOver
<1>1. SenderInit => SenderTypeOK /\ BusinessInv
  BY SenderTypedInitially, BusinessInitially
<1>2. SenderTypeOK /\ BusinessInv /\ [SenderNext]_senderVars
        => (SenderTypeOK /\ BusinessInv)'
  BY NextSenderTyped, NextKeepsBusiness DEF AnySenderStep
<1>3. SenderTypeOK /\ BusinessInv => NothingSteppedOver
  BY BusinessStepsOverNothing
<1> QED
  BY <1>1, <1>2, <1>3, PTL DEF SenderSpec

(* Only the send at the head of the chain starts, and it is not retired.   *)
LEMMA OnlyFreshSendsStart ==
    ASSUME SenderTypeOK, BusinessInv, [SenderNext]_senderVars,
           writing', ~writing, ~Head(chain).loop
    PROVE  Head(chain).msg \notin abandoned
<1>1. StartSend
  BY ZenonT(60) DEF SenderNext, SenderStep, senderVars, BeginCrank, DeliverToPeer,
         SendRemoteCommand, CommitCrank, RollbackCrank, HandleAckTimeout,
         TransportGivesUp, SendFails, SendFailsForGood, AttachTransport,
         Restart, WriteMessage, HandleAck, RestartOver
<1>2. chain # <<>> /\ ~Head(chain).retired
  BY <1>1 DEF StartSend
<1>3. 1 \in DOMAIN chain /\ Head(chain) = chain[1]
  BY <1>2, SenderTyped
<1> QED
  BY <1>2, <1>3 DEF BusinessInv, Memory, MemoryInv, FreshChain

(* A send the flush queued never starts once its message has been given    *)
(* up on: what #rejectAllPending retires while it waits is let go of, and  *)
(* what is handed over afterwards is new (#sendInOrder).                   *)
THEOREM FlushSendsNothingGivenUp == SenderSpec => FlushSendsNothingAbandoned
<1>1. SenderInit => SenderTypeOK /\ BusinessInv
  BY SenderTypedInitially, BusinessInitially
<1>2. SenderTypeOK /\ BusinessInv /\ [SenderNext]_senderVars
        => (SenderTypeOK /\ BusinessInv)'
  BY NextSenderTyped, NextKeepsBusiness DEF AnySenderStep
<1>3. SenderTypeOK /\ BusinessInv /\ [SenderNext]_senderVars
        => [writing' /\ ~writing /\ ~Head(chain).loop
               => Head(chain).msg \notin abandoned]_senderVars
  BY OnlyFreshSendsStart
<1> QED
  BY <1>1, <1>2, <1>3, PTL DEF SenderSpec, FlushSendsNothingAbandoned

(***************************************************************************)
(* The receiving half.                                                     *)
(***************************************************************************)

(* Every step keeps the types.                                             *)
LEMMA NextReceiverTyped ==
    ASSUME ReceiverTypeOK, [ReceiverNext]_receiverVars
    PROVE  ReceiverTypeOK'
<1> USE SeqsAssumption, NoArrivalAssumption
<1> USE DEF ReceiverTypeOK, ReceiptsType
<1>1. ASSUME NEW packet \in Packets, ReceiveFromPeer(packet)
      PROVE  ReceiverTypeOK'
  BY <1>1 DEF ReceiveFromPeer
<1>2. CASE TakeArrival
  BY <1>2 DEF TakeArrival
<1>3. CASE ReceiveInbound
  <2>1. inbound \in Packets /\ inbound.seq \in Nat
    BY <1>3 DEF ReceiveInbound, Packets
  <2>2. store' \in [highest : Nat, log : Seq(Packets)]
    BY <1>3, <2>1 DEF ReceiveInbound
  <2> QED
    BY <1>3, <2>2 DEF ReceiveInbound
<1>4. CASE CommitInbound
  BY <1>4 DEF CommitInbound, Packets
<1>5. CASE DiscardInbound
  BY <1>5 DEF DiscardInbound
<1>6. CASE SendStandaloneAck
  BY <1>6 DEF SendStandaloneAck
<1>7. ASSUME NEW receipt \in Seqs, PiggybackAck(receipt)
      PROVE  ReceiverTypeOK'
  BY <1>7 DEF PiggybackAck
<1>8. CASE RestartReceiver
  <2>1. committed' = committed \/ committed' = store
    BY <1>8 DEF RestartReceiver
  <2>2. committed' \in ReceiptsType /\ committed'.highest \in Nat
    BY <2>1
  <2>3. <<>> \in Seq(Packets)
    OBVIOUS
  <2> QED
    BY <1>8, <2>2, <2>3 DEF RestartReceiver
<1>9. CASE UNCHANGED receiverVars
  BY <1>9 DEF receiverVars
<1> QED
  BY <1>1, <1>2, <1>3, <1>4, <1>5, <1>6, <1>7, <1>8, <1>9
  DEF ReceiverNext, ReceiverStep

LEMMA ReceiverStarts == ReceiverInit => ReceiverTypeOK /\ ReceiverInv
<1> SUFFICES ASSUME ReceiverInit PROVE ReceiverTypeOK /\ ReceiverInv
  OBVIOUS
<1>1. ReceiverTypeOK
  <2>1. EmptyReceipts \in ReceiptsType
    BY DEF ReceiptsType, EmptyReceipts
  <2>2. arrivals \in Seq(Packets)
    BY DEF ReceiverInit
  <2>3. store \in ReceiptsType /\ committed \in ReceiptsType
    BY <2>1 DEF ReceiverInit
  <2>4. inbound \in Packets \cup {NoArrival}
    BY DEF ReceiverInit
  <2> QED
    BY <2>2, <2>3, <2>4 DEF ReceiverInit, ReceiverTypeOK
<1>2. ReceiverInv
  BY DEF ReceiverInit, ReceiverInv, EmptyReceipts, LogMatches, TakenInOrder
<1> QED
  BY <1>1, <1>2

(* The receiver's state ranges over the values it is meant to.             *)
THEOREM ReceiverTypeCorrect == ReceiverSpec => []ReceiverTypeOK
<1>1. ReceiverInit => ReceiverTypeOK
  BY ReceiverStarts
<1>2. ReceiverTypeOK /\ [ReceiverNext]_receiverVars => ReceiverTypeOK'
  BY NextReceiverTyped
<1> QED
  BY <1>1, <1>2, PTL DEF ReceiverSpec

(* Adding a message later than all before it keeps a log in order.         *)
LEMMA LogGrows ==
    ASSUME NEW receipts \in ReceiptsType, LogMatches(receipts),
           NEW packet \in Packets, packet.seq > receipts.highest,
           NEW grown, grown = [highest |-> packet.seq,
                               log |-> Append(receipts.log, packet)]
    PROVE  LogMatches(grown)
<1> DEFINE log == receipts.log
           longer == Append(log, packet)
<1>1. /\ log \in Seq(Packets)
      /\ Len(longer) = Len(log) + 1
      /\ longer[Len(longer)] = packet
      /\ \A i \in 1 .. Len(log) : longer[i] = log[i]
      /\ DOMAIN longer = 1 .. Len(longer)
      /\ DOMAIN log = 1 .. Len(log)
      /\ Len(log) \in Nat
      /\ longer # <<>>
  BY DEF ReceiptsType
<1>2. \A i \in 1 .. Len(log) : log[i].seq \in Nat /\ log[i].seq <= receipts.highest
  <2> SUFFICES ASSUME NEW i \in 1 .. Len(log)
               PROVE  log[i].seq \in Nat /\ log[i].seq <= receipts.highest
    OBVIOUS
  <2>1. log[i] \in Packets /\ log[Len(log)] \in Packets
    BY <1>1
  <2>2. log[i].seq \in Nat /\ log[Len(log)].seq \in Nat
    BY <2>1, SeqsAssumption DEF Packets
  <2>3. receipts.highest = log[Len(log)].seq
    BY <1>1 DEF LogMatches
  <2>4. i < Len(log) => log[i].seq < log[Len(log)].seq
    BY <1>1, SMTT(60) DEF LogMatches, TakenInOrder
  <2>5. i = Len(log) \/ i < Len(log)
    BY <1>1
  <2> QED
    BY <2>2, <2>3, <2>4, <2>5
<1>3. packet.seq \in Nat /\ receipts.highest \in Nat
  BY SeqsAssumption DEF Packets, ReceiptsType
<1>4. TakenInOrder(longer)
  <2> SUFFICES ASSUME NEW i \in 1 .. Len(log) + 1, NEW j \in 1 .. Len(log) + 1,
                      i < j
               PROVE  longer[i].seq < longer[j].seq
    BY <1>1 DEF TakenInOrder
  <2>1. i \in 1 .. Len(log) /\ longer[i] = log[i]
    BY <1>1
  <2>2. CASE j = Len(log) + 1
    BY <2>1, <2>2, <1>1, <1>2, <1>3
  <2>3. CASE j # Len(log) + 1
    <3>1. j \in 1 .. Len(log) /\ longer[j] = log[j]
      BY <2>3, <1>1
    <3> QED
      BY <2>1, <3>1, <1>1 DEF LogMatches, TakenInOrder
  <2> QED
    BY <2>2, <2>3
<1> QED
  BY <1>1, <1>4 DEF LogMatches

(* Every step keeps the invariant.                                         *)
LEMMA NextReceiverKept ==
    ASSUME ReceiverTypeOK, ReceiverTypeOK', ReceiverInv,
           [ReceiverNext]_receiverVars
    PROVE  ReceiverInv'
<1> USE DEF ReceiverInv
<1>1. ASSUME NEW packet \in Packets, ReceiveFromPeer(packet)
      PROVE  ReceiverInv'
  BY <1>1 DEF ReceiveFromPeer, LogMatches, TakenInOrder
<1>2. CASE TakeArrival
  <2>1. Head(arrivals) \in Packets
    BY <1>2 DEF TakeArrival, ReceiverTypeOK
  <2>2. Head(arrivals).seq \in Nat /\ highestReceivedSeq \in Nat
    BY <2>1, SeqsAssumption DEF Packets, ReceiverTypeOK
  <2>3. inbound' # NoArrival => inbound'.seq > committed'.highest
    BY <1>2, <2>2 DEF TakeArrival
  <2>4. ~recorded /\ ~recorded'
    BY <1>2 DEF TakeArrival, ReceiverTypeOK
  <2>5. LogMatches(committed)'
    BY <1>2 DEF TakeArrival, LogMatches, TakenInOrder
  <2> QED
    BY <1>2, <2>3, <2>4, <2>5 DEF TakeArrival
<1>3. CASE ReceiveInbound
  <2>1. LogMatches(committed)'
    BY <1>3 DEF ReceiveInbound, LogMatches, TakenInOrder
  <2> QED
    BY <1>3, <2>1 DEF ReceiveInbound
<1>4. CASE CommitInbound
  <2>1. /\ inbound \in Packets
        /\ inbound.seq > committed.highest
        /\ committed' = [highest |-> inbound.seq,
                         log |-> Append(committed.log, inbound)]
    BY <1>4 DEF CommitInbound, ReceiverTypeOK
  <2>2. committed'.highest = inbound.seq
    BY <2>1
  <2>3. LogMatches(committed')
    <3>1. committed \in ReceiptsType
      BY DEF ReceiverTypeOK
    <3> QED
      BY <2>1, <3>1, LogGrows
  <2>4. LogMatches(committed)'
    BY <2>3 DEF LogMatches, TakenInOrder
  <2>5. inbound.seq \in Nat /\ committed.highest \in Nat
    BY <2>1, SeqsAssumption DEF Packets, ReceiverTypeOK, ReceiptsType
  <2>6. \A receipt \in acks' : receipt \in 1 .. committed'.highest
    BY <1>4, <2>1, <2>2, <2>5 DEF CommitInbound
  <2> QED
    BY <1>4, <2>2, <2>4, <2>6 DEF CommitInbound
<1>5. CASE DiscardInbound
  BY <1>5 DEF DiscardInbound, LogMatches, TakenInOrder
<1>6. CASE SendStandaloneAck
  <2>1. highestReceivedSeq \in Nat
    BY DEF ReceiverTypeOK
  <2>2. LogMatches(committed)'
    BY <1>6 DEF SendStandaloneAck, LogMatches, TakenInOrder
  <2> QED
    BY <1>6, <2>1, <2>2 DEF SendStandaloneAck
<1>7. ASSUME NEW receipt \in Seqs, PiggybackAck(receipt)
      PROVE  ReceiverInv'
  <2>1. receipt \in 1 .. committed.highest
    BY <1>7, SeqsAssumption DEF PiggybackAck, ReceiverTypeOK
  <2>2. LogMatches(committed)'
    BY <1>7 DEF PiggybackAck, LogMatches, TakenInOrder
  <2> QED
    BY <1>7, <2>1, <2>2 DEF PiggybackAck
<1>8. CASE RestartReceiver
  <2>1. CASE committed' = committed
    BY <1>8, <2>1 DEF RestartReceiver, LogMatches, TakenInOrder
  <2>2. CASE recorded /\ committed' = store
    <3>1. /\ inbound \in Packets
          /\ inbound.seq > committed.highest
          /\ committed' = [highest |-> inbound.seq,
                           log |-> Append(committed.log, inbound)]
      BY <2>2 DEF ReceiverTypeOK
    <3>2. committed \in ReceiptsType
      BY DEF ReceiverTypeOK
    <3>3. LogMatches(committed')
      BY <3>1, <3>2, LogGrows
    <3>4. LogMatches(committed)'
      BY <3>3 DEF LogMatches, TakenInOrder
    <3>5. inbound.seq \in Nat /\ committed.highest \in Nat
      BY <3>1, SeqsAssumption DEF Packets, ReceiverTypeOK, ReceiptsType
    <3>6. \A receipt \in acks' : receipt \in 1 .. committed'.highest
      BY <1>8, <3>1, <3>5 DEF RestartReceiver
    <3> QED
      BY <1>8, <3>4, <3>6 DEF RestartReceiver
  <2> QED
    BY <1>8, <2>1, <2>2 DEF RestartReceiver
<1>9. CASE UNCHANGED receiverVars
  BY <1>9 DEF receiverVars, LogMatches, TakenInOrder
<1> QED
  BY <1>1, <1>2, <1>3, <1>4, <1>5, <1>6, <1>7, <1>8, <1>9
  DEF ReceiverNext, ReceiverStep

(* The invariant holds in every reachable state.                           *)
THEOREM ReceiverInvariance == ReceiverSpec => []ReceiverInv
<1>1. ReceiverInit => ReceiverInv
  BY ReceiverStarts
<1>2. ReceiverTypeOK /\ ReceiverTypeOK' /\ ReceiverInv /\ [ReceiverNext]_receiverVars
        => ReceiverInv'
  BY NextReceiverKept
<1> QED
  BY <1>1, <1>2, ReceiverTypeCorrect, PTL DEF ReceiverSpec

(* Nothing a crash or an abort can take back is ever acknowledged.         *)
THEOREM AcksAlwaysDurable == ReceiverSpec => []AcksAreDurable
<1>1. ReceiverTypeOK /\ ReceiverInv => AcksAreDurable
  <2> SUFFICES ASSUME ReceiverTypeOK, ReceiverInv PROVE AcksAreDurable
    OBVIOUS
  <2>1. committed.highest \in Nat
    BY DEF ReceiverTypeOK, ReceiptsType
  <2>2. highestReceivedSeq <= committed.highest
    BY <2>1 DEF ReceiverInv
  <2>3. \A receipt \in acks : receipt <= committed.highest
    BY <2>1 DEF ReceiverInv
  <2> QED
    BY <2>2, <2>3 DEF AcksAreDurable
<1> QED
  BY <1>1, ReceiverTypeCorrect, ReceiverInvariance, PTL

(* No message is carried out twice, or after a later one.                  *)
THEOREM AlwaysTakenOnceInOrder == ReceiverSpec => []TakenOnceInOrder
<1>1. ReceiverTypeOK /\ ReceiverInv => TakenOnceInOrder
  <2> SUFFICES ASSUME ReceiverTypeOK, ReceiverInv PROVE TakenOnceInOrder
    OBVIOUS
  <2>1. TakenInOrder(committed.log)
    BY DEF ReceiverInv, LogMatches
  <2>2. TakenInOrder(store.log)
    <3>1. CASE ~recorded
      BY <2>1, <3>1 DEF ReceiverInv
    <3>2. CASE recorded
      <4>1. /\ inbound \in Packets
            /\ inbound.seq > committed.highest
            /\ committed \in ReceiptsType
            /\ LogMatches(committed)
            /\ store = [highest |-> inbound.seq,
                        log |-> Append(committed.log, inbound)]
        BY <3>2 DEF ReceiverInv, ReceiverTypeOK
      <4>2. LogMatches(store)
        BY <4>1, LogGrows
      <4> QED
        BY <4>2 DEF LogMatches
    <3> QED
      BY <3>1, <3>2 DEF ReceiverTypeOK
  <2> QED
    BY <2>1, <2>2 DEF TakenOnceInOrder
<1> QED
  BY <1>1, ReceiverTypeCorrect, ReceiverInvariance, PTL

(* The durable effects and the durable watermark never part.               *)
THEOREM EffectsAlwaysMatchReceipt == ReceiverSpec => []EffectsMatchReceipt
<1>1. ReceiverInv => EffectsMatchReceipt
  BY DEF ReceiverInv, LogMatches, EffectsMatchReceipt
<1> QED
  BY <1>1, ReceiverInvariance, PTL

(* A crank that becomes durable, by its commit or by a death that finds it *)
(* committed, is a message taken by the abstract inbox.                    *)
LEMMA RecordedIsTake ==
    ASSUME ReceiverTypeOK, ReceiverInv, recorded, committed' = store,
           acks' = acks
    PROVE  \E packet \in Packets : Inbox!Take(packet)
<1>1. /\ inbound \in Packets
      /\ inbound.seq > committed.highest
      /\ committed' = [highest |-> inbound.seq,
                       log |-> Append(committed.log, inbound)]
  BY DEF ReceiverTypeOK, ReceiverInv
<1>2. committed.highest = Inbox!LastTaken
  BY DEF ReceiverInv, LogMatches, Inbox!LastTaken
<1>3. committed'.log = Append(committed.log, inbound)
  BY <1>1
<1>4. Inbox!Take(inbound)
  BY <1>1, <1>2, <1>3 DEF Inbox!Take
<1> QED
  BY <1>1, <1>4

(* An acknowledgement of a durable receipt is a promise of the abstract    *)
(* inbox.                                                                  *)
LEMMA AckIsPromise ==
    ASSUME ReceiverTypeOK, ReceiverInv,
           NEW receipt \in 1 .. committed.highest,
           acks' = acks \cup {receipt}, UNCHANGED committed
    PROVE  \E n \in 1 .. Inbox!LastTaken : Inbox!Promise(n)
<1>1. committed.highest = Inbox!LastTaken
  BY DEF ReceiverInv, LogMatches, Inbox!LastTaken
<1>2. Inbox!Promise(receipt)
  BY DEF Inbox!Promise
<1> QED
  BY <1>1, <1>2

(* The receiver implements the ordered inbox: its cranks, aborts, crashes, *)
(* copies and refusals show a peer only messages taken once, in order, and *)
(* acknowledgements of what is taken for good.                             *)
THEOREM ReceiverImplementsInbox == ReceiverSpec => ImplementsInbox
<1>1. ReceiverInit => Inbox!InboxInit
  BY DEF ReceiverInit, EmptyReceipts, Inbox!InboxInit
<1>2. ReceiverTypeOK /\ ReceiverInv /\ [ReceiverNext]_receiverVars
        => [Inbox!InboxNext]_<<committed.log, acks>>
  <2> SUFFICES ASSUME ReceiverTypeOK, ReceiverInv, [ReceiverNext]_receiverVars
               PROVE  [Inbox!InboxNext]_<<committed.log, acks>>
    OBVIOUS
  <2>1. ASSUME NEW packet \in Packets, ReceiveFromPeer(packet)
        PROVE  UNCHANGED <<committed.log, acks>>
    BY <2>1 DEF ReceiveFromPeer
  <2>2. CASE TakeArrival
    BY <2>2 DEF TakeArrival
  <2>3. CASE ReceiveInbound
    BY <2>3 DEF ReceiveInbound
  <2>4. CASE CommitInbound
    BY <2>4, RecordedIsTake DEF CommitInbound, Inbox!InboxNext
  <2>5. CASE DiscardInbound
    BY <2>5 DEF DiscardInbound
  <2>6. CASE SendStandaloneAck
    <3>1. CASE highestReceivedSeq > 0
      <4>1. highestReceivedSeq \in 1 .. committed.highest
        BY <3>1 DEF ReceiverTypeOK, ReceiverInv
      <4> QED
        BY <2>6, <3>1, <4>1, AckIsPromise
        DEF SendStandaloneAck, Inbox!InboxNext
    <3>2. CASE ~(highestReceivedSeq > 0)
      BY <2>6, <3>2 DEF SendStandaloneAck
    <3> QED
      BY <3>1, <3>2
  <2>7. ASSUME NEW receipt \in Seqs, PiggybackAck(receipt)
        PROVE  Inbox!InboxNext
    <3>1. receipt \in 1 .. committed.highest
      BY <2>7, SeqsAssumption DEF PiggybackAck, ReceiverTypeOK, ReceiverInv
    <3> QED
      BY <2>7, <3>1, AckIsPromise DEF PiggybackAck, Inbox!InboxNext
  <2>8. CASE RestartReceiver
    <3>1. CASE committed' = committed
      BY <2>8, <3>1 DEF RestartReceiver
    <3>2. CASE recorded /\ committed' = store
      BY <2>8, <3>2, RecordedIsTake DEF RestartReceiver, Inbox!InboxNext
    <3> QED
      BY <2>8, <3>1, <3>2 DEF RestartReceiver
  <2>9. CASE UNCHANGED receiverVars
    BY <2>9 DEF receiverVars
  <2> QED
    BY <2>1, <2>2, <2>3, <2>4, <2>5, <2>6, <2>7, <2>8, <2>9
    DEF ReceiverNext, ReceiverStep
<1> QED
  BY <1>1, <1>2, ReceiverTypeCorrect, ReceiverInvariance, PTL
  DEF ReceiverSpec, ImplementsInbox, Inbox!InboxSpec

(***************************************************************************)
(* The session, end to end.                                                *)
(***************************************************************************)

-----------------------------------------------------------------------------
(* A message under its number, and where such pairs are to be found.       *)

Put(p) == <<p.seq, p.msg>>

Puts(s) == {Put(s[i]) : i \in DOMAIN s}

Taking == IF inbound = NoArrival THEN {} ELSE {Put(inbound)}

Rows(f) == {<<n, f[n]>> : n \in DOMAIN f}

(* What a crank of the sender, going on or rolled back, may number.        *)
Numbered == Rows(kv.rows) \cup Rows(undo.rows)

(* What is between the sender's chain and the receiver's log.              *)
OnTheWay == Puts(committed.log) \cup Taking \cup Puts(arrivals) \cup Puts(wire)

LEMMA PutsOfAppend ==
    ASSUME NEW S, NEW s \in Seq(S), NEW x \in S
    PROVE  Puts(Append(s, x)) = Puts(s) \cup {Put(x)}
<1> DEFINE t == Append(s, x)
<1>1. /\ DOMAIN t = 1 .. Len(s) + 1 /\ DOMAIN s = 1 .. Len(s)
      /\ Len(s) \in Nat /\ t[Len(s) + 1] = x
      /\ \A i \in 1 .. Len(s) : t[i] = s[i]
  OBVIOUS
<1> HIDE DEF t
<1>2. \A i : i \in DOMAIN t <=> i \in DOMAIN s \/ i = Len(s) + 1
  BY <1>1
<1> QED
  BY <1>1, <1>2 DEF Puts

LEMMA PutsOfTail ==
    ASSUME NEW S, NEW s \in Seq(S), s # <<>>
    PROVE  /\ Puts(Tail(s)) \subseteq Puts(s)
           /\ Put(Head(s)) \in Puts(s)
           /\ Puts(s) = Puts(Tail(s)) \cup {Put(Head(s))}
           /\ Tail(s) \in Seq(S) /\ Head(s) \in S
<1> DEFINE t == Tail(s)
<1>1. /\ DOMAIN t = 1 .. Len(s) - 1 /\ DOMAIN s = 1 .. Len(s)
      /\ Len(s) \in Nat /\ Len(s) # 0 /\ Head(s) = s[1]
      /\ \A i \in 1 .. Len(s) - 1 : t[i] = s[i + 1]
      /\ t \in Seq(S) /\ Head(s) \in S
  OBVIOUS
<1> HIDE DEF t
<1>2. 1 \in DOMAIN s /\ \A i \in DOMAIN t : i + 1 \in DOMAIN s
  BY <1>1
<1>3. \A i \in DOMAIN s : i = 1 \/ (i - 1 \in DOMAIN t /\ t[i - 1] = s[i])
  <2> SUFFICES ASSUME NEW i \in DOMAIN s, i # 1
               PROVE  i - 1 \in DOMAIN t /\ t[i - 1] = s[i]
    OBVIOUS
  <2>1. i - 1 \in 1 .. Len(s) - 1 /\ (i - 1) + 1 = i
    BY <1>1
  <2> QED
    BY <1>1, <2>1
<1>4. Puts(t) \subseteq Puts(s) /\ Put(Head(s)) \in Puts(s)
  BY <1>1, <1>2 DEF Puts
<1>5. Puts(s) \subseteq Puts(t) \cup {Put(Head(s))}
  BY <1>1, <1>3 DEF Puts
<1> QED
  BY <1>1, <1>4, <1>5 DEF t

LEMMA PutsOfPrefix ==
    ASSUME NEW S, NEW s \in Seq(S), NEW k \in 0 .. Len(s) - 1
    PROVE  /\ Puts(SubSeq(s, 1, k)) \subseteq Puts(s)
           /\ SubSeq(s, 1, k) \in Seq(S)
<1> DEFINE t == SubSeq(s, 1, k)
<1>1. /\ DOMAIN t = 1 .. k /\ DOMAIN s = 1 .. Len(s) /\ Len(s) \in Nat
      /\ \A i \in 1 .. k : t[i] = s[i]
      /\ t \in Seq(S)
  OBVIOUS
<1> HIDE DEF t
<1>2. \A i \in DOMAIN t : i \in DOMAIN s /\ t[i] = s[i]
  BY <1>1
<1> QED
  BY <1>1, <1>2 DEF Puts, t

-----------------------------------------------------------------------------
(* The session as a step of each half.                                     *)

(* What has arrived was written, and what is acknowledged has arrived.     *)
WiredInv ==
    /\ wire \in Seq(Packets)
    /\ OnTheWay \subseteq wired
    /\ \A receipt \in acks : \E packet \in wired : packet[1] = receipt
    /\ ackedUpTo <= committed.highest

SessionInv == SenderTypeOK /\ ReceiverTypeOK /\ ReceiverInv /\ WiredInv

(* A fault that is not the sender's own only counts, for the sender.       *)
OtherFault ==
    /\ faults < MaxFaults
    /\ faults' = faults + 1
    /\ UNCHANGED <<memoryVars, writing, retryCount, attached, inCrank, kv,
                   undo, owed, historyVars>>

LEMMA StepOfSender ==
    ASSUME WiredInv, [SessionNext]_sessionVars
    PROVE  /\ AnySenderStep \/ OtherFault
           /\ ~DiesMidWrite => [SenderNext]_senderVars \/ OtherFault
<1> USE DEF AnySenderStep
<1>1. CASE SenderMoves
  BY <1>1 DEF SenderMoves, SenderNext
<1>2. CASE Write
  BY <1>2 DEF Write, SenderNext
<1>3. CASE Arrive \/ ReceiverMoves
  BY <1>3 DEF Arrive, ReceiverMoves
<1>4. CASE AckArrives
  <2>1. PICK receipt \in acks : HandleAck(receipt)
    BY <1>4 DEF AckArrives
  <2>2. PICK packet \in wired : packet[1] = receipt
    BY <2>1 DEF WiredInv
  <2> QED
    BY <2>1, <2>2 DEF SenderNext
<1>5. CASE Fault
  BY <1>5 DEF Fault, OtherFault
<1>6. CASE UNCHANGED sessionVars
  BY <1>6 DEF sessionVars
<1>7. CASE SenderDies
  <2>1. /\ DiesMidWrite
        /\ \/ RestartWhileEnqueueing
           \/ \E receipt \in acks : RestartWhileAcknowledging(receipt)
    BY <1>7 DEF SenderDies
  <2>2. ASSUME NEW receipt \in acks, RestartWhileAcknowledging(receipt)
        PROVE  AnySenderStep
    <3>1. PICK packet \in wired : packet[1] = receipt
      BY DEF WiredInv
    <3> QED
      BY <2>2, <3>1
  <2> QED
    BY <2>1, <2>2
<1> QED
  BY <1>1, <1>2, <1>3, <1>4, <1>5, <1>6, <1>7 DEF SessionNext

LEMMA StepOfReceiver ==
    ASSUME wire \in Seq(Packets), [SessionNext]_sessionVars
    PROVE  [ReceiverNext]_receiverVars
<1>1. CASE SenderMoves \/ Write \/ AckArrives \/ SenderDies
  BY <1>1 DEF SenderMoves, Write, AckArrives, SenderDies
<1>2. CASE Arrive
  <2>1. Head(wire) \in Packets
    BY <1>2, PutsOfTail DEF Arrive
  <2> QED
    BY <1>2, <2>1 DEF Arrive, ReceiverNext
<1>3. CASE ReceiverMoves
  BY <1>3 DEF ReceiverMoves, Receive, Acknowledge, ReceiverNext, ReceiverStep
<1>4. CASE Fault
  BY <1>4 DEF Fault, ConnectionBreaks, DeliveryThrows, ReceiverDies,
              ReceiverNext, ReceiverStep
<1>5. CASE UNCHANGED sessionVars
  BY <1>5 DEF sessionVars
<1> QED
  BY <1>1, <1>2, <1>3, <1>4, <1>5 DEF SessionNext

LEMMA FaultKeepsTypes ==
    ASSUME SenderTypeOK, OtherFault
    PROVE  SenderTypeOK'
<1>1. faults' \in 0 .. MaxFaults
  BY SenderAssumption DEF OtherFault, SenderTypeOK
<1>2. UNCHANGED <<made, window, lastTransmittedSeq, awaitingTransmit, chain,
                  writing, retryCount, ackTimer, attached, inCrank, kv, undo,
                  owed, durable, handed, wired, ackedUpTo, abandoned>>
  BY DEF OtherFault, memoryVars, historyVars
<1> QED
  BY <1>1, <1>2 DEF SenderTypeOK

LEMMA SessionTyped ==
    ASSUME SessionInv, [SessionNext]_sessionVars
    PROVE  SenderTypeOK' /\ ReceiverTypeOK' /\ ReceiverInv'
<1>1. SenderTypeOK'
  BY StepOfSender, NextSenderTyped, FaultKeepsTypes DEF SessionInv
<1>2. [ReceiverNext]_receiverVars
  BY StepOfReceiver DEF SessionInv, WiredInv
<1> QED
  BY <1>1, <1>2, NextReceiverTyped, NextReceiverKept DEF SessionInv

(* A message the receiver logs moves its watermark up.                     *)
LEMMA LogStep ==
    ASSUME ReceiverTypeOK, ReceiverInv, [ReceiverNext]_receiverVars
    PROVE  \/ UNCHANGED committed
           \/ /\ inbound \in Packets
              /\ inbound.seq > committed.highest
              /\ committed' = [highest |-> inbound.seq,
                               log |-> Append(committed.log, inbound)]
              /\ inbound' = NoArrival
<1>1. CASE CommitInbound
  BY <1>1 DEF CommitInbound, ReceiverInv, ReceiverTypeOK
<1>2. CASE RestartReceiver
  BY <1>2 DEF RestartReceiver, ReceiverInv, ReceiverTypeOK
<1>3. CASE \E packet \in Packets : ReceiveFromPeer(packet)
  BY <1>3 DEF ReceiveFromPeer
<1>4. CASE TakeArrival \/ ReceiveInbound \/ DiscardInbound \/ SendStandaloneAck
  BY <1>4 DEF TakeArrival, ReceiveInbound, DiscardInbound, SendStandaloneAck
<1>5. CASE \E receipt \in Seqs : PiggybackAck(receipt)
  BY <1>5 DEF PiggybackAck
<1>6. CASE UNCHANGED receiverVars
  BY <1>6 DEF receiverVars
<1> QED
  BY <1>1, <1>2, <1>3, <1>4, <1>5, <1>6 DEF ReceiverNext, ReceiverStep

(* The receiver's numbers, and the log's end.                              *)
LEMMA ReceiverNumbers ==
    ASSUME ReceiverTypeOK
    PROVE  /\ committed.highest \in Nat
           /\ committed.log \in Seq(Packets) /\ arrivals \in Seq(Packets)
           /\ inbound # NoArrival => inbound \in Packets
           /\ \A packet \in Packets : packet.seq \in Nat
BY SeqsAssumption DEF ReceiverTypeOK, ReceiptsType, Packets

LEMMA WatermarkRises ==
    ASSUME ReceiverTypeOK, ReceiverInv, [ReceiverNext]_receiverVars
    PROVE  committed'.highest \in Nat /\ committed'.highest >= committed.highest
<1>1. committed.highest \in Nat /\ \A packet \in Packets : packet.seq \in Nat
  BY ReceiverNumbers
<1> QED
  BY <1>1, LogStep

-----------------------------------------------------------------------------
(* What a step does to what is on its way.                                 *)

WayStays ==
    Taking' = Taking /\ UNCHANGED <<committed, arrivals, wire>>

(* A message goes one stage on, or is dropped there.                       *)
WayWritten ==
    /\ chain # <<>>
    /\ wire' = Append(wire, [seq |-> Head(chain).seq, msg |-> Head(chain).msg])
    /\ Taking' = Taking /\ UNCHANGED <<committed, arrivals>>

WayArrives ==
    /\ wire # <<>>
    /\ wire' = Tail(wire)
    /\ arrivals' = arrivals \/ arrivals' = Append(arrivals, Head(wire))
    /\ Taking' = Taking /\ UNCHANGED committed

WayTaken ==
    /\ arrivals # <<>>
    /\ arrivals' = Tail(arrivals)
    /\ Taking' \subseteq {Put(Head(arrivals))}
    /\ UNCHANGED <<committed, wire>>

LogGains ==
    /\ inbound \in Packets /\ Taking = {Put(inbound)}
    /\ committed'.log = Append(committed.log, inbound)

WayEnds ==
    /\ Taking' = {}
    /\ committed' = committed \/ LogGains
    /\ arrivals' \in {arrivals, <<>>}
    /\ wire' \in {wire, <<>>}

WayBreaks ==
    /\ \E kept \in 0 .. Len(wire) - 1 : wire' = SubSeq(wire, 1, kept)
    /\ Taking' = Taking /\ UNCHANGED <<committed, arrivals>>

WayStep ==
    \/ WayStays
    \/ WayArrives
    \/ WayTaken
    \/ WayEnds
    \/ WayBreaks

LEMMA EndOfCrank ==
    ASSUME ReceiverTypeOK, ReceiverInv,
           CommitInbound \/ DiscardInbound \/ RestartReceiver
    PROVE  Taking' = {} /\ (committed' = committed \/ LogGains)
<1>1. inbound' = NoArrival
  BY DEF CommitInbound, DiscardInbound, RestartReceiver
<1>2. Taking' = {}
  BY <1>1 DEF Taking
<1>3. [ReceiverNext]_receiverVars
  BY DEF ReceiverNext, ReceiverStep
<1>4. inbound \in Packets => Taking = {Put(inbound)}
  BY NoArrivalAssumption DEF Taking
<1> QED
  BY <1>2, <1>3, <1>4, LogStep DEF LogGains

LEMMA StepOfWay ==
    ASSUME SessionInv, [SessionNext]_sessionVars
    PROVE  WayStep \/ (Write /\ WayWritten)
<1>1. ASSUME UNCHANGED receiverVars, UNCHANGED wire PROVE WayStays
  BY <1>1 DEF receiverVars, WayStays, Taking
<1>2. CASE SenderMoves \/ AckArrives \/ SenderDies \/ UNCHANGED sessionVars
  BY <1>1, <1>2 DEF SenderMoves, AckArrives, SenderDies, sessionVars, WayStep
<1>3. CASE Write
  <2>1. chain # <<>>
    BY <1>3 DEF Write, WriteMessage, SessionInv, SenderTypeOK
  <2> QED
    BY <1>3, <2>1 DEF Write, WayWritten, receiverVars, Taking
<1>4. CASE Arrive
  <2>1. ReceiveFromPeer(Head(wire)) /\ wire # <<>> /\ wire' = Tail(wire)
    BY <1>4 DEF Arrive
  <2>2. WayArrives
    BY <2>1 DEF ReceiveFromPeer, WayArrives, Taking
  <2> QED
    BY <2>2 DEF WayStep
<1>5. CASE ReceiverMoves
  <2>1. CASE TakeArrival
    <3>1. inbound' = NoArrival \/ inbound' = Head(arrivals)
      BY <2>1 DEF TakeArrival
    <3>2. Taking' \subseteq {Put(Head(arrivals))}
      BY <3>1 DEF Taking, Put
    <3> QED
      BY <1>5, <2>1, <3>2 DEF ReceiverMoves, TakeArrival, WayTaken, WayStep
  <2>2. CASE CommitInbound
    BY <1>5, <2>2, EndOfCrank
    DEF ReceiverMoves, CommitInbound, WayEnds, WayStep, SessionInv
  <2>3. CASE ReceiveInbound \/ Acknowledge
    <3>1. UNCHANGED <<committed, arrivals, inbound>>
      BY <2>3 DEF ReceiveInbound, Acknowledge, SendStandaloneAck, PiggybackAck
    <3> QED
      BY <1>5, <3>1 DEF ReceiverMoves, WayStays, WayStep, Taking
  <2> QED
    BY <1>5, <2>1, <2>2, <2>3 DEF ReceiverMoves, Receive
<1>6. CASE Fault
  <2>1. CASE ConnectionBreaks
    BY <2>1 DEF ConnectionBreaks, receiverVars, WayBreaks, WayStep, Taking
  <2>2. CASE DeliveryThrows
    BY <2>2, EndOfCrank
    DEF DeliveryThrows, DiscardInbound, WayEnds, WayStep, SessionInv
  <2>3. CASE ReceiverDies
    BY <2>3, EndOfCrank
    DEF ReceiverDies, RestartReceiver, WayEnds, WayStep, SessionInv
  <2> QED
    BY <1>6, <2>1, <2>2, <2>3 DEF Fault
<1> QED
  BY <1>2, <1>3, <1>4, <1>5, <1>6 DEF SessionNext

(* The stages hold sequences of messages.                                  *)
LEMMA StagesTyped ==
    ASSUME SessionInv
    PROVE  /\ committed.log \in Seq(Packets) /\ arrivals \in Seq(Packets)
           /\ wire \in Seq(Packets)
           /\ chain \in Seq(SendType(made))
BY ReceiverNumbers, SenderTyped DEF SessionInv, WiredInv

LEMMA EmptyPuts == Puts(<<>>) = {}
BY DEF Puts

(* Nothing comes to be on its way but what the sender writes.              *)
LEMMA NothingFromNowhere ==
    ASSUME SessionInv, WayStep
    PROVE  OnTheWay' \subseteq OnTheWay
<1> USE StagesTyped
<1> PICK L, A, W, T : /\ L = Puts(committed'.log) /\ A = Puts(arrivals')
                      /\ W = Puts(wire') /\ T = Taking'
  OBVIOUS
<1> SUFFICES L \cup T \cup A \cup W \subseteq OnTheWay
  BY DEF OnTheWay
<1>1. CASE WayStays
  BY <1>1 DEF WayStays, OnTheWay
<1>2. CASE WayArrives
  <2>1. W \subseteq Puts(wire) /\ Put(Head(wire)) \in Puts(wire)
    BY <1>2, PutsOfTail DEF WayArrives
  <2>2. A \subseteq Puts(arrivals) \cup {Put(Head(wire))}
    <3>1. Head(wire) \in Packets
      BY <1>2, PutsOfTail DEF WayArrives
    <3> QED
      BY <1>2, <3>1, PutsOfAppend DEF WayArrives
  <2> QED
    BY <1>2, <2>1, <2>2 DEF WayArrives, OnTheWay
<1>3. CASE WayTaken
  BY <1>3, PutsOfTail DEF WayTaken, OnTheWay
<1>4. CASE WayEnds
  <2>1. L \subseteq Puts(committed.log) \cup Taking
    <3>1. CASE committed' = committed
      BY <3>1
    <3>2. CASE LogGains
      <4>1. Puts(Append(committed.log, inbound)) = Puts(committed.log) \cup {Put(inbound)}
        BY <3>2, PutsOfAppend, ZenonT(60) DEF LogGains
      <4> QED
        BY <3>2, <4>1 DEF LogGains
    <3> QED
      BY <1>4, <3>1, <3>2 DEF WayEnds
  <2>2. A \subseteq Puts(arrivals) /\ W \subseteq Puts(wire)
    BY <1>4, EmptyPuts DEF WayEnds
  <2> QED
    BY <1>4, <2>1, <2>2 DEF WayEnds, OnTheWay
<1>5. CASE WayBreaks
  BY <1>5, PutsOfPrefix DEF WayBreaks, OnTheWay
<1> QED
  BY <1>1, <1>2, <1>3, <1>4, <1>5 DEF WayStep

-----------------------------------------------------------------------------
(* What arrives was written, and the session's invariant.                  *)

(* A message in the chain is one the receiver can read.                    *)
LEMMA ChainIsReadable ==
    ASSUME SessionInv, chain # <<>>
    PROVE  [seq |-> Head(chain).seq, msg |-> Head(chain).msg] \in Packets
<1>1. Head(chain).seq \in 1 .. made /\ Head(chain).msg \in 1 .. made
  BY HeadTyped DEF SessionInv
<1>2. made \in 0 .. MaxMade /\ MaxMade \in Nat
  BY SenderTyped DEF SessionInv
<1>3. 1 .. made \subseteq 1 .. MaxMade
  BY <1>2
<1>4. Head(chain).seq \in Seqs /\ Head(chain).msg \in Msgs
  BY <1>1, <1>3, SessionAssumption
<1> QED
  BY <1>4 DEF Packets

LEMMA WireTyped ==
    ASSUME SessionInv, [SessionNext]_sessionVars
    PROVE  wire' \in Seq(Packets)
<1>1. CASE WayWritten
  <2>1. [seq |-> Head(chain).seq, msg |-> Head(chain).msg] \in Packets
    BY <1>1, ChainIsReadable DEF WayWritten
  <2> QED
    BY <1>1, <2>1, StagesTyped DEF WayWritten
<1>2. CASE WayStays \/ WayTaken \/ WayEnds
  <2>1. <<>> \in Seq(Packets)
    OBVIOUS
  <2> QED
    BY <1>2, <2>1, StagesTyped DEF WayStays, WayTaken, WayEnds
<1>3. CASE WayArrives
  BY <1>3, StagesTyped, PutsOfTail DEF WayArrives
<1>4. CASE WayBreaks
  BY <1>4, StagesTyped, PutsOfPrefix DEF WayBreaks
<1> QED
  BY <1>1, <1>2, <1>3, <1>4, StepOfWay DEF WayStep

(* What has been written stays written, and is written before it arrives.  *)
LEMMA WayIsWritten ==
    ASSUME SessionInv, [SessionNext]_sessionVars
    PROVE  OnTheWay' \subseteq wired' /\ wired \subseteq wired'
<1>1. wired \subseteq wired'
  <2>1. CASE AnySenderStep
    BY <2>1, ZenonT(60) DEF AnySenderStep, SenderNext, SenderStep, senderVars, BeginCrank, DeliverToPeer,
         SendRemoteCommand, CommitCrank, RollbackCrank, HandleAckTimeout,
         TransportGivesUp, StartSend, SendFails, SendFailsForGood,
         AttachTransport, Restart, RestartWhileEnqueueing, WriteMessage,
         HandleAck, RestartWhileAcknowledging, RestartOver, historyVars
  <2>2. CASE OtherFault
    BY <2>2 DEF OtherFault, historyVars
  <2> QED
    BY <2>1, <2>2, StepOfSender DEF SessionInv
<1>2. OnTheWay \subseteq wired
  BY DEF SessionInv, WiredInv
<1>3. CASE WayStep
  BY <1>1, <1>2, <1>3, NothingFromNowhere
<1>4. CASE Write /\ WayWritten
  <2> DEFINE p == [seq |-> Head(chain).seq, msg |-> Head(chain).msg]
  <2>1. p \in Packets /\ Put(p) = <<Head(chain).seq, Head(chain).msg>>
    BY <1>4, ChainIsReadable DEF WayWritten, Put
  <2>2. wired' = wired \cup {Put(p)}
    BY <1>4, <2>1 DEF Write, WriteMessage
  <2>3. wire' = Append(wire, p)
    BY <1>4 DEF WayWritten
  <2> HIDE DEF p
  <2>4. Puts(wire') = Puts(wire) \cup {Put(p)}
    <3>1. wire \in Seq(Packets) /\ p \in Packets
      BY <2>1, StagesTyped
    <3>2. Puts(Append(wire, p)) = Puts(wire) \cup {Put(p)}
      BY <3>1, PutsOfAppend, ZenonT(60)
    <3> QED
      BY <2>3, <3>2
  <2> QED
    BY <1>2, <1>4, <2>2, <2>4 DEF WayWritten, OnTheWay
<1> QED
  BY <1>3, <1>4, <1>1, StepOfWay

(* Every acknowledgement is the number of a message that was written.      *)
LEMMA AcksAreOfWritten ==
    ASSUME SessionInv, [SessionNext]_sessionVars
    PROVE  \A receipt \in acks' : \E packet \in wired' : packet[1] = receipt
<1>1. wired \subseteq wired'
  BY WayIsWritten
<1>2. ASSUME NEW i \in DOMAIN committed.log
      PROVE  \E packet \in wired : packet[1] = committed.log[i].seq
  <2>1. Put(committed.log[i]) \in OnTheWay
    BY DEF OnTheWay, Puts
  <2> QED
    BY <2>1 DEF SessionInv, WiredInv, Put
<1>3. highestReceivedSeq > 0 =>
        \E i \in DOMAIN committed.log : committed.log[i].seq = highestReceivedSeq
  <2> SUFFICES ASSUME highestReceivedSeq > 0
               PROVE  Len(committed.log) \in DOMAIN committed.log
                        /\ committed.log[Len(committed.log)].seq
                             = highestReceivedSeq
    OBVIOUS
  <2>1. committed.log # <<>>
    BY DEF SessionInv, ReceiverInv, LogMatches
  <2>2. Len(committed.log) \in DOMAIN committed.log
    BY <2>1, StagesTyped
  <2> QED
    BY <2>1, <2>2 DEF SessionInv, ReceiverInv, LogMatches
<1>4. \A receipt \in acks' :
         \/ receipt \in acks
         \/ \E i \in DOMAIN committed.log : committed.log[i].seq = receipt
  <2>1. [ReceiverNext]_receiverVars
    BY StepOfReceiver DEF SessionInv, WiredInv
  <2>2. CASE SendStandaloneAck
    BY <1>3, <2>2 DEF SendStandaloneAck
  <2>3. CASE \E receipt \in Seqs : PiggybackAck(receipt)
    BY <2>3 DEF PiggybackAck
  <2>4. CASE UNCHANGED acks
    BY <2>4
  <2> QED
    BY <2>1, <2>2, <2>3, <2>4
    DEF ReceiverNext, ReceiverStep, receiverVars, ReceiveFromPeer, TakeArrival,
        ReceiveInbound, CommitInbound, DiscardInbound, RestartReceiver
<1> QED
  BY <1>1, <1>2, <1>4 DEF SessionInv, WiredInv

(* The sender hears of no number beyond the receiver's watermark.          *)
LEMMA HearsOfReceipts ==
    ASSUME SessionInv, [SessionNext]_sessionVars
    PROVE  ackedUpTo' <= committed'.highest
<1>1. committed'.highest \in Nat /\ committed'.highest >= committed.highest
  BY StepOfReceiver, WatermarkRises DEF SessionInv, WiredInv
<1>2. ackedUpTo \in Nat /\ committed.highest \in Nat
  BY ReceiverNumbers, SenderNumbers DEF SessionInv
<1>3. \/ ackedUpTo' = ackedUpTo
      \/ \E receipt \in acks : ackedUpTo' = Max({ackedUpTo, receipt})
  <2>1. CASE SenderMoves \/ Write
    BY <2>1 DEF SenderMoves, Write, SenderStep, BeginCrank, DeliverToPeer,
         SendRemoteCommand, CommitCrank, RollbackCrank, HandleAckTimeout,
         TransportGivesUp, StartSend, SendFails, SendFailsForGood, SendIsOver,
         AttachTransport, Restart, WriteMessage, historyVars
  <2>2. CASE AckArrives \/ SenderDies
    BY <2>2 DEF AckArrives, SenderDies, HandleAck, RestartWhileEnqueueing,
                RestartWhileAcknowledging
  <2>3. CASE Arrive \/ ReceiverMoves \/ Fault \/ UNCHANGED sessionVars
    BY <2>3 DEF Arrive, ReceiverMoves, Fault, sessionVars, senderVars,
                historyVars
  <2> QED
    BY <2>1, <2>2, <2>3 DEF SessionNext
<1>4. CASE ackedUpTo' = ackedUpTo
  BY <1>1, <1>2, <1>4 DEF SessionInv, WiredInv
<1>5. ASSUME NEW receipt \in acks, ackedUpTo' = Max({ackedUpTo, receipt})
      PROVE  ackedUpTo' <= committed'.highest
  <2>1. receipt \in Nat /\ receipt <= committed.highest
    BY <1>2 DEF SessionInv, ReceiverInv
  <2>2. Max({ackedUpTo, receipt}) \in {ackedUpTo, receipt}
    <3>1. {ackedUpTo, receipt} \in SUBSET (0 .. committed.highest)
      BY <1>2, <2>1 DEF SessionInv, WiredInv
    <3> QED
      BY <1>2, <3>1, MaxIs
  <2>3. ackedUpTo' \in Nat /\ ackedUpTo' <= committed.highest
    BY <1>2, <1>5, <2>1, <2>2 DEF SessionInv, WiredInv
  <2> QED
    BY <1>1, <1>2, <2>3
<1> QED
  BY <1>3, <1>4, <1>5

LEMMA SessionInitially == SessionInit => SessionInv
<1> SUFFICES ASSUME SessionInit PROVE SessionInv
  OBVIOUS
<1>1. SenderTypeOK
  BY SenderTypedInitially DEF SessionInit
<1>2. ReceiverTypeOK /\ ReceiverInv
  BY ReceiverStarts DEF SessionInit
<1>3. WiredInv
  <2>1. /\ wire = <<>> /\ arrivals = <<>> /\ committed.log = <<>>
        /\ inbound = NoArrival /\ acks = {} /\ ackedUpTo = 0
        /\ committed.highest = 0
    BY DEF SessionInit, SenderInit, ReceiverInit, EmptyReceipts
  <2>2. OnTheWay = {}
    BY <2>1, EmptyPuts DEF OnTheWay, Taking
  <2>3. wire \in Seq(Packets)
    BY <2>1
  <2> QED
    BY <2>1, <2>2, <2>3 DEF WiredInv
<1> QED
  BY <1>1, <1>2, <1>3 DEF SessionInv

LEMMA NextSessionKept ==
    ASSUME SessionInv, [SessionNext]_sessionVars
    PROVE  SessionInv'
<1>1. WiredInv'
  BY WireTyped, WayIsWritten, AcksAreOfWritten, HearsOfReceipts DEF WiredInv
<1> QED
  BY <1>1, SessionTyped DEF SessionInv

(* A message is retired only for a receipt that survives the receiver's    *)
(* crash, whatever either kernel goes through (#handleAck, and the         *)
(* watermark read back by #restorePersistedState).                         *)
THEOREM RetiredAlwaysReceipted == SessionSpec => []RetiredIsReceipted
<1>1. SessionInv => RetiredIsReceipted
  BY DEF SessionInv, WiredInv, RetiredIsReceipted
<1> QED
  BY <1>1, SessionInitially, NextSessionKept, PTL DEF SessionSpec

(* Neither half's numbers run away, though a kernel may die with a write   *)
(* half done (#persistRemoteCommand, #persistAcknowledged) and be restored  *)
(* from what it left (#restorePersistedState).                             *)
THEOREM SessionTypeCorrect == SessionSpec => [](SenderTypeOK /\ ReceiverTypeOK)
<1>1. SessionInv => SenderTypeOK /\ ReceiverTypeOK
  BY DEF SessionInv
<1> QED
  BY <1>1, SessionInitially, NextSessionKept, PTL DEF SessionSpec

(* A session shows the receiver nothing it does not meet on its own: what  *)
(* is proved of RemoteReceiver holds in a session.                         *)
THEOREM SessionHasReceiver == SessionSpec => ReceiverSpec
<1>1. SessionInit => ReceiverInit
  BY DEF SessionInit
<1>2. SessionInv /\ [SessionNext]_sessionVars => [ReceiverNext]_receiverVars
  BY StepOfReceiver DEF SessionInv, WiredInv
<1> QED
  BY <1>1, <1>2, SessionInitially, NextSessionKept, PTL
  DEF SessionSpec, ReceiverSpec

-----------------------------------------------------------------------------
(* Messages in the order they were made.                                   *)

(* Of two messages met in this order, the higher number is the later one.  *)
Before(p, q) == p[1] < q[1] => p[2] < q[2]

AllBefore(P, Q) == \A p \in P, q \in Q : Before(p, q)

InMadeOrder(s) ==
    \A i, j \in DOMAIN s : i < j => Before(Put(s[i]), Put(s[j]))

LEMMA FewerBefore ==
    ASSUME NEW P, NEW Q, AllBefore(P, Q),
           NEW R \in SUBSET P, NEW S \in SUBSET Q
    PROVE  AllBefore(R, S)
BY DEF AllBefore

LEMMA OrderOfAppend ==
    ASSUME NEW S, NEW s \in Seq(S), NEW x \in S,
           InMadeOrder(s), AllBefore(Puts(s), {Put(x)})
    PROVE  InMadeOrder(Append(s, x))
<1> DEFINE t == Append(s, x)
<1>1. /\ DOMAIN t = 1 .. Len(s) + 1 /\ DOMAIN s = 1 .. Len(s)
      /\ Len(s) \in Nat /\ t[Len(s) + 1] = x
      /\ \A i \in 1 .. Len(s) : t[i] = s[i]
  OBVIOUS
<1> HIDE DEF t
<1>2. SUFFICES ASSUME NEW i \in DOMAIN t, NEW j \in DOMAIN t, i < j
               PROVE  Before(Put(t[i]), Put(t[j]))
  BY DEF InMadeOrder, t
<1>3. i \in DOMAIN s /\ t[i] = s[i]
  BY <1>1, <1>2
<1>4. CASE j \in DOMAIN s
  BY <1>1, <1>2, <1>3, <1>4 DEF InMadeOrder
<1>5. CASE j = Len(s) + 1
  BY <1>1, <1>3, <1>5 DEF AllBefore, Puts
<1> QED
  BY <1>1, <1>4, <1>5

LEMMA OrderOfTail ==
    ASSUME NEW S, NEW s \in Seq(S), s # <<>>, InMadeOrder(s)
    PROVE  InMadeOrder(Tail(s)) /\ AllBefore({Put(Head(s))}, Puts(Tail(s)))
<1> DEFINE t == Tail(s)
<1>1. /\ DOMAIN t = 1 .. Len(s) - 1 /\ DOMAIN s = 1 .. Len(s)
      /\ Len(s) \in Nat /\ Len(s) # 0 /\ Head(s) = s[1]
      /\ \A i \in 1 .. Len(s) - 1 : t[i] = s[i + 1]
  OBVIOUS
<1> HIDE DEF t
<1>2. 1 \in DOMAIN s
      /\ \A i \in DOMAIN t : i + 1 \in DOMAIN s /\ t[i] = s[i + 1] /\ 1 < i + 1
  BY <1>1
<1>3. \A i, j \in DOMAIN t : i < j => i + 1 < j + 1
  BY <1>1
<1>4. InMadeOrder(t)
  BY <1>2, <1>3 DEF InMadeOrder
<1>5. AllBefore({Put(Head(s))}, Puts(t))
  BY <1>1, <1>2 DEF AllBefore, Puts, InMadeOrder
<1> QED
  BY <1>4, <1>5 DEF t

LEMMA OrderOfPrefix ==
    ASSUME NEW S, NEW s \in Seq(S), NEW k \in 0 .. Len(s) - 1, InMadeOrder(s)
    PROVE  InMadeOrder(SubSeq(s, 1, k))
<1> DEFINE t == SubSeq(s, 1, k)
<1>1. /\ DOMAIN t = 1 .. k /\ DOMAIN s = 1 .. Len(s) /\ Len(s) \in Nat
      /\ \A i \in 1 .. k : t[i] = s[i]
  OBVIOUS
<1> HIDE DEF t
<1>2. \A i \in DOMAIN t : i \in DOMAIN s /\ t[i] = s[i]
  BY <1>1
<1>3. InMadeOrder(t)
  BY <1>2 DEF InMadeOrder
<1> QED
  BY <1>3 DEF t

LEMMA OrderOfEmpty == InMadeOrder(<<>>)
BY DEF InMadeOrder

(* Two sequences in order, one all before the other.                       *)
LEMMA OrderOfJoined ==
    ASSUME NEW S, NEW s \in Seq(S), NEW k \in Nat, NEW f \in [1 .. k -> S],
           InMadeOrder(s), InMadeOrder(f), AllBefore(Puts(s), Puts(f))
    PROVE  InMadeOrder(s \o f) /\ Puts(s \o f) = Puts(s) \cup Puts(f)
<1> DEFINE t == s \o f
           n == Len(s)
<1>1. f \in Seq(S) /\ Len(f) = k /\ DOMAIN f = 1 .. k
  OBVIOUS
<1>2. /\ DOMAIN t = 1 .. n + k /\ DOMAIN s = 1 .. n /\ n \in Nat
      /\ \A i \in 1 .. n : t[i] = s[i]
      /\ \A i \in n + 1 .. n + k : t[i] = f[i - n]
  BY <1>1
<1> HIDE DEF t, n
<1>3. \A i \in DOMAIN t :
         \/ i \in DOMAIN s /\ t[i] = s[i]
         \/ i > n /\ i - n \in DOMAIN f /\ t[i] = f[i - n]
  BY <1>1, <1>2
<1>4. \A i \in DOMAIN s : i \in DOMAIN t /\ t[i] = s[i]
  BY <1>2
<1>5. \A i \in DOMAIN f : n + i \in DOMAIN t /\ t[n + i] = f[i]
  <2> TAKE i \in DOMAIN f
  <2>1. n + i \in n + 1 .. n + k /\ (n + i) - n = i
    BY <1>1, <1>2
  <2> QED
    BY <1>2, <2>1
<1>6. Puts(t) = Puts(s) \cup Puts(f)
  <2>1. Puts(t) \subseteq Puts(s) \cup Puts(f)
    BY <1>3 DEF Puts
  <2>2. Puts(s) \subseteq Puts(t)
    BY <1>4 DEF Puts
  <2>3. Puts(f) \subseteq Puts(t)
    BY <1>5 DEF Puts
  <2> QED
    BY <2>1, <2>2, <2>3
<1>7. InMadeOrder(t)
  <2> SUFFICES ASSUME NEW i \in DOMAIN t, NEW j \in DOMAIN t, i < j
               PROVE  Before(Put(t[i]), Put(t[j]))
    BY DEF InMadeOrder
  <2>1. CASE i \in DOMAIN s /\ j \in DOMAIN s
    BY <1>4, <2>1 DEF InMadeOrder
  <2>2. CASE i > n /\ j > n
    <3>1. /\ i - n \in DOMAIN f /\ t[i] = f[i - n]
          /\ j - n \in DOMAIN f /\ t[j] = f[j - n]
          /\ i - n < j - n
      BY <1>2, <1>3, <2>2
    <3> QED
      BY <3>1 DEF InMadeOrder
  <2>3. CASE i \in DOMAIN s /\ j > n
    <3>1. t[i] = s[i] /\ j - n \in DOMAIN f /\ t[j] = f[j - n]
      BY <1>2, <1>3, <2>3
    <3> QED
      BY <2>3, <3>1 DEF AllBefore, Puts
  <2> QED
    BY <1>2, <1>3, <2>1, <2>2, <2>3
<1> QED
  BY <1>6, <1>7 DEF t

(* A retired send is the same message.                                     *)
LEMMA OrderOfRetired ==
    ASSUME NEW n \in Nat, NEW s \in Seq(SendType(n))
    PROVE  /\ Puts(Retired(s)) = Puts(s)
           /\ InMadeOrder(s) => InMadeOrder(Retired(s))
<1> DEFINE t == Retired(s)
<1>1. \A i \in DOMAIN s : s[i] \in SendType(n)
  OBVIOUS
<1>2. DOMAIN t = DOMAIN s
  BY DEF Retired
<1>3. \A i \in DOMAIN s : t[i].seq = s[i].seq /\ t[i].msg = s[i].msg
  BY <1>1 DEF Retired, SendType
<1> HIDE DEF t
<1>4. \A i \in DOMAIN s : Put(t[i]) = Put(s[i])
  BY <1>3 DEF Put
<1>5. Puts(t) = Puts(s)
  BY <1>2, <1>4 DEF Puts
<1>6. InMadeOrder(s) => InMadeOrder(t)
  BY <1>2, <1>4 DEF InMadeOrder
<1> QED
  BY <1>5, <1>6 DEF t

-----------------------------------------------------------------------------
(* What the sender numbers and sends.                                      *)

(* What a number newly given out is: later than all others, for a message  *)
(* later than all others.                                                  *)
IsNewest(p) ==
    p[2] = made + 1 /\ p[1] \in Nat /\ \A q \in Numbered : q[1] < p[1]

LEMMA FewerRowsPut ==
    ASSUME NEW f, NEW gone
    PROVE  Rows(Without(f, gone)) \subseteq Rows(f)
BY DEF Rows, Without

LEMMA NoRowsPut == Rows(EmptyStore.rows) = {}
BY DEF Rows, EmptyStore, NoRows

(* Writing a message down numbers it, and drops rows at most.              *)
LEMMA WritingNumbers ==
    ASSUME SenderTypeOK, BusinessInv, kv' = Persist(kv, window, made + 1)
    PROVE  \E newest : /\ IsNewest(newest)
                       /\ Rows(kv'.rows) \subseteq Rows(kv.rows) \cup {newest}
<1> PICK k, p : k = kv' /\ p = Persisted(kv, window)
  OBVIOUS
<1>1. /\ kv.next \in Nat /\ k.next \in Nat /\ k.next > kv.next
      /\ RowOf(k, k.next, made + 1)
      /\ \A n \in DOMAIN k.rows : n # k.next => RowOf(kv, n, k.rows[n])
  <2>1. /\ StoreOrder(kv) /\ window.start <= window.next + 1 /\ made \in Nat
        /\ kv \in StoreType(made) /\ window \in WindowType(made)
    BY SenderTyped DEF BusinessInv, StoreInv, Memory, MemoryInv
  <2>2. k = Persist(kv, window, made + 1)
    OBVIOUS
  <2>3. /\ k \in StoreType(made + 1) /\ k.next > kv.next
        /\ RowOf(k, k.next, made + 1)
        /\ \A n \in DOMAIN k.rows : n # k.next => RowOf(kv, n, k.rows[n])
    BY <2>1, <2>2, WrittenDown
  <2>4. kv.next \in Nat /\ k.next \in Nat
    BY <2>1, <2>3, SenderNumbers DEF StoreType
  <2> QED
    BY <2>3, <2>4
<1> DEFINE newest == <<k.next, made + 1>>
<1>2. Rows(k.rows) \subseteq Rows(kv.rows) \cup {newest}
  BY <1>1 DEF Rows, RowOf
<1>3. ASSUME NEW q \in Numbered PROVE q[1] < k.next
  <2>1. /\ DOMAIN kv.rows \subseteq 1 .. kv.next
        /\ DOMAIN undo.rows \subseteq 1 .. undo.next
        /\ undo.next <= kv.next /\ undo.next \in Nat
    BY SenderNumbers DEF BusinessInv, StoreInv, StoreOrder, CrankOrder
  <2>2. q[1] \in DOMAIN kv.rows \/ q[1] \in DOMAIN undo.rows
    BY DEF Numbered, Rows
  <2>3. q[1] \in Nat /\ q[1] <= kv.next
    BY <1>1, <2>1, <2>2
  <2> QED
    BY <1>1, <2>3
<1>4. IsNewest(newest)
  BY <1>1, <1>3 DEF IsNewest
<1> QED
  BY <1>2, <1>4

(* A step numbers one more message at most.                                *)
LEMMA NumbersGrow ==
    ASSUME SenderTypeOK, BusinessInv, [SenderNext]_senderVars
    PROVE  \E fresh : /\ Numbered' \subseteq Numbered \cup fresh
                      /\ \A p \in fresh : IsNewest(p)
                      /\ \A p, q \in fresh : p = q
<1>1. SUFFICES \/ Numbered' \subseteq Numbered
               \/ \E newest : /\ IsNewest(newest)
                              /\ Numbered' \subseteq Numbered \cup {newest}
  <2> DEFINE Fits(fresh) == /\ Numbered' \subseteq Numbered \cup fresh
                            /\ \A p \in fresh : IsNewest(p)
                            /\ \A p, q \in fresh : p = q
  <2>1. Numbered' \subseteq Numbered => Fits({})
    OBVIOUS
  <2>2. ASSUME NEW newest, IsNewest(newest),
               Numbered' \subseteq Numbered \cup {newest}
        PROVE  Fits({newest})
    BY <2>2
  <2>3. \E fresh : Fits(fresh)
    <3> HIDE DEF Fits
    <3> QED
      BY <1>1, <2>1, <2>2
  <2> QED
    BY <2>3
<1>2. Numbered' = Rows(kv'.rows) \cup Rows(undo'.rows)
  BY DEF Numbered
<1>3. CASE (\E exempt \in BOOLEAN : DeliverToPeer(exempt)) \/ SendRemoteCommand
  <2>1. kv' = Persist(kv, window, made + 1) /\ undo' = undo
    BY <1>3 DEF DeliverToPeer, SendRemoteCommand
  <2>2. PICK newest : /\ IsNewest(newest)
                      /\ Rows(kv'.rows) \subseteq Rows(kv.rows) \cup {newest}
    BY <2>1, WritingNumbers
  <2>3. Numbered' \subseteq Numbered \cup {newest}
    BY <1>2, <2>1, <2>2 DEF Numbered
  <2> QED
    BY <2>2, <2>3
<1>4. ASSUME \/ kv' \in {kv, undo}
             \/ kv'.rows = kv.rows
             \/ \E gone : \E s \in {kv, undo} : kv'.rows = Without(s.rows, gone),
             undo' \in {undo, kv, EmptyStore}
      PROVE  Numbered' \subseteq Numbered
  <2>1. Rows(kv'.rows) \subseteq Numbered
    BY <1>4, FewerRowsPut DEF Numbered
  <2>2. Rows(undo'.rows) \subseteq Numbered
    BY <1>4, NoRowsPut DEF Numbered
  <2> QED
    BY <1>2, <2>1, <2>2
<1>5. CASE BeginCrank \/ CommitCrank \/ RollbackCrank
  BY <1>4, <1>5 DEF BeginCrank, CommitCrank, RollbackCrank
<1>6. ASSUME NEW sends, GiveUp(sends) PROVE kv'.rows = kv.rows
  BY <1>6, SenderTyped DEF GiveUp, StoreType
<1>7. CASE HandleAckTimeout \/ TransportGivesUp \/ SendFailsForGood
  BY <1>4, <1>6, <1>7 DEF HandleAckTimeout, TransportGivesUp, SendFailsForGood
<1>8. CASE StartSend \/ SendFails \/ WriteMessage \/ AttachTransport
           \/ UNCHANGED senderVars
  BY <1>4, <1>8
  DEF StartSend, SendFails, WriteMessage, SendIsOver, AttachTransport, senderVars
<1>9. CASE Restart
  <2>1. PICK s \in {kv, undo} : RestartOver(s)
    BY <1>9 DEF Restart
  <2>2. \E gone : kv'.rows = Without(s.rows, gone)
    BY <2>1 DEF RestartOver
  <2>3. undo' = EmptyStore
    BY <2>1 DEF RestartOver
  <2> QED
    BY <1>4, <2>2, <2>3
<1>10. CASE \E packet \in wired : HandleAck(packet[1])
  <2>1. undo' = undo /\ kv' = PersistAcknowledged(kv, window')
    BY <1>10 DEF HandleAck
  <2>2. kv' = kv \/ \E gone : kv'.rows = Without(kv.rows, gone)
    BY <2>1 DEF PersistAcknowledged
  <2> QED
    BY <1>4, <2>1, <2>2
<1> QED
  BY <1>1, <1>3, <1>5, <1>7, <1>8, <1>9, <1>10 DEF SenderNext, SenderStep

(* What the chain becomes: all that was in `sends`, and rows of the store. *)
SendsOf(sends, rows) ==
    InMadeOrder(chain') /\ Puts(chain') \subseteq Puts(sends) \cup Rows(rows)

(* A flush adds rows in the order of their numbers.                        *)
LEMMA FlushInOrder ==
    ASSUME NEW waiting, NEW rows, NEW timer, NEW top,
           FlushTyped(waiting, rows, top),
           FlushTransmitQueue(waiting, rows, timer),
           InMadeOrder(chain), AllBefore(Puts(chain) \cup Rows(rows), Rows(rows))
    PROVE  SendsOf(chain, rows)
<1>1. CASE ~attached'
  BY <1>1, FlushWaits DEF SendsOf
<1>2. CASE attached'
  <2>1. PICK stop : Flushed(stop, waiting, rows, top)
    BY <1>2, FlushIs
  <2> DEFINE passed == Passed(stop, rows)
             k == Cardinality(passed)
             order == InOrder(passed)
             added == [i \in 1 .. k |-> Send(order[i], rows[order[i]], FALSE)]
  <2>2. top \in Nat /\ chain \in Seq(SendType(top))
    BY SenderAssumption DEF FlushTyped
  <2>3. IsStop(stop, waiting, rows) /\ chain' = chain \o added
    BY <2>1 DEF Flushed
  <2>4. /\ passed \in SUBSET (1 .. top)
        /\ \A n \in passed : n \in DOMAIN rows
                               /\ Send(n, rows[n], FALSE) \in SendType(top)
    BY <2>3, PassedTyped
  <2>5. /\ order \in [1 .. k -> passed] /\ IsAscending(order) /\ k \in Nat
    BY <2>2, <2>4, InOrderOrders
  <2> HIDE DEF passed, k, order
  <2>6. \A i \in 1 .. k : order[i] \in passed
    BY <2>5
  <2>7. added \in [1 .. k -> SendType(top)]
    BY <2>4, <2>6
  <2>8. \A i \in 1 .. k : added[i] = Send(order[i], rows[order[i]], FALSE)
    OBVIOUS
  <2> HIDE DEF added
  <2>9. DOMAIN added = 1 .. k
    BY <2>7
  <2>10. \A i \in 1 .. k : /\ Put(added[i]) = <<order[i], rows[order[i]]>>
                           /\ Put(added[i]) \in Rows(rows)
    <3> TAKE i \in 1 .. k
    <3>1. Put(added[i]) = <<order[i], rows[order[i]]>>
      <4>1. PICK n : n = order[i]
        OBVIOUS
      <4>2. Put(Send(n, rows[n], FALSE)) = <<n, rows[n]>>
        BY DEF Send, Put
      <4> QED
        BY <2>8, <4>1, <4>2
    <3> QED
      BY <2>4, <2>6, <3>1 DEF Rows
  <2>11. Puts(added) \subseteq Rows(rows)
    BY <2>9, <2>10 DEF Puts
  <2>12. InMadeOrder(added)
    BY <2>9, <2>10 DEF InMadeOrder, AllBefore
  <2>13. AllBefore(Puts(chain), Puts(added))
    BY <2>11 DEF AllBefore
  <2>14. /\ InMadeOrder(chain \o added)
         /\ Puts(chain \o added) = Puts(chain) \cup Puts(added)
    BY <2>2, <2>5, <2>7, <2>12, <2>13, OrderOfJoined
  <2> QED
    BY <2>3, <2>11, <2>14 DEF SendsOf
<1> QED
  BY <1>1, <1>2

(* A round of the retransmission loop adds one row at most.                *)
LEMMA RetransmitInOrder ==
    ASSUME SenderTypeOK, NEW n \in Nat, NEW sends \in Seq(SendType(made)),
           NEW timer \in BOOLEAN, RetransmitFrom(n, sends, timer),
           InMadeOrder(sends), AllBefore(Puts(sends), Rows(kv.rows))
    PROVE  SendsOf(sends, kv.rows)
<1> DEFINE left == {seq \in DOMAIN kv.rows : n <= seq /\ seq <= window.next}
           least == Min(left)
           send == Send(least, kv.rows[least], TRUE)
<1>1. CASE left = {}
  BY <1>1 DEF RetransmitFrom, SendsOf
<1>2. CASE left # {}
  <2>1. chain' = Append(sends, send)
    BY <1>2 DEF RetransmitFrom
  <2>2. least \in left
    <3>1. left \in SUBSET Nat
      BY SenderNumbers
    <3> HIDE DEF left
    <3> QED
      BY <1>2, <3>1, MinIs
  <2>3. /\ least \in 1 .. made /\ kv.rows[least] \in 1 .. made
        /\ least \in DOMAIN kv.rows
    BY <2>2, SenderNumbers
  <2> HIDE DEF left, least
  <2>4. send \in SendType(made) /\ Put(send) = <<least, kv.rows[least]>>
    BY <2>3 DEF Send, SendType, Put
  <2> HIDE DEF send
  <2>5. Put(send) \in Rows(kv.rows)
    BY <2>3, <2>4 DEF Rows
  <2>6. InMadeOrder(Append(sends, send))
    <3>1. AllBefore(Puts(sends), {Put(send)})
      BY <2>5 DEF AllBefore
    <3> QED
      BY <2>4, <3>1, OrderOfAppend
  <2>7. Puts(Append(sends, send)) = Puts(sends) \cup {Put(send)}
    BY <2>4, PutsOfAppend
  <2> QED
    BY <2>1, <2>5, <2>6, <2>7 DEF SendsOf
<1> QED
  BY <1>1, <1>2

(* Letting the head go, and going on with its loop.                        *)
LEMMA NextRoundInOrder ==
    ASSUME SenderTypeOK, chain # <<>>,
           IF Head(chain).loop
           THEN RetransmitFrom(Head(chain).seq + 1, Tail(chain), ackTimer)
           ELSE chain' = Tail(chain) /\ UNCHANGED ackTimer,
           InMadeOrder(chain), AllBefore(Puts(chain), Rows(kv.rows))
    PROVE  SendsOf(Tail(chain), kv.rows)
<1>1. /\ InMadeOrder(Tail(chain)) /\ Puts(Tail(chain)) \subseteq Puts(chain)
      /\ Tail(chain) \in Seq(SendType(made)) /\ chain \in Seq(SendType(made))
  BY SenderTyped, OrderOfTail, PutsOfTail
<1>2. AllBefore(Puts(Tail(chain)), Rows(kv.rows))
  BY <1>1 DEF AllBefore
<1>3. CASE Head(chain).loop
  <2>1. Head(chain).seq + 1 \in Nat /\ ackTimer \in BOOLEAN
    BY HeadTyped DEF SenderTypeOK
  <2> QED
    BY <1>1, <1>2, <1>3, <2>1, RetransmitInOrder
<1>4. CASE ~Head(chain).loop
  BY <1>1, <1>4 DEF SendsOf
<1> QED
  BY <1>3, <1>4

LEMMA GiveUpInOrder ==
    ASSUME SenderTypeOK, NEW sends \in Seq(SendType(made)), GiveUp(sends),
           InMadeOrder(sends)
    PROVE  SendsOf(sends, kv.rows)
<1>1. chain' = Retired(sends)
  BY DEF GiveUp
<1> QED
  BY <1>1, SenderTyped, OrderOfRetired DEF SendsOf

(* Every step leaves the chain in order, and adds nothing to it but rows.  *)
LEMMA StepSendsInOrder ==
    ASSUME SenderTypeOK, BusinessInv, [SenderNext]_senderVars,
           InMadeOrder(chain),
           AllBefore(Puts(chain) \cup Rows(kv.rows), Rows(kv.rows)),
           AllBefore(Puts(chain) \cup Rows(kv'.rows), Rows(kv'.rows))
    PROVE  /\ InMadeOrder(chain')
           /\ Puts(chain') \subseteq Puts(chain) \cup Rows(kv.rows)
                                       \cup Rows(kv'.rows)
           /\ WriteMessage => SendsOf(Tail(chain), kv.rows)
<1>1. AllBefore(Puts(chain), Rows(kv.rows)) /\ chain \in Seq(SendType(made))
  BY SenderTyped DEF AllBefore
<1>2. writing => chain # <<>>
  BY DEF SenderTypeOK
<1>3. chain # <<>> => /\ Tail(chain) \in Seq(SendType(made))
                      /\ InMadeOrder(Tail(chain))
                      /\ Puts(Tail(chain)) \subseteq Puts(chain)
  BY <1>1, PutsOfTail, OrderOfTail
<1>4. ASSUME NEW sends, Puts(sends) \subseteq Puts(chain),
             SendsOf(sends, kv.rows) \/ SendsOf(sends, kv'.rows)
      PROVE  /\ InMadeOrder(chain')
             /\ Puts(chain') \subseteq Puts(chain) \cup Rows(kv.rows)
                                         \cup Rows(kv'.rows)
  BY <1>4 DEF SendsOf
<1>5. CASE UNCHANGED chain /\ ~WriteMessage
  BY <1>5
<1>6. CASE WriteMessage \/ SendFails
  <2>1. SendsOf(Tail(chain), kv.rows)
    BY <1>1, <1>2, <1>6, NextRoundInOrder DEF WriteMessage, SendFails, SendIsOver
  <2> QED
    BY <1>2, <1>3, <1>4, <1>6, <2>1 DEF WriteMessage, SendFails
<1>7. SUFFICES ASSUME ~WriteMessage, ~SendFails, ~UNCHANGED chain
               PROVE  \E sends : /\ Puts(sends) \subseteq Puts(chain)
                                 /\ SendsOf(sends, kv.rows)
                                      \/ SendsOf(sends, kv'.rows)
  BY <1>4, <1>5, <1>6
<1>8. CASE SendRemoteCommand
  <2>1. /\ made < MaxMade /\ kv' = Persist(kv, window, made + 1)
        /\ Transmit(Persisted(kv, window), kv'.rows)
    BY <1>8 DEF SendRemoteCommand
  <2> DEFINE p == Persisted(kv, window)
             waiting == With(awaitingTransmit, p.seq, p.wasEmpty)
  <2>2. /\ p \in OwedType(made + 1) /\ kv' \in StoreType(made + 1)
        /\ made \in Nat /\ made + 1 \in 0 .. MaxMade
    BY <2>1, SenderTyped, PersistTyped, SendWindowTyped
  <2>3. FlushTransmitQueue(waiting, kv'.rows, ackTimer)
    BY <2>1 DEF Transmit
  <2> HIDE DEF p
  <2>4. waiting \in WaitingType(made + 1)
    BY <2>1, <2>2, TypesGrowTo, OneMoreWaiting DEF OwedType
  <2> HIDE DEF waiting
  <2>5. FlushTyped(waiting, kv'.rows, made + 1)
    <3>1. kv'.rows \in RowsType(made + 1)
      BY <2>2 DEF StoreType
    <3> QED
      BY <2>1, <2>2, <2>4, <3>1, TypesGrowTo DEF FlushTyped
  <2> QED
    BY <2>3, <2>5, FlushInOrder
<1>9. CASE CommitCrank
  <2>1. owed # NoDelivery /\ Transmit(owed, kv.rows)
    BY <1>7, <1>9 DEF CommitCrank, memoryVars
  <2> DEFINE waiting == With(awaitingTransmit, owed.seq, owed.wasEmpty)
  <2>2. waiting \in WaitingType(made)
    BY <2>1, SenderNumbers, SenderTyped, OneMoreWaiting
  <2>3. FlushTransmitQueue(waiting, kv.rows, ackTimer)
    BY <2>1 DEF Transmit
  <2> HIDE DEF waiting
  <2>4. FlushTyped(waiting, kv.rows, made)
    BY <2>2, SenderTyped DEF FlushTyped
  <2> QED
    BY <2>3, <2>4, FlushInOrder
<1>10. CASE AttachTransport
  <2>1. FlushTransmitQueue(awaitingTransmit, kv.rows, HasPending(window))
    BY <1>10 DEF AttachTransport
  <2>2. FlushTyped(awaitingTransmit, kv.rows, made)
    BY SenderTyped DEF FlushTyped
  <2> QED
    BY <2>1, <2>2, FlushInOrder
<1>11. CASE HandleAckTimeout
  <2>1. CASE HasPending(window) /\ RetriesSpent
    <3>1. GiveUp(chain)
      BY <1>11, <2>1 DEF HandleAckTimeout
    <3> QED
      BY <1>1, <3>1, GiveUpInOrder
  <2>2. CASE HasPending(window) /\ ~RetriesSpent
    <3>1. RetransmitFrom(window.start, chain, FALSE)
      BY <1>11, <2>2 DEF HandleAckTimeout
    <3>2. window.start \in Nat
      BY SenderNumbers
    <3> QED
      BY <1>1, <3>1, <3>2, RetransmitInOrder
  <2> QED
    BY <1>7, <1>11, <2>1, <2>2 DEF HandleAckTimeout
<1>12. CASE TransportGivesUp
  BY <1>1, <1>12, GiveUpInOrder DEF TransportGivesUp
<1>13. CASE StartSend
  <2>1. chain # <<>> /\ SendsOf(Tail(chain), kv.rows)
    BY <1>1, <1>7, <1>13, NextRoundInOrder DEF StartSend
  <2> QED
    BY <1>3, <2>1
<1>14. CASE SendFailsForGood
  <2>1. chain # <<>> /\ GiveUp(Tail(chain))
    BY <1>2, <1>14 DEF SendFailsForGood
  <2> QED
    BY <1>3, <2>1, GiveUpInOrder
<1>15. CASE Restart
  <2>1. chain' = <<>>
    BY <1>15 DEF Restart, RestartOver
  <2>2. SendsOf(chain, kv.rows)
    BY <2>1, OrderOfEmpty, EmptyPuts DEF SendsOf
  <2> QED
    BY <2>2
<1>16. ~BeginCrank /\ ~RollbackCrank /\ \A exempt : ~DeliverToPeer(exempt)
       /\ \A ack : ~HandleAck(ack)
  BY <1>7 DEF BeginCrank, RollbackCrank, DeliverToPeer, HandleAck, memoryVars
<1>17. ~UNCHANGED senderVars
  BY <1>7 DEF senderVars
<1> QED
  BY <1>7, <1>8, <1>9, <1>10, <1>11, <1>12, <1>13, <1>14, <1>15, <1>16, <1>17
  DEF SenderNext, SenderStep

-----------------------------------------------------------------------------
(* The order along the whole way, from the log back to the store.          *)

(* Every stage is in order, and before all the stages behind it.           *)
FrontInv ==
    /\ InMadeOrder(committed.log)
    /\ InMadeOrder(arrivals)
    /\ InMadeOrder(wire)
    /\ AllBefore(Puts(committed.log), Taking)
    /\ AllBefore(Puts(committed.log) \cup Taking, Puts(arrivals))
    /\ AllBefore(Puts(committed.log) \cup Taking \cup Puts(arrivals), Puts(wire))

(* All of them are before the chain, and before what the chain may yet     *)
(* have added to it.                                                       *)
BackInv ==
    /\ InMadeOrder(chain)
    /\ AllBefore(OnTheWay, Puts(chain))
    /\ AllBefore(OnTheWay \cup Puts(chain) \cup Numbered, Numbered)

(* A message newly numbered comes after everything.                        *)
LEMMA NewestComesLast ==
    ASSUME SessionInv, BusinessInv, BackInv, [SenderNext]_senderVars
    PROVE  AllBefore(OnTheWay \cup Puts(chain) \cup Numbered \cup Numbered',
                     Numbered')
<1> DEFINE P == OnTheWay \cup Puts(chain) \cup Numbered
<1>1. PICK fresh : /\ Numbered' \subseteq Numbered \cup fresh
                   /\ \A p \in fresh : IsNewest(p)
                   /\ \A p, q \in fresh : p = q
  BY NumbersGrow DEF SessionInv
<1>2. \A p \in P : p[2] \in 1 .. made
  <2>1. \A p \in OnTheWay : p[2] \in 1 .. made
    BY DEF SessionInv, WiredInv, SenderTypeOK, PacketType
  <2>2. \A p \in Puts(chain) : p[2] \in 1 .. made
    <3>1. \A i \in DOMAIN chain : chain[i] \in SendType(made)
      BY StagesTyped
    <3> QED
      BY <3>1 DEF Puts, Put, SendType
  <2>3. \A p \in Numbered : p[2] \in 1 .. made
    BY SenderNumbers DEF Numbered, Rows, SessionInv
  <2> QED
    BY <2>1, <2>2, <2>3
<1>3. \A p \in Numbered : p[1] \in Nat
  BY SenderNumbers DEF Numbered, Rows, SessionInv
<1>4. made \in Nat
  BY SenderTyped DEF SessionInv
<1>5. AllBefore(P, Numbered) /\ Numbered \subseteq P
  BY DEF BackInv
<1> HIDE DEF P
<1>6. AllBefore(P, fresh)
  BY <1>1, <1>2, <1>4 DEF AllBefore, Before, IsNewest
<1>7. AllBefore(fresh, Numbered)
  <2> SUFFICES ASSUME NEW p \in fresh, NEW q \in Numbered PROVE Before(p, q)
    BY DEF AllBefore
  <2>1. q[1] \in Nat /\ p[1] \in Nat /\ q[1] < p[1]
    BY <1>1, <1>3 DEF IsNewest
  <2> QED
    BY <2>1 DEF Before
<1>8. AllBefore(fresh, fresh)
  <2> SUFFICES ASSUME NEW p \in fresh, NEW q \in fresh PROVE Before(p, q)
    BY DEF AllBefore
  <2>1. p = q /\ p[1] \in Nat
    BY <1>1 DEF IsNewest
  <2> QED
    BY <2>1 DEF Before
<1>9. AllBefore(P \cup fresh, Numbered \cup fresh)
  BY <1>5, <1>6, <1>7, <1>8 DEF AllBefore
<1>10. P \cup Numbered' \subseteq P \cup fresh
  BY <1>1, <1>5
<1> QED
  BY <1>1, <1>9, <1>10, FewerBefore DEF P

(* What the sender's part of a session step leaves in order.               *)
LEMMA ChainStaysInOrder ==
    ASSUME ~DiesMidWrite, SessionInv, BusinessInv, BackInv,
           [SessionNext]_sessionVars
    PROVE  /\ InMadeOrder(chain')
           /\ Puts(chain') \subseteq Puts(chain) \cup Numbered \cup Numbered'
           /\ AllBefore(OnTheWay \cup Puts(chain) \cup Numbered \cup Numbered',
                        Numbered')
           /\ WriteMessage => Puts(chain') \subseteq Puts(Tail(chain)) \cup Numbered
<1>1. CASE OtherFault
  <2>1. /\ UNCHANGED <<chain, kv, undo>> /\ ~WriteMessage
    <3>1. UNCHANGED <<chain, kv, undo>> /\ wired' = wired /\ faults' = faults + 1
          /\ faults \in Nat
      BY <1>1, SenderAssumption
      DEF OtherFault, memoryVars, historyVars, SessionInv, SenderTypeOK
    <3>2. faults' # faults
      BY <3>1
    <3> QED
      BY <3>1, <3>2 DEF WriteMessage
  <2>2. Numbered' = Numbered
    BY <2>1 DEF Numbered
  <2> QED
    BY <2>1, <2>2 DEF BackInv
<1>2. CASE [SenderNext]_senderVars
  <2>1. AllBefore(OnTheWay \cup Puts(chain) \cup Numbered \cup Numbered',
                  Numbered')
    BY <1>2, NewestComesLast
  <2>2. Rows(kv.rows) \subseteq Numbered /\ Rows(kv'.rows) \subseteq Numbered'
    BY DEF Numbered
  <2>3. AllBefore(Puts(chain) \cup Rows(kv.rows), Rows(kv.rows))
    BY <2>2 DEF BackInv, AllBefore
  <2>4. AllBefore(Puts(chain) \cup Rows(kv'.rows), Rows(kv'.rows))
    BY <2>1, <2>2 DEF AllBefore
  <2>5. /\ InMadeOrder(chain')
        /\ Puts(chain') \subseteq Puts(chain) \cup Rows(kv.rows)
                                    \cup Rows(kv'.rows)
        /\ WriteMessage => SendsOf(Tail(chain), kv.rows)
    BY <1>2, <2>3, <2>4, StepSendsInOrder DEF SessionInv, BackInv
  <2> QED
    BY <2>1, <2>2, <2>5 DEF SendsOf
<1> QED
  BY <1>1, <1>2, StepOfSender DEF SessionInv

LEMMA BackStaysInOrder ==
    ASSUME ~DiesMidWrite, SessionInv, BusinessInv, BackInv,
           [SessionNext]_sessionVars
    PROVE  BackInv'
<1>1. /\ InMadeOrder(chain')
      /\ Puts(chain') \subseteq Puts(chain) \cup Numbered \cup Numbered'
      /\ AllBefore(OnTheWay \cup Puts(chain) \cup Numbered \cup Numbered',
                   Numbered')
      /\ WriteMessage => Puts(chain') \subseteq Puts(Tail(chain)) \cup Numbered
  BY ChainStaysInOrder
<1>2. AllBefore(OnTheWay, Puts(chain) \cup Numbered \cup Numbered')
  BY <1>1 DEF BackInv, AllBefore
<1>3. CASE WayStep
  <2>1. OnTheWay' \subseteq OnTheWay
    BY <1>3, NothingFromNowhere
  <2>2. AllBefore(OnTheWay', Puts(chain'))
    BY <1>1, <1>2, <2>1, FewerBefore
  <2>3. AllBefore(OnTheWay' \cup Puts(chain') \cup Numbered', Numbered')
    BY <1>1, <2>1, FewerBefore
  <2> QED
    BY <1>1, <2>2, <2>3 DEF BackInv
<1>4. CASE Write /\ WayWritten
  <2> DEFINE h == Put(Head(chain))
  <2>1. chain # <<>> /\ chain \in Seq(SendType(made))
    BY <1>4, StagesTyped DEF WayWritten
  <2>2. h \in Puts(chain) /\ AllBefore({h}, Puts(Tail(chain)))
        /\ Puts(Tail(chain)) \subseteq Puts(chain)
    BY <2>1, PutsOfTail, OrderOfTail DEF BackInv
  <2>3. OnTheWay' = OnTheWay \cup {h}
    <3> DEFINE p == [seq |-> Head(chain).seq, msg |-> Head(chain).msg]
    <3>1. p \in Packets /\ Put(p) = h
      BY <2>1, ChainIsReadable DEF Put
    <3>2. wire' = Append(wire, p) /\ Taking' = Taking
          /\ UNCHANGED <<committed, arrivals>>
      BY <1>4 DEF WayWritten
    <3> HIDE DEF p, h
    <3>3. Puts(wire') = Puts(wire) \cup {h}
      BY <3>1, <3>2, StagesTyped, PutsOfAppend
    <3> QED
      BY <3>2, <3>3 DEF OnTheWay
  <2> HIDE DEF h
  <2>4. Puts(chain') \subseteq Puts(Tail(chain)) \cup Numbered
    BY <1>1, <1>4 DEF Write
  <2>5. AllBefore({h}, Puts(Tail(chain)) \cup Numbered)
    BY <2>2 DEF BackInv, AllBefore
  <2>6. AllBefore(OnTheWay, Puts(Tail(chain)) \cup Numbered)
    BY <1>2, <2>2 DEF AllBefore
  <2>7. AllBefore(OnTheWay', Puts(chain'))
    BY <2>3, <2>4, <2>5, <2>6 DEF AllBefore
  <2>8. OnTheWay' \cup Puts(chain') \cup Numbered'
          \subseteq OnTheWay \cup Puts(chain) \cup Numbered \cup Numbered'
    BY <1>1, <2>2, <2>3
  <2>9. AllBefore(OnTheWay' \cup Puts(chain') \cup Numbered', Numbered')
    BY <1>1, <2>8, FewerBefore
  <2> QED
    BY <1>1, <2>7, <2>9 DEF BackInv
<1> QED
  BY <1>3, <1>4, StepOfWay

LEMMA FrontStaysInOrder ==
    ASSUME SessionInv, FrontInv, BackInv, WayStep \/ WayWritten
    PROVE  FrontInv'
<1> DEFINE L == Puts(committed.log)
           A == Puts(arrivals)
           W == Puts(wire)
<1> PICK l, a, w, T : /\ l = committed'.log /\ a = arrivals'
                      /\ w = wire' /\ T = Taking'
  OBVIOUS
<1>1. /\ committed.log \in Seq(Packets) /\ arrivals \in Seq(Packets)
      /\ wire \in Seq(Packets)
  BY StagesTyped
<1>2. SUFFICES /\ InMadeOrder(l) /\ InMadeOrder(a) /\ InMadeOrder(w)
               /\ AllBefore(Puts(l), T)
               /\ AllBefore(Puts(l) \cup T, Puts(a))
               /\ AllBefore(Puts(l) \cup T \cup Puts(a), Puts(w))
  BY DEF FrontInv
<1>3. CASE WayStays
  BY <1>3 DEF WayStays, FrontInv
<1>4. CASE WayWritten
  <2> DEFINE p == [seq |-> Head(chain).seq, msg |-> Head(chain).msg]
  <2>1. p \in Packets /\ Put(p) \in Puts(chain) /\ w = Append(wire, p)
    <3>1. chain # <<>> /\ w = Append(wire, p)
      BY <1>4 DEF WayWritten
    <3>2. Put(p) = Put(Head(chain)) /\ Put(Head(chain)) \in Puts(chain)
      BY <3>1, StagesTyped, PutsOfTail DEF Put
    <3> QED
      BY <3>1, <3>2, ChainIsReadable
  <2> HIDE DEF p
  <2>2. AllBefore(OnTheWay, {Put(p)})
    BY <2>1 DEF BackInv, AllBefore
  <2>3. AllBefore(W, {Put(p)}) /\ AllBefore(L \cup Taking \cup A, {Put(p)})
    BY <2>2 DEF AllBefore, OnTheWay
  <2>4. InMadeOrder(w) /\ Puts(w) = W \cup {Put(p)}
    BY <1>1, <2>1, <2>3, OrderOfAppend, PutsOfAppend DEF FrontInv
  <2>5. AllBefore(L \cup Taking \cup A, W \cup {Put(p)})
    BY <2>3 DEF FrontInv, AllBefore
  <2> QED
    BY <1>4, <2>4, <2>5 DEF WayWritten, FrontInv
<1>5. CASE WayArrives
  <2> DEFINE h == Head(wire)
  <2>1. wire # <<>> /\ w = Tail(wire) /\ (a = arrivals \/ a = Append(arrivals, h))
        /\ T = Taking /\ l = committed.log
    BY <1>5 DEF WayArrives
  <2>2. /\ InMadeOrder(w) /\ AllBefore({Put(h)}, Puts(w))
        /\ Puts(w) \subseteq W /\ Put(h) \in W /\ h \in Packets
    BY <1>1, <2>1, PutsOfTail, OrderOfTail DEF FrontInv
  <2> HIDE DEF h
  <2>3. AllBefore(L \cup Taking \cup A, {Put(h)} \cup Puts(w))
    BY <2>2 DEF FrontInv, AllBefore
  <2>4. InMadeOrder(a) /\ Puts(a) \subseteq A \cup {Put(h)}
    <3>1. AllBefore(A, {Put(h)})
      BY <2>3 DEF AllBefore
    <3> QED
      BY <1>1, <2>1, <2>2, <3>1, OrderOfAppend, PutsOfAppend DEF FrontInv
  <2>5. AllBefore(L \cup Taking, Puts(a))
    BY <2>3, <2>4 DEF FrontInv, AllBefore
  <2>6. AllBefore(L \cup Taking \cup Puts(a), Puts(w))
    BY <2>2, <2>3, <2>4 DEF AllBefore
  <2> QED
    BY <2>1, <2>2, <2>4, <2>5, <2>6 DEF FrontInv
<1>6. CASE WayTaken
  <2> DEFINE h == Head(arrivals)
  <2>1. arrivals # <<>> /\ a = Tail(arrivals) /\ T \subseteq {Put(h)}
        /\ l = committed.log /\ w = wire
    BY <1>6 DEF WayTaken
  <2>2. /\ InMadeOrder(a) /\ AllBefore({Put(h)}, Puts(a))
        /\ Puts(a) \subseteq A /\ Put(h) \in A
    BY <1>1, <2>1, PutsOfTail, OrderOfTail DEF FrontInv
  <2> HIDE DEF h
  <2>3. AllBefore(L, T) /\ AllBefore(L \cup T, Puts(a))
    BY <2>1, <2>2 DEF FrontInv, AllBefore
  <2>4. AllBefore(L \cup T \cup Puts(a), W)
    BY <2>1, <2>2 DEF FrontInv, AllBefore
  <2> QED
    BY <2>1, <2>2, <2>3, <2>4 DEF FrontInv
<1>7. CASE WayEnds
  <2>1. T = {} /\ a \in {arrivals, <<>>} /\ w \in {wire, <<>>}
        /\ (committed' = committed \/ LogGains)
    BY <1>7 DEF WayEnds
  <2>2. InMadeOrder(a) /\ Puts(a) \subseteq A
    BY <2>1, OrderOfEmpty, EmptyPuts DEF FrontInv
  <2>3. InMadeOrder(w) /\ Puts(w) \subseteq W
    BY <2>1, OrderOfEmpty, EmptyPuts DEF FrontInv
  <2>4. InMadeOrder(l) /\ Puts(l) \subseteq L \cup Taking
    <3>1. CASE committed' = committed
      BY <3>1 DEF FrontInv
    <3>2. CASE LogGains
      <4>1. /\ inbound \in Packets /\ Taking = {Put(inbound)}
            /\ l = Append(committed.log, inbound)
        BY <3>2 DEF LogGains
      <4>2. AllBefore(L, {Put(inbound)}) /\ InMadeOrder(committed.log)
        BY <4>1 DEF FrontInv
      <4> QED
        BY <1>1, <4>1, <4>2, OrderOfAppend, PutsOfAppend
    <3> QED
      BY <2>1, <3>1, <3>2
  <2> QED
    BY <2>1, <2>2, <2>3, <2>4 DEF FrontInv, AllBefore
<1>8. CASE WayBreaks
  <2>1. InMadeOrder(w) /\ Puts(w) \subseteq W
    BY <1>1, <1>8, OrderOfPrefix, PutsOfPrefix DEF WayBreaks, FrontInv
  <2>2. a = arrivals /\ T = Taking /\ l = committed.log
    BY <1>8 DEF WayBreaks
  <2> QED
    BY <2>1, <2>2 DEF FrontInv, AllBefore
<1> QED
  BY <1>3, <1>4, <1>5, <1>6, <1>7, <1>8 DEF WayStep

-----------------------------------------------------------------------------
(* The order the receiver takes messages in.                               *)

OrderInv == SessionInv /\ BusinessInv /\ FrontInv /\ BackInv

LEMMA OrderInitially == SessionInit => OrderInv
<1> SUFFICES ASSUME SessionInit PROVE OrderInv
  OBVIOUS
<1>1. SessionInv /\ BusinessInv
  BY SessionInitially, BusinessInitially DEF SessionInit
<1>2. /\ wire = <<>> /\ arrivals = <<>> /\ committed.log = <<>>
      /\ inbound = NoArrival /\ chain = <<>>
      /\ kv = EmptyStore /\ undo = EmptyStore
  BY DEF SessionInit, SenderInit, ReceiverInit, EmptyReceipts
<1>3. /\ Puts(committed.log) = {} /\ Puts(arrivals) = {} /\ Puts(wire) = {}
      /\ Puts(chain) = {} /\ Taking = {} /\ Numbered = {}
      /\ InMadeOrder(committed.log) /\ InMadeOrder(arrivals)
      /\ InMadeOrder(wire) /\ InMadeOrder(chain)
  BY <1>2, EmptyPuts, NoRowsPut, OrderOfEmpty DEF Taking, Numbered
<1> QED
  BY <1>1, <1>3 DEF OrderInv, FrontInv, BackInv, AllBefore, OnTheWay

LEMMA NextOrderKept ==
    ASSUME ~DiesMidWrite, OrderInv, [SessionNext]_sessionVars
    PROVE  OrderInv'
<1>1. SessionInv'
  BY NextSessionKept DEF OrderInv
<1>2. BusinessInv'
  <2>1. CASE [SenderNext]_senderVars
    BY <2>1, NextKeepsBusiness DEF OrderInv, SessionInv
  <2>2. CASE OtherFault
    <3>1. UNCHANGED <<window, lastTransmittedSeq, awaitingTransmit, chain,
                      inCrank, kv, undo, owed, durable, handed, ackedUpTo,
                      abandoned>>
      BY <2>2 DEF OtherFault, memoryVars, historyVars
    <3>2. FreshChain'
      BY <3>1 DEF OrderInv, BusinessInv, Memory, MemoryInv, FreshChain
    <3> QED
      BY <3>1, <3>2, ChainKeepsBusiness DEF OrderInv, SessionInv
  <2> QED
    BY <2>1, <2>2, StepOfSender DEF OrderInv, SessionInv
<1>3. FrontInv'
  BY StepOfWay, FrontStaysInOrder DEF OrderInv
<1>4. BackInv'
  BY BackStaysInOrder DEF OrderInv
<1> QED
  BY <1>1, <1>2, <1>3, <1>4 DEF OrderInv

(* The receiver carries messages out in the order they were made, each at  *)
(* most once: a number written down twice, a retransmission or a crank     *)
(* sent from and then rolled back never puts an older message after a      *)
(* newer one (RemoteHandle numbers, sends, holds and records messages one  *)
(* after another), if the kernel does not die between two writes that no   *)
(* transaction joins.                                                      *)
THEOREM AlwaysTakenInMadeOrder ==
    ASSUME ~DiesMidWrite
    PROVE  SessionSpec => []TakenInMadeOrder
<1>1. OrderInv => TakenInMadeOrder
  <2> SUFFICES ASSUME OrderInv,
                      NEW i \in DOMAIN committed.log,
                      NEW j \in DOMAIN committed.log, i < j
               PROVE  committed.log[i].msg < committed.log[j].msg
    BY DEF TakenInMadeOrder
  <2>1. committed.log[i].seq < committed.log[j].seq
    BY DEF OrderInv, SessionInv, ReceiverInv, LogMatches, TakenInOrder
  <2>2. Before(Put(committed.log[i]), Put(committed.log[j]))
    BY DEF OrderInv, FrontInv, InMadeOrder
  <2> QED
    BY <2>1, <2>2 DEF Before, Put
<1>2. OrderInv /\ [SessionNext]_sessionVars => OrderInv'
  BY NextOrderKept
<1> QED
  BY <1>1, <1>2, OrderInitially, PTL DEF SessionSpec

(* In a session too, no committed message leaves the sender's care, and    *)
(* the hand-over leaves none behind.                                       *)
THEOREM SessionForgetsNothing ==
    ASSUME ~DiesMidWrite
    PROVE  SessionSpec => [](NothingForgotten /\ NothingSteppedOver)
<1>1. OrderInv => NothingForgotten /\ NothingSteppedOver
  BY BusinessForgetsNothing, BusinessStepsOverNothing DEF OrderInv, SessionInv
<1>2. OrderInv /\ [SessionNext]_sessionVars => OrderInv'
  BY NextOrderKept
<1> QED
  BY <1>1, <1>2, OrderInitially, PTL DEF SessionSpec

=============================================================================
