--------------------------- MODULE PeerRestartProofs ---------------------------
(* Proofs about PeerRestart, for any number of lives of the peer, messages,  *)
(* crashes and arrivals waiting.                                             *)
EXTENDS PeerRestart, FiniteSetTheorems, SequenceTheorems, TLAPS

LEMMA Bounds ==
    /\ MaxIncarnations \in Nat \ {0} /\ MaxArrivals \in Nat \ {0}
    /\ MaxSeq \in Nat /\ MaxMade \in Nat /\ MaxTaken \in Nat
    /\ MaxCrashes \in Nat
BY BoundsAreNaturals

LEMMA ZeroIsSeq == 0 \in 0 .. MaxSeq
BY Bounds

LEMMA MinOfOne == ASSUME NEW n \in Int PROVE Min({n}) = n
BY DEF Min

-----------------------------------------------------------------------------
(* What waits for the run loop.                                            *)

IsMessage(item) == item.type = "message"
IsIncarnation(item) == item.type = "incarnation"
IsFirst(item) == IsIncarnation(item) /\ ~item.restart
IsRestart(item) == IsIncarnation(item) /\ item.restart

LEMMA ItemIsMessageOrIncarnation ==
    ASSUME NEW item \in Items
    PROVE  /\ IsMessage(item) \/ IsIncarnation(item)
           /\ ~(IsMessage(item) /\ IsIncarnation(item))
           /\ IsMessage(item) => item.from \in Incarnations /\ item.seq \in Seqs
           /\ IsIncarnation(item) => /\ item.incarnation \in Incarnations
                                     /\ item.restart \in BOOLEAN
           /\ item # NoArrival
BY NoArrivalAssumption DEF Items, IsMessage, IsIncarnation

LEMMA InboundItemIsItem ==
    ASSUME NEW i \in Incarnations, NEW n \in Seqs
    PROVE  /\ InboundItem(i, n) \in Items
           /\ IsMessage(InboundItem(i, n)) /\ ~IsIncarnation(InboundItem(i, n))
           /\ InboundItem(i, n).from = i /\ InboundItem(i, n).seq = n
BY DEF Items, InboundItem, IsMessage, IsIncarnation

LEMMA IncarnationItemIsItem ==
    ASSUME NEW i \in Incarnations, NEW restart \in BOOLEAN
    PROVE  /\ IncarnationItem(i, restart) \in Items
           /\ IsIncarnation(IncarnationItem(i, restart))
           /\ ~IsMessage(IncarnationItem(i, restart))
           /\ IncarnationItem(i, restart).incarnation = i
           /\ IncarnationItem(i, restart).restart = restart
BY DEF Items, IncarnationItem, IsMessage, IsIncarnation

LEMMA Renamed ==
    ASSUME NEW item \in Items, IsRestart(item), NEW i
    PROVE  [item EXCEPT !.incarnation = i] = IncarnationItem(i, TRUE)
<1>1. item \in [type : {"incarnation"}, incarnation : Incarnations,
                restart : BOOLEAN]
  BY DEF Items, IsRestart, IsIncarnation
<1>2. item.type = "incarnation" /\ item.restart = TRUE
  BY <1>1 DEF IsRestart
<1>3. [item EXCEPT !.incarnation = i]
        = [type |-> item.type, incarnation |-> i, restart |-> item.restart]
  BY <1>1
<1> QED
  BY <1>2, <1>3 DEF IncarnationItem

(* The queue, in the order of the cranks it holds: the first incarnation    *)
(* heard of, while none is on record; messages; and one restart.           *)
RestartIsLast ==
    \A j \in 1 .. Len(arrivals) : IsRestart(arrivals[j]) => j = Len(arrivals)

FirstIsFirst ==
    /\ \A j \in 1 .. Len(arrivals) :
          IsFirst(arrivals[j]) => j = 1 /\ StoredIncarnation = Unknown
    /\ StoredIncarnation = Unknown /\ arrivals # <<>> => IsFirst(arrivals[1])

IncarnationsGrow ==
    /\ StoredIncarnation <= peer
    /\ Recording => disk.incarnation < crank.incarnation
    /\ \A j \in 1 .. Len(arrivals) : IsIncarnation(arrivals[j]) =>
          /\ StoredIncarnation < arrivals[j].incarnation
          /\ arrivals[j].incarnation <= peer
          /\ \A k \in 1 .. Len(arrivals) : IsIncarnation(arrivals[k]) /\ j < k =>
                arrivals[j].incarnation < arrivals[k].incarnation

(* The incarnation whose messages come before the restart, if any.         *)
Current == IF StoredIncarnation = Unknown THEN arrivals[1].incarnation
           ELSE StoredIncarnation

(* A channel's other end is that incarnation or, once it has been replaced, *)
(* an earlier one.                                                         *)
KnownEnd(i) ==
    IF StoredIncarnation = Unknown THEN arrivals # <<>> /\ i = Current
    ELSE i <= Current

EndsAreKnown ==
    /\ \A i \in readers : KnownEnd(i)
    /\ shaken # Unknown => KnownEnd(shaken)

QueueShape == RestartIsLast /\ FirstIsFirst /\ IncarnationsGrow /\ EndsAreKnown

LEMMA StoredType == ASSUME TypeOK PROVE StoredIncarnation \in 0 .. MaxIncarnations
BY ItemIsMessageOrIncarnation, Bounds
DEF TypeOK, StoredIncarnation, Recording, IsIncarnation, Incarnations

LEMMA ArrivalsDomain ==
    ASSUME TypeOK PROVE DOMAIN arrivals = 1 .. Len(arrivals)
BY DEF TypeOK

LEMMA ArrivalsType ==
    ASSUME TypeOK
    PROVE  /\ Len(arrivals) \in Nat
           /\ \A j \in 1 .. Len(arrivals) : arrivals[j] \in Items
           /\ arrivals = <<>> <=> Len(arrivals) = 0
BY DEF TypeOK

(* The restart that waits is the last of the queue.                        *)
LEMMA WaitingRestart ==
    ASSUME TypeOK, RestartIsLast, WaitingRestarts # {}
    PROVE  /\ Len(arrivals) \in Nat \ {0}
           /\ WaitingRestarts = {Len(arrivals)}
           /\ Min(WaitingRestarts) = Len(arrivals)
           /\ IsRestart(arrivals[Len(arrivals)])
<1>1. /\ Len(arrivals) \in Nat \ {0}
      /\ WaitingRestarts = {Len(arrivals)}
      /\ IsRestart(arrivals[Len(arrivals)])
  <2>1. ASSUME NEW j \in WaitingRestarts
        PROVE  j \in 1 .. Len(arrivals) /\ IsRestart(arrivals[j])
    BY ArrivalsDomain DEF WaitingRestarts, IsRestart, IsIncarnation
  <2>2. ASSUME NEW j \in WaitingRestarts PROVE j = Len(arrivals)
    BY <2>1 DEF RestartIsLast
  <2> QED
    BY <2>1, <2>2, ArrivalsType
<1> QED
  BY <1>1, MinOfOne

LEMMA NoWaitingRestart ==
    ASSUME TypeOK, WaitingRestarts = {}
    PROVE  \A j \in 1 .. Len(arrivals) : ~IsRestart(arrivals[j])
BY ArrivalsType, ArrivalsDomain DEF WaitingRestarts, IsRestart, IsIncarnation

(* Which incarnations are known.                                           *)
LEMMA KnownIncarnations ==
    ASSUME TypeOK
    PROVE  /\ \A i : i \in Known <=>
                 \/ StoredIncarnation # Unknown /\ i = StoredIncarnation
                 \/ \E j \in 1 .. Len(arrivals) :
                       /\ IsIncarnation(arrivals[j])
                       /\ i = arrivals[j].incarnation
           /\ \A i : i \in WaitingIncarnations <=>
                 \E j \in 1 .. Len(arrivals) :
                       /\ IsIncarnation(arrivals[j])
                       /\ i = arrivals[j].incarnation
BY ArrivalsType, ArrivalsDomain DEF Known, WaitingIncarnations, IsIncarnation

(* With nothing known nothing waits.                                       *)
LEMMA NothingKnown ==
    ASSUME TypeOK, QueueShape, Known = {}
    PROVE  StoredIncarnation = Unknown /\ arrivals = <<>>
<1>1. StoredIncarnation = Unknown
  BY KnownIncarnations
<1>2. ASSUME arrivals # <<>> PROVE FALSE
  <2>1. IsFirst(arrivals[1])
    BY <1>1, <1>2 DEF QueueShape, FirstIsFirst
  <2>2. arrivals[1].incarnation \in Known
    <3>1. 1 \in 1 .. Len(arrivals) /\ IsIncarnation(arrivals[1])
      BY <1>2, <2>1, ArrivalsType DEF IsFirst
    <3> QED
      BY <3>1, KnownIncarnations
  <2> QED
    BY <2>2
<1> QED
  BY <1>1, <1>2

(* Every incarnation known is the peer's or an earlier one.                *)
LEMMA KnownUpToPeer ==
    ASSUME TypeOK, QueueShape PROVE \A i \in Known : i <= peer
BY KnownIncarnations, ArrivalsType DEF QueueShape, IncarnationsGrow

(* What becomes of the queue when incarnation i is heard of.               *)
QueuedAs(i, queued) ==
    \/ i \in Known /\ queued = arrivals
    \/ /\ Known = {} /\ StoredIncarnation = Unknown /\ arrivals = <<>>
       /\ Len(queued) = 1
       /\ queued[1] = IncarnationItem(i, FALSE)
    \/ /\ i \notin Known /\ Known # {} /\ WaitingRestarts = {}
       /\ Len(queued) = Len(arrivals) + 1
       /\ \A j \in 1 .. Len(arrivals) : queued[j] = arrivals[j]
       /\ queued[Len(queued)] = IncarnationItem(i, TRUE)
    \/ /\ i \notin Known /\ Known # {} /\ WaitingRestarts # {}
       /\ Len(queued) = Len(arrivals)
       /\ \A j \in 1 .. Len(arrivals) :
             j # Len(arrivals) => queued[j] = arrivals[j]
       /\ queued[Len(queued)] = IncarnationItem(i, TRUE)

LEMMA Accepted ==
    ASSUME TypeOK, QueueShape, NEW i \in Incarnations,
           NEW queued, queued = AcceptPeerIncarnation(i)
    PROVE  queued \in Seq(Items) /\ QueuedAs(i, queued)
<1> USE DEF QueuedAs
<1>1. CASE i \in Known
  BY <1>1 DEF AcceptPeerIncarnation, TypeOK
<1>2. CASE i \notin Known /\ Known = {}
  <2>1. arrivals = <<>> /\ StoredIncarnation = Unknown
    BY <1>2, NothingKnown
  <2>2. queued = Append(<<>>, IncarnationItem(i, FALSE))
    BY <1>2, <2>1 DEF AcceptPeerIncarnation
  <2> DEFINE item == IncarnationItem(i, FALSE)
  <2>3. item \in Items /\ queued = Append(<<>>, item)
    BY <2>2, IncarnationItemIsItem
  <2> HIDE DEF item
  <2>4. queued \in Seq(Items) /\ Len(queued) = 1 /\ queued[1] = item
    BY <2>3
  <2> QED
    BY <1>2, <2>1, <2>4 DEF item
<1>3. CASE i \notin Known /\ Known # {} /\ WaitingRestarts = {}
  <2> DEFINE item == IncarnationItem(i, TRUE)
  <2>1. queued = Append(arrivals, item)
    BY <1>3 DEF AcceptPeerIncarnation
  <2>2. arrivals \in Seq(Items) /\ item \in Items
    BY IncarnationItemIsItem DEF TypeOK
  <2> HIDE DEF item
  <2>3. /\ queued \in Seq(Items) /\ Len(queued) = Len(arrivals) + 1
        /\ \A j \in 1 .. Len(arrivals) : queued[j] = arrivals[j]
        /\ queued[Len(arrivals) + 1] = item
    BY <2>1, <2>2, AppendProperties
  <2> QED
    BY <1>3, <2>3 DEF item
<1>4. CASE i \notin Known /\ Known # {} /\ WaitingRestarts # {}
  <2> DEFINE w == Len(arrivals)
  <2>1. w \in 1 .. Len(arrivals) /\ IsRestart(arrivals[w]) /\ arrivals[w] \in Items
    BY <1>4, WaitingRestart, ArrivalsType DEF QueueShape
  <2>2. [arrivals[w] EXCEPT !.incarnation = i] = IncarnationItem(i, TRUE)
    BY <2>1, Renamed
  <2>3. queued = [arrivals EXCEPT ![w].incarnation = i]
    BY <1>4, WaitingRestart DEF AcceptPeerIncarnation, QueueShape
  <2>4. queued = [arrivals EXCEPT ![w] = IncarnationItem(i, TRUE)]
    BY <2>2, <2>3
  <2>5. arrivals \in Seq(Items) /\ IncarnationItem(i, TRUE) \in Items
    BY IncarnationItemIsItem DEF TypeOK
  <2> HIDE DEF w
  <2>6. /\ queued \in Seq(Items) /\ Len(queued) = Len(arrivals)
        /\ \A j \in 1 .. Len(arrivals) :
              queued[j] = IF j = w THEN IncarnationItem(i, TRUE) ELSE arrivals[j]
    <3> DEFINE item == IncarnationItem(i, TRUE)
    <3>1. item \in Items /\ queued = [arrivals EXCEPT ![w] = item]
      BY <2>4, <2>5
    <3> HIDE DEF item
    <3>2. /\ queued \in Seq(Items) /\ Len(queued) = Len(arrivals)
          /\ \A j \in 1 .. Len(arrivals) :
                queued[j] = IF j = w THEN item ELSE arrivals[j]
      BY <2>1, <2>5, <3>1, ExceptSeq
    <3> QED
      BY <3>2 DEF item
  <2> QED
    BY <1>4, <2>1, <2>6 DEF w
<1> QED
  BY <1>1, <1>2, <1>3, <1>4

(* A message joins the queue at its end, or next to its end when a restart  *)
(* waits there.                                                            *)
LEMMA Inserted ==
    ASSUME TypeOK, QueueShape, NEW i \in Incarnations, NEW n \in Seqs,
           AcceptRemoteInbound(i, n)
    PROVE  /\ arrivals' \in Seq(Items) /\ ahead' \in 0 .. MaxArrivals
           /\ Len(arrivals') = Len(arrivals) + 1
           /\ \/ /\ WaitingRestarts = {}
                 /\ \A j \in 1 .. Len(arrivals) : arrivals'[j] = arrivals[j]
                 /\ arrivals'[Len(arrivals) + 1] = InboundItem(i, n)
              \/ /\ WaitingRestarts # {} /\ arrivals # <<>>
                 /\ \A j \in 1 .. Len(arrivals) :
                       j # Len(arrivals) => arrivals'[j] = arrivals[j]
                 /\ arrivals'[Len(arrivals)] = InboundItem(i, n)
                 /\ arrivals'[Len(arrivals) + 1] = arrivals[Len(arrivals)]
<1> DEFINE item == InboundItem(i, n)
           w == Len(arrivals)
<1>1. arrivals \in Seq(Items) /\ item \in Items /\ w \in Nat
  BY InboundItemIsItem DEF TypeOK
<1>2. CASE WaitingRestarts = {}
  <2>1. arrivals' = Append(arrivals, item) /\ ahead' = ahead
    BY <1>2 DEF AcceptRemoteInbound
  <2>2. ahead' \in 0 .. MaxArrivals
    BY <2>1 DEF TypeOK
  <2> HIDE DEF item
  <2> QED
    BY <1>1, <1>2, <2>1, <2>2, AppendProperties DEF item
<1>3. CASE WaitingRestarts # {}
  <2>1. w \in 1 .. w /\ Min(WaitingRestarts) = w /\ arrivals[w] \in Items
    BY <1>3, WaitingRestart, ArrivalsType DEF QueueShape
  <2>2. arrivals' = SubSeq(arrivals, 1, w - 1) \o <<item>> \o SubSeq(arrivals, w, w)
    BY <1>3, <2>1 DEF AcceptRemoteInbound, InsertAt
  <2>3. ahead' \in 0 .. MaxArrivals
    BY <1>3, Bounds DEF AcceptRemoteInbound, TypeOK
  <2> DEFINE front == SubSeq(arrivals, 1, w - 1)
             back == SubSeq(arrivals, w, w)
  <2> HIDE DEF item
  <2>4. /\ front \in Seq(Items) /\ Len(front) = w - 1
        /\ \A j \in 1 .. w - 1 : front[j] = arrivals[j]
    BY <1>1, <2>1
  <2>5. /\ back \in Seq(Items) /\ Len(back) = 1 /\ back[1] = arrivals[w]
    BY <1>1, <2>1
  <2>6. <<item>> \in Seq(Items) /\ Len(<<item>>) = 1 /\ <<item>>[1] = item
    BY <1>1
  <2> HIDE DEF front, back, w
  <2>7. /\ front \o <<item>> \in Seq(Items) /\ Len(front \o <<item>>) = w
        /\ \A j \in 1 .. w - 1 : (front \o <<item>>)[j] = arrivals[j]
        /\ (front \o <<item>>)[w] = item
    BY <1>1, <2>1, <2>4, <2>6, ConcatProperties
  <2>8. /\ (front \o <<item>>) \o back \in Seq(Items)
        /\ Len((front \o <<item>>) \o back) = w + 1
        /\ \A j \in 1 .. w :
              ((front \o <<item>>) \o back)[j] = (front \o <<item>>)[j]
        /\ ((front \o <<item>>) \o back)[w + 1] = arrivals[w]
    <3> DEFINE fore == front \o <<item>>
    <3>1. fore \in Seq(Items) /\ Len(fore) = w
      BY <2>7
    <3> HIDE DEF fore
    <3>2. /\ fore \o back \in Seq(Items)
          /\ Len(fore \o back) = Len(fore) + Len(back)
          /\ \A j \in 1 .. Len(fore) + Len(back) :
                (fore \o back)[j] = IF j <= Len(fore) THEN fore[j]
                                    ELSE back[j - Len(fore)]
      BY <2>5, <3>1, ConcatProperties
    <3>3. /\ w + 1 \in 1 .. Len(fore) + Len(back) /\ ~(w + 1 <= Len(fore))
          /\ (w + 1) - Len(fore) = 1
      BY <1>1, <2>5, <3>1
    <3>4. (fore \o back)[w + 1] = back[(w + 1) - Len(fore)]
      BY <3>2, <3>3
    <3>5. \A j \in 1 .. w : (fore \o back)[j] = fore[j]
      BY <1>1, <2>5, <3>1, <3>2
    <3>6. (fore \o back)[w + 1] = arrivals[w]
      BY <2>5, <3>3, <3>4
    <3> QED
      BY <2>5, <3>1, <3>2, <3>5, <3>6 DEF fore
  <2>9. arrivals' = (front \o <<item>>) \o back
    BY <2>2 DEF front, back, w
  <2>10. w = Len(arrivals) /\ arrivals # <<>>
    BY <2>1, ArrivalsType DEF w
  <2>11. ASSUME NEW j \in 1 .. w, j # w PROVE arrivals'[j] = arrivals[j]
    <3>1. j \in 1 .. w - 1
      BY <1>1, <2>11
    <3> QED
      BY <2>7, <2>8, <2>9, <3>1
  <2>12. arrivals'[w] = item /\ arrivals'[w + 1] = arrivals[w]
    BY <2>1, <2>7, <2>8, <2>9
  <2>13. arrivals' \in Seq(Items) /\ Len(arrivals') = w + 1
    BY <2>8, <2>9
  <2> QED
    BY <1>3, <2>3, <2>10, <2>11, <2>12, <2>13 DEF item
<1> QED
  BY <1>2, <1>3

(* The first of the queue leaves it.                                       *)
LEMMA Taken ==
    ASSUME TypeOK, arrivals # <<>>
    PROVE  /\ Head(arrivals) = arrivals[1] /\ arrivals[1] \in Items
           /\ Tail(arrivals) \in Seq(Items)
           /\ Len(Tail(arrivals)) = Len(arrivals) - 1
           /\ Len(arrivals) \in Nat \ {0}
           /\ \A j \in 1 .. Len(arrivals) - 1 :
                 Tail(arrivals)[j] = arrivals[j + 1]
BY ArrivalsType, HeadTailProperties DEF TypeOK

-----------------------------------------------------------------------------
(* Types.                                                                  *)

LEMMA PeerType == ASSUME TypeOK PROVE peer \in Incarnations
BY DEF TypeOK

(* What a handshake that reports an incarnation touches.                   *)
LEMMA ObserveTypes ==
    ASSUME TypeOK, QueueShape, Observe(peer)
    PROVE  /\ arrivals' \in Seq(Items)
           /\ mem' \in [highest : 0 .. MaxSeq, held : BOOLEAN]
           /\ chain' \in Seq(Sends)
           /\ heard' \in 0 .. MaxIncarnations
           /\ heard' = peer
<1>1. arrivals' \in Seq(Items)
  BY PeerType, Accepted DEF Observe
<1>2. mem' \in [highest : 0 .. MaxSeq, held : BOOLEAN]
  BY DEF Observe, TypeOK
<1>3. <<>> \in Seq(Sends)
  OBVIOUS
<1>4. chain' \in Seq(Sends)
  BY <1>3 DEF Observe, TypeOK
<1>5. heard' = peer /\ heard' \in 0 .. MaxIncarnations
  BY Bounds, SMTT(60) DEF Observe, TypeOK, Incarnations
<1> QED
  BY <1>1, <1>2, <1>4, <1>5

LEMMA ConnectTypes ==
    ASSUME TypeOK, QueueShape,
           \/ InboundHandshake \/ RegisterChannel \/ LoseChannel \/ ReaderEnds
           \/ ForgetPeer \/ PeerRestarts
    PROVE  TypeOK'
<1> USE DEF session, queue, transport, outgoing
<1>1. 0 \in 0 .. MaxIncarnations
  BY Bounds
<1>2. CASE InboundHandshake
  <2>1. shaken' \in 0 .. MaxIncarnations
    BY <1>1, <1>2, Bounds DEF InboundHandshake, TypeOK, Incarnations, Unknown
  <2>2. UNCHANGED <<peer, disk, ahead, crank, channel, readers, sending, made,
                    alive, taken, crashes>>
    BY <1>2 DEF InboundHandshake
  <2>3. Observe(peer)
    BY <1>2 DEF InboundHandshake
  <2> QED
    BY <2>1, <2>2, <2>3, ObserveTypes DEF TypeOK
<1>3. CASE RegisterChannel
  <2>1. readers' \subseteq Incarnations /\ channel' \in 0 .. MaxIncarnations
    BY <1>3, Bounds DEF RegisterChannel, TypeOK, Incarnations, Unknown
  <2>2. shaken' = 0
    BY <1>3 DEF RegisterChannel, Unknown
  <2> QED
    BY <1>1, <1>3, <2>1, <2>2 DEF RegisterChannel, TypeOK
<1>4. CASE LoseChannel
  BY <1>1, <1>4 DEF LoseChannel, TypeOK, Unknown
<1>5. CASE ReaderEnds
  BY <1>1, <1>5 DEF ReaderEnds, TypeOK, Unknown
<1>6. CASE ForgetPeer
  BY <1>1, <1>6 DEF ForgetPeer, TypeOK, Unknown
<1>7. CASE PeerRestarts
  <2>1. peer' \in Incarnations
    BY <1>7, Bounds DEF PeerRestarts, TypeOK, Incarnations
  <2> QED
    BY <1>7, <2>1 DEF PeerRestarts, TypeOK
<1> QED
  BY <1>2, <1>3, <1>4, <1>5, <1>6, <1>7

LEMMA ArriveTypes == ASSUME TypeOK, QueueShape, Arrive PROVE TypeOK'
<1>1. PICK i \in readers, n \in Seqs :
         /\ AcceptRemoteInbound(i, n)
         /\ UNCHANGED <<peer, session, crank, alive, transport, outgoing,
                        crashes>>
  BY DEF Arrive
<1>2. arrivals' \in Seq(Items) /\ ahead' \in 0 .. MaxArrivals
  BY <1>1, Inserted DEF TypeOK
<1> QED
  BY <1>1, <1>2 DEF TypeOK, session, transport, outgoing

LEMMA TakeTypes == ASSUME TypeOK, TakeArrival PROVE TypeOK'
<1> DEFINE item == Head(arrivals)
<1>1. item \in Items /\ Tail(arrivals) \in Seq(Items)
  BY Taken DEF TakeArrival
<1>2. /\ crank' = IF item.type = "message" /\ item.seq <= mem.highest
                  THEN NoArrival ELSE item
      /\ alive' = ~(item.type = "incarnation"
                       /\ item.incarnation = disk.incarnation)
      /\ ahead' = IF Min(WaitingRestarts \cup {Len(arrivals) + 1}) = 1
                  THEN 0 ELSE ahead
      /\ arrivals' = Tail(arrivals)
      /\ UNCHANGED <<peer, session, transport, outgoing, crashes>>
  BY DEF TakeArrival
<1> HIDE DEF item
<1>3. crank' \in Items \cup {NoArrival}
  BY <1>1, <1>2
<1>4. alive' \in BOOLEAN
  BY <1>2
<1>5. ahead' \in 0 .. MaxArrivals
  BY <1>2, Bounds DEF TypeOK
<1> QED
  BY <1>1, <1>2, <1>3, <1>4, <1>5 DEF TypeOK, session, transport, outgoing

LEMMA CrankTypes ==
    ASSUME TypeOK, CommitMessage \/ DiscardMessage \/ CommitIncarnation
    PROVE  TypeOK'
<1> USE DEF session, queue, transport, outgoing
<1>1. CASE CommitMessage
  <2>1. crank \in Items /\ IsMessage(crank)
    BY <1>1 DEF CommitMessage, TypeOK, IsMessage
  <2>2. crank.from \in Incarnations /\ crank.seq \in Seqs
    BY <2>1, ItemIsMessageOrIncarnation
  <2>3. crank.seq \in 0 .. MaxSeq
    BY <2>2, Bounds DEF Seqs
  <2>4. /\ disk' \in [incarnation : 0 .. MaxIncarnations, highest : 0 .. MaxSeq,
                      pending : SUBSET (1 .. MaxMade)]
        /\ disk'.pending = disk.pending
        /\ mem' \in [highest : 0 .. MaxSeq, held : BOOLEAN]
    BY <1>1, <2>3 DEF CommitMessage, TypeOK
  <2>5. [from |-> crank.from, seq |-> crank.seq, session |-> disk.incarnation]
          \in [from : Incarnations, seq : Seqs, session : 0 .. MaxIncarnations]
    BY <2>2 DEF TypeOK
  <2>6. taken' \in Seq([from : Incarnations, seq : Seqs,
                        session : 0 .. MaxIncarnations])
    BY <1>1, <2>5, AppendProperties DEF CommitMessage, TypeOK
  <2>7. /\ crank' = NoArrival
        /\ UNCHANGED <<peer, arrivals, ahead, alive, transport, outgoing,
                       crashes>>
    BY <1>1 DEF CommitMessage
  <2> QED
    BY <2>4, <2>6, <2>7 DEF TypeOK
<1>2. CASE DiscardMessage
  BY <1>2 DEF DiscardMessage, TypeOK
<1>3. CASE CommitIncarnation
  <2>1. crank \in Items /\ IsIncarnation(crank)
    BY <1>3 DEF CommitIncarnation, Recording, TypeOK, IsIncarnation
  <2>2. crank.incarnation \in 0 .. MaxIncarnations
    BY <2>1, ItemIsMessageOrIncarnation, Bounds DEF Incarnations
  <2>3. /\ disk' \in [incarnation : 0 .. MaxIncarnations, highest : 0 .. MaxSeq,
                      pending : SUBSET (1 .. MaxMade)]
        /\ disk'.pending \subseteq disk.pending
    <3>1. \/ disk' = [incarnation |-> crank.incarnation, highest |-> 0,
                      pending |-> {}]
          \/ disk' = [disk EXCEPT !.incarnation = crank.incarnation]
      BY <1>3 DEF CommitIncarnation
    <3> QED
      BY <2>2, <3>1, ZeroIsSeq, SMTT(60) DEF TypeOK
  <2>4. mem' \in [highest : 0 .. MaxSeq, held : BOOLEAN]
    <3>1. (WaitingIncarnations # {}) \in BOOLEAN
      OBVIOUS
    <3>2. Finalized \in [highest : 0 .. MaxSeq, held : BOOLEAN]
      BY <3>1, ZeroIsSeq DEF Finalized
    <3> QED
      BY <1>3, <3>2 DEF CommitIncarnation, TypeOK
  <2>5. <<>> \in Seq(Sends)
    OBVIOUS
  <2>6. chain' \in Seq(Sends)
    BY <1>3, <2>5 DEF CommitIncarnation, TypeOK
  <2>7. /\ crank' = NoArrival
        /\ UNCHANGED <<peer, arrivals, ahead, alive, transport, sending, made,
                       taken, crashes>>
    BY <1>3 DEF CommitIncarnation
  <2> QED
    BY <2>3, <2>4, <2>6, <2>7 DEF TypeOK
<1> QED
  BY <1>1, <1>2, <1>3

(* What is put in line for the transport.                                  *)
LEMMA OutgoingIsSend ==
    ASSUME NEW id \in 0 .. MaxMade, NEW madeIn \in 0 .. MaxIncarnations
    PROVE  Outgoing(id, madeIn) \in Sends
BY DEF Outgoing, Sends

LEMMA MakeTypes == ASSUME TypeOK, Make PROVE TypeOK'
<1>1. /\ made' = Append(made, disk.incarnation)
      /\ disk' = [disk EXCEPT !.pending = @ \cup {Len(made')}]
      /\ chain' = Append(chain, Outgoing(Len(made'), disk.incarnation))
      /\ Len(made) < MaxMade
      /\ UNCHANGED <<peer, mem, taken, queue, transport, sending, crashes>>
  BY DEF Make
<1>2. made \in Seq(0 .. MaxIncarnations) /\ disk.incarnation \in 0 .. MaxIncarnations
  BY DEF TypeOK
<1>3. /\ made' \in Seq(0 .. MaxIncarnations) /\ Len(made') = Len(made) + 1
      /\ DOMAIN made' = 1 .. Len(made') /\ DOMAIN made = 1 .. Len(made)
      /\ Len(made) \in Nat
  BY <1>1, <1>2, AppendProperties
<1>4. Len(made') <= MaxMade /\ Len(made') \in 1 .. MaxMade
  BY <1>1, <1>3, Bounds
<1>5. disk' \in [incarnation : 0 .. MaxIncarnations, highest : 0 .. MaxSeq,
                 pending : SUBSET (1 .. MaxMade)]
  BY <1>1, <1>4 DEF TypeOK
<1>6. disk'.pending \subseteq DOMAIN made'
  BY <1>1, <1>3 DEF TypeOK
<1>7. chain' \in Seq(Sends)
  <2>1. Outgoing(Len(made'), disk.incarnation) \in Sends
    BY <1>2, <1>4, OutgoingIsSend
  <2> QED
    BY <1>1, <2>1, AppendProperties DEF TypeOK
<1> QED
  BY <1>1, <1>3, <1>4, <1>5, <1>6, <1>7 DEF TypeOK, queue, transport

LEMMA LineTypes ==
    ASSUME TypeOK, \/ Retransmit \/ GiveUp \/ TakeTurn \/ SendStandaloneAck
                   \/ WriteMessage \/ SendFails
    PROVE  TypeOK'
<1> USE DEF session, queue, transport, outgoing
<1>1. CASE Retransmit
  <2>1. PICK id \in disk.pending : chain' = Append(chain, Outgoing(id, made[id]))
    BY <1>1 DEF Retransmit
  <2>2. id \in 0 .. MaxMade /\ made[id] \in 0 .. MaxIncarnations
    BY Bounds DEF TypeOK
  <2>3. chain' \in Seq(Sends)
    BY <2>1, <2>2, OutgoingIsSend, AppendProperties DEF TypeOK
  <2> QED
    BY <1>1, <2>3 DEF Retransmit, TypeOK
<1>2. CASE GiveUp
  <2>1. <<>> \in Seq(Sends)
    OBVIOUS
  <2>2. /\ disk' \in [incarnation : 0 .. MaxIncarnations, highest : 0 .. MaxSeq,
                      pending : SUBSET (1 .. MaxMade)]
        /\ disk'.pending = {}
    BY <1>2 DEF GiveUp, TypeOK
  <2> QED
    BY <1>2, <2>1, <2>2 DEF GiveUp, TypeOK
<1>3. CASE TakeTurn
  <2>1. Head(chain) \in Sends /\ Tail(chain) \in Seq(Sends)
    BY <1>3, HeadTailProperties DEF TakeTurn, TypeOK
  <2>2. sending' \in [{"chain", "ack"} -> Sends \cup {NoSend}]
    BY <1>3, <2>1 DEF TakeTurn, TypeOK
  <2> QED
    BY <1>3, <2>1, <2>2 DEF TakeTurn, TypeOK
<1>4. CASE SendStandaloneAck
  <2>1. Outgoing(0, disk.incarnation) \in Sends
    BY OutgoingIsSend, Bounds DEF TypeOK
  <2>2. sending' \in [{"chain", "ack"} -> Sends \cup {NoSend}]
    BY <1>4, <2>1 DEF SendStandaloneAck, TypeOK
  <2> QED
    BY <1>4, <2>2 DEF SendStandaloneAck, TypeOK
<1>5. CASE WriteMessage \/ SendFails
  <2>1. sending' \in [{"chain", "ack"} -> Sends \cup {NoSend}]
    BY <1>5 DEF WriteMessage, SendFails, TypeOK
  <2> QED
    BY <1>5, <2>1 DEF WriteMessage, SendFails, TypeOK
<1> QED
  BY <1>1, <1>2, <1>3, <1>4, <1>5

LEMMA DialTypes == ASSUME TypeOK, QueueShape, DialAndWrite PROVE TypeOK'
<1>1. PICK k \in {"chain", "ack"} :
         /\ Observe(peer)
         /\ sending' = [sending EXCEPT ![k] = NoSend]
         /\ IF MayGoOn(peer)
            THEN channel' = peer /\ readers' = readers \cup {peer}
            ELSE UNCHANGED <<channel, readers>>
         /\ UNCHANGED <<peer, disk, ahead, crank, alive, shaken, made, taken,
                        crashes>>
  BY DEF DialAndWrite
<1>2. sending' \in [{"chain", "ack"} -> Sends \cup {NoSend}]
  BY <1>1 DEF TypeOK
<1>3. channel' \in 0 .. MaxIncarnations /\ readers' \subseteq Incarnations
  <2>1. peer \in 0 .. MaxIncarnations
    BY Bounds DEF TypeOK, Incarnations
  <2> QED
    BY <1>1, <2>1 DEF TypeOK
<1> QED
  BY <1>1, <1>2, <1>3, ObserveTypes DEF TypeOK

LEMMA CrashTypes == ASSUME TypeOK, Crash PROVE TypeOK'
<1>1. <<>> \in Seq(Items) /\ <<>> \in Seq(Sends)
  OBVIOUS
<1>2. NothingSent \in [{"chain", "ack"} -> Sends \cup {NoSend}]
  BY DEF NothingSent
<1>3. mem' \in [highest : 0 .. MaxSeq, held : BOOLEAN]
  BY DEF Crash, TypeOK
<1>4. crashes' \in 0 .. MaxCrashes
  BY Bounds DEF Crash, TypeOK
<1>5. 0 \in 0 .. MaxArrivals /\ 0 \in 0 .. MaxIncarnations
  BY Bounds
<1> QED
  BY <1>1, <1>2, <1>3, <1>4, <1>5 DEF Crash, TypeOK, Unknown

-----------------------------------------------------------------------------
(* The shape of the queue.                                                 *)

(* A step that leaves the queue and what is on record alone.               *)
LEMMA ShapeUnchanged ==
    ASSUME TypeOK, QueueShape, TypeOK',
           UNCHANGED arrivals, StoredIncarnation' = StoredIncarnation,
           Recording' => UNCHANGED <<crank, disk>>,
           peer' >= peer,
           readers' \subseteq readers \cup ({shaken} \ {Unknown}),
           shaken' \in {shaken, Unknown}
    PROVE  QueueShape'
<1>0. peer \in Nat /\ peer' \in Nat
  BY Bounds DEF TypeOK, Incarnations
<1>1. RestartIsLast'
  BY DEF QueueShape, RestartIsLast
<1>2. FirstIsFirst'
  BY DEF QueueShape, FirstIsFirst
<1>3. IncarnationsGrow'
  <2>1. Recording' => disk'.incarnation < crank'.incarnation
    BY DEF QueueShape, IncarnationsGrow, Recording
  <2>2. StoredIncarnation' <= peer'
    BY <1>0, StoredType, Bounds DEF QueueShape, IncarnationsGrow
  <2>3. ASSUME NEW j \in 1 .. Len(arrivals), IsIncarnation(arrivals[j])
        PROVE  arrivals[j].incarnation <= peer'
    <3>1. arrivals[j].incarnation \in Incarnations
      BY <2>3, ArrivalsType, ItemIsMessageOrIncarnation
    <3>2. arrivals[j].incarnation <= peer
      BY <2>3 DEF QueueShape, IncarnationsGrow
    <3> QED
      BY <1>0, <3>1, <3>2, Bounds DEF Incarnations
  <2> QED
    BY <2>1, <2>2, <2>3 DEF QueueShape, IncarnationsGrow
<1>4. EndsAreKnown'
  BY DEF QueueShape, EndsAreKnown, KnownEnd, Current
<1> QED
  BY <1>1, <1>2, <1>3, <1>4 DEF QueueShape

(* A crank that ends leaves on record what it showed as recorded.          *)
LEMMA CrankEnds ==
    ASSUME TypeOK, CommitMessage \/ DiscardMessage \/ CommitIncarnation
    PROVE  /\ StoredIncarnation' = StoredIncarnation /\ ~Recording'
           /\ UNCHANGED <<arrivals, peer, readers, shaken, alive>>
<1>1. CASE CommitMessage
  BY <1>1 DEF CommitMessage, StoredIncarnation, Recording, TypeOK, transport
<1>2. CASE DiscardMessage
  BY <1>2 DEF DiscardMessage, StoredIncarnation, Recording, transport, session
<1>3. CASE CommitIncarnation
  <2>1. disk'.incarnation = crank.incarnation
    BY <1>3 DEF CommitIncarnation, TypeOK
  <2> QED
    BY <1>3, <2>1
    DEF CommitIncarnation, StoredIncarnation, Recording, transport
<1> QED
  BY <1>1, <1>2, <1>3

(* With the peer's incarnation and no other known, its channels may be used. *)
LEMMA OnlyPeerKnown ==
    ASSUME TypeOK, QueueShape, MayGoOn(peer), Observe(peer)
    PROVE  IF StoredIncarnation = Unknown
           THEN arrivals' # <<>> /\ arrivals'[1].incarnation = peer
           ELSE StoredIncarnation = peer
<1>1. \A k \in Known : k = peer
  BY DEF MayGoOn, Restarted
<1>2. CASE StoredIncarnation # Unknown
  BY <1>1, <1>2, KnownIncarnations
<1>3. CASE StoredIncarnation = Unknown /\ arrivals # <<>>
  <2>1. IsFirst(arrivals[1]) /\ 1 \in 1 .. Len(arrivals)
    BY <1>3, ArrivalsType DEF QueueShape, FirstIsFirst
  <2>2. arrivals[1].incarnation \in Known
    BY <2>1, KnownIncarnations DEF IsFirst
  <2>3. arrivals' = arrivals
    BY <1>1, <2>2 DEF Observe, AcceptPeerIncarnation
  <2> QED
    BY <1>1, <1>3, <2>2, <2>3
<1>4. CASE StoredIncarnation = Unknown /\ arrivals = <<>>
  <2>1. Known = {}
    BY <1>4, KnownIncarnations
  <2>2. arrivals' = Append(<<>>, IncarnationItem(peer, FALSE))
    BY <1>4, <2>1 DEF Observe, AcceptPeerIncarnation
  <2> DEFINE item == IncarnationItem(peer, FALSE)
  <2>3. item.incarnation = peer /\ arrivals' = Append(<<>>, item)
    BY <2>2, PeerType, IncarnationItemIsItem
  <2> HIDE DEF item
  <2>4. arrivals' # <<>> /\ arrivals'[1] = item
    BY <2>3
  <2> QED
    BY <1>4, <2>3, <2>4
<1> QED
  BY <1>2, <1>3, <1>4

(* What a handshake finds is queued in its place.                          *)
LEMMA ShapeObserved ==
    ASSUME TypeOK, QueueShape, TypeOK', Observe(peer),
           UNCHANGED <<peer, disk, crank>>,
           readers' = readers \/ (MayGoOn(peer) /\ readers' = readers \cup {peer}),
           shaken' \in {shaken, Unknown} \/ (MayGoOn(peer) /\ shaken' = peer)
    PROVE  QueueShape'
<1>1. StoredIncarnation' = StoredIncarnation /\ (Recording' <=> Recording)
  BY DEF StoredIncarnation, Recording
<1>2. QueuedAs(peer, arrivals')
  <2>1. arrivals' = AcceptPeerIncarnation(peer)
    BY DEF Observe
  <2> QED
    BY <2>1, PeerType, Accepted
<1>3. /\ IsIncarnation(IncarnationItem(peer, TRUE))
      /\ IncarnationItem(peer, TRUE).incarnation = peer
      /\ IncarnationItem(peer, TRUE).restart = TRUE
      /\ IsIncarnation(IncarnationItem(peer, FALSE))
      /\ IncarnationItem(peer, FALSE).incarnation = peer
      /\ IncarnationItem(peer, FALSE).restart = FALSE
  BY PeerType, IncarnationItemIsItem
<1>4. /\ Len(arrivals) \in Nat /\ Len(arrivals') \in Nat
      /\ \A j \in 1 .. Len(arrivals) : arrivals[j] \in Items
  <2>1. arrivals' \in Seq(Items)
    BY DEF TypeOK
  <2> QED
    BY <2>1, ArrivalsType
<1>5. peer \in Nat /\ peer # 0
  BY PeerType, Bounds DEF Incarnations
<1>6. ASSUME peer \notin Known
      PROVE  /\ \A j \in 1 .. Len(arrivals) : IsIncarnation(arrivals[j]) =>
                   /\ arrivals[j].incarnation \in Nat
                   /\ arrivals[j].incarnation < peer
             /\ StoredIncarnation \in Nat /\ StoredIncarnation < peer
  <2>1. ASSUME NEW j \in 1 .. Len(arrivals), IsIncarnation(arrivals[j])
        PROVE  arrivals[j].incarnation \in Nat /\ arrivals[j].incarnation < peer
    <3>1. arrivals[j].incarnation \in Incarnations
      BY <1>4, <2>1, ItemIsMessageOrIncarnation
    <3>2. arrivals[j].incarnation \in Known
      BY <2>1, KnownIncarnations
    <3>3. arrivals[j].incarnation <= peer
      BY <3>2, KnownUpToPeer
    <3> QED
      BY <1>5, <1>6, <3>1, <3>2, <3>3, Bounds DEF Incarnations
  <2>2. StoredIncarnation \in Nat /\ StoredIncarnation < peer
    BY <1>5, <1>6, StoredType, KnownIncarnations, KnownUpToPeer, Bounds DEF Unknown
  <2> QED
    BY <2>1, <2>2
<1>7. CASE arrivals' = arrivals
  <2>1. RestartIsLast' /\ FirstIsFirst'
    BY <1>1, <1>7 DEF QueueShape, RestartIsLast, FirstIsFirst
  <2>2. IncarnationsGrow'
    BY <1>1, <1>7 DEF QueueShape, IncarnationsGrow, Recording
  <2>3. EndsAreKnown'
    BY <1>1, <1>5, <1>7, OnlyPeerKnown
    DEF QueueShape, EndsAreKnown, KnownEnd, Current
  <2> QED
    BY <2>1, <2>2, <2>3 DEF QueueShape
<1>8. CASE /\ Known = {} /\ StoredIncarnation = Unknown /\ arrivals = <<>>
           /\ Len(arrivals') = 1
           /\ arrivals'[1] = IncarnationItem(peer, FALSE)
  <2>1. RestartIsLast'
    BY <1>4, <1>8 DEF RestartIsLast
  <2>2. FirstIsFirst'
    <3>1. IsFirst(arrivals'[1])
      BY <1>3, <1>8 DEF IsFirst
    <3>2. \A j \in 1 .. Len(arrivals') : j = 1
      BY <1>8
    <3> QED
      BY <1>1, <1>8, <3>1, <3>2 DEF FirstIsFirst
  <2>3. IncarnationsGrow'
    <3>1. arrivals'[1].incarnation = peer
      BY <1>3, <1>8
    <3>4. 0 < peer /\ peer <= peer
      BY <1>5
    <3>5. StoredIncarnation' = 0 /\ peer' = peer
      BY <1>1, <1>8 DEF Unknown
    <3>2. Recording' => disk'.incarnation < crank'.incarnation
      BY DEF QueueShape, IncarnationsGrow, Recording
    <3>3. \A j \in 1 .. Len(arrivals') : j = 1
      BY <1>8
    <3>6. \A j \in 1 .. Len(arrivals') :
             /\ arrivals'[j].incarnation = peer
             /\ \A k \in 1 .. Len(arrivals') : ~(j < k)
      BY <3>1, <3>3
    <3> QED
      BY <1>5, <3>2, <3>4, <3>5, <3>6 DEF IncarnationsGrow
  <2>4. readers = {} /\ shaken = Unknown
    BY <1>8 DEF QueueShape, EndsAreKnown, KnownEnd
  <2>5. EndsAreKnown'
    BY <1>1, <1>3, <1>8, <2>4, ArrivalsType, OnlyPeerKnown
    DEF EndsAreKnown, KnownEnd, Current
  <2> QED
    BY <2>1, <2>2, <2>3, <2>5 DEF QueueShape
<1>9. CASE /\ peer \notin Known /\ Known # {}
           /\ \/ /\ WaitingRestarts = {}
                 /\ Len(arrivals') = Len(arrivals) + 1
                 /\ \A j \in 1 .. Len(arrivals) : arrivals'[j] = arrivals[j]
              \/ /\ WaitingRestarts # {}
                 /\ Len(arrivals') = Len(arrivals)
                 /\ \A j \in 1 .. Len(arrivals) :
                       j # Len(arrivals) => arrivals'[j] = arrivals[j]
           /\ arrivals'[Len(arrivals')] = IncarnationItem(peer, TRUE)
  <2> DEFINE w == Len(arrivals')
  <2>1. /\ w \in 1 .. w
        /\ \A j \in 1 .. w : j # w =>
              /\ j \in 1 .. Len(arrivals)
              /\ arrivals'[j] = arrivals[j] /\ ~IsRestart(arrivals[j])
    <3>1. CASE WaitingRestarts = {}
      BY <1>4, <1>9, <3>1, NoWaitingRestart
    <3>2. CASE WaitingRestarts # {}
      BY <1>4, <1>9, <3>2, WaitingRestart DEF QueueShape, RestartIsLast
    <3> QED
      BY <3>1, <3>2
  <2>2. RestartIsLast'
    BY <1>4, <2>1 DEF RestartIsLast
  <2>3. StoredIncarnation = Unknown => w # 1 /\ IsFirst(arrivals[1])
    <3> SUFFICES ASSUME StoredIncarnation = Unknown
                 PROVE  w # 1 /\ IsFirst(arrivals[1])
      OBVIOUS
    <3>1. arrivals # <<>>
      BY <1>9, KnownIncarnations, ArrivalsType
    <3>2. IsFirst(arrivals[1])
      BY <3>1 DEF QueueShape, FirstIsFirst
    <3>3. CASE WaitingRestarts = {}
      BY <1>4, <1>9, <3>1, <3>2, <3>3, ArrivalsType
    <3>4. CASE WaitingRestarts # {}
      <4>1. IsRestart(arrivals[Len(arrivals)])
        BY <3>4, WaitingRestart DEF QueueShape
      <4> QED
        BY <1>9, <3>2, <3>4, <4>1 DEF IsFirst, IsRestart
    <3> QED
      BY <3>2, <3>3, <3>4
  <2>3a. StoredIncarnation = Unknown => arrivals'[1] = arrivals[1]
    <3>1. 1 \in 1 .. w
      BY <1>4, <2>1
    <3> QED
      BY <2>1, <2>3, <3>1
  <2>4. FirstIsFirst'
    <3>1. ~IsFirst(arrivals'[w])
      BY <1>3, <1>9 DEF IsFirst
    <3> QED
      BY <1>1, <1>4, <2>1, <2>3, <2>3a, <3>1 DEF QueueShape, FirstIsFirst
  <2>5. IncarnationsGrow'
    <3>1. ASSUME NEW j \in 1 .. w, IsIncarnation(arrivals'[j])
          PROVE  /\ StoredIncarnation < arrivals'[j].incarnation
                 /\ arrivals'[j].incarnation <= peer
                 /\ j # w => arrivals'[j].incarnation < peer
      <4>1. CASE j = w
        <5>1. arrivals'[j].incarnation = peer
          BY <1>3, <1>9, <4>1
        <5>2. StoredIncarnation < peer /\ peer <= peer
          BY <1>5, <1>6, <1>9
        <5> QED
          BY <4>1, <5>1, <5>2
      <4>2. CASE j # w
        BY <1>6, <1>4, <1>9, <2>1, <3>1, <4>2 DEF QueueShape, IncarnationsGrow
      <4> QED
        BY <4>1, <4>2
    <3>2. ASSUME NEW j \in 1 .. w, NEW k \in 1 .. w, j < k,
                 IsIncarnation(arrivals'[j]), IsIncarnation(arrivals'[k])
          PROVE  arrivals'[j].incarnation < arrivals'[k].incarnation
      <4>1. j # w
        BY <1>4, <3>2
      <4>2. CASE k = w
        BY <1>3, <1>9, <3>1, <3>2, <4>1, <4>2
      <4>3. CASE k # w
        BY <1>4, <2>1, <3>2, <4>1, <4>3 DEF QueueShape, IncarnationsGrow
      <4> QED
        BY <4>2, <4>3
    <3>3. StoredIncarnation' <= peer'
      BY <1>1 DEF QueueShape, IncarnationsGrow
    <3>4. Recording' => disk'.incarnation < crank'.incarnation
      BY DEF QueueShape, IncarnationsGrow, Recording
    <3> QED
      BY <1>1, <1>4, <3>1, <3>2, <3>3, <3>4 DEF IncarnationsGrow
  <2>6. ~MayGoOn(peer)
    BY <1>9 DEF MayGoOn, Restarted
  <2>7. EndsAreKnown'
    <3>1. Current' = Current
      BY <1>1, <2>3a DEF Current
    <3>2. arrivals' # <<>>
      BY <1>4, <2>1
    <3> QED
      BY <1>1, <2>6, <3>1, <3>2 DEF QueueShape, EndsAreKnown, KnownEnd
  <2> QED
    BY <2>2, <2>4, <2>5, <2>7 DEF QueueShape
<1> QED
  BY <1>2, <1>7, <1>8, <1>9 DEF QueuedAs

LEMMA ShapeArrived ==
    ASSUME TypeOK, QueueShape, Arrive PROVE QueueShape'
<1>1. PICK i \in readers, n \in Seqs :
         /\ AcceptRemoteInbound(i, n)
         /\ UNCHANGED <<peer, session, crank, alive, transport, outgoing,
                        crashes>>
  BY DEF Arrive
<1>2. i \in Incarnations
  BY DEF TypeOK
<1> DEFINE w == Len(arrivals)
           old(j) == IF j <= w THEN j ELSE w
<1>3. StoredIncarnation' = StoredIncarnation /\ (Recording' <=> Recording)
  BY <1>1 DEF StoredIncarnation, Recording, session
<1>4. /\ IsMessage(InboundItem(i, n)) /\ ~IsIncarnation(InboundItem(i, n))
  BY <1>2, InboundItemIsItem
<1>5. w \in Nat /\ Len(arrivals') = w + 1
  BY <1>1, <1>2, ArrivalsType, Inserted
<1>6. StoredIncarnation = Unknown => arrivals # <<>> /\ w # 0
  BY ArrivalsType DEF QueueShape, EndsAreKnown, KnownEnd
<1>7. \/ /\ \A j \in 1 .. w : arrivals'[j] = arrivals[j] /\ ~IsRestart(arrivals[j])
         /\ arrivals'[w + 1] = InboundItem(i, n)
      \/ /\ w # 0 /\ IsRestart(arrivals[w])
         /\ \A j \in 1 .. w : j # w => arrivals'[j] = arrivals[j]
         /\ arrivals'[w] = InboundItem(i, n)
         /\ arrivals'[w + 1] = arrivals[w]
  BY <1>1, <1>2, Inserted, WaitingRestart, NoWaitingRestart DEF QueueShape
<1>8. ASSUME NEW j \in 1 .. w + 1, IsIncarnation(arrivals'[j])
      PROVE  /\ old(j) \in 1 .. w /\ arrivals'[j] = arrivals[old(j)]
             /\ IsRestart(arrivals'[j]) => j = w + 1
             /\ w # 0 /\ arrivals'[w] = InboundItem(i, n) => j # w
  <2>1. CASE /\ \A k \in 1 .. w :
                   arrivals'[k] = arrivals[k] /\ ~IsRestart(arrivals[k])
             /\ arrivals'[w + 1] = InboundItem(i, n)
    <3>1. j # w + 1
      BY <1>4, <1>8, <2>1
    <3>2. j \in 1 .. w
      BY <1>5, <3>1
    <3> QED
      BY <1>4, <1>8, <2>1, <3>2
  <2>2. CASE /\ w # 0 /\ IsRestart(arrivals[w])
             /\ \A k \in 1 .. w : k # w => arrivals'[k] = arrivals[k]
             /\ arrivals'[w] = InboundItem(i, n)
             /\ arrivals'[w + 1] = arrivals[w]
    <3>1. j # w
      BY <1>4, <1>8, <2>2
    <3>2. CASE j = w + 1
      BY <1>5, <2>2, <3>1, <3>2
    <3>3. CASE j # w + 1
      <4>1. j \in 1 .. w
        BY <1>5, <3>3
      <4> QED
        BY <2>2, <3>1, <4>1 DEF QueueShape, RestartIsLast
    <3> QED
      BY <3>2, <3>3
  <2> QED
    BY <1>7, <2>1, <2>2
<1>9. ASSUME NEW j \in 1 .. w + 1, NEW k \in 1 .. w + 1, j < k,
             IsIncarnation(arrivals'[j]), IsIncarnation(arrivals'[k])
      PROVE  old(j) < old(k)
  <2>1. CASE k = w + 1
    <3>1. k \notin 1 .. w
      BY <1>5, <2>1
    <3>2. arrivals'[w + 1] # InboundItem(i, n)
      BY <1>4, <1>9, <2>1
    <3>3. arrivals'[w] = InboundItem(i, n) /\ w # 0
      BY <1>7, <3>2
    <3>4. j # w
      BY <1>8, <1>9, <3>3
    <3> QED
      BY <1>5, <1>9, <2>1, <3>4
  <2>2. CASE k # w + 1
    BY <1>5, <1>9, <2>2
  <2> QED
    BY <2>1, <2>2
<1> HIDE DEF old
<1>10. RestartIsLast'
  BY <1>5, <1>8 DEF RestartIsLast, IsRestart
<1>11. FirstIsFirst'
  <2>1. ASSUME NEW j \in 1 .. w + 1, IsFirst(arrivals'[j])
        PROVE  j = 1 /\ StoredIncarnation = Unknown
    <3>1. IsFirst(arrivals[old(j)]) /\ old(j) \in 1 .. w
      BY <1>8, <2>1 DEF IsFirst
    <3>2. old(j) = 1 /\ StoredIncarnation = Unknown
      BY <3>1 DEF QueueShape, FirstIsFirst
    <3>3. CASE j # w + 1
      BY <1>5, <3>2, <3>3 DEF old
    <3>4. CASE j = w + 1
      <4>1. w = 1 /\ arrivals'[w + 1] = arrivals[1]
        BY <1>5, <1>8, <2>1, <3>2, <3>4 DEF old, IsFirst
      <4>2. IsRestart(arrivals[w])
        BY <1>4, <1>7, <2>1, <3>4 DEF IsFirst
      <4> QED
        BY <3>1, <3>2, <4>1, <4>2 DEF IsFirst, IsRestart
    <3> QED
      BY <3>3, <3>4
  <2>2. ASSUME StoredIncarnation = Unknown PROVE IsFirst(arrivals'[1])
    <3>1. IsFirst(arrivals[1]) /\ 1 \in 1 .. w
      BY <1>5, <1>6, <2>2 DEF QueueShape, FirstIsFirst
    <3>2. CASE w # 0 /\ IsRestart(arrivals[w])
      <4>1. w # 1
        BY <3>1, <3>2 DEF IsFirst, IsRestart
      <4>2. arrivals'[1] = arrivals[1]
        BY <1>7, <3>1, <4>1
      <4> QED
        BY <3>1, <4>2
    <3>3. CASE ~(w # 0 /\ IsRestart(arrivals[w]))
      BY <1>7, <3>1, <3>3
    <3> QED
      BY <3>2, <3>3
  <2> QED
    BY <1>3, <1>5, <2>1, <2>2 DEF FirstIsFirst
<1>12. IncarnationsGrow'
  <2>1. peer' = peer /\ crank' = crank /\ disk' = disk
    BY <1>1 DEF session
  <2>2. ASSUME NEW j \in 1 .. w + 1, IsIncarnation(arrivals'[j])
        PROVE  /\ StoredIncarnation < arrivals'[j].incarnation
               /\ arrivals'[j].incarnation <= peer
    BY <1>8, <2>2 DEF QueueShape, IncarnationsGrow
  <2>3. ASSUME NEW j \in 1 .. w + 1, NEW k \in 1 .. w + 1, j < k,
               IsIncarnation(arrivals'[j]), IsIncarnation(arrivals'[k])
        PROVE  arrivals'[j].incarnation < arrivals'[k].incarnation
    <3>1. /\ old(j) \in 1 .. w /\ arrivals'[j] = arrivals[old(j)]
          /\ old(k) \in 1 .. w /\ arrivals'[k] = arrivals[old(k)]
          /\ old(j) < old(k)
      BY <1>8, <1>9, <2>3
    <3> QED
      BY <2>3, <3>1 DEF QueueShape, IncarnationsGrow
  <2> QED
    BY <1>3, <1>5, <2>1, <2>2, <2>3 DEF QueueShape, IncarnationsGrow
<1>13. EndsAreKnown'
  <2>1. readers' = readers /\ shaken' = shaken
    BY <1>1 DEF transport
  <2>2. StoredIncarnation = Unknown => arrivals'[1] = arrivals[1]
    <3> SUFFICES ASSUME StoredIncarnation = Unknown
                 PROVE  arrivals'[1] = arrivals[1]
      OBVIOUS
    <3>1. IsFirst(arrivals[1]) /\ 1 \in 1 .. w
      BY <1>5, <1>6 DEF QueueShape, FirstIsFirst
    <3>2. w # 0 /\ IsRestart(arrivals[w]) => w # 1
      BY <3>1 DEF IsFirst, IsRestart
    <3> QED
      BY <1>7, <3>1, <3>2
  <2>3. arrivals' # <<>>
    BY <1>5
  <2> QED
    BY <1>3, <2>1, <2>2, <2>3 DEF QueueShape, EndsAreKnown, KnownEnd, Current
<1> QED
  BY <1>10, <1>11, <1>12, <1>13 DEF QueueShape

(* Taking the first of the queue: a message, when an incarnation is on     *)
(* record; the first incarnation, when none is; or the restart, last.      *)
LEMMA TakenCases ==
    ASSUME TypeOK, QueueShape, TakeArrival
    PROVE  /\ StoredIncarnation = disk.incarnation /\ UNCHANGED disk
           /\ \/ /\ IsMessage(arrivals[1]) /\ StoredIncarnation # Unknown
                 /\ crank' = NoArrival \/ IsMessage(crank')
                 /\ StoredIncarnation' = StoredIncarnation /\ ~Recording'
              \/ /\ IsFirst(arrivals[1]) /\ StoredIncarnation = Unknown
                 /\ crank' = arrivals[1] /\ Recording'
                 /\ StoredIncarnation' = arrivals[1].incarnation
              \/ /\ IsRestart(arrivals[1]) /\ StoredIncarnation # Unknown
                 /\ Len(arrivals) = 1
                 /\ crank' = arrivals[1] /\ Recording'
                 /\ StoredIncarnation' = arrivals[1].incarnation
<1>1. /\ arrivals # <<>> /\ crank = NoArrival
      /\ crank' = IF /\ Head(arrivals).type = "message"
                     /\ Head(arrivals).seq <= mem.highest
                  THEN NoArrival ELSE Head(arrivals)
      /\ UNCHANGED disk
  BY DEF TakeArrival, session
<1>2. Head(arrivals) = arrivals[1] /\ arrivals[1] \in Items /\ 1 \in 1 .. Len(arrivals)
  BY <1>1, Taken
<1>3. StoredIncarnation = disk.incarnation
  BY <1>1 DEF StoredIncarnation, Recording
<1>4. StoredIncarnation = Unknown => IsFirst(arrivals[1])
  BY <1>1 DEF QueueShape, FirstIsFirst
<1>5. arrivals[1] # NoArrival
  BY <1>2, ItemIsMessageOrIncarnation
<1>6. CASE IsMessage(arrivals[1])
  <2>1. ~IsIncarnation(arrivals[1])
    BY <1>2, <1>6, ItemIsMessageOrIncarnation
  <2>2. StoredIncarnation # Unknown
    BY <1>4, <2>1 DEF IsFirst
  <2>3. crank' = NoArrival \/ crank' = arrivals[1]
    BY <1>1, <1>2
  <2>4. ~Recording'
    BY <2>1, <2>3 DEF Recording, IsIncarnation
  <2> QED
    BY <1>1, <1>3, <1>6, <2>2, <2>3, <2>4 DEF StoredIncarnation
<1>7. CASE IsIncarnation(arrivals[1])
  <2>1. ~IsMessage(arrivals[1])
    BY <1>2, <1>7, ItemIsMessageOrIncarnation
  <2>2. crank' = arrivals[1]
    BY <1>1, <1>2, <2>1 DEF IsMessage
  <2>3. Recording'
    BY <1>5, <1>7, <2>2 DEF Recording, IsIncarnation
  <2>4. StoredIncarnation' = arrivals[1].incarnation
    BY <2>2, <2>3 DEF StoredIncarnation
  <2>5. CASE IsFirst(arrivals[1])
    <3>1. StoredIncarnation = Unknown
      BY <1>2, <2>5 DEF QueueShape, FirstIsFirst
    <3> QED
      BY <1>1, <1>3, <2>2, <2>3, <2>4, <2>5, <3>1
  <2>6. CASE IsRestart(arrivals[1])
    <3>1. StoredIncarnation # Unknown
      BY <1>4, <2>6 DEF IsFirst, IsRestart
    <3>2. Len(arrivals) = 1
      BY <1>2, <2>6 DEF QueueShape, RestartIsLast
    <3> QED
      BY <1>1, <1>3, <2>2, <2>3, <2>4, <2>6, <3>1, <3>2
  <2> QED
    BY <1>7, <2>5, <2>6 DEF IsFirst, IsRestart
<1> QED
  BY <1>2, <1>6, <1>7, ItemIsMessageOrIncarnation

LEMMA ShapeTaken ==
    ASSUME TypeOK, QueueShape, TakeArrival PROVE QueueShape'
<1>1. /\ arrivals # <<>> /\ arrivals' = Tail(arrivals)
      /\ UNCHANGED <<peer, readers, shaken>>
  BY DEF TakeArrival, transport
<1>2. /\ arrivals[1] \in Items /\ Len(arrivals) \in Nat \ {0}
      /\ Len(arrivals') = Len(arrivals) - 1
      /\ \A j \in 1 .. Len(arrivals) - 1 : arrivals'[j] = arrivals[j + 1]
  BY <1>1, Taken
<1>3. \A j \in 1 .. Len(arrivals') :
         j + 1 \in 1 .. Len(arrivals) /\ arrivals'[j] = arrivals[j + 1] /\ j + 1 # 1
  BY <1>2
<1>4. RestartIsLast'
  BY <1>2, <1>3 DEF QueueShape, RestartIsLast
<1>5. \A j \in 1 .. Len(arrivals') : ~IsFirst(arrivals'[j])
  BY <1>3 DEF QueueShape, FirstIsFirst
<1>6. StoredIncarnation' # Unknown
  <2>1. IsIncarnation(arrivals[1]) => arrivals[1].incarnation # Unknown
    BY <1>2, ItemIsMessageOrIncarnation, Bounds DEF Incarnations, Unknown
  <2> QED
    BY <2>1, TakenCases DEF IsFirst, IsRestart
<1>7. 1 \in 1 .. Len(arrivals)
  BY <1>2
<1>8. /\ IsIncarnation(arrivals[1]) =>
            /\ StoredIncarnation < arrivals[1].incarnation
            /\ arrivals[1].incarnation <= peer
      /\ StoredIncarnation <= peer
  BY <1>7 DEF QueueShape, IncarnationsGrow
<1>9. IncarnationsGrow'
  <2>1. StoredIncarnation' <= peer'
    BY <1>1, <1>8, TakenCases DEF IsFirst, IsRestart
  <2>2. Recording' => disk'.incarnation < crank'.incarnation
    BY <1>8, TakenCases DEF IsFirst, IsRestart
  <2>3. ASSUME NEW j \in 1 .. Len(arrivals'), IsIncarnation(arrivals'[j])
        PROVE  /\ StoredIncarnation' < arrivals'[j].incarnation
               /\ arrivals'[j].incarnation <= peer'
    <3>1. IsIncarnation(arrivals[j + 1]) /\ j + 1 \in 1 .. Len(arrivals) /\ 1 < j + 1
      BY <1>2, <1>3, <2>3
    <3>2. /\ StoredIncarnation < arrivals[j + 1].incarnation
          /\ arrivals[j + 1].incarnation <= peer
          /\ IsIncarnation(arrivals[1]) =>
                arrivals[1].incarnation < arrivals[j + 1].incarnation
      BY <1>7, <3>1 DEF QueueShape, IncarnationsGrow
    <3> QED
      BY <1>1, <1>3, <3>2, TakenCases DEF IsFirst, IsRestart
  <2>4. ASSUME NEW j \in 1 .. Len(arrivals'), NEW k \in 1 .. Len(arrivals'), j < k,
               IsIncarnation(arrivals'[j]), IsIncarnation(arrivals'[k])
        PROVE  arrivals'[j].incarnation < arrivals'[k].incarnation
    <3>1. /\ j + 1 \in 1 .. Len(arrivals) /\ k + 1 \in 1 .. Len(arrivals)
          /\ arrivals'[j] = arrivals[j + 1] /\ arrivals'[k] = arrivals[k + 1]
          /\ j + 1 < k + 1
      BY <1>2, <1>3, <2>4
    <3> QED
      BY <2>4, <3>1 DEF QueueShape, IncarnationsGrow
  <2> QED
    BY <2>1, <2>2, <2>3, <2>4 DEF IncarnationsGrow
<1>10. EndsAreKnown'
  <2>1. ASSUME NEW i \in 0 .. MaxIncarnations, KnownEnd(i)
        PROVE  i <= StoredIncarnation'
    <3>1. CASE StoredIncarnation = Unknown
      <4>1. IsFirst(arrivals[1]) /\ StoredIncarnation' = arrivals[1].incarnation
        <5>1. IsFirst(arrivals[1])
          BY <1>1, <3>1 DEF QueueShape, FirstIsFirst
        <5> QED
          BY <3>1, <5>1, TakenCases
      <4>2. i = arrivals[1].incarnation
        BY <2>1, <3>1 DEF KnownEnd, Current
      <4> QED
        BY <4>1, <4>2, Bounds
    <3>2. CASE StoredIncarnation # Unknown
      <4>1. i <= StoredIncarnation
        BY <2>1, <3>2 DEF KnownEnd, Current
      <4>2. \/ StoredIncarnation' = StoredIncarnation
            \/ /\ IsIncarnation(arrivals[1])
               /\ StoredIncarnation' = arrivals[1].incarnation
        BY TakenCases DEF IsFirst, IsRestart
      <4>3. IsIncarnation(arrivals[1]) => arrivals[1].incarnation \in Incarnations
        BY <1>2, ItemIsMessageOrIncarnation
      <4> QED
        BY <1>8, <4>1, <4>2, <4>3, StoredType, Bounds DEF Incarnations
    <3> QED
      BY <3>1, <3>2
  <2>2. readers \subseteq 0 .. MaxIncarnations /\ shaken \in 0 .. MaxIncarnations
    BY Bounds DEF TypeOK, Incarnations
  <2> QED
    BY <1>1, <1>6, <2>1, <2>2 DEF QueueShape, EndsAreKnown, KnownEnd, Current
<1>11. FirstIsFirst'
  BY <1>5, <1>6 DEF FirstIsFirst
<1> QED
  BY <1>4, <1>9, <1>10, <1>11 DEF QueueShape

(* A kernel that has just started knows what is on record, and nothing waits. *)
LEMMA ShapeFromDisk ==
    ASSUME arrivals = <<>>, crank = NoArrival, readers = {}, shaken = Unknown,
           disk.incarnation <= peer
    PROVE  QueueShape
<1>1. Len(arrivals) = 0
  OBVIOUS
<1>2. ~Recording /\ StoredIncarnation = disk.incarnation
  BY DEF Recording, StoredIncarnation
<1> QED
  BY <1>1, <1>2 DEF QueueShape, RestartIsLast, FirstIsFirst, IncarnationsGrow,
                    EndsAreKnown

LEMMA ShapeAfterCrash ==
    ASSUME TypeOK, QueueShape, Crash PROVE QueueShape'
<1>1. disk.incarnation <= peer
  <2>1. disk.incarnation \in Nat /\ peer \in Nat /\ StoredIncarnation \in Nat
    BY StoredType, Bounds DEF TypeOK, Incarnations
  <2>2. CASE Recording
    BY <2>1, <2>2 DEF QueueShape, IncarnationsGrow, StoredIncarnation
  <2>3. CASE ~Recording
    BY <2>3 DEF QueueShape, IncarnationsGrow, StoredIncarnation
  <2> QED
    BY <2>2, <2>3
<1>2. /\ arrivals' = <<>> /\ crank' = NoArrival /\ readers' = {}
      /\ shaken' = Unknown /\ UNCHANGED <<peer, disk>>
  BY DEF Crash
<1>3. Len(arrivals') = 0
  BY <1>2
<1>4. ~Recording' /\ StoredIncarnation' = disk.incarnation
  BY <1>2 DEF Recording, StoredIncarnation
<1> QED
  BY <1>1, <1>2, <1>3, <1>4
  DEF QueueShape, RestartIsLast, FirstIsFirst, IncarnationsGrow, EndsAreKnown

QueueInv == TypeOK /\ QueueShape /\ alive

LEMMA QueueInitially == Init => QueueInv
<1> SUFFICES ASSUME Init PROVE QueueInv
  OBVIOUS
<1> USE DEF Init
<1>1. /\ <<>> \in Seq(Items) /\ <<>> \in Seq(Sends)
      /\ <<>> \in Seq(0 .. MaxIncarnations)
      /\ <<>> \in Seq([from : Incarnations, seq : Seqs,
                       session : 0 .. MaxIncarnations])
  OBVIOUS
<1>2. /\ 0 \in 0 .. MaxIncarnations /\ 0 \in 0 .. MaxArrivals
      /\ 0 \in 0 .. MaxCrashes /\ 1 \in Incarnations /\ 0 <= MaxMade
      /\ 0 <= peer
  BY Bounds DEF Incarnations
<1>3. NothingSent \in [{"chain", "ack"} -> Sends \cup {NoSend}]
  BY DEF NothingSent
<1>4. /\ disk \in [incarnation : 0 .. MaxIncarnations, highest : 0 .. MaxSeq,
                   pending : SUBSET (1 .. MaxMade)]
      /\ disk.pending = {}
      /\ mem \in [highest : 0 .. MaxSeq, held : BOOLEAN]
  BY <1>2, ZeroIsSeq DEF Unknown
<1>5. Len(made) = 0
  OBVIOUS
<1>6. TypeOK
  BY <1>1, <1>2, <1>3, <1>4, <1>5 DEF TypeOK, Unknown
<1>7. QueueShape
  BY <1>2, ShapeFromDisk DEF Unknown
<1> QED
  BY <1>6, <1>7 DEF QueueInv

(* The run loop does not die of an incarnation already recorded.           *)
LEMMA AliveTaken == ASSUME TypeOK, QueueShape, TakeArrival PROVE alive'
<1>1. Head(arrivals) = arrivals[1] /\ arrivals[1] \in Items /\ 1 \in 1 .. Len(arrivals)
  BY Taken DEF TakeArrival
<1>2. ASSUME IsIncarnation(arrivals[1])
      PROVE  arrivals[1].incarnation # disk.incarnation
  <2>1. StoredIncarnation < arrivals[1].incarnation
    BY <1>1, <1>2 DEF QueueShape, IncarnationsGrow
  <2>2. arrivals[1].incarnation \in Incarnations
    BY <1>1, <1>2, ItemIsMessageOrIncarnation
  <2> QED
    BY <2>1, <2>2, StoredType, TakenCases, Bounds DEF Incarnations
<1> QED
  BY <1>1, <1>2 DEF TakeArrival, IsIncarnation

LEMMA QueueInductive ==
    ASSUME QueueInv, [Next]_vars PROVE QueueInv'
<1> USE DEF QueueInv
<1>1. CASE \/ PeerRestarts \/ RegisterChannel \/ LoseChannel \/ ReaderEnds
           \/ ForgetPeer
  <2>1. TypeOK'
    BY <1>1, ConnectTypes
  <2>2. UNCHANGED <<session, queue>>
    BY <1>1 DEF PeerRestarts, RegisterChannel, LoseChannel, ReaderEnds, ForgetPeer
  <2>3. /\ UNCHANGED <<arrivals, crank, disk, alive>>
        /\ StoredIncarnation' = StoredIncarnation
    BY <2>2 DEF session, queue, StoredIncarnation, Recording
  <2>4. peer' >= peer
    BY <1>1, PeerType, Bounds
    DEF PeerRestarts, RegisterChannel, LoseChannel, ReaderEnds, ForgetPeer,
        Incarnations
  <2>5. /\ readers' \subseteq readers \cup ({shaken} \ {Unknown})
        /\ shaken' \in {shaken, Unknown}
    BY <1>1
    DEF PeerRestarts, RegisterChannel, LoseChannel, ReaderEnds, ForgetPeer,
        transport
  <2> QED
    BY <2>1, <2>3, <2>4, <2>5, ShapeUnchanged
<1>2. CASE InboundHandshake
  <2>1. TypeOK'
    BY <1>2, ConnectTypes
  <2>2. /\ Observe(peer) /\ UNCHANGED <<peer, disk, crank, readers, alive>>
        /\ shaken' \in {shaken, Unknown} \/ (MayGoOn(peer) /\ shaken' = peer)
    BY <1>2 DEF InboundHandshake
  <2> QED
    BY <2>1, <2>2, ShapeObserved
<1>3. CASE Arrive
  BY <1>3, ArriveTypes, ShapeArrived DEF Arrive
<1>4. CASE TakeArrival
  BY <1>4, TakeTypes, ShapeTaken, AliveTaken
<1>5. CASE CommitMessage \/ DiscardMessage \/ CommitIncarnation
  <2>1. /\ StoredIncarnation' = StoredIncarnation /\ ~Recording'
        /\ UNCHANGED <<arrivals, peer, readers, shaken, alive>>
    BY <1>5, CrankEnds
  <2>2. peer' >= peer
    BY <2>1, PeerType, Bounds DEF Incarnations
  <2> QED
    BY <1>5, <2>1, <2>2, CrankTypes, ShapeUnchanged
<1>6. CASE \/ Make \/ Retransmit \/ GiveUp \/ TakeTurn \/ SendStandaloneAck
           \/ WriteMessage \/ SendFails \/ UNCHANGED vars
  <2>1. TypeOK'
    BY <1>6, MakeTypes, LineTypes DEF TypeOK, vars
  <2>2. UNCHANGED <<peer, queue, transport>> /\ disk'.incarnation = disk.incarnation
    BY <1>6
    DEF Make, Retransmit, GiveUp, TakeTurn, SendStandaloneAck, WriteMessage,
        SendFails, vars, queue, session, transport, TypeOK
  <2>3. /\ StoredIncarnation' = StoredIncarnation
        /\ UNCHANGED <<arrivals, peer, readers, shaken, alive, crank>>
    BY <2>2 DEF queue, transport, StoredIncarnation, Recording
  <2>4. Recording' => UNCHANGED disk
    BY <1>6, <2>3
    DEF Make, Retransmit, GiveUp, TakeTurn, SendStandaloneAck, WriteMessage,
        SendFails, vars, queue, session, Recording
  <2>5. peer' >= peer
    BY <2>3, PeerType, Bounds DEF Incarnations
  <2> QED
    BY <2>1, <2>3, <2>4, <2>5, ShapeUnchanged
<1>7. CASE DialAndWrite
  <2>1. TypeOK'
    BY <1>7, DialTypes
  <2>2. /\ Observe(peer) /\ UNCHANGED <<peer, disk, crank, shaken, alive>>
        /\ \/ readers' = readers
           \/ MayGoOn(peer) /\ readers' = readers \cup {peer}
    BY <1>7 DEF DialAndWrite
  <2> QED
    BY <2>1, <2>2, ShapeObserved
<1>8. CASE Crash
  BY <1>8, CrashTypes, ShapeAfterCrash DEF Crash
<1> QED
  BY <1>1, <1>2, <1>3, <1>4, <1>5, <1>6, <1>7, <1>8 DEF Next

LEMMA QueueAlways == Spec => []QueueInv
BY QueueInitially, QueueInductive, PTL DEF Spec

(* Every variable keeps its type.                                          *)
THEOREM PeerRestartTypeCorrect == Spec => []TypeOK
<1>1. QueueInv => TypeOK
  BY DEF QueueInv
<1> QED
  BY <1>1, QueueAlways, PTL

(* However often the peer restarts, however its reports, its channels and   *)
(* the kernel's crashes interleave with the cranks, at most one restart     *)
(* waits, no incarnation is queued that is on record or being recorded, and *)
(* no crank finds its own incarnation recorded, which would end the run     *)
(* loop.                                                                   *)
THEOREM AlwaysOneCrankPerRestart == Spec => []OneCrankPerRestart
<1>1. QueueInv => OneCrankPerRestart
  <2> SUFFICES ASSUME QueueInv PROVE OneCrankPerRestart
    OBVIOUS
  <2>1. StoredIncarnation \notin WaitingIncarnations
    <3> SUFFICES ASSUME NEW j \in 1 .. Len(arrivals), IsIncarnation(arrivals[j]),
                        StoredIncarnation = arrivals[j].incarnation
                 PROVE  FALSE
      BY KnownIncarnations DEF QueueInv
    <3>1. StoredIncarnation < StoredIncarnation
      BY DEF QueueInv, QueueShape, IncarnationsGrow
    <3> QED
      BY <3>1, StoredType, Bounds DEF QueueInv
  <2>2. CASE WaitingRestarts = {}
    BY <2>1, <2>2, FS_EmptySet DEF QueueInv, OneCrankPerRestart
  <2>3. CASE WaitingRestarts # {}
    <3>1. WaitingRestarts = {Len(arrivals)}
      BY <2>3, WaitingRestart DEF QueueInv, QueueShape
    <3>2. Cardinality(WaitingRestarts) = 1
      BY <3>1, FS_Singleton
    <3> QED
      BY <2>1, <3>2 DEF QueueInv, OneCrankPerRestart
  <2> QED
    BY <2>2, <2>3
<1> QED
  BY <1>1, QueueAlways, PTL

-----------------------------------------------------------------------------
(* The hold a restart puts on what is sent.                                *)

SomeRestart == \E j \in 1 .. Len(arrivals) : IsRestart(arrivals[j])

RestartHolds == SomeRestart => mem.held

(* What is in line, or may be put in line again, was made in the session on *)
(* record or before any was.                                               *)
LineIsSessions ==
    /\ \A j \in 1 .. Len(chain) : chain[j].session \in {Unknown, disk.incarnation}
    /\ \A id \in disk.pending : made[id] \in {Unknown, disk.incarnation}

HoldInv == QueueInv /\ RestartHolds /\ LineIsSessions

(* A restart waits when one is in the queue, the first incarnation heard of *)
(* being none.                                                             *)
LEMMA RestartWaitsInQueue ==
    ASSUME QueueInv, RestartWaits PROVE SomeRestart
<1> USE DEF QueueInv
<1> SUFFICES ASSUME ~SomeRestart PROVE FALSE
  OBVIOUS
<1>1. \A j \in 1 .. Len(arrivals) : IsIncarnation(arrivals[j]) =>
         j = 1 /\ StoredIncarnation = Unknown
  <2>1. \A j \in 1 .. Len(arrivals) :
           IsIncarnation(arrivals[j]) => IsFirst(arrivals[j])
    BY DEF SomeRestart, IsFirst, IsRestart
  <2> QED
    BY <2>1 DEF QueueShape, FirstIsFirst
<1>2. CASE StoredIncarnation # Unknown
  <2>1. WaitingIncarnations = {}
    BY <1>1, <1>2, KnownIncarnations
  <2>2. Cardinality(WaitingIncarnations) = 0
    BY <2>1, FS_EmptySet
  <2> QED
    BY <1>2, <2>2 DEF RestartWaits
<1>3. CASE StoredIncarnation = Unknown
  <2> DEFINE first == arrivals[1].incarnation
  <2>1. WaitingIncarnations \in SUBSET {first}
    BY <1>1, KnownIncarnations
  <2>2. Cardinality(WaitingIncarnations) <= 1
    <3> HIDE DEF first
    <3>1. IsFiniteSet({first}) /\ Cardinality({first}) = 1
      BY FS_Singleton
    <3> QED
      BY <2>1, <3>1, FS_Subset
  <2>3. Cardinality(WaitingIncarnations) \in Nat
    <3>1. IsFiniteSet({first})
      BY FS_Singleton
    <3> HIDE DEF first
    <3>2. IsFiniteSet(WaitingIncarnations)
      BY <2>1, <3>1, FS_Subset
    <3> QED
      BY <3>2, FS_CardinalityType
  <2> QED
    BY <1>3, <2>2, <2>3 DEF RestartWaits
<1> QED
  BY <1>2, <1>3

LEMMA RestartHoldsObserved ==
    ASSUME QueueInv, RestartHolds, Observe(peer) PROVE RestartHolds'
<1> USE DEF QueueInv
<1>1. QueuedAs(peer, arrivals')
  <2>1. arrivals' = AcceptPeerIncarnation(peer)
    BY DEF Observe
  <2> QED
    BY <2>1, PeerType, Accepted
<1>2. Restarted(peer) => mem'.held
  BY DEF Observe, TypeOK
<1>3. peer \notin Known /\ Known # {} => Restarted(peer)
  BY DEF Restarted
<1>4. mem.held => mem'.held
  BY DEF Observe, TypeOK
<1>5. CASE arrivals' = arrivals
  BY <1>4, <1>5 DEF RestartHolds, SomeRestart
<1>6. CASE Len(arrivals') = 1 /\ arrivals'[1] = IncarnationItem(peer, FALSE)
  <2>1. ~IsRestart(arrivals'[1])
    BY <1>6, PeerType, IncarnationItemIsItem DEF IsRestart
  <2>2. \A j \in 1 .. Len(arrivals') : j = 1
    BY <1>6
  <2> QED
    BY <2>1, <2>2 DEF RestartHolds, SomeRestart
<1> QED
  BY <1>1, <1>2, <1>3, <1>5, <1>6 DEF QueuedAs, RestartHolds

LEMMA RestartHoldsKept ==
    ASSUME RestartHolds, SomeRestart' => SomeRestart, mem.held => mem'.held
    PROVE  RestartHolds'
BY DEF RestartHolds

LEMMA RestartHoldsArrived ==
    ASSUME QueueInv, RestartHolds, Arrive PROVE RestartHolds'
<1> USE DEF QueueInv
<1>1. PICK i \in readers, n \in Seqs : AcceptRemoteInbound(i, n)
  BY DEF Arrive
<1>2. i \in Incarnations
  BY DEF TypeOK
<1>3. ~IsRestart(InboundItem(i, n))
  BY <1>2, InboundItemIsItem DEF IsRestart
<1>4. CASE WaitingRestarts = {}
  <2>1. \A j \in 1 .. Len(arrivals') : ~IsRestart(arrivals'[j])
    <3>1. \A j \in 1 .. Len(arrivals) :
             arrivals'[j] = arrivals[j] /\ ~IsRestart(arrivals[j])
      BY <1>1, <1>2, <1>4, Inserted, NoWaitingRestart
    <3>2. /\ Len(arrivals') = Len(arrivals) + 1 /\ Len(arrivals) \in Nat
          /\ arrivals'[Len(arrivals) + 1] = InboundItem(i, n)
      BY <1>1, <1>2, <1>4, Inserted, ArrivalsType
    <3> QED
      BY <1>3, <3>1, <3>2
  <2> QED
    BY <2>1 DEF RestartHolds, SomeRestart
<1>5. CASE WaitingRestarts # {}
  <2>1. SomeRestart
    BY <1>5, WaitingRestart, ArrivalsType DEF SomeRestart, QueueShape
  <2>2. mem' = mem
    BY DEF Arrive, session
  <2> QED
    BY <2>1, <2>2, RestartHoldsKept
<1> QED
  BY <1>4, <1>5

LEMMA RestartHoldsTaken ==
    ASSUME QueueInv, RestartHolds, TakeArrival PROVE RestartHolds'
<1> USE DEF QueueInv
<1>1. /\ arrivals # <<>> /\ arrivals' = Tail(arrivals) /\ mem' = mem
  BY DEF TakeArrival, session
<1>2. /\ Len(arrivals') = Len(arrivals) - 1 /\ Len(arrivals) \in Nat \ {0}
      /\ \A j \in 1 .. Len(arrivals) - 1 : arrivals'[j] = arrivals[j + 1]
  BY <1>1, Taken
<1>3. SomeRestart' => SomeRestart
  <2> SUFFICES ASSUME NEW j \in 1 .. Len(arrivals'), IsRestart(arrivals'[j])
               PROVE  SomeRestart
    BY DEF SomeRestart
  <2>1. j + 1 \in 1 .. Len(arrivals) /\ IsRestart(arrivals[j + 1])
    BY <1>2
  <2> QED
    BY <2>1 DEF SomeRestart
<1> QED
  BY <1>1, <1>3, RestartHoldsKept

(* The hold is put on again when the restart recorded is not the last.     *)
LEMMA RestartHoldsCommitted ==
    ASSUME QueueInv, RestartHolds, CommitIncarnation PROVE RestartHolds'
<1> USE DEF QueueInv
<1>1. arrivals' = arrivals
  BY DEF CommitIncarnation
<1>2. SomeRestart' => SomeRestart
  BY <1>1 DEF SomeRestart
<1>3. CASE RecordingRestart
  <2>1. mem' = [highest |-> 0, held |-> WaitingIncarnations # {}]
    BY <1>3 DEF CommitIncarnation, Finalized
  <2>2. mem'.held = (WaitingIncarnations # {})
    BY <2>1
  <2>3. SomeRestart => WaitingIncarnations # {}
    BY KnownIncarnations DEF SomeRestart, IsRestart
  <2> QED
    BY <1>2, <2>2, <2>3 DEF RestartHolds
<1>4. CASE ~RecordingRestart
  BY <1>2, <1>4, RestartHoldsKept DEF CommitIncarnation
<1> QED
  BY <1>3, <1>4

(* Steps that leave the line alone, shorten it or let go of it.            *)
LEMMA LineKept ==
    ASSUME TypeOK, LineIsSessions, UNCHANGED <<disk, made>>,
           \/ chain' = chain \/ chain' = <<>>
           \/ chain # <<>> /\ chain' = Tail(chain)
    PROVE  LineIsSessions'
<1>1. \A j \in 1 .. Len(chain') : chain'[j].session \in {Unknown, disk.incarnation}
  <2>1. CASE chain' = chain
    BY <2>1 DEF LineIsSessions
  <2>2. CASE chain' = <<>>
    BY <2>2
  <2>3. CASE chain # <<>> /\ chain' = Tail(chain)
    <3>1. chain \in Seq(Sends)
      BY DEF TypeOK
    <3>2. /\ Len(chain') = Len(chain) - 1 /\ Len(chain) \in Nat
          /\ \A j \in 1 .. Len(chain') : chain'[j] = chain[j + 1]
      BY <2>3, <3>1, HeadTailProperties
    <3>3. \A j \in 1 .. Len(chain') : j + 1 \in 1 .. Len(chain)
      BY <3>2
    <3> QED
      BY <3>2, <3>3 DEF LineIsSessions
  <2> QED
    BY <2>1, <2>2, <2>3
<1> QED
  BY <1>1 DEF LineIsSessions

LEMMA SessionOfOutgoing ==
    ASSUME NEW id, NEW madeIn PROVE Outgoing(id, madeIn).session = madeIn
BY DEF Outgoing

LEMMA LineMade == ASSUME TypeOK, LineIsSessions, Make PROVE LineIsSessions'
<1> DEFINE new == Outgoing(Len(made'), disk.incarnation)
<1>1. /\ made' = Append(made, disk.incarnation)
      /\ disk' = [disk EXCEPT !.pending = @ \cup {Len(made')}]
      /\ chain' = Append(chain, new)
  BY DEF Make
<1>2. /\ made \in Seq(0 .. MaxIncarnations)
      /\ disk.incarnation \in 0 .. MaxIncarnations
      /\ chain \in Seq(Sends)
  BY DEF TypeOK
<1>3. /\ Len(made') = Len(made) + 1 /\ Len(made) \in Nat
      /\ \A id \in 1 .. Len(made) : made'[id] = made[id]
      /\ made'[Len(made')] = disk.incarnation
  BY <1>1, <1>2, AppendProperties
<1>4. disk'.incarnation = disk.incarnation
      /\ disk'.pending = disk.pending \cup {Len(made')}
  BY <1>1 DEF TypeOK
<1>5. disk.pending \subseteq 1 .. Len(made)
  BY <1>2 DEF TypeOK
<1>6. \A id \in disk'.pending : made'[id] \in {Unknown, disk'.incarnation}
  BY <1>3, <1>4, <1>5 DEF LineIsSessions
<1>7. new.session = disk.incarnation
  BY SessionOfOutgoing
<1> HIDE DEF new
<1>8. /\ Len(chain') = Len(chain) + 1 /\ Len(chain) \in Nat
      /\ \A j \in 1 .. Len(chain) : chain'[j] = chain[j]
      /\ chain'[Len(chain) + 1] = new
  BY <1>1, <1>2
<1>9. \A j \in 1 .. Len(chain') : chain'[j].session \in {Unknown, disk'.incarnation}
  BY <1>4, <1>7, <1>8 DEF LineIsSessions
<1> QED
  BY <1>6, <1>9 DEF LineIsSessions

LEMMA LineRetransmitted ==
    ASSUME TypeOK, LineIsSessions, Retransmit PROVE LineIsSessions'
<1>1. PICK id \in disk.pending : chain' = Append(chain, Outgoing(id, made[id]))
  BY DEF Retransmit
<1> DEFINE new == Outgoing(id, made[id])
<1>2. new.session \in {Unknown, disk.incarnation}
  BY SessionOfOutgoing DEF LineIsSessions
<1>3. chain' = Append(chain, new) /\ chain \in Seq(Sends)
  BY <1>1 DEF TypeOK
<1> HIDE DEF new
<1>4. /\ Len(chain') = Len(chain) + 1 /\ Len(chain) \in Nat
      /\ \A j \in 1 .. Len(chain) : chain'[j] = chain[j]
      /\ chain'[Len(chain) + 1] = new
  BY <1>3
<1>5. UNCHANGED <<disk, made>>
  BY DEF Retransmit, session
<1>6. \A j \in 1 .. Len(chain') : chain'[j].session \in {Unknown, disk.incarnation}
  BY <1>2, <1>4 DEF LineIsSessions
<1> QED
  BY <1>5, <1>6 DEF LineIsSessions

(* A restart that is recorded leaves nothing in line and nothing to be put  *)
(* in line again; the first incarnation finds what was made before it.     *)
LEMMA LineCommitted ==
    ASSUME TypeOK, LineIsSessions, CommitIncarnation PROVE LineIsSessions'
<1>1. CASE RecordingRestart
  <2>1. chain' = <<>> /\ disk'.pending = {}
    BY <1>1 DEF CommitIncarnation
  <2> QED
    BY <2>1 DEF LineIsSessions
<1>2. CASE ~RecordingRestart
  <2>1. disk.incarnation = Unknown
    BY <1>2 DEF CommitIncarnation, RecordingRestart
  <2>2. UNCHANGED <<chain, made>> /\ disk'.pending = disk.pending
    BY <1>2 DEF CommitIncarnation, TypeOK
  <2> QED
    BY <2>1, <2>2 DEF LineIsSessions
<1> QED
  BY <1>1, <1>2

LEMMA HoldInductive == ASSUME HoldInv, [Next]_vars PROVE HoldInv'
<1> USE DEF HoldInv
<1>1. QueueInv'
  BY QueueInductive
<1>2. TypeOK
  BY DEF QueueInv
<1>3. CASE \/ PeerRestarts \/ RegisterChannel \/ LoseChannel \/ ReaderEnds
           \/ ForgetPeer \/ TakeTurn \/ SendStandaloneAck \/ WriteMessage
           \/ SendFails \/ DiscardMessage \/ UNCHANGED vars
  <2>1. /\ UNCHANGED <<arrivals, mem, disk, made>>
        /\ \/ chain' = chain
           \/ chain # <<>> /\ chain' = Tail(chain)
    BY <1>3
    DEF PeerRestarts, RegisterChannel, LoseChannel, ReaderEnds, ForgetPeer,
        TakeTurn, SendStandaloneAck, WriteMessage, SendFails, DiscardMessage,
        vars, session, queue, outgoing
  <2>2. RestartHolds'
    BY <2>1, RestartHoldsKept DEF SomeRestart
  <2> QED
    BY <1>1, <1>2, <2>1, <2>2, LineKept
<1>4. CASE InboundHandshake \/ DialAndWrite
  <2>1. /\ Observe(peer) /\ UNCHANGED <<disk, made>>
        /\ chain' = chain \/ chain' = <<>>
    BY <1>4 DEF InboundHandshake, DialAndWrite, Observe
  <2> QED
    BY <1>1, <1>2, <2>1, LineKept, RestartHoldsObserved
<1>5. CASE Arrive \/ TakeArrival
  <2>1. UNCHANGED <<disk, made, chain>>
    BY <1>5 DEF Arrive, TakeArrival, session, outgoing
  <2> QED
    BY <1>1, <1>2, <1>5, <2>1, LineKept, RestartHoldsArrived, RestartHoldsTaken
<1>6. CASE CommitMessage
  <2>1. /\ UNCHANGED <<arrivals, chain, made>>
        /\ disk'.incarnation = disk.incarnation /\ disk'.pending = disk.pending
        /\ mem'.held = mem.held
    BY <1>2, <1>6 DEF CommitMessage, outgoing, TypeOK
  <2>2. RestartHolds'
    BY <2>1, RestartHoldsKept DEF SomeRestart
  <2> QED
    BY <1>1, <2>1, <2>2 DEF LineIsSessions
<1>7. CASE CommitIncarnation
  BY <1>1, <1>2, <1>7, RestartHoldsCommitted, LineCommitted
<1>8. CASE Make \/ Retransmit
  <2>1. UNCHANGED <<arrivals, mem>>
    BY <1>8 DEF Make, Retransmit, queue, session
  <2>2. RestartHolds'
    BY <2>1, RestartHoldsKept DEF SomeRestart
  <2> QED
    BY <1>1, <1>2, <1>8, <2>2, LineMade, LineRetransmitted
<1>9. CASE GiveUp
  <2>1. UNCHANGED <<arrivals, mem>>
    BY <1>9 DEF GiveUp, queue
  <2>2. RestartHolds'
    BY <2>1, RestartHoldsKept DEF SomeRestart
  <2>3. chain' = <<>> /\ disk'.pending = {}
    BY <1>2, <1>9 DEF GiveUp, TypeOK
  <2> QED
    BY <1>1, <2>2, <2>3 DEF LineIsSessions
<1>10. CASE Crash
  <2>1. arrivals' = <<>> /\ chain' = <<>> /\ UNCHANGED <<disk, made>>
    BY <1>10 DEF Crash
  <2>2. ~SomeRestart'
    BY <2>1 DEF SomeRestart
  <2> QED
    BY <1>1, <1>2, <2>1, <2>2, LineKept DEF RestartHolds
<1> QED
  BY <1>3, <1>4, <1>5, <1>6, <1>7, <1>8, <1>9, <1>10 DEF Next

(* What the transport is given, a message that waited in line or an ACK,    *)
(* was made in the session on record or before there was one, and nothing   *)
(* is given to it while a restart waits.                                   *)
THEOREM AlwaysGivenForTheSession == Spec => GivenForTheSession
<1> DEFINE Given ==
      \A k \in {"chain", "ack"} :
          sending[k] = NoSend /\ sending'[k] # NoSend =>
              /\ sending'[k].session \in {Unknown, disk.incarnation}
              /\ ~RestartWaits
<1>1. Init => HoldInv
  <2> SUFFICES ASSUME Init PROVE HoldInv
    OBVIOUS
  <2>1. QueueInv
    BY QueueInitially
  <2> QED
    BY <2>1 DEF Init, HoldInv, RestartHolds, SomeRestart, LineIsSessions
<1>2. HoldInv /\ [Next]_vars => HoldInv'
  BY HoldInductive
<1>3. HoldInv /\ [Next]_vars => [Given]_vars
  <2> SUFFICES ASSUME HoldInv, Next,
                      NEW k \in {"chain", "ack"},
                      sending[k] = NoSend, sending'[k] # NoSend
               PROVE  /\ sending'[k].session \in {Unknown, disk.incarnation}
                      /\ ~RestartWaits
    OBVIOUS
  <2>1. RestartWaits => mem.held
    BY RestartWaitsInQueue DEF HoldInv, RestartHolds
  <2>2. sending \in [{"chain", "ack"} -> Sends \cup {NoSend}]
    BY DEF HoldInv, QueueInv, TypeOK
  <2>3. CASE TakeTurn
    <3>1. k = "chain" /\ ~mem.held /\ sending'[k] = Head(chain)
      BY <2>2, <2>3 DEF TakeTurn, MaySend
    <3>2. Head(chain) = chain[1] /\ 1 \in 1 .. Len(chain)
      BY <2>3 DEF TakeTurn, HoldInv, QueueInv, TypeOK
    <3> QED
      BY <2>1, <3>1, <3>2 DEF HoldInv, LineIsSessions
  <2>4. CASE SendStandaloneAck
    <3>1. /\ k = "ack" /\ ~mem.held
          /\ sending'[k] = Outgoing(0, disk.incarnation)
      BY <2>2, <2>4 DEF SendStandaloneAck
    <3> QED
      BY <2>1, <3>1, SessionOfOutgoing
  <2>5. ASSUME UNCHANGED sending PROVE FALSE
    BY <2>5
  <2>6. ASSUME NEW l \in {"chain", "ack"}, sending' = [sending EXCEPT ![l] = NoSend]
        PROVE  FALSE
    BY <2>2, <2>6
  <2>7. ASSUME sending' = NothingSent PROVE FALSE
    BY <2>7 DEF NothingSent
  <2> QED
    BY <2>3, <2>4, <2>5, <2>6, <2>7
    DEF Next, PeerRestarts, InboundHandshake, RegisterChannel, LoseChannel,
        ReaderEnds, ForgetPeer, Arrive, TakeArrival, CommitMessage,
        DiscardMessage, CommitIncarnation, Make, Retransmit, GiveUp,
        WriteMessage, DialAndWrite, SendFails, Crash, outgoing
<1> QED
  BY <1>1, <1>2, <1>3, PTL DEF Spec, GivenForTheSession

-----------------------------------------------------------------------------
(* What is taken.                                                          *)

(* Messages that wait are the session's or late ones of an earlier: they    *)
(* come before the restart, and after the first incarnation's record.      *)
MessagesAreSessions ==
    /\ \A j \in 1 .. Len(arrivals) :
          IsMessage(arrivals[j]) => arrivals[j].from <= Current
    /\ crank # NoArrival /\ IsMessage(crank) =>
          /\ crank.from <= disk.incarnation /\ disk.incarnation # Unknown
          /\ crank.seq > mem.highest

(* The watermark is the last taken of the session's, all others are of an  *)
(* earlier session.                                                        *)
TakenSoFar ==
    /\ disk.highest = mem.highest
    /\ \A j \in 1 .. Len(taken) :
          /\ taken[j].session <= disk.incarnation
          /\ taken[j].session # Unknown
          /\ taken[j].session = disk.incarnation =>
                taken[j].seq <= mem.highest
    /\ mem.highest # 0 =>
          \E j \in 1 .. Len(taken) :
              /\ taken[j].session = disk.incarnation
              /\ taken[j].seq = mem.highest

NotEarly == \A j \in 1 .. Len(taken) : taken[j].from <= taken[j].session

OnceInOrder ==
    \A j, k \in 1 .. Len(taken) : j < k =>
        \/ taken[j].session < taken[k].session
        \/ taken[j].session = taken[k].session /\ taken[j].seq < taken[k].seq

SessionInv ==
    QueueInv /\ MessagesAreSessions /\ TakenSoFar /\ NotEarly /\ OnceInOrder

LEMMA TakenType ==
    ASSUME TypeOK
    PROVE  /\ Len(taken) \in Nat
           /\ \A j \in 1 .. Len(taken) :
                 /\ taken[j].from \in Nat \ {0} /\ taken[j].seq \in Nat \ {0}
                 /\ taken[j].session \in Nat
           /\ disk.incarnation \in Nat /\ disk.highest \in Nat
           /\ mem.highest \in Nat
<1>1. /\ taken \in Seq([from : Incarnations, seq : Seqs,
                        session : 0 .. MaxIncarnations])
      /\ disk \in [incarnation : 0 .. MaxIncarnations, highest : 0 .. MaxSeq,
                   pending : SUBSET (1 .. MaxMade)]
      /\ mem \in [highest : 0 .. MaxSeq, held : BOOLEAN]
  BY DEF TypeOK
<1>2. Len(taken) \in Nat
  BY <1>1
<1>3. ASSUME NEW j \in 1 .. Len(taken)
      PROVE  /\ taken[j].from \in Incarnations /\ taken[j].seq \in Seqs
             /\ taken[j].session \in 0 .. MaxIncarnations
  <2> DEFINE kept == [from : Incarnations, seq : Seqs,
                      session : 0 .. MaxIncarnations]
  <2>1. taken[j] \in kept
    <3>1. taken \in Seq(kept)
      BY <1>1
    <3> HIDE DEF kept
    <3> QED
      BY <3>1
  <2> QED
    BY <2>1
<1>4. /\ disk.incarnation \in 0 .. MaxIncarnations
      /\ disk.highest \in 0 .. MaxSeq /\ mem.highest \in 0 .. MaxSeq
  BY <1>1
<1>5. /\ Incarnations \subseteq Nat \ {0} /\ Seqs \subseteq Nat \ {0}
      /\ 0 .. MaxIncarnations \subseteq Nat /\ 0 .. MaxSeq \subseteq Nat
  BY Bounds DEF Incarnations, Seqs
<1> QED
  BY <1>2, <1>3, <1>4, <1>5

LEMMA TakenDomain == ASSUME TypeOK PROVE DOMAIN taken = 1 .. Len(taken)
BY DEF TypeOK

(* The first of the queue stays first while nothing is on record.          *)
LEMMA FirstObserved ==
    ASSUME QueueInv, Observe(peer), StoredIncarnation = Unknown, arrivals # <<>>
    PROVE  arrivals' # <<>> /\ arrivals'[1] = arrivals[1]
<1> USE DEF QueueInv
<1>1. QueuedAs(peer, arrivals')
  <2>1. arrivals' = AcceptPeerIncarnation(peer)
    BY DEF Observe
  <2> QED
    BY <2>1, PeerType, Accepted
<1>2. IsFirst(arrivals[1]) /\ 1 \in 1 .. Len(arrivals) /\ Len(arrivals) \in Nat
  BY ArrivalsType DEF QueueShape, FirstIsFirst
<1>3. WaitingRestarts # {} => Len(arrivals) # 1
  <2> SUFFICES ASSUME WaitingRestarts # {}, Len(arrivals) = 1 PROVE FALSE
    OBVIOUS
  <2>1. IsRestart(arrivals[1])
    BY WaitingRestart DEF QueueShape
  <2> QED
    BY <1>2, <2>1 DEF IsFirst, IsRestart
<1>4. Len(arrivals) # 0
  BY <1>2
<1>5. CASE arrivals' = arrivals
  BY <1>5
<1>6. CASE /\ Len(arrivals') = Len(arrivals) + 1
           /\ \A k \in 1 .. Len(arrivals) : arrivals'[k] = arrivals[k]
  <2>1. Len(arrivals') # 0 /\ arrivals'[1] = arrivals[1]
    BY <1>2, <1>6
  <2> QED
    BY <2>1
<1>7. CASE /\ WaitingRestarts # {} /\ Len(arrivals') = Len(arrivals)
           /\ \A k \in 1 .. Len(arrivals) :
                 k # Len(arrivals) => arrivals'[k] = arrivals[k]
  <2>1. 1 # Len(arrivals)
    BY <1>3, <1>7
  <2>2. Len(arrivals') # 0 /\ arrivals'[1] = arrivals[1]
    BY <1>2, <1>4, <1>7, <2>1
  <2> QED
    BY <2>2
<1> QED
  BY <1>1, <1>5, <1>6, <1>7 DEF QueuedAs

(* A handshake adds and changes no message.                                *)
LEMMA MessagesObserved ==
    ASSUME QueueInv, MessagesAreSessions, Observe(peer), UNCHANGED <<disk, crank>>
    PROVE  MessagesAreSessions'
<1> USE DEF QueueInv
<1>1. QueuedAs(peer, arrivals')
  <2>1. arrivals' = AcceptPeerIncarnation(peer)
    BY DEF Observe
  <2> QED
    BY <2>1, PeerType, Accepted
<1>2. /\ ~IsMessage(IncarnationItem(peer, TRUE))
      /\ ~IsMessage(IncarnationItem(peer, FALSE))
  BY PeerType, IncarnationItemIsItem
<1>3. Len(arrivals) \in Nat
  BY ArrivalsType
<1>4. ASSUME NEW j \in 1 .. Len(arrivals'), IsMessage(arrivals'[j])
      PROVE  j \in 1 .. Len(arrivals) /\ arrivals'[j] = arrivals[j]
  <2>1. CASE Len(arrivals') = 1 /\ arrivals'[1] = IncarnationItem(peer, FALSE)
    <3>1. j = 1
      BY <1>4, <2>1
    <3> QED
      BY <1>2, <1>4, <2>1, <3>1
  <2>2. CASE /\ Len(arrivals') = Len(arrivals) + 1
             /\ \A k \in 1 .. Len(arrivals) : arrivals'[k] = arrivals[k]
             /\ arrivals'[Len(arrivals')] = IncarnationItem(peer, TRUE)
    <3>1. j # Len(arrivals')
      BY <1>2, <1>4, <2>2
    <3>2. j \in 1 .. Len(arrivals)
      BY <1>3, <2>2, <3>1
    <3> QED
      BY <2>2, <3>2
  <2>3. CASE /\ Len(arrivals') = Len(arrivals)
             /\ \A k \in 1 .. Len(arrivals) :
                   k # Len(arrivals) => arrivals'[k] = arrivals[k]
             /\ arrivals'[Len(arrivals')] = IncarnationItem(peer, TRUE)
    <3>1. j # Len(arrivals')
      BY <1>2, <1>4, <2>3
    <3> QED
      BY <2>3, <3>1
  <2>4. CASE arrivals' = arrivals
    BY <2>4
  <2> QED
    BY <1>1, <2>1, <2>2, <2>3, <2>4 DEF QueuedAs
<1>5. StoredIncarnation' = StoredIncarnation
  BY DEF StoredIncarnation, Recording
<1>6. ASSUME NEW j \in 1 .. Len(arrivals), StoredIncarnation = Unknown
      PROVE  arrivals'[1] = arrivals[1]
  <2>1. arrivals # <<>>
    BY <1>3, ArrivalsType
  <2> QED
    BY <1>6, <2>1, FirstObserved
<1>7. \A j \in 1 .. Len(arrivals') :
         IsMessage(arrivals'[j]) => arrivals'[j].from <= Current'
  <2> SUFFICES ASSUME NEW j \in 1 .. Len(arrivals'), IsMessage(arrivals'[j])
               PROVE  arrivals'[j].from <= Current'
    OBVIOUS
  <2>1. j \in 1 .. Len(arrivals) /\ arrivals'[j] = arrivals[j]
    BY <1>4
  <2>2. Current' = Current
    BY <1>5, <1>6, <2>1 DEF Current
  <2> QED
    BY <2>1, <2>2 DEF MessagesAreSessions
<1>8. mem'.highest = mem.highest
  BY DEF Observe, TypeOK
<1> QED
  BY <1>7, <1>8 DEF MessagesAreSessions

LEMMA MessagesArrived ==
    ASSUME QueueInv, MessagesAreSessions, Arrive
    PROVE  MessagesAreSessions'
<1> USE DEF QueueInv
<1>1. PICK i \in readers, n \in Seqs :
         /\ AcceptRemoteInbound(i, n)
         /\ UNCHANGED <<peer, session, crank, alive, transport, outgoing,
                        crashes>>
  BY DEF Arrive
<1>2. i \in Incarnations /\ i \in Nat /\ StoredIncarnation \in Nat
  BY StoredType, Bounds DEF TypeOK, Incarnations
<1>3. i <= Current /\ (StoredIncarnation = Unknown => arrivals # <<>>)
  <2>1. KnownEnd(i)
    BY DEF QueueShape, EndsAreKnown
  <2> QED
    BY <1>2, <2>1 DEF KnownEnd
<1>4. StoredIncarnation' = StoredIncarnation
  BY <1>1 DEF StoredIncarnation, Recording, session
<1> DEFINE w == Len(arrivals)
<1>5. w \in Nat /\ Len(arrivals') = w + 1
  BY <1>1, <1>2, ArrivalsType, Inserted
<1>6. \/ /\ \A j \in 1 .. w : arrivals'[j] = arrivals[j]
         /\ arrivals'[w + 1] = InboundItem(i, n)
      \/ /\ w # 0 /\ IsRestart(arrivals[w])
         /\ \A j \in 1 .. w : j # w => arrivals'[j] = arrivals[j]
         /\ arrivals'[w] = InboundItem(i, n)
         /\ arrivals'[w + 1] = arrivals[w]
  BY <1>1, <1>2, Inserted, WaitingRestart DEF QueueShape
<1>7. ASSUME NEW j \in 1 .. w + 1
      PROVE  \/ arrivals'[j] = InboundItem(i, n)
             \/ \E k \in 1 .. w : arrivals'[j] = arrivals[k]
  <2>1. CASE j = w + 1
    BY <1>5, <1>6, <2>1
  <2>2. CASE j # w + 1
    <3>1. j \in 1 .. w
      BY <1>5, <2>2
    <3> QED
      BY <1>6, <3>1
  <2> QED
    BY <2>1, <2>2
<1>8. Current' = Current
  <2>1. CASE StoredIncarnation = Unknown
    <3>1. IsFirst(arrivals[1]) /\ 1 \in 1 .. w
      BY <1>3, <1>5, <2>1, ArrivalsType DEF QueueShape, FirstIsFirst
    <3>2. IsRestart(arrivals[w]) => w # 1
      BY <3>1 DEF IsFirst, IsRestart
    <3>3. arrivals'[1] = arrivals[1]
      BY <1>6, <3>1, <3>2
    <3> QED
      BY <1>4, <2>1, <3>3 DEF Current
  <2>2. CASE StoredIncarnation # Unknown
    BY <1>4, <2>2 DEF Current
  <2> QED
    BY <2>1, <2>2
<1>9. InboundItem(i, n).from = i
  BY <1>2, InboundItemIsItem
<1>10. \A j \in 1 .. Len(arrivals') :
          IsMessage(arrivals'[j]) => arrivals'[j].from <= Current'
  BY <1>3, <1>5, <1>7, <1>8, <1>9 DEF MessagesAreSessions
<1>11. UNCHANGED <<mem, disk, crank>>
  BY <1>1 DEF session
<1> QED
  BY <1>10, <1>11 DEF MessagesAreSessions

(* The message whose crank opens is of the incarnation on record, and new. *)
LEMMA MessagesTaken ==
    ASSUME QueueInv, MessagesAreSessions, TakeArrival
    PROVE  MessagesAreSessions'
<1> USE DEF QueueInv
<1>1. /\ arrivals # <<>> /\ arrivals' = Tail(arrivals)
      /\ crank' = IF /\ Head(arrivals).type = "message"
                     /\ Head(arrivals).seq <= mem.highest
                  THEN NoArrival ELSE Head(arrivals)
      /\ UNCHANGED <<mem, disk>>
  BY DEF TakeArrival, session
<1>2. /\ Head(arrivals) = arrivals[1] /\ arrivals[1] \in Items
      /\ Len(arrivals') = Len(arrivals) - 1 /\ Len(arrivals) \in Nat \ {0}
      /\ \A j \in 1 .. Len(arrivals) - 1 : arrivals'[j] = arrivals[j + 1]
  BY <1>1, Taken
<1>3. 1 \in 1 .. Len(arrivals)
  BY <1>2
<1>4. ASSUME IsMessage(crank'), crank' # NoArrival
      PROVE  /\ crank'.from <= disk.incarnation /\ disk.incarnation # Unknown
             /\ crank'.seq > mem.highest
  <2>1. crank' = arrivals[1] /\ IsMessage(arrivals[1])
    BY <1>1, <1>2, <1>4
  <2>2. ~(arrivals[1].seq <= mem.highest)
    BY <1>1, <1>2, <1>4, <2>1 DEF IsMessage
  <2>3. arrivals[1].seq \in Nat /\ mem.highest \in Nat
    BY <1>2, <2>1, ItemIsMessageOrIncarnation, TakenType, Bounds DEF Seqs
  <2>4. StoredIncarnation = disk.incarnation /\ StoredIncarnation # Unknown
    BY <1>2, <2>1, TakenCases, ItemIsMessageOrIncarnation DEF IsFirst, IsRestart
  <2>5. arrivals[1].from <= disk.incarnation
    BY <1>3, <2>1, <2>4 DEF MessagesAreSessions, Current
  <2> QED
    BY <2>1, <2>2, <2>3, <2>4, <2>5
<1>5. ASSUME NEW j \in 1 .. Len(arrivals'), IsMessage(arrivals'[j])
      PROVE  arrivals'[j].from <= Current'
  <2>1. j + 1 \in 1 .. Len(arrivals) /\ arrivals'[j] = arrivals[j + 1]
    BY <1>2
  <2>2. arrivals'[j].from <= Current
    BY <1>5, <2>1 DEF MessagesAreSessions
  <2>3. Len(arrivals) # 1
    BY <1>2
  <2>4. arrivals[1].incarnation \in Incarnations => arrivals[1].incarnation # Unknown
    BY Bounds DEF Incarnations, Unknown
  <2>5. IsFirst(arrivals[1]) => arrivals[1].incarnation \in Incarnations
    BY <1>2, ItemIsMessageOrIncarnation DEF IsFirst
  <2>6. Current' = Current
    BY <2>3, <2>4, <2>5, TakenCases DEF Current
  <2> QED
    BY <2>2, <2>6
<1> QED
  BY <1>1, <1>4, <1>5 DEF MessagesAreSessions

LEMMA MessagesCommitted ==
    ASSUME QueueInv, MessagesAreSessions,
           CommitMessage \/ DiscardMessage \/ CommitIncarnation
    PROVE  MessagesAreSessions'
<1>1. /\ StoredIncarnation' = StoredIncarnation /\ arrivals' = arrivals
      /\ crank' = NoArrival
  BY CrankEnds DEF CommitMessage, DiscardMessage, CommitIncarnation, QueueInv
<1> QED
  BY <1>1 DEF MessagesAreSessions, Current

LEMMA MessagesUnchanged ==
    ASSUME MessagesAreSessions, UNCHANGED <<arrivals, crank>>,
           mem'.highest = mem.highest, disk'.incarnation = disk.incarnation
    PROVE  MessagesAreSessions'
BY DEF MessagesAreSessions, Current, StoredIncarnation, Recording

TakenInv == TakenSoFar /\ NotEarly /\ OnceInOrder

LEMMA TakenUnchanged ==
    ASSUME TakenInv, taken' = taken, disk'.incarnation = disk.incarnation,
           disk'.highest = disk.highest, mem'.highest \in {mem.highest, disk.highest}
    PROVE  TakenInv'
BY DEF TakenInv, TakenSoFar, NotEarly, OnceInOrder

LEMMA TakenCommitted ==
    ASSUME QueueInv, MessagesAreSessions, TakenInv, CommitMessage
    PROVE  TakenInv'
<1> USE DEF QueueInv
<1> DEFINE new == [from |-> crank.from, seq |-> crank.seq,
                   session |-> disk.incarnation]
<1>1. /\ crank # NoArrival /\ IsMessage(crank) /\ crank \in Items
      /\ taken' = Append(taken, new)
      /\ disk' = [disk EXCEPT !.highest = crank.seq]
      /\ mem' = [mem EXCEPT !.highest = crank.seq]
  BY DEF CommitMessage, IsMessage, TypeOK
<1>2. crank.from \in Incarnations /\ crank.seq \in Seqs
  BY <1>1, ItemIsMessageOrIncarnation
<1>3. crank.seq \in Nat \ {0}
  BY <1>2, Bounds DEF Seqs
<1>4. /\ crank.from <= disk.incarnation /\ disk.incarnation # Unknown
      /\ crank.seq > mem.highest
  BY <1>1 DEF MessagesAreSessions
<1>5. /\ disk'.incarnation = disk.incarnation
      /\ disk'.highest = crank.seq /\ mem'.highest = crank.seq
  BY <1>1 DEF TypeOK
<1>6. /\ new.from <= disk.incarnation /\ new.seq = crank.seq
      /\ new.session = disk.incarnation
  BY <1>4
<1> HIDE DEF new
<1>7. /\ Len(taken') = Len(taken) + 1
      /\ \A j \in 1 .. Len(taken) : taken'[j] = taken[j]
      /\ taken'[Len(taken) + 1] = new
  BY <1>1 DEF TypeOK
<1>8. /\ Len(taken) \in Nat /\ mem.highest \in Nat
      /\ \A j \in 1 .. Len(taken) : taken[j].session \in Nat /\ taken[j].seq \in Nat
      /\ disk.incarnation \in Nat
  BY TakenType
<1>9. ASSUME NEW j \in 1 .. Len(taken)
      PROVE  /\ taken[j].session <= disk.incarnation /\ taken[j].session # Unknown
             /\ taken[j].session = disk.incarnation => taken[j].seq < crank.seq
  <2>1. /\ taken[j].session <= disk.incarnation /\ taken[j].session # Unknown
        /\ taken[j].session = disk.incarnation => taken[j].seq <= mem.highest
    BY DEF TakenInv, TakenSoFar
  <2> QED
    BY <1>3, <1>4, <1>8, <2>1
<1>10. TakenSoFar'
  <2>1. ASSUME NEW j \in 1 .. Len(taken')
        PROVE  /\ taken'[j].session <= disk.incarnation
               /\ taken'[j].session # Unknown
               /\ taken'[j].session = disk.incarnation => taken'[j].seq <= crank.seq
    <3>1. CASE j = Len(taken) + 1
      BY <1>3, <1>4, <1>6, <1>7, <1>8, <3>1
    <3>2. CASE j # Len(taken) + 1
      <4>1. j \in 1 .. Len(taken)
        BY <1>7, <1>8, <3>2
      <4> QED
        BY <1>3, <1>7, <1>8, <1>9, <4>1
    <3> QED
      BY <3>1, <3>2
  <2>2. Len(taken) + 1 \in 1 .. Len(taken')
    BY <1>7, <1>8
  <2> QED
    BY <1>5, <1>6, <1>7, <2>1, <2>2 DEF TakenSoFar
<1>11. NotEarly'
  <2>1. ASSUME NEW j \in 1 .. Len(taken') PROVE taken'[j].from <= taken'[j].session
    <3>1. CASE j = Len(taken) + 1
      BY <1>6, <1>7, <3>1
    <3>2. CASE j # Len(taken) + 1
      <4>1. j \in 1 .. Len(taken)
        BY <1>7, <1>8, <3>2
      <4> QED
        BY <1>7, <4>1 DEF TakenInv, NotEarly
    <3> QED
      BY <3>1, <3>2
  <2> QED
    BY <2>1 DEF NotEarly
<1>12. OnceInOrder'
  <2>1. ASSUME NEW j \in 1 .. Len(taken'), NEW k \in 1 .. Len(taken'), j < k
        PROVE  \/ taken'[j].session < taken'[k].session
               \/ /\ taken'[j].session = taken'[k].session
                  /\ taken'[j].seq < taken'[k].seq
    <3>1. j \in 1 .. Len(taken) /\ taken'[j] = taken[j]
      BY <1>7, <1>8, <2>1
    <3>2. CASE k = Len(taken) + 1
      <4>1. taken'[k].session = disk.incarnation /\ taken'[k].seq = crank.seq
        BY <1>6, <1>7, <3>2
      <4>2. \/ taken[j].session < disk.incarnation
            \/ taken[j].session = disk.incarnation /\ taken[j].seq < crank.seq
        BY <1>8, <1>9, <3>1
      <4> QED
        BY <3>1, <4>1, <4>2
    <3>3. CASE k # Len(taken) + 1
      <4>1. k \in 1 .. Len(taken) /\ taken'[k] = taken[k]
        BY <1>7, <1>8, <3>3
      <4> QED
        BY <2>1, <3>1, <4>1 DEF TakenInv, OnceInOrder
    <3> QED
      BY <3>2, <3>3
  <2> QED
    BY <2>1 DEF OnceInOrder
<1> QED
  BY <1>10, <1>11, <1>12 DEF TakenInv

(* The watermark of a new session is zero, and so is that of the first.    *)
LEMMA TakenRecorded ==
    ASSUME QueueInv, TakenInv, CommitIncarnation PROVE TakenInv'
<1> USE DEF QueueInv
<1>1. /\ Recording /\ taken' = taken
      /\ disk'.incarnation = crank.incarnation
      /\ IF RecordingRestart
         THEN disk'.highest = 0 /\ mem'.highest = 0
         ELSE disk'.highest = disk.highest /\ mem' = mem
  BY DEF CommitIncarnation, Finalized, TypeOK
<1>2. disk.incarnation < crank.incarnation
  BY <1>1 DEF QueueShape, IncarnationsGrow
<1>3. crank.incarnation \in Nat
  <2>1. crank \in Items /\ IsIncarnation(crank)
    BY <1>1 DEF Recording, TypeOK, IsIncarnation
  <2> QED
    BY <2>1, ItemIsMessageOrIncarnation, Bounds DEF Incarnations
<1>4. \A j \in 1 .. Len(taken) :
         taken[j].session <= disk.incarnation /\ taken[j].session \in Nat \ {0}
  BY TakenType DEF TakenInv, TakenSoFar, Unknown
<1>5. \A j \in 1 .. Len(taken) : taken[j].session < crank.incarnation
  BY <1>2, <1>3, <1>4, TakenType
<1>6. disk'.highest = 0 /\ mem'.highest = 0
  <2>1. CASE RecordingRestart
    BY <1>1, <2>1
  <2>2. CASE ~RecordingRestart
    <3>1. disk.incarnation = 0
      BY <1>1, <2>2 DEF RecordingRestart, Unknown
    <3>2. ~\E j \in 1 .. Len(taken) : TRUE
      BY <1>4, <3>1
    <3>3. mem.highest = 0 /\ disk.highest = 0
      BY <3>2 DEF TakenInv, TakenSoFar
    <3> QED
      BY <1>1, <2>2, <3>3
  <2> QED
    BY <2>1, <2>2
<1>7. TakenSoFar'
  <2>1. \A j \in 1 .. Len(taken) :
           taken[j].session <= crank.incarnation /\ taken[j].session # crank.incarnation
    BY <1>3, <1>4, <1>5
  <2> QED
    BY <1>1, <1>4, <1>6, <2>1 DEF TakenSoFar, Unknown
<1> QED
  BY <1>1, <1>7 DEF TakenInv, NotEarly, OnceInOrder

LEMMA SessionInductive ==
    ASSUME SessionInv, [Next]_vars PROVE SessionInv'
<1>1. QueueInv'
  BY QueueInductive DEF SessionInv
<1>2. TakenInv /\ QueueInv /\ MessagesAreSessions /\ TypeOK
  BY DEF SessionInv, TakenInv, QueueInv
<1> SUFFICES MessagesAreSessions' /\ TakenInv'
  BY <1>1 DEF SessionInv, TakenInv
<1>3. CASE \/ PeerRestarts \/ RegisterChannel \/ LoseChannel \/ ReaderEnds
           \/ ForgetPeer \/ Make \/ Retransmit \/ GiveUp \/ TakeTurn
           \/ SendStandaloneAck \/ WriteMessage \/ SendFails \/ UNCHANGED vars
  <2>1. /\ UNCHANGED <<arrivals, crank, taken, mem>>
        /\ disk'.incarnation = disk.incarnation /\ disk'.highest = disk.highest
    BY <1>2, <1>3
    DEF PeerRestarts, RegisterChannel, LoseChannel, ReaderEnds, ForgetPeer,
        Make, Retransmit, GiveUp, TakeTurn, SendStandaloneAck, WriteMessage,
        SendFails, vars, session, queue, TypeOK
  <2> QED
    BY <1>2, <2>1, MessagesUnchanged, TakenUnchanged
<1>4. CASE InboundHandshake \/ DialAndWrite
  <2>1. Observe(peer) /\ UNCHANGED <<disk, crank, taken>>
    BY <1>4 DEF InboundHandshake, DialAndWrite
  <2>2. mem'.highest = mem.highest
    BY <1>2, <2>1 DEF Observe, TypeOK
  <2> QED
    BY <1>2, <2>1, <2>2, MessagesObserved, TakenUnchanged
<1>5. CASE Arrive \/ TakeArrival
  <2>1. UNCHANGED <<disk, mem, taken>>
    BY <1>5 DEF Arrive, TakeArrival, session
  <2> QED
    BY <1>2, <1>5, <2>1, MessagesArrived, MessagesTaken, TakenUnchanged
<1>6. CASE CommitMessage
  BY <1>2, <1>6, MessagesCommitted, TakenCommitted
<1>7. CASE DiscardMessage
  <2>1. UNCHANGED <<disk, mem, taken>>
    BY <1>7 DEF DiscardMessage, session
  <2> QED
    BY <1>2, <1>7, <2>1, MessagesCommitted, TakenUnchanged
<1>8. CASE CommitIncarnation
  BY <1>2, <1>8, MessagesCommitted, TakenRecorded
<1>9. CASE Crash
  <2>1. /\ arrivals' = <<>> /\ crank' = NoArrival /\ UNCHANGED <<disk, taken>>
        /\ mem'.highest = disk.highest
    BY <1>9 DEF Crash
  <2>2. MessagesAreSessions'
    BY <2>1 DEF MessagesAreSessions
  <2> QED
    BY <1>2, <2>1, <2>2, TakenUnchanged
<1> QED
  BY <1>3, <1>4, <1>5, <1>6, <1>7, <1>8, <1>9 DEF Next

LEMMA SessionAlways == Spec => []SessionInv
<1>1. Init => SessionInv
  <2> SUFFICES ASSUME Init PROVE SessionInv
    OBVIOUS
  <2>1. QueueInv
    BY QueueInitially
  <2>2. Len(arrivals) = 0 /\ Len(taken) = 0 /\ crank = NoArrival
    BY DEF Init
  <2>3. mem.highest = 0 /\ disk.highest = 0
    BY DEF Init
  <2> QED
    BY <2>1, <2>2, <2>3
    DEF SessionInv, MessagesAreSessions, TakenSoFar, NotEarly, OnceInOrder
<1>2. SessionInv /\ [Next]_vars => SessionInv'
  BY SessionInductive
<1> QED
  BY <1>1, <1>2, PTL DEF Spec

(* Nothing of a new incarnation is carried out before the crank that        *)
(* records it, and forgets the session with the old one, has committed.    *)
THEOREM AlwaysNothingTakenEarly == Spec => []NothingTakenEarly
<1>1. SessionInv => NothingTakenEarly
  BY TakenDomain DEF SessionInv, QueueInv, NotEarly, NothingTakenEarly
<1> QED
  BY <1>1, SessionAlways, PTL

(* Within a session no number is carried out twice or out of order, and no  *)
(* session begins again, whenever the kernel dies.                         *)
THEOREM AlwaysTakenOnceInOrder == Spec => []TakenOnceInOrder
<1>1. SessionInv => TakenOnceInOrder
  BY TakenDomain DEF SessionInv, QueueInv, OnceInOrder, TakenOnceInOrder
<1> QED
  BY <1>1, SessionAlways, PTL

LEMMA MaxIsGreatest ==
    ASSUME NEW S \in SUBSET Nat, NEW m \in S, \A n \in S : n <= m
    PROVE  Max(S) = m
<1> DEFINE greatest(x) == \A y \in S : x >= y
<1>1. greatest(m)
  OBVIOUS
<1> HIDE DEF greatest
<1>2. Max(S) \in S /\ greatest(Max(S))
  <2>1. Max(S) = CHOOSE x \in S : greatest(x)
    BY DEF Max, greatest
  <2> QED
    BY <1>1, <2>1
<1>3. Max(S) >= m /\ Max(S) <= m
  BY <1>2 DEF greatest
<1>4. Max(S) \in Nat /\ m \in Nat
  BY <1>2
<1> QED
  BY <1>3, <1>4

(* The watermark, in the store and in memory, is that of the session with   *)
(* the incarnation on record, and begins at zero with each.                *)
THEOREM AlwaysWatermarkIsSessions == Spec => []WatermarkIsSessions
<1>1. SessionInv => WatermarkIsSessions
  <2> SUFFICES ASSUME SessionInv PROVE WatermarkIsSessions
    OBVIOUS
  <2> DEFINE own == {taken[j].seq : j \in {k \in DOMAIN taken :
                        taken[k].session = disk.incarnation}}
  <2>1. DOMAIN taken = 1 .. Len(taken)
    BY TakenDomain DEF SessionInv, QueueInv
  <2>2. /\ \A j \in 1 .. Len(taken) : taken[j].seq \in Nat
        /\ mem.highest \in Nat
    BY TakenType DEF SessionInv, QueueInv
  <2>3. own \cup {0} \in SUBSET Nat
    BY <2>1, <2>2
  <2>4. \A n \in own \cup {0} : n <= mem.highest
    BY <2>1, <2>2 DEF SessionInv, TakenSoFar
  <2>5. mem.highest \in own \cup {0}
    BY <2>1, <2>2 DEF SessionInv, TakenSoFar
  <2> HIDE DEF own
  <2>6. Max(own \cup {0}) = mem.highest
    BY <2>3, <2>4, <2>5, MaxIsGreatest
  <2> QED
    BY <2>6 DEF WatermarkIsSessions, own, SessionInv, TakenSoFar
<1> QED
  BY <1>1, SessionAlways, PTL
=============================================================================
