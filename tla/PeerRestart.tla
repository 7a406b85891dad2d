------------------------------ MODULE PeerRestart ------------------------------
(***************************************************************************)
(* A peer that restarts.  Each life of its kernel is an incarnation, which *)
(* the handshake of every connection reports.  The first report of a new   *)
(* one is queued for a crank of its own, which forgets the session with    *)
(* the old one; until it has committed, new connections are closed,        *)
(* messages that still arrive are the old incarnation's, and nothing is    *)
(* sent.                                                                   *)
(*                                                                         *)
(* One kernel, one peer, and a remote that stays established.  The peer    *)
(* sends any of its messages, any number of times; messages to the peer    *)
(* carry, for the properties, the session they were made in.  Channels are *)
(* told apart by the incarnation at their other end.                       *)
(***************************************************************************)
EXTENDS Integers, Sequences, FiniteSets, SequencesExt, FiniteSetsExt

CONSTANTS
    MaxIncarnations,  \* bound: lives of the peer
    MaxSeq,           \* bound: messages the peer makes in one life
    MaxArrivals,      \* MAX_ARRIVALS_PER_REMOTE
    MaxMade,          \* bound: messages made for the peer
    MaxTaken,         \* bound: messages carried out
    MaxCrashes,       \* bound: crashes of the kernel
    NoArrival,        \* no crank is open
    NoSend            \* nothing is with the transport

Unknown == 0          \* no incarnation has been recorded, or heard of
Incarnations == 1 .. MaxIncarnations
Seqs == 1 .. MaxSeq

ASSUME BoundsAreNaturals ==
    /\ {MaxIncarnations, MaxSeq, MaxArrivals, MaxMade, MaxTaken,
        MaxCrashes} \subseteq Nat
    /\ MaxIncarnations > 0 /\ MaxArrivals > 0

VARIABLES
    peer,        \* the incarnation the peer is in
    disk,        \* what has been committed of the session
    mem,         \* what the remote handle keeps of it
    arrivals,    \* messages and incarnation changes waiting for their cranks
    ahead,       \* messages taken ahead of the restart that waits
    crank,       \* the arrival whose crank is open
    channel,     \* the registered channel
    readers,     \* the channels still being read
    heard,       \* the incarnation the transport remembers
    shaken,      \* an inbound handshake accepted and not yet registered
    chain,       \* messages waiting for their turn to be sent, without
                 \* those of a queue that has been let go of
    sending,     \* what is with the transport: one from the chain, one ACK
    alive,       \* whether the run loop is running
    made,        \* messages made for the peer, each with its session
    taken,       \* messages of the peer that took effect
    crashes

vars == <<peer, disk, mem, arrivals, ahead, crank, channel, readers, heard,
          shaken, chain, sending, alive, made, taken, crashes>>

session   == <<disk, mem, taken>>
transport == <<channel, readers, heard, shaken>>
queue     == <<arrivals, ahead, crank, alive>>
outgoing  == <<chain, sending, made>>

(***************************************************************************)
(* What waits.                                                             *)
(***************************************************************************)

InboundItem(i, n) == [type |-> "message", from |-> i, seq |-> n]
IncarnationItem(i, restart) ==
    [type |-> "incarnation", incarnation |-> i, restart |-> restart]

Items ==
    [type : {"message"}, from : Incarnations, seq : Seqs]
        \cup [type : {"incarnation"}, incarnation : Incarnations,
              restart : BOOLEAN]

ASSUME NoArrivalAssumption == NoArrival \notin Items

WaitingIncarnations ==
    {arrivals[j].incarnation :
        j \in {k \in DOMAIN arrivals : arrivals[k].type = "incarnation"}}

WaitingRestarts ==
    {j \in DOMAIN arrivals :
        arrivals[j].type = "incarnation" /\ arrivals[j].restart}

Recording == crank # NoArrival /\ crank.type = "incarnation"
RecordingRestart == Recording /\ disk.incarnation # Unknown

(* Read through the open crank's transaction.                              *)
StoredIncarnation == IF Recording THEN crank.incarnation ELSE disk.incarnation

RestartWaits ==
    LET waiting == Cardinality(WaitingIncarnations)
    IN  IF StoredIncarnation = Unknown THEN waiting > 1 ELSE waiting > 0

(***************************************************************************)
(* Handshakes.                                                             *)
(***************************************************************************)

Known == (IF StoredIncarnation = Unknown THEN {} ELSE {StoredIncarnation})
             \cup WaitingIncarnations

(* Mutant: a restart waits behind the one that waits already.              *)
AcceptPeerIncarnationToo(i) ==
    IF i \in Known THEN arrivals
    ELSE Append(arrivals, IncarnationItem(i, Known # {}))

(* acceptPeerIncarnation: a restart takes the place of one that waits.     *)
AcceptPeerIncarnation(i) ==
    IF i \in Known THEN arrivals
    ELSE IF Known # {} /\ WaitingRestarts # {}
    THEN [arrivals EXCEPT ![Min(WaitingRestarts)].incarnation = i]
    ELSE Append(arrivals, IncarnationItem(i, Known # {}))

Restarted(i) == RecordingRestart \/ \E k \in Known : k # i

(* Mutant: the watermark goes with the old session at once, and not with    *)
(* the crank that records the new one.                                     *)
ObserveResetting(i) ==
    /\ arrivals' = AcceptPeerIncarnation(i)
    /\ IF Restarted(i)
       THEN mem' = [highest |-> 0, held |-> TRUE] /\ chain' = <<>>
       ELSE UNCHANGED <<mem, chain>>
    /\ heard' = i

(* A handshake that reports incarnation i.                                 *)
Observe(i) ==
    /\ arrivals' = AcceptPeerIncarnation(i)
    /\ IF Restarted(i)
       THEN mem' = [mem EXCEPT !.held = TRUE] /\ chain' = <<>>
       ELSE UNCHANGED <<mem, chain>>
    /\ heard' = i

(* Mutant: the kernel's verdict on the handshake is not waited for.        *)
MayGoOnUnlessHeard(i) == heard \in {Unknown, i}

(* Unless the transport or the kernel knew the peer by another.            *)
MayGoOn(i) == heard \in {Unknown, i} /\ ~Restarted(i)

InboundHandshake ==
    /\ alive /\ shaken = Unknown
    /\ Observe(peer)
    /\ shaken' = IF MayGoOn(peer) THEN peer ELSE Unknown
    /\ UNCHANGED <<peer, disk, ahead, crank, channel, readers, sending, made, alive, taken, crashes>>

RegisterChannel ==
    /\ shaken # Unknown
    /\ channel' = shaken
    /\ readers' = readers \cup {shaken}
    /\ shaken' = Unknown
    /\ UNCHANGED <<peer, session, queue, heard, outgoing, crashes>>

(* A channel that fails in a write or is lost goes on being read to its    *)
(* end.                                                                    *)
LoseChannel ==
    /\ channel # Unknown
    /\ channel' = Unknown
    /\ UNCHANGED <<peer, session, queue, readers, heard, shaken, outgoing,
                   crashes>>

ReaderEnds ==
    \E i \in readers :
        /\ readers' = readers \ {i}
        /\ channel' = IF channel = i THEN Unknown ELSE channel
        /\ UNCHANGED <<peer, session, queue, heard, shaken, outgoing, crashes>>

(* Stale-peer cleanup.                                                     *)
ForgetPeer ==
    /\ channel = Unknown /\ heard # Unknown
    /\ heard' = Unknown
    /\ UNCHANGED <<peer, session, queue, channel, readers, shaken, outgoing,
                   crashes>>

PeerRestarts ==
    /\ peer < MaxIncarnations
    /\ peer' = peer + 1
    /\ UNCHANGED <<session, queue, transport, outgoing, crashes>>

(***************************************************************************)
(* Messages of the peer.                                                   *)
(***************************************************************************)

HeldSeqs == {arrivals[j].seq : j \in {k \in DOMAIN arrivals :
                 arrivals[k].type = "message" /\ arrivals[k].seq > mem.highest}}

(* Mutant: what is taken ahead of a restart is not counted.                *)
AcceptRemoteInboundUncounted(i, n) ==
    /\ n > mem.highest
    /\ n \notin HeldSeqs
    /\ Cardinality(HeldSeqs) < MaxArrivals
    /\ UNCHANGED ahead
    /\ arrivals' = IF WaitingRestarts = {} THEN Append(arrivals, InboundItem(i, n))
                   ELSE InsertAt(arrivals, Min(WaitingRestarts), InboundItem(i, n))

(* acceptRemoteInbound, for a message it does not dismiss or refuse.       *)
AcceptRemoteInbound(i, n) ==
    /\ n > mem.highest
    /\ n \notin HeldSeqs
    /\ Cardinality(HeldSeqs) < MaxArrivals
    /\ IF WaitingRestarts = {}
       THEN arrivals' = Append(arrivals, InboundItem(i, n)) /\ UNCHANGED ahead
       ELSE /\ ahead < MaxArrivals
            /\ ahead' = ahead + 1
            /\ arrivals' = InsertAt(arrivals, Min(WaitingRestarts),
                                    InboundItem(i, n))

(* From any channel still read, the old incarnation's too once its          *)
(* successor is on record.                                                 *)
Arrive ==
    \E i \in readers, n \in Seqs :
        /\ alive
        /\ AcceptRemoteInbound(i, n)
        /\ UNCHANGED <<peer, session, crank, alive, transport, outgoing, crashes>>

(***************************************************************************)
(* Cranks.                                                                 *)
(***************************************************************************)

TakeArrival ==
    /\ alive /\ crank = NoArrival /\ arrivals # <<>>
    /\ LET item == Head(arrivals)
       IN  /\ crank' = IF item.type = "message" /\ item.seq <= mem.highest
                       THEN NoArrival ELSE item
           /\ alive' = ~(item.type = "incarnation"
                            /\ item.incarnation = disk.incarnation)
           /\ ahead' = IF Min(WaitingRestarts \cup {Len(arrivals) + 1}) = 1
                       THEN 0 ELSE ahead
    /\ arrivals' = Tail(arrivals)
    /\ UNCHANGED <<peer, session, transport, outgoing, crashes>>

CommitMessage ==
    /\ crank # NoArrival /\ crank.type = "message"
    /\ Len(taken) < MaxTaken
    /\ disk' = [disk EXCEPT !.highest = crank.seq]
    /\ mem' = [mem EXCEPT !.highest = crank.seq]
    /\ taken' = Append(taken, [from |-> crank.from, seq |-> crank.seq,
                               session |-> disk.incarnation])
    /\ crank' = NoArrival
    /\ UNCHANGED <<peer, arrivals, ahead, alive, transport, outgoing, crashes>>

(* A delivery that throws is rolled back.                                  *)
DiscardMessage ==
    /\ crank # NoArrival /\ crank.type = "message"
    /\ crank' = NoArrival
    /\ UNCHANGED <<peer, session, arrivals, ahead, alive, transport, outgoing,
                   crashes>>

(* Mutant: the watermark of the old session is kept.                       *)
FinalizedButHighest ==
    [highest |-> mem.highest, held |-> WaitingIncarnations # {}]

(* finalizePeerRestart, and the hold again if yet another restart waits.   *)
Finalized == [highest |-> 0, held |-> WaitingIncarnations # {}]

CommitIncarnation ==
    /\ Recording
    /\ disk' = IF RecordingRestart
               THEN [incarnation |-> crank.incarnation, highest |-> 0,
                     pending |-> {}]
               ELSE [disk EXCEPT !.incarnation = crank.incarnation]
    /\ IF RecordingRestart THEN mem' = Finalized /\ chain' = <<>>
       ELSE UNCHANGED <<mem, chain>>
    /\ crank' = NoArrival
    /\ UNCHANGED <<peer, arrivals, ahead, alive, transport, sending, made, taken, crashes>>

(***************************************************************************)
(* Messages to the peer.                                                   *)
(***************************************************************************)

Sends == [id : 0 .. MaxMade, session : 0 .. MaxIncarnations]

Outgoing(id, madeIn) == [id |-> id, session |-> madeIn]

(* Written down, and put in line, by a crank of its own.                   *)
Make ==
    /\ alive /\ crank = NoArrival
    /\ Len(made) < MaxMade
    /\ made' = Append(made, disk.incarnation)
    /\ disk' = [disk EXCEPT !.pending = @ \cup {Len(made')}]
    /\ chain' = Append(chain, Outgoing(Len(made'), disk.incarnation))
    /\ UNCHANGED <<peer, mem, taken, queue, transport, sending, crashes>>

(* The ACK timer does nothing while a restart holds the remote.            *)
Retransmit ==
    /\ ~mem.held /\ ~Recording
    /\ \E id \in disk.pending :
          /\ \A j \in DOMAIN chain : chain[j].id # id
          /\ chain' = Append(chain, Outgoing(id, made[id]))
    /\ UNCHANGED <<peer, session, queue, transport, sending, made, crashes>>

(* handleRemoteGiveUp, which leaves it to a restart that waits.            *)
GiveUp ==
    /\ ~RestartWaits /\ ~Recording
    /\ disk.pending # {}
    /\ disk' = [disk EXCEPT !.pending = {}]
    /\ chain' = <<>>
    /\ UNCHANGED <<peer, mem, taken, queue, transport, sending, made,
                   crashes>>

(* Mutant: a message put in line while a restart holds the remote goes out. *)
MaySendHeld == TRUE

MaySend == ~mem.held

TakeTurn ==
    /\ chain # <<>> /\ sending["chain"] = NoSend
    /\ sending' = [sending EXCEPT !["chain"] =
                      IF MaySend THEN Head(chain) ELSE NoSend]
    /\ chain' = Tail(chain)
    /\ UNCHANGED <<peer, session, queue, transport, made, crashes>>

(* A standalone ACK does not wait in line.                                 *)
SendStandaloneAck ==
    /\ ~mem.held /\ mem.highest > 0 /\ sending["ack"] = NoSend
    /\ sending' = [sending EXCEPT !["ack"] = Outgoing(0, disk.incarnation)]
    /\ UNCHANGED <<peer, session, queue, transport, chain, made, crashes>>

(* The transport writes on the registered channel, the one it found or one *)
(* that came up while it dialed.                                           *)
WriteMessage ==
    \E k \in {"chain", "ack"} :
        /\ sending[k] # NoSend
        /\ channel # Unknown
        /\ sending' = [sending EXCEPT ![k] = NoSend]
        /\ UNCHANGED <<peer, session, queue, transport, chain, made, crashes>>

(* Or dials the peer: a channel that may go on is registered and written   *)
(* on, one whose handshake reports a restart is closed and the send fails. *)
DialAndWrite ==
    \E k \in {"chain", "ack"} :
        /\ alive /\ sending[k] # NoSend
        /\ channel = Unknown
        /\ Observe(peer)
        /\ sending' = [sending EXCEPT ![k] = NoSend]
        /\ IF MayGoOn(peer)
           THEN /\ channel' = peer
                /\ readers' = readers \cup {peer}
           ELSE UNCHANGED <<channel, readers>>
        /\ UNCHANGED <<peer, disk, ahead, crank, alive, shaken, made, taken,
                       crashes>>

SendFails ==
    \E k \in {"chain", "ack"} :
        /\ sending[k] # NoSend
        /\ sending' = [sending EXCEPT ![k] = NoSend]
        /\ UNCHANGED <<peer, session, queue, transport, chain, made,
                       crashes>>

(***************************************************************************)
(* A crash takes everything but the store, whose open transaction is       *)
(* undone.                                                                 *)
(***************************************************************************)

NothingSent == [k \in {"chain", "ack"} |-> NoSend]

Crash ==
    /\ crashes < MaxCrashes
    /\ crashes' = crashes + 1
    /\ mem' = [highest |-> disk.highest, held |-> FALSE]
    /\ arrivals' = <<>>
    /\ ahead' = 0
    /\ crank' = NoArrival
    /\ channel' = Unknown
    /\ readers' = {}
    /\ heard' = Unknown
    /\ shaken' = Unknown
    /\ chain' = <<>>
    /\ sending' = NothingSent
    /\ alive' = TRUE
    /\ UNCHANGED <<peer, disk, made, taken>>

Init ==
    /\ peer = 1
    /\ disk = [incarnation |-> Unknown, highest |-> 0, pending |-> {}]
    /\ mem = [highest |-> 0, held |-> FALSE]
    /\ arrivals = <<>>
    /\ ahead = 0
    /\ crank = NoArrival
    /\ channel = Unknown
    /\ readers = {}
    /\ heard = Unknown
    /\ shaken = Unknown
    /\ chain = <<>>
    /\ sending = NothingSent
    /\ alive = TRUE
    /\ made = <<>>
    /\ taken = <<>>
    /\ crashes = 0

Next ==
    \/ PeerRestarts
    \/ InboundHandshake \/ RegisterChannel \/ LoseChannel \/ ReaderEnds
    \/ ForgetPeer
    \/ Arrive
    \/ TakeArrival \/ CommitMessage \/ DiscardMessage \/ CommitIncarnation
    \/ Make \/ Retransmit \/ GiveUp
    \/ TakeTurn \/ SendStandaloneAck
    \/ WriteMessage \/ DialAndWrite \/ SendFails
    \/ Crash

Spec == Init /\ [][Next]_vars

(* The run loop takes what waits and its cranks end.                       *)
Fairness ==
    /\ WF_vars(TakeArrival)
    /\ WF_vars(CommitMessage \/ DiscardMessage \/ CommitIncarnation)

FairSpec == Spec /\ Fairness

(***************************************************************************)
(* Properties.                                                             *)
(***************************************************************************)

(* Every variable keeps its type.                                          *)
TypeOK ==
    /\ peer \in Incarnations
    /\ disk \in [incarnation : 0 .. MaxIncarnations, highest : 0 .. MaxSeq,
                 pending : SUBSET (1 .. MaxMade)]
    /\ disk.pending \subseteq DOMAIN made
    /\ mem \in [highest : 0 .. MaxSeq, held : BOOLEAN]
    /\ arrivals \in Seq(Items) /\ ahead \in 0 .. MaxArrivals
    /\ crank \in Items \cup {NoArrival}
    /\ channel \in 0 .. MaxIncarnations /\ readers \subseteq Incarnations
    /\ heard \in 0 .. MaxIncarnations /\ shaken \in 0 .. MaxIncarnations
    /\ chain \in Seq(Sends)
    /\ sending \in [{"chain", "ack"} -> Sends \cup {NoSend}]
    /\ made \in Seq(0 .. MaxIncarnations) /\ Len(made) <= MaxMade
    /\ taken \in Seq([from : Incarnations, seq : Seqs,
                      session : 0 .. MaxIncarnations])
    /\ alive \in BOOLEAN /\ crashes \in 0 .. MaxCrashes

(* The first message of a new incarnation waits for the crank that forgets  *)
(* the session with the old one: none is carried out, and acknowledged, in  *)
(* a session the kernel is about to forget, though connections of both      *)
(* incarnations come and go while the crank waits.                         *)
NothingTakenEarly ==
    \A j \in DOMAIN taken : taken[j].from <= taken[j].session

(* Within a session no number is carried out twice or after a later one,    *)
(* though the hold begins long before the session ends and the kernel may   *)
(* die at any time; and no session begins again.                           *)
TakenOnceInOrder ==
    \A j, k \in DOMAIN taken : j < k =>
        \/ taken[j].session < taken[k].session
        \/ taken[j].session = taken[k].session /\ taken[j].seq < taken[k].seq

(* The watermark is the session's: what a message is judged a copy by, and  *)
(* what is acknowledged, counts what was carried out since the incarnation  *)
(* on record was recorded, and nothing from before.                        *)
WatermarkIsSessions ==
    LET own == {taken[j].seq : j \in {k \in DOMAIN taken :
                   taken[k].session = disk.incarnation}}
    IN  mem.highest = Max(own \cup {0}) /\ disk.highest = mem.highest

(* One crank per restart: no incarnation is queued that is on record or     *)
(* being recorded, and a peer that restarts again and again has one restart *)
(* waiting; the crank never finds its own incarnation recorded.             *)
OneCrankPerRestart ==
    /\ alive
    /\ StoredIncarnation \notin WaitingIncarnations
    /\ Cardinality(WaitingRestarts) <= 1

(* What the transport is given was made in the session on record, with no   *)
(* restart known: a message still in line when a restart is noticed is let  *)
(* go, whichever way the hold then ends.                                    *)
GivenForTheSession ==
    [][\A k \in {"chain", "ack"} :
          sending[k] = NoSend /\ sending'[k] # NoSend =>
              /\ sending'[k].session \in {Unknown, disk.incarnation}
              /\ ~RestartWaits]_vars

(* A restart is recorded in the end, however long the old incarnation's     *)
(* channel goes on yielding messages, and the hold it put on ends.          *)
RestartsAreRecorded == mem.held ~> ~mem.held
=============================================================================
