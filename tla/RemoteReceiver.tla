--------------------------- MODULE RemoteReceiver ---------------------------
(***************************************************************************)
(* The receiving half of a RemoteHandle, with the part of the kernel queue *)
(* and router that takes a peer's messages in cranks of their own.         *)
(*                                                                         *)
(* A message is held in memory on arrival (`arrivals`) and delivered later *)
(* in one crank: its effects and its sequence number are written in that   *)
(* crank's one transaction (`store`), which commits as a whole             *)
(* (`committed`) or not at all.  The in-memory watermark moves only after  *)
(* the commit, and it is the only source of acknowledgements.              *)
(*                                                                         *)
(* One peer incarnation is modelled: no restart of the peer is recorded    *)
(* here, so nothing is taken "ahead of a waiting restart" and no remote is *)
(* held.  The remote stays established.  The cranks that other work takes  *)
(* touch none of this state and are not steps of this module.              *)
(***************************************************************************)
EXTENDS Naturals, Sequences, FiniteSets

CONSTANTS
    Seqs,               \* sequence numbers a peer may use
    Msgs,               \* message bodies
    MaxArrivals,        \* MAX_ARRIVALS_PER_REMOTE
    NoArrival           \* no message in the crank

ASSUME SeqsAssumption == Seqs \subseteq Nat \ {0}
ASSUME MaxArrivalsAssumption == MaxArrivals \in Nat \ {0}

Packets == [seq : Seqs, msg : Msgs]

ASSUME NoArrivalAssumption == NoArrival \notin Packets

VARIABLES
    highestReceivedSeq, \* the handle's in-memory watermark
    arrivals,           \* messages waiting for a crank, oldest first
    inbound,            \* the message the open crank took, or NoArrival
    recorded,           \* whether the open crank has written its number
    store,              \* what the open transaction reads
    committed,          \* what a restart would read
    ackDue,             \* the delayed ACK timer is armed
    acks                \* every acknowledgement the peer may yet receive

receiverVars == <<highestReceivedSeq, arrivals, inbound, recorded, store,
                  committed, ackDue, acks>>

EmptyReceipts == [highest |-> 0, log |-> <<>>]

ReceiverInit ==
    /\ highestReceivedSeq = 0
    /\ arrivals = <<>>
    /\ inbound = NoArrival
    /\ recorded = FALSE
    /\ store = EmptyReceipts
    /\ committed = EmptyReceipts
    /\ ackDue = FALSE
    /\ acks = {}

-----------------------------------------------------------------------------

(* The arrivals that still take one of the remote's slots: a copy held     *)
(* before its original committed gives its slot up once it has.            *)
Held == { i \in DOMAIN arrivals : arrivals[i].seq > highestReceivedSeq }

(* Whether an arriving message is turned into a waiting arrival: it is not *)
(* a copy of one taken by a committed crank or of one waiting, and the     *)
(* remote has a slot left.                                                 *)
Accepts(seq) ==
    /\ seq > highestReceivedSeq
    /\ \A i \in Held : arrivals[i].seq # seq
    /\ Cardinality(Held) < MaxArrivals

(* A message comes off the wire.  Every arrival, a copy or a refused one   *)
(* too, restarts the delayed ACK, if there is anything to acknowledge.     *)
ReceiveFromPeer(packet) ==
    /\ ackDue' = (highestReceivedSeq > 0)
    /\ arrivals' = IF Accepts(packet.seq) THEN Append(arrivals, packet)
                                          ELSE arrivals
    /\ UNCHANGED <<highestReceivedSeq, inbound, recorded, store, committed,
                   acks>>

(* Mutant of TakeArrival: the watermark is not looked at again.            *)
TakeArrivalUnchecked ==
    /\ inbound = NoArrival
    /\ arrivals # <<>>
    /\ arrivals' = Tail(arrivals)
    /\ inbound' = Head(arrivals)
    /\ UNCHANGED <<highestReceivedSeq, recorded, store, committed, ackDue,
                   acks>>

(* The run loop takes the oldest arrival off the list.  A copy of a        *)
(* message taken since it was accepted ends its crank with no writes.      *)
TakeArrival ==
    /\ inbound = NoArrival
    /\ arrivals # <<>>
    /\ arrivals' = Tail(arrivals)
    /\ inbound' = IF Head(arrivals).seq <= highestReceivedSeq
                  THEN NoArrival ELSE Head(arrivals)
    /\ UNCHANGED <<highestReceivedSeq, recorded, store, committed, ackDue,
                   acks>>

(* Mutants of ReceiveInbound: the log keeps the body without its number,   *)
(* the watermark moves before the commit, and the number is not recorded.  *)
ReceiveInboundUnnumbered ==
    /\ inbound # NoArrival
    /\ ~recorded
    /\ store' = [highest |-> inbound.seq,
                 log |-> Append(store.log, inbound.msg)]
    /\ recorded' = TRUE
    /\ UNCHANGED <<highestReceivedSeq, arrivals, inbound, committed, ackDue,
                   acks>>

ReceiveInboundAcked ==
    /\ inbound # NoArrival
    /\ ~recorded
    /\ store' = [highest |-> inbound.seq, log |-> Append(store.log, inbound)]
    /\ recorded' = TRUE
    /\ highestReceivedSeq' = inbound.seq
    /\ UNCHANGED <<arrivals, inbound, committed, ackDue, acks>>

ReceiveInboundUnrecorded ==
    /\ inbound # NoArrival
    /\ ~recorded
    /\ store' = [store EXCEPT !.log = Append(@, inbound)]
    /\ recorded' = TRUE
    /\ UNCHANGED <<highestReceivedSeq, arrivals, inbound, committed, ackDue,
                   acks>>

(* The open crank carries the message out and records its number.          *)
ReceiveInbound ==
    /\ inbound # NoArrival
    /\ ~recorded
    /\ store' = [highest |-> inbound.seq, log |-> Append(store.log, inbound)]
    /\ recorded' = TRUE
    /\ UNCHANGED <<highestReceivedSeq, arrivals, inbound, committed, ackDue,
                   acks>>

(* The crank commits, and its afterCommit moves the watermark and arms the *)
(* delayed ACK again.                                                      *)
CommitInbound ==
    /\ inbound # NoArrival
    /\ recorded
    /\ committed' = store
    /\ highestReceivedSeq' = inbound.seq
    /\ ackDue' = TRUE
    /\ inbound' = NoArrival
    /\ recorded' = FALSE
    /\ UNCHANGED <<arrivals, store, acks>>

(* Mutant of DiscardInbound: what was written of the message is kept.      *)
DiscardInboundUnrolled ==
    /\ inbound # NoArrival
    /\ inbound' = NoArrival
    /\ recorded' = FALSE
    /\ UNCHANGED <<highestReceivedSeq, arrivals, store, committed, ackDue,
                   acks>>

(* Delivering the message throws, before or after its writes: the router   *)
(* discards it and the crank aborts back to its savepoint.                 *)
DiscardInbound ==
    /\ inbound # NoArrival
    /\ store' = committed
    /\ inbound' = NoArrival
    /\ recorded' = FALSE
    /\ UNCHANGED <<highestReceivedSeq, arrivals, committed, ackDue, acks>>

(* The delayed ACK timer fires and sends the watermark on its own.         *)
SendStandaloneAck ==
    /\ ackDue
    /\ ackDue' = FALSE
    /\ acks' = IF highestReceivedSeq > 0 THEN acks \cup {highestReceivedSeq}
                                         ELSE acks
    /\ UNCHANGED <<highestReceivedSeq, arrivals, inbound, recorded, store,
                   committed>>

(* An outgoing message goes on the wire and stops the delayed ACK.  The    *)
(* receipt it carries was the watermark when the message was written down, *)
(* which may be an earlier one: the number of any message taken.           *)
PiggybackAck(receipt) ==
    /\ \E i \in DOMAIN committed.log : committed.log[i].seq = receipt
    /\ receipt <= highestReceivedSeq
    /\ acks' = acks \cup {receipt}
    /\ ackDue' = FALSE
    /\ UNCHANGED <<highestReceivedSeq, arrivals, inbound, recorded, store,
                   committed>>

(* The kernel dies and restarts: memory is gone, and the handle reads its  *)
(* watermark back from whatever the transaction left behind.  A kernel     *)
(* that dies inside the commit may find it done.                           *)
RestartReceiver ==
    /\ committed' \in {committed} \cup (IF recorded THEN {store} ELSE {})
    /\ store' = committed'
    /\ highestReceivedSeq' = committed'.highest
    /\ arrivals' = <<>>
    /\ inbound' = NoArrival
    /\ recorded' = FALSE
    /\ ackDue' = FALSE
    /\ UNCHANGED acks

(* What the receiver does of its own accord.                               *)
ReceiverStep ==
    \/ TakeArrival
    \/ ReceiveInbound
    \/ CommitInbound
    \/ DiscardInbound
    \/ SendStandaloneAck
    \/ \E receipt \in Seqs : PiggybackAck(receipt)
    \/ RestartReceiver

(* On its own the receiver meets an arbitrary peer: any message, any       *)
(* number of times, in any order.                                          *)
ReceiverNext ==
    \/ ReceiverStep
    \/ \E packet \in Packets : ReceiveFromPeer(packet)

ReceiverSpec == ReceiverInit /\ [][ReceiverNext]_receiverVars

-----------------------------------------------------------------------------

ReceiptsType == [highest : Nat, log : Seq(Packets)]

(* The values the receiver's state ranges over.                            *)
ReceiverTypeOK ==
    /\ highestReceivedSeq \in Nat
    /\ arrivals \in Seq(Packets)
    /\ inbound \in Packets \cup {NoArrival}
    /\ recorded \in BOOLEAN
    /\ store \in ReceiptsType
    /\ committed \in ReceiptsType
    /\ ackDue \in BOOLEAN
    /\ acks \in SUBSET Nat

(* An acknowledgement, and the watermark every later one is read from,     *)
(* covers only receipts a restart would find: nothing a crash or an abort  *)
(* can take back has been acknowledged.                                    *)
AcksAreDurable ==
    /\ highestReceivedSeq <= committed.highest
    /\ \A receipt \in acks : receipt <= committed.highest

(* The numbers of the messages carried out strictly increase, so no        *)
(* message is carried out twice and none after a later one, however often  *)
(* and in whatever order its copies arrived.                               *)
TakenInOrder(log) ==
    \A i, j \in DOMAIN log : i < j => log[i].seq < log[j].seq

TakenOnceInOrder == TakenInOrder(store.log) /\ TakenInOrder(committed.log)

(* The effects of the latest message and the recorded watermark are        *)
(* durable together or not at all: a restart never finds one alone.        *)
EffectsMatchReceipt ==
    committed.highest = IF committed.log = <<>> THEN 0
                        ELSE committed.log[Len(committed.log)].seq

(* The inductive invariant behind the properties above.  The watermark in  *)
(* memory is the durable one; the open transaction differs from what is    *)
(* durable by exactly the message the crank has recorded; and a crank only *)
(* ever holds a message later than every durable one.                      *)
LogMatches(receipts) ==
    /\ TakenInOrder(receipts.log)
    /\ receipts.highest = IF receipts.log = <<>> THEN 0
                          ELSE receipts.log[Len(receipts.log)].seq

ReceiverInv ==
    /\ highestReceivedSeq = committed.highest
    /\ \A receipt \in acks : receipt \in 1 .. committed.highest
    /\ LogMatches(committed)
    /\ inbound # NoArrival => inbound.seq > committed.highest
    /\ recorded => inbound # NoArrival
    /\ store = IF recorded
               THEN [highest |-> inbound.seq,
                     log |-> Append(committed.log, inbound)]
               ELSE committed

(* The receiver keeps an OrderedInbox's promise: its committed log and the *)
(* acknowledgements it has sent.                                           *)
Inbox == INSTANCE OrderedInbox WITH taken <- committed.log, promised <- acks

ImplementsInbox == Inbox!InboxSpec

=============================================================================
