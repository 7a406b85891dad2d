---------------------------- MODULE RemoteSession ----------------------------
(***************************************************************************)
(* One direction of a session between two kernels: the sending half of one *)
(* RemoteHandle, the receiving half of its peer's, and the connection      *)
(* between them.  The connection is a stream: it delivers in order, or     *)
(* breaks and loses whatever had not arrived.  Acknowledgements travel     *)
(* apart: any that the receiver has sent may reach the sender at any time, *)
(* late, again or never.                                                   *)
(***************************************************************************)
EXTENDS RemoteSender, RemoteReceiver

CONSTANT
    DiesMidWrite    \* whether the sender's kernel may die between two writes
                    \* that no transaction joins

(* Whatever the sender may make has a number and a body here.              *)
ASSUME SessionAssumption ==
    /\ 1 .. MaxMade \subseteq Seqs \cap Msgs
    /\ DiesMidWrite \in BOOLEAN

VARIABLE
    wire                \* messages written and not yet arrived, oldest first

sessionVars == <<senderVars, receiverVars, wire>>

SessionInit == SenderInit /\ ReceiverInit /\ wire = <<>>

-----------------------------------------------------------------------------

SenderMoves == SenderStep /\ UNCHANGED <<receiverVars, wire>>

(* The transport writes the chain's first message to the stream.           *)
Write ==
    /\ WriteMessage
    /\ wire' = Append(wire, [seq |-> Head(chain).seq, msg |-> Head(chain).msg])
    /\ UNCHANGED receiverVars

(* The receiver reads the next message off the stream.                     *)
Arrive ==
    /\ wire # <<>>
    /\ ReceiveFromPeer(Head(wire))
    /\ wire' = Tail(wire)
    /\ UNCHANGED senderVars

(* An acknowledgement reaches the sender.                                  *)
AckArrives ==
    /\ \E receipt \in acks : HandleAck(receipt)
    /\ UNCHANGED <<receiverVars, wire>>

(* The sender's kernel dies with a write half done.                        *)
SenderDies ==
    /\ DiesMidWrite
    /\ \/ RestartWhileEnqueueing
       \/ \E receipt \in acks : RestartWhileAcknowledging(receipt)
    /\ UNCHANGED <<receiverVars, wire>>

(* The receiver's ordinary work.                                           *)
Receive == TakeArrival \/ ReceiveInbound \/ CommitInbound

Acknowledge ==
    \/ SendStandaloneAck
    \/ \E receipt \in Seqs : PiggybackAck(receipt)

ReceiverMoves == (Receive \/ Acknowledge) /\ UNCHANGED <<senderVars, wire>>

(* What may go wrong beyond the sender's own faults: the stream breaks, a  *)
(* delivery throws, the receiver dies, and its connection with it.         *)
ConnectionBreaks ==
    /\ \E kept \in 0 .. Len(wire) - 1 : wire' = SubSeq(wire, 1, kept)
    /\ UNCHANGED receiverVars

DeliveryThrows == DiscardInbound /\ UNCHANGED wire

ReceiverDies == RestartReceiver /\ wire' = <<>>

Fault ==
    /\ faults < MaxFaults
    /\ faults' = faults + 1
    /\ ConnectionBreaks \/ DeliveryThrows \/ ReceiverDies
    /\ UNCHANGED <<memoryVars, writing, retryCount, attached, inCrank, kv,
                   undo, owed, historyVars>>

SessionNext ==
    \/ SenderMoves
    \/ Write
    \/ Arrive
    \/ AckArrives
    \/ SenderDies
    \/ ReceiverMoves
    \/ Fault

SessionSpec == SessionInit /\ [][SessionNext]_sessionVars

-----------------------------------------------------------------------------

IsTaken(msg) == \E i \in DOMAIN committed.log : committed.log[i].msg = msg

(* The receiver carries messages out in the order their sender made them,  *)
(* each at most once, through crashes of either kernel, broken connections *)
(* and retransmissions.                                                    *)
TakenInMadeOrder ==
    \A i, j \in DOMAIN committed.log :
        i < j => committed.log[i].msg < committed.log[j].msg

(* A sender retires a message only for a receipt the receiver has made     *)
(* durable: the acknowledgement it went by survives any crash there.       *)
RetiredIsReceipted == ackedUpTo <= committed.highest

(* Both kernels run, and the connection carries what is put on it.         *)
SessionFairness ==
    /\ WF_sessionVars(CommitCrank /\ UNCHANGED <<receiverVars, wire>>)
    /\ WF_sessionVars(AttachTransport /\ UNCHANGED <<receiverVars, wire>>)
    /\ WF_sessionVars(HandleAckTimeout /\ UNCHANGED <<receiverVars, wire>>)
    /\ WF_sessionVars(StartSend /\ UNCHANGED <<receiverVars, wire>>)
    /\ WF_sessionVars(Write)
    /\ WF_sessionVars(Arrive)
    /\ WF_sessionVars(Receive /\ UNCHANGED <<senderVars, wire>>)

FairSessionSpec == SessionSpec /\ SessionFairness

(* Between kernels that stay up, over a connection that holds, every       *)
(* message the sender commits is carried out, or given up on.              *)
EverythingDelivered ==
    \A msg \in 1 .. MaxMade :
        IsDurable(msg) ~> (IsTaken(msg) \/ msg \in abandoned)

=============================================================================
