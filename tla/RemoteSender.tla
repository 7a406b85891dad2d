---------------------------- MODULE RemoteSender ----------------------------
(***************************************************************************)
(* The sending half of a RemoteHandle.                                     *)
(*                                                                         *)
(* Outgoing messages are numbered and written down in the store, in the    *)
(* transaction of the crank that makes them, and handed to the transport   *)
(* once that crank commits; a request that awaits the peer's reply is      *)
(* written down and handed over at once, inside a crank or out of one.     *)
(* The handle keeps in memory a second window over the queue, which moves  *)
(* only with what the transport has been given, and which a rollback does  *)
(* not restore.  Sends go out one at a time (`chain`); an ACK timeout      *)
(* sends the queue again, and a peer given up on has its queue abandoned.  *)
(*                                                                         *)
(* Memory is lost in a restart, and so is the transport until it is        *)
(* attached again.  A message is a number of its own (`made` counts them), *)
(* so that a sequence number used twice shows.  One incarnation of the     *)
(* peer is modelled: `heldForRestart` is false throughout.                 *)
(***************************************************************************)
EXTENDS Integers, Sequences, FiniteSets, SequencesExt, Ordering

CONSTANTS
    MaxPending,     \* MAX_PENDING_MESSAGES
    MaxRetries,     \* MAX_RETRIES
    MaxMade,        \* bound: messages made
    MaxFaults,      \* bound: restarts, failed sends and transport give-ups
    MidCrankSends,  \* whether a request may be made while a crank is open
    NoDelivery      \* no delivery awaits its crank's commit

ASSUME SenderAssumption ==
    /\ MaxPending \in Nat \ {0}
    /\ MaxRetries \in Nat
    /\ MaxMade \in Nat
    /\ MaxFaults \in Nat
    /\ MidCrankSends \in BOOLEAN
    /\ NoDelivery \notin [seq : Nat, wasEmpty : BOOLEAN]

VARIABLES
    window,             \* #startSeq and #nextSendSeq
    lastTransmittedSeq,
    awaitingTransmit,   \* numbers waiting their turn |-> wasEmpty
    chain,              \* #outboundChain: the sends not yet finished
    writing,            \* the chain's first send is with the transport
    retryCount,
    ackTimer,           \* the ACK timeout is armed
    attached,           \* #remoteComms is there
    inCrank,
    kv,                 \* the store: the stored window and the pending rows
    undo,               \* the store as the open crank found it
    owed,               \* the delivery its crank's afterCommit will send
    made,               \* history: how many messages have been made
    durable,            \* history: numbered messages the store has committed
    handed,             \* history: numbered messages given to the chain
    wired,              \* history: numbered messages written to the peer
    ackedUpTo,          \* history: highest acknowledgement handled
    abandoned,          \* history: messages given up on, as far as this
                        \* incarnation or the store remembers it
    faults              \* how many faults have happened

senderVars ==
    <<window, lastTransmittedSeq, awaitingTransmit, chain, writing,
      retryCount, ackTimer, attached, inCrank, kv, undo, owed, made, durable,
      handed, wired, ackedUpTo, abandoned, faults>>

memoryVars == <<window, lastTransmittedSeq, awaitingTransmit, chain, ackTimer>>
historyVars == <<made, durable, handed, wired, ackedUpTo, abandoned>>

NoRows == [seq \in {} |-> 0]
EmptyStore == [start |-> 0, next |-> 0, rows |-> NoRows]
EmptyWindow == [start |-> 0, next |-> 0]

SenderInit ==
    /\ window = EmptyWindow
    /\ lastTransmittedSeq = 0
    /\ awaitingTransmit = NoRows
    /\ chain = <<>>
    /\ writing = FALSE
    /\ retryCount = 0
    /\ ackTimer = FALSE
    /\ attached = FALSE
    /\ inCrank = FALSE
    /\ kv = EmptyStore
    /\ undo = EmptyStore
    /\ owed = NoDelivery
    /\ made = 0
    /\ durable = {}
    /\ handed = {}
    /\ wired = {}
    /\ ackedUpTo = 0
    /\ abandoned = {}
    /\ faults = 0

-----------------------------------------------------------------------------
(* Windows over the queue of unacknowledged messages.                      *)

HasPending(w) == w.next > 0 /\ w.start <= w.next

CountPending(w) == IF HasPending(w) THEN w.next - w.start + 1 ELSE 0

StoredWindow(s) == [start |-> s.start, next |-> s.next]

(* Mutant of SendWindow: memory is not consulted.                          *)
SendWindowOfStore(s, w) == StoredWindow(s)

(* The window the next message is numbered from: the store's, unless       *)
(* memory has gone further.                                                *)
SendWindow(s, w) == IF w.next > s.next THEN w ELSE StoredWindow(s)

Without(rows, gone) == [seq \in DOMAIN rows \ gone |-> rows[seq]]

With(f, seq, value) ==
    [n \in DOMAIN f \cup {seq} |-> IF n = seq THEN value ELSE f[n]]

(* The store brought up to what memory knows the peer has.                 *)
PersistAcknowledged(s, w) ==
    IF ~HasPending(s) \/ s.start >= w.start
    THEN s
    ELSE [start |-> w.start,
          next  |-> IF s.next < w.start - 1 THEN w.start - 1 ELSE s.next,
          rows  |-> Without(s.rows,
                            {n \in s.start .. s.next : n < w.start})]

(* Writing one more message down, and what sending it will need.           *)
NextNumber(s, w) == SendWindow(PersistAcknowledged(s, w), w).next + 1

Persist(s, w, msg) ==
    LET acked == PersistAcknowledged(s, w)
        seq == NextNumber(s, w)
    IN  [start |-> IF HasPending(acked) THEN acked.start ELSE seq,
         next  |-> seq,
         rows  |-> With(acked.rows, seq, msg)]

Persisted(s, w) ==
    [seq |-> NextNumber(s, w),
     wasEmpty |-> ~HasPending(SendWindow(PersistAcknowledged(s, w), w))]

AtCapacity(s, w) ==
    CountPending(SendWindow(PersistAcknowledged(s, w), w)) >= MaxPending

-----------------------------------------------------------------------------
(* Handing messages over.                                                  *)

Send(seq, msg, loop) ==
    [seq |-> seq, msg |-> msg, loop |-> loop, retired |-> FALSE]

(* Mutant of Retired: waiting sends are not let go of.                     *)
RetiredNone(sends) == sends

Retired(sends) == [i \in DOMAIN sends |-> [sends[i] EXCEPT !.retired = TRUE]]

(* The numbered messages of the store's queue.  A row above its end is one *)
(* a request half written down has left.                                   *)
Queued(s) == { <<seq, s.rows[seq]>> : seq \in {n \in DOMAIN s.rows :
                                                n <= s.next} }

(* Mutant of StopsAt: a gap that is not held does not stop the hand-over.  *)
StopsAtHeldOnly(n, waiting, rows) ==
    /\ n >= window.start
    /\ n > window.next
    /\ n \notin DOMAIN waiting
    /\ \A m \in DOMAIN waiting : m < n

(* Where the hand-over stops: the first number that is not retired and     *)
(* either belongs to a crank still to commit, or is held and was rolled    *)
(* back.                                                                   *)
StopsAt(n, waiting, rows) ==
    /\ n >= window.start
    /\ IF n \in DOMAIN waiting THEN n \notin DOMAIN rows ELSE n > window.next

(* Hand over every message whose predecessors have gone, in order: the     *)
(* numbers passed over are retired, or have nothing to send.               *)
FlushTransmitQueue(waiting, rows, timer) ==
    IF ~attached'
    THEN /\ awaitingTransmit' = waiting
         /\ ackTimer' = timer
         /\ UNCHANGED <<window, lastTransmittedSeq, chain, handed>>
    ELSE LET stop == CHOOSE n \in lastTransmittedSeq + 1 .. MaxMade + 1 :
                         /\ StopsAt(n, waiting, rows)
                         /\ \A m \in lastTransmittedSeq + 1 .. n - 1 :
                              ~StopsAt(m, waiting, rows)
             sent == {n \in lastTransmittedSeq + 1 .. stop - 1 :
                         n >= window.start /\ n \in DOMAIN rows}
             firsts == {n \in sent \cap DOMAIN waiting : waiting[n]}
         IN  /\ lastTransmittedSeq' = stop - 1
             /\ awaitingTransmit' =
                    Without(waiting, {n \in DOMAIN waiting : n <= stop})
             /\ window' = [start |-> Max({window.start} \cup firsts),
                           next  |-> Max({window.next} \cup sent)]
             /\ chain' = chain \o
                    [i \in 1 .. Cardinality(sent) |->
                        LET seq == InOrder(sent)[i]
                        IN  Send(seq, rows[seq], FALSE)]
             /\ ackTimer' = (timer \/ sent # {})
             /\ handed' = handed \cup { <<seq, rows[seq]>> : seq \in sent }

Transmit(persisted, rows) ==
    FlushTransmitQueue(With(awaitingTransmit, persisted.seq,
                            persisted.wasEmpty), rows, ackTimer)

-----------------------------------------------------------------------------
(* Messages.                                                               *)

BeginCrank ==
    /\ ~inCrank
    /\ inCrank' = TRUE
    /\ undo' = kv
    /\ UNCHANGED <<memoryVars, writing, retryCount, attached, kv, owed,
                   historyVars, faults>>

(* A delivery is written down in its crank, to be sent when that commits.  *)
(* A GC delivery or a redemption reply is exempt from the capacity limit.  *)
DeliverToPeer(exempt) ==
    /\ inCrank
    /\ owed = NoDelivery
    /\ made < MaxMade
    /\ exempt \/ ~AtCapacity(kv, window)
    /\ made' = made + 1
    /\ kv' = Persist(kv, window, made')
    /\ owed' = Persisted(kv, window)
    /\ UNCHANGED <<memoryVars, writing, retryCount, attached, inCrank, undo,
                   durable, handed, wired, ackedUpTo, abandoned, faults>>

(* A request that awaits the peer's reply is written down and sent in one  *)
(* step.  Its store writes belong to whatever crank is open.               *)
SendRemoteCommand ==
    /\ inCrank => MidCrankSends
    /\ made < MaxMade
    /\ ~AtCapacity(kv, window)
    /\ made' = made + 1
    /\ kv' = Persist(kv, window, made')
    /\ durable' = IF inCrank THEN durable ELSE durable \cup Queued(kv')
    /\ UNCHANGED <<writing, retryCount, attached, inCrank, undo, owed, wired,
                   ackedUpTo, abandoned, faults>>
    /\ Transmit(Persisted(kv, window), kv'.rows)

(* The crank commits, and its afterCommit hands its delivery over.         *)
CommitCrank ==
    /\ inCrank
    /\ inCrank' = FALSE
    /\ owed' = NoDelivery
    /\ undo' = EmptyStore
    /\ durable' = durable \cup Queued(kv)
    /\ UNCHANGED <<writing, retryCount, attached, kv, made, wired, ackedUpTo,
                   abandoned, faults>>
    /\ IF owed = NoDelivery
       THEN UNCHANGED <<memoryVars, handed>>
       ELSE Transmit(owed, kv.rows)

(* The crank aborts: its store writes are undone, memory is not.           *)
RollbackCrank ==
    /\ inCrank
    /\ inCrank' = FALSE
    /\ owed' = NoDelivery
    /\ undo' = EmptyStore
    /\ kv' = undo
    /\ UNCHANGED <<memoryVars, writing, retryCount, attached, historyVars,
                   faults>>

-----------------------------------------------------------------------------
(* Acknowledgements, retransmission and giving up.                         *)

(* Mutant of TimerFor: the timer is not started again.                     *)
TimerForNone(w) == FALSE

TimerFor(w) == attached /\ HasPending(w)

HandleAck(ack) ==
    /\ window' = [window EXCEPT !.start =
                     IF HasPending(window) /\ window.start <= ack
                     THEN Min({ack, window.next}) + 1 ELSE @]
    /\ retryCount' = IF window' # window THEN 0 ELSE retryCount
    /\ kv' = PersistAcknowledged(kv, window')
    /\ ackTimer' = TimerFor(window')
    /\ ackedUpTo' = Max({ackedUpTo, ack})
    /\ UNCHANGED <<lastTransmittedSeq, awaitingTransmit, chain, writing,
                   attached, inCrank, undo, owed, made, durable, handed,
                   wired, abandoned, faults>>

(* Give up: the whole queue, as far as the store or memory knows it, is    *)
(* abandoned, and the sends still waiting their turn are let go of.        *)
GiveUp(sends) ==
    LET pending == SendWindow(kv, window)
    IN  /\ ackTimer' = FALSE
        /\ chain' = Retired(sends)
        /\ UNCHANGED <<lastTransmittedSeq, awaitingTransmit, handed>>
        /\ IF HasPending(pending)
           THEN /\ window' = [start |-> pending.next + 1,
                              next  |-> pending.next]
                /\ kv' = [kv EXCEPT !.start = pending.next + 1,
                                    !.next  = pending.next]
                /\ retryCount' = 0
                /\ abandoned' = abandoned \cup
                     {kv.rows[seq] : seq \in {n \in DOMAIN kv.rows :
                                   n \in pending.start .. pending.next}}
           ELSE UNCHANGED <<window, kv, retryCount, abandoned>>

(* One round of the retransmission loop, from number n on: the next        *)
(* pending message joins the chain, or the loop ends and the timer starts  *)
(* again.                                                                  *)
RetransmitFrom(n, sends, timer) ==
    LET left == {seq \in DOMAIN kv.rows : n <= seq /\ seq <= window.next}
    IN  IF left = {}
        THEN chain' = sends /\ ackTimer' = TimerFor(window)
        ELSE /\ chain' = Append(sends, Send(Min(left), kv.rows[Min(left)],
                                            TRUE))
             /\ ackTimer' = timer

RetriesSpent == retryCount >= MaxRetries

HandleAckTimeout ==
    /\ ackTimer
    /\ UNCHANGED <<writing, attached, inCrank, undo, owed, made, durable,
                   wired, ackedUpTo, faults>>
    /\ \/ /\ ~HasPending(window)
          /\ ackTimer' = FALSE
          /\ UNCHANGED <<window, lastTransmittedSeq, awaitingTransmit, chain,
                         retryCount, kv, handed, abandoned>>
       \/ /\ HasPending(window)
          /\ RetriesSpent
          /\ GiveUp(chain)
       \/ /\ HasPending(window)
          /\ ~RetriesSpent
          /\ retryCount' = retryCount + 1
          /\ RetransmitFrom(window.start, chain, FALSE)
          /\ UNCHANGED <<window, lastTransmittedSeq, awaitingTransmit, kv,
                         handed, abandoned>>

(* The transport finds the peer unreachable, and the manager gives up.     *)
TransportGivesUp ==
    /\ attached
    /\ faults < MaxFaults
    /\ faults' = faults + 1
    /\ GiveUp(chain)
    /\ UNCHANGED <<writing, attached, inCrank, undo, owed, made, durable,
                   wired, ackedUpTo>>

-----------------------------------------------------------------------------
(* The chain of sends.                                                     *)

(* The first send's turn comes.  One whose queue has been retired while it *)
(* waited is let go of, which its caller cannot tell from a success.       *)
StartSend ==
    /\ chain # <<>>
    /\ ~writing
    /\ IF Head(chain).retired
       THEN /\ IF Head(chain).loop
               THEN RetransmitFrom(Head(chain).seq + 1, Tail(chain), ackTimer)
               ELSE chain' = Tail(chain) /\ UNCHANGED ackTimer
            /\ UNCHANGED writing
       ELSE writing' = TRUE /\ UNCHANGED <<chain, ackTimer>>
    /\ UNCHANGED <<window, lastTransmittedSeq, awaitingTransmit, retryCount,
                   attached, inCrank, kv, undo, owed, historyVars, faults>>

(* The first send is over, written or not, and its caller goes on.         *)
SendIsOver ==
    /\ writing' = FALSE
    /\ IF Head(chain).loop
       THEN RetransmitFrom(Head(chain).seq + 1, Tail(chain), ackTimer)
       ELSE chain' = Tail(chain) /\ UNCHANGED ackTimer
    /\ UNCHANGED <<window, lastTransmittedSeq, awaitingTransmit, retryCount,
                   attached, inCrank, kv, undo, owed, made, durable, handed,
                   ackedUpTo, abandoned>>

WriteMessage ==
    /\ writing
    /\ wired' = wired \cup {<<Head(chain).seq, Head(chain).msg>>}
    /\ SendIsOver
    /\ UNCHANGED faults

(* The send fails in a way that may pass: a lost connection, a write that  *)
(* timed out, a resource limit.                                            *)
SendFails ==
    /\ writing
    /\ faults < MaxFaults
    /\ faults' = faults + 1
    /\ SendIsOver
    /\ UNCHANGED wired

(* The send fails for good: the network stopped, or the connection was     *)
(* closed on purpose.  A retransmission loop ends there, without a timer.  *)
SendFailsForGood ==
    /\ writing
    /\ faults < MaxFaults
    /\ faults' = faults + 1
    /\ writing' = FALSE
    /\ GiveUp(Tail(chain))
    /\ UNCHANGED <<attached, inCrank, undo, owed, made, durable, wired,
                   ackedUpTo>>

-----------------------------------------------------------------------------
(* Restart.                                                                *)

(* Mutant of AttachTransport: the messages that waited are not flushed.    *)
AttachTransportOnly ==
    /\ ~attached
    /\ attached' = TRUE
    /\ ackTimer' = HasPending(window)
    /\ UNCHANGED <<window, lastTransmittedSeq, awaitingTransmit, chain,
                   writing, retryCount, inCrank, kv, undo, owed, historyVars,
                   faults>>

AttachTransport ==
    /\ ~attached
    /\ attached' = TRUE
    /\ UNCHANGED <<writing, retryCount, inCrank, kv, undo, owed, made, durable,
                   wired, ackedUpTo, abandoned, faults>>
    /\ FlushTransmitQueue(awaitingTransmit, kv.rows, HasPending(window))

(* The kernel dies leaving `s` in the store, and a handle is made over it. *)
(* With no sequence state at all, a message numbered 1 is one the kernel   *)
(* died while writing down first; with some, the same holds of the number  *)
(* above the last.                                                         *)
RestartOver(s) ==
    /\ \E known \in BOOLEAN :
        /\ known \/ (s.start = 0 /\ s.next = 0)
        /\ LET next == IF s.next + 1 \in DOMAIN s.rows THEN s.next + 1
                                                       ELSE s.next
               start == IF known \/ next = 0 THEN s.start ELSE 1
           IN  /\ window' = [start |-> start, next |-> next]
               /\ lastTransmittedSeq' = IF start = 0 THEN 0 ELSE start - 1
               /\ kv' = [start |-> start, next |-> next,
                         rows |-> Without(s.rows, 0 .. start - 1)]
               /\ durable' = durable \cup Queued(kv')
               /\ abandoned' = abandoned \ {packet[2] : packet \in Queued(kv')}
    /\ faults < MaxFaults
    /\ faults' = faults + 1
    /\ awaitingTransmit' = NoRows
    /\ chain' = <<>>
    /\ writing' = FALSE
    /\ retryCount' = 0
    /\ ackTimer' = FALSE
    /\ attached' = FALSE
    /\ inCrank' = FALSE
    /\ undo' = EmptyStore
    /\ owed' = NoDelivery
    /\ handed' = {}
    /\ UNCHANGED wired

(* Dying with a crank open, even inside its commit, leaves all of its      *)
(* writes or none.                                                         *)
Restart ==
    /\ \E s \in {kv} \cup (IF inCrank THEN {undo} ELSE {}) :
          /\ inCrank /\ s = kv => owed # NoDelivery \/ kv # undo
          /\ RestartOver(s)
    /\ UNCHANGED <<made, ackedUpTo>>

(* Outside a crank each write is durable by itself, so dying can leave a   *)
(* request half written down: its row, then perhaps its start.             *)
RestartWhileEnqueueing ==
    /\ ~inCrank
    /\ made < MaxMade
    /\ ~AtCapacity(kv, window)
    /\ made' = made + 1
    /\ UNCHANGED ackedUpTo
    /\ LET whole == Persist(kv, window, made')
           acked == PersistAcknowledged(kv, window)
       IN  \E start \in {acked.start, whole.start} :
             RestartOver([start |-> start, next |-> acked.next,
                          rows |-> whole.rows])

(* And it can leave acknowledged rows the queue no longer reaches.         *)
RestartWhileAcknowledging(ack) ==
    /\ ~inCrank
    /\ HasPending(window)
    /\ window.start <= ack
    /\ LET acked == PersistAcknowledged(kv,
                       [window EXCEPT !.start = Min({ack, window.next}) + 1])
       IN  \E cut \in kv.start .. ack :
             RestartOver([acked EXCEPT !.rows =
                            Without(kv.rows, kv.start .. cut - 1)])
    /\ ackedUpTo' = Max({ackedUpTo, ack})
    /\ UNCHANGED made

-----------------------------------------------------------------------------

SenderStep ==
    \/ BeginCrank
    \/ \E exempt \in BOOLEAN : DeliverToPeer(exempt)
    \/ SendRemoteCommand
    \/ CommitCrank
    \/ RollbackCrank
    \/ HandleAckTimeout
    \/ TransportGivesUp
    \/ StartSend
    \/ SendFails
    \/ SendFailsForGood
    \/ AttachTransport
    \/ Restart

(* On its own the sender meets a peer that acknowledges, at any time and   *)
(* any number of times, any number that reached it.  It dies between two   *)
(* transactions, or in one: what else may become of it is in RemoteSession. *)
SenderNext ==
    \/ SenderStep
    \/ WriteMessage
    \/ \E packet \in wired : HandleAck(packet[1])

SenderSpec == SenderInit /\ [][SenderNext]_senderVars

-----------------------------------------------------------------------------

(* Numbers and messages go up to the `n` messages made.                    *)
WindowType(n) == [start : 0 .. n + 1, next : 0 .. n]
RowsType(n) == UNION {[seqs -> 1 .. n] : seqs \in SUBSET (1 .. n)}
StoreType(n) == [start : 0 .. n + 1, next : 0 .. n, rows : RowsType(n)]
WaitingType(n) == UNION {[seqs -> BOOLEAN] : seqs \in SUBSET (1 .. n)}
SendType(n) == [seq : 1 .. n, msg : 1 .. n, loop : BOOLEAN, retired : BOOLEAN]
OwedType(n) == [seq : 1 .. n, wasEmpty : BOOLEAN]
PacketType(n) == (1 .. n) \X (1 .. n)

(* The values the sender's state ranges over: nothing is numbered, stored, *)
(* sent or acknowledged beyond what has been made.                         *)
SenderTypeOK ==
    /\ made \in 0 .. MaxMade
    /\ window \in WindowType(made)
    /\ lastTransmittedSeq \in 0 .. made
    /\ awaitingTransmit \in WaitingType(made)
    /\ chain \in Seq(SendType(made))
    /\ writing \in BOOLEAN
    /\ writing => chain # <<>>
    /\ retryCount \in 0 .. MaxRetries
    /\ ackTimer \in BOOLEAN
    /\ attached \in BOOLEAN
    /\ inCrank \in BOOLEAN
    /\ kv \in StoreType(made)
    /\ undo \in StoreType(made)
    /\ owed = NoDelivery \/ owed \in OwedType(made)
    /\ durable \in SUBSET PacketType(made)
    /\ handed \in SUBSET PacketType(made)
    /\ wired \in SUBSET PacketType(made)
    /\ ackedUpTo \in 0 .. made
    /\ abandoned \in SUBSET (1 .. made)
    /\ faults \in 0 .. MaxFaults

(* A message the store has committed stays the handle's business until the *)
(* peer has acknowledged its number or it has been given up on: its row is *)
(* in the store, its number is in the queue, and it has either been handed *)
(* to the transport or is one the next flush will reach.                   *)
NothingForgotten ==
    \A packet \in durable :
        LET seq == packet[1]
            msg == packet[2]
        IN  \/ seq <= ackedUpTo
            \/ msg \in abandoned
            \/ /\ seq \in DOMAIN kv.rows
               /\ kv.rows[seq] = msg
               /\ seq >= window.start
               /\ \/ packet \in handed
                  \/ /\ seq > lastTransmittedSeq
                     /\ \/ seq <= window.next
                        \/ seq \in DOMAIN awaitingTransmit

(* The hand-over never leaves a message behind: whatever is in the queue   *)
(* below the watermark has been handed to the transport.                   *)
NothingSteppedOver ==
    \A seq \in DOMAIN kv.rows :
        seq \in window.start .. lastTransmittedSeq =>
            <<seq, kv.rows[seq]>> \in handed

(* A send that starts on the flush's behalf is never of a message given up *)
(* on while it waited.                                                     *)
FlushSendsNothingAbandoned ==
    [][ writing' /\ ~writing /\ ~Head(chain).loop
            => Head(chain).msg \notin abandoned ]_senderVars

(* What the handle is sure to go on doing: the run loop ends the crank it  *)
(* is in, timers fire, sends complete one way or the other, and a          *)
(* restarted kernel attaches its transport.                                *)
SenderFairness ==
    /\ WF_senderVars(CommitCrank)
    /\ WF_senderVars(AttachTransport)
    /\ WF_senderVars(HandleAckTimeout)
    /\ WF_senderVars(StartSend)
    /\ WF_senderVars(WriteMessage)

FairSenderSpec == SenderSpec /\ SenderFairness

IsDurable(msg) == \E packet \in durable : packet[2] = msg

IsSettled(msg) ==
    \/ msg \in abandoned
    \/ \E packet \in durable : packet[2] = msg /\ packet[1] <= ackedUpTo

(* No committed message waits for ever, even for a peer that never         *)
(* answers: it is acknowledged in the end, or given up on.                 *)
EverythingSettles ==
    \A msg \in 1 .. MaxMade : IsDurable(msg) ~> IsSettled(msg)

=============================================================================
