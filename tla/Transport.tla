------------------------------- MODULE Transport -------------------------------
(***************************************************************************)
(* The connections of one peer: channels it opens and channels dialed for  *)
(* a message or by a reconnection loop, the one that is registered, what   *)
(* happens when one is lost, and when the transport gives up.              *)
(*                                                                         *)
(* A user is whoever dials: the sender of a message or a run of the        *)
(* reconnection loop.  A step runs from one await to the next.             *)
(***************************************************************************)
EXTENDS Integers, FiniteSets, FiniteSetsExt

CONSTANTS
    Senders,       \* messages that may be on their way at a time
    Loops,         \* bound: runs of the reconnection loop at a time
    Channels,      \* bound: channels in existence at a time
    MaxAttempts,   \* maxRetryAttempts; not the 0 that retries for ever
    Threshold,     \* consecutive errors that make a failure permanent
    Restarts,      \* incarnations a handshake may report as a restart
    MaxTurns,      \* bound: events that set attempts back or start new runs
    NoChannel,
    NoRestart

ASSUME BoundsAreNaturals ==
    /\ {MaxAttempts, Threshold} \subseteq Nat \ {0}
    /\ MaxTurns \in Nat
    /\ Senders \cap Loops = {}

ASSUME NoChannelAssumption == NoChannel \notin Channels

Users == Senders \cup Loops

VARIABLES
    channel,       \* the registered channel
    readers,       \* channels being read
    dialed,        \* the one last registered, if it was dialed
    closedHere,    \* those of them whose stream the transport has closed
    closedAstray,  \* and those it took for channels not registered
    intentional,   \* whether the peer was closed on purpose
    reconnecting,
    attempts,      \* of the run in progress: a run starts with none
    sameErrors,    \* errors in a row that count towards permanent failure
    failed,        \* permanentlyFailed
    dialing,       \* whether a dial is in flight
    shaking,       \* channels in their outbound handshake
    inbound,       \* channels in their inbound handshake
    users,
    turns

vars == <<channel, readers, dialed, closedHere, closedAstray, intentional,
          reconnecting, attempts, sameErrors, failed, dialing, shaking,
          inbound, users, turns>>

reading == <<readers, dialed, closedHere, closedAstray>>
connection == <<channel, reading>>
reconnection == <<reconnecting, attempts, sameErrors, failed>>
handshakes == <<shaking, inbound>>

(* A user is stale once the state it holds of the peer has been removed.   *)
Idle == [pc |-> "idle", channel |-> NoChannel, result |-> "none",
         budget |-> MaxAttempts, restartedAs |-> NoRestart, stale |-> FALSE]

InUse == {channel} \cup readers \cup shaking \cup inbound
             \cup {users[u].channel : u \in Users}
Unused == Channels \ InUse

(* One channel not in use is as good as another.                           *)
NewChannel == CHOOSE c \in Unused : TRUE

ActiveLoops == {l \in Loops : users[l].pc # "idle"}

Turn == turns < MaxTurns /\ turns' = turns + 1

(***************************************************************************)
(* The reconnection loop.                                                  *)
(***************************************************************************)

(* The same restart again spends no attempt, until the budget has doubled. *)
BudgetAfter(user, incarnation) ==
    IF user.restartedAs = incarnation /\ user.budget < 2 * MaxAttempts
    THEN user.budget + 1 ELSE user.budget

(* Mutant: every restart resets the backoff.                               *)
ResetsBackoffAlways(user) == TRUE

(* The first restart in a run does.                                        *)
ResetsBackoff(user) == user.restartedAs = NoRestart

(* Mutant: the loop ends and leaves the peer marked as reconnecting.       *)
GiveUpStillMarked(l) ==
    /\ users' = [users EXCEPT ![l] = Idle]
    /\ attempts' = 0
    /\ UNCHANGED reconnecting

(* Stop reconnecting and tell the kernel.                                  *)
GiveUp(l) ==
    /\ users' = [users EXCEPT ![l] = Idle]
    /\ reconnecting' = FALSE /\ attempts' = 0

(* The top of the loop, after so many attempts.                            *)
GoRound(l, user, made) ==
    IF ~reconnecting
    THEN /\ users' = [users EXCEPT ![l] = Idle]
         /\ UNCHANGED <<reconnecting, attempts>>
    ELSE IF failed \/ made >= user.budget THEN GiveUp(l)
    ELSE /\ users' = [users EXCEPT ![l] = [user EXCEPT !.pc = "delay",
                          !.channel = NoChannel, !.result = "none"]]
         /\ attempts' = made + 1
         /\ UNCHANGED reconnecting

Connected(l) ==
    /\ users' = [users EXCEPT ![l] = Idle]
    /\ reconnecting' = FALSE
    /\ attempts' = 0 /\ sameErrors' = 0

(* A new run, its first attempt counted and its delay begun.               *)
StartLoop(others) ==
    LET free == {l \in Loops : others[l].pc = "idle"}
        l == CHOOSE k \in free : TRUE
    IN  /\ free # {}
        /\ users' = [others EXCEPT ![l] = [Idle EXCEPT !.pc = "delay"]]
        /\ reconnecting' = TRUE
        /\ attempts' = 1 /\ sameErrors' = 0

(* Mutant: a peer that failed permanently is reconnected to all the same.  *)
MayStartAlways == TRUE

MayStart == ~failed

(* handleConnectionLoss, its caller having left the users as others.       *)
HandleConnectionLoss(others) ==
    IF intentional
    THEN users' = others /\ UNCHANGED <<channel, reconnection>>
    ELSE /\ channel' = NoChannel
         /\ UNCHANGED failed
         /\ IF ~reconnecting /\ MayStart THEN StartLoop(others)
            ELSE /\ users' = others
                 /\ UNCHANGED <<reconnecting, attempts, sameErrors>>

(* An attempt fails with a network error.                                  *)
AttemptFails(l, result) ==
    /\ sameErrors' = IF result = "unreachable"
                     THEN Min({sameErrors + 1, Threshold})
                     ELSE IF result = "transient" THEN 0 ELSE sameErrors
    /\ failed' = (failed \/ sameErrors' = Threshold)
    /\ IF result = "fatal" \/ failed'
       THEN GiveUp(l)
       ELSE GoRound(l, users[l], attempts)

(* The delay ends: the limit on connection attempts gives the attempt back *)
(* or the peer is dialed.                                                  *)
EndDelay(l) ==
    /\ users[l].pc = "delay"
    /\ \/ /\ Turn
          /\ GoRound(l, users[l], Max({attempts - 1, 0}))
          /\ UNCHANGED dialing
       \/ /\ users' = [users EXCEPT ![l].pc = "dial"]
          /\ dialing' = TRUE
          /\ UNCHANGED <<reconnecting, attempts, turns>>
    /\ UNCHANGED <<connection, intentional, sameErrors, failed, handshakes>>

(***************************************************************************)
(* From the dial to the registered channel.                                *)
(***************************************************************************)

(* registerChannel: the channel replaced is closed.                        *)
Register(c) ==
    /\ channel' = c
    /\ readers' = readers \cup {c}
    /\ closedHere' = closedHere \cup ({channel} \ {c, NoChannel})
    /\ dialed' = {}
    /\ UNCHANGED closedAstray

Errors == {"unreachable", "transient", "fatal"}

WaitFor(pc) == {u \in Users : users[u].pc = pc}

(* Everyone who waits for the dial gets its outcome: an error, or a channel *)
(* that is closed if one is registered by now or there are too many, and   *)
(* else has its one handshake.                                             *)
DialEnds ==
    /\ dialing
    /\ dialing' = FALSE
    /\ \/ \E e \in Errors :
             /\ users' = [u \in Users |->
                    IF u \in WaitFor("dial")
                    THEN [users[u] EXCEPT !.pc = "failing", !.result = e]
                    ELSE users[u]]
             /\ UNCHANGED shaking
       \/ /\ Unused # {}
          /\ \E pc \in IF channel # NoChannel THEN {"reuse"}
                       ELSE {"handshake", "closing"} :
                /\ users' = [u \in Users |->
                       IF u \in WaitFor("dial")
                       THEN [users[u] EXCEPT !.pc = pc, !.channel = NewChannel,
                                !.result = IF pc = "closing" THEN "failed"
                                           ELSE "none"]
                       ELSE users[u]]
                /\ shaking' = IF pc = "handshake" THEN shaking \cup {NewChannel}
                              ELSE shaking
    /\ UNCHANGED <<connection, intentional, reconnection, inbound, turns>>

DialFails(u) ==
    /\ users[u].pc = "failing"
    /\ IF u \in Loops
       THEN AttemptFails(u, users[u].result) /\ UNCHANGED channel
       ELSE HandleConnectionLoss([users EXCEPT ![u] = Idle])
    /\ UNCHANGED <<reading, intentional, dialing, handshakes, turns>>

(* A loop that finds the peer connected is done; a sender writes.          *)
UseRegistered(u) ==
    IF u \in Loops THEN Connected(u) /\ UNCHANGED failed
    ELSE /\ users' = [users EXCEPT ![u].pc = "write", ![u].channel = channel]
         /\ UNCHANGED reconnection

CloseAstray(c) ==
    /\ closedAstray' = closedAstray \cup (({c} \cap readers) \ closedHere)
    /\ UNCHANGED <<readers, dialed, closedHere>>

(* Whose state has been removed takes the registered channel for a new one: *)
(* there may be too many, a dialed one has had its handshake, and one that   *)
(* the peer opened gets another.                                           *)
TakeForNew(u) ==
    \/ /\ users' = [users EXCEPT ![u].pc = "closing", ![u].channel = channel,
                                 ![u].result = "failed"]
       /\ CloseAstray(channel)
       /\ UNCHANGED reconnection
    \/ channel \in dialed /\ UseRegistered(u) /\ UNCHANGED reading
    \/ /\ channel \notin dialed
       /\ users' = [users EXCEPT ![u].pc = "stray", ![u].channel = channel]
       /\ UNCHANGED <<reconnection, reading>>

(* The dialed channel has been closed: the one registered now is used, if   *)
(* the state asked before the close has one.                               *)
ReuseChannel(u) ==
    /\ users[u].pc = "reuse"
    /\ IF channel = NoChannel \/ users[u].result = "gone"
       THEN /\ IF u \in Loops
               THEN /\ GoRound(u, users[u], attempts)
                    /\ UNCHANGED <<channel, sameErrors, failed>>
               ELSE HandleConnectionLoss([users EXCEPT ![u] = Idle])
            /\ UNCHANGED reading
       ELSE /\ IF users[u].stale THEN TakeForNew(u)
               ELSE UseRegistered(u) /\ UNCHANGED reading
            /\ UNCHANGED channel
    /\ UNCHANGED <<intentional, dialing, handshakes, turns>>

(* The peer, who opened the channel, acknowledges no handshake on it.      *)
StrayHandshakeEnds(c) ==
    /\ \E u \in WaitFor("stray") : users[u].channel = c
    /\ users' = [u \in Users |->
           IF u \in WaitFor("stray") /\ users[u].channel = c
           THEN [users[u] EXCEPT !.pc = "closing", !.result = "failed"]
           ELSE users[u]]
    /\ CloseAstray(c)
    /\ UNCHANGED <<channel, intentional, reconnection, dialing, handshakes,
                   turns>>

(* The handshake of channel c is over, with a result for each user.  A good *)
(* channel is registered, once; another is closed.                         *)
Shaken(c, result) ==
    LET waiting == {u \in WaitFor("handshake") : users[u].channel = c}
        good == {u \in waiting : result[u] = "ok"}
    IN  /\ users' = [u \in Users |->
               IF u \notin waiting THEN users[u]
               ELSE IF u \notin good
               THEN [users[u] EXCEPT !.pc = "closing", !.result = result[u]]
               ELSE IF u \in Loops THEN Idle
               ELSE [users[u] EXCEPT !.pc = "write"]]
        /\ IF good = {} THEN UNCHANGED connection
           ELSE /\ channel' = c
                /\ readers' = readers \cup {c}
                /\ dialed' = {c}
                /\ UNCHANGED closedAstray
                /\ closedHere' = closedHere \cup ({channel} \ {NoChannel})
                                     \cup (IF good = waiting THEN {} ELSE {c})
        /\ IF good \cap Loops = {} THEN UNCHANGED reconnection
           ELSE /\ reconnecting' = FALSE
                /\ attempts' = 0 /\ sameErrors' = 0
                /\ UNCHANGED failed

Results == {"ok", "failed"} \cup Restarts

(* Mutant: a handshake of each caller's own.  The peer acknowledges one.   *)
HandshakeEndsPerCaller(c) ==
    /\ c \in shaking
    /\ shaking' = shaking \ {c}
    /\ \E r \in [Users -> Results] : Shaken(c, r)
    /\ UNCHANGED <<intentional, dialing, inbound, turns>>

(* Everyone who waits for the channel's handshake gets its outcome.        *)
HandshakeEnds(c) ==
    /\ c \in shaking
    /\ shaking' = shaking \ {c}
    /\ \E r \in Results : Shaken(c, [u \in Users |-> r])
    /\ UNCHANGED <<intentional, dialing, inbound, turns>>

(* The channel has been closed: a loop goes round, a send fails, with a    *)
(* loss unless the peer restarted.                                         *)
CloseEnds(u) ==
    /\ users[u].pc = "closing"
    /\ LET r == users[u].result
       IN  IF u \in Loops
           THEN /\ IF r \in Restarts
                   THEN LET again == ResetsBackoff(users[u])
                        IN  /\ GoRound(u, [users[u] EXCEPT
                                   !.budget = BudgetAfter(users[u], r),
                                   !.restartedAs = r],
                                   IF again THEN 0 ELSE attempts)
                            /\ sameErrors' = IF again THEN 0 ELSE sameErrors
                   ELSE GoRound(u, users[u], attempts) /\ UNCHANGED sameErrors
                /\ UNCHANGED <<channel, failed>>
           ELSE IF r \in Restarts
           THEN /\ users' = [users EXCEPT ![u] = Idle]
                /\ UNCHANGED <<channel, reconnection>>
           ELSE HandleConnectionLoss([users EXCEPT ![u] = Idle])
    /\ UNCHANGED <<reading, intentional, dialing, handshakes, turns>>

(***************************************************************************)
(* Sending.                                                                *)
(***************************************************************************)

(* sendRemoteMessage, up to its write or its dial.  The limits on          *)
(* connections and on attempts may refuse the dial.                        *)
SendMessage(s) ==
    /\ users[s].pc = "idle" /\ ~intentional
    /\ IF channel # NoChannel
       THEN /\ users' = [users EXCEPT ![s] = [Idle EXCEPT !.pc = "write",
                                                  !.channel = channel]]
            /\ UNCHANGED <<failed, sameErrors, dialing>>
       ELSE /\ failed' = FALSE
            /\ sameErrors' = IF failed THEN 0 ELSE sameErrors
            /\ \/ /\ users' = [users EXCEPT ![s].pc = "dial"]
                  /\ dialing' = TRUE
               \/ UNCHANGED <<users, dialing>>
    /\ UNCHANGED <<connection, intentional, reconnecting, attempts, handshakes,
                   turns>>

(* Traffic resets the backoff.                                             *)
ResetBackoff ==
    /\ attempts' = 0 /\ sameErrors' = 0
    /\ IF reconnecting THEN Turn ELSE UNCHANGED turns
    /\ UNCHANGED <<reconnecting, failed>>

Write(s) ==
    /\ users[s].pc = "write"
    /\ \/ /\ users[s].channel \in readers \ (closedHere \cup closedAstray)
          /\ users' = [users EXCEPT ![s] = Idle]
          /\ ResetBackoff
          /\ UNCHANGED channel
       \/ HandleConnectionLoss([users EXCEPT ![s] = Idle]) /\ UNCHANGED turns
    /\ UNCHANGED <<reading, intentional, dialing, handshakes>>

(***************************************************************************)
(* Reading.                                                                *)
(***************************************************************************)

Receive ==
    /\ readers # {}
    /\ ResetBackoff
    /\ UNCHANGED <<connection, intentional, dialing, handshakes, users>>

(* readChannel ends; it unregisters its channel.                           *)
Unregister(c) ==
    /\ readers' = readers \ {c}
    /\ dialed' = dialed \ {c}
    /\ closedHere' = closedHere \ {c}
    /\ closedAstray' = closedAstray \ {c}

Unregistered(c) == IF channel = c THEN NoChannel ELSE channel

ReadFails(c) ==
    /\ c \in readers
    /\ Unregister(c)
    /\ IF intentional
       THEN channel' = Unregistered(c) /\ UNCHANGED <<users, reconnection>>
       ELSE HandleConnectionLoss(users)
    /\ UNCHANGED <<intentional, dialing, handshakes, turns>>

(* The stream is aborted here, which counts as a close on purpose.         *)
ReadAborted(c) ==
    /\ c \in readers
    /\ Unregister(c)
    /\ channel' = Unregistered(c)
    /\ intentional' = TRUE
    /\ UNCHANGED <<reconnection, dialing, handshakes, users, turns>>

(* The stream ends cleanly.                                                *)
ReadEnds(c) ==
    /\ c \in readers
    /\ Unregister(c)
    /\ channel' = Unregistered(c)
    /\ UNCHANGED <<intentional, reconnection, dialing, handshakes, users, turns>>

PeerDisconnects ==
    /\ channel = NoChannel /\ Turn
    /\ HandleConnectionLoss(users)
    /\ UNCHANGED <<reading, intentional, dialing, handshakes>>

(***************************************************************************)
(* Channels the peer opens.                                                *)
(***************************************************************************)

InboundConnection ==
    /\ ~intentional
    /\ Unused # {} /\ inbound' = inbound \cup {NewChannel}
    /\ UNCHANGED <<connection, intentional, reconnection, dialing, shaking,
                   users, turns>>

InboundHandshakeEnds ==
    /\ \E c \in inbound :
          /\ inbound' = inbound \ {c}
          /\ Register(c) \/ UNCHANGED connection
    /\ UNCHANGED <<intentional, reconnection, dialing, shaking, users, turns>>

(***************************************************************************)
(* Control.                                                                *)
(***************************************************************************)

CloseConnection ==
    /\ Turn
    /\ intentional' = TRUE
    /\ channel' = NoChannel
    /\ reconnecting' = FALSE /\ attempts' = 0
    /\ UNCHANGED <<reading, sameErrors, failed, dialing,
                   handshakes, users>>

ReconnectPeer ==
    /\ Turn
    /\ intentional' = FALSE
    /\ IF reconnecting THEN UNCHANGED <<channel, reconnection, users>>
       ELSE channel' = NoChannel /\ failed' = FALSE /\ StartLoop(users)
    /\ UNCHANGED <<reading, dialing, handshakes>>

(* resetAllBackoffs, on a wake from sleep.                                 *)
WakeFromSleep ==
    /\ Turn
    /\ failed' = FALSE
    /\ sameErrors' = 0
    /\ attempts' = IF reconnecting THEN 0 ELSE attempts
    /\ UNCHANGED <<connection, intentional, reconnecting, dialing, handshakes,
                   users>>

(* Who may yet ask the state it holds for a channel.                       *)
AsksState(u) == IF u \in Loops THEN users[u].pc # "idle"
                ELSE users[u].pc \in {"dial", "reuse"}

(* cleanupStalePeers, an hour after the last traffic.  Whoever dials keeps  *)
(* the state removed, and whoever asked it for a channel finds none there.  *)
(* It counts for two of the turns.                                         *)
CleanupStalePeers ==
    /\ channel = NoChannel
    /\ turns + 2 <= MaxTurns /\ turns' = turns + 2
    /\ intentional' = FALSE
    /\ reconnecting' = FALSE /\ attempts' = 0
    /\ users' = [u \in Users |->
           LET user == users[u]
           IN  IF AsksState(u) THEN
                   [user EXCEPT !.stale = TRUE,
                        !.result = IF user.pc = "reuse" THEN "gone" ELSE @]
               ELSE user]
    /\ UNCHANGED <<connection, sameErrors, failed, dialing, handshakes>>

Init ==
    /\ channel = NoChannel
    /\ readers = {} /\ dialed = {}
    /\ closedHere = {} /\ closedAstray = {}
    /\ intentional = FALSE
    /\ reconnecting = FALSE
    /\ attempts = 0 /\ sameErrors = 0
    /\ failed = FALSE
    /\ dialing = FALSE
    /\ shaking = {} /\ inbound = {}
    /\ users = [u \in Users |-> Idle]
    /\ turns = 0

Next ==
    \/ \E l \in Loops : EndDelay(l)
    \/ DialEnds
    \/ \E u \in Users : DialFails(u) \/ ReuseChannel(u) \/ CloseEnds(u)
    \/ \E c \in Channels : HandshakeEnds(c) \/ StrayHandshakeEnds(c)
                               \/ ReadFails(c) \/ ReadAborted(c) \/ ReadEnds(c)
    \/ \E s \in Senders : SendMessage(s) \/ Write(s)
    \/ Receive \/ PeerDisconnects
    \/ InboundConnection \/ InboundHandshakeEnds
    \/ CloseConnection \/ ReconnectPeer \/ WakeFromSleep \/ CleanupStalePeers

Spec == Init /\ [][Next]_vars

(* Delays, dials, handshakes and closes end: each has a timeout.           *)
Fairness ==
    /\ WF_vars(DialEnds)
    /\ \A c \in Channels : WF_vars(HandshakeEnds(c) \/ StrayHandshakeEnds(c))
    /\ \A l \in Loops : WF_vars(EndDelay(l) \/ DialFails(l) \/ ReuseChannel(l)
                                    \/ CloseEnds(l))

FairSpec == Spec /\ Fairness

(***************************************************************************)
(* Properties.                                                             *)
(***************************************************************************)

Steps == {"idle", "delay", "dial", "failing", "reuse", "stray", "handshake",
          "closing", "write"}

UserType == [pc : Steps, channel : Channels \cup {NoChannel},
             result : {"none", "gone"} \cup Errors \cup Results,
             budget : MaxAttempts .. 2 * MaxAttempts,
             restartedAs : Restarts \cup {NoRestart}, stale : BOOLEAN]

(* Every variable keeps its type, and neither the budget of a run nor its   *)
(* attempts ever more than double.                                         *)
TypeOK ==
    /\ channel \in Channels \cup {NoChannel}
    /\ readers \subseteq Channels /\ dialed \subseteq Channels
    /\ closedHere \subseteq Channels /\ closedAstray \subseteq Channels
    /\ intentional \in BOOLEAN /\ reconnecting \in BOOLEAN
    /\ failed \in BOOLEAN /\ dialing \in BOOLEAN
    /\ attempts \in 0 .. 2 * MaxAttempts
    /\ sameErrors \in 0 .. Threshold
    /\ shaking \subseteq Channels /\ inbound \subseteq Channels
    /\ users \in [Users -> UserType]
    /\ turns \in 0 .. MaxTurns

(* A lost connection is being pursued: the peer is marked as reconnecting,  *)
(* which keeps every later loss from starting a loop, only while a loop is  *)
(* at work, whichever of several ends first.                                *)
LossIsPursued == reconnecting => ActiveLoops # {}

(* The registered channel is read, and nobody who shared its dial, found it *)
(* registered or replaced it has closed it.  Only a dial that held on to a  *)
(* state of the peer since removed may have (closedAstray).                 *)
RegisteredIsLive ==
    channel # NoChannel => channel \in readers \ closedHere

(* No loop pursues a peer that failed for good, though a loop that was      *)
(* closed and forgotten may be the one to find that out.                    *)
FailedIsLeftAlone == failed => ~reconnecting

(* Reconnecting ends: the connection is made again or the kernel is told,   *)
(* unless someone closes the peer or nobody has heard of it for an hour;    *)
(* even if it reports one restart after another.                            *)
ReconnectingEnds == []<>~reconnecting
=============================================================================
