---------------------------- MODULE TransportProofs ----------------------------
(* Proofs about Transport, for any senders, loops and channels and for any *)
(* limits on attempts and errors.                                          *)
EXTENDS Transport, TLAPS

(* What is being read is a tuple, expanded throughout.                     *)
USE DEF reading

(* A channel is read, in its outbound handshake or in its inbound one.     *)
Apart ==
    /\ readers \cap shaking = {}
    /\ readers \cap inbound = {}
    /\ shaking \cap inbound = {}

LimitsType == /\ MaxAttempts \in Nat \ {0}
              /\ Threshold \in Nat \ {0}
              /\ MaxTurns \in Nat

LEMMA Limits == LimitsType
BY BoundsAreNaturals DEF LimitsType

(* What counters are set back to.                                          *)
LEMMA ZeroIsCount ==
    /\ 0 \in 0 .. 2 * MaxAttempts
    /\ 0 \in 0 .. Threshold
    /\ 0 \in 0 .. MaxTurns
BY Limits DEF LimitsType

LEMMA TurnIsCount == ASSUME TypeOK, Turn PROVE turns' \in 0 .. MaxTurns
BY Limits DEF LimitsType, Turn, TypeOK

LEMMA IdleIsUser == Idle \in UserType
BY Limits DEF LimitsType, Idle, UserType, Steps

(* What the limits of FiniteSetsExt are of one number or two.              *)
LEMMA MaxOfTwo ==
    ASSUME NEW a \in Int, NEW b \in Int
    PROVE  Max({a, b}) = IF a >= b THEN a ELSE b
BY DEF Max

LEMMA MinOfTwo ==
    ASSUME NEW a \in Int, NEW b \in Int
    PROVE  Min({a, b}) = IF a <= b THEN a ELSE b
BY DEF Min

(* A user that moves on is a user still.                                   *)
LEMMA UserMoves ==
    ASSUME NEW user \in UserType, NEW pc \in Steps,
           NEW result \in {"none", "gone"} \cup Errors \cup Results,
           NEW c \in Channels \cup {NoChannel}
    PROVE  /\ [user EXCEPT !.pc = pc] \in UserType
           /\ [user EXCEPT !.pc = pc, !.channel = c] \in UserType
           /\ [user EXCEPT !.pc = pc, !.result = result] \in UserType
           /\ [user EXCEPT !.pc = pc, !.channel = c, !.result = result]
                 \in UserType
BY DEF UserType

-----------------------------------------------------------------------------
(* The reconnection loop.                                                  *)

(* A loop that gives up has ended and leaves the peer alone.               *)
LEMMA GivenUp ==
    ASSUME TypeOK, NEW l \in Loops, GiveUp(l)
    PROVE  /\ users' \in [Users -> UserType]
           /\ reconnecting' = FALSE
           /\ attempts' \in 0 .. 2 * MaxAttempts
<1>1. users' \in [Users -> UserType]
  BY IdleIsUser DEF GiveUp, TypeOK
<1>2. reconnecting' = FALSE /\ attempts' = 0
  BY DEF GiveUp
<1> QED
  BY <1>1, <1>2, Limits DEF LimitsType

(* A loop that goes round begins another attempt within its budget, while  *)
(* the peer is marked as reconnecting and has not failed, or ends.         *)
LEMMA RoundOrEnd ==
    ASSUME TypeOK, NEW l \in Loops, NEW user \in UserType, NEW tries \in Nat,
           GoRound(l, user, tries)
    PROVE  /\ users' \in [Users -> UserType]
           /\ reconnecting' \in BOOLEAN
           /\ attempts' \in 0 .. 2 * MaxAttempts
           /\ reconnecting' => /\ reconnecting /\ ~failed
                              /\ users'[l].pc = "delay"
<1> USE Limits DEF LimitsType, TypeOK, Users
<1>1. CASE ~reconnecting
  BY <1>1, IdleIsUser DEF GoRound
<1>2. CASE reconnecting /\ (failed \/ tries >= user.budget)
  <2>1. GiveUp(l)
    BY <1>2 DEF GoRound
  <2> QED
    BY <2>1, GivenUp
<1>3. CASE reconnecting /\ ~failed /\ ~(tries >= user.budget)
  <2>1. [user EXCEPT !.pc = "delay", !.channel = NoChannel, !.result = "none"]
          \in UserType
    BY DEF UserType, Steps
  <2>2. tries + 1 \in 0 .. 2 * MaxAttempts
    BY <1>3 DEF UserType
  <2>3. /\ users' = [users EXCEPT ![l] = [user EXCEPT !.pc = "delay",
                         !.channel = NoChannel, !.result = "none"]]
        /\ attempts' = tries + 1
        /\ reconnecting' = reconnecting
    BY <1>3 DEF GoRound
  <2>4. users' \in [Users -> UserType] /\ users'[l].pc = "delay"
    BY <2>1, <2>3 DEF UserType
  <2> QED
    BY <1>3, <2>2, <2>3, <2>4
<1> QED
  BY <1>1, <1>2, <1>3

(* A run that starts is a loop at work, with one attempt spent.            *)
LEMMA StartedLoop ==
    ASSUME NEW others \in [Users -> UserType], StartLoop(others)
    PROVE  /\ users' \in [Users -> UserType]
           /\ reconnecting' = TRUE
           /\ attempts' \in 0 .. 2 * MaxAttempts
           /\ sameErrors' \in 0 .. Threshold
           /\ \E l \in Loops : users'[l].pc = "delay"
<1> DEFINE free == {l \in Loops : others[l].pc = "idle"}
           l == CHOOSE k \in free : TRUE
<1>1. l \in Loops /\ l \in Users
  BY DEF StartLoop, Users
<1>2. users' = [others EXCEPT ![l] = [Idle EXCEPT !.pc = "delay"]]
  BY DEF StartLoop
<1>3. [Idle EXCEPT !.pc = "delay"] \in UserType
  BY IdleIsUser DEF UserType, Steps
<1>4. users' \in [Users -> UserType] /\ users'[l].pc = "delay"
  BY <1>1, <1>2, <1>3, IdleIsUser DEF UserType
<1>5. /\ reconnecting' = TRUE
      /\ attempts' \in 0 .. 2 * MaxAttempts
      /\ sameErrors' \in 0 .. Threshold
  BY Limits DEF LimitsType, StartLoop
<1> QED
  BY <1>1, <1>4, <1>5

(* A loss starts a loop unless one is under way or the peer has failed.    *)
LEMMA LossIsHandled ==
    ASSUME TypeOK, NEW others \in [Users -> UserType],
           HandleConnectionLoss(others)
    PROVE  /\ users' \in [Users -> UserType]
           /\ channel' \in {channel, NoChannel}
           /\ reconnecting' \in BOOLEAN
           /\ failed' = failed
           /\ attempts' \in 0 .. 2 * MaxAttempts
           /\ sameErrors' \in 0 .. Threshold
           /\ \/ reconnecting' = reconnecting /\ users' = others
              \/ ~failed /\ \E l \in Loops : users'[l].pc = "delay"
<1> USE Limits DEF LimitsType, TypeOK, Users
<1>1. CASE intentional
  BY <1>1 DEF HandleConnectionLoss, reconnection
<1>2. CASE ~intentional /\ ~reconnecting /\ MayStart
  <2>1. StartLoop(others)
    BY <1>2 DEF HandleConnectionLoss
  <2> QED
    BY <1>2, <2>1, StartedLoop DEF HandleConnectionLoss, MayStart
<1>3. CASE ~intentional /\ (reconnecting \/ ~MayStart)
  BY <1>3 DEF HandleConnectionLoss
<1> QED
  BY <1>1, <1>2, <1>3

-----------------------------------------------------------------------------
(* Typing, one group of actions at a time.                                 *)

(* A channel not in use is one of the channels, and nobody's.              *)
LEMMA NewChannelIsUnused ==
    ASSUME Unused # {}
    PROVE  NewChannel \in Channels /\ NewChannel \notin InUse
BY DEF Unused, NewChannel

LEMMA AttemptGivenBack == ASSUME TypeOK PROVE Max({attempts - 1, 0}) \in Nat
<1>1. attempts - 1 \in Int /\ 0 \in Int
  BY Limits DEF LimitsType, TypeOK
<1>2. Max({attempts - 1, 0}) = IF attempts - 1 >= 0 THEN attempts - 1 ELSE 0
  BY <1>1, MaxOfTwo
<1> QED
  BY <1>1, <1>2

LEMMA DelayTypes ==
    ASSUME TypeOK, NEW l \in Loops, EndDelay(l)
    PROVE  TypeOK'
<1> USE Limits DEF LimitsType, Users
<1> USE DEF EndDelay, connection, handshakes
<1>1. users[l] \in UserType
  BY DEF TypeOK
<1>2. CASE Turn /\ GoRound(l, users[l], Max({attempts - 1, 0}))
           /\ UNCHANGED dialing
  <2>1. Max({attempts - 1, 0}) \in Nat
    BY AttemptGivenBack
  <2>2. /\ users' \in [Users -> UserType]
        /\ reconnecting' \in BOOLEAN
        /\ attempts' \in 0 .. 2 * MaxAttempts
    BY <1>1, <1>2, <2>1, RoundOrEnd
  <2>3. turns' \in 0 .. MaxTurns
    BY <1>2 DEF Turn, TypeOK
  <2> QED
    BY <1>2, <2>2, <2>3 DEF TypeOK
<1>3. CASE /\ users' = [users EXCEPT ![l].pc = "dial"]
           /\ dialing' = TRUE
           /\ UNCHANGED <<reconnecting, attempts, turns>>
  <2>1. users' \in [Users -> UserType]
    BY <1>1, <1>3 DEF TypeOK, UserType, Steps
  <2> QED
    BY <1>3, <2>1 DEF TypeOK
<1> QED
  BY <1>2, <1>3

LEMMA DialEndsTypes == ASSUME TypeOK, DialEnds PROVE TypeOK'
<1> USE DEF DialEnds, connection, reconnection
<1>1. ASSUME NEW e \in Errors,
             users' = [u \in Users |->
                 IF u \in WaitFor("dial")
                 THEN [users[u] EXCEPT !.pc = "failing", !.result = e]
                 ELSE users[u]],
             UNCHANGED shaking
      PROVE  TypeOK'
  <2>1. ASSUME NEW u \in Users
        PROVE  [users[u] EXCEPT !.pc = "failing", !.result = e] \in UserType
    BY UserMoves DEF TypeOK, Steps
  <2>2. users' \in [Users -> UserType]
    BY <1>1, <2>1 DEF TypeOK
  <2> QED
    BY <1>1, <2>2 DEF TypeOK
<1>2. ASSUME Unused # {}, NEW pc \in {"reuse", "handshake", "closing"},
             users' = [u \in Users |->
                 IF u \in WaitFor("dial")
                 THEN [users[u] EXCEPT !.pc = pc, !.channel = NewChannel,
                          !.result = IF pc = "closing" THEN "failed"
                                     ELSE "none"]
                 ELSE users[u]],
             shaking' = IF pc = "handshake" THEN shaking \cup {NewChannel}
                        ELSE shaking
      PROVE  TypeOK'
  <2>1. ASSUME NEW u \in Users
        PROVE  [users[u] EXCEPT !.pc = pc, !.channel = NewChannel,
                    !.result = IF pc = "closing" THEN "failed" ELSE "none"]
                 \in UserType
    <3>1. (IF pc = "closing" THEN "failed" ELSE "none")
             \in {"none", "gone"} \cup Errors \cup Results
      BY DEF Results
    <3> QED
      BY <1>2, <3>1, UserMoves, NewChannelIsUnused DEF TypeOK, Steps
  <2>2. users' \in [Users -> UserType]
    BY <1>2, <2>1 DEF TypeOK
  <2>3. shaking' \subseteq Channels
    BY <1>2, NewChannelIsUnused DEF TypeOK
  <2> QED
    BY <2>2, <2>3 DEF TypeOK
<1> QED
  BY <1>1, <1>2

(* A failed attempt ends the loop or goes round, and counts the error.     *)
LEMMA AttemptTypes ==
    ASSUME TypeOK, NEW l \in Loops, NEW result, AttemptFails(l, result)
    PROVE  /\ users' \in [Users -> UserType]
           /\ reconnecting' \in BOOLEAN /\ failed' \in BOOLEAN
           /\ attempts' \in 0 .. 2 * MaxAttempts
           /\ sameErrors' \in 0 .. Threshold
<1> USE Limits DEF LimitsType, Users
<1>1. sameErrors' \in 0 .. Threshold
  BY MinOfTwo DEF AttemptFails, TypeOK
<1>2. failed' \in BOOLEAN
  BY DEF AttemptFails, TypeOK
<1>3. CASE GiveUp(l)
  BY <1>1, <1>2, <1>3, GivenUp
<1>4. CASE GoRound(l, users[l], attempts)
  <2>1. users[l] \in UserType /\ attempts \in Nat
    BY DEF TypeOK
  <2> QED
    BY <1>1, <1>2, <1>4, <2>1, RoundOrEnd
<1> QED
  BY <1>3, <1>4 DEF AttemptFails

(* A user other than a loop that has come to its end.                      *)
LEMMA IdledIsUsers ==
    ASSUME TypeOK, NEW u \in Users
    PROVE  [users EXCEPT ![u] = Idle] \in [Users -> UserType]
BY IdleIsUser DEF TypeOK

LEMMA DialFailsTypes ==
    ASSUME TypeOK, NEW u \in Users, DialFails(u)
    PROVE  TypeOK'
<1> USE DEF DialFails, handshakes
<1>1. CASE u \in Loops
  BY <1>1, AttemptTypes DEF TypeOK
<1>2. CASE u \notin Loops
  BY <1>2, IdledIsUsers, LossIsHandled DEF TypeOK
<1> QED
  BY <1>1, <1>2

(* What is read is of its type when a channel is closed astray.            *)
LEMMA AstrayTypes ==
    ASSUME TypeOK, NEW c, CloseAstray(c) \/ UNCHANGED reading
    PROVE  /\ readers' \subseteq Channels /\ dialed' \subseteq Channels
           /\ closedHere' \subseteq Channels
           /\ closedAstray' \subseteq Channels
BY DEF CloseAstray, TypeOK

(* Whoever uses the registered channel is a user still.                    *)
LEMMA UsedRegistered ==
    ASSUME TypeOK, NEW u \in Users, UseRegistered(u)
    PROVE  /\ users' \in [Users -> UserType]
           /\ reconnecting' \in BOOLEAN /\ failed' = failed
           /\ attempts' \in 0 .. 2 * MaxAttempts
           /\ sameErrors' \in 0 .. Threshold
<1>1. users[u] \in UserType /\ channel \in Channels \cup {NoChannel}
  BY DEF TypeOK
<1>2. CASE u \in Loops
  <2>1. Connected(u) /\ UNCHANGED failed
    BY <1>2 DEF UseRegistered
  <2>2. users' \in [Users -> UserType]
    BY <2>1, IdledIsUsers DEF Connected
  <2> QED
    BY <2>1, <2>2, ZeroIsCount DEF Connected
<1>3. CASE u \notin Loops
  <2>1. users' \in [Users -> UserType]
    BY <1>1, <1>3 DEF UseRegistered, TypeOK, UserType, Steps
  <2> QED
    BY <1>3, <2>1 DEF UseRegistered, TypeOK, reconnection
<1> QED
  BY <1>2, <1>3

(* So is one who takes it for a new channel.                               *)
LEMMA TakenForNew ==
    ASSUME TypeOK, NEW u \in Users, TakeForNew(u)
    PROVE  /\ users' \in [Users -> UserType]
           /\ reconnecting' \in BOOLEAN /\ failed' = failed
           /\ attempts' \in 0 .. 2 * MaxAttempts
           /\ sameErrors' \in 0 .. Threshold
           /\ CloseAstray(channel) \/ UNCHANGED reading
<1>1. users[u] \in UserType /\ channel \in Channels \cup {NoChannel}
  BY DEF TypeOK
<1>2. CASE /\ users' = [users EXCEPT ![u].pc = "closing",
                            ![u].channel = channel, ![u].result = "failed"]
           /\ CloseAstray(channel)
           /\ UNCHANGED reconnection
  <2>1. users' \in [Users -> UserType]
    BY <1>1, <1>2 DEF TypeOK, UserType, Steps, Results
  <2> QED
    BY <1>2, <2>1 DEF TypeOK, reconnection
<1>3. CASE UseRegistered(u) /\ UNCHANGED reading
  BY <1>3, UsedRegistered
<1>4. CASE /\ users' = [users EXCEPT ![u].pc = "stray",
                                     ![u].channel = channel]
           /\ UNCHANGED <<reconnection, reading>>
  <2>1. users' \in [Users -> UserType]
    BY <1>1, <1>4 DEF TypeOK, UserType, Steps
  <2> QED
    BY <1>4, <2>1 DEF TypeOK, reconnection
<1> QED
  BY <1>2, <1>3, <1>4 DEF TakeForNew

LEMMA ReuseTypes ==
    ASSUME TypeOK, NEW u \in Users, ReuseChannel(u)
    PROVE  TypeOK'
<1> USE DEF ReuseChannel, handshakes
<1>1. users[u] \in UserType /\ attempts \in Nat
  BY Limits DEF TypeOK, LimitsType
<1> DEFINE none == channel = NoChannel \/ users[u].result = "gone"
<1>2. CASE none /\ u \in Loops
  BY <1>1, <1>2, RoundOrEnd DEF TypeOK
<1>3. CASE none /\ u \notin Loops
  BY <1>3, IdledIsUsers, LossIsHandled DEF TypeOK
<1>4. CASE ~none /\ users[u].stale
  <2>1. TakeForNew(u) /\ UNCHANGED channel
    BY <1>4
  <2> QED
    BY <2>1, TakenForNew, AstrayTypes DEF TypeOK
<1>5. CASE ~none /\ ~users[u].stale
  <2>1. UseRegistered(u) /\ UNCHANGED <<reading, channel>>
    BY <1>5
  <2> QED
    BY <2>1, UsedRegistered DEF TypeOK
<1> QED
  BY <1>2, <1>3, <1>4, <1>5

LEMMA StrayTypes ==
    ASSUME TypeOK, NEW c \in Channels, StrayHandshakeEnds(c)
    PROVE  TypeOK'
<1>1. ASSUME NEW u \in Users
      PROVE  [users[u] EXCEPT !.pc = "closing", !.result = "failed"]
               \in UserType
  BY UserMoves DEF TypeOK, Steps, Results
<1>2. users' \in [Users -> UserType]
  BY <1>1 DEF StrayHandshakeEnds, TypeOK
<1>3. CloseAstray(c)
  BY DEF StrayHandshakeEnds
<1> QED
  BY <1>2, <1>3, AstrayTypes
  DEF StrayHandshakeEnds, TypeOK, reconnection, handshakes

(* Those who share a handshake register its channel together, and none of  *)
(* them closes it.                                                         *)
LEMMA ShakenOnce ==
    ASSUME NEW c, NEW r, Shaken(c, [u \in Users |-> r])
    PROVE  \/ UNCHANGED connection
           \/ /\ channel' = c
              /\ readers' = readers \cup {c}
              /\ dialed' = {c} /\ closedAstray' = closedAstray
              /\ closedHere' = closedHere \cup ({channel} \ {NoChannel})
<1> DEFINE waiting == {u \in WaitFor("handshake") : users[u].channel = c}
           good == {u \in waiting : [v \in Users |-> r][u] = "ok"}
<1>1. good = {} \/ good = waiting
  BY DEF WaitFor
<1>2. IF good = {} THEN UNCHANGED connection
      ELSE /\ channel' = c
           /\ readers' = readers \cup {c}
           /\ dialed' = {c} /\ closedAstray' = closedAstray
           /\ closedHere' = closedHere \cup ({channel} \ {NoChannel})
                                \cup (IF good = waiting THEN {} ELSE {c})
  BY DEF Shaken
<1> QED
  BY <1>1, <1>2

LEMMA HandshakeTypes ==
    ASSUME TypeOK, NEW c \in Channels, HandshakeEnds(c)
    PROVE  TypeOK'
<1>1. PICK r \in Results : Shaken(c, [u \in Users |-> r])
  BY DEF HandshakeEnds
<1> DEFINE waiting == {u \in WaitFor("handshake") : users[u].channel = c}
           good == {u \in waiting : [v \in Users |-> r][u] = "ok"}
<1>2. users' \in [Users -> UserType]
  <2>1. ASSUME NEW u \in Users
        PROVE  /\ [users[u] EXCEPT !.pc = "closing", !.result = r] \in UserType
               /\ [users[u] EXCEPT !.pc = "write"] \in UserType
    BY UserMoves DEF TypeOK, Steps
  <2>2. waiting \subseteq Users
    BY DEF WaitFor
  <2>3. users' = [u \in Users |->
               IF u \notin waiting THEN users[u]
               ELSE IF u \notin good
               THEN [users[u] EXCEPT !.pc = "closing",
                                     !.result = [v \in Users |-> r][u]]
               ELSE IF u \in Loops THEN Idle
               ELSE [users[u] EXCEPT !.pc = "write"]]
    BY <1>1 DEF Shaken
  <2> QED
    BY <2>1, <2>2, <2>3, IdleIsUser DEF TypeOK
<1>3. /\ channel' \in Channels \cup {NoChannel}
      /\ readers' \subseteq Channels /\ dialed' \subseteq Channels
      /\ closedHere' \subseteq Channels /\ closedAstray' \subseteq Channels
  <2>1. CASE UNCHANGED connection
    BY <2>1 DEF TypeOK, connection
  <2>2. CASE /\ channel' = c
             /\ readers' = readers \cup {c}
             /\ dialed' = {c} /\ closedAstray' = closedAstray
             /\ closedHere' = closedHere \cup ({channel} \ {NoChannel})
    <3>1. {channel} \ {NoChannel} \subseteq Channels
      BY DEF TypeOK
    <3> QED
      BY <2>2, <3>1 DEF TypeOK
  <2> QED
    BY <1>1, <2>1, <2>2, ShakenOnce
<1>4. /\ reconnecting' \in BOOLEAN /\ failed' \in BOOLEAN
      /\ attempts' \in 0 .. 2 * MaxAttempts /\ sameErrors' \in 0 .. Threshold
  <2>1. \/ UNCHANGED reconnection
        \/ /\ reconnecting' = FALSE
           /\ attempts' = 0 /\ sameErrors' = 0
           /\ UNCHANGED failed
    BY <1>1 DEF Shaken
  <2> QED
    BY <2>1, ZeroIsCount DEF TypeOK, reconnection
<1> QED
  BY <1>1, <1>2, <1>3, <1>4 DEF HandshakeEnds, TypeOK

(* The budget of a run grows to double the limit and no further.           *)
LEMMA BudgetIsBounded ==
    ASSUME NEW user \in UserType, NEW r
    PROVE  BudgetAfter(user, r) \in MaxAttempts .. 2 * MaxAttempts
BY Limits DEF BudgetAfter, UserType, LimitsType

LEMMA CloseTypes ==
    ASSUME TypeOK, NEW u \in Users, CloseEnds(u)
    PROVE  TypeOK'
<1> USE DEF CloseEnds, handshakes
<1>1. users[u] \in UserType /\ attempts \in Nat
  BY Limits DEF TypeOK, LimitsType
<1> DEFINE r == users[u].result
           again == ResetsBackoff(users[u])
           user == [users[u] EXCEPT !.budget = BudgetAfter(users[u], r),
                                    !.restartedAs = r]
<1>2. CASE u \in Loops /\ r \in Restarts
  <2>1. BudgetAfter(users[u], r) \in MaxAttempts .. 2 * MaxAttempts
    BY <1>1, BudgetIsBounded
  <2>2. user \in UserType
    BY <1>1, <1>2, <2>1 DEF UserType
  <2>3. /\ GoRound(u, user, IF again THEN 0 ELSE attempts)
        /\ sameErrors' = IF again THEN 0 ELSE sameErrors
        /\ UNCHANGED <<channel, failed>>
    BY <1>2
  <2>4. (IF again THEN 0 ELSE attempts) \in Nat
    BY <1>1
  <2>5. /\ users' \in [Users -> UserType]
        /\ reconnecting' \in BOOLEAN
        /\ attempts' \in 0 .. 2 * MaxAttempts
    BY <1>2, <2>2, <2>3, <2>4, RoundOrEnd
  <2> QED
    BY <2>3, <2>5, Limits DEF TypeOK, LimitsType
<1>3. CASE u \in Loops /\ r \notin Restarts
  BY <1>1, <1>3, RoundOrEnd DEF TypeOK
<1>4. CASE u \notin Loops /\ r \in Restarts
  BY <1>4, IdledIsUsers DEF TypeOK, reconnection
<1>5. CASE u \notin Loops /\ r \notin Restarts
  BY <1>5, IdledIsUsers, LossIsHandled DEF TypeOK
<1> QED
  BY <1>2, <1>3, <1>4, <1>5

LEMMA SendTypes ==
    ASSUME TypeOK, NEW s \in Senders, SendMessage(s)
    PROVE  TypeOK'
<1> USE DEF SendMessage, connection, handshakes
<1>1. s \in Users /\ users[s] \in UserType
  BY DEF TypeOK, Users
<1>2. users' \in [Users -> UserType]
  <2>1. [Idle EXCEPT !.pc = "write", !.channel = channel] \in UserType
    BY IdleIsUser, UserMoves DEF TypeOK, Steps
  <2>2. [users[s] EXCEPT !.pc = "dial"] \in UserType
    BY <1>1, UserMoves DEF Steps
  <2>3. \/ users' = [users EXCEPT ![s] = [Idle EXCEPT !.pc = "write",
                                                  !.channel = channel]]
        \/ users' = [users EXCEPT ![s].pc = "dial"]
        \/ users' = users
    OBVIOUS
  <2> QED
    BY <1>1, <2>1, <2>2, <2>3 DEF TypeOK
<1>3. failed' \in BOOLEAN /\ dialing' \in BOOLEAN
  BY DEF TypeOK
<1>4. sameErrors' \in 0 .. Threshold
  BY Limits DEF TypeOK, LimitsType
<1> QED
  BY <1>2, <1>3, <1>4 DEF TypeOK

(* Traffic sets attempts and errors to zero.                               *)
LEMMA BackoffTypes ==
    ASSUME TypeOK, ResetBackoff
    PROVE  /\ attempts' \in 0 .. 2 * MaxAttempts
           /\ sameErrors' \in 0 .. Threshold
           /\ turns' \in 0 .. MaxTurns
           /\ UNCHANGED <<reconnecting, failed>>
BY Limits DEF ResetBackoff, Turn, TypeOK, LimitsType

LEMMA WriteTypes ==
    ASSUME TypeOK, NEW s \in Senders, Write(s)
    PROVE  TypeOK'
<1> USE DEF Write, handshakes
<1>1. [users EXCEPT ![s] = Idle] \in [Users -> UserType]
  BY IdledIsUsers DEF Users
<1>2. CASE /\ users' = [users EXCEPT ![s] = Idle] /\ ResetBackoff
           /\ UNCHANGED channel
  BY <1>1, <1>2, BackoffTypes DEF TypeOK
<1>3. CASE HandleConnectionLoss([users EXCEPT ![s] = Idle]) /\ UNCHANGED turns
  BY <1>1, <1>3, LossIsHandled DEF TypeOK
<1> QED
  BY <1>2, <1>3

LEMMA ReadTypes ==
    ASSUME TypeOK, NEW c \in Channels,
           ReadFails(c) \/ ReadAborted(c) \/ ReadEnds(c)
    PROVE  TypeOK'
<1>1. Unregistered(c) \in Channels \cup {NoChannel}
  BY DEF Unregistered, TypeOK
<1>2. CASE ReadFails(c)
  <2>1. users \in [Users -> UserType]
    BY DEF TypeOK
  <2>2. CASE intentional
    BY <1>1, <1>2, <2>2
    DEF ReadFails, Unregister, TypeOK, reconnection, handshakes
  <2>3. CASE ~intentional
    BY <1>2, <2>1, <2>3, LossIsHandled
    DEF ReadFails, Unregister, TypeOK, handshakes
  <2> QED
    BY <2>2, <2>3
<1>3. CASE ReadAborted(c)
  BY <1>1, <1>3
  DEF ReadAborted, Unregister, TypeOK, reconnection, handshakes
<1>4. CASE ReadEnds(c)
  BY <1>1, <1>4
  DEF ReadEnds, Unregister, TypeOK, reconnection, handshakes
<1> QED
  BY <1>2, <1>3, <1>4

LEMMA CleanupTypes ==
    ASSUME TypeOK, CleanupStalePeers
    PROVE  users' \in [Users -> UserType] /\ turns' \in 0 .. MaxTurns
<1>1. turns' \in 0 .. MaxTurns
  <2>1. turns + 2 <= MaxTurns /\ turns' = turns + 2
    BY Zenon DEF CleanupStalePeers
  <2>2. turns \in 0 .. MaxTurns
    BY DEF TypeOK
  <2> QED
    BY <2>1, <2>2, Limits DEF LimitsType
<1>2. ASSUME NEW u \in Users
      PROVE  users'[u] \in UserType
  <2>1. users[u] \in UserType
    BY DEF TypeOK
  <2>2. \/ users'[u] = users[u]
        \/ users'[u] = [users[u] EXCEPT !.stale = TRUE,
                            !.result = IF users[u].pc = "reuse"
                                       THEN "gone" ELSE @]
    BY DEF CleanupStalePeers
  <2> QED
    BY <2>1, <2>2 DEF UserType
<1>3. users' = [u \in Users |-> users'[u]]
  BY Zenon DEF CleanupStalePeers
<1>4. users' \in [Users -> UserType]
  BY <1>2, <1>3
<1> QED
  BY <1>1, <1>4

LEMMA ControlTypes ==
    ASSUME TypeOK,
           \/ CloseConnection \/ ReconnectPeer
           \/ WakeFromSleep \/ CleanupStalePeers
    PROVE  TypeOK'
<1> USE ZeroIsCount, TurnIsCount
<1> USE DEF connection, reconnection, handshakes
<1>1. CASE CloseConnection
  BY <1>1 DEF CloseConnection, TypeOK
<1>2. CASE ReconnectPeer
  <2>1. users \in [Users -> UserType] /\ turns' \in 0 .. MaxTurns
    BY <1>2 DEF ReconnectPeer, TypeOK
  <2>2. CASE reconnecting
    BY <1>2, <2>1, <2>2 DEF ReconnectPeer, TypeOK
  <2>3. CASE ~reconnecting
    BY <1>2, <2>1, <2>3, StartedLoop DEF ReconnectPeer, TypeOK
  <2> QED
    BY <2>2, <2>3
<1>3. CASE WakeFromSleep
  BY <1>3 DEF WakeFromSleep, TypeOK
<1>4. CASE CleanupStalePeers
  BY <1>4, CleanupTypes DEF CleanupStalePeers, TypeOK
<1> QED
  BY <1>1, <1>2, <1>3, <1>4

(* Every variable keeps its type: the budget of a run of the reconnection  *)
(* loop, and the attempts counted against it, never more than double the   *)
(* limit, however often the peer reports a restart.                        *)
THEOREM TransportTypeCorrect == Spec => []TypeOK
<1>1. Init => TypeOK
  BY ZeroIsCount, IdleIsUser DEF Init, TypeOK
<1>2. TypeOK /\ [Next]_vars => TypeOK'
  <2> SUFFICES ASSUME TypeOK, [Next]_vars PROVE TypeOK'
    OBVIOUS
  <2>1. ASSUME NEW l \in Loops, EndDelay(l) PROVE TypeOK'
    BY <2>1, DelayTypes
  <2>2. CASE DialEnds
    BY <2>2, DialEndsTypes
  <2>3. ASSUME NEW u \in Users, DialFails(u) \/ ReuseChannel(u) \/ CloseEnds(u)
        PROVE  TypeOK'
    BY <2>3, DialFailsTypes, ReuseTypes, CloseTypes
  <2>4. ASSUME NEW c \in Channels,
               \/ HandshakeEnds(c) \/ StrayHandshakeEnds(c) \/ ReadFails(c)
               \/ ReadAborted(c) \/ ReadEnds(c)
        PROVE  TypeOK'
    BY <2>4, HandshakeTypes, StrayTypes, ReadTypes
  <2>5. ASSUME NEW s \in Senders, SendMessage(s) \/ Write(s) PROVE TypeOK'
    BY <2>5, SendTypes, WriteTypes
  <2>6. CASE Receive
    BY <2>6, BackoffTypes DEF Receive, connection, handshakes, TypeOK
  <2>7. CASE PeerDisconnects
    <3>1. users \in [Users -> UserType] /\ turns' \in 0 .. MaxTurns
      BY <2>7, Limits DEF PeerDisconnects, Turn, TypeOK, LimitsType
    <3> QED
      BY <2>7, <3>1, LossIsHandled DEF PeerDisconnects, handshakes, TypeOK
  <2>8. CASE InboundConnection
    BY <2>8, NewChannelIsUnused
    DEF InboundConnection, connection, reconnection, TypeOK
  <2>9. CASE InboundHandshakeEnds
    BY <2>9
    DEF InboundHandshakeEnds, Register, connection, reconnection, TypeOK
  <2>10. CASE \/ CloseConnection \/ ReconnectPeer
              \/ WakeFromSleep \/ CleanupStalePeers
    BY <2>10, ControlTypes
  <2>11. CASE UNCHANGED vars
    BY <2>11 DEF vars, TypeOK
  <2> QED
    BY <2>1, <2>2, <2>3, <2>4, <2>5, <2>6, <2>7, <2>8, <2>9, <2>10, <2>11
    DEF Next
<1> QED
  BY <1>1, <1>2, PTL DEF Spec

-----------------------------------------------------------------------------
(* Losses and permanent failures.                                          *)

Pursuit == LossIsPursued /\ FailedIsLeftAlone

(* What a step may do to a pursuit: leave its loops at work, end it, or     *)
(* have a loop at work for a peer that has not failed.                     *)
LEMMA PursuitKept ==
    ASSUME Pursuit,
           \/ /\ reconnecting' = reconnecting
              /\ failed' => failed
              /\ \A l \in ActiveLoops : users'[l].pc # "idle"
           \/ reconnecting' = FALSE
           \/ ~failed' /\ \E l \in Loops : users'[l].pc = "delay"
    PROVE  Pursuit'
BY DEF Pursuit, LossIsPursued, FailedIsLeftAlone, ActiveLoops

(* A sender that has come to its end leaves every loop at work.            *)
LEMMA LoopsOutliveSenders ==
    ASSUME TypeOK, NEW u \in Users \ Loops, NEW user
    PROVE  \A l \in ActiveLoops : [users EXCEPT ![u] = user][l].pc # "idle"
BY DEF ActiveLoops, TypeOK, Users

LEMMA LossPursued ==
    ASSUME TypeOK, Pursuit, NEW u \in Users \ Loops,
           HandleConnectionLoss([users EXCEPT ![u] = Idle])
    PROVE  Pursuit'
<1>1. \/ reconnecting' = reconnecting /\ users' = [users EXCEPT ![u] = Idle]
      \/ ~failed' /\ \E l \in Loops : users'[l].pc = "delay"
  BY IdledIsUsers, LossIsHandled
<1>2. failed' = failed
  BY IdledIsUsers, LossIsHandled
<1>3. ASSUME users' = [users EXCEPT ![u] = Idle]
      PROVE  \A l \in ActiveLoops : users'[l].pc # "idle"
  BY <1>3, LoopsOutliveSenders
<1> QED
  BY <1>1, <1>2, <1>3, PursuitKept

(* So does a step that changes neither users nor marks.                     *)
LEMMA PursuitUnchanged ==
    ASSUME Pursuit, UNCHANGED <<users, reconnecting>>, failed' => failed
    PROVE  Pursuit'
BY PursuitKept DEF ActiveLoops

LEMMA RoundPursued ==
    ASSUME TypeOK, Pursuit, NEW l \in Loops, NEW user \in UserType,
           NEW tries \in Nat, GoRound(l, user, tries), UNCHANGED failed
    PROVE  Pursuit'
BY RoundOrEnd, PursuitKept DEF TypeOK

LEMMA DelayPursued ==
    ASSUME TypeOK, Pursuit, NEW l \in Loops, EndDelay(l) PROVE Pursuit'
<1>1. users[l] \in UserType
  BY DEF TypeOK, Users
<1>2. UNCHANGED failed
  BY DEF EndDelay
<1>3. CASE GoRound(l, users[l], Max({attempts - 1, 0}))
  <2>1. Max({attempts - 1, 0}) \in Nat
    BY AttemptGivenBack
  <2> QED
    BY <1>1, <1>2, <1>3, <2>1, RoundPursued
<1>4. CASE users' = [users EXCEPT ![l].pc = "dial"] /\ UNCHANGED reconnecting
  <2>1. \A k \in ActiveLoops : users'[k].pc # "idle"
    BY <1>4 DEF ActiveLoops, TypeOK, Users, UserType
  <2> QED
    BY <1>2, <1>4, <2>1, PursuitKept
<1> QED
  BY <1>3, <1>4 DEF EndDelay

LEMMA DialEndsPursued == ASSUME TypeOK, Pursuit, DialEnds PROVE Pursuit'
<1>1. ASSUME NEW l \in ActiveLoops PROVE users'[l].pc # "idle"
  <2>1. l \in Users /\ users[l] \in UserType /\ users[l].pc # "idle"
    BY DEF ActiveLoops, Users, TypeOK
  <2>2. CASE \E e \in Errors :
               users' = [u \in Users |->
                   IF u \in WaitFor("dial")
                   THEN [users[u] EXCEPT !.pc = "failing", !.result = e]
                   ELSE users[u]]
    BY <2>1, <2>2 DEF UserType
  <2>3. CASE \E pc \in {"reuse", "handshake", "closing"} :
               users' = [u \in Users |->
                   IF u \in WaitFor("dial")
                   THEN [users[u] EXCEPT !.pc = pc, !.channel = NewChannel,
                            !.result = IF pc = "closing" THEN "failed"
                                       ELSE "none"]
                   ELSE users[u]]
    BY <2>1, <2>3 DEF UserType
  <2> QED
    BY <2>2, <2>3 DEF DialEnds
<1>2. UNCHANGED <<reconnecting, failed>>
  BY DEF DialEnds, reconnection
<1> QED
  BY <1>1, <1>2, PursuitKept

LEMMA DialFailsPursued ==
    ASSUME TypeOK, Pursuit, NEW u \in Users, DialFails(u) PROVE Pursuit'
<1>1. CASE u \in Loops
  <2>1. AttemptFails(u, users[u].result)
    BY <1>1 DEF DialFails
  <2>2. CASE GiveUp(u)
    BY <1>1, <2>2, GivenUp, PursuitKept
  <2>3. CASE ~failed' /\ GoRound(u, users[u], attempts)
    <3>1. users[u] \in UserType /\ attempts \in Nat
      BY Limits DEF LimitsType, TypeOK
    <3> QED
      BY <1>1, <2>3, <3>1, RoundOrEnd, PursuitKept
  <2> QED
    BY <2>1, <2>2, <2>3 DEF AttemptFails
<1>2. CASE u \notin Loops
  BY <1>2, LossPursued DEF DialFails
<1> QED
  BY <1>1, <1>2

(* A loop that finds the peer connected ends its pursuit.                  *)
LEMMA UsePursued ==
    ASSUME TypeOK, Pursuit, NEW u \in Users, UseRegistered(u) PROVE Pursuit'
<1>1. CASE u \in Loops
  BY <1>1, PursuitKept DEF UseRegistered, Connected
<1>2. CASE u \notin Loops
  <2>1. \A l \in ActiveLoops : users'[l].pc # "idle"
    BY <1>2 DEF UseRegistered, ActiveLoops, TypeOK, Users
  <2> QED
    BY <1>2, <2>1, PursuitKept DEF UseRegistered, reconnection
<1> QED
  BY <1>1, <1>2

(* One that takes it for a new channel is still at work.                   *)
LEMMA TakePursued ==
    ASSUME TypeOK, Pursuit, NEW u \in Users, TakeForNew(u) PROVE Pursuit'
<1>1. CASE UseRegistered(u)
  BY <1>1, UsePursued
<1>2. CASE ~UseRegistered(u)
  <2>1. UNCHANGED reconnection /\ users[u] \in UserType
    BY <1>2 DEF TakeForNew, TypeOK
  <2>2. users'[u].pc # "idle" /\ \A v \in Users \ {u} : users'[v] = users[v]
    BY <1>2, <2>1 DEF TakeForNew, TypeOK, UserType
  <2>3. \A l \in ActiveLoops : users'[l].pc # "idle"
    BY <2>2 DEF ActiveLoops, Users
  <2> QED
    BY <2>1, <2>3, PursuitKept DEF reconnection
<1> QED
  BY <1>1, <1>2

LEMMA ReusePursued ==
    ASSUME TypeOK, Pursuit, NEW u \in Users, ReuseChannel(u) PROVE Pursuit'
<1> USE DEF ReuseChannel
<1> DEFINE none == channel = NoChannel \/ users[u].result = "gone"
<1>1. CASE none /\ u \in Loops
  <2>1. users[u] \in UserType /\ attempts \in Nat
    BY Limits DEF LimitsType, TypeOK
  <2> QED
    BY <1>1, <2>1, RoundPursued
<1>2. CASE none /\ u \notin Loops
  BY <1>2, LossPursued
<1>3. CASE ~none
  BY <1>3, TakePursued, UsePursued
<1> QED
  BY <1>1, <1>2, <1>3

LEMMA StrayPursued ==
    ASSUME TypeOK, Pursuit, NEW c \in Channels, StrayHandshakeEnds(c)
    PROVE  Pursuit'
<1>1. ASSUME NEW l \in ActiveLoops PROVE users'[l].pc # "idle"
  <2>1. l \in Users /\ users[l] \in UserType /\ users[l].pc # "idle"
    BY DEF ActiveLoops, Users, TypeOK
  <2> QED
    BY <2>1 DEF StrayHandshakeEnds, UserType
<1> QED
  BY <1>1, PursuitKept DEF StrayHandshakeEnds, reconnection

(* Loops whose handshake fails are at work; one whose handshake succeeds   *)
(* has connected the peer.                                                 *)
LEMMA HandshakePursued ==
    ASSUME TypeOK, Pursuit, NEW c \in Channels, HandshakeEnds(c) PROVE Pursuit'
<1>1. PICK r \in Results : Shaken(c, [u \in Users |-> r])
  BY DEF HandshakeEnds
<1> DEFINE waiting == {u \in WaitFor("handshake") : users[u].channel = c}
           good == {u \in waiting : [v \in Users |-> r][u] = "ok"}
<1>2. CASE good \cap Loops # {}
  BY <1>1, <1>2, PursuitKept DEF Shaken
<1>3. CASE good \cap Loops = {}
  <2>1. UNCHANGED reconnection
    BY <1>1, <1>3 DEF Shaken
  <2>2. users' = [u \in Users |->
               IF u \notin waiting THEN users[u]
               ELSE IF u \notin good
               THEN [users[u] EXCEPT !.pc = "closing",
                                     !.result = [v \in Users |-> r][u]]
               ELSE IF u \in Loops THEN Idle
               ELSE [users[u] EXCEPT !.pc = "write"]]
    BY <1>1 DEF Shaken
  <2>3. ASSUME NEW l \in ActiveLoops PROVE users'[l].pc # "idle"
    <3>1. l \in Users /\ users[l] \in UserType /\ users[l].pc # "idle"
      BY DEF ActiveLoops, Users, TypeOK
    <3>2. l \notin good
      BY <1>3 DEF ActiveLoops
    <3> QED
      BY <2>2, <3>1, <3>2 DEF UserType
  <2> QED
    BY <2>1, <2>3, PursuitKept DEF reconnection
<1> QED
  BY <1>2, <1>3

LEMMA ClosePursued ==
    ASSUME TypeOK, Pursuit, NEW u \in Users, CloseEnds(u) PROVE Pursuit'
<1> USE DEF CloseEnds
<1>1. users[u] \in UserType /\ attempts \in Nat
  BY Limits DEF TypeOK, LimitsType
<1> DEFINE r == users[u].result
           again == ResetsBackoff(users[u])
           user == [users[u] EXCEPT !.budget = BudgetAfter(users[u], r),
                                    !.restartedAs = r]
<1>2. CASE u \in Loops /\ r \in Restarts
  <2>1. user \in UserType
    BY <1>1, <1>2, BudgetIsBounded DEF UserType
  <2>2. GoRound(u, user, IF again THEN 0 ELSE attempts) /\ UNCHANGED failed
    BY <1>2
  <2>3. (IF again THEN 0 ELSE attempts) \in Nat
    BY <1>1
  <2> QED
    BY <1>2, <2>1, <2>2, <2>3, RoundPursued
<1>3. CASE u \in Loops /\ r \notin Restarts
  BY <1>1, <1>3, RoundPursued
<1>4. CASE u \notin Loops /\ r \in Restarts
  <2>1. users' = [users EXCEPT ![u] = Idle] /\ UNCHANGED reconnection
    BY <1>4
  <2>2. \A l \in ActiveLoops : users'[l].pc # "idle"
    BY <1>4, <2>1, LoopsOutliveSenders
  <2> QED
    BY <2>1, <2>2, PursuitKept DEF reconnection
<1>5. CASE u \notin Loops /\ r \notin Restarts
  BY <1>5, LossPursued
<1> QED
  BY <1>2, <1>3, <1>4, <1>5

LEMMA SendPursued ==
    ASSUME TypeOK, Pursuit, NEW s \in Senders, SendMessage(s) PROVE Pursuit'
<1>1. s \in Users \ Loops
  BY BoundsAreNaturals DEF Users
<1>2. \A l \in ActiveLoops : users'[l].pc # "idle"
  BY <1>1 DEF SendMessage, ActiveLoops, TypeOK, Users
<1>3. UNCHANGED reconnecting /\ (failed' => failed)
  BY DEF SendMessage
<1> QED
  BY <1>2, <1>3, PursuitKept

LEMMA WritePursued ==
    ASSUME TypeOK, Pursuit, NEW s \in Senders, Write(s) PROVE Pursuit'
<1>1. s \in Users \ Loops
  BY BoundsAreNaturals DEF Users
<1>2. CASE users' = [users EXCEPT ![s] = Idle] /\ ResetBackoff
  BY <1>1, <1>2, LoopsOutliveSenders, PursuitKept DEF ResetBackoff
<1>3. CASE HandleConnectionLoss([users EXCEPT ![s] = Idle])
  BY <1>1, <1>3, LossPursued
<1> QED
  BY <1>2, <1>3 DEF Write

(* A loss nobody who dials has met.                                        *)
LEMMA LossOfReaderPursued ==
    ASSUME TypeOK, Pursuit, HandleConnectionLoss(users) PROVE Pursuit'
<1>1. users \in [Users -> UserType]
  BY DEF TypeOK
<1>2. \A l \in ActiveLoops : users[l].pc # "idle"
  BY DEF ActiveLoops
<1> QED
  BY <1>1, <1>2, LossIsHandled, PursuitKept

LEMMA ReadPursued ==
    ASSUME TypeOK, Pursuit, NEW c \in Channels,
           ReadFails(c) \/ ReadAborted(c) \/ ReadEnds(c)
    PROVE  Pursuit'
<1>1. CASE ReadFails(c)
  BY <1>1, LossOfReaderPursued, PursuitUnchanged DEF ReadFails, reconnection
<1>2. CASE ReadAborted(c) \/ ReadEnds(c)
  BY <1>2, PursuitUnchanged DEF ReadAborted, ReadEnds, reconnection
<1> QED
  BY <1>1, <1>2

LEMMA ControlPursued ==
    ASSUME TypeOK, Pursuit,
           \/ CloseConnection \/ ReconnectPeer
           \/ WakeFromSleep \/ CleanupStalePeers
    PROVE  Pursuit'
<1>1. CASE CloseConnection \/ CleanupStalePeers
  BY <1>1, PursuitKept DEF CloseConnection, CleanupStalePeers
<1>2. CASE ReconnectPeer
  <2>1. CASE reconnecting
    BY <1>2, <2>1, PursuitUnchanged DEF ReconnectPeer, reconnection
  <2>2. CASE ~reconnecting
    <3>1. users \in [Users -> UserType]
      BY DEF TypeOK
    <3> QED
      BY <1>2, <2>2, <3>1, StartedLoop, PursuitKept DEF ReconnectPeer
  <2> QED
    BY <2>1, <2>2
<1>3. CASE WakeFromSleep
  BY <1>3, PursuitUnchanged DEF WakeFromSleep
<1> QED
  BY <1>1, <1>2, <1>3

LEMMA PursuitInductive ==
    ASSUME TypeOK, Pursuit, [Next]_vars PROVE Pursuit'
<1>1. ASSUME NEW l \in Loops, EndDelay(l) PROVE Pursuit'
  BY <1>1, DelayPursued
<1>2. CASE DialEnds
  BY <1>2, DialEndsPursued
<1>3. ASSUME NEW u \in Users, DialFails(u) \/ ReuseChannel(u) \/ CloseEnds(u)
      PROVE  Pursuit'
  BY <1>3, DialFailsPursued, ReusePursued, ClosePursued
<1>4. ASSUME NEW c \in Channels,
             \/ HandshakeEnds(c) \/ StrayHandshakeEnds(c) \/ ReadFails(c)
             \/ ReadAborted(c) \/ ReadEnds(c)
      PROVE  Pursuit'
  BY <1>4, HandshakePursued, StrayPursued, ReadPursued
<1>5. ASSUME NEW s \in Senders, SendMessage(s) \/ Write(s) PROVE Pursuit'
  BY <1>5, SendPursued, WritePursued
<1>6. CASE Receive
  BY <1>6, PursuitUnchanged DEF Receive, ResetBackoff
<1>7. CASE PeerDisconnects
  BY <1>7, LossOfReaderPursued DEF PeerDisconnects
<1>8. CASE InboundConnection \/ InboundHandshakeEnds
  BY <1>8, PursuitUnchanged
  DEF InboundConnection, InboundHandshakeEnds, reconnection
<1>9. CASE \/ CloseConnection \/ ReconnectPeer
           \/ WakeFromSleep \/ CleanupStalePeers
  BY <1>9, ControlPursued
<1>10. CASE UNCHANGED vars
  BY <1>10, PursuitUnchanged DEF vars
<1> QED
  BY <1>1, <1>2, <1>3, <1>4, <1>5, <1>6, <1>7, <1>8, <1>9, <1>10 DEF Next

(* The peer is marked as reconnecting only while a loop is at work, however *)
(* many loops, senders and channels there are and whichever ends first: no  *)
(* loss is left without a loop because of a mark nobody will take away.     *)
THEOREM LossAlwaysPursued == Spec => []LossIsPursued
<1>1. Init => Pursuit
  BY DEF Init, Pursuit, LossIsPursued, FailedIsLeftAlone
<1>2. TypeOK /\ Pursuit /\ [Next]_vars => Pursuit'
  BY PursuitInductive
<1>3. Pursuit => LossIsPursued
  BY DEF Pursuit
<1> QED
  BY <1>1, <1>2, <1>3, TransportTypeCorrect, PTL DEF Spec

(* A peer that failed for good is not being reconnected, also when the      *)
(* failure is found by a loop that the kernel had closed and another had    *)
(* replaced.                                                               *)
THEOREM FailedAlwaysLeftAlone == Spec => []FailedIsLeftAlone
<1>1. Init => Pursuit
  BY DEF Init, Pursuit, LossIsPursued, FailedIsLeftAlone
<1>2. TypeOK /\ Pursuit /\ [Next]_vars => Pursuit'
  BY PursuitInductive
<1>3. Pursuit => FailedIsLeftAlone
  BY DEF Pursuit
<1> QED
  BY <1>1, <1>2, <1>3, TransportTypeCorrect, PTL DEF Spec

-----------------------------------------------------------------------------
(* The registered channel.                                                 *)

(* With it: channels are in one place at a time, so that one that comes out *)
(* of its handshake is not being read, and whoever closes a channel that is *)
(* not read has not closed one that is to be registered.                   *)
Live == RegisteredIsLive /\ Apart /\ closedHere \subseteq readers

LEMMA LiveUnlessConnectionsMove ==
    ASSUME Live, UNCHANGED <<readers, closedHere, shaking, inbound>>,
           channel' \in {channel, NoChannel}
    PROVE  Live'
BY DEF Live, RegisteredIsLive, Apart

(* A channel registered when its handshake is over was not read.           *)
LEMMA RegisteredLive ==
    ASSUME TypeOK, Live, NEW c \in Channels \ readers,
           channel' = c, readers' = readers \cup {c},
           closedHere' \in {closedHere, closedHere \cup {channel}},
           closedHere' = closedHere \/ channel # NoChannel,
           shaking' \subseteq shaking \ {c}, inbound' \subseteq inbound \ {c}
    PROVE  Live'
BY NoChannelAssumption DEF Live, RegisteredIsLive, Apart, TypeOK

LEMMA HandshakeLive ==
    ASSUME TypeOK, Live, NEW c \in Channels, HandshakeEnds(c) PROVE Live'
<1>1. PICK r \in Results : Shaken(c, [u \in Users |-> r])
  BY DEF HandshakeEnds
<1>2. c \in shaking /\ shaking' = shaking \ {c} /\ UNCHANGED inbound
  BY DEF HandshakeEnds
<1>3. CASE UNCHANGED connection
  BY <1>2, <1>3 DEF connection, Live, RegisteredIsLive, Apart
<1>4. CASE /\ channel' = c
           /\ readers' = readers \cup {c}
           /\ dialed' = {c} /\ closedAstray' = closedAstray
           /\ closedHere' = closedHere \cup ({channel} \ {NoChannel})
  <2>1. c \notin readers /\ c \notin inbound
    BY <1>2 DEF Live, Apart
  <2>2. /\ closedHere' \in {closedHere, closedHere \cup {channel}}
        /\ closedHere' = closedHere \/ channel # NoChannel
    BY <1>4
  <2> QED
    BY <1>2, <1>4, <2>1, <2>2, RegisteredLive
<1> QED
  BY <1>1, <1>3, <1>4, ShakenOnce

LEMMA StrayLive ==
    ASSUME Live, NEW c \in Channels, StrayHandshakeEnds(c) PROVE Live'
BY LiveUnlessConnectionsMove DEF StrayHandshakeEnds, CloseAstray, handshakes

LEMMA InboundHandshakeLive ==
    ASSUME TypeOK, Live, InboundHandshakeEnds PROVE Live'
<1>1. PICK c \in inbound : /\ inbound' = inbound \ {c}
                           /\ Register(c) \/ UNCHANGED connection
  BY DEF InboundHandshakeEnds
<1>2. c \in Channels /\ c \notin readers /\ c \notin shaking
  BY DEF TypeOK, Live, Apart
<1>3. UNCHANGED shaking
  BY DEF InboundHandshakeEnds
<1>4. CASE Register(c)
  <2>1. /\ closedHere' \in {closedHere, closedHere \cup {channel}}
        /\ closedHere' = closedHere \/ channel # NoChannel
    <3>1. channel # c
      BY <1>2, NoChannelAssumption DEF Live, RegisteredIsLive
    <3> QED
      BY <1>4, <3>1 DEF Register
  <2> QED
    BY <1>1, <1>2, <1>3, <1>4, <2>1, RegisteredLive DEF Register
<1>5. CASE UNCHANGED connection
  BY <1>1, <1>3, <1>5 DEF connection, Live, RegisteredIsLive, Apart
<1> QED
  BY <1>1, <1>4, <1>5

(* A channel that begins its handshake was in no other place.              *)
LEMMA NewChannelLive ==
    ASSUME Live, UNCHANGED connection,
           \/ UNCHANGED <<shaking, inbound>>
           \/ /\ Unused # {}
              /\ \/ shaking' = shaking \cup {NewChannel} /\ UNCHANGED inbound
                 \/ inbound' = inbound \cup {NewChannel} /\ UNCHANGED shaking
    PROVE  Live'
<1>1. ASSUME Unused # {}
      PROVE  NewChannel \notin readers \cup shaking \cup inbound
  BY <1>1, NewChannelIsUnused DEF InUse
<1> QED
  BY <1>1 DEF Live, RegisteredIsLive, Apart, connection

(* A reader that ends unregisters its own channel and no other.            *)
LEMMA ReadLive ==
    ASSUME TypeOK, Live, NEW c \in Channels,
           ReadFails(c) \/ ReadAborted(c) \/ ReadEnds(c)
    PROVE  Live'
<1>1. /\ readers' = readers \ {c} /\ closedHere' = closedHere \ {c}
      /\ UNCHANGED <<shaking, inbound>>
  BY DEF ReadFails, ReadAborted, ReadEnds, Unregister, handshakes
<1>2. channel' \in {Unregistered(c), NoChannel}
  BY DEF ReadFails, ReadAborted, ReadEnds, HandleConnectionLoss
<1> QED
  BY <1>1, <1>2 DEF Unregistered, Live, RegisteredIsLive, Apart

LEMMA LiveInductive ==
    ASSUME TypeOK, Live, [Next]_vars PROVE Live'
<1>1. ASSUME NEW l \in Loops, EndDelay(l) PROVE Live'
  BY <1>1, LiveUnlessConnectionsMove DEF EndDelay, connection, handshakes
<1>2. CASE DialEnds
  BY <1>2, NewChannelLive DEF DialEnds
<1>3. ASSUME NEW u \in Users, DialFails(u) \/ ReuseChannel(u) \/ CloseEnds(u)
      PROVE  Live'
  BY <1>3, LiveUnlessConnectionsMove
  DEF DialFails, ReuseChannel, TakeForNew, CloseAstray, CloseEnds,
      HandleConnectionLoss, handshakes
<1>4. ASSUME NEW c \in Channels,
             \/ HandshakeEnds(c) \/ StrayHandshakeEnds(c) \/ ReadFails(c)
             \/ ReadAborted(c) \/ ReadEnds(c)
      PROVE  Live'
  BY <1>4, HandshakeLive, StrayLive, ReadLive
<1>5. ASSUME NEW s \in Senders, SendMessage(s) \/ Write(s) PROVE Live'
  BY <1>5, LiveUnlessConnectionsMove
  DEF SendMessage, Write, HandleConnectionLoss, connection, handshakes
<1>6. CASE \/ Receive \/ PeerDisconnects \/ CloseConnection \/ ReconnectPeer
           \/ WakeFromSleep \/ CleanupStalePeers \/ UNCHANGED vars
  BY <1>6, LiveUnlessConnectionsMove
  DEF Receive, PeerDisconnects, CloseConnection, ReconnectPeer, WakeFromSleep,
      CleanupStalePeers, HandleConnectionLoss, connection, handshakes, vars
<1>7. CASE InboundConnection
  BY <1>7, NewChannelLive DEF InboundConnection
<1>8. CASE InboundHandshakeEnds
  BY <1>8, InboundHandshakeLive
<1> QED
  BY <1>1, <1>2, <1>3, <1>4, <1>5, <1>6, <1>7, <1>8 DEF Next

(* The registered channel is being read and nobody who shared its dial,     *)
(* found it registered or replaced it has closed it, with any number of     *)
(* senders and loops dialing, channels opened by the peer replacing it and  *)
(* readers ending in between.  A dial that outlived a cleanup of the peer   *)
(* may have closed it: CloseAstray, which keeps an account of its own.      *)
THEOREM RegisteredAlwaysLive == Spec => []RegisteredIsLive
<1>1. Init => Live
  BY DEF Init, Live, RegisteredIsLive, Apart
<1>2. TypeOK /\ Live /\ [Next]_vars => Live'
  BY LiveInductive
<1>3. Live => RegisteredIsLive
  BY DEF Live
<1> QED
  BY <1>1, <1>2, <1>3, TransportTypeCorrect, PTL DEF Spec
=============================================================================
