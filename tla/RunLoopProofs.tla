--------------------------- MODULE RunLoopProofs ---------------------------
(* Proofs about RunLoop, for any callers, any requests of theirs and any   *)
(* bounds.                                                                 *)
EXTENDS RunLoop, FiniteSetTheorems, TLAPS

(* The stores with this queue, and those with any.                         *)
StoresOf(queue) ==
    [queue : {queue}, chore : BOOLEAN, deciding : SUBSET Messages,
     resolved : SUBSET Messages, done : SUBSET Callers, vatDead : BOOLEAN]

Shaped(s) == s \in StoresOf(s.queue)

Shapes == Shaped(store) /\ Shaped(savepoint) /\ Shaped(committed)

(* The inductive invariant behind ParkedMeansIdle.  Requests are held only *)
(* while a crank is open, so that a loop about to sleep leaves none behind *)
(* its wake-up, and a loop that has not started is nowhere in its turn;    *)
(* the rest says what the state is made of.                                *)
ParkInv ==
    /\ Shapes
    /\ arrivals \in Nat
    /\ ParkedMeansIdle
    /\ InCrank \/ held = <<>>
    /\ loop = "idle" => pc = "off"

(* Waiters are restart and termination callers, on their lists or taken.   *)
WorkInv == atWork \subseteq Work /\ taken \subseteq Work

LEMMA HasShape == ASSUME NEW queue, NEW s \in StoresOf(queue)
                  PROVE  Shaped(s) /\ s.queue = queue
BY DEF Shaped, StoresOf

LEMMA WorkIsAsked == Work \subseteq Callers
BY DEF Work, OfKind

LEMMA EmptyIsShaped == Shaped(EmptyStore)
BY DEF Shaped, StoresOf, EmptyStore

(* Writing requests down changes nothing of a store but its queue and what *)
(* is done.                                                                *)
LEMMA WrittenKeeps ==
    ASSUME NEW requests, NEW missing, NEW s, Shaped(s)
    PROVE  /\ Shaped(Written(requests, missing, s))
           /\ Written(requests, missing, s).chore = s.chore
<1>1. Written(requests, missing, s)
        \in StoresOf(s.queue \o ToQueue(requests, missing))
  BY DEF Shaped, StoresOf, Written, OfKind
<1>2. Written(requests, missing, s).chore = s.chore
  BY DEF Shaped, StoresOf, Written
<1> QED
  BY <1>1, <1>2, HasShape

(* So it is when they are written durably, outside a crank.                *)
LEMMA WriteKeeps ==
    ASSUME NEW requests, NEW f, Shapes, WriteRequests(requests, store, f)
    PROVE  /\ Shaped(store') /\ Shaped(committed')
           /\ store'.chore = store.chore
<1>1. PICK missing : store' = Written(requests, missing, store)
  BY DEF WriteRequests
<1>2. committed' = store'
  BY DEF WriteRequests
<1>3. /\ Shaped(Written(requests, missing, store))
      /\ Written(requests, missing, store).chore = store.chore
  BY WrittenKeeps DEF Shapes
<1> QED
  BY <1>1, <1>2, <1>3

(* The vat's death and the rejection of its promises leave the queue.      *)
LEMMA RetiredKeeps ==
    ASSUME NEW s, Shaped(s), Shapes
    PROVE  Shaped(Retired(s)) /\ Retired(s).queue = s.queue
<1>1. Retired(s) \in StoresOf(s.queue)
  BY DEF Shaped, Shapes, StoresOf, Retired, Decided
<1> QED
  BY <1>1, HasShape

(* The loop dies outside its sleep, and nothing is left held.              *)
LEMMA DeathKeeps ==
    ASSUME ParkInv, NEW s, Shaped(s), NEW f, FailRunLoop(s, f),
           pc # "asleep"
    PROVE  ParkInv'
<1>1. Shaped(store') /\ Shaped(committed') /\ Shaped(savepoint')
  BY DEF FailRunLoop, ParkInv, Shapes
<1>2. Shapes'
  BY <1>1 DEF Shapes, Shaped, StoresOf
<1>3. ~parked'
  BY DEF FailRunLoop, ParkInv, ParkedMeansIdle
<1> QED
  BY <1>2, <1>3 DEF FailRunLoop, ParkInv, ParkedMeansIdle, arrivalVars

(* A delivery returns to a loop that is awake.                             *)
LEMMA DeliveryKeeps ==
    ASSUME ParkInv, NEW v, Returns(v), Shaped(store'), arrivals' \in Nat
    PROVE  ParkInv'
<1>1. Shaped(savepoint') /\ Shaped(committed')
  BY DEF Returns, ParkInv, Shapes
<1>2. Shapes'
  BY <1>1 DEF Shapes, Shaped, StoresOf
<1>3. ~parked' /\ InCrank' /\ loop' # "idle"
  BY DEF Returns, ParkInv, ParkedMeansIdle, InCrank
<1> QED
  BY <1>2, <1>3 DEF ParkInv, ParkedMeansIdle

LEMMA ResolvingKeeps ==
    ASSUME Shaped(store), NEW m \in Messages, VatResolves(m)
    PROVE  store' \in StoresOf(store.queue)
BY DEF VatResolves, Shaped, StoresOf

(* Whatever the crank delivers, the loop is awake and the store a store.   *)
LEMMA DeliverKeeps == ASSUME ParkInv, WorkInv, Deliver PROVE ParkInv'
<1> USE DEF ParkInv, Shapes, WorkInv
<1>1. ASSUME NEW m \in Messages, DeliverSend(m) PROVE ParkInv'
  <2>1. store' \in StoresOf(store.queue)
    <3>1. CASE VatResolves(m)
      BY <3>1, ResolvingKeeps
    <3>2. CASE store' = [store EXCEPT !.deciding = @ \cup {m}]
      BY <3>2 DEF Shaped, StoresOf
    <3> QED
      BY <1>1, <3>1, <3>2 DEF DeliverSend
  <2>2. (\E v : Returns(v)) /\ arrivals' = arrivals
    BY <1>1 DEF DeliverSend
  <2> QED
    BY <2>1, <2>2, HasShape, DeliveryKeeps
<1>2. ASSUME NEW m \in Messages, DeliverLater(m) PROVE ParkInv'
  <2>1. store' \in StoresOf(store.queue)
    <3>1. CASE VatResolves(m)
      BY <3>1, ResolvingKeeps
    <3>2. CASE store' = store
      BY <3>2 DEF Shaped
    <3> QED
      BY <1>2, <3>1, <3>2 DEF DeliverLater
  <2>2. (\E v : Returns(v)) /\ arrivals' = arrivals
    BY <1>2 DEF DeliverLater
  <2> QED
    BY <2>1, <2>2, HasShape, DeliveryKeeps
<1>3. ASSUME NEW m \in Messages, Splat(m) PROVE ParkInv'
  <2>1. store' \in StoresOf(store.queue)
    BY <1>3 DEF Splat, RejectAtOnce, Shaped, StoresOf
  <2> QED
    BY <1>3, <2>1, HasShape, DeliveryKeeps DEF Splat
<1>4. ASSUME NEW m \in Messages, DeliverKernelServiceMessage(m) PROVE ParkInv'
  <2>1. store' \in StoresOf(store.queue)
    BY <1>4
    DEF DeliverKernelServiceMessage, RejectAtOnce, Shaped, StoresOf
  <2> QED
    BY <1>4, <2>1, HasShape, DeliveryKeeps DEF DeliverKernelServiceMessage
<1>5. CASE DeliverOther
  <2>1. (\E v : Returns(v)) /\ UNCHANGED <<arrivals, store>>
    BY <1>5 DEF DeliverOther
  <2> QED
    BY <2>1, DeliveryKeeps DEF Shaped
<1>6. CASE PerformVatRestart
  <2>1. store' \in StoresOf(store.queue)
    BY <1>6, WorkIsAsked DEF PerformVatRestart, Shaped, StoresOf
  <2>2. (\E v : Returns(v)) /\ arrivals' = arrivals
    BY <1>6 DEF PerformVatRestart
  <2> QED
    BY <2>1, <2>2, HasShape, DeliveryKeeps
<1>7. CASE PerformVatTermination
  <2> DEFINE carried == [store EXCEPT !.done = @ \cup taken]
  <2>1. carried \in StoresOf(store.queue)
    BY WorkIsAsked DEF Shaped, StoresOf
  <2>2. store' \in {carried, Retired(carried), Retired(store), store}
    BY <1>7 DEF PerformVatTermination
  <2>3. Shaped(store')
    <3> HIDE DEF carried
    <3> QED
      BY <2>1, <2>2, HasShape, RetiredKeeps
  <2>4. (\E v : Returns(v)) /\ arrivals' = arrivals
    BY <1>7 DEF PerformVatTermination
  <2> QED
    BY <2>3, <2>4, DeliveryKeeps
<1>8. ASSUME NEW c \in Callers, PerformControl(c) PROVE ParkInv'
  <2> DEFINE carried == [store EXCEPT !.done = @ \cup {c}]
             wiped == [EmptyStore EXCEPT !.vatDead = TRUE,
                                         !.resolved = store.resolved,
                                         !.done = store.done \cup {c}]
  <2>1. carried \in StoresOf(store.queue) /\ wiped \in StoresOf(<<>>)
    BY DEF Shaped, StoresOf, EmptyStore
  <2>2. store' \in {Retired(carried), wiped}
    BY <1>8 DEF PerformControl
  <2>3. Shaped(store')
    <3> HIDE DEF carried, wiped
    <3> QED
      BY <2>1, <2>2, HasShape, RetiredKeeps
  <2>4. Returns(Verdict) /\ arrivals' \in Nat
    BY <1>8 DEF PerformControl
  <2> QED
    BY <2>3, <2>4, DeliveryKeeps
<1> QED
  BY <1>1, <1>2, <1>3, <1>4, <1>5, <1>6, <1>7, <1>8 DEF Deliver

(* Whatever callers, peers and services do meanwhile.                      *)
LEMMA OutsideKeeps ==
    ASSUME ParkInv,
           \/ Ask
           \/ AcceptRemoteInbound
           \/ \E m \in Messages : ServiceReplies(m)
           \/ StopKernel
    PROVE  ParkInv'
<1> USE DEF ParkInv
<1>1. ASSUME NEW c \in Callers, Request(c) PROVE ParkInv'
  <2>1. CASE UNCHANGED <<parked, held, store, committed>>
    BY <1>1, <2>1
    DEF Request, arrivalVars, controlVars, crankVars, Shapes, Shaped,
        StoresOf, ParkedMeansIdle, InCrank
  <2>2. CASE InCrank /\ UNCHANGED <<parked, store, committed>>
    BY <1>1, <2>2
    DEF Request, arrivalVars, controlVars, crankVars, Shapes, Shaped,
        StoresOf, ParkedMeansIdle, InCrank
  <2>3. CASE /\ ~InCrank
             /\ \E f : WriteRequests(<<c>>, store, f)
             /\ parked' = IF store'.queue = <<>> THEN parked ELSE FALSE
             /\ UNCHANGED held
    <3>1. Shaped(store') /\ Shaped(committed') /\ store'.chore = store.chore
      BY <2>3, WriteKeeps
    <3>2. savepoint' = savepoint
      BY <1>1 DEF Request, crankVars
    <3>3. Shapes'
      BY <3>1, <3>2 DEF Shapes, Shaped, StoresOf
    <3>4. UNCHANGED <<loop, pc, arrivals, controls, ending>>
      BY <1>1 DEF Request, arrivalVars, controlVars
    <3> QED
      BY <2>3, <3>1, <3>3, <3>4 DEF ParkedMeansIdle, InCrank
  <2> QED
    BY <1>1, <2>1, <2>2, <2>3 DEF Request, callVars
<1>2. ASSUME NEW c \in Callers, EnqueueControl(c) PROVE ParkInv'
  BY <1>2
  DEF EnqueueControl, arrivalVars, callVars, crankVars, Shapes, Shaped,
      StoresOf, ParkedMeansIdle, InCrank
<1>3. ASSUME NEW c \in Callers, EndRunLoop(c) PROVE ParkInv'
  BY <1>3
  DEF EndRunLoop, arrivalVars, callVars, crankVars, Shapes, Shaped,
      StoresOf, ParkedMeansIdle, InCrank
<1>4. CASE AcceptRemoteInbound
  BY <1>4
  DEF AcceptRemoteInbound, callVars, crankVars, Shapes, Shaped, StoresOf,
      ParkedMeansIdle, InCrank
<1>5. ASSUME NEW m \in Messages, ServiceReplies(m) PROVE ParkInv'
  <2>1. store' \in StoresOf(store.queue) /\ store'.chore = store.chore
    <3>1. CASE store' = [store EXCEPT !.deciding = @ \ {m},
                                      !.resolved = @ \cup {m}]
      BY <3>1 DEF Shapes, Shaped, StoresOf
    <3>2. CASE store' = store
      BY <3>2 DEF Shapes, Shaped
    <3> QED
      BY <1>5, <3>1, <3>2 DEF ServiceReplies
  <2>2. Shaped(store') /\ store'.queue = store.queue
    BY <2>1, HasShape
  <2>3. committed' = committed \/ committed' = store'
    BY <1>5 DEF ServiceReplies
  <2>4. savepoint' = savepoint
    BY <1>5 DEF ServiceReplies, crankVars
  <2>5. Shapes'
    BY <2>2, <2>3, <2>4 DEF Shapes, Shaped, StoresOf
  <2> QED
    BY <1>5, <2>1, <2>2, <2>5
    DEF ServiceReplies, runVars, arrivalVars, controlVars, ParkedMeansIdle,
        InCrank
<1>6. CASE StopKernel
  BY <1>6
  DEF StopKernel, runVars, controlVars, crankVars, Shapes, Shaped, StoresOf,
      ParkedMeansIdle, InCrank
<1> QED
  BY <1>1, <1>2, <1>3, <1>4, <1>5, <1>6 DEF Ask

(* Taking an item, or finding none and going to sleep.                     *)
LEMMA TakeKeeps == ASSUME ParkInv, TakeItem PROVE ParkInv'
<1> USE DEF ParkInv
<1>1. /\ \E next : OpenCrank(next)
      /\ \/ Deliverable /\ arrivals' \in Nat
         \/ Sleep
      /\ store' = store \/ TakeChore \/ DequeueRun
  BY DEF TakeItem, TakeControl, TakeChore, TakeArrival, DequeueRun, Sleep,
         arrivalVars, ArrivalIsNext
<1>2. /\ pc = "top" /\ held = <<>> /\ ~parked
      /\ savepoint' = store /\ committed' = committed /\ held' = held
      /\ ending' = ending /\ (ending => controls # <<>>)
      /\ loop' # "idle"
  BY <1>1 DEF OpenCrank, InCrank, ParkedMeansIdle, callVars
<1>3. Shaped(store')
  <2>1. CASE TakeChore
    <3>1. store' \in StoresOf(store.queue)
      BY <2>1 DEF TakeChore, Shapes, Shaped, StoresOf
    <3> QED
      BY <3>1, HasShape
  <2>2. CASE DequeueRun
    <3>1. store' \in StoresOf(Tail(store.queue))
      BY <2>2 DEF DequeueRun, Shapes, Shaped, StoresOf
    <3> QED
      BY <3>1, HasShape
  <2> QED
    BY <1>1, <2>1, <2>2 DEF Shapes, Shaped
<1>4. Shapes'
  BY <1>2, <1>3 DEF Shapes, Shaped, StoresOf
<1>5. CASE Deliverable /\ arrivals' \in Nat
  BY <1>2, <1>4, <1>5 DEF Deliverable, InCrank, ParkedMeansIdle
<1>6. CASE Sleep
  BY <1>2, <1>4, <1>6 DEF Sleep, NoDuties, ArrivalIsNext, ParkedMeansIdle
<1> QED
  BY <1>1, <1>5, <1>6

(* The rest of the loop's turn.                                            *)
LEMMA TurnKeeps == ASSUME ParkInv, WorkInv, Turn PROVE ParkInv'
<1> USE DEF ParkInv
<1>1. CASE StartLoop \/ StopLoop \/ WakeUp \/ FinishTurn
  <2>1. /\ UNCHANGED <<parked, arrivalVars, controlVars, callVars, crankVars,
                       store, committed>>
        /\ ~InCrank /\ ~InCrank' /\ ~parked /\ loop' # "idle"
    <3>1. CASE StartLoop
      BY <3>1 DEF StartLoop, ParkedMeansIdle, InCrank
    <3>2. CASE StopLoop
      BY <3>2 DEF StopLoop, ParkedMeansIdle, InCrank
    <3>3. CASE WakeUp
      BY <3>3 DEF WakeUp, ParkedMeansIdle, InCrank
    <3>4. CASE FinishTurn
      BY <3>4 DEF FinishTurn, ParkedMeansIdle, InCrank
    <3> QED
      BY <1>1, <3>1, <3>2, <3>3, <3>4
  <2> QED
    BY <2>1
    DEF arrivalVars, controlVars, callVars, crankVars, Shapes, Shaped,
        StoresOf, ParkedMeansIdle, InCrank
<1>2. CASE TakeItem
  BY <1>2, TakeKeeps
<1>3. CASE Deliver
  BY <1>3, DeliverKeeps
<1>4. CASE ProcessCrankResult
  <2>1. store' = savepoint \/ store' = store
    BY <1>4 DEF ProcessCrankResult, RollbackCrank
  <2>2. UNCHANGED <<savepoint, committed, parked, arrivals>>
    BY <1>4 DEF ProcessCrankResult, arrivalVars
  <2>3. Shapes'
    BY <2>1, <2>2 DEF Shapes, Shaped, StoresOf
  <2> QED
    BY <1>4, <2>2, <2>3 DEF ProcessCrankResult, ParkedMeansIdle, InCrank
<1>5. CASE TerminateVat
  <2>1. Shaped(store')
    BY <1>5, RetiredKeeps DEF TerminateVat, Shapes
  <2>2. UNCHANGED <<savepoint, committed, parked, arrivals>>
    BY <1>5 DEF TerminateVat, arrivalVars
  <2>3. Shapes'
    BY <2>1, <2>2 DEF Shapes, Shaped, StoresOf
  <2> QED
    BY <1>5, <2>2, <2>3 DEF TerminateVat, ParkedMeansIdle, InCrank
<1>6. CASE CollectAndFlush
  <2>1. PICK queue : store' \in StoresOf(queue)
    BY <1>6 DEF CollectAndFlush, Shapes, Shaped, StoresOf
  <2>2. UNCHANGED <<savepoint, committed, parked, arrivals>>
    BY <1>6 DEF CollectAndFlush, arrivalVars
  <2>3. Shapes'
    BY <2>1, <2>2, HasShape DEF Shapes, Shaped, StoresOf
  <2> QED
    BY <1>6, <2>2, <2>3 DEF CollectAndFlush, ParkedMeansIdle, InCrank
<1>7. CASE EndCrank
  <2>1. Shaped(store') /\ Shaped(committed')
    BY <1>7, WriteKeeps DEF EndCrank
  <2>2. UNCHANGED <<savepoint, parked, arrivals>>
    BY <1>7 DEF EndCrank, arrivalVars
  <2>3. Shapes'
    BY <2>1, <2>2 DEF Shapes, Shaped, StoresOf
  <2> QED
    BY <1>7, <2>2, <2>3 DEF EndCrank, ParkedMeansIdle
<1> QED
  BY <1>1, <1>2, <1>3, <1>4, <1>5, <1>6, <1>7 DEF Turn

(* A death of the loop, or of the process.                                 *)
LEMMA FaultKeeps == ASSUME ParkInv, Fault PROVE ParkInv'
<1> USE DEF ParkInv, Shapes
<1>1. CASE CrankThrows
  BY <1>1, DeathKeeps DEF CrankThrows
<1>2. CASE TerminateThrows
  BY <1>2, DeathKeeps, RetiredKeeps DEF TerminateThrows
<1>3. CASE CommitFails
  BY <1>3, DeathKeeps DEF CommitFails
<1>4. CASE HeldWriteThrows
  <2>1. PICK before, f : FailRunLoop(Written(before, {}, store), f)
    BY <1>4 DEF HeldWriteThrows
  <2> QED
    BY <1>4, <2>1, WrittenKeeps, DeathKeeps DEF HeldWriteThrows
<1>5. CASE AfterCommitThrows
  BY <1>5, DeathKeeps DEF AfterCommitThrows
<1>6. CASE Crash
  <2>1. Shaped(store') /\ Shaped(committed') /\ Shaped(savepoint')
    BY <1>6, EmptyIsShaped DEF Crash
  <2>2. Shapes'
    BY <2>1 DEF Shaped, StoresOf
  <2> QED
    BY <1>6, <2>2 DEF Crash, ParkedMeansIdle
<1> QED
  BY <1>1, <1>2, <1>3, <1>4, <1>5, <1>6 DEF Fault

(* Every action takes waiters from their lists, adds its own caller to     *)
(* them, or leaves them.                                                   *)
LEMMA WaitersStayWork == ASSUME WorkInv, [Next]_vars PROVE WorkInv'
<1> USE DEF WorkInv
<1>1. CASE UNCHANGED <<atWork, taken>>
  BY <1>1
<1>2. CASE taken' = {} /\ atWork' \in {atWork, {}}
  BY <1>2
<1>3. ASSUME NEW c \in Callers, AwaitQueuedWork(c), taken' = taken
      PROVE  WorkInv'
  BY <1>3 DEF AwaitQueuedWork
<1>4. CASE \E next : OpenCrank(next)
  <2>1. PICK kind : TakeWaiters(kind)
    BY <1>4 DEF OpenCrank
  <2>2. taken' \subseteq atWork /\ atWork' \subseteq atWork
    BY <2>1 DEF TakeWaiters
  <2> QED
    BY <2>2
<1>5. CASE \E s, f : FailRunLoop(s, f)
  BY <1>2, <1>5 DEF FailRunLoop, workVars
<1>6. CASE Ask
  BY <1>1, <1>3, <1>6
  DEF Ask, Request, EnqueueControl, EndRunLoop, callVars, workVars, crankVars,
      replyVars
<1>7. CASE Deliver
  <2>1. ASSUME NEW m \in Messages,
               \/ DeliverSend(m) \/ DeliverLater(m) \/ Splat(m)
               \/ DeliverKernelServiceMessage(m)
        PROVE  UNCHANGED <<atWork, taken>>
    BY <2>1
    DEF DeliverSend, DeliverLater, Splat, DeliverKernelServiceMessage,
        callVars, workVars, replyVars
  <2>2. CASE DeliverOther \/ PerformVatRestart \/ PerformVatTermination
    BY <1>1, <2>2
    DEF DeliverOther, PerformVatRestart, PerformVatTermination,
        AnswerTermination, callVars, workVars, replyVars
  <2>3. ASSUME NEW c \in Callers, PerformControl(c) PROVE WorkInv'
    BY <2>3 DEF PerformControl, AbandonQueuedWork, workVars, replyVars
  <2> QED
    BY <1>1, <1>7, <2>1, <2>2, <2>3 DEF Deliver
<1>8. CASE TakeItem
  BY <1>4, <1>8
  DEF TakeItem, TakeControl, TakeChore, TakeArrival, DequeueRun, Sleep
<1>9. CASE Turn
  <2>1. CASE \/ StartLoop \/ StopLoop \/ WakeUp \/ ProcessCrankResult
             \/ TerminateVat \/ CollectAndFlush \/ FinishTurn
    BY <1>1, <2>1
    DEF StartLoop, StopLoop, WakeUp, ProcessCrankResult, TerminateVat,
        CollectAndFlush, FinishTurn, callVars, workVars, crankVars, replyVars
  <2>2. CASE EndCrank
    BY <1>2, <2>2 DEF EndCrank, workVars
  <2> QED
    BY <1>7, <1>8, <1>9, <2>1, <2>2 DEF Turn
<1>10. CASE Fault
  <2>1. CASE Crash
    BY <1>2, <2>1 DEF Crash, AbandonQueuedWork
  <2>2. CASE CrankThrows \/ TerminateThrows \/ CommitFails \/ HeldWriteThrows
             \/ AfterCommitThrows
    BY <1>5, <2>2
    DEF CrankThrows, TerminateThrows, CommitFails, HeldWriteThrows,
        AfterCommitThrows
  <2> QED
    BY <1>10, <2>1, <2>2 DEF Fault
<1>11. CASE AcceptRemoteInbound \/ \E m \in Messages : ServiceReplies(m)
  BY <1>1, <1>11
  DEF AcceptRemoteInbound, ServiceReplies, callVars, workVars, crankVars,
      replyVars
<1>12. CASE StopKernel
  BY <1>12 DEF StopKernel, AbandonQueuedWork, crankVars, replyVars
<1>13. CASE UNCHANGED vars
  BY <1>1, <1>13 DEF vars, callVars, workVars, crankVars, replyVars
<1> QED
  BY <1>6, <1>9, <1>10, <1>11, <1>12, <1>13 DEF Next

LEMMA ParkedInitially == Init => ParkInv /\ WorkInv
<1> SUFFICES ASSUME Init PROVE ParkInv /\ WorkInv
  OBVIOUS
<1>1. Shapes
  BY EmptyIsShaped DEF Init, Shapes
<1> QED
  BY <1>1 DEF Init, ParkInv, WorkInv, ParkedMeansIdle

LEMMA NextParked ==
    ASSUME ParkInv, WorkInv, [Next]_vars PROVE (ParkInv /\ WorkInv)'
<1>1. CASE Next
  <2>1. ParkInv'
    BY <1>1, OutsideKeeps, TurnKeeps, FaultKeeps DEF Next
  <2> QED
    BY <2>1, WaitersStayWork
<1>2. CASE UNCHANGED vars
  BY <1>2, WaitersStayWork
  DEF vars, runVars, arrivalVars, controlVars, callVars, crankVars, ParkInv,
      Shapes, Shaped, StoresOf, ParkedMeansIdle, InCrank
<1> QED
  BY <1>1, <1>2, WaitersStayWork

(* The loop is never left asleep, its wake-up spent, with work waiting.    *)
THEOREM NoWakeUpIsLost == Spec => []ParkedMeansIdle
<1>1. ParkInv /\ WorkInv /\ [Next]_vars => (ParkInv /\ WorkInv)'
  BY NextParked
<1>2. ParkInv => ParkedMeansIdle
  BY DEF ParkInv
<1> QED
  BY <1>1, <1>2, ParkedInitially, PTL DEF Spec

-----------------------------------------------------------------------------
(* Types.                                                                  *)

Fates == {"unasked", "waiting", "answered", "refused", "splat", "gone"}

LEMMA TellType ==
    ASSUME NEW f \in [Callers -> Fates], NEW who, NEW what \in Fates
    PROVE  Tell(f, who, what) \in [Callers -> Fates]
BY DEF Tell

LEMMA VerdictTypes ==
    /\ Verdict \in VerdictType
    /\ VatVerdicts \subseteq VerdictType
    /\ [Verdict EXCEPT !.afterCommit = TRUE] \in VerdictType
    /\ [Verdict EXCEPT !.abort = TRUE] \in VerdictType
    /\ [Verdict EXCEPT !.irrevocable = TRUE] \in VerdictType
    /\ [Verdict EXCEPT !.abort = TRUE, !.terminate = TRUE] \in VerdictType
    /\ [Verdict EXCEPT !.afterCommit = TRUE, !.reply = "refused"] \in VerdictType
<1>1. Verdict \in VerdictType
  BY DEF Verdict, VerdictType
<1>2. ASSUME NEW v \in VerdictType
      PROVE  /\ [v EXCEPT !.afterCommit = TRUE] \in VerdictType
             /\ [v EXCEPT !.abort = TRUE] \in VerdictType
             /\ [v EXCEPT !.irrevocable = TRUE] \in VerdictType
             /\ [v EXCEPT !.terminate = TRUE] \in VerdictType
             /\ [v EXCEPT !.abort = TRUE, !.terminate = TRUE] \in VerdictType
             /\ [v EXCEPT !.afterCommit = TRUE, !.reply = "refused"]
                   \in VerdictType
  BY DEF VerdictType
<1> QED
  BY <1>1, <1>2 DEF VatVerdicts

LEMMA StoreFields ==
    ASSUME NEW s \in StoreType
    PROVE  /\ s.queue \in Seq(ItemType) /\ s.chore \in BOOLEAN
           /\ s.deciding \subseteq Messages /\ s.resolved \subseteq Messages
           /\ s.done \subseteq Callers /\ s.vatDead \in BOOLEAN
BY DEF StoreType

LEMMA EmptyStoreType == EmptyStore \in StoreType
<1>1. <<>> \in Seq(ItemType)
  OBVIOUS
<1> QED
  BY <1>1 DEF EmptyStore, StoreType

LEMMA KindsApart ==
    /\ Messages \cap Work = {} /\ Messages \cap OfKind("write") = {}
    /\ Work \cap OfKind("write") = {}
    /\ Messages \subseteq Callers /\ Work \subseteq Callers
    /\ Requests \subseteq Callers
    /\ OfKind("message") \subseteq Messages /\ OfKind("service") \subseteq Messages
    /\ OfKind("restart") \subseteq Work /\ OfKind("terminate") \subseteq Work
BY DEF Messages, Work, Requests, OfKind

LEMMA QueuedItemType ==
    ASSUME NEW c \in Requests, Kind[c] # "write"
    PROVE  /\ QueuedItem(c) \in ItemType
           /\ QueuedItem(c).who = c /\ QueuedItem(c).kind # "later"
BY DEF QueuedItem, Item, ItemType, Requests, Messages, Work, OfKind

(* What is written down of requests: an item each, in their order, of some *)
(* of them.                                                                *)
LEMMA ToQueueType ==
    ASSUME NEW requests \in Seq(Requests), NEW missing
    PROVE  /\ ToQueue(requests, missing) \in Seq(ItemType)
           /\ \E at \in [1 .. Len(ToQueue(requests, missing))
                            -> 1 .. Len(requests)] :
                 /\ \A i, j \in 1 .. Len(ToQueue(requests, missing)) :
                       at[i] = at[j] => i = j
                 /\ \A i \in 1 .. Len(ToQueue(requests, missing)) :
                       /\ ToQueue(requests, missing)[i] =
                             QueuedItem(requests[at[i]])
                       /\ Kind[requests[at[i]]] # "write"
                       /\ requests[at[i]] \notin missing
<1> DEFINE S == {i \in DOMAIN requests :
                    Kind[requests[i]] # "write" /\ requests[i] \notin missing}
           q == ToQueue(requests, missing)
           kept == InOrder(S)
           n == Cardinality(S)
<1>1. Len(requests) \in Nat /\ S \in SUBSET (1 .. Len(requests))
  OBVIOUS
<1>2. /\ kept \in [1 .. n -> S]
      /\ \A i, j \in 1 .. n : kept[i] = kept[j] => i = j
      /\ n \in Nat
  <2> HIDE DEF S
  <2> QED
    BY <1>1, InOrderOrders
<1>3. q = [i \in DOMAIN kept |-> QueuedItem(requests[kept[i]])]
  BY DEF ToQueue
<1>4. \A i \in S : /\ requests[i] \in Requests /\ Kind[requests[i]] # "write"
                   /\ requests[i] \notin missing
  OBVIOUS
<1> HIDE DEF S, q, kept, n
<1>5. q = [i \in 1 .. n |-> QueuedItem(requests[kept[i]])]
  BY <1>2, <1>3
<1>6. \A i \in 1 .. n : QueuedItem(requests[kept[i]]) \in ItemType
  BY <1>2, <1>4, QueuedItemType
<1>7. q \in Seq(ItemType) /\ Len(q) = n
  BY <1>2, <1>5, <1>6
<1>8. kept \in [1 .. Len(q) -> 1 .. Len(requests)]
  BY <1>1, <1>2, <1>7
<1>9. \A i, j \in 1 .. Len(q) : kept[i] = kept[j] => i = j
  BY <1>2, <1>7
<1>10. ASSUME NEW i \in 1 .. Len(q)
       PROVE  /\ q[i] = QueuedItem(requests[kept[i]])
              /\ Kind[requests[kept[i]]] # "write"
              /\ requests[kept[i]] \notin missing
  <2>1. i \in 1 .. n
    BY <1>7
  <2>2. kept[i] \in S
    BY <1>2, <2>1
  <2> QED
    BY <1>4, <1>5, <2>1, <2>2
<1>11. \E at \in [1 .. Len(q) -> 1 .. Len(requests)] :
          /\ \A i, j \in 1 .. Len(q) : at[i] = at[j] => i = j
          /\ \A i \in 1 .. Len(q) : /\ q[i] = QueuedItem(requests[at[i]])
                                   /\ Kind[requests[at[i]]] # "write"
                                   /\ requests[at[i]] \notin missing
  BY <1>8, <1>9, <1>10, Zenon
<1> QED
  BY <1>7, <1>11 DEF q

LEMMA WrittenType ==
    ASSUME NEW requests \in Seq(Requests), NEW missing, NEW s \in StoreType
    PROVE  Written(requests, missing, s) \in StoreType
<1>1. s.queue \o ToQueue(requests, missing) \in Seq(ItemType)
  BY ToQueueType, StoreFields
<1>2. s.done \cup (Elements(requests) \cap OfKind("write")) \subseteq Callers
  BY StoreFields DEF OfKind
<1> QED
  BY <1>1, <1>2 DEF Written, StoreType

LEMMA RetiredType ==
    ASSUME NEW s \in StoreType, store \in StoreType
    PROVE  Retired(s) \in StoreType
<1>1. Decided \subseteq Messages
  BY StoreFields DEF Decided
<1> QED
  BY <1>1 DEF Retired, StoreType

LEMMA TypesInitially == Init => TypeOK
<1> SUFFICES ASSUME Init PROVE TypeOK
  OBVIOUS
<1>1. store \in StoreType /\ savepoint \in StoreType /\ committed \in StoreType
  BY EmptyStoreType DEF Init
<1>2. NobodyDue \in [answered : SUBSET OfKind("terminate"),
                     refused : SUBSET Work]
  BY DEF NobodyDue
<1>3. NoItem \in ItemsType
  BY DEF NoItem, Item, ItemsType
<1>4. /\ <<>> \in Seq(OfKind("control")) /\ <<>> \in Seq(Requests)
      /\ <<>> \in Seq(ItemType)
  OBVIOUS
<1>5. arrivals \in 0 .. MaxArrivals /\ crashes \in 0 .. MaxCrashes
  BY BoundsAssumption DEF Init
<1>6. told \in [Callers -> Fates]
  BY DEF Init, Fates
<1> QED
  BY <1>1, <1>2, <1>3, <1>4, <1>5, <1>6, VerdictTypes DEF Init, TypeOK, Fates

LEMMA NothingsTypes ==
    /\ NobodyDue \in [answered : SUBSET OfKind("terminate"),
                      refused : SUBSET Work]
    /\ NoItem \in ItemsType
BY DEF NobodyDue, NoItem, Item, ItemsType

LEMMA DeathTypes ==
    ASSUME TypeOK, NEW s \in StoreType, NEW f \in [Callers -> Fates],
           FailRunLoop(s, f)
    PROVE  TypeOK'
<1>1. told' \in [Callers -> Fates]
  <2>1. \A c \in Callers : f[c] \in Fates
    OBVIOUS
  <2> QED
    BY <2>1 DEF FailRunLoop, Fates
<1> QED
  BY <1>1, NothingsTypes
  DEF TypeOK, FailRunLoop, arrivalVars, workVars, Fates

LEMMA ToldTypes == ASSUME TypeOK PROVE told \in [Callers -> Fates]
BY DEF TypeOK, Fates

LEMMA WriteTypes ==
    ASSUME TypeOK, NEW requests \in Seq(Requests),
           NEW f \in [Callers -> Fates], WriteRequests(requests, store, f)
    PROVE  /\ store' \in StoreType /\ committed' \in StoreType
           /\ subscriptions' \subseteq Messages
           /\ told' \in [Callers -> Fates]
<1>1. store \in StoreType
  BY DEF TypeOK
<1>2. PICK missing :
        /\ store' = Written(requests, missing, store)
        /\ committed' = store'
        /\ subscriptions' = subscriptions \cup
               ((Elements(requests) \cap Messages) \ missing)
        /\ told' = Tell(Tell(f, Elements(requests) \cap OfKind("write"),
                             "answered"),
                        missing, "refused")
  BY DEF WriteRequests
<1>3. store' \in StoreType
  BY <1>1, <1>2, WrittenType
<1>4. told' \in [Callers -> Fates]
  <2>1. "answered" \in Fates /\ "refused" \in Fates
    BY DEF Fates
  <2> QED
    BY <1>2, <2>1, TellType
<1> QED
  BY <1>2, <1>3, <1>4 DEF TypeOK

LEMMA OutsideTypes ==
    ASSUME TypeOK,
           \/ Ask
           \/ AcceptRemoteInbound
           \/ \E m \in Messages : ServiceReplies(m)
           \/ StopKernel
    PROVE  TypeOK'
<1>1. ASSUME NEW c \in Callers, Request(c) PROVE TypeOK'
  <2>1. c \in Requests /\ <<c>> \in Seq(Requests)
    BY <1>1 DEF Request
  <2>2. /\ [told EXCEPT ![c] = "waiting"] \in [Callers -> Fates]
        /\ [told EXCEPT ![c] = "refused"] \in [Callers -> Fates]
    BY ToldTypes DEF Fates
  <2>3. /\ store' \in StoreType /\ committed' \in StoreType
        /\ subscriptions' \subseteq Messages
        /\ told' \in [Callers -> Fates]
    <3>1. CASE WriteRequests(<<c>>, store, [told EXCEPT ![c] = "waiting"])
      BY <2>1, <2>2, <3>1, WriteTypes
    <3>2. CASE /\ UNCHANGED <<subscriptions, store, committed>>
               /\ told' \in {[told EXCEPT ![c] = "waiting"],
                             [told EXCEPT ![c] = "refused"]}
      BY <2>2, <3>2 DEF TypeOK
    <3> QED
      BY <1>1, <3>1, <3>2 DEF Request, callVars
  <2>4. held' \in Seq(Requests) /\ parked' \in BOOLEAN
    <3>1. held \in Seq(Requests) /\ parked \in BOOLEAN
      BY DEF TypeOK
    <3>2. held' = held \/ held' = Append(held, c)
      BY <1>1 DEF Request, callVars
    <3>3. parked' = parked \/ parked' = FALSE
      BY <1>1 DEF Request
    <3>4. held' \in Seq(Requests)
      BY <2>1, <3>1, <3>2
    <3> QED
      BY <3>1, <3>3, <3>4
  <2>5. /\ superseded' \in SUBSET OfKind("restart")
        /\ atWork' \in SUBSET Work /\ pendingTerminations' \in Nat
    <3>1. CASE UNCHANGED workVars
      BY <3>1 DEF TypeOK, workVars
    <3>2. CASE AwaitQueuedWork(c)
      <4>1. /\ superseded \in SUBSET OfKind("restart")
            /\ atWork \in SUBSET Work /\ pendingTerminations \in Nat
        BY DEF TypeOK
      <4>2. pendingTerminations' \in Nat
        BY <3>2, <4>1 DEF AwaitQueuedWork
      <4>3. atWork' \in SUBSET Work
        BY <3>2, <4>1 DEF AwaitQueuedWork
      <4>4. superseded' \in SUBSET OfKind("restart")
        BY <3>2, <4>1 DEF AwaitQueuedWork, Overtaken, OfKind
      <4> QED
        BY <4>2, <4>3, <4>4
    <3> QED
      BY <1>1, <3>1, <3>2 DEF Request, callVars
  <2> QED
    BY <1>1, <2>3, <2>4, <2>5
    DEF Request, TypeOK, arrivalVars, controlVars, crankVars, replyVars, Fates
<1>2. ASSUME NEW c \in Callers, EnqueueControl(c) PROVE TypeOK'
  <2>1. c \in OfKind("control")
    BY <1>2 DEF EnqueueControl, OfKind
  <2>2. controls' \in Seq(OfKind("control"))
    <3>1. controls \in Seq(OfKind("control"))
      BY DEF TypeOK
    <3>2. controls' \in {controls, Append(controls, c)}
      BY <1>2 DEF EnqueueControl
    <3> QED
      BY <2>1, <3>1, <3>2
  <2>3. told' \in [Callers -> Fates]
    BY <1>2, ToldTypes DEF EnqueueControl, Fates
  <2> QED
    BY <1>2, <2>2, <2>3, ZenonT(60)
    DEF EnqueueControl, TypeOK, arrivalVars, callVars, workVars, crankVars,
        replyVars, Fates
<1>3. ASSUME NEW c \in Callers, EndRunLoop(c) PROVE TypeOK'
  BY <1>3
  DEF EndRunLoop, TypeOK, arrivalVars, callVars, workVars, crankVars,
      replyVars
<1>4. CASE AcceptRemoteInbound
  <2>1. arrivals' \in 0 .. MaxArrivals
    BY <1>4, BoundsAssumption DEF AcceptRemoteInbound, TypeOK
  <2> QED
    BY <1>4, <2>1, ZenonT(60)
    DEF AcceptRemoteInbound, TypeOK, controlVars, callVars, workVars,
        crankVars, replyVars
<1>5. ASSUME NEW m \in Messages, ServiceReplies(m) PROVE TypeOK'
  <2>1. store' \in StoreType
    <3>1. store \in StoreType
      BY DEF TypeOK
    <3>2. [store EXCEPT !.deciding = @ \ {m}, !.resolved = @ \cup {m}]
             \in StoreType
      BY <3>1 DEF StoreType
    <3> QED
      BY <1>5, <3>1, <3>2 DEF ServiceReplies
  <2>2. told' \in [Callers -> Fates]
    <3>1. "answered" \in Fates
      BY DEF Fates
    <3>2. \/ told' = told
          \/ told' = Tell(told, {m} \cap subscriptions, "answered")
      BY <1>5 DEF ServiceReplies
    <3> QED
      BY <3>1, <3>2, ToldTypes, TellType
  <2> QED
    BY <1>5, <2>1, <2>2, ZenonT(60)
    DEF ServiceReplies, TypeOK, runVars, arrivalVars, controlVars, workVars,
        crankVars, replyVars, Fates
<1>6. CASE StopKernel
  <2>1. told' \in [Callers -> Fates]
    BY <1>6, ToldTypes, TellType DEF StopKernel, Fates
  <2>2. arrivals' \in 0 .. MaxArrivals
    BY <1>6, BoundsAssumption DEF StopKernel
  <2> QED
    BY <1>6, <2>1, <2>2, ZenonT(60)
    DEF StopKernel, TypeOK, runVars, controlVars, crankVars, replyVars,
        AbandonQueuedWork, Fates
<1> QED
  BY <1>1, <1>2, <1>3, <1>4, <1>5, <1>6 DEF Ask

LEMMA TakeTypes == ASSUME TypeOK, TakeItem PROVE TypeOK'
<1>1. /\ store' \in StoreType /\ item' \in ItemsType
      /\ controls' \in Seq(OfKind("control"))
      /\ controlInFlight' \in OfKind("control") \cup {NoOne}
      /\ arrivals' \in 0 .. MaxArrivals /\ tookArrivalLast' \in BOOLEAN
      /\ pc' \in {"delivering", "asleep"} /\ parked' \in BOOLEAN
  <2>1. CASE TakeControl
    <3>1. Head(controls) \in OfKind("control")
      BY <2>1 DEF TakeControl, TypeOK
    <3> QED
      BY <2>1, <3>1
      DEF TakeControl, OpenCrank, Deliverable, Item, ItemsType, TypeOK,
          arrivalVars
  <2>2. CASE TakeChore
    <3>1. store' \in StoreType
      BY <2>2 DEF TakeChore, TypeOK, StoreType
    <3> QED
      BY <2>2, <3>1
      DEF TakeChore, OpenCrank, Deliverable, Item, ItemsType, TypeOK,
          arrivalVars
  <2>3. CASE TakeArrival
    BY <2>3, BoundsAssumption
    DEF TakeArrival, ArrivalIsNext, OpenCrank, Deliverable, Item, ItemsType,
        TypeOK
  <2>4. CASE DequeueRun
    <3>1. store.queue \in Seq(ItemType) /\ store.queue # <<>>
      BY <2>4, StoreFields DEF DequeueRun, TypeOK
    <3>2. Head(store.queue) \in ItemType /\ Tail(store.queue) \in Seq(ItemType)
      BY <3>1
    <3>3. store' \in StoreType
      BY <2>4, <3>2 DEF DequeueRun, TypeOK, StoreType
    <3> QED
      BY <2>4, <3>2, <3>3 DEF DequeueRun, OpenCrank, Deliverable, ItemsType,
                              TypeOK
  <2>5. CASE Sleep
    BY <2>5, NothingsTypes DEF Sleep, OpenCrank, TypeOK
  <2> QED
    BY <2>1, <2>2, <2>3, <2>4, <2>5 DEF TakeItem
<1>2. PICK next : OpenCrank(next)
  BY DEF TakeItem, TakeControl, TakeChore, TakeArrival, DequeueRun, Sleep
<1>3. taken' \in SUBSET (Work \cap OfKind(item'.kind)) /\ atWork' \in SUBSET Work
  BY <1>2 DEF OpenCrank, TakeWaiters, TypeOK
<1> QED
  BY <1>1, <1>2, <1>3, VerdictTypes DEF OpenCrank, TypeOK

LEMMA ReturnsTypes ==
    ASSUME TypeOK, NEW v \in VerdictType, Returns(v)
    PROVE  /\ verdict' \in VerdictType /\ pc' = "delivered"
           /\ UNCHANGED <<loop, parked, tookArrivalLast, controlVars,
                          rollbackAllowed, item, savepoint, committed, crashes>>
BY DEF Returns

(* What a delivery may change, and what else it leaves alone.              *)
LEMMA DeliveryTypes ==
    ASSUME TypeOK, NEW v \in VerdictType, Returns(v),
           store' \in StoreType, arrivals' \in 0 .. MaxArrivals,
           held' \in Seq(Requests), buffer' \in Seq(ItemType),
           subscriptions' \in SUBSET Messages, resolvedNow' \in SUBSET Messages,
           atWork' \in SUBSET Work, superseded' \in SUBSET OfKind("restart"),
           pendingTerminations' \in Nat, taken' = taken,
           due' \in [answered : SUBSET OfKind("terminate"),
                     refused : SUBSET Work],
           serving' \in SUBSET OfKind("service"), told' \in [Callers -> Fates]
    PROVE  TypeOK'
BY ReturnsTypes DEF TypeOK, controlVars, Fates

LEMMA ResolvesTypes ==
    ASSUME TypeOK, NEW m \in Messages, VatResolves(m)
    PROVE  /\ store' \in StoreType /\ resolvedNow' \in SUBSET Messages
           /\ buffer' \in Seq(ItemType)
<1>1. store \in StoreType
  BY DEF TypeOK
<1>2. store' \in StoreType
  BY <1>1 DEF VatResolves, StoreType
<1> QED
  BY <1>2 DEF VatResolves, TypeOK

LEMMA RejectTypes ==
    ASSUME TypeOK, NEW m \in Messages, RejectAtOnce(m)
    PROVE  /\ store' \in StoreType /\ subscriptions' \in SUBSET Messages
           /\ told' \in [Callers -> Fates]
<1>1. store \in StoreType
  BY DEF TypeOK
<1>2. store' \in StoreType
  BY <1>1 DEF RejectAtOnce, StoreType
<1>3. told' \in [Callers -> Fates]
  <2>1. "splat" \in Fates
    BY DEF Fates
  <2> QED
    BY <2>1, ToldTypes, TellType DEF RejectAtOnce
<1> QED
  BY <1>2, <1>3 DEF RejectAtOnce, TypeOK

LEMMA TellDecidedTypes ==
    ASSUME TypeOK, NEW what \in Fates, TellDecided(what)
    PROVE  told' \in [Callers -> Fates] /\ subscriptions' \in SUBSET Messages
<1>1. told' \in [Callers -> Fates]
  BY ToldTypes, TellType DEF TellDecided
<1> QED
  BY <1>1 DEF TellDecided, TypeOK

LEMMA AnswerTypes ==
    ASSUME TypeOK, item.kind = "terminate", NEW reply, AnswerTermination(reply)
    PROVE  /\ pendingTerminations' \in Nat /\ held' \in Seq(Requests)
           /\ atWork' \in SUBSET Work /\ superseded' \in SUBSET OfKind("restart")
           /\ due' \in [answered : SUBSET OfKind("terminate"),
                        refused : SUBSET Work]
<1>1. pendingTerminations' \in Nat
  BY DEF AnswerTermination, TypeOK
<1>2. /\ taken \subseteq Work /\ superseded \subseteq Work
      /\ taken \subseteq OfKind("terminate")
  BY KindsApart DEF TypeOK
<1>3. due' \in [answered : SUBSET OfKind("terminate"),
                refused : SUBSET Work]
  BY <1>2 DEF AnswerTermination
<1> QED
  BY <1>1, <1>3 DEF AnswerTermination, TypeOK

LEMMA DeliverTypes == ASSUME TypeOK, Deliver PROVE TypeOK'
<1>1. /\ store \in StoreType /\ buffer \in Seq(ItemType)
      /\ serving \in SUBSET OfKind("service") /\ subscriptions \in SUBSET Messages
      /\ resolvedNow \in SUBSET Messages /\ arrivals \in 0 .. MaxArrivals
      /\ held \in Seq(Requests) /\ atWork \in SUBSET Work
      /\ superseded \in SUBSET OfKind("restart") /\ pendingTerminations \in Nat
      /\ due \in [answered : SUBSET OfKind("terminate"), refused : SUBSET Work]
      /\ taken \in SUBSET (Work \cap OfKind(item.kind))
  BY DEF TypeOK
<1>2. told \in [Callers -> Fates]
  BY ToldTypes
<1>3. ASSUME NEW m \in Messages, DeliverSend(m) PROVE TypeOK'
  <2>1. PICK v \in VerdictType : Returns(v)
    BY <1>3, VerdictTypes DEF DeliverSend
  <2>2. /\ store' \in StoreType /\ resolvedNow' \in SUBSET Messages
        /\ buffer' \in Seq(ItemType)
    <3>1. CASE VatResolves(m)
      BY <3>1, ResolvesTypes
    <3>2. CASE /\ store' = [store EXCEPT !.deciding = @ \cup {m}]
               /\ buffer' = Append(buffer, Item("later", m))
               /\ UNCHANGED resolvedNow
      <4>1. store' \in StoreType
        BY <1>1, <3>2 DEF StoreType
      <4>2. Item("later", m) \in ItemType
        BY <1>3 DEF DeliverSend, Item, ItemType, OfKind, Messages
      <4> QED
        BY <1>1, <3>2, <4>1, <4>2
    <3> QED
      BY <1>3, <3>1, <3>2 DEF DeliverSend
  <2> QED
    BY <1>1, <1>2, <1>3, <2>1, <2>2, DeliveryTypes
    DEF DeliverSend, callVars, workVars, replyVars
<1>4. ASSUME NEW m \in Messages, DeliverLater(m) PROVE TypeOK'
  <2>1. PICK v \in VerdictType : Returns(v)
    BY <1>4, VerdictTypes DEF DeliverLater
  <2>2. /\ store' \in StoreType /\ resolvedNow' \in SUBSET Messages
        /\ buffer' \in Seq(ItemType)
    BY <1>1, <1>4, ResolvesTypes DEF DeliverLater
  <2> QED
    BY <1>1, <1>2, <1>4, <2>1, <2>2, DeliveryTypes
    DEF DeliverLater, callVars, workVars, replyVars
<1>5. ASSUME NEW m \in Messages, Splat(m) PROVE TypeOK'
  BY <1>1, <1>5, VerdictTypes, RejectTypes, DeliveryTypes
  DEF Splat, workVars, replyVars
<1>6. ASSUME NEW m \in Messages, DeliverKernelServiceMessage(m) PROVE TypeOK'
  <2>1. /\ store' \in StoreType /\ subscriptions' \in SUBSET Messages
        /\ told' \in [Callers -> Fates] /\ serving' \in SUBSET OfKind("service")
    <3>1. CASE RejectAtOnce(m) /\ UNCHANGED serving
      BY <1>1, <3>1, RejectTypes
    <3>2. CASE /\ serving' = serving \cup {m}
               /\ store' = [store EXCEPT !.deciding = @ \cup {m}]
               /\ UNCHANGED <<told, subscriptions>>
      <4>1. store' \in StoreType
        BY <1>1, <3>2 DEF StoreType
      <4>2. m \in OfKind("service")
        BY <1>6, KindsApart DEF DeliverKernelServiceMessage, OfKind
      <4> QED
        BY <1>1, <1>2, <3>2, <4>1, <4>2
    <3> QED
      BY <1>6, <3>1, <3>2 DEF DeliverKernelServiceMessage
  <2> QED
    BY <1>1, <1>6, <2>1, VerdictTypes, DeliveryTypes
    DEF DeliverKernelServiceMessage, workVars, replyVars
<1>7. CASE DeliverOther
  <2>1. PICK v \in VerdictType : Returns(v)
    BY <1>7, VerdictTypes DEF DeliverOther
  <2> QED
    BY <1>1, <1>2, <1>7, <2>1, DeliveryTypes
    DEF DeliverOther, callVars, workVars, replyVars
<1>8. CASE PerformVatRestart
  <2>1. PICK v \in VerdictType : Returns(v)
    BY <1>8, VerdictTypes DEF PerformVatRestart
  <2>2. store' \in StoreType
    <3>1. [store EXCEPT !.done = @ \cup taken] \in StoreType
      BY <1>1, KindsApart DEF StoreType
    <3> QED
      BY <1>1, <1>8, <3>1 DEF PerformVatRestart
  <2>3. due' \in [answered : SUBSET OfKind("terminate"), refused : SUBSET Work]
    <3>1. [due EXCEPT !.refused = taken]
            \in [answered : SUBSET OfKind("terminate"), refused : SUBSET Work]
      BY <1>1
    <3> QED
      BY <1>1, <1>8, <3>1 DEF PerformVatRestart
  <2> QED
    BY <1>1, <1>2, <1>8, <2>1, <2>2, <2>3, DeliveryTypes
    DEF PerformVatRestart, callVars, workVars
<1>9. CASE PerformVatTermination
  <2>1. PICK v \in VerdictType : Returns(v)
    BY <1>9, VerdictTypes DEF PerformVatTermination
  <2>2. store' \in StoreType
    <3> DEFINE carried == [store EXCEPT !.done = @ \cup taken]
    <3>1. carried \in StoreType
      BY <1>1, KindsApart DEF StoreType
    <3>2. store' \in {carried, Retired(carried), Retired(store), store}
      BY <1>9 DEF PerformVatTermination
    <3> HIDE DEF carried
    <3> QED
      BY <1>1, <3>1, <3>2, RetiredType
  <2>3. told' \in [Callers -> Fates] /\ subscriptions' \in SUBSET Messages
    <3>1. "answered" \in Fates
      BY DEF Fates
    <3>2. TellDecided("answered") \/ UNCHANGED <<told, subscriptions>>
      BY <1>9 DEF PerformVatTermination
    <3> QED
      BY <1>1, <1>2, <3>1, <3>2, TellDecidedTypes
  <2>4. PICK reply : AnswerTermination(reply)
    BY <1>9 DEF PerformVatTermination
  <2>5. item.kind = "terminate" /\ UNCHANGED <<arrivals, taken, buffer,
                                               resolvedNow, serving>>
    BY <1>9 DEF PerformVatTermination
  <2> QED
    BY <1>1, <2>1, <2>2, <2>3, <2>4, <2>5, AnswerTypes, DeliveryTypes
<1>10. ASSUME NEW c \in Callers, PerformControl(c) PROVE TypeOK'
  <2>1. store' \in StoreType
    <3> DEFINE carried == [store EXCEPT !.done = @ \cup {c}]
               wiped == [EmptyStore EXCEPT !.vatDead = TRUE,
                                           !.resolved = store.resolved,
                                           !.done = store.done \cup {c}]
    <3>1. carried \in StoreType
      BY <1>1 DEF StoreType
    <3>2. wiped \in StoreType
      BY <1>1, EmptyStoreType DEF StoreType
    <3>3. store' \in {Retired(carried), wiped}
      BY <1>10 DEF PerformControl
    <3> HIDE DEF carried, wiped
    <3> QED
      BY <1>1, <3>1, <3>2, <3>3, RetiredType
  <2>2. /\ told' \in [Callers -> Fates] /\ subscriptions' \in SUBSET Messages
        /\ arrivals' \in 0 .. MaxArrivals /\ held' \in Seq(Requests)
        /\ atWork' \in SUBSET Work /\ superseded' \in SUBSET OfKind("restart")
        /\ pendingTerminations' \in Nat /\ resolvedNow' \in SUBSET Messages
    <3>1. "splat" \in Fates /\ "refused" \in Fates
      BY DEF Fates
    <3>2. CASE TellDecided("splat")
               /\ UNCHANGED <<arrivals, held, workVars, resolvedNow>>
      BY <1>1, <3>1, <3>2, TellDecidedTypes DEF workVars
    <3>3. CASE /\ \E who : told' = Tell(told, who, "refused")
               /\ arrivals' = 0 /\ held' = <<>> /\ subscriptions' = {}
               /\ AbandonQueuedWork /\ resolvedNow' = {}
      <4>1. told' \in [Callers -> Fates]
        BY <1>2, <3>1, <3>3, TellType
      <4>2. arrivals' \in 0 .. MaxArrivals
        BY <3>3, BoundsAssumption
      <4> QED
        BY <3>3, <4>1, <4>2 DEF AbandonQueuedWork
    <3> QED
      BY <1>10, <3>2, <3>3 DEF PerformControl
  <2> QED
    BY <1>1, <1>10, <2>1, <2>2, VerdictTypes, DeliveryTypes
    DEF PerformControl, replyVars
<1> QED
  BY <1>3, <1>4, <1>5, <1>6, <1>7, <1>8, <1>9, <1>10 DEF Deliver

LEMMA FinishedType ==
    ASSUME TypeOK PROVE TellFinished \in [Callers -> Fates]
<1>1. /\ verdict.reply \in Fates /\ "answered" \in Fates /\ "refused" \in Fates
  BY DEF TypeOK, VerdictType, Fates
<1>2. TellDue(told) \in [Callers -> Fates]
  BY <1>1, ToldTypes, TellType DEF TellDue
<1> QED
  BY <1>1, <1>2, TellType DEF TellFinished

LEMMA TurnTypes == ASSUME TypeOK, Turn PROVE TypeOK'
<1>1. store \in StoreType /\ savepoint \in StoreType
  BY DEF TypeOK
<1>2. "answered" \in Fates /\ "refused" \in Fates
  BY DEF Fates
<1>3. CASE StartLoop \/ WakeUp \/ FinishTurn
  BY <1>3
  DEF StartLoop, WakeUp, FinishTurn, TypeOK, arrivalVars, controlVars,
      callVars, workVars, crankVars, replyVars
<1>4. CASE StopLoop
  <2>1. told' \in [Callers -> Fates]
    BY <1>2, <1>4, ToldTypes, TellType DEF StopLoop
  <2> QED
    BY <1>4, <2>1
    DEF StopLoop, TypeOK, Fates, arrivalVars, controlVars, callVars, workVars,
        crankVars, replyVars
<1>5. CASE ProcessCrankResult
  <2>1. store' \in StoreType /\ buffer' \in Seq(ItemType)
    <3>1. /\ store' = savepoint \/ store' = store
          /\ buffer' = <<>> \/ buffer' = buffer
      BY <1>5 DEF ProcessCrankResult, RollbackCrank
    <3>2. buffer \in Seq(ItemType) /\ <<>> \in Seq(ItemType)
      BY DEF TypeOK
    <3>3. buffer' \in Seq(ItemType)
      BY <3>1, <3>2
    <3> QED
      BY <1>1, <3>1, <3>3
  <2>2. /\ told' \in [Callers -> Fates] /\ subscriptions' \in SUBSET Messages
        /\ resolvedNow' \in SUBSET Messages
    <3>1. CASE UNCHANGED <<resolvedNow, told, subscriptions>>
      BY <3>1, ToldTypes DEF TypeOK
    <3>2. CASE /\ resolvedNow' = {}
               /\ \E lost : /\ told' = Tell(told, lost, "refused")
                            /\ subscriptions' = subscriptions \ lost
      <4>1. told' \in [Callers -> Fates]
        BY <1>2, <3>2, ToldTypes, TellType
      <4> QED
        BY <3>2, <4>1 DEF TypeOK
    <3> QED
      BY <1>5, <3>1, <3>2 DEF ProcessCrankResult
  <2>3. rollbackAllowed' \in BOOLEAN
    BY <1>5 DEF ProcessCrankResult, StillUndoable
  <2> QED
    BY <1>5, <2>1, <2>2, <2>3
    DEF ProcessCrankResult, TypeOK, Fates, arrivalVars, controlVars, workVars,
        replyVars
<1>6. CASE TerminateVat
  <2>1. store' \in StoreType
    BY <1>1, <1>6, RetiredType DEF TerminateVat
  <2>2. told' \in [Callers -> Fates] /\ subscriptions' \in SUBSET Messages
    BY <1>2, <1>6, TellDecidedTypes DEF TerminateVat
  <2> QED
    BY <1>6, <2>1, <2>2
    DEF TerminateVat, TypeOK, Fates, arrivalVars, controlVars, workVars,
        replyVars
<1>7. CASE CollectAndFlush
  <2>1. store' \in StoreType
    <3>1. store.queue \o buffer \in Seq(ItemType)
      BY StoreFields DEF TypeOK
    <3>2. PICK chore \in {store.chore, item.kind # "chore"} :
            store' = [store EXCEPT !.chore = chore,
                         !.queue = IF verdict.abort THEN @ ELSE @ \o buffer]
      BY <1>7 DEF CollectAndFlush
    <3>3. chore \in BOOLEAN
      BY <1>1, StoreFields
    <3> QED
      BY <1>1, <3>1, <3>2, <3>3 DEF StoreType
  <2>2. /\ told' \in [Callers -> Fates] /\ subscriptions' \in SUBSET Messages
        /\ resolvedNow' \in SUBSET Messages /\ buffer' \in Seq(ItemType)
    <3>1. CASE UNCHANGED <<buffer, resolvedNow, told, subscriptions>>
      BY <3>1, ToldTypes DEF TypeOK
    <3>2. CASE /\ buffer' = <<>> /\ resolvedNow' = {}
               /\ told' = Tell(told, resolvedNow \cap subscriptions, "answered")
               /\ subscriptions' = subscriptions \ resolvedNow
      <4>1. told' \in [Callers -> Fates]
        BY <1>2, <3>2, ToldTypes, TellType
      <4>2. subscriptions' \in SUBSET Messages
        BY <3>2 DEF TypeOK
      <4>3. buffer' \in Seq(ItemType)
        BY <3>2
      <4>4. resolvedNow' \in SUBSET Messages
        BY <3>2
      <4> QED
        BY <4>1, <4>2, <4>3, <4>4
    <3> QED
      BY <1>7, <3>1, <3>2 DEF CollectAndFlush
  <2> QED
    BY <1>7, <2>1, <2>2
    DEF CollectAndFlush, TypeOK, Fates, arrivalVars, controlVars, workVars,
        replyVars
<1>8. CASE EndCrank
  <2>1. held \in Seq(Requests)
    BY DEF TypeOK
  <2>2. /\ store' \in StoreType /\ committed' \in StoreType
        /\ subscriptions' \subseteq Messages /\ told' \in [Callers -> Fates]
    BY <1>8, <2>1, WriteTypes, FinishedType DEF EndCrank
  <2> QED
    BY <1>8, <2>2, NothingsTypes
    DEF EndCrank, TypeOK, Fates, arrivalVars, workVars
<1> QED
  BY <1>3, <1>4, <1>5, <1>6, <1>7, <1>8, TakeTypes, DeliverTypes DEF Turn

LEMMA FaultTypes == ASSUME TypeOK, Fault PROVE TypeOK'
<1>1. store \in StoreType /\ savepoint \in StoreType /\ committed \in StoreType
  BY DEF TypeOK
<1>2. CASE CrankThrows
  BY <1>1, <1>2, DeathTypes, ToldTypes DEF CrankThrows
<1>3. CASE TerminateThrows
  BY <1>1, <1>3, DeathTypes, ToldTypes, RetiredType DEF TerminateThrows
<1>4. CASE CommitFails
  BY <1>1, <1>4, DeathTypes, ToldTypes DEF CommitFails
<1>5. CASE HeldWriteThrows
  <2>1. PICK n \in 0 .. Len(held) - 1 :
          LET before == SubSeq(held, 1, n)
          IN  FailRunLoop(Written(before, {}, store),
                          Tell(TellFinished,
                               Elements(before) \cap OfKind("write"),
                               "answered"))
    BY <1>5 DEF HeldWriteThrows
  <2>2. SubSeq(held, 1, n) \in Seq(Requests)
    BY DEF TypeOK
  <2>3. "answered" \in Fates
    BY DEF Fates
  <2> QED
    BY <1>1, <2>1, <2>2, <2>3, WrittenType, FinishedType, TellType, DeathTypes
<1>6. CASE AfterCommitThrows
  BY <1>1, <1>6, DeathTypes, ToldTypes DEF AfterCommitThrows
<1>7. CASE Crash
  <2>1. store' \in StoreType /\ committed' \in StoreType
    BY <1>1, <1>7 DEF Crash
  <2>2. told' \in [Callers -> Fates]
    BY <1>7, ToldTypes DEF Crash, Fates
  <2>3. arrivals' \in 0 .. MaxArrivals /\ crashes' \in 0 .. MaxCrashes
    BY <1>7, BoundsAssumption DEF Crash, TypeOK
  <2>4. savepoint' \in StoreType /\ verdict' \in VerdictType
    BY <1>7, EmptyStoreType, VerdictTypes DEF Crash
  <2>5. /\ <<>> \in Seq(OfKind("control")) /\ <<>> \in Seq(Requests)
        /\ <<>> \in Seq(ItemType)
    OBVIOUS
  <2>6. taken' \in SUBSET (Work \cap OfKind(item'.kind))
    BY <1>7 DEF Crash
  <2>7. /\ item' \in ItemsType
        /\ due' \in [answered : SUBSET OfKind("terminate"),
                     refused : SUBSET Work]
    BY <1>7, NothingsTypes DEF Crash
  <2> QED
    BY <1>7, <2>1, <2>2, <2>3, <2>4, <2>5, <2>6, <2>7
    DEF Crash, TypeOK, Fates, AbandonQueuedWork
<1> QED
  BY <1>2, <1>3, <1>4, <1>5, <1>6, <1>7 DEF Fault

LEMMA NextTypes == ASSUME TypeOK, [Next]_vars PROVE TypeOK'
<1>1. CASE UNCHANGED vars
  BY <1>1
  DEF vars, runVars, arrivalVars, controlVars, callVars, workVars, crankVars,
      replyVars, TypeOK
<1> QED
  BY <1>1, OutsideTypes, TurnTypes, FaultTypes DEF Next

(* Every variable keeps to its type.                                       *)
THEOREM RunLoopTypeCorrect == Spec => []TypeOK
<1>1. TypeOK /\ [Next]_vars => TypeOK'
  BY NextTypes
<1> QED
  BY <1>1, TypesInitially, PTL DEF Spec

-----------------------------------------------------------------------------
(* One fate for every message: why OneFate holds.                          *)

Whose(queue) == {queue[i].who : i \in 1 .. Len(queue)}

Unrepeated(queue) ==
    \A i, j \in 1 .. Len(queue) : queue[i].who = queue[j].who => i = j

(* An item waiting in a store: what its message can have come to there.    *)
Fits(i, s) ==
    /\ i.kind = "send" => i.who \notin s.deciding \cup s.resolved
    /\ i.kind = "later" => i.who \notin s.resolved \/ s.vatDead

Tidy(s) ==
    /\ Unrepeated(s.queue)
    /\ \A i \in 1 .. Len(s.queue) : Fits(s.queue[i], s)

Absent(c, s) ==
    c \notin Whose(s.queue) \cup s.deciding \cup s.resolved \cup s.done

(* Requests not made, or made and not yet written down.                    *)
Unasked == {c \in Callers : told[c] = "unasked"}
Fresh == Unasked \cup Elements(held)

Sound(s, fresh) == Tidy(s) /\ \A c \in fresh : Absent(c, s)

StoresAreSound ==
    Sound(store, Fresh) /\ Sound(savepoint, Fresh) /\ Sound(committed, Fresh)

FreshIsApart ==
    /\ \A c \in Fresh : c # item.who /\ c \notin taken \cup Elements(controls)
    /\ Unasked \cap (atWork \cup Elements(held)) = {}
    /\ \A i, j \in 1 .. Len(held) : held[i] = held[j] => i = j
    /\ InCrank \/ held = <<>>

(* A delivery has its item out of the queue, and nothing buffered.         *)
ItemIsOut ==
    pc = "delivering" =>
        /\ buffer = <<>>
        /\ item.kind \in {"send", "later"} =>
              item.who \notin Whose(store.queue) /\ Fits(item, store)

(* The follow-up a crank has buffered is its message's only trace.         *)
BufferIsNext ==
    \/ buffer = <<>>
    \/ /\ pc \in {"delivered", "terminating", "collecting"}
       /\ pc # "delivered" => ~verdict.abort
       /\ buffer = <<Item("later", item.who)>>
       /\ item.who \in OfKind("message")
       /\ item.who \notin Whose(store.queue)
       /\ Fits(Item("later", item.who), store)

FateInv ==
    TypeOK /\ StoresAreSound /\ FreshIsApart /\ ItemIsOut /\ BufferIsNext

LEMMA ElementsOf ==
    ASSUME NEW S, NEW seq \in Seq(S)
    PROVE  Elements(seq) = {seq[i] : i \in 1 .. Len(seq)}
           /\ Elements(seq) \subseteq S
BY DEF Elements

LEMMA TellAsksNobody ==
    ASSUME NEW f, NEW who, NEW what, what # "unasked", NEW c \in Callers,
           Tell(f, who, what)[c] = "unasked"
    PROVE  f[c] = "unasked"
BY DEF Tell

LEMMA QueueType ==
    ASSUME NEW s \in StoreType
    PROVE  /\ Len(s.queue) \in Nat
           /\ \A i \in 1 .. Len(s.queue) :
                 s.queue[i] \in ItemType /\ s.queue[i].who \in Whose(s.queue)
<1>1. s.queue \in Seq(ItemType)
  BY StoreFields
<1> QED
  BY <1>1 DEF Whose

LEMMA ItemFields ==
    ASSUME NEW i \in ItemType
    PROVE  /\ i.who \in Callers /\ i.kind \notin {"none", "chore", "arrival"}
           /\ i.kind \in {"send", "later"} => i.who \in Messages
           /\ i.kind = "later" => i.who \in OfKind("message")
           /\ i.who \in Messages => i.kind \in {"send", "later"}
           /\ i.who \in OfKind("service") => i.kind = "send"
BY DEF ItemType, Messages, OfKind

(* The other parts of a store may change under its queue.                  *)
Follows(s, t) ==
    /\ t.queue = s.queue
    /\ s.vatDead => t.vatDead
    /\ \A c \in Whose(s.queue) :
          /\ c \in t.deciding => c \in s.deciding
          /\ c \in t.resolved => \/ c \in s.resolved
                                 \/ c \in s.deciding /\ t.vatDead

LEMMA FollowsFits ==
    ASSUME NEW s, NEW t, Follows(s, t), NEW i, i.who \in Whose(s.queue),
           Fits(i, s)
    PROVE  Fits(i, t)
BY DEF Follows, Fits

LEMMA FollowsSound ==
    ASSUME NEW s \in StoreType, NEW t \in StoreType, NEW fresh, NEW fewer,
           Sound(s, fresh), Follows(s, t), fewer \subseteq fresh,
           \A c \in fewer : \/ c \notin t.deciding \cup t.resolved \cup t.done
                            \/ ~Absent(c, s)
    PROVE  Sound(t, fewer)
<1>1. Tidy(t)
  BY FollowsFits, QueueType DEF Sound, Tidy, Follows
<1>2. \A c \in fewer : Absent(c, t)
  BY DEF Sound, Absent, Follows
<1> QED
  BY <1>1, <1>2 DEF Sound

LEMMA FewerSound ==
    ASSUME NEW s, NEW fresh, NEW fewer, Sound(s, fresh), fewer \subseteq fresh
    PROVE  Sound(s, fewer)
BY DEF Sound

LEMMA EmptySound == ASSUME NEW fresh PROVE Sound(EmptyStore, fresh)
BY DEF Sound, Tidy, Absent, EmptyStore, Whose, Unrepeated

LEMMA JoinedQueues ==
    ASSUME NEW p \in Seq(ItemType), NEW q \in Seq(ItemType),
           Unrepeated(p), Unrepeated(q), Whose(p) \cap Whose(q) = {}
    PROVE  /\ Unrepeated(p \o q)
           /\ Whose(p \o q) = Whose(p) \cup Whose(q)
           /\ \A i \in 1 .. Len(p \o q) :
                 \/ \E j \in 1 .. Len(p) : (p \o q)[i] = p[j]
                 \/ \E j \in 1 .. Len(q) : (p \o q)[i] = q[j]
<1>1. /\ Len(p) \in Nat /\ Len(q) \in Nat /\ Len(p \o q) = Len(p) + Len(q)
      /\ \A i \in 1 .. Len(p) + Len(q) :
            (p \o q)[i] = IF i <= Len(p) THEN p[i] ELSE q[i - Len(p)]
  OBVIOUS
<1> DEFINE r == p \o q
<1> HIDE DEF r
<1>2. \A i \in 1 .. Len(r) :
         \/ i \in 1 .. Len(p) /\ r[i] = p[i]
         \/ i - Len(p) \in 1 .. Len(q) /\ r[i] = q[i - Len(p)]
  BY <1>1 DEF r
<1>3. /\ \A i \in 1 .. Len(p) : i \in 1 .. Len(r) /\ r[i] = p[i]
      /\ \A i \in 1 .. Len(q) : /\ i + Len(p) \in 1 .. Len(r)
                                /\ r[i + Len(p)] = q[i]
  BY <1>1 DEF r
<1>4. Unrepeated(r)
  <2> SUFFICES ASSUME NEW i \in 1 .. Len(r), NEW j \in 1 .. Len(r),
                      r[i].who = r[j].who
               PROVE  i = j
    BY DEF Unrepeated
  <2>1. CASE i \in 1 .. Len(p) /\ r[i] = p[i] /\ j \in 1 .. Len(p) /\ r[j] = p[j]
    BY <2>1 DEF Unrepeated
  <2>2. CASE /\ i - Len(p) \in 1 .. Len(q) /\ r[i] = q[i - Len(p)]
             /\ j - Len(p) \in 1 .. Len(q) /\ r[j] = q[j - Len(p)]
    <3>1. i - Len(p) = j - Len(p)
      BY <2>2 DEF Unrepeated
    <3> QED
      BY <1>1, <2>2, <3>1
  <2>3. CASE /\ i \in 1 .. Len(p) /\ r[i] = p[i]
             /\ j - Len(p) \in 1 .. Len(q) /\ r[j] = q[j - Len(p)]
    BY <2>3 DEF Whose
  <2>4. CASE /\ j \in 1 .. Len(p) /\ r[j] = p[j]
             /\ i - Len(p) \in 1 .. Len(q) /\ r[i] = q[i - Len(p)]
    BY <2>4 DEF Whose
  <2> QED
    BY <1>2, <2>1, <2>2, <2>3, <2>4
<1>5. Whose(r) = Whose(p) \cup Whose(q)
  <2>1. Whose(r) \subseteq Whose(p) \cup Whose(q)
    BY <1>2 DEF Whose
  <2>2. Whose(p) \subseteq Whose(r) /\ Whose(q) \subseteq Whose(r)
    BY <1>3 DEF Whose
  <2> QED
    BY <2>1, <2>2
<1> QED
  BY <1>2, <1>4, <1>5 DEF r

LEMMA TailQueue ==
    ASSUME NEW q \in Seq(ItemType), q # <<>>, Unrepeated(q)
    PROVE  /\ Unrepeated(Tail(q)) /\ Head(q).who \notin Whose(Tail(q))
           /\ Whose(Tail(q)) \subseteq Whose(q) /\ Head(q).who \in Whose(q)
           /\ \A i \in 1 .. Len(Tail(q)) :
                 \E j \in 1 .. Len(q) : Tail(q)[i] = q[j]
           /\ \E j \in 1 .. Len(q) : Head(q) = q[j]
<1>1. /\ Len(q) \in Nat /\ Len(q) # 0 /\ Len(Tail(q)) = Len(q) - 1
      /\ \A i \in 1 .. Len(q) - 1 : Tail(q)[i] = q[i + 1]
      /\ Head(q) = q[1]
  OBVIOUS
<1> DEFINE t == Tail(q)
<1> HIDE DEF t
<1>2. \A i \in 1 .. Len(t) : /\ i + 1 \in 1 .. Len(q) /\ t[i] = q[i + 1]
                             /\ i + 1 # 1 /\ i \in Nat
  BY <1>1 DEF t
<1>3. 1 \in 1 .. Len(q) /\ Head(q) = q[1]
  BY <1>1
<1>4. Unrepeated(t)
  <2> SUFFICES ASSUME NEW i \in 1 .. Len(t), NEW j \in 1 .. Len(t),
                      t[i].who = t[j].who
               PROVE  i = j
    BY DEF Unrepeated
  <2>1. i + 1 = j + 1
    BY <1>2 DEF Unrepeated
  <2> QED
    BY <1>2, <2>1
<1>5. Head(q).who \notin Whose(t)
  BY <1>2, <1>3 DEF Unrepeated, Whose
<1>6. Whose(t) \subseteq Whose(q) /\ Head(q).who \in Whose(q)
  BY <1>2, <1>3 DEF Whose
<1> QED
  BY <1>2, <1>3, <1>4, <1>5, <1>6 DEF t

(* Fresh requests are written down beside what waits already.              *)
LEMMA WrittenSound ==
    ASSUME NEW s \in StoreType, NEW requests \in Seq(Requests), NEW missing,
           \A i, j \in 1 .. Len(requests) : requests[i] = requests[j] => i = j,
           NEW fresh, NEW fewer, Sound(s, fresh),
           Elements(requests) \subseteq fresh,
           fewer \subseteq fresh \ Elements(requests)
    PROVE  Sound(Written(requests, missing, s), fewer)
<1> DEFINE q == ToQueue(requests, missing)
           t == Written(requests, missing, s)
<1>1. q \in Seq(ItemType) /\ s.queue \in Seq(ItemType)
  BY ToQueueType, StoreFields
<1>2. PICK at \in [1 .. Len(q) -> 1 .. Len(requests)] :
        /\ \A i, j \in 1 .. Len(q) : at[i] = at[j] => i = j
        /\ \A i \in 1 .. Len(q) : /\ q[i] = QueuedItem(requests[at[i]])
                                  /\ Kind[requests[at[i]]] # "write"
                                  /\ requests[at[i]] \notin missing
  BY ToQueueType
<1>3. /\ t.queue = s.queue \o q /\ t.deciding = s.deciding
      /\ t.resolved = s.resolved /\ t.vatDead = s.vatDead
      /\ t.done \subseteq s.done \cup Elements(requests)
  BY DEF Written, StoreType
<1>4. \A i \in 1 .. Len(q) : requests[at[i]] \in Elements(requests)
  BY <1>2, ElementsOf
<1> HIDE DEF q, t
<1>5. \A i \in 1 .. Len(q) : /\ q[i].who = requests[at[i]]
                             /\ q[i].kind # "later"
                             /\ q[i].who \in Elements(requests)
  <2> TAKE i \in 1 .. Len(q)
  <2>1. requests[at[i]] \in Requests
    BY <1>2
  <2> QED
    BY <1>2, <1>4, <2>1, QueuedItemType
<1>6. Unrepeated(q)
  BY <1>2, <1>5 DEF Unrepeated
<1>7. Whose(q) \subseteq Elements(requests)
  BY <1>5 DEF Whose
<1>8. \A c \in Elements(requests) : Absent(c, s)
  BY DEF Sound
<1>9. Whose(s.queue) \cap Whose(q) = {}
  BY <1>7, <1>8 DEF Absent
<1>10. /\ Unrepeated(t.queue)
       /\ Whose(t.queue) = Whose(s.queue) \cup Whose(q)
       /\ \A i \in 1 .. Len(t.queue) :
             \/ \E j \in 1 .. Len(s.queue) : t.queue[i] = s.queue[j]
             \/ \E j \in 1 .. Len(q) : t.queue[i] = q[j]
  <2>1. Unrepeated(s.queue)
    BY DEF Sound, Tidy
  <2> DEFINE r == s.queue \o q
  <2>2. /\ Unrepeated(r) /\ Whose(r) = Whose(s.queue) \cup Whose(q)
        /\ \A i \in 1 .. Len(r) :
              \/ \E j \in 1 .. Len(s.queue) : r[i] = s.queue[j]
              \/ \E j \in 1 .. Len(q) : r[i] = q[j]
    BY <1>1, <1>6, <1>9, <2>1, JoinedQueues
  <2>3. t.queue = r
    BY <1>3
  <2> HIDE DEF r
  <2> QED
    BY <2>2, <2>3
<1>11. ASSUME NEW i \in 1 .. Len(t.queue) PROVE Fits(t.queue[i], t)
  <2>1. CASE \E j \in 1 .. Len(s.queue) : t.queue[i] = s.queue[j]
    <3>1. Fits(t.queue[i], s)
      BY <2>1 DEF Sound, Tidy
    <3> QED
      BY <1>3, <3>1 DEF Fits
  <2>2. CASE \E j \in 1 .. Len(q) : t.queue[i] = q[j]
    <3>1. t.queue[i].kind # "later" /\ Absent(t.queue[i].who, s)
      BY <1>5, <1>8, <2>2
    <3> QED
      BY <1>3, <3>1 DEF Fits, Absent
  <2> QED
    BY <1>10, <2>1, <2>2
<1>12. ASSUME NEW c \in fewer PROVE Absent(c, t)
  <2>1. Absent(c, s)
    BY DEF Sound
  <2> QED
    BY <1>3, <1>7, <1>10, <2>1 DEF Absent
<1> QED
  BY <1>10, <1>11, <1>12 DEF Sound, Tidy, t

LEMMA RetiredSound ==
    ASSUME TypeOK, NEW s \in StoreType, s.deciding = store.deciding,
           NEW fresh, Sound(s, fresh)
    PROVE  Sound(Retired(s), fresh)
<1>1. store \in StoreType /\ Retired(s) \in StoreType
  BY RetiredType DEF TypeOK
<1>2. /\ Retired(s).queue = s.queue /\ Retired(s).vatDead
      /\ Retired(s).deciding \subseteq s.deciding
      /\ Retired(s).resolved \subseteq s.resolved \cup s.deciding
      /\ Retired(s).done = s.done
  BY DEF Retired, Decided, StoreType
<1>3. Follows(s, Retired(s))
  BY <1>2 DEF Follows
<1>4. \A c \in fresh : c \notin Retired(s).deciding \cup Retired(s).resolved
                                \cup Retired(s).done
  BY <1>2 DEF Sound, Absent
<1> QED
  BY <1>1, <1>3, <1>4, FollowsSound

(* Work is carried out, or a control operation.                            *)
LEMMA DoneSound ==
    ASSUME NEW s \in StoreType, NEW who \in SUBSET Callers,
           NEW fresh, Sound(s, fresh), fresh \cap who = {}
    PROVE  LET t == [s EXCEPT !.done = @ \cup who]
           IN  t \in StoreType /\ t.deciding = s.deciding /\ Sound(t, fresh)
<1> DEFINE t == [s EXCEPT !.done = @ \cup who]
<1>1. t \in StoreType
  BY DEF StoreType
<1>2. /\ t.queue = s.queue /\ t.deciding = s.deciding /\ t.resolved = s.resolved
      /\ t.done = s.done \cup who /\ t.vatDead = s.vatDead
  BY DEF StoreType
<1> HIDE DEF t
<1>3. Follows(s, t)
  BY <1>2 DEF Follows
<1>4. \A c \in fresh : c \notin t.deciding \cup t.resolved \cup t.done
  BY <1>2 DEF Sound, Absent
<1> QED
  BY <1>1, <1>2, <1>3, <1>4, FollowsSound, ZenonT(60) DEF t

(* A message that waits nowhere is resolved, or awaits its follow-up.      *)
LEMMA ResolvedSound ==
    ASSUME NEW s \in StoreType, NEW m \in Messages, m \notin Whose(s.queue),
           NEW fresh, Sound(s, fresh), m \notin fresh,
           NEW t \in {[s EXCEPT !.deciding = @ \ {m}, !.resolved = @ \cup {m}],
                      [s EXCEPT !.resolved = @ \cup {m}],
                      [s EXCEPT !.deciding = @ \cup {m}]}
    PROVE  t \in StoreType /\ t.queue = s.queue /\ Sound(t, fresh)
           /\ t.deciding \subseteq s.deciding \cup {m}
           /\ t.resolved \subseteq s.resolved \cup {m}
           /\ t.vatDead = s.vatDead
<1>1. t \in StoreType
  <2>1. CASE t = [s EXCEPT !.deciding = @ \ {m}, !.resolved = @ \cup {m}]
    BY <2>1 DEF StoreType
  <2>2. CASE t = [s EXCEPT !.resolved = @ \cup {m}]
    BY <2>2 DEF StoreType
  <2>3. CASE t = [s EXCEPT !.deciding = @ \cup {m}]
    BY <2>3 DEF StoreType
  <2> QED
    BY <2>1, <2>2, <2>3
<1>2. /\ t.queue = s.queue /\ t.done = s.done /\ t.vatDead = s.vatDead
      /\ t.deciding \subseteq s.deciding \cup {m}
      /\ t.resolved \subseteq s.resolved \cup {m}
  BY DEF StoreType
<1>3. Follows(s, t)
  BY <1>2 DEF Follows
<1>4. \A c \in fresh : c \notin t.deciding \cup t.resolved \cup t.done
  BY <1>2 DEF Sound, Absent
<1> QED
  BY <1>1, <1>2, <1>3, <1>4, FollowsSound

(* What leaves fresh requests fresh, and apart.                            *)
LEMMA FreshLess ==
    ASSUME FreshIsApart, Unasked' \subseteq Unasked,
           held' = held \/ held' = <<>>, InCrank' \/ held' = <<>>,
           item' = item \/ item'.who \notin Fresh,
           \A c \in Fresh : c \in taken' => c \in taken,
           Elements(controls') \subseteq Elements(controls),
           atWork' \subseteq atWork
    PROVE  Fresh' \subseteq Fresh /\ FreshIsApart'
<1>1. Elements(held') \subseteq Elements(held)
  BY DEF Elements
<1>2. Fresh' \subseteq Fresh
  BY <1>1 DEF Fresh
<1>3. \A c \in Fresh' : c # item'.who /\ c \notin taken' \cup Elements(controls')
  BY <1>2 DEF FreshIsApart
<1>4. Unasked' \cap (atWork' \cup Elements(held')) = {}
  BY <1>1 DEF FreshIsApart
<1>5. \A i, j \in 1 .. Len(held') : held'[i] = held'[j] => i = j
  BY DEF FreshIsApart
<1> QED
  BY <1>2, <1>3, <1>4, <1>5 DEF FreshIsApart

LEMMA FateTypes ==
    ASSUME FateInv
    PROVE  /\ store \in StoreType /\ savepoint \in StoreType
           /\ committed \in StoreType /\ held \in Seq(Requests)
           /\ store.queue \in Seq(ItemType) /\ buffer \in Seq(ItemType)
           /\ controls \in Seq(OfKind("control")) /\ item \in ItemsType
BY StoreFields DEF FateInv, TypeOK

(* The rest of the invariant, where no store and no item changes.          *)
LEMMA StoresAside ==
    ASSUME FateInv, UNCHANGED <<store, savepoint, committed>>,
           Fresh' \subseteq Fresh
    PROVE  StoresAreSound'
BY FewerSound DEF FateInv, StoresAreSound

LEMMA ItemAside ==
    ASSUME FateInv, UNCHANGED <<pc, item, verdict, buffer, store>>
    PROVE  ItemIsOut' /\ BufferIsNext'
BY DEF FateInv, ItemIsOut, BufferIsNext

LEMMA ServiceIsOut ==
    ASSUME NEW s \in StoreType, Tidy(s), NEW m \in OfKind("service"),
           m \in s.deciding
    PROVE  m \notin Whose(s.queue)
<1> SUFFICES ASSUME NEW i \in 1 .. Len(s.queue), s.queue[i].who = m
             PROVE  FALSE
  BY DEF Whose
<1>1. s.queue[i].kind = "send"
  BY QueueType, ItemFields
<1> QED
  BY <1>1 DEF Tidy, Fits

LEMMA OutsideFate ==
    ASSUME FateInv,
           \/ Ask
           \/ AcceptRemoteInbound
           \/ \E m \in Messages : ServiceReplies(m)
           \/ StopKernel
    PROVE  FateInv'
<1> USE DEF FateInv
<1>0. TypeOK'
  BY OutsideTypes
<1>1. ASSUME NEW c \in Callers, Request(c) PROVE FateInv'
  <2>1. /\ told[c] = "unasked" /\ c \in Unasked /\ c \in Fresh /\ c \in Requests
    BY <1>1 DEF Request, Unasked, Fresh
  <2>2. UNCHANGED <<pc, item, verdict, buffer, savepoint, taken, controls>>
    BY <1>1 DEF Request, crankVars, replyVars, controlVars
  <2>3. atWork' \subseteq atWork \cup {c}
    <3>1. UNCHANGED workVars \/ AwaitQueuedWork(c)
      BY <1>1 DEF Request, callVars
    <3> QED
      BY <3>1 DEF workVars, AwaitQueuedWork
  <2>4. Unasked' \subseteq Unasked \ {c}
    <3>1. told \in [Callers -> Fates]
      BY ToldTypes
    <3>2. CASE \E what \in {"waiting", "refused"} : told' = [told EXCEPT ![c] = what]
      BY <3>1, <3>2 DEF Unasked
    <3>3. CASE WriteRequests(<<c>>, store, [told EXCEPT ![c] = "waiting"])
      <4>1. PICK who, missing : told' =
              Tell(Tell([told EXCEPT ![c] = "waiting"], who, "answered"),
                   missing, "refused")
        BY <3>3 DEF WriteRequests
      <4> DEFINE f == [told EXCEPT ![c] = "waiting"]
                 g == Tell(f, who, "answered")
      <4>2. \A d \in Callers : g[d] = "unasked" => f[d] = "unasked"
        <5> HIDE DEF f
        <5> QED
          BY TellAsksNobody
      <4>3. \A d \in Callers : told'[d] = "unasked" => g[d] = "unasked"
        <5>1. told' = Tell(g, missing, "refused")
          BY <4>1
        <5> HIDE DEF g
        <5> QED
          BY <5>1, TellAsksNobody
      <4> QED
        BY <3>1, <4>2, <4>3 DEF Unasked
    <3> QED
      BY <1>1, <3>2, <3>3 DEF Request
  <2>5. CASE UNCHANGED <<held, store, committed>>
    <3>1. Fresh' \subseteq Fresh
      BY <2>4, <2>5 DEF Fresh, Elements
    <3>2. Elements(held') = Elements(held) /\ Elements(controls') = Elements(controls)
      BY <2>2, <2>5 DEF Elements
    <3>3. FreshIsApart'
      BY <2>2, <2>3, <2>4, <2>5, <3>1, <3>2 DEF FreshIsApart, InCrank
    <3> QED
      BY <1>0, <2>2, <2>5, <3>1, <3>3, StoresAside, ItemAside
  <2>6. CASE InCrank /\ held' = Append(held, c) /\ UNCHANGED <<store, committed>>
    <3>1. /\ held \in Seq(Requests) /\ Len(held) \in Nat
          /\ Len(held') = Len(held) + 1
          /\ \A i \in 1 .. Len(held) : held'[i] = held[i]
          /\ held'[Len(held) + 1] = c
      BY <2>1, <2>6, FateTypes
    <3>2. Elements(held') = Elements(held) \cup {c}
      <4>1. held' \in Seq(Requests)
        BY <2>1, <2>6, <3>1
      <4> QED
        BY <3>1, <4>1, ElementsOf
    <3>3. Fresh' \subseteq Fresh
      BY <2>1, <2>4, <3>2 DEF Fresh
    <3>4. c \notin Elements(held)
      BY <2>1 DEF FreshIsApart
    <3>5. \A i, j \in 1 .. Len(held') : held'[i] = held'[j] => i = j
      <4>1. \A i \in 1 .. Len(held) : held[i] # c
        BY <3>1, <3>4, ElementsOf
      <4>2. \A i, j \in 1 .. Len(held) : held[i] = held[j] => i = j
        BY DEF FreshIsApart
      <4> QED
        BY <3>1, <4>1, <4>2
    <3>6. FreshIsApart'
      <4>1. Elements(controls') = Elements(controls)
        BY <2>2
      <4> QED
        BY <2>2, <2>3, <2>4, <2>6, <3>2, <3>3, <3>5, <4>1 DEF FreshIsApart, InCrank
    <3> QED
      BY <1>0, <2>2, <2>6, <3>3, <3>6, StoresAside, ItemAside
  <2>7. CASE /\ ~InCrank /\ UNCHANGED held
             /\ WriteRequests(<<c>>, store, [told EXCEPT ![c] = "waiting"])
    <3>1. /\ <<c>> \in Seq(Requests) /\ Elements(<<c>>) = {c}
          /\ \A i, j \in 1 .. Len(<<c>>) : <<c>>[i] = <<c>>[j] => i = j
      BY <2>1 DEF Elements
    <3>2. held = <<>> /\ Elements(held') = {} /\ Elements(held) = {}
      BY <2>7 DEF FreshIsApart, Elements
    <3>3. Fresh' \subseteq Fresh \ {c}
      BY <2>4, <3>2 DEF Fresh
    <3>4. PICK missing : store' = Written(<<c>>, missing, store) /\ committed' = store'
      BY <2>7 DEF WriteRequests
    <3>5. Sound(store', Fresh')
      <4>1. Elements(<<c>>) \subseteq Fresh /\ Fresh' \subseteq Fresh \ Elements(<<c>>)
        BY <2>1, <3>1, <3>3
      <4>2. Sound(store, Fresh) /\ store \in StoreType
        BY FateTypes DEF StoresAreSound
      <4>3. Sound(Written(<<c>>, missing, store), Fresh')
        BY <3>1, <4>1, <4>2, WrittenSound
      <4> QED
        BY <3>4, <4>3
    <3>6. StoresAreSound'
      BY <2>2, <3>3, <3>4, <3>5, FewerSound DEF StoresAreSound
    <3>7. FreshIsApart'
      BY <2>2, <2>3, <2>4, <2>7, <3>2, <3>3 DEF FreshIsApart, Elements
    <3>8. ItemIsOut' /\ BufferIsNext'
      BY <2>2, <2>7 DEF ItemIsOut, BufferIsNext, InCrank
    <3> QED
      BY <1>0, <3>6, <3>7, <3>8
  <2> QED
    BY <1>1, <2>5, <2>6, <2>7 DEF Request, callVars
<1>2. ASSUME NEW c \in Callers, EnqueueControl(c) PROVE FateInv'
  <2>1. UNCHANGED <<pc, item, verdict, buffer, savepoint, store, committed,
                    taken, held, atWork>>
    BY <1>2 DEF EnqueueControl, crankVars, replyVars, callVars, workVars
  <2>2. told \in [Callers -> Fates] /\ c \in Unasked /\ c \in OfKind("control")
    BY <1>2, ToldTypes DEF EnqueueControl, Unasked, OfKind
  <2>3. Unasked' \subseteq Unasked \ {c}
    BY <1>2, <2>2 DEF EnqueueControl, Unasked
  <2>4. Elements(held') = Elements(held) /\ c \notin Elements(held)
    BY <2>1, <2>2 DEF FreshIsApart
  <2>5. Fresh' \subseteq Fresh \ {c}
    BY <2>3, <2>4 DEF Fresh
  <2>6. Elements(controls') \subseteq Elements(controls) \cup {c}
    <3>1. controls' = controls \/ controls' = Append(controls, c)
      BY <1>2 DEF EnqueueControl
    <3>2. CASE controls' = controls
      BY <3>2
    <3>3. CASE controls' = Append(controls, c)
      <4>1. controls \in Seq(OfKind("control")) /\ controls' \in Seq(OfKind("control"))
        BY <2>2, <3>3, FateTypes
      <4>2. \A i \in 1 .. Len(controls') :
              \/ controls'[i] = c
              \/ i \in 1 .. Len(controls) /\ controls'[i] = controls[i]
        <5>1. /\ Len(controls) \in Nat /\ Len(controls') = Len(controls) + 1
              /\ \A i \in 1 .. Len(controls) : controls'[i] = controls[i]
              /\ controls'[Len(controls) + 1] = c
          BY <2>2, <3>3, <4>1
        <5> TAKE i \in 1 .. Len(controls')
        <5>2. CASE i = Len(controls) + 1
          BY <5>1, <5>2
        <5>3. CASE i # Len(controls) + 1
          <6>1. i \in 1 .. Len(controls)
            BY <5>1, <5>3
          <6> QED
            BY <5>1, <6>1
        <5> QED
          BY <5>2, <5>3
      <4> QED
        BY <4>1, <4>2, ElementsOf
    <3> QED
      BY <3>1, <3>2, <3>3
  <2>7. FreshIsApart'
    BY <2>1, <2>3, <2>4, <2>5, <2>6 DEF FreshIsApart, InCrank
  <2> QED
    BY <1>0, <2>1, <2>5, <2>7, StoresAside, ItemAside
<1>3. ASSUME UNCHANGED <<pc, item, verdict, buffer, savepoint, store, committed,
                         taken, held, controls>>,
             atWork' \subseteq atWork, Unasked' \subseteq Unasked
      PROVE  FateInv'
  <2>1. Fresh' \subseteq Fresh /\ FreshIsApart'
    BY <1>3, FreshLess DEF InCrank, FreshIsApart
  <2> QED
    BY <1>0, <1>3, <2>1, StoresAside, ItemAside
<1>4. ASSUME NEW c \in Callers, EndRunLoop(c) PROVE FateInv'
  <2>1. Unasked' \subseteq Unasked
    BY <1>4, ToldTypes DEF EndRunLoop, Unasked
  <2> QED
    BY <1>3, <1>4, <2>1
    DEF EndRunLoop, crankVars, replyVars, callVars, workVars
<1>5. CASE AcceptRemoteInbound
  <2>1. Unasked' \subseteq Unasked
    BY <1>5 DEF AcceptRemoteInbound, Unasked
  <2> QED
    BY <1>3, <1>5, <2>1
    DEF AcceptRemoteInbound, crankVars, replyVars, callVars, workVars,
        controlVars, runVars
<1>6. CASE StopKernel
  <2>1. Unasked' \subseteq Unasked
    BY <1>6, TellAsksNobody DEF StopKernel, Unasked
  <2> QED
    BY <1>3, <1>6, <2>1
    DEF StopKernel, AbandonQueuedWork, crankVars, replyVars, controlVars, runVars
<1>7. ASSUME NEW m \in Messages, ServiceReplies(m) PROVE FateInv'
  <2>1. UNCHANGED <<pc, item, verdict, buffer, savepoint, taken, held, controls,
                    atWork>>
    BY <1>7 DEF ServiceReplies, crankVars, replyVars, workVars, controlVars,
                runVars
  <2>2. Unasked' \subseteq Unasked
    <3>1. \/ told' = told
          \/ told' = Tell(told, {m} \cap subscriptions, "answered")
      BY <1>7 DEF ServiceReplies
    <3> QED
      BY <3>1, TellAsksNobody DEF Unasked
  <2>3. CASE m \notin store.deciding
    <3>1. UNCHANGED <<store, committed>>
      BY <1>7, <2>3 DEF ServiceReplies
    <3> QED
      BY <1>3, <2>1, <2>2, <3>1
  <2>4. CASE m \in store.deciding
    <3>1. Fresh' \subseteq Fresh /\ FreshIsApart'
      BY <2>1, <2>2, FreshLess DEF InCrank, FreshIsApart
    <3>2. m \in OfKind("service")
      BY <1>7 DEF ServiceReplies, TypeOK
    <3>3. m \notin Whose(store.queue) /\ m \notin Fresh
      BY <2>4, <3>2, ServiceIsOut, FateTypes DEF StoresAreSound, Sound, Absent
    <3>4. /\ store' = [store EXCEPT !.deciding = @ \ {m},
                                    !.resolved = @ \cup {m}]
          /\ committed' = committed \/ committed' = store'
      BY <1>7, <2>4 DEF ServiceReplies
    <3>5. /\ store'.queue = store.queue /\ Sound(store', Fresh)
          /\ store'.deciding \subseteq store.deciding \cup {m}
          /\ store'.resolved \subseteq store.resolved \cup {m}
          /\ store'.vatDead = store.vatDead
      BY <3>3, <3>4, FateTypes, ResolvedSound DEF StoresAreSound
    <3>6. StoresAreSound'
      BY <2>1, <3>1, <3>4, <3>5, FewerSound DEF StoresAreSound
    <3>7. ASSUME NEW i, Fits(i, store), i.kind = "later" => i.who # m
          PROVE  Fits(i, store')
      BY <2>4, <3>5, <3>7 DEF Fits
    <3>8. OfKind("message") \cap OfKind("service") = {}
      BY DEF OfKind
    <3>9. ItemIsOut'
      <4>1. item.kind = "later" => item.who # m
        BY <3>2, <3>8, FateTypes DEF ItemsType, ItemType
      <4> QED
        BY <2>1, <3>5, <3>7, <4>1 DEF ItemIsOut
    <3>10. BufferIsNext'
      <4>1. Item("later", item.who).who = item.who
        BY DEF Item
      <4> QED
        BY <2>1, <3>2, <3>5, <3>7, <3>8, <4>1 DEF BufferIsNext
    <3> QED
      BY <1>0, <3>1, <3>6, <3>9, <3>10
  <2> QED
    BY <2>3, <2>4
<1> QED
  BY <1>1, <1>2, <1>4, <1>5, <1>6, <1>7 DEF Ask

(* Taking an item leaves the store without it.                             *)
LEMMA TakeFate == ASSUME FateInv, TakeItem PROVE FateInv'
<1> USE DEF FateInv
<1>0. TypeOK'
  BY TakeTypes
<1>1. PICK next : OpenCrank(next)
  BY DEF TakeItem, TakeControl, TakeChore, TakeArrival, DequeueRun, Sleep
<1>2. /\ pc = "top" /\ item' = next /\ savepoint' = store
      /\ UNCHANGED <<held, buffer, committed, told>>
      /\ taken' \subseteq atWork /\ atWork' \subseteq atWork
  BY <1>1 DEF OpenCrank, TakeWaiters
<1>3. held = <<>> /\ buffer = <<>> /\ Elements(held) = {}
  BY <1>2 DEF FreshIsApart, BufferIsNext, InCrank, Elements
<1>4. Fresh = Unasked /\ Fresh' = Fresh /\ Unasked' = Unasked
  BY <1>2, <1>3 DEF Fresh, Unasked
<1>5. Sound(store, Fresh)
  BY DEF StoresAreSound
<1>6. /\ Elements(controls') \subseteq Elements(controls)
      /\ TakeControl => next.who \in Elements(controls)
  <2>1. CASE TakeControl
    <3>1. /\ controls \in Seq(OfKind("control")) /\ controls # <<>>
          /\ controls' = Tail(controls)
      BY <2>1, FateTypes DEF TakeControl
    <3>2. next = Item("control", Head(controls))
      BY <1>2, <2>1 DEF TakeControl, OpenCrank
    <3>3. /\ Tail(controls) \in Seq(OfKind("control")) /\ Len(controls) \in Nat
          /\ Len(Tail(controls)) = Len(controls) - 1 /\ Len(controls) # 0
          /\ \A i \in 1 .. Len(controls) - 1 : Tail(controls)[i] = controls[i + 1]
          /\ Head(controls) = controls[1]
      BY <3>1
    <3>4. /\ Elements(controls) = {controls[i] : i \in 1 .. Len(controls)}
          /\ Elements(controls') = {controls'[i] : i \in 1 .. Len(controls')}
      <4>1. controls' \in Seq(OfKind("control"))
        BY <3>1, <3>3
      <4>2. Elements(controls) = {controls[i] : i \in 1 .. Len(controls)}
        BY <3>1, ElementsOf
      <4>3. Elements(controls') = {controls'[i] : i \in 1 .. Len(controls')}
        BY <4>1, ElementsOf
      <4> QED
        BY <4>2, <4>3
    <3>5. \A i \in 1 .. Len(Tail(controls)) :
            /\ i + 1 \in 1 .. Len(controls)
            /\ Tail(controls)[i] = controls[i + 1]
      BY <3>3
    <3>6. Elements(controls') \subseteq Elements(controls)
      BY <3>1, <3>4, <3>5
    <3>7. Head(controls) \in Elements(controls)
      BY <3>3, <3>4
    <3> QED
      BY <3>2, <3>6, <3>7 DEF Item
  <2>2. CASE UNCHANGED controls /\ ~TakeControl
    BY <2>2
  <2> QED
    BY <2>1, <2>2 DEF TakeItem, TakeChore, TakeArrival, DequeueRun, Sleep
<1>7. /\ Sound(store', Fresh)
      /\ next.who \notin Fresh
      /\ next.kind \in {"send", "later"} =>
            next.who \notin Whose(store'.queue) /\ Fits(next, store')
  <2>1. CASE TakeControl \/ TakeArrival \/ Sleep
    <3>1. store' = store
      BY <2>1 DEF TakeControl, TakeArrival, Sleep
    <3>2. next.who \in Elements(controls) \/ next.who = NoOne
      BY <1>2, <1>6, <2>1 DEF TakeArrival, Sleep, OpenCrank, NoItem, Item
    <3>3. next.kind \notin {"send", "later"}
      BY <1>2, <2>1 DEF TakeControl, TakeArrival, Sleep, OpenCrank, NoItem, Item
    <3>4. NoOne \notin Fresh
      BY <1>4, CallersAssumption DEF Unasked
    <3> QED
      BY <1>5, <3>1, <3>2, <3>3, <3>4 DEF FreshIsApart
  <2>2. CASE TakeChore
    <3>1. store' = [store EXCEPT !.chore = FALSE] /\ next = Item("chore", NoOne)
      BY <1>2, <2>2 DEF TakeChore, OpenCrank
    <3>2. /\ store'.queue = store.queue /\ store'.deciding = store.deciding
          /\ store'.resolved = store.resolved /\ store'.done = store.done
          /\ store'.vatDead = store.vatDead
      BY <3>1, FateTypes DEF StoreType
    <3>3. Sound(store', Fresh)
      <4>1. Tidy(store')
        BY <1>5, <3>2 DEF Sound, Tidy, Fits
      <4> QED
        BY <1>5, <3>2, <4>1 DEF Sound, Absent
    <3>4. next.who \notin Fresh
      BY <1>4, <3>1, CallersAssumption DEF Unasked, Item
    <3> QED
      BY <3>1, <3>3, <3>4 DEF Item
  <2>3. CASE DequeueRun
    <3>1. /\ store' = [store EXCEPT !.queue = Tail(@)] /\ next = Head(store.queue)
          /\ store.queue # <<>> /\ store.queue \in Seq(ItemType)
      BY <1>2, <2>3, FateTypes DEF DequeueRun, OpenCrank
    <3>2. /\ store'.queue = Tail(store.queue) /\ store'.deciding = store.deciding
          /\ store'.resolved = store.resolved /\ store'.done = store.done
          /\ store'.vatDead = store.vatDead
      BY <3>1, FateTypes DEF StoreType
    <3>3. Unrepeated(store.queue)
      BY <1>5 DEF Sound, Tidy
    <3>4. /\ Unrepeated(store'.queue) /\ next.who \notin Whose(store'.queue)
          /\ Whose(store'.queue) \subseteq Whose(store.queue)
          /\ next.who \in Whose(store.queue)
          /\ \A i \in 1 .. Len(store'.queue) :
                \E j \in 1 .. Len(store.queue) : store'.queue[i] = store.queue[j]
          /\ \E j \in 1 .. Len(store.queue) : next = store.queue[j]
      <4> DEFINE t == Tail(store.queue)
      <4>1. /\ Unrepeated(t) /\ Head(store.queue).who \notin Whose(t)
            /\ Whose(t) \subseteq Whose(store.queue)
            /\ Head(store.queue).who \in Whose(store.queue)
            /\ \A i \in 1 .. Len(t) :
                  \E j \in 1 .. Len(store.queue) : t[i] = store.queue[j]
            /\ \E j \in 1 .. Len(store.queue) : Head(store.queue) = store.queue[j]
        BY <3>1, <3>3, TailQueue
      <4>2. store'.queue = t
        BY <3>2
      <4> HIDE DEF t
      <4> QED
        BY <3>1, <4>1, <4>2
    <3>5. \A i \in 1 .. Len(store.queue) : Fits(store.queue[i], store')
      BY <1>5, <3>2 DEF Sound, Tidy, Fits
    <3>6. Tidy(store') /\ Fits(next, store')
      BY <3>4, <3>5 DEF Tidy
    <3>7. \A c \in Fresh : Absent(c, store')
      BY <1>5, <3>2, <3>4 DEF Sound, Absent
    <3>8. next.who \notin Fresh
      BY <1>5, <3>4 DEF Sound, Absent
    <3> QED
      BY <3>4, <3>6, <3>7, <3>8 DEF Sound
  <2> QED
    BY <2>1, <2>2, <2>3 DEF TakeItem
<1>8. FreshIsApart'
  <2>1. \A c \in Fresh : c \in taken' => c \in taken
    BY <1>2, <1>4 DEF FreshIsApart
  <2> QED
    BY <1>2, <1>3, <1>4, <1>6, <1>7, <2>1, FreshLess
<1>9. StoresAreSound'
  BY <1>2, <1>4, <1>5, <1>7 DEF StoresAreSound
<1>10. ItemIsOut' /\ BufferIsNext'
  BY <1>2, <1>3, <1>7 DEF ItemIsOut, BufferIsNext
<1> QED
  BY <1>0, <1>8, <1>9, <1>10

(* What a delivery must see to, the rest being as it was.                  *)
LEMMA DeliveredFate ==
    ASSUME FateInv, TypeOK', NEW v, Returns(v), Sound(store', Fresh),
           UNCHANGED taken, held' = held \/ held' = <<>>,
           atWork' \subseteq atWork, Unasked' \subseteq Unasked,
           BufferIsNext'
    PROVE  FateInv'
<1> USE DEF FateInv
<1>1. /\ pc' = "delivered" /\ UNCHANGED <<item, savepoint, committed, controls>>
  BY DEF Returns, controlVars
<1>2. Fresh' \subseteq Fresh /\ FreshIsApart'
  <2>1. InCrank'
    BY <1>1 DEF InCrank
  <2> QED
    BY <1>1, <2>1, FreshLess
<1>3. StoresAreSound'
  BY <1>1, <1>2, FewerSound DEF StoresAreSound
<1> QED
  BY <1>1, <1>2, <1>3 DEF ItemIsOut

LEMMA MessageIsOut ==
    ASSUME FateInv, pc = "delivering", item.kind \in {"send", "later"}
    PROVE  /\ item.who \notin Whose(store.queue) /\ Fits(item, store)
           /\ item.who \notin Fresh /\ buffer = <<>> /\ item \in ItemType
           /\ item.kind = "later" => item.who \in OfKind("message")
<1>1. item \in ItemType
  BY FateTypes DEF ItemsType
<1> QED
  BY <1>1, ItemFields DEF FateInv, ItemIsOut, FreshIsApart

LEMMA DeliverFate == ASSUME FateInv, Deliver PROVE FateInv'
<1> USE DEF FateInv
<1>0. TypeOK'
  BY DeliverTypes
<1>1. Sound(store, Fresh) /\ pc = "delivering"
  <2>1. pc = "delivering"
    BY DEF Deliver, DeliverSend, DeliverLater, Splat,
           DeliverKernelServiceMessage, DeliverOther, PerformVatRestart,
           PerformVatTermination, PerformControl, Returns
  <2> QED
    BY <2>1 DEF StoresAreSound
<1>2. ASSUME NEW m \in Messages, item = Item("send", m) \/ item = Item("later", m)
      PROVE  /\ item.who = m /\ m \notin Whose(store.queue) /\ Fits(item, store)
             /\ m \notin Fresh /\ buffer = <<>>
  <2>1. item.who = m /\ item.kind \in {"send", "later"}
    BY <1>2 DEF Item
  <2> QED
    BY <1>1, <2>1, MessageIsOut
<1>3. ASSUME NEW v, Returns(v), buffer' = <<>> PROVE BufferIsNext'
  BY <1>3 DEF BufferIsNext
<1>4. ASSUME UNCHANGED told PROVE Unasked' \subseteq Unasked
  BY <1>4 DEF Unasked
<1>5. ASSUME NEW who, NEW what, told' = Tell(told, who, what), what # "unasked"
      PROVE  Unasked' \subseteq Unasked
  BY <1>5, TellAsksNobody DEF Unasked
<1>6. ASSUME NEW what, TellDecided(what), what # "unasked"
      PROVE  Unasked' \subseteq Unasked
  BY <1>5, <1>6 DEF TellDecided
<1>7. ASSUME NEW m \in Messages, m \notin Whose(store.queue), m \notin Fresh,
             NEW t \in {[store EXCEPT !.deciding = @ \ {m},
                                      !.resolved = @ \cup {m}],
                        [store EXCEPT !.resolved = @ \cup {m}],
                        [store EXCEPT !.deciding = @ \cup {m}]}
      PROVE  /\ Sound(t, Fresh) /\ t.queue = store.queue
             /\ t.resolved \subseteq store.resolved \cup {m}
             /\ t.vatDead = store.vatDead
  <2>1. store \in StoreType
    BY FateTypes
  <2>2. CASE t = [store EXCEPT !.deciding = @ \ {m}, !.resolved = @ \cup {m}]
    BY <1>1, <1>7, <2>1, <2>2, ResolvedSound
  <2>3. CASE t = [store EXCEPT !.resolved = @ \cup {m}]
    BY <1>1, <1>7, <2>1, <2>3, ResolvedSound
  <2>4. CASE t = [store EXCEPT !.deciding = @ \cup {m}]
    BY <1>1, <1>7, <2>1, <2>4, ResolvedSound
  <2> QED
    BY <1>7, <2>2, <2>3, <2>4
<1>8. ASSUME NEW m \in Messages, DeliverSend(m) PROVE FateInv'
  <2>1. /\ item.who = m /\ m \notin Whose(store.queue) /\ Fits(item, store)
        /\ m \notin Fresh /\ buffer = <<>> /\ item.kind = "send"
    BY <1>2, <1>8 DEF DeliverSend, Item
  <2>2. PICK v : Returns(v)
    BY <1>8 DEF DeliverSend
  <2>3. UNCHANGED <<held, atWork, taken, told>>
    BY <1>8 DEF DeliverSend, callVars, workVars, replyVars
  <2>4. CASE VatResolves(m)
    <3>1. Sound(store', Fresh)
      BY <1>7, <2>1, <2>4 DEF VatResolves
    <3>2. BufferIsNext'
      BY <1>3, <2>1, <2>2, <2>4 DEF VatResolves
    <3> QED
      BY <1>0, <1>4, <2>2, <2>3, <3>1, <3>2, DeliveredFate
  <2>5. CASE /\ store' = [store EXCEPT !.deciding = @ \cup {m}]
             /\ buffer' = Append(buffer, Item("later", m))
    <3>1. Sound(store', Fresh) /\ store'.queue = store.queue
      BY <1>7, <2>1, <2>5
    <3>2. store'.resolved = store.resolved
      BY <2>5, FateTypes DEF StoreType
    <3>3. m \notin store'.resolved
      BY <2>1, <3>2 DEF Fits
    <3>4. Fits(Item("later", m), store')
      BY <3>3 DEF Fits, Item
    <3>5. pc' = "delivered" /\ item' = item
      BY <2>2 DEF Returns
    <3>6. m \in OfKind("message")
      BY <1>8, KindsApart DEF DeliverSend, OfKind
    <3>7. buffer' = <<Item("later", m)>>
      BY <2>1, <2>5
    <3>8. BufferIsNext'
      BY <2>1, <3>1, <3>4, <3>5, <3>6, <3>7 DEF BufferIsNext
    <3> QED
      BY <1>0, <1>4, <2>2, <2>3, <3>1, <3>8, DeliveredFate
  <2> QED
    BY <1>8, <2>4, <2>5 DEF DeliverSend
<1>9. ASSUME NEW m \in Messages, DeliverLater(m) PROVE FateInv'
  <2>1. /\ item.who = m /\ m \notin Whose(store.queue) /\ m \notin Fresh
        /\ buffer = <<>>
    BY <1>2, <1>9 DEF DeliverLater
  <2>2. PICK v : Returns(v)
    BY <1>9 DEF DeliverLater
  <2>3. UNCHANGED <<held, atWork, taken, told>>
    BY <1>9 DEF DeliverLater, callVars, workVars, replyVars
  <2>4. Sound(store', Fresh) /\ buffer' = <<>>
    BY <1>1, <1>7, <1>9, <2>1 DEF DeliverLater, VatResolves
  <2> QED
    BY <1>0, <1>3, <1>4, <2>2, <2>3, <2>4, DeliveredFate
<1>10. ASSUME NEW m \in Messages, Splat(m) PROVE FateInv'
  <2>1. /\ item.who = m /\ m \notin Whose(store.queue) /\ m \notin Fresh
        /\ buffer = <<>>
    BY <1>2, <1>10 DEF Splat
  <2>2. Returns(Verdict) /\ RejectAtOnce(m)
        /\ UNCHANGED <<held, atWork, taken, buffer>>
    BY <1>10 DEF Splat, workVars, replyVars
  <2>3. Sound(store', Fresh) /\ Unasked' \subseteq Unasked
    BY <1>5, <1>7, <2>1, <2>2 DEF RejectAtOnce
  <2> QED
    BY <1>0, <1>3, <2>1, <2>2, <2>3, DeliveredFate
<1>11. ASSUME NEW m \in Messages, DeliverKernelServiceMessage(m) PROVE FateInv'
  <2>1. /\ item.who = m /\ m \notin Whose(store.queue) /\ m \notin Fresh
        /\ buffer = <<>>
    BY <1>2, <1>11 DEF DeliverKernelServiceMessage
  <2>2. Returns(Verdict) /\ UNCHANGED <<held, atWork, taken, buffer>>
    BY <1>11 DEF DeliverKernelServiceMessage, workVars, replyVars
  <2>3. Sound(store', Fresh) /\ Unasked' \subseteq Unasked
    <3>1. CASE RejectAtOnce(m)
      BY <1>5, <1>7, <2>1, <3>1 DEF RejectAtOnce
    <3>2. CASE /\ store' = [store EXCEPT !.deciding = @ \cup {m}]
               /\ UNCHANGED told
      BY <1>4, <1>7, <2>1, <3>2
    <3> QED
      BY <1>11, <3>1, <3>2 DEF DeliverKernelServiceMessage
  <2> QED
    BY <1>0, <1>3, <2>1, <2>2, <2>3, DeliveredFate
<1>12. buffer = <<>>
  BY <1>1 DEF ItemIsOut
<1>13. CASE DeliverOther
  <2>1. PICK v : Returns(v)
    BY <1>13 DEF DeliverOther
  <2>2. UNCHANGED <<held, atWork, taken, told, buffer, store>>
    BY <1>13 DEF DeliverOther, callVars, workVars, replyVars
  <2> QED
    BY <1>0, <1>1, <1>3, <1>4, <1>12, <2>1, <2>2, DeliveredFate
<1>14. taken \in SUBSET Callers /\ Fresh \cap taken = {}
  BY KindsApart DEF TypeOK, FreshIsApart
<1>15. CASE PerformVatRestart
  <2>1. PICK v : Returns(v)
    BY <1>15 DEF PerformVatRestart
  <2>2. UNCHANGED <<held, atWork, taken, told, buffer>>
    BY <1>15 DEF PerformVatRestart, callVars, workVars
  <2>3. \/ store' = store
        \/ store' = [store EXCEPT !.done = @ \cup taken]
    BY <1>15 DEF PerformVatRestart
  <2>4. Sound(store', Fresh)
    BY <1>1, <1>14, <2>3, FateTypes, DoneSound, ZenonT(60)
  <2> QED
    BY <1>0, <1>3, <1>4, <1>12, <2>1, <2>2, <2>4, DeliveredFate
<1>16. CASE PerformVatTermination
  <2>1. PICK v : Returns(v)
    BY <1>16 DEF PerformVatTermination
  <2>2. UNCHANGED <<held, atWork, taken, buffer>>
    BY <1>16 DEF PerformVatTermination, AnswerTermination
  <2>3. Unasked' \subseteq Unasked
    <3>1. TellDecided("answered") \/ UNCHANGED told
      BY <1>16 DEF PerformVatTermination
    <3> QED
      BY <1>4, <1>6, <3>1
  <2>4. Sound(store', Fresh)
    <3> DEFINE carried == [store EXCEPT !.done = @ \cup taken]
    <3>1. carried \in StoreType /\ carried.deciding = store.deciding
          /\ Sound(carried, Fresh)
      BY <1>1, <1>14, FateTypes, DoneSound
    <3>2. store' \in {carried, Retired(carried), Retired(store), store}
      BY <1>16 DEF PerformVatTermination
    <3> HIDE DEF carried
    <3> QED
      BY <1>1, <3>1, <3>2, FateTypes, RetiredSound
  <2> QED
    BY <1>0, <1>3, <1>12, <2>1, <2>2, <2>3, <2>4, DeliveredFate
<1>17. ASSUME NEW c \in Callers, PerformControl(c) PROVE FateInv'
  <2>1. Returns(Verdict) /\ UNCHANGED <<buffer, taken>> /\ item.who = c
    BY <1>17 DEF PerformControl, replyVars, Item
  <2>2. c \notin Fresh
    BY <2>1 DEF FreshIsApart
  <2>3. CASE /\ store' = Retired([store EXCEPT !.done = @ \cup {c}])
             /\ TellDecided("splat") /\ UNCHANGED <<held, workVars>>
    <3> DEFINE carried == [store EXCEPT !.done = @ \cup {c}]
    <3>1. carried \in StoreType /\ carried.deciding = store.deciding
          /\ Sound(carried, Fresh)
      BY <1>1, <2>2, FateTypes, DoneSound, ZenonT(60)
    <3>2. Sound(store', Fresh)
      <4> HIDE DEF carried
      <4>1. Sound(Retired(carried), Fresh)
        BY <3>1, RetiredSound
      <4> QED
        BY <2>3, <4>1 DEF carried
    <3> QED
      BY <1>0, <1>3, <1>6, <1>12, <2>1, <2>3, <3>2, DeliveredFate DEF workVars
  <2>4. CASE /\ store' = [EmptyStore EXCEPT !.vatDead = TRUE,
                                            !.resolved = store.resolved,
                                            !.done = store.done \cup {c}]
             /\ \E who : told' = Tell(told, who, "refused")
             /\ held' = <<>> /\ atWork' = {}
    <3>1. /\ store'.queue = <<>> /\ store'.deciding = {}
          /\ store'.resolved = store.resolved
          /\ store'.done = store.done \cup {c}
      BY <2>4 DEF EmptyStore
    <3>2. Tidy(store')
      BY <3>1 DEF Tidy, Unrepeated
    <3>3. \A d \in Fresh : Absent(d, store')
      BY <1>1, <2>2, <3>1 DEF Sound, Absent, Whose
    <3>4. Sound(store', Fresh)
      BY <3>2, <3>3 DEF Sound
    <3> QED
      BY <1>0, <1>3, <1>5, <1>12, <2>1, <2>4, <3>4, DeliveredFate
  <2> QED
    BY <1>17, <2>3, <2>4 DEF PerformControl, AbandonQueuedWork
<1> QED
  BY <1>8, <1>9, <1>10, <1>11, <1>13, <1>15, <1>16, <1>17 DEF Deliver

LEMMA FlushedSound ==
    ASSUME FateInv, pc = "collecting", NEW chore, NEW t,
           t = [store EXCEPT !.chore = chore,
                             !.queue = IF verdict.abort THEN @ ELSE @ \o buffer]
    PROVE  Sound(t, Fresh)
<1> USE DEF FateInv
<1> DEFINE q == store.queue \o buffer
<1>1. /\ t.deciding = store.deciding /\ t.resolved = store.resolved
      /\ t.vatDead = store.vatDead /\ t.done = store.done
      /\ t.queue = IF verdict.abort THEN store.queue ELSE q
  BY FateTypes DEF StoreType
<1>2. Sound(store, Fresh) /\ store.queue \in Seq(ItemType)
      /\ buffer \in Seq(ItemType)
  BY FateTypes DEF StoresAreSound
<1>3. CASE t.queue = store.queue
  BY <1>1, <1>2, <1>3 DEF Sound, Tidy, Fits, Absent
<1>4. CASE buffer # <<>> /\ ~verdict.abort
  <2> DEFINE next == Item("later", item.who)
  <2>1. /\ buffer = <<next>> /\ next.who = item.who
        /\ next.who \notin Whose(store.queue) /\ Fits(next, store)
    BY <1>4 DEF BufferIsNext, Item
  <2> HIDE DEF next
  <2>2. Len(buffer) = 1 /\ buffer[1] = next
    BY <2>1
  <2>3. Unrepeated(buffer) /\ Whose(buffer) = {next.who}
    BY <2>2 DEF Unrepeated, Whose
  <2>4. /\ Unrepeated(q) /\ Whose(q) = Whose(store.queue) \cup Whose(buffer)
        /\ \A i \in 1 .. Len(q) :
              \/ \E j \in 1 .. Len(store.queue) : q[i] = store.queue[j]
              \/ \E j \in 1 .. Len(buffer) : q[i] = buffer[j]
    <3>1. Unrepeated(store.queue) /\ Whose(store.queue) \cap Whose(buffer) = {}
      BY <1>2, <2>1, <2>3 DEF Sound, Tidy
    <3> QED
      BY <1>2, <2>3, <3>1, JoinedQueues
  <2> HIDE DEF q
  <2>5. t.queue = q
    BY <1>1, <1>4
  <2>6. \A i \in 1 .. Len(q) : Fits(q[i], store)
    BY <1>2, <2>1, <2>2, <2>4 DEF Sound, Tidy
  <2>7. Tidy(t)
    <3>1. \A i \in 1 .. Len(q) : Fits(q[i], t)
      BY <1>1, <2>6 DEF Fits
    <3> QED
      BY <2>4, <2>5, <3>1 DEF Tidy
  <2>8. \A c \in Fresh : Absent(c, t)
    BY <1>1, <1>2, <2>1, <2>3, <2>4, <2>5 DEF Sound, Absent, FreshIsApart
  <2> QED
    BY <2>7, <2>8 DEF Sound
<1>5. CASE buffer = <<>>
  <2>1. q = store.queue
    BY <1>2, <1>5
  <2> HIDE DEF q
  <2> QED
    BY <1>1, <1>3, <2>1
<1> QED
  BY <1>1, <1>3, <1>4, <1>5

LEMMA FinishedAsks ==
    ASSUME TypeOK, NEW c \in Callers, TellFinished[c] = "unasked"
    PROVE  c \in Unasked
<1>1. verdict.reply # "unasked"
  BY DEF TypeOK, VerdictType
<1> DEFINE f == Tell(told, due.answered, "answered")
           g == Tell(TellDue(told), {controlInFlight}, "answered")
<1>2. g[c] = "unasked"
  <2>1. PICK who : TellFinished = Tell(g, who, verdict.reply)
    BY DEF TellFinished
  <2> HIDE DEF g
  <2> QED
    BY <1>1, <2>1, TellAsksNobody
<1>3. TellDue(told)[c] = "unasked"
  BY <1>2, TellAsksNobody
<1>4. f[c] = "unasked"
  <2>1. TellDue(told) = Tell(f, due.refused, "refused")
    BY DEF TellDue
  <2> HIDE DEF f
  <2> QED
    BY <1>3, <2>1, TellAsksNobody
<1>5. told[c] = "unasked"
  BY <1>4, TellAsksNobody
<1> QED
  BY <1>5 DEF Unasked

(* A step of the turn that writes the store and answers, no more.          *)
LEMMA TurnedFate ==
    ASSUME FateInv, TypeOK', InCrank', pc' # "delivering",
           UNCHANGED <<item, savepoint, committed, taken, held, controls, atWork>>,
           Unasked' \subseteq Unasked, Sound(store', Fresh), BufferIsNext'
    PROVE  FateInv'
<1> USE DEF FateInv
<1>1. Fresh' \subseteq Fresh /\ FreshIsApart'
  BY FreshLess
<1>2. StoresAreSound'
  BY <1>1, FewerSound DEF StoresAreSound
<1> QED
  BY <1>1, <1>2 DEF ItemIsOut

LEMMA EndCrankFate == ASSUME FateInv, TypeOK', EndCrank PROVE FateInv'
<1> USE DEF FateInv
<1>1. /\ pc = "flushed" /\ pc' \in {"afterCommit", "top"} /\ held' = <<>>
      /\ taken' = {} /\ item' = NoItem
      /\ UNCHANGED <<atWork, controls, buffer, savepoint>>
  BY DEF EndCrank, workVars
<1>2. buffer = <<>>
  BY <1>1 DEF BufferIsNext
<1>3. PICK missing : /\ store' = Written(held, missing, store)
                     /\ committed' = store'
                     /\ told' = Tell(Tell(TellFinished,
                                          Elements(held) \cap OfKind("write"),
                                          "answered"),
                                     missing, "refused")
  BY DEF EndCrank, WriteRequests
<1>4. Unasked' \subseteq Unasked
  <2> SUFFICES ASSUME NEW c \in Callers, told'[c] = "unasked"
               PROVE  c \in Unasked
    BY DEF Unasked
  <2> DEFINE f == Tell(TellFinished, Elements(held) \cap OfKind("write"),
                       "answered")
  <2>1. told' = Tell(f, missing, "refused")
    BY <1>3
  <2>2. f[c] = "unasked"
    <3> HIDE DEF f
    <3> QED
      BY <2>1, TellAsksNobody
  <2>3. TellFinished[c] = "unasked"
    BY <2>2, TellAsksNobody
  <2> QED
    BY <2>3, FinishedAsks
<1>5. Elements(held') = {} /\ Fresh' \subseteq Unasked
  BY <1>1, <1>4 DEF Elements, Fresh
<1>6. Fresh' \subseteq Fresh \ Elements(held) /\ Elements(held) \subseteq Fresh
  BY <1>5 DEF Fresh, FreshIsApart
<1>7. Sound(store', Fresh')
  <2>1. \A i, j \in 1 .. Len(held) : held[i] = held[j] => i = j
    BY DEF FreshIsApart
  <2>2. Sound(store, Fresh) /\ store \in StoreType /\ held \in Seq(Requests)
    BY FateTypes DEF StoresAreSound
  <2>3. Sound(Written(held, missing, store), Fresh')
    BY <1>6, <2>1, <2>2, WrittenSound
  <2> QED
    BY <1>3, <2>3
<1>8. StoresAreSound'
  BY <1>1, <1>3, <1>6, <1>7, FewerSound DEF StoresAreSound
<1>9. FreshIsApart'
  <2>1. \A c \in Fresh' : c \in Callers
    BY <1>5 DEF Unasked
  <2>2. item'.who = NoOne
    BY <1>1 DEF NoItem, Item
  <2>3. \A c \in Fresh' : c # item'.who /\ c \notin taken' \cup Elements(controls')
    BY <1>1, <1>6, <2>1, <2>2, CallersAssumption DEF FreshIsApart
  <2>4. Unasked' \cap (atWork' \cup Elements(held')) = {}
    BY <1>1, <1>4, <1>5 DEF FreshIsApart
  <2> QED
    BY <1>1, <2>3, <2>4 DEF FreshIsApart
<1> QED
  BY <1>1, <1>2, <1>8, <1>9 DEF ItemIsOut, BufferIsNext

LEMMA TurnFate == ASSUME FateInv, ParkInv, Turn PROVE FateInv'
<1> USE DEF FateInv
<1>0. TypeOK'
  BY TurnTypes
<1>1. CASE StartLoop \/ StopLoop \/ WakeUp \/ FinishTurn
  <2>1. /\ UNCHANGED <<item, verdict, buffer, savepoint, store, committed,
                       taken, held, atWork, controls>>
        /\ pc \notin {"delivering", "delivered", "terminating", "collecting",
                      "flushed"}
        /\ pc' \in {"top", "off"}
    BY <1>1
    DEF StartLoop, StopLoop, WakeUp, FinishTurn, crankVars, replyVars, callVars,
        workVars, controlVars, ParkInv
  <2>2. Unasked' \subseteq Unasked
    <3>1. \/ told' = told
          \/ told' = Tell(told, Waiting \cap OfKind("stop"), "answered")
      <4>1. CASE StartLoop
        BY <4>1 DEF StartLoop
      <4>2. CASE StopLoop
        BY <4>2 DEF StopLoop
      <4>3. CASE WakeUp \/ FinishTurn
        BY <4>3 DEF WakeUp, FinishTurn
      <4> QED
        BY <1>1, <4>1, <4>2, <4>3
    <3> QED
      BY <3>1, TellAsksNobody DEF Unasked
  <2>3. held = <<>> /\ buffer = <<>>
    BY <2>1 DEF FreshIsApart, InCrank, BufferIsNext
  <2>4. Fresh' \subseteq Fresh /\ FreshIsApart'
    BY <2>1, <2>2, <2>3, FreshLess
  <2>5. ItemIsOut' /\ BufferIsNext'
    BY <2>1, <2>3 DEF ItemIsOut, BufferIsNext
  <2> QED
    BY <1>0, <2>1, <2>4, <2>5, StoresAside
<1>2. CASE ProcessCrankResult
  <2>1. /\ pc = "delivered" /\ pc' \in {"terminating", "collecting"} /\ InCrank'
        /\ UNCHANGED <<item, verdict, savepoint, committed, taken, held,
                       controls, atWork>>
    BY <1>2 DEF ProcessCrankResult, InCrank, workVars, replyVars, controlVars
  <2>2. Unasked' \subseteq Unasked
    <3>1. told' = told \/ \E lost : told' = Tell(told, lost, "refused")
      BY <1>2 DEF ProcessCrankResult
    <3> QED
      BY <3>1, TellAsksNobody DEF Unasked
  <2>3. CASE verdict.abort
    <3>1. store' = savepoint /\ buffer' = <<>>
      BY <1>2, <2>3 DEF ProcessCrankResult, RollbackCrank
    <3>2. Sound(store', Fresh) /\ BufferIsNext'
      BY <3>1 DEF StoresAreSound, BufferIsNext
    <3> QED
      BY <1>0, <2>1, <2>2, <3>2, TurnedFate
  <2>4. CASE ~verdict.abort
    <3>1. store' = store /\ buffer' = buffer
      BY <1>2, <2>4 DEF ProcessCrankResult
    <3>2. Sound(store', Fresh) /\ BufferIsNext'
      BY <2>1, <2>4, <3>1 DEF StoresAreSound, BufferIsNext
    <3> QED
      BY <1>0, <2>1, <2>2, <3>2, TurnedFate
  <2> QED
    BY <2>3, <2>4
<1>3. CASE TerminateVat
  <2>1. /\ pc = "terminating" /\ pc' = "collecting" /\ InCrank'
        /\ store' = Retired(store)
        /\ UNCHANGED <<item, verdict, savepoint, committed, taken, held,
                       controls, atWork, buffer>>
    BY <1>3 DEF TerminateVat, InCrank, workVars, replyVars, controlVars
  <2>2. Unasked' \subseteq Unasked
    BY <1>3, TellAsksNobody DEF TerminateVat, TellDecided, Unasked
  <2>3. Sound(store', Fresh)
    BY <2>1, RetiredSound, FateTypes DEF StoresAreSound
  <2>4. store'.queue = store.queue /\ store'.vatDead
    BY <2>1, FateTypes DEF Retired, StoreType
  <2>5. Fits(Item("later", item.who), store')
    BY <2>4 DEF Fits, Item
  <2>6. BufferIsNext'
    BY <2>1, <2>4, <2>5 DEF BufferIsNext
  <2> QED
    BY <1>0, <2>1, <2>2, <2>3, <2>6, TurnedFate
<1>4. CASE CollectAndFlush
  <2>1. /\ pc = "collecting" /\ pc' = "flushed" /\ InCrank'
        /\ UNCHANGED <<item, verdict, savepoint, committed, taken, held,
                       controls, atWork>>
    BY <1>4 DEF CollectAndFlush, InCrank, workVars, replyVars, controlVars
  <2>2. Unasked' \subseteq Unasked
    <3>1. \/ told' = told
          \/ told' = Tell(told, resolvedNow \cap subscriptions, "answered")
      BY <1>4 DEF CollectAndFlush
    <3> QED
      BY <3>1, TellAsksNobody DEF Unasked
  <2>3. buffer' = <<>>
    BY <1>4, <2>1 DEF CollectAndFlush, BufferIsNext
  <2>4. PICK chore : store' = [store EXCEPT !.chore = chore,
                          !.queue = IF verdict.abort THEN @ ELSE @ \o buffer]
    BY <1>4 DEF CollectAndFlush
  <2>5. Sound(store', Fresh)
    BY <2>1, <2>4, FlushedSound
  <2> QED
    BY <1>0, <2>1, <2>2, <2>3, <2>5, TurnedFate DEF BufferIsNext
<1>5. CASE EndCrank
  BY <1>0, <1>5, EndCrankFate
<1> QED
  BY <1>1, <1>2, <1>3, <1>4, <1>5, TakeFate, DeliverFate DEF Turn

(* The loop dies leaving `s`: nothing is held any longer, and no more is   *)
(* fresh than what has not been asked for.                                 *)
LEMMA DeathFate ==
    ASSUME FateInv, TypeOK', NEW s, NEW f, FailRunLoop(s, f),
           \A c \in Callers : f[c] = "unasked" => c \in Unasked,
           Sound(s, Unasked)
    PROVE  FateInv'
<1> USE DEF FateInv
<1>1. /\ pc' = "off" /\ store' = s /\ committed' = s /\ held' = <<>>
      /\ controls' = <<>> /\ buffer' = <<>> /\ taken' = {} /\ item' = NoItem
      /\ UNCHANGED <<atWork, savepoint>>
  BY DEF FailRunLoop, workVars
<1>2. Unasked' \subseteq Unasked
  BY DEF FailRunLoop, Unasked
<1>3. Elements(held') = {} /\ Elements(controls') = {}
  BY <1>1 DEF Elements
<1>4. Fresh' \subseteq Unasked /\ Unasked \subseteq Fresh
  BY <1>2, <1>3 DEF Fresh
<1>5. StoresAreSound'
  <2>1. Sound(s, Fresh') /\ Sound(savepoint, Fresh')
    BY <1>4, FewerSound DEF StoresAreSound
  <2> QED
    BY <1>1, <2>1 DEF StoresAreSound
<1>6. FreshIsApart'
  <2>1. item'.who = NoOne
    BY <1>1 DEF NoItem, Item
  <2>2. \A c \in Fresh' : c # item'.who /\ c \notin taken' \cup Elements(controls')
    BY <1>1, <1>3, <1>4, <2>1, CallersAssumption DEF Unasked
  <2>3. Unasked' \cap (atWork' \cup Elements(held')) = {}
    BY <1>1, <1>2, <1>3 DEF FreshIsApart
  <2> QED
    BY <1>1, <2>2, <2>3 DEF FreshIsApart
<1> QED
  BY <1>1, <1>5, <1>6 DEF ItemIsOut, BufferIsNext

LEMMA PrefixOf ==
    ASSUME NEW S, NEW seq \in Seq(S), NEW n \in 0 .. Len(seq) - 1
    PROVE  /\ SubSeq(seq, 1, n) \in Seq(S) /\ Len(SubSeq(seq, 1, n)) = n
           /\ n \in Nat /\ 1 .. n \subseteq 1 .. Len(seq)
           /\ \A i \in 1 .. n : SubSeq(seq, 1, n)[i] = seq[i]
OBVIOUS

LEMMA FaultFate == ASSUME FateInv, Fault PROVE FateInv'
<1> USE DEF FateInv
<1>0. TypeOK'
  BY FaultTypes
<1>1. Unasked \subseteq Fresh
  BY DEF Fresh
<1>2. Sound(store, Unasked) /\ Sound(savepoint, Unasked)
      /\ Sound(committed, Unasked)
  BY <1>1, FewerSound DEF StoresAreSound
<1>3. \A c \in Callers : told[c] = "unasked" => c \in Unasked
  BY DEF Unasked
<1>4. CASE CrankThrows \/ CommitFails \/ AfterCommitThrows
  <2>1. \E s \in {store, savepoint, committed} : FailRunLoop(s, told)
    BY <1>4 DEF CrankThrows, CommitFails, AfterCommitThrows
  <2> QED
    BY <1>0, <1>2, <1>3, <2>1, DeathFate
<1>5. CASE TerminateThrows
  <2>1. \E s \in {store, Retired(store)} : FailRunLoop(s, told)
    BY <1>5 DEF TerminateThrows
  <2>2. Sound(Retired(store), Unasked)
    BY <1>2, RetiredSound, FateTypes
  <2> QED
    BY <1>0, <1>2, <1>3, <2>1, <2>2, DeathFate
<1>6. CASE HeldWriteThrows
  <2>1. PICK n \in 0 .. Len(held) - 1 :
          LET before == SubSeq(held, 1, n)
          IN  FailRunLoop(Written(before, {}, store),
                          Tell(TellFinished,
                               Elements(before) \cap OfKind("write"),
                               "answered"))
    BY <1>6 DEF HeldWriteThrows
  <2> DEFINE before == SubSeq(held, 1, n)
             f == Tell(TellFinished, Elements(before) \cap OfKind("write"),
                       "answered")
  <2>2. FailRunLoop(Written(before, {}, store), f)
    BY <2>1
  <2>3. \A c \in Callers : f[c] = "unasked" => c \in Unasked
    BY TellAsksNobody, FinishedAsks
  <2>4. /\ before \in Seq(Requests) /\ Len(before) = n
        /\ \A i \in 1 .. n : before[i] = held[i]
        /\ 1 .. n \subseteq 1 .. Len(held)
    BY FateTypes, PrefixOf
  <2> HIDE DEF before, f
  <2>5. \A i, j \in 1 .. Len(before) : before[i] = before[j] => i = j
    BY <2>4 DEF FreshIsApart
  <2>6. Elements(before) \subseteq Elements(held)
    <3>1. Elements(before) = {before[i] : i \in 1 .. n}
      BY <2>4, ElementsOf
    <3>2. Elements(held) = {held[i] : i \in 1 .. Len(held)}
      BY FateTypes, ElementsOf
    <3> QED
      BY <2>4, <3>1, <3>2
  <2>7. Elements(before) \subseteq Fresh /\ Unasked \subseteq Fresh \ Elements(before)
    BY <2>6 DEF Fresh, FreshIsApart
  <2>8. Sound(store, Fresh) /\ store \in StoreType
    BY FateTypes DEF StoresAreSound
  <2>9. Sound(Written(before, {}, store), Unasked)
    BY <2>4, <2>5, <2>7, <2>8, WrittenSound
  <2> QED
    BY <1>0, <2>2, <2>3, <2>9, DeathFate
<1>7. CASE Crash
  <2>1. /\ pc' = "off" /\ held' = <<>> /\ controls' = <<>> /\ buffer' = <<>>
        /\ taken' = {} /\ item' = NoItem /\ atWork' = {}
        /\ savepoint' = EmptyStore
        /\ store' = committed' /\ committed' \in {committed, store}
    BY <1>7 DEF Crash, AbandonQueuedWork
  <2>2. Unasked' \subseteq Unasked
    BY <1>7 DEF Crash, Unasked
  <2>3. Elements(held') = {} /\ Elements(controls') = {}
    BY <2>1 DEF Elements
  <2>4. Fresh' \subseteq Unasked
    BY <2>2, <2>3 DEF Fresh
  <2>5. StoresAreSound'
    BY <1>2, <2>1, <2>4, FewerSound, EmptySound DEF StoresAreSound
  <2>6. FreshIsApart'
    <3>1. item'.who = NoOne
      BY <2>1 DEF NoItem, Item
    <3>2. \A c \in Fresh' : c # item'.who /\ c \notin taken' \cup Elements(controls')
      BY <2>1, <2>3, <2>4, <3>1, CallersAssumption DEF Unasked
    <3> QED
      BY <2>1, <2>3, <3>2 DEF FreshIsApart
  <2> QED
    BY <1>0, <2>1, <2>5, <2>6 DEF ItemIsOut, BufferIsNext
<1> QED
  BY <1>4, <1>5, <1>6, <1>7 DEF Fault

LEMMA FateInitially == Init => FateInv
<1> SUFFICES ASSUME Init PROVE FateInv
  OBVIOUS
<1>1. StoresAreSound
  BY EmptySound DEF Init, StoresAreSound
<1>2. FreshIsApart
  <2>1. Elements(held) = {} /\ Elements(controls) = {} /\ item.who = NoOne
    BY DEF Init, Elements, NoItem, Item
  <2> QED
    BY <2>1, CallersAssumption DEF Init, FreshIsApart, Fresh, Unasked
<1> QED
  BY <1>1, <1>2, TypesInitially DEF Init, FateInv, ItemIsOut, BufferIsNext

LEMMA NextFate == ASSUME FateInv, ParkInv, [Next]_vars PROVE FateInv'
<1>1. CASE UNCHANGED vars
  <2>1. TypeOK'
    BY NextTypes DEF FateInv
  <2>2. /\ Fresh' = Fresh /\ Unasked' = Unasked
    BY <1>1 DEF vars, callVars, Fresh, Unasked
  <2>3. StoresAreSound' /\ FreshIsApart'
    BY <1>1, <2>2
    DEF vars, runVars, callVars, crankVars, replyVars, controlVars, workVars,
        FateInv, StoresAreSound, FreshIsApart, InCrank
  <2>4. ItemIsOut' /\ BufferIsNext'
    BY <1>1, ItemAside DEF vars, runVars, crankVars
  <2> QED
    BY <2>1, <2>3, <2>4 DEF FateInv
<1> QED
  BY <1>1, OutsideFate, TurnFate, FaultFate DEF Next

(* A tidy store holds no more than one item for a message.                 *)
LEMMA TidyIsOneFate ==
    ASSUME committed \in StoreType, Tidy(committed) PROVE OneFate
<1> SUFFICES ASSUME NEW m \in Messages
             PROVE  /\ Cardinality(Places(m)) + Cardinality(FollowUps(m)) <= 1
                    /\ Places(m) # {} =>
                         m \notin committed.deciding \cup committed.resolved
                    /\ FollowUps(m) # {} =>
                         m \notin committed.resolved \/ committed.vatDead
  BY DEF OneFate
<1> DEFINE q == committed.queue
<1>1. /\ \A i \in Places(m) : /\ i \in 1 .. Len(q) /\ q[i].who = m
                              /\ q[i].kind = "send"
      /\ \A i \in FollowUps(m) : /\ i \in 1 .. Len(q) /\ q[i].who = m
                                 /\ q[i].kind = "later"
  BY StoreFields DEF Places, FollowUps, Item
<1>2. \A i, j \in Places(m) \cup FollowUps(m) : i = j
  BY <1>1 DEF Tidy, Unrepeated
<1>3. Places(m) \cap FollowUps(m) = {}
  BY <1>1
<1>4. \/ /\ Cardinality(Places(m)) = 0
         /\ Cardinality(FollowUps(m)) \in {0, 1}
      \/ /\ Cardinality(FollowUps(m)) = 0
         /\ Cardinality(Places(m)) \in {0, 1}
  <2>1. ASSUME NEW i \in Places(m)
        PROVE  FollowUps(m) = {} /\ Places(m) = {i}
    BY <1>2, <1>3
  <2>2. ASSUME NEW i \in FollowUps(m), Places(m) = {}
        PROVE  FollowUps(m) = {i}
    BY <1>2, <2>2
  <2>3. CASE Places(m) # {}
    BY <2>1, <2>3, FS_EmptySet, FS_Singleton
  <2>4. CASE Places(m) = {}
    BY <2>2, <2>4, FS_EmptySet, FS_Singleton
  <2> QED
    BY <2>3, <2>4
<1>5. Cardinality(Places(m)) + Cardinality(FollowUps(m)) <= 1
  BY <1>4
<1>6. Places(m) # {} => m \notin committed.deciding \cup committed.resolved
  BY <1>1 DEF Tidy, Fits
<1>7. FollowUps(m) # {} => m \notin committed.resolved \/ committed.vatDead
  BY <1>1 DEF Tidy, Fits
<1> QED
  BY <1>5, <1>6, <1>7

(* What a restart finds of a message is in one place only, whatever        *)
(* aborted, died, was refused or was wiped on the way.                     *)
THEOREM AlwaysOneFate == Spec => []OneFate
<1>1. Init => ParkInv /\ WorkInv /\ FateInv
  BY ParkedInitially, FateInitially
<1>2. ParkInv /\ WorkInv /\ FateInv /\ [Next]_vars
        => (ParkInv /\ WorkInv /\ FateInv)'
  BY NextParked, NextFate
<1>3. FateInv => OneFate
  BY TidyIsOneFate DEF FateInv, TypeOK, StoresAreSound, Sound
<1> QED
  BY <1>1, <1>2, <1>3, PTL DEF Spec

-----------------------------------------------------------------------------
(* Nobody waits unowed: why EveryWaiterIsOwed holds.                       *)

(* A follow-up waits for a promise its vat is to resolve or, the vat being *)
(* dead, for nobody's.                                                     *)
Expected(i, s, subscribed) ==
    i.kind = "later" =>
        IF s.vatDead THEN i.who \notin subscribed ELSE i.who \in s.deciding

FollowUpsIn(s, subscribed) ==
    \A i \in Elements(s.queue) : Expected(i, s, subscribed)

FollowUpsExpected ==
    /\ FollowUpsIn(store, subscriptions)
    /\ FollowUpsIn(savepoint, subscriptions)
    /\ FollowUpsIn(committed, subscriptions)
    /\ \A i \in Elements(buffer) : Expected(i, store, subscriptions)
    /\ pc = "delivering" => Expected(item, store, subscriptions)

(* While a delivery may come to nothing, whoever subscribed has a trace in *)
(* the store it would be rolled back to as well.                           *)
Undoable == pc = "delivering" \/ (pc = "delivered" /\ verdict.abort)

SavedTraces ==
    Undoable =>
        /\ Elements(store.queue) \subseteq Elements(savepoint.queue)
        /\ savepoint.deciding \cap serving \subseteq store.deciding
        /\ subscriptions \subseteq
               Whose(savepoint.queue) \cup (serving \cap savepoint.deciding)

Traces == Whose(store.queue) \cup Whose(buffer) \cup resolvedNow
              \cup (serving \cap store.deciding)

SubscribersTraced ==
    \A c \in subscriptions : c \in Traces \/ (Undoable /\ c = item.who)

ResolvedInCrank ==
    resolvedNow # {} =>
        /\ pc \in {"delivered", "terminating", "collecting"}
        /\ pc # "delivered" => ~verdict.abort

PromisesInv ==
    FollowUpsExpected /\ SavedTraces /\ SubscribersTraced /\ ResolvedInCrank

(* Work somebody waits for is in the queue, held or being done; so is a    *)
(* termination for as long as it overtakes.                                *)
Backlog == Whose(store.queue) \cup Elements(held)

InHands == IF pc = "delivering" THEN {item.who} ELSE {}

Terminations == OfKind("terminate") \cap (Backlog \cup InHands)

BacklogInv ==
    loop # "failed" =>
        /\ atWork \subseteq Backlog
        /\ pendingTerminations <= Cardinality(Terminations)

ItemIsNotQueued ==
    Undoable /\ item.kind = "terminate" =>
        pc = "delivering" /\ item.who \notin Whose(store.queue)

TakenAreOwed ==
    \A c \in taken \cap Waiting :
        \/ pc = "delivering"
        \/ c \in due.answered \cup due.refused
        \/ verdict.afterCommit /\ ~verdict.abort

HandsAreEmpty ==
    /\ loop # "running" => pc = "off"
    /\ ~InCrank => taken = {} /\ due = NobodyDue /\ controlInFlight = NoOne
    /\ pc = "delivering" => due = NobodyDue

WorkersInv ==
    /\ BacklogInv
    /\ superseded # {} => pendingTerminations > 0
    /\ ItemIsNotQueued
    /\ TakenAreOwed
    /\ HandsAreEmpty

(* Whoever waits is on the list of what it asked for.                      *)
Listed(c) ==
    /\ c \in OfKind("write") => c \in Elements(held)
    /\ c \in Messages => c \in Elements(held) \cup subscriptions
    /\ c \in Work => c \in atWork \cup taken \cup superseded
                              \cup due.answered \cup due.refused
    /\ c \in OfKind("control") => c \in Elements(controls) \cup {controlInFlight}
    /\ c \in OfKind("stop") => ending /\ loop = "running"

WaitersListed ==
    /\ \A c \in Waiting : Listed(c)
    /\ loop = "failed" => Waiting = {}

OwedInv == PromisesInv /\ WorkersInv /\ WaitersListed

(* Queues, as the items in them and whose they are.                        *)
LEMMA QueueElements ==
    ASSUME NEW q \in Seq(ItemType)
    PROVE  /\ Elements(q) = {q[i] : i \in 1 .. Len(q)}
           /\ Elements(q) \subseteq ItemType
           /\ Whose(q) = {i.who : i \in Elements(q)}
BY ElementsOf DEF Whose, Elements

LEMMA EmptyQueue == Elements(<<>>) = {} /\ Whose(<<>>) = {}
BY DEF Elements, Whose

LEMMA JoinedElements ==
    ASSUME NEW S, NEW p \in Seq(S), NEW q \in Seq(S)
    PROVE  Elements(p \o q) = Elements(p) \cup Elements(q)
<1> DEFINE r == p \o q
<1>1. /\ r \in Seq(S) /\ Len(r) = Len(p) + Len(q)
      /\ Len(p) \in Nat /\ Len(q) \in Nat
      /\ \A i \in 1 .. Len(p) : r[i] = p[i]
      /\ \A i \in 1 .. Len(q) : r[Len(p) + i] = q[i]
  OBVIOUS
<1> HIDE DEF r
<1>2. \A i \in 1 .. Len(p) : i \in 1 .. Len(r)
  BY <1>1
<1>3. \A i \in 1 .. Len(q) : Len(p) + i \in 1 .. Len(r)
  BY <1>1
<1>4. \A i \in 1 .. Len(r) : i \in 1 .. Len(p) \/ i - Len(p) \in 1 .. Len(q)
  BY <1>1
<1>5. \A i \in 1 .. Len(r) : i \in Int /\ Len(p) + (i - Len(p)) = i
  BY <1>1
<1>6. /\ Elements(p) = {p[i] : i \in 1 .. Len(p)}
      /\ Elements(q) = {q[i] : i \in 1 .. Len(q)}
      /\ Elements(r) = {r[i] : i \in 1 .. Len(r)}
  BY <1>1, ElementsOf
<1>7. Elements(p) \cup Elements(q) \subseteq Elements(r)
  BY <1>1, <1>2, <1>3, <1>6
<1>8. Elements(r) \subseteq Elements(p) \cup Elements(q)
  <2> SUFFICES ASSUME NEW i \in 1 .. Len(r)
               PROVE  r[i] \in Elements(p) \cup Elements(q)
    BY <1>6
  <2>1. CASE i \in 1 .. Len(p)
    BY <1>1, <1>6, <2>1
  <2>2. CASE i - Len(p) \in 1 .. Len(q)
    <3>1. r[Len(p) + (i - Len(p))] = q[i - Len(p)]
      BY <1>1, <2>2
    <3>2. r[i] = q[i - Len(p)]
      BY <1>5, <3>1
    <3> QED
      BY <1>6, <2>2, <3>2
  <2> QED
    BY <1>4, <2>1, <2>2
<1> QED
  BY <1>7, <1>8 DEF r

LEMMA TailElements ==
    ASSUME NEW S, NEW q \in Seq(S), q # <<>>
    PROVE  /\ Elements(q) = Elements(Tail(q)) \cup {Head(q)}
           /\ Tail(q) \in Seq(S)
<1> DEFINE t == Tail(q)
<1>1. /\ t \in Seq(S) /\ Len(q) \in Nat /\ Len(q) # 0 /\ Len(t) = Len(q) - 1
      /\ \A i \in 1 .. Len(t) : t[i] = q[i + 1]
      /\ Head(q) = q[1]
  OBVIOUS
<1> HIDE DEF t
<1>2. /\ Elements(q) = {q[i] : i \in 1 .. Len(q)}
      /\ Elements(t) = {t[i] : i \in 1 .. Len(t)}
  BY <1>1, ElementsOf
<1>3. 1 \in 1 .. Len(q) /\ \A i \in 1 .. Len(t) : i + 1 \in 1 .. Len(q)
  BY <1>1
<1>4. \A i \in 1 .. Len(q) : i = 1 \/ (i - 1 \in 1 .. Len(t) /\ (i - 1) + 1 = i)
  BY <1>1
<1>5. Elements(t) \cup {Head(q)} \subseteq Elements(q)
  BY <1>1, <1>2, <1>3
<1>6. Elements(q) \subseteq Elements(t) \cup {Head(q)}
  <2> SUFFICES ASSUME NEW i \in 1 .. Len(q)
               PROVE  q[i] \in Elements(t) \cup {Head(q)}
    BY <1>2
  <2>1. CASE i = 1
    BY <1>1, <2>1
  <2>2. CASE i - 1 \in 1 .. Len(t) /\ (i - 1) + 1 = i
    <3>1. t[i - 1] = q[i]
      BY <1>1, <2>2
    <3> QED
      BY <1>2, <2>2, <3>1
  <2> QED
    BY <1>4, <2>1, <2>2
<1> QED
  BY <1>1, <1>5, <1>6 DEF t

(* Every request that is not a write, nor missing, is in what is written.  *)
LEMMA ToQueueReaches ==
    ASSUME NEW requests \in Seq(Requests), NEW missing
    PROVE  LET q == ToQueue(requests, missing)
           IN  /\ Whose(q) = {c \in Elements(requests) :
                                 Kind[c] # "write" /\ c \notin missing}
               /\ \A i \in Elements(q) : i.kind # "later"
               /\ q \in Seq(ItemType)
<1> DEFINE S == {i \in DOMAIN requests :
                    Kind[requests[i]] # "write" /\ requests[i] \notin missing}
           q == ToQueue(requests, missing)
           kept == InOrder(S)
           n == Cardinality(S)
           wanted == {c \in Elements(requests) :
                         Kind[c] # "write" /\ c \notin missing}
<1>1. Len(requests) \in Nat /\ S \in SUBSET (1 .. Len(requests))
  OBVIOUS
<1>2. /\ kept \in [1 .. n -> S] /\ n \in Nat
      /\ \A x \in S : \E i \in 1 .. n : kept[i] = x
  <2> HIDE DEF S
  <2> QED
    BY <1>1, InOrderOrders, InOrderReaches
<1>3. q = [i \in DOMAIN kept |-> QueuedItem(requests[kept[i]])]
  BY DEF ToQueue
<1>4. /\ \A i \in S : requests[i] \in wanted /\ requests[i] \in Requests
      /\ \A c \in wanted : \E i \in S : requests[i] = c
  BY ElementsOf DEF Elements
<1>5. q \in Seq(ItemType)
  BY ToQueueType
<1> HIDE DEF S, q, kept, n, wanted
<1>6. /\ q = [i \in 1 .. n |-> QueuedItem(requests[kept[i]])]
  BY <1>2, <1>3
<1>7. Len(q) = n
  BY <1>2, <1>5, <1>6
<1>8. \A c \in wanted : Kind[c] # "write"
  BY DEF wanted
<1>9. \A i \in 1 .. n : /\ q[i].who = requests[kept[i]]
                        /\ q[i].who \in wanted /\ q[i].kind # "later"
  <2> TAKE i \in 1 .. n
  <2>1. /\ kept[i] \in S /\ requests[kept[i]] \in wanted
        /\ requests[kept[i]] \in Requests
    BY <1>2, <1>4
  <2>2. q[i] = QueuedItem(requests[kept[i]])
    BY <1>6
  <2> QED
    BY <1>8, <2>1, <2>2, QueuedItemType
<1>10. Whose(q) \subseteq wanted
  BY <1>7, <1>9 DEF Whose
<1>11. wanted \subseteq Whose(q)
  <2> SUFFICES ASSUME NEW c \in wanted PROVE c \in Whose(q)
    OBVIOUS
  <2>1. PICK x \in S : requests[x] = c
    BY <1>4
  <2>2. PICK i \in 1 .. n : kept[i] = x
    BY <1>2
  <2>3. q[i].who = c
    BY <1>9, <2>1, <2>2
  <2> QED
    BY <1>7, <2>3 DEF Whose
<1>12. \A i \in Elements(q) : i.kind # "later"
  BY <1>5, <1>7, <1>9, QueueElements
<1> QED
  BY <1>5, <1>10, <1>11, <1>12 DEF q, wanted

LEMMA LaterIsMessage ==
    ASSUME TypeOK
    PROVE  \A i \in Elements(store.queue) \cup Elements(savepoint.queue)
                      \cup Elements(committed.queue) \cup Elements(buffer)
                      \cup {item} :
              i.kind = "later" => i.who \in OfKind("message")
<1>1. /\ store.queue \in Seq(ItemType) /\ savepoint.queue \in Seq(ItemType)
      /\ committed.queue \in Seq(ItemType) /\ buffer \in Seq(ItemType)
  BY StoreFields DEF TypeOK
<1>2. /\ Elements(store.queue) \subseteq ItemType
      /\ Elements(savepoint.queue) \subseteq ItemType
      /\ Elements(committed.queue) \subseteq ItemType
      /\ Elements(buffer) \subseteq ItemType
  BY <1>1, QueueElements
<1>3. item.kind = "later" => item.who \in OfKind("message")
  BY DEF TypeOK, ItemsType, ItemType
<1> QED
  BY <1>2, <1>3, ItemFields

LEMMA ExpectedKept ==
    ASSUME NEW i, NEW s, NEW t, NEW before, NEW after, Expected(i, s, before),
           i.kind = "later" =>
               /\ s.vatDead => t.vatDead
               /\ i.who \in after => i.who \in before
               /\ ~t.vatDead /\ i.who \in s.deciding => i.who \in t.deciding
               /\ t.vatDead /\ ~s.vatDead => i.who \notin after
    PROVE  Expected(i, t, after)
BY DEF Expected

LEMMA FewerExpected ==
    ASSUME NEW s, NEW before, NEW after, FollowUpsIn(s, before),
           after \subseteq before
    PROVE  FollowUpsIn(s, after)
BY DEF FollowUpsIn, Expected

(* What leaves the stores, the crank and its outputs alone.                *)
LEMMA PromisesAside ==
    ASSUME PromisesInv,
           UNCHANGED <<buffer, resolvedNow, serving, item, verdict, store,
                       savepoint, committed>>,
           subscriptions' \subseteq subscriptions,
           \/ pc' = pc
           \/ {pc, pc'} \subseteq {"off", "top", "asleep", "afterCommit"}
    PROVE  PromisesInv'
<1> USE DEF PromisesInv
<1>1. FollowUpsExpected'
  BY FewerExpected DEF FollowUpsExpected, Expected
<1>2. Undoable' => Undoable
  BY DEF Undoable
<1>3. SavedTraces'
  BY <1>2 DEF SavedTraces
<1>4. SubscribersTraced'
  <2>1. \A c \in subscriptions : c \in Traces \/ (Undoable /\ c = item.who)
    BY DEF SubscribersTraced
  <2>2. Traces' = Traces
    BY DEF Traces
  <2>3. Undoable => Undoable'
    BY DEF Undoable
  <2> QED
    BY <2>1, <2>2, <2>3 DEF SubscribersTraced
<1>5. ResolvedInCrank'
  BY DEF ResolvedInCrank
<1> QED
  BY <1>1, <1>3, <1>4, <1>5

(* Requests are written down, outside a crank or at its end.               *)
LEMMA WritePromises ==
    ASSUME FateInv, PromisesInv, NEW requests \in Seq(Requests), NEW f,
           Elements(requests) \subseteq Fresh,
           WriteRequests(requests, store, f),
           UNCHANGED <<buffer, resolvedNow, serving, savepoint>>,
           buffer = <<>>, resolvedNow = {}, ~Undoable, ~Undoable',
           pc' # "delivering"
    PROVE  PromisesInv'
<1> USE DEF PromisesInv
<1>1. PICK missing : /\ store' = Written(requests, missing, store)
                     /\ committed' = store'
                     /\ subscriptions' = subscriptions \cup
                          ((Elements(requests) \cap Messages) \ missing)
  BY DEF WriteRequests
<1> DEFINE q == ToQueue(requests, missing)
<1>2. /\ Whose(q) = {c \in Elements(requests) : Kind[c] # "write" /\ c \notin missing}
      /\ \A i \in Elements(q) : i.kind # "later"
      /\ q \in Seq(ItemType)
  BY ToQueueReaches
<1>3. /\ store \in StoreType /\ savepoint \in StoreType
      /\ store.queue \in Seq(ItemType)
  BY FateTypes
<1>4. /\ store'.queue = store.queue \o q /\ store'.deciding = store.deciding
      /\ store'.vatDead = store.vatDead
  BY <1>1, <1>3 DEF Written, StoreType
<1> HIDE DEF q
<1>5. Elements(store'.queue) = Elements(store.queue) \cup Elements(q)
  BY <1>2, <1>3, <1>4, JoinedElements
<1>6. store'.queue \in Seq(ItemType)
  BY <1>2, <1>3, <1>4
<1>7. Whose(store'.queue) = Whose(store.queue) \cup Whose(q)
  BY <1>2, <1>3, <1>5, <1>6, QueueElements
<1>8. \A c \in subscriptions' : c \in subscriptions \/ (c \in Fresh /\ c \in Whose(q))
  <2>1. \A c \in Messages : Kind[c] # "write"
    BY DEF Messages, OfKind
  <2> QED
    BY <1>1, <1>2, <2>1
<1>9. \A c \in Fresh : c \notin Whose(store.queue) /\ c \notin Whose(savepoint.queue)
  BY DEF FateInv, StoresAreSound, Sound, Absent
<1>10. /\ \A i \in Elements(store.queue) : i.who \in Whose(store.queue)
       /\ \A i \in Elements(savepoint.queue) : i.who \in Whose(savepoint.queue)
  BY <1>3, StoreFields, QueueElements
<1>11. FollowUpsIn(store', subscriptions') /\ FollowUpsIn(committed', subscriptions')
  <2>1. \A i \in Elements(store.queue) : Expected(i, store, subscriptions)
    BY DEF FollowUpsExpected, FollowUpsIn
  <2>2. \A i \in Elements(store.queue) : Expected(i, store', subscriptions')
    BY <1>4, <1>8, <1>9, <1>10, <2>1 DEF Expected
  <2>3. \A i \in Elements(q) : Expected(i, store', subscriptions')
    BY <1>2 DEF Expected
  <2> QED
    BY <1>1, <1>5, <2>2, <2>3 DEF FollowUpsIn
<1>12. FollowUpsIn(savepoint', subscriptions')
  <2>1. \A i \in Elements(savepoint.queue) : Expected(i, savepoint, subscriptions)
    BY DEF FollowUpsExpected, FollowUpsIn
  <2>2. \A i \in Elements(savepoint.queue) : Expected(i, savepoint, subscriptions')
    BY <1>8, <1>9, <1>10, <2>1 DEF Expected
  <2> QED
    BY <2>2 DEF FollowUpsIn
<1>13. FollowUpsExpected'
  BY <1>11, <1>12, EmptyQueue DEF FollowUpsExpected
<1>14. SubscribersTraced'
  <2>1. \A c \in subscriptions : c \in Traces
    BY DEF SubscribersTraced
  <2>2. Traces \subseteq Traces' /\ Whose(q) \subseteq Traces'
    BY <1>4, <1>7 DEF Traces
  <2> QED
    BY <1>8, <2>1, <2>2 DEF SubscribersTraced
<1> QED
  BY <1>13, <1>14 DEF SavedTraces, ResolvedInCrank

(* A service's reply takes its caller off the list, or nothing at all.     *)
LEMMA ReplyPromises ==
    ASSUME FateInv, PromisesInv, NEW m \in Messages, ServiceReplies(m)
    PROVE  PromisesInv'
<1> USE DEF PromisesInv
<1>1. /\ UNCHANGED <<pc, buffer, resolvedNow, item, verdict, savepoint>>
      /\ serving' = serving \ {m} /\ m \in serving
      /\ committed' \in {committed, store'}
  BY DEF ServiceReplies, runVars, crankVars
<1>2. /\ store'.queue = store.queue /\ store'.vatDead = store.vatDead
      /\ store'.deciding = store.deciding \ {m}
      /\ m \in store.deciding => subscriptions' = subscriptions \ {m}
      /\ subscriptions' \subseteq subscriptions
  BY FateTypes DEF ServiceReplies, StoreType
<1>3. m \notin OfKind("message")
  <2>1. m \in OfKind("service")
    BY <1>1 DEF FateInv, TypeOK
  <2> QED
    BY <2>1 DEF OfKind
<1>4. FollowUpsExpected'
  <2>1. /\ \A i \in Elements(store.queue) : Expected(i, store, subscriptions)
        /\ \A i \in Elements(buffer) : Expected(i, store, subscriptions)
        /\ pc = "delivering" => Expected(item, store, subscriptions)
    BY DEF FollowUpsExpected, FollowUpsIn
  <2>2. \A i \in Elements(store.queue) \cup Elements(buffer) \cup {item} :
           Expected(i, store, subscriptions) => Expected(i, store', subscriptions')
    <3>1. \A i \in Elements(store.queue) \cup Elements(buffer) \cup {item} :
             i.kind = "later" => i.who # m
      BY <1>3, LaterIsMessage DEF FateInv
    <3> QED
      BY <1>2, <3>1 DEF Expected
  <2>3. FollowUpsIn(store', subscriptions')
    BY <1>2, <2>1, <2>2 DEF FollowUpsIn
  <2>4. FollowUpsIn(savepoint', subscriptions')
    BY <1>1, <1>2, FewerExpected DEF FollowUpsExpected
  <2>5. FollowUpsIn(committed', subscriptions')
    BY <1>1, <1>2, <2>3, FewerExpected DEF FollowUpsExpected
  <2> QED
    BY <1>1, <2>1, <2>2, <2>3, <2>4, <2>5 DEF FollowUpsExpected
<1>5. Undoable' = Undoable
  BY <1>1 DEF Undoable
<1>6. SavedTraces'
  <2> SUFFICES ASSUME Undoable
               PROVE  /\ Elements(store'.queue) \subseteq Elements(savepoint'.queue)
                      /\ savepoint'.deciding \cap serving' \subseteq store'.deciding
                      /\ subscriptions' \subseteq Whose(savepoint'.queue)
                            \cup (serving' \cap savepoint'.deciding)
    BY <1>5 DEF SavedTraces
  <2>1. /\ Elements(store.queue) \subseteq Elements(savepoint.queue)
        /\ savepoint.deciding \cap serving \subseteq store.deciding
        /\ subscriptions \subseteq
               Whose(savepoint.queue) \cup (serving \cap savepoint.deciding)
    BY DEF SavedTraces
  <2> QED
    BY <1>1, <1>2, <2>1
<1>7. SubscribersTraced'
  <2>1. \A c \in subscriptions : c \in Traces \/ (Undoable /\ c = item.who)
    BY DEF SubscribersTraced
  <2>2. \A c \in subscriptions' : c \in Traces => c \in Traces'
    BY <1>1, <1>2 DEF Traces
  <2> QED
    BY <1>1, <1>2, <1>5, <2>1, <2>2 DEF SubscribersTraced
<1> QED
  BY <1>1, <1>4, <1>6, <1>7 DEF ResolvedInCrank

LEMMA OutsidePromises ==
    ASSUME FateInv, PromisesInv,
           \/ Ask
           \/ AcceptRemoteInbound
           \/ \E m \in Messages : ServiceReplies(m)
           \/ StopKernel
    PROVE  PromisesInv'
<1>1. ASSUME NEW c \in Callers, Request(c) PROVE PromisesInv'
  <2>1. /\ UNCHANGED <<pc, item, verdict, buffer, resolvedNow, savepoint, serving>>
        /\ c \in Fresh /\ c \in Requests
    BY <1>1 DEF Request, crankVars, Fresh, Unasked
  <2>2. CASE UNCHANGED <<subscriptions, store, committed>>
    BY <2>1, <2>2, PromisesAside
  <2>3. CASE /\ ~InCrank
             /\ WriteRequests(<<c>>, store, [told EXCEPT ![c] = "waiting"])
    <3>1. <<c>> \in Seq(Requests) /\ Elements(<<c>>) = {c}
      BY <2>1 DEF Elements
    <3>2. buffer = <<>> /\ resolvedNow = {} /\ ~Undoable /\ ~Undoable'
          /\ pc' # "delivering"
      BY <2>1, <2>3
      DEF FateInv, BufferIsNext, PromisesInv, ResolvedInCrank, Undoable, InCrank
    <3> QED
      BY <2>1, <2>3, <3>1, <3>2, WritePromises
  <2> QED
    BY <1>1, <2>2, <2>3 DEF Request, callVars
<1>2. ASSUME NEW c \in Callers, EnqueueControl(c) \/ EndRunLoop(c)
      PROVE  PromisesInv'
  BY <1>2, PromisesAside DEF EnqueueControl, EndRunLoop, crankVars, callVars
<1>3. CASE AcceptRemoteInbound
  BY <1>3, PromisesAside DEF AcceptRemoteInbound, crankVars, callVars
<1>4. CASE StopKernel
  BY <1>4, PromisesAside DEF StopKernel, crankVars, runVars
<1> QED
  BY <1>1, <1>2, <1>3, <1>4, ReplyPromises DEF Ask

(* An item is taken from where it waits: the run queue, or elsewhere.      *)
LEMMA TakenItem ==
    ASSUME FateInv, TakeItem, NEW next, OpenCrank(next)
    PROVE  /\ store'.deciding = store.deciding /\ store'.vatDead = store.vatDead
           /\ Elements(store'.queue) \subseteq Elements(store.queue)
           /\ Whose(store.queue) \subseteq Whose(store'.queue) \cup {next.who}
           /\ pc' = "asleep" => /\ Whose(store'.queue) = Whose(store.queue)
                                /\ next = NoItem
           /\ next.kind = "later" => next \in Elements(store.queue)
           /\ next.kind = "terminate" => /\ pc' = "delivering"
                                         /\ next.who \notin Whose(store'.queue)
           /\ pc' \in {"delivering", "asleep"}
<1>1. item' = next
  BY DEF OpenCrank
<1>2. store.queue \in Seq(ItemType) /\ store \in StoreType
  BY FateTypes
<1>3. CASE TakeControl \/ TakeArrival
  <2>1. next.kind \notin {"later", "terminate"}
    BY <1>1, <1>3 DEF TakeControl, TakeArrival, OpenCrank, Item
  <2> QED
    BY <1>3, <2>1 DEF TakeControl, TakeArrival, Deliverable
<1>4. CASE Sleep
  <2>1. next = NoItem /\ next.kind = "none" /\ pc' = "asleep"
    BY <1>1, <1>4 DEF Sleep, OpenCrank, NoItem, Item
  <2> QED
    BY <1>4, <2>1 DEF Sleep
<1>5. CASE TakeChore
  <2>1. /\ store' = [store EXCEPT !.chore = FALSE] /\ next.kind = "chore"
        /\ pc' = "delivering"
    BY <1>1, <1>5 DEF TakeChore, OpenCrank, Item, Deliverable
  <2> QED
    BY <1>2, <2>1 DEF StoreType
<1>6. CASE DequeueRun
  <2>1. /\ store' = [store EXCEPT !.queue = Tail(@)] /\ next = Head(store.queue)
        /\ store.queue # <<>> /\ pc' = "delivering"
    BY <1>1, <1>6 DEF DequeueRun, OpenCrank, Deliverable
  <2>2. /\ store'.queue = Tail(store.queue)
        /\ store'.deciding = store.deciding /\ store'.vatDead = store.vatDead
    BY <1>2, <2>1 DEF StoreType
  <2>3. /\ Elements(store.queue) = Elements(store'.queue) \cup {next}
        /\ store'.queue \in Seq(ItemType)
    <3>1. /\ Elements(store.queue) = Elements(Tail(store.queue)) \cup {next}
          /\ Tail(store.queue) \in Seq(ItemType)
      BY <1>2, <2>1, TailElements
    <3> QED
      BY <2>2, <3>1
  <2>4. Whose(store.queue) = Whose(store'.queue) \cup {next.who}
    <3>1. Whose(store.queue) = {i.who : i \in Elements(store.queue)}
      BY <1>2, QueueElements
    <3>2. Whose(store'.queue) = {i.who : i \in Elements(store'.queue)}
      BY <2>3, QueueElements
    <3> QED
      BY <2>3, <3>1, <3>2
  <2>5. next.who \notin Whose(store'.queue)
    <3>1. Unrepeated(store.queue)
      BY DEF FateInv, StoresAreSound, Sound, Tidy
    <3>2. Head(store.queue).who \notin Whose(Tail(store.queue))
      BY <1>2, <2>1, <3>1, TailQueue
    <3> QED
      BY <2>1, <2>2, <3>2
  <2> QED
    BY <2>1, <2>2, <2>3, <2>4, <2>5
<1> QED
  BY <1>3, <1>4, <1>5, <1>6 DEF TakeItem

(* An item is taken: what it may be rolled back to is the store as it was. *)
LEMMA TakePromises ==
    ASSUME FateInv, PromisesInv, TakeItem PROVE PromisesInv'
<1> USE DEF PromisesInv
<1>1. PICK next : OpenCrank(next)
  BY DEF TakeItem, TakeControl, TakeChore, TakeArrival, DequeueRun, Sleep
<1>2. /\ pc = "top" /\ item' = next /\ savepoint' = store
      /\ UNCHANGED <<buffer, resolvedNow, serving, subscriptions, committed>>
      /\ pc' \in {"delivering", "asleep"}
  <2>1. pc' \in {"delivering", "asleep"}
    BY DEF TakeItem, TakeControl, TakeChore, TakeArrival, DequeueRun, Sleep,
           Deliverable
  <2> QED
    BY <1>1, <2>1 DEF OpenCrank
<1>3. buffer = <<>> /\ resolvedNow = {} /\ ~Undoable
  BY <1>2 DEF FateInv, BufferIsNext, ResolvedInCrank, Undoable
<1>4. subscriptions \subseteq Whose(store.queue) \cup (serving \cap store.deciding)
  BY <1>3, EmptyQueue DEF SubscribersTraced, Traces
<1>5. FollowUpsIn(store, subscriptions)
  BY DEF FollowUpsExpected
<1>6. store.queue \in Seq(ItemType) /\ store \in StoreType
  BY FateTypes
<1>7. /\ store'.deciding = store.deciding /\ store'.vatDead = store.vatDead
      /\ Elements(store'.queue) \subseteq Elements(store.queue)
      /\ Whose(store.queue) \subseteq Whose(store'.queue) \cup {next.who}
      /\ pc' = "asleep" => Whose(store'.queue) = Whose(store.queue)
      /\ next.kind = "later" => next \in Elements(store.queue)
  BY <1>1, TakenItem
<1>8. FollowUpsExpected'
  <2>1. \A i \in Elements(store.queue) : Expected(i, store', subscriptions)
    BY <1>5, <1>7 DEF FollowUpsIn, Expected
  <2>2. FollowUpsIn(store', subscriptions)
    BY <1>7, <2>1 DEF FollowUpsIn
  <2>3. Expected(next, store', subscriptions)
    BY <1>7, <2>1 DEF Expected
  <2> QED
    BY <1>2, <1>3, <1>5, <2>2, <2>3, EmptyQueue DEF FollowUpsExpected
<1>9. SavedTraces'
  BY <1>2, <1>4, <1>7 DEF SavedTraces
<1>10. SubscribersTraced'
  <2> SUFFICES ASSUME NEW c \in subscriptions
               PROVE  c \in Traces' \/ (Undoable' /\ c = item'.who)
    BY <1>2 DEF SubscribersTraced
  <2>1. CASE c \in serving \cap store.deciding
    BY <1>2, <1>7, <2>1 DEF Traces
  <2>2. CASE c \in Whose(store.queue)
    BY <1>2, <1>7, <2>2 DEF Traces, Undoable
  <2> QED
    BY <1>4, <2>1, <2>2
<1> QED
  BY <1>2, <1>3, <1>8, <1>9, <1>10 DEF ResolvedInCrank

(* What a delivery must see to.                                            *)
LEMMA DeliveredPromises ==
    ASSUME FateInv, PromisesInv, NEW v, Returns(v),
           subscriptions' \subseteq subscriptions,
           FollowUpsIn(store', subscriptions'),
           \A i \in Elements(buffer') : Expected(i, store', subscriptions'),
           \A c \in subscriptions' : c \in Traces' \/ (v.abort /\ c = item.who),
           v.abort => /\ serving' = serving
                      /\ store'.queue = store.queue
                      /\ savepoint.deciding \cap serving \subseteq store'.deciding
    PROVE  PromisesInv'
<1> USE DEF PromisesInv
<1>1. /\ pc = "delivering" /\ pc' = "delivered" /\ verdict' = v
      /\ UNCHANGED <<item, savepoint, committed>>
  BY DEF Returns
<1>2. Undoable /\ (Undoable' <=> v.abort)
  BY <1>1 DEF Undoable
<1>3. FollowUpsExpected'
  BY <1>1, FewerExpected DEF FollowUpsExpected
<1>4. SavedTraces'
  BY <1>1, <1>2 DEF SavedTraces
<1>5. SubscribersTraced'
  BY <1>1, <1>2 DEF SubscribersTraced
<1> QED
  BY <1>1, <1>3, <1>4, <1>5 DEF ResolvedInCrank

LEMMA RetiredExpected ==
    ASSUME TypeOK, NEW s \in StoreType, s.deciding = store.deciding,
           s.queue = store.queue, FollowUpsIn(s, subscriptions)
    PROVE  /\ FollowUpsIn(Retired(s), subscriptions \ Decided)
           /\ Retired(s).queue = s.queue /\ Retired(s).vatDead
           /\ Retired(s).deciding = s.deciding \ OfKind("message")
<1>1. /\ Retired(s).queue = s.queue /\ Retired(s).vatDead
      /\ Retired(s).deciding = s.deciding \ OfKind("message")
  BY DEF Retired, StoreType
<1>2. \A i \in Elements(s.queue) : i.kind = "later" => i.who \in OfKind("message")
  BY LaterIsMessage
<1>3. \A i \in Elements(s.queue) :
         Expected(i, Retired(s), subscriptions \ Decided)
  BY <1>1, <1>2 DEF FollowUpsIn, Expected, Decided
<1> QED
  BY <1>1, <1>3 DEF FollowUpsIn

LEMMA DeliverPromises ==
    ASSUME FateInv, PromisesInv, Deliver PROVE PromisesInv'
<1>1. pc = "delivering"
  BY DEF Deliver, DeliverSend, DeliverLater, Splat, DeliverKernelServiceMessage,
         DeliverOther, PerformVatRestart, PerformVatTermination, PerformControl,
         Returns
<1>2. /\ store \in StoreType /\ buffer = <<>> /\ resolvedNow = {} /\ Undoable
      /\ serving \subseteq OfKind("service") /\ subscriptions \subseteq Messages
      /\ item \in ItemsType /\ TypeOK
  BY <1>1 DEF FateInv, TypeOK, ItemIsOut, PromisesInv, ResolvedInCrank, Undoable
<1>3. /\ FollowUpsIn(store, subscriptions)
      /\ Expected(item, store, subscriptions)
      /\ savepoint.deciding \cap serving \subseteq store.deciding
  BY <1>1, <1>2 DEF PromisesInv, FollowUpsExpected, SavedTraces
<1>4. \A c \in subscriptions : \/ c \in Whose(store.queue)
                               \/ c \in serving \cap store.deciding
                               \/ c = item.who
  BY <1>2, EmptyQueue DEF PromisesInv, SubscribersTraced, Traces
<1>5. ASSUME buffer' = <<>>
      PROVE  \A i \in Elements(buffer') : Expected(i, store', subscriptions')
  BY <1>5, EmptyQueue
<1>6. ASSUME NEW m \in Messages, item = Item("send", m) \/ item = Item("later", m)
      PROVE  /\ item.who = m /\ m \notin Whose(store.queue)
             /\ \A i \in Elements(store.queue) : i.who # m
  <2>1. item.who = m /\ item.kind \in {"send", "later"}
    BY <1>6 DEF Item
  <2>2. m \notin Whose(store.queue)
    BY <1>1, <2>1, MessageIsOut
  <2> QED
    BY <1>2, <2>1, <2>2, FateTypes, QueueElements
<1>7. \A m \in OfKind("message") : m \notin serving
  BY <1>2 DEF OfKind
<1>8. ASSUME NEW m \in OfKind("message"), VatResolves(m), item.who = m,
             \A i \in Elements(store.queue) : i.who # m,
             UNCHANGED <<subscriptions, serving>>, NEW v, Returns(v)
      PROVE  PromisesInv'
  <2>1. /\ store'.queue = store.queue /\ store'.vatDead = store.vatDead
        /\ store'.deciding = store.deciding \ {m}
        /\ resolvedNow' = {m} \cap subscriptions /\ buffer' = <<>>
    BY <1>2, <1>8 DEF VatResolves, StoreType
  <2>2. FollowUpsIn(store', subscriptions')
    BY <1>3, <1>8, <2>1 DEF FollowUpsIn, Expected
  <2>3. \A c \in subscriptions' : c \in Traces'
    BY <1>4, <1>7, <1>8, <2>1 DEF Traces
  <2>4. savepoint.deciding \cap serving \subseteq store'.deciding
    BY <1>3, <1>7, <2>1
  <2> QED
    BY <1>5, <1>8, <2>1, <2>2, <2>3, <2>4, DeliveredPromises
<1>9. ASSUME NEW m \in Messages, item.who = m, RejectAtOnce(m),
             UNCHANGED <<buffer, resolvedNow, serving>>, Returns(Verdict)
      PROVE  PromisesInv'
  <2>1. /\ store'.queue = store.queue /\ store'.vatDead = store.vatDead
        /\ store'.deciding = store.deciding
        /\ subscriptions' = subscriptions \ {m} /\ buffer' = <<>>
    BY <1>2, <1>9 DEF RejectAtOnce, StoreType
  <2>2. FollowUpsIn(store', subscriptions')
    BY <1>3, <2>1 DEF FollowUpsIn, Expected
  <2>3. \A c \in subscriptions' : c \in Traces'
    BY <1>4, <1>9, <2>1 DEF Traces
  <2>4. ~Verdict.abort
    BY DEF Verdict
  <2> QED
    BY <1>5, <1>9, <2>1, <2>2, <2>3, <2>4, DeliveredPromises
<1>10. ASSUME NEW m \in Messages, DeliverSend(m) PROVE PromisesInv'
  <2>1. /\ item.who = m /\ m \notin Whose(store.queue)
        /\ \A i \in Elements(store.queue) : i.who # m
        /\ m \in OfKind("message") /\ ~store.vatDead
        /\ UNCHANGED <<subscriptions, serving>>
    BY <1>6, <1>10, KindsApart DEF DeliverSend, callVars, OfKind
  <2>2. PICK v : Returns(v)
    BY <1>10 DEF DeliverSend
  <2>3. CASE VatResolves(m)
    BY <1>8, <2>1, <2>2, <2>3
  <2>4. CASE /\ store' = [store EXCEPT !.deciding = @ \cup {m}]
             /\ buffer' = Append(buffer, Item("later", m))
             /\ UNCHANGED resolvedNow
    <3>1. /\ store'.queue = store.queue /\ store'.vatDead = store.vatDead
          /\ store'.deciding = store.deciding \cup {m}
      BY <1>2, <2>4 DEF StoreType
    <3>2. buffer' = <<Item("later", m)>>
      BY <1>2, <2>4
    <3>3. Elements(buffer') = {Item("later", m)} /\ m \in Whose(buffer')
      BY <3>2 DEF Elements, Whose, Item
    <3>4. FollowUpsIn(store', subscriptions')
      BY <1>3, <2>1, <3>1 DEF FollowUpsIn, Expected
    <3>5. \A i \in Elements(buffer') : Expected(i, store', subscriptions')
      BY <2>1, <3>1, <3>3 DEF Expected, Item
    <3>6. \A c \in subscriptions' : c \in Traces'
      BY <1>4, <2>1, <3>1, <3>3 DEF Traces
    <3> QED
      BY <1>3, <2>1, <2>2, <3>1, <3>4, <3>5, <3>6, DeliveredPromises
  <2> QED
    BY <1>10, <2>3, <2>4 DEF DeliverSend
<1>11. ASSUME NEW m \in Messages, DeliverLater(m) PROVE PromisesInv'
  <2>1. /\ item.who = m /\ item.kind = "later"
        /\ \A i \in Elements(store.queue) : i.who # m
        /\ UNCHANGED <<subscriptions, serving>>
    BY <1>6, <1>11 DEF DeliverLater, callVars, Item
  <2>2. m \in OfKind("message")
    BY <1>2, <2>1, LaterIsMessage
  <2>3. CASE ~store.vatDead
    BY <1>8, <1>11, <2>1, <2>2, <2>3 DEF DeliverLater
  <2>4. CASE store.vatDead
    <3>1. Returns(Verdict) /\ UNCHANGED <<store, buffer, resolvedNow>>
      BY <1>11, <2>4 DEF DeliverLater
    <3>2. m \notin subscriptions
      BY <1>3, <2>1, <2>4 DEF Expected
    <3>3. \A c \in subscriptions' : c \in Traces'
      BY <1>4, <2>1, <3>1, <3>2 DEF Traces
    <3>4. ~Verdict.abort
      BY DEF Verdict
    <3>5. FollowUpsIn(store', subscriptions') /\ buffer' = <<>>
      BY <1>2, <1>3, <2>1, <3>1
    <3> QED
      BY <1>5, <2>1, <3>1, <3>3, <3>4, <3>5, DeliveredPromises
  <2> QED
    BY <2>3, <2>4
<1>12. ASSUME NEW m \in Messages, Splat(m) PROVE PromisesInv'
  BY <1>6, <1>9, <1>12 DEF Splat
<1>13. ASSUME NEW m \in Messages, DeliverKernelServiceMessage(m)
       PROVE  PromisesInv'
  <2>1. /\ item.who = m /\ Returns(Verdict) /\ UNCHANGED <<buffer, resolvedNow>>
    BY <1>6, <1>13 DEF DeliverKernelServiceMessage
  <2>2. CASE RejectAtOnce(m) /\ UNCHANGED serving
    BY <1>9, <2>1, <2>2
  <2>3. CASE /\ serving' = serving \cup {m}
             /\ store' = [store EXCEPT !.deciding = @ \cup {m}]
             /\ UNCHANGED subscriptions
    <3>1. /\ store'.queue = store.queue /\ store'.vatDead = store.vatDead
          /\ store'.deciding = store.deciding \cup {m} /\ buffer' = <<>>
      BY <1>2, <2>1, <2>3 DEF StoreType
    <3>2. FollowUpsIn(store', subscriptions')
      BY <1>3, <2>3, <3>1 DEF FollowUpsIn, Expected
    <3>3. \A c \in subscriptions' : c \in Traces'
      BY <1>4, <2>1, <2>3, <3>1 DEF Traces
    <3>4. ~Verdict.abort
      BY DEF Verdict
    <3> QED
      BY <1>5, <2>1, <2>3, <3>1, <3>2, <3>3, <3>4, DeliveredPromises
  <2> QED
    BY <1>13, <2>2, <2>3 DEF DeliverKernelServiceMessage
<1>14. ASSUME item.kind \notin {"send", "later"}
       PROVE  item.who \notin subscriptions
  <2>1. item.who \notin Messages
    BY <1>2, <1>14, CallersAssumption DEF ItemsType, ItemType, Messages, OfKind
  <2> QED
    BY <1>2, <2>1
<1>15. ASSUME NEW v, Returns(v), item.kind \notin {"send", "later"},
              store'.queue = store.queue, store'.deciding = store.deciding,
              store'.vatDead = store.vatDead,
              UNCHANGED <<subscriptions, buffer, resolvedNow, serving>>
       PROVE  PromisesInv'
  <2>1. FollowUpsIn(store', subscriptions') /\ buffer' = <<>>
    BY <1>2, <1>3, <1>15 DEF FollowUpsIn, Expected
  <2>2. \A c \in subscriptions' : c \in Traces'
    BY <1>4, <1>14, <1>15 DEF Traces
  <2> QED
    BY <1>3, <1>5, <1>15, <2>1, <2>2, DeliveredPromises
<1>16. CASE DeliverOther
  <2>1. PICK v : Returns(v)
    BY <1>16 DEF DeliverOther
  <2>2. /\ item.kind \in {"chore", "arrival"}
        /\ UNCHANGED <<store, subscriptions, buffer, resolvedNow, serving>>
    BY <1>16 DEF DeliverOther, callVars
  <2> QED
    BY <1>15, <2>1, <2>2
<1>17. CASE PerformVatRestart
  <2>1. PICK v : Returns(v)
    BY <1>17 DEF PerformVatRestart
  <2>2. /\ item.kind = "restart"
        /\ UNCHANGED <<subscriptions, buffer, resolvedNow, serving>>
    BY <1>17 DEF PerformVatRestart, callVars
  <2>3. /\ store'.queue = store.queue /\ store'.deciding = store.deciding
        /\ store'.vatDead = store.vatDead
    <3>1. store' = store \/ store' = [store EXCEPT !.done = @ \cup taken]
      BY <1>17 DEF PerformVatRestart
    <3> QED
      BY <1>2, <3>1 DEF StoreType
  <2> QED
    BY <1>15, <2>1, <2>2, <2>3
<1>18. ASSUME NEW s \in StoreType, s.queue = store.queue,
              s.deciding = store.deciding, s.vatDead = store.vatDead,
              store' = Retired(s), NEW what, TellDecided(what), NEW v,
              Returns(v), ~v.abort, item.kind \notin {"send", "later"},
              UNCHANGED <<buffer, resolvedNow, serving>>
       PROVE  PromisesInv'
  <2>1. FollowUpsIn(s, subscriptions)
    BY <1>3, <1>18 DEF FollowUpsIn, Expected
  <2>2. /\ FollowUpsIn(store', subscriptions \ Decided)
        /\ store'.queue = store.queue
        /\ store'.deciding = store.deciding \ OfKind("message")
    BY <1>2, <1>18, <2>1, RetiredExpected
  <2>3. subscriptions' = subscriptions \ Decided /\ buffer' = <<>>
    BY <1>2, <1>18 DEF TellDecided
  <2>4. \A c \in subscriptions' : c \in Traces'
    BY <1>4, <1>7, <1>14, <1>18, <2>2, <2>3 DEF Traces
  <2> QED
    BY <1>5, <1>18, <2>2, <2>3, <2>4, DeliveredPromises
<1>19. CASE PerformVatTermination
  <2>1. /\ item.kind = "terminate" /\ UNCHANGED <<buffer, resolvedNow, serving>>
    BY <1>19 DEF PerformVatTermination
  <2>2. /\ ~[Verdict EXCEPT !.irrevocable = TRUE].abort
        /\ ~Verdict.abort
    BY DEF Verdict
  <2> DEFINE carried == [store EXCEPT !.done = @ \cup taken]
  <2>3. /\ carried \in StoreType /\ carried.queue = store.queue
        /\ carried.deciding = store.deciding /\ carried.vatDead = store.vatDead
    BY <1>2, KindsApart DEF StoreType, TypeOK
  <2>4. PICK v : Returns(v) /\ v \in {Verdict, [Verdict EXCEPT !.irrevocable = TRUE]}
    BY <1>19 DEF PerformVatTermination
  <2>5. \/ store' = carried /\ UNCHANGED subscriptions
        \/ store' = Retired(carried) /\ TellDecided("answered")
        \/ store' = Retired(store) /\ TellDecided("answered")
        \/ UNCHANGED <<store, subscriptions>>
    BY <1>19 DEF PerformVatTermination
  <2> HIDE DEF carried
  <2>6. CASE store' = carried /\ UNCHANGED subscriptions
    BY <1>15, <2>1, <2>3, <2>4, <2>6
  <2>7. CASE store' = Retired(carried) /\ TellDecided("answered")
    BY <1>18, <2>1, <2>2, <2>3, <2>4, <2>7
  <2>8. CASE store' = Retired(store) /\ TellDecided("answered")
    BY <1>2, <1>18, <2>1, <2>2, <2>4, <2>8
  <2>9. CASE UNCHANGED <<store, subscriptions>>
    BY <1>15, <2>1, <2>4, <2>9
  <2> QED
    BY <2>5, <2>6, <2>7, <2>8, <2>9
<1>20. ASSUME NEW c \in Callers, PerformControl(c) PROVE PromisesInv'
  <2>1. /\ item.kind = "control" /\ Returns(Verdict)
        /\ UNCHANGED <<buffer, serving>>
    BY <1>20 DEF PerformControl, Item
  <2>2. ~Verdict.abort
    BY DEF Verdict
  <2>3. CASE /\ store' = Retired([store EXCEPT !.done = @ \cup {c}])
             /\ TellDecided("splat") /\ UNCHANGED resolvedNow
    <3> DEFINE carried == [store EXCEPT !.done = @ \cup {c}]
    <3>1. /\ carried \in StoreType /\ carried.queue = store.queue
          /\ carried.deciding = store.deciding /\ carried.vatDead = store.vatDead
      BY <1>2 DEF StoreType
    <3>2. store' = Retired(carried)
      BY <2>3
    <3> HIDE DEF carried
    <3> QED
      BY <1>18, <2>1, <2>2, <2>3, <3>1, <3>2
  <2>4. CASE /\ store' = [EmptyStore EXCEPT !.vatDead = TRUE,
                                            !.resolved = store.resolved,
                                            !.done = store.done \cup {c}]
             /\ subscriptions' = {}
    <3>1. store'.queue = <<>>
      BY <2>4 DEF EmptyStore
    <3>2. FollowUpsIn(store', subscriptions') /\ buffer' = <<>>
      BY <1>2, <2>1, <3>1, EmptyQueue DEF FollowUpsIn
    <3> QED
      BY <1>5, <2>1, <2>2, <2>4, <3>2, DeliveredPromises
  <2> QED
    BY <1>20, <2>3, <2>4 DEF PerformControl
<1> QED
  BY <1>10, <1>11, <1>12, <1>13, <1>16, <1>17, <1>19, <1>20 DEF Deliver

LEMMA TurnPromises ==
    ASSUME FateInv, ParkInv, PromisesInv, Turn PROVE PromisesInv'
<1> USE DEF PromisesInv
<1>1. /\ store \in StoreType /\ buffer \in Seq(ItemType)
      /\ store.queue \in Seq(ItemType) /\ TypeOK
      /\ serving \subseteq OfKind("service") /\ subscriptions \subseteq Messages
  BY FateTypes DEF FateInv, TypeOK
<1>2. /\ FollowUpsIn(store, subscriptions)
      /\ FollowUpsIn(savepoint, subscriptions)
      /\ FollowUpsIn(committed, subscriptions)
      /\ \A i \in Elements(buffer) : Expected(i, store, subscriptions)
  BY DEF FollowUpsExpected
<1>3. \A m \in OfKind("message") : m \notin serving
  BY <1>1 DEF OfKind
<1>4. CASE StartLoop \/ StopLoop \/ WakeUp \/ FinishTurn
  <2>1. /\ UNCHANGED <<buffer, resolvedNow, serving, item, verdict, store,
                       savepoint, committed, subscriptions>>
        /\ {pc, pc'} \subseteq {"off", "top", "asleep", "afterCommit"}
    BY <1>4
    DEF StartLoop, StopLoop, WakeUp, FinishTurn, crankVars, callVars, ParkInv
  <2> QED
    BY <2>1, PromisesAside
<1>5. CASE ProcessCrankResult
  <2>1. /\ pc = "delivered" /\ pc' \in {"terminating", "collecting"} /\ ~Undoable'
        /\ UNCHANGED <<item, verdict, savepoint, committed, serving>>
    BY <1>5 DEF ProcessCrankResult, Undoable
  <2>2. CASE verdict.abort
    <3>1. /\ store' = savepoint /\ buffer' = <<>> /\ resolvedNow' = {}
          /\ subscriptions' \subseteq subscriptions
      BY <1>5, <2>2 DEF ProcessCrankResult, RollbackCrank
    <3>2. FollowUpsExpected'
      BY <1>2, <2>1, <3>1, FewerExpected, EmptyQueue DEF FollowUpsExpected
    <3>3. subscriptions \subseteq
              Whose(savepoint.queue) \cup (serving \cap savepoint.deciding)
      BY <2>1, <2>2 DEF SavedTraces, Undoable
    <3>4. SubscribersTraced'
      BY <2>1, <3>1, <3>3 DEF SubscribersTraced, Traces
    <3> QED
      BY <2>1, <3>1, <3>2, <3>4 DEF SavedTraces, ResolvedInCrank
  <2>3. CASE ~verdict.abort
    <3>1. UNCHANGED <<store, buffer, resolvedNow, subscriptions>>
      BY <1>5, <2>3 DEF ProcessCrankResult
    <3>2. FollowUpsExpected'
      BY <1>2, <2>1, <3>1 DEF FollowUpsExpected
    <3>3. ~Undoable
      BY <2>1, <2>3 DEF Undoable
    <3>4. SubscribersTraced'
      BY <2>1, <3>1, <3>3 DEF SubscribersTraced, Traces
    <3>5. ResolvedInCrank'
      BY <2>1, <2>3, <3>1 DEF ResolvedInCrank
    <3> QED
      BY <2>1, <3>2, <3>4, <3>5 DEF SavedTraces
  <2> QED
    BY <2>2, <2>3
<1>6. CASE TerminateVat
  <2>1. /\ pc = "terminating" /\ pc' = "collecting" /\ ~Undoable /\ ~Undoable'
        /\ store' = Retired(store) /\ subscriptions' = subscriptions \ Decided
        /\ UNCHANGED <<item, verdict, buffer, resolvedNow, savepoint, committed,
                       serving>>
    BY <1>6 DEF TerminateVat, TellDecided, Undoable
  <2>2. /\ FollowUpsIn(store', subscriptions') /\ store'.queue = store.queue
        /\ store'.vatDead
        /\ store'.deciding = store.deciding \ OfKind("message")
    BY <1>1, <1>2, <2>1, RetiredExpected
  <2>3. \A i \in Elements(buffer) : Expected(i, store', subscriptions')
    <3>1. \A i \in Elements(buffer) : i.kind = "later" => i.who \in OfKind("message")
      BY <1>1, LaterIsMessage
    <3> QED
      BY <1>2, <2>1, <2>2, <3>1 DEF Expected, Decided
  <2>4. FollowUpsIn(savepoint, subscriptions') /\ FollowUpsIn(committed, subscriptions')
    BY <1>2, <2>1, FewerExpected
  <2>5. FollowUpsExpected'
    BY <2>1, <2>2, <2>3, <2>4 DEF FollowUpsExpected
  <2>6. SubscribersTraced'
    BY <1>3, <2>1, <2>2 DEF SubscribersTraced, Traces
  <2>7. ResolvedInCrank'
    BY <2>1 DEF ResolvedInCrank
  <2> QED
    BY <2>1, <2>5, <2>6, <2>7 DEF SavedTraces
<1>7. CASE CollectAndFlush
  <2>1. /\ pc = "collecting" /\ pc' = "flushed" /\ ~Undoable /\ ~Undoable'
        /\ UNCHANGED <<item, verdict, savepoint, committed, serving>>
        /\ subscriptions' = subscriptions \ resolvedNow
        /\ buffer' = <<>> /\ resolvedNow' = {}
    BY <1>7
    DEF CollectAndFlush, Undoable, FateInv, BufferIsNext, ResolvedInCrank
  <2>2. /\ store'.deciding = store.deciding /\ store'.vatDead = store.vatDead
        /\ \/ verdict.abort /\ store'.queue = store.queue
           \/ store'.queue = store.queue \o buffer
    <3>1. PICK chore : store' = [store EXCEPT !.chore = chore,
                          !.queue = IF verdict.abort THEN @ ELSE @ \o buffer]
      BY <1>7 DEF CollectAndFlush
    <3> QED
      BY <1>1, <3>1 DEF StoreType
  <2>3. verdict.abort => buffer = <<>>
    BY <2>1 DEF FateInv, BufferIsNext
  <2>4. /\ Elements(store'.queue) = Elements(store.queue) \cup Elements(buffer)
        /\ store'.queue \in Seq(ItemType)
    <3>1. CASE store'.queue = store.queue \o buffer
      <4>1. store.queue \o buffer \in Seq(ItemType)
        BY <1>1
      <4> QED
        BY <1>1, <3>1, <4>1, JoinedElements
    <3>2. CASE verdict.abort /\ store'.queue = store.queue
      BY <1>1, <2>3, <3>2, EmptyQueue
    <3> QED
      BY <2>2, <3>1, <3>2
  <2>5. Whose(store'.queue) = Whose(store.queue) \cup Whose(buffer)
    <3>1. /\ Whose(store.queue) = {i.who : i \in Elements(store.queue)}
          /\ Whose(buffer) = {i.who : i \in Elements(buffer)}
      BY <1>1, QueueElements
    <3>2. Whose(store'.queue) = {i.who : i \in Elements(store'.queue)}
      BY <2>4, QueueElements
    <3> QED
      BY <2>4, <3>1, <3>2
  <2>6. FollowUpsIn(store', subscriptions')
    BY <1>2, <2>1, <2>2, <2>4 DEF FollowUpsIn, Expected
  <2>7. FollowUpsIn(savepoint, subscriptions') /\ FollowUpsIn(committed, subscriptions')
    BY <1>2, <2>1, FewerExpected
  <2>8. FollowUpsExpected'
    BY <2>1, <2>6, <2>7, EmptyQueue DEF FollowUpsExpected
  <2>9. SubscribersTraced'
    BY <2>1, <2>2, <2>5 DEF SubscribersTraced, Traces
  <2> QED
    BY <2>1, <2>8, <2>9 DEF SavedTraces, ResolvedInCrank
<1>8. CASE EndCrank
  <2>1. /\ pc = "flushed" /\ pc' \in {"afterCommit", "top"}
        /\ WriteRequests(held, store, TellFinished)
        /\ UNCHANGED <<buffer, resolvedNow, serving, savepoint>>
    BY <1>8 DEF EndCrank
  <2>2. /\ buffer = <<>> /\ resolvedNow = {} /\ ~Undoable /\ ~Undoable'
        /\ pc' # "delivering"
    BY <2>1 DEF FateInv, BufferIsNext, ResolvedInCrank, Undoable
  <2>3. held \in Seq(Requests) /\ Elements(held) \subseteq Fresh
    BY FateTypes DEF Fresh
  <2> QED
    BY <2>1, <2>2, <2>3, WritePromises
<1> QED
  BY <1>4, <1>5, <1>6, <1>7, <1>8, TakePromises, DeliverPromises DEF Turn

(* The loop dies, and nobody is subscribed any longer.                     *)
LEMMA DeathPromises ==
    ASSUME PromisesInv, NEW s, NEW f, FailRunLoop(s, f), FollowUpsIn(s, {})
    PROVE  PromisesInv'
<1>1. /\ store' = s /\ committed' = s /\ savepoint' = savepoint /\ pc' = "off"
      /\ subscriptions' = {} /\ buffer' = <<>> /\ resolvedNow' = {}
  BY DEF FailRunLoop
<1>2. FollowUpsIn(savepoint, {})
  BY FewerExpected DEF PromisesInv, FollowUpsExpected
<1>3. FollowUpsExpected'
  BY <1>1, <1>2, EmptyQueue DEF FollowUpsExpected
<1> QED
  BY <1>1, <1>3
  DEF PromisesInv, SavedTraces, SubscribersTraced, ResolvedInCrank, Undoable

LEMMA FaultPromises ==
    ASSUME FateInv, PromisesInv, Fault PROVE PromisesInv'
<1>1. /\ FollowUpsIn(store, {}) /\ FollowUpsIn(savepoint, {})
      /\ FollowUpsIn(committed, {})
  BY FewerExpected DEF PromisesInv, FollowUpsExpected
<1>2. CASE CrankThrows \/ CommitFails \/ AfterCommitThrows
  <2>1. \E s \in {store, savepoint, committed} : FailRunLoop(s, told)
    BY <1>2 DEF CrankThrows, CommitFails, AfterCommitThrows
  <2> QED
    BY <1>1, <2>1, DeathPromises
<1>3. CASE TerminateThrows
  <2>1. \E s \in {store, Retired(store)} : FailRunLoop(s, told)
    BY <1>3 DEF TerminateThrows
  <2>2. FollowUpsIn(Retired(store), {})
    <3>1. FollowUpsIn(Retired(store), subscriptions \ Decided)
      BY FateTypes, RetiredExpected
      DEF FateInv, PromisesInv, FollowUpsExpected
    <3> QED
      BY <3>1, FewerExpected
  <2> QED
    BY <1>1, <2>1, <2>2, DeathPromises
<1>4. CASE HeldWriteThrows
  <2>1. PICK n \in 0 .. Len(held) - 1 :
          LET before == SubSeq(held, 1, n)
          IN  FailRunLoop(Written(before, {}, store),
                          Tell(TellFinished,
                               Elements(before) \cap OfKind("write"),
                               "answered"))
    BY <1>4 DEF HeldWriteThrows
  <2> DEFINE before == SubSeq(held, 1, n)
             q == ToQueue(before, {})
             t == Written(before, {}, store)
  <2>2. before \in Seq(Requests)
    BY FateTypes, PrefixOf
  <2>3. \A i \in Elements(q) : i.kind # "later"
    <3> HIDE DEF before
    <3> QED
      BY <2>2, ToQueueReaches
  <2>4. q \in Seq(ItemType) /\ store.queue \in Seq(ItemType)
    <3> HIDE DEF before
    <3> QED
      BY <2>2, ToQueueReaches, FateTypes
  <2>5. /\ t.queue = store.queue \o q /\ t.deciding = store.deciding
        /\ t.vatDead = store.vatDead
    BY FateTypes DEF Written, StoreType
  <2> HIDE DEF q, t
  <2>6. Elements(t.queue) = Elements(store.queue) \cup Elements(q)
    BY <2>4, <2>5, JoinedElements
  <2>7. FollowUpsIn(t, {})
    BY <1>1, <2>3, <2>5, <2>6 DEF FollowUpsIn, Expected
  <2>8. \E f : FailRunLoop(t, f)
    BY <2>1 DEF t
  <2> QED
    BY <2>7, <2>8, DeathPromises
<1>5. CASE Crash
  <2>1. /\ store' = committed' /\ committed' \in {committed, store}
        /\ pc' = "off" /\ savepoint' = EmptyStore
        /\ subscriptions' = {} /\ buffer' = <<>> /\ resolvedNow' = {}
    BY <1>5 DEF Crash
  <2>2. FollowUpsIn(EmptyStore, {})
    BY EmptyQueue DEF FollowUpsIn, EmptyStore
  <2>3. FollowUpsExpected'
    BY <1>1, <2>1, <2>2, EmptyQueue DEF FollowUpsExpected
  <2> QED
    BY <2>1, <2>3
    DEF PromisesInv, SavedTraces, SubscribersTraced, ResolvedInCrank, Undoable
<1> QED
  BY <1>2, <1>3, <1>4, <1>5 DEF Fault

LEMMA NextPromises ==
    ASSUME FateInv, ParkInv, PromisesInv, [Next]_vars PROVE PromisesInv'
<1>1. CASE UNCHANGED vars
  BY <1>1, PromisesAside DEF vars, runVars, callVars, crankVars
<1> QED
  BY <1>1, OutsidePromises, TurnPromises, FaultPromises DEF Next

LEMMA PromisesInitially == Init => PromisesInv
<1> SUFFICES ASSUME Init PROVE PromisesInv
  OBVIOUS
<1>1. FollowUpsIn(EmptyStore, {})
  BY EmptyQueue DEF FollowUpsIn, EmptyStore
<1>2. FollowUpsExpected
  BY <1>1, EmptyQueue DEF Init, FollowUpsExpected
<1> QED
  BY <1>2
  DEF Init, PromisesInv, SavedTraces, SubscribersTraced, ResolvedInCrank, Undoable

LEMMA FiniteParts ==
    ASSUME NEW q \in Seq(ItemType), NEW h \in Seq(Requests), NEW i,
           NEW S \in SUBSET (Whose(q) \cup Elements(h) \cup {i})
    PROVE  IsFiniteSet(S)
<1> DEFINE f == [n \in 1 .. Len(q) |-> q[n].who]
           g == [n \in 1 .. Len(h) |-> h[n]]
<1>1. /\ Elements(h) = {h[n] : n \in 1 .. Len(h)}
      /\ Len(q) \in Nat /\ Len(h) \in Nat
  BY ElementsOf
<1>2. IsFiniteSet(1 .. Len(q)) /\ IsFiniteSet(1 .. Len(h))
  BY <1>1, FS_Interval
<1>3. f \in Surjection(1 .. Len(q), Whose(q))
  BY DEF Surjection, Whose
<1>4. g \in Surjection(1 .. Len(h), Elements(h))
  BY <1>1 DEF Surjection
<1> HIDE DEF f, g
<1>5. IsFiniteSet(Whose(q)) /\ IsFiniteSet(Elements(h))
  BY <1>2, <1>3, <1>4, FS_Surjection
<1>6. IsFiniteSet((Whose(q) \cup Elements(h)) \cup {i})
  BY <1>5, FS_Union, FS_AddElement
<1> QED
  BY <1>6, FS_Subset

LEMMA TerminationsFinite ==
    /\ FateInv => IsFiniteSet(Terminations)
    /\ FateInv' => IsFiniteSet(Terminations')
<1>1. ASSUME NEW q \in Seq(ItemType), NEW h \in Seq(Requests), NEW i, NEW H,
             H = {i} \/ H = {}
      PROVE  IsFiniteSet(OfKind("terminate") \cap ((Whose(q) \cup Elements(h)) \cup H))
  <2> DEFINE S == OfKind("terminate") \cap ((Whose(q) \cup Elements(h)) \cup H)
  <2>1. S \in SUBSET (Whose(q) \cup Elements(h) \cup {i})
    BY <1>1
  <2> HIDE DEF S
  <2>2. IsFiniteSet(S)
    BY <2>1, FiniteParts
  <2> QED
    BY <2>2 DEF S
<1>2. ASSUME FateInv PROVE IsFiniteSet(Terminations)
  BY <1>1, <1>2, FateTypes DEF Terminations, Backlog, InHands
<1>3. ASSUME FateInv' PROVE IsFiniteSet(Terminations')
  <2>1. store'.queue \in Seq(ItemType) /\ held' \in Seq(Requests)
    BY <1>3, StoreFields DEF FateInv, TypeOK
  <2> QED
    BY <1>1, <2>1 DEF Terminations, Backlog, InHands
<1> QED
  BY <1>2, <1>3

(* A termination pending is still to be carried out for as long as none is *)
(* finished; a new one makes one more.                                     *)
LEMMA BacklogStays ==
    ASSUME FateInv', BacklogInv, loop # "failed", atWork' \subseteq Backlog',
           Terminations \subseteq Terminations',
           pendingTerminations' = pendingTerminations,
           pendingTerminations \in Nat
    PROVE  BacklogInv'
<1>1. IsFiniteSet(Terminations')
  BY TerminationsFinite
<1>2. /\ Cardinality(Terminations) <= Cardinality(Terminations')
      /\ Cardinality(Terminations) \in Nat /\ Cardinality(Terminations') \in Nat
  BY <1>1, FS_Subset, FS_CardinalityType
<1>3. pendingTerminations <= Cardinality(Terminations)
  BY DEF BacklogInv
<1>4. pendingTerminations' <= Cardinality(Terminations')
  BY <1>2, <1>3
<1> QED
  BY <1>4 DEF BacklogInv

LEMMA BacklogGrows ==
    ASSUME FateInv', BacklogInv, loop # "failed", atWork' \subseteq Backlog',
           NEW c, c \notin Terminations, Terminations \cup {c} \subseteq Terminations',
           pendingTerminations' = pendingTerminations + 1,
           pendingTerminations \in Nat
    PROVE  BacklogInv'
<1> DEFINE S == Terminations \cup {c}
<1>1. IsFiniteSet(Terminations') /\ IsFiniteSet(Terminations)
  <2>1. IsFiniteSet(Terminations')
    BY TerminationsFinite
  <2> QED
    BY <2>1, FS_Subset
<1>2. /\ IsFiniteSet(S) /\ Cardinality(S) = Cardinality(Terminations) + 1
      /\ Cardinality(Terminations) \in Nat /\ Cardinality(Terminations') \in Nat
  BY <1>1, FS_AddElement, FS_CardinalityType
<1>3. Cardinality(S) <= Cardinality(Terminations')
  BY <1>1, FS_Subset
<1>4. pendingTerminations <= Cardinality(Terminations)
  BY DEF BacklogInv
<1> HIDE DEF S
<1>5. pendingTerminations' <= Cardinality(Terminations')
  BY <1>2, <1>3, <1>4
<1> QED
  BY <1>5 DEF BacklogInv

LEMMA BacklogShrinks ==
    ASSUME FateInv, FateInv', BacklogInv, loop # "failed",
           atWork' \subseteq Backlog', NEW c,
           Terminations \ {c} \subseteq Terminations',
           pendingTerminations' = pendingTerminations -
               (IF pendingTerminations = 0 THEN 0 ELSE 1),
           pendingTerminations \in Nat
    PROVE  BacklogInv'
<1> DEFINE S == Terminations \ {c}
<1>1. IsFiniteSet(Terminations') /\ IsFiniteSet(Terminations)
  BY TerminationsFinite
<1>2. /\ IsFiniteSet(S)
      /\ \/ Cardinality(S) = Cardinality(Terminations) - 1
         \/ Cardinality(S) = Cardinality(Terminations)
      /\ Cardinality(Terminations) \in Nat /\ Cardinality(Terminations') \in Nat
  BY <1>1, FS_RemoveElement, FS_CardinalityType
<1>3. Cardinality(S) <= Cardinality(Terminations')
  BY <1>1, FS_Subset
<1>4. pendingTerminations <= Cardinality(Terminations) /\ Cardinality(S) \in Nat
  BY <1>2, FS_CardinalityType DEF BacklogInv
<1> HIDE DEF S
<1>5. pendingTerminations' <= Cardinality(Terminations')
  BY <1>2, <1>3, <1>4
<1> QED
  BY <1>5 DEF BacklogInv

LEMMA BacklogAside ==
    ASSUME BacklogInv,
           UNCHANGED <<store, held, item, atWork, pendingTerminations>>,
           loop' = "failed" \/ loop # "failed",
           pc = "delivering" <=> pc' = "delivering"
    PROVE  BacklogInv'
BY DEF BacklogInv, Terminations, Backlog, InHands

(* What is written down joins the queue, save for writes and messages that *)
(* have missed their target.                                               *)
LEMMA WrittenWork ==
    ASSUME NEW requests \in Seq(Requests), NEW f, FateInv,
           WriteRequests(requests, store, f)
    PROVE  /\ Whose(store.queue) \subseteq Whose(store'.queue)
           /\ Work \cap Elements(requests) \subseteq Whose(store'.queue)
           /\ Whose(store'.queue) \subseteq Whose(store.queue) \cup Elements(requests)
<1>1. PICK missing \in Missing(requests) : store' = Written(requests, missing, store)
  BY DEF WriteRequests
<1> DEFINE q == ToQueue(requests, missing)
<1>2. /\ Whose(q) = {c \in Elements(requests) : Kind[c] # "write" /\ c \notin missing}
      /\ q \in Seq(ItemType)
  BY ToQueueReaches
<1>3. store \in StoreType /\ store.queue \in Seq(ItemType)
  BY FateTypes
<1>4. store'.queue = store.queue \o q
  BY <1>1, <1>3 DEF Written, StoreType
<1> HIDE DEF q
<1>5. /\ Elements(store'.queue) = Elements(store.queue) \cup Elements(q)
      /\ store'.queue \in Seq(ItemType)
  BY <1>2, <1>3, <1>4, JoinedElements
<1>6. Whose(store'.queue) = Whose(store.queue) \cup Whose(q)
  BY <1>2, <1>3, <1>5, QueueElements
<1>7. missing \subseteq OfKind("message")
  BY DEF Missing
<1>8. Work \cap missing = {} /\ \A c \in Work : Kind[c] # "write"
  BY <1>7 DEF Work, OfKind
<1> QED
  BY <1>2, <1>6, <1>8


LEMMA AskedAnew ==
    ASSUME FateInv, NEW c \in Callers, told[c] = "unasked"
    PROVE  c \notin Backlog \cup InHands \cup taken \cup atWork \cup Waiting
<1>1. c \in Unasked /\ c \in Fresh
  BY DEF Unasked, Fresh
<1>2. c \notin Whose(store.queue)
  BY <1>1 DEF FateInv, StoresAreSound, Sound, Absent
<1> QED
  BY <1>1, <1>2 DEF FateInv, FreshIsApart, Backlog, InHands, Waiting

(* Work asked for joins the backlog, unless it is overtaken already.       *)
LEMMA RequestBacklog ==
    ASSUME FateInv, FateInv', WorkersInv, NEW c \in Callers, Request(c)
    PROVE  BacklogInv'
<1>1. /\ c \notin Terminations /\ c \in Requests
      /\ UNCHANGED <<loop, pc, item>>
      /\ pendingTerminations \in Nat /\ held \in Seq(Requests)
  BY AskedAnew DEF Request, crankVars, Terminations, FateInv, TypeOK
<1>2. InHands' = InHands
  BY <1>1 DEF InHands
<1>3. CASE UNCHANGED <<callVars, store>>
  BY <1>1, <1>3, BacklogAside DEF WorkersInv, callVars, workVars
<1>4. CASE Overtaken(c) /\ AwaitQueuedWork(c) /\ UNCHANGED <<held, store>>
  <2>1. atWork' \subseteq atWork /\ pendingTerminations' = pendingTerminations
    BY <1>1, <1>4 DEF AwaitQueuedWork, Overtaken
  <2>2. Backlog' = Backlog
    BY <1>4 DEF Backlog
  <2>3. CASE loop # "failed"
    <3>1. Terminations' = Terminations /\ atWork' \subseteq Backlog'
      BY <1>2, <2>1, <2>2, <2>3 DEF Terminations, WorkersInv, BacklogInv
    <3> QED
      BY <1>1, <2>1, <2>3, <3>1, BacklogStays DEF WorkersInv
  <2> QED
    BY <1>1, <2>3 DEF BacklogInv
<1>5. ASSUME Accepting, AwaitQueuedWork(c), ~Overtaken(c),
             Backlog \subseteq Backlog', c \in Work => c \in Backlog'
      PROVE  BacklogInv'
  <2>1. loop # "failed"
    BY <1>5 DEF Accepting
  <2>2. atWork' \subseteq atWork \cup ({c} \cap Work) /\ atWork' \subseteq Backlog'
    BY <1>5, <2>1 DEF AwaitQueuedWork, WorkersInv, BacklogInv
  <2>3. CASE Kind[c] = "terminate"
    <3>1. c \in OfKind("terminate") /\ c \in Work
      BY <2>3 DEF OfKind, Work
    <3>2. /\ pendingTerminations' = pendingTerminations + 1
          /\ Terminations \cup {c} \subseteq Terminations'
      BY <1>2, <1>5, <2>3, <3>1 DEF AwaitQueuedWork, Terminations
    <3> QED
      BY <1>1, <2>1, <2>2, <3>2, BacklogGrows DEF WorkersInv
  <2>4. CASE Kind[c] # "terminate"
    <3>1. /\ pendingTerminations' = pendingTerminations
          /\ Terminations \subseteq Terminations'
      BY <1>1, <1>2, <1>5, <2>4 DEF AwaitQueuedWork, Terminations
    <3> QED
      BY <1>1, <2>1, <2>2, <3>1, BacklogStays DEF WorkersInv
  <2> QED
    BY <2>3, <2>4
<1>6. CASE /\ Accepting /\ AwaitQueuedWork(c) /\ ~Overtaken(c)
           /\ held' = Append(held, c) /\ UNCHANGED store
  <2>1. Elements(held') = Elements(held) \cup {c}
    <3>1. /\ <<c>> \in Seq(Requests) /\ Elements(<<c>>) = {c}
          /\ held' = held \o <<c>>
      BY <1>1, <1>6 DEF Elements
    <3>2. Elements(held \o <<c>>) = Elements(held) \cup Elements(<<c>>)
      <4>1. held \in Seq(Requests) /\ <<c>> \in Seq(Requests)
        BY <1>1, <3>1
      <4> QED
        BY <4>1, JoinedElements, ZenonT(60)
    <3> QED
      BY <3>1, <3>2
  <2> QED
    BY <1>5, <1>6, <2>1 DEF Backlog
<1>7. CASE /\ Accepting /\ AwaitQueuedWork(c) /\ ~Overtaken(c)
           /\ WriteRequests(<<c>>, store, [told EXCEPT ![c] = "waiting"])
           /\ UNCHANGED held
  <2>1. <<c>> \in Seq(Requests) /\ Elements(<<c>>) = {c}
    BY <1>1 DEF Elements
  <2>2. /\ Whose(store.queue) \subseteq Whose(store'.queue)
        /\ Work \cap {c} \subseteq Whose(store'.queue)
    <3>1. Work \cap Elements(<<c>>) \subseteq Whose(store'.queue)
          /\ Whose(store.queue) \subseteq Whose(store'.queue)
      BY <1>7, <2>1, WrittenWork
    <3> QED
      BY <2>1, <3>1
  <2> QED
    BY <1>5, <1>7, <2>2 DEF Backlog
<1> QED
  BY <1>3, <1>4, <1>6, <1>7 DEF Request

LEMMA OutsideBacklog ==
    ASSUME FateInv, FateInv', WorkersInv,
           \/ Ask
           \/ AcceptRemoteInbound
           \/ \E m \in Messages : ServiceReplies(m)
           \/ StopKernel
    PROVE  BacklogInv'
<1> USE DEF WorkersInv
<1>1. ASSUME NEW c \in Callers, EnqueueControl(c) \/ EndRunLoop(c)
      PROVE  BacklogInv'
  BY <1>1, BacklogAside
  DEF EnqueueControl, EndRunLoop, crankVars, callVars, workVars
<1>2. CASE AcceptRemoteInbound
  BY <1>2, BacklogAside
  DEF AcceptRemoteInbound, crankVars, callVars, workVars
<1>3. ASSUME NEW m \in Messages, ServiceReplies(m) PROVE BacklogInv'
  <2>1. /\ store'.queue = store.queue
        /\ UNCHANGED <<loop, pc, held, item, atWork, pendingTerminations>>
    BY <1>3, FateTypes
    DEF ServiceReplies, StoreType, runVars, crankVars, workVars
  <2> QED
    BY <2>1 DEF BacklogInv, Terminations, Backlog, InHands
<1>4. CASE StopKernel
  <2>1. atWork' = {} /\ pendingTerminations' = 0
    BY <1>4 DEF StopKernel, AbandonQueuedWork
  <2>2. Cardinality(Terminations') \in Nat
    BY TerminationsFinite, FS_CardinalityType
  <2> QED
    BY <2>1, <2>2 DEF BacklogInv
<1> QED
  BY <1>1, <1>2, <1>3, <1>4, RequestBacklog DEF Ask


LEMMA WorkItem ==
    ASSUME NEW i \in ItemsType, i.who \in Work
    PROVE  i.kind = Kind[i.who] /\ i.who \in OfKind(i.kind)
BY CallersAssumption DEF ItemsType, ItemType, Work, Messages, OfKind, Item

(* Whoever waits for the work taken is taken with it.                      *)
LEMMA TakeBacklog ==
    ASSUME FateInv, FateInv', WorkersInv, TakeItem PROVE BacklogInv'
<1>1. PICK next : OpenCrank(next)
  BY DEF TakeItem, TakeControl, TakeChore, TakeArrival, DequeueRun, Sleep
<1>2. /\ pc = "top" /\ item' = next /\ atWork \subseteq Work
      /\ atWork' = atWork \ (atWork \cap OfKind(next.kind))
      /\ UNCHANGED <<loop, held, pendingTerminations>>
      /\ pendingTerminations \in Nat /\ next \in ItemsType
  <2>1. item' = next /\ item' \in ItemsType
    BY <1>1 DEF OpenCrank, FateInv, TypeOK
  <2> QED
    BY <1>1, <2>1 DEF OpenCrank, TakeWaiters, FateInv, TypeOK
<1>3. /\ Whose(store.queue) \subseteq Whose(store'.queue) \cup {next.who}
      /\ \/ pc' = "delivering"
         \/ Whose(store'.queue) = Whose(store.queue)
  BY <1>1, TakenItem
<1>4. loop # "failed" /\ loop' # "failed"
  BY <1>2 DEF WorkersInv, HandsAreEmpty
<1>5. atWork' \subseteq Backlog'
  <2> SUFFICES ASSUME NEW c \in atWork' PROVE c \in Backlog'
    OBVIOUS
  <2>1. c \in Work /\ c \in Backlog /\ c \notin OfKind(next.kind)
    BY <1>2, <1>4 DEF WorkersInv, BacklogInv
  <2>2. c # next.who
    BY <1>2, <2>1, WorkItem
  <2> QED
    BY <1>2, <1>3, <2>1, <2>2 DEF Backlog
<1>6. Terminations \subseteq Terminations'
  BY <1>2, <1>3 DEF Terminations, Backlog, InHands
<1> QED
  BY <1>2, <1>4, <1>5, <1>6, BacklogStays DEF WorkersInv

LEMMA DeliverBacklog ==
    ASSUME FateInv, FateInv', WorkersInv, Deliver PROVE BacklogInv'
<1>1. /\ pc = "delivering" /\ pc' = "delivered" /\ loop' = loop /\ item' = item
  BY DEF Deliver, DeliverSend, DeliverLater, Splat, DeliverKernelServiceMessage,
         DeliverOther, PerformVatRestart, PerformVatTermination, PerformControl,
         Returns
<1>2. /\ loop # "failed" /\ store \in StoreType /\ item \in ItemsType
      /\ pendingTerminations \in Nat
  BY <1>1, FateTypes DEF WorkersInv, HandsAreEmpty, FateInv, TypeOK
<1>3. ASSUME store'.queue = store.queue, item.kind # "terminate",
             UNCHANGED <<held, atWork, pendingTerminations>>
      PROVE  BacklogInv'
  <2>1. item.who \notin OfKind("terminate")
    BY <1>2, <1>3, WorkItem DEF Work, OfKind
  <2>2. Backlog' = Backlog
    BY <1>3 DEF Backlog
  <2>3. Terminations \subseteq Terminations'
    BY <1>1, <2>1, <2>2 DEF Terminations, InHands
  <2>4. atWork' \subseteq Backlog'
    BY <1>2, <1>3, <2>2 DEF WorkersInv, BacklogInv
  <2> QED
    BY <1>2, <1>3, <2>3, <2>4, BacklogStays DEF WorkersInv
<1>4. ASSUME NEW m \in Messages,
             \/ DeliverSend(m)
             \/ DeliverLater(m)
             \/ Splat(m)
             \/ DeliverKernelServiceMessage(m)
      PROVE  BacklogInv'
  <2>1. /\ item.kind # "terminate"
        /\ UNCHANGED <<held, atWork, pendingTerminations>>
    BY <1>4 DEF DeliverSend, DeliverLater, Splat, DeliverKernelServiceMessage,
                callVars, workVars, Item
  <2>2. store'.queue = store.queue
    <3>1. \/ store' = [store EXCEPT !.deciding = @ \ {m}, !.resolved = @ \cup {m}]
          \/ store' = [store EXCEPT !.deciding = @ \cup {m}]
          \/ store' = [store EXCEPT !.resolved = @ \cup {m}]
          \/ store' = store
      BY <1>4 DEF DeliverSend, DeliverLater, Splat, DeliverKernelServiceMessage,
                  VatResolves, RejectAtOnce
    <3>2. ASSUME store' = [store EXCEPT !.deciding = @ \ {m}, !.resolved = @ \cup {m}]
          PROVE  store'.queue = store.queue
      BY <1>2, <3>2 DEF StoreType
    <3>3. ASSUME store' = [store EXCEPT !.deciding = @ \cup {m}]
          PROVE  store'.queue = store.queue
      BY <1>2, <3>3 DEF StoreType
    <3>4. ASSUME store' = [store EXCEPT !.resolved = @ \cup {m}]
          PROVE  store'.queue = store.queue
      BY <1>2, <3>4 DEF StoreType
    <3> QED
      BY <3>1, <3>2, <3>3, <3>4
  <2> QED
    BY <1>3, <2>1, <2>2
<1>5. CASE DeliverOther
  BY <1>3, <1>5 DEF DeliverOther, callVars, workVars
<1>6. CASE PerformVatRestart
  <2>1. store' = store \/ store' = [store EXCEPT !.done = @ \cup taken]
    BY <1>6 DEF PerformVatRestart
  <2>2. store'.queue = store.queue
    BY <1>2, <2>1 DEF StoreType
  <2> QED
    BY <1>3, <1>6, <2>2 DEF PerformVatRestart, callVars, workVars
<1>7. CASE PerformVatTermination
  <2>1. /\ UNCHANGED <<held, atWork>>
        /\ pendingTerminations' = pendingTerminations -
               (IF pendingTerminations = 0 THEN 0 ELSE 1)
    BY <1>7 DEF PerformVatTermination, AnswerTermination
  <2>2. store'.queue = store.queue
    <3>1. PICK s \in {store, [store EXCEPT !.done = @ \cup taken]} :
             store' = s \/ store' = Retired(s)
      BY <1>7 DEF PerformVatTermination
    <3>2. s.queue = store.queue
      BY <1>2 DEF StoreType
    <3>3. Retired(s).queue = s.queue
      BY <1>2, <3>1 DEF Retired, StoreType
    <3> QED
      BY <3>1, <3>2, <3>3
  <2>3. Backlog' = Backlog
    BY <2>1, <2>2 DEF Backlog
  <2>4. Terminations \ {item.who} \subseteq Terminations'
    BY <2>3 DEF Terminations, InHands
  <2>5. atWork' \subseteq Backlog'
    BY <1>2, <2>1, <2>3 DEF WorkersInv, BacklogInv
  <2> QED
    BY <1>2, <2>1, <2>4, <2>5, BacklogShrinks DEF WorkersInv
<1>8. ASSUME NEW c \in Callers, PerformControl(c) PROVE BacklogInv'
  <2>1. CASE /\ store' = Retired([store EXCEPT !.done = @ \cup {c}])
             /\ UNCHANGED <<held, workVars>>
    <3>1. store'.queue = store.queue
      BY <1>2, <2>1 DEF Retired, StoreType
    <3>2. item.kind # "terminate"
      BY <1>8 DEF PerformControl, Item
    <3> QED
      BY <1>3, <2>1, <3>1, <3>2 DEF workVars
  <2>2. CASE AbandonQueuedWork
    <3>1. Cardinality(Terminations') \in Nat
      BY TerminationsFinite, FS_CardinalityType
    <3> QED
      BY <2>2, <3>1 DEF AbandonQueuedWork, BacklogInv
  <2> QED
    BY <1>8, <2>1, <2>2 DEF PerformControl
<1> QED
  BY <1>4, <1>5, <1>6, <1>7, <1>8 DEF Deliver

LEMMA TurnBacklog ==
    ASSUME FateInv, FateInv', PromisesInv, WorkersInv, Turn PROVE BacklogInv'
<1> USE DEF WorkersInv
<1>1. CASE StartLoop \/ StopLoop \/ WakeUp \/ FinishTurn
  <2>1. /\ UNCHANGED <<store, held, item, atWork, pendingTerminations>>
        /\ loop # "failed"
    BY <1>1
    DEF StartLoop, StopLoop, WakeUp, FinishTurn, crankVars, callVars, workVars,
        HandsAreEmpty
  <2>2. pc # "delivering" /\ pc' # "delivering"
    BY <1>1 DEF StartLoop, StopLoop, WakeUp, FinishTurn, HandsAreEmpty
  <2> QED
    BY <2>1, <2>2, BacklogAside
<1>2. ASSUME pc \in {"delivered", "terminating", "collecting", "flushed"},
             pc' # "delivering",
             UNCHANGED <<loop, atWork, pendingTerminations>>,
             Work \cap Backlog \subseteq Work \cap Backlog'
      PROVE  BacklogInv'
  <2>1. loop # "failed" /\ atWork \subseteq Work /\ pendingTerminations \in Nat
    BY <1>2 DEF HandsAreEmpty, FateInv, TypeOK
  <2>2. Terminations \subseteq Terminations'
    BY <1>2 DEF Terminations, InHands, Work
  <2>3. atWork' \subseteq Backlog'
    BY <1>2, <2>1 DEF BacklogInv
  <2> QED
    BY <1>2, <2>1, <2>2, <2>3, BacklogStays
<1>3. ASSUME pc \in {"delivered", "terminating", "collecting", "flushed"},
             pc' # "delivering",
             UNCHANGED <<loop, atWork, pendingTerminations, held>>,
             Elements(store.queue) \subseteq Elements(store'.queue)
      PROVE  BacklogInv'
  <2>1. Whose(store.queue) = {i.who : i \in Elements(store.queue)}
    BY FateTypes, QueueElements
  <2>2. Whose(store'.queue) = {i.who : i \in Elements(store'.queue)}
    <3>1. store'.queue \in Seq(ItemType)
      BY StoreFields DEF FateInv, TypeOK
    <3> QED
      BY <3>1, QueueElements
  <2> QED
    BY <1>2, <1>3, <2>1, <2>2 DEF Backlog
<1>4. store \in StoreType /\ store.queue \in Seq(ItemType) /\ buffer \in Seq(ItemType)
  BY FateTypes
<1>5. CASE ProcessCrankResult
  <2>1. /\ pc = "delivered" /\ pc' # "delivering"
        /\ UNCHANGED <<loop, atWork, pendingTerminations, held>>
    BY <1>5 DEF ProcessCrankResult, workVars
  <2>2. Elements(store.queue) \subseteq Elements(store'.queue)
    <3>1. CASE verdict.abort
      BY <1>5, <2>1, <3>1
      DEF ProcessCrankResult, RollbackCrank, PromisesInv, SavedTraces, Undoable
    <3>2. CASE ~verdict.abort
      BY <1>5, <3>2 DEF ProcessCrankResult
    <3> QED
      BY <3>1, <3>2
  <2> QED
    BY <1>3, <2>1, <2>2
<1>6. CASE TerminateVat
  <2>1. /\ pc = "terminating" /\ pc' # "delivering"
        /\ UNCHANGED <<loop, atWork, pendingTerminations, held>>
        /\ store' = Retired(store)
    BY <1>6 DEF TerminateVat, workVars
  <2>2. store'.queue = store.queue
    BY <1>4, <2>1 DEF Retired, StoreType
  <2> QED
    BY <1>3, <2>1, <2>2
<1>7. CASE CollectAndFlush
  <2>1. /\ pc = "collecting" /\ pc' # "delivering"
        /\ UNCHANGED <<loop, atWork, pendingTerminations, held>>
    BY <1>7 DEF CollectAndFlush, workVars
  <2>2. store'.queue = store.queue \/ store'.queue = store.queue \o buffer
    <3>1. PICK chore : store' = [store EXCEPT !.chore = chore,
                          !.queue = IF verdict.abort THEN @ ELSE @ \o buffer]
      BY <1>7 DEF CollectAndFlush
    <3> QED
      BY <1>4, <3>1 DEF StoreType
  <2>3. Elements(store.queue \o buffer) = Elements(store.queue) \cup Elements(buffer)
    BY <1>4, JoinedElements
  <2>4. Elements(store.queue) \subseteq Elements(store'.queue)
    BY <2>2, <2>3
  <2> QED
    BY <1>3, <2>1, <2>4
<1>8. CASE EndCrank
  <2>1. /\ pc = "flushed" /\ pc' # "delivering"
        /\ UNCHANGED <<loop, atWork, pendingTerminations>>
        /\ WriteRequests(held, store, TellFinished)
    BY <1>8 DEF EndCrank, workVars
  <2>2. /\ Whose(store.queue) \subseteq Whose(store'.queue)
        /\ Work \cap Elements(held) \subseteq Whose(store'.queue)
    BY <2>1, FateTypes, WrittenWork
  <2> QED
    BY <1>2, <2>1, <2>2 DEF Backlog
<1> QED
  BY <1>1, <1>5, <1>6, <1>7, <1>8, TakeBacklog, DeliverBacklog DEF Turn

LEMMA FaultBacklog ==
    ASSUME FateInv', Fault PROVE BacklogInv'
<1>1. CASE loop' = "failed"
  BY <1>1 DEF BacklogInv
<1>2. CASE Crash
  <2>1. atWork' = {} /\ pendingTerminations' = 0
    BY <1>2 DEF Crash, AbandonQueuedWork
  <2>2. Cardinality(Terminations') \in Nat
    BY TerminationsFinite, FS_CardinalityType
  <2> QED
    BY <2>1, <2>2 DEF BacklogInv
<1> QED
  BY <1>1, <1>2
  DEF Fault, CrankThrows, TerminateThrows, CommitFails, HeldWriteThrows,
      AfterCommitThrows, FailRunLoop


(* The hands are empty between cranks, and a loop that is not running is   *)
(* nowhere in its turn.                                                    *)
LEMMA HandsStayEmpty ==
    ASSUME ParkInv, HandsAreEmpty, [Next]_vars PROVE HandsAreEmpty'
<1> USE DEF HandsAreEmpty, InCrank
<1>1. CASE UNCHANGED vars
  BY <1>1 DEF vars, runVars, crankVars, replyVars, controlVars
<1>2. ASSUME NEW c \in Callers, Request(c) \/ EnqueueControl(c) \/ EndRunLoop(c)
      PROVE  HandsAreEmpty'
  BY <1>2 DEF Request, EnqueueControl, EndRunLoop, crankVars, replyVars,
              controlVars
<1>3. CASE AcceptRemoteInbound
  BY <1>3 DEF AcceptRemoteInbound, crankVars, replyVars, controlVars
<1>4. ASSUME NEW m \in Messages, ServiceReplies(m) PROVE HandsAreEmpty'
  BY <1>4 DEF ServiceReplies, runVars, crankVars, replyVars, controlVars
<1>5. CASE StopKernel
  BY <1>5 DEF StopKernel, runVars, crankVars, replyVars, controlVars
<1>6. CASE StartLoop \/ StopLoop \/ WakeUp \/ FinishTurn
  BY <1>6 DEF StartLoop, StopLoop, WakeUp, FinishTurn, crankVars, replyVars,
              controlVars, ParkInv
<1>7. CASE TakeItem
  <2>1. PICK next : OpenCrank(next)
    BY <1>7 DEF TakeItem, TakeControl, TakeChore, TakeArrival, DequeueRun, Sleep
  <2>2. pc = "top" /\ loop' = loop /\ due' = due
        /\ taken' = atWork \cap OfKind(next.kind) /\ item' = next
    BY <2>1 DEF OpenCrank, TakeWaiters
  <2>3. CASE pc' = "delivering"
    BY <2>2, <2>3
  <2>4. CASE Sleep
    <3>1. next = NoItem
      <4>1. item' = NoItem
        BY <2>4 DEF Sleep, OpenCrank
      <4> QED
        BY <2>2, <4>1
    <3>2. OfKind("none") = {}
      BY CallersAssumption DEF OfKind, Kinds
    <3> QED
      BY <2>2, <2>4, <3>1, <3>2 DEF Sleep, NoItem, Item
  <2> QED
    BY <1>7, <2>3, <2>4
    DEF TakeItem, TakeControl, TakeChore, TakeArrival, DequeueRun, Deliverable
<1>8. CASE Deliver
  BY <1>8 DEF Deliver, DeliverSend, DeliverLater, Splat,
     DeliverKernelServiceMessage, DeliverOther, PerformVatRestart,
     PerformVatTermination, PerformControl, Returns
<1>9. CASE ProcessCrankResult \/ TerminateVat \/ CollectAndFlush
  BY <1>9 DEF ProcessCrankResult, TerminateVat, CollectAndFlush
<1>10. CASE EndCrank
  BY <1>10 DEF EndCrank
<1>11. ASSUME NEW s, NEW f, FailRunLoop(s, f) PROVE HandsAreEmpty'
  BY <1>11 DEF FailRunLoop
<1>12. CASE Crash
  BY <1>12 DEF Crash
<1> QED
  BY <1>1, <1>2, <1>3, <1>4, <1>5, <1>6, <1>7, <1>8, <1>9, <1>10, <1>11, <1>12
  DEF Next, Ask, Turn, Fault, CrankThrows, TerminateThrows, CommitFails,
      HeldWriteThrows, AfterCommitThrows

(* Restarts are overtaken only while a termination is pending.             *)
LEMMA OvertakingIsPending ==
    ASSUME TypeOK, superseded # {} => pendingTerminations > 0, [Next]_vars
    PROVE  superseded' # {} => pendingTerminations' > 0
<1>1. pendingTerminations \in Nat
  BY DEF TypeOK
<1>2. CASE UNCHANGED <<superseded, pendingTerminations>>
  BY <1>2
<1>3. ASSUME NEW c \in Callers, Request(c)
      PROVE  superseded' # {} => pendingTerminations' > 0
  <2>1. CASE UNCHANGED callVars
    BY <1>2, <2>1 DEF callVars, workVars
  <2>2. CASE AwaitQueuedWork(c)
    <3>1. CASE Kind[c] = "terminate"
      BY <1>1, <2>2, <3>1 DEF AwaitQueuedWork
    <3>2. CASE Overtaken(c) /\ Kind[c] # "terminate"
      BY <1>1, <2>2, <3>2 DEF AwaitQueuedWork, Overtaken
    <3>3. CASE ~Overtaken(c) /\ Kind[c] # "terminate"
      <4>1. superseded' = superseded /\ pendingTerminations' = pendingTerminations
        BY <1>1, <2>2, <3>3 DEF AwaitQueuedWork
      <4> QED
        BY <4>1
    <3> QED
      BY <3>1, <3>2, <3>3
  <2> QED
    BY <1>3, <2>1, <2>2 DEF Request
<1>4. CASE superseded' = {}
  BY <1>4
<1>5. ASSUME TakeItem PROVE UNCHANGED <<superseded, pendingTerminations>>
  BY <1>5 DEF TakeItem, TakeControl, TakeChore, TakeArrival, DequeueRun, Sleep,
              OpenCrank
<1>6. ASSUME Deliver
      PROVE  UNCHANGED <<superseded, pendingTerminations>> \/ superseded' = {}
  BY <1>6 DEF Deliver, DeliverSend, DeliverLater, Splat,
     DeliverKernelServiceMessage, DeliverOther, PerformVatRestart,
     PerformVatTermination, PerformControl, AnswerTermination,
     AbandonQueuedWork, callVars, workVars
<1>7. ASSUME \/ ProcessCrankResult \/ TerminateVat \/ CollectAndFlush
             \/ EndCrank \/ StartLoop \/ StopLoop \/ WakeUp \/ FinishTurn
      PROVE  UNCHANGED <<superseded, pendingTerminations>>
  BY <1>7 DEF ProcessCrankResult, TerminateVat, CollectAndFlush, EndCrank,
     StartLoop, StopLoop, WakeUp, FinishTurn, callVars, workVars
<1>8. ASSUME Fault
      PROVE  UNCHANGED <<superseded, pendingTerminations>> \/ superseded' = {}
  BY <1>8 DEF Fault, CrankThrows, TerminateThrows, CommitFails,
     HeldWriteThrows, AfterCommitThrows, FailRunLoop, workVars, Crash,
     AbandonQueuedWork
<1>9. ASSUME \/ AcceptRemoteInbound
             \/ \E m \in Messages : ServiceReplies(m)
             \/ \E c \in Callers : EnqueueControl(c) \/ EndRunLoop(c)
             \/ UNCHANGED vars
      PROVE  UNCHANGED <<superseded, pendingTerminations>>
  BY <1>9 DEF AcceptRemoteInbound, ServiceReplies, EnqueueControl, EndRunLoop,
     callVars, workVars, vars
<1>10. ASSUME StopKernel PROVE superseded' = {}
  BY <1>10 DEF StopKernel, AbandonQueuedWork
<1> QED
  BY <1>2, <1>3, <1>4, <1>5, <1>6, <1>7, <1>8, <1>9, <1>10 DEF Next, Ask, Turn

(* A termination's delivery is never undone, nor is it still queued.       *)
LEMMA ItemStaysOut ==
    ASSUME FateInv, FateInv', ParkInv, ItemIsNotQueued, [Next]_vars
    PROVE  ItemIsNotQueued'
<1> USE DEF ItemIsNotQueued, Undoable
<1>1. CASE Ask
  <2> SUFFICES ASSUME NEW c \in Callers,
                      Request(c) \/ EnqueueControl(c) \/ EndRunLoop(c)
               PROVE  ItemIsNotQueued'
    BY <1>1 DEF Ask
  <2>1. /\ UNCHANGED <<pc, item, verdict>> /\ told[c] = "unasked"
        /\ store' = store \/ ~InCrank
    BY DEF Request, EnqueueControl, EndRunLoop, crankVars
  <2> QED
    BY <2>1 DEF InCrank
<1>2. CASE AcceptRemoteInbound \/ StopKernel \/ UNCHANGED vars
  BY <1>2 DEF AcceptRemoteInbound, StopKernel, runVars, crankVars, vars
<1>3. ASSUME NEW m \in Messages, ServiceReplies(m) PROVE ItemIsNotQueued'
  <2>1. store'.queue = store.queue /\ UNCHANGED <<pc, item, verdict>>
    BY <1>3, FateTypes DEF ServiceReplies, StoreType, runVars, crankVars
  <2> QED
    BY <2>1
<1>4. CASE TakeItem
  <2>1. PICK next : OpenCrank(next)
    BY <1>4 DEF TakeItem, TakeControl, TakeChore, TakeArrival, DequeueRun, Sleep
  <2>2. /\ item' = next /\ pc' \in {"delivering", "asleep"}
        /\ next.kind = "terminate" => /\ pc' = "delivering"
                                      /\ next.who \notin Whose(store'.queue)
    BY <1>4, <2>1, TakenItem DEF OpenCrank
  <2> QED
    BY <2>2
<1>5. CASE Deliver
  <2>1. CASE item.kind # "terminate"
    <3>1. item' = item
      BY <1>5 DEF Deliver, DeliverSend, DeliverLater, Splat,
         DeliverKernelServiceMessage, DeliverOther, PerformVatRestart,
         PerformVatTermination, PerformControl, Returns
    <3> QED
      BY <2>1, <3>1
  <2>2. CASE item.kind = "terminate"
    <3>1. PerformVatTermination
      <4>1. \A m \in Callers : item \notin {Item("send", m), Item("later", m),
                                             Item("control", m)}
        BY <2>2 DEF Item
      <4>2. \A m \in Messages : m \in Callers
        BY KindsApart
      <4> QED
        BY <1>5, <2>2, <4>1, <4>2 DEF Deliver, DeliverSend, DeliverLater, Splat,
           DeliverKernelServiceMessage, DeliverOther, PerformVatRestart,
           PerformControl
    <3>2. pc' = "delivered" /\ ~verdict'.abort
      <4>1. PICK v \in {Verdict, [Verdict EXCEPT !.irrevocable = TRUE]} : Returns(v)
        BY <3>1 DEF PerformVatTermination
      <4>2. ~v.abort
        BY <4>1 DEF Verdict
      <4> QED
        BY <4>1, <4>2 DEF Returns
    <3> QED
      BY <3>2
  <2> QED
    BY <2>1, <2>2
<1>6. CASE pc' \notin {"delivering", "delivered"}
  BY <1>6
<1>7. ASSUME \/ StartLoop \/ StopLoop \/ WakeUp \/ FinishTurn \/ EndCrank
             \/ ProcessCrankResult \/ TerminateVat \/ CollectAndFlush
             \/ Fault
      PROVE  pc' \notin {"delivering", "delivered"}
  BY <1>7 DEF StartLoop, StopLoop, WakeUp, FinishTurn, EndCrank,
     ProcessCrankResult, TerminateVat, CollectAndFlush, Fault, CrankThrows,
     TerminateThrows, CommitFails, HeldWriteThrows, AfterCommitThrows,
     FailRunLoop, Crash
<1> QED
  BY <1>1, <1>2, <1>3, <1>4, <1>5, <1>6, <1>7 DEF Next, Turn


(* Whom a step may leave waiting: those who waited, and one who asks.      *)
LEMMA TellWaits ==
    ASSUME NEW f, NEW who, NEW what, what # "waiting", NEW c \in Callers,
           Tell(f, who, what)[c] = "waiting"
    PROVE  f[c] = "waiting" /\ c \notin who
BY DEF Tell

LEMMA WrittenWaits ==
    ASSUME NEW requests, NEW f, WriteRequests(requests, store, f),
           NEW c \in Callers, told'[c] = "waiting"
    PROVE  f[c] = "waiting" /\ c \notin Elements(requests) \cap OfKind("write")
<1>1. PICK missing :
         told' = Tell(Tell(f, Elements(requests) \cap OfKind("write"), "answered"),
                      missing, "refused")
  BY DEF WriteRequests
<1> DEFINE g == Tell(f, Elements(requests) \cap OfKind("write"), "answered")
<1>2. g[c] = "waiting"
  <2> HIDE DEF g
  <2>1. told' = Tell(g, missing, "refused")
    BY <1>1 DEF g
  <2> QED
    BY <2>1, TellWaits
<1> QED
  BY <1>2, TellWaits

LEMMA FinishedWaits ==
    ASSUME TypeOK, NEW c \in Callers, TellFinished[c] = "waiting"
    PROVE  /\ told[c] = "waiting" /\ c # controlInFlight
           /\ c \notin due.answered \cup due.refused
           /\ c \in taken => ~(verdict.afterCommit /\ ~verdict.abort)
<1>1. verdict.reply # "waiting"
  BY DEF TypeOK, VerdictType
<1> DEFINE f == Tell(told, due.answered, "answered")
           g == Tell(TellDue(told), {controlInFlight}, "answered")
           ended == IF verdict.afterCommit /\ ~verdict.abort THEN taken ELSE {}
<1>2. g[c] = "waiting" /\ c \notin ended
  <2>1. TellFinished = Tell(g, ended, verdict.reply)
    BY DEF TellFinished
  <2> HIDE DEF g, ended
  <2> QED
    BY <1>1, <2>1, TellWaits
<1>3. TellDue(told)[c] = "waiting" /\ c # controlInFlight
  BY <1>2, TellWaits
<1>4. f[c] = "waiting" /\ c \notin due.refused
  <2>1. TellDue(told) = Tell(f, due.refused, "refused")
    BY DEF TellDue
  <2> HIDE DEF f
  <2> QED
    BY <1>3, <2>1, TellWaits
<1>5. told[c] = "waiting" /\ c \notin due.answered
  BY <1>4, TellWaits
<1> QED
  BY <1>2, <1>3, <1>4, <1>5

LEMMA AskedWaits ==
    ASSUME TypeOK, NEW c \in Callers,
           Request(c) \/ EnqueueControl(c) \/ EndRunLoop(c)
    PROVE  Waiting' \subseteq Waiting \cup {c}
<1> SUFFICES ASSUME NEW d \in Callers, told'[d] = "waiting", d # c
             PROVE  told[d] = "waiting"
  BY DEF Waiting
<1>1. told \in [Callers -> Fates]
  BY ToldTypes
<1>2. CASE EnqueueControl(c) \/ EndRunLoop(c)
  BY <1>1, <1>2 DEF EnqueueControl, EndRunLoop
<1>3. CASE Request(c)
  <2>1. CASE \E what : told' = [told EXCEPT ![c] = what]
    BY <1>1, <2>1
  <2>2. CASE WriteRequests(<<c>>, store, [told EXCEPT ![c] = "waiting"])
    <3>1. [told EXCEPT ![c] = "waiting"][d] = "waiting"
      BY <2>2, WrittenWaits
    <3> QED
      BY <1>1, <3>1
  <2> QED
    BY <1>3, <2>1, <2>2 DEF Request
<1> QED
  BY <1>2, <1>3

LEMMA DeliveredWaits ==
    ASSUME Deliver PROVE Waiting' \subseteq Waiting
<1> SUFFICES ASSUME NEW d \in Callers, told'[d] = "waiting"
             PROVE  told[d] = "waiting"
  BY DEF Waiting
<1>1. \/ told' = told
      \/ \E who : told' = Tell(told, who, "splat")
      \/ \E who : told' = Tell(told, who, "answered")
      \/ \E who : told' = Tell(told, who, "refused")
  BY DEF Deliver, DeliverSend, DeliverLater, Splat, RejectAtOnce,
     DeliverKernelServiceMessage, DeliverOther, PerformVatRestart,
     PerformVatTermination, PerformControl, TellDecided
<1> QED
  BY <1>1, TellWaits

LEMMA NobodyElseWaits ==
    ASSUME TypeOK,
           \/ AcceptRemoteInbound
           \/ \E m \in Messages : ServiceReplies(m)
           \/ Turn
           \/ StopKernel
           \/ UNCHANGED vars
    PROVE  Waiting' \subseteq Waiting
<1>1. CASE Deliver
  BY <1>1, DeliveredWaits
<1> SUFFICES ASSUME NEW d \in Callers, told'[d] = "waiting", ~Deliver
             PROVE  told[d] = "waiting"
  BY <1>1 DEF Waiting
<1>2. ASSUME \/ \E who : told' = Tell(told, who, "answered")
             \/ \E who : told' = Tell(told, who, "refused")
             \/ told' = told
      PROVE  told[d] = "waiting"
  BY <1>2, TellWaits
<1>3. CASE EndCrank
  <2>1. TellFinished[d] = "waiting"
    BY <1>3, WrittenWaits DEF EndCrank
  <2> QED
    BY <2>1, FinishedWaits
<1>4. CASE \/ AcceptRemoteInbound
           \/ \E m \in Messages : ServiceReplies(m)
           \/ StopKernel
           \/ UNCHANGED vars
  BY <1>2, <1>4 DEF AcceptRemoteInbound, ServiceReplies, StopKernel, vars
<1>5. CASE \/ StartLoop \/ StopLoop \/ WakeUp \/ FinishTurn
           \/ ProcessCrankResult \/ TerminateVat \/ CollectAndFlush
  BY <1>2, <1>5 DEF StartLoop, StopLoop, WakeUp, FinishTurn,
     ProcessCrankResult, TerminateVat, CollectAndFlush, TellDecided
<1>6. CASE TakeItem
  BY <1>2, <1>6 DEF TakeItem, TakeControl, TakeChore, TakeArrival, DequeueRun,
     Sleep, OpenCrank
<1> QED
  BY <1>3, <1>4, <1>5, <1>6 DEF Turn


(* Only a restart or a termination takes those who wait for it.            *)
LEMMA TakenAlike ==
    ASSUME TypeOK, item.kind \notin {"restart", "terminate"}
    PROVE  taken = {}
BY CallersAssumption DEF TypeOK, OfKind, Work

LEMMA TakenStayOwed ==
    ASSUME FateInv, FateInv', ParkInv, HandsAreEmpty, HandsAreEmpty',
           TakenAreOwed, [Next]_vars
    PROVE  TakenAreOwed'
<1>1. TypeOK /\ TypeOK'
  BY DEF FateInv
<1>2. CASE taken' = {}
  BY <1>2 DEF TakenAreOwed
<1>3. ASSUME UNCHANGED <<taken, due, verdict>>, taken \cap Waiting' \subseteq Waiting,
             pc # "delivering" \/ pc' = pc
      PROVE  TakenAreOwed'
  BY <1>3 DEF TakenAreOwed
<1>4. ASSUME NEW c \in Callers, Request(c) \/ EnqueueControl(c) \/ EndRunLoop(c)
      PROVE  TakenAreOwed'
  <2>1. UNCHANGED <<taken, due, verdict, pc>> /\ told[c] = "unasked"
    BY <1>4 DEF Request, EnqueueControl, EndRunLoop, crankVars, replyVars
  <2>2. c \notin taken
    BY <2>1, AskedAnew
  <2>3. Waiting' \subseteq Waiting \cup {c}
    BY <1>1, <1>4, AskedWaits
  <2> QED
    BY <1>3, <2>1, <2>2, <2>3
<1>5. ASSUME \/ AcceptRemoteInbound
             \/ \E m \in Messages : ServiceReplies(m)
             \/ StopKernel
             \/ StartLoop \/ StopLoop \/ WakeUp \/ FinishTurn
             \/ ProcessCrankResult \/ TerminateVat \/ CollectAndFlush
             \/ UNCHANGED vars
      PROVE  TakenAreOwed'
  <2>1. Waiting' \subseteq Waiting
    BY <1>1, <1>5, NobodyElseWaits DEF Turn
  <2>2. CASE \/ StartLoop \/ StopLoop \/ WakeUp \/ FinishTurn
             \/ ProcessCrankResult \/ TerminateVat \/ CollectAndFlush
    <3>1. UNCHANGED <<taken, due, verdict>> /\ pc # "delivering"
      BY <2>2 DEF StartLoop, StopLoop, WakeUp, FinishTurn, ProcessCrankResult,
         TerminateVat, CollectAndFlush, crankVars, replyVars, ParkInv
    <3> QED
      BY <1>3, <2>1, <3>1
  <2>3. CASE \/ AcceptRemoteInbound
             \/ \E m \in Messages : ServiceReplies(m)
             \/ StopKernel
             \/ UNCHANGED vars
    <3>1. UNCHANGED <<taken, due, verdict, pc>>
      BY <2>3 DEF AcceptRemoteInbound, ServiceReplies, StopKernel, vars,
         runVars, crankVars, replyVars
    <3> QED
      BY <1>3, <2>1, <3>1
  <2> QED
    BY <1>5, <2>2, <2>3
<1>6. CASE TakeItem
  <2>1. CASE pc' = "delivering"
    BY <2>1 DEF TakenAreOwed
  <2>2. CASE Sleep
    <3>1. pc' = "asleep"
      BY <2>2 DEF Sleep
    <3> QED
      BY <1>2, <3>1 DEF HandsAreEmpty, InCrank
  <2> QED
    BY <1>6, <2>1, <2>2
    DEF TakeItem, TakeControl, TakeChore, TakeArrival, DequeueRun, Deliverable
<1>7. CASE Deliver
  <2>1. taken' = taken
    BY <1>7 DEF Deliver, DeliverSend, DeliverLater, Splat,
       DeliverKernelServiceMessage, DeliverOther, PerformVatRestart,
       PerformVatTermination, PerformControl, replyVars
  <2>2. CASE item.kind \notin {"restart", "terminate"}
    BY <1>1, <1>2, <2>1, <2>2, TakenAlike
  <2>3. CASE PerformVatRestart
    <3>1. taken' = taken
      BY <2>3 DEF PerformVatRestart
    <3>2. CASE taken = {}
      BY <1>2, <3>1, <3>2
    <3>3. CASE \E v : /\ Returns(v) /\ v.afterCommit /\ ~v.abort
      BY <3>3 DEF Returns, TakenAreOwed
    <3>4. CASE due' = [due EXCEPT !.refused = taken]
      <4>1. due'.refused = taken
        BY <1>1, <3>4 DEF TypeOK
      <4> QED
        BY <3>1, <4>1 DEF TakenAreOwed
    <3>5. /\ [Verdict EXCEPT !.afterCommit = TRUE, !.reply = "refused"].afterCommit
          /\ ~[Verdict EXCEPT !.afterCommit = TRUE, !.reply = "refused"].abort
          /\ [Verdict EXCEPT !.afterCommit = TRUE].afterCommit
          /\ ~[Verdict EXCEPT !.afterCommit = TRUE].abort
      BY DEF Verdict
    <3> QED
      BY <2>3, <3>2, <3>3, <3>4, <3>5 DEF PerformVatRestart
  <2>4. CASE PerformVatTermination
    <3>1. /\ taken' = taken
          /\ \E reply : AnswerTermination(reply)
      BY <2>4 DEF PerformVatTermination
    <3>2. taken \subseteq due'.answered \cup due'.refused
      BY <3>1 DEF AnswerTermination
    <3> QED
      BY <3>1, <3>2 DEF TakenAreOwed
  <2>5. ASSUME item.kind \in {"restart", "terminate"}
        PROVE  PerformVatRestart \/ PerformVatTermination
    <3>1. \A m \in Callers : item \notin {Item("send", m), Item("later", m),
                                           Item("control", m)}
      BY <2>5 DEF Item
    <3>2. \A m \in Messages : m \in Callers
      BY KindsApart
    <3> QED
      BY <1>7, <2>5, <3>1, <3>2 DEF Deliver, DeliverSend, DeliverLater, Splat,
         DeliverKernelServiceMessage, DeliverOther, PerformControl
  <2> QED
    BY <2>2, <2>3, <2>4, <2>5
<1>8. ASSUME EndCrank \/ Fault PROVE taken' = {}
  BY <1>8 DEF EndCrank, Fault, CrankThrows, TerminateThrows, CommitFails,
     HeldWriteThrows, AfterCommitThrows, FailRunLoop, Crash
<1> QED
  BY <1>2, <1>4, <1>5, <1>6, <1>7, <1>8 DEF Next, Ask, Turn

LEMMA NextWorkers ==
    ASSUME FateInv, FateInv', ParkInv, PromisesInv, WorkersInv, [Next]_vars
    PROVE  WorkersInv'
<1>1. HandsAreEmpty'
  BY HandsStayEmpty DEF WorkersInv
<1>2. (superseded # {} => pendingTerminations > 0)'
  BY OvertakingIsPending DEF WorkersInv, FateInv
<1>3. ItemIsNotQueued' /\ TakenAreOwed'
  BY <1>1, ItemStaysOut, TakenStayOwed DEF WorkersInv
<1>4. BacklogInv'
  <2>1. CASE UNCHANGED vars
    BY <2>1, BacklogAside
    DEF vars, runVars, callVars, crankVars, workVars, WorkersInv
  <2> QED
    BY <2>1, OutsideBacklog, TurnBacklog, FaultBacklog DEF Next
<1> QED
  BY <1>1, <1>2, <1>3, <1>4 DEF WorkersInv


LEMMA EveryKind ==
    /\ Callers = OfKind("write") \cup Messages \cup Work \cup OfKind("control")
                     \cup OfKind("stop")
    /\ OfKind("write") \cap (Messages \cup Work \cup OfKind("control")
                                 \cup OfKind("stop")) = {}
    /\ Messages \cap (Work \cup OfKind("control") \cup OfKind("stop")) = {}
    /\ Work \cap (OfKind("control") \cup OfKind("stop")) = {}
    /\ OfKind("control") \cap OfKind("stop") = {}
BY CallersAssumption DEF Kinds, OfKind, Messages, Work

(* A caller stays on its list.                                             *)
LEMMA ListedAside ==
    ASSUME WaitersListed, Waiting' \subseteq Waiting,
           subscriptions \cap Waiting' \subseteq subscriptions',
           loop' = loop \/ loop' = "running",
           UNCHANGED <<held, atWork, superseded, taken, due, controls,
                       controlInFlight, ending>>
    PROVE  WaitersListed'
BY DEF WaitersListed, Listed

LEMMA ToldLeave ==
    ASSUME NEW X, NEW what, what # "waiting",
           told' = Tell(told, X \cap subscriptions, what),
           subscriptions' = subscriptions \ X
    PROVE  subscriptions \cap Waiting' \subseteq subscriptions'
BY TellWaits DEF Waiting

LEMMA WrittenListed ==
    ASSUME NEW requests, NEW f, WriteRequests(requests, store, f)
    PROVE  /\ subscriptions \subseteq subscriptions'
           /\ Elements(requests) \cap Messages \cap Waiting' \subseteq subscriptions'
<1>1. PICK missing :
         /\ subscriptions' = subscriptions \cup
                ((Elements(requests) \cap Messages) \ missing)
         /\ told' = Tell(Tell(f, Elements(requests) \cap OfKind("write"), "answered"),
                         missing, "refused")
  BY DEF WriteRequests
<1>2. \A c \in Waiting' : c \notin missing
  BY <1>1, TellWaits DEF Waiting
<1> QED
  BY <1>1, <1>2

LEMMA RequestListed ==
    ASSUME TypeOK, WaitersListed, NEW c \in Callers, Request(c)
    PROVE  WaitersListed'
<1>1. /\ c \in Requests /\ Waiting' \subseteq Waiting \cup {c}
      /\ UNCHANGED <<loop, taken, due, controls, controlInFlight, ending>>
      /\ held \in Seq(Requests)
  BY AskedWaits DEF Request, controlVars, crankVars, replyVars, TypeOK
<1>2. CASE told' = [told EXCEPT ![c] = "refused"] /\ UNCHANGED callVars
  <2>1. c \notin Waiting'
    BY <1>2 DEF Waiting, TypeOK
  <2> QED
    BY <1>1, <1>2, <2>1, ListedAside DEF callVars, workVars
<1>3. ASSUME Accepting, AwaitQueuedWork(c), subscriptions \subseteq subscriptions',
             Elements(held) \subseteq Elements(held'),
             c \in Waiting' /\ c \notin Work =>
                \/ c \in Elements(held')
                \/ c \in Messages /\ c \in subscriptions'
      PROVE  WaitersListed'
  <2>1. /\ atWork \cup superseded \subseteq atWork' \cup superseded'
        /\ c \in Work => c \in atWork' \cup superseded'
    BY <1>3 DEF AwaitQueuedWork
  <2>2. loop' # "failed"
    BY <1>1, <1>3 DEF Accepting
  <2>3. ASSUME NEW d \in Waiting PROVE Listed(d)'
    BY <1>1, <1>3, <2>1, <2>3 DEF WaitersListed, Listed
  <2>4. ASSUME c \in Waiting' PROVE Listed(c)'
    <3>1. /\ c \notin OfKind("control") /\ c \notin OfKind("stop")
          /\ c \in OfKind("write") => c \notin Messages /\ c \notin Work
          /\ c \in Messages => c \notin Work
      BY <1>1, EveryKind DEF Requests
    <3> QED
      BY <1>3, <2>1, <2>4, <3>1 DEF Listed
  <2> QED
    BY <1>1, <2>2, <2>3, <2>4 DEF WaitersListed
<1>4. CASE /\ Accepting /\ AwaitQueuedWork(c) /\ Overtaken(c)
           /\ UNCHANGED <<held, subscriptions>>
  <2>1. c \in Work
    BY <1>4 DEF Overtaken, Work, OfKind
  <2> QED
    BY <1>3, <1>4, <2>1
<1>5. CASE /\ Accepting /\ AwaitQueuedWork(c) /\ held' = Append(held, c)
           /\ UNCHANGED subscriptions
  <2>1. /\ <<c>> \in Seq(Requests) /\ Elements(<<c>>) = {c}
        /\ held' = held \o <<c>>
    BY <1>1, <1>5 DEF Elements
  <2>2. Elements(held \o <<c>>) = Elements(held) \cup Elements(<<c>>)
    <3>1. held \in Seq(Requests) /\ <<c>> \in Seq(Requests)
      BY <1>1, <2>1 DEF TypeOK
    <3> QED
      BY <3>1, JoinedElements, ZenonT(60)
  <2> QED
    BY <1>3, <1>5, <2>1, <2>2
<1>6. CASE /\ Accepting /\ AwaitQueuedWork(c) /\ UNCHANGED held
           /\ WriteRequests(<<c>>, store, [told EXCEPT ![c] = "waiting"])
  <2>1. Elements(<<c>>) = {c}
    BY DEF Elements
  <2>2. /\ subscriptions \subseteq subscriptions'
        /\ Elements(<<c>>) \cap Messages \cap Waiting' \subseteq subscriptions'
    BY <1>6, WrittenListed
  <2>3. c \in Waiting' => c \notin OfKind("write")
    BY <1>6, <2>1, WrittenWaits DEF Waiting
  <2> QED
    BY <1>1, <1>3, <1>6, <2>1, <2>2, <2>3 DEF Requests
<1> QED
  BY <1>2, <1>4, <1>5, <1>6 DEF Request

LEMMA OutsideListed ==
    ASSUME FateInv, ParkInv, WorkersInv, WaitersListed,
           \/ Ask
           \/ AcceptRemoteInbound
           \/ \E m \in Messages : ServiceReplies(m)
           \/ StopKernel
    PROVE  WaitersListed'
<1>1. TypeOK
  BY DEF FateInv
<1>2. ASSUME NEW c \in Callers, EnqueueControl(c) PROVE WaitersListed'
  <2>1. /\ Waiting' \subseteq Waiting \cup {c} /\ c \in OfKind("control")
        /\ UNCHANGED <<held, subscriptions, atWork, superseded, taken, due,
                       controlInFlight, ending, loop>>
        /\ controls \in Seq(OfKind("control"))
    BY <1>1, <1>2, AskedWaits
    DEF EnqueueControl, OfKind, callVars, workVars, crankVars, replyVars, TypeOK
  <2>2. CASE loop # "running" \/ ending
    <3>1. c \notin Waiting' /\ UNCHANGED controls
      BY <1>1, <1>2, <2>2 DEF EnqueueControl, Waiting, TypeOK
    <3> QED
      BY <2>1, <3>1, ListedAside
  <2>3. CASE ~(loop # "running" \/ ending)
    <3>1. controls' = Append(controls, c)
      BY <1>2, <2>3 DEF EnqueueControl
    <3>2. /\ <<c>> \in Seq(OfKind("control")) /\ Elements(<<c>>) = {c}
          /\ controls' = controls \o <<c>>
      BY <2>1, <3>1 DEF Elements
    <3>3. Elements(controls \o <<c>>) = Elements(controls) \cup Elements(<<c>>)
      <4>1. controls \in Seq(OfKind("control")) /\ <<c>> \in Seq(OfKind("control"))
        BY <2>1, <3>2
      <4> QED
        BY <4>1, JoinedElements, ZenonT(60)
    <3>4. ASSUME NEW d \in Waiting PROVE Listed(d)'
      BY <2>1, <3>2, <3>3, <3>4 DEF WaitersListed, Listed
    <3>5. Listed(c)'
      BY <2>1, <3>2, <3>3, EveryKind DEF Listed
    <3> QED
      BY <2>1, <2>3, <3>4, <3>5 DEF WaitersListed
  <2> QED
    BY <2>2, <2>3
<1>3. ASSUME NEW c \in Callers, EndRunLoop(c) PROVE WaitersListed'
  <2>1. /\ Waiting' \subseteq Waiting \cup {c} /\ c \in OfKind("stop")
        /\ UNCHANGED <<held, subscriptions, atWork, superseded, taken, due,
                       controls, controlInFlight, loop>>
        /\ ending' = (ending \/ loop = "running")
        /\ c \in Waiting' => loop = "running"
    BY <1>1, <1>3, AskedWaits
    DEF EndRunLoop, OfKind, callVars, workVars, crankVars, replyVars, TypeOK,
        Waiting
  <2>2. ASSUME NEW d \in Waiting PROVE Listed(d)'
    BY <2>1, <2>2 DEF WaitersListed, Listed
  <2>3. c \in Waiting' => Listed(c)'
    BY <2>1, EveryKind DEF Listed
  <2> QED
    BY <2>1, <2>2, <2>3 DEF WaitersListed
<1>4. CASE AcceptRemoteInbound
  <2>1. Waiting' \subseteq Waiting
    BY <1>1, <1>4, NobodyElseWaits
  <2> QED
    BY <1>4, <2>1, ListedAside
    DEF AcceptRemoteInbound, callVars, workVars, crankVars, replyVars,
        controlVars
<1>5. ASSUME NEW m \in Messages, ServiceReplies(m) PROVE WaitersListed'
  <2>1. Waiting' \subseteq Waiting
    BY <1>1, <1>5, NobodyElseWaits
  <2>2. subscriptions \cap Waiting' \subseteq subscriptions'
    BY <1>5, ToldLeave DEF ServiceReplies
  <2> QED
    BY <1>5, <2>1, <2>2, ListedAside
    DEF ServiceReplies, workVars, crankVars, replyVars, controlVars, runVars
<1>6. CASE StopKernel
  <2>1. /\ Waiting' \subseteq Waiting
        /\ \A c \in Waiting' : c \notin subscriptions \cup atWork \cup superseded
        /\ UNCHANGED <<loop, pc, controls, controlInFlight>> /\ loop # "running"
    <3>1. Waiting' \subseteq Waiting
      BY <1>1, <1>6, NobodyElseWaits
    <3>2. \A c \in Waiting' :
             c \notin (subscriptions \cup atWork \cup superseded) \cap Waiting
      BY <1>6, TellWaits DEF StopKernel, Waiting
    <3> QED
      BY <1>6, <3>1, <3>2 DEF StopKernel, runVars, controlVars
  <2>2. /\ ~InCrank /\ held = <<>> /\ taken = {} /\ due = NobodyDue
    BY <2>1 DEF WorkersInv, HandsAreEmpty, InCrank, ParkInv
  <2>3. Elements(held) = {}
    BY <2>2, EmptyQueue
  <2>4. due.answered \cup due.refused = {}
    BY <2>2 DEF NobodyDue
  <2>5. ASSUME NEW c \in Waiting' PROVE Listed(c)'
    BY <2>1, <2>2, <2>3, <2>4, <2>5 DEF WaitersListed, Listed
  <2> QED
    BY <2>1, <2>5 DEF WaitersListed
<1> QED
  BY <1>1, <1>2, <1>3, <1>4, <1>5, <1>6, RequestListed DEF Ask


LEMMA TakeListed ==
    ASSUME FateInv, ParkInv, WorkersInv, WaitersListed, TakeItem
    PROVE  WaitersListed'
<1>1. PICK next : OpenCrank(next)
  BY DEF TakeItem, TakeControl, TakeChore, TakeArrival, DequeueRun, Sleep
<1>2. /\ pc = "top" /\ taken' = atWork \cap OfKind(next.kind)
      /\ atWork' = atWork \ taken'
      /\ UNCHANGED <<loop, ending, held, subscriptions, superseded, due, told>>
  BY <1>1 DEF OpenCrank, TakeWaiters
<1>3. /\ taken = {} /\ controlInFlight = NoOne
  BY <1>2 DEF WorkersInv, HandsAreEmpty, InCrank
<1>4. Elements(controls) \subseteq Elements(controls') \cup {controlInFlight'}
  <2>1. CASE TakeControl
    <3>1. /\ controls \in Seq(OfKind("control")) /\ controls # <<>>
          /\ controls' = Tail(controls) /\ controlInFlight' = Head(controls)
      BY <2>1, FateTypes DEF TakeControl
    <3>2. Elements(controls) = Elements(Tail(controls)) \cup {Head(controls)}
      BY <3>1, TailElements
    <3> QED
      BY <3>1, <3>2
  <2> QED
    BY <2>1 DEF TakeItem, TakeChore, TakeArrival, DequeueRun, Sleep
<1>5. ASSUME NEW c \in Waiting PROVE Listed(c)'
  <2>1. Listed(c) /\ c # controlInFlight
    BY <1>3, <1>5, CallersAssumption DEF WaitersListed, Waiting
  <2> QED
    BY <1>2, <1>3, <1>4, <2>1 DEF Listed
<1>6. Waiting' = Waiting
  BY <1>2 DEF Waiting
<1> QED
  BY <1>2, <1>5, <1>6 DEF WaitersListed

LEMMA DeliverListed ==
    ASSUME FateInv, WorkersInv, WaitersListed, Deliver
    PROVE  WaitersListed'
<1>1. /\ pc = "delivering" /\ taken' = taken
      /\ UNCHANGED <<loop, controls, controlInFlight, ending>>
  BY DEF Deliver, DeliverSend, DeliverLater, Splat, DeliverKernelServiceMessage,
         DeliverOther, PerformVatRestart, PerformVatTermination, PerformControl,
         Returns, replyVars, controlVars
<1>2. due.answered \cup due.refused = {}
  BY <1>1 DEF WorkersInv, HandsAreEmpty, NobodyDue
<1>3. Waiting' \subseteq Waiting
  BY DeliveredWaits
<1>4. ASSUME UNCHANGED <<held, workVars>>,
             subscriptions \cap Waiting' \subseteq subscriptions'
      PROVE  WaitersListed'
  BY <1>1, <1>2, <1>3, <1>4 DEF workVars, WaitersListed, Listed
<1>5. ASSUME NEW what, TellDecided(what), what # "waiting"
      PROVE  subscriptions \cap Waiting' \subseteq subscriptions'
  BY <1>5, ToldLeave DEF TellDecided
<1>6. ASSUME NEW m \in Messages,
             \/ DeliverSend(m)
             \/ DeliverLater(m)
             \/ Splat(m)
             \/ DeliverKernelServiceMessage(m)
      PROVE  WaitersListed'
  <2>1. /\ UNCHANGED <<held, workVars>>
        /\ RejectAtOnce(m) \/ UNCHANGED subscriptions
    BY <1>6 DEF DeliverSend, DeliverLater, Splat, DeliverKernelServiceMessage,
                callVars
  <2>2. subscriptions \cap Waiting' \subseteq subscriptions'
    BY <2>1, ToldLeave DEF RejectAtOnce
  <2> QED
    BY <1>4, <2>1, <2>2
<1>7. CASE DeliverOther \/ PerformVatRestart
  BY <1>4, <1>7 DEF DeliverOther, PerformVatRestart, callVars
<1>8. CASE PerformVatTermination
  <2>1. \E reply : AnswerTermination(reply)
    BY <1>8 DEF PerformVatTermination
  <2>2. /\ UNCHANGED <<held, atWork>>
        /\ superseded \subseteq due'.answered \cup due'.refused
    BY <2>1 DEF AnswerTermination
  <2>3. subscriptions \cap Waiting' \subseteq subscriptions'
    BY <1>5, <1>8 DEF PerformVatTermination
  <2>4. ASSUME NEW c \in Waiting' PROVE Listed(c)'
    BY <1>1, <1>2, <1>3, <2>2, <2>3, <2>4 DEF WaitersListed, Listed
  <2> QED
    BY <1>1, <1>3, <2>4 DEF WaitersListed
<1>9. ASSUME NEW d \in Callers, PerformControl(d) PROVE WaitersListed'
  <2>1. CASE TellDecided("splat") /\ UNCHANGED <<held, workVars>>
    BY <1>4, <1>5, <2>1
  <2>2. CASE told' = Tell(told, subscriptions \cup Elements(held) \cup
                                    atWork \cup superseded, "refused")
    <3>1. \A c \in Waiting' :
             c \notin subscriptions \cup Elements(held) \cup atWork \cup superseded
      BY <2>2, TellWaits DEF Waiting
    <3>2. ASSUME NEW c \in Waiting' PROVE Listed(c)'
      BY <1>1, <1>2, <1>3, <3>1, <3>2 DEF WaitersListed, Listed
    <3> QED
      BY <1>1, <1>3, <3>2 DEF WaitersListed
  <2> QED
    BY <1>9, <2>1, <2>2 DEF PerformControl
<1> QED
  BY <1>6, <1>7, <1>8, <1>9 DEF Deliver

LEMMA TurnListed ==
    ASSUME FateInv, ParkInv, WorkersInv, WaitersListed, Turn
    PROVE  WaitersListed'
<1>1. TypeOK /\ Waiting' \subseteq Waiting
  BY NobodyElseWaits DEF FateInv
<1>2. CASE StartLoop \/ WakeUp \/ FinishTurn
  BY <1>1, <1>2, ListedAside
  DEF StartLoop, WakeUp, FinishTurn, callVars, workVars, crankVars, replyVars,
      controlVars
<1>3. CASE StopLoop
  <2>1. /\ loop' = "stopped"
        /\ UNCHANGED <<held, subscriptions, atWork, superseded, taken, due,
                       controls, controlInFlight, ending>>
    BY <1>3 DEF StopLoop, callVars, workVars, crankVars, replyVars, controlVars
  <2>2. \A c \in Waiting' : c \notin OfKind("stop")
    <3>1. \A c \in Waiting' : c \notin Waiting \cap OfKind("stop")
      BY <1>3, TellWaits DEF StopLoop, Waiting
    <3> QED
      BY <1>1, <3>1
  <2>3. ASSUME NEW c \in Waiting' PROVE Listed(c)'
    BY <1>1, <2>1, <2>2, <2>3 DEF WaitersListed, Listed
  <2> QED
    BY <2>1, <2>3 DEF WaitersListed
<1>4. CASE ProcessCrankResult
  <2>1. subscriptions \cap Waiting' \subseteq subscriptions'
    <3>1. CASE UNCHANGED subscriptions
      BY <3>1
    <3>2. CASE \E lost : /\ told' = Tell(told, lost, "refused")
                         /\ subscriptions' = subscriptions \ lost
      BY <3>2, TellWaits DEF Waiting
    <3> QED
      BY <1>4, <3>1, <3>2 DEF ProcessCrankResult
  <2> QED
    BY <1>1, <1>4, <2>1, ListedAside
    DEF ProcessCrankResult, workVars, replyVars, controlVars
<1>5. CASE TerminateVat
  <2>1. subscriptions \cap Waiting' \subseteq subscriptions'
    BY <1>5, ToldLeave DEF TerminateVat, TellDecided
  <2> QED
    BY <1>1, <1>5, <2>1, ListedAside
    DEF TerminateVat, workVars, replyVars, controlVars
<1>6. CASE CollectAndFlush
  <2>1. subscriptions \cap Waiting' \subseteq subscriptions'
    BY <1>6, ToldLeave DEF CollectAndFlush
  <2> QED
    BY <1>1, <1>6, <2>1, ListedAside
    DEF CollectAndFlush, workVars, replyVars, controlVars
<1>7. CASE EndCrank
  <2>1. /\ pc = "flushed" /\ WriteRequests(held, store, TellFinished)
        /\ UNCHANGED <<loop, atWork, superseded, controls, ending>>
    BY <1>7 DEF EndCrank, workVars
  <2>2. /\ subscriptions \subseteq subscriptions'
        /\ Elements(held) \cap Messages \cap Waiting' \subseteq subscriptions'
    BY <2>1, WrittenListed
  <2>3. ASSUME NEW c \in Waiting' PROVE Listed(c)'
    <3>1. /\ TellFinished[c] = "waiting"
          /\ c \notin Elements(held) \cap OfKind("write")
      BY <2>1, <2>3, WrittenWaits DEF Waiting
    <3>2. /\ c # controlInFlight /\ c \notin due.answered \cup due.refused
          /\ c \in taken => ~(verdict.afterCommit /\ ~verdict.abort)
      BY <1>1, <2>3, <3>1, FinishedWaits DEF Waiting
    <3>3. c \notin taken
      BY <1>1, <2>1, <2>3, <3>2 DEF WorkersInv, TakenAreOwed
    <3>4. Listed(c)
      BY <1>1, <2>3 DEF WaitersListed
    <3> QED
      BY <2>1, <2>2, <2>3, <3>1, <3>2, <3>3, <3>4 DEF Listed
  <2> QED
    BY <1>1, <2>1, <2>3 DEF WaitersListed
<1> QED
  BY <1>2, <1>3, <1>4, <1>5, <1>6, <1>7, TakeListed, DeliverListed DEF Turn

(* Nobody waits for a loop that has died.                                  *)
LEMMA DeathTellsAll ==
    ASSUME WaitersListed, NEW s, NEW f, FailRunLoop(s, f),
           \A c \in Callers : f[c] = "waiting" => told[c] = "waiting"
    PROVE  WaitersListed'
<1>1. \A c \in Waiting : c \notin due.answered =>
         (Kind[c] = "stop" /\ ending) \/ c \in Bereaved
  BY EveryKind DEF WaitersListed, Listed, Bereaved, Waiting, OfKind
<1>2. ASSUME NEW c \in Callers, told'[c] = "waiting" PROVE FALSE
  <2>1. f[c] = "waiting" /\ c \in Waiting
    BY <1>2 DEF FailRunLoop, Waiting
  <2> QED
    BY <1>1, <1>2, <2>1 DEF FailRunLoop
<1>3. Waiting' = {}
  BY <1>2 DEF Waiting
<1> QED
  BY <1>3 DEF WaitersListed

LEMMA FaultListed ==
    ASSUME FateInv, WaitersListed, Fault PROVE WaitersListed'
<1>1. CASE CrankThrows \/ TerminateThrows \/ CommitFails \/ AfterCommitThrows
  <2>1. \E s : FailRunLoop(s, told)
    BY <1>1 DEF CrankThrows, TerminateThrows, CommitFails, AfterCommitThrows
  <2> QED
    BY <2>1, DeathTellsAll
<1>2. CASE HeldWriteThrows
  <2>1. \E s, who : FailRunLoop(s, Tell(TellFinished, who, "answered"))
    BY <1>2 DEF HeldWriteThrows
  <2>2. ASSUME NEW who, NEW c \in Callers,
               Tell(TellFinished, who, "answered")[c] = "waiting"
        PROVE  told[c] = "waiting"
    <3>1. TellFinished[c] = "waiting"
      BY <2>2, TellWaits
    <3> QED
      BY <3>1, FinishedWaits DEF FateInv
  <2> QED
    BY <2>1, <2>2, DeathTellsAll
<1>3. CASE Crash
  <2>1. Waiting' = {}
    BY <1>3 DEF Crash, Waiting
  <2> QED
    BY <2>1 DEF WaitersListed
<1> QED
  BY <1>1, <1>2, <1>3 DEF Fault

LEMMA NextListed ==
    ASSUME FateInv, ParkInv, WorkersInv, WaitersListed, [Next]_vars
    PROVE  WaitersListed'
<1>1. CASE UNCHANGED vars
  BY <1>1, ListedAside
  DEF vars, runVars, callVars, crankVars, workVars, replyVars, controlVars,
      Waiting
<1> QED
  BY <1>1, OutsideListed, TurnListed, FaultListed DEF Next

LEMMA NextOwed ==
    ASSUME FateInv, FateInv', ParkInv, OwedInv, [Next]_vars PROVE OwedInv'
BY NextPromises, NextWorkers, NextListed DEF OwedInv

LEMMA OwedInitially == Init => OwedInv
<1> SUFFICES ASSUME Init PROVE OwedInv
  OBVIOUS
<1>1. Waiting = {}
  BY DEF Init, Waiting
<1>2. BacklogInv
  <2>1. IsFiniteSet(Terminations)
    BY FateInitially, TerminationsFinite
  <2>2. Cardinality(Terminations) \in Nat
    BY <2>1, FS_CardinalityType
  <2> QED
    BY <2>2 DEF Init, BacklogInv
<1>3. WorkersInv
  BY <1>1, <1>2
  DEF Init, WorkersInv, ItemIsNotQueued, Undoable, TakenAreOwed, HandsAreEmpty
<1>4. WaitersListed
  BY <1>1 DEF Init, WaitersListed
<1> QED
  BY <1>3, <1>4, PromisesInitially DEF OwedInv

(* Whoever is on a list is owed an answer by what the list is about.       *)
LEMMA ListedAreOwed ==
    ASSUME FateInv, OwedInv PROVE EveryWaiterIsOwed
<1> SUFFICES ASSUME NEW c \in Waiting PROVE Owed(c)
  BY DEF EveryWaiterIsOwed
<1>1. c \in Callers /\ Listed(c) /\ loop # "failed"
  BY DEF OwedInv, WaitersListed, Waiting
<1>2. /\ \A d \in Whose(store.queue) : \E i \in Elements(store.queue) : i.who = d
      /\ \A d \in Whose(buffer) : \E i \in Elements(buffer) : i.who = d
  BY FateTypes, QueueElements
<1>3. CASE c \in OfKind("write")
  BY <1>1, <1>3 DEF Listed, Owed
<1>4. CASE c \in OfKind("control")
  BY <1>1, <1>4 DEF Listed, Owed
<1>5. CASE c \in OfKind("stop")
  BY <1>1, <1>5 DEF Listed, Owed, OfKind
<1>6. CASE c \in Messages
  <2>1. CASE c \in Elements(held)
    BY <2>1 DEF Owed
  <2>2. CASE c \in subscriptions
    <3>1. c \in Traces \/ c = item.who
      BY <2>2 DEF OwedInv, PromisesInv, SubscribersTraced
    <3>2. CASE c \in resolvedNow \cup (serving \cap store.deciding)
      BY <2>2, <3>2 DEF Owed
    <3>3. CASE c \in Whose(store.queue) \cup Whose(buffer) \cup {item.who}
      <4>1. \E i \in InHand : i.who = c
        BY <1>2, <3>3 DEF InHand
      <4> QED
        BY <2>2, <4>1 DEF Owed
    <3> QED
      BY <3>1, <3>2, <3>3 DEF Traces
  <2> QED
    BY <1>1, <1>6, <2>1, <2>2 DEF Listed
<1>7. CASE c \in Work
  <2>1. CASE c \in due.answered \cup due.refused
    BY <2>1 DEF Owed
  <2>2. CASE c \in taken
    BY <2>1, <2>2 DEF OwedInv, WorkersInv, TakenAreOwed, Owed
  <2>3. CASE c \in atWork
    <3>1. c \in Backlog
      BY <1>1, <2>3 DEF OwedInv, WorkersInv, BacklogInv
    <3>2. CASE c \in Elements(held)
      BY <3>2 DEF Owed
    <3>3. CASE c \in Whose(store.queue)
      <4>1. \E i \in InHand : i.who = c
        BY <1>2, <3>3 DEF InHand
      <4> QED
        BY <2>3, <4>1 DEF Owed
    <3> QED
      BY <3>1, <3>2, <3>3 DEF Backlog
  <2>4. CASE c \in superseded
    <3>1. Terminations # {}
      <4>1. pendingTerminations > 0 /\ pendingTerminations \in Nat
            /\ pendingTerminations <= Cardinality(Terminations)
        BY <1>1, <2>4 DEF OwedInv, WorkersInv, BacklogInv, FateInv, TypeOK
      <4>2. CASE Terminations = {}
        BY <4>1, <4>2, FS_EmptySet
      <4> QED
        BY <4>2
    <3>2. PICK t \in OfKind("terminate") : t \in Backlog \cup InHands
      BY <3>1 DEF Terminations
    <3>3. Kind[t] = "terminate" /\ t \in Work
      BY <3>2 DEF OfKind, Work
    <3>4. CASE t \in Elements(held)
      BY <2>4, <3>3, <3>4 DEF Owed
    <3>5. ASSUME NEW i \in InHand, i.who = t PROVE i.kind = "terminate"
      <4>1. i \in ItemsType
        <5>1. /\ Elements(store.queue) \subseteq ItemType
              /\ Elements(buffer) \subseteq ItemType /\ item \in ItemsType
          BY FateTypes, QueueElements
        <5> QED
          BY <5>1 DEF InHand, ItemsType
      <4> QED
        BY <3>3, <3>5, <4>1, WorkItem
    <3>6. CASE t \in Whose(store.queue) \cup InHands
      <4>1. \E i \in InHand : i.who = t
        BY <1>2, <3>6 DEF InHand, InHands
      <4> QED
        BY <2>4, <3>5, <4>1 DEF Owed
    <3> QED
      BY <3>2, <3>4, <3>6 DEF Backlog
  <2> QED
    BY <1>1, <1>7, <2>1, <2>2, <2>3, <2>4 DEF Listed
<1> QED
  BY <1>1, <1>3, <1>4, <1>5, <1>6, <1>7, EveryKind

(* A caller who waits is always owed an answer by something that is left,  *)
(* whatever aborted, died or was wiped in the meantime.                    *)
THEOREM EveryoneAlwaysOwed == Spec => []EveryWaiterIsOwed
<1>1. Init => ParkInv /\ WorkInv /\ FateInv /\ OwedInv
  BY ParkedInitially, FateInitially, OwedInitially
<1>2. ParkInv /\ WorkInv /\ FateInv /\ OwedInv /\ [Next]_vars
        => (ParkInv /\ WorkInv /\ FateInv /\ OwedInv)'
  BY NextParked, NextFate, NextOwed
<1>3. FateInv /\ OwedInv => EveryWaiterIsOwed
  BY ListedAreOwed
<1> QED
  BY <1>1, <1>2, <1>3, PTL DEF Spec

-----------------------------------------------------------------------------
(* What callers are told stays true: why AnswersAreKept holds, while the   *)
(* process lives, the store takes every commit and no kernel service       *)
(* replies inside another delivery's crank.                                *)

Over == {"stopped", "failed"}

(* What callers are told, `f`, is true of a store `s` and a loop `l`.      *)
DoneIn(c, s, l) ==
    CASE Kind[c] = "stop"      -> l \in Over
      [] Kind[c] = "terminate" -> s.vatDead
      [] OTHER                 -> c \in s.resolved \cup s.done

Kept(s, f, l) ==
    \A c \in Callers :
        /\ f[c] = "answered" /\ Kind[c] # "service" => DoneIn(c, s, l)
        /\ f[c] = "refused" => c \notin s.done

(* What is done is never a message nor a stop.                             *)
Doable == OfKind("write") \cup Work \cup OfKind("control")

DoneIsWork ==
    /\ store.done \subseteq Doable
    /\ savepoint.done \subseteq Doable
    /\ committed.done \subseteq Doable

(* The crank may still return to its savepoint.                            *)
Revocable ==
    \/ pc = "delivering"
    \/ pc = "delivered" /\ ~verdict.irrevocable
    \/ pc = "collecting" /\ rollbackAllowed

(* The verdict a crank can have come to.                                   *)
VerdictFits ==
    /\ pc = "delivering" \/ item.kind = "control" => verdict = Verdict
    /\ verdict.afterCommit => /\ ~verdict.abort /\ ~verdict.terminate
                              /\ ~verdict.irrevocable
                              /\ item.kind # "terminate"
    /\ verdict.abort => ~verdict.irrevocable
    /\ pc = "terminating" => verdict.terminate
    /\ pc \in {"collecting", "flushed"} /\ ~rollbackAllowed =>
           verdict.abort \/ verdict.terminate \/ verdict.irrevocable
    /\ controlInFlight = IF item.kind = "control" THEN item.who ELSE NoOne

(* Work that waits is on one list.                                         *)
AllDue == due.answered \cup due.refused

WorkIsApart ==
    /\ loop # "failed" => atWork \cup taken \cup superseded \cup AllDue \subseteq Waiting
    /\ atWork \cap (taken \cup superseded \cup AllDue) = {}
    /\ superseded \cap (taken \cup AllDue) = {}

(* No control operation that waits, or is under way, has been refused.     *)
ControlsStand ==
    \A c \in Callers \cap (Elements(controls) \cup {controlInFlight}) :
        told[c] # "refused"

(* Whose work is done while they wait is about to be told.                 *)
Succeeds == verdict.afterCommit /\ verdict.reply = "answered"

AboutToBeTold ==
    due.answered \cup (IF Succeeds THEN taken ELSE {})
                 \cup (IF pc = "delivering" THEN {} ELSE {controlInFlight})

DoneWaiters ==
    /\ Waiting \cap store.done \subseteq AboutToBeTold
    /\ Revocable => Waiting \cap savepoint.done = {}

(* And so what they are about to be told is true.                          *)
Outcomes ==
    /\ due.answered # {} => store.vatDead /\ (Revocable => savepoint.vatDead)
    /\ due.refused \cap store.done = {}
    /\ resolvedNow \subseteq store.resolved
    /\ pc # "delivering" => controlInFlight \in store.done \cup {NoOne}
    /\ Succeeds => taken \subseteq store.done
    /\ verdict.afterCommit => due = NobodyDue
    /\ pc = "delivering" => store.vatDead = savepoint.vatDead

ToldIsTrue ==
    /\ Kept(store, told, loop)
    /\ Revocable => Kept(savepoint, told, loop)

KeptInv ==
    /\ DoneIsWork
    /\ VerdictFits
    /\ WorkIsApart /\ ControlsStand
    /\ DoneWaiters
    /\ Outcomes
    /\ ToldIsTrue

(* The verdict and what the hands hold.                                    *)
LEMMA VatsOutcome ==
    ASSUME NEW v \in VatVerdicts PROVE ~v.afterCommit /\ ~v.irrevocable
<1>1. CASE v = Verdict
  BY <1>1 DEF Verdict
<1>2. CASE v = [Verdict EXCEPT !.abort = TRUE, !.terminate = TRUE]
  BY <1>2 DEF Verdict
<1>3. CASE v = [Verdict EXCEPT !.terminate = TRUE]
  BY <1>3 DEF Verdict
<1> QED
  BY <1>1, <1>2, <1>3 DEF VatVerdicts

LEMMA DeliverVerdict ==
    ASSUME TypeOK, VerdictFits, Deliver PROVE VerdictFits'
<1>1. /\ pc = "delivering" /\ pc' = "delivered"
      /\ UNCHANGED <<item, controlInFlight>>
  BY DEF Deliver, DeliverSend, DeliverLater, Splat, DeliverKernelServiceMessage,
         DeliverOther, PerformVatRestart, PerformVatTermination, PerformControl,
         Returns, controlVars
<1>2. ASSUME /\ verdict'.afterCommit => /\ ~verdict'.abort /\ ~verdict'.terminate
                                        /\ ~verdict'.irrevocable
                                        /\ item.kind # "terminate"
             /\ verdict'.abort => ~verdict'.irrevocable
             /\ item.kind = "control" => verdict' = Verdict
      PROVE  VerdictFits'
  BY <1>1, <1>2 DEF VerdictFits
<1>3. CASE verdict' = Verdict
  BY <1>2, <1>3 DEF Verdict
<1>4. ASSUME item.kind # "control",
             \/ verdict' \in VatVerdicts
             \/ /\ verdict' = [Verdict EXCEPT !.afterCommit = TRUE]
                /\ item.kind # "terminate"
             \/ verdict' = [Verdict EXCEPT !.abort = TRUE]
             \/ /\ verdict' = [Verdict EXCEPT !.afterCommit = TRUE, !.reply = "refused"]
                /\ item.kind # "terminate"
             \/ verdict' = [Verdict EXCEPT !.irrevocable = TRUE]
      PROVE  VerdictFits'
  <2>1. CASE verdict' \in VatVerdicts
    BY <1>2, <1>4, <2>1, VatsOutcome
  <2>2. CASE /\ verdict' = [Verdict EXCEPT !.afterCommit = TRUE]
             /\ item.kind # "terminate"
    BY <1>2, <1>4, <2>2 DEF Verdict
  <2>3. CASE verdict' = [Verdict EXCEPT !.abort = TRUE]
    BY <1>2, <1>4, <2>3 DEF Verdict
  <2>4. CASE /\ verdict' = [Verdict EXCEPT !.afterCommit = TRUE, !.reply = "refused"]
             /\ item.kind # "terminate"
    BY <1>2, <1>4, <2>4 DEF Verdict
  <2>5. CASE verdict' = [Verdict EXCEPT !.irrevocable = TRUE]
    BY <1>2, <1>4, <2>5 DEF Verdict
  <2> QED
    BY <1>4, <2>1, <2>2, <2>3, <2>4, <2>5
<1>5. ASSUME NEW m \in Messages,
             \/ DeliverSend(m)
             \/ DeliverLater(m)
             \/ Splat(m)
             \/ DeliverKernelServiceMessage(m)
      PROVE  VerdictFits'
  <2>1. item.kind # "control"
    BY <1>5 DEF DeliverSend, DeliverLater, Splat, DeliverKernelServiceMessage, Item
  <2>2. verdict' \in VatVerdicts \/ verdict' = Verdict
    BY <1>5 DEF DeliverSend, DeliverLater, Splat, DeliverKernelServiceMessage,
       Returns
  <2> QED
    BY <1>3, <1>4, <2>1, <2>2
<1>6. CASE DeliverOther
  BY <1>3, <1>4, <1>6 DEF DeliverOther, Returns
<1>7. CASE PerformVatRestart
  <2>1. [Verdict EXCEPT !.abort = TRUE, !.terminate = TRUE] \in VatVerdicts
    BY DEF VatVerdicts
  <2> QED
    BY <1>3, <1>4, <1>7, <2>1 DEF PerformVatRestart, Returns
<1>8. CASE PerformVatTermination
  BY <1>3, <1>4, <1>8 DEF PerformVatTermination, Returns
<1>9. CASE \E c \in Callers : PerformControl(c)
  BY <1>3, <1>9 DEF PerformControl, Returns
<1> QED
  BY <1>5, <1>6, <1>7, <1>8, <1>9 DEF Deliver

LEMMA NextVerdict ==
    ASSUME TypeOK, ParkInv, HandsAreEmpty, VerdictFits, [Next]_vars
    PROVE  VerdictFits'
<1>1. ASSUME UNCHANGED <<verdict, item, controlInFlight>>,
             \/ pc' = pc /\ UNCHANGED rollbackAllowed
             \/ pc' \in {"off", "top", "asleep", "afterCommit"}
      PROVE  VerdictFits'
  BY <1>1 DEF VerdictFits
<1>2. CASE \/ Ask
           \/ AcceptRemoteInbound
           \/ \E m \in Messages : ServiceReplies(m)
           \/ StopKernel
           \/ UNCHANGED vars
  BY <1>1, <1>2
  DEF Ask, Request, EnqueueControl, EndRunLoop, AcceptRemoteInbound,
      ServiceReplies, StopKernel, vars, runVars, crankVars, controlVars
<1>3. CASE StartLoop \/ StopLoop \/ WakeUp \/ FinishTurn
  BY <1>1, <1>3
  DEF StartLoop, StopLoop, WakeUp, FinishTurn, crankVars, controlVars
<1>4. CASE TakeItem
  <2>1. PICK next : OpenCrank(next)
    BY <1>4 DEF TakeItem, TakeControl, TakeChore, TakeArrival, DequeueRun, Sleep
  <2>2. /\ controlInFlight = NoOne /\ verdict' = Verdict /\ item' = next
        /\ pc' \in {"delivering", "asleep"}
    BY <1>4, <2>1 DEF HandsAreEmpty, InCrank, OpenCrank, TakeItem, TakeControl,
       TakeChore, TakeArrival, DequeueRun, Sleep, Deliverable
  <2>3. controlInFlight' = IF item'.kind = "control" THEN item'.who ELSE NoOne
    <3>1. CASE TakeControl
      BY <3>1 DEF TakeControl, OpenCrank, Item
    <3>2. CASE TakeChore \/ TakeArrival \/ Sleep
      BY <2>2, <3>2 DEF TakeChore, TakeArrival, Sleep, OpenCrank, Item, NoItem
    <3>3. CASE DequeueRun
      <4>1. Head(store.queue) \in ItemType
        <5>1. store.queue \in Seq(ItemType) /\ store.queue # <<>>
          BY <3>3, StoreFields DEF DequeueRun, TypeOK
        <5> QED
          BY <5>1
      <4> QED
        BY <2>2, <3>3, <4>1 DEF DequeueRun, OpenCrank, ItemType
    <3> QED
      BY <1>4, <3>1, <3>2, <3>3 DEF TakeItem
  <2> QED
    BY <2>2, <2>3 DEF VerdictFits, Verdict
<1>5. CASE ProcessCrankResult
  BY <1>5 DEF ProcessCrankResult, StillUndoable, VerdictFits, controlVars
<1>6. CASE TerminateVat
  BY <1>6 DEF TerminateVat, VerdictFits, controlVars
<1>7. CASE CollectAndFlush
  BY <1>7 DEF CollectAndFlush, VerdictFits, controlVars
<1>8. CASE EndCrank
  BY <1>8 DEF EndCrank, VerdictFits, NoItem, Item
<1>9. CASE Fault
  <2>1. CASE Crash
    BY <2>1 DEF Crash, VerdictFits, NoItem, Item, Verdict
  <2>2. CASE \E s, f : FailRunLoop(s, f)
    BY <2>2 DEF FailRunLoop, VerdictFits, NoItem, Item
  <2> QED
    BY <1>9, <2>1, <2>2
    DEF Fault, CrankThrows, TerminateThrows, CommitFails, HeldWriteThrows,
        AfterCommitThrows
<1> QED
  BY <1>2, <1>3, <1>4, <1>5, <1>6, <1>7, <1>8, <1>9, DeliverVerdict
  DEF Next, Turn

(* What a store records only grows.                                        *)
Grown(s, t) ==
    /\ s.resolved \subseteq t.resolved
    /\ s.vatDead => t.vatDead
    /\ s.done \subseteq t.done

LEMMA WrittenGrows ==
    ASSUME NEW requests, NEW missing, NEW s \in StoreType
    PROVE  /\ Grown(s, Written(requests, missing, s))
           /\ Written(requests, missing, s).done =
                  s.done \cup (Elements(requests) \cap OfKind("write"))
BY DEF Grown, Written, StoreType

LEMMA RetiredGrows ==
    ASSUME NEW s \in StoreType
    PROVE  /\ Grown(s, Retired(s))
           /\ Retired(s).done = s.done /\ Retired(s).vatDead
           /\ Decided \subseteq Retired(s).resolved
BY DEF Grown, Retired, StoreType

(* A delivery carries out what its item asks for, and undoes nothing.      *)
LEMMA ControlItem ==
    ASSUME VerdictFits, NEW c, item = Item("control", c) PROVE c = controlInFlight
BY DEF VerdictFits, Item

LEMMA DeliverGrows ==
    ASSUME TypeOK, VerdictFits, Deliver
    PROVE  /\ Grown(store, store')
           /\ store'.done \subseteq store.done \cup taken \cup {controlInFlight}
           /\ item.kind # "control" => store'.done \subseteq store.done \cup taken
<1> USE DEF Grown
<1>1. store \in StoreType
  BY DEF TypeOK
<1>2. ASSUME NEW m \in Messages,
             \/ DeliverSend(m)
             \/ DeliverLater(m)
             \/ Splat(m)
             \/ DeliverKernelServiceMessage(m)
      PROVE  Grown(store, store') /\ store'.done = store.done
  <2>1. CASE DeliverSend(m) \/ DeliverLater(m)
    BY <1>1, <2>1 DEF DeliverSend, DeliverLater, VatResolves, StoreType
  <2>2. CASE Splat(m) \/ DeliverKernelServiceMessage(m)
    BY <1>1, <2>2 DEF Splat, DeliverKernelServiceMessage, RejectAtOnce, StoreType
  <2> QED
    BY <1>2, <2>1, <2>2
<1>3. CASE DeliverOther
  BY <1>3 DEF DeliverOther
<1>4. CASE PerformVatRestart
  BY <1>1, <1>4 DEF PerformVatRestart, StoreType
<1>5. CASE PerformVatTermination
  <2>1. ASSUME NEW s \in {store, [store EXCEPT !.done = @ \cup taken]}
        PROVE  Grown(store, s) /\ Grown(store, Retired(s))
               /\ s.done \subseteq store.done \cup taken
               /\ Retired(s).done \subseteq store.done \cup taken
    BY <1>1, <2>1 DEF StoreType, Retired
  <2> QED
    BY <1>5, <2>1 DEF PerformVatTermination
<1>6. ASSUME NEW c \in Callers, PerformControl(c)
      PROVE  /\ Grown(store, store')
             /\ store'.done = store.done \cup {controlInFlight}
             /\ item.kind = "control"
  <2>1. c = controlInFlight /\ item.kind = "control"
    BY <1>6, ControlItem DEF PerformControl, Item
  <2>2. CASE store' = Retired([store EXCEPT !.done = @ \cup {c}])
    BY <1>1, <2>1, <2>2 DEF StoreType, Retired
  <2>3. CASE store' = [EmptyStore EXCEPT !.vatDead = TRUE,
                                         !.resolved = store.resolved,
                                         !.done = store.done \cup {c}]
    BY <1>1, <2>1, <2>3 DEF EmptyStore
  <2> QED
    BY <1>6, <2>1, <2>2, <2>3 DEF PerformControl
<1> QED
  BY <1>2, <1>3, <1>4, <1>5, <1>6 DEF Deliver

(* The writes among some requests, and everything the hands hold, are      *)
(* work.                                                                   *)
LEMMA NextDone ==
    ASSUME FateInv, VerdictFits, DoneIsWork, [Next]_vars PROVE DoneIsWork'
<1> USE DEF DoneIsWork
<1>1. /\ TypeOK /\ store \in StoreType /\ savepoint \in StoreType
      /\ committed \in StoreType /\ OfKind("write") \subseteq Doable
      /\ taken \subseteq Doable
      /\ item.kind = "control" => controlInFlight \in Doable
      /\ EmptyStore.done \subseteq Doable
  <2>1. item.kind = "control" => item.who \in OfKind("control")
    <3>1. item \in ItemsType
      BY FateTypes
    <3> QED
      BY <3>1 DEF ItemsType, ItemType
  <2> QED
    BY <2>1, FateTypes DEF FateInv, TypeOK, Doable, VerdictFits, EmptyStore
<1>2. ASSUME NEW requests, NEW f, WriteRequests(requests, store, f),
             savepoint' = savepoint
      PROVE  DoneIsWork'
  BY <1>1, <1>2, WrittenGrows DEF WriteRequests
<1>3. ASSUME NEW c \in Callers, Request(c) \/ EnqueueControl(c) \/ EndRunLoop(c)
      PROVE  DoneIsWork'
  BY <1>2, <1>3 DEF Request, EnqueueControl, EndRunLoop, crankVars
<1>4. ASSUME NEW m \in Messages, ServiceReplies(m) PROVE DoneIsWork'
  BY <1>1, <1>4 DEF ServiceReplies, StoreType, crankVars
<1>5. CASE \/ AcceptRemoteInbound \/ StopKernel
           \/ StartLoop \/ StopLoop \/ WakeUp \/ FinishTurn
           \/ UNCHANGED vars
  BY <1>5 DEF AcceptRemoteInbound, StopKernel, StartLoop, StopLoop, WakeUp,
     FinishTurn, vars, crankVars
<1>6. CASE TakeItem
  <2>1. store'.done = store.done
    BY <1>1, <1>6 DEF TakeItem, TakeControl, TakeChore, TakeArrival, DequeueRun,
       Sleep, StoreType
  <2> QED
    BY <1>6, <2>1 DEF TakeItem, TakeControl, TakeChore, TakeArrival, DequeueRun,
       Sleep, OpenCrank
<1>7. CASE Deliver
  <2>1. /\ store'.done \subseteq store.done \cup taken \cup {controlInFlight}
        /\ item.kind # "control" => store'.done \subseteq store.done \cup taken
    BY <1>1, <1>7, DeliverGrows
  <2>2. UNCHANGED <<savepoint, committed>>
    BY <1>7 DEF Deliver, DeliverSend, DeliverLater, Splat,
       DeliverKernelServiceMessage, DeliverOther, PerformVatRestart,
       PerformVatTermination, PerformControl, Returns
  <2> QED
    BY <1>1, <2>1, <2>2
<1>8. CASE ProcessCrankResult
  BY <1>8 DEF ProcessCrankResult, RollbackCrank
<1>9. CASE TerminateVat
  BY <1>1, <1>9, RetiredGrows DEF TerminateVat
<1>10. CASE CollectAndFlush
  BY <1>1, <1>10 DEF CollectAndFlush, StoreType
<1>11. CASE EndCrank
  BY <1>2, <1>11 DEF EndCrank
<1>12. ASSUME NEW s, s.done \subseteq Doable, NEW f, FailRunLoop(s, f)
       PROVE  DoneIsWork'
  BY <1>12 DEF FailRunLoop
<1>13. CASE Fault
  <2>1. CASE Crash
    BY <1>1, <2>1 DEF Crash
  <2>2. CASE TerminateThrows
    BY <1>1, <1>12, <2>2, RetiredGrows DEF TerminateThrows
  <2>3. CASE HeldWriteThrows
    <3>1. PICK requests, f : FailRunLoop(Written(requests, {}, store), f)
      BY <2>3 DEF HeldWriteThrows
    <3> QED
      BY <1>1, <1>12, <3>1, WrittenGrows
  <2>4. CASE CrankThrows \/ CommitFails \/ AfterCommitThrows
    BY <1>12, <2>4 DEF CrankThrows, CommitFails, AfterCommitThrows
  <2> QED
    BY <1>13, <2>1, <2>2, <2>3, <2>4 DEF Fault
<1> QED
  BY <1>3, <1>4, <1>5, <1>6, <1>7, <1>8, <1>9, <1>10, <1>11, <1>13
  DEF Next, Ask, Turn

(* Who is told what, by those steps that tell anybody.                     *)
LEMMA TellTells ==
    ASSUME NEW f, NEW who, NEW what, NEW c \in Callers
    PROVE  Tell(f, who, what)[c] = IF c \in who THEN what ELSE f[c]
BY DEF Tell

LEMMA WrittenTells ==
    ASSUME NEW requests, NEW f, WriteRequests(requests, store, f),
           NEW c \in Callers
    PROVE  \/ told'[c] = f[c] /\ c \notin Elements(requests) \cap OfKind("write")
           \/ told'[c] = "answered" /\ c \in Elements(requests) \cap OfKind("write")
           \/ told'[c] = "refused" /\ c \in Elements(requests) \cap OfKind("message")
<1>1. PICK missing \in Missing(requests) :
         told' = Tell(Tell(f, Elements(requests) \cap OfKind("write"), "answered"),
                      missing, "refused")
  BY DEF WriteRequests
<1>2. missing \subseteq Elements(requests) \cap OfKind("message")
  BY DEF Missing
<1> DEFINE g == Tell(f, Elements(requests) \cap OfKind("write"), "answered")
<1>3. g[c] = IF c \in Elements(requests) \cap OfKind("write") THEN "answered" ELSE f[c]
  BY TellTells
<1>4. told' = Tell(g, missing, "refused")
  BY <1>1
<1> HIDE DEF g
<1>5. told'[c] = IF c \in missing THEN "refused" ELSE g[c]
  BY <1>4, TellTells
<1> QED
  BY <1>2, <1>3, <1>5

LEMMA FinishedTells ==
    ASSUME NEW c \in Callers
    PROVE  \/ TellFinished[c] = told[c]
           \/ TellFinished[c] = "answered" /\ c \in due.answered \cup {controlInFlight}
           \/ TellFinished[c] = "refused" /\ c \in due.refused
           \/ /\ TellFinished[c] = verdict.reply
              /\ c \in taken /\ verdict.afterCommit /\ ~verdict.abort
<1> DEFINE f == Tell(told, due.answered, "answered")
           g == Tell(f, due.refused, "refused")
           h == Tell(g, {controlInFlight}, "answered")
           ended == IF verdict.afterCommit /\ ~verdict.abort THEN taken ELSE {}
<1>1. f[c] = IF c \in due.answered THEN "answered" ELSE told[c]
  BY TellTells
<1>2. TellFinished = Tell(h, ended, verdict.reply)
  BY DEF TellFinished, TellDue
<1> HIDE DEF f
<1>3. g[c] = IF c \in due.refused THEN "refused" ELSE f[c]
  BY TellTells
<1> HIDE DEF g
<1>4. h[c] = IF c = controlInFlight THEN "answered" ELSE g[c]
  BY TellTells
<1> HIDE DEF h
<1>5. TellFinished[c] = IF c \in ended THEN verdict.reply ELSE h[c]
  BY <1>2, TellTells
<1> QED
  BY <1>1, <1>3, <1>4, <1>5

LEMMA DeliverTells ==
    ASSUME TypeOK, Deliver, NEW c \in Callers
    PROVE  \/ told'[c] = told[c]
           \/ told'[c] = "splat" /\ c \in Messages
           \/ told'[c] = "answered" /\ verdict'.irrevocable
                 /\ c \in Messages /\ c \in store'.resolved
           \/ /\ told'[c] = "refused" /\ item.kind = "control"
              /\ c \in subscriptions \cup Elements(held) \cup atWork \cup superseded
              /\ store'.done = store.done \cup {item.who}
              /\ UNCHANGED <<due, taken>>
<1>0. store \in StoreType /\ Decided \subseteq Messages
  BY StoreFields DEF TypeOK, Decided
<1>1. ASSUME NEW m \in Messages,
             \/ DeliverSend(m)
             \/ DeliverLater(m)
             \/ Splat(m)
             \/ DeliverKernelServiceMessage(m)
      PROVE  told'[c] = told[c] \/ (told'[c] = "splat" /\ c \in Messages)
  <2>1. CASE UNCHANGED told
    BY <2>1
  <2>2. CASE told' = Tell(told, {m} \cap subscriptions, "splat")
    <3>1. told'[c] = IF c \in {m} \cap subscriptions THEN "splat" ELSE told[c]
      BY <2>2, TellTells
    <3> QED
      BY <3>1
  <2> QED
    BY <1>1, <2>1, <2>2
    DEF DeliverSend, DeliverLater, Splat, DeliverKernelServiceMessage, RejectAtOnce
<1>2. CASE DeliverOther \/ PerformVatRestart
  BY <1>2 DEF DeliverOther, PerformVatRestart
<1>3. CASE PerformVatTermination
  <2>1. CASE UNCHANGED told
    BY <2>1
  <2>2. CASE /\ TellDecided("answered") /\ Returns([Verdict EXCEPT !.irrevocable = TRUE])
             /\ \E s \in {store, [store EXCEPT !.done = @ \cup taken]} :
                   store' = Retired(s)
    <3>1. told'[c] = IF c \in Decided \cap subscriptions THEN "answered" ELSE told[c]
      BY <2>2, TellTells DEF TellDecided
    <3>2. Decided \subseteq store'.resolved
      BY <1>0, <2>2 DEF Retired, StoreType
    <3>3. verdict'.irrevocable
      BY <2>2 DEF Returns, Verdict
    <3> QED
      BY <1>0, <3>1, <3>2, <3>3
  <2> QED
    BY <1>3, <2>1, <2>2 DEF PerformVatTermination
<1>4. ASSUME NEW d \in Callers, PerformControl(d)
      PROVE  \/ told'[c] = told[c]
             \/ told'[c] = "splat" /\ c \in Messages
             \/ /\ told'[c] = "refused" /\ item.kind = "control"
                /\ c \in subscriptions \cup Elements(held) \cup atWork \cup superseded
                /\ store'.done = store.done \cup {item.who}
                /\ UNCHANGED <<due, taken>>
  <2>1. CASE TellDecided("splat")
    <3>1. told'[c] = IF c \in Decided \cap subscriptions THEN "splat" ELSE told[c]
      BY <2>1, TellTells DEF TellDecided
    <3> QED
      BY <1>0, <3>1
  <2>2. CASE /\ told' = Tell(told, subscriptions \cup Elements(held) \cup
                                 atWork \cup superseded, "refused")
             /\ store' = [EmptyStore EXCEPT !.vatDead = TRUE,
                                         !.resolved = store.resolved,
                                         !.done = store.done \cup {d}]
    <3>1. told'[c] = IF c \in subscriptions \cup Elements(held) \cup
                                 atWork \cup superseded
                     THEN "refused" ELSE told[c]
      BY <2>2, TellTells
    <3>2. item.kind = "control" /\ item.who = d /\ UNCHANGED <<due, taken>>
      BY <1>4 DEF PerformControl, Item, replyVars
    <3>3. store'.done = store.done \cup {d}
      BY <2>2 DEF EmptyStore
    <3> QED
      BY <3>1, <3>2, <3>3
  <2> QED
    BY <1>4, <2>1, <2>2 DEF PerformControl
<1> QED
  BY <1>1, <1>2, <1>3, <1>4 DEF Deliver

LEMMA ListKinds ==
    ASSUME TypeOK
    PROVE  /\ atWork \cup taken \cup superseded \cup AllDue \subseteq Work
           /\ due.answered \subseteq OfKind("terminate")
           /\ superseded \subseteq OfKind("restart")
           /\ taken \subseteq OfKind(item.kind)
           /\ Elements(held) \subseteq Requests
           /\ Elements(controls) \subseteq OfKind("control")
           /\ controlInFlight \in OfKind("control") \cup {NoOne}
           /\ subscriptions \subseteq Messages
<1>1. Elements(held) \subseteq Requests /\ Elements(controls) \subseteq OfKind("control")
  BY ElementsOf DEF TypeOK
<1> QED
  BY <1>1, KindsApart DEF TypeOK, AllDue

(* The control operations that wait, or are under way, stand.              *)
LEMMA ControlsUntold ==
    ASSUME TypeOK, NEW c \in OfKind("control"),
           \/ \E d \in Callers : Request(d) \/ EndRunLoop(d)
           \/ AcceptRemoteInbound
           \/ \E m \in Messages : ServiceReplies(m)
           \/ StopKernel
           \/ Turn
           \/ UNCHANGED vars,
           told'[c] = "refused"
    PROVE  told[c] = "refused"
<1>1. /\ c \in Callers /\ c \notin Requests
      /\ c \notin Work /\ c \notin Messages /\ c \notin OfKind("message")
      /\ told \in [Callers -> Fates]
  BY EveryKind, KindsApart, ToldTypes DEF OfKind, Requests
<1>2. ASSUME NEW who, c \notin who, NEW what, told' = Tell(told, who, what)
      PROVE  told[c] = "refused"
  BY <1>1, <1>2, TellTells
<1>3. ASSUME NEW d \in Callers, Request(d) PROVE told[c] = "refused"
  <2>1. d # c
    BY <1>1, <1>3 DEF Request
  <2>2. CASE \E what : told' = [told EXCEPT ![d] = what]
    BY <1>1, <2>1, <2>2
  <2>3. CASE WriteRequests(<<d>>, store, [told EXCEPT ![d] = "waiting"])
    <3>1. told'[c] = [told EXCEPT ![d] = "waiting"][c] \/ c \in Elements(<<d>>)
      BY <1>1, <2>3, WrittenTells
    <3>2. Elements(<<d>>) = {d}
      BY DEF Elements
    <3> QED
      BY <1>1, <2>1, <3>1, <3>2
  <2> QED
    BY <1>3, <2>2, <2>3 DEF Request
<1>4. ASSUME NEW d \in Callers, EndRunLoop(d) PROVE told[c] = "refused"
  <2>1. d # c
    BY <1>4, EveryKind DEF EndRunLoop, OfKind
  <2> QED
    BY <1>1, <1>4, <2>1 DEF EndRunLoop
<1>5. CASE \/ AcceptRemoteInbound \/ StartLoop \/ TakeItem \/ WakeUp \/ FinishTurn
           \/ UNCHANGED vars
  BY <1>5 DEF AcceptRemoteInbound, StartLoop, WakeUp, FinishTurn, vars, TakeItem,
     TakeControl, TakeChore, TakeArrival, DequeueRun, Sleep, OpenCrank
<1>6. CASE \/ \E m \in Messages : ServiceReplies(m)
           \/ StopKernel
           \/ StopLoop
           \/ ProcessCrankResult
           \/ TerminateVat
           \/ CollectAndFlush
  <2>1. CASE UNCHANGED told
    BY <2>1
  <2>2. ASSUME ~UNCHANGED told PROVE \E who, what : c \notin who /\ told' = Tell(told, who, what)
    <3>1. /\ subscriptions \cup atWork \cup superseded \subseteq Messages \cup Work
          /\ c \notin OfKind("stop")
      BY ListKinds, EveryKind
    <3> QED
      BY <1>1, <1>6, <2>2, <3>1
      DEF ServiceReplies, StopKernel, StopLoop, ProcessCrankResult, TerminateVat,
          TellDecided, CollectAndFlush
  <2> QED
    BY <1>2, <2>1, <2>2
<1>7. CASE Deliver
  <2>1. c \notin subscriptions \cup Elements(held) \cup atWork \cup superseded
    BY <1>1, ListKinds
  <2> QED
    BY <1>1, <1>7, <2>1, DeliverTells
<1>8. CASE EndCrank
  <2>1. WriteRequests(held, store, TellFinished)
    BY <1>8 DEF EndCrank
  <2>2. TellFinished[c] = "refused"
    BY <1>1, <2>1, WrittenTells
  <2>3. c \notin due.refused \cup taken
    BY <1>1, ListKinds DEF AllDue
  <2> QED
    BY <1>1, <2>2, <2>3, FinishedTells
<1> QED
  BY <1>3, <1>4, <1>5, <1>6, <1>7, <1>8 DEF Turn

LEMMA NextControls ==
    ASSUME FateInv, VerdictFits, ControlsStand, [Next]_vars PROVE ControlsStand'
<1>1. /\ TypeOK /\ controls \in Seq(OfKind("control"))
      /\ told \in [Callers -> Fates]
  BY FateTypes, ToldTypes DEF FateInv
<1>2. ASSUME controls' = <<>>, controlInFlight' = NoOne PROVE ControlsStand'
  BY <1>2, EmptyQueue, CallersAssumption DEF ControlsStand
<1>3. CASE Fault
  BY <1>2, <1>3 DEF Fault, CrankThrows, TerminateThrows, CommitFails,
     HeldWriteThrows, AfterCommitThrows, FailRunLoop, Crash
<1>4. ASSUME NEW c \in Callers, EnqueueControl(c) PROVE ControlsStand'
  <2>1. /\ told[c] = "unasked" /\ controlInFlight' = controlInFlight
        /\ \A d \in Callers \ {c} : told'[d] = told[d]
    BY <1>1, <1>4 DEF EnqueueControl
  <2>2. CASE told' = [told EXCEPT ![c] = "waiting"] /\ controls' = Append(controls, c)
    <3>1. /\ <<c>> \in Seq(OfKind("control")) /\ Elements(<<c>>) = {c}
          /\ controls' = controls \o <<c>>
      BY <1>1, <1>4, <2>2 DEF Elements, EnqueueControl, OfKind
    <3>2. Elements(controls') = Elements(controls) \cup {c}
      <4>1. Elements(controls \o <<c>>) = Elements(controls) \cup Elements(<<c>>)
        <5>1. controls \in Seq(OfKind("control")) /\ <<c>> \in Seq(OfKind("control"))
          BY <1>1, <3>1
        <5> QED
          BY <5>1, JoinedElements, ZenonT(60)
      <4> QED
        BY <3>1, <4>1
    <3> QED
      BY <1>1, <2>1, <2>2, <3>2 DEF ControlsStand
  <2>3. CASE UNCHANGED controls
    <3>1. c \notin Elements(controls) /\ c # item.who
      BY <2>1 DEF FateInv, FreshIsApart, Fresh, Unasked
    <3>2. c # controlInFlight
      BY <3>1, CallersAssumption DEF VerdictFits
    <3> QED
      BY <2>1, <2>3, <3>1, <3>2 DEF ControlsStand
  <2> QED
    BY <1>4, <2>2, <2>3 DEF EnqueueControl
<1>5. ASSUME ~Fault, \A d \in Callers : ~EnqueueControl(d) PROVE ControlsStand'
  <2>1. Elements(controls') \cup {controlInFlight'} \subseteq
            Elements(controls) \cup {controlInFlight, NoOne}
    <3>1. CASE TakeControl
      <4>1. /\ controls # <<>> /\ controls' = Tail(controls)
            /\ controlInFlight' = Head(controls)
        BY <3>1 DEF TakeControl
      <4>2. Elements(controls) = Elements(Tail(controls)) \cup {Head(controls)}
        BY <1>1, <4>1, TailElements
      <4> QED
        BY <4>1, <4>2
    <3>2. CASE EndCrank
      BY <3>2 DEF EndCrank
    <3>3. CASE Deliver
      BY <3>3 DEF Deliver, DeliverSend, DeliverLater, Splat,
         DeliverKernelServiceMessage, DeliverOther, PerformVatRestart,
         PerformVatTermination, PerformControl, Returns, controlVars
    <3>4. CASE UNCHANGED <<controls, controlInFlight>>
      BY <3>4
    <3>5. CASE \/ Ask \/ AcceptRemoteInbound
               \/ \E m \in Messages : ServiceReplies(m)
               \/ StopKernel \/ UNCHANGED vars
      BY <1>5, <3>4, <3>5 DEF Ask, Request, EndRunLoop, AcceptRemoteInbound,
         ServiceReplies, StopKernel, vars, controlVars
    <3>6. CASE \/ StartLoop \/ StopLoop \/ WakeUp \/ FinishTurn
               \/ ProcessCrankResult \/ TerminateVat \/ CollectAndFlush
               \/ TakeChore \/ TakeArrival \/ DequeueRun \/ Sleep
      BY <3>4, <3>6 DEF StartLoop, StopLoop, WakeUp, FinishTurn,
         ProcessCrankResult, TerminateVat, CollectAndFlush, TakeChore,
         TakeArrival, DequeueRun, Sleep, controlVars
    <3> QED
      BY <1>5, <3>1, <3>2, <3>3, <3>5, <3>6 DEF Next, Turn, TakeItem
  <2>2. ASSUME NEW c \in Callers \cap (Elements(controls') \cup {controlInFlight'})
        PROVE  told'[c] # "refused"
    <3>1. /\ c \in OfKind("control")
          /\ c \in Callers \cap (Elements(controls) \cup {controlInFlight})
      BY <1>1, <2>1, <2>2, ListKinds, CallersAssumption
    <3> QED
      BY <1>1, <1>5, <3>1, ControlsUntold DEF ControlsStand, Next, Ask
  <2> QED
    BY <2>2 DEF ControlsStand
<1> QED
  BY <1>3, <1>4, <1>5

(* Work waits on one list until its crank tells it.                        *)
LEMMA WorkUntold ==
    ASSUME TypeOK, NEW c \in Work,
           \/ \E d \in Callers : EnqueueControl(d) \/ EndRunLoop(d)
           \/ AcceptRemoteInbound
           \/ \E m \in Messages : ServiceReplies(m)
           \/ StartLoop \/ StopLoop \/ TakeItem \/ WakeUp \/ FinishTurn
           \/ ProcessCrankResult \/ TerminateVat \/ CollectAndFlush
           \/ Deliver /\ item.kind # "control"
           \/ UNCHANGED vars
    PROVE  told'[c] = told[c]
<1>1. /\ c \in Callers /\ c \notin Messages /\ c \notin OfKind("control")
      /\ c \notin OfKind("stop") /\ told \in [Callers -> Fates]
  BY EveryKind, KindsApart, ToldTypes
<1>2. ASSUME NEW who, c \notin who, NEW what, told' = Tell(told, who, what)
      PROVE  told'[c] = told[c]
  BY <1>1, <1>2, TellTells
<1>3. ASSUME NEW d \in Callers, EnqueueControl(d) \/ EndRunLoop(d)
      PROVE  told'[c] = told[c]
  <2>1. d # c
    BY <1>1, <1>3 DEF EnqueueControl, EndRunLoop, OfKind
  <2> QED
    BY <1>1, <1>3, <2>1 DEF EnqueueControl, EndRunLoop
<1>4. CASE \/ AcceptRemoteInbound \/ StartLoop \/ TakeItem \/ WakeUp \/ FinishTurn
           \/ UNCHANGED vars
  BY <1>4 DEF AcceptRemoteInbound, StartLoop, WakeUp, FinishTurn, vars, TakeItem,
     TakeControl, TakeChore, TakeArrival, DequeueRun, Sleep, OpenCrank
<1>5. CASE \/ \E m \in Messages : ServiceReplies(m)
           \/ StopLoop
           \/ ProcessCrankResult
           \/ TerminateVat
           \/ CollectAndFlush
  <2>1. ASSUME ~UNCHANGED told PROVE \E who, what : c \notin who /\ told' = Tell(told, who, what)
    <3>1. subscriptions \subseteq Messages
      BY ListKinds
    <3> QED
      BY <1>1, <1>5, <2>1, <3>1
      DEF ServiceReplies, StopLoop, ProcessCrankResult, TerminateVat,
          TellDecided, CollectAndFlush
  <2> QED
    BY <1>2, <2>1
<1>6. CASE Deliver /\ item.kind # "control"
  BY <1>1, <1>6, DeliverTells
<1> QED
  BY <1>3, <1>4, <1>5, <1>6

LEMMA RequestApart ==
    ASSUME FateInv, WorkIsApart, HandsAreEmpty, NEW c \in Callers, Request(c)
    PROVE  WorkIsApart'
<1>1. /\ TypeOK /\ told \in [Callers -> Fates] /\ told[c] = "unasked"
      /\ c \notin taken \cup atWork \cup Waiting
      /\ UNCHANGED <<loop, taken, due>>
  BY AskedAnew, ToldTypes DEF FateInv, Request, crankVars, replyVars
<1>2. CASE ~Accepting \/ (c \in Work /\ store.vatDead)
  <2>1. /\ told' = [told EXCEPT ![c] = "refused"]
        /\ UNCHANGED <<atWork, superseded>>
    BY <1>2 DEF Request, callVars, workVars
  <2>2. Waiting \subseteq Waiting'
    BY <1>1, <2>1 DEF Waiting
  <2> QED
    BY <1>1, <2>1, <2>2 DEF WorkIsApart, AllDue
<1>3. CASE Accepting /\ (c \in Work => ~store.vatDead)
  <2>1. AwaitQueuedWork(c) /\ loop # "failed"
    BY <1>3 DEF Request, Accepting
  <2>2. /\ atWork \cup taken \cup superseded \cup AllDue \subseteq Waiting
        /\ c \notin superseded \cup AllDue
    BY <1>1, <2>1 DEF WorkIsApart
  <2>3. \A d \in Callers : /\ d \in Work /\ d # c => told'[d] = told[d]
                           /\ d \in Work /\ d = c => told'[d] = "waiting"
    <3>1. CASE told' = [told EXCEPT ![c] = "waiting"]
      BY <1>1, <3>1
    <3>2. CASE WriteRequests(<<c>>, store, [told EXCEPT ![c] = "waiting"])
      <4>1. ASSUME NEW d \in Work
            PROVE  told'[d] = [told EXCEPT ![c] = "waiting"][d]
        <5>1. d \in Callers /\ d \notin OfKind("write") /\ d \notin OfKind("message")
          BY KindsApart
        <5> QED
          BY <3>2, <5>1, WrittenTells
      <4> QED
        BY <1>1, <4>1
    <3> QED
      BY <1>3, <3>1, <3>2 DEF Request
  <2>4. PICK overtaken \in SUBSET (atWork \cup {c}) :
           /\ superseded' = superseded \cup overtaken
           /\ atWork' = (atWork \cup ({c} \cap Work)) \ overtaken
           /\ c \in overtaken => c \in Work
    BY <2>1, KindsApart DEF AwaitQueuedWork, Overtaken, OfKind, Work
  <2>5. /\ atWork' \cup superseded' \subseteq atWork \cup superseded \cup ({c} \cap Work)
        /\ atWork' \cap superseded' = {}
    BY <1>1, <2>2, <2>4 DEF WorkIsApart
  <2>6. atWork' \cup taken \cup superseded' \cup AllDue \subseteq Waiting'
    <3>1. atWork \cup taken \cup superseded \cup AllDue \subseteq Work
      BY <1>1, ListKinds
    <3> QED
      BY <1>1, <2>2, <2>3, <2>5, <3>1 DEF Waiting
  <2> QED
    BY <1>1, <2>2, <2>4, <2>5, <2>6 DEF WorkIsApart, AllDue
<1> QED
  BY <1>2, <1>3

LEMMA DeliverApart ==
    ASSUME FateInv, HandsAreEmpty, WorkIsApart, Deliver PROVE WorkIsApart'
<1>1. /\ TypeOK /\ pc = "delivering" /\ taken' = taken
      /\ UNCHANGED <<loop, item>>
      /\ due = NobodyDue /\ AllDue = {} /\ loop # "failed"
  <2>1. pc = "delivering" /\ taken' = taken /\ UNCHANGED <<loop, item>>
    BY DEF Deliver, DeliverSend, DeliverLater, Splat,
       DeliverKernelServiceMessage, DeliverOther, PerformVatRestart,
       PerformVatTermination, PerformControl, Returns, replyVars
  <2> QED
    BY <2>1 DEF FateInv, HandsAreEmpty, AllDue, NobodyDue
<1>2. CASE item.kind = "control"
  <2>1. taken = {}
    BY <1>1, <1>2, TakenAlike
  <2>2. PICK c \in Callers : PerformControl(c)
    <3>1. ~DeliverOther /\ ~PerformVatRestart /\ ~PerformVatTermination
      BY <1>2 DEF DeliverOther, PerformVatRestart, PerformVatTermination
    <3>2. ASSUME NEW m \in Messages
          PROVE  ~(DeliverSend(m) \/ DeliverLater(m) \/ Splat(m)
                     \/ DeliverKernelServiceMessage(m))
      BY <1>2 DEF DeliverSend, DeliverLater, Splat, DeliverKernelServiceMessage,
         Item
    <3> QED
      BY <3>1, <3>2 DEF Deliver
  <2>3. due' = due
    BY <2>2 DEF PerformControl, replyVars
  <2>4. CASE AbandonQueuedWork
    BY <1>1, <2>1, <2>3, <2>4 DEF AbandonQueuedWork, WorkIsApart, AllDue
  <2>5. CASE TellDecided("splat") /\ UNCHANGED workVars
    <3>1. Decided \cap Work = {}
      BY <1>1, StoreFields, KindsApart DEF Decided, TypeOK
    <3>2. \A d \in Work : told'[d] = told[d]
      BY <2>5, <3>1, TellTells, KindsApart DEF TellDecided
    <3>3. atWork \cup taken \cup superseded \subseteq Waiting'
      BY <1>1, <3>2, ListKinds DEF WorkIsApart, Waiting
    <3> QED
      BY <1>1, <2>1, <2>3, <2>5, <3>3 DEF workVars, WorkIsApart, AllDue
  <2> QED
    BY <2>2, <2>4, <2>5 DEF PerformControl
<1>3. CASE item.kind # "control"
  <2>1. \A d \in Work : told'[d] = told[d]
    BY <1>1, <1>3, WorkUntold
  <2>2. atWork \cup taken \cup superseded \subseteq Waiting'
    BY <1>1, <2>1, ListKinds DEF WorkIsApart, Waiting
  <2>3. CASE \E reply : AnswerTermination(reply)
    <3>1. /\ superseded' = {} /\ atWork' = atWork
          /\ AllDue' \subseteq taken \cup superseded
      BY <2>3 DEF AnswerTermination, AllDue
    <3> QED
      BY <1>1, <2>2, <3>1 DEF WorkIsApart
  <2>4. CASE UNCHANGED workVars /\ due' \in {due, [due EXCEPT !.refused = taken]}
    <3>1. AllDue' \subseteq taken
      BY <1>1, <2>4 DEF AllDue, NobodyDue
    <3>2. UNCHANGED <<atWork, superseded>>
      BY <2>4 DEF workVars
    <3> QED
      BY <1>1, <2>2, <3>1, <3>2 DEF WorkIsApart
  <2>5. ASSUME NEW m \in Messages,
               \/ DeliverSend(m)
               \/ DeliverLater(m)
               \/ Splat(m)
               \/ DeliverKernelServiceMessage(m)
        PROVE  WorkIsApart'
    BY <2>4, <2>5 DEF DeliverSend, DeliverLater, Splat,
       DeliverKernelServiceMessage, callVars, replyVars
  <2>6. CASE DeliverOther \/ PerformVatRestart
    BY <2>4, <2>6 DEF DeliverOther, PerformVatRestart, callVars, replyVars
  <2>7. CASE PerformVatTermination
    BY <2>3, <2>7 DEF PerformVatTermination
  <2>8. ASSUME NEW c \in Callers PROVE ~PerformControl(c)
    BY <1>3 DEF PerformControl, Item
  <2> QED
    BY <2>5, <2>6, <2>7, <2>8 DEF Deliver
<1> QED
  BY <1>2, <1>3

LEMMA NextApart ==
    ASSUME FateInv, HandsAreEmpty, HandsAreEmpty', WorkIsApart, [Next]_vars
    PROVE  WorkIsApart'
<1>1. TypeOK
  BY DEF FateInv
<1>2. ASSUME UNCHANGED <<atWork, taken, superseded, due>>,
             loop' # "failed" => loop # "failed",
             \A d \in Work : told'[d] = told[d]
      PROVE  WorkIsApart'
  <2>1. AllDue' = AllDue
    BY <1>2 DEF AllDue
  <2>2. loop' # "failed" => atWork \cup taken \cup superseded \cup AllDue \subseteq Waiting'
    BY <1>1, <1>2, ListKinds DEF WorkIsApart, Waiting
  <2> QED
    BY <1>2, <2>1, <2>2 DEF WorkIsApart
<1>3. CASE \/ \E d \in Callers : EnqueueControl(d) \/ EndRunLoop(d)
           \/ AcceptRemoteInbound
           \/ \E m \in Messages : ServiceReplies(m)
           \/ UNCHANGED vars
  <2>1. \A d \in Work : told'[d] = told[d]
    BY <1>1, <1>3, WorkUntold
  <2> QED
    BY <1>2, <1>3, <2>1
    DEF EnqueueControl, EndRunLoop, AcceptRemoteInbound, ServiceReplies, vars,
        runVars, callVars, workVars, crankVars, replyVars
<1>4. CASE \/ StartLoop \/ StopLoop \/ WakeUp \/ FinishTurn
           \/ ProcessCrankResult \/ TerminateVat \/ CollectAndFlush
  <2>1. \A d \in Work : told'[d] = told[d]
    BY <1>1, <1>4, WorkUntold
  <2>2. loop' = loop \/ (loop # "failed" /\ loop' # "failed")
    BY <1>4 DEF StartLoop, StopLoop, WakeUp, FinishTurn, ProcessCrankResult,
       TerminateVat, CollectAndFlush, HandsAreEmpty
  <2>3. UNCHANGED <<atWork, taken, superseded, due>>
    BY <1>4 DEF StartLoop, StopLoop, WakeUp, FinishTurn, ProcessCrankResult,
       TerminateVat, CollectAndFlush, callVars, workVars, crankVars, replyVars
  <2> QED
    BY <1>2, <2>1, <2>2, <2>3
<1>5. CASE TakeItem
  <2>1. PICK next : OpenCrank(next)
    BY <1>5 DEF TakeItem, TakeControl, TakeChore, TakeArrival, DequeueRun, Sleep
  <2>2. /\ taken = {} /\ due = NobodyDue /\ AllDue = {} /\ AllDue' = {}
        /\ taken' = atWork \cap OfKind(next.kind) /\ atWork' = atWork \ taken'
        /\ UNCHANGED <<loop, superseded, due, told>>
    BY <2>1 DEF HandsAreEmpty, InCrank, OpenCrank, TakeWaiters, AllDue, NobodyDue
  <2> QED
    BY <2>2 DEF WorkIsApart, Waiting
<1>6. CASE EndCrank
  <2>1. /\ WriteRequests(held, store, TellFinished)
        /\ taken' = {} /\ due' = NobodyDue /\ AllDue' = {}
        /\ UNCHANGED <<loop, atWork, superseded>>
    BY <1>6 DEF EndCrank, workVars, AllDue, NobodyDue
  <2>2. ASSUME NEW d \in atWork \cup superseded, d \in Waiting PROVE d \in Waiting'
    <3>1. /\ d \in Callers /\ d \notin OfKind("write") /\ d \notin OfKind("message")
          /\ d # controlInFlight
      BY <1>1, <2>2, ListKinds, KindsApart, EveryKind, CallersAssumption
    <3>2. d \notin taken \cup due.answered \cup due.refused
      BY DEF WorkIsApart, AllDue
    <3>3. told'[d] = TellFinished[d] /\ TellFinished[d] = told[d]
      BY <2>1, <3>1, <3>2, WrittenTells, FinishedTells
    <3> QED
      BY <2>2, <3>3 DEF Waiting
  <2> QED
    BY <2>1, <2>2 DEF WorkIsApart
<1>7. CASE StopKernel
  <2>1. /\ atWork' = {} /\ superseded' = {} /\ loop' = loop /\ loop # "running"
        /\ UNCHANGED <<taken, due>>
    BY <1>7 DEF StopKernel, AbandonQueuedWork, runVars, crankVars, replyVars
  <2>2. taken = {} /\ due = NobodyDue
    BY <2>1 DEF HandsAreEmpty, InCrank
  <2> QED
    BY <2>1, <2>2 DEF WorkIsApart, AllDue, NobodyDue
<1>8. CASE Fault
  <2>1. CASE Crash
    BY <2>1 DEF Crash, AbandonQueuedWork, WorkIsApart, AllDue, NobodyDue
  <2>2. CASE \E s, f : FailRunLoop(s, f)
    <3>1. /\ loop' = "failed" /\ taken' = {} /\ AllDue' = {}
          /\ UNCHANGED <<atWork, superseded>>
      BY <2>2 DEF FailRunLoop, AllDue, NobodyDue, workVars
    <3> QED
      BY <3>1 DEF WorkIsApart
  <2> QED
    BY <1>8, <2>1, <2>2
    DEF Fault, CrankThrows, TerminateThrows, CommitFails, HeldWriteThrows,
        AfterCommitThrows
<1> QED
  BY <1>3, <1>4, <1>5, <1>6, <1>7, <1>8, RequestApart, DeliverApart
  DEF Next, Ask, Turn

(* What a crank is about to tell is true of what it has done.              *)
LEMMA DeliverOutcomes ==
    ASSUME FateInv, HandsAreEmpty, VerdictFits, WorkIsApart, DoneWaiters,
           Outcomes, Deliver
    PROVE  Outcomes'
<1>1. /\ TypeOK /\ store \in StoreType /\ due \in [answered : SUBSET OfKind("terminate"),
                                                   refused : SUBSET Work]
      /\ pc = "delivering" /\ pc' = "delivered" /\ taken' = taken
      /\ UNCHANGED <<item, controlInFlight, savepoint>>
      /\ due = NobodyDue /\ loop # "failed"
  <2>1. /\ pc = "delivering" /\ pc' = "delivered" /\ taken' = taken
        /\ UNCHANGED <<item, controlInFlight, savepoint>>
    BY DEF Deliver, DeliverSend, DeliverLater, Splat, DeliverKernelServiceMessage,
       DeliverOther, PerformVatRestart, PerformVatTermination, PerformControl,
       Returns, replyVars, controlVars
  <2> QED
    BY <2>1 DEF FateInv, TypeOK, HandsAreEmpty
<1>2. Waiting \cap store.done = {}
  <2>1. ~Succeeds
    BY <1>1 DEF VerdictFits, Verdict, Succeeds
  <2> QED
    BY <1>1, <2>1 DEF DoneWaiters, AboutToBeTold, NobodyDue
<1>3. /\ Grown(store, store')
      /\ store'.done \subseteq store.done \cup taken \cup {controlInFlight}
      /\ item.kind # "control" => store'.done \subseteq store.done \cup taken
  BY <1>1, DeliverGrows
<1>4. resolvedNow' \subseteq store'.resolved
  <2>1. CASE UNCHANGED resolvedNow
    BY <1>3, <2>1 DEF Grown, Outcomes
  <2>2. CASE resolvedNow' = {}
    BY <2>2
  <2>3. ASSUME NEW m \in Messages, VatResolves(m)
        PROVE  resolvedNow' \subseteq store'.resolved
    BY <1>1, <2>3 DEF VatResolves, StoreType, Outcomes
  <2> QED
    BY <2>1, <2>2, <2>3
    DEF Deliver, DeliverSend, DeliverLater, Splat, DeliverKernelServiceMessage,
        DeliverOther, PerformVatRestart, PerformVatTermination, PerformControl
<1>5. controlInFlight' \in store'.done \cup {NoOne}
  <2>1. CASE item.kind = "control"
    <3>1. ~DeliverOther /\ ~PerformVatRestart /\ ~PerformVatTermination
      BY <2>1 DEF DeliverOther, PerformVatRestart, PerformVatTermination
    <3>2. ASSUME NEW m \in Messages
          PROVE  ~(DeliverSend(m) \/ DeliverLater(m) \/ Splat(m)
                     \/ DeliverKernelServiceMessage(m))
      BY <2>1 DEF DeliverSend, DeliverLater, Splat, DeliverKernelServiceMessage,
         Item
    <3>3. PICK c \in Callers : PerformControl(c)
      BY <3>1, <3>2 DEF Deliver
    <3>4. c \in store'.done
      <4>1. CASE store' = Retired([store EXCEPT !.done = @ \cup {c}])
        BY <1>1, <4>1 DEF StoreType, Retired
      <4>2. CASE store' = [EmptyStore EXCEPT !.vatDead = TRUE,
                                             !.resolved = store.resolved,
                                             !.done = store.done \cup {c}]
        BY <4>2 DEF EmptyStore
      <4> QED
        BY <3>3, <4>1, <4>2 DEF PerformControl
    <3> QED
      BY <1>1, <3>3, <3>4, ControlItem DEF PerformControl
  <2> QED
    BY <1>1, <2>1 DEF VerdictFits
<1>6. ASSUME UNCHANGED due, ~verdict'.afterCommit PROVE Outcomes'
  BY <1>1, <1>4, <1>5, <1>6 DEF Outcomes, NobodyDue, Succeeds
<1>7. ASSUME NEW m \in Messages,
             \/ DeliverSend(m)
             \/ DeliverLater(m)
             \/ Splat(m)
             \/ DeliverKernelServiceMessage(m)
      PROVE  Outcomes'
  <2>1. UNCHANGED due /\ (verdict' \in VatVerdicts \/ verdict' = Verdict)
    BY <1>7 DEF DeliverSend, DeliverLater, Splat, DeliverKernelServiceMessage,
       Returns, replyVars
  <2>2. ~verdict'.afterCommit
    BY <2>1, VatsOutcome DEF Verdict
  <2> QED
    BY <1>6, <2>1, <2>2
<1>8. CASE DeliverOther
  <2>1. UNCHANGED due /\ taken = {}
    BY <1>1, <1>8, TakenAlike DEF DeliverOther, replyVars
  <2> QED
    BY <1>1, <1>4, <1>5, <2>1 DEF Outcomes, NobodyDue
<1>9. CASE PerformVatRestart
  <2>1. CASE Returns(Verdict) /\ UNCHANGED due
    BY <1>6, <2>1 DEF Returns, Verdict
  <2>2. CASE /\ Returns([Verdict EXCEPT !.afterCommit = TRUE, !.reply = "refused"])
             /\ UNCHANGED due
    <3>1. ~Succeeds'
      BY <2>2 DEF Returns, Verdict, Succeeds
    <3> QED
      BY <1>1, <1>4, <1>5, <2>2, <3>1 DEF Outcomes, NobodyDue
  <2>3. CASE store' = [store EXCEPT !.done = @ \cup taken] /\ UNCHANGED due
    <3>1. taken' \subseteq store'.done
      BY <1>1, <2>3 DEF StoreType
    <3> QED
      BY <1>1, <1>4, <1>5, <2>3, <3>1 DEF Outcomes, NobodyDue
  <2>4. CASE /\ Returns([Verdict EXCEPT !.abort = TRUE, !.terminate = TRUE])
             /\ due' = [due EXCEPT !.refused = taken] /\ UNCHANGED store
    <3>1. /\ ~verdict'.afterCommit /\ due'.answered = {} /\ due'.refused = taken
      BY <1>1, <2>4 DEF Returns, Verdict, NobodyDue
    <3>2. due'.refused \cap store'.done = {}
      BY <1>1, <1>2, <2>4, <3>1 DEF WorkIsApart
    <3> QED
      BY <1>1, <1>4, <1>5, <3>1, <3>2 DEF Outcomes, Succeeds
  <2> QED
    BY <1>9, <2>1, <2>2, <2>3, <2>4 DEF PerformVatRestart
<1>10. CASE PerformVatTermination
  <2>1. item.kind # "control" /\ store'.done \subseteq store.done \cup taken
    BY <1>3, <1>10 DEF PerformVatTermination
  <2>2. ~verdict'.afterCommit
    BY <1>10 DEF PerformVatTermination, Returns, Verdict
  <2>3. taken \cap store.done = {} /\ superseded \cap (store.done \cup taken) = {}
    BY <1>1, <1>2 DEF WorkIsApart
  <2>4. due'.refused \cap store'.done = {}
    <3>1. CASE AnswerTermination("answered")
      <4>1. due'.refused = superseded
        BY <3>1 DEF AnswerTermination
      <4> QED
        BY <2>1, <2>3, <4>1
    <3>2. CASE /\ AnswerTermination("refused")
               /\ store' \in {store, Retired(store)}
      <4>1. due'.refused = taken \cup superseded
        BY <3>2 DEF AnswerTermination
      <4>2. store'.done = store.done
        BY <1>1, <3>2, RetiredGrows
      <4> QED
        BY <2>3, <4>1, <4>2
    <3> QED
      BY <1>10, <3>1, <3>2 DEF PerformVatTermination
  <2>5. due'.answered # {} => store'.vatDead /\ (Revocable' => savepoint'.vatDead)
    <3>1. CASE store.vatDead /\ store' = [store EXCEPT !.done = @ \cup taken]
      <4>1. store'.vatDead /\ savepoint.vatDead
        BY <1>1, <3>1 DEF StoreType, Outcomes
      <4> QED
        BY <1>1, <4>1
    <3>2. CASE /\ Returns([Verdict EXCEPT !.irrevocable = TRUE])
               /\ store' = Retired([store EXCEPT !.done = @ \cup taken])
      <4>1. ~Revocable'
        BY <3>2 DEF Returns, Verdict, Revocable
      <4>2. store'.vatDead
        BY <1>1, <3>2 DEF StoreType, Retired
      <4> QED
        BY <4>1, <4>2
    <3>3. CASE AnswerTermination("refused")
      BY <3>3 DEF AnswerTermination
    <3> QED
      BY <1>10, <3>1, <3>2, <3>3 DEF PerformVatTermination
  <2> QED
    BY <1>1, <1>4, <1>5, <2>2, <2>4, <2>5 DEF Outcomes, Succeeds
<1>11. ASSUME NEW c \in Callers, PerformControl(c) PROVE Outcomes'
  <2>1. UNCHANGED due /\ ~verdict'.afterCommit
    BY <1>11 DEF PerformControl, replyVars, Returns, Verdict
  <2> QED
    BY <1>6, <2>1
<1> QED
  BY <1>7, <1>8, <1>9, <1>10, <1>11 DEF Deliver

LEMMA NextOutcomes ==
    ASSUME FateInv, ParkInv, HandsAreEmpty, HandsAreEmpty', VerdictFits,
           WorkIsApart, DoneWaiters, Outcomes, [Next]_vars
    PROVE  Outcomes'
<1>1. /\ TypeOK /\ store \in StoreType /\ savepoint \in StoreType
  BY FateTypes DEF FateInv
<1>2. ASSUME ~InCrank', resolvedNow' \subseteq store'.resolved PROVE Outcomes'
  BY <1>2 DEF Outcomes, HandsAreEmpty, NobodyDue, InCrank
<1>3. ASSUME UNCHANGED <<pc, due, taken, verdict, controlInFlight, savepoint,
                         rollbackAllowed, resolvedNow>>,
             Grown(store, store'), store'.done = store.done,
             store'.vatDead = store.vatDead
      PROVE  Outcomes'
  <2>1. Revocable' = Revocable /\ Succeeds' = Succeeds
    BY <1>3 DEF Revocable, Succeeds
  <2> QED
    BY <1>3, <2>1 DEF Outcomes, Grown
<1>4. Grown(store, store)
  BY DEF Grown
<1>5. ASSUME NEW c \in Callers, Request(c) PROVE Outcomes'
  <2>1. UNCHANGED <<pc, due, taken, verdict, controlInFlight, savepoint,
                    rollbackAllowed, resolvedNow>>
    BY <1>5 DEF Request, crankVars, replyVars, controlVars
  <2>2. CASE UNCHANGED store
    BY <1>3, <1>4, <2>1, <2>2
  <2>3. CASE ~InCrank /\ WriteRequests(<<c>>, store, [told EXCEPT ![c] = "waiting"])
    <3>1. Grown(store, store')
      BY <1>1, <2>3, WrittenGrows DEF WriteRequests
    <3>2. resolvedNow' \subseteq store'.resolved /\ ~InCrank'
      BY <2>1, <2>3, <3>1 DEF Grown, Outcomes, InCrank
    <3> QED
      BY <1>2, <3>2
  <2> QED
    BY <1>5, <2>2, <2>3 DEF Request
<1>6. CASE \/ \E c \in Callers : EnqueueControl(c) \/ EndRunLoop(c)
           \/ AcceptRemoteInbound
           \/ StopKernel
           \/ UNCHANGED vars
  BY <1>3, <1>4, <1>6
  DEF EnqueueControl, EndRunLoop, AcceptRemoteInbound, StopKernel, vars, runVars,
      crankVars, replyVars, controlVars
<1>7. ASSUME NEW m \in Messages, ServiceReplies(m) PROVE Outcomes'
  <2>1. /\ Grown(store, store') /\ store'.done = store.done
        /\ store'.vatDead = store.vatDead
    BY <1>1, <1>4, <1>7 DEF ServiceReplies, StoreType, Grown
  <2> QED
    BY <1>3, <1>7, <2>1 DEF ServiceReplies, runVars, controlVars, crankVars, replyVars
<1>8. CASE StartLoop \/ StopLoop \/ WakeUp \/ FinishTurn
  <2>1. ~InCrank' /\ UNCHANGED <<store, resolvedNow>>
    BY <1>8 DEF StartLoop, StopLoop, WakeUp, FinishTurn, crankVars, InCrank
  <2> QED
    BY <1>2, <2>1 DEF Outcomes
<1>9. CASE TakeItem
  <2>1. PICK next : OpenCrank(next)
    BY <1>9 DEF TakeItem, TakeControl, TakeChore, TakeArrival, DequeueRun, Sleep
  <2>2. /\ due = NobodyDue /\ due' = due /\ verdict' = Verdict /\ savepoint' = store
        /\ resolvedNow' = resolvedNow
    BY <2>1 DEF HandsAreEmpty, InCrank, OpenCrank
  <2>3. store'.resolved = store.resolved /\ store'.vatDead = store.vatDead
    BY <1>1, <1>9 DEF TakeItem, TakeControl, TakeChore, TakeArrival, DequeueRun,
       Sleep, StoreType
  <2>4. CASE pc' = "asleep"
    BY <1>2, <2>2, <2>3, <2>4 DEF InCrank, Outcomes
  <2>5. CASE pc' = "delivering"
    BY <2>2, <2>3, <2>5 DEF Outcomes, NobodyDue, Succeeds, Verdict
  <2> QED
    BY <1>9, <2>4, <2>5 DEF TakeItem, TakeControl, TakeChore, TakeArrival,
       DequeueRun, Sleep, Deliverable
<1>10. CASE ProcessCrankResult
  <2>1. /\ pc = "delivered" /\ pc' \in {"terminating", "collecting"}
        /\ rollbackAllowed' = ~(verdict.abort \/ verdict.irrevocable)
        /\ UNCHANGED <<due, taken, verdict, controlInFlight, savepoint>>
        /\ loop # "failed"
    BY <1>10 DEF ProcessCrankResult, StillUndoable, replyVars, controlVars,
       HandsAreEmpty
  <2>2. Succeeds' = Succeeds
    BY <2>1 DEF Succeeds
  <2>3. CASE verdict.abort
    <3>1. /\ store' = savepoint /\ resolvedNow' = {} /\ Revocable /\ ~Revocable'
      BY <1>10, <2>1, <2>3 DEF ProcessCrankResult, RollbackCrank, VerdictFits,
         Revocable
    <3>2. due.refused \cap savepoint.done = {}
      BY <2>1, <3>1 DEF WorkIsApart, AllDue, DoneWaiters
    <3>3. controlInFlight = NoOne /\ ~verdict.afterCommit
      BY <2>3 DEF VerdictFits, Verdict
    <3> QED
      BY <2>1, <2>2, <3>1, <3>2, <3>3 DEF Outcomes, Succeeds
  <2>4. CASE ~verdict.abort
    <3>1. UNCHANGED <<store, resolvedNow>> /\ (Revocable' => Revocable)
      BY <1>10, <2>1, <2>4 DEF ProcessCrankResult, Revocable
    <3> QED
      BY <2>1, <2>2, <3>1 DEF Outcomes
  <2> QED
    BY <2>3, <2>4
<1>11. CASE TerminateVat \/ CollectAndFlush
  <2>1. /\ pc # "delivering" /\ pc' # "delivering" /\ ~Revocable'
        /\ UNCHANGED <<due, taken, verdict, controlInFlight, savepoint>>
        /\ resolvedNow' \subseteq resolvedNow
    BY <1>11 DEF TerminateVat, CollectAndFlush, replyVars, controlVars, Revocable
  <2>2. Grown(store, store') /\ store'.done = store.done
    <3>1. CASE TerminateVat
      BY <1>1, <3>1, RetiredGrows DEF TerminateVat
    <3>2. CASE CollectAndFlush
      BY <1>1, <3>2 DEF CollectAndFlush, StoreType, Grown
    <3> QED
      BY <1>11, <3>1, <3>2
  <2>3. Succeeds' = Succeeds
    BY <2>1 DEF Succeeds
  <2> QED
    BY <2>1, <2>2, <2>3 DEF Outcomes, Grown
<1>12. CASE EndCrank
  <2>1. Grown(store, store')
    BY <1>1, <1>12, WrittenGrows DEF EndCrank, WriteRequests
  <2>2. resolvedNow' \subseteq store'.resolved /\ ~InCrank'
    BY <1>12, <2>1 DEF Grown, Outcomes, InCrank, EndCrank
  <2> QED
    BY <1>2, <2>2
<1>13. CASE Fault
  <2>1. ~InCrank' /\ resolvedNow' = {}
    BY <1>13 DEF Fault, CrankThrows, TerminateThrows, CommitFails,
       HeldWriteThrows, AfterCommitThrows, FailRunLoop, Crash, InCrank
  <2> QED
    BY <1>2, <2>1
<1> QED
  BY <1>5, <1>6, <1>7, <1>8, <1>9, <1>10, <1>11, <1>12, <1>13, DeliverOutcomes
  DEF Next, Ask, Turn

(* Whoever still waits when the work is done is about to be told.          *)
LEMMA NextDoneWaiters ==
    ASSUME FateInv, ParkInv, HandsAreEmpty, HandsAreEmpty', WaitersListed',
           VerdictFits, VerdictFits', DoneIsWork, WorkIsApart, DoneWaiters,
           Outcomes, [Next]_vars
    PROVE  DoneWaiters'
<1>1. /\ TypeOK /\ store \in StoreType /\ savepoint \in StoreType
  BY FateTypes DEF FateInv
<1>2. ASSUME NEW c \in Callers, told[c] = "unasked"
      PROVE  c \notin store.done \cup savepoint.done
  BY <1>2 DEF FateInv, StoresAreSound, Sound, Absent, Fresh, Unasked
<1>3. CASE UNCHANGED vars
  BY <1>3 DEF vars, runVars, crankVars, replyVars, controlVars, DoneWaiters,
     AboutToBeTold, Succeeds, Revocable, Waiting
<1>4. ASSUME UNCHANGED <<pc, due, taken, verdict, controlInFlight, savepoint,
                         rollbackAllowed>>,
             store'.done = store.done,
             Waiting' \cap (store.done \cup savepoint.done) \subseteq Waiting
      PROVE  DoneWaiters'
  <2>1. Revocable' = Revocable /\ AboutToBeTold' = AboutToBeTold
    BY <1>4 DEF Revocable, AboutToBeTold, Succeeds
  <2> QED
    BY <1>4, <2>1 DEF DoneWaiters
<1>5. ASSUME NEW c \in Callers, Request(c) \/ EnqueueControl(c) \/ EndRunLoop(c)
      PROVE  DoneWaiters'
  <2>1. /\ UNCHANGED <<pc, due, taken, verdict, controlInFlight, savepoint,
                       rollbackAllowed>>
        /\ told[c] = "unasked"
    BY <1>5 DEF Request, EnqueueControl, EndRunLoop, crankVars, replyVars, controlVars
  <2>2. Waiting' \subseteq Waiting \cup {c}
    BY <1>1, <1>5, AskedWaits
  <2>3. c \notin store.done \cup savepoint.done
    BY <1>2, <2>1
  <2>4. CASE UNCHANGED store
    BY <1>4, <2>1, <2>2, <2>3, <2>4
  <2>5. CASE WriteRequests(<<c>>, store, [told EXCEPT ![c] = "waiting"])
    <3>1. store'.done = store.done \cup ({c} \cap OfKind("write"))
      <4>1. Elements(<<c>>) = {c}
        BY DEF Elements
      <4> QED
        BY <1>1, <2>5, <4>1, WrittenGrows DEF WriteRequests
    <3>2. c \in OfKind("write") => c \notin Waiting'
      <4>1. Elements(<<c>>) = {c}
        BY DEF Elements
      <4> QED
        BY <2>5, <4>1, WrittenWaits DEF Waiting
    <3>3. Revocable' = Revocable /\ AboutToBeTold' = AboutToBeTold
      BY <2>1 DEF Revocable, AboutToBeTold, Succeeds
    <3> QED
      BY <2>1, <2>2, <2>3, <3>1, <3>2, <3>3 DEF DoneWaiters
  <2> QED
    BY <1>5, <2>4, <2>5 DEF Request, EnqueueControl, EndRunLoop
<1>6. CASE \/ AcceptRemoteInbound
           \/ \E m \in Messages : ServiceReplies(m)
           \/ StopKernel
  <2>1. Waiting' \subseteq Waiting
    BY <1>1, <1>6, NobodyElseWaits
  <2>2. store'.done = store.done
    BY <1>1, <1>6 DEF AcceptRemoteInbound, ServiceReplies, StopKernel, StoreType
  <2>3. UNCHANGED <<pc, due, taken, verdict, controlInFlight, savepoint,
                    rollbackAllowed>>
    BY <1>6 DEF AcceptRemoteInbound, ServiceReplies, StopKernel, runVars,
       crankVars, replyVars, controlVars
  <2> QED
    BY <1>4, <2>1, <2>2, <2>3
<1>7. CASE Turn
  <2>0. Waiting' \subseteq Waiting
    BY <1>1, <1>7, NobodyElseWaits
  <2>1. ASSUME ~InCrank PROVE Waiting \cap store.done = {}
    <3>1. /\ due = NobodyDue /\ taken = {} /\ controlInFlight = NoOne
      BY <2>1 DEF HandsAreEmpty
    <3>2. AboutToBeTold \subseteq {NoOne}
      BY <3>1 DEF AboutToBeTold, NobodyDue
    <3> QED
      BY <3>2, CallersAssumption DEF DoneWaiters, Waiting
  <2>2. CASE StartLoop \/ StopLoop \/ WakeUp \/ FinishTurn
    <3>1. ~InCrank /\ ~InCrank' /\ UNCHANGED store
      BY <2>2 DEF StartLoop, StopLoop, WakeUp, FinishTurn, InCrank, ParkInv,
         HandsAreEmpty
    <3> QED
      BY <2>0, <2>1, <3>1 DEF DoneWaiters, Revocable, InCrank
  <2>3. CASE TakeItem
    <3>1. PICK next : OpenCrank(next)
      BY <2>3 DEF TakeItem, TakeControl, TakeChore, TakeArrival, DequeueRun, Sleep
    <3>2. ~InCrank /\ savepoint' = store
      BY <3>1 DEF OpenCrank, InCrank
    <3>3. store'.done = store.done
      BY <1>1, <2>3 DEF TakeItem, TakeControl, TakeChore, TakeArrival, DequeueRun,
         Sleep, StoreType
    <3> QED
      BY <2>0, <2>1, <3>2, <3>3 DEF DoneWaiters
  <2>4. CASE Deliver
    <3>1. /\ pc = "delivering" /\ pc' = "delivered"
          /\ UNCHANGED <<savepoint, controlInFlight>>
          /\ taken' = taken /\ Revocable
      BY <2>4 DEF Deliver, DeliverSend, DeliverLater, Splat,
         DeliverKernelServiceMessage, DeliverOther, PerformVatRestart,
         PerformVatTermination, PerformControl, Returns, replyVars, controlVars,
         Revocable
    <3>2. Waiting \cap store.done = {}
      <4>1. due = NobodyDue /\ ~Succeeds
        BY <3>1 DEF HandsAreEmpty, VerdictFits, Verdict, Succeeds
      <4> QED
        BY <3>1, <4>1 DEF DoneWaiters, AboutToBeTold, NobodyDue
    <3>3. store'.done \subseteq store.done \cup AboutToBeTold'
      <4>1. CASE PerformVatRestart
        <5>1. CASE UNCHANGED store
          BY <5>1
        <5>2. CASE /\ Returns([Verdict EXCEPT !.afterCommit = TRUE])
                   /\ store' = [store EXCEPT !.done = @ \cup taken]
          <6>1. Succeeds'
            BY <5>2 DEF Returns, Succeeds, Verdict
          <6>2. store'.done = store.done \cup taken
            BY <1>1, <5>2 DEF StoreType
          <6> QED
            BY <3>1, <6>1, <6>2 DEF AboutToBeTold
        <5> QED
          BY <4>1, <5>1, <5>2 DEF PerformVatRestart
      <4>2. CASE PerformVatTermination
        <5>1. CASE AnswerTermination("answered")
          <6>1. due'.answered = taken /\ item.kind # "control"
            BY <4>2, <5>1 DEF AnswerTermination, PerformVatTermination
          <6> QED
            BY <1>1, <2>4, <6>1, DeliverGrows DEF AboutToBeTold
        <5>2. CASE store' \in {store, Retired(store)}
          BY <1>1, <5>2, RetiredGrows
        <5> QED
          BY <4>2, <5>1, <5>2 DEF PerformVatTermination
      <4>3. CASE taken = {}
        BY <1>1, <2>4, <3>1, <4>3, DeliverGrows DEF AboutToBeTold
      <4>4. CASE item.kind \notin {"restart", "terminate"}
        BY <1>1, <4>3, <4>4, TakenAlike
      <4>5. ASSUME item.kind \in {"restart", "terminate"}
            PROVE  PerformVatRestart \/ PerformVatTermination
        <5>1. \A m \in Callers : item \notin {Item("send", m), Item("later", m),
                                               Item("control", m)}
          BY <4>5 DEF Item
        <5>2. \A m \in Messages : m \in Callers
          BY KindsApart
        <5> QED
          BY <2>4, <4>5, <5>1, <5>2 DEF Deliver, DeliverSend, DeliverLater, Splat,
             DeliverKernelServiceMessage, DeliverOther, PerformControl
      <4> QED
        BY <4>1, <4>2, <4>4, <4>5
    <3> QED
      BY <2>0, <3>1, <3>2, <3>3 DEF DoneWaiters
  <2>5. CASE ProcessCrankResult
    <3>1. /\ pc = "delivered" /\ pc' \in {"terminating", "collecting"}
          /\ rollbackAllowed' = ~(verdict.abort \/ verdict.irrevocable)
          /\ UNCHANGED <<due, taken, verdict, controlInFlight, savepoint>>
      BY <2>5 DEF ProcessCrankResult, StillUndoable, replyVars, controlVars
    <3>2. AboutToBeTold' = AboutToBeTold
      BY <3>1 DEF AboutToBeTold, Succeeds
    <3>3. CASE verdict.abort
      <4>1. store' = savepoint /\ Revocable /\ ~Revocable'
        BY <2>5, <3>1, <3>3 DEF ProcessCrankResult, RollbackCrank, VerdictFits,
           Revocable
      <4> QED
        BY <2>0, <4>1 DEF DoneWaiters
    <3>4. CASE ~verdict.abort
      <4>1. store' = store /\ (Revocable' => Revocable)
        BY <2>5, <3>1, <3>4 DEF ProcessCrankResult, Revocable
      <4> QED
        BY <2>0, <3>1, <3>2, <4>1 DEF DoneWaiters
    <3> QED
      BY <3>3, <3>4
  <2>6. CASE TerminateVat \/ CollectAndFlush
    <3>1. /\ pc # "delivering" /\ pc' # "delivering" /\ ~Revocable'
          /\ UNCHANGED <<due, taken, verdict, controlInFlight>>
      BY <2>6 DEF TerminateVat, CollectAndFlush, replyVars, controlVars, Revocable
    <3>2. store'.done = store.done
      <4>1. CASE TerminateVat
        BY <1>1, <4>1, RetiredGrows DEF TerminateVat
      <4>2. CASE CollectAndFlush
        BY <1>1, <4>2 DEF CollectAndFlush, StoreType
      <4> QED
        BY <2>6, <4>1, <4>2
    <3>3. AboutToBeTold' = AboutToBeTold
      BY <3>1 DEF AboutToBeTold, Succeeds
    <3> QED
      BY <2>0, <3>1, <3>2, <3>3 DEF DoneWaiters
  <2>7. CASE EndCrank
    <3>1. /\ WriteRequests(held, store, TellFinished) /\ ~Revocable'
          /\ pc = "flushed"
      BY <2>7 DEF EndCrank, Revocable
    <3>2. store'.done = store.done \cup (Elements(held) \cap OfKind("write"))
      BY <1>1, <3>1, WrittenGrows DEF WriteRequests
    <3>3. ASSUME NEW c \in Waiting', c \in store'.done PROVE FALSE
      <4>1. /\ TellFinished[c] = "waiting"
            /\ c \notin Elements(held) \cap OfKind("write")
        BY <3>1, <3>3, WrittenWaits DEF Waiting
      <4>2. /\ told[c] = "waiting" /\ c # controlInFlight
            /\ c \notin due.answered \cup due.refused
            /\ c \in taken => ~(verdict.afterCommit /\ ~verdict.abort)
        BY <1>1, <3>3, <4>1, FinishedWaits DEF Waiting
      <4>3. c \in AboutToBeTold
        BY <3>2, <3>3, <4>1, <4>2 DEF DoneWaiters, Waiting
      <4> QED
        BY <4>2, <4>3 DEF AboutToBeTold, Succeeds, VerdictFits
    <3> QED
      BY <3>1, <3>3 DEF DoneWaiters
  <2> QED
    BY <1>7, <2>2, <2>3, <2>4, <2>5, <2>6, <2>7 DEF Turn
<1>8. CASE Fault
  <2>1. Waiting' = {}
    <3>1. CASE Crash
      BY <3>1 DEF Crash, Waiting
    <3>2. CASE loop' = "failed"
      BY <3>2 DEF WaitersListed
    <3> QED
      BY <1>8, <3>1, <3>2 DEF Fault, CrankThrows, TerminateThrows, CommitFails,
         HeldWriteThrows, AfterCommitThrows, FailRunLoop
  <2> QED
    BY <2>1 DEF DoneWaiters
<1> QED
  BY <1>3, <1>5, <1>6, <1>7, <1>8 DEF Next, Ask

(* What is told stays true as a store grows, a loop ends, and those told   *)
(* anew are told the truth.                                                *)
LEMMA KeptStays ==
    ASSUME NEW s, NEW f, NEW l, Kept(s, f, l),
           NEW t, NEW g, NEW k, Grown(s, t), l \in Over => k \in Over,
           \A c \in Callers : g[c] = "answered" =>
              \/ f[c] = "answered"
              \/ Kind[c] = "service"
              \/ DoneIn(c, t, k),
           \A c \in Callers : g[c] = "refused" => c \notin t.done
    PROVE  Kept(t, g, k)
<1>1. ASSUME NEW c \in Callers, DoneIn(c, s, l) PROVE DoneIn(c, t, k)
  BY <1>1 DEF DoneIn, Grown
<1> QED
  BY <1>1 DEF Kept

LEMMA ResolvedIsDone ==
    ASSUME NEW c \in Messages, NEW s, NEW l
    PROVE  DoneIn(c, s, l) <=> c \in s.resolved \cup s.done
<1>1. Kind[c] # "stop" /\ Kind[c] # "terminate"
  BY DEF Messages, OfKind
<1> QED
  BY <1>1 DEF DoneIn

LEMMA NoMessageIsDone ==
    ASSUME NEW c \in Messages \cup OfKind("stop") PROVE c \notin Doable
BY EveryKind DEF Doable

LEMMA WrittenKept ==
    ASSUME NEW s \in StoreType, s.done \subseteq Doable, NEW f, NEW l, Kept(s, f, l),
           NEW requests, NEW missing, missing \subseteq OfKind("message"), NEW g,
           \A c \in Callers :
              \/ g[c] = f[c] /\ c \notin Elements(requests) \cap OfKind("write")
              \/ g[c] = "answered" /\ c \in Elements(requests) \cap OfKind("write")
              \/ g[c] = "refused" /\ c \in OfKind("message")
    PROVE  Kept(Written(requests, missing, s), g, l)
<1> DEFINE t == Written(requests, missing, s)
<1>1. Grown(s, t) /\ t.done = s.done \cup (Elements(requests) \cap OfKind("write"))
  BY WrittenGrows
<1> HIDE DEF t
<1>2. ASSUME NEW c \in Callers, g[c] = "answered"
      PROVE  f[c] = "answered" \/ DoneIn(c, t, l)
  <2>1. CASE c \in Elements(requests) \cap OfKind("write")
    <3>1. c \in t.done /\ Kind[c] = "write"
      BY <1>1, <2>1 DEF OfKind
    <3> QED
      BY <3>1 DEF DoneIn
  <2> QED
    BY <1>2, <2>1
<1>3. ASSUME NEW c \in Callers, g[c] = "refused" PROVE c \notin t.done
  <2>1. CASE c \in OfKind("message")
    <3>1. c \in Messages /\ c \notin OfKind("write")
      BY <2>1, KindsApart
    <3> QED
      BY <1>1, <3>1, NoMessageIsDone
  <2>2. CASE f[c] = "refused" /\ c \notin Elements(requests) \cap OfKind("write")
    BY <1>1, <2>2 DEF Kept
  <2> QED
    BY <1>3, <2>1, <2>2
<1>4. Kept(t, g, l)
  BY <1>1, <1>2, <1>3, KeptStays
<1> QED
  BY <1>4 DEF t

(* Those who wait for a crank are told the truth when it ends.             *)
LEMMA FinishedKept ==
    ASSUME TypeOK, loop # "failed", pc # "delivering", VerdictFits, WorkIsApart,
           DoneWaiters, Outcomes, Kept(store, told, loop)
    PROVE  Kept(store, TellFinished, loop)
<1>1. /\ taken \subseteq Work /\ due.answered \subseteq OfKind("terminate")
      /\ controlInFlight \in OfKind("control") \cup {NoOne}
      /\ taken \subseteq Waiting /\ verdict.reply \in {"answered", "refused"}
      /\ taken \subseteq OfKind(item.kind)
  BY ListKinds DEF TypeOK, VerdictType, WorkIsApart
<1>2. ASSUME NEW c \in Callers, TellFinished[c] = "answered"
      PROVE  told[c] = "answered" \/ DoneIn(c, store, loop)
  <2>1. CASE c \in due.answered
    <3>1. Kind[c] = "terminate" /\ store.vatDead
      BY <1>1, <2>1 DEF OfKind, Outcomes
    <3> QED
      BY <3>1 DEF DoneIn
  <2>2. CASE c = controlInFlight
    <3>1. c \in store.done /\ Kind[c] = "control"
      BY <1>1, <2>2, CallersAssumption DEF Outcomes, OfKind
    <3> QED
      BY <3>1 DEF DoneIn
  <2>3. CASE c \in taken /\ verdict.afterCommit /\ verdict.reply = "answered"
    <3>1. c \in store.done /\ item.kind # "terminate" /\ Kind[c] = item.kind
      BY <1>1, <2>3 DEF Outcomes, Succeeds, VerdictFits, OfKind
    <3>2. Kind[c] # "stop"
      BY <1>1, <2>3 DEF Work, OfKind
    <3> QED
      BY <3>1, <3>2 DEF DoneIn
  <2> QED
    BY <1>2, <2>1, <2>2, <2>3, FinishedTells
<1>3. ASSUME NEW c \in Callers, TellFinished[c] = "refused"
      PROVE  c \notin store.done
  <2>1. CASE told[c] = "refused"
    BY <2>1 DEF Kept
  <2>2. CASE c \in due.refused
    BY <2>2 DEF Outcomes
  <2>3. CASE c \in taken /\ verdict.afterCommit /\ verdict.reply = "refused"
    <3>1. c \notin AboutToBeTold
      <4>1. due.answered = {} /\ ~Succeeds
        BY <2>3 DEF Outcomes, NobodyDue, Succeeds
      <4>2. c # controlInFlight
        BY <1>1, <2>3, EveryKind, CallersAssumption
      <4> QED
        BY <4>1, <4>2 DEF AboutToBeTold
    <3> QED
      BY <1>1, <2>3, <3>1 DEF DoneWaiters
  <2> QED
    BY <1>3, <2>1, <2>2, <2>3, FinishedTells
<1>4. Grown(store, store)
  BY DEF Grown
<1> QED
  BY <1>2, <1>3, <1>4, KeptStays

(* The death of the loop refuses only what is not done.                    *)
LEMMA DeathKept ==
    ASSUME TypeOK, NEW s, NEW f, FailRunLoop(s, f), Kept(s, f, loop),
           due.answered # {} => s.vatDead,
           \A c \in Callers : f[c] = "waiting" /\ c \in s.done => c \in due.answered
    PROVE  Kept(store', told', loop')
<1>1. /\ store' = s /\ loop' = "failed"
      /\ told' = [c \in Callers |->
                  IF f[c] # "waiting" THEN f[c]
                  ELSE IF c \in due.answered THEN "answered"
                  ELSE IF Kind[c] = "stop" /\ ending THEN "answered"
                  ELSE IF c \in Bereaved THEN "refused"
                  ELSE f[c]]
  BY DEF FailRunLoop
<1>2. ASSUME NEW c \in Callers, told'[c] = "answered"
      PROVE  f[c] = "answered" \/ DoneIn(c, store', loop')
  <2>1. CASE c \in due.answered
    <3>1. Kind[c] = "terminate" /\ s.vatDead
      BY <2>1, ListKinds DEF OfKind
    <3> QED
      BY <1>1, <3>1 DEF DoneIn
  <2>2. CASE Kind[c] = "stop"
    BY <1>1, <2>2 DEF DoneIn, Over
  <2> QED
    BY <1>1, <1>2, <2>1, <2>2
<1>3. ASSUME NEW c \in Callers, told'[c] = "refused" PROVE c \notin store'.done
  BY <1>1, <1>3 DEF Kept
<1>4. Grown(s, store') /\ loop' \in Over
  BY <1>1 DEF Grown, Over
<1> QED
  BY <1>2, <1>3, <1>4, KeptStays

LEMMA UnaskedUndone ==
    ASSUME FateInv, NEW c \in Callers, told[c] = "unasked"
    PROVE  c \notin store.done \cup savepoint.done
BY DEF FateInv, StoresAreSound, Sound, Absent, Fresh, Unasked

(* Outside its turn, the loop's callers are told nothing but the truth.    *)
LEMMA OutsideTrue ==
    ASSUME FateInv, ParkInv, HandsAreEmpty, DoneIsWork, DoneWaiters, ToldIsTrue,
           \/ Ask
           \/ AcceptRemoteInbound
           \/ \E m \in Messages : ServiceReplies(m)
           \/ StopKernel
           \/ UNCHANGED vars
    PROVE  ToldIsTrue'
<1>1. /\ TypeOK /\ store \in StoreType /\ told \in [Callers -> Fates]
      /\ Grown(store, store) /\ Grown(savepoint, savepoint)
  BY FateTypes, ToldTypes DEF FateInv, Grown
<1>2. UNCHANGED <<loop, pc, verdict, rollbackAllowed, savepoint>>
  BY DEF Ask, Request, EnqueueControl, EndRunLoop, AcceptRemoteInbound,
     ServiceReplies, StopKernel, vars, runVars, crankVars
<1>3. Revocable' = Revocable
  BY <1>2 DEF Revocable
<1>4. ASSUME UNCHANGED store,
             \A d \in Callers :
                \/ told'[d] = told[d]
                \/ told'[d] = "answered" /\ loop \in Over /\ Kind[d] = "stop"
                \/ told'[d] = "refused" /\ d \notin store.done \cup savepoint.done
                \/ told'[d] = "waiting"
      PROVE  ToldIsTrue'
  <2>1. ASSUME NEW d \in Callers, loop \in Over, Kind[d] = "stop", NEW s
        PROVE  DoneIn(d, s, loop)
    BY <2>1 DEF DoneIn
  <2>2. Kept(store, told', loop)
    BY <1>1, <1>4, <2>1 DEF ToldIsTrue, Kept
  <2>3. Revocable => Kept(savepoint, told', loop)
    BY <1>1, <1>4, <2>1 DEF ToldIsTrue, Kept
  <2> QED
    BY <1>2, <1>3, <1>4, <2>2, <2>3 DEF ToldIsTrue
<1>5. ASSUME NEW c \in Callers, Request(c) PROVE ToldIsTrue'
  <2>1. /\ told[c] = "unasked" /\ c \notin store.done \cup savepoint.done
    BY <1>5, UnaskedUndone DEF Request
  <2>2. CASE /\ UNCHANGED store
             /\ told' \in {[told EXCEPT ![c] = "refused"], [told EXCEPT ![c] = "waiting"]}
    BY <1>1, <1>4, <2>1, <2>2
  <2>3. CASE ~InCrank /\ WriteRequests(<<c>>, store, [told EXCEPT ![c] = "waiting"])
    <3>1. PICK missing \in Missing(<<c>>) : store' = Written(<<c>>, missing, store)
      BY <2>3 DEF WriteRequests
    <3>2. missing \subseteq OfKind("message")
      BY DEF Missing
    <3>3. Kept(store, [told EXCEPT ![c] = "waiting"], loop)
      BY <1>1 DEF ToldIsTrue, Kept
    <3>4. \A d \in Callers :
             \/ /\ told'[d] = [told EXCEPT ![c] = "waiting"][d]
                /\ d \notin Elements(<<c>>) \cap OfKind("write")
             \/ told'[d] = "answered" /\ d \in Elements(<<c>>) \cap OfKind("write")
             \/ told'[d] = "refused" /\ d \in OfKind("message")
      BY <2>3, WrittenTells
    <3>5. Kept(Written(<<c>>, missing, store), told', loop)
      BY <1>1, <3>2, <3>3, <3>4, WrittenKept DEF DoneIsWork
    <3>6. ~Revocable
      BY <2>3 DEF InCrank, Revocable
    <3> QED
      BY <1>2, <1>3, <3>1, <3>5, <3>6 DEF ToldIsTrue
  <2> QED
    BY <1>5, <2>2, <2>3 DEF Request
<1>6. ASSUME NEW c \in Callers, EnqueueControl(c) PROVE ToldIsTrue'
  <2>1. /\ c \notin store.done \cup savepoint.done /\ UNCHANGED store
        /\ told' \in {[told EXCEPT ![c] = "refused"], [told EXCEPT ![c] = "waiting"]}
    BY <1>6, UnaskedUndone DEF EnqueueControl
  <2> QED
    BY <1>1, <1>4, <2>1
<1>7. ASSUME NEW c \in Callers, EndRunLoop(c) PROVE ToldIsTrue'
  <2>1. /\ c \notin store.done \cup savepoint.done /\ UNCHANGED store
        /\ Kind[c] = "stop" /\ \A d \in Callers \ {c} : told'[d] = told[d]
        /\ \/ told'[c] = "answered" /\ loop \in Over
           \/ told'[c] \in {"waiting", "refused"}
    BY <1>1, <1>7, UnaskedUndone DEF EndRunLoop, TypeOK, Over
  <2> QED
    BY <1>4, <2>1
<1>8. CASE AcceptRemoteInbound \/ UNCHANGED vars
  BY <1>4, <1>8 DEF AcceptRemoteInbound, vars
<1>9. ASSUME NEW m \in Messages, ServiceReplies(m) PROVE ToldIsTrue'
  <2>1. Kind[m] = "service"
    BY <1>1, <1>9 DEF ServiceReplies, TypeOK, OfKind
  <2>2. Grown(store, store') /\ store'.done = store.done
    BY <1>1, <1>9 DEF ServiceReplies, StoreType, Grown
  <2>3. ASSUME NEW c \in Callers
        PROVE  told'[c] = told[c] \/ (told'[c] = "answered" /\ Kind[c] = "service")
    <3>1. CASE UNCHANGED told
      BY <3>1
    <3>2. CASE told' = Tell(told, {m} \cap subscriptions, "answered")
      <4>1. told'[c] = IF c \in {m} \cap subscriptions THEN "answered" ELSE told[c]
        BY <3>2, TellTells
      <4> QED
        BY <2>1, <4>1
    <3> QED
      BY <1>9, <3>1, <3>2 DEF ServiceReplies
  <2>4. Kept(store', told', loop)
    BY <2>2, <2>3, KeptStays DEF ToldIsTrue, Kept
  <2>5. Revocable => Kept(savepoint, told', loop)
    BY <2>3 DEF ToldIsTrue, Kept
  <2> QED
    BY <1>2, <1>3, <2>4, <2>5 DEF ToldIsTrue
<1>10. CASE StopKernel
  <2>1. UNCHANGED store /\ ~InCrank /\ due = NobodyDue /\ taken = {}
        /\ controlInFlight = NoOne
    BY <1>10 DEF StopKernel, HandsAreEmpty, InCrank
  <2>2. AboutToBeTold \subseteq {NoOne}
    BY <2>1 DEF AboutToBeTold, NobodyDue
  <2>3. Waiting \cap store.done = {}
    BY <2>2, CallersAssumption DEF DoneWaiters, Waiting
  <2>4. \A d \in Callers :
           told'[d] = IF d \in (subscriptions \cup atWork \cup superseded)
                                   \cap Waiting
                      THEN "refused" ELSE told[d]
    BY <1>10, TellTells DEF StopKernel
  <2>5. Kept(store, told', loop)
    BY <2>3, <2>4 DEF ToldIsTrue, Kept
  <2>6. ~Revocable
    BY <2>1 DEF InCrank, Revocable
  <2> QED
    BY <1>2, <1>3, <2>1, <2>5, <2>6 DEF ToldIsTrue
<1> QED
  BY <1>5, <1>6, <1>7, <1>8, <1>9, <1>10 DEF Ask

LEMMA DeliverTrue ==
    ASSUME FateInv, HandsAreEmpty, VerdictFits, DoneIsWork, WorkIsApart,
           ControlsStand, DoneWaiters, ToldIsTrue, Deliver
    PROVE  ToldIsTrue'
<1>1. /\ TypeOK /\ store \in StoreType
      /\ pc = "delivering" /\ pc' = "delivered" /\ Revocable
      /\ UNCHANGED <<loop, savepoint>> /\ loop # "failed"
  <2>1. /\ pc = "delivering" /\ pc' = "delivered" /\ UNCHANGED <<loop, savepoint>>
    BY DEF Deliver, DeliverSend, DeliverLater, Splat, DeliverKernelServiceMessage,
       DeliverOther, PerformVatRestart, PerformVatTermination, PerformControl,
       Returns
  <2> QED
    BY <2>1, FateTypes DEF FateInv, HandsAreEmpty, Revocable
<1>2. Waiting \cap (store.done \cup savepoint.done) = {}
  <2>1. due = NobodyDue /\ ~Succeeds
    BY <1>1 DEF HandsAreEmpty, VerdictFits, Verdict, Succeeds
  <2> QED
    BY <1>1, <2>1 DEF DoneWaiters, AboutToBeTold, NobodyDue
<1>3. /\ Grown(store, store')
      /\ store'.done \subseteq store.done \cup taken \cup {controlInFlight}
  BY <1>1, DeliverGrows
<1>4. ASSUME NEW c \in subscriptions \cup Elements(held) \cup atWork \cup superseded,
             c \in Callers, item.kind = "control"
      PROVE  c \notin store.done \cup savepoint.done \cup {item.who}
  <2>1. item.who \in OfKind("control")
    BY <1>1, <1>4, ListKinds, ItemFields DEF VerdictFits, TypeOK, ItemsType, ItemType
  <2>2. CASE c \in subscriptions
    <3>1. c \in Messages /\ c \notin OfKind("control")
      BY <1>1, <2>2, ListKinds, EveryKind
    <3> QED
      BY <2>1, <3>1, NoMessageIsDone DEF DoneIsWork
  <2>3. CASE c \in Elements(held)
    <3>1. c \in Fresh
      BY <2>3 DEF Fresh
    <3> QED
      BY <3>1 DEF FateInv, FreshIsApart, StoresAreSound, Sound, Absent
  <2>4. CASE c \in atWork \cup superseded
    <3>1. c \in Waiting /\ c \in Work
      BY <1>1, <2>4, ListKinds DEF WorkIsApart
    <3> QED
      BY <1>2, <2>1, <3>1, EveryKind
  <2> QED
    BY <2>2, <2>3, <2>4
<1>5. ASSUME NEW c \in Callers, told'[c] = "answered", told[c] # "answered"
      PROVE  DoneIn(c, store', loop) /\ ~Revocable'
  <2>1. c \in Messages /\ c \in store'.resolved /\ verdict'.irrevocable
    BY <1>1, <1>5, DeliverTells
  <2> QED
    BY <1>1, <2>1, ResolvedIsDone DEF Revocable
<1>6. ASSUME NEW c \in Callers, told'[c] = "refused"
      PROVE  c \notin store'.done /\ c \notin savepoint.done
  <2>1. CASE told[c] = "refused"
    <3>1. c \notin store.done \cup savepoint.done
      BY <1>1, <2>1 DEF ToldIsTrue, Kept
    <3>2. c \notin taken
      BY <1>1, <2>1 DEF WorkIsApart, Waiting
    <3>3. c # controlInFlight
      BY <2>1 DEF ControlsStand
    <3> QED
      BY <1>3, <3>1, <3>2, <3>3
  <2>2. CASE told[c] # "refused"
    <3>1. /\ item.kind = "control" /\ store'.done = store.done \cup {item.who}
          /\ c \in subscriptions \cup Elements(held) \cup atWork \cup superseded
      BY <1>1, <1>6, <2>2, DeliverTells
    <3> QED
      BY <1>4, <3>1
  <2> QED
    BY <2>1, <2>2
<1>7. Kept(store', told', loop')
  BY <1>1, <1>3, <1>5, <1>6, KeptStays DEF ToldIsTrue
<1>8. Revocable' => Kept(savepoint', told', loop')
  <2>1. Grown(savepoint, savepoint')
    BY <1>1 DEF Grown
  <2> QED
    BY <1>1, <1>5, <1>6, <2>1, KeptStays DEF ToldIsTrue
<1> QED
  BY <1>7, <1>8 DEF ToldIsTrue

(* So it is through the loop's turn.                                       *)
LEMMA TurnTrue ==
    ASSUME FateInv, ParkInv, HandsAreEmpty, VerdictFits, DoneIsWork, WorkIsApart,
           ControlsStand, DoneWaiters, Outcomes, ToldIsTrue, Turn
    PROVE  ToldIsTrue'
<1>1. /\ TypeOK /\ store \in StoreType /\ savepoint \in StoreType
      /\ told \in [Callers -> Fates] /\ Grown(store, store)
      /\ Grown(savepoint, savepoint)
  BY FateTypes, ToldTypes DEF FateInv, Grown
<1>2. CASE StartLoop \/ WakeUp \/ FinishTurn
  <2>1. /\ UNCHANGED <<store, told>> /\ ~Revocable'
        /\ loop \in Over => loop' \in Over
    BY <1>2 DEF StartLoop, WakeUp, FinishTurn, Revocable, Over
  <2>2. Kept(store', told', loop')
    BY <1>1, <2>1, KeptStays DEF ToldIsTrue, Kept
  <2> QED
    BY <2>1, <2>2 DEF ToldIsTrue
<1>3. CASE StopLoop
  <2>1. /\ store' = store /\ ~Revocable' /\ loop' \in Over
        /\ \A c \in Callers : told'[c] = IF c \in Waiting \cap OfKind("stop")
                                         THEN "answered" ELSE told[c]
    BY <1>3, TellTells DEF StopLoop, Revocable, Over
  <2>2. \A c \in OfKind("stop") : DoneIn(c, store', loop')
    BY <2>1 DEF DoneIn, OfKind
  <2>3. Kept(store', told', loop')
    BY <1>1, <2>1, <2>2, KeptStays DEF ToldIsTrue, Kept
  <2> QED
    BY <2>1, <2>3 DEF ToldIsTrue
<1>4. CASE TakeItem
  <2>1. PICK next : OpenCrank(next)
    BY <1>4 DEF TakeItem, TakeControl, TakeChore, TakeArrival, DequeueRun, Sleep
  <2>2. savepoint' = store /\ UNCHANGED <<told, loop>>
    BY <2>1 DEF OpenCrank
  <2>3. /\ store'.resolved = store.resolved /\ store'.vatDead = store.vatDead
        /\ store'.done = store.done
    BY <1>1, <1>4 DEF TakeItem, TakeControl, TakeChore, TakeArrival, DequeueRun,
       Sleep, StoreType
  <2>4. Kept(store', told, loop)
    <3>1. Grown(store, store') /\ Kept(store, told, loop)
      BY <2>3 DEF Grown, ToldIsTrue
    <3> QED
      BY <2>3, <3>1, KeptStays DEF Kept
  <2> QED
    BY <2>2, <2>4 DEF ToldIsTrue
<1>5. CASE ProcessCrankResult
  <2>1. /\ pc = "delivered" /\ pc' \in {"terminating", "collecting"}
        /\ rollbackAllowed' = ~(verdict.abort \/ verdict.irrevocable)
        /\ UNCHANGED <<loop, verdict, savepoint>>
    BY <1>5 DEF ProcessCrankResult, StillUndoable
  <2>2. ASSUME NEW c \in Callers
        PROVE  \/ told'[c] = told[c]
               \/ told'[c] = "refused" /\ c \in Messages
    <3>1. CASE UNCHANGED told
      BY <3>1
    <3>2. CASE \E lost \in SUBSET subscriptions : told' = Tell(told, lost, "refused")
      <4>1. subscriptions \subseteq Messages
        BY <1>1, ListKinds
      <4> QED
        BY <3>2, <4>1, TellTells
    <3> QED
      BY <1>5, <3>1, <3>2 DEF ProcessCrankResult
  <2>3. ASSUME NEW s, s.done \subseteq Doable, Kept(s, told, loop), Grown(s, s)
        PROVE  Kept(s, told', loop)
    <3>1. \A c \in Messages : c \notin s.done
      BY <2>3, NoMessageIsDone
    <3> QED
      BY <2>2, <2>3, <3>1 DEF Kept
  <2>4. CASE verdict.abort
    <3>1. store' = savepoint /\ Revocable /\ ~Revocable'
      BY <1>5, <2>1, <2>4 DEF ProcessCrankResult, RollbackCrank, VerdictFits,
         Revocable
    <3>2. Kept(savepoint, told', loop)
      BY <1>1, <2>3, <3>1 DEF DoneIsWork, ToldIsTrue
    <3> QED
      BY <2>1, <3>1, <3>2 DEF ToldIsTrue
  <2>5. CASE ~verdict.abort
    <3>1. store' = store /\ (Revocable' => Revocable)
      BY <1>5, <2>1, <2>5 DEF ProcessCrankResult, Revocable
    <3>2. Kept(store, told', loop) /\ (Revocable => Kept(savepoint, told', loop))
      BY <1>1, <2>3 DEF DoneIsWork, ToldIsTrue
    <3> QED
      BY <2>1, <3>1, <3>2 DEF ToldIsTrue
  <2> QED
    BY <2>4, <2>5
<1>6. CASE TerminateVat \/ CollectAndFlush
  <2>1. /\ loop' = loop /\ ~Revocable'
    BY <1>6 DEF TerminateVat, CollectAndFlush, Revocable
  <2>2. Grown(store, store') /\ store'.done = store.done
    <3>1. CASE TerminateVat
      BY <1>1, <3>1, RetiredGrows DEF TerminateVat
    <3>2. CASE CollectAndFlush
      BY <1>1, <3>2 DEF CollectAndFlush, StoreType, Grown
    <3> QED
      BY <1>6, <3>1, <3>2
  <2>3. ASSUME NEW c \in Callers
        PROVE  \/ told'[c] = told[c]
               \/ told'[c] = "answered" /\ c \in Messages /\ c \in store'.resolved
    <3>0. subscriptions \subseteq Messages
      BY <1>1, ListKinds
    <3>1. CASE UNCHANGED told
      BY <3>1
    <3>2. CASE TerminateVat
      <4>1. told'[c] = IF c \in Decided \cap subscriptions THEN "answered" ELSE told[c]
        BY <3>2, TellTells DEF TerminateVat, TellDecided
      <4>2. Decided \subseteq store'.resolved
        BY <1>1, <3>2, RetiredGrows DEF TerminateVat
      <4> QED
        BY <3>0, <4>1, <4>2
    <3>3. CASE told' = Tell(told, resolvedNow \cap subscriptions, "answered")
      <4>1. told'[c] = IF c \in resolvedNow \cap subscriptions THEN "answered" ELSE told[c]
        BY <3>3, TellTells
      <4>2. resolvedNow \subseteq store'.resolved
        BY <2>2 DEF Grown, Outcomes
      <4> QED
        BY <3>0, <4>1, <4>2
    <3> QED
      BY <1>6, <3>1, <3>2, <3>3 DEF CollectAndFlush
  <2>4. Kept(store', told', loop)
    <3>1. ASSUME NEW c \in Callers, told'[c] = "answered"
          PROVE  told[c] = "answered" \/ DoneIn(c, store', loop)
      BY <2>3, <3>1, ResolvedIsDone
    <3>2. ASSUME NEW c \in Callers, told'[c] = "refused" PROVE c \notin store'.done
      BY <2>2, <2>3, <3>2 DEF ToldIsTrue, Kept
    <3> QED
      BY <2>2, <3>1, <3>2, KeptStays DEF ToldIsTrue
  <2> QED
    BY <2>1, <2>4 DEF ToldIsTrue
<1>7. CASE EndCrank
  <2>1. /\ pc = "flushed" /\ WriteRequests(held, store, TellFinished)
        /\ loop' = loop /\ ~Revocable' /\ loop # "failed"
    BY <1>7 DEF EndCrank, Revocable, HandsAreEmpty
  <2>2. PICK missing \in Missing(held) : store' = Written(held, missing, store)
    BY <2>1 DEF WriteRequests
  <2>3. missing \subseteq OfKind("message")
    BY DEF Missing
  <2>4. Kept(store, TellFinished, loop)
    BY <1>1, <2>1, FinishedKept DEF ToldIsTrue
  <2>5. \A c \in Callers :
           \/ told'[c] = TellFinished[c] /\ c \notin Elements(held) \cap OfKind("write")
           \/ told'[c] = "answered" /\ c \in Elements(held) \cap OfKind("write")
           \/ told'[c] = "refused" /\ c \in OfKind("message")
    BY <2>1, WrittenTells
  <2>6. Kept(Written(held, missing, store), told', loop)
    BY <1>1, <2>3, <2>4, <2>5, WrittenKept DEF DoneIsWork
  <2> QED
    BY <2>1, <2>2, <2>6 DEF ToldIsTrue
<1> QED
  BY <1>2, <1>3, <1>4, <1>5, <1>6, <1>7, DeliverTrue DEF Turn

(* And when the loop dies, in a process that lives over a sound store.     *)
LEMMA FaultTrue ==
    ASSUME FateInv, ParkInv, HandsAreEmpty, VerdictFits, DoneIsWork, WorkIsApart,
           DoneWaiters, Outcomes, ToldIsTrue, ~StoreMayFail, ~Crash, Fault
    PROVE  ToldIsTrue'
<1>1. /\ TypeOK /\ store \in StoreType /\ savepoint \in StoreType
      /\ Grown(store, store) /\ Grown(savepoint, savepoint)
  BY FateTypes DEF FateInv, Grown
<1>2. ASSUME NEW s, NEW f, FailRunLoop(s, f), Kept(s, f, loop),
             due.answered # {} => s.vatDead,
             \A c \in Callers : f[c] = "waiting" /\ c \in s.done => c \in due.answered
      PROVE  ToldIsTrue'
  <2>1. Kept(store', told', loop')
    BY <1>1, <1>2, DeathKept
  <2>2. ~Revocable'
    BY <1>2 DEF FailRunLoop, Revocable
  <2> QED
    BY <2>1, <2>2 DEF ToldIsTrue
<1>3. ASSUME NEW s, s.done = store.done, Grown(store, s), FailRunLoop(s, told),
             Waiting \cap store.done \subseteq due.answered
      PROVE  ToldIsTrue'
  <2>1. Kept(s, told, loop)
    BY <1>3, KeptStays DEF ToldIsTrue, Kept
  <2>2. due.answered # {} => s.vatDead
    BY <1>3 DEF Outcomes, Grown
  <2>3. \A c \in Callers : told[c] = "waiting" /\ c \in s.done => c \in due.answered
    BY <1>3 DEF Waiting
  <2> QED
    BY <1>2, <1>3, <2>1, <2>2, <2>3
<1>4. ASSUME \/ pc = "delivering"
             \/ verdict.abort \/ verdict.terminate \/ verdict.irrevocable
             \/ ~InCrank
      PROVE  Waiting \cap store.done \subseteq due.answered
  <2>1. CASE pc = "delivering"
    <3>1. ~Succeeds
      BY <2>1 DEF VerdictFits, Verdict, Succeeds
    <3> QED
      BY <2>1, <3>1 DEF DoneWaiters, AboutToBeTold
  <2>2. CASE verdict.abort \/ verdict.terminate \/ verdict.irrevocable
    <3>1. ~Succeeds /\ controlInFlight = NoOne
      BY <2>2 DEF VerdictFits, Verdict, Succeeds
    <3>2. AboutToBeTold \subseteq due.answered \cup {NoOne}
      BY <3>1 DEF AboutToBeTold
    <3> QED
      BY <3>2, CallersAssumption DEF DoneWaiters, Waiting
  <2>3. CASE ~InCrank
    <3>1. taken = {} /\ controlInFlight = NoOne
      BY <2>3 DEF HandsAreEmpty
    <3>2. AboutToBeTold \subseteq due.answered \cup {NoOne}
      BY <3>1 DEF AboutToBeTold
    <3> QED
      BY <3>2, CallersAssumption DEF DoneWaiters, Waiting
  <2> QED
    BY <1>4, <2>1, <2>2, <2>3
<1>5. CASE CrankThrows
  <2>1. CASE rollbackAllowed
    <3>1. FailRunLoop(savepoint, told) /\ Revocable
      BY <1>5, <2>1 DEF CrankThrows, Revocable
    <3>2. Waiting \cap savepoint.done = {} /\ Kept(savepoint, told, loop)
      BY <3>1 DEF DoneWaiters, ToldIsTrue
    <3>3. due.answered # {} => savepoint.vatDead
      BY <3>1 DEF Outcomes
    <3> QED
      BY <1>2, <3>1, <3>2, <3>3 DEF Waiting
  <2>2. CASE ~rollbackAllowed
    <3>1. FailRunLoop(store, told)
      BY <1>5, <2>2 DEF CrankThrows
    <3>2. Waiting \cap store.done \subseteq due.answered
      BY <1>4, <1>5, <2>2 DEF CrankThrows, VerdictFits
    <3> QED
      BY <1>1, <1>3, <3>1, <3>2
  <2> QED
    BY <2>1, <2>2 DEF FateInv, TypeOK
<1>6. CASE TerminateThrows
  <2>1. PICK s \in {store, Retired(store)} : FailRunLoop(s, told)
    BY <1>6 DEF TerminateThrows
  <2>2. Waiting \cap store.done \subseteq due.answered
    BY <1>4, <1>6 DEF TerminateThrows, VerdictFits
  <2>3. s.done = store.done /\ Grown(store, s)
    BY <1>1, RetiredGrows
  <2> QED
    BY <1>3, <2>1, <2>2, <2>3
<1>7. CASE AfterCommitThrows
  <2>1. FailRunLoop(store, told) /\ ~InCrank
    BY <1>7 DEF AfterCommitThrows, InCrank
  <2> QED
    BY <1>1, <1>3, <1>4, <2>1
<1>8. CASE HeldWriteThrows
  <2>1. PICK n \in 0 .. Len(held) - 1 :
           FailRunLoop(Written(SubSeq(held, 1, n), {}, store),
                       Tell(TellFinished,
                            Elements(SubSeq(held, 1, n)) \cap OfKind("write"),
                            "answered"))
    BY <1>8 DEF HeldWriteThrows
  <2> DEFINE before == SubSeq(held, 1, n)
             writes == Elements(before) \cap OfKind("write")
             s == Written(before, {}, store)
             f == Tell(TellFinished, writes, "answered")
  <2>2. FailRunLoop(s, f)
    BY <2>1
  <2>3. \A c \in Callers : f[c] = IF c \in writes THEN "answered" ELSE TellFinished[c]
    BY TellTells
  <2>4. Grown(store, s) /\ s.done = store.done \cup writes
    BY <1>1, WrittenGrows
  <2>5. Kept(s, f, loop)
    <3>1. pc = "flushed" /\ loop # "failed"
      BY <1>8 DEF HeldWriteThrows, HandsAreEmpty
    <3>2. Kept(store, TellFinished, loop)
      BY <1>1, <3>1, FinishedKept DEF ToldIsTrue
    <3>3. \A c \in Callers :
           \/ f[c] = TellFinished[c] /\ c \notin Elements(before) \cap OfKind("write")
           \/ f[c] = "answered" /\ c \in Elements(before) \cap OfKind("write")
           \/ f[c] = "refused" /\ c \in OfKind("message")
      BY <2>3
    <3> HIDE DEF before, f
    <3> QED
      BY <1>1, <3>2, <3>3, WrittenKept DEF DoneIsWork
  <2> HIDE DEF before, writes, s, f
  <2>6. ASSUME NEW c \in Callers, f[c] = "waiting", c \in s.done
        PROVE  c \in due.answered
    <3>1. TellFinished[c] = "waiting" /\ c \in store.done
      BY <2>3, <2>4, <2>6
    <3>2. /\ told[c] = "waiting" /\ c # controlInFlight
          /\ c \in taken => ~(verdict.afterCommit /\ ~verdict.abort)
      BY <1>1, <3>1, FinishedWaits
    <3>3. c \in AboutToBeTold
      BY <3>1, <3>2 DEF DoneWaiters, Waiting
    <3> QED
      BY <3>2, <3>3 DEF AboutToBeTold, Succeeds, VerdictFits
  <2>7. due.answered # {} => s.vatDead
    BY <2>4 DEF Outcomes, Grown
  <2> QED
    BY <1>2, <2>2, <2>5, <2>6, <2>7
<1>9. ~CommitFails
  BY DEF CommitFails
<1> QED
  BY <1>5, <1>6, <1>7, <1>8, <1>9 DEF Fault

-----------------------------------------------------------------------------

LEMMA KeptInitially == Init => KeptInv
<1> SUFFICES ASSUME Init PROVE KeptInv
  OBVIOUS
<1>1. Waiting = {} /\ EmptyStore.done = {} /\ due = NobodyDue
  BY DEF Init, Waiting, EmptyStore
<1>2. \A c \in Callers : told[c] = "unasked"
  BY DEF Init
<1>3. ToldIsTrue
  BY <1>2 DEF ToldIsTrue, Kept, Init, Revocable
<1>4. DoneIsWork /\ VerdictFits /\ WorkIsApart /\ ControlsStand /\ DoneWaiters
  BY <1>1, <1>2
  DEF Init, DoneIsWork, VerdictFits, Verdict, NoItem, Item, WorkIsApart, AllDue,
      NobodyDue, ControlsStand, DoneWaiters
<1>5. Outcomes
  BY <1>1 DEF Init, Outcomes, NobodyDue, EmptyStore
<1> QED
  BY <1>3, <1>4, <1>5 DEF KeptInv

LEMMA NextKept ==
    ASSUME FateInv, FateInv', ParkInv, OwedInv, OwedInv', KeptInv,
           ~StoreMayFail, [Next]_vars, ~Crash
    PROVE  KeptInv'
<1>1. HandsAreEmpty /\ HandsAreEmpty' /\ WaitersListed' /\ TypeOK
  BY DEF OwedInv, WorkersInv, FateInv
<1>2. VerdictFits' /\ DoneIsWork' /\ ControlsStand' /\ WorkIsApart'
  BY <1>1, NextVerdict, NextDone, NextControls, NextApart DEF KeptInv
<1>3. Outcomes' /\ DoneWaiters'
  BY <1>1, <1>2, NextOutcomes, NextDoneWaiters DEF KeptInv
<1>4. ToldIsTrue'
  BY <1>1, OutsideTrue, TurnTrue, FaultTrue DEF KeptInv, Next
<1> QED
  BY <1>2, <1>3, <1>4 DEF KeptInv

(* A process that dies takes its callers with it, and says so.             *)
LEMMA CrashCounts ==
    ASSUME TypeOK, [Next]_vars, crashes' = 0 PROVE crashes = 0 /\ ~Crash
<1>1. crashes \in Nat
  BY BoundsAssumption DEF TypeOK
<1>2. CASE Crash
  BY <1>1, <1>2 DEF Crash
<1>3. CASE crashes' = crashes
  BY <1>3, <1>1 DEF Crash
<1>4. CASE UNCHANGED vars
  BY <1>3, <1>4 DEF vars
<1>5. CASE Ask \/ AcceptRemoteInbound \/ StopKernel \/ \E m \in Messages : ServiceReplies(m)
  BY <1>3, <1>5 DEF Ask, Request, EnqueueControl, EndRunLoop, AcceptRemoteInbound,
     StopKernel, ServiceReplies
<1>6. CASE Deliver
  BY <1>3, <1>6 DEF Deliver, DeliverSend, DeliverLater, Splat,
     DeliverKernelServiceMessage, DeliverOther, PerformVatRestart,
     PerformVatTermination, PerformControl, Returns
<1>7. CASE TakeItem
  BY <1>3, <1>7 DEF TakeItem, TakeControl, TakeChore, TakeArrival, DequeueRun,
     Sleep, OpenCrank
<1>8. CASE \/ StartLoop \/ StopLoop \/ WakeUp \/ FinishTurn
           \/ ProcessCrankResult \/ TerminateVat \/ CollectAndFlush \/ EndCrank
  BY <1>3, <1>8 DEF StartLoop, StopLoop, WakeUp, FinishTurn, ProcessCrankResult,
     TerminateVat, CollectAndFlush, EndCrank
<1>9. CASE Fault /\ ~Crash
  BY <1>3, <1>9 DEF Fault, CrankThrows, TerminateThrows, CommitFails,
     HeldWriteThrows, AfterCommitThrows, FailRunLoop
<1> QED
  BY <1>2, <1>4, <1>5, <1>6, <1>7, <1>8, <1>9 DEF Next, Turn

(* What is told of anything but a kernel service, and every refusal.       *)
ToldForGood ==
    \A c \in Callers :
        /\ told[c] = "answered" /\ Kind[c] # "service" => IsDone(c)
        /\ told[c] = "refused" => c \notin store.done

LEMMA KeptAnswers == ASSUME KeptInv PROVE ToldForGood
<1>1. ASSUME NEW c \in Callers, DoneIn(c, store, loop) PROVE IsDone(c)
  BY <1>1 DEF DoneIn, IsDone, Over
<1> QED
  BY <1>1 DEF KeptInv, ToldIsTrue, Kept, ToldForGood

(* What a caller has been told stays true of the store, whatever becomes   *)
(* of the crank it was told in, until the process dies and over a store    *)
(* that takes its commits: an answer is of work that is done, a refusal of *)
(* work that is not.  A kernel service's answer is left out, which may     *)
(* come inside a crank that is then undone.                                *)
THEOREM AlwaysToldForGood ==
    ASSUME ~StoreMayFail PROVE Spec => [](crashes = 0 => ToldForGood)
<1> DEFINE Inv == ParkInv /\ WorkInv /\ FateInv /\ OwedInv /\ (crashes = 0 => KeptInv)
<1>1. Init => Inv
  BY ParkedInitially, FateInitially, OwedInitially, KeptInitially
<1>2. Inv /\ [Next]_vars => Inv'
  <2> SUFFICES ASSUME Inv, [Next]_vars PROVE Inv'
    OBVIOUS
  <2>1. (ParkInv /\ WorkInv /\ FateInv /\ OwedInv)'
    BY NextParked, NextFate, NextOwed
  <2>2. ASSUME crashes' = 0 PROVE KeptInv'
    <3>1. crashes = 0 /\ ~Crash
      BY <2>2, CrashCounts DEF FateInv
    <3> QED
      BY <2>1, <3>1, NextKept
  <2> QED
    BY <2>1, <2>2
<1>3. Inv => (crashes = 0 => ToldForGood)
  BY KeptAnswers
<1> HIDE DEF Inv
<1> QED
  BY <1>1, <1>2, <1>3, PTL DEF Spec

(* So every answer is kept, where no kernel service is called.             *)
THEOREM AnswersStayTrue ==
    ASSUME ~StoreMayFail, OfKind("service") = {}
    PROVE  Spec => [](crashes = 0 => AnswersAreKept)
<1>1. ToldForGood => AnswersAreKept
  BY DEF ToldForGood, AnswersAreKept, OfKind
<1>2. Spec => [](crashes = 0 => ToldForGood)
  BY AlwaysToldForGood
<1> QED
  BY <1>1, <1>2, PTL

=============================================================================
