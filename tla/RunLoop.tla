------------------------------- MODULE RunLoop -------------------------------
(***************************************************************************)
(* The kernel's run loop (KernelQueue) and the crank transaction it wraps  *)
(* around every delivery.                                                  *)
(*                                                                         *)
(* Each turn of the loop opens a crank, takes one item, delivers it, and   *)
(* ends the crank: its store writes commit together, or are rolled back to *)
(* the savepoint taken before the item was.  Deliveries are asynchronous,  *)
(* so callers and peers come and go while a crank is open.  A request made *)
(* meanwhile is held in memory and written once the crank has ended.       *)
(*                                                                         *)
(* The vat is one vat.  It answers a message in its delivery, or sends     *)
(* itself a follow-up and answers in that one; it may be terminated for an *)
(* illegal syscall or exit by itself.  Arrivals from peers are alike, and  *)
(* counted.  Whatever throws out of a crank kills the loop.                *)
(***************************************************************************)
EXTENDS Naturals, Sequences, FiniteSets, Ordering

CONSTANTS
    Callers,        \* requests, each made at most once
    Kind,           \* what each of them asks for
    MaxArrivals,    \* bound: arrivals waiting at once
    MaxCrashes,     \* bound: deaths of the process
    StoreMayFail,   \* whether the store may refuse a crank's commit
    NoOne           \* no caller

Kinds == {"message", "service", "write", "restart", "terminate", "control",
          "stop"}

ASSUME CallersAssumption == Kind \in [Callers -> Kinds] /\ NoOne \notin Callers
ASSUME BoundsAssumption ==
    /\ MaxArrivals \in Nat
    /\ MaxCrashes \in Nat
    /\ StoreMayFail \in BOOLEAN

OfKind(kind) == {c \in Callers : Kind[c] = kind}
Messages == OfKind("message") \cup OfKind("service")
Work == OfKind("restart") \cup OfKind("terminate")
Requests == Messages \cup OfKind("write") \cup Work

VARIABLES
    loop,           \* #runLoopState
    pc,             \* where the loop is in its turn
    parked,         \* #wakeUpTheRunQueue is armed
    ending,         \* #ending is set
    tookArrivalLast,
    arrivals,       \* #arrivedFromRemotes
    controls,       \* #controlRequests
    controlInFlight,
    held,           \* #heldRequests
    buffer,         \* the crank buffer
    subscriptions,
    resolvedNow,    \* #resolvedWithKernelSubscription
    atWork,         \* #restartWaiters and #terminationWaiters
    superseded,     \* #supersededRestarts
    pendingTerminations,
    taken,          \* the waiters the crank has taken
    due,            \* those to be answered, or refused, once it ends
    serving,        \* service calls whose promise is still to settle
    rollbackAllowed,
    item,           \* what the crank is delivering
    verdict,        \* its CrankResult
    store,          \* what reads see
    savepoint,      \* the store as the open crank found it
    committed,      \* what a restart would find
    told,           \* what each caller has been told
    crashes

arrivalVars == <<tookArrivalLast, arrivals>>
controlVars == <<ending, controls, controlInFlight>>
workVars == <<atWork, superseded, pendingTerminations>>
callVars == <<held, subscriptions, workVars>>
replyVars == <<taken, due>>
crankVars == <<buffer, resolvedNow, replyVars, rollbackAllowed, item, verdict,
               savepoint>>
runVars == <<loop, pc, parked>>
vars == <<runVars, arrivalVars, controlVars, callVars, crankVars, serving,
          store, committed, told, crashes>>

Item(kind, who) == [kind |-> kind, who |-> who]
NoItem == Item("none", NoOne)

EmptyStore ==
    [queue    |-> <<>>,     \* the run queue
     chore    |-> FALSE,    \* a GC or reap action is due
     deciding |-> {},       \* messages delivered and not yet resolved
     resolved |-> {},       \* messages ever resolved
     done     |-> {},       \* writes, work and control ever carried out
     vatDead  |-> FALSE]

NobodyDue == [answered |-> {}, refused |-> {}]

Verdict == [abort |-> FALSE, terminate |-> FALSE, irrevocable |-> FALSE,
            afterCommit |-> FALSE, reply |-> "answered"]

Init ==
    /\ loop = "idle"
    /\ pc = "off"
    /\ parked = FALSE
    /\ ending = FALSE
    /\ tookArrivalLast = FALSE
    /\ arrivals = 0
    /\ controls = <<>>
    /\ controlInFlight = NoOne
    /\ held = <<>>
    /\ buffer = <<>>
    /\ subscriptions = {}
    /\ resolvedNow = {}
    /\ atWork = {}
    /\ superseded = {}
    /\ pendingTerminations = 0
    /\ taken = {}
    /\ due = NobodyDue
    /\ serving = {}
    /\ rollbackAllowed = TRUE
    /\ item = NoItem
    /\ verdict = Verdict
    /\ store = EmptyStore
    /\ savepoint = EmptyStore
    /\ committed = EmptyStore
    /\ told = [c \in Callers |-> "unasked"]
    /\ crashes = 0

InCrank == pc \in {"delivering", "delivered", "terminating", "collecting",
                   "flushed"}

Accepting == loop \in {"idle", "running"}

Elements(seq) == {seq[i] : i \in DOMAIN seq}

Waiting == {c \in Callers : told[c] = "waiting"}

Tell(f, who, what) == [c \in Callers |-> IF c \in who THEN what ELSE f[c]]

TellDue(f) == Tell(Tell(f, due.answered, "answered"), due.refused, "refused")

-----------------------------------------------------------------------------
(* Callers and peers.                                                      *)

QueuedItem(c) == Item(IF c \in Messages THEN "send" ELSE Kind[c], c)

(* Requests written: messages and work join the run queue, a write is made *)
(* at once.  A message whose target is gone by then is refused instead.    *)
Missing(requests) ==
    IF store.vatDead THEN SUBSET (Elements(requests) \cap OfKind("message"))
                     ELSE {{}}

ToQueue(requests, missing) ==
    LET kept == InOrder({i \in DOMAIN requests :
                    Kind[requests[i]] # "write" /\ requests[i] \notin missing})
    IN  [n \in DOMAIN kept |-> QueuedItem(requests[kept[n]])]

Written(requests, missing, s) ==
    [s EXCEPT !.queue = @ \o ToQueue(requests, missing),
              !.done = @ \cup (Elements(requests) \cap OfKind("write"))]

(* Outside a crank, requests are written and durable at once.              *)
WriteRequests(requests, s, f) ==
    \E missing \in Missing(requests) :
        /\ store' = Written(requests, missing, s)
        /\ committed' = store'
        /\ subscriptions' = subscriptions \cup
               ((Elements(requests) \cap Messages) \ missing)
        /\ told' = Tell(Tell(f, Elements(requests) \cap OfKind("write"),
                             "answered"),
                        missing, "refused")

(* The waiter lists, as a request joins them.  A termination overtakes the *)
(* restarts still waiting, and those asked for while it is pending; they   *)
(* are left for its crank to refuse.                                       *)
Overtaken(c) == Kind[c] = "restart" /\ pendingTerminations > 0

AwaitQueuedWork(c) ==
    LET overtaken ==
            CASE Overtaken(c) -> {c}
              [] Kind[c] = "terminate" -> atWork \cap OfKind("restart")
              [] OTHER -> {}
    IN  /\ superseded' = superseded \cup overtaken
        /\ atWork' = (atWork \cup ({c} \cap Work)) \ overtaken
        /\ pendingTerminations' = pendingTerminations +
               (IF Kind[c] = "terminate" THEN 1 ELSE 0)

(* A message, a write, or a vat's restart or termination is asked for.     *)
Request(c) ==
    /\ told[c] = "unasked"
    /\ c \in Requests
    /\ UNCHANGED <<loop, pc, arrivalVars, controlVars, crankVars, serving,
                   crashes>>
    /\ \/ /\ ~Accepting \/ (c \in Work /\ store.vatDead)
          /\ told' = [told EXCEPT ![c] = "refused"]
          /\ UNCHANGED <<parked, callVars, store, committed>>
       \/ /\ Accepting
          /\ c \in Work => ~store.vatDead
          /\ AwaitQueuedWork(c)
          /\ \/ /\ Overtaken(c)
                /\ told' = [told EXCEPT ![c] = "waiting"]
                /\ UNCHANGED <<parked, held, subscriptions, store, committed>>
             \/ /\ ~Overtaken(c) /\ InCrank
                /\ held' = Append(held, c)
                /\ told' = [told EXCEPT ![c] = "waiting"]
                /\ UNCHANGED <<parked, subscriptions, store, committed>>
             \/ /\ ~Overtaken(c) /\ ~InCrank
                /\ WriteRequests(<<c>>, store,
                                 [told EXCEPT ![c] = "waiting"])
                /\ parked' = IF store'.queue = <<>> THEN parked ELSE FALSE
                /\ UNCHANGED held

EnqueueControl(c) ==
    /\ told[c] = "unasked"
    /\ Kind[c] = "control"
    /\ IF loop # "running" \/ ending
       THEN /\ told' = [told EXCEPT ![c] = "refused"]
            /\ UNCHANGED <<controls, parked>>
       ELSE /\ told' = [told EXCEPT ![c] = "waiting"]
            /\ controls' = Append(controls, c)
            /\ parked' = FALSE
    /\ UNCHANGED <<loop, pc, arrivalVars, ending, controlInFlight, callVars,
                   crankVars, serving, store, committed, crashes>>

EndRunLoop(c) ==
    /\ told[c] = "unasked"
    /\ Kind[c] = "stop"
    /\ told' = [told EXCEPT ![c] = CASE loop = "idle" -> "refused"
                                     [] loop = "running" -> "waiting"
                                     [] OTHER -> "answered"]
    /\ ending' = (ending \/ loop = "running")
    /\ parked' = (parked /\ loop # "running")
    /\ UNCHANGED <<loop, pc, arrivalVars, controls, controlInFlight, callVars,
                   crankVars, serving, store, committed, crashes>>

(* Mutant of AcceptRemoteInbound: a loop about to sleep is not woken.      *)
AcceptRemoteInboundQuietly ==
    /\ Accepting
    /\ arrivals < MaxArrivals
    /\ arrivals' = arrivals + 1
    /\ UNCHANGED <<runVars, tookArrivalLast, controlVars, callVars, crankVars,
                   serving, store, committed, told, crashes>>

(* A peer's message is accepted into memory.                               *)
AcceptRemoteInbound ==
    /\ Accepting
    /\ arrivals < MaxArrivals
    /\ arrivals' = arrivals + 1
    /\ parked' = FALSE
    /\ UNCHANGED <<loop, pc, tookArrivalLast, controlVars, callVars, crankVars,
                   serving, store, committed, told, crashes>>

(* A kernel service's promise settles, whenever it does: the result is     *)
(* resolved there and then, in whatever crank is open.                     *)
ServiceReplies(m) ==
    /\ m \in serving
    /\ serving' = serving \ {m}
    /\ IF m \in store.deciding
       THEN /\ store' = [store EXCEPT !.deciding = @ \ {m},
                                      !.resolved = @ \cup {m}]
            /\ committed' = IF InCrank THEN committed ELSE store'
            /\ told' = Tell(told, {m} \cap subscriptions, "answered")
            /\ subscriptions' = subscriptions \ {m}
       ELSE UNCHANGED <<store, committed, told, subscriptions>>
    /\ UNCHANGED <<runVars, arrivalVars, controlVars, held, workVars, crankVars,
                   crashes>>

-----------------------------------------------------------------------------
(* Death of the loop.                                                      *)

(* Mutant of Bereaved: requests held for the crank's end are forgotten.    *)
BereavedButHeld ==
    subscriptions \cup Work \cup Elements(controls) \cup {controlInFlight}

(* Whom the loop's death leaves waiting for what it would have done.       *)
Bereaved ==
    subscriptions \cup Elements(held) \cup Work
        \cup Elements(controls) \cup {controlInFlight}

(* The loop dies leaving `s` in the store, with the callers in `f` already *)
(* told.  Everyone else who would wait for ever is told now, except one    *)
(* whose answer the crank has promised.                                    *)
FailRunLoop(s, f) ==
    /\ loop' = "failed"
    /\ pc' = "off"
    /\ store' = s
    /\ committed' = s
    /\ told' = [c \in Callers |->
                  IF f[c] # "waiting" THEN f[c]
                  ELSE IF c \in due.answered THEN "answered"
                  ELSE IF Kind[c] = "stop" /\ ending THEN "answered"
                  ELSE IF c \in Bereaved THEN "refused"
                  ELSE f[c]]
    /\ subscriptions' = {}
    /\ held' = <<>>
    /\ controls' = <<>>
    /\ controlInFlight' = NoOne
    /\ buffer' = <<>>
    /\ resolvedNow' = {}
    /\ taken' = {}
    /\ due' = NobodyDue
    /\ item' = NoItem
    /\ UNCHANGED <<parked, arrivalVars, ending, workVars, rollbackAllowed,
                   verdict, savepoint, serving, crashes>>

(* A delivery, the collection after it or the audit throws.  The delivery  *)
(* is rolled back while that is still allowed; otherwise what the crank    *)
(* has written so far commits.  After the flush only the audit of a crank  *)
(* that can no longer be undone is left to throw.                          *)
CrankThrows ==
    /\ \/ pc \in {"delivering", "collecting"}
       \/ pc = "flushed" /\ ~rollbackAllowed
    /\ FailRunLoop(IF rollbackAllowed THEN savepoint ELSE store, told)

(* The store refuses the commit and discards the crank.                    *)
CommitFails ==
    /\ StoreMayFail
    /\ pc = "flushed"
    /\ FailRunLoop(committed, told)

AfterCommitThrows ==
    /\ pc = "afterCommit"
    /\ FailRunLoop(store, told)

-----------------------------------------------------------------------------
(* The loop's turn: taking an item.                                        *)

StartLoop ==
    /\ loop = "idle"
    /\ loop' = "running"
    /\ pc' = "top"
    /\ UNCHANGED <<parked, arrivalVars, controlVars, callVars, crankVars,
                   serving, store, committed, told, crashes>>

StopLoop ==
    /\ pc = "top"
    /\ ending
    /\ controls = <<>>
    /\ loop' = "stopped"
    /\ pc' = "off"
    /\ told' = Tell(told, Waiting \cap OfKind("stop"), "answered")
    /\ UNCHANGED <<parked, arrivalVars, controlVars, callVars, crankVars,
                   serving, store, committed, crashes>>

(* A vat's restart or termination takes every caller waiting for one.      *)
TakeWaiters(kind) ==
    /\ taken' = atWork \cap OfKind(kind)
    /\ atWork' = atWork \ taken'

(* A crank opens on the item taken: a control operation before a chore, a  *)
(* chore before the rest, and peers' arrivals and the run queue in turns.  *)
OpenCrank(next) ==
    /\ pc = "top"
    /\ ending => controls # <<>>
    /\ rollbackAllowed' = TRUE
    /\ savepoint' = store
    /\ verdict' = Verdict
    /\ item' = next
    /\ TakeWaiters(next.kind)
    /\ UNCHANGED <<loop, ending, held, subscriptions, superseded,
                   pendingTerminations, buffer, resolvedNow, due, serving,
                   committed, told, crashes>>

Deliverable == pc' = "delivering" /\ UNCHANGED parked

TakeControl ==
    /\ controls # <<>>
    /\ OpenCrank(Item("control", Head(controls))) /\ Deliverable
    /\ controls' = Tail(controls)
    /\ controlInFlight' = Head(controls)
    /\ UNCHANGED <<arrivalVars, store>>

TakeChore ==
    /\ controls = <<>>
    /\ store.chore
    /\ OpenCrank(Item("chore", NoOne)) /\ Deliverable
    /\ store' = [store EXCEPT !.chore = FALSE]
    /\ UNCHANGED <<arrivalVars, controls, controlInFlight>>

NoDuties == controls = <<>> /\ ~store.chore

(* Mutant of ArrivalIsNext: arrivals go first for as long as there are any.*)
ArrivalsFirst == arrivals > 0

ArrivalIsNext == arrivals > 0 /\ (~tookArrivalLast \/ store.queue = <<>>)

TakeArrival ==
    /\ NoDuties
    /\ ArrivalIsNext
    /\ OpenCrank(Item("arrival", NoOne)) /\ Deliverable
    /\ arrivals' = arrivals - 1
    /\ tookArrivalLast' = TRUE
    /\ UNCHANGED <<controls, controlInFlight, store>>

DequeueRun ==
    /\ NoDuties
    /\ ~ArrivalIsNext
    /\ store.queue # <<>>
    /\ OpenCrank(Head(store.queue)) /\ Deliverable
    /\ store' = [store EXCEPT !.queue = Tail(@)]
    /\ tookArrivalLast' = FALSE
    /\ UNCHANGED <<arrivals, controls, controlInFlight>>

(* Nothing to take: the crank ends as it began, and the loop sleeps.       *)
Sleep ==
    /\ NoDuties
    /\ ~ArrivalIsNext
    /\ store.queue = <<>>
    /\ OpenCrank(NoItem)
    /\ pc' = "asleep"
    /\ parked' = TRUE
    /\ tookArrivalLast' = FALSE
    /\ UNCHANGED <<arrivals, controls, controlInFlight, store>>

TakeItem == TakeControl \/ TakeChore \/ TakeArrival \/ DequeueRun \/ Sleep

WakeUp ==
    /\ pc = "asleep"
    /\ ~parked
    /\ pc' = "top"
    /\ UNCHANGED <<loop, parked, arrivalVars, controlVars, callVars, crankVars,
                   serving, store, committed, told, crashes>>

-----------------------------------------------------------------------------
(* The loop's turn: delivering the item.                                   *)

Returns(v) ==
    /\ pc = "delivering"
    /\ pc' = "delivered"
    /\ verdict' = v
    /\ UNCHANGED <<loop, parked, tookArrivalLast, controlVars,
                   rollbackAllowed, item, savepoint, committed, crashes>>

(* How a vat may leave its delivery: alive, in breach of the syscall rules *)
(* or otherwise lost, or having asked to exit.                             *)
VatVerdicts ==
    {Verdict, [Verdict EXCEPT !.abort = TRUE, !.terminate = TRUE],
     [Verdict EXCEPT !.terminate = TRUE]}

(* The vat resolves a message's result: written at once, its caller told   *)
(* when the crank's outputs are flushed.                                   *)
VatResolves(m) ==
    /\ store' = [store EXCEPT !.deciding = @ \ {m}, !.resolved = @ \cup {m}]
    /\ resolvedNow' = resolvedNow \cup ({m} \cap subscriptions)
    /\ UNCHANGED buffer

DeliverSend(m) ==
    /\ item = Item("send", m)
    /\ Kind[m] = "message"
    /\ ~store.vatDead
    /\ \E v \in VatVerdicts : Returns(v)
    /\ \/ VatResolves(m)
       \/ /\ store' = [store EXCEPT !.deciding = @ \cup {m}]
          /\ buffer' = Append(buffer, Item("later", m))
          /\ UNCHANGED resolvedNow
    /\ UNCHANGED <<arrivals, callVars, replyVars, serving, told>>

(* The router rejects a message's result there and then, and tells its     *)
(* caller.                                                                 *)
RejectAtOnce(m) ==
    /\ store' = [store EXCEPT !.resolved = @ \cup {m}]
    /\ told' = Tell(told, {m} \cap subscriptions, "splat")
    /\ subscriptions' = subscriptions \ {m}

(* What the vat has sent itself reaches it; or it has died meanwhile.      *)
DeliverLater(m) ==
    /\ item = Item("later", m)
    /\ IF store.vatDead
       THEN Returns(Verdict) /\ UNCHANGED <<store, buffer, resolvedNow>>
       ELSE /\ \E v \in VatVerdicts : Returns(v)
            /\ VatResolves(m)
    /\ UNCHANGED <<arrivals, callVars, replyVars, serving, told>>

(* A message whose target is gone goes splat, and one the vat cannot be    *)
(* handed is given up on.                                                  *)
Splat(m) ==
    /\ item = Item("send", m)
    /\ Kind[m] = "message"
    /\ Returns(Verdict)
    /\ RejectAtOnce(m)
    /\ UNCHANGED <<arrivals, held, workVars, buffer, resolvedNow, replyVars,
                   serving>>

(* A kernel service is called, and not awaited; or it is no longer there.  *)
DeliverKernelServiceMessage(m) ==
    /\ item = Item("send", m)
    /\ Kind[m] = "service"
    /\ Returns(Verdict)
    /\ \/ /\ serving' = serving \cup {m}
          /\ store' = [store EXCEPT !.deciding = @ \cup {m}]
          /\ UNCHANGED <<told, subscriptions>>
       \/ RejectAtOnce(m) /\ UNCHANGED serving
    /\ UNCHANGED <<arrivals, held, workVars, buffer, resolvedNow, replyVars>>

(* A GC or reap action; a peer's message, which may have to be discarded.  *)
DeliverOther ==
    /\ \/ item.kind = "chore" /\ Returns(Verdict)
       \/ /\ item.kind = "arrival"
          /\ \/ Returns([Verdict EXCEPT !.afterCommit = TRUE])
             \/ Returns([Verdict EXCEPT !.abort = TRUE])
    /\ UNCHANGED <<arrivals, callVars, buffer, resolvedNow, replyVars, serving,
                   store, told>>

(* A restart nobody waits for is dropped, and one of a vat that is gone is *)
(* refused.  One that fails takes the vat with it.                         *)
PerformVatRestart ==
    /\ item.kind = "restart"
    /\ UNCHANGED <<arrivals, callVars, taken, buffer, resolvedNow, serving,
                   told>>
    /\ \/ /\ taken = {}
          /\ Returns(Verdict)
          /\ UNCHANGED <<store, due>>
       \/ /\ taken # {}
          /\ store.vatDead
          /\ Returns([Verdict EXCEPT !.afterCommit = TRUE,
                                     !.reply = "refused"])
          /\ UNCHANGED <<store, due>>
       \/ /\ taken # {}
          /\ ~store.vatDead
          /\ Returns([Verdict EXCEPT !.afterCommit = TRUE])
          /\ store' = [store EXCEPT !.done = @ \cup taken]
          /\ UNCHANGED due
       \/ /\ taken # {}
          /\ ~store.vatDead
          /\ Returns([Verdict EXCEPT !.abort = TRUE, !.terminate = TRUE])
          /\ due' = [due EXCEPT !.refused = taken]
          /\ UNCHANGED store

(* The vat's death, and with it the rejection of every promise it was to   *)
(* decide, whose callers are told at once.                                 *)
Decided == store.deciding \cap OfKind("message")

Retired(s) ==
    [s EXCEPT !.vatDead = TRUE, !.deciding = @ \ OfKind("message"),
              !.resolved = @ \cup Decided]

TellDecided(what) ==
    /\ told' = Tell(told, Decided \cap subscriptions, what)
    /\ subscriptions' = subscriptions \ Decided

(* Mutant of AnswerTermination: restarts it overtook are left waiting.     *)
AnswerTerminationOnly(reply) ==
    /\ pendingTerminations' = pendingTerminations -
           (IF pendingTerminations = 0 THEN 0 ELSE 1)
    /\ due' = IF reply = "answered"
              THEN [answered |-> taken, refused |-> {}]
              ELSE [answered |-> {}, refused |-> taken]
    /\ UNCHANGED <<held, atWork, superseded>>

(* Those who wait for a termination are answered once its crank ends, and  *)
(* the restarts it overtook refused.                                       *)
AnswerTermination(reply) ==
    /\ pendingTerminations' = pendingTerminations -
           (IF pendingTerminations = 0 THEN 0 ELSE 1)
    /\ superseded' = {}
    /\ due' = IF reply = "answered"
              THEN [answered |-> taken, refused |-> superseded]
              ELSE [answered |-> {}, refused |-> taken \cup superseded]
    /\ UNCHANGED <<held, atWork>>

(* A termination is carried out whether or not anyone waits for it, and is *)
(* not undone even when its teardown throws partway.                       *)
PerformVatTermination ==
    /\ item.kind = "terminate"
    /\ UNCHANGED <<arrivals, taken, buffer, resolvedNow, serving>>
    /\ \/ /\ store.vatDead
          /\ Returns(Verdict)
          /\ store' = [store EXCEPT !.done = @ \cup taken]
          /\ AnswerTermination("answered")
          /\ UNCHANGED <<told, subscriptions>>
       \/ /\ ~store.vatDead
          /\ Returns([Verdict EXCEPT !.irrevocable = TRUE])
          /\ store' = Retired([store EXCEPT !.done = @ \cup taken])
          /\ AnswerTermination("answered")
          /\ TellDecided("answered")
       \/ /\ ~store.vatDead
          /\ Returns([Verdict EXCEPT !.irrevocable = TRUE])
          /\ AnswerTermination("refused")
          /\ \/ store' = Retired(store) /\ TellDecided("answered")
             \/ UNCHANGED <<store, told, subscriptions>>

AbandonQueuedWork ==
    /\ atWork' = {}
    /\ superseded' = {}
    /\ pendingTerminations' = 0

(* A control operation terminates every vat, or wipes the store as well    *)
(* and tells everyone whose request is wiped with it.                      *)
PerformControl(c) ==
    /\ item = Item("control", c)
    /\ Returns(Verdict)
    /\ UNCHANGED <<buffer, replyVars, serving>>
    /\ \/ /\ store' = Retired([store EXCEPT !.done = @ \cup {c}])
          /\ TellDecided("splat")
          /\ UNCHANGED <<arrivals, held, workVars, resolvedNow>>
       \/ /\ store' = [EmptyStore EXCEPT !.vatDead = TRUE,
                                         !.resolved = store.resolved,
                                         !.done = store.done \cup {c}]
          /\ told' = Tell(told, subscriptions \cup Elements(held) \cup
                                 atWork \cup superseded, "refused")
          /\ arrivals' = 0
          /\ held' = <<>>
          /\ subscriptions' = {}
          /\ AbandonQueuedWork
          /\ resolvedNow' = {}

Deliver ==
    \/ \E m \in Messages :
        \/ DeliverSend(m)
        \/ DeliverLater(m)
        \/ Splat(m)
        \/ DeliverKernelServiceMessage(m)
    \/ DeliverOther
    \/ PerformVatRestart
    \/ PerformVatTermination
    \/ \E c \in Callers : PerformControl(c)

-----------------------------------------------------------------------------
(* The loop's turn: processing the result and ending the crank.            *)

(* Mutant of RollbackCrank: the crank buffer is not discarded.             *)
RollbackStoreOnly == store' = savepoint /\ UNCHANGED buffer

(* Back to the delivery's savepoint, and its buffered outputs with it.     *)
RollbackCrank == store' = savepoint /\ buffer' = <<>>

(* Mutant of StillUndoable: an irrevocable outcome is not looked for.      *)
StillUndoableUnlessAborted == ~verdict.abort

(* Whether a throw from here on may still undo the delivery: not one that  *)
(* has been, nor one whose outcome must outlive it.                        *)
StillUndoable == ~(verdict.abort \/ verdict.irrevocable)

(* An aborted delivery is rolled back, outputs and all.  If its vat dies   *)
(* of it, the caller awaiting the message is told why.                     *)
ProcessCrankResult ==
    /\ pc = "delivered"
    /\ pc' = IF verdict.terminate THEN "terminating" ELSE "collecting"
    /\ rollbackAllowed' = StillUndoable
    /\ IF verdict.abort
       THEN LET lost == IF verdict.terminate /\ item.kind = "send"
                        THEN {item.who} \cap subscriptions ELSE {}
            IN  /\ RollbackCrank
                /\ resolvedNow' = {}
                /\ told' = Tell(told, lost, "refused")
                /\ subscriptions' = subscriptions \ lost
       ELSE UNCHANGED <<store, buffer, resolvedNow, told, subscriptions>>
    /\ UNCHANGED <<loop, parked, arrivalVars, controlVars, held, workVars,
                   replyVars, item, verdict, savepoint, serving, committed,
                   crashes>>

TerminateVat ==
    /\ pc = "terminating"
    /\ pc' = "collecting"
    /\ store' = Retired(store)
    /\ TellDecided("answered")
    /\ rollbackAllowed' = FALSE
    /\ UNCHANGED <<loop, parked, arrivalVars, controlVars, held, workVars,
                   buffer, resolvedNow, replyVars, item, verdict, savepoint,
                   serving, committed, crashes>>

TerminateThrows ==
    /\ pc = "terminating"
    /\ \E s \in {store, Retired(store)} : FailRunLoop(s, told)

(* Garbage is collected, and may leave an action due; then an unaborted    *)
(* crank's outputs join the run queue and its callers are answered.        *)
CollectAndFlush ==
    /\ pc = "collecting"
    /\ pc' = "flushed"
    /\ \E chore \in {store.chore, item.kind # "chore"} :
          store' = [store EXCEPT !.chore = chore,
                       !.queue = IF verdict.abort THEN @ ELSE @ \o buffer]
    /\ IF verdict.abort
       THEN UNCHANGED <<buffer, resolvedNow, told, subscriptions>>
       ELSE /\ buffer' = <<>>
            /\ resolvedNow' = {}
            /\ told' = Tell(told, resolvedNow \cap subscriptions, "answered")
            /\ subscriptions' = subscriptions \ resolvedNow
    /\ UNCHANGED <<loop, parked, arrivalVars, controlVars, held, workVars,
                   replyVars, rollbackAllowed, item, verdict, savepoint,
                   serving, committed, crashes>>

(* Those waiting for the crank's outcome are told it.                      *)
TellFinished ==
    Tell(Tell(TellDue(told), {controlInFlight}, "answered"),
         IF verdict.afterCommit /\ ~verdict.abort THEN taken ELSE {},
         verdict.reply)

(* The crank commits, what was held is written, and its callers answered.  *)
EndCrank ==
    /\ pc = "flushed"
    /\ pc' = IF verdict.afterCommit /\ ~verdict.abort THEN "afterCommit"
                                                      ELSE "top"
    /\ WriteRequests(held, store, TellFinished)
    /\ held' = <<>>
    /\ taken' = {}
    /\ due' = NobodyDue
    /\ controlInFlight' = NoOne
    /\ item' = NoItem
    /\ UNCHANGED <<loop, parked, arrivalVars, ending, controls, workVars, buffer,
                   resolvedNow, rollbackAllowed, verdict, savepoint, serving,
                   crashes>>

(* A held request cannot be written: those before it have been, and the    *)
(* crank's own callers are answered before the loop dies.                  *)
HeldWriteThrows ==
    /\ pc = "flushed"
    /\ \E n \in 0 .. Len(held) - 1 :
          LET before == SubSeq(held, 1, n)
          IN  FailRunLoop(Written(before, {}, store),
                          Tell(TellFinished,
                               Elements(before) \cap OfKind("write"),
                               "answered"))

FinishTurn ==
    /\ pc = "afterCommit"
    /\ pc' = "top"
    /\ UNCHANGED <<loop, parked, arrivalVars, controlVars, callVars, crankVars,
                   serving, store, committed, told, crashes>>

-----------------------------------------------------------------------------
(* Stopping the kernel, and the death of its process.                      *)

(* Once the loop has ended, the kernel lets go of what it still holds.     *)
StopKernel ==
    /\ loop \in {"stopped", "failed"}
    /\ \E c \in OfKind("stop") : told[c] = "answered"
    /\ \/ arrivals > 0
       \/ subscriptions \cup atWork \cup superseded # {}
       \/ pendingTerminations > 0
    /\ arrivals' = 0
    /\ told' = Tell(told, (subscriptions \cup atWork \cup superseded)
                             \cap Waiting, "refused")
    /\ subscriptions' = {}
    /\ AbandonQueuedWork
    /\ UNCHANGED <<runVars, tookArrivalLast, controlVars, held, crankVars,
                   serving, store, committed, crashes>>

(* The process dies, inside a commit perhaps, and another takes its place  *)
(* over what the store kept.  Its callers have died with it.               *)
Crash ==
    /\ crashes < MaxCrashes
    /\ crashes' = crashes + 1
    /\ committed' \in {committed} \cup (IF pc = "flushed" THEN {store} ELSE {})
    /\ store' = committed'
    /\ loop' = "idle"
    /\ pc' = "off"
    /\ parked' = FALSE
    /\ ending' = FALSE
    /\ tookArrivalLast' = FALSE
    /\ arrivals' = 0
    /\ controls' = <<>>
    /\ controlInFlight' = NoOne
    /\ held' = <<>>
    /\ buffer' = <<>>
    /\ subscriptions' = {}
    /\ resolvedNow' = {}
    /\ AbandonQueuedWork
    /\ taken' = {}
    /\ due' = NobodyDue
    /\ serving' = {}
    /\ rollbackAllowed' = TRUE
    /\ item' = NoItem
    /\ verdict' = Verdict
    /\ savepoint' = EmptyStore
    /\ told' = [c \in Callers |->
                  IF told[c] \in {"waiting", "refused"} THEN "gone"
                                                        ELSE told[c]]

Ask ==
    \E c \in Callers :
        \/ Request(c)
        \/ EnqueueControl(c)
        \/ EndRunLoop(c)

Turn ==
    \/ StartLoop
    \/ StopLoop
    \/ TakeItem
    \/ WakeUp
    \/ Deliver
    \/ ProcessCrankResult
    \/ TerminateVat
    \/ CollectAndFlush
    \/ EndCrank
    \/ FinishTurn

Fault ==
    \/ CrankThrows
    \/ TerminateThrows
    \/ CommitFails
    \/ HeldWriteThrows
    \/ AfterCommitThrows
    \/ Crash

Next ==
    \/ Ask
    \/ AcceptRemoteInbound
    \/ \E m \in Messages : ServiceReplies(m)
    \/ Turn
    \/ StopKernel
    \/ Fault

Spec == Init /\ [][Next]_vars

(* The loop goes on, deliveries and services answer in the end, and the    *)
(* kernel finishes stopping.                                               *)
Fairness ==
    /\ WF_vars(Turn)
    /\ WF_vars(StopKernel)
    /\ \A m \in Messages : WF_vars(ServiceReplies(m))

FairSpec == Spec /\ Fairness

-----------------------------------------------------------------------------

ItemType == [kind : {"send"}, who : Messages]
            \cup [kind : {"later"}, who : OfKind("message")]
            \cup [kind : {"restart"}, who : OfKind("restart")]
            \cup [kind : {"terminate"}, who : OfKind("terminate")]
ItemsType == ItemType
             \cup [kind : {"control"}, who : OfKind("control")]
             \cup [kind : {"none", "chore", "arrival"}, who : {NoOne}]
StoreType == [queue : Seq(ItemType), chore : BOOLEAN,
              deciding : SUBSET Messages, resolved : SUBSET Messages,
              done : SUBSET Callers, vatDead : BOOLEAN]
VerdictType == [abort : BOOLEAN, terminate : BOOLEAN, irrevocable : BOOLEAN,
                afterCommit : BOOLEAN, reply : {"answered", "refused"}]

(* The values the run loop's state ranges over.                            *)
TypeOK ==
    /\ loop \in {"idle", "running", "stopped", "failed"}
    /\ pc \in {"off", "top", "asleep", "delivering", "delivered",
              "terminating", "collecting", "flushed", "afterCommit"}
    /\ parked \in BOOLEAN
    /\ ending \in BOOLEAN
    /\ tookArrivalLast \in BOOLEAN
    /\ arrivals \in 0 .. MaxArrivals
    /\ controls \in Seq(OfKind("control"))
    /\ controlInFlight \in OfKind("control") \cup {NoOne}
    /\ held \in Seq(Requests)
    /\ buffer \in Seq(ItemType)
    /\ subscriptions \in SUBSET Messages
    /\ resolvedNow \in SUBSET Messages
    /\ atWork \in SUBSET Work
    /\ superseded \in SUBSET OfKind("restart")
    /\ pendingTerminations \in Nat
    /\ taken \in SUBSET (Work \cap OfKind(item.kind))
    /\ due \in [answered : SUBSET OfKind("terminate"),
               refused : SUBSET Work]
    /\ serving \in SUBSET OfKind("service")
    /\ rollbackAllowed \in BOOLEAN
    /\ item \in ItemsType
    /\ verdict \in VerdictType
    /\ store \in StoreType
    /\ savepoint \in StoreType
    /\ committed \in StoreType
    /\ told \in [Callers -> {"unasked", "waiting", "answered", "refused",
                            "splat", "gone"}]
    /\ crashes \in 0 .. MaxCrashes

(* No lost wake-up: the loop never sleeps with its wake-up still to come   *)
(* while anything is there for it to do.                                   *)
ParkedMeansIdle ==
    parked =>
        /\ pc = "asleep"
        /\ store.queue = <<>> /\ ~store.chore
        /\ arrivals = 0 /\ controls = <<>> /\ held = <<>>
        /\ ~ending

(* A caller who waits is always owed an answer by something: whatever      *)
(* aborts, dies or is wiped, there is a request, an item or a promise left *)
(* that will settle it.                                                    *)
InHand == Elements(store.queue) \cup Elements(buffer) \cup {item}

Owed(c) ==
    \/ c \in Elements(held) \cup due.answered \cup due.refused
    \/ c \in subscriptions /\ c \in resolvedNow \cup (serving \cap store.deciding)
    \/ c \in subscriptions \cup atWork /\ \E i \in InHand : i.who = c
    \/ c \in taken /\ (pc = "delivering" \/ verdict.afterCommit)
    \/ /\ c \in superseded
       /\ \/ \E i \in InHand : i.kind = "terminate"
          \/ \E i \in Elements(held) : Kind[i] = "terminate"
    \/ c \in Elements(controls) \cup {controlInFlight}
    \/ Kind[c] = "stop" /\ ending /\ loop = "running"

EveryWaiterIsOwed == \A c \in Waiting : Owed(c)

(* What a caller has been told stays true of the store, whatever happens   *)
(* to the crank it was told in: an answer is of work that is done and of a *)
(* promise that is resolved, a refusal of work that is not done.           *)
IsDone(c) ==
    CASE Kind[c] = "stop"      -> loop # "running"
      [] Kind[c] = "terminate" -> store.vatDead
      [] OTHER                 -> c \in store.resolved \cup store.done

AnswersAreKept ==
    \A c \in Callers :
        /\ told[c] = "answered" => IsDone(c)
        /\ told[c] = "refused" => c \notin store.done

(* A message is in one place only of what a restart would find: waiting to *)
(* be delivered, awaiting its vat's follow-up, or resolved.  A delivery    *)
(* neither leaves its message behind nor an undone one its outputs.        *)
Places(m) ==
    {i \in DOMAIN committed.queue : committed.queue[i] = Item("send", m)}

FollowUps(m) ==
    {i \in DOMAIN committed.queue : committed.queue[i] = Item("later", m)}

OneFate ==
    \A m \in Messages :
        /\ Cardinality(Places(m)) + Cardinality(FollowUps(m)) <= 1
        /\ Places(m) # {} => m \notin committed.deciding \cup committed.resolved
        /\ FollowUps(m) # {} => m \notin committed.resolved \/ committed.vatDead

(* Nobody waits for ever, however many messages peers send meanwhile.      *)
EveryoneIsTold ==
    \A c \in Callers : told[c] = "waiting" ~> told[c] # "waiting"

=============================================================================
