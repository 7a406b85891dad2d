------------------------------ MODULE References ------------------------------
(***************************************************************************)
(* What the kernel store counts: objects, promises, the c-lists of the     *)
(* vats, the run queue, the queues of unresolved promises, reference       *)
(* counts, garbage collection and the death of vats.  One crank is a       *)
(* delivery to a vat, the syscalls the vat makes during it, and the end    *)
(* that keeps or rolls back all of it.                                     *)
(*                                                                         *)
(* A kref is a number: objects first, promises after them, each allocated  *)
(* in order and never again.  A c-list entry is keyed by its kref alone,   *)
(* for erefs and krefs are in one-to-one correspondence.  A message is a   *)
(* result promise and the krefs it carries, a resolution the krefs of its  *)
(* value.                                                                  *)
(***************************************************************************)
EXTENDS Integers, Sequences, FiniteSets, SequencesExt, Ordering

CONSTANTS
    NumVats,        \* the vats are 1..NumVats, in the order the code sorts them
    MaxObjects,     \* bound: kernel objects ever made
    MaxPromises,    \* bound: kernel promises ever made
    MaxRequests,    \* bound: requests from outside the run loop
    MaxSyscalls,    \* bound: syscalls of all the vats
    MaxRefused,     \* bound: syscalls the kernel refuses
    BarePromises,   \* whether a vat may fulfill a promise with a bare promise
    NoOne           \* no vat, no owner, no decider

Vats == 1 .. NumVats
Objects == 1 .. MaxObjects
Promises == MaxObjects + 1 .. MaxObjects + MaxPromises
Krefs == Objects \cup Promises

ASSUME BoundsAreNaturals ==
    /\ {NumVats, MaxObjects, MaxPromises, MaxRequests, MaxSyscalls,
        MaxRefused} \subseteq Nat
    /\ NumVats <= MaxObjects
    /\ BarePromises \in BOOLEAN
    /\ NoOne \notin Vats

IsPromise(k) == k > MaxObjects

(* The root object of a vat, made when it was launched.                    *)
Root(v) == v

VARIABLES
    store,      \* the kernel store, with what the code keeps in RAM over it
    saved,      \* the store as the savepoint of the open crank holds it
    crank,      \* the delivery in progress, or Idle
    verdict,    \* what the last syscall of a vat says of the vat
    running,    \* the vats that have a handle
    alive,      \* whether the run loop is running
    requests,   \* requests made so far
    syscalls,   \* syscalls made so far
    refused     \* syscalls refused so far

vars == <<store, saved, crank, verdict, running, alive,
          requests, syscalls, refused>>

Idle == [vat |-> NoOne, item |-> NoOne]

(***************************************************************************)
(* Counting.  Every operator takes a store and returns one.  A Fail in the *)
(* code is the flag "failed", after which nothing more happens to it.      *)
(***************************************************************************)

(* One step for every element of a sequence, in order: FoldLeft, as a      *)
(* function that a proof can unfold.                                       *)
Each(Step(_, _), s, seq) ==
    LET after[n \in 0 .. Len(seq)] ==
            IF n = 0 THEN s ELSE Step(after[n - 1], seq[n])
    IN  after[Len(seq)]

Raise(s) == [s EXCEPT !.failed = TRUE]

Exists(s, k) == k \in DOMAIN s.object \cup DOMAIN s.promise

Candidate(s, k) ==
    IF Contains(s.free, k) THEN s ELSE [s EXCEPT !.free = Append(@, k)]

SetCounts(s, k, reach, recog) ==
    IF 0 <= reach /\ reach <= recog
    THEN [s EXCEPT !.object[k] = [@ EXCEPT !.reach = reach, !.recog = recog]]
    ELSE Raise(s)

(* incrementRefCount of a reference that reaches what it names.            *)
Charge(s, k) ==
    IF s.failed \/ ~Exists(s, k) THEN Raise(s)
    ELSE IF IsPromise(k) THEN [s EXCEPT !.promise[k].refs = @ + 1]
    ELSE SetCounts(s, k, s.object[k].reach + 1, s.object[k].recog + 1)

(* decrementRefCount; a c-list entry gives back recognition alone.         *)
ReleasePromise(s, k) ==
    IF k \notin DOMAIN s.promise \/ s.promise[k].refs = 0 THEN Raise(s)
    ELSE LET t == [s EXCEPT !.promise[k].refs = @ - 1]
         IN  IF t.promise[k].refs = 0 THEN Candidate(t, k) ELSE t

ReleaseObject(s, k, reach) ==
    IF k \notin DOMAIN s.object THEN s
    ELSE LET r == s.object[k].reach - reach
             g == s.object[k].recog - 1
         IN  SetCounts(IF r = 0 \/ g = 0 THEN Candidate(s, k) ELSE s, k, r, g)

Release(s, k) ==
    IF s.failed THEN s
    ELSE IF IsPromise(k) THEN ReleasePromise(s, k) ELSE ReleaseObject(s, k, 1)

ChargeAll(s, ks) == Each(Charge, s, ks)
ReleaseAll(s, ks) == Each(Release, s, ks)

(***************************************************************************)
(* C-lists.                                                                *)
(***************************************************************************)

Has(s, v, k) == k \in DOMAIN s.clist[v]

ImportsObject(s, v, k) ==
    ~IsPromise(k) /\ s.clist[v][k].dir = "import" /\ k \in DOMAIN s.object

SetReachableFlag(s, v, k) ==
    IF s.failed \/ s.clist[v][k].reach THEN s
    ELSE LET t == [s EXCEPT !.clist[v][k].reach = TRUE]
         IN  IF ImportsObject(s, v, k)
             THEN SetCounts(t, k, s.object[k].reach + 1, s.object[k].recog)
             ELSE t

(* Mutant: an object that loses its last reach is not noted for collection. *)
ClearReachableFlagUnnoted(s, v, k) ==
    IF s.failed \/ ~Has(s, v, k) THEN Raise(s)
    ELSE LET t == [s EXCEPT !.clist[v][k].reach = FALSE]
         IN  IF s.clist[v][k].reach /\ ImportsObject(s, v, k)
             THEN SetCounts(t, k, s.object[k].reach - 1, s.object[k].recog)
             ELSE t

ClearReachableFlag(s, v, k) ==
    IF s.failed \/ ~Has(s, v, k) THEN Raise(s)
    ELSE LET t == [s EXCEPT !.clist[v][k].reach = FALSE]
             r == s.object[k].reach - 1
         IN  IF s.clist[v][k].reach /\ ImportsObject(s, v, k)
             THEN SetCounts(IF r = 0 THEN Candidate(t, k) ELSE t,
                            k, r, s.object[k].recog)
             ELSE t

AddCListEntry(s, v, k, dir) ==
    LET t == [s EXCEPT !.clist[v] =
                 [x \in DOMAIN @ \cup {k} |->
                     IF x = k THEN [dir |-> dir, reach |-> dir = "export"]
                     ELSE @[x]]]
    IN  IF IsPromise(k) THEN Charge(t, k)
        ELSE IF dir = "export" THEN t
        ELSE SetCounts(t, k, s.object[k].reach, s.object[k].recog + 1)

ForgetEntry(s, v, k) ==
    [s EXCEPT !.clist[v] = [x \in DOMAIN @ \ {k} |-> @[x]]]

DeleteCListEntry(s, v, k) ==
    LET cleared  == ClearReachableFlag(s, v, k)
        released == IF IsPromise(k) THEN ReleasePromise(cleared, k)
                    ELSE IF s.clist[v][k].dir = "import"
                    THEN ReleaseObject(cleared, k, 0)
                    ELSE cleared
    IN  IF cleared.failed THEN cleared
        ELSE IF released.failed THEN released
        ELSE ForgetEntry(released, v, k)

(* Handing a reference to a vat, importing it if it is new to the vat.     *)
TranslateRefKtoE(s, v, k) ==
    IF s.failed THEN s
    ELSE IF Has(s, v, k) THEN SetReachableFlag(s, v, k)
    ELSE IF Exists(s, k)
    THEN SetReachableFlag(AddCListEntry(s, v, k, "import"), v, k)
    ELSE Raise(s)

TranslateAllKtoE(s, v, ks) ==
    Each(LAMBDA t, k : TranslateRefKtoE(t, v, k), s, ks)

DeleteCListEntries(s, v, ks) ==
    Each(LAMBDA t, k : DeleteCListEntry(t, v, k), s, ks)

(***************************************************************************)
(* Promises, objects and the queues.                                       *)
(***************************************************************************)

(* Mutant: the number of the next promise is not written back.             *)
InitKernelPromiseUncounted(s, decider) ==
    [s EXCEPT !.promise = [k \in DOMAIN @ \cup {s.nextPromise} |->
                  IF k # s.nextPromise THEN @[k]
                  ELSE [state |-> "unresolved", decider |-> decider,
                        subscribers |-> {}, slots |-> <<>>, queue |-> <<>>,
                        refs |-> 1]]]

InitKernelPromise(s, decider) ==
    [s EXCEPT !.nextPromise = @ + 1,
              !.promise = [k \in DOMAIN @ \cup {s.nextPromise} |->
                  IF k \in DOMAIN @ THEN @[k]
                  ELSE [state |-> "unresolved", decider |-> decider,
                        subscribers |-> {}, slots |-> <<>>, queue |-> <<>>,
                        refs |-> 1]]]

InitKernelObject(s, owner) ==
    [s EXCEPT !.nextObject = @ + 1,
              !.object = [k \in DOMAIN @ \cup {s.nextObject} |->
                  IF k \in DOMAIN @ THEN @[k]
                  ELSE [owner |-> owner, reach |-> 0, recog |-> 0]]]

(* A vat names a reference: one it has, or a new export.                   *)
TranslateRefEtoK(s, v, k) ==
    IF s.failed \/ Has(s, v, k) THEN s
    ELSE IF k = s.nextObject /\ k \in Objects
    THEN AddCListEntry(InitKernelObject(s, v), v, k, "export")
    ELSE IF k = s.nextPromise
    THEN AddCListEntry(InitKernelPromise(s, v), v, k, "export")
    ELSE Raise(s)

TranslateAllEtoK(s, v, ks) ==
    Each(LAMBDA t, k : TranslateRefEtoK(t, v, k), s, ks)

SendItem(target, message) ==
    [type |-> "send", target |-> target, message |-> message]
NotifyItem(v, p) == [type |-> "notify", vat |-> v, kpid |-> p]

(* At once ("immediate"), or with the outputs of the crank ("buffered").   *)
Enqueue(s, item, when) ==
    IF s.failed THEN s
    ELSE IF when = "immediate" THEN [s EXCEPT !.run = Append(@, item)]
    ELSE [s EXCEPT !.buffer = Append(@, item)]

MessageRefs(target, message) == <<target, message.result>> \o message.slots

EnqueueSend(s, target, message, when) ==
    Enqueue(ChargeAll(s, MessageRefs(target, message)),
            SendItem(target, message), when)

EnqueueNotify(s, v, p, when) ==
    Enqueue(Charge(s, p), NotifyItem(v, p), when)

(* Mutant: a message queued on a promise is not charged for what it names. *)
EnqueuePromiseMessageUncharged(s, p, message) ==
    IF s.failed THEN s
    ELSE [s EXCEPT !.promise[p].queue = Append(@, message)]

EnqueuePromiseMessage(s, p, message) ==
    LET t == ChargeAll(s, MessageRefs(p, message))
    IN  IF t.failed THEN t
        ELSE [t EXCEPT !.promise[p].queue = Append(@, message)]

Unresolved(s, p) == p \in DOMAIN s.promise /\ s.promise[p].state = "unresolved"

ReleaseQueue(s, p, queue) ==
    Each(LAMBDA t, m : ReleaseAll(t, MessageRefs(p, m)), s, queue)

(* The promise's own part of a resolution: its queue is emptied, its row   *)
(* settled, and the unit it held while unresolved given back.              *)
ResolveKernelPromise(s, p, state, slots) ==
    LET t == ReleaseQueue(s, p, s.promise[p].queue)
    IN  IF t.failed THEN t
        ELSE Release([t EXCEPT !.promise[p] =
                 [@ EXCEPT !.state = state, !.slots = slots, !.queue = <<>>,
                           !.decider = NoOne, !.subscribers = {}]], p)

NotifyAll(s, vs, p, when) ==
    Each(LAMBDA t, v : EnqueueNotify(t, v, p, when), s, vs)

SendAll(s, p, queue, when) ==
    Each(LAMBDA t, m : EnqueueSend(t, p, m, when), s, queue)

ResolvePromise(s, who, p, state, slots, when) ==
    IF s.failed \/ ~Unresolved(s, p) \/ s.promise[p].decider # who THEN Raise(s)
    ELSE LET told     == InOrder(s.promise[p].subscribers)
             notified == NotifyAll(ChargeAll(s, slots), told, p, when)
             settled  == IF notified.failed THEN notified
                         ELSE ResolveKernelPromise(notified, p, state, slots)
         IN  SendAll(settled, p, s.promise[p].queue, when)

(***************************************************************************)
(* Garbage collection.                                                     *)
(***************************************************************************)

GCAction(v, type, k) == [vat |-> v, type |-> type, kref |-> k]

OrphanKernelObject(s, v, k) ==
    IF s.failed THEN s
    ELSE IF k \notin DOMAIN s.object THEN Candidate(s, k)
    ELSE IF s.object[k].owner \notin {NoOne, v} THEN Raise(s)
    ELSE Candidate([s EXCEPT !.object[k].owner = NoOne], k)

Importers(s, k) ==
    {v \in Vats : Has(s, v, k) /\ s.clist[v][k].dir = "import"}

DeleteKernelObject(s, k) ==
    [s EXCEPT !.object = [x \in DOMAIN @ \ {k} |-> @[x]]]

RetireKernelObject(s, k) ==
    [DeleteKernelObject(s, k) EXCEPT !.actions = @ \cup
        {GCAction(v, "retireImport", k) : v \in Importers(s, k)}]

CollectPromise(s, p) ==
    IF p \notin DOMAIN s.promise THEN Raise(s)
    ELSE IF s.promise[p].refs > 0 THEN s
    ELSE LET t == IF s.promise[p].state = "unresolved" THEN s
                  ELSE ReleaseAll(s, s.promise[p].slots)
         IN  [t EXCEPT !.promise = [x \in DOMAIN @ \ {p} |-> @[x]]]

IsTerminated(s, v) == Contains(s.terminated, v)

(* The owner of an unreachable object is asked to let go of it; one that   *)
(* cannot be asked any more leaves it orphaned.                            *)
AskOwner(s, k) ==
    LET v == s.object[k].owner
    IN  [s EXCEPT !.actions = @
            \cup (IF s.clist[v][k].reach THEN {GCAction(v, "dropExport", k)}
                  ELSE {})
            \cup (IF s.object[k].recog = 0 THEN {GCAction(v, "retireExport", k)}
                  ELSE {})]

DropOrphan(s, k) ==
    IF k \in DOMAIN s.object /\ s.object[k].recog > 0
    THEN RetireKernelObject(s, k) ELSE DeleteKernelObject(s, k)

CollectObject(s, k) ==
    LET v == s.object[k].owner
    IN  IF k \notin DOMAIN s.object THEN s
        ELSE IF s.object[k].reach > 0 THEN s
        ELSE IF v = NoOne THEN DropOrphan(s, k)
        ELSE IF ~Has(s, v, k) THEN DropOrphan(OrphanKernelObject(s, v, k), k)
        ELSE IF IsTerminated(s, v) THEN DropOrphan(ForgetEntry(s, v, k), k)
        ELSE AskOwner(s, k)

(* The candidates in the order they were noted, those noted on the way     *)
(* included, each once.                                                    *)
CollectGarbage(s) ==
    LET pass[n \in 0 .. MaxObjects + MaxPromises] ==
            IF n = 0 THEN s
            ELSE LET t == pass[n - 1]
                 IN  IF t.failed \/ n > Len(t.free) THEN t
                     ELSE IF IsPromise(t.free[n]) THEN CollectPromise(t, t.free[n])
                     ELSE CollectObject(t, t.free[n])
    IN  [pass[MaxObjects + MaxPromises] EXCEPT !.free = <<>>]

(***************************************************************************)
(* The death of a vat, and what becomes of what it held.                   *)
(***************************************************************************)

Unpin(s, k) ==
    IF s.failed \/ s.pins[k] = 0 THEN s
    ELSE Release([s EXCEPT !.pins[k] = @ - 1], k)

DecidedBy(s, v) ==
    {p \in DOMAIN s.clist[v] :
        IsPromise(p) /\ Unresolved(s, p) /\ s.promise[p].decider = v}

RejectAll(s, v, ps) ==
    Each(LAMBDA t, p : ResolvePromise(t, v, p, "rejected", <<>>, "immediate"),
             s, ps)

RetireVat(s, v) ==
    IF v \notin s.configured THEN s
    ELSE LET rejected == RejectAll(s, v, InOrder(DecidedBy(s, v)))
             unpinned == IF Has(s, v, Root(v)) THEN Unpin(rejected, Root(v))
                         ELSE rejected
         IN  [unpinned EXCEPT !.terminated = Append(@, v),
                              !.configured = @ \ {v}]

(* Mutant: the dead vat goes on owning what it exported.                   *)
ForgetExportStillOwned(s, v, k) ==
    IF s.failed \/ k \notin DOMAIN s.object \/ s.object[k].owner # v
    THEN Raise(s)
    ELSE Candidate(ForgetEntry(s, v, k), k)

ForgetExport(s, v, k) ==
    IF s.failed \/ k \notin DOMAIN s.object \/ s.object[k].owner # v
    THEN Raise(s)
    ELSE Candidate(ForgetEntry([s EXCEPT !.object[k].owner = NoOne], v, k), k)

ForgetExports(s, v, ks) ==
    Each(LAMBDA t, k : ForgetExport(t, v, k), s, ks)

(* cleanupTerminatedVat, for the vat that has been dead longest.           *)
CleanupTerminatedVat(s) ==
    IF s.terminated = <<>> THEN s
    ELSE LET v       == Head(s.terminated)
             entry   == s.clist[v]
             exports == {k \in DOMAIN entry :
                            ~IsPromise(k) /\ entry[k].dir = "export"}
             t == ForgetExports(s, v, InOrder(exports))
             u == DeleteCListEntries(t, v, InOrder(DOMAIN entry \ exports))
         IN  IF u.failed THEN u ELSE [u EXCEPT !.terminated = Tail(@)]

(***************************************************************************)
(* What a crank takes: a GC action first, then a reap, then the run queue. *)
(***************************************************************************)

GCTypes == <<"dropExport", "retireExport", "retireImport">>

(* Vats in their order, and under each vat the kinds of action in theirs.  *)
Rank(a) == 3 * a.vat + (CHOOSE i \in 1 .. 3 : GCTypes[i] = a.type)

ShouldProcess(s, a) ==
    LET object == s.object[a.kref]
        entry  == s.clist[a.vat][a.kref]
    IN  /\ Has(s, a.vat, a.kref)
        /\ a.type # "retireImport" =>
              a.kref \in DOMAIN s.object /\ object.reach = 0
        /\ a.type = "dropExport" => entry.reach
        /\ a.type = "retireExport" => object.recog = 0

(* The first group with an action still due; it and those before it are    *)
(* taken off the set.                                                      *)
TakeGCAction(s) ==
    LET due   == {a \in s.actions : ShouldProcess(s, a)}
        first == CHOOSE a \in due : \A b \in due : Rank(a) <= Rank(b)
        group == {a \in due : Rank(a) = Rank(first)}
    IN  IF due = {} THEN [store |-> [s EXCEPT !.actions = {}], item |-> NoOne]
        ELSE [store |-> [s EXCEPT !.actions =
                            {a \in @ : Rank(a) > Rank(first)}],
              item |-> [type |-> first.type, vat |-> first.vat,
                        krefs |-> InOrder({a.kref : a \in group})]]

NextItem(s) ==
    LET gc == TakeGCAction(s)
        t  == gc.store
    IN  IF gc.item # NoOne THEN gc
        ELSE IF t.reaps # <<>>
        THEN [store |-> [t EXCEPT !.reaps = Tail(@)],
              item |-> [type |-> "reap", vat |-> Head(t.reaps)]]
        ELSE IF t.run # <<>>
        THEN [store |-> [t EXCEPT !.run = Tail(@)], item |-> Head(t.run)]
        ELSE [store |-> t, item |-> NoOne]

(***************************************************************************)
(* The router.  Delivering an item yields the store and the vat that is    *)
(* now to act on it, or no vat when the item needed none.                  *)
(***************************************************************************)

Done(s) == [store |-> s, vat |-> NoOne]
HandTo(s, v) == [store |-> s, vat |-> v]

Splat(slots) == [kind |-> "splat", to |-> NoOne, slots |-> slots]
Requeue(k) == [kind |-> "requeue", to |-> k, slots |-> <<>>]

RouteAsSend(s, k) ==
    IF k \notin DOMAIN s.object \/ s.object[k].owner = NoOne THEN Splat(<<>>)
    ELSE [kind |-> "send", to |-> k, slots |-> <<>>]

Route(s, k) ==
    LET p == s.promise[k]
    IN  IF ~IsPromise(k) THEN RouteAsSend(s, k)
        ELSE IF p.state = "unresolved" THEN Requeue(k)
        ELSE IF p.state = "rejected" THEN Splat(p.slots)
        ELSE IF p.slots = <<>> THEN Splat(<<>>)
        ELSE IF ~IsPromise(p.slots[1]) THEN RouteAsSend(s, p.slots[1])
        ELSE IF BarePromises THEN Requeue(p.slots[1])
        ELSE Splat(<<>>)

(* Rejecting the result on behalf of whoever decides it.                   *)
RejectResult(s, message, slots) ==
    IF message.result \notin DOMAIN s.promise THEN Raise(s)
    ELSE ResolvePromise(s, s.promise[message.result].decider, message.result,
                        "rejected", slots, "immediate")

ReleaseMessage(s, item) == ReleaseAll(s, MessageRefs(item.target, item.message))

SendToVat(s, item, k) ==
    LET v == s.object[k].owner
        p == item.message.result
        t == Release([s EXCEPT !.promise[p].decider = v], p)
        u == IF Has(t, v, k) THEN SetReachableFlag(t, v, k) ELSE Raise(t)
    IN  HandTo(TranslateAllKtoE(u, v, Append(item.message.slots, p)), v)

(* Mutant: a message to a vat that is gone is dropped unanswered.          *)
DeliverSendUnanswered(s, item) ==
    LET route == Route(s, item.target)
        m     == item.message
    IN  IF route.kind = "splat"
        THEN Done(ReleaseMessage(RejectResult(s, m, route.slots), item))
        ELSE IF route.kind = "requeue"
        THEN Done(ReleaseMessage(EnqueuePromiseMessage(s, route.to, m), item))
        ELSE IF s.object[route.to].owner \notin running
        THEN Done(ReleaseMessage(s, item))
        ELSE SendToVat(s, item, route.to)

DeliverSend(s, item) ==
    LET route == Route(s, item.target)
        m     == item.message
    IN  IF route.kind = "splat"
        THEN Done(ReleaseMessage(RejectResult(s, m, route.slots), item))
        ELSE IF route.kind = "requeue"
        THEN Done(ReleaseMessage(EnqueuePromiseMessage(s, route.to, m), item))
        ELSE IF s.object[route.to].owner \notin running
        THEN Done(ReleaseMessage(RejectResult(s, m, <<>>), item))
        ELSE SendToVat(s, item, route.to)

Settled(s, p) == p \in DOMAIN s.promise /\ ~Unresolved(s, p)

(* The promise with the settled promises its value leads to.               *)
KpidsToRetire(s, p) ==
    LET reach[n \in 0 .. MaxPromises] ==
            IF n = 0 THEN {p}
            ELSE LET known == reach[n - 1]
                 IN  known \cup {q \in Promises : Settled(s, q) /\
                        \E r \in known : Contains(s.promise[r].slots, q)}
    IN  reach[MaxPromises]

(* What a vat is told of promises: "promise" holds their rows.             *)
TellAll(s, v, promise, ps) ==
    Each(LAMBDA t, p : TranslateAllKtoE(t, v, <<p>> \o promise[p].slots), s, ps)

DeliverNotify(s, item) ==
    LET v       == item.vat
        p       == item.kpid
        t       == Release(s, p)
        targets == InOrder(KpidsToRetire(s, p))
    IN  IF ~Settled(s, p) THEN Done(Raise(s))
        ELSE IF ~Has(s, v, p) \/ v \notin running THEN Done(t)
        ELSE HandTo(TellAll(t, v, s.promise, targets), v)

DropExported(s, v, ks) ==
    Each(LAMBDA t, k : ClearReachableFlag(t, v, k), s, ks)

RetireExported(s, v, ks) ==
    Each(LAMBDA t, k : OrphanKernelObject(DeleteCListEntry(t, v, k), v, k),
             s, ks)

(* Telling a vat to let go is also the kernel letting go.                  *)
DeliverGCAction(s, item) ==
    LET v == item.vat
        t == CASE item.type = "dropExport" -> DropExported(s, v, item.krefs)
               [] item.type = "retireExport" -> RetireExported(s, v, item.krefs)
               [] item.type = "retireImport" -> DeleteCListEntries(s, v, item.krefs)
    IN  IF v \in running THEN HandTo(t, v)
        ELSE IF IsTerminated(s, v) THEN Done(t)
        ELSE Done(s)

Deliver(s, item) ==
    CASE item.type = "send" -> DeliverSend(s, item)
      [] item.type = "notify" -> DeliverNotify(s, item)
      [] item.type = "terminate" -> Done(RetireVat(s, item.vat))
      [] item.type = "reap" ->
            IF item.vat \in running THEN HandTo(s, item.vat) ELSE Done(s)
      [] OTHER -> DeliverGCAction(s, item)

(* Mutant: the result promise is given back a second time.                 *)
AfterDeliveryWithResult(s, item) ==
    IF item.type = "send" THEN ReleaseMessage(s, item) ELSE s

(* What a delivery that succeeded gives back.                              *)
AfterDelivery(s, item) ==
    IF item.type = "send"
    THEN ReleaseAll(s, <<item.target>> \o item.message.slots) ELSE s

Flush(s) ==
    IF s.failed THEN s ELSE [s EXCEPT !.run = @ \o s.buffer, !.buffer = <<>>]

(***************************************************************************)
(* Cranks.  A store that failed outside a syscall is rolled back, and the  *)
(* run loop is dead.                                                       *)
(***************************************************************************)

(* The end of a crank: "before" is what its savepoint holds.               *)
Close(t, before) ==
    /\ store' = IF t.failed THEN before ELSE t
    /\ alive' = ~t.failed
    /\ running' = running \cap store'.configured
    /\ crank' = Idle
    /\ saved' = store'

StartCrank ==
    LET next    == NextItem(store)
        outcome == Deliver(CleanupTerminatedVat(next.store), next.item)
    IN  /\ alive /\ crank = Idle
        /\ IF next.item = NoOne
           THEN next.store # store /\ Close(next.store, store)
           ELSE IF outcome.store.failed \/ outcome.vat = NoOne
           THEN Close(Flush(CollectGarbage(outcome.store)), store)
           ELSE /\ store' = outcome.store
                /\ saved' = store
                /\ crank' = [vat |-> outcome.vat, item |-> next.item]
                /\ UNCHANGED <<running, alive>>
        /\ UNCHANGED <<verdict, requests, syscalls, refused>>

(* The delivery succeeded; an exit without failure ends the vat with it.   *)
EndDelivery ==
    LET v == crank.vat
        t == AfterDelivery(store, crank.item)
    IN  /\ crank # Idle
        /\ verdict[v] \in {"none", "exit"}
        /\ Close(Flush(CollectGarbage(
                     IF verdict[v] = "exit" THEN RetireVat(t, v) ELSE t)), saved)
        /\ UNCHANGED <<verdict, requests, syscalls, refused>>

(* An illegal syscall, an exit with failure, a delivery error or a worker  *)
(* lost during the delivery: rolled back, and the vat ended.               *)
AbortDelivery ==
    /\ crank # Idle
    /\ Close(CollectGarbage(RetireVat(saved, crank.vat)), saved)
    /\ UNCHANGED <<verdict, requests, syscalls, refused>>

(***************************************************************************)
(* Syscalls of the vat being delivered to.  One that fails has the effects *)
(* it had before it failed, and condemns the vat unless another follows.   *)
(***************************************************************************)

Syscall(t) ==
    /\ crank # Idle
    /\ syscalls < MaxSyscalls
    /\ crank.vat \in store.configured
    /\ store' = [t EXCEPT !.failed = FALSE]
    /\ verdict' = [verdict EXCEPT ![crank.vat] =
                      IF t.failed THEN "illegal" ELSE "none"]
    /\ syscalls' = syscalls + 1
    /\ refused' = refused + (IF t.failed THEN 1 ELSE 0)
    /\ refused' <= MaxRefused
    /\ UNCHANGED <<saved, crank, running, alive, requests>>

(* What the vat's liveslots can name: its own exports, imports it has not   *)
(* dropped, or a new object or promise.                                    *)
Nameable ==
    {k \in DOMAIN store.clist[crank.vat] :
        LET entry == store.clist[crank.vat][k]
        IN  entry.reach \/ entry.dir = "export"}

Mentionable ==
    Nameable \cup ({store.nextObject} \cap Objects)
        \cup ({store.nextPromise} \cap Promises)

SlotChoices == {<<>>} \cup {<<k>> : k \in Mentionable}

VatSends ==
    \E target \in Nameable, slots \in SlotChoices :
        LET v == crank.vat
            t == TranslateAllEtoK(store, v, slots)
            m == [result |-> t.nextPromise, slots |-> slots]
        IN  /\ m.result \in Promises
            /\ Syscall(EnqueueSend(TranslateRefEtoK(t, v, m.result),
                                   target, m, "buffered"))

(* A vat leaves the result of a message to the message's recipient.        *)
Messages(items) ==
    {items[i].message : i \in {j \in DOMAIN items : items[j].type = "send"}}

QueuedMessages(s) ==
    Messages(s.run) \cup Messages(s.buffer)
        \cup UNION {ToSet(s.promise[p].queue) : p \in DOMAIN s.promise}

VatResolves ==
    \E p \in (DOMAIN store.clist[crank.vat] \cap Promises)
                \ {m.result : m \in QueuedMessages(store)},
       state \in {"fulfilled", "rejected"}, slots \in SlotChoices :
        /\ state = "rejected" => slots = <<>>
        /\ Syscall(ResolvePromise(TranslateAllEtoK(store, crank.vat, slots),
                                  crank.vat, p, state, slots, "buffered"))

VatSubscribes ==
    \E p \in DOMAIN store.clist[crank.vat] \cap Promises :
        Syscall(IF Unresolved(store, p)
                THEN [store EXCEPT !.promise[p].subscribers = @ \cup {crank.vat}]
                ELSE EnqueueNotify(store, crank.vat, p, "buffered"))

(* A vat's liveslots names its imports in these, never its exports.        *)
Imports == {k \in DOMAIN store.clist[crank.vat] \cap Objects :
               store.clist[crank.vat][k].dir = "import"}

VatDropsImport ==
    \E k \in Imports :
        Syscall(ClearReachableFlag(store, crank.vat, k))

VatRetiresImport ==
    \E k \in Imports :
        Syscall(IF store.clist[crank.vat][k].reach THEN Raise(store)
                ELSE DeleteCListEntry(store, crank.vat, k))

(* retireExports, or abandonExports, which does not ask whether the        *)
(* kernel still reaches the object.                                        *)
ExportCleanup(s, v, k, checkReachable) ==
    IF \/ k \in DOMAIN s.object /\ s.object[k].owner \notin {NoOne, v}
       \/ s.clist[v][k].dir # "export"
       \/ checkReachable /\ s.clist[v][k].reach
    THEN Raise(s)
    ELSE OrphanKernelObject(DeleteCListEntry(s, v, k), v, k)

VatCleansUpExport ==
    \E k \in DOMAIN store.clist[crank.vat] \cap Objects,
       checkReachable \in BOOLEAN :
        Syscall(ExportCleanup(store, crank.vat, k, checkReachable))

VatExits ==
    /\ crank # Idle
    /\ syscalls < MaxSyscalls
    /\ verdict' = [verdict EXCEPT ![crank.vat] = "exit"]
    /\ syscalls' = syscalls + 1
    /\ UNCHANGED <<store, saved, crank, running, alive, requests, refused>>

(***************************************************************************)
(* Requests from outside, written between cranks.                          *)
(***************************************************************************)

Request(t) ==
    /\ alive /\ crank = Idle
    /\ requests < MaxRequests
    /\ store' = t
    /\ saved' = t
    /\ requests' = requests + 1
    /\ UNCHANGED <<crank, verdict, running, alive, syscalls, refused>>

QueueMessage ==
    \E v \in Vats, slots \in {<<>>} \cup {<<Root(w)>> : w \in Vats} :
        LET ks == <<Root(v)>> \o slots
            m  == [result |-> store.nextPromise, slots |-> slots]
        IN  /\ \A i \in DOMAIN ks : Exists(store, ks[i])
            /\ m.result \in Promises
            /\ Request(EnqueueSend(InitKernelPromise(store, NoOne),
                                   Root(v), m, "immediate"))

RequestTermination ==
    \E v \in store.configured :
        Request([store EXCEPT !.run = Append(@, [type |-> "terminate", vat |-> v])])

ScheduleReap ==
    \E v \in running :
        /\ ~Contains(store.reaps, v)
        /\ Request([store EXCEPT !.reaps = Append(@, v)])

(* unpinVatRoot, which notes its candidates between cranks.                *)
UnpinRoot ==
    \E v \in running :
        /\ Has(store, v, Root(v))
        /\ store.pins[Root(v)] > 0
        /\ Request(Unpin(store, Root(v)))

(***************************************************************************)
(* A kernel whose vats have been launched and introduced: each owns its    *)
(* root object, pinned, and imports the roots of the others.               *)
(***************************************************************************)

LaunchedStore ==
    [object   |-> [k \in 1 .. NumVats |->
                      [owner |-> k, reach |-> NumVats, recog |-> NumVats]],
     promise  |-> [p \in {} |-> NoOne],
     clist    |-> [v \in Vats |-> [k \in 1 .. NumVats |->
                      [dir |-> IF k = v THEN "export" ELSE "import",
                       reach |-> TRUE]]],
     pins     |-> [k \in Objects |-> IF k <= NumVats THEN 1 ELSE 0],
     run      |-> <<>>,
     buffer   |-> <<>>,
     reaps    |-> <<>>,
     actions  |-> {},
     free     |-> <<>>,
     terminated  |-> <<>>,
     configured  |-> Vats,
     nextObject  |-> NumVats + 1,
     nextPromise |-> MaxObjects + 1,
     failed      |-> FALSE]

Init ==
    /\ store = LaunchedStore
    /\ saved = store
    /\ crank = Idle
    /\ verdict = [v \in Vats |-> "none"]
    /\ running = Vats
    /\ alive = TRUE
    /\ requests = 0
    /\ syscalls = 0
    /\ refused = 0

Next ==
    \/ StartCrank
    \/ EndDelivery
    \/ AbortDelivery
    \/ crank # Idle /\ VatSends
    \/ crank # Idle /\ VatResolves
    \/ crank # Idle /\ VatSubscribes
    \/ crank # Idle /\ VatDropsImport
    \/ crank # Idle /\ VatRetiresImport
    \/ crank # Idle /\ VatCleansUpExport
    \/ VatExits
    \/ QueueMessage
    \/ RequestTermination
    \/ ScheduleReap
    \/ UnpinRoot

Spec == Init /\ [][Next]_vars

(***************************************************************************)
(* Properties.                                                             *)
(***************************************************************************)

(* The store as it would survive a crash.                                  *)
Committed == IF crank = Idle THEN store ELSE saved

(***************************************************************************)
(* The types.                                                              *)
(***************************************************************************)

IsTable(f, S, R) == DOMAIN f \subseteq S /\ \A k \in DOMAIN f : f[k] \in R

Message == [result : Promises, slots : Seq(Krefs)]

Items ==
    [type : {"send"}, target : Krefs, message : Message]
        \cup [type : {"notify"}, vat : Vats, kpid : Promises]
        \cup [type : {"terminate"}, vat : Vats]

GCKinds == {"dropExport", "retireExport", "retireImport"}

(* What a crank may deliver to a vat.                                      *)
Errands ==
    Items \cup [type : {"reap"}, vat : Vats]
        \cup [type : GCKinds, vat : Vats, krefs : Seq(Objects)]

(* What is to be delivered can be told from nothing to deliver.            *)
ASSUME NoOneIsNoErrand == NoOne \notin Errands

ObjectRows == [owner : Vats \cup {NoOne}, reach : Nat, recog : Nat]

PromiseRows ==
    [state : {"unresolved", "fulfilled", "rejected"},
     decider : Vats \cup {NoOne}, subscribers : SUBSET Vats,
     slots : Seq(Krefs), queue : Seq(Message), refs : Nat]

CListEntries == [dir : {"import", "export"}, reach : BOOLEAN]

StoreTyped(s) ==
    /\ IsTable(s.object, Objects, ObjectRows)
    /\ IsTable(s.promise, Promises, PromiseRows)
    /\ \A v \in Vats : IsTable(s.clist[v], Krefs, CListEntries)
    /\ s.pins \in [Objects -> Nat]
    /\ s.run \in Seq(Items) /\ s.buffer \in Seq(Items)
    /\ s.reaps \in Seq(Vats) /\ s.terminated \in Seq(Vats)
    /\ s.free \in Seq(Krefs)
    /\ s.actions \subseteq [vat : Vats, type : GCKinds, kref : Objects]
    /\ s.configured \subseteq Vats
    /\ {s.nextObject, s.nextPromise} \subseteq Nat
    /\ s.failed \in BOOLEAN

(* Every variable keeps its type.                                          *)
TypeOK ==
    /\ StoreTyped(store) /\ StoreTyped(saved)
    /\ crank \in {Idle} \cup [vat : Vats, item : Errands]
    /\ verdict \in [Vats -> {"none", "illegal", "exit"}]
    /\ running \subseteq Vats /\ alive \in BOOLEAN
    /\ {requests, syscalls, refused} \subseteq Nat

(***************************************************************************)
(* Who holds what: the queues, the crank's outputs, the message being      *)
(* delivered, the values of settled promises, what is owed to unresolved   *)
(* ones, pins, and the c-lists.                                            *)
(***************************************************************************)

Total(numbers) == Each(LAMBDA sum, n : sum + n, 0, numbers)

Uses(ks, k) == Total([i \in DOMAIN ks |-> IF ks[i] = k THEN 1 ELSE 0])

ItemRefs(item) ==
    CASE item.type = "send" -> MessageRefs(item.target, item.message)
      [] item.type = "notify" -> <<item.kpid>>
      [] OTHER -> <<>>

UsesInItems(items, k) ==
    Total([i \in DOMAIN items |-> Uses(ItemRefs(items[i]), k)])

UsesInQueue(p, queue, k) ==
    Total([i \in DOMAIN queue |-> Uses(MessageRefs(p, queue[i]), k)])

UsesInPromise(p, row, k) ==
    Uses(IF row.state = "unresolved" THEN <<p>> ELSE row.slots, k)
        + UsesInQueue(p, row.queue, k)

UsesInPromises(promise, k) ==
    Total([i \in 1 .. MaxPromises |->
              IF MaxObjects + i \in DOMAIN promise
              THEN UsesInPromise(MaxObjects + i, promise[MaxObjects + i], k)
              ELSE 0])

Held(s, k) ==
    UsesInItems(s.run, k) + UsesInItems(s.buffer, k)
        + UsesInPromises(s.promise, k)
        + (IF IsPromise(k) THEN 0 ELSE s.pins[k])

InDelivery ==
    IF crank # Idle /\ crank.item.type = "send"
    THEN <<crank.item.target>> \o crank.item.message.slots ELSE <<>>

Retiring(s, v, k) == GCAction(v, "retireImport", k) \in s.actions

Entries(s, k, how) ==
    Cardinality({v \in Vats :
        /\ Has(s, v, k)
        /\ \/ IsPromise(k)
           \/ /\ s.clist[v][k].dir = "import" /\ ~Retiring(s, v, k)
              /\ how = "reach" => s.clist[v][k].reach})

(* The counts of a kref in a store, if "more" references to it are out of  *)
(* the store.                                                              *)
Counted(s, k, more) ==
    LET strong == Held(s, k) + more + Entries(s, k, "reach")
        weak   == Held(s, k) + more + Entries(s, k, "recog")
    IN  IF ~Exists(s, k) THEN weak = 0
        ELSE IF IsPromise(k) THEN s.promise[k].refs = strong
        ELSE s.object[k].reach = strong /\ s.object[k].recog = weak

(* Counts match holders: at every moment, inside a delivery and between    *)
(* cranks, after syscalls that failed partway and after rollbacks, the     *)
(* count kept with each object and promise is the number of references to  *)
(* it, and nothing still refers to one that is gone.                       *)
CountsMatchHolders ==
    \A k \in Krefs : Counted(store, k, Uses(InDelivery, k))

(* Owners are told: between cranks the owner of an object nobody reaches   *)
(* is about to be told so, unless it was or the next collection will.      *)
(* (What a refused syscall exported before it failed is not noted.)        *)
OwnersAreTold ==
    crank = Idle /\ alive /\ refused = 0 =>
        \A k \in DOMAIN store.object :
            LET row == store.object[k]
            IN  row.reach = 0 /\ row.owner # NoOne /\ ~Contains(store.free, k) =>
                  /\ store.clist[row.owner][k].reach =>
                       GCAction(row.owner, "dropExport", k) \in store.actions
                  /\ row.recog = 0 =>
                       GCAction(row.owner, "retireExport", k) \in store.actions

(* Exports have owners: an object a vat exports is owned by that vat, dead *)
(* or alive, until its c-list lets go of it, and an owner has the entry.   *)
ExportsHaveOwners ==
    \A k \in Objects :
        /\ \A v \in Vats : Has(store, v, k) /\ store.clist[v][k].dir = "export" =>
              k \in DOMAIN store.object /\ store.object[k].owner = v
        /\ k \in DOMAIN store.object /\ store.object[k].owner # NoOne =>
              Has(store, store.object[k].owner, k)

(* Somebody will settle every promise: between cranks an unresolved        *)
(* promise is decided by a vat that is not dead, or is the result of a     *)
(* message that is still to be delivered.                                  *)
EveryPromiseHasADecider ==
    crank = Idle /\ alive => \A p \in DOMAIN store.promise :
        Unresolved(store, p) =>
            \/ store.promise[p].decider \in store.configured
            \/ \E m \in Messages(store.run) : m.result = p
            \/ \E q \in DOMAIN store.promise : /\ Unresolved(store, q)
                    /\ \E m \in ToSet(store.promise[q].queue) : m.result = p

(* A settlement that has been committed stands for as long as its promise  *)
(* exists, whatever vats that die or are rolled back say afterwards.       *)
SettlementsStand ==
    [][LET now  == Committed.promise
           then == Committed'.promise
       IN  \A p \in DOMAIN now \cap DOMAIN then :
             now[p].state # "unresolved" =>
                 then[p].state = now[p].state /\ then[p].slots = now[p].slots]_vars

(* Only settled results kill: whatever vats send, drop or leave behind when *)
(* they die, no count goes below zero, no row is missing and no promise is  *)
(* settled twice outside a syscall, so that the run loop lives -- except    *)
(* for one case, a message that goes splat after its result was settled by  *)
(* the death of its sender, whose rejection of it throws.                   *)
OnlySettledResultsKill ==
    [][alive /\ ~alive' =>
          /\ crank = Idle
          /\ LET item == NextItem(store).item
             IN  item.type = "send" /\ Settled(store, item.message.result)]_vars

(* The run loop survives: a message whose recipient is gone goes splat and  *)
(* the kernel goes on.                                                      *)
RunLoopSurvives == alive
=============================================================================
