# A TLA+ model of the OCAP kernel

This directory specifies the parts of the kernel (`packages/ocap-kernel`) whose
correctness rests on the order of steps rather than on any one function: the
session a kernel keeps with a remote kernel and what a restart of that kernel
does to it, the connections beneath it, the run loop that turns every delivery
into one transaction, the references and promises those transactions count, and
the life of vats in groups. The modules are translated from the source; each
definition's lines are in `PROJECT.json` under `map`. Paths below are under
`packages/ocap-kernel/src/` unless they begin with `docs/`.

Run `tlc -config X.cfg M` for the runs of the table below, and `tlapm M.tla` for
the proofs, where `M` is `Ordering`, `ReferencesCounting` or a module whose name
ends in `Proofs`.

## The system

A kernel runs *vats* and exchanges messages with other kernels. It is one
JavaScript process with an SQLite store. Only one thing happens at a time, but
every `await` lets something else happen: a delivery awaits its vat's worker, a
send awaits the network, and callers, peers and timers come in between.

| Component | State | Operations | Talks to |
|---|---|---|---|
| Run loop (`KernelQueue`) | run queue (store); held requests, arrivals, control requests, subscriptions, crank buffer (memory) | take an item, deliver it, process its result, commit, sleep, wake, die, stop | router, store, everyone who enqueues |
| Router (`KernelRouter`) | none of its own | deliver a message, notify, GC action, arrival; reject what cannot be delivered | vats, remotes, services, vat manager |
| Store (`store/`, `kernel-store`) | key-value rows; savepoints; crank buffer | start and end a crank, roll back, run queue, promises, clists, reference counts, remote sequence state | everything |
| Vat manager (`VatManager`) | running vats; callers waiting for restarts and terminations | launch, restart, terminate, terminate all, reap | run loop |
| Vats (`VatHandle`, `VatSupervisor`, `VatSyscall`) | one worker each | deliver, syscalls, crank result | router, store |
| Kernel services | registered services | invoke, settle a result whenever it settles | run loop |
| Remote (`RemoteHandle`) | two windows over the outgoing queue, a watermark of what was received, timers | number, persist, hand over, acknowledge, retransmit, give up, accept, receive | run loop, transport |
| Subclusters (`SubclusterManager`) | records of groups, the system subcluster's name and root | launch, terminate, restore at a boot | vat manager, run loop, store |
| Remote manager | remotes, peer incarnations | establish, give up, record a peer's restart | remotes, run loop, transport |
| Transport (`remotes/platform`) | channels, reconnection and rate state | dial, accept, send, read, reconnect | network, remote manager |
| Facade (`Kernel`) | stopping | start, stop, clear, reset, queue a message | run loop, managers |

The hard behaviours, each listed as a hazard in `PROJECT.json` at its line: a
crash between two writes; a crank that aborts after something it wrote has been
told to somebody; a request made while a crank is open; copies of messages that
arrive while the original is on its way through; a timer, an acknowledgement
and a give-up at once; and the death of the loop with callers waiting.

What makes each component correct:

* *Run loop*: a crank commits whole or not at all; nobody waits for ever; an
  answer is true of the store; the loop does not sleep on work.
* *Receiving remote*: each message at most once and in order; its effects and
  its number durable together; nothing acknowledged that is not durable.
* *Sending remote*: a committed message stays queued until acknowledged or
  given up on; the chain of sends steps over nothing committed;
  an abandoned message is not sent.
* *Session*: messages take effect in the order made; what the sender retires the
  receiver has recorded; without faults every message arrives.
* *Vat manager*: a restart or termination caller is answered by the crank that
  carried its request out, and a termination is never undone.
* *Store*: reference counts equal references; an owner hears when nobody can
  reach an object; every unresolved promise has somebody to settle it, and it is
  settled once.
* *Remote manager*: nothing of a restarted peer is taken before the restart is
  recorded, a session's order and watermark are its own, nothing meant for the
  old incarnation goes to the new one, and every restart is recorded by one crank.
* *Transport*: the registered channel can be used; a lost connection is either
  pursued or given up on; giving up is final until something new happens.
* *Subclusters*: records, mappings, pins and workers agree through launches and
  terminations whose writes straddle other cranks; the named subcluster is
  served; every call returns.

## Modules

* **`OrderedInbox`** is the abstract promise of a receiver: a log of messages
  with rising numbers and acknowledgements of what is in the log.
* **`RemoteReceiver`** is the receiving half of `RemoteHandle`, with
  `acceptRemoteInbound` and the router's `#deliverRemoteInbound`.
  `ReceiveFromPeer` accepts a message into `arrivals`; `TakeArrival`,
  `ReceiveInbound`, `CommitInbound` and `DiscardInbound` are the steps of its
  crank; `SendStandaloneAck` and `PiggybackAck` send the watermark;
  `RestartReceiver` is a crash and a new handle. `store` is what the open
  transaction reads, `committed` what a restart would. It implements
  `OrderedInbox` with the log of carried-out messages and the acknowledgements
  sent (`ImplementsInbox`).
* **`RemoteSender`** is the sending half. `window` is the handle's
  (`#startSeq`, `#nextSendSeq`), `kv` the store's, and `undo` the store as the
  open crank found it. `DeliverToPeer` and `CommitCrank` are a delivery and its
  `afterCommit`; `SendRemoteCommand` is a redemption request, written and sent
  at once. `FlushTransmitQueue` is the hand-over in order, `StartSend` to
  `SendFailsForGood` are the life of one send of the chain, `HandleAckTimeout`
  and `RetransmitFrom` are retransmission, `GiveUp` is `#rejectAllPending`, and
  `RestartOver` is `#restorePersistedState` with its repair of a half-written
  request, which a kernel leaves that dies between two writes (`SenderDies` of the
  session).
* **`RemoteSession`** extends both and joins them by a stream (`wire`) that
  delivers in order or breaks and loses a suffix, and by acknowledgements that
  may arrive late, again or never.
* **`RunLoop`** is `KernelQueue`'s loop with what the router, the services and
  the vat manager do to it. `Request`, `EnqueueControl`, `EndRunLoop`,
  `AcceptRemoteInbound` and `ServiceReplies` happen between any two of its
  steps. `TakeItem`, `Deliver`, `ProcessCrankResult`, `TerminateVat`,
  `CollectAndFlush`, `EndCrank` and `FinishTurn` are one turn, split where the
  code awaits. `FailRunLoop` is the loop's death. `atWork`, `superseded`,
  `pendingTerminations` and `taken` are the vat manager's waiter lists, and
  `due` the answers it has promised for the crank's end. The vat is one vat,
  whose messages are answered in their delivery or in a follow-up's.
* **`PeerRestart`** is one remote and the lives (incarnations) of its peer.
  `InboundHandshake` and `DialAndWrite` are `remotes/platform/transport.ts`'s
  handshakes, `Observe` the `RemoteManager`'s report of an incarnation with
  `AcceptPeerIncarnation` as the kernel queue's part, `CommitIncarnation` the
  crank that forgets the old session (`applyIncarnationChange`,
  `persistPeerRestart`), and `Finalized` what its `afterCommit` leaves in the
  handle. `mem.held` is the hold on sending; `ahead` the messages taken from
  the queue ahead of the restart that waits. Messages carry the session they
  were made in, a history the code does not have.
* **`Transport`** is the connection of one peer: `Senders` and runs of the
  reconnection loop (`reconnection-lifecycle.ts`) are `Users` of dials, each
  step running from one await to the next. `DialEnds`, `HandshakeEnds` and
  `CloseEnds` are an attempt; `ReadFails`, `ReadAborted`, `ReadEnds` and
  `PeerDisconnects` are the ways a channel's reader ends; `Register`,
  `Unregister`, `CloseConnection`, `ReconnectPeer`, `WakeFromSleep` and
  `CleanupStalePeers` are the transport's other operations. A cleanup removes
  the peer's state object while a dial may hold on to it (`stale`): such a user
  does not recognise the channel since registered (`TakeForNew`), runs an
  outbound handshake on it (`StrayHandshakeEnds`) or closes it (`closedAstray`).
* **`References`** is the store's accounting. `store` is one record (objects,
  promises, c-lists, run queue, pins, actions of the collector, `free` for
  `maybeFreeKrefs`, `buffer` for the crank buffer, `failed` for a thrown
  `Fail`), and each operator on it is a store method: `Charge` and `Release`
  for the counts, `TranslateRefKtoE` and `TranslateRefEtoK` for the
  translators, `ResolvePromise`, `CollectGarbage`, `RetireVat`,
  `CleanupTerminatedVat`. `StartCrank` takes the next item and routes it,
  `VatSends` to `VatExits` are the syscalls, `EndDelivery` and `AbortDelivery`
  close the crank.
* **`Subclusters`** is `SubclusterManager` with the parts of `VatManager` and
  of the boot it calls. `calls` holds the program counters of three
  asynchronous callers, any of which may overlap: two launches and a
  termination. `db` is what reads find, `saved` the savepoint of the open crank,
  so that a caller's write in the middle of another's crank is undone with it;
  `exposed` has the vats whose launch was undone so or shares an id with one
  that was (`IsShared`). `LaunchSubcluster` to `LaunchReturns` are a launch,
  `FailLaunch` its rollback, `TerminateSubcluster` to `EndingEnds` a
  termination, `Crash` to `RemoveSystemSubclusters` a crash and a boot.
* **`Ordering`** puts a finite set of numbers in order, with its lemmas: the
  sender hands rows over, and a session's messages are compared, in that order.
* **`MC...`** modules instantiate these for TLC. The **`...Proofs`** module of a
  component holds its theorems; `RemoteSessionProofs` those of the receiver, the
  sender and the session, in three parts. `ReferencesCounting` holds what the
  operators of `References` do to the counts, on which `ReferencesProofs` rests.

Each mutated operator ("Mutant of ..." or "Mutant: ...") stands before the
definition it is a plausible mistake in, and is used by no behaviour.

### How the parts fit

`RemoteSession` composes sender and receiver by instance and shares their
variables with a wire. The other modules meet at interfaces: what one assumes
is what another shows.

| Assumed in | Of | Shown by |
|---|---|---|
| `RemoteReceiver`, `RemoteSender`: a crank keeps all of its writes or none | run loop | `OneFate` |
| `Subclusters`: a termination asked for is carried out by a crank | run loop | `EveryWaiterIsOwed` |
| `RunLoop`: a delivery, routing and collection either succeed or throw | store | `References`, where throws are the flag `failed` |

## Runs

| Run | Bounds | Shows |
|---|---|---|
| `receiver` | numbers 1..3, 2 slots | the receiver's invariants and that it implements `OrderedInbox` |
| `sender` | 3 messages, capacity 2, 1 retry, 1 fault, requests inside cranks, deaths in or between transactions | nothing committed is forgotten or stepped over; the flush sends nothing abandoned; everything settles |
| `session` | 2 messages, 2 faults, 1 slot, crashes between writes | order, and durability of receipts |
| `session_live` | 2 messages, 2 slots, no faults | everything is delivered or given up on |
| `run_loop` | a message, a write, two restarts, a termination, a control operation, 1 arrival | wake-ups, waiters, answers |
| `run_loop_faults` | a message, a service call, a stop, 1 arrival, 1 crash, failing commits | one fate of a delivery and its outputs; everyone is told |
| `references` | 2 vats, 3 objects, 3 promises, 2 requests, 2 syscalls, 1 refused | counts, owners, deciders, settlements |
| `references_splat` | the same, none refused | *violation*: the run loop dies |
| `peer_restart` | 3 incarnations, 1 number, 1 slot, 1 message made, 2 taken, 1 crash | nothing taken early; each session's order and watermark; one crank per restart |
| `transport` | 1 sender, 2 loops, 2 channels, 1 attempt, 1 restart, 2 turns (a stale-peer cleanup takes both) | pursuit of a loss, the registered channel, the end of reconnecting |
| `subclusters` | 2 members, 4 vats, 2 subclusters, 1 fault, 1 event (a delivery, a throwing end or a crash) | membership, pins, workers, names; calls end |
| `subclusters_overlap` | the same without faults and events, terminating during a launch | *violation*: vats without a subcluster |

Why the bounds are enough:

* The receiver compares a number with one watermark and with the arrivals
  waiting, so three numbers give a message, its copy, and one on either side.
* In `sender`, three messages and room for two give a queue, a request made
  beside a delivery that is written and not handed over, a refusal at capacity,
  and a number used, rolled back and used again. The code has `MAX_RETRIES` 3 and
  larger capacities: they are compared, not computed with. Two faults were also
  checked once, outside the run's time. The kernel dies in a transaction
  or between two, as the properties are not true otherwise (see the boundaries);
  the safety theorems cover any number of messages, faults and retries.
* In `session` the sender's kernel dies between any two writes (`SenderDies`), and
  requests are made outside cranks: requests inside them together with such
  deaths are a boundary below. Inside cranks and without such deaths, `AlwaysTakenInMadeOrder` covers them.
* The loop looks at one item, and one of each kind of caller gives every pair
  of them; two restarts are there because a crank answers all that wait, and
  they are symmetric.
* A count concerns one kref, its holders and one change. Two vats give an owner
  and an importer; the third object is one made by a syscall, the third promise
  one beyond the results of the two requests; two syscalls are one to make a
  state and one to disturb it. What collection frees makes room for nothing
  (krefs are never reused), so longer sequences only repeat it.
* Three incarnations are the recorded one, one whose restart waits, and one
  heard of meanwhile; one slot makes the limit bite. One number, read from the
  channels of two incarnations, is enough for a message to be taken in the wrong
  session or by the wrong watermark; two numbers, for an order within a life,
  were checked once without a crash, and the theorems cover any.
* Two loops are the race of a loop with its successor, two channels that of a
  dialed channel with an inbound one. `Threshold` and `MaxAttempts` at 1 make
  the first failure the last; a restart that keeps the budget is still there. A
  third turn was checked once for the invariants.
* Two members are a bootstrap vat and another; two subclusters of two give the
  four vats: the two launches overlap, and the first one's ids can be handed out
  again to the second. A fault with one event is a loss beside an abort, a crash
  or a throwing end; more of each were checked once for the invariants.

`Callers`, `Max...` and the sets of users bound what the environment does,
never what the code does. Deadlock is not checked where the bounds on the
environment let the system run out of things to do.

### Fairness

* `FairSenderSpec`: a crank ends, the transport is attached, timers fire and a
  send that has started completes (it has a timeout); a peer need never answer,
  and no fault need happen. `FairSessionSpec` adds that the stream delivers and
  the receiver's loop runs.
* `FairSpec` of `RunLoop`: the loop takes its next step, a kernel service
  settles, and a stopping kernel finishes: promises JavaScript settles in the
  end. A delivery that never returns would violate it, and the code has no
  timeout for one.
* `FairSpec` of `PeerRestart`: the run loop takes an arrival and ends its crank.
* `FairSpec` of `Transport`: delays, dials, handshakes and closes end, which
  their timeouts and abort signals ensure.
* `FairSpec` of `Subclusters`: the run loop runs, the asynchronous callers and
  the boot go on, and a worker either starts or fails to.

### What the violations show

* `references_splat` (`RunLoopSurvives`): a vat sends a message and dies before
  it is delivered. Retiring the vat rejects the message's result; when the
  target is gone too, the router rejects it again, which throws outside any
  vat's delivery and ends the run loop; the next start meets the same message.
  The comments expect a splat (`KernelRouter.ts:352-353`). `references` states
  with `OnlySettledResultsKill` that this is the only death in its model.
* `subclusters_overlap` (`EveryVatHasASubcluster`): a subcluster terminated
  while it is being launched loses its record, while the members whose workers
  have not started are skipped, or added only once the ending has looked (the
  shortest trace); they start, and run without a subcluster, which
  `SubclusterManager.ts:278-280` says breaks `getStatus`. `subclusters` therefore
  has `Overlapping` false.

`PROJECT.json` quotes both under `findings`.

### Boundaries met while modelling

Where a model had to say exactly what the code does, it does less in places than
a reader may expect. The properties are stated up to these lines.

Remote session and run loop:

* A redemption request sent inside a crank that aborts has its number handed out
  again (`RemoteHandle.ts:495`, against the comment at 488-491), and the peer may
  hold either message under it.
* After such a rollback the handle's numbers are ahead of the store's, and a
  give-up inside a crank that rolls back leaves them ahead as well. A kernel that
  then dies between the writes of another request (`RemoteHandle.ts:912-929`, where
  "recovery can repair this by scanning") leaves a start above the next number.
  So a request goes out in a crank, the transport gives up, the crank is rolled
  back, the next request is half written, and after the restart a message gets
  number 1 below a start of 2: it is never handed over, no timer is armed, and
  it never settles, though a message is written down "so that a crash between
  here and the peer's acknowledgement does not lose it" (861-862). With three
  messages and such deaths this refutes `EverythingSettles` and `NothingForgotten`,
  and with more `NothingSteppedOver` and `FlushSendsNothingAbandoned`. Therefore
  `SenderNext`, about which these are checked and proved, leaves them to
  `SessionNext`, where `DiesMidWrite` has them.
* With four messages, such deaths and requests inside cranks `TakenInMadeOrder`
  fails too: the row of a half-written request lies above the queue, a request
  that takes its number and is rolled back restores it, and the flush sends the
  older message after a newer one. `session` has no requests inside cranks.
* A retransmission loop under way outlives a give-up (`RemoteHandle.ts:647`), which is
  to "retire the whole queue" (241-243), and may send what an open crank has
  written down, which is not to happen (809-812). So a committed message can be
  lost without being overtaken: a loop that began before a crank outlives a
  give-up inside it, and transmits the message the open crank has just written
  down; the kernel dies, the crank is lost, and its number goes to another
  message. The receiver acknowledges the lost crank's message under that number,
  and the committed one is retired unseen. No property says which messages may
  be lost with faults.
* Delivery is at most once: gaps are not detected, and a message overtaken by a
  later one is acknowledged with it (`KernelQueue.ts:907`; `docs/ken-protocol-assessment.md:136`
  says otherwise). `EverythingDelivered` holds, and is checked, only without
  faults and with a slot for every message.
* An external caller is told of a splat inside a crank that may be rolled back
  (`KernelRouter.ts:222,306,356`), and a service's result written in another
  delivery's crank is rolled back with it (`KernelServiceManager.ts:299,331`).
* With a store that refuses commits, or a process that dies between the flush and
  the commit, `AnswersAreKept` fails, as answers are given in the flush;
  `run_loop_faults` leaves it out.

References:

* A syscall refused and followed by an accepted one is forgotten, its partial
  effects kept (`VatSyscall.ts:162-163`, `KernelQueue.ts:633`); a vat that mentions
  a deleted import charges partway before it is refused (`KernelQueue.ts:856-863`).
* A vat that drops and retires its own export as if it were an import loses its
  c-list entry and stays its owner; exporting an object anew does not set its
  reachable flag again (`translators.ts:172-176`). The model's vats behave as
  liveslots does and do neither.
* A promise fulfilled with a bare settled promise routes to the latter's queue
  (`KernelRouter.ts:256-257`); with `BarePromises` true messages strand there.
* Candidates for collection noted between cranks are kept in memory and lost in a
  crash (`crank.ts:94-97`); a pass does not revisit one added during it
  (`gc.ts:161-163`); a root abandoned before its vat ends keeps its pin.

Peer restart:

* A message says nothing of its incarnation, and a channel to the old one may
  still be read once the crank that records its successor has begun. What it
  yields then is judged, taken and acknowledged in the new session
  (`RemoteHandle.ts:1738`, `KernelQueue.ts:907-961`), though the comments have the
  old messages behind them (`RemoteHandle.ts:1736-1739`, `KernelQueue.ts:892-895`). So
  `TakenOnceInOrder` and `WatermarkIsSessions` count by the session a message was
  taken in, and `NothingTakenEarly` speaks of new messages in old sessions alone.
* A send already with the transport when a restart is noticed may be written to
  the new incarnation's channel once the crank has committed
  (`transport.ts:284-290`). `GivenForTheSession` is about what is handed over.

Transport:

* Closing a connection, and a dial or write that fails, can let go of a channel
  still open and read. A loop can give up while an inbound channel is live, and
  an attempt in flight registers a channel for a peer closed on purpose.
* Cleanup of stale peers ends reconnecting silently, and a clean end of a stream
  unregisters without reconnecting.
* A cleanup deletes the peer's state (`peer-state-manager.ts:209`) while a dial may
  hold the old object. When an inbound channel is registered meanwhile,
  `reuseOrReturnChannel` finds it in the new state, to "reuse it"
  (`transport.ts:416`), but the dial compares it with the old state's, takes it for
  "a new channel" (`reconnection-lifecycle.ts:248-249`, `transport.ts:663`), and
  closes it when there are too many or when its outbound handshake, which the
  peer does not answer, fails: the registered channel is closed, and goes on
  being read. `RegisteredIsLive` leaves out channels closed so (`closedAstray`).

Subclusters:

* A launch's writes that fall in another's aborted crank are undone while its
  workers run; `exposed` remembers those vats, and the invariants leave them out.
  Their ids are given out again, so that with more faults than the run allows the
  next vat of such an id may start with two pins, or, its old record swept while
  it runs, without a root; the invariants do not speak of it either.
* Nothing keeps launches apart, and the id of the undone subcluster may go to a
  launch that overlaps. The two then write to one record: `addSubclusterVat`
  replaces the other's member (`store/methods/subclusters.ts:126-128`) while the map
  keeps its vat, so the tables disagree; an ending reaches whichever members the
  record has, and the rollback of the launch that fails deletes the record of
  the one that does not (`SubclusterManager.ts:174-176`), whose vats run without a
  subcluster. These vats are in `exposed` too.
* After a termination that throws partway and a crash, a boot may start a worker
  for a vat marked as terminated, or find a listed member without a root and
  refuse to come up. With two such events a root's pin is released twice. `exposed`
  has these vats too.
* With `Overlapping` true a subcluster may be ended while it is launched. Its
  members start nevertheless, without a subcluster, and their roots and workers
  outlive it: only `MembershipAgrees` holds then.
* A crash between a launch and the write of the system subcluster's name leaves a
  launched subcluster without one; the next boot launches another.
* With I/O channels a collection may drop a record still empty.

## Proofs

`RemoteSessionProofs` proves of the receiver, for any set of positive numbers, any message
bodies and any share of arrivals:

* `ReceiverTypeCorrect`: `ReceiverTypeOK` is inductive by itself.
* `ReceiverInvariance`: `ReceiverInv`. The invariants are not inductive alone.
  That a receipt is durable needs that the watermark in memory is the durable
  one; that the log rises needs that the crank's message is above every durable
  number, although its number was compared with the watermark in memory before
  an await; and the commit needs that the open transaction is the durable state
  plus exactly the recorded message.
* `AcksAlwaysDurable`, `AlwaysTakenOnceInOrder` and `EffectsAlwaysMatchReceipt`
  follow from it.
* `ReceiverImplementsInbox`: every step is a `Take` (lemma `RecordedIsTake`), a
  `Promise` (`AckIsPromise`) or a stutter of `OrderedInbox`.

`RunLoopProofs` proves, for any callers, any number of them of each kind, any
share of arrivals and, but for the last, crashes and failing commits:

* `RunLoopTypeCorrect`.
* `NoWakeUpIsLost`: `ParkedMeansIdle`, from `ParkInv`: a request is held only while a
  crank is open, so a loop about to sleep leaves none behind its wake-up; and a
  loop that has not started is nowhere in its turn.
* `AlwaysOneFate`: `OneFate`, from `FateInv`. `OneFate` is about what a restart would
  find, but a crash can come anywhere, so the same must hold of the store the
  crank reads and of the one a rollback returns to (`StoresAreSound`). A request
  not yet written down is in none of the three (`FreshIsApart`), or writing it
  would double it; the delivery's item is out of the queue (`ItemIsOut`), or its
  outcome would; and a buffered follow-up is its message's only trace
  (`BufferIsNext`), so that the flush may add it.
* `EveryoneAlwaysOwed`: `EveryWaiterIsOwed`, from `OwedInv`. Whoever waits is on the
  list of what it asked for, and nobody waits for a loop that died
  (`WaitersListed`). The list then has to be backed by something. A subscriber has
  a trace in the store, the crank or its outputs, and, while the delivery may
  still be rolled back, one in the savepoint too (`PromisesInv`); this needs that
  a follow-up waits for a promise its vat is to resolve or, the vat dead, for
  nobody's, or it would be dropped with its caller still listed. Work waited
  for is in the queue or held, and pending terminations are no more than those
  yet to be delivered (`BacklogInv`), so that the restarts they overtook will be
  refused; the waiters a crank has taken are due an answer when it ends
  (`TakenAreOwed`), and its hands are empty before the next (`HandsAreEmpty`).
* `AlwaysToldForGood` and `AnswersStayTrue`: `AnswersAreKept`, from `KeptInv`, until
  the process dies and over a store that takes its commits; a kernel service's
  answer is left out of the first, and the second has no such service. The three
  hypotheses are the boundaries above. What callers were told must hold of the
  savepoint too, for as long as the crank may return to it (`ToldIsTrue`,
  `Revocable`). Whoever still waits when the work is done is about to be told so
  (`DoneWaiters`), or the loop's death would refuse what was done, and what they are
  about to be told is so (`Outcomes`). Work waits on one list, until its crank tells it
  (`WorkIsApart`), and a verdict that keeps its caller for after the commit is not
  one that aborts, terminates or may not be undone (`VerdictFits`).

`TransportProofs` proves, for any senders, loops and channels and any limits:

* `TransportTypeCorrect`.
* `LossAlwaysPursued` and `FailedAlwaysLeftAlone`, which are inductive together
  (`Pursuit`): a loop at work is what a loss is owed, and a loop that fails for
  good takes itself off.
* `RegisteredAlwaysLive`, from `Live`: a channel is read, in its outbound handshake or
  in its inbound one, never in two of them, so that a channel that comes out
  of its handshake has not been closed by a reader. What a dial that outlived a
  cleanup closes is counted apart (`closedAstray`).

`PeerRestartProofs` proves, for any number of incarnations, messages and crashes:

* `PeerRestartTypeCorrect` and `AlwaysOneCrankPerRestart`, from `QueueInv`: the queue
  holds the first incarnation heard of, then messages, then at most one restart;
  incarnations grow along it; and a channel's other end is one of them.
* `AlwaysGivenForTheSession`, from `HoldInv`: while a restart waits sending is held,
  and what is in line was made in the session on record.
* `AlwaysNothingTakenEarly`, `AlwaysTakenOnceInOrder` and `AlwaysWatermarkIsSessions`,
  from `SessionInv`: a message that waits is of the incarnation that will be on record
  at its turn, or of an earlier one (`MessagesAreSessions`), and all that was taken
  is of this session up to the watermark or of an earlier session.

`RemoteSessionProofs` proves of the sender, for any number of messages, faults and
retries and any capacity:

* `SenderTypeCorrect`.
* `BusinessIsNotForgotten`, `HandOverLeavesNoneBehind` and `FlushSendsNothingGivenUp`,
  from `BusinessInv`, with requests inside cranks or without. It says of the store
  that a message has one number, in its queue's bounds, and that what is
  committed and not settled is in the store a rollback would return to
  (`StoreInv`); and of memory, for the store as it is and as the open crank found
  it, that a row still the handle's business lies in both windows, and has been
  handed over or will be (`InHand`); that only what is settled is stepped over
  when a hand-over moves the window's start (`OpensSettled`, `OpensLow`), which
  happens after the numbering, when other messages may have come between; and
  that nothing given up on is still to be handed over (`FreshAbove`,
  `FreshChain`).

and of the session, for any number of messages and faults:

* `RetiredAlwaysReceipted`, from `SessionInv`: a packet on its way was written, an
  acknowledgement names one that was, and none names more than is recorded.
* `SessionTypeCorrect`: both halves keep their types, deaths between two writes
  included.
* `SessionHasReceiver`: a session's steps are steps of `RemoteReceiver`, so what is
  proved of the receiver for any sender holds in a session.
* `AlwaysTakenInMadeOrder`, with `DiesMidWrite` false, from `OrderInv`. Order must hold
  along the whole way: the log, the message in hand, the arrivals, the wire,
  the chain and the rows of the store are each in the order made and before the
  stages behind them; also all that has gone out is before what the store may
  still add (`BackInv`), for a rolled-back request gives its number to another
  message while its own copy is on the way. This needs the sender's
  `BusinessInv`, as a row handed over again would come behind newer ones.
* `SessionForgetsNothing`: the sender's invariants hold in a session too.

`SubclustersProofs` proves, for any number of members, vats, subclusters, faults
and events:

* `SubclustersTypeCorrect` and `AlwaysMembershipAgrees`, from `StoreInv`, with subclusters
  ended while they are launched or not. The tables must agree in the savepoint
  too, which a rollback makes the store, and the rollback takes back the
  counters: so no id at or above a counter may be listed or recorded (`Sound`).
  A launch that waits for its channels must find its record empty and room for
  its ids when it goes on, in whichever store that will be (`ChannelsWait`).
* `StatusAlwaysFindsEveryVat`, `RootsAlwaysPinned`, `WorkersAlwaysAccountedFor` and
  `NamesAlwaysServed`, with `Overlapping` false, from `VatInv` about the vats not in
  `exposed`, with any launches overlapping. Each stands in the store and in the savepoint: pinned once and rooted while
  active, with a subcluster, and none of it from the ids not yet given out (`Stands`). That
  it stands when its launch writes it down needs that it was not there before,
  though the crank around it may be another's (`StartsClean`); that it stands after a
  rollback, that a crank that may be undone removes nobody from the store
  (`SavedLives`). The record of a subcluster is deleted only if nobody is left in it:
  whoever an ending has seen to is gone (`SeenToIsGone`), and nobody is added
  behind its back. Launches may overlap and be undone, so that the latter speaks
  of ids (`ToldApart`): a record not there before the crank is of a launch under
  way (`FreshAreLaunched`); what is ended on request is launched by nobody, and lies
  below what the savepoint would give out (`Floor`), so that no rollback undoes it
  and no launch gets its id (`EndedAreSettled`); and no vat but those in `exposed`
  has a subcluster whose id two launches share (`SharedAreAstray`). `NameLeads` adds for the last
  theorem what each step of a boot leaves of the system name.

`Overlapping` is false there because the code's behaviour without that hypothesis is
the finding of `subclusters_overlap`.

`ReferencesCounting` and `ReferencesProofs` prove of `References`, for any number of
vats, objects, promises, requests, syscalls and refusals, and, the last theorem
aside, with bare promises or without:

* `KernelStaysSound`: the inductive invariant. Of the two stores, the one the
  crank works on and the savepoint, each is `Sound`, the former with what the
  delivery has in hand added to its holders (`InHands`); what has been settled,
  or left the configured vats, in the savepoint is so in the store (`Lasts`).
* `CountsAlwaysMatchHolders`, `ExportsAlwaysHaveOwners`, `CommittedSettlementsAlwaysStand`
  and `ReferencesTypeCorrect` follow from it.
* `EveryPromiseAlwaysHasADecider`, with `BarePromises` false as in the run, from
  `DecidersKept`: in the store and in the savepoint no unresolved promise is
  `Stranded`, that is, without a live decider that has it in its c-list and
  without a message that carries it as its result.

`Sound` needs more than balanced counts. Krefs are given out in order and never
again (`Fresh`), or a new object would be born with the entries of an old one. A
vat's export entries are its owned objects, both ways (`ExportsOwned`), as the
collector tells an import from an export by them. An entry whose flag says that
it reaches has its object (`FlagsReach`), or a cleared flag would take a count that is
not there. A vat told to retire an import holds an entry that counts for
nothing, for an object that is gone for good (`RetiredIsGone`); the entries of the
action being delivered are the parameter `R`, for it has left the set of
actions and its c-list entries have not gone yet. And a dead vat whose cleanup is
done has no entries left (`DeadAreEmpty`).

The argument goes operator by operator. Each takes a sound store, and a ledger
`E` of the references that are out of it, to a sound store and the ledger
changed by what the operator took out or put in; so `Charge` is an entry and
`Release` its reverse, and a syscall that takes three references and files them
ends with the ledger it began with. What throws outside a syscall leaves a store
marked `failed`, of which nothing more is said (`Outcome`), as it is rolled
back. A syscall that throws is not: what it did before it threw must be sound by
itself (`Answers`). What operators leave of each other's rows is `Steady`, and,
when a collection or a death is among them, `Lasts`. A pass that collects
garbage finds candidates whose counts are zero, and balance then says that
nobody holds them, so that their rows may go (`NoCount`).

For the deciders the operators are sorted by what they leave alone: those that
count (`Level`), those that touch c-lists (`Minds`) and those that queue (`Posts`)
strand nobody. A message that is taken from the queue strands its result
(`Loose`) until the delivery hands it to a vat, queues it on a promise or
rejects it (`Answered`), which needs `Sound`, for the result must still exist. A death
rejects what the vat decides (`RetireVatServes`); its c-list is cleaned up only
when it no longer is a configured vat (`Apart`), so that no decider loses its
entry; and a collection takes only promises that are settled.

Folds and sums are functions from the positions of a sequence. That one which
recurses along a sequence exists is proved once (`RecursionExists`), with
`SetInduction` of `Ordering`; then each is handled by its partial results
(`TotalIs` for sums).

`Ordering` proves the lemmas about the ascending order of a set of numbers. The
prover cannot instantiate the library's induction theorems, which take an
operator; `SetInduction` states induction for a set of numbers, from the fact
that a non-empty set has a least element, and that suffices there.

The proofs rest on the ASSUMEs of the modules alone. Only model-checked are:

* liveness and fairness everywhere: the prover has no ENABLED;
* `OwnersAreTold` and `OnlySettledResultsKill` of `References`: who was told, and
  what makes an operation throw.

## Not modelled, and why

* *Store savepoints* (`kernel-store`): the models take a transaction to commit as
  a whole or not at all, which SQLite provides.
* *Worker side* (`VatSupervisor`, liveslots): a delivery's outcome is a choice.
* *Remote manager*: establishing remotes, clearing storage, redemption
  bookkeeping and results of stale handshakes.
* *Transport*: stopping, relay reconnection, windows of the rate limiter (a limit may
  refuse at any time), message sizes, framing.
* *References*: remotes and kernel services as endpoints, and what a reap does in
  liveslots; scheduling of a reap from outside a crank.
* *Subclusters*: I/O channels' own state, validation of services, the run loop's
  death, reset, relaunch timeouts, several system subclusters.
* Agents, wallets, user interfaces, service discovery, sheaves and tooling are
  applications of the kernel, and most of the repository's lines: they are
  callers of what is modelled here, mostly of stateless code or external I/O.

`PROJECT.json` lists each under `components`.

## Plan

1. *Done*: receiver, sender, session, run loop; proofs of the receiver and of
   the loop's wake-ups.
2. *Done*: references, peer restarts, transport, subclusters.
3. *Done*: proofs of the sender, peer restarts, the transport, one fate in the
   run loop, what its waiters are owed and what they are told, the order of
   a session, all that is checked of subclusters but that calls end, and the
   counts, owners, settlements and deciders of the references. Left: that owners
   are told, and that only settled results kill.
4. Store savepoints, as the refinement `RunLoop` relies on; remotes as endpoints in
   `References`; a reap asked for from outside.
