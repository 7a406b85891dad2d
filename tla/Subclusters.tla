------------------------------ MODULE Subclusters ------------------------------
(***************************************************************************)
(* Groups of vats: launching a subcluster, ending one, losing a vat, and   *)
(* what a boot makes of the groups an earlier process left in the store.   *)
(*                                                                         *)
(* Three callers run beside the run loop and beside each other: the boot's *)
(* launch of the system subcluster, a launch and a termination asked for   *)
(* by somebody else.  Each is an asynchronous function, so that whatever   *)
(* it writes after an await may fall inside a crank, and be rolled back    *)
(* with it, while the call itself goes on.                                 *)
(*                                                                         *)
(* The store is one record.  Ids come from counters it keeps, so that a    *)
(* rollback gives them out again.  Every subcluster has the same members,  *)
(* numbered in the order of its configuration.                             *)
(***************************************************************************)
EXTENDS Integers, Sequences, FiniteSets, SequencesExt, FiniteSetsExt, Ordering

CONSTANTS
    NumMembers,     \* members of a subcluster; the first is its bootstrap vat
    MaxVats,        \* bound: vat ids the store gives out
    MaxSubclusters, \* bound: subcluster ids the store gives out
    MaxFaults,      \* bound: workers that fail to start, are lost, or exit
    MaxEvents,      \* bound: deliveries besides those of bootstrap messages,
                    \* terminations whose records throw partway, and crashes
                    \* of the kernel
    Overlapping     \* whether a subcluster may be ended while it is launched

ASSUME BoundsAreNaturals ==
    /\ {MaxVats, MaxSubclusters, MaxFaults, MaxEvents} \subseteq Nat
    /\ NumMembers \in Nat \ {0}
    /\ Overlapping \in BOOLEAN

Members == 1 .. NumMembers
Bootstrap == 1
Vats == 1 .. MaxVats
SubclusterIds == 1 .. MaxSubclusters
NoVat == 0
NoSubcluster == 0
NoMembers == [n \in Members |-> NoVat]

Calls == {"system", "launch", "terminate"}
Launches == {"system", "launch"}

VARIABLES
    db,         \* the store, as reads find it
    saved,      \* the store as the savepoint of the open crank holds it;
                \* EmptyStore when none is open
    crank,      \* the crank that is open, or Closed
    queued,     \* the terminations on the run queue, oldest first
    held,       \* those asked for during the open crank, written at its end
    handles,    \* the vats with a handle
    workers,    \* the vats whose worker runs
    root,       \* the system subcluster's bootstrap vat, as memory has it
    up,         \* how far the kernel has come up
    calls,      \* what each caller is doing
    spent,      \* deliveries, faults, botched terminations and crashes so far
    exposed     \* history: vats whose launch was undone or went unnoticed, or
                \* whose end was written down in part, and those of launches
                \* that a rollback has given one subcluster id

vars == <<db, saved, crank, queued, held, handles, workers, root, up, calls,
          spent, exposed>>

(***************************************************************************)
(* The store.  Every operator takes one and returns one.                   *)
(***************************************************************************)

EmptyStore ==
    [nextVat |-> 1, nextSubcluster |-> 1,
     recorded |-> {},                                \* the subcluster records
     vats |-> [s \in SubclusterIds |-> NoMembers],   \* what they list
     home |-> [v \in Vats |-> NoSubcluster],         \* vatToSubclusterMap
     active |-> {},                                  \* vats with a vatConfig
     rooted |-> {},                                  \* with a root in the c-list
     pins |-> [v \in Vats |-> 0],
     terminated |-> <<>>,                            \* terminatedVats
     name |-> NoSubcluster]                          \* systemSubcluster mapping

Listed(d, s) == {d.vats[s][n] : n \in Members} \ {NoVat}

AddSubcluster(d) ==
    [d EXCEPT !.nextSubcluster = @ + 1, !.recorded = @ \cup {d.nextSubcluster},
              !.vats[d.nextSubcluster] = NoMembers]

(* Ids for the members of one launch, and their membership if it can be.   *)
NewVats(d) == [n \in Members |-> d.nextVat + n - 1]

AddSubclusterVats(d, s) ==
    LET e == [d EXCEPT !.nextVat = @ + NumMembers]
    IN  IF s \notin d.recorded THEN e
        ELSE [e EXCEPT !.vats[s] = NewVats(d),
                       !.home = [v \in Vats |-> IF v \in ToSet(NewVats(d))
                                                THEN s ELSE @[v]]]

(* Several vats leave, each the subcluster the map sends it to.            *)
RemoveFromSubclusters(d, gone) ==
    LET leaving(s) == {v \in gone : d.home[v] = s}
    IN  [d EXCEPT !.home = [v \in Vats |-> IF v \in gone THEN NoSubcluster
                                           ELSE @[v]],
                  !.vats = [s \in SubclusterIds |-> [n \in Members |->
                      IF @[s][n] \in leaving(s) THEN NoVat ELSE @[s][n]]]]

(* Mutant: the members keep pointing at the record that is deleted.        *)
DeleteSubclusterRecordOnly(d, s) == [d EXCEPT !.recorded = @ \ {s}]

DeleteSubcluster(d, s) ==
    IF s \notin d.recorded THEN d
    ELSE [d EXCEPT !.recorded = @ \ {s}, !.vats[s] = NoMembers,
                   !.home = [v \in Vats |->
                       IF v \in Listed(d, s) /\ @[v] = s THEN NoSubcluster
                       ELSE @[v]]]

ClearEmptySubclusters(d) ==
    [d EXCEPT !.recorded = {s \in @ : Listed(d, s) # {}}]

(* What is kept once a vat has started.                                    *)
RecordVat(d, v) ==
    [d EXCEPT !.rooted = @ \cup {v}, !.pins[v] = @ + 1,
              !.active = @ \cup {v}]

ReleaseRootPins(d, gone) ==
    [d EXCEPT !.pins = [v \in Vats |->
        IF v \in gone \cap d.rooted /\ @[v] > 0 THEN @[v] - 1 ELSE @[v]]]

(* Ids are given out in the order of the members, so that the vat launched *)
(* last has the highest.                                                   *)
LastFirst(vs) == Reverse(InOrder(vs))

MarkAsTerminated(d, gone) ==
    LET marked == gone \ ToSet(d.terminated)
    IN  [ReleaseRootPins(d, marked) EXCEPT !.terminated = @ \o LastFirst(marked)]

DeleteVats(d, gone) ==
    [RemoveFromSubclusters(d, gone) EXCEPT !.active = @ \ gone]

(* Vats are retired one after another, the last launched first.            *)
RetireVats(d, gone) == DeleteVats(MarkAsTerminated(d, gone), gone)

(* The records of the vat that died first are swept.                       *)
CleanUpTerminatedVat(d) ==
    IF d.terminated = <<>> THEN d
    ELSE LET v == Head(d.terminated)
         IN  [d EXCEPT !.terminated = Tail(@), !.rooted = @ \ {v},
                       !.active = @ \ {v}]

CollectGarbage(d) ==
    LET gone == ToSet(d.terminated)
    IN  ClearEmptySubclusters([d EXCEPT !.terminated = <<>>,
                                        !.rooted = @ \ gone,
                                        !.active = @ \ gone])

DropMapping(d, s) == [d EXCEPT !.name = IF @ = s THEN NoSubcluster ELSE @]

(* Mutant: the pin each launch took outlives the vat.                      *)
AbandonSubclusterPinned(d, s) ==
    LET gone == Listed(d, s)
    IN  DeleteSubcluster(
            [d EXCEPT !.active = @ \ gone,
                      !.terminated = @ \o InOrder(gone \ ToSet(@))], s)

(* The manager's deleteSubcluster: its vats are not running.               *)
AbandonSubcluster(d, s) ==
    LET gone == Listed(d, s)
    IN  DeleteSubcluster(
            [ReleaseRootPins(d, gone) EXCEPT
                !.active = @ \ gone,
                !.terminated = @ \o InOrder(gone \ ToSet(@))], s)

(***************************************************************************)
(* The run loop.                                                           *)
(***************************************************************************)

Closed == [item |-> "none", vat |-> NoVat]
IsOpen == crank # Closed
Running == up = "running"
Known(v) == v \in handles \cup db.active
IsVatGone(v) == ~Known(v)
MayHappen == spent.deliveries + spent.botched + spent.crashes < MaxEvents

(* Mutant: a request made while a crank is open is not kept.               *)
EnqueueTerminateVatUnheld(v) ==
    IF IsOpen THEN UNCHANGED <<queued, held>>
    ELSE queued' = Append(queued, v) /\ UNCHANGED held

(* A request to terminate a vat, held while a crank is open.               *)
EnqueueTerminateVat(v) ==
    IF IsOpen THEN held' = Append(held, v) /\ UNCHANGED queued
    ELSE queued' = Append(queued, v) /\ UNCHANGED held

OpenCrank(item, v, d) ==
    /\ crank' = [item |-> item, vat |-> v]
    /\ saved' = db
    /\ db' = d

(* The crank ends: it commits, and what it held back is written.           *)
CloseCrank(d) ==
    /\ db' = ClearEmptySubclusters(d)
    /\ saved' = EmptyStore
    /\ crank' = Closed
    /\ queued' = queued \o held
    /\ held' = <<>>

(* The member an ending is at: the last launched of those left to end.     *)
Current(c) == Max(calls[c].todo)

(* Mutant: only those who wait for a vat that is still there are taken.    *)
TakenIfKnown(v) ==
    [c \in Calls |-> IF calls[c].phase = "ending" /\ calls[c].wait = "queued"
                        /\ Current(c) = v /\ Known(v)
                     THEN [calls[c] EXCEPT !.wait = "due"] ELSE calls[c]]

(* Callers whose wait for the termination of v is taken by its crank.      *)
Taken(v) ==
    [c \in Calls |-> IF calls[c].phase = "ending" /\ calls[c].wait = "queued"
                        /\ Current(c) = v
                     THEN [calls[c] EXCEPT !.wait = "due"] ELSE calls[c]]

Answered ==
    [c \in Calls |-> IF calls[c].wait = "due"
                     THEN [calls[c] EXCEPT !.wait = "answered"] ELSE calls[c]]

(* performVatTermination, for the oldest request: the records go, unless   *)
(* writing them throws before or after the vat is marked.                  *)
PerformVatTermination ==
    /\ Running /\ ~IsOpen /\ queued # <<>>
    /\ LET v == Head(queued)
           d == CleanUpTerminatedVat(db)
       IN  /\ \/ v \notin handles \cup d.active
                 /\ OpenCrank("idle", v, d)
                 /\ UNCHANGED <<handles, spent, exposed>>
              \/ v \in handles \cup d.active
                 /\ handles' = handles \ {v}
                 /\ \/ /\ OpenCrank("end", v, RetireVats(d, {v}))
                       /\ UNCHANGED <<spent, exposed>>
                    \/ /\ MayHappen
                       /\ spent' = [spent EXCEPT !.botched = @ + 1]
                       /\ \/ OpenCrank("end", v, d) /\ UNCHANGED exposed
                          \/ /\ OpenCrank("end", v, MarkAsTerminated(d, {v}))
                             /\ exposed' = exposed \cup {v}
           /\ calls' = Taken(v)
    /\ queued' = Tail(queued)
    /\ UNCHANGED <<held, workers, root, up>>

EndTermination ==
    /\ crank.item \in {"end", "idle"}
    /\ workers' = IF crank.item = "end" THEN workers \ {crank.vat} ELSE workers
    /\ CloseCrank(db)
    /\ calls' = Answered
    /\ UNCHANGED <<handles, root, up, spent, exposed>>

(* Any delivery but a bootstrap message, which its launch has counted.     *)
StartDelivery ==
    /\ Running /\ ~IsOpen /\ MayHappen
    /\ spent' = [spent EXCEPT !.deliveries = @ + 1]
    /\ \E v \in handles : OpenCrank("delivery", v, CleanUpTerminatedVat(db))
    /\ UNCHANGED <<queued, held, handles, workers, root, up, calls, exposed>>

(* A launch's bootstrap message comes up; no vat takes one whose target is gone. *)
DeliverBootstrap(c) ==
    /\ Running /\ ~IsOpen /\ calls[c].phase = "bootstrapping"
    /\ OpenCrank(c, calls[c].vats[Bootstrap], CleanUpTerminatedVat(db))
    /\ UNCHANGED <<queued, held, handles, workers, root, up, calls, spent, exposed>>

(* What the caller of a launch's bootstrap message hears at its crank's end. *)
Heard(ok) ==
    IF crank.item \notin Launches \/ calls[crank.item].phase # "bootstrapping"
    THEN calls
    ELSE [calls EXCEPT ![crank.item].phase =
              IF ok /\ calls[crank.item].started = Members THEN "launched"
              ELSE "failing"]

(* The delivery is kept; a bootstrap may still report an error.            *)
KeepDelivery ==
    /\ crank.item \in Launches \cup {"delivery"}
    /\ \E ok \in BOOLEAN :
           /\ ok => Known(crank.vat)
           /\ calls' = Heard(ok)
    /\ CloseCrank(db)
    /\ UNCHANGED <<handles, workers, root, up, spent, exposed>>

(* The vats whose launch the open crank would take with it, if undone.     *)
Undone ==
    {v \in Vats : \/ db.home[v] # NoSubcluster /\ saved.home[v] = NoSubcluster
                  \/ v \in db.active \ saved.active}

(* The vat exits, or its delivery is undone and the vat retired.           *)
EndVatInDelivery ==
    /\ crank.item \in Launches \cup {"delivery"}
    /\ Known(crank.vat)
    /\ spent.faults < MaxFaults
    /\ spent' = [spent EXCEPT !.faults = @ + 1]
    /\ \E undo \in BOOLEAN :
           LET d == IF undo THEN saved ELSE db
               known == crank.vat \in handles \cup d.active
           IN  /\ CloseCrank(IF known THEN RetireVats(d, {crank.vat}) ELSE d)
               /\ exposed' = IF undo THEN exposed \cup Undone ELSE exposed
    /\ handles' = handles \ {crank.vat}
    /\ workers' = workers \ {crank.vat}
    /\ calls' = Heard(FALSE)
    /\ UNCHANGED <<root, up>>

(* A vat's channel breaks.  The worker may live on until it is terminated. *)
LoseVat(v) ==
    /\ Running /\ v \in handles
    /\ spent.faults < MaxFaults
    /\ spent' = [spent EXCEPT !.faults = @ + 1]
    /\ handles' = handles \ {v}
    /\ IF v \in db.active THEN EnqueueTerminateVat(v)
       ELSE UNCHANGED <<queued, held>>
    /\ UNCHANGED <<db, saved, crank, workers, root, up, calls, exposed>>

(***************************************************************************)
(* Launching.                                                              *)
(***************************************************************************)

NoCall ==
    [phase |-> "none", sub |-> NoSubcluster, vats |-> NoMembers,
     starting |-> {}, started |-> {}, todo |-> {}, wait |-> "none",
     left |-> {}]

Finished == {"none", "done", "failed"}

(* A vat some launch is waiting for.                                       *)
Starting(v) ==
    \E c \in Launches : \E n \in calls[c].starting : calls[c].vats[n] = v

BeingLaunched(s) ==
    \E c \in Launches : calls[c].phase \notin Finished /\ calls[c].sub = s

(* A launch goes on though a rollback has undone its record and given the  *)
(* id to another.                                                          *)
IsShared(c, s) ==
    \E other \in Launches \ {c} :
        calls[other].phase \notin Finished /\ calls[other].sub = s

(* Every member gets its id and, if the record is there to take it, its    *)
(* place in it, all before the first of them is waited for.  In a record   *)
(* that is not this launch's alone it takes the place of somebody's member. *)
StartMembers(d, c, s) ==
    /\ db' = AddSubclusterVats(d, s)
    /\ exposed' = exposed \cup Listed(d, s)
                     \cup (IF IsShared(c, s) THEN ToSet(NewVats(d)) ELSE {})
    /\ calls' = [calls EXCEPT ![c] = [NoCall EXCEPT
           !.phase = "starting", !.sub = s, !.vats = NewVats(d),
           !.starting = IF s \in d.recorded THEN Members ELSE {}]]

(* Bound: the ids that a launch which waits for its channels will need.    *)
Reserved ==
    IF \E c \in Launches : calls[c].phase = "channels" THEN NumMembers ELSE 0

(* With I/O channels to make first, the record waits for them empty.       *)
LaunchSubcluster(c) ==
    LET s == db.nextSubcluster
    IN  /\ Running /\ calls[c].phase = "none"
        /\ s <= MaxSubclusters /\ db.nextVat + NumMembers + Reserved - 1 <= MaxVats
        /\ \/ StartMembers(AddSubcluster(db), c, s)
           \/ /\ c = "launch"
              /\ db' = AddSubcluster(db)
              /\ calls' = [calls EXCEPT ![c].phase = "channels", ![c].sub = s]
              /\ UNCHANGED exposed
        /\ UNCHANGED <<saved, crank, queued, held, handles, workers, root, up,
                       spent>>

CreateChannels(c) ==
    /\ calls[c].phase = "channels"
    /\ StartMembers(db, c, calls[c].sub)
    /\ UNCHANGED <<saved, crank, queued, held, handles, workers, root, up,
                   spent>>

(* The worker is up; what makes it a vat is written in the same step.      *)
VatStarts(c, n) ==
    LET v == calls[c].vats[n]
    IN  /\ n \in calls[c].starting
        /\ v \notin handles \cup workers
        /\ handles' = handles \cup {v}
        /\ workers' = workers \cup {v}
        /\ db' = RecordVat(db, v)
        /\ calls' = [calls EXCEPT ![c].starting = @ \ {n}, ![c].started = @ \cup {n}]
        /\ UNCHANGED <<saved, crank, queued, held, root, up, spent, exposed>>

(* It would not start, or was lost before anything of it was written; a    *)
(* worker by its id, of a launch since undone, is in the way.              *)
VatFails(c, n) ==
    /\ n \in calls[c].starting
    /\ \/ calls[c].vats[n] \in handles \cup workers /\ UNCHANGED spent
       \/ /\ spent.faults < MaxFaults
          /\ spent' = [spent EXCEPT !.faults = @ + 1]
    /\ calls' = [calls EXCEPT ![c].starting = @ \ {n}]
    /\ UNCHANGED <<db, saved, crank, queued, held, handles, workers, root, up,
                   exposed>>

(* Every start has settled.  The bootstrap message names the root of each  *)
(* member that started, and waits for the open crank to end.               *)
QueueBootstrap(c) ==
    LET call == calls[c]
        roots == {call.vats[n] : n \in call.started}
    IN  /\ call.phase = "starting" /\ call.starting = {}
        /\ Bootstrap \in call.started => ~IsOpen
        /\ calls' = [calls EXCEPT ![c].phase =
               IF Bootstrap \in call.started /\ roots \subseteq db.rooted
               THEN "bootstrapping" ELSE "failing"]
        /\ UNCHANGED <<db, saved, crank, queued, held, handles, workers, root,
                       up, spent, exposed>>

(* launchSubcluster returns; the boot then keeps the root and the mapping. *)
LaunchReturns(c) ==
    /\ calls[c].phase = "launched"
    /\ calls' = [calls EXCEPT ![c] = [NoCall EXCEPT !.phase = "done"]]
    /\ IF c = "system"
       THEN /\ root' = calls[c].vats[Bootstrap]
            /\ db' = [db EXCEPT !.name = calls[c].sub]
       ELSE UNCHANGED <<root, db>>
    /\ UNCHANGED <<saved, crank, queued, held, handles, workers, up, spent,
                   exposed>>

(***************************************************************************)
(* Ending a subcluster, after a launch that failed or because it was asked *)
(* for: its members are terminated one by one, last launched first.        *)
(***************************************************************************)

BeginEnding(c, s) ==
    calls' = [calls EXCEPT ![c] = [NoCall EXCEPT
        !.phase = "ending", !.sub = s, !.vats = db.vats[s],
        !.todo = Listed(db, s)]]

FailLaunch(c) ==
    /\ calls[c].phase = "failing"
    /\ BeginEnding(c, calls[c].sub)
    /\ UNCHANGED <<db, saved, crank, queued, held, handles, workers, root, up,
                   spent, exposed>>

TerminateSubcluster(s) ==
    /\ Running /\ calls["terminate"].phase = "none"
    /\ s \in db.recorded
    /\ Overlapping \/ ~BeingLaunched(s)
    /\ BeginEnding("terminate", s)
    /\ UNCHANGED <<db, saved, crank, queued, held, handles, workers, root, up,
                   spent, exposed>>

SkipMember(c) ==
    /\ calls[c].phase = "ending" /\ calls[c].todo # {}
    /\ calls[c].wait = "none"
    /\ LET v == Current(c)
       IN  /\ IsVatGone(v)
           /\ exposed' = IF Starting(v) THEN exposed \cup {v} ELSE exposed
    /\ calls' = [calls EXCEPT ![c].todo = @ \ {Current(c)}]
    /\ UNCHANGED <<db, saved, crank, queued, held, handles, workers, root, up,
                   spent>>

EndMember(c) ==
    /\ calls[c].phase = "ending" /\ calls[c].todo # {}
    /\ calls[c].wait = "none"
    /\ ~IsVatGone(Current(c))
    /\ EnqueueTerminateVat(Current(c))
    /\ calls' = [calls EXCEPT ![c].wait = "queued"]
    /\ UNCHANGED <<db, saved, crank, handles, workers, root, up, spent, exposed>>

(* Whether a member lives on is judged by what is left of it.              *)
MemberEnded(c) ==
    LET v == Current(c)
        d == CollectGarbage(db)
    IN  /\ calls[c].wait = "answered"
        /\ db' = d
        /\ calls' = [calls EXCEPT ![c].wait = "none", ![c].todo = @ \ {v},
                        ![c].left = IF v \in handles \cup d.active THEN @ \cup {v}
                                     ELSE @]
        /\ UNCHANGED <<saved, crank, queued, held, handles, workers, root, up,
                       spent, exposed>>

(* Mutant: the record goes even if a member would not die.                 *)
EndingEndsRegardless(c) ==
    LET call == calls[c]
    IN  /\ call.phase = "ending" /\ call.todo = {}
        /\ calls' = [calls EXCEPT ![c] = [NoCall EXCEPT !.phase = "done"]]
        /\ db' = DeleteSubcluster(DropMapping(db, call.sub), call.sub)
        /\ root' = IF c = "terminate" /\ db.name = call.sub THEN NoVat ELSE root
        /\ UNCHANGED <<saved, crank, queued, held, handles, workers, up, spent,
                       exposed>>

(* The record goes only when no member is left; the system name goes with  *)
(* it, and without it the root alone if the bootstrap vat is gone.         *)
EndingEnds(c) ==
    LET call == calls[c]
        ended == call.left = {}
        wasNamed == c = "terminate" /\ db.name = call.sub
        dead == call.vats[Bootstrap] \notin call.left
    IN  /\ call.phase = "ending" /\ call.todo = {}
        /\ calls' = [calls EXCEPT ![c] = [NoCall EXCEPT
               !.phase = IF ended /\ c = "terminate" THEN "done" ELSE "failed"]]
        /\ db' = IF ~ended THEN db
                 ELSE DeleteSubcluster(IF wasNamed THEN DropMapping(db, call.sub)
                                       ELSE db, call.sub)
        /\ root' = IF wasNamed /\ (ended \/ dead) THEN NoVat ELSE root
        /\ UNCHANGED <<saved, crank, queued, held, handles, workers, up, spent,
                       exposed>>

(***************************************************************************)
(* Crash and boot.                                                         *)
(***************************************************************************)

Crash ==
    /\ MayHappen
    /\ up # "broken"
    /\ spent' = [spent EXCEPT !.crashes = @ + 1]
    /\ db' = IF IsOpen THEN saved ELSE db
    /\ queued' = IF crank.item \in {"end", "idle"} THEN <<crank.vat>> \o queued
                 ELSE queued
    /\ saved' = EmptyStore
    /\ crank' = Closed
    /\ held' = <<>>
    /\ handles' = {} /\ workers' = {}
    /\ root' = NoVat
    /\ up' = "down"
    /\ calls' = [c \in Calls |-> NoCall]
    /\ UNCHANGED exposed

(* Mutant: it stays, and is served by nobody.                              *)
RemoveWithoutBootstrapKept(d) == d

(* A named subcluster without its bootstrap vat goes, with what is left of *)
(* it, to be launched again from its configuration.                        *)
RemoveWithoutBootstrap(d) ==
    IF d.name = NoSubcluster \/ d.vats[d.name][Bootstrap] # NoVat THEN d
    ELSE LET left == Listed(d, d.name) \cap (handles \cup d.active)
         IN  [DeleteSubcluster(RetireVats(d, left), d.name)
                 EXCEPT !.name = NoSubcluster]

(* Whether there is a system subcluster to launch, if none is restored.    *)
ToLaunch(configured) == IF configured THEN "none" ELSE "done"

(* initSystemSubclusters: the configuration may have lost the name.        *)
RestoreNames ==
    /\ up = "down"
    /\ \E configured \in BOOLEAN :
           /\ calls' = [calls EXCEPT !["system"].phase = ToLaunch(configured)]
           /\ LET s == db.name
                  b == db.vats[s][Bootstrap]
                  dropped == [AbandonSubcluster(db, s) EXCEPT !.name = NoSubcluster]
                  Restore(d, r) == db' = d /\ root' = r /\ up' = "restored"
              IN  IF s = NoSubcluster THEN Restore(db, NoVat)
                  ELSE IF ~configured THEN Restore(dropped, NoVat)
                  ELSE IF s \notin db.recorded
                  THEN Restore([db EXCEPT !.name = NoSubcluster], NoVat)
                  ELSE IF b # NoVat /\ b \notin db.rooted
                  THEN UNCHANGED <<db, root>> /\ up' = "broken"
                  ELSE Restore(RemoveWithoutBootstrap(db), b)
    /\ UNCHANGED <<saved, crank, queued, held, handles, workers, spent, exposed>>

(* initializeAllVats: a vat whose worker will not start is retired, and    *)
(* named subclusters are looked through again.                             *)
InitializeAllVats ==
    /\ up = "restored"
    /\ \E failed \in SUBSET db.active :
           /\ Cardinality(failed) + spent.faults <= MaxFaults
           /\ spent' = [spent EXCEPT !.faults = @ + Cardinality(failed)]
           /\ handles' = db.active \ failed
           /\ workers' = db.active \ failed
           /\ db' = RetireVats(db, failed)
    /\ up' = "started"
    /\ UNCHANGED <<saved, crank, queued, held, root, calls, exposed>>

RemoveSystemSubclusters ==
    /\ up = "started"
    /\ LET d == RemoveWithoutBootstrap(db)
       IN  /\ db' = d
           /\ handles' = handles \cap d.active
           /\ workers' = workers \cap d.active
           /\ root' = IF d.name = NoSubcluster THEN NoVat ELSE root
    /\ up' = "running"
    /\ calls' = IF root' = NoVat THEN calls
                ELSE [calls EXCEPT !["system"].phase = "done"]
    /\ UNCHANGED <<saved, crank, queued, held, spent, exposed>>

Init ==
    /\ db = EmptyStore /\ saved = EmptyStore
    /\ crank = Closed
    /\ queued = <<>> /\ held = <<>>
    /\ handles = {} /\ workers = {}
    /\ root = NoVat
    /\ up = "running"
    /\ \E configured \in BOOLEAN :
           calls = [c \in Calls |-> [NoCall EXCEPT !.phase =
                        IF c = "system" THEN ToLaunch(configured) ELSE "none"]]
    /\ spent = [deliveries |-> 0, faults |-> 0, botched |-> 0, crashes |-> 0]
    /\ exposed = {}

CallSteps(c) ==
    \/ c \in Launches /\ CreateChannels(c)
    \/ c \in Launches /\ QueueBootstrap(c)
    \/ c \in Launches /\ LaunchReturns(c)
    \/ c \in Launches /\ FailLaunch(c)
    \/ SkipMember(c) \/ EndMember(c) \/ MemberEnded(c) \/ EndingEnds(c)

VatSettles(c, n) == VatStarts(c, n) \/ VatFails(c, n)

RunLoopSteps ==
    \/ PerformVatTermination \/ EndTermination
    \/ KeepDelivery \/ EndVatInDelivery
    \/ \E c \in Launches : DeliverBootstrap(c)

Boots == RestoreNames \/ InitializeAllVats \/ RemoveSystemSubclusters

Next ==
    \/ \E c \in Launches : LaunchSubcluster(c)
    \/ \E s \in SubclusterIds : TerminateSubcluster(s)
    \/ \E c \in Calls : CallSteps(c)
    \/ \E c \in Launches, n \in Members : VatSettles(c, n)
    \/ RunLoopSteps \/ StartDelivery
    \/ \E v \in Vats : LoseVat(v)
    \/ Crash \/ Boots

Spec == Init /\ [][Next]_vars

(* The run loop goes on taking what is queued, an asynchronous call goes   *)
(* on when what it awaits has settled, a worker's start settles, one way   *)
(* or the other, and a boot comes to its end.                              *)
FairSpec ==
    /\ Spec
    /\ WF_vars(RunLoopSteps) /\ WF_vars(Boots)
    /\ \A c \in Calls : WF_vars(CallSteps(c))
    /\ \A c \in Launches, n \in Members : WF_vars(VatSettles(c, n))

-----------------------------------------------------------------------------

Stores ==
    [nextVat : 1 .. MaxVats + 1, nextSubcluster : 1 .. MaxSubclusters + 1,
     recorded : SUBSET SubclusterIds,
     vats : [SubclusterIds -> [Members -> Vats \cup {NoVat}]],
     home : [Vats -> SubclusterIds \cup {NoSubcluster}],
     active : SUBSET Vats, rooted : SUBSET Vats, pins : [Vats -> Nat],
     terminated : Seq(Vats), name : SubclusterIds \cup {NoSubcluster}]

Cranks ==
    [item : {"none", "idle", "end", "delivery"} \cup Launches,
     vat : Vats \cup {NoVat}]

CallStates ==
    [phase : {"none", "channels", "starting", "bootstrapping", "launched",
              "failing", "ending", "done", "failed"},
     sub : SubclusterIds \cup {NoSubcluster},
     vats : [Members -> Vats \cup {NoVat}],
     starting : SUBSET Members, started : SUBSET Members,
     todo : SUBSET Vats, wait : {"none", "queued", "due", "answered"},
     left : SUBSET Vats]

(* Every variable keeps its type.                                          *)
TypeOK ==
    /\ db \in Stores /\ saved \in Stores
    /\ crank \in Cranks
    /\ queued \in Seq(Vats) /\ held \in Seq(Vats)
    /\ handles \subseteq Vats /\ workers \subseteq Vats
    /\ root \in Vats \cup {NoVat}
    /\ up \in {"running", "down", "restored", "started", "broken"}
    /\ calls \in [Calls -> CallStates]
    /\ spent \in [deliveries : Nat, faults : Nat, botched : Nat, crashes : Nat]
    /\ exposed \subseteq Vats

(* The two tables of membership agree: a record lists a vat exactly when   *)
(* the map sends the vat to it, so that neither lookup fails where the     *)
(* other finds something (store/methods/subclusters.ts).  Exempt are the   *)
(* members of launches that a rollback has given the same record.          *)
MembershipAgrees ==
    \A s \in SubclusterIds, v \in Vats \ exposed :
        db.home[v] = s <=> s \in db.recorded /\ v \in Listed(db, s)

(* The status of the kernel never fails for a running vat without a        *)
(* subcluster, but for a vat whose launch was rolled back with somebody    *)
(* else's crank or shares the id of one that was, or that an ending took   *)
(* for gone.                                                               *)
StatusFindsEveryVat ==
    \A v \in (handles \cup db.active) \ exposed : db.home[v] # NoSubcluster

(* The same of every running vat, without exception, as the comment in     *)
(* terminateSubcluster means it (SubclusterManager.ts).                    *)
EveryVatHasASubcluster == \A v \in handles : db.home[v] # NoSubcluster

(* The root of a vat is pinned once while the vat lives and no longer,     *)
(* whichever of the ways it ends by and whatever is rolled back, but for   *)
(* those whose own launch was: their id is given out again.                *)
PinBalances(v) ==
    db.pins[v] = IF v \in db.active /\ ~Contains(db.terminated, v) THEN 1 ELSE 0

PinsBalance == \A v \in Vats \ exposed : PinBalances(v)

(* A worker runs for a vat with a handle, or its termination is on its way. *)
WorkersAreAccountedFor ==
    \A v \in workers \ exposed :
        v \in handles \/ v = crank.vat \/ v \in ToSet(queued \o held)

(* When the kernel is up again, the name of the system subcluster is free  *)
(* for a launch from its configuration, or leads to a bootstrap vat that   *)
(* runs, unless an earlier launch under that vat's id was undone.          *)
NameIsServed ==
    up = "started" /\ up' = "running" =>
        IF db'.name = NoSubcluster THEN root' = NoVat
        ELSE /\ root' = db'.vats[db'.name][Bootstrap]
             /\ root' \in handles' \cup exposed'

NamesAreServed == [][NameIsServed]_vars

(* Whoever launches or ends a subcluster is answered, whatever else ends   *)
(* the same vats meanwhile: no call is ever under way for good.            *)
CallsEnd == []<>(\A c \in Calls : calls[c].phase \in Finished)
=============================================================================
