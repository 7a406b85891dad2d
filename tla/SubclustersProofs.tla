--------------------------- MODULE SubclustersProofs ---------------------------
(* Proofs about Subclusters, for any number of members, vats, subclusters, *)
(* faults and events.                                                      *)
EXTENDS Subclusters, SequenceTheorems, TLAPS

(***************************************************************************)
(* The store and its callers, whatever has been undone.                    *)
(***************************************************************************)

(* The map sends a vat to the record that lists it, and only vats astray   *)
(* where no record lists them; a subcluster without a record lists none,   *)
(* and ids not yet given out are not in use.                               *)
SoundBut(d, astray) ==
    /\ \A s \in SubclusterIds, v \in Vats : v \in Listed(d, s) => d.home[v] = s
    /\ \A s \in SubclusterIds, v \in Vats \ astray :
          d.home[v] = s => v \in Listed(d, s)
    /\ \A s \in SubclusterIds : s \notin d.recorded => d.vats[s] = NoMembers
    /\ \A s \in d.recorded : s < d.nextSubcluster
    /\ \A v \in Vats : d.home[v] # NoSubcluster => v < d.nextVat

Sound(d) == SoundBut(d, exposed)

(* A launch that waits for its members has one id for each of them.        *)
HasMembers == {"starting", "bootstrapping", "launched", "failing"}

Distinct(vats) == \A m, n \in Members : vats[m] = vats[n] => m = n

Shaped(c, call) ==
    /\ call.phase \in HasMembers =>
          /\ c \in Launches
          /\ call.vats \in [Members -> Vats] /\ Distinct(call.vats)
    /\ call.phase = "channels" => c = "launch"
    /\ call.phase \in HasMembers \cup {"channels", "ending"} =>
          call.sub \in SubclusterIds
    /\ call.phase # "starting" => call.starting = {}
    /\ call.phase # "ending" =>
          call.todo = {} /\ call.left = {} /\ call.wait = "none"
    /\ call.wait # "none" => call.todo # {}

(* A launch that waits for its channels will find room.                    *)
HasRoom(d) == d.nextVat + NumMembers - 1 <= MaxVats
ChannelsWait == calls["launch"].phase = "channels" => HasRoom(db)

NothingIsAsked ==
    /\ crank = Closed /\ held = <<>>
    /\ \A c \in Calls : calls[c] \in {NoCall, [NoCall EXCEPT !.phase = "done"]}
    /\ \A c \in Calls \ {"system"} : calls[c] = NoCall

(* A kernel that is not up does nothing but boot.                          *)
BootIsAlone ==
    /\ up # "running" => NothingIsAsked
    /\ up \in {"down", "restored", "broken"} => handles = {} /\ workers = {}

(* The open crank has only added to the ids its savepoint would give out.  *)
SavedIsBehind ==
    /\ saved.nextVat <= db.nextVat
    /\ saved.nextSubcluster <= db.nextSubcluster
    /\ IsOpen <=> crank.item # "none"
    /\ IsOpen <=> crank.vat # NoVat
    /\ ~IsOpen => saved = EmptyStore /\ held = <<>>

StoreInv ==
    /\ TypeOK
    /\ Sound(db) /\ Sound(saved)
    /\ \A c \in Calls : Shaped(c, calls[c])
    /\ ChannelsWait /\ BootIsAlone /\ SavedIsBehind

(***************************************************************************)
(* Whose the subclusters are that are launched and ended.                  *)
(***************************************************************************)

(* What would be left of the ids if the open crank were undone.            *)
Floor == IF IsOpen THEN saved.nextSubcluster ELSE db.nextSubcluster

(* A caller that has seen a crank open since its subcluster was made.      *)
Outlived(call) ==
    \/ call.phase \in {"bootstrapping", "launched"}
    \/ call.wait \in {"due", "answered"} \/ call.left # {}

Launching(c, s) == calls[c].phase \notin Finished /\ calls[c].sub = s

(* What the open crank has recorded is still being launched.               *)
FreshAreLaunched ==
    \A s \in db.recorded : s >= Floor =>
        \E c \in Launches : Launching(c, s) /\ ~Outlived(calls[c])

(* Nobody launches what is ended on request, and no rollback can undo it.  *)
EndedAreSettled ==
    LET call == calls["terminate"]
    IN  call.phase = "ending" => call.sub < Floor /\ ~BeingLaunched(call.sub)

(* A vat that is not astray belongs to one launch at most.                 *)
SharedAreAstray ==
    \A a, b \in Launches, s \in SubclusterIds :
        a # b /\ Launching(a, s) /\ Launching(b, s) =>
            \A v \in Vats \ exposed : db.home[v] # s /\ saved.home[v] # s

ToldApart == FreshAreLaunched /\ EndedAreSettled /\ SharedAreAstray

(***************************************************************************)
(* The vats whose launch was neither undone nor missed.                    *)
(***************************************************************************)

Kept == Vats \ exposed
Ended(d) == ToSet(d.terminated)

(* A vat that lives has a root, pinned once, and an end takes it all.      *)
Stands(d, v) ==
    /\ d.pins[v] = IF v \in d.active THEN 1 ELSE 0
    /\ v \in d.active => v \in d.rooted /\ v \notin Ended(d)
    /\ v \in d.active => d.home[v] # NoSubcluster
    /\ v \in d.rooted /\ d.home[v] # NoSubcluster => v \in d.active
    /\ v >= d.nextVat => v \notin d.active \cup d.rooted \cup Ended(d)

RootsStand(d) == \A v \in Kept : Stands(d, v)

(* A vat about to start has its place and nothing else.                    *)
StartsClean ==
    \A c \in Launches : \A n \in calls[c].starting :
        LET v == calls[c].vats[n]
        IN  v \in Kept =>
                /\ v \notin db.active \cup Ended(db)
                /\ v \notin saved.active \cup Ended(saved)
                /\ db.home[v] = calls[c].sub
                /\ saved.home[v] \in {calls[c].sub, NoSubcluster}

(* A crank that may be undone takes nobody out of the store.               *)
SavedLives ==
    crank.item # "end" =>
        \A v \in Kept :
            /\ v \in saved.active => v \in db.active
            /\ \/ saved.home[v] \in {db.home[v], NoSubcluster}
               \/ v \notin handles \cup db.active

InMemory ==
    /\ handles \cap Kept \subseteq db.active
    /\ \A v \in workers \cap Kept :
          \/ crank.item = "end" /\ v = crank.vat
          \/ v \in db.active /\ v \in handles \cup ToSet(queued) \cup ToSet(held)

(* Of the subcluster that is ended, whoever has been seen to is gone.      *)
SeenToIsGone ==
    \A c \in Calls : calls[c].phase = "ending" =>
        \A v \in Kept \ (calls[c].todo \cup calls[c].left) :
            db.home[v] = calls[c].sub => v \notin handles \cup db.active

(* In a boot the system name leads to a vat that is or will be started.    *)
NameLeads ==
    LET b == db.vats[db.name][Bootstrap]
    IN  /\ up \in {"restored", "started"} =>
              IF db.name = NoSubcluster THEN root = NoVat
              ELSE b # NoVat => b = root /\ (b \in Kept => b \in db.active)
        /\ up = "started" => handles = db.active

VatInv ==
    /\ ToldApart
    /\ RootsStand(db) /\ RootsStand(saved)
    /\ StartsClean /\ SavedLives /\ InMemory /\ SeenToIsGone


-----------------------------------------------------------------------------
(* Numbers, sequences and their elements.                                  *)

LEMMA Bounds ==
    /\ MaxVats \in Nat /\ MaxSubclusters \in Nat
    /\ NumMembers \in Nat /\ NumMembers >= 1
    /\ Bootstrap \in Members
    /\ 0 \notin Vats /\ 0 \notin SubclusterIds
BY BoundsAreNaturals DEF Members, Bootstrap, Vats, SubclusterIds

LEMMA JoinedSet ==
    ASSUME NEW s \in Seq(Vats), NEW t \in Seq(Vats)
    PROVE  s \o t \in Seq(Vats) /\ ToSet(s \o t) = ToSet(s) \cup ToSet(t)
<1>1. /\ s \o t \in Seq(Vats) /\ Len(s \o t) = Len(s) + Len(t)
      /\ Len(s) \in Nat /\ Len(t) \in Nat
      /\ \A i \in 1 .. Len(s) : (s \o t)[i] = s[i]
      /\ \A i \in 1 .. Len(t) : (s \o t)[i + Len(s)] = t[i]
  OBVIOUS
<1>2. ASSUME NEW i \in 1 .. Len(s) + Len(t)
      PROVE  (s \o t)[i] \in ToSet(s) \cup ToSet(t)
  <2>1. CASE i <= Len(s)
    BY <1>1, <2>1 DEF ToSet
  <2>2. CASE i > Len(s)
    <3>1. i - Len(s) \in 1 .. Len(t) /\ (i - Len(s)) + Len(s) = i
      BY <1>1, <2>2
    <3> QED
      BY <1>1, <3>1 DEF ToSet
  <2> QED
    BY <1>1, <2>1, <2>2
<1>3. ASSUME NEW x \in ToSet(s) \cup ToSet(t) PROVE x \in ToSet(s \o t)
  <2>1. CASE x \in ToSet(s)
    BY <1>1, <2>1 DEF ToSet
  <2>2. CASE x \in ToSet(t)
    <3>1. PICK i \in 1 .. Len(t) : t[i] = x
      BY <2>2 DEF ToSet
    <3>2. i + Len(s) \in 1 .. Len(s \o t)
      BY <1>1
    <3>3. (s \o t)[i + Len(s)] = x
      BY <1>1, <3>1
    <3> QED
      BY <3>2, <3>3 DEF ToSet
  <2> QED
    BY <1>3, <2>1, <2>2
<1>4. DOMAIN (s \o t) = 1 .. Len(s) + Len(t)
  BY <1>1
<1> QED
  BY <1>1, <1>2, <1>3, <1>4 DEF ToSet

LEMMA AppendedSet ==
    ASSUME NEW s \in Seq(Vats), NEW v \in Vats
    PROVE  Append(s, v) \in Seq(Vats) /\ ToSet(Append(s, v)) = ToSet(s) \cup {v}
<1>1. /\ Append(s, v) \in Seq(Vats) /\ Len(s) \in Nat
      /\ DOMAIN Append(s, v) = 1 .. Len(s) + 1 /\ DOMAIN s = 1 .. Len(s)
      /\ \A i \in 1 .. Len(s) + 1 :
            Append(s, v)[i] = IF i <= Len(s) THEN s[i] ELSE v
  OBVIOUS
<1>2. \A i \in 1 .. Len(s) + 1 : i <= Len(s) => i \in 1 .. Len(s)
  BY <1>1
<1>3. Len(s) + 1 \in 1 .. Len(s) + 1 /\ ~(Len(s) + 1 <= Len(s))
  BY <1>1
<1> QED
  BY <1>1, <1>2, <1>3 DEF ToSet

LEMMA HeadAndTail ==
    ASSUME NEW s \in Seq(Vats), s # <<>>
    PROVE  /\ Head(s) \in Vats /\ Tail(s) \in Seq(Vats)
           /\ ToSet(s) = {Head(s)} \cup ToSet(Tail(s))
<1>1. /\ Head(s) = s[1] /\ Len(s) \in Nat /\ Len(s) >= 1 /\ s[1] \in Vats
      /\ Tail(s) \in Seq(Vats) /\ Len(Tail(s)) = Len(s) - 1
      /\ \A i \in 1 .. Len(s) - 1 : Tail(s)[i] = s[i + 1]
      /\ DOMAIN s = 1 .. Len(s) /\ DOMAIN Tail(s) = 1 .. Len(s) - 1
  OBVIOUS
<1>2. ASSUME NEW i \in 1 .. Len(s), i # 1 PROVE s[i] \in ToSet(Tail(s))
  <2>1. i - 1 \in 1 .. Len(s) - 1 /\ (i - 1) + 1 = i
    BY <1>1, <1>2
  <2> QED
    BY <1>1, <2>1 DEF ToSet
<1>3. ASSUME NEW i \in 1 .. Len(s) - 1 PROVE Tail(s)[i] \in ToSet(s)
  <2>1. i + 1 \in 1 .. Len(s)
    BY <1>1
  <2> QED
    BY <1>1, <2>1 DEF ToSet
<1> QED
  BY <1>1, <1>2, <1>3 DEF ToSet

LEMMA ContainsIsIn ==
    ASSUME NEW s \in Seq(Vats), NEW v
    PROVE  Contains(s, v) <=> v \in ToSet(s)
BY DEF Contains, ToSet

LEMMA NobodyIn == ToSet(<<>>) = {}
BY DEF ToSet

(* Vats put in order, oldest or youngest first, are all there.             *)
LEMMA InOrderLists ==
    ASSUME NEW vs \in SUBSET Vats
    PROVE  /\ InOrder(vs) \in Seq(Vats) /\ ToSet(InOrder(vs)) = vs
           /\ LastFirst(vs) \in Seq(Vats) /\ ToSet(LastFirst(vs)) = vs
<1> DEFINE f == InOrder(vs)
           n == Cardinality(vs)
           r == LastFirst(vs)
<1>1. /\ f \in [1 .. n -> vs] /\ n \in Nat
      /\ \A v \in vs : \E i \in 1 .. n : f[i] = v
  BY Bounds, InOrderOrders, InOrderReaches DEF Vats
<1> HIDE DEF f, n
<1>2. f \in Seq(Vats) /\ Len(f) = n /\ ToSet(f) = vs
  BY <1>1 DEF ToSet
<1>3. r = [i \in 1 .. n |-> f[n - i + 1]]
  BY <1>2 DEF r, f, LastFirst, Reverse
<1>4. \A i \in 1 .. n : n - i + 1 \in 1 .. n /\ n - (n - i + 1) + 1 = i
  BY <1>1
<1>5. r \in [1 .. n -> vs]
  BY <1>1, <1>3, <1>4
<1>6. \A i \in 1 .. n : r[n - i + 1] = f[i]
  BY <1>1, <1>3, <1>4
<1> HIDE DEF r
<1>7. \A v \in vs : \E i \in 1 .. n : r[i] = v
  BY <1>1, <1>4, <1>6
<1>8. r \in Seq(Vats) /\ ToSet(r) = vs
  <2>1. r \in Seq(Vats)
    BY <1>1, <1>5
  <2>2. DOMAIN r = 1 .. n /\ \A i \in 1 .. n : r[i] \in vs
    BY <1>5
  <2>3. ToSet(r) = vs
    BY <1>7, <2>2 DEF ToSet
  <2> QED
    BY <2>1, <2>3
<1> QED
  BY <1>2, <1>8 DEF f, r

(* The member an ending is at is one of those left.                        *)
LEMMA MaxIsIn ==
    ASSUME NEW vs \in SUBSET Vats, vs # {}
    PROVE  Max(vs) \in vs
<1> DEFINE n == Cardinality(vs)
           f == InOrder(vs)
<1>1. /\ f \in [1 .. n -> vs] /\ n \in Nat /\ IsAscending(f)
      /\ \A v \in vs : \E i \in 1 .. n : f[i] = v
  BY Bounds, InOrderOrders, InOrderReaches DEF Vats
<1> HIDE DEF n, f
<1>2. n \in 1 .. n /\ f[n] \in vs
  BY <1>1
<1>3. \A v \in vs : f[n] >= v
  <2> SUFFICES ASSUME NEW v \in vs PROVE f[n] >= v
    OBVIOUS
  <2>1. PICK i \in 1 .. n : f[i] = v
    BY <1>1
  <2>2. v \in Int /\ f[n] \in Int
    <3>1. v \in Vats /\ f[n] \in Vats
      BY <1>2
    <3> QED
      BY <3>1, Bounds DEF Vats
  <2>3. CASE i = n
    BY <2>1, <2>2, <2>3
  <2>4. CASE i < n
    <3>1. f[i] < f[n]
      BY <1>1, <1>2, <2>4 DEF IsAscending
    <3> QED
      BY <2>1, <2>2, <3>1
  <2> QED
    BY <1>1, <2>3, <2>4
<1>4. \E x \in vs : \A y \in vs : x >= y
  BY <1>2, <1>3
<1> QED
  BY <1>4 DEF Max


-----------------------------------------------------------------------------
(* What the operations of the store do to it.                              *)

SameVats(d, e) ==
    /\ e.active = d.active /\ e.rooted = d.rooted /\ e.pins = d.pins
    /\ e.terminated = d.terminated

LEMMA FieldsOfStores ==
    ASSUME NEW d \in Stores
    PROVE  /\ d.nextVat \in 1 .. MaxVats + 1
           /\ d.nextSubcluster \in 1 .. MaxSubclusters + 1
           /\ d.recorded \subseteq SubclusterIds
           /\ d.vats \in [SubclusterIds -> [Members -> Vats \cup {NoVat}]]
           /\ d.home \in [Vats -> SubclusterIds \cup {NoSubcluster}]
           /\ d.active \subseteq Vats /\ d.rooted \subseteq Vats
           /\ d.pins \in [Vats -> Nat]
           /\ d.terminated \in Seq(Vats) /\ Ended(d) \subseteq Vats
           /\ d.name \in SubclusterIds \cup {NoSubcluster}
<1>1. d.terminated \in Seq(Vats)
  BY DEF Stores
<1>2. Ended(d) \subseteq Vats
  BY <1>1 DEF Ended, ToSet
<1> QED
  BY <1>1, <1>2 DEF Stores

(* What is sound stays so when more vats are astray.                       *)
LEMMA SoundLater ==
    ASSUME NEW d, NEW astray, NEW more, SoundBut(d, astray), astray \subseteq more
    PROVE  SoundBut(d, more)
BY DEF SoundBut

LEMMA EmptyStoreIsSound ==
    EmptyStore \in Stores /\ Sound(EmptyStore) /\ Ended(EmptyStore) = {}
<1>1. NoMembers \in [Members -> Vats \cup {NoVat}]
  BY DEF NoMembers
<1>2. EmptyStore \in Stores
  BY <1>1, Bounds DEF EmptyStore, Stores, NoSubcluster
<1>3. \A s \in SubclusterIds : Listed(EmptyStore, s) = {}
  BY DEF Listed, EmptyStore, NoMembers
<1>4. Sound(EmptyStore)
  BY <1>3, Bounds DEF Sound, SoundBut, EmptyStore, NoSubcluster
<1> QED
  BY <1>2, <1>4, NobodyIn DEF Ended, EmptyStore

(* A subcluster lists its members only.                                    *)
LEMMA ListedAreVats ==
    ASSUME NEW d \in Stores, NEW s \in SubclusterIds
    PROVE  /\ Listed(d, s) \subseteq Vats
           /\ d.vats[s] = NoMembers <=> Listed(d, s) = {}
<1>1. d.vats[s] \in [Members -> Vats \cup {NoVat}]
  BY FieldsOfStores
<1> QED
  BY <1>1 DEF Listed, NoMembers

LEMMA NewSubcluster ==
    ASSUME NEW d \in Stores, Sound(d), d.nextSubcluster <= MaxSubclusters,
           NEW e, e = AddSubcluster(d)
    PROVE  /\ e \in Stores /\ Sound(e) /\ SameVats(d, e)
           /\ d.nextSubcluster \in SubclusterIds \ d.recorded
           /\ e.nextSubcluster = d.nextSubcluster + 1
           /\ e.recorded = d.recorded \cup {d.nextSubcluster}
           /\ e.nextVat = d.nextVat /\ e.vats = d.vats /\ e.home = d.home
           /\ e.name = d.name
<1> DEFINE s == d.nextSubcluster
<1>1. s \in 1 .. MaxSubclusters + 1 /\ s \in SubclusterIds /\ s \notin d.recorded
  BY Bounds, FieldsOfStores DEF Sound, SoundBut, SubclusterIds
<1>2. d.vats[s] = NoMembers
  BY <1>1 DEF Sound, SoundBut
<1>3. [d.vats EXCEPT ![s] = NoMembers] = d.vats
  BY <1>1, <1>2, FieldsOfStores
<1>4. e = [d EXCEPT !.nextSubcluster = s + 1, !.recorded = d.recorded \cup {s},
                    !.vats = d.vats]
  BY <1>3 DEF AddSubcluster
<1>5. s + 1 \in 1 .. MaxSubclusters + 1
  BY <1>1, Bounds
<1>6. /\ e \in Stores /\ SameVats(d, e)
      /\ e.nextSubcluster = s + 1 /\ e.recorded = d.recorded \cup {s}
      /\ e.nextVat = d.nextVat /\ e.vats = d.vats /\ e.home = d.home
      /\ e.name = d.name
  <2>1. d.recorded \cup {s} \in SUBSET SubclusterIds
    BY <1>1, FieldsOfStores
  <2> HIDE DEF s
  <2> QED
    BY <1>4, <1>5, <2>1 DEF Stores, SameVats
<1>7. Sound(e)
  <2>1. \A t \in SubclusterIds : Listed(e, t) = Listed(d, t)
    BY <1>6 DEF Listed
  <2>2. \A t \in e.recorded : t < s + 1
    <3>1. \A t \in d.recorded : t \in Int /\ t < s
      BY FieldsOfStores, Bounds DEF Sound, SoundBut, SubclusterIds
    <3> QED
      BY <1>1, <1>6, <3>1
  <2> HIDE DEF s
  <2> QED
    BY <1>6, <2>1, <2>2 DEF Sound, SoundBut
<1> QED
  BY <1>1, <1>6, <1>7

(* What changes when the members of s take their places, from any other    *)
(* that the record lists.                                                  *)
PlacesIn(d, e, s) ==
    /\ SameVats(d, e)
    /\ NewVats(d) \in [Members -> Vats] /\ Distinct(NewVats(d))
    /\ \A n \in Members : NewVats(d)[n] >= d.nextVat
    /\ e.nextVat = d.nextVat + NumMembers
    /\ e.nextSubcluster = d.nextSubcluster /\ e.recorded = d.recorded
    /\ e.name = d.name
    /\ \A v \in Vats : e.home[v] # d.home[v] =>
          /\ d.home[v] = NoSubcluster /\ e.home[v] = s
          /\ v >= d.nextVat /\ v \in ToSet(NewVats(d))
    /\ s \in d.recorded => \A n \in Members : e.home[NewVats(d)[n]] = s

LEMMA NewMembers ==
    ASSUME NEW d \in Stores, Sound(d), NEW s \in SubclusterIds,
           d.nextVat + NumMembers - 1 <= MaxVats,
           NEW e, e = AddSubclusterVats(d, s)
    PROVE  /\ e \in Stores /\ SoundBut(e, exposed \cup Listed(d, s))
           /\ PlacesIn(d, e, s)
<1> DEFINE new == NewVats(d)
           first == d.nextVat
<1>1. first \in Int /\ first >= 1 /\ NumMembers \in Int /\ NumMembers >= 1
  BY FieldsOfStores, Bounds
<1>2. \A n \in Members : new[n] = first + n - 1 /\ n \in Int /\ 1 <= n
                            /\ n <= NumMembers
  BY Bounds DEF NewVats, Members
<1>3. /\ new \in [Members -> Vats] /\ Distinct(new)
      /\ \A n \in Members : /\ new[n] >= first
                            /\ new[n] < first + NumMembers
  <2>1. new = [n \in Members |-> new[n]]
    BY DEF NewVats
  <2>2. \A n \in Members : new[n] \in 1 .. MaxVats
    BY <1>1, <1>2, Bounds
  <2> HIDE DEF new, first
  <2> QED
    BY <1>1, <1>2, <2>1, <2>2 DEF Vats, Distinct
<1>4. first + NumMembers \in 1 .. MaxVats + 1
  BY <1>1, Bounds
<1>5. CASE s \notin d.recorded
  <2>1. e = [d EXCEPT !.nextVat = first + NumMembers]
    BY <1>5 DEF AddSubclusterVats
  <2> HIDE DEF new
  <2>2. /\ e \in Stores /\ SameVats(d, e) /\ e.nextVat = first + NumMembers
        /\ e.nextSubcluster = d.nextSubcluster /\ e.recorded = d.recorded
        /\ e.name = d.name /\ e.home = d.home /\ e.vats = d.vats
    BY <2>1, <1>4 DEF Stores, SameVats
  <2>3. Sound(e)
    <3>1. \A t \in SubclusterIds : Listed(e, t) = Listed(d, t)
      BY <2>2 DEF Listed
    <3>2. \A v \in Vats : v < first => v < first + NumMembers
      BY <1>1, Bounds DEF Vats
    <3> HIDE DEF first
    <3>3. \A v \in Vats : d.home[v] # NoSubcluster => v < first
      BY DEF Sound, SoundBut, first
    <3> QED
      BY <2>2, <3>1, <3>2, <3>3 DEF Sound, SoundBut
  <2>4. SoundBut(e, exposed \cup Listed(d, s))
    BY <2>3, SoundLater DEF Sound
  <2> QED
    BY <1>3, <1>5, <2>2, <2>4 DEF new, PlacesIn
<1>6. CASE s \in d.recorded
  <2> DEFINE home == [v \in Vats |-> IF v \in ToSet(new) THEN s ELSE d.home[v]]
             vats == [d.vats EXCEPT ![s] = new]
  <2>1. e = [d EXCEPT !.nextVat = first + NumMembers, !.vats = vats, !.home = home]
    BY <1>6 DEF AddSubclusterVats
  <2>2. ToSet(new) = {new[n] : n \in Members}
    BY DEF ToSet, NewVats
  <2> HIDE DEF new
  <2>3. vats \in [SubclusterIds -> [Members -> Vats \cup {NoVat}]]
    BY <1>3, FieldsOfStores
  <2>4. home \in [Vats -> SubclusterIds \cup {NoSubcluster}]
    BY FieldsOfStores
  <2>5. /\ vats[s] = new /\ \A t \in SubclusterIds \ {s} : vats[t] = d.vats[t]
    BY FieldsOfStores
  <2>6. \A v \in Vats : home[v] = IF \E n \in Members : v = new[n] THEN s
                                  ELSE d.home[v]
    BY <2>2
  <2> HIDE DEF home, vats
  <2>7. /\ e \in Stores /\ SameVats(d, e) /\ e.nextVat = first + NumMembers
        /\ e.nextSubcluster = d.nextSubcluster /\ e.recorded = d.recorded
        /\ e.name = d.name /\ e.home = home /\ e.vats = vats
    BY <2>1, <1>4, <2>3, <2>4 DEF Stores, SameVats
  <2>8. Listed(e, s) = {new[n] : n \in Members}
    BY <1>3, <2>5, <2>7, Bounds DEF Listed, NoVat
  <2>9. \A t \in SubclusterIds \ {s} : Listed(e, t) = Listed(d, t)
    BY <2>5, <2>7 DEF Listed
  <2>10. \A n \in Members : d.home[new[n]] = NoSubcluster
    BY <1>1, <1>3, Bounds DEF Sound, SoundBut, Vats
  <2>11. SoundBut(e, exposed \cup Listed(d, s))
    <3>1. ASSUME NEW t \in SubclusterIds, NEW v \in Vats
          PROVE  /\ v \in Listed(e, t) => home[v] = t
                 /\ v \notin exposed \cup Listed(d, s) /\ home[v] = t =>
                       v \in Listed(e, t)
      <4>1. CASE t = s
        BY <4>1, <2>6, <2>8 DEF Sound, SoundBut
      <4>2. CASE t # s
        <5>1. Listed(e, t) = Listed(d, t)
          BY <2>9, <4>2
        <5>2. CASE \E n \in Members : v = new[n]
          BY <4>2, <5>1, <5>2, <2>6, <2>10, Bounds DEF Sound, SoundBut, NoSubcluster
        <5>3. CASE ~ \E n \in Members : v = new[n]
          BY <4>2, <5>1, <5>3, <2>6 DEF Sound, SoundBut
        <5> QED
          BY <5>2, <5>3
      <4> QED
        BY <4>1, <4>2
    <3>2. \A v \in Vats : home[v] # NoSubcluster => v < first + NumMembers
      <4> SUFFICES ASSUME NEW v \in Vats, home[v] # NoSubcluster
                   PROVE  v < first + NumMembers
        OBVIOUS
      <4>1. CASE \E n \in Members : v = new[n]
        BY <4>1, <1>3
      <4>2. CASE ~ \E n \in Members : v = new[n]
        <5>1. v < first /\ v \in Int
          BY <4>2, <2>6, Bounds DEF Sound, SoundBut, Vats
        <5> QED
          BY <1>1, <5>1
      <4> QED
        BY <4>1, <4>2
    <3>3. \A t \in SubclusterIds : t \notin d.recorded => vats[t] = NoMembers
      BY <1>6, <2>5 DEF Sound, SoundBut
    <3> HIDE DEF first
    <3> QED
      BY <2>7, <3>1, <3>2, <3>3 DEF Sound, SoundBut
  <2>12. \A v \in Vats : home[v] # d.home[v] =>
            d.home[v] = NoSubcluster /\ home[v] = s /\ v >= first
    BY <2>6, <2>10, <1>3
  <2>13. \A v \in Vats : home[v] # d.home[v] => v \in ToSet(new)
    BY <2>2, <2>6
  <2>14. \A n \in Members : home[new[n]] = s
    BY <1>3, <2>6
  <2> QED
    BY <1>3, <1>6, <2>5, <2>7, <2>11, <2>12, <2>13, <2>14 DEF new, PlacesIn
<1> QED
  BY <1>5, <1>6


(* A sweep takes vats that have ended, and records that list nobody.       *)
Swept(d, e) ==
    /\ e \in Stores
    /\ e.nextVat = d.nextVat /\ e.nextSubcluster = d.nextSubcluster
    /\ e.home = d.home /\ e.vats = d.vats /\ e.pins = d.pins /\ e.name = d.name
    /\ e.recorded \subseteq d.recorded
    /\ \A s \in d.recorded \ e.recorded : d.vats[s] = NoMembers
    /\ e.active \subseteq d.active /\ Ended(e) \subseteq Ended(d)
    /\ d.active \ Ended(d) \subseteq e.active
    /\ e.rooted \subseteq d.rooted /\ d.rooted \ Ended(d) \subseteq e.rooted

LEMMA SweptIsSound ==
    ASSUME NEW d \in Stores, NEW e, Swept(d, e)
    PROVE  /\ Sound(d) => Sound(e)
           /\ \A v \in Vats : Stands(d, v) =>
                 Stands(e, v) /\ (v \in e.active <=> v \in d.active)
<1>1. \A s \in SubclusterIds : Listed(e, s) = Listed(d, s)
  BY DEF Swept, Listed
<1>2. Sound(d) => Sound(e)
  BY <1>1, FieldsOfStores DEF Sound, SoundBut, Swept
<1> QED
  BY <1>2 DEF Stands, Swept

LEMMA SweptAgain ==
    ASSUME NEW d \in Stores, NEW e, NEW f, Swept(d, e), Swept(e, f)
    PROVE  Swept(d, f)
BY DEF Swept

LEMMA EmptyOnesCleared ==
    ASSUME NEW d \in Stores
    PROVE  Swept(d, ClearEmptySubclusters(d))
<1> DEFINE e == ClearEmptySubclusters(d)
           rest == {s \in d.recorded : Listed(d, s) # {}}
<1>1. e = [d EXCEPT !.recorded = rest]
  BY DEF ClearEmptySubclusters
<1>2. rest \subseteq SubclusterIds /\ rest \subseteq d.recorded
  BY FieldsOfStores
<1>3. \A s \in d.recorded \ rest : d.vats[s] = NoMembers
  BY FieldsOfStores, ListedAreVats
<1> HIDE DEF rest, e
<1>4. /\ e \in Stores /\ e.recorded = rest
      /\ e.nextVat = d.nextVat /\ e.nextSubcluster = d.nextSubcluster
      /\ e.home = d.home /\ e.vats = d.vats /\ e.pins = d.pins
      /\ e.name = d.name /\ e.active = d.active /\ e.rooted = d.rooted
      /\ e.terminated = d.terminated
  BY <1>1, <1>2 DEF Stores
<1> QED
  BY <1>2, <1>3, <1>4 DEF Swept, Ended, e

LEMMA OldestCleanedUp ==
    ASSUME NEW d \in Stores
    PROVE  Swept(d, CleanUpTerminatedVat(d))
<1>1. CASE d.terminated = <<>>
  BY <1>1 DEF CleanUpTerminatedVat, Swept
<1>2. CASE d.terminated # <<>>
  <2> DEFINE v == Head(d.terminated)
             rest == Tail(d.terminated)
             e == CleanUpTerminatedVat(d)
  <2>1. e = [d EXCEPT !.terminated = rest, !.rooted = d.rooted \ {v},
                      !.active = d.active \ {v}]
    BY <1>2 DEF CleanUpTerminatedVat
  <2>2. /\ rest \in Seq(Vats)
        /\ v \in Ended(d) /\ ToSet(rest) \subseteq Ended(d)
    BY <1>2, FieldsOfStores, HeadAndTail DEF Ended
  <2> HIDE DEF v, rest, e
  <2>3. /\ e \in Stores /\ e.terminated = rest
        /\ e.rooted = d.rooted \ {v} /\ e.active = d.active \ {v}
        /\ e.nextVat = d.nextVat /\ e.nextSubcluster = d.nextSubcluster
        /\ e.home = d.home /\ e.vats = d.vats /\ e.pins = d.pins
        /\ e.name = d.name /\ e.recorded = d.recorded
    BY <2>1, <2>2 DEF Stores
  <2> QED
    BY <2>2, <2>3 DEF Swept, Ended, e
<1> QED
  BY <1>1, <1>2

LEMMA GarbageCollected ==
    ASSUME NEW d \in Stores
    PROVE  Swept(d, CollectGarbage(d))
<1> DEFINE gone == ToSet(d.terminated)
           e == [d EXCEPT !.terminated = <<>>, !.rooted = @ \ gone,
                          !.active = @ \ gone]
<1>1. CollectGarbage(d) = ClearEmptySubclusters(e)
  BY DEF CollectGarbage
<1>2. gone = Ended(d)
  BY DEF Ended
<1>3. e = [d EXCEPT !.terminated = <<>>, !.rooted = d.rooted \ gone,
                    !.active = d.active \ gone]
  OBVIOUS
<1> HIDE DEF gone, e
<1>4. /\ e \in Stores /\ e.terminated = <<>>
      /\ e.rooted = d.rooted \ gone /\ e.active = d.active \ gone
      /\ e.nextVat = d.nextVat /\ e.nextSubcluster = d.nextSubcluster
      /\ e.home = d.home /\ e.vats = d.vats /\ e.pins = d.pins
      /\ e.name = d.name /\ e.recorded = d.recorded
  <2>1. /\ <<>> \in Seq(Vats)
        /\ d.rooted \ gone \in SUBSET Vats /\ d.active \ gone \in SUBSET Vats
    BY FieldsOfStores
  <2> QED
    BY <1>3, <2>1 DEF Stores
<1>5. Ended(e) = {}
  BY <1>4, NobodyIn DEF Ended
<1>6. Swept(d, e)
  BY <1>2, <1>4, <1>5 DEF Swept
<1> QED
  BY <1>1, <1>4, <1>6, EmptyOnesCleared, SweptAgain

(* Vats that leave their subclusters, and lose what made them active.      *)
Left(d, e, gone) ==
    /\ e \in Stores
    /\ e.nextVat = d.nextVat /\ e.nextSubcluster = d.nextSubcluster
    /\ e.recorded = d.recorded /\ e.rooted = d.rooted /\ e.name = d.name
    /\ e.active = d.active \ gone
    /\ \A v \in Vats : e.home[v] = IF v \in gone THEN NoSubcluster ELSE d.home[v]
    /\ \A s \in SubclusterIds : \A n \in Members :
          e.vats[s][n] = IF d.vats[s][n] \in gone THEN NoVat ELSE d.vats[s][n]

LEMMA LeftIsSound ==
    ASSUME NEW d \in Stores, Sound(d), NEW gone \in SUBSET Vats,
           NEW e, Left(d, e, gone)
    PROVE  /\ Sound(e)
           /\ \A s \in SubclusterIds : Listed(e, s) = Listed(d, s) \ gone
           /\ \A s \in SubclusterIds : d.vats[s] = NoMembers => e.vats[s] = NoMembers
<1>1. ASSUME NEW s \in SubclusterIds PROVE Listed(e, s) = Listed(d, s) \ gone
  <2>1. 0 \notin gone
    BY Bounds
  <2> QED
    BY <2>1 DEF Left, Listed, NoVat
<1>2. ASSUME NEW s \in SubclusterIds, d.vats[s] = NoMembers
      PROVE  e.vats[s] = NoMembers
  <2>1. e \in Stores
    BY DEF Left
  <2> QED
    BY <1>1, <1>2, <2>1, ListedAreVats
<1>3. ASSUME NEW s \in SubclusterIds, NEW v \in Vats
      PROVE  /\ v \in Listed(e, s) => e.home[v] = s
             /\ v \notin exposed /\ e.home[v] = s => v \in Listed(e, s)
  BY <1>1, Bounds DEF Left, Sound, SoundBut, NoSubcluster
<1> QED
  BY <1>1, <1>2, <1>3 DEF Left, Sound, SoundBut

(* The pins of vats that end now are released, those of others left alone. *)
Released(d, e, gone) ==
    \A v \in Vats : e.pins[v] = IF v \in gone \cap d.rooted /\ d.pins[v] > 0
                                THEN d.pins[v] - 1 ELSE d.pins[v]

LEMMA PinsReleased ==
    ASSUME NEW d \in Stores, NEW gone, NEW e, e = ReleaseRootPins(d, gone)
    PROVE  /\ e \in Stores /\ Released(d, e, gone)
           /\ e.nextVat = d.nextVat /\ e.nextSubcluster = d.nextSubcluster
           /\ e.home = d.home /\ e.vats = d.vats /\ e.name = d.name
           /\ e.recorded = d.recorded /\ e.active = d.active
           /\ e.rooted = d.rooted /\ e.terminated = d.terminated
<1> DEFINE pins == [v \in Vats |-> IF v \in gone \cap d.rooted /\ d.pins[v] > 0
                                   THEN d.pins[v] - 1 ELSE d.pins[v]]
<1>1. e = [d EXCEPT !.pins = pins]
  BY DEF ReleaseRootPins
<1>2. pins \in [Vats -> Nat]
  <2>1. \A v \in Vats : d.pins[v] \in Nat
    BY FieldsOfStores
  <2> QED
    BY <2>1
<1>3. \A v \in Vats : pins[v] = IF v \in gone \cap d.rooted /\ d.pins[v] > 0
                                THEN d.pins[v] - 1 ELSE d.pins[v]
  OBVIOUS
<1> HIDE DEF pins
<1> QED
  BY <1>1, <1>2, <1>3 DEF Stores, Released

LEMMA Marked ==
    ASSUME NEW d \in Stores, NEW gone \in SUBSET Vats,
           NEW e, e = MarkAsTerminated(d, gone)
    PROVE  /\ e \in Stores /\ Released(d, e, gone \ Ended(d))
           /\ Ended(e) = Ended(d) \cup gone
           /\ e.nextVat = d.nextVat /\ e.nextSubcluster = d.nextSubcluster
           /\ e.home = d.home /\ e.vats = d.vats /\ e.name = d.name
           /\ e.recorded = d.recorded /\ e.active = d.active
           /\ e.rooted = d.rooted
<1> DEFINE marked == gone \ ToSet(d.terminated)
           f == ReleaseRootPins(d, marked)
           ended == d.terminated \o LastFirst(marked)
<1>1. marked = gone \ Ended(d) /\ marked \in SUBSET Vats
  BY DEF Ended
<1>2. /\ f \in Stores /\ Released(d, f, marked)
      /\ f.nextVat = d.nextVat /\ f.nextSubcluster = d.nextSubcluster
      /\ f.home = d.home /\ f.vats = d.vats /\ f.name = d.name
      /\ f.recorded = d.recorded /\ f.active = d.active
      /\ f.rooted = d.rooted /\ f.terminated = d.terminated
  BY PinsReleased
<1> HIDE DEF marked, f
<1>3. e = [f EXCEPT !.terminated = ended]
  BY <1>2 DEF MarkAsTerminated, f, marked
<1>4. ended \in Seq(Vats) /\ ToSet(ended) = Ended(d) \cup gone
  <2>1. LastFirst(marked) \in Seq(Vats) /\ ToSet(LastFirst(marked)) = marked
    BY <1>1, InOrderLists
  <2>2. d.terminated \in Seq(Vats)
    BY FieldsOfStores
  <2>3. ended \in Seq(Vats) /\ ToSet(ended) = ToSet(d.terminated) \cup marked
    BY <2>1, <2>2, JoinedSet
  <2> QED
    BY <1>1, <2>3 DEF Ended
<1> HIDE DEF ended
<1> QED
  BY <1>1, <1>2, <1>3, <1>4 DEF Stores, Released, Ended

LEMMA VatsLeft ==
    ASSUME NEW d \in Stores, Sound(d), NEW gone \in SUBSET Vats,
           NEW e, e = DeleteVats(d, gone)
    PROVE  /\ Left(d, e, gone) /\ e.pins = d.pins
           /\ e.terminated = d.terminated
<1> DEFINE leaving(s) == {v \in gone : d.home[v] = s}
           home == [v \in Vats |-> IF v \in gone THEN NoSubcluster ELSE d.home[v]]
           vats == [s \in SubclusterIds |-> [n \in Members |->
                      IF d.vats[s][n] \in leaving(s) THEN NoVat ELSE d.vats[s][n]]]
<1>1. e = [d EXCEPT !.home = home, !.vats = vats, !.active = d.active \ gone]
  BY DEF DeleteVats, RemoveFromSubclusters
<1>2. home \in [Vats -> SubclusterIds \cup {NoSubcluster}]
  BY FieldsOfStores
<1>3. \A s \in SubclusterIds : \A n \in Members :
         d.vats[s][n] \in leaving(s) <=> d.vats[s][n] \in gone
  BY Bounds DEF Sound, SoundBut, Listed, NoVat
<1>4. vats \in [SubclusterIds -> [Members -> Vats \cup {NoVat}]]
  BY FieldsOfStores
<1>5. \A v \in Vats : home[v] = IF v \in gone THEN NoSubcluster ELSE d.home[v]
  OBVIOUS
<1>6. \A s \in SubclusterIds : \A n \in Members :
         vats[s][n] = IF d.vats[s][n] \in gone THEN NoVat ELSE d.vats[s][n]
  BY <1>3
<1> HIDE DEF home, vats
<1>7. e.home = home /\ e.vats = vats /\ e.active = d.active \ gone
  BY <1>1 DEF Stores
<1>8. /\ e.nextVat = d.nextVat /\ e.nextSubcluster = d.nextSubcluster
      /\ e.recorded = d.recorded /\ e.rooted = d.rooted /\ e.name = d.name
      /\ e.pins = d.pins /\ e.terminated = d.terminated
  BY <1>1 DEF Stores
<1>9. e \in Stores
  <2>1. d.active \ gone \in SUBSET Vats
    BY FieldsOfStores
  <2> QED
    BY <1>1, <1>2, <1>4, <2>1 DEF Stores
<1>10. \A v \in Vats : e.home[v] = IF v \in gone THEN NoSubcluster ELSE d.home[v]
  BY <1>5, <1>7
<1>11. \A s \in SubclusterIds : \A n \in Members :
          e.vats[s][n] = IF d.vats[s][n] \in gone THEN NoVat ELSE d.vats[s][n]
  BY <1>6, <1>7
<1> QED
  BY <1>7, <1>8, <1>9, <1>10, <1>11 DEF Left

(* Retiring vats marks them and takes them out of their subclusters.       *)
LEMMA Retired ==
    ASSUME NEW d \in Stores, Sound(d), NEW gone \in SUBSET Vats,
           NEW e, e = RetireVats(d, gone)
    PROVE  /\ Left(d, e, gone) /\ Released(d, e, gone \ Ended(d))
           /\ Ended(e) = Ended(d) \cup gone
<1> DEFINE f == MarkAsTerminated(d, gone)
<1>1. /\ f \in Stores /\ Released(d, f, gone \ Ended(d))
      /\ Ended(f) = Ended(d) \cup gone
      /\ f.nextVat = d.nextVat /\ f.nextSubcluster = d.nextSubcluster
      /\ f.home = d.home /\ f.vats = d.vats /\ f.name = d.name
      /\ f.recorded = d.recorded /\ f.active = d.active
      /\ f.rooted = d.rooted
  BY Marked
<1>2. e = DeleteVats(f, gone)
  BY DEF RetireVats
<1> HIDE DEF f
<1>3. Sound(f)
  <2>1. \A s \in SubclusterIds : Listed(f, s) = Listed(d, s)
    BY <1>1 DEF Listed
  <2> QED
    BY <1>1, <2>1 DEF Sound, SoundBut
<1>4. Left(f, e, gone) /\ e.pins = f.pins /\ e.terminated = f.terminated
  BY <1>1, <1>2, <1>3, VatsLeft
<1> QED
  BY <1>1, <1>4 DEF Left, Released, Ended


(* A vat that stands stands on when others are retired, or itself is.      *)
LEMMA RetiredStand ==
    ASSUME NEW d \in Stores, NEW gone \in SUBSET Vats, NEW e,
           Left(d, e, gone), Released(d, e, gone \ Ended(d)),
           Ended(e) = Ended(d) \cup gone,
           NEW v \in Vats, Stands(d, v), v \in gone => v < d.nextVat
    PROVE  Stands(e, v)
<1>1. v \in Int /\ d.nextVat \in Int /\ d.pins[v] \in Nat
  BY FieldsOfStores, Bounds DEF Vats
<1>2. CASE v \notin gone
  BY <1>1, <1>2 DEF Stands, Left, Released
<1>3. CASE v \in gone
  <2>1. v \notin e.active
    BY <1>3 DEF Left
  <2>2. ~(v >= e.nextVat)
    BY <1>1, <1>3 DEF Left
  <2>3. e.pins[v] = 0
    <3>1. CASE v \in d.active
      BY <1>1, <1>3, <3>1 DEF Stands, Released
    <3>2. CASE v \notin d.active
      BY <1>1, <1>3, <3>2 DEF Stands, Released
    <3> QED
      BY <3>1, <3>2
  <2>4. e.home[v] = NoSubcluster
    BY <1>3 DEF Left
  <2> QED
    BY <2>1, <2>2, <2>3, <2>4 DEF Stands
<1> QED
  BY <1>2, <1>3

(* A record that is deleted lists nobody and is the subcluster of nobody.  *)
Dissolved(d, e, s) ==
    /\ e.nextVat = d.nextVat /\ e.nextSubcluster = d.nextSubcluster
    /\ e.recorded = d.recorded \ {s} /\ e.rooted = d.rooted
    /\ \A v \in Vats : e.home[v] = IF v \in Listed(d, s) THEN NoSubcluster
                                  ELSE d.home[v]
    /\ e.vats[s] = NoMembers
    /\ \A t \in SubclusterIds \ {s} : e.vats[t] = d.vats[t]

LEMMA RecordDeleted ==
    ASSUME NEW d \in Stores, Sound(d), NEW s \in SubclusterIds,
           NEW e, e = DeleteSubcluster(d, s)
    PROVE  /\ e \in Stores /\ Sound(e) /\ Dissolved(d, e, s)
           /\ SameVats(d, e) /\ e.name = d.name
<1>1. CASE s \notin d.recorded
  <2>1. e = d /\ d.vats[s] = NoMembers /\ Listed(d, s) = {}
    BY <1>1, ListedAreVats DEF DeleteSubcluster, Sound, SoundBut
  <2> QED
    BY <1>1, <2>1 DEF Dissolved, SameVats
<1>2. CASE s \in d.recorded
  <2> DEFINE home == [v \in Vats |-> IF v \in Listed(d, s) /\ d.home[v] = s
                                     THEN NoSubcluster ELSE d.home[v]]
             vats == [d.vats EXCEPT ![s] = NoMembers]
  <2>1. e = [d EXCEPT !.recorded = d.recorded \ {s}, !.vats = vats, !.home = home]
    BY <1>2 DEF DeleteSubcluster
  <2>2. vats \in [SubclusterIds -> [Members -> Vats \cup {NoVat}]]
    BY FieldsOfStores DEF NoMembers
  <2>3. home \in [Vats -> SubclusterIds \cup {NoSubcluster}]
    BY FieldsOfStores
  <2>4. /\ vats[s] = NoMembers
        /\ \A t \in SubclusterIds \ {s} : vats[t] = d.vats[t]
    BY FieldsOfStores
  <2>5. \A v \in Vats : home[v] = IF v \in Listed(d, s) THEN NoSubcluster
                                  ELSE d.home[v]
    BY DEF Sound, SoundBut
  <2> HIDE DEF home, vats
  <2>6. /\ e \in Stores /\ SameVats(d, e) /\ e.rooted = d.rooted
        /\ e.nextVat = d.nextVat /\ e.nextSubcluster = d.nextSubcluster
        /\ e.recorded = d.recorded \ {s} /\ e.name = d.name
        /\ e.home = home /\ e.vats = vats
    <3>1. d.recorded \ {s} \in SUBSET SubclusterIds
      BY FieldsOfStores
    <3>2. e \in Stores
      BY <2>1, <2>2, <2>3, <3>1 DEF Stores
    <3>3. /\ e.rooted = d.rooted /\ e.name = d.name
          /\ e.nextVat = d.nextVat /\ e.nextSubcluster = d.nextSubcluster
          /\ e.recorded = d.recorded \ {s} /\ e.home = home /\ e.vats = vats
      BY <2>1 DEF Stores
    <3>4. SameVats(d, e)
      BY <2>1 DEF Stores, SameVats
    <3> QED
      BY <3>2, <3>3, <3>4
  <2>7. Listed(e, s) = {}
    BY <2>4, <2>6, ListedAreVats
  <2>8. \A t \in SubclusterIds \ {s} : Listed(e, t) = Listed(d, t)
    BY <2>4, <2>6 DEF Listed
  <2>9. ASSUME NEW t \in SubclusterIds, NEW v \in Vats
        PROVE  /\ v \in Listed(e, t) => home[v] = t
               /\ v \notin exposed /\ home[v] = t => v \in Listed(e, t)
    <3>1. CASE t = s
      BY <3>1, <2>5, <2>7, Bounds DEF NoSubcluster, Sound, SoundBut
    <3>2. CASE t # s
      BY <3>2, <2>5, <2>8, Bounds DEF NoSubcluster, Sound, SoundBut
    <3> QED
      BY <3>1, <3>2
  <2>10. Sound(e)
    BY <2>4, <2>5, <2>6, <2>9 DEF Sound, SoundBut
  <2> QED
    BY <2>4, <2>5, <2>6, <2>10 DEF Dissolved
<1> QED
  BY <1>1, <1>2

(* A subcluster that is removed at a boot takes its vats with it.          *)
Removed(d, e, s) ==
    /\ e \in Stores /\ Sound(e) /\ Dissolved(d, e, s)
    /\ e.active = d.active \ Listed(d, s)
    /\ \A v \in Vats : Stands(d, v) => Stands(e, v)

LEMMA Abandoned ==
    ASSUME NEW d \in Stores, Sound(d), NEW s \in SubclusterIds,
           NEW e, e = AbandonSubcluster(d, s)
    PROVE  Removed(d, e, s)
<1> DEFINE gone == Listed(d, s)
           f == ReleaseRootPins(d, gone)
           ended == d.terminated \o InOrder(gone \ ToSet(d.terminated))
           g == [f EXCEPT !.active = d.active \ gone, !.terminated = ended]
<1>1. gone \in SUBSET Vats /\ \A v \in gone : v < d.nextVat /\ d.home[v] = s
  BY ListedAreVats, Bounds DEF Sound, SoundBut, NoSubcluster
<1>2. /\ f \in Stores /\ Released(d, f, gone)
      /\ f.nextVat = d.nextVat /\ f.nextSubcluster = d.nextSubcluster
      /\ f.home = d.home /\ f.vats = d.vats /\ f.name = d.name
      /\ f.recorded = d.recorded /\ f.active = d.active
      /\ f.rooted = d.rooted /\ f.terminated = d.terminated
  BY PinsReleased
<1>3. e = DeleteSubcluster(g, s)
  <2> HIDE DEF f
  <2> QED
    BY <1>2 DEF AbandonSubcluster, f
<1>4. ended \in Seq(Vats) /\ ToSet(ended) = Ended(d) \cup gone
  <2> DEFINE new == gone \ ToSet(d.terminated)
  <2>1. new \in SUBSET Vats
    BY <1>1
  <2>2. InOrder(new) \in Seq(Vats) /\ ToSet(InOrder(new)) = new
    BY <2>1, InOrderLists
  <2>3. d.terminated \in Seq(Vats)
    BY FieldsOfStores
  <2>4. ended \in Seq(Vats) /\ ToSet(ended) = ToSet(d.terminated) \cup new
    BY <2>2, <2>3, JoinedSet
  <2> QED
    BY <2>4 DEF Ended
<1> HIDE DEF gone, f, ended
<1>5. d.active \ gone \in SUBSET Vats
  BY FieldsOfStores
<1>6. /\ g \in Stores /\ g.active = d.active \ gone /\ g.terminated = ended
      /\ g.nextVat = d.nextVat /\ g.nextSubcluster = d.nextSubcluster
      /\ g.home = d.home /\ g.vats = d.vats /\ g.pins = f.pins
      /\ g.name = d.name /\ g.recorded = d.recorded /\ g.rooted = d.rooted
  BY <1>2, <1>4, <1>5 DEF Stores
<1>7. Sound(g)
  <2>1. \A t \in SubclusterIds : Listed(g, t) = Listed(d, t)
    BY <1>6 DEF Listed
  <2> QED
    BY <1>6, <2>1 DEF Sound, SoundBut
<1> HIDE DEF g
<1>8. /\ e \in Stores /\ Sound(e) /\ Dissolved(g, e, s) /\ SameVats(g, e)
  BY <1>3, <1>6, <1>7, RecordDeleted
<1>9. Dissolved(d, e, s)
  BY <1>6, <1>8 DEF Dissolved, Listed
<1>10. /\ e.active = d.active \ gone /\ e.pins = f.pins
       /\ Ended(e) = Ended(d) \cup gone
  BY <1>4, <1>6, <1>8 DEF SameVats, Ended
<1>11. ASSUME NEW v \in Vats, Stands(d, v) PROVE Stands(e, v)
  <2>1. d.pins[v] \in Nat /\ v \in Int /\ d.nextVat \in Int
    BY FieldsOfStores, Bounds DEF Vats
  <2>2. e.nextVat = d.nextVat /\ e.rooted = d.rooted
    BY <1>9 DEF Dissolved
  <2>3. CASE v \in gone
    <3>1. v \notin e.active /\ ~(v >= e.nextVat)
      BY <1>1, <1>10, <2>1, <2>2, <2>3
    <3>2. e.pins[v] = 0
      <4>1. e.pins[v] = IF v \in d.rooted /\ d.pins[v] > 0 THEN d.pins[v] - 1
                        ELSE d.pins[v]
        BY <1>2, <1>10, <2>3 DEF Released
      <4>2. CASE v \in d.active
        BY <1>11, <2>1, <4>1, <4>2 DEF Stands
      <4>3. CASE v \notin d.active
        BY <1>11, <2>1, <4>1, <4>3 DEF Stands
      <4> QED
        BY <4>2, <4>3
    <3>3. e.home[v] = NoSubcluster
      BY <1>9, <2>3 DEF Dissolved, gone
    <3> QED
      BY <3>1, <3>2, <3>3 DEF Stands
  <2>4. CASE v \notin gone
    <3>1. e.pins[v] = d.pins[v]
      BY <1>2, <1>10, <2>4 DEF Released
    <3>2. e.home[v] = d.home[v]
      BY <1>9, <2>4 DEF Dissolved, gone
    <3> QED
      BY <1>10, <1>11, <2>2, <2>4, <3>1, <3>2 DEF Stands
  <2> QED
    BY <2>3, <2>4
<1> QED
  BY <1>8, <1>9, <1>10, <1>11 DEF Removed, gone

LEMMA NameDropped ==
    ASSUME NEW d \in Stores, Sound(d), NEW e,
           NEW s \in SubclusterIds \cup {NoSubcluster},
           e = [d EXCEPT !.name = s]
    PROVE  /\ e \in Stores /\ Sound(e) /\ SameVats(d, e) /\ e.name = s
           /\ e.nextVat = d.nextVat /\ e.nextSubcluster = d.nextSubcluster
           /\ e.recorded = d.recorded /\ e.home = d.home /\ e.vats = d.vats
           /\ \A v \in Vats : Stands(d, v) => Stands(e, v)
<1>1. /\ e \in Stores /\ SameVats(d, e) /\ e.name = s
      /\ e.nextVat = d.nextVat /\ e.nextSubcluster = d.nextSubcluster
      /\ e.recorded = d.recorded /\ e.home = d.home /\ e.vats = d.vats
  BY DEF Stores, SameVats
<1>2. \A t \in SubclusterIds : Listed(e, t) = Listed(d, t)
  BY <1>1 DEF Listed
<1> QED
  BY <1>1, <1>2 DEF Sound, SoundBut, Stands, SameVats, Ended

(* Without its bootstrap vat a named subcluster goes, and with it nothing  *)
(* of another.                                                             *)
LEMMA WithoutBootstrap ==
    ASSUME NEW d \in Stores, Sound(d), NEW e, e = RemoveWithoutBootstrap(d)
    PROVE  \/ /\ e = d
              /\ d.name # NoSubcluster => d.vats[d.name][Bootstrap] # NoVat
           \/ /\ d.name # NoSubcluster /\ d.vats[d.name][Bootstrap] = NoVat
              /\ Removed(d, e, d.name) /\ e.name = NoSubcluster
<1>1. CASE d.name = NoSubcluster \/ d.vats[d.name][Bootstrap] # NoVat
  BY <1>1 DEF RemoveWithoutBootstrap
<1>2. CASE ~(d.name = NoSubcluster \/ d.vats[d.name][Bootstrap] # NoVat)
  <2> DEFINE s == d.name
             left == Listed(d, s) \cap (handles \cup d.active)
             f == RetireVats(d, left)
             g == DeleteSubcluster(f, s)
  <2>1. e = [g EXCEPT !.name = NoSubcluster]
    BY <1>2 DEF RemoveWithoutBootstrap
  <2>2. s \in SubclusterIds
    BY <1>2, FieldsOfStores
  <2>3. left \in SUBSET Vats /\ \A v \in left : v < d.nextVat /\ d.home[v] = s
    BY <2>2, ListedAreVats, Bounds DEF Sound, SoundBut, NoSubcluster
  <2> HIDE DEF left
  <2>4. /\ Left(d, f, left) /\ Released(d, f, left \ Ended(d))
        /\ Ended(f) = Ended(d) \cup left
    BY <2>3, Retired
  <2>5. f \in Stores /\ Sound(f)
    BY <2>3, <2>4, LeftIsSound DEF Left
  <2> HIDE DEF f
  <2>6. /\ g \in Stores /\ Sound(g) /\ Dissolved(f, g, s) /\ SameVats(f, g)
    BY <2>2, <2>5, RecordDeleted
  <2> HIDE DEF g
  <2>7. /\ e \in Stores /\ Sound(e) /\ SameVats(g, e) /\ e.name = NoSubcluster
        /\ e.nextVat = g.nextVat /\ e.nextSubcluster = g.nextSubcluster
        /\ e.recorded = g.recorded /\ e.home = g.home /\ e.vats = g.vats
    BY <2>1, <2>6, NameDropped
  <2>8. Dissolved(d, e, s)
    <3>1. ASSUME NEW v \in Vats
          PROVE  e.home[v] = IF v \in Listed(d, s) THEN NoSubcluster
                             ELSE d.home[v]
      <4>1. e.home[v] = IF v \in Listed(f, s) THEN NoSubcluster ELSE f.home[v]
        BY <2>6, <2>7 DEF Dissolved
      <4>2. f.home[v] = IF v \in left THEN NoSubcluster ELSE d.home[v]
        BY <2>4 DEF Left
      <4>3. Listed(f, s) = Listed(d, s) \ left /\ left \subseteq Listed(d, s)
        BY <2>2, <2>3, <2>4, LeftIsSound DEF left
      <4> QED
        BY <4>1, <4>2, <4>3
    <3>2. ASSUME NEW t \in SubclusterIds \ {s} PROVE e.vats[t] = d.vats[t]
      <4>1. /\ f.vats[t] \in [Members -> Vats \cup {NoVat}]
            /\ d.vats[t] \in [Members -> Vats \cup {NoVat}]
        BY <2>5, FieldsOfStores
      <4>2. \A n \in Members : d.vats[t][n] \notin left
        BY <2>3, Bounds DEF Sound, SoundBut, Listed, NoVat
      <4>3. \A n \in Members : f.vats[t][n] = d.vats[t][n]
        BY <2>4, <4>2 DEF Left
      <4>4. f.vats[t] = d.vats[t]
        BY <4>1, <4>3
      <4> QED
        BY <2>6, <2>7, <4>4 DEF Dissolved
    <3> QED
      BY <2>4, <2>6, <2>7, <3>1, <3>2 DEF Dissolved, Left, SameVats
  <2>9. e.active = d.active \ Listed(d, s)
    BY <2>4, <2>6, <2>7 DEF Left, SameVats, left
  <2>10. ASSUME NEW v \in Vats, Stands(d, v) PROVE Stands(e, v)
    <3>1. Stands(f, v)
      BY <2>3, <2>4, <2>10, RetiredStand
    <3>2. v \in e.active => e.home[v] = d.home[v] /\ d.home[v] # NoSubcluster
      BY <2>8, <2>9, <2>10 DEF Dissolved, Stands
    <3>3. /\ e.active = f.active /\ e.pins = f.pins /\ e.rooted = f.rooted
          /\ Ended(e) = Ended(f) /\ e.nextVat = f.nextVat
      BY <2>6, <2>7 DEF SameVats, Dissolved, Ended
    <3>4. e.home[v] \in {f.home[v], NoSubcluster}
      BY <2>6, <2>7 DEF Dissolved
    <3> QED
      BY <3>1, <3>2, <3>3, <3>4 DEF Stands
  <2> QED
    BY <1>2, <2>7, <2>8, <2>9, <2>10 DEF Removed
<1> QED
  BY <1>1, <1>2

LEMMA VatRecorded ==
    ASSUME NEW d \in Stores, Sound(d), NEW v \in Vats, NEW e, e = RecordVat(d, v)
    PROVE  /\ e \in Stores /\ Sound(e)
           /\ e.nextVat = d.nextVat /\ e.nextSubcluster = d.nextSubcluster
           /\ e.recorded = d.recorded /\ e.home = d.home /\ e.vats = d.vats
           /\ e.name = d.name /\ Ended(e) = Ended(d)
           /\ e.active = d.active \cup {v} /\ e.rooted = d.rooted \cup {v}
           /\ e.pins[v] = d.pins[v] + 1
           /\ \A w \in Vats \ {v} : e.pins[w] = d.pins[w]
<1> DEFINE pins == [d.pins EXCEPT ![v] = @ + 1]
<1>1. e = [d EXCEPT !.rooted = d.rooted \cup {v}, !.pins = pins,
                    !.active = d.active \cup {v}]
  BY DEF RecordVat
<1>2. /\ pins \in [Vats -> Nat] /\ pins[v] = d.pins[v] + 1
      /\ \A w \in Vats \ {v} : pins[w] = d.pins[w]
  BY FieldsOfStores
<1>3. d.rooted \cup {v} \in SUBSET Vats /\ d.active \cup {v} \in SUBSET Vats
  BY FieldsOfStores
<1> HIDE DEF pins
<1>4. /\ e \in Stores
      /\ e.nextVat = d.nextVat /\ e.nextSubcluster = d.nextSubcluster
      /\ e.recorded = d.recorded /\ e.home = d.home /\ e.vats = d.vats
      /\ e.name = d.name /\ e.terminated = d.terminated
      /\ e.active = d.active \cup {v} /\ e.rooted = d.rooted \cup {v}
      /\ e.pins = pins
  BY <1>1, <1>2, <1>3 DEF Stores
<1>5. \A t \in SubclusterIds : Listed(e, t) = Listed(d, t)
  BY <1>4 DEF Listed
<1> QED
  BY <1>2, <1>4, <1>5 DEF Sound, SoundBut, Ended

-----------------------------------------------------------------------------
(* The steps that keep the store and its callers in order.                 *)

(* Ids are given out as before.                                            *)
Keeps(d, e) ==
    /\ e \in Stores /\ Sound(e)
    /\ e.nextVat = d.nextVat /\ e.nextSubcluster = d.nextSubcluster

LEMMA KeepsItself ==
    ASSUME NEW d \in Stores, Sound(d)
    PROVE  Keeps(d, d)
BY DEF Keeps

LEMMA KeepsOn ==
    ASSUME NEW d, NEW e, NEW f, Keeps(d, e), Keeps(e, f)
    PROVE  Keeps(d, f)
BY DEF Keeps

LEMMA SweptKeeps ==
    ASSUME NEW d \in Stores, Sound(d), NEW e, Swept(d, e)
    PROVE  Keeps(d, e)
BY SweptIsSound DEF Keeps, Swept

LEMMA LeftKeeps ==
    ASSUME NEW d \in Stores, Sound(d), NEW gone \in SUBSET Vats,
           NEW e, Left(d, e, gone)
    PROVE  Keeps(d, e)
BY LeftIsSound DEF Keeps, Left

LEMMA MarkedKeeps ==
    ASSUME NEW d \in Stores, Sound(d), NEW gone \in SUBSET Vats
    PROVE  Keeps(d, MarkAsTerminated(d, gone))
<1> DEFINE e == MarkAsTerminated(d, gone)
<1>1. /\ e \in Stores /\ Released(d, e, gone \ Ended(d))
      /\ Ended(e) = Ended(d) \cup gone
      /\ e.nextVat = d.nextVat /\ e.nextSubcluster = d.nextSubcluster
      /\ e.home = d.home /\ e.vats = d.vats /\ e.name = d.name
      /\ e.recorded = d.recorded /\ e.active = d.active
      /\ e.rooted = d.rooted
  BY Marked, ZenonT(40)
<1> HIDE DEF e
<1>2. \A s \in SubclusterIds : Listed(e, s) = Listed(d, s)
  BY <1>1 DEF Listed
<1>3. Sound(e)
  BY <1>1, <1>2 DEF Sound, SoundBut
<1>4. Keeps(d, e)
  BY <1>1, <1>3 DEF Keeps
<1> QED
  BY <1>4 DEF e

LEMMA DissolvedKeeps ==
    ASSUME NEW d \in Stores, NEW s \in SubclusterIds,
           NEW e \in Stores, Sound(e), Dissolved(d, e, s)
    PROVE  Keeps(d, e)
BY DEF Keeps, Dissolved

(* The calls of which none begins to wait for its channels.                *)
Follow(before, after) ==
    /\ after \in [Calls -> CallStates]
    /\ \A c \in Calls :
          /\ Shaped(c, after[c])
          /\ after[c].phase = "channels" => before[c].phase = "channels"

LEMMA FollowItself ==
    ASSUME StoreInv
    PROVE  Follow(calls, calls)
BY DEF StoreInv, TypeOK, Follow

LEMMA ChannelsKeepWaiting ==
    ASSUME StoreInv, Follow(calls, calls'),
           NEW e, e = db', e.nextVat <= db.nextVat, e.nextVat \in Int
    PROVE  ChannelsWait'
<1> SUFFICES ASSUME calls'["launch"].phase = "channels"
             PROVE  HasRoom(e)
  BY DEF ChannelsWait, HasRoom
<1>1. calls["launch"].phase = "channels"
  BY DEF Follow, Calls
<1>2. db.nextVat + NumMembers - 1 <= MaxVats /\ db.nextVat \in Int
  BY <1>1, FieldsOfStores DEF StoreInv, TypeOK, ChannelsWait, HasRoom
<1> QED
  BY <1>2, Bounds DEF HasRoom

(* A crank is open only while the kernel runs.                             *)
LEMMA OpenWhileRunning ==
    ASSUME StoreInv, IsOpen
    PROVE  Running
BY DEF StoreInv, BootIsAlone, NothingIsAsked, IsOpen, Running

LEMMA CrankOpens ==
    ASSUME StoreInv, Running, ~IsOpen, up' = up,
           NEW item \in {"idle", "end", "delivery"} \cup Launches,
           NEW v \in Vats, NEW d, Keeps(db, d), OpenCrank(item, v, d),
           Follow(calls, calls'), queued' \in Seq(Vats), held' = held,
           handles' \subseteq Vats, workers' \subseteq Vats, root' = root,
           spent' \in [deliveries : Nat, faults : Nat, botched : Nat, crashes : Nat],
           exposed \subseteq exposed', exposed' \subseteq Vats
    PROVE  StoreInv'
<1>1. /\ db' = d /\ saved' = db /\ crank' = [item |-> item, vat |-> v]
      /\ d \in Stores /\ Sound(d)
  BY DEF OpenCrank, Keeps
<1>2. crank' \in Cranks /\ crank' # Closed
  BY <1>1 DEF Cranks, Closed, Launches
<1>3. TypeOK'
  BY <1>1, <1>2 DEF StoreInv, TypeOK, Follow
<1>4. (Sound(db) /\ Sound(saved))'
  BY <1>1, SoundLater DEF StoreInv, Sound
<1>5. \A c \in Calls : Shaped(c, calls'[c])
  BY DEF Follow
<1>6. ChannelsWait'
  <2>1. d.nextVat <= db.nextVat /\ d.nextVat \in Int
    BY FieldsOfStores DEF Keeps
  <2> QED
    BY <1>1, <2>1, ChannelsKeepWaiting
<1>7. BootIsAlone'
  BY DEF BootIsAlone, Running
<1>8. SavedIsBehind'
  <2>1. db.nextVat \in Int /\ db.nextSubcluster \in Int
    BY FieldsOfStores DEF StoreInv, TypeOK
  <2>2. IsOpen' /\ crank'.item # "none" /\ crank'.vat # NoVat
    BY <1>1, <1>2, Bounds DEF IsOpen, Launches, NoVat
  <2> QED
    BY <1>1, <2>1, <2>2 DEF SavedIsBehind, Keeps
<1> QED
  BY <1>3, <1>4, <1>5, <1>6, <1>7, <1>8 DEF StoreInv

LEMMA CrankCloses ==
    ASSUME StoreInv, IsOpen, up' = up,
           NEW d \in Stores, Sound(d), d.nextVat <= db.nextVat, CloseCrank(d),
           Follow(calls, calls'),
           handles' \subseteq Vats, workers' \subseteq Vats, root' = root,
           spent' \in [deliveries : Nat, faults : Nat, botched : Nat, crashes : Nat],
           exposed \subseteq exposed', exposed' \subseteq Vats
    PROVE  StoreInv'
<1>1. /\ db' = ClearEmptySubclusters(d) /\ saved' = EmptyStore
      /\ crank' = Closed /\ queued' = queued \o held /\ held' = <<>>
  BY DEF CloseCrank
<1>2. Keeps(d, db')
  BY <1>1, EmptyOnesCleared, SweptKeeps
<1>3. TypeOK'
  <2>1. queued \o held \in Seq(Vats) /\ <<>> \in Seq(Vats)
    BY JoinedSet DEF StoreInv, TypeOK
  <2>2. Closed \in Cranks
    BY DEF Closed, Cranks
  <2> QED
    BY <1>1, <1>2, <2>1, <2>2, EmptyStoreIsSound DEF StoreInv, TypeOK, Follow, Keeps
<1>4. (Sound(db) /\ Sound(saved))'
  BY <1>1, <1>2, EmptyStoreIsSound, SoundLater DEF Keeps, Sound
<1>5. \A c \in Calls : Shaped(c, calls'[c])
  BY DEF Follow
<1>6. ChannelsWait'
  <2>1. db'.nextVat <= db.nextVat /\ db'.nextVat \in Int
    BY <1>2, FieldsOfStores DEF Keeps
  <2> QED
    BY <2>1, ChannelsKeepWaiting
<1>7. BootIsAlone'
  BY OpenWhileRunning DEF BootIsAlone, Running
<1>8. SavedIsBehind'
  <2>1. /\ db'.nextVat \in 1 .. MaxVats + 1
        /\ db'.nextSubcluster \in 1 .. MaxSubclusters + 1
    BY <1>2, FieldsOfStores DEF Keeps
  <2>2. EmptyStore.nextVat = 1 /\ EmptyStore.nextSubcluster = 1
    BY DEF EmptyStore
  <2> QED
    BY <1>1, <2>1, <2>2, Bounds DEF SavedIsBehind, IsOpen, Closed
<1> QED
  BY <1>3, <1>4, <1>5, <1>6, <1>7, <1>8 DEF StoreInv

LEMMA WhoIsUnderWayRuns ==
    ASSUME StoreInv, NEW c \in Calls, calls[c].phase \notin {"none", "done"}
    PROVE  Running
<1>1. \A phase : [NoCall EXCEPT !.phase = phase].phase = phase
  BY DEF NoCall
<1>2. NoCall.phase = "none"
  BY DEF NoCall
<1> QED
  BY <1>1, <1>2 DEF StoreInv, BootIsAlone, NothingIsAsked, Running

LEMMA CallChanges ==
    ASSUME StoreInv, NEW c \in Calls, NEW call \in CallStates, Shaped(c, call),
           calls' = [calls EXCEPT ![c] = call]
    PROVE  /\ calls' \in [Calls -> CallStates] /\ calls'[c] = call
           /\ \A a \in Calls \ {c} : calls'[a] = calls[a]
           /\ \A a \in Calls : Shaped(a, calls'[a])
BY DEF StoreInv, TypeOK

LEMMA InBetween ==
    ASSUME NEW i \in Int, NEW j \in Int, NEW k \in Int, i <= j, j <= k
    PROVE  i <= k
OBVIOUS

(* One caller takes a step, and the rest of the kernel what follows of it. *)
LEMMA CallerActs ==
    ASSUME StoreInv, NEW c \in Calls, Running, up' = up,
           NEW call \in CallStates, Shaped(c, call),
           calls' = [calls EXCEPT ![c] = call],
           NEW d \in Stores, Sound(d) \/ SoundBut(d, exposed'), db' = d,
           UNCHANGED <<saved, crank>>,
           db.nextVat <= d.nextVat, db.nextSubcluster <= d.nextSubcluster,
           c = "launch" /\ call.phase = "channels" => HasRoom(d),
           c # "launch" /\ calls["launch"].phase = "channels" =>
              d.nextVat = db.nextVat \/ HasRoom(d),
           queued' \in Seq(Vats), held' \in Seq(Vats), ~IsOpen => held' = held,
           handles' \subseteq Vats, workers' \subseteq Vats,
           root' \in Vats \cup {NoVat},
           spent' \in [deliveries : Nat, faults : Nat, botched : Nat, crashes : Nat],
           exposed \subseteq exposed', exposed' \subseteq Vats
    PROVE  StoreInv'
<1>1. /\ calls' \in [Calls -> CallStates] /\ calls'[c] = call
      /\ \A a \in Calls \ {c} : calls'[a] = calls[a]
      /\ \A a \in Calls : Shaped(a, calls'[a])
  BY CallChanges
<1>2. TypeOK'
  BY <1>1 DEF StoreInv, TypeOK
<1>3. (Sound(db) /\ Sound(saved))'
  BY SoundLater DEF StoreInv, Sound
<1>4. ChannelsWait'
  <2>1. CASE c = "launch"
    BY <1>1, <2>1 DEF ChannelsWait, HasRoom
  <2>2. CASE c # "launch"
    BY <1>1, <2>2 DEF StoreInv, ChannelsWait, HasRoom, Calls
  <2> QED
    BY <2>1, <2>2
<1>5. BootIsAlone'
  BY DEF BootIsAlone, Running
<1>6. SavedIsBehind'
  <2>1. db \in Stores /\ saved \in Stores /\ SavedIsBehind
    BY DEF StoreInv, TypeOK
  <2>2. /\ db.nextVat \in Int /\ db.nextSubcluster \in Int
        /\ saved.nextVat \in Int /\ saved.nextSubcluster \in Int
        /\ d.nextVat \in Int /\ d.nextSubcluster \in Int
    <3>1. \A e \in Stores : e.nextVat \in Int /\ e.nextSubcluster \in Int
      BY FieldsOfStores
    <3> QED
      BY <2>1, <3>1
  <2>3. saved.nextVat <= d.nextVat /\ saved.nextSubcluster <= d.nextSubcluster
    <3>1. saved.nextVat <= db.nextVat /\ saved.nextSubcluster <= db.nextSubcluster
      BY <2>1 DEF SavedIsBehind
    <3> QED
      BY <2>2, <3>1, InBetween
  <2>4. saved' = saved /\ crank' = crank /\ db' = d /\ (IsOpen <=> IsOpen')
    BY DEF IsOpen
  <2>5. (saved.nextVat <= db.nextVat)' /\ (saved.nextSubcluster <= db.nextSubcluster)'
    BY <2>3, <2>4
  <2>6. (IsOpen <=> crank.item # "none")' /\ (IsOpen <=> crank.vat # NoVat)'
    BY <2>1, <2>4 DEF SavedIsBehind
  <2>7. (~IsOpen => saved = EmptyStore /\ held = <<>>)'
    BY <2>1, <2>4 DEF SavedIsBehind
  <2> QED
    BY <2>5, <2>6, <2>7 DEF SavedIsBehind
<1>7. \A a \in Calls : Shaped(a, calls[a])'
  BY <1>1
<1> QED
  BY <1>2, <1>3, <1>4, <1>5, <1>6, <1>7 DEF StoreInv

(* A caller whose step leaves everything but itself alone.                 *)
LEMMA CallerGoesOn ==
    ASSUME StoreInv, NEW c \in Calls, Running, up' = up,
           NEW call \in CallStates, Shaped(c, call),
           call.phase # "channels",
           calls' = [calls EXCEPT ![c] = call],
           UNCHANGED <<db, saved, crank, queued, held, handles, workers, root>>,
           spent' \in [deliveries : Nat, faults : Nat, botched : Nat, crashes : Nat],
           exposed \subseteq exposed', exposed' \subseteq Vats
    PROVE  StoreInv'
<1>1. /\ db \in Stores /\ Sound(db) /\ db' = db
      /\ queued \in Seq(Vats) /\ held \in Seq(Vats)
      /\ handles \subseteq Vats /\ workers \subseteq Vats
      /\ root \in Vats \cup {NoVat}
  BY DEF StoreInv, TypeOK
<1>2. /\ Keeps(db, db)
      /\ db.nextVat <= db.nextVat /\ db.nextSubcluster <= db.nextSubcluster
  BY <1>1, FieldsOfStores, KeepsItself
<1> QED
  BY <1>1, <1>2, CallerActs

-----------------------------------------------------------------------------
(* Each step of a caller.                                                  *)

LEMMA ShapeOfCalls ==
    ASSUME StoreInv, NEW c \in Calls
    PROVE  calls[c] \in CallStates /\ Shaped(c, calls[c]) /\ NoCall \in CallStates
<1>1. NoMembers \in [Members -> Vats \cup {NoVat}]
  BY DEF NoMembers
<1> QED
  BY <1>1, Bounds DEF StoreInv, TypeOK, NoCall, CallStates, NoSubcluster

(* A call whose members start, and one that is over.                       *)
LEMMA StartedCall ==
    ASSUME NoCall \in CallStates, NEW c \in Launches, NEW s \in SubclusterIds,
           NEW vats \in [Members -> Vats], Distinct(vats),
           NEW starting \in SUBSET Members, NEW call,
           call = [NoCall EXCEPT !.phase = "starting", !.sub = s, !.vats = vats,
                                 !.starting = starting]
    PROVE  call \in CallStates /\ call.phase = "starting" /\ Shaped(c, call)
<1>1. vats \in [Members -> Vats \cup {NoVat}]
  OBVIOUS
<1>2. call \in CallStates
  BY <1>1 DEF CallStates
<1>3. /\ call.phase = "starting" /\ call.sub = s /\ call.vats = vats
      /\ call.todo = {} /\ call.wait = "none" /\ call.left = {}
  BY DEF NoCall
<1> QED
  BY <1>2, <1>3 DEF Shaped, HasMembers

LEMMA CallIsOver ==
    ASSUME NoCall \in CallStates, NEW c, NEW phase \in {"none", "done", "failed"},
           NEW call, call = [NoCall EXCEPT !.phase = phase]
    PROVE  call \in CallStates /\ call.phase = phase /\ Shaped(c, call)
<1>1. call \in CallStates
  BY DEF CallStates
<1>2. /\ call.phase = phase /\ call.starting = {} /\ call.todo = {}
      /\ call.wait = "none" /\ call.left = {}
  BY DEF NoCall
<1> QED
  BY <1>1, <1>2 DEF Shaped, HasMembers

LEMMA NewAreVats ==
    ASSUME NEW d, NewVats(d) \in [Members -> Vats]
    PROVE  ToSet(NewVats(d)) \subseteq Vats
<1>1. ToSet(NewVats(d)) = {NewVats(d)[n] : n \in Members}
  BY DEF ToSet, NewVats
<1> QED
  BY <1>1

LEMMA LaunchingKeeps ==
    ASSUME StoreInv, NEW c \in Launches, LaunchSubcluster(c)
    PROVE  StoreInv'
<1> DEFINE s == db.nextSubcluster
           e == AddSubcluster(db)
           f == AddSubclusterVats(e, s)
<1>1. /\ Running /\ calls[c].phase = "none"
      /\ s <= MaxSubclusters
      /\ db.nextVat + NumMembers + Reserved - 1 <= MaxVats
      /\ UNCHANGED <<saved, crank, queued, held, handles, workers, root, up,
                     spent>>
  BY DEF LaunchSubcluster
<1>2. c \in Calls
  BY DEF Launches, Calls
<1>3. db \in Stores /\ Sound(db) /\ saved \in Stores /\ Sound(saved)
  BY DEF StoreInv, TypeOK
<1>4. /\ e \in Stores /\ Sound(e)
      /\ s \in SubclusterIds \ db.recorded
      /\ e.nextSubcluster = s + 1 /\ e.recorded = db.recorded \cup {s}
      /\ e.nextVat = db.nextVat /\ e.vats = db.vats
  BY <1>1, <1>3, NewSubcluster
<1>5. Listed(e, s) = {}
  <2>1. e.vats[s] = NoMembers
    BY <1>3, <1>4 DEF Sound, SoundBut
  <2> QED
    BY <1>4, <2>1, ListedAreVats
<1>6. s \in Int /\ db.nextVat \in Int /\ NumMembers \in Int /\ NumMembers >= 1
  BY <1>3, FieldsOfStores, Bounds
<1>7. /\ db.nextVat + NumMembers - 1 <= MaxVats
      /\ calls["launch"].phase = "channels" =>
            db.nextVat + NumMembers + NumMembers - 1 <= MaxVats
  <2>1. Reserved \in {0, NumMembers}
    BY DEF Reserved
  <2>2. calls["launch"].phase = "channels" => Reserved = NumMembers
    BY DEF Reserved, Launches
  <2> QED
    BY <1>1, <1>6, <2>1, <2>2, Bounds
<1>8. /\ queued \in Seq(Vats) /\ held \in Seq(Vats)
      /\ handles \subseteq Vats /\ workers \subseteq Vats
      /\ root \in Vats \cup {NoVat} /\ exposed \subseteq Vats
      /\ spent \in [deliveries : Nat, faults : Nat, botched : Nat, crashes : Nat]
  BY DEF StoreInv, TypeOK
<1>9. calls[c] \in CallStates /\ Shaped(c, calls[c]) /\ NoCall \in CallStates
  BY <1>2, ShapeOfCalls
<1>10. CASE StartMembers(e, c, s)
  <2> DEFINE call == [NoCall EXCEPT
                 !.phase = "starting", !.sub = s, !.vats = NewVats(e),
                 !.starting = IF s \in e.recorded THEN Members ELSE {}]
  <2>1. /\ db' = f /\ calls' = [calls EXCEPT ![c] = call]
        /\ exposed' \subseteq exposed \cup ToSet(NewVats(e))
        /\ exposed \subseteq exposed'
    BY <1>5, <1>10 DEF StartMembers
  <2>2. /\ f \in Stores /\ Sound(f) /\ f.nextVat = db.nextVat + NumMembers
        /\ NewVats(e) \in [Members -> Vats] /\ Distinct(NewVats(e))
        /\ f.nextSubcluster = s + 1
    <3>1. e.nextVat + NumMembers - 1 <= MaxVats /\ s \in SubclusterIds
      BY <1>4, <1>7
    <3>2. exposed \cup Listed(e, s) = exposed
      BY <1>5
    <3> HIDE DEF s, e, f
    <3>3. /\ f \in Stores /\ SoundBut(f, exposed \cup Listed(e, s))
          /\ NewVats(e) \in [Members -> Vats] /\ Distinct(NewVats(e))
          /\ f.nextVat = e.nextVat + NumMembers
          /\ f.nextSubcluster = e.nextSubcluster
      BY <1>4, <3>1, NewMembers DEF f, PlacesIn
    <3> QED
      BY <1>4, <3>2, <3>3 DEF Sound
  <2>3. call \in CallStates /\ call.phase = "starting" /\ Shaped(c, call)
    <3> DEFINE starting == IF s \in e.recorded THEN Members ELSE {}
    <3>1. starting \in SUBSET Members
      OBVIOUS
    <3>2. call = [NoCall EXCEPT !.phase = "starting", !.sub = s,
                                !.vats = NewVats(e), !.starting = starting]
      OBVIOUS
    <3> HIDE DEF s, e, f, call, starting
    <3>3. /\ s \in SubclusterIds /\ NoCall \in CallStates
          /\ NewVats(e) \in [Members -> Vats] /\ Distinct(NewVats(e))
      BY <1>4, <1>9, <2>2
    <3> QED
      BY <3>1, <3>2, <3>3, StartedCall
  <2>4. db.nextVat <= f.nextVat /\ db.nextSubcluster <= f.nextSubcluster
    BY <1>6, <2>2
  <2>5. calls["launch"].phase = "channels" => HasRoom(f)
    BY <1>6, <1>7, <2>2, Bounds DEF HasRoom
  <2>6. exposed' \subseteq Vats
    BY <1>8, <2>1, <2>2, NewAreVats
  <2> HIDE DEF call, f, e, s
  <2> QED
    BY <1>1, <1>2, <1>8, <2>1, <2>2, <2>3, <2>4, <2>5, <2>6, CallerActs
<1>11. CASE /\ c = "launch" /\ db' = e /\ exposed' = exposed
            /\ calls' = [calls EXCEPT ![c].phase = "channels", ![c].sub = s]
  <2> DEFINE call == [calls[c] EXCEPT !.phase = "channels", !.sub = s]
  <2>1. calls' = [calls EXCEPT ![c] = call]
    BY <1>2, <1>11 DEF StoreInv, TypeOK
  <2>2. /\ call \in CallStates /\ call.phase = "channels" /\ call.sub = s
        /\ Shaped(c, call)
    <3> HIDE DEF s
    <3> QED
      BY <1>1, <1>4, <1>9, <1>11 DEF CallStates, Shaped, HasMembers
  <2>3. db.nextVat <= e.nextVat /\ db.nextSubcluster <= e.nextSubcluster
    BY <1>4, <1>6
  <2>4. HasRoom(e)
    BY <1>4, <1>7 DEF HasRoom
  <2> HIDE DEF call, e, s
  <2>5. e \in Stores /\ Sound(e) /\ db' = e
    BY <1>4, <1>11
  <2> QED
    BY <1>1, <1>2, <1>8, <1>11, <2>1, <2>2, <2>3, <2>4, <2>5, CallerActs
<1> QED
  BY <1>10, <1>11 DEF LaunchSubcluster

(* What every step may take for granted.                                   *)
LEMMA Variables ==
    ASSUME StoreInv
    PROVE  /\ db \in Stores /\ Sound(db) /\ saved \in Stores /\ Sound(saved)
           /\ queued \in Seq(Vats) /\ held \in Seq(Vats)
           /\ handles \subseteq Vats /\ workers \subseteq Vats
           /\ root \in Vats \cup {NoVat} /\ exposed \subseteq Vats
           /\ spent \in [deliveries : Nat, faults : Nat, botched : Nat, crashes : Nat]
           /\ db.nextVat <= db.nextVat /\ db.nextSubcluster <= db.nextSubcluster
           /\ Keeps(db, db)
BY FieldsOfStores, KeepsItself DEF StoreInv, TypeOK

LEMMA CreatingChannelsKeeps ==
    ASSUME StoreInv, NEW c \in Launches, CreateChannels(c)
    PROVE  StoreInv'
<1> DEFINE s == calls[c].sub
           f == AddSubclusterVats(db, s)
           call == [NoCall EXCEPT
               !.phase = "starting", !.sub = s, !.vats = NewVats(db),
               !.starting = IF s \in db.recorded THEN Members ELSE {}]
<1>1. /\ calls[c].phase = "channels"
      /\ db' = f /\ calls' = [calls EXCEPT ![c] = call]
      /\ exposed \cup Listed(db, s) \subseteq exposed'
      /\ exposed' \subseteq exposed \cup Listed(db, s) \cup ToSet(NewVats(db))
      /\ UNCHANGED <<saved, crank, queued, held, handles, workers, root, up,
                     spent>>
  BY DEF CreateChannels, StartMembers
<1>2. c \in Calls
  BY DEF Launches, Calls
<1>3. /\ calls[c] \in CallStates /\ Shaped(c, calls[c]) /\ NoCall \in CallStates
      /\ Running
  BY <1>1, <1>2, ShapeOfCalls, WhoIsUnderWayRuns
<1>4. c = "launch" /\ s \in SubclusterIds
  BY <1>1, <1>3 DEF Shaped
<1>5. db.nextVat + NumMembers - 1 <= MaxVats
  BY <1>1, <1>4 DEF StoreInv, ChannelsWait, HasRoom
<1> HIDE DEF s
<1>6. /\ f \in Stores /\ SoundBut(f, exposed \cup Listed(db, s))
      /\ f.nextVat = db.nextVat + NumMembers
      /\ NewVats(db) \in [Members -> Vats] /\ Distinct(NewVats(db))
      /\ f.nextSubcluster = db.nextSubcluster
  <2>1. db \in Stores /\ Sound(db) /\ s \in SubclusterIds
    BY <1>4, Variables
  <2> HIDE DEF f, call
  <2>2. f = AddSubclusterVats(db, s)
    BY DEF f
  <2> QED
    BY <1>5, <2>1, <2>2, NewMembers DEF PlacesIn
<1>7. call \in CallStates /\ call.phase = "starting" /\ Shaped(c, call)
  <2> DEFINE starting == IF s \in db.recorded THEN Members ELSE {}
  <2>1. starting \in SUBSET Members
    OBVIOUS
  <2>2. call = [NoCall EXCEPT !.phase = "starting", !.sub = s,
                              !.vats = NewVats(db), !.starting = starting]
    OBVIOUS
  <2> HIDE DEF f, call, starting
  <2>3. /\ s \in SubclusterIds /\ NoCall \in CallStates
        /\ NewVats(db) \in [Members -> Vats] /\ Distinct(NewVats(db))
    BY <1>3, <1>4, <1>6
  <2> QED
    BY <2>1, <2>2, <2>3, StartedCall
<1> HIDE DEF f, call
<1>8. db.nextVat <= f.nextVat /\ db.nextSubcluster <= f.nextSubcluster
  <2>1. /\ db.nextVat \in Int /\ db.nextSubcluster \in Int
        /\ NumMembers \in Int /\ NumMembers >= 1
    BY Variables, FieldsOfStores, Bounds
  <2> QED
    BY <1>6, <2>1
<1>9. exposed \subseteq exposed' /\ exposed' \subseteq Vats
  BY <1>1, <1>4, <1>6, Variables, NewAreVats, ListedAreVats
<1>10. SoundBut(f, exposed')
  BY <1>1, <1>6, SoundLater
<1> QED
  BY <1>1, <1>2, <1>3, <1>4, <1>6, <1>7, <1>8, <1>9, <1>10, Variables, CallerActs

LEMMA MemberSettles ==
    ASSUME StoreInv, NEW c \in Launches, NEW n \in Members,
           n \in calls[c].starting
    PROVE  /\ c \in Calls /\ Running
           /\ calls[c].phase = "starting" /\ calls[c].sub \in SubclusterIds
           /\ calls[c].vats \in [Members -> Vats] /\ Distinct(calls[c].vats)
           /\ calls[c].vats[n] \in Vats
<1>1. c \in Calls
  BY DEF Launches, Calls
<1>2. calls[c] \in CallStates /\ Shaped(c, calls[c])
  BY <1>1, ShapeOfCalls
<1>3. calls[c].phase = "starting"
  BY <1>2 DEF Shaped
<1> QED
  BY <1>1, <1>2, <1>3, WhoIsUnderWayRuns DEF Shaped, HasMembers

LEMMA StartingKeeps ==
    ASSUME StoreInv, NEW c \in Launches, NEW n \in Members, VatStarts(c, n)
    PROVE  StoreInv'
<1> DEFINE v == calls[c].vats[n]
           call == [calls[c] EXCEPT !.starting = @ \ {n}, !.started = @ \cup {n}]
<1>1. /\ n \in calls[c].starting
      /\ handles' = handles \cup {v} /\ workers' = workers \cup {v}
      /\ db' = RecordVat(db, v)
      /\ calls' = [calls EXCEPT ![c].starting = @ \ {n}, ![c].started = @ \cup {n}]
      /\ UNCHANGED <<saved, crank, queued, held, root, up, spent, exposed>>
  BY DEF VatStarts
<1>2. /\ c \in Calls /\ Running /\ v \in Vats
      /\ calls[c].phase = "starting"
  BY <1>1, MemberSettles
<1>3. calls[c] \in CallStates /\ Shaped(c, calls[c])
  BY <1>2, ShapeOfCalls
<1>4. calls' = [calls EXCEPT ![c] = call]
  BY <1>1, <1>2 DEF StoreInv, TypeOK
<1>5. /\ call \in CallStates /\ Shaped(c, call) /\ call.phase = "starting"
  BY <1>2, <1>3 DEF CallStates, Shaped, HasMembers
<1> HIDE DEF v, call
<1>6. /\ db' \in Stores /\ Sound(db')
      /\ db'.nextVat = db.nextVat /\ db'.nextSubcluster = db.nextSubcluster
  BY <1>1, <1>2, Variables, VatRecorded
<1>7. c # "terminate" /\ handles' \subseteq Vats /\ workers' \subseteq Vats
  BY <1>1, <1>2, Variables DEF Launches
<1>8. db.nextVat <= db'.nextVat /\ db.nextSubcluster <= db'.nextSubcluster
  BY <1>6, Variables, FieldsOfStores
<1> QED
  BY <1>1, <1>2, <1>4, <1>5, <1>6, <1>7, <1>8, Variables, CallerActs

LEMMA FailingToStartKeeps ==
    ASSUME StoreInv, NEW c \in Launches, NEW n \in Members, VatFails(c, n)
    PROVE  StoreInv'
<1> DEFINE call == [calls[c] EXCEPT !.starting = @ \ {n}]
<1>1. /\ n \in calls[c].starting
      /\ calls' = [calls EXCEPT ![c].starting = @ \ {n}]
      /\ spent' = spent \/ spent' = [spent EXCEPT !.faults = @ + 1]
      /\ UNCHANGED <<db, saved, crank, queued, held, handles, workers, root, up,
                     exposed>>
  BY DEF VatFails
<1>2. c \in Calls /\ Running /\ calls[c].phase = "starting"
  BY <1>1, MemberSettles
<1>3. calls[c] \in CallStates /\ Shaped(c, calls[c])
  BY <1>2, ShapeOfCalls
<1>4. calls' = [calls EXCEPT ![c] = call]
  BY <1>1, <1>2 DEF StoreInv, TypeOK
<1>5. call \in CallStates /\ Shaped(c, call) /\ call.phase = "starting"
  BY <1>2, <1>3 DEF CallStates, Shaped, HasMembers
<1> HIDE DEF call
<1>6. spent' \in [deliveries : Nat, faults : Nat, botched : Nat, crashes : Nat]
  BY <1>1, Variables
<1> QED
  BY <1>1, <1>2, <1>4, <1>5, <1>6, Variables, CallerGoesOn

LEMMA QueueingKeeps ==
    ASSUME StoreInv, NEW c \in Launches, QueueBootstrap(c)
    PROVE  StoreInv'
<1>1. /\ calls[c].phase = "starting" /\ calls[c].starting = {}
      /\ \E phase \in {"bootstrapping", "failing"} :
            calls' = [calls EXCEPT ![c].phase = phase]
      /\ UNCHANGED <<db, saved, crank, queued, held, handles, workers, root, up,
                     spent, exposed>>
  BY DEF QueueBootstrap
<1>2. PICK phase \in {"bootstrapping", "failing"} :
         calls' = [calls EXCEPT ![c].phase = phase]
  BY <1>1
<1> DEFINE call == [calls[c] EXCEPT !.phase = phase]
<1>3. c \in Calls
  BY DEF Launches, Calls
<1>4. calls[c] \in CallStates /\ Shaped(c, calls[c]) /\ Running
  BY <1>1, <1>3, ShapeOfCalls, WhoIsUnderWayRuns
<1>5. calls' = [calls EXCEPT ![c] = call]
  BY <1>2, <1>3 DEF StoreInv, TypeOK
<1>6. call \in CallStates /\ Shaped(c, call) /\ call.phase # "channels"
  BY <1>1, <1>4 DEF CallStates, Shaped, HasMembers
<1> HIDE DEF call
<1> QED
  BY <1>1, <1>3, <1>4, <1>5, <1>6, Variables, CallerGoesOn

LEMMA ReturningKeeps ==
    ASSUME StoreInv, NEW c \in Launches, LaunchReturns(c)
    PROVE  StoreInv'
<1> DEFINE call == [NoCall EXCEPT !.phase = "done"]
<1>1. /\ calls[c].phase = "launched"
      /\ calls' = [calls EXCEPT ![c] = call]
      /\ \/ root' = calls[c].vats[Bootstrap] /\ db' = [db EXCEPT !.name = calls[c].sub]
         \/ UNCHANGED <<root, db>>
      /\ UNCHANGED <<saved, crank, queued, held, handles, workers, up, spent,
                     exposed>>
  BY DEF LaunchReturns
<1>2. c \in Calls
  BY DEF Launches, Calls
<1>3. /\ calls[c] \in CallStates /\ Shaped(c, calls[c]) /\ NoCall \in CallStates
      /\ Running
  BY <1>1, <1>2, ShapeOfCalls, WhoIsUnderWayRuns
<1>4. calls[c].sub \in SubclusterIds /\ calls[c].vats[Bootstrap] \in Vats
  BY <1>1, <1>3, Bounds DEF Shaped, HasMembers
<1>5. call \in CallStates /\ Shaped(c, call) /\ call.phase = "done"
  BY <1>3 DEF NoCall, CallStates, Shaped, HasMembers
<1> HIDE DEF call
<1>6. Keeps(db, db') /\ root' \in Vats \cup {NoVat}
  <2>1. CASE /\ root' = calls[c].vats[Bootstrap]
             /\ db' = [db EXCEPT !.name = calls[c].sub]
    BY <1>4, <2>1, Variables, NameDropped DEF Keeps
  <2>2. CASE UNCHANGED <<root, db>>
    BY <2>2, Variables
  <2> QED
    BY <1>1, <2>1, <2>2
<1>7. /\ db' \in Stores /\ Sound(db') /\ db'.nextVat = db.nextVat
      /\ db.nextVat <= db'.nextVat /\ db.nextSubcluster <= db'.nextSubcluster
  BY <1>6, Variables DEF Keeps
<1> QED
  BY <1>1, <1>2, <1>3, <1>5, <1>6, <1>7, Variables, CallerActs

LEMMA BeginningToEndKeeps ==
    ASSUME StoreInv, NEW c \in Calls, NEW s \in SubclusterIds, Running,
           BeginEnding(c, s),
           UNCHANGED <<db, saved, crank, queued, held, handles, workers, root,
                       up, spent, exposed>>
    PROVE  StoreInv'
<1> DEFINE call == [NoCall EXCEPT !.phase = "ending", !.sub = s,
                        !.vats = db.vats[s], !.todo = Listed(db, s)]
<1>1. calls' = [calls EXCEPT ![c] = call]
  BY DEF BeginEnding
<1>2. /\ db.vats[s] \in [Members -> Vats \cup {NoVat}]
      /\ Listed(db, s) \in SUBSET Vats
  BY Variables, FieldsOfStores, ListedAreVats
<1>3. call \in CallStates /\ Shaped(c, call) /\ call.phase # "channels"
  BY <1>2, ShapeOfCalls DEF NoCall, CallStates, Shaped, HasMembers
<1> HIDE DEF call
<1> QED
  BY <1>1, <1>3, Variables, CallerGoesOn

LEMMA FailedLaunchesKeep ==
    ASSUME StoreInv, NEW c \in Launches, FailLaunch(c)
    PROVE  StoreInv'
<1>1. /\ calls[c].phase = "failing" /\ BeginEnding(c, calls[c].sub)
      /\ UNCHANGED <<db, saved, crank, queued, held, handles, workers, root,
                     up, spent, exposed>>
  BY DEF FailLaunch
<1>2. c \in Calls
  BY DEF Launches, Calls
<1>3. Running /\ calls[c].sub \in SubclusterIds
  BY <1>1, <1>2, ShapeOfCalls, WhoIsUnderWayRuns DEF Shaped, HasMembers
<1> QED
  BY <1>1, <1>2, <1>3, BeginningToEndKeeps

LEMMA TerminatingKeeps ==
    ASSUME StoreInv, NEW s \in SubclusterIds, TerminateSubcluster(s)
    PROVE  StoreInv'
<1>1. /\ Running /\ BeginEnding("terminate", s)
      /\ UNCHANGED <<db, saved, crank, queued, held, handles, workers, root,
                     up, spent, exposed>>
  BY DEF TerminateSubcluster
<1>2. "terminate" \in Calls /\ Running
  BY <1>1 DEF Calls
<1> QED
  BY <1>1, <1>2, BeginningToEndKeeps

(* A caller in the middle of an ending.                                    *)
LEMMA EndingCaller ==
    ASSUME StoreInv, NEW c \in Calls,
           calls[c].phase = "ending" \/ calls[c].wait # "none"
    PROVE  /\ calls[c].phase = "ending" /\ Running
           /\ calls[c] \in CallStates /\ Shaped(c, calls[c])
           /\ calls[c].sub \in SubclusterIds
           /\ calls[c].todo # {} => Current(c) \in Vats /\ Current(c) \in calls[c].todo
<1>1. calls[c] \in CallStates /\ Shaped(c, calls[c])
  BY ShapeOfCalls
<1>2. calls[c].phase = "ending" /\ calls[c].sub \in SubclusterIds
  BY <1>1 DEF Shaped
<1>3. calls[c].todo \in SUBSET Vats
  BY <1>1 DEF CallStates
<1>4. calls[c].todo # {} => Current(c) \in calls[c].todo
  BY <1>3, MaxIsIn DEF Current
<1> QED
  BY <1>1, <1>2, <1>3, <1>4, WhoIsUnderWayRuns

LEMMA SkippingKeeps ==
    ASSUME StoreInv, NEW c \in Calls, SkipMember(c)
    PROVE  StoreInv'
<1> DEFINE v == Current(c)
           call == [calls[c] EXCEPT !.todo = @ \ {v}]
<1>1. /\ calls[c].phase = "ending" /\ calls[c].todo # {}
      /\ calls[c].wait = "none"
      /\ exposed' = exposed \/ exposed' = exposed \cup {v}
      /\ calls' = [calls EXCEPT ![c].todo = @ \ {v}]
      /\ UNCHANGED <<db, saved, crank, queued, held, handles, workers, root, up,
                     spent>>
  BY DEF SkipMember
<1>2. /\ Running /\ calls[c] \in CallStates /\ Shaped(c, calls[c])
      /\ v \in Vats
  BY <1>1, EndingCaller
<1>3. calls' = [calls EXCEPT ![c] = call]
  BY <1>1 DEF StoreInv, TypeOK
<1>4. call \in CallStates /\ Shaped(c, call) /\ call.phase # "channels"
  BY <1>1, <1>2 DEF CallStates, Shaped, HasMembers
<1> HIDE DEF v, call
<1>5. exposed \subseteq exposed' /\ exposed' \subseteq Vats
  BY <1>1, <1>2, Variables
<1>6. /\ up' = up
      /\ UNCHANGED <<db, saved, crank, queued, held, handles, workers, root>>
      /\ spent' \in [deliveries : Nat, faults : Nat, botched : Nat, crashes : Nat]
  BY <1>1, Variables
<1> QED
  BY <1>2, <1>3, <1>4, <1>5, <1>6, CallerGoesOn

LEMMA RequestIsQueued ==
    ASSUME StoreInv, NEW v \in Vats, EnqueueTerminateVat(v)
    PROVE  /\ queued' \in Seq(Vats) /\ held' \in Seq(Vats)
           /\ ~IsOpen => held' = held
           /\ ToSet(queued') \cup ToSet(held') = ToSet(queued) \cup ToSet(held) \cup {v}
<1>1. queued \in Seq(Vats) /\ held \in Seq(Vats)
  BY Variables
<1>2. CASE IsOpen
  <2>1. held' = Append(held, v) /\ queued' = queued
    BY <1>2 DEF EnqueueTerminateVat
  <2>2. held' \in Seq(Vats) /\ ToSet(held') = ToSet(held) \cup {v}
    BY <1>1, <2>1, AppendedSet
  <2> QED
    BY <1>1, <1>2, <2>1, <2>2
<1>3. CASE ~IsOpen
  <2>1. queued' = Append(queued, v) /\ held' = held
    BY <1>3 DEF EnqueueTerminateVat
  <2>2. queued' \in Seq(Vats) /\ ToSet(queued') = ToSet(queued) \cup {v}
    BY <1>1, <2>1, AppendedSet
  <2> QED
    BY <1>1, <1>3, <2>1, <2>2
<1> QED
  BY <1>2, <1>3

LEMMA AskingKeeps ==
    ASSUME StoreInv, NEW c \in Calls, EndMember(c)
    PROVE  StoreInv'
<1> DEFINE call == [calls[c] EXCEPT !.wait = "queued"]
<1>1. /\ calls[c].phase = "ending" /\ calls[c].todo # {}
      /\ EnqueueTerminateVat(Current(c))
      /\ calls' = [calls EXCEPT ![c].wait = "queued"]
      /\ UNCHANGED <<db, saved, crank, handles, workers, root, up, spent, exposed>>
  BY DEF EndMember
<1>2. /\ Running /\ calls[c] \in CallStates /\ Shaped(c, calls[c])
      /\ Current(c) \in Vats
  BY <1>1, EndingCaller
<1>3. calls' = [calls EXCEPT ![c] = call]
  BY <1>1 DEF StoreInv, TypeOK
<1>4. call \in CallStates /\ Shaped(c, call) /\ call.phase # "channels"
  BY <1>1, <1>2 DEF CallStates, Shaped, HasMembers
<1> HIDE DEF call
<1>5. /\ queued' \in Seq(Vats) /\ held' \in Seq(Vats)
      /\ ~IsOpen => held' = held
  BY <1>1, <1>2, RequestIsQueued
<1> QED
  BY <1>1, <1>2, <1>3, <1>4, <1>5, Variables, CallerActs

LEMMA HearingOfAnEndKeeps ==
    ASSUME StoreInv, NEW c \in Calls, MemberEnded(c)
    PROVE  StoreInv'
<1> DEFINE v == Current(c)
           call == [calls[c] EXCEPT !.wait = "none", !.todo = @ \ {v},
                        !.left = IF v \in handles \cup CollectGarbage(db).active
                                 THEN @ \cup {v} ELSE @]
<1>1. /\ calls[c].wait = "answered"
      /\ db' = CollectGarbage(db)
      /\ calls' = [calls EXCEPT ![c].wait = "none", ![c].todo = @ \ {v},
                      ![c].left = IF v \in handles \cup CollectGarbage(db).active
                                  THEN @ \cup {v} ELSE @]
      /\ UNCHANGED <<saved, crank, queued, held, handles, workers, root, up,
                     spent, exposed>>
  BY DEF MemberEnded
<1>2. /\ Running /\ calls[c] \in CallStates /\ Shaped(c, calls[c])
      /\ calls[c].phase = "ending" /\ v \in Vats
  BY <1>1, EndingCaller DEF Shaped
<1>3. calls' = [calls EXCEPT ![c] = call]
  BY <1>1 DEF StoreInv, TypeOK
<1>4. call \in CallStates /\ Shaped(c, call) /\ call.phase # "channels"
  BY <1>2 DEF CallStates, Shaped, HasMembers
<1> HIDE DEF v, call
<1>5. Keeps(db, db')
  BY <1>1, Variables, GarbageCollected, SweptKeeps
<1>6. /\ db' \in Stores /\ Sound(db') /\ db'.nextVat = db.nextVat
      /\ db.nextVat <= db'.nextVat /\ db.nextSubcluster <= db'.nextSubcluster
  BY <1>5, Variables DEF Keeps
<1> QED
  BY <1>1, <1>2, <1>3, <1>4, <1>5, <1>6, Variables, CallerActs

(* What the end of an ending does to the store.                            *)
LEMMA WhatEndingDoes ==
    ASSUME StoreInv, NEW c \in Calls, EndingEnds(c)
    PROVE  /\ calls[c].left # {} => db' = db
           /\ calls[c].left = {} =>
                 /\ db' \in Stores /\ Sound(db')
                 /\ Dissolved(db, db', calls[c].sub) /\ SameVats(db, db')
<1> DEFINE s == calls[c].sub
           d == [db EXCEPT !.name = NoSubcluster]
<1>1. /\ calls[c].phase = "ending"
      /\ calls[c].left # {} => db' = db
      /\ calls[c].left = {} =>
            db' = DeleteSubcluster(db, s) \/ db' = DeleteSubcluster(DropMapping(db, s), s)
  BY DEF EndingEnds
<1>2. s \in SubclusterIds
  BY <1>1, EndingCaller
<1>3. DropMapping(db, s) = IF db.name = s THEN d ELSE db
  BY Variables DEF DropMapping, Stores
<1> HIDE DEF s
<1>4. /\ d \in Stores /\ Sound(d) /\ SameVats(db, d)
      /\ d.nextVat = db.nextVat /\ d.nextSubcluster = db.nextSubcluster
      /\ d.recorded = db.recorded /\ d.home = db.home /\ d.vats = db.vats
  BY Variables, NameDropped
<1> HIDE DEF d
<1>5. ASSUME db' = DeleteSubcluster(db, s)
      PROVE  /\ db' \in Stores /\ Sound(db')
             /\ Dissolved(db, db', s) /\ SameVats(db, db')
  BY <1>2, <1>5, Variables, RecordDeleted
<1>6. ASSUME db' = DeleteSubcluster(d, s)
      PROVE  /\ db' \in Stores /\ Sound(db')
             /\ Dissolved(db, db', s) /\ SameVats(db, db')
  <2>1. /\ db' \in Stores /\ Sound(db')
        /\ Dissolved(d, db', s) /\ SameVats(d, db')
    BY <1>2, <1>4, <1>6, RecordDeleted
  <2> QED
    BY <1>4, <2>1 DEF Dissolved, SameVats, Listed
<1> QED
  BY <1>1, <1>3, <1>5, <1>6 DEF s

LEMMA EndingKeeps ==
    ASSUME StoreInv, NEW c \in Calls, EndingEnds(c)
    PROVE  StoreInv'
<1>1. /\ calls[c].phase = "ending"
      /\ \E phase \in {"done", "failed"} :
            calls' = [calls EXCEPT ![c] = [NoCall EXCEPT !.phase = phase]]
      /\ root' \in {root, NoVat}
      /\ UNCHANGED <<saved, crank, queued, held, handles, workers, up, spent,
                     exposed>>
  BY DEF EndingEnds
<1>2. PICK phase \in {"done", "failed"} :
         calls' = [calls EXCEPT ![c] = [NoCall EXCEPT !.phase = phase]]
  BY <1>1
<1> DEFINE call == [NoCall EXCEPT !.phase = phase]
<1>3. Running /\ calls[c].sub \in SubclusterIds
  BY <1>1, EndingCaller
<1>4. call \in CallStates /\ Shaped(c, call) /\ call.phase # "channels"
  BY ShapeOfCalls, CallIsOver
<1> HIDE DEF call
<1>5. Keeps(db, db')
  BY <1>3, Variables, WhatEndingDoes, DissolvedKeeps
<1>6. /\ db' \in Stores /\ Sound(db') /\ db'.nextVat = db.nextVat
      /\ db.nextVat <= db'.nextVat /\ db.nextSubcluster <= db'.nextSubcluster
  BY <1>5, Variables DEF Keeps
<1>7. calls' = [calls EXCEPT ![c] = call] /\ root' \in Vats \cup {NoVat}
  BY <1>1, <1>2, Variables DEF call
<1> QED
  BY <1>1, <1>3, <1>4, <1>5, <1>6, <1>7, Variables, CallerActs

LEMMA LosingKeeps ==
    ASSUME StoreInv, NEW v \in Vats, LoseVat(v)
    PROVE  StoreInv'
<1>1. /\ Running /\ handles' = handles \ {v}
      /\ spent' = [spent EXCEPT !.faults = @ + 1]
      /\ EnqueueTerminateVat(v) \/ UNCHANGED <<queued, held>>
      /\ UNCHANGED <<db, saved, crank, workers, root, up, calls, exposed>>
  BY DEF LoseVat
<1>2. /\ queued' \in Seq(Vats) /\ held' \in Seq(Vats)
      /\ ~IsOpen => held' = held
  BY <1>1, Variables, RequestIsQueued
<1>3. TypeOK'
  BY <1>1, <1>2, Variables DEF StoreInv, TypeOK
<1>4. BootIsAlone'
  BY <1>1 DEF BootIsAlone, Running
<1>5. SavedIsBehind'
  BY <1>1, <1>2 DEF StoreInv, SavedIsBehind, IsOpen
<1> QED
  BY <1>1, <1>3, <1>4, <1>5 DEF StoreInv, ChannelsWait, HasRoom, Sound

-----------------------------------------------------------------------------
(* Each step of the run loop, and of a boot.                               *)

LEMMA WaitsGoOn ==
    ASSUME StoreInv, NEW v, calls' \in {calls, Taken(v), Answered}
    PROVE  Follow(calls, calls')
<1>1. \A c \in Calls : calls[c] \in CallStates /\ Shaped(c, calls[c])
  BY ShapeOfCalls
<1>2. ASSUME NEW c \in Calls, NEW w \in {"due", "answered"}, calls[c].wait # "none"
      PROVE  /\ [calls[c] EXCEPT !.wait = w] \in CallStates
             /\ Shaped(c, [calls[c] EXCEPT !.wait = w])
             /\ [calls[c] EXCEPT !.wait = w].phase = calls[c].phase
             /\ [calls[c] EXCEPT !.wait = w].sub = calls[c].sub
  <2>1. calls[c] \in CallStates /\ Shaped(c, calls[c])
    BY <1>1
  <2> QED
    BY <1>2, <2>1 DEF CallStates, Shaped
<1>3. CASE calls' = calls
  BY <1>3, FollowItself
<1>4. CASE calls' = Taken(v)
  BY <1>1, <1>2, <1>4 DEF Taken, Follow
<1>5. CASE calls' = Answered
  BY <1>1, <1>2, <1>5 DEF Answered, Follow
<1> QED
  BY <1>3, <1>4, <1>5

LEMMA WhatIsHeardFollows ==
    ASSUME StoreInv, NEW ok \in BOOLEAN, calls' = Heard(ok)
    PROVE  Follow(calls, calls')
<1>1. CASE calls' = calls
  BY <1>1, FollowItself
<1>2. CASE calls' # calls
  <2>1. /\ crank.item \in Launches /\ calls[crank.item].phase = "bootstrapping"
        /\ \E phase \in {"launched", "failing"} :
              calls' = [calls EXCEPT ![crank.item].phase = phase]
    BY <1>2 DEF Heard
  <2>2. PICK phase \in {"launched", "failing"} :
           calls' = [calls EXCEPT ![crank.item].phase = phase]
    BY <2>1
  <2> DEFINE c == crank.item
             call == [calls[c] EXCEPT !.phase = phase]
  <2>3. c \in Calls
    BY <2>1 DEF Calls, Launches
  <2>4. calls' = [calls EXCEPT ![c] = call]
    BY <2>2, <2>3 DEF StoreInv, TypeOK
  <2>5. calls[c] \in CallStates /\ Shaped(c, calls[c])
    BY <2>3, ShapeOfCalls
  <2>6. call \in CallStates /\ Shaped(c, call) /\ call.phase \in {"launched", "failing"}
    BY <2>1, <2>5 DEF CallStates, Shaped, HasMembers
  <2> HIDE DEF c, call
  <2>7. /\ calls' \in [Calls -> CallStates] /\ calls'[c] = call
        /\ \A a \in Calls \ {c} : calls'[a] = calls[a]
        /\ \A a \in Calls : Shaped(a, calls'[a])
    BY <2>3, <2>4, <2>6, CallChanges
  <2> QED
    BY <2>1, <2>6, <2>7 DEF Follow, c
<1> QED
  BY <1>1, <1>2

LEMMA PerformingKeeps ==
    ASSUME StoreInv, PerformVatTermination
    PROVE  StoreInv'
<1> DEFINE v == Head(queued)
           d == CleanUpTerminatedVat(db)
<1>1. /\ Running /\ ~IsOpen /\ queued # <<>>
      /\ handles' \subseteq handles
      /\ spent' \in {spent, [spent EXCEPT !.botched = @ + 1]}
      /\ exposed' \in {exposed, exposed \cup {v}}
      /\ \E item \in {"idle", "end"} :
            \/ OpenCrank(item, v, d)
            \/ OpenCrank(item, v, RetireVats(d, {v}))
            \/ OpenCrank(item, v, MarkAsTerminated(d, {v}))
      /\ calls' = Taken(v)
      /\ queued' = Tail(queued)
      /\ UNCHANGED <<held, workers, root, up>>
  BY DEF PerformVatTermination
<1>2. v \in Vats /\ {v} \in SUBSET Vats /\ queued' \in Seq(Vats)
  BY <1>1, Variables, HeadAndTail
<1>3. Keeps(db, d) /\ d \in Stores /\ Sound(d)
  BY Variables, OldestCleanedUp, SweptKeeps DEF Keeps
<1>4. Follow(calls, calls')
  BY <1>1, WaitsGoOn
<1> HIDE DEF v, d
<1>5. Keeps(db, RetireVats(d, {v}))
  BY <1>2, <1>3, Retired, LeftKeeps, KeepsOn
<1>6. Keeps(db, MarkAsTerminated(d, {v}))
  BY <1>2, <1>3, MarkedKeeps, KeepsOn
<1>7. /\ handles' \subseteq Vats /\ workers' \subseteq Vats
      /\ exposed \subseteq exposed' /\ exposed' \subseteq Vats
      /\ spent' \in [deliveries : Nat, faults : Nat, botched : Nat, crashes : Nat]
  BY <1>1, <1>2, Variables
<1>8. PICK item \in {"idle", "end"} : \E e \in Stores :
         Keeps(db, e) /\ OpenCrank(item, v, e)
  BY <1>1, <1>3, <1>5, <1>6 DEF Keeps
<1> QED
  BY <1>1, <1>2, <1>4, <1>7, <1>8, CrankOpens

LEMMA DeliveringKeeps ==
    ASSUME StoreInv, StartDelivery \/ \E c \in Launches : DeliverBootstrap(c)
    PROVE  StoreInv'
<1> DEFINE d == CleanUpTerminatedVat(db)
<1>1. Keeps(db, d)
  BY Variables, OldestCleanedUp, SweptKeeps
<1>2. /\ Running /\ ~IsOpen /\ calls' = calls
      /\ spent' \in {spent, [spent EXCEPT !.deliveries = @ + 1]}
      /\ \E item \in Launches \cup {"delivery"} : \E v \in Vats : OpenCrank(item, v, d)
      /\ UNCHANGED <<queued, held, handles, workers, root, up, exposed>>
  <2>1. CASE StartDelivery
    BY <2>1, Variables DEF StartDelivery
  <2>2. ASSUME NEW c \in Launches, DeliverBootstrap(c)
        PROVE  calls[c].vats[Bootstrap] \in Vats
    <3>1. c \in Calls /\ calls[c].phase = "bootstrapping"
      BY <2>2 DEF DeliverBootstrap, Launches, Calls
    <3> QED
      BY <3>1, ShapeOfCalls, Bounds DEF Shaped, HasMembers
  <2>3. CASE \E c \in Launches : DeliverBootstrap(c)
    BY <2>2, <2>3 DEF DeliverBootstrap
  <2> QED
    BY <2>1, <2>3
<1> HIDE DEF d
<1>3. Follow(calls, calls')
  BY <1>2, FollowItself
<1>4. spent' \in [deliveries : Nat, faults : Nat, botched : Nat, crashes : Nat]
  BY <1>2, Variables
<1> QED
  BY <1>1, <1>2, <1>3, <1>4, Variables, CrankOpens

LEMMA EndingACrankKeeps ==
    ASSUME StoreInv, EndTermination \/ KeepDelivery
    PROVE  StoreInv'
<1>1. /\ crank.item # "none" /\ CloseCrank(db)
      /\ workers' \subseteq workers
      /\ UNCHANGED <<handles, root, up, spent, exposed>>
  BY DEF EndTermination, KeepDelivery, Launches
<1>2. IsOpen
  BY <1>1 DEF StoreInv, SavedIsBehind
<1>3. Follow(calls, calls')
  BY WaitsGoOn, WhatIsHeardFollows DEF EndTermination, KeepDelivery
<1> QED
  BY <1>1, <1>2, <1>3, Variables, CrankCloses

LEMMA EndingInDeliveryKeeps ==
    ASSUME StoreInv, EndVatInDelivery
    PROVE  StoreInv'
<1>1. /\ crank.item # "none" /\ crank.vat \in handles \cup db.active
      /\ handles' = handles \ {crank.vat} /\ workers' = workers \ {crank.vat}
      /\ spent' = [spent EXCEPT !.faults = @ + 1]
      /\ exposed' \in {exposed, exposed \cup Undone}
      /\ calls' = Heard(FALSE)
      /\ UNCHANGED <<root, up>>
      /\ \E d \in {db, saved} :
            \/ CloseCrank(d) \/ CloseCrank(RetireVats(d, {crank.vat}))
  BY DEF EndVatInDelivery, Launches, Known
<1>2. IsOpen
  BY <1>1 DEF StoreInv, SavedIsBehind
<1>3. PICK d \in {db, saved} :
         CloseCrank(d) \/ CloseCrank(RetireVats(d, {crank.vat}))
  BY <1>1
<1>4. /\ Keeps(d, d) /\ d \in Stores /\ Sound(d)
      /\ d.nextVat <= db.nextVat /\ d.nextVat \in Int /\ db.nextVat \in Int
  BY Variables, KeepsItself, FieldsOfStores DEF StoreInv, SavedIsBehind
<1>5. {crank.vat} \in SUBSET Vats
  BY <1>1, Variables, FieldsOfStores
<1>6. Keeps(d, RetireVats(d, {crank.vat}))
  BY <1>4, <1>5, Retired, LeftKeeps
<1>7. PICK e : Keeps(d, e) /\ CloseCrank(e)
  BY <1>3, <1>4, <1>6
<1>8. e \in Stores /\ Sound(e) /\ e.nextVat <= db.nextVat
  BY <1>4, <1>7 DEF Keeps
<1>9. Follow(calls, calls')
  BY <1>1, WhatIsHeardFollows
<1>10. /\ handles' \subseteq Vats /\ workers' \subseteq Vats
       /\ exposed \subseteq exposed' /\ exposed' \subseteq Vats
       /\ spent' \in [deliveries : Nat, faults : Nat, botched : Nat, crashes : Nat]
  BY <1>1, Variables DEF Undone
<1> QED
  BY <1>1, <1>2, <1>7, <1>8, <1>9, <1>10, CrankCloses

LEMMA CrashingKeeps ==
    ASSUME StoreInv, Crash
    PROVE  StoreInv'
<1>1. /\ db' \in {db, saved}
      /\ saved' = EmptyStore /\ crank' = Closed /\ held' = <<>>
      /\ handles' = {} /\ workers' = {} /\ root' = NoVat /\ up' = "down"
      /\ calls' = [c \in Calls |-> NoCall]
      /\ spent' = [spent EXCEPT !.crashes = @ + 1]
      /\ exposed' = exposed
  BY DEF Crash
<1>2. queued' \in Seq(Vats) /\ held' \in Seq(Vats)
  <2>1. CASE crank.item \in {"end", "idle"}
    <3>1. crank.vat \in Vats
      BY <2>1 DEF StoreInv, TypeOK, Cranks, SavedIsBehind
    <3>2. <<crank.vat>> \in Seq(Vats)
      BY <3>1
    <3>3. <<crank.vat>> \o queued \in Seq(Vats)
      BY <3>2, Variables, JoinedSet
    <3>4. queued' = <<crank.vat>> \o queued
      BY <2>1 DEF Crash
    <3> QED
      BY <1>1, <3>3, <3>4
  <2>2. CASE crank.item \notin {"end", "idle"}
    BY <1>1, <2>2, Variables DEF Crash
  <2> QED
    BY <2>1, <2>2
<1>3. /\ NoCall \in CallStates /\ \A c \in Calls : Shaped(c, NoCall)
      /\ NoCall.phase = "none"
  <2>1. "launch" \in Calls
    BY DEF Calls
  <2> QED
    BY <2>1, ShapeOfCalls DEF NoCall, Shaped, HasMembers
<1>4. Closed \in Cranks /\ Closed.item = "none" /\ Closed.vat = NoVat
  BY DEF Closed, Cranks
<1>5. TypeOK'
  <2>1. db' \in Stores /\ saved' \in Stores
    BY <1>1, Variables, EmptyStoreIsSound
  <2>2. crank' \in Cranks
    BY <1>1, <1>4
  <2>3. calls' \in [Calls -> CallStates]
    BY <1>1, <1>3
  <2>4. spent' \in [deliveries : Nat, faults : Nat, botched : Nat, crashes : Nat]
    BY <1>1, Variables
  <2>5. /\ handles' \subseteq Vats /\ workers' \subseteq Vats
        /\ exposed' \subseteq Vats /\ root' \in Vats \cup {NoVat}
        /\ up' \in {"running", "down", "restored", "started", "broken"}
    BY <1>1, Variables
  <2> QED
    BY <1>2, <2>1, <2>2, <2>3, <2>4, <2>5 DEF TypeOK
<1>6. (Sound(db) /\ Sound(saved))'
  BY <1>1, Variables, EmptyStoreIsSound DEF Sound
<1>7. ChannelsWait'
  BY <1>1, <1>3 DEF ChannelsWait, Calls
<1>8. BootIsAlone'
  BY <1>1 DEF BootIsAlone, NothingIsAsked
<1>9. SavedIsBehind'
  <2>1. /\ EmptyStore.nextVat = 1 /\ EmptyStore.nextSubcluster = 1
        /\ db'.nextVat \in 1 .. MaxVats + 1
        /\ db'.nextSubcluster \in 1 .. MaxSubclusters + 1
    BY <1>1, Variables, FieldsOfStores DEF EmptyStore
  <2> QED
    BY <1>1, <1>4, <2>1, Bounds DEF SavedIsBehind, IsOpen
<1> QED
  BY <1>1, <1>3, <1>5, <1>6, <1>7, <1>8, <1>9 DEF StoreInv

(* One step of a boot.                                                     *)
LEMMA BootGoesOn ==
    ASSUME StoreInv, ~Running, Keeps(db, db'),
           UNCHANGED <<saved, crank, queued, held>>,
           NEW phase \in {"none", "done"},
           calls' \in {calls, [calls EXCEPT !["system"].phase = phase]},
           handles' \subseteq Vats, workers' \subseteq Vats,
           root' \in Vats \cup {NoVat},
           up' \in {"restored", "started", "broken", "running"},
           up' \in {"restored", "broken"} => handles' = {} /\ workers' = {},
           spent' \in [deliveries : Nat, faults : Nat, botched : Nat, crashes : Nat],
           exposed' = exposed
    PROVE  StoreInv'
<1>1. NothingIsAsked
  BY DEF StoreInv, BootIsAlone, Running
<1>2. /\ NoCall \in CallStates /\ [NoCall EXCEPT !.phase = "done"] \in CallStates
      /\ \A c \in Calls : /\ Shaped(c, NoCall)
                          /\ Shaped(c, [NoCall EXCEPT !.phase = "done"])
      /\ NoCall.phase = "none" /\ [NoCall EXCEPT !.phase = "done"].phase = "done"
      /\ [NoCall EXCEPT !.phase = "none"] = NoCall
      /\ \A p, q : [[NoCall EXCEPT !.phase = p] EXCEPT !.phase = q]
                      = [NoCall EXCEPT !.phase = q]
  <2>1. "launch" \in Calls
    BY DEF Calls
  <2>2. NoCall \in CallStates
    BY <2>1, ShapeOfCalls
  <2>3. /\ [NoCall EXCEPT !.phase = "done"] \in CallStates
        /\ [NoCall EXCEPT !.phase = "done"].phase = "done"
        /\ \A c \in Calls : Shaped(c, [NoCall EXCEPT !.phase = "done"])
    BY <2>2, CallIsOver
  <2>4. \A c \in Calls : Shaped(c, NoCall)
    BY DEF NoCall, Shaped, HasMembers
  <2>5. NoCall.phase = "none"
    BY DEF NoCall
  <2>6. [NoCall EXCEPT !.phase = "none"] = NoCall
    BY DEF NoCall
  <2>7. \A p, q : [[NoCall EXCEPT !.phase = p] EXCEPT !.phase = q]
                    = [NoCall EXCEPT !.phase = q]
    BY DEF NoCall
  <2> QED
    BY <2>2, <2>3, <2>4, <2>5, <2>6, <2>7
<1>3. /\ calls' \in [Calls -> CallStates]
      /\ \A c \in Calls : calls'[c] \in {NoCall, [NoCall EXCEPT !.phase = "done"]}
      /\ \A c \in Calls \ {"system"} : calls'[c] = NoCall
  <2>1. CASE calls' = calls
    BY <1>1, <2>1 DEF NothingIsAsked, StoreInv, TypeOK
  <2>2. CASE calls' = [calls EXCEPT !["system"].phase = phase]
    <3>1. /\ calls["system"] \in {NoCall, [NoCall EXCEPT !.phase = "done"]}
          /\ "system" \in Calls /\ calls \in [Calls -> CallStates]
      BY <1>1 DEF NothingIsAsked, Calls, StoreInv, TypeOK
    <3>2. [calls["system"] EXCEPT !.phase = phase]
             \in {NoCall, [NoCall EXCEPT !.phase = "done"]}
      BY <1>2, <3>1
    <3>3. calls' = [calls EXCEPT !["system"]
                       = [calls["system"] EXCEPT !.phase = phase]]
      BY <2>2, <3>1
    <3>4. [calls["system"] EXCEPT !.phase = phase] \in CallStates
      BY <1>2, <3>2
    <3> QED
      BY <1>1, <3>1, <3>2, <3>3, <3>4 DEF NothingIsAsked
  <2> QED
    BY <2>1, <2>2
<1>4. ASSUME NEW c \in Calls PROVE Shaped(c, calls'[c])
  <2>1. calls'[c] = NoCall \/ calls'[c] = [NoCall EXCEPT !.phase = "done"]
    BY <1>3
  <2> QED
    BY <1>2, <2>1, Zenon
<1>5. TypeOK'
  BY <1>3, Variables DEF StoreInv, TypeOK, Keeps
<1>6. (Sound(db) /\ Sound(saved))'
  BY Variables DEF Keeps, Sound
<1>7. ChannelsWait'
  BY <1>2, <1>3 DEF ChannelsWait, Calls
<1>8. BootIsAlone'
  BY <1>1, <1>3 DEF BootIsAlone, NothingIsAsked
<1>9. SavedIsBehind'
  BY DEF StoreInv, SavedIsBehind, Keeps, IsOpen
<1> QED
  BY <1>4, <1>5, <1>6, <1>7, <1>8, <1>9 DEF StoreInv

LEMMA RemovedKeeps ==
    ASSUME NEW d \in Stores, NEW s \in SubclusterIds, NEW e, Removed(d, e, s)
    PROVE  Keeps(d, e)
BY DissolvedKeeps DEF Removed

LEMMA WithoutBootstrapKeeps ==
    ASSUME StoreInv
    PROVE  Keeps(db, RemoveWithoutBootstrap(db))
<1> DEFINE e == RemoveWithoutBootstrap(db)
<1>1. \/ e = db
      \/ db.name # NoSubcluster /\ Removed(db, e, db.name)
  BY Variables, WithoutBootstrap
<1> HIDE DEF e
<1>2. db.name \in SubclusterIds \cup {NoSubcluster}
  BY Variables, FieldsOfStores
<1>3. Keeps(db, e)
  BY <1>1, <1>2, Variables, RemovedKeeps
<1> QED
  BY <1>3 DEF e

LEMMA RestoringKeeps ==
    ASSUME StoreInv, RestoreNames
    PROVE  StoreInv'
<1> DEFINE s == db.name
           b == db.vats[s][Bootstrap]
           f == AbandonSubcluster(db, s)
<1>1. /\ up = "down"
      /\ \E configured \in BOOLEAN :
            calls' = [calls EXCEPT !["system"].phase = ToLaunch(configured)]
      /\ \/ db' = db /\ root' = NoVat /\ up' = "restored"
         \/ /\ s # NoSubcluster /\ db' = [f EXCEPT !.name = NoSubcluster]
            /\ root' = NoVat /\ up' = "restored"
         \/ db' = [db EXCEPT !.name = NoSubcluster] /\ root' = NoVat /\ up' = "restored"
         \/ UNCHANGED <<db, root>> /\ up' = "broken"
         \/ /\ s # NoSubcluster /\ db' = RemoveWithoutBootstrap(db)
            /\ root' = b /\ up' = "restored"
      /\ UNCHANGED <<saved, crank, queued, held, handles, workers, spent, exposed>>
  BY DEF RestoreNames
<1>2. s \in SubclusterIds \cup {NoSubcluster}
  BY Variables, FieldsOfStores
<1>3. s # NoSubcluster => b \in Vats \cup {NoVat}
  BY <1>2, Variables, FieldsOfStores, Bounds
<1>4. \E p \in {"none", "done"} : calls' = [calls EXCEPT !["system"].phase = p]
  BY <1>1 DEF ToLaunch
<1> HIDE DEF s, b, f
<1>5. s # NoSubcluster => Keeps(db, [f EXCEPT !.name = NoSubcluster])
  <2> SUFFICES ASSUME s # NoSubcluster
               PROVE  Keeps(db, [f EXCEPT !.name = NoSubcluster])
    OBVIOUS
  <2>1. Removed(db, f, s)
    BY <1>2, Variables, Abandoned DEF f
  <2>2. Keeps(db, f) /\ f \in Stores /\ Sound(f)
    BY <1>2, <2>1, Variables, RemovedKeeps DEF Keeps
  <2>3. Keeps(f, [f EXCEPT !.name = NoSubcluster])
    BY <2>2, NameDropped DEF Keeps
  <2> QED
    BY <2>2, <2>3, KeepsOn
<1>6. Keeps(db, [db EXCEPT !.name = NoSubcluster])
  BY Variables, NameDropped DEF Keeps
<1>7. Keeps(db, db') /\ root' \in Vats \cup {NoVat}
  BY <1>1, <1>3, <1>5, <1>6, Variables, WithoutBootstrapKeeps
<1>8. handles' = {} /\ workers' = {}
  BY <1>1 DEF StoreInv, BootIsAlone
<1>9. ~Running /\ up' \in {"restored", "broken"}
  BY <1>1 DEF Running
<1> QED
  BY <1>1, <1>4, <1>7, <1>8, <1>9, Variables, BootGoesOn

LEMMA StartingVatsKeeps ==
    ASSUME StoreInv, InitializeAllVats
    PROVE  StoreInv'
<1>1. PICK failed \in SUBSET db.active :
         /\ Cardinality(failed) + spent.faults <= MaxFaults
         /\ spent' = [spent EXCEPT !.faults = @ + Cardinality(failed)]
         /\ handles' = db.active \ failed
         /\ workers' = db.active \ failed
         /\ db' = RetireVats(db, failed)
  BY DEF InitializeAllVats
<1>2. failed \in SUBSET Vats /\ db.active \in SUBSET Vats
  BY Variables, FieldsOfStores
<1>3. Cardinality(failed) \in Nat
  <2>1. failed \in SUBSET (1 .. MaxVats)
    BY <1>2 DEF Vats
  <2> QED
    BY <2>1, Bounds, SomePositions
<1>4. Keeps(db, db')
  BY <1>1, <1>2, Variables, Retired, LeftKeeps
<1>5. spent' \in [deliveries : Nat, faults : Nat, botched : Nat, crashes : Nat]
  BY <1>1, <1>3, Variables
<1>6. ~Running /\ up' = "started" /\ calls' = calls
      /\ UNCHANGED <<saved, crank, queued, held, root, exposed>>
  BY DEF InitializeAllVats, Running
<1>7. handles' \subseteq Vats /\ workers' \subseteq Vats
  BY <1>1, <1>2
<1> QED
  BY <1>4, <1>5, <1>6, <1>7, Variables, BootGoesOn

LEMMA RemovingKeeps ==
    ASSUME StoreInv, RemoveSystemSubclusters
    PROVE  StoreInv'
<1>1. /\ ~Running /\ up' = "running" /\ db' = RemoveWithoutBootstrap(db)
      /\ handles' \subseteq handles /\ workers' \subseteq workers
      /\ root' \in {root, NoVat}
      /\ calls' \in {calls, [calls EXCEPT !["system"].phase = "done"]}
      /\ UNCHANGED <<saved, crank, queued, held, spent, exposed>>
  BY DEF RemoveSystemSubclusters, Running
<1> QED
  BY <1>1, Variables, WithoutBootstrapKeeps, BootGoesOn

-----------------------------------------------------------------------------
LEMMA StoreInvInit ==
    ASSUME Init
    PROVE  StoreInv
<1>1. PICK configured \in BOOLEAN :
         calls = [c \in Calls |-> [NoCall EXCEPT !.phase =
                     IF c = "system" THEN ToLaunch(configured) ELSE "none"]]
  BY DEF Init
<1>2. /\ db = EmptyStore /\ saved = EmptyStore /\ crank = Closed
      /\ queued = <<>> /\ held = <<>> /\ handles = {} /\ workers = {}
      /\ root = NoVat /\ up = "running" /\ exposed = {}
      /\ spent = [deliveries |-> 0, faults |-> 0, botched |-> 0, crashes |-> 0]
  BY DEF Init
<1>3. NoMembers \in [Members -> Vats \cup {NoVat}]
  BY DEF NoMembers
<1>4. ASSUME NEW c \in Calls
      PROVE  /\ calls[c] \in CallStates /\ Shaped(c, calls[c])
             /\ calls[c].phase \in {"none", "done"}
             /\ c # "system" => calls[c].phase = "none"
  <2>1. PICK p \in {"none", "done"} :
           /\ calls[c] = [NoCall EXCEPT !.phase = p]
           /\ c # "system" => p = "none"
    BY <1>1 DEF ToLaunch
  <2>2. calls[c] \in CallStates /\ calls[c].phase = p
    BY <1>3, <2>1 DEF NoCall, CallStates, NoSubcluster
  <2>3. Shaped(c, calls[c])
    BY <2>1 DEF NoCall, Shaped, HasMembers
  <2> QED
    BY <2>1, <2>2, <2>3
<1>5. TypeOK
  <2>1. calls \in [Calls -> CallStates]
    BY <1>1, <1>4
  <2> QED
    BY <1>2, <2>1, EmptyStoreIsSound DEF TypeOK, Closed, Cranks
<1>6. ChannelsWait
  BY <1>4 DEF ChannelsWait, Calls
<1>7. SavedIsBehind
  <2>1. EmptyStore.nextVat = 1 /\ EmptyStore.nextSubcluster = 1
    BY DEF EmptyStore
  <2> QED
    BY <1>2, <2>1 DEF SavedIsBehind, IsOpen, Closed
<1> QED
  BY <1>2, <1>4, <1>5, <1>6, <1>7, EmptyStoreIsSound DEF StoreInv, BootIsAlone

LEMMA StoreInvStep ==
    ASSUME StoreInv, [Next]_vars
    PROVE  StoreInv'
<1>1. CASE UNCHANGED vars
  BY <1>1 DEF vars, StoreInv, TypeOK, Sound, ChannelsWait, HasRoom,
              BootIsAlone, NothingIsAsked, SavedIsBehind, IsOpen
<1>2. CASE \E c \in Launches : LaunchSubcluster(c)
  BY <1>2, LaunchingKeeps
<1>3. CASE \E s \in SubclusterIds : TerminateSubcluster(s)
  BY <1>3, TerminatingKeeps
<1>4. CASE \E c \in Calls : CallSteps(c)
  BY <1>4, CreatingChannelsKeeps, QueueingKeeps, ReturningKeeps,
     FailedLaunchesKeep, SkippingKeeps, AskingKeeps, HearingOfAnEndKeeps,
     EndingKeeps DEF CallSteps
<1>5. CASE \E c \in Launches, n \in Members : VatSettles(c, n)
  BY <1>5, StartingKeeps, FailingToStartKeeps DEF VatSettles
<1>6. CASE RunLoopSteps \/ StartDelivery
  BY <1>6, PerformingKeeps, EndingACrankKeeps, EndingInDeliveryKeeps,
     DeliveringKeeps DEF RunLoopSteps
<1>7. CASE \E v \in Vats : LoseVat(v)
  BY <1>7, LosingKeeps
<1>8. CASE Crash \/ Boots
  BY <1>8, CrashingKeeps, RestoringKeeps, StartingVatsKeeps, RemovingKeeps
     DEF Boots
<1> QED
  BY <1>1, <1>2, <1>3, <1>4, <1>5, <1>6, <1>7, <1>8 DEF Next

LEMMA StoreInvHolds == Spec => []StoreInv
<1>1. Init => StoreInv
  BY StoreInvInit
<1>2. StoreInv /\ [Next]_vars => StoreInv'
  BY StoreInvStep
<1> QED
  BY <1>1, <1>2, PTL DEF Spec

(* Every variable of Subclusters keeps its type: the store gives out no id *)
(* beyond its bounds, and lists and maps vats and subclusters only         *)
(* (SubclusterManager, VatManager, store/methods/subclusters.ts).          *)
THEOREM SubclustersTypeCorrect == Spec => []TypeOK
<1>1. StoreInv => TypeOK
  BY DEF StoreInv
<1> QED
  BY <1>1, StoreInvHolds, PTL

(* The two tables of membership agree in every state, also in the midst of *)
(* a crank and after one has been undone, whatever was launched, ended or  *)
(* lost meanwhile, for every vat but those of launches that share the id   *)
(* of one that was undone (store/methods/subclusters.ts).                  *)
THEOREM AlwaysMembershipAgrees == Spec => []MembershipAgrees
<1>1. ASSUME StoreInv PROVE MembershipAgrees
  <2> SUFFICES ASSUME NEW s \in SubclusterIds, NEW v \in Vats \ exposed
               PROVE  db.home[v] = s <=> s \in db.recorded /\ v \in Listed(db, s)
    BY DEF MembershipAgrees
  <2>1. db.home[v] = s <=> v \in Listed(db, s)
    BY <1>1, Variables DEF Sound, SoundBut
  <2>2. s \notin db.recorded => Listed(db, s) = {}
    BY <1>1, Variables, ListedAreVats DEF Sound, SoundBut
  <2> QED
    BY <2>1, <2>2
<1> QED
  BY <1>1, StoreInvHolds, PTL

-----------------------------------------------------------------------------
(* The vats whose launch was neither undone nor missed, step by step.      *)

LEMMA FloorIsNumber ==
    ASSUME StoreInv
    PROVE  /\ Floor \in Int /\ Floor <= db.nextSubcluster
           /\ db.nextSubcluster \in Int
           /\ ~IsOpen => Floor = db.nextSubcluster
           /\ \A s \in SubclusterIds : s \in Int
           /\ \A s \in db.recorded : s \in SubclusterIds /\ s < db.nextSubcluster
           /\ \A s \in saved.recorded : s \in SubclusterIds /\ s < saved.nextSubcluster
<1>1. /\ db.nextSubcluster \in Int /\ saved.nextSubcluster \in Int
      /\ db.recorded \subseteq SubclusterIds /\ saved.recorded \subseteq SubclusterIds
  BY Variables, FieldsOfStores
<1>2. saved.nextSubcluster <= db.nextSubcluster
  BY DEF StoreInv, SavedIsBehind
<1>3. /\ \A s \in db.recorded : s < db.nextSubcluster
      /\ \A s \in saved.recorded : s < saved.nextSubcluster
  BY Variables DEF Sound, SoundBut
<1> QED
  BY <1>1, <1>2, <1>3, Bounds DEF Floor, SubclusterIds

(* A launch that goes on has the subcluster it had; one that the open      *)
(* crank has recorded goes on till it is gone or the crank has ended.      *)
StaysLaunched(before, after, d) ==
    /\ /\ before.phase \notin Finished /\ ~Outlived(before)
       /\ before.sub \in d.recorded
       => \/ before.sub < Floor
          \/ after.phase \notin Finished /\ after.sub = before.sub /\ ~Outlived(after)
    /\ after.phase \notin Finished =>
          before.phase \notin Finished /\ after.sub = before.sub

(* One caller's step, as far as it concerns what is launched and ended.    *)
LEMMA CallerKeepsApart ==
    ASSUME StoreInv, StoreInv', ToldApart, NEW c \in Calls,
           NEW call, calls' = [calls EXCEPT ![c] = call],
           UNCHANGED <<saved, crank>>, exposed \subseteq exposed',
           db'.nextSubcluster = db.nextSubcluster,
           db'.recorded \subseteq db.recorded,
           \A v \in Vats : db'.home[v] \in {db.home[v], NoSubcluster},
           c \in Launches => StaysLaunched(calls[c], call, db'),
           c = "terminate" /\ call.phase = "ending" =>
              call.sub < Floor /\ ~BeingLaunched(call.sub)
    PROVE  ToldApart'
<1> DEFINE Goes(a, s) == calls'[a].phase \notin Finished /\ calls'[a].sub = s
<1>1. Floor' = Floor
  BY DEF Floor, IsOpen
<1>2. calls'[c] = call /\ \A a \in Calls \ {c} : calls'[a] = calls[a]
  BY DEF StoreInv, TypeOK
<1>3. Launches \subseteq Calls /\ "terminate" \in Calls \ Launches
  BY DEF Launches, Calls
<1>4. ASSUME NEW s \in db'.recorded, s >= Floor
      PROVE  \E a \in Launches : Goes(a, s) /\ ~Outlived(calls'[a])
  <2>1. s \in db.recorded /\ ~(s < Floor)
    BY <1>4, FloorIsNumber
  <2>2. PICK a \in Launches : Launching(a, s) /\ ~Outlived(calls[a])
    BY <1>4, <2>1 DEF ToldApart, FreshAreLaunched
  <2>3. Goes(a, s) /\ ~Outlived(calls'[a])
    BY <1>2, <1>3, <1>4, <2>1, <2>2 DEF Launching, StaysLaunched
  <2> QED
    BY <2>3
<1>5. ASSUME NEW a \in Launches, NEW s, Goes(a, s) PROVE Launching(a, s)
  BY <1>2, <1>3, <1>5 DEF Launching, StaysLaunched
<1>6. FreshAreLaunched'
  BY <1>1, <1>4 DEF FreshAreLaunched, Launching, Outlived
<1>7. EndedAreSettled'
  <2> SUFFICES ASSUME calls'["terminate"].phase = "ending"
               PROVE  /\ calls'["terminate"].sub < Floor
                      /\ \A a \in Launches : ~Goes(a, calls'["terminate"].sub)
    BY <1>1 DEF EndedAreSettled, BeingLaunched
  <2> HIDE DEF Goes
  <2>1. /\ calls'["terminate"].sub < Floor
        /\ ~BeingLaunched(calls'["terminate"].sub)
    BY <1>2, <1>3 DEF ToldApart, EndedAreSettled
  <2> QED
    BY <1>5, <2>1 DEF BeingLaunched, Launching
<1>8. SharedAreAstray'
  <2> SUFFICES ASSUME NEW a \in Launches, NEW b \in Launches, NEW s \in SubclusterIds,
                      a # b, Goes(a, s), Goes(b, s), NEW v \in Vats \ exposed'
               PROVE  db'.home[v] # s /\ saved.home[v] # s
    BY DEF SharedAreAstray, Launching
  <2>1. db.home[v] # s /\ saved.home[v] # s
    BY <1>5 DEF ToldApart, SharedAreAstray
  <2>2. s # NoSubcluster
    BY Bounds DEF NoSubcluster
  <2> QED
    BY <2>1, <2>2
<1> QED
  BY <1>6, <1>7, <1>8 DEF ToldApart

(* What is stored of the vats that stand is left as it was.                *)
LeftAlone(d, e) ==
    /\ e.nextSubcluster = d.nextSubcluster /\ e.recorded \subseteq d.recorded
    /\ e.home = d.home
    /\ \A v \in Vats : Stands(d, v) =>
          /\ Stands(e, v)
          /\ v \in e.active <=> v \in d.active
          /\ v \in Ended(e) => v \in Ended(d)

LEMMA SameIsLeftAlone ==
    ASSUME NEW d, NEW e, SameVats(d, e), e.nextVat = d.nextVat, e.home = d.home,
           e.nextSubcluster = d.nextSubcluster, e.recorded = d.recorded
    PROVE  LeftAlone(d, e)
BY DEF LeftAlone, Stands, SameVats, Ended

LEMMA ItselfIsLeftAlone == ASSUME NEW d PROVE LeftAlone(d, d)
BY DEF LeftAlone

LEMMA SweptIsLeftAlone ==
    ASSUME NEW d \in Stores, NEW e, Swept(d, e)
    PROVE  LeftAlone(d, e)
BY SweptIsSound DEF LeftAlone, Swept

(* What an ending leaves to its caller when it has seen to a member.       *)
Attends(before, after) ==
    after.phase = "ending" =>
        \/ after.todo = Listed(db, after.sub) /\ after.sub \in SubclusterIds
        \/ /\ before.phase = "ending" /\ after.sub = before.sub
           /\ \A v \in Kept : v \in before.todo \cup before.left =>
                 \/ v \in after.todo \cup after.left
                 \/ v \notin handles \cup db.active

StartsNobody(before, after) ==
    \/ after.starting = {}
    \/ /\ after.starting \subseteq before.starting
       /\ after.vats = before.vats /\ after.sub = before.sub

(* A step that leaves what is stored of the vats as it was.                *)
LEMMA VatsLeftAlone ==
    ASSUME StoreInv, VatInv, StoreInv', ToldApart',
           LeftAlone(db, db'),
           UNCHANGED <<saved, crank, workers>>, exposed \subseteq exposed',
           handles' \subseteq handles,
           handles \cap db.active \subseteq handles' \cup ToSet(queued') \cup ToSet(held'),
           ToSet(queued) \cup ToSet(held) \subseteq ToSet(queued') \cup ToSet(held'),
           \A c \in Calls : /\ Attends(calls[c], calls'[c])
                            /\ StartsNobody(calls[c], calls'[c])
    PROVE  VatInv'
<1>1. Kept' \subseteq Kept /\ Kept \subseteq Vats
  BY DEF Kept
<1>2. RootsStand(db)'
  BY <1>1 DEF VatInv, RootsStand, LeftAlone
<1>3. RootsStand(saved)'
  BY <1>1 DEF VatInv, RootsStand
<1>4. /\ db'.home = db.home
      /\ \A v \in Kept : /\ v \in db'.active <=> v \in db.active
                         /\ v \in Ended(db') => v \in Ended(db)
  BY <1>1 DEF VatInv, RootsStand, LeftAlone
<1>5. StartsClean'
  <2> SUFFICES ASSUME NEW c \in Launches, NEW n \in calls'[c].starting,
                      calls'[c].vats[n] \in Kept'
               PROVE  LET v == calls'[c].vats[n]
                      IN  /\ v \notin db'.active \cup Ended(db')
                          /\ v \notin saved.active \cup Ended(saved)
                          /\ db'.home[v] = calls'[c].sub
                          /\ saved.home[v] \in {calls'[c].sub, NoSubcluster}
    BY DEF StartsClean
  <2>1. c \in Calls
    BY DEF Launches, Calls
  <2>2. /\ n \in calls[c].starting /\ calls'[c].vats = calls[c].vats
        /\ calls'[c].sub = calls[c].sub
    BY <2>1 DEF StartsNobody
  <2> QED
    BY <1>1, <1>4, <2>2 DEF VatInv, StartsClean
<1>6. SavedLives'
  BY <1>1, <1>4 DEF VatInv, SavedLives
<1>7. InMemory'
  BY <1>1, <1>4 DEF VatInv, InMemory
<1>8. SeenToIsGone'
  <2> SUFFICES ASSUME NEW c \in Calls, calls'[c].phase = "ending",
                      NEW v \in Kept' \ (calls'[c].todo \cup calls'[c].left),
                      db.home[v] = calls'[c].sub
               PROVE  v \notin handles \cup db.active
    BY <1>1, <1>4 DEF SeenToIsGone
  <2>1. CASE calls'[c].todo = Listed(db, calls'[c].sub)
             /\ calls'[c].sub \in SubclusterIds
    BY <1>1, <2>1, Variables DEF Sound, SoundBut, Kept
  <2>2. CASE /\ calls[c].phase = "ending" /\ calls'[c].sub = calls[c].sub
             /\ \A w \in Kept : w \in calls[c].todo \cup calls[c].left =>
                   \/ w \in calls'[c].todo \cup calls'[c].left
                   \/ w \notin handles \cup db.active
    BY <1>1, <2>2 DEF VatInv, SeenToIsGone
  <2> QED
    BY <2>1, <2>2 DEF Attends
<1> QED
  BY <1>2, <1>3, <1>5, <1>6, <1>7, <1>8 DEF VatInv

LEMMA CallerLeavesVatsAlone ==
    ASSUME StoreInv, VatInv, StoreInv', NEW c \in Calls,
           NEW call, calls' = [calls EXCEPT ![c] = call],
           UNCHANGED <<saved, crank, workers, handles>>, exposed \subseteq exposed',
           LeftAlone(db, db'),
           ToSet(queued) \cup ToSet(held) \subseteq ToSet(queued') \cup ToSet(held'),
           Attends(calls[c], call), StartsNobody(calls[c], call),
           c \in Launches => StaysLaunched(calls[c], call, db'),
           c = "terminate" /\ call.phase = "ending" =>
              call.sub < Floor /\ ~BeingLaunched(call.sub)
    PROVE  VatInv'
<1>1. ToldApart'
  BY CallerKeepsApart DEF VatInv, LeftAlone
<1>2. calls'[c] = call /\ \A a \in Calls \ {c} : calls'[a] = calls[a]
  BY DEF StoreInv, TypeOK
<1>3. ASSUME NEW a \in Calls
      PROVE  Attends(calls[a], calls'[a]) /\ StartsNobody(calls[a], calls'[a])
  <2>1. CASE a = c
    BY <1>2, <2>1
  <2>2. CASE a # c
    <3>1. calls'[a] = calls[a]
      BY <1>2, <2>2
    <3>2. StartsNobody(calls[a], calls[a])
      BY DEF StartsNobody
    <3>3. Attends(calls[a], calls[a])
      BY DEF Attends
    <3> QED
      BY <3>1, <3>2, <3>3
  <2> QED
    BY <2>1, <2>2
<1>4. handles' = handles
  OBVIOUS
<1> QED
  BY <1>1, <1>3, <1>4, VatsLeftAlone


LEMMA FailingToStartStands ==
    ASSUME StoreInv, VatInv, StoreInv', NEW c \in Launches, NEW n \in Members,
           VatFails(c, n)
    PROVE  VatInv'
<1> DEFINE call == [calls[c] EXCEPT !.starting = @ \ {n}]
<1>1. /\ n \in calls[c].starting
      /\ calls' = [calls EXCEPT ![c].starting = @ \ {n}]
      /\ UNCHANGED <<db, saved, crank, queued, held, handles, workers, root, up,
                     exposed>>
  BY DEF VatFails
<1>2. /\ c \in Calls /\ calls[c].phase = "starting"
      /\ calls[c] \in CallStates
  BY <1>1, MemberSettles, ShapeOfCalls
<1>3. calls' = [calls EXCEPT ![c] = call]
  BY <1>1, <1>2 DEF StoreInv, TypeOK
<1>4. /\ call.phase = "starting" /\ call.sub = calls[c].sub
      /\ Outlived(call) => Outlived(calls[c])
      /\ StartsNobody(calls[c], call) /\ Attends(calls[c], call)
  BY <1>2 DEF CallStates, Outlived, StartsNobody, Attends
<1>5. c # "terminate" /\ "starting" \notin Finished
  BY DEF Launches, Finished
<1>6. StaysLaunched(calls[c], call, db')
  BY <1>2, <1>4, <1>5 DEF StaysLaunched
<1> HIDE DEF call
<1> QED
  BY <1>1, <1>2, <1>3, <1>4, <1>5, <1>6, ItselfIsLeftAlone, CallerLeavesVatsAlone

LEMMA QueueingStands ==
    ASSUME StoreInv, VatInv, StoreInv', NEW c \in Launches, QueueBootstrap(c)
    PROVE  VatInv'
<1>1. /\ calls[c].phase = "starting" /\ calls[c].starting = {}
      /\ \E phase \in {"bootstrapping", "failing"} :
            /\ calls' = [calls EXCEPT ![c].phase = phase]
            /\ phase = "bootstrapping" => ~IsOpen
      /\ UNCHANGED <<db, saved, crank, queued, held, handles, workers, root, up,
                     spent, exposed>>
  BY DEF QueueBootstrap
<1>2. PICK phase \in {"bootstrapping", "failing"} :
         /\ calls' = [calls EXCEPT ![c].phase = phase]
         /\ phase = "bootstrapping" => ~IsOpen
  BY <1>1
<1> DEFINE call == [calls[c] EXCEPT !.phase = phase]
<1>3. c \in Calls /\ c # "terminate"
  BY DEF Launches, Calls
<1>4. calls[c] \in CallStates
  BY <1>3, ShapeOfCalls
<1>5. calls' = [calls EXCEPT ![c] = call]
  BY <1>2, <1>3 DEF StoreInv, TypeOK
<1>6. /\ call.phase = phase /\ call.sub = calls[c].sub /\ call.starting = {}
      /\ Outlived(call) => Outlived(calls[c]) \/ phase = "bootstrapping"
      /\ StartsNobody(calls[c], call) /\ Attends(calls[c], call)
  BY <1>1, <1>4 DEF CallStates, Outlived, StartsNobody, Attends
<1>7. "starting" \notin Finished /\ phase \notin Finished
  BY DEF Finished
<1> HIDE DEF call
<1>8. StaysLaunched(calls[c], call, db')
  <2>1. ~IsOpen /\ calls[c].sub \in db.recorded => calls[c].sub < Floor
    BY FloorIsNumber
  <2> QED
    BY <1>1, <1>2, <1>6, <1>7, <2>1 DEF StaysLaunched
<1> QED
  BY <1>1, <1>3, <1>5, <1>6, <1>7, <1>8, ItselfIsLeftAlone, CallerLeavesVatsAlone

LEMMA ReturningStands ==
    ASSUME StoreInv, VatInv, StoreInv', NEW c \in Launches, LaunchReturns(c)
    PROVE  VatInv'
<1> DEFINE call == [NoCall EXCEPT !.phase = "done"]
<1>1. /\ calls[c].phase = "launched"
      /\ calls' = [calls EXCEPT ![c] = call]
      /\ \/ db' = [db EXCEPT !.name = calls[c].sub]
         \/ UNCHANGED db
      /\ UNCHANGED <<saved, crank, queued, held, handles, workers, up, spent,
                     exposed>>
  BY DEF LaunchReturns
<1>2. c \in Calls /\ c # "terminate"
  BY DEF Launches, Calls
<1>3. calls[c].sub \in SubclusterIds
  BY <1>1, <1>2, ShapeOfCalls DEF Shaped, HasMembers
<1>4. /\ call.phase = "done" /\ ~Outlived(call)
      /\ StartsNobody(calls[c], call) /\ Attends(calls[c], call)
  BY DEF NoCall, Outlived, StartsNobody, Attends
<1> HIDE DEF call
<1>5. LeftAlone(db, db')
  <2>1. CASE db' = [db EXCEPT !.name = calls[c].sub]
    BY <1>3, <2>1, Variables, NameDropped, SameIsLeftAlone
  <2>2. CASE UNCHANGED db
    BY <2>2, ItselfIsLeftAlone
  <2> QED
    BY <1>1, <2>1, <2>2
<1>6. Outlived(calls[c])
  BY <1>1 DEF Outlived
<1>7. "done" \in Finished /\ StaysLaunched(calls[c], call, db')
  BY <1>4, <1>6 DEF Finished, StaysLaunched
<1> QED
  BY <1>1, <1>2, <1>4, <1>5, <1>6, <1>7, CallerLeavesVatsAlone

LEMMA BeginningToEndStands ==
    ASSUME StoreInv, VatInv, StoreInv', NEW c \in Calls, NEW s \in SubclusterIds,
           BeginEnding(c, s),
           c \in Launches => calls[c].phase \notin Finished /\ s = calls[c].sub,
           c = "terminate" => s < Floor /\ ~BeingLaunched(s),
           UNCHANGED <<db, saved, crank, queued, held, handles, workers, exposed>>
    PROVE  VatInv'
<1> DEFINE call == [NoCall EXCEPT !.phase = "ending", !.sub = s,
                        !.vats = db.vats[s], !.todo = Listed(db, s)]
<1>1. calls' = [calls EXCEPT ![c] = call]
  BY DEF BeginEnding
<1>2. /\ call.phase = "ending" /\ call.sub = s /\ ~Outlived(call)
      /\ StartsNobody(calls[c], call) /\ Attends(calls[c], call)
  BY DEF NoCall, Outlived, StartsNobody, Attends
<1>3. "ending" \notin Finished
  BY DEF Finished
<1> HIDE DEF call
<1>4. c \in Launches => StaysLaunched(calls[c], call, db')
  BY <1>2, <1>3 DEF StaysLaunched
<1>5. c = "terminate" => call.sub < Floor /\ ~BeingLaunched(call.sub)
  BY <1>2
<1> QED
  BY <1>1, <1>2, <1>4, <1>5, ItselfIsLeftAlone, CallerLeavesVatsAlone

LEMMA FailedLaunchesStand ==
    ASSUME StoreInv, VatInv, StoreInv', NEW c \in Launches, FailLaunch(c)
    PROVE  VatInv'
<1>1. /\ calls[c].phase = "failing" /\ BeginEnding(c, calls[c].sub)
      /\ UNCHANGED <<db, saved, crank, queued, held, handles, workers, exposed>>
  BY DEF FailLaunch
<1>2. c \in Calls /\ c # "terminate" /\ "failing" \notin Finished
  BY DEF Launches, Calls, Finished
<1>3. calls[c].sub \in SubclusterIds
  BY <1>1, <1>2, ShapeOfCalls DEF Shaped, HasMembers
<1> QED
  BY <1>1, <1>2, <1>3, BeginningToEndStands

LEMMA TerminatingStands ==
    ASSUME ~Overlapping, StoreInv, VatInv, StoreInv', NEW s \in SubclusterIds,
           TerminateSubcluster(s)
    PROVE  VatInv'
<1>1. /\ s \in db.recorded /\ ~BeingLaunched(s) /\ BeginEnding("terminate", s)
      /\ UNCHANGED <<db, saved, crank, queued, held, handles, workers, exposed>>
  BY DEF TerminateSubcluster
<1>2. "terminate" \in Calls \ Launches
  BY DEF Calls, Launches
<1>3. s < Floor
  BY <1>1, FloorIsNumber
     DEF VatInv, ToldApart, FreshAreLaunched, BeingLaunched, Launching
<1> QED
  BY <1>1, <1>2, <1>3, BeginningToEndStands

LEMMA SkippingStands ==
    ASSUME StoreInv, VatInv, StoreInv', NEW c \in Calls, SkipMember(c)
    PROVE  VatInv'
<1> DEFINE v == Current(c)
           call == [calls[c] EXCEPT !.todo = @ \ {v}]
<1>1. /\ calls[c].phase = "ending"
      /\ v \notin handles \cup db.active
      /\ exposed' = exposed \/ exposed' = exposed \cup {v}
      /\ calls' = [calls EXCEPT ![c].todo = @ \ {v}]
      /\ UNCHANGED <<db, saved, crank, queued, held, handles, workers>>
  BY DEF SkipMember, IsVatGone, Known
<1>2. calls[c] \in CallStates /\ Shaped(c, calls[c])
  BY ShapeOfCalls
<1>3. calls' = [calls EXCEPT ![c] = call]
  BY <1>1 DEF StoreInv, TypeOK
<1> HIDE DEF v
<1>4. /\ call.phase = "ending" /\ call.sub = calls[c].sub
      /\ Outlived(call) => Outlived(calls[c])
      /\ StartsNobody(calls[c], call) /\ Attends(calls[c], call)
  BY <1>1, <1>2 DEF CallStates, Outlived, StartsNobody, Attends
<1>5. "ending" \notin Finished /\ exposed \subseteq exposed'
  BY <1>1 DEF Finished
<1>6. StaysLaunched(calls[c], call, db')
  BY <1>1, <1>4, <1>5 DEF StaysLaunched
<1>7. c = "terminate" => call.sub < Floor /\ ~BeingLaunched(call.sub)
  BY <1>1, <1>4 DEF VatInv, ToldApart, EndedAreSettled
<1> HIDE DEF call
<1> QED
  BY <1>1, <1>3, <1>4, <1>5, <1>6, <1>7, ItselfIsLeftAlone, CallerLeavesVatsAlone

LEMMA AskingStands ==
    ASSUME StoreInv, VatInv, StoreInv', NEW c \in Calls, EndMember(c)
    PROVE  VatInv'
<1> DEFINE call == [calls[c] EXCEPT !.wait = "queued"]
<1>1. /\ calls[c].phase = "ending" /\ calls[c].todo # {}
      /\ EnqueueTerminateVat(Current(c))
      /\ calls' = [calls EXCEPT ![c].wait = "queued"]
      /\ UNCHANGED <<db, saved, crank, handles, workers, exposed>>
  BY DEF EndMember
<1>2. /\ calls[c] \in CallStates /\ Shaped(c, calls[c])
      /\ Current(c) \in Vats
  BY <1>1, EndingCaller
<1>3. calls' = [calls EXCEPT ![c] = call]
  BY <1>1 DEF StoreInv, TypeOK
<1>4. /\ call.phase = "ending" /\ call.sub = calls[c].sub
      /\ Outlived(call) => Outlived(calls[c])
      /\ StartsNobody(calls[c], call) /\ Attends(calls[c], call)
  BY <1>1, <1>2 DEF CallStates, Outlived, StartsNobody, Attends
<1>5. "ending" \notin Finished
  BY DEF Finished
<1>6. ToSet(queued) \cup ToSet(held) \subseteq ToSet(queued') \cup ToSet(held')
  BY <1>1, <1>2, RequestIsQueued
<1>7. StaysLaunched(calls[c], call, db')
  BY <1>1, <1>4, <1>5 DEF StaysLaunched
<1>8. c = "terminate" => call.sub < Floor /\ ~BeingLaunched(call.sub)
  BY <1>1, <1>4 DEF VatInv, ToldApart, EndedAreSettled
<1> HIDE DEF call
<1> QED
  BY <1>1, <1>3, <1>4, <1>6, <1>7, <1>8, ItselfIsLeftAlone, CallerLeavesVatsAlone

LEMMA HearingOfAnEndStands ==
    ASSUME StoreInv, VatInv, StoreInv', NEW c \in Calls, MemberEnded(c)
    PROVE  VatInv'
<1> DEFINE v == Current(c)
           left == IF v \in handles \cup db'.active THEN calls[c].left \cup {v}
                   ELSE calls[c].left
           call == [calls[c] EXCEPT !.wait = "none", !.todo = @ \ {v}, !.left = left]
<1>1. /\ calls[c].wait = "answered"
      /\ db' = CollectGarbage(db)
      /\ calls' = [calls EXCEPT ![c].wait = "none", ![c].todo = @ \ {v},
                      ![c].left = IF v \in handles \cup db'.active
                                  THEN @ \cup {v} ELSE @]
      /\ UNCHANGED <<saved, crank, queued, held, handles, workers, exposed>>
  BY DEF MemberEnded
<1>2. /\ calls[c] \in CallStates /\ calls[c].phase = "ending" /\ v \in Vats
  BY <1>1, EndingCaller DEF Shaped
<1>3. calls' = [calls EXCEPT ![c] = call]
  BY <1>1 DEF StoreInv, TypeOK
<1> HIDE DEF v
<1>4. LeftAlone(db, db')
  BY <1>1, Variables, GarbageCollected, SweptIsLeftAlone
<1>5. \A w \in Kept : w \in db'.active <=> w \in db.active
  BY <1>4 DEF LeftAlone, VatInv, RootsStand, Kept
<1>6. v \in call.left \/ v \notin handles \cup db'.active
  BY <1>2 DEF CallStates
<1> HIDE DEF left
<1>7. /\ call.phase = "ending" /\ call.sub = calls[c].sub
      /\ call.todo = calls[c].todo \ {v} /\ calls[c].left \subseteq call.left
      /\ StartsNobody(calls[c], call)
  BY <1>1, <1>2 DEF CallStates, StartsNobody, left
<1>8. Outlived(calls[c]) /\ "ending" \notin Finished
  BY <1>1 DEF Outlived, Finished
<1> HIDE DEF call
<1>9. Attends(calls[c], call)
  BY <1>2, <1>5, <1>6, <1>7 DEF Attends
<1>10. StaysLaunched(calls[c], call, db')
  BY <1>2, <1>7, <1>8 DEF StaysLaunched
<1>11. c = "terminate" => call.sub < Floor /\ ~BeingLaunched(call.sub)
  BY <1>2, <1>7 DEF VatInv, ToldApart, EndedAreSettled
<1> QED
  BY <1>1, <1>3, <1>4, <1>7, <1>9, <1>10, <1>11, CallerLeavesVatsAlone

LEMMA LosingStands ==
    ASSUME StoreInv, VatInv, StoreInv', NEW v \in Vats, LoseVat(v)
    PROVE  VatInv'
<1>1. /\ handles' = handles \ {v}
      /\ v \in db.active => EnqueueTerminateVat(v)
      /\ v \notin db.active => UNCHANGED <<queued, held>>
      /\ UNCHANGED <<db, saved, crank, workers, calls, exposed>>
  BY DEF LoseVat
<1>2. /\ ToSet(queued) \cup ToSet(held) \subseteq ToSet(queued') \cup ToSet(held')
      /\ v \in db.active => v \in ToSet(queued') \cup ToSet(held')
  BY <1>1, RequestIsQueued
<1>3. \A c \in Calls : /\ Attends(calls[c], calls'[c])
                       /\ StartsNobody(calls[c], calls'[c])
  BY <1>1 DEF Attends, StartsNobody
<1>4. ToldApart'
  BY <1>1 DEF VatInv, ToldApart, FreshAreLaunched, EndedAreSettled, SharedAreAstray,
              Launching, BeingLaunched, Floor, IsOpen, Outlived
<1> QED
  BY <1>1, <1>2, <1>3, <1>4, ItselfIsLeftAlone, VatsLeftAlone

(* A vat that stands where a launch has put it is nobody else's.           *)
LEMMA TheirOwn ==
    ASSUME ToldApart, NEW b \in Launches, NEW c \in Calls \ {b},
           calls[b].phase \notin Finished, calls[b].sub \in SubclusterIds,
           \/ c \in Launches /\ calls[c].phase \notin Finished
           \/ calls[c].phase = "ending",
           NEW v \in Kept, db.home[v] = calls[b].sub
    PROVE  calls[c].sub # calls[b].sub
<1>1. "ending" \notin Finished
  BY DEF Finished
<1>2. CASE c \in Launches
  BY <1>1, <1>2 DEF ToldApart, SharedAreAstray, Launching, Kept
<1>3. CASE c \notin Launches
  <2>1. c = "terminate"
    BY <1>3 DEF Calls, Launches
  <2> QED
    BY <1>3, <2>1 DEF ToldApart, EndedAreSettled, BeingLaunched
<1> QED
  BY <1>2, <1>3

LEMMA EndingStands ==
    ASSUME StoreInv, VatInv, StoreInv', NEW c \in Calls, EndingEnds(c)
    PROVE  VatInv'
<1> DEFINE s == calls[c].sub
<1>1. /\ calls[c].phase = "ending" /\ calls[c].todo = {}
      /\ \E phase \in {"done", "failed"} :
            calls' = [calls EXCEPT ![c] = [NoCall EXCEPT !.phase = phase]]
      /\ UNCHANGED <<saved, crank, queued, held, handles, workers, exposed>>
  BY DEF EndingEnds
<1>2. PICK phase \in {"done", "failed"} :
         calls' = [calls EXCEPT ![c] = [NoCall EXCEPT !.phase = phase]]
  BY <1>1
<1> DEFINE call == [NoCall EXCEPT !.phase = phase]
<1>3. /\ call.phase = phase /\ ~Outlived(call) /\ call.starting = {}
      /\ phase \in Finished /\ phase # "ending" /\ "ending" \notin Finished
  BY DEF NoCall, Outlived, Finished
<1>4. calls' = [calls EXCEPT ![c] = call]
  BY <1>2
<1> HIDE DEF call
<1>5. StartsNobody(calls[c], call) /\ Attends(calls[c], call)
  BY <1>3 DEF StartsNobody, Attends
<1>6. CASE calls[c].left # {}
  <2>1. db' = db
    BY <1>6, WhatEndingDoes
  <2>2. Outlived(calls[c])
    BY <1>6 DEF Outlived
  <2>3. StaysLaunched(calls[c], call, db')
    BY <1>3, <2>2 DEF StaysLaunched
  <2> QED
    BY <1>1, <1>3, <1>4, <1>5, <2>1, <2>3, ItselfIsLeftAlone, CallerLeavesVatsAlone
<1>7. CASE calls[c].left = {}
  <2>1. /\ Dissolved(db, db', s) /\ SameVats(db, db')
    BY <1>7, WhatEndingDoes
  <2>2. /\ db'.active = db.active /\ Ended(db') = Ended(db)
        /\ db'.pins = db.pins /\ db'.rooted = db.rooted
        /\ db'.nextVat = db.nextVat /\ db'.nextSubcluster = db.nextSubcluster
        /\ db'.recorded = db.recorded \ {s}
        /\ \A v \in Vats : db'.home[v] \in {db.home[v], NoSubcluster}
    BY <2>1 DEF SameVats, Ended, Dissolved
  <2>3. Kept' = Kept /\ Kept \subseteq Vats
    BY <1>1 DEF Kept
  <2>4. \A v \in Kept : db.home[v] = s => v \notin handles \cup db.active
    BY <1>1, <1>7 DEF VatInv, SeenToIsGone
  <2>5. calls'[c] = call /\ \A a \in Calls \ {c} : calls'[a] = calls[a]
    BY <1>4 DEF StoreInv, TypeOK
  <2>6. s \in SubclusterIds /\ s # NoSubcluster
    BY <1>1, EndingCaller, Bounds DEF NoSubcluster
  <2>7. \A v \in Kept : db'.home[v] = IF db.home[v] = s THEN NoSubcluster
                                     ELSE db.home[v]
    <3>1. \A v \in Kept : v \in Listed(db, s) <=> db.home[v] = s
      BY <2>6, Variables DEF Sound, SoundBut, Kept
    <3> QED
      BY <2>1, <2>3, <3>1 DEF Dissolved
  <2>8. ToldApart'
    <3>1. s \notin db'.recorded /\ db'.recorded \subseteq db.recorded
      BY <2>2
    <3>2. StaysLaunched(calls[c], call, db')
      BY <1>3, <3>1 DEF StaysLaunched
    <3>3. c = "terminate" => call.phase # "ending"
      BY <1>3
    <3>4. ToldApart /\ exposed \subseteq exposed'
      BY <1>1 DEF VatInv
    <3> QED
      BY <1>1, <1>4, <2>2, <3>1, <3>2, <3>3, <3>4, CallerKeepsApart
  <2> HIDE DEF s
  <2>9. RootsStand(db)'
    BY <2>2, <2>3, <2>4, <2>7 DEF VatInv, RootsStand, Stands
  <2>10. RootsStand(saved)'
    BY <1>1, <2>3 DEF VatInv, RootsStand
  <2>11. StartsClean'
    <3> SUFFICES ASSUME NEW b \in Launches, NEW n \in calls'[b].starting,
                        calls'[b].vats[n] \in Kept
                 PROVE  LET v == calls'[b].vats[n]
                        IN  /\ v \notin db'.active \cup Ended(db')
                            /\ v \notin saved.active \cup Ended(saved)
                            /\ db'.home[v] = calls'[b].sub
                            /\ saved.home[v] \in {calls'[b].sub, NoSubcluster}
      BY <1>1, <2>3 DEF StartsClean
    <3>1. b \in Calls \ {c} /\ calls'[b] = calls[b]
      BY <1>3, <2>5 DEF Launches, Calls
    <3>2. calls[b].phase \notin Finished /\ calls[b].sub \in SubclusterIds
      BY <3>1, ShapeOfCalls DEF Shaped, HasMembers, Finished
    <3>3. db.home[calls[b].vats[n]] = calls[b].sub
      BY <2>3, <3>1 DEF VatInv, StartsClean
    <3>4. calls[b].sub # s
      <4>1. c \in Calls \ {b} /\ calls[c].phase = "ending" /\ ToldApart
        BY <1>1, <3>1 DEF VatInv
      <4> QED
        BY <3>1, <3>2, <3>3, <4>1, TheirOwn DEF s
    <3> QED
      BY <2>2, <2>3, <2>7, <3>1, <3>3, <3>4 DEF VatInv, StartsClean
  <2>12. SavedLives'
    BY <1>1, <2>2, <2>3, <2>4, <2>7 DEF VatInv, SavedLives
  <2>13. InMemory'
    BY <1>1, <2>2, <2>3 DEF VatInv, InMemory
  <2>14. SeenToIsGone'
    <3> SUFFICES ASSUME NEW a \in Calls, calls'[a].phase = "ending",
                        NEW v \in Kept \ (calls'[a].todo \cup calls'[a].left),
                        db'.home[v] = calls'[a].sub
                 PROVE  v \notin handles \cup db.active
      BY <1>1, <2>2, <2>3 DEF SeenToIsGone
    <3>1. a # c /\ calls'[a] = calls[a]
      BY <1>3, <2>5
    <3>2. calls[a].sub \in SubclusterIds /\ calls[a].sub # NoSubcluster
      BY <3>1, EndingCaller, Bounds DEF NoSubcluster
    <3>3. db.home[v] = calls[a].sub
      BY <2>2, <2>3, <3>1, <3>2
    <3> QED
      BY <3>1, <3>3 DEF VatInv, SeenToIsGone
  <2> QED
    BY <2>8, <2>9, <2>10, <2>11, <2>12, <2>13, <2>14 DEF VatInv
<1> QED
  BY <1>6, <1>7

(* Nothing that stands is under an id that has not been given out.         *)
LEMMA FreshIsNobodys ==
    ASSUME StoreInv, db.nextSubcluster \in SubclusterIds, NEW v \in Kept
    PROVE  db.home[v] # db.nextSubcluster /\ saved.home[v] # db.nextSubcluster
<1> DEFINE s == db.nextSubcluster
<1>1. /\ v \in Vats \ exposed /\ Sound(db) /\ Sound(saved)
      /\ db \in Stores /\ saved \in Stores
  BY Variables DEF Kept
<1>2. ASSUME NEW d \in {db, saved}, d.home[v] = s
      PROVE  s \in d.recorded
  BY <1>1, <1>2, ListedAreVats DEF Sound, SoundBut
<1>3. s \notin db.recorded /\ s \notin saved.recorded
  <2>1. saved.nextSubcluster <= s /\ saved.nextSubcluster \in Int /\ s \in Int
    BY <1>1, FieldsOfStores DEF StoreInv, SavedIsBehind
  <2> QED
    BY <2>1, FloorIsNumber
<1> QED
  BY <1>2, <1>3

(* A launch that takes its places, under an id that is new or its own.     *)
LEMMA LaunchedApart ==
    ASSUME StoreInv, ToldApart, StoreInv', NEW c \in Launches,
           NEW s \in SubclusterIds,
           NEW call, calls' = [calls EXCEPT ![c] = call], call.sub = s,
           call.phase \in {"starting", "channels"}, ~Outlived(call),
           UNCHANGED <<saved, crank>>, exposed \subseteq exposed',
           \A v \in Vats : db'.home[v] # db.home[v] =>
              db'.home[v] = s /\ (IsShared(c, s) => v \in exposed'),
           \/ /\ s = db.nextSubcluster /\ calls[c].phase = "none"
              /\ db'.nextSubcluster = s + 1 /\ db'.recorded = db.recorded \cup {s}
           \/ /\ s = calls[c].sub /\ calls[c].phase = "channels"
              /\ db'.nextSubcluster = db.nextSubcluster
              /\ db'.recorded = db.recorded
    PROVE  ToldApart'
<1> DEFINE Goes(a, t) == calls'[a].phase \notin Finished /\ calls'[a].sub = t
<1>1. Floor' = IF IsOpen THEN saved.nextSubcluster ELSE db'.nextSubcluster
  BY DEF Floor, IsOpen
<1>2. Floor \in Int /\ Floor' \in Int /\ Floor <= Floor' /\ db.nextSubcluster \in Int
  <2>1. Floor \in Int /\ s \in Int /\ db.nextSubcluster \in Int
    BY FloorIsNumber
  <2>2. saved.nextSubcluster \in Int
    BY Variables, FieldsOfStores
  <2> QED
    BY <1>1, <2>1, <2>2 DEF Floor
<1>3. calls'[c] = call /\ \A a \in Calls \ {c} : calls'[a] = calls[a]
  BY DEF StoreInv, TypeOK, Launches, Calls
<1>4. Launches \subseteq Calls /\ "terminate" \in Calls \ Launches
  BY DEF Launches, Calls
<1>5. call.phase \notin Finished /\ "none" \in Finished /\ "channels" \notin Finished
  BY DEF Finished
<1>6. ASSUME NEW t \in db'.recorded, t >= Floor'
      PROVE  \E a \in Launches : Goes(a, t) /\ ~Outlived(calls'[a])
  <2>1. CASE t = s
    BY <1>3, <1>5, <2>1
  <2>2. CASE t # s
    <3>1. t \in db.recorded
      BY <1>6, <2>2
    <3>2. t \in Int /\ t >= Floor
      BY <1>2, <1>6, <3>1, FloorIsNumber
    <3>3. PICK a \in Launches : Launching(a, t) /\ ~Outlived(calls[a])
      BY <3>1, <3>2 DEF ToldApart, FreshAreLaunched
    <3>4. a # c
      BY <1>5, <2>2, <3>3 DEF Launching
    <3> QED
      BY <1>3, <1>4, <3>3, <3>4 DEF Launching
  <2> QED
    BY <2>1, <2>2
<1>7. ASSUME NEW a \in Launches \ {c}, NEW t, Goes(a, t) PROVE Launching(a, t)
  BY <1>3, <1>4, <1>7 DEF Launching
<1>8. ASSUME NEW t, Goes(c, t) PROVE t = s
  BY <1>3, <1>8
<1>9. FreshAreLaunched'
  BY <1>6 DEF FreshAreLaunched, Launching, Outlived
<1>10. EndedAreSettled'
  <2> SUFFICES ASSUME calls'["terminate"].phase = "ending"
               PROVE  /\ calls'["terminate"].sub < Floor'
                      /\ \A a \in Launches : ~Goes(a, calls'["terminate"].sub)
    BY DEF EndedAreSettled, BeingLaunched
  <2> HIDE DEF Goes
  <2>1. calls'["terminate"] = calls["terminate"]
    BY <1>3, <1>4
  <2>2. /\ calls["terminate"].sub < Floor /\ ~BeingLaunched(calls["terminate"].sub)
        /\ calls["terminate"].sub \in SubclusterIds
    BY <1>4, <2>1, EndingCaller DEF ToldApart, EndedAreSettled
  <2>3. calls["terminate"].sub # s
    <3>1. CASE s = db.nextSubcluster
      BY <2>2, <3>1, FloorIsNumber
    <3>2. CASE s = calls[c].sub /\ calls[c].phase = "channels"
      BY <1>5, <2>2, <3>2 DEF BeingLaunched
    <3> QED
      BY <3>1, <3>2
  <2>4. calls["terminate"].sub < Floor'
    BY <1>2, <2>2, FloorIsNumber
  <2>5. \A a \in Launches : ~Launching(a, calls["terminate"].sub)
    BY <2>2 DEF BeingLaunched, Launching
  <2> QED
    BY <1>7, <1>8, <2>1, <2>3, <2>4, <2>5
<1>11. SharedAreAstray'
  <2> SUFFICES ASSUME NEW a \in Launches, NEW b \in Launches, NEW t \in SubclusterIds,
                      a # b, Goes(a, t), Goes(b, t), NEW v \in Vats \ exposed'
               PROVE  db'.home[v] # t /\ saved.home[v] # t
    BY DEF SharedAreAstray, Launching
  <2> HIDE DEF Goes
  <2>1. v \in Kept
    BY DEF Kept
  <2>2. CASE t # s
    <3>1. Launching(a, t) /\ Launching(b, t)
      BY <1>7, <1>8, <2>2
    <3>2. db.home[v] # t /\ saved.home[v] # t
      BY <3>1 DEF ToldApart, SharedAreAstray
    <3> QED
      BY <2>2, <3>2
  <2>3. CASE t = s
    <3>1. PICK other \in {a, b} : other # c
      OBVIOUS
    <3>2. Launching(other, s)
      BY <1>7, <2>3, <3>1
    <3>3. db'.home[v] = db.home[v]
      BY <3>1, <3>2 DEF IsShared, Launching
    <3>4. CASE s = db.nextSubcluster
      BY <2>1, <2>3, <3>3, <3>4, FreshIsNobodys
    <3>5. CASE s = calls[c].sub /\ calls[c].phase = "channels"
      <4>1. Launching(c, s)
        BY <1>5, <3>5 DEF Launching
      <4> QED
        BY <2>3, <3>1, <3>2, <3>3, <4>1 DEF ToldApart, SharedAreAstray
    <3> QED
      BY <3>4, <3>5
  <2> QED
    BY <2>2, <2>3
<1> QED
  BY <1>9, <1>10, <1>11 DEF ToldApart

LEMMA PlacesTaken ==
    ASSUME StoreInv, VatInv, StoreInv', ToldApart', NEW c \in Launches,
           NEW s \in SubclusterIds,
           NEW call, calls' = [calls EXCEPT ![c] = call], call.sub = s,
           call.phase \in {"starting", "channels"},
           \A n \in call.starting :
              /\ call.vats[n] \in Vats /\ call.vats[n] >= db.nextVat
              /\ db'.home[call.vats[n]] = s,
           SameVats(db, db'), db.nextVat <= db'.nextVat,
           \A v \in Vats : db'.home[v] # db.home[v] =>
              db.home[v] = NoSubcluster /\ db'.home[v] = s /\ v >= db.nextVat,
           UNCHANGED <<saved, crank, queued, held, handles, workers>>,
           exposed \subseteq exposed'
    PROVE  VatInv'
<1>1. /\ db'.active = db.active /\ Ended(db') = Ended(db)
      /\ db'.pins = db.pins /\ db'.rooted = db.rooted
  BY DEF SameVats, Ended
<1>2. Kept' \subseteq Kept /\ Kept \subseteq Vats
  BY DEF Kept
<1>3. calls'[c] = call /\ \A a \in Calls \ {c} : calls'[a] = calls[a]
  BY DEF StoreInv, TypeOK, Launches, Calls
<1>4. /\ db.nextVat \in Int /\ db'.nextVat \in Int
      /\ saved.nextVat \in Int /\ saved.nextVat <= db.nextVat
      /\ \A v \in Vats : v \in Int
  <2>1. \A d \in Stores : d.nextVat \in Int
    BY FieldsOfStores
  <2>2. db \in Stores /\ saved \in Stores
    BY Variables
  <2>3. db' \in Stores
    BY DEF StoreInv, TypeOK
  <2>4. saved.nextVat <= db.nextVat
    BY DEF StoreInv, SavedIsBehind
  <2>5. \A v \in Vats : v \in Int
    BY Bounds DEF Vats
  <2> QED
    BY <2>1, <2>2, <2>3, <2>4, <2>5
<1>5. \A v \in Kept : v >= db.nextVat =>
         /\ v \notin db.active \cup Ended(db) /\ v \notin handles
         /\ v \notin saved.active \cup Ended(saved)
  BY <1>2, <1>4 DEF VatInv, RootsStand, Stands, InMemory
<1>6. \A v \in Vats : v >= db.nextVat => saved.home[v] = NoSubcluster
  BY <1>4, Variables DEF Sound, SoundBut
<1>7. RootsStand(db)'
  <2> SUFFICES ASSUME NEW v \in Kept PROVE Stands(db', v)
    BY <1>2 DEF RootsStand
  <2>1. Stands(db, v)
    BY DEF VatInv, RootsStand
  <2>2. v \in Vats /\ (v >= db'.nextVat => v >= db.nextVat)
    BY <1>2, <1>4
  <2>3. db.home[v] # NoSubcluster => db'.home[v] # NoSubcluster
    BY <2>2
  <2> QED
    BY <1>1, <2>1, <2>2, <2>3 DEF Stands
<1>8. RootsStand(saved)'
  BY <1>2 DEF VatInv, RootsStand
<1>9. StartsClean'
  <2> SUFFICES ASSUME NEW b \in Launches, NEW n \in calls'[b].starting,
                      calls'[b].vats[n] \in Kept'
               PROVE  LET v == calls'[b].vats[n]
                      IN  /\ v \notin db.active \cup Ended(db)
                          /\ v \notin saved.active \cup Ended(saved)
                          /\ db'.home[v] = calls'[b].sub
                          /\ saved.home[v] \in {calls'[b].sub, NoSubcluster}
    BY <1>1, <1>2 DEF StartsClean
  <2>1. CASE b = c
    BY <1>2, <1>3, <1>5, <1>6, <2>1
  <2>2. CASE b # c
    <3>1. b \in Calls /\ calls'[b] = calls[b]
      BY <1>3, <2>2 DEF Launches, Calls
    <3>2. calls[b].sub # NoSubcluster
      BY <3>1, ShapeOfCalls, Bounds DEF Shaped, HasMembers, NoSubcluster
    <3>3. /\ db.home[calls[b].vats[n]] = calls[b].sub
          /\ calls[b].vats[n] \notin db.active \cup Ended(db)
          /\ calls[b].vats[n] \notin saved.active \cup Ended(saved)
          /\ saved.home[calls[b].vats[n]] \in {calls[b].sub, NoSubcluster}
      BY <1>2, <3>1 DEF VatInv, StartsClean
    <3> QED
      BY <1>2, <3>1, <3>2, <3>3
  <2> QED
    BY <2>1, <2>2
<1>10. SavedLives'
  <2> SUFFICES ASSUME crank.item # "end", NEW v \in Kept
               PROVE  /\ v \in saved.active => v \in db.active
                      /\ \/ saved.home[v] \in {db'.home[v], NoSubcluster}
                         \/ v \notin handles \cup db.active
    BY <1>1, <1>2 DEF SavedLives
  <2>1. /\ v \in saved.active => v \in db.active
        /\ \/ saved.home[v] \in {db.home[v], NoSubcluster}
           \/ v \notin handles \cup db.active
    BY DEF VatInv, SavedLives
  <2> QED
    BY <1>2, <2>1
<1>11. InMemory'
  BY <1>1, <1>2 DEF VatInv, InMemory
<1>12. SeenToIsGone'
  <2> SUFFICES ASSUME NEW a \in Calls, calls'[a].phase = "ending",
                      NEW v \in Kept' \ (calls'[a].todo \cup calls'[a].left),
                      db'.home[v] = calls'[a].sub
               PROVE  v \notin handles \cup db.active
    BY <1>1, <1>2 DEF SeenToIsGone
  <2>1. a # c /\ calls'[a] = calls[a]
    BY <1>3
  <2>2. CASE db'.home[v] = db.home[v]
    BY <1>2, <2>1, <2>2 DEF VatInv, SeenToIsGone
  <2>3. CASE db'.home[v] # db.home[v]
    BY <1>2, <1>5, <2>3
  <2> QED
    BY <2>2, <2>3
<1> QED
  BY <1>7, <1>8, <1>9, <1>10, <1>11, <1>12 DEF VatInv

(* They take them in d, the store with the record there.                   *)
LEMMA MembersStand ==
    ASSUME StoreInv, VatInv, StoreInv', NEW c \in Launches, NEW s \in SubclusterIds,
           NEW d \in Stores, Sound(d), SameVats(db, d), d.home = db.home,
           d.nextVat = db.nextVat, d.nextVat + NumMembers - 1 <= MaxVats,
           StartMembers(d, c, s),
           UNCHANGED <<saved, crank, queued, held, handles, workers>>,
           \/ /\ s = db.nextSubcluster /\ calls[c].phase = "none"
              /\ d.nextSubcluster = s + 1 /\ d.recorded = db.recorded \cup {s}
           \/ /\ s = calls[c].sub /\ calls[c].phase = "channels"
              /\ d.nextSubcluster = db.nextSubcluster
              /\ d.recorded = db.recorded
    PROVE  VatInv'
<1> DEFINE call == [NoCall EXCEPT
               !.phase = "starting", !.sub = s, !.vats = NewVats(d),
               !.starting = IF s \in d.recorded THEN Members ELSE {}]
<1>1. /\ db' = AddSubclusterVats(d, s) /\ calls' = [calls EXCEPT ![c] = call]
      /\ exposed \subseteq exposed'
      /\ IsShared(c, s) => ToSet(NewVats(d)) \subseteq exposed'
  BY DEF StartMembers
<1>2. PlacesIn(d, db', s)
  <2> DEFINE e == AddSubclusterVats(d, s)
  <2>1. e = AddSubclusterVats(d, s) /\ db' = e
    BY <1>1
  <2> HIDE DEF e
  <2> QED
    BY <2>1, NewMembers
<1>3. /\ call.phase = "starting" /\ ~Outlived(call) /\ call.sub = s
      /\ call.starting = IF s \in d.recorded THEN Members ELSE {}
      /\ call.vats = NewVats(d)
  BY DEF NoCall, Outlived
<1> HIDE DEF call
<1>4. SameVats(db, db') /\ db.nextVat <= db'.nextVat
  <2>1. d.nextVat \in Int /\ NumMembers \in Int /\ NumMembers >= 1
    BY FieldsOfStores, Bounds
  <2> QED
    BY <1>2, <2>1 DEF PlacesIn, SameVats
<1>5. ToldApart'
  <2>1. /\ \A v \in Vats : db'.home[v] # db.home[v] =>
              db'.home[v] = s /\ (IsShared(c, s) => v \in exposed')
        /\ ToldApart /\ call.phase \in {"starting", "channels"}
    BY <1>1, <1>2, <1>3 DEF VatInv, PlacesIn
  <2>2. db'.nextSubcluster = d.nextSubcluster /\ db'.recorded = d.recorded
    BY <1>2 DEF PlacesIn
  <2> QED
    BY <1>1, <1>3, <2>1, <2>2, LaunchedApart, ZenonT(60)
<1>6. \A n \in call.starting :
         /\ call.vats[n] \in Vats /\ call.vats[n] >= db.nextVat
         /\ db'.home[call.vats[n]] = s
  BY <1>2, <1>3 DEF PlacesIn
<1>7. \A v \in Vats : db'.home[v] # db.home[v] =>
         db.home[v] = NoSubcluster /\ db'.home[v] = s /\ v >= db.nextVat
  BY <1>2 DEF PlacesIn
<1> QED
  BY <1>1, <1>3, <1>4, <1>5, <1>6, <1>7, PlacesTaken

LEMMA LaunchingStands ==
    ASSUME StoreInv, VatInv, StoreInv', NEW c \in Launches, LaunchSubcluster(c)
    PROVE  VatInv'
<1> DEFINE s == db.nextSubcluster
           e == AddSubcluster(db)
<1>1. /\ calls[c].phase = "none" /\ s <= MaxSubclusters
      /\ db.nextVat + NumMembers + Reserved - 1 <= MaxVats
      /\ UNCHANGED <<saved, crank, queued, held, handles, workers>>
  BY DEF LaunchSubcluster
<1>2. c \in Calls
  BY DEF Launches, Calls
<1>3. /\ e \in Stores /\ Sound(e) /\ SameVats(db, e)
      /\ s \in SubclusterIds
      /\ e.nextSubcluster = s + 1 /\ e.recorded = db.recorded \cup {s}
      /\ e.nextVat = db.nextVat /\ e.home = db.home
  BY <1>1, Variables, NewSubcluster
<1>4. db.nextVat \in Int /\ db.nextVat + NumMembers - 1 <= MaxVats
  <2>1. Reserved \in {0, NumMembers}
    BY DEF Reserved
  <2>2. Reserved \in Nat
    BY <2>1, Bounds
  <2>3. db.nextVat \in Int
    BY Variables, FieldsOfStores, Bounds
  <2>4. db.nextVat + NumMembers + Reserved - 1 <= MaxVats
    BY <1>1
  <2> HIDE DEF s, e
  <2> QED
    BY <2>2, <2>3, <2>4, Bounds
<1>5. CASE StartMembers(e, c, s)
  <2> HIDE DEF e
  <2> QED
    BY <1>1, <1>3, <1>4, <1>5, MembersStand
<1>6. CASE /\ db' = e /\ exposed' = exposed
           /\ calls' = [calls EXCEPT ![c].phase = "channels", ![c].sub = s]
  <2> DEFINE call == [calls[c] EXCEPT !.phase = "channels", !.sub = s]
  <2>1. calls' = [calls EXCEPT ![c] = call]
    BY <1>2, <1>6 DEF StoreInv, TypeOK
  <2> HIDE DEF e
  <2>2. /\ call.phase = "channels" /\ call.sub = s /\ call.starting = {}
        /\ ~Outlived(call)
    BY <1>1, <1>2, ShapeOfCalls DEF CallStates, Shaped, Outlived
  <2> HIDE DEF call
  <2>3. ToldApart'
    BY <1>1, <1>3, <1>6, <2>1, <2>2, LaunchedApart DEF VatInv
  <2>4. db.nextVat <= db'.nextVat /\ SameVats(db, db') /\ db'.home = db.home
    BY <1>3, <1>4, <1>6
  <2> QED
    BY <1>1, <1>3, <1>6, <2>1, <2>2, <2>3, <2>4, PlacesTaken
<1> QED
  BY <1>5, <1>6 DEF LaunchSubcluster

LEMMA CreatingChannelsStands ==
    ASSUME StoreInv, VatInv, StoreInv', NEW c \in Launches, CreateChannels(c)
    PROVE  VatInv'
<1>1. /\ calls[c].phase = "channels" /\ StartMembers(db, c, calls[c].sub)
      /\ UNCHANGED <<saved, crank, queued, held, handles, workers>>
  BY DEF CreateChannels
<1>2. c \in Calls
  BY DEF Launches, Calls
<1>3. c = "launch" /\ calls[c].sub \in SubclusterIds
  BY <1>1, <1>2, ShapeOfCalls DEF Shaped
<1>4. db.nextVat + NumMembers - 1 <= MaxVats
  BY <1>1, <1>3 DEF StoreInv, ChannelsWait, HasRoom
<1>5. db \in Stores /\ Sound(db) /\ SameVats(db, db)
  BY Variables DEF SameVats
<1> QED
  BY <1>1, <1>3, <1>4, <1>5, MembersStand

LEMMA StartingStands ==
    ASSUME StoreInv, VatInv, StoreInv', NEW c \in Launches, NEW n \in Members,
           VatStarts(c, n)
    PROVE  VatInv'
<1> DEFINE v == calls[c].vats[n]
           call == [calls[c] EXCEPT !.starting = @ \ {n}, !.started = @ \cup {n}]
<1>1. /\ n \in calls[c].starting
      /\ handles' = handles \cup {v} /\ workers' = workers \cup {v}
      /\ db' = RecordVat(db, v)
      /\ calls' = [calls EXCEPT ![c].starting = @ \ {n}, ![c].started = @ \cup {n}]
      /\ UNCHANGED <<saved, crank, queued, held, exposed>>
  BY DEF VatStarts
<1>2. /\ c \in Calls /\ Running /\ v \in Vats
      /\ calls[c].phase = "starting" /\ Distinct(calls[c].vats)
      /\ calls[c].sub \in SubclusterIds
  BY <1>1, MemberSettles
<1>3. calls[c] \in CallStates
  BY <1>2, ShapeOfCalls
<1>4. calls' = [calls EXCEPT ![c] = call]
  BY <1>1, <1>2 DEF StoreInv, TypeOK
<1>5. /\ call.phase = "starting" /\ call.starting = calls[c].starting \ {n}
      /\ call.vats = calls[c].vats /\ call.sub = calls[c].sub
      /\ calls[c].starting \subseteq Members
      /\ Outlived(call) => Outlived(calls[c])
  BY <1>2, <1>3 DEF CallStates, Outlived
<1>6. v = calls[c].vats[n]
  OBVIOUS
<1> HIDE DEF v, call
<1>7. /\ db'.nextVat = db.nextVat /\ db'.nextSubcluster = db.nextSubcluster
      /\ db'.recorded = db.recorded /\ db'.home = db.home
      /\ Ended(db') = Ended(db) /\ db'.active = db.active \cup {v}
      /\ db'.rooted = db.rooted \cup {v} /\ db'.pins[v] = db.pins[v] + 1
      /\ \A w \in Vats \ {v} : db'.pins[w] = db.pins[w]
  <2>1. db \in Stores /\ Sound(db) /\ v \in Vats /\ db' = RecordVat(db, v)
    BY <1>1, <1>2, Variables
  <2> QED
    BY <2>1, VatRecorded
<1>8. Kept' = Kept /\ Kept \subseteq Vats
  BY <1>1 DEF Kept
<1>9. v \in Kept =>
        /\ v \notin db.active \cup Ended(db)
        /\ v \notin saved.active \cup Ended(saved)
        /\ db.home[v] = calls[c].sub
        /\ saved.home[v] \in {calls[c].sub, NoSubcluster}
  BY <1>1, <1>6 DEF VatInv, StartsClean
<1>10. calls'[c] = call /\ \A a \in Calls \ {c} : calls'[a] = calls[a]
  BY <1>2, <1>4 DEF StoreInv, TypeOK
<1>11. NoSubcluster \notin SubclusterIds
  BY Bounds DEF NoSubcluster
<1>12. ToldApart'
  <2>1. c # "terminate" /\ StaysLaunched(calls[c], call, db')
    BY <1>2, <1>5 DEF Launches, Finished, StaysLaunched
  <2>2. /\ UNCHANGED <<saved, crank>> /\ exposed \subseteq exposed'
        /\ db'.nextSubcluster = db.nextSubcluster
        /\ db'.recorded = db.recorded /\ db'.home = db.home
    BY <1>1, <1>7
  <2> QED
    BY <1>2, <1>4, <2>1, <2>2, CallerKeepsApart DEF VatInv
<1>13. RootsStand(db)'
  <2> SUFFICES ASSUME NEW w \in Kept PROVE Stands(db', w)
    BY <1>8 DEF RootsStand
  <2>1. Stands(db, w) /\ w \in Vats
    BY <1>8 DEF VatInv, RootsStand
  <2>2. CASE w # v
    BY <1>7, <2>1, <2>2 DEF Stands
  <2>3. CASE w = v
    <3>1. w \notin db.active \cup Ended(db) /\ db.home[w] # NoSubcluster
      BY <1>2, <1>9, <1>11, <2>3
    <3>2. ~(w >= db.nextVat)
      <4>1. w \in Int /\ db.nextVat \in Int
        BY <2>1, Variables, FieldsOfStores, Bounds DEF Vats
      <4>2. w < db.nextVat
        BY <2>1, <3>1, Variables DEF Sound, SoundBut
      <4> QED
        BY <4>1, <4>2
    <3>3. db'.pins[w] = 1
      BY <1>7, <2>1, <2>3, <3>1 DEF Stands
    <3> QED
      BY <1>7, <2>3, <3>1, <3>2, <3>3 DEF Stands
  <2> QED
    BY <2>2, <2>3
<1>14. RootsStand(saved)'
  BY <1>1, <1>8 DEF VatInv, RootsStand
<1>15. StartsClean'
  <2> SUFFICES ASSUME NEW b \in Launches, NEW m \in calls'[b].starting,
                      calls'[b].vats[m] \in Kept
               PROVE  LET w == calls'[b].vats[m]
                      IN  /\ w \notin db.active \cup {v} \cup Ended(db)
                          /\ w \notin saved.active \cup Ended(saved)
                          /\ db.home[w] = calls'[b].sub
                          /\ saved.home[w] \in {calls'[b].sub, NoSubcluster}
    <3>1. /\ db'.active = db.active \cup {v} /\ Ended(db') = Ended(db)
          /\ db'.home = db.home /\ saved' = saved /\ Kept' = Kept
      BY <1>1, <1>7, <1>8
    <3> QED
      BY <3>1 DEF StartsClean
  <2>1. CASE b = c
    <3>1. m \in calls[c].starting /\ m # n /\ m \in Members
      BY <1>5, <1>10, <2>1
    <3>2. calls[c].vats[m] # v
      BY <1>1, <1>2, <1>5, <1>6, <3>1 DEF Distinct
    <3> QED
      BY <1>5, <1>10, <2>1, <3>1, <3>2 DEF VatInv, StartsClean
  <2>2. CASE b # c
    <3>1. b \in Calls \ {c} /\ calls'[b] = calls[b]
      BY <1>10, <2>2 DEF Launches, Calls
    <3>2. calls[b].phase \notin Finished
      BY <3>1, ShapeOfCalls DEF Shaped, Finished
    <3>3. /\ calls[b].vats[m] \notin db.active \cup Ended(db)
          /\ calls[b].vats[m] \notin saved.active \cup Ended(saved)
          /\ db.home[calls[b].vats[m]] = calls[b].sub
          /\ saved.home[calls[b].vats[m]] \in {calls[b].sub, NoSubcluster}
      BY <3>1 DEF VatInv, StartsClean
    <3>4. calls[b].vats[m] # v
      <4> SUFFICES ASSUME calls[b].vats[m] = v PROVE FALSE
        OBVIOUS
      <4>1. v \in Kept /\ db.home[v] = calls[c].sub /\ calls[b].sub = calls[c].sub
        BY <1>9, <3>1, <3>3
      <4>2. ToldApart /\ calls[c].phase \notin Finished
        BY <1>2 DEF VatInv, Finished
      <4> QED
        BY <1>2, <3>1, <3>2, <4>1, <4>2, TheirOwn
    <3> QED
      BY <3>1, <3>3, <3>4
  <2> QED
    BY <2>1, <2>2
<1>16. SavedLives'
  <2> SUFFICES ASSUME crank.item # "end", NEW w \in Kept
               PROVE  /\ w \in saved.active => w \in db.active \cup {v}
                      /\ \/ saved.home[w] \in {db.home[w], NoSubcluster}
                         \/ w \notin handles \cup {v} \cup db.active
    BY <1>1, <1>7, <1>8 DEF SavedLives
  <2>1. CASE w = v
    BY <1>9, <2>1
  <2>2. CASE w # v
    BY <2>2 DEF VatInv, SavedLives
  <2> QED
    BY <2>1, <2>2
<1>17. InMemory'
  BY <1>1, <1>7, <1>8 DEF VatInv, InMemory
<1>18. SeenToIsGone'
  <2> SUFFICES ASSUME NEW a \in Calls, calls'[a].phase = "ending",
                      NEW w \in Kept \ (calls'[a].todo \cup calls'[a].left),
                      db.home[w] = calls'[a].sub
               PROVE  w \notin handles \cup {v} \cup db.active
    <3>1. /\ db'.home = db.home /\ Kept' = Kept
          /\ handles' \cup db'.active = handles \cup {v} \cup db.active
      BY <1>1, <1>7, <1>8
    <3> QED
      BY <3>1 DEF SeenToIsGone
  <2>1. a # c /\ calls'[a] = calls[a]
    BY <1>5, <1>10
  <2>2. w # v
    <3> SUFFICES ASSUME w = v PROVE FALSE
      OBVIOUS
    <3>1. v \in Kept /\ db.home[v] = calls[c].sub /\ calls[a].sub = calls[c].sub
      BY <1>9, <2>1
    <3>2. ToldApart /\ calls[c].phase \notin Finished
      BY <1>2 DEF VatInv, Finished
    <3> QED
      BY <1>2, <2>1, <3>1, <3>2, TheirOwn
  <2> QED
    BY <2>1, <2>2 DEF VatInv, SeenToIsGone
<1> QED
  BY <1>12, <1>13, <1>14, <1>15, <1>16, <1>17, <1>18 DEF VatInv

-----------------------------------------------------------------------------
(* Steps of the run loop, of which those of callers are independent.       *)

(* Callers that are told something at most.                                *)
Steady ==
    \A c \in Calls :
        /\ calls'[c].sub = calls[c].sub /\ calls'[c].vats = calls[c].vats
        /\ calls'[c].starting = calls[c].starting
        /\ calls'[c].todo = calls[c].todo /\ calls'[c].left = calls[c].left
        /\ calls'[c].phase = "ending" <=> calls[c].phase = "ending"
        /\ calls'[c].phase \in Finished <=> calls[c].phase \in Finished

LEMMA WaitsAreSteady ==
    ASSUME StoreInv, NEW v, calls' \in {calls, Taken(v), Answered}
    PROVE  Steady
<1>1. ASSUME NEW c \in Calls, NEW w
      PROVE  LET call == [calls[c] EXCEPT !.wait = w]
             IN  /\ call.sub = calls[c].sub /\ call.vats = calls[c].vats
                 /\ call.starting = calls[c].starting
                 /\ call.todo = calls[c].todo /\ call.left = calls[c].left
                 /\ call.phase = calls[c].phase
  BY ShapeOfCalls DEF CallStates
<1>2. CASE calls' = calls
  BY <1>2 DEF Steady
<1>3. CASE calls' = Taken(v)
  BY <1>1, <1>3 DEF Taken, Steady
<1>4. CASE calls' = Answered
  BY <1>1, <1>4 DEF Answered, Steady
<1> QED
  BY <1>2, <1>3, <1>4

LEMMA WhatIsHeardIsSteady ==
    ASSUME StoreInv, NEW ok \in BOOLEAN, calls' = Heard(ok)
    PROVE  Steady
<1>1. CASE calls' = calls
  BY <1>1 DEF Steady
<1>2. CASE calls' # calls
  <2>1. /\ crank.item \in Launches /\ calls[crank.item].phase = "bootstrapping"
        /\ \E phase \in {"launched", "failing"} :
              calls' = [calls EXCEPT ![crank.item].phase = phase]
    BY <1>2 DEF Heard
  <2>2. PICK phase \in {"launched", "failing"} :
           calls' = [calls EXCEPT ![crank.item].phase = phase]
    BY <2>1
  <2> DEFINE c == crank.item
             call == [calls[c] EXCEPT !.phase = phase]
  <2>3. c \in Calls
    BY <2>1 DEF Calls, Launches
  <2>4. /\ calls'[c] = call
        /\ \A a \in Calls \ {c} : calls'[a] = calls[a]
    BY <2>2, <2>3 DEF StoreInv, TypeOK
  <2>5. calls[c] \in CallStates
    BY <2>3, ShapeOfCalls
  <2>6. /\ call.sub = calls[c].sub /\ call.vats = calls[c].vats
        /\ call.starting = calls[c].starting /\ call.todo = calls[c].todo
        /\ call.left = calls[c].left /\ call.phase = phase
    BY <2>5 DEF CallStates
  <2>7. calls[c].phase = "bootstrapping"
    BY <2>1
  <2> HIDE DEF c, call
  <2> QED
    BY <2>4, <2>6, <2>7 DEF Steady, Finished
<1> QED
  BY <1>1, <1>2

(* A vat that stands in what a step makes of one of the two stores, and    *)
(* left its subcluster only if it lived.                                   *)
ComesOf(d, e, v) ==
    /\ Stands(e, v)
    /\ v \in e.active => v \in d.active
    /\ v \in Ended(e) => v \in Ended(d) \/ v \in db.active
    /\ \/ e.home[v] = d.home[v]
       \/ v \in db.active /\ e.home[v] = NoSubcluster

LEMMA RunLoopStands ==
    ASSUME StoreInv, VatInv, StoreInv', Steady,
           exposed \subseteq exposed', handles' \subseteq handles,
           NEW d, \A v \in Kept' : ComesOf(d, db', v),
           \/ d = db
           \/ /\ d = saved /\ crank.item # "end"
              /\ \A v \in Kept' :
                    db.home[v] # NoSubcluster => saved.home[v] # NoSubcluster,
           \/ saved' = EmptyStore
           \/ /\ saved' = db /\ d = db
              /\ crank'.item # "end" =>
                    \A v \in Kept' : /\ v \in db.active => v \in db'.active
                                     /\ db'.home[v] = db.home[v],
           Floor' = db'.nextSubcluster, Floor <= db'.nextSubcluster,
           InMemory'
    PROVE  VatInv'
<1>1. Kept' \subseteq Kept /\ Kept \subseteq Vats
  BY DEF Kept
<1>2. /\ EmptyStore.active = {} /\ EmptyStore.rooted = {} /\ Ended(EmptyStore) = {}
      /\ EmptyStore.nextVat = 1
      /\ \A v \in Vats : /\ EmptyStore.home[v] = NoSubcluster
                         /\ EmptyStore.pins[v] = 0
  BY EmptyStoreIsSound DEF EmptyStore
<1>3. Launches \subseteq Calls /\ "terminate" \in Calls
  BY DEF Launches, Calls
<1>4. ToldApart'
  <2> DEFINE Goes(a, t) == calls'[a].phase \notin Finished /\ calls'[a].sub = t
  <2>1. /\ \A s \in db'.recorded : s < db'.nextSubcluster /\ s \in Int
        /\ db'.nextSubcluster \in Int
    <3>1. db' \in Stores /\ \A s \in db'.recorded : s < db'.nextSubcluster
      BY DEF StoreInv, TypeOK, Sound, SoundBut
    <3> QED
      BY <3>1, FieldsOfStores, FloorIsNumber
  <2>2. ASSUME NEW a \in Launches, NEW t PROVE Goes(a, t) <=> Launching(a, t)
    BY <1>3 DEF Steady, Launching
  <2>3. FreshAreLaunched'
    <3>1. \A s \in db'.recorded : ~(s >= Floor')
      BY <2>1
    <3> QED
      BY <3>1 DEF FreshAreLaunched
  <2>4. EndedAreSettled'
    <3> SUFFICES ASSUME calls'["terminate"].phase = "ending"
                 PROVE  /\ calls'["terminate"].sub < Floor'
                        /\ \A a \in Launches : ~Goes(a, calls'["terminate"].sub)
      BY DEF EndedAreSettled, BeingLaunched
    <3> HIDE DEF Goes
    <3>1. /\ calls["terminate"].phase = "ending"
          /\ calls'["terminate"].sub = calls["terminate"].sub
      BY <1>3 DEF Steady
    <3>2. /\ calls["terminate"].sub < Floor
          /\ ~BeingLaunched(calls["terminate"].sub)
          /\ calls["terminate"].sub \in SubclusterIds
      BY <1>3, <3>1, EndingCaller DEF VatInv, ToldApart, EndedAreSettled
    <3>3. calls["terminate"].sub < Floor'
      BY <2>1, <3>2, FloorIsNumber
    <3> QED
      BY <2>2, <3>1, <3>2, <3>3 DEF BeingLaunched, Launching
  <2>5. SharedAreAstray'
    <3> SUFFICES ASSUME NEW a \in Launches, NEW b \in Launches, NEW s \in SubclusterIds,
                        a # b, Goes(a, s), Goes(b, s), NEW v \in Vats \ exposed'
                 PROVE  db'.home[v] # s /\ saved'.home[v] # s
      BY DEF SharedAreAstray, Launching
    <3>1. db.home[v] # s /\ saved.home[v] # s
      BY <2>2 DEF VatInv, ToldApart, SharedAreAstray
    <3>2. s # NoSubcluster
      BY Bounds DEF NoSubcluster
    <3>3. v \in Kept'
      BY DEF Kept
    <3> QED
      BY <1>2, <3>1, <3>2, <3>3 DEF ComesOf
  <2> QED
    BY <2>3, <2>4, <2>5 DEF ToldApart
<1>5. RootsStand(db)'
  BY DEF RootsStand, ComesOf
<1>6. RootsStand(saved)'
  <2>1. CASE saved' = db
    BY <1>1, <2>1 DEF VatInv, RootsStand
  <2>2. CASE saved' = EmptyStore
    BY <1>1, <1>2, <2>2 DEF RootsStand, Stands
  <2> QED
    BY <2>1, <2>2
<1>7. StartsClean'
  <2> SUFFICES ASSUME NEW c \in Launches, NEW n \in calls'[c].starting,
                      NEW v, v = calls'[c].vats[n], v \in Kept'
               PROVE  /\ v \notin db'.active \cup Ended(db')
                      /\ v \notin saved'.active \cup Ended(saved')
                      /\ db'.home[v] = calls'[c].sub
                      /\ saved'.home[v] \in {calls'[c].sub, NoSubcluster}
    BY DEF StartsClean
  <2>1. /\ n \in calls[c].starting /\ v = calls[c].vats[n]
        /\ calls'[c].sub = calls[c].sub
    BY <1>3 DEF Steady
  <2>2. /\ v \notin db.active \cup Ended(db)
        /\ v \notin saved.active \cup Ended(saved)
        /\ db.home[v] = calls[c].sub
        /\ saved.home[v] \in {calls[c].sub, NoSubcluster}
    BY <1>1, <2>1 DEF VatInv, StartsClean
  <2>3. calls[c].sub # NoSubcluster
    BY <1>3, <2>1, ShapeOfCalls, Bounds DEF Shaped, HasMembers, NoSubcluster
  <2>4. d.home[v] = calls[c].sub /\ v \notin d.active \cup Ended(d)
    BY <2>2, <2>3
  <2>5. /\ v \notin db'.active \cup Ended(db')
        /\ db'.home[v] = calls[c].sub
    BY <2>2, <2>4 DEF ComesOf
  <2> QED
    BY <1>1, <1>2, <2>1, <2>2, <2>5
<1>8. SavedLives'
  <2>1. CASE saved' = EmptyStore
    BY <1>1, <1>2, <2>1 DEF SavedLives
  <2>2. CASE saved' # EmptyStore
    BY <2>2 DEF SavedLives
  <2> QED
    BY <2>1, <2>2
<1>9. SeenToIsGone'
  <2> SUFFICES ASSUME NEW c \in Calls, calls'[c].phase = "ending",
                      NEW v \in Kept' \ (calls'[c].todo \cup calls'[c].left),
                      db'.home[v] = calls'[c].sub
               PROVE  v \notin handles' \cup db'.active
    BY DEF SeenToIsGone
  <2>1. /\ calls[c].phase = "ending" /\ calls'[c].sub = calls[c].sub
        /\ v \in Kept \ (calls[c].todo \cup calls[c].left)
    BY <1>1 DEF Steady
  <2>2. calls[c].sub # NoSubcluster
    BY <2>1, EndingCaller, Bounds DEF NoSubcluster
  <2>3. d.home[v] = calls[c].sub
    BY <2>1, <2>2 DEF ComesOf
  <2>4. db.home[v] = calls[c].sub => v \notin handles \cup db.active
    BY <2>1 DEF VatInv, SeenToIsGone
  <2>5. CASE d = db
    BY <2>3, <2>4, <2>5 DEF ComesOf
  <2>6. CASE d = saved /\ crank.item # "end"
    <3>1. /\ v \in saved.active => v \in db.active
          /\ saved.home[v] \in {db.home[v], NoSubcluster} \/ v \notin handles \cup db.active
      BY <2>1, <2>6 DEF VatInv, SavedLives
    <3> QED
      BY <2>2, <2>3, <2>4, <2>6, <3>1 DEF ComesOf
  <2> QED
    BY <2>5, <2>6
<1> QED
  BY <1>4, <1>5, <1>6, <1>7, <1>8, <1>9 DEF VatInv

LEMMA SweptComesOf ==
    ASSUME NEW d \in Stores, NEW e, Swept(d, e), NEW v \in Vats, Stands(d, v)
    PROVE  ComesOf(d, e, v) /\ (v \in e.active <=> v \in d.active) /\ e.home[v] = d.home[v]
<1>1. Stands(e, v) /\ (v \in e.active <=> v \in d.active)
  BY SweptIsSound
<1> QED
  BY <1>1 DEF ComesOf, Swept

LEMMA RetiredComesOf ==
    ASSUME NEW d \in Stores, Sound(d), NEW x \in Vats, NEW e, e = RetireVats(d, {x}),
           NEW v \in Vats, Stands(d, v), v = x => v \in db.active /\ v < d.nextVat
    PROVE  /\ ComesOf(d, e, v)
           /\ v # x => (v \in e.active <=> v \in d.active)
           /\ v = x => v \notin e.active
<1>1. {x} \in SUBSET Vats
  OBVIOUS
<1>2. /\ Left(d, e, {x}) /\ Released(d, e, {x} \ Ended(d))
      /\ Ended(e) = Ended(d) \cup {x}
  BY <1>1, Retired
<1>3. Stands(e, v)
  BY <1>1, <1>2, RetiredStand
<1>4. /\ e.active = d.active \ {x}
      /\ e.home[v] = IF v \in {x} THEN NoSubcluster ELSE d.home[v]
  BY <1>2 DEF Left
<1> QED
  BY <1>2, <1>3, <1>4 DEF ComesOf

LEMMA ComesOfTwice ==
    ASSUME NEW d, NEW e, NEW f, NEW v, ComesOf(d, e, v), ComesOf(e, f, v)
    PROVE  ComesOf(d, f, v)
BY DEF ComesOf

LEMMA FloorWhenOpened ==
    ASSUME StoreInv, ~IsOpen, NEW item, item # "none", NEW v, NEW e, Keeps(db, e),
           OpenCrank(item, v, e)
    PROVE  /\ db' = e /\ saved' = db /\ crank' = [item |-> item, vat |-> v]
           /\ Floor' = db'.nextSubcluster /\ Floor <= db'.nextSubcluster
<1>1. db' = e /\ saved' = db /\ crank' = [item |-> item, vat |-> v]
  BY DEF OpenCrank
<1>2. crank' # Closed
  BY <1>1 DEF Closed
<1>3. e.nextSubcluster = db.nextSubcluster
  BY DEF Keeps
<1> QED
  BY <1>1, <1>2, <1>3, FloorIsNumber DEF Floor, IsOpen

LEMMA MemoryWhenClosed ==
    ASSUME StoreInv, VatInv, ~IsOpen
    PROVE  /\ crank.item = "none" /\ held = <<>>
           /\ \A v \in Kept : /\ v \in handles => v \in db.active
                              /\ v \in workers =>
                                    v \in db.active /\ v \in handles \cup ToSet(queued)
<1>1. crank.item = "none" /\ held = <<>> /\ ToSet(held) = {}
  BY NobodyIn DEF StoreInv, SavedIsBehind
<1> QED
  BY <1>1 DEF VatInv, InMemory

LEMMA PerformingStands ==
    ASSUME StoreInv, VatInv, StoreInv', PerformVatTermination
    PROVE  VatInv'
<1> DEFINE v == Head(queued)
           d == CleanUpTerminatedVat(db)
<1>1. /\ ~IsOpen /\ queued # <<>>
      /\ calls' = Taken(v) /\ queued' = Tail(queued)
      /\ UNCHANGED <<held, workers>>
  BY DEF PerformVatTermination
<1>2. /\ v \in Vats /\ {v} \in SUBSET Vats /\ queued' \in Seq(Vats)
      /\ ToSet(queued) = {v} \cup ToSet(queued')
  BY <1>1, Variables, HeadAndTail
<1>3. Steady
  BY <1>1, WaitsAreSteady
<1>4. Swept(db, d) /\ Keeps(db, d) /\ d \in Stores /\ Sound(d)
  BY Variables, OldestCleanedUp, SweptKeeps DEF Keeps
<1>5. /\ \/ /\ v \notin handles \cup d.active /\ OpenCrank("idle", v, d)
            /\ UNCHANGED <<handles, exposed>>
         \/ /\ v \in handles \cup d.active /\ handles' = handles \ {v}
            /\ \/ OpenCrank("end", v, RetireVats(d, {v})) /\ UNCHANGED exposed
               \/ OpenCrank("end", v, d) /\ UNCHANGED exposed
               \/ /\ OpenCrank("end", v, MarkAsTerminated(d, {v}))
                  /\ exposed' = exposed \cup {v}
  BY DEF PerformVatTermination
<1> HIDE DEF v, d
<1>6. ASSUME NEW w \in Kept
      PROVE  /\ w \in Vats /\ Stands(db, w) /\ Stands(d, w)
             /\ ComesOf(db, d, w)
             /\ w \in d.active <=> w \in db.active
             /\ d.home[w] = db.home[w] /\ d.nextVat = db.nextVat
  <2>1. w \in Vats /\ Stands(db, w)
    BY DEF Kept, VatInv, RootsStand
  <2>2. ComesOf(db, d, w) /\ (w \in d.active <=> w \in db.active)
        /\ d.home[w] = db.home[w]
    BY <1>4, <2>1, Variables, SweptComesOf
  <2> QED
    BY <1>4, <2>1, <2>2 DEF ComesOf, Keeps
<1>7. /\ crank.item = "none" /\ held = <<>>
      /\ \A w \in Kept : /\ w \in handles => w \in db.active
                         /\ w \in workers =>
                               w \in db.active /\ w \in handles \cup ToSet(queued)
  BY <1>1, MemoryWhenClosed
<1>8. CASE /\ v \notin handles \cup d.active /\ OpenCrank("idle", v, d)
           /\ UNCHANGED <<handles, exposed>>
  <2>1. /\ db' = d /\ saved' = db /\ crank' = [item |-> "idle", vat |-> v]
        /\ Floor' = db'.nextSubcluster /\ Floor <= db'.nextSubcluster
    BY <1>1, <1>4, <1>8, FloorWhenOpened
  <2>2. Kept' = Kept
    BY <1>8 DEF Kept
  <2>3. InMemory'
    BY <1>1, <1>2, <1>6, <1>7, <1>8, <2>1, <2>2 DEF InMemory
  <2> QED
    BY <1>3, <1>6, <1>8, <2>1, <2>2, <2>3, RunLoopStands
<1>9. CASE v \in handles \cup d.active /\ handles' = handles \ {v}
  <2>1. v \in Kept => v \in db.active /\ v < d.nextVat
    <3>1. v \in Kept => v \in db.active
      BY <1>6, <1>7, <1>9
    <3>2. v \in Int /\ d.nextVat \in Int
      BY <1>2, <1>4, FieldsOfStores, Bounds DEF Vats
    <3> QED
      BY <1>6, <3>1, <3>2 DEF Stands
  <2>2. CASE OpenCrank("end", v, RetireVats(d, {v})) /\ UNCHANGED exposed
    <3> DEFINE e == RetireVats(d, {v})
    <3>1. Keeps(db, e)
      BY <1>2, <1>4, Retired, LeftKeeps, KeepsOn
    <3>2. ASSUME NEW w \in Kept
          PROVE  /\ ComesOf(d, e, w)
                 /\ w # v => (w \in e.active <=> w \in d.active)
      BY <1>2, <1>4, <1>6, <2>1, RetiredComesOf
    <3> HIDE DEF e
    <3>3. /\ db' = e /\ saved' = db /\ crank' = [item |-> "end", vat |-> v]
          /\ Floor' = db'.nextSubcluster /\ Floor <= db'.nextSubcluster
      BY <1>1, <2>2, <3>1, FloorWhenOpened DEF e
    <3>4. Kept' = Kept
      BY <2>2 DEF Kept
    <3>5. InMemory'
      BY <1>1, <1>2, <1>6, <1>7, <1>9, <3>2, <3>3, <3>4 DEF InMemory
    <3>6. \A w \in Kept' : ComesOf(db, db', w)
      BY <1>6, <3>2, <3>3, <3>4, ComesOfTwice
    <3> QED
      BY <1>3, <1>9, <2>2, <3>3, <3>5, <3>6, RunLoopStands
  <2>3. CASE OpenCrank("end", v, d) /\ UNCHANGED exposed
    <3>1. /\ db' = d /\ saved' = db /\ crank' = [item |-> "end", vat |-> v]
          /\ Floor' = db'.nextSubcluster /\ Floor <= db'.nextSubcluster
      BY <1>1, <1>4, <2>3, FloorWhenOpened
    <3>2. Kept' = Kept
      BY <2>3 DEF Kept
    <3>3. InMemory'
      BY <1>1, <1>2, <1>6, <1>7, <1>9, <3>1, <3>2 DEF InMemory
    <3> QED
      BY <1>3, <1>6, <1>9, <2>3, <3>1, <3>2, <3>3, RunLoopStands
  <2>4. CASE OpenCrank("end", v, MarkAsTerminated(d, {v})) /\ exposed' = exposed \cup {v}
    <3> DEFINE e == MarkAsTerminated(d, {v})
    <3>1. e = MarkAsTerminated(d, {v})
      OBVIOUS
    <3> HIDE DEF e
    <3>2. /\ e \in Stores /\ Released(d, e, {v} \ Ended(d))
          /\ Ended(e) = Ended(d) \cup {v}
          /\ e.nextVat = d.nextVat /\ e.nextSubcluster = d.nextSubcluster
          /\ e.home = d.home /\ e.vats = d.vats /\ e.name = d.name
          /\ e.recorded = d.recorded /\ e.active = d.active
          /\ e.rooted = d.rooted
      <4>1. PICK gone \in SUBSET Vats : gone = {v}
        BY <1>2
      <4>2. /\ e \in Stores /\ Released(d, e, gone \ Ended(d))
            /\ Ended(e) = Ended(d) \cup gone
            /\ e.nextVat = d.nextVat /\ e.nextSubcluster = d.nextSubcluster
            /\ e.home = d.home /\ e.vats = d.vats /\ e.name = d.name
            /\ e.recorded = d.recorded /\ e.active = d.active
            /\ e.rooted = d.rooted
        <5>1. gone \in SUBSET Vats /\ e = MarkAsTerminated(d, gone)
          BY <3>1, <4>1
        <5> QED
          BY <1>4, <5>1, Marked
      <4> QED
        BY <4>1, <4>2
    <3>3. Keeps(db, e)
      <4>1. \A s \in SubclusterIds : Listed(e, s) = Listed(d, s)
        BY <3>2 DEF Listed
      <4>2. Keeps(d, e)
        BY <1>4, <3>2, <4>1 DEF Keeps, Sound, SoundBut
      <4> QED
        BY <1>4, <4>2, KeepsOn
    <3>4. Kept' \subseteq Kept /\ v \notin Kept'
      BY <2>4 DEF Kept
    <3>5. ASSUME NEW w \in Kept'
          PROVE  ComesOf(d, e, w)
      <4>1. w \in Kept /\ w # v /\ w \in Vats /\ Stands(d, w)
        BY <1>6, <3>4
      <4>2. e.pins[w] = d.pins[w]
        BY <3>2, <4>1 DEF Released
      <4> QED
        BY <3>2, <4>1, <4>2 DEF ComesOf, Stands
    <3>6. /\ db' = e /\ saved' = db /\ crank' = [item |-> "end", vat |-> v]
          /\ Floor' = db'.nextSubcluster /\ Floor <= db'.nextSubcluster
      BY <1>1, <2>4, <3>1, <3>3, FloorWhenOpened
    <3>7. InMemory'
      BY <1>1, <1>2, <1>6, <1>7, <1>9, <3>2, <3>4, <3>6 DEF InMemory
    <3>8. \A w \in Kept' : ComesOf(db, db', w)
      BY <1>6, <3>4, <3>5, <3>6, ComesOfTwice
    <3>9. exposed \subseteq exposed' /\ handles' \subseteq handles
      BY <1>9, <2>4
    <3> QED
      BY <1>3, <3>6, <3>7, <3>8, <3>9, RunLoopStands
  <2> QED
    BY <1>5, <1>9, <2>2, <2>3, <2>4
<1> QED
  BY <1>5, <1>8, <1>9

LEMMA DeliveringStands ==
    ASSUME StoreInv, VatInv, StoreInv',
           StartDelivery \/ \E c \in Launches : DeliverBootstrap(c)
    PROVE  VatInv'
<1> DEFINE d == CleanUpTerminatedVat(db)
<1>1. /\ ~IsOpen /\ calls' = calls
      /\ \E item \in Launches \cup {"delivery"} : \E v : OpenCrank(item, v, d)
      /\ UNCHANGED <<queued, held, handles, workers, exposed>>
  BY DEF StartDelivery, DeliverBootstrap
<1>2. Swept(db, d) /\ Keeps(db, d) /\ d \in Stores
  BY Variables, OldestCleanedUp, SweptKeeps DEF Keeps
<1> HIDE DEF d
<1>3. PICK item \in Launches \cup {"delivery"} : \E v : OpenCrank(item, v, d)
  BY <1>1
<1>4. PICK v : OpenCrank(item, v, d)
  BY <1>3
<1>5. item \notin {"none", "end"}
  BY <1>3 DEF Launches
<1>6. /\ db' = d /\ saved' = db /\ crank' = [item |-> item, vat |-> v]
      /\ Floor' = db'.nextSubcluster /\ Floor <= db'.nextSubcluster
  BY <1>1, <1>2, <1>4, <1>5, FloorWhenOpened
<1>7. Kept' = Kept
  BY <1>1 DEF Kept
<1>8. ASSUME NEW w \in Kept
      PROVE  /\ ComesOf(db, d, w) /\ d.home[w] = db.home[w]
             /\ w \in d.active <=> w \in db.active
  <2>1. w \in Vats /\ Stands(db, w)
    BY DEF Kept, VatInv, RootsStand
  <2> QED
    BY <1>2, <2>1, Variables, SweptComesOf
<1>9. InMemory'
  BY <1>1, <1>6, <1>7, <1>8, MemoryWhenClosed DEF InMemory
<1>10. Steady
  BY <1>1, WaitsAreSteady
<1> QED
  BY <1>1, <1>6, <1>7, <1>8, <1>9, <1>10, RunLoopStands

(* A crank ends: what is left of it is d.                                  *)
LEMMA CrankEnds ==
    ASSUME StoreInv, NEW d \in Stores, CloseCrank(d)
    PROVE  /\ Swept(d, db') /\ saved' = EmptyStore /\ crank' = Closed
           /\ held' = <<>> /\ ToSet(queued') = ToSet(queued) \cup ToSet(held)
           /\ Floor' = db'.nextSubcluster /\ db'.nextSubcluster = d.nextSubcluster
<1>1. /\ db' = ClearEmptySubclusters(d) /\ saved' = EmptyStore
      /\ crank' = Closed /\ queued' = queued \o held /\ held' = <<>>
  BY DEF CloseCrank
<1>2. Swept(d, db')
  BY <1>1, EmptyOnesCleared
<1>3. ToSet(queued') = ToSet(queued) \cup ToSet(held)
  BY <1>1, Variables, JoinedSet
<1> QED
  BY <1>1, <1>2, <1>3 DEF Floor, IsOpen, Swept

LEMMA EndingACrankStands ==
    ASSUME StoreInv, VatInv, StoreInv', EndTermination \/ KeepDelivery
    PROVE  VatInv'
<1>1. /\ CloseCrank(db)
      /\ \/ crank.item = "end" /\ workers' = workers \ {crank.vat}
         \/ crank.item # "end" /\ workers' = workers
      /\ UNCHANGED <<handles, exposed>>
  BY DEF EndTermination, KeepDelivery, Launches
<1>2. Steady
  BY WaitsAreSteady, WhatIsHeardIsSteady DEF EndTermination, KeepDelivery
<1>3. /\ Swept(db, db') /\ saved' = EmptyStore /\ crank' = Closed
      /\ ToSet(queued') = ToSet(queued) \cup ToSet(held)
      /\ Floor' = db'.nextSubcluster /\ db'.nextSubcluster = db.nextSubcluster
  BY <1>1, Variables, CrankEnds
<1>4. Kept' = Kept
  BY <1>1 DEF Kept
<1>5. ASSUME NEW w \in Kept
      PROVE  ComesOf(db, db', w) /\ (w \in db'.active <=> w \in db.active)
  <2>1. w \in Vats /\ Stands(db, w)
    BY DEF Kept, VatInv, RootsStand
  <2> QED
    BY <1>3, <2>1, Variables, SweptComesOf
<1>6. InMemory'
  BY <1>1, <1>3, <1>4, <1>5 DEF VatInv, InMemory
<1>7. Floor <= db'.nextSubcluster
  BY <1>3, FloorIsNumber
<1> QED
  BY <1>1, <1>2, <1>3, <1>4, <1>5, <1>6, <1>7, RunLoopStands

LEMMA EndingInDeliveryStands ==
    ASSUME StoreInv, VatInv, StoreInv', EndVatInDelivery
    PROVE  VatInv'
<1> DEFINE v == crank.vat
<1>1. /\ crank.item \notin {"none", "end"} /\ v \in handles \cup db.active
      /\ handles' = handles \ {v} /\ workers' = workers \ {v}
      /\ calls' = Heard(FALSE)
      /\ \/ /\ exposed' = exposed
            /\ CloseCrank(RetireVats(db, {v}))
         \/ /\ exposed' = exposed \cup Undone
            /\ \/ CloseCrank(RetireVats(saved, {v}))
               \/ v \notin handles \cup saved.active /\ CloseCrank(saved)
  BY DEF EndVatInDelivery, Launches, Known
<1>2. IsOpen /\ Floor = saved.nextSubcluster
  BY <1>1 DEF StoreInv, SavedIsBehind, Floor
<1>3. v \in Vats /\ {v} \in SUBSET Vats
  BY <1>1, Variables, FieldsOfStores
<1>4. Steady
  BY <1>1, WhatIsHeardIsSteady
<1> HIDE DEF v
<1>5. ASSUME NEW w \in Kept
      PROVE  /\ w \in Vats /\ Stands(db, w) /\ Stands(saved, w)
             /\ w \in handles => w \in db.active
             /\ w \in workers => w \in db.active
             /\ w \in workers => w \in handles \cup ToSet(queued) \cup ToSet(held)
  BY <1>1, <1>5 DEF Kept, VatInv, RootsStand, InMemory
<1>6. Kept' \subseteq Kept
  BY <1>1 DEF Kept
<1>7. PICK d \in {db, saved} :
         /\ \/ CloseCrank(RetireVats(d, {v}))
            \/ v \notin handles \cup d.active /\ CloseCrank(d)
         /\ \A w \in Kept' : w \in db.active => w \in d.active
         /\ \/ d = db
            \/ /\ d = saved
               /\ \A w \in Kept' :
                     db.home[w] # NoSubcluster => saved.home[w] # NoSubcluster
         /\ exposed \subseteq exposed'
  <2>1. CASE exposed' = exposed /\ CloseCrank(RetireVats(db, {v}))
    BY <2>1
  <2>2. CASE /\ exposed' = exposed \cup Undone
             /\ \/ CloseCrank(RetireVats(saved, {v}))
                \/ v \notin handles \cup saved.active /\ CloseCrank(saved)
    <3>1. ASSUME NEW w \in Kept'
          PROVE  /\ w \in db.active => w \in saved.active
                 /\ db.home[w] # NoSubcluster => saved.home[w] # NoSubcluster
      BY <2>2, <3>1 DEF Kept, Undone
    <3> QED
      BY <2>2, <3>1
  <2> QED
    BY <1>1, <2>1, <2>2
<1>8. /\ d \in Stores /\ Sound(d) /\ \A w \in Kept : Stands(d, w)
      /\ d.nextVat \in Int /\ Floor <= d.nextSubcluster
  BY <1>2, <1>5, <1>7, Variables, FieldsOfStores, FloorIsNumber
<1>9. v \in Kept' => v \in db.active /\ v < d.nextVat
  <2>1. v \in Kept' => v \in db.active /\ v \in d.active /\ Stands(d, v)
    BY <1>1, <1>5, <1>6, <1>7, <1>8
  <2>2. v \in Int
    BY <1>3, Bounds DEF Vats
  <2> QED
    BY <1>8, <2>1, <2>2 DEF Stands
<1>10. PICK e : /\ CloseCrank(e) /\ Keeps(d, e)
                /\ \A w \in Kept' : /\ ComesOf(d, e, w)
                                    /\ w \in d.active => w \in e.active \/ w = v
  <2>1. CASE CloseCrank(RetireVats(d, {v}))
    <3> DEFINE e == RetireVats(d, {v})
    <3>1. e = RetireVats(d, {v}) /\ CloseCrank(e)
      BY <2>1
    <3> HIDE DEF e
    <3>2. Keeps(d, e)
      BY <1>3, <1>8, <3>1, Retired, LeftKeeps
    <3>3. ASSUME NEW w \in Kept'
          PROVE  ComesOf(d, e, w) /\ (w # v => (w \in e.active <=> w \in d.active))
      BY <1>3, <1>5, <1>6, <1>8, <1>9, <3>1, RetiredComesOf
    <3> QED
      BY <3>1, <3>2, <3>3
  <2>2. CASE CloseCrank(d)
    <3>1. Keeps(d, d)
      BY <1>8, KeepsItself
    <3>2. \A w \in Kept' : ComesOf(d, d, w)
      BY <1>6, <1>8 DEF ComesOf
    <3> QED
      BY <2>2, <3>1, <3>2
  <2> QED
    BY <1>7, <2>1, <2>2
<1>11. /\ Swept(e, db') /\ saved' = EmptyStore /\ crank' = Closed
       /\ ToSet(queued') = ToSet(queued) \cup ToSet(held)
       /\ Floor' = db'.nextSubcluster /\ db'.nextSubcluster = e.nextSubcluster
       /\ e \in Stores /\ e.nextSubcluster = d.nextSubcluster
  BY <1>10, CrankEnds DEF Keeps
<1>12. ASSUME NEW w \in Kept'
       PROVE  /\ ComesOf(d, db', w)
              /\ w \in e.active => w \in db'.active
  <2>1. w \in Vats /\ Stands(e, w) /\ ComesOf(d, e, w)
    BY <1>5, <1>6, <1>10 DEF ComesOf
  <2>2. ComesOf(e, db', w) /\ (w \in db'.active <=> w \in e.active)
    BY <1>11, <2>1, SweptComesOf
  <2> QED
    BY <2>1, <2>2, ComesOfTwice
<1>13. InMemory'
  <2>1. ASSUME NEW w \in Kept', w \in handles' \cup workers' PROVE w \in db'.active
    <3>1. w \in Kept /\ w # v /\ w \in db.active
      BY <1>1, <1>5, <1>6, <2>1
    <3> QED
      BY <1>7, <1>10, <1>12, <3>1
  <2>2. ASSUME NEW w \in Kept', w \in workers'
        PROVE  w \in handles' \cup ToSet(queued')
    BY <1>1, <1>5, <1>6, <1>11, <2>2
  <2> QED
    BY <2>1, <2>2 DEF InMemory
<1>14. Floor <= db'.nextSubcluster
  BY <1>8, <1>11
<1>15. handles' \subseteq handles /\ exposed \subseteq exposed'
  BY <1>1, <1>7
<1> QED
  BY <1>1, <1>4, <1>7, <1>11, <1>12, <1>13, <1>14, <1>15, RunLoopStands

(* When nobody asks for anything, it is enough that the vats stand.        *)
LEMMA BootStands ==
    ASSUME StoreInv', exposed' = exposed, crank' = Closed, saved' = EmptyStore,
           \A c \in Calls : calls'[c].phase \in {"none", "done"},
           \A v \in Kept : Stands(db', v),
           InMemory'
    PROVE  VatInv'
<1>1. Kept' = Kept /\ Kept \subseteq Vats
  BY DEF Kept
<1>2. /\ EmptyStore.active = {} /\ EmptyStore.rooted = {} /\ Ended(EmptyStore) = {}
      /\ EmptyStore.nextVat = 1
      /\ \A v \in Vats : /\ EmptyStore.home[v] = NoSubcluster
                         /\ EmptyStore.pins[v] = 0
  BY EmptyStoreIsSound DEF EmptyStore
<1>3. \A c \in Calls : /\ calls'[c].starting = {} /\ calls'[c].left = {}
                       /\ calls'[c].wait = "none"
  BY DEF StoreInv, Shaped
<1>4. Launches \subseteq Calls /\ "terminate" \in Calls
  BY DEF Launches, Calls
<1>5. ToldApart'
  <2>1. Floor' = db'.nextSubcluster
    BY DEF Floor, IsOpen
  <2>2. \A s \in db'.recorded : s < db'.nextSubcluster /\ s \in Int
        /\ db'.nextSubcluster \in Int
    <3>1. db' \in Stores /\ \A s \in db'.recorded : s < db'.nextSubcluster
      BY DEF StoreInv, TypeOK, Sound, SoundBut
    <3> QED
      BY <3>1, FieldsOfStores, Bounds DEF SubclusterIds
  <2>3. FreshAreLaunched'
    <3>1. \A s \in db'.recorded : ~(s >= Floor')
      BY <2>1, <2>2
    <3> QED
      BY <3>1 DEF FreshAreLaunched
  <2>4. EndedAreSettled' /\ SharedAreAstray'
    BY <1>4 DEF EndedAreSettled, SharedAreAstray, Launching, Finished
  <2> QED
    BY <2>3, <2>4 DEF ToldApart
<1>6. (RootsStand(db) /\ RootsStand(saved))'
  BY <1>1, <1>2 DEF RootsStand, Stands
<1>7. StartsClean' /\ SeenToIsGone'
  BY <1>3, <1>4 DEF StartsClean, SeenToIsGone
<1>8. SavedLives'
  BY <1>1, <1>2 DEF SavedLives
<1> QED
  BY <1>5, <1>6, <1>7, <1>8 DEF VatInv

LEMMA CrashingStands ==
    ASSUME StoreInv, VatInv, StoreInv', Crash
    PROVE  VatInv'
<1>1. /\ db' \in {db, saved} /\ saved' = EmptyStore /\ crank' = Closed
      /\ handles' = {} /\ workers' = {} /\ exposed' = exposed
      /\ calls' = [c \in Calls |-> NoCall]
  BY DEF Crash
<1>2. \A v \in Kept : Stands(db', v)
  BY <1>1 DEF VatInv, RootsStand
<1>3. InMemory'
  BY <1>1 DEF InMemory
<1>4. \A c \in Calls : calls'[c].phase \in {"none", "done"}
  BY <1>1 DEF NoCall
<1> QED
  BY <1>1, <1>2, <1>3, <1>4, BootStands

LEMMA NobodyAsks ==
    ASSUME StoreInv, ~Running, UNCHANGED <<saved, crank>>,
           NEW phase \in {"none", "done"},
           calls' \in {calls, [calls EXCEPT !["system"].phase = phase]}
    PROVE  /\ crank' = Closed /\ saved' = EmptyStore
           /\ \A c \in Calls : calls'[c].phase \in {"none", "done"}
<1>1. /\ crank = Closed /\ held = <<>>
      /\ \A c \in Calls : calls[c].phase \in {"none", "done"}
  <2>1. NoCall.phase = "none" /\ [NoCall EXCEPT !.phase = "done"].phase = "done"
    BY DEF NoCall
  <2> QED
    BY <2>1 DEF StoreInv, BootIsAlone, NothingIsAsked, Running
<1>2. saved = EmptyStore
  BY <1>1 DEF StoreInv, SavedIsBehind, IsOpen
<1>3. calls \in [Calls -> CallStates] /\ \A c \in Calls : "phase" \in DOMAIN calls[c]
  BY DEF StoreInv, TypeOK, CallStates
<1> QED
  BY <1>1, <1>2, <1>3

LEMMA RestoringStands ==
    ASSUME StoreInv, VatInv, StoreInv', RestoreNames
    PROVE  VatInv'
<1> DEFINE s == db.name
           f == AbandonSubcluster(db, s)
<1>1. /\ up = "down"
      /\ \E configured \in BOOLEAN :
            calls' = [calls EXCEPT !["system"].phase = ToLaunch(configured)]
      /\ \/ db' = db
         \/ s # NoSubcluster /\ db' = [f EXCEPT !.name = NoSubcluster]
         \/ db' = [db EXCEPT !.name = NoSubcluster]
         \/ s # NoSubcluster /\ db' = RemoveWithoutBootstrap(db)
      /\ UNCHANGED <<saved, crank, handles, workers, exposed>>
  BY DEF RestoreNames
<1>2. s \in SubclusterIds \cup {NoSubcluster}
  BY Variables, FieldsOfStores
<1>3. \E p \in {"none", "done"} : calls' = [calls EXCEPT !["system"].phase = p]
  BY <1>1 DEF ToLaunch
<1> HIDE DEF s, f
<1>4. /\ crank' = Closed /\ saved' = EmptyStore
      /\ \A c \in Calls : calls'[c].phase \in {"none", "done"}
  BY <1>1, <1>3, NobodyAsks DEF Running
<1>5. ASSUME NEW v \in Kept PROVE Stands(db', v)
  <2>1. v \in Vats /\ Stands(db, v)
    BY DEF Kept, VatInv, RootsStand
  <2>2. CASE db' = db
    BY <2>1, <2>2
  <2>3. CASE s # NoSubcluster /\ db' = [f EXCEPT !.name = NoSubcluster]
    <3>1. Removed(db, f, s)
      BY <1>2, <2>3, Variables, Abandoned DEF f
    <3>2. f \in Stores /\ Sound(f) /\ Stands(f, v)
      BY <2>1, <3>1 DEF Removed
    <3> QED
      BY <2>1, <2>3, <3>2, NameDropped
  <2>4. CASE db' = [db EXCEPT !.name = NoSubcluster]
    BY <2>1, <2>4, Variables, NameDropped
  <2>5. CASE db' = RemoveWithoutBootstrap(db)
    BY <2>1, <2>5, Variables, WithoutBootstrap DEF Removed
  <2> QED
    BY <1>1, <2>2, <2>3, <2>4, <2>5
<1>6. handles' = {} /\ workers' = {}
  BY <1>1 DEF StoreInv, BootIsAlone
<1>7. InMemory'
  BY <1>6 DEF InMemory
<1> QED
  BY <1>1, <1>4, <1>5, <1>7, BootStands

LEMMA StartingVatsStands ==
    ASSUME StoreInv, VatInv, StoreInv', InitializeAllVats
    PROVE  VatInv'
<1>1. PICK failed \in SUBSET db.active :
         /\ handles' = db.active \ failed /\ workers' = db.active \ failed
         /\ db' = RetireVats(db, failed)
  BY DEF InitializeAllVats
<1>2. ~Running /\ UNCHANGED <<saved, crank, calls, exposed>>
  BY DEF InitializeAllVats, Running
<1>3. failed \in SUBSET Vats
  BY Variables, FieldsOfStores
<1>4. /\ Left(db, db', failed) /\ Released(db, db', failed \ Ended(db))
      /\ Ended(db') = Ended(db) \cup failed
  BY <1>1, <1>3, Variables, Retired
<1>5. ASSUME NEW v \in Kept PROVE Stands(db', v)
  <2>1. v \in Vats /\ Stands(db, v)
    BY DEF Kept, VatInv, RootsStand
  <2>2. v \in Int /\ db.nextVat \in Int
    BY <2>1, Variables, FieldsOfStores, Bounds DEF Vats
  <2>3. v \in failed => v < db.nextVat
    BY <2>1, <2>2 DEF Stands
  <2> QED
    BY <1>3, <1>4, <2>1, <2>3, Variables, RetiredStand
<1>6. InMemory'
  BY <1>1, <1>4 DEF InMemory, Left
<1>7. /\ crank' = Closed /\ saved' = EmptyStore
      /\ \A c \in Calls : calls'[c].phase \in {"none", "done"}
  BY <1>2, NobodyAsks
<1> QED
  BY <1>2, <1>5, <1>6, <1>7, BootStands

LEMMA RemovingStands ==
    ASSUME StoreInv, VatInv, StoreInv', RemoveSystemSubclusters
    PROVE  VatInv'
<1>1. /\ ~Running /\ db' = RemoveWithoutBootstrap(db)
      /\ handles' = handles \cap db'.active /\ workers' = workers \cap db'.active
      /\ calls' \in {calls, [calls EXCEPT !["system"].phase = "done"]}
      /\ UNCHANGED <<saved, crank, queued, held, exposed>>
  BY DEF RemoveSystemSubclusters, Running
<1>2. /\ crank' = Closed /\ saved' = EmptyStore
      /\ \A c \in Calls : calls'[c].phase \in {"none", "done"}
  BY <1>1, NobodyAsks
<1>3. ASSUME NEW v \in Kept PROVE Stands(db', v)
  <2>1. v \in Vats /\ Stands(db, v)
    BY DEF Kept, VatInv, RootsStand
  <2> QED
    BY <1>1, <2>1, Variables, WithoutBootstrap DEF Removed
<1>4. crank.item # "end"
  BY <1>1, <1>2 DEF Closed
<1>5. InMemory'
  BY <1>1, <1>4 DEF VatInv, InMemory, Kept
<1> QED
  BY <1>1, <1>2, <1>3, <1>5, BootStands

-----------------------------------------------------------------------------
LEMMA VatInvInit ==
    ASSUME Init
    PROVE  VatInv
<1>1. /\ db = EmptyStore /\ saved = EmptyStore /\ crank = Closed
      /\ handles = {} /\ workers = {}
      /\ \A c \in Calls : \E p \in {"none", "done"} :
            calls[c] = [NoCall EXCEPT !.phase = p]
  BY DEF Init, ToLaunch
<1>2. \A c \in Calls : /\ calls[c].phase \in {"none", "done"}
                       /\ calls[c].starting = {} /\ calls[c].left = {}
                       /\ calls[c].wait = "none"
  BY <1>1 DEF NoCall
<1>3. Launches \subseteq Calls /\ "terminate" \in Calls
  BY DEF Launches, Calls
<1>4. /\ db.recorded = {} /\ db.active = {} /\ db.rooted = {} /\ Ended(db) = {}
      /\ \A v \in Vats : db.home[v] = NoSubcluster /\ db.pins[v] = 0
  BY <1>1, EmptyStoreIsSound, NobodyIn DEF EmptyStore, Ended
<1>5. ToldApart
  BY <1>2, <1>3, <1>4
     DEF ToldApart, FreshAreLaunched, EndedAreSettled, SharedAreAstray, Launching, Finished
<1>6. RootsStand(db) /\ RootsStand(saved)
  BY <1>1, <1>4 DEF RootsStand, Stands, Kept
<1>7. StartsClean /\ SeenToIsGone
  BY <1>2, <1>3 DEF StartsClean, SeenToIsGone
<1>8. SavedLives /\ InMemory
  BY <1>1, <1>4 DEF SavedLives, InMemory
<1> QED
  BY <1>5, <1>6, <1>7, <1>8 DEF VatInv

(* A subcluster is not ended while it is being launched: see Overlapping.  *)
LEMMA VatInvStep ==
    ASSUME ~Overlapping, StoreInv, VatInv, StoreInv', [Next]_vars
    PROVE  VatInv'
<1>1. CASE UNCHANGED vars
  BY <1>1 DEF vars, VatInv, ToldApart, FreshAreLaunched, EndedAreSettled,
              SharedAreAstray, Launching, Outlived, Floor, IsOpen, BeingLaunched,
              Kept, RootsStand, StartsClean, SavedLives, InMemory, SeenToIsGone
<1>2. CASE \E c \in Launches : LaunchSubcluster(c)
  BY <1>2, LaunchingStands
<1>3. CASE \E s \in SubclusterIds : TerminateSubcluster(s)
  BY <1>3, TerminatingStands
<1>4. CASE \E c \in Calls : CallSteps(c)
  BY <1>4, CreatingChannelsStands, QueueingStands, ReturningStands,
     FailedLaunchesStand, SkippingStands, AskingStands, HearingOfAnEndStands,
     EndingStands DEF CallSteps
<1>5. CASE \E c \in Launches, n \in Members : VatSettles(c, n)
  BY <1>5, StartingStands, FailingToStartStands DEF VatSettles
<1>6. CASE RunLoopSteps \/ StartDelivery
  BY <1>6, PerformingStands, EndingACrankStands, EndingInDeliveryStands,
     DeliveringStands DEF RunLoopSteps
<1>7. CASE \E v \in Vats : LoseVat(v)
  BY <1>7, LosingStands
<1>8. CASE Crash \/ Boots
  BY <1>8, CrashingStands, RestoringStands, StartingVatsStands, RemovingStands
     DEF Boots
<1> QED
  BY <1>1, <1>2, <1>3, <1>4, <1>5, <1>6, <1>7, <1>8 DEF Next

LEMMA VatInvHolds ==
    ASSUME ~Overlapping
    PROVE  Spec => []VatInv
<1>1. Init => VatInv
  BY VatInvInit
<1>2. VatInv /\ StoreInv /\ StoreInv' /\ [Next]_vars => VatInv'
  BY VatInvStep
<1> QED
  BY <1>1, <1>2, StoreInvHolds, PTL DEF Spec

(* No vat that has a handle or is active is without a subcluster, in any   *)
(* state and however launches overlap, but for those whose launch was      *)
(* undone with a crank or shares the id of one that was, or whose end was  *)
(* only partly written down, so that getStatus, which looks up the         *)
(* subcluster of every vat, does not fail (SubclusterManager, VatManager). *)
THEOREM StatusAlwaysFindsEveryVat ==
    ASSUME ~Overlapping
    PROVE  Spec => []StatusFindsEveryVat
<1>1. ASSUME StoreInv, VatInv PROVE StatusFindsEveryVat
  <2>1. handles \cup db.active \subseteq Vats
    BY <1>1, Variables, FieldsOfStores
  <2> QED
    BY <1>1, <2>1 DEF StatusFindsEveryVat, VatInv, InMemory, RootsStand,
                      Stands, Kept
<1>2. Spec => []VatInv
  BY VatInvHolds
<1> QED
  BY <1>1, <1>2, StoreInvHolds, PTL

(* The pin that a launch puts on the root of a vat is there as long as the *)
(* vat lives, once, and is taken off by each of the ways it may end by:    *)
(* asked for, lost, exiting, undone, or swept by a boot (VatManager,       *)
(* store/methods/pinned.ts).                                               *)
THEOREM RootsAlwaysPinned ==
    ASSUME ~Overlapping
    PROVE  Spec => []PinsBalance
<1>1. ASSUME StoreInv, VatInv PROVE PinsBalance
  <2> SUFFICES ASSUME NEW v \in Kept PROVE PinBalances(v)
    BY DEF PinsBalance, Kept
  <2>1. Stands(db, v)
    BY <1>1 DEF VatInv, RootsStand
  <2>2. Contains(db.terminated, v) <=> v \in Ended(db)
    BY <1>1, Variables, FieldsOfStores, ContainsIsIn DEF Ended
  <2> QED
    BY <2>1, <2>2 DEF PinBalances, Stands
<1>2. Spec => []VatInv
  BY VatInvHolds
<1> QED
  BY <1>1, <1>2, StoreInvHolds, PTL

(* A worker that runs belongs to a vat with a handle, or the end of its    *)
(* vat is under way or waits in the run queue, so that no process is left  *)
(* that nothing would stop (VatManager, KernelQueue).                      *)
THEOREM WorkersAlwaysAccountedFor ==
    ASSUME ~Overlapping
    PROVE  Spec => []WorkersAreAccountedFor
<1>1. ASSUME StoreInv, VatInv PROVE WorkersAreAccountedFor
  <2>1. ToSet(queued \o held) = ToSet(queued) \cup ToSet(held)
    BY <1>1, Variables, JoinedSet
  <2>2. workers \subseteq Vats
    BY <1>1, Variables
  <2> QED
    BY <1>1, <2>1, <2>2 DEF WorkersAreAccountedFor, VatInv, InMemory, Kept
<1>2. Spec => []VatInv
  BY VatInvHolds
<1> QED
  BY <1>1, <1>2, StoreInvHolds, PTL

(* A kernel that is coming up does nothing but boot, or dies.              *)
LEMMA OnlyBoots ==
    ASSUME StoreInv, ~Running, Next
    PROVE  Crash \/ Boots
<1>1. /\ crank = Closed
      /\ \A c \in Calls : calls[c].phase \in {"none", "done"} /\ calls[c].wait = "none"
  <2>1. /\ NoCall.phase = "none" /\ NoCall.wait = "none"
        /\ [NoCall EXCEPT !.phase = "done"].phase = "done"
        /\ [NoCall EXCEPT !.phase = "done"].wait = "none"
    BY DEF NoCall
  <2> QED
    BY <2>1 DEF StoreInv, BootIsAlone, NothingIsAsked, Running
<1>2. crank.item \notin {"end", "idle", "delivery"} \cup Launches
  BY <1>1 DEF Closed, Launches
<1>3. Launches \subseteq Calls
  BY DEF Launches, Calls
<1>4. \A c \in Calls : calls[c].starting = {}
  BY <1>1 DEF StoreInv, Shaped
<1>5. ~\E c \in Calls : CallSteps(c)
  BY <1>1, <1>3 DEF CallSteps, CreateChannels, QueueBootstrap, LaunchReturns,
                    FailLaunch, SkipMember, EndMember, MemberEnded, EndingEnds
<1>6. ~\E c \in Launches, n \in Members : VatSettles(c, n)
  BY <1>3, <1>4 DEF VatSettles, VatStarts, VatFails
<1>7. ~(RunLoopSteps \/ StartDelivery)
  BY <1>2 DEF RunLoopSteps, StartDelivery, PerformVatTermination, EndTermination,
              KeepDelivery, EndVatInDelivery, DeliverBootstrap
<1>8. ~((\E c \in Launches : LaunchSubcluster(c))
         \/ (\E s \in SubclusterIds : TerminateSubcluster(s))
         \/ (\E v \in Vats : LoseVat(v)))
  BY DEF LaunchSubcluster, TerminateSubcluster, LoseVat
<1> QED
  BY <1>5, <1>6, <1>7, <1>8 DEF Next

LEMMA OthersDoNotBoot ==
    ASSUME Next, ~Boots, up' # up
    PROVE  up' = "down"
BY DEF Next, LaunchSubcluster, TerminateSubcluster, CallSteps, CreateChannels,
       QueueBootstrap, LaunchReturns, FailLaunch, SkipMember, EndMember,
       MemberEnded, EndingEnds, VatSettles, VatStarts, VatFails, RunLoopSteps,
       PerformVatTermination, EndTermination, KeepDelivery, EndVatInDelivery,
       DeliverBootstrap, StartDelivery, LoseVat, Crash

LEMMA RestoredNameLeads ==
    ASSUME StoreInv, VatInv, RestoreNames
    PROVE  NameLeads'
<1> DEFINE s == db.name
           b == db.vats[s][Bootstrap]
           f == AbandonSubcluster(db, s)
           e == RemoveWithoutBootstrap(db)
<1>1. /\ up' # "started" /\ exposed' = exposed
      /\ \/ up' = "broken"
         \/ db' = db /\ s = NoSubcluster /\ root' = NoVat
         \/ /\ s # NoSubcluster /\ db' = [f EXCEPT !.name = NoSubcluster]
            /\ root' = NoVat
         \/ db' = [db EXCEPT !.name = NoSubcluster] /\ root' = NoVat
         \/ /\ s # NoSubcluster /\ (b = NoVat \/ b \in db.rooted)
            /\ db' = e /\ root' = b
  BY DEF RestoreNames
<1>2. s \in SubclusterIds \cup {NoSubcluster}
  BY Variables, FieldsOfStores
<1> HIDE DEF s, f, e
<1>3. CASE up' = "broken"
  BY <1>3 DEF NameLeads
<1>4. CASE db' = db /\ s = NoSubcluster /\ root' = NoVat
  BY <1>1, <1>4 DEF NameLeads, s
<1>5. CASE /\ s # NoSubcluster /\ db' = [f EXCEPT !.name = NoSubcluster]
           /\ root' = NoVat
  <2>1. Removed(db, f, s)
    BY <1>2, <1>5, Variables, Abandoned DEF f
  <2>2. db'.name = NoSubcluster
    BY <1>5, <2>1, NameDropped DEF Removed
  <2> QED
    BY <1>1, <1>5, <2>2 DEF NameLeads
<1>6. CASE db' = [db EXCEPT !.name = NoSubcluster] /\ root' = NoVat
  <2>1. db'.name = NoSubcluster
    BY <1>6, Variables, NameDropped
  <2> QED
    BY <1>1, <1>6, <2>1 DEF NameLeads
<1>7. CASE /\ s # NoSubcluster /\ (b = NoVat \/ b \in db.rooted)
           /\ db' = e /\ root' = b
  <2>1. CASE e = db /\ (s # NoSubcluster => b # NoVat)
    <3>1. ASSUME s # NoSubcluster, b \in Kept PROVE b \in db.active
      <4>1. b \in Vats /\ b \in Listed(db, s)
        BY <1>2, <2>1, <3>1, Variables, FieldsOfStores, Bounds DEF Listed, NoVat, Kept
      <4>2. db.home[b] = s
        BY <1>2, <3>1, <4>1, Variables DEF Sound, SoundBut
      <4>3. b \in db.rooted
        BY <1>7, <2>1, <3>1
      <4> QED
        BY <3>1, <4>2, <4>3 DEF VatInv, RootsStand, Stands
    <3> QED
      BY <1>1, <1>7, <2>1, <3>1 DEF NameLeads, Kept, s
  <2>2. CASE b = NoVat /\ e.name = NoSubcluster
    BY <1>1, <1>7, <2>2 DEF NameLeads
  <2>3. \/ e = db /\ (s # NoSubcluster => b # NoVat)
        \/ b = NoVat /\ e.name = NoSubcluster
    BY Variables, WithoutBootstrap DEF e, s
  <2> QED
    BY <2>1, <2>2, <2>3
<1> QED
  BY <1>1, <1>3, <1>4, <1>5, <1>6, <1>7

LEMMA StartedNameLeads ==
    ASSUME StoreInv, NameLeads, InitializeAllVats
    PROVE  NameLeads'
<1>1. PICK failed \in SUBSET db.active :
         handles' = db.active \ failed /\ db' = RetireVats(db, failed)
  BY DEF InitializeAllVats
<1>2. up = "restored" /\ up' = "started" /\ UNCHANGED <<root, exposed>>
  BY DEF InitializeAllVats
<1>3. failed \in SUBSET Vats /\ 0 \notin failed
  BY Variables, FieldsOfStores, Bounds
<1>4. Left(db, db', failed)
  BY <1>1, <1>3, Variables, Retired
<1>5. db'.name = db.name /\ db'.active = db.active \ failed
  BY <1>4 DEF Left
<1>6. ASSUME db.name # NoSubcluster
      PROVE  db'.vats[db.name][Bootstrap]
                = IF db.vats[db.name][Bootstrap] \in failed THEN NoVat
                  ELSE db.vats[db.name][Bootstrap]
  <2>1. db.name \in SubclusterIds
    BY <1>6, Variables, FieldsOfStores
  <2> QED
    BY <1>4, <2>1, Bounds DEF Left
<1> QED
  BY <1>1, <1>2, <1>5, <1>6 DEF NameLeads, Kept

LEMMA NameLeadsHolds ==
    ASSUME ~Overlapping
    PROVE  Spec => []NameLeads
<1>1. Init => NameLeads
  BY DEF Init, NameLeads
<1>2. ASSUME StoreInv, VatInv, NameLeads, [Next]_vars PROVE NameLeads'
  <2>1. CASE UNCHANGED vars
    BY <1>2, <2>1 DEF vars, NameLeads, Kept
  <2>2. CASE Next /\ ~Boots
    <3>1. up' \notin {"restored", "started"}
      <4>1. CASE Running
        BY <2>2, <4>1, OthersDoNotBoot DEF Running
      <4>2. CASE ~Running
        BY <1>2, <2>2, <4>2, OnlyBoots DEF Crash
      <4> QED
        BY <4>1, <4>2
    <3> QED
      BY <3>1 DEF NameLeads
  <2>3. CASE Boots
    BY <1>2, <2>3, RestoredNameLeads, StartedNameLeads
       DEF Boots, RemoveSystemSubclusters, NameLeads
  <2> QED
    BY <1>2, <2>1, <2>2, <2>3
<1>3. Spec => []VatInv
  BY VatInvHolds
<1> QED
  BY <1>1, <1>2, <1>3, StoreInvHolds, PTL DEF Spec

(* When a boot has come to its end the name of the system subcluster is    *)
(* free, or leads to a bootstrap vat that was started and is still listed, *)
(* whatever died before or failed to start in the boot (initSystemSub-     *)
(* clusters, initializeAllVats, removeSystemSubclustersWithoutBootstrapVat *)
(* in SubclusterManager and VatManager).                                   *)
THEOREM NamesAlwaysServed ==
    ASSUME ~Overlapping
    PROVE  Spec => NamesAreServed
<1>1. ASSUME StoreInv, NameLeads, [Next]_vars PROVE NameIsServed
  <2> SUFFICES ASSUME up = "started", up' = "running"
               PROVE  IF db'.name = NoSubcluster THEN root' = NoVat
                      ELSE /\ root' = db'.vats[db'.name][Bootstrap]
                           /\ root' \in handles' \cup exposed'
    BY DEF NameIsServed
  <2>1. RemoveSystemSubclusters
    <3>1. Next
      BY <1>1 DEF vars
    <3> QED
      BY <1>1, <3>1, OnlyBoots
         DEF Running, Boots, Crash, RestoreNames, InitializeAllVats
  <2>2. /\ db' = RemoveWithoutBootstrap(db)
        /\ handles' = handles \cap db'.active
        /\ root' = IF db'.name = NoSubcluster THEN NoVat ELSE root
        /\ exposed' = exposed
    BY <2>1 DEF RemoveSystemSubclusters
  <2>3. CASE db'.name = NoSubcluster
    BY <2>2, <2>3
  <2>4. CASE db'.name # NoSubcluster
    <3>1. db' = db /\ db.vats[db.name][Bootstrap] # NoVat
      BY <1>1, <2>2, <2>4, Variables, WithoutBootstrap
    <3>2. /\ root = db.vats[db.name][Bootstrap]
          /\ root \in Kept => root \in handles
      BY <1>1, <2>4, <3>1 DEF NameLeads
    <3>3. root \in Vats
      <4>1. db.name \in SubclusterIds
        BY <1>1, <2>4, <3>1, Variables, FieldsOfStores
      <4> QED
        BY <1>1, <3>1, <3>2, <4>1, Variables, FieldsOfStores, Bounds
    <3> QED
      BY <1>1, <2>2, <2>4, <3>1, <3>2, <3>3 DEF NameLeads, Kept
  <2> QED
    BY <2>3, <2>4
<1>2. Spec => []NameLeads
  BY NameLeadsHolds
<1> QED
  BY <1>1, <1>2, StoreInvHolds, PTL DEF Spec, NamesAreServed

=============================================================================
