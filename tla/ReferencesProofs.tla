---------------------------- MODULE ReferencesProofs ----------------------------
(* Proofs about References: collection, the death of vats, deliveries and  *)
(* cranks keep a store that balances, and so does every step.              *)
EXTENDS ReferencesCounting

-----------------------------------------------------------------------------
(* Collection.                                                             *)

(* What every operation of a crank keeps.                                  *)
Lasts(s, t) == Stands(s, t) /\ t.configured \subseteq s.configured

LEMMA SteadyLasts ==
    ASSUME NEW s, NEW t, Steady(s, t)
    PROVE  Lasts(s, t)
  BY DEF Steady, Lasts

LEMMA LastsJoins ==
    ASSUME NEW s \in Stores, NEW t \in Stores, NEW u \in Stores, Lasts(s, t), Lasts(t, u)
    PROVE  Lasts(s, u)
  BY StandsJoins DEF Lasts

(* What a crank's operation comes to.                                      *)
Outcome(s, t, E, R) ==
    \/ t \in Stores /\ t.failed
    \/ Sound(t, E, R) /\ Lasts(s, t)

(* What has no count has no holder.                                        *)
LEMMA NoCount ==
    ASSUME NEW E \in Loans, NEW R, NEW s, Sound(s, E, R), NEW k \in Krefs, Exists(s, k),
           Reached(s, k) = 0
    PROVE  /\ Held(s, k) = 0 /\ E[k] = 0 /\ Entered(s, k, "reach", R) = 0
           /\ Recognized(s, k) = Entered(s, k, "recog", R)
<1> DEFINE h == Held(s, k)
           e == E[k]
           a == Entered(s, k, "reach", R)
           d == Entered(s, k, "recog", R)
<1>1. h \in Nat /\ e \in Nat /\ d \in Nat /\ a \in Nat
  BY HeldType, EnteredType DEF Loans, Sound
<1>2. 0 = h + e + a /\ Recognized(s, k) = h + e + d
  BY DEF Sound, Balanced
<1> HIDE DEF h, e, a, d
<1>3. h = 0 /\ e = 0 /\ a = 0 /\ Recognized(s, k) = d
  BY <1>1, <1>2
<1> QED
  BY <1>3 DEF h, e, a, d

(* The row of a promise gone.                                              *)
PromiseGone(s, t, p) == t = [s EXCEPT !.promise = [x \in DOMAIN @ \ {p} |-> @[x]]]

LEMMA PromiseGoneIs ==
    ASSUME NEW s \in Stores, NEW p \in DOMAIN s.promise, NEW t, PromiseGone(s, t, p)
    PROVE  /\ t \in Stores /\ Frame(s, t) /\ t.object = s.object /\ t.clist = s.clist
           /\ t.failed = s.failed
           /\ DOMAIN t.promise = DOMAIN s.promise \ {p}
           /\ \A q \in DOMAIN t.promise : t.promise[q] = s.promise[q]
           /\ \A k \in Krefs : Held(t, k) = Held(s, k) - UsesInPromise(p, s.promise[p], k)
<1>1. p \in Promises /\ s.promise \in Tables(Promises, PromiseRows)
  BY StoreFields, StoreIs
<1> DEFINE f == s.promise
           g == [x \in DOMAIN f \ {p} |-> f[x]]
<1>2. t.promise = g /\ t = [s EXCEPT !.promise = g]
  BY DEF PromiseGone, Stores
<1>3. g \in Tables(Promises, PromiseRows)
  <2> HIDE DEF f
  <2>1. \A y \in PromiseRows : g \in Tables(Promises, PromiseRows)
    BY <1>1, TableChanges DEF f
  <2>2. f[p] \in PromiseRows
    BY <1>1, TableIs DEF f
  <2> QED
    BY <2>1, <2>2
<1>4. DOMAIN t.promise = DOMAIN s.promise \ {p} /\ \A q \in DOMAIN t.promise : t.promise[q] = s.promise[q]
  BY <1>2
<1> HIDE DEF g, f
<1>5. t \in Stores
  BY <1>2, <1>3, StoreChanges
<1>6. Frame(s, t) /\ t.object = s.object /\ t.clist = s.clist /\ t.failed = s.failed
  BY DEF PromiseGone, Stores, Frame
<1>7. ASSUME NEW k \in Krefs
      PROVE  Held(t, k) = Held(s, k) - UsesInPromise(p, s.promise[p], k)
  <2> DEFINE a == UsesInItems(s.run, k)
             b == UsesInItems(s.buffer, k)
             c == UsesInPromises(s.promise, k)
             d == IF IsPromise(k) THEN 0 ELSE s.pins[k]
             x == UsesInPromise(p, s.promise[p], k)
  <2>1. UsesInPromises(t.promise, k) = c - Share(s.promise, p, k) + Share(t.promise, p, k)
    <3>1. \A q \in Promises : q # p => Share(t.promise, q, k) = Share(s.promise, q, k)
      BY <1>4 DEF Share
    <3>2. t.promise \in Tables(Promises, PromiseRows)
      BY <1>2, <1>3
    <3> QED
      BY <1>1, <3>1, <3>2, SharesOfOthers
  <2>2. Share(s.promise, p, k) = x /\ Share(t.promise, p, k) = 0
    BY <1>4 DEF Share
  <2>3. a \in Nat /\ b \in Nat /\ c \in Nat /\ d \in Nat
    BY HeldType
  <2>4. x \in Nat
    BY <1>1, StoreIs, UsesInPromiseType
  <2>5. Held(s, k) = a + b + c + d
    BY DEF Held
  <2>6. Held(t, k) = a + b + UsesInPromises(t.promise, k) + d
    BY <1>6 DEF Held, Frame
  <2> HIDE DEF a, b, c, d, x
  <2>7. Held(t, k) = a + b + (c - x + 0) + d
    BY <2>1, <2>2, <2>6
  <2>8. Held(t, k) = Held(s, k) - x
    BY <2>3, <2>4, <2>5, <2>7
  <2> QED
    BY <2>8 DEF x
<1> QED
  BY <1>4, <1>5, <1>6, <1>7

(* A promise that nothing holds, deleted once its value has been released. *)
LEMMA PromiseGoneIsSound ==
    ASSUME NEW E \in Loans, NEW F \in Hands, NEW R, NEW s, Sound(s, F, R),
           NEW p \in DOMAIN s.promise, NEW t, PromiseGone(s, t, p),
           \A k \in Krefs : E[k] = F[k] + UsesInPromise(p, s.promise[p], k),
           Held(s, p) = 0, E[p] = 0, Entered(s, p, "recog", R) = 0
    PROVE  Sound(t, E, R) /\ Lasts(s, t)
<1>1. /\ s \in Stores /\ s.failed = FALSE /\ p \in Promises /\ p \in Krefs /\ IsPromise(p)
      /\ s.promise[p] \in PromiseRows /\ p \notin DOMAIN s.object
  <2>1. s \in Stores /\ s.failed = FALSE
    BY DEF Sound
  <2>2. p \in Promises /\ s.promise[p] \in PromiseRows
    BY <2>1, StoreIs
  <2>3. p \in Krefs /\ IsPromise(p)
    BY <2>2, KrefsAre
  <2> QED
    BY <2>1, <2>2, <2>3, ExistsIs
<1>2. /\ t \in Stores /\ Frame(s, t) /\ t.object = s.object /\ t.clist = s.clist
      /\ t.failed = s.failed
      /\ DOMAIN t.promise = DOMAIN s.promise \ {p}
      /\ \A q \in DOMAIN t.promise : t.promise[q] = s.promise[q]
      /\ \A k \in Krefs : Held(t, k) = Held(s, k) - UsesInPromise(p, s.promise[p], k)
  BY <1>1, PromiseGoneIs
<1>3. \A k : \A how : Entered(t, k, how, R) = Entered(s, k, how, R)
  <2> TAKE k
  <2> TAKE how
  <2>1. \A v \in Vats : Weighs(s, v, k, how, R) <=> Weighs(t, v, k, how, R)
    BY <1>2 DEF Weighs, Has, Frame, Retiring
  <2> QED
    BY <2>1, EnteredSame
<1>4. ASSUME NEW k \in Krefs PROVE Held(t, k) + E[k] = Held(s, k) + F[k]
  <2> DEFINE h == Held(s, k)
             u == UsesInPromise(p, s.promise[p], k)
             f == F[k]
  <2>1. h \in Nat /\ u \in Nat /\ f \in Int /\ E[k] = f + u /\ Held(t, k) = h - u
    BY <1>1, <1>2, HeldType, UsesInPromiseType DEF Hands
  <2> HIDE DEF h, u, f
  <2>2. Held(t, k) + E[k] = h + f
    BY <2>1
  <2> QED
    BY <2>2 DEF h, f
<1>5. Held(t, p) = 0
  <2> DEFINE u == UsesInPromise(p, s.promise[p], p)
  <2>1. u \in Nat /\ Held(t, p) = 0 - u /\ Held(t, p) \in Nat
    BY <1>1, <1>2, HeldType, UsesInPromiseType
  <2> HIDE DEF u
  <2> QED
    BY <2>1
<1>6. Balanced(t, E, R)
  <2> SUFFICES ASSUME NEW k \in Krefs
               PROVE  IF Exists(t, k)
                      THEN /\ Reached(t, k) = Held(t, k) + E[k] + Entered(t, k, "reach", R)
                           /\ Recognized(t, k) = Held(t, k) + E[k] + Entered(t, k, "recog", R)
                      ELSE Held(t, k) + E[k] + Entered(t, k, "recog", R) = 0
    BY DEF Balanced
  <2>1. CASE k = p
    <3>1. ~Exists(t, k)
      BY <1>1, <1>2, <2>1 DEF Exists
    <3>2. Held(t, k) = 0 /\ E[k] = 0 /\ Entered(t, k, "recog", R) = 0
      BY <1>3, <1>5, <2>1
    <3> QED
      BY <3>1, <3>2
  <2>2. CASE k # p
    <3>1. Exists(t, k) <=> Exists(s, k)
      BY <1>2, <2>2 DEF Exists
    <3>2. Exists(s, k) => Reached(t, k) = Reached(s, k) /\ Recognized(t, k) = Recognized(s, k)
      BY <1>1, <1>2, <2>2, ExistsIs DEF Reached, Recognized
    <3>3. IF Exists(s, k)
          THEN /\ Reached(s, k) = Held(s, k) + F[k] + Entered(s, k, "reach", R)
               /\ Recognized(s, k) = Held(s, k) + F[k] + Entered(s, k, "recog", R)
          ELSE Held(s, k) + F[k] + Entered(s, k, "recog", R) = 0
      BY DEF Sound, Balanced
    <3> QED
      BY <1>3, <1>4, <3>1, <3>2, <3>3
  <2> QED
    BY <2>1, <2>2
<1>7. Fresh(t)
  BY <1>2 DEF Sound, Fresh, Frame
<1>8. ExportsOwned(t) /\ FlagsReach(t)
  BY <1>2 DEF Sound, ExportsOwned, FlagsReach, Has
<1>9. RetiredIsGone(t, R)
  BY <1>2 DEF Sound, RetiredIsGone, Retiring, Frame
<1>10. DeadAreEmpty(t)
  BY <1>2 DEF Sound, DeadAreEmpty, IsTerminated, Frame
<1>11. Lasts(s, t)
  <2>1. t.nextPromise = s.nextPromise /\ s.nextPromise \in Nat /\ t.configured = s.configured
    BY <1>1, <1>2, StoreFields DEF Frame
  <2> QED
    BY <1>2, <2>1 DEF Lasts, Stands
<1>12. Sound(t, E, R)
  BY <1>1, <1>2, <1>6, <1>7, <1>8, <1>9, <1>10 DEF Sound
<1> QED
  BY <1>11, <1>12

LEMMA RaiseIs ==
    ASSUME NEW s \in Stores
    PROVE  Raise(s) \in Stores /\ Raise(s).failed
<1>1. Raise(s) \in Stores
  BY StoreChanges DEF Raise
<1>2. Raise(s).failed
  BY DEF Raise, Stores
<1> QED
  BY <1>1, <1>2

LEMMA LastsSelf ==
    ASSUME NEW s \in Stores
    PROVE  Lasts(s, s)
  BY SteadySelf, SteadyLasts

LEMMA FirstOfPair ==
    ASSUME NEW S, NEW a, NEW b, NEW p \in Seq(S), p = <<a, b>>,
           NEW q \in Seq(S), NEW r, r = p \o q
    PROVE  1 \in DOMAIN r /\ r[1] = a
<1>1. p \in Seq(S) /\ Len(p) = 2 /\ p[1] = a /\ r = p \o q
  OBVIOUS
<1>2. Len(q) \in Nat /\ Len(r) = Len(p) + Len(q) /\ DOMAIN r = 1 .. Len(r)
  BY <1>1
<1>3. 1 \in 1 .. Len(r) /\ 1 \in 1 .. Len(p)
  BY <1>1, <1>2
<1>4. r[1] = p[1]
  BY <1>1, <1>3
<1> QED
  BY <1>1, <1>2, <1>3, <1>4

(* A promise with no count has been settled and has nothing waiting on it.  *)
LEMMA UncountedPromise ==
    ASSUME NEW E \in Loans, NEW R, NEW s, Sound(s, E, R), NEW p \in DOMAIN s.promise,
           s.promise[p].refs = 0
    PROVE  /\ s.promise[p].state # "unresolved"
           /\ Held(s, p) = 0 /\ E[p] = 0 /\ Entered(s, p, "recog", R) = 0
           /\ \A k \in Krefs : UsesInPromise(p, s.promise[p], k) = Uses(s.promise[p].slots, k)
<1> DEFINE row == s.promise[p]
<1>1. /\ s \in Stores /\ p \in Promises /\ p \in Krefs /\ IsPromise(p) /\ Exists(s, p)
      /\ row \in PromiseRows /\ row.queue \in Seq(Message)
  <2>1. s \in Stores
    BY DEF Sound
  <2>2. p \in Promises /\ row \in PromiseRows
    BY <2>1, StoreIs
  <2>3. p \in Krefs /\ IsPromise(p)
    BY <2>2, KrefsAre
  <2> QED
    BY <2>1, <2>2, <2>3 DEF PromiseRows, Exists
<1>2. Reached(s, p) = 0 /\ Recognized(s, p) = 0
  BY <1>1 DEF Reached, Recognized
<1>3. Held(s, p) = 0 /\ E[p] = 0 /\ Entered(s, p, "recog", R) = 0
  BY <1>1, <1>2, NoCount
<1> DEFINE q == row.queue
           a == UsesInQueue(p, q, p)
           w == Uses(OwnRefs(p, row), p)
<1>4. a = 0 /\ w = 0
  <2>1. a \in Nat /\ w \in Nat /\ w + a <= 0
    BY <1>1, <1>3, PromiseHolds
  <2> HIDE DEF a, w
  <2> QED
    BY <2>1
<1>5. row.state # "unresolved"
  <2> SUFFICES ASSUME row.state = "unresolved" PROVE FALSE
    OBVIOUS
  <2>1. Uses(<<p>>, p) = 1
    BY <1>1, UsesOfOne
  <2>2. OwnRefs(p, row) = <<p>>
    BY DEF OwnRefs
  <2> QED
    BY <1>4, <2>1, <2>2
<1>6. q = <<>>
  <2> SUFFICES ASSUME q # <<>> PROVE FALSE
    OBVIOUS
  <2> DEFINE ks == MessageRefs(p, q[1])
             b == Uses(ks, p)
  <2>1. 1 \in DOMAIN q /\ q[1] \in Message
    BY <1>1
  <2>2. ks \in Seq(Krefs) /\ ks = <<p, q[1].result>> \o q[1].slots
        /\ q[1].slots \in Seq(Krefs) /\ <<p, q[1].result>> \in Seq(Krefs)
    BY <1>1, <2>1, MessageRefsType
  <2>3. 1 \in DOMAIN ks /\ ks[1] = p
    <3> DEFINE pair == <<p, q[1].result>>
               rest == q[1].slots
    <3>1. /\ pair \in Seq(Krefs) /\ rest \in Seq(Krefs)
          /\ pair = <<p, q[1].result>> /\ ks = pair \o rest
      BY <2>2
    <3> HIDE DEF ks, q, pair, rest
    <3> QED
      BY <3>1, FirstOfPair
  <2>4. b >= 1 /\ b \in Nat
    <3> HIDE DEF ks
    <3> QED
      BY <1>1, <2>2, <2>3, UsesHas, UsesType
  <2>5. b <= a
    BY <1>1, <2>1, UsesInMessage
  <2> HIDE DEF b, a
  <2> QED
    BY <1>4, <2>4, <2>5
<1>7. ASSUME NEW k \in Krefs PROVE UsesInPromise(p, row, k) = Uses(row.slots, k)
  <2>1. UsesInQueue(p, row.queue, k) = 0
    BY <1>1, <1>6, UsesInNoQueue
  <2>2. UsesInPromise(p, row, k) = Uses(OwnRefs(p, row), k) + 0 /\ Uses(OwnRefs(p, row), k) \in Nat
    BY <1>1, <2>1, UsesInPromiseType
  <2>3. OwnRefs(p, row) = row.slots
    BY <1>5 DEF OwnRefs
  <2> QED
    BY <2>2, <2>3
<1> QED
  BY <1>3, <1>5, <1>7

LEMMA CollectPromiseIsSound ==
    ASSUME NEW E \in Loans, NEW R, NEW s, Sound(s, E, R), NEW p \in Promises
    PROVE  Outcome(s, CollectPromise(s, p), E, R)
<1>1. s \in Stores /\ p \in Krefs /\ E \in Hands
  BY KrefsAre, LoansAreHands DEF Sound
<1>2. CASE p \notin DOMAIN s.promise
  BY <1>1, <1>2, RaiseIs DEF CollectPromise, Outcome
<1>3. CASE p \in DOMAIN s.promise /\ s.promise[p].refs > 0
  BY <1>1, <1>3, LastsSelf DEF CollectPromise, Outcome
<1>4. CASE p \in DOMAIN s.promise /\ ~(s.promise[p].refs > 0)
  <2> DEFINE slots == s.promise[p].slots
             t == ReleaseAll(s, slots)
             u == CollectPromise(s, p)
             F == [k \in Krefs |-> E[k] - Uses(slots, k)]
  <2>1. s.promise[p].refs = 0 /\ slots \in Seq(Krefs) /\ s.promise[p] \in PromiseRows
    BY <1>1, <1>4, StoreIs DEF PromiseRows
  <2>2. /\ s.promise[p].state # "unresolved"
        /\ Held(s, p) = 0 /\ E[p] = 0 /\ Entered(s, p, "recog", R) = 0
        /\ \A k \in Krefs : UsesInPromise(p, s.promise[p], k) = Uses(slots, k)
    BY <1>4, <2>1, UncountedPromise
  <2>3. \A k \in Krefs : Uses(slots, k) \in Nat /\ E[k] \in Nat
    BY <2>1, UsesType DEF Loans
  <2>4. F \in Hands
    <3> HIDE DEF slots
    <3>1. \A k \in Krefs : E[k] - Uses(slots, k) \in Int
      BY <2>3
    <3> QED
      BY <3>1 DEF Hands
  <2>5. Lends(F, E, slots)
    <3>1. ASSUME NEW k \in Krefs PROVE E[k] = F[k] + Uses(slots, k)
      <4> DEFINE e == E[k]
                 a == Uses(slots, k)
      <4>1. e \in Nat /\ a \in Nat /\ F[k] = e - a
        BY <2>3
      <4> HIDE DEF e, a, F
      <4>2. e = F[k] + a
        BY <4>1
      <4> QED
        BY <4>2 DEF e, a
    <3> HIDE DEF F, slots
    <3> QED
      BY <1>1, <2>4, <3>1 DEF Lends
  <2>6. \A k \in Krefs : Held(s, k) + F[k] >= 0
    <3> TAKE k \in Krefs
    <3> DEFINE e == E[k]
               a == Uses(slots, k)
               h == Held(s, k)
    <3>1. e \in Nat /\ a \in Nat /\ F[k] = e - a
      BY <2>3
    <3>2. h \in Nat /\ a <= h
      BY <1>1, <1>4, <2>2, HeldType, PromiseHolds
    <3> HIDE DEF e, a, h, F
    <3>3. h + F[k] >= 0
      BY <3>1, <3>2
    <3> QED
      BY <3>3 DEF h
  <2> HIDE DEF F
  <2>7. Recount(s, t) /\ Sound(t, F, R)
    <3> HIDE DEF slots
    <3> QED
      BY <2>1, <2>5, <2>6, ReleaseAllIsSound
  <2>8. u = [t EXCEPT !.promise = [x \in DOMAIN @ \ {p} |-> @[x]]]
    BY <1>4, <2>2 DEF CollectPromise
  <2> HIDE DEF t, u
  <2>9. PromiseGone(t, u, p)
    BY <2>8 DEF PromiseGone
  <2>10. /\ p \in DOMAIN t.promise /\ Held(t, p) = 0 /\ Entered(t, p, "recog", R) = 0
         /\ t \in Stores /\ \A k \in Krefs : Held(t, k) = Held(s, k)
    <3>1. t \in Stores /\ p \in DOMAIN t.promise
      BY <1>4, <2>7 DEF Recount, SameRows
    <3>2. \A k \in Krefs : Held(t, k) = Held(s, k)
      BY <1>1, <2>7, RecountKeeps
    <3>3. Entered(t, p, "recog", R) = Entered(s, p, "recog", R)
      BY <1>1, <2>7, RecountKeeps
    <3> QED
      BY <1>1, <2>2, <3>1, <3>2, <3>3
  <2>11. \A k \in Krefs : E[k] = F[k] + UsesInPromise(p, t.promise[p], k)
    <3> TAKE k \in Krefs
    <3>1. UsesInPromise(p, t.promise[p], k) = UsesInPromise(p, s.promise[p], k)
      BY <1>4, <2>7 DEF Recount, SameRows, UsesInPromise
    <3>2. UsesInPromise(p, s.promise[p], k) = Uses(slots, k)
      BY <2>2
    <3> HIDE DEF slots
    <3> QED
      BY <2>5, <3>1, <3>2 DEF Lends
  <2>12. Sound(u, E, R) /\ Lasts(t, u)
    BY <2>2, <2>4, <2>7, <2>9, <2>10, <2>11, PromiseGoneIsSound
  <2>13. Lasts(s, u)
    <3>1. Lasts(s, t)
      BY <1>1, <2>7, RecountSteady, SteadyLasts
    <3> QED
      BY <1>1, <2>10, <2>12, <3>1, LastsJoins DEF Sound
  <2> QED
    BY <2>12, <2>13 DEF Outcome, u
<1> QED
  BY <1>2, <1>3, <1>4

(* An object gone, and its importers asked to forget it.                   *)
ObjectGone(s, t, k) ==
    /\ t \in Stores /\ t.promise = s.promise /\ t.clist = s.clist /\ t.pins = s.pins
    /\ t.run = s.run /\ t.buffer = s.buffer /\ t.failed = s.failed
    /\ t.terminated = s.terminated /\ t.configured = s.configured
    /\ t.nextObject = s.nextObject /\ t.nextPromise = s.nextPromise
    /\ DOMAIN t.object = DOMAIN s.object \ {k}
    /\ \A x \in DOMAIN t.object : t.object[x] = s.object[x]
    /\ \A v, x : Retiring(s, v, x) => Retiring(t, v, x)
    /\ \A v, x : Retiring(t, v, x) /\ ~Retiring(s, v, x) => x = k /\ v \in Importers(s, k)
    /\ s.object[k].recog > 0 => \A v \in Importers(s, k) : Retiring(t, v, k)

LEMMA ObjectGoneIsSound ==
    ASSUME NEW E \in Loans, NEW R, NEW s, Sound(s, E, R), NEW k \in DOMAIN s.object,
           s.object[k].reach = 0, s.object[k].owner = NoOne, NEW t, ObjectGone(s, t, k)
    PROVE  Sound(t, E, R) /\ Lasts(s, t)
<1>1. /\ s \in Stores /\ s.failed = FALSE /\ k \in Objects /\ k \in Krefs /\ ~IsPromise(k)
      /\ k \notin DOMAIN s.promise /\ k \notin DOMAIN t.promise /\ Exists(s, k)
      /\ s.object[k].recog \in Nat
  <2>1. s \in Stores /\ s.failed = FALSE
    BY DEF Sound
  <2>2. k \in Objects /\ s.object[k] \in ObjectRows
    BY <2>1, StoreIs
  <2>3. k \in Krefs /\ ~IsPromise(k)
    BY <2>2, KrefsAre
  <2> QED
    BY <2>1, <2>2, <2>3, ExistsIs DEF ObjectGone, Exists, ObjectRows
<1>2. /\ Held(s, k) = 0 /\ E[k] = 0 /\ Entered(s, k, "reach", R) = 0
      /\ s.object[k].recog = Entered(s, k, "recog", R)
  BY <1>1, NoCount DEF Reached, Recognized
<1>3. \A v \in Vats : /\ ~Retiring(s, v, k) /\ <<v, k>> \notin R
                      /\ Has(s, v, k) => s.clist[v][k].dir = "import"
  <2> TAKE v \in Vats
  <2>1. ~Retiring(s, v, k) /\ <<v, k>> \notin R
    BY <1>1 DEF Sound, RetiredIsGone
  <2>2. Has(s, v, k) => s.clist[v][k].dir # "export"
    BY <1>1, BoundsAreNaturals DEF Sound, ExportsOwned
  <2>3. Has(s, v, k) => s.clist[v][k] \in CListEntries
    BY <1>1, StoreIs DEF Has
  <2> QED
    BY <2>1, <2>2, <2>3 DEF CListEntries
<1>4. \A v \in Vats : Has(s, v, k) => ~s.clist[v][k].reach
  <2> SUFFICES ASSUME NEW v \in Vats, Has(s, v, k), s.clist[v][k].reach PROVE FALSE
    OBVIOUS
  <2>1. Weighs(s, v, k, "reach", R)
    BY <1>3 DEF Weighs
  <2>2. Entered(s, k, "reach", R) >= 1
    BY <2>1, EnteredSome
  <2> QED
    BY <1>2, <2>2
<1>5. \A v \in Vats : ~Weighs(t, v, k, "recog", R)
  <2> SUFFICES ASSUME NEW v \in Vats, Weighs(t, v, k, "recog", R) PROVE FALSE
    OBVIOUS
  <2>1. Has(s, v, k) /\ s.clist[v][k].dir = "import" /\ ~Retiring(t, v, k)
    BY <1>1 DEF Weighs, Has, ObjectGone
  <2>2. v \in Importers(s, k)
    BY <2>1 DEF Importers
  <2>3. ~(s.object[k].recog > 0)
    BY <2>1, <2>2 DEF ObjectGone
  <2>4. Weighs(s, v, k, "recog", R)
    BY <1>3, <2>1 DEF Weighs
  <2>5. Entered(s, k, "recog", R) >= 1
    BY <2>4, EnteredSome
  <2> QED
    BY <1>1, <1>2, <2>3, <2>5
<1>6. \A x \in Krefs : Held(t, x) = Held(s, x)
  BY DEF Held, ObjectGone
<1>7. \A x \in Krefs : \A how : x # k => Entered(t, x, how, R) = Entered(s, x, how, R)
  <2> TAKE x \in Krefs
  <2> TAKE how
  <2> HAVE x # k
  <2>1. \A v \in Vats : Weighs(s, v, x, how, R) <=> Weighs(t, v, x, how, R)
    BY DEF Weighs, Has, ObjectGone
  <2> QED
    BY <2>1, EnteredSame
<1>8. Balanced(t, E, R)
  <2> SUFFICES ASSUME NEW x \in Krefs
               PROVE  IF Exists(t, x)
                      THEN /\ Reached(t, x) = Held(t, x) + E[x] + Entered(t, x, "reach", R)
                           /\ Recognized(t, x) = Held(t, x) + E[x] + Entered(t, x, "recog", R)
                      ELSE Held(t, x) + E[x] + Entered(t, x, "recog", R) = 0
    BY DEF Balanced
  <2>1. CASE x = k
    <3>1. ~Exists(t, x)
      BY <1>1, <2>1 DEF Exists, ObjectGone
    <3>2. Held(t, x) = 0 /\ E[x] = 0
      BY <1>2, <1>6, <2>1
    <3>3. Entered(t, x, "recog", R) = 0
      BY <1>5, <2>1, EnteredNone
    <3> QED
      BY <3>1, <3>2, <3>3
  <2>2. CASE x # k
    <3>1. Exists(t, x) <=> Exists(s, x)
      BY <2>2 DEF Exists, ObjectGone
    <3>2. Exists(s, x) => Reached(t, x) = Reached(s, x) /\ Recognized(t, x) = Recognized(s, x)
      BY <1>1, <2>2, ExistsIs DEF Reached, Recognized, ObjectGone
    <3>3. IF Exists(s, x)
          THEN /\ Reached(s, x) = Held(s, x) + E[x] + Entered(s, x, "reach", R)
               /\ Recognized(s, x) = Held(s, x) + E[x] + Entered(s, x, "recog", R)
          ELSE Held(s, x) + E[x] + Entered(s, x, "recog", R) = 0
      BY DEF Sound, Balanced
    <3> QED
      BY <1>6, <1>7, <2>2, <3>1, <3>2, <3>3
  <2> QED
    BY <2>1, <2>2
<1>9. Fresh(t)
  BY DEF Sound, Fresh, ObjectGone
<1>10. ExportsOwned(t)
  <2> SUFFICES ASSUME NEW w \in Vats, NEW x \in Objects
               PROVE  Has(t, w, x) /\ t.clist[w][x].dir = "export" <=>
                          x \in DOMAIN t.object /\ t.object[x].owner = w
    BY DEF ExportsOwned
  <2>1. CASE x = k
    <3>1. x \notin DOMAIN t.object
      BY <2>1 DEF ObjectGone
    <3>2. ~(Has(t, w, x) /\ t.clist[w][x].dir = "export")
      BY <1>3, <2>1 DEF Has, ObjectGone
    <3> QED
      BY <3>1, <3>2
  <2>2. CASE x # k
    BY <2>2 DEF Sound, ExportsOwned, Has, ObjectGone
  <2> QED
    BY <2>1, <2>2
<1>11. FlagsReach(t)
  <2> SUFFICES ASSUME NEW w \in Vats, NEW x \in Objects, Has(t, w, x), t.clist[w][x].reach
               PROVE  x \in DOMAIN t.object
    BY DEF FlagsReach
  <2>1. x # k
    BY <1>4 DEF Has, ObjectGone
  <2> QED
    BY <2>1 DEF Sound, FlagsReach, Has, ObjectGone
<1>12. RetiredIsGone(t, R)
  <2> SUFFICES ASSUME NEW w \in Vats, NEW x \in Objects, Retiring(t, w, x) \/ <<w, x>> \in R
               PROVE  x \notin DOMAIN t.object /\ x < t.nextObject
    BY DEF RetiredIsGone
  <2>1. CASE x = k
    BY <1>1, <2>1 DEF ObjectGone, Sound, Fresh
  <2>2. CASE x # k
    BY <2>2 DEF ObjectGone, Sound, RetiredIsGone
  <2> QED
    BY <2>1, <2>2
<1>13. DeadAreEmpty(t)
  BY DEF Sound, DeadAreEmpty, IsTerminated, ObjectGone
<1>14. Lasts(s, t)
  <2>1. t.nextPromise = s.nextPromise /\ s.nextPromise \in Nat /\ t.configured = s.configured
        /\ t.promise = s.promise
    BY <1>1, StoreFields DEF ObjectGone
  <2> QED
    BY <2>1 DEF Lasts, Stands
<1>15. Sound(t, E, R)
  BY <1>1, <1>8, <1>9, <1>10, <1>11, <1>12, <1>13 DEF Sound, ObjectGone
<1> QED
  BY <1>14, <1>15

(* DropOrphan does just that.                                              *)
LEMMA DropOrphanIs ==
    ASSUME NEW s \in Stores, NEW k \in DOMAIN s.object
    PROVE  ObjectGone(s, DropOrphan(s, k), k)
<1> DEFINE d == DeleteKernelObject(s, k)
           more == {GCAction(v, "retireImport", k) : v \in Importers(s, k)}
<1>1. k \in Objects /\ s.object \in Tables(Objects, ObjectRows) /\ s.object[k] \in ObjectRows
  BY StoreFields, StoreIs
<1>2. d.object = [x \in DOMAIN s.object \ {k} |-> s.object[x]] /\ d = [s EXCEPT !.object = d.object]
  BY DEF DeleteKernelObject, Stores
<1>3. d.object \in Tables(Objects, ObjectRows)
  <2> DEFINE f == s.object
  <2>1. f \in Tables(Objects, ObjectRows) /\ k \in Objects /\ f[k] \in ObjectRows
    BY <1>1
  <2> HIDE DEF f
  <2>2. \A y \in ObjectRows : [x \in DOMAIN f \ {k} |-> f[x]] \in Tables(Objects, ObjectRows)
    BY <2>1, TableChanges
  <2>3. [x \in DOMAIN f \ {k} |-> f[x]] \in Tables(Objects, ObjectRows)
    BY <2>1, <2>2
  <2> QED
    BY <1>2, <2>3 DEF f
<1>4. d \in Stores
  BY <1>2, <1>3, StoreChanges
<1>5. /\ d.promise = s.promise /\ d.clist = s.clist /\ d.pins = s.pins
      /\ d.run = s.run /\ d.buffer = s.buffer /\ d.failed = s.failed
      /\ d.terminated = s.terminated /\ d.configured = s.configured
      /\ d.nextObject = s.nextObject /\ d.nextPromise = s.nextPromise /\ d.actions = s.actions
  BY DEF DeleteKernelObject, Stores
<1>6. DOMAIN d.object = DOMAIN s.object \ {k} /\ \A x \in DOMAIN d.object : d.object[x] = s.object[x]
  BY <1>2
<1> HIDE DEF d
<1>7. CASE s.object[k].recog > 0
  <2> DEFINE u == [d EXCEPT !.actions = @ \cup more]
  <2>1. DropOrphan(s, k) = u
    BY <1>7 DEF DropOrphan, RetireKernelObject, d
  <2>2. \A v \in Importers(s, k) : GCAction(v, "retireImport", k)
            \in [vat : Vats, type : GCKinds, kref : Objects]
    BY <1>1 DEF Importers, GCAction, GCKinds
  <2>3. more \subseteq [vat : Vats, type : GCKinds, kref : Objects]
    BY <2>2
  <2> HIDE DEF more
  <2>4. d.actions \cup more \in SUBSET [vat : Vats, type : GCKinds, kref : Objects]
    BY <1>4, <2>3, StoreFields
  <2>5. u \in Stores
    BY <1>4, <2>4, StoreChanges
  <2>6. /\ u.promise = d.promise /\ u.clist = d.clist /\ u.pins = d.pins
        /\ u.run = d.run /\ u.buffer = d.buffer /\ u.failed = d.failed
        /\ u.terminated = d.terminated /\ u.configured = d.configured
        /\ u.nextObject = d.nextObject /\ u.nextPromise = d.nextPromise /\ u.object = d.object
        /\ u.actions = d.actions \cup more
    BY <1>4 DEF Stores
  <2> HIDE DEF u
  <2>7. \A v : \A x : Retiring(s, v, x) => Retiring(u, v, x)
    BY <1>5, <2>6 DEF Retiring
  <2>8. \A v : \A x : Retiring(u, v, x) /\ ~Retiring(s, v, x) => x = k /\ v \in Importers(s, k)
    BY <1>5, <2>6 DEF Retiring, more, GCAction
  <2>9. \A v \in Importers(s, k) : Retiring(u, v, k)
    BY <2>6 DEF Retiring, more
  <2> QED
    BY <1>5, <1>6, <2>1, <2>5, <2>6, <2>7, <2>8, <2>9 DEF ObjectGone
<1>8. CASE ~(s.object[k].recog > 0)
  <2>1. DropOrphan(s, k) = d
    BY <1>8 DEF DropOrphan, d
  <2> QED
    BY <1>4, <1>5, <1>6, <1>8, <2>1 DEF ObjectGone, Retiring
<1> QED
  BY <1>7, <1>8

LEMMA CollectObjectIsSound ==
    ASSUME NEW E \in Loans, NEW R, NEW s, Sound(s, E, R), NEW k \in Objects
    PROVE  Outcome(s, CollectObject(s, k), E, R)
<1> DEFINE v == s.object[k].owner
           u == CollectObject(s, k)
<1>1. s \in Stores /\ k \in Krefs /\ E \in Hands /\ s.failed = FALSE
  BY KrefsAre, LoansAreHands DEF Sound
<1>2. CASE k \notin DOMAIN s.object \/ s.object[k].reach > 0
  BY <1>1, <1>2, LastsSelf DEF CollectObject, Outcome
<1>3. CASE k \in DOMAIN s.object /\ ~(s.object[k].reach > 0)
  <2>1. s.object[k].reach = 0 /\ v \in Vats \cup {NoOne}
    BY <1>1, <1>3, StoreIs DEF ObjectRows
  <2>2. CASE v = NoOne
    <3>1. u = DropOrphan(s, k)
      BY <1>3, <2>2 DEF CollectObject
    <3>2. ObjectGone(s, DropOrphan(s, k), k)
      BY <1>1, <1>3, DropOrphanIs
    <3> HIDE DEF u
    <3>3. Sound(u, E, R) /\ Lasts(s, u)
      BY <1>3, <2>1, <2>2, <3>1, <3>2, ObjectGoneIsSound
    <3> QED
      BY <3>3 DEF Outcome, u
  <2>3. CASE v # NoOne
    <3>1. v \in Vats /\ Has(s, v, k) /\ s.clist[v][k].dir = "export"
      BY <1>3, <2>1, <2>3 DEF Sound, ExportsOwned
    <3>2. CASE IsTerminated(s, v)
      <4> DEFINE z == ForgetEntry(s, v, k)
                 y == Orphan(z, k)
      <4>1. u = DropOrphan(z, k)
        BY <1>3, <2>3, <3>1, <3>2 DEF CollectObject
      <4> HIDE DEF u, v, z
      <4>2. Forgotten(s, z, v, k)
        BY <1>1, <3>1, ForgottenIs DEF z
      <4>3. z \in Stores /\ z.object = s.object /\ k \in DOMAIN z.object
        BY <1>3, <4>2 DEF Forgotten, SameCounts
      <4>4. /\ y \in Stores /\ Frame(z, y) /\ y.failed = z.failed /\ y.promise = z.promise
            /\ y.clist = z.clist /\ DOMAIN y.object = DOMAIN z.object
            /\ \A x \in DOMAIN z.object : x # k => y.object[x] = z.object[x]
            /\ y.object[k].owner = NoOne
            /\ y.object[k].reach = z.object[k].reach /\ y.object[k].recog = z.object[k].recog
        BY <4>3, OrphanIs
      <4> HIDE DEF y
      <4>5. Disowned(s, y, v, k)
        BY <4>2, <4>4 DEF Disowned, Forgotten, Frame, SameCounts, Has
      <4>6. Sound(y, E, R) /\ Steady(s, y)
        BY <1>1, <3>1, <4>5, DisownedIsSound
      <4>7. ObjectGone(z, u, k)
        BY <4>1, <4>3, DropOrphanIs
      <4>8. ObjectGone(y, u, k)
        <5>1. Importers(y, k) = Importers(z, k)
          BY <4>4 DEF Importers, Has
        <5>2. \A w : \A x : Retiring(y, w, x) <=> Retiring(z, w, x)
          BY <4>4 DEF Retiring, Frame
        <5> QED
          BY <4>4, <4>7, <5>1, <5>2 DEF ObjectGone, Frame
      <4>9. k \in DOMAIN y.object /\ y.object[k].reach = 0 /\ y.object[k].owner = NoOne
        BY <2>1, <4>3, <4>4
      <4>10. Sound(u, E, R) /\ Lasts(y, u)
        BY <4>6, <4>8, <4>9, ObjectGoneIsSound
      <4>11. Lasts(s, u)
        BY <1>1, <4>4, <4>6, <4>10, SteadyLasts, LastsJoins DEF Sound
      <4> QED
        BY <4>10, <4>11 DEF Outcome, u
    <3>3. CASE ~IsTerminated(s, v)
      <4> DEFINE a == IF s.clist[v][k].reach THEN {GCAction(v, "dropExport", k)} ELSE {}
                 b == IF s.object[k].recog = 0 THEN {GCAction(v, "retireExport", k)} ELSE {}
      <4>1. u = [s EXCEPT !.actions = @ \cup a \cup b]
        BY <1>3, <2>3, <3>1, <3>3 DEF CollectObject, AskOwner
      <4>2. /\ GCAction(v, "dropExport", k) \in [vat : Vats, type : GCKinds, kref : Objects]
            /\ GCAction(v, "retireExport", k) \in [vat : Vats, type : GCKinds, kref : Objects]
        BY <3>1 DEF GCAction, GCKinds
      <4>3. \A x \in a \cup b : x \in [vat : Vats, type : GCKinds, kref : Objects]
                                /\ x.type # "retireImport"
        BY <4>2 DEF GCAction
      <4> HIDE DEF a, b
      <4>4. s.actions \cup a \cup b \in SUBSET [vat : Vats, type : GCKinds, kref : Objects]
        BY <1>1, <4>3, StoreFields
      <4>5. u \in Stores
        BY <1>1, <4>1, <4>4, StoreChanges
      <4>6. /\ u.object = s.object /\ u.clist = s.clist /\ u.pins = s.pins
            /\ u.run = s.run /\ u.buffer = s.buffer /\ u.failed = s.failed
            /\ u.terminated = s.terminated /\ u.configured = s.configured
            /\ u.nextObject = s.nextObject /\ u.nextPromise = s.nextPromise
            /\ u.promise = s.promise
            /\ u.actions = s.actions \cup a \cup b
        BY <1>1, <4>1 DEF Stores
      <4> HIDE DEF u
      <4>7. \A w : \A x : Retiring(u, w, x) <=> Retiring(s, w, x)
        <5> TAKE w
        <5> TAKE x
        <5>1. GCAction(w, "retireImport", x) \notin a \cup b
          BY <4>3 DEF GCAction
        <5> QED
          BY <4>6, <5>1 DEF Retiring
      <4>8. Quiet(s, u)
        BY <4>5, <4>6, <4>7 DEF Quiet, SameRows
      <4>9. Sound(u, E, R) /\ Steady(s, u)
        BY <1>1, <4>8, QuietIsSound
      <4> QED
        BY <4>9, SteadyLasts DEF Outcome, u
    <3> QED
      BY <3>2, <3>3
  <2> QED
    BY <2>2, <2>3
<1> QED
  BY <1>2, <1>3

(* What a collection does with its nth candidate.                          *)
CollectNext(t, n) ==
    IF t.failed \/ n > Len(t.free) THEN t
    ELSE IF IsPromise(t.free[n]) THEN CollectPromise(t, t.free[n])
    ELSE CollectObject(t, t.free[n])

(* The stores that a collection goes through. *)
CollectRun(h, s) ==
    /\ h[0] = s /\ CollectGarbage(s) = [h[MaxObjects + MaxPromises] EXCEPT !.free = <<>>]
    /\ \A n \in 1 .. MaxObjects + MaxPromises : h[n] = CollectNext(h[n - 1], n)

LEMMA CollectRuns ==
    ASSUME NEW s, MaxObjects + MaxPromises \in Nat
    PROVE  \E h : CollectRun(h, s)
<1> DEFINE Solves(h, m) == h = [n \in 0 .. m |-> IF n = 0 THEN s
                                   ELSE CollectNext(h[n - 1], n)]
           S == {m \in Nat : \E h : Solves(h, m)}
<1>1. 0 \in S
  <2>1. Solves([n \in 0 .. 0 |-> s], 0)
    OBVIOUS
  <2> QED
    BY <2>1
<1>2. ASSUME NEW m \in Nat, m \in S PROVE m + 1 \in S
  <2>1. PICK h : Solves(h, m)
    BY <1>2
  <2> DEFINE x == CollectNext(h[m], m + 1)
             g == [n \in 0 .. m + 1 |-> IF n = m + 1 THEN x ELSE h[n]]
  <2>2. /\ g[m + 1] = x /\ \A n \in 0 .. m : g[n] = h[n]
        /\ g = [n \in 0 .. m + 1 |-> g[n]]
    OBVIOUS
  <2>3. \A n \in 0 .. m : h[n] = IF n = 0 THEN s ELSE CollectNext(h[n - 1], n)
    BY <2>1
  <2> HIDE DEF g
  <2>4. ASSUME NEW n \in 0 .. m + 1
        PROVE  g[n] = IF n = 0 THEN s ELSE CollectNext(g[n - 1], n)
    <3>1. CASE n = m + 1
      <4>1. n - 1 = m /\ g[m] = h[m] /\ n # 0
        BY <2>2, <3>1, SMTT(30)
      <4> QED
        BY <2>2, <3>1, <4>1
    <3>2. CASE n \in 0 .. m
      <4>1. g[n] = h[n] /\ (n # 0 => g[n - 1] = h[n - 1])
        <5>1. n # 0 => n - 1 \in 0 .. m
          BY <3>2
        <5> QED
          BY <2>2, <3>2, <5>1
      <4> QED
        BY <2>3, <3>2, <4>1
    <3> QED
      BY <3>1, <3>2
  <2>5. Solves(g, m + 1)
    BY <2>2, <2>4
  <2> HIDE DEF Solves
  <2> QED
    BY <2>5
<1>3. Nat \subseteq S
  <2> HIDE DEF S
  <2> QED
    BY <1>1, <1>2, SetInduction
<1> DEFINE h == CHOOSE h : Solves(h, MaxObjects + MaxPromises)
<1>4. Solves(h, MaxObjects + MaxPromises)
  <2> HIDE DEF Solves
  <2> QED
    BY <1>3
<1>5. CollectGarbage(s) = [h[MaxObjects + MaxPromises] EXCEPT !.free = <<>>]
  BY DEF CollectGarbage, CollectNext
<1> HIDE DEF h
<1>6. \A n \in 0 .. MaxObjects + MaxPromises : h[n] = IF n = 0 THEN s ELSE CollectNext(h[n - 1], n)
  BY <1>4
<1>7. CollectRun(h, s)
  BY <1>5, <1>6 DEF CollectRun
<1> QED
  BY <1>7

LEMMA OutcomeJoins ==
    ASSUME NEW s \in Stores, NEW t \in Stores, Lasts(s, t), NEW u, NEW F, NEW Q,
           Outcome(t, u, F, Q)
    PROVE  Outcome(s, u, F, Q)
  BY LastsJoins DEF Outcome, Sound

(* No candidates left.                                                     *)
LEMMA FreeIsSound ==
    ASSUME NEW E \in Hands, NEW R, NEW s, Sound(s, E, R), NEW t, t = [s EXCEPT !.free = <<>>]
    PROVE  Sound(t, E, R) /\ Lasts(s, t)
<1>1. s \in Stores
  BY DEF Sound
<1>2. t \in Stores
  <2>1. <<>> \in Seq(Krefs)
    OBVIOUS
  <2>2. [s EXCEPT !.free = <<>>] \in Stores
    BY <1>1, <2>1, StoreChanges
  <2> QED
    BY <2>2
<1>3. /\ t.object = s.object /\ t.clist = s.clist /\ t.pins = s.pins /\ t.promise = s.promise
      /\ t.run = s.run /\ t.buffer = s.buffer /\ t.failed = s.failed
      /\ t.terminated = s.terminated /\ t.configured = s.configured
      /\ t.nextObject = s.nextObject /\ t.nextPromise = s.nextPromise /\ t.actions = s.actions
  BY <1>1 DEF Stores
<1>4. Quiet(s, t)
  BY <1>2, <1>3 DEF Quiet, SameRows, Retiring
<1> QED
  BY <1>4, QuietIsSound, SteadyLasts

LEMMA CollectNextIsSound ==
    ASSUME NEW E \in Loans, NEW R, NEW s \in Stores, NEW t, Outcome(s, t, E, R), NEW n \in Nat \ {0}
    PROVE  Outcome(s, CollectNext(t, n), E, R)
<1>1. t \in Stores
  BY DEF Outcome, Sound
<1>2. CASE t.failed \/ n > Len(t.free)
  BY <1>2 DEF CollectNext
<1>3. CASE ~t.failed /\ ~(n > Len(t.free))
  <2>1. t.free \in Seq(Krefs)
    BY <1>1, StoreFields
  <2>2. t.free[n] \in Krefs
    BY <1>3, <2>1
  <2>3. Sound(t, E, R) /\ Lasts(s, t)
    BY <1>3 DEF Outcome
  <2> DEFINE k == t.free[n]
  <2>4. CollectNext(t, n) = IF IsPromise(k) THEN CollectPromise(t, k) ELSE CollectObject(t, k)
    BY <1>3 DEF CollectNext
  <2> HIDE DEF k
  <2>5. CASE IsPromise(k)
    <3>1. Outcome(t, CollectPromise(t, k), E, R)
      BY <2>2, <2>3, <2>5, KrefsAre, CollectPromiseIsSound DEF k
    <3> QED
      BY <1>1, <2>3, <2>4, <2>5, <3>1, OutcomeJoins
  <2>6. CASE ~IsPromise(k)
    <3>1. Outcome(t, CollectObject(t, k), E, R)
      BY <2>2, <2>3, <2>6, KrefsAre, CollectObjectIsSound DEF k
    <3> QED
      BY <1>1, <2>3, <2>4, <2>6, <3>1, OutcomeJoins
  <2> QED
    BY <2>5, <2>6
<1> QED
  BY <1>2, <1>3

LEMMA CollectGarbageIsSound ==
    ASSUME NEW E \in Loans, NEW R, NEW s \in Stores, NEW t, Outcome(s, t, E, R)
    PROVE  Outcome(s, CollectGarbage(t), E, R)
<1> DEFINE N == MaxObjects + MaxPromises
<1>1. N \in Nat
  BY KrefsAre
<1>2. PICK h : CollectRun(h, t)
  BY <1>1, CollectRuns
<1> DEFINE S == {n \in Nat : n <= N => Outcome(s, h[n], E, R)}
<1>3. 0 \in S
  BY <1>2 DEF CollectRun
<1>4. ASSUME NEW n \in Nat, n \in S PROVE n + 1 \in S
  <2> SUFFICES ASSUME n + 1 <= N PROVE Outcome(s, h[n + 1], E, R)
    OBVIOUS
  <2>1. Outcome(s, h[n], E, R) /\ n + 1 \in 1 .. N /\ (n + 1) - 1 = n /\ n + 1 \in Nat \ {0}
    BY <1>1, <1>4
  <2>2. h[n + 1] = CollectNext(h[n], n + 1)
    BY <1>2, <2>1 DEF CollectRun
  <2> QED
    BY <2>1, <2>2, CollectNextIsSound
<1>5. Nat \subseteq S
  <2> HIDE DEF S
  <2> QED
    BY <1>3, <1>4, SetInduction
<1> DEFINE u == h[N]
<1>6. Outcome(s, u, E, R)
  BY <1>1, <1>5
<1>7. CollectGarbage(t) = [u EXCEPT !.free = <<>>]
  BY <1>2 DEF CollectRun
<1> HIDE DEF u
<1>8. CASE u.failed /\ u \in Stores
  <2>1. [u EXCEPT !.free = <<>>] \in Stores
    <3>1. <<>> \in Seq(Krefs)
      OBVIOUS
    <3> QED
      BY <1>8, <3>1, StoreChanges
  <2>2. [u EXCEPT !.free = <<>>].failed
    BY <1>8 DEF Stores
  <2> QED
    BY <1>7, <2>1, <2>2 DEF Outcome
<1>9. CASE Sound(u, E, R) /\ Lasts(s, u)
  <2>1. E \in Hands
    BY LoansAreHands
  <2>2. Sound(CollectGarbage(t), E, R) /\ Lasts(u, CollectGarbage(t))
    BY <1>7, <1>9, <2>1, FreeIsSound
  <2> QED
    BY <1>9, <2>2, LastsJoins DEF Outcome, Sound
<1> QED
  BY <1>6, <1>8, <1>9 DEF Outcome

-----------------------------------------------------------------------------
(* The death of a vat.                                                     *)

LEMMA ContainsEnds ==
    ASSUME NEW X, NEW seq \in Seq(X), NEW x
    PROVE  /\ \A y \in X : Contains(Append(seq, y), x) <=> Contains(seq, x) \/ x = y
           /\ seq # <<>> => (Contains(seq, x) <=> x = Head(seq) \/ Contains(Tail(seq), x))
<1>1. ASSUME NEW y \in X
      PROVE  Contains(Append(seq, y), x) <=> Contains(seq, x) \/ x = y
  <2> DEFINE n == Len(seq)
  <2>1. n \in Nat /\ Len(Append(seq, y)) = n + 1 /\ Append(seq, y)[n + 1] = y
        /\ \A i \in 1 .. n : Append(seq, y)[i] = seq[i]
    OBVIOUS
  <2>2. \A i \in 1 .. n + 1 : i \in 1 .. n \/ i = n + 1
    BY <2>1
  <2>3. \A i \in 1 .. n : i \in 1 .. n + 1
    BY <2>1
  <2>4. n + 1 \in 1 .. n + 1
    BY <2>1
  <2> HIDE DEF n
  <2> QED
    BY <2>1, <2>2, <2>3, <2>4 DEF Contains, n
<1>2. ASSUME seq # <<>>
      PROVE  Contains(seq, x) <=> x = Head(seq) \/ Contains(Tail(seq), x)
  <2> DEFINE n == Len(seq)
  <2>1. n \in Nat \ {0} /\ Len(Tail(seq)) = n - 1 /\ Head(seq) = seq[1]
        /\ \A i \in 1 .. n - 1 : Tail(seq)[i] = seq[i + 1]
    BY <1>2, HeadTailProperties, EmptySeq
  <2>2. \A i \in 1 .. n : i = 1 \/ (i - 1 \in 1 .. n - 1 /\ (i - 1) + 1 = i)
    BY <2>1
  <2>3. \A i \in 1 .. n - 1 : i + 1 \in 1 .. n
    BY <2>1
  <2>4. 1 \in 1 .. n
    BY <2>1
  <2>5. ASSUME Contains(seq, x) PROVE x = Head(seq) \/ Contains(Tail(seq), x)
    <3>1. PICK i \in 1 .. n : seq[i] = x
      BY <2>5 DEF Contains
    <3>2. CASE i = 1
      BY <2>1, <3>1, <3>2
    <3>3. CASE i - 1 \in 1 .. n - 1 /\ (i - 1) + 1 = i
      BY <2>1, <3>1, <3>3 DEF Contains
    <3> QED
      BY <2>2, <3>2, <3>3
  <2>6. ASSUME x = Head(seq) \/ Contains(Tail(seq), x) PROVE Contains(seq, x)
    BY <2>1, <2>3, <2>4, <2>6 DEF Contains
  <2> QED
    BY <2>5, <2>6
<1> QED
  BY <1>1, <1>2

(* A change in who lives.                                                  *)
Roster(s, t) ==
    /\ t \in Stores /\ t.object = s.object /\ t.clist = s.clist /\ t.pins = s.pins
    /\ t.run = s.run /\ t.buffer = s.buffer /\ t.failed = s.failed
    /\ t.promise = s.promise /\ t.actions = s.actions
    /\ t.nextObject = s.nextObject /\ t.nextPromise = s.nextPromise

LEMMA RosterIsSound ==
    ASSUME NEW E \in Hands, NEW R, NEW s, Sound(s, E, R), NEW t, Roster(s, t), DeadAreEmpty(t)
    PROVE  Sound(t, E, R) /\ Stands(s, t)
<1>1. s \in Stores /\ t \in Stores
  BY DEF Sound, Roster
<1>2. \A x \in Krefs : Held(t, x) = Held(s, x)
  BY DEF Held, Roster
<1>3. \A x : \A how : Entered(t, x, how, R) = Entered(s, x, how, R)
  <2> TAKE x
  <2> TAKE how
  <2>1. \A v \in Vats : Weighs(s, v, x, how, R) <=> Weighs(t, v, x, how, R)
    BY DEF Weighs, Has, Retiring, Roster
  <2> QED
    BY <2>1, EnteredSame
<1>4. Balanced(t, E, R)
  BY <1>2, <1>3 DEF Sound, Balanced, Exists, Reached, Recognized, Roster
<1>5. Fresh(t) /\ ExportsOwned(t) /\ FlagsReach(t)
  BY DEF Sound, Fresh, ExportsOwned, FlagsReach, Has, Roster
<1>6. RetiredIsGone(t, R)
  BY DEF Sound, RetiredIsGone, Retiring, Roster
<1>7. Stands(s, t)
  <2>1. t.nextPromise = s.nextPromise /\ t.promise = s.promise /\ s.nextPromise \in Nat
    BY <1>1, StoreFields DEF Roster
  <2> QED
    BY <2>1 DEF Stands
<1> QED
  BY <1>1, <1>4, <1>5, <1>6, <1>7 DEF Sound, Roster

LEMMA RootIs == \A v \in Vats : Root(v) \in Objects
  BY BoundsAreNaturals DEF Root, Vats, Objects

Unpinned(s, t, k) == t = [s EXCEPT !.pins[k] = @ - 1]

LEMMA UnpinIsSound ==
    ASSUME NEW E \in Loans, NEW R, NEW s, Sound(s, E, R), NEW k \in Objects
    PROVE  Sound(Unpin(s, k), E, R) /\ Steady(s, Unpin(s, k))
<1>1. s \in Stores /\ s.failed = FALSE /\ E \in Hands /\ k \in Krefs /\ ~IsPromise(k)
      /\ s.pins \in [Objects -> Nat]
  BY KrefsAre, LoansAreHands, StoreFields DEF Sound
<1>2. CASE s.pins[k] = 0
  BY <1>1, <1>2, SteadySelf DEF Unpin
<1>3. CASE s.pins[k] # 0
  <2> DEFINE n == s.pins[k] - 1
             t == [s EXCEPT !.pins[k] = @ - 1]
             F == [x \in Krefs |-> E[x] + (IF x = k THEN 1 ELSE 0)]
             u == Unpin(s, k)
  <2>1. n \in Nat /\ s.pins[k] = n + 1
    <3>1. s.pins[k] \in Nat
      BY <1>1
    <3> QED
      BY <1>3, <3>1
  <2>2. u = Release(t, k)
    BY <1>1, <1>3 DEF Unpin
  <2>3. t.pins = [s.pins EXCEPT ![k] = n] /\ t = [s EXCEPT !.pins = t.pins]
    BY <1>1 DEF Stores
  <2> HIDE DEF n
  <2>4. t.pins \in [Objects -> Nat] /\ t.pins[k] = n /\ \A x \in Objects : x # k => t.pins[x] = s.pins[x]
    BY <1>1, <2>1, <2>3
  <2>5. /\ t.object = s.object /\ t.clist = s.clist /\ t.promise = s.promise
        /\ t.run = s.run /\ t.buffer = s.buffer /\ t.failed = s.failed
        /\ t.terminated = s.terminated /\ t.configured = s.configured /\ t.actions = s.actions
        /\ t.nextObject = s.nextObject /\ t.nextPromise = s.nextPromise
    BY <1>1 DEF Stores
  <2> HIDE DEF t, u
  <2>6. t \in Stores
    BY <1>1, <2>3, <2>4, StoreChanges
  <2>7. Passes(s, t)
    BY <2>5, <2>6 DEF Passes, Retiring
  <2>8. F \in Hands
    <3>1. \A x \in Krefs : E[x] + (IF x = k THEN 1 ELSE 0) \in Int
      BY <1>1 DEF Hands
    <3> QED
      BY <3>1 DEF Hands
  <2>9. ASSUME NEW x \in Krefs PROVE Held(t, x) + F[x] = Held(s, x) + E[x]
    <3> DEFINE a == UsesInItems(s.run, x)
               b == UsesInItems(s.buffer, x)
               c == UsesInPromises(s.promise, x)
               d == IF IsPromise(x) THEN 0 ELSE s.pins[x]
               g == IF IsPromise(x) THEN 0 ELSE t.pins[x]
               e == E[x]
    <3>1. a \in Nat /\ b \in Nat /\ c \in Nat /\ d \in Nat /\ Held(s, x) = a + b + c + d
      BY <1>1, HeldType DEF Held
    <3>2. g \in Nat /\ Held(t, x) = a + b + c + g
      BY <2>5, <2>6, HeldType DEF Held
    <3>3. e \in Int /\ F[x] = e + (IF x = k THEN 1 ELSE 0)
      BY <1>1 DEF Hands
    <3>4. d = g + (IF x = k THEN 1 ELSE 0)
      <4>1. CASE x = k
        BY <1>1, <2>1, <2>4, <4>1
      <4>2. CASE x # k /\ ~IsPromise(x)
        BY <2>4, <3>2, <4>2, KrefsAre
      <4>3. CASE IsPromise(x)
        BY <1>1, <4>3
      <4> QED
        BY <4>1, <4>2, <4>3
    <3> HIDE DEF a, b, c, d, e, g, F
    <3>5. Held(t, x) + F[x] = Held(s, x) + e
      BY <3>1, <3>2, <3>3, <3>4
    <3> QED
      BY <3>5 DEF e
  <2>10. Stands(s, t)
    <3>1. s.nextPromise \in Nat
      BY <1>1, StoreFields
    <3> QED
      BY <2>5, <3>1 DEF Stands
  <2>11. F[k] = E[k] + 1 /\ E[k] \in Nat /\ \A x \in Krefs : E[x] = F[x] + (IF x = k THEN -1 ELSE 0)
    <3>1. \A x \in Krefs : E[x] \in Nat
      BY DEF Loans
    <3> QED
      BY <1>1, <3>1
  <2> HIDE DEF F
  <2>12. Sound(t, F, R) /\ Steady(s, t)
    BY <1>1, <2>7, <2>8, <2>9, <2>10, PassesIsSound
  <2>13. Held(t, k) + F[k] >= 1
    <3>1. Held(t, k) \in Nat
      BY <1>1, <2>6, HeldType
    <3> QED
      BY <2>11, <3>1
  <2>14. Shifts(F, E, k, -1)
    BY <1>1, <2>8, <2>11 DEF Shifts
  <2>15. Recount(t, u) /\ Sound(u, E, R)
    BY <1>1, <2>2, <2>12, <2>13, <2>14, ReleaseIsSound
  <2>16. Steady(s, u)
    BY <1>1, <2>6, <2>12, <2>15, RecountSteady, SteadyJoins DEF Sound
  <2> QED
    BY <2>15, <2>16 DEF u
<1> QED
  BY <1>2, <1>3

(* The stores that rejecting promises goes through. *)
RejectRun(h, s, v, ps) ==
    /\ h[0] = s /\ h[Len(ps)] = RejectAll(s, v, ps)
    /\ \A n \in 1 .. Len(ps) : h[n] = ResolvePromise(h[n - 1], v, ps[n], "rejected", <<>>, "immediate")

LEMMA RejectRuns ==
    ASSUME NEW s, NEW v, NEW ps, Len(ps) \in Nat
    PROVE  \E h : RejectRun(h, s, v, ps)
<1> DEFINE Solves(h, m) == h = [n \in 0 .. m |-> IF n = 0 THEN s
                                   ELSE ResolvePromise(h[n - 1], v, ps[n], "rejected", <<>>, "immediate")]
           S == {m \in Nat : \E h : Solves(h, m)}
<1>1. 0 \in S
  <2>1. Solves([n \in 0 .. 0 |-> s], 0)
    OBVIOUS
  <2> QED
    BY <2>1
<1>2. ASSUME NEW m \in Nat, m \in S PROVE m + 1 \in S
  <2>1. PICK h : Solves(h, m)
    BY <1>2
  <2> DEFINE x == ResolvePromise(h[m], v, ps[m + 1], "rejected", <<>>, "immediate")
             g == [n \in 0 .. m + 1 |-> IF n = m + 1 THEN x ELSE h[n]]
  <2>2. /\ g[m + 1] = x /\ \A n \in 0 .. m : g[n] = h[n]
        /\ g = [n \in 0 .. m + 1 |-> g[n]]
    OBVIOUS
  <2>3. \A n \in 0 .. m : h[n] = IF n = 0 THEN s ELSE ResolvePromise(h[n - 1], v, ps[n], "rejected", <<>>, "immediate")
    BY <2>1
  <2> HIDE DEF g
  <2>4. ASSUME NEW n \in 0 .. m + 1
        PROVE  g[n] = IF n = 0 THEN s ELSE ResolvePromise(g[n - 1], v, ps[n], "rejected", <<>>, "immediate")
    <3>1. CASE n = m + 1
      <4>1. n - 1 = m /\ g[m] = h[m] /\ n # 0
        BY <2>2, <3>1
      <4> QED
        BY <2>2, <3>1, <4>1
    <3>2. CASE n \in 0 .. m
      <4>1. g[n] = h[n] /\ (n # 0 => g[n - 1] = h[n - 1])
        <5>1. n # 0 => n - 1 \in 0 .. m
          BY <3>2
        <5> QED
          BY <2>2, <3>2, <5>1
      <4> QED
        BY <2>3, <3>2, <4>1
    <3> QED
      BY <3>1, <3>2
  <2>5. Solves(g, m + 1)
    BY <2>2, <2>4
  <2> HIDE DEF Solves
  <2> QED
    BY <2>5
<1>3. Nat \subseteq S
  <2> HIDE DEF S
  <2> QED
    BY <1>1, <1>2, SetInduction
<1> DEFINE h == CHOOSE h : Solves(h, Len(ps))
<1>4. Solves(h, Len(ps))
  <2> HIDE DEF Solves
  <2> QED
    BY <1>3
<1>5. RejectAll(s, v, ps) = h[Len(ps)]
  BY DEF RejectAll, Each
<1> HIDE DEF h
<1>6. \A n \in 0 .. Len(ps) : h[n] = IF n = 0 THEN s ELSE ResolvePromise(h[n - 1], v, ps[n], "rejected", <<>>, "immediate")
  BY <1>4
<1>7. RejectRun(h, s, v, ps)
  BY <1>5, <1>6 DEF RejectRun
<1> QED
  BY <1>7

(* Like Outcome, for what changes no more than Steady lets it.             *)
Result(s, t, E, R) ==
    \/ t \in Stores /\ t.failed
    \/ Sound(t, E, R) /\ Steady(s, t)

LEMMA RejectAllIsSound ==
    ASSUME NEW E \in Loans, NEW R, NEW s, Sound(s, E, R), NEW v, NEW ps, Len(ps) \in Nat
    PROVE  Result(s, RejectAll(s, v, ps), E, R)
<1>1. s \in Stores
  BY DEF Sound
<1>2. PICK h : RejectRun(h, s, v, ps)
  BY RejectRuns
<1> DEFINE S == {n \in Nat : n <= Len(ps) => Result(s, h[n], E, R)}
<1>3. 0 \in S
  BY <1>1, <1>2, SteadySelf DEF RejectRun, Result
<1>4. ASSUME NEW n \in Nat, n \in S PROVE n + 1 \in S
  <2> SUFFICES ASSUME n + 1 <= Len(ps) PROVE Result(s, h[n + 1], E, R)
    OBVIOUS
  <2>1. Result(s, h[n], E, R) /\ n + 1 \in 1 .. Len(ps) /\ (n + 1) - 1 = n
    BY <1>4
  <2> DEFINE t == h[n]
             u == h[n + 1]
             slots == <<>>
  <2>2. u = ResolvePromise(t, v, ps[n + 1], "rejected", slots, "immediate")
    BY <1>2, <2>1 DEF RejectRun
  <2>3. slots \in Seq(Krefs) /\ DOMAIN slots = {}
    OBVIOUS
  <2> HIDE DEF t, u, slots
  <2>4. CASE t \in Stores /\ t.failed
    <3>1. u = Raise(t)
      BY <2>2, <2>4 DEF ResolvePromise
    <3> QED
      BY <2>4, <3>1, RaiseIs DEF Result, u
  <2>5. CASE Sound(t, E, R) /\ Steady(s, t)
    <3>1. \A i \in DOMAIN slots : Exists(t, slots[i])
      BY <2>3
    <3>2. u = Raise(t) \/ (Sound(u, E, R) /\ Steady(t, u))
      BY <2>2, <2>3, <2>5, <3>1, ResolvePromiseIsSound
    <3>3. t \in Stores
      BY <2>5 DEF Sound
    <3>4. CASE u = Raise(t)
      BY <3>3, <3>4, RaiseIs DEF Result, u
    <3>5. CASE Sound(u, E, R) /\ Steady(t, u)
      <4>1. Steady(s, u)
        BY <1>1, <2>5, <3>3, <3>5, SteadyJoins DEF Sound
      <4> QED
        BY <3>5, <4>1 DEF Result, u
    <3> QED
      BY <3>2, <3>4, <3>5
  <2> QED
    BY <2>1, <2>4, <2>5 DEF Result, t
<1>5. Nat \subseteq S
  <2> HIDE DEF S
  <2> QED
    BY <1>3, <1>4, SetInduction
<1>6. Result(s, h[Len(ps)], E, R)
  BY <1>5
<1> QED
  BY <1>2, <1>6 DEF RejectRun

Ended(s, t, v) == t = [s EXCEPT !.terminated = Append(@, v), !.configured = @ \ {v}]

LEMMA EndedIs ==
    ASSUME NEW s \in Stores, NEW v \in Vats, NEW t, Ended(s, t, v)
    PROVE  /\ Roster(s, t) /\ t.terminated = Append(s.terminated, v)
           /\ t.configured = s.configured \ {v}
<1>1. Append(s.terminated, v) \in Seq(Vats) /\ s.configured \ {v} \in SUBSET Vats
  BY StoreFields
<1> DEFINE a == [s EXCEPT !.terminated = Append(s.terminated, v)]
<1>2. t = [a EXCEPT !.configured = s.configured \ {v}]
  BY DEF Ended, Stores
<1>3. a \in Stores
  BY <1>1, StoreChanges
<1>4. t \in Stores
  <2> HIDE DEF a
  <2> QED
    BY <1>1, <1>2, <1>3, StoreChanges
<1>5. t.terminated = Append(s.terminated, v) /\ t.configured = s.configured \ {v}
  BY DEF Ended, Stores
<1>6. /\ t.object = s.object /\ t.clist = s.clist /\ t.pins = s.pins
      /\ t.run = s.run /\ t.buffer = s.buffer /\ t.failed = s.failed
      /\ t.promise = s.promise /\ t.actions = s.actions
      /\ t.nextObject = s.nextObject /\ t.nextPromise = s.nextPromise
  BY DEF Ended, Stores
<1> QED
  BY <1>4, <1>5, <1>6 DEF Roster

LEMMA RetireVatIsSound ==
    ASSUME NEW E \in Loans, NEW R, NEW s, Sound(s, E, R), NEW v \in Vats
    PROVE  Outcome(s, RetireVat(s, v), E, R)
<1> DEFINE ps == InOrder(DecidedBy(s, v))
           a == RejectAll(s, v, ps)
           b == IF Has(s, v, Root(v)) THEN Unpin(a, Root(v)) ELSE a
           u == RetireVat(s, v)
<1>1. s \in Stores /\ E \in Hands
  BY LoansAreHands DEF Sound
<1>2. CASE v \notin s.configured
  BY <1>1, <1>2, LastsSelf DEF RetireVat, Outcome
<1>3. CASE v \in s.configured
  <2>1. u = [b EXCEPT !.terminated = Append(@, v), !.configured = @ \ {v}]
    BY <1>3 DEF RetireVat
  <2>2. Len(ps) \in Nat
    <3>1. DecidedBy(s, v) \in SUBSET (1 .. MaxObjects + MaxPromises) /\ MaxObjects + MaxPromises \in Nat
      BY <1>1, StoreIs, KrefsAre DEF DecidedBy
    <3> QED
      BY <3>1, InOrderIsSequence
  <2> HIDE DEF ps
  <2>3. Result(s, a, E, R)
    BY <2>2, RejectAllIsSound
  <2> HIDE DEF a
  <2>4. Result(s, b, E, R)
    <3>1. CASE a \in Stores /\ a.failed
      BY <3>1 DEF Unpin, Result
    <3>2. CASE Sound(a, E, R) /\ Steady(s, a)
      <4>1. Sound(Unpin(a, Root(v)), E, R) /\ Steady(a, Unpin(a, Root(v)))
        BY <3>2, RootIs, UnpinIsSound
      <4>2. Steady(s, Unpin(a, Root(v)))
        BY <1>1, <3>2, <4>1, SteadyJoins DEF Sound
      <4> QED
        BY <3>2, <4>1, <4>2 DEF Result
    <3> QED
      BY <2>3, <3>1, <3>2 DEF Result
  <2> HIDE DEF b, u
  <2>5. b \in Stores
    BY <2>4 DEF Result, Sound
  <2>6. Roster(b, u) /\ u.terminated = Append(b.terminated, v) /\ u.configured = b.configured \ {v}
    BY <2>1, <2>5, EndedIs DEF Ended
  <2>7. CASE b.failed
    BY <2>6, <2>7 DEF Roster, Outcome, u
  <2>8. CASE Sound(b, E, R) /\ Steady(s, b)
    <3>1. DeadAreEmpty(u)
      <4> SUFFICES ASSUME NEW w \in Vats
                   PROVE  w \in u.configured \/ IsTerminated(u, w) \/ DOMAIN u.clist[w] = {}
        BY DEF DeadAreEmpty
      <4>1. w \in b.configured \/ IsTerminated(b, w) \/ DOMAIN b.clist[w] = {}
        BY <2>8 DEF Sound, DeadAreEmpty
      <4>2. IsTerminated(u, w) <=> IsTerminated(b, w) \/ w = v
        BY <2>5, <2>6, StoreFields, ContainsEnds DEF IsTerminated
      <4> QED
        BY <2>6, <4>1, <4>2 DEF Roster
    <3>2. Sound(u, E, R) /\ Stands(b, u)
      BY <1>1, <2>6, <2>8, <3>1, RosterIsSound
    <3>3. Lasts(s, u)
      <4>1. Lasts(b, u)
        BY <2>6, <3>2 DEF Lasts
      <4> QED
        BY <1>1, <2>5, <2>8, <3>2, <4>1, SteadyLasts, LastsJoins DEF Sound
    <3> QED
      BY <3>2, <3>3 DEF Outcome, u
  <2> QED
    BY <2>4, <2>7, <2>8 DEF Result
<1> QED
  BY <1>2, <1>3

-----------------------------------------------------------------------------
(* Many entries gone.                                                      *)
Distinct(ks) == \A i, j \in DOMAIN ks : ks[i] = ks[j] => i = j

(* The entries of a vat for the first n of ks are gone, and no others.     *)
Cleared(s, t, v, ks, n) ==
    /\ Steady(s, t) /\ Shrinks(s, t)
    /\ \A i \in 1 .. n : ~Has(t, v, ks[i])
    /\ \A w \in Vats : \A x : (w # v \/ \A i \in 1 .. n : ks[i] # x) => (Has(t, w, x) <=> Has(s, w, x))

LEMMA ClearedNone ==
    ASSUME NEW s \in Stores, NEW v, NEW ks
    PROVE  Cleared(s, s, v, ks, 0)
  BY SteadySelf DEF Cleared, Shrinks

LEMMA ClearedMore ==
    ASSUME NEW s \in Stores, NEW t \in Stores, NEW u \in Stores, NEW v \in Vats, NEW ks,
           NEW n \in Nat, Cleared(s, t, v, ks, n), Steady(t, u), Shrinks(t, u),
           ~Has(u, v, ks[n + 1]), Spares(t, u, v, ks[n + 1])
    PROVE  Cleared(s, u, v, ks, n + 1)
<1>1. Steady(s, u) /\ Shrinks(s, u)
  BY SteadyJoins, ShrinksJoins DEF Cleared
<1>2. \A i \in 1 .. n + 1 : ~Has(u, v, ks[i])
  <2> TAKE i \in 1 .. n + 1
  <2>1. CASE i = n + 1
    BY <2>1
  <2>2. CASE i \in 1 .. n
    BY <2>2 DEF Cleared, Shrinks
  <2> QED
    BY <2>1, <2>2
<1>3. \A w \in Vats : \A x : (w # v \/ \A i \in 1 .. n + 1 : ks[i] # x) => (Has(u, w, x) <=> Has(s, w, x))
  <2> TAKE w \in Vats
  <2> TAKE x
  <2> HAVE w # v \/ \A i \in 1 .. n + 1 : ks[i] # x
  <2>1. w # v \/ x # ks[n + 1]
    OBVIOUS
  <2>2. w # v \/ \A i \in 1 .. n : ks[i] # x
    OBVIOUS
  <2>3. Has(u, w, x) <=> Has(t, w, x)
    BY <2>1 DEF Spares
  <2>4. Has(t, w, x) <=> Has(s, w, x)
    BY <2>2 DEF Cleared
  <2> QED
    BY <2>3, <2>4
<1> QED
  BY <1>1, <1>2, <1>3 DEF Cleared

(* The next of ks is still there.                                          *)
LEMMA NextIsThere ==
    ASSUME NEW s \in Stores, NEW t, NEW v \in Vats, NEW ks, NEW n \in Nat, Distinct(ks),
           DOMAIN ks = 1 .. Len(ks), Len(ks) \in Nat, n + 1 <= Len(ks),
           Cleared(s, t, v, ks, n), Has(s, v, ks[n + 1])
    PROVE  Has(t, v, ks[n + 1]) /\ t.clist[v][ks[n + 1]].dir = s.clist[v][ks[n + 1]].dir
<1>1. \A i \in 1 .. n : ks[i] # ks[n + 1]
  <2> TAKE i \in 1 .. n
  <2>1. i \in DOMAIN ks /\ n + 1 \in DOMAIN ks /\ i # n + 1
    OBVIOUS
  <2> QED
    BY <2>1 DEF Distinct
<1>2. Has(t, v, ks[n + 1])
  BY <1>1 DEF Cleared
<1> QED
  BY <1>2 DEF Cleared, Shrinks

(* The stores that forgetting exports goes through. *)
ForgetRun(h, s, v, ks) ==
    /\ h[0] = s /\ h[Len(ks)] = ForgetExports(s, v, ks)
    /\ \A n \in 1 .. Len(ks) : h[n] = ForgetExport(h[n - 1], v, ks[n])

LEMMA ForgetRuns ==
    ASSUME NEW s, NEW v, NEW ks, Len(ks) \in Nat
    PROVE  \E h : ForgetRun(h, s, v, ks)
<1> DEFINE Solves(h, m) == h = [n \in 0 .. m |-> IF n = 0 THEN s
                                   ELSE ForgetExport(h[n - 1], v, ks[n])]
           S == {m \in Nat : \E h : Solves(h, m)}
<1>1. 0 \in S
  <2>1. Solves([n \in 0 .. 0 |-> s], 0)
    OBVIOUS
  <2> QED
    BY <2>1
<1>2. ASSUME NEW m \in Nat, m \in S PROVE m + 1 \in S
  <2>1. PICK h : Solves(h, m)
    BY <1>2
  <2> DEFINE x == ForgetExport(h[m], v, ks[m + 1])
             g == [n \in 0 .. m + 1 |-> IF n = m + 1 THEN x ELSE h[n]]
  <2>2. /\ g[m + 1] = x /\ \A n \in 0 .. m : g[n] = h[n]
        /\ g = [n \in 0 .. m + 1 |-> g[n]]
    OBVIOUS
  <2>3. \A n \in 0 .. m : h[n] = IF n = 0 THEN s ELSE ForgetExport(h[n - 1], v, ks[n])
    BY <2>1
  <2> HIDE DEF g
  <2>4. ASSUME NEW n \in 0 .. m + 1
        PROVE  g[n] = IF n = 0 THEN s ELSE ForgetExport(g[n - 1], v, ks[n])
    <3>1. CASE n = m + 1
      <4>1. n - 1 = m /\ g[m] = h[m] /\ n # 0
        BY <2>2, <3>1
      <4> QED
        BY <2>2, <3>1, <4>1
    <3>2. CASE n \in 0 .. m
      <4>1. g[n] = h[n] /\ (n # 0 => g[n - 1] = h[n - 1])
        <5>1. n # 0 => n - 1 \in 0 .. m
          BY <3>2
        <5> QED
          BY <2>2, <3>2, <5>1
      <4> QED
        BY <2>3, <3>2, <4>1
    <3> QED
      BY <3>1, <3>2
  <2>5. Solves(g, m + 1)
    BY <2>2, <2>4
  <2> HIDE DEF Solves
  <2> QED
    BY <2>5
<1>3. Nat \subseteq S
  <2> HIDE DEF S
  <2> QED
    BY <1>1, <1>2, SetInduction
<1> DEFINE h == CHOOSE h : Solves(h, Len(ks))
<1>4. Solves(h, Len(ks))
  <2> HIDE DEF Solves
  <2> QED
    BY <1>3
<1>5. ForgetExports(s, v, ks) = h[Len(ks)]
  BY DEF ForgetExports, Each
<1> HIDE DEF h
<1>6. \A n \in 0 .. Len(ks) : h[n] = IF n = 0 THEN s ELSE ForgetExport(h[n - 1], v, ks[n])
  BY <1>4
<1>7. ForgetRun(h, s, v, ks)
  BY <1>5, <1>6 DEF ForgetRun
<1> QED
  BY <1>7

(* The stores that deleting c-list entries goes through. *)
DeleteRun(h, s, v, ks) ==
    /\ h[0] = s /\ h[Len(ks)] = DeleteCListEntries(s, v, ks)
    /\ \A n \in 1 .. Len(ks) : h[n] = DeleteCListEntry(h[n - 1], v, ks[n])

LEMMA DeleteRuns ==
    ASSUME NEW s, NEW v, NEW ks, Len(ks) \in Nat
    PROVE  \E h : DeleteRun(h, s, v, ks)
<1> DEFINE Solves(h, m) == h = [n \in 0 .. m |-> IF n = 0 THEN s
                                   ELSE DeleteCListEntry(h[n - 1], v, ks[n])]
           S == {m \in Nat : \E h : Solves(h, m)}
<1>1. 0 \in S
  <2>1. Solves([n \in 0 .. 0 |-> s], 0)
    OBVIOUS
  <2> QED
    BY <2>1
<1>2. ASSUME NEW m \in Nat, m \in S PROVE m + 1 \in S
  <2>1. PICK h : Solves(h, m)
    BY <1>2
  <2> DEFINE x == DeleteCListEntry(h[m], v, ks[m + 1])
             g == [n \in 0 .. m + 1 |-> IF n = m + 1 THEN x ELSE h[n]]
  <2>2. /\ g[m + 1] = x /\ \A n \in 0 .. m : g[n] = h[n]
        /\ g = [n \in 0 .. m + 1 |-> g[n]]
    OBVIOUS
  <2>3. \A n \in 0 .. m : h[n] = IF n = 0 THEN s ELSE DeleteCListEntry(h[n - 1], v, ks[n])
    BY <2>1
  <2> HIDE DEF g
  <2>4. ASSUME NEW n \in 0 .. m + 1
        PROVE  g[n] = IF n = 0 THEN s ELSE DeleteCListEntry(g[n - 1], v, ks[n])
    <3>1. CASE n = m + 1
      <4>1. n - 1 = m /\ g[m] = h[m] /\ n # 0
        BY <2>2, <3>1
      <4> QED
        BY <2>2, <3>1, <4>1
    <3>2. CASE n \in 0 .. m
      <4>1. g[n] = h[n] /\ (n # 0 => g[n - 1] = h[n - 1])
        <5>1. n # 0 => n - 1 \in 0 .. m
          BY <3>2
        <5> QED
          BY <2>2, <3>2, <5>1
      <4> QED
        BY <2>3, <3>2, <4>1
    <3> QED
      BY <3>1, <3>2
  <2>5. Solves(g, m + 1)
    BY <2>2, <2>4
  <2> HIDE DEF Solves
  <2> QED
    BY <2>5
<1>3. Nat \subseteq S
  <2> HIDE DEF S
  <2> QED
    BY <1>1, <1>2, SetInduction
<1> DEFINE h == CHOOSE h : Solves(h, Len(ks))
<1>4. Solves(h, Len(ks))
  <2> HIDE DEF Solves
  <2> QED
    BY <1>3
<1>5. DeleteCListEntries(s, v, ks) = h[Len(ks)]
  BY DEF DeleteCListEntries, Each
<1> HIDE DEF h
<1>6. \A n \in 0 .. Len(ks) : h[n] = IF n = 0 THEN s ELSE DeleteCListEntry(h[n - 1], v, ks[n])
  BY <1>4
<1>7. DeleteRun(h, s, v, ks)
  BY <1>5, <1>6 DEF DeleteRun
<1> QED
  BY <1>7

LEMMA ForgetExportsIsSound ==
    ASSUME NEW ks \in Seq(Objects), Distinct(ks), NEW E \in Loans, NEW R, NEW s, Sound(s, E, R),
           NEW v \in Vats, \A i \in DOMAIN ks : Has(s, v, ks[i]) /\ s.clist[v][ks[i]].dir = "export"
    PROVE  LET u == ForgetExports(s, v, ks)
           IN  Sound(u, E, R) /\ Cleared(s, u, v, ks, Len(ks))
<1>1. s \in Stores /\ Len(ks) \in Nat /\ DOMAIN ks = 1 .. Len(ks) /\ E \in Hands
  BY LoansAreHands DEF Sound
<1>2. PICK h : ForgetRun(h, s, v, ks)
  BY <1>1, ForgetRuns
<1> DEFINE S == {n \in Nat : n <= Len(ks) => Sound(h[n], E, R) /\ Cleared(s, h[n], v, ks, n)}
<1>3. 0 \in S
  BY <1>1, <1>2, ClearedNone DEF ForgetRun
<1>4. ASSUME NEW n \in Nat, n \in S PROVE n + 1 \in S
  <2> SUFFICES ASSUME n + 1 <= Len(ks)
               PROVE  Sound(h[n + 1], E, R) /\ Cleared(s, h[n + 1], v, ks, n + 1)
    OBVIOUS
  <2> DEFINE t == h[n]
             u == h[n + 1]
             k == ks[n + 1]
  <2>1. Sound(t, E, R) /\ Cleared(s, t, v, ks, n)
    BY <1>1, <1>4
  <2>2. n + 1 \in 1 .. Len(ks) /\ (n + 1) - 1 = n /\ n + 1 \in DOMAIN ks /\ k \in Objects
    BY <1>1
  <2>3. u = ForgetExport(t, v, k)
    BY <1>2, <2>2 DEF ForgetRun
  <2> HIDE DEF t, u
  <2>4. Has(t, v, k) /\ t.clist[v][k].dir = s.clist[v][k].dir
    <3>1. Has(s, v, k)
      BY <2>2
    <3> QED
      BY <1>1, <2>1, <2>2, <3>1, NextIsThere
  <2>5. t.clist[v][k].dir = "export"
    BY <2>2, <2>4
  <2>6. /\ Sound(u, E, R) /\ Steady(t, u) /\ Shrinks(t, u)
        /\ ~Has(u, v, k) /\ Spares(t, u, v, k)
    <3> HIDE DEF k
    <3> QED
      BY <1>1, <2>1, <2>2, <2>3, <2>4, <2>5, ForgetExportIsSound
  <2>7. t \in Stores /\ u \in Stores
    BY <2>1, <2>6 DEF Sound
  <2>8. Cleared(s, u, v, ks, n + 1)
    BY <1>1, <2>1, <2>6, <2>7, ClearedMore
  <2> QED
    BY <2>6, <2>8 DEF u
<1>5. Nat \subseteq S
  <2> HIDE DEF S
  <2> QED
    BY <1>3, <1>4, SetInduction
<1>6. Sound(h[Len(ks)], E, R) /\ Cleared(s, h[Len(ks)], v, ks, Len(ks))
  BY <1>1, <1>5
<1> QED
  BY <1>2, <1>6 DEF ForgetRun

LEMMA DeleteCListEntriesIsSound ==
    ASSUME NEW ks \in Seq(Krefs), Distinct(ks), NEW E \in Loans, NEW R, NEW s, Sound(s, E, R),
           NEW v \in Vats, \A i \in DOMAIN ks : Has(s, v, ks[i]) /\ (IsPromise(ks[i]) \/ s.clist[v][ks[i]].dir = "import")
    PROVE  LET u == DeleteCListEntries(s, v, ks)
           IN  Sound(u, E, R) /\ Cleared(s, u, v, ks, Len(ks))
<1>1. s \in Stores /\ Len(ks) \in Nat /\ DOMAIN ks = 1 .. Len(ks) /\ E \in Hands
  BY LoansAreHands DEF Sound
<1>2. PICK h : DeleteRun(h, s, v, ks)
  BY <1>1, DeleteRuns
<1> DEFINE S == {n \in Nat : n <= Len(ks) => Sound(h[n], E, R) /\ Cleared(s, h[n], v, ks, n)}
<1>3. 0 \in S
  BY <1>1, <1>2, ClearedNone DEF DeleteRun
<1>4. ASSUME NEW n \in Nat, n \in S PROVE n + 1 \in S
  <2> SUFFICES ASSUME n + 1 <= Len(ks)
               PROVE  Sound(h[n + 1], E, R) /\ Cleared(s, h[n + 1], v, ks, n + 1)
    OBVIOUS
  <2> DEFINE t == h[n]
             u == h[n + 1]
             k == ks[n + 1]
  <2>1. Sound(t, E, R) /\ Cleared(s, t, v, ks, n)
    BY <1>1, <1>4
  <2>2. n + 1 \in 1 .. Len(ks) /\ (n + 1) - 1 = n /\ n + 1 \in DOMAIN ks /\ k \in Krefs
    BY <1>1
  <2>3. u = DeleteCListEntry(t, v, k)
    BY <1>2, <2>2 DEF DeleteRun
  <2> HIDE DEF t, u
  <2>4. Has(t, v, k) /\ t.clist[v][k].dir = s.clist[v][k].dir
    <3>1. Has(s, v, k)
      BY <2>2
    <3> QED
      BY <1>1, <2>1, <2>2, <3>1, NextIsThere
  <2>5. (IsPromise(k) \/ t.clist[v][k].dir = "import")
    BY <2>2, <2>4
  <2>6. /\ Sound(u, E, R) /\ Steady(t, u) /\ Shrinks(t, u)
        /\ ~Has(u, v, k) /\ Spares(t, u, v, k)
    <3> HIDE DEF k
    <3> QED
      BY <1>1, <2>1, <2>2, <2>3, <2>4, <2>5, DeleteCListEntryIsSound DEF Stripped
  <2>7. t \in Stores /\ u \in Stores
    BY <2>1, <2>6 DEF Sound
  <2>8. Cleared(s, u, v, ks, n + 1)
    BY <1>1, <2>1, <2>6, <2>7, ClearedMore
  <2> QED
    BY <2>6, <2>8 DEF u
<1>5. Nat \subseteq S
  <2> HIDE DEF S
  <2> QED
    BY <1>3, <1>4, SetInduction
<1>6. Sound(h[Len(ks)], E, R) /\ Cleared(s, h[Len(ks)], v, ks, Len(ks))
  BY <1>1, <1>5
<1> QED
  BY <1>2, <1>6 DEF DeleteRun

-----------------------------------------------------------------------------
(* Krefs put in order.                                                     *)
LEMMA KrefsInOrder ==
    ASSUME NEW S \in SUBSET Krefs
    PROVE  LET ks == InOrder(S)
           IN  /\ ks \in Seq(Krefs) /\ Distinct(ks) /\ DOMAIN ks = 1 .. Len(ks) /\ Len(ks) \in Nat
               /\ \A i \in DOMAIN ks : ks[i] \in S
               /\ \A x \in S : \E i \in 1 .. Len(ks) : ks[i] = x
               /\ S \subseteq Objects => ks \in Seq(Objects)
<1> DEFINE n == MaxObjects + MaxPromises
           ks == InOrder(S)
<1>1. n \in Nat /\ S \in SUBSET (1 .. n)
  BY KrefsAre
<1> HIDE DEF n
<1>2. /\ ks \in Seq(S) /\ Len(ks) \in Nat /\ DOMAIN ks = 1 .. Len(ks)
      /\ \A x \in S : \E i \in DOMAIN ks : ks[i] = x
  BY <1>1, InOrderIsSequence
<1>3. /\ ks \in [1 .. Cardinality(S) -> S]
      /\ \A i, j \in 1 .. Cardinality(S) : ks[i] = ks[j] => i = j
  BY <1>1, InOrderOrders
<1> HIDE DEF ks
<1>4. DOMAIN ks = 1 .. Cardinality(S)
  BY <1>3
<1>5. Distinct(ks)
  BY <1>3, <1>4 DEF Distinct
<1>6. \A i \in DOMAIN ks : ks[i] \in S
  BY <1>2
<1>7. ks \in Seq(Krefs)
  BY <1>2, <1>6
<1>8. S \subseteq Objects => ks \in Seq(Objects)
  BY <1>2, <1>6
<1> QED
  BY <1>2, <1>5, <1>6, <1>7, <1>8 DEF ks

(* A vat whose c-list is empty is no longer remembered.                    *)
Buried(s, t) == t = [s EXCEPT !.terminated = Tail(@)]

LEMMA BuriedIs ==
    ASSUME NEW s \in Stores, s.terminated # <<>>, NEW t, Buried(s, t)
    PROVE  Roster(s, t) /\ t.terminated = Tail(s.terminated) /\ t.configured = s.configured
<1>1. s.terminated \in Seq(Vats) /\ Tail(s.terminated) \in Seq(Vats)
  BY StoreFields
<1>2. t \in Stores
  BY <1>1, StoreChanges DEF Buried
<1>3. t.terminated = Tail(s.terminated)
  BY DEF Buried, Stores
<1>4. t.configured = s.configured
  BY DEF Buried, Stores
<1>5. t.object = s.object /\ t.clist = s.clist /\ t.pins = s.pins
  BY DEF Buried, Stores
<1>6. t.run = s.run /\ t.buffer = s.buffer /\ t.failed = s.failed
  BY DEF Buried, Stores
<1>7. t.promise = s.promise /\ t.actions = s.actions
  BY DEF Buried, Stores
<1>8. t.nextObject = s.nextObject /\ t.nextPromise = s.nextPromise
  BY DEF Buried, Stores
<1> QED
  BY <1>2, <1>3, <1>4, <1>5, <1>6, <1>7, <1>8 DEF Roster

(* Every member of A is in the sequence.                                   *)
Covers(ks, A) == \A x \in A : \E i \in 1 .. Len(ks) : ks[i] = x

(* Both kinds of entries of a vat are gone after both passes.              *)
LEMMA AllCleared ==
    ASSUME NEW s \in Stores, NEW t \in Stores, NEW u \in Stores, NEW v \in Vats,
           NEW a, NEW b, NEW A, NEW B, DOMAIN s.clist[v] \subseteq A \cup B,
           Covers(a, A), Covers(b, B),
           Cleared(s, t, v, a, Len(a)), Cleared(t, u, v, b, Len(b))
    PROVE  DOMAIN u.clist[v] = {}
<1> SUFFICES ASSUME NEW x \in DOMAIN u.clist[v]
             PROVE  FALSE
  OBVIOUS
<1>1. Has(u, v, x)
  BY DEF Has
<1>2. Has(t, v, x)
  BY <1>1 DEF Cleared, Shrinks
<1>3. x \in A \cup B
  BY <1>2 DEF Cleared, Shrinks, Has
<1>4. CASE x \in A
  BY <1>2, <1>4 DEF Cleared, Covers
<1>5. CASE x \in B
  BY <1>1, <1>5 DEF Cleared, Covers
<1> QED
  BY <1>3, <1>4, <1>5

LEMMA CleanupIsSound ==
    ASSUME NEW E \in Loans, NEW R, NEW s, Sound(s, E, R)
    PROVE  LET t == CleanupTerminatedVat(s)
           IN  /\ Sound(t, E, R) /\ Stands(s, t) /\ Shrinks(s, t) /\ t.configured = s.configured
<1>1. s \in Stores /\ E \in Hands
  BY LoansAreHands DEF Sound
<1>2. CASE s.terminated = <<>>
  <2>1. CleanupTerminatedVat(s) = s
    BY <1>2 DEF CleanupTerminatedVat
  <2>2. Steady(s, s) /\ Shrinks(s, s)
    BY <1>1, SteadySelf DEF Shrinks
  <2> QED
    BY <2>1, <2>2 DEF Steady
<1>3. CASE s.terminated # <<>>
  <2> DEFINE v == Head(s.terminated)
             entry == s.clist[v]
             exports == {k \in DOMAIN entry : ~IsPromise(k) /\ entry[k].dir = "export"}
             others == DOMAIN entry \ exports
             a == InOrder(exports)
             b == InOrder(others)
             t == ForgetExports(s, v, a)
             u == DeleteCListEntries(t, v, b)
             w == [u EXCEPT !.terminated = Tail(@)]
  <2>1. CleanupTerminatedVat(s) = IF u.failed THEN u ELSE w
    BY <1>3 DEF CleanupTerminatedVat
  <2>2. v \in Vats
    BY <1>1, <1>3, StoreFields
  <2> HIDE DEF v
  <2>3. DOMAIN entry \subseteq Krefs /\ \A k \in DOMAIN entry : entry[k] \in CListEntries
    BY <1>1, <2>2, StoreIs
  <2>4. \A k \in DOMAIN entry : ~IsPromise(k) => k \in Objects
    BY <2>3, KrefsAre
  <2>5. \A k \in DOMAIN entry : entry[k].dir \in {"import", "export"}
    BY <2>3 DEF CListEntries
  <2>6. exports \subseteq Objects /\ exports \in SUBSET Krefs /\ others \in SUBSET Krefs
    BY <2>3, <2>4
  <2>7. \A k \in exports : Has(s, v, k) /\ s.clist[v][k].dir = "export" /\ ~IsPromise(k)
    BY DEF Has
  <2>8. \A k \in others : k \notin exports /\ Has(s, v, k) /\ (IsPromise(k) \/ s.clist[v][k].dir = "import")
    BY <2>5 DEF Has
  <2>9. DOMAIN s.clist[v] \subseteq exports \cup others
    OBVIOUS
  <2> HIDE DEF entry, exports, others
  <2>10. /\ a \in Seq(Objects) /\ Distinct(a) /\ DOMAIN a = 1 .. Len(a)
         /\ \A i \in DOMAIN a : a[i] \in exports
         /\ Covers(a, exports)
    BY <2>6, KrefsInOrder DEF Covers
  <2>11. /\ b \in Seq(Krefs) /\ Distinct(b) /\ DOMAIN b = 1 .. Len(b)
         /\ \A i \in DOMAIN b : b[i] \in others
         /\ Covers(b, others)
    BY <2>6, KrefsInOrder DEF Covers
  <2> HIDE DEF a, b
  <2>12. Sound(t, E, R) /\ Cleared(s, t, v, a, Len(a))
    BY <2>2, <2>7, <2>10, ForgetExportsIsSound
  <2> HIDE DEF t
  <2>13. \A i \in DOMAIN b : Has(t, v, b[i]) /\ (IsPromise(b[i]) \/ t.clist[v][b[i]].dir = "import")
    <3> TAKE i \in DOMAIN b
    <3>1. b[i] \in others /\ \A j \in 1 .. Len(a) : a[j] # b[i]
      BY <2>8, <2>10, <2>11
    <3>2. Has(t, v, b[i])
      BY <2>2, <2>8, <2>12, <3>1 DEF Cleared
    <3>3. t.clist[v][b[i]].dir = s.clist[v][b[i]].dir
      BY <2>2, <2>12, <3>2 DEF Cleared, Shrinks
    <3> QED
      BY <2>8, <3>1, <3>2, <3>3
  <2>14. Sound(u, E, R) /\ Cleared(t, u, v, b, Len(b))
    BY <2>2, <2>11, <2>12, <2>13, DeleteCListEntriesIsSound
  <2> HIDE DEF u
  <2>15. t \in Stores /\ u \in Stores /\ u.failed = FALSE
    BY <2>12, <2>14 DEF Sound
  <2>16. DOMAIN u.clist[v] = {}
    BY <1>1, <2>2, <2>9, <2>10, <2>11, <2>12, <2>14, <2>15, AllCleared
  <2>17. Steady(s, u) /\ Shrinks(s, u)
    BY <1>1, <2>12, <2>14, <2>15, SteadyJoins, ShrinksJoins DEF Cleared
  <2>18. u.terminated = s.terminated /\ u.configured = s.configured
    BY <2>17 DEF Steady
  <2>19. Roster(u, w) /\ w.terminated = Tail(u.terminated) /\ w.configured = u.configured
    BY <1>3, <2>15, <2>18, BuriedIs DEF Buried
  <2> HIDE DEF w
  <2>20. DeadAreEmpty(w)
    <3>1. ASSUME NEW x \in Vats, ~(x \in w.configured), ~IsTerminated(w, x)
          PROVE  DOMAIN w.clist[x] = {}
      <4>1. DeadAreEmpty(u) /\ w.clist = u.clist
        BY <2>14, <2>19 DEF Sound, Roster
      <4>2. CASE x = v
        BY <2>16, <4>1, <4>2
      <4>3. CASE x # v
        <5>1. u.terminated \in Seq(Vats) /\ u.terminated # <<>> /\ v = Head(u.terminated)
          BY <1>3, <2>15, <2>18, StoreFields DEF v
        <5>2. ~Contains(u.terminated, x)
          BY <2>19, <3>1, <4>3, <5>1, ContainsEnds DEF IsTerminated
        <5> QED
          BY <2>19, <3>1, <4>1, <5>2 DEF DeadAreEmpty, IsTerminated
      <4> QED
        BY <4>2, <4>3
    <3> QED
      BY <3>1 DEF DeadAreEmpty
  <2>21. Sound(w, E, R) /\ Stands(u, w)
    BY <1>1, <2>14, <2>19, <2>20, RosterIsSound
  <2>22. Stands(s, w)
    BY <1>1, <2>15, <2>17, <2>21, StandsJoins DEF Steady, Sound
  <2>23. Shrinks(s, w)
    BY <2>17, <2>19 DEF Shrinks, Roster, Has
  <2> QED
    BY <2>1, <2>15, <2>18, <2>19, <2>21, <2>22, <2>23
<1> QED
  BY <1>2, <1>3

-----------------------------------------------------------------------------
(* What a crank takes.                                                     *)

LEMMA LeastExists ==
    ASSUME NEW S \in SUBSET Nat, S # {}
    PROVE  \E x \in S : \A y \in S : x <= y
<1> DEFINE R == OpToRel(<, Nat)
<1>1. IsWellFoundedOn(R, Nat)
  BY NatLessThanWellFounded
<1>2. \E x \in S : \A y \in S : ~ (<<y, x>> \in R)
  <2> HIDE DEF R
  <2> QED
    BY <1>1, WFMin
<1>3. \A x, y \in Nat : y < x => <<y, x>> \in R
  BY DEF OpToRel
<1> HIDE DEF R
<1>4. PICK x \in S : \A y \in S : ~ (<<y, x>> \in R)
  BY <1>2
<1>5. \A y \in S : x <= y
  <2> TAKE y \in S
  <2>1. x \in Nat /\ y \in Nat /\ ~(y < x)
    BY <1>3, <1>4
  <2> QED
    BY <2>1
<1> QED
  BY <1>5

GCActions == [vat : Vats, type : GCKinds, kref : Objects]

LEMMA GCActionIs ==
    /\ \A a \in GCActions : /\ a.vat \in Vats /\ a.type \in GCKinds /\ a.kref \in Objects
                            /\ a = GCAction(a.vat, a.type, a.kref)
    /\ \A v, type, k : /\ GCAction(v, type, k).vat = v /\ GCAction(v, type, k).type = type
                       /\ GCAction(v, type, k).kref = k
<1>1. \A a \in GCActions : a.vat \in Vats /\ a.type \in GCKinds /\ a.kref \in Objects
  BY DEF GCActions
<1>2. \A a \in GCActions : a = GCAction(a.vat, a.type, a.kref)
  BY DEF GCActions, GCAction
<1>3. \A v, type, k : /\ GCAction(v, type, k).vat = v /\ GCAction(v, type, k).type = type
                      /\ GCAction(v, type, k).kref = k
  BY DEF GCAction
<1> QED
  BY <1>1, <1>2, <1>3

(* A rank tells the vat and the kind of action.                            *)
LEMMA RankIs ==
    /\ \A a \in GCActions : Rank(a) \in Nat
    /\ \A a, b \in GCActions : Rank(a) = Rank(b) => a.vat = b.vat /\ a.type = b.type
<1> DEFINE Place(type) == CHOOSE i \in 1 .. 3 : GCTypes[i] = type
<1>1. \A type \in GCKinds : \E i \in 1 .. 3 : GCTypes[i] = type
  BY DEF GCKinds, GCTypes
<1>2. \A type \in GCKinds : Place(type) \in 1 .. 3 /\ GCTypes[Place(type)] = type
  BY <1>1
<1>3. \A a : Rank(a) = 3 * a.vat + Place(a.type)
  BY DEF Rank
<1> HIDE DEF Place
<1>4. Vats \subseteq Nat
  BY KrefsAre DEF Vats
<1>5. ASSUME NEW a \in GCActions
      PROVE  Rank(a) \in Nat /\ a.vat \in Nat /\ Place(a.type) \in 1 .. 3
  <2> DEFINE x == a.vat
             i == Place(a.type)
  <2>1. x \in Nat
    BY <1>4, GCActionIs
  <2>2. i \in 1 .. 3
    BY <1>2, GCActionIs
  <2>3. Rank(a) = 3 * x + i
    BY <1>3
  <2> HIDE DEF x, i
  <2>4. Rank(a) \in Nat
    BY <2>1, <2>2, <2>3
  <2> QED
    BY <2>1, <2>2, <2>4 DEF x, i
<1>6. ASSUME NEW a \in GCActions, NEW b \in GCActions, Rank(a) = Rank(b)
      PROVE  a.vat = b.vat /\ a.type = b.type
  <2> DEFINE x == a.vat
             y == b.vat
             i == Place(a.type)
             j == Place(b.type)
  <2>1. 3 * x + i = 3 * y + j
    BY <1>3, <1>6
  <2>2. x \in Nat /\ y \in Nat /\ i \in 1 .. 3 /\ j \in 1 .. 3
    BY <1>5
  <2>3. GCTypes[i] = a.type /\ GCTypes[j] = b.type
    BY <1>2, GCActionIs
  <2> HIDE DEF x, y, i, j
  <2>4. x = y /\ i = j
    BY <2>1, <2>2
  <2> QED
    BY <2>3, <2>4 DEF x, y
<1> QED
  BY <1>5, <1>6

(* Fewer actions to be done.                                               *)
ActionsSet(s, t, A) == t = [s EXCEPT !.actions = A]

LEMMA ActionsSetIs ==
    ASSUME NEW s \in Stores, NEW A \in SUBSET GCActions, NEW t, ActionsSet(s, t, A)
    PROVE  /\ t \in Stores /\ t.actions = A /\ t.object = s.object /\ t.clist = s.clist
           /\ t.pins = s.pins /\ t.run = s.run /\ t.buffer = s.buffer /\ t.failed = s.failed
           /\ t.promise = s.promise /\ t.terminated = s.terminated
           /\ t.configured = s.configured /\ t.nextObject = s.nextObject
           /\ t.nextPromise = s.nextPromise
<1>1. t \in Stores
  BY StoreChanges DEF ActionsSet, GCActions
<1>2. t.actions = A
  BY DEF ActionsSet, Stores
<1>3. t.object = s.object /\ t.clist = s.clist
  BY DEF ActionsSet, Stores
<1>4. t.pins = s.pins /\ t.run = s.run
  BY DEF ActionsSet, Stores
<1>5. t.buffer = s.buffer /\ t.failed = s.failed
  BY DEF ActionsSet, Stores
<1>6. t.promise = s.promise /\ t.terminated = s.terminated
  BY DEF ActionsSet, Stores
<1>7. t.configured = s.configured /\ t.nextObject = s.nextObject
  BY DEF ActionsSet, Stores
<1>8. t.nextPromise = s.nextPromise
  BY DEF ActionsSet, Stores
<1> QED
  BY <1>1, <1>2, <1>3, <1>4, <1>5, <1>6, <1>7, <1>8

LEMMA ActionsSetIsSound ==
    ASSUME NEW E \in Loans, NEW s, Sound(s, E, {}), NEW A \in SUBSET s.actions, NEW R,
           NEW t, ActionsSet(s, t, A),
           \A v \in Vats : \A k \in Objects :
              /\ Retiring(s, v, k) /\ Has(s, v, k) => Retiring(t, v, k) \/ <<v, k>> \in R
              /\ <<v, k>> \in R => Retiring(s, v, k)
    PROVE  Sound(t, E, R) /\ Steady(s, t)
<1>1. s \in Stores /\ E \in Hands
  BY LoansAreHands DEF Sound
<1>2. /\ t \in Stores /\ t.actions = A /\ t.object = s.object /\ t.clist = s.clist
      /\ t.pins = s.pins /\ t.run = s.run /\ t.buffer = s.buffer /\ t.failed = s.failed
      /\ t.promise = s.promise /\ t.terminated = s.terminated
      /\ t.configured = s.configured /\ t.nextObject = s.nextObject
      /\ t.nextPromise = s.nextPromise
  <2>1. A \in SUBSET GCActions
    BY <1>1, StoreFields DEF GCActions
  <2> QED
    BY <1>1, <2>1, ActionsSetIs
<1>3. \A v, k : Retiring(t, v, k) => Retiring(s, v, k)
  BY <1>2 DEF Retiring
<1>4. Fresh(t) /\ ExportsOwned(t) /\ FlagsReach(t) /\ DeadAreEmpty(t) /\ t.failed = FALSE
  <2>1. Fresh(t) /\ ExportsOwned(t) /\ t.failed = FALSE
    BY <1>2 DEF Sound, Fresh, ExportsOwned, Has
  <2>2. FlagsReach(t) /\ DeadAreEmpty(t)
    BY <1>2 DEF Sound, FlagsReach, DeadAreEmpty, Has, IsTerminated
  <2> QED
    BY <2>1, <2>2
<1>5. RetiredIsGone(t, R)
  BY <1>2, <1>3 DEF Sound, RetiredIsGone
<1>6. ASSUME NEW k \in Krefs, NEW how
      PROVE  Entered(t, k, how, R) = Entered(s, k, how, {})
  <2>1. ASSUME NEW v \in Vats
        PROVE  Weighs(s, v, k, how, {}) <=> Weighs(t, v, k, how, R)
    <3>1. CASE IsPromise(k)
      BY <1>2, <3>1 DEF Weighs, Has
    <3>2. CASE ~IsPromise(k)
      <4>1. k \in Objects
        BY <3>2, KrefsAre
      <4>2. Has(s, v, k) => (Retiring(s, v, k) <=> Retiring(t, v, k) \/ <<v, k>> \in R)
        BY <1>3, <4>1
      <4> QED
        BY <1>2, <3>2, <4>2 DEF Weighs, Has
    <3> QED
      BY <3>1, <3>2
  <2> QED
    BY <2>1, EnteredSame
<1>7. ASSUME NEW k \in Krefs
      PROVE  Held(t, k) = Held(s, k) /\ (Exists(t, k) <=> Exists(s, k))
               /\ Reached(t, k) = Reached(s, k) /\ Recognized(t, k) = Recognized(s, k)
  BY <1>2 DEF Held, Exists, Reached, Recognized
<1>8. Balanced(t, E, R)
  BY <1>6, <1>7 DEF Sound, Balanced
<1>9. Steady(s, t)
  <2>1. SameRows(s.promise, t.promise)
    BY <1>2 DEF SameRows
  <2> QED
    BY <1>1, <1>2, <2>1, SameRowsSteady
<1>10. Sound(t, E, R)
  BY <1>2, <1>4, <1>5, <1>8 DEF Sound
<1> QED
  BY <1>9, <1>10

-----------------------------------------------------------------------------
(* What an errand takes out of the store: references, and entries.         *)
None == [k \in Krefs |-> 0]
HandsOf(x) == [k \in Krefs |-> Uses(ItemRefs(x), k)]

Retires(x) ==
    IF x.type = "retireImport"
    THEN {<<x.vat, x.krefs[i]>> : i \in DOMAIN x.krefs} ELSE {}

(* An owner is asked to retire nothing but its exports.                    *)
RetiresExports(s, x) ==
    x.type = "retireExport" => \A i \in DOMAIN x.krefs :
        Has(s, x.vat, x.krefs[i]) => s.clist[x.vat][x.krefs[i]].dir = "export"

Errand(type, v, ks) == [type |-> type, vat |-> v, krefs |-> ks]

LEMMA ErrandIs ==
    ASSUME NEW type \in GCKinds, NEW v \in Vats, NEW ks \in Seq(Objects)
    PROVE  LET x == Errand(type, v, ks)
           IN  /\ x \in Errands /\ x.type = type /\ x.vat = v /\ x.krefs = ks
               /\ ItemRefs(x) = <<>>
<1> DEFINE x == Errand(type, v, ks)
<1>1. x.type = type /\ x.vat = v /\ x.krefs = ks
  BY DEF Errand
<1>2. x \in [type : GCKinds, vat : Vats, krefs : Seq(Objects)]
  BY DEF Errand
<1>3. x \in Errands
  BY <1>2 DEF Errands
<1>4. ItemRefs(x) = <<>>
  BY <1>1 DEF ItemRefs, GCKinds
<1> QED
  BY <1>1, <1>3, <1>4

LEMMA HandsOfIs ==
    /\ None \in Loans
    /\ \A x \in Items : HandsOf(x) \in Loans /\ Lends(None, HandsOf(x), ItemRefs(x))
    /\ \A x : ItemRefs(x) = <<>> => HandsOf(x) = None
<1>1. None \in Loans /\ \A k \in Krefs : None[k] = 0
  BY DEF None, Loans
<1>2. ASSUME NEW x \in Items
      PROVE  HandsOf(x) \in Loans /\ Lends(None, HandsOf(x), ItemRefs(x))
  <2>1. \A k \in Krefs : Uses(ItemRefs(x), k) \in Nat
    BY ItemRefsType, UsesType
  <2>2. HandsOf(x) \in Loans /\ \A k \in Krefs : HandsOf(x)[k] = Uses(ItemRefs(x), k)
    BY <2>1 DEF HandsOf, Loans
  <2> HIDE DEF HandsOf, None
  <2>3. \A k \in Krefs : HandsOf(x)[k] = None[k] + Uses(ItemRefs(x), k)
    BY <1>1, <2>1, <2>2
  <2> QED
    BY <1>1, <2>2, <2>3, LoansAreHands DEF Lends
<1>3. ASSUME NEW x, ItemRefs(x) = <<>>
      PROVE  HandsOf(x) = None
  BY <1>3, UsesOfNone DEF HandsOf, None
<1> QED
  BY <1>1, <1>2, <1>3

LEMMA TakeGCActionIsSound ==
    ASSUME NEW s, Sound(s, None, {})
    PROVE  LET gc == TakeGCAction(s)
               t  == gc.store
               x  == gc.item
           IN  /\ Steady(s, t)
               /\ \/ x = NoOne /\ Sound(t, None, {})
                  \/ x \in Errands /\ Sound(t, HandsOf(x), Retires(x)) /\ RetiresExports(t, x)
<1> DEFINE due == {a \in s.actions : ShouldProcess(s, a)}
           first == CHOOSE a \in due : \A b \in due : Rank(a) <= Rank(b)
           group == {a \in due : Rank(a) = Rank(first)}
           ks == {a.kref : a \in group}
           later == {a \in s.actions : Rank(a) > Rank(first)}
           x == Errand(first.type, first.vat, InOrder(ks))
           none == [s EXCEPT !.actions = {}]
           t == [s EXCEPT !.actions = later]
<1>1. /\ due = {} => TakeGCAction(s) = [store |-> none, item |-> NoOne]
      /\ due # {} => TakeGCAction(s) = [store |-> t, item |-> x]
  BY DEF TakeGCAction, Errand
<1>2. s \in Stores /\ None \in Loans
  BY HandsOfIs DEF Sound
<1>3. s.actions \in SUBSET GCActions /\ due \subseteq GCActions /\ group \subseteq due
  BY <1>2, StoreFields DEF GCActions
<1>4. ASSUME NEW v \in Vats, NEW k \in Objects, Retiring(s, v, k), Has(s, v, k)
      PROVE  /\ GCAction(v, "retireImport", k) \in due
             /\ GCAction(v, "retireImport", k) \in s.actions
  BY <1>4, GCActionIs DEF Retiring, ShouldProcess
<1> HIDE DEF due, none, t
<1>5. CASE due = {}
  <2>1. ActionsSet(s, none, {}) /\ {} \in SUBSET s.actions
    BY DEF ActionsSet, none
  <2>2. Sound(none, None, {}) /\ Steady(s, none)
    BY <1>2, <1>4, <1>5, <2>1, ActionsSetIsSound
  <2> QED
    BY <1>1, <1>5, <2>2
<1>6. CASE due # {}
  <2>1. first \in due /\ \A b \in due : Rank(first) <= Rank(b)
    <3> DEFINE ranks == {Rank(a) : a \in due}
    <3>1. ranks \in SUBSET Nat /\ ranks # {}
      BY <1>3, <1>6, RankIs
    <3>2. \E r \in ranks : \A y \in ranks : r <= y
      BY <3>1, LeastExists
    <3>3. \E a \in due : \A b \in due : Rank(a) <= Rank(b)
      BY <3>2
    <3> QED
      BY <3>3
  <2> HIDE DEF first
  <2>2. first \in GCActions
    BY <1>3, <2>1
  <2>3. \A a \in group : a \in GCActions /\ a \in due /\ a.vat = first.vat /\ a.type = first.type
    BY <1>3, <2>2, RankIs
  <2>4. ks \in SUBSET Objects
    BY <2>3, GCActionIs
  <2>5. \A a \in group : a.kref \in ks
    OBVIOUS
  <2>6. \A k \in ks : \E a \in group : a.kref = k
    OBVIOUS
  <2>7. later \in SUBSET s.actions /\ \A a \in s.actions : Rank(a) > Rank(first) => a \in later
    OBVIOUS
  <2>8. \A a \in due : Rank(a) = Rank(first) => a \in group
    OBVIOUS
  <2> HIDE DEF group, ks, later
  <2>9. /\ InOrder(ks) \in Seq(Objects) /\ DOMAIN InOrder(ks) = 1 .. Len(InOrder(ks))
        /\ \A i \in DOMAIN InOrder(ks) : InOrder(ks)[i] \in ks
        /\ \A k \in ks : \E i \in 1 .. Len(InOrder(ks)) : InOrder(ks)[i] = k
    <3>1. ks \in SUBSET Krefs
      BY <2>4, KrefsAre
    <3> QED
      BY <2>4, <3>1, KrefsInOrder
  <2>10. /\ x \in Errands /\ x.type = first.type /\ x.vat = first.vat
         /\ x.krefs = InOrder(ks) /\ ItemRefs(x) = <<>>
    BY <2>2, <2>9, GCActionIs, ErrandIs
  <2> HIDE DEF x
  <2>11. ASSUME NEW v \in Vats, NEW k \in Objects, Retiring(s, v, k), Has(s, v, k)
         PROVE  Retiring(t, v, k) \/ <<v, k>> \in Retires(x)
    <3> DEFINE a == GCAction(v, "retireImport", k)
    <3>1. a \in due /\ a \in s.actions /\ a \in GCActions /\ a.vat = v /\ a.kref = k
            /\ a.type = "retireImport"
      BY <1>3, <1>4, <2>11, GCActionIs
    <3> HIDE DEF a
    <3>2. Rank(first) \in Nat /\ Rank(a) \in Nat /\ Rank(first) <= Rank(a)
      BY <2>1, <2>2, <3>1, RankIs
    <3>3. CASE Rank(a) > Rank(first)
      <4>1. t.actions = later
        BY <1>2 DEF t, Stores
      <4> QED
        BY <2>7, <3>1, <3>3, <4>1 DEF Retiring, a
    <3>4. CASE Rank(a) = Rank(first)
      <4>1. a \in group
        BY <2>8, <3>1, <3>4
      <4>2. v = x.vat /\ x.type = "retireImport" /\ k \in ks
        BY <2>3, <2>5, <2>10, <3>1, <4>1
      <4>3. PICK i \in DOMAIN x.krefs : x.krefs[i] = k
        BY <2>9, <2>10, <4>2
      <4> QED
        BY <4>2, <4>3 DEF Retires
    <3> QED
      BY <3>2, <3>3, <3>4
  <2>12. ASSUME NEW v \in Vats, NEW k \in Objects, <<v, k>> \in Retires(x)
         PROVE  Retiring(s, v, k)
    <3>1. x.type = "retireImport"
      BY <2>12 DEF Retires
    <3>2. PICK i \in DOMAIN x.krefs : <<v, k>> = <<x.vat, x.krefs[i]>>
      BY <2>12, <3>1 DEF Retires
    <3>3. v = first.vat /\ k \in ks
      BY <2>9, <2>10, <3>2
    <3>4. PICK a \in group : a.kref = k
      BY <2>6, <3>3
    <3>5. a = GCAction(v, "retireImport", k) /\ a \in s.actions
      <4>1. a \in GCActions /\ a.vat = v /\ a.type = "retireImport" /\ a \in due
        BY <2>3, <2>10, <3>1, <3>3, <3>4
      <4>2. a = GCAction(a.vat, a.type, a.kref)
        BY <4>1, GCActionIs
      <4> QED
        BY <3>4, <4>1, <4>2 DEF due
    <3> QED
      BY <3>5 DEF Retiring
  <2>13. ActionsSet(s, t, later)
    BY DEF ActionsSet, t
  <2>14. Sound(t, None, Retires(x)) /\ Steady(s, t)
    BY <1>2, <2>7, <2>11, <2>12, <2>13, ActionsSetIsSound
  <2>15. HandsOf(x) = None
    BY <2>10, HandsOfIs
  <2>16. RetiresExports(t, x)
    <3>1. SUFFICES ASSUME x.type = "retireExport", NEW i \in DOMAIN x.krefs, Has(t, x.vat, x.krefs[i])
                   PROVE  t.clist[x.vat][x.krefs[i]].dir = "export"
      BY DEF RetiresExports
    <3> DEFINE v == x.vat
               k == x.krefs[i]
    <3>2. PICK a \in group : a.kref = k
      BY <2>6, <2>9, <2>10, <3>1
    <3>3. a.vat = v /\ a.type = "retireExport" /\ a \in due /\ v \in Vats /\ k \in Objects
      BY <2>3, <2>10, <3>1, <3>2, GCActionIs
    <3>4. k \in DOMAIN s.object /\ s.object[k].recog = 0 /\ Has(s, v, k)
      <4>1. ShouldProcess(s, a)
        BY <3>3 DEF due
      <4> QED
        BY <3>2, <3>3, <4>1 DEF ShouldProcess
    <3> HIDE DEF v, k
    <3>5. t.clist = s.clist
      BY <1>2 DEF t, Stores
    <3>6. ~Weighs(s, v, k, "recog", {})
      <4>1. Exists(s, k) /\ k \in Krefs /\ ~IsPromise(k) /\ Recognized(s, k) = 0
        BY <3>3, <3>4, KrefsAre DEF Exists, Recognized
      <4>2. Held(s, k) \in Nat /\ Entered(s, k, "recog", {}) \in Nat
        BY <1>2, <4>1, HeldType, EnteredType
      <4>3. Recognized(s, k) = Held(s, k) + None[k] + Entered(s, k, "recog", {}) /\ None[k] = 0
        BY <4>1 DEF Sound, Balanced, None
      <4>4. Entered(s, k, "recog", {}) = 0
        BY <4>1, <4>2, <4>3
      <4> QED
        BY <3>3, <4>4, EnteredSome
    <3>7. ~Retiring(s, v, k)
      BY <3>3, <3>4 DEF Sound, RetiredIsGone
    <3>8. s.clist[v][k].dir \in {"import", "export"}
      BY <1>2, <3>3, <3>4, StoreIs DEF Has, CListEntries
    <3>9. ~IsPromise(k)
      BY <3>3, KrefsAre
    <3>10. s.clist[v][k].dir = "export"
      BY <3>4, <3>6, <3>7, <3>8, <3>9 DEF Weighs
    <3> QED
      BY <3>5, <3>10 DEF v, k
  <2> QED
    BY <1>1, <1>6, <2>10, <2>14, <2>15, <2>16
<1> QED
  BY <1>5, <1>6

(* The first item of the run queue, or of the reaps, taken.                *)
RunSet(s, t) == t = [s EXCEPT !.run = Tail(@)]
ReapsSet(s, t) == t = [s EXCEPT !.reaps = Tail(@)]

Takes(s, t) == (RunSet(s, t) /\ s.run # <<>>) \/ (ReapsSet(s, t) /\ s.reaps # <<>>)

LEMMA TakenIs ==
    ASSUME NEW s \in Stores, NEW t,
           Takes(s, t)
    PROVE  /\ t \in Stores /\ t.object = s.object /\ t.clist = s.clist
           /\ t.pins = s.pins /\ t.buffer = s.buffer /\ t.failed = s.failed
           /\ t.promise = s.promise /\ t.terminated = s.terminated
           /\ t.configured = s.configured /\ t.nextObject = s.nextObject
           /\ t.nextPromise = s.nextPromise /\ t.actions = s.actions
           /\ RunSet(s, t) => t.run = Tail(s.run)
           /\ ReapsSet(s, t) => t.run = s.run
<1>1. s.run \in Seq(Items) /\ s.reaps \in Seq(Vats)
  BY StoreFields
<1>2. /\ s.run # <<>> => Tail(s.run) \in Seq(Items)
      /\ s.reaps # <<>> => Tail(s.reaps) \in Seq(Vats)
  BY <1>1
<1>3. t \in Stores
  BY <1>2, StoreChanges DEF RunSet, ReapsSet, Takes
<1>4. t.object = s.object /\ t.clist = s.clist
  BY DEF RunSet, ReapsSet, Takes, Stores
<1>5. t.pins = s.pins /\ t.buffer = s.buffer
  BY DEF RunSet, ReapsSet, Takes, Stores
<1>6. t.failed = s.failed /\ t.promise = s.promise
  BY DEF RunSet, ReapsSet, Takes, Stores
<1>7. t.terminated = s.terminated /\ t.configured = s.configured
  BY DEF RunSet, ReapsSet, Takes, Stores
<1>8. t.nextObject = s.nextObject /\ t.nextPromise = s.nextPromise
  BY DEF RunSet, ReapsSet, Takes, Stores
<1>9. t.actions = s.actions
  BY DEF RunSet, ReapsSet, Takes, Stores
<1>10. (RunSet(s, t) => t.run = Tail(s.run)) /\ (ReapsSet(s, t) => t.run = s.run)
  BY DEF RunSet, ReapsSet, Takes, Stores
<1> QED
  BY <1>3, <1>4, <1>5, <1>6, <1>7, <1>8, <1>9, <1>10

LEMMA TakenIsSound ==
    ASSUME NEW s, Sound(s, None, {}), NEW t
    PROVE  /\ s.run # <<>> /\ RunSet(s, t) =>
                 /\ Sound(t, HandsOf(Head(s.run)), {}) /\ Steady(s, t)
                 /\ Head(s.run) \in Items
           /\ s.reaps # <<>> /\ ReapsSet(s, t) => Sound(t, None, {}) /\ Steady(s, t)
<1>1. s \in Stores /\ None \in Hands /\ s.run \in Seq(Items)
  BY HandsOfIs, LoansAreHands, StoreFields DEF Sound
<1>2. ASSUME Takes(s, t)
      PROVE  Passes(s, t) /\ Stands(s, t) /\ t \in Stores
  <2>1. /\ t \in Stores /\ t.object = s.object /\ t.clist = s.clist
        /\ t.pins = s.pins /\ t.buffer = s.buffer /\ t.failed = s.failed
        /\ t.promise = s.promise /\ t.terminated = s.terminated
        /\ t.configured = s.configured /\ t.nextObject = s.nextObject
        /\ t.nextPromise = s.nextPromise /\ t.actions = s.actions
    BY <1>1, <1>2, TakenIs
  <2>2. Passes(s, t)
    BY <2>1 DEF Passes, Retiring
  <2>3. SameRows(s.promise, t.promise)
    BY <2>1 DEF SameRows
  <2>4. Steady(s, t)
    BY <1>1, <2>1, <2>3, SameRowsSteady
  <2> QED
    BY <2>1, <2>2, <2>4 DEF Steady
<1>3. ASSUME s.run # <<>>, RunSet(s, t)
      PROVE  Sound(t, HandsOf(Head(s.run)), {}) /\ Steady(s, t) /\ Head(s.run) \in Items
  <2> DEFINE x == Head(s.run)
             F == HandsOf(x)
  <2>0. Takes(s, t)
    BY <1>3 DEF Takes
  <2>1. x \in Items
    BY <1>1, <1>3
  <2>2. F \in Hands /\ \A k \in Krefs : F[k] = Uses(ItemRefs(x), k)
    BY <2>1, HandsOfIs, LoansAreHands DEF HandsOf
  <2>3. \A k \in Krefs : None[k] = 0
    BY DEF None
  <2>4. t.pins = s.pins /\ t.buffer = s.buffer /\ t.promise = s.promise /\ t.run = Tail(s.run)
    BY <1>1, <1>3, <2>0, TakenIs
  <2> HIDE DEF F
  <2>5. ASSUME NEW k \in Krefs
        PROVE  Held(t, k) + F[k] = Held(s, k) + None[k]
    <3> DEFINE a == UsesInItems(s.run, k)
               b == UsesInItems(t.run, k)
               c == UsesInItems(s.buffer, k)
               d == UsesInPromises(s.promise, k)
               e == IF IsPromise(k) THEN 0 ELSE s.pins[k]
               f == Uses(ItemRefs(x), k)
    <3>1. a = f + b
      BY <1>1, <1>3, <2>4, UsesInFewerItems
    <3>2. t \in Stores
      BY <1>2, <2>0
    <3>3. a \in Nat /\ b \in Nat /\ c \in Nat /\ d \in Nat /\ e \in Nat
      BY <1>1, <3>2, HeldType
    <3>4. f \in Nat
      BY <2>1, ItemRefsType, UsesType
    <3>5. Held(s, k) = a + c + d + e
      BY DEF Held
    <3>6. Held(t, k) = b + c + d + e
      BY <2>4 DEF Held
    <3>7. F[k] = f /\ None[k] = 0
      BY <2>2, <2>3
    <3> HIDE DEF a, b, c, d, e, f
    <3> QED
      BY <3>1, <3>3, <3>4, <3>5, <3>6, <3>7
  <2>6. Sound(t, F, {}) /\ Steady(s, t)
    BY <1>1, <1>2, <2>0, <2>2, <2>5, PassesIsSound
  <2> QED
    BY <2>1, <2>6 DEF F
<1>4. ASSUME s.reaps # <<>>, ReapsSet(s, t)
      PROVE  Sound(t, None, {}) /\ Steady(s, t)
  <2>0. Takes(s, t)
    BY <1>4 DEF Takes
  <2>1. t.pins = s.pins /\ t.buffer = s.buffer /\ t.promise = s.promise /\ t.run = s.run
    BY <1>1, <1>4, <2>0, TakenIs
  <2>2. \A k \in Krefs : Held(t, k) = Held(s, k)
    BY <2>1 DEF Held
  <2> QED
    BY <1>1, <1>2, <2>0, <2>2, PassesIsSound
<1> QED
  BY <1>3, <1>4

Reap(v) == [type |-> "reap", vat |-> v]

LEMMA ItemIs ==
    /\ \A x \in Items : x \in Errands /\ Retires(x) = {} /\ x.type \notin GCKinds
    /\ \A v \in Vats : /\ Reap(v) \in Errands /\ Reap(v).type = "reap" /\ Reap(v).vat = v
                       /\ ItemRefs(Reap(v)) = <<>> /\ Retires(Reap(v)) = {}
<1>1. ASSUME NEW x \in Items
      PROVE  x \in Errands /\ Retires(x) = {} /\ x.type \notin GCKinds
  <2>1. x.type \in {"send", "notify", "terminate"}
    BY ItemRefsType
  <2> QED
    BY <2>1 DEF Errands, Retires, GCKinds
<1>2. ASSUME NEW v \in Vats
      PROVE  /\ Reap(v) \in Errands /\ Reap(v).type = "reap" /\ Reap(v).vat = v
             /\ ItemRefs(Reap(v)) = <<>> /\ Retires(Reap(v)) = {}
  <2>1. Reap(v).type = "reap" /\ Reap(v).vat = v
    BY DEF Reap
  <2>2. Reap(v) \in [type : {"reap"}, vat : Vats]
    BY DEF Reap
  <2> QED
    BY <2>1, <2>2 DEF Errands, ItemRefs, Retires
<1> QED
  BY <1>1, <1>2

LEMMA NextItemIsSound ==
    ASSUME NEW s, Sound(s, None, {})
    PROVE  LET next == NextItem(s)
               t == next.store
               x == next.item
           IN  /\ Steady(s, t)
               /\ \/ x = NoOne /\ Sound(t, None, {})
                  \/ x \in Errands /\ Sound(t, HandsOf(x), Retires(x)) /\ RetiresExports(t, x)
<1> DEFINE gc == TakeGCAction(s)
           t == gc.store
           reaped == [t EXCEPT !.reaps = Tail(@)]
           taken == [t EXCEPT !.run = Tail(@)]
           next == NextItem(s)
<1>1. /\ Steady(s, t)
      /\ \/ gc.item = NoOne /\ Sound(t, None, {})
         \/ /\ gc.item \in Errands /\ Sound(t, HandsOf(gc.item), Retires(gc.item))
            /\ RetiresExports(t, gc.item)
  BY TakeGCActionIsSound
<1>2. next = IF gc.item # NoOne THEN gc
             ELSE IF t.reaps # <<>> THEN [store |-> reaped, item |-> Reap(Head(t.reaps))]
             ELSE IF t.run # <<>> THEN [store |-> taken, item |-> Head(t.run)]
             ELSE [store |-> t, item |-> NoOne]
  BY DEF NextItem, Reap
<1> HIDE DEF gc, next
<1>3. CASE gc.item # NoOne
  BY <1>1, <1>2, <1>3 DEF next
<1>4. CASE gc.item = NoOne
  <2>1. Sound(t, None, {})
    BY <1>1, <1>4, NoOneIsNoErrand
  <2> HIDE DEF t
  <2>3. CASE t.reaps # <<>>
    <3>1. next = [store |-> reaped, item |-> Reap(Head(t.reaps))]
      BY <1>2, <1>4, <2>3
    <3>2. ReapsSet(t, reaped)
      BY DEF ReapsSet
    <3> HIDE DEF reaped
    <3>3. Sound(reaped, None, {}) /\ Steady(t, reaped)
      BY <2>1, <2>3, <3>2, TakenIsSound
    <3>4. Head(t.reaps) \in Vats
      <4>1. t \in Stores
        BY <2>1 DEF Sound
      <4>2. t.reaps \in Seq(Vats)
        BY <4>1, StoreFields
      <4> QED
        BY <2>3, <4>2
    <3> DEFINE x == Reap(Head(t.reaps))
    <3>5. x \in Errands /\ x.type = "reap" /\ HandsOf(x) = None /\ Retires(x) = {}
      BY <3>4, ItemIs, HandsOfIs
    <3> HIDE DEF x
    <3>6. next.store = reaped /\ next.item = x
      BY <3>1 DEF x
    <3>7. Steady(s, reaped)
      BY <1>1, <2>1, <3>3, SteadyJoins DEF Sound
    <3>8. RetiresExports(reaped, x)
      BY <3>5 DEF RetiresExports
    <3> QED
      BY <3>3, <3>5, <3>6, <3>7, <3>8 DEF next
  <2>4. CASE t.reaps = <<>> /\ t.run # <<>>
    <3> DEFINE x == Head(t.run)
    <3>1. next.store = taken /\ next.item = x
      BY <1>2, <1>4, <2>4
    <3>2. RunSet(t, taken)
      BY DEF RunSet
    <3> HIDE DEF taken
    <3>3. Sound(taken, HandsOf(x), {}) /\ Steady(t, taken) /\ x \in Items
      BY <2>1, <2>4, <3>2, TakenIsSound
    <3> HIDE DEF x
    <3>4. x \in Errands /\ Retires(x) = {} /\ x.type # "retireExport"
      BY <3>3, ItemIs DEF GCKinds
    <3>5. Steady(s, taken)
      BY <1>1, <2>1, <3>3, SteadyJoins DEF Sound
    <3>6. RetiresExports(taken, x)
      BY <3>4 DEF RetiresExports
    <3> QED
      BY <3>1, <3>3, <3>4, <3>5, <3>6 DEF next
  <2>5. CASE t.reaps = <<>> /\ t.run = <<>>
    <3>1. next.store = t /\ next.item = NoOne
      BY <1>2, <1>4, <2>5
    <3> QED
      BY <1>1, <2>1, <3>1 DEF next, t
  <2> QED
    BY <2>3, <2>4, <2>5
<1> QED
  BY <1>3, <1>4

-----------------------------------------------------------------------------
(* The router: messages.                                                   *)

(* What a message being delivered names exists.                            *)
LEMMA InHandKnown ==
    ASSUME NEW x \in Items, x.type = "send", NEW R, NEW s, Sound(s, HandsOf(x), R)
    PROVE  /\ x.target \in Krefs /\ x.message \in Message
           /\ Known(s, x.target, x.message) /\ Exists(s, x.target)
           /\ x.message.result \in Promises /\ Exists(s, x.message.result)
           /\ x.message.slots \in Seq(Krefs)
           /\ \A i \in DOMAIN x.message.slots : Exists(s, x.message.slots[i])
<1> DEFINE E == HandsOf(x)
           ks == ItemRefs(x)
           m == x.message
<1>1. /\ ks \in Seq(Krefs) /\ x.target \in Krefs /\ m \in Message
      /\ ks = MessageRefs(x.target, m)
  BY ItemRefsType
<1>2. E \in Loans /\ E \in Hands /\ \A k \in Krefs : E[k] = Uses(ks, k)
  BY HandsOfIs, LoansAreHands DEF HandsOf
<1>3. s \in Stores
  BY DEF Sound
<1> HIDE DEF E, ks
<1>4. Sound(s, E, R)
  BY DEF E
<1>5. ASSUME NEW i \in DOMAIN ks
      PROVE  Exists(s, ks[i])
  <2> DEFINE k == ks[i]
  <2>1. k \in Krefs /\ Uses(ks, k) >= 1
    BY <1>1, UsesHas
  <2> HIDE DEF k
  <2>2. Held(s, k) \in Nat /\ E[k] >= 1 /\ E[k] \in Nat
    BY <1>2, <1>3, <2>1, HeldType DEF Loans
  <2>3. Held(s, k) + E[k] >= 1
    BY <2>2
  <2> QED
    BY <1>2, <1>4, <2>1, <2>3, HeldExists DEF k
<1>6. /\ m.result \in Promises /\ m.slots \in Seq(Krefs)
      /\ <<x.target, m.result>> \in Seq(Krefs) /\ ks = <<x.target, m.result>> \o m.slots
  BY <1>1, MessageRefsType
<1>7. Known(s, x.target, m)
  BY <1>1, <1>5 DEF Known
<1>8. ks[1] = x.target /\ ks[2] = m.result /\ 1 \in DOMAIN ks /\ 2 \in DOMAIN ks
  BY <1>6
<1>9. ASSUME NEW i \in DOMAIN m.slots
      PROVE  Exists(s, m.slots[i])
  <2>1. i + 2 \in DOMAIN ks /\ ks[i + 2] = m.slots[i]
    BY <1>6
  <2> QED
    BY <1>5, <2>1
<1> QED
  BY <1>1, <1>5, <1>6, <1>7, <1>8, <1>9

(* Everything the value of a settled promise names exists.                 *)
LEMMA SlotsExist ==
    ASSUME NEW E \in Loans, NEW R, NEW s, Sound(s, E, R), NEW p \in DOMAIN s.promise,
           s.promise[p].state # "unresolved"
    PROVE  /\ s.promise[p].slots \in Seq(Krefs)
           /\ \A i \in DOMAIN s.promise[p].slots : Exists(s, s.promise[p].slots[i])
<1> DEFINE row == s.promise[p]
           ks == row.slots
<1>1. s \in Stores /\ E \in Hands
  BY LoansAreHands DEF Sound
<1>2. row \in PromiseRows /\ p \in Promises
  BY <1>1, StoreIs
<1>3. ks \in Seq(Krefs) /\ OwnRefs(p, row) = ks
  BY <1>2 DEF PromiseRows, OwnRefs
<1>4. ASSUME NEW i \in DOMAIN ks
      PROVE  Exists(s, ks[i])
  <2> DEFINE k == ks[i]
             h == Held(s, k)
             a == UsesInPromise(p, row, k)
             b == Uses(ks, k)
             c == UsesInQueue(p, row.queue, k)
  <2>1. k \in Krefs /\ b >= 1 /\ b \in Nat
    BY <1>3, UsesHas, UsesType
  <2>2. a <= h /\ c \in Nat /\ a = b + c
    BY <1>1, <1>3, <2>1, PromiseHolds
  <2>3. h \in Nat /\ E[k] \in Nat
    BY <1>1, <2>1, HeldType DEF Loans
  <2> HIDE DEF a, b, c
  <2>4. h + E[k] >= 1
    <3> HIDE DEF h
    <3> QED
      BY <2>1, <2>2, <2>3
  <2> QED
    BY <1>1, <2>1, <2>4, HeldExists
<1> QED
  BY <1>3, <1>4

LEMMA RouteIs ==
    ASSUME NEW E \in Loans, NEW R, NEW s, Sound(s, E, R), NEW k \in Krefs, Exists(s, k)
    PROVE  LET r == Route(s, k)
           IN  \/ /\ r.kind = "splat" /\ r.slots \in Seq(Krefs)
                  /\ \A i \in DOMAIN r.slots : Exists(s, r.slots[i])
               \/ r.kind = "requeue" /\ r.to \in Promises /\ Exists(s, r.to)
               \/ /\ r.kind = "send" /\ r.to \in DOMAIN s.object
                  /\ s.object[r.to].owner \in Vats
<1> DEFINE Routed(r) ==
               \/ /\ r.kind = "splat" /\ r.slots \in Seq(Krefs)
                  /\ \A i \in DOMAIN r.slots : Exists(s, r.slots[i])
               \/ r.kind = "requeue" /\ r.to \in Promises /\ Exists(s, r.to)
               \/ /\ r.kind = "send" /\ r.to \in DOMAIN s.object
                  /\ s.object[r.to].owner \in Vats
<1> SUFFICES Routed(Route(s, k))
  OBVIOUS
<1>1. s \in Stores
  BY DEF Sound
<1>2. Routed(Splat(<<>>))
  BY DEF Splat
<1>3. ASSUME NEW j \in Krefs
      PROVE  Routed(RouteAsSend(s, j))
  <2>1. CASE j \notin DOMAIN s.object \/ s.object[j].owner = NoOne
    BY <1>2, <2>1 DEF RouteAsSend
  <2>2. CASE j \in DOMAIN s.object /\ s.object[j].owner # NoOne
    <3>1. s.object[j].owner \in Vats
      BY <1>1, <2>2, StoreIs DEF ObjectRows
    <3>2. RouteAsSend(s, j) = [kind |-> "send", to |-> j, slots |-> <<>>]
      BY <2>2 DEF RouteAsSend
    <3> QED
      BY <2>2, <3>1, <3>2
  <2> QED
    BY <2>1, <2>2
<1>4. ASSUME NEW j \in Krefs, IsPromise(j), Exists(s, j)
      PROVE  Routed(Requeue(j))
  <2>1. j \in Promises
    BY <1>4, KrefsAre
  <2> QED
    BY <1>4, <2>1 DEF Requeue
<1>5. CASE ~IsPromise(k)
  BY <1>3, <1>5 DEF Route
<1>6. CASE IsPromise(k)
  <2> DEFINE p == s.promise[k]
  <2>1. k \in DOMAIN s.promise /\ p \in PromiseRows
    BY <1>1, <1>6, ExistsIs, StoreIs
  <2>2. CASE p.state = "unresolved"
    BY <1>4, <1>6, <2>2 DEF Route
  <2>3. CASE p.state # "unresolved"
    <3>1. p.slots \in Seq(Krefs) /\ \A i \in DOMAIN p.slots : Exists(s, p.slots[i])
      BY <2>1, <2>3, SlotsExist
    <3>2. Routed(Splat(p.slots))
      BY <3>1 DEF Splat
    <3>3. CASE p.slots = <<>>
      BY <1>2, <1>6, <2>3, <3>2, <3>3 DEF Route
    <3>4. CASE p.slots # <<>>
      <4>1. 1 \in DOMAIN p.slots /\ p.slots[1] \in Krefs
        BY <3>1, <3>4
      <4> DEFINE j == p.slots[1]
      <4>2. Route(s, k) = IF p.state = "rejected" THEN Splat(p.slots)
                          ELSE IF ~IsPromise(j) THEN RouteAsSend(s, j)
                          ELSE IF BarePromises THEN Requeue(j) ELSE Splat(<<>>)
        BY <1>6, <2>3, <3>4 DEF Route
      <4>3. Exists(s, j) /\ j \in Krefs
        BY <3>1, <4>1
      <4> HIDE DEF Routed, j
      <4>4. CASE p.state = "rejected"
        BY <3>2, <4>2, <4>4
      <4>5. CASE p.state # "rejected" /\ ~IsPromise(j)
        BY <1>3, <4>2, <4>3, <4>5
      <4>6. CASE p.state # "rejected" /\ IsPromise(j) /\ BarePromises
        BY <1>4, <4>2, <4>3, <4>6
      <4>7. CASE p.state # "rejected" /\ IsPromise(j) /\ ~BarePromises
        BY <1>2, <4>2, <4>7
      <4> QED
        BY <4>4, <4>5, <4>6, <4>7
    <3> QED
      BY <3>3, <3>4
  <2> QED
    BY <2>2, <2>3
<1> QED
  BY <1>5, <1>6

(* A message given back, whatever became of it.                            *)
LEMMA ReleaseAllFailed ==
    ASSUME NEW s, s.failed, NEW ks, Len(ks) \in Nat
    PROVE  ReleaseAll(s, ks) = s
<1>1. PICK h : ReleaseRun(h, s, ks)
  BY ReleaseRuns
<1> DEFINE S == {n \in Nat : n <= Len(ks) => h[n] = s}
<1>2. 0 \in S
  BY <1>1 DEF ReleaseRun
<1>3. ASSUME NEW n \in Nat, n \in S PROVE n + 1 \in S
  <2> SUFFICES ASSUME n + 1 <= Len(ks)
               PROVE  h[n + 1] = s
    OBVIOUS
  <2>1. h[n] = s
    BY <1>3
  <2>2. n + 1 \in 1 .. Len(ks) /\ (n + 1) - 1 = n
    OBVIOUS
  <2>3. h[n + 1] = Release(h[n], ks[n + 1])
    BY <1>1, <2>2 DEF ReleaseRun
  <2> QED
    BY <2>1, <2>3 DEF Release
<1>4. Nat \subseteq S
  <2> HIDE DEF S
  <2> QED
    BY <1>2, <1>3, SetInduction
<1> QED
  BY <1>1, <1>4 DEF ReleaseRun

LEMMA ReleaseMessageIsSound ==
    ASSUME NEW x \in Items, x.type = "send", NEW R, NEW s \in Stores, NEW t,
           Outcome(s, t, HandsOf(x), R)
    PROVE  Outcome(s, ReleaseMessage(t, x), None, R)
<1> DEFINE ks == ItemRefs(x)
           u == ReleaseAll(t, ks)
<1>1. ks \in Seq(Krefs) /\ ReleaseMessage(t, x) = u /\ Len(ks) \in Nat
  BY ItemRefsType DEF ReleaseMessage
<1>2. None \in Hands /\ Lends(None, HandsOf(x), ks) /\ HandsOf(x) \in Hands
  BY HandsOfIs, LoansAreHands
<1> HIDE DEF ks
<1>3. CASE t \in Stores /\ t.failed
  BY <1>1, <1>3, ReleaseAllFailed DEF Outcome
<1>4. CASE Sound(t, HandsOf(x), R) /\ Lasts(s, t)
  <2>1. t \in Stores
    BY <1>4 DEF Sound
  <2>2. \A k \in Krefs : Held(t, k) + None[k] >= 0
    <3> TAKE k \in Krefs
    <3>1. Held(t, k) \in Nat /\ None[k] = 0
      BY <2>1, HeldType DEF None
    <3> QED
      BY <3>1
  <2>3. Recount(t, u) /\ Sound(u, None, R)
    BY <1>1, <1>2, <1>4, <2>2, ReleaseAllIsSound
  <2>4. u \in Stores
    BY <2>3 DEF Sound
  <2>5. Lasts(s, u)
    BY <1>4, <2>1, <2>3, <2>4, RecountSteady, SteadyLasts, LastsJoins
  <2> QED
    BY <1>1, <2>3, <2>5 DEF Outcome
<1> QED
  BY <1>3, <1>4 DEF Outcome

LEMMA RejectResultIsSound ==
    ASSUME NEW E \in Loans, NEW R, NEW s, Sound(s, E, R), NEW m, NEW slots \in Seq(Krefs),
           \A i \in DOMAIN slots : Exists(s, slots[i])
    PROVE  Outcome(s, RejectResult(s, m, slots), E, R)
<1> DEFINE u == RejectResult(s, m, slots)
           p == m.result
<1>1. s \in Stores
  BY DEF Sound
<1>2. u = Raise(s) \/ (Sound(u, E, R) /\ Steady(s, u))
  <2>1. CASE p \notin DOMAIN s.promise
    BY <2>1 DEF RejectResult
  <2>2. CASE p \in DOMAIN s.promise
    <3>1. u = ResolvePromise(s, s.promise[p].decider, p, "rejected", slots, "immediate")
      BY <2>2 DEF RejectResult
    <3> QED
      BY <3>1, ResolvePromiseIsSound
  <2> QED
    BY <2>1, <2>2
<1> HIDE DEF u
<1> QED
  BY <1>1, <1>2, RaiseIs, SteadyLasts DEF Outcome, u

(* A promise that a vat now decides.                                       *)
DeciderSet(s, t, p, v) == t = [s EXCEPT !.promise[p].decider = v]

LEMMA DeciderIs ==
    ASSUME NEW s \in Stores, NEW p \in DOMAIN s.promise, NEW v \in Vats, NEW t,
           DeciderSet(s, t, p, v)
    PROVE  Quiet(s, t) /\ t.free = s.free
<1> DEFINE f == s.promise
           row == [f[p] EXCEPT !.decider = v]
           g == [f EXCEPT ![p] = row]
<1>1. f \in Tables(Promises, PromiseRows) /\ p \in DOMAIN f /\ p \in Promises /\ f[p] \in PromiseRows
  BY StoreFields, StoreIs
<1>2. row \in PromiseRows
  BY <1>1 DEF PromiseRows
<1>3. row.state = f[p].state /\ row.slots = f[p].slots
  BY <1>1 DEF PromiseRows
<1>4. row.queue = f[p].queue /\ row.refs = f[p].refs
  BY <1>1 DEF PromiseRows
<1>5. t = [s EXCEPT !.promise = g]
  BY DEF DeciderSet
<1> HIDE DEF f, row
<1>6. g \in Tables(Promises, PromiseRows)
  BY <1>1, <1>2, TableChanges
<1>7. DOMAIN g = DOMAIN f /\ g[p] = row /\ \A q \in DOMAIN f : q # p => g[q] = f[q]
  BY <1>1
<1> HIDE DEF g
<1>8. t \in Stores
  BY <1>5, <1>6, StoreChanges
<1>9. t.promise = g /\ t.object = s.object /\ t.clist = s.clist
  BY <1>5 DEF Stores
<1>10. t.pins = s.pins /\ t.run = s.run /\ t.buffer = s.buffer
  BY <1>5 DEF Stores
<1>11. t.failed = s.failed /\ t.terminated = s.terminated /\ t.configured = s.configured
  BY <1>5 DEF Stores
<1>12. t.nextObject = s.nextObject /\ t.nextPromise = s.nextPromise /\ t.actions = s.actions
  BY <1>5 DEF Stores
<1>13. t.free = s.free
  BY <1>5 DEF Stores
<1>14. \A q \in DOMAIN f : /\ g[q].state = f[q].state /\ g[q].slots = f[q].slots
                           /\ g[q].queue = f[q].queue /\ g[q].refs = f[q].refs
  BY <1>3, <1>4, <1>7
<1>15. SameRows(f, g) /\ \A q \in DOMAIN f : g[q].refs = f[q].refs
  BY <1>7, <1>14 DEF SameRows
<1> QED
  BY <1>8, <1>9, <1>10, <1>11, <1>12, <1>13, <1>15 DEF Quiet, Retiring, f

(* What the vat is handed of a message, and what the crank keeps in hand.   *)
KeptRefs(x) == IF x.type = "send" THEN <<x.target>> \o x.message.slots ELSE <<>>
Kept(x) == [k \in Krefs |-> Uses(KeptRefs(x), k)]

LEMMA KeptIs ==
    /\ \A x : x.type # "send" => Kept(x) = None
    /\ \A x \in Items : x.type = "send" =>
          /\ KeptRefs(x) \in Seq(Krefs) /\ Kept(x) \in Loans
          /\ Lends(None, Kept(x), KeptRefs(x))
          /\ Shifts(HandsOf(x), Kept(x), x.message.result, -1)
<1>1. ASSUME NEW x, x.type # "send" PROVE Kept(x) = None
  BY <1>1, UsesOfNone DEF Kept, KeptRefs, None
<1>2. ASSUME NEW x \in Items, x.type = "send"
      PROVE  /\ KeptRefs(x) \in Seq(Krefs) /\ Kept(x) \in Loans
             /\ Lends(None, Kept(x), KeptRefs(x))
             /\ Shifts(HandsOf(x), Kept(x), x.message.result, -1)
  <2> DEFINE m == x.message
             p == m.result
             ks == KeptRefs(x)
  <2>1. /\ x.target \in Krefs /\ m \in Message
        /\ ItemRefs(x) = MessageRefs(x.target, m)
    BY <1>2, ItemRefsType
  <2>2. p \in Krefs /\ m.slots \in Seq(Krefs) /\ ItemRefs(x) = <<x.target, p>> \o m.slots
    BY <2>1, MessageRefsType
  <2>3. ks = <<x.target>> \o m.slots /\ ks \in Seq(Krefs)
    BY <1>2, <2>1, <2>2 DEF KeptRefs
  <2>4. Kept(x) \in Loans /\ \A k \in Krefs : Kept(x)[k] = Uses(ks, k) /\ Uses(ks, k) \in Nat
    BY <2>3, UsesType DEF Kept, Loans
  <2>5. None \in Hands /\ \A k \in Krefs : None[k] = 0
    BY HandsOfIs, LoansAreHands DEF None
  <2>6. Lends(None, Kept(x), ks)
    <3> HIDE DEF ks
    <3> QED
      BY <2>4, <2>5, LoansAreHands DEF Lends
  <2>7. HandsOf(x) \in Hands /\ \A k \in Krefs : HandsOf(x)[k] = Uses(ItemRefs(x), k)
    BY HandsOfIs, LoansAreHands DEF HandsOf
  <2>8. ASSUME NEW k \in Krefs
        PROVE  Uses(ks, k) = Uses(ItemRefs(x), k) + (IF k = p THEN -1 ELSE 0)
    <3> DEFINE a == Uses(<<x.target>>, k)
               b == Uses(<<p>>, k)
               c == Uses(m.slots, k)
               d == Uses(<<x.target, p>>, k)
    <3>1. <<x.target>> \in Seq(Krefs) /\ <<p>> \in Seq(Krefs) /\ <<x.target, p>> \in Seq(Krefs)
      BY <2>1, <2>2
    <3>5. <<x.target, p>> = <<x.target>> \o <<p>>
      OBVIOUS
    <3>6. /\ Uses(<<x.target>> \o m.slots, k) = a + c
          /\ Uses(<<x.target, p>> \o m.slots, k) = d + c
          /\ Uses(<<x.target>> \o <<p>>, k) = a + b
      <4> DEFINE y == <<x.target>>
                 z == <<p>>
                 yz == <<x.target, p>>
      <4>1. y \in Seq(Krefs) /\ z \in Seq(Krefs) /\ yz \in Seq(Krefs)
        BY <3>1
      <4> HIDE DEF y, z, yz
      <4>2. /\ Uses(y \o m.slots, k) = Uses(y, k) + Uses(m.slots, k)
            /\ Uses(yz \o m.slots, k) = Uses(yz, k) + Uses(m.slots, k)
            /\ Uses(y \o z, k) = Uses(y, k) + Uses(z, k)
        BY <2>2, <4>1, UsesOfJoined
      <4> QED
        BY <4>2 DEF y, z, yz
    <3>2. Uses(ks, k) = a + c
      BY <2>3, <3>6
    <3>3. Uses(ItemRefs(x), k) = d + c /\ d = a + b
      BY <2>2, <3>5, <3>6
    <3>4. a \in Nat /\ b \in Nat /\ c \in Nat /\ d \in Nat
      BY <2>2, <3>1, UsesType
    <3>7. b = IF p = k THEN 1 ELSE 0
      BY <2>2, UsesOfOne
    <3> HIDE DEF a, b, c, d
    <3> QED
      BY <3>2, <3>3, <3>4, <3>7
  <2>9. Shifts(HandsOf(x), Kept(x), p, -1)
    <3>1. ASSUME NEW k \in Krefs
          PROVE  Kept(x)[k] = HandsOf(x)[k] + (IF k = p THEN -1 ELSE 0)
      BY <2>4, <2>7, <2>8
    <3> QED
      BY <2>4, <2>7, <3>1, LoansAreHands DEF Shifts
  <2> QED
    BY <2>3, <2>4, <2>6, <2>9
<1> QED
  BY <1>1, <1>2

(* What a delivery comes to: a failure, an end, or a vat to act on it.      *)
Delivered(s, o, x) ==
    \/ o.vat = NoOne /\ Outcome(s, o.store, None, {})
    \/ o.vat \in Vats /\ Outcome(s, o.store, Kept(x), {})

LEMMA SendToVatIsSound ==
    ASSUME NEW x \in Items, x.type = "send", NEW s, Sound(s, HandsOf(x), {}),
           NEW k \in DOMAIN s.object, s.object[k].owner \in Vats,
           s.object[k].owner \in s.configured
    PROVE  Delivered(s, SendToVat(s, x, k), x)
<1> DEFINE v == s.object[k].owner
           m == x.message
           p == m.result
           r == [s EXCEPT !.promise[p].decider = v]
           t == Release(r, p)
           u == IF Has(t, v, k) THEN SetReachableFlag(t, v, k) ELSE Raise(t)
           ks == Append(m.slots, p)
           w == TranslateAllKtoE(u, v, ks)
<1>1. SendToVat(s, x, k) = HandTo(w, v)
  BY DEF SendToVat
<1>2. HandTo(w, v).vat = v /\ HandTo(w, v).store = w
  BY DEF HandTo
<1>3. s \in Stores /\ HandsOf(x) \in Hands /\ Kept(x) \in Loans /\ Kept(x) \in Hands
  BY HandsOfIs, LoansAreHands, KeptIs DEF Sound
<1>4. /\ p \in Promises /\ p \in Krefs /\ Exists(s, p) /\ m.slots \in Seq(Krefs) /\ p \in DOMAIN s.promise
      /\ \A i \in DOMAIN m.slots : Exists(s, m.slots[i])
  <2>1. /\ p \in Promises /\ Exists(s, p) /\ m.slots \in Seq(Krefs)
        /\ \A i \in DOMAIN m.slots : Exists(s, m.slots[i])
    BY InHandKnown
  <2>2. p \in Krefs /\ IsPromise(p)
    BY <2>1, KrefsAre
  <2> QED
    BY <1>3, <2>1, <2>2, ExistsIs
<1>5. k \in Objects /\ k \in Krefs
  BY <1>3, StoreIs, KrefsAre
<1>6. v \in Vats /\ v \in s.configured
  OBVIOUS
<1> HIDE DEF v
<1>7. Quiet(s, r)
  BY <1>3, <1>4, <1>6, DeciderIs DEF DeciderSet
<1> HIDE DEF r
<1>8. Sound(r, HandsOf(x), {}) /\ Steady(s, r)
  BY <1>3, <1>7, QuietIsSound
<1>9. Shifts(HandsOf(x), Kept(x), p, -1)
  BY KeptIs
<1>10. r \in Stores /\ Held(r, p) \in Nat /\ HandsOf(x)[p] >= 1 /\ HandsOf(x)[p] \in Nat
  <2>1. HandsOf(x)[p] = Kept(x)[p] + 1
    <3> DEFINE a == HandsOf(x)[p]
               b == Kept(x)[p]
    <3>1. b = a + (-1) /\ a \in Int
      BY <1>3, <1>4, <1>9 DEF Shifts, Hands
    <3> HIDE DEF a, b
    <3>2. a = b + 1
      BY <3>1
    <3> QED
      BY <3>2 DEF a, b
  <2>2. Kept(x)[p] \in Nat
    BY <1>3, <1>4 DEF Loans
  <2>3. r \in Stores
    BY <1>8 DEF Sound
  <2>4. Held(r, p) \in Nat
    BY <1>4, <2>3, HeldType
  <2> QED
    BY <2>1, <2>2, <2>3, <2>4
<1>11. Recount(r, t) /\ Sound(t, Kept(x), {})
  <2>1. Held(r, p) + HandsOf(x)[p] >= 1
    BY <1>10
  <2> QED
    BY <1>4, <1>8, <1>9, <2>1, ReleaseIsSound
<1> HIDE DEF t
<1>12. Steady(r, t) /\ t \in Stores
  BY <1>10, <1>11, RecountSteady DEF Sound
<1>13. Has(t, v, k) /\ Exists(t, k)
  <2>1. k \in DOMAIN t.object /\ t.object[k].owner = v
    BY <1>7, <1>11 DEF Recount, Quiet, v
  <2> QED
    BY <1>5, <1>6, <1>11, <2>1 DEF Sound, ExportsOwned, Exists
<1>14. u = SetReachableFlag(t, v, k)
  BY <1>13
<1> HIDE DEF u
<1>15. Sound(u, Kept(x), {}) /\ Steady(t, u)
  BY <1>3, <1>5, <1>6, <1>11, <1>13, <1>14, SetReachableFlagIsSound
<1>16. u \in Stores /\ Steady(s, u)
  BY <1>3, <1>8, <1>10, <1>12, <1>15, SteadyJoins DEF Sound
<1>17. Lives(u, v)
  BY <1>6, <1>16 DEF Lives, Steady
<1>18. ks \in Seq(Krefs) /\ \A i \in DOMAIN ks : Exists(u, ks[i])
  <2>1. \A j \in Krefs : Exists(s, j) => Exists(u, j)
    BY <1>16 DEF Steady
  <2>2. ks \in Seq(Krefs)
    BY <1>4
  <2>3. ASSUME NEW i \in DOMAIN ks
        PROVE  Exists(s, ks[i]) /\ ks[i] \in Krefs
    BY <1>4, <2>2
  <2> QED
    BY <2>1, <2>2, <2>3
<1> HIDE DEF ks
<1>19. Sound(w, Kept(x), {}) /\ Steady(u, w)
  BY <1>3, <1>6, <1>15, <1>17, <1>18, TranslateAllKtoEIsSound
<1> HIDE DEF w
<1>20. Lasts(s, w)
  BY <1>3, <1>16, <1>19, SteadyJoins, SteadyLasts DEF Sound
<1> QED
  BY <1>1, <1>2, <1>6, <1>19, <1>20 DEF Delivered, Outcome

LEMMA DeliverSendIsSound ==
    ASSUME NEW x \in Items, x.type = "send", NEW s, Sound(s, HandsOf(x), {}),
           running = s.configured
    PROVE  Delivered(s, DeliverSend(s, x), x)
<1> DEFINE r == Route(s, x.target)
           m == x.message
           o == DeliverSend(s, x)
<1>1. s \in Stores /\ HandsOf(x) \in Loans /\ HandsOf(x) \in Hands
  BY HandsOfIs, LoansAreHands DEF Sound
<1>2. x.target \in Krefs /\ m \in Message /\ Known(s, x.target, m) /\ Exists(s, x.target)
  BY InHandKnown
<1>3. ASSUME NEW t, Outcome(s, t, HandsOf(x), {})
      PROVE  Delivered(s, Done(ReleaseMessage(t, x)), x)
  <2>1. Outcome(s, ReleaseMessage(t, x), None, {})
    BY <1>1, <1>3, ReleaseMessageIsSound
  <2> QED
    BY <2>1 DEF Delivered, Done
<1>4. \/ /\ r.kind = "splat" /\ r.slots \in Seq(Krefs)
         /\ \A i \in DOMAIN r.slots : Exists(s, r.slots[i])
      \/ r.kind = "requeue" /\ r.to \in Promises /\ Exists(s, r.to)
      \/ /\ r.kind = "send" /\ r.to \in DOMAIN s.object
         /\ s.object[r.to].owner \in Vats
  BY <1>1, <1>2, RouteIs
<1>5. o = IF r.kind = "splat" THEN Done(ReleaseMessage(RejectResult(s, m, r.slots), x))
          ELSE IF r.kind = "requeue"
          THEN Done(ReleaseMessage(EnqueuePromiseMessage(s, r.to, m), x))
          ELSE IF s.object[r.to].owner \notin running
          THEN Done(ReleaseMessage(RejectResult(s, m, <<>>), x))
          ELSE SendToVat(s, x, r.to)
  BY DEF DeliverSend
<1> HIDE DEF r, o
<1>6. CASE r.kind = "splat"
  <2>1. r.slots \in Seq(Krefs) /\ \A i \in DOMAIN r.slots : Exists(s, r.slots[i])
    BY <1>4, <1>6
  <2>2. Outcome(s, RejectResult(s, m, r.slots), HandsOf(x), {})
    BY <1>1, <2>1, RejectResultIsSound
  <2> QED
    BY <1>3, <1>5, <1>6, <2>2 DEF o
<1>7. CASE r.kind = "requeue"
  <2>1. r.to \in Promises /\ Exists(s, r.to) /\ r.to \in Krefs
    BY <1>4, <1>7, KrefsAre
  <2>2. Known(s, r.to, m)
    <3>1. m.slots \in Seq(Krefs) /\ m.result \in Krefs
      BY <1>2, MessageRefsType
    <3>2. Exists(s, m.result) /\ \A i \in DOMAIN m.slots : Exists(s, m.slots[i])
      BY InHandKnown
    <3> DEFINE q == r.to
               a == MessageRefs(q, m)
    <3>3. a = <<q, m.result>> \o m.slots /\ a \in Seq(Krefs) /\ Exists(s, q)
      BY <1>2, <2>1, MessageRefsType
    <3> HIDE DEF q
    <3>4. ASSUME NEW i \in DOMAIN a
          PROVE  Exists(s, a[i])
      <4>1. a[1] = q /\ a[2] = m.result /\ i \in 1 .. 2 + Len(m.slots)
        BY <3>1, <3>3
      <4>2. CASE i \in {1, 2}
        BY <3>2, <3>3, <4>1, <4>2
      <4>3. CASE i \notin {1, 2}
        <5>1. i - 2 \in DOMAIN m.slots /\ a[i] = m.slots[i - 2]
          BY <3>1, <3>3, <4>1, <4>3
        <5> QED
          BY <3>2, <5>1
      <4> QED
        BY <4>2, <4>3
    <3> QED
      BY <3>4 DEF Known, q
  <2>3. Outcome(s, EnqueuePromiseMessage(s, r.to, m), HandsOf(x), {})
    BY <1>1, <1>2, <2>1, <2>2, EnqueuePromiseMessageIsSound, SteadyLasts DEF Outcome
  <2> QED
    BY <1>3, <1>5, <1>7, <2>3 DEF o
<1>8. CASE r.kind = "send"
  <2>1. r.to \in DOMAIN s.object /\ s.object[r.to].owner \in Vats
    BY <1>4, <1>8
  <2>2. CASE s.object[r.to].owner \notin running
    <3> DEFINE none == <<>>
    <3>1. none \in Seq(Krefs) /\ \A i \in DOMAIN none : Exists(s, none[i])
      OBVIOUS
    <3>2. Outcome(s, RejectResult(s, m, none), HandsOf(x), {})
      <4> HIDE DEF none
      <4> QED
        BY <1>1, <3>1, RejectResultIsSound
    <3> QED
      BY <1>3, <1>5, <1>8, <2>2, <3>2 DEF o
  <2>3. CASE s.object[r.to].owner \in running
    BY <1>5, <1>8, <2>1, <2>3, SendToVatIsSound DEF o
  <2> QED
    BY <2>2, <2>3
<1> QED
  BY <1>4, <1>6, <1>7, <1>8

-----------------------------------------------------------------------------
(* The router: notifications.                                              *)

(* The promises that settled promises lead to, in one step.                *)
KpidsNext(s, known) ==
    known \cup {q \in Promises : Settled(s, q) /\
        \E r \in known : Contains(s.promise[r].slots, q)}

(* The sets that following settled promises goes through.                  *)
KpidsRun(h, s, p) ==
    /\ h[0] = {p} /\ KpidsToRetire(s, p) = h[MaxPromises]
    /\ \A n \in 1 .. MaxPromises : h[n] = KpidsNext(s, h[n - 1])

LEMMA KpidsRuns ==
    ASSUME NEW s, NEW p, MaxPromises \in Nat
    PROVE  \E h : KpidsRun(h, s, p)
<1> DEFINE Solves(h, m) == h = [n \in 0 .. m |-> IF n = 0 THEN {p}
                                   ELSE KpidsNext(s, h[n - 1])]
           S == {m \in Nat : \E h : Solves(h, m)}
<1>1. 0 \in S
  <2>1. Solves([n \in 0 .. 0 |-> {p}], 0)
    OBVIOUS
  <2> QED
    BY <2>1
<1>2. ASSUME NEW m \in Nat, m \in S PROVE m + 1 \in S
  <2>1. PICK h : Solves(h, m)
    BY <1>2
  <2> DEFINE x == KpidsNext(s, h[m])
             g == [n \in 0 .. m + 1 |-> IF n = m + 1 THEN x ELSE h[n]]
  <2>2. /\ g[m + 1] = x /\ \A n \in 0 .. m : g[n] = h[n]
        /\ g = [n \in 0 .. m + 1 |-> g[n]]
    OBVIOUS
  <2>3. \A n \in 0 .. m : h[n] = IF n = 0 THEN {p} ELSE KpidsNext(s, h[n - 1])
    BY <2>1
  <2> HIDE DEF g
  <2>4. ASSUME NEW n \in 0 .. m + 1
        PROVE  g[n] = IF n = 0 THEN {p} ELSE KpidsNext(s, g[n - 1])
    <3>1. CASE n = m + 1
      <4>1. n - 1 = m /\ g[m] = h[m] /\ n # 0
        BY <2>2, <3>1
      <4> QED
        BY <2>2, <3>1, <4>1
    <3>2. CASE n \in 0 .. m
      <4>1. g[n] = h[n] /\ (n # 0 => g[n - 1] = h[n - 1])
        <5>1. n # 0 => n - 1 \in 0 .. m
          BY <3>2
        <5> QED
          BY <2>2, <3>2, <5>1
      <4> QED
        BY <2>3, <3>2, <4>1
    <3> QED
      BY <3>1, <3>2
  <2>5. Solves(g, m + 1)
    BY <2>2, <2>4
  <2> HIDE DEF Solves
  <2> QED
    BY <2>5
<1>3. Nat \subseteq S
  <2> HIDE DEF S
  <2> QED
    BY <1>1, <1>2, SetInduction
<1> DEFINE h == CHOOSE h : Solves(h, MaxPromises)
<1>4. Solves(h, MaxPromises)
  <2> HIDE DEF Solves
  <2> QED
    BY <1>3
<1>5. KpidsToRetire(s, p) = h[MaxPromises]
  BY DEF KpidsToRetire, KpidsNext
<1> HIDE DEF h
<1>6. \A n \in 0 .. MaxPromises : h[n] = IF n = 0 THEN {p} ELSE KpidsNext(s, h[n - 1])
  BY <1>4
<1>7. KpidsRun(h, s, p)
  BY <1>5, <1>6 DEF KpidsRun
<1> QED
  BY <1>7

LEMMA KpidsAreSettled ==
    ASSUME NEW s, NEW p \in Promises, Settled(s, p)
    PROVE  \A q \in KpidsToRetire(s, p) : q \in Promises /\ Settled(s, q)
<1>1. MaxPromises \in Nat
  BY KrefsAre
<1>2. PICK h : KpidsRun(h, s, p)
  BY <1>1, KpidsRuns
<1> DEFINE Good(known) == \A q \in known : q \in Promises /\ Settled(s, q)
           S == {n \in Nat : n <= MaxPromises => Good(h[n])}
<1>3. 0 \in S
  BY <1>2 DEF KpidsRun
<1>4. ASSUME NEW n \in Nat, n \in S PROVE n + 1 \in S
  <2> SUFFICES ASSUME n + 1 <= MaxPromises
               PROVE  Good(h[n + 1])
    OBVIOUS
  <2>1. n + 1 \in 1 .. MaxPromises /\ (n + 1) - 1 = n /\ n <= MaxPromises
    BY <1>1
  <2>2. h[n + 1] = KpidsNext(s, h[n])
    BY <1>2, <2>1 DEF KpidsRun
  <2>3. Good(h[n])
    BY <1>4, <2>1
  <2> QED
    BY <2>2, <2>3 DEF KpidsNext
<1>5. Nat \subseteq S
  <2> HIDE DEF S
  <2> QED
    BY <1>3, <1>4, SetInduction
<1> QED
  BY <1>1, <1>2, <1>5 DEF KpidsRun

(* What a vat is told of a promise.                                        *)
Report(promise, p) == <<p>> \o promise[p].slots

(* The stores that telling a vat of promises goes through. *)
TellRun(h, s, v, promise, ps) ==
    /\ h[0] = s /\ h[Len(ps)] = TellAll(s, v, promise, ps)
    /\ \A n \in 1 .. Len(ps) : h[n] = TranslateAllKtoE(h[n - 1], v, Report(promise, ps[n]))

LEMMA TellRuns ==
    ASSUME NEW s, NEW v, NEW promise, NEW ps, Len(ps) \in Nat
    PROVE  \E h : TellRun(h, s, v, promise, ps)
<1> DEFINE Solves(h, m) == h = [n \in 0 .. m |-> IF n = 0 THEN s
                                   ELSE TranslateAllKtoE(h[n - 1], v, Report(promise, ps[n]))]
           S == {m \in Nat : \E h : Solves(h, m)}
<1>1. 0 \in S
  <2>1. Solves([n \in 0 .. 0 |-> s], 0)
    OBVIOUS
  <2> QED
    BY <2>1
<1>2. ASSUME NEW m \in Nat, m \in S PROVE m + 1 \in S
  <2>1. PICK h : Solves(h, m)
    BY <1>2
  <2> DEFINE x == TranslateAllKtoE(h[m], v, Report(promise, ps[m + 1]))
             g == [n \in 0 .. m + 1 |-> IF n = m + 1 THEN x ELSE h[n]]
  <2>2. /\ g[m + 1] = x /\ \A n \in 0 .. m : g[n] = h[n]
        /\ g = [n \in 0 .. m + 1 |-> g[n]]
    OBVIOUS
  <2>3. \A n \in 0 .. m : h[n] = IF n = 0 THEN s ELSE TranslateAllKtoE(h[n - 1], v, Report(promise, ps[n]))
    BY <2>1
  <2> HIDE DEF g
  <2>4. ASSUME NEW n \in 0 .. m + 1
        PROVE  g[n] = IF n = 0 THEN s ELSE TranslateAllKtoE(g[n - 1], v, Report(promise, ps[n]))
    <3>1. CASE n = m + 1
      <4>1. n - 1 = m /\ g[m] = h[m] /\ n # 0
        BY <2>2, <3>1
      <4> QED
        BY <2>2, <3>1, <4>1
    <3>2. CASE n \in 0 .. m
      <4>1. g[n] = h[n] /\ (n # 0 => g[n - 1] = h[n - 1])
        <5>1. n # 0 => n - 1 \in 0 .. m
          BY <3>2
        <5> QED
          BY <2>2, <3>2, <5>1
      <4> QED
        BY <2>3, <3>2, <4>1
    <3> QED
      BY <3>1, <3>2
  <2>5. Solves(g, m + 1)
    BY <2>2, <2>4
  <2> HIDE DEF Solves
  <2> QED
    BY <2>5
<1>3. Nat \subseteq S
  <2> HIDE DEF S
  <2> QED
    BY <1>1, <1>2, SetInduction
<1> DEFINE h == CHOOSE h : Solves(h, Len(ps))
<1>4. Solves(h, Len(ps))
  <2> HIDE DEF Solves
  <2> QED
    BY <1>3
<1>5. TellAll(s, v, promise, ps) = h[Len(ps)]
  BY DEF TellAll, Each, Report
<1> HIDE DEF h
<1>6. \A n \in 0 .. Len(ps) : h[n] = IF n = 0 THEN s ELSE TranslateAllKtoE(h[n - 1], v, Report(promise, ps[n]))
  BY <1>4
<1>7. TellRun(h, s, v, promise, ps)
  BY <1>5, <1>6 DEF TellRun
<1> QED
  BY <1>7

LEMMA TellAllIsSound ==
    ASSUME NEW promise, NEW ps, Len(ps) \in Nat, NEW E \in Hands, NEW R, NEW s, Sound(s, E, R),
           NEW v \in Vats, Lives(s, v),
           \A n \in 1 .. Len(ps) :
              /\ Report(promise, ps[n]) \in Seq(Krefs)
              /\ \A i \in DOMAIN Report(promise, ps[n]) : Exists(s, Report(promise, ps[n])[i])
    PROVE  LET u == TellAll(s, v, promise, ps)
           IN  Sound(u, E, R) /\ Steady(s, u)
<1>1. PICK h : TellRun(h, s, v, promise, ps)
  BY TellRuns
<1>2. s \in Stores
  BY DEF Sound
<1> DEFINE S == {n \in Nat : n <= Len(ps) => Sound(h[n], E, R) /\ Steady(s, h[n])}
<1>3. 0 \in S
  BY <1>1, <1>2, SteadySelf DEF TellRun
<1>4. ASSUME NEW n \in Nat, n \in S PROVE n + 1 \in S
  <2> SUFFICES ASSUME n + 1 <= Len(ps)
               PROVE  Sound(h[n + 1], E, R) /\ Steady(s, h[n + 1])
    OBVIOUS
  <2> DEFINE t == h[n]
             u == h[n + 1]
             ks == Report(promise, ps[n + 1])
  <2>1. Sound(t, E, R) /\ Steady(s, t)
    BY <1>4
  <2>2. n + 1 \in 1 .. Len(ps) /\ (n + 1) - 1 = n
    OBVIOUS
  <2>3. u = TranslateAllKtoE(t, v, ks)
    BY <1>1, <2>2 DEF TellRun
  <2>4. ks \in Seq(Krefs) /\ \A i \in DOMAIN ks : Exists(s, ks[i])
    BY <2>2
  <2> HIDE DEF t, u, ks
  <2>5. \A i \in DOMAIN ks : Exists(t, ks[i])
    <3> TAKE i \in DOMAIN ks
    <3>1. ks[i] \in Krefs /\ Exists(s, ks[i])
      BY <2>4
    <3> QED
      BY <2>1, <3>1 DEF Steady
  <2>6. Lives(t, v)
    BY <2>1, LivesSteadily
  <2>7. Sound(u, E, R) /\ Steady(t, u)
    BY <2>1, <2>3, <2>4, <2>5, <2>6, TranslateAllKtoEIsSound
  <2>8. Steady(s, u)
    BY <1>2, <2>1, <2>7, SteadyJoins DEF Sound
  <2> QED
    BY <2>7, <2>8 DEF u
<1>5. Nat \subseteq S
  <2> HIDE DEF S
  <2> QED
    BY <1>3, <1>4, SetInduction
<1>6. Sound(h[Len(ps)], E, R) /\ Steady(s, h[Len(ps)])
  BY <1>5
<1> QED
  BY <1>1, <1>6 DEF TellRun

LEMMA ReportKnown ==
    ASSUME NEW E \in Loans, NEW R, NEW s, Sound(s, E, R), NEW q \in Promises, Settled(s, q)
    PROVE  LET ks == Report(s.promise, q)
           IN  ks \in Seq(Krefs) /\ \A i \in DOMAIN ks : Exists(s, ks[i])
<1> DEFINE slots == s.promise[q].slots
           ks == Report(s.promise, q)
<1>1. q \in DOMAIN s.promise /\ s.promise[q].state # "unresolved" /\ q \in Krefs /\ Exists(s, q)
  BY KrefsAre DEF Settled, Unresolved, Exists
<1>2. slots \in Seq(Krefs) /\ \A i \in DOMAIN slots : Exists(s, slots[i])
  BY <1>1, SlotsExist
<1>3. ks = <<q>> \o slots
  BY DEF Report
<1> HIDE DEF slots, ks
<1>4. ks \in Seq(Krefs) /\ ks[1] = q /\ DOMAIN ks = 1 .. 1 + Len(slots)
  BY <1>1, <1>2, <1>3
<1>5. ASSUME NEW i \in DOMAIN ks
      PROVE  Exists(s, ks[i])
  <2>1. CASE i = 1
    BY <1>1, <1>4, <2>1
  <2>2. CASE i # 1
    <3>1. i - 1 \in DOMAIN slots /\ ks[i] = slots[i - 1]
      BY <1>1, <1>2, <1>3, <1>4, <2>2
    <3> QED
      BY <1>2, <3>1
  <2> QED
    BY <2>1, <2>2
<1> QED
  BY <1>4, <1>5 DEF ks

LEMMA DeliverNotifyIsSound ==
    ASSUME NEW x \in Items, x.type = "notify", NEW s, Sound(s, HandsOf(x), {}),
           running = s.configured
    PROVE  Delivered(s, DeliverNotify(s, x), x)
<1> DEFINE v == x.vat
           p == x.kpid
           t == Release(s, p)
           targets == InOrder(KpidsToRetire(s, p))
           u == TellAll(t, v, s.promise, targets)
           o == DeliverNotify(s, x)
<1>1. o = IF ~Settled(s, p) THEN Done(Raise(s))
          ELSE IF ~Has(s, v, p) \/ v \notin running THEN Done(t)
          ELSE HandTo(u, v)
  BY DEF DeliverNotify
<1>2. /\ s \in Stores /\ HandsOf(x) \in Loans /\ HandsOf(x) \in Hands
      /\ None \in Loans /\ None \in Hands
  BY HandsOfIs, LoansAreHands DEF Sound
<1>3. v \in Vats /\ p \in Promises /\ p \in Krefs /\ ItemRefs(x) = <<p>>
  BY ItemRefsType, KrefsAre
<1>4. Kept(x) = None
  BY KeptIs
<1>5. Shifts(HandsOf(x), None, p, -1) /\ HandsOf(x)[p] = 1
  <2>1. ASSUME NEW k \in Krefs
        PROVE  HandsOf(x)[k] = IF p = k THEN 1 ELSE 0
    BY <1>3, UsesOfOne DEF HandsOf
  <2>2. \A k \in Krefs : None[k] = 0
    BY DEF None
  <2>3. ASSUME NEW k \in Krefs
        PROVE  None[k] = HandsOf(x)[k] + (IF k = p THEN -1 ELSE 0)
    BY <2>1, <2>2
  <2> QED
    BY <1>2, <1>3, <2>1, <2>3 DEF Shifts
<1>6. Recount(s, t) /\ Sound(t, None, {}) /\ Steady(s, t)
  <2>1. Held(s, p) \in Nat
    BY <1>2, <1>3, HeldType
  <2>2. Held(s, p) + HandsOf(x)[p] >= 1
    BY <1>5, <2>1
  <2>3. Recount(s, t) /\ Sound(t, None, {})
    BY <1>2, <1>3, <1>5, <2>2, ReleaseIsSound
  <2> QED
    BY <1>2, <2>3, RecountSteady
<1> HIDE DEF v, p, t, o
<1>7. CASE ~Settled(s, p)
  BY <1>1, <1>2, <1>7, RaiseIs DEF Delivered, Outcome, Done, o
<1>8. CASE Settled(s, p) /\ (~Has(s, v, p) \/ v \notin running)
  BY <1>1, <1>6, <1>8, SteadyLasts DEF Delivered, Outcome, Done, o
<1>9. CASE Settled(s, p) /\ Has(s, v, p) /\ v \in running
  <2>1. \A q \in KpidsToRetire(s, p) : q \in Promises /\ Settled(s, q)
    BY <1>3, <1>9, KpidsAreSettled
  <2>2. KpidsToRetire(s, p) \in SUBSET Krefs
    BY <2>1, KrefsAre
  <2>3. /\ Len(targets) \in Nat /\ DOMAIN targets = 1 .. Len(targets)
        /\ \A i \in DOMAIN targets : targets[i] \in KpidsToRetire(s, p)
    BY <2>2, KrefsInOrder
  <2> HIDE DEF targets
  <2>4. ASSUME NEW n \in 1 .. Len(targets)
        PROVE  /\ Report(s.promise, targets[n]) \in Seq(Krefs)
               /\ \A i \in DOMAIN Report(s.promise, targets[n]) :
                     Exists(t, Report(s.promise, targets[n])[i])
    <3> DEFINE ks == Report(s.promise, targets[n])
    <3>1. targets[n] \in Promises /\ Settled(s, targets[n])
      BY <2>1, <2>3
    <3>2. ks \in Seq(Krefs) /\ \A i \in DOMAIN ks : Exists(s, ks[i])
      BY <1>2, <3>1, ReportKnown
    <3> HIDE DEF ks
    <3>3. ASSUME NEW i \in DOMAIN ks
          PROVE  Exists(t, ks[i])
      <4>1. ks[i] \in Krefs /\ Exists(s, ks[i])
        BY <3>2
      <4> QED
        BY <1>6, <4>1 DEF Steady
    <3> QED
      BY <3>2, <3>3 DEF ks
  <2>5. Lives(t, v)
    BY <1>6, <1>9 DEF Lives, Steady
  <2>6. Sound(u, None, {}) /\ Steady(t, u)
    BY <1>2, <1>3, <1>6, <2>3, <2>4, <2>5, TellAllIsSound
  <2> HIDE DEF u
  <2>7. Lasts(s, u)
    BY <1>2, <1>6, <2>6, SteadyJoins, SteadyLasts DEF Sound
  <2> QED
    BY <1>1, <1>3, <1>4, <1>9, <2>6, <2>7 DEF Delivered, Outcome, HandTo, o
<1> QED
  BY <1>7, <1>8, <1>9

-----------------------------------------------------------------------------
(* The router: garbage collection actions.                                 *)

(* A failure, or a store with no more entries than it had.                 *)
Trimmed(s, t, E, R) ==
    \/ t \in Stores /\ t.failed
    \/ Sound(t, E, R) /\ Steady(s, t) /\ Shrinks(s, t)

(* The stores that clearing flags goes through. *)
DropRun(h, s, v, ks) ==
    /\ h[0] = s /\ h[Len(ks)] = DropExported(s, v, ks)
    /\ \A n \in 1 .. Len(ks) : h[n] = ClearReachableFlag(h[n - 1], v, ks[n])

LEMMA DropRuns ==
    ASSUME NEW s, NEW v, NEW ks, Len(ks) \in Nat
    PROVE  \E h : DropRun(h, s, v, ks)
<1> DEFINE Solves(h, m) == h = [n \in 0 .. m |-> IF n = 0 THEN s
                                   ELSE ClearReachableFlag(h[n - 1], v, ks[n])]
           S == {m \in Nat : \E h : Solves(h, m)}
<1>1. 0 \in S
  <2>1. Solves([n \in 0 .. 0 |-> s], 0)
    OBVIOUS
  <2> QED
    BY <2>1
<1>2. ASSUME NEW m \in Nat, m \in S PROVE m + 1 \in S
  <2>1. PICK h : Solves(h, m)
    BY <1>2
  <2> DEFINE x == ClearReachableFlag(h[m], v, ks[m + 1])
             g == [n \in 0 .. m + 1 |-> IF n = m + 1 THEN x ELSE h[n]]
  <2>2. /\ g[m + 1] = x /\ \A n \in 0 .. m : g[n] = h[n]
        /\ g = [n \in 0 .. m + 1 |-> g[n]]
    OBVIOUS
  <2>3. \A n \in 0 .. m : h[n] = IF n = 0 THEN s ELSE ClearReachableFlag(h[n - 1], v, ks[n])
    BY <2>1
  <2> HIDE DEF g
  <2>4. ASSUME NEW n \in 0 .. m + 1
        PROVE  g[n] = IF n = 0 THEN s ELSE ClearReachableFlag(g[n - 1], v, ks[n])
    <3>1. CASE n = m + 1
      <4>1. n - 1 = m /\ g[m] = h[m] /\ n # 0
        BY <2>2, <3>1
      <4> QED
        BY <2>2, <3>1, <4>1
    <3>2. CASE n \in 0 .. m
      <4>1. g[n] = h[n] /\ (n # 0 => g[n - 1] = h[n - 1])
        <5>1. n # 0 => n - 1 \in 0 .. m
          BY <3>2
        <5> QED
          BY <2>2, <3>2, <5>1
      <4> QED
        BY <2>3, <3>2, <4>1
    <3> QED
      BY <3>1, <3>2
  <2>5. Solves(g, m + 1)
    BY <2>2, <2>4
  <2> HIDE DEF Solves
  <2> QED
    BY <2>5
<1>3. Nat \subseteq S
  <2> HIDE DEF S
  <2> QED
    BY <1>1, <1>2, SetInduction
<1> DEFINE h == CHOOSE h : Solves(h, Len(ks))
<1>4. Solves(h, Len(ks))
  <2> HIDE DEF Solves
  <2> QED
    BY <1>3
<1>5. DropExported(s, v, ks) = h[Len(ks)]
  BY DEF DropExported, Each
<1> HIDE DEF h
<1>6. \A n \in 0 .. Len(ks) : h[n] = IF n = 0 THEN s ELSE ClearReachableFlag(h[n - 1], v, ks[n])
  BY <1>4
<1>7. DropRun(h, s, v, ks)
  BY <1>5, <1>6 DEF DropRun
<1> QED
  BY <1>7

(* The stores that retiring exports goes through. *)
RetireRun(h, s, v, ks) ==
    /\ h[0] = s /\ h[Len(ks)] = RetireExported(s, v, ks)
    /\ \A n \in 1 .. Len(ks) : h[n] = OrphanKernelObject(DeleteCListEntry(h[n - 1], v, ks[n]), v, ks[n])

LEMMA RetireRuns ==
    ASSUME NEW s, NEW v, NEW ks, Len(ks) \in Nat
    PROVE  \E h : RetireRun(h, s, v, ks)
<1> DEFINE Solves(h, m) == h = [n \in 0 .. m |-> IF n = 0 THEN s
                                   ELSE OrphanKernelObject(DeleteCListEntry(h[n - 1], v, ks[n]), v, ks[n])]
           S == {m \in Nat : \E h : Solves(h, m)}
<1>1. 0 \in S
  <2>1. Solves([n \in 0 .. 0 |-> s], 0)
    OBVIOUS
  <2> QED
    BY <2>1
<1>2. ASSUME NEW m \in Nat, m \in S PROVE m + 1 \in S
  <2>1. PICK h : Solves(h, m)
    BY <1>2
  <2> DEFINE x == OrphanKernelObject(DeleteCListEntry(h[m], v, ks[m + 1]), v, ks[m + 1])
             g == [n \in 0 .. m + 1 |-> IF n = m + 1 THEN x ELSE h[n]]
  <2>2. /\ g[m + 1] = x /\ \A n \in 0 .. m : g[n] = h[n]
        /\ g = [n \in 0 .. m + 1 |-> g[n]]
    OBVIOUS
  <2>3. \A n \in 0 .. m : h[n] = IF n = 0 THEN s ELSE OrphanKernelObject(DeleteCListEntry(h[n - 1], v, ks[n]), v, ks[n])
    BY <2>1
  <2> HIDE DEF g
  <2>4. ASSUME NEW n \in 0 .. m + 1
        PROVE  g[n] = IF n = 0 THEN s ELSE OrphanKernelObject(DeleteCListEntry(g[n - 1], v, ks[n]), v, ks[n])
    <3>1. CASE n = m + 1
      <4>1. n - 1 = m /\ g[m] = h[m] /\ n # 0
        BY <2>2, <3>1
      <4> QED
        BY <2>2, <3>1, <4>1
    <3>2. CASE n \in 0 .. m
      <4>1. g[n] = h[n] /\ (n # 0 => g[n - 1] = h[n - 1])
        <5>1. n # 0 => n - 1 \in 0 .. m
          BY <3>2
        <5> QED
          BY <2>2, <3>2, <5>1
      <4> QED
        BY <2>3, <3>2, <4>1
    <3> QED
      BY <3>1, <3>2
  <2>5. Solves(g, m + 1)
    BY <2>2, <2>4
  <2> HIDE DEF Solves
  <2> QED
    BY <2>5
<1>3. Nat \subseteq S
  <2> HIDE DEF S
  <2> QED
    BY <1>1, <1>2, SetInduction
<1> DEFINE h == CHOOSE h : Solves(h, Len(ks))
<1>4. Solves(h, Len(ks))
  <2> HIDE DEF Solves
  <2> QED
    BY <1>3
<1>5. RetireExported(s, v, ks) = h[Len(ks)]
  BY DEF RetireExported, Each
<1> HIDE DEF h
<1>6. \A n \in 0 .. Len(ks) : h[n] = IF n = 0 THEN s ELSE OrphanKernelObject(DeleteCListEntry(h[n - 1], v, ks[n]), v, ks[n])
  BY <1>4
<1>7. RetireRun(h, s, v, ks)
  BY <1>5, <1>6 DEF RetireRun
<1> QED
  BY <1>7

LEMMA DropExportedIsSound ==
    ASSUME NEW ks \in Seq(Objects), NEW E \in Loans, NEW R, NEW s, Sound(s, E, R), NEW v \in Vats
    PROVE  Trimmed(s, DropExported(s, v, ks), E, R)
<1>1. s \in Stores /\ Len(ks) \in Nat /\ DOMAIN ks = 1 .. Len(ks) /\ E \in Hands
  BY LoansAreHands DEF Sound
<1>2. PICK h : DropRun(h, s, v, ks)
  BY <1>1, DropRuns
<1> DEFINE S == {n \in Nat : n <= Len(ks) => Trimmed(s, h[n], E, R)}
<1>3. 0 \in S
  <2>1. h[0] = s
    BY <1>2 DEF DropRun
  <2>2. Trimmed(s, s, E, R)
    BY <1>1, SteadySelf DEF Trimmed, Shrinks
  <2> QED
    BY <2>1, <2>2
<1>4. ASSUME NEW n \in Nat, n \in S PROVE n + 1 \in S
  <2> SUFFICES ASSUME n + 1 <= Len(ks)
               PROVE  Trimmed(s, h[n + 1], E, R)
    OBVIOUS
  <2> DEFINE t == h[n]
             u == h[n + 1]
             k == ks[n + 1]
  <2>1. Trimmed(s, t, E, R)
    BY <1>1, <1>4
  <2>2. n + 1 \in 1 .. Len(ks) /\ (n + 1) - 1 = n /\ n + 1 \in DOMAIN ks /\ k \in Objects /\ k \in Krefs
    <3>1. n + 1 \in 1 .. Len(ks) /\ (n + 1) - 1 = n /\ n + 1 \in DOMAIN ks /\ k \in Objects
      BY <1>1
    <3> QED
      BY <3>1, KrefsAre
  <2>3. u = ClearReachableFlag(t, v, k)
    BY <1>2, <2>2 DEF DropRun
  <2> HIDE DEF t, u
  <2>4. CASE t.failed \/ ~Has(t, v, k)
    <3>1. t \in Stores
      BY <2>1 DEF Trimmed, Sound
    <3>2. u = Raise(t)
      <4>1. ClearReachableFlag(t, v, k) = Raise(t) /\ Raise(t).failed
        BY <2>4, <3>1, RaiseIs DEF ClearReachableFlag
      <4>2. DeleteCListEntry(t, v, k) = Raise(t)
        BY <4>1 DEF DeleteCListEntry
      <4> QED
        BY <2>3, <4>1, <4>2 DEF OrphanKernelObject
    <3> QED
      BY <3>1, <3>2, RaiseIs DEF Trimmed, u
  <2>5. CASE ~t.failed /\ Has(t, v, k)
    <3> HIDE DEF k
    <3>5. Sound(t, E, R) /\ Steady(s, t) /\ Shrinks(s, t)
      BY <2>1, <2>5 DEF Trimmed
    <3>3. Sound(u, E, R) /\ Steady(t, u) /\ Shrinks(t, u)
      BY <1>1, <2>2, <2>3, <2>5, <3>5, ClearReachableFlagIsSound DEF Shrinks
    <3>4. Steady(s, u) /\ Shrinks(s, u)
      BY <1>1, <3>5, <3>3, SteadyJoins, ShrinksJoins DEF Sound
    <3> QED
      BY <3>3, <3>4 DEF Trimmed, u
  <2> QED
    BY <2>4, <2>5
<1>5. Nat \subseteq S
  <2> HIDE DEF S
  <2> QED
    BY <1>3, <1>4, SetInduction
<1>6. Trimmed(s, h[Len(ks)], E, R)
  BY <1>1, <1>5
<1> QED
  BY <1>2, <1>6 DEF DropRun

LEMMA RetireExportedIsSound ==
    ASSUME NEW ks \in Seq(Objects), NEW E \in Loans, NEW R, NEW s, Sound(s, E, R), NEW v \in Vats,
           \A i \in DOMAIN ks : Has(s, v, ks[i]) => s.clist[v][ks[i]].dir = "export"
    PROVE  Trimmed(s, RetireExported(s, v, ks), E, R)
<1>1. s \in Stores /\ Len(ks) \in Nat /\ DOMAIN ks = 1 .. Len(ks) /\ E \in Hands
  BY LoansAreHands DEF Sound
<1>2. PICK h : RetireRun(h, s, v, ks)
  BY <1>1, RetireRuns
<1> DEFINE S == {n \in Nat : n <= Len(ks) => Trimmed(s, h[n], E, R)}
<1>3. 0 \in S
  <2>1. h[0] = s
    BY <1>2 DEF RetireRun
  <2>2. Trimmed(s, s, E, R)
    BY <1>1, SteadySelf DEF Trimmed, Shrinks
  <2> QED
    BY <2>1, <2>2
<1>4. ASSUME NEW n \in Nat, n \in S PROVE n + 1 \in S
  <2> SUFFICES ASSUME n + 1 <= Len(ks)
               PROVE  Trimmed(s, h[n + 1], E, R)
    OBVIOUS
  <2> DEFINE t == h[n]
             u == h[n + 1]
             k == ks[n + 1]
  <2>1. Trimmed(s, t, E, R)
    BY <1>1, <1>4
  <2>2. n + 1 \in 1 .. Len(ks) /\ (n + 1) - 1 = n /\ n + 1 \in DOMAIN ks /\ k \in Objects /\ k \in Krefs
    <3>1. n + 1 \in 1 .. Len(ks) /\ (n + 1) - 1 = n /\ n + 1 \in DOMAIN ks /\ k \in Objects
      BY <1>1
    <3> QED
      BY <3>1, KrefsAre
  <2>3. u = OrphanKernelObject(DeleteCListEntry(t, v, k), v, k)
    BY <1>2, <2>2 DEF RetireRun
  <2> HIDE DEF t, u
  <2>4. CASE t.failed \/ ~Has(t, v, k)
    <3>1. t \in Stores
      BY <2>1 DEF Trimmed, Sound
    <3>2. u = Raise(t)
      <4>1. ClearReachableFlag(t, v, k) = Raise(t) /\ Raise(t).failed
        BY <2>4, <3>1, RaiseIs DEF ClearReachableFlag
      <4>2. DeleteCListEntry(t, v, k) = Raise(t)
        BY <4>1 DEF DeleteCListEntry
      <4> QED
        BY <2>3, <4>1, <4>2 DEF OrphanKernelObject
    <3> QED
      BY <3>1, <3>2, RaiseIs DEF Trimmed, u
  <2>5. CASE ~t.failed /\ Has(t, v, k)
    <3> HIDE DEF k
    <3>5. Sound(t, E, R) /\ Steady(s, t) /\ Shrinks(s, t)
      BY <2>1, <2>5 DEF Trimmed
    <3>1. Has(s, v, k) /\ t.clist[v][k].dir = s.clist[v][k].dir
      BY <2>1, <2>2, <2>5, <3>5 DEF Trimmed, Shrinks
    <3>2. t.clist[v][k].dir = "export"
      BY <2>2, <3>1 DEF k
    <3>3. Sound(u, E, R) /\ Steady(t, u) /\ Shrinks(t, u)
      BY <1>1, <2>2, <2>3, <2>5, <3>5, <3>2, AbandonIsSound
    <3>4. Steady(s, u) /\ Shrinks(s, u)
      BY <1>1, <3>5, <3>3, SteadyJoins, ShrinksJoins DEF Sound
    <3> QED
      BY <3>3, <3>4 DEF Trimmed, u
  <2> QED
    BY <2>4, <2>5
<1>5. Nat \subseteq S
  <2> HIDE DEF S
  <2> QED
    BY <1>3, <1>4, SetInduction
<1>6. Trimmed(s, h[Len(ks)], E, R)
  BY <1>1, <1>5
<1> QED
  BY <1>2, <1>6 DEF RetireRun

(* A failure, or a store where the first n of ks have no entry.            *)
Emptied(s, t, v, ks, n, E, R) ==
    \/ t \in Stores /\ t.failed
    \/ /\ Sound(t, E, R) /\ Steady(s, t) /\ Shrinks(s, t)
       /\ \A i \in 1 .. n : ~Has(t, v, ks[i])

LEMMA RetireImportedIsSound ==
    ASSUME NEW ks \in Seq(Objects), NEW E \in Loans, NEW R, NEW s, Sound(s, E, R), NEW v \in Vats,
           \A i \in DOMAIN ks : Has(s, v, ks[i]) => s.clist[v][ks[i]].dir = "import"
    PROVE  Emptied(s, DeleteCListEntries(s, v, ks), v, ks, Len(ks), E, R)
<1>1. s \in Stores /\ Len(ks) \in Nat /\ DOMAIN ks = 1 .. Len(ks) /\ E \in Hands
  BY LoansAreHands DEF Sound
<1>2. PICK h : DeleteRun(h, s, v, ks)
  BY <1>1, DeleteRuns
<1> DEFINE S == {n \in Nat : n <= Len(ks) => Emptied(s, h[n], v, ks, n, E, R)}
<1>3. 0 \in S
  <2>1. h[0] = s
    BY <1>2 DEF DeleteRun
  <2>2. Emptied(s, s, v, ks, 0, E, R)
    BY <1>1, SteadySelf DEF Emptied, Shrinks
  <2> QED
    BY <2>1, <2>2
<1>4. ASSUME NEW n \in Nat, n \in S PROVE n + 1 \in S
  <2> SUFFICES ASSUME n + 1 <= Len(ks)
               PROVE  Emptied(s, h[n + 1], v, ks, n + 1, E, R)
    OBVIOUS
  <2> DEFINE t == h[n]
             u == h[n + 1]
             k == ks[n + 1]
  <2>1. Emptied(s, t, v, ks, n, E, R)
    BY <1>1, <1>4
  <2>2. n + 1 \in 1 .. Len(ks) /\ (n + 1) - 1 = n /\ n + 1 \in DOMAIN ks /\ k \in Objects /\ k \in Krefs
    <3>1. n + 1 \in 1 .. Len(ks) /\ (n + 1) - 1 = n /\ n + 1 \in DOMAIN ks /\ k \in Objects
      BY <1>1
    <3> QED
      BY <3>1, KrefsAre
  <2>3. u = DeleteCListEntry(t, v, k)
    BY <1>2, <2>2 DEF DeleteRun
  <2> HIDE DEF t, u
  <2>4. CASE t.failed \/ ~Has(t, v, k)
    <3>1. t \in Stores
      BY <2>1 DEF Emptied, Sound
    <3>2. u = Raise(t)
      <4>1. ClearReachableFlag(t, v, k) = Raise(t) /\ Raise(t).failed
        BY <2>4, <3>1, RaiseIs DEF ClearReachableFlag
      <4>2. DeleteCListEntry(t, v, k) = Raise(t)
        BY <4>1 DEF DeleteCListEntry
      <4> QED
        BY <2>3, <4>1, <4>2 DEF OrphanKernelObject
    <3> QED
      BY <3>1, <3>2, RaiseIs DEF Emptied, u
  <2>5. CASE ~t.failed /\ Has(t, v, k)
    <3> HIDE DEF k
    <3>5. Sound(t, E, R) /\ Steady(s, t) /\ Shrinks(s, t)
      BY <2>1, <2>5 DEF Emptied
    <3>1. Has(s, v, k) /\ t.clist[v][k].dir = s.clist[v][k].dir
      BY <2>1, <2>2, <2>5, <3>5 DEF Emptied, Shrinks
    <3>2. t.clist[v][k].dir = "import"
      BY <2>2, <3>1 DEF k
    <3>3. Sound(u, E, R) /\ Steady(t, u) /\ Shrinks(t, u) /\ ~Has(u, v, k)
      BY <1>1, <2>2, <2>3, <2>5, <3>5, <3>2, DeleteCListEntryIsSound DEF Stripped
    <3>4. Steady(s, u) /\ Shrinks(s, u)
      BY <1>1, <3>5, <3>3, SteadyJoins, ShrinksJoins DEF Sound
    <3>6. ASSUME NEW i \in 1 .. n + 1
          PROVE  ~Has(u, v, ks[i])
      <4>1. CASE i = n + 1
        BY <3>3, <4>1 DEF k
      <4>2. CASE i # n + 1
        <5>1. i \in 1 .. n
          BY <4>2
        <5>2. ~Has(t, v, ks[i])
          BY <2>1, <2>5, <5>1 DEF Emptied
        <5> QED
          BY <3>3, <5>2 DEF Shrinks
      <4> QED
        BY <4>1, <4>2
    <3> QED
      BY <3>3, <3>4, <3>6 DEF Emptied, u
  <2> QED
    BY <2>4, <2>5
<1>5. Nat \subseteq S
  <2> HIDE DEF S
  <2> QED
    BY <1>3, <1>4, SetInduction
<1>6. Emptied(s, h[Len(ks)], v, ks, Len(ks), E, R)
  BY <1>1, <1>5
<1> QED
  BY <1>2, <1>6 DEF DeleteRun

(* Vats that have no entry left cannot be asked to let go of it.           *)
LEMMA RetiredDrop ==
    ASSUME NEW E, NEW R, NEW s, Sound(s, E, R),
           \A v \in Vats : \A k \in Krefs : <<v, k>> \in R => ~Has(s, v, k)
    PROVE  Sound(s, E, {})
<1>1. RetiredIsGone(s, {})
  BY DEF Sound, RetiredIsGone
<1>2. ASSUME NEW k \in Krefs, NEW how
      PROVE  Entered(s, k, how, {}) = Entered(s, k, how, R)
  <2>1. \A v \in Vats : Weighs(s, v, k, how, R) <=> Weighs(s, v, k, how, {})
    BY DEF Weighs
  <2> QED
    BY <2>1, EnteredSame
<1>3. Balanced(s, E, {})
  BY <1>2 DEF Sound, Balanced
<1> QED
  BY <1>1, <1>3 DEF Sound

LEMMA GCErrandIs ==
    ASSUME NEW x \in Errands, x.type \in GCKinds
    PROVE  x.vat \in Vats /\ x.krefs \in Seq(Objects) /\ ItemRefs(x) = <<>> /\ x.type # "send"
<1>1. x \notin Items
  BY ItemIs
<1>2. x \notin [type : {"reap"}, vat : Vats]
  BY DEF GCKinds
<1>3. x \in [type : GCKinds, vat : Vats, krefs : Seq(Objects)]
  BY <1>1, <1>2 DEF Errands
<1>4. x.vat \in Vats /\ x.krefs \in Seq(Objects)
  BY <1>3
<1>5. ItemRefs(x) = <<>> /\ x.type # "send"
  BY DEF ItemRefs, GCKinds
<1> QED
  BY <1>4, <1>5

LEMMA DeliverGCActionIsSound ==
    ASSUME NEW x \in Errands, x.type \in GCKinds, NEW s, Sound(s, HandsOf(x), Retires(x)),
           RetiresExports(s, x), running = s.configured
    PROVE  Delivered(s, DeliverGCAction(s, x), x)
<1> DEFINE v == x.vat
           ks == x.krefs
           t == CASE x.type = "dropExport" -> DropExported(s, v, ks)
                  [] x.type = "retireExport" -> RetireExported(s, v, ks)
                  [] x.type = "retireImport" -> DeleteCListEntries(s, v, ks)
           o == DeliverGCAction(s, x)
<1>1. o = IF v \in running THEN HandTo(t, v)
          ELSE IF IsTerminated(s, v) THEN Done(t) ELSE Done(s)
  BY DEF DeliverGCAction
<1>2. v \in Vats /\ ks \in Seq(Objects) /\ HandsOf(x) = None /\ Kept(x) = None
  BY GCErrandIs, HandsOfIs, KeptIs
<1>3. s \in Stores /\ None \in Loans /\ Sound(s, None, Retires(x))
  BY <1>2, HandsOfIs DEF Sound
<1>4. \A w \in Vats : \A k \in Krefs : <<w, k>> \in Retires(x) =>
         w = v /\ x.type = "retireImport" /\ \E i \in DOMAIN ks : ks[i] = k
  BY DEF Retires
<1>5. x.type \in {"dropExport", "retireExport", "retireImport"}
  BY DEF GCKinds
<1>6. /\ x.type = "dropExport" => t = DropExported(s, v, ks)
      /\ x.type = "retireExport" => t = RetireExported(s, v, ks)
      /\ x.type = "retireImport" => t = DeleteCListEntries(s, v, ks)
  OBVIOUS
<1>7. RetiresExports(s, x) /\ x.type = "retireExport" =>
         \A i \in DOMAIN ks : Has(s, v, ks[i]) => s.clist[v][ks[i]].dir = "export"
  BY DEF RetiresExports
<1>8. x.type = "retireImport" => \A i \in DOMAIN ks : <<v, ks[i]>> \in Retires(x)
  BY DEF Retires
<1> HIDE DEF t, v, ks, o
<1>9. x.type # "retireImport" => Sound(s, None, {})
  BY <1>3 DEF Retires
<1>10. Outcome(s, t, None, {})
  <2>1. CASE x.type = "dropExport"
    <3>1. Trimmed(s, t, None, {})
      BY <1>2, <1>3, <1>6, <1>9, <2>1, DropExportedIsSound
    <3> QED
      BY <3>1, SteadyLasts DEF Trimmed, Outcome
  <2>2. CASE x.type = "retireExport"
    <3>1. Trimmed(s, t, None, {})
      BY <1>2, <1>3, <1>6, <1>7, <1>9, <2>2, RetireExportedIsSound
    <3> QED
      BY <3>1, SteadyLasts DEF Trimmed, Outcome
  <2>3. CASE x.type = "retireImport"
    <3> DEFINE R == Retires(x)
    <3>1. ASSUME NEW i \in DOMAIN ks, Has(s, v, ks[i])
          PROVE  s.clist[v][ks[i]].dir = "import"
      <4> DEFINE k == ks[i]
      <4>1. <<v, k>> \in R /\ k \in Objects
        BY <1>2, <1>8, <2>3
      <4> HIDE DEF k, R
      <4>2. k \notin DOMAIN s.object
        BY <1>2, <1>3, <4>1 DEF Sound, RetiredIsGone, R
      <4>3. s.clist[v][k].dir # "export"
        BY <1>2, <1>3, <3>1, <4>1, <4>2 DEF Sound, ExportsOwned, k
      <4>4. s.clist[v][k].dir \in {"import", "export"}
        BY <1>2, <1>3, <3>1, StoreIs DEF Has, CListEntries, k
      <4> QED
        BY <4>3, <4>4 DEF k
    <3> HIDE DEF R
    <3>2. Sound(s, None, R)
      BY <1>3 DEF R
    <3>3. Emptied(s, t, v, ks, Len(ks), None, R)
      BY <1>2, <1>3, <1>6, <2>3, <3>1, <3>2, RetireImportedIsSound
    <3>4. CASE t \in Stores /\ t.failed
      BY <3>4 DEF Outcome
    <3>5. CASE ~(t \in Stores /\ t.failed)
      <4>1. Sound(t, None, R) /\ Steady(s, t) /\ \A i \in 1 .. Len(ks) : ~Has(t, v, ks[i])
        BY <3>3, <3>5 DEF Emptied
      <4>2. DOMAIN ks = 1 .. Len(ks)
        BY <1>2
      <4>3. \A w \in Vats : \A k \in Krefs : <<w, k>> \in R => ~Has(t, w, k)
        BY <1>4, <4>1, <4>2 DEF R
      <4>4. Sound(t, None, {})
        BY <4>1, <4>3, RetiredDrop
      <4> QED
        BY <4>1, <4>4, SteadyLasts DEF Outcome
    <3> QED
      BY <3>4, <3>5
  <2> QED
    BY <1>5, <2>1, <2>2, <2>3
<1>11. CASE v \in running \/ IsTerminated(s, v)
  BY <1>1, <1>2, <1>10, <1>11 DEF Delivered, Done, HandTo, o
<1>12. CASE v \notin running /\ ~IsTerminated(s, v)
  <2>1. DOMAIN s.clist[v] = {}
    BY <1>2, <1>3, <1>12 DEF Sound, DeadAreEmpty
  <2>2. \A w \in Vats : \A k \in Krefs : <<w, k>> \in Retires(x) => ~Has(s, w, k)
    BY <1>4, <2>1 DEF Has
  <2>3. Sound(s, None, {})
    BY <1>3, <2>2, RetiredDrop
  <2>4. Outcome(s, s, None, {})
    BY <1>3, <2>3, LastsSelf DEF Outcome
  <2> QED
    BY <1>1, <1>12, <2>4 DEF Delivered, Done, o
<1> QED
  BY <1>11, <1>12

LEMMA DeliverIsSound ==
    ASSUME NEW x \in Errands, NEW s, Sound(s, HandsOf(x), Retires(x)), RetiresExports(s, x),
           running = s.configured
    PROVE  Delivered(s, Deliver(s, x), x)
<1>1. CASE x.type \in GCKinds
  <2>1. Deliver(s, x) = DeliverGCAction(s, x)
    BY <1>1 DEF Deliver, GCKinds
  <2> QED
    BY <1>1, <2>1, DeliverGCActionIsSound
<1>2. CASE x \in Items
  <2>1. x.type \in {"send", "notify", "terminate"} /\ Sound(s, HandsOf(x), {})
    BY <1>2, ItemRefsType, ItemIs
  <2>2. CASE x.type = "send"
    <3>1. Deliver(s, x) = DeliverSend(s, x)
      BY <2>2 DEF Deliver
    <3> QED
      BY <1>2, <2>1, <2>2, <3>1, DeliverSendIsSound
  <2>3. CASE x.type = "notify"
    <3>1. Deliver(s, x) = DeliverNotify(s, x)
      BY <2>3 DEF Deliver
    <3> QED
      BY <1>2, <2>1, <2>3, <3>1, DeliverNotifyIsSound
  <2>4. CASE x.type = "terminate"
    <3>1. Deliver(s, x) = Done(RetireVat(s, x.vat))
      BY <2>4 DEF Deliver
    <3>2. x.vat \in Vats /\ HandsOf(x) = None /\ None \in Loans
      BY <1>2, <2>4, ItemRefsType, HandsOfIs
    <3>3. Outcome(s, RetireVat(s, x.vat), None, {})
      BY <2>1, <3>2, RetireVatIsSound
    <3> QED
      BY <3>1, <3>3 DEF Delivered, Done
  <2> QED
    BY <2>1, <2>2, <2>3, <2>4
<1>3. CASE x \in [type : {"reap"}, vat : Vats]
  <2>1. x.type = "reap" /\ x.vat \in Vats /\ ItemRefs(x) = <<>> /\ Retires(x) = {}
    BY <1>3 DEF ItemRefs, Retires
  <2>2. Deliver(s, x) = IF x.vat \in running THEN HandTo(s, x.vat) ELSE Done(s)
    BY <2>1 DEF Deliver
  <2>3. HandsOf(x) = None /\ Kept(x) = None
    BY <2>1, HandsOfIs, KeptIs
  <2>4. Outcome(s, s, None, {})
    BY <2>1, <2>3, LastsSelf DEF Outcome, Sound
  <2> QED
    BY <2>1, <2>2, <2>3, <2>4 DEF Delivered, Done, HandTo
<1>4. x \in [type : GCKinds, vat : Vats, krefs : Seq(Objects)] => x.type \in GCKinds
  OBVIOUS
<1> QED
  BY <1>1, <1>2, <1>3, <1>4 DEF Errands

-----------------------------------------------------------------------------
(* Cranks.                                                                 *)

(* The outputs of the crank put on the run queue.                          *)
Flushed(s, t) == t = [s EXCEPT !.run = @ \o s.buffer, !.buffer = <<>>]

LEMMA FlushedIs ==
    ASSUME NEW s \in Stores, NEW t, Flushed(s, t)
    PROVE  /\ t \in Stores /\ t.object = s.object /\ t.clist = s.clist
           /\ t.pins = s.pins /\ t.failed = s.failed
           /\ t.promise = s.promise /\ t.terminated = s.terminated
           /\ t.configured = s.configured /\ t.nextObject = s.nextObject
           /\ t.nextPromise = s.nextPromise /\ t.actions = s.actions
           /\ t.run = s.run \o s.buffer /\ t.buffer = <<>>
<1> DEFINE q == s.run \o s.buffer
           r == [s EXCEPT !.run = q]
<1>1. q \in Seq(Items) /\ <<>> \in Seq(Items)
  <2>1. s.run \in Seq(Items) /\ s.buffer \in Seq(Items)
    BY StoreFields
  <2> QED
    BY <2>1
<1> HIDE DEF q
<1>2. r \in Stores
  BY <1>1, StoreChanges
<1>3. t = [r EXCEPT !.buffer = <<>>]
  BY DEF Flushed, q, Stores
<1>4. t \in Stores
  <2> HIDE DEF r
  <2> QED
    BY <1>1, <1>2, <1>3, StoreChanges
<1>5. t.object = s.object /\ t.clist = s.clist
  BY DEF Flushed, Stores
<1>6. t.pins = s.pins /\ t.failed = s.failed
  BY DEF Flushed, Stores
<1>7. t.promise = s.promise /\ t.terminated = s.terminated
  BY DEF Flushed, Stores
<1>8. t.configured = s.configured /\ t.nextObject = s.nextObject
  BY DEF Flushed, Stores
<1>9. t.nextPromise = s.nextPromise /\ t.actions = s.actions
  BY DEF Flushed, Stores
<1>10. t.run = s.run \o s.buffer
  BY DEF Flushed, Stores
<1>11. t.buffer = <<>>
  BY DEF Flushed, Stores
<1> QED
  BY <1>4, <1>5, <1>6, <1>7, <1>8, <1>9, <1>10, <1>11

LEMMA FlushIsSound ==
    ASSUME NEW E \in Hands, NEW R, NEW s \in Stores, NEW t, Outcome(s, t, E, R)
    PROVE  Outcome(s, Flush(t), E, R)
<1>1. CASE t \in Stores /\ t.failed
  BY <1>1 DEF Outcome, Flush
<1>2. CASE Sound(t, E, R) /\ Lasts(s, t)
  <2> DEFINE u == Flush(t)
  <2>1. t \in Stores /\ t.failed = FALSE
    BY <1>2 DEF Sound
  <2>2. Flushed(t, u)
    BY <2>1 DEF Flushed, Flush
  <2> HIDE DEF u
  <2>3. /\ u \in Stores /\ u.object = t.object /\ u.clist = t.clist
        /\ u.pins = t.pins /\ u.failed = t.failed
        /\ u.promise = t.promise /\ u.terminated = t.terminated
        /\ u.configured = t.configured /\ u.nextObject = t.nextObject
        /\ u.nextPromise = t.nextPromise /\ u.actions = t.actions
        /\ u.run = t.run \o t.buffer /\ u.buffer = <<>>
    BY <2>1, <2>2, FlushedIs
  <2>4. Passes(t, u)
    BY <2>3 DEF Passes, Retiring
  <2>5. SameRows(t.promise, u.promise)
    BY <2>3 DEF SameRows
  <2>6. Steady(t, u)
    BY <2>1, <2>3, <2>5, SameRowsSteady
  <2>7. ASSUME NEW k \in Krefs
        PROVE  Held(u, k) + E[k] = Held(t, k) + E[k]
    <3>1. t.run \in Seq(Items) /\ t.buffer \in Seq(Items)
      BY <2>1, StoreFields
    <3> DEFINE a == UsesInItems(t.run, k)
               b == UsesInItems(t.buffer, k)
               c == UsesInItems(u.run, k)
               d == UsesInItems(u.buffer, k)
    <3>2. c = a + b /\ d = 0
      BY <2>3, <3>1, UsesInJoinedItems, UsesInNoItems
    <3>3. a \in Nat /\ b \in Nat
      BY <3>1, UsesInItemsType
    <3>4. c + d = a + b
      <4> HIDE DEF a, b, c, d
      <4> QED
        BY <3>2, <3>3
    <3>5. Held(u, k) = Held(t, k)
      BY <2>3, <3>4 DEF Held
    <3> QED
      BY <3>5
  <2>8. Sound(u, E, R)
    BY <1>2, <2>4, <2>7, PassesIsSound
  <2>9. Lasts(s, u)
    BY <1>2, <2>1, <2>3, <2>6, SteadyLasts, LastsJoins
  <2> QED
    BY <2>8, <2>9 DEF Outcome, u
<1> QED
  BY <1>1, <1>2 DEF Outcome

LEMMA AfterDeliveryIsSound ==
    ASSUME NEW x \in Errands, NEW R, NEW s, Sound(s, Kept(x), R)
    PROVE  Sound(AfterDelivery(s, x), None, R) /\ Lasts(s, AfterDelivery(s, x))
<1>1. s \in Stores /\ None \in Loans /\ None \in Hands
  BY HandsOfIs, LoansAreHands DEF Sound
<1>2. CASE x.type # "send"
  <2>1. AfterDelivery(s, x) = s /\ Kept(x) = None
    BY <1>2, KeptIs DEF AfterDelivery
  <2> QED
    BY <1>1, <2>1, LastsSelf
<1>3. CASE x.type = "send"
  <2>1. x \in Items
    BY <1>3 DEF Errands, GCKinds
  <2> DEFINE ks == KeptRefs(x)
             u == ReleaseAll(s, ks)
  <2>2. ks \in Seq(Krefs) /\ Lends(None, Kept(x), ks)
    BY <1>3, <2>1, KeptIs
  <2>3. AfterDelivery(s, x) = u
    BY <1>3 DEF AfterDelivery, KeptRefs
  <2> HIDE DEF ks
  <2>4. \A k \in Krefs : Held(s, k) + None[k] >= 0
    <3> TAKE k \in Krefs
    <3>1. Held(s, k) \in Nat /\ None[k] = 0
      BY <1>1, HeldType DEF None
    <3> QED
      BY <3>1
  <2>5. Recount(s, u) /\ Sound(u, None, R)
    BY <2>2, <2>4, ReleaseAllIsSound
  <2> QED
    BY <1>1, <2>3, <2>5, RecountSteady, SteadyLasts
<1> QED
  BY <1>2, <1>3

(* What is in the hands of the crank.                                      *)
InHands == [k \in Krefs |-> Uses(InDelivery, k)]

(* The invariant: the store balances, and so does what a rollback would    *)
(* bring back, which the crank has moved on from.                          *)
KernelSound ==
    /\ Sound(saved, None, {})
    /\ Sound(store, InHands, {})
    /\ Lasts(saved, store)
    /\ crank = Idle => store = saved
    /\ running = saved.configured

(* The variables besides the stores.                                       *)
RestTyped ==
    /\ crank \in {Idle} \cup [vat : Vats, item : Errands]
    /\ verdict \in [Vats -> {"none", "illegal", "exit"}]
    /\ alive \in BOOLEAN
    /\ {requests, syscalls, refused} \subseteq Nat

LEMMA InHandsIs ==
    /\ crank = Idle => InHands = None
    /\ RestTyped /\ crank # Idle =>
          /\ InHands = Kept(crank.item) /\ crank.item \in Errands /\ crank.vat \in Vats
          /\ InHands \in Loans
<1>1. ASSUME crank = Idle PROVE InHands = None
  BY <1>1, UsesOfNone DEF InHands, InDelivery, None
<1>2. ASSUME RestTyped, crank # Idle
      PROVE  /\ InHands = Kept(crank.item) /\ crank.item \in Errands /\ crank.vat \in Vats
             /\ InHands \in Loans
  <2> DEFINE x == crank.item
  <2>1. x \in Errands /\ crank.vat \in Vats
    BY <1>2 DEF RestTyped
  <2>2. InHands = Kept(x)
    BY <1>2 DEF InHands, InDelivery, Kept, KeptRefs
  <2>3. Kept(x) \in Loans
    <3>1. CASE x.type # "send"
      BY <3>1, KeptIs, HandsOfIs
    <3>2. CASE x.type = "send"
      <4>1. x \in Items
        BY <2>1, <3>2 DEF Errands, GCKinds
      <4> QED
        BY <3>2, <4>1, KeptIs
    <3> QED
      BY <3>1, <3>2
  <2> QED
    BY <2>1, <2>2, <2>3
<1> QED
  BY <1>1, <1>2

(* What a crank leaves when it ends, kept or rolled back.                  *)
LEMMA CloseIsSound ==
    ASSUME NEW t, Outcome(saved, t, None, {}), KernelSound, Close(t, saved)
    PROVE  /\ KernelSound' /\ Lasts(saved, saved')
           /\ crank' \in {Idle} \cup [vat : Vats, item : Errands] /\ alive' \in BOOLEAN
<1>1. Sound(saved, None, {}) /\ saved \in Stores /\ running = saved.configured
  BY DEF KernelSound, Sound
<1>2. /\ store' = IF t.failed THEN saved ELSE t
      /\ alive' = ~t.failed /\ running' = running \cap store'.configured
      /\ crank' = Idle /\ saved' = store'
  BY DEF Close
<1>3. Sound(store', None, {}) /\ Lasts(saved, store')
  <2>1. CASE t.failed
    BY <1>1, <1>2, <2>1, LastsSelf
  <2>2. CASE ~t.failed
    BY <1>2, <2>2 DEF Outcome
  <2> QED
    BY <2>1, <2>2
<1>4. t.failed \in BOOLEAN
  BY DEF Outcome, Sound, Stores
<1>5. running' = saved'.configured
  BY <1>1, <1>2, <1>3 DEF Lasts
<1>6. InHands' = None
  BY <1>2, UsesOfNone DEF InHands, InDelivery, None, Idle
<1>7. Lasts(saved', store')
  BY <1>2, <1>3, LastsSelf DEF Sound
<1>8. KernelSound'
  BY <1>2, <1>3, <1>5, <1>6, <1>7 DEF KernelSound
<1> QED
  BY <1>2, <1>3, <1>4, <1>8

(* What every step does: the invariant, and what has been committed lasts. *)
Proceeds == KernelSound' /\ RestTyped' /\ Lasts(saved, saved')

LEMMA EndDeliveryProceeds ==
    ASSUME KernelSound, RestTyped, EndDelivery
    PROVE  Proceeds
<1> DEFINE v == crank.vat
           x == crank.item
           t == AfterDelivery(store, x)
           u == IF verdict[v] = "exit" THEN RetireVat(t, v) ELSE t
           w == Flush(CollectGarbage(u))
<1>1. /\ crank # Idle /\ Close(w, saved)
      /\ UNCHANGED <<verdict, requests, syscalls, refused>>
  BY DEF EndDelivery
<1>2. InHands = Kept(x) /\ x \in Errands /\ v \in Vats
  BY <1>1, InHandsIs
<1>3. /\ Sound(store, Kept(x), {}) /\ Lasts(saved, store) /\ saved \in Stores /\ store \in Stores
      /\ None \in Loans /\ None \in Hands
  BY <1>2, HandsOfIs, LoansAreHands DEF KernelSound, Sound
<1> HIDE DEF v, x
<1>4. Sound(t, None, {}) /\ Lasts(store, t)
  BY <1>2, <1>3, AfterDeliveryIsSound
<1> HIDE DEF t
<1>5. Outcome(t, u, None, {})
  <2>1. Outcome(t, t, None, {})
    BY <1>4, LastsSelf DEF Outcome, Sound
  <2>2. Outcome(t, RetireVat(t, v), None, {})
    BY <1>2, <1>3, <1>4, RetireVatIsSound
  <2> QED
    BY <2>1, <2>2
<1>6. Outcome(saved, u, None, {})
  <2>1. t \in Stores
    BY <1>4 DEF Sound
  <2>2. Lasts(saved, t)
    BY <1>3, <1>4, <2>1, LastsJoins
  <2> HIDE DEF u
  <2> QED
    BY <1>3, <1>5, <2>1, <2>2, OutcomeJoins
<1> HIDE DEF u
<1>7. Outcome(saved, CollectGarbage(u), None, {})
  BY <1>3, <1>6, CollectGarbageIsSound
<1>8. Outcome(saved, w, None, {})
  BY <1>3, <1>7, FlushIsSound
<1> HIDE DEF w
<1>9. /\ KernelSound' /\ Lasts(saved, saved')
      /\ crank' \in {Idle} \cup [vat : Vats, item : Errands] /\ alive' \in BOOLEAN
  BY <1>1, <1>8, CloseIsSound
<1> QED
  BY <1>1, <1>9 DEF Proceeds, RestTyped

LEMMA AbortDeliveryProceeds ==
    ASSUME KernelSound, RestTyped, AbortDelivery
    PROVE  Proceeds
<1> DEFINE v == crank.vat
           u == RetireVat(saved, v)
           w == CollectGarbage(u)
<1>1. /\ crank # Idle /\ Close(w, saved)
      /\ UNCHANGED <<verdict, requests, syscalls, refused>>
  BY DEF AbortDelivery
<1>2. v \in Vats
  BY <1>1, InHandsIs
<1>3. Sound(saved, None, {}) /\ saved \in Stores /\ None \in Loans
  BY HandsOfIs DEF KernelSound, Sound
<1> HIDE DEF v
<1>4. Outcome(saved, u, None, {})
  BY <1>2, <1>3, RetireVatIsSound
<1> HIDE DEF u
<1>5. Outcome(saved, w, None, {})
  BY <1>3, <1>4, CollectGarbageIsSound
<1> HIDE DEF w
<1>6. /\ KernelSound' /\ Lasts(saved, saved')
      /\ crank' \in {Idle} \cup [vat : Vats, item : Errands] /\ alive' \in BOOLEAN
  BY <1>1, <1>5, CloseIsSound
<1> QED
  BY <1>1, <1>6 DEF Proceeds, RestTyped

LEMMA HandsOfErrand ==
    ASSUME NEW x \in Errands
    PROVE  HandsOf(x) \in Loans
<1>1. CASE x \in Items
  BY <1>1, HandsOfIs
<1>2. CASE x.type \in GCKinds
  BY <1>2, GCErrandIs, HandsOfIs
<1>3. CASE x \in [type : {"reap"}, vat : Vats]
  <2>1. ItemRefs(x) = <<>>
    BY <1>3 DEF ItemRefs
  <2> QED
    BY <2>1, HandsOfIs
<1>4. x \in [type : GCKinds, vat : Vats, krefs : Seq(Objects)] => x.type \in GCKinds
  OBVIOUS
<1> QED
  BY <1>1, <1>2, <1>3, <1>4 DEF Errands

LEMMA StartCrankProceeds ==
    ASSUME KernelSound, RestTyped, StartCrank
    PROVE  Proceeds
<1> DEFINE next == NextItem(store)
           x == next.item
           n == next.store
           c == CleanupTerminatedVat(n)
           o == Deliver(c, x)
           w == Flush(CollectGarbage(o.store))
<1>1. /\ crank = Idle /\ UNCHANGED <<verdict, requests, syscalls, refused>>
      /\ IF x = NoOne THEN Close(n, store)
         ELSE IF o.store.failed \/ o.vat = NoOne THEN Close(w, store)
         ELSE /\ store' = o.store /\ saved' = store
              /\ crank' = [vat |-> o.vat, item |-> x] /\ UNCHANGED <<running, alive>>
  BY DEF StartCrank
<1>2. /\ store = saved /\ Sound(saved, None, {}) /\ saved \in Stores /\ running = saved.configured
      /\ None \in Loans /\ None \in Hands
  BY <1>1, HandsOfIs, LoansAreHands DEF KernelSound, Sound
<1>3. /\ Steady(saved, n)
      /\ \/ x = NoOne /\ Sound(n, None, {})
         \/ x \in Errands /\ Sound(n, HandsOf(x), Retires(x)) /\ RetiresExports(n, x)
  BY <1>2, NextItemIsSound
<1> HIDE DEF x, n
<1>4. n \in Stores /\ Lasts(saved, n)
  BY <1>3, SteadyLasts DEF Sound
<1>5. CASE x = NoOne
  <2>1. Sound(n, None, {}) /\ Close(n, saved)
    BY <1>1, <1>2, <1>3, <1>5, NoOneIsNoErrand
  <2>2. Outcome(saved, n, None, {})
    BY <1>4, <2>1 DEF Outcome
  <2>3. /\ KernelSound' /\ Lasts(saved, saved')
        /\ crank' \in {Idle} \cup [vat : Vats, item : Errands] /\ alive' \in BOOLEAN
    BY <2>1, <2>2, CloseIsSound
  <2> QED
    BY <1>1, <2>3 DEF Proceeds, RestTyped
<1>6. CASE x # NoOne
  <2>1. x \in Errands /\ Sound(n, HandsOf(x), Retires(x)) /\ RetiresExports(n, x)
    BY <1>3, <1>6
  <2>2. HandsOf(x) \in Loans
    BY <2>1, HandsOfErrand
  <2>3. /\ Sound(c, HandsOf(x), Retires(x)) /\ Stands(n, c) /\ Shrinks(n, c)
        /\ c.configured = n.configured
    BY <2>1, <2>2, CleanupIsSound
  <2> HIDE DEF c
  <2>4. RetiresExports(c, x)
    <3>1. ASSUME x.type = "retireExport", NEW i \in DOMAIN x.krefs, Has(c, x.vat, x.krefs[i])
          PROVE  c.clist[x.vat][x.krefs[i]].dir = "export"
      <4>1. x.vat \in Vats
        BY <2>1, <3>1, GCErrandIs DEF GCKinds
      <4>2. Has(n, x.vat, x.krefs[i]) /\ c.clist[x.vat][x.krefs[i]].dir = n.clist[x.vat][x.krefs[i]].dir
        BY <2>3, <3>1, <4>1 DEF Shrinks
      <4> QED
        BY <2>1, <3>1, <4>2 DEF RetiresExports
    <3> QED
      BY <3>1 DEF RetiresExports
  <2>5. c \in Stores /\ Lasts(saved, c) /\ running = c.configured
    <3>1. c \in Stores /\ Lasts(n, c)
      BY <2>3 DEF Sound, Lasts
    <3> QED
      BY <1>2, <1>3, <1>4, <2>3, <3>1, LastsJoins DEF Steady
  <2>6. Delivered(c, o, x)
    BY <2>1, <2>3, <2>4, <2>5, DeliverIsSound
  <2> HIDE DEF o
  <2>7. CASE o.store.failed \/ o.vat = NoOne
    <3>1. Outcome(c, o.store, None, {})
      <4>1. CASE o.vat = NoOne
        <5>1. o.vat \notin Vats
          BY <4>1, BoundsAreNaturals
        <5> QED
          BY <2>6, <5>1 DEF Delivered
      <4>2. CASE o.store.failed
        BY <2>6, <4>2 DEF Delivered, Outcome, Sound
      <4> QED
        BY <2>7, <4>1, <4>2
    <3>2. Outcome(saved, o.store, None, {})
      BY <1>2, <2>5, <3>1, OutcomeJoins
    <3>3. Outcome(saved, CollectGarbage(o.store), None, {})
      BY <1>2, <3>2, CollectGarbageIsSound
    <3>4. Outcome(saved, w, None, {})
      BY <1>2, <3>3, FlushIsSound
    <3> HIDE DEF w
    <3>5. Close(w, saved)
      BY <1>1, <1>2, <1>6, <2>7
    <3>6. /\ KernelSound' /\ Lasts(saved, saved')
          /\ crank' \in {Idle} \cup [vat : Vats, item : Errands] /\ alive' \in BOOLEAN
      BY <3>4, <3>5, CloseIsSound
    <3> QED
      BY <1>1, <3>6 DEF Proceeds, RestTyped
  <2>8. CASE ~(o.store.failed \/ o.vat = NoOne)
    <3> HIDE DEF w
    <3>1. /\ store' = o.store /\ saved' = store
          /\ crank' = [vat |-> o.vat, item |-> x] /\ running' = running /\ alive' = alive
      BY <1>1, <1>6, <2>8
    <3>2. o.vat \in Vats /\ Sound(o.store, Kept(x), {}) /\ Lasts(c, o.store)
      BY <2>6, <2>8 DEF Delivered, Outcome
    <3>3. Lasts(saved, o.store)
      BY <1>2, <2>5, <3>2, LastsJoins DEF Sound
    <3>4. crank' # Idle /\ crank'.item = x /\ crank' \in [vat : Vats, item : Errands]
      <4>1. crank'.item = x /\ Idle.item = NoOne
        BY <3>1 DEF Idle
      <4> QED
        BY <1>6, <2>1, <3>1, <3>2, <4>1
    <3>5. InHands' = Kept(x)
      BY <3>4 DEF InHands, InDelivery, Kept, KeptRefs
    <3>6. KernelSound'
      BY <1>2, <3>1, <3>2, <3>3, <3>4, <3>5 DEF KernelSound
    <3>7. Lasts(saved, saved')
      BY <1>2, <3>1, LastsSelf
    <3> QED
      BY <1>1, <3>1, <3>4, <3>6, <3>7 DEF Proceeds, RestTyped
  <2> QED
    BY <2>7, <2>8
<1> QED
  BY <1>5, <1>6

-----------------------------------------------------------------------------
(* Syscalls.                                                               *)

(* A syscall that went through, or one that failed after changing s to u.  *)
Answers(s, u, t) == /\ Sound(u, InHands, {}) /\ Steady(s, u)
                    /\ (t = u) \/ (t = Raise(u))

LEMMA AnswerIs ==
    ASSUME NEW s, NEW u, NEW t, Answers(s, u, t)
    PROVE  [t EXCEPT !.failed = FALSE] = u /\ t.failed \in BOOLEAN
<1>1. u \in Stores /\ u.failed = FALSE
  BY DEF Answers, Sound
<1>2. [u EXCEPT !.failed = FALSE] = u
  BY <1>1 DEF Stores
<1>3. [Raise(u) EXCEPT !.failed = FALSE] = u
  BY <1>1 DEF Raise, Stores
<1>4. Raise(u).failed \in BOOLEAN
  BY <1>1, RaiseIs DEF Stores
<1> QED
  BY <1>1, <1>2, <1>3, <1>4 DEF Answers

LEMMA SyscallProceeds ==
    ASSUME KernelSound, RestTyped, NEW u, NEW t, Answers(store, u, t), Syscall(t)
    PROVE  Proceeds
<1>1. /\ crank # Idle /\ store' = u /\ saved' = saved /\ crank' = crank /\ running' = running
      /\ alive' = alive /\ requests' = requests /\ syscalls' = syscalls + 1
      /\ verdict' = [verdict EXCEPT ![crank.vat] = IF t.failed THEN "illegal" ELSE "none"]
      /\ refused' = refused + (IF t.failed THEN 1 ELSE 0)
  BY AnswerIs DEF Syscall
<1>2. InHands' = InHands
  BY <1>1 DEF InHands, InDelivery
<1>3. saved \in Stores /\ store \in Stores /\ u \in Stores
  BY DEF KernelSound, Sound, Answers
<1>4. Lasts(saved, u)
  <2>1. Lasts(store, u)
    BY SteadyLasts DEF Answers
  <2> QED
    BY <1>3, <2>1, LastsJoins DEF KernelSound
<1>5. KernelSound'
  BY <1>1, <1>2, <1>4 DEF KernelSound, Answers
<1>6. RestTyped'
  <2>1. verdict' \in [Vats -> {"none", "illegal", "exit"}]
    BY <1>1 DEF RestTyped
  <2>2. {requests, syscalls, refused}' \subseteq Nat
    BY <1>1 DEF RestTyped
  <2> QED
    BY <1>1, <2>1, <2>2 DEF RestTyped
<1>7. Lasts(saved, saved')
  BY <1>1, <1>3, LastsSelf
<1> QED
  BY <1>5, <1>6, <1>7 DEF Proceeds

(* What a vat of a running crank can name, the kernel knows.               *)
LEMMA Callers ==
    ASSUME KernelSound, RestTyped, crank # Idle, crank.vat \in store.configured
    PROVE  /\ crank.vat \in Vats /\ Lives(store, crank.vat)
           /\ InHands \in Loans /\ InHands \in Hands /\ store \in Stores
           /\ Sound(store, InHands, {})
           /\ \A k \in Nameable : /\ k \in Krefs /\ Exists(store, k)
                                  /\ Names(store, crank.vat, k)
           /\ \A k \in Mentionable : k \in Krefs /\ Names(store, crank.vat, k)
<1> DEFINE v == crank.vat
<1>1. /\ v \in Vats /\ InHands \in Loans /\ InHands \in Hands
      /\ Sound(store, InHands, {}) /\ store \in Stores /\ Lives(store, v)
  BY InHandsIs, LoansAreHands DEF KernelSound, Sound, Lives
<1>2. ASSUME NEW k \in Nameable
      PROVE  k \in Krefs /\ Exists(store, k) /\ Has(store, v, k)
  <2>1. /\ k \in DOMAIN store.clist[v] /\ Has(store, v, k) /\ k \in Krefs
        /\ store.clist[v][k].reach \/ store.clist[v][k].dir = "export"
    BY <1>1, <1>2, StoreIs DEF Nameable, Has
  <2>2. CASE IsPromise(k)
    <3>1. Weighs(store, v, k, "recog", {})
      BY <2>1, <2>2 DEF Weighs
    <3> QED
      BY <1>1, <2>1, <3>1, WeighedExists
  <2>3. CASE ~IsPromise(k)
    <3>1. k \in Objects
      BY <2>1, <2>3, KrefsAre
    <3>2. k \in DOMAIN store.object
      BY <1>1, <2>1, <3>1 DEF Sound, FlagsReach, ExportsOwned
    <3> QED
      BY <2>1, <3>2 DEF Exists
  <2> QED
    BY <2>2, <2>3
<1>3. ASSUME NEW k \in Mentionable
      PROVE  k \in Krefs /\ Names(store, v, k)
  BY <1>2, <1>3, KrefsAre DEF Mentionable, Names
<1> QED
  BY <1>1, <1>2, <1>3 DEF Names

LEMMA SlotChoicesAre ==
    ASSUME NEW slots \in SlotChoices
    PROVE  slots = <<>> \/ \E k \in Mentionable : slots = <<k>>
BY DEF SlotChoices

LEMMA VatSendsProceeds ==
    ASSUME KernelSound, RestTyped, crank # Idle, VatSends
    PROVE  Proceeds
<1> DEFINE v == crank.vat
<1>1. PICK target \in Nameable, slots \in SlotChoices :
         LET t == TranslateAllEtoK(store, v, slots)
             m == [result |-> t.nextPromise, slots |-> slots]
         IN  /\ m.result \in Promises
             /\ Syscall(EnqueueSend(TranslateRefEtoK(t, v, m.result), target, m, "buffered"))
  BY DEF VatSends
<1> DEFINE t == TranslateAllEtoK(store, v, slots)
           m == [result |-> t.nextPromise, slots |-> slots]
           p == t.nextPromise
           w == TranslateRefEtoK(t, v, p)
           u == EnqueueSend(w, target, m, "buffered")
<1>2. p \in Promises /\ Syscall(u)
  BY <1>1
<1>3. v \in store.configured
  BY <1>2 DEF Syscall
<1>4. /\ v \in Vats /\ Lives(store, v) /\ InHands \in Loans /\ InHands \in Hands
      /\ store \in Stores /\ Sound(store, InHands, {})
      /\ target \in Krefs /\ Exists(store, target)
      /\ \A k \in Mentionable : k \in Krefs /\ Names(store, v, k)
  BY <1>3, Callers
<1> HIDE DEF v, u
<1>5. slots = <<>> \/ \E k \in Krefs : Names(store, v, k) /\ slots = <<k>>
  BY <1>4, SlotChoicesAre
<1>6. /\ Sound(t, InHands, {}) /\ Steady(store, t) /\ slots \in Seq(Krefs)
      /\ \A i \in DOMAIN slots : Exists(t, slots[i])
  BY <1>4, <1>5, TranslateAllEtoKIsSound
<1>7. p \in Krefs /\ Names(t, v, p) /\ Lives(t, v)
  BY <1>2, <1>4, <1>6, KrefsAre, LivesSteadily DEF Names
<1>8. m \in Message
  BY <1>2, <1>6 DEF Message
<1> HIDE DEF t
<1>9. Sound(w, InHands, {}) /\ Steady(t, w) /\ Exists(w, p)
  BY <1>4, <1>6, <1>7, TranslateRefEtoKIsSound
<1>10. m.result = p /\ m.slots = slots
  OBVIOUS
<1> HIDE DEF w, m, p
<1>11. Known(w, target, m)
  <2>1. MessageRefs(target, m) = <<target, p>> \o slots
    BY <1>10 DEF MessageRefs
  <2>2. ASSUME NEW i \in DOMAIN MessageRefs(target, m)
        PROVE  Exists(w, MessageRefs(target, m)[i])
    <3>1. MessageRefs(target, m)[i] \in {target, p} \cup {slots[j] : j \in DOMAIN slots}
      BY <1>6, <2>1, <2>2
    <3>2. Exists(w, target)
      BY <1>4, <1>6, <1>9 DEF Steady
    <3>3. \A j \in DOMAIN slots : Exists(w, slots[j])
      <4> TAKE j \in DOMAIN slots
      <4>1. slots[j] \in Krefs /\ Exists(t, slots[j])
        BY <1>6
      <4> QED
        BY <1>9, <4>1 DEF Steady
    <3> QED
      BY <1>9, <3>1, <3>2, <3>3
  <2> QED
    BY <2>2 DEF Known
<1>12. Sound(u, InHands, {}) /\ Deals(w, u)
  BY <1>4, <1>8, <1>9, <1>11, EnqueueSendIsSound DEF Known, u
<1>13. Steady(store, u)
  <2>1. store \in Stores /\ t \in Stores /\ w \in Stores /\ u \in Stores
    BY <1>4, <1>6, <1>9, <1>12 DEF Sound
  <2> QED
    BY <1>6, <1>9, <1>12, <2>1, SteadyJoins DEF Deals
<1>14. Answers(store, u, u)
  BY <1>12, <1>13 DEF Answers
<1> QED
  BY <1>2, <1>14, SyscallProceeds

LEMMA VatResolvesProceeds ==
    ASSUME KernelSound, RestTyped, crank # Idle, VatResolves
    PROVE  Proceeds
<1> DEFINE v == crank.vat
<1>1. PICK p \in (DOMAIN store.clist[crank.vat] \cap Promises)
                    \ {m.result : m \in QueuedMessages(store)},
           state \in {"fulfilled", "rejected"}, slots \in SlotChoices :
         /\ state = "rejected" => slots = <<>>
         /\ Syscall(ResolvePromise(TranslateAllEtoK(store, crank.vat, slots),
                                   crank.vat, p, state, slots, "buffered"))
  BY Zenon DEF VatResolves
<1> DEFINE t == TranslateAllEtoK(store, v, slots)
           u == ResolvePromise(t, v, p, state, slots, "buffered")
<1>2. v \in store.configured
  BY <1>1 DEF Syscall
<1>3. /\ v \in Vats /\ Lives(store, v) /\ InHands \in Loans /\ InHands \in Hands
      /\ store \in Stores /\ Sound(store, InHands, {})
      /\ \A k \in Mentionable : k \in Krefs /\ Names(store, v, k)
  BY <1>2, Callers
<1>4. Syscall(u)
  BY <1>1
<1> HIDE DEF v, u
<1>5. slots = <<>> \/ \E k \in Krefs : Names(store, v, k) /\ slots = <<k>>
  BY <1>3, SlotChoicesAre
<1>6. /\ Sound(t, InHands, {}) /\ Steady(store, t) /\ slots \in Seq(Krefs)
      /\ \A i \in DOMAIN slots : Exists(t, slots[i])
  BY <1>3, <1>5, TranslateAllEtoKIsSound
<1> HIDE DEF t
<1>7. u = Raise(t) \/ (Sound(u, InHands, {}) /\ Steady(t, u))
  BY <1>3, <1>6, ResolvePromiseIsSound DEF u
<1>8. CASE u = Raise(t)
  <2>1. Answers(store, t, u)
    BY <1>6, <1>8 DEF Answers
  <2> QED
    BY <1>4, <2>1, SyscallProceeds
<1>9. CASE Sound(u, InHands, {}) /\ Steady(t, u)
  <2>1. Steady(store, u)
    BY <1>3, <1>6, <1>9, SteadyJoins DEF Sound
  <2>2. Answers(store, u, u)
    BY <1>9, <2>1 DEF Answers
  <2> QED
    BY <1>4, <2>2, SyscallProceeds
<1> QED
  BY <1>7, <1>8, <1>9


(* A subscriber more.                                                      *)
SubscriberSet(s, t, p, v) == t = [s EXCEPT !.promise[p].subscribers = @ \cup {v}]

LEMMA SubscriberIs ==
    ASSUME NEW s \in Stores, NEW p \in DOMAIN s.promise, NEW v \in Vats, NEW t,
           SubscriberSet(s, t, p, v)
    PROVE  Quiet(s, t)
<1> DEFINE row == s.promise[p]
           new == [row EXCEPT !.subscribers = @ \cup {v}]
           f == [s.promise EXCEPT ![p] = new]
<1>1. row \in PromiseRows /\ p \in Promises /\ s.promise \in Tables(Promises, PromiseRows)
  BY StoreIs, StoreFields
<1>2. new \in PromiseRows
  BY <1>1 DEF PromiseRows
<1>3. /\ new.state = row.state /\ new.slots = row.slots /\ new.queue = row.queue
      /\ new.refs = row.refs
  BY <1>1 DEF PromiseRows
<1>4. t = [s EXCEPT !.promise = f]
  BY DEF SubscriberSet
<1> HIDE DEF new
<1>5. f \in Tables(Promises, PromiseRows) /\ DOMAIN f = DOMAIN s.promise
  BY <1>1, <1>2, TableChanges
<1>6. \A q \in DOMAIN s.promise : f[q] = IF q = p THEN new ELSE s.promise[q]
  OBVIOUS
<1> HIDE DEF f
<1>7. t \in Stores
  BY <1>4, <1>5, StoreChanges
<1>8. /\ t.promise = f /\ t.object = s.object /\ t.clist = s.clist /\ t.pins = s.pins
      /\ t.run = s.run /\ t.buffer = s.buffer /\ t.failed = s.failed
      /\ t.terminated = s.terminated /\ t.configured = s.configured
      /\ t.nextObject = s.nextObject /\ t.nextPromise = s.nextPromise /\ t.actions = s.actions
  BY <1>4 DEF Stores
<1>9. SameRows(s.promise, t.promise) /\ \A q \in DOMAIN s.promise : t.promise[q].refs = s.promise[q].refs
  BY <1>3, <1>5, <1>6, <1>8 DEF SameRows
<1> QED
  BY <1>7, <1>8, <1>9 DEF Quiet, Retiring

LEMMA VatSubscribesProceeds ==
    ASSUME KernelSound, RestTyped, crank # Idle, VatSubscribes
    PROVE  Proceeds
<1> DEFINE v == crank.vat
<1>1. PICK p \in DOMAIN store.clist[v] \cap Promises :
         Syscall(IF Unresolved(store, p)
                 THEN [store EXCEPT !.promise[p].subscribers = @ \cup {v}]
                 ELSE EnqueueNotify(store, v, p, "buffered"))
  BY Zenon DEF VatSubscribes
<1> DEFINE t == [store EXCEPT !.promise[p].subscribers = @ \cup {v}]
           u == EnqueueNotify(store, v, p, "buffered")
<1>2. v \in store.configured
  BY <1>1 DEF Syscall
<1>3. /\ v \in Vats /\ InHands \in Loans /\ InHands \in Hands
      /\ store \in Stores /\ Sound(store, InHands, {})
  BY <1>2, Callers
<1>4. CASE Unresolved(store, p)
  <2>1. Syscall(t)
    BY <1>1, <1>4
  <2>2. SubscriberSet(store, t, p, v) /\ p \in DOMAIN store.promise
    BY <1>4 DEF SubscriberSet, Unresolved
  <2> HIDE DEF t, v
  <2>3. Quiet(store, t)
    BY <1>3, <2>2, SubscriberIs
  <2>4. Answers(store, t, t)
    BY <1>3, <2>3, QuietIsSound DEF Answers
  <2> QED
    BY <2>1, <2>4, SyscallProceeds
<1>5. CASE ~Unresolved(store, p)
  <2>1. Syscall(u)
    BY <1>1, <1>5
  <2>2. p \in Krefs /\ IsPromise(p) /\ p \in Promises /\ Has(store, v, p)
    BY <1>1, KrefsAre DEF Has
  <2> HIDE DEF u, v
  <2>3. Weighs(store, v, p, "recog", {})
    BY <2>2 DEF Weighs
  <2>4. Exists(store, p)
    BY <1>3, <2>2, <2>3, WeighedExists
  <2>5. Answers(store, u, u)
    BY <1>3, <2>2, <2>4, EnqueueNotifyIsSound DEF Answers, Deals, u
  <2> QED
    BY <2>1, <2>5, SyscallProceeds
<1> QED
  BY <1>4, <1>5

LEMMA ImportsAre ==
    ASSUME KernelSound, RestTyped, crank # Idle, NEW k \in Imports
    PROVE  /\ crank.vat \in Vats /\ k \in Krefs /\ k \in Objects /\ Has(store, crank.vat, k)
           /\ store.clist[crank.vat][k].dir = "import"
BY InHandsIs, KrefsAre DEF Imports, Has

LEMMA VatDropsImportProceeds ==
    ASSUME KernelSound, RestTyped, crank # Idle, VatDropsImport
    PROVE  Proceeds
<1> DEFINE v == crank.vat
<1>1. PICK k \in Imports : Syscall(ClearReachableFlag(store, v, k))
  BY DEF VatDropsImport
<1>2. v \in Vats /\ k \in Krefs /\ Has(store, v, k)
  BY <1>1, ImportsAre
<1>3. Sound(store, InHands, {}) /\ InHands \in Loans /\ InHands \in Hands
  BY InHandsIs, LoansAreHands DEF KernelSound
<1> DEFINE u == ClearReachableFlag(store, v, k)
<1> HIDE DEF v
<1>4. Answers(store, u, u)
  BY <1>2, <1>3, ClearReachableFlagIsSound DEF Answers
<1> HIDE DEF u
<1> QED
  BY <1>1, <1>4, SyscallProceeds DEF u

LEMMA VatRetiresImportProceeds ==
    ASSUME KernelSound, RestTyped, crank # Idle, VatRetiresImport
    PROVE  Proceeds
<1> DEFINE v == crank.vat
<1>1. PICK k \in Imports : Syscall(IF store.clist[v][k].reach THEN Raise(store)
                                   ELSE DeleteCListEntry(store, v, k))
  BY DEF VatRetiresImport
<1>2. v \in Vats /\ k \in Krefs /\ Has(store, v, k) /\ store.clist[v][k].dir = "import"
  BY <1>1, ImportsAre
<1>3. /\ Sound(store, InHands, {}) /\ InHands \in Loans /\ InHands \in Hands
      /\ store \in Stores
  BY InHandsIs, LoansAreHands DEF KernelSound, Sound
<1> DEFINE u == DeleteCListEntry(store, v, k)
           t == Raise(store)
<1>4. Syscall(t) \/ Syscall(u)
  BY <1>1
<1> HIDE DEF v
<1>5. Answers(store, u, u)
  BY <1>2, <1>3, DeleteCListEntryIsSound DEF Answers
<1>6. Answers(store, store, t)
  BY <1>3, SteadySelf DEF Answers
<1> HIDE DEF u, t
<1> QED
  BY <1>4, <1>5, <1>6, SyscallProceeds

LEMMA VatCleansUpExportProceeds ==
    ASSUME KernelSound, RestTyped, crank # Idle, VatCleansUpExport
    PROVE  Proceeds
<1> DEFINE v == crank.vat
<1>1. PICK k \in DOMAIN store.clist[v] \cap Objects, check \in BOOLEAN :
         Syscall(ExportCleanup(store, v, k, check))
  BY Zenon DEF VatCleansUpExport
<1>2. /\ Sound(store, InHands, {}) /\ InHands \in Loans /\ InHands \in Hands
      /\ store \in Stores /\ v \in Vats
  BY InHandsIs, LoansAreHands DEF KernelSound, Sound
<1>3. k \in Objects /\ Has(store, v, k)
  BY <1>1 DEF Has
<1> DEFINE u == OrphanKernelObject(DeleteCListEntry(store, v, k), v, k)
           t == Raise(store)
<1>4. Syscall(t) \/ (Syscall(u) /\ store.clist[v][k].dir = "export")
  BY <1>1 DEF ExportCleanup
<1> HIDE DEF v
<1>5. store.clist[v][k].dir = "export" => Answers(store, u, u)
  BY <1>2, <1>3, AbandonIsSound DEF Answers
<1>6. Answers(store, store, t)
  BY <1>2, SteadySelf DEF Answers
<1> HIDE DEF u, t
<1> QED
  BY <1>4, <1>5, <1>6, SyscallProceeds

LEMMA VatExitsProceeds ==
    ASSUME KernelSound, RestTyped, VatExits
    PROVE  Proceeds
<1>1. /\ UNCHANGED <<store, saved, crank, running, alive, requests, refused>>
      /\ verdict' = [verdict EXCEPT ![crank.vat] = "exit"] /\ syscalls' = syscalls + 1
  BY DEF VatExits
<1>2. KernelSound'
  BY <1>1 DEF KernelSound, InHands, InDelivery
<1>3. RestTyped'
  <2>1. verdict' \in [Vats -> {"none", "illegal", "exit"}]
    BY <1>1 DEF RestTyped
  <2>2. {requests, syscalls, refused}' \subseteq Nat
    BY <1>1 DEF RestTyped
  <2> QED
    BY <1>1, <2>1, <2>2 DEF RestTyped
<1>4. Lasts(saved, saved')
  BY <1>1, LastsSelf DEF KernelSound, Sound
<1> QED
  BY <1>2, <1>3, <1>4 DEF Proceeds

-----------------------------------------------------------------------------
(* Requests.                                                               *)

LEMMA RequestProceeds ==
    ASSUME KernelSound, RestTyped, NEW t, Sound(t, None, {}), Steady(store, t), Request(t)
    PROVE  Proceeds
<1>1. /\ crank = Idle /\ store' = t /\ saved' = t /\ requests' = requests + 1
      /\ UNCHANGED <<crank, verdict, running, alive, syscalls, refused>>
  BY DEF Request
<1>2. store = saved /\ running = saved.configured
  BY <1>1 DEF KernelSound
<1>3. InHands' = None
  BY <1>1, UsesOfNone DEF InHands, InDelivery, None
<1>4. t \in Stores /\ Lasts(t, t)
  BY LastsSelf DEF Sound
<1>5. running' = saved'.configured
  BY <1>1, <1>2 DEF Steady
<1>6. KernelSound'
  BY <1>1, <1>3, <1>4, <1>5 DEF KernelSound
<1>7. RestTyped'
  <2>1. {requests, syscalls, refused}' \subseteq Nat
    BY <1>1 DEF RestTyped
  <2> QED
    BY <1>1, <2>1 DEF RestTyped
<1>8. Lasts(saved, saved')
  BY <1>1, <1>2, SteadyLasts
<1> QED
  BY <1>6, <1>7, <1>8 DEF Proceeds

LEMMA IdleKernel ==
    ASSUME KernelSound, crank = Idle
    PROVE  /\ Sound(store, None, {}) /\ store \in Stores /\ running \subseteq Vats
           /\ None \in Loans /\ None \in Hands
<1>1. store = saved /\ Sound(store, None, {}) /\ store \in Stores /\ running = store.configured
  BY DEF KernelSound, Sound
<1> QED
  BY <1>1, HandsOfIs, LoansAreHands DEF Stores

LEMMA QueueMessageProceeds ==
    ASSUME KernelSound, RestTyped, QueueMessage
    PROVE  Proceeds
<1>1. PICK v \in Vats, slots \in {<<>>} \cup {<<Root(w)>> : w \in Vats} :
         LET ks == <<Root(v)>> \o slots
             m  == [result |-> store.nextPromise, slots |-> slots]
         IN  /\ \A i \in DOMAIN ks : Exists(store, ks[i])
             /\ m.result \in Promises
             /\ Request(EnqueueSend(InitKernelPromise(store, NoOne), Root(v), m, "immediate"))
  BY Zenon DEF QueueMessage
<1> DEFINE k  == Root(v)
           p  == store.nextPromise
           ks == <<k>> \o slots
           m  == [result |-> p, slots |-> slots]
           t  == InitKernelPromise(store, NoOne)
           u  == EnqueueSend(t, k, m, "immediate")
<1>2. (\A i \in DOMAIN ks : Exists(store, ks[i])) /\ p \in Promises /\ Request(u)
  BY <1>1
<1>3. crank = Idle
  BY <1>2 DEF Request
<1>4. /\ Sound(store, None, {}) /\ store \in Stores
      /\ None \in Loans /\ None \in Hands
  BY <1>3, IdleKernel
<1>5. k \in Krefs /\ p \in Krefs
  BY <1>2, RootIs, KrefsAre
<1>6. slots \in Seq(Krefs)
  <2>1. slots = <<>> \/ \E w \in Vats : slots = <<Root(w)>>
    BY <1>1
  <2>2. <<>> \in Seq(Krefs)
    OBVIOUS
  <2>3. \A w \in Vats : <<Root(w)>> \in Seq(Krefs)
    <3>1. \A x \in Krefs : <<x>> \in Seq(Krefs)
      OBVIOUS
    <3> QED
      BY <3>1, RootIs, KrefsAre
  <2> QED
    BY <2>1, <2>2, <2>3
<1>7. m \in Message /\ m.result = p /\ m.slots = slots
  BY <1>2, <1>6 DEF Message
<1> HIDE DEF k, u, m
<1>8. Exists(store, k) /\ \A j \in DOMAIN slots : Exists(store, slots[j])
  <2>1. 1 \in DOMAIN ks /\ ks[1] = k
    BY <1>5, <1>6
  <2>2. \A j \in DOMAIN slots : j + 1 \in DOMAIN ks /\ ks[j + 1] = slots[j]
    BY <1>5, <1>6
  <2> HIDE DEF ks
  <2> QED
    BY <1>2, <2>1, <2>2
<1>9. Sound(t, None, {}) /\ Steady(store, t) /\ Exists(t, p)
  BY <1>2, <1>4, InitKernelPromiseIsSound
<1> HIDE DEF t, p, ks
<1>10. Known(t, k, m)
  <2>1. MessageRefs(k, m) = <<k, p>> \o slots
    BY <1>7 DEF MessageRefs
  <2>2. ASSUME NEW i \in DOMAIN MessageRefs(k, m)
        PROVE  Exists(t, MessageRefs(k, m)[i])
    <3>1. MessageRefs(k, m)[i] \in {k, p} \cup {slots[j] : j \in DOMAIN slots}
      BY <1>5, <1>6, <2>1, <2>2
    <3>2. Exists(t, k)
      BY <1>5, <1>8, <1>9 DEF Steady
    <3>3. \A j \in DOMAIN slots : Exists(t, slots[j])
      <4> TAKE j \in DOMAIN slots
      <4>1. slots[j] \in Krefs
        BY <1>6
      <4> QED
        BY <1>8, <1>9, <4>1 DEF Steady
    <3> QED
      BY <1>9, <3>1, <3>2, <3>3
  <2> QED
    BY <2>2 DEF Known
<1>11. Sound(u, None, {}) /\ Deals(t, u)
  BY <1>4, <1>5, <1>7, <1>9, <1>10, EnqueueSendIsSound DEF Known, u
<1>12. Steady(store, u)
  <2>1. t \in Stores /\ u \in Stores
    BY <1>9, <1>11 DEF Sound
  <2> QED
    BY <1>4, <1>9, <1>11, <2>1, SteadyJoins DEF Deals
<1> QED
  BY <1>2, <1>11, <1>12, RequestProceeds

(* A request for the end of a vat, put on the run queue.                   *)
Termination(v) == [type |-> "terminate", vat |-> v]
EndAsked(s, t, v) == t = [s EXCEPT !.run = Append(@, Termination(v))]

LEMMA EndAskedIs ==
    ASSUME NEW s \in Stores, NEW v \in Vats, NEW t, EndAsked(s, t, v)
    PROVE  /\ Queued(s, t, Termination(v)) /\ Termination(v) \in Items
           /\ ItemRefs(Termination(v)) = <<>>
<1>1. Termination(v) \in Items
  BY DEF Termination, Items
<1>2. ItemRefs(Termination(v)) = <<>>
  BY DEF Termination, ItemRefs
<1> DEFINE x == Termination(v)
           run == Append(s.run, x)
<1>3. run \in Seq(Items)
  BY <1>1, StoreFields
<1>4. t = [s EXCEPT !.run = run]
  BY DEF EndAsked
<1> HIDE DEF run, x
<1>5. t \in Stores
  BY <1>3, <1>4, StoreChanges
<1>6. /\ t.run = run /\ t.promise = s.promise /\ t.object = s.object /\ t.clist = s.clist
      /\ t.pins = s.pins /\ t.buffer = s.buffer /\ t.failed = s.failed
      /\ t.terminated = s.terminated /\ t.configured = s.configured
      /\ t.nextObject = s.nextObject /\ t.nextPromise = s.nextPromise /\ t.actions = s.actions
  BY <1>4 DEF Stores
<1> QED
  BY <1>1, <1>2, <1>5, <1>6 DEF Queued, run, x

LEMMA RequestTerminationProceeds ==
    ASSUME KernelSound, RestTyped, RequestTermination
    PROVE  Proceeds
<1>1. PICK v \in store.configured :
         Request([store EXCEPT !.run = Append(@, [type |-> "terminate", vat |-> v])])
  BY DEF RequestTermination
<1> DEFINE t == [store EXCEPT !.run = Append(@, [type |-> "terminate", vat |-> v])]
<1>2. Request(t) /\ crank = Idle
  BY <1>1 DEF Request
<1>3. /\ Sound(store, None, {}) /\ store \in Stores
      /\ None \in Loans /\ None \in Hands
  BY <1>2, IdleKernel
<1>4. v \in Vats
  BY <1>1, <1>3, StoreFields
<1>5. EndAsked(store, t, v)
  BY DEF EndAsked, Termination
<1> HIDE DEF t
<1>6. /\ Queued(store, t, Termination(v)) /\ Termination(v) \in Items
      /\ ItemRefs(Termination(v)) = <<>>
  BY <1>3, <1>4, <1>5, EndAskedIs
<1>7. Lends(None, None, <<>>)
  BY <1>3, UsesOfNone DEF Lends, None
<1>8. Sound(t, None, {}) /\ Steady(store, t)
  BY <1>3, <1>6, <1>7, QueuedIsSound
<1> QED
  BY <1>2, <1>8, RequestProceeds

ReapAsked(s, t, v) == t = [s EXCEPT !.reaps = Append(@, v)]

LEMMA ReapAskedIs ==
    ASSUME NEW s \in Stores, NEW v \in Vats, NEW t, ReapAsked(s, t, v)
    PROVE  Quiet(s, t)
<1> DEFINE reaps == Append(s.reaps, v)
<1>1. reaps \in Seq(Vats)
  BY StoreFields
<1>2. t = [s EXCEPT !.reaps = reaps]
  BY DEF ReapAsked
<1> HIDE DEF reaps
<1>3. t \in Stores
  BY <1>1, <1>2, StoreChanges
<1>4. /\ t.promise = s.promise /\ t.object = s.object /\ t.clist = s.clist
      /\ t.pins = s.pins /\ t.buffer = s.buffer /\ t.failed = s.failed /\ t.run = s.run
      /\ t.terminated = s.terminated /\ t.configured = s.configured
      /\ t.nextObject = s.nextObject /\ t.nextPromise = s.nextPromise /\ t.actions = s.actions
  BY <1>2 DEF Stores
<1> QED
  BY <1>3, <1>4 DEF Quiet, SameRows, Retiring

LEMMA ScheduleReapProceeds ==
    ASSUME KernelSound, RestTyped, ScheduleReap
    PROVE  Proceeds
<1>1. PICK v \in running : Request([store EXCEPT !.reaps = Append(@, v)])
  BY DEF ScheduleReap
<1> DEFINE t == [store EXCEPT !.reaps = Append(@, v)]
<1>2. Request(t) /\ crank = Idle
  BY <1>1 DEF Request
<1>3. /\ Sound(store, None, {}) /\ store \in Stores
      /\ None \in Loans /\ None \in Hands /\ v \in Vats
  BY <1>1, <1>2, IdleKernel
<1>4. ReapAsked(store, t, v)
  BY DEF ReapAsked
<1> HIDE DEF t
<1>5. Sound(t, None, {}) /\ Steady(store, t)
  BY <1>3, <1>4, ReapAskedIs, QuietIsSound
<1> QED
  BY <1>2, <1>5, RequestProceeds

LEMMA UnpinRootProceeds ==
    ASSUME KernelSound, RestTyped, UnpinRoot
    PROVE  Proceeds
<1>1. PICK v \in running : Request(Unpin(store, Root(v)))
  BY DEF UnpinRoot
<1> DEFINE t == Unpin(store, Root(v))
<1>2. Request(t) /\ crank = Idle
  BY <1>1 DEF Request
<1>3. Sound(store, None, {}) /\ None \in Loans /\ v \in Vats
  BY <1>1, <1>2, IdleKernel
<1>4. Sound(t, None, {}) /\ Steady(store, t)
  BY <1>3, RootIs, UnpinIsSound
<1> HIDE DEF t
<1> QED
  BY <1>2, <1>4, RequestProceeds

-----------------------------------------------------------------------------
(* The launch.                                                             *)

(* No promises, no references from them.                                   *)
LEMMA NoPromises ==
    ASSUME NEW f \in Tables(Promises, PromiseRows), DOMAIN f = {}, NEW k
    PROVE  UsesInPromises(f, k) = 0
<1> DEFINE g == [i \in 1 .. MaxPromises |-> Share(f, MaxObjects + i, k)]
           z == [n \in 0 .. MaxPromises |-> 0]
<1>1. /\ UsesInPromises(f, k) = Total(g) /\ g \in Seq(Nat) /\ Len(g) = MaxPromises
      /\ \A i \in 1 .. MaxPromises : g[i] = 0
  BY PromiseShares DEF Share
<1>2. MaxPromises \in Nat
  BY KrefsAre
<1>3. z \in [0 .. MaxPromises -> Int] /\ \A n \in 0 .. MaxPromises : z[n] = 0
  OBVIOUS
<1> HIDE DEF g, z
<1>4. z[0] = 0 /\ z[MaxPromises] = 0 /\ \A n \in 1 .. MaxPromises : z[n] = z[n - 1] + g[n]
  BY <1>1, <1>2, <1>3
<1>5. Total(g) = z[Len(g)]
  BY <1>1, <1>3, <1>4, TotalIs
<1> QED
  BY <1>1, <1>4, <1>5

Roots == 1 .. NumVats
RootRows == [k \in Roots |-> [owner |-> k, reach |-> NumVats, recog |-> NumVats]]
RootEntries(v) ==
    [k \in Roots |-> [dir |-> IF k = v THEN "export" ELSE "import", reach |-> TRUE]]

LEMMA LaunchedIs ==
    LET s == LaunchedStore
    IN  /\ s \in Stores /\ s.failed = FALSE /\ s.object = RootRows /\ DOMAIN s.promise = {}
        /\ \A v \in Vats : s.clist[v] = RootEntries(v)
        /\ s.pins = [k \in Objects |-> IF k <= NumVats THEN 1 ELSE 0]
        /\ s.run = <<>> /\ s.buffer = <<>> /\ s.actions = {} /\ s.configured = Vats
        /\ s.nextObject = NumVats + 1 /\ s.nextPromise = MaxObjects + 1
<1> DEFINE s == LaunchedStore
<1>1. /\ s.failed = FALSE /\ s.object = RootRows /\ s.promise = [p \in {} |-> NoOne]
      /\ s.clist = [v \in Vats |-> RootEntries(v)]
      /\ s.pins = [k \in Objects |-> IF k <= NumVats THEN 1 ELSE 0]
      /\ s.run = <<>> /\ s.buffer = <<>> /\ s.actions = {} /\ s.configured = Vats
      /\ s.nextObject = NumVats + 1 /\ s.nextPromise = MaxObjects + 1
      /\ s.reaps = <<>> /\ s.free = <<>> /\ s.terminated = <<>>
  BY DEF LaunchedStore, RootRows, RootEntries, Roots
<1>2. s = [object |-> s.object, promise |-> s.promise, clist |-> s.clist, pins |-> s.pins,
           run |-> s.run, buffer |-> s.buffer, reaps |-> s.reaps, actions |-> s.actions,
           free |-> s.free, terminated |-> s.terminated, configured |-> s.configured,
           nextObject |-> s.nextObject, nextPromise |-> s.nextPromise, failed |-> s.failed]
  BY DEF LaunchedStore
<1> HIDE DEF s
<1>3. Roots \subseteq Objects /\ Roots \subseteq Krefs /\ Roots = Vats
  BY BoundsAreNaturals, KrefsAre DEF Roots, Objects, Vats
<1>4. s.object \in Tables(Objects, ObjectRows)
  <2>1. RootRows \in [Roots -> ObjectRows]
    BY <1>3, KrefsAre DEF RootRows, ObjectRows
  <2> QED
    BY <1>1, <1>3, <2>1 DEF Tables
<1>5. s.promise \in Tables(Promises, PromiseRows) /\ DOMAIN s.promise = {}
  <2>1. s.promise \in [{} -> PromiseRows]
    BY <1>1
  <2> QED
    BY <2>1 DEF Tables
<1>6. s.clist \in [Vats -> Tables(Krefs, CListEntries)]
  <2>1. \A v \in Vats : RootEntries(v) \in [Roots -> CListEntries]
    BY DEF RootEntries, CListEntries
  <2>2. \A v \in Vats : RootEntries(v) \in Tables(Krefs, CListEntries)
    BY <1>3, <2>1 DEF Tables
  <2> QED
    BY <1>1, <2>2
<1>7. s.pins \in [Objects -> Nat] /\ s.nextObject \in Nat /\ s.nextPromise \in Nat
  BY <1>1, KrefsAre
<1>8. /\ s.run \in Seq(Items) /\ s.buffer \in Seq(Items) /\ s.reaps \in Seq(Vats)
      /\ s.free \in Seq(Krefs) /\ s.terminated \in Seq(Vats)
  BY <1>1
<1>9. /\ s.actions \in SUBSET [vat : Vats, type : GCKinds, kref : Objects]
      /\ s.configured \in SUBSET Vats /\ s.failed \in BOOLEAN
  BY <1>1
<1>10. s \in Stores
  BY <1>2, <1>4, <1>5, <1>6, <1>7, <1>8, <1>9 DEF Stores
<1>11. \A v \in Vats : s.clist[v] = RootEntries(v)
  BY <1>1
<1> QED
  BY <1>1, <1>5, <1>10, <1>11 DEF s

(* Every vat but its owner imports a root.                                 *)
LEMMA RootImporters ==
    ASSUME NEW k \in Vats, NEW how
    PROVE  Entered(LaunchedStore, k, how, {}) = NumVats - 1
<1> DEFINE s == LaunchedStore
<1>1. /\ \A v \in Vats : s.clist[v] = RootEntries(v)
      /\ s.actions = {} /\ NumVats \in Nat /\ ~IsPromise(k)
  <2>1. ~IsPromise(k)
    BY KrefsAre, BoundsAreNaturals DEF IsPromise, Vats
  <2> QED
    BY <2>1, LaunchedIs, KrefsAre
<1> HIDE DEF s
<1>2. \A v \in Vats : Weighs(s, v, k, how, {}) <=> v # k
  <2> TAKE v \in Vats
  <2>1. Has(s, v, k) /\ s.clist[v][k] = [dir |-> IF k = v THEN "export" ELSE "import", reach |-> TRUE]
    BY <1>1 DEF Has, RootEntries, Roots, Vats
  <2>2. ~Retiring(s, v, k)
    BY <1>1 DEF Retiring
  <2> QED
    BY <1>1, <2>1, <2>2 DEF Weighs
<1>3. {v \in Vats : Weighs(s, v, k, how, {})} = Vats \ {k}
  BY <1>2
<1>4. IsFiniteSet(Vats) /\ Cardinality(Vats) = NumVats
  BY <1>1, FS_Interval DEF Vats
<1>5. Cardinality(Vats \ {k}) = NumVats - 1
  BY <1>4, FS_RemoveElement
<1> QED
  BY <1>3, <1>5 DEF Entered, s

LEMMA LaunchedIsSound == Sound(LaunchedStore, None, {})
<1> DEFINE s == LaunchedStore
<1>1. /\ s \in Stores /\ s.failed = FALSE /\ s.object = RootRows /\ DOMAIN s.promise = {}
      /\ \A v \in Vats : s.clist[v] = RootEntries(v)
      /\ s.pins = [k \in Objects |-> IF k <= NumVats THEN 1 ELSE 0]
      /\ s.run = <<>> /\ s.buffer = <<>> /\ s.actions = {} /\ s.configured = Vats
      /\ s.nextObject = NumVats + 1 /\ s.nextPromise = MaxObjects + 1
  BY LaunchedIs
<1>2. \A k \in Vats : \A how : Entered(s, k, how, {}) = NumVats - 1
  BY RootImporters
<1> HIDE DEF s
<1>3. /\ NumVats \in Nat /\ MaxObjects \in Nat /\ NumVats <= MaxObjects
      /\ Vats = 1 .. NumVats /\ Objects = 1 .. MaxObjects /\ DOMAIN s.object = Vats
      /\ \A v \in Vats : DOMAIN s.clist[v] = Vats
  BY <1>1, BoundsAreNaturals, KrefsAre DEF Vats, Objects, RootRows, RootEntries, Roots
<1>4. Fresh(s)
  BY <1>1, <1>3 DEF Fresh
<1>5. ExportsOwned(s)
  <2>1. ASSUME NEW v \in Vats, NEW k \in Objects
        PROVE  Has(s, v, k) /\ s.clist[v][k].dir = "export" <=>
                   k \in DOMAIN s.object /\ s.object[k].owner = v
    <3>1. CASE k \notin Vats
      BY <1>3, <3>1 DEF Has
    <3>2. CASE k \in Vats
      <4>1. Has(s, v, k) /\ k \in DOMAIN s.object
        BY <1>3, <3>2 DEF Has
      <4>2. s.clist[v][k].dir = IF k = v THEN "export" ELSE "import"
        <5>1. s.clist[v] = RootEntries(v) /\ k \in Roots
          BY <1>1, <1>3, <2>1, <3>2 DEF Roots
        <5>2. RootEntries(v)[k] = [dir |-> IF k = v THEN "export" ELSE "import", reach |-> TRUE]
          BY <5>1 DEF RootEntries
        <5> QED
          BY <5>1, <5>2
      <4>3. s.object[k].owner = k
        BY <1>1, <1>3, <3>2 DEF RootRows, Roots
      <4> QED
        BY <4>1, <4>2, <4>3
    <3> QED
      BY <3>1, <3>2
  <2> QED
    BY <2>1 DEF ExportsOwned
<1>6. FlagsReach(s)
  BY <1>3 DEF FlagsReach, Has
<1>7. RetiredIsGone(s, {})
  BY <1>1 DEF RetiredIsGone, Retiring
<1>8. DeadAreEmpty(s)
  BY <1>1 DEF DeadAreEmpty
<1>9. Balanced(s, None, {})
  <2>1. ASSUME NEW k \in Krefs
        PROVE  Held(s, k) = IF k \in Vats THEN 1 ELSE 0
    <3>1. UsesInItems(s.run, k) = 0 /\ UsesInItems(s.buffer, k) = 0
      BY <1>1, UsesInNoItems
    <3>2. UsesInPromises(s.promise, k) = 0
      BY <1>1, NoPromises, StoreFields
    <3>3. (IF IsPromise(k) THEN 0 ELSE s.pins[k]) = IF k \in Vats THEN 1 ELSE 0
      <4>1. CASE IsPromise(k)
        BY <1>3, <4>1 DEF IsPromise
      <4>2. CASE ~IsPromise(k)
        <5>1. k \in Objects
          BY <4>2, KrefsAre
        <5> QED
          BY <1>1, <1>3, <4>2, <5>1
      <4> QED
        BY <4>1, <4>2
    <3> QED
      BY <3>1, <3>2, <3>3 DEF Held
  <2>2. ASSUME NEW k \in Krefs, k \notin Vats
        PROVE  ~Exists(s, k) /\ Held(s, k) + None[k] + Entered(s, k, "recog", {}) = 0
    <3>1. Entered(s, k, "recog", {}) = 0
      BY <1>3, <2>2, EnteredNone DEF Weighs, Has
    <3> QED
      BY <1>1, <1>3, <2>1, <2>2, <3>1 DEF Exists, None
  <2>3. ASSUME NEW k \in Krefs, k \in Vats
        PROVE  /\ Exists(s, k)
               /\ Reached(s, k) = Held(s, k) + None[k] + Entered(s, k, "reach", {})
               /\ Recognized(s, k) = Held(s, k) + None[k] + Entered(s, k, "recog", {})
    <3>1. Exists(s, k) /\ ~IsPromise(k)
      BY <1>3, <2>3 DEF Exists, IsPromise
    <3>2. s.object[k].reach = NumVats /\ s.object[k].recog = NumVats
      BY <1>1, <1>3, <2>3 DEF RootRows, Roots
    <3>3. Held(s, k) = 1 /\ None[k] = 0
      BY <2>1, <2>3 DEF None
    <3> QED
      BY <1>2, <1>3, <2>3, <3>1, <3>2, <3>3 DEF Reached, Recognized
  <2> QED
    BY <2>2, <2>3 DEF Balanced
<1> QED
  BY <1>1, <1>4, <1>5, <1>6, <1>7, <1>8, <1>9 DEF Sound, s

LEMMA InitIsSound ==
    ASSUME Init
    PROVE  KernelSound /\ RestTyped
<1>1. /\ store = LaunchedStore /\ saved = store /\ crank = Idle /\ running = Vats
      /\ verdict = [v \in Vats |-> "none"] /\ alive = TRUE
      /\ requests = 0 /\ syscalls = 0 /\ refused = 0
  BY DEF Init
<1>2. InHands = None
  BY <1>1, InHandsIs
<1>3. Sound(store, None, {}) /\ store \in Stores /\ store.configured = Vats
  BY <1>1, LaunchedIsSound, LaunchedIs
<1>4. KernelSound
  BY <1>1, <1>2, <1>3, LastsSelf DEF KernelSound
<1>5. RestTyped
  BY <1>1 DEF RestTyped
<1> QED
  BY <1>4, <1>5

-----------------------------------------------------------------------------
(* The theorems.                                                           *)

LEMMA StutterProceeds ==
    ASSUME KernelSound, RestTyped, UNCHANGED vars
    PROVE  Proceeds
<1>1. UNCHANGED <<store, saved, crank, verdict, running, alive, requests, syscalls, refused>>
  BY DEF vars
<1>2. KernelSound'
  BY <1>1 DEF KernelSound, InHands, InDelivery
<1>3. RestTyped'
  BY <1>1 DEF RestTyped
<1>4. Lasts(saved, saved')
  BY <1>1, LastsSelf DEF KernelSound, Sound
<1> QED
  BY <1>2, <1>3, <1>4 DEF Proceeds

LEMMA NextProceeds ==
    ASSUME KernelSound, RestTyped, [Next]_vars
    PROVE  Proceeds
<1>1. CASE StartCrank
  BY <1>1, StartCrankProceeds
<1>2. CASE EndDelivery
  BY <1>2, EndDeliveryProceeds
<1>3. CASE AbortDelivery
  BY <1>3, AbortDeliveryProceeds
<1>4. CASE crank # Idle /\ VatSends
  BY <1>4, VatSendsProceeds
<1>5. CASE crank # Idle /\ VatResolves
  BY <1>5, VatResolvesProceeds
<1>6. CASE crank # Idle /\ VatSubscribes
  BY <1>6, VatSubscribesProceeds
<1>7. CASE crank # Idle /\ VatDropsImport
  BY <1>7, VatDropsImportProceeds
<1>8. CASE crank # Idle /\ VatRetiresImport
  BY <1>8, VatRetiresImportProceeds
<1>9. CASE crank # Idle /\ VatCleansUpExport
  BY <1>9, VatCleansUpExportProceeds
<1>10. CASE VatExits
  BY <1>10, VatExitsProceeds
<1>11. CASE QueueMessage
  BY <1>11, QueueMessageProceeds
<1>12. CASE RequestTermination
  BY <1>12, RequestTerminationProceeds
<1>13. CASE ScheduleReap
  BY <1>13, ScheduleReapProceeds
<1>14. CASE UnpinRoot
  BY <1>14, UnpinRootProceeds
<1>15. CASE UNCHANGED vars
  BY <1>15, StutterProceeds
<1> QED
  BY <1>1, <1>2, <1>3, <1>4, <1>5, <1>6, <1>7, <1>8, <1>9, <1>10, <1>11, <1>12, <1>13, <1>14,
     <1>15 DEF Next

(* The inductive invariant holds in every state.                           *)
THEOREM KernelStaysSound == Spec => [](KernelSound /\ RestTyped)
<1>1. Init => KernelSound /\ RestTyped
  BY InitIsSound
<1>2. (KernelSound /\ RestTyped) /\ [Next]_vars => (KernelSound /\ RestTyped)'
  BY NextProceeds DEF Proceeds
<1> QED
  BY <1>1, <1>2, PTL DEF Spec

LEMMA SoundTypes ==
    ASSUME NEW s \in Stores
    PROVE  StoreTyped(s)
<1>1. IsTable(s.object, Objects, ObjectRows) /\ IsTable(s.promise, Promises, PromiseRows)
  BY StoreIs DEF IsTable
<1>2. \A v \in Vats : IsTable(s.clist[v], Krefs, CListEntries)
  BY StoreIs DEF IsTable
<1> QED
  BY <1>1, <1>2, StoreFields DEF StoreTyped

(* TypeOK in every state.                                                  *)
THEOREM ReferencesTypeCorrect == Spec => []TypeOK
<1>1. ASSUME KernelSound, RestTyped PROVE TypeOK
  <2>1. store \in Stores /\ saved \in Stores /\ running = saved.configured
    BY <1>1 DEF KernelSound, Sound
  <2>2. StoreTyped(store) /\ StoreTyped(saved)
    BY <2>1, SoundTypes
  <2>3. running \subseteq Vats
    BY <2>1, StoreFields
  <2> QED
    BY <1>1, <2>2, <2>3 DEF TypeOK, RestTyped
<1>2. KernelSound /\ RestTyped => TypeOK
  BY <1>1
<1> QED
  BY <1>2, KernelStaysSound, PTL

(* Counts that balance are the numbers of the references.                  *)
LEMMA BalancedCounts ==
    ASSUME NEW E \in Loans, NEW s, Sound(s, E, {}), NEW k \in Krefs
    PROVE  Counted(s, k, E[k])
<1> DEFINE strong == Held(s, k) + E[k] + Entries(s, k, "reach")
           weak   == Held(s, k) + E[k] + Entries(s, k, "recog")
<1>1. s \in Stores /\ Balanced(s, E, {})
  BY DEF Sound
<1>2. IF Exists(s, k) THEN Reached(s, k) = strong /\ Recognized(s, k) = weak ELSE weak = 0
  BY <1>1, EnteredIsEntries DEF Balanced
<1>3. Counted(s, k, E[k]) <=>
         IF ~Exists(s, k) THEN weak = 0
         ELSE IF IsPromise(k) THEN s.promise[k].refs = strong
         ELSE s.object[k].reach = strong /\ s.object[k].recog = weak
  BY DEF Counted
<1> HIDE DEF strong, weak
<1> QED
  BY <1>2, <1>3 DEF Reached, Recognized

(* CountsMatchHolders: the count kept with each object and promise is, at  *)
(* every moment, the number of references to it, through syscalls that     *)
(* failed partway, rollbacks, collections and the death of vats.           *)
THEOREM CountsAlwaysMatchHolders == Spec => []CountsMatchHolders
<1>1. ASSUME KernelSound, RestTyped PROVE CountsMatchHolders
  <2>1. InHands \in Loans /\ Sound(store, InHands, {})
    BY <1>1, InHandsIs, HandsOfIs DEF KernelSound
  <2>2. \A k \in Krefs : Counted(store, k, InHands[k])
    BY <2>1, BalancedCounts
  <2>3. \A k \in Krefs : InHands[k] = Uses(InDelivery, k)
    BY DEF InHands
  <2> QED
    BY <2>2, <2>3 DEF CountsMatchHolders
<1>2. KernelSound /\ RestTyped => CountsMatchHolders
  BY <1>1
<1> QED
  BY <1>2, KernelStaysSound, PTL

(* ExportsHaveOwners: a vat's exports are the objects it owns, dead or     *)
(* alive, and every owner has its c-list entry.                            *)
THEOREM ExportsAlwaysHaveOwners == Spec => []ExportsHaveOwners
<1>1. ASSUME KernelSound PROVE ExportsHaveOwners
  <2>1. store \in Stores /\ ExportsOwned(store)
    BY <1>1 DEF KernelSound, Sound
  <2>2. ASSUME NEW k \in DOMAIN store.object, store.object[k].owner # NoOne
        PROVE  k \in Objects /\ store.object[k].owner \in Vats
    BY <2>1, <2>2, StoreIs DEF ObjectRows
  <2> QED
    BY <2>1, <2>2 DEF ExportsOwned, ExportsHaveOwners
<1>2. KernelSound /\ RestTyped => ExportsHaveOwners
  BY <1>1
<1> QED
  BY <1>2, KernelStaysSound, PTL

(* SettlementsStand: a settlement that has been committed stands for as    *)
(* long as its promise exists.                                             *)
THEOREM CommittedSettlementsAlwaysStand == Spec => SettlementsStand
<1> DEFINE Stand ==
        LET now  == Committed.promise
            then == Committed'.promise
        IN  \A p \in DOMAIN now \cap DOMAIN then :
              now[p].state # "unresolved" =>
                  then[p].state = now[p].state /\ then[p].slots = now[p].slots
<1>1. KernelSound => Committed = saved
  BY DEF KernelSound, Committed
<1>2. ASSUME KernelSound, RestTyped, [Next]_vars PROVE Stand
  <2>1. KernelSound' /\ Lasts(saved, saved') /\ KernelSound
    BY <1>2, NextProceeds DEF Proceeds
  <2>2. Committed = saved
    BY <1>1, <2>1
  <2>3. Committed' = saved'
    BY <2>1 DEF KernelSound, Committed
  <2>4. \A p \in DOMAIN saved.promise : p < saved.nextPromise
    BY <2>1 DEF KernelSound, Sound, Fresh
  <2>5. \A p \in DOMAIN saved.promise \cap DOMAIN saved'.promise :
           saved.promise[p].state # "unresolved" =>
              /\ saved'.promise[p].state = saved.promise[p].state
              /\ saved'.promise[p].slots = saved.promise[p].slots
    BY <2>1, <2>4 DEF Lasts, Stands
  <2> QED
    BY <2>2, <2>3, <2>5
<1>3. (KernelSound /\ RestTyped) /\ [Next]_vars => Stand
  BY <1>2
<1>4. SettlementsStand <=> [][Stand]_vars
  BY DEF SettlementsStand
<1> HIDE DEF Stand
<1> QED
  BY <1>3, <1>4, KernelStaysSound, PTL DEF Spec

-----------------------------------------------------------------------------
(* Who will settle a promise: a vat that lives and has it in its c-list,   *)
(* or whoever gets the message whose result it is.                         *)

Minded(s, p) ==
    s.promise[p].decider \in s.configured /\ Has(s, s.promise[p].decider, p)

Carries(items, q) ==
    \E i \in DOMAIN items : items[i].type = "send" /\ items[i].message.result = q

Awaits(s, p, q) ==
    Unresolved(s, p) /\ \E i \in DOMAIN s.promise[p].queue : s.promise[p].queue[i].result = q

Travels(s, q) ==
    Carries(s.run, q) \/ Carries(s.buffer, q) \/ \E p \in DOMAIN s.promise : Awaits(s, p, q)

(* The promises that nobody will settle.                                   *)
Stranded(s) == {q \in Promises : Unresolved(s, q) /\ ~Minded(s, q) /\ ~Travels(s, q)}

(* The same promises wait, for the same vats and with the same queues.     *)
Rows(s, t) ==
    \A q \in Promises :
        /\ Unresolved(t, q) <=> Unresolved(s, q)
        /\ Unresolved(s, q) => /\ t.promise[q].decider = s.promise[q].decider
                               /\ t.promise[q].queue = s.promise[q].queue

Face(s, t) ==
    /\ t \in Stores /\ Rows(s, t) /\ t.run = s.run /\ t.buffer = s.buffer
    /\ t.configured = s.configured /\ t.terminated = s.terminated

(* And they are in the c-lists they were in, or in those that matter.      *)
Level(s, t) ==
    Face(s, t) /\ \A v \in Vats : \A q : Has(t, v, q) <=> Has(s, v, q)
Minds(s, t) ==
    Face(s, t) /\ \A v \in s.configured, q \in Promises : Has(s, v, q) => Has(t, v, q)

(* What leaves no promise to nobody; what is done at once leaves the       *)
(* outputs of the crank alone.                                             *)
Tends(s, t, when) ==
    /\ t \in Stores /\ t.configured = s.configured /\ t.terminated = s.terminated
    /\ when = "immediate" => t.buffer = s.buffer
    /\ Stranded(t) \subseteq Stranded(s)

LEMMA LevelMinds ==
    ASSUME NEW s \in Stores, NEW t, Level(s, t)
    PROVE  Minds(s, t)
  BY StoreFields DEF Level, Minds

LEMMA LevelSelf ==
    ASSUME NEW s \in Stores
    PROVE  Level(s, s) /\ Minds(s, s) /\ \A when : Tends(s, s, when)
  BY DEF Level, Minds, Face, Rows, Tends

LEMMA RowsJoin ==
    ASSUME NEW s, NEW t, NEW u, Rows(s, t), Rows(t, u)
    PROVE  Rows(s, u)
  BY DEF Rows

LEMMA FaceJoins ==
    ASSUME NEW s, NEW t, NEW u, Face(s, t), Face(t, u)
    PROVE  Face(s, u)
  BY RowsJoin DEF Face

LEMMA LevelJoins ==
    ASSUME NEW s, NEW t, NEW u
    PROVE  /\ Level(s, t) /\ Level(t, u) => Level(s, u)
           /\ Minds(s, t) /\ Minds(t, u) => Minds(s, u)
<1>1. ASSUME Level(s, t), Level(t, u) PROVE Level(s, u)
  BY <1>1, FaceJoins DEF Level
<1>2. ASSUME Minds(s, t), Minds(t, u) PROVE Minds(s, u)
  <2>1. Face(s, u) /\ t.configured = s.configured
    BY <1>2, FaceJoins DEF Minds, Face
  <2> QED
    BY <1>2, <2>1 DEF Minds
<1> QED
  BY <1>1, <1>2

LEMMA TendsJoins ==
    ASSUME NEW s, NEW t, NEW u, NEW when, Tends(s, t, when), Tends(t, u, when)
    PROVE  Tends(s, u, when)
  BY DEF Tends

LEMMA FaceTravels ==
    ASSUME NEW s \in Stores, NEW t, Face(s, t), NEW q
    PROVE  Travels(s, q) <=> Travels(t, q)
<1>1. t \in Stores /\ t.run = s.run /\ t.buffer = s.buffer
  BY DEF Face, Rows
<1>2. DOMAIN s.promise \subseteq Promises /\ DOMAIN t.promise \subseteq Promises
  BY <1>1, StoreIs
<1>3. ASSUME NEW p \in Promises PROVE Awaits(s, p, q) <=> Awaits(t, p, q)
  BY <1>3 DEF Face, Rows, Awaits
<1>4. \A p : /\ Awaits(s, p, q) => p \in DOMAIN s.promise
             /\ Awaits(t, p, q) => p \in DOMAIN t.promise
  BY DEF Awaits, Unresolved
<1> QED
  BY <1>1, <1>2, <1>3, <1>4 DEF Travels

LEMMA MindsTends ==
    ASSUME NEW s \in Stores, NEW t, Minds(s, t)
    PROVE  \A when : Tends(s, t, when)
<1>1. Face(s, t)
  BY DEF Minds
<1>2. ASSUME NEW q \in Promises, Unresolved(s, q), Minded(s, q) PROVE Minded(t, q)
  <2>1. t.promise[q].decider = s.promise[q].decider /\ t.configured = s.configured
    BY <1>1, <1>2 DEF Face, Rows
  <2> QED
    BY <1>2, <2>1 DEF Minds, Minded
<1>3. Stranded(t) \subseteq Stranded(s)
  <2> SUFFICES ASSUME NEW q \in Promises, Unresolved(t, q), ~Minded(t, q), ~Travels(t, q)
               PROVE  Unresolved(s, q) /\ ~Minded(s, q) /\ ~Travels(s, q)
    BY DEF Stranded
  <2> QED
    BY <1>1, <1>2, FaceTravels DEF Face, Rows
<1> QED
  BY <1>1, <1>3 DEF Face, Rows, Tends

(* What changes counts alone.                                              *)
LEMMA RecountLevel ==
    ASSUME NEW s \in Stores, NEW t, Recount(s, t)
    PROVE  Level(s, t)
<1>1. Rows(s, t)
  BY DEF Recount, SameRows, Unresolved, Rows
<1>2. Face(s, t)
  BY <1>1 DEF Recount, Frame, Face, Rows
<1> QED
  BY <1>2 DEF Recount, Level, Has

LEMMA RaiseLevel ==
    ASSUME NEW s \in Stores
    PROVE  Level(s, Raise(s)) /\ Raise(s).failed
<1>1. Raise(s) \in Stores /\ Raise(s).failed
  BY RaiseIs
<1> QED
  BY <1>1 DEF Raise, Stores, Level, Face, Rows, Unresolved, Has

LEMMA CandidateLevel ==
    ASSUME NEW s \in Stores, NEW k \in Krefs
    PROVE  Level(s, Candidate(s, k))
  BY CandidateIs, RecountLevel

LEMMA SetCountsLevel ==
    ASSUME NEW s \in Stores, NEW k \in DOMAIN s.object, NEW reach \in Int, NEW recog \in Int
    PROVE  Level(s, SetCounts(s, k, reach, recog))
<1>1. CASE 0 <= reach /\ reach <= recog
  <2>1. reach \in Nat /\ recog \in Nat
    BY <1>1
  <2> QED
    BY <1>1, <2>1, SetCountsIs, RecountLevel
<1>2. CASE ~(0 <= reach /\ reach <= recog)
  BY <1>2, RaiseLevel DEF SetCounts
<1> QED
  BY <1>1, <1>2

LEMMA ObjectRowIs ==
    ASSUME NEW s \in Stores, NEW k \in DOMAIN s.object
    PROVE  /\ k \in Krefs /\ k \in Objects /\ s.object[k].reach \in Nat
           /\ s.object[k].recog \in Nat /\ s.object[k].owner \in Vats \cup {NoOne}
  BY StoreIs, KrefsAre DEF ObjectRows

LEMMA ChargeLevel ==
    ASSUME NEW s \in Stores, NEW k \in Krefs
    PROVE  Level(s, Charge(s, k))
<1>1. CASE s.failed \/ ~Exists(s, k)
  BY <1>1, RaiseLevel DEF Charge
<1>2. CASE ~(s.failed \/ ~Exists(s, k)) /\ IsPromise(k)
  <2> DEFINE t == [s EXCEPT !.promise[k].refs = s.promise[k].refs + 1]
  <2>1. k \in DOMAIN s.promise /\ Charge(s, k) = t
    BY <1>2, ExistsIs DEF Charge
  <2>2. s.promise[k].refs + 1 \in Nat
    BY <2>1, StoreIs DEF PromiseRows
  <2>3. Recount(s, t)
    BY <2>1, <2>2, PromiseCountIs
  <2> QED
    BY <2>1, <2>3, RecountLevel
<1>3. CASE ~(s.failed \/ ~Exists(s, k)) /\ ~IsPromise(k)
  <2>1. k \in DOMAIN s.object
    BY <1>3, ExistsIs
  <2>2. Charge(s, k) = SetCounts(s, k, s.object[k].reach + 1, s.object[k].recog + 1)
    BY <1>3 DEF Charge
  <2>3. s.object[k].reach + 1 \in Int /\ s.object[k].recog + 1 \in Int
    BY <2>1, ObjectRowIs
  <2> QED
    BY <2>1, <2>2, <2>3, SetCountsLevel
<1> QED
  BY <1>1, <1>2, <1>3

LEMMA ReleasePromiseLevel ==
    ASSUME NEW s \in Stores, NEW k \in Krefs
    PROVE  Level(s, ReleasePromise(s, k))
<1>1. CASE k \notin DOMAIN s.promise \/ s.promise[k].refs = 0
  BY <1>1, RaiseLevel DEF ReleasePromise
<1>2. CASE ~(k \notin DOMAIN s.promise \/ s.promise[k].refs = 0)
  <2> DEFINE t == [s EXCEPT !.promise[k].refs = s.promise[k].refs - 1]
  <2>1. ReleasePromise(s, k) = IF t.promise[k].refs = 0 THEN Candidate(t, k) ELSE t
    BY <1>2 DEF ReleasePromise
  <2>2. s.promise[k].refs - 1 \in Nat
    BY <1>2, StoreIs DEF PromiseRows
  <2>3. Recount(s, t)
    BY <1>2, <2>2, PromiseCountIs
  <2> HIDE DEF t
  <2>4. t \in Stores /\ Level(s, t)
    BY <2>3, RecountLevel DEF Recount
  <2>5. Level(t, Candidate(t, k))
    BY <2>4, CandidateLevel
  <2> QED
    BY <2>1, <2>4, <2>5, LevelJoins
<1> QED
  BY <1>1, <1>2

LEMMA ReleaseObjectLevel ==
    ASSUME NEW s \in Stores, NEW k \in Krefs, NEW reach \in {0, 1}
    PROVE  Level(s, ReleaseObject(s, k, reach))
<1>1. CASE k \notin DOMAIN s.object
  BY <1>1, LevelSelf DEF ReleaseObject
<1>2. CASE k \in DOMAIN s.object
  <2> DEFINE r == s.object[k].reach - reach
             g == s.object[k].recog - 1
             t == IF r = 0 \/ g = 0 THEN Candidate(s, k) ELSE s
  <2>1. ReleaseObject(s, k, reach) = SetCounts(t, k, r, g)
    BY <1>2 DEF ReleaseObject
  <2>2. r \in Int /\ g \in Int
    BY <1>2, ObjectRowIs
  <2>3. Recount(s, t)
    BY CandidateIs, RecountSelf
  <2> HIDE DEF r, g, t
  <2>4. t \in Stores /\ k \in DOMAIN t.object /\ Level(s, t)
    BY <1>2, <2>3, RecountLevel DEF Recount
  <2> QED
    BY <2>1, <2>2, <2>4, SetCountsLevel, LevelJoins
<1> QED
  BY <1>1, <1>2

LEMMA ReleaseLevel ==
    ASSUME NEW s \in Stores, NEW k \in Krefs
    PROVE  Level(s, Release(s, k))
  BY LevelSelf, ReleasePromiseLevel, ReleaseObjectLevel DEF Release

(* One such change after another.                                          *)
LEMMA LevelAlong ==
    ASSUME NEW h, NEW m \in Nat, h[0] \in Stores,
           \A n \in 1 .. m : h[n - 1] \in Stores => Level(h[n - 1], h[n])
    PROVE  Level(h[0], h[m]) /\ \A n \in 0 .. m : h[n] \in Stores
<1> DEFINE S == {n \in Nat : n <= m => Level(h[0], h[n]) /\ h[n] \in Stores}
<1>1. 0 \in S
  BY LevelSelf
<1>2. ASSUME NEW n \in Nat, n \in S PROVE n + 1 \in S
  <2> SUFFICES ASSUME n + 1 <= m PROVE Level(h[0], h[n + 1]) /\ h[n + 1] \in Stores
    OBVIOUS
  <2>1. n + 1 \in 1 .. m /\ (n + 1) - 1 = n /\ Level(h[0], h[n]) /\ h[n] \in Stores
    BY <1>2
  <2>2. Level(h[n], h[n + 1])
    BY <2>1
  <2>3. Level(h[0], h[n + 1])
    BY <2>1, <2>2, LevelJoins
  <2> QED
    BY <2>3 DEF Level, Face, Rows
<1>3. Nat \subseteq S
  <2> HIDE DEF S
  <2> QED
    BY <1>1, <1>2, SetInduction
<1> QED
  BY <1>3

LEMMA MindsAlong ==
    ASSUME NEW h, NEW m \in Nat, h[0] \in Stores,
           \A n \in 1 .. m : h[n - 1] \in Stores /\ Minds(h[0], h[n - 1]) => Minds(h[n - 1], h[n])
    PROVE  Minds(h[0], h[m]) /\ \A n \in 0 .. m : h[n] \in Stores /\ Minds(h[0], h[n])
<1> DEFINE S == {n \in Nat : n <= m => Minds(h[0], h[n]) /\ h[n] \in Stores}
<1>1. 0 \in S
  BY LevelSelf
<1>2. ASSUME NEW n \in Nat, n \in S PROVE n + 1 \in S
  <2> SUFFICES ASSUME n + 1 <= m PROVE Minds(h[0], h[n + 1]) /\ h[n + 1] \in Stores
    OBVIOUS
  <2>1. n + 1 \in 1 .. m /\ (n + 1) - 1 = n /\ Minds(h[0], h[n]) /\ h[n] \in Stores
    BY <1>2
  <2>2. Minds(h[n], h[n + 1])
    BY <2>1
  <2>3. Minds(h[0], h[n + 1])
    BY <2>1, <2>2, LevelJoins
  <2> QED
    BY <2>3 DEF Minds, Face, Rows
<1>3. Nat \subseteq S
  <2> HIDE DEF S
  <2> QED
    BY <1>1, <1>2, SetInduction
<1> QED
  BY <1>3

LEMMA ChargeAllLevel ==
    ASSUME NEW s \in Stores, NEW ks \in Seq(Krefs)
    PROVE  Level(s, ChargeAll(s, ks))
<1>1. Len(ks) \in Nat /\ \A n \in 1 .. Len(ks) : ks[n] \in Krefs
  OBVIOUS
<1>2. PICK h : ChargeRun(h, s, ks)
  BY <1>1, ChargeRuns
<1>3. \A n \in 1 .. Len(ks) : h[n - 1] \in Stores => Level(h[n - 1], h[n])
  BY <1>1, <1>2, ChargeLevel DEF ChargeRun
<1>4. h[0] = s /\ h[Len(ks)] = ChargeAll(s, ks)
  BY <1>2 DEF ChargeRun
<1>5. Level(h[0], h[Len(ks)])
  BY <1>1, <1>3, <1>4, LevelAlong
<1> QED
  BY <1>4, <1>5

LEMMA ReleaseAllLevel ==
    ASSUME NEW s \in Stores, NEW ks \in Seq(Krefs)
    PROVE  Level(s, ReleaseAll(s, ks))
<1>1. Len(ks) \in Nat /\ \A n \in 1 .. Len(ks) : ks[n] \in Krefs
  OBVIOUS
<1>2. PICK h : ReleaseRun(h, s, ks)
  BY <1>1, ReleaseRuns
<1>3. \A n \in 1 .. Len(ks) : h[n - 1] \in Stores => Level(h[n - 1], h[n])
  BY <1>1, <1>2, ReleaseLevel DEF ReleaseRun
<1>4. h[0] = s /\ h[Len(ks)] = ReleaseAll(s, ks)
  BY <1>2 DEF ReleaseRun
<1>5. Level(h[0], h[Len(ks)])
  BY <1>1, <1>3, <1>4, LevelAlong
<1> QED
  BY <1>4, <1>5

LEMMA ReleaseQueueLevel ==
    ASSUME NEW s \in Stores, NEW p \in Krefs, NEW queue \in Seq(Message)
    PROVE  Level(s, ReleaseQueue(s, p, queue))
<1>1. Len(queue) \in Nat /\ \A n \in 1 .. Len(queue) : MessageRefs(p, queue[n]) \in Seq(Krefs)
  <2>1. Len(queue) \in Nat /\ \A n \in 1 .. Len(queue) : queue[n] \in Message
    OBVIOUS
  <2> QED
    BY <2>1, MessageRefsType
<1>2. PICK h : QueueRun(h, s, p, queue)
  BY <1>1, QueueRuns
<1>3. \A n \in 1 .. Len(queue) : h[n - 1] \in Stores => Level(h[n - 1], h[n])
  BY <1>1, <1>2, ReleaseAllLevel DEF QueueRun
<1>4. h[0] = s /\ h[Len(queue)] = ReleaseQueue(s, p, queue)
  BY <1>2 DEF QueueRun
<1>5. Level(h[0], h[Len(queue)])
  BY <1>1, <1>3, <1>4, LevelAlong
<1> QED
  BY <1>4, <1>5

-----------------------------------------------------------------------------
(* C-lists: a vat that lives keeps the promises it has.                    *)

LEMMA FlaggedLevel ==
    ASSUME NEW s \in Stores, NEW t, NEW v, NEW k, Flagged(s, t, v, k)
    PROVE  Level(s, t) /\ t \in Stores /\ t.object = s.object
  BY DEF Flagged, Frame, SameCounts, Level, Face, Rows, Unresolved

(* A flag and a count that moves with it.                                  *)
LEMMA FlagMoveLevel ==
    ASSUME NEW s \in Stores, NEW t, NEW v, NEW k, Flagged(s, t, v, k), k \in DOMAIN s.object,
           NEW reach \in Int, NEW noted \in BOOLEAN
    PROVE  Level(s, SetCounts(IF noted THEN Candidate(t, k) ELSE t, k, reach, s.object[k].recog))
<1> DEFINE u == IF noted THEN Candidate(t, k) ELSE t
<1>1. t \in Stores /\ t.object = s.object /\ Level(s, t)
  BY FlaggedLevel
<1>2. k \in Krefs /\ s.object[k].recog \in Int
  BY ObjectRowIs
<1>3. Recount(t, u)
  BY <1>1, <1>2, CandidateIs, RecountSelf
<1> HIDE DEF u
<1>4. u \in Stores /\ k \in DOMAIN u.object /\ Level(t, u)
  BY <1>1, <1>3, RecountLevel DEF Recount
<1>5. Level(u, SetCounts(u, k, reach, s.object[k].recog))
  BY <1>2, <1>4, SetCountsLevel
<1> QED
  BY <1>1, <1>4, <1>5, LevelJoins DEF u

LEMMA SetReachableFlagLevel ==
    ASSUME NEW s \in Stores, NEW v \in Vats, NEW k \in Krefs, Has(s, v, k)
    PROVE  Level(s, SetReachableFlag(s, v, k))
<1> DEFINE t == [s EXCEPT !.clist[v][k].reach = TRUE]
<1>1. CASE s.failed \/ s.clist[v][k].reach
  BY <1>1, LevelSelf DEF SetReachableFlag
<1>2. CASE ~(s.failed \/ s.clist[v][k].reach)
  <2>1. Flagged(s, t, v, k)
    BY FlagSetIs DEF FlagSet
  <2>2. SetReachableFlag(s, v, k) = IF ImportsObject(s, v, k)
                                    THEN SetCounts(t, k, s.object[k].reach + 1, s.object[k].recog)
                                    ELSE t
    BY <1>2 DEF SetReachableFlag
  <2> HIDE DEF t
  <2>3. CASE ImportsObject(s, v, k)
    <3>1. k \in DOMAIN s.object /\ s.object[k].reach + 1 \in Int
      BY <2>3, ObjectRowIs DEF ImportsObject
    <3>2. Level(s, SetCounts(IF FALSE THEN Candidate(t, k) ELSE t, k, s.object[k].reach + 1,
                             s.object[k].recog))
      BY <2>1, <3>1, FlagMoveLevel
    <3> QED
      BY <2>2, <2>3, <3>2
  <2> QED
    BY <2>1, <2>2, <2>3, FlaggedLevel
<1> QED
  BY <1>1, <1>2

LEMMA ClearReachableFlagLevel ==
    ASSUME NEW s \in Stores, NEW v \in Vats, NEW k \in Krefs
    PROVE  Level(s, ClearReachableFlag(s, v, k))
<1> DEFINE t == [s EXCEPT !.clist[v][k].reach = FALSE]
           r == s.object[k].reach - 1
           both == s.clist[v][k].reach /\ ImportsObject(s, v, k)
<1>1. CASE s.failed \/ ~Has(s, v, k)
  BY <1>1, RaiseLevel DEF ClearReachableFlag
<1>2. CASE ~(s.failed \/ ~Has(s, v, k))
  <2>1. Flagged(s, t, v, k)
    BY <1>2, FlagClearedIs DEF FlagCleared
  <2>2. ClearReachableFlag(s, v, k)
            = IF both THEN SetCounts(IF r = 0 THEN Candidate(t, k) ELSE t, k, r, s.object[k].recog)
              ELSE t
    BY <1>2 DEF ClearReachableFlag
  <2>3. both => k \in DOMAIN s.object
    BY DEF ImportsObject
  <2> HIDE DEF t, both
  <2>4. CASE both
    <3>1. k \in DOMAIN s.object /\ r \in Int
      BY <2>3, <2>4, ObjectRowIs
    <3> HIDE DEF r
    <3>2. (r = 0) \in BOOLEAN
      OBVIOUS
    <3>3. Level(s, SetCounts(IF r = 0 THEN Candidate(t, k) ELSE t, k, r, s.object[k].recog))
      BY <2>1, <3>1, <3>2, FlagMoveLevel
    <3> QED
      BY <2>2, <2>4, <3>3
  <2> QED
    BY <2>1, <2>2, <2>4, FlaggedLevel
<1> QED
  BY <1>1, <1>2

LEMMA ListedMinds ==
    ASSUME NEW s \in Stores, NEW t, NEW v, NEW k, NEW dir, Listed(s, t, v, k, dir)
    PROVE  Minds(s, t) /\ t \in Stores /\ t.object = s.object
<1>1. Face(s, t)
  BY DEF Listed, Frame, SameCounts, Face, Rows, Unresolved
<1>2. s.configured \subseteq Vats
  BY StoreFields
<1> QED
  BY <1>1, <1>2 DEF Listed, SameCounts, Minds

LEMMA AddCListEntryMinds ==
    ASSUME NEW s \in Stores, NEW v \in Vats, NEW k \in Krefs, NEW dir \in {"import", "export"},
           dir = "export" \/ Exists(s, k)
    PROVE  LET u == AddCListEntry(s, v, k, dir)
           IN  u \in Stores /\ Minds(s, u) /\ Has(u, v, k)
<1> DEFINE t == ListEntry(s, v, k, dir)
           u == AddCListEntry(s, v, k, dir)
<1>1. Listed(s, t, v, k, dir)
  BY ListedIs
<1>2. u = IF IsPromise(k) THEN Charge(t, k)
          ELSE IF dir = "export" THEN t
          ELSE SetCounts(t, k, s.object[k].reach, s.object[k].recog + 1)
  BY DEF AddCListEntry, ListEntry
<1> HIDE DEF t, u
<1>3. t \in Stores /\ Minds(s, t) /\ Has(t, v, k) /\ t.object = s.object
  BY <1>1, ListedMinds DEF Listed
<1>4. Level(t, u)
  <2>1. CASE ~IsPromise(k) /\ dir # "export"
    <3>1. k \in DOMAIN s.object
      BY <2>1, ExistsIs
    <3>2. s.object[k].reach \in Int /\ s.object[k].recog + 1 \in Int
      BY <3>1, ObjectRowIs
    <3> QED
      BY <1>2, <1>3, <2>1, <3>1, <3>2, SetCountsLevel
  <2> QED
    BY <1>2, <1>3, <2>1, ChargeLevel, LevelSelf
<1>5. u \in Stores /\ Has(u, v, k)
  BY <1>3, <1>4 DEF Level, Face, Rows
<1>6. Minds(s, u)
  BY <1>3, <1>4, LevelMinds, LevelJoins
<1> QED
  BY <1>5, <1>6 DEF u

(* A vat lets go of objects, or is dead.                                   *)
LEMMA ForgetEntryMinds ==
    ASSUME NEW s \in Stores, NEW v \in Vats, NEW k \in Krefs, k \in Objects \/ v \notin s.configured
    PROVE  Minds(s, ForgetEntry(s, v, k)) /\ ForgetEntry(s, v, k) \in Stores
<1> DEFINE t == ForgetEntry(s, v, k)
<1>1. Forgotten(s, t, v, k)
  BY ForgottenIs
<1> HIDE DEF t
<1>2. Face(s, t) /\ t \in Stores
  BY <1>1 DEF Forgotten, Frame, SameCounts, Face, Rows, Unresolved
<1>3. k \in Objects => k \notin Promises
  BY KrefsAre
<1>4. s.configured \subseteq Vats
  BY StoreFields
<1> QED
  BY <1>1, <1>2, <1>3, <1>4 DEF Forgotten, Minds, t

LEMMA DeleteCListEntryMinds ==
    ASSUME NEW s \in Stores, NEW v \in Vats, NEW k \in Krefs, k \in Objects \/ v \notin s.configured
    PROVE  Minds(s, DeleteCListEntry(s, v, k)) /\ DeleteCListEntry(s, v, k) \in Stores
<1> DEFINE cleared  == ClearReachableFlag(s, v, k)
           import   == s.clist[v][k].dir = "import"
           released == IF IsPromise(k) THEN ReleasePromise(cleared, k)
                       ELSE IF import THEN ReleaseObject(cleared, k, 0) ELSE cleared
           u == DeleteCListEntry(s, v, k)
<1>1. u = IF cleared.failed THEN cleared
          ELSE IF released.failed THEN released
          ELSE ForgetEntry(released, v, k)
  BY DEF DeleteCListEntry
<1>2. Level(s, cleared)
  BY ClearReachableFlagLevel
<1> HIDE DEF cleared, import, u
<1>3. cleared \in Stores
  BY <1>2 DEF Level, Face, Rows
<1>4. Level(cleared, released)
  BY <1>3, ReleasePromiseLevel, ReleaseObjectLevel, LevelSelf
<1> HIDE DEF released
<1>5. released \in Stores /\ Level(s, released) /\ released.configured = s.configured
  BY <1>2, <1>4, LevelJoins DEF Level, Face, Rows
<1>6. Minds(s, cleared) /\ Minds(s, released)
  BY <1>2, <1>5, LevelMinds
<1>7. Minds(released, ForgetEntry(released, v, k)) /\ ForgetEntry(released, v, k) \in Stores
  BY <1>5, ForgetEntryMinds
<1>8. Minds(s, ForgetEntry(released, v, k))
  BY <1>6, <1>7, LevelJoins
<1> QED
  BY <1>1, <1>3, <1>5, <1>6, <1>7, <1>8 DEF u

LEMMA TranslateRefKtoEMinds ==
    ASSUME NEW s \in Stores, NEW v \in Vats, NEW k \in Krefs
    PROVE  LET u == TranslateRefKtoE(s, v, k)
           IN  u \in Stores /\ Minds(s, u) /\ (u.failed \/ Has(u, v, k))
<1> DEFINE u == TranslateRefKtoE(s, v, k)
<1>1. CASE s.failed
  BY <1>1, LevelSelf DEF TranslateRefKtoE
<1>2. CASE ~s.failed /\ Has(s, v, k)
  <2>1. u = SetReachableFlag(s, v, k)
    BY <1>2 DEF TranslateRefKtoE
  <2>2. Level(s, u)
    BY <1>2, <2>1, SetReachableFlagLevel
  <2> HIDE DEF u
  <2>3. u \in Stores /\ Has(u, v, k) /\ Minds(s, u)
    BY <1>2, <2>2, LevelMinds DEF Level, Face, Rows
  <2> QED
    BY <2>3 DEF u
<1>3. CASE ~s.failed /\ ~Has(s, v, k) /\ Exists(s, k)
  <2> DEFINE t == AddCListEntry(s, v, k, "import")
  <2>1. u = SetReachableFlag(t, v, k)
    BY <1>3 DEF TranslateRefKtoE
  <2>2. t \in Stores /\ Minds(s, t) /\ Has(t, v, k)
    BY <1>3, AddCListEntryMinds
  <2> HIDE DEF u, t
  <2>3. Level(t, u)
    BY <2>1, <2>2, SetReachableFlagLevel
  <2>4. u \in Stores /\ Has(u, v, k) /\ Minds(s, u)
    BY <2>2, <2>3, LevelMinds, LevelJoins DEF Level, Face, Rows
  <2> QED
    BY <2>4 DEF u
<1>4. CASE ~s.failed /\ ~Has(s, v, k) /\ ~Exists(s, k)
  <2>1. u = Raise(s)
    BY <1>4 DEF TranslateRefKtoE
  <2> HIDE DEF u
  <2>2. u \in Stores /\ u.failed /\ Minds(s, u)
    BY <2>1, RaiseIs, RaiseLevel, LevelMinds
  <2> QED
    BY <2>2 DEF u
<1> QED
  BY <1>1, <1>2, <1>3, <1>4

LEMMA TranslateAllKtoEMinds ==
    ASSUME NEW s \in Stores, NEW v \in Vats, NEW ks \in Seq(Krefs)
    PROVE  LET u == TranslateAllKtoE(s, v, ks)
           IN  /\ u \in Stores /\ Minds(s, u)
               /\ ks # <<>> => u.failed \/ Has(u, v, ks[Len(ks)])
<1>1. Len(ks) \in Nat /\ \A n \in 1 .. Len(ks) : ks[n] \in Krefs
  OBVIOUS
<1>2. PICK h : ToldRun(h, s, v, ks)
  BY <1>1, ToldRuns
<1>3. h[0] = s /\ h[Len(ks)] = TranslateAllKtoE(s, v, ks)
  BY <1>2 DEF ToldRun
<1>4. \A n \in 1 .. Len(ks) : h[n - 1] \in Stores =>
          Minds(h[n - 1], h[n]) /\ (h[n].failed \/ Has(h[n], v, ks[n]))
  BY <1>1, <1>2, TranslateRefKtoEMinds DEF ToldRun
<1>5. Minds(h[0], h[Len(ks)]) /\ \A n \in 0 .. Len(ks) : h[n] \in Stores
  BY <1>1, <1>3, <1>4, MindsAlong
<1>6. ks # <<>> => h[Len(ks)].failed \/ Has(h[Len(ks)], v, ks[Len(ks)])
  <2> SUFFICES ASSUME ks # <<>>
               PROVE  h[Len(ks)].failed \/ Has(h[Len(ks)], v, ks[Len(ks)])
    OBVIOUS
  <2>1. Len(ks) \in 1 .. Len(ks) /\ Len(ks) - 1 \in 0 .. Len(ks)
    OBVIOUS
  <2> QED
    BY <1>4, <1>5, <2>1
<1>7. h[Len(ks)] \in Stores
  BY <1>1, <1>5
<1> QED
  BY <1>3, <1>5, <1>6, <1>7

LEMMA TellAllMinds ==
    ASSUME NEW s \in Stores, NEW v \in Vats, NEW promise, NEW ps, Len(ps) \in Nat,
           \A n \in 1 .. Len(ps) : Report(promise, ps[n]) \in Seq(Krefs)
    PROVE  LET u == TellAll(s, v, promise, ps)
           IN  u \in Stores /\ Minds(s, u)
<1>1. PICK h : TellRun(h, s, v, promise, ps)
  BY TellRuns
<1>2. h[0] = s /\ h[Len(ps)] = TellAll(s, v, promise, ps)
  BY <1>1 DEF TellRun
<1>3. \A n \in 1 .. Len(ps) : h[n - 1] \in Stores => Minds(h[n - 1], h[n])
  BY <1>1, TranslateAllKtoEMinds DEF TellRun
<1>4. Minds(h[0], h[Len(ps)]) /\ \A n \in 0 .. Len(ps) : h[n] \in Stores
  BY <1>2, <1>3, MindsAlong
<1> QED
  BY <1>2, <1>4

LEMMA OrphanLevel ==
    ASSUME NEW s \in Stores, NEW v, NEW k \in Objects
    PROVE  LET u == OrphanKernelObject(s, v, k)
           IN  u \in Stores /\ Level(s, u)
<1> DEFINE t == [s EXCEPT !.object[k].owner = NoOne]
           u == OrphanKernelObject(s, v, k)
<1>1. k \in Krefs
  BY KrefsAre
<1>2. CASE s.failed
  BY <1>2, LevelSelf DEF OrphanKernelObject
<1>3. CASE ~s.failed /\ k \notin DOMAIN s.object
  <2>1. Level(s, u)
    BY <1>1, <1>3, CandidateLevel DEF OrphanKernelObject
  <2> QED
    BY <2>1 DEF Level, Face, Rows
<1>4. CASE ~s.failed /\ k \in DOMAIN s.object /\ s.object[k].owner \notin {NoOne, v}
  <2>1. Level(s, u)
    BY <1>4, RaiseLevel DEF OrphanKernelObject
  <2> QED
    BY <2>1 DEF Level, Face, Rows
<1>5. CASE ~s.failed /\ k \in DOMAIN s.object /\ s.object[k].owner \in {NoOne, v}
  <2>1. u = Candidate(t, k)
    BY <1>5 DEF OrphanKernelObject
  <2>2. t \in Stores /\ Frame(s, t) /\ t.promise = s.promise /\ t.clist = s.clist
    BY <1>5, OrphanIs DEF Orphan
  <2> HIDE DEF t, u
  <2>3. Level(s, t)
    BY <2>2 DEF Frame, Level, Face, Rows, Unresolved, Has
  <2>4. Level(t, u)
    BY <1>1, <2>1, <2>2, CandidateLevel
  <2>5. u \in Stores /\ Level(s, u)
    BY <2>3, <2>4, LevelJoins DEF Level, Face, Rows
  <2> QED
    BY <2>5 DEF u
<1> QED
  BY <1>2, <1>3, <1>4, <1>5

LEMMA AbandonMinds ==
    ASSUME NEW s \in Stores, NEW v \in Vats, NEW k \in Objects
    PROVE  LET u == OrphanKernelObject(DeleteCListEntry(s, v, k), v, k)
           IN  u \in Stores /\ Minds(s, u)
<1> DEFINE t == DeleteCListEntry(s, v, k)
           u == OrphanKernelObject(t, v, k)
<1>1. t \in Stores /\ Minds(s, t)
  BY KrefsAre, DeleteCListEntryMinds
<1> HIDE DEF t
<1>2. u \in Stores /\ Level(t, u)
  BY <1>1, OrphanLevel
<1> HIDE DEF u
<1>3. u \in Stores /\ Minds(s, u)
  BY <1>1, <1>2, LevelMinds, LevelJoins
<1> QED
  BY <1>3 DEF u, t

LEMMA ForgetExportMinds ==
    ASSUME NEW s \in Stores, NEW v \in Vats, NEW k \in Objects
    PROVE  LET u == ForgetExport(s, v, k)
           IN  u \in Stores /\ Minds(s, u)
<1> DEFINE u == ForgetExport(s, v, k)
           t == [s EXCEPT !.object[k].owner = NoOne]
           f == ForgetEntry(t, v, k)
<1>1. k \in Krefs
  BY KrefsAre
<1>2. CASE s.failed \/ k \notin DOMAIN s.object \/ s.object[k].owner # v
  <2>1. u = Raise(s)
    BY <1>2 DEF ForgetExport
  <2> HIDE DEF u
  <2>2. u \in Stores /\ Minds(s, u)
    BY <2>1, RaiseIs, RaiseLevel, LevelMinds
  <2> QED
    BY <2>2 DEF u
<1>3. CASE ~(s.failed \/ k \notin DOMAIN s.object \/ s.object[k].owner # v)
  <2>1. u = Candidate(f, k)
    BY <1>3 DEF ForgetExport
  <2>2. t \in Stores /\ Frame(s, t) /\ t.promise = s.promise /\ t.clist = s.clist
    BY <1>3, OrphanIs DEF Orphan
  <2> HIDE DEF t, u
  <2>3. Minds(s, t)
    BY <2>2 DEF Frame, Minds, Face, Rows, Unresolved, Has
  <2>4. f \in Stores /\ Minds(t, f)
    BY <1>1, <2>2, ForgetEntryMinds
  <2> HIDE DEF f
  <2>5. Level(f, u)
    BY <1>1, <2>1, <2>4, CandidateLevel
  <2>6. u \in Stores /\ Minds(s, u)
    BY <2>3, <2>4, <2>5, LevelMinds, LevelJoins DEF Level, Face, Rows
  <2> QED
    BY <2>6 DEF u
<1> QED
  BY <1>2, <1>3

LEMMA ForgetExportsMinds ==
    ASSUME NEW s \in Stores, NEW v \in Vats, NEW ks \in Seq(Objects)
    PROVE  LET u == ForgetExports(s, v, ks)
           IN  u \in Stores /\ Minds(s, u)
<1>1. Len(ks) \in Nat /\ \A n \in 1 .. Len(ks) : ks[n] \in Objects
  OBVIOUS
<1>2. PICK h : ForgetRun(h, s, v, ks)
  BY <1>1, ForgetRuns
<1>3. h[0] = s /\ h[Len(ks)] = ForgetExports(s, v, ks)
  BY <1>2 DEF ForgetRun
<1>4. \A n \in 1 .. Len(ks) : h[n - 1] \in Stores => Minds(h[n - 1], h[n])
  BY <1>1, <1>2, ForgetExportMinds DEF ForgetRun
<1>5. Minds(h[0], h[Len(ks)]) /\ \A n \in 0 .. Len(ks) : h[n] \in Stores
  BY <1>1, <1>3, <1>4, MindsAlong
<1> QED
  BY <1>1, <1>3, <1>5

LEMMA DeleteCListEntriesMinds ==
    ASSUME NEW s \in Stores, NEW v \in Vats, NEW ks \in Seq(Krefs),
           v \notin s.configured \/ ks \in Seq(Objects)
    PROVE  LET u == DeleteCListEntries(s, v, ks)
           IN  u \in Stores /\ Minds(s, u)
<1>1. /\ Len(ks) \in Nat
      /\ \A n \in 1 .. Len(ks) : ks[n] \in Krefs /\ (v \notin s.configured \/ ks[n] \in Objects)
  OBVIOUS
<1>2. PICK h : DeleteRun(h, s, v, ks)
  BY <1>1, DeleteRuns
<1>3. h[0] = s /\ h[Len(ks)] = DeleteCListEntries(s, v, ks)
  BY <1>2 DEF DeleteRun
<1>4. ASSUME NEW n \in 1 .. Len(ks), h[n - 1] \in Stores, Minds(h[0], h[n - 1])
      PROVE  Minds(h[n - 1], h[n])
  <2>1. h[n - 1].configured = s.configured
    BY <1>3, <1>4 DEF Minds, Face, Rows
  <2>2. h[n] = DeleteCListEntry(h[n - 1], v, ks[n])
    BY <1>2 DEF DeleteRun
  <2> QED
    BY <1>1, <1>4, <2>1, <2>2, DeleteCListEntryMinds
<1>5. Minds(h[0], h[Len(ks)]) /\ \A n \in 0 .. Len(ks) : h[n] \in Stores
  BY <1>1, <1>3, <1>4, MindsAlong
<1> QED
  BY <1>1, <1>3, <1>5

LEMMA DropExportedMinds ==
    ASSUME NEW s \in Stores, NEW v \in Vats, NEW ks \in Seq(Krefs)
    PROVE  LET u == DropExported(s, v, ks)
           IN  u \in Stores /\ Minds(s, u)
<1>1. Len(ks) \in Nat /\ \A n \in 1 .. Len(ks) : ks[n] \in Krefs
  OBVIOUS
<1>2. PICK h : DropRun(h, s, v, ks)
  BY <1>1, DropRuns
<1>3. h[0] = s /\ h[Len(ks)] = DropExported(s, v, ks)
  BY <1>2 DEF DropRun
<1>4. \A n \in 1 .. Len(ks) : h[n - 1] \in Stores => Minds(h[n - 1], h[n])
  BY <1>1, <1>2, ClearReachableFlagLevel, LevelMinds DEF DropRun
<1>5. Minds(h[0], h[Len(ks)]) /\ \A n \in 0 .. Len(ks) : h[n] \in Stores
  BY <1>1, <1>3, <1>4, MindsAlong
<1> QED
  BY <1>1, <1>3, <1>5

LEMMA RetireExportedMinds ==
    ASSUME NEW s \in Stores, NEW v \in Vats, NEW ks \in Seq(Objects)
    PROVE  LET u == RetireExported(s, v, ks)
           IN  u \in Stores /\ Minds(s, u)
<1>1. Len(ks) \in Nat /\ \A n \in 1 .. Len(ks) : ks[n] \in Objects
  OBVIOUS
<1>2. PICK h : RetireRun(h, s, v, ks)
  BY <1>1, RetireRuns
<1>3. h[0] = s /\ h[Len(ks)] = RetireExported(s, v, ks)
  BY <1>2 DEF RetireRun
<1>4. \A n \in 1 .. Len(ks) : h[n - 1] \in Stores => Minds(h[n - 1], h[n])
  BY <1>1, <1>2, AbandonMinds DEF RetireRun
<1>5. Minds(h[0], h[Len(ks)]) /\ \A n \in 0 .. Len(ks) : h[n] \in Stores
  BY <1>1, <1>3, <1>4, MindsAlong
<1> QED
  BY <1>1, <1>3, <1>5

(* The dead have no promises to mind.                                      *)
Apart(s) == \A v \in Vats : IsTerminated(s, v) => v \notin s.configured

LEMMA CleanupMinds ==
    ASSUME NEW s \in Stores, Apart(s)
    PROVE  LET t == CleanupTerminatedVat(s)
           IN  t \in Stores /\ Stranded(t) \subseteq Stranded(s) /\ Apart(t) /\ t.buffer = s.buffer
                   /\ t.run = s.run /\ t.configured = s.configured
<1>1. CASE s.terminated = <<>>
  BY <1>1 DEF CleanupTerminatedVat
<1>2. CASE s.terminated # <<>>
  <2> DEFINE v == Head(s.terminated)
             entry == s.clist[v]
             exports == {k \in DOMAIN entry : ~IsPromise(k) /\ entry[k].dir = "export"}
             a == InOrder(exports)
             b == InOrder(DOMAIN entry \ exports)
             t == ForgetExports(s, v, a)
             u == DeleteCListEntries(t, v, b)
             w == CleanupTerminatedVat(s)
  <2>1. w = IF u.failed THEN u ELSE [u EXCEPT !.terminated = Tail(@)]
    BY <1>2 DEF CleanupTerminatedVat
  <2>2. v \in Vats /\ s.terminated \in Seq(Vats)
    BY <1>2, StoreFields
  <2>3. v \notin s.configured
    <3>1. IsTerminated(s, v)
      BY <1>2, <2>2, ContainsEnds DEF IsTerminated
    <3> QED
      BY <2>2, <3>1 DEF Apart
  <2>4. exports \in SUBSET Krefs /\ exports \subseteq Objects /\ DOMAIN entry \ exports \in SUBSET Krefs
    BY <2>2, StoreIs, KrefsAre
  <2>5. a \in Seq(Objects) /\ b \in Seq(Krefs)
    <3> HIDE DEF exports, entry
    <3> QED
      BY <2>4, KrefsInOrder
  <2> HIDE DEF a, b, v, w
  <2>6. t \in Stores /\ Minds(s, t)
    BY <2>2, <2>5, ForgetExportsMinds
  <2> HIDE DEF t
  <2>7. t.configured = s.configured
    BY <2>6 DEF Minds, Face, Rows
  <2>8. u \in Stores /\ Minds(t, u)
    BY <2>2, <2>3, <2>5, <2>6, <2>7, DeleteCListEntriesMinds
  <2> HIDE DEF u
  <2>9. Minds(s, u)
    BY <2>6, <2>8, LevelJoins
  <2>10. /\ Stranded(u) \subseteq Stranded(s) /\ u.buffer = s.buffer /\ u.run = s.run
         /\ u.configured = s.configured /\ u.terminated = s.terminated
    BY <2>9, MindsTends DEF Minds, Face, Rows, Tends
  <2>11. Apart(u)
    BY <2>10 DEF Apart, IsTerminated
  <2>12. CASE w = u
    BY <2>8, <2>10, <2>11, <2>12 DEF w
  <2>13. CASE w = [u EXCEPT !.terminated = Tail(@)]
    <3>1. /\ w \in Stores /\ w.promise = u.promise /\ w.clist = u.clist /\ w.run = u.run
          /\ w.buffer = u.buffer /\ w.configured = u.configured
          /\ w.terminated = Tail(u.terminated)
      BY <1>2, <2>8, <2>10, <2>13, BuriedIs DEF Buried, Roster
    <3>2. Stranded(w) = Stranded(u)
      BY <3>1 DEF Stranded, Unresolved, Minded, Has, Travels, Awaits
    <3>3. Apart(w)
      <4> SUFFICES ASSUME NEW x \in Vats, IsTerminated(w, x) PROVE x \notin w.configured
        BY DEF Apart
      <4>1. IsTerminated(u, x)
        BY <1>2, <2>2, <2>10, <3>1, ContainsEnds DEF IsTerminated
      <4> QED
        BY <2>11, <3>1, <4>1 DEF Apart
    <3> QED
      BY <2>10, <3>1, <3>2, <3>3 DEF w
  <2> QED
    BY <2>1, <2>12, <2>13
<1> QED
  BY <1>1, <1>2

-----------------------------------------------------------------------------
(* The queues: a message that is queued carries its result.                *)

Outbound(s, q) == Carries(s.run, q) \/ Carries(s.buffer, q)

(* The same promises wait, and no message is lost.                         *)
Posts(s, t, when) ==
    /\ t \in Stores /\ t.configured = s.configured /\ t.terminated = s.terminated
    /\ Rows(s, t)
    /\ \A v \in Vats : \A q : Has(t, v, q) <=> Has(s, v, q)
    /\ when = "immediate" => t.buffer = s.buffer
    /\ \A q : Outbound(s, q) => Outbound(t, q)

LEMMA LevelPosts ==
    ASSUME NEW s, NEW t, Level(s, t), NEW when
    PROVE  Posts(s, t, when)
  BY DEF Level, Face, Posts, Outbound

LEMMA PostsJoins ==
    ASSUME NEW s, NEW t, NEW u, NEW when, Posts(s, t, when), Posts(t, u, when)
    PROVE  Posts(s, u, when)
  BY RowsJoin DEF Posts

LEMMA CarriesMore ==
    ASSUME NEW items \in Seq(Items), NEW x \in Items, NEW q
    PROVE  /\ Carries(items, q) => Carries(Append(items, x), q)
           /\ x.type = "send" /\ x.message.result = q => Carries(Append(items, x), q)
<1> DEFINE more == Append(items, x)
<1>1. /\ Len(items) \in Nat /\ DOMAIN items = 1 .. Len(items)
      /\ DOMAIN more = 1 .. Len(items) + 1 /\ more[Len(items) + 1] = x
      /\ \A i \in 1 .. Len(items) : more[i] = items[i]
  OBVIOUS
<1> HIDE DEF more
<1>2. \A i \in 1 .. Len(items) : i \in 1 .. Len(items) + 1
  BY <1>1
<1>3. Len(items) + 1 \in 1 .. Len(items) + 1
  BY <1>1
<1>4. Carries(items, q) => Carries(more, q)
  BY <1>1, <1>2 DEF Carries
<1>5. x.type = "send" /\ x.message.result = q => Carries(more, q)
  BY <1>1, <1>3 DEF Carries
<1> QED
  BY <1>4, <1>5 DEF more

LEMMA EnqueuePosts ==
    ASSUME NEW s \in Stores, NEW x \in Items, NEW when
    PROVE  LET u == Enqueue(s, x, when)
           IN  /\ u \in Stores /\ Posts(s, u, when) /\ u.failed = s.failed
               /\ s.failed \/ (x.type = "send" => Outbound(u, x.message.result))
<1> DEFINE u == Enqueue(s, x, when)
<1>1. CASE s.failed
  BY <1>1, LevelSelf, LevelPosts DEF Enqueue
<1>2. CASE ~s.failed
  <2>1. s.failed = FALSE /\ s.run \in Seq(Items) /\ s.buffer \in Seq(Items)
    BY <1>2, StoreFields
  <2>2. Queued(s, u, x)
    BY <2>1, EnqueueIs
  <2>3. when = "immediate" => u.buffer = s.buffer
    BY <1>2 DEF Enqueue, Stores
  <2> HIDE DEF u
  <2>4. \A q : Outbound(s, q) => Outbound(u, q)
    <3>1. CASE u.run = Append(s.run, x) /\ u.buffer = s.buffer
      BY <2>1, <3>1, CarriesMore DEF Outbound
    <3>2. CASE u.run = s.run /\ u.buffer = Append(s.buffer, x)
      BY <2>1, <3>2, CarriesMore DEF Outbound
    <3> QED
      BY <2>2, <3>1, <3>2 DEF Queued
  <2>5. x.type = "send" => Outbound(u, x.message.result)
    <3>1. CASE u.run = Append(s.run, x)
      BY <2>1, <3>1, CarriesMore DEF Outbound
    <3>2. CASE u.buffer = Append(s.buffer, x)
      BY <2>1, <3>2, CarriesMore DEF Outbound
    <3> QED
      BY <2>2, <3>1, <3>2 DEF Queued
  <2>6. Posts(s, u, when) /\ u \in Stores /\ u.failed = s.failed
    BY <2>2, <2>3, <2>4 DEF Queued, Posts, Rows, Unresolved, Has
  <2> QED
    BY <2>5, <2>6 DEF u
<1> QED
  BY <1>1, <1>2

(* A store that has failed stays failed.                                   *)
LEMMA ChargeAllFailed ==
    ASSUME NEW s \in Stores, s.failed, NEW ks \in Seq(Krefs)
    PROVE  ChargeAll(s, ks).failed
<1>1. Len(ks) \in Nat /\ \A n \in 1 .. Len(ks) : ks[n] \in Krefs
  OBVIOUS
<1>2. PICK h : ChargeRun(h, s, ks)
  BY <1>1, ChargeRuns
<1> DEFINE S == {n \in Nat : n <= Len(ks) => h[n] \in Stores /\ h[n].failed}
<1>3. 0 \in S
  BY <1>2 DEF ChargeRun
<1>4. ASSUME NEW n \in Nat, n \in S PROVE n + 1 \in S
  <2> SUFFICES ASSUME n + 1 <= Len(ks) PROVE h[n + 1] \in Stores /\ h[n + 1].failed
    OBVIOUS
  <2>1. n + 1 \in 1 .. Len(ks) /\ (n + 1) - 1 = n /\ h[n] \in Stores /\ h[n].failed
    BY <1>1, <1>4
  <2>2. h[n + 1] = Raise(h[n])
    BY <1>2, <2>1 DEF ChargeRun, Charge
  <2> QED
    BY <2>1, <2>2, RaiseIs
<1>5. Nat \subseteq S
  <2> HIDE DEF S
  <2> QED
    BY <1>3, <1>4, SetInduction
<1>6. h[Len(ks)].failed
  BY <1>1, <1>5
<1> QED
  BY <1>2, <1>6 DEF ChargeRun

LEMMA EnqueueSendPosts ==
    ASSUME NEW s \in Stores, NEW target \in Krefs, NEW m \in Message, NEW when
    PROVE  LET u == EnqueueSend(s, target, m, when)
           IN  /\ u \in Stores /\ Posts(s, u, when) /\ (s.failed => u.failed)
               /\ u.failed \/ Outbound(u, m.result)
<1> DEFINE t == ChargeAll(s, MessageRefs(target, m))
           x == SendItem(target, m)
           u == EnqueueSend(s, target, m, when)
<1>1. MessageRefs(target, m) \in Seq(Krefs)
  BY MessageRefsType
<1>2. u = Enqueue(t, x, when)
  BY DEF EnqueueSend
<1>3. Level(s, t) /\ (s.failed => t.failed)
  BY <1>1, ChargeAllLevel, ChargeAllFailed
<1>4. x \in Items /\ x.type = "send" /\ x.message = m
  BY DEF SendItem, Items
<1> HIDE DEF t, x, u
<1>5. t \in Stores /\ Posts(s, t, when)
  BY <1>3, LevelPosts DEF Level, Face
<1>6. /\ u \in Stores /\ Posts(t, u, when) /\ u.failed = t.failed
      /\ t.failed \/ Outbound(u, m.result)
  BY <1>2, <1>4, <1>5, EnqueuePosts
<1>7. Posts(s, u, when)
  BY <1>5, <1>6, PostsJoins
<1> QED
  BY <1>3, <1>6, <1>7 DEF u

LEMMA EnqueueNotifyPosts ==
    ASSUME NEW s \in Stores, NEW v \in Vats, NEW p \in Promises, NEW when
    PROVE  LET u == EnqueueNotify(s, v, p, when)
           IN  u \in Stores /\ Posts(s, u, when) /\ (s.failed => u.failed)
<1> DEFINE t == Charge(s, p)
           x == NotifyItem(v, p)
           u == EnqueueNotify(s, v, p, when)
<1>1. u = Enqueue(t, x, when)
  BY DEF EnqueueNotify
<1>2. Level(s, t) /\ (s.failed => t.failed)
  BY KrefsAre, ChargeLevel, RaiseIs DEF Charge
<1>3. x \in Items
  BY DEF NotifyItem, Items
<1> HIDE DEF t, x, u
<1>4. t \in Stores /\ Posts(s, t, when)
  BY <1>2, LevelPosts DEF Level, Face
<1>5. u \in Stores /\ Posts(t, u, when) /\ u.failed = t.failed
  BY <1>1, <1>3, <1>4, EnqueuePosts
<1>6. Posts(s, u, when)
  BY <1>4, <1>5, PostsJoins
<1> QED
  BY <1>2, <1>5, <1>6 DEF u

LEMMA PostsSelf ==
    ASSUME NEW s \in Stores, NEW when
    PROVE  Posts(s, s, when)
  BY LevelSelf, LevelPosts

LEMMA NotifyAllPosts ==
    ASSUME NEW s \in Stores, NEW vs \in Seq(Vats), NEW p \in Promises, NEW when
    PROVE  LET u == NotifyAll(s, vs, p, when)
           IN  u \in Stores /\ Posts(s, u, when) /\ (s.failed => u.failed)
<1>1. Len(vs) \in Nat /\ \A n \in 1 .. Len(vs) : vs[n] \in Vats
  OBVIOUS
<1>2. PICK h : NotifyRun(h, s, vs, p, when)
  BY <1>1, NotifyRuns
<1> DEFINE Fine(n) == h[n] \in Stores /\ Posts(s, h[n], when) /\ (s.failed => h[n].failed)
           S == {n \in Nat : n <= Len(vs) => Fine(n)}
<1>3. 0 \in S
  BY <1>2, PostsSelf DEF NotifyRun
<1>4. ASSUME NEW n \in Nat, n \in S PROVE n + 1 \in S
  <2> SUFFICES ASSUME n + 1 <= Len(vs) PROVE Fine(n + 1)
    OBVIOUS
  <2>1. n + 1 \in 1 .. Len(vs) /\ (n + 1) - 1 = n /\ Fine(n)
    BY <1>1, <1>4
  <2>2. h[n + 1] = EnqueueNotify(h[n], vs[n + 1], p, when) /\ vs[n + 1] \in Vats
    BY <1>1, <1>2, <2>1 DEF NotifyRun
  <2>3. h[n + 1] \in Stores /\ Posts(h[n], h[n + 1], when) /\ (h[n].failed => h[n + 1].failed)
    BY <2>1, <2>2, EnqueueNotifyPosts
  <2> QED
    BY <2>1, <2>3, PostsJoins
<1>5. Nat \subseteq S
  <2> HIDE DEF S
  <2> QED
    BY <1>3, <1>4, SetInduction
<1>6. Fine(Len(vs))
  BY <1>1, <1>5
<1> QED
  BY <1>2, <1>6 DEF NotifyRun

(* Everything in a queue that was sent on is on its way.                   *)
LEMMA SendAllPosts ==
    ASSUME NEW s \in Stores, NEW p \in Krefs, NEW queue \in Seq(Message), NEW when
    PROVE  LET u == SendAll(s, p, queue, when)
           IN  /\ u \in Stores /\ Posts(s, u, when) /\ (s.failed => u.failed)
               /\ u.failed \/ \A i \in DOMAIN queue : Outbound(u, queue[i].result)
<1>1. /\ Len(queue) \in Nat /\ DOMAIN queue = 1 .. Len(queue)
      /\ \A n \in 1 .. Len(queue) : queue[n] \in Message
  OBVIOUS
<1>2. PICK h : SendRun(h, s, p, queue, when)
  BY <1>1, SendRuns
<1> DEFINE Fine(n) == /\ h[n] \in Stores /\ Posts(s, h[n], when) /\ (s.failed => h[n].failed)
                      /\ h[n].failed \/ \A i \in 1 .. n : Outbound(h[n], queue[i].result)
           S == {n \in Nat : n <= Len(queue) => Fine(n)}
<1>3. 0 \in S
  <2>1. h[0] = s /\ 1 .. 0 = {}
    BY <1>2 DEF SendRun
  <2> QED
    BY <2>1, PostsSelf
<1>4. ASSUME NEW n \in Nat, n \in S PROVE n + 1 \in S
  <2> SUFFICES ASSUME n + 1 <= Len(queue) PROVE Fine(n + 1)
    OBVIOUS
  <2>1. n + 1 \in 1 .. Len(queue) /\ (n + 1) - 1 = n /\ Fine(n)
    BY <1>1, <1>4
  <2>2. h[n + 1] = EnqueueSend(h[n], p, queue[n + 1], when) /\ queue[n + 1] \in Message
    BY <1>1, <1>2, <2>1 DEF SendRun
  <2>3. /\ h[n + 1] \in Stores /\ Posts(h[n], h[n + 1], when) /\ (h[n].failed => h[n + 1].failed)
        /\ h[n + 1].failed \/ Outbound(h[n + 1], queue[n + 1].result)
    BY <2>1, <2>2, EnqueueSendPosts
  <2>4. Posts(s, h[n + 1], when)
    BY <2>1, <2>3, PostsJoins
  <2>5. ASSUME ~h[n + 1].failed, NEW i \in 1 .. n + 1
        PROVE  Outbound(h[n + 1], queue[i].result)
    <3>1. CASE i = n + 1
      BY <2>3, <2>5, <3>1
    <3>2. CASE i # n + 1
      <4>1. i \in 1 .. n
        BY <2>5, <3>2
      <4>2. Outbound(h[n], queue[i].result)
        BY <2>1, <2>3, <2>5, <4>1
      <4> QED
        BY <2>3, <4>2 DEF Posts
    <3> QED
      BY <3>1, <3>2
  <2> QED
    BY <2>1, <2>3, <2>4, <2>5
<1>5. Nat \subseteq S
  <2> HIDE DEF S
  <2> QED
    BY <1>3, <1>4, SetInduction
<1>6. Fine(Len(queue))
  BY <1>1, <1>5
<1> QED
  BY <1>1, <1>2, <1>6 DEF SendRun

(* No more promises wait, and those that do wait for the same vats.        *)
Narrows(s, t) ==
    /\ \A q \in Promises : Unresolved(t, q) =>
          Unresolved(s, q) /\ t.promise[q].decider = s.promise[q].decider
    /\ \A v \in Vats : \A q : Has(t, v, q) <=> Has(s, v, q)

LEMMA PostsNarrows ==
    ASSUME NEW s \in Stores, NEW t, NEW when, Posts(s, t, when)
    PROVE  Narrows(s, t)
  BY DEF Posts, Rows, Narrows

LEMMA NarrowsJoins ==
    ASSUME NEW s, NEW t, NEW u, Narrows(s, t), Narrows(t, u)
    PROVE  Narrows(s, u)
  BY DEF Narrows

LEMMA PostsTends ==
    ASSUME NEW s \in Stores, NEW t, NEW when, Posts(s, t, when)
    PROVE  Tends(s, t, when)
<1>1. s.configured \subseteq Vats /\ DOMAIN s.promise \subseteq Promises
  BY StoreFields, StoreIs
<1>2. ASSUME NEW q \in Promises, Unresolved(s, q), Minded(s, q) PROVE Minded(t, q)
  BY <1>1, <1>2 DEF Posts, Rows, Minded
<1>3. ASSUME NEW q, Travels(s, q) PROVE Travels(t, q)
  <2>1. CASE Outbound(s, q)
    BY <2>1 DEF Posts, Outbound, Travels
  <2>2. CASE ~Outbound(s, q)
    <3>1. PICK p \in DOMAIN s.promise : Awaits(s, p, q)
      BY <1>3, <2>2 DEF Travels, Outbound
    <3>2. Awaits(t, p, q) /\ p \in DOMAIN t.promise
      BY <1>1, <3>1 DEF Posts, Rows, Awaits, Unresolved
    <3> QED
      BY <3>2 DEF Travels
  <2> QED
    BY <2>1, <2>2
<1>4. Stranded(t) \subseteq Stranded(s)
  <2> SUFFICES ASSUME NEW q \in Promises, Unresolved(t, q), ~Minded(t, q), ~Travels(t, q)
               PROVE  Unresolved(s, q) /\ ~Minded(s, q) /\ ~Travels(s, q)
    BY DEF Stranded
  <2> QED
    BY <1>2, <1>3 DEF Posts, Rows
<1> QED
  BY <1>4 DEF Posts, Tends

-----------------------------------------------------------------------------
(* A settlement, and what waited for it.                                   *)

(* One promise settled: the others wait as before.                         *)
Settles(s, t, p) ==
    /\ t \in Stores /\ t.configured = s.configured /\ t.terminated = s.terminated
    /\ t.run = s.run /\ t.buffer = s.buffer
    /\ \A v \in Vats : \A q : Has(t, v, q) <=> Has(s, v, q)
    /\ ~Unresolved(t, p)
    /\ \A q \in Promises : q # p =>
          /\ Unresolved(t, q) <=> Unresolved(s, q)
          /\ Unresolved(s, q) => /\ t.promise[q].decider = s.promise[q].decider
                                 /\ t.promise[q].queue = s.promise[q].queue

LEMMA RowSettles ==
    ASSUME NEW s \in Stores, NEW p \in DOMAIN s.promise, NEW t,
           NEW state \in {"fulfilled", "rejected"}, NEW slots \in Seq(Krefs),
           RowSet(s, t, p, SettledRow(s.promise[p], state, slots))
    PROVE  Settles(s, t, p)
<1>1. s.promise[p] \in PromiseRows /\ DOMAIN s.promise \subseteq Promises
  BY StoreIs
<1> DEFINE row == SettledRow(s.promise[p], state, slots)
<1>2. row \in PromiseRows /\ row.refs = s.promise[p].refs /\ row.state = state
  BY <1>1, SettledRowIs
<1> HIDE DEF row
<1>3. RowSet(s, t, p, row)
  BY DEF row
<1>4. /\ Passes(s, t) /\ t.promise[p] = row /\ t.run = s.run /\ t.buffer = s.buffer
      /\ \A q \in DOMAIN s.promise : q # p => t.promise[q] = s.promise[q]
  BY <1>2, <1>3, RowSetIs
<1>5. DOMAIN t.promise = DOMAIN s.promise
  BY <1>4 DEF Passes
<1>6. ~Unresolved(t, p)
  BY <1>2, <1>4 DEF Unresolved
<1> QED
  BY <1>1, <1>4, <1>5, <1>6 DEF Passes, Settles, Unresolved, Has

LEMMA SettlesLevel ==
    ASSUME NEW s \in Stores, NEW t, NEW u, NEW p, Settles(t, u, p), Level(s, t)
    PROVE  Settles(s, u, p)
  BY DEF Settles, Level, Face, Rows

LEMMA LevelSettles ==
    ASSUME NEW s \in Stores, NEW t, NEW u, NEW p \in Promises, Settles(s, t, p), Level(t, u)
    PROVE  Settles(s, u, p)
  BY DEF Settles, Level, Face, Rows

LEMMA ResolveKernelPromiseSettles ==
    ASSUME NEW s \in Stores, NEW p \in DOMAIN s.promise, NEW state \in {"fulfilled", "rejected"},
           NEW slots \in Seq(Krefs), Unresolved(s, p)
    PROVE  LET u == ResolveKernelPromise(s, p, state, slots)
           IN  u \in Stores /\ (u.failed \/ Settles(s, u, p))
<1> DEFINE t == ReleaseQueue(s, p, s.promise[p].queue)
           row == [t.promise[p] EXCEPT !.state = state, !.slots = slots, !.queue = <<>>,
                                       !.decider = NoOne, !.subscribers = {}]
           r == [t EXCEPT !.promise[p] = row]
           u == ResolveKernelPromise(s, p, state, slots)
<1>1. p \in Promises /\ p \in Krefs /\ s.promise[p].queue \in Seq(Message)
  BY StoreIs, KrefsAre DEF PromiseRows
<1>2. u = IF t.failed THEN t ELSE Release(r, p)
  BY DEF ResolveKernelPromise
<1>3. Level(s, t)
  BY <1>1, ReleaseQueueLevel
<1> HIDE DEF t, u
<1>4. t \in Stores /\ p \in DOMAIN t.promise
  BY <1>1, <1>3 DEF Level, Face, Rows, Unresolved
<1>5. RowSet(t, r, p, SettledRow(t.promise[p], state, slots))
  BY DEF RowSet, SettledRow
<1> HIDE DEF r
<1>6. Settles(t, r, p)
  BY <1>4, <1>5, RowSettles
<1>7. r \in Stores /\ Level(r, Release(r, p))
  BY <1>1, <1>6, ReleaseLevel DEF Settles
<1>8. Settles(s, Release(r, p), p)
  BY <1>1, <1>3, <1>4, <1>6, <1>7, SettlesLevel, LevelSettles
<1>9. CASE t.failed
  BY <1>2, <1>4, <1>9 DEF u
<1>10. CASE ~t.failed
  BY <1>2, <1>8, <1>10 DEF u, Settles
<1> QED
  BY <1>9, <1>10

(* What is queued on a promise that settles is sent on.                    *)
LEMMA SettledTends ==
    ASSUME NEW s \in Stores, NEW n \in Stores, NEW r, NEW u \in Stores, NEW p \in Promises, NEW when,
           Posts(s, n, when), Settles(n, r, p), Posts(r, u, when), Unresolved(s, p),
           \A i \in DOMAIN s.promise[p].queue : Outbound(u, s.promise[p].queue[i].result)
    PROVE  Tends(s, u, when) /\ Narrows(s, u) /\ ~Unresolved(u, p)
<1>1. /\ u.configured = s.configured /\ u.terminated = s.terminated
      /\ when = "immediate" => u.buffer = s.buffer
      /\ \A v \in Vats : \A q : Has(u, v, q) <=> Has(s, v, q)
  BY DEF Posts, Settles
<1>2. ~Unresolved(u, p)
  BY DEF Posts, Rows, Settles
<1>3. ASSUME NEW q \in Promises, q # p
      PROVE  /\ Unresolved(u, q) <=> Unresolved(s, q)
             /\ Unresolved(s, q) => /\ u.promise[q].decider = s.promise[q].decider
                                    /\ u.promise[q].queue = s.promise[q].queue
  BY <1>3 DEF Posts, Rows, Settles
<1>4. Narrows(s, u)
  BY <1>1, <1>2, <1>3 DEF Narrows
<1>5. DOMAIN s.promise \subseteq Promises /\ s.configured \subseteq Vats
  BY StoreIs, StoreFields
<1>6. ASSUME NEW q, Travels(s, q) PROVE Travels(u, q)
  <2>1. CASE Outbound(s, q)
    <3>1. Outbound(n, q)
      BY <2>1 DEF Posts
    <3>2. Outbound(r, q)
      BY <3>1 DEF Settles, Outbound
    <3>3. Outbound(u, q)
      BY <3>2 DEF Posts
    <3> QED
      BY <3>3 DEF Outbound, Travels
  <2>2. CASE ~Outbound(s, q)
    <3>1. PICK x \in DOMAIN s.promise : Awaits(s, x, q)
      BY <1>6, <2>2 DEF Travels, Outbound
    <3>2. CASE x = p
      <4>1. Outbound(u, q)
        BY <3>1, <3>2 DEF Awaits
      <4> QED
        BY <4>1 DEF Outbound, Travels
    <3>3. CASE x # p
      <4>1. x \in Promises
        BY <1>5
      <4>2. Awaits(u, x, q) /\ x \in DOMAIN u.promise
        BY <1>3, <3>1, <3>3, <4>1 DEF Awaits, Unresolved
      <4> QED
        BY <4>2 DEF Travels
    <3> QED
      BY <3>2, <3>3
  <2> QED
    BY <2>1, <2>2
<1>7. Stranded(u) \subseteq Stranded(s)
  <2> SUFFICES ASSUME NEW q \in Promises, Unresolved(u, q), ~Minded(u, q), ~Travels(u, q)
               PROVE  Unresolved(s, q) /\ ~Minded(s, q) /\ ~Travels(s, q)
    BY DEF Stranded
  <2>1. q # p
    BY <1>2
  <2>2. Minded(s, q) => Minded(u, q)
    BY <1>1, <1>3, <1>5, <2>1 DEF Minded
  <2> QED
    BY <1>3, <1>6, <2>1, <2>2
<1> QED
  BY <1>1, <1>2, <1>4, <1>7 DEF Tends

LEMMA ResolvePromiseTends ==
    ASSUME NEW s \in Stores, NEW who, NEW p, NEW state \in {"fulfilled", "rejected"},
           NEW slots \in Seq(Krefs), NEW when
    PROVE  LET u == ResolvePromise(s, who, p, state, slots, when)
           IN  /\ u \in Stores
               /\ \/ u.failed
                  \/ Tends(s, u, when) /\ Narrows(s, u) /\ ~Unresolved(u, p)
<1> DEFINE u == ResolvePromise(s, who, p, state, slots, when)
<1>1. CASE s.failed \/ ~Unresolved(s, p) \/ s.promise[p].decider # who
  <2>1. u = Raise(s)
    BY <1>1 DEF ResolvePromise
  <2> HIDE DEF u
  <2>2. u \in Stores /\ u.failed
    BY <2>1, RaiseIs
  <2> QED
    BY <2>2 DEF u
<1>2. CASE ~(s.failed \/ ~Unresolved(s, p) \/ s.promise[p].decider # who)
  <2> DEFINE told == InOrder(s.promise[p].subscribers)
             q == s.promise[p].queue
             c == ChargeAll(s, slots)
             n == NotifyAll(c, told, p, when)
             r == IF n.failed THEN n ELSE ResolveKernelPromise(n, p, state, slots)
  <2>1. u = SendAll(r, p, q, when)
    BY <1>2 DEF ResolvePromise
  <2>2. p \in DOMAIN s.promise /\ Unresolved(s, p)
    BY <1>2 DEF Unresolved
  <2>3. p \in Promises /\ p \in Krefs /\ q \in Seq(Message) /\ s.promise[p].subscribers \in SUBSET Vats
    BY <2>2, StoreIs, KrefsAre DEF PromiseRows
  <2>4. told \in Seq(Vats)
    <3>1. NumVats \in Nat /\ Vats = 1 .. NumVats
      BY KrefsAre DEF Vats
    <3>2. told \in Seq(s.promise[p].subscribers)
      BY <2>3, <3>1, InOrderIsSequence
    <3> QED
      BY <2>3, <3>2
  <2>5. c \in Stores /\ Posts(s, c, when)
    BY ChargeAllLevel, LevelPosts DEF Level, Face
  <2> HIDE DEF c, told
  <2>6. n \in Stores /\ Posts(c, n, when)
    BY <2>3, <2>4, <2>5, NotifyAllPosts
  <2> HIDE DEF n, u, q
  <2>7. Posts(s, n, when)
    BY <2>5, <2>6, PostsJoins
  <2>8. Unresolved(n, p) /\ p \in DOMAIN n.promise
    BY <2>2, <2>3, <2>7 DEF Posts, Rows, Unresolved
  <2>9. r \in Stores /\ (r.failed \/ Settles(n, r, p))
    BY <2>6, <2>8, ResolveKernelPromiseSettles
  <2> HIDE DEF r
  <2>10. /\ u \in Stores /\ Posts(r, u, when) /\ (r.failed => u.failed)
         /\ u.failed \/ \A i \in DOMAIN q : Outbound(u, q[i].result)
    BY <2>1, <2>3, <2>9, SendAllPosts
  <2>11. CASE u.failed
    BY <2>10, <2>11 DEF u
  <2>12. CASE ~u.failed
    <3>1. Settles(n, r, p) /\ \A i \in DOMAIN q : Outbound(u, q[i].result)
      BY <2>9, <2>10, <2>12
    <3>2. Tends(s, u, when) /\ Narrows(s, u) /\ ~Unresolved(u, p)
      BY <2>2, <2>3, <2>6, <2>7, <2>10, <3>1, SettledTends DEF q
    <3> QED
      BY <2>10, <3>2 DEF u
  <2> QED
    BY <2>11, <2>12
<1> QED
  BY <1>1, <1>2

(* Promises rejected one after another.                                    *)
LEMMA RejectAllTends ==
    ASSUME NEW s \in Stores, NEW v, NEW ps, Len(ps) \in Nat
    PROVE  LET u == RejectAll(s, v, ps)
           IN  /\ u \in Stores
               /\ \/ u.failed
                  \/ /\ Tends(s, u, "immediate") /\ Narrows(s, u)
                     /\ \A i \in 1 .. Len(ps) : ps[i] \in Promises => ~Unresolved(u, ps[i])
<1>1. PICK h : RejectRun(h, s, v, ps)
  BY RejectRuns
<1> DEFINE Served(n) == /\ Tends(s, h[n], "immediate") /\ Narrows(s, h[n])
                      /\ \A i \in 1 .. n : ps[i] \in Promises => ~Unresolved(h[n], ps[i])
           Fine(n) == h[n] \in Stores /\ (h[n].failed \/ Served(n))
           S == {n \in Nat : n <= Len(ps) => Fine(n)}
<1>2. 0 \in S
  <2>1. h[0] = s /\ 1 .. 0 = {}
    BY <1>1 DEF RejectRun
  <2>2. Tends(s, s, "immediate") /\ Narrows(s, s)
    BY LevelSelf, PostsSelf, PostsNarrows
  <2> QED
    BY <2>1, <2>2
<1>3. ASSUME NEW n \in Nat, n \in S PROVE n + 1 \in S
  <2> SUFFICES ASSUME n + 1 <= Len(ps) PROVE Fine(n + 1)
    OBVIOUS
  <2>1. n + 1 \in 1 .. Len(ps) /\ (n + 1) - 1 = n /\ Fine(n)
    BY <1>3
  <2> DEFINE t == h[n]
             u == h[n + 1]
             slots == <<>>
  <2>2. u = ResolvePromise(t, v, ps[n + 1], "rejected", slots, "immediate")
    BY <1>1, <2>1 DEF RejectRun
  <2>3. slots \in Seq(Krefs) /\ t \in Stores
    BY <2>1
  <2> HIDE DEF slots
  <2>4. /\ u \in Stores
        /\ \/ u.failed
           \/ Tends(t, u, "immediate") /\ Narrows(t, u) /\ ~Unresolved(u, ps[n + 1])
    BY <2>2, <2>3, ResolvePromiseTends
  <2>5. CASE t.failed
    <3>1. u = Raise(t)
      BY <2>2, <2>5 DEF ResolvePromise
    <3> QED
      BY <2>3, <3>1, RaiseIs
  <2>6. CASE ~t.failed /\ ~u.failed
    <3>1. Served(n) /\ Tends(t, u, "immediate") /\ Narrows(t, u) /\ ~Unresolved(u, ps[n + 1])
      BY <2>1, <2>4, <2>6
    <3>2. Tends(s, u, "immediate") /\ Narrows(s, u)
      BY <3>1, TendsJoins, NarrowsJoins
    <3>3. ASSUME NEW i \in 1 .. n + 1, ps[i] \in Promises PROVE ~Unresolved(u, ps[i])
      <4>1. CASE i = n + 1
        BY <3>1, <4>1
      <4>2. CASE i # n + 1
        <5>1. i \in 1 .. n
          BY <3>3, <4>2
        <5> QED
          BY <3>1, <3>3, <5>1 DEF Narrows
      <4> QED
        BY <4>1, <4>2
    <3> QED
      BY <2>4, <3>2, <3>3
  <2> QED
    BY <2>4, <2>5, <2>6
<1>4. Nat \subseteq S
  <2> HIDE DEF S
  <2> QED
    BY <1>2, <1>3, SetInduction
<1>5. Fine(Len(ps))
  BY <1>4
<1> QED
  BY <1>1, <1>5 DEF RejectRun

-----------------------------------------------------------------------------
(* The death of a vat, and collection.                                     *)

LEMMA UntouchedLevel ==
    ASSUME NEW s \in Stores, NEW t \in Stores, t.promise = s.promise, t.clist = s.clist,
           t.run = s.run, t.buffer = s.buffer, t.configured = s.configured,
           t.terminated = s.terminated
    PROVE  Level(s, t)
  BY DEF Level, Face, Rows, Unresolved, Has

(* A failure, or a store where nothing more is stranded.                   *)
Serves(s, t) ==
    /\ t \in Stores
    /\ \/ t.failed
       \/ /\ Stranded(t) \subseteq Stranded(s) /\ t.buffer = s.buffer
          /\ Apart(s) => Apart(t)

LEMMA ServesSelf ==
    ASSUME NEW s \in Stores
    PROVE  Serves(s, s)
  BY DEF Serves

LEMMA TendsServes ==
    ASSUME NEW s \in Stores, NEW t, Tends(s, t, "immediate")
    PROVE  Serves(s, t)
  BY DEF Serves, Tends, Apart, IsTerminated

LEMMA MindsServes ==
    ASSUME NEW s \in Stores, NEW t, Minds(s, t)
    PROVE  Serves(s, t)
  BY MindsTends, TendsServes

LEMMA ServesJoins ==
    ASSUME NEW s, NEW t, NEW u, Serves(s, t), Serves(t, u), t.failed => u.failed
    PROVE  Serves(s, u)
  BY DEF Serves

LEMMA UnpinLevel ==
    ASSUME NEW s \in Stores, NEW k \in Objects
    PROVE  LET u == Unpin(s, k)
           IN  u \in Stores /\ Level(s, u) /\ (s.failed => u.failed)
<1>1. s.pins \in [Objects -> Nat] /\ k \in Krefs
  BY StoreFields, KrefsAre
<1>2. CASE s.failed \/ s.pins[k] = 0
  BY <1>2, LevelSelf DEF Unpin
<1>3. CASE ~(s.failed \/ s.pins[k] = 0)
  <2> DEFINE pins == [s.pins EXCEPT ![k] = @ - 1]
             t == [s EXCEPT !.pins[k] = @ - 1]
             u == Unpin(s, k)
  <2>1. pins \in [Objects -> Nat]
    <3>1. s.pins[k] \in Nat
      BY <1>1
    <3>2. s.pins[k] - 1 \in Nat
      BY <1>3, <3>1
    <3> QED
      BY <1>1, <3>2
  <2>2. u = Release(t, k)
    BY <1>3 DEF Unpin
  <2>3. t = [s EXCEPT !.pins = pins]
    BY DEF Stores
  <2>4. /\ t.promise = s.promise /\ t.clist = s.clist /\ t.run = s.run /\ t.buffer = s.buffer
        /\ t.configured = s.configured /\ t.terminated = s.terminated
    BY <2>3 DEF Stores
  <2> HIDE DEF pins, t, u
  <2>5. t \in Stores
    BY <2>1, <2>3, StoreChanges
  <2>6. Level(s, t)
    BY <2>4, <2>5, UntouchedLevel
  <2>7. Level(t, u)
    BY <1>1, <2>2, <2>5, ReleaseLevel
  <2>8. Level(s, u)
    BY <2>6, <2>7, LevelJoins
  <2> QED
    BY <1>3, <2>8 DEF u, Level, Face
<1> QED
  BY <1>2, <1>3

(* A vat dies: what it alone would have settled has been rejected.         *)
LEMMA RetireVatServes ==
    ASSUME NEW s \in Stores, NEW v \in Vats
    PROVE  Serves(s, RetireVat(s, v))
<1> DEFINE ps == InOrder(DecidedBy(s, v))
           a == RejectAll(s, v, ps)
           b == IF Has(s, v, Root(v)) THEN Unpin(a, Root(v)) ELSE a
           u == RetireVat(s, v)
<1>1. CASE v \notin s.configured
  BY <1>1, ServesSelf DEF RetireVat
<1>2. CASE v \in s.configured
  <2>1. u = [b EXCEPT !.terminated = Append(@, v), !.configured = @ \ {v}]
    BY <1>2 DEF RetireVat
  <2>2. /\ Len(ps) \in Nat
        /\ \A q \in DecidedBy(s, v) : \E i \in 1 .. Len(ps) : ps[i] = q
    <3>1. DecidedBy(s, v) \in SUBSET Krefs
      BY StoreIs DEF DecidedBy
    <3> QED
      BY <3>1, KrefsInOrder
  <2> HIDE DEF ps
  <2>3. /\ a \in Stores
        /\ \/ a.failed
           \/ /\ Tends(s, a, "immediate") /\ Narrows(s, a)
              /\ \A i \in 1 .. Len(ps) : ps[i] \in Promises => ~Unresolved(a, ps[i])
    BY <2>2, RejectAllTends
  <2> HIDE DEF a
  <2>4. b \in Stores /\ Level(a, b) /\ (a.failed => b.failed)
    BY <2>3, RootIs, UnpinLevel, LevelSelf
  <2> HIDE DEF b, u
  <2>5. /\ u \in Stores /\ u.failed = b.failed /\ u.promise = b.promise /\ u.clist = b.clist
        /\ u.run = b.run /\ u.buffer = b.buffer
        /\ u.terminated = Append(b.terminated, v) /\ u.configured = b.configured \ {v}
    <3>1. Ended(b, u, v)
      BY <2>1 DEF Ended
    <3>2. Roster(b, u) /\ u.terminated = Append(b.terminated, v) /\ u.configured = b.configured \ {v}
      BY <2>4, <3>1, EndedIs
    <3> QED
      BY <3>2 DEF Roster
  <2>6. CASE u.failed
    BY <2>5, <2>6 DEF Serves, u
  <2>7. CASE ~u.failed
    <3>1. /\ Tends(s, a, "immediate") /\ Narrows(s, a)
          /\ \A i \in 1 .. Len(ps) : ps[i] \in Promises => ~Unresolved(a, ps[i])
      BY <2>3, <2>4, <2>5, <2>7
    <3>2. b.buffer = s.buffer /\ b.configured = s.configured /\ b.terminated = s.terminated
      BY <2>4, <3>1 DEF Level, Face, Tends
    <3>3. Stranded(b) \subseteq Stranded(s)
      <4>1. Minds(a, b)
        BY <2>3, <2>4, LevelMinds
      <4>2. Stranded(b) \subseteq Stranded(a)
        BY <2>3, <4>1, MindsTends DEF Tends
      <4> QED
        BY <3>1, <4>2 DEF Tends
    <3>4. Stranded(u) \subseteq Stranded(b)
      <4> SUFFICES ASSUME NEW q \in Promises, Unresolved(u, q), ~Minded(u, q), ~Travels(u, q)
                   PROVE  Unresolved(b, q) /\ ~Minded(b, q) /\ ~Travels(b, q)
        BY DEF Stranded
      <4>1. Unresolved(b, q) /\ ~Travels(b, q)
        BY <2>5 DEF Unresolved, Travels, Awaits
      <4>2. ~Minded(b, q)
        <5> SUFFICES ASSUME Minded(b, q) PROVE FALSE
          OBVIOUS
        <5>1. b.promise[q].decider = v
          BY <2>5 DEF Minded, Has
        <5>2. Unresolved(a, q) /\ a.promise[q].decider = v /\ Has(a, v, q)
          BY <2>4, <4>1, <5>1 DEF Level, Face, Rows, Minded
        <5>3. Unresolved(s, q) /\ s.promise[q].decider = v /\ Has(s, v, q)
          BY <3>1, <5>2 DEF Narrows
        <5>4. q \in DecidedBy(s, v)
          BY <5>3, KrefsAre DEF DecidedBy, Has
        <5> QED
          BY <2>2, <3>1, <5>2, <5>4
      <4> QED
        BY <4>1, <4>2
    <3>5. ASSUME Apart(s) PROVE Apart(u)
      <4> SUFFICES ASSUME NEW w \in Vats, IsTerminated(u, w) PROVE w \notin u.configured
        BY DEF Apart
      <4>1. b.terminated \in Seq(Vats)
        BY <2>4, StoreFields
      <4>2. IsTerminated(s, w) \/ w = v
        BY <2>5, <3>2, <4>1, ContainsEnds DEF IsTerminated
      <4> QED
        BY <2>5, <3>2, <3>5, <4>2 DEF Apart
    <3> QED
      BY <2>5, <3>2, <3>3, <3>4, <3>5 DEF Serves, u
  <2> QED
    BY <2>6, <2>7
<1> QED
  BY <1>1, <1>2

(* What has no count is no promise that waits.                             *)
LEMMA CollectPromiseMinds ==
    ASSUME NEW E \in Loans, NEW R, NEW s, Sound(s, E, R), NEW p \in Promises
    PROVE  LET u == CollectPromise(s, p)
           IN  u \in Stores /\ (u.failed \/ Minds(s, u))
<1>1. s \in Stores
  BY DEF Sound
<1>2. CASE p \notin DOMAIN s.promise
  BY <1>1, <1>2, RaiseIs DEF CollectPromise
<1>3. CASE p \in DOMAIN s.promise /\ s.promise[p].refs > 0
  BY <1>1, <1>3, LevelSelf DEF CollectPromise
<1>4. CASE p \in DOMAIN s.promise /\ ~(s.promise[p].refs > 0)
  <2> DEFINE slots == s.promise[p].slots
             t == ReleaseAll(s, slots)
             u == CollectPromise(s, p)
  <2>1. s.promise[p].refs = 0 /\ slots \in Seq(Krefs)
    BY <1>1, <1>4, StoreIs DEF PromiseRows
  <2>2. s.promise[p].state # "unresolved"
    BY <1>4, <2>1, UncountedPromise
  <2>3. u = [t EXCEPT !.promise = [x \in DOMAIN @ \ {p} |-> @[x]]]
    BY <1>4, <2>2 DEF CollectPromise
  <2>4. Level(s, t)
    BY <1>1, <2>1, ReleaseAllLevel
  <2> HIDE DEF t, u
  <2>6. t \in Stores /\ ~Unresolved(t, p)
    BY <2>2, <2>4 DEF Level, Face, Rows, Unresolved
  <2>7. CASE p \in DOMAIN t.promise
    <3>1. PromiseGone(t, u, p)
      BY <2>3 DEF PromiseGone
    <3>2. /\ u \in Stores /\ Frame(t, u) /\ u.clist = t.clist
          /\ DOMAIN u.promise = DOMAIN t.promise \ {p}
          /\ \A q \in DOMAIN u.promise : u.promise[q] = t.promise[q]
      BY <2>6, <2>7, <3>1, PromiseGoneIs
    <3>3. Rows(t, u)
      BY <2>6, <3>2 DEF Rows, Unresolved
    <3>4. Level(t, u)
      BY <3>2, <3>3 DEF Level, Face, Frame, Has
    <3>5. Minds(s, u)
      BY <1>1, <2>4, <3>4, LevelJoins, LevelMinds
    <3> QED
      BY <3>2, <3>5 DEF u
  <2>8. CASE p \notin DOMAIN t.promise
    <3>1. t.promise \in Tables(Promises, PromiseRows)
      BY <2>6, StoreFields
    <3>2. u = [t EXCEPT !.promise = t.promise]
      <4>1. [x \in DOMAIN t.promise \ {p} |-> t.promise[x]] = t.promise
        BY <2>8, <3>1, TableIs
      <4> QED
        BY <2>3, <4>1
    <3>3. u = t
      BY <2>6, <3>2 DEF Stores
    <3> QED
      BY <1>1, <2>4, <2>6, <3>3, LevelMinds DEF u
  <2> QED
    BY <2>7, <2>8
<1> QED
  BY <1>2, <1>3, <1>4

LEMMA CollectObjectMinds ==
    ASSUME NEW E \in Loans, NEW R, NEW s, Sound(s, E, R), NEW k \in Objects
    PROVE  LET u == CollectObject(s, k)
           IN  u \in Stores /\ (u.failed \/ Minds(s, u))
<1> DEFINE v == s.object[k].owner
           u == CollectObject(s, k)
<1>1. s \in Stores /\ k \in Krefs
  BY KrefsAre DEF Sound
<1>2. u \in Stores
  BY CollectObjectIsSound DEF Outcome, Sound
<1>3. CASE k \notin DOMAIN s.object \/ s.object[k].reach > 0
  BY <1>1, <1>3, LevelSelf DEF CollectObject
<1>4. CASE k \in DOMAIN s.object /\ ~(s.object[k].reach > 0)
  <2>1. v \in Vats \cup {NoOne}
    BY <1>1, <1>4, StoreIs DEF ObjectRows
  <2>2. CASE v = NoOne
    <3>1. u = DropOrphan(s, k)
      BY <1>4, <2>2 DEF CollectObject
    <3> HIDE DEF u, v
    <3>2. ObjectGone(s, u, k)
      BY <1>1, <1>4, <3>1, DropOrphanIs
    <3>3. Level(s, u)
      BY <1>1, <1>2, <3>2, UntouchedLevel DEF ObjectGone
    <3> QED
      BY <1>1, <1>2, <3>3, LevelMinds DEF u
  <2>3. CASE v # NoOne
    <3>1. v \in Vats /\ Has(s, v, k)
      BY <1>4, <2>1, <2>3 DEF Sound, ExportsOwned
    <3>2. CASE IsTerminated(s, v)
      <4> DEFINE z == ForgetEntry(s, v, k)
      <4>1. u = DropOrphan(z, k)
        BY <1>4, <2>3, <3>1, <3>2 DEF CollectObject
      <4> HIDE DEF u, v, z
      <4>2. Minds(s, z) /\ z \in Stores /\ k \in DOMAIN z.object
        BY <1>1, <1>4, <3>1, ForgetEntryMinds, ForgottenIs DEF z, Forgotten, SameCounts
      <4>3. ObjectGone(z, u, k)
        BY <4>1, <4>2, DropOrphanIs
      <4>4. Minds(z, u)
        BY <1>2, <4>2, <4>3, UntouchedLevel, LevelMinds DEF ObjectGone
      <4>5. Minds(s, u)
        BY <4>2, <4>4, LevelJoins
      <4> QED
        BY <1>2, <4>5 DEF u
    <3>3. CASE ~IsTerminated(s, v)
      <4> DEFINE a == IF s.clist[v][k].reach THEN {GCAction(v, "dropExport", k)} ELSE {}
                 b == IF s.object[k].recog = 0 THEN {GCAction(v, "retireExport", k)} ELSE {}
      <4>1. u = [s EXCEPT !.actions = @ \cup a \cup b]
        BY <1>4, <2>3, <3>1, <3>3 DEF CollectObject, AskOwner
      <4> HIDE DEF a, b
      <4>2. /\ u.clist = s.clist /\ u.run = s.run /\ u.buffer = s.buffer /\ u.promise = s.promise
            /\ u.terminated = s.terminated /\ u.configured = s.configured
        BY <1>1, <4>1 DEF Stores
      <4> HIDE DEF u, v
      <4>3. Level(s, u)
        BY <1>1, <1>2, <4>2, UntouchedLevel
      <4> QED
        BY <1>1, <1>2, <4>3, LevelMinds DEF u
    <3> QED
      BY <3>2, <3>3
  <2> QED
    BY <2>2, <2>3
<1> QED
  BY <1>3, <1>4

LEMMA CollectNextMinds ==
    ASSUME NEW E \in Loans, NEW R, NEW t, Sound(t, E, R), NEW n \in Nat \ {0}
    PROVE  LET u == CollectNext(t, n)
           IN  u \in Stores /\ (u.failed \/ Minds(t, u))
<1>1. t \in Stores
  BY DEF Sound
<1>2. CASE t.failed \/ n > Len(t.free)
  BY <1>1, <1>2, LevelSelf DEF CollectNext
<1>3. CASE ~t.failed /\ ~(n > Len(t.free))
  <2> DEFINE k == t.free[n]
  <2>1. t.free \in Seq(Krefs)
    BY <1>1, StoreFields
  <2>2. k \in Krefs
    BY <1>3, <2>1
  <2>3. CollectNext(t, n) = IF IsPromise(k) THEN CollectPromise(t, k) ELSE CollectObject(t, k)
    BY <1>3 DEF CollectNext
  <2> HIDE DEF k
  <2>4. CASE IsPromise(k)
    BY <2>2, <2>3, <2>4, KrefsAre, CollectPromiseMinds
  <2>5. CASE ~IsPromise(k)
    BY <2>2, <2>3, <2>5, KrefsAre, CollectObjectMinds
  <2> QED
    BY <2>4, <2>5
<1> QED
  BY <1>2, <1>3

LEMMA CollectGarbageServes ==
    ASSUME NEW E \in Loans, NEW R, NEW s \in Stores, NEW t, Outcome(s, t, E, R)
    PROVE  LET u == CollectGarbage(t)
           IN  Serves(t, u) /\ (t.failed => u.failed)
<1> DEFINE N == MaxObjects + MaxPromises
<1>1. N \in Nat /\ t \in Stores
  BY KrefsAre DEF Outcome, Sound
<1>2. PICK h : CollectRun(h, t)
  BY <1>1, CollectRuns
<1> DEFINE Fine(n) == Outcome(s, h[n], E, R) /\ (h[n].failed \/ (~t.failed /\ Minds(t, h[n])))
           S == {n \in Nat : n <= N => Fine(n)}
<1>3. 0 \in S
  <2>1. h[0] = t
    BY <1>2 DEF CollectRun
  <2> QED
    BY <1>1, <2>1, LevelSelf
<1>4. ASSUME NEW n \in Nat, n \in S PROVE n + 1 \in S
  <2> SUFFICES ASSUME n + 1 <= N PROVE Fine(n + 1)
    OBVIOUS
  <2>1. Fine(n) /\ n + 1 \in 1 .. N /\ (n + 1) - 1 = n /\ n + 1 \in Nat \ {0}
    BY <1>1, <1>4
  <2>2. h[n + 1] = CollectNext(h[n], n + 1)
    BY <1>2, <2>1 DEF CollectRun
  <2>3. Outcome(s, h[n + 1], E, R)
    BY <2>1, <2>2, CollectNextIsSound
  <2>4. CASE h[n].failed
    BY <2>2, <2>3, <2>4 DEF CollectNext
  <2>5. CASE ~h[n].failed
    <3>1. Sound(h[n], E, R)
      BY <2>1, <2>5 DEF Outcome
    <3>2. h[n + 1].failed \/ Minds(h[n], h[n + 1])
      BY <2>1, <2>2, <3>1, CollectNextMinds
    <3> QED
      BY <2>1, <2>3, <2>5, <3>2, LevelJoins
  <2> QED
    BY <2>4, <2>5
<1>5. Nat \subseteq S
  <2> HIDE DEF S
  <2> QED
    BY <1>3, <1>4, SetInduction
<1> DEFINE g == h[N]
           u == CollectGarbage(t)
<1>6. Fine(N)
  BY <1>1, <1>5
<1>7. u = [g EXCEPT !.free = <<>>] /\ g \in Stores
  BY <1>2, <1>6 DEF CollectRun, Outcome, Sound
<1>8. g.failed \/ (~t.failed /\ Minds(t, g))
  BY <1>6
<1> HIDE DEF g, u
<1>9. u \in Stores
  <2>1. <<>> \in Seq(Krefs)
    OBVIOUS
  <2> QED
    BY <1>7, <2>1, StoreChanges
<1>10. /\ u.promise = g.promise /\ u.clist = g.clist /\ u.run = g.run /\ u.buffer = g.buffer
       /\ u.configured = g.configured /\ u.terminated = g.terminated /\ u.failed = g.failed
  BY <1>7 DEF Stores
<1>11. Level(g, u)
  BY <1>7, <1>9, <1>10, UntouchedLevel
<1>12. CASE u.failed
  BY <1>9, <1>12 DEF Serves, u
<1>13. CASE ~u.failed
  <2>1. ~t.failed /\ Minds(t, g)
    BY <1>8, <1>10, <1>13
  <2>2. Minds(t, u)
    BY <1>7, <1>11, <2>1, LevelMinds, LevelJoins
  <2> QED
    BY <1>1, <2>1, <2>2, MindsServes DEF u
<1> QED
  BY <1>12, <1>13

-----------------------------------------------------------------------------
(* What a crank takes: the result of a message is in nobody's hands until  *)
(* the message has been delivered.                                         *)

Loose(x) == IF x.type = "send" THEN {x.message.result} ELSE {}

LEMMA CarriesLess ==
    ASSUME NEW items \in Seq(Items), items # <<>>, NEW q, Carries(items, q)
    PROVE  Carries(Tail(items), q) \/ q \in Loose(Head(items))
<1> DEFINE rest == Tail(items)
<1>1. PICK i \in DOMAIN items : items[i].type = "send" /\ items[i].message.result = q
  BY DEF Carries
<1>2. /\ Len(items) \in Nat /\ i \in 1 .. Len(items) /\ Head(items) = items[1]
      /\ DOMAIN rest = 1 .. Len(items) - 1
      /\ \A n \in 1 .. Len(items) - 1 : rest[n] = items[n + 1]
  OBVIOUS
<1> HIDE DEF rest
<1>3. CASE i = 1
  BY <1>1, <1>2, <1>3 DEF Loose
<1>4. CASE i # 1
  <2>1. i - 1 \in 1 .. Len(items) - 1 /\ (i - 1) + 1 = i
    BY <1>2, <1>4
  <2>2. rest[i - 1] = items[i]
    BY <1>2, <2>1
  <2>3. i - 1 \in DOMAIN rest
    BY <1>2, <2>1
  <2> QED
    BY <1>1, <2>2, <2>3 DEF Carries, rest
<1> QED
  BY <1>3, <1>4

LEMMA TakeGCActionLevel ==
    ASSUME NEW s \in Stores
    PROVE  Level(s, TakeGCAction(s).store)
<1> DEFINE due == {a \in s.actions : ShouldProcess(s, a)}
           first == CHOOSE a \in due : \A b \in due : Rank(a) <= Rank(b)
           later == {a \in s.actions : Rank(a) > Rank(first)}
           A == IF due = {} THEN {} ELSE later
           t == TakeGCAction(s).store
<1>1. ActionsSet(s, t, A)
  BY DEF TakeGCAction, ActionsSet
<1>2. A \in SUBSET GCActions
  BY StoreFields DEF GCActions
<1> HIDE DEF A, t
<1>3. /\ t \in Stores /\ t.clist = s.clist /\ t.run = s.run /\ t.buffer = s.buffer
      /\ t.promise = s.promise /\ t.terminated = s.terminated /\ t.configured = s.configured
  BY <1>1, <1>2, ActionsSetIs
<1>4. Level(s, t)
  BY <1>3, UntouchedLevel
<1> QED
  BY <1>4 DEF t

(* The same vats, and nothing stranded but the results in "more".          *)
Parts(s, t, more) ==
    /\ t \in Stores /\ t.buffer = s.buffer
    /\ t.configured = s.configured /\ t.terminated = s.terminated
    /\ Stranded(t) \subseteq Stranded(s) \cup more

LEMMA NextItemTakes ==
    ASSUME NEW s \in Stores
    PROVE  LET next == NextItem(s)
           IN  Parts(s, next.store, IF next.item = NoOne THEN {} ELSE Loose(next.item))
<1> DEFINE gc == TakeGCAction(s)
           t == gc.store
           reaped == [t EXCEPT !.reaps = Tail(@)]
           taken == [t EXCEPT !.run = Tail(@)]
           next == NextItem(s)
<1>1. t \in Stores /\ Tends(s, t, "immediate")
  BY TakeGCActionLevel, LevelMinds, MindsTends DEF Level, Face
<1>2. next = IF gc.item # NoOne THEN gc
             ELSE IF t.reaps # <<>> THEN [store |-> reaped, item |-> Reap(Head(t.reaps))]
             ELSE IF t.run # <<>> THEN [store |-> taken, item |-> Head(t.run)]
             ELSE [store |-> t, item |-> NoOne]
  BY DEF NextItem, Reap
<1>3. gc.store = t
  OBVIOUS
<1> HIDE DEF gc, next, t
<1>4. CASE next.store = t
  BY <1>1, <1>4 DEF Tends, Parts, next
<1>5. CASE gc.item = NoOne /\ t.reaps # <<>>
  <2>1. next.store = reaped
    BY <1>2, <1>5
  <2>2. ReapsSet(t, reaped)
    BY DEF ReapsSet
  <2> HIDE DEF reaped
  <2>3. /\ reaped \in Stores /\ reaped.clist = t.clist /\ reaped.buffer = t.buffer
        /\ reaped.promise = t.promise /\ reaped.terminated = t.terminated
        /\ reaped.configured = t.configured /\ reaped.run = t.run
    BY <1>1, <1>5, <2>2, TakenIs DEF Takes
  <2>4. Level(t, reaped)
    BY <1>1, <2>3, UntouchedLevel
  <2>5. Tends(s, reaped, "immediate")
    BY <1>1, <2>4, LevelMinds, MindsTends, TendsJoins
  <2> QED
    BY <2>1, <2>5 DEF Tends, Parts, next
<1>6. CASE gc.item = NoOne /\ t.reaps = <<>> /\ t.run # <<>>
  <2> DEFINE x == Head(t.run)
  <2>1. next.store = taken /\ next.item = x
    BY <1>2, <1>6
  <2>2. RunSet(t, taken)
    BY DEF RunSet
  <2> HIDE DEF taken
  <2>3. /\ taken \in Stores /\ taken.clist = t.clist /\ taken.buffer = t.buffer
        /\ taken.promise = t.promise /\ taken.terminated = t.terminated
        /\ taken.configured = t.configured /\ taken.run = Tail(t.run)
    BY <1>1, <1>6, <2>2, TakenIs DEF Takes
  <2>4. t.run \in Seq(Items) /\ x \in Items
    <3>1. t.run \in Seq(Items)
      BY <1>1, StoreFields
    <3> QED
      BY <1>6, <3>1
  <2>5. \A q : Carries(t.run, q) => Carries(taken.run, q) \/ q \in Loose(x)
    BY <1>6, <2>3, <2>4, CarriesLess
  <2>6. x # NoOne
    BY <2>4, ItemIs, NoOneIsNoErrand
  <2> HIDE DEF x
  <2>7. Stranded(taken) \subseteq Stranded(t) \cup Loose(x)
    <3> SUFFICES ASSUME NEW q \in Promises, Unresolved(taken, q), ~Minded(taken, q),
                        ~Travels(taken, q), q \notin Loose(x)
                 PROVE  Unresolved(t, q) /\ ~Minded(t, q) /\ ~Travels(t, q)
      BY DEF Stranded
    <3> QED
      BY <2>3, <2>5 DEF Unresolved, Minded, Has, Travels, Awaits
  <2> QED
    BY <1>1, <2>1, <2>3, <2>6, <2>7 DEF Tends, Parts, next
<1> QED
  BY <1>2, <1>3, <1>4, <1>5, <1>6

-----------------------------------------------------------------------------
(* Deliveries.                                                             *)

(* A message that waits on a promise carries its result.                   *)
LEMMA EnqueuePromiseMessageAwaits ==
    ASSUME NEW s \in Stores, NEW p \in Promises, Unresolved(s, p), NEW m \in Message
    PROVE  LET u == EnqueuePromiseMessage(s, p, m)
           IN  u \in Stores /\ (u.failed \/ (Tends(s, u, "immediate") /\ Awaits(u, p, m.result)))
<1> DEFINE ks == MessageRefs(p, m)
           t == ChargeAll(s, ks)
           u == EnqueuePromiseMessage(s, p, m)
<1>1. ks \in Seq(Krefs)
  BY KrefsAre, MessageRefsType
<1>2. Level(s, t)
  <2> HIDE DEF ks
  <2> QED
    BY <1>1, ChargeAllLevel
<1> HIDE DEF t
<1>3. t \in Stores /\ Unresolved(t, p) /\ p \in DOMAIN t.promise /\ t.promise[p] \in PromiseRows
  <2>1. t \in Stores /\ Unresolved(t, p)
    BY <1>2 DEF Level, Face, Rows
  <2> QED
    BY <2>1, StoreIs DEF Unresolved
<1>4. CASE t.failed
  BY <1>3, <1>4 DEF EnqueuePromiseMessage, t
<1>5. CASE ~t.failed
  <2> DEFINE old == t.promise[p]
             row == [old EXCEPT !.queue = Append(@, m)]
  <2>1. row \in PromiseRows /\ row.refs = old.refs
    <3>1. old.queue \in Seq(Message)
      BY <1>3 DEF PromiseRows
    <3>2. Append(old.queue, m) \in Seq(Message)
      BY <3>1
    <3> DEFINE q == Append(old.queue, m)
    <3> HIDE DEF q
    <3>3. [old EXCEPT !.queue = q] \in PromiseRows
      BY <1>3, <3>2 DEF PromiseRows, q
    <3>4. [old EXCEPT !.queue = q].refs = old.refs
      BY <1>3 DEF PromiseRows
    <3> QED
      BY <3>3, <3>4 DEF q
  <2>2. row.state = old.state /\ row.decider = old.decider
    BY <1>3 DEF PromiseRows
  <2>3. row.queue = Append(old.queue, m) /\ old.queue \in Seq(Message)
    BY <1>3 DEF PromiseRows
  <2>4. u = [t EXCEPT !.promise[p] = row]
    BY <1>5 DEF EnqueuePromiseMessage, t
  <2> HIDE DEF row, u
  <2>5. RowSet(t, u, p, row)
    BY <2>4 DEF RowSet
  <2>6. /\ Passes(t, u) /\ u.promise[p] = row /\ u.run = t.run /\ u.buffer = t.buffer
        /\ \A x \in DOMAIN t.promise : x # p => u.promise[x] = t.promise[x]
    BY <1>3, <2>1, <2>5, RowSetIs
  <2>7. /\ u \in Stores /\ u.clist = t.clist /\ DOMAIN u.promise = DOMAIN t.promise
        /\ u.configured = t.configured /\ u.terminated = t.terminated
    BY <2>6 DEF Passes
  <2>8. \A q : Unresolved(u, q) <=> Unresolved(t, q)
    BY <2>2, <2>6, <2>7 DEF Unresolved
  <2>9. \A q \in DOMAIN t.promise : u.promise[q].decider = t.promise[q].decider
    BY <2>2, <2>6
  <2> DEFINE a == old.queue
             b == row.queue
  <2>10. /\ \A i \in DOMAIN a : i \in DOMAIN b /\ b[i] = a[i]
         /\ \E i \in DOMAIN b : b[i] = m
    <3>1. a \in Seq(Message) /\ b = Append(a, m)
      BY <2>3
    <3> HIDE DEF a, b
    <3>2. /\ Len(a) \in Nat /\ DOMAIN a = 1 .. Len(a) /\ DOMAIN b = 1 .. Len(a) + 1
          /\ b[Len(a) + 1] = m /\ \A i \in 1 .. Len(a) : b[i] = a[i]
      BY <3>1
    <3>3. \A i \in DOMAIN a : i \in DOMAIN b /\ b[i] = a[i]
      BY <3>2
    <3>4. Len(a) + 1 \in DOMAIN b
      BY <3>2
    <3> QED
      BY <3>2, <3>3, <3>4
  <2> HIDE DEF a, b
  <2>11. Awaits(u, p, m.result)
    BY <1>3, <2>6, <2>8, <2>10 DEF Awaits, b
  <2>12. \A r, q : Awaits(t, r, q) => Awaits(u, r, q)
    <3> SUFFICES ASSUME NEW r, NEW q, Awaits(t, r, q) PROVE Awaits(u, r, q)
      OBVIOUS
    <3>1. Unresolved(u, r) /\ r \in DOMAIN t.promise
      BY <2>8 DEF Awaits, Unresolved
    <3>2. CASE r = p
      BY <2>6, <2>10, <3>1, <3>2 DEF Awaits, a, b
    <3>3. CASE r # p
      BY <2>6, <3>1, <3>3 DEF Awaits
    <3> QED
      BY <3>2, <3>3
  <2>13. Stranded(u) \subseteq Stranded(t)
    <3> SUFFICES ASSUME NEW q \in Promises, Unresolved(u, q), ~Minded(u, q), ~Travels(u, q)
                 PROVE  Unresolved(t, q) /\ ~Minded(t, q) /\ ~Travels(t, q)
      BY DEF Stranded
    <3>1. Unresolved(t, q) /\ q \in DOMAIN t.promise
      BY <2>8 DEF Unresolved
    <3>2. ~Minded(t, q)
      BY <2>7, <2>9, <3>1 DEF Minded, Has
    <3>3. ~Travels(t, q)
      BY <2>6, <2>7, <2>12 DEF Travels
    <3> QED
      BY <3>1, <3>2, <3>3
  <2>14. Tends(t, u, "immediate")
    BY <2>6, <2>7, <2>13 DEF Tends
  <2>15. Tends(s, t, "immediate")
    BY <1>2, LevelMinds, MindsTends
  <2>16. Tends(s, u, "immediate")
    BY <2>14, <2>15, TendsJoins
  <2> QED
    BY <2>7, <2>11, <2>16 DEF u
<1> QED
  BY <1>4, <1>5

(* What a delivery comes to: a failure, or a store where nothing more is   *)
(* stranded, the result of the message delivered included.                 *)
Answered(s, t, x) ==
    Serves(s, t) /\ (t.failed \/ \A q \in Loose(x) : q \notin Stranded(t))

LEMMA ReleaseMessageAnswered ==
    ASSUME NEW x \in Items, x.type = "send", NEW s \in Stores, NEW t, Answered(s, t, x)
    PROVE  Answered(s, ReleaseMessage(t, x), x)
<1> DEFINE ks == MessageRefs(x.target, x.message)
           u == ReleaseMessage(t, x)
<1>1. ks \in Seq(Krefs) /\ Len(ks) \in Nat
  <2>1. x.target \in Krefs /\ x.message \in Message
    BY ItemRefsType
  <2>2. ks \in Seq(Krefs)
    BY <2>1, MessageRefsType
  <2> QED
    BY <2>2
<1>2. u = ReleaseAll(t, ks)
  BY DEF ReleaseMessage
<1>3. t \in Stores
  BY DEF Answered, Serves
<1> HIDE DEF ks, u
<1>4. CASE t.failed
  <2>1. u = t
    BY <1>1, <1>2, <1>4, ReleaseAllFailed
  <2> QED
    BY <2>1 DEF u
<1>5. CASE ~t.failed
  <2>1. Level(t, u)
    BY <1>1, <1>2, <1>3, ReleaseAllLevel
  <2>2. Tends(t, u, "immediate")
    BY <1>3, <2>1, LevelMinds, MindsTends
  <2>3. Serves(s, u)
    BY <1>3, <1>5, <2>2, TendsServes, ServesJoins DEF Answered
  <2> QED
    BY <1>5, <2>2, <2>3 DEF Answered, Tends, u
<1> QED
  BY <1>4, <1>5

LEMMA RejectResultAnswered ==
    ASSUME NEW x \in Items, x.type = "send", NEW s \in Stores, NEW slots \in Seq(Krefs)
    PROVE  Answered(s, RejectResult(s, x.message, slots), x)
<1> DEFINE p == x.message.result
           u == RejectResult(s, x.message, slots)
<1>1. Loose(x) = {p}
  BY DEF Loose
<1>2. CASE p \notin DOMAIN s.promise
  <2>1. u = Raise(s)
    BY <1>2 DEF RejectResult
  <2> HIDE DEF u
  <2>2. u \in Stores /\ u.failed
    BY <2>1, RaiseIs
  <2> QED
    BY <2>2 DEF Answered, Serves, u
<1>3. CASE p \in DOMAIN s.promise
  <2>1. u = ResolvePromise(s, s.promise[p].decider, p, "rejected", slots, "immediate")
    BY <1>3 DEF RejectResult
  <2> DEFINE d == s.promise[p].decider
  <2> HIDE DEF u, p, d
  <2>2. /\ u \in Stores
        /\ u.failed \/ (Tends(s, u, "immediate") /\ ~Unresolved(u, p))
    <3>1. u = ResolvePromise(s, d, p, "rejected", slots, "immediate")
      BY <2>1 DEF d
    <3> QED
      BY <3>1, ResolvePromiseTends
  <2>3. CASE u.failed
    BY <2>2, <2>3 DEF Answered, Serves, u
  <2>4. CASE ~u.failed
    <3>1. Serves(s, u) /\ p \notin Stranded(u)
      BY <2>2, <2>4, TendsServes DEF Stranded
    <3> QED
      BY <1>1, <3>1 DEF Answered, u, p
  <2> QED
    BY <2>3, <2>4
<1> QED
  BY <1>2, <1>3

(* The vat that is handed a message decides its result and has it.         *)
LEMMA SendToVatAnswered ==
    ASSUME NEW x \in Items, x.type = "send", NEW s \in Stores,
           x.message.result \in DOMAIN s.promise,
           NEW k \in DOMAIN s.object, s.object[k].owner \in Vats,
           s.object[k].owner \in s.configured
    PROVE  Answered(s, SendToVat(s, x, k).store, x)
<1> DEFINE v == s.object[k].owner
           m == x.message
           p == m.result
           r == [s EXCEPT !.promise[p].decider = v]
           t == Release(r, p)
           u == IF Has(t, v, k) THEN SetReachableFlag(t, v, k) ELSE Raise(t)
           ks == Append(m.slots, p)
           w == TranslateAllKtoE(u, v, ks)
           old == s.promise[p]
           row == [old EXCEPT !.decider = v]
<1>1. SendToVat(s, x, k).store = w
  BY DEF SendToVat, HandTo
<1>2. /\ p \in Promises /\ p \in Krefs /\ m.slots \in Seq(Krefs) /\ p \in DOMAIN s.promise
      /\ s.promise[p] \in PromiseRows /\ Loose(x) = {p}
  <2>1. m \in Message /\ x.target \in Krefs
    BY ItemRefsType
  <2>2. p \in Promises /\ p \in Krefs /\ m.slots \in Seq(Krefs)
    BY <2>1, MessageRefsType
  <2>3. p \in DOMAIN s.promise /\ s.promise[p] \in PromiseRows
    BY StoreIs
  <2>4. Loose(x) = {p}
    BY DEF Loose
  <2> QED
    BY <2>2, <2>3, <2>4
<1>3. k \in Objects /\ k \in Krefs
  BY StoreIs, KrefsAre
<1>4. v \in Vats /\ v \in s.configured
  OBVIOUS
<1> HIDE DEF v
<1>5. row \in PromiseRows /\ row.refs = old.refs /\ row.state = old.state
      /\ row.queue = old.queue /\ row.decider = v
  BY <1>2, <1>4 DEF PromiseRows
<1>6. RowSet(s, r, p, row)
  BY DEF RowSet
<1> HIDE DEF row, r
<1>7. /\ Passes(s, r) /\ r.promise[p] = row /\ r.run = s.run /\ r.buffer = s.buffer
      /\ \A q \in DOMAIN s.promise : q # p => r.promise[q] = s.promise[q]
  BY <1>2, <1>5, <1>6, RowSetIs
<1>8. /\ r \in Stores /\ r.clist = s.clist /\ DOMAIN r.promise = DOMAIN s.promise
      /\ r.configured = s.configured /\ r.terminated = s.terminated
  BY <1>7 DEF Passes
<1>9. Level(r, t)
  BY <1>2, <1>8, ReleaseLevel
<1> HIDE DEF t
<1>10. t \in Stores
  BY <1>9 DEF Level, Face
<1>11. Level(t, u)
  BY <1>3, <1>4, <1>10, SetReachableFlagLevel, RaiseLevel
<1> HIDE DEF u
<1>12. u \in Stores /\ Minds(r, u)
  <2>1. Level(r, u)
    BY <1>9, <1>11, LevelJoins
  <2> QED
    BY <1>8, <2>1, LevelMinds DEF Level, Face
<1>13. ks \in Seq(Krefs) /\ ks # <<>> /\ ks[Len(ks)] = p
  BY <1>2
<1> HIDE DEF ks
<1>14. w \in Stores /\ Minds(u, w) /\ (w.failed \/ Has(w, v, p))
  BY <1>4, <1>12, <1>13, TranslateAllKtoEMinds
<1> HIDE DEF w
<1>15. Minds(r, w)
  BY <1>12, <1>14, LevelJoins
<1>16. Tends(r, w, "immediate")
  BY <1>8, <1>15, MindsTends
<1>17. w.failed \/ p \notin Stranded(w)
  <2> SUFFICES ASSUME ~w.failed, Unresolved(w, p) PROVE Minded(w, p)
    BY DEF Stranded
  <2>1. w.promise[p].decider = v /\ w.configured = s.configured
    BY <1>2, <1>5, <1>7, <1>8, <1>15 DEF Minds, Face, Rows
  <2> QED
    BY <1>4, <1>14, <2>1 DEF Minded
<1>18. Stranded(w) \subseteq Stranded(s) \cup {p}
  <2> SUFFICES ASSUME NEW q \in Promises, q # p, Unresolved(r, q), ~Minded(r, q), ~Travels(r, q)
               PROVE  Unresolved(s, q) /\ ~Minded(s, q) /\ ~Travels(s, q)
    BY <1>16 DEF Tends, Stranded
  <2>1. q \in DOMAIN s.promise /\ r.promise[q] = s.promise[q]
    BY <1>7, <1>8 DEF Unresolved
  <2>2. Unresolved(s, q) /\ ~Minded(s, q)
    BY <1>8, <2>1 DEF Unresolved, Minded, Has
  <2>3. \A y \in DOMAIN s.promise : Awaits(s, y, q) => Awaits(r, y, q)
    BY <1>5, <1>7, <1>8 DEF Awaits, Unresolved
  <2> QED
    BY <1>7, <1>8, <2>2, <2>3 DEF Travels
<1>19. CASE w.failed
  BY <1>14, <1>19, <1>1 DEF Answered, Serves
<1>20. CASE ~w.failed
  <2>1. Stranded(w) \subseteq Stranded(s)
    BY <1>17, <1>18, <1>20
  <2>2. w.buffer = s.buffer /\ w.configured = s.configured /\ w.terminated = s.terminated
    BY <1>7, <1>8, <1>16 DEF Tends
  <2>3. Serves(s, w)
    BY <1>14, <2>1, <2>2 DEF Serves, Apart, IsTerminated
  <2> QED
    BY <1>1, <1>2, <1>17, <1>20, <2>3 DEF Answered
<1> QED
  BY <1>19, <1>20

(* Where no promise is fulfilled with another, only a promise that waits   *)
(* gets messages to queue.                                                 *)
LEMMA RequeueWaits ==
    ASSUME BarePromises = FALSE, NEW s, NEW k, k \in DOMAIN s.promise \/ ~IsPromise(k),
           Route(s, k).kind = "requeue"
    PROVE  Route(s, k).to = k /\ Unresolved(s, k)
<1>1. \A y, z : /\ Splat(y).kind # "requeue" /\ RouteAsSend(s, z).kind # "requeue"
                /\ Requeue(z).to = z
  BY DEF Splat, Requeue, RouteAsSend
<1>2. IsPromise(k) /\ s.promise[k].state = "unresolved"
  BY <1>1 DEF Route
<1>3. Route(s, k) = Requeue(k)
  BY <1>2 DEF Route
<1> QED
  BY <1>1, <1>2, <1>3 DEF Unresolved

LEMMA DeliverSendAnswered ==
    ASSUME BarePromises = FALSE, NEW x \in Items, x.type = "send", NEW s,
           Sound(s, HandsOf(x), {}), running = s.configured
    PROVE  Answered(s, DeliverSend(s, x).store, x)
<1> DEFINE r == Route(s, x.target)
           m == x.message
           o == DeliverSend(s, x)
<1>1. s \in Stores /\ HandsOf(x) \in Loans
  BY HandsOfIs DEF Sound
<1>2. /\ x.target \in Krefs /\ m \in Message /\ Exists(s, x.target)
      /\ m.result \in Promises /\ Exists(s, m.result)
  BY InHandKnown
<1>3. /\ IsPromise(x.target) => x.target \in DOMAIN s.promise
      /\ m.result \in DOMAIN s.promise
  BY <1>1, <1>2, KrefsAre, ExistsIs
<1>4. ASSUME NEW t, Answered(s, t, x)
      PROVE  Answered(s, Done(ReleaseMessage(t, x)).store, x)
  <2>1. Done(ReleaseMessage(t, x)).store = ReleaseMessage(t, x)
    BY DEF Done
  <2> QED
    BY <1>1, <1>4, <2>1, ReleaseMessageAnswered
<1>5. \/ r.kind = "splat" /\ r.slots \in Seq(Krefs)
      \/ r.kind = "requeue" /\ r.to \in Promises
      \/ /\ r.kind = "send" /\ r.to \in DOMAIN s.object
         /\ s.object[r.to].owner \in Vats
  BY <1>1, <1>2, RouteIs
<1>6. o = IF r.kind = "splat" THEN Done(ReleaseMessage(RejectResult(s, m, r.slots), x))
          ELSE IF r.kind = "requeue"
          THEN Done(ReleaseMessage(EnqueuePromiseMessage(s, r.to, m), x))
          ELSE IF s.object[r.to].owner \notin running
          THEN Done(ReleaseMessage(RejectResult(s, m, <<>>), x))
          ELSE SendToVat(s, x, r.to)
  BY DEF DeliverSend
<1>7. r.kind = "requeue" => r.to = x.target /\ Unresolved(s, x.target)
  BY <1>3, RequeueWaits
<1> HIDE DEF r, o
<1>8. CASE r.kind = "splat"
  <2>1. Answered(s, RejectResult(s, m, r.slots), x)
    BY <1>1, <1>5, <1>8, RejectResultAnswered
  <2> QED
    BY <1>4, <1>6, <1>8, <2>1 DEF o
<1>9. CASE r.kind = "requeue"
  <2> DEFINE u == EnqueuePromiseMessage(s, r.to, m)
  <2>1. r.to \in Promises /\ Unresolved(s, r.to)
    BY <1>5, <1>7, <1>9
  <2>2. u \in Stores /\ (u.failed \/ (Tends(s, u, "immediate") /\ Awaits(u, r.to, m.result)))
    BY <1>1, <1>2, <2>1, EnqueuePromiseMessageAwaits
  <2> HIDE DEF u
  <2>3. ASSUME u.failed PROVE Answered(s, u, x)
    BY <2>2, <2>3 DEF Answered, Serves
  <2>4. ASSUME ~u.failed PROVE Answered(s, u, x)
    <3>1. Serves(s, u)
      BY <1>1, <2>2, <2>4, TendsServes
    <3>2. m.result \notin Stranded(u)
      <4>1. Awaits(u, r.to, m.result)
        BY <2>2, <2>4
      <4>2. r.to \in DOMAIN u.promise
        BY <4>1 DEF Awaits, Unresolved
      <4> QED
        BY <4>1, <4>2 DEF Stranded, Travels
    <3> QED
      BY <3>1, <3>2 DEF Answered, Loose
  <2>5. Answered(s, u, x)
    BY <2>3, <2>4
  <2> QED
    BY <1>4, <1>6, <1>9, <2>5 DEF o, u
<1>10. CASE r.kind = "send"
  <2>1. r.to \in DOMAIN s.object /\ s.object[r.to].owner \in Vats
    BY <1>5, <1>10
  <2>2. CASE s.object[r.to].owner \notin running
    <3> DEFINE none == <<>>
    <3>1. none \in Seq(Krefs)
      OBVIOUS
    <3>2. Answered(s, RejectResult(s, m, none), x)
      <4> HIDE DEF none
      <4> QED
        BY <1>1, <3>1, RejectResultAnswered
    <3> QED
      BY <1>4, <1>6, <1>10, <2>2, <3>2 DEF o
  <2>3. CASE s.object[r.to].owner \in running
    <3>1. o = SendToVat(s, x, r.to)
      BY <1>6, <1>10, <2>3
    <3>2. Answered(s, SendToVat(s, x, r.to).store, x)
      BY <1>1, <1>3, <2>1, <2>3, SendToVatAnswered
    <3> QED
      BY <3>1, <3>2 DEF o
  <2> QED
    BY <2>2, <2>3
<1> QED
  BY <1>5, <1>8, <1>9, <1>10

LEMMA DeliverNotifyServes ==
    ASSUME NEW x \in Items, x.type = "notify", NEW s, Sound(s, HandsOf(x), {})
    PROVE  Serves(s, DeliverNotify(s, x).store)
<1> DEFINE v == x.vat
           p == x.kpid
           t == Release(s, p)
           targets == InOrder(KpidsToRetire(s, p))
           u == TellAll(t, v, s.promise, targets)
           o == DeliverNotify(s, x)
<1>1. o.store = IF ~Settled(s, p) THEN Raise(s)
                ELSE IF ~Has(s, v, p) \/ v \notin running THEN t ELSE u
  BY DEF DeliverNotify, Done, HandTo
<1>2. s \in Stores /\ HandsOf(x) \in Loans
  BY HandsOfIs DEF Sound
<1>3. v \in Vats /\ p \in Promises /\ p \in Krefs
  BY ItemRefsType, KrefsAre
<1>4. Level(s, t) /\ t \in Stores
  BY <1>2, <1>3, ReleaseLevel DEF Level, Face
<1> HIDE DEF v, p, t, o
<1>5. CASE ~Settled(s, p)
  <2>1. o.store = Raise(s)
    BY <1>1, <1>5
  <2> QED
    BY <1>2, <2>1, RaiseIs DEF Serves, o
<1>6. CASE Settled(s, p) /\ (~Has(s, v, p) \/ v \notin running)
  BY <1>1, <1>2, <1>4, <1>6, LevelMinds, MindsServes DEF o
<1>7. CASE Settled(s, p) /\ Has(s, v, p) /\ v \in running
  <2>1. \A q \in KpidsToRetire(s, p) : q \in Promises /\ Settled(s, q)
    BY <1>3, <1>7, KpidsAreSettled
  <2>2. KpidsToRetire(s, p) \in SUBSET Krefs
    BY <2>1, KrefsAre
  <2>3. /\ Len(targets) \in Nat /\ DOMAIN targets = 1 .. Len(targets)
        /\ \A i \in DOMAIN targets : targets[i] \in KpidsToRetire(s, p)
    BY <2>2, KrefsInOrder
  <2> HIDE DEF targets
  <2>4. \A n \in 1 .. Len(targets) : Report(s.promise, targets[n]) \in Seq(Krefs)
    BY <1>2, <2>1, <2>3, ReportKnown
  <2>5. u \in Stores /\ Minds(t, u)
    BY <1>3, <1>4, <2>3, <2>4, TellAllMinds
  <2> HIDE DEF u
  <2>6. Minds(s, u)
    BY <1>2, <1>4, <2>5, LevelMinds, LevelJoins
  <2> QED
    BY <1>1, <1>2, <1>7, <2>6, MindsServes DEF o
<1> QED
  BY <1>5, <1>6, <1>7

LEMMA DeliverGCActionServes ==
    ASSUME NEW x \in Errands, x.type \in GCKinds, NEW s \in Stores
    PROVE  Serves(s, DeliverGCAction(s, x).store)
<1> DEFINE v == x.vat
           ks == x.krefs
           t == CASE x.type = "dropExport" -> DropExported(s, v, ks)
                  [] x.type = "retireExport" -> RetireExported(s, v, ks)
                  [] x.type = "retireImport" -> DeleteCListEntries(s, v, ks)
           o == DeliverGCAction(s, x)
<1>1. o.store \in {s, t}
  <2>1. o = IF v \in running THEN HandTo(t, v)
            ELSE IF IsTerminated(s, v) THEN Done(t) ELSE Done(s)
    BY DEF DeliverGCAction
  <2>2. HandTo(t, v).store = t /\ Done(t).store = t /\ Done(s).store = s
    BY DEF Done, HandTo
  <2> HIDE DEF t, o
  <2> QED
    BY <2>1, <2>2
<1>2. v \in Vats /\ ks \in Seq(Objects)
  BY GCErrandIs
<1>3. ks \in Seq(Krefs)
  <2>1. Objects \subseteq Krefs
    BY KrefsAre
  <2> HIDE DEF ks
  <2> QED
    BY <1>2, <2>1
<1>4. x.type \in {"dropExport", "retireExport", "retireImport"}
  BY DEF GCKinds
<1>5. /\ x.type = "dropExport" => t = DropExported(s, v, ks)
      /\ x.type = "retireExport" => t = RetireExported(s, v, ks)
      /\ x.type = "retireImport" => t = DeleteCListEntries(s, v, ks)
  OBVIOUS
<1> HIDE DEF t, v, ks, o
<1>6. t \in Stores /\ Minds(s, t)
  BY <1>2, <1>3, <1>4, <1>5, DropExportedMinds, RetireExportedMinds, DeleteCListEntriesMinds
<1> QED
  BY <1>1, <1>6, MindsServes, ServesSelf DEF o

LEMMA DeliverAnswered ==
    ASSUME BarePromises = FALSE, NEW x \in Errands, NEW s, Sound(s, HandsOf(x), Retires(x)),
           running = s.configured
    PROVE  Answered(s, Deliver(s, x).store, x)
<1>1. s \in Stores
  BY DEF Sound
<1>2. ASSUME x.type # "send", NEW t, Serves(s, t) PROVE Answered(s, t, x)
  BY <1>2 DEF Answered, Loose
<1>3. CASE x.type \in GCKinds
  <2>1. Deliver(s, x) = DeliverGCAction(s, x) /\ x.type # "send"
    BY <1>3 DEF Deliver, GCKinds
  <2> QED
    BY <1>1, <1>2, <1>3, <2>1, DeliverGCActionServes
<1>4. CASE x \in Items
  <2>1. x.type \in {"send", "notify", "terminate"} /\ Sound(s, HandsOf(x), {})
    BY <1>4, ItemRefsType, ItemIs
  <2>2. CASE x.type = "send"
    <3>1. Deliver(s, x) = DeliverSend(s, x)
      BY <2>2 DEF Deliver
    <3> QED
      BY <1>4, <2>1, <2>2, <3>1, DeliverSendAnswered
  <2>3. CASE x.type = "notify"
    <3>1. Deliver(s, x) = DeliverNotify(s, x)
      BY <2>3 DEF Deliver
    <3> QED
      BY <1>2, <1>4, <2>1, <2>3, <3>1, DeliverNotifyServes
  <2>4. CASE x.type = "terminate"
    <3>1. Deliver(s, x).store = RetireVat(s, x.vat) /\ x.vat \in Vats
      BY <1>4, <2>4, ItemRefsType DEF Deliver, Done
    <3> QED
      BY <1>1, <1>2, <2>4, <3>1, RetireVatServes
  <2> QED
    BY <2>1, <2>2, <2>3, <2>4
<1>5. CASE x \in [type : {"reap"}, vat : Vats]
  <2>1. Deliver(s, x).store = s /\ x.type # "send"
    BY <1>5 DEF Deliver, HandTo, Done
  <2> QED
    BY <1>1, <1>2, <2>1, ServesSelf
<1>6. x \in [type : GCKinds, vat : Vats, krefs : Seq(Objects)] => x.type \in GCKinds
  OBVIOUS
<1> QED
  BY <1>3, <1>4, <1>5, <1>6 DEF Errands

-----------------------------------------------------------------------------
(* Cranks leave no promise to nobody.                                      *)

Attended(s) == Stranded(s) = {} /\ Apart(s)

(* The invariant: every promise that waits has someone to settle it, in    *)
(* the store and in what a rollback would bring back, which is a store     *)
(* with no outputs of a crank.                                             *)
DecidersKept == Attended(store) /\ Attended(saved) /\ saved.buffer = <<>>

LEMMA CarriesJoined ==
    ASSUME NEW a \in Seq(Items), NEW b \in Seq(Items), NEW q, Carries(a, q) \/ Carries(b, q)
    PROVE  Carries(a \o b, q)
<1>1. CASE Carries(a, q)
  <2>1. PICK i \in DOMAIN a : a[i].type = "send" /\ a[i].message.result = q
    BY <1>1 DEF Carries
  <2>2. i \in DOMAIN (a \o b) /\ (a \o b)[i] = a[i]
    OBVIOUS
  <2> QED
    BY <2>1, <2>2 DEF Carries
<1>2. CASE Carries(b, q)
  <2>1. PICK i \in DOMAIN b : b[i].type = "send" /\ b[i].message.result = q
    BY <1>2 DEF Carries
  <2>2. Len(a) + i \in DOMAIN (a \o b) /\ (a \o b)[Len(a) + i] = b[i]
    OBVIOUS
  <2> QED
    BY <2>1, <2>2 DEF Carries
<1> QED
  BY <1>1, <1>2

LEMMA FlushAttended ==
    ASSUME NEW s \in Stores, s.failed \/ Attended(s)
    PROVE  LET u == Flush(s)
           IN  u.failed \/ (Attended(u) /\ u.buffer = <<>>)
<1> DEFINE u == Flush(s)
<1>1. CASE s.failed
  BY <1>1 DEF Flush
<1>2. CASE ~s.failed
  <2>1. Flushed(s, u)
    BY <1>2 DEF Flush, Flushed
  <2> HIDE DEF u
  <2>2. /\ u \in Stores /\ u.clist = s.clist /\ u.promise = s.promise
        /\ u.terminated = s.terminated /\ u.configured = s.configured
        /\ u.run = s.run \o s.buffer /\ u.buffer = <<>>
    BY <2>1, FlushedIs
  <2>3. s.run \in Seq(Items) /\ s.buffer \in Seq(Items)
    BY StoreFields
  <2>4. \A q : Travels(s, q) => Travels(u, q)
    <3> SUFFICES ASSUME NEW q, Travels(s, q) PROVE Travels(u, q)
      OBVIOUS
    <3>1. Carries(s.run, q) \/ Carries(s.buffer, q) => Carries(u.run, q)
      BY <2>2, <2>3, CarriesJoined
    <3>2. \A p : Awaits(s, p, q) => Awaits(u, p, q)
      BY <2>2 DEF Awaits, Unresolved
    <3> QED
      BY <2>2, <3>1, <3>2 DEF Travels
  <2>5. \A q : (Unresolved(u, q) <=> Unresolved(s, q)) /\ (Minded(u, q) <=> Minded(s, q))
    BY <2>2 DEF Unresolved, Minded, Has
  <2>6. Stranded(u) \subseteq Stranded(s)
    BY <2>4, <2>5 DEF Stranded
  <2>7. Apart(s) => Apart(u)
    BY <2>2 DEF Apart, IsTerminated
  <2> QED
    BY <1>2, <2>2, <2>6, <2>7 DEF Attended, u
<1> QED
  BY <1>1, <1>2

LEMMA CloseAttended ==
    ASSUME DecidersKept, NEW t, t.failed \/ (Attended(t) /\ t.buffer = <<>>), Close(t, saved)
    PROVE  DecidersKept'
<1>1. store' = (IF t.failed THEN saved ELSE t) /\ saved' = store'
  BY DEF Close
<1>2. Attended(store') /\ store'.buffer = <<>>
  BY <1>1 DEF DecidersKept
<1> QED
  BY <1>1, <1>2 DEF DecidersKept

(* What serves a store with nobody stranded.                               *)
LEMMA ServesAttended ==
    ASSUME NEW s, Attended(s), NEW t, Serves(s, t)
    PROVE  t.failed \/ (Attended(t) /\ t.buffer = s.buffer)
  BY DEF Serves, Attended

LEMMA TendsAttended ==
    ASSUME NEW s, Attended(s), NEW t, NEW when, Tends(s, t, when)
    PROVE  Attended(t)
  BY DEF Tends, Attended, Apart, IsTerminated

LEMMA AfterDeliveryLevel ==
    ASSUME NEW x \in Errands, NEW s \in Stores
    PROVE  LET u == AfterDelivery(s, x)
           IN  u \in Stores /\ Level(s, u)
<1>1. CASE x.type # "send"
  BY <1>1, LevelSelf DEF AfterDelivery
<1>2. CASE x.type = "send"
  <2>1. x \in Items
    BY <1>2 DEF Errands, GCKinds
  <2>2. KeptRefs(x) \in Seq(Krefs) /\ KeptRefs(x) = <<x.target>> \o x.message.slots
    BY <1>2, <2>1, KeptIs DEF KeptRefs
  <2>3. AfterDelivery(s, x) = ReleaseAll(s, KeptRefs(x))
    BY <1>2, <2>2 DEF AfterDelivery
  <2>4. Level(s, ReleaseAll(s, KeptRefs(x)))
    BY <2>2, ReleaseAllLevel
  <2> QED
    BY <2>3, <2>4 DEF Level, Face
<1> QED
  BY <1>1, <1>2

LEMMA EndDeliveryAttends ==
    ASSUME KernelSound, RestTyped, DecidersKept, EndDelivery
    PROVE  DecidersKept'
<1> DEFINE v == crank.vat
           x == crank.item
           t == AfterDelivery(store, x)
           u == IF verdict[v] = "exit" THEN RetireVat(t, v) ELSE t
           g == CollectGarbage(u)
           w == Flush(g)
<1>1. crank # Idle /\ Close(w, saved)
  BY DEF EndDelivery
<1>2. InHands = Kept(x) /\ x \in Errands /\ v \in Vats
  BY <1>1, InHandsIs
<1>3. Sound(store, Kept(x), {}) /\ store \in Stores /\ None \in Loans
  BY <1>2, HandsOfIs DEF KernelSound, Sound
<1> HIDE DEF v, x
<1>4. Sound(t, None, {}) /\ t \in Stores
  BY <1>2, <1>3, AfterDeliveryIsSound DEF Sound
<1>5. Attended(t)
  <2>1. Level(store, t)
    BY <1>2, <1>3, AfterDeliveryLevel
  <2> HIDE DEF t
  <2>2. Tends(store, t, "buffered")
    BY <1>3, <2>1, LevelMinds, MindsTends
  <2> QED
    BY <2>2, TendsAttended DEF DecidersKept
<1> HIDE DEF t
<1>6. Outcome(t, u, None, {}) /\ u \in Stores /\ Serves(t, u)
  <2>1. Outcome(t, t, None, {}) /\ Serves(t, t)
    BY <1>4, LastsSelf, ServesSelf DEF Outcome
  <2>2. Outcome(t, RetireVat(t, v), None, {}) /\ Serves(t, RetireVat(t, v))
    BY <1>2, <1>3, <1>4, RetireVatIsSound, RetireVatServes
  <2> QED
    BY <2>1, <2>2 DEF Serves
<1> HIDE DEF u
<1>7. Serves(u, g) /\ (u.failed => g.failed)
  BY <1>3, <1>4, <1>6, CollectGarbageServes
<1> HIDE DEF g
<1>8. g.failed \/ Attended(g)
  BY <1>5, <1>6, <1>7, ServesAttended
<1>9. g \in Stores
  BY <1>7 DEF Serves
<1>10. w.failed \/ (Attended(w) /\ w.buffer = <<>>)
  BY <1>8, <1>9, FlushAttended
<1> HIDE DEF w
<1> QED
  BY <1>1, <1>10, CloseAttended

LEMMA AbortDeliveryAttends ==
    ASSUME KernelSound, RestTyped, DecidersKept, AbortDelivery
    PROVE  DecidersKept'
<1> DEFINE v == crank.vat
           u == RetireVat(saved, v)
           w == CollectGarbage(u)
<1>1. crank # Idle /\ Close(w, saved)
  BY DEF AbortDelivery
<1>2. v \in Vats
  BY <1>1, InHandsIs
<1>3. Sound(saved, None, {}) /\ saved \in Stores /\ None \in Loans
  BY HandsOfIs DEF KernelSound, Sound
<1> HIDE DEF v
<1>4. Outcome(saved, u, None, {}) /\ Serves(saved, u)
  BY <1>2, <1>3, RetireVatIsSound, RetireVatServes
<1> HIDE DEF u
<1>5. Serves(u, w) /\ (u.failed => w.failed)
  BY <1>3, <1>4, CollectGarbageServes
<1> HIDE DEF w
<1>6. w.failed \/ (Attended(w) /\ w.buffer = <<>>)
  BY <1>4, <1>5, ServesAttended DEF DecidersKept
<1> QED
  BY <1>1, <1>6, CloseAttended

LEMMA StartCrankAttends ==
    ASSUME BarePromises = FALSE, KernelSound, RestTyped, DecidersKept, StartCrank
    PROVE  DecidersKept'
<1> DEFINE next == NextItem(store)
           x == next.item
           n == next.store
           c == CleanupTerminatedVat(n)
           o == Deliver(c, x)
           g == CollectGarbage(o.store)
           w == Flush(g)
<1>1. /\ crank = Idle
      /\ IF x = NoOne THEN Close(n, store)
         ELSE IF o.store.failed \/ o.vat = NoOne THEN Close(w, store)
         ELSE store' = o.store /\ saved' = store
  BY DEF StartCrank
<1>2. /\ store = saved /\ Sound(saved, None, {}) /\ saved \in Stores /\ running = saved.configured
      /\ None \in Loans
  BY <1>1, HandsOfIs DEF KernelSound, Sound
<1>3. /\ Steady(saved, n)
      /\ \/ x = NoOne /\ Sound(n, None, {})
         \/ x \in Errands /\ Sound(n, HandsOf(x), Retires(x)) /\ RetiresExports(n, x)
  BY <1>2, NextItemIsSound
<1>4. Parts(saved, n, IF x = NoOne THEN {} ELSE Loose(x))
  BY <1>2, NextItemTakes
<1> HIDE DEF x, n
<1>5. n \in Stores /\ Lasts(saved, n)
  BY <1>3, SteadyLasts DEF Sound
<1>6. /\ n.buffer = <<>> /\ Apart(n)
      /\ Stranded(n) \subseteq (IF x = NoOne THEN {} ELSE Loose(x))
  BY <1>2, <1>4 DEF Parts, DecidersKept, Attended, Apart, IsTerminated
<1>7. CASE x = NoOne
  <2>1. Close(n, saved)
    BY <1>1, <1>2, <1>7
  <2>2. Attended(n) /\ n.buffer = <<>>
    BY <1>6, <1>7 DEF Attended
  <2> QED
    BY <2>1, <2>2, CloseAttended
<1>8. CASE x # NoOne
  <2>1. x \in Errands /\ Sound(n, HandsOf(x), Retires(x)) /\ RetiresExports(n, x)
    BY <1>3, <1>8
  <2>2. HandsOf(x) \in Loans
    BY <2>1, HandsOfErrand
  <2>3. /\ Sound(c, HandsOf(x), Retires(x)) /\ Stands(n, c) /\ Shrinks(n, c)
        /\ c.configured = n.configured
    BY <2>1, <2>2, CleanupIsSound
  <2>4. /\ Stranded(c) \subseteq Loose(x) /\ Apart(c) /\ c.buffer = <<>>
    <3>1. Stranded(c) \subseteq Stranded(n) /\ Apart(c) /\ c.buffer = n.buffer
      BY <1>5, <1>6, CleanupMinds
    <3> QED
      BY <1>6, <1>8, <3>1
  <2> HIDE DEF c
  <2>5. RetiresExports(c, x)
    <3>1. ASSUME x.type = "retireExport", NEW i \in DOMAIN x.krefs, Has(c, x.vat, x.krefs[i])
          PROVE  c.clist[x.vat][x.krefs[i]].dir = "export"
      <4>1. x.vat \in Vats
        BY <2>1, <3>1, GCErrandIs DEF GCKinds
      <4>2. Has(n, x.vat, x.krefs[i]) /\ c.clist[x.vat][x.krefs[i]].dir = n.clist[x.vat][x.krefs[i]].dir
        BY <2>3, <3>1, <4>1 DEF Shrinks
      <4> QED
        BY <2>1, <3>1, <4>2 DEF RetiresExports
    <3> QED
      BY <3>1 DEF RetiresExports
  <2>6. c \in Stores /\ Lasts(saved, c) /\ running = c.configured
    <3>1. c \in Stores /\ Lasts(n, c)
      BY <2>3 DEF Sound, Lasts
    <3> QED
      BY <1>2, <1>3, <1>5, <2>3, <3>1, LastsJoins DEF Steady
  <2>7. Delivered(c, o, x)
    BY <2>1, <2>3, <2>5, <2>6, DeliverIsSound
  <2>8. Answered(c, o.store, x)
    BY <2>1, <2>3, <2>6, DeliverAnswered
  <2> HIDE DEF o
  <2>9. o.store.failed \/ (Attended(o.store) /\ o.store.buffer = <<>>)
    BY <2>4, <2>8 DEF Answered, Serves, Attended
  <2>10. CASE o.store.failed \/ o.vat = NoOne
    <3>1. Outcome(c, o.store, None, {})
      <4>1. CASE o.vat = NoOne
        <5>1. o.vat \notin Vats
          BY <4>1, BoundsAreNaturals
        <5> QED
          BY <2>7, <5>1 DEF Delivered
      <4>2. CASE o.store.failed
        BY <2>7, <4>2 DEF Delivered, Outcome, Sound
      <4> QED
        BY <2>10, <4>1, <4>2
    <3>2. Serves(o.store, g) /\ (o.store.failed => g.failed)
      BY <1>2, <2>6, <3>1, CollectGarbageServes
    <3> HIDE DEF g
    <3>3. g \in Stores /\ (g.failed \/ Attended(g))
      BY <2>9, <3>2, ServesAttended DEF Serves
    <3>4. w.failed \/ (Attended(w) /\ w.buffer = <<>>)
      BY <3>3, FlushAttended
    <3> HIDE DEF w
    <3>5. Close(w, saved)
      BY <1>1, <1>2, <1>8, <2>10
    <3> QED
      BY <3>4, <3>5, CloseAttended
  <2>11. CASE ~(o.store.failed \/ o.vat = NoOne)
    <3>1. store' = o.store /\ saved' = store
      BY <1>1, <1>8, <2>11
    <3> QED
      BY <1>2, <2>9, <2>11, <3>1 DEF DecidersKept
  <2> QED
    BY <2>10, <2>11
<1> QED
  BY <1>7, <1>8

-----------------------------------------------------------------------------
(* Syscalls leave no promise to nobody.                                    *)

(* A new promise, whoever is to decide it.                                 *)
LEMMA PromiseMade ==
    ASSUME NEW E \in Loans, NEW R, NEW s, Sound(s, E, R), s.nextPromise \in Promises,
           NEW d \in Vats \cup {NoOne}
    PROVE  LET t == InitKernelPromise(s, d)
               p == s.nextPromise
           IN  /\ t \in Stores /\ t.clist = s.clist /\ t.buffer = s.buffer
               /\ t.configured = s.configured /\ t.terminated = s.terminated
               /\ Unresolved(t, p) /\ t.promise[p].decider = d
               /\ Stranded(t) \subseteq Stranded(s) \cup {p}
<1> DEFINE p == s.nextPromise
           row == NewPromise(d, p)
           f == [k \in DOMAIN s.promise \cup {p} |-> IF k \in DOMAIN s.promise THEN s.promise[k] ELSE row]
           t == InitKernelPromise(s, d)
<1>1. s \in Stores /\ p \in Promises /\ p \in Nat
  BY StoreFields DEF Sound
<1>2. t = [s EXCEPT !.nextPromise = p + 1, !.promise = f]
  BY DEF InitKernelPromise, NewPromise
<1>3. t \in Stores
  BY InitKernelPromiseIsSound DEF Sound
<1>4. p \notin DOMAIN s.promise
  <2>1. p \in DOMAIN s.promise => p < p
    BY DEF Sound, Fresh
  <2> QED
    BY <1>1, <2>1
<1>5. row.state = "unresolved" /\ row.decider = d
  BY DEF NewPromise
<1> HIDE DEF row
<1>6. /\ DOMAIN f = DOMAIN s.promise \cup {p} /\ f[p] = row
      /\ \A k \in DOMAIN s.promise : f[k] = s.promise[k]
  BY <1>4
<1> HIDE DEF f
<1>7. /\ t.promise = f /\ t.clist = s.clist /\ t.run = s.run /\ t.buffer = s.buffer
      /\ t.terminated = s.terminated /\ t.configured = s.configured
  BY <1>1, <1>2 DEF Stores
<1> HIDE DEF t
<1>8. \A q : q # p => /\ Unresolved(t, q) <=> Unresolved(s, q)
                      /\ Unresolved(s, q) => t.promise[q] = s.promise[q]
  BY <1>6, <1>7 DEF Unresolved
<1>9. \A q : Travels(s, q) => Travels(t, q)
  <2> SUFFICES ASSUME NEW q, Travels(s, q) PROVE Travels(t, q)
    OBVIOUS
  <2>1. \A r : Awaits(s, r, q) => Awaits(t, r, q)
    BY <1>4, <1>8 DEF Awaits, Unresolved
  <2>2. DOMAIN s.promise \subseteq DOMAIN t.promise
    BY <1>6, <1>7
  <2> QED
    BY <1>7, <2>1, <2>2 DEF Travels
<1>10. \A q : q # p /\ Unresolved(s, q) => (Minded(t, q) <=> Minded(s, q))
  BY <1>7, <1>8 DEF Minded, Has
<1>11. Stranded(t) \subseteq Stranded(s) \cup {p}
  BY <1>8, <1>9, <1>10 DEF Stranded
<1>12. Unresolved(t, p) /\ t.promise[p].decider = d
  BY <1>5, <1>6, <1>7 DEF Unresolved
<1> QED
  BY <1>3, <1>7, <1>11, <1>12 DEF t, p

(* What a vat names for the first time it decides.                         *)
LEMMA TranslateRefEtoKTends ==
    ASSUME NEW E \in Loans, NEW R, NEW s, Sound(s, E, R), NEW v \in Vats, v \in s.configured,
           NEW k \in Krefs, Names(s, v, k)
    PROVE  \A when : Tends(s, TranslateRefEtoK(s, v, k), when)
<1> DEFINE u == TranslateRefEtoK(s, v, k)
<1>1. s \in Stores /\ s.failed = FALSE
  BY DEF Sound
<1>2. CASE Has(s, v, k)
  BY <1>1, <1>2, LevelSelf DEF TranslateRefEtoK
<1>3. CASE ~Has(s, v, k) /\ k = s.nextObject /\ k \in Objects
  <2> DEFINE t == InitKernelObject(s, v)
  <2>1. u = AddCListEntry(t, v, k, "export")
    BY <1>1, <1>3 DEF TranslateRefEtoK
  <2>2. k \notin DOMAIN s.object
    <3>1. k \in DOMAIN s.object => k < k
      BY <1>3 DEF Sound, Fresh
    <3>2. k \in Nat
      BY KrefsAre
    <3> QED
      BY <3>1, <3>2
  <2>3. /\ t \in Stores /\ t.clist = s.clist /\ t.promise = s.promise /\ t.run = s.run
        /\ t.buffer = s.buffer /\ t.terminated = s.terminated /\ t.configured = s.configured
    BY <1>1, <1>3, <2>2, InitKernelObjectIs
  <2> HIDE DEF t
  <2>4. Level(s, t)
    BY <1>1, <2>3, UntouchedLevel
  <2>5. Minds(t, u)
    BY <2>1, <2>3, AddCListEntryMinds
  <2> HIDE DEF u
  <2>6. Minds(s, u)
    BY <1>1, <2>4, <2>5, LevelMinds, LevelJoins
  <2>7. \A when : Tends(s, u, when)
    BY <1>1, <2>6, MindsTends
  <2> QED
    BY <2>7 DEF u
<1>4. CASE ~Has(s, v, k) /\ k = s.nextPromise /\ k \in Promises
  <2> DEFINE t == InitKernelPromise(s, v)
  <2>1. k \notin Objects
    BY <1>4, KrefsAre
  <2>2. u = AddCListEntry(t, v, k, "export")
    BY <1>1, <1>4, <2>1 DEF TranslateRefEtoK
  <2>3. /\ t \in Stores /\ t.clist = s.clist /\ t.buffer = s.buffer
        /\ t.configured = s.configured /\ t.terminated = s.terminated
        /\ Unresolved(t, k) /\ t.promise[k].decider = v
        /\ Stranded(t) \subseteq Stranded(s) \cup {k}
    BY <1>4, PromiseMade
  <2> HIDE DEF t
  <2>4. u \in Stores /\ Minds(t, u) /\ Has(u, v, k)
    BY <2>2, <2>3, AddCListEntryMinds
  <2> HIDE DEF u
  <2>5. Minded(u, k) /\ u.buffer = s.buffer /\ u.configured = s.configured
        /\ u.terminated = s.terminated
    BY <1>4, <2>3, <2>4 DEF Minds, Face, Rows, Minded
  <2>6. Stranded(u) \subseteq Stranded(t)
    BY <2>3, <2>4, MindsTends DEF Tends
  <2>7. k \notin Stranded(u)
    BY <2>5 DEF Stranded
  <2>8. \A when : Tends(s, u, when)
    BY <2>3, <2>4, <2>5, <2>6, <2>7 DEF Tends
  <2> QED
    BY <2>8 DEF u
<1> QED
  BY <1>2, <1>3, <1>4 DEF Names

LEMMA TranslateAllEtoKTends ==
    ASSUME NEW E \in Loans, NEW R, NEW s, Sound(s, E, R), NEW v \in Vats, v \in s.configured,
           NEW ks, ks = <<>> \/ \E k \in Krefs : Names(s, v, k) /\ ks = <<k>>
    PROVE  \A when : Tends(s, TranslateAllEtoK(s, v, ks), when)
<1>1. s \in Stores
  BY DEF Sound
<1>2. CASE ks = <<>>
  <2>1. Len(ks) = 0
    BY <1>2
  <2>2. PICK h : NamedRun(h, s, v, ks)
    BY <2>1, NamedRuns
  <2>3. TranslateAllEtoK(s, v, ks) = s
    BY <2>1, <2>2 DEF NamedRun
  <2> QED
    BY <1>1, <2>3, LevelSelf
<1>3. CASE \E k \in Krefs : Names(s, v, k) /\ ks = <<k>>
  <2>1. PICK k \in Krefs : Names(s, v, k) /\ ks = <<k>>
    BY <1>3
  <2>2. Len(ks) = 1 /\ ks[1] = k
    BY <2>1
  <2>3. PICK h : NamedRun(h, s, v, ks)
    BY <2>2, NamedRuns
  <2>4. TranslateAllEtoK(s, v, ks) = TranslateRefEtoK(s, v, k)
    <3>1. h[0] = s /\ h[1] = TranslateAllEtoK(s, v, ks)
      BY <2>2, <2>3 DEF NamedRun
    <3>2. 1 \in 1 .. Len(ks) /\ 1 - 1 = 0
      BY <2>2
    <3>3. h[1] = TranslateRefEtoK(h[1 - 1], v, ks[1])
      BY <2>3, <3>2 DEF NamedRun
    <3> QED
      BY <2>2, <3>1, <3>2, <3>3
  <2> QED
    BY <2>1, <2>4, TranslateRefEtoKTends
<1> QED
  BY <1>2, <1>3

LEMMA SyscallAttends ==
    ASSUME DecidersKept, NEW t, Tends(store, t, "buffered"), Syscall(t)
    PROVE  DecidersKept'
<1> DEFINE u == [t EXCEPT !.failed = FALSE]
<1>1. store' = u /\ saved' = saved /\ t \in Stores
  BY DEF Syscall, Tends
<1>2. Level(t, u)
  <2>1. u \in Stores
    BY <1>1, StoreChanges
  <2>2. /\ u.promise = t.promise /\ u.clist = t.clist /\ u.run = t.run /\ u.buffer = t.buffer
        /\ u.configured = t.configured /\ u.terminated = t.terminated
    BY <1>1 DEF Stores
  <2> HIDE DEF u
  <2> QED
    BY <1>1, <2>1, <2>2, UntouchedLevel
<1> HIDE DEF u
<1>3. Tends(t, u, "buffered")
  BY <1>1, <1>2, LevelMinds, MindsTends
<1>4. Tends(store, u, "buffered")
  BY <1>3, TendsJoins
<1>5. Attended(u)
  BY <1>4, TendsAttended DEF DecidersKept
<1> QED
  BY <1>1, <1>5 DEF DecidersKept

LEMMA MindfulSyscall ==
    ASSUME DecidersKept, store \in Stores, NEW t, Minds(store, t), Syscall(t)
    PROVE  DecidersKept'
  BY MindsTends, SyscallAttends

LEMMA VatSendsAttends ==
    ASSUME KernelSound, RestTyped, DecidersKept, crank # Idle, VatSends
    PROVE  DecidersKept'
<1> DEFINE v == crank.vat
<1>1. PICK target \in Nameable, slots \in SlotChoices :
         LET t == TranslateAllEtoK(store, v, slots)
             m == [result |-> t.nextPromise, slots |-> slots]
         IN  /\ m.result \in Promises
             /\ Syscall(EnqueueSend(TranslateRefEtoK(t, v, m.result), target, m, "buffered"))
  BY DEF VatSends
<1> DEFINE t == TranslateAllEtoK(store, v, slots)
           m == [result |-> t.nextPromise, slots |-> slots]
           p == t.nextPromise
           w == TranslateRefEtoK(t, v, p)
           u == EnqueueSend(w, target, m, "buffered")
<1>2. p \in Promises /\ Syscall(u)
  BY <1>1
<1>3. v \in store.configured
  BY <1>2 DEF Syscall
<1>4. /\ v \in Vats /\ Lives(store, v) /\ InHands \in Loans
      /\ store \in Stores /\ Sound(store, InHands, {}) /\ target \in Krefs
      /\ \A k \in Mentionable : k \in Krefs /\ Names(store, v, k)
  BY <1>3, Callers
<1> HIDE DEF v, u
<1>5. slots = <<>> \/ \E k \in Krefs : Names(store, v, k) /\ slots = <<k>>
  BY <1>4, SlotChoicesAre
<1>6. Sound(t, InHands, {}) /\ t \in Stores /\ Steady(store, t) /\ slots \in Seq(Krefs)
  BY <1>4, <1>5, TranslateAllEtoKIsSound DEF Sound
<1>7. Tends(store, t, "buffered") /\ v \in t.configured
  <2>1. \A when : Tends(store, t, when)
    BY <1>3, <1>4, <1>5, TranslateAllEtoKTends
  <2> QED
    BY <1>3, <2>1 DEF Tends
<1>8. m \in Message
  BY <1>2, <1>6 DEF Message
<1>9. p \in Krefs /\ Names(t, v, p)
  BY <1>2, KrefsAre DEF Names
<1> HIDE DEF t
<1>10. Tends(t, w, "buffered") /\ w \in Stores
  <2>1. \A when : Tends(t, w, when)
    BY <1>4, <1>6, <1>7, <1>9, TranslateRefEtoKTends
  <2> QED
    BY <2>1 DEF Tends
<1> HIDE DEF w, m, p
<1>11. Tends(w, u, "buffered")
  <2>1. Posts(w, u, "buffered")
    BY <1>4, <1>8, <1>10, EnqueueSendPosts DEF u
  <2> QED
    BY <1>10, <2>1, PostsTends
<1>12. Tends(store, u, "buffered")
  BY <1>7, <1>10, <1>11, TendsJoins
<1> QED
  BY <1>2, <1>12, SyscallAttends

LEMMA VatResolvesAttends ==
    ASSUME KernelSound, RestTyped, DecidersKept, crank # Idle, VatResolves
    PROVE  DecidersKept'
<1> DEFINE v == crank.vat
<1>1. PICK p \in (DOMAIN store.clist[crank.vat] \cap Promises)
                    \ {m.result : m \in QueuedMessages(store)},
           state \in {"fulfilled", "rejected"}, slots \in SlotChoices :
         /\ state = "rejected" => slots = <<>>
         /\ Syscall(ResolvePromise(TranslateAllEtoK(store, crank.vat, slots),
                                   crank.vat, p, state, slots, "buffered"))
  BY Zenon DEF VatResolves
<1> DEFINE t == TranslateAllEtoK(store, v, slots)
           u == ResolvePromise(t, v, p, state, slots, "buffered")
<1>2. v \in store.configured
  BY <1>1 DEF Syscall
<1>3. /\ v \in Vats /\ Lives(store, v) /\ InHands \in Loans
      /\ store \in Stores /\ Sound(store, InHands, {})
      /\ \A k \in Mentionable : k \in Krefs /\ Names(store, v, k)
  BY <1>2, Callers
<1>4. Syscall(u)
  BY <1>1
<1> HIDE DEF v, u
<1>5. slots = <<>> \/ \E k \in Krefs : Names(store, v, k) /\ slots = <<k>>
  BY <1>3, SlotChoicesAre
<1>6. /\ Sound(t, InHands, {}) /\ t \in Stores /\ slots \in Seq(Krefs)
      /\ \A i \in DOMAIN slots : Exists(t, slots[i])
  BY <1>3, <1>5, TranslateAllEtoKIsSound DEF Sound
<1>7. Tends(store, t, "buffered")
  BY <1>2, <1>3, <1>5, TranslateAllEtoKTends
<1> HIDE DEF t
<1>8. Tends(t, u, "buffered")
  <2>1. u = Raise(t) \/ (Sound(u, InHands, {}) /\ Steady(t, u))
    BY <1>3, <1>6, ResolvePromiseIsSound DEF u
  <2>2. CASE u = Raise(t)
    BY <1>6, <2>2, RaiseLevel, LevelMinds, MindsTends
  <2>3. CASE Sound(u, InHands, {})
    <3>1. u.failed \/ Tends(t, u, "buffered")
      BY <1>6, ResolvePromiseTends DEF u
    <3> QED
      BY <2>3, <3>1 DEF Sound
  <2> QED
    BY <2>1, <2>2, <2>3
<1>9. Tends(store, u, "buffered")
  BY <1>7, <1>8, TendsJoins
<1> QED
  BY <1>4, <1>9, SyscallAttends

LEMMA SubscriberLevel ==
    ASSUME NEW s \in Stores, NEW p \in DOMAIN s.promise, NEW v \in Vats, NEW t,
           SubscriberSet(s, t, p, v)
    PROVE  Level(s, t)
<1>1. Quiet(s, t)
  BY SubscriberIs
<1>2. \A q \in DOMAIN s.promise : t.promise[q].decider = s.promise[q].decider
  <2> DEFINE new == [s.promise[p] EXCEPT !.subscribers = @ \cup {v}]
             f == [s.promise EXCEPT ![p] = new]
  <2>1. s.promise[p] \in PromiseRows
    BY StoreIs
  <2>2. new.decider = s.promise[p].decider
    BY <2>1 DEF PromiseRows
  <2>3. t.promise = f
    BY DEF SubscriberSet, Stores
  <2> HIDE DEF new
  <2>4. \A q \in DOMAIN s.promise : f[q] = IF q = p THEN new ELSE s.promise[q]
    OBVIOUS
  <2> QED
    BY <2>2, <2>3, <2>4
<1>3. Rows(s, t)
  BY <1>1, <1>2 DEF Quiet, SameRows, Rows, Unresolved
<1>4. Face(s, t)
  BY <1>1, <1>3 DEF Quiet, Face
<1> QED
  BY <1>1, <1>4 DEF Level, Has, Quiet

LEMMA VatSubscribesAttends ==
    ASSUME KernelSound, RestTyped, DecidersKept, crank # Idle, VatSubscribes
    PROVE  DecidersKept'
<1> DEFINE v == crank.vat
<1>1. PICK p \in DOMAIN store.clist[v] \cap Promises :
         Syscall(IF Unresolved(store, p)
                 THEN [store EXCEPT !.promise[p].subscribers = @ \cup {v}]
                 ELSE EnqueueNotify(store, v, p, "buffered"))
  BY Zenon DEF VatSubscribes
<1> DEFINE t == [store EXCEPT !.promise[p].subscribers = @ \cup {v}]
           u == EnqueueNotify(store, v, p, "buffered")
<1>2. v \in store.configured
  BY <1>1 DEF Syscall
<1>3. v \in Vats /\ store \in Stores
  BY <1>2, Callers
<1>4. CASE Unresolved(store, p)
  <2>1. Syscall(t)
    BY <1>1, <1>4
  <2>2. SubscriberSet(store, t, p, v) /\ p \in DOMAIN store.promise
    BY <1>4 DEF SubscriberSet, Unresolved
  <2> HIDE DEF t, v
  <2>3. Minds(store, t)
    BY <1>3, <2>2, SubscriberLevel, LevelMinds
  <2> QED
    BY <1>3, <2>1, <2>3, MindfulSyscall
<1>5. CASE ~Unresolved(store, p)
  <2>1. Syscall(u)
    BY <1>1, <1>5
  <2>2. p \in Promises
    BY <1>1
  <2> HIDE DEF u, v
  <2>3. Posts(store, u, "buffered")
    BY <1>3, <2>2, EnqueueNotifyPosts DEF u
  <2>4. Tends(store, u, "buffered")
    BY <1>3, <2>3, PostsTends
  <2> QED
    BY <2>1, <2>4, SyscallAttends
<1> QED
  BY <1>4, <1>5

LEMMA VatDropsImportAttends ==
    ASSUME KernelSound, RestTyped, DecidersKept, crank # Idle, VatDropsImport
    PROVE  DecidersKept'
<1> DEFINE v == crank.vat
<1>1. PICK k \in Imports : Syscall(ClearReachableFlag(store, v, k))
  BY DEF VatDropsImport
<1>2. v \in Vats /\ k \in Krefs /\ store \in Stores
  BY <1>1, ImportsAre DEF KernelSound, Sound
<1> DEFINE u == ClearReachableFlag(store, v, k)
<1> HIDE DEF v
<1>3. Minds(store, u)
  BY <1>2, ClearReachableFlagLevel, LevelMinds
<1> HIDE DEF u
<1> QED
  BY <1>1, <1>2, <1>3, MindfulSyscall DEF u

LEMMA VatRetiresImportAttends ==
    ASSUME KernelSound, RestTyped, DecidersKept, crank # Idle, VatRetiresImport
    PROVE  DecidersKept'
<1> DEFINE v == crank.vat
<1>1. PICK k \in Imports : Syscall(IF store.clist[v][k].reach THEN Raise(store)
                                   ELSE DeleteCListEntry(store, v, k))
  BY DEF VatRetiresImport
<1>2. v \in Vats /\ k \in Krefs /\ k \in Objects /\ store \in Stores
  BY <1>1, ImportsAre DEF KernelSound, Sound
<1> DEFINE u == DeleteCListEntry(store, v, k)
           t == Raise(store)
<1>3. Syscall(t) \/ Syscall(u)
  BY <1>1
<1> HIDE DEF v
<1>4. Minds(store, u)
  BY <1>2, DeleteCListEntryMinds
<1>5. Minds(store, t)
  BY <1>2, RaiseLevel, LevelMinds
<1> HIDE DEF u, t
<1> QED
  BY <1>2, <1>3, <1>4, <1>5, MindfulSyscall

LEMMA VatCleansUpExportAttends ==
    ASSUME KernelSound, RestTyped, DecidersKept, crank # Idle, VatCleansUpExport
    PROVE  DecidersKept'
<1> DEFINE v == crank.vat
<1>1. PICK k \in DOMAIN store.clist[v] \cap Objects, check \in BOOLEAN :
         Syscall(ExportCleanup(store, v, k, check))
  BY Zenon DEF VatCleansUpExport
<1>2. store \in Stores /\ v \in Vats /\ k \in Objects
  BY <1>1, InHandsIs DEF KernelSound, Sound
<1> DEFINE u == OrphanKernelObject(DeleteCListEntry(store, v, k), v, k)
           t == Raise(store)
<1>3. Syscall(t) \/ Syscall(u)
  BY <1>1 DEF ExportCleanup
<1> HIDE DEF v
<1>4. Minds(store, u)
  BY <1>2, AbandonMinds
<1>5. Minds(store, t)
  BY <1>2, RaiseLevel, LevelMinds
<1> HIDE DEF u, t
<1> QED
  BY <1>2, <1>3, <1>4, <1>5, MindfulSyscall

-----------------------------------------------------------------------------
(* Nor do requests.                                                        *)

LEMMA RequestAttends ==
    ASSUME DecidersKept, KernelSound, NEW t, Tends(store, t, "immediate"), Request(t)
    PROVE  DecidersKept'
<1>1. crank = Idle /\ store' = t /\ saved' = t
  BY DEF Request
<1>2. store = saved
  BY <1>1 DEF KernelSound
<1>3. Attended(t)
  BY TendsAttended DEF DecidersKept
<1>4. t.buffer = <<>>
  BY <1>2 DEF DecidersKept, Tends
<1> QED
  BY <1>1, <1>3, <1>4 DEF DecidersKept

(* The result of a message from outside is decided by whoever gets it.     *)
LEMMA QueueMessageAttends ==
    ASSUME KernelSound, RestTyped, DecidersKept, QueueMessage
    PROVE  DecidersKept'
<1>1. PICK v \in Vats, slots \in {<<>>} \cup {<<Root(w)>> : w \in Vats} :
         LET ks == <<Root(v)>> \o slots
             m  == [result |-> store.nextPromise, slots |-> slots]
         IN  /\ \A i \in DOMAIN ks : Exists(store, ks[i])
             /\ m.result \in Promises
             /\ Request(EnqueueSend(InitKernelPromise(store, NoOne), Root(v), m, "immediate"))
  BY Zenon DEF QueueMessage
<1> DEFINE k  == Root(v)
           p  == store.nextPromise
           m  == [result |-> p, slots |-> slots]
           t  == InitKernelPromise(store, NoOne)
           u  == EnqueueSend(t, k, m, "immediate")
<1>2. p \in Promises /\ Request(u)
  BY <1>1
<1>3. crank = Idle /\ store = saved
  BY <1>2 DEF Request, KernelSound
<1>4. Sound(store, None, {}) /\ store \in Stores /\ None \in Loans
  BY <1>3, IdleKernel
<1>5. k \in Krefs
  BY RootIs, KrefsAre
<1>6. slots \in Seq(Krefs)
  <2>1. slots = <<>> \/ \E w \in Vats : slots = <<Root(w)>>
    BY <1>1
  <2>2. <<>> \in Seq(Krefs)
    OBVIOUS
  <2>3. \A w \in Vats : <<Root(w)>> \in Seq(Krefs)
    <3>1. \A x \in Krefs : <<x>> \in Seq(Krefs)
      OBVIOUS
    <3> QED
      BY <3>1, RootIs, KrefsAre
  <2> QED
    BY <2>1, <2>2, <2>3
<1>7. m \in Message /\ m.result = p
  BY <1>2, <1>6 DEF Message
<1>8. /\ t \in Stores /\ t.buffer = store.buffer
      /\ t.configured = store.configured /\ t.terminated = store.terminated
      /\ Stranded(t) \subseteq Stranded(store) \cup {p}
  BY <1>2, <1>4, PromiseMade
<1> HIDE DEF k, m, t, p
<1>9. /\ u \in Stores /\ Posts(t, u, "immediate") /\ (u.failed \/ Outbound(u, p))
  BY <1>5, <1>7, <1>8, EnqueueSendPosts
<1>10. Tends(t, u, "immediate")
  BY <1>8, <1>9, PostsTends
<1>11. ~u.failed
  <2>1. Proceeds /\ store' = u
    BY <1>2, QueueMessageProceeds DEF Request
  <2>2. u.failed = FALSE
    BY <2>1 DEF Proceeds, KernelSound, Sound
  <2> QED
    BY <2>2
<1> HIDE DEF u
<1>12. p \notin Stranded(u)
  BY <1>9, <1>11 DEF Stranded, Outbound, Travels
<1>13. Tends(store, u, "immediate")
  BY <1>8, <1>10, <1>12 DEF Tends
<1> QED
  BY <1>2, <1>13, RequestAttends

LEMMA RequestTerminationAttends ==
    ASSUME KernelSound, RestTyped, DecidersKept, RequestTermination
    PROVE  DecidersKept'
<1>1. PICK v \in store.configured :
         Request([store EXCEPT !.run = Append(@, [type |-> "terminate", vat |-> v])])
  BY DEF RequestTermination
<1> DEFINE t == [store EXCEPT !.run = Append(@, [type |-> "terminate", vat |-> v])]
<1>2. Request(t) /\ crank = Idle
  BY <1>1 DEF Request
<1>3. store \in Stores /\ store.failed = FALSE
  BY <1>2, IdleKernel DEF Sound
<1>4. v \in Vats
  BY <1>1, <1>3, StoreFields
<1>5. Termination(v) \in Items /\ t = Enqueue(store, Termination(v), "immediate")
  BY <1>3, <1>4 DEF Termination, Items, Enqueue
<1> HIDE DEF t
<1>6. Posts(store, t, "immediate")
  BY <1>3, <1>5, EnqueuePosts
<1>7. Tends(store, t, "immediate")
  BY <1>3, <1>6, PostsTends
<1> QED
  BY <1>2, <1>7, RequestAttends

LEMMA ScheduleReapAttends ==
    ASSUME KernelSound, RestTyped, DecidersKept, ScheduleReap
    PROVE  DecidersKept'
<1>1. PICK v \in running : Request([store EXCEPT !.reaps = Append(@, v)])
  BY DEF ScheduleReap
<1> DEFINE reaps == Append(store.reaps, v)
           t == [store EXCEPT !.reaps = reaps]
<1>2. Request(t) /\ crank = Idle
  BY <1>1 DEF Request
<1>3. store \in Stores /\ v \in Vats
  BY <1>1, <1>2, IdleKernel
<1>4. reaps \in Seq(Vats)
  BY <1>3, StoreFields
<1> HIDE DEF reaps
<1>5. t \in Stores
  BY <1>3, <1>4, StoreChanges
<1>6. /\ t.promise = store.promise /\ t.clist = store.clist /\ t.run = store.run
      /\ t.buffer = store.buffer /\ t.configured = store.configured
      /\ t.terminated = store.terminated
  BY <1>3 DEF Stores
<1> HIDE DEF t
<1>7. Tends(store, t, "immediate")
  BY <1>3, <1>5, <1>6, UntouchedLevel, LevelMinds, MindsTends
<1> QED
  BY <1>2, <1>7, RequestAttends

LEMMA UnpinRootAttends ==
    ASSUME KernelSound, RestTyped, DecidersKept, UnpinRoot
    PROVE  DecidersKept'
<1>1. PICK v \in running : Request(Unpin(store, Root(v)))
  BY DEF UnpinRoot
<1> DEFINE t == Unpin(store, Root(v))
<1>2. Request(t) /\ crank = Idle
  BY <1>1 DEF Request
<1>3. store \in Stores /\ v \in Vats
  BY <1>1, <1>2, IdleKernel
<1>4. Minds(store, t)
  BY <1>3, RootIs, UnpinLevel, LevelMinds
<1> HIDE DEF t
<1>5. Tends(store, t, "immediate")
  BY <1>3, <1>4, MindsTends
<1> QED
  BY <1>2, <1>5, RequestAttends

-----------------------------------------------------------------------------
(* Every promise has a decider.                                            *)

LEMMA InitAttends ==
    ASSUME Init
    PROVE  DecidersKept
<1> DEFINE s == LaunchedStore
<1>1. store = s /\ saved = s
  BY DEF Init
<1>2. DOMAIN s.promise = {} /\ s.buffer = <<>>
  BY LaunchedIs
<1>3. s.terminated = <<>>
  BY DEF LaunchedStore
<1> HIDE DEF s
<1>4. Stranded(s) = {}
  BY <1>2 DEF Stranded, Unresolved
<1>5. Apart(s)
  BY <1>3 DEF Apart, IsTerminated, Contains
<1> QED
  BY <1>1, <1>2, <1>4, <1>5 DEF DecidersKept, Attended

LEMMA NextAttends ==
    ASSUME BarePromises = FALSE, KernelSound, RestTyped, DecidersKept, [Next]_vars
    PROVE  DecidersKept'
<1>1. CASE StartCrank
  BY <1>1, StartCrankAttends
<1>2. CASE EndDelivery
  BY <1>2, EndDeliveryAttends
<1>3. CASE AbortDelivery
  BY <1>3, AbortDeliveryAttends
<1>4. CASE crank # Idle /\ VatSends
  BY <1>4, VatSendsAttends
<1>5. CASE crank # Idle /\ VatResolves
  BY <1>5, VatResolvesAttends
<1>6. CASE crank # Idle /\ VatSubscribes
  BY <1>6, VatSubscribesAttends
<1>7. CASE crank # Idle /\ VatDropsImport
  BY <1>7, VatDropsImportAttends
<1>8. CASE crank # Idle /\ VatRetiresImport
  BY <1>8, VatRetiresImportAttends
<1>9. CASE crank # Idle /\ VatCleansUpExport
  BY <1>9, VatCleansUpExportAttends
<1>10. CASE VatExits \/ UNCHANGED vars
  <2>1. store' = store /\ saved' = saved
    BY <1>10 DEF VatExits, vars
  <2> QED
    BY <2>1 DEF DecidersKept
<1>11. CASE QueueMessage
  BY <1>11, QueueMessageAttends
<1>12. CASE RequestTermination
  BY <1>12, RequestTerminationAttends
<1>13. CASE ScheduleReap
  BY <1>13, ScheduleReapAttends
<1>14. CASE UnpinRoot
  BY <1>14, UnpinRootAttends
<1> QED
  BY <1>1, <1>2, <1>3, <1>4, <1>5, <1>6, <1>7, <1>8, <1>9, <1>10, <1>11, <1>12, <1>13, <1>14 DEF Next

(* EveryPromiseHasADecider in every state, where vats fulfill promises     *)
(* with objects and not with other promises: whatever vats send, resolve,  *)
(* leave unresolved when they die or are rolled back to, no promise waits  *)
(* for a vat that is dead or for a message that has been dropped.          *)
THEOREM EveryPromiseAlwaysHasADecider ==
    ASSUME BarePromises = FALSE
    PROVE  Spec => []EveryPromiseHasADecider
<1>1. Init => DecidersKept
  BY InitAttends
<1>2. (KernelSound /\ RestTyped) /\ DecidersKept /\ [Next]_vars => DecidersKept'
  BY NextAttends
<1>3. (KernelSound /\ RestTyped) /\ DecidersKept => EveryPromiseHasADecider
  <2> SUFFICES ASSUME KernelSound, DecidersKept, crank = Idle,
                      NEW p \in DOMAIN store.promise, Unresolved(store, p)
               PROVE  \/ store.promise[p].decider \in store.configured
                      \/ \E m \in Messages(store.run) : m.result = p
                      \/ \E q \in DOMAIN store.promise : /\ Unresolved(store, q)
                              /\ \E m \in ToSet(store.promise[q].queue) : m.result = p
    BY DEF EveryPromiseHasADecider
  <2>1. store.buffer = <<>> /\ Stranded(store) = {} /\ store \in Stores
    BY DEF KernelSound, DecidersKept, Attended, Sound
  <2>2. p \in Promises
    BY <2>1, StoreIs
  <2>3. Minded(store, p) \/ Travels(store, p)
    BY <2>1, <2>2 DEF Stranded
  <2>4. ~Carries(store.buffer, p)
    BY <2>1 DEF Carries
  <2>5. CASE Minded(store, p)
    BY <2>5 DEF Minded
  <2>6. CASE Carries(store.run, p)
    <3>1. PICK i \in DOMAIN store.run : store.run[i].type = "send" /\ store.run[i].message.result = p
      BY <2>6 DEF Carries
    <3>2. store.run[i].message \in Messages(store.run)
      BY <3>1 DEF Messages
    <3> QED
      BY <3>1, <3>2
  <2>7. CASE \E q \in DOMAIN store.promise : Awaits(store, q, p)
    <3>1. PICK q \in DOMAIN store.promise : Awaits(store, q, p)
      BY <2>7
    <3>2. PICK i \in DOMAIN store.promise[q].queue : store.promise[q].queue[i].result = p
      BY <3>1 DEF Awaits
    <3>3. store.promise[q].queue[i] \in ToSet(store.promise[q].queue)
      BY <3>2 DEF ToSet
    <3> QED
      BY <3>1, <3>2, <3>3 DEF Awaits
  <2> QED
    BY <2>3, <2>4, <2>5, <2>6, <2>7 DEF Travels
<1> QED
  BY <1>1, <1>2, <1>3, KernelStaysSound, PTL DEF Spec
=============================================================================
