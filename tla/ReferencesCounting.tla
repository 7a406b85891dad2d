---------------------------- MODULE ReferencesCounting ----------------------------
(* The operators of References on a store, for any vats and any bounds:    *)
(* what counting, the c-lists, the queues and resolutions do to a store    *)
(* that balances.                                                          *)
EXTENDS References, SequenceTheorems, TLAPS

-----------------------------------------------------------------------------
(* Sums.                                                                   *)

(* The solutions of a recursion along a sequence.                          *)
Solutions(X, x, seq, F) ==
    {g \in [0 .. Len(seq) -> X] :
        g[0] = x /\ \A n \in 1 .. Len(seq) : g[n] = F[<<g[n - 1], seq[n]>>]}

(* There is one.                                                           *)
LEMMA RecursionExists ==
    ASSUME NEW X, NEW x \in X, NEW Y, NEW seq \in Seq(Y), NEW F \in [X \X Y -> X]
    PROVE  \E g : g \in Solutions(X, x, seq, F)
<1> DEFINE Solved(n) == \E g \in [0 .. n -> X] :
                g[0] = x /\ \A i \in 1 .. n : g[i] = F[<<g[i - 1], seq[i]>>]
           S == {n \in Nat : n <= Len(seq) => Solved(n)}
<1>1. 0 \in S
  <2> DEFINE g == [i \in 0 .. 0 |-> x]
  <2>1. g \in [0 .. 0 -> X] /\ g[0] = x /\ 1 .. 0 = {}
    OBVIOUS
  <2> HIDE DEF g
  <2> QED
    BY <2>1
<1>2. ASSUME NEW n \in Nat, n \in S PROVE n + 1 \in S
  <2> SUFFICES ASSUME n + 1 <= Len(seq) PROVE Solved(n + 1)
    OBVIOUS
  <2>1. PICK g \in [0 .. n -> X] :
            g[0] = x /\ \A i \in 1 .. n : g[i] = F[<<g[i - 1], seq[i]>>]
    BY <1>2
  <2> DEFINE y == F[<<g[n], seq[n + 1]>>]
             h == [i \in 0 .. n + 1 |-> IF i = n + 1 THEN y ELSE g[i]]
  <2>2. seq[n + 1] \in Y /\ g[n] \in X
    OBVIOUS
  <2>3. y \in X
    BY <2>2
  <2>4. h \in [0 .. n + 1 -> X]
    BY <2>3
  <2>5. h[0] = x /\ h[n + 1] = y /\ \A i \in 0 .. n : h[i] = g[i]
    BY <2>1
  <2> HIDE DEF h
  <2>6. ASSUME NEW i \in 1 .. n + 1 PROVE h[i] = F[<<h[i - 1], seq[i]>>]
    <3>1. CASE i = n + 1
      <4>1. i - 1 = n /\ h[n] = g[n] /\ h[i] = y
        BY <2>5, <3>1
      <4> QED
        BY <3>1, <4>1
    <3>2. CASE i \in 1 .. n
      <4>1. h[i] = g[i] /\ h[i - 1] = g[i - 1]
        BY <2>5, <3>2
      <4> QED
        BY <2>1, <3>2, <4>1
    <3> QED
      BY <3>1, <3>2
  <2> QED
    BY <2>4, <2>5, <2>6
<1>3. Len(seq) \in S
  <2> HIDE DEF S
  <2> QED
    BY <1>1, <1>2, SetInduction
<1>4. Solved(Len(seq))
  BY <1>3
<1> QED
  BY <1>4 DEF Solutions

(* A sum goes through the partial sums.                                    *)
LEMMA TotalUnfolds ==
    ASSUME NEW f \in Seq(Nat)
    PROVE  \E g \in [0 .. Len(f) -> Nat] :
              /\ g[0] = 0 /\ \A n \in 1 .. Len(f) : g[n] = g[n - 1] + f[n]
              /\ Total(f) = g[Len(f)]
<1> DEFINE m == Len(f)
           F == [x \in Nat \X Nat |-> x[1] + x[2]]
           Solves(h) == h = [n \in 0 .. m |-> IF n = 0 THEN 0 ELSE h[n - 1] + f[n]]
<1>1. F \in [Nat \X Nat -> Nat]
  OBVIOUS
<1>2. PICK g : g \in Solutions(Nat, 0, f, F)
  <2> HIDE DEF F
  <2>1. 0 \in Nat
    OBVIOUS
  <2> QED
    BY <1>1, <2>1, RecursionExists
<1>3. /\ g \in [0 .. m -> Nat] /\ g[0] = 0
      /\ \A n \in 1 .. m : g[n] = g[n - 1] + f[n]
  <2>1. /\ g \in [0 .. m -> Nat] /\ g[0] = 0
        /\ \A n \in 1 .. m : g[n] = F[<<g[n - 1], f[n]>>]
    <3> HIDE DEF F
    <3> QED
      BY <1>2 DEF Solutions
  <2>2. ASSUME NEW n \in 1 .. m PROVE g[n] = g[n - 1] + f[n]
    <3>1. g[n - 1] \in Nat /\ f[n] \in Nat
      BY <2>1, SMTT(30)
    <3> QED
      BY <2>1, <3>1
  <2> QED
    BY <2>1, <2>2
<1>4. Solves(g)
  <2>1. \A n \in 0 .. m : g[n] = IF n = 0 THEN 0 ELSE g[n - 1] + f[n]
    BY <1>3
  <2> QED
    BY <1>3, <2>1
<1> DEFINE h == CHOOSE h : Solves(h)
<1>5. Solves(h)
  <2> HIDE DEF Solves
  <2> QED
    BY <1>4
<1>6. Total(f) = h[m]
  BY DEF Total, Each
<1> HIDE DEF h
<1>7. DOMAIN h = 0 .. m /\ \A n \in 0 .. m : h[n] = IF n = 0 THEN 0 ELSE h[n - 1] + f[n]
  BY <1>5
<1> DEFINE S == {n \in Nat : n <= m => h[n] \in Nat}
<1>8. 0 \in S
  BY <1>7
<1>9. ASSUME NEW n \in Nat, n \in S PROVE n + 1 \in S
  <2> SUFFICES ASSUME n + 1 <= m PROVE h[n + 1] \in Nat
    OBVIOUS
  <2>1. h[n + 1] = h[n] + f[n + 1]
    BY <1>7
  <2>2. h[n] \in Nat /\ f[n + 1] \in Nat
    BY <1>9
  <2> QED
    BY <2>1, <2>2
<1>10. Nat \subseteq S
  <2> HIDE DEF S
  <2> QED
    BY <1>8, <1>9, SetInduction
<1>11. h \in [0 .. m -> Nat]
  <2>1. h = [n \in 0 .. m |-> h[n]]
    BY <1>5
  <2>2. \A n \in 0 .. m : h[n] \in Nat
    BY <1>10
  <2> QED
    BY <2>1, <2>2
<1>12. h[0] = 0 /\ \A n \in 1 .. m : h[n] = h[n - 1] + f[n]
  BY <1>7
<1> QED
  BY <1>6, <1>11, <1>12

(* It is the last of any partial sums.                                     *)
LEMMA TotalIs ==
    ASSUME NEW f \in Seq(Nat), NEW g \in [0 .. Len(f) -> Int],
           g[0] = 0, \A n \in 1 .. Len(f) : g[n] = g[n - 1] + f[n]
    PROVE  Total(f) = g[Len(f)]
<1>1. PICK h \in [0 .. Len(f) -> Nat] :
          /\ h[0] = 0 /\ \A n \in 1 .. Len(f) : h[n] = h[n - 1] + f[n]
          /\ Total(f) = h[Len(f)]
  BY TotalUnfolds
<1> DEFINE S == {n \in Nat : n <= Len(f) => g[n] = h[n]}
<1>2. 0 \in S
  BY <1>1
<1>3. ASSUME NEW n \in Nat, n \in S PROVE n + 1 \in S
  <2> SUFFICES ASSUME n + 1 <= Len(f) PROVE g[n + 1] = h[n + 1]
    OBVIOUS
  <2>1. g[n] = h[n] /\ g[n + 1] = g[n] + f[n + 1] /\ h[n + 1] = h[n] + f[n + 1]
    BY <1>1, <1>3
  <2> QED
    BY <2>1
<1>4. Nat \subseteq S
  <2> HIDE DEF S
  <2> QED
    BY <1>2, <1>3, SetInduction
<1> QED
  BY <1>1, <1>4

LEMMA TotalType ==
    ASSUME NEW f \in Seq(Nat)
    PROVE  Total(f) \in Nat
BY TotalUnfolds

LEMMA TotalEmpty == Total(<<>>) = 0
<1>1. <<>> \in Seq(Nat) /\ Len(<<>>) = 0
  OBVIOUS
<1> QED
  BY <1>1, TotalUnfolds

LEMMA TotalOfOne ==
    ASSUME NEW x \in Nat
    PROVE  Total(<<x>>) = x
<1>1. <<x>> \in Seq(Nat) /\ Len(<<x>>) = 1 /\ <<x>>[1] = x
  OBVIOUS
<1> DEFINE g == [n \in 0 .. 1 |-> IF n = 0 THEN 0 ELSE x]
<1>2. /\ g \in [0 .. Len(<<x>>) -> Int] /\ g[0] = 0 /\ g[1] = x
      /\ \A n \in 1 .. Len(<<x>>) : g[n] = g[n - 1] + <<x>>[n]
  BY <1>1
<1> QED
  BY <1>1, <1>2, TotalIs, ZenonT(40)

LEMMA TotalOfJoined ==
    ASSUME NEW f \in Seq(Nat), NEW h \in Seq(Nat)
    PROVE  Total(f \o h) = Total(f) + Total(h)
<1>1. PICK a \in [0 .. Len(f) -> Nat] :
          /\ a[0] = 0 /\ \A n \in 1 .. Len(f) : a[n] = a[n - 1] + f[n]
          /\ Total(f) = a[Len(f)]
  BY TotalUnfolds
<1>2. PICK b \in [0 .. Len(h) -> Nat] :
          /\ b[0] = 0 /\ \A n \in 1 .. Len(h) : b[n] = b[n - 1] + h[n]
          /\ Total(h) = b[Len(h)]
  BY TotalUnfolds
<1> DEFINE m == Len(f)
           j == f \o h
           g == [n \in 0 .. m + Len(h) |->
                    IF n <= m THEN a[n] ELSE a[m] + b[n - m]]
<1>3. /\ j \in Seq(Nat) /\ Len(j) = m + Len(h)
      /\ \A n \in 1 .. m : j[n] = f[n]
      /\ \A n \in m + 1 .. m + Len(h) : j[n] = h[n - m]
  BY ConcatProperties
<1>4. /\ m \in Nat /\ Len(h) \in Nat /\ a[m] \in Nat
      /\ \A n \in 0 .. Len(h) : b[n] \in Nat
      /\ \A n \in 0 .. m : a[n] \in Nat
  <2>1. Len(f) \in Nat /\ Len(h) \in Nat
    OBVIOUS
  <2>2. \A n \in 0 .. Len(h) : b[n] \in Nat
    OBVIOUS
  <2>3. \A n \in 0 .. Len(f) : a[n] \in Nat
    OBVIOUS
  <2> HIDE DEF g, j
  <2> QED
    BY <2>1, <2>2, <2>3
<1>5. g \in [0 .. m + Len(h) -> Int]
  BY <1>4
<1>6. ASSUME NEW n \in 1 .. m + Len(h) PROVE g[n] = g[n - 1] + j[n]
  <2>1. CASE n <= m
    <3>1. g[n] = a[n] /\ g[n - 1] = a[n - 1] /\ j[n] = f[n]
      <4>1. n \in 1 .. m /\ n - 1 \in 0 .. m
        BY <1>4, <2>1
      <4>2. n \in 0 .. m + Len(h) /\ n - 1 \in 0 .. m + Len(h)
        BY <1>4
      <4>3. j[n] = f[n]
        BY <1>3, <4>1
      <4> HIDE DEF j
      <4> QED
        BY <4>1, <4>2, <4>3
    <3> QED
      BY <1>1, <2>1, <3>1
  <2>2. CASE n > m
    <3> DEFINE i == n - m
    <3>1. i \in 1 .. Len(h) /\ j[n] = h[i] /\ g[n] = a[m] + b[i]
      <4>1. i \in 1 .. Len(h) /\ g[n] = a[m] + b[i]
        BY <1>4, <2>2
      <4>2. n \in m + 1 .. m + Len(h)
        BY <1>4, <2>2
      <4> HIDE DEF j, g
      <4> QED
        BY <1>3, <4>1, <4>2
    <3>2. b[i] = b[i - 1] + h[i] /\ h[i] \in Nat /\ b[i - 1] \in Nat
      <4> HIDE DEF i
      <4>1. h[i] \in Nat /\ i - 1 \in 0 .. Len(h)
        BY <3>1
      <4> QED
        BY <1>2, <1>4, <3>1, <4>1
    <3>3. g[n - 1] = a[m] + b[i - 1]
      <4>1. CASE n = m + 1
        <5>1. g[n - 1] = a[m] /\ i - 1 = 0
          BY <1>4, <4>1
        <5> QED
          BY <1>2, <1>4, <5>1
      <4>2. CASE n # m + 1
        BY <1>4, <2>2, <4>2
      <4> QED
        BY <4>1, <4>2
    <3> HIDE DEF i, j, g
    <3> QED
      BY <1>4, <3>1, <3>2, <3>3, SMTT(30)
  <2> QED
    BY <1>4, <2>1, <2>2
<1>7. g[0] = 0 /\ g[m + Len(h)] = a[m] + b[Len(h)]
  <2>1. CASE Len(h) = 0
    BY <1>1, <1>2, <1>4, <2>1
  <2>2. CASE Len(h) # 0
    BY <1>1, <1>4, <2>2
  <2> QED
    BY <2>1, <2>2
<1> HIDE DEF g, j
<1>8. Total(j) = g[m + Len(h)]
  BY <1>3, <1>5, <1>6, <1>7, TotalIs
<1> QED
  BY <1>1, <1>2, <1>7, <1>8 DEF j

(* Two sums that differ in one term.                                       *)
LEMMA TotalOfChanged ==
    ASSUME NEW f \in Seq(Nat), NEW h \in Seq(Nat), Len(f) = Len(h),
           NEW i \in 1 .. Len(f), \A n \in 1 .. Len(f) : n # i => h[n] = f[n]
    PROVE  Total(h) = Total(f) - f[i] + h[i]
<1>1. PICK a \in [0 .. Len(f) -> Nat] :
          /\ a[0] = 0 /\ \A n \in 1 .. Len(f) : a[n] = a[n - 1] + f[n]
          /\ Total(f) = a[Len(f)]
  BY TotalUnfolds
<1> DEFINE g == [n \in 0 .. Len(h) |-> IF n < i THEN a[n] ELSE a[n] - f[i] + h[i]]
<1>2. /\ f[i] \in Nat /\ h[i] \in Nat /\ i \in 1 .. Len(h)
      /\ \A n \in 0 .. Len(h) : a[n] \in Nat
      /\ \A n \in 1 .. Len(h) : f[n] \in Nat
  <2>1. Len(f) \in Nat /\ Len(h) \in Nat
    OBVIOUS
  <2>2. /\ \A n \in 0 .. Len(f) : a[n] \in Nat
        /\ \A n \in 1 .. Len(f) : f[n] \in Nat /\ h[n] \in Nat
    BY SMTT(30)
  <2> HIDE DEF g
  <2> QED
    BY <2>1, <2>2
<1>3. g \in [0 .. Len(h) -> Int] /\ g[0] = 0 /\ g[Len(h)] = a[Len(h)] - f[i] + h[i]
  BY <1>1, <1>2, SMTT(30)
<1>4. ASSUME NEW n \in 1 .. Len(h) PROVE g[n] = g[n - 1] + h[n]
  <2>1. a[n] = a[n - 1] + f[n] /\ a[n] \in Nat /\ a[n - 1] \in Nat /\ f[n] \in Nat
    BY <1>1, <1>2
  <2>2. CASE n < i
    BY <1>2, <2>1, <2>2
  <2>3. CASE n = i
    BY <1>2, <2>1, <2>3
  <2>4. CASE n > i
    <3>1. h[n] = f[n] /\ n \in 0 .. Len(h) /\ n - 1 \in 0 .. Len(h) /\ ~(n < i)
          /\ ~(n - 1 < i)
      BY <1>2, <2>4
    <3>2. g[n] = a[n] - f[i] + h[i] /\ g[n - 1] = a[n - 1] - f[i] + h[i]
      BY <3>1
    <3>3. f[i] \in Int /\ h[i] \in Int
      BY <1>2
    <3>4. a[n] \in Int /\ a[n - 1] \in Int /\ f[n] \in Int
      BY <2>1
    <3> HIDE DEF g
    <3>5. g[n] = g[n - 1] + f[n]
      <4> DEFINE G == g[n]
                 G1 == g[n - 1]
                 A1 == a[n - 1]
                 F1 == f[n]
                 B1 == f[i]
                 H1 == h[i]
      <4>1. G = (A1 + F1) - B1 + H1 /\ G1 = A1 - B1 + H1
            /\ A1 \in Int /\ F1 \in Int /\ B1 \in Int /\ H1 \in Int
        BY <2>1, <3>2, <3>3, <3>4
      <4> HIDE DEF G, G1, A1, F1, B1, H1
      <4>2. G = G1 + F1
        BY <4>1
      <4> QED
        BY <4>2 DEF G, G1, F1
    <3> QED
      BY <3>1, <3>5
  <2> QED
    BY <2>2, <2>3, <2>4
<1> HIDE DEF g
<1>5. Total(h) = g[Len(h)]
  BY <1>3, <1>4, TotalIs
<1> QED
  BY <1>1, <1>3, <1>5

(* No term is greater than the sum.                                        *)
LEMMA TotalHasTerms ==
    ASSUME NEW f \in Seq(Nat), NEW i \in 1 .. Len(f)
    PROVE  f[i] <= Total(f)
<1> DEFINE h == [n \in 1 .. Len(f) |-> IF n = i THEN 0 ELSE f[n]]
<1>1. /\ h \in Seq(Nat) /\ Len(h) = Len(f) /\ h[i] = 0
      /\ \A n \in 1 .. Len(f) : n # i => h[n] = f[n]
  OBVIOUS
<1> HIDE DEF h
<1>2. Total(h) = Total(f) - f[i] + h[i] /\ Total(h) \in Nat /\ Total(f) \in Nat
  BY <1>1, TotalOfChanged, TotalType
<1> QED
  BY <1>1, <1>2

(* The sum of what a function gives for the elements of a sequence.        *)
Sum(G, xs) == Total([i \in DOMAIN xs |-> G[xs[i]]])

LEMMA SumTerms ==
    ASSUME NEW X, NEW G \in [X -> Nat], NEW xs \in Seq(X)
    PROVE  /\ [i \in DOMAIN xs |-> G[xs[i]]] \in Seq(Nat)
           /\ Len([i \in DOMAIN xs |-> G[xs[i]]]) = Len(xs)
           /\ \A i \in 1 .. Len(xs) : [j \in DOMAIN xs |-> G[xs[j]]][i] = G[xs[i]]
<1>1. DOMAIN xs = 1 .. Len(xs) /\ Len(xs) \in Nat
  OBVIOUS
<1>2. \A i \in 1 .. Len(xs) : G[xs[i]] \in Nat
  OBVIOUS
<1>3. [i \in DOMAIN xs |-> G[xs[i]]] \in [1 .. Len(xs) -> Nat]
  BY <1>1, <1>2
<1> DEFINE f == [i \in DOMAIN xs |-> G[xs[i]]]
<1>4. \A i \in 1 .. Len(xs) : f[i] = G[xs[i]]
  BY <1>1
<1> HIDE DEF f
<1>5. f \in [1 .. Len(xs) -> Nat]
  BY <1>3 DEF f
<1>6. f \in Seq(Nat) /\ Len(f) = Len(xs)
  BY <1>1, <1>5, SeqDef, LenProperties
<1> QED
  BY <1>4, <1>6 DEF f

LEMMA SumType ==
    ASSUME NEW X, NEW G \in [X -> Nat], NEW xs \in Seq(X)
    PROVE  Sum(G, xs) \in Nat
BY SumTerms, TotalType DEF Sum

LEMMA SumOfNone ==
    ASSUME NEW G
    PROVE  Sum(G, <<>>) = 0
<1>1. [i \in DOMAIN <<>> |-> G[<<>>[i]]] = <<>>
  OBVIOUS
<1> QED
  BY <1>1, TotalEmpty DEF Sum

LEMMA SumOfOne ==
    ASSUME NEW X, NEW G \in [X -> Nat], NEW x \in X
    PROVE  Sum(G, <<x>>) = G[x]
<1>1. <<x>> \in Seq(X) /\ Len(<<x>>) = 1 /\ <<x>>[1] = x /\ G[x] \in Nat
  OBVIOUS
<1> DEFINE f == [i \in DOMAIN <<x>> |-> G[<<x>>[i]]]
<1>2. f \in Seq(Nat) /\ Len(f) = 1 /\ f[1] = G[x]
  BY <1>1, SumTerms
<1> HIDE DEF f
<1>3. f = <<G[x]>>
  BY <1>1, <1>2
<1> QED
  BY <1>1, <1>3, TotalOfOne DEF Sum, f

LEMMA SumOfJoined ==
    ASSUME NEW X, NEW G \in [X -> Nat], NEW xs \in Seq(X), NEW ys \in Seq(X)
    PROVE  Sum(G, xs \o ys) = Sum(G, xs) + Sum(G, ys)
<1> DEFINE zs == xs \o ys
           f == [i \in DOMAIN xs |-> G[xs[i]]]
           g == [i \in DOMAIN ys |-> G[ys[i]]]
           h == [i \in DOMAIN zs |-> G[zs[i]]]
<1>1. /\ zs \in Seq(X) /\ Len(zs) = Len(xs) + Len(ys)
      /\ \A i \in 1 .. Len(xs) + Len(ys) :
            zs[i] = IF i <= Len(xs) THEN xs[i] ELSE ys[i - Len(xs)]
  BY ConcatProperties
<1>2. /\ f \in Seq(Nat) /\ Len(f) = Len(xs)
      /\ \A i \in 1 .. Len(xs) : f[i] = G[xs[i]]
  BY SumTerms
<1>3. /\ g \in Seq(Nat) /\ Len(g) = Len(ys)
      /\ \A i \in 1 .. Len(ys) : g[i] = G[ys[i]]
  BY SumTerms
<1> HIDE DEF zs
<1>4. /\ h \in Seq(Nat) /\ Len(h) = Len(zs)
      /\ \A i \in 1 .. Len(zs) : h[i] = G[zs[i]]
  BY <1>1, SumTerms
<1> HIDE DEF f, g, h
<1>5. /\ f \o g \in Seq(Nat) /\ Len(f \o g) = Len(f) + Len(g)
      /\ \A i \in 1 .. Len(f) + Len(g) :
            (f \o g)[i] = IF i <= Len(f) THEN f[i] ELSE g[i - Len(f)]
  BY <1>2, <1>3, ConcatProperties, ZenonT(40)
<1>6. Len(xs) \in Nat /\ Len(ys) \in Nat
  OBVIOUS
<1>7. \A i \in 1 .. Len(xs) + Len(ys) : h[i] = (f \o g)[i]
  <2> TAKE i \in 1 .. Len(xs) + Len(ys)
  <2>1. CASE i <= Len(xs)
    <3>1. i \in 1 .. Len(xs)
      BY <1>6, <2>1
    <3>2. h[i] = G[xs[i]] /\ f[i] = G[xs[i]] /\ (f \o g)[i] = f[i]
      BY <1>1, <1>2, <1>3, <1>4, <1>5, <2>1, <3>1
    <3> QED
      BY <3>2
  <2>2. CASE ~(i <= Len(xs))
    <3>1. i - Len(xs) \in 1 .. Len(ys)
      BY <1>6, <2>2
    <3>2. h[i] = G[ys[i - Len(xs)]] /\ g[i - Len(xs)] = G[ys[i - Len(xs)]]
      BY <1>1, <1>3, <1>4, <2>2, <3>1
    <3>3. (f \o g)[i] = g[i - Len(xs)]
      BY <1>2, <1>3, <1>5, <2>2
    <3> QED
      BY <3>2, <3>3
  <2> QED
    BY <2>1, <2>2
<1>8. h = f \o g
  BY <1>1, <1>2, <1>3, <1>4, <1>5, <1>7, SeqEqual
<1>9. Total(h) = Total(f) + Total(g)
  BY <1>2, <1>3, <1>8, TotalOfJoined
<1> QED
  BY <1>9 DEF Sum, f, g, h, zs

LEMMA SumHasTerms ==
    ASSUME NEW X, NEW G \in [X -> Nat], NEW xs \in Seq(X), NEW i \in DOMAIN xs
    PROVE  G[xs[i]] <= Sum(G, xs)
<1> DEFINE f == [j \in DOMAIN xs |-> G[xs[j]]]
<1>1. i \in 1 .. Len(xs)
  OBVIOUS
<1>2. f \in Seq(Nat) /\ Len(f) = Len(xs) /\ f[i] = G[xs[i]]
  BY <1>1, SumTerms
<1> HIDE DEF f
<1>3. f[i] <= Total(f)
  BY <1>1, <1>2, TotalHasTerms
<1> QED
  BY <1>2, <1>3 DEF Sum, f

(* One element more, or the first one less.                                *)
LEMMA SumOfAppended ==
    ASSUME NEW X, NEW G \in [X -> Nat], NEW xs \in Seq(X), NEW x \in X
    PROVE  Sum(G, Append(xs, x)) = Sum(G, xs) + G[x]
<1>1. Append(xs, x) = xs \o <<x>> /\ <<x>> \in Seq(X)
  BY AppendIsConcat
<1>2. Sum(G, xs \o <<x>>) = Sum(G, xs) + Sum(G, <<x>>)
  BY <1>1, SumOfJoined
<1>3. Sum(G, <<x>>) = G[x]
  BY SumOfOne
<1> QED
  BY <1>1, <1>2, <1>3

LEMMA SumOfTail ==
    ASSUME NEW X, NEW G \in [X -> Nat], NEW xs \in Seq(X), xs # <<>>
    PROVE  Sum(G, xs) = G[Head(xs)] + Sum(G, Tail(xs))
<1>1. /\ xs = <<Head(xs)>> \o Tail(xs) /\ Head(xs) \in X /\ Tail(xs) \in Seq(X)
      /\ <<Head(xs)>> \in Seq(X)
  OBVIOUS
<1>2. Sum(G, <<Head(xs)>> \o Tail(xs)) = Sum(G, <<Head(xs)>>) + Sum(G, Tail(xs))
  BY <1>1, SumOfJoined
<1>3. Sum(G, <<Head(xs)>>) = G[Head(xs)]
  BY <1>1, SumOfOne
<1> QED
  BY <1>1, <1>2, <1>3

-----------------------------------------------------------------------------
(* References in sequences.                                                *)

LEMMA KrefsAre ==
    /\ Krefs = 1 .. MaxObjects + MaxPromises
    /\ Objects \subseteq Krefs /\ Promises \subseteq Krefs
    /\ \A k \in Krefs : (IsPromise(k) <=> k \in Promises) /\ (~IsPromise(k) <=> k \in Objects)
    /\ MaxObjects \in Nat /\ MaxPromises \in Nat /\ NumVats \in Nat
    /\ Krefs \subseteq Nat
BY BoundsAreNaturals DEF Krefs, Objects, Promises, IsPromise

(* What a kref weighs in a sum of occurrences of k.                        *)
Hits(k) == [x \in Krefs |-> IF x = k THEN 1 ELSE 0]

LEMMA HitsType ==
    ASSUME NEW k
    PROVE  Hits(k) \in [Krefs -> Nat]
BY DEF Hits

LEMMA UsesIsSum ==
    ASSUME NEW ks \in Seq(Krefs), NEW k
    PROVE  Uses(ks, k) = Sum(Hits(k), ks)
<1>1. \A i \in DOMAIN ks : ks[i] \in Krefs
  OBVIOUS
<1>2. [i \in DOMAIN ks |-> IF ks[i] = k THEN 1 ELSE 0]
          = [i \in DOMAIN ks |-> Hits(k)[ks[i]]]
  BY <1>1 DEF Hits
<1> QED
  BY <1>2 DEF Uses, Sum

LEMMA UsesType ==
    ASSUME NEW ks \in Seq(Krefs), NEW k
    PROVE  Uses(ks, k) \in Nat
BY UsesIsSum, HitsType, SumType

LEMMA UsesOfNone ==
    ASSUME NEW k
    PROVE  Uses(<<>>, k) = 0
<1>1. <<>> \in Seq(Krefs)
  OBVIOUS
<1> QED
  BY <1>1, UsesIsSum, SumOfNone

LEMMA UsesOfOne ==
    ASSUME NEW x \in Krefs, NEW k
    PROVE  Uses(<<x>>, k) = IF x = k THEN 1 ELSE 0
<1>1. <<x>> \in Seq(Krefs)
  OBVIOUS
<1>2. Sum(Hits(k), <<x>>) = Hits(k)[x]
  BY HitsType, SumOfOne
<1> QED
  BY <1>1, <1>2, UsesIsSum DEF Hits

LEMMA UsesOfJoined ==
    ASSUME NEW a \in Seq(Krefs), NEW b \in Seq(Krefs), NEW k
    PROVE  Uses(a \o b, k) = Uses(a, k) + Uses(b, k)
<1>1. a \o b \in Seq(Krefs)
  BY ConcatProperties
<1>2. Sum(Hits(k), a \o b) = Sum(Hits(k), a) + Sum(Hits(k), b)
  BY HitsType, SumOfJoined
<1> QED
  BY <1>1, <1>2, UsesIsSum

LEMMA UsesOfAppended ==
    ASSUME NEW a \in Seq(Krefs), NEW x \in Krefs, NEW k
    PROVE  Uses(Append(a, x), k) = Uses(a, k) + (IF x = k THEN 1 ELSE 0)
<1>1. Append(a, x) \in Seq(Krefs)
  OBVIOUS
<1>2. Sum(Hits(k), Append(a, x)) = Sum(Hits(k), a) + Hits(k)[x]
  BY HitsType, SumOfAppended
<1> QED
  BY <1>1, <1>2, UsesIsSum DEF Hits

LEMMA UsesHas ==
    ASSUME NEW a \in Seq(Krefs), NEW i \in DOMAIN a
    PROVE  Uses(a, a[i]) >= 1
<1>1. a[i] \in Krefs
  OBVIOUS
<1>2. Hits(a[i])[a[i]] <= Sum(Hits(a[i]), a) /\ Hits(a[i])[a[i]] = 1
  BY <1>1, HitsType, SumHasTerms DEF Hits
<1> QED
  BY <1>2, UsesIsSum, UsesType

-----------------------------------------------------------------------------
(* Stores, and the references in them.                                     *)

Tables(S, R) == UNION {[T -> R] : T \in SUBSET S}

Stores ==
    [object      : Tables(Objects, ObjectRows),
     promise     : Tables(Promises, PromiseRows),
     clist       : [Vats -> Tables(Krefs, CListEntries)],
     pins        : [Objects -> Nat],
     run         : Seq(Items),
     buffer      : Seq(Items),
     reaps       : Seq(Vats),
     actions     : SUBSET [vat : Vats, type : GCKinds, kref : Objects],
     free        : Seq(Krefs),
     terminated  : Seq(Vats),
     configured  : SUBSET Vats,
     nextObject  : Nat,
     nextPromise : Nat,
     failed      : BOOLEAN]

LEMMA TableIs ==
    ASSUME NEW S, NEW R, NEW f
    PROVE  f \in Tables(S, R) <=>
              /\ DOMAIN f \subseteq S /\ f = [k \in DOMAIN f |-> f[k]]
              /\ \A k \in DOMAIN f : f[k] \in R
<1>1. ASSUME f \in Tables(S, R)
      PROVE  /\ DOMAIN f \subseteq S /\ f = [k \in DOMAIN f |-> f[k]]
             /\ \A k \in DOMAIN f : f[k] \in R
  <2>1. PICK T \in SUBSET S : f \in [T -> R]
    BY <1>1 DEF Tables
  <2> QED
    BY <2>1
<1>2. ASSUME DOMAIN f \subseteq S, f = [k \in DOMAIN f |-> f[k]],
             \A k \in DOMAIN f : f[k] \in R
      PROVE  f \in Tables(S, R)
  <2>1. f \in [DOMAIN f -> R] /\ DOMAIN f \in SUBSET S
    BY <1>2
  <2> QED
    BY <2>1 DEF Tables
<1> QED
  BY <1>1, <1>2

LEMMA TableChanges ==
    ASSUME NEW S, NEW R, NEW f \in Tables(S, R), NEW x \in S, NEW y \in R
    PROVE  /\ [f EXCEPT ![x] = y] \in Tables(S, R)
           /\ [k \in DOMAIN f \cup {x} |-> IF k \in DOMAIN f THEN f[k] ELSE y]
                 \in Tables(S, R)
           /\ [k \in DOMAIN f \cup {x} |-> IF k = x THEN y ELSE f[k]]
                 \in Tables(S, R)
           /\ [k \in DOMAIN f \ {x} |-> f[k]] \in Tables(S, R)
<1>1. /\ DOMAIN f \subseteq S /\ f = [k \in DOMAIN f |-> f[k]]
      /\ \A k \in DOMAIN f : f[k] \in R
  BY TableIs
<1> DEFINE a == [f EXCEPT ![x] = y]
           b == [k \in DOMAIN f \cup {x} |-> IF k \in DOMAIN f THEN f[k] ELSE y]
           c == [k \in DOMAIN f \cup {x} |-> IF k = x THEN y ELSE f[k]]
           d == [k \in DOMAIN f \ {x} |-> f[k]]
<1>2. a \in Tables(S, R)
  <2>1. DOMAIN a = DOMAIN f /\ \A k \in DOMAIN f : a[k] = IF k = x THEN y ELSE f[k]
    BY <1>1
  <2>2. a = [k \in DOMAIN a |-> a[k]]
    BY <1>1
  <2> HIDE DEF a
  <2> QED
    BY <1>1, <2>1, <2>2, TableIs
<1>3. b \in Tables(S, R)
  <2>1. /\ DOMAIN b = DOMAIN f \cup {x} /\ b = [k \in DOMAIN b |-> b[k]]
        /\ \A k \in DOMAIN b : (b[k] = f[k] /\ k \in DOMAIN f) \/ b[k] = y
    OBVIOUS
  <2> HIDE DEF b
  <2> QED
    BY <1>1, <2>1, TableIs
<1>4. c \in Tables(S, R)
  <2>1. /\ DOMAIN c = DOMAIN f \cup {x} /\ c = [k \in DOMAIN c |-> c[k]]
        /\ \A k \in DOMAIN c : (c[k] = f[k] /\ k \in DOMAIN f) \/ c[k] = y
    OBVIOUS
  <2> HIDE DEF c
  <2> QED
    BY <1>1, <2>1, TableIs
<1>5. d \in Tables(S, R)
  <2>1. /\ DOMAIN d = DOMAIN f \ {x} /\ d = [k \in DOMAIN d |-> d[k]]
        /\ \A k \in DOMAIN d : d[k] = f[k] /\ k \in DOMAIN f
    OBVIOUS
  <2> HIDE DEF d
  <2> QED
    BY <1>1, <2>1, TableIs
<1> QED
  BY <1>2, <1>3, <1>4, <1>5

LEMMA StoreIs ==
    ASSUME NEW s \in Stores
    PROVE  /\ DOMAIN s.object \subseteq Objects
           /\ \A k \in DOMAIN s.object : s.object[k] \in ObjectRows
           /\ DOMAIN s.promise \subseteq Promises
           /\ \A p \in DOMAIN s.promise : s.promise[p] \in PromiseRows
           /\ \A v \in Vats : /\ DOMAIN s.clist[v] \subseteq Krefs
                              /\ \A k \in DOMAIN s.clist[v] :
                                    s.clist[v][k] \in CListEntries
<1>1. /\ s.object \in Tables(Objects, ObjectRows)
      /\ s.promise \in Tables(Promises, PromiseRows)
      /\ \A v \in Vats : s.clist[v] \in Tables(Krefs, CListEntries)
  BY DEF Stores
<1> QED
  BY <1>1, TableIs

LEMMA MessageRefsType ==
    ASSUME NEW target \in Krefs, NEW m \in Message
    PROVE  /\ MessageRefs(target, m) \in Seq(Krefs)
           /\ m.result \in Promises /\ m.result \in Krefs /\ m.slots \in Seq(Krefs)
           /\ <<target, m.result>> \in Seq(Krefs)
           /\ MessageRefs(target, m) = <<target, m.result>> \o m.slots
<1>1. m.result \in Promises /\ m.result \in Krefs /\ m.slots \in Seq(Krefs)
  BY KrefsAre DEF Message
<1>2. <<target, m.result>> \in Seq(Krefs)
  BY <1>1
<1> QED
  BY <1>1, <1>2, ConcatProperties DEF MessageRefs

LEMMA ItemRefsType ==
    ASSUME NEW item \in Items
    PROVE  /\ ItemRefs(item) \in Seq(Krefs)
           /\ item.type = "send" => /\ item.target \in Krefs /\ item.message \in Message
                                    /\ ItemRefs(item) = MessageRefs(item.target, item.message)
           /\ item.type = "notify" => /\ item.vat \in Vats /\ item.kpid \in Promises
                                      /\ ItemRefs(item) = <<item.kpid>>
           /\ item.type = "terminate" => item.vat \in Vats /\ ItemRefs(item) = <<>>
           /\ item.type \in {"send", "notify", "terminate"}
<1>1. CASE item \in [type : {"send"}, target : Krefs, message : Message]
  BY <1>1, MessageRefsType DEF ItemRefs
<1>2. CASE item \in [type : {"notify"}, vat : Vats, kpid : Promises]
  <2>1. item.kpid \in Krefs
    BY <1>2, KrefsAre
  <2>2. <<item.kpid>> \in Seq(Krefs)
    BY <2>1
  <2> QED
    BY <1>2, <2>2 DEF ItemRefs
<1>3. CASE item \in [type : {"terminate"}, vat : Vats]
  <2>1. <<>> \in Seq(Krefs)
    OBVIOUS
  <2> QED
    BY <1>3, <2>1 DEF ItemRefs
<1> QED
  BY <1>1, <1>2, <1>3 DEF Items

ItemWeights(k) == [x \in Items |-> Uses(ItemRefs(x), k)]

LEMMA UsesInItemsIsSum ==
    ASSUME NEW items \in Seq(Items), NEW k
    PROVE  /\ UsesInItems(items, k) = Sum(ItemWeights(k), items)
           /\ ItemWeights(k) \in [Items -> Nat]
<1>1. \A i \in DOMAIN items : items[i] \in Items
  OBVIOUS
<1>2. [i \in DOMAIN items |-> Uses(ItemRefs(items[i]), k)]
          = [i \in DOMAIN items |-> ItemWeights(k)[items[i]]]
  BY <1>1 DEF ItemWeights
<1>3. \A x \in Items : Uses(ItemRefs(x), k) \in Nat
  BY ItemRefsType, UsesType
<1> QED
  BY <1>2, <1>3 DEF UsesInItems, Sum, ItemWeights

LEMMA UsesInItemsType ==
    ASSUME NEW items \in Seq(Items), NEW k
    PROVE  UsesInItems(items, k) \in Nat
BY UsesInItemsIsSum, SumType

LEMMA UsesInNoItems ==
    ASSUME NEW k
    PROVE  UsesInItems(<<>>, k) = 0
<1>1. <<>> \in Seq(Items)
  OBVIOUS
<1> QED
  BY <1>1, UsesInItemsIsSum, SumOfNone

LEMMA UsesInJoinedItems ==
    ASSUME NEW a \in Seq(Items), NEW b \in Seq(Items), NEW k
    PROVE  UsesInItems(a \o b, k) = UsesInItems(a, k) + UsesInItems(b, k)
<1>1. a \o b \in Seq(Items)
  BY ConcatProperties
<1>2. Sum(ItemWeights(k), a \o b) = Sum(ItemWeights(k), a) + Sum(ItemWeights(k), b)
  BY UsesInItemsIsSum, SumOfJoined
<1> QED
  BY <1>1, <1>2, UsesInItemsIsSum

LEMMA UsesInMoreItems ==
    ASSUME NEW a \in Seq(Items), NEW x \in Items, NEW k
    PROVE  UsesInItems(Append(a, x), k) = UsesInItems(a, k) + Uses(ItemRefs(x), k)
<1>1. Append(a, x) \in Seq(Items)
  OBVIOUS
<1>2. Sum(ItemWeights(k), Append(a, x)) = Sum(ItemWeights(k), a) + ItemWeights(k)[x]
  BY UsesInItemsIsSum, SumOfAppended
<1> QED
  BY <1>1, <1>2, UsesInItemsIsSum DEF ItemWeights

LEMMA UsesInFewerItems ==
    ASSUME NEW a \in Seq(Items), a # <<>>, NEW k
    PROVE  UsesInItems(a, k) = Uses(ItemRefs(Head(a)), k) + UsesInItems(Tail(a), k)
<1>1. Tail(a) \in Seq(Items) /\ Head(a) \in Items
  OBVIOUS
<1>2. Sum(ItemWeights(k), a) = ItemWeights(k)[Head(a)] + Sum(ItemWeights(k), Tail(a))
  BY UsesInItemsIsSum, SumOfTail
<1> QED
  BY <1>1, <1>2, UsesInItemsIsSum DEF ItemWeights

LEMMA UsesInItem ==
    ASSUME NEW a \in Seq(Items), NEW i \in DOMAIN a, NEW k
    PROVE  Uses(ItemRefs(a[i]), k) <= UsesInItems(a, k)
<1>1. a[i] \in Items
  OBVIOUS
<1>2. ItemWeights(k)[a[i]] <= Sum(ItemWeights(k), a)
  BY UsesInItemsIsSum, SumHasTerms
<1> QED
  BY <1>1, <1>2, UsesInItemsIsSum DEF ItemWeights

QueueWeights(p, k) == [m \in Message |-> Uses(MessageRefs(p, m), k)]

LEMMA UsesInQueueIsSum ==
    ASSUME NEW p \in Krefs, NEW queue \in Seq(Message), NEW k
    PROVE  /\ UsesInQueue(p, queue, k) = Sum(QueueWeights(p, k), queue)
           /\ QueueWeights(p, k) \in [Message -> Nat]
           /\ UsesInQueue(p, queue, k) \in Nat
<1>1. \A i \in DOMAIN queue : queue[i] \in Message
  OBVIOUS
<1>2. [i \in DOMAIN queue |-> Uses(MessageRefs(p, queue[i]), k)]
          = [i \in DOMAIN queue |-> QueueWeights(p, k)[queue[i]]]
  BY <1>1 DEF QueueWeights
<1>3. \A m \in Message : Uses(MessageRefs(p, m), k) \in Nat
  BY MessageRefsType, UsesType
<1>4. QueueWeights(p, k) \in [Message -> Nat]
  BY <1>3 DEF QueueWeights
<1>5. UsesInQueue(p, queue, k) = Sum(QueueWeights(p, k), queue)
  BY <1>2 DEF UsesInQueue, Sum
<1> QED
  BY <1>4, <1>5, SumType

LEMMA UsesInMoreQueue ==
    ASSUME NEW p \in Krefs, NEW queue \in Seq(Message), NEW m \in Message, NEW k
    PROVE  UsesInQueue(p, Append(queue, m), k)
               = UsesInQueue(p, queue, k) + Uses(MessageRefs(p, m), k)
<1>1. Append(queue, m) \in Seq(Message)
  OBVIOUS
<1>2. Sum(QueueWeights(p, k), Append(queue, m))
          = Sum(QueueWeights(p, k), queue) + QueueWeights(p, k)[m]
  BY UsesInQueueIsSum, SumOfAppended
<1> QED
  BY <1>1, <1>2, UsesInQueueIsSum DEF QueueWeights

LEMMA UsesInNoQueue ==
    ASSUME NEW p \in Krefs, NEW k
    PROVE  UsesInQueue(p, <<>>, k) = 0
<1>1. <<>> \in Seq(Message)
  OBVIOUS
<1> QED
  BY <1>1, UsesInQueueIsSum, SumOfNone

(* A message in a queue, and what it names.                                *)
LEMMA UsesInMessage ==
    ASSUME NEW p \in Krefs, NEW queue \in Seq(Message), NEW i \in DOMAIN queue, NEW k
    PROVE  Uses(MessageRefs(p, queue[i]), k) <= UsesInQueue(p, queue, k)
<1>1. queue[i] \in Message
  OBVIOUS
<1>2. QueueWeights(p, k)[queue[i]] <= Sum(QueueWeights(p, k), queue)
  BY UsesInQueueIsSum, SumHasTerms
<1> QED
  BY <1>1, <1>2, UsesInQueueIsSum DEF QueueWeights

(* A promise's share of the references to k.                               *)
Share(promise, p, k) ==
    IF p \in DOMAIN promise THEN UsesInPromise(p, promise[p], k) ELSE 0

OwnRefs(p, row) == IF row.state = "unresolved" THEN <<p>> ELSE row.slots

LEMMA UsesInPromiseType ==
    ASSUME NEW p \in Promises, NEW row \in PromiseRows, NEW k
    PROVE  /\ OwnRefs(p, row) \in Seq(Krefs)
           /\ UsesInPromise(p, row, k)
                  = Uses(OwnRefs(p, row), k) + UsesInQueue(p, row.queue, k)
           /\ Uses(OwnRefs(p, row), k) \in Nat
           /\ UsesInQueue(p, row.queue, k) \in Nat
           /\ UsesInPromise(p, row, k) \in Nat
<1>1. p \in Krefs /\ row.slots \in Seq(Krefs) /\ row.queue \in Seq(Message)
  BY KrefsAre DEF PromiseRows
<1>2. OwnRefs(p, row) \in Seq(Krefs)
  <2>1. <<p>> \in Seq(Krefs)
    BY <1>1
  <2> QED
    BY <1>1, <2>1 DEF OwnRefs
<1>3. UsesInPromise(p, row, k)
          = Uses(OwnRefs(p, row), k) + UsesInQueue(p, row.queue, k)
  BY DEF UsesInPromise, OwnRefs
<1>4. Uses(OwnRefs(p, row), k) \in Nat /\ UsesInQueue(p, row.queue, k) \in Nat
  BY <1>1, <1>2, UsesType, UsesInQueueIsSum
<1> QED
  BY <1>2, <1>3, <1>4

LEMMA ShareType ==
    ASSUME NEW f \in Tables(Promises, PromiseRows), NEW p \in Promises, NEW k
    PROVE  Share(f, p, k) \in Nat
BY TableIs, UsesInPromiseType DEF Share

LEMMA PromiseShares ==
    ASSUME NEW f \in Tables(Promises, PromiseRows), NEW k
    PROVE  LET g == [i \in 1 .. MaxPromises |-> Share(f, MaxObjects + i, k)]
           IN  /\ UsesInPromises(f, k) = Total(g)
               /\ g \in Seq(Nat) /\ Len(g) = MaxPromises
               /\ \A i \in 1 .. MaxPromises : g[i] = Share(f, MaxObjects + i, k)
<1> DEFINE g == [i \in 1 .. MaxPromises |-> Share(f, MaxObjects + i, k)]
<1>1. \A i \in 1 .. MaxPromises : MaxObjects + i \in Promises
  BY BoundsAreNaturals DEF Promises
<1>2. \A i \in 1 .. MaxPromises : Share(f, MaxObjects + i, k) \in Nat
  BY <1>1, ShareType
<1>3. g \in [1 .. MaxPromises -> Nat]
  BY <1>2
<1>4. \A i \in 1 .. MaxPromises : g[i] = Share(f, MaxObjects + i, k)
  OBVIOUS
<1>5. UsesInPromises(f, k) = Total(g)
  BY DEF UsesInPromises, Share
<1> HIDE DEF g
<1>6. g \in Seq(Nat) /\ Len(g) = MaxPromises
  BY <1>3, KrefsAre, SeqDef, LenProperties
<1> QED
  BY <1>4, <1>5, <1>6 DEF g

LEMMA UsesInPromisesType ==
    ASSUME NEW f \in Tables(Promises, PromiseRows), NEW k
    PROVE  UsesInPromises(f, k) \in Nat
BY PromiseShares, TotalType

LEMMA SharesOfOthers ==
    ASSUME NEW f \in Tables(Promises, PromiseRows),
           NEW h \in Tables(Promises, PromiseRows),
           NEW p \in Promises, NEW k,
           \A q \in Promises : q # p => Share(h, q, k) = Share(f, q, k)
    PROVE  UsesInPromises(h, k)
               = UsesInPromises(f, k) - Share(f, p, k) + Share(h, p, k)
<1> DEFINE a == [i \in 1 .. MaxPromises |-> Share(f, MaxObjects + i, k)]
           b == [i \in 1 .. MaxPromises |-> Share(h, MaxObjects + i, k)]
           n == p - MaxObjects
<1>1. /\ n \in 1 .. MaxPromises /\ MaxObjects + n = p
      /\ \A i \in 1 .. MaxPromises : MaxObjects + i \in Promises
      /\ \A i \in 1 .. MaxPromises : i # n => MaxObjects + i # p
  BY BoundsAreNaturals, SMTT(30) DEF Promises
<1> HIDE DEF n
<1>2. /\ UsesInPromises(f, k) = Total(a) /\ a \in Seq(Nat) /\ Len(a) = MaxPromises
      /\ \A i \in 1 .. MaxPromises : a[i] = Share(f, MaxObjects + i, k)
  BY PromiseShares
<1>3. /\ UsesInPromises(h, k) = Total(b) /\ b \in Seq(Nat) /\ Len(b) = MaxPromises
      /\ \A i \in 1 .. MaxPromises : b[i] = Share(h, MaxObjects + i, k)
  BY PromiseShares
<1> HIDE DEF a, b
<1>4. \A i \in 1 .. Len(a) : i # n => b[i] = a[i]
  BY <1>1, <1>2, <1>3
<1>5. Total(b) = Total(a) - a[n] + b[n]
  BY <1>1, <1>2, <1>3, <1>4, TotalOfChanged
<1>6. a[n] = Share(f, p, k) /\ b[n] = Share(h, p, k)
  BY <1>1, <1>2, <1>3
<1> QED
  BY <1>2, <1>3, <1>5, <1>6

LEMMA SharesSame ==
    ASSUME NEW f \in Tables(Promises, PromiseRows),
           NEW h \in Tables(Promises, PromiseRows), NEW k,
           \A q \in Promises : Share(h, q, k) = Share(f, q, k)
    PROVE  UsesInPromises(h, k) = UsesInPromises(f, k)
<1> DEFINE a == [i \in 1 .. MaxPromises |-> Share(f, MaxObjects + i, k)]
           b == [i \in 1 .. MaxPromises |-> Share(h, MaxObjects + i, k)]
<1>1. \A i \in 1 .. MaxPromises : MaxObjects + i \in Promises
  BY BoundsAreNaturals DEF Promises
<1>2. a = b
  BY <1>1
<1>3. UsesInPromises(f, k) = Total(a) /\ UsesInPromises(h, k) = Total(b)
  BY PromiseShares
<1> HIDE DEF a, b
<1> QED
  BY <1>2, <1>3

LEMMA ShareIsPart ==
    ASSUME NEW f \in Tables(Promises, PromiseRows), NEW p \in Promises, NEW k
    PROVE  Share(f, p, k) <= UsesInPromises(f, k)
<1> DEFINE a == [i \in 1 .. MaxPromises |-> Share(f, MaxObjects + i, k)]
           n == p - MaxObjects
<1>1. n \in 1 .. MaxPromises /\ MaxObjects + n = p
  BY BoundsAreNaturals DEF Promises
<1> HIDE DEF n
<1>2. /\ UsesInPromises(f, k) = Total(a) /\ a \in Seq(Nat) /\ Len(a) = MaxPromises
      /\ \A i \in 1 .. MaxPromises : a[i] = Share(f, MaxObjects + i, k)
  BY PromiseShares
<1> HIDE DEF a
<1>3. a[n] <= Total(a)
  BY <1>1, <1>2, TotalHasTerms
<1> QED
  BY <1>1, <1>2, <1>3

LEMMA HeldType ==
    ASSUME NEW s \in Stores, NEW k \in Krefs
    PROVE  /\ UsesInItems(s.run, k) \in Nat
           /\ UsesInItems(s.buffer, k) \in Nat
           /\ UsesInPromises(s.promise, k) \in Nat
           /\ (IF IsPromise(k) THEN 0 ELSE s.pins[k]) \in Nat
           /\ Held(s, k) \in Nat
<1>1. /\ s.run \in Seq(Items) /\ s.buffer \in Seq(Items)
      /\ s.promise \in Tables(Promises, PromiseRows) /\ s.pins \in [Objects -> Nat]
  BY DEF Stores
<1>2. (IF IsPromise(k) THEN 0 ELSE s.pins[k]) \in Nat
  BY <1>1, KrefsAre
<1>3. UsesInItems(s.run, k) \in Nat /\ UsesInItems(s.buffer, k) \in Nat
  BY <1>1, UsesInItemsType
<1>4. UsesInPromises(s.promise, k) \in Nat
  BY <1>1, UsesInPromisesType
<1> QED
  BY <1>2, <1>3, <1>4 DEF Held

(* The vats whose entry counts as a reference, or as one that reaches; R   *)
(* holds what vats are about to let go of.                                 *)
Weighs(s, v, k, how, R) ==
    /\ Has(s, v, k)
    /\ \/ IsPromise(k)
       \/ /\ s.clist[v][k].dir = "import" /\ ~Retiring(s, v, k)
          /\ <<v, k>> \notin R /\ (how = "reach" => s.clist[v][k].reach)

Entered(s, k, how, R) == Cardinality({v \in Vats : Weighs(s, v, k, how, R)})

LEMMA EnteredIsEntries ==
    ASSUME NEW s, NEW k, NEW how
    PROVE  Entered(s, k, how, {}) = Entries(s, k, how)
<1>1. {v \in Vats : Weighs(s, v, k, how, {})} = {v \in Vats :
        /\ Has(s, v, k)
        /\ \/ IsPromise(k)
           \/ /\ s.clist[v][k].dir = "import" /\ ~Retiring(s, v, k)
              /\ how = "reach" => s.clist[v][k].reach}
  BY DEF Weighs
<1> QED
  BY <1>1 DEF Entered, Entries

LEMMA SomeVats ==
    ASSUME NEW S \in SUBSET Vats
    PROVE  IsFiniteSet(S) /\ Cardinality(S) \in Nat
BY SomePositions, KrefsAre DEF Vats

LEMMA EnteredType ==
    ASSUME NEW s, NEW k, NEW how, NEW R
    PROVE  Entered(s, k, how, R) \in Nat
BY SomeVats DEF Entered

LEMMA EnteredSame ==
    ASSUME NEW s, NEW t, NEW k, NEW how, NEW R, NEW Q,
           \A v \in Vats : Weighs(s, v, k, how, R) <=> Weighs(t, v, k, how, Q)
    PROVE  Entered(t, k, how, Q) = Entered(s, k, how, R)
<1>1. {v \in Vats : Weighs(s, v, k, how, R)}
          = {v \in Vats : Weighs(t, v, k, how, Q)}
  OBVIOUS
<1> QED
  BY <1>1 DEF Entered

LEMMA EnteredMore ==
    ASSUME NEW s, NEW t, NEW k, NEW how, NEW R, NEW v \in Vats,
           ~Weighs(s, v, k, how, R), Weighs(t, v, k, how, R),
           \A w \in Vats : w # v =>
               (Weighs(s, w, k, how, R) <=> Weighs(t, w, k, how, R))
    PROVE  Entered(t, k, how, R) = Entered(s, k, how, R) + 1
<1> DEFINE A == {w \in Vats : Weighs(s, w, k, how, R)}
           B == {w \in Vats : Weighs(t, w, k, how, R)}
<1>1. B = A \cup {v} /\ v \notin A /\ A \in SUBSET Vats
  OBVIOUS
<1>2. IsFiniteSet(A) /\ Cardinality(A) \in Nat
  BY <1>1, SomeVats
<1> HIDE DEF A, B
<1>3. Cardinality(B) = Cardinality(A) + 1
  BY <1>1, <1>2, FS_AddElement
<1> QED
  BY <1>3 DEF Entered, A, B

LEMMA EnteredSome ==
    ASSUME NEW s, NEW k, NEW how, NEW R, NEW v \in Vats,
           Weighs(s, v, k, how, R)
    PROVE  Entered(s, k, how, R) >= 1
<1> DEFINE A == {w \in Vats : Weighs(s, w, k, how, R)}
<1>1. v \in A /\ A \in SUBSET Vats
  OBVIOUS
<1>2. IsFiniteSet(A) /\ Cardinality(A) \in Nat
  BY <1>1, SomeVats
<1> HIDE DEF A
<1>3. Cardinality(A) # 0
  BY <1>1, <1>2, FS_EmptySet
<1> QED
  BY <1>2, <1>3 DEF Entered, A

LEMMA EnteredNone ==
    ASSUME NEW s, NEW k, NEW how, NEW R,
           \A v \in Vats : ~Weighs(s, v, k, how, R)
    PROVE  Entered(s, k, how, R) = 0
<1>1. {v \in Vats : Weighs(s, v, k, how, R)} = {}
  OBVIOUS
<1> QED
  BY <1>1, FS_EmptySet DEF Entered

(* An entry that reaches is an entry.                                      *)
LEMMA ReachersAreEntered ==
    ASSUME NEW s, NEW k, NEW R
    PROVE  Entered(s, k, "reach", R) <= Entered(s, k, "recog", R)
<1> DEFINE A == {v \in Vats : Weighs(s, v, k, "reach", R)}
           B == {v \in Vats : Weighs(s, v, k, "recog", R)}
<1>1. A \subseteq B /\ B \in SUBSET Vats
  BY DEF Weighs
<1>2. IsFiniteSet(B)
  BY <1>1, SomeVats
<1> HIDE DEF A, B
<1>3. Cardinality(A) <= Cardinality(B)
  BY <1>1, <1>2, FS_Subset
<1> QED
  BY <1>3 DEF Entered, A, B

-----------------------------------------------------------------------------
(* What a store keeps, whatever has been done to it: "E" counts, for each  *)
(* kref, the references that are out of the store.                         *)

Reached(s, k) == IF IsPromise(k) THEN s.promise[k].refs ELSE s.object[k].reach
Recognized(s, k) == IF IsPromise(k) THEN s.promise[k].refs ELSE s.object[k].recog

Balanced(s, E, R) ==
    \A k \in Krefs :
        IF Exists(s, k)
        THEN /\ Reached(s, k) = Held(s, k) + E[k] + Entered(s, k, "reach", R)
             /\ Recognized(s, k) = Held(s, k) + E[k] + Entered(s, k, "recog", R)
        ELSE Held(s, k) + E[k] + Entered(s, k, "recog", R) = 0

Hands == [Krefs -> Int]

(* Numbers are given out in order.                                         *)
Fresh(s) ==
    /\ \A k \in DOMAIN s.object : k < s.nextObject
    /\ \A p \in DOMAIN s.promise : p < s.nextPromise
    /\ MaxObjects < s.nextPromise

ExportsOwned(s) ==
    \A v \in Vats, k \in Objects :
        Has(s, v, k) /\ s.clist[v][k].dir = "export" <=>
            k \in DOMAIN s.object /\ s.object[k].owner = v

(* Only a weak import outlives its object.                                 *)
FlagsReach(s) ==
    \A v \in Vats, k \in Objects :
        Has(s, v, k) /\ s.clist[v][k].reach => k \in DOMAIN s.object

(* What a vat has been asked to retire is gone for good.                   *)
RetiredIsGone(s, R) ==
    \A v \in Vats, k \in Objects :
        Retiring(s, v, k) \/ <<v, k>> \in R =>
            k \notin DOMAIN s.object /\ k < s.nextObject

(* A vat that is neither configured nor being cleaned up has no c-list.    *)
DeadAreEmpty(s) ==
    \A v \in Vats : v \in s.configured \/ IsTerminated(s, v) \/ DOMAIN s.clist[v] = {}

Sound(s, E, R) ==
    /\ s \in Stores /\ s.failed = FALSE
    /\ Fresh(s) /\ ExportsOwned(s) /\ FlagsReach(s) /\ RetiredIsGone(s, R)
    /\ DeadAreEmpty(s) /\ Balanced(s, E, R)

(* The fields that few operations touch.                                   *)
Frame(s, t) ==
    /\ t.pins = s.pins /\ t.run = s.run /\ t.buffer = s.buffer
    /\ t.reaps = s.reaps /\ t.actions = s.actions
    /\ t.terminated = s.terminated /\ t.configured = s.configured
    /\ t.nextObject = s.nextObject /\ t.nextPromise = s.nextPromise

(* A promise as all but its count and its decider have it.                 *)
SameRows(f, h) ==
    /\ DOMAIN h = DOMAIN f
    /\ \A p \in DOMAIN f : /\ h[p].state = f[p].state /\ h[p].slots = f[p].slots
                           /\ h[p].queue = f[p].queue

(* A step that changes counts and notes candidates.                        *)
Recount(s, t) ==
    /\ t \in Stores /\ Frame(s, t)
    /\ t.clist = s.clist /\ t.failed = s.failed
    /\ DOMAIN t.object = DOMAIN s.object
    /\ \A k \in DOMAIN s.object : t.object[k].owner = s.object[k].owner
    /\ SameRows(s.promise, t.promise)
    /\ \A p \in DOMAIN s.promise :
          /\ t.promise[p].decider = s.promise[p].decider
          /\ t.promise[p].subscribers = s.promise[p].subscribers

LEMMA SameRowsShares ==
    ASSUME NEW f \in Tables(Promises, PromiseRows),
           NEW h \in Tables(Promises, PromiseRows), SameRows(f, h), NEW k
    PROVE  UsesInPromises(h, k) = UsesInPromises(f, k)
<1>1. \A q \in Promises : Share(h, q, k) = Share(f, q, k)
  BY DEF Share, SameRows, UsesInPromise
<1> QED
  BY <1>1, SharesSame

LEMMA RecountKeeps ==
    ASSUME NEW s \in Stores, NEW t, Recount(s, t), NEW R
    PROVE  /\ \A k \in Krefs : Held(t, k) = Held(s, k)
           /\ \A k, how : Entered(t, k, how, R) = Entered(s, k, how, R)
           /\ \A k : Exists(t, k) <=> Exists(s, k)
           /\ Fresh(s) => Fresh(t)
           /\ ExportsOwned(s) => ExportsOwned(t)
           /\ FlagsReach(s) => FlagsReach(t)
           /\ RetiredIsGone(s, R) => RetiredIsGone(t, R)
           /\ DeadAreEmpty(s) => DeadAreEmpty(t)
<1>1. /\ t \in Stores /\ Frame(s, t) /\ t.clist = s.clist
      /\ DOMAIN t.object = DOMAIN s.object
      /\ \A k \in DOMAIN s.object : t.object[k].owner = s.object[k].owner
      /\ SameRows(s.promise, t.promise) /\ DOMAIN t.promise = DOMAIN s.promise
  BY DEF Recount, SameRows
<1>2. ASSUME NEW k \in Krefs PROVE Held(t, k) = Held(s, k)
  <2>1. UsesInPromises(t.promise, k) = UsesInPromises(s.promise, k)
    BY <1>1, SameRowsShares DEF Stores
  <2> QED
    BY <1>1, <2>1 DEF Held, Frame
<1>3. ASSUME NEW k, NEW how
      PROVE  Entered(t, k, how, R) = Entered(s, k, how, R)
  <2>1. \A v \in Vats : Weighs(s, v, k, how, R) <=> Weighs(t, v, k, how, R)
    BY <1>1 DEF Weighs, Has, Retiring, Frame
  <2> QED
    BY <2>1, EnteredSame
<1>4. \A k : Exists(t, k) <=> Exists(s, k)
  BY <1>1 DEF Exists
<1>5. Fresh(s) => Fresh(t)
  BY <1>1 DEF Fresh, Frame
<1>6. ExportsOwned(s) => ExportsOwned(t)
  BY <1>1 DEF ExportsOwned, Has
<1>7. FlagsReach(s) => FlagsReach(t)
  BY <1>1 DEF FlagsReach, Has
<1>8. RetiredIsGone(s, R) => RetiredIsGone(t, R)
  BY <1>1 DEF RetiredIsGone, Retiring, Frame
<1>9. DeadAreEmpty(s) => DeadAreEmpty(t)
  BY <1>1 DEF DeadAreEmpty, IsTerminated, Frame
<1> QED
  BY <1>2, <1>3, <1>4, <1>5, <1>6, <1>7, <1>8, <1>9

(* A store balances again when every count has followed its holders.       *)
Follows(s, E, R, t, F, Q, k) ==
    /\ Exists(t, k) <=> Exists(s, k)
    /\ IF Exists(s, k)
       THEN /\ Reached(t, k) - Reached(s, k) = Held(t, k) - Held(s, k) + F[k] - E[k]
                   + Entered(t, k, "reach", Q) - Entered(s, k, "reach", R)
            /\ Recognized(t, k) - Recognized(s, k) = Held(t, k) - Held(s, k) + F[k] - E[k]
                   + Entered(t, k, "recog", Q) - Entered(s, k, "recog", R)
       ELSE Held(t, k) + F[k] + Entered(t, k, "recog", Q)
                = Held(s, k) + E[k] + Entered(s, k, "recog", R)

LEMMA CountsType ==
    ASSUME NEW s \in Stores, NEW k \in Krefs, Exists(s, k)
    PROVE  Reached(s, k) \in Nat /\ Recognized(s, k) \in Nat
<1>1. CASE IsPromise(k)
  <2>1. k \in DOMAIN s.promise
    BY <1>1, StoreIs, KrefsAre DEF Exists
  <2>2. s.promise[k].refs \in Nat
    BY <2>1, StoreIs DEF PromiseRows
  <2> QED
    BY <1>1, <2>2 DEF Reached, Recognized
<1>2. CASE ~IsPromise(k)
  <2>1. k \in DOMAIN s.object
    BY <1>2, StoreIs, KrefsAre DEF Exists
  <2>2. s.object[k].reach \in Nat /\ s.object[k].recog \in Nat
    BY <2>1, StoreIs DEF ObjectRows
  <2> QED
    BY <1>2, <2>2 DEF Reached, Recognized
<1> QED
  BY <1>1, <1>2

LEMMA BalanceFollows ==
    ASSUME NEW s \in Stores, NEW E \in Hands, NEW R, Balanced(s, E, R),
           NEW t \in Stores, NEW F \in Hands, NEW Q,
           \A k \in Krefs : Follows(s, E, R, t, F, Q, k)
    PROVE  Balanced(t, F, Q)
<1> SUFFICES ASSUME NEW k \in Krefs
             PROVE  IF Exists(t, k)
                THEN /\ Reached(t, k) = Held(t, k) + F[k] + Entered(t, k, "reach", Q)
                     /\ Recognized(t, k) = Held(t, k) + F[k] + Entered(t, k, "recog", Q)
                ELSE Held(t, k) + F[k] + Entered(t, k, "recog", Q) = 0
  BY DEF Balanced
<1> DEFINE a == Held(s, k)
           b == Held(t, k)
           e == E[k]
           f == F[k]
           c == Entered(s, k, "reach", R)
           d == Entered(t, k, "reach", Q)
           g == Entered(s, k, "recog", R)
           h == Entered(t, k, "recog", Q)
           m == Reached(s, k)
           n == Reached(t, k)
           i == Recognized(s, k)
           j == Recognized(t, k)
<1>1. /\ a \in Nat /\ b \in Nat /\ e \in Int /\ f \in Int
      /\ c \in Nat /\ d \in Nat /\ g \in Nat /\ h \in Nat
  BY HeldType, EnteredType DEF Hands
<1>2. CASE Exists(s, k)
  <2>1. Exists(t, k) /\ m \in Nat /\ n \in Nat /\ i \in Nat /\ j \in Nat
    BY <1>2, CountsType DEF Follows
  <2>2. /\ n - m = b - a + f - e + d - c /\ j - i = b - a + f - e + h - g
        /\ m = a + e + c /\ i = a + e + g
    BY <1>2 DEF Follows, Balanced
  <2> HIDE DEF a, b, c, d, e, f, g, h, i, j, m, n
  <2>3. n = b + f + d /\ j = b + f + h
    BY <1>1, <2>1, <2>2
  <2> QED
    BY <2>1, <2>3 DEF b, d, f, h, j, n
<1>3. CASE ~Exists(s, k)
  <2>1. ~Exists(t, k) /\ b + f + h = a + e + g /\ a + e + g = 0
    BY <1>3 DEF Follows, Balanced
  <2> QED
    BY <2>1
<1> QED
  BY <1>2, <1>3

(* Recounting what went out of the store, or came back to it.              *)
LEMMA RecountIsSound ==
    ASSUME NEW E \in Hands, NEW F \in Hands, NEW R, NEW s, Sound(s, E, R),
           NEW t, Recount(s, t),
           \A k \in Krefs : IF Exists(s, k)
               THEN /\ Reached(t, k) = Reached(s, k) + F[k] - E[k]
                    /\ Recognized(t, k) = Recognized(s, k) + F[k] - E[k]
               ELSE F[k] = E[k]
    PROVE  Sound(t, F, R)
<1>1. s \in Stores /\ t \in Stores /\ s.failed = FALSE /\ Balanced(s, E, R)
  BY DEF Sound, Recount
<1>2. /\ \A k \in Krefs : Held(t, k) = Held(s, k)
      /\ \A k, how : Entered(t, k, how, R) = Entered(s, k, how, R)
      /\ \A k : Exists(t, k) <=> Exists(s, k)
      /\ Fresh(t) /\ ExportsOwned(t) /\ FlagsReach(t) /\ RetiredIsGone(t, R)
      /\ DeadAreEmpty(t)
  BY <1>1, RecountKeeps DEF Sound
<1>3. ASSUME NEW k \in Krefs PROVE Follows(s, E, R, t, F, R, k)
  <2> DEFINE h == Held(s, k)
             a == Entered(s, k, "reach", R)
             b == Entered(s, k, "recog", R)
             e == E[k]
             f == F[k]
             m == Reached(s, k)
             i == Recognized(s, k)
  <2>1. h \in Nat /\ a \in Nat /\ b \in Nat /\ e \in Int /\ f \in Int
    BY <1>1, HeldType, EnteredType DEF Hands
  <2>2. /\ Held(t, k) = h /\ Entered(t, k, "reach", R) = a /\ Entered(t, k, "recog", R) = b
        /\ Exists(t, k) <=> Exists(s, k)
    BY <1>2
  <2>3. CASE Exists(s, k)
    <3>1. Reached(t, k) = m + f - e /\ Recognized(t, k) = i + f - e
          /\ m \in Nat /\ i \in Nat
      BY <1>1, <2>3, CountsType
    <3> HIDE DEF h, a, b, e, f, m, i
    <3>2. (m + f - e) - m = h - h + f - e + a - a /\ (i + f - e) - i = h - h + f - e + b - b
      BY <2>1, <3>1
    <3> QED
      BY <2>2, <2>3, <3>1, <3>2 DEF Follows, h, a, b, e, f, m, i
  <2>4. CASE ~Exists(s, k)
    BY <2>2, <2>4 DEF Follows
  <2> QED
    BY <2>3, <2>4
<1>4. Balanced(t, F, R)
  BY <1>1, <1>3, BalanceFollows
<1> QED
  BY <1>1, <1>2, <1>4 DEF Sound, Recount

-----------------------------------------------------------------------------
(* The primitives: noting a candidate, setting counts, charging, releasing. *)

LEMMA StoreFields ==
    ASSUME NEW s \in Stores
    PROVE  /\ s.object \in Tables(Objects, ObjectRows)
           /\ s.promise \in Tables(Promises, PromiseRows)
           /\ s.clist \in [Vats -> Tables(Krefs, CListEntries)]
           /\ s.pins \in [Objects -> Nat]
           /\ s.run \in Seq(Items) /\ s.buffer \in Seq(Items)
           /\ s.reaps \in Seq(Vats) /\ s.free \in Seq(Krefs)
           /\ s.actions \in SUBSET [vat : Vats, type : GCKinds, kref : Objects]
           /\ s.terminated \in Seq(Vats) /\ s.configured \in SUBSET Vats
           /\ s.nextObject \in Nat /\ s.nextPromise \in Nat
           /\ s.failed \in BOOLEAN
BY DEF Stores

LEMMA StoreChanges ==
    ASSUME NEW s \in Stores
    PROVE  /\ \A o \in Tables(Objects, ObjectRows) : [s EXCEPT !.object = o] \in Stores
           /\ \A f \in Tables(Promises, PromiseRows) : [s EXCEPT !.promise = f] \in Stores
           /\ \A c \in [Vats -> Tables(Krefs, CListEntries)] : [s EXCEPT !.clist = c] \in Stores
           /\ \A x \in [Objects -> Nat] : [s EXCEPT !.pins = x] \in Stores
           /\ \A x \in Seq(Items) : [s EXCEPT !.run = x] \in Stores
           /\ \A x \in Seq(Items) : [s EXCEPT !.buffer = x] \in Stores
           /\ \A x \in Seq(Krefs) : [s EXCEPT !.free = x] \in Stores
           /\ \A x \in Seq(Vats) : [s EXCEPT !.reaps = x] \in Stores
           /\ \A x \in Seq(Vats) : [s EXCEPT !.terminated = x] \in Stores
           /\ \A x \in SUBSET Vats : [s EXCEPT !.configured = x] \in Stores
           /\ \A x \in SUBSET [vat : Vats, type : GCKinds, kref : Objects] :
                 [s EXCEPT !.actions = x] \in Stores
           /\ \A x \in Nat : [s EXCEPT !.nextObject = x] \in Stores
           /\ \A x \in Nat : [s EXCEPT !.nextPromise = x] \in Stores
           /\ \A x \in BOOLEAN : [s EXCEPT !.failed = x] \in Stores
BY ZenonT(40) DEF Stores

(* Changes that leave every count alone.                                   *)
SameCounts(s, t) == t.object = s.object /\ t.promise = s.promise

LEMMA RecountSelf ==
    ASSUME NEW s \in Stores
    PROVE  Recount(s, s)
BY DEF Recount, Frame, SameRows

LEMMA RecountJoins ==
    ASSUME NEW s, NEW t, NEW u, Recount(s, t), Recount(t, u)
    PROVE  Recount(s, u)
<1>1. Frame(s, u)
  BY DEF Recount, Frame
<1>2. SameRows(s.promise, u.promise)
  BY DEF Recount, SameRows
<1> QED
  BY <1>1, <1>2 DEF Recount, SameRows

LEMMA CandidateIs ==
    ASSUME NEW s \in Stores, NEW k \in Krefs
    PROVE  Recount(s, Candidate(s, k)) /\ SameCounts(s, Candidate(s, k))
<1>1. CASE Contains(s.free, k)
  BY <1>1, RecountSelf DEF Candidate, SameCounts
<1>2. CASE ~Contains(s.free, k)
  <2> DEFINE t == [s EXCEPT !.free = Append(s.free, k)]
  <2>1. Candidate(s, k) = t
    BY <1>2 DEF Candidate
  <2>2. Append(s.free, k) \in Seq(Krefs)
    BY StoreFields
  <2>3. t \in Stores
    BY <2>2, StoreChanges
  <2>4. Recount(s, t)
    BY <2>3 DEF Recount, Frame, SameRows, Stores
  <2>5. SameCounts(s, t)
    BY DEF SameCounts, Stores
  <2> QED
    BY <2>1, <2>4, <2>5
<1> QED
  BY <1>1, <1>2

(* Setting the counts of an object.                                        *)
CountsSet(s, t, k, reach, recog) ==
    /\ t.object[k].reach = reach /\ t.object[k].recog = recog
    /\ \A x \in DOMAIN s.object : x # k => t.object[x] = s.object[x]
    /\ t.promise = s.promise

LEMMA SetCountsIs ==
    ASSUME NEW s \in Stores, NEW k \in DOMAIN s.object, NEW reach \in Nat, NEW recog \in Nat,
           reach <= recog
    PROVE  /\ Recount(s, SetCounts(s, k, reach, recog))
           /\ CountsSet(s, SetCounts(s, k, reach, recog), k, reach, recog)
<1> DEFINE row == [s.object[k] EXCEPT !.reach = reach, !.recog = recog]
           o == [s.object EXCEPT ![k] = row]
           t == [s EXCEPT !.object = o]
<1>1. s.object[k] \in ObjectRows /\ k \in Objects
  BY StoreIs
<1>2. /\ row \in ObjectRows /\ row.owner = s.object[k].owner
      /\ row.reach = reach /\ row.recog = recog
  BY <1>1 DEF ObjectRows
<1>3. SetCounts(s, k, reach, recog) = t
  BY DEF SetCounts
<1> HIDE DEF row
<1>4. o \in Tables(Objects, ObjectRows)
  BY <1>1, <1>2, StoreFields, TableChanges
<1>5. DOMAIN o = DOMAIN s.object /\ o[k] = row /\ \A x \in DOMAIN s.object : x # k => o[x] = s.object[x]
  OBVIOUS
<1> HIDE DEF o
<1>6. t \in Stores
  BY <1>4, StoreChanges
<1>7. t.object = o /\ t.promise = s.promise /\ t.clist = s.clist /\ t.failed = s.failed /\ Frame(s, t)
  BY DEF Frame, Stores
<1> HIDE DEF t
<1>8. \A x \in DOMAIN s.object : t.object[x].owner = s.object[x].owner
  BY <1>2, <1>5, <1>7
<1>9. Recount(s, t)
  BY <1>5, <1>6, <1>7, <1>8 DEF Recount, SameRows
<1>10. CountsSet(s, t, k, reach, recog)
  BY <1>2, <1>5, <1>7 DEF CountsSet
<1> QED
  BY <1>3, <1>9, <1>10

LEMMA PromiseCountIs ==
    ASSUME NEW s \in Stores, NEW k \in DOMAIN s.promise, NEW n \in Nat,
           NEW t, t = [s EXCEPT !.promise[k].refs = n]
    PROVE  /\ Recount(s, t) /\ t.object = s.object
           /\ t.promise[k].refs = n
           /\ \A x \in DOMAIN s.promise : x # k => t.promise[x] = s.promise[x]
<1> DEFINE row == [s.promise[k] EXCEPT !.refs = n]
           f == [s.promise EXCEPT ![k] = row]
<1>1. s.promise[k] \in PromiseRows /\ k \in Promises
  BY StoreIs
<1>2. /\ row \in PromiseRows /\ row.refs = n
      /\ row.state = s.promise[k].state /\ row.slots = s.promise[k].slots
      /\ row.queue = s.promise[k].queue /\ row.decider = s.promise[k].decider
      /\ row.subscribers = s.promise[k].subscribers
  BY <1>1 DEF PromiseRows
<1>3. t = [s EXCEPT !.promise = f]
  OBVIOUS
<1> HIDE DEF row
<1>4. f \in Tables(Promises, PromiseRows)
  BY <1>1, <1>2, StoreFields, TableChanges
<1>5. DOMAIN f = DOMAIN s.promise /\ f[k] = row /\ \A x \in DOMAIN s.promise : x # k => f[x] = s.promise[x]
  OBVIOUS
<1> HIDE DEF f
<1>6. t \in Stores
  BY <1>3, <1>4, StoreChanges
<1>7. t.object = s.object /\ t.promise = f /\ t.clist = s.clist /\ t.failed = s.failed /\ Frame(s, t)
  BY <1>3 DEF Frame, Stores
<1>8. SameRows(s.promise, t.promise)
  BY <1>2, <1>5, <1>7 DEF SameRows
<1>9. \A p \in DOMAIN s.promise : /\ t.promise[p].decider = s.promise[p].decider
                                  /\ t.promise[p].subscribers = s.promise[p].subscribers
  BY <1>2, <1>5, <1>7
<1>10. Recount(s, t)
  BY <1>6, <1>7, <1>8, <1>9 DEF Recount
<1> QED
  BY <1>2, <1>5, <1>7, <1>10

(* Both counts of k have moved by d, and no other count.                   *)
Moves(s, t, k, d) ==
    /\ Recount(s, t)
    /\ \A x \in Krefs : Exists(s, x) =>
          /\ Reached(t, x) = Reached(s, x) + (IF x = k THEN d ELSE 0)
          /\ Recognized(t, x) = Recognized(s, x) + (IF x = k THEN d ELSE 0)

Shifts(E, F, k, d) ==
    /\ E \in Hands /\ F \in Hands
    /\ \A x \in Krefs : F[x] = E[x] + (IF x = k THEN d ELSE 0)

LEMMA MovesIsSound ==
    ASSUME NEW R, NEW k \in Krefs, NEW d \in Int, NEW E, NEW F, Shifts(E, F, k, d),
           NEW s, Sound(s, E, R), Exists(s, k), NEW t, Moves(s, t, k, d)
    PROVE  Sound(t, F, R)
<1>1. E \in Hands /\ F \in Hands /\ s \in Stores /\ Recount(s, t)
  BY DEF Shifts, Moves, Sound
<1>2. ASSUME NEW x \in Krefs
      PROVE  IF Exists(s, x)
             THEN /\ Reached(t, x) = Reached(s, x) + F[x] - E[x]
                  /\ Recognized(t, x) = Recognized(s, x) + F[x] - E[x]
             ELSE F[x] = E[x]
  <2> DEFINE e == E[x]
             f == F[x]
             m == Reached(s, x)
             i == Recognized(s, x)
  <2>1. e \in Int /\ f = e + (IF x = k THEN d ELSE 0)
    BY <1>1 DEF Hands, Shifts
  <2>2. CASE Exists(s, x)
    <3>1. /\ m \in Nat /\ i \in Nat
          /\ Reached(t, x) = m + (IF x = k THEN d ELSE 0)
          /\ Recognized(t, x) = i + (IF x = k THEN d ELSE 0)
      BY <1>1, <2>2, CountsType DEF Moves
    <3> HIDE DEF e, f, m, i
    <3>2. Reached(t, x) = m + f - e /\ Recognized(t, x) = i + f - e
      BY <2>1, <3>1
    <3> QED
      BY <2>2, <3>2 DEF m, i, e, f
  <2>3. CASE ~Exists(s, x)
    BY <2>1, <2>3
  <2> QED
    BY <2>2, <2>3
<1> QED
  BY <1>1, <1>2, RecountIsSound

(* A kref that something holds exists, and both its counts say so.         *)
LEMMA HeldExists ==
    ASSUME NEW E \in Hands, NEW R, NEW s, Sound(s, E, R), NEW k \in Krefs,
           Held(s, k) + E[k] >= 1
    PROVE  /\ Exists(s, k) /\ Reached(s, k) >= 1 /\ Recognized(s, k) >= 1
<1>1. s \in Stores /\ Balanced(s, E, R)
  BY DEF Sound
<1> DEFINE h == Held(s, k)
           e == E[k]
           a == Entered(s, k, "reach", R)
           b == Entered(s, k, "recog", R)
<1>2. h \in Nat /\ e \in Int /\ a \in Nat /\ b \in Nat
  BY <1>1, HeldType, EnteredType DEF Hands
<1>3. IF Exists(s, k) THEN Reached(s, k) = h + e + a /\ Recognized(s, k) = h + e + b
      ELSE h + e + b = 0
  BY <1>1 DEF Balanced
<1>4. h + e >= 1
  OBVIOUS
<1> HIDE DEF h, e, a, b
<1> QED
  BY <1>2, <1>3, <1>4

LEMMA CountsOrdered ==
    ASSUME NEW E \in Hands, NEW R, NEW s, Sound(s, E, R), NEW k \in Krefs, Exists(s, k)
    PROVE  /\ Reached(s, k) <= Recognized(s, k)
           /\ Reached(s, k) \in Nat /\ Recognized(s, k) \in Nat
<1>1. s \in Stores /\ Balanced(s, E, R)
  BY DEF Sound
<1> DEFINE h == Held(s, k)
           e == E[k]
           a == Entered(s, k, "reach", R)
           b == Entered(s, k, "recog", R)
<1>2. h \in Nat /\ e \in Int /\ a \in Nat /\ b \in Nat /\ a <= b
  BY <1>1, HeldType, EnteredType, ReachersAreEntered DEF Hands
<1>3. Reached(s, k) = h + e + a /\ Recognized(s, k) = h + e + b
  BY <1>1 DEF Balanced
<1> HIDE DEF h, e, a, b
<1>4. Reached(s, k) <= Recognized(s, k)
  BY <1>2, <1>3
<1> QED
  BY <1>1, <1>4, CountsType

(* What exists is a row of the table its kind has.                         *)
LEMMA ExistsIs ==
    ASSUME NEW s \in Stores, NEW k \in Krefs
    PROVE  /\ IsPromise(k) => (Exists(s, k) <=> k \in DOMAIN s.promise)
           /\ ~IsPromise(k) => (Exists(s, k) <=> k \in DOMAIN s.object)
           /\ IsPromise(k) => k \notin DOMAIN s.object
           /\ ~IsPromise(k) => k \notin DOMAIN s.promise
<1>1. DOMAIN s.object \subseteq Objects /\ DOMAIN s.promise \subseteq Promises
  BY StoreIs
<1>2. Objects \cap Promises = {}
  BY BoundsAreNaturals DEF Objects, Promises
<1> QED
  BY <1>1, <1>2, KrefsAre DEF Exists

LEMMA ObjectMoves ==
    ASSUME NEW s \in Stores, NEW k \in DOMAIN s.object, NEW t, NEW d \in Int, Recount(s, t),
           CountsSet(s, t, k, s.object[k].reach + d, s.object[k].recog + d)
    PROVE  Moves(s, t, k, d)
<1>1. k \in Objects /\ ~IsPromise(k) /\ k \notin DOMAIN s.promise
  BY StoreIs, KrefsAre, ExistsIs
<1>2. ASSUME NEW x \in Krefs, Exists(s, x)
      PROVE  /\ Reached(t, x) = Reached(s, x) + (IF x = k THEN d ELSE 0)
             /\ Recognized(t, x) = Recognized(s, x) + (IF x = k THEN d ELSE 0)
  <2>1. Reached(s, x) \in Nat /\ Recognized(s, x) \in Nat
    BY <1>2, CountsType
  <2>2. CASE x = k
    BY <1>1, <2>2 DEF CountsSet, Reached, Recognized
  <2>3. CASE x # k
    <3>1. Reached(t, x) = Reached(s, x) /\ Recognized(t, x) = Recognized(s, x)
      BY <1>2, <2>3, ExistsIs DEF CountsSet, Reached, Recognized
    <3> QED
      BY <2>1, <2>3, <3>1
  <2> QED
    BY <2>2, <2>3
<1> QED
  BY <1>2 DEF Moves

LEMMA PromiseMoves ==
    ASSUME NEW s \in Stores, NEW k \in DOMAIN s.promise, NEW t, NEW d \in Int, Recount(s, t),
           t.object = s.object, t.promise[k].refs = s.promise[k].refs + d,
           \A x \in DOMAIN s.promise : x # k => t.promise[x] = s.promise[x]
    PROVE  Moves(s, t, k, d)
<1>1. k \in Promises /\ IsPromise(k)
  BY StoreIs, KrefsAre
<1>2. ASSUME NEW x \in Krefs, Exists(s, x)
      PROVE  /\ Reached(t, x) = Reached(s, x) + (IF x = k THEN d ELSE 0)
             /\ Recognized(t, x) = Recognized(s, x) + (IF x = k THEN d ELSE 0)
  <2>1. Reached(s, x) \in Nat /\ Recognized(s, x) \in Nat
    BY <1>2, CountsType
  <2>2. CASE x = k
    BY <1>1, <2>2 DEF Reached, Recognized
  <2>3. CASE x # k
    <3>1. Reached(t, x) = Reached(s, x) /\ Recognized(t, x) = Recognized(s, x)
      BY <1>2, <2>3, ExistsIs DEF Reached, Recognized
    <3> QED
      BY <2>1, <2>3, <3>1
  <2> QED
    BY <2>2, <2>3
<1> QED
  BY <1>2 DEF Moves

LEMMA ChargeMoves ==
    ASSUME NEW E \in Hands, NEW R, NEW s, Sound(s, E, R), NEW k \in Krefs, Exists(s, k)
    PROVE  Moves(s, Charge(s, k), k, 1)
<1>1. s \in Stores /\ s.failed = FALSE
  BY DEF Sound
<1>2. CASE IsPromise(k)
  <2>1. k \in DOMAIN s.promise /\ s.promise[k].refs \in Nat
    BY <1>1, <1>2, ExistsIs, StoreIs DEF PromiseRows
  <2> DEFINE t == [s EXCEPT !.promise[k].refs = s.promise[k].refs + 1]
  <2>2. Charge(s, k) = t
    BY <1>1, <1>2 DEF Charge
  <2>3. s.promise[k].refs + 1 \in Nat
    BY <2>1
  <2>4. /\ Recount(s, t) /\ t.object = s.object /\ t.promise[k].refs = s.promise[k].refs + 1
        /\ \A x \in DOMAIN s.promise : x # k => t.promise[x] = s.promise[x]
    BY <1>1, <2>1, <2>3, PromiseCountIs
  <2> HIDE DEF t
  <2> QED
    BY <1>1, <2>1, <2>2, <2>4, PromiseMoves
<1>3. CASE ~IsPromise(k)
  <2>1. k \in DOMAIN s.object /\ s.object[k].reach \in Nat /\ s.object[k].recog \in Nat
    BY <1>1, <1>3, ExistsIs, StoreIs DEF ObjectRows
  <2>2. s.object[k].reach <= s.object[k].recog
    BY <1>3, CountsOrdered DEF Reached, Recognized
  <2>3. Charge(s, k) = SetCounts(s, k, s.object[k].reach + 1, s.object[k].recog + 1)
    BY <1>1, <1>3 DEF Charge
  <2>4. s.object[k].reach + 1 \in Nat /\ s.object[k].recog + 1 \in Nat
        /\ s.object[k].reach + 1 <= s.object[k].recog + 1
    BY <2>1, <2>2
  <2>5. /\ Recount(s, Charge(s, k))
        /\ CountsSet(s, Charge(s, k), k, s.object[k].reach + 1, s.object[k].recog + 1)
    BY <1>1, <2>1, <2>3, <2>4, SetCountsIs
  <2> QED
    BY <1>1, <2>1, <2>5, ObjectMoves
<1> QED
  BY <1>2, <1>3

LEMMA ReleaseMoves ==
    ASSUME NEW E \in Hands, NEW R, NEW s, Sound(s, E, R), NEW k \in Krefs,
           Held(s, k) + E[k] >= 1
    PROVE  Moves(s, Release(s, k), k, -1)
<1>1. s \in Stores /\ s.failed = FALSE /\ Exists(s, k) /\ Reached(s, k) >= 1 /\ Recognized(s, k) >= 1
  BY HeldExists DEF Sound
<1>2. CASE IsPromise(k)
  <2>1. k \in DOMAIN s.promise /\ s.promise[k].refs \in Nat /\ s.promise[k].refs >= 1
    BY <1>1, <1>2, ExistsIs, StoreIs DEF PromiseRows, Reached
  <2> DEFINE n == s.promise[k].refs - 1
             t == [s EXCEPT !.promise[k].refs = n]
             u == IF t.promise[k].refs = 0 THEN Candidate(t, k) ELSE t
  <2>2. Release(s, k) = u
    BY <1>1, <1>2, <2>1 DEF Release, ReleasePromise
  <2>3. n \in Nat
    BY <2>1
  <2>4. /\ Recount(s, t) /\ t.object = s.object /\ t.promise[k].refs = n
        /\ \A x \in DOMAIN s.promise : x # k => t.promise[x] = s.promise[x]
    <3> HIDE DEF n
    <3> QED
      BY <1>1, <2>1, <2>3, PromiseCountIs
  <2> HIDE DEF t
  <2>5. t \in Stores
    BY <2>4 DEF Recount
  <2>6. Recount(t, u) /\ SameCounts(t, u)
    BY <2>5, CandidateIs, RecountSelf DEF SameCounts
  <2> HIDE DEF u
  <2>7. Recount(s, u)
    BY <2>4, <2>6, RecountJoins
  <2>8. u.object = s.object /\ u.promise[k].refs = s.promise[k].refs + (-1)
        /\ \A x \in DOMAIN s.promise : x # k => u.promise[x] = s.promise[x]
    BY <2>1, <2>4, <2>6 DEF SameCounts
  <2> QED
    BY <1>1, <2>1, <2>2, <2>7, <2>8, PromiseMoves
<1>3. CASE ~IsPromise(k)
  <2>1. k \in DOMAIN s.object /\ s.object[k].reach \in Nat /\ s.object[k].recog \in Nat
    BY <1>1, <1>3, ExistsIs, StoreIs DEF ObjectRows
  <2>2. s.object[k].reach <= s.object[k].recog /\ s.object[k].reach >= 1
    BY <1>1, <1>3, CountsOrdered DEF Reached, Recognized
  <2> DEFINE m == s.object[k].reach - 1
             n == s.object[k].recog - 1
             t == IF m = 0 \/ n = 0 THEN Candidate(s, k) ELSE s
             u == SetCounts(t, k, m, n)
  <2>3. Release(s, k) = u
    BY <1>1, <1>3, <2>1 DEF Release, ReleaseObject
  <2>4. m \in Nat /\ n \in Nat /\ m <= n
    BY <2>1, <2>2
  <2>5. Recount(s, t) /\ SameCounts(s, t)
    BY <1>1, CandidateIs, RecountSelf DEF SameCounts
  <2> HIDE DEF t
  <2>6. t \in Stores /\ k \in DOMAIN t.object
    BY <2>1, <2>5 DEF Recount, SameCounts
  <2>7. Recount(t, u) /\ CountsSet(t, u, k, m, n)
    <3> HIDE DEF m, n
    <3> QED
      BY <2>4, <2>6, SetCountsIs
  <2> HIDE DEF u
  <2>8. Recount(s, u)
    BY <2>5, <2>7, RecountJoins
  <2>9. CountsSet(s, u, k, m, n)
    BY <2>5, <2>7 DEF CountsSet, SameCounts
  <2>10. m = s.object[k].reach + (-1) /\ n = s.object[k].recog + (-1)
    BY <2>1
  <2> HIDE DEF m, n
  <2>11. CountsSet(s, u, k, s.object[k].reach + (-1), s.object[k].recog + (-1))
    BY <2>9, <2>10
  <2> QED
    BY <1>1, <2>1, <2>3, <2>8, <2>11, ObjectMoves
<1> QED
  BY <1>2, <1>3

LEMMA ChargeIsSound ==
    ASSUME NEW E, NEW F, NEW k \in Krefs, Shifts(E, F, k, 1),
           NEW R, NEW s, Sound(s, E, R), Exists(s, k)
    PROVE  Recount(s, Charge(s, k)) /\ Sound(Charge(s, k), F, R)
<1>1. E \in Hands
  BY DEF Shifts
<1>2. Moves(s, Charge(s, k), k, 1)
  BY <1>1, ChargeMoves
<1> QED
  BY <1>2, MovesIsSound DEF Moves

LEMMA ReleaseIsSound ==
    ASSUME NEW E, NEW F, NEW k \in Krefs, Shifts(E, F, k, -1),
           NEW R, NEW s, Sound(s, E, R), Held(s, k) + E[k] >= 1
    PROVE  Recount(s, Release(s, k)) /\ Sound(Release(s, k), F, R)
<1>1. E \in Hands
  BY DEF Shifts
<1>2. Moves(s, Release(s, k), k, -1)
  BY <1>1, ReleaseMoves
<1>3. Exists(s, k)
  BY <1>1, HeldExists
<1> QED
  BY <1>2, <1>3, MovesIsSound DEF Moves

(* The stores that charging goes through. *)
ChargeRun(h, s, ks) ==
    /\ h[0] = s /\ h[Len(ks)] = ChargeAll(s, ks)
    /\ \A n \in 1 .. Len(ks) : h[n] = Charge(h[n - 1], ks[n])

LEMMA ChargeRuns ==
    ASSUME NEW s, NEW ks, Len(ks) \in Nat
    PROVE  \E h : ChargeRun(h, s, ks)
<1> DEFINE Solves(h, m) == h = [n \in 0 .. m |-> IF n = 0 THEN s
                                   ELSE Charge(h[n - 1], ks[n])]
           S == {m \in Nat : \E h : Solves(h, m)}
<1>1. 0 \in S
  <2>1. Solves([n \in 0 .. 0 |-> s], 0)
    OBVIOUS
  <2> QED
    BY <2>1
<1>2. ASSUME NEW m \in Nat, m \in S PROVE m + 1 \in S
  <2>1. PICK h : Solves(h, m)
    BY <1>2
  <2> DEFINE x == Charge(h[m], ks[m + 1])
             g == [n \in 0 .. m + 1 |-> IF n = m + 1 THEN x ELSE h[n]]
  <2>2. /\ g[m + 1] = x /\ \A n \in 0 .. m : g[n] = h[n]
        /\ g = [n \in 0 .. m + 1 |-> g[n]]
    OBVIOUS
  <2>3. \A n \in 0 .. m : h[n] = IF n = 0 THEN s ELSE Charge(h[n - 1], ks[n])
    BY <2>1
  <2> HIDE DEF g
  <2>4. ASSUME NEW n \in 0 .. m + 1
        PROVE  g[n] = IF n = 0 THEN s ELSE Charge(g[n - 1], ks[n])
    <3>1. CASE n = m + 1
      <4>1. n - 1 = m /\ g[m] = h[m] /\ n # 0
        BY <2>2, <3>1
      <4> QED
        BY <2>2, <3>1, <4>1
    <3>2. CASE n \in 0 .. m
      <4>1. g[n] = h[n] /\ (n # 0 => g[n - 1] = h[n - 1])
        <5>1. n # 0 => n - 1 \in 0 .. m
          BY <3>2
        <5> QED
          BY <2>2, <3>2, <5>1
      <4> QED
        BY <2>3, <3>2, <4>1
    <3> QED
      BY <3>1, <3>2
  <2>5. Solves(g, m + 1)
    BY <2>2, <2>4
  <2> HIDE DEF Solves
  <2> QED
    BY <2>5
<1>3. Nat \subseteq S
  <2> HIDE DEF S
  <2> QED
    BY <1>1, <1>2, SetInduction
<1> DEFINE h == CHOOSE h : Solves(h, Len(ks))
<1>4. Solves(h, Len(ks))
  <2> HIDE DEF Solves
  <2> QED
    BY <1>3
<1>5. ChargeAll(s, ks) = h[Len(ks)]
  BY DEF ChargeAll, Each
<1> HIDE DEF h
<1>6. \A n \in 0 .. Len(ks) : h[n] = IF n = 0 THEN s ELSE Charge(h[n - 1], ks[n])
  BY <1>4
<1>7. ChargeRun(h, s, ks)
  BY <1>5, <1>6 DEF ChargeRun
<1> QED
  BY <1>7

(* The stores that releasing goes through. *)
ReleaseRun(h, s, ks) ==
    /\ h[0] = s /\ h[Len(ks)] = ReleaseAll(s, ks)
    /\ \A n \in 1 .. Len(ks) : h[n] = Release(h[n - 1], ks[n])

LEMMA ReleaseRuns ==
    ASSUME NEW s, NEW ks, Len(ks) \in Nat
    PROVE  \E h : ReleaseRun(h, s, ks)
<1> DEFINE Solves(h, m) == h = [n \in 0 .. m |-> IF n = 0 THEN s
                                   ELSE Release(h[n - 1], ks[n])]
           S == {m \in Nat : \E h : Solves(h, m)}
<1>1. 0 \in S
  <2>1. Solves([n \in 0 .. 0 |-> s], 0)
    OBVIOUS
  <2> QED
    BY <2>1
<1>2. ASSUME NEW m \in Nat, m \in S PROVE m + 1 \in S
  <2>1. PICK h : Solves(h, m)
    BY <1>2
  <2> DEFINE x == Release(h[m], ks[m + 1])
             g == [n \in 0 .. m + 1 |-> IF n = m + 1 THEN x ELSE h[n]]
  <2>2. /\ g[m + 1] = x /\ \A n \in 0 .. m : g[n] = h[n]
        /\ g = [n \in 0 .. m + 1 |-> g[n]]
    OBVIOUS
  <2>3. \A n \in 0 .. m : h[n] = IF n = 0 THEN s ELSE Release(h[n - 1], ks[n])
    BY <2>1
  <2> HIDE DEF g
  <2>4. ASSUME NEW n \in 0 .. m + 1
        PROVE  g[n] = IF n = 0 THEN s ELSE Release(g[n - 1], ks[n])
    <3>1. CASE n = m + 1
      <4>1. n - 1 = m /\ g[m] = h[m] /\ n # 0
        BY <2>2, <3>1
      <4> QED
        BY <2>2, <3>1, <4>1
    <3>2. CASE n \in 0 .. m
      <4>1. g[n] = h[n] /\ (n # 0 => g[n - 1] = h[n - 1])
        <5>1. n # 0 => n - 1 \in 0 .. m
          BY <3>2
        <5> QED
          BY <2>2, <3>2, <5>1
      <4> QED
        BY <2>3, <3>2, <4>1
    <3> QED
      BY <3>1, <3>2
  <2>5. Solves(g, m + 1)
    BY <2>2, <2>4
  <2> HIDE DEF Solves
  <2> QED
    BY <2>5
<1>3. Nat \subseteq S
  <2> HIDE DEF S
  <2> QED
    BY <1>1, <1>2, SetInduction
<1> DEFINE h == CHOOSE h : Solves(h, Len(ks))
<1>4. Solves(h, Len(ks))
  <2> HIDE DEF Solves
  <2> QED
    BY <1>3
<1>5. ReleaseAll(s, ks) = h[Len(ks)]
  BY DEF ReleaseAll, Each
<1> HIDE DEF h
<1>6. \A n \in 0 .. Len(ks) : h[n] = IF n = 0 THEN s ELSE Release(h[n - 1], ks[n])
  BY <1>4
<1>7. ReleaseRun(h, s, ks)
  BY <1>5, <1>6 DEF ReleaseRun
<1> QED
  BY <1>7

(* The uses in a sequence, element after element.                          *)
LEMMA UsesInPrefix ==
    ASSUME NEW ks \in Seq(Krefs), NEW x
    PROVE  /\ Uses(SubSeq(ks, 1, 0), x) = 0
           /\ Uses(SubSeq(ks, 1, Len(ks)), x) = Uses(ks, x)
           /\ \A n \in 0 .. Len(ks) : /\ Uses(SubSeq(ks, 1, n), x) \in Nat
                                      /\ Uses(SubSeq(ks, 1, n), x) <= Uses(ks, x)
           /\ \A n \in 1 .. Len(ks) :
                 Uses(SubSeq(ks, 1, n), x) = Uses(SubSeq(ks, 1, n - 1), x)
                                                 + (IF x = ks[n] THEN 1 ELSE 0)
<1> DEFINE U(n) == Uses(SubSeq(ks, 1, n), x)
<1>1. Len(ks) \in Nat /\ \A n \in 0 .. Len(ks) : SubSeq(ks, 1, n) \in Seq(Krefs)
  BY SubSeqProperties
<1>2. SubSeq(ks, 1, 0) = <<>> /\ SubSeq(ks, 1, Len(ks)) = ks
  OBVIOUS
<1>3. U(0) = 0 /\ U(Len(ks)) = Uses(ks, x)
  BY <1>2, UsesOfNone
<1>4. ASSUME NEW n \in 1 .. Len(ks)
      PROVE  U(n) = U(n - 1) + (IF x = ks[n] THEN 1 ELSE 0)
  <2>1. SubSeq(ks, 1, n) = Append(SubSeq(ks, 1, n - 1), ks[n])
    <3>1. n - 1 \in 0 .. Len(ks) /\ 1 <= n
      BY <1>1
    <3> QED
      BY <1>1, <3>1
  <2>2. ks[n] \in Krefs /\ SubSeq(ks, 1, n - 1) \in Seq(Krefs)
    BY <1>1
  <2>3. Uses(Append(SubSeq(ks, 1, n - 1), ks[n]), x)
            = Uses(SubSeq(ks, 1, n - 1), x) + (IF ks[n] = x THEN 1 ELSE 0)
    BY <2>2, UsesOfAppended
  <2> QED
    BY <2>1, <2>3
<1>5. \A n \in 0 .. Len(ks) : U(n) \in Nat
  BY <1>1, UsesType
<1>6. \A n \in 0 .. Len(ks) : U(n) <= U(Len(ks))
  <2> DEFINE S == {j \in Nat : j <= Len(ks) => U(Len(ks) - j) <= U(Len(ks))}
  <2>1. 0 \in S
    BY <1>1, <1>5
  <2>2. ASSUME NEW j \in Nat, j \in S PROVE j + 1 \in S
    <3> SUFFICES ASSUME j + 1 <= Len(ks) PROVE U(Len(ks) - (j + 1)) <= U(Len(ks))
      OBVIOUS
    <3> DEFINE n == Len(ks) - j
    <3>1. n \in 1 .. Len(ks) /\ n - 1 = Len(ks) - (j + 1) /\ n \in 0 .. Len(ks) /\ n - 1 \in 0 .. Len(ks)
      BY <1>1
    <3>2. U(n) <= U(Len(ks))
      BY <1>1, <2>2
    <3> HIDE DEF U, n
    <3>3. U(n - 1) <= U(n)
      BY <1>4, <1>5, <3>1, SMTT(30)
    <3>4. U(n - 1) \in Nat /\ U(n) \in Nat /\ U(Len(ks)) \in Nat
      BY <1>1, <1>5, <3>1
    <3> QED
      BY <3>1, <3>2, <3>3, <3>4
  <2>3. Nat \subseteq S
    <3> HIDE DEF S
    <3> QED
      BY <2>1, <2>2, SetInduction
  <2>4. ASSUME NEW n \in 0 .. Len(ks) PROVE U(n) <= U(Len(ks))
    <3>1. Len(ks) - n \in Nat /\ Len(ks) - n <= Len(ks) /\ Len(ks) - (Len(ks) - n) = n
      BY <1>1
    <3>2. Len(ks) - n \in S
      BY <2>3, <3>1
    <3> HIDE DEF U
    <3> QED
      BY <3>1, <3>2
  <2> QED
    BY <2>4
<1> QED
  BY <1>3, <1>4, <1>5, <1>6

LEMMA HandsSame ==
    ASSUME NEW E \in Hands, NEW F \in Hands, \A x \in Krefs : E[x] = F[x]
    PROVE  E = F
BY DEF Hands

(* The hands of a sequence: what they are after n of its references.       *)
Lent(E, ks, n) == [x \in Krefs |-> E[x] + Uses(SubSeq(ks, 1, n), x)]
Returned(E, ks, n) == [x \in Krefs |-> E[x] - Uses(SubSeq(ks, 1, n), x)]

Lends(E, F, ks) ==
    E \in Hands /\ F \in Hands /\ \A x \in Krefs : F[x] = E[x] + Uses(ks, x)

LEMMA LentIs ==
    ASSUME NEW E \in Hands, NEW ks \in Seq(Krefs)
    PROVE  /\ Lent(E, ks, 0) = E
           /\ \A n \in 0 .. Len(ks) : Lent(E, ks, n) \in Hands
           /\ \A n \in 1 .. Len(ks) :
                 Shifts(Lent(E, ks, n - 1), Lent(E, ks, n), ks[n], 1)
           /\ \A F : Lends(E, F, ks) => F = Lent(E, ks, Len(ks))
<1>1. Len(ks) \in Nat
  OBVIOUS
<1>2. ASSUME NEW n \in 0 .. Len(ks) PROVE Lent(E, ks, n) \in Hands
  <2>1. \A x \in Krefs : Uses(SubSeq(ks, 1, n), x) \in Nat /\ E[x] \in Int
    BY UsesInPrefix DEF Hands
  <2> QED
    BY <2>1 DEF Lent, Hands
<1>3. Lent(E, ks, 0) = E
  <2>1. \A x \in Krefs : Lent(E, ks, 0)[x] = E[x]
    <3>1. \A x \in Krefs : Uses(SubSeq(ks, 1, 0), x) = 0 /\ E[x] \in Int
      BY UsesInPrefix DEF Hands
    <3> QED
      BY <3>1 DEF Lent
  <2> QED
    BY <1>1, <1>2, <2>1 DEF Hands
<1>4. ASSUME NEW n \in 1 .. Len(ks)
      PROVE  Shifts(Lent(E, ks, n - 1), Lent(E, ks, n), ks[n], 1)
  <2>1. n \in 0 .. Len(ks) /\ n - 1 \in 0 .. Len(ks)
    BY <1>1
  <2>2. ASSUME NEW x \in Krefs
        PROVE  Lent(E, ks, n)[x] = Lent(E, ks, n - 1)[x] + (IF x = ks[n] THEN 1 ELSE 0)
    <3> DEFINE a == Uses(SubSeq(ks, 1, n), x)
               b == Uses(SubSeq(ks, 1, n - 1), x)
               e == E[x]
    <3>1. a = b + (IF x = ks[n] THEN 1 ELSE 0) /\ b \in Nat /\ e \in Int
      BY <2>1, UsesInPrefix DEF Hands
    <3>2. Lent(E, ks, n)[x] = e + a /\ Lent(E, ks, n - 1)[x] = e + b
      BY DEF Lent
    <3> HIDE DEF a, b, e
    <3> QED
      BY <3>1, <3>2
  <2> QED
    BY <1>2, <2>1, <2>2 DEF Shifts
<1>5. ASSUME NEW F, Lends(E, F, ks) PROVE F = Lent(E, ks, Len(ks))
  <2>1. \A x \in Krefs : F[x] = Lent(E, ks, Len(ks))[x]
    <3>1. \A x \in Krefs : Uses(SubSeq(ks, 1, Len(ks)), x) = Uses(ks, x)
      BY UsesInPrefix
    <3> QED
      BY <1>5, <3>1 DEF Lends, Lent
  <2> QED
    <3>1. F \in Hands /\ Lent(E, ks, Len(ks)) \in Hands
      BY <1>1, <1>2, <1>5 DEF Lends
    <3> QED
      BY <2>1, <3>1, HandsSame
<1> QED
  BY <1>2, <1>3, <1>4, <1>5

LEMMA ReturnedIs ==
    ASSUME NEW E \in Hands, NEW ks \in Seq(Krefs)
    PROVE  /\ Returned(E, ks, 0) = E
           /\ \A n \in 0 .. Len(ks) : Returned(E, ks, n) \in Hands
           /\ \A n \in 1 .. Len(ks) :
                 Shifts(Returned(E, ks, n - 1), Returned(E, ks, n), ks[n], -1)
           /\ \A n \in 1 .. Len(ks) :
                 Returned(E, ks, n - 1)[ks[n]] >= E[ks[n]] - Uses(ks, ks[n]) + 1
           /\ \A F : Lends(F, E, ks) => F = Returned(E, ks, Len(ks))
<1>1. Len(ks) \in Nat
  OBVIOUS
<1>2. ASSUME NEW n \in 0 .. Len(ks) PROVE Returned(E, ks, n) \in Hands
  <2>1. \A x \in Krefs : Uses(SubSeq(ks, 1, n), x) \in Nat /\ E[x] \in Int
    BY UsesInPrefix DEF Hands
  <2> QED
    BY <2>1 DEF Returned, Hands
<1>3. Returned(E, ks, 0) = E
  <2>1. \A x \in Krefs : Returned(E, ks, 0)[x] = E[x]
    <3>1. \A x \in Krefs : Uses(SubSeq(ks, 1, 0), x) = 0 /\ E[x] \in Int
      BY UsesInPrefix DEF Hands
    <3> QED
      BY <3>1 DEF Returned
  <2> QED
    BY <1>1, <1>2, <2>1 DEF Hands
<1>4. ASSUME NEW n \in 1 .. Len(ks)
      PROVE  Shifts(Returned(E, ks, n - 1), Returned(E, ks, n), ks[n], -1)
  <2>1. n \in 0 .. Len(ks) /\ n - 1 \in 0 .. Len(ks)
    BY <1>1
  <2>2. ASSUME NEW x \in Krefs
        PROVE  Returned(E, ks, n)[x] = Returned(E, ks, n - 1)[x] + (IF x = ks[n] THEN -1 ELSE 0)
    <3> DEFINE a == Uses(SubSeq(ks, 1, n), x)
               b == Uses(SubSeq(ks, 1, n - 1), x)
               e == E[x]
    <3>1. a = b + (IF x = ks[n] THEN 1 ELSE 0) /\ b \in Nat /\ e \in Int
      BY <2>1, UsesInPrefix DEF Hands
    <3>2. Returned(E, ks, n)[x] = e - a /\ Returned(E, ks, n - 1)[x] = e - b
      BY DEF Returned
    <3> HIDE DEF a, b, e
    <3> QED
      BY <3>1, <3>2
  <2> QED
    BY <1>2, <2>1, <2>2 DEF Shifts
<1>5. ASSUME NEW n \in 1 .. Len(ks)
      PROVE  Returned(E, ks, n - 1)[ks[n]] >= E[ks[n]] - Uses(ks, ks[n]) + 1
  <2> DEFINE x == ks[n]
             a == Uses(SubSeq(ks, 1, n), x)
             b == Uses(SubSeq(ks, 1, n - 1), x)
             c == Uses(ks, x)
             e == E[x]
  <2>1. n \in 0 .. Len(ks) /\ n - 1 \in 0 .. Len(ks) /\ x \in Krefs
    BY <1>1
  <2>2. a = b + (IF x = ks[n] THEN 1 ELSE 0) /\ a \in Nat /\ b \in Nat /\ a <= c
    BY <2>1, UsesInPrefix
  <2>3. c \in Nat /\ e \in Int
    BY <2>1, UsesType DEF Hands
  <2>4. Returned(E, ks, n - 1)[x] = e - b
    BY <2>1 DEF Returned
  <2>5. a = b + 1
    BY <2>2
  <2> HIDE DEF a, b, c, e
  <2>6. e - b >= e - c + 1
    BY <2>2, <2>3, <2>5
  <2> QED
    BY <2>4, <2>6 DEF c, e
<1>6. ASSUME NEW F, Lends(F, E, ks) PROVE F = Returned(E, ks, Len(ks))
  <2>1. ASSUME NEW x \in Krefs PROVE F[x] = Returned(E, ks, Len(ks))[x]
    <3> DEFINE e == E[x]
               f == F[x]
               c == Uses(ks, x)
    <3>1. Returned(E, ks, Len(ks))[x] = e - c
      BY UsesInPrefix DEF Returned
    <3>2. e = f + c /\ f \in Int /\ c \in Nat
      BY <1>6, UsesType DEF Lends, Hands
    <3> HIDE DEF e, f, c
    <3>3. f = e - c
      BY <3>2
    <3> QED
      BY <3>1, <3>3 DEF f
  <2> QED
    <3>1. F \in Hands /\ Returned(E, ks, Len(ks)) \in Hands
      BY <1>1, <1>2, <1>6 DEF Lends
    <3> QED
      BY <2>1, <3>1, HandsSame
<1> QED
  BY <1>2, <1>3, <1>4, <1>5, <1>6

LEMMA ChargeAllIsSound ==
    ASSUME NEW ks \in Seq(Krefs), NEW E, NEW F, Lends(E, F, ks),
           NEW R, NEW s, Sound(s, E, R), \A i \in DOMAIN ks : Exists(s, ks[i])
    PROVE  Recount(s, ChargeAll(s, ks)) /\ Sound(ChargeAll(s, ks), F, R)
<1>1. E \in Hands /\ Len(ks) \in Nat /\ s \in Stores /\ DOMAIN ks = 1 .. Len(ks)
  BY DEF Lends, Sound
<1>2. PICK h : ChargeRun(h, s, ks)
  BY <1>1, ChargeRuns
<1> DEFINE S == {n \in Nat : n <= Len(ks) => Recount(s, h[n]) /\ Sound(h[n], Lent(E, ks, n), R)}
<1>3. 0 \in S
  BY <1>1, <1>2, LentIs, RecountSelf DEF ChargeRun
<1>4. ASSUME NEW n \in Nat, n \in S PROVE n + 1 \in S
  <2> SUFFICES ASSUME n + 1 <= Len(ks)
               PROVE  Recount(s, h[n + 1]) /\ Sound(h[n + 1], Lent(E, ks, n + 1), R)
    OBVIOUS
  <2>1. Recount(s, h[n]) /\ Sound(h[n], Lent(E, ks, n), R)
    BY <1>1, <1>4
  <2>2. n + 1 \in 1 .. Len(ks) /\ (n + 1) - 1 = n
    BY <1>1
  <2>3. h[n + 1] = Charge(h[n], ks[n + 1])
    BY <1>2, <2>2 DEF ChargeRun
  <2>4. Shifts(Lent(E, ks, n), Lent(E, ks, n + 1), ks[n + 1], 1)
    BY <1>1, <2>2, LentIs
  <2>5. ks[n + 1] \in Krefs /\ Exists(s, ks[n + 1])
    BY <1>1, <2>2
  <2>6. Exists(h[n], ks[n + 1])
    BY <1>1, <2>1, <2>5, RecountKeeps
  <2>7. Recount(h[n], h[n + 1]) /\ Sound(h[n + 1], Lent(E, ks, n + 1), R)
    BY <2>1, <2>3, <2>4, <2>5, <2>6, ChargeIsSound
  <2> QED
    BY <2>1, <2>7, RecountJoins
<1>5. Nat \subseteq S
  <2> HIDE DEF S
  <2> QED
    BY <1>3, <1>4, SetInduction
<1>6. Recount(s, h[Len(ks)]) /\ Sound(h[Len(ks)], Lent(E, ks, Len(ks)), R)
  BY <1>1, <1>5
<1>7. F = Lent(E, ks, Len(ks))
  BY <1>1, LentIs
<1> QED
  BY <1>2, <1>6, <1>7 DEF ChargeRun

LEMMA ReleaseAllIsSound ==
    ASSUME NEW ks \in Seq(Krefs), NEW E, NEW F, Lends(F, E, ks),
           NEW R, NEW s, Sound(s, E, R), \A k \in Krefs : Held(s, k) + F[k] >= 0
    PROVE  Recount(s, ReleaseAll(s, ks)) /\ Sound(ReleaseAll(s, ks), F, R)
<1>1. E \in Hands /\ F \in Hands /\ Len(ks) \in Nat /\ s \in Stores /\ DOMAIN ks = 1 .. Len(ks)
  BY DEF Lends, Sound
<1>2. PICK h : ReleaseRun(h, s, ks)
  BY <1>1, ReleaseRuns
<1> DEFINE S == {n \in Nat : n <= Len(ks) => Recount(s, h[n]) /\ Sound(h[n], Returned(E, ks, n), R)}
<1>3. 0 \in S
  BY <1>1, <1>2, ReturnedIs, RecountSelf DEF ReleaseRun
<1>4. ASSUME NEW n \in Nat, n \in S PROVE n + 1 \in S
  <2> SUFFICES ASSUME n + 1 <= Len(ks)
               PROVE  Recount(s, h[n + 1]) /\ Sound(h[n + 1], Returned(E, ks, n + 1), R)
    OBVIOUS
  <2>1. Recount(s, h[n]) /\ Sound(h[n], Returned(E, ks, n), R)
    BY <1>1, <1>4
  <2>2. n + 1 \in 1 .. Len(ks) /\ (n + 1) - 1 = n
    BY <1>1
  <2>3. h[n + 1] = Release(h[n], ks[n + 1])
    BY <1>2, <2>2 DEF ReleaseRun
  <2> DEFINE x == ks[n + 1]
             e == E[x]
             f == F[x]
             c == Uses(ks, x)
             r == Returned(E, ks, n)[x]
             a == Held(s, x)
  <2>4. Shifts(Returned(E, ks, n), Returned(E, ks, n + 1), x, -1) /\ r >= e - c + 1
    BY <1>1, <2>2, ReturnedIs
  <2>5. x \in Krefs
    BY <1>1, <2>2
  <2>6. e = f + c /\ f \in Int /\ c \in Nat /\ a \in Nat /\ a + f >= 0
    BY <1>1, <2>5, UsesType, HeldType DEF Lends, Hands
  <2>7. Held(h[n], x) = a
    BY <1>1, <2>1, <2>5, RecountKeeps
  <2>8. r \in Int
    BY <2>4, <2>5 DEF Shifts, Hands
  <2> HIDE DEF a, c, e, f, r
  <2>9. a + r >= 1
    BY <2>4, <2>6, <2>8
  <2>10. Held(h[n], x) + Returned(E, ks, n)[x] >= 1
    BY <2>7, <2>9 DEF r
  <2> HIDE DEF x
  <2>11. Recount(h[n], Release(h[n], x)) /\ Sound(Release(h[n], x), Returned(E, ks, n + 1), R)
    BY <2>1, <2>4, <2>5, <2>10, ReleaseIsSound
  <2> QED
    BY <2>1, <2>3, <2>11, RecountJoins DEF x
<1>5. Nat \subseteq S
  <2> HIDE DEF S
  <2> QED
    BY <1>3, <1>4, SetInduction
<1>6. Recount(s, h[Len(ks)]) /\ Sound(h[Len(ks)], Returned(E, ks, Len(ks)), R)
  BY <1>1, <1>5
<1>7. F = Returned(E, ks, Len(ks))
  BY <1>1, ReturnedIs
<1> QED
  BY <1>2, <1>6, <1>7 DEF ReleaseRun

-----------------------------------------------------------------------------
(* What every operation keeps of the store it was given: numbers are given  *)
(* out once, and what has been settled stands.                              *)

Stands(s, t) ==
    /\ s.nextPromise <= t.nextPromise
    /\ \A p \in DOMAIN t.promise : p < s.nextPromise =>
          /\ p \in DOMAIN s.promise
          /\ s.promise[p].state # "unresolved" =>
                t.promise[p].state = s.promise[p].state /\ t.promise[p].slots = s.promise[p].slots

(* What all but a collection and the death of a vat keep.                  *)
Steady(s, t) ==
    /\ Stands(s, t)
    /\ t.configured = s.configured /\ t.terminated = s.terminated
    /\ \A k \in Krefs : Exists(s, k) => Exists(t, k)

LEMMA StandsJoins ==
    ASSUME NEW s \in Stores, NEW t \in Stores, NEW u \in Stores, Stands(s, t), Stands(t, u)
    PROVE  Stands(s, u)
<1>1. s.nextPromise \in Nat /\ t.nextPromise \in Nat /\ u.nextPromise \in Nat
  BY StoreFields
<1>2. s.nextPromise <= u.nextPromise
  BY <1>1 DEF Stands
<1>3. ASSUME NEW p \in DOMAIN u.promise, p < s.nextPromise
      PROVE  /\ p \in DOMAIN s.promise
             /\ s.promise[p].state # "unresolved" =>
                   u.promise[p].state = s.promise[p].state /\ u.promise[p].slots = s.promise[p].slots
  <2>1. p \in Nat
    BY StoreIs, KrefsAre
  <2>2. p < t.nextPromise
    BY <1>1, <1>3, <2>1 DEF Stands
  <2> QED
    BY <1>3, <2>2 DEF Stands
<1> QED
  BY <1>2, <1>3 DEF Stands

LEMMA SteadyJoins ==
    ASSUME NEW s \in Stores, NEW t \in Stores, NEW u \in Stores, Steady(s, t), Steady(t, u)
    PROVE  Steady(s, u)
<1>1. Stands(s, u)
  BY StandsJoins DEF Steady
<1> QED
  BY <1>1 DEF Steady

LEMMA SameRowsSteady ==
    ASSUME NEW s \in Stores, NEW t, DOMAIN t.object = DOMAIN s.object,
           SameRows(s.promise, t.promise), t.nextPromise = s.nextPromise,
           t.configured = s.configured, t.terminated = s.terminated
    PROVE  Steady(s, t)
<1>1. s.nextPromise <= t.nextPromise
  BY StoreFields
<1>2. Stands(s, t)
  BY <1>1 DEF Stands, SameRows
<1>3. \A k \in Krefs : Exists(s, k) => Exists(t, k)
  BY DEF Exists, SameRows
<1> QED
  BY <1>2, <1>3 DEF Steady

LEMMA SteadySelf ==
    ASSUME NEW s \in Stores
    PROVE  Steady(s, s)
BY SameRowsSteady DEF SameRows

LEMMA RecountSteady ==
    ASSUME NEW s \in Stores, NEW t, Recount(s, t)
    PROVE  Steady(s, t)
BY SameRowsSteady DEF Recount, Frame

-----------------------------------------------------------------------------
(* C-lists.                                                                *)

(* A change of the entry a vat has for k, and of the counts of k.          *)
Reentered(s, t, v, k) ==
    /\ t \in Stores /\ Frame(s, t) /\ t.failed = s.failed
    /\ DOMAIN t.object = DOMAIN s.object
    /\ SameRows(s.promise, t.promise)
    /\ \A x \in DOMAIN s.object : t.object[x].owner = s.object[x].owner
    /\ \A w \in Vats, x \in Krefs : w # v \/ x # k =>
          /\ Has(t, w, x) <=> Has(s, w, x)
          /\ Has(s, w, x) => t.clist[w][x] = s.clist[w][x]
    /\ \A x \in Krefs : x # k /\ Exists(s, x) =>
          Reached(t, x) = Reached(s, x) /\ Recognized(t, x) = Recognized(s, x)

LEMMA ReenteredKeeps ==
    ASSUME NEW s \in Stores, NEW v \in Vats, NEW k \in Krefs, NEW t, Reentered(s, t, v, k)
    PROVE  /\ \A x \in Krefs : Held(t, x) = Held(s, x)
           /\ \A x : Exists(t, x) <=> Exists(s, x)
           /\ \A w \in Vats, x \in Krefs : \A how, R, Q :
                 (w # v \/ x # k) /\ (<<w, x>> \in R <=> <<w, x>> \in Q) =>
                    (Weighs(t, w, x, how, Q) <=> Weighs(s, w, x, how, R))
           /\ Steady(s, t)
<1>1. /\ t \in Stores /\ Frame(s, t) /\ DOMAIN t.object = DOMAIN s.object
      /\ SameRows(s.promise, t.promise) /\ DOMAIN t.promise = DOMAIN s.promise
  BY DEF Reentered, SameRows
<1>2. ASSUME NEW x \in Krefs PROVE Held(t, x) = Held(s, x)
  <2>1. UsesInPromises(t.promise, x) = UsesInPromises(s.promise, x)
    BY <1>1, SameRowsShares, StoreFields
  <2> QED
    BY <1>1, <2>1 DEF Held, Frame
<1>3. \A x : Exists(t, x) <=> Exists(s, x)
  BY <1>1 DEF Exists
<1>4. ASSUME NEW w \in Vats, NEW x \in Krefs, NEW how, NEW R, NEW Q,
             w # v \/ x # k, <<w, x>> \in R <=> <<w, x>> \in Q
      PROVE  Weighs(t, w, x, how, Q) <=> Weighs(s, w, x, how, R)
  <2>1. (Has(t, w, x) <=> Has(s, w, x)) /\ (Has(s, w, x) => t.clist[w][x] = s.clist[w][x])
    BY <1>4 DEF Reentered
  <2>2. Retiring(t, w, x) <=> Retiring(s, w, x)
    BY <1>1 DEF Retiring, Frame
  <2> QED
    BY <1>4, <2>1, <2>2 DEF Weighs
<1>5. Steady(s, t)
  BY <1>1, SameRowsSteady DEF Frame
<1> QED
  BY <1>2, <1>3, <1>4, <1>5

(* Away from the entry, R and Q ask the same of the vats.                  *)
Alike(R, Q, v, k) ==
    \A w \in Vats, x \in Krefs : w # v \/ x # k => (<<w, x>> \in R <=> <<w, x>> \in Q)

LEMMA AlikeSelf ==
    ASSUME NEW R, NEW v, NEW k
    PROVE  Alike(R, R, v, k)
BY DEF Alike

LEMMA ReenteredIsSound ==
    ASSUME NEW v \in Vats, NEW k \in Krefs, NEW E \in Hands, NEW F \in Hands, NEW R, NEW Q,
           Alike(R, Q, v, k), \A x \in Krefs : x # k => F[x] = E[x],
           NEW s, Sound(s, E, R), NEW t, Reentered(s, t, v, k), Follows(s, E, R, t, F, Q, k),
           k \in Objects => /\ Has(t, v, k) /\ t.clist[v][k].dir = "export" <=>
                                  k \in DOMAIN t.object /\ t.object[k].owner = v
                            /\ Has(t, v, k) /\ t.clist[v][k].reach => k \in DOMAIN t.object
                            /\ <<v, k>> \in Q => <<v, k>> \in R,
           Has(t, v, k) => Has(s, v, k) \/ v \in s.configured \/ IsTerminated(s, v)
    PROVE  Sound(t, F, Q) /\ Steady(s, t)
<1>1. /\ s \in Stores /\ t \in Stores /\ s.failed = FALSE /\ t.failed = FALSE /\ Balanced(s, E, R)
      /\ Frame(s, t) /\ DOMAIN t.object = DOMAIN s.object
      /\ SameRows(s.promise, t.promise) /\ DOMAIN t.promise = DOMAIN s.promise
      /\ \A x \in DOMAIN s.object : t.object[x].owner = s.object[x].owner
  BY DEF Reentered, SameRows, Sound
<1>2. /\ \A x \in Krefs : Held(t, x) = Held(s, x)
      /\ \A x : Exists(t, x) <=> Exists(s, x)
      /\ \A w \in Vats, x \in Krefs : \A how :
            (w # v \/ x # k) => (Weighs(t, w, x, how, Q) <=> Weighs(s, w, x, how, R))
      /\ Steady(s, t)
  <2>1. ASSUME NEW w \in Vats, NEW x \in Krefs, NEW how, w # v \/ x # k
        PROVE  Weighs(t, w, x, how, Q) <=> Weighs(s, w, x, how, R)
    <3>1. <<w, x>> \in R <=> <<w, x>> \in Q
      BY <2>1 DEF Alike
    <3> QED
      BY <1>1, <2>1, <3>1, ReenteredKeeps
  <2> QED
    BY <1>1, <2>1, ReenteredKeeps
<1>3. \A w \in Vats, x \in Krefs : w # v \/ x # k =>
          (Has(t, w, x) <=> Has(s, w, x)) /\ (Has(s, w, x) => t.clist[w][x] = s.clist[w][x])
  BY DEF Reentered
<1>4. Fresh(t)
  BY <1>1 DEF Fresh, Frame, Sound
<1>5. ExportsOwned(t)
  <2> SUFFICES ASSUME NEW w \in Vats, NEW x \in Objects
               PROVE  Has(t, w, x) /\ t.clist[w][x].dir = "export" <=>
                          x \in DOMAIN t.object /\ t.object[x].owner = w
    BY DEF ExportsOwned
  <2>1. CASE w = v /\ x = k
    BY <2>1
  <2>2. CASE w # v \/ x # k
    <3>1. x \in Krefs
      BY KrefsAre
    <3>2. (Has(t, w, x) <=> Has(s, w, x)) /\ (Has(s, w, x) => t.clist[w][x] = s.clist[w][x])
      BY <1>3, <2>2, <3>1
    <3>3. Has(s, w, x) /\ s.clist[w][x].dir = "export" <=>
              x \in DOMAIN s.object /\ s.object[x].owner = w
      BY DEF Sound, ExportsOwned
    <3> QED
      BY <1>1, <3>2, <3>3
  <2> QED
    BY <2>1, <2>2
<1>6. FlagsReach(t)
  <2> SUFFICES ASSUME NEW w \in Vats, NEW x \in Objects, Has(t, w, x), t.clist[w][x].reach
               PROVE  x \in DOMAIN t.object
    BY DEF FlagsReach
  <2>1. CASE w = v /\ x = k
    BY <2>1
  <2>2. CASE w # v \/ x # k
    <3>1. x \in Krefs
      BY KrefsAre
    <3>2. Has(s, w, x) /\ t.clist[w][x] = s.clist[w][x]
      BY <1>3, <2>2, <3>1
    <3> QED
      BY <1>1, <3>2 DEF Sound, FlagsReach
  <2> QED
    BY <2>1, <2>2
<1>7. RetiredIsGone(t, Q)
  <2> SUFFICES ASSUME NEW w \in Vats, NEW x \in Objects, Retiring(t, w, x) \/ <<w, x>> \in Q
               PROVE  x \notin DOMAIN t.object /\ x < t.nextObject
    BY DEF RetiredIsGone
  <2>1. x \in Krefs
    BY KrefsAre
  <2>2. Retiring(s, w, x) \/ <<w, x>> \in R
    BY <1>1, <2>1 DEF Retiring, Frame, Alike
  <2> QED
    BY <1>1, <2>2 DEF Sound, RetiredIsGone, Frame
<1>8. DeadAreEmpty(t)
  <2> SUFFICES ASSUME NEW w \in Vats
               PROVE  w \in t.configured \/ IsTerminated(t, w) \/ DOMAIN t.clist[w] = {}
    BY DEF DeadAreEmpty
  <2>1. /\ w \in s.configured \/ IsTerminated(s, w) \/ DOMAIN s.clist[w] = {}
        /\ t.configured = s.configured /\ (IsTerminated(t, w) <=> IsTerminated(s, w))
    BY <1>1 DEF Sound, DeadAreEmpty, Frame, IsTerminated
  <2>2. CASE DOMAIN s.clist[w] = {} /\ ~(w \in s.configured \/ IsTerminated(s, w))
    <3>1. \A x \in Krefs : ~Has(t, w, x)
      BY <1>3, <2>2 DEF Has
    <3>2. DOMAIN t.clist[w] \subseteq Krefs
      BY <1>1, StoreIs
    <3> QED
      BY <3>1, <3>2 DEF Has
  <2> QED
    BY <2>1, <2>2
<1>9. ASSUME NEW x \in Krefs PROVE Follows(s, E, R, t, F, Q, x)
  <2>1. CASE x = k
    BY <2>1
  <2>2. CASE x # k
    <3>1. \A how : Entered(t, x, how, Q) = Entered(s, x, how, R)
      BY <1>2, <2>2, EnteredSame
    <3> DEFINE h == Held(s, x)
               a == Entered(s, x, "reach", R)
               b == Entered(s, x, "recog", R)
               e == E[x]
               m == Reached(s, x)
               i == Recognized(s, x)
    <3>2. h \in Nat /\ a \in Nat /\ b \in Nat /\ e \in Int
      BY <1>1, HeldType, EnteredType DEF Hands
    <3>3. /\ Held(t, x) = h /\ Entered(t, x, "reach", Q) = a /\ Entered(t, x, "recog", Q) = b
          /\ F[x] = e /\ (Exists(t, x) <=> Exists(s, x))
      BY <1>2, <2>2, <3>1
    <3>4. CASE Exists(s, x)
      <4>1. Reached(t, x) = m /\ Recognized(t, x) = i /\ m \in Nat /\ i \in Nat
        BY <1>1, <2>2, <3>4, CountsType DEF Reentered
      <4> HIDE DEF h, a, b, e, m, i
      <4>2. m - m = h - h + e - e + a - a /\ i - i = h - h + e - e + b - b
        BY <3>2, <4>1
      <4> QED
        BY <3>3, <3>4, <4>1, <4>2 DEF Follows, h, a, b, e, m, i
    <3>5. CASE ~Exists(s, x)
      BY <3>3, <3>5 DEF Follows
    <3> QED
      BY <3>4, <3>5
  <2> QED
    BY <2>1, <2>2
<1>10. Balanced(t, F, Q)
  BY <1>1, <1>9, BalanceFollows
<1> QED
  BY <1>1, <1>2, <1>4, <1>5, <1>6, <1>7, <1>8, <1>10 DEF Sound

ClistSet(s, t, v, c) == t = [s EXCEPT !.clist[v] = c]

LEMMA ClistIs ==
    ASSUME NEW s \in Stores, NEW v \in Vats, NEW c \in Tables(Krefs, CListEntries),
           NEW t, ClistSet(s, t, v, c)
    PROVE  /\ t \in Stores /\ Frame(s, t) /\ t.failed = s.failed /\ SameCounts(s, t)
           /\ t.free = s.free
           /\ t.clist[v] = c /\ \A w \in Vats : w # v => t.clist[w] = s.clist[w]
<1> DEFINE f == [s.clist EXCEPT ![v] = c]
<1>1. s.clist \in [Vats -> Tables(Krefs, CListEntries)]
  BY StoreFields
<1>2. f \in [Vats -> Tables(Krefs, CListEntries)] /\ f[v] = c
      /\ \A w \in Vats : w # v => f[w] = s.clist[w]
  BY <1>1
<1>3. t = [s EXCEPT !.clist = f]
  BY DEF ClistSet
<1> HIDE DEF f
<1>4. t \in Stores
  BY <1>2, <1>3, StoreChanges
<1>5. Frame(s, t) /\ t.failed = s.failed /\ SameCounts(s, t) /\ t.clist = f /\ t.free = s.free
  BY <1>3 DEF Frame, SameCounts, Stores
<1> QED
  BY <1>2, <1>4, <1>5

(* A store that differs in the flag of one entry.                          *)
Flagged(s, t, v, k) ==
    /\ t \in Stores /\ Frame(s, t) /\ t.failed = s.failed /\ SameCounts(s, t)
    /\ \A w \in Vats : \A x : /\ Has(t, w, x) <=> Has(s, w, x)
                              /\ (w # v \/ x # k) /\ Has(s, w, x) =>
                                    t.clist[w][x] = s.clist[w][x]
    /\ t.clist[v][k].dir = s.clist[v][k].dir

EntrySet(s, t, v, k, e) == t = [s EXCEPT !.clist[v][k] = e]

LEMMA EntryIs ==
    ASSUME NEW s \in Stores, NEW v \in Vats, NEW k, Has(s, v, k), NEW e \in CListEntries,
           e.dir = s.clist[v][k].dir, NEW t, EntrySet(s, t, v, k, e)
    PROVE  Flagged(s, t, v, k) /\ t.clist[v][k] = e
<1> DEFINE c == [s.clist[v] EXCEPT ![k] = e]
<1>1. k \in Krefs /\ s.clist[v] \in Tables(Krefs, CListEntries)
  BY StoreIs, StoreFields DEF Has
<1>2. ClistSet(s, t, v, c)
  BY DEF ClistSet, EntrySet
<1>3. c \in Tables(Krefs, CListEntries)
  BY <1>1, TableChanges
<1>4. /\ DOMAIN c = DOMAIN s.clist[v] /\ c[k] = e
      /\ \A x \in DOMAIN s.clist[v] : x # k => c[x] = s.clist[v][x]
  BY DEF Has
<1> HIDE DEF c
<1>5. /\ t \in Stores /\ Frame(s, t) /\ t.failed = s.failed /\ SameCounts(s, t)
      /\ t.clist[v] = c /\ \A w \in Vats : w # v => t.clist[w] = s.clist[w]
  BY <1>2, <1>3, ClistIs
<1> QED
  BY <1>4, <1>5 DEF Flagged, Has

FlagSet(s, t, v, k) == t = [s EXCEPT !.clist[v][k].reach = TRUE]

LEMMA FlagSetIs ==
    ASSUME NEW s \in Stores, NEW v \in Vats, NEW k, Has(s, v, k),
           NEW t, FlagSet(s, t, v, k)
    PROVE  Flagged(s, t, v, k) /\ t.clist[v][k].reach
<1> DEFINE e == [s.clist[v][k] EXCEPT !.reach = TRUE]
<1>1. s.clist[v][k] \in CListEntries
  BY StoreIs DEF Has
<1>2. e \in CListEntries /\ e.reach /\ e.dir = s.clist[v][k].dir
  BY <1>1 DEF CListEntries
<1>3. EntrySet(s, t, v, k, e)
  BY DEF EntrySet, FlagSet
<1> HIDE DEF e
<1>4. Flagged(s, t, v, k)
  BY <1>2, <1>3, EntryIs
<1>5. t.clist[v][k] = e
  BY <1>2, <1>3, EntryIs
<1> QED
  BY <1>2, <1>4, <1>5

FlagCleared(s, t, v, k) == t = [s EXCEPT !.clist[v][k].reach = FALSE]

LEMMA FlagClearedIs ==
    ASSUME NEW s \in Stores, NEW v \in Vats, NEW k, Has(s, v, k),
           NEW t, FlagCleared(s, t, v, k)
    PROVE  Flagged(s, t, v, k) /\ ~t.clist[v][k].reach
<1> DEFINE e == [s.clist[v][k] EXCEPT !.reach = FALSE]
<1>1. s.clist[v][k] \in CListEntries
  BY StoreIs DEF Has
<1>2. e \in CListEntries /\ ~e.reach /\ e.dir = s.clist[v][k].dir
  BY <1>1 DEF CListEntries
<1>3. EntrySet(s, t, v, k, e)
  BY DEF EntrySet, FlagCleared
<1> HIDE DEF e
<1>4. Flagged(s, t, v, k)
  BY <1>2, <1>3, EntryIs
<1>5. t.clist[v][k] = e
  BY <1>2, <1>3, EntryIs
<1> QED
  BY <1>2, <1>4, <1>5

LEMMA FlaggedWeighs ==
    ASSUME NEW s, NEW v \in Vats, NEW k, NEW t, Flagged(s, t, v, k), NEW R
    PROVE  /\ \A w \in Vats : \A how : w # v =>
                 (Weighs(s, w, k, how, R) <=> Weighs(t, w, k, how, R))
           /\ Weighs(s, v, k, "recog", R) <=> Weighs(t, v, k, "recog", R)
           /\ IsPromise(k) \/ s.clist[v][k].dir # "import" =>
                 (Weighs(s, v, k, "reach", R) <=> Weighs(t, v, k, "reach", R))
BY DEF Flagged, Retiring, Frame, Weighs

LEMMA FlaggedRecog ==
    ASSUME NEW s, NEW v \in Vats, NEW k, NEW t, Flagged(s, t, v, k), NEW R
    PROVE  Entered(t, k, "recog", R) = Entered(s, k, "recog", R)
<1>1. \A w \in Vats : w # v => (Weighs(s, w, k, "recog", R) <=> Weighs(t, w, k, "recog", R))
  BY FlaggedWeighs
<1>2. Weighs(s, v, k, "recog", R) <=> Weighs(t, v, k, "recog", R)
  BY FlaggedWeighs
<1>3. \A w \in Vats : Weighs(s, w, k, "recog", R) <=> Weighs(t, w, k, "recog", R)
  BY <1>1, <1>2
<1> QED
  BY <1>3, EnteredSame

LEMMA FlaggedReach ==
    ASSUME NEW s, NEW v \in Vats, NEW k, NEW t, Flagged(s, t, v, k), NEW R,
           IsPromise(k) \/ s.clist[v][k].dir # "import"
    PROVE  Entered(t, k, "reach", R) = Entered(s, k, "reach", R)
<1>1. \A w \in Vats : Weighs(s, w, k, "reach", R) <=> Weighs(t, w, k, "reach", R)
  BY FlaggedWeighs, SMTT(30)
<1> QED
  BY <1>1, EnteredSame

(* An import of an object that gains its flag, or loses it.                *)
LEMMA FlagSetEntered ==
    ASSUME NEW s, NEW v \in Vats, NEW k, Has(s, v, k), NEW t, Flagged(s, t, v, k), t.clist[v][k].reach, NEW R,
           ~IsPromise(k), s.clist[v][k].dir = "import", ~Retiring(s, v, k),
           <<v, k>> \notin R, ~s.clist[v][k].reach
    PROVE  Entered(t, k, "reach", R) = Entered(s, k, "reach", R) + 1
<1>1. Has(t, v, k) /\ t.clist[v][k].reach /\ t.clist[v][k].dir = "import" /\ ~Retiring(t, v, k)
  BY DEF Flagged, Retiring, Frame
<1>2. ~Weighs(s, v, k, "reach", R) /\ Weighs(t, v, k, "reach", R)
  BY <1>1 DEF Weighs
<1>3. \A w \in Vats : w # v => (Weighs(s, w, k, "reach", R) <=> Weighs(t, w, k, "reach", R))
  BY FlaggedWeighs
<1> QED
  BY <1>2, <1>3, EnteredMore

LEMMA FlagClearedEntered ==
    ASSUME NEW s, NEW v \in Vats, NEW k, Has(s, v, k), NEW t, Flagged(s, t, v, k), ~t.clist[v][k].reach, NEW R,
           ~IsPromise(k), s.clist[v][k].dir = "import", ~Retiring(s, v, k),
           <<v, k>> \notin R
    PROVE  Entered(t, k, "reach", R)
               = Entered(s, k, "reach", R) - (IF s.clist[v][k].reach THEN 1 ELSE 0)
<1>2. ~Weighs(t, v, k, "reach", R) /\ (Weighs(s, v, k, "reach", R) <=> s.clist[v][k].reach)
  BY DEF Weighs, Flagged
<1>3. \A w \in Vats : w # v => (Weighs(s, w, k, "reach", R) <=> Weighs(t, w, k, "reach", R))
  BY FlaggedWeighs
<1>4. Entered(s, k, "reach", R) \in Nat /\ Entered(t, k, "reach", R) \in Nat
  BY EnteredType
<1>5. CASE s.clist[v][k].reach
  <2>1. \A w \in Vats : w # v => (Weighs(t, w, k, "reach", R) <=> Weighs(s, w, k, "reach", R))
    BY <1>3
  <2>2. Entered(s, k, "reach", R) = Entered(t, k, "reach", R) + 1
    BY <1>2, <1>5, <2>1, EnteredMore
  <2> QED
    BY <1>4, <1>5, <2>2
<1>6. CASE ~s.clist[v][k].reach
  <2>1. \A w \in Vats : Weighs(s, w, k, "reach", R) <=> Weighs(t, w, k, "reach", R)
    BY <1>2, <1>3, <1>6
  <2>2. Entered(t, k, "reach", R) = Entered(s, k, "reach", R)
    BY <2>1, EnteredSame
  <2> QED
    BY <1>4, <1>6, <2>2
<1> QED
  BY <1>5, <1>6

(* A flag set or cleared, and the object's count moved with it.            *)
LEMMA FlagMoveIsSound ==
    ASSUME NEW E \in Hands, NEW R, NEW s, Sound(s, E, R),
           NEW v \in Vats, NEW k \in Krefs, Has(s, v, k),
           NEW t, Flagged(s, t, v, k), NEW u, Recount(t, u),
           \A x \in Krefs : x # k /\ Exists(s, x) =>
              Reached(u, x) = Reached(t, x) /\ Recognized(u, x) = Recognized(t, x),
           Exists(s, k) => /\ Recognized(u, k) = Recognized(t, k)
                           /\ Reached(u, k) - Reached(t, k)
                                = Entered(t, k, "reach", R) - Entered(s, k, "reach", R),
           Exists(s, k) \/ ~t.clist[v][k].reach
    PROVE  Sound(u, E, R) /\ Steady(s, u)
<1>1. /\ s \in Stores /\ t \in Stores /\ u \in Stores
      /\ Frame(s, t) /\ t.failed = s.failed /\ SameCounts(s, t)
      /\ Frame(t, u) /\ u.clist = t.clist /\ u.failed = t.failed
      /\ DOMAIN u.object = DOMAIN t.object
      /\ \A x \in DOMAIN t.object : u.object[x].owner = t.object[x].owner
      /\ SameRows(t.promise, u.promise)
  BY DEF Sound, Flagged, Recount
<1>2. /\ \A w \in Vats : \A x : Has(u, w, x) <=> Has(s, w, x)
      /\ \A w \in Vats : \A x : (w # v \/ x # k) /\ Has(s, w, x) => u.clist[w][x] = s.clist[w][x]
      /\ u.clist[v][k].reach = t.clist[v][k].reach /\ u.clist[v][k].dir = s.clist[v][k].dir
  BY <1>1 DEF Flagged, Has
<1>3. \A x : Reached(t, x) = Reached(s, x) /\ Recognized(t, x) = Recognized(s, x)
             /\ (Exists(t, x) <=> Exists(s, x))
  BY <1>1 DEF SameCounts, Reached, Recognized, Exists
<1>4. Reentered(s, u, v, k)
  <2>1. Frame(s, u) /\ SameRows(s.promise, u.promise) /\ DOMAIN u.object = DOMAIN s.object
        /\ \A x \in DOMAIN s.object : u.object[x].owner = s.object[x].owner
    BY <1>1 DEF Frame, SameCounts
  <2> QED
    BY <1>1, <1>2, <1>3, <2>1 DEF Reentered
<1>5. Held(u, k) = Held(s, k) /\ (Exists(u, k) <=> Exists(s, k))
  BY <1>1, <1>4, ReenteredKeeps
<1>6. \A how : Entered(u, k, how, R) = Entered(t, k, how, R)
  BY <1>1, RecountKeeps
<1>7. Entered(t, k, "recog", R) = Entered(s, k, "recog", R)
  BY FlaggedRecog
<1>8. Follows(s, E, R, u, E, R, k)
  <2> DEFINE h == Held(s, k)
             a == Entered(s, k, "reach", R)
             c == Entered(t, k, "reach", R)
             d == Entered(s, k, "recog", R)
             e == E[k]
             m == Reached(s, k)
             n == Reached(u, k)
             i == Recognized(s, k)
  <2>1. h \in Nat /\ a \in Nat /\ c \in Nat /\ d \in Nat /\ e \in Int
    BY <1>1, HeldType, EnteredType DEF Hands
  <2>2. Held(u, k) = h /\ Entered(u, k, "reach", R) = c /\ Entered(u, k, "recog", R) = d
    BY <1>5, <1>6, <1>7
  <2>3. CASE Exists(s, k)
    <3>1. m \in Nat /\ n \in Nat /\ i \in Nat
      BY <1>1, <1>5, <2>3, CountsType
    <3>2. n - m = c - a /\ Recognized(u, k) = i
      BY <1>3, <2>3
    <3> HIDE DEF h, a, c, d, e, m, n, i
    <3>3. n - m = h - h + e - e + c - a /\ i - i = h - h + e - e + d - d
      BY <2>1, <3>1, <3>2
    <3> QED
      BY <1>5, <2>2, <2>3, <3>2, <3>3 DEF Follows, h, a, c, d, e, m, n, i
  <2>4. CASE ~Exists(s, k)
    BY <1>5, <2>2, <2>4 DEF Follows
  <2> QED
    BY <2>3, <2>4
<1>9. k \in Objects => /\ Has(u, v, k) /\ u.clist[v][k].dir = "export" <=>
                              k \in DOMAIN u.object /\ u.object[k].owner = v
                       /\ Has(u, v, k) /\ u.clist[v][k].reach => k \in DOMAIN u.object
                       /\ <<v, k>> \in R => <<v, k>> \in R
  <2> SUFFICES ASSUME k \in Objects
               PROVE  /\ Has(u, v, k) /\ u.clist[v][k].dir = "export" <=>
                            k \in DOMAIN u.object /\ u.object[k].owner = v
                      /\ Has(u, v, k) /\ u.clist[v][k].reach => k \in DOMAIN u.object
    OBVIOUS
  <2>1. Has(s, v, k) /\ s.clist[v][k].dir = "export" <=>
            k \in DOMAIN s.object /\ s.object[k].owner = v
    BY DEF Sound, ExportsOwned
  <2>2. DOMAIN u.object = DOMAIN s.object
        /\ \A x \in DOMAIN s.object : u.object[x].owner = s.object[x].owner
    BY <1>4 DEF Reentered
  <2>3. Exists(s, k) => k \in DOMAIN s.object
    BY <1>1, ExistsIs, KrefsAre
  <2> QED
    BY <1>2, <2>1, <2>2, <2>3
<1> QED
  BY <1>4, <1>8, <1>9, AlikeSelf, ReenteredIsSound

LEMMA SetReachableFlagIsSound ==
    ASSUME NEW E \in Hands, NEW R, NEW s, Sound(s, E, R),
           NEW v \in Vats, NEW k \in Krefs, Has(s, v, k), Exists(s, k)
    PROVE  Sound(SetReachableFlag(s, v, k), E, R) /\ Steady(s, SetReachableFlag(s, v, k))
<1>1. s \in Stores /\ s.failed = FALSE
  BY DEF Sound
<1>2. CASE s.clist[v][k].reach
  BY <1>1, <1>2, SteadySelf DEF SetReachableFlag
<1>3. CASE ~s.clist[v][k].reach
  <2> DEFINE t == [s EXCEPT !.clist[v][k].reach = TRUE]
  <2>1. Flagged(s, t, v, k) /\ t.clist[v][k].reach
    <3>1. FlagSet(s, t, v, k)
      BY DEF FlagSet
    <3> HIDE DEF t
    <3> QED
      BY <1>1, <3>1, FlagSetIs
  <2>2. SetReachableFlag(s, v, k) =
            IF ImportsObject(s, v, k)
            THEN SetCounts(t, k, s.object[k].reach + 1, s.object[k].recog) ELSE t
    BY <1>1, <1>3 DEF SetReachableFlag
  <2> HIDE DEF t
  <2>3. t \in Stores /\ SameCounts(s, t)
    BY <2>1 DEF Flagged
  <2>4. CASE ImportsObject(s, v, k)
    <3>1. /\ ~IsPromise(k) /\ s.clist[v][k].dir = "import" /\ k \in DOMAIN s.object
          /\ ~Retiring(s, v, k) /\ <<v, k>> \notin R
      BY <2>4, KrefsAre DEF ImportsObject, Sound, RetiredIsGone
    <3>2. Entered(t, k, "reach", R) = Entered(s, k, "reach", R) + 1
      BY <1>3, <2>1, <3>1, FlagSetEntered
    <3> DEFINE m == s.object[k].reach
               n == s.object[k].recog
               u == SetCounts(t, k, m + 1, n)
    <3>3. m \in Nat /\ n \in Nat
      BY <1>1, <3>1, StoreIs DEF ObjectRows
    <3>4. m + 1 <= n
      <4> DEFINE h == Held(s, k)
                 e == E[k]
                 a == Entered(s, k, "reach", R)
                 b == Entered(t, k, "reach", R)
                 c == Entered(s, k, "recog", R)
      <4>1. m = h + e + a /\ n = h + e + c
        BY <1>1, <3>1 DEF Sound, Balanced, Reached, Recognized
      <4>2. b <= c
        <5>1. Entered(t, k, "recog", R) = Entered(s, k, "recog", R)
          BY <2>1, FlaggedRecog
        <5> QED
          BY <5>1, ReachersAreEntered
      <4>3. h \in Nat /\ e \in Int /\ a \in Nat /\ b = a + 1 /\ c \in Nat
        BY <1>1, <3>2, HeldType, EnteredType DEF Hands
      <4> HIDE DEF h, e, a, b, c, m, n
      <4> QED
        BY <3>3, <4>1, <4>2, <4>3
    <3>5. Recount(t, u) /\ CountsSet(t, u, k, m + 1, n)
      <4>1. k \in DOMAIN t.object
        BY <2>3, <3>1 DEF SameCounts
      <4>2. m + 1 \in Nat
        BY <3>3
      <4> HIDE DEF m, n
      <4> QED
        BY <2>3, <3>3, <3>4, <4>1, <4>2, SetCountsIs
    <3>6. SetReachableFlag(s, v, k) = u
      BY <2>2, <2>4
    <3> HIDE DEF u
    <3>7. ASSUME NEW x \in Krefs, x # k, Exists(s, x)
          PROVE  Reached(u, x) = Reached(t, x) /\ Recognized(u, x) = Recognized(t, x)
      <4>1. IsPromise(x) \/ x \in DOMAIN t.object
        BY <1>1, <2>3, <3>7, ExistsIs DEF SameCounts
      <4> QED
        BY <3>5, <3>7, <4>1 DEF CountsSet, Reached, Recognized
    <3>8. /\ Recognized(u, k) = Recognized(t, k)
          /\ Reached(u, k) - Reached(t, k) = Entered(t, k, "reach", R) - Entered(s, k, "reach", R)
      <4>1. Recognized(u, k) = n /\ Recognized(t, k) = n /\ Reached(u, k) = m + 1 /\ Reached(t, k) = m
        BY <2>3, <3>1, <3>5 DEF CountsSet, SameCounts, Reached, Recognized
      <4>2. Entered(s, k, "reach", R) \in Nat
        BY EnteredType
      <4> HIDE DEF m, n
      <4> QED
        BY <3>2, <3>3, <4>1, <4>2
    <3> QED
      BY <2>1, <3>5, <3>6, <3>7, <3>8, FlagMoveIsSound
  <2>5. CASE ~ImportsObject(s, v, k)
    <3>1. IsPromise(k) \/ s.clist[v][k].dir # "import"
      BY <1>1, <2>5, ExistsIs DEF ImportsObject
    <3>2. Entered(t, k, "reach", R) = Entered(s, k, "reach", R)
      BY <2>1, <3>1, FlaggedReach
    <3>3. Entered(s, k, "reach", R) \in Nat /\ Reached(t, k) \in Nat
      <4>1. Exists(t, k)
        BY <2>3 DEF SameCounts, Exists
      <4> QED
        BY <2>3, <4>1, CountsType, EnteredType
    <3>4. Reached(t, k) - Reached(t, k) = Entered(t, k, "reach", R) - Entered(s, k, "reach", R)
      BY <3>2, <3>3
    <3>5. Recount(t, t)
      BY <2>3, RecountSelf
    <3> QED
      BY <2>1, <2>2, <2>5, <3>4, <3>5, FlagMoveIsSound
  <2> QED
    BY <2>4, <2>5
<1> QED
  BY <1>2, <1>3

(* Hands that owe nothing.                                                 *)
Loans == [Krefs -> Nat]

LEMMA LoansAreHands == Loans \subseteq Hands
BY DEF Loans, Hands

LEMMA ClearReachableFlagIsSound ==
    ASSUME NEW E \in Loans, NEW R, NEW s, Sound(s, E, R),
           NEW v \in Vats, NEW k \in Krefs, Has(s, v, k)
    PROVE  LET u == ClearReachableFlag(s, v, k)
           IN  /\ Sound(u, E, R) /\ Steady(s, u)
               /\ Has(u, v, k) /\ u.clist[v][k].dir = s.clist[v][k].dir /\ ~u.clist[v][k].reach
               /\ \A w \in Vats : \A x : (Has(u, w, x) <=> Has(s, w, x))
                      /\ ((w # v \/ x # k) /\ Has(s, w, x) => u.clist[w][x] = s.clist[w][x])
               /\ u.actions = s.actions /\ DOMAIN u.object = DOMAIN s.object
               /\ \A x \in DOMAIN s.object : u.object[x].owner = s.object[x].owner
               /\ \A x : Exists(u, x) <=> Exists(s, x)
<1>1. s \in Stores /\ s.failed = FALSE /\ E \in Hands
  BY LoansAreHands DEF Sound
<1> DEFINE t == [s EXCEPT !.clist[v][k].reach = FALSE]
           m == s.object[k].reach
           n == s.object[k].recog
           c == IF m - 1 = 0 THEN Candidate(t, k) ELSE t
           u == IF s.clist[v][k].reach /\ ImportsObject(s, v, k)
                THEN SetCounts(c, k, m - 1, n) ELSE t
<1>2. Flagged(s, t, v, k) /\ ~t.clist[v][k].reach
  <2>1. FlagCleared(s, t, v, k)
    BY DEF FlagCleared
  <2> HIDE DEF t, c, u
  <2> QED
    BY <1>1, <2>1, FlagClearedIs
<1>3. ClearReachableFlag(s, v, k) = u
  BY <1>1 DEF ClearReachableFlag
<1> HIDE DEF t
<1>4. t \in Stores /\ SameCounts(s, t)
  BY <1>2 DEF Flagged
<1>5. Recount(t, c) /\ SameCounts(t, c)
  BY <1>4, CandidateIs, RecountSelf DEF SameCounts
<1> HIDE DEF c
<1>6. CASE s.clist[v][k].reach /\ ImportsObject(s, v, k)
  <2>1. /\ ~IsPromise(k) /\ s.clist[v][k].dir = "import" /\ k \in DOMAIN s.object
        /\ ~Retiring(s, v, k) /\ <<v, k>> \notin R
    BY <1>6, KrefsAre DEF ImportsObject, Sound, RetiredIsGone
  <2>2. Entered(t, k, "reach", R) = Entered(s, k, "reach", R) - 1
    BY <1>2, <1>6, <2>1, FlagClearedEntered
  <2>3. m \in Nat /\ n \in Nat
    BY <1>1, <2>1, StoreIs DEF ObjectRows
  <2>4. m >= 1 /\ m <= n
    <3>1. Exists(s, k)
      BY <2>1 DEF Exists
    <3> DEFINE h == Held(s, k)
               e == E[k]
               a == Entered(s, k, "reach", R)
               d == Entered(s, k, "recog", R)
               b == Entered(t, k, "reach", R)
    <3>2. m = h + e + a /\ n = h + e + d
      BY <2>1, <3>1 DEF Sound, Balanced, Reached, Recognized
    <3>3. a <= d
      BY ReachersAreEntered
    <3>4. h \in Nat /\ e \in Nat /\ a \in Nat /\ b \in Nat /\ b = a - 1 /\ d \in Nat
      BY <1>1, <2>2, HeldType, EnteredType DEF Loans
    <3> HIDE DEF h, e, a, b, d, m, n
    <3> QED
      BY <2>3, <3>2, <3>3, <3>4
  <2>5. Recount(c, u) /\ CountsSet(c, u, k, m - 1, n)
    <3>1. k \in DOMAIN c.object /\ c \in Stores
      BY <1>4, <1>5, <2>1 DEF SameCounts, Recount
    <3>2. m - 1 \in Nat /\ m - 1 <= n
      BY <2>3, <2>4
    <3>3. u = SetCounts(c, k, m - 1, n)
      BY <1>6
    <3> HIDE DEF m, n, u
    <3> QED
      BY <2>3, <3>1, <3>2, <3>3, SetCountsIs
  <2> HIDE DEF u
  <2>6. Recount(t, u)
    BY <1>5, <2>5, RecountJoins
  <2>7. ASSUME NEW x \in Krefs, x # k, Exists(s, x)
        PROVE  Reached(u, x) = Reached(t, x) /\ Recognized(u, x) = Recognized(t, x)
    <3>1. IsPromise(x) \/ x \in DOMAIN c.object
      BY <1>1, <1>4, <1>5, <2>7, ExistsIs DEF SameCounts
    <3> QED
      BY <1>5, <2>5, <2>7, <3>1 DEF CountsSet, SameCounts, Reached, Recognized
  <2>8. /\ Recognized(u, k) = Recognized(t, k)
        /\ Reached(u, k) - Reached(t, k) = Entered(t, k, "reach", R) - Entered(s, k, "reach", R)
    <3>1. Recognized(u, k) = n /\ Recognized(t, k) = n /\ Reached(u, k) = m - 1 /\ Reached(t, k) = m
      BY <1>4, <1>5, <2>1, <2>5 DEF CountsSet, SameCounts, Reached, Recognized
    <3>2. Entered(s, k, "reach", R) \in Nat
      BY EnteredType
    <3> HIDE DEF m, n
    <3> QED
      BY <2>2, <2>3, <3>1, <3>2
  <2>9. Exists(s, k)
    BY <2>1 DEF Exists
  <2>10. Sound(u, E, R) /\ Steady(s, u)
    BY <1>1, <1>2, <2>6, <2>7, <2>8, <2>9, FlagMoveIsSound
  <2> QED
    BY <1>2, <1>3, <2>6, <2>10 DEF Flagged, Recount, Frame, SameCounts, SameRows, Has, Exists
<1>7. CASE ~(s.clist[v][k].reach /\ ImportsObject(s, v, k))
  <2>1. u = t
    BY <1>7
  <2> HIDE DEF u
  <2>2. Entered(t, k, "reach", R) = Entered(s, k, "reach", R)
    <3>1. CASE IsPromise(k) \/ s.clist[v][k].dir # "import"
      BY <1>2, <3>1, FlaggedReach
    <3>2. CASE ~IsPromise(k) /\ s.clist[v][k].dir = "import"
      <4>1. ~s.clist[v][k].reach
        <5>1. k \in Objects
          BY <3>2, KrefsAre
        <5> QED
          BY <1>7, <3>2, <5>1 DEF ImportsObject, Sound, FlagsReach
      <4>2. \A w \in Vats : Weighs(s, w, k, "reach", R) <=> Weighs(t, w, k, "reach", R)
        <5>1. ~t.clist[v][k].reach
          BY <1>2
        <5>2. ~Weighs(s, v, k, "reach", R) /\ ~Weighs(t, v, k, "reach", R)
          BY <3>2, <4>1, <5>1 DEF Weighs
        <5>3. \A w \in Vats : w # v => (Weighs(s, w, k, "reach", R) <=> Weighs(t, w, k, "reach", R))
          BY <1>2, FlaggedWeighs
        <5> QED
          BY <5>2, <5>3
      <4> QED
        BY <4>2, EnteredSame
    <3> QED
      BY <3>1, <3>2
  <2>3. Exists(s, k) => Entered(s, k, "reach", R) \in Nat /\ Reached(t, k) \in Nat
    <3>1. Exists(s, k) => Exists(t, k)
      BY <1>4 DEF SameCounts, Exists
    <3> QED
      BY <1>4, <3>1, CountsType, EnteredType
  <2>4. Exists(s, k) => Reached(t, k) - Reached(t, k)
                            = Entered(t, k, "reach", R) - Entered(s, k, "reach", R)
    BY <2>2, <2>3
  <2>5. Recount(t, t)
    BY <1>4, RecountSelf
  <2>6. Sound(t, E, R) /\ Steady(s, t)
    BY <1>1, <1>2, <2>4, <2>5, FlagMoveIsSound
  <2> QED
    BY <1>2, <1>3, <2>1, <2>6 DEF Flagged, Frame, SameCounts, Has, Exists
<1> QED
  BY <1>6, <1>7

(* A store with one entry more.                                            *)
Listed(s, t, v, k, dir) ==
    /\ t \in Stores /\ Frame(s, t) /\ t.failed = s.failed /\ SameCounts(s, t)
    /\ \A w \in Vats : \A x : /\ w # v \/ x # k => (Has(t, w, x) <=> Has(s, w, x))
                              /\ (w # v \/ x # k) /\ Has(s, w, x) =>
                                    t.clist[w][x] = s.clist[w][x]
    /\ Has(t, v, k) /\ t.clist[v][k].dir = dir
    /\ t.clist[v][k].reach <=> dir = "export"

(* A store with one entry less.                                            *)
Forgotten(s, t, v, k) ==
    /\ t \in Stores /\ Frame(s, t) /\ t.failed = s.failed /\ SameCounts(s, t)
    /\ t.free = s.free
    /\ \A w \in Vats : \A x : /\ w # v \/ x # k => (Has(t, w, x) <=> Has(s, w, x))
                              /\ (w # v \/ x # k) /\ Has(s, w, x) =>
                                    t.clist[w][x] = s.clist[w][x]
    /\ ~Has(t, v, k)

ListEntry(s, v, k, dir) ==
    [s EXCEPT !.clist[v] =
        [x \in DOMAIN @ \cup {k} |->
            IF x = k THEN [dir |-> dir, reach |-> dir = "export"] ELSE @[x]]]

LEMMA ListedIs ==
    ASSUME NEW s \in Stores, NEW v \in Vats, NEW k \in Krefs, NEW dir \in {"import", "export"}
    PROVE  Listed(s, ListEntry(s, v, k, dir), v, k, dir)
<1> DEFINE e == [dir |-> dir, reach |-> dir = "export"]
           c == [x \in DOMAIN s.clist[v] \cup {k} |-> IF x = k THEN e ELSE s.clist[v][x]]
           t == ListEntry(s, v, k, dir)
<1>1. e \in CListEntries /\ e.dir = dir /\ (e.reach <=> dir = "export")
  BY DEF CListEntries
<1>2. ClistSet(s, t, v, c)
  BY DEF ClistSet, ListEntry
<1> HIDE DEF e
<1>3. c \in Tables(Krefs, CListEntries)
  <2>1. s.clist[v] \in Tables(Krefs, CListEntries)
    BY StoreFields
  <2>2. e \in CListEntries
    BY <1>1
  <2> QED
    BY <2>1, <2>2, TableChanges
<1>4. /\ DOMAIN c = DOMAIN s.clist[v] \cup {k} /\ c[k] = e
      /\ \A x \in DOMAIN s.clist[v] : x # k => c[x] = s.clist[v][x]
  OBVIOUS
<1> HIDE DEF c, t
<1>5. /\ t \in Stores /\ Frame(s, t) /\ t.failed = s.failed /\ SameCounts(s, t)
      /\ t.clist[v] = c /\ \A w \in Vats : w # v => t.clist[w] = s.clist[w]
  BY <1>2, <1>3, ClistIs
<1>6. Listed(s, t, v, k, dir)
  BY <1>1, <1>4, <1>5 DEF Listed, Has
<1> QED
  BY <1>6 DEF t

LEMMA ForgottenIs ==
    ASSUME NEW s \in Stores, NEW v \in Vats, NEW k \in Krefs
    PROVE  Forgotten(s, ForgetEntry(s, v, k), v, k)
<1> DEFINE c == [x \in DOMAIN s.clist[v] \ {k} |-> s.clist[v][x]]
           t == ForgetEntry(s, v, k)
<1>1. PICK y : y \in CListEntries
  <2>1. [dir |-> "import", reach |-> TRUE] \in CListEntries
    BY DEF CListEntries
  <2> QED
    BY <2>1
<1>2. ClistSet(s, t, v, c)
  BY DEF ClistSet, ForgetEntry
<1>3. c \in Tables(Krefs, CListEntries)
  <2>1. s.clist[v] \in Tables(Krefs, CListEntries)
    BY StoreFields
  <2> QED
    BY <1>1, <2>1, TableChanges
<1>4. /\ DOMAIN c = DOMAIN s.clist[v] \ {k}
      /\ \A x \in DOMAIN s.clist[v] : x # k => c[x] = s.clist[v][x]
  OBVIOUS
<1> HIDE DEF c, t
<1>5. /\ t \in Stores /\ Frame(s, t) /\ t.failed = s.failed /\ SameCounts(s, t) /\ t.free = s.free
      /\ t.clist[v] = c /\ \A w \in Vats : w # v => t.clist[w] = s.clist[w]
  BY <1>2, <1>3, ClistIs
<1>6. Forgotten(s, t, v, k)
  BY <1>4, <1>5 DEF Forgotten, Has
<1> QED
  BY <1>6 DEF t

(* The one entry that differs decides how the entries compare.             *)
LEMMA OneMoreEntered ==
    ASSUME NEW s, NEW t, NEW v \in Vats, NEW k, NEW how, NEW R, NEW Q,
           \A w \in Vats : w # v => (Weighs(s, w, k, how, R) <=> Weighs(t, w, k, how, Q)),
           ~Weighs(s, v, k, how, R)
    PROVE  Entered(t, k, how, Q)
               = Entered(s, k, how, R) + (IF Weighs(t, v, k, how, Q) THEN 1 ELSE 0)
<1> DEFINE A == {w \in Vats : Weighs(s, w, k, how, R)}
           B == {w \in Vats : Weighs(t, w, k, how, Q)}
<1>1. /\ v \notin A /\ A \in SUBSET Vats
      /\ B = IF Weighs(t, v, k, how, Q) THEN A \cup {v} ELSE A
  OBVIOUS
<1>2. IsFiniteSet(A) /\ Cardinality(A) \in Nat
  BY <1>1, SomeVats
<1> HIDE DEF A, B
<1>3. Cardinality(A \cup {v}) = Cardinality(A) + 1
  BY <1>1, <1>2, FS_AddElement
<1>4. Cardinality(B) = Cardinality(A) + (IF Weighs(t, v, k, how, Q) THEN 1 ELSE 0)
  BY <1>1, <1>2, <1>3
<1> QED
  BY <1>4 DEF Entered, A, B

LEMMA ListedEntered ==
    ASSUME NEW s, NEW v \in Vats, NEW k, NEW dir, NEW t, Listed(s, t, v, k, dir),
           ~Has(s, v, k), NEW how, NEW R
    PROVE  Entered(t, k, how, R)
               = Entered(s, k, how, R) + (IF Weighs(t, v, k, how, R) THEN 1 ELSE 0)
<1>1. \A w \in Vats : w # v => (Weighs(s, w, k, how, R) <=> Weighs(t, w, k, how, R))
  BY DEF Listed, Retiring, Frame, Weighs
<1>2. ~Weighs(s, v, k, how, R)
  BY DEF Weighs
<1> QED
  BY <1>1, <1>2, OneMoreEntered

LEMMA ForgottenEntered ==
    ASSUME NEW s, NEW v \in Vats, NEW k, NEW t, Forgotten(s, t, v, k), NEW how, NEW R, NEW Q,
           Alike(R, Q, v, k), k \in Krefs
    PROVE  Entered(s, k, how, R)
               = Entered(t, k, how, Q) + (IF Weighs(s, v, k, how, R) THEN 1 ELSE 0)
<1>1. \A w \in Vats : w # v => (Weighs(t, w, k, how, Q) <=> Weighs(s, w, k, how, R))
  BY DEF Forgotten, Retiring, Frame, Weighs, Alike
<1>2. ~Weighs(t, v, k, how, Q)
  BY DEF Forgotten, Weighs
<1> QED
  BY <1>1, <1>2, OneMoreEntered

LEMMA ListedReenters ==
    ASSUME NEW s \in Stores, NEW v \in Vats, NEW k \in Krefs, NEW dir, NEW t, Listed(s, t, v, k, dir)
    PROVE  Reentered(s, t, v, k) /\ Held(t, k) = Held(s, k) /\ (Exists(t, k) <=> Exists(s, k))
<1>1. Reentered(s, t, v, k)
  BY DEF Listed, SameCounts, SameRows, Reentered, Reached, Recognized
<1> QED
  BY <1>1, ReenteredKeeps

LEMMA ForgottenReenters ==
    ASSUME NEW s \in Stores, NEW v \in Vats, NEW k \in Krefs, NEW t, Forgotten(s, t, v, k)
    PROVE  Reentered(s, t, v, k) /\ Held(t, k) = Held(s, k) /\ (Exists(t, k) <=> Exists(s, k))
<1>1. Reentered(s, t, v, k)
  BY DEF Forgotten, SameCounts, SameRows, Reentered, Reached, Recognized
<1> QED
  BY <1>1, ReenteredKeeps

(* A vat that may have entries.                                            *)
Lives(s, v) == v \in s.configured \/ IsTerminated(s, v)

(* A new entry for a promise, charged.                                     *)
LEMMA ListPromiseIsSound ==
    ASSUME NEW E \in Hands, NEW R, NEW s, Sound(s, E, R),
           NEW v \in Vats, NEW k \in Krefs, IsPromise(k), Exists(s, k), ~Has(s, v, k), Lives(s, v),
           NEW dir, NEW t, Listed(s, t, v, k, dir)
    PROVE  Recount(t, Charge(t, k)) /\ Sound(Charge(t, k), E, R) /\ Steady(s, Charge(t, k))
<1> DEFINE F == [x \in Krefs |-> IF x = k THEN E[k] - 1 ELSE E[x]]
<1>1. s \in Stores /\ t \in Stores /\ k \notin Objects
  BY BoundsAreNaturals, KrefsAre DEF Sound, Listed, Objects, Promises
<1>2. /\ F \in Hands /\ F[k] = E[k] - 1 /\ Shifts(F, E, k, 1)
      /\ \A x \in Krefs : x # k => F[x] = E[x]
  <2>1. \A x \in Krefs : E[x] \in Int
    BY DEF Hands
  <2>2. \A x \in Krefs : F[x] = IF x = k THEN E[k] - 1 ELSE E[x]
    OBVIOUS
  <2>3. F \in Hands
    BY <2>1 DEF Hands
  <2> HIDE DEF F
  <2>4. \A x \in Krefs : E[x] = F[x] + (IF x = k THEN 1 ELSE 0)
    BY <2>1, <2>2
  <2> QED
    BY <2>2, <2>3, <2>4 DEF Shifts
<1> HIDE DEF F
<1>3. Reentered(s, t, v, k) /\ Held(t, k) = Held(s, k) /\ Exists(t, k)
  BY <1>1, ListedReenters
<1>4. \A how : Entered(t, k, how, R) = Entered(s, k, how, R) + 1
  <2>1. \A how : Weighs(t, v, k, how, R)
    BY DEF Listed, Weighs
  <2> QED
    BY <2>1, ListedEntered
<1>5. Follows(s, E, R, t, F, R, k)
  <2> DEFINE h == Held(s, k)
             a == Entered(s, k, "reach", R)
             d == Entered(s, k, "recog", R)
             e == E[k]
             m == Reached(s, k)
             i == Recognized(s, k)
  <2>1. /\ h \in Nat /\ a \in Nat /\ d \in Nat /\ e \in Int /\ m \in Nat /\ i \in Nat
    BY <1>1, HeldType, EnteredType, CountsType DEF Hands
  <2>2. Reached(t, k) = m /\ Recognized(t, k) = i
    BY DEF Listed, SameCounts, Reached, Recognized
  <2>3. /\ Held(t, k) = h /\ F[k] = e - 1
        /\ Entered(t, k, "reach", R) = a + 1 /\ Entered(t, k, "recog", R) = d + 1
    BY <1>2, <1>3, <1>4
  <2> HIDE DEF h, a, d, e, m, i
  <2>4. m - m = h - h + (e - 1) - e + (a + 1) - a /\ i - i = h - h + (e - 1) - e + (d + 1) - d
    BY <2>1
  <2> QED
    BY <1>3, <2>2, <2>3, <2>4 DEF Follows, h, a, d, e, m, i
<1>6. Sound(t, F, R) /\ Steady(s, t)
  BY <1>1, <1>2, <1>3, <1>5, AlikeSelf, ReenteredIsSound DEF Lives
<1>7. Recount(t, Charge(t, k)) /\ Sound(Charge(t, k), E, R)
  BY <1>2, <1>3, <1>6, ChargeIsSound
<1>8. Steady(t, Charge(t, k))
  BY <1>1, <1>7, RecountSteady
<1> QED
  BY <1>1, <1>6, <1>7, <1>8, SteadyJoins DEF Sound

(* A new import of an object, recognized and not yet reached.              *)
LEMMA ListImportIsSound ==
    ASSUME NEW E \in Hands, NEW R, NEW s, Sound(s, E, R),
           NEW v \in Vats, NEW k \in Krefs, ~IsPromise(k), Exists(s, k), ~Has(s, v, k), Lives(s, v),
           NEW t, Listed(s, t, v, k, "import"),
           NEW u, u = SetCounts(t, k, s.object[k].reach, s.object[k].recog + 1)
    PROVE  Recount(t, u) /\ Sound(u, E, R) /\ Steady(s, u)
<1> DEFINE m == s.object[k].reach
           n == s.object[k].recog
<1>1. s \in Stores /\ t \in Stores /\ k \in Objects /\ k \in DOMAIN s.object /\ k \in DOMAIN t.object
  BY ExistsIs, KrefsAre DEF Sound, Listed, SameCounts
<1>2. m \in Nat /\ n \in Nat /\ m <= n /\ Reached(s, k) = m /\ Recognized(s, k) = n
  BY <1>1, StoreIs, CountsOrdered DEF ObjectRows, Reached, Recognized
<1>3. Recount(t, u) /\ CountsSet(t, u, k, m, n + 1)
  <2>1. n + 1 \in Nat /\ m <= n + 1
    BY <1>2
  <2>2. u = SetCounts(t, k, m, n + 1)
    OBVIOUS
  <2> HIDE DEF m, n
  <2> QED
    BY <1>1, <1>2, <2>1, <2>2, SetCountsIs
<1>4. Reentered(s, t, v, k) /\ Held(t, k) = Held(s, k) /\ Exists(t, k)
  BY <1>1, ListedReenters
<1>5. ~Retiring(s, v, k) /\ <<v, k>> \notin R
  BY <1>1 DEF Sound, RetiredIsGone
<1>6. /\ Entered(t, k, "reach", R) = Entered(s, k, "reach", R)
      /\ Entered(t, k, "recog", R) = Entered(s, k, "recog", R) + 1
  <2>1. ~Weighs(t, v, k, "reach", R) /\ Weighs(t, v, k, "recog", R)
    BY <1>5 DEF Listed, Weighs, Retiring, Frame
  <2>2. Entered(s, k, "reach", R) \in Nat
    BY EnteredType
  <2>3. Entered(t, k, "reach", R)
               = Entered(s, k, "reach", R) + (IF Weighs(t, v, k, "reach", R) THEN 1 ELSE 0)
    BY ListedEntered
  <2>4. Entered(t, k, "recog", R)
               = Entered(s, k, "recog", R) + (IF Weighs(t, v, k, "recog", R) THEN 1 ELSE 0)
    BY ListedEntered
  <2> QED
    BY <2>1, <2>2, <2>3, <2>4
<1>7. Reentered(s, u, v, k)
  <2>1. ASSUME NEW x \in Krefs, x # k, Exists(s, x)
        PROVE  Reached(u, x) = Reached(s, x) /\ Recognized(u, x) = Recognized(s, x)
    <3>1. IsPromise(x) \/ x \in DOMAIN t.object
      BY <1>1, <2>1, ExistsIs DEF Listed, SameCounts
    <3> QED
      BY <1>3, <2>1, <3>1 DEF Listed, SameCounts, CountsSet, Reached, Recognized
  <2>2. Frame(s, u) /\ SameRows(s.promise, u.promise)
    <3>1. Frame(s, u)
      BY <1>3, <1>4 DEF Recount, Frame, Reentered
    <3>2. SameRows(s.promise, t.promise) /\ SameRows(t.promise, u.promise)
      BY <1>3, <1>4 DEF Recount, Reentered
    <3>3. SameRows(s.promise, u.promise)
      BY <3>2 DEF SameRows
    <3> QED
      BY <3>1, <3>3
  <2>3. /\ u \in Stores /\ u.failed = s.failed /\ u.clist = t.clist
        /\ DOMAIN u.object = DOMAIN s.object
        /\ \A x \in DOMAIN s.object : u.object[x].owner = s.object[x].owner
    BY <1>3, <1>4 DEF Recount, Reentered
  <2>4. \A w \in Vats, x \in Krefs : w # v \/ x # k =>
          /\ Has(u, w, x) <=> Has(s, w, x)
          /\ Has(s, w, x) => u.clist[w][x] = s.clist[w][x]
    BY <1>4, <2>3, SMTT(30), ZenonT(60) DEF Reentered, Has
  <2> QED
    BY <2>1, <2>2, <2>3, <2>4 DEF Reentered
<1>8. Held(u, k) = Held(s, k) /\ Exists(u, k)
  BY <1>1, <1>7, ReenteredKeeps
<1>9. Follows(s, E, R, u, E, R, k)
  <2> DEFINE h == Held(s, k)
             a == Entered(s, k, "reach", R)
             d == Entered(s, k, "recog", R)
             e == E[k]
  <2>1. h \in Nat /\ a \in Nat /\ d \in Nat /\ e \in Int
    BY <1>1, HeldType, EnteredType DEF Hands
  <2>2. Reached(u, k) = m /\ Recognized(u, k) = n + 1
    BY <1>3 DEF CountsSet, Reached, Recognized
  <2>3. /\ Held(u, k) = h /\ Entered(u, k, "reach", R) = a /\ Entered(u, k, "recog", R) = d + 1
    BY <1>1, <1>3, <1>6, <1>8, RecountKeeps
  <2> HIDE DEF h, a, d, e, m, n
  <2>4. m - m = h - h + e - e + a - a /\ (n + 1) - n = h - h + e - e + (d + 1) - d
    BY <1>2, <2>1
  <2> QED
    BY <1>2, <1>8, <2>2, <2>3, <2>4 DEF Follows, h, a, d, e
<1>10. Has(u, v, k) /\ u.clist[v][k].dir = "import" /\ k \in DOMAIN u.object
       /\ u.object[k].owner = s.object[k].owner
  BY <1>1, <1>3, <1>7 DEF Recount, Listed, Has, Reentered
<1>11. s.object[k].owner # v
  BY <1>1 DEF Sound, ExportsOwned
<1> QED
  BY <1>1, <1>3, <1>7, <1>9, <1>10, <1>11, AlikeSelf, ReenteredIsSound DEF Lives

LEMMA AddImportIsSound ==
    ASSUME NEW E \in Hands, NEW R, NEW s, Sound(s, E, R),
           NEW v \in Vats, NEW k \in Krefs, Exists(s, k), ~Has(s, v, k), Lives(s, v)
    PROVE  LET u == AddCListEntry(s, v, k, "import")
           IN  Sound(u, E, R) /\ Steady(s, u) /\ Has(u, v, k)
<1> DEFINE t == ListEntry(s, v, k, "import")
           u == AddCListEntry(s, v, k, "import")
<1>1. Listed(s, t, v, k, "import")
  BY ListedIs DEF Sound
<1>2. CASE IsPromise(k)
  <2>1. u = Charge(t, k)
    BY <1>2 DEF AddCListEntry, ListEntry
  <2> HIDE DEF t, u
  <2>2. Recount(t, u) /\ Sound(u, E, R) /\ Steady(s, u)
    BY <1>1, <1>2, <2>1, ListPromiseIsSound
  <2> QED
    BY <1>1, <2>2 DEF Recount, Listed, Has, u
<1>3. CASE ~IsPromise(k)
  <2>1. u = SetCounts(t, k, s.object[k].reach, s.object[k].recog + 1)
    BY <1>3 DEF AddCListEntry, ListEntry
  <2> HIDE DEF t, u
  <2>2. Recount(t, u) /\ Sound(u, E, R) /\ Steady(s, u)
    BY <1>1, <1>3, <2>1, ListImportIsSound
  <2> QED
    BY <1>1, <2>2 DEF Recount, Listed, Has, u
<1> QED
  BY <1>2, <1>3

LEMMA TranslateRefKtoEIsSound ==
    ASSUME NEW E \in Hands, NEW R, NEW s, Sound(s, E, R),
           NEW v \in Vats, NEW k \in Krefs, Exists(s, k), Lives(s, v)
    PROVE  Sound(TranslateRefKtoE(s, v, k), E, R) /\ Steady(s, TranslateRefKtoE(s, v, k))
<1>1. s \in Stores /\ s.failed = FALSE
  BY DEF Sound
<1>2. CASE Has(s, v, k)
  BY <1>1, <1>2, SetReachableFlagIsSound DEF TranslateRefKtoE
<1>3. CASE ~Has(s, v, k)
  <2> DEFINE t == AddCListEntry(s, v, k, "import")
  <2>1. TranslateRefKtoE(s, v, k) = SetReachableFlag(t, v, k)
    BY <1>1, <1>3 DEF TranslateRefKtoE
  <2>2. Sound(t, E, R) /\ Steady(s, t) /\ Has(t, v, k)
    BY <1>3, AddImportIsSound
  <2> HIDE DEF t
  <2>3. Exists(t, k) /\ t \in Stores
    BY <2>2 DEF Steady, Sound
  <2>4. Sound(SetReachableFlag(t, v, k), E, R) /\ Steady(t, SetReachableFlag(t, v, k))
    BY <2>2, <2>3, SetReachableFlagIsSound
  <2>5. SetReachableFlag(t, v, k) \in Stores
    BY <2>4 DEF Sound
  <2>6. Steady(s, SetReachableFlag(t, v, k))
    BY <1>1, <2>2, <2>3, <2>4, <2>5, SteadyJoins
  <2> QED
    BY <2>1, <2>4, <2>6
<1> QED
  BY <1>2, <1>3

-----------------------------------------------------------------------------
(* Entries that go.                                                        *)

(* Entries of t are entries of s, in the same direction.                   *)
Shrinks(s, t) ==
    \A w \in Vats : \A x : Has(t, w, x) => Has(s, w, x) /\ t.clist[w][x].dir = s.clist[w][x].dir

(* All but one entry of s is in t.                                         *)
Spares(s, t, v, k) ==
    \A w \in Vats : \A x : (w # v \/ x # k) => (Has(t, w, x) <=> Has(s, w, x))

LEMMA ShrinksJoins ==
    ASSUME NEW s, NEW t, NEW u, Shrinks(s, t), Shrinks(t, u)
    PROVE  Shrinks(s, u)
BY DEF Shrinks

LEMMA ReleasePromiseMoves ==
    ASSUME NEW s \in Stores, NEW k \in DOMAIN s.promise, s.promise[k].refs >= 1
    PROVE  Moves(s, ReleasePromise(s, k), k, -1)
<1>1. s.promise[k].refs \in Nat /\ k \in Krefs
  BY StoreIs, KrefsAre DEF PromiseRows
<1> DEFINE n == s.promise[k].refs - 1
           t == [s EXCEPT !.promise[k].refs = n]
           u == IF t.promise[k].refs = 0 THEN Candidate(t, k) ELSE t
<1>2. ReleasePromise(s, k) = u
  BY <1>1 DEF ReleasePromise
<1>3. n \in Nat
  BY <1>1
<1>4. /\ Recount(s, t) /\ t.object = s.object /\ t.promise[k].refs = n
      /\ \A x \in DOMAIN s.promise : x # k => t.promise[x] = s.promise[x]
  <2> HIDE DEF n
  <2> QED
    BY <1>3, PromiseCountIs
<1> HIDE DEF t
<1>5. t \in Stores
  BY <1>4 DEF Recount
<1>6. Recount(t, u) /\ SameCounts(t, u)
  BY <1>1, <1>5, CandidateIs, RecountSelf DEF SameCounts
<1> HIDE DEF u
<1>7. Recount(s, u)
  BY <1>4, <1>6, RecountJoins
<1>8. u.object = s.object /\ u.promise[k].refs = s.promise[k].refs + (-1)
      /\ \A x \in DOMAIN s.promise : x # k => u.promise[x] = s.promise[x]
  BY <1>1, <1>4, <1>6 DEF SameCounts
<1> QED
  BY <1>2, <1>7, <1>8, PromiseMoves

LEMMA ReleaseRecognitionIs ==
    ASSUME NEW s \in Stores, NEW k \in DOMAIN s.object, s.object[k].reach < s.object[k].recog
    PROVE  LET u == ReleaseObject(s, k, 0)
           IN  Recount(s, u) /\ CountsSet(s, u, k, s.object[k].reach, s.object[k].recog - 1)
<1> DEFINE m == s.object[k].reach
           n == s.object[k].recog - 1
           t == IF m = 0 \/ n = 0 THEN Candidate(s, k) ELSE s
           u == SetCounts(t, k, m, n)
<1>1. m \in Nat /\ s.object[k].recog \in Nat /\ k \in Krefs
  BY StoreIs, KrefsAre DEF ObjectRows
<1>2. ReleaseObject(s, k, 0) = u
  BY <1>1 DEF ReleaseObject
<1>3. n \in Nat /\ m <= n
  BY <1>1
<1>4. Recount(s, t) /\ SameCounts(s, t)
  BY <1>1, CandidateIs, RecountSelf DEF SameCounts
<1> HIDE DEF t
<1>5. t \in Stores /\ k \in DOMAIN t.object
  BY <1>4 DEF Recount, SameCounts
<1>6. Recount(t, u) /\ CountsSet(t, u, k, m, n)
  <2> HIDE DEF m, n
  <2> QED
    BY <1>1, <1>3, <1>5, SetCountsIs
<1> HIDE DEF u, n
<1>7. Recount(s, u)
  BY <1>4, <1>6, RecountJoins
<1>8. CountsSet(s, u, k, m, n)
  BY <1>4, <1>6 DEF CountsSet, SameCounts
<1> QED
  BY <1>2, <1>7, <1>8 DEF n

(* Whoever holds or has an entry for k, k exists.                          *)
LEMMA WeighedExists ==
    ASSUME NEW E \in Loans, NEW R, NEW s, Sound(s, E, R), NEW v \in Vats, NEW k \in Krefs
    PROVE  /\ Weighs(s, v, k, "recog", R) => Exists(s, k)
           /\ Weighs(s, v, k, "reach", R) => Exists(s, k)
           /\ Weighs(s, v, k, "reach", R) => Weighs(s, v, k, "recog", R)
<1>1. Weighs(s, v, k, "reach", R) => Weighs(s, v, k, "recog", R)
  BY DEF Weighs
<1>2. ASSUME Weighs(s, v, k, "recog", R), ~Exists(s, k) PROVE FALSE
  <2> DEFINE h == Held(s, k)
             e == E[k]
             d == Entered(s, k, "recog", R)
  <2>1. h \in Nat /\ e \in Nat /\ d \in Nat
    BY HeldType, EnteredType DEF Loans, Sound
  <2>2. d >= 1
    BY <1>2, EnteredSome
  <2>3. h + e + d = 0
    BY <1>2 DEF Sound, Balanced
  <2> HIDE DEF h, e, d
  <2> QED
    BY <2>1, <2>2, <2>3
<1> QED
  BY <1>1, <1>2

(* An entry given back, then forgotten.                                    *)
LEMMA ForgetIsSound ==
    ASSUME NEW E \in Loans, NEW R, NEW s, Sound(s, E, R), NEW v \in Vats, NEW k \in Krefs,
           Has(s, v, k), IsPromise(k) \/ s.clist[v][k].dir = "import",
           NEW r, Recount(s, r),
           \A x \in Krefs : x # k /\ Exists(s, x) =>
              Reached(r, x) = Reached(s, x) /\ Recognized(r, x) = Recognized(s, x),
           Exists(s, k) =>
              /\ Reached(r, k) = Reached(s, k) - (IF Weighs(s, v, k, "reach", R) THEN 1 ELSE 0)
              /\ Recognized(r, k) = Recognized(s, k) - (IF Weighs(s, v, k, "recog", R) THEN 1 ELSE 0)
    PROVE  LET u == ForgetEntry(r, v, k)
           IN  /\ Sound(u, E, R) /\ Steady(s, u) /\ Shrinks(s, u) /\ ~Has(u, v, k)
               /\ u.object = r.object /\ u.actions = s.actions /\ Spares(s, u, v, k)
<1> DEFINE u == ForgetEntry(r, v, k)
<1>1. s \in Stores /\ r \in Stores /\ E \in Hands /\ r.clist = s.clist
  BY LoansAreHands DEF Sound, Recount
<1>2. Forgotten(r, u, v, k)
  BY <1>1, ForgottenIs
<1> HIDE DEF u
<1>3. Reentered(r, u, v, k) /\ Held(u, k) = Held(r, k) /\ (Exists(u, k) <=> Exists(r, k))
  BY <1>1, <1>2, ForgottenReenters
<1>4. Held(r, k) = Held(s, k) /\ (Exists(r, k) <=> Exists(s, k))
      /\ \A how : Entered(r, k, how, R) = Entered(s, k, how, R)
  BY <1>1, RecountKeeps
<1>5. Reentered(s, u, v, k)
  <2>1. \A x \in Krefs : Exists(s, x) <=> Exists(r, x)
    BY <1>1, RecountKeeps
  <2>2. \A x \in Krefs : x # k /\ Exists(s, x) =>
            Reached(u, x) = Reached(s, x) /\ Recognized(u, x) = Recognized(s, x)
    BY <1>3, <2>1 DEF Reentered
  <2>3. Frame(s, u) /\ SameRows(s.promise, u.promise)
    BY <1>3 DEF Recount, Frame, SameRows, Reentered
  <2> QED
    BY <1>1, <1>3, <2>2, <2>3 DEF Recount, Reentered, Has
<1>6. \A how : Weighs(r, v, k, how, R) <=> Weighs(s, v, k, how, R)
  BY <1>1 DEF Weighs, Has, Retiring, Recount, Frame
<1>7. \A how : Entered(s, k, how, R) = Entered(u, k, how, R) + (IF Weighs(s, v, k, how, R) THEN 1 ELSE 0)
  <2> TAKE how
  <2>1. Entered(r, k, how, R) = Entered(u, k, how, R) + (IF Weighs(r, v, k, how, R) THEN 1 ELSE 0)
    BY <1>2, AlikeSelf, ForgottenEntered
  <2> QED
    BY <1>4, <1>6, <2>1
<1>8. Follows(s, E, R, u, E, R, k)
  <2> DEFINE h == Held(s, k)
             a == Entered(u, k, "reach", R)
             d == Entered(u, k, "recog", R)
             p == IF Weighs(s, v, k, "reach", R) THEN 1 ELSE 0
             q == IF Weighs(s, v, k, "recog", R) THEN 1 ELSE 0
             e == E[k]
             m == Reached(s, k)
             n == Recognized(s, k)
  <2>1. h \in Nat /\ a \in Nat /\ d \in Nat /\ e \in Int /\ p \in Nat /\ q \in Nat
    BY <1>1, HeldType, EnteredType DEF Hands
  <2>2. Held(u, k) = h /\ (Exists(u, k) <=> Exists(s, k))
    BY <1>3, <1>4
  <2>3. Entered(s, k, "reach", R) = a + p /\ Entered(s, k, "recog", R) = d + q
    BY <1>7
  <2>4. CASE Exists(s, k)
    <3>1. m \in Nat /\ n \in Nat
      BY <1>1, <2>4, CountsType
    <3>2. Reached(u, k) = m - p /\ Recognized(u, k) = n - q
      BY <1>2, <2>4 DEF Forgotten, SameCounts, Reached, Recognized
    <3> HIDE DEF h, a, d, p, q, e, m, n
    <3>3. m - p - m = h - h + e - e + a - (a + p) /\ n - q - n = h - h + e - e + d - (d + q)
      BY <2>1, <3>1
    <3> QED
      BY <2>2, <2>3, <2>4, <3>2, <3>3 DEF Follows, h, a, d, e, m, n
  <2>5. CASE ~Exists(s, k)
    <3>1. ~Weighs(s, v, k, "recog", R)
      BY <2>5, WeighedExists
    <3>2. q = 0
      BY <3>1
    <3> HIDE DEF h, a, d, p, q, e, m, n
    <3>3. h + e + d = h + e + (d + q)
      BY <2>1, <3>2
    <3> QED
      BY <2>2, <2>3, <2>5, <3>3 DEF Follows, h, a, d, e
  <2> QED
    BY <2>4, <2>5
<1>9. ~Has(u, v, k) /\ u.object = r.object /\ u.actions = s.actions
  BY <1>2 DEF Forgotten, SameCounts, Frame, Recount
<1>10. k \in Objects => ~(k \in DOMAIN u.object /\ u.object[k].owner = v)
  <2> SUFFICES ASSUME k \in Objects, k \in DOMAIN u.object, u.object[k].owner = v
               PROVE  FALSE
    OBVIOUS
  <2>1. ~IsPromise(k)
    BY KrefsAre
  <2>2. k \in DOMAIN s.object /\ s.object[k].owner = v
    BY <1>9 DEF Recount
  <2>3. s.clist[v][k].dir = "export"
    BY <2>2 DEF Sound, ExportsOwned
  <2> QED
    BY <2>1, <2>3
<1>11. Sound(u, E, R) /\ Steady(s, u)
  BY <1>1, <1>5, <1>8, <1>9, <1>10, AlikeSelf, ReenteredIsSound
<1>12. Shrinks(s, u) /\ Spares(s, u, v, k)
  BY <1>1, <1>2 DEF Shrinks, Spares, Forgotten, Has
<1> QED
  BY <1>9, <1>11, <1>12 DEF u

(* What c-list entries are to a store that has been stripped of some.      *)
Stripped(s, t) ==
    /\ Shrinks(s, t) /\ t.actions = s.actions /\ DOMAIN t.object = DOMAIN s.object
    /\ \A x \in DOMAIN s.object : t.object[x].owner = s.object[x].owner

LEMMA DeleteCListEntryIsSound ==
    ASSUME NEW E \in Loans, NEW R, NEW s, Sound(s, E, R), NEW v \in Vats, NEW k \in Krefs,
           Has(s, v, k), IsPromise(k) \/ s.clist[v][k].dir = "import"
    PROVE  LET u == DeleteCListEntry(s, v, k)
           IN  /\ Sound(u, E, R) /\ Steady(s, u) /\ Stripped(s, u) /\ ~Has(u, v, k)
               /\ Spares(s, u, v, k)
<1> DEFINE c == ClearReachableFlag(s, v, k)
           r == IF IsPromise(k) THEN ReleasePromise(c, k)
                ELSE IF s.clist[v][k].dir = "import" THEN ReleaseObject(c, k, 0) ELSE c
           u == ForgetEntry(r, v, k)
<1>1. /\ Sound(c, E, R) /\ Steady(s, c)
      /\ Has(c, v, k) /\ c.clist[v][k].dir = s.clist[v][k].dir /\ ~c.clist[v][k].reach
      /\ \A w \in Vats : \A x : (Has(c, w, x) <=> Has(s, w, x))
             /\ ((w # v \/ x # k) /\ Has(s, w, x) => c.clist[w][x] = s.clist[w][x])
      /\ c.actions = s.actions /\ DOMAIN c.object = DOMAIN s.object
      /\ \A x \in DOMAIN s.object : c.object[x].owner = s.object[x].owner
      /\ \A x : Exists(c, x) <=> Exists(s, x)
  BY ClearReachableFlagIsSound
<1>2. DeleteCListEntry(s, v, k)
          = IF c.failed THEN c ELSE IF r.failed THEN r ELSE u
  BY DEF DeleteCListEntry
<1> HIDE DEF c
<1>3. s \in Stores /\ c \in Stores /\ c.failed = FALSE
  BY <1>1 DEF Sound
<1>4. /\ Recount(c, r)
      /\ \A x \in Krefs : x # k /\ Exists(c, x) =>
            Reached(r, x) = Reached(c, x) /\ Recognized(r, x) = Recognized(c, x)
      /\ Exists(c, k) =>
            /\ Reached(r, k) = Reached(c, k) - (IF Weighs(c, v, k, "reach", R) THEN 1 ELSE 0)
            /\ Recognized(r, k) = Recognized(c, k) - (IF Weighs(c, v, k, "recog", R) THEN 1 ELSE 0)
  <2>1. CASE IsPromise(k)
    <3>1. r = ReleasePromise(c, k)
      BY <2>1
    <3>2. Weighs(c, v, k, "reach", R) /\ Weighs(c, v, k, "recog", R)
      BY <1>1, <2>1 DEF Weighs
    <3>3. Exists(c, k) /\ k \in DOMAIN c.promise
      BY <1>1, <1>3, <2>1, <3>2, WeighedExists, ExistsIs
    <3> DEFINE n == c.promise[k].refs
    <3>4. n \in Nat /\ n >= 1
      <4> DEFINE h == Held(c, k)
                 e == E[k]
                 d == Entered(c, k, "recog", R)
      <4>1. h \in Nat /\ e \in Nat /\ d \in Nat
        BY <1>3, HeldType, EnteredType DEF Loans
      <4>2. d >= 1
        BY <3>2, EnteredSome
      <4>3. n = h + e + d
        BY <1>1, <2>1, <3>3 DEF Sound, Balanced, Recognized
      <4> HIDE DEF h, e, d, n
      <4> QED
        BY <4>1, <4>2, <4>3
    <3> HIDE DEF r
    <3>5. Moves(c, r, k, -1)
      BY <1>3, <3>1, <3>3, <3>4, ReleasePromiseMoves
    <3>6. \A x \in Krefs : Exists(c, x) => Reached(c, x) \in Nat /\ Recognized(c, x) \in Nat
      BY <1>3, CountsType
    <3>7. Recount(c, r)
      BY <3>5 DEF Moves
    <3>8. \A x \in Krefs : x # k /\ Exists(c, x) =>
            Reached(r, x) = Reached(c, x) /\ Recognized(r, x) = Recognized(c, x)
      <4> TAKE x \in Krefs
      <4> HAVE x # k /\ Exists(c, x)
      <4>1. Reached(r, x) = Reached(c, x) + 0 /\ Recognized(r, x) = Recognized(c, x) + 0
        BY <3>5 DEF Moves
      <4> QED
        BY <3>6, <4>1
    <3>9. Reached(r, k) = Reached(c, k) - 1 /\ Recognized(r, k) = Recognized(c, k) - 1
      <4>1. Reached(r, k) = Reached(c, k) + (-1) /\ Recognized(r, k) = Recognized(c, k) + (-1)
        BY <3>3, <3>5 DEF Moves
      <4> QED
        BY <3>3, <3>6, <4>1
    <3> QED
      BY <3>2, <3>7, <3>8, <3>9
  <2>2. CASE ~IsPromise(k) /\ k \in DOMAIN c.object
    <3>1. r = ReleaseObject(c, k, 0)
      BY <2>2
    <3>2. ~Retiring(c, v, k) /\ <<v, k>> \notin R
      BY <1>1, <2>2, KrefsAre DEF Sound, RetiredIsGone
    <3>3. ~Weighs(c, v, k, "reach", R) /\ Weighs(c, v, k, "recog", R)
      BY <1>1, <2>2, <3>2 DEF Weighs
    <3> DEFINE m == c.object[k].reach
               n == c.object[k].recog
               t == ForgetEntry(c, v, k)
    <3>4. m \in Nat /\ n \in Nat /\ Reached(c, k) = m /\ Recognized(c, k) = n /\ Exists(c, k)
      BY <1>3, <2>2, StoreIs DEF ObjectRows, Reached, Recognized, Exists
    <3>5. m < n
      <4> DEFINE h == Held(c, k)
                 e == E[k]
                 a == Entered(c, k, "reach", R)
                 d == Entered(c, k, "recog", R)
      <4>1. Forgotten(c, t, v, k)
        BY <1>3, ForgottenIs
      <4>2. Entered(c, k, "reach", R) = Entered(t, k, "reach", R)
                     + (IF Weighs(c, v, k, "reach", R) THEN 1 ELSE 0)
        BY <4>1, AlikeSelf, ForgottenEntered
      <4>3. Entered(c, k, "recog", R) = Entered(t, k, "recog", R)
                     + (IF Weighs(c, v, k, "recog", R) THEN 1 ELSE 0)
        BY <4>1, AlikeSelf, ForgottenEntered
      <4>4. Entered(t, k, "reach", R) <= Entered(t, k, "recog", R)
            /\ Entered(t, k, "reach", R) \in Nat /\ Entered(t, k, "recog", R) \in Nat
        BY ReachersAreEntered, EnteredType
      <4>5. a < d
        BY <3>3, <4>2, <4>3, <4>4
      <4>6. h \in Nat /\ e \in Nat /\ a \in Nat /\ d \in Nat
        BY <1>3, HeldType, EnteredType DEF Loans
      <4>7. m = h + e + a /\ n = h + e + d
        BY <1>1, <2>2, <3>4 DEF Sound, Balanced, Reached, Recognized
      <4> HIDE DEF h, e, a, d, m, n
      <4> QED
        BY <4>5, <4>6, <4>7
    <3> HIDE DEF r
    <3>6. Recount(c, r) /\ CountsSet(c, r, k, m, n - 1)
      BY <1>3, <2>2, <3>1, <3>5, ReleaseRecognitionIs
    <3>7. \A x \in Krefs : x # k /\ Exists(c, x) =>
            Reached(r, x) = Reached(c, x) /\ Recognized(r, x) = Recognized(c, x)
      <4> TAKE x \in Krefs
      <4> HAVE x # k /\ Exists(c, x)
      <4>1. IsPromise(x) \/ x \in DOMAIN c.object
        BY <1>3, ExistsIs
      <4> QED
        BY <3>6, <4>1 DEF CountsSet, Reached, Recognized
    <3>8. Reached(r, k) = m /\ Recognized(r, k) = n - 1
      BY <2>2, <3>6 DEF CountsSet, Reached, Recognized
    <3> HIDE DEF m, n
    <3>9. Reached(r, k) = m - 0
      BY <3>4, <3>8
    <3> QED
      BY <3>3, <3>4, <3>6, <3>7, <3>8, <3>9
  <2>3. CASE ~IsPromise(k) /\ k \notin DOMAIN c.object
    <3>1. r = c
      BY <2>3 DEF ReleaseObject
    <3>2. ~Exists(c, k)
      BY <1>3, <2>3, ExistsIs
    <3> QED
      BY <1>3, <3>1, <3>2, RecountSelf
  <2> QED
    BY <2>1, <2>2, <2>3
<1> HIDE DEF r
<1>5. r.failed = FALSE
  BY <1>3, <1>4 DEF Recount
<1>6. /\ Sound(u, E, R) /\ Steady(c, u) /\ Shrinks(c, u) /\ ~Has(u, v, k)
      /\ u.object = r.object /\ u.actions = c.actions /\ Spares(c, u, v, k)
  BY <1>1, <1>4, ForgetIsSound
<1> HIDE DEF u
<1>7. DeleteCListEntry(s, v, k) = u
  BY <1>2, <1>3, <1>5
<1>8. Steady(s, u)
  BY <1>1, <1>3, <1>6, SteadyJoins DEF Sound
<1>9. Shrinks(s, c)
  <2>1. \A w \in Vats : \A x : Has(c, w, x) => Has(s, w, x) /\ c.clist[w][x].dir = s.clist[w][x].dir
    BY <1>1
  <2> QED
    BY <2>1 DEF Shrinks
<1>10. Stripped(s, u)
  BY <1>1, <1>4, <1>6, <1>9, ShrinksJoins DEF Stripped, Recount
<1>11. Spares(s, u, v, k)
  BY <1>1, <1>6 DEF Spares
<1> QED
  BY <1>6, <1>7, <1>8, <1>10, <1>11

LEMMA SameCountsIsSound ==
    ASSUME NEW E \in Hands, NEW R, NEW s, Sound(s, E, R), NEW t, Recount(s, t), SameCounts(s, t)
    PROVE  Sound(t, E, R) /\ Steady(s, t)
<1>1. s \in Stores
  BY DEF Sound
<1>2. ASSUME NEW k \in Krefs, Exists(s, k)
      PROVE  /\ Reached(t, k) = Reached(s, k) + E[k] - E[k]
             /\ Recognized(t, k) = Recognized(s, k) + E[k] - E[k]
  <2>1. Reached(s, k) \in Nat /\ Recognized(s, k) \in Nat /\ E[k] \in Int
    BY <1>1, <1>2, CountsType DEF Hands
  <2>2. Reached(t, k) = Reached(s, k) /\ Recognized(t, k) = Recognized(s, k)
    BY DEF SameCounts, Reached, Recognized
  <2> QED
    BY <2>1, <2>2
<1>3. Sound(t, E, R)
  BY <1>2, RecountIsSound
<1> QED
  BY <1>1, <1>3, RecountSteady

LEMMA CandidateIsSound ==
    ASSUME NEW E \in Hands, NEW R, NEW s, Sound(s, E, R), NEW k \in Krefs
    PROVE  /\ Sound(Candidate(s, k), E, R) /\ Steady(s, Candidate(s, k))
           /\ Candidate(s, k).clist = s.clist /\ Candidate(s, k).actions = s.actions
           /\ Candidate(s, k).object = s.object
<1>1. s \in Stores
  BY DEF Sound
<1>2. Recount(s, Candidate(s, k)) /\ SameCounts(s, Candidate(s, k))
  BY <1>1, CandidateIs
<1> QED
  BY <1>2, SameCountsIsSound DEF Recount, Frame, SameCounts

(* The entry for an export is gone, and with it the owner of the object.   *)
Disowned(s, t, v, k) ==
    /\ t \in Stores /\ Frame(s, t) /\ t.failed = s.failed /\ t.promise = s.promise
    /\ DOMAIN t.object = DOMAIN s.object
    /\ \A x \in DOMAIN s.object : x # k => t.object[x] = s.object[x]
    /\ t.object[k].owner = NoOne
    /\ t.object[k].reach = s.object[k].reach /\ t.object[k].recog = s.object[k].recog
    /\ \A w \in Vats : \A x : /\ w # v \/ x # k => (Has(t, w, x) <=> Has(s, w, x))
                              /\ (w # v \/ x # k) /\ Has(s, w, x) =>
                                    t.clist[w][x] = s.clist[w][x]
    /\ ~Has(t, v, k)

LEMMA DisownedIsSound ==
    ASSUME NEW E \in Hands, NEW R, NEW s, Sound(s, E, R), NEW v \in Vats, NEW k \in Objects,
           Has(s, v, k), s.clist[v][k].dir = "export", NEW t, Disowned(s, t, v, k)
    PROVE  Sound(t, E, R) /\ Steady(s, t) /\ Shrinks(s, t) /\ Spares(s, t, v, k)
<1>1. /\ s \in Stores /\ t \in Stores /\ s.failed = FALSE /\ t.failed = FALSE /\ Frame(s, t)
      /\ k \in Krefs /\ ~IsPromise(k) /\ k \in DOMAIN s.object /\ s.object[k].owner = v
      /\ DOMAIN t.object = DOMAIN s.object /\ t.promise = s.promise
  BY KrefsAre DEF Sound, Disowned, ExportsOwned
<1>2. SameRows(s.promise, t.promise)
  BY <1>1 DEF SameRows
<1>3. Steady(s, t)
  BY <1>1, <1>2, SameRowsSteady DEF Frame
<1>4. \A x \in Krefs : Held(t, x) = Held(s, x)
  BY <1>1 DEF Held, Frame
<1>5. \A x : Exists(t, x) <=> Exists(s, x)
  BY <1>1 DEF Exists
<1>6. \A w \in Vats, x \in Krefs : \A how : Weighs(s, w, x, how, R) <=> Weighs(t, w, x, how, R)
  <2> TAKE w \in Vats, x \in Krefs
  <2> TAKE how
  <2>1. Retiring(t, w, x) <=> Retiring(s, w, x)
    BY <1>1 DEF Retiring, Frame
  <2>2. CASE w = v /\ x = k
    BY <1>1, <2>2 DEF Weighs, Disowned
  <2>3. CASE w # v \/ x # k
    BY <2>1, <2>3 DEF Weighs, Disowned
  <2> QED
    BY <2>2, <2>3
<1>7. \A x \in Krefs : \A how : Entered(t, x, how, R) = Entered(s, x, how, R)
  BY <1>6, EnteredSame
<1>8. Balanced(t, E, R)
  <2>1. \A x \in Krefs : Exists(s, x) => Reached(t, x) = Reached(s, x) /\ Recognized(t, x) = Recognized(s, x)
    <3> TAKE x \in Krefs
    <3> HAVE Exists(s, x)
    <3>1. CASE x = k
      BY <1>1, <3>1 DEF Disowned, Reached, Recognized
    <3>2. CASE x # k
      <4>1. IsPromise(x) \/ x \in DOMAIN s.object
        BY <1>1, ExistsIs
      <4> QED
        BY <1>1, <3>2, <4>1 DEF Disowned, Reached, Recognized
    <3> QED
      BY <3>1, <3>2
  <2> QED
    BY <1>4, <1>5, <1>7, <2>1 DEF Sound, Balanced
<1>9. Fresh(t)
  BY <1>1 DEF Sound, Fresh, Frame
<1>10. ExportsOwned(t)
  <2> SUFFICES ASSUME NEW w \in Vats, NEW x \in Objects
               PROVE  Has(t, w, x) /\ t.clist[w][x].dir = "export" <=>
                          x \in DOMAIN t.object /\ t.object[x].owner = w
    BY DEF ExportsOwned
  <2>0. Has(s, w, x) /\ s.clist[w][x].dir = "export" <=>
             x \in DOMAIN s.object /\ s.object[x].owner = w
    BY DEF Sound, ExportsOwned
  <2>1. CASE x = k
    <3>1. t.object[x].owner # w
      BY <2>1, BoundsAreNaturals DEF Disowned
    <3>2. CASE w = v
      BY <2>1, <3>1, <3>2 DEF Disowned
    <3>3. CASE w # v
      BY <1>1, <2>0, <2>1, <3>1, <3>3 DEF Disowned
    <3> QED
      BY <3>2, <3>3
  <2>2. CASE x # k
    BY <1>1, <2>0, <2>2 DEF Disowned
  <2> QED
    BY <2>1, <2>2
<1>11. FlagsReach(t)
  <2> SUFFICES ASSUME NEW w \in Vats, NEW x \in Objects, Has(t, w, x), t.clist[w][x].reach
               PROVE  x \in DOMAIN t.object
    BY DEF FlagsReach
  <2>1. CASE x = k
    BY <1>1, <2>1
  <2>2. CASE x # k
    BY <1>1, <2>2 DEF Disowned, Sound, FlagsReach
  <2> QED
    BY <2>1, <2>2
<1>12. RetiredIsGone(t, R)
  BY <1>1 DEF Sound, RetiredIsGone, Retiring, Frame
<1>13. DeadAreEmpty(t)
  <2> SUFFICES ASSUME NEW w \in Vats
               PROVE  w \in t.configured \/ IsTerminated(t, w) \/ DOMAIN t.clist[w] = {}
    BY DEF DeadAreEmpty
  <2>1. /\ w \in s.configured \/ IsTerminated(s, w) \/ DOMAIN s.clist[w] = {}
        /\ t.configured = s.configured /\ (IsTerminated(t, w) <=> IsTerminated(s, w))
    BY <1>1 DEF Sound, DeadAreEmpty, Frame, IsTerminated
  <2>2. CASE DOMAIN s.clist[w] = {}
    <3>1. w # v
      BY <2>2 DEF Has
    <3> QED
      BY <2>2, <3>1 DEF Disowned, Has
  <2> QED
    BY <2>1, <2>2
<1>14. Shrinks(s, t) /\ Spares(s, t, v, k)
  BY DEF Shrinks, Spares, Disowned
<1> QED
  BY <1>1, <1>3, <1>8, <1>9, <1>10, <1>11, <1>12, <1>13, <1>14 DEF Sound

(* An object that has lost its owner.                                      *)
Orphan(s, k) == [s EXCEPT !.object[k].owner = NoOne]

LEMMA OrphanIs ==
    ASSUME NEW s \in Stores, NEW k \in DOMAIN s.object
    PROVE  LET t == Orphan(s, k)
           IN  /\ t \in Stores /\ Frame(s, t) /\ t.failed = s.failed /\ t.promise = s.promise
               /\ t.clist = s.clist /\ DOMAIN t.object = DOMAIN s.object
               /\ \A x \in DOMAIN s.object : x # k => t.object[x] = s.object[x]
               /\ t.object[k].owner = NoOne
               /\ t.object[k].reach = s.object[k].reach /\ t.object[k].recog = s.object[k].recog
<1> DEFINE row == [s.object[k] EXCEPT !.owner = NoOne]
           o == [s.object EXCEPT ![k] = row]
           t == Orphan(s, k)
<1>1. s.object[k] \in ObjectRows /\ k \in Objects
  BY StoreIs
<1>2. /\ row \in ObjectRows /\ row.owner = NoOne
      /\ row.reach = s.object[k].reach /\ row.recog = s.object[k].recog
  BY <1>1 DEF ObjectRows
<1>3. t = [s EXCEPT !.object = o]
  BY DEF Orphan
<1> HIDE DEF row
<1>4. s.object \in Tables(Objects, ObjectRows)
  BY StoreFields
<1>5. o \in Tables(Objects, ObjectRows)
  BY <1>1, <1>2, <1>4, TableChanges
<1>6. /\ DOMAIN o = DOMAIN s.object /\ o[k] = row
      /\ \A x \in DOMAIN s.object : x # k => o[x] = s.object[x]
  OBVIOUS
<1> HIDE DEF o
<1>7. t \in Stores
  BY <1>3, <1>5, StoreChanges
<1>8. /\ Frame(s, t) /\ t.failed = s.failed /\ t.promise = s.promise
      /\ t.clist = s.clist /\ t.object = o
  BY <1>3 DEF Frame, Stores
<1> HIDE DEF t
<1> QED
  BY <1>2, <1>6, <1>7, <1>8 DEF t

LEMMA ForgetExportIsSound ==
    ASSUME NEW E \in Hands, NEW R, NEW s, Sound(s, E, R), NEW v \in Vats, NEW k \in Objects,
           Has(s, v, k), s.clist[v][k].dir = "export"
    PROVE  LET u == ForgetExport(s, v, k)
           IN  /\ Sound(u, E, R) /\ Steady(s, u) /\ Shrinks(s, u) /\ ~Has(u, v, k)
               /\ Spares(s, u, v, k)
<1> DEFINE a == Orphan(s, k)
           b == ForgetEntry(a, v, k)
           u == Candidate(b, k)
<1>1. s \in Stores /\ s.failed = FALSE /\ k \in Krefs /\ k \in DOMAIN s.object /\ s.object[k].owner = v
  BY KrefsAre DEF Sound, ExportsOwned
<1>2. ForgetExport(s, v, k) = u
  BY <1>1 DEF ForgetExport, Orphan
<1>3. /\ a \in Stores /\ Frame(s, a) /\ a.failed = s.failed /\ a.promise = s.promise
      /\ a.clist = s.clist /\ DOMAIN a.object = DOMAIN s.object
      /\ \A x \in DOMAIN s.object : x # k => a.object[x] = s.object[x]
      /\ a.object[k].owner = NoOne
      /\ a.object[k].reach = s.object[k].reach /\ a.object[k].recog = s.object[k].recog
  BY <1>1, OrphanIs
<1> HIDE DEF a
<1>4. Forgotten(a, b, v, k)
  BY <1>1, <1>3, ForgottenIs
<1> HIDE DEF b
<1>5. Disowned(s, b, v, k)
  BY <1>3, <1>4 DEF Disowned, Forgotten, Frame, SameCounts, Has
<1>6. Sound(b, E, R) /\ Steady(s, b) /\ Shrinks(s, b) /\ ~Has(b, v, k) /\ Spares(s, b, v, k)
  BY <1>5, DisownedIsSound DEF Disowned
<1>7. Sound(u, E, R) /\ Steady(b, u) /\ u.clist = b.clist
  BY <1>1, <1>6, CandidateIsSound
<1> HIDE DEF u
<1>8. Steady(s, u)
  BY <1>1, <1>6, <1>7, SteadyJoins DEF Sound
<1>9. Shrinks(s, u) /\ ~Has(u, v, k) /\ Spares(s, u, v, k)
  BY <1>6, <1>7 DEF Shrinks, Spares, Has
<1> QED
  BY <1>2, <1>7, <1>8, <1>9

(* The entry for an export deleted, and the object orphaned.               *)
LEMMA AbandonIsSound ==
    ASSUME NEW E \in Hands, NEW R, NEW s, Sound(s, E, R), NEW v \in Vats, NEW k \in Objects,
           Has(s, v, k), s.clist[v][k].dir = "export"
    PROVE  LET u == OrphanKernelObject(DeleteCListEntry(s, v, k), v, k)
           IN  /\ Sound(u, E, R) /\ Steady(s, u) /\ Shrinks(s, u) /\ ~Has(u, v, k)
               /\ Spares(s, u, v, k)
<1> DEFINE c == [s EXCEPT !.clist[v][k].reach = FALSE]
           f == ForgetEntry(c, v, k)
           b == Orphan(f, k)
           u == Candidate(b, k)
<1>1. s \in Stores /\ s.failed = FALSE /\ k \in Krefs /\ k \in DOMAIN s.object /\ s.object[k].owner = v
      /\ ~IsPromise(k)
  BY KrefsAre DEF Sound, ExportsOwned
<1>2. ClearReachableFlag(s, v, k) = c
  BY <1>1 DEF ClearReachableFlag, ImportsObject
<1>3. Flagged(s, c, v, k)
  <2>1. FlagCleared(s, c, v, k)
    BY DEF FlagCleared
  <2> HIDE DEF c
  <2> QED
    BY <1>1, <2>1, FlagClearedIs
<1> HIDE DEF c
<1>4. c \in Stores /\ c.failed = FALSE
  BY <1>1, <1>3 DEF Flagged
<1>5. DeleteCListEntry(s, v, k) = f
  BY <1>1, <1>2, <1>4 DEF DeleteCListEntry
<1>6. Forgotten(c, f, v, k)
  BY <1>1, <1>4, ForgottenIs
<1> HIDE DEF f
<1>7. f \in Stores /\ f.failed = FALSE /\ k \in DOMAIN f.object /\ f.object[k].owner = v
  BY <1>1, <1>3, <1>4, <1>6 DEF Forgotten, Flagged, SameCounts
<1>8. OrphanKernelObject(f, v, k) = u
  BY <1>7 DEF OrphanKernelObject, Orphan
<1>9. /\ b \in Stores /\ Frame(f, b) /\ b.failed = f.failed /\ b.promise = f.promise
      /\ b.clist = f.clist /\ DOMAIN b.object = DOMAIN f.object
      /\ \A x \in DOMAIN f.object : x # k => b.object[x] = f.object[x]
      /\ b.object[k].owner = NoOne
      /\ b.object[k].reach = f.object[k].reach /\ b.object[k].recog = f.object[k].recog
  BY <1>7, OrphanIs
<1> HIDE DEF b
<1>10. Disowned(s, b, v, k)
  <2>1. Frame(s, b) /\ b.failed = s.failed /\ b.promise = s.promise /\ f.object = s.object
    BY <1>3, <1>6, <1>9 DEF Flagged, Forgotten, Frame, SameCounts
  <2>2. \A w \in Vats : \A x : /\ w # v \/ x # k => (Has(b, w, x) <=> Has(s, w, x))
                               /\ (w # v \/ x # k) /\ Has(s, w, x) =>
                                    b.clist[w][x] = s.clist[w][x]
    BY <1>3, <1>6, <1>9 DEF Flagged, Forgotten, Has
  <2>3. ~Has(b, v, k)
    BY <1>6, <1>9 DEF Forgotten, Has
  <2> QED
    BY <1>9, <2>1, <2>2, <2>3 DEF Disowned
<1>11. Sound(b, E, R) /\ Steady(s, b) /\ Shrinks(s, b) /\ ~Has(b, v, k) /\ Spares(s, b, v, k)
  BY <1>10, DisownedIsSound DEF Disowned
<1>12. Sound(u, E, R) /\ Steady(b, u) /\ u.clist = b.clist
  BY <1>1, <1>11, CandidateIsSound
<1> HIDE DEF u
<1>13. Steady(s, u)
  BY <1>1, <1>11, <1>12, SteadyJoins DEF Sound
<1>14. Shrinks(s, u) /\ ~Has(u, v, k) /\ Spares(s, u, v, k)
  BY <1>11, <1>12 DEF Shrinks, Spares, Has
<1> QED
  BY <1>5, <1>8, <1>12, <1>13, <1>14

-----------------------------------------------------------------------------
(* Changes no count depends on.                                            *)
Quiet(s, t) ==
    /\ t \in Stores /\ t.object = s.object /\ t.clist = s.clist /\ t.pins = s.pins
    /\ t.run = s.run /\ t.buffer = s.buffer /\ t.failed = s.failed
    /\ t.terminated = s.terminated /\ t.configured = s.configured
    /\ t.nextObject = s.nextObject /\ t.nextPromise = s.nextPromise
    /\ SameRows(s.promise, t.promise)
    /\ \A p \in DOMAIN s.promise : t.promise[p].refs = s.promise[p].refs
    /\ \A v, k : Retiring(t, v, k) <=> Retiring(s, v, k)

LEMMA QuietIsSound ==
    ASSUME NEW E \in Hands, NEW R, NEW s, Sound(s, E, R), NEW t, Quiet(s, t)
    PROVE  Sound(t, E, R) /\ Steady(s, t)
<1>1. s \in Stores /\ t \in Stores /\ DOMAIN t.promise = DOMAIN s.promise
  BY DEF Sound, Quiet, SameRows
<1>2. Steady(s, t)
  BY <1>1, SameRowsSteady DEF Quiet
<1>3. \A x \in Krefs : Held(t, x) = Held(s, x)
  <2> TAKE x \in Krefs
  <2>1. UsesInPromises(t.promise, x) = UsesInPromises(s.promise, x)
    BY <1>1, SameRowsShares, StoreFields DEF Quiet
  <2> QED
    BY <2>1 DEF Held, Quiet
<1>4. \A x : Exists(t, x) <=> Exists(s, x)
  BY <1>1 DEF Exists, Quiet
<1>5. \A x, how : Entered(t, x, how, R) = Entered(s, x, how, R)
  <2> TAKE x, how
  <2>1. \A v \in Vats : Weighs(s, v, x, how, R) <=> Weighs(t, v, x, how, R)
    BY DEF Weighs, Has, Quiet
  <2> QED
    BY <2>1, EnteredSame
<1>6. \A x \in Krefs : Exists(s, x) => Reached(t, x) = Reached(s, x) /\ Recognized(t, x) = Recognized(s, x)
  BY <1>1, ExistsIs DEF Quiet, Reached, Recognized
<1>7. Balanced(t, E, R)
  BY <1>3, <1>4, <1>5, <1>6 DEF Sound, Balanced
<1>8. Fresh(t) /\ ExportsOwned(t) /\ FlagsReach(t)
  BY <1>1 DEF Sound, Fresh, ExportsOwned, FlagsReach, Has, Quiet
<1>9. RetiredIsGone(t, R)
  BY DEF Sound, RetiredIsGone, Quiet
<1>10. DeadAreEmpty(t)
  BY DEF Sound, DeadAreEmpty, IsTerminated, Quiet
<1> QED
  BY <1>1, <1>2, <1>7, <1>8, <1>9, <1>10 DEF Sound, Quiet

-----------------------------------------------------------------------------
(* New numbers.                                                            *)

NewPromise(d, p) ==
    [state |-> "unresolved", decider |-> d, subscribers |-> {}, slots |-> <<>>, queue |-> <<>>,
     refs |-> 1]

LEMMA NewPromiseIs ==
    ASSUME NEW p \in Promises, NEW d \in Vats \cup {NoOne}
    PROVE  /\ NewPromise(d, p) \in PromiseRows /\ NewPromise(d, p).refs = 1
           /\ \A k \in Krefs : UsesInPromise(p, NewPromise(d, p), k) = IF k = p THEN 1 ELSE 0
<1> DEFINE row == NewPromise(d, p)
<1>1. <<>> \in Seq(Krefs) /\ <<>> \in Seq(Message)
  OBVIOUS
<1>2. row \in PromiseRows /\ row.refs = 1 /\ row.state = "unresolved" /\ row.queue = <<>>
  BY <1>1 DEF PromiseRows, NewPromise
<1> HIDE DEF row
<1>3. ASSUME NEW k \in Krefs PROVE UsesInPromise(p, row, k) = IF k = p THEN 1 ELSE 0
  <2>1. p \in Krefs
    BY KrefsAre
  <2>2. UsesInQueue(p, <<>>, k) = 0 /\ Uses(<<p>>, k) = IF p = k THEN 1 ELSE 0
    BY <2>1, UsesInNoQueue, UsesOfOne
  <2>3. UsesInPromise(p, row, k) = Uses(<<p>>, k) + UsesInQueue(p, <<>>, k)
    BY <1>2 DEF UsesInPromise
  <2> QED
    BY <2>2, <2>3
<1> QED
  BY <1>2, <1>3 DEF row

(* What nobody has a number for, nobody holds or has an entry for.         *)
LEMMA NothingHeld ==
    ASSUME NEW E \in Loans, NEW R, NEW s, Sound(s, E, R), NEW k \in Krefs, ~Exists(s, k)
    PROVE  Held(s, k) = 0 /\ E[k] = 0 /\ Entered(s, k, "recog", R) = 0 /\ Entered(s, k, "reach", R) = 0
<1> DEFINE h == Held(s, k)
           e == E[k]
           a == Entered(s, k, "reach", R)
           d == Entered(s, k, "recog", R)
<1>1. h \in Nat /\ e \in Nat /\ d \in Nat /\ a \in Nat /\ a <= d
  BY HeldType, EnteredType, ReachersAreEntered DEF Loans, Sound
<1>2. h + e + d = 0
  BY DEF Sound, Balanced
<1> HIDE DEF h, e, a, d
<1>3. h = 0 /\ e = 0 /\ d = 0 /\ a = 0
  BY <1>1, <1>2
<1> QED
  BY <1>3 DEF h, e, a, d

LEMMA InitKernelPromiseIsSound ==
    ASSUME NEW E \in Loans, NEW R, NEW s, Sound(s, E, R), s.nextPromise \in Promises,
           NEW d \in Vats \cup {NoOne}
    PROVE  LET t == InitKernelPromise(s, d)
           IN  /\ Sound(t, E, R) /\ Steady(s, t) /\ Exists(t, s.nextPromise)
               /\ t.clist = s.clist /\ t.object = s.object /\ t.nextObject = s.nextObject
               /\ t.nextPromise = s.nextPromise + 1
<1> DEFINE p == s.nextPromise
           row == NewPromise(d, p)
           f == [k \in DOMAIN s.promise \cup {p} |-> IF k \in DOMAIN s.promise THEN s.promise[k] ELSE row]
           t == InitKernelPromise(s, d)
<1>1. /\ s \in Stores /\ s.failed = FALSE /\ p \in Promises /\ p \in Krefs /\ IsPromise(p)
      /\ s.promise \in Tables(Promises, PromiseRows) /\ p \in Nat /\ E \in Hands
  BY KrefsAre, StoreFields, LoansAreHands DEF Sound
<1>2. t = [s EXCEPT !.nextPromise = p + 1, !.promise = f]
  BY DEF InitKernelPromise, NewPromise
<1>3. row \in PromiseRows /\ row.refs = 1
      /\ \A k \in Krefs : UsesInPromise(p, row, k) = IF k = p THEN 1 ELSE 0
  BY <1>1, NewPromiseIs
<1>4. p \notin DOMAIN s.promise
  <2>1. p \in DOMAIN s.promise => p < p
    BY DEF Sound, Fresh
  <2> QED
    BY <1>1, <2>1
<1> HIDE DEF row
<1>5. f \in Tables(Promises, PromiseRows)
  BY <1>1, <1>3, TableChanges
<1>6. /\ DOMAIN f = DOMAIN s.promise \cup {p} /\ f[p] = row
      /\ \A k \in DOMAIN s.promise : f[k] = s.promise[k]
  BY <1>4
<1> HIDE DEF f
<1>7. /\ t.promise = f /\ t.nextPromise = p + 1 /\ t.object = s.object /\ t.clist = s.clist
      /\ t.pins = s.pins /\ t.run = s.run /\ t.buffer = s.buffer /\ t.actions = s.actions
      /\ t.terminated = s.terminated /\ t.configured = s.configured
      /\ t.nextObject = s.nextObject /\ t.failed = s.failed
  BY <1>1, <1>2 DEF Stores
<1>8. t \in Stores
  <2> DEFINE a == [s EXCEPT !.nextPromise = p + 1]
  <2>1. a \in Stores
    BY <1>1, StoreChanges
  <2>2. t = [a EXCEPT !.promise = f]
    BY <1>1, <1>2 DEF Stores
  <2> HIDE DEF a
  <2> QED
    BY <1>5, <2>1, <2>2, StoreChanges
<1> HIDE DEF t
<1>9. \A k \in Krefs : Held(t, k) = Held(s, k) + (IF k = p THEN 1 ELSE 0)
  <2> TAKE k \in Krefs
  <2>1. UsesInPromises(f, k) = UsesInPromises(s.promise, k) - Share(s.promise, p, k) + Share(f, p, k)
    <3>1. \A q \in Promises : q # p => Share(f, q, k) = Share(s.promise, q, k)
      BY <1>6 DEF Share
    <3> QED
      BY <1>1, <1>5, <3>1, SharesOfOthers
  <2>2. Share(s.promise, p, k) = 0 /\ Share(f, p, k) = IF k = p THEN 1 ELSE 0
    BY <1>3, <1>4, <1>6 DEF Share
  <2> DEFINE a == UsesInItems(s.run, k)
             b == UsesInItems(s.buffer, k)
             c == UsesInPromises(s.promise, k)
             e == IF IsPromise(k) THEN 0 ELSE s.pins[k]
             one == IF k = p THEN 1 ELSE 0
  <2>3. a \in Nat /\ b \in Nat /\ c \in Nat /\ e \in Nat /\ one \in Nat
    BY <1>1, HeldType
  <2>4. UsesInPromises(f, k) = c + one
    BY <2>1, <2>2, <2>3
  <2>5. Held(s, k) = a + b + c + e /\ Held(t, k) = a + b + (c + one) + e
    BY <1>7, <2>4 DEF Held
  <2> HIDE DEF a, b, c, e, one
  <2>6. Held(t, k) = Held(s, k) + one
    BY <2>3, <2>5
  <2> QED
    BY <2>6 DEF one
<1>10. \A x : Exists(t, x) <=> Exists(s, x) \/ x = p
  BY <1>6, <1>7 DEF Exists
<1>11. \A x, how : Entered(t, x, how, R) = Entered(s, x, how, R)
  <2> TAKE x, how
  <2>1. \A v \in Vats : Weighs(s, v, x, how, R) <=> Weighs(t, v, x, how, R)
    BY <1>7 DEF Weighs, Has, Retiring
  <2> QED
    BY <2>1, EnteredSame
<1>12. Balanced(t, E, R)
  <2> SUFFICES ASSUME NEW k \in Krefs
               PROVE  IF Exists(t, k)
                      THEN /\ Reached(t, k) = Held(t, k) + E[k] + Entered(t, k, "reach", R)
                           /\ Recognized(t, k) = Held(t, k) + E[k] + Entered(t, k, "recog", R)
                      ELSE Held(t, k) + E[k] + Entered(t, k, "recog", R) = 0
    BY DEF Balanced
  <2>1. CASE k = p
    <3>1. ~Exists(s, p)
      BY <1>1, <1>4, ExistsIs
    <3>2. Held(s, p) = 0 /\ E[p] = 0 /\ Entered(s, p, "recog", R) = 0 /\ Entered(s, p, "reach", R) = 0
      BY <1>1, <3>1, NothingHeld
    <3>3. Held(t, p) = 1
      BY <1>1, <1>9, <3>2
    <3>4. Reached(t, p) = 1 /\ Recognized(t, p) = 1
      BY <1>1, <1>3, <1>6, <1>7 DEF Reached, Recognized
    <3> QED
      BY <1>10, <1>11, <2>1, <3>2, <3>3, <3>4
  <2>2. CASE k # p
    <3>1. Held(t, k) = Held(s, k) + 0
      BY <1>9, <2>2
    <3>2. Held(s, k) \in Nat
      BY <1>1, HeldType
    <3>3. Held(t, k) = Held(s, k)
      BY <3>1, <3>2
    <3>4. Exists(s, k) => Reached(t, k) = Reached(s, k) /\ Recognized(t, k) = Recognized(s, k)
      BY <1>1, <1>6, <1>7, <2>2, ExistsIs DEF Reached, Recognized
    <3> QED
      BY <1>10, <1>11, <2>2, <3>3, <3>4 DEF Sound, Balanced
  <2> QED
    BY <2>1, <2>2
<1>13. Fresh(t)
  <2>1. \A q \in DOMAIN t.promise : q < p + 1
    <3> TAKE q \in DOMAIN t.promise
    <3>1. q = p \/ q \in DOMAIN s.promise
      BY <1>6, <1>7
    <3>2. q \in DOMAIN s.promise => q < p /\ q \in Nat
      BY <1>1, StoreIs, KrefsAre DEF Sound, Fresh
    <3> QED
      BY <1>1, <3>1, <3>2
  <2>2. MaxObjects < p + 1
    BY <1>1, KrefsAre DEF Sound, Fresh
  <2>3. \A x \in DOMAIN t.object : x < t.nextObject
    BY <1>7 DEF Sound, Fresh
  <2> QED
    BY <1>7, <2>1, <2>2, <2>3 DEF Fresh
<1>14. ExportsOwned(t) /\ FlagsReach(t)
  BY <1>7 DEF Sound, ExportsOwned, FlagsReach, Has
<1>15. RetiredIsGone(t, R)
  BY <1>7 DEF Sound, RetiredIsGone, Retiring
<1>16. DeadAreEmpty(t)
  BY <1>7 DEF Sound, DeadAreEmpty, IsTerminated
<1>17. Steady(s, t)
  <2>1. Stands(s, t)
    <3>1. s.nextPromise <= t.nextPromise
      BY <1>1, <1>7
    <3>2. \A q \in DOMAIN t.promise : q < s.nextPromise => q \in DOMAIN s.promise /\ t.promise[q] = s.promise[q]
      <4> TAKE q \in DOMAIN t.promise
      <4> HAVE q < s.nextPromise
      <4>1. q # p
        BY <1>1
      <4> QED
        BY <1>6, <1>7, <4>1
    <3> QED
      BY <3>1, <3>2 DEF Stands
  <2> QED
    BY <1>7, <1>10, <2>1 DEF Steady
<1>18. Sound(t, E, R)
  BY <1>1, <1>7, <1>8, <1>12, <1>13, <1>14, <1>15, <1>16 DEF Sound
<1> QED
  BY <1>7, <1>10, <1>17, <1>18 DEF t

(* A number that has not been given out is in no c-list.                   *)
LEMMA UnknownToAll ==
    ASSUME NEW E \in Loans, NEW R, NEW s, Sound(s, E, R), NEW k \in Krefs,
           k \in {s.nextObject, s.nextPromise}, NEW v \in Vats,
           IsPromise(k) <=> k = s.nextPromise
    PROVE  ~Exists(s, k) /\ ~Has(s, v, k)
<1>1. s \in Stores /\ k \in Nat /\ s.nextObject \in Nat /\ s.nextPromise \in Nat
  BY KrefsAre, StoreFields DEF Sound
<1>2. ~Exists(s, k)
  <2>1. k \in DOMAIN s.object => k < s.nextObject
    BY DEF Sound, Fresh
  <2>2. k \in DOMAIN s.promise => k < s.nextPromise
    BY DEF Sound, Fresh
  <2>3. CASE IsPromise(k)
    BY <1>1, <2>2, <2>3, ExistsIs
  <2>4. CASE ~IsPromise(k)
    BY <1>1, <2>1, <2>4, ExistsIs
  <2> QED
    BY <2>3, <2>4
<1>3. ~Weighs(s, v, k, "recog", R)
  BY <1>2, WeighedExists
<1>4. CASE IsPromise(k)
  BY <1>2, <1>3, <1>4 DEF Weighs
<1>5. CASE ~IsPromise(k)
  <2>1. k \in Objects /\ k = s.nextObject
    BY <1>5, KrefsAre
  <2>2. k \notin DOMAIN s.object
    BY <1>2 DEF Exists
  <2>3. ~Retiring(s, v, k) /\ <<v, k>> \notin R
    <3>1. ~(k < s.nextObject)
      BY <1>1, <2>1
    <3> QED
      BY <2>1, <3>1 DEF Sound, RetiredIsGone
  <2>4. Has(s, v, k) => s.clist[v][k].dir # "export"
    BY <2>1, <2>2 DEF Sound, ExportsOwned
  <2>5. Has(s, v, k) => s.clist[v][k] \in CListEntries
    BY <1>1, StoreIs DEF Has
  <2>6. Has(s, v, k) => s.clist[v][k].dir = "import"
    BY <2>4, <2>5 DEF CListEntries
  <2>7. ~Has(s, v, k)
    BY <1>3, <2>3, <2>6 DEF Weighs
  <2> QED
    BY <1>2, <2>7
<1> QED
  BY <1>4, <1>5

LEMMA InitKernelObjectIs ==
    ASSUME NEW s \in Stores, s.nextObject \in Objects, s.nextObject \notin DOMAIN s.object,
           NEW v \in Vats
    PROVE  LET t == InitKernelObject(s, v)
               k == s.nextObject
           IN  /\ t \in Stores /\ DOMAIN t.object = DOMAIN s.object \cup {k}
               /\ \A x \in DOMAIN s.object : t.object[x] = s.object[x]
               /\ t.object[k].owner = v /\ t.object[k].reach = 0 /\ t.object[k].recog = 0
               /\ t.nextObject = s.nextObject + 1
               /\ t.clist = s.clist /\ t.promise = s.promise /\ t.pins = s.pins /\ t.run = s.run
               /\ t.buffer = s.buffer /\ t.actions = s.actions /\ t.terminated = s.terminated
               /\ t.configured = s.configured /\ t.failed = s.failed /\ t.nextPromise = s.nextPromise
<1> DEFINE k == s.nextObject
           row == [owner |-> v, reach |-> 0, recog |-> 0]
           o == [x \in DOMAIN s.object \cup {k} |-> IF x \in DOMAIN s.object THEN s.object[x] ELSE row]
           t == InitKernelObject(s, v)
           a == [s EXCEPT !.nextObject = k + 1]
<1>1. k \in Objects /\ k \in Nat /\ s.object \in Tables(Objects, ObjectRows)
  BY StoreFields
<1>2. row \in ObjectRows /\ row.owner = v /\ row.reach = 0 /\ row.recog = 0
  BY DEF ObjectRows
<1>3. t = [s EXCEPT !.nextObject = k + 1, !.object = o]
  BY DEF InitKernelObject
<1> HIDE DEF row
<1>4. o \in Tables(Objects, ObjectRows)
  BY <1>1, <1>2, TableChanges
<1>5. /\ DOMAIN o = DOMAIN s.object \cup {k} /\ o[k] = row
      /\ \A x \in DOMAIN s.object : o[x] = s.object[x]
  OBVIOUS
<1> HIDE DEF o
<1>6. /\ t.object = o /\ t.nextObject = s.nextObject + 1
      /\ t.clist = s.clist /\ t.promise = s.promise /\ t.pins = s.pins /\ t.run = s.run
      /\ t.buffer = s.buffer /\ t.actions = s.actions /\ t.terminated = s.terminated
      /\ t.configured = s.configured /\ t.failed = s.failed /\ t.nextPromise = s.nextPromise
  BY <1>3 DEF Stores
<1>7. t \in Stores
  <2>1. a \in Stores
    BY <1>1, StoreChanges
  <2>2. t = [a EXCEPT !.object = o]
    BY <1>3 DEF Stores
  <2> HIDE DEF a
  <2> QED
    BY <1>4, <2>1, <2>2, StoreChanges
<1> HIDE DEF t
<1> QED
  BY <1>2, <1>5, <1>6, <1>7 DEF t

LEMMA ExportObjectIsSound ==
    ASSUME NEW E \in Loans, NEW R, NEW s, Sound(s, E, R), NEW v \in Vats, Lives(s, v),
           s.nextObject \in Objects
    PROVE  LET k == s.nextObject
               u == AddCListEntry(InitKernelObject(s, v), v, k, "export")
           IN  Sound(u, E, R) /\ Steady(s, u) /\ Exists(u, k) /\ Has(u, v, k)
<1> DEFINE k == s.nextObject
           t == InitKernelObject(s, v)
           u == AddCListEntry(t, v, k, "export")
<1>1. /\ s \in Stores /\ s.failed = FALSE /\ k \in Objects /\ k \in Krefs /\ ~IsPromise(k) /\ k \in Nat
      /\ E \in Hands
  BY KrefsAre, LoansAreHands DEF Sound
<1>2. ~Exists(s, k) /\ \A w \in Vats : ~Has(s, w, k)
  <2>1. IsPromise(k) <=> k = s.nextPromise
    <3>1. k # s.nextPromise
      <4>1. MaxObjects < s.nextPromise /\ k <= MaxObjects /\ s.nextPromise \in Nat
        BY <1>1, StoreFields DEF Sound, Fresh, Objects
      <4> QED
        BY <1>1, <4>1, KrefsAre
    <3> QED
      BY <1>1, <3>1
  <2> QED
    BY <1>1, <2>1, UnknownToAll
<1>3. k \notin DOMAIN s.object
  BY <1>2 DEF Exists
<1>4. /\ t \in Stores /\ DOMAIN t.object = DOMAIN s.object \cup {k}
      /\ \A x \in DOMAIN s.object : t.object[x] = s.object[x]
      /\ t.object[k].owner = v /\ t.object[k].reach = 0 /\ t.object[k].recog = 0
      /\ t.nextObject = s.nextObject + 1
      /\ t.clist = s.clist /\ t.promise = s.promise /\ t.pins = s.pins /\ t.run = s.run
      /\ t.buffer = s.buffer /\ t.actions = s.actions /\ t.terminated = s.terminated
      /\ t.configured = s.configured /\ t.failed = s.failed /\ t.nextPromise = s.nextPromise
  BY <1>1, <1>3, InitKernelObjectIs
<1> HIDE DEF t
<1>5. u = ListEntry(t, v, k, "export")
  BY <1>1 DEF AddCListEntry, ListEntry
<1>6. Listed(t, u, v, k, "export")
  BY <1>1, <1>4, <1>5, ListedIs
<1> HIDE DEF u
<1>7. /\ u \in Stores /\ u.object = t.object /\ u.promise = t.promise /\ u.pins = t.pins
      /\ u.run = t.run /\ u.buffer = t.buffer /\ u.actions = t.actions /\ u.terminated = t.terminated
      /\ u.configured = t.configured /\ u.failed = t.failed /\ u.nextObject = t.nextObject
      /\ u.nextPromise = t.nextPromise
  BY <1>6 DEF Listed, Frame, SameCounts
<1>8. /\ \A w \in Vats : \A x : w # v \/ x # k => (Has(u, w, x) <=> Has(s, w, x))
      /\ \A w \in Vats : \A x : (w # v \/ x # k) /\ Has(s, w, x) => u.clist[w][x] = s.clist[w][x]
      /\ Has(u, v, k) /\ u.clist[v][k].dir = "export"
  BY <1>4, <1>6 DEF Listed, Has
<1>9. \A x \in Krefs : Held(u, x) = Held(s, x)
  BY <1>4, <1>7 DEF Held
<1>10. \A x : Exists(u, x) <=> Exists(s, x) \/ x = k
  BY <1>4, <1>7 DEF Exists
<1>11. \A x \in Krefs : \A how : Entered(u, x, how, R) = Entered(s, x, how, R)
  <2> TAKE x \in Krefs
  <2> TAKE how
  <2>1. \A w \in Vats : Weighs(s, w, x, how, R) <=> Weighs(u, w, x, how, R)
    <3> TAKE w \in Vats
    <3>1. CASE w = v /\ x = k
      BY <1>1, <1>2, <1>8, <3>1 DEF Weighs
    <3>2. CASE w # v \/ x # k
      <4>1. Retiring(u, w, x) <=> Retiring(s, w, x)
        BY <1>4, <1>7 DEF Retiring
      <4> QED
        BY <1>8, <3>2, <4>1 DEF Weighs
    <3> QED
      BY <3>1, <3>2
  <2> QED
    BY <2>1, EnteredSame
<1>12. Balanced(u, E, R)
  <2> SUFFICES ASSUME NEW x \in Krefs
               PROVE  IF Exists(u, x)
                      THEN /\ Reached(u, x) = Held(u, x) + E[x] + Entered(u, x, "reach", R)
                           /\ Recognized(u, x) = Held(u, x) + E[x] + Entered(u, x, "recog", R)
                      ELSE Held(u, x) + E[x] + Entered(u, x, "recog", R) = 0
    BY DEF Balanced
  <2>1. CASE x = k
    <3>1. Held(s, k) = 0 /\ E[k] = 0 /\ Entered(s, k, "recog", R) = 0 /\ Entered(s, k, "reach", R) = 0
      BY <1>1, <1>2, NothingHeld
    <3>2. Reached(u, k) = 0 /\ Recognized(u, k) = 0
      BY <1>1, <1>4, <1>7 DEF Reached, Recognized
    <3> QED
      BY <1>1, <1>9, <1>10, <1>11, <2>1, <3>1, <3>2
  <2>2. CASE x # k
    <3>1. Exists(s, x) => Reached(u, x) = Reached(s, x) /\ Recognized(u, x) = Recognized(s, x)
      BY <1>1, <1>4, <1>7, <2>2, ExistsIs DEF Reached, Recognized
    <3> QED
      BY <1>9, <1>10, <1>11, <2>2, <3>1 DEF Sound, Balanced
  <2> QED
    BY <2>1, <2>2
<1>13. Fresh(u)
  <2>1. \A x \in DOMAIN u.object : x < u.nextObject
    <3> TAKE x \in DOMAIN u.object
    <3>1. x = k \/ x \in DOMAIN s.object
      BY <1>4, <1>7
    <3>2. x \in DOMAIN s.object => x < k /\ x \in Nat
      BY <1>1, StoreIs DEF Sound, Fresh, Objects
    <3> QED
      BY <1>1, <1>4, <1>7, <3>1, <3>2
  <2> QED
    BY <1>4, <1>7, <2>1 DEF Sound, Fresh
<1>14. ExportsOwned(u)
  <2> SUFFICES ASSUME NEW w \in Vats, NEW x \in Objects
               PROVE  Has(u, w, x) /\ u.clist[w][x].dir = "export" <=>
                          x \in DOMAIN u.object /\ u.object[x].owner = w
    BY DEF ExportsOwned
  <2>1. CASE x = k
    <3>1. CASE w = v
      BY <1>4, <1>7, <1>8, <2>1, <3>1
    <3>2. CASE w # v
      BY <1>2, <1>4, <1>7, <1>8, <2>1, <3>2
    <3> QED
      BY <3>1, <3>2
  <2>2. CASE x # k
    <3>1. Has(s, w, x) /\ s.clist[w][x].dir = "export" <=> x \in DOMAIN s.object /\ s.object[x].owner = w
      BY DEF Sound, ExportsOwned
    <3> QED
      BY <1>4, <1>7, <1>8, <2>2, <3>1
  <2> QED
    BY <2>1, <2>2
<1>15. FlagsReach(u)
  <2> SUFFICES ASSUME NEW w \in Vats, NEW x \in Objects, Has(u, w, x), u.clist[w][x].reach
               PROVE  x \in DOMAIN u.object
    BY DEF FlagsReach
  <2>1. CASE x = k
    BY <1>4, <1>7, <2>1
  <2>2. CASE x # k
    BY <1>4, <1>7, <1>8, <2>2 DEF Sound, FlagsReach
  <2> QED
    BY <2>1, <2>2
<1>16. RetiredIsGone(u, R)
  <2> SUFFICES ASSUME NEW w \in Vats, NEW x \in Objects, Retiring(u, w, x) \/ <<w, x>> \in R
               PROVE  x \notin DOMAIN u.object /\ x < u.nextObject
    BY DEF RetiredIsGone
  <2>1. Retiring(s, w, x) \/ <<w, x>> \in R
    BY <1>4, <1>7 DEF Retiring
  <2>2. x \notin DOMAIN s.object /\ x < k
    BY <2>1 DEF Sound, RetiredIsGone
  <2>3. x \in Nat
    BY KrefsAre
  <2> QED
    BY <1>1, <1>4, <1>7, <2>2, <2>3
<1>17. DeadAreEmpty(u)
  <2> SUFFICES ASSUME NEW w \in Vats
               PROVE  w \in u.configured \/ IsTerminated(u, w) \/ DOMAIN u.clist[w] = {}
    BY DEF DeadAreEmpty
  <2>1. /\ w \in s.configured \/ IsTerminated(s, w) \/ DOMAIN s.clist[w] = {}
        /\ u.configured = s.configured /\ (IsTerminated(u, w) <=> IsTerminated(s, w))
    BY <1>4, <1>7 DEF Sound, DeadAreEmpty, IsTerminated
  <2>2. CASE w = v
    BY <2>1, <2>2 DEF Lives
  <2>3. CASE w # v
    BY <1>8, <2>1, <2>3 DEF Has
  <2> QED
    BY <2>2, <2>3
<1>18. Steady(s, u)
  <2>1. Stands(s, u)
    BY <1>1, <1>4, <1>7, StoreFields DEF Stands
  <2> QED
    BY <1>4, <1>7, <1>10, <2>1 DEF Steady
<1>19. Sound(u, E, R)
  BY <1>1, <1>4, <1>7, <1>12, <1>13, <1>14, <1>15, <1>16, <1>17 DEF Sound
<1> QED
  BY <1>8, <1>10, <1>18, <1>19 DEF u, t

(* A vat names a reference that it has or that is new.                     *)
Names(s, v, k) ==
    \/ Has(s, v, k) /\ Exists(s, k)
    \/ k = s.nextObject /\ k \in Objects
    \/ k = s.nextPromise /\ k \in Promises

LEMMA TranslateRefEtoKIsSound ==
    ASSUME NEW E \in Loans, NEW R, NEW s, Sound(s, E, R), NEW v \in Vats, Lives(s, v),
           NEW k \in Krefs, Names(s, v, k)
    PROVE  LET u == TranslateRefEtoK(s, v, k)
           IN  Sound(u, E, R) /\ Steady(s, u) /\ Exists(u, k) /\ Has(u, v, k)
<1>1. s \in Stores /\ s.failed = FALSE
  BY DEF Sound
<1>2. CASE Has(s, v, k) /\ Exists(s, k)
  BY <1>1, <1>2, SteadySelf DEF TranslateRefEtoK
<1>3. CASE k = s.nextObject /\ k \in Objects /\ ~(Has(s, v, k) /\ Exists(s, k))
  <2>1. ~Has(s, v, k)
    <3>1. IsPromise(k) <=> k = s.nextPromise
      <4>1. MaxObjects < s.nextPromise
        BY DEF Sound, Fresh
      <4> QED
        BY <1>3, <4>1, KrefsAre DEF IsPromise
    <3> QED
      BY <1>3, <3>1, UnknownToAll
  <2> DEFINE u == AddCListEntry(InitKernelObject(s, v), v, k, "export")
  <2>2. TranslateRefEtoK(s, v, k) = u
    BY <1>1, <1>3, <2>1 DEF TranslateRefEtoK
  <2>3. Sound(u, E, R) /\ Steady(s, u) /\ Exists(u, k) /\ Has(u, v, k)
    BY <1>3, ExportObjectIsSound
  <2> QED
    BY <2>2, <2>3
<1>4. CASE k = s.nextPromise /\ k \in Promises /\ ~(Has(s, v, k) /\ Exists(s, k))
  <2>1. IsPromise(k) /\ k \notin Objects
    BY <1>4, KrefsAre
  <2>2. ~Has(s, v, k)
    BY <1>4, <2>1, UnknownToAll
  <2> DEFINE t == InitKernelPromise(s, v)
             l == ListEntry(t, v, k, "export")
             u == AddCListEntry(t, v, k, "export")
  <2>3. TranslateRefEtoK(s, v, k) = u
    BY <1>1, <1>4, <2>1, <2>2 DEF TranslateRefEtoK
  <2>4. Sound(t, E, R) /\ Steady(s, t) /\ Exists(t, k) /\ t.clist = s.clist
    BY <1>4, InitKernelPromiseIsSound
  <2> HIDE DEF t
  <2>5. u = Charge(l, k)
    BY <2>1 DEF AddCListEntry, ListEntry
  <2>6. Listed(t, l, v, k, "export")
    BY <2>4, ListedIs DEF Sound
  <2> HIDE DEF l, u
  <2>7. ~Has(t, v, k) /\ Lives(t, v)
    BY <2>2, <2>4 DEF Has, Lives, Steady, IsTerminated
  <2>8. Recount(l, u) /\ Sound(u, E, R) /\ Steady(t, u)
    BY <2>1, <2>4, <2>5, <2>6, <2>7, LoansAreHands, ListPromiseIsSound
  <2>9. Steady(s, u)
    BY <1>1, <2>4, <2>8, SteadyJoins DEF Sound
  <2>10. Exists(u, k)
    BY <2>4, <2>8 DEF Steady
  <2>11. Has(u, v, k)
    BY <2>6, <2>8 DEF Recount, Listed, Has
  <2> QED
    BY <2>3, <2>8, <2>9, <2>10, <2>11
<1> QED
  BY <1>2, <1>3, <1>4 DEF Names

-----------------------------------------------------------------------------
(* Several references at a time, and the queues.                           *)

(* The stores that handing references to a vat goes through. *)
ToldRun(h, s, v, ks) ==
    /\ h[0] = s /\ h[Len(ks)] = TranslateAllKtoE(s, v, ks)
    /\ \A n \in 1 .. Len(ks) : h[n] = TranslateRefKtoE(h[n - 1], v, ks[n])

LEMMA ToldRuns ==
    ASSUME NEW s, NEW v, NEW ks, Len(ks) \in Nat
    PROVE  \E h : ToldRun(h, s, v, ks)
<1> DEFINE Solves(h, m) == h = [n \in 0 .. m |-> IF n = 0 THEN s
                                   ELSE TranslateRefKtoE(h[n - 1], v, ks[n])]
           S == {m \in Nat : \E h : Solves(h, m)}
<1>1. 0 \in S
  <2>1. Solves([n \in 0 .. 0 |-> s], 0)
    OBVIOUS
  <2> QED
    BY <2>1
<1>2. ASSUME NEW m \in Nat, m \in S PROVE m + 1 \in S
  <2>1. PICK h : Solves(h, m)
    BY <1>2
  <2> DEFINE x == TranslateRefKtoE(h[m], v, ks[m + 1])
             g == [n \in 0 .. m + 1 |-> IF n = m + 1 THEN x ELSE h[n]]
  <2>2. /\ g[m + 1] = x /\ \A n \in 0 .. m : g[n] = h[n]
        /\ g = [n \in 0 .. m + 1 |-> g[n]]
    OBVIOUS
  <2>3. \A n \in 0 .. m : h[n] = IF n = 0 THEN s ELSE TranslateRefKtoE(h[n - 1], v, ks[n])
    BY <2>1
  <2> HIDE DEF g
  <2>4. ASSUME NEW n \in 0 .. m + 1
        PROVE  g[n] = IF n = 0 THEN s ELSE TranslateRefKtoE(g[n - 1], v, ks[n])
    <3>1. CASE n = m + 1
      <4>1. n - 1 = m /\ g[m] = h[m] /\ n # 0
        BY <2>2, <3>1
      <4> QED
        BY <2>2, <3>1, <4>1
    <3>2. CASE n \in 0 .. m
      <4>1. g[n] = h[n] /\ (n # 0 => g[n - 1] = h[n - 1])
        <5>1. n # 0 => n - 1 \in 0 .. m
          BY <3>2
        <5> QED
          BY <2>2, <3>2, <5>1
      <4> QED
        BY <2>3, <3>2, <4>1
    <3> QED
      BY <3>1, <3>2
  <2>5. Solves(g, m + 1)
    BY <2>2, <2>4
  <2> HIDE DEF Solves
  <2> QED
    BY <2>5
<1>3. Nat \subseteq S
  <2> HIDE DEF S
  <2> QED
    BY <1>1, <1>2, SetInduction
<1> DEFINE h == CHOOSE h : Solves(h, Len(ks))
<1>4. Solves(h, Len(ks))
  <2> HIDE DEF Solves
  <2> QED
    BY <1>3
<1>5. TranslateAllKtoE(s, v, ks) = h[Len(ks)]
  BY DEF TranslateAllKtoE, Each
<1> HIDE DEF h
<1>6. \A n \in 0 .. Len(ks) : h[n] = IF n = 0 THEN s ELSE TranslateRefKtoE(h[n - 1], v, ks[n])
  BY <1>4
<1>7. ToldRun(h, s, v, ks)
  BY <1>5, <1>6 DEF ToldRun
<1> QED
  BY <1>7

LEMMA LivesSteadily ==
    ASSUME NEW s, NEW t, Steady(s, t), NEW v, Lives(s, v)
    PROVE  Lives(t, v)
BY DEF Steady, Lives, IsTerminated

LEMMA TranslateAllKtoEIsSound ==
    ASSUME NEW ks \in Seq(Krefs), NEW E \in Hands, NEW R, NEW s, Sound(s, E, R),
           NEW v \in Vats, Lives(s, v), \A i \in DOMAIN ks : Exists(s, ks[i])
    PROVE  LET u == TranslateAllKtoE(s, v, ks)
           IN  Sound(u, E, R) /\ Steady(s, u)
<1>1. Len(ks) \in Nat /\ s \in Stores /\ DOMAIN ks = 1 .. Len(ks)
  BY DEF Sound
<1>2. PICK h : ToldRun(h, s, v, ks)
  BY <1>1, ToldRuns
<1> DEFINE S == {n \in Nat : n <= Len(ks) => Sound(h[n], E, R) /\ Steady(s, h[n])}
<1>3. 0 \in S
  BY <1>1, <1>2, SteadySelf DEF ToldRun
<1>4. ASSUME NEW n \in Nat, n \in S PROVE n + 1 \in S
  <2> SUFFICES ASSUME n + 1 <= Len(ks)
               PROVE  Sound(h[n + 1], E, R) /\ Steady(s, h[n + 1])
    OBVIOUS
  <2>1. Sound(h[n], E, R) /\ Steady(s, h[n])
    BY <1>1, <1>4
  <2>2. n + 1 \in 1 .. Len(ks) /\ (n + 1) - 1 = n
    BY <1>1
  <2>3. h[n + 1] = TranslateRefKtoE(h[n], v, ks[n + 1])
    BY <1>2, <2>2 DEF ToldRun
  <2>4. ks[n + 1] \in Krefs /\ Exists(s, ks[n + 1])
    BY <1>1, <2>2
  <2>5. Exists(h[n], ks[n + 1]) /\ Lives(h[n], v)
    BY <2>1, <2>4, LivesSteadily DEF Steady
  <2>6. Sound(h[n + 1], E, R) /\ Steady(h[n], h[n + 1])
    BY <2>1, <2>3, <2>4, <2>5, TranslateRefKtoEIsSound
  <2> QED
    BY <1>1, <2>1, <2>6, SteadyJoins DEF Sound
<1>5. Nat \subseteq S
  <2> HIDE DEF S
  <2> QED
    BY <1>3, <1>4, SetInduction
<1>6. Sound(h[Len(ks)], E, R) /\ Steady(s, h[Len(ks)])
  BY <1>1, <1>5
<1> QED
  BY <1>2, <1>6 DEF ToldRun

(* The stores that naming references to the kernel goes through. *)
NamedRun(h, s, v, ks) ==
    /\ h[0] = s /\ h[Len(ks)] = TranslateAllEtoK(s, v, ks)
    /\ \A n \in 1 .. Len(ks) : h[n] = TranslateRefEtoK(h[n - 1], v, ks[n])

LEMMA NamedRuns ==
    ASSUME NEW s, NEW v, NEW ks, Len(ks) \in Nat
    PROVE  \E h : NamedRun(h, s, v, ks)
<1> DEFINE Solves(h, m) == h = [n \in 0 .. m |-> IF n = 0 THEN s
                                   ELSE TranslateRefEtoK(h[n - 1], v, ks[n])]
           S == {m \in Nat : \E h : Solves(h, m)}
<1>1. 0 \in S
  <2>1. Solves([n \in 0 .. 0 |-> s], 0)
    OBVIOUS
  <2> QED
    BY <2>1
<1>2. ASSUME NEW m \in Nat, m \in S PROVE m + 1 \in S
  <2>1. PICK h : Solves(h, m)
    BY <1>2
  <2> DEFINE x == TranslateRefEtoK(h[m], v, ks[m + 1])
             g == [n \in 0 .. m + 1 |-> IF n = m + 1 THEN x ELSE h[n]]
  <2>2. /\ g[m + 1] = x /\ \A n \in 0 .. m : g[n] = h[n]
        /\ g = [n \in 0 .. m + 1 |-> g[n]]
    OBVIOUS
  <2>3. \A n \in 0 .. m : h[n] = IF n = 0 THEN s ELSE TranslateRefEtoK(h[n - 1], v, ks[n])
    BY <2>1
  <2> HIDE DEF g
  <2>4. ASSUME NEW n \in 0 .. m + 1
        PROVE  g[n] = IF n = 0 THEN s ELSE TranslateRefEtoK(g[n - 1], v, ks[n])
    <3>1. CASE n = m + 1
      <4>1. n - 1 = m /\ g[m] = h[m] /\ n # 0
        BY <2>2, <3>1
      <4> QED
        BY <2>2, <3>1, <4>1
    <3>2. CASE n \in 0 .. m
      <4>1. g[n] = h[n] /\ (n # 0 => g[n - 1] = h[n - 1])
        <5>1. n # 0 => n - 1 \in 0 .. m
          BY <3>2
        <5> QED
          BY <2>2, <3>2, <5>1
      <4> QED
        BY <2>3, <3>2, <4>1
    <3> QED
      BY <3>1, <3>2
  <2>5. Solves(g, m + 1)
    BY <2>2, <2>4
  <2> HIDE DEF Solves
  <2> QED
    BY <2>5
<1>3. Nat \subseteq S
  <2> HIDE DEF S
  <2> QED
    BY <1>1, <1>2, SetInduction
<1> DEFINE h == CHOOSE h : Solves(h, Len(ks))
<1>4. Solves(h, Len(ks))
  <2> HIDE DEF Solves
  <2> QED
    BY <1>3
<1>5. TranslateAllEtoK(s, v, ks) = h[Len(ks)]
  BY DEF TranslateAllEtoK, Each
<1> HIDE DEF h
<1>6. \A n \in 0 .. Len(ks) : h[n] = IF n = 0 THEN s ELSE TranslateRefEtoK(h[n - 1], v, ks[n])
  BY <1>4
<1>7. NamedRun(h, s, v, ks)
  BY <1>5, <1>6 DEF NamedRun
<1> QED
  BY <1>7

(* Vats name no more than one reference at a time.                         *)
LEMMA TranslateAllEtoKIsSound ==
    ASSUME NEW E \in Loans, NEW R, NEW s, Sound(s, E, R),
           NEW v \in Vats, Lives(s, v), NEW ks,
           ks = <<>> \/ \E k \in Krefs : Names(s, v, k) /\ ks = <<k>>
    PROVE  LET u == TranslateAllEtoK(s, v, ks)
           IN  /\ Sound(u, E, R) /\ Steady(s, u) /\ ks \in Seq(Krefs)
               /\ \A i \in DOMAIN ks : Exists(u, ks[i])
<1>1. CASE ks = <<>>
  <2>1. Len(ks) = 0 /\ ks \in Seq(Krefs) /\ DOMAIN ks = {}
    BY <1>1
  <2>2. PICK h : NamedRun(h, s, v, ks)
    BY <2>1, NamedRuns
  <2>3. TranslateAllEtoK(s, v, ks) = s
    BY <2>1, <2>2 DEF NamedRun
  <2> QED
    BY <2>1, <2>3, SteadySelf DEF Sound
<1>2. ASSUME NEW k \in Krefs, Names(s, v, k), ks = <<k>>
      PROVE  LET u == TranslateAllEtoK(s, v, ks)
             IN  /\ Sound(u, E, R) /\ Steady(s, u) /\ ks \in Seq(Krefs)
                 /\ \A i \in DOMAIN ks : Exists(u, ks[i])
  <2>1. Len(ks) = 1 /\ ks \in Seq(Krefs) /\ DOMAIN ks = {1} /\ ks[1] = k
    BY <1>2
  <2>2. PICK h : NamedRun(h, s, v, ks)
    BY <2>1, NamedRuns
  <2>3. 1 \in 1 .. Len(ks) /\ 1 - 1 = 0
    BY <2>1
  <2>4. TranslateAllEtoK(s, v, ks) = TranslateRefEtoK(s, v, k)
    BY <2>1, <2>2, <2>3 DEF NamedRun
  <2> DEFINE u == TranslateRefEtoK(s, v, k)
  <2>5. Sound(u, E, R) /\ Steady(s, u) /\ Exists(u, k)
    BY <1>2, TranslateRefEtoKIsSound
  <2> HIDE DEF u
  <2> QED
    BY <2>1, <2>4, <2>5 DEF u
<1> QED
  BY <1>1, <1>2

(* References that change hands, whatever the counts.                      *)
Passes(s, t) ==
    /\ t \in Stores /\ t.object = s.object /\ t.clist = s.clist /\ t.failed = s.failed
    /\ DOMAIN t.promise = DOMAIN s.promise
    /\ \A p \in DOMAIN s.promise : t.promise[p].refs = s.promise[p].refs
    /\ t.terminated = s.terminated /\ t.configured = s.configured
    /\ t.nextObject = s.nextObject /\ t.nextPromise = s.nextPromise
    /\ \A v : \A k : Retiring(t, v, k) <=> Retiring(s, v, k)

LEMMA PassesIsSound ==
    ASSUME NEW E \in Hands, NEW F \in Hands, NEW R, NEW s, Sound(s, E, R), NEW t, Passes(s, t),
           \A k \in Krefs : Held(t, k) + F[k] = Held(s, k) + E[k]
    PROVE  /\ Sound(t, F, R) /\ (Stands(s, t) => Steady(s, t))
           /\ \A k : Exists(t, k) <=> Exists(s, k)
<1>1. s \in Stores /\ t \in Stores /\ Balanced(s, E, R)
  BY DEF Sound, Passes
<1>2. \A x : Exists(t, x) <=> Exists(s, x)
  BY DEF Exists, Passes
<1>3. \A x : \A how : Entered(t, x, how, R) = Entered(s, x, how, R)
  <2> TAKE x
  <2> TAKE how
  <2>1. \A v \in Vats : Weighs(s, v, x, how, R) <=> Weighs(t, v, x, how, R)
    BY DEF Weighs, Has, Passes
  <2> QED
    BY <2>1, EnteredSame
<1>4. \A x \in Krefs : Exists(s, x) => Reached(t, x) = Reached(s, x) /\ Recognized(t, x) = Recognized(s, x)
  BY <1>1, ExistsIs DEF Passes, Reached, Recognized
<1>5. ASSUME NEW k \in Krefs PROVE Follows(s, E, R, t, F, R, k)
  <2> DEFINE h == Held(s, k)
             g == Held(t, k)
             e == E[k]
             f == F[k]
             a == Entered(s, k, "reach", R)
             d == Entered(s, k, "recog", R)
             m == Reached(s, k)
             n == Recognized(s, k)
  <2>1. h \in Nat /\ g \in Nat /\ e \in Int /\ f \in Int /\ a \in Nat /\ d \in Nat /\ g + f = h + e
    BY <1>1, HeldType, EnteredType DEF Hands
  <2>2. Entered(t, k, "reach", R) = a /\ Entered(t, k, "recog", R) = d
    BY <1>3
  <2>3. CASE Exists(s, k)
    <3>1. m \in Nat /\ n \in Nat /\ Reached(t, k) = m /\ Recognized(t, k) = n
      BY <1>1, <1>4, <2>3, CountsType
    <3> HIDE DEF h, g, e, f, a, d, m, n
    <3>2. m - m = g - h + f - e + a - a /\ n - n = g - h + f - e + d - d
      BY <2>1, <3>1
    <3> QED
      BY <1>2, <2>2, <2>3, <3>1, <3>2 DEF Follows, h, g, e, f, a, d, m, n
  <2>4. CASE ~Exists(s, k)
    <3> HIDE DEF h, g, e, f, a, d, m, n
    <3>1. g + f + d = h + e + d
      BY <2>1
    <3> QED
      BY <1>2, <2>2, <2>4, <3>1 DEF Follows, h, g, e, f, d
  <2> QED
    BY <2>3, <2>4
<1>6. Balanced(t, F, R)
  BY <1>1, <1>5, BalanceFollows
<1>7. Fresh(t) /\ ExportsOwned(t) /\ FlagsReach(t)
  BY DEF Sound, Fresh, ExportsOwned, FlagsReach, Has, Passes
<1>8. RetiredIsGone(t, R)
  BY DEF Sound, RetiredIsGone, Passes
<1>9. DeadAreEmpty(t)
  BY DEF Sound, DeadAreEmpty, IsTerminated, Passes
<1>10. Sound(t, F, R)
  BY <1>1, <1>6, <1>7, <1>8, <1>9 DEF Sound, Passes
<1>11. Stands(s, t) => Steady(s, t)
  BY <1>2 DEF Steady, Passes
<1> QED
  BY <1>2, <1>10, <1>11

(* One item more in a queue of the kernel's.                               *)
Queued(s, t, x) ==
    /\ t \in Stores /\ t.object = s.object /\ t.promise = s.promise /\ t.clist = s.clist
    /\ t.failed = s.failed /\ t.pins = s.pins /\ t.actions = s.actions
    /\ t.terminated = s.terminated /\ t.configured = s.configured
    /\ t.nextObject = s.nextObject /\ t.nextPromise = s.nextPromise
    /\ \/ t.run = Append(s.run, x) /\ t.buffer = s.buffer
       \/ t.run = s.run /\ t.buffer = Append(s.buffer, x)

LEMMA QueuedIsSound ==
    ASSUME NEW E, NEW F, NEW x \in Items, Lends(F, E, ItemRefs(x)),
           NEW R, NEW s, Sound(s, E, R), NEW t, Queued(s, t, x)
    PROVE  Sound(t, F, R) /\ Steady(s, t)
<1>1. s \in Stores /\ t \in Stores /\ E \in Hands /\ F \in Hands /\ ItemRefs(x) \in Seq(Krefs)
  BY ItemRefsType DEF Sound, Queued, Lends
<1>2. Passes(s, t)
  BY DEF Passes, Queued, Retiring
<1>3. ASSUME NEW k \in Krefs PROVE Held(t, k) + F[k] = Held(s, k) + E[k]
  <2> DEFINE a == UsesInItems(s.run, k)
             b == UsesInItems(s.buffer, k)
             c == UsesInPromises(s.promise, k)
             d == IF IsPromise(k) THEN 0 ELSE s.pins[k]
             u == Uses(ItemRefs(x), k)
             f == F[k]
  <2>1. a \in Nat /\ b \in Nat /\ c \in Nat /\ d \in Nat /\ u \in Nat /\ f \in Int /\ E[k] = f + u
    BY <1>1, HeldType, UsesType DEF Hands, Lends
  <2>2. s.run \in Seq(Items) /\ s.buffer \in Seq(Items)
    BY <1>1, StoreFields
  <2>3. UsesInItems(Append(s.run, x), k) = a + u /\ UsesInItems(Append(s.buffer, x), k) = b + u
    BY <2>2, UsesInMoreItems
  <2>4. Held(s, k) = a + b + c + d
    BY DEF Held
  <2>5. Held(t, k) = (a + u) + b + c + d \/ Held(t, k) = a + (b + u) + c + d
    BY <2>3 DEF Queued, Held
  <2> HIDE DEF a, b, c, d, u, f
  <2>6. Held(t, k) + f = Held(s, k) + (f + u)
    BY <2>1, <2>4, <2>5
  <2> QED
    BY <2>1, <2>6 DEF f
<1>4. Sound(t, F, R) /\ (Stands(s, t) => Steady(s, t))
  BY <1>1, <1>2, <1>3, PassesIsSound
<1>5. Stands(s, t)
  BY <1>1, StoreFields DEF Stands, Queued
<1> QED
  BY <1>4, <1>5

LEMMA EnqueueIs ==
    ASSUME NEW s \in Stores, s.failed = FALSE, NEW x \in Items, NEW when
    PROVE  Queued(s, Enqueue(s, x, when), x)
<1>1. s.run \in Seq(Items) /\ s.buffer \in Seq(Items)
  BY StoreFields
<1>2. Append(s.run, x) \in Seq(Items) /\ Append(s.buffer, x) \in Seq(Items)
  BY <1>1
<1>3. CASE when = "immediate"
  <2> DEFINE t == [s EXCEPT !.run = Append(s.run, x)]
  <2>1. Enqueue(s, x, when) = t
    BY <1>3 DEF Enqueue
  <2>2. t \in Stores
    BY <1>2, StoreChanges
  <2>3. /\ t.object = s.object /\ t.promise = s.promise /\ t.clist = s.clist
        /\ t.failed = s.failed /\ t.pins = s.pins /\ t.actions = s.actions
        /\ t.terminated = s.terminated /\ t.configured = s.configured
        /\ t.nextObject = s.nextObject /\ t.nextPromise = s.nextPromise
        /\ t.run = Append(s.run, x) /\ t.buffer = s.buffer
    BY DEF Stores
  <2> HIDE DEF t
  <2> QED
    BY <2>1, <2>2, <2>3 DEF Queued
<1>4. CASE when # "immediate"
  <2> DEFINE t == [s EXCEPT !.buffer = Append(s.buffer, x)]
  <2>1. Enqueue(s, x, when) = t
    BY <1>4 DEF Enqueue
  <2>2. t \in Stores
    BY <1>2, StoreChanges
  <2>3. /\ t.object = s.object /\ t.promise = s.promise /\ t.clist = s.clist
        /\ t.failed = s.failed /\ t.pins = s.pins /\ t.actions = s.actions
        /\ t.terminated = s.terminated /\ t.configured = s.configured
        /\ t.nextObject = s.nextObject /\ t.nextPromise = s.nextPromise
        /\ t.run = s.run /\ t.buffer = Append(s.buffer, x)
    BY DEF Stores
  <2> HIDE DEF t
  <2> QED
    BY <2>1, <2>2, <2>3 DEF Queued
<1> QED
  BY <1>3, <1>4

(* What an operation does that settles nothing and queues nothing on a     *)
(* promise.                                                                *)
Deals(s, t) == Steady(s, t) /\ SameRows(s.promise, t.promise)

LEMMA DealsJoins ==
    ASSUME NEW s \in Stores, NEW t \in Stores, NEW u \in Stores, Deals(s, t), Deals(t, u)
    PROVE  Deals(s, u)
<1>1. Steady(s, u)
  BY SteadyJoins DEF Deals
<1> QED
  BY <1>1 DEF Deals, SameRows

(* References borrowed from nobody and given to an item.                   *)
LEMMA LentTo ==
    ASSUME NEW E \in Hands, NEW ks \in Seq(Krefs)
    PROVE  \E F : Lends(E, F, ks)
<1> DEFINE F == [x \in Krefs |-> E[x] + Uses(ks, x)]
<1>1. \A x \in Krefs : E[x] \in Int /\ Uses(ks, x) \in Nat
  BY UsesType DEF Hands
<1>2. \A x \in Krefs : E[x] + Uses(ks, x) \in Int
  BY <1>1
<1>3. F \in Hands
  BY <1>2 DEF Hands
<1>4. Lends(E, F, ks)
  BY <1>3 DEF Lends
<1> HIDE DEF F
<1> QED
  BY <1>4

LEMMA EnqueueSendIsSound ==
    ASSUME NEW E \in Hands, NEW R, NEW s, Sound(s, E, R), NEW target \in Krefs, NEW m \in Message,
           \A i \in DOMAIN MessageRefs(target, m) : Exists(s, MessageRefs(target, m)[i]), NEW when
    PROVE  LET u == EnqueueSend(s, target, m, when)
           IN  Sound(u, E, R) /\ Deals(s, u)
<1> DEFINE ks == MessageRefs(target, m)
           x == SendItem(target, m)
           t == ChargeAll(s, ks)
           u == EnqueueSend(s, target, m, when)
<1>1. ks \in Seq(Krefs) /\ s \in Stores
  BY MessageRefsType DEF Sound
<1>2. x \in Items /\ ItemRefs(x) = ks
  <2>1. x \in Items
    BY DEF SendItem, Items
  <2>2. x.type = "send" /\ x.target = target /\ x.message = m
    BY DEF SendItem
  <2> HIDE DEF x
  <2> QED
    BY <2>1, <2>2, ItemRefsType
<1>3. u = Enqueue(t, x, when)
  BY DEF EnqueueSend
<1>4. \A i \in DOMAIN ks : Exists(s, ks[i])
  OBVIOUS
<1> HIDE DEF ks, x, u
<1>5. PICK F : Lends(E, F, ks)
  BY <1>1, LentTo
<1>6. Recount(s, t) /\ Sound(t, F, R)
  BY <1>1, <1>4, <1>5, ChargeAllIsSound
<1> HIDE DEF t
<1>7. t \in Stores /\ t.failed = FALSE
  BY <1>6 DEF Sound
<1>8. Queued(t, u, x)
  BY <1>2, <1>3, <1>7, EnqueueIs
<1>9. Sound(u, E, R) /\ Steady(t, u)
  BY <1>2, <1>5, <1>6, <1>8, QueuedIsSound
<1>10. Steady(s, u)
  BY <1>1, <1>6, <1>7, <1>9, RecountSteady, SteadyJoins DEF Sound
<1>11. SameRows(s.promise, u.promise)
  BY <1>6, <1>8 DEF Recount, Queued, SameRows
<1> QED
  BY <1>9, <1>10, <1>11 DEF Deals, u

LEMMA EnqueueNotifyIsSound ==
    ASSUME NEW E \in Hands, NEW R, NEW s, Sound(s, E, R), NEW v \in Vats, NEW p \in Promises,
           Exists(s, p), NEW when
    PROVE  LET u == EnqueueNotify(s, v, p, when)
           IN  Sound(u, E, R) /\ Deals(s, u)
<1> DEFINE x == NotifyItem(v, p)
           t == Charge(s, p)
           u == EnqueueNotify(s, v, p, when)
<1>1. p \in Krefs /\ s \in Stores
  BY KrefsAre DEF Sound
<1>2. x \in Items /\ ItemRefs(x) = <<p>>
  <2>1. x \in Items
    BY DEF NotifyItem, Items
  <2>2. x.type = "notify" /\ x.kpid = p
    BY DEF NotifyItem
  <2> HIDE DEF x
  <2> QED
    BY <2>1, <2>2, ItemRefsType
<1>3. u = Enqueue(t, x, when)
  BY DEF EnqueueNotify
<1> HIDE DEF x, u
<1>4. PICK F : Lends(E, F, <<p>>)
  <2>1. <<p>> \in Seq(Krefs)
    BY <1>1
  <2> QED
    BY <2>1, LentTo
<1>5. Shifts(E, F, p, 1)
  BY <1>1, <1>4, UsesOfOne DEF Lends, Shifts
<1>6. Recount(s, t) /\ Sound(t, F, R)
  BY <1>1, <1>5, ChargeIsSound
<1> HIDE DEF t
<1>7. t \in Stores /\ t.failed = FALSE
  BY <1>6 DEF Sound
<1>8. Queued(t, u, x)
  BY <1>2, <1>3, <1>7, EnqueueIs
<1>9. Sound(u, E, R) /\ Steady(t, u)
  BY <1>2, <1>4, <1>6, <1>8, QueuedIsSound
<1>10. Steady(s, u)
  BY <1>1, <1>6, <1>7, <1>9, RecountSteady, SteadyJoins DEF Sound
<1>11. SameRows(s.promise, u.promise)
  BY <1>6, <1>8 DEF Recount, Queued, SameRows
<1> QED
  BY <1>9, <1>10, <1>11 DEF Deals, u

LEMMA InOrderIsSequence ==
    ASSUME NEW n \in Nat, NEW S \in SUBSET (1 .. n)
    PROVE  /\ InOrder(S) \in Seq(S) /\ Len(InOrder(S)) \in Nat
           /\ DOMAIN InOrder(S) = 1 .. Len(InOrder(S))
           /\ \A x \in S : \E i \in DOMAIN InOrder(S) : InOrder(S)[i] = x
<1> DEFINE f == InOrder(S)
           m == Cardinality(S)
<1>1. f \in [1 .. m -> S] /\ m \in Nat
  BY InOrderOrders
<1>2. \A x \in S : \E i \in 1 .. m : f[i] = x
  BY InOrderReaches
<1> HIDE DEF f, m
<1>3. f \in Seq(S) /\ Len(f) = m /\ DOMAIN f = 1 .. m
  BY <1>1
<1> QED
  BY <1>1, <1>2, <1>3 DEF f

(* The stores that notifying vats goes through. *)
NotifyRun(h, s, vs, p, when) ==
    /\ h[0] = s /\ h[Len(vs)] = NotifyAll(s, vs, p, when)
    /\ \A n \in 1 .. Len(vs) : h[n] = EnqueueNotify(h[n - 1], vs[n], p, when)

LEMMA NotifyRuns ==
    ASSUME NEW s, NEW vs, NEW p, NEW when, Len(vs) \in Nat
    PROVE  \E h : NotifyRun(h, s, vs, p, when)
<1> DEFINE Solves(h, m) == h = [n \in 0 .. m |-> IF n = 0 THEN s
                                   ELSE EnqueueNotify(h[n - 1], vs[n], p, when)]
           S == {m \in Nat : \E h : Solves(h, m)}
<1>1. 0 \in S
  <2>1. Solves([n \in 0 .. 0 |-> s], 0)
    OBVIOUS
  <2> QED
    BY <2>1
<1>2. ASSUME NEW m \in Nat, m \in S PROVE m + 1 \in S
  <2>1. PICK h : Solves(h, m)
    BY <1>2
  <2> DEFINE x == EnqueueNotify(h[m], vs[m + 1], p, when)
             g == [n \in 0 .. m + 1 |-> IF n = m + 1 THEN x ELSE h[n]]
  <2>2. /\ g[m + 1] = x /\ \A n \in 0 .. m : g[n] = h[n]
        /\ g = [n \in 0 .. m + 1 |-> g[n]]
    OBVIOUS
  <2>3. \A n \in 0 .. m : h[n] = IF n = 0 THEN s ELSE EnqueueNotify(h[n - 1], vs[n], p, when)
    BY <2>1
  <2> HIDE DEF g
  <2>4. ASSUME NEW n \in 0 .. m + 1
        PROVE  g[n] = IF n = 0 THEN s ELSE EnqueueNotify(g[n - 1], vs[n], p, when)
    <3>1. CASE n = m + 1
      <4>1. n - 1 = m /\ g[m] = h[m] /\ n # 0
        BY <2>2, <3>1
      <4> QED
        BY <2>2, <3>1, <4>1
    <3>2. CASE n \in 0 .. m
      <4>1. g[n] = h[n] /\ (n # 0 => g[n - 1] = h[n - 1])
        <5>1. n # 0 => n - 1 \in 0 .. m
          BY <3>2
        <5> QED
          BY <2>2, <3>2, <5>1
      <4> QED
        BY <2>3, <3>2, <4>1
    <3> QED
      BY <3>1, <3>2
  <2>5. Solves(g, m + 1)
    BY <2>2, <2>4
  <2> HIDE DEF Solves
  <2> QED
    BY <2>5
<1>3. Nat \subseteq S
  <2> HIDE DEF S
  <2> QED
    BY <1>1, <1>2, SetInduction
<1> DEFINE h == CHOOSE h : Solves(h, Len(vs))
<1>4. Solves(h, Len(vs))
  <2> HIDE DEF Solves
  <2> QED
    BY <1>3
<1>5. NotifyAll(s, vs, p, when) = h[Len(vs)]
  BY DEF NotifyAll, Each
<1> HIDE DEF h
<1>6. \A n \in 0 .. Len(vs) : h[n] = IF n = 0 THEN s ELSE EnqueueNotify(h[n - 1], vs[n], p, when)
  BY <1>4
<1>7. NotifyRun(h, s, vs, p, when)
  BY <1>5, <1>6 DEF NotifyRun
<1> QED
  BY <1>7

LEMMA NotifyAllIsSound ==
    ASSUME NEW vs \in Seq(Vats), NEW E \in Hands, NEW R, NEW s, Sound(s, E, R),
           NEW p \in Promises, Exists(s, p), NEW when
    PROVE  LET u == NotifyAll(s, vs, p, when)
           IN  Sound(u, E, R) /\ Deals(s, u)
<1>1. Len(vs) \in Nat /\ s \in Stores /\ DOMAIN vs = 1 .. Len(vs) /\ p \in Krefs
  BY KrefsAre DEF Sound
<1>2. PICK h : NotifyRun(h, s, vs, p, when)
  BY <1>1, NotifyRuns
<1> DEFINE S == {n \in Nat : n <= Len(vs) => Sound(h[n], E, R) /\ Deals(s, h[n])}
<1>3. 0 \in S
  BY <1>1, <1>2, SteadySelf DEF NotifyRun, Deals, SameRows
<1>4. ASSUME NEW n \in Nat, n \in S PROVE n + 1 \in S
  <2> SUFFICES ASSUME n + 1 <= Len(vs)
               PROVE  Sound(h[n + 1], E, R) /\ Deals(s, h[n + 1])
    OBVIOUS
  <2>1. Sound(h[n], E, R) /\ Deals(s, h[n])
    BY <1>1, <1>4
  <2>2. n + 1 \in 1 .. Len(vs) /\ (n + 1) - 1 = n
    BY <1>1
  <2>3. h[n + 1] = EnqueueNotify(h[n], vs[n + 1], p, when)
    BY <1>2, <2>2 DEF NotifyRun
  <2>4. vs[n + 1] \in Vats
    BY <1>1, <2>2
  <2>5. Exists(h[n], p)
    BY <1>1, <2>1 DEF Deals, Steady
  <2>6. Sound(h[n + 1], E, R) /\ Deals(h[n], h[n + 1])
    BY <2>1, <2>3, <2>4, <2>5, EnqueueNotifyIsSound
  <2> QED
    BY <1>1, <2>1, <2>6, DealsJoins DEF Sound
<1>5. Nat \subseteq S
  <2> HIDE DEF S
  <2> QED
    BY <1>3, <1>4, SetInduction
<1>6. Sound(h[Len(vs)], E, R) /\ Deals(s, h[Len(vs)])
  BY <1>1, <1>5
<1> QED
  BY <1>2, <1>6 DEF NotifyRun

(* The stores that sending a queue on goes through. *)
SendRun(h, s, p, queue, when) ==
    /\ h[0] = s /\ h[Len(queue)] = SendAll(s, p, queue, when)
    /\ \A n \in 1 .. Len(queue) : h[n] = EnqueueSend(h[n - 1], p, queue[n], when)

LEMMA SendRuns ==
    ASSUME NEW s, NEW p, NEW queue, NEW when, Len(queue) \in Nat
    PROVE  \E h : SendRun(h, s, p, queue, when)
<1> DEFINE Solves(h, m) == h = [n \in 0 .. m |-> IF n = 0 THEN s
                                   ELSE EnqueueSend(h[n - 1], p, queue[n], when)]
           S == {m \in Nat : \E h : Solves(h, m)}
<1>1. 0 \in S
  <2>1. Solves([n \in 0 .. 0 |-> s], 0)
    OBVIOUS
  <2> QED
    BY <2>1
<1>2. ASSUME NEW m \in Nat, m \in S PROVE m + 1 \in S
  <2>1. PICK h : Solves(h, m)
    BY <1>2
  <2> DEFINE x == EnqueueSend(h[m], p, queue[m + 1], when)
             g == [n \in 0 .. m + 1 |-> IF n = m + 1 THEN x ELSE h[n]]
  <2>2. /\ g[m + 1] = x /\ \A n \in 0 .. m : g[n] = h[n]
        /\ g = [n \in 0 .. m + 1 |-> g[n]]
    OBVIOUS
  <2>3. \A n \in 0 .. m : h[n] = IF n = 0 THEN s ELSE EnqueueSend(h[n - 1], p, queue[n], when)
    BY <2>1
  <2> HIDE DEF g
  <2>4. ASSUME NEW n \in 0 .. m + 1
        PROVE  g[n] = IF n = 0 THEN s ELSE EnqueueSend(g[n - 1], p, queue[n], when)
    <3>1. CASE n = m + 1
      <4>1. n - 1 = m /\ g[m] = h[m] /\ n # 0
        BY <2>2, <3>1
      <4> QED
        BY <2>2, <3>1, <4>1
    <3>2. CASE n \in 0 .. m
      <4>1. g[n] = h[n] /\ (n # 0 => g[n - 1] = h[n - 1])
        <5>1. n # 0 => n - 1 \in 0 .. m
          BY <3>2
        <5> QED
          BY <2>2, <3>2, <5>1
      <4> QED
        BY <2>3, <3>2, <4>1
    <3> QED
      BY <3>1, <3>2
  <2>5. Solves(g, m + 1)
    BY <2>2, <2>4
  <2> HIDE DEF Solves
  <2> QED
    BY <2>5
<1>3. Nat \subseteq S
  <2> HIDE DEF S
  <2> QED
    BY <1>1, <1>2, SetInduction
<1> DEFINE h == CHOOSE h : Solves(h, Len(queue))
<1>4. Solves(h, Len(queue))
  <2> HIDE DEF Solves
  <2> QED
    BY <1>3
<1>5. SendAll(s, p, queue, when) = h[Len(queue)]
  BY DEF SendAll, Each
<1> HIDE DEF h
<1>6. \A n \in 0 .. Len(queue) : h[n] = IF n = 0 THEN s ELSE EnqueueSend(h[n - 1], p, queue[n], when)
  BY <1>4
<1>7. SendRun(h, s, p, queue, when)
  BY <1>5, <1>6 DEF SendRun
<1> QED
  BY <1>7

(* Everything a message names exists.                                      *)
Known(s, p, m) == \A i \in DOMAIN MessageRefs(p, m) : Exists(s, MessageRefs(p, m)[i])

LEMMA KnownSteadily ==
    ASSUME NEW s, NEW t, Steady(s, t), NEW p \in Krefs, NEW m \in Message, Known(s, p, m)
    PROVE  Known(t, p, m)
<1>1. MessageRefs(p, m) \in Seq(Krefs)
  BY MessageRefsType
<1>2. \A i \in DOMAIN MessageRefs(p, m) : MessageRefs(p, m)[i] \in Krefs
  BY <1>1
<1> QED
  BY <1>2 DEF Known, Steady

LEMMA SendAllIsSound ==
    ASSUME NEW queue \in Seq(Message), NEW E \in Hands, NEW R, NEW s, Sound(s, E, R),
           NEW p \in Krefs, \A i \in DOMAIN queue : Known(s, p, queue[i]), NEW when
    PROVE  LET u == SendAll(s, p, queue, when)
           IN  Sound(u, E, R) /\ Deals(s, u)
<1>1. Len(queue) \in Nat /\ s \in Stores /\ DOMAIN queue = 1 .. Len(queue)
  BY DEF Sound
<1>2. PICK h : SendRun(h, s, p, queue, when)
  BY <1>1, SendRuns
<1> DEFINE S == {n \in Nat : n <= Len(queue) => Sound(h[n], E, R) /\ Deals(s, h[n])}
<1>3. 0 \in S
  BY <1>1, <1>2, SteadySelf DEF SendRun, Deals, SameRows
<1>4. ASSUME NEW n \in Nat, n \in S PROVE n + 1 \in S
  <2> SUFFICES ASSUME n + 1 <= Len(queue)
               PROVE  Sound(h[n + 1], E, R) /\ Deals(s, h[n + 1])
    OBVIOUS
  <2>1. Sound(h[n], E, R) /\ Deals(s, h[n])
    BY <1>1, <1>4
  <2>2. n + 1 \in 1 .. Len(queue) /\ (n + 1) - 1 = n
    BY <1>1
  <2>3. h[n + 1] = EnqueueSend(h[n], p, queue[n + 1], when)
    BY <1>2, <2>2 DEF SendRun
  <2>4. queue[n + 1] \in Message
    BY <1>1, <2>2
  <2>5. Known(h[n], p, queue[n + 1])
    BY <1>1, <2>1, <2>2, <2>4, KnownSteadily DEF Deals
  <2>6. Sound(h[n + 1], E, R) /\ Deals(h[n], h[n + 1])
    BY <2>1, <2>3, <2>4, <2>5, EnqueueSendIsSound DEF Known
  <2> QED
    BY <1>1, <2>1, <2>6, DealsJoins DEF Sound
<1>5. Nat \subseteq S
  <2> HIDE DEF S
  <2> QED
    BY <1>3, <1>4, SetInduction
<1>6. Sound(h[Len(queue)], E, R) /\ Deals(s, h[Len(queue)])
  BY <1>1, <1>5
<1> QED
  BY <1>2, <1>6 DEF SendRun

-----------------------------------------------------------------------------
(* The end of a promise's wait.                                            *)

(* The stores that releasing a queue goes through. *)
QueueRun(h, s, p, queue) ==
    /\ h[0] = s /\ h[Len(queue)] = ReleaseQueue(s, p, queue)
    /\ \A n \in 1 .. Len(queue) : h[n] = ReleaseAll(h[n - 1], MessageRefs(p, queue[n]))

LEMMA QueueRuns ==
    ASSUME NEW s, NEW p, NEW queue, Len(queue) \in Nat
    PROVE  \E h : QueueRun(h, s, p, queue)
<1> DEFINE Solves(h, m) == h = [n \in 0 .. m |-> IF n = 0 THEN s
                                   ELSE ReleaseAll(h[n - 1], MessageRefs(p, queue[n]))]
           S == {m \in Nat : \E h : Solves(h, m)}
<1>1. 0 \in S
  <2>1. Solves([n \in 0 .. 0 |-> s], 0)
    OBVIOUS
  <2> QED
    BY <2>1
<1>2. ASSUME NEW m \in Nat, m \in S PROVE m + 1 \in S
  <2>1. PICK h : Solves(h, m)
    BY <1>2
  <2> DEFINE x == ReleaseAll(h[m], MessageRefs(p, queue[m + 1]))
             g == [n \in 0 .. m + 1 |-> IF n = m + 1 THEN x ELSE h[n]]
  <2>2. /\ g[m + 1] = x /\ \A n \in 0 .. m : g[n] = h[n]
        /\ g = [n \in 0 .. m + 1 |-> g[n]]
    OBVIOUS
  <2>3. \A n \in 0 .. m : h[n] = IF n = 0 THEN s ELSE ReleaseAll(h[n - 1], MessageRefs(p, queue[n]))
    BY <2>1
  <2> HIDE DEF g
  <2>4. ASSUME NEW n \in 0 .. m + 1
        PROVE  g[n] = IF n = 0 THEN s ELSE ReleaseAll(g[n - 1], MessageRefs(p, queue[n]))
    <3>1. CASE n = m + 1
      <4>1. n - 1 = m /\ g[m] = h[m] /\ n # 0
        BY <2>2, <3>1
      <4> QED
        BY <2>2, <3>1, <4>1
    <3>2. CASE n \in 0 .. m
      <4>1. g[n] = h[n] /\ (n # 0 => g[n - 1] = h[n - 1])
        BY <2>2, <3>2
      <4> QED
        BY <2>3, <3>2, <4>1
    <3> QED
      BY <3>1, <3>2
  <2>5. Solves(g, m + 1)
    BY <2>2, <2>4
  <2> HIDE DEF Solves
  <2> QED
    BY <2>5
<1>3. Nat \subseteq S
  <2> HIDE DEF S
  <2> QED
    BY <1>1, <1>2, SetInduction
<1> DEFINE h == CHOOSE h : Solves(h, Len(queue))
<1>4. Solves(h, Len(queue))
  <2> HIDE DEF Solves
  <2> QED
    BY <1>3
<1>5. ReleaseQueue(s, p, queue) = h[Len(queue)]
  BY DEF ReleaseQueue, Each
<1> HIDE DEF h
<1>6. \A n \in 0 .. Len(queue) : h[n] = IF n = 0 THEN s ELSE ReleaseAll(h[n - 1], MessageRefs(p, queue[n]))
  BY <1>4
<1>7. QueueRun(h, s, p, queue)
  BY <1>5, <1>6 DEF QueueRun
<1> QED
  BY <1>7

(* The uses in a queue, message after message.                             *)
LEMMA UsesInQueuePrefix ==
    ASSUME NEW p \in Krefs, NEW queue \in Seq(Message), NEW x
    PROVE  /\ UsesInQueue(p, SubSeq(queue, 1, 0), x) = 0
           /\ UsesInQueue(p, SubSeq(queue, 1, Len(queue)), x) = UsesInQueue(p, queue, x)
           /\ \A n \in 0 .. Len(queue) :
                 /\ UsesInQueue(p, SubSeq(queue, 1, n), x) \in Nat
                 /\ UsesInQueue(p, SubSeq(queue, 1, n), x) <= UsesInQueue(p, queue, x)
           /\ \A n \in 1 .. Len(queue) :
                 UsesInQueue(p, SubSeq(queue, 1, n), x)
                     = UsesInQueue(p, SubSeq(queue, 1, n - 1), x) + Uses(MessageRefs(p, queue[n]), x)
<1> DEFINE U(n) == UsesInQueue(p, SubSeq(queue, 1, n), x)
           d(n) == Uses(MessageRefs(p, queue[n]), x)
<1>1. Len(queue) \in Nat /\ \A n \in 0 .. Len(queue) : SubSeq(queue, 1, n) \in Seq(Message)
  BY SubSeqProperties
<1>2. SubSeq(queue, 1, 0) = <<>> /\ SubSeq(queue, 1, Len(queue)) = queue
  OBVIOUS
<1>3. U(0) = 0 /\ U(Len(queue)) = UsesInQueue(p, queue, x)
  BY <1>2, UsesInNoQueue
<1>4. ASSUME NEW n \in 1 .. Len(queue)
      PROVE  U(n) = U(n - 1) + d(n) /\ d(n) \in Nat
  <2>1. SubSeq(queue, 1, n) = Append(SubSeq(queue, 1, n - 1), queue[n])
    <3>1. n - 1 \in 0 .. Len(queue) /\ 1 <= n
      BY <1>1
    <3> QED
      BY <1>1, <3>1
  <2>2. queue[n] \in Message /\ SubSeq(queue, 1, n - 1) \in Seq(Message)
    BY <1>1
  <2>3. UsesInQueue(p, Append(SubSeq(queue, 1, n - 1), queue[n]), x)
            = UsesInQueue(p, SubSeq(queue, 1, n - 1), x) + d(n)
    BY <2>2, UsesInMoreQueue
  <2>4. d(n) \in Nat
    BY <2>2, MessageRefsType, UsesType
  <2> QED
    BY <2>1, <2>3, <2>4
<1>5. \A n \in 0 .. Len(queue) : U(n) \in Nat
  BY <1>1, UsesInQueueIsSum
<1>6. \A n \in 0 .. Len(queue) : U(n) <= U(Len(queue))
  <2> DEFINE S == {j \in Nat : j <= Len(queue) => U(Len(queue) - j) <= U(Len(queue))}
  <2>1. 0 \in S
    BY <1>1, <1>5
  <2>2. ASSUME NEW j \in Nat, j \in S PROVE j + 1 \in S
    <3> SUFFICES ASSUME j + 1 <= Len(queue) PROVE U(Len(queue) - (j + 1)) <= U(Len(queue))
      OBVIOUS
    <3> DEFINE n == Len(queue) - j
    <3>1. n \in 1 .. Len(queue) /\ n - 1 = Len(queue) - (j + 1) /\ n \in 0 .. Len(queue) /\ n - 1 \in 0 .. Len(queue)
      BY <1>1
    <3>2. U(n) <= U(Len(queue))
      BY <1>1, <2>2
    <3> HIDE DEF U, n, d
    <3>3. U(n) = U(n - 1) + d(n) /\ d(n) \in Nat
      BY <1>4, <3>1
    <3>4. U(n - 1) \in Nat /\ U(n) \in Nat /\ U(Len(queue)) \in Nat
      BY <1>1, <1>5, <3>1
    <3> QED
      BY <3>1, <3>2, <3>3, <3>4
  <2>3. Nat \subseteq S
    <3> HIDE DEF S
    <3> QED
      BY <2>1, <2>2, SetInduction
  <2>4. ASSUME NEW n \in 0 .. Len(queue) PROVE U(n) <= U(Len(queue))
    <3>1. Len(queue) - n \in Nat /\ Len(queue) - n <= Len(queue) /\ Len(queue) - (Len(queue) - n) = n
      BY <1>1
    <3>2. Len(queue) - n \in S
      BY <2>3, <3>1
    <3> HIDE DEF U
    <3> QED
      BY <3>1, <3>2
  <2> QED
    BY <2>4
<1> QED
  BY <1>3, <1>4, <1>5, <1>6

(* The hands of a queue: F, and what is left of it after n of its messages. *)
Left(F, p, queue, n) ==
    [x \in Krefs |-> F[x] + (UsesInQueue(p, queue, x) - UsesInQueue(p, SubSeq(queue, 1, n), x))]

LentQueue(F, E, p, queue) ==
    /\ E \in Hands /\ F \in Hands
    /\ \A x \in Krefs : E[x] = F[x] + UsesInQueue(p, queue, x)

LEMMA LeftIs ==
    ASSUME NEW p \in Krefs, NEW queue \in Seq(Message), NEW E, NEW F, LentQueue(F, E, p, queue)
    PROVE  /\ Left(F, p, queue, 0) = E /\ Left(F, p, queue, Len(queue)) = F
           /\ \A n \in 0 .. Len(queue) :
                 /\ Left(F, p, queue, n) \in Hands
                 /\ \A x \in Krefs : Left(F, p, queue, n)[x] >= F[x]
           /\ \A n \in 1 .. Len(queue) :
                 Lends(Left(F, p, queue, n), Left(F, p, queue, n - 1), MessageRefs(p, queue[n]))
<1> DEFINE L(n) == Left(F, p, queue, n)
<1>1. Len(queue) \in Nat
  OBVIOUS
<1>2. ASSUME NEW n \in 0 .. Len(queue)
      PROVE  L(n) \in Hands /\ \A x \in Krefs : L(n)[x] >= F[x]
  <2>1. ASSUME NEW x \in Krefs
        PROVE  /\ F[x] + (UsesInQueue(p, queue, x) - UsesInQueue(p, SubSeq(queue, 1, n), x)) \in Int
               /\ F[x] + (UsesInQueue(p, queue, x) - UsesInQueue(p, SubSeq(queue, 1, n), x)) >= F[x]
    <3> DEFINE f == F[x]
               a == UsesInQueue(p, queue, x)
               b == UsesInQueue(p, SubSeq(queue, 1, n), x)
    <3>1. f \in Int /\ a \in Nat /\ b \in Nat /\ b <= a
      BY UsesInQueuePrefix, UsesInQueueIsSum DEF LentQueue, Hands
    <3> HIDE DEF f, a, b
    <3>2. f + (a - b) \in Int /\ f + (a - b) >= f
      BY <3>1
    <3> QED
      BY <3>2 DEF f, a, b
  <2> QED
    BY <2>1 DEF Left, Hands
<1>3. L(0) = E
  <2>1. ASSUME NEW x \in Krefs PROVE L(0)[x] = E[x]
    <3> DEFINE f == F[x]
               a == UsesInQueue(p, queue, x)
    <3>1. f \in Int /\ a \in Nat /\ UsesInQueue(p, SubSeq(queue, 1, 0), x) = 0 /\ E[x] = f + a
      BY UsesInQueuePrefix, UsesInQueueIsSum DEF LentQueue, Hands
    <3>2. L(0)[x] = f + (a - 0)
      BY <3>1 DEF Left
    <3> HIDE DEF f, a
    <3> QED
      BY <3>1, <3>2
  <2> QED
    BY <1>1, <1>2, <2>1, HandsSame DEF LentQueue
<1>4. L(Len(queue)) = F
  <2>1. ASSUME NEW x \in Krefs PROVE L(Len(queue))[x] = F[x]
    <3> DEFINE f == F[x]
               a == UsesInQueue(p, queue, x)
    <3>1. f \in Int /\ a \in Nat /\ UsesInQueue(p, SubSeq(queue, 1, Len(queue)), x) = a
      BY UsesInQueuePrefix, UsesInQueueIsSum DEF LentQueue, Hands
    <3>2. L(Len(queue))[x] = f + (a - a)
      BY <3>1 DEF Left
    <3> HIDE DEF f, a
    <3>3. f + (a - a) = f
      BY <3>1
    <3> QED
      BY <3>2, <3>3 DEF f
  <2> QED
    BY <1>1, <1>2, <2>1, HandsSame DEF LentQueue
<1>5. ASSUME NEW n \in 1 .. Len(queue)
      PROVE  Lends(L(n), L(n - 1), MessageRefs(p, queue[n]))
  <2>1. n \in 0 .. Len(queue) /\ n - 1 \in 0 .. Len(queue) /\ queue[n] \in Message
    BY <1>1
  <2>2. ASSUME NEW x \in Krefs
        PROVE  L(n - 1)[x] = L(n)[x] + Uses(MessageRefs(p, queue[n]), x)
    <3> DEFINE f == F[x]
               a == UsesInQueue(p, queue, x)
               b == UsesInQueue(p, SubSeq(queue, 1, n), x)
               c == UsesInQueue(p, SubSeq(queue, 1, n - 1), x)
               u == Uses(MessageRefs(p, queue[n]), x)
    <3>1. f \in Int /\ a \in Nat
      BY UsesInQueueIsSum DEF LentQueue, Hands
    <3>2. b \in Nat /\ c \in Nat /\ b = c + u
      BY <2>1, UsesInQueuePrefix
    <3>3. u \in Nat
      BY <2>1, MessageRefsType, UsesType
    <3>4. L(n)[x] = f + (a - b) /\ L(n - 1)[x] = f + (a - c)
      BY DEF Left
    <3> HIDE DEF f, a, b, c, u
    <3>5. f + (a - c) = f + (a - b) + u
      BY <3>1, <3>2, <3>3
    <3> QED
      BY <3>4, <3>5 DEF u
  <2> QED
    BY <1>2, <2>1, <2>2 DEF Lends
<1> QED
  BY <1>2, <1>3, <1>4, <1>5

LEMMA ReleaseQueueIsSound ==
    ASSUME NEW p \in Krefs, NEW queue \in Seq(Message), NEW E, NEW F, LentQueue(F, E, p, queue),
           NEW R, NEW s, Sound(s, E, R), \A k \in Krefs : Held(s, k) + F[k] >= 0
    PROVE  Recount(s, ReleaseQueue(s, p, queue)) /\ Sound(ReleaseQueue(s, p, queue), F, R)
<1>1. Len(queue) \in Nat /\ s \in Stores /\ F \in Hands
  BY DEF LentQueue, Sound
<1>2. PICK h : QueueRun(h, s, p, queue)
  BY <1>1, QueueRuns
<1> DEFINE L(n) == Left(F, p, queue, n)
           S == {n \in Nat : n <= Len(queue) => Recount(s, h[n]) /\ Sound(h[n], L(n), R)}
<1>3. 0 \in S
  BY <1>1, <1>2, LeftIs, RecountSelf DEF QueueRun
<1>4. ASSUME NEW n \in Nat, n \in S PROVE n + 1 \in S
  <2> SUFFICES ASSUME n + 1 <= Len(queue)
               PROVE  Recount(s, h[n + 1]) /\ Sound(h[n + 1], L(n + 1), R)
    OBVIOUS
  <2>1. Recount(s, h[n]) /\ Sound(h[n], L(n), R)
    BY <1>1, <1>4
  <2>2. n + 1 \in 1 .. Len(queue) /\ (n + 1) - 1 = n /\ n + 1 \in 0 .. Len(queue)
    BY <1>1
  <2> DEFINE ks == MessageRefs(p, queue[n + 1])
  <2>3. h[n + 1] = ReleaseAll(h[n], ks)
    BY <1>2, <2>2 DEF QueueRun
  <2>4. ks \in Seq(Krefs)
    <3>1. queue[n + 1] \in Message
      BY <1>1, <2>2
    <3> QED
      BY <3>1, MessageRefsType
  <2>5. Lends(L(n + 1), L(n), ks) /\ \A x \in Krefs : L(n + 1)[x] >= F[x]
    BY <2>2, LeftIs
  <2>6. ASSUME NEW k \in Krefs PROVE Held(h[n], k) + L(n + 1)[k] >= 0
    <3> DEFINE a == Held(s, k)
               f == F[k]
               g == L(n + 1)[k]
    <3>1. Held(h[n], k) = a
      BY <1>1, <2>1, RecountKeeps
    <3>2. a \in Nat /\ f \in Int /\ a + f >= 0 /\ g >= f
      BY <1>1, <2>5, HeldType DEF Hands
    <3>3. g \in Int
      BY <2>5 DEF Lends, Hands
    <3> HIDE DEF a, f, g
    <3>4. a + g >= 0
      BY <3>2, <3>3
    <3> QED
      BY <3>1, <3>4 DEF g
  <2> HIDE DEF ks, L
  <2>7. Recount(h[n], ReleaseAll(h[n], ks)) /\ Sound(ReleaseAll(h[n], ks), L(n + 1), R)
    BY <2>1, <2>4, <2>5, <2>6, ReleaseAllIsSound
  <2> QED
    BY <2>1, <2>3, <2>7, RecountJoins
<1>5. Nat \subseteq S
  <2> HIDE DEF S
  <2> QED
    BY <1>3, <1>4, SetInduction
<1>6. Recount(s, h[Len(queue)]) /\ Sound(h[Len(queue)], L(Len(queue)), R)
  BY <1>1, <1>5
<1>7. L(Len(queue)) = F
  BY <1>1, LeftIs
<1> QED
  BY <1>2, <1>6, <1>7 DEF QueueRun

(* One row of the table of promises replaced.                              *)
RowSet(s, t, p, row) == t = [s EXCEPT !.promise[p] = row]

LEMMA RowSetIs ==
    ASSUME NEW s \in Stores, NEW p \in DOMAIN s.promise, NEW row \in PromiseRows,
           row.refs = s.promise[p].refs, NEW t, RowSet(s, t, p, row)
    PROVE  /\ Passes(s, t) /\ t.promise[p] = row /\ t.run = s.run /\ t.buffer = s.buffer
           /\ \A q \in DOMAIN s.promise : q # p => t.promise[q] = s.promise[q]
           /\ \A k \in Krefs : Held(t, k) = Held(s, k) - UsesInPromise(p, s.promise[p], k)
                                                + UsesInPromise(p, row, k)
<1>1. p \in Promises /\ s.promise \in Tables(Promises, PromiseRows)
  BY StoreFields, StoreIs
<1>2. t.promise = [s.promise EXCEPT ![p] = row] /\ t = [s EXCEPT !.promise = t.promise]
  BY DEF RowSet, Stores
<1>3. t.promise \in Tables(Promises, PromiseRows)
  <2> DEFINE f == s.promise
  <2>1. f \in Tables(Promises, PromiseRows)
    BY <1>1
  <2> HIDE DEF f
  <2>2. [f EXCEPT ![p] = row] \in Tables(Promises, PromiseRows)
    BY <1>1, <2>1, TableChanges
  <2> QED
    BY <1>2, <2>2 DEF f
<1>4. t \in Stores
  BY <1>2, <1>3, StoreChanges
<1>5. s.promise = [x \in DOMAIN s.promise |-> s.promise[x]]
  BY <1>1, TableIs
<1>6. /\ DOMAIN t.promise = DOMAIN s.promise /\ t.promise[p] = row
      /\ \A q \in DOMAIN s.promise : q # p => t.promise[q] = s.promise[q]
  BY <1>2, <1>5
<1>7. /\ t.object = s.object /\ t.clist = s.clist /\ t.failed = s.failed /\ t.pins = s.pins
      /\ t.terminated = s.terminated /\ t.configured = s.configured /\ t.actions = s.actions
      /\ t.nextObject = s.nextObject /\ t.nextPromise = s.nextPromise
      /\ t.run = s.run /\ t.buffer = s.buffer
  BY DEF RowSet, Stores
<1>8. Passes(s, t)
  BY <1>4, <1>6, <1>7 DEF Passes, Retiring
<1>9. ASSUME NEW k \in Krefs
      PROVE  Held(t, k) = Held(s, k) - UsesInPromise(p, s.promise[p], k) + UsesInPromise(p, row, k)
  <2> DEFINE a == UsesInItems(s.run, k)
             b == UsesInItems(s.buffer, k)
             c == UsesInPromises(s.promise, k)
             d == IF IsPromise(k) THEN 0 ELSE s.pins[k]
             x == UsesInPromise(p, s.promise[p], k)
             y == UsesInPromise(p, row, k)
  <2>1. UsesInPromises(t.promise, k) = c - Share(s.promise, p, k) + Share(t.promise, p, k)
    <3>1. \A q \in Promises : q # p => Share(t.promise, q, k) = Share(s.promise, q, k)
      BY <1>6 DEF Share
    <3> QED
      BY <1>1, <1>3, <3>1, SharesOfOthers
  <2>2. Share(s.promise, p, k) = x /\ Share(t.promise, p, k) = y
    BY <1>6 DEF Share
  <2>3. a \in Nat /\ b \in Nat /\ c \in Nat /\ d \in Nat
    BY HeldType
  <2>4. x \in Nat /\ y \in Nat
    BY <1>1, StoreIs, UsesInPromiseType
  <2>5. Held(s, k) = a + b + c + d
    BY DEF Held
  <2>6. Held(t, k) = a + b + UsesInPromises(t.promise, k) + d
    BY <1>7 DEF Held
  <2> HIDE DEF a, b, c, d, x, y
  <2>7. Held(t, k) = a + b + (c - x + y) + d
    BY <2>1, <2>2, <2>6
  <2>8. Held(t, k) = Held(s, k) - x + y
    BY <2>3, <2>4, <2>5, <2>7
  <2> QED
    BY <2>8 DEF x, y
<1> QED
  BY <1>6, <1>7, <1>8, <1>9

(* What a promise holds is part of what is held.                           *)
LEMMA PromiseHolds ==
    ASSUME NEW s \in Stores, NEW p \in DOMAIN s.promise, NEW k \in Krefs
    PROVE  /\ UsesInPromise(p, s.promise[p], k) <= Held(s, k)
           /\ UsesInQueue(p, s.promise[p].queue, k) \in Nat
           /\ Uses(OwnRefs(p, s.promise[p]), k) \in Nat
           /\ UsesInPromise(p, s.promise[p], k)
                  = Uses(OwnRefs(p, s.promise[p]), k) + UsesInQueue(p, s.promise[p].queue, k)
<1>1. p \in Promises /\ s.promise \in Tables(Promises, PromiseRows) /\ s.promise[p] \in PromiseRows
  BY StoreFields, StoreIs
<1> DEFINE a == UsesInItems(s.run, k)
           b == UsesInItems(s.buffer, k)
           c == UsesInPromises(s.promise, k)
           d == IF IsPromise(k) THEN 0 ELSE s.pins[k]
           x == UsesInPromise(p, s.promise[p], k)
<1>2. a \in Nat /\ b \in Nat /\ c \in Nat /\ d \in Nat /\ Held(s, k) = a + b + c + d
  BY HeldType DEF Held
<1>3. x <= c
  BY <1>1, ShareIsPart DEF Share
<1>4. x \in Nat
  BY <1>1, UsesInPromiseType
<1> HIDE DEF a, b, c, d, x
<1>5. x <= Held(s, k)
  BY <1>2, <1>3, <1>4
<1> QED
  BY <1>1, <1>5, UsesInPromiseType DEF x

SettledRow(row, state, slots) ==
    [row EXCEPT !.state = state, !.slots = slots, !.queue = <<>>, !.decider = NoOne,
                !.subscribers = {}]

LEMMA SettledRowIs ==
    ASSUME NEW row \in PromiseRows, NEW state \in {"fulfilled", "rejected"}, NEW slots \in Seq(Krefs)
    PROVE  LET r == SettledRow(row, state, slots)
           IN  /\ r \in PromiseRows /\ r.refs = row.refs
               /\ r.state = state /\ r.slots = slots /\ r.queue = <<>>
<1>1. SettledRow(row, state, slots).state = state
  BY DEF SettledRow, PromiseRows
<1>2. SettledRow(row, state, slots).slots = slots
  BY DEF SettledRow, PromiseRows
<1>3. SettledRow(row, state, slots).queue = <<>>
  BY DEF SettledRow, PromiseRows
<1>4. SettledRow(row, state, slots).refs = row.refs
  BY DEF SettledRow, PromiseRows
<1>5. SettledRow(row, state, slots) \in PromiseRows
  <2>1. <<>> \in Seq(Message) /\ {} \in SUBSET Vats
    OBVIOUS
  <2> QED
    BY <2>1 DEF SettledRow, PromiseRows
<1> QED
  BY <1>1, <1>2, <1>3, <1>4, <1>5

LEMMA ResolveKernelPromiseIsSound ==
    ASSUME NEW slots \in Seq(Krefs), NEW E \in Loans, NEW F, Lends(E, F, slots),
           NEW R, NEW s, Sound(s, F, R), NEW p \in DOMAIN s.promise,
           s.promise[p].state = "unresolved", NEW state \in {"fulfilled", "rejected"}
    PROVE  LET u == ResolveKernelPromise(s, p, state, slots)
           IN  Sound(u, E, R) /\ Steady(s, u)
<1> DEFINE q == s.promise[p].queue
           t == ReleaseQueue(s, p, q)
           G == [x \in Krefs |-> F[x] - UsesInQueue(p, q, x)]
           H == [x \in Krefs |-> E[x] + (IF x = p THEN 1 ELSE 0)]
           v == [t EXCEPT !.promise[p] =
                    [@ EXCEPT !.state = state, !.slots = slots, !.queue = <<>>,
                              !.decider = NoOne, !.subscribers = {}]]
           u == ResolveKernelPromise(s, p, state, slots)
<1>1. /\ s \in Stores /\ p \in Promises /\ p \in Krefs /\ s.promise[p] \in PromiseRows
      /\ q \in Seq(Message) /\ E \in Hands
  <2>1. s \in Stores /\ E \in Hands
    BY LoansAreHands DEF Sound
  <2>2. p \in Promises /\ s.promise[p] \in PromiseRows
    BY <2>1, StoreIs
  <2> QED
    BY <2>1, <2>2, KrefsAre DEF PromiseRows
<1>2. \A x \in Krefs : UsesInQueue(p, q, x) \in Nat
  BY <1>1, PromiseHolds
<1>3. G \in Hands /\ H \in Hands
  <2>1. \A x \in Krefs : F[x] - UsesInQueue(p, q, x) \in Int
    <3>1. \A x \in Krefs : F[x] \in Int
      BY DEF Lends, Hands
    <3> HIDE DEF q
    <3> QED
      BY <1>2, <3>1
  <2>2. \A x \in Krefs : E[x] + (IF x = p THEN 1 ELSE 0) \in Int
    BY <1>1 DEF Hands
  <2> QED
    BY <2>1, <2>2 DEF Hands
<1>4. LentQueue(G, F, p, q)
  <2>1. ASSUME NEW x \in Krefs PROVE F[x] = G[x] + UsesInQueue(p, q, x)
    <3> DEFINE f == F[x]
               a == UsesInQueue(p, q, x)
    <3>1. f \in Int /\ a \in Nat
      BY <1>2 DEF Lends, Hands
    <3>2. G[x] = f - a
      OBVIOUS
    <3> HIDE DEF f, a, G
    <3>3. f = G[x] + a
      BY <3>1, <3>2
    <3> QED
      BY <3>3 DEF f, a
  <2> HIDE DEF G, q
  <2> QED
    BY <1>3, <2>1 DEF LentQueue, Lends
<1>5. \A x \in Krefs : Held(s, x) + G[x] >= 0
  <2> TAKE x \in Krefs
  <2> DEFINE h == Held(s, x)
             a == UsesInQueue(p, q, x)
             w == Uses(OwnRefs(p, s.promise[p]), x)
             e == E[x]
             y == Uses(slots, x)
  <2>1. a \in Nat /\ w \in Nat /\ w + a <= h /\ h \in Nat
    BY <1>1, PromiseHolds, HeldType
  <2>2. e \in Nat /\ y \in Nat /\ F[x] = e + y
    BY UsesType DEF Loans, Lends
  <2>3. G[x] = F[x] - a
    OBVIOUS
  <2> HIDE DEF h, a, w, e, y, G
  <2>4. h + G[x] >= 0
    BY <2>1, <2>2, <2>3
  <2> QED
    BY <2>4 DEF h
<1>6. Recount(s, t) /\ Sound(t, G, R)
  <2> HIDE DEF G, q
  <2>1. Recount(s, ReleaseQueue(s, p, q)) /\ Sound(ReleaseQueue(s, p, q), G, R)
    BY <1>1, <1>4, <1>5, ReleaseQueueIsSound DEF q
  <2> QED
    BY <2>1
<1> HIDE DEF t
<1>7. /\ t \in Stores /\ t.failed = FALSE /\ p \in DOMAIN t.promise
      /\ t.promise[p].state = "unresolved" /\ t.promise[p].queue = q
      /\ t.promise[p] \in PromiseRows
  <2>1. t \in Stores /\ t.failed = FALSE
    BY <1>6 DEF Sound
  <2>2. p \in DOMAIN t.promise /\ t.promise[p].state = "unresolved" /\ t.promise[p].queue = q
    BY <1>6 DEF Recount, SameRows
  <2> QED
    BY <2>1, <2>2, StoreIs
<1> DEFINE row == SettledRow(t.promise[p], state, slots)
<1>8. row \in PromiseRows /\ row.refs = t.promise[p].refs
      /\ row.state = state /\ row.slots = slots /\ row.queue = <<>>
  BY <1>7, SettledRowIs
<1>9. v = [t EXCEPT !.promise[p] = row]
  BY DEF SettledRow
<1> HIDE DEF v, row
<1>10. RowSet(t, v, p, row)
  BY <1>9 DEF RowSet
<1>11. /\ Passes(t, v) /\ v.promise[p] = row
       /\ \A x \in DOMAIN t.promise : x # p => v.promise[x] = t.promise[x]
       /\ \A k \in Krefs : Held(v, k) = Held(t, k) - UsesInPromise(p, t.promise[p], k)
                                                + UsesInPromise(p, row, k)
  BY <1>7, <1>8, <1>10, RowSetIs
<1>12. ASSUME NEW k \in Krefs PROVE Held(v, k) + H[k] = Held(t, k) + G[k]
  <2> DEFINE h == Held(t, k)
             a == UsesInQueue(p, q, k)
             i == IF k = p THEN 1 ELSE 0
             e == E[k]
             y == Uses(slots, k)
  <2>1. UsesInPromise(p, t.promise[p], k) = i + a
    <3>1. OwnRefs(p, t.promise[p]) = <<p>>
      BY <1>7 DEF OwnRefs
    <3>2. Uses(<<p>>, k) = i
      BY <1>1, UsesOfOne
    <3> HIDE DEF i, q
    <3> QED
      BY <1>7, <3>1, <3>2, PromiseHolds
  <2>2. UsesInPromise(p, row, k) = y
    <3>1. OwnRefs(p, row) = slots
      BY <1>8 DEF OwnRefs
    <3>2. UsesInQueue(p, row.queue, k) = 0 /\ y \in Nat
      BY <1>1, <1>8, UsesInNoQueue, UsesType
    <3>3. UsesInPromise(p, row, k) = y + 0
      BY <1>1, <1>8, <3>1, <3>2, UsesInPromiseType
    <3> QED
      BY <3>2, <3>3
  <2>3. h \in Nat /\ a \in Nat /\ e \in Nat /\ y \in Nat /\ i \in Nat
    BY <1>2, <1>7, HeldType, UsesType DEF Loans
  <2>4. G[k] = (e + y) - a
    BY DEF Lends
  <2>5. H[k] = e + i
    OBVIOUS
  <2>6. Held(v, k) = h - (i + a) + y
    BY <1>11, <2>1, <2>2
  <2> HIDE DEF h, a, i, e, y, G, H
  <2>7. Held(v, k) + H[k] = h + G[k]
    BY <2>3, <2>4, <2>5, <2>6
  <2> QED
    BY <2>7 DEF h
<1> HIDE DEF G, H
<1>13. Stands(t, v)
  <2>1. v.nextPromise = t.nextPromise /\ DOMAIN v.promise = DOMAIN t.promise /\ t.nextPromise \in Nat
    BY <1>7, <1>11, StoreFields DEF Passes
  <2>2. \A x \in DOMAIN v.promise : t.promise[x].state # "unresolved" => v.promise[x] = t.promise[x]
    BY <1>7, <1>11, <2>1
  <2> QED
    BY <2>1, <2>2 DEF Stands
<1>14. Sound(v, H, R) /\ Steady(t, v)
  BY <1>3, <1>6, <1>11, <1>12, <1>13, PassesIsSound
<1>15. Shifts(H, E, p, -1) /\ Held(v, p) + H[p] >= 1
  <2>1. ASSUME NEW x \in Krefs PROVE E[x] = H[x] + (IF x = p THEN -1 ELSE 0)
    BY <1>1 DEF H, Hands
  <2>2. Held(v, p) \in Nat
    BY <1>1, <1>14, HeldType DEF Sound
  <2>3. H[p] = E[p] + 1 /\ E[p] \in Nat
    BY <1>1 DEF H, Loans
  <2>4. Held(v, p) + H[p] >= 1
    BY <2>2, <2>3
  <2> QED
    BY <1>1, <1>3, <2>1, <2>4 DEF Shifts
<1>16. Recount(v, Release(v, p)) /\ Sound(Release(v, p), E, R)
  BY <1>1, <1>14, <1>15, ReleaseIsSound
<1>17. u = Release(v, p)
  BY <1>7 DEF ResolveKernelPromise, t, v
<1> HIDE DEF u
<1>18. Sound(u, E, R)
  BY <1>16, <1>17
<1>19. Steady(s, t) /\ Steady(v, u)
  BY <1>1, <1>6, <1>14, <1>16, <1>17, RecountSteady DEF Sound
<1>20. Steady(s, u)
  <2>1. v \in Stores /\ u \in Stores
    BY <1>14, <1>18 DEF Sound
  <2>2. Steady(t, u)
    BY <1>7, <1>14, <1>19, <2>1, SteadyJoins
  <2> QED
    BY <1>1, <1>7, <1>19, <2>1, <2>2, SteadyJoins
<1> QED
  BY <1>18, <1>20 DEF u

(* What a waiting message names exists.                                    *)
LEMMA QueueKnown ==
    ASSUME NEW E \in Loans, NEW R, NEW s, Sound(s, E, R), NEW p \in DOMAIN s.promise,
           NEW i \in DOMAIN s.promise[p].queue
    PROVE  Known(s, p, s.promise[p].queue[i])
<1> DEFINE q == s.promise[p].queue
           ks == MessageRefs(p, q[i])
<1>1. /\ s \in Stores /\ p \in Promises /\ p \in Krefs /\ q \in Seq(Message) /\ E \in Hands
  <2>1. s \in Stores /\ E \in Hands
    BY LoansAreHands DEF Sound
  <2>2. p \in Promises /\ s.promise[p] \in PromiseRows
    BY <2>1, StoreIs
  <2> QED
    BY <2>1, <2>2, KrefsAre DEF PromiseRows
<1>2. q[i] \in Message
  BY <1>1
<1>3. ks \in Seq(Krefs)
  BY <1>1, <1>2, MessageRefsType
<1>4. ASSUME NEW j \in DOMAIN ks PROVE Exists(s, ks[j])
  <2> DEFINE x == ks[j]
             a == Uses(ks, x)
             b == UsesInQueue(p, q, x)
             c == Uses(OwnRefs(p, s.promise[p]), x)
             h == Held(s, x)
             e == E[x]
  <2>1. x \in Krefs
    BY <1>3
  <2>2. a >= 1 /\ a \in Nat
    <3> HIDE DEF ks
    <3> QED
      BY <1>3, UsesHas, UsesType
  <2>3. a <= b
    BY <1>1, UsesInMessage
  <2>4. b \in Nat /\ c \in Nat /\ h \in Nat /\ c + b <= h
    BY <1>1, <2>1, PromiseHolds, HeldType
  <2>5. e \in Nat
    BY <2>1 DEF Loans
  <2> HIDE DEF a, b, c, h, e
  <2>6. h + e >= 1
    BY <2>2, <2>3, <2>4, <2>5
  <2> HIDE DEF x
  <2> QED
    BY <1>1, <2>1, <2>6, HeldExists DEF h, e, x
<1> QED
  BY <1>4 DEF Known

LEMMA ResolvePromiseIsSound ==
    ASSUME NEW E \in Loans, NEW R, NEW s, Sound(s, E, R), NEW slots \in Seq(Krefs),
           \A i \in DOMAIN slots : Exists(s, slots[i]), NEW who, NEW p,
           NEW state \in {"fulfilled", "rejected"}, NEW when
    PROVE  LET u == ResolvePromise(s, who, p, state, slots, when)
           IN  u = Raise(s) \/ (Sound(u, E, R) /\ Steady(s, u))
<1> DEFINE u == ResolvePromise(s, who, p, state, slots, when)
<1>1. CASE s.failed \/ ~Unresolved(s, p) \/ s.promise[p].decider # who
  BY <1>1 DEF ResolvePromise
<1>2. CASE ~(s.failed \/ ~Unresolved(s, p) \/ s.promise[p].decider # who)
  <2> DEFINE told == InOrder(s.promise[p].subscribers)
             q == s.promise[p].queue
             c == ChargeAll(s, slots)
             n == NotifyAll(c, told, p, when)
             r == ResolveKernelPromise(n, p, state, slots)
  <2>1. /\ s \in Stores /\ p \in Promises /\ p \in Krefs /\ q \in Seq(Message) /\ E \in Hands
        /\ p \in DOMAIN s.promise /\ s.promise[p].state = "unresolved"
        /\ s.promise[p].subscribers \in SUBSET Vats
    <3>1. s \in Stores /\ E \in Hands
      BY LoansAreHands DEF Sound
    <3>2. p \in DOMAIN s.promise /\ s.promise[p].state = "unresolved"
      BY <1>2 DEF Unresolved
    <3>3. p \in Promises /\ s.promise[p] \in PromiseRows
      BY <3>1, <3>2, StoreIs
    <3> QED
      BY <3>1, <3>2, <3>3, KrefsAre DEF PromiseRows
  <2>2. PICK F : Lends(E, F, slots)
    BY <2>1, LentTo
  <2>3. Recount(s, c) /\ Sound(c, F, R)
    BY <2>2, ChargeAllIsSound
  <2>4. told \in Seq(Vats)
    <3>1. NumVats \in Nat /\ Vats = 1 .. NumVats
      BY KrefsAre DEF Vats
    <3>2. told \in Seq(s.promise[p].subscribers)
      BY <2>1, <3>1, InOrderIsSequence
    <3> QED
      BY <2>1, <3>2
  <2> HIDE DEF c, told
  <2>5. /\ c \in Stores /\ Exists(c, p) /\ F \in Hands /\ Steady(s, c)
        /\ SameRows(s.promise, c.promise)
    <3>1. Exists(c, p)
      BY <2>1, <2>3 DEF Recount, SameRows, Exists
    <3> QED
      BY <2>1, <2>2, <2>3, <3>1, RecountSteady DEF Lends, Sound, Recount
  <2>6. Sound(n, F, R) /\ Deals(c, n)
    BY <2>1, <2>3, <2>4, <2>5, NotifyAllIsSound
  <2> HIDE DEF n
  <2>7. n.failed = FALSE /\ n \in Stores /\ p \in DOMAIN n.promise /\ n.promise[p].state = "unresolved"
    <3>1. n.failed = FALSE /\ n \in Stores
      BY <2>6 DEF Sound
    <3>2. p \in DOMAIN n.promise /\ n.promise[p].state = "unresolved"
      BY <2>1, <2>5, <2>6 DEF Deals, SameRows
    <3> QED
      BY <3>1, <3>2
  <2>8. Sound(r, E, R) /\ Steady(n, r)
    BY <2>2, <2>6, <2>7, ResolveKernelPromiseIsSound
  <2> HIDE DEF r
  <2>9. r \in Stores /\ Steady(s, r)
    <3>1. r \in Stores
      BY <2>8 DEF Sound
    <3>2. Steady(c, r)
      BY <2>5, <2>6, <2>7, <2>8, <3>1, SteadyJoins DEF Deals
    <3> QED
      BY <2>1, <2>5, <3>1, <3>2, SteadyJoins
  <2>10. \A i \in DOMAIN q : Known(r, p, q[i])
    <3> TAKE i \in DOMAIN q
    <3>1. Known(s, p, q[i])
      BY <2>1, QueueKnown
    <3>2. q[i] \in Message
      BY <2>1
    <3> HIDE DEF q
    <3> QED
      BY <2>1, <2>9, <3>1, <3>2, KnownSteadily
  <2>11. u = SendAll(r, p, q, when)
    BY <1>2, <2>7 DEF ResolvePromise, r, n, c, told
  <2> HIDE DEF q, u
  <2>12. Sound(u, E, R) /\ Deals(r, u)
    BY <2>1, <2>8, <2>10, <2>11, SendAllIsSound
  <2>13. Steady(s, u)
    <3>1. u \in Stores /\ Steady(r, u)
      BY <2>12 DEF Sound, Deals
    <3> QED
      BY <2>1, <2>9, <3>1, SteadyJoins
  <2> QED
    BY <2>12, <2>13 DEF u
<1> QED
  BY <1>1, <1>2

(* A message put on the queue of a promise that exists.                    *)
LEMMA EnqueuePromiseMessageIsSound ==
    ASSUME NEW E \in Hands, NEW R, NEW s, Sound(s, E, R), NEW p \in Promises, NEW m \in Message,
           Exists(s, p), Known(s, p, m)
    PROVE  LET u == EnqueuePromiseMessage(s, p, m)
           IN  Sound(u, E, R) /\ Steady(s, u)
<1> DEFINE ks == MessageRefs(p, m)
           t == ChargeAll(s, ks)
           u == EnqueuePromiseMessage(s, p, m)
<1>1. p \in Krefs /\ s \in Stores
  BY KrefsAre DEF Sound
<1>2. ks \in Seq(Krefs) /\ \A i \in DOMAIN ks : Exists(s, ks[i])
  BY <1>1, MessageRefsType DEF Known
<1>3. PICK F : Lends(E, F, ks)
  BY <1>2, LentTo
<1>4. Recount(s, t) /\ Sound(t, F, R)
  <2> HIDE DEF ks
  <2> QED
    BY <1>2, <1>3, ChargeAllIsSound
<1> HIDE DEF t
<1>5. t \in Stores /\ t.failed = FALSE /\ p \in DOMAIN t.promise /\ t.promise[p] \in PromiseRows
  <2>1. t \in Stores /\ t.failed = FALSE
    BY <1>4 DEF Sound
  <2>2. p \in DOMAIN s.promise
    BY <1>1, ExistsIs, KrefsAre
  <2>3. p \in DOMAIN t.promise
    BY <1>4, <2>2 DEF Recount, SameRows
  <2> QED
    BY <2>1, <2>3, StoreIs
<1> DEFINE old == t.promise[p]
           row == [old EXCEPT !.queue = Append(@, m)]
<1>6. row \in PromiseRows /\ row.refs = old.refs
  <2>1. old.queue \in Seq(Message)
    BY <1>5 DEF PromiseRows
  <2>2. Append(old.queue, m) \in Seq(Message)
    BY <2>1
  <2> DEFINE q == Append(old.queue, m)
  <2> HIDE DEF q
  <2>3. [old EXCEPT !.queue = q] \in PromiseRows
    BY <1>5, <2>2 DEF PromiseRows, q
  <2>4. [old EXCEPT !.queue = q].refs = old.refs
    BY <1>5 DEF PromiseRows
  <2> QED
    BY <2>3, <2>4 DEF q
<1>7. row.state = old.state /\ row.slots = old.slots
  BY <1>5 DEF PromiseRows
<1>8. row.queue = Append(old.queue, m) /\ old.queue \in Seq(Message)
  BY <1>5 DEF PromiseRows
<1>9. u = [t EXCEPT !.promise[p] = row]
  BY <1>5 DEF EnqueuePromiseMessage, t
<1> HIDE DEF row, u
<1>10. RowSet(t, u, p, row)
  BY <1>9 DEF RowSet
<1>11. /\ Passes(t, u) /\ u.promise[p] = row
       /\ \A x \in DOMAIN t.promise : x # p => u.promise[x] = t.promise[x]
       /\ \A k \in Krefs : Held(u, k) = Held(t, k) - UsesInPromise(p, old, k)
                                                + UsesInPromise(p, row, k)
  BY <1>5, <1>6, <1>10, RowSetIs
<1>12. ASSUME NEW k \in Krefs PROVE Held(u, k) + E[k] = Held(t, k) + F[k]
  <2> DEFINE h == Held(t, k)
             a == UsesInQueue(p, old.queue, k)
             w == Uses(OwnRefs(p, old), k)
             y == Uses(ks, k)
             e == E[k]
  <2>1. UsesInPromise(p, old, k) = w + a /\ w \in Nat /\ a \in Nat
    BY <1>5, PromiseHolds
  <2>2. UsesInPromise(p, row, k) = w + (a + y)
    <3>1. OwnRefs(p, row) = OwnRefs(p, old)
      BY <1>7 DEF OwnRefs
    <3>2. UsesInQueue(p, row.queue, k) = a + y
      BY <1>1, <1>8, UsesInMoreQueue
    <3> HIDE DEF w, a, y
    <3>3. UsesInPromise(p, row, k) = Uses(OwnRefs(p, row), k) + UsesInQueue(p, row.queue, k)
      BY <1>6, UsesInPromiseType
    <3> QED
      BY <3>1, <3>2, <3>3 DEF w
  <2>3. h \in Nat /\ y \in Nat /\ e \in Int /\ F[k] = e + y
    BY <1>2, <1>3, <1>5, HeldType, UsesType DEF Lends, Hands
  <2>4. Held(u, k) = h - (w + a) + (w + (a + y))
    BY <1>11, <2>1, <2>2
  <2> HIDE DEF h, a, w, y, e
  <2>5. Held(u, k) + e = h + F[k]
    BY <2>1, <2>3, <2>4
  <2> QED
    BY <2>5 DEF h, e
<1>13. Stands(t, u)
  <2>1. u.nextPromise = t.nextPromise /\ DOMAIN u.promise = DOMAIN t.promise /\ t.nextPromise \in Nat
    BY <1>5, <1>11, StoreFields DEF Passes
  <2>2. \A x \in DOMAIN u.promise : u.promise[x].state = t.promise[x].state
                                    /\ u.promise[x].slots = t.promise[x].slots
    BY <1>7, <1>11, <2>1
  <2> QED
    BY <2>1, <2>2 DEF Stands
<1>14. F \in Hands
  BY <1>3 DEF Lends
<1>15. Sound(u, E, R) /\ Steady(t, u)
  BY <1>4, <1>11, <1>12, <1>13, <1>14, PassesIsSound
<1>16. Steady(s, u)
  <2>1. Steady(s, t) /\ u \in Stores
    BY <1>1, <1>4, <1>15, RecountSteady DEF Sound
  <2> QED
    BY <1>1, <1>5, <1>15, <2>1, SteadyJoins
<1> QED
  BY <1>15, <1>16 DEF u

=============================================================================
