--------------------------- MODULE NumberedProofs ---------------------------
(***************************************************************************)
(* Induction over the naturals and over the elements of a sequence.        *)
(*                                                                         *)
(* A set of naturals that has 0 and the successors of its elements is Nat  *)
(* (Induction): a least number outside it would have a predecessor inside. *)
(* A fold over a sequence is unfolded into the values it has reached at    *)
(* each position, and what it computes follows by induction over these.    *)
(* Two ascending sequences with the same elements are equal.               *)
(***************************************************************************)
EXTENDS Numbered, SequenceTheorems, WellFoundedInduction, TLAPS

LEMMA LeastNumber ==
  ASSUME NEW U \in SUBSET Nat, U # {}
  PROVE  \E x \in U : \A y \in U : y >= x
<1>1. IsWellFoundedOn(OpToRel(<, Nat), Nat)
  BY NatLessThanWellFounded
<1>2. PICK x \in U : \A y \in U : ~ (<<y, x>> \in OpToRel(<, Nat))
  BY <1>1, WFMin
<1>3. ASSUME NEW y \in U, ~(y >= x)
      PROVE  FALSE
  <2>1. y \in Nat /\ x \in Nat /\ y < x
    BY ONLY x \in U, y \in U, U \in SUBSET Nat, <1>3
  <2>2. <<y, x>> \in OpToRel(<, Nat)
    BY ONLY <2>1 DEF OpToRel
  <2> QED
    BY <1>2, <2>2
<1> QED
  BY <1>3

LEMMA Induction ==
  ASSUME NEW T \in SUBSET Nat, 0 \in T, \A n \in T : n + 1 \in T
  PROVE  T = Nat
<1> SUFFICES ASSUME Nat \ T # {} PROVE FALSE
  OBVIOUS
<1>1. PICK x \in Nat \ T : \A y \in Nat \ T : y >= x
  <2> DEFINE U == Nat \ T
  <2>1. U \in SUBSET Nat /\ U # {}
    OBVIOUS
  <2> HIDE DEF U
  <2>2. \E z \in U : \A y \in U : y >= z
    BY <2>1, LeastNumber
  <2> QED
    BY <2>2 DEF U
<1>2. x - 1 \in Nat /\ x - 1 + 1 = x /\ ~(x - 1 >= x)
  BY <1>1
<1> QED
  BY <1>1, <1>2

\* The same up to a bound.
LEMMA InductionUpTo ==
  ASSUME NEW n \in Nat, NEW T, 0 \in T, \A k \in 0..n - 1 : k \in T => k + 1 \in T
  PROVE  0..n \subseteq T
<1> DEFINE U == {k \in Nat : k <= n => k \in T}
<1>1. 0 \in U /\ U \in SUBSET Nat
  OBVIOUS
<1>2. \A k \in U : k + 1 \in U
  OBVIOUS
<1> HIDE DEF U
<1>3. U = Nat
  BY <1>1, <1>2, Induction
<1> QED
  BY <1>3 DEF U

-----------------------------------------------------------------------------
(***************************************************************************)
(* Folds.                                                                  *)
(***************************************************************************)
\* The greatest of a set of positions.
LEMMA LastPosition ==
  ASSUME NEW k \in Nat, NEW t \in SUBSET (1..k + 1), k + 1 \in t
  PROVE  Max(t) = k + 1 /\ t \ {k + 1} \in SUBSET (1..k)
<1>1. \A y \in t : k + 1 >= y
  OBVIOUS
<1>2. \A x \in t : (\A y \in t : x >= y) => x = k + 1
  OBVIOUS
<1>3. Max(t) = k + 1
  BY <1>1, <1>2 DEF Max
<1>4. t \ {k + 1} \in SUBSET (1..k)
  OBVIOUS
<1> QED
  BY <1>3, <1>4

\* The first k positions: k is the greatest.
LEMMA FirstPositions ==
  ASSUME NEW n \in Nat, NEW k \in 1..n
  PROVE  /\ 1..k \in SUBSET (1..n) /\ 1..k # {}
         /\ Max(1..k) = k /\ (1..k) \ {k} = 1..k - 1
<1>1. k - 1 \in Nat /\ k - 1 + 1 = k
  OBVIOUS
<1>2. 1..k \in SUBSET (1..n) /\ k \in 1..k /\ 1..k # {} /\ (1..k) \ {k} = 1..k - 1
  BY <1>1
<1>3. 1..k \in SUBSET (1..(k - 1) + 1) /\ (k - 1) + 1 \in 1..k
  BY <1>1
<1>4. Max(1..k) = (k - 1) + 1
  BY ONLY <1>1, <1>3, LastPosition
<1> QED
  BY <1>1, <1>2, <1>4

\* The greatest of some of the first n positions is one of them.
LEMMA GreatestPosition ==
  ASSUME NEW n \in Nat, NEW t \in SUBSET (1..n), t # {}
  PROVE  Max(t) \in 1..n
<1> DEFINE T == {k \in Nat : \A u \in SUBSET (1..k) : u # {} => Max(u) \in 1..k}
<1>1. 0 \in T
  <2>1. \A u \in SUBSET (1..0) : u = {}
    OBVIOUS
  <2> QED
    BY <2>1
<1>2. ASSUME NEW k \in T
      PROVE  k + 1 \in T
  <2> SUFFICES ASSUME NEW u \in SUBSET (1..k + 1), u # {} PROVE Max(u) \in 1..k + 1
    OBVIOUS
  <2>1. CASE k + 1 \in u
    BY <2>1, LastPosition
  <2>2. CASE k + 1 \notin u
    <3>1. u \in SUBSET (1..k)
      <4>1. \A i \in u : i \in 1..k
        BY <2>2
      <4> QED
        BY <4>1
    <3>2. Max(u) \in 1..k
      BY <3>1
    <3> QED
      BY <3>2
  <2> QED
    BY <2>1, <2>2
<1>3. T = Nat
  <2>1. T \in SUBSET Nat
    OBVIOUS
  <2> HIDE DEF T
  <2> QED
    BY <1>1, <1>2, <2>1, Induction
<1> QED
  BY <1>3

\* h has the value in V of a fold for every set t of the first k positions:
\* step leads from the value of those before the last of t to that of t.
Folds(h, V, base, step, k) ==
  /\ h \in [SUBSET (1..k) -> V]
  /\ \A t \in SUBSET (1..k) :
       h[t] = IF t = {} THEN base ELSE step[Max(t)][h[t \ {Max(t)}]]

LEMMA FoldExists ==
  ASSUME NEW V, NEW base \in V, NEW n \in Nat, NEW step \in [1..n -> [V -> V]]
  PROVE  \E h : Folds(h, V, base, step, n)
<1> USE DEF Folds
<1> DEFINE T == {k \in Nat : \E h : Folds(h, V, base, step, k)}
<1>1. 0 \in T
  <2> DEFINE h == [t \in SUBSET (1..0) |-> base]
  <2>1. \A t \in SUBSET (1..0) : t = {}
    OBVIOUS
  <2>2. Folds(h, V, base, step, 0)
    BY <2>1
  <2> QED
    BY <2>2
<1>2. ASSUME NEW k \in 0..n - 1, k \in T
      PROVE  k + 1 \in T
  <2>1. k \in Nat /\ k + 1 \in Nat /\ k + 1 \in 1..n
    OBVIOUS
  <2>2. PICK h : Folds(h, V, base, step, k)
    BY <1>2
  <2> DEFINE g == [t \in SUBSET (1..k + 1) |->
                     IF k + 1 \in t THEN step[k + 1][h[t \ {k + 1}]] ELSE h[t]]
  <2>3. ASSUME NEW t \in SUBSET (1..k)
        PROVE  t \in SUBSET (1..k + 1) /\ g[t] = h[t] /\ h[t] \in V
    <3>1. t \in SUBSET (1..k + 1) /\ k + 1 \notin t
      BY <2>1
    <3>2. h[t] \in V
      BY <2>2
    <3> QED
      BY <3>1, <3>2
  <2>4. ASSUME NEW t \in SUBSET (1..k + 1)
        PROVE  g[t] = (IF t = {} THEN base ELSE step[Max(t)][g[t \ {Max(t)}]])
               /\ g[t] \in V
    <3>1. CASE k + 1 \in t
      <4>1. Max(t) = k + 1 /\ t \ {k + 1} \in SUBSET (1..k)
        BY <2>1, <3>1, LastPosition
      <4>2. g[t \ {k + 1}] = h[t \ {k + 1}] /\ h[t \ {k + 1}] \in V
        BY <2>3, <4>1
      <4>3. g[t] = step[k + 1][h[t \ {k + 1}]]
        BY <3>1
      <4>4. step[k + 1][h[t \ {k + 1}]] \in V
        BY <2>1, <4>2
      <4> QED
        BY <3>1, <4>1, <4>2, <4>3, <4>4
    <3>2. CASE k + 1 \notin t
      <4>1. t \in SUBSET (1..k) /\ t \ {Max(t)} \in SUBSET (1..k)
        <5>1. \A i \in t : i \in 1..k
          BY <2>1, <3>2
        <5> QED
          BY <5>1
      <4>2. g[t] = h[t] /\ h[t] \in V /\ g[t \ {Max(t)}] = h[t \ {Max(t)}]
        BY <2>3, <4>1
      <4>3. h[t] = IF t = {} THEN base ELSE step[Max(t)][h[t \ {Max(t)}]]
        BY <2>2, <4>1
      <4> QED
        BY <4>2, <4>3
    <3> QED
      BY <3>1, <3>2
  <2>5. Folds(g, V, base, step, k + 1)
    <3>1. g = [t \in SUBSET (1..k + 1) |-> g[t]]
      OBVIOUS
    <3> HIDE DEF g
    <3>2. g \in [SUBSET (1..k + 1) -> V]
      BY <2>4, <3>1
    <3> QED
      BY <2>4, <3>2
  <2> QED
    BY <2>1, <2>5
<1>3. 0..n \subseteq T
  <2> HIDE DEF T
  <2> QED
    BY <1>1, <1>2, InductionUpTo
<1>4. n \in T
  <2> HIDE DEF T
  <2> QED
    BY <1>3
<1> QED
  BY <1>4

\* The values F that Selected reaches on its way through q.
LEMMA SelectedUnfolds ==
  ASSUME NEW M, NEW q \in Seq(M), NEW S
  PROVE  \E F : /\ F[0] = <<>> /\ F[Len(q)] = Selected(q, S)
                /\ \A k \in 1..Len(q) :
                     F[k] = IF q[k] \in S THEN Append(F[k - 1], q[k]) ELSE F[k - 1]
<1> DEFINE n == Len(q)
           Next(k, v) == IF q[k] \in S THEN Append(v, q[k]) ELSE v
           Iterates(h) == h = [t \in SUBSET (1..n) |->
                              IF t = {} THEN <<>> ELSE Next(Max(t), h[t \ {Max(t)}])]
           iter == CHOOSE h : Iterates(h)
           step == [k \in 1..n |-> [v \in Seq(M) |-> Next(k, v)]]
           F == [k \in 0..n |-> iter[1..k]]
<1>1. n \in Nat /\ DOMAIN q = 1..n /\ \A k \in 1..n : q[k] \in M
  BY LenProperties, ElementOfSeq
<1>2. Selected(q, S) = iter[1..n]
  BY <1>1 DEF Selected, FoldLeft, MapThenFoldSet
<1> HIDE DEF n
<1>3. \A k \in 1..n, v \in Seq(M) : Next(k, v) \in Seq(M)
  BY <1>1, AppendProperties
<1> HIDE DEF Next
<1>4. \E h : Iterates(h)
  <2>1. step \in [1..n -> [Seq(M) -> Seq(M)]] /\ <<>> \in Seq(M)
    BY <1>3, EmptySeq
  <2>2. \A k \in 1..n, v \in Seq(M) : step[k][v] = Next(k, v)
    OBVIOUS
  <2> HIDE DEF step
  <2>p. PICK h : Folds(h, Seq(M), <<>>, step, n)
    BY <1>1, <2>1, FoldExists
  <2>3. /\ h \in [SUBSET (1..n) -> Seq(M)]
        /\ \A t \in SUBSET (1..n) :
             h[t] = IF t = {} THEN <<>> ELSE step[Max(t)][h[t \ {Max(t)}]]
    BY <2>p DEF Folds
  <2>4. ASSUME NEW t \in SUBSET (1..n), t # {}
        PROVE  h[t] = Next(Max(t), h[t \ {Max(t)}])
    <3>1. Max(t) \in 1..n /\ t \ {Max(t)} \in SUBSET (1..n)
      BY <1>1, <2>4, GreatestPosition
    <3>2. h[t \ {Max(t)}] \in Seq(M)
      BY <2>3, <3>1
    <3> QED
      BY <2>2, <2>3, <2>4, <3>1, <3>2
  <2>5. \A t \in SUBSET (1..n) :
          h[t] = IF t = {} THEN <<>> ELSE Next(Max(t), h[t \ {Max(t)}])
    BY <2>3, <2>4
  <2>6. h = [t \in SUBSET (1..n) |-> h[t]]
    BY <2>3
  <2> QED
    BY <2>5, <2>6
<1>5. Iterates(iter)
  BY <1>4
<1> HIDE DEF iter
<1>6. F[0] = <<>>
  <2>1. 1..0 = {} /\ {} \in SUBSET (1..n) /\ 0 \in 0..n
    BY <1>1
  <2> QED
    BY <1>5, <2>1
<1>7. ASSUME NEW k \in 1..n
      PROVE  F[k] = Next(k, F[k - 1])
  <2>1. /\ 1..k \in SUBSET (1..n) /\ 1..k # {}
        /\ Max(1..k) = k /\ (1..k) \ {k} = 1..k - 1
    BY <1>1, FirstPositions
  <2>2. k \in 0..n /\ k - 1 \in 0..n
    BY <1>1
  <2> QED
    BY <1>5, <2>1, <2>2
<1>8. F[n] = Selected(q, S)
  BY <1>1, <1>2
<1> HIDE DEF F
<1> QED
  BY <1>6, <1>7, <1>8 DEF n, Next

-----------------------------------------------------------------------------
(***************************************************************************)
(* What is selected.                                                       *)
(***************************************************************************)
\* t has the messages of the first k of q that are in S, in their order: p
\* says at which position of q each is.
Picks(t, p, q, S, k) ==
  /\ p \in [1..Len(t) -> 1..k]
  /\ \A j \in 1..Len(t) : t[j] = q[p[j]] /\ t[j] \in S
  /\ \A i, j \in 1..Len(t) : i < j => p[i] < p[j]
  /\ \A i \in 1..k : q[i] \in S => \E j \in 1..Len(t) : p[j] = i

LEMMA PickNext ==
  ASSUME NEW M, NEW t \in Seq(M), NEW q, NEW S, NEW k \in Nat, NEW p,
         Picks(t, p, q, S, k), q[k + 1] \in M, q[k + 1] \in S
  PROVE  \E r : Picks(Append(t, q[k + 1]), r, q, S, k + 1)
<1> DEFINE u == Append(t, q[k + 1])
           r == [j \in 1..Len(t) + 1 |-> IF j = Len(t) + 1 THEN k + 1 ELSE p[j]]
<1>1. /\ Len(t) \in Nat /\ Len(u) = Len(t) + 1 /\ u[Len(t) + 1] = q[k + 1]
      /\ \A j \in 1..Len(t) : u[j] = t[j]
  BY LenProperties, AppendProperties
<1>2. /\ r[Len(t) + 1] = k + 1
      /\ \A j \in 1..Len(t) : r[j] = p[j] /\ p[j] \in 1..k
  BY <1>1 DEF Picks
<1>3. \A j \in 1..Len(t) + 1 : j = Len(t) + 1 \/ j \in 1..Len(t)
  BY <1>1
<1>f. r = [j \in 1..Len(t) + 1 |-> r[j]]
  OBVIOUS
<1> HIDE DEF u, r
<1>4. r \in [1..Len(u) -> 1..k + 1]
  <2>1. k + 1 \in 1..k + 1 /\ \A x \in 1..k : x \in 1..k + 1
    OBVIOUS
  <2>2. \A j \in 1..Len(t) + 1 : r[j] \in 1..k + 1
    BY <1>2, <1>3, <2>1
  <2> QED
    BY <1>1, <1>f, <2>2
<1>5. \A j \in 1..Len(u) : u[j] = q[r[j]] /\ u[j] \in S
  BY <1>1, <1>2, <1>3 DEF Picks
<1>6. \A i, j \in 1..Len(u) : i < j => r[i] < r[j]
  <2> SUFFICES ASSUME NEW i \in 1..Len(t) + 1, NEW j \in 1..Len(t) + 1, i < j
               PROVE  r[i] < r[j]
    BY <1>1
  <2>1. i \in 1..Len(t)
    BY <1>1
  <2>2. CASE j = Len(t) + 1
    BY <1>2, <2>1, <2>2
  <2>3. CASE j \in 1..Len(t)
    BY <1>2, <2>1, <2>3 DEF Picks
  <2> QED
    BY <1>3, <2>2, <2>3
<1>7. ASSUME NEW i \in 1..k + 1, q[i] \in S
      PROVE  \E j \in 1..Len(u) : r[j] = i
  <2>1. CASE i = k + 1
    <3>1. Len(t) + 1 \in 1..Len(u)
      BY <1>1
    <3> QED
      BY <1>2, <2>1, <3>1
  <2>2. CASE i # k + 1
    <3>1. PICK j \in 1..Len(t) : p[j] = i
      BY <1>7, <2>2 DEF Picks
    <3>2. j \in 1..Len(u)
      BY <1>1
    <3> QED
      BY <1>2, <3>1, <3>2
  <2> QED
    BY <2>1, <2>2
<1>8. Picks(u, r, q, S, k + 1)
  BY <1>4, <1>5, <1>6, <1>7 DEF Picks
<1> QED
  BY <1>8 DEF u

LEMMA SkipNext ==
  ASSUME NEW t, NEW q, NEW S, NEW k \in Nat, NEW p,
         Picks(t, p, q, S, k), q[k + 1] \notin S
  PROVE  Picks(t, p, q, S, k + 1)
<1>1. p \in [1..Len(t) -> 1..k + 1]
  <2>1. \A j \in 1..Len(t) : p[j] \in 1..k
    BY DEF Picks
  <2>2. \A x \in 1..k : x \in 1..k + 1
    OBVIOUS
  <2> QED
    BY <2>1, <2>2 DEF Picks
<1>2. \A i \in 1..k + 1 : q[i] \in S => i \in 1..k
  OBVIOUS
<1> QED
  BY <1>1, <1>2 DEF Picks

\* Selected is what its name says.
LEMMA SelectedPicks ==
  ASSUME NEW M, NEW q \in Seq(M), NEW S
  PROVE  /\ Selected(q, S) \in Seq(M)
         /\ \E p : Picks(Selected(q, S), p, q, S, Len(q))
<1> DEFINE n == Len(q)
<1>1. n \in Nat /\ DOMAIN q = 1..n /\ \A i \in 1..n : q[i] \in M
  BY LenProperties, ElementOfSeq
<1>2. PICK F : /\ F[0] = <<>> /\ F[n] = Selected(q, S)
               /\ \A k \in 1..n :
                    F[k] = IF q[k] \in S THEN Append(F[k - 1], q[k]) ELSE F[k - 1]
  BY ONLY q \in Seq(M), SelectedUnfolds
<1> HIDE DEF n
<1> DEFINE T == {k \in Nat : F[k] \in Seq(M) /\ \E p : Picks(F[k], p, q, S, k)}
<1>3. 0 \in T
  <2>1. F[0] \in Seq(M) /\ Len(F[0]) = 0
    BY <1>2, EmptySeq
  <2>2. Picks(F[0], [j \in 1..0 |-> 0], q, S, 0)
    BY <2>1 DEF Picks
  <2> QED
    BY <2>1, <2>2
<1>4. ASSUME NEW k \in 0..n - 1, k \in T
      PROVE  k + 1 \in T
  <2>1. k \in Nat /\ k + 1 \in 1..n /\ k + 1 - 1 = k /\ q[k + 1] \in M
    BY <1>1
  <2>2. F[k + 1] = IF q[k + 1] \in S THEN Append(F[k], q[k + 1]) ELSE F[k]
    BY <1>2, <2>1
  <2>3. F[k] \in Seq(M)
    BY <1>4
  <2>4. PICK p : Picks(F[k], p, q, S, k)
    BY <1>4
  <2>5. CASE q[k + 1] \in S
    <3>1. \E r : Picks(F[k + 1], r, q, S, k + 1)
      BY <2>1, <2>2, <2>3, <2>4, <2>5, PickNext
    <3>2. F[k + 1] \in Seq(M)
      BY <2>1, <2>2, <2>3, <2>5, AppendProperties
    <3> QED
      BY <2>1, <3>1, <3>2
  <2>6. CASE q[k + 1] \notin S
    <3>1. Picks(F[k + 1], p, q, S, k + 1)
      BY <2>1, <2>2, <2>4, <2>6, SkipNext
    <3> QED
      BY <2>1, <2>2, <2>3, <2>6, <3>1
  <2> QED
    BY <2>5, <2>6
<1> HIDE DEF T
<1>5. 0..n \subseteq T
  BY <1>1, <1>3, <1>4, InductionUpTo
<1>6. n \in T
  BY <1>1, <1>5
<1> QED
  BY <1>2, <1>6 DEF T, n

\* What is selected from the beginning of q is the beginning of what is
\* selected from q.
LEMMA SelectedBeginning ==
  ASSUME NEW M, NEW q \in Seq(M), NEW r \in Seq(M), NEW S, Len(r) <= Len(q),
         \A i \in 1..Len(r) : r[i] = q[i]
  PROVE  /\ Len(Selected(r, S)) <= Len(Selected(q, S))
         /\ \A i \in 1..Len(Selected(r, S)) : Selected(r, S)[i] = Selected(q, S)[i]
<1> DEFINE n == Len(q)
           m == Len(r)
<1>1. /\ n \in Nat /\ DOMAIN q = 1..n /\ \A i \in 1..n : q[i] \in M
      /\ m \in Nat /\ DOMAIN r = 1..m /\ m <= n /\ \A i \in 1..m : r[i] = q[i]
  BY LenProperties, ElementOfSeq
<1> HIDE DEF n, m
<1>2. PICK F : /\ F[0] = <<>> /\ F[n] = Selected(q, S)
               /\ \A k \in 1..n :
                    F[k] = IF q[k] \in S THEN Append(F[k - 1], q[k]) ELSE F[k - 1]
  BY SelectedUnfolds DEF n
<1>3. PICK G : /\ G[0] = <<>> /\ G[m] = Selected(r, S)
               /\ \A k \in 1..m :
                    G[k] = IF r[k] \in S THEN Append(G[k - 1], r[k]) ELSE G[k - 1]
  BY SelectedUnfolds DEF m
<1> DEFINE T == {k \in Nat : k <= m => G[k] = F[k]}
<1>4. 0..m \subseteq T
  <2>1. 0 \in T
    BY <1>2, <1>3
  <2>2. ASSUME NEW k \in 0..m - 1, k \in T
        PROVE  k + 1 \in T
    <3>1. k \in Nat /\ k + 1 \in 1..m /\ k + 1 \in 1..n /\ k + 1 - 1 = k /\ k <= m
      BY <1>1
    <3>2. G[k] = F[k]
      BY <2>2, <3>1
    <3>3. G[k + 1] = F[k + 1]
      BY <1>1, <1>2, <1>3, <3>1, <3>2
    <3> QED
      BY <3>1, <3>3
  <2> HIDE DEF T
  <2> QED
    BY <1>1, <2>1, <2>2, InductionUpTo
<1>5. Selected(r, S) = F[m]
  <2>1. m \in T
    BY <1>1, <1>4
  <2> QED
    BY <1>1, <1>3, <2>1
<1> HIDE DEF T
<1> DEFINE Extends(k) == /\ F[k] \in Seq(M) /\ Len(F[m]) <= Len(F[k])
                         /\ \A i \in 1..Len(F[m]) : F[m][i] = F[k][i]
           U == {k \in Nat : m + k <= n => Extends(m + k)}
<1>6. 0 \in U
  <2>1. F[m] \in Seq(M)
    BY <1>5, SelectedPicks
  <2>2. Len(F[m]) \in Nat /\ m + 0 = m
    BY <1>1, <2>1, LenProperties
  <2> QED
    BY <2>1, <2>2
<1>7. ASSUME NEW k \in U
      PROVE  k + 1 \in U
  <2> SUFFICES ASSUME m + (k + 1) <= n PROVE Extends(m + (k + 1))
    OBVIOUS
  <2> DEFINE j == m + k
  <2>1. k \in Nat /\ j \in Nat /\ j + 1 = m + (k + 1) /\ j + 1 \in 1..n /\ j <= n /\ j + 1 - 1 = j
    BY <1>1
  <2>2. Extends(j)
    BY <2>1
  <2> HIDE DEF j
  <2>3. F[j + 1] = IF q[j + 1] \in S THEN Append(F[j], q[j + 1]) ELSE F[j]
    BY <1>2, <2>1
  <2>4. CASE q[j + 1] \in S
    <3>1. q[j + 1] \in M /\ F[j] \in Seq(M)
      BY <1>1, <2>1, <2>2
    <3>2. /\ F[j + 1] \in Seq(M) /\ Len(F[j + 1]) = Len(F[j]) + 1
          /\ \A i \in 1..Len(F[j]) : F[j + 1][i] = F[j][i]
      BY <2>3, <2>4, <3>1, AppendProperties
    <3>3. Len(F[j]) \in Nat /\ Len(F[m]) \in Nat
      BY <1>5, <3>1, LenProperties, SelectedPicks
    <3>4. \A i \in 1..Len(F[m]) : i \in 1..Len(F[j])
      BY <2>2, <3>3
    <3>5. Extends(j + 1)
      BY <2>2, <3>2, <3>3, <3>4
    <3> QED
      BY <2>1, <3>5
  <2>5. CASE q[j + 1] \notin S
    <3>1. Extends(j + 1)
      BY <2>2, <2>3, <2>5
    <3> QED
      BY <2>1, <3>1
  <2> QED
    BY <2>4, <2>5
<1>8. U = Nat
  <2>1. U \in SUBSET Nat
    OBVIOUS
  <2> HIDE DEF U
  <2> QED
    BY <1>6, <1>7, <2>1, Induction
<1>9. Extends(n)
  <2>1. n - m \in Nat /\ m + (n - m) = n
    BY <1>1
  <2>2. m + (n - m) <= n
    BY <1>1, <2>1
  <2>3. Extends(m + (n - m))
    BY <1>8, <2>1, <2>2
  <2> QED
    BY <2>1, <2>3
<1> QED
  BY <1>2, <1>5, <1>9

-----------------------------------------------------------------------------
(***************************************************************************)
(* Ascending sequences.                                                    *)
(***************************************************************************)
\* Selecting keeps the order.
LEMMA SelectedAscending ==
  ASSUME NEW M, NEW q \in Seq(M), NEW S, Ascending(q)
  PROVE  Ascending(Selected(q, S))
<1>1. PICK p : Picks(Selected(q, S), p, q, S, Len(q))
  BY SelectedPicks
<1>2. DOMAIN Selected(q, S) = 1..Len(Selected(q, S)) /\ DOMAIN q = 1..Len(q)
  BY SelectedPicks, LenProperties
<1>3. \A j \in 1..Len(Selected(q, S)) :
        p[j] \in 1..Len(q) /\ Selected(q, S)[j] = q[p[j]]
  BY <1>1 DEF Picks
<1> QED
  BY <1>1, <1>2, <1>3 DEF Ascending, Picks

\* The number of a message is at least its position.
LEMMA AscendingBound ==
  ASSUME NEW M, NEW q \in Seq(M), Ascending(q), \A m \in M : m.n \in Nat \ {0}
  PROVE  \A i \in 1..Len(q) : q[i].n >= i
<1>1. /\ Len(q) \in Nat /\ DOMAIN q = 1..Len(q)
      /\ \A i \in 1..Len(q) : q[i].n \in Nat /\ q[i].n >= 1
  BY LenProperties, ElementOfSeq
<1> DEFINE T == {k \in Nat : k \in 1..Len(q) => q[k].n >= k}
<1>2. 0 \in T
  OBVIOUS
<1>3. ASSUME NEW k \in T
      PROVE  k + 1 \in T
  <2> SUFFICES ASSUME k + 1 \in 1..Len(q) PROVE q[k + 1].n >= k + 1
    OBVIOUS
  <2>1. CASE k = 0
    BY <1>1, <2>1
  <2>2. CASE k # 0
    <3>1. k \in 1..Len(q) /\ k < k + 1
      BY <1>1, <2>2
    <3>2. q[k].n >= k /\ q[k].n < q[k + 1].n
      BY <1>1, <3>1 DEF Ascending
    <3>3. q[k].n \in Nat /\ q[k + 1].n \in Nat
      BY <1>1, <3>1
    <3> QED
      BY <3>2, <3>3
  <2> QED
    BY <2>1, <2>2
<1>4. T = Nat
  <2>1. T \in SUBSET Nat
    OBVIOUS
  <2> HIDE DEF T
  <2> QED
    BY <1>2, <1>3, <2>1, Induction
<1> QED
  BY <1>1, <1>4

\* Two sequences in ascending order that have the same messages are equal.
LEMMA AscendingElements ==
  ASSUME NEW M, \A m \in M : m.n \in Nat,
         NEW q \in Seq(M), NEW r \in Seq(M), Ascending(q), Ascending(r),
         \A i \in 1..Len(q) : \E j \in 1..Len(r) : r[j] = q[i],
         \A j \in 1..Len(r) : \E i \in 1..Len(q) : q[i] = r[j]
  PROVE  \A k \in 1..Len(q) : k \in 1..Len(r) /\ q[k] = r[k]
<1>1. /\ Len(q) \in Nat /\ DOMAIN q = 1..Len(q)
      /\ Len(r) \in Nat /\ DOMAIN r = 1..Len(r)
      /\ \A i \in 1..Len(q) : q[i].n \in Nat
      /\ \A j \in 1..Len(r) : r[j].n \in Nat
  BY LenProperties, ElementOfSeq
<1> DEFINE T == {k \in Nat : \A i \in 1..k : i \in 1..Len(q) => i \in 1..Len(r) /\ q[i] = r[i]}
<1>2. 0 \in T
  OBVIOUS
<1>3. ASSUME NEW k \in T
      PROVE  k + 1 \in T
  <2> SUFFICES ASSUME k + 1 \in 1..Len(q)
               PROVE  k + 1 \in 1..Len(r) /\ q[k + 1] = r[k + 1]
    <3>1. \A i \in 1..k + 1 : i \in 1..k \/ i = k + 1
      OBVIOUS
    <3>2. k \in Nat /\ \A i \in 1..k : i \in 1..Len(q) => i \in 1..Len(r) /\ q[i] = r[i]
      OBVIOUS
    <3>3. \A i \in 1..k + 1 : i \in 1..Len(q) => i \in 1..Len(r) /\ q[i] = r[i]
      BY <3>1, <3>2
    <3> QED
      BY <3>2, <3>3
  <2> HIDE DEF T
  <2>1. k \in Nat /\ \A i \in 1..k : i \in 1..Len(q) /\ i \in 1..Len(r) /\ q[i] = r[i]
    BY <1>1 DEF T
  <2>2. PICK j \in 1..Len(r) : r[j] = q[k + 1]
    OBVIOUS
  <2>n. q[k + 1].n \in Nat /\ ~(q[k + 1].n < q[k + 1].n)
    <3>1. q[k + 1].n \in Nat
      BY <1>1
    <3>2. \A x \in Nat : ~(x < x)
      OBVIOUS
    <3> QED
      BY <3>1, <3>2
  <2>3. j >= k + 1
    <3> SUFFICES ASSUME j \in 1..k PROVE FALSE
      BY <1>1, <2>1
    <3>1. q[j] = q[k + 1] /\ j \in 1..Len(q) /\ j < k + 1
      BY <2>1, <2>2
    <3>2. q[j].n < q[k + 1].n
      BY <1>1, <3>1 DEF Ascending
    <3> QED
      BY <2>n, <3>1, <3>2
  <2>4. k + 1 \in 1..Len(r)
    BY <1>1, <2>1, <2>3
  <2>m. r[k + 1].n \in Nat /\ ~(r[k + 1].n < r[k + 1].n)
    <3>1. \A x \in Nat : ~(x < x)
      OBVIOUS
    <3> QED
      BY <1>1, <2>4, <3>1
  <2>5. PICK i \in 1..Len(q) : q[i] = r[k + 1]
    BY <2>4
  <2>6. i >= k + 1
    <3> SUFFICES ASSUME i \in 1..k PROVE FALSE
      BY <1>1, <2>1
    <3>1. r[i] = r[k + 1] /\ i \in 1..Len(r) /\ i < k + 1
      BY <2>1, <2>5
    <3>2. r[i].n < r[k + 1].n
      BY <1>1, <2>4, <3>1 DEF Ascending
    <3> QED
      BY <2>m, <3>1, <3>2
  <2>7. CASE j = k + 1
    BY <2>2, <2>4, <2>7
  <2>8. CASE j # k + 1
    <3>1. k + 1 < j
      BY <2>3, <2>8
    <3>2. r[k + 1].n < q[k + 1].n
      BY <1>1, <2>2, <2>4, <3>1 DEF Ascending
    <3>3. i # k + 1
      BY <2>m, <2>5, <3>2
    <3>4. k + 1 < i
      BY <2>6, <3>3
    <3>5. q[k + 1].n < r[k + 1].n
      BY <1>1, <2>5, <3>4 DEF Ascending
    <3>6. \A x, y \in Nat : ~(x < y /\ y < x)
      OBVIOUS
    <3> QED
      BY <2>m, <2>n, <3>2, <3>5, <3>6
  <2> QED
    BY <2>7, <2>8
<1>4. T = Nat
  <2>1. T \in SUBSET Nat
    OBVIOUS
  <2> HIDE DEF T
  <2> QED
    BY <1>2, <1>3, <2>1, Induction
<1>5. Len(q) \in T
  BY <1>1, <1>4
<1> QED
  BY <1>5

LEMMA SameAscending ==
  ASSUME NEW M, \A m \in M : m.n \in Nat,
         NEW q \in Seq(M), NEW r \in Seq(M), Ascending(q), Ascending(r),
         \A i \in 1..Len(q) : \E j \in 1..Len(r) : r[j] = q[i],
         \A j \in 1..Len(r) : \E i \in 1..Len(q) : q[i] = r[j]
  PROVE  q = r
<1>1. \A k \in 1..Len(q) : k \in 1..Len(r) /\ q[k] = r[k]
  BY AscendingElements
<1>2. \A k \in 1..Len(r) : k \in 1..Len(q)
  BY AscendingElements
<1>3. Len(q) \in Nat /\ Len(r) \in Nat
  BY LenProperties
<1>4. Len(q) = Len(r)
  <2>1. Len(q) <= Len(r)
    <3>1. Len(q) = 0 \/ Len(q) \in 1..Len(q)
      BY <1>3
    <3> QED
      BY <1>1, <1>3, <3>1
  <2>2. Len(r) <= Len(q)
    <3>1. Len(r) = 0 \/ Len(r) \in 1..Len(r)
      BY <1>3
    <3> QED
      BY <1>2, <1>3, <3>1
  <2> QED
    BY <1>3, <2>1, <2>2
<1> QED
  BY <1>1, <1>4, SeqEqual

\* What is selected, as a set.
LEMMA SelectedRange ==
  ASSUME NEW M, NEW q \in Seq(M), NEW S
  PROVE  Range(Selected(q, S)) = Range(q) \cap S
<1> DEFINE t == Selected(q, S)
<1>1. PICK p : Picks(t, p, q, S, Len(q))
  BY SelectedPicks
<1>2. /\ Range(t) = {t[j] : j \in 1..Len(t)}
      /\ Range(q) = {q[i] : i \in 1..Len(q)}
  BY SelectedPicks, RangeEquality
<1> HIDE DEF t
<1> QED
  BY <1>1, <1>2 DEF Picks, t

\* A sequence in ascending order is known by its elements.
LEMMA AscendingRange ==
  ASSUME NEW M, \A m \in M : m.n \in Nat,
         NEW q \in Seq(M), NEW r \in Seq(M), Ascending(q), Ascending(r),
         Range(q) = Range(r)
  PROVE  q = r
<1>1. /\ Range(q) = {q[i] : i \in 1..Len(q)}
      /\ Range(r) = {r[j] : j \in 1..Len(r)}
  BY RangeEquality
<1>2. /\ \A i \in 1..Len(q) : \E j \in 1..Len(r) : r[j] = q[i]
      /\ \A j \in 1..Len(r) : \E i \in 1..Len(q) : q[i] = r[j]
  BY <1>1
<1> QED
  BY <1>2, SameAscending

\* One ascending sequence behind another.
LEMMA AscendingConcat ==
  ASSUME NEW M, NEW u \in Seq(M), NEW v \in Seq(M), Ascending(u), Ascending(v),
         \A x \in Range(u) : \A y \in Range(v) : x.n < y.n
  PROVE  Ascending(u \o v)
<1> DEFINE w == u \o v
           k == Len(u)
           l == Len(v)
<1>1. /\ k \in Nat /\ l \in Nat /\ DOMAIN u = 1..k /\ DOMAIN v = 1..l
      /\ DOMAIN w = 1..k + l
      /\ \A i \in 1..k + l : w[i] = IF i <= k THEN u[i] ELSE v[i - k]
  <2>1. w \in Seq(M) /\ Len(w) = k + l
    BY ConcatProperties
  <2>2. \A i \in 1..k + l : w[i] = IF i <= k THEN u[i] ELSE v[i - k]
    BY ConcatProperties
  <2> QED
    BY <2>1, <2>2, LenProperties
<1> HIDE DEF w, k, l
<1> SUFFICES ASSUME NEW i \in 1..k + l, NEW j \in 1..k + l, i < j
             PROVE  w[i].n < w[j].n
  BY <1>1 DEF Ascending, w
<1>2. CASE j <= k
  <2>1. i \in 1..k /\ j \in 1..k /\ w[i] = u[i] /\ w[j] = u[j]
    BY <1>1, <1>2
  <2> QED
    BY <1>1, <2>1 DEF Ascending
<1>3. CASE i > k
  <2>1. /\ i - k \in 1..l /\ j - k \in 1..l /\ i - k < j - k
        /\ w[i] = v[i - k] /\ w[j] = v[j - k]
    BY <1>1, <1>3
  <2> QED
    BY <1>1, <2>1 DEF Ascending
<1>4. CASE i <= k /\ j > k
  <2>1. /\ i \in DOMAIN u /\ j - k \in DOMAIN v
        /\ w[i] = u[i] /\ w[j] = v[j - k]
    BY <1>1, <1>4
  <2>2. w[i] \in Range(u) /\ w[j] \in Range(v)
    BY <2>1 DEF Range
  <2> QED
    BY <2>2
<1> QED
  BY <1>1, <1>2, <1>3, <1>4

-----------------------------------------------------------------------------
(***************************************************************************)
(* Queues that are pushed and popped.                                      *)
(***************************************************************************)
\* The elements of a queue that is pushed, and of one that is popped.
LEMMA RangePush ==
  ASSUME NEW M, NEW q \in Seq(M), NEW m \in M
  PROVE  Range(Append(q, m)) = Range(q) \cup {m}
<1>1. Append(q, m) = q \o <<m>> /\ <<m>> \in Seq(M)
  BY AppendIsConcat
<1>2. Range(<<m>>) = {m}
  BY DEF Range
<1> DEFINE one == <<m>>
<1>o. one \in Seq(M)
  BY <1>1
<1> HIDE DEF one
<1>3. Range(q \o one) = Range(q) \cup Range(one)
  BY <1>o, RangeConcatenation
<1> QED
  BY <1>1, <1>2, <1>3 DEF one

\* What is popped was the front.
LEMMA RangePop ==
  ASSUME NEW M, NEW q \in Seq(M), q # <<>>
  PROVE  Range(q) = {Head(q)} \cup Range(Tail(q))
<1>1. /\ Len(q) \in Nat \ {0} /\ Tail(q) \in Seq(M)
      /\ Len(Tail(q)) = Len(q) - 1
      /\ \A j \in 1..Len(Tail(q)) : Tail(q)[j] = q[j + 1]
      /\ Head(q) = q[1]
  BY HeadTailProperties, EmptySeq
<1>2. /\ Range(q) = {q[i] : i \in 1..Len(q)}
      /\ Range(Tail(q)) = {Tail(q)[i] : i \in 1..Len(Tail(q))}
  <2>1. \A r \in Seq(M) : Range(r) = {r[i] : i \in 1..Len(r)}
    BY RangeEquality
  <2> QED
    BY <1>1, <2>1
<1> DEFINE t == Tail(q)
           n == Len(q)
<1>3. /\ n \in Nat \ {0} /\ \A j \in 1..n - 1 : t[j] = q[j + 1]
      /\ Range(q) = {q[i] : i \in 1..n} /\ Range(t) = {t[i] : i \in 1..n - 1}
      /\ Head(q) = q[1]
  BY <1>1, <1>2
<1> HIDE DEF t, n
<1>4. ASSUME NEW i \in 1..n PROVE q[i] \in {q[1]} \cup Range(t)
  <2>1. CASE i # 1
    <3>1. i - 1 \in 1..n - 1 /\ (i - 1) + 1 = i
      BY <1>3, <2>1
    <3> QED
      BY <1>3, <3>1
  <2> QED
    BY <2>1
<1>5. ASSUME NEW i \in 1..n - 1 PROVE t[i] \in Range(q)
  <2>1. i + 1 \in 1..n
    BY <1>3
  <2> QED
    BY <1>3, <2>1
<1>6. q[1] \in Range(q)
  BY <1>3
<1>7. Range(q) \subseteq {q[1]} \cup Range(t)
  BY <1>3, <1>4
<1>8. Range(t) \subseteq Range(q)
  BY <1>3, <1>5
<1> QED
  BY <1>3, <1>6, <1>7, <1>8 DEF t

\* The positions of a queue that is pushed, and of one that is popped.
LEMMA PushedSequence ==
  ASSUME NEW M, NEW q \in Seq(M), NEW m \in M
  PROVE  /\ DOMAIN q = 1..Len(q) /\ Len(q) \in Nat
         /\ Append(q, m) \in Seq(M)
         /\ DOMAIN Append(q, m) = 1..Len(q) + 1
         /\ \A i \in 1..Len(q) : Append(q, m)[i] = q[i]
         /\ Append(q, m)[Len(q) + 1] = m
<1>1. Append(q, m) \in Seq(M) /\ Len(Append(q, m)) = Len(q) + 1
  BY AppendProperties
<1> QED
  BY <1>1, AppendProperties, LenProperties

LEMMA PoppedSequence ==
  ASSUME NEW M, NEW q \in Seq(M), q # <<>>
  PROVE  /\ DOMAIN q = 1..Len(q) /\ Len(q) \in Nat \ {0}
         /\ DOMAIN Tail(q) = 1..Len(q) - 1
         /\ \A i \in 1..Len(q) - 1 : Tail(q)[i] = q[i + 1]
         /\ Head(q) = q[1]
         /\ Head(q) \in M /\ Tail(q) \in Seq(M)
<1>1. /\ Tail(q) \in Seq(M) /\ Len(Tail(q)) = Len(q) - 1
      /\ \A i \in 1..Len(Tail(q)) : Tail(q)[i] = q[i + 1]
      /\ Head(q) \in M
  BY HeadTailProperties
<1>2. DOMAIN Tail(q) = 1..Len(Tail(q)) /\ DOMAIN q = 1..Len(q) /\ Len(q) \in Nat \ {0}
  BY <1>1, LenProperties, EmptySeq
<1> QED
  BY <1>1, <1>2
=============================================================================
