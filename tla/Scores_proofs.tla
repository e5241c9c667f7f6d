---------------------------- MODULE Scores_proofs ----------------------------
(***************************************************************************)
(* Machine-checked proofs about Scores and Ranking: for any players, bots, *)
(* points and times, the totals and the scores that are shown agree with   *)
(* those of the server, a game gains nothing to who was given no points in *)
(* it or did not move, and the largest bonus goes to the fastest.          *)
(***************************************************************************)
EXTENDS Scores, FiniteSetTheorems, WellFoundedInduction, TLAPS

-----------------------------------------------------------------------------
(* Numbers: the least of a set, the greatest, and going through a list.    *)
LEMMA LeastNat ==
    ASSUME NEW T \in SUBSET Nat, T # {}
    PROVE  \E n \in T : \A m \in T : n <= m
<1> DEFINE R == OpToRel(<, Nat)
<1>1. IsWellFoundedOn(R, Nat)
  BY NatLessThanWellFounded
<1>2. \A x, y \in Nat : <<y, x>> \in R <=> y < x
  BY DEF OpToRel
<1> HIDE DEF R
<1>3. PICK x \in T : \A y \in T : ~(<<y, x>> \in R)
  BY <1>1, WFMin
<1>4. \A y \in T : ~(y < x)
  BY <1>2, <1>3
<1> QED
  BY <1>4

LEMMA MinOfNat ==
    ASSUME NEW T \in SUBSET Nat, T # {}
    PROVE  Min(T) \in T /\ \A m \in T : Min(T) <= m
<1>1. \E n \in T : \A m \in T : n <= m
  BY LeastNat
<1> QED
  BY <1>1 DEF Min

LEMMA MaxOfNat ==
    ASSUME NEW n \in Nat, NEW T \in SUBSET (1 .. n), T # {}
    PROVE  Max(T) \in T /\ \A m \in T : Max(T) >= m
<1> DEFINE D == {n - x : x \in T}
<1>1. D \in SUBSET Nat /\ D # {}
  <2>1. \A x \in T : n - x \in Nat
    OBVIOUS
  <2> QED
    BY <2>1
<1>2. PICK d \in D : \A c \in D : d <= c
  BY <1>1, LeastNat
<1>3. PICK y \in T : d = n - y
  OBVIOUS
<1>4. \A x \in T : n - y <= n - x
  BY <1>2, <1>3
<1>5. \A x \in T : y >= x
  BY <1>4
<1> QED
  BY <1>5 DEF Max

LEMMA MaxUpTo ==
    ASSUME NEW m \in Nat, NEW T \in SUBSET (1 .. m + 1), m + 1 \in T
    PROVE  Max(T) = m + 1
<1>1. m + 1 \in Nat /\ T # {}
  OBVIOUS
<1>2. Max(T) \in T /\ Max(T) >= m + 1
  BY <1>1, MaxOfNat
<1>3. Max(T) \in 1 .. m + 1
  BY <1>2
<1> QED
  BY <1>2, <1>3

LEMMA UpTo ==
    ASSUME NEW m \in Nat
    PROVE  1 .. m + 1 # {} /\ Max(1 .. m + 1) = m + 1 /\ (1 .. m + 1) \ {m + 1} = 1 .. m
<1>1. m + 1 \in 1 .. m + 1
  OBVIOUS
<1>2. Max(1 .. m + 1) = m + 1
  BY <1>1, MaxUpTo
<1>3. (1 .. m + 1) \ {m + 1} = 1 .. m
  OBVIOUS
<1> QED
  BY <1>1, <1>2, <1>3

(* What holds at the beginning of a list, and one place further wherever   *)
(* it holds, holds up to its end.                                          *)
LEMMA ThroughList ==
    ASSUME NEW n \in Nat, NEW P, 0 \in P, \A i \in 0 .. n : i \in P /\ i < n => i + 1 \in P
    PROVE  0 .. n \subseteq P
<1> DEFINE T == {i \in 0 .. n : i \notin P}
<1> SUFFICES ASSUME T # {}
             PROVE  FALSE
  OBVIOUS
<1>1. T \in SUBSET Nat
  OBVIOUS
<1>2. PICK i \in T : \A j \in T : i <= j
  BY <1>1, LeastNat
<1>3. i # 0 /\ i \in 0 .. n
  OBVIOUS
<1>4. i - 1 \in 0 .. n /\ i - 1 < n /\ (i - 1) + 1 = i
  BY <1>3
<1>5. i - 1 \in P
  BY <1>2, <1>4
<1>6. (i - 1) + 1 \in P
  BY <1>4, <1>5
<1> QED
  BY <1>4, <1>6

-----------------------------------------------------------------------------
(* FoldLeft() of the community modules folds over the subsets of 1 .. n,   *)
(* and takes the greatest element of each last: there is a function that   *)
(* its recursion defines.  g[b, i] is the result of the i-th turn.         *)
Folds(it, base, g, m) ==
    \A S \in SUBSET (1 .. m) :
       it[S] = IF S = {} THEN base ELSE g[it[S \ {Max(S)}], Max(S)]

CanFold(B, base, g, m) == \E it \in [SUBSET (1 .. m) -> B] : Folds(it, base, g, m)

LEMMA FoldExists ==
    ASSUME NEW B, NEW base \in B, NEW n \in Nat, NEW g \in [B \X (1 .. n) -> B]
    PROVE  \E it \in [SUBSET (1 .. n) -> B] : Folds(it, base, g, n)
<1> DEFINE P == {m \in 0 .. n : CanFold(B, base, g, m)}
<1>1. 0 \in P
  <2> DEFINE it == [S \in SUBSET (1 .. 0) |-> base]
  <2>1. \A S \in SUBSET (1 .. 0) : S = {}
    OBVIOUS
  <2>2. it \in [SUBSET (1 .. 0) -> B] /\ Folds(it, base, g, 0)
    BY <2>1 DEF Folds
  <2> QED
    BY <2>2 DEF CanFold
<1>2. ASSUME NEW m \in 0 .. n, m \in P, m < n
      PROVE  m + 1 \in P
  <2>1. PICK it \in [SUBSET (1 .. m) -> B] : Folds(it, base, g, m)
    BY <1>2 DEF CanFold
  <2> DEFINE jt == [S \in SUBSET (1 .. m + 1) |->
                      IF m + 1 \in S THEN g[it[S \ {m + 1}], m + 1] ELSE it[S]]
  <2>2. m + 1 \in 1 .. n /\ m \in Nat
    <3> HIDE DEF P, jt
    <3> QED
      BY <1>2
  <2>3. \A S \in SUBSET (1 .. m + 1) : S \ {m + 1} \in SUBSET (1 .. m)
    BY <2>2
  <2>4. \A S \in SUBSET (1 .. m + 1) : m + 1 \notin S => S \in SUBSET (1 .. m)
    BY <2>2
  <2>5. \A b \in B : g[b, m + 1] \in B
    BY <2>2
  <2>6. jt \in [SUBSET (1 .. m + 1) -> B]
    BY <2>3, <2>4, <2>5
  <2>7. ASSUME NEW S \in SUBSET (1 .. m + 1)
        PROVE  jt[S] = IF S = {} THEN base ELSE g[jt[S \ {Max(S)}], Max(S)]
    <3>1. CASE m + 1 \in S
      <4>1. Max(S) = m + 1 /\ S # {}
        BY <2>2, <3>1, MaxUpTo
      <4>2. jt[S] = g[it[S \ {m + 1}], m + 1]
        BY <3>1
      <4>3. S \ {m + 1} \in SUBSET (1 .. m + 1) /\ m + 1 \notin S \ {m + 1}
        OBVIOUS
      <4>4. jt[S \ {m + 1}] = it[S \ {m + 1}]
        BY <4>3
      <4> QED
        BY <4>1, <4>2, <4>4
    <3>2. CASE m + 1 \notin S
      <4>1. S \in SUBSET (1 .. m) /\ jt[S] = it[S]
        BY <2>4, <3>2
      <4>2. it[S] = IF S = {} THEN base ELSE g[it[S \ {Max(S)}], Max(S)]
        BY <2>1, <4>1 DEF Folds
      <4>3. S \ {Max(S)} \in SUBSET (1 .. m + 1) /\ m + 1 \notin S \ {Max(S)}
        BY <3>2
      <4>4. jt[S \ {Max(S)}] = it[S \ {Max(S)}]
        BY <4>3
      <4> QED
        BY <4>1, <4>2, <4>4
    <3> QED
      BY <3>1, <3>2
  <2>8. Folds(jt, base, g, m + 1)
    BY <2>7 DEF Folds
  <2>9. CanFold(B, base, g, m + 1)
    BY <2>6, <2>8 DEF CanFold
  <2> QED
    BY <2>2, <2>9
<1> HIDE DEF P
<1>3. 0 .. n \subseteq P
  BY <1>1, <1>2, ThroughList
<1>4. n \in P
  BY <1>3
<1> QED
  BY <1>4 DEF P, CanFold

(* The pass over the entities, turn by turn.                               *)
Run(f, order, points, time) ==
    /\ f[0] = <<NoOne, NoOne, NoOne>>
    /\ \A i \in 0 .. Len(order) - 1 : f[i + 1] = Turn(f[i], order[i + 1], points, time)

LEMMA PodiumRuns ==
    ASSUME NEW E, NEW order \in Seq(E), NEW points, NEW time
    PROVE  \E f : Run(f, order, points, time) /\ f[Len(order)] = Podium(order, points, time)
<1> DEFINE n == Len(order)
           none == <<NoOne, NoOne, NoOne>>
           B == [1 .. 3 -> E \cup {NoOne}]
           g == [x \in B \X (1 .. n) |-> Turn(x[1], order[x[2]], points, time)]
           F(it) == [S \in SUBSET (DOMAIN order) |->
                       IF S = {} THEN none
                       ELSE Turn(it[S \ {Max(S)}], order[Max(S)], points, time)]
           it == CHOOSE it : it = F(it)
<1>1. none \in B /\ n \in Nat /\ DOMAIN order = 1 .. n
  OBVIOUS
<1>2. g \in [B \X (1 .. n) -> B]
  <2>1. \A b \in B, e \in E : Turn(b, e, points, time) \in B
    BY DEF Turn, Place
  <2> QED
    BY <2>1
<1>3. PICK h \in [SUBSET (1 .. n) -> B] : Folds(h, none, g, n)
  BY <1>1, <1>2, FoldExists
<1>4. h = F(h)
  <2>1. ASSUME NEW S \in SUBSET (1 .. n)
        PROVE  h[S] = IF S = {} THEN none
                      ELSE Turn(h[S \ {Max(S)}], order[Max(S)], points, time)
    <3>1. CASE S = {}
      BY <1>3, <3>1 DEF Folds
    <3>2. CASE S # {}
      <4>1. h[S] = g[h[S \ {Max(S)}], Max(S)] /\ h[S \ {Max(S)}] \in B
        BY <1>3, <3>2 DEF Folds
      <4>2. Max(S) \in 1 .. n
        BY <1>1, <3>2, MaxOfNat
      <4> QED
        BY <3>2, <4>1, <4>2
    <3> QED
      BY <3>1, <3>2
  <2> QED
    BY <1>1, <2>1
<1>5. it = F(it)
  BY <1>4
<1>6. Podium(order, points, time) = it[DOMAIN order]
  BY DEF Podium, FoldLeft, MapThenFoldSet
<1> HIDE DEF it
<1> DEFINE f == [i \in 0 .. n |-> it[1 .. i]]
<1>7. f[0] = none
  BY <1>1, <1>5
<1>8. \A i \in 0 .. n - 1 : f[i + 1] = Turn(f[i], order[i + 1], points, time)
  <2> SUFFICES ASSUME NEW i \in 0 .. n - 1
               PROVE  it[1 .. i + 1] = Turn(it[1 .. i], order[i + 1], points, time)
    BY <1>1
  <2>1. 1 .. i + 1 # {} /\ Max(1 .. i + 1) = i + 1 /\ (1 .. i + 1) \ {i + 1} = 1 .. i
    <3>1. i \in Nat
      OBVIOUS
    <3> QED
      BY <3>1, UpTo
  <2>2. 1 .. i + 1 \in SUBSET (DOMAIN order)
    BY <1>1
  <2> QED
    BY <1>5, <2>1, <2>2
<1>9. f[n] = Podium(order, points, time)
  BY <1>1, <1>6
<1> HIDE DEF f
<1>10. Run(f, order, points, time)
  BY <1>7, <1>8 DEF Run
<1> QED
  BY <1>9, <1>10

(* The removal from the list, turn by turn.                                *)
KeepsRun(f, K) ==
    /\ f[0] = <<>>
    /\ \A i \in 0 .. Len(list) - 1 :
          f[i + 1] = IF list[i + 1] \in K THEN f[i] ELSE Append(f[i], list[i + 1])

LEMMA KeptRuns ==
    ASSUME NEW K, list \in Seq(Entity)
    PROVE  \E f : KeepsRun(f, K) /\ f[Len(list)] = Kept(K)
<1> DEFINE n == Len(list)
           B == Seq(Entity)
           g == [x \in B \X (1 .. n) |->
                   IF list[x[2]] \in K THEN x[1] ELSE Append(x[1], list[x[2]])]
           F(it) == [S \in SUBSET (DOMAIN list) |->
                       IF S = {} THEN <<>>
                       ELSE IF list[Max(S)] \in K THEN it[S \ {Max(S)}]
                            ELSE Append(it[S \ {Max(S)}], list[Max(S)])]
           it == CHOOSE it : it = F(it)
<1>1. <<>> \in B /\ n \in Nat /\ DOMAIN list = 1 .. n
  OBVIOUS
<1>2. g \in [B \X (1 .. n) -> B]
  <2>1. \A i \in 1 .. n : list[i] \in Entity
    OBVIOUS
  <2> QED
    BY <2>1
<1>3. PICK h \in [SUBSET (1 .. n) -> B] : Folds(h, <<>>, g, n)
  BY <1>1, <1>2, FoldExists
<1>4. h = F(h)
  <2>1. ASSUME NEW S \in SUBSET (1 .. n)
        PROVE  h[S] = IF S = {} THEN <<>>
                      ELSE IF list[Max(S)] \in K THEN h[S \ {Max(S)}]
                           ELSE Append(h[S \ {Max(S)}], list[Max(S)])
    <3>1. CASE S = {}
      BY <1>3, <3>1 DEF Folds
    <3>2. CASE S # {}
      <4>1. h[S] = g[h[S \ {Max(S)}], Max(S)] /\ h[S \ {Max(S)}] \in B
        BY <1>3, <3>2 DEF Folds
      <4>2. Max(S) \in 1 .. n
        BY <1>1, <3>2, MaxOfNat
      <4> QED
        BY <3>2, <4>1, <4>2
    <3> QED
      BY <3>1, <3>2
  <2> QED
    BY <1>1, <2>1
<1>5. it = F(it)
  BY <1>4
<1>6. Kept(K) = it[DOMAIN list]
  BY DEF Kept, FoldLeft, MapThenFoldSet
<1> HIDE DEF it
<1> DEFINE f == [i \in 0 .. n |-> it[1 .. i]]
<1>7. f[0] = <<>>
  BY <1>1, <1>5
<1>8. \A i \in 0 .. n - 1 :
        f[i + 1] = IF list[i + 1] \in K THEN f[i] ELSE Append(f[i], list[i + 1])
  <2> SUFFICES ASSUME NEW i \in 0 .. n - 1
               PROVE  it[1 .. i + 1] = IF list[i + 1] \in K THEN it[1 .. i]
                                       ELSE Append(it[1 .. i], list[i + 1])
    BY <1>1
  <2>1. 1 .. i + 1 # {} /\ Max(1 .. i + 1) = i + 1 /\ (1 .. i + 1) \ {i + 1} = 1 .. i
    <3>1. i \in Nat
      OBVIOUS
    <3> QED
      BY <3>1, UpTo
  <2>2. 1 .. i + 1 \in SUBSET (DOMAIN list)
    BY <1>1
  <2> QED
    BY <1>5, <2>1, <2>2
<1>9. f[n] = Kept(K)
  BY <1>1, <1>6
<1> HIDE DEF f
<1>10. KeepsRun(f, K)
  BY <1>7, <1>8 DEF KeepsRun
<1> QED
  BY <1>9, <1>10

-----------------------------------------------------------------------------
(* The list: one more at its end, and some taken out.                      *)
LEMMA AppendOK ==
    ASSUME NEW E, NEW s \in Seq(E), NEW x \in E
    PROVE  /\ Append(s, x) \in Seq(E)
           /\ ToSet(Append(s, x)) = ToSet(s) \cup {x}
           /\ IsInjective(s) /\ x \notin ToSet(s) => IsInjective(Append(s, x))
<1> DEFINE t == Append(s, x)
           n == Len(s)
<1>1. /\ t \in Seq(E) /\ DOMAIN s = 1 .. n /\ n \in Nat /\ DOMAIN t = 1 .. n + 1
      /\ t[n + 1] = x /\ \A i \in 1 .. n : t[i] = s[i]
  OBVIOUS
<1> HIDE DEF t, n
<1>2. 1 .. n + 1 = (1 .. n) \cup {n + 1}
  BY <1>1
<1>3. ToSet(t) = ToSet(s) \cup {x}
  BY <1>1, <1>2 DEF ToSet
<1>4. ASSUME IsInjective(s), x \notin ToSet(s)
      PROVE  IsInjective(t)
  BY <1>1, <1>2, <1>4 DEF IsInjective, ToSet
<1> QED
  BY <1>1, <1>3, <1>4 DEF t

UpToSet(i) == {list[j] : j \in 1 .. i}

LEMMA KeptOK ==
    ASSUME list \in Seq(Entity), IsInjective(list), NEW K
    PROVE  Kept(K) \in Seq(Entity) /\ IsInjective(Kept(K)) /\ ToSet(Kept(K)) = Present \ K
<1> DEFINE n == Len(list)
<1>1. n \in Nat /\ DOMAIN list = 1 .. n /\ \A i \in 1 .. n : list[i] \in Entity
  OBVIOUS
<1>2. PICK f : KeepsRun(f, K) /\ f[n] = Kept(K)
  BY KeptRuns
<1> DEFINE Good(i) == f[i] \in Seq(Entity) /\ IsInjective(f[i]) /\ ToSet(f[i]) = UpToSet(i) \ K
           P == {i \in 0 .. n : Good(i)}
<1>3. 0 \in P
  <2>1. f[0] = <<>> /\ <<>> \in Seq(Entity)
    BY <1>2 DEF KeepsRun
  <2>2. IsInjective(<<>>) /\ ToSet(<<>>) = {} /\ UpToSet(0) = {}
    BY DEF IsInjective, ToSet, UpToSet
  <2>3. Good(0)
    BY <2>1, <2>2
  <2> HIDE DEF Good
  <2> QED
    BY <1>1, <2>3
<1>4. ASSUME NEW i \in 0 .. n, i \in P, i < n
      PROVE  i + 1 \in P
  <2>1. Good(i) /\ i + 1 \in 1 .. n /\ i \in 0 .. n - 1 /\ list[i + 1] \in Entity
    BY <1>1, <1>4
  <2>2. f[i + 1] = IF list[i + 1] \in K THEN f[i] ELSE Append(f[i], list[i + 1])
    BY <1>2, <2>1 DEF KeepsRun
  <2>3. UpToSet(i + 1) = UpToSet(i) \cup {list[i + 1]} /\ list[i + 1] \notin UpToSet(i)
    <3>1. 1 .. i + 1 = (1 .. i) \cup {i + 1}
      OBVIOUS
    <3>2. \A j \in 1 .. i : j \in DOMAIN list /\ j # i + 1
      BY <1>1, <2>1
    <3>3. \A j \in 1 .. i : list[j] # list[i + 1]
      BY <1>1, <2>1, <3>2 DEF IsInjective
    <3> QED
      BY <3>1, <3>3 DEF UpToSet
  <2>4. CASE list[i + 1] \in K
    BY <2>1, <2>2, <2>3, <2>4
  <2>5. CASE list[i + 1] \notin K
    <3>1. list[i + 1] \notin ToSet(f[i])
      BY <2>1, <2>3
    <3>2. Good(i + 1)
      BY <2>1, <2>2, <2>3, <2>5, <3>1, AppendOK
    <3> QED
      BY <2>1, <3>2
  <2> QED
    BY <2>4, <2>5
<1> HIDE DEF Good, P
<1>5. 0 .. n \subseteq P
  BY <1>1, <1>3, <1>4, ThroughList
<1>6. UpToSet(n) = Present
  BY <1>1 DEF UpToSet, Present, ToSet
<1> QED
  BY <1>1, <1>2, <1>5, <1>6 DEF Good, P

-----------------------------------------------------------------------------
(* The podium: only entities of the list that count are on it, so nobody   *)
(* else has a bonus.                                                       *)
LEMMA PodiumCounts ==
    ASSUME NEW E, NEW order \in Seq(E), NEW points, NEW time
    PROVE  LET podium == Podium(order, points, time)
           IN  \A k \in 1 .. 3 :
                  podium[k] = NoOne \/ Counts(podium[k], points, time)
<1> DEFINE n == Len(order)
           Good(p) == /\ DOMAIN p = 1 .. 3
                      /\ \A k \in 1 .. 3 : p[k] = NoOne \/ Counts(p[k], points, time)
<1>1. PICK f : Run(f, order, points, time) /\ f[n] = Podium(order, points, time)
  BY PodiumRuns
<1> DEFINE P == {i \in 0 .. n : Good(f[i])}
<1>2. n \in Nat
  OBVIOUS
<1>3. 0 \in P
  BY <1>1, <1>2 DEF Run
<1>4. ASSUME NEW i \in 0 .. n, i \in P, i < n
      PROVE  i + 1 \in P
  <2>1. Good(f[i]) /\ i \in 0 .. n - 1 /\ i + 1 \in 0 .. n
    BY <1>2, <1>4
  <2>2. f[i + 1] = Turn(f[i], order[i + 1], points, time)
    BY <1>1, <2>1 DEF Run
  <2>3. Good(f[i + 1])
    BY <2>1, <2>2 DEF Turn, Place
  <2> QED
    BY <2>1, <2>3
<1> HIDE DEF Good, P
<1>5. 0 .. n \subseteq P
  BY <1>2, <1>3, <1>4, ThroughList
<1> QED
  BY <1>1, <1>2, <1>5 DEF Good, P

LEMMA PrizesOK ==
    ASSUME NEW n \in Nat, NEW k \in 1 .. 3
    PROVE  /\ Prizes(n)[k] \in Nat
           /\ k # 1 => Prizes(n)[k] <= Prizes(n)[2]
<1>1. k = 1 \/ k = 2 \/ k = 3
  OBVIOUS
<1> QED
  BY <1>1 DEF Prizes

LEMMA BonusOK ==
    ASSUME NEW E, NEW order \in Seq(E), NEW points, NEW time, NEW e
    PROVE  /\ TimeBonus(e, order, points, time) \in Nat
           /\ e # NoOne /\ ~Counts(e, points, time) => TimeBonus(e, order, points, time) = 0
<1> DEFINE podium == Podium(order, points, time)
           places == {i \in 1 .. 3 : podium[i] = e}
<1>1. TimeBonus(e, order, points, time)
        = IF places = {} THEN 0 ELSE Prizes(Len(order))[Min(places)]
  BY DEF TimeBonus
<1>2. Len(order) \in Nat /\ places \in SUBSET Nat
  OBVIOUS
<1>3. places # {} => Min(places) \in 1 .. 3
  BY <1>2, MinOfNat
<1>4. places # {} => e = NoOne \/ Counts(e, points, time)
  BY PodiumCounts
<1> HIDE DEF places
<1> QED
  BY <1>1, <1>2, <1>3, <1>4, PrizesOK

-----------------------------------------------------------------------------
(* The inductive invariant.                                                *)

(* Who is not there has no points and no total, and no score was sent of   *)
(* it: it comes back as a new entity.                                      *)
AbsentInv == \A e \in Entity \ Present : sent[e] = None /\ total[e] = 0 /\ score[e] = 0

(* During a game only who was given points in it has some: the score of    *)
(* the game before is gone.                                                *)
EarnInv ==
    phase \in {"Prepared", "Running"} => \A e \in Entity : score[e] > 0 => e \in earned

(* A game that is under way is one of those that may be played.            *)
GamesInv == phase \in {"Launched", "Prepared", "Running"} => games < MaxGames

IInv == TypeOK /\ TotalsAgree /\ ScoresAgree /\ AbsentInv /\ EarnInv /\ GamesInv

(* What the end of a game computes.                                        *)
Zeroed(K) == Without(K, ZeroIdle(score), 0)

Ends(K, bonusTime) == IF bonusTime THEN WithBonus(Zeroed(K), Kept(K)) ELSE Zeroed(K)

Final(K, bonusTime) ==
    [e \in Entity |-> Ends(K, bonusTime)[e]
                        + IF e \in Aces(Ends(K, bonusTime), Kept(K)) THEN 1000 ELSE 0]

NewTotals(K, bonusTime) ==
    Without(K, [e \in Entity |-> total[e] + Final(K, bonusTime)[e]], 0)

LEMMA AcesOK ==
    ASSUME NEW points, NEW order, NEW e \in Aces(points, order)
    PROVE  Counts(e, points, arrival)
BY DEF Aces, Timed

LEMMA RecordOK ==
    ASSUME TypeOK, NEW order \in Seq(Entity), NEW points, NEW i
    PROVE  RecordBefore(i, points, order) \in 0 .. MaxTime \cup {NoRecord}
<1> DEFINE T == {record} \cup {arrival[order[j]] : j \in {k \in Timed(points, order) : k < i}}
<1>1. \A j \in Timed(points, order) : arrival[order[j]] \in 0 .. MaxTime
  BY DEF Timed, TypeOK
<1>2. T \subseteq 0 .. MaxTime \cup {NoRecord} /\ T # {}
  BY <1>1 DEF TypeOK
<1>3. T \in SUBSET Nat
  BY <1>2, ScoresAssumption
<1>4. RecordBefore(i, points, order) = Min(T)
  BY DEF RecordBefore
<1> HIDE DEF T
<1>5. Min(T) \in T
  BY <1>2, <1>3, MinOfNat
<1> QED
  BY <1>2, <1>4, <1>5

(* Points, bonus and record: numbers, and nothing for who had no points.   *)
LEMMA FinalOK ==
    ASSUME TypeOK, NEW K, NEW bonusTime
    PROVE  /\ Final(K, bonusTime) \in [Entity -> Nat]
           /\ \A e \in Entity : e \in K \cup Idle \/ score[e] = 0 => Final(K, bonusTime)[e] = 0
<1> DEFINE z == Zeroed(K)
           p == Ends(K, bonusTime)
           aces == Aces(p, Kept(K))
<1>1. /\ z \in [Entity -> Nat]
      /\ \A e \in Entity : e \in K \cup Idle \/ score[e] = 0 => z[e] = 0
  BY DEF TypeOK, Zeroed, Without, ZeroIdle
<1>2. Kept(K) \in Seq(Entity)
  BY KeptOK DEF TypeOK
<1>3. \A e \in Entity : ~(z[e] > 0) => ~Counts(e, z, arrival)
  BY DEF Counts
<1> HIDE DEF z
<1>4. p \in [Entity -> Nat] /\ \A e \in Entity : z[e] = 0 => p[e] = 0
  <2>1. CASE bonusTime
    <3>1. p = WithBonus(z, Kept(K))
      BY <2>1 DEF Ends, z
    <3>2. \A e \in Entity : TimeBonus(e, Kept(K), z, arrival) \in Nat
      BY <1>2, BonusOK
    <3>3. \A e \in Entity : z[e] = 0 => TimeBonus(e, Kept(K), z, arrival) = 0
      BY <1>1, <1>2, <1>3, BonusOK, ScoresAssumption
    <3> QED
      BY <1>1, <3>1, <3>2, <3>3 DEF WithBonus
  <2>2. CASE ~bonusTime
    BY <1>1, <2>2 DEF Ends, z
  <2> QED
    BY <2>1, <2>2
<1>5. \A e \in Entity : p[e] = 0 => e \notin aces
  <2>1. \A e \in aces : Counts(e, p, arrival)
    BY AcesOK
  <2> QED
    BY <1>4, <2>1 DEF Counts
<1>6. Final(K, bonusTime) = [e \in Entity |-> p[e] + IF e \in aces THEN 1000 ELSE 0]
  BY DEF Final
<1> HIDE DEF p, aces
<1> QED
  BY <1>1, <1>4, <1>5, <1>6

(* The end of a game, in these terms.                                      *)
LEMMA FinishIs ==
    ASSUME NEW K, NEW bonusTime, Finish(K, bonusTime)
    PROVE  /\ phase = "Running" /\ K \subseteq Idle /\ phase' = "Ending" /\ games' = games + 1
           /\ \E p : record' = RecordBefore(Len(Kept(K)) + 1, p, Kept(K))
           /\ list' = Kept(K) /\ loggedIn' = loggedIn \ K /\ moved' = moved \cup K
           /\ playing' = playing \ K /\ earned' = earned \ K
           /\ score' = Final(K, bonusTime) /\ total' = NewTotals(K, bonusTime)
           /\ sent' = Without(K, sent, None) /\ arrival' = Without(K, arrival, 0)
           /\ saved' = SavedNow(K, NewTotals(K, bonusTime))
           /\ shown' = Announce(Forget(K, shown), Final(K, bonusTime), NewTotals(K, bonusTime))
           /\ missed' = {m \in (loggedIn \ K) \X (Present \ K) :
                           Final(K, bonusTime)[m[2]] # sent[m[2]]}
           /\ now' = 0
BY DEF Finish, Final, NewTotals, Ends, Zeroed

LEMMA NewTotalsOK ==
    ASSUME TypeOK, NEW K, NEW bonusTime
    PROVE  /\ NewTotals(K, bonusTime) \in [Entity -> Nat]
           /\ \A e \in Entity \ K : NewTotals(K, bonusTime)[e] = total[e] + Final(K, bonusTime)[e]
           /\ \A e \in K \cap Entity : NewTotals(K, bonusTime)[e] = 0
BY FinalOK DEF NewTotals, Without, TypeOK

LEMMA SameViews ==
    ASSUME TotalsAgree, ScoresAgree, UNCHANGED <<list, loggedIn, sent, total, saved, shown, missed>>
    PROVE  TotalsAgree' /\ ScoresAgree'
BY DEF TotalsAgree, ScoresAgree, Present, Ready

LEMMA InitOK == Init => IInv
<1> SUFFICES ASSUME Init PROVE IInv
  OBVIOUS
<1> USE ScoresAssumption DEF Init
<1>1. Present = {}
  BY DEF Present, ToSet
<1>2. TypeOK
  BY <1>1 DEF TypeOK, Phase, IsInjective, None
<1>3. TotalsAgree /\ ScoresAgree /\ AbsentInv /\ EarnInv /\ GamesInv
  BY <1>1 DEF TotalsAgree, ScoresAgree, AbsentInv, EarnInv, GamesInv
<1> QED
  BY <1>2, <1>3 DEF IInv

-----------------------------------------------------------------------------
(* Every step preserves it.                                                *)
LEMMA ConnectOK ==
    ASSUME IInv, NEW c \in Client, Connect(c)
    PROVE  IInv'
<1> USE DEF IInv, Connect, gameVars, scoreVars, viewVars
<1>1. c \in Entity
  BY DEF Entity
<1>2. list' \in Seq(Entity) /\ Present' = Present \cup {c} /\ IsInjective(list')
  BY <1>1, AppendOK DEF Present, TypeOK
<1>3. c \notin loggedIn /\ c \notin Bot
  BY ScoresAssumption DEF TypeOK
<1>4. TypeOK'
  BY <1>2 DEF TypeOK
<1>5. \A e : Ready(e)' => Ready(e)
  BY <1>2, <1>3 DEF Ready
<1>6. TotalsAgree'
  <2>1. \A d \in loggedIn, e \in Present' : Ready(e)' => e \in Present
    BY <1>2, <1>3, <1>5 DEF Ready, TypeOK
  <2> QED
    BY <1>5, <2>1 DEF TotalsAgree
<1>7. ScoresAgree'
  BY <1>1, <1>2 DEF ScoresAgree, AbsentInv
<1>8. AbsentInv' /\ EarnInv' /\ GamesInv'
  BY <1>2 DEF AbsentInv, EarnInv, GamesInv
<1> QED
  BY <1>4, <1>6, <1>7, <1>8

(* What the other clients show of who is introduced, and of all others.    *)
LEMMA IntroduceOK ==
    ASSUME TypeOK, NEW e \in Entity, NEW n \in Nat, NEW c \in Client
    PROVE  LET view == Introduce(e, n)[c]
           IN  /\ DOMAIN view \subseteq Entity
               /\ view \in [DOMAIN view -> [score : Nat, total : Nat]]
               /\ DOMAIN shown[c] \subseteq DOMAIN view
               /\ \A f \in DOMAIN view \ {e} : f \in DOMAIN shown[c] /\ view[f] = shown[c][f]
               /\ c \in loggedIn \ {e} => e \in DOMAIN view /\ view[e] = New(e, n)
               /\ c \notin loggedIn \ {e} => view = shown[c]
<1>1. New(e, n) \in [score : Nat, total : Nat]
  BY DEF New
<1>2. /\ DOMAIN shown[c] \subseteq Entity
      /\ shown[c] \in [DOMAIN shown[c] -> [score : Nat, total : Nat]]
  BY DEF TypeOK
<1>3. CASE c \in loggedIn \ {e}
  <2> DEFINE v == [f \in DOMAIN shown[c] \cup {e} |-> IF f = e THEN New(e, n) ELSE shown[c][f]]
  <2>1. /\ DOMAIN v = {e} \cup DOMAIN shown[c] /\ v[e] = New(e, n)
        /\ \A f \in DOMAIN shown[c] \ {e} : v[f] = shown[c][f]
    OBVIOUS
  <2>2. v \in [DOMAIN v -> [score : Nat, total : Nat]]
    BY <1>1, <1>2
  <2>3. Introduce(e, n)[c] = v
    BY <1>3 DEF Introduce
  <2> HIDE DEF v
  <2> QED
    BY <1>2, <1>3, <2>1, <2>2, <2>3
<1>4. CASE c \notin loggedIn \ {e}
  BY <1>2, <1>4 DEF Introduce
<1> QED
  BY <1>3, <1>4

LEMMA LoginOK ==
    ASSUME IInv, NEW c \in Client, Login(c)
    PROVE  IInv'
<1> USE DEF IInv, gameVars
<1> DEFINE view == [e \in Present |-> New(e, total'[e])]
<1>1. /\ c \in Present \ loggedIn /\ total' = [total EXCEPT ![c] = saved[c]]
      /\ loggedIn' = loggedIn \cup {c} /\ moved' = moved \cup {c}
      /\ shown' = [Introduce(c, saved[c]) EXCEPT ![c] = view]
      /\ missed' = missed \cup ({c} \X Present) \cup (loggedIn \X {c})
      /\ UNCHANGED <<phase, now, games, record, earned, list, playing, score, sent, arrival,
                     saved>>
  BY DEF Login, TotalOf
<1>2. c \in Entity /\ saved[c] \in Nat /\ Present \subseteq Entity
  BY DEF Entity, TypeOK, Present, ToSet
<1>3. total' \in [Entity -> Nat] /\ total'[c] = saved[c]
      /\ \A e \in Entity \ {c} : total'[e] = total[e]
  BY <1>1, <1>2 DEF TypeOK
<1>4. Present' = Present
  BY <1>1 DEF Present
<1>5. /\ DOMAIN shown' = Client
      /\ shown'[c] = view
      /\ \A d \in Client \ {c} : shown'[d] = Introduce(c, saved[c])[d]
  BY <1>1 DEF Introduce
<1>6. view \in [Present -> [score : Nat, total : Nat]]
  BY <1>2, <1>3 DEF New
<1>7. \A d \in loggedIn \cup {c} : d \in Client
  BY DEF TypeOK
<1>8. TypeOK'
  <2>1. \A d \in Client : /\ DOMAIN shown'[d] \subseteq Entity
                          /\ shown'[d] \in [DOMAIN shown'[d] -> [score : Nat, total : Nat]]
    <3> TAKE d \in Client
    <3>1. CASE d = c
      <4> HIDE DEF view
      <4> QED
        BY <1>2, <1>5, <1>6, <3>1
    <3>2. CASE d # c
      BY <1>2, <1>5, <3>2, IntroduceOK
    <3> QED
      BY <3>1, <3>2
  <2>2. missed' \subseteq loggedIn' \X Present'
    BY <1>1, <1>4 DEF TypeOK
  <2>3. loggedIn' \subseteq Client \cap Present'
    BY <1>1, <1>4 DEF TypeOK
  <2>4. /\ phase' \in Phase /\ now' \in 0 .. MaxTime /\ games' \in 0 .. MaxGames
        /\ record' \in 0 .. MaxTime \cup {NoRecord}
        /\ list' \in Seq(Entity) /\ IsInjective(list')
        /\ moved' \subseteq Client /\ playing' \subseteq Present' /\ earned' \subseteq playing'
        /\ score' \in [Entity -> Nat] /\ sent' \in [Entity -> Nat \cup {None}]
        /\ arrival' \in [Entity -> 0 .. MaxTime] /\ saved' \in [Client -> Nat]
    BY <1>1, <1>4 DEF TypeOK
  <2> QED
    BY <1>3, <1>5, <2>1, <2>2, <2>3, <2>4 DEF TypeOK
<1>9. TotalsAgree'
  <2>1. \A d \in loggedIn' : total'[d] = saved'[d]
    BY <1>1, <1>3, <1>7 DEF TotalsAgree, Entity
  <2>2. ASSUME NEW d \in loggedIn', NEW e \in Present', Ready(e)'
        PROVE  e \in DOMAIN shown'[d] /\ shown'[d][e].total = total'[e]
    <3>1. CASE d = c
      BY <1>4, <1>5, <3>1 DEF New
    <3>2. CASE d # c /\ e = c
      <4>1. d \in loggedIn \ {c} /\ d \in Client
        BY <1>1, <1>7, <3>2
      <4>2. c \in DOMAIN shown'[d] /\ shown'[d][c] = New(c, saved[c])
        BY <1>2, <1>5, <3>2, <4>1, IntroduceOK
      <4> QED
        BY <1>3, <3>2, <4>2 DEF New
    <3>3. CASE d # c /\ e # c
      <4>1. d \in loggedIn /\ d \in Client /\ e \in Present /\ Ready(e)
        BY <1>1, <1>4, <1>7, <2>2, <3>3 DEF Ready
      <4>2. e \in DOMAIN shown[d] /\ shown[d][e].total = total[e]
        BY <4>1 DEF TotalsAgree
      <4>3. e \in DOMAIN shown'[d] /\ shown'[d][e] = shown[d][e]
        BY <1>2, <1>5, <3>3, <4>1, <4>2, IntroduceOK
      <4> QED
        BY <1>2, <1>3, <3>3, <4>1, <4>2, <4>3
    <3> QED
      BY <3>1, <3>2, <3>3
  <2> QED
    BY <2>1, <2>2 DEF TotalsAgree
<1>10. ScoresAgree'
  <2> SUFFICES ASSUME NEW d \in loggedIn', NEW e \in Present',
                      e \in DOMAIN shown'[d], sent'[e] # None, <<d, e>> \notin missed'
               PROVE  shown'[d][e].score = sent'[e]
    BY DEF ScoresAgree
  <2>1. d # c /\ e # c /\ d \in loggedIn /\ d \in Client /\ <<d, e>> \notin missed
    BY <1>1, <1>4, <1>7
  <2>2. e \in DOMAIN shown[d] /\ shown'[d][e] = shown[d][e]
    BY <1>2, <1>5, <2>1, IntroduceOK
  <2> QED
    BY <1>1, <1>4, <2>1, <2>2 DEF ScoresAgree
<1>11. AbsentInv' /\ EarnInv' /\ GamesInv'
  BY <1>1, <1>3, <1>4 DEF AbsentInv, EarnInv, GamesInv
<1> QED
  BY <1>8, <1>9, <1>10, <1>11

LEMMA AddBotOK ==
    ASSUME IInv, NEW b \in Bot, AddBot(b)
    PROVE  IInv'
<1> USE DEF IInv, gameVars, scoreVars
<1>1. /\ b \notin Present /\ list' = Append(list, b) /\ shown' = Introduce(b, 0)
      /\ missed' = missed \cup (loggedIn \X {b})
      /\ UNCHANGED <<phase, now, games, record, earned, loggedIn, moved, playing, score,
                     sent, total, arrival, saved>>
  BY DEF AddBot
<1>2. b \in Entity /\ b \notin Client /\ 0 \in Nat /\ DOMAIN shown' = Client
  BY <1>1, ScoresAssumption DEF Entity, Introduce
<1>3. list' \in Seq(Entity) /\ Present' = Present \cup {b} /\ IsInjective(list')
  BY <1>1, <1>2, AppendOK DEF Present, TypeOK
<1>4. TypeOK'
  <2>1. \A d \in Client : /\ DOMAIN shown'[d] \subseteq Entity
                          /\ shown'[d] \in [DOMAIN shown'[d] -> [score : Nat, total : Nat]]
    BY <1>1, <1>2, IntroduceOK
  <2>2. missed' \subseteq loggedIn' \X Present'
    BY <1>1, <1>3 DEF TypeOK
  <2> QED
    BY <1>1, <1>2, <1>3, <2>1, <2>2 DEF TypeOK
<1>5. \A d \in loggedIn : d \in Client /\ d # b
  BY <1>2 DEF TypeOK
<1>6. TotalsAgree'
  <2>1. ASSUME NEW d \in loggedIn', NEW e \in Present', Ready(e)'
        PROVE  e \in DOMAIN shown'[d] /\ shown'[d][e].total = total'[e]
    <3>1. d \in loggedIn \ {b} /\ d \in Client
      BY <1>1, <1>5
    <3>2. CASE e = b
      <4>1. b \in DOMAIN shown'[d] /\ shown'[d][b] = New(b, 0)
        BY <1>1, <1>2, <3>1, IntroduceOK
      <4>2. total[b] = 0
        BY <1>1, <1>2 DEF AbsentInv
      <4> QED
        BY <1>1, <3>2, <4>1, <4>2 DEF New
    <3>3. CASE e # b
      <4>1. e \in Present /\ Ready(e)
        BY <1>1, <1>3, <2>1, <3>3 DEF Ready
      <4>2. e \in DOMAIN shown[d] /\ shown[d][e].total = total[e]
        BY <3>1, <4>1 DEF TotalsAgree
      <4>3. e \in DOMAIN shown'[d] /\ shown'[d][e] = shown[d][e]
        BY <1>1, <1>2, <3>1, <3>3, <4>2, IntroduceOK
      <4> QED
        BY <1>1, <4>2, <4>3
    <3> QED
      BY <3>2, <3>3
  <2> QED
    BY <1>1, <2>1 DEF TotalsAgree
<1>7. ScoresAgree'
  <2> SUFFICES ASSUME NEW d \in loggedIn', NEW e \in Present',
                      e \in DOMAIN shown'[d], sent'[e] # None, <<d, e>> \notin missed'
               PROVE  shown'[d][e].score = sent'[e]
    BY DEF ScoresAgree
  <2>1. e # b /\ e \in Present /\ d \in loggedIn /\ d \in Client /\ <<d, e>> \notin missed
    BY <1>1, <1>3, <1>5
  <2>2. e \in DOMAIN shown[d] /\ shown'[d][e] = shown[d][e]
    BY <1>1, <1>2, <2>1, IntroduceOK
  <2> QED
    BY <1>1, <2>1, <2>2 DEF ScoresAgree
<1>8. AbsentInv' /\ EarnInv' /\ GamesInv'
  BY <1>1, <1>3 DEF AbsentInv, EarnInv, GamesInv
<1> QED
  BY <1>4, <1>6, <1>7, <1>8

(* What a client shows after some are gone.                                *)
LEMMA ForgetOK ==
    ASSUME TypeOK, NEW K, NEW c \in Client
    PROVE  LET view == Forget(K, shown)[c]
           IN  /\ DOMAIN view \subseteq Entity
               /\ view \in [DOMAIN view -> [score : Nat, total : Nat]]
               /\ \A f \in DOMAIN view : f \in DOMAIN shown[c] /\ view[f] = shown[c][f]
               /\ c \notin K => \A f \in DOMAIN shown[c] \ K : f \in DOMAIN view
<1>1. CASE c \in K
  <2>1. Forget(K, shown)[c] = <<>>
    BY <1>1 DEF Forget
  <2> QED
    BY <1>1, <2>1
<1>2. CASE c \notin K
  <2> DEFINE S == {e \in DOMAIN shown[c] : ~(e \in K /\ Ready(e))}
  <2>1. Forget(K, shown)[c] = [f \in S |-> shown[c][f]]
    BY <1>2 DEF Forget, Restrict
  <2>2. /\ DOMAIN shown[c] \subseteq Entity
        /\ \A f \in S : shown[c][f] \in [score : Nat, total : Nat]
    BY DEF TypeOK
  <2>3. S \subseteq DOMAIN shown[c] /\ DOMAIN shown[c] \ K \subseteq S
    OBVIOUS
  <2> HIDE DEF S
  <2> QED
    BY <2>1, <2>2, <2>3
<1> QED
  BY <1>1, <1>2

LEMMA LeaveOK ==
    ASSUME IInv, NEW e \in Entity, Leave(e)
    PROVE  IInv'
<1> USE DEF IInv
<1>1. /\ list' = Kept({e}) /\ loggedIn' = loggedIn \ {e}
      /\ moved' = moved \cup ({e} \cap Client) /\ playing' = playing \ {e}
      /\ score' = Without({e}, score, 0) /\ sent' = Without({e}, sent, None)
      /\ total' = Without({e}, total, 0) /\ arrival' = Without({e}, arrival, 0)
      /\ shown' = Forget({e}, shown) /\ missed' = {m \in missed : m[1] # e /\ m[2] # e}
      /\ earned' = earned \ {e} /\ UNCHANGED <<phase, now, games, record, saved>>
  BY DEF Leave
<1>2. /\ list' \in Seq(Entity) /\ IsInjective(list') /\ Present' = Present \ {e}
      /\ Present \subseteq Entity
  <2>1. Present' = ToSet(list')
    BY DEF Present
  <2>2. list \in Seq(Entity) /\ IsInjective(list)
    BY DEF TypeOK
  <2>3. Present \subseteq Entity
    BY <2>2 DEF Present, ToSet
  <2> QED
    BY <1>1, <2>1, <2>2, <2>3, KeptOK
<1>3. /\ score' \in [Entity -> Nat] /\ score'[e] = 0
      /\ \A f \in Entity \ {e} : score'[f] = score[f]
  BY <1>1 DEF Without, TypeOK
<1>4. /\ sent' \in [Entity -> Nat \cup {None}] /\ sent'[e] = None
      /\ \A f \in Entity \ {e} : sent'[f] = sent[f]
  BY <1>1 DEF Without, TypeOK
<1>5. /\ total' \in [Entity -> Nat] /\ total'[e] = 0
      /\ \A f \in Entity \ {e} : total'[f] = total[f]
  BY <1>1 DEF Without, TypeOK
<1>6. arrival' \in [Entity -> 0 .. MaxTime]
  BY <1>1, ScoresAssumption DEF Without, TypeOK
<1>7. \A c \in Client :
         /\ DOMAIN shown'[c] \subseteq Entity
         /\ shown'[c] \in [DOMAIN shown'[c] -> [score : Nat, total : Nat]]
         /\ \A f \in DOMAIN shown'[c] : f \in DOMAIN shown[c] /\ shown'[c][f] = shown[c][f]
         /\ c # e => \A f \in DOMAIN shown[c] \ {e} : f \in DOMAIN shown'[c]
  <2> DEFINE views == Forget({e}, shown)
  <2>1. \A c \in Client :
           /\ DOMAIN views[c] \subseteq Entity
           /\ views[c] \in [DOMAIN views[c] -> [score : Nat, total : Nat]]
           /\ \A f \in DOMAIN views[c] : f \in DOMAIN shown[c] /\ views[c][f] = shown[c][f]
           /\ c \notin {e} => \A f \in DOMAIN shown[c] \ {e} : f \in DOMAIN views[c]
    BY ForgetOK
  <2>2. shown' = views
    BY <1>1
  <2> HIDE DEF views
  <2> QED
    BY <2>1, <2>2
<1>8. TypeOK'
  <2>1. DOMAIN shown' = Client
    BY <1>1 DEF Forget
  <2>2. \A c \in Client : /\ DOMAIN shown'[c] \subseteq Entity
                          /\ shown'[c] \in [DOMAIN shown'[c] -> [score : Nat, total : Nat]]
    BY <1>7
  <2>3. loggedIn' \subseteq Client \cap Present' /\ playing' \subseteq Present'
    BY <1>1, <1>2 DEF TypeOK
  <2>4. missed' \subseteq loggedIn' \X Present'
    BY <1>1, <1>2 DEF TypeOK
  <2>5. earned' \subseteq playing' /\ moved' \subseteq Client
    BY <1>1 DEF TypeOK
  <2> QED
    BY <1>1, <1>2, <1>3, <1>4, <1>5, <1>6, <2>1, <2>2, <2>3, <2>4, <2>5 DEF TypeOK
<1>9. \A c \in loggedIn' : c \in loggedIn /\ c \in Client /\ c # e
  BY <1>1 DEF TypeOK
<1>10. TotalsAgree'
  <2>1. \A c \in loggedIn' : total'[c] = saved'[c]
    BY <1>1, <1>5, <1>9 DEF TotalsAgree, Entity
  <2>2. ASSUME NEW c \in loggedIn', NEW f \in Present', Ready(f)'
        PROVE  f \in DOMAIN shown'[c] /\ shown'[c][f].total = total'[f]
    <3>1. f \in Present /\ f # e /\ Ready(f) /\ f \in Entity
      BY <1>1, <1>2, <2>2 DEF Ready
    <3>2. f \in DOMAIN shown[c] /\ shown[c][f].total = total[f]
      BY <1>9, <3>1 DEF TotalsAgree
    <3>3. f \in DOMAIN shown'[c] /\ shown'[c][f] = shown[c][f]
      BY <1>7, <1>9, <3>1, <3>2
    <3> QED
      BY <1>5, <3>1, <3>2, <3>3
  <2> QED
    BY <2>1, <2>2 DEF TotalsAgree
<1>11. ScoresAgree'
  <2> SUFFICES ASSUME NEW c \in loggedIn', NEW f \in Present',
                      f \in DOMAIN shown'[c], sent'[f] # None, <<c, f>> \notin missed'
               PROVE  shown'[c][f].score = sent'[f]
    BY DEF ScoresAgree
  <2>1. f # e /\ f \in Present /\ f \in Entity /\ <<c, f>> \notin missed
    BY <1>1, <1>2, <1>9
  <2>2. f \in DOMAIN shown[c] /\ shown'[c][f] = shown[c][f]
    BY <1>7, <1>9
  <2> QED
    BY <1>4, <1>9, <2>1, <2>2 DEF ScoresAgree
<1>12. AbsentInv'
  BY <1>2, <1>3, <1>4, <1>5 DEF AbsentInv
<1>13. EarnInv'
  <2>1. \A f \in Entity : score'[f] > 0 => f # e /\ score[f] > 0
    BY <1>3
  <2> QED
    BY <1>1, <2>1 DEF EarnInv
<1>14. GamesInv'
  BY <1>1 DEF GamesInv
<1> QED
  BY <1>8, <1>10, <1>11, <1>12, <1>13, <1>14

(* The steps of the session that send nothing and save nothing.            *)
LEMMA SessionOK ==
    ASSUME IInv, \/ Launch \/ Prepare \/ Start \/ Clock \/ Reset
                 \/ \E c \in Client : Move(c)
                 \/ \E e \in Entity : SetScore(e) \/ Arrive(e)
    PROVE  IInv'
<1> USE DEF IInv
<1>1. UNCHANGED <<list, loggedIn, sent, total, saved, shown, missed>> /\ Present' = Present
  BY DEF Launch, Prepare, Start, Clock, Reset, Move, SetScore, Arrive, rosterVars, scoreVars,
         viewVars, Present
<1>2. TotalsAgree' /\ ScoresAgree'
  BY <1>1, SameViews
<1>3. AbsentInv' /\ GamesInv'
  <2>1. \A e \in Entity \ Present : score'[e] = score[e] \/ score'[e] = 0
    BY DEF Launch, Prepare, InitScore, Start, Clock, Reset, Move, SetScore, Arrive, scoreVars,
           TypeOK
  <2>2. /\ games' = games
        /\ phase' \in {"Launched", "Prepared", "Running"} =>
              phase \in {"Launched", "Prepared", "Running"} \/ games < MaxGames
    BY DEF Launch, Prepare, Start, Clock, Reset, Move, SetScore, Arrive, gameVars
  <2> QED
    BY <1>1, <2>1, <2>2 DEF AbsentInv, GamesInv
<1>4. TypeOK'
  <2>1. CASE Launch
    BY <1>1, <2>1, ScoresAssumption DEF TypeOK, Launch, viewVars, Phase
  <2>2. CASE Prepare
    BY <1>1, <2>2 DEF TypeOK, Prepare, InitScore, viewVars, Phase
  <2>3. CASE Start
    BY <1>1, <2>3, ScoresAssumption DEF TypeOK, Start, rosterVars, scoreVars, viewVars, Phase
  <2>4. CASE Clock
    BY <1>1, <2>4, ScoresAssumption DEF TypeOK, Clock, rosterVars, scoreVars, viewVars
  <2>5. CASE Reset
    BY <1>1, <2>5, ScoresAssumption DEF TypeOK, Reset, rosterVars, scoreVars, viewVars, Phase
  <2>6. ASSUME NEW c \in Client, Move(c)
        PROVE  TypeOK'
    BY <1>1, <2>6 DEF TypeOK, Move, gameVars, scoreVars, viewVars
  <2>7. ASSUME NEW e \in Entity, SetScore(e)
        PROVE  TypeOK'
    <3>1. PICK p \in Points \cup {0} :
             /\ score' = [score EXCEPT ![e] = p]
             /\ earned' = IF p > 0 THEN earned \cup {e} ELSE earned
      BY <2>7 DEF SetScore
    <3>2. score' \in [Entity -> Nat]
      BY <3>1, ScoresAssumption DEF TypeOK
    <3>3. /\ earned' \subseteq playing'
          /\ UNCHANGED <<phase, now, games, record, moved, playing, arrival>>
      BY <2>7, <3>1 DEF TypeOK, SetScore, rosterVars
    <3> QED
      BY <1>1, <3>2, <3>3 DEF TypeOK
  <2>8. ASSUME NEW e \in Entity, Arrive(e)
        PROVE  TypeOK'
    BY <1>1, <2>8 DEF TypeOK, Arrive, gameVars, rosterVars, viewVars
  <2> QED
    BY <2>1, <2>2, <2>3, <2>4, <2>5, <2>6, <2>7, <2>8
<1>5. EarnInv'
  <2>1. CASE Launch \/ Reset
    BY <2>1 DEF Launch, Reset, EarnInv
  <2>2. CASE Prepare
    BY <2>2 DEF Prepare, InitScore, EarnInv
  <2>3. CASE Start \/ Clock
    BY <2>3 DEF Start, Clock, EarnInv, scoreVars
  <2>4. ASSUME NEW c \in Client, Move(c)
        PROVE  EarnInv'
    BY <2>4 DEF Move, gameVars, scoreVars, EarnInv
  <2>5. ASSUME NEW e \in Entity, SetScore(e)
        PROVE  EarnInv'
    <3>1. PICK p \in Points \cup {0} :
             /\ score' = [score EXCEPT ![e] = p]
             /\ earned' = IF p > 0 THEN earned \cup {e} ELSE earned
      BY <2>5 DEF SetScore
    <3>2. \A f \in Entity : score'[f] = IF f = e THEN p ELSE score[f]
      BY <3>1 DEF TypeOK
    <3>3. phase' = phase /\ earned \subseteq earned' /\ (p > 0 => e \in earned')
      BY <2>5, <3>1 DEF SetScore
    <3> QED
      BY <3>2, <3>3 DEF EarnInv
  <2>6. ASSUME NEW e \in Entity, Arrive(e)
        PROVE  EarnInv'
    BY <2>6 DEF Arrive, gameVars, EarnInv
  <2> QED
    BY <2>1, <2>2, <2>3, <2>4, <2>5, <2>6
<1> QED
  BY <1>2, <1>3, <1>4, <1>5

LEMMA ScoreUpdateOK ==
    ASSUME IInv, ScoreUpdate
    PROVE  IInv'
<1> USE DEF IInv
<1>1. /\ sent' = [e \in Entity |-> IF e \in Dirty THEN score[e] ELSE sent[e]]
      /\ missed' = {m \in missed : m[2] \notin Dirty}
      /\ UNCHANGED <<phase, now, games, record, earned, list, loggedIn, moved, playing, score,
                     total, arrival, saved>>
  BY DEF ScoreUpdate, gameVars, rosterVars
<1>2. Present' = Present /\ Present \subseteq Entity /\ Dirty \subseteq Present
  BY <1>1 DEF Present, Dirty, TypeOK, ToSet
<1>3. /\ DOMAIN shown' = Client
      /\ \A c \in Client \ loggedIn : shown'[c] = shown[c]
      /\ \A c \in loggedIn :
            shown'[c] = [e \in DOMAIN shown[c] |->
                           IF e \in Dirty THEN [shown[c][e] EXCEPT !.score = score[e]]
                                          ELSE shown[c][e]]
  BY DEF ScoreUpdate, Readers, TypeOK
<1>4. sent' \in [Entity -> Nat \cup {None}]
  BY <1>1 DEF TypeOK
<1>5. ASSUME NEW c \in Client
      PROVE  /\ DOMAIN shown'[c] = DOMAIN shown[c] /\ DOMAIN shown[c] \subseteq Entity
             /\ shown'[c] \in [DOMAIN shown'[c] -> [score : Nat, total : Nat]]
             /\ \A e \in DOMAIN shown[c] : shown'[c][e].total = shown[c][e].total
             /\ c \in loggedIn => \A e \in DOMAIN shown[c] :
                   shown'[c][e].score = IF e \in Dirty THEN score[e] ELSE shown[c][e].score
  <2>1. /\ DOMAIN shown[c] \subseteq Entity
        /\ shown[c] \in [DOMAIN shown[c] -> [score : Nat, total : Nat]]
    BY DEF TypeOK
  <2>2. CASE c \notin loggedIn
    BY <1>3, <2>1, <2>2
  <2>3. CASE c \in loggedIn
    <3>1. \A e \in DOMAIN shown[c] :
             /\ shown[c][e] \in [score : Nat, total : Nat]
             /\ score[e] \in Nat
      BY <2>1 DEF TypeOK
    <3>2. /\ DOMAIN shown'[c] = DOMAIN shown[c]
          /\ shown'[c] = [e \in DOMAIN shown'[c] |-> shown'[c][e]]
          /\ \A e \in DOMAIN shown[c] :
                shown'[c][e] = IF e \in Dirty THEN [shown[c][e] EXCEPT !.score = score[e]]
                                              ELSE shown[c][e]
      BY <1>3, <2>3
    <3>3. \A e \in DOMAIN shown[c] :
             /\ shown'[c][e] \in [score : Nat, total : Nat]
             /\ shown'[c][e].total = shown[c][e].total
             /\ shown'[c][e].score = IF e \in Dirty THEN score[e] ELSE shown[c][e].score
      BY <3>1, <3>2
    <3> QED
      BY <2>1, <2>3, <3>2, <3>3
  <2> QED
    BY <2>2, <2>3
<1>6. TypeOK'
  <2>1. missed' \subseteq loggedIn' \X Present'
    BY <1>1, <1>2 DEF TypeOK
  <2> QED
    BY <1>1, <1>2, <1>3, <1>4, <1>5, <2>1 DEF TypeOK
<1>7. loggedIn \subseteq Client
  BY DEF TypeOK
<1>8. TotalsAgree'
  BY <1>1, <1>2, <1>5, <1>7 DEF TotalsAgree, Ready
<1>9. ScoresAgree'
  <2> SUFFICES ASSUME NEW c \in loggedIn, NEW e \in Present, e \in DOMAIN shown[c],
                      sent'[e] # None, <<c, e>> \notin missed'
               PROVE  shown'[c][e].score = sent'[e]
    BY <1>1, <1>2, <1>5, <1>7 DEF ScoresAgree
  <2>1. CASE e \in Dirty
    BY <1>1, <1>2, <1>5, <1>7, <2>1
  <2>2. CASE e \notin Dirty
    BY <1>1, <1>2, <1>5, <1>7, <2>2 DEF ScoresAgree
  <2> QED
    BY <2>1, <2>2
<1>10. AbsentInv' /\ EarnInv' /\ GamesInv'
  BY <1>1, <1>2 DEF AbsentInv, EarnInv, GamesInv
<1> QED
  BY <1>6, <1>8, <1>9, <1>10

(* EndSession, to who remains: the scores and the totals of the end.       *)
LEMMA AnnounceOK ==
    ASSUME TypeOK, NEW K, NEW c \in Client, NEW final \in [Entity -> Nat],
           NEW new \in [Entity -> Nat]
    PROVE  LET view == Announce(Forget(K, shown), final, new)[c]
           IN  /\ DOMAIN view \subseteq Entity
               /\ view \in [DOMAIN view -> [score : Nat, total : Nat]]
               /\ c \notin K => \A e \in DOMAIN shown[c] \ K : e \in DOMAIN view
               /\ \A e \in DOMAIN view \cap Present :
                     view[e].score = final[e] /\ view[e].total = new[e]
<1> DEFINE old == Forget(K, shown)[c]
<1>1. /\ DOMAIN old \subseteq Entity
      /\ old \in [DOMAIN old -> [score : Nat, total : Nat]]
      /\ c \notin K => \A e \in DOMAIN shown[c] \ K : e \in DOMAIN old
  BY ForgetOK
<1>2. Announce(Forget(K, shown), final, new)[c]
        = [e \in DOMAIN old |-> IF e \in Present THEN [score |-> final[e], total |-> new[e]]
                                                 ELSE old[e]]
  BY DEF Announce
<1> HIDE DEF old
<1>3. \A e \in DOMAIN old : [score |-> final[e], total |-> new[e]] \in [score : Nat, total : Nat]
  BY <1>1
<1> QED
  BY <1>1, <1>2, <1>3

LEMMA FinishOK ==
    ASSUME IInv, NEW K \in SUBSET Client, NEW bonusTime \in BOOLEAN, Finish(K, bonusTime)
    PROVE  IInv'
<1> DEFINE final == Final(K, bonusTime)
           new == NewTotals(K, bonusTime)
<1> USE DEF IInv
<1>1. /\ phase = "Running" /\ K \subseteq Idle /\ phase' = "Ending" /\ games' = games + 1
      /\ \E p : record' = RecordBefore(Len(Kept(K)) + 1, p, Kept(K))
      /\ list' = Kept(K) /\ loggedIn' = loggedIn \ K /\ moved' = moved \cup K
      /\ playing' = playing \ K /\ earned' = earned \ K
      /\ score' = final /\ total' = new
      /\ sent' = Without(K, sent, None) /\ arrival' = Without(K, arrival, 0)
      /\ saved' = SavedNow(K, new)
      /\ shown' = Announce(Forget(K, shown), final, new)
      /\ missed' = {m \in (loggedIn \ K) \X (Present \ K) : final[m[2]] # sent[m[2]]}
      /\ now' = 0
  BY FinishIs
<1>2. /\ final \in [Entity -> Nat]
      /\ \A e \in Entity : e \in K \/ score[e] = 0 => final[e] = 0
  BY FinalOK
<1>3. /\ new \in [Entity -> Nat]
      /\ \A e \in K \cap Entity : new[e] = 0
      /\ \A e \in Entity \ K : new[e] = total[e] + final[e]
  BY NewTotalsOK
<1> HIDE DEF final, new
<1>4. /\ list' \in Seq(Entity) /\ IsInjective(list') /\ Present' = Present \ K
      /\ Present \subseteq Entity
  <2>1. Present' = ToSet(list')
    BY DEF Present
  <2>2. list \in Seq(Entity) /\ IsInjective(list)
    BY DEF TypeOK
  <2>3. Present \subseteq Entity
    BY <2>2 DEF Present, ToSet
  <2> QED
    BY <1>1, <2>1, <2>2, <2>3, KeptOK
<1>5. /\ sent' \in [Entity -> Nat \cup {None}]
      /\ \A e \in Entity : sent'[e] = IF e \in K THEN None ELSE sent[e]
  BY <1>1 DEF Without, TypeOK
<1>6. /\ DOMAIN shown' = Client
      /\ \A c \in Client :
           /\ DOMAIN shown'[c] \subseteq Entity
           /\ shown'[c] \in [DOMAIN shown'[c] -> [score : Nat, total : Nat]]
           /\ c \notin K => \A e \in DOMAIN shown[c] \ K : e \in DOMAIN shown'[c]
           /\ \A e \in DOMAIN shown'[c] \cap Present :
                 shown'[c][e].score = final[e] /\ shown'[c][e].total = new[e]
  <2>1. DOMAIN shown' = Client
    BY <1>1 DEF Announce
  <2> DEFINE views == Announce(Forget(K, shown), final, new)
  <2>2. \A c \in Client :
           /\ DOMAIN views[c] \subseteq Entity
           /\ views[c] \in [DOMAIN views[c] -> [score : Nat, total : Nat]]
           /\ c \notin K => \A e \in DOMAIN shown[c] \ K : e \in DOMAIN views[c]
           /\ \A e \in DOMAIN views[c] \cap Present :
                 views[c][e].score = final[e] /\ views[c][e].total = new[e]
    BY <1>2, <1>3, AnnounceOK
  <2>3. shown' = views
    BY <1>1
  <2> HIDE DEF views
  <2> QED
    BY <2>1, <2>2, <2>3
<1>7. TypeOK'
  <2>1. games' \in 0 .. MaxGames
    BY <1>1, ScoresAssumption DEF TypeOK, GamesInv
  <2>2. record' \in 0 .. MaxTime \cup {NoRecord}
    BY <1>1, <1>4, RecordOK
  <2>3. arrival' \in [Entity -> 0 .. MaxTime]
    BY <1>1, ScoresAssumption DEF Without, TypeOK
  <2>4. saved' \in [Client -> Nat]
    BY <1>1, <1>3 DEF SavedNow, TypeOK, Entity
  <2>5. loggedIn' \subseteq Client \cap Present' /\ playing' \subseteq Present'
    BY <1>1, <1>4 DEF TypeOK
  <2>6. earned' \subseteq playing' /\ moved' \subseteq Client
    BY <1>1 DEF TypeOK
  <2>7. missed' \subseteq loggedIn' \X Present'
    BY <1>1, <1>4
  <2>8. phase' \in Phase /\ now' \in 0 .. MaxTime
    BY <1>1, ScoresAssumption DEF Phase
  <2> QED
    BY <1>1, <1>2, <1>3, <1>4, <1>5, <1>6, <2>1, <2>2, <2>3, <2>4, <2>5, <2>6, <2>7, <2>8
       DEF TypeOK
<1>8. \A c \in loggedIn' : c \in loggedIn /\ c \in Client /\ c \notin K
  BY <1>1 DEF TypeOK
<1>9. TotalsAgree'
  <2>1. \A c \in loggedIn' : total'[c] = saved'[c]
    BY <1>1, <1>8 DEF SavedNow
  <2>2. ASSUME NEW c \in loggedIn', NEW e \in Present', Ready(e)'
        PROVE  e \in DOMAIN shown'[c] /\ shown'[c][e].total = total'[e]
    <3>1. e \in Present /\ e \notin K /\ Ready(e)
      BY <1>1, <1>4, <2>2 DEF Ready
    <3>2. e \in DOMAIN shown[c]
      BY <1>8, <3>1 DEF TotalsAgree
    <3> QED
      BY <1>1, <1>6, <1>8, <3>1, <3>2
  <2> QED
    BY <2>1, <2>2 DEF TotalsAgree
<1>10. ScoresAgree'
  <2> SUFFICES ASSUME NEW c \in loggedIn', NEW e \in Present',
                      e \in DOMAIN shown'[c], sent'[e] # None, <<c, e>> \notin missed'
               PROVE  shown'[c][e].score = sent'[e]
    BY DEF ScoresAgree
  <2>1. e \in Present /\ e \notin K /\ e \in Entity
    BY <1>4
  <2>2. final[e] = sent[e]
    BY <1>1, <1>8, <2>1
  <2> QED
    BY <1>5, <1>6, <1>8, <2>1, <2>2
<1>11. AbsentInv'
  <2>1. ASSUME NEW e \in Entity \ Present
        PROVE  sent'[e] = None /\ new[e] = 0 /\ final[e] = 0
    <3>1. sent[e] = None /\ total[e] = 0 /\ final[e] = 0
      BY <1>2, <2>1 DEF AbsentInv
    <3> QED
      BY <1>3, <1>5, <3>1
  <2> QED
    BY <1>1, <1>2, <1>3, <1>4, <1>5, <2>1 DEF AbsentInv
<1>12. EarnInv' /\ GamesInv'
  BY <1>1 DEF EarnInv, GamesInv
<1> QED
  BY <1>7, <1>9, <1>10, <1>11, <1>12

LEMMA StepOK == IInv /\ [Next]_vars => IInv'
<1> SUFFICES ASSUME IInv, [Next]_vars
             PROVE  IInv'
  OBVIOUS
<1>1. ASSUME NEW c \in Client, Connect(c) \/ Login(c) \/ Move(c)
      PROVE  IInv'
  BY <1>1, ConnectOK, LoginOK, SessionOK
<1>2. ASSUME NEW b \in Bot, AddBot(b)
      PROVE  IInv'
  BY <1>2, AddBotOK
<1>3. ASSUME NEW e \in Entity, Leave(e) \/ SetScore(e) \/ Arrive(e)
      PROVE  IInv'
  BY <1>3, LeaveOK, SessionOK
<1>4. CASE Launch \/ Prepare \/ Start \/ Clock \/ Reset \/ ScoreUpdate
  BY <1>4, SessionOK, ScoreUpdateOK
<1>5. ASSUME NEW K \in SUBSET Client, NEW bonusTime \in BOOLEAN, Finish(K, bonusTime)
      PROVE  IInv'
  BY <1>5, FinishOK
<1>6. CASE UNCHANGED vars
  BY <1>6 DEF vars, gameVars, rosterVars, scoreVars, viewVars, IInv, TypeOK, TotalsAgree,
              ScoresAgree, AbsentInv, EarnInv, GamesInv, Present, Ready
<1> QED
  BY <1>1, <1>2, <1>3, <1>4, <1>5, <1>6 DEF Next

LEMMA Inductive == Spec => []IInv
<1>1. Init => IInv
  BY InitOK
<1>2. IInv /\ [Next]_vars => IInv'
  BY StepOK
<1> QED
  BY <1>1, <1>2, PTL DEF Spec

(* The total of a player is the same in the account, on the server and on  *)
(* every client that is ready, whatever the order of logins, departures    *)
(* and ends of games: cbLogin and EndSession, which carry it, are enough.  *)
THEOREM TotalsCorrect == Spec => []TotalsInv
<1>1. IInv => TotalsInv
  BY DEF IInv, TotalsInv
<1> QED
  BY <1>1, Inductive, PTL

(* A client that was there when the last ScoreUpdate of an entity went out *)
(* shows that score: LastSentScore is what the client has.                 *)
THEOREM ScoresCorrect == Spec => []ScoresAgree
<1>1. IInv => ScoresAgree
  BY DEF IInv
<1> QED
  BY <1>1, Inductive, PTL

-----------------------------------------------------------------------------
(* What the end of a game pays.                                            *)
LEMMA OnlyFinishCounts ==
    ASSUME [Next]_vars, games' # games
    PROVE  \E K \in SUBSET Client, bonusTime \in BOOLEAN : Finish(K, bonusTime)
BY DEF Next, vars, Connect, Login, Move, AddBot, Leave, SetScore, Arrive, Launch, Prepare, Start,
       Clock, Reset, ScoreUpdate, gameVars

LEMMA StepPays ==
    ASSUME IInv, [Next]_vars, games' # games
    PROVE  /\ \A e \in Present' \ earned : total'[e] = total[e]
           /\ \A c \in Idle : saved'[c] = saved[c]
<1> USE DEF IInv
<1>1. PICK K \in SUBSET Client, bonusTime \in BOOLEAN : Finish(K, bonusTime)
  BY OnlyFinishCounts
<1> DEFINE final == Final(K, bonusTime)
           new == NewTotals(K, bonusTime)
<1>2. /\ phase = "Running" /\ list' = Kept(K) /\ total' = new /\ saved' = SavedNow(K, new)
  BY <1>1, FinishIs
<1>3. \A e \in Entity : e \in K \cup Idle \/ score[e] = 0 => final[e] = 0
  BY FinalOK
<1>4. \A e \in Entity \ K : new[e] = total[e] + final[e]
  BY NewTotalsOK
<1> HIDE DEF final, new
<1>5. Present' = Present \ K /\ Present \subseteq Entity
  <2>1. Present' = ToSet(list')
    BY DEF Present
  <2>2. list \in Seq(Entity) /\ IsInjective(list)
    BY DEF TypeOK
  <2>3. Present \subseteq Entity
    BY <2>2 DEF Present, ToSet
  <2> QED
    BY <1>2, <2>1, <2>2, <2>3, KeptOK
<1>6. ASSUME NEW e \in Present' \ earned
      PROVE  total'[e] = total[e]
  <2>1. e \in Entity \ K /\ score[e] \in Nat /\ total[e] \in Nat
    BY <1>5 DEF TypeOK
  <2>2. score[e] = 0
    BY <1>2, <2>1 DEF EarnInv
  <2>3. final[e] = 0 /\ new[e] = total[e] + final[e]
    BY <1>3, <1>4, <2>1, <2>2
  <2> QED
    BY <1>2, <2>1, <2>3
<1>7. ASSUME NEW c \in Idle
      PROVE  saved'[c] = saved[c]
  <2>1. c \in Client /\ c \in Entity
    BY DEF Idle, Entity
  <2>2. CASE c \in loggedIn \ K
    <3>1. saved'[c] = new[c]
      BY <1>2, <2>1, <2>2 DEF SavedNow
    <3>2. final[c] = 0 /\ new[c] = total[c] + final[c] /\ total[c] \in Nat
      BY <1>3, <1>4, <2>1, <2>2 DEF TypeOK
    <3>3. total[c] = saved[c]
      BY <2>2 DEF TotalsAgree
    <3> QED
      BY <3>1, <3>2, <3>3
  <2>3. CASE c \notin loggedIn \ K
    BY <1>2, <2>1, <2>3 DEF SavedNow
  <2> QED
    BY <2>2, <2>3
<1> QED
  BY <1>6, <1>7

(* The end of a game, CRunningSessionState::update() with its time bonus   *)
(* and its records, adds nothing to the total of who was given no points   *)
(* since initBeforeStartLevel().                                           *)
THEOREM GamePaysForItself == Spec => PaidForThisGame
<1>1. IInv /\ [Next]_vars =>
        [games' # games => \A e \in Present' \ earned : total'[e] = total[e]]_vars
  BY StepPays
<1> QED
  BY <1>1, Inductive, PTL DEF Spec, PaidForThisGame

(* checkAfkClient() comes before the bonus, the records and the accounts:  *)
(* who sent no command, neither the one to log in, and is no administrator *)
(* or moderator, has the same account after the game.                      *)
THEOREM IdleAreNotPaid == Spec => IdleGainNothing
<1>1. IInv /\ [Next]_vars => [games' # games => \A c \in Idle : saved'[c] = saved[c]]_vars
  BY StepPays
<1> QED
  BY <1>1, Inductive, PTL DEF Spec, IdleGainNothing

-----------------------------------------------------------------------------
(* The podium of the pass over the list.                                   *)

(* The entities that count among the first i of the list.                  *)
CountedUpTo(i) == {list[j] : j \in {k \in 1 .. i : Counts(list[k], score, arrival)}}

(* The first place is free as long as nobody counts, and then it has a     *)
(* fastest of those seen: a turn takes it only for who is faster.          *)
LeaderOf(podium, i) ==
    /\ DOMAIN podium = 1 .. 3
    /\ CountedUpTo(i) = {} => podium[1] = NoOne
    /\ CountedUpTo(i) # {} =>
         /\ podium[1] \in CountedUpTo(i)
         /\ \A f \in CountedUpTo(i) : arrival[podium[1]] <= arrival[f]

LEMMA TurnKeepsLeader ==
    ASSUME NEW E, NoOne \notin E, list \in Seq(E), arrival \in [E -> Nat],
           NEW i \in Nat, i + 1 \in 1 .. Len(list), NEW podium, LeaderOf(podium, i)
    PROVE  LeaderOf(Turn(podium, list[i + 1], score, arrival), i + 1)
<1> DEFINE e == list[i + 1]
           C == CountedUpTo(i)
<1>1. /\ e \in E /\ arrival[e] \in Nat
      /\ \A j \in 1 .. i : list[j] \in E
  OBVIOUS
<1>2. C \subseteq E /\ \A f \in C : f # NoOne /\ arrival[f] \in Nat
  BY <1>1 DEF CountedUpTo
<1>3. CountedUpTo(i + 1) = IF Counts(e, score, arrival) THEN C \cup {e} ELSE C
  <2>1. 1 .. i + 1 = (1 .. i) \cup {i + 1}
    OBVIOUS
  <2> QED
    BY <2>1 DEF CountedUpTo
<1>4. /\ DOMAIN podium = 1 .. 3
      /\ C = {} => podium[1] = NoOne
      /\ C # {} => /\ podium[1] \in C
                   /\ \A f \in C : arrival[podium[1]] <= arrival[f]
  BY DEF LeaderOf
<1> HIDE DEF C, e
<1>5. CASE ~Counts(e, score, arrival)
  BY <1>3, <1>4, <1>5 DEF Turn, LeaderOf, C, e
<1>6. CASE Counts(e, score, arrival)
  <2> DEFINE beaten == Beaten(podium, e, arrival)
             after == Place(podium, e, arrival)
  <2>1. beaten \in SUBSET Nat /\ beaten \subseteq 1 .. 3
    BY DEF Beaten
  <2>2. CASE 1 \in beaten
    <3>1. Min(beaten) = 1
      <4>1. Min(beaten) \in beaten /\ Min(beaten) <= 1
        BY <2>1, <2>2, MinOfNat
      <4> QED
        BY <2>1, <4>1
    <3>2. after = [podium EXCEPT ![1] = e]
      BY <2>2, <3>1 DEF Place
    <3>3. DOMAIN after = 1 .. 3 /\ after[1] = e
      BY <1>4, <3>2
    <3>4. \A f \in C : arrival[e] <= arrival[f]
      BY <1>1, <1>2, <1>4, <2>2 DEF Beaten
    <3> HIDE DEF beaten, after
    <3>5. \A f \in C \cup {e} : arrival[e] <= arrival[f]
      BY <1>1, <3>4
    <3>6. LeaderOf(after, i + 1)
      BY <1>3, <1>6, <3>3, <3>5 DEF LeaderOf
    <3> QED
      BY <1>6, <3>6 DEF Turn, after, e
  <2>3. CASE 1 \notin beaten
    <3>1. podium[1] # NoOne /\ ~(arrival[podium[1]] > arrival[e])
      BY <2>3 DEF Beaten
    <3>2. DOMAIN after = 1 .. 3 /\ after[1] = podium[1]
      <4>1. CASE beaten = {}
        BY <1>4, <4>1 DEF Place
      <4>2. CASE beaten # {}
        <5>1. Min(beaten) \in beaten
          BY <2>1, <4>2, MinOfNat
        <5>2. Min(beaten) # 1 /\ after = [podium EXCEPT ![Min(beaten)] = e]
          BY <2>3, <4>2, <5>1 DEF Place
        <5> QED
          BY <1>4, <5>2
      <4> QED
        BY <4>1, <4>2
    <3> HIDE DEF beaten, after
    <3>3. podium[1] \in C /\ \A f \in C : arrival[podium[1]] <= arrival[f]
      BY <1>4, <3>1
    <3>4. arrival[podium[1]] <= arrival[e]
      BY <1>1, <1>2, <3>1, <3>3
    <3>5. LeaderOf(after, i + 1)
      BY <1>3, <1>6, <3>2, <3>3, <3>4 DEF LeaderOf
    <3> QED
      BY <1>6, <3>5 DEF Turn, after, e
  <2> QED
    BY <2>2, <2>3
<1> QED
  BY <1>5, <1>6

LEMMA PodiumLeads ==
    ASSUME NEW E, NoOne \notin E, list \in Seq(E), arrival \in [E -> Nat]
    PROVE  LeaderOf(Podium(list, score, arrival), Len(list))
<1> DEFINE n == Len(list)
<1>1. PICK f : Run(f, list, score, arrival) /\ f[n] = Podium(list, score, arrival)
  BY PodiumRuns
<1> DEFINE P == {i \in 0 .. n : LeaderOf(f[i], i)}
<1>2. n \in Nat
  OBVIOUS
<1>3. 0 \in P
  <2>1. f[0] = <<NoOne, NoOne, NoOne>> /\ CountedUpTo(0) = {}
    BY <1>1 DEF Run, CountedUpTo
  <2>2. LeaderOf(f[0], 0)
    BY <2>1 DEF LeaderOf
  <2> QED
    BY <1>2, <2>2
<1>4. ASSUME NEW i \in 0 .. n, i \in P, i < n
      PROVE  i + 1 \in P
  <2>1. LeaderOf(f[i], i) /\ i \in Nat /\ i \in 0 .. n - 1 /\ i + 1 \in 1 .. n
    BY <1>2, <1>4
  <2>2. f[i + 1] = Turn(f[i], list[i + 1], score, arrival)
    BY <1>1, <2>1 DEF Run
  <2>3. LeaderOf(f[i + 1], i + 1)
    BY <2>1, <2>2, TurnKeepsLeader
  <2> QED
    BY <2>1, <2>3
<1> HIDE DEF P
<1>5. 0 .. n \subseteq P
  BY <1>2, <1>3, <1>4, ThroughList
<1> QED
  BY <1>1, <1>2, <1>5 DEF P

(* Whatever the list, the points and the times: the first prize goes to a  *)
(* fastest, and nobody else has more than the second.                      *)
LEMMA FastestOfAnyList ==
    ASSUME NEW E, NoOne \notin E, list \in Seq(E), arrival \in [E -> Nat]
    PROVE  FastestIsFirst
<1> DEFINE n == Len(list)
           podium == Podium(list, score, arrival)
           places(f) == {i \in 1 .. 3 : podium[i] = f}
<1>1. n \in Nat /\ DOMAIN list = 1 .. n
  OBVIOUS
<1>2. CountedUpTo(n) = Counted /\ ToSet(list) \subseteq E
  BY <1>1 DEF CountedUpTo, Counted, ToSet
<1>3. ASSUME NEW e \in ToSet(list) \ Counted
      PROVE  Bonus(e) = 0
  <2>1. e # NoOne /\ ~Counts(e, score, arrival)
    BY <1>2 DEF Counted
  <2> QED
    BY <2>1, BonusOK DEF Bonus
<1>4. ASSUME Counted # {}
      PROVE  \E e \in Counted :
                /\ Faster(e) = {}
                /\ Bonus(e) = Prizes(n)[1]
                /\ \A f \in Counted \ {e} : Bonus(f) <= Prizes(n)[2]
  <2>1. podium[1] \in Counted /\ \A f \in Counted : arrival[podium[1]] <= arrival[f]
    BY <1>2, <1>4, PodiumLeads DEF LeaderOf
  <2>2. \A f \in Counted : arrival[f] \in Nat
    BY <1>2 DEF Counted
  <2>3. Faster(podium[1]) = {}
    BY <2>1, <2>2 DEF Faster
  <2>4. \A f : /\ Bonus(f) = IF places(f) = {} THEN 0 ELSE Prizes(n)[Min(places(f))]
               /\ places(f) \in SUBSET Nat
               /\ places(f) # {} => Min(places(f)) \in places(f)
                                    /\ \A k \in places(f) : Min(places(f)) <= k
    <3> TAKE f
    <3>1. Bonus(f) = IF places(f) = {} THEN 0 ELSE Prizes(n)[Min(places(f))]
      BY DEF Bonus, TimeBonus
    <3>2. places(f) \in SUBSET Nat
      OBVIOUS
    <3> HIDE DEF places
    <3> QED
      BY <3>1, <3>2, MinOfNat
  <2>5. Bonus(podium[1]) = Prizes(n)[1]
    <3>1. 1 \in places(podium[1]) /\ places(podium[1]) \subseteq 1 .. 3
      OBVIOUS
    <3> HIDE DEF places
    <3>2. Min(places(podium[1])) = 1
      BY <2>4, <3>1
    <3> QED
      BY <2>4, <3>1, <3>2
  <2>6. ASSUME NEW f \in Counted, f # podium[1]
        PROVE  Bonus(f) <= Prizes(n)[2]
    <3>1. 1 \notin places(f) /\ places(f) \subseteq 1 .. 3
      BY <2>6
    <3> HIDE DEF places
    <3>2. Prizes(n)[2] \in Nat
      BY <1>1, PrizesOK
    <3>3. CASE places(f) = {}
      BY <2>4, <3>2, <3>3
    <3>4. CASE places(f) # {}
      <4>1. Min(places(f)) \in 1 .. 3 /\ Min(places(f)) # 1
        BY <2>4, <3>1, <3>4
      <4> QED
        BY <1>1, <2>4, <3>4, <4>1, PrizesOK
    <3> QED
      BY <3>3, <3>4
  <2> QED
    BY <2>1, <2>3, <2>5, <2>6
<1> QED
  BY <1>3, <1>4 DEF FastestIsFirst

(* The places of the list with an entity that counts, up to the i-th, and  *)
(* the place in the ranking that the i-th has in a sorted list.            *)
Counting(i) == {k \in 1 .. i : Counts(list[k], score, arrival)}
RankAt(i) == Cardinality(Counting(i))

Sorted == \A i, j \in DOMAIN list : i < j => arrival[list[i]] < arrival[list[j]]

LEMMA CountingOK ==
    ASSUME NEW i \in Nat
    PROVE  /\ IsFiniteSet(Counting(i)) /\ RankAt(i) \in Nat
           /\ RankAt(0) = 0
           /\ Counting(i + 1) = IF Counts(list[i + 1], score, arrival)
                                THEN Counting(i) \cup {i + 1} ELSE Counting(i)
           /\ RankAt(i + 1) = IF Counts(list[i + 1], score, arrival)
                              THEN RankAt(i) + 1 ELSE RankAt(i)
<1>1. IsFiniteSet(1 .. i)
  BY FS_Interval
<1>2. Counting(i) \subseteq 1 .. i
  BY DEF Counting
<1>3. IsFiniteSet(Counting(i)) /\ RankAt(i) \in Nat
  BY <1>1, <1>2, FS_Subset, FS_CardinalityType DEF RankAt
<1>4. RankAt(0) = 0
  <2>1. Counting(0) = {}
    BY DEF Counting
  <2> QED
    BY <2>1, FS_EmptySet DEF RankAt
<1>5. Counting(i + 1) = IF Counts(list[i + 1], score, arrival)
                        THEN Counting(i) \cup {i + 1} ELSE Counting(i)
  <2>1. 1 .. i + 1 = (1 .. i) \cup {i + 1}
    OBVIOUS
  <2> QED
    BY <2>1 DEF Counting
<1>6. i + 1 \notin Counting(i)
  BY DEF Counting
<1>7. RankAt(i + 1) = IF Counts(list[i + 1], score, arrival) THEN RankAt(i) + 1 ELSE RankAt(i)
  BY <1>3, <1>5, <1>6, FS_AddElement DEF RankAt
<1> QED
  BY <1>3, <1>4, <1>5, <1>7

LEMMA RanksGrow ==
    ASSUME NEW i \in Nat, NEW j \in Nat, j < i, Counts(list[i], score, arrival)
    PROVE  RankAt(j) < RankAt(i)
<1>1. IsFiniteSet(Counting(i)) /\ IsFiniteSet(Counting(j))
      /\ RankAt(i) \in Nat /\ RankAt(j) \in Nat
  BY CountingOK
<1>2. i \in Counting(i) /\ i \notin Counting(j) /\ Counting(j) \subseteq Counting(i)
  BY DEF Counting
<1>3. IsFiniteSet(Counting(j) \cup {i}) /\ Cardinality(Counting(j) \cup {i}) = RankAt(j) + 1
  BY <1>1, <1>2, FS_AddElement DEF RankAt
<1>4. Counting(j) \cup {i} \subseteq Counting(i)
  BY <1>2
<1>5. Cardinality(Counting(j) \cup {i}) <= Cardinality(Counting(i))
  BY <1>1, <1>4, FS_Subset
<1> QED
  BY <1>1, <1>3, <1>5 DEF RankAt

(* In a sorted list the places of the podium are taken in the order of the *)
(* list, and nobody gives up a place.                                      *)
PlacesUpTo(podium, i) ==
    /\ DOMAIN podium = 1 .. 3
    /\ \A k \in 1 .. 3 :
          /\ k > RankAt(i) => podium[k] = NoOne
          /\ k <= RankAt(i) =>
                \E j \in Counting(i) : RankAt(j) = k /\ podium[k] = list[j]

LEMMA TurnKeepsPlaces ==
    ASSUME NEW E, NoOne \notin E, list \in Seq(E), arrival \in [E -> Nat], Sorted,
           NEW i \in Nat, i + 1 \in 1 .. Len(list), NEW podium, PlacesUpTo(podium, i)
    PROVE  PlacesUpTo(Turn(podium, list[i + 1], score, arrival), i + 1)
<1> DEFINE e == list[i + 1]
           r == RankAt(i)
<1>1. DOMAIN list = 1 .. Len(list) /\ \A j \in DOMAIN list : list[j] \in E
  OBVIOUS
<1>2. \A j \in 1 .. i : /\ list[j] \in E /\ list[j] # NoOne
                        /\ arrival[list[j]] < arrival[e] /\ arrival[list[j]] \in Nat
  <2> TAKE j \in 1 .. i
  <2>1. j \in DOMAIN list /\ i + 1 \in DOMAIN list /\ j < i + 1
    BY <1>1
  <2> QED
    BY <1>1, <2>1 DEF Sorted
<1>3. e \in E /\ arrival[e] \in Nat
  BY <1>1
<1>4. r \in Nat
  BY CountingOK
<1>5. /\ DOMAIN podium = 1 .. 3
      /\ \A k \in 1 .. 3 : k > r => podium[k] = NoOne
      /\ \A k \in 1 .. 3 : k <= r => \E j \in Counting(i) : RankAt(j) = k /\ podium[k] = list[j]
  BY DEF PlacesUpTo
<1> HIDE DEF e, r
<1>6. CASE ~Counts(e, score, arrival)
  <2>1. Counting(i + 1) = Counting(i) /\ RankAt(i + 1) = RankAt(i)
    BY <1>6, CountingOK DEF e
  <2>2. Turn(podium, e, score, arrival) = podium
    BY <1>6 DEF Turn
  <2> QED
    BY <2>1, <2>2 DEF PlacesUpTo, e
<1>7. CASE Counts(e, score, arrival)
  <2>1. Counting(i + 1) = Counting(i) \cup {i + 1} /\ RankAt(i + 1) = r + 1
    BY <1>7, CountingOK DEF e, r
  <2> DEFINE beaten == Beaten(podium, e, arrival)
             after == Place(podium, e, arrival)
  <2>2. beaten = {k \in 1 .. 3 : k > r}
    <3>1. ASSUME NEW k \in 1 .. 3, k <= r
          PROVE  podium[k] # NoOne /\ ~(arrival[podium[k]] > arrival[e])
      <4>1. PICK j \in Counting(i) : podium[k] = list[j]
        BY <1>5, <3>1
      <4>2. j \in 1 .. i
        BY DEF Counting
      <4> QED
        BY <1>2, <1>3, <4>1, <4>2
    <3>2. \A k \in 1 .. 3 : k <= r \/ k > r
      BY <1>4
    <3>3. \A k \in 1 .. 3 : k > r => ~(k <= r) /\ podium[k] = NoOne
      BY <1>4, <1>5
    <3> QED
      BY <3>1, <3>2, <3>3 DEF Beaten
  <2>3. /\ DOMAIN after = 1 .. 3
        /\ \A k \in 1 .. 3 : after[k] = IF k = r + 1 THEN e ELSE podium[k]
    <3>1. CASE r >= 3
      <4>1. beaten = {} /\ \A k \in 1 .. 3 : k # r + 1
        BY <1>4, <2>2, <3>1
      <4> QED
        BY <1>5, <4>1 DEF Place
    <3>2. CASE r < 3
      <4>1. r + 1 \in beaten /\ beaten \in SUBSET Nat /\ \A k \in beaten : r + 1 <= k
        BY <1>4, <2>2, <3>2
      <4> HIDE DEF beaten
      <4>2. Min(beaten) \in beaten /\ Min(beaten) <= r + 1
        BY <4>1, MinOfNat
      <4>3. Min(beaten) = r + 1
        <5>1. Min(beaten) \in Nat /\ r + 1 <= Min(beaten)
          BY <4>1, <4>2
        <5> QED
          BY <1>4, <4>2, <5>1
      <4>4. after = [podium EXCEPT ![r + 1] = e]
        BY <4>1, <4>3 DEF Place, beaten
      <4> QED
        BY <1>5, <4>4
    <3> QED
      BY <1>4, <3>1, <3>2
  <2> HIDE DEF beaten, after
  <2>4. ASSUME NEW k \in 1 .. 3, k > r + 1
        PROVE  after[k] = NoOne
    BY <1>4, <1>5, <2>3, <2>4
  <2>5. ASSUME NEW k \in 1 .. 3, k <= r + 1
        PROVE  \E j \in Counting(i + 1) : RankAt(j) = k /\ after[k] = list[j]
    <3>1. CASE k = r + 1
      BY <2>1, <2>3, <3>1 DEF e
    <3>2. CASE k # r + 1
      BY <1>4, <1>5, <2>1, <2>3, <2>5, <3>2
    <3> QED
      BY <3>1, <3>2
  <2>6. PlacesUpTo(after, i + 1)
    BY <2>1, <2>3, <2>4, <2>5 DEF PlacesUpTo
  <2> QED
    BY <1>7, <2>6 DEF Turn, after, e
<1> QED
  BY <1>6, <1>7

LEMMA PodiumOfSorted ==
    ASSUME NEW E, NoOne \notin E, list \in Seq(E), arrival \in [E -> Nat], Sorted
    PROVE  PlacesUpTo(Podium(list, score, arrival), Len(list))
<1> DEFINE n == Len(list)
<1>1. PICK f : Run(f, list, score, arrival) /\ f[n] = Podium(list, score, arrival)
  BY PodiumRuns
<1> DEFINE P == {i \in 0 .. n : PlacesUpTo(f[i], i)}
<1>2. n \in Nat
  OBVIOUS
<1>3. 0 \in P
  <2>1. f[0] = <<NoOne, NoOne, NoOne>> /\ RankAt(0) = 0
    BY <1>1, CountingOK DEF Run
  <2>2. PlacesUpTo(f[0], 0)
    BY <2>1 DEF PlacesUpTo
  <2> QED
    BY <1>2, <2>2
<1>4. ASSUME NEW i \in 0 .. n, i \in P, i < n
      PROVE  i + 1 \in P
  <2>1. PlacesUpTo(f[i], i) /\ i \in Nat /\ i \in 0 .. n - 1 /\ i + 1 \in 1 .. n
    BY <1>2, <1>4
  <2>2. f[i + 1] = Turn(f[i], list[i + 1], score, arrival)
    BY <1>1, <2>1 DEF Run
  <2>3. PlacesUpTo(f[i + 1], i + 1)
    BY <2>1, <2>2, TurnKeepsPlaces
  <2> QED
    BY <2>1, <2>3
<1> HIDE DEF P
<1>5. 0 .. n \subseteq P
  BY <1>2, <1>3, <1>4, ThroughList
<1> QED
  BY <1>1, <1>2, <1>5 DEF P

(* The rank of who counts, in a sorted list.                               *)
LEMMA RankOfSorted ==
    ASSUME NEW E, list \in Seq(E), arrival \in [E -> Nat], Sorted,
           NEW j \in DOMAIN list, Counts(list[j], score, arrival)
    PROVE  RankAt(j) = Cardinality(Faster(list[j])) + 1
<1>1. /\ DOMAIN list = 1 .. Len(list) /\ Len(list) \in Nat
      /\ \A k \in DOMAIN list : list[k] \in E /\ arrival[list[k]] \in Nat
  OBVIOUS
<1>2. j \in Nat /\ j - 1 \in Nat /\ (j - 1) + 1 = j
  BY <1>1
<1>3. \A k, m \in DOMAIN list : arrival[list[k]] < arrival[list[m]] <=> k < m
  <2> TAKE k, m \in DOMAIN list
  <2>1. arrival[list[k]] \in Nat /\ arrival[list[m]] \in Nat
    BY <1>1
  <2>2. k < m => arrival[list[k]] < arrival[list[m]]
    BY DEF Sorted
  <2>3. m < k => arrival[list[m]] < arrival[list[k]]
    BY DEF Sorted
  <2>4. k < m \/ m < k \/ k = m
    BY <1>1
  <2> QED
    BY <1>1, <2>1, <2>2, <2>3, <2>4
<1> DEFINE S == Counting(j - 1)
           g == [k \in S |-> list[k]]
<1>4. S \subseteq DOMAIN list /\ \A k \in S : k < j
  BY <1>1, <1>2 DEF Counting
<1>5. \A k \in DOMAIN list : k < j /\ Counts(list[k], score, arrival) => k \in S
  BY <1>1, <1>2 DEF Counting
<1>6. Faster(list[j]) = {list[k] : k \in S}
  <2>1. ASSUME NEW k \in S
        PROVE  list[k] \in Faster(list[j])
    <3>1. Counts(list[k], score, arrival)
      BY DEF Counting
    <3> QED
      BY <1>3, <1>4, <3>1 DEF Faster, Counted, ToSet
  <2>2. ASSUME NEW f \in Faster(list[j])
        PROVE  \E k \in S : f = list[k]
    BY <1>3, <1>5 DEF Faster, Counted, ToSet
  <2> QED
    BY <2>1, <2>2
<1>7. \A k, m \in S : list[k] = list[m] => k = m
  BY <1>1, <1>3, <1>4
<1>8. IsFiniteSet(S) /\ Cardinality(S) = RankAt(j - 1)
  BY <1>2, CountingOK DEF RankAt
<1> HIDE DEF S
<1>9. g \in Bijection(S, Faster(list[j]))
  <2>1. g \in [S -> Faster(list[j])] /\ \A k \in S : g[k] = list[k]
    BY <1>6
  <2>2. \A f \in Faster(list[j]) : \E k \in S : g[k] = f
    BY <1>6, <2>1
  <2>3. \A k, m \in S : g[k] = g[m] => k = m
    BY <1>7, <2>1
  <2> HIDE DEF g
  <2>4. IsInjective(g)
    BY <2>1, <2>3 DEF IsInjective
  <2> QED
    BY <2>1, <2>2, <2>4 DEF Bijection, Injection, Surjection
<1>10. Cardinality(Faster(list[j])) = Cardinality(S)
  BY <1>8, <1>9, FS_Bijection DEF ExistsBijection
<1> QED
  BY <1>2, <1>8, <1>10, CountingOK

(* In a sorted list each of the first three that count has the prize of    *)
(* its rank, whatever the points and the times.                            *)
LEMMA FairWhenSorted ==
    ASSUME NEW E, NoOne \notin E, list \in Seq(E), arrival \in [E -> Nat]
    PROVE  SortedIsFair
<1> SUFFICES ASSUME Sorted, NEW e \in Counted
             PROVE  LET rank == Cardinality(Faster(e)) + 1
                    IN  Bonus(e) = IF rank <= 3 THEN Prizes(Len(list))[rank] ELSE 0
  BY DEF SortedIsFair, Sorted
<1> DEFINE n == Len(list)
           podium == Podium(list, score, arrival)
           places == {k \in 1 .. 3 : podium[k] = e}
<1>1. n \in Nat /\ DOMAIN list = 1 .. n /\ \A k \in DOMAIN list : list[k] \in E
  OBVIOUS
<1>2. PICK j \in DOMAIN list : e = list[j] /\ Counts(list[j], score, arrival)
  BY DEF Counted, ToSet
<1>3. j <= n /\ j \in Nat /\ RankAt(n) \in Nat
  <2>1. n \in Nat /\ j \in 1 .. n
    BY <1>1
  <2>2. RankAt(n) \in Nat
    BY <2>1, CountingOK
  <2> HIDE DEF n
  <2> QED
    BY <2>1, <2>2
<1>4. PlacesUpTo(podium, n)
  BY PodiumOfSorted
<1>5. RankAt(j) = Cardinality(Faster(e)) + 1 /\ RankAt(j) \in Nat
  <2>1. RankAt(j) = Cardinality(Faster(list[j])) + 1
    BY <1>2, RankOfSorted
  <2> QED
    BY <1>2, <1>3, <2>1, CountingOK
<1>6. RankAt(j) <= RankAt(n) /\ RankAt(j) >= 1
  <2>1. Counting(j) \subseteq Counting(n) /\ IsFiniteSet(Counting(n))
    BY <1>1, <1>3, CountingOK DEF Counting
  <2>2. RankAt(j) <= RankAt(n)
    BY <2>1, FS_Subset DEF RankAt
  <2>3. j > 0 /\ 0 \in Nat
    BY <1>1
  <2>4. RankAt(0) < RankAt(j) /\ RankAt(0) = 0
    BY <1>2, <1>3, <2>3, RanksGrow, CountingOK
  <2> QED
    BY <1>5, <2>2, <2>4
<1>7. \A k \in DOMAIN list : Counts(list[k], score, arrival) /\ RankAt(k) = RankAt(j) => k = j
  <2> SUFFICES ASSUME NEW k \in DOMAIN list, Counts(list[k], score, arrival), k # j
               PROVE  RankAt(k) # RankAt(j)
    OBVIOUS
  <2>1. k \in Nat /\ (k < j \/ j < k)
    BY <1>1, <1>3
  <2>2. RankAt(k) \in Nat
    BY <2>1, CountingOK
  <2> QED
    BY <1>2, <1>3, <1>5, <2>1, <2>2, RanksGrow
<1>8. \A k \in DOMAIN list : list[k] = e => k = j
  BY <1>1, <1>2 DEF Sorted
<1>9. \A k \in 1 .. 3 : podium[k] = e <=> k = RankAt(j)
  <2> TAKE k \in 1 .. 3
  <2>1. CASE k > RankAt(n)
    BY <1>1, <1>2, <1>3, <1>4, <1>5, <1>6, <2>1 DEF PlacesUpTo
  <2>2. CASE k <= RankAt(n)
    <3>1. PICK m \in Counting(n) : RankAt(m) = k /\ podium[k] = list[m]
      BY <1>4, <2>2 DEF PlacesUpTo
    <3>2. m \in DOMAIN list /\ Counts(list[m], score, arrival)
      BY <1>1 DEF Counting
    <3> QED
      BY <1>2, <1>7, <1>8, <3>1, <3>2
  <2> QED
    BY <1>3, <2>1, <2>2
<1>10. Bonus(e) = IF places = {} THEN 0 ELSE Prizes(n)[Min(places)]
  BY DEF Bonus, TimeBonus
<1>11. CASE RankAt(j) <= 3
  <2>1. places = {RankAt(j)}
    BY <1>5, <1>6, <1>9, <1>11
  <2>2. {RankAt(j)} \in SUBSET Nat
    BY <1>5
  <2>3. Min({RankAt(j)}) \in {RankAt(j)}
    BY <2>2, MinOfNat
  <2> HIDE DEF places
  <2> QED
    BY <1>5, <1>10, <1>11, <2>1, <2>3
<1>12. CASE ~(RankAt(j) <= 3)
  <2>1. places = {}
    BY <1>5, <1>9, <1>12
  <2> HIDE DEF places
  <2> QED
    BY <1>5, <1>10, <1>12, <2>1
<1> QED
  BY <1>11, <1>12

-----------------------------------------------------------------------------
(* CRunningSessionState::update(): at any moment of any game, were it to   *)
(* end, the largest bonus would go to a fastest of those who count, every  *)
(* other would have less or as much as the second prize, and who does not  *)
(* count would have none.                                                  *)
THEOREM FastestHasFirstPrize == Spec => []FastestIsFirst
<1>1. IInv => FastestIsFirst
  <2>1. TypeOK => arrival \in [Entity -> Nat] /\ list \in Seq(Entity)
    BY ScoresAssumption DEF TypeOK
  <2> QED
    BY <2>1, FastestOfAnyList, ScoresAssumption DEF IInv
<1> QED
  BY <1>1, Inductive, PTL

(* When the list happens to be in the order of arrival, the three best     *)
(* have the prizes of their ranks: it is the order of the list that makes  *)
(* the pass of CRunningSessionState::update() unfair, and nothing else.    *)
THEOREM SortedListIsFair == Spec => []SortedIsFair
<1>1. IInv => SortedIsFair
  <2>1. TypeOK => arrival \in [Entity -> Nat] /\ list \in Seq(Entity)
    BY ScoresAssumption DEF TypeOK
  <2> QED
    BY <2>1, FairWhenSorted, ScoresAssumption DEF IInv
<1> QED
  BY <1>1, Inductive, PTL
=============================================================================
