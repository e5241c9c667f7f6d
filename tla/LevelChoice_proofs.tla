------------------------- MODULE LevelChoice_proofs -------------------------
(***************************************************************************)
(* Machine-checked proofs about LevelChoice: for any number of players,    *)
(* levels and names, a level that has enough votes and more than any other *)
(* is the next one, an announced level is the next one where one order of  *)
(* the levels is all there is, and the rotation keeps its order where      *)
(* NextLevelId wraps to the beginning of the list.                         *)
(***************************************************************************)
EXTENDS LevelChoice, FiniteSetTheorems, WellFoundedInduction, TLAPS

-----------------------------------------------------------------------------
(* Numbers: the least of a set, the greatest, and going through a list.    *)
LEMMA LeastNat ==
    ASSUME NEW T \in SUBSET Nat, T # {}
    PROVE  \E n \in T : \A m \in T : n <= m
<1> DEFINE R == OpToRel(<, Nat)
<1>1. IsWellFoundedOn(R, Nat)
  BY NatLessThanWellFounded
<1>2. \A x, y \in Nat : <<y, x>> \in R <=> y < x
  BY DEF OpToRel
<1> HIDE DEF R
<1>3. PICK x \in T : \A y \in T : ~(<<y, x>> \in R)
  BY <1>1, WFMin
<1>4. \A y \in T : ~(y < x)
  BY <1>2, <1>3
<1> QED
  BY <1>4

(* The least element of a set of numbers is the one that Min chooses.      *)
LEMMA MinOfNat ==
    ASSUME NEW T \in SUBSET Nat, T # {}
    PROVE  Min(T) \in T /\ \A m \in T : Min(T) <= m
<1>1. \E n \in T : \A m \in T : n <= m
  BY LeastNat
<1> QED
  BY <1>1 DEF Min

(* And a least element is that one.                                        *)
LEMMA MinIs ==
    ASSUME NEW T \in SUBSET Nat, NEW n \in T, \A m \in T : n <= m
    PROVE  Min(T) = n
<1> DEFINE k == Min(T)
<1>1. k \in T /\ \A m \in T : k <= m
  BY MinOfNat
<1> HIDE DEF k
<1>2. k = n
  BY <1>1
<1> QED
  BY <1>2 DEF k

(* Of numbers up to n Max chooses the greatest.                            *)
LEMMA MaxOfNat ==
    ASSUME NEW n \in Nat, NEW T \in SUBSET (1 .. n), T # {}
    PROVE  Max(T) \in T /\ \A m \in T : Max(T) >= m
<1> DEFINE D == {n - x : x \in T}
<1>1. D \in SUBSET Nat /\ D # {}
  <2>1. \A x \in T : n - x \in Nat
    OBVIOUS
  <2> QED
    BY <2>1
<1>2. PICK d \in D : \A c \in D : d <= c
  BY <1>1, LeastNat
<1>3. PICK y \in T : d = n - y
  OBVIOUS
<1>4. \A x \in T : n - y <= n - x
  BY <1>2, <1>3
<1>5. \A x \in T : y >= x
  BY <1>4
<1> QED
  BY <1>5 DEF Max

LEMMA MaxUpTo ==
    ASSUME NEW m \in Nat, NEW T \in SUBSET (1 .. m + 1), m + 1 \in T
    PROVE  Max(T) = m + 1
<1>1. m + 1 \in Nat /\ T # {}
  OBVIOUS
<1>2. Max(T) \in T /\ Max(T) >= m + 1
  BY <1>1, MaxOfNat
<1>3. Max(T) \in 1 .. m + 1
  BY <1>2
<1> QED
  BY <1>2, <1>3

LEMMA UpTo ==
    ASSUME NEW m \in Nat
    PROVE  1 .. m + 1 # {} /\ Max(1 .. m + 1) = m + 1 /\ (1 .. m + 1) \ {m + 1} = 1 .. m
<1>1. m + 1 \in 1 .. m + 1
  OBVIOUS
<1>2. Max(1 .. m + 1) = m + 1
  BY <1>1, MaxUpTo
<1>3. (1 .. m + 1) \ {m + 1} = 1 .. m
  OBVIOUS
<1> QED
  BY <1>1, <1>2, <1>3

(* What holds at the beginning of a list, and one place further wherever   *)
(* it holds, holds up to its end.                                          *)
LEMMA ThroughList ==
    ASSUME NEW n \in Nat, NEW P, 0 \in P, \A i \in 0 .. n : i \in P /\ i < n => i + 1 \in P
    PROVE  0 .. n \subseteq P
<1> DEFINE T == {i \in 0 .. n : i \notin P}
<1> SUFFICES ASSUME T # {}
             PROVE  FALSE
  OBVIOUS
<1>1. T \in SUBSET Nat
  OBVIOUS
<1>2. PICK i \in T : \A j \in T : i <= j
  BY <1>1, LeastNat
<1>3. i # 0 /\ i \in 0 .. n
  OBVIOUS
<1>4. i - 1 \in 0 .. n /\ i - 1 < n /\ (i - 1) + 1 = i
  BY <1>3
<1>5. i - 1 \in P
  BY <1>2, <1>4
<1>6. (i - 1) + 1 \in P
  BY <1>4, <1>5
<1> QED
  BY <1>4, <1>6

-----------------------------------------------------------------------------
(* FoldLeft() of the community modules folds over the subsets of 1 .. n,   *)
(* and takes the greatest element of each last: there is a function that   *)
(* its recursion defines.  g[b, i] is the result of the i-th turn.         *)
Folds(it, base, g, m) ==
    \A S \in SUBSET (1 .. m) :
       it[S] = IF S = {} THEN base ELSE g[it[S \ {Max(S)}], Max(S)]

CanFold(B, base, g, m) == \E it \in [SUBSET (1 .. m) -> B] : Folds(it, base, g, m)

LEMMA FoldExists ==
    ASSUME NEW B, NEW base \in B, NEW n \in Nat, NEW g \in [B \X (1 .. n) -> B]
    PROVE  \E it \in [SUBSET (1 .. n) -> B] : Folds(it, base, g, n)
<1> DEFINE P == {m \in 0 .. n : CanFold(B, base, g, m)}
<1>1. 0 \in P
  <2> DEFINE it == [S \in SUBSET (1 .. 0) |-> base]
  <2>1. \A S \in SUBSET (1 .. 0) : S = {}
    OBVIOUS
  <2>2. it \in [SUBSET (1 .. 0) -> B] /\ Folds(it, base, g, 0)
    BY <2>1 DEF Folds
  <2> QED
    BY <2>2 DEF CanFold
<1>2. ASSUME NEW m \in 0 .. n, m \in P, m < n
      PROVE  m + 1 \in P
  <2>1. PICK it \in [SUBSET (1 .. m) -> B] : Folds(it, base, g, m)
    BY <1>2 DEF CanFold
  <2> DEFINE jt == [S \in SUBSET (1 .. m + 1) |->
                      IF m + 1 \in S THEN g[it[S \ {m + 1}], m + 1] ELSE it[S]]
  <2>2. m + 1 \in 1 .. n /\ m \in Nat
    <3> HIDE DEF P, jt
    <3> QED
      BY <1>2
  <2>3. \A S \in SUBSET (1 .. m + 1) : S \ {m + 1} \in SUBSET (1 .. m)
    BY <2>2
  <2>4. \A S \in SUBSET (1 .. m + 1) : m + 1 \notin S => S \in SUBSET (1 .. m)
    BY <2>2
  <2>5. \A b \in B : g[b, m + 1] \in B
    BY <2>2
  <2>6. jt \in [SUBSET (1 .. m + 1) -> B]
    BY <2>3, <2>4, <2>5
  <2>7. ASSUME NEW S \in SUBSET (1 .. m + 1)
        PROVE  jt[S] = IF S = {} THEN base ELSE g[jt[S \ {Max(S)}], Max(S)]
    <3>1. CASE m + 1 \in S
      <4>1. Max(S) = m + 1 /\ S # {}
        BY <2>2, <3>1, MaxUpTo
      <4>2. jt[S] = g[it[S \ {m + 1}], m + 1]
        BY <3>1
      <4>3. S \ {m + 1} \in SUBSET (1 .. m + 1) /\ m + 1 \notin S \ {m + 1}
        OBVIOUS
      <4>4. jt[S \ {m + 1}] = it[S \ {m + 1}]
        BY <4>3
      <4> QED
        BY <4>1, <4>2, <4>4
    <3>2. CASE m + 1 \notin S
      <4>1. S \in SUBSET (1 .. m) /\ jt[S] = it[S]
        BY <2>4, <3>2
      <4>2. it[S] = IF S = {} THEN base ELSE g[it[S \ {Max(S)}], Max(S)]
        BY <2>1, <4>1 DEF Folds
      <4>3. S \ {Max(S)} \in SUBSET (1 .. m + 1) /\ m + 1 \notin S \ {Max(S)}
        BY <3>2
      <4>4. jt[S \ {Max(S)}] = it[S \ {Max(S)}]
        BY <4>3
      <4> QED
        BY <4>1, <4>2, <4>4
    <3> QED
      BY <3>1, <3>2
  <2>8. Folds(jt, base, g, m + 1)
    BY <2>7 DEF Folds
  <2>9. CanFold(B, base, g, m + 1)
    BY <2>6, <2>8 DEF CanFold
  <2> QED
    BY <2>2, <2>9
<1> HIDE DEF P
<1>3. 0 .. n \subseteq P
  BY <1>1, <1>2, ThroughList
<1>4. n \in P
  BY <1>3
<1> QED
  BY <1>4 DEF P, CanFold

-----------------------------------------------------------------------------
(* Division with remainder.                                                *)
LEMMA Remainder ==
    ASSUME NEW m \in Nat \ {0}, NEW p \in Nat
    PROVE  /\ p \div m \in Nat /\ p % m \in Nat /\ p % m < m
           /\ p = m * (p \div m) + (p % m)
BY Z3

(* A remainder is told by its size, whatever it is the remainder of.       *)
LEMMA RemainderIs ==
    ASSUME NEW m \in Nat \ {0}, NEW p \in Nat, NEW q \in Int, NEW r \in Nat,
           r < m, p = m * q + r
    PROVE  p % m = r
<1>1. /\ p \div m \in Nat /\ p % m \in Nat /\ p % m < m
      /\ p = m * (p \div m) + (p % m)
  BY Remainder
<1>2. m * (q - (p \div m)) = (p % m) - r
  BY <1>1
<1> DEFINE d == q - (p \div m)
<1>3. d \in Int /\ m * d < m /\ m * d > -m
  BY <1>1, <1>2
<1> HIDE DEF d
<1>4. d = 0
  <2>1. d >= 1 => m * d >= m
    BY <1>3
  <2>2. d <= -1 => m * d <= -m
    BY <1>3
  <2> QED
    BY <1>3, <2>1, <2>2
<1> QED
  BY <1>1, <1>2, <1>4 DEF d

(* Numbers that are below the modulus are their own remainders.            *)
LEMMA RemainderOfSmall ==
    ASSUME NEW m \in Nat \ {0}, NEW p \in Nat, p < m
    PROVE  p % m = p
<1>1. p = m * 0 + p
  OBVIOUS
<1> QED
  BY <1>1, RemainderIs

(* Steps further from a remainder, and the wrap of a number that counts    *)
(* rounds of the other exactly.                                            *)
LEMMA RemainderOfSum ==
    ASSUME NEW m \in Nat \ {0}, NEW p \in Nat, NEW k \in Nat
    PROVE  ((p % m) + k) % m = (p + k) % m
<1> DEFINE q == p \div m
           r == p % m
           s == (r + k) \div m
           t == (r + k) % m
<1>1. q \in Nat /\ r \in Nat /\ r < m /\ p = m * q + r
  BY Remainder
<1>2. r + k \in Nat
  BY <1>1
<1>3. s \in Nat /\ t \in Nat /\ t < m /\ r + k = m * s + t
  BY <1>2, Remainder
<1> HIDE DEF q, r, s, t
<1>4. p + k = m * (q + s) + t
  BY <1>1, <1>3
<1>5. (p + k) % m = t
  <2>1. p + k \in Nat /\ q + s \in Int
    BY <1>1, <1>3
  <2> QED
    BY <1>3, <1>4, <2>1, RemainderIs
<1> QED
  BY <1>5 DEF t, r

LEMMA RemainderOfRemainder ==
    ASSUME NEW c \in Nat \ {0}, NEW m \in Nat \ {0}, m % c = 0, NEW p \in Nat
    PROVE  (p % m) % c = p % c
<1> DEFINE q == p \div m
           r == p % m
           s == r \div c
           t == r % c
           n == m \div c
<1>1. q \in Nat /\ r \in Nat /\ p = m * q + r
  BY Remainder
<1>2. s \in Nat /\ t \in Nat /\ t < c /\ r = c * s + t
  BY <1>1, Remainder
<1>3. n \in Nat /\ m = c * n
  BY Remainder
<1> HIDE DEF q, r, s, t, n
<1>4. m * q = c * (n * q) /\ n * q \in Nat
  BY <1>1, <1>3
<1> DEFINE nq == n * q
<1>5. nq \in Nat /\ m * q = c * nq
  BY <1>4
<1> HIDE DEF nq
<1>6. p = c * (nq + s) + t /\ nq + s \in Int
  BY <1>1, <1>2, <1>5
<1>7. p % c = t
  BY <1>2, <1>6, RemainderIs
<1> QED
  BY <1>7 DEF t, r

-----------------------------------------------------------------------------
(* The levels, and the first of them that a name matches.                  *)
LEMMA FirstOfIs ==
    ASSUME NEW T, NEW S, NEW s \in Seq(S)
    PROVE  /\ FirstOf(T, s) \in Nat /\ FirstOf(T, s) <= Len(s)
           /\ FirstOf(T, s) = 0 => \A i \in 1 .. Len(s) : s[i] \notin T
           /\ FirstOf(T, s) # 0 =>
                 /\ s[FirstOf(T, s)] \in T
                 /\ \A i \in 1 .. Len(s) : s[i] \in T => FirstOf(T, s) <= i
<1> DEFINE I == {i \in 1 .. Len(s) : s[i] \in T}
<1>1. FirstOf(T, s) = IF I # {} THEN Min(I) ELSE 0
  BY DEF FirstOf, SelectInSeq
<1>2. I \in SUBSET Nat /\ Len(s) \in Nat
  OBVIOUS
<1>3. CASE I = {}
  BY <1>1, <1>2, <1>3
<1>4. CASE I # {}
  <2>1. FirstOf(T, s) \in I /\ \A i \in I : FirstOf(T, s) <= i
    BY <1>1, <1>2, <1>4, MinOfNat
  <2> QED
    BY <1>2, <2>1
<1> QED
  BY <1>3, <1>4

LEMMA FirstMatchIs ==
    ASSUME NEW m, NEW S, NEW s \in Seq(S)
    PROVE  /\ FirstMatch(m, s) \in Nat /\ FirstMatch(m, s) <= Len(s)
           /\ FirstMatch(m, s) = 0 => \A i \in 1 .. Len(s) : s[i] \notin Matches[m]
           /\ FirstMatch(m, s) # 0 =>
                 /\ s[FirstMatch(m, s)] \in Matches[m]
                 /\ \A i \in 1 .. Len(s) : s[i] \in Matches[m] => FirstMatch(m, s) <= i
BY FirstOfIs DEF FirstMatch

(* An entry of the playlist adds the first file it matches, or none.       *)
Taken(found, entry) ==
    IF FirstOf(entry, Files) = 0 THEN found
    ELSE Append(found, Files[FirstOf(entry, Files)])

LEMMA TakenIs ==
    ASSUME NEW found \in Seq(Level), NEW entry
    PROVE  Taken(found, entry) \in Seq(Level)
<1>1. Files \in Seq(Level)
  BY LevelChoiceAssumption
<1>2. FirstOf(entry, Files) # 0 => FirstOf(entry, Files) \in 1 .. Len(Files)
  BY <1>1, FirstOfIs
<1>3. FirstOf(entry, Files) # 0 => Files[FirstOf(entry, Files)] \in Level
  BY <1>1, <1>2
<1> QED
  BY <1>3 DEF Taken

(* So the playlist gives files, however many of its entries match.         *)
LEMMA PlaylistOK == PlaylistLevels \in Seq(Level)
<1> DEFINE n == Len(Playlist)
           g == [x \in Seq(Level) \X (1 .. n) |-> Taken(x[1], Playlist[x[2]])]
           F(it) == [S \in SUBSET (DOMAIN Playlist) |->
                       IF S = {} THEN <<>>
                       ELSE Taken(it[S \ {Max(S)}], Playlist[Max(S)])]
           it == CHOOSE it : it = F(it)
<1>1. <<>> \in Seq(Level) /\ n \in Nat /\ DOMAIN Playlist = 1 .. n
  BY LevelChoiceAssumption
<1>2. g \in [Seq(Level) \X (1 .. n) -> Seq(Level)]
  BY TakenIs
<1>3. PICK h \in [SUBSET (1 .. n) -> Seq(Level)] : Folds(h, <<>>, g, n)
  BY <1>1, <1>2, FoldExists
<1>4. h = F(h)
  <2>1. ASSUME NEW S \in SUBSET (1 .. n)
        PROVE  h[S] = IF S = {} THEN <<>>
                      ELSE Taken(h[S \ {Max(S)}], Playlist[Max(S)])
    <3>1. CASE S = {}
      BY <1>3, <3>1 DEF Folds
    <3>2. CASE S # {}
      <4>1. h[S] = g[h[S \ {Max(S)}], Max(S)] /\ h[S \ {Max(S)}] \in Seq(Level)
        BY <1>3, <3>2 DEF Folds
      <4>2. Max(S) \in 1 .. n
        BY <1>1, <3>2, MaxOfNat
      <4> QED
        BY <3>2, <4>1, <4>2
    <3> QED
      BY <3>1, <3>2
  <2> QED
    BY <1>1, <2>1
<1>5. it = F(it)
  BY <1>4
<1>6. PlaylistLevels = it[DOMAIN Playlist]
  BY DEF PlaylistLevels, FoldLeft, MapThenFoldSet, Taken
<1> HIDE DEF it
<1> DEFINE P == {i \in 0 .. n : it[1 .. i] \in Seq(Level)}
<1>7. 0 \in P
  BY <1>1, <1>5
<1>8. ASSUME NEW i \in 0 .. n, i \in P, i < n
      PROVE  i + 1 \in P
  <2>1. i \in Nat /\ 1 .. i + 1 \in SUBSET (DOMAIN Playlist) /\ i + 1 \in 0 .. n
    BY <1>1, <1>8
  <2>2. 1 .. i + 1 # {} /\ Max(1 .. i + 1) = i + 1 /\ (1 .. i + 1) \ {i + 1} = 1 .. i
    BY <2>1, UpTo
  <2>3. it[1 .. i + 1] = Taken(it[1 .. i], Playlist[i + 1])
    BY <1>5, <2>1, <2>2
  <2> QED
    BY <1>8, <2>1, <2>3, TakenIs
<1> HIDE DEF P
<1>9. 0 .. n \subseteq P
  BY <1>1, <1>7, <1>8, ThroughList
<1>10. n \in P
  BY <1>1, <1>9
<1> QED
  BY <1>1, <1>6, <1>10 DEF P

LEMMA LevelsOK ==
    /\ Levels \in Seq(Level)
    /\ Count \in Nat \ {0} /\ Modulus \in Nat \ {0} /\ Count <= Modulus
    /\ \A i \in 1 .. Count : Levels[i] \in Level /\ Levels[i] \in ToSet(Levels)
    /\ \A l \in ToSet(Levels) : \E i \in 1 .. Count : l = Levels[i]
    /\ \E i \in 1 .. Count : Levels[i] \in Loads
<1>1. Levels \in Seq(Level) /\ Len(Levels) # 0
  BY PlaylistOK, LevelChoiceAssumption DEF Levels
<1>2. Count \in Nat \ {0} /\ DOMAIN Levels = 1 .. Count
  BY <1>1 DEF Count
<1>3. \A i \in 1 .. Count : Levels[i] \in Level /\ Levels[i] \in ToSet(Levels)
  BY <1>1, <1>2 DEF ToSet
<1>4. \A l \in ToSet(Levels) : \E i \in 1 .. Count : l = Levels[i]
  BY <1>2 DEF ToSet
<1>5. Modulus \in Nat /\ Count <= Modulus /\ Loads \cap ToSet(Levels) # {}
  BY LevelChoiceAssumption DEF Count
<1> QED
  BY <1>1, <1>2, <1>3, <1>4, <1>5

(* A wish is the first place that matches it, or none.                     *)
LEMMA PlaceIs ==
    ASSUME NEW m
    PROVE  /\ Place(m) \in Nat /\ Place(m) <= Count
           /\ Place(m) # 0 => m # None /\ Place(m) = FirstMatch(m, Levels)
           /\ Place(m) # 0 => Levels[Place(m)] \in Matches[m]
           /\ Place(m) # 0 =>
                 \A i \in 1 .. Count : Levels[i] \in Matches[m] => Place(m) <= i
BY LevelsOK, FirstMatchIs DEF Place, Count

(* Two wishes that are one level are one place.                            *)
LEMMA OnePlace ==
    ASSUME NEW m, NEW n, Place(m) # 0, Place(n) # 0, Levels[Place(m)] = Levels[Place(n)]
    PROVE  Place(m) = Place(n)
<1>1. Place(m) \in 1 .. Count /\ Place(n) \in 1 .. Count
  BY PlaceIs, LevelsOK
<1>2. Place(m) <= Place(n) /\ Place(n) <= Place(m)
  BY <1>1, PlaceIs
<1> QED
  BY <1>1, <1>2

(* findAndForceMap() looks in one place where newLevel() looks, too: there *)
(* is no playlist, or every name matches one file, and every file that an  *)
(* entry of the playlist matches is one of those newLevel() takes.         *)
OneOrder ==
    \/ Playlist = <<>>
    \/ /\ \A m \in Pattern : \A f, g \in Matches[m] : f = g
       /\ \A i \in DOMAIN Playlist : Playlist[i] \subseteq ToSet(Levels)

LEMMA NoPlaylistLevels ==
    ASSUME Playlist = <<>>
    PROVE  Levels = Files
<1> DEFINE F(it) == [S \in SUBSET {} |->
                       IF S = {} THEN <<>>
                       ELSE Taken(it[S \ {Max(S)}], Playlist[Max(S)])]
           it == CHOOSE it : it = F(it)
<1>1. [S \in SUBSET {} |-> <<>>] = F([S \in SUBSET {} |-> <<>>])
  OBVIOUS
<1>2. it = F(it)
  BY <1>1
<1>3. DOMAIN Playlist = {}
  OBVIOUS
<1>4. PlaylistLevels = it[{}]
  BY <1>3 DEF PlaylistLevels, FoldLeft, MapThenFoldSet, Taken
<1> HIDE DEF it
<1>5. PlaylistLevels = <<>>
  BY <1>2, <1>4
<1> QED
  BY <1>5 DEF Levels

(* findAndForceMap() accepts only a name that some file has.               *)
LEMMA AcceptedIs ==
    ASSUME NEW m \in Pattern, Accepted(m)
    PROVE  /\ FirstMatch(m, Files) \in 1 .. Len(Files)
           /\ Found(m) \in Level /\ Found(m) \in Loads /\ Found(m) \in Matches[m]
<1>1. Files \in Seq(Level)
  BY LevelChoiceAssumption
<1>2. /\ FirstMatch(m, Files) \in 1 .. Len(Files)
      /\ Found(m) \in Matches[m]
  BY <1>1, FirstMatchIs DEF Accepted, Found
<1>3. Found(m) \in Level
  BY <1>1, <1>2 DEF Found
<1> QED
  BY <1>2, <1>3 DEF Accepted

(* And one that newLevel() will find, if both look in one place.           *)
LEMMA AcceptedIsFound ==
    ASSUME OneOrder, NEW m \in Pattern, Accepted(m)
    PROVE  Place(m) # 0
<1>1. \E i \in 1 .. Count : Levels[i] = Found(m)
  <2>1. CASE Playlist = <<>>
    BY <2>1, NoPlaylistLevels, AcceptedIs DEF Found, Count
  <2>2. CASE Playlist # <<>>
    <3>1. Found(m) \in ToSet(Levels)
      BY <2>2 DEF OneOrder, Accepted
    <3> QED
      BY <3>1, LevelsOK
  <2> QED
    BY <2>1, <2>2
<1>2. FirstMatch(m, Levels) # 0
  BY <1>1, AcceptedIs, LevelsOK, FirstMatchIs DEF Count
<1> QED
  BY <1>2, LevelChoiceAssumption DEF Place

-----------------------------------------------------------------------------
(* The count of the votes, one entity after the other.                     *)
Ballots == [count : [0 .. Count -> Nat], max : Nat, best : Nat]
NoVotes == [count |-> [j \in 0 .. Count |-> 0], max |-> 0, best |-> 0]

CountsRun(f) ==
    /\ f[0] = NoVotes
    /\ \A i \in 0 .. Len(list) - 1 : f[i + 1] = CountVote(f[i], voteMap[list[i + 1]])

(* What a vote makes of the count.                                         *)
LEMMA CountVoteIs ==
    ASSUME NEW b \in Ballots, NEW m
    PROVE  LET j == Place(m)
               r == CountVote(b, m)
           IN  /\ r \in Ballots
               /\ j = 0 => r = b
               /\ \A i \in 1 .. Count :
                     r.count[i] = IF i = j THEN b.count[i] + 1 ELSE b.count[i]
               /\ j # 0 /\ b.count[j] + 1 > b.max =>
                     r.max = b.count[j] + 1 /\ r.best = j - 1
               /\ j # 0 /\ ~(b.count[j] + 1 > b.max) => r.max = b.max /\ r.best = b.best
<1> DEFINE j == Place(m)
           c == [b.count EXCEPT ![j] = @ + 1]
<1>1. j \in Nat /\ j <= Count /\ Count \in Nat
  BY PlaceIs, LevelsOK
<1>2. CountVote(b, m) = IF j = 0 THEN b
                        ELSE IF c[j] > b.max THEN [count |-> c, max |-> c[j], best |-> j - 1]
                        ELSE [b EXCEPT !.count = c]
  BY DEF CountVote
<1> HIDE DEF j
<1>3. b.count \in [0 .. Count -> Nat] /\ b.max \in Nat /\ b.best \in Nat
  BY DEF Ballots
<1>4. c \in [0 .. Count -> Nat] /\ c[j] = b.count[j] + 1 /\ b.count[j] \in Nat
      /\ \A i \in 1 .. Count : c[i] = IF i = j THEN b.count[i] + 1 ELSE b.count[i]
  BY <1>1, <1>3
<1> HIDE DEF c
<1>5. CASE j = 0
  BY <1>1, <1>2, <1>5 DEF j
<1>6. CASE j # 0 /\ c[j] > b.max
  <2>1. CountVote(b, m) = [count |-> c, max |-> c[j], best |-> j - 1]
    BY <1>2, <1>6
  <2>2. c[j] \in Nat /\ j - 1 \in Nat
    BY <1>1, <1>4, <1>6
  <2>3. CountVote(b, m) \in Ballots
    BY <1>4, <2>1, <2>2 DEF Ballots
  <2> QED
    BY <1>4, <1>6, <2>1, <2>3 DEF j
<1>7. CASE j # 0 /\ ~(c[j] > b.max)
  <2>1. CountVote(b, m) = [b EXCEPT !.count = c]
    BY <1>2, <1>7
  <2>2. CountVote(b, m) \in Ballots
    BY <1>4, <2>1 DEF Ballots
  <2>3. /\ CountVote(b, m).count = c /\ CountVote(b, m).max = b.max
        /\ CountVote(b, m).best = b.best
    BY <2>1 DEF Ballots
  <2> QED
    BY <1>4, <1>7, <2>2, <2>3 DEF j
<1> QED
  BY <1>5, <1>6, <1>7

LEMMA BallotRuns ==
    ASSUME list \in Seq(Player)
    PROVE  \E f : CountsRun(f) /\ f[Len(list)] = Ballot
<1> DEFINE n == Len(list)
           g == [x \in Ballots \X (1 .. n) |-> CountVote(x[1], voteMap[list[x[2]]])]
           F(it) == [S \in SUBSET (DOMAIN list) |->
                       IF S = {} THEN NoVotes
                       ELSE CountVote(it[S \ {Max(S)}], voteMap[list[Max(S)]])]
           it == CHOOSE it : it = F(it)
<1>1. NoVotes \in Ballots /\ n \in Nat /\ DOMAIN list = 1 .. n
  BY LevelsOK DEF NoVotes, Ballots
<1>2. g \in [Ballots \X (1 .. n) -> Ballots]
  <2>1. \A b \in Ballots, i \in 1 .. n : CountVote(b, voteMap[list[i]]) \in Ballots
    BY CountVoteIs
  <2> QED
    BY <2>1
<1>3. PICK h \in [SUBSET (1 .. n) -> Ballots] : Folds(h, NoVotes, g, n)
  BY <1>1, <1>2, FoldExists
<1>4. h = F(h)
  <2>1. ASSUME NEW S \in SUBSET (1 .. n)
        PROVE  h[S] = IF S = {} THEN NoVotes
                      ELSE CountVote(h[S \ {Max(S)}], voteMap[list[Max(S)]])
    <3>1. CASE S = {}
      BY <1>3, <3>1 DEF Folds
    <3>2. CASE S # {}
      <4>1. h[S] = g[h[S \ {Max(S)}], Max(S)] /\ h[S \ {Max(S)}] \in Ballots
        BY <1>3, <3>2 DEF Folds
      <4>2. Max(S) \in 1 .. n
        BY <1>1, <3>2, MaxOfNat
      <4> QED
        BY <3>2, <4>1, <4>2
    <3> QED
      BY <3>1, <3>2
  <2> QED
    BY <1>1, <2>1
<1>5. it = F(it)
  BY <1>4
<1>6. Ballot = it[DOMAIN list]
  BY DEF Ballot, FoldLeft, MapThenFoldSet, NoVotes
<1> HIDE DEF it
<1> DEFINE f == [i \in 0 .. n |-> it[1 .. i]]
<1>7. f[0] = NoVotes
  BY <1>1, <1>5
<1>8. \A i \in 0 .. n - 1 : f[i + 1] = CountVote(f[i], voteMap[list[i + 1]])
  <2> SUFFICES ASSUME NEW i \in 0 .. n - 1
               PROVE  it[1 .. i + 1] = CountVote(it[1 .. i], voteMap[list[i + 1]])
    BY <1>1
  <2>1. 1 .. i + 1 # {} /\ Max(1 .. i + 1) = i + 1 /\ (1 .. i + 1) \ {i + 1} = 1 .. i
    <3>1. i \in Nat
      OBVIOUS
    <3> QED
      BY <3>1, UpTo
  <2>2. 1 .. i + 1 \in SUBSET (DOMAIN list)
    BY <1>1
  <2> QED
    BY <1>5, <2>1, <2>2
<1>9. f[n] = Ballot
  BY <1>1, <1>6
<1> HIDE DEF f
<1>10. CountsRun(f)
  BY <1>7, <1>8 DEF CountsRun
<1> QED
  BY <1>9, <1>10

(* Those of the first i entities who vote for the place j.                 *)
VotersOf(i, j) == {p \in {list[k] : k \in 1 .. i} : Place(voteMap[p]) = j}

(* Each of them is counted once, as none is twice in the list.             *)
LEMMA OneVoterMore ==
    ASSUME list \in Seq(Player), IsInjective(list), NEW i \in 0 .. Len(list) - 1, NEW j
    PROVE  /\ IsFiniteSet(VotersOf(i, j)) /\ Cardinality(VotersOf(i, j)) \in Nat
           /\ Cardinality(VotersOf(i + 1, j)) =
                 Cardinality(VotersOf(i, j))
                   + (IF Place(voteMap[list[i + 1]]) = j THEN 1 ELSE 0)
<1>1. i \in Nat /\ Len(list) \in Nat /\ i + 1 \in DOMAIN list
      /\ \A k \in 1 .. i : k \in DOMAIN list /\ k # i + 1
  OBVIOUS
<1>2. list[i + 1] \notin VotersOf(i, j)
  BY <1>1 DEF VotersOf, IsInjective
<1> DEFINE D == {list[k] : k \in 1 .. i}
<1>3. IsFiniteSet(D)
  <2>1. IsFiniteSet(1 .. i)
    BY <1>1, FS_Interval
  <2> QED
    <3> DEFINE h == [k \in 1 .. i |-> list[k]]
    <3>1. h \in Surjection(1 .. i, D)
      BY DEF Surjection
    <3> HIDE DEF h
    <3> QED
      BY <2>1, <3>1, FS_Surjection
<1>4. IsFiniteSet(VotersOf(i, j)) /\ Cardinality(VotersOf(i, j)) \in Nat
  <2>1. VotersOf(i, j) \subseteq D
    BY DEF VotersOf
  <2> HIDE DEF D
  <2>2. IsFiniteSet(VotersOf(i, j))
    BY <1>3, <2>1, FS_Subset
  <2> QED
    BY <2>2, FS_CardinalityType
<1>5. {list[k] : k \in 1 .. i + 1} = D \cup {list[i + 1]}
  BY <1>1
<1>6. CASE Place(voteMap[list[i + 1]]) = j
  <2>1. VotersOf(i + 1, j) = VotersOf(i, j) \cup {list[i + 1]}
    BY <1>5, <1>6 DEF VotersOf
  <2>2. Cardinality(VotersOf(i + 1, j)) = Cardinality(VotersOf(i, j)) + 1
    BY <1>2, <1>4, <2>1, FS_AddElement
  <2> QED
    BY <1>4, <1>6, <2>2
<1>7. CASE Place(voteMap[list[i + 1]]) # j
  <2>1. VotersOf(i + 1, j) = VotersOf(i, j)
    BY <1>5, <1>7 DEF VotersOf
  <2> QED
    BY <1>4, <1>7, <2>1
<1> QED
  BY <1>4, <1>6, <1>7

(* What is right after i of them.                                          *)
RightAfter(b, i) ==
    /\ b \in Ballots
    /\ b.best < Count
    /\ \A j \in 1 .. Count :
          b.count[j] = Cardinality(VotersOf(i, j)) /\ b.count[j] <= b.max
    /\ b.max > 0 => b.count[b.best + 1] = b.max

(* The votes counted are those of the players that are there, and the best *)
(* level has as many as any.                                               *)
LEMMA BallotIs ==
    ASSUME list \in Seq(Player), IsInjective(list)
    PROVE  RightAfter(Ballot, Len(list))
<1> DEFINE n == Len(list)
<1>1. PICK f : CountsRun(f) /\ f[n] = Ballot
  BY BallotRuns
<1>2. n \in Nat /\ Count \in Nat \ {0}
  BY LevelsOK
<1> DEFINE P == {i \in 0 .. n : RightAfter(f[i], i)}
<1>3. 0 \in P
  <2>1. \A j : VotersOf(0, j) = {}
    BY DEF VotersOf
  <2>2. \A j : Cardinality(VotersOf(0, j)) = 0
    BY <2>1, FS_EmptySet
  <2>3. f[0] = NoVotes
    BY <1>1 DEF CountsRun
  <2> QED
    BY <1>2, <2>2, <2>3 DEF RightAfter, NoVotes, Ballots
<1>4. ASSUME NEW i \in 0 .. n, i \in P, i < n
      PROVE  i + 1 \in P
  <2> DEFINE m == voteMap[list[i + 1]]
             k == Place(m)
             b == f[i]
             r == f[i + 1]
  <2>1. i \in 0 .. n - 1 /\ i + 1 \in 0 .. n
    BY <1>2, <1>4
  <2>2. r = CountVote(b, m)
    BY <1>1, <2>1 DEF CountsRun
  <2>3. RightAfter(b, i)
    BY <1>4
  <2>4. \A j : /\ Cardinality(VotersOf(i, j)) \in Nat
               /\ Cardinality(VotersOf(i + 1, j)) =
                    Cardinality(VotersOf(i, j)) + (IF k = j THEN 1 ELSE 0)
    BY <2>1, OneVoterMore
  <2>5. k \in Nat /\ k <= Count
    BY PlaceIs
  <2>6. b \in Ballots
    BY <2>3 DEF RightAfter
  <2>7. /\ r \in Ballots
        /\ k = 0 => r = b
        /\ \A j \in 1 .. Count : r.count[j] = IF j = k THEN b.count[j] + 1 ELSE b.count[j]
        /\ k # 0 /\ b.count[k] + 1 > b.max => r.max = b.count[k] + 1 /\ r.best = k - 1
        /\ k # 0 /\ ~(b.count[k] + 1 > b.max) => r.max = b.max /\ r.best = b.best
    BY <2>2, <2>6, CountVoteIs
  <2>8. b.count \in [0 .. Count -> Nat] /\ b.max \in Nat /\ b.best \in Nat
    BY <2>6 DEF Ballots
  <2> HIDE DEF k, b, r, P
  <2>9. RightAfter(r, i + 1)
    <3>1. CASE k = 0
      BY <2>3, <2>4, <2>7, <3>1 DEF RightAfter
    <3>2. CASE k # 0
      <4>1. \A j \in 1 .. Count : r.count[j] = Cardinality(VotersOf(i + 1, j))
        BY <2>3, <2>4, <2>7, <2>8, <3>2 DEF RightAfter
      <4>2. k \in 1 .. Count /\ r.count[k] = b.count[k] + 1 /\ b.count[k] \in Nat
        BY <1>2, <2>5, <2>7, <2>8, <3>2
      <4>3. \A j \in 1 .. Count : j # k => r.count[j] = b.count[j]
        BY <2>7, <2>8, <3>2
      <4>4. \A j \in 1 .. Count : b.count[j] <= b.max /\ b.count[j] \in Nat
        BY <1>2, <2>3, <2>8 DEF RightAfter
      <4>5. b.best < Count /\ (b.max > 0 => b.count[b.best + 1] = b.max)
        BY <2>3 DEF RightAfter
      <4>6. CASE b.count[k] + 1 > b.max
        <5>1. r.max = b.count[k] + 1 /\ r.best = k - 1
          BY <2>7, <3>2, <4>6
        <5>2. ASSUME NEW j \in 1 .. Count
              PROVE  r.count[j] <= r.max
          <6>1. CASE j = k
            BY <4>2, <5>1, <6>1
          <6>2. CASE j # k
            <7>1. r.count[j] = b.count[j] /\ b.count[j] <= b.max /\ b.count[j] \in Nat
              BY <4>3, <4>4, <6>2
            <7>2. b.max \in Nat /\ b.count[k] \in Nat /\ b.count[k] + 1 > b.max
              BY <2>8, <4>2, <4>6
            <7>3. b.max <= b.count[k] + 1
              BY <7>2
            <7>4. b.count[j] <= b.count[k] + 1
              BY <7>1, <7>2, <7>3
            <7> QED
              BY <5>1, <7>1, <7>4
          <6> QED
            BY <6>1, <6>2
        <5> QED
          BY <1>2, <2>5, <2>7, <4>1, <4>2, <5>1, <5>2 DEF RightAfter
      <4>7. CASE ~(b.count[k] + 1 > b.max)
        <5>1. r.max = b.max /\ r.best = b.best
          BY <2>7, <3>2, <4>7
        <5>2. \A j \in 1 .. Count : r.count[j] <= r.max
          BY <2>8, <4>2, <4>3, <4>4, <4>7, <5>1
        <5>3. b.best + 1 \in 1 .. Count
          BY <1>2, <2>8, <4>5
        <5>4. b.max > 0 /\ b.best + 1 # k
          BY <2>8, <4>2, <4>5, <4>7
        <5>5. r.count[r.best + 1] = r.max
          BY <4>3, <4>5, <5>1, <5>3, <5>4
        <5> QED
          BY <2>7, <4>1, <4>5, <5>1, <5>2, <5>5 DEF RightAfter
      <4> QED
        BY <4>6, <4>7
    <3> QED
      BY <3>1, <3>2
  <2> QED
    BY <2>1, <2>9 DEF P, r
<1> HIDE DEF P
<1>5. 0 .. n \subseteq P
  BY <1>2, <1>3, <1>4, ThroughList
<1>6. n \in P
  BY <1>2, <1>5
<1> QED
  BY <1>1, <1>6 DEF P

-----------------------------------------------------------------------------
(* The inductive invariant.                                                *)

(* A level has been announced while the name that gives it is kept.        *)
PromiseMade ==
    promised # None =>
      /\ preferedMap \in Pattern
      /\ Accepted(preferedMap)
      /\ promised = Found(preferedMap)

(* While no vote has made the next level random, NextLevelId is the place  *)
(* of the level played last.                                               *)
LastIsPlace == last # 0 => last = (nextLevelId % Count) + 1

IInv == TypeOK /\ PromiseMade /\ LastIsPlace

(* The list without a player who leaves.                                   *)
LEMMA WithoutOne ==
    ASSUME list \in Seq(Player), IsInjective(list), NEW p \in Present
    PROVE  /\ RemoveFirst(list, p) \in Seq(Player)
           /\ IsInjective(RemoveFirst(list, p))
           /\ \A q \in Present \ {p} : q \in ToSet(RemoveFirst(list, p))
<1> DEFINE I == {i \in 1 .. Len(list) : list[i] = p}
           k == SelectInSeq(list, LAMBDA v : v = p)
           s == SubSeq(list, 1, k - 1) \o SubSeq(list, k + 1, Len(list))
           n == Len(list)
<1>1. I \in SUBSET Nat /\ I # {}
  BY DEF Present, ToSet
<1>2. k = Min(I)
  BY <1>1 DEF SelectInSeq
<1>3. k \in I
  BY <1>1, <1>2, MinOfNat
<1>4. RemoveFirst(list, p) = s
  BY <1>3 DEF RemoveFirst, RemoveAt
<1> HIDE DEF k
<1>5. k \in 1 .. n /\ list[k] = p /\ n \in Nat
  BY <1>3
<1>6. /\ s \in Seq(Player) /\ Len(s) = n - 1
      /\ \A i \in 1 .. n - 1 : s[i] = IF i < k THEN list[i] ELSE list[i + 1]
  <2> DEFINE a == SubSeq(list, 1, k - 1)
             b == SubSeq(list, k + 1, n)
  <2>1. /\ a \in Seq(Player) /\ Len(a) = k - 1
        /\ \A i \in 1 .. k - 1 : a[i] = list[i]
    BY <1>5
  <2>2. /\ b \in Seq(Player) /\ Len(b) = n - k
        /\ \A i \in 1 .. n - k : b[i] = list[k + i]
    BY <1>5
  <2> HIDE DEF a, b
  <2>3. a \o b \in Seq(Player) /\ Len(a \o b) = n - 1
    <3>1. a \o b \in Seq(Player) /\ Len(a \o b) = Len(a) + Len(b)
      BY <2>1, <2>2
    <3>2. (k - 1) + (n - k) = n - 1
      BY <1>5
    <3> QED
      BY <2>1, <2>2, <3>1, <3>2
  <2>4. \A i \in 1 .. n - 1 : (a \o b)[i] = IF i < k THEN a[i] ELSE b[i - (k - 1)]
    BY <1>5, <2>1, <2>2
  <2>5. \A i \in 1 .. n - 1 : (a \o b)[i] = IF i < k THEN list[i] ELSE list[i + 1]
    <3> TAKE i \in 1 .. n - 1
    <3>1. CASE i < k
      BY <1>5, <2>1, <2>4, <3>1
    <3>2. CASE ~(i < k)
      <4>1. i - (k - 1) \in 1 .. n - k /\ k + (i - (k - 1)) = i + 1
        BY <1>5, <3>2
      <4> QED
        BY <2>2, <2>4, <3>2, <4>1
    <3> QED
      BY <3>1, <3>2
  <2> QED
    BY <2>3, <2>5 DEF a, b
<1> HIDE DEF s
<1>7. IsInjective(s)
  <2>1. DOMAIN s = 1 .. n - 1 /\ DOMAIN list = 1 .. n
    BY <1>5, <1>6
  <2>2. \A i, j \in 1 .. n : list[i] = list[j] => i = j
    BY <2>1 DEF IsInjective
  <2>3. ASSUME NEW i \in 1 .. n - 1, NEW j \in 1 .. n - 1, s[i] = s[j]
        PROVE  i = j
    BY <1>5, <1>6, <2>2, <2>3
  <2> QED
    BY <2>1, <2>3 DEF IsInjective
<1>8. ASSUME NEW q \in Present, q # p
      PROVE  q \in ToSet(s)
  <2>1. PICK i \in 1 .. n : list[i] = q
    BY <1>5 DEF Present, ToSet
  <2>2. i # k
    BY <1>5, <1>8, <2>1
  <2>3. CASE i < k
    <3>1. i \in 1 .. n - 1 /\ s[i] = q /\ DOMAIN s = 1 .. n - 1
      BY <1>5, <1>6, <2>1, <2>3
    <3> QED
      BY <3>1 DEF ToSet
  <2>4. CASE i > k
    <3>1. i - 1 \in 1 .. n - 1 /\ s[i - 1] = q /\ DOMAIN s = 1 .. n - 1
      BY <1>5, <1>6, <2>1, <2>4
    <3> QED
      BY <3>1 DEF ToSet
  <2> QED
    BY <1>5, <2>2, <2>3, <2>4
<1> QED
  BY <1>4, <1>6, <1>7, <1>8

(* Where newLevel() begins to look, and where it stops.                    *)
LEMMA WantedIs ==
    ASSUME TypeOK
    PROVE  /\ Wanted \in Nat /\ Wanted < Modulus
           /\ Advanced \in Nat /\ Advanced < Modulus
           /\ Ballot.best \in Nat /\ Ballot.best < Count /\ Ballot.max \in Nat
<1>1. RightAfter(Ballot, Len(list))
  BY BallotIs DEF TypeOK
<1>2. Ballot.best \in Nat /\ Ballot.best < Count /\ Ballot.max \in Nat
  BY <1>1 DEF RightAfter, Ballots
<1>3. Advanced \in Nat /\ Advanced < Modulus
  <2>1. nextLevelId + 1 \in Nat
    BY LevelsOK DEF TypeOK
  <2> QED
    BY <2>1, Remainder, LevelsOK DEF Advanced
<1>4. AfterVotes \in Nat /\ AfterVotes < Modulus
  BY <1>2, <1>3, LevelsOK DEF AfterVotes
<1>5. Place(preferedMap) \in Nat /\ Place(preferedMap) <= Count
  BY PlaceIs
<1> QED
  BY <1>2, <1>3, <1>4, <1>5, LevelsOK DEF Wanted

LEMMA TriesAre ==
    /\ Tries \in SUBSET Nat
    /\ \A k \in Tries : k < Count /\ LevelAt((Wanted + k) % Modulus) \in Loads
    /\ Tries # {} => Min(Tries) \in Tries /\ \A k \in Tries : Min(Tries) <= k
<1>1. Tries \in SUBSET Nat
  BY LevelsOK DEF Tries
<1>2. \A k \in Tries : k < Count /\ LevelAt((Wanted + k) % Modulus) \in Loads
  BY LevelsOK DEF Tries
<1> QED
  BY <1>1, <1>2, MinOfNat

LEMMA LevelAtIs ==
    ASSUME NEW id \in Nat
    PROVE  /\ id % Count \in Nat /\ id % Count < Count
           /\ LevelAt(id) = Levels[(id % Count) + 1]
           /\ LevelAt(id) \in Level /\ LevelAt(id) \in ToSet(Levels)
<1>1. id % Count \in Nat /\ id % Count < Count
  BY Remainder, LevelsOK
<1>2. (id % Count) + 1 \in 1 .. Count
  BY <1>1, LevelsOK
<1> QED
  BY <1>1, <1>2, LevelsOK DEF LevelAt

(* What is played where the first level that is wanted loads.              *)
LEMMA FirstTry ==
    ASSUME TypeOK, LevelAt(Wanted) \in Loads
    PROVE  Tries # {} /\ Min(Tries) = 0 /\ (Wanted + Min(Tries)) % Modulus = Wanted
<1>1. Wanted \in Nat /\ Wanted < Modulus
  BY WantedIs
<1>2. (Wanted + 0) % Modulus = Wanted
  <2>1. Wanted + 0 = Wanted
    BY <1>1
  <2>2. Wanted % Modulus = Wanted
    BY <1>1, RemainderOfSmall, LevelsOK
  <2> QED
    BY <2>1, <2>2
<1>3. 0 \in Tries
  BY <1>2, LevelsOK DEF Tries
<1>4. Min(Tries) = 0
  BY <1>3, TriesAre, MinIs
<1> QED
  BY <1>2, <1>3, <1>4

-----------------------------------------------------------------------------
(* Every step keeps the inductive invariant.                               *)
LEMMA InitOK == ASSUME Init PROVE IInv
<1>1. TypeOK
  <2>1. <<>> \in Seq(Player) /\ IsInjective(<<>>)
    BY DEF IsInjective
  <2>2. nextLevelId \in 0 .. Modulus - 1 /\ last \in 0 .. Count
    BY LevelsOK DEF Init
  <2> QED
    BY <2>1, <2>2 DEF Init, TypeOK
<1>2. PromiseMade /\ LastIsPlace
  BY DEF Init, PromiseMade, LastIsPlace
<1> QED
  BY <1>1, <1>2 DEF IInv

LEMMA JoinOK ==
    ASSUME IInv, NEW p \in Player, Join(p)
    PROVE  IInv'
<1> USE DEF IInv
<1>1. /\ p \notin Present /\ list' = Append(list, p)
      /\ UNCHANGED <<nextLevelId, current, levelSessionCount, maxLevelSessionCount,
                     preferedMap, promised, last, voteMap>>
  BY DEF Join, levelVars, wishVars
<1> DEFINE n == Len(list)
<1>2. list \in Seq(Player) /\ IsInjective(list) /\ n \in Nat /\ DOMAIN list = 1 .. n
  BY DEF TypeOK
<1>3. /\ list' \in Seq(Player) /\ DOMAIN list' = 1 .. n + 1
      /\ \A i \in 1 .. n : list'[i] = list[i]
      /\ list'[n + 1] = p
  BY <1>1, <1>2
<1>4. \A i \in 1 .. n : list[i] # p
  BY <1>1, <1>2 DEF Present, ToSet
<1>5. IsInjective(list')
  <2>1. \A i, j \in 1 .. n : list[i] = list[j] => i = j
    BY <1>2 DEF IsInjective
  <2>2. ASSUME NEW i \in 1 .. n + 1, NEW j \in 1 .. n + 1, list'[i] = list'[j]
        PROVE  i = j
    <3>1. CASE i = n + 1
      BY <1>2, <1>3, <1>4, <2>2, <3>1
    <3>2. CASE j = n + 1
      BY <1>2, <1>3, <1>4, <2>2, <3>2
    <3>3. CASE i # n + 1 /\ j # n + 1
      BY <1>2, <1>3, <2>1, <2>2, <3>3
    <3> QED
      BY <3>1, <3>2, <3>3
  <2> QED
    BY <1>3, <2>2 DEF IsInjective
<1>6. Present \subseteq Present'
  BY <1>2, <1>3 DEF Present, ToSet
<1>7. TypeOK'
  BY <1>1, <1>3, <1>5, <1>6 DEF TypeOK
<1>8. PromiseMade' /\ LastIsPlace'
  BY <1>1 DEF PromiseMade, LastIsPlace
<1> QED
  BY <1>7, <1>8

LEMMA LeaveOK ==
    ASSUME IInv, NEW p \in Player, Leave(p)
    PROVE  IInv'
<1> USE DEF IInv
<1>1. /\ p \in Present /\ list' = RemoveFirst(list, p)
      /\ voteMap' = [voteMap EXCEPT ![p] = None]
      /\ UNCHANGED <<nextLevelId, current, levelSessionCount, maxLevelSessionCount,
                     preferedMap, promised, last>>
  BY DEF Leave, levelVars, wishVars
<1>2. /\ list' \in Seq(Player) /\ IsInjective(list')
      /\ \A q \in Present \ {p} : q \in Present'
  <2>1. list \in Seq(Player) /\ IsInjective(list)
    BY DEF TypeOK
  <2> QED
    BY <1>1, <2>1, WithoutOne DEF Present
<1>3. /\ voteMap' \in [Player -> Pattern \cup {None}]
      /\ \A q \in Player : voteMap'[q] = IF q = p THEN None ELSE voteMap[q]
  BY <1>1 DEF TypeOK
<1>4. TypeOK'
  BY <1>1, <1>2, <1>3 DEF TypeOK
<1>5. PromiseMade' /\ LastIsPlace'
  BY <1>1 DEF PromiseMade, LastIsPlace
<1> QED
  BY <1>4, <1>5

LEMMA VoteMapOK ==
    ASSUME IInv, NEW p \in Player, NEW m \in Pattern, VoteMap(p, m)
    PROVE  IInv'
<1> USE DEF IInv
<1>1. /\ p \in Present /\ Accepted(m)
      /\ voteMap' = [voteMap EXCEPT ![p] = m]
      /\ UNCHANGED <<nextLevelId, current, levelSessionCount, maxLevelSessionCount,
                     preferedMap, promised, last, list>>
  BY DEF VoteMap, levelVars, wishVars
<1>2. /\ voteMap' \in [Player -> Pattern \cup {None}]
      /\ \A q \in Player : voteMap'[q] = IF q = p THEN m ELSE voteMap[q]
  BY <1>1 DEF TypeOK
<1>3. Present' = Present
  BY <1>1 DEF Present
<1>4. TypeOK'
  BY <1>1, <1>2, <1>3 DEF TypeOK
<1>5. PromiseMade' /\ LastIsPlace'
  BY <1>1 DEF PromiseMade, LastIsPlace
<1> QED
  BY <1>4, <1>5

LEMMA ForceMapOK ==
    ASSUME IInv, NEW m \in Pattern, ForceMap(m) \/ ForceMapUnchecked(m)
    PROVE  IInv'
<1> USE DEF IInv
<1>1. /\ preferedMap' = m
      /\ UNCHANGED <<nextLevelId, current, levelSessionCount, maxLevelSessionCount,
                     last, list, voteMap>>
      /\ promised' = None \/ (promised' = Found(m) /\ Accepted(m))
  BY DEF ForceMap, ForceMapUnchecked, levelVars
<1>2. promised' \in Level \cup {None}
  BY <1>1, AcceptedIs
<1>3. Present' = Present
  BY <1>1 DEF Present
<1>4. TypeOK'
  BY <1>1, <1>2, <1>3 DEF TypeOK
<1>5. LastIsPlace' /\ PromiseMade'
  BY <1>1 DEF LastIsPlace, PromiseMade
<1> QED
  BY <1>4, <1>5

LEMMA ChooseOK ==
    ASSUME IInv, NEW r \in 0 .. Count - 1, Choose(r)
    PROVE  IInv'
<1> USE DEF IInv
<1>1. /\ levelSessionCount' = 0 /\ preferedMap' = None /\ promised' = None
      /\ voteMap' = [p \in Player |-> None] /\ list' = list
  BY DEF Choose
<1>2. Wanted \in Nat /\ Wanted < Modulus /\ r \in Nat /\ r < Count
  BY WantedIs, LevelsOK
<1>3. /\ nextLevelId' \in 0 .. Modulus - 1 /\ current' \in Level \cup {None}
      /\ maxLevelSessionCount' \in Nat /\ last' \in 0 .. Count
      /\ last' # 0 => last' = (nextLevelId' % Count) + 1
  <2>1. CASE Tries = {}
    <3>1. /\ current' = None /\ maxLevelSessionCount' = 0 /\ last' = 0
          /\ nextLevelId' = (Wanted + Count) % Modulus
      BY <2>1 DEF Choose
    <3>2. Wanted + Count \in Nat
      BY <1>2, LevelsOK
    <3>3. nextLevelId' \in Nat /\ nextLevelId' < Modulus
      BY <3>1, <3>2, Remainder, LevelsOK
    <3> QED
      BY <3>1, <3>3, LevelsOK
  <2>2. CASE Tries # {}
    <3> DEFINE id == (Wanted + Min(Tries)) % Modulus
    <3>1. /\ current' = LevelAt(id) /\ maxLevelSessionCount' = Sessions[LevelAt(id)]
          /\ nextLevelId' = IF VoteSucceeds THEN r ELSE id
          /\ last' = IF VoteSucceeds THEN 0 ELSE (id % Count) + 1
      BY <2>2 DEF Choose
    <3>2. Min(Tries) \in Nat
      BY <2>2, TriesAre
    <3>3. Wanted + Min(Tries) \in Nat
      BY <1>2, <3>2
    <3>4. id \in Nat /\ id < Modulus
      BY <3>3, Remainder, LevelsOK
    <3> HIDE DEF id
    <3>5. id % Count \in Nat /\ id % Count < Count /\ LevelAt(id) \in Level
      BY <3>4, LevelAtIs
    <3>6. Sessions[LevelAt(id)] \in Nat
      BY <3>5, LevelChoiceAssumption
    <3>7. CASE VoteSucceeds
      BY <1>2, <3>1, <3>5, <3>6, <3>7, LevelsOK
    <3>8. CASE ~VoteSucceeds
      <4>1. nextLevelId' = id /\ last' = (id % Count) + 1
        BY <3>1, <3>8
      <4>2. last' \in 0 .. Count
        BY <3>5, <4>1, LevelsOK
      <4> QED
        BY <3>1, <3>4, <3>5, <3>6, <4>1, <4>2, LevelsOK
    <3> QED
      BY <3>7, <3>8
  <2> QED
    BY <2>1, <2>2
<1>4. TypeOK'
  BY <1>1, <1>3 DEF TypeOK
<1>5. PromiseMade' /\ LastIsPlace'
  BY <1>1, <1>3 DEF PromiseMade, LastIsPlace
<1> QED
  BY <1>4, <1>5

LEMMA OthersOK ==
    ASSUME IInv, KeepLevel \/ Release \/ UNCHANGED vars
    PROVE  IInv'
<1> USE DEF IInv
<1>1. /\ UNCHANGED <<nextLevelId, preferedMap, promised, last, list, voteMap>>
      /\ levelSessionCount' \in Nat /\ maxLevelSessionCount' \in Nat
      /\ current' \in Level \cup {None}
  BY DEF KeepLevel, Release, vars, levelVars, wishVars, TypeOK
<1>2. Present' = Present
  BY <1>1 DEF Present
<1>3. TypeOK'
  BY <1>1, <1>2 DEF TypeOK
<1>4. PromiseMade' /\ LastIsPlace'
  BY <1>1 DEF PromiseMade, LastIsPlace
<1> QED
  BY <1>3, <1>4

LEMMA NextOK == ASSUME IInv, [Next]_vars PROVE IInv'
<1>1. ASSUME NEW p \in Player, Join(p)
      PROVE  IInv'
  BY <1>1, JoinOK
<1>2. ASSUME NEW p \in Player, Leave(p)
      PROVE  IInv'
  BY <1>2, LeaveOK
<1>3. ASSUME NEW p \in Player, NEW m \in Pattern, VoteMap(p, m)
      PROVE  IInv'
  BY <1>3, VoteMapOK
<1>4. ASSUME NEW m \in Pattern, ForceMap(m) \/ ForceMapUnchecked(m)
      PROVE  IInv'
  BY <1>4, ForceMapOK
<1>5. ASSUME NEW r \in 0 .. Count - 1, Choose(r)
      PROVE  IInv'
  BY <1>5, ChooseOK
<1>6. CASE KeepLevel \/ Release \/ UNCHANGED vars
  BY <1>6, OthersOK
<1> QED
  BY <1>1, <1>2, <1>3, <1>4, <1>5, <1>6 DEF Next, NewLevel

LEMMA Inductive == Spec => []IInv
<1>1. Init => IInv
  BY InitOK
<1>2. IInv /\ [Next]_vars => IInv'
  BY NextOK
<1> QED
  BY <1>1, <1>2, PTL DEF Spec

(* NextLevelId, the votes and the forced map keep their types, through     *)
(* wraps of the number, levels that do not load and departures: nobody who *)
(* has left has a vote.                                                    *)
THEOREM TypeCorrect == Spec => []TypeOK
<1>1. IInv => TypeOK
  BY DEF IInv
<1> QED
  BY <1>1, Inductive, PTL

-----------------------------------------------------------------------------
(* The votes.                                                              *)

(* The voters of a level are those of the place their names come to.       *)
LEMMA VotersAre ==
    ASSUME IInv
    PROVE  /\ \A j \in 1 .. Count : VotersOf(Len(list), j) \subseteq Voters(Levels[j])
           /\ \A l : \A p \in Voters(l) :
                 /\ Place(voteMap[p]) \in 1 .. Count
                 /\ Levels[Place(voteMap[p])] = l
                 /\ Voters(l) = VotersOf(Len(list), Place(voteMap[p]))
<1> DEFINE n == Len(list)
<1>1. list \in Seq(Player) /\ n \in Nat /\ DOMAIN list = 1 .. n
  BY DEF IInv, TypeOK
<1>2. Present = {list[k] : k \in 1 .. n} /\ Present \subseteq Player
  BY <1>1 DEF Present, ToSet
<1>3. \A j : VotersOf(n, j) = {p \in Present : Place(voteMap[p]) = j}
  BY <1>2 DEF VotersOf
<1>4. \A m : Place(m) # 0 => Place(m) \in 1 .. Count
  BY PlaceIs, LevelsOK
<1>5. \A l : Voters(l) =
         {p \in Present : Place(voteMap[p]) # 0 /\ Levels[Place(voteMap[p])] = l}
  BY DEF Voters
<1>6. \A j \in 1 .. Count : VotersOf(n, j) \subseteq Voters(Levels[j])
  BY <1>3, <1>5
<1>7. ASSUME NEW l, NEW p \in Voters(l)
      PROVE  /\ Place(voteMap[p]) \in 1 .. Count
             /\ Levels[Place(voteMap[p])] = l
             /\ Voters(l) = VotersOf(n, Place(voteMap[p]))
  <2> DEFINE j == Place(voteMap[p])
  <2>1. j # 0 /\ Levels[j] = l
    BY <1>5
  <2>2. j \in 1 .. Count
    BY <1>4, <2>1
  <2>3. \A q \in Present :
           Place(voteMap[q]) # 0 /\ Levels[Place(voteMap[q])] = l => Place(voteMap[q]) = j
    BY <2>1, OnePlace
  <2> HIDE DEF j
  <2>4. Voters(l) = VotersOf(n, j)
    BY <1>3, <1>5, <2>1, <2>3
  <2> QED
    BY <2>1, <2>2, <2>4 DEF j
<1> QED
  BY <1>6, <1>7

(* There are finitely many.                                                *)
LEMMA VotersFinite ==
    ASSUME IInv, NEW l
    PROVE  IsFiniteSet(Voters(l)) /\ Cardinality(Voters(l)) \in Nat
<1> DEFINE h == [k \in 1 .. Len(list) |-> list[k]]
<1>1. list \in Seq(Player) /\ Len(list) \in Nat /\ DOMAIN list = 1 .. Len(list)
  BY DEF IInv, TypeOK
<1>2. h \in Surjection(1 .. Len(list), Present)
  BY <1>1 DEF Surjection, Present, ToSet
<1> HIDE DEF h
<1>3. IsFiniteSet(1 .. Len(list))
  BY <1>1, FS_Interval
<1>4. IsFiniteSet(Present)
  BY <1>2, <1>3, FS_Surjection
<1>5. Voters(l) \in SUBSET Present
  BY DEF Voters
<1>6. IsFiniteSet(Voters(l))
  BY <1>4, <1>5, FS_Subset
<1> QED
  BY <1>6, FS_CardinalityType

(* What the votes needed come to.                                          *)
LEMMA NeededIs ==
    ASSUME IInv
    PROVE  VotesNeeded \in Nat /\ VotesNeeded >= 1
<1>1. Len(list) \in Nat
  BY DEF IInv, TypeOK
<1>2. Len(list) \div 3 \in Nat
  BY <1>1
<1> QED
  BY <1>2 DEF VotesNeeded

(* A vote succeeds exactly if some level has enough voters.                *)
LEMMA SuccessIs ==
    ASSUME IInv
    PROVE  VoteSucceeds <=> \E l \in ToSet(Levels) : Enough(l)
<1> DEFINE n == Len(list)
           b == Ballot.best + 1
<1>1. RightAfter(Ballot, n)
  BY BallotIs DEF IInv, TypeOK
<1>2. VotesNeeded \in Nat /\ VotesNeeded >= 1
  BY NeededIs
<1>3. Ballot.max \in Nat /\ b \in 1 .. Count
  <2>1. Ballot.best \in Nat /\ Ballot.best < Count /\ Ballot.max \in Nat
    BY WantedIs DEF IInv
  <2> QED
    BY <2>1, LevelsOK
<1>4. ASSUME VoteSucceeds
      PROVE  \E l \in ToSet(Levels) : Enough(l)
  <2>1. Ballot.max >= VotesNeeded /\ Ballot.max > 0
    BY <1>2, <1>3, <1>4 DEF VoteSucceeds
  <2>2. Cardinality(VotersOf(n, b)) = Ballot.max
    BY <1>1, <1>3, <2>1 DEF RightAfter
  <2> DEFINE l == Levels[b]
  <2>3. VotersOf(n, b) \in SUBSET Voters(l)
    BY <1>3, VotersAre
  <2>4. IsFiniteSet(Voters(l)) /\ Cardinality(Voters(l)) \in Nat
    BY VotersFinite
  <2>5. l \in ToSet(Levels)
    BY <1>3, LevelsOK
  <2> HIDE DEF b, l
  <2>6. Cardinality(VotersOf(n, b)) <= Cardinality(Voters(l))
    BY <2>3, <2>4, FS_Subset
  <2>7. Cardinality(Voters(l)) >= VotesNeeded
    BY <1>2, <1>3, <2>1, <2>2, <2>4, <2>6
  <2>8. Enough(l)
    BY <2>7 DEF Enough, VotesNeeded
  <2> QED
    BY <2>5, <2>8
<1>5. ASSUME NEW l \in ToSet(Levels), Enough(l)
      PROVE  VoteSucceeds
  <2>1. Cardinality(Voters(l)) >= VotesNeeded
    BY <1>5 DEF Enough, VotesNeeded
  <2>2. Voters(l) # {}
    BY <1>2, <2>1, FS_EmptySet
  <2>3. PICK p \in Voters(l) : TRUE
    BY <2>2
  <2> DEFINE j == Place(voteMap[p])
  <2>4. j \in 1 .. Count /\ Voters(l) = VotersOf(n, j)
    BY <2>3, VotersAre
  <2> HIDE DEF j
  <2>5. Ballot.count[j] = Cardinality(VotersOf(n, j)) /\ Ballot.count[j] <= Ballot.max
    BY <1>1, <2>4 DEF RightAfter
  <2>6. Cardinality(Voters(l)) \in Nat
    BY VotersFinite
  <2> QED
    BY <1>2, <1>3, <2>1, <2>4, <2>5, <2>6 DEF VoteSucceeds
<1> QED
  BY <1>4, <1>5

(* The level with the most votes is the best of the count.                 *)
LEMMA MostVotedIsBest ==
    ASSUME IInv, NEW l \in ToSet(Levels), Enough(l),
           \A k \in ToSet(Levels) \ {l} : Cardinality(Voters(k)) < Cardinality(Voters(l))
    PROVE  Levels[Ballot.best + 1] = l
<1> DEFINE n == Len(list)
           b == Ballot.best + 1
           k == Levels[b]
<1>1. RightAfter(Ballot, n)
  BY BallotIs DEF IInv, TypeOK
<1>2. Ballot.max \in Nat /\ b \in 1 .. Count
  <2>1. Ballot.best \in Nat /\ Ballot.best < Count /\ Ballot.max \in Nat
    BY WantedIs DEF IInv
  <2> QED
    BY <2>1, LevelsOK
<1>3. Cardinality(Voters(l)) >= VotesNeeded /\ VotesNeeded \in Nat /\ VotesNeeded >= 1
  BY NeededIs DEF Enough, VotesNeeded
<1>4. PICK p \in Voters(l) : TRUE
  BY <1>3, FS_EmptySet
<1> DEFINE j == Place(voteMap[p])
<1>5. j \in 1 .. Count /\ Voters(l) = VotersOf(n, j)
  BY <1>4, VotersAre
<1>6. k \in ToSet(Levels) /\ VotersOf(n, b) \in SUBSET Voters(k)
  BY <1>2, LevelsOK, VotersAre
<1>7. IsFiniteSet(Voters(k)) /\ Cardinality(Voters(k)) \in Nat
      /\ Cardinality(Voters(l)) \in Nat
  BY VotersFinite
<1>8. Ballot.max > 0 => Cardinality(VotersOf(n, b)) = Ballot.max
  BY <1>1, <1>2 DEF RightAfter
<1> HIDE DEF j, b, k
<1>9. Cardinality(Voters(l)) <= Ballot.max
  BY <1>1, <1>5 DEF RightAfter
<1>10. Cardinality(VotersOf(n, b)) <= Cardinality(Voters(k))
  BY <1>6, <1>7, FS_Subset
<1>11. Cardinality(Voters(l)) <= Cardinality(Voters(k))
  BY <1>2, <1>3, <1>7, <1>8, <1>9, <1>10
<1>12. ~(Cardinality(Voters(k)) < Cardinality(Voters(l)))
  BY <1>7, <1>11
<1>13. k = l
  BY <1>6, <1>12
<1> QED
  BY <1>13 DEF k, b

LEMMA VotesStep ==
    ASSUME IInv, NEW r, Choose(r), preferedMap = None,
           NEW l \in ToSet(Levels) \cap Loads, Enough(l),
           \A k \in ToSet(Levels) \ {l} : Cardinality(Voters(k)) < Cardinality(Voters(l))
    PROVE  current' = l
<1>1. Levels[Ballot.best + 1] = l /\ VoteSucceeds
  BY MostVotedIsBest, SuccessIs
<1>2. Wanted = Ballot.best
  <2>1. Place(None) = 0
    BY DEF Place
  <2> QED
    BY <1>1, <2>1 DEF Wanted, AfterVotes
<1>3. Wanted \in Nat /\ Wanted < Count
  BY <1>2, WantedIs DEF IInv
<1>4. LevelAt(Wanted) = l
  <2>1. Wanted % Count = Wanted
    BY <1>3, RemainderOfSmall, LevelsOK
  <2> QED
    BY <1>1, <1>2, <2>1 DEF LevelAt
<1>5. Tries # {} /\ (Wanted + Min(Tries)) % Modulus = Wanted
  BY <1>4, FirstTry DEF IInv
<1> QED
  BY <1>4, <1>5 DEF Choose

(* newLevel(), "Votes require agreement from 1/3 + 1 of human players":    *)
(* whoever votes, comes and goes, the level that has that many votes of    *)
(* those who are there, and more than any other, is the next.              *)
THEOREM VotesDecideNext == Spec => VotesDecide
<1>1. IInv => (Chosen /\ preferedMap = None =>
                 \A l \in ToSet(Levels) \cap Loads :
                    (/\ Enough(l)
                     /\ \A k \in ToSet(Levels) \ {l} :
                           Cardinality(Voters(k)) < Cardinality(Voters(l)))
                    => current' = l)
  BY VotesStep DEF Chosen
<1>2. IInv /\ [Next]_vars =>
        [Chosen /\ preferedMap = None =>
                 \A l \in ToSet(Levels) \cap Loads :
                    (/\ Enough(l)
                     /\ \A k \in ToSet(Levels) \ {l} :
                           Cardinality(Voters(k)) < Cardinality(Voters(l)))
                    => current' = l]_vars
  BY <1>1
<1> QED
  BY <1>2, Inductive, PTL DEF Spec, VotesDecide

-----------------------------------------------------------------------------
(* The level that is announced.                                            *)

LEMMA PromiseStep ==
    ASSUME OneOrder, IInv, NEW r, Choose(r), promised # None
    PROVE  current' = promised
<1> DEFINE m == preferedMap
           j == Place(preferedMap)
<1>1. m \in Pattern /\ Accepted(m) /\ promised = Found(m)
  BY DEF IInv, PromiseMade
<1>2. j # 0 /\ Found(m) \in Loads /\ Found(m) \in Matches[m]
  BY <1>1, AcceptedIs, AcceptedIsFound
<1>3. j \in Nat /\ j <= Count /\ j = FirstMatch(m, Levels) /\ Levels[j] \in Matches[m]
  BY <1>2, PlaceIs
<1>4. Levels[j] = Found(m)
  <2>1. CASE Playlist = <<>>
    BY <1>3, <2>1, NoPlaylistLevels DEF Found
  <2>2. CASE \A n \in Pattern : \A f, g \in Matches[n] : f = g
    BY <1>1, <1>2, <1>3, <2>2
  <2> QED
    BY <2>1, <2>2 DEF OneOrder
<1>5. Wanted = j - 1
  BY <1>2 DEF Wanted
<1> HIDE DEF j
<1>6. Wanted \in Nat /\ Wanted < Count /\ Wanted + 1 = j
  BY <1>2, <1>3, <1>5, LevelsOK
<1>7. LevelAt(Wanted) = Found(m)
  <2>1. Wanted % Count = Wanted
    BY <1>6, RemainderOfSmall, LevelsOK
  <2> QED
    BY <1>4, <1>6, <2>1 DEF LevelAt
<1>8. Tries # {} /\ (Wanted + Min(Tries)) % Modulus = Wanted
  BY <1>2, <1>7, FirstTry DEF IInv
<1> QED
  BY <1>1, <1>7, <1>8 DEF Choose

(* "Next level: ..." is the answer to /forcemap: whatever is voted, and    *)
(* whoever comes or leaves in between, newLevel() chooses that level, if   *)
(* both functions look in one place.                                       *)
THEOREM PromiseIsKept ==
    ASSUME OneOrder
    PROVE  Spec => PromiseKept
<1>1. IInv => (Chosen /\ promised # None => current' = promised)
  BY PromiseStep DEF Chosen
<1>2. IInv /\ [Next]_vars => [Chosen /\ promised # None => current' = promised]_vars
  BY <1>1
<1> QED
  BY <1>2, Inductive, PTL DEF Spec, PromiseKept

-----------------------------------------------------------------------------
(* The rotation.                                                           *)

(* NextLevelId wraps where the list of the levels begins again.            *)
Even == Modulus % Count = 0

(* Or it does not wrap within the tries of newLevel(), which begin at w.   *)
NoWrap(w) == Even \/ w + Count <= Modulus

(* The wrap of the number does not show in the levels it stands for.       *)
LEMMA StepsFrom ==
    ASSUME NEW w \in Nat, NoWrap(w), NEW k \in 0 .. Count - 1
    PROVE  LevelAt((w + k) % Modulus) = Levels[((w + k) % Count) + 1]
<1>1. w + k \in Nat
  BY LevelsOK
<1>2. ((w + k) % Modulus) % Count = (w + k) % Count
  <2>1. CASE Even
    BY <1>1, <2>1, RemainderOfRemainder, LevelsOK DEF Even
  <2>2. CASE w + Count <= Modulus
    <3>1. w + k < Modulus
      BY <2>2, LevelsOK
    <3>2. (w + k) % Modulus = w + k
      BY <1>1, <3>1, RemainderOfSmall, LevelsOK
    <3> QED
      BY <3>2
  <2> QED
    BY <2>1, <2>2 DEF NoWrap
<1> QED
  BY <1>2 DEF LevelAt

(* As many tries as there are levels go through all of them.               *)
LEMMA AllTried ==
    ASSUME NEW w \in Nat, NEW i \in 1 .. Count
    PROVE  \E k \in 0 .. Count - 1 : (w + k) % Count = i - 1
<1> DEFINE r == w % Count
<1>1. r \in Nat /\ r < Count /\ Count \in Nat \ {0}
  BY Remainder, LevelsOK
<1>2. \A k \in Nat : (r + k) % Count = (w + k) % Count
  BY RemainderOfSum, LevelsOK
<1> HIDE DEF r
<1>3. CASE r <= i - 1
  <2> DEFINE k == (i - 1) - r
  <2>1. k \in 0 .. Count - 1 /\ k \in Nat /\ r + k = i - 1 /\ i - 1 \in Nat /\ i - 1 < Count
    BY <1>1, <1>3
  <2>2. (r + k) % Count = i - 1
    BY <1>1, <2>1, RemainderOfSmall
  <2> HIDE DEF k
  <2> QED
    BY <1>2, <2>1, <2>2
<1>4. CASE ~(r <= i - 1)
  <2> DEFINE k == (i - 1) - r + Count
             s == r + k
  <2>1. k \in 0 .. Count - 1 /\ k \in Nat /\ i - 1 \in Nat /\ i - 1 < Count
    BY <1>1, <1>4
  <2>2. s = Count * 1 + (i - 1) /\ s \in Nat
    BY <1>1
  <2> HIDE DEF k
  <2>3. s % Count = i - 1
    <3> HIDE DEF s
    <3> QED
      BY <1>1, <2>1, <2>2, RemainderIs
  <2> QED
    BY <1>2, <2>1, <2>3
<1> QED
  BY <1>3, <1>4

LEMMA SomeTry ==
    ASSUME TypeOK, NoWrap(Wanted)
    PROVE  Tries # {}
<1>1. PICK i \in 1 .. Count : Levels[i] \in Loads
  BY LevelsOK
<1>2. Wanted \in Nat
  BY WantedIs
<1>3. PICK k \in 0 .. Count - 1 : (Wanted + k) % Count = i - 1
  BY <1>2, AllTried
<1>4. LevelAt((Wanted + k) % Modulus) = Levels[((Wanted + k) % Count) + 1]
  BY <1>2, StepsFrom, LevelsOK
<1>5. LevelAt((Wanted + k) % Modulus) \in Loads
  BY <1>1, <1>3, <1>4
<1> QED
  BY <1>5 DEF Tries

LEMMA FoundStep ==
    ASSUME IInv, NEW r, Choose(r), NoWrap(Wanted)
    PROVE  current' # None
<1>1. Tries # {} /\ Min(Tries) \in Nat /\ Wanted \in Nat
  BY SomeTry, TriesAre, WantedIs DEF IInv
<1> DEFINE id == (Wanted + Min(Tries)) % Modulus
<1>2. id \in Nat
  <2>1. Wanted + Min(Tries) \in Nat
    BY <1>1
  <2> QED
    BY <2>1, Remainder, LevelsOK
<1>3. current' = LevelAt(id)
  BY <1>1 DEF Choose
<1> HIDE DEF id
<1>4. LevelAt(id) \in Level
  BY <1>2, LevelAtIs
<1> QED
  BY <1>3, <1>4, LevelChoiceAssumption

(* A launch finds a level, as currentLevel() asserts, whatever the number  *)
(* of levels, unless NextLevelId wraps within the tries of newLevel().     *)
FoundBeforeWrap == [][Chosen /\ Wanted + Count <= Modulus => current' # None]_vars

THEOREM SomeLevelBeforeWrap == Spec => FoundBeforeWrap
<1>1. IInv => (Chosen /\ Wanted + Count <= Modulus => current' # None)
  BY FoundStep DEF Chosen, NoWrap
<1>2. IInv /\ [Next]_vars =>
        [Chosen /\ Wanted + Count <= Modulus => current' # None]_vars
  BY <1>1
<1> QED
  BY <1>2, Inductive, PTL DEF Spec, FoundBeforeWrap

(* And always when the number of the levels divides 256: the tries go      *)
(* through all of them, wherever NextLevelId stands.                       *)
THEOREM SomeLevelIsFound ==
    ASSUME Even
    PROVE  Spec => LevelIsFound
<1>1. IInv => (Chosen => current' # None)
  BY FoundStep DEF Chosen, NoWrap
<1>2. IInv /\ [Next]_vars => [Chosen => current' # None]_vars
  BY <1>1
<1> QED
  BY <1>2, Inductive, PTL DEF Spec, LevelIsFound

LEMMA RotationStep ==
    ASSUME IInv, NoWrap(nextLevelId + 1), NEW r, Choose(r), preferedMap = None, last # 0,
           \A l \in ToSet(Levels) : ~Enough(l)
    PROVE  current' = After(last)
<1> DEFINE N == nextLevelId
           place(k) == ((last - 1 + k) % Count) + 1
           steps == {k \in 1 .. Count : Levels[place(k)] \in Loads}
           m == Min(Tries)
<1>1. ~VoteSucceeds
  BY SuccessIs
<1>2. Wanted = (N + 1) % Modulus
  <2>1. Place(None) = 0
    BY DEF Place
  <2> QED
    BY <1>1, <2>1 DEF Wanted, AfterVotes, Advanced
<1>3. N \in Nat /\ N + 1 \in Nat /\ last - 1 = N % Count /\ N % Count \in Nat
  <2>1. N \in Nat /\ last = (N % Count) + 1
    BY LevelsOK DEF IInv, TypeOK, LastIsPlace
  <2>2. N % Count \in Nat
    BY <2>1, Remainder, LevelsOK
  <2> QED
    BY <2>1, <2>2
<1> DEFINE w == N + 1
<1>4. w \in Nat /\ Wanted \in Nat /\ Wanted = w % Modulus /\ NoWrap(w)
  BY <1>2, <1>3, WantedIs DEF IInv
<1>5. Wanted % Count = w % Count /\ NoWrap(Wanted)
  <2> HIDE DEF w
  <2>1. CASE Even
    BY <1>4, <2>1, RemainderOfRemainder, LevelsOK DEF Even, NoWrap
  <2>2. CASE w + Count <= Modulus
    <3>1. w < Modulus
      BY <1>4, <2>2, LevelsOK
    <3>2. Wanted = w
      BY <1>4, <3>1, RemainderOfSmall, LevelsOK
    <3> QED
      BY <1>4, <3>2
  <2> QED
    BY <1>4, <2>1, <2>2 DEF NoWrap
<1>6. \A k \in 0 .. Count - 1 :
         LevelAt((Wanted + k) % Modulus) = Levels[((N + (k + 1)) % Count) + 1]
  <2> TAKE k \in 0 .. Count - 1
  <2>1. w + k = N + (k + 1) /\ k \in Nat
    BY <1>3, LevelsOK
  <2> HIDE DEF w
  <2>2. LevelAt((Wanted + k) % Modulus) = Levels[((Wanted + k) % Count) + 1]
    BY <1>4, <1>5, StepsFrom
  <2>3. ((Wanted % Count) + k) % Count = (Wanted + k) % Count
    BY <1>4, <2>1, RemainderOfSum, LevelsOK
  <2>4. ((w % Count) + k) % Count = (w + k) % Count
    BY <1>4, <2>1, RemainderOfSum, LevelsOK
  <2> QED
    BY <1>5, <2>1, <2>2, <2>3, <2>4
<1>7. \A k \in Nat : place(k) = ((N + k) % Count) + 1
  <2> TAKE k \in Nat
  <2>1. ((N % Count) + k) % Count = (N + k) % Count
    BY <1>3, RemainderOfSum, LevelsOK
  <2>2. last - 1 + k = (N % Count) + k
    BY <1>3
  <2> QED
    BY <2>1, <2>2
<1>8. Tries # {} /\ m \in Tries /\ Tries \in SUBSET Nat /\ \A k \in Tries : m <= k
  BY <1>5, SomeTry, TriesAre DEF IInv
<1> HIDE DEF place, N, m, w
<1>9. Min(steps) = m + 1
  <2>1. Tries = {k \in 0 .. Count - 1 : Levels[place(k + 1)] \in Loads}
    <3>1. \A k \in 0 .. Count - 1 :
             LevelAt((Wanted + k) % Modulus) = Levels[place(k + 1)]
      <4> TAKE k \in 0 .. Count - 1
      <4>1. k \in Nat /\ k + 1 \in Nat
        BY LevelsOK
      <4>2. place(k + 1) = ((N + (k + 1)) % Count) + 1
        BY <1>7, <4>1
      <4> QED
        BY <1>6, <4>1, <4>2
    <3> QED
      BY <3>1 DEF Tries
  <2>2. m \in Nat /\ m + 1 \in steps
    BY <1>8, <2>1, LevelsOK
  <2>3. \A k \in steps : k - 1 \in Tries
    <3> TAKE k \in steps
    <3>1. k - 1 \in 0 .. Count - 1 /\ (k - 1) + 1 = k
      BY LevelsOK
    <3> QED
      BY <2>1, <3>1
  <2>4. \A k \in steps : k \in Nat /\ m + 1 <= k
    BY <1>8, <2>2, <2>3, LevelsOK
  <2> HIDE DEF steps
  <2>5. steps \in SUBSET Nat
    BY <2>4
  <2> QED
    BY <2>2, <2>4, <2>5, MinIs
<1>10. m \in Nat /\ LevelAt((Wanted + m) % Modulus) = Levels[place(m + 1)]
  <2>1. m \in 0 .. Count - 1 /\ m + 1 \in Nat
    BY <1>8, LevelsOK DEF Tries
  <2>2. place(m + 1) = ((N + (m + 1)) % Count) + 1
    BY <1>7, <2>1
  <2> QED
    BY <1>6, <2>1, <2>2
<1>11. After(last) = Levels[place(m + 1)]
  BY <1>9 DEF After, place
<1>12. current' = LevelAt((Wanted + m) % Modulus)
  BY <1>8 DEF Choose, m
<1> QED
  BY <1>10, <1>11, <1>12

(* LevelPlaylist, "specify exact levels in exact order": without votes and *)
(* forced maps newLevel() takes the levels in the order of the list, those *)
(* that do not load left out, as long as no other level has been chosen at *)
(* random, and unless NextLevelId wraps within its tries.                  *)
OrderBeforeWrap ==
    [][(/\ Chosen
        /\ preferedMap = None
        /\ last # 0
        /\ nextLevelId + 1 + Count <= Modulus
        /\ \A l \in ToSet(Levels) : ~Enough(l))
       => current' = After(last)]_vars

THEOREM RotationBeforeWrap == Spec => OrderBeforeWrap
<1>1. IInv => ((/\ Chosen
                /\ preferedMap = None
                /\ last # 0
                /\ nextLevelId + 1 + Count <= Modulus
                /\ \A l \in ToSet(Levels) : ~Enough(l)) => current' = After(last))
  BY RotationStep DEF Chosen, NoWrap
<1>2. IInv /\ [Next]_vars =>
        [(/\ Chosen
          /\ preferedMap = None
          /\ last # 0
          /\ nextLevelId + 1 + Count <= Modulus
          /\ \A l \in ToSet(Levels) : ~Enough(l)) => current' = After(last)]_vars
  BY <1>1
<1> QED
  BY <1>2, Inductive, PTL DEF Spec, OrderBeforeWrap

(* And always when the number of the levels divides 256.                   *)
THEOREM RotationKeepsOrder ==
    ASSUME Even
    PROVE  Spec => RotationInOrder
<1>1. IInv => ((/\ Chosen
                /\ preferedMap = None
                /\ last # 0
                /\ \A l \in ToSet(Levels) : ~Enough(l)) => current' = After(last))
  BY RotationStep DEF Chosen, NoWrap
<1>2. IInv /\ [Next]_vars =>
        [(/\ Chosen
          /\ preferedMap = None
          /\ last # 0
          /\ \A l \in ToSet(Levels) : ~Enough(l)) => current' = After(last)]_vars
  BY <1>1
<1> QED
  BY <1>2, Inductive, PTL DEF Spec, RotationInOrder
=============================================================================
