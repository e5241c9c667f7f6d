---------------------------- MODULE Mirror_proofs ----------------------------
(***************************************************************************)
(* Machine-checked proofs about Mirror: for any number of players, bots,   *)
(* identifiers and places, the server and every client agree on who is     *)
(* there.  And about DeltaCode, the code of the differences that Mirror    *)
(* abstracts from: for any difference, the server and every client read    *)
(* the same, and it is one that Mirror allows.                             *)
(***************************************************************************)
EXTENDS Mirror, DeltaCode, FiniteSetTheorems, WellFoundedInduction, TLAPS

-----------------------------------------------------------------------------
(* Identifiers.                                                            *)

(* A set of numbers that is not empty has a least element.                 *)
LEMMA LeastNumber ==
    ASSUME NEW S \in SUBSET Nat, S # {}
    PROVE  \E i \in S : \A j \in S : i <= j
<1>1. \E i \in S : \A j \in S : <<j, i>> \notin OpToRel(<, Nat)
  BY NatLessThanWellFounded, WFMin
<1>2. \A i, j \in Nat : <<j, i>> \in OpToRel(<, Nat) <=> j < i
  BY DEF OpToRel
<1>3. PICK i \in S : \A j \in S : ~(j < i)
  BY <1>1, <1>2
<1> QED
  BY <1>3

(* findNewId() gives an identifier that no entity has.                     *)
LEMMA NewIdIsFree ==
    ASSUME FreeIds # {}
    PROVE  NewId \in FreeIds
<1>1. FreeIds \in SUBSET Nat
  BY MirrorAssumption DEF FreeIds, Id
<1>2. \E i \in FreeIds : \A j \in FreeIds : i <= j
  BY <1>1, LeastNumber
<1> QED
  BY <1>2 DEF NewId

(* The entity at an identifier is the one that has it.                     *)
LEMMA EntityAtItsId ==
    ASSUME DistinctIds, NEW e \in entities
    PROVE  EntityAt(idOf[e]) = e
<1> DEFINE HasIt(f) == f \in entities /\ idOf[f] = idOf[e]
<1>1. \A f : HasIt(f) => f = e
  BY DEF DistinctIds
<1>2. EntityAt(idOf[e]) \in entities /\ idOf[EntityAt(idOf[e])] = idOf[e]
  BY DEF EntityAt
<1> QED
  BY <1>1, <1>2

(* The positions stay on the line.                                         *)
LEMMA ClipInPlace ==
    ASSUME NEW n \in Int
    PROVE  Clip(n) \in Place
BY MirrorAssumption DEF Clip, Place

(* The update counter stays below its period.                              *)
LEMMA CountInPeriod ==
    ASSUME TypeOK, NEW place \in Placement
    PROVE  (CountNow(place) + 1) % FullPeriod \in 0 .. FullPeriod - 1
<1> DEFINE n == CountNow(place) + 1
<1>1. n \in Nat
  BY MirrorAssumption DEF TypeOK, CountNow
<1>2. \A k \in Nat, m \in Nat \ {0} : k % m \in 0 .. m - 1
  BY Z3
<1>3. FullPeriod \in Nat \ {0}
  BY MirrorAssumption
<1> HIDE DEF n
<1>4. n % FullPeriod \in 0 .. FullPeriod - 1
  BY <1>1, <1>2, <1>3
<1> QED
  BY <1>4 DEF n

-----------------------------------------------------------------------------
(* Type correctness.                                                       *)

(* The server starts with nobody there.                                    *)
LEMMA TypeInit == Init => TypeOK
<1> SUFFICES ASSUME Init PROVE TypeOK
  OBVIOUS
<1>1. 0 \in Id /\ 0 \in Place /\ 0 \in 0 .. FullPeriod - 1
  BY MirrorAssumption DEF Id, Place
<1> QED
  BY <1>1 DEF Init, TypeOK

(* Who has connected to, or joined, the server has an identifier.          *)
LEMMA AddTypes ==
    ASSUME TypeOK, NEW e \in Entity \ entities, Add(e)
    PROVE  /\ entities' = entities \cup {e} /\ entities' \subseteq Entity
           /\ NewId \in Id \ IdsOf(entities)
           /\ idOf' = [idOf EXCEPT ![e] = NewId]
           /\ idOf' \in [Entity -> Id]
BY NewIdIsFree DEF Add, TypeOK, FreeIds

(* What clients know of the others, once they have been told of e.         *)
LEMMA TellTypes ==
    ASSUME TypeOK, NEW C, NEW e \in Entity, NEW i \in Id
    PROVE  /\ TellAll(C, e, i) \in [Client -> [Id -> Entity \cup {Nobody}]]
           /\ Forget(C, i) \in [Client -> SUBSET Id]
BY DEF TypeOK, TellAll, Forget

LEMMA RosterType ==
    ASSUME TypeOK
    PROVE  Roster \in [Id -> Entity \cup {Nobody}]
BY DEF TypeOK, Roster, IdsOf

(* The arrivals and departures keep the types.                             *)
LEMMA TypeArrivals ==
    ASSUME TypeOK,
           \/ \E c \in Client : Connect(c) \/ Login(c)
           \/ \E b \in Bot : AddBot(b)
           \/ \E e \in Entity : Remove(e)
    PROVE  TypeOK'
<1> USE MirrorAssumption DEF sentVars, viewVars
<1>1. ASSUME NEW c \in Client, Connect(c) PROVE TypeOK'
  <2>1. c \in Entity \ entities /\ Add(c)
    BY <1>1 DEF Connect, Entity
  <2>2. entities' \subseteq Entity /\ entities \subseteq entities' /\ idOf' \in [Entity -> Id]
    BY <2>1, AddTypes
  <2> QED
    BY <1>1, <2>2 DEF Connect, TypeOK
<1>2. ASSUME NEW c \in Client, Login(c) PROVE TypeOK'
  <2>1. c \in entities /\ c \in Entity /\ idOf[c] \in Id
    BY <1>2 DEF Login, Pending, TypeOK
  <2>2. knows' \in [Client -> [Id -> Entity \cup {Nobody}]]
    BY <1>2, <2>1, TellTypes, RosterType DEF Login
  <2>3. synced' \in [Client -> SUBSET Id]
    BY <1>2, <2>1, TellTypes DEF Login
  <2>4. updateIds' \subseteq Id
    BY <1>2 DEF Login, UpdateIdUpdateList, TypeOK
  <2>5. disturbed' \in BOOLEAN
    BY <1>2 DEF Login, TypeOK
  <2> QED
    BY <1>2, <2>1, <2>2, <2>3, <2>4, <2>5 DEF Login, TypeOK
<1>3. ASSUME NEW b \in Bot, AddBot(b) PROVE TypeOK'
  <2>1. b \in Entity \ entities /\ Add(b)
    BY <1>3 DEF AddBot, Entity
  <2>2. entities' \subseteq Entity /\ entities \subseteq entities' /\ idOf' \in [Entity -> Id]
    BY <2>1, AddTypes
  <2>3. idOf'[b] \in Id
    BY <2>1, <2>2
  <2>4. knows' \in [Client -> [Id -> Entity \cup {Nobody}]] /\ synced' \in [Client -> SUBSET Id]
    BY <1>3, <2>1, <2>3, TellTypes DEF AddBot
  <2>5. updateIds' \subseteq Id
    BY <1>3, <2>2 DEF AddBot, UpdateIdUpdateList
  <2>6. disturbed' \in BOOLEAN
    BY <1>3 DEF AddBot, TypeOK
  <2> QED
    BY <1>3, <2>2, <2>4, <2>5, <2>6 DEF AddBot, TypeOK
<1>4. ASSUME NEW e \in Entity, Remove(e) PROVE TypeOK'
  <2>1. knows' \in [Client -> [Id -> Entity \cup {Nobody}]]
    BY <1>4 DEF Remove, LogoutSent, TypeOK
  <2>2. synced' \in [Client -> SUBSET Id]
    BY <1>4 DEF Remove, TypeOK
  <2>3. toOthers' \in [Entity -> Place] /\ toMe' \in [Client -> Place]
    BY <1>4 DEF Remove, TypeOK, Place
  <2>4. seen' \in [Client -> [Id -> Place]] /\ seenMe' \in [Client -> Place]
    BY <1>4 DEF Remove, TypeOK, Place
  <2>5. idOf' \in [Entity -> Id]
    BY <1>4 DEF Remove, TypeOK, Id
  <2> QED
    BY <1>4, <2>1, <2>2, <2>3, <2>4, <2>5 DEF Remove, LogOut, TypeOK
<1> QED
  BY <1>1, <1>2, <1>3, <1>4

(* The updates keep the types: whatever they change, they change to a place on the line. *)
LEMMA TypeUpdates ==
    ASSUME TypeOK,
           Reset \/ \E place \in Placement : NetworkUpdate(place)
    PROVE  TypeOK'
<1> USE DEF serverVars, viewVars
<1>1. CASE Reset
  BY <1>1, MirrorAssumption DEF Reset, TypeOK
<1>2. ASSUME NEW place \in Placement, FullUpdate(place) PROVE TypeOK'
  <2>1. updateCount' \in 0 .. FullPeriod - 1
    BY <1>2, CountInPeriod DEF FullUpdate, NextCount
  <2>2. \A e \in entities : place[e] \in Place
    BY DEF Placement
  <2>3. toOthers' \in [Entity -> Place] /\ toMe' \in [Client -> Place]
    BY <1>2, <2>2 DEF FullUpdate, TypeOK
  <2>4. \A i \in IdsOf(entities) : EntityAt(i) \in entities
    BY DEF IdsOf, EntityAt
  <2>5. seen' \in [Client -> [Id -> Place]]
    BY <1>2, <2>2, <2>4 DEF FullUpdate, TypeOK
  <2>6. seenMe' \in [Client -> Place]
    BY <1>2, <2>2 DEF FullUpdate, TypeOK
  <2>7. synced' \in [Client -> SUBSET Id]
    BY <1>2 DEF FullUpdate, TypeOK, Known
  <2> QED
    BY <1>2, <2>1, <2>3, <2>5, <2>6, <2>7 DEF FullUpdate, TypeOK
<1>3. ASSUME NEW place \in Placement, Update(place) PROVE TypeOK'
  <2>1. updateCount' \in 0 .. FullPeriod - 1
    BY <1>3, CountInPeriod DEF Update, NextCount
  <2>2. toOthers' \in [Entity -> Place]
    BY <1>3 DEF Update
  <2>3. toMe' \in [Client -> Place]
    BY <1>3, <2>2 DEF Update, TypeOK, Entity
  <2>4. \A i \in IdsOf(entities) : EntityAt(i) \in entities
    BY DEF IdsOf, EntityAt
  <2>5. ASSUME NEW c \in Client, NEW i \in Id PROVE Receive(c, i) \in Place
    <3> DEFINE mine == {u \in SentIds : Rank(u, SentIds) = Rank(i, Known(c))}
    <3>1. CASE c \in networkReady /\ i \in Known(c) /\ mine # {}
      <4> DEFINE e == EntityAt(CHOOSE u \in mine : TRUE)
      <4>1. (CHOOSE u \in mine : TRUE) \in IdsOf(entities)
        BY <3>1 DEF SentIds
      <4>2. e \in Entity
        BY <4>1, <2>4 DEF TypeOK
      <4>3. seen[c][i] + toOthers'[e] - toOthers[e] \in Int
        BY <4>2, <2>2 DEF TypeOK, Place
      <4> QED
        BY <3>1, <4>3, ClipInPlace DEF Receive
    <3>2. CASE ~(c \in networkReady /\ i \in Known(c) /\ mine # {})
      BY <3>2 DEF Receive, TypeOK
    <3> QED
      BY <3>1, <3>2
  <2>6. seen' \in [Client -> [Id -> Place]]
    BY <1>3, <2>5 DEF Update
  <2>7. seenMe' \in [Client -> Place]
    BY <1>3, <2>6 DEF Update, TypeOK, Entity
  <2>8. disturbed' \in BOOLEAN
    BY <1>3 DEF Update, TypeOK
  <2> QED
    BY <1>3, <2>1, <2>2, <2>3, <2>6, <2>7, <2>8 DEF Update, TypeOK
<1>4. ASSUME NEW place \in Placement, UpdateOne(place) PROVE TypeOK'
  <2>1. updateCount' \in 0 .. FullPeriod - 1
    BY <1>4, CountInPeriod DEF UpdateOne, NextCount
  <2>2. ASSUME NEW c \in Client PROVE Clip(seenMe[c] + toMe'[c] - toMe[c]) \in Place
    <3>1. seenMe[c] + toMe'[c] - toMe[c] \in Int
      BY <1>4 DEF UpdateOne, TypeOK, Place
    <3> QED
      BY <3>1, ClipInPlace
  <2>3. seenMe' \in [Client -> Place]
    BY <1>4, <2>2 DEF UpdateOne, TypeOK
  <2> QED
    BY <1>4, <2>1, <2>3 DEF UpdateOne, TypeOK
<1> QED
  BY <1>1, <1>2, <1>3, <1>4 DEF NetworkUpdate

(* Every step keeps the types.                                             *)
LEMMA TypeNext ==
    ASSUME TypeOK, [Next]_vars
    PROVE  TypeOK'
<1>1. CASE Next
  BY <1>1, TypeArrivals, TypeUpdates DEF Next
<1>2. CASE UNCHANGED vars
  BY <1>2 DEF vars, serverVars, sentVars, viewVars, TypeOK
<1> QED
  BY <1>1, <1>2

-----------------------------------------------------------------------------
(* The roster.                                                             *)

(* The inductive invariant is the one the run checks: identifiers are      *)
(* distinct, and each client's list is the server's.                       *)
LEMMA RosterInit == Init => RosterInv
<1> SUFFICES ASSUME Init PROVE RosterInv
  OBVIOUS
<1>1. entities = {} /\ networkReady = {}
  BY DEF Init
<1>2. DistinctIds /\ RosterAgrees
  BY <1>1 DEF DistinctIds, RosterAgrees, NamedAreKnown, OnlyNamedAreKnown
<1> QED
  BY <1>2, TypeInit DEF RosterInv

(* findNewId() keeps the identifiers distinct.                             *)
LEMMA AddKeepsDistinct ==
    ASSUME RosterInv, NEW e \in Entity \ entities, Add(e)
    PROVE  /\ DistinctIds'
           /\ idOf'[e] \notin IdsOf(entities)
           /\ \A f \in entities : idOf'[f] = idOf[f]
<1>1. TypeOK /\ DistinctIds
  BY DEF RosterInv
<1>2. /\ entities' = entities \cup {e}
      /\ NewId \in Id \ IdsOf(entities)
      /\ idOf' = [idOf EXCEPT ![e] = NewId]
  BY <1>1, AddTypes
<1>3. idOf'[e] = NewId /\ \A f \in entities : idOf'[f] = idOf[f]
  BY <1>1, <1>2 DEF TypeOK
<1>4. \A f \in entities : idOf'[f] # idOf'[e]
  BY <1>2, <1>3 DEF IdsOf
<1> QED
  BY <1>1, <1>2, <1>3, <1>4 DEF DistinctIds

(* A client that connects is nobody to the others until it logs in.        *)
LEMMA RosterConnect ==
    ASSUME RosterInv, NEW c \in Client, Connect(c)
    PROVE  DistinctIds' /\ RosterAgrees'
<1>1. c \in Entity \ entities /\ Add(c)
  BY DEF Connect, Entity
<1>2. DistinctIds' /\ \A f \in entities : idOf'[f] = idOf[f]
  BY <1>1, AddKeepsDistinct
<1>3. Named' = Named
  BY MirrorAssumption DEF Named, Connect, Add
<1>4. Named \subseteq entities
  BY DEF RosterInv, TypeOK, Named
<1>5. IdsOf(Named)' = IdsOf(Named)
  BY <1>2, <1>3, <1>4 DEF IdsOf
<1>6. knows' = knows /\ networkReady' = networkReady /\ disturbed' = disturbed
  BY DEF Connect, viewVars
<1>7. NamedAreKnown'
  BY <1>2, <1>3, <1>4, <1>6 DEF RosterInv, RosterAgrees, NamedAreKnown
<1>8. OnlyNamedAreKnown'
  BY <1>5, <1>6 DEF RosterInv, RosterAgrees, OnlyNamedAreKnown, Known
<1> QED
  BY <1>2, <1>7, <1>8 DEF RosterAgrees

(* A login tells the others of the client, and the client of everybody.    *)
LEMMA RosterLogin ==
    ASSUME RosterInv, NEW c \in Client, Login(c)
    PROVE  DistinctIds' /\ RosterAgrees'
<1>1. TypeOK /\ DistinctIds /\ NamedAreKnown /\ OnlyNamedAreKnown
  BY DEF RosterInv, RosterAgrees
<1>2. /\ c \in entities \ Named /\ entities' = entities /\ idOf' = idOf
      /\ networkReady' = networkReady \cup {c}
      /\ knows' = [TellAll(networkReady, c, idOf[c]) EXCEPT ![c] = Roster]
  BY DEF Login, Pending
<1>3. Named' = Named \cup {c} /\ Named \subseteq entities /\ c \notin networkReady
  BY <1>1, <1>2 DEF Named, TypeOK
<1>4. knows'[c] = Roster
  BY <1>2 DEF TellAll
<1>5. ASSUME NEW d \in networkReady
      PROVE  knows'[d] = [knows[d] EXCEPT ![idOf[c]] = c]
  BY <1>1, <1>2, <1>3 DEF TellAll, TypeOK
<1>6. \A e \in entities : Roster[idOf[e]] = e
  <2> SUFFICES ASSUME NEW e \in entities PROVE Roster[idOf[e]] = e
    OBVIOUS
  <2>1. idOf[e] \in Id /\ idOf[e] \in IdsOf(entities)
    BY <1>1 DEF TypeOK, IdsOf
  <2>2. Roster[idOf[e]] = EntityAt(idOf[e])
    BY <2>1 DEF Roster, EntityAt
  <2> QED
    BY <1>1, <2>2, EntityAtItsId
<1>7. NamedAreKnown'
  <2> SUFFICES ASSUME NEW d \in networkReady', NEW e \in Named' PROVE knows'[d][idOf[e]] = e
    BY <1>2 DEF NamedAreKnown
  <2>0. e \in entities /\ idOf[e] \in Id /\ idOf[c] \in Id
    BY <1>1, <1>2, <1>3 DEF TypeOK
  <2>1. CASE d = c
    BY <2>0, <2>1, <1>4, <1>6
  <2>2. CASE d # c
    <3>1. d \in networkReady /\ knows[d] \in [Id -> Entity \cup {Nobody}]
      BY <2>2, <1>1, <1>2 DEF TypeOK
    <3>2. CASE e = c
      <4>1. knows'[d] = [knows[d] EXCEPT ![idOf[c]] = c]
        BY <3>1, <1>5
      <4> QED
        BY <4>1, <3>1, <3>2, <2>0
    <3>3. CASE e # c
      <4>1. e \in Named /\ idOf[e] # idOf[c]
        BY <3>3, <1>1, <1>2, <1>3 DEF DistinctIds
      <4> QED
        BY <4>1, <3>1, <2>0, <1>1, <1>5 DEF NamedAreKnown
    <3> QED
      BY <3>2, <3>3
  <2> QED
    BY <2>1, <2>2
<1>8. OnlyNamedAreKnown'
  <2> SUFFICES ASSUME ~disturbed', NEW d \in networkReady' PROVE Known(d)' = IdsOf(Named)'
    BY DEF OnlyNamedAreKnown
  <2>1. ~disturbed /\ Pending = {c}
    BY DEF Login
  <2>2. Named' = entities /\ IdsOf(Named)' = IdsOf(entities) /\ IdsOf(entities) \subseteq Id
    BY <2>1, <1>1, <1>2, <1>3 DEF Pending, IdsOf, TypeOK
  <2>3. CASE d = c
    <3>1. \A i \in Id : Roster[i] # Nobody <=> i \in IdsOf(entities)
      <4> SUFFICES ASSUME NEW i \in Id PROVE Roster[i] # Nobody <=> i \in IdsOf(entities)
        OBVIOUS
      <4>1. CASE i \in IdsOf(entities)
        BY <4>1, <1>1, <1>6, MirrorAssumption DEF IdsOf, TypeOK
      <4>2. CASE i \notin IdsOf(entities)
        BY <4>2 DEF Roster
      <4> QED
        BY <4>1, <4>2
    <3> QED
      BY <2>2, <2>3, <3>1, <1>4 DEF Known
  <2>4. CASE d # c
    <3>1. d \in networkReady /\ knows[d] \in [Id -> Entity \cup {Nobody}] /\ idOf[c] \in Id
      BY <2>4, <1>1, <1>2 DEF TypeOK
    <3>2. Known(d)' = Known(d) \cup {idOf[c]}
      BY <3>1, <1>5, MirrorAssumption DEF Known, Entity
    <3>3. Known(d) = IdsOf(Named)
      BY <2>1, <3>1, <1>1 DEF OnlyNamedAreKnown
    <3>4. IdsOf(Named)' = IdsOf(Named) \cup {idOf[c]}
      BY <1>2, <1>3 DEF IdsOf
    <3> QED
      BY <3>2, <3>3, <3>4
  <2> QED
    BY <2>3, <2>4
<1>9. DistinctIds'
  BY <1>1, <1>2 DEF DistinctIds
<1> QED
  BY <1>7, <1>8, <1>9 DEF RosterAgrees

(* A bot that joins is made known to every client.                         *)
LEMMA RosterAddBot ==
    ASSUME RosterInv, NEW b \in Bot, AddBot(b)
    PROVE  DistinctIds' /\ RosterAgrees'
<1>1. TypeOK /\ DistinctIds /\ NamedAreKnown /\ OnlyNamedAreKnown
  BY DEF RosterInv, RosterAgrees
<1>2. b \in Entity \ entities /\ Add(b)
  BY DEF AddBot, Entity
<1>3. /\ DistinctIds' /\ idOf'[b] \notin IdsOf(entities) /\ idOf'[b] \in Id
      /\ \A f \in entities : idOf'[f] = idOf[f]
  BY <1>1, <1>2, AddKeepsDistinct, AddTypes
<1>4. /\ entities' = entities \cup {b} /\ networkReady' = networkReady
      /\ knows' = TellAll(networkReady, b, idOf'[b])
  BY DEF AddBot, Add
<1>5. Named' = Named \cup {b} /\ Named \subseteq entities
  BY <1>1, <1>4 DEF Named, TypeOK
<1>6. ASSUME NEW d \in networkReady
      PROVE  /\ knows[d] \in [Id -> Entity \cup {Nobody}]
             /\ knows'[d] = [knows[d] EXCEPT ![idOf'[b]] = b]
  BY <1>1, <1>4 DEF TellAll, TypeOK
<1>7. NamedAreKnown'
  <2> SUFFICES ASSUME NEW d \in networkReady, NEW e \in Named' PROVE knows'[d][idOf'[e]] = e
    BY <1>4 DEF NamedAreKnown
  <2>0. knows[d] \in [Id -> Entity \cup {Nobody}] /\ knows'[d] = [knows[d] EXCEPT ![idOf'[b]] = b]
    BY <1>6
  <2>1. CASE e = b
    <3>1. knows'[d][idOf'[b]] = b
      BY <2>0, <1>3
    <3> QED
      BY <2>1, <3>1
  <2>2. CASE e # b
    <3>1. e \in Named /\ e \in entities
      BY <2>2, <1>5
    <3>2. idOf'[e] = idOf[e] /\ idOf[e] \in IdsOf(entities) /\ idOf[e] \in Id
      BY <3>1, <1>1, <1>3 DEF IdsOf, TypeOK
    <3>3. knows[d][idOf[e]] = e
      BY <3>1, <1>1 DEF NamedAreKnown
    <3>4. idOf'[b] # idOf[e] /\ idOf'[b] \in Id
      BY <3>2, <1>3
    <3>5. knows'[d][idOf[e]] = knows[d][idOf[e]]
      BY <2>0, <3>2, <3>4
    <3> QED
      BY <3>2, <3>3, <3>5
  <2> QED
    BY <2>1, <2>2
<1>8. OnlyNamedAreKnown'
  <2> SUFFICES ASSUME ~disturbed', NEW d \in networkReady PROVE Known(d)' = IdsOf(Named)'
    BY <1>4 DEF OnlyNamedAreKnown
  <2>1. ~disturbed
    BY DEF AddBot
  <2>2. Known(d)' = Known(d) \cup {idOf'[b]}
    <3>1. knows[d] \in [Id -> Entity \cup {Nobody}] /\ knows'[d] = [knows[d] EXCEPT ![idOf'[b]] = b]
      BY <1>6
    <3>2. b # Nobody
      BY <1>2, MirrorAssumption
    <3>3. \A i \in Id : knows'[d][i] # Nobody <=> i = idOf'[b] \/ knows[d][i] # Nobody
      BY <3>1, <3>2, <1>3
    <3> QED
      BY <3>3, <1>3 DEF Known
  <2>3. Known(d) = IdsOf(Named)
    BY <2>1, <1>1 DEF OnlyNamedAreKnown
  <2>4. IdsOf(Named)' = IdsOf(Named) \cup {idOf'[b]}
    BY <1>3, <1>5 DEF IdsOf
  <2> QED
    BY <2>2, <2>3, <2>4
<1> QED
  BY <1>3, <1>7, <1>8 DEF RosterAgrees

(* A departure takes the entity from every list it was in.                 *)
LEMMA RosterRemove ==
    ASSUME RosterInv, NEW e \in Entity, Remove(e)
    PROVE  DistinctIds' /\ RosterAgrees'
<1>1. TypeOK /\ DistinctIds /\ NamedAreKnown /\ OnlyNamedAreKnown
  BY DEF RosterInv, RosterAgrees
<1>2. /\ e \in entities /\ entities' = entities \ {e}
      /\ networkReady' = networkReady \ {e}
      /\ disturbed' = disturbed
  BY DEF Remove, LogOut
<1>3. \A f \in entities' : idOf'[f] = idOf[f] /\ idOf[f] # idOf[e] /\ idOf[f] \in Id
  BY <1>1, <1>2 DEF Remove, TypeOK, DistinctIds
<1>4. Named' = Named \ {e} /\ Named \subseteq entities
  BY <1>1, <1>2 DEF Named, TypeOK
<1>5. DistinctIds'
  BY <1>1, <1>2, <1>3 DEF DistinctIds
<1>6. ASSUME NEW d \in networkReady'
      PROVE  /\ d \in networkReady /\ knows[d] \in [Id -> Entity \cup {Nobody}]
             /\ e \in Named => knows'[d] = [knows[d] EXCEPT ![idOf[e]] = Nobody]
             /\ e \notin Named => knows'[d] = knows[d]
  BY <1>1, <1>2 DEF Remove, LogoutSent, TypeOK
<1>7. NamedAreKnown'
  <2> SUFFICES ASSUME NEW d \in networkReady', NEW f \in Named' PROVE knows'[d][idOf'[f]] = f
    BY DEF NamedAreKnown
  <2>1. f \in Named /\ f \in entities'
    BY <1>2, <1>4
  <2>2. idOf'[f] = idOf[f] /\ idOf[f] # idOf[e] /\ idOf[f] \in Id
    BY <2>1, <1>3
  <2>3. knows[d][idOf[f]] = f
    BY <2>1, <1>1, <1>6 DEF NamedAreKnown
  <2>4. CASE e \in Named
    <3>1. /\ knows[d] \in [Id -> Entity \cup {Nobody}]
          /\ knows'[d] = [knows[d] EXCEPT ![idOf[e]] = Nobody]
      BY <1>6, <2>4
    <3> QED
      BY <2>2, <2>3, <3>1
  <2>5. CASE e \notin Named
    BY <1>6, <2>2, <2>3, <2>5
  <2> QED
    BY <2>4, <2>5
<1>8. OnlyNamedAreKnown'
  <2> SUFFICES ASSUME ~disturbed, NEW d \in networkReady' PROVE Known(d)' = IdsOf(Named)'
    BY <1>2 DEF OnlyNamedAreKnown
  <2>1. Known(d) = IdsOf(Named)
    BY <1>1, <1>6 DEF OnlyNamedAreKnown
  <2>2. CASE e \in Named
    <3>1. Known(d)' = Known(d) \ {idOf[e]}
      <4>1. /\ knows[d] \in [Id -> Entity \cup {Nobody}]
            /\ knows'[d] = [knows[d] EXCEPT ![idOf[e]] = Nobody]
        BY <2>2, <1>6
      <4>2. \A i \in Id : knows'[d][i] # Nobody <=> i # idOf[e] /\ knows[d][i] # Nobody
        BY <4>1
      <4> QED
        BY <4>2 DEF Known
    <3>2. IdsOf(Named)' = IdsOf(Named) \ {idOf[e]}
      BY <1>2, <1>3, <1>4 DEF IdsOf
    <3> QED
      BY <2>1, <3>1, <3>2
  <2>3. CASE e \notin Named
    <3>1. Known(d)' = Known(d)
      BY <2>3, <1>6 DEF Known
    <3>2. IdsOf(Named)' = IdsOf(Named)
      BY <2>3, <1>2, <1>3, <1>4 DEF IdsOf
    <3> QED
      BY <2>1, <3>1, <3>2
  <2> QED
    BY <2>2, <2>3
<1> QED
  BY <1>5, <1>7, <1>8 DEF RosterAgrees

(* The updates say nothing about who is there.                             *)
LEMMA RosterStays ==
    ASSUME RosterInv, UNCHANGED <<entities, idOf, networkReady, knows>>,
           disturbed => disturbed'
    PROVE  DistinctIds' /\ RosterAgrees'
<1>1. Named' = Named /\ IdsOf(Named)' = IdsOf(Named) /\ \A c : Known(c)' = Known(c)
  BY DEF Named, IdsOf, Known
<1> QED
  BY <1>1 DEF RosterInv, DistinctIds, RosterAgrees, NamedAreKnown, OnlyNamedAreKnown

(* The invariant is inductive.                                             *)
LEMMA RosterNext ==
    ASSUME RosterInv, [Next]_vars
    PROVE  RosterInv'
<1>1. TypeOK'
  BY TypeNext DEF RosterInv
<1>2. DistinctIds' /\ RosterAgrees'
  <2>1. ASSUME NEW c \in Client, Connect(c) \/ Login(c) PROVE DistinctIds' /\ RosterAgrees'
    BY <2>1, RosterConnect, RosterLogin
  <2>2. ASSUME NEW b \in Bot, AddBot(b) PROVE DistinctIds' /\ RosterAgrees'
    BY <2>2, RosterAddBot
  <2>3. ASSUME NEW e \in Entity, Remove(e) PROVE DistinctIds' /\ RosterAgrees'
    BY <2>3, RosterRemove
  <2>4. CASE Reset \/ UNCHANGED vars
    BY <2>4, RosterStays DEF Reset, vars, serverVars, viewVars
  <2>5. ASSUME NEW place \in Placement, NetworkUpdate(place)
        PROVE  DistinctIds' /\ RosterAgrees'
    <3>1. UNCHANGED <<entities, idOf, networkReady, knows>> /\ (disturbed => disturbed')
      <4>1. CASE FullUpdate(place)
        BY <4>1 DEF FullUpdate, serverVars
      <4>2. CASE Update(place)
        BY <4>2 DEF Update, serverVars
      <4>3. CASE UpdateOne(place)
        BY <4>3 DEF UpdateOne, serverVars
      <4> QED
        BY <2>5, <4>1, <4>2, <4>3 DEF NetworkUpdate
    <3> QED
      BY <3>1, RosterStays
  <2> QED
    BY <2>1, <2>2, <2>3, <2>4, <2>5 DEF Next
<1> QED
  BY <1>1, <1>2 DEF RosterInv

-----------------------------------------------------------------------------
(* Whoever connects, logs in, joins and leaves, and under whatever         *)
(* identifiers that are given out again: no two entities share one, every  *)
(* client knows every named entity under it and, if no pending client came *)
(* in the way, nobody else.  (entity_manager.cpp: findNewId, login, remove; *)
(* the client's cbLogin and cbLogout)                                      *)
THEOREM RosterCorrect == Spec => []RosterInv
<1>1. Init => RosterInv
  BY RosterInit
<1>2. RosterInv /\ [Next]_vars => RosterInv'
  BY RosterNext
<1> QED
  BY <1>1, <1>2, PTL DEF Spec

(* The same for the specification the run checks, which adds only fairness. *)
THEOREM RosterCorrectFair == FairSpec => []RosterInv
BY RosterCorrect, PTL DEF FairSpec

-----------------------------------------------------------------------------
(* The differences.                                                        *)

(* IdUpdateList holds the identifier of every entity that has a name.      *)
NamedAreSent == IdsOf(Named) \subseteq updateIds

(* The inductive invariant.                                                *)
StepInv == RosterInv /\ NamedAreSent /\ InStep

(* A place in a finite set is a number.                                    *)
LEMMA RankInNat ==
    ASSUME NEW S \in SUBSET Int, IsFiniteSet(S), NEW i \in S
    PROVE  Rank(i, S) \in Nat
<1>1. {j \in S : j < i} \subseteq S
  OBVIOUS
<1> QED
  BY <1>1, FS_Subset, FS_CardinalityType DEF Rank

(* Two members of a finite set of numbers are not at the same place.       *)
LEMMA RankTells ==
    ASSUME NEW S \in SUBSET Int, IsFiniteSet(S), NEW i \in S, NEW j \in S, i < j
    PROVE  Rank(i, S) < Rank(j, S)
<1> DEFINE Below(k) == {n \in S : n < k}
<1>0. i \in Int /\ j \in Int /\ \A n \in S : n \in Int
  OBVIOUS
<1>1. Below(i) \subseteq Below(j) /\ i \in Below(j) /\ i \notin Below(i)
  <2>1. ~(i < i) /\ \A n \in S : n < i => n < j
    BY <1>0
  <2> QED
    BY <2>1
<1>2. Below(j) \subseteq S
  OBVIOUS
<1>3. IsFiniteSet(Below(j))
  BY <1>2, FS_Subset
<1>4. /\ IsFiniteSet(Below(i)) /\ Cardinality(Below(i)) <= Cardinality(Below(j))
      /\ Cardinality(Below(j)) = Cardinality(Below(i)) => Below(j) = Below(i)
  BY <1>1, <1>3, FS_Subset
<1>5. Cardinality(Below(i)) \in Nat /\ Cardinality(Below(j)) \in Nat
  BY <1>3, <1>4, FS_CardinalityType
<1>6. Cardinality(Below(i)) < Cardinality(Below(j))
  BY <1>1, <1>4, <1>5
<1> QED
  BY <1>6 DEF Rank

(* The identifiers an Update carries differences for are those its reader  *)
(* knows: the n-th difference is that of the n-th entity.                  *)
LEMMA SentIsKnown ==
    ASSUME StepInv, NEW place \in Placement, Update(place), ~disturbed',
           NEW c \in networkReady
    PROVE  SentIds = Known(c) /\ Known(c) = IdsOf(Named)
<1>1. TypeOK /\ NamedAreSent
  BY DEF StepInv, RosterInv
<1>2. ~disturbed /\ \A e \in Pending : idOf[e] \notin updateIds
  BY DEF Update
<1>3. Known(c) = IdsOf(Named)
  BY <1>2 DEF StepInv, RosterInv, RosterAgrees, OnlyNamedAreKnown
<1>4. Named \subseteq entities
  BY <1>1 DEF Named, TypeOK
<1>5. SentIds = IdsOf(Named)
  BY <1>1, <1>2, <1>4 DEF NamedAreSent, SentIds, IdsOf, Pending
<1> QED
  BY <1>3, <1>5

(* What the reader makes of the differences of an Update.                  *)
LEMMA ReceivesItsOwn ==
    ASSUME StepInv, NEW place \in Placement, Update(place), ~disturbed',
           NEW c \in networkReady, NEW e \in Named
    PROVE  Receive(c, idOf[e]) = Clip(seen[c][idOf[e]] + toOthers'[e] - toOthers[e])
<1> DEFINE i == idOf[e]
           mine == {u \in SentIds : Rank(u, SentIds) = Rank(i, Known(c))}
<1>1. TypeOK /\ DistinctIds /\ e \in entities
  BY DEF StepInv, RosterInv, TypeOK, Named
<1>2. SentIds = Known(c) /\ i \in SentIds
  BY SentIsKnown DEF IdsOf
<1>3. SentIds \in SUBSET Int /\ IsFiniteSet(SentIds)
  <2>1. SentIds \subseteq 0 .. MaxId
    BY <1>1 DEF SentIds, TypeOK, Id
  <2>2. IsFiniteSet(0 .. MaxId)
    BY MirrorAssumption, FS_Interval
  <2>3. IsFiniteSet(SentIds)
    BY <2>1, <2>2, FS_Subset
  <2>4. SentIds \subseteq Int
    BY <2>1, MirrorAssumption
  <2> QED
    BY <2>3, <2>4
<1>4. \A u \in SentIds : Rank(u, SentIds) = Rank(i, SentIds) => u = i
  <2> SUFFICES ASSUME NEW u \in SentIds, Rank(u, SentIds) = Rank(i, SentIds), u # i
               PROVE  FALSE
    OBVIOUS
  <2>1. u \in Int /\ i \in Int
    BY <1>2, <1>3
  <2>2. CASE u < i
    <3>1. Rank(u, SentIds) < Rank(i, SentIds)
      BY <2>2, <1>2, <1>3, RankTells
    <3>2. Rank(u, SentIds) \in Nat
      BY <1>3, RankInNat
    <3> QED
      BY <3>1, <3>2
  <2>3. CASE i < u
    <3>1. Rank(i, SentIds) < Rank(u, SentIds)
      BY <2>3, <1>2, <1>3, RankTells
    <3>2. Rank(u, SentIds) \in Nat
      BY <1>3, RankInNat
    <3> QED
      BY <3>1, <3>2
  <2> QED
    BY <2>1, <2>2, <2>3
<1>5. mine = {i}
  BY <1>2, <1>4
<1>6. EntityAt(CHOOSE u \in mine : TRUE) = e
  BY <1>1, <1>5, EntityAtItsId
<1> HIDE DEF mine, i
<1>7. c \in networkReady /\ i \in Known(c) /\ mine # {}
  BY <1>2, <1>5
<1> QED
  BY <1>6, <1>7 DEF Receive, mine, i

(* A place on the line is not clipped.                                     *)
LEMMA ClipKeepsPlaces ==
    ASSUME NEW p \in Place
    PROVE  Clip(p) = p
BY MirrorAssumption DEF Clip, Place

(* What the server adds to where it said an entity is, the client adds to  *)
(* where it saw it.                                                        *)
LEMMA AddsTheSame ==
    ASSUME NEW p \in Place, NEW q \in Place
    PROVE  Clip(p + q - p) = q
<1>1. p + q - p = q
  BY MirrorAssumption DEF Place
<1> QED
  BY <1>1, ClipKeepsPlaces

-----------------------------------------------------------------------------
(* Arrivals and departures keep the views in step.                         *)
LEMMA StepConnect ==
    ASSUME StepInv, NEW c \in Client, Connect(c)
    PROVE  NamedAreSent' /\ InStep'
<1>1. TypeOK /\ c \in Entity \ entities /\ Add(c)
  BY DEF StepInv, RosterInv, Connect, Entity
<1>2. \A f \in entities : idOf'[f] = idOf[f]
  BY <1>1, AddKeepsDistinct DEF StepInv
<1>3. Named' = Named /\ Named \subseteq entities
  BY <1>1, MirrorAssumption DEF Named, Connect, Add, TypeOK
<1>4. networkReady \subseteq Named
  BY DEF Named
<1>5. UNCHANGED <<networkReady, updateIds, seen, seenMe, synced, toOthers, toMe, disturbed>>
  BY DEF Connect, sentVars, viewVars
<1> QED
  BY <1>2, <1>3, <1>4, <1>5 DEF StepInv, NamedAreSent, InStep, IdsOf

LEMMA StepLogin ==
    ASSUME StepInv, NEW c \in Client, Login(c)
    PROVE  NamedAreSent' /\ InStep'
<1>1. TypeOK
  BY DEF StepInv, RosterInv
<1>2. /\ c \in entities \ Named /\ entities' = entities /\ idOf' = idOf
      /\ networkReady' = networkReady \cup {c}
      /\ synced' = [Forget(networkReady, idOf[c]) EXCEPT ![c] = {}]
      /\ updateIds' = IdsOf(entities)
      /\ UNCHANGED <<seen, seenMe, toOthers, toMe>>
      /\ ~disturbed' => ~disturbed
  BY DEF Login, Pending, UpdateIdUpdateList, sentVars, IdsOf
<1>3. Named' = Named \cup {c} /\ Named' \subseteq entities
  BY <1>1, <1>2 DEF Named, TypeOK
<1>4. NamedAreSent'
  BY <1>2, <1>3 DEF NamedAreSent, IdsOf
<1>5. synced'[c] = {} /\ \A d \in networkReady : d # c => synced'[d] = synced[d] \ {idOf[c]}
  BY <1>1, <1>2 DEF Forget, TypeOK
<1>6. InStep'
  <2> SUFFICES ASSUME ~disturbed', NEW d \in networkReady'
               PROVE  /\ \A e \in Named' :
                           idOf[e] \in synced'[d] => seen[d][idOf[e]] = toOthers[e]
                      /\ idOf[d] \in synced'[d] => seenMe[d] = toMe[d]
    BY <1>2 DEF InStep
  <2>1. CASE d = c
    BY <2>1, <1>5
  <2>2. CASE d # c
    <3>1. d \in networkReady /\ synced'[d] = synced[d] \ {idOf[c]}
      BY <2>2, <1>2, <1>5
    <3> QED
      BY <3>1, <1>2, <1>3 DEF StepInv, InStep
  <2> QED
    BY <2>1, <2>2
<1> QED
  BY <1>4, <1>6

LEMMA StepAddBot ==
    ASSUME StepInv, NEW b \in Bot, AddBot(b)
    PROVE  NamedAreSent' /\ InStep'
<1>1. TypeOK /\ b \in Entity \ entities /\ Add(b)
  BY DEF StepInv, RosterInv, AddBot, Entity
<1>2. \A f \in entities : idOf'[f] = idOf[f]
  BY <1>1, AddKeepsDistinct DEF StepInv
<1>3. /\ entities' = entities \cup {b} /\ synced' = Forget(networkReady, idOf'[b])
      /\ UNCHANGED <<networkReady, seen, seenMe, toOthers, toMe>>
      /\ updateIds' = IdsOf(entities)' /\ (~disturbed' => ~disturbed)
  BY DEF AddBot, Add, UpdateIdUpdateList, sentVars, IdsOf
<1>4. Named' = Named \cup {b} /\ Named \subseteq entities /\ networkReady \subseteq entities
  BY <1>1, <1>3 DEF Named, TypeOK
<1>5. NamedAreSent'
  BY <1>3, <1>4 DEF NamedAreSent, IdsOf
<1>6. \A d \in networkReady : synced'[d] = synced[d] \ {idOf'[b]}
  BY <1>1, <1>3 DEF Forget, TypeOK
<1>7. InStep'
  BY <1>2, <1>3, <1>4, <1>6 DEF StepInv, InStep
<1> QED
  BY <1>5, <1>7

LEMMA StepRemove ==
    ASSUME StepInv, NEW e \in Entity, Remove(e)
    PROVE  NamedAreSent' /\ InStep'
<1>1. TypeOK /\ DistinctIds
  BY DEF StepInv, RosterInv
<1>2. /\ e \in entities /\ entities' = entities \ {e}
      /\ networkReady' = networkReady \ {e}
      /\ UNCHANGED <<updateIds, disturbed>>
  BY DEF Remove, LogOut
<1>3. \A f \in entities' : idOf'[f] = idOf[f] /\ toOthers'[f] = toOthers[f] /\ f # e
  BY <1>1, <1>2 DEF Remove, TypeOK
<1>4. Named' = Named \ {e} /\ Named \subseteq entities
  BY <1>1, <1>2 DEF Named, TypeOK
<1>5. NamedAreSent'
  BY <1>2, <1>3, <1>4 DEF StepInv, NamedAreSent, IdsOf
<1>6. \A d \in networkReady' :
         /\ d \in networkReady /\ d \in entities'
         /\ synced'[d] = synced[d] \ {idOf[e]} /\ seen'[d] = seen[d]
         /\ seenMe'[d] = seenMe[d] /\ toMe'[d] = toMe[d]
  BY <1>1, <1>2 DEF Remove, TypeOK
<1>7. InStep'
  BY <1>2, <1>3, <1>4, <1>6 DEF StepInv, InStep
<1> QED
  BY <1>5, <1>7

-----------------------------------------------------------------------------
(* The updates keep the views in step.                                     *)
LEMMA StepFullUpdate ==
    ASSUME StepInv, NEW place \in Placement, FullUpdate(place)
    PROVE  /\ NamedAreSent' /\ InStep'
           /\ \A c \in networkReady, e \in Named :
                idOf[e] \in synced'[c] => seen'[c][idOf[e]] = place[e]
<1>1. TypeOK /\ DistinctIds
  BY DEF StepInv, RosterInv
<1>2. UNCHANGED <<entities, idOf, networkReady, updateIds, disturbed>>
  BY DEF FullUpdate, serverVars
<1>3. Named' = Named /\ Named \subseteq entities /\ IdsOf(Named)' = IdsOf(Named)
  BY <1>1, <1>2 DEF Named, IdsOf, TypeOK
<1>4. NamedAreSent'
  BY <1>2, <1>3 DEF StepInv, NamedAreSent
<1>5. ASSUME NEW c \in networkReady
      PROVE  /\ synced'[c] = Known(c) \cap IdsOf(entities)
             /\ seenMe'[c] = place[c] /\ toMe'[c] = place[c]
             /\ \A e \in Named : idOf[e] \in synced'[c] => seen'[c][idOf[e]] = place[e]
  <2>1. c \in Client /\ c \in entities
    BY <1>1 DEF TypeOK
  <2>2. /\ synced'[c] = Known(c) \cap IdsOf(entities)
        /\ seenMe'[c] = place[c] /\ toMe'[c] = place[c]
    BY <2>1 DEF FullUpdate
  <2>3. ASSUME NEW e \in Named, idOf[e] \in synced'[c]
        PROVE  seen'[c][idOf[e]] = place[e]
    <3>1. idOf[e] \in Known(c) \cap IdsOf(entities) /\ idOf[e] \in Id
      BY <2>2, <2>3 DEF Known
    <3>2. EntityAt(idOf[e]) = e
      BY <1>1, <1>3, EntityAtItsId
    <3>3. seen'[c][idOf[e]] = place[EntityAt(idOf[e])]
      BY <2>1, <3>1 DEF FullUpdate
    <3> QED
      BY <3>2, <3>3
  <2> QED
    BY <2>2, <2>3
<1>6. \A e \in entities : toOthers'[e] = place[e]
  BY <1>1 DEF FullUpdate, TypeOK
<1>7. InStep'
  BY <1>2, <1>3, <1>5, <1>6 DEF InStep
<1> QED
  BY <1>4, <1>5, <1>7

LEMMA StepUpdate ==
    ASSUME StepInv, NEW place \in Placement, Update(place)
    PROVE  NamedAreSent' /\ InStep'
<1>1. TypeOK /\ RosterAgrees
  BY DEF StepInv, RosterInv
<1>2. UNCHANGED <<entities, idOf, networkReady, updateIds, synced>> /\ (~disturbed' => ~disturbed)
  BY DEF Update, serverVars
<1>3. /\ Named' = Named /\ Named \subseteq entities /\ IdsOf(Named)' = IdsOf(Named)
      /\ networkReady \subseteq Named
  BY <1>1, <1>2 DEF Named, IdsOf, TypeOK
<1>4. NamedAreSent'
  BY <1>2, <1>3 DEF StepInv, NamedAreSent
<1>5. toOthers' \in [Entity -> Place]
  BY DEF Update
<1>6. InStep'
  <2> SUFFICES ASSUME ~disturbed', NEW c \in networkReady
               PROVE  /\ \A e \in Named :
                           idOf[e] \in synced[c] => seen'[c][idOf[e]] = toOthers'[e]
                      /\ idOf[c] \in synced[c] => seenMe'[c] = toMe'[c]
    BY <1>2, <1>3 DEF InStep
  <2>1. ASSUME NEW e \in Named, idOf[e] \in synced[c]
        PROVE  seen'[c][idOf[e]] = toOthers'[e]
    <3>1. c \in Client /\ e \in Entity /\ idOf[e] \in Id
      BY <1>1, <1>3 DEF TypeOK
    <3>2. seen'[c][idOf[e]] = Receive(c, idOf[e])
      BY <3>1 DEF Update
    <3>3. seen[c][idOf[e]] = toOthers[e]
      BY <2>1, <1>2 DEF StepInv, InStep
    <3>4. toOthers[e] \in Place /\ toOthers'[e] \in Place
      BY <3>1, <1>1, <1>5 DEF TypeOK
    <3> QED
      BY <3>2, <3>3, <3>4, ReceivesItsOwn, AddsTheSame
  <2>2. ASSUME idOf[c] \in synced[c] PROVE seenMe'[c] = toMe'[c]
    <3>1. c \in Client /\ c \in Named /\ c \in entities
      BY <1>1, <1>3 DEF TypeOK
    <3>2. idOf[c] \in updateIds
      BY <3>1 DEF StepInv, NamedAreSent, IdsOf
    <3>3. seenMe'[c] = seen'[c][idOf[c]] /\ toMe'[c] = toOthers'[c]
      BY <3>1, <3>2 DEF Update
    <3> QED
      BY <3>1, <3>3, <2>1, <2>2
  <2> QED
    BY <2>1, <2>2
<1> QED
  BY <1>4, <1>6

LEMMA StepUpdateOne ==
    ASSUME StepInv, NEW place \in Placement, UpdateOne(place)
    PROVE  NamedAreSent' /\ InStep'
<1>1. TypeOK /\ NamedAreKnown
  BY DEF StepInv, RosterInv, RosterAgrees
<1>2. UNCHANGED <<entities, idOf, networkReady, updateIds, seen, synced, toOthers, disturbed>>
  BY DEF UpdateOne, serverVars
<1>3. /\ Named' = Named /\ IdsOf(Named)' = IdsOf(Named) /\ networkReady \subseteq Named
  BY <1>2 DEF Named, IdsOf
<1>4. NamedAreSent'
  BY <1>2, <1>3 DEF StepInv, NamedAreSent
<1>5. ASSUME ~disturbed, NEW c \in networkReady, idOf[c] \in synced[c]
      PROVE  seenMe'[c] = toMe'[c]
  <2>1. c \in Client /\ c \in Entity /\ idOf[c] \in Id /\ c \in Named
    BY <1>1, <1>3 DEF TypeOK, Entity
  <2>2. knows[c][idOf[c]] = c /\ c # Nobody
    BY <1>1, <2>1, MirrorAssumption DEF NamedAreKnown
  <2>3. idOf[c] \in Known(c)
    BY <2>1, <2>2 DEF Known
  <2>4. seenMe'[c] = Clip(seenMe[c] + toMe'[c] - toMe[c])
    BY <2>1, <2>3 DEF UpdateOne
  <2>5. seenMe[c] = toMe[c] /\ toMe[c] \in Place /\ toMe'[c] \in Place
    BY <2>1, <1>1, <1>5 DEF StepInv, InStep, UpdateOne, TypeOK
  <2> QED
    BY <2>4, <2>5, AddsTheSame
<1>6. InStep'
  BY <1>2, <1>3, <1>5 DEF StepInv, InStep
<1> QED
  BY <1>4, <1>6

(* Nobody is there at the start.                                           *)
LEMMA StepInit == Init => StepInv
<1> SUFFICES ASSUME Init PROVE StepInv
  OBVIOUS
<1>1. Named = {} /\ networkReady = {}
  BY DEF Init, Named
<1> QED
  BY <1>1, RosterInit DEF StepInv, NamedAreSent, InStep, IdsOf

(* The invariant is inductive.                                             *)
LEMMA StepNext ==
    ASSUME StepInv, [Next]_vars
    PROVE  StepInv'
<1>1. RosterInv'
  BY RosterNext DEF StepInv
<1>2. NamedAreSent' /\ InStep'
  <2>1. ASSUME NEW c \in Client, Connect(c) \/ Login(c) PROVE NamedAreSent' /\ InStep'
    BY <2>1, StepConnect, StepLogin
  <2>2. ASSUME NEW b \in Bot, AddBot(b) PROVE NamedAreSent' /\ InStep'
    BY <2>2, StepAddBot
  <2>3. ASSUME NEW e \in Entity, Remove(e) PROVE NamedAreSent' /\ InStep'
    BY <2>3, StepRemove
  <2>4. CASE Reset \/ UNCHANGED vars
    BY <2>4 DEF Reset, vars, serverVars, sentVars, viewVars, StepInv, NamedAreSent, InStep,
                IdsOf, Named
  <2>5. ASSUME NEW place \in Placement, NetworkUpdate(place)
        PROVE  NamedAreSent' /\ InStep'
    BY <2>5, StepFullUpdate, StepUpdate, StepUpdateOne DEF NetworkUpdate
  <2> QED
    BY <2>1, <2>2, <2>3, <2>4, <2>5 DEF Next
<1> QED
  BY <1>1, <1>2 DEF StepInv

(* The differences name nobody, and every client gives each of them to the *)
(* entity it was taken from: whatever has come and gone, its view of an    *)
(* entity stays where the server thinks it is.  (CNetwork::update(),       *)
(* IdUpdateList; the client's cbUpdate and cbUpdateOne)                    *)
THEOREM InStepCorrect == Spec => []InStep
<1>1. Init => StepInv
  BY StepInit
<1>2. StepInv /\ [Next]_vars => StepInv'
  BY StepNext
<1>3. StepInv => InStep
  BY DEF StepInv
<1> QED
  BY <1>1, <1>2, <1>3, PTL DEF Spec

-----------------------------------------------------------------------------
(* How near the views are.                                                 *)

(* What is sent instead of a place is not farther from it than what was    *)
(* sent before.                                                            *)
LEMMA RoundedIsNearer ==
    ASSUME NEW last \in Place, NEW n \in Place, NEW p \in RoundedFrom(last, n),
           Distance(n, last) <= MinDelta
    PROVE  Distance(p, n) <= MinDelta
BY MirrorAssumption DEF RoundedFrom, Distance, Place

(* Between two full updates nobody is far from where it was last sent.     *)
LEMMA NobodyIsFar ==
    ASSUME TypeOK, NEW place \in Placement, ~IsFull(place), NEW e \in entities
    PROVE  Distance(place[e], toOthers[e]) <= MinDelta
<1>1. place[e] \in Place /\ toOthers[e] \in Place
  BY DEF TypeOK, Placement
<1>2. ~(Distance(place[e], toOthers[e]) > MinDelta)
  BY DEF IsFull, CountNow
<1>3. Distance(place[e], toOthers[e]) \in Int
  BY <1>1, MirrorAssumption DEF Distance, Place
<1> QED
  BY <1>2, <1>3, MirrorAssumption

(* After an update nobody is seen farther than MinDelta from its place.    *)
LEMMA NearbyNext ==
    ASSUME StepInv, NEW place \in Placement, NetworkUpdate(place), ~disturbed',
           NEW c \in networkReady, NEW e \in Named, idOf[e] \in synced'[c]
    PROVE  Distance(seen'[c][idOf[e]], place[e]) <= MinDelta
<1>1. TypeOK /\ e \in entities /\ e \in Entity
  BY DEF StepInv, RosterInv, TypeOK, Named
<1>2. place[e] \in Place /\ toOthers[e] \in Place
  BY <1>1 DEF TypeOK, Placement
<1>3. CASE FullUpdate(place)
  <2>1. seen'[c][idOf[e]] = place[e]
    BY <1>3, StepFullUpdate
  <2>2. Distance(place[e], place[e]) <= MinDelta
    BY <1>2, MirrorAssumption DEF Distance, Place
  <2> QED
    BY <2>1, <2>2
<1>4. CASE Update(place) \/ UpdateOne(place)
  <2>1. InStep' /\ ~IsFull(place)
    BY <1>4, StepUpdate, StepUpdateOne DEF Update, UpdateOne
  <2>2. UNCHANGED <<entities, idOf, networkReady>>
    BY <1>4 DEF Update, UpdateOne, serverVars
  <2>3. seen'[c][idOf[e]] = toOthers'[e]
    BY <2>1, <2>2 DEF InStep, Named
  <2>4. Distance(place[e], toOthers[e]) <= MinDelta
    BY <1>1, <2>1, NobodyIsFar
  <2>5. CASE toOthers'[e] \in RoundedFrom(toOthers[e], place[e])
    BY <2>3, <2>4, <2>5, <1>2, RoundedIsNearer
  <2>6. CASE toOthers'[e] = toOthers[e]
    <3>1. Distance(toOthers[e], place[e]) = Distance(place[e], toOthers[e])
      BY <1>2, MirrorAssumption DEF Distance, Place
    <3> QED
      BY <2>3, <2>4, <2>6, <3>1
  <2>7. toOthers'[e] \in RoundedFrom(toOthers[e], place[e]) \/ toOthers'[e] = toOthers[e]
    BY <1>1, <1>4 DEF Update, UpdateOne
  <2> QED
    BY <2>5, <2>6, <2>7
<1> QED
  BY <1>3, <1>4 DEF NetworkUpdate

(* After each update every client sees every entity within MinDelta of     *)
(* where it is, of those it has had a FullUpdate of.  (CNetwork::update(), *)
(* MinDeltaToSendFullUpdate)                                               *)
THEOREM NearbyCorrect == Spec => SeenNearby
<1>1. Init => StepInv
  BY StepInit
<1>2. StepInv /\ [Next]_vars => StepInv'
  BY StepNext
<1>3. StepInv /\ [Next]_vars =>
        [ \A place \in Placement :
            NetworkUpdate(place) /\ ~disturbed' =>
              \A c \in networkReady, e \in Named :
                idOf[e] \in synced'[c] =>
                  Distance(seen'[c][idOf[e]], place[e]) <= MinDelta ]_vars
  BY NearbyNext
<1> QED
  BY <1>1, <1>2, <1>3, PTL DEF Spec, SeenNearby

-----------------------------------------------------------------------------
(* The code of the differences.                                           *)

(* The powers of two that the code multiplies and divides by.              *)
LEMMA Powers ==
    ASSUME NEW k \in 0 .. 14
    PROVE  \/ (k = 0 /\ Pow(k) = 1) \/ (k = 1 /\ Pow(k) = 2) \/ (k = 2 /\ Pow(k) = 4)
           \/ (k = 3 /\ Pow(k) = 8) \/ (k = 4 /\ Pow(k) = 16) \/ (k = 5 /\ Pow(k) = 32)
           \/ (k = 6 /\ Pow(k) = 64) \/ (k = 7 /\ Pow(k) = 128) \/ (k = 8 /\ Pow(k) = 256)
           \/ (k = 9 /\ Pow(k) = 512) \/ (k = 10 /\ Pow(k) = 1024) \/ (k = 11 /\ Pow(k) = 2048)
           \/ (k = 12 /\ Pow(k) = 4096) \/ (k = 13 /\ Pow(k) = 8192) \/ (k = 14 /\ Pow(k) = 16384)
<1>1. \/ k = 0 \/ k = 1 \/ k = 2 \/ k = 3 \/ k = 4 \/ k = 5 \/ k = 6 \/ k = 7 \/ k = 8 \/ k = 9
      \/ k = 10 \/ k = 11 \/ k = 12 \/ k = 13 \/ k = 14
  OBVIOUS
<1>2. /\ Pow(0) = 1 /\ Pow(1) = 2 /\ Pow(2) = 4 /\ Pow(3) = 8 /\ Pow(4) = 16
      /\ Pow(5) = 32 /\ Pow(6) = 64 /\ Pow(7) = 128 /\ Pow(8) = 256 /\ Pow(9) = 512
      /\ Pow(10) = 1024 /\ Pow(11) = 2048 /\ Pow(12) = 4096 /\ Pow(13) = 8192 /\ Pow(14) = 16384
  BY DEF Pow
<1> QED
  BY <1>1, <1>2

(* Each of them is twice the one before.                                   *)
LEMMA PowerBefore ==
    ASSUME NEW k \in 1 .. 14
    PROVE  Pow(k) \in Nat /\ Pow(k - 1) \in Nat /\ Pow(k) = 2 * Pow(k - 1)
<1>1. k \in 0 .. 14 /\ k - 1 \in 0 .. 14
  OBVIOUS
<1> QED
  BY <1>1, Powers

(* computeMantis8_8(): a number is halved until it is in the range of the  *)
(* mantissa, and not further.                                              *)
LEMMA HalvingsOK ==
    ASSUME NEW a \in Nat
    PROVE  LET h == Halvings(a)
           IN  /\ h \in 0 .. 14
               /\ h < 14 => a <= 65536 * Pow(h)
               /\ h > 0 => a > 65536 * Pow(h - 1)
<1> DEFINE Small(k) == k = 14 \/ a <= 65536 * Pow(k)
           T == {k \in 0 .. 14 : Small(k)}
           Good(k) == Small(k) /\ \A j \in 0 .. k - 1 : ~Small(j)
           h == CHOOSE k \in 0 .. 14 : Good(k)
<1>1. T \in SUBSET Nat /\ T # {}
  <2>1. 14 \in T
    OBVIOUS
  <2> QED
    BY <2>1
<1>2. \E k \in T : \A j \in T : k <= j
  <2> HIDE DEF T
  <2> QED
    BY <1>1, LeastNumber
<1>3. PICK k \in T : \A j \in T : k <= j
  BY <1>2
<1>4. \A j \in 0 .. k - 1 : j \in 0 .. 14 /\ j \notin T
  BY <1>3
<1>5. k \in 0 .. 14 /\ Good(k)
  BY <1>4
<1>6. Halvings(a) = h
  BY DEF Halvings, First, Limit, MantissaMax, ExponentMax, Scale
<1> HIDE DEF Good
<1>7. h \in 0 .. 14 /\ Good(h)
  BY <1>5
<1> HIDE DEF h
<1> USE DEF Good
<1>8. h > 0 => h - 1 \in 0 .. h - 1 /\ ~Small(h - 1)
  BY <1>7
<1>9. h > 0 => Pow(h - 1) \in Nat
  BY <1>7, PowerBefore
<1> QED
  BY <1>6, <1>7, <1>8, <1>9

(* And doubled likewise.                                                   *)
LEMMA DoublingsOK ==
    ASSUME NEW a \in Nat
    PROVE  LET d == Doublings(a)
           IN  /\ d \in 0 .. 14
               /\ d < 14 => a * Pow(d) >= 65536
               /\ d > 0 => a * Pow(d - 1) < 65536
<1> DEFINE Large(k) == k = 14 \/ a * Pow(k) >= 65536
           T == {k \in 0 .. 14 : Large(k)}
           Good(k) == Large(k) /\ \A j \in 0 .. k - 1 : ~Large(j)
           d == CHOOSE k \in 0 .. 14 : Good(k)
<1>1. T \in SUBSET Nat /\ T # {}
  <2>1. 14 \in T
    OBVIOUS
  <2> QED
    BY <2>1
<1>2. \E k \in T : \A j \in T : k <= j
  <2> HIDE DEF T
  <2> QED
    BY <1>1, LeastNumber
<1>3. PICK k \in T : \A j \in T : k <= j
  BY <1>2
<1>4. \A j \in 0 .. k - 1 : j \in 0 .. 14 /\ j \notin T
  BY <1>3
<1>5. k \in 0 .. 14 /\ Good(k)
  BY <1>4
<1>6. Doublings(a) = d
  BY DEF Doublings, First, Limit, MantissaMax, ExponentMax, Scale
<1> HIDE DEF Good
<1>7. d \in 0 .. 14 /\ Good(d)
  BY <1>5
<1> HIDE DEF d
<1> USE DEF Good
<1>8. d > 0 => d - 1 \in 0 .. d - 1 /\ ~Large(d - 1)
  BY <1>7
<1>9. d > 0 => a * Pow(d - 1) \in Nat
  BY <1>7, PowerBefore
<1> QED
  BY <1>6, <1>7, <1>8, <1>9

(* The mantissa of what was halved, and of what was doubled: it has its    *)
(* four bits, and what it stands for is at most a ninth short.             *)
LEMMA MantissaOfHalved ==
    ASSUME NEW a \in Nat, NEW h \in 1 .. 14, 65536 * Pow(h - 1) < a, a <= 65536 * Pow(h)
    PROVE  LET m == a \div (4096 * Pow(h))
           IN  /\ m \in 8 .. 16
               /\ m * 4096 * Pow(h) <= a /\ 9 * (m * 4096 * Pow(h)) >= 8 * a
<1>1. h \in 0 .. 14 /\ h # 0 /\ 65536 * Pow(h - 1) = 32768 * Pow(h)
  BY PowerBefore
<1> QED
  BY <1>1, Powers

(* What was doubled comes from below 16 units.                             *)
LEMMA MantissaOfDoubled ==
    ASSUME NEW a \in Nat, NEW d \in 1 .. 13, a * Pow(d) >= 65536, a * Pow(d - 1) < 65536
    PROVE  LET m == (a * Pow(d)) \div 8192
               v == (m * 4096) \div Pow(d - 1)
           IN  m \in 8 .. 15 /\ v \in Nat /\ v <= a /\ 9 * v >= 8 * a
<1>1. d - 1 \in 0 .. 14 /\ d - 1 < 13 /\ Pow(d) = 2 * Pow(d - 1)
  BY PowerBefore
<1> QED
  BY <1>1, Powers

(* What one update makes of the difference n: a code of 4 and 6 bits, and  *)
(* a difference between none and n, which falls short of n by a ninth at   *)
(* most, or of half of it where the exponent is decoded one too high.      *)
SendsWell(n) ==
    /\ Encode(n).sx \in 0 .. 63 /\ Encode(n).dx \in 0 .. 15
    /\ Sent(n) \in Int
    /\ n >= 0 => Sent(n) >= 0 /\ Sent(n) <= n
    /\ n <= 0 => Sent(n) <= 0 /\ Sent(n) >= n
    /\ n >= 8 /\ n # 65536 => 9 * Sent(n) >= 8 * n
    /\ n <= -8 /\ n > -65536 => 9 * Sent(n) <= 8 * n
    /\ n <= -65536 => 9 * Sent(n) <= 4 * n

Furthermost == 65536 * 16384

(* computeMantis8_8() and computeOut8_8fp(), case by case.                 *)
LEMMA EncodeIs ==
    ASSUME NEW n
    PROVE  Encode(n) =
             IF Abs(n) > ExponentMax * Scale
               THEN Coded(n, -Halvings(Abs(n)), Abs(n) \div (Scale * Pow(Halvings(Abs(n)))))
             ELSE IF Doublings(Abs(n)) = Limit THEN [sx |-> Zero, dx |-> 0]
             ELSE Coded(n, Doublings(Abs(n)), (Abs(n) * Pow(Doublings(Abs(n)))) \div (2 * Scale))
BY DEF Encode

(* The differences of more than 16 units.                                  *)
LEMMA HalvedSendsWell ==
    ASSUME NEW n \in Int, Abs(n) > 65536, Abs(n) <= Furthermost
    PROVE  SendsWell(n)
<1> DEFINE a == Abs(n)
           h == Halvings(a)
           m == a \div (4096 * Pow(h))
           neg == IF n < 0 THEN 1 ELSE 0
           c == [sx |-> 2 * (-h) + neg + 31, dx |-> m - 8]
<1>1. a \in Nat /\ a > 65536 /\ a = IF n < 0 THEN -n ELSE n
  BY DEF Abs
<1>2. h \in 1 .. 14 /\ 65536 * Pow(h - 1) < a /\ a <= 65536 * Pow(h)
  <2>1. h \in 0 .. 14 /\ (h < 14 => a <= 65536 * Pow(h)) /\ (h > 0 => a > 65536 * Pow(h - 1))
    BY <1>1, HalvingsOK
  <2>2. h # 0
    <3>1. 0 \in 0 .. 14 /\ 0 < 14 /\ Pow(0) = 1
      BY Powers
    <3> HIDE DEF h
    <3> QED
      BY <1>1, <2>1, <3>1
  <2>3. h = 14 => Pow(h) = 16384
    BY <2>1, Powers
  <2> QED
    BY <2>1, <2>2, <2>3 DEF Furthermost
<1>3. Encode(n) = c
  <2>1. a > ExponentMax * Scale
    BY DEF ExponentMax, Scale
  <2>2. Encode(n) = Coded(n, -h, a \div (Scale * Pow(h)))
    BY <2>1, EncodeIs
  <2> HIDE DEF a, h
  <2>3. Coded(n, -h, a \div (Scale * Pow(h))) = c
    BY DEF Coded, Scale, Zero, MantissaMax, ExponentMax
  <2> QED
    BY <2>2, <2>3
<1>4. m \in 8 .. 16 /\ m * 4096 * Pow(h) <= a /\ 9 * (m * 4096 * Pow(h)) >= 8 * a
  BY <1>1, <1>2, MantissaOfHalved
<1> HIDE DEF a, h, m
<1>5. Encode(n).sx \in 0 .. 63 /\ Encode(n).dx \in 0 .. 15
  <2>1. c.sx \in 0 .. 63 /\ c.dx \in 0 .. 15
    BY <1>2, <1>4
  <2> QED
    BY <1>3, <2>1
<1>6. CASE n >= 0
  <2>1. Quot(c.sx - 31, 2) = -h /\ (c.sx - 31) % 2 = 0 /\ c.sx - 31 < 0
    BY <1>2, <1>6 DEF Quot
  <2>2. Sent(n) = m * 4096 * Pow(h)
    <3>1. Shift(-h) = -h /\ -(-h) = h /\ c.dx + 8 = m /\ -h < 0
      BY <1>2, <1>4 DEF Shift
    <3> QED
      BY <1>3, <2>1, <3>1 DEF Sent, Decode, Signed, Zero, MantissaMax, ExponentMax, Scale
  <2> DEFINE v == m * 4096 * Pow(h)
  <2>3. v \in Nat /\ v <= a /\ 9 * v >= 8 * a
    <3>1. Pow(h) \in Nat
      BY <1>2, PowerBefore
    <3> QED
      BY <1>4, <3>1
  <2> HIDE DEF v
  <2>4. Sent(n) = v
    BY <2>2 DEF v
  <2> QED
    BY <1>1, <1>5, <1>6, <2>3, <2>4 DEF SendsWell
<1>7. CASE n < 0
  <2>1. Quot(c.sx - 31, 2) = -(h - 1) /\ (c.sx - 31) % 2 = 1 /\ c.sx - 31 # 0
    BY <1>2, <1>7 DEF Quot
  <2>2. Sent(n) = -(m * 4096 * Pow(h - 1))
    <3>1. Shift(-(h - 1)) = -(h - 1) /\ -(-(h - 1)) = h - 1 /\ c.dx + 8 = m
      BY <1>2, <1>4 DEF Shift
    <3>2. CASE h = 1
      <4>1. Pow(h - 1) = 1 /\ Pow(-(h - 1)) = 1 /\ ~(-(h - 1) < 0)
        BY <3>2, Powers
      <4>2. (m * 4096) \div 1 = m * 4096
        BY <1>4
      <4> QED
        BY <1>3, <1>4, <2>1, <3>1, <4>1, <4>2
           DEF Sent, Decode, Signed, Zero, MantissaMax, ExponentMax, Scale
    <3>3. CASE h # 1
      <4>1. -(h - 1) < 0
        BY <1>2, <3>3
      <4> QED
        BY <1>3, <2>1, <3>1, <4>1
           DEF Sent, Decode, Signed, Zero, MantissaMax, ExponentMax, Scale
    <3> QED
      BY <3>2, <3>3
  <2>3. Pow(h - 1) \in Nat /\ m * 4096 * Pow(h) = 2 * (m * 4096 * Pow(h - 1))
    <3>1. h - 1 \in 0 .. 14 /\ Pow(h) = 2 * Pow(h - 1)
      BY <1>2, PowerBefore
    <3> QED
      BY <1>4, <3>1, Powers
  <2> DEFINE v == m * 4096 * Pow(h - 1)
  <2>4. v \in Nat /\ 2 * v <= a /\ 18 * v >= 8 * a
    BY <1>4, <2>3
  <2> HIDE DEF v
  <2>5. Sent(n) = -v
    BY <2>2 DEF v
  <2> QED
    BY <1>1, <1>5, <1>7, <2>4, <2>5 DEF SendsWell
<1> QED
  BY <1>6, <1>7

(* The differences of 16 units and less.                                  *)
LEMMA DoubledSendsWell ==
    ASSUME NEW n \in Int, Abs(n) <= 65536
    PROVE  SendsWell(n)
<1> DEFINE a == Abs(n)
           d == Doublings(a)
           m == (a * Pow(d)) \div 8192
           neg == IF n < 0 THEN 1 ELSE 0
           c == [sx |-> 2 * d + neg + 31, dx |-> m - 8]
<1>1. a \in Nat /\ a = IF n < 0 THEN -n ELSE n
  BY DEF Abs
<1>2. d \in 0 .. 14 /\ (d < 14 => a * Pow(d) >= 65536) /\ (d > 0 => a * Pow(d - 1) < 65536)
  BY <1>1, DoublingsOK
<1>3. CASE d = 14
  <2>1. Encode(n) = [sx |-> 31, dx |-> 0]
    <3>1. ~(a > ExponentMax * Scale) /\ d = Limit /\ Zero = 31
      BY <1>1, <1>3 DEF ExponentMax, Scale, Limit, MantissaMax, Zero
    <3>2. Encode(n) = [sx |-> Zero, dx |-> 0]
      BY <3>1, EncodeIs
    <3> QED
      BY <3>1, <3>2
  <2>2. Sent(n) = 0
    BY <2>1 DEF Sent, Decode, Zero, MantissaMax
  <2>3. a < 8
    <3>1. 13 \in 0 .. 14 /\ Pow(13) = 8192 /\ a * Pow(13) < 65536
      BY <1>2, <1>3, Powers
    <3> HIDE DEF a
    <3> QED
      BY <1>1, <3>1
  <2> HIDE DEF a
  <2>4. n > -8 /\ n < 8
    BY <1>1, <2>3
  <2> QED
    BY <2>1, <2>2, <2>4 DEF SendsWell
<1>4. CASE d # 14
  <2>1. Encode(n) = c
    <3>1. ~(a > ExponentMax * Scale) /\ d # Limit
      BY <1>1, <1>4 DEF ExponentMax, Scale, Limit, MantissaMax
    <3>2. Encode(n) = Coded(n, d, (a * Pow(d)) \div (2 * Scale))
      BY <3>1, EncodeIs
    <3> HIDE DEF a, d
    <3>3. Coded(n, d, (a * Pow(d)) \div (2 * Scale)) = c
      BY DEF Coded, Scale, Zero, MantissaMax, ExponentMax
    <3> QED
      BY <3>2, <3>3
  <2> HIDE DEF a, d, m
  <2>2. CASE d = 0
    <3>1. Pow(d) = 1
      BY <2>2, Powers
    <3>2. a = 65536 /\ m = 8
      BY <1>1, <1>2, <2>2, <3>1 DEF a, m
    <3>3. c = [sx |-> 31 + neg, dx |-> 0]
      BY <2>2, <3>2
    <3>4. CASE n >= 0
      <4>1. Sent(n) = 0 /\ n = 65536
        BY <1>1, <2>1, <3>2, <3>3, <3>4 DEF Sent, Decode, Zero, MantissaMax
      <4>2. Encode(n) = [sx |-> 31, dx |-> 0]
        BY <2>1, <3>3, <3>4
      <4> QED
        BY <4>1, <4>2 DEF SendsWell
    <3>5. CASE n < 0
      <4>1. Sent(n) = -32768 /\ n = -65536
        <5>1. Pow(0) = 1 /\ (8 * 4096) \div 1 = 32768
          BY Powers
        <5>2. Quot(1, 2) = 0 /\ Shift(0) = 0 /\ 1 % 2 = 1
          BY DEF Quot, Shift
        <5>3. Encode(n) = [sx |-> 32, dx |-> 0]
          BY <2>1, <3>3, <3>5
        <5> QED
          BY <1>1, <3>2, <3>5, <5>1, <5>2, <5>3
             DEF Sent, Decode, Signed, Zero, MantissaMax, ExponentMax, Scale
      <4>2. Encode(n) = [sx |-> 32, dx |-> 0]
        BY <2>1, <3>3, <3>5
      <4> QED
        BY <4>1, <4>2 DEF SendsWell
    <3> QED
      BY <3>4, <3>5
  <2>3. CASE d # 0
    <3> DEFINE v == (m * 4096) \div Pow(d - 1)
    <3>1. d \in 1 .. 13
      BY <1>2, <1>4, <2>3
    <3>2. m \in 8 .. 15 /\ v \in Nat /\ v <= a /\ 9 * v >= 8 * a
      BY <1>1, <1>2, <3>1, MantissaOfDoubled DEF m
    <3>3. c.sx \in 0 .. 63 /\ c.dx \in 0 .. 15
      BY <3>1, <3>2
    <3>4. /\ Quot(c.sx - 31, 2) = d /\ (c.sx - 31) % 2 = neg /\ c.sx - 31 # 0
          /\ Shift(d) = d - 1 /\ ~(d - 1 < 0) /\ c.dx + 8 = m
      BY <3>1, <3>2 DEF Quot, Shift
    <3>5. Decode(c) = Signed(c.sx - 31, v)
      BY <3>4 DEF Decode, Zero, MantissaMax, ExponentMax, Scale
    <3> HIDE DEF v
    <3>6. Sent(n) = IF n < 0 THEN -v ELSE v
      BY <2>1, <3>4, <3>5 DEF Sent, Signed
    <3> QED
      BY <1>1, <2>1, <3>2, <3>3, <3>6 DEF SendsWell
  <2> QED
    BY <2>2, <2>3
<1> QED
  BY <1>3, <1>4

(* Every difference that an update carries is one of these.                *)
LEMMA FurthestInRange == Furthest \in Nat /\ Furthest <= Furthermost
<1>1. 14 \in 0 .. 14 /\ Pow(14) = 16384
  BY Powers
<1> QED
  BY <1>1, DeltaAssumption DEF Furthermost, ExponentMax, Scale, Limit, MantissaMax

(* Every difference in the range of the loops is sent well.                *)
LEMMA EveryUpdateSendsWell ==
    ASSUME NEW n \in Int, Abs(n) <= Furthermost
    PROVE  SendsWell(n)
<1>1. Abs(n) \in Nat
  BY DEF Abs
<1> QED
  BY <1>1, HalvedSendsWell, DoubledSendsWell

(* left stays in the range of the updates.                                 *)
LeftOK == left \in -Furthest .. Furthest

(* What is left to send does not grow.                                     *)
LEMMA LeftStays == DeltaSpec => []LeftOK
<1>1. DeltaInit => LeftOK
  BY DeltaAssumption DEF DeltaInit, LeftOK
<1>2. LeftOK /\ [Send]_left => LeftOK'
  <2> SUFFICES ASSUME LeftOK, Send
               PROVE  LeftOK'
    BY DEF LeftOK
  <2>1. left \in Int /\ Abs(left) <= Furthest
    BY DeltaAssumption DEF LeftOK, Abs
  <2>2. SendsWell(left)
    BY <2>1, FurthestInRange, EveryUpdateSendsWell DEF Abs, Furthermost
  <2> QED
    BY <2>1, <2>2, DeltaAssumption DEF Send, LeftOK, SendsWell, Abs
<1> QED
  BY <1>1, <1>2, PTL DEF DeltaSpec

(* So every update of the run sends well.                                  *)
LEMMA LeftSendsWell ==
    ASSUME LeftOK
    PROVE  left \in Int /\ SendsWell(left)
<1>1. left \in Int /\ Abs(left) <= Furthermost
  BY FurthestInRange DEF LeftOK, Abs, Furthermost
<1> QED
  BY <1>1, EveryUpdateSendsWell

(* computeOut8_8fp(), whose result the server adds to LastSent...Pos: no   *)
(* update sends an entity past where it is, or away from it, wherever it   *)
(* is.                                                                     *)
THEOREM NoOvershoot == DeltaSpec => []NeverOvershoots
<1>1. LeftOK => NeverOvershoots
  BY LeftSendsWell DEF SendsWell, NeverOvershoots, Abs
<1> QED
  BY <1>1, LeftStays, PTL

(* And each update sends 8/9 of what there is to send, or 4/9 where the    *)
(* exponent is decoded one too high: the mantissa is never cut short.      *)
THEOREM EnoughIsSent == DeltaSpec => []SendsAtLeast
<1>1. LeftOK => SendsAtLeast
  <2> SUFFICES ASSUME LeftOK, ~Unsent
               PROVE  9 * Abs(Sent(left)) >= (IF left <= -65536 THEN 4 ELSE 8) * Abs(left)
    BY DEF SendsAtLeast, ExponentMax, Scale
  <2>1. left \in Int /\ SendsWell(left)
    BY LeftSendsWell
  <2>2. left # 65536 /\ (left >= 8 \/ left <= -8)
    BY <2>1 DEF Unsent, ExponentMax, Scale, Abs
  <2> QED
    BY <2>1, <2>2 DEF SendsWell, Abs
<1> QED
  BY <1>1, LeftStays, PTL

(* A code, and the three of an update: unpackBits() gives back what        *)
(* packBits() was given.                                                   *)
Code == [sx : 0 .. 63, dx : 0 .. 15]

LEMMA UnpackedIsPacked ==
    ASSUME NEW c1 \in Code, NEW c2 \in Code, NEW c3 \in Code
    PROVE  LET bits == Packed(c1, c2, c3)
           IN  Unpacked(bits, 2) = c1 /\ Unpacked(bits, 1) = c2 /\ Unpacked(bits, 0) = c3
<1>1. PICK sx1 \in 0 .. 63, dx1 \in 0 .. 15, sx2 \in 0 .. 63, dx2 \in 0 .. 15,
           sx3 \in 0 .. 63, dx3 \in 0 .. 15 :
         /\ c1 = [sx |-> sx1, dx |-> dx1] /\ c2 = [sx |-> sx2, dx |-> dx2]
         /\ c3 = [sx |-> sx3, dx |-> dx3]
  BY DEF Code
<1>2. /\ Pow(0) = 1 /\ Pow(4) = 16 /\ Pow(6) = 64 /\ Pow(10) = 1024 /\ Pow(16) = 65536
      /\ Pow(20) = 1048576 /\ Pow(26) = 67108864
  BY SMT DEF Pow
<1> DEFINE b1 == dx1 * 64 + sx1
           b2 == (b1 * 16 + dx2) * 64 + sx2
           b3 == (b2 * 16 + dx3) * 64 + sx3
<1>3. /\ \A v \in 0 .. 63 : Cut(v, 6) = v
      /\ \A v \in 0 .. 15 : Cut(v, 4) = v
  BY <1>2 DEF Cut
<1>4. \A bits \in Nat, u \in 0 .. 63, v \in 0 .. 15 :
         PackCode(bits, [sx |-> u, dx |-> v]) = (bits * 16 + v) * 64 + u
  <2> TAKE bits \in Nat, u \in 0 .. 63, v \in 0 .. 15
  <2>1. Cut(u, 6) = u /\ Cut(v, 4) = v
    BY <1>3
  <2>2. PackCode(bits, [sx |-> u, dx |-> v]) = (bits * Pow(4) + Cut(v, 4)) * Pow(6) + Cut(u, 6)
    BY DEF PackCode, PackBits
  <2> QED
    BY <1>2, <2>1, <2>2
<1>5. b1 \in Nat /\ b2 \in Nat /\ b3 \in Nat
  OBVIOUS
<1>6. Packed([sx |-> sx1, dx |-> dx1], [sx |-> sx2, dx |-> dx2], [sx |-> sx3, dx |-> dx3]) = b3
  <2>1. PackCode(0, [sx |-> sx1, dx |-> dx1]) = b1
    <3>1. \A bits \in Nat :
             PackCode(bits, [sx |-> sx1, dx |-> dx1]) = (bits * 16 + dx1) * 64 + sx1
      BY <1>4
    <3>2. 0 \in Nat /\ 0 * 16 + dx1 = dx1
      OBVIOUS
    <3> QED
      BY <3>1, <3>2
  <2>2. PackCode(b1, [sx |-> sx2, dx |-> dx2]) = b2
    <3>1. b2 = (b1 * 16 + dx2) * 64 + sx2
      OBVIOUS
    <3> HIDE DEF b1, b2, b3
    <3> QED
      BY <1>4, <1>5, <3>1
  <2>3. PackCode(b2, [sx |-> sx3, dx |-> dx3]) = b3
    <3>1. b3 = (b2 * 16 + dx3) * 64 + sx3
      OBVIOUS
    <3> HIDE DEF b1, b2, b3
    <3> QED
      BY <1>4, <1>5, <3>1
  <2> HIDE DEF b1, b2, b3
  <2> QED
    BY <2>1, <2>2, <2>3 DEF Packed
<1>7. /\ (b3 \div 1) % 64 = sx3 /\ (b3 \div 64) % 16 = dx3
      /\ (b3 \div 1024) % 64 = sx2 /\ (b3 \div 65536) % 16 = dx2
      /\ (b3 \div 1048576) % 64 = sx1 /\ (b3 \div 67108864) % 16 = dx1
  <2> DEFINE r3 == dx3 * 64 + sx3
             s2 == dx2 * 64 + sx2
  <2>1. r3 \in 0 .. 1023 /\ s2 \in 0 .. 1023
    OBVIOUS
  <2>2. b3 = b2 * 1024 + r3 /\ b2 = b1 * 1024 + s2
    OBVIOUS
  <2>3. /\ b3 = (b2 * 16 + dx3) * 64 + sx3 /\ b2 = (b1 * 16 + dx2) * 64 + sx2
        /\ b1 = dx1 * 64 + sx1
    OBVIOUS
  <2> HIDE DEF b3, b2, b1, r3, s2
  <2>4. b3 \div 1 = b3 /\ b3 % 64 = sx3 /\ b3 \div 64 = b2 * 16 + dx3
    BY <1>5, <2>3
  <2>5. (b2 * 16 + dx3) % 16 = dx3 /\ (b1 * 16 + dx2) % 16 = dx2 /\ dx1 % 16 = dx1
    BY <1>5
  <2>6. b3 \div 1024 = b2 /\ b2 % 64 = sx2 /\ b1 % 64 = sx1
    BY <1>5, <2>1, <2>2, <2>3
  <2>7. b3 \div 65536 = b1 * 16 + dx2
    BY <1>5, <2>1, <2>2, <2>3
  <2>8. b3 \div 1048576 = b1
    BY <1>5, <2>1, <2>2
  <2>9. b3 \div 67108864 = dx1
    <3> DEFINE t == sx1 * 1048576 + s2 * 1024 + r3
    <3>1. b3 = dx1 * 67108864 + t
      BY <1>5, <2>1, <2>2, <2>3, SMT
    <3>2. t \in Int /\ 0 <= t /\ t < 67108864
      BY <2>1, SMT
    <3> HIDE DEF t
    <3> QED
      BY <1>5, <3>1, <3>2, SMT
  <2> QED
    BY <2>4, <2>5, <2>6, <2>7, <2>8, <2>9, SMT
<1> HIDE DEF b3
<1>8. /\ 10 * 2 = 20 /\ 10 * 2 + 6 = 26 /\ 10 * 1 = 10 /\ 10 * 1 + 6 = 16
      /\ 10 * 0 = 0 /\ 10 * 0 + 6 = 6
  OBVIOUS
<1> QED
  BY <1>1, <1>2, <1>6, <1>7, <1>8, SMT DEF Unpacked

(* A code is its two fields.                                               *)
LEMMA EncodeIsPair ==
    ASSUME NEW n
    PROVE  Encode(n) = [sx |-> Encode(n).sx, dx |-> Encode(n).dx]
BY EncodeIs DEF Coded

(* Whatever three differences are packed together, within what an update   *)
(* is sent for: the client decodes each as the server did.                 *)
LEMMA AnyThreeAreRead ==
    ASSUME NEW x \in Int, NEW y \in Int, NEW z \in Int,
           Abs(x) <= Furthermost, Abs(y) <= Furthermost, Abs(z) <= Furthermost
    PROVE  LET bits == Packed(Encode(x), Encode(y), Encode(z))
           IN  /\ Decode(Unpacked(bits, 2)) = Sent(x)
               /\ Decode(Unpacked(bits, 1)) = Sent(y)
               /\ Decode(Unpacked(bits, 0)) = Sent(z)
<1>1. SendsWell(x) /\ SendsWell(y) /\ SendsWell(z)
  BY EveryUpdateSendsWell
<1>2. Encode(x) \in Code /\ Encode(y) \in Code /\ Encode(z) \in Code
  BY <1>1, EncodeIsPair DEF SendsWell, Code
<1> DEFINE bits == Packed(Encode(x), Encode(y), Encode(z))
<1>3. /\ Unpacked(bits, 2) = Encode(x) /\ Unpacked(bits, 1) = Encode(y)
      /\ Unpacked(bits, 0) = Encode(z)
  BY <1>2, UnpackedIsPacked
<1> HIDE DEF bits
<1> QED
  BY <1>3 DEF Sent, bits

(* CNetwork::update() packs three differences into one number, and         *)
(* unpackBits() and convert8_8fp() give each client the very differences   *)
(* that the server added to LastSent...Pos.                                *)
THEOREM ClientsReadTheSame == DeltaSpec => []ClientReadsTheSame
<1>1. LeftOK => ClientReadsTheSame
  <2> SUFFICES ASSUME LeftOK, NEW m \in Corner, NEW n \in Corner
               PROVE  LET bits == Packed(Encode(left), Encode(m), Encode(n))
                      IN  /\ Decode(Unpacked(bits, 2)) = Sent(left)
                          /\ Decode(Unpacked(bits, 1)) = Sent(m)
                          /\ Decode(Unpacked(bits, 0)) = Sent(n)
    BY DEF ClientReadsTheSame
  <2>1. left \in Int /\ Abs(left) <= Furthermost
    BY FurthestInRange DEF LeftOK, Abs, Furthermost
  <2>2. \A k \in Corner : k \in Int /\ Abs(k) <= Furthermost
    BY FurthestInRange DEF Corner, Abs, Scale, Furthermost
  <2> QED
    BY <2>1, <2>2, AnyThreeAreRead
<1> QED
  BY <1>1, LeftStays, PTL

(* What Mirror assumes of an update is what the code does: it sends an     *)
(* entity to a place between the one sent last and the one where it is.    *)
THEOREM UpdateStaysBetween ==
    ASSUME NEW last \in Place, NEW n \in Place, Distance(n, last) <= Furthest
    PROVE  last + Sent(n - last) \in RoundedFrom(last, n)
<1>1. last \in Int /\ n \in Int /\ MaxPlace \in Nat
  BY MirrorAssumption DEF Place
<1>2. n - last \in Int /\ Abs(n - last) <= Furthermost
  BY <1>1, FurthestInRange DEF Distance, Abs, Furthermost
<1>3. SendsWell(n - last)
  BY <1>2, EveryUpdateSendsWell
<1> QED
  BY <1>1, <1>3 DEF SendsWell, RoundedFrom, Place
=============================================================================
