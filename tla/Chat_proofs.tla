---------------------------- MODULE Chat_proofs ----------------------------
(***************************************************************************)
(* Machine-checked proofs about Chat: for any number of connections, names *)
(* and levels, two users never have one name, the database holds what      *)
(* there is or is going to be written, and the counts of the channels are  *)
(* the numbers of the people in them.                                      *)
(***************************************************************************)
EXTENDS Chat, FiniteSetTheorems, TLAPS

-----------------------------------------------------------------------------
(* The names that are in use: of who is connected, and of the accounts.    *)
Users == Connected \cup Accounts

(* Who is in the list has a name and has logged in, or is an account.      *)
ListInv ==
    /\ registered \subseteq InList
    /\ \A u \in InList : id[u] \in Id /\ state[u] \in {"NOT_LOGGED", "LOGGED"}

(* The hall is there.                                                      *)
HallStays == Hall \in DOMAIN rooms /\ rooms[Hall].resident

(* No two users have one name, and no object of the list, those about to   *)
(* be removed included, has that of a channel.                             *)
NamesOfUsers == \A u, v \in Users : id[u] = id[v] => u = v
NamesOfRooms == \A u \in InList : id[u] \notin DOMAIN rooms

(* While names are typed nobody about to be removed hides an account.      *)
NoneHidden == phase = "pending" => \A u \in Gone, v \in Accounts : id[u] # id[v]

(* What would be read from the database.                                   *)
NamesOnDisk ==
    /\ \A r, s \in disk.accounts : r.id = s.id => r = s
    /\ \A r \in disk.accounts : r.id # Hall

NamesOK == NamesOfUsers /\ NamesOfRooms /\ NoneHidden /\ NamesOnDisk

(* Nothing is to be written, or it will be.                                *)
DiskOK == ~changed => disk = [accounts |-> Saved, max |-> userNbMax]

(* The inductive invariant.                                                *)
NamesInv == TypeOK /\ ListInv /\ HallStays /\ (~astray => NamesOK) /\ DiskOK

-----------------------------------------------------------------------------
(* The lists of channels.                                                  *)
RoomsOK(rs) ==
    /\ DOMAIN rs \subseteq Id
    /\ rs \in [DOMAIN rs -> Room]
    /\ Hall \in DOMAIN rs /\ rs[Hall].resident

(* Leaving a channel deletes it or counts one less; the hall stays.        *)
LEMMA LeftOK ==
    ASSUME NEW rs, RoomsOK(rs), NEW x
    PROVE  RoomsOK(Left(rs, x)) /\ DOMAIN Left(rs, x) \subseteq DOMAIN rs
<1>1. CASE x \notin DOMAIN rs
  BY <1>1 DEF Left
<1>2. CASE x \in DOMAIN rs /\ Emptied(rs, x)
  <2>1. Left(rs, x) = [y \in DOMAIN rs \ {x} |-> rs[y]] /\ x # Hall
    BY <1>2 DEF Left, Emptied, RoomsOK
  <2> QED
    BY <2>1 DEF RoomsOK
<1>3. CASE x \in DOMAIN rs /\ ~Emptied(rs, x)
  <2>1. Left(rs, x) = [rs EXCEPT ![x].count = IF @ > 0 THEN @ - 1 ELSE 0]
    BY <1>3 DEF Left
  <2>2. rs[x] \in Room
    BY <1>3 DEF RoomsOK
  <2>3. rs[x].count \in Nat /\ (IF rs[x].count > 0 THEN rs[x].count - 1 ELSE 0) \in Nat
    BY <2>2 DEF Room
  <2>4. /\ [rs[x] EXCEPT !.count = IF @ > 0 THEN @ - 1 ELSE 0] \in Room
        /\ [rs[x] EXCEPT !.count = IF @ > 0 THEN @ - 1 ELSE 0].resident = rs[x].resident
    BY <2>2, <2>3 DEF Room
  <2>5. Left(rs, x) = [rs EXCEPT ![x] = [rs[x] EXCEPT !.count = IF @ > 0 THEN @ - 1 ELSE 0]]
    BY <2>1
  <2> QED
    BY <2>4, <2>5 DEF RoomsOK
<1> QED
  BY <1>1, <1>2, <1>3

(* Entering a channel counts one more.                                     *)
LEMMA EnteredOK ==
    ASSUME NEW rs, RoomsOK(rs), NEW x
    PROVE  RoomsOK(Entered(rs, x)) /\ DOMAIN Entered(rs, x) = DOMAIN rs
<1>1. Entered(rs, x) = [rs EXCEPT ![x] = [rs[x] EXCEPT !.count = @ + 1]]
  BY DEF Entered
<1>2. CASE x \notin DOMAIN rs
  BY <1>1, <1>2 DEF RoomsOK
<1>3. CASE x \in DOMAIN rs
  <2>1. rs[x] \in Room
    BY <1>3 DEF RoomsOK
  <2>2. /\ [rs[x] EXCEPT !.count = @ + 1] \in Room
        /\ [rs[x] EXCEPT !.count = @ + 1].resident = rs[x].resident
    BY <2>1 DEF Room
  <2> QED
    BY <1>1, <2>2 DEF RoomsOK
<1> QED
  BY <1>2, <1>3

(* A new channel is empty and not resident.                                *)
LEMMA WithRoomOK ==
    ASSUME RoomsOK(rooms), NEW x \in Id \ DOMAIN rooms, NEW l \in Level
    PROVE  RoomsOK(WithRoom(x, l)) /\ DOMAIN WithRoom(x, l) = DOMAIN rooms \cup {x}
<1>1. NewRoom(l, FALSE) \in Room
  BY DEF NewRoom, Room
<1> QED
  BY <1>1 DEF WithRoom, RoomsOK

(* The channels of the start.                                              *)
LEMMA StartOK == RoomsOK(StartRooms) /\ DOMAIN StartRooms = {Hall}
<1>1. MaxLevel \in Level
  BY ChatAssumption DEF Level
<1>2. NewRoom(MaxLevel, TRUE) \in Room /\ NewRoom(MaxLevel, TRUE).resident
  BY <1>1 DEF NewRoom, Room
<1> QED
  BY <1>2, ChatAssumption DEF StartRooms, RoomsOK

-----------------------------------------------------------------------------
(* What the operations the actions share do to the variables of hereVars.  *)
HereOK ==
    /\ state \in [Object -> {"NOT_LOGGED", "LOGIN", "PASSWORD", "LOGGED"}]
    /\ channel \in [Object -> Id \cup {Outside}]
    /\ invite \in [Object -> Id \cup {Outside}]
    /\ RoomsOK(rooms)
    /\ userNb \in Int
    /\ changed \in BOOLEAN

(* The states that nobody leaves but for NOT_LOGGED.                       *)
Fewer ==
    \A v \in Object : state'[v] = state[v] \/ state'[v] = "NOT_LOGGED"

LEMMA HereIsOK == TypeOK /\ HallStays => HereOK
  BY DEF TypeOK, HallStays, HereOK, RoomsOK

(* A logout.                                                               *)
LEMMA EndedOK ==
    ASSUME HereOK, NEW u \in Object, Ended(u), changed' \in BOOLEAN
    PROVE  HereOK' /\ Fewer /\ DOMAIN rooms' \subseteq DOMAIN rooms
<1>1. RoomsOK(rooms') /\ DOMAIN rooms' \subseteq DOMAIN rooms
  <2>1. rooms' = Left(rooms, channel[u]) \/ rooms' = rooms
    BY DEF Ended, Uncounted, RoomsWithout
  <2> QED
    BY <2>1, LeftOK DEF HereOK
<1>2. userNb' \in Int
  BY DEF Ended, Uncounted, UserNbWithout, HereOK
<1>3. state' \in [Object -> {"NOT_LOGGED", "LOGIN", "PASSWORD", "LOGGED"}] /\ Fewer
  BY DEF Ended, HereOK, Fewer
<1>4. channel' \in [Object -> Id \cup {Outside}] /\ invite' \in [Object -> Id \cup {Outside}]
  BY DEF Ended, HereOK
<1> QED
  BY <1>1, <1>2, <1>3, <1>4 DEF HereOK

LEMMA LogoutOK ==
    ASSUME HereOK, NEW u \in Object, LoggedOut(u)
    PROVE  HereOK' /\ Fewer /\ DOMAIN rooms' \subseteq DOMAIN rooms
  BY EndedOK DEF LoggedOut, HereOK

(* A login.                                                                *)
LEMMA LoginOK ==
    ASSUME HereOK, userNbMax \in Nat, NEW u \in Object, NEW rs, RoomsOK(rs), NEW nb \in Int,
           NEW cut \in BOOLEAN, LoggedIn(u, rs, nb, cut)
    PROVE  /\ HereOK' /\ userNbMax' \in Nat
           /\ DOMAIN rooms' = DOMAIN rs
           /\ state'[u] = (IF cut THEN "NOT_LOGGED" ELSE "LOGGED")
           /\ \A v \in Object \ {u} : state'[v] = state[v]
                                      \/ (where'[v] = "none" /\ state'[v] = "NOT_LOGGED")
           /\ ~changed' => ~changed /\ u \notin registered /\ userNbMax' = userNbMax
<1> DEFINE n == IF cut THEN nb ELSE nb + 1
<1>1. RoomsOK(rooms') /\ DOMAIN rooms' = DOMAIN rs
  BY EnteredOK DEF LoggedIn
<1>2. userNb' = n /\ n \in Int /\ userNbMax' = IF n > userNbMax THEN n ELSE userNbMax
  BY DEF LoggedIn
<1>3. userNbMax' \in Nat
  BY <1>2
<1>4. /\ state' \in [Object -> {"NOT_LOGGED", "LOGIN", "PASSWORD", "LOGGED"}]
      /\ state'[u] = (IF cut THEN "NOT_LOGGED" ELSE "LOGGED")
      /\ \A v \in Object \ {u} : state'[v] = state[v]
                                 \/ (where'[v] = "none" /\ state'[v] = "NOT_LOGGED")
  BY DEF LoggedIn, HereOK
<1>5. channel' \in [Object -> Id \cup {Outside}] /\ invite' \in [Object -> Id \cup {Outside}]
  BY ChatAssumption DEF LoggedIn, HereOK
<1>6. changed' = (changed \/ u \in registered \/ n > userNbMax)
  BY DEF LoggedIn, Record
<1> QED
  BY <1>1, <1>2, <1>3, <1>4, <1>5, <1>6 DEF HereOK

(* A change of channel.                                                    *)
LEMMA MoveOK ==
    ASSUME HereOK, astray \in BOOLEAN, NEW rs, RoomsOK(rs), NEW u \in Object, NEW x \in Id,
           NEW cut \in BOOLEAN, MovesAmong(rs, u, x, cut)
    PROVE  /\ HereOK' /\ Fewer /\ DOMAIN rooms' \subseteq DOMAIN rs
           /\ astray' \in BOOLEAN /\ (astray => astray')
           /\ ~changed' => ~changed
<1>1. RoomsOK(rooms') /\ DOMAIN rooms' \subseteq DOMAIN rs
  BY LeftOK, EnteredOK DEF MovesAmong
<1>2. state' \in [Object -> {"NOT_LOGGED", "LOGIN", "PASSWORD", "LOGGED"}] /\ Fewer
  BY DEF MovesAmong, HereOK, Fewer
<1>3. userNb' \in Int
  BY DEF MovesAmong, HereOK
<1>4. channel' \in [Object -> Id \cup {Outside}] /\ invite' \in [Object -> Id \cup {Outside}]
  BY DEF MovesAmong, HereOK
<1>5. /\ changed' = (changed \/ (cut /\ u \in registered))
      /\ astray' = (astray \/ cut)
  BY DEF MovesAmong
<1> QED
  BY <1>1, <1>2, <1>3, <1>4, <1>5 DEF HereOK

(* The logouts of several.                                                 *)
LEMMA WithoutAllOK ==
    ASSUME HereOK, NEW K \in SUBSET Connected
    PROVE  RoomsOK(RoomsWithoutAll(K)) /\ DOMAIN RoomsWithoutAll(K) \subseteq DOMAIN rooms
<1> DEFINE n(x) == Cardinality(InRoom(x) \cap K)
           D == {y \in DOMAIN rooms : \/ rooms[y].resident \/ n(y) = 0
                                      \/ rooms[y].count > n(y)}
           R(x) == [rooms[x] EXCEPT !.count = IF @ > n(x) THEN @ - n(x) ELSE 0]
<1>1. \A x : n(x) \in Nat
  <2>1. \A x : IsFiniteSet(InRoom(x) \cap K)
    BY ChatAssumption, FS_Subset DEF Connected, InList, InRoom
  <2> QED
    BY <2>1, FS_CardinalityType
<1>2. RoomsWithoutAll(K) = [x \in D |-> R(x)]
  BY DEF RoomsWithoutAll
<1>3. \A x \in D : R(x) \in Room /\ R(x).resident = rooms[x].resident
  <2> SUFFICES ASSUME NEW x \in D
               PROVE  R(x) \in Room /\ R(x).resident = rooms[x].resident
    OBVIOUS
  <2>1. rooms[x] \in Room /\ n(x) \in Nat
    BY <1>1 DEF HereOK, RoomsOK
  <2> QED
    BY <2>1 DEF Room
<1>4. D \subseteq DOMAIN rooms /\ Hall \in D
  BY DEF HereOK, RoomsOK
<1> HIDE DEF D, R
<1> QED
  BY <1>2, <1>3, <1>4 DEF HereOK, RoomsOK

LEMMA AllOutOK ==
    ASSUME HereOK, NEW K \in SUBSET Connected, AllOut(K)
    PROVE  /\ state' \in [Object -> {"NOT_LOGGED", "LOGIN", "PASSWORD", "LOGGED"}] /\ Fewer
           /\ userNb' \in Int /\ changed' \in BOOLEAN /\ (~changed' => ~changed)
           /\ ChannelsWithout(K) \in [Object -> Id \cup {Outside}]
           /\ \A L : InvitesWithout(L) \in [Object -> Id \cup {Outside}]
<1>1. IsFiniteSet(K)
  BY ChatAssumption, FS_Subset DEF Connected, InList
<1>2. Cardinality(K) \in Nat
  BY <1>1, FS_CardinalityType
<1>3. userNb' \in Int
  BY <1>2 DEF AllOut, HereOK
<1>4. state' \in [Object -> {"NOT_LOGGED", "LOGIN", "PASSWORD", "LOGGED"}] /\ Fewer
  BY DEF AllOut, HereOK, Fewer
<1>5. changed' \in BOOLEAN /\ (~changed' => ~changed)
  BY DEF AllOut, HereOK
<1>6. ChannelsWithout(K) \in [Object -> Id \cup {Outside}]
  BY DEF ChannelsWithout, HereOK
<1>7. \A L : InvitesWithout(L) \in [Object -> Id \cup {Outside}]
  BY DEF InvitesWithout, HereOK
<1> QED
  BY <1>3, <1>4, <1>5, <1>6, <1>7

(* Everybody sent away.                                                    *)
LEMMA SignalOK ==
    ASSUME HereOK, Signal
    PROVE  /\ HereOK' /\ Fewer /\ DOMAIN rooms' \subseteq DOMAIN rooms
           /\ ~changed' => ~changed
<1>1. /\ AllOut(Connected) /\ rooms' = RoomsWithoutAll(Connected)
      /\ channel' = ChannelsWithout(Connected) /\ invite' = InvitesWithout(Connected)
  BY DEF Signal
<1> QED
  BY <1>1, WithoutAllOK, AllOutOK DEF HereOK

(* A channel deleted under who joins it.                                   *)
LEMMA JoinFreedOK ==
    ASSUME HereOK, astray \in BOOLEAN, NEW u \in Object, NEW x \in Id, NEW K \in SUBSET Object,
           JoinFreed(u, x, K)
    PROVE  /\ HereOK' /\ Fewer /\ DOMAIN rooms' \subseteq DOMAIN rooms
           /\ astray' \in BOOLEAN /\ (astray => astray')
           /\ ~changed' => ~changed
<1>1. /\ AllOut(K) /\ invite' = InvitesWithout(K \cup {u})
      /\ K \in SUBSET Connected /\ K \cup {u} \in SUBSET Connected
  BY DEF JoinFreed, Commands
<1>2. \/ /\ rooms' = RoomsWithoutAll(K) /\ channel' = ChannelsWithout(K)
         /\ astray' = astray
      \/ /\ rooms' = RoomsWithoutAll(K \cup {u})
         /\ channel' = [ChannelsWithout(K) EXCEPT ![u] = x]
         /\ astray' = TRUE
  BY DEF JoinFreed
<1>3. RoomsOK(rooms') /\ DOMAIN rooms' \subseteq DOMAIN rooms
  BY <1>1, <1>2, WithoutAllOK
<1>4. /\ state' \in [Object -> {"NOT_LOGGED", "LOGIN", "PASSWORD", "LOGGED"}] /\ Fewer
      /\ userNb' \in Int /\ changed' \in BOOLEAN /\ (~changed' => ~changed)
      /\ ChannelsWithout(K) \in [Object -> Id \cup {Outside}]
      /\ invite' \in [Object -> Id \cup {Outside}]
  BY <1>1, AllOutOK
<1>5. channel' \in [Object -> Id \cup {Outside}]
  BY <1>2, <1>4
<1> QED
  BY <1>2, <1>3, <1>4, <1>5 DEF HereOK

-----------------------------------------------------------------------------
(* A step after which nobody has a name that was not in use by the same    *)
(* before, and whose changes of the accounts are to be written.            *)
Keeps ==
    /\ \A u \in Object : where'[u] = "list" <=> where[u] = "list"
    /\ \A u \in InList : id'[u] = id[u]
    /\ \A u \in InList : \/ state'[u] \in {state[u], "NOT_LOGGED"}
                         \/ u \in registered /\ state'[u] = "LOGGED"
    /\ registered' \subseteq registered \cup Connected
    /\ phase' = "pending" => phase = "pending" /\ registered' \subseteq registered
    /\ \A x \in DOMAIN rooms' : x \in DOMAIN rooms \/ Holders(x) = {}
    /\ astray => astray'
    /\ disk' = disk
    /\ ~changed' => /\ ~changed /\ registered' = registered /\ userNbMax' = userNbMax
                    /\ \A u \in InList : level'[u] = level[u]

LEMMA KeepsOK ==
    ASSUME NamesInv, TypeOK', HallStays', Keeps
    PROVE  NamesInv'
<1>1. InList' = InList
  BY DEF InList, Keeps
<1>2. Users' \subseteq Users
  <2> SUFFICES ASSUME NEW u \in Users'
               PROVE  u \in Users
    OBVIOUS
  <2>1. u \in InList /\ (state'[u] = "LOGGED" \/ u \in registered')
    BY <1>1 DEF Users, Connected, Accounts
  <2>2. state[u] = "LOGGED" \/ u \in registered
    BY <2>1 DEF Keeps, Connected
  <2> QED
    BY <2>1, <2>2 DEF Users, Connected, Accounts
<1>3. ListInv'
  <2>1. registered' \subseteq InList'
    BY <1>1 DEF NamesInv, ListInv, Keeps, Connected
  <2>2. ASSUME NEW u \in InList'
        PROVE  id'[u] \in Id /\ state'[u] \in {"NOT_LOGGED", "LOGGED"}
    BY <1>1, <2>2 DEF NamesInv, ListInv, Keeps
  <2> QED
    BY <2>1, <2>2 DEF ListInv
<1>4. ASSUME ~astray'
      PROVE  NamesOK'
  <2>1. NamesOK
    BY <1>4 DEF Keeps, NamesInv
  <2>2. \A u \in InList : id'[u] = id[u]
    BY DEF Keeps
  <2>3. Users \subseteq InList
    BY DEF Users, Connected, Accounts
  <2>4. NamesOfUsers'
    BY <1>2, <2>1, <2>2, <2>3 DEF NamesOK, NamesOfUsers
  <2>5. NamesOfRooms'
    <3> SUFFICES ASSUME NEW u \in InList, id'[u] \in DOMAIN rooms'
                 PROVE  FALSE
      BY <1>1 DEF NamesOfRooms
    <3>1. id[u] \in DOMAIN rooms'
      BY <2>2
    <3>2. u \in Holders(id[u])
      BY DEF Holders
    <3>3. id[u] \in DOMAIN rooms
      BY <3>1, <3>2 DEF Keeps
    <3> QED
      BY <2>1, <3>3 DEF NamesOK, NamesOfRooms
  <2>6. NoneHidden'
    <3> SUFFICES ASSUME phase' = "pending", NEW u \in Gone', NEW v \in Accounts'
                 PROVE  id'[u] # id'[v]
      BY DEF NoneHidden
    <3>1. phase = "pending" /\ registered' \subseteq registered
      BY DEF Keeps
    <3>2. u \in InList /\ u \notin registered' /\ v \in InList /\ v \in registered'
      BY <1>1 DEF Gone, Accounts
    <3>3. v \in Accounts /\ u # v /\ id'[u] = id[u] /\ id'[v] = id[v]
      BY <2>2, <3>1, <3>2 DEF Accounts
    <3>4. CASE u \in Users
      BY <2>1, <3>3, <3>4 DEF NamesOK, NamesOfUsers, Users
    <3>5. CASE u \notin Users
      <4>1. u \in Gone
        BY <3>2, <3>5 DEF NamesInv, ListInv, Users, Connected, Accounts, Gone
      <4> QED
        BY <2>1, <3>1, <3>3, <4>1 DEF NamesOK, NoneHidden
    <3> QED
      BY <3>4, <3>5
  <2>7. NamesOnDisk'
    BY <2>1 DEF Keeps, NamesOK, NamesOnDisk
  <2> QED
    BY <2>4, <2>5, <2>6, <2>7 DEF NamesOK
<1>5. DiskOK'
  <2> SUFFICES ASSUME ~changed'
               PROVE  disk' = [accounts |-> Saved', max |-> userNbMax']
    BY DEF DiskOK
  <2>1. /\ ~changed /\ registered' = registered /\ userNbMax' = userNbMax
        /\ \A u \in InList : level'[u] = level[u] /\ id'[u] = id[u]
        /\ disk' = disk
    BY DEF Keeps
  <2>2. Accounts' = Accounts
    BY <1>1, <2>1 DEF Accounts
  <2>3. Saved' = Saved
    BY <2>1, <2>2 DEF Saved, Accounts
  <2> QED
    BY <2>1, <2>3 DEF NamesInv, DiskOK
<1> QED
  BY <1>3, <1>4, <1>5 DEF NamesInv

(* Most steps leave the list and the accounts as they are.                 *)
LEMMA QuietOK ==
    ASSUME NamesInv, HereOK', Fewer, UNCHANGED <<userVars, diskVars>>,
           phase' \in {"reading", "pending", "users"}, phase' = phase \/ phase' # "pending",
           moved' \in BOOLEAN, leaving' \in BOOLEAN,
           astray' \in BOOLEAN, astray => astray',
           \A x \in DOMAIN rooms' : x \in DOMAIN rooms \/ Holders(x) = {},
           ~changed' => ~changed
    PROVE  NamesInv'
<1>1. TypeOK
  BY DEF NamesInv
<1>2. TypeOK' /\ HallStays'
  BY <1>1 DEF TypeOK, HallStays, HereOK, RoomsOK, userVars, diskVars
<1>3. Keeps
  BY DEF Keeps, Fewer, InList, userVars, diskVars
<1> QED
  BY <1>2, <1>3, KeepsOK

LEMMA InvHereOK == NamesInv => /\ HereOK
                               /\ TypeOK
                               /\ astray \in BOOLEAN /\ moved \in BOOLEAN /\ leaving \in BOOLEAN
                               /\ phase \in {"reading", "pending", "users"}
  BY HereIsOK DEF NamesInv, TypeOK

(* Logouts.                                                                *)
LEMMA LogoutStep ==
    ASSUME NamesInv, NEW u \in Object, LoggedOut(u),
           UNCHANGED <<userVars, loopVars, diskVars, astray>>
    PROVE  NamesInv'
<1>1. HereOK' /\ Fewer /\ DOMAIN rooms' \subseteq DOMAIN rooms
  BY InvHereOK, LogoutOK
<1>2. ~changed' => ~changed
  BY DEF LoggedOut
<1> QED
  BY <1>1, <1>2, InvHereOK, QuietOK DEF loopVars

LEMMA HangUpStep ==
    ASSUME NamesInv, NEW u \in Object, HangUp(u)
    PROVE  NamesInv'
<1>1. LoggedOut(u)
  BY DEF HangUp
<1>2. HereOK' /\ Fewer /\ DOMAIN rooms' \subseteq DOMAIN rooms
  BY <1>1, InvHereOK, LogoutOK
<1>3. ~changed' => ~changed
  BY <1>1 DEF LoggedOut
<1>4. TypeOK' /\ HallStays'
  BY <1>2, InvHereOK DEF HangUp, TypeOK, HallStays, HereOK, RoomsOK, loopVars, diskVars
<1>5. \A v \in Object : where'[v] = "list" <=> where[v] = "list"
  BY InvHereOK DEF HangUp, TypeOK
<1>6. Keeps
  BY <1>2, <1>3, <1>5 DEF Keeps, Fewer, InList, HangUp, loopVars, diskVars
<1> QED
  BY <1>4, <1>6, KeepsOK

(* Changes of channel.                                                     *)
LEMMA MoveStep ==
    ASSUME NamesInv, NEW rs, RoomsOK(rs), NEW u \in Object, NEW x \in Id, NEW cut \in BOOLEAN,
           MovesAmong(rs, u, x, cut),
           \A y \in DOMAIN rs : y \in DOMAIN rooms \/ Holders(y) = {}
    PROVE  NamesInv'
<1>1. /\ HereOK' /\ Fewer /\ DOMAIN rooms' \subseteq DOMAIN rs
      /\ astray' \in BOOLEAN /\ (astray => astray')
      /\ ~changed' => ~changed
  BY InvHereOK, MoveOK
<1>2. UNCHANGED <<userVars, loopVars, diskVars>>
  BY DEF MovesAmong, userVars
<1> QED
  BY <1>1, <1>2, InvHereOK, QuietOK DEF loopVars

LEMMA MovesStep ==
    ASSUME NamesInv, NEW u \in Object, NEW x \in Id, NEW cut \in BOOLEAN, Moves(u, x, cut)
    PROVE  NamesInv'
<1>1. RoomsOK(rooms)
  BY InvHereOK DEF HereOK
<1> QED
  BY <1>1, MoveStep DEF Moves

LEMMA CreateStep ==
    ASSUME NamesInv, NEW u \in Object, NEW x \in Id, NEW cut \in BOOLEAN, Create(u, x, cut)
    PROVE  NamesInv'
<1>1. x \in Id \ DOMAIN rooms /\ Holders(x) = {} /\ level[u] \in Level /\ RoomsOK(rooms)
  BY InvHereOK DEF Create, Taken, TypeOK, HereOK
<1>2. /\ RoomsOK(WithRoom(x, level[u]))
      /\ \A y \in DOMAIN WithRoom(x, level[u]) : y \in DOMAIN rooms \/ Holders(y) = {}
  <2>1. RoomsOK(WithRoom(x, level[u])) /\ DOMAIN WithRoom(x, level[u]) = DOMAIN rooms \cup {x}
    BY <1>1, WithRoomOK
  <2> QED
    BY <1>1, <2>1
<1>3. CASE x = channel[u]
  <2>1. /\ rooms' = WithRoom(x, level[u])
        /\ UNCHANGED <<userVars, state, channel, invite, userNb, changed, loopVars, diskVars, astray>>
    BY <1>3 DEF Create
  <2>2. HereOK' /\ Fewer
    BY <1>2, <2>1, InvHereOK DEF HereOK, Fewer
  <2> QED
    BY <1>2, <2>1, <2>2, InvHereOK, QuietOK DEF loopVars
<1>4. CASE x # channel[u]
  BY <1>2, <1>4, MoveStep DEF Create
<1> QED
  BY <1>3, <1>4

(* Steps that change the list of channels only.                            *)
LEMMA RoomsStep ==
    ASSUME NamesInv, RoomsOK(rooms'), astray' \in BOOLEAN, astray => astray',
           \A y \in DOMAIN rooms' : y \in DOMAIN rooms \/ Holders(y) = {},
           UNCHANGED <<userVars, state, channel, invite, userNb, changed, loopVars, diskVars>>
    PROVE  NamesInv'
<1>1. HereOK' /\ Fewer
  BY InvHereOK DEF HereOK, Fewer
<1> QED
  BY <1>1, InvHereOK, QuietOK DEF loopVars

LEMMA SetChannelIdStep ==
    ASSUME NamesInv, NEW u \in Object, NEW x \in Id, NEW i \in Id, SetChannelId(u, x, i)
    PROVE  NamesInv'
<1>1. i \notin DOMAIN rooms /\ Holders(i) = {} /\ x \in DOMAIN rooms \ {Hall} /\ RoomsOK(rooms)
  BY InvHereOK DEF SetChannelId, Rules, Taken, HereOK
<1>2. rooms' = [y \in (DOMAIN rooms \ {x}) \cup {i} |-> rooms[IF y = i THEN x ELSE y]]
  BY DEF SetChannelId
<1>3. RoomsOK(rooms')
  BY <1>1, <1>2 DEF RoomsOK
<1>4. astray' \in BOOLEAN /\ (astray => astray')
  BY InvHereOK DEF SetChannelId
<1> QED
  BY <1>1, <1>2, <1>3, <1>4, RoomsStep DEF SetChannelId

LEMMA SetChannelGroupStep ==
    ASSUME NamesInv, NEW u \in Object, NEW x \in Id, NEW l \in Level, SetChannelGroup(u, x, l)
    PROVE  NamesInv'
<1>1. x \in DOMAIN rooms /\ RoomsOK(rooms)
  BY InvHereOK DEF SetChannelGroup, Rules, HereOK
<1>2. rooms' = [rooms EXCEPT ![x] = [rooms[x] EXCEPT !.level = l]]
  BY DEF SetChannelGroup
<1>3. rooms[x] \in Room
  BY <1>1 DEF RoomsOK
<1>4. [rooms[x] EXCEPT !.level = l] \in Room
      /\ [rooms[x] EXCEPT !.level = l].resident = rooms[x].resident
  BY <1>3 DEF Room
<1>5. RoomsOK(rooms') /\ DOMAIN rooms' = DOMAIN rooms
  BY <1>1, <1>2, <1>4 DEF RoomsOK
<1> QED
  BY <1>5, InvHereOK, RoomsStep DEF SetChannelGroup

LEMMA SetFlagStep ==
    ASSUME NamesInv, NEW u \in Object, NEW x \in Id, NEW f \in Flag, SetFlag(u, x, f)
    PROVE  NamesInv'
<1>1. x \in DOMAIN rooms /\ RoomsOK(rooms)
  BY InvHereOK DEF SetFlag, Rules, HereOK
<1> DEFINE F == IF f \in rooms[x].flags THEN rooms[x].flags \ {f} ELSE rooms[x].flags \cup {f}
<1>2. rooms' = [rooms EXCEPT ![x] = [rooms[x] EXCEPT !.flags = F]]
  BY DEF SetFlag
<1>3. rooms[x] \in Room /\ F \subseteq Flag
  BY <1>1 DEF RoomsOK, Room
<1>4. [rooms[x] EXCEPT !.flags = F] \in Room
      /\ [rooms[x] EXCEPT !.flags = F].resident = rooms[x].resident
  BY <1>3 DEF Room
<1>5. RoomsOK(rooms') /\ DOMAIN rooms' = DOMAIN rooms
  BY <1>1, <1>2, <1>4 DEF RoomsOK
<1> QED
  BY <1>5, InvHereOK, RoomsStep DEF SetFlag

LEMMA SetResidentStep ==
    ASSUME NamesInv, NEW u \in Object, NEW x \in Id, SetResident(u, x)
    PROVE  NamesInv'
<1>1. x \in DOMAIN rooms \ {Hall} /\ RoomsOK(rooms)
  BY InvHereOK DEF SetResident, Rules, HereOK
<1>2. rooms[x] \in Room
  BY <1>1 DEF RoomsOK
<1>3. RoomsOK(rooms') /\ DOMAIN rooms' \subseteq DOMAIN rooms
  <2>1. CASE rooms' = [y \in DOMAIN rooms \ {x} |-> rooms[y]]
    BY <1>1, <2>1 DEF RoomsOK
  <2>2. CASE rooms' = [rooms EXCEPT ![x].resident = ~@]
    <3>1. [rooms[x] EXCEPT !.resident = ~@] \in Room
      BY <1>2 DEF Room
    <3>2. rooms' = [rooms EXCEPT ![x] = [rooms[x] EXCEPT !.resident = ~@]]
      BY <2>2
    <3> QED
      BY <1>1, <3>1, <3>2 DEF RoomsOK
  <2> QED
    BY <2>1, <2>2 DEF SetResident
<1> QED
  BY <1>3, InvHereOK, RoomsStep DEF SetResident

(* The steps of the loop and of the signal that change no name.            *)
LEMMA LoopStep ==
    ASSUME NamesInv, PendingDone \/ UsersDone
    PROVE  NamesInv'
<1>1. /\ UNCHANGED <<userVars, hereVars, moved, leaving, diskVars, astray>>
      /\ phase' \in {"reading", "users"}
  BY DEF PendingDone, UsersDone
<1>2. HereOK' /\ Fewer
  BY <1>1, InvHereOK DEF HereOK, Fewer, hereVars
<1> QED
  BY <1>1, <1>2, InvHereOK, QuietOK DEF hereVars

LEMMA SignalStep ==
    ASSUME NamesInv, Signal
    PROVE  NamesInv'
<1>1. HereOK' /\ Fewer /\ DOMAIN rooms' \subseteq DOMAIN rooms /\ (~changed' => ~changed)
  BY InvHereOK, SignalOK
<1>2. /\ UNCHANGED <<userVars, phase, diskVars, astray>>
      /\ moved' \in BOOLEAN /\ leaving' = TRUE
  BY DEF Signal
<1> QED
  BY <1>1, <1>2, InvHereOK, QuietOK

LEMMA JoinFreedStep ==
    ASSUME NamesInv, NEW u \in Object, NEW x \in Id, NEW K \in SUBSET Object, JoinFreed(u, x, K)
    PROVE  NamesInv'
<1>1. /\ HereOK' /\ Fewer /\ DOMAIN rooms' \subseteq DOMAIN rooms
      /\ astray' \in BOOLEAN /\ (astray => astray')
      /\ ~changed' => ~changed
  BY InvHereOK, JoinFreedOK
<1>2. UNCHANGED <<userVars, loopVars, diskVars>>
  BY DEF JoinFreed
<1> QED
  BY <1>1, <1>2, InvHereOK, QuietOK DEF loopVars

LEMMA InviteStep ==
    ASSUME NamesInv, NEW u \in Object, NEW v \in Object, Invite(u, v)
    PROVE  NamesInv'
<1>1. HereOK' /\ Fewer
  BY InvHereOK DEF Invite, HereOK, Fewer
<1> QED
  BY <1>1, InvHereOK, QuietOK DEF Invite, loopVars

(* Connections, and what somebody types before being in.                   *)
LEMMA AddConnStep ==
    ASSUME NamesInv, NEW u \in Object, AddConn(u)
    PROVE  NamesInv'
<1>1. TypeOK /\ HereOK
  BY InvHereOK
<1>2. 0 \in Level
  BY ChatAssumption DEF Level
<1>3. TypeOK' /\ HallStays'
  BY <1>1, <1>2 DEF AddConn, TypeOK, HallStays, HereOK, RoomsOK, loopVars, diskVars
<1>4. u \notin InList /\ \A v \in Object : where'[v] = "list" <=> where[v] = "list"
  BY <1>1 DEF AddConn, TypeOK, InList
<1>5. \A v \in InList : id'[v] = id[v] /\ level'[v] = level[v] /\ state'[v] = state[v]
  BY <1>1, <1>4 DEF AddConn, TypeOK, InList
<1>6. Keeps
  BY <1>4, <1>5 DEF AddConn, Keeps, loopVars, diskVars
<1> QED
  BY <1>3, <1>6, KeepsOK

LEMMA LoginNameStep ==
    ASSUME NamesInv, NEW u \in Object, NEW i \in Id, LoginName(u, i)
    PROVE  NamesInv'
<1>1. TypeOK /\ HereOK
  BY InvHereOK
<1>2. PICK a \in SearchUId(i) : level' = [level EXCEPT ![u] = level[a]]
  BY DEF LoginName
<1>3. level[a] \in Level
  BY <1>1 DEF SearchUId, TypeOK
<1>4. TypeOK' /\ HallStays'
  BY <1>1, <1>2, <1>3 DEF LoginName, TypeOK, HallStays, HereOK, RoomsOK, loopVars, diskVars
<1>5. u \notin InList
  BY DEF LoginName, Typing, InList
<1>6. \A v \in InList : id'[v] = id[v] /\ level'[v] = level[v] /\ state'[v] = state[v]
  BY <1>1, <1>2, <1>5 DEF LoginName, TypeOK, InList
<1>7. Keeps
  BY <1>6 DEF LoginName, Keeps, loopVars, diskVars
<1> QED
  BY <1>4, <1>7, KeepsOK

LEMMA WrongPasswordStep ==
    ASSUME NamesInv, NEW u \in Object, NEW b \in BOOLEAN, WrongPassword(u, b)
    PROVE  NamesInv'
<1>1. TypeOK /\ HereOK
  BY InvHereOK
<1>2. 0 \in Level
  BY ChatAssumption DEF Level
<1>3. TypeOK' /\ HallStays'
  BY <1>1, <1>2 DEF WrongPassword, TypeOK, HallStays, HereOK, RoomsOK, loopVars, diskVars
<1>4. u \notin InList
  BY DEF WrongPassword, Typing, InList
<1>5. \A v \in InList : id'[v] = id[v] /\ level'[v] = level[v] /\ state'[v] = state[v]
  BY <1>1, <1>4 DEF WrongPassword, TypeOK, InList
<1>6. ~changed' => ~changed
  BY DEF WrongPassword
<1>7. Keeps
  BY <1>5, <1>6 DEF WrongPassword, Keeps, loopVars, diskVars
<1> QED
  BY <1>3, <1>7, KeepsOK

(* The account gets the connection, and is written for it.                 *)
LEMMA RightPasswordStep ==
    ASSUME NamesInv, NEW u \in Object, NEW a \in Object, NEW cut \in BOOLEAN,
           RightPassword(u, a, cut)
    PROVE  NamesInv'
<1>1. TypeOK /\ HereOK
  BY InvHereOK
<1>2. 0 \in Level
  BY ChatAssumption DEF Level
<1>3. a \in InList /\ a \in registered /\ u \notin InList
  BY DEF RightPassword, Typing, SearchUId, First, Holders, InList
<1>4. RoomsOK(RoomsWithout(a)) /\ DOMAIN RoomsWithout(a) \subseteq DOMAIN rooms
  BY <1>1, LeftOK DEF RoomsWithout, HereOK
<1>5. UserNbWithout(a) \in Int /\ userNbMax \in Nat
  BY <1>1 DEF UserNbWithout, TypeOK
<1>6. LoggedIn(a, RoomsWithout(a), UserNbWithout(a), cut)
  BY DEF RightPassword
<1>7. /\ HereOK' /\ userNbMax' \in Nat
      /\ DOMAIN rooms' = DOMAIN RoomsWithout(a)
      /\ state'[a] = (IF cut THEN "NOT_LOGGED" ELSE "LOGGED")
      /\ \A v \in Object \ {a} : state'[v] = state[v]
                                 \/ (where'[v] = "none" /\ state'[v] = "NOT_LOGGED")
      /\ ~changed' => ~changed /\ a \notin registered /\ userNbMax' = userNbMax
  BY <1>1, <1>4, <1>5, <1>6, LoginOK
<1>8. /\ where' = [where EXCEPT ![u] = "none"]
      /\ id' = [id EXCEPT ![u] = Nobody]
      /\ level' = [level EXCEPT ![u] = 0]
      /\ astray' = (astray \/ cut)
      /\ UNCHANGED <<registered, loopVars, disk>>
  BY DEF RightPassword
<1>9. TypeOK' /\ HallStays'
  BY <1>1, <1>2, <1>7, <1>8 DEF TypeOK, HallStays, HereOK, RoomsOK, loopVars
<1>10. \A v \in Object : where'[v] = "list" <=> where[v] = "list"
  BY <1>1, <1>3, <1>8 DEF TypeOK, InList
<1>11. \A v \in InList : id'[v] = id[v] /\ level'[v] = level[v]
  BY <1>1, <1>3, <1>8 DEF TypeOK, InList
<1>12. \A v \in InList : \/ state'[v] \in {state[v], "NOT_LOGGED"}
                         \/ v \in registered /\ state'[v] = "LOGGED"
  BY <1>3, <1>7 DEF InList
<1>13. Keeps
  BY <1>3, <1>4, <1>7, <1>8, <1>10, <1>11, <1>12 DEF Keeps, loopVars
<1> QED
  BY <1>9, <1>13, KeepsOK

-----------------------------------------------------------------------------
(* The commands that make, change and remove accounts.                     *)
LEMMA KillStep ==
    ASSUME NamesInv, NEW u \in Object, NEW v \in Object, Kill(u, v)
    PROVE  NamesInv'
<1>1. TypeOK /\ HereOK
  BY InvHereOK
<1>2. /\ state' \in [Object -> {"NOT_LOGGED", "LOGIN", "PASSWORD", "LOGGED"}]
      /\ channel' \in [Object -> Id \cup {Outside}]
      /\ invite' \in [Object -> Id \cup {Outside}]
      /\ RoomsOK(rooms') /\ DOMAIN rooms' \subseteq DOMAIN rooms
      /\ userNb' \in Int /\ Fewer
  <2>1. CASE v \in Connected
    <3>1. Ended(v) /\ changed' = TRUE
      BY <2>1 DEF Kill
    <3> QED
      BY <1>1, <3>1, EndedOK DEF HereOK
  <2>2. CASE v \notin Connected
    BY <1>1, <2>2 DEF Kill, HereOK, Fewer
  <2> QED
    BY <2>1, <2>2
<1>3. /\ registered' = registered \ {v} /\ changed' = TRUE
      /\ UNCHANGED <<where, id, level, loopVars, diskVars, astray>>
  BY DEF Kill
<1>4. TypeOK' /\ HallStays'
  BY <1>1, <1>2, <1>3 DEF TypeOK, HallStays, RoomsOK, loopVars, diskVars
<1>5. Keeps
  BY <1>2, <1>3 DEF Keeps, Fewer, InList, loopVars, diskVars
<1> QED
  BY <1>4, <1>5, KeepsOK

LEMMA RegisterStep ==
    ASSUME NamesInv, NEW u \in Object, Register(u)
    PROVE  NamesInv'
<1>1. TypeOK /\ HereOK
  BY InvHereOK
<1>2. RegisterLevel \in Level
  BY ChatAssumption
<1>3. u \in Connected /\ phase = "users"
  BY DEF Register, Commands
<1>4. TypeOK' /\ HallStays'
  BY <1>1, <1>2 DEF Register, TypeOK, HallStays, HereOK, RoomsOK, loopVars, diskVars
<1>5. Keeps
  BY <1>3 DEF Register, Keeps, loopVars, diskVars
<1> QED
  BY <1>4, <1>5, KeepsOK

LEMMA SetGroupStep ==
    ASSUME NamesInv, NEW u \in Object, NEW v \in Object, NEW l \in Level, SetGroup(u, v, l)
    PROVE  NamesInv'
<1>1. TypeOK /\ HereOK
  BY InvHereOK
<1>2. TypeOK' /\ HallStays'
  BY <1>1 DEF SetGroup, TypeOK, HallStays, HereOK, RoomsOK, loopVars, diskVars
<1>3. Keeps
  BY DEF SetGroup, Keeps, loopVars, diskVars
<1> QED
  BY <1>2, <1>3, KeepsOK

(* A name that nothing has is given to somebody who has another.           *)
LEMMA SetUserIdStep ==
    ASSUME NamesInv, NEW u \in Object, NEW v \in Object, NEW i \in Id, SetUserId(u, v, i)
    PROVE  NamesInv'
<1>1. TypeOK /\ HereOK
  BY InvHereOK
<1>2. /\ phase = "users" /\ v \in InList
      /\ Holders(i) = {} /\ i \notin DOMAIN rooms
      /\ id' = [id EXCEPT ![v] = i]
      /\ changed' = (changed \/ v \in registered)
      /\ UNCHANGED <<where, registered, level, invite, state, channel, rooms, userNb,
                     loopVars, diskVars, astray>>
  BY DEF SetUserId, Commands, Renamed, Taken
<1>3. TypeOK' /\ HallStays'
  BY <1>1, <1>2 DEF NamesInv, TypeOK, HallStays, loopVars, diskVars
<1>4. InList' = InList /\ Users' = Users /\ Accounts' = Accounts
  BY <1>2 DEF Users, Connected, Accounts, InList
<1>5. /\ id'[v] = i
      /\ \A w \in InList \ {v} : id'[w] = id[w] /\ id[w] # i
  BY <1>1, <1>2 DEF TypeOK, InList, Holders
<1>6. ListInv'
  BY <1>2, <1>4, <1>5 DEF NamesInv, ListInv
<1>7. ASSUME ~astray'
      PROVE  NamesOK'
  <2>1. NamesOK
    BY <1>2, <1>7 DEF NamesInv
  <2>2. Users \subseteq InList
    BY DEF Users, Connected, Accounts
  <2>3. NamesOfUsers'
    BY <1>4, <1>5, <2>1, <2>2 DEF NamesOK, NamesOfUsers
  <2>4. NamesOfRooms'
    BY <1>2, <1>4, <1>5, <2>1 DEF NamesOK, NamesOfRooms
  <2>5. NoneHidden' /\ NamesOnDisk'
    BY <1>2, <2>1 DEF NamesOK, NoneHidden, NamesOnDisk, loopVars, diskVars
  <2> QED
    BY <2>3, <2>4, <2>5 DEF NamesOK
<1>8. DiskOK'
  <2> SUFFICES ASSUME ~changed'
               PROVE  disk' = [accounts |-> Saved', max |-> userNbMax']
    BY DEF DiskOK
  <2>1. ~changed /\ v \notin Accounts
    BY <1>2 DEF Accounts
  <2>2. \A w \in Accounts : id'[w] = id[w]
    BY <1>5, <2>1 DEF Accounts
  <2>3. Saved' = Saved
    BY <1>2, <1>4, <2>2 DEF Saved
  <2> QED
    BY <1>2, <2>1, <2>3 DEF NamesInv, DiskOK, diskVars
<1> QED
  BY <1>3, <1>6, <1>7, <1>8 DEF NamesInv

(* Who logs in under a name that no account has: an account that had it    *)
(* would be hidden by somebody about to be removed, and there is none.     *)
LEMMA LoginNewStep ==
    ASSUME NamesInv, NEW u \in Object, NEW i \in Id, NEW cut \in BOOLEAN, LoginNew(u, i, cut)
    PROVE  NamesInv'
<1>1. TypeOK /\ HereOK
  BY InvHereOK
<1>2. 0 \in Level
  BY ChatAssumption DEF Level
<1>3. /\ phase = "pending" /\ where[u] = "pending"
      /\ MayLogin(i)
      /\ where' = [where EXCEPT ![u] = "list"]
      /\ id' = [id EXCEPT ![u] = i]
      /\ level' = [level EXCEPT ![u] = 0]
      /\ LoggedIn(u, rooms, userNb, cut)
      /\ astray' = (astray \/ cut \/ \E v \in Connected : id[v] = i)
      /\ UNCHANGED <<registered, loopVars, disk>>
  BY DEF LoginNew, Typing
<1>4. RoomsOK(rooms) /\ userNb \in Int /\ userNbMax \in Nat
  BY <1>1 DEF HereOK, TypeOK
<1>5. /\ HereOK' /\ userNbMax' \in Nat
      /\ DOMAIN rooms' = DOMAIN rooms
      /\ state'[u] = (IF cut THEN "NOT_LOGGED" ELSE "LOGGED")
      /\ \A v \in Object \ {u} : state'[v] = state[v]
                                 \/ (where'[v] = "none" /\ state'[v] = "NOT_LOGGED")
      /\ ~changed' => ~changed /\ u \notin registered /\ userNbMax' = userNbMax
  BY <1>1, <1>3, <1>4, LoginOK
<1>6. TypeOK' /\ HallStays'
  BY <1>1, <1>2, <1>3, <1>5 DEF TypeOK, HallStays, HereOK, RoomsOK, loopVars
<1>7. u \notin InList /\ u \notin registered /\ InList' = InList \cup {u}
  <2>1. u \notin InList
    BY <1>3 DEF InList
  <2>2. InList' = InList \cup {u}
    BY <1>1, <1>3 DEF TypeOK, InList
  <2> QED
    BY <2>1, <2>2 DEF NamesInv, ListInv
<1>8. \A v \in InList : id'[v] = id[v] /\ level'[v] = level[v] /\ state'[v] = state[v]
  <2> SUFFICES ASSUME NEW v \in InList
               PROVE  id'[v] = id[v] /\ level'[v] = level[v] /\ state'[v] = state[v]
    OBVIOUS
  <2>1. v # u /\ v \in Object /\ where[v] = "list"
    BY <1>7 DEF InList
  <2>2. where'[v] = "list"
    BY <1>1, <1>3, <2>1 DEF TypeOK
  <2> QED
    BY <1>1, <1>3, <1>5, <2>1, <2>2 DEF TypeOK
<1>9. id'[u] = i
  BY <1>1, <1>3 DEF TypeOK
<1>10. Accounts' = Accounts /\ Users' \subseteq Users \cup {u} /\ Users \subseteq InList
  BY <1>3, <1>7, <1>8 DEF Accounts, Users, Connected
<1>11. ListInv'
  <2>1. registered' \subseteq InList'
    BY <1>3, <1>7 DEF NamesInv, ListInv
  <2>2. state'[u] \in {"NOT_LOGGED", "LOGGED"}
    BY <1>5
  <2> QED
    BY <1>7, <1>8, <1>9, <2>1, <2>2 DEF NamesInv, ListInv
<1>12. ASSUME ~astray'
       PROVE  NamesOK'
  <2>1. NamesOK /\ ~cut /\ \A v \in Connected : id[v] # i
    BY <1>3, <1>12 DEF NamesInv
  <2>2. \A v \in Accounts : id[v] # i
    <3> SUFFICES ASSUME NEW v \in Accounts, id[v] = i
                 PROVE  FALSE
      OBVIOUS
    <3>1. v \in Holders(i) /\ v \in registered
      BY DEF Accounts, Holders
    <3>2. v \notin First(i)
      BY <1>3, <3>1 DEF MayLogin, SearchUId
    <3>3. PICK g : g \in Holders(i) /\ g \in Gone
      BY <3>1, <3>2 DEF First
    <3>4. id[g] = i
      BY <3>3 DEF Holders
    <3> QED
      BY <1>3, <2>1, <3>3, <3>4 DEF NamesOK, NoneHidden
  <2>3. \A v \in Users : id[v] # i
    BY <2>1, <2>2 DEF Users
  <2>4. NamesOfUsers'
    BY <1>8, <1>9, <1>10, <2>1, <2>3 DEF NamesOK, NamesOfUsers
  <2>5. i \notin DOMAIN rooms
    BY <1>3, <2>1 DEF MayLogin, Holders, NamesOK, NamesOfRooms
  <2>6. NamesOfRooms'
    BY <1>5, <1>7, <1>8, <1>9, <2>1, <2>5 DEF NamesOK, NamesOfRooms
  <2>7. Gone' \subseteq Gone
    BY <1>3, <1>5, <1>7, <1>8, <2>1 DEF Gone
  <2>8. NoneHidden'
    BY <1>3, <1>8, <1>10, <2>1, <2>7 DEF NamesOK, NoneHidden, loopVars, Gone, Accounts
  <2>9. NamesOnDisk'
    BY <1>3, <2>1 DEF NamesOK, NamesOnDisk
  <2> QED
    BY <2>4, <2>6, <2>8, <2>9 DEF NamesOK
<1>13. DiskOK'
  <2> SUFFICES ASSUME ~changed'
               PROVE  disk' = [accounts |-> Saved', max |-> userNbMax']
    BY DEF DiskOK
  <2>1. ~changed /\ userNbMax' = userNbMax
    BY <1>5
  <2>2. Saved' = Saved
    BY <1>8, <1>10 DEF Saved, Accounts
  <2> QED
    BY <1>3, <2>1, <2>2 DEF NamesInv, DiskOK
<1> QED
  BY <1>6, <1>11, <1>12, <1>13 DEF NamesInv

-----------------------------------------------------------------------------
(* What is written has the types of the database.                          *)
LEMMA SavedType ==
    ASSUME TypeOK, ListInv
    PROVE  [accounts |-> Saved, max |-> userNbMax]
             \in [accounts : SUBSET [id : Id, level : Level], max : Nat]
<1>1. \A u \in Accounts : id[u] \in Id /\ level[u] \in Level
  BY DEF TypeOK, ListInv, Accounts, InList
<1>2. Saved \subseteq [id : Id, level : Level]
  BY <1>1 DEF Saved
<1> QED
  BY <1>2 DEF TypeOK

(* The removal of the objects that nobody uses, and the writing.           *)
LEMMA ReapStep ==
    ASSUME NamesInv, Reap
    PROVE  NamesInv'
<1>1. TypeOK /\ HereOK /\ ListInv /\ HallStays
  BY InvHereOK DEF NamesInv
<1>2. 0 \in Level
  BY ChatAssumption DEF Level
<1>3. /\ phase' = "pending"
      /\ where' = [u \in Object |-> IF u \in Removed THEN "none" ELSE where[u]]
      /\ disk' = IF changed THEN [accounts |-> Saved, max |-> userNbMax] ELSE disk
      /\ changed' = FALSE
      /\ id' = [u \in Object |-> IF u \in Removed THEN Nobody ELSE id[u]]
      /\ level' = [u \in Object |-> IF u \in Removed THEN 0 ELSE level[u]]
      /\ channel' = [u \in Object |-> IF u \in Removed THEN Outside ELSE channel[u]]
      /\ UNCHANGED <<registered, state, invite, rooms, userNb, moved, leaving,
                     userNbMax, astray>>
  BY DEF Reap
<1>4. TypeOK' /\ HallStays'
  <2>1. disk' \in [accounts : SUBSET [id : Id, level : Level], max : Nat]
    BY <1>1, <1>3, SavedType DEF TypeOK
  <2> QED
    BY <1>1, <1>2, <1>3, <2>1 DEF TypeOK, HallStays
<1>5. InList' = InList \ Gone /\ InList' \cap Removed = {}
  <2>1. \A u \in Object : where'[u] = "list" <=> where[u] = "list" /\ u \notin Removed
    BY <1>3
  <2>2. InList \cap Removed = Gone
    BY DEF Removed, Gone, InList
  <2> QED
    BY <2>1, <2>2 DEF InList
<1>6. \A u \in InList' : id'[u] = id[u] /\ level'[u] = level[u] /\ u \in InList
  BY <1>3, <1>5 DEF InList
<1>7. Accounts' = Accounts /\ Users' = Users /\ Users \subseteq InList' /\ Gone' = {}
  BY <1>1, <1>3, <1>5 DEF Accounts, Users, Connected, Gone, ListInv
<1>8. ListInv'
  <2>1. registered' \subseteq InList'
    BY <1>1, <1>3, <1>5 DEF ListInv, Gone
  <2> QED
    BY <1>1, <1>3, <1>6, <2>1 DEF ListInv
<1>9. Saved' = Saved
  BY <1>6, <1>7 DEF Saved, Users
<1>10. ASSUME ~astray'
       PROVE  NamesOK'
  <2>1. NamesOK
    BY <1>3, <1>10 DEF NamesInv
  <2>2. NamesOfUsers' /\ NamesOfRooms' /\ NoneHidden'
    BY <1>3, <1>6, <1>7, <2>1 DEF NamesOK, NamesOfUsers, NamesOfRooms, NoneHidden
  <2>3. NamesOnDisk'
    <3>1. CASE changed
      <4>1. disk'.accounts = Saved
        BY <1>3, <3>1
      <4>2. \A r \in Saved : \E u \in Accounts : r = [id |-> id[u], level |-> level[u]]
        BY DEF Saved
      <4>3. \A u, v \in Accounts : id[u] = id[v] => u = v
        BY <2>1 DEF NamesOK, NamesOfUsers, Users
      <4>4. \A u \in Accounts : id[u] # Hall
        BY <1>1, <2>1 DEF NamesOK, NamesOfRooms, HallStays, Accounts
      <4> QED
        BY <4>1, <4>2, <4>3, <4>4 DEF NamesOnDisk
    <3>2. CASE ~changed
      BY <1>3, <2>1, <3>2 DEF NamesOK, NamesOnDisk
    <3> QED
      BY <3>1, <3>2 DEF HereOK
  <2> QED
    BY <2>2, <2>3 DEF NamesOK
<1>11. DiskOK'
  <2>1. disk' = [accounts |-> Saved, max |-> userNbMax]
    BY <1>3 DEF NamesInv, DiskOK
  <2> QED
    BY <1>3, <1>9, <2>1 DEF DiskOK
<1> QED
  BY <1>4, <1>8, <1>10, <1>11 DEF NamesInv

(* The end of Server() and a new beginning from the database: each record  *)
(* makes one object.                                                       *)
LEMMA RestartStep ==
    ASSUME NamesInv, NEW place \in [disk.accounts -> Object], Restart(place)
    PROVE  NamesInv'
<1> DEFINE lost == {u \in Object : state[u] # "NOT_LOGGED"}
           old(u) == CHOOSE r \in disk.accounts : place[r] = u
           new == {place[r] : r \in disk.accounts}
<1>1. TypeOK /\ HereOK
  BY InvHereOK
<1>2. /\ new \cap lost = {}
      /\ \A r, s \in disk.accounts : place[r] = place[s] => r = s
      /\ phase' = "reading"
      /\ leaving' = FALSE
      /\ where' = [u \in Object |-> IF u \in lost THEN "lost"
                                    ELSE IF u \in new THEN "list" ELSE "none"]
      /\ registered' = new
      /\ id' = [u \in Object |-> IF u \in new THEN old(u).id ELSE id[u]]
      /\ level' = [u \in Object |-> IF u \in new THEN old(u).level ELSE level[u]]
      /\ rooms' = StartRooms
      /\ userNb' = 0
      /\ userNbMax' = disk.max
      /\ changed' = FALSE
      /\ astray' = (astray \/ \E u \in lost : state[u] = "LOGGED")
      /\ UNCHANGED <<invite, state, channel, disk, moved>>
  BY Zenon DEF Restart
<1>3. disk \in [accounts : SUBSET [id : Id, level : Level], max : Nat]
  BY <1>1 DEF TypeOK
<1>4. new \subseteq Object
  OBVIOUS
<1>5. \A u \in new : old(u) \in disk.accounts /\ place[old(u)] = u
  OBVIOUS
<1>6. \A r \in disk.accounts : place[r] \in new /\ old(place[r]) = r
  BY <1>2, <1>5
<1> HIDE DEF old, new
<1>7. \A u \in new : /\ id'[u] = old(u).id /\ level'[u] = old(u).level
                     /\ old(u).id \in Id /\ old(u).level \in Level
  BY <1>2, <1>3, <1>4, <1>5
<1>8. InList' = new /\ Connected' = {} /\ Accounts' = new /\ Users' = new /\ Gone' = {}
  BY <1>2, <1>4 DEF InList, Connected, Accounts, Users, Gone
<1>9. TypeOK' /\ HallStays'
  <2>1. id' \in [Object -> Id \cup {Nobody}] /\ level' \in [Object -> Level]
    BY <1>1, <1>2, <1>7 DEF TypeOK
  <2>2. where' \in [Object -> {"none", "pending", "list", "lost"}]
    BY <1>2
  <2>3. RoomsOK(rooms')
    BY <1>2, StartOK
  <2>4. userNb' \in Int /\ userNbMax' \in Nat /\ registered' \subseteq Object
    BY <1>2, <1>3, <1>4
  <2>5. astray' \in BOOLEAN
    BY <1>1, <1>2 DEF TypeOK
  <2> QED
    BY <1>1, <1>2, <2>1, <2>2, <2>3, <2>4, <2>5 DEF TypeOK, HallStays, RoomsOK
<1>10. ListInv'
  BY <1>2, <1>4, <1>7, <1>8 DEF ListInv
<1>11. ASSUME ~astray'
       PROVE  NamesOK'
  <2>1. NamesOnDisk
    BY <1>2, <1>11 DEF NamesInv, NamesOK
  <2>2. NamesOfUsers'
    BY <1>5, <1>7, <1>8, <2>1 DEF NamesOfUsers, NamesOnDisk
  <2>3. NamesOfRooms'
    BY <1>2, <1>5, <1>7, <1>8, <2>1, StartOK DEF NamesOfRooms, NamesOnDisk
  <2>4. NoneHidden' /\ NamesOnDisk'
    BY <1>2, <2>1 DEF NoneHidden, NamesOnDisk
  <2> QED
    BY <2>2, <2>3, <2>4 DEF NamesOK
<1>12. DiskOK'
  <2>1. Saved' = {[id |-> id'[u], level |-> level'[u]] : u \in new}
    BY <1>8 DEF Saved
  <2>2. \A u \in new : [id |-> id'[u], level |-> level'[u]] = old(u)
    BY <1>3, <1>5, <1>7
  <2>3. Saved' = disk.accounts
    BY <1>5, <1>6, <2>1, <2>2
  <2>4. disk = [accounts |-> disk.accounts, max |-> disk.max]
    BY <1>3
  <2> QED
    BY <1>2, <2>3, <2>4 DEF DiskOK
<1> QED
  BY <1>9, <1>10, <1>11, <1>12 DEF NamesInv

-----------------------------------------------------------------------------
LEMMA InitOK == Init => NamesInv
<1> SUFFICES ASSUME Init
             PROVE  NamesInv
  OBVIOUS
<1>1. PICK u \in Object :
         /\ where = [o \in Object |-> IF o = u THEN "list" ELSE "none"]
         /\ id = [o \in Object |-> IF o = u THEN Root ELSE Nobody]
         /\ level = [o \in Object |-> IF o = u THEN MaxLevel ELSE 0]
         /\ registered = {u}
  BY DEF Init
<1>2. 0 \in Level /\ MaxLevel \in Level /\ Root \in Id /\ Root # Hall
  BY ChatAssumption DEF Level
<1>3. RoomsOK(rooms) /\ DOMAIN rooms = {Hall}
  BY StartOK DEF Init
<1>4. disk \in [accounts : SUBSET [id : Id, level : Level], max : Nat]
  BY <1>2 DEF Init
<1>5. TypeOK
  <2>1. /\ where \in [Object -> {"none", "pending", "list", "lost"}]
        /\ id \in [Object -> Id \cup {Nobody}]
        /\ registered \subseteq Object
    BY <1>1, <1>2
  <2>2. level \in [Object -> Level]
    BY <1>1, <1>2
  <2>3. DOMAIN rooms \subseteq Id /\ rooms \in [DOMAIN rooms -> Room]
    BY <1>3 DEF RoomsOK
  <2>4. /\ phase = "reading" /\ userNb = 0 /\ userNbMax = 0
        /\ state = [o \in Object |-> "NOT_LOGGED"]
        /\ channel = [o \in Object |-> Outside]
        /\ invite = [o \in Object |-> Outside]
        /\ changed = FALSE /\ moved = FALSE /\ leaving = FALSE /\ astray = FALSE
    BY DEF Init
  <2>5. /\ state \in [Object -> {"NOT_LOGGED", "LOGIN", "PASSWORD", "LOGGED"}]
        /\ channel \in [Object -> Id \cup {Outside}]
        /\ invite \in [Object -> Id \cup {Outside}]
    BY <2>4
  <2>6. /\ phase \in {"reading", "pending", "users"}
        /\ userNb \in Int /\ userNbMax \in Nat
    BY <2>4
  <2>7. changed \in BOOLEAN /\ moved \in BOOLEAN /\ leaving \in BOOLEAN /\ astray \in BOOLEAN
    BY <2>4
  <2> QED
    BY <1>4, <2>1, <2>2, <2>3, <2>5, <2>6, <2>7 DEF TypeOK
<1>6. InList = {u} /\ Connected = {} /\ Accounts = {u} /\ Users = {u} /\ Gone = {}
  BY <1>1 DEF Init, InList, Connected, Accounts, Users, Gone
<1>7. ListInv /\ HallStays
  BY <1>1, <1>2, <1>3, <1>6 DEF Init, ListInv, HallStays, RoomsOK
<1>8. NamesOK
  BY <1>1, <1>2, <1>3, <1>6
     DEF Init, NamesOK, NamesOfUsers, NamesOfRooms, NoneHidden, NamesOnDisk
<1>9. DiskOK
  <2>1. Saved = {[id |-> Root, level |-> MaxLevel]}
    BY <1>1, <1>6 DEF Saved
  <2> QED
    BY <2>1 DEF Init, DiskOK
<1> QED
  BY <1>5, <1>7, <1>8, <1>9 DEF NamesInv

LEMMA StepOK == NamesInv /\ [Next]_vars => NamesInv'
<1> SUFFICES ASSUME NamesInv, [Next]_vars
             PROVE  NamesInv'
  OBVIOUS
<1>1. CASE \E u \in Object : \/ AddConn(u) \/ HangUp(u) \/ Overflow(u)
                             \/ NoAccount(u) \/ Quit(u) \/ Register(u)
  BY <1>1, AddConnStep, HangUpStep, LogoutStep, RegisterStep DEF Overflow, NoAccount, Quit
<1>2. CASE \E u \in Object, i \in Id : LoginName(u, i)
  BY <1>2, LoginNameStep
<1>3. CASE \E u \in Object, i \in Id, cut \in BOOLEAN :
             LoginNew(u, i, cut) \/ Join(u, i, cut) \/ Create(u, i, cut)
  BY <1>3, LoginNewStep, MovesStep, CreateStep DEF Join
<1>4. CASE \E u \in Object, b \in BOOLEAN : WrongPassword(u, b) \/ Leave(u, b)
  <2>1. Hall \in Id
    BY ChatAssumption
  <2> QED
    BY <1>4, <2>1, WrongPasswordStep, MovesStep DEF Leave
<1>5. CASE \E u, v \in Object : Invite(u, v) \/ Kick(u, v) \/ Kill(u, v)
  BY <1>5, InviteStep, LogoutStep, KillStep DEF Kick
<1>6. CASE \E u, v \in Object, cut \in BOOLEAN : RightPassword(u, v, cut) \/ Bump(u, v, cut)
  <2>1. Hall \in Id
    BY ChatAssumption
  <2> QED
    BY <1>6, <2>1, RightPasswordStep, MovesStep DEF Bump
<1>7. CASE \E u, v \in Object, l \in Level : SetGroup(u, v, l)
  BY <1>7, SetGroupStep
<1>8. CASE \E u, v \in Object, i \in Id : SetUserId(u, v, i)
  BY <1>8, SetUserIdStep
<1>9. CASE \E u \in Object, x, i \in Id : SetChannelId(u, x, i)
  BY <1>9, SetChannelIdStep
<1>10. CASE \E u \in Object, x \in Id, l \in Level : SetChannelGroup(u, x, l)
  BY <1>10, SetChannelGroupStep
<1>11. CASE \E u \in Object, x \in Id, f \in Flag : SetFlag(u, x, f)
  BY <1>11, SetFlagStep
<1>12. CASE \E u \in Object, x \in Id : SetResident(u, x)
  BY <1>12, SetResidentStep
<1>13. CASE Reap \/ PendingDone \/ UsersDone \/ Signal
  BY <1>13, ReapStep, LoopStep, SignalStep
<1>16. CASE \E u \in Object, x \in Id, K \in SUBSET Object : JoinFreed(u, x, K)
  BY <1>16, JoinFreedStep
<1>14. CASE \E place \in [disk.accounts -> Object] : Restart(place)
  BY <1>14, RestartStep
<1>15. CASE UNCHANGED vars
  <2>1. UNCHANGED <<where, id, registered, level, state, channel, invite, rooms, userNb, changed,
                    phase, moved, leaving, userNbMax, disk, astray>>
    BY <1>15 DEF vars, userVars, hereVars, loopVars, diskVars
  <2>2. HereOK' /\ Fewer
    BY <2>1, InvHereOK DEF HereOK, Fewer
  <2> QED
    BY <2>1, <2>2, InvHereOK, QuietOK DEF userVars, diskVars
<1> QED
  BY <1>1, <1>2, <1>3, <1>4, <1>5, <1>6, <1>7, <1>8, <1>9, <1>10, <1>11, <1>12, <1>13, <1>14,
     <1>15, <1>16 DEF Next

(* The invariant holds in every state.                                     *)
THEOREM InvCorrect == Spec => []NamesInv
  BY InitOK, StepOK, PTL DEF Spec

(* No two of those who are connected or have an account have one name, and *)
(* none has the name of a channel, however logins, renamings and restarts  *)
(* follow one another (until one of the events of astray).                 *)
THEOREM NamesCorrect == Spec => []DistinctNames
<1>1. NamesInv => DistinctNames
  BY DEF NamesInv, NamesOK, NamesOfUsers, NamesOfRooms, DistinctNames, Users, Connected, Accounts
<1> QED
  BY <1>1, InvCorrect, PTL

(* In every state in which no change is flagged the database holds exactly *)
(* the accounts there are, each with its group, and the record number of   *)
(* users: no operation changes one of these without the flag, and none     *)
(* takes the flag back but the writing.  It never holds an account twice   *)
(* (until one of the events of astray).  What is flagged and not written   *)
(* at a restart is lost, and of channels the database holds none.          *)
THEOREM DiskCorrect == Spec => []DiskAgrees
<1>1. NamesInv => DiskAgrees
  BY DEF NamesInv, NamesOK, NamesOnDisk, DiskOK, DiskAgrees
<1> QED
  BY <1>1, InvCorrect, PTL

(* In every round of the loop, whichever of the two holds of the flag, the *)
(* database holds after the removal of the objects exactly the accounts    *)
(* that are left, their groups and the record: so a restart loses at most  *)
(* what happened since the last removal.                                   *)
THEOREM SavesCorrect == Spec => EachRoundSaves
<1>1. ASSUME NamesInv', [Next]_vars
      PROVE  [Reap => disk' = [accounts |-> Saved', max |-> userNbMax']]_vars
  <2>1. ASSUME Reap
        PROVE  disk' = [accounts |-> Saved', max |-> userNbMax']
    <3>1. ~changed'
      BY <2>1 DEF Reap
    <3> QED
      BY <1>1, <3>1 DEF NamesInv, DiskOK
  <2> QED
    BY <2>1
<1> QED
  BY <1>1, InvCorrect, PTL DEF Spec, EachRoundSaves

-----------------------------------------------------------------------------
(* The numbers.  Seats: the channels rs count the people S, each in the    *)
(* channel that c gives, and those not in X are kept for a reason.         *)
Among(S, c, x) == {u \in S : c[u] = x}

Seats(rs, S, c, X) ==
    /\ \A u \in S : c[u] \in DOMAIN rs
    /\ \A x \in DOMAIN rs : rs[x].count = Cardinality(Among(S, c, x))
    /\ \A x \in DOMAIN rs \ X : rs[x].count > 0 \/ rs[x].resident

(* Nobody is logged in who is not in the list.                             *)
OnlyUsers == \A u \in Object : state[u] = "LOGGED" => where[u] = "list"

(* The strengthening: who is logged in can be counted.                     *)
Counted ==
    /\ OnlyUsers
    /\ userNb = Cardinality(Connected)
    /\ Seats(rooms, Connected, channel, {})

CountInv == ~astray => Counted

LEMMA PeopleFinite ==
    ASSUME NEW S \in SUBSET Object
    PROVE  /\ IsFiniteSet(S) /\ Cardinality(S) \in Nat
           /\ \A c, x : IsFiniteSet(Among(S, c, x)) /\ Cardinality(Among(S, c, x)) \in Nat
<1>1. IsFiniteSet(S)
  BY ChatAssumption, FS_Subset
<1>2. \A c, x : Among(S, c, x) \in SUBSET S
  BY DEF Among
<1>3. \A c, x : IsFiniteSet(Among(S, c, x))
  BY <1>1, <1>2, FS_Subset
<1> QED
  BY <1>1, <1>3, FS_CardinalityType

(* The count of a channel when one of those in it leaves, or one enters.   *)
LEMMA OneLess ==
    ASSUME NEW S \in SUBSET Object, NEW c, NEW u \in S, NEW x
    PROVE  Cardinality(Among(S \ {u}, c, x))
             = Cardinality(Among(S, c, x)) - (IF c[u] = x THEN 1 ELSE 0)
<1>1. IsFiniteSet(Among(S, c, x)) /\ Cardinality(Among(S, c, x)) \in Nat
  BY PeopleFinite
<1>2. CASE c[u] = x
  <2>1. Among(S \ {u}, c, x) = Among(S, c, x) \ {u} /\ u \in Among(S, c, x)
    BY <1>2 DEF Among
  <2>2. Cardinality(Among(S, c, x) \ {u}) = Cardinality(Among(S, c, x)) - 1
    BY <1>1, <2>1, FS_RemoveElement
  <2> QED
    BY <1>2, <2>1, <2>2
<1>3. CASE c[u] # x
  <2>1. Among(S \ {u}, c, x) = Among(S, c, x)
    BY <1>3 DEF Among
  <2> QED
    BY <1>1, <1>3, <2>1
<1> QED
  BY <1>2, <1>3

LEMMA OneMore ==
    ASSUME NEW S \in SUBSET Object, NEW c, NEW d, NEW u \in Object \ S, NEW x,
           \A v \in S : d[v] = c[v]
    PROVE  Cardinality(Among(S \cup {u}, d, x))
             = Cardinality(Among(S, c, x)) + (IF d[u] = x THEN 1 ELSE 0)
<1>1. IsFiniteSet(Among(S, c, x)) /\ Cardinality(Among(S, c, x)) \in Nat
  BY PeopleFinite
<1>2. CASE d[u] = x
  <2>1. Among(S \cup {u}, d, x) = Among(S, c, x) \cup {u} /\ u \notin Among(S, c, x)
    BY <1>2 DEF Among
  <2> QED
    BY <1>1, <1>2, <2>1, FS_AddElement
<1>3. CASE d[u] # x
  <2>1. Among(S \cup {u}, d, x) = Among(S, c, x)
    BY <1>3 DEF Among
  <2> QED
    BY <1>1, <1>3, <2>1
<1> QED
  BY <1>2, <1>3

(* Left() of the channel of u takes u out of the count, and the channel    *)
(* with him if he was the last of one that is not resident.                *)
LEMMA LeaveSeat ==
    ASSUME NEW rs, RoomsOK(rs), NEW S \in SUBSET Object, NEW c, NEW X, NEW u \in S,
           Seats(rs, S, c, X)
    PROVE  Seats(Left(rs, c[u]), S \ {u}, c, X)
<1> DEFINE z == c[u]
           ls == Left(rs, z)
<1>1. z \in DOMAIN rs /\ rs[z] \in Room
  BY DEF Seats, RoomsOK
<1>2. rs[z].count = Cardinality(Among(S, c, z)) /\ rs[z].count \in Nat
  BY <1>1 DEF Seats, Room
<1>3. u \in Among(S, c, z) /\ IsFiniteSet(Among(S, c, z))
  BY PeopleFinite DEF Among
<1>4. rs[z].count > 0
  <2>1. Cardinality(Among(S, c, z)) # 0
    BY <1>3, FS_EmptySet
  <2> QED
    BY <1>2, <2>1
<1>5. \A x \in DOMAIN rs : rs[x] \in Room
  BY DEF RoomsOK
<1>6. CASE Emptied(rs, z)
  <2>1. rs[z].count = 1 /\ ls = [y \in DOMAIN rs \ {z} |-> rs[y]]
    BY <1>1, <1>2, <1>4, <1>6 DEF Emptied, Left
  <2>2. Among(S, c, z) = {u}
    <3>1. Cardinality(Among(S, c, z)) = 1
      BY <1>2, <2>1
    <3>2. \E v : Among(S, c, z) = {v}
      BY <1>3, <3>1, FS_Singleton
    <3> QED
      BY <1>3, <3>2
  <2>3. \A v \in S \ {u} : c[v] \in DOMAIN ls
    BY <2>1, <2>2 DEF Seats, Among
  <2>4. \A x \in DOMAIN ls : ls[x].count = Cardinality(Among(S \ {u}, c, x))
    <3> SUFFICES ASSUME NEW x \in DOMAIN ls
                 PROVE  ls[x].count = Cardinality(Among(S \ {u}, c, x))
      OBVIOUS
    <3>1. x \in DOMAIN rs /\ x # z /\ ls[x] = rs[x]
      BY <2>1
    <3>2. rs[x].count = Cardinality(Among(S, c, x)) /\ rs[x].count \in Nat
      BY <1>5, <3>1 DEF Seats, Room
    <3>3. Cardinality(Among(S \ {u}, c, x)) = Cardinality(Among(S, c, x)) - 0
      BY <3>1, OneLess
    <3> QED
      BY <3>1, <3>2, <3>3
  <2>5. \A x \in DOMAIN ls \ X : ls[x].count > 0 \/ ls[x].resident
    BY <2>1 DEF Seats
  <2> QED
    BY <2>3, <2>4, <2>5 DEF Seats
<1>7. CASE ~Emptied(rs, z)
  <2>1. ls = [rs EXCEPT ![z] = [rs[z] EXCEPT !.count = IF @ > 0 THEN @ - 1 ELSE 0]]
    BY <1>1, <1>7 DEF Left
  <2>2. DOMAIN ls = DOMAIN rs
    BY <2>1
  <2>3. ls[z].count = rs[z].count - 1 /\ ls[z].resident = rs[z].resident
    BY <1>1, <1>4, <2>1 DEF Room
  <2>4. ls[z].count > 0 \/ ls[z].resident
    BY <1>1, <1>2, <1>4, <1>7, <2>3 DEF Emptied, Room
  <2>5. \A x \in DOMAIN rs : ls[x].count = Cardinality(Among(S \ {u}, c, x))
    <3> SUFFICES ASSUME NEW x \in DOMAIN rs
                 PROVE  ls[x].count = Cardinality(Among(S \ {u}, c, x))
      OBVIOUS
    <3>1. rs[x].count = Cardinality(Among(S, c, x)) /\ rs[x].count \in Nat
      BY <1>5 DEF Seats, Room
    <3>2. CASE x = z
      <4>1. Cardinality(Among(S \ {u}, c, z)) = Cardinality(Among(S, c, z)) - 1
        BY OneLess
      <4> QED
        BY <2>3, <3>1, <3>2, <4>1
    <3>3. CASE x # z
      <4>1. ls[x] = rs[x]
        BY <2>1, <3>3
      <4>2. Cardinality(Among(S \ {u}, c, x)) = Cardinality(Among(S, c, x)) - 0
        BY <3>3, OneLess
      <4> QED
        BY <3>1, <4>1, <4>2
    <3> QED
      BY <3>2, <3>3
  <2>6. \A x \in DOMAIN rs \ X : ls[x].count > 0 \/ ls[x].resident
    BY <2>1, <2>4 DEF Seats
  <2>7. \A v \in S \ {u} : c[v] \in DOMAIN ls
    BY <2>2 DEF Seats
  <2> QED
    BY <2>2, <2>5, <2>6, <2>7 DEF Seats
<1> QED
  BY <1>6, <1>7

(* Entered() counts who comes to x.                                        *)
LEMMA EnterSeat ==
    ASSUME NEW rs, RoomsOK(rs), NEW S \in SUBSET Object, NEW c, NEW d, NEW x \in DOMAIN rs,
           NEW u \in Object \ S, Seats(rs, S, c, {x}),
           \A v \in S : d[v] = c[v], d[u] = x
    PROVE  Seats(Entered(rs, x), S \cup {u}, d, {})
<1> DEFINE es == Entered(rs, x)
<1>1. es = [rs EXCEPT ![x] = [rs[x] EXCEPT !.count = @ + 1]]
  BY DEF Entered
<1>2. \A y \in DOMAIN rs : rs[y] \in Room
  BY DEF RoomsOK
<1>3. DOMAIN es = DOMAIN rs /\ es[x].count = rs[x].count + 1
  BY <1>1, <1>2 DEF Room
<1>4. \A y \in DOMAIN rs \ {x} : es[y] = rs[y]
  BY <1>1
<1> HIDE DEF es
<1>5. \A y \in DOMAIN rs : es[y].count = Cardinality(Among(S \cup {u}, d, y))
  <2> SUFFICES ASSUME NEW y \in DOMAIN rs
               PROVE  es[y].count = Cardinality(Among(S \cup {u}, d, y))
    OBVIOUS
  <2>1. rs[y].count = Cardinality(Among(S, c, y)) /\ rs[y].count \in Nat
    BY <1>2 DEF Seats, Room
  <2>2. Cardinality(Among(S \cup {u}, d, y))
          = Cardinality(Among(S, c, y)) + (IF d[u] = y THEN 1 ELSE 0)
    BY OneMore
  <2> QED
    BY <1>3, <1>4, <2>1, <2>2
<1>6. \A y \in DOMAIN rs : es[y].count > 0 \/ es[y].resident
  <2>1. rs[x].count \in Nat
    BY <1>2 DEF Room
  <2> QED
    BY <1>3, <1>4, <2>1 DEF Seats
<1>7. \A v \in S \cup {u} : d[v] \in DOMAIN rs
  BY DEF Seats
<1>8. Seats(es, S \cup {u}, d, {})
  BY <1>3, <1>5, <1>6, <1>7 DEF Seats
<1> QED
  BY <1>8 DEF es

(* The same people in the same channels.                                   *)
LEMMA SameSeats ==
    ASSUME NEW rs, NEW S, NEW c, NEW d, NEW X, NEW Y, Seats(rs, S, c, X), X \subseteq Y,
           \A v \in S : d[v] = c[v]
    PROVE  Seats(rs, S, d, Y)
<1>1. \A x : Among(S, c, x) = Among(S, d, x)
  BY DEF Among
<1> QED
  BY <1>1 DEF Seats

-----------------------------------------------------------------------------
(* The operations the actions share.                                       *)
ConnectedIs == Connected = {v \in Object : where[v] = "list" /\ state[v] = "LOGGED"}

LEMMA ConnectedPeople == ConnectedIs /\ Connected \in SUBSET Object
  BY DEF ConnectedIs, Connected, InList

(* A step after which the same people are in the same channels.            *)
LEMMA NobodyMoves ==
    ASSUME Counted,
           \A v \in Object : state'[v] = "LOGGED" <=> state[v] = "LOGGED",
           \A v \in Connected : channel'[v] = channel[v] /\ where'[v] = "list",
           Seats(rooms', Connected, channel, {}),
           userNb' = userNb
    PROVE  Counted'
<1>1. OnlyUsers'
  BY DEF Counted, OnlyUsers, Connected, InList
<1>2. Connected' = Connected
  BY <1>1, ConnectedPeople DEF Counted, OnlyUsers, Connected, InList
<1>3. Seats(rooms', Connected', channel', {})
  BY <1>2, SameSeats
<1> QED
  BY <1>1, <1>2, <1>3 DEF Counted

(* A logout.                                                               *)
LEMMA EndedCounts ==
    ASSUME NamesInv, CountInv, NEW u \in Object, Ended(u), UNCHANGED astray,
           \A v \in Object : where'[v] = "list" <=> where[v] = "list"
    PROVE  CountInv'
<1> SUFFICES ASSUME ~astray'
             PROVE  Counted'
  BY DEF CountInv
<1>1. Counted /\ TypeOK /\ RoomsOK(rooms)
  BY InvHereOK DEF CountInv, HereOK
<1>2. Connected' = Connected \ {u}
  BY <1>1 DEF Ended, Connected, InList, TypeOK
<1>3. \A v \in Connected \ {u} : channel'[v] = channel[v]
  BY <1>1, ConnectedPeople DEF Ended, TypeOK
<1>4. OnlyUsers'
  BY <1>1 DEF Counted, OnlyUsers, Ended, TypeOK
<1>5. CASE state[u] = "LOGGED"
  <2>1. u \in Connected
    BY <1>1, <1>5 DEF Counted, OnlyUsers, Connected, InList
  <2>2. rooms' = Left(rooms, channel[u]) /\ userNb' = userNb - 1
    BY <1>5 DEF Ended, Uncounted, RoomsWithout, UserNbWithout
  <2>3. Seats(rooms', Connected \ {u}, channel, {})
    BY <1>1, <2>1, <2>2, ConnectedPeople, LeaveSeat DEF Counted
  <2>4. Seats(rooms', Connected', channel', {})
    BY <1>2, <1>3, <2>3, SameSeats
  <2>5. userNb' = Cardinality(Connected')
    <3>1. IsFiniteSet(Connected) /\ Cardinality(Connected) \in Nat
      BY ConnectedPeople, PeopleFinite
    <3>2. Cardinality(Connected \ {u}) = Cardinality(Connected) - 1
      BY <2>1, <3>1, FS_RemoveElement
    <3> QED
      BY <1>1, <1>2, <2>2, <3>2 DEF Counted
  <2> QED
    BY <1>4, <2>4, <2>5 DEF Counted
<1>6. CASE state[u] # "LOGGED"
  <2>1. rooms' = rooms /\ userNb' = userNb
    BY <1>6 DEF Ended, Uncounted, RoomsWithout, UserNbWithout
  <2>2. Connected \ {u} = Connected
    BY <1>6 DEF Connected
  <2>3. Seats(rooms', Connected', channel', {})
    BY <1>1, <1>2, <1>3, <2>1, <2>2, SameSeats DEF Counted
  <2> QED
    BY <1>1, <1>2, <1>4, <2>1, <2>2, <2>3 DEF Counted
<1> QED
  BY <1>5, <1>6

LEMMA LogoutCounts ==
    ASSUME NamesInv, CountInv, NEW u \in Object, LoggedOut(u), UNCHANGED astray,
           \A v \in Object : where'[v] = "list" <=> where[v] = "list"
    PROVE  CountInv'
  BY EndedCounts DEF LoggedOut

(* A login that is not cut, of one who is then counted nowhere.            *)
LEMMA LoginCounts ==
    ASSUME TypeOK, OnlyUsers, NEW u \in Object, NEW rs, RoomsOK(rs), NEW nb \in Int,
           LoggedIn(u, rs, nb, FALSE),
           where'[u] = "list",
           \A v \in Object \ {u} : where'[v] = "list" <=> where[v] = "list",
           \A v \in Object \ {u} : state[v] = "LOGGED" => where'[v] # "none",
           Seats(rs, Connected \ {u}, channel, {}), nb = Cardinality(Connected \ {u})
    PROVE  Counted'
<1> DEFINE S == Connected \ {u}
<1>1. /\ state' = [o \in Object |-> IF o = u THEN "LOGGED"
                                    ELSE IF where'[o] = "none" THEN "NOT_LOGGED" ELSE state[o]]
      /\ channel' = [channel EXCEPT ![u] = Hall]
      /\ rooms' = Entered(rs, Hall)
      /\ userNb' = nb + 1
  BY DEF LoggedIn
<1>2. \A v \in Object \ {u} : state'[v] = "LOGGED" <=> state[v] = "LOGGED"
  BY <1>1
<1>3. Connected' = S \cup {u} /\ S \in SUBSET Object /\ u \in Object \ S
  BY <1>1, <1>2 DEF Connected, InList
<1>4. channel'[u] = Hall /\ \A v \in S : channel'[v] = channel[v]
  BY <1>1, <1>3 DEF TypeOK
<1>5. Hall \in DOMAIN rs /\ Seats(rs, S, channel, {Hall})
  BY SameSeats DEF RoomsOK
<1>6. Seats(rooms', Connected', channel', {})
  BY <1>1, <1>3, <1>4, <1>5, EnterSeat
<1>7. userNb' = Cardinality(Connected')
  <2>1. IsFiniteSet(S) /\ Cardinality(S) \in Nat
    BY <1>3, PeopleFinite
  <2>2. Cardinality(S \cup {u}) = Cardinality(S) + 1
    BY <1>3, <2>1, FS_AddElement
  <2> QED
    BY <1>1, <1>3, <2>1, <2>2
<1>8. OnlyUsers'
  BY <1>2 DEF OnlyUsers
<1> QED
  BY <1>6, <1>7, <1>8 DEF Counted

(* A change of channel that is not cut.                                    *)
LEMMA MoveCounts ==
    ASSUME NamesInv, CountInv, NEW rs, RoomsOK(rs), NEW u \in Connected, NEW x \in Id,
           NEW cut \in BOOLEAN, MovesAmong(rs, u, x, cut),
           ~astray => /\ x \in DOMAIN rs /\ x # channel[u]
                      /\ Seats(rs, Connected, channel, {x})
    PROVE  CountInv'
<1> SUFFICES ASSUME ~astray'
             PROVE  Counted'
  BY DEF CountInv
<1>1. ~astray /\ ~cut
  BY DEF MovesAmong
<1>2. Counted /\ TypeOK /\ x \in DOMAIN rs /\ x # channel[u]
      /\ Seats(rs, Connected, channel, {x})
  BY <1>1, InvHereOK DEF CountInv
<1>3. /\ rooms' = Entered(Left(rs, channel[u]), x)
      /\ channel' = [channel EXCEPT ![u] = x]
      /\ state' = state /\ userNb' = userNb /\ where' = where
  BY <1>1, <1>2 DEF MovesAmong, TypeOK
<1>4. Connected' = Connected /\ Connected \in SUBSET Object
  BY <1>3, ConnectedPeople DEF Connected, InList
<1>5. Seats(Left(rs, channel[u]), Connected \ {u}, channel, {x})
  BY <1>2, <1>4, LeaveSeat
<1>6. RoomsOK(Left(rs, channel[u])) /\ x \in DOMAIN Left(rs, channel[u])
  BY <1>2, LeftOK DEF Left
<1>7. channel'[u] = x /\ \A v \in Connected \ {u} : channel'[v] = channel[v]
  BY <1>2, <1>3, <1>4 DEF TypeOK
<1>8. Seats(rooms', (Connected \ {u}) \cup {u}, channel', {})
  BY <1>3, <1>4, <1>5, <1>6, <1>7, EnterSeat
<1>9. (Connected \ {u}) \cup {u} = Connected
  OBVIOUS
<1>10. OnlyUsers'
  BY <1>2, <1>3 DEF Counted, OnlyUsers
<1> QED
  BY <1>2, <1>3, <1>4, <1>8, <1>9, <1>10 DEF Counted

-----------------------------------------------------------------------------
(* The steps that leave the channels and everybody in them alone.          *)
LEMMA QuietCounts ==
    ASSUME NamesInv, Counted, NEW u \in Object, UNCHANGED <<rooms, userNb>>,
           \A v \in Object \ {u} : /\ state'[v] = state[v] /\ where'[v] = where[v]
                                   /\ channel'[v] = channel[v],
           \/ state[u] # "LOGGED" /\ state'[u] # "LOGGED"
           \/ state'[u] = state[u] /\ where'[u] = where[u] /\ channel'[u] = channel[u]
    PROVE  Counted'
<1>1. \A v \in Object : state'[v] = "LOGGED" <=> state[v] = "LOGGED"
  OBVIOUS
<1>2. \A v \in Connected : channel'[v] = channel[v] /\ where'[v] = "list"
  BY DEF Connected, InList
<1> QED
  BY <1>1, <1>2, NobodyMoves DEF Counted

LEMMA PendingCounts ==
    ASSUME NamesInv, Counted, NEW u \in Object,
           \/ AddConn(u)
           \/ \E i \in Id : LoginName(u, i)
           \/ \E b \in BOOLEAN : WrongPassword(u, b)
    PROVE  Counted'
<1>1. TypeOK
  BY DEF NamesInv
<1>2. UNCHANGED <<rooms, userNb>>
  BY DEF AddConn, LoginName, WrongPassword
<1>3. \A v \in Object \ {u} : /\ state'[v] = state[v] /\ where'[v] = where[v]
                               /\ channel'[v] = channel[v]
  BY <1>1 DEF AddConn, LoginName, WrongPassword, TypeOK
<1>4. state[u] # "LOGGED"
  BY DEF AddConn, LoginName, WrongPassword, Typing, Counted, OnlyUsers
<1>5. state'[u] # "LOGGED"
  BY <1>1 DEF AddConn, LoginName, WrongPassword, TypeOK
<1> QED
  BY <1>2, <1>3, <1>4, <1>5, QuietCounts

LEMMA NamesCount ==
    ASSUME NamesInv, Counted, UNCHANGED <<where, state, channel, rooms, userNb>>
    PROVE  Counted'
<1>1. \A v \in Connected : channel'[v] = channel[v] /\ where'[v] = "list"
  BY DEF Connected, InList
<1> QED
  BY <1>1, NobodyMoves DEF Counted

LEMMA ReapCounts ==
    ASSUME NamesInv, Counted, Reap
    PROVE  Counted'
<1>1. \A v \in Connected : v \notin Removed
  BY DEF Connected, Removed
<1>2. \A v \in Connected : channel'[v] = channel[v] /\ where'[v] = "list"
  BY <1>1, ConnectedPeople DEF Reap, Connected, InList
<1>3. UNCHANGED <<rooms, userNb, state>>
  BY DEF Reap
<1> QED
  BY <1>2, <1>3, NobodyMoves DEF Counted

(* The steps that change the channels and nobody in them.                  *)
LEMMA RoomsCount ==
    ASSUME Counted, UNCHANGED <<where, state, channel, userNb>>,
           Seats(rooms', Connected, channel, {})
    PROVE  Counted'
<1>1. \A v \in Connected : channel'[v] = channel[v] /\ where'[v] = "list"
  BY DEF Connected, InList
<1> QED
  BY <1>1, NobodyMoves

LEMMA SetChannelIdCounts ==
    ASSUME NamesInv, Counted, NEW u \in Object, NEW x \in Id, NEW i \in Id,
           SetChannelId(u, x, i), ~astray'
    PROVE  Counted'
<1>1. RoomsOK(rooms) /\ x \in DOMAIN rooms /\ i \notin DOMAIN rooms /\ ~(rooms[x].count > 0)
  BY InvHereOK DEF HereOK, SetChannelId, Rules, Taken
<1>2. rooms' = [y \in (DOMAIN rooms \ {x}) \cup {i} |-> rooms[IF y = i THEN x ELSE y]]
  BY DEF SetChannelId
<1>3. rooms[x].count = 0 /\ rooms[x].count = Cardinality(Among(Connected, channel, x))
  BY <1>1 DEF RoomsOK, Room, Counted, Seats
<1>4. IsFiniteSet(Among(Connected, channel, x))
  BY ConnectedPeople, PeopleFinite
<1>5. Among(Connected, channel, x) = {}
  BY <1>3, <1>4, FS_EmptySet
<1>6. Among(Connected, channel, i) = {}
  BY <1>1 DEF Among, Counted, Seats
<1>7. \A v \in Connected : channel[v] \in DOMAIN rooms'
  BY <1>2, <1>5 DEF Among, Counted, Seats
<1>8. \A y \in DOMAIN rooms' : rooms'[y].count = Cardinality(Among(Connected, channel, y))
  <2> SUFFICES ASSUME NEW y \in DOMAIN rooms'
               PROVE  rooms'[y].count = Cardinality(Among(Connected, channel, y))
    OBVIOUS
  <2>1. CASE y = i
    BY <1>2, <1>3, <1>5, <1>6, <2>1
  <2>2. CASE y # i
    BY <1>2, <2>2 DEF Counted, Seats
  <2> QED
    BY <2>1, <2>2
<1>9. \A y \in DOMAIN rooms' : rooms'[y].count > 0 \/ rooms'[y].resident
  BY <1>1, <1>2 DEF Counted, Seats
<1>10. Seats(rooms', Connected, channel, {})
  BY <1>7, <1>8, <1>9 DEF Seats
<1> QED
  BY <1>10, RoomsCount DEF SetChannelId, userVars

(* A change of the rules of a channel.                                     *)
LEMMA RulesCount ==
    ASSUME Counted, UNCHANGED <<where, state, channel, userNb>>, DOMAIN rooms' = DOMAIN rooms,
           \A y \in DOMAIN rooms : /\ rooms'[y].count = rooms[y].count
                                   /\ rooms'[y].resident = rooms[y].resident
    PROVE  Counted'
<1>1. Seats(rooms', Connected, channel, {})
  BY DEF Counted, Seats
<1> QED
  BY <1>1, RoomsCount

LEMMA SetRulesCounts ==
    ASSUME NamesInv, Counted, NEW u \in Object, NEW x \in Id,
           \/ \E l \in Level : SetChannelGroup(u, x, l)
           \/ \E f \in Flag : SetFlag(u, x, f)
    PROVE  Counted'
<1>1. x \in DOMAIN rooms /\ RoomsOK(rooms)
  BY InvHereOK DEF HereOK, SetChannelGroup, SetFlag, Rules
<1>2. rooms[x] \in Room
  BY <1>1 DEF RoomsOK
<1>3. CASE \E l \in Level : SetChannelGroup(u, x, l)
  <2>1. PICK l \in Level : rooms' = [rooms EXCEPT ![x] = [rooms[x] EXCEPT !.level = l]]
    BY <1>3 DEF SetChannelGroup
  <2>2. DOMAIN rooms' = DOMAIN rooms
        /\ \A y \in DOMAIN rooms : /\ rooms'[y].count = rooms[y].count
                                   /\ rooms'[y].resident = rooms[y].resident
    BY <1>2, <2>1 DEF Room
  <2> QED
    BY <1>3, <2>2, RulesCount DEF SetChannelGroup, userVars
<1>4. CASE \E f \in Flag : SetFlag(u, x, f)
  <2>1. \E F : rooms' = [rooms EXCEPT ![x] = [rooms[x] EXCEPT !.flags = F]]
    BY <1>4 DEF SetFlag
  <2>2. DOMAIN rooms' = DOMAIN rooms
        /\ \A y \in DOMAIN rooms : /\ rooms'[y].count = rooms[y].count
                                   /\ rooms'[y].resident = rooms[y].resident
    BY <1>2, <2>1 DEF Room
  <2> QED
    BY <1>4, <2>2, RulesCount DEF SetFlag, userVars
<1> QED
  BY <1>3, <1>4

LEMMA SetResidentCounts ==
    ASSUME NamesInv, Counted, NEW u \in Object, NEW x \in Id, SetResident(u, x)
    PROVE  Counted'
<1>1. x \in DOMAIN rooms /\ RoomsOK(rooms)
  BY InvHereOK DEF HereOK, SetResident, Rules
<1>2. rooms[x] \in Room
  BY <1>1 DEF RoomsOK
<1>3. rooms[x].count = Cardinality(Among(Connected, channel, x))
      /\ (rooms[x].count > 0 \/ rooms[x].resident)
  BY <1>1 DEF Counted, Seats
<1>4. CASE rooms[x].count = 0 /\ rooms[x].resident
  <2>1. rooms' = [y \in DOMAIN rooms \ {x} |-> rooms[y]]
    BY <1>4 DEF SetResident
  <2>2. Among(Connected, channel, x) = {}
    BY <1>3, <1>4, ConnectedPeople, PeopleFinite, FS_EmptySet
  <2>3. \A v \in Connected : channel[v] \in DOMAIN rooms'
    BY <2>1, <2>2 DEF Among, Counted, Seats
  <2>4. Seats(rooms', Connected, channel, {})
    BY <2>1, <2>3 DEF Counted, Seats
  <2> QED
    BY <2>4, RoomsCount DEF SetResident, userVars
<1>5. CASE ~(rooms[x].count = 0 /\ rooms[x].resident)
  <2>1. rooms' = [rooms EXCEPT ![x] = [rooms[x] EXCEPT !.resident = ~@]]
    BY <1>5 DEF SetResident
  <2>2. rooms[x].count > 0
    BY <1>2, <1>3, <1>5 DEF Room
  <2>3. DOMAIN rooms' = DOMAIN rooms /\ \A y \in DOMAIN rooms : rooms'[y].count = rooms[y].count
    BY <1>2, <2>1 DEF Room
  <2>4. \A y \in DOMAIN rooms : rooms'[y].count > 0 \/ rooms'[y].resident
    BY <2>1, <2>2, <2>3 DEF Counted, Seats
  <2>5. Seats(rooms', Connected, channel, {})
    BY <2>3, <2>4 DEF Counted, Seats
  <2> QED
    BY <2>5, RoomsCount DEF SetResident, userVars
<1> QED
  BY <1>4, <1>5

-----------------------------------------------------------------------------
(* Changes of channel: who enters a channel was in another.                *)
LEMMA MovesCount ==
    ASSUME NamesInv, Counted, NEW u \in Connected, NEW x \in DOMAIN rooms, x # channel[u],
           NEW cut \in BOOLEAN, Moves(u, x, cut), ~astray'
    PROVE  Counted'
<1>1. Seats(rooms, Connected, channel, {x})
  BY SameSeats DEF Counted
<1>2. RoomsOK(rooms) /\ x \in Id
  BY InvHereOK DEF HereOK, RoomsOK
<1>3. CountInv'
  BY <1>1, <1>2, MoveCounts DEF Moves, CountInv
<1> QED
  BY <1>3 DEF CountInv

LEMMA CreateCounts ==
    ASSUME NamesInv, Counted, NEW u \in Object, NEW x \in Id, NEW cut \in BOOLEAN,
           Create(u, x, cut), ~astray'
    PROVE  Counted'
<1> DEFINE rs == WithRoom(x, level[u])
<1>1. u \in Connected /\ x \notin DOMAIN rooms /\ level[u] \in Level /\ RoomsOK(rooms)
  BY InvHereOK DEF Create, Commands, Taken, TypeOK, HereOK
<1>2. x # channel[u]
  BY <1>1 DEF Counted, Seats
<1>3. MovesAmong(rs, u, x, cut)
  BY <1>2 DEF Create
<1>4. RoomsOK(rs) /\ DOMAIN rs = DOMAIN rooms \cup {x}
  BY <1>1, WithRoomOK
<1>5. rs[x].count = 0 /\ \A y \in DOMAIN rooms : rs[y] = rooms[y]
  BY <1>1 DEF WithRoom, NewRoom
<1>6. Cardinality(Among(Connected, channel, x)) = 0
  <2>1. Among(Connected, channel, x) = {}
    BY <1>1 DEF Among, Counted, Seats
  <2> QED
    BY <2>1, FS_EmptySet
<1>7. Seats(rs, Connected, channel, {x})
  BY <1>4, <1>5, <1>6 DEF Counted, Seats
<1>8. CountInv'
  BY <1>1, <1>2, <1>3, <1>4, <1>7, MoveCounts DEF CountInv
<1> QED
  BY <1>8 DEF CountInv

(* Logins.                                                                 *)
LEMMA LoginNewCounts ==
    ASSUME NamesInv, Counted, NEW u \in Object, NEW i \in Id, NEW cut \in BOOLEAN,
           LoginNew(u, i, cut), ~astray'
    PROVE  Counted'
<1>1. TypeOK /\ RoomsOK(rooms) /\ userNb \in Int
  BY InvHereOK DEF HereOK
<1>2. ~cut /\ where[u] = "pending" /\ where' = [where EXCEPT ![u] = "list"]
      /\ LoggedIn(u, rooms, userNb, FALSE)
  BY DEF LoginNew, Typing
<1>3. where'[u] = "list" /\ \A v \in Object \ {u} : where'[v] = where[v]
  BY <1>1, <1>2 DEF TypeOK
<1>4. \A v \in Object \ {u} : state[v] = "LOGGED" => where'[v] # "none"
  BY <1>3 DEF Counted, OnlyUsers
<1>5. Connected \ {u} = Connected
  BY <1>2 DEF Connected, InList
<1>6. Seats(rooms, Connected \ {u}, channel, {}) /\ userNb = Cardinality(Connected \ {u})
  BY <1>5 DEF Counted
<1> QED
  BY <1>1, <1>2, <1>3, <1>4, <1>6, LoginCounts DEF Counted

LEMMA RightPasswordCounts ==
    ASSUME NamesInv, Counted, NEW u \in Object, NEW a \in Object, NEW cut \in BOOLEAN,
           RightPassword(u, a, cut), ~astray'
    PROVE  Counted'
<1>1. TypeOK /\ RoomsOK(rooms) /\ userNb \in Int
  BY InvHereOK DEF HereOK
<1>2. /\ where[u] = "pending" /\ state[u] = "PASSWORD" /\ where[a] = "list"
      /\ where' = [where EXCEPT ![u] = "none"]
      /\ LoggedIn(a, RoomsWithout(a), UserNbWithout(a), FALSE)
  BY DEF RightPassword, Typing, SearchUId, First, Holders, InList
<1>3. /\ where'[a] = "list"
      /\ \A v \in Object \ {a} : where'[v] = "list" <=> where[v] = "list"
      /\ \A v \in Object \ {a} : state[v] = "LOGGED" => where'[v] # "none"
  BY <1>1, <1>2 DEF TypeOK, Counted, OnlyUsers
<1>4. RoomsOK(RoomsWithout(a)) /\ UserNbWithout(a) \in Int
  BY <1>1, LeftOK DEF RoomsWithout, UserNbWithout
<1>5. Seats(RoomsWithout(a), Connected \ {a}, channel, {})
      /\ UserNbWithout(a) = Cardinality(Connected \ {a})
  <2>1. CASE state[a] = "LOGGED"
    <3>1. a \in Connected
      BY <1>2, <2>1 DEF Connected, InList
    <3>2. RoomsWithout(a) = Left(rooms, channel[a]) /\ UserNbWithout(a) = userNb - 1
      BY <2>1 DEF RoomsWithout, UserNbWithout
    <3>3. Seats(rooms, Connected, channel, {}) /\ Connected \in SUBSET Object
      BY ConnectedPeople DEF Counted
    <3>4. Seats(Left(rooms, channel[a]), Connected \ {a}, channel, {})
      BY <1>1, <3>1, <3>3, LeaveSeat
    <3>5. IsFiniteSet(Connected) /\ Cardinality(Connected) \in Nat
      BY <3>3, PeopleFinite
    <3>6. Cardinality(Connected \ {a}) = Cardinality(Connected) - 1
      BY <3>1, <3>5, FS_RemoveElement
    <3> QED
      BY <3>2, <3>4, <3>6 DEF Counted
  <2>2. CASE state[a] # "LOGGED"
    <3>1. RoomsWithout(a) = rooms /\ UserNbWithout(a) = userNb
      BY <2>2 DEF RoomsWithout, UserNbWithout
    <3>2. Connected \ {a} = Connected
      BY <2>2 DEF Connected
    <3> QED
      BY <3>1, <3>2 DEF Counted
  <2> QED
    BY <2>1, <2>2
<1> QED
  BY <1>1, <1>2, <1>3, <1>4, <1>5, LoginCounts DEF Counted

LEMMA KillCounts ==
    ASSUME NamesInv, Counted, NEW u \in Object, NEW v \in Object, Kill(u, v), ~astray'
    PROVE  Counted'
<1>1. UNCHANGED <<where, astray>>
  BY DEF Kill
<1>2. CASE v \in Connected
  <2>1. Ended(v)
    BY <1>2 DEF Kill
  <2>2. CountInv'
    BY <1>1, <2>1, EndedCounts DEF CountInv
  <2> QED
    BY <2>2 DEF CountInv
<1>3. CASE v \notin Connected
  BY <1>1, <1>3, NamesCount DEF Kill
<1> QED
  BY <1>2, <1>3

LEMMA HangUpCounts ==
    ASSUME NamesInv, Counted, NEW u \in Object, ~astray',
           HangUp(u) \/ Overflow(u) \/ NoAccount(u) \/ Quit(u)
             \/ \E v \in Object : Kick(v, u)
    PROVE  Counted'
<1>1. LoggedOut(u) /\ UNCHANGED astray
  BY DEF HangUp, Overflow, NoAccount, Quit, Kick
<1>2. \A v \in Object : where'[v] = "list" <=> where[v] = "list"
  BY InvHereOK DEF HangUp, Overflow, NoAccount, Quit, Kick, userVars, TypeOK
<1>3. CountInv'
  BY <1>1, <1>2, LogoutCounts DEF CountInv
<1> QED
  BY <1>3 DEF CountInv

(* The logouts of several, who take themselves out of the counts, and the  *)
(* channels with them that were theirs alone.                              *)
LEMMA AllOutCounts ==
    ASSUME NamesInv, Counted, NEW K \in SUBSET Connected, AllOut(K), UNCHANGED where,
           rooms' = RoomsWithoutAll(K), channel' = ChannelsWithout(K)
    PROVE  Counted'
<1> DEFINE n(x) == Cardinality(InRoom(x) \cap K)
           D == {y \in DOMAIN rooms : \/ rooms[y].resident \/ n(y) = 0
                                      \/ rooms[y].count > n(y)}
           R(x) == [rooms[x] EXCEPT !.count = IF @ > n(x) THEN @ - n(x) ELSE 0]
<1>1. rooms' = [x \in D |-> R(x)]
  BY DEF RoomsWithoutAll
<1>2. TypeOK /\ K \in SUBSET Object
  BY InvHereOK, ConnectedPeople
<1>3. Connected' = Connected \ K /\ OnlyUsers'
  BY <1>2 DEF AllOut, Connected, InList, Counted, OnlyUsers
<1>4. \A v \in Connected' : channel'[v] = channel[v]
  BY <1>2, <1>3, ConnectedPeople DEF ChannelsWithout
<1>5. \A x : /\ InRoom(x) = Among(Connected, channel, x)
             /\ Among(Connected', channel', x) = InRoom(x) \ K
  BY <1>3, <1>4 DEF InRoom, Among
<1>6. \A x : /\ IsFiniteSet(InRoom(x)) /\ Cardinality(InRoom(x)) \in Nat /\ n(x) \in Nat
             /\ IsFiniteSet(InRoom(x) \ K) /\ Cardinality(InRoom(x) \ K) \in Nat
             /\ Cardinality(InRoom(x) \ K) = Cardinality(InRoom(x)) - n(x)
  <2> SUFFICES ASSUME NEW x
               PROVE  /\ IsFiniteSet(InRoom(x)) /\ Cardinality(InRoom(x)) \in Nat /\ n(x) \in Nat
                      /\ IsFiniteSet(InRoom(x) \ K) /\ Cardinality(InRoom(x) \ K) \in Nat
                      /\ Cardinality(InRoom(x) \ K) = Cardinality(InRoom(x)) - n(x)
    OBVIOUS
  <2>1. IsFiniteSet(InRoom(x)) /\ Cardinality(InRoom(x)) \in Nat
    BY <1>5, ConnectedPeople, PeopleFinite
  <2>2. IsFiniteSet(InRoom(x) \cap K) /\ n(x) \in Nat
    BY <2>1, FS_Intersection, FS_CardinalityType
  <2>3. /\ IsFiniteSet(InRoom(x) \ K)
        /\ Cardinality(InRoom(x) \ K) = Cardinality(InRoom(x)) - n(x)
    BY <2>1, FS_Difference
  <2> QED
    BY <2>1, <2>2, <2>3, FS_CardinalityType
<1>7. \A x \in DOMAIN rooms : rooms[x].count = Cardinality(InRoom(x)) /\ rooms[x] \in Room
  BY <1>5, InvHereOK DEF Counted, Seats, HereOK, RoomsOK
<1>8. \A x \in D : /\ R(x).count = Cardinality(InRoom(x) \ K)
                   /\ R(x).count > 0 \/ R(x).resident
  <2> SUFFICES ASSUME NEW x \in D
               PROVE  /\ R(x).count = Cardinality(InRoom(x) \ K)
                      /\ R(x).count > 0 \/ R(x).resident
    OBVIOUS
  <2> DEFINE c == Cardinality(InRoom(x))
  <2>1. /\ rooms[x].count = c /\ rooms[x] \in Room
        /\ c \in Nat /\ n(x) \in Nat /\ c - n(x) \in Nat
        /\ Cardinality(InRoom(x) \ K) = c - n(x)
    BY <1>6, <1>7
  <2>2. R(x).count = (IF c > n(x) THEN c - n(x) ELSE 0) /\ R(x).resident = rooms[x].resident
    BY <2>1 DEF Room
  <2>3. rooms[x].resident \/ n(x) = 0 \/ c > n(x)
    BY <2>1
  <2>4. c > 0 \/ rooms[x].resident
    BY <2>1 DEF Counted, Seats
  <2> HIDE DEF c, n, R
  <2> QED
    BY <2>1, <2>2, <2>3, <2>4
<1>9. \A v \in Connected' : channel[v] \in D
  <2> SUFFICES ASSUME NEW v \in Connected'
               PROVE  channel[v] \in D
    OBVIOUS
  <2> DEFINE x == channel[v]
  <2>1. x \in DOMAIN rooms /\ v \in InRoom(x) \ K
    BY <1>3 DEF Counted, Seats, InRoom
  <2>2. Cardinality(InRoom(x) \ K) # 0
    BY <1>6, <2>1, FS_EmptySet
  <2>3. rooms[x].count > n(x)
    <3> HIDE DEF n, x
    <3>1. /\ Cardinality(InRoom(x) \ K) = Cardinality(InRoom(x)) - n(x)
          /\ Cardinality(InRoom(x) \ K) \in Nat /\ n(x) \in Nat
          /\ rooms[x].count = Cardinality(InRoom(x)) /\ Cardinality(InRoom(x)) \in Nat
      BY <1>6, <1>7, <2>1
    <3> QED
      BY <2>2, <3>1
  <2> QED
    BY <2>1, <2>3
<1>10. Seats(rooms', Connected', channel', {})
  <2>1. /\ DOMAIN rooms' = D
        /\ \A x \in D : rooms'[x] = R(x)
    BY <1>1
  <2> HIDE DEF D, R
  <2> QED
    BY <1>4, <1>5, <1>8, <1>9, <2>1 DEF Seats
<1>11. userNb' = Cardinality(Connected')
  <2>1. /\ IsFiniteSet(Connected) /\ Cardinality(Connected) \in Nat
        /\ userNb = Cardinality(Connected)
    BY ConnectedPeople, PeopleFinite DEF Counted
  <2>2. Cardinality(Connected \ K) = Cardinality(Connected) - Cardinality(Connected \cap K)
    BY <2>1, FS_Difference
  <2>3. Connected \cap K = K
    OBVIOUS
  <2> QED
    BY <1>3, <2>1, <2>2, <2>3 DEF AllOut
<1> QED
  BY <1>3, <1>10, <1>11 DEF Counted

LEMMA SignalCounts ==
    ASSUME NamesInv, Counted, Signal
    PROVE  Counted'
<1>1. /\ AllOut(Connected) /\ rooms' = RoomsWithoutAll(Connected)
      /\ channel' = ChannelsWithout(Connected) /\ UNCHANGED where
  BY DEF Signal, userVars
<1> QED
  BY <1>1, AllOutCounts

(* Who would join a channel that is deleted under him stays counted where  *)
(* he is, or has gone astray.                                              *)
LEMMA JoinFreedCounts ==
    ASSUME NamesInv, Counted, NEW u \in Object, NEW x \in Id, NEW K \in SUBSET Object,
           JoinFreed(u, x, K), ~astray'
    PROVE  Counted'
<1>1. /\ K \in SUBSET Connected /\ AllOut(K) /\ UNCHANGED where
      /\ rooms' = RoomsWithoutAll(K) /\ channel' = ChannelsWithout(K)
  BY DEF JoinFreed, userVars
<1> QED
  BY <1>1, AllOutCounts

(* The channels of the start, where nobody is.                             *)
LEMMA StartSeats ==
    ASSUME NEW c
    PROVE  Seats(StartRooms, {}, c, {}) /\ Cardinality({}) = 0
<1>1. \A x : Among({}, c, x) = {}
  BY DEF Among
<1>2. \A x \in DOMAIN StartRooms : StartRooms[x].count = 0 /\ StartRooms[x].resident
  BY DEF StartRooms, NewRoom
<1> QED
  BY <1>1, <1>2, FS_EmptySet DEF Seats

LEMMA RestartCounts ==
    ASSUME NamesInv, NEW place \in [disk.accounts -> Object], Restart(place), ~astray'
    PROVE  Counted'
<1>1. /\ astray' = (astray \/ \E u \in {v \in Object : state[v] # "NOT_LOGGED"} :
                                 state[u] = "LOGGED")
      /\ UNCHANGED state /\ rooms' = StartRooms /\ userNb' = 0
  BY Zenon DEF Restart
<1>2. \A u \in Object : state'[u] # "LOGGED"
  BY <1>1
<1>3. Connected' = {}
  BY <1>2 DEF Connected, InList
<1>4. Seats(rooms', Connected', channel', {}) /\ userNb' = Cardinality(Connected')
  BY <1>1, <1>3, StartSeats
<1> QED
  BY <1>2, <1>4 DEF Counted, OnlyUsers

LEMMA InitCounts == Init => CountInv
<1> SUFFICES ASSUME Init
             PROVE  CountInv
  OBVIOUS
<1>1. rooms = StartRooms /\ userNb = 0 /\ state = [u \in Object |-> "NOT_LOGGED"]
  BY DEF Init
<1>2. \A u \in Object : state[u] # "LOGGED"
  BY <1>1
<1>3. Connected = {}
  BY <1>2 DEF Connected, InList
<1>4. Seats(rooms, Connected, channel, {}) /\ userNb = Cardinality(Connected)
  BY <1>1, <1>3, StartSeats
<1> QED
  BY <1>2, <1>4 DEF CountInv, Counted, OnlyUsers

(* No step takes back that something went astray.                          *)
LEMMA AstrayStays ==
    ASSUME Next
    PROVE  astray => astray'
<1>1. CASE \E u \in Object : \/ AddConn(u) \/ HangUp(u) \/ Overflow(u)
                             \/ NoAccount(u) \/ Quit(u) \/ Register(u)
  BY <1>1 DEF AddConn, HangUp, Overflow, NoAccount, Quit, Register
<1>2. CASE \E u \in Object, i \in Id : LoginName(u, i)
  BY <1>2 DEF LoginName
<1>3. CASE \E u \in Object, i \in Id, cut \in BOOLEAN :
             LoginNew(u, i, cut) \/ Join(u, i, cut) \/ Create(u, i, cut)
  <2> PICK u \in Object, i \in Id, cut \in BOOLEAN :
             LoginNew(u, i, cut) \/ Join(u, i, cut) \/ Create(u, i, cut)
    BY <1>3
  <2>1. CASE LoginNew(u, i, cut)
    BY <2>1 DEF LoginNew
  <2>2. CASE Join(u, i, cut)
    BY <2>2 DEF Join, Moves, MovesAmong
  <2>3. CASE Create(u, i, cut)
    BY <2>3 DEF Create, MovesAmong
  <2> QED
    BY <2>1, <2>2, <2>3
<1>4. CASE \E u \in Object, b \in BOOLEAN : WrongPassword(u, b) \/ Leave(u, b)
  BY <1>4 DEF WrongPassword, Leave, Moves, MovesAmong
<1>5. CASE \E u, v \in Object : Invite(u, v) \/ Kick(u, v) \/ Kill(u, v)
  BY <1>5 DEF Invite, Kick, Kill
<1>6. CASE \E u, v \in Object, cut \in BOOLEAN : RightPassword(u, v, cut) \/ Bump(u, v, cut)
  BY <1>6 DEF RightPassword, Bump, Moves, MovesAmong
<1>7. CASE \/ \E u, v \in Object, l \in Level : SetGroup(u, v, l)
           \/ \E u, v \in Object, i \in Id : SetUserId(u, v, i)
  BY <1>7 DEF SetGroup, SetUserId
<1>8. CASE \/ \E u \in Object, x, i \in Id : SetChannelId(u, x, i)
           \/ \E u \in Object, x \in Id, l \in Level : SetChannelGroup(u, x, l)
           \/ \E u \in Object, x \in Id, f \in Flag : SetFlag(u, x, f)
           \/ \E u \in Object, x \in Id : SetResident(u, x)
  BY <1>8 DEF SetChannelId, SetChannelGroup, SetFlag, SetResident
<1>9. CASE Reap \/ PendingDone \/ UsersDone \/ Signal
  BY <1>9 DEF Reap, PendingDone, UsersDone, Signal
<1>11. CASE \E u \in Object, x \in Id, K \in SUBSET Object : JoinFreed(u, x, K)
  BY <1>11 DEF JoinFreed
<1>10. CASE \E place \in [disk.accounts -> Object] : Restart(place)
  <2>1. PICK place \in [disk.accounts -> Object] : Restart(place)
    BY <1>10
  <2>2. \E B \in BOOLEAN : astray' = (astray \/ B)
    <3>1. astray' = (astray \/ \E u \in {v \in Object : state[v] # "NOT_LOGGED"} :
                                  state[u] = "LOGGED")
      BY <2>1, Zenon DEF Restart
    <3> QED
      BY <3>1
  <2> QED
    BY <2>2
<1> QED
  BY <1>1, <1>2, <1>3, <1>4, <1>5, <1>6, <1>7, <1>8, <1>9, <1>10, <1>11 DEF Next

LEMMA StepCounts == NamesInv /\ CountInv /\ [Next]_vars => CountInv'
<1> SUFFICES ASSUME NamesInv, CountInv, [Next]_vars, ~astray'
             PROVE  Counted'
  BY DEF CountInv
<1>1. CASE UNCHANGED vars
  <2>1. UNCHANGED <<where, state, channel, rooms, userNb, astray>>
    BY <1>1 DEF vars, userVars, hereVars
  <2> QED
    BY <2>1, NamesCount DEF CountInv
<1>2. CASE Next
  <2>1. Counted /\ RoomsOK(rooms) /\ Hall \in DOMAIN rooms
    BY <1>2, AstrayStays, InvHereOK DEF CountInv, HereOK, RoomsOK
  <2>2. CASE \E u \in Object : \/ AddConn(u) \/ HangUp(u) \/ Overflow(u)
                               \/ NoAccount(u) \/ Quit(u) \/ Register(u)
    BY <2>1, <2>2, PendingCounts, HangUpCounts, NamesCount DEF Register
  <2>3. CASE \E u \in Object, i \in Id : LoginName(u, i)
    BY <2>1, <2>3, PendingCounts
  <2>4. CASE \E u \in Object, i \in Id, cut \in BOOLEAN :
               LoginNew(u, i, cut) \/ Join(u, i, cut) \/ Create(u, i, cut)
    BY <2>1, <2>4, LoginNewCounts, CreateCounts, MovesCount DEF Join, Commands
  <2>5. CASE \E u \in Object, b \in BOOLEAN : WrongPassword(u, b) \/ Leave(u, b)
    BY <2>1, <2>5, PendingCounts, MovesCount DEF Leave, Commands
  <2>6. CASE \E u, v \in Object : Invite(u, v) \/ Kick(u, v) \/ Kill(u, v)
    BY <2>1, <2>6, NamesCount, HangUpCounts, KillCounts DEF Invite, userVars
  <2>7. CASE \E u, v \in Object, cut \in BOOLEAN : RightPassword(u, v, cut) \/ Bump(u, v, cut)
    BY <2>1, <2>7, RightPasswordCounts, MovesCount DEF Bump, CanSee
  <2>8. CASE \/ \E u, v \in Object, l \in Level : SetGroup(u, v, l)
             \/ \E u, v \in Object, i \in Id : SetUserId(u, v, i)
    BY <2>1, <2>8, NamesCount DEF SetGroup, SetUserId
  <2>9. CASE \/ \E u \in Object, x, i \in Id : SetChannelId(u, x, i)
             \/ \E u \in Object, x \in Id, l \in Level : SetChannelGroup(u, x, l)
             \/ \E u \in Object, x \in Id, f \in Flag : SetFlag(u, x, f)
             \/ \E u \in Object, x \in Id : SetResident(u, x)
    BY <2>1, <2>9, SetChannelIdCounts, SetRulesCounts, SetResidentCounts
  <2>10. CASE Reap \/ PendingDone \/ UsersDone \/ Signal
    BY <2>1, <2>10, ReapCounts, NamesCount, SignalCounts
       DEF PendingDone, UsersDone, userVars, hereVars
  <2>11. CASE \E place \in [disk.accounts -> Object] : Restart(place)
    BY <2>11, RestartCounts
  <2>12. CASE \E u \in Object, x \in Id, K \in SUBSET Object : JoinFreed(u, x, K)
    BY <2>1, <2>12, JoinFreedCounts
  <2> QED
    BY <1>2, <2>2, <2>3, <2>4, <2>5, <2>6, <2>7, <2>8, <2>9, <2>10, <2>11, <2>12 DEF Next
<1> QED
  BY <1>1, <1>2

(* The numbers agree with the people: every channel counts those in it,    *)
(* who leave the last, delete it or pass to the hall, and the server       *)
(* counts who is connected, whatever logouts come between the commands and *)
(* inside them, Join() included (until one of the events of astray, of     *)
(* which going on with a channel that a logout inside Join() deleted is    *)
(* one).                                                                   *)
THEOREM RoomsCorrect == Spec => []RoomsInv
<1>1. ASSUME NamesInv, CountInv
      PROVE  RoomsInv
  <2>1. TypeOK
    BY <1>1 DEF NamesInv
  <2>2. ASSUME ~astray
        PROVE  RoomsAgree
    <3>1. Counted /\ \A x : InRoom(x) = Among(Connected, channel, x)
      BY <1>1, <2>2 DEF CountInv, InRoom, Among
    <3> QED
      BY <3>1 DEF Counted, Seats, RoomsAgree
  <2> QED
    BY <2>1, <2>2 DEF RoomsInv, RoomsAgree
<1> QED
  BY <1>1, InitCounts, StepCounts, InvCorrect, PTL DEF Spec
=============================================================================
