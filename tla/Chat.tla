-------------------------------- MODULE Chat --------------------------------
(***************************************************************************)
(* The chat server: who is connected under which name, who is in which     *)
(* channel, and what of it is in the database.                             *)
(*                                                                         *)
(* One object stands for a connection that has not logged in (in           *)
(* PendingList), for a connected user and for an account whose owner is    *)
(* away (both in UserList).  The loop of Server() reads the connections,   *)
(* removes the objects that nobody uses any more, writes the database,     *)
(* and then takes one line of each pending user and of each user; here a   *)
(* phase takes any number of lines in any order.  Between a logout and the *)
(* next removal an object that is neither connected nor registered is      *)
(* still in the list, and still has its name.                              *)
(***************************************************************************)
EXTENDS Integers, FiniteSets

CONSTANTS
    Object,      \* bound: room for so many users, pending ones included
    Id,          \* the names that people type, for users and channels
    Root,        \* SUPER_USER
    Hall,        \* DEFAULT_CHANNEL
    Nobody,      \* DEFAULT_USER, the name of who has given none
    Outside,     \* the empty name: in no channel, invited to none
    MaxLevel,    \* the level of the group System; NoGroup has 0
    RegisterLevel, TellLevel, GuestLevel,   \* the levels of these groups
    Flag         \* the flags of a channel that are used in the instance

Level == 0 .. MaxLevel
Flags == {"Closed", "Hidden", "Invite"}

ASSUME ChatAssumption ==
    /\ IsFiniteSet(Object)
    /\ {Root, Hall} \subseteq Id /\ Root # Hall
    /\ Nobody \notin Id /\ Outside \notin Id
    /\ MaxLevel \in Nat
    /\ {RegisterLevel, TellLevel, GuestLevel} \subseteq Level
    /\ Flag \subseteq Flags

VARIABLES
    phase,      \* how far the loop is: reading, pending users, users
    where,      \* the list an object is in
    id,         \* user::Id
    state,      \* user::State
    registered, \* the objects with user::Registered
    level,      \* the level of user::Group
    channel,    \* user::Channel
    invite,     \* user::Invite
    rooms,      \* ChannelList, by name
    userNb, userNbMax,
    disk,       \* the file of the database
    changed,    \* DataBaseChanged
    moved,      \* ActiveServer is not empty: this server sends people on
    leaving,    \* statechanged
    astray      \* history: one of the things below that the code
                \* does not put right has happened

userVars == <<where, id, registered, level>>
hereVars == <<state, channel, invite, rooms, userNb, changed>>
loopVars == <<phase, moved, leaving>>
diskVars == <<userNbMax, disk>>
vars == <<userVars, hereVars, loopVars, diskVars, astray>>

-----------------------------------------------------------------------------
InList    == {u \in Object : where[u] = "list"}
Connected == {u \in InList : state[u] = "LOGGED"}
Accounts  == {u \in InList : u \in registered}
Gone      == {u \in InList : state[u] = "NOT_LOGGED"} \ registered
InRoom(x) == {u \in Connected : channel[u] = x}

(* SearchObject() takes the first of the list: if an object that is about  *)
(* to be removed has the name as well, it is the older one.                *)
Holders(i) == {u \in InList : id[u] = i}
First(i)   == IF Holders(i) \cap Gone # {} THEN Holders(i) \cap Gone
                                           ELSE Holders(i)
SearchUId(i)  == First(i) \cap registered
SearchUser(i) == First(i) \cap Connected
Taken(i)      == Holders(i) # {} \/ i \in DOMAIN rooms

Saved == {[id |-> id[u], level |-> level[u]] : u \in Accounts}

NewRoom(l, resident) ==
    [count |-> 0, level |-> l, flags |-> {}, resident |-> resident]

(* The channels at the start; those other than the hall differ from it in  *)
(* their rules only, and are left out.                                     *)
StartRooms == [x \in {Hall} |-> NewRoom(MaxLevel, TRUE)]

Init ==
    /\ phase = "reading"
    /\ \E u \in Object :
         /\ where = [o \in Object |-> IF o = u THEN "list" ELSE "none"]
         /\ id = [o \in Object |-> IF o = u THEN Root ELSE Nobody]
         /\ level = [o \in Object |-> IF o = u THEN MaxLevel ELSE 0]
         /\ registered = {u}
    /\ state = [u \in Object |-> "NOT_LOGGED"]
    /\ channel = [u \in Object |-> Outside]
    /\ invite = [u \in Object |-> Outside]
    /\ rooms = StartRooms
    /\ userNb = 0
    /\ userNbMax = 0
    /\ disk = [accounts |-> {[id |-> Root, level |-> MaxLevel]}, max |-> 0]
    /\ changed = FALSE
    /\ moved = FALSE
    /\ leaving = FALSE
    /\ astray = FALSE

-----------------------------------------------------------------------------
(* JoinChannel() and LeaveChannel(), on the list of channels.              *)
Entered(rs, x) == [rs EXCEPT ![x].count = @ + 1]

KeepEmpty(rs, x) == rs[x].count <= 0 /\ ~rs[x].resident         \* a mutant
Emptied(rs, x)   == rs[x].count <= 1 /\ ~rs[x].resident

Left(rs, x) ==
    IF x \notin DOMAIN rs THEN rs
    ELSE IF Emptied(rs, x) THEN [y \in DOMAIN rs \ {x} |-> rs[y]]
    ELSE [rs EXCEPT ![x].count = IF @ > 0 THEN @ - 1 ELSE 0]

(* What Logout() of u leaves of the channels, and of the number of users.  *)
RoomsWithout(u) == IF state[u] = "LOGGED" THEN Left(rooms, channel[u]) ELSE rooms
UserNbWithout(u) == IF state[u] = "LOGGED" THEN userNb - 1 ELSE userNb

StaysCounted(u) == UNCHANGED <<rooms, userNb>>                  \* a mutant
Uncounted(u)    == rooms' = RoomsWithout(u) /\ userNb' = UserNbWithout(u)

(* Logout() of u, which also closes the connection; and, when it is the    *)
(* connection that ends, RemConn() calls Logout().  The invitation stays   *)
(* where it is, but nobody reads it before Login() takes it back.          *)
Ended(u) ==
    /\ Uncounted(u)
    /\ state' = [state EXCEPT ![u] = "NOT_LOGGED"]
    /\ channel' = [channel EXCEPT ![u] =
                     IF state[u] = "LOGGED" /\ @ \in DOMAIN rooms THEN Outside ELSE @]
    /\ invite' = [invite EXCEPT ![u] = Outside]

LoggedOut(u) == Ended(u) /\ changed' = (changed \/ u \in registered)

(* Logout() of all of K, who are connected, in any order.                  *)
RoomsWithoutAll(K) ==
    LET n(x) == Cardinality(InRoom(x) \cap K)
    IN  [x \in {y \in DOMAIN rooms : \/ rooms[y].resident \/ n(y) = 0
                                     \/ rooms[y].count > n(y)} |->
           [rooms[x] EXCEPT !.count = IF @ > n(x) THEN @ - n(x) ELSE 0]]

ChannelsWithout(K) ==
    [u \in Object |-> IF u \in K /\ channel[u] \in DOMAIN rooms THEN Outside ELSE channel[u]]

InvitesWithout(K) == [u \in Object |-> IF u \in K THEN Outside ELSE invite[u]]

AllOut(K) ==
    /\ state' = [u \in Object |-> IF u \in K THEN "NOT_LOGGED" ELSE state[u]]
    /\ userNb' = userNb - Cardinality(K)
    /\ changed' = (changed \/ K \cap registered # {})

(* Login() of u, from the channels rs and the number of users nb that      *)
(* there are then.  What is sent to u on the way may be more than its      *)
(* buffer holds, and then (cut) it has been logged out before it joins.    *)
SilentRecord(u, nb) == changed' = (changed \/ u \in registered) \* a mutant
Record(u, nb) == changed' = (changed \/ u \in registered \/ nb > userNbMax)

LoggedIn(u, rs, nb, cut) ==
    LET n == IF cut THEN nb ELSE nb + 1
    IN  /\ state' = [o \in Object |->
                       IF o = u THEN IF cut THEN "NOT_LOGGED" ELSE "LOGGED"
                       ELSE IF where'[o] = "none" THEN "NOT_LOGGED" ELSE state[o]]
        /\ channel' = [channel EXCEPT ![u] = Hall]
        /\ invite' = [invite EXCEPT ![u] = Outside]
        /\ rooms' = Entered(rs, Hall)
        /\ userNb' = n
        /\ userNbMax' = IF n > userNbMax THEN n ELSE userNbMax
        /\ Record(u, n)

-----------------------------------------------------------------------------
(* UpdateConn(): connections come and end.                                 *)

(* AddConn(): who comes to a server that has moved is logged out at once.  *)
AddConn(u) ==
    /\ phase = "reading"
    /\ where[u] = "none"
    /\ where' = [where EXCEPT ![u] = "pending"]
    /\ id' = [id EXCEPT ![u] = Nobody]
    /\ level' = [level EXCEPT ![u] = 0]
    /\ state' = [state EXCEPT ![u] = IF moved THEN "NOT_LOGGED" ELSE "LOGIN"]
    /\ channel' = [channel EXCEPT ![u] = Outside]
    /\ invite' = [invite EXCEPT ![u] = Outside]
    /\ UNCHANGED <<registered, rooms, userNb, changed, loopVars, diskVars, astray>>

(* KillConn(), from UpdateConn(); an object that was forgotten by a restart *)
(* is in no list, and its connection is the last to know it.               *)
HangUp(u) ==
    /\ phase = "reading"
    /\ state[u] # "NOT_LOGGED"
    /\ LoggedOut(u)
    /\ where' = [where EXCEPT ![u] = IF @ = "lost" THEN "none" ELSE @]
    /\ UNCHANGED <<id, registered, level, loopVars, diskVars, astray>>

(* SendString(): a user who does not read is logged out by what is sent to *)
(* him, in the middle of what another does.  What the other does is the    *)
(* same before and after, but for Join(): see JoinFreed.                   *)
Overflow(u) ==
    /\ phase # "reading"
    /\ u \in Connected
    /\ \E v \in Object \ {u} : state[v] # "NOT_LOGGED"
    /\ LoggedOut(u)
    /\ UNCHANGED <<userVars, loopVars, diskVars, astray>>

(* The two loops that remove objects, and WriteDataBase().  No object is   *)
(* found with a State other than NOT_LOGGED and a connection that has      *)
(* ended, for all that ends a connection calls Logout().                   *)
Removed == {u \in Object : state[u] = "NOT_LOGGED"
                           /\ (where[u] = "pending" \/ u \in Gone)}

Reap ==
    /\ phase = "reading"
    /\ phase' = "pending"
    /\ where' = [u \in Object |-> IF u \in Removed THEN "none" ELSE where[u]]
    /\ disk' = IF changed THEN [accounts |-> Saved, max |-> userNbMax] ELSE disk
    /\ changed' = FALSE
    /\ id' = [u \in Object |-> IF u \in Removed THEN Nobody ELSE id[u]]
    /\ level' = [u \in Object |-> IF u \in Removed THEN 0 ELSE level[u]]
    /\ channel' = [u \in Object |-> IF u \in Removed THEN Outside ELSE channel[u]]
    /\ UNCHANGED <<registered, state, invite, rooms, userNb, moved, leaving,
                   userNbMax, astray>>

PendingDone ==
    /\ phase = "pending"
    /\ phase' = "users"
    /\ UNCHANGED <<userVars, hereVars, moved, leaving, diskVars, astray>>

UsersDone ==
    /\ phase = "users"
    /\ ~leaving
    /\ phase' = "reading"
    /\ UNCHANGED <<userVars, hereVars, moved, leaving, diskVars, astray>>

-----------------------------------------------------------------------------
(* The lines of a pending user.                                            *)
Typing(u, what) == phase = "pending" /\ where[u] = "pending" /\ state[u] = what

(* A name that no account has, and no channel: the user is in.  The name   *)
(* may be that of somebody who has just been logged out, and hide another  *)
(* who has done the same.                                                  *)
LoginAnyway(i) == Holders(i) # {} \/ i \notin DOMAIN rooms      \* a mutant
MayLogin(i)    == /\ Holders(i) # {} \/ i \notin DOMAIN rooms
                  /\ SearchUId(i) = {} /\ SearchUser(i) = {}

LoginNew(u, i, cut) ==
    /\ Typing(u, "LOGIN")
    /\ MayLogin(i)
    /\ where' = [where EXCEPT ![u] = "list"]
    /\ id' = [id EXCEPT ![u] = i]
    /\ level' = [level EXCEPT ![u] = 0]
    /\ LoggedIn(u, rooms, userNb, cut)
    /\ astray' = (astray \/ cut \/ \E v \in Connected : id[v] = i)
    /\ UNCHANGED <<registered, loopVars, disk>>

LoginName(u, i) ==
    /\ Typing(u, "LOGIN")
    /\ \E a \in SearchUId(i) : level' = [level EXCEPT ![u] = level[a]]
    /\ id' = [id EXCEPT ![u] = i]
    /\ state' = [state EXCEPT ![u] = "PASSWORD"]
    /\ UNCHANGED <<where, registered, invite, channel, rooms, userNb, changed,
                   loopVars, diskVars, astray>>

(* An empty line leads back to the name, as a wrong password does.         *)
WrongPassword(u, empty) ==
    /\ Typing(u, "PASSWORD")
    /\ empty \/ SearchUId(id[u]) # {}
    /\ state' = [state EXCEPT ![u] = "LOGIN"]
    /\ id' = [id EXCEPT ![u] = Nobody]
    /\ level' = [level EXCEPT ![u] = 0]
    /\ changed' = (changed \/ ~empty)
    /\ UNCHANGED <<where, registered, invite, channel, rooms, userNb,
                   loopVars, diskVars, astray>>

(* The account is gone, killed or renamed, since its name was typed.       *)
NoAccount(u) ==
    /\ Typing(u, "PASSWORD")
    /\ SearchUId(id[u]) = {}
    /\ LoggedOut(u)
    /\ UNCHANGED <<userVars, loopVars, diskVars, astray>>

(* The connection passes to the object of the account; who was connected   *)
(* to it is logged out first.                                              *)
RightPassword(u, a, cut) ==
    /\ Typing(u, "PASSWORD")
    /\ a \in SearchUId(id[u])
    /\ where' = [where EXCEPT ![u] = "none"]
    /\ id' = [id EXCEPT ![u] = Nobody]
    /\ level' = [level EXCEPT ![u] = 0]
    /\ LoggedIn(a, RoomsWithout(a), UserNbWithout(a), cut)
    /\ astray' = (astray \/ cut)
    /\ UNCHANGED <<registered, loopVars, disk>>

-----------------------------------------------------------------------------
(* The commands of a connected user.                                       *)
Commands(u) == phase = "users" /\ u \in Connected

Named(v) == v \in First(id[v])

(* JoinChannel() of u, who is in a channel, among the channels rs: the     *)
(* messages before it may be too many for u.                               *)
MovesAmong(rs, u, x, cut) ==
    /\ rooms' = Entered(Left(rs, channel[u]), x)
    /\ channel' = [channel EXCEPT ![u] = x]
    /\ state' = [state EXCEPT ![u] = IF cut THEN "NOT_LOGGED" ELSE @]
    /\ userNb' = IF cut THEN userNb - 1 ELSE userNb
    /\ changed' = (changed \/ (cut /\ u \in registered))
    /\ invite' = [invite EXCEPT ![u] = Outside]
    /\ astray' = (astray \/ cut)
    /\ UNCHANGED <<where, id, registered, level, loopVars, diskVars>>

Moves(u, x, cut) == MovesAmong(rooms, u, x, cut)

MayJoin(u, x) ==
    \/ level[u] >= rooms[x].level
    \/ /\ "Closed" \notin rooms[x].flags
       /\ "Invite" \in rooms[x].flags => invite[u] = x

Join(u, x, cut) ==
    /\ Commands(u)
    /\ x \in DOMAIN rooms \ {channel[u]}
    /\ MayJoin(u, x)
    /\ Moves(u, x, cut)

(* Join() holds the channel x while it tells the others in the channel of  *)
(* u, and u himself.  One of them, or u, may be logged out by it, then     *)
(* those who hear of that (K), and x is deleted if it was theirs alone.    *)
(* What JoinChannel() finds in the memory of x is undefined: no channel,   *)
(* and u stays where he is; or what was x, and u is in a channel that is   *)
(* not in the list.  (A build may also stop: there is no state after it.)  *)
JoinFreed(u, x, K) ==
    /\ Commands(u)
    /\ x \in DOMAIN rooms \ {channel[u]}
    /\ MayJoin(u, x)
    /\ K \subseteq Connected /\ K \cap InRoom(channel[u]) # {}
    /\ x \notin DOMAIN RoomsWithoutAll(K)
    /\ AllOut(K)
    /\ invite' = InvitesWithout(K \cup {u})
    /\ \/ /\ rooms' = RoomsWithoutAll(K)
          /\ channel' = ChannelsWithout(K)
          /\ astray' = astray
       \/ /\ rooms' = RoomsWithoutAll(K \cup {u})
          /\ channel' = [ChannelsWithout(K) EXCEPT ![u] = x]
          /\ astray' = TRUE
    /\ UNCHANGED <<userVars, loopVars, diskVars>>

(* A channel of a new name belongs to the group of who joins it.           *)
WithRoom(x, l) == [y \in DOMAIN rooms \cup {x} |->
                     IF y = x THEN NewRoom(l, FALSE) ELSE rooms[y]]

Create(u, x, cut) ==
    /\ Commands(u)
    /\ x \in Id /\ ~Taken(x)
    /\ IF x = channel[u]
         THEN /\ rooms' = WithRoom(x, level[u])
              /\ UNCHANGED <<userVars, state, channel, invite, userNb, changed,
                             loopVars, diskVars, astray>>
         ELSE MovesAmong(WithRoom(x, level[u]), u, x, cut)

Leave(u, cut) ==
    /\ Commands(u)
    /\ channel[u] # Hall
    /\ Moves(u, Hall, cut)

Invite(u, v) ==
    /\ Commands(u) /\ Named(v)
    /\ level[u] >= TellLevel
    /\ v \in Connected
    /\ invite' = [invite EXCEPT ![v] = channel[u]]
    /\ UNCHANGED <<userVars, state, channel, rooms, userNb, changed,
                   loopVars, diskVars, astray>>

CanSee(u, v) ==
    /\ v \in Connected
    /\ \/ channel[u] = channel[v]
       \/ channel[v] \notin DOMAIN rooms
       \/ "Hidden" \notin rooms[channel[v]].flags
       \/ level[u] >= rooms[channel[v]].level

IsUpperUser(u, v) ==
    \/ id[u] = Root
    \/ level[u] >= GuestLevel /\ level[u] > level[v]

Bump(u, v, cut) ==
    /\ Commands(u) /\ Named(v)
    /\ CanSee(u, v) /\ IsUpperUser(u, v)
    /\ channel[v] # Hall
    /\ Moves(v, Hall, cut)

Quit(u) ==
    /\ Commands(u)
    /\ LoggedOut(u)
    /\ UNCHANGED <<userVars, loopVars, diskVars, astray>>

Kick(u, v) ==
    /\ Commands(u) /\ Named(v)
    /\ CanSee(u, v) /\ IsUpperUser(u, v)
    /\ LoggedOut(v)
    /\ UNCHANGED <<userVars, loopVars, diskVars, astray>>

Kill(u, v) ==
    /\ Commands(u) /\ v \in InList /\ Named(v)
    /\ id[u] = Root
    /\ IF v \in Connected THEN Ended(v) ELSE UNCHANGED <<state, channel, invite, rooms, userNb>>
    /\ registered' = registered \ {v}
    /\ changed' = TRUE
    /\ UNCHANGED <<where, id, level, loopVars, diskVars, astray>>

Register(u) ==
    /\ Commands(u)
    /\ u \notin registered
    /\ registered' = registered \cup {u}
    /\ level' = [level EXCEPT ![u] = RegisterLevel]
    /\ changed' = TRUE
    /\ UNCHANGED <<where, id, invite, state, channel, rooms, userNb,
                   loopVars, diskVars, astray>>

SetGroup(u, v, l) ==
    /\ Commands(u) /\ v \in InList \ {u} /\ Named(v)
    /\ IsUpperUser(u, v)
    /\ v \in registered
    /\ level[u] > l \/ (level[u] = l /\ id[u] = Root)
    /\ level' = [level EXCEPT ![v] = l]
    /\ changed' = TRUE
    /\ UNCHANGED <<where, id, registered, invite, state, channel, rooms, userNb,
                   loopVars, diskVars, astray>>

Renamed(v) == changed' = (changed \/ v \in registered)

SetUserId(u, v, i) ==
    /\ Commands(u) /\ v \in InList /\ Named(v)
    /\ id[u] = Root
    /\ ~Taken(i)
    /\ id' = [id EXCEPT ![v] = i]
    /\ Renamed(v)
    /\ UNCHANGED <<where, registered, level, invite, state, channel, rooms, userNb,
                   loopVars, diskVars, astray>>

(* "set" and "switch" of a channel.  Bound of the model: nobody touches    *)
(* the hall; without it the next login stops the server.                   *)
Rules(u, x) ==
    /\ Commands(u)
    /\ x \in DOMAIN rooms \ {Hall}
    /\ level[u] >= rooms[x].level

(* Who is in a channel keeps the name it had before.                       *)
SetChannelId(u, x, i) ==
    /\ Rules(u, x)
    /\ ~Taken(i)
    /\ rooms' = [y \in (DOMAIN rooms \ {x}) \cup {i} |-> rooms[IF y = i THEN x ELSE y]]
    /\ astray' = (astray \/ rooms[x].count > 0)
    /\ UNCHANGED <<userVars, state, channel, invite, userNb, changed, loopVars, diskVars>>

SetChannelGroup(u, x, l) ==
    /\ Rules(u, x)
    /\ l <= level[u]
    /\ rooms' = [rooms EXCEPT ![x].level = l]
    /\ UNCHANGED <<userVars, state, channel, invite, userNb, changed, loopVars, diskVars, astray>>

SetFlag(u, x, f) ==
    /\ Rules(u, x)
    /\ rooms' = [rooms EXCEPT ![x].flags = IF f \in @ THEN @ \ {f} ELSE @ \cup {f}]
    /\ UNCHANGED <<userVars, state, channel, invite, userNb, changed, loopVars, diskVars, astray>>

SetResident(u, x) ==
    /\ Rules(u, x)
    /\ rooms' = IF rooms[x].count = 0 /\ rooms[x].resident
                  THEN [y \in DOMAIN rooms \ {x} |-> rooms[y]]
                  ELSE [rooms EXCEPT ![x].resident = ~@]
    /\ UNCHANGED <<userVars, state, channel, invite, userNb, changed, loopVars, diskVars, astray>>

-----------------------------------------------------------------------------
(* RestartServer(), the handler of a signal: everybody who has logged in   *)
(* is sent away.  Between two lines, here.                                 *)
Signal ==
    /\ ~leaving
    /\ leaving' = TRUE
    /\ moved' \in BOOLEAN
    /\ AllOut(Connected)
    /\ rooms' = RoomsWithoutAll(Connected)
    /\ channel' = ChannelsWithout(Connected)
    /\ invite' = InvitesWithout(Connected)
    /\ UNCHANGED <<userVars, phase, diskVars, astray>>

(* The end of Server() and the next turn of the loop of main(): all is     *)
(* read again.  What was changed since the database was last written is    *)
(* lost, and so are the objects whose connections are still open.          *)
Restart(place) ==
    LET lost == {u \in Object : state[u] # "NOT_LOGGED"}
        old(u) == CHOOSE r \in disk.accounts : place[r] = u
        new == {place[r] : r \in disk.accounts}
    IN  /\ phase = "users"
        /\ leaving
        /\ new \cap lost = {}
        /\ \A r, s \in disk.accounts : place[r] = place[s] => r = s
        /\ phase' = "reading"
        /\ leaving' = FALSE
        /\ where' = [u \in Object |-> IF u \in lost THEN "lost"
                                      ELSE IF u \in new THEN "list" ELSE "none"]
        /\ registered' = new
        /\ id' = [u \in Object |-> IF u \in new THEN old(u).id ELSE id[u]]
        /\ level' = [u \in Object |-> IF u \in new THEN old(u).level ELSE level[u]]
        /\ rooms' = StartRooms
        /\ userNb' = 0
        /\ userNbMax' = disk.max
        /\ changed' = FALSE
        /\ astray' = (astray \/ \E u \in lost : state[u] = "LOGGED")
        /\ UNCHANGED <<invite, state, channel, disk, moved>>

Next ==
    \/ \E u \in Object : \/ AddConn(u) \/ HangUp(u) \/ Overflow(u)
                         \/ NoAccount(u) \/ Quit(u) \/ Register(u)
    \/ \E u \in Object, i \in Id : LoginName(u, i)
    \/ \E u \in Object, i \in Id, cut \in BOOLEAN :
         LoginNew(u, i, cut) \/ Join(u, i, cut) \/ Create(u, i, cut)
    \/ \E u \in Object, x \in Id, K \in SUBSET Object : JoinFreed(u, x, K)
    \/ \E u \in Object, b \in BOOLEAN : WrongPassword(u, b) \/ Leave(u, b)
    \/ \E u, v \in Object : Invite(u, v) \/ Kick(u, v) \/ Kill(u, v)
    \/ \E u, v \in Object, cut \in BOOLEAN : RightPassword(u, v, cut) \/ Bump(u, v, cut)
    \/ \E u, v \in Object, l \in Level : SetGroup(u, v, l)
    \/ \E u, v \in Object, i \in Id : SetUserId(u, v, i)
    \/ \E u \in Object, x, i \in Id : SetChannelId(u, x, i)
    \/ \E u \in Object, x \in Id, l \in Level : SetChannelGroup(u, x, l)
    \/ \E u \in Object, x \in Id, f \in Flag : SetFlag(u, x, f)
    \/ \E u \in Object, x \in Id : SetResident(u, x)
    \/ Reap \/ PendingDone \/ UsersDone \/ Signal
    \/ \E place \in [disk.accounts -> Object] : Restart(place)

Spec == Init /\ [][Next]_vars

-----------------------------------------------------------------------------
Room == [count : Nat, level : Level, flags : SUBSET Flag, resident : BOOLEAN]

TypeOK ==
    /\ phase \in {"reading", "pending", "users"}
    /\ where \in [Object -> {"none", "pending", "list", "lost"}]
    /\ id \in [Object -> Id \cup {Nobody}]
    /\ state \in [Object -> {"NOT_LOGGED", "LOGIN", "PASSWORD", "LOGGED"}]
    /\ registered \subseteq Object
    /\ level \in [Object -> Level]
    /\ channel \in [Object -> Id \cup {Outside}]
    /\ invite \in [Object -> Id \cup {Outside}]
    /\ DOMAIN rooms \subseteq Id
    /\ rooms \in [DOMAIN rooms -> Room]
    /\ userNb \in Int /\ userNbMax \in Nat
    /\ disk \in [accounts : SUBSET [id : Id, level : Level], max : Nat]
    /\ changed \in BOOLEAN /\ moved \in BOOLEAN /\ leaving \in BOOLEAN
    /\ astray \in BOOLEAN

(* The numbers agree with the people: each channel counts who is in it,    *)
(* and is there as long as somebody is or it is resident; the server       *)
(* counts who is connected; and everybody connected is in a channel.       *)
RoomsAgree ==
    ~astray =>
      /\ userNb = Cardinality(Connected)
      /\ \A u \in Connected : channel[u] \in DOMAIN rooms
      /\ \A x \in DOMAIN rooms :
           /\ rooms[x].count = Cardinality(InRoom(x))
           /\ rooms[x].count > 0 \/ rooms[x].resident

(* What the run checks of the numbers and of the types.                    *)
RoomsInv == TypeOK /\ RoomsAgree

(* A name is that of one account, one user or one channel.                 *)
DistinctNames ==
    ~astray =>
      /\ \A u, v \in Connected \cup Accounts : id[u] = id[v] => u = v
      /\ \A u \in Connected \cup Accounts : id[u] \notin DOMAIN rooms

(* The database, when no change is flagged, holds the accounts that there  *)
(* are, each with its group, and the record number of users; and always,   *)
(* unless something went astray, each account once.                        *)
DiskAgrees ==
    /\ ~changed => disk = [accounts |-> Saved, max |-> userNbMax]
    /\ ~astray => \A r, s \in disk.accounts : r.id = s.id => r = s

(* And no round of the loop goes by without it: what there is when the     *)
(* objects have been removed is then in the database, flagged before or    *)
(* unchanged since it was last written.  (Proved; it follows from the      *)
(* first half of DiskAgrees, which the run checks.)                        *)
EachRoundSaves ==
    [][Reap => disk' = [accounts |-> Saved', max |-> userNbMax']]_vars
=============================================================================
