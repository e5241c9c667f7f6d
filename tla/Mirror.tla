------------------------------- MODULE Mirror -------------------------------
(***************************************************************************)
(* What every client sees of the other entities: the identifiers the       *)
(* server gives out, the Login and Logout messages that make an entity     *)
(* known to a client, and the three messages that carry the positions.     *)
(*                                                                         *)
(* FullUpdate names each entity and its position.  Update and UpdateOne    *)
(* carry only differences and no names: the differences of an Update are   *)
(* in the order of IdUpdateList, and the client gives them out to the      *)
(* entities it knows, in the order of their identifiers.  It is right only *)
(* as long as the server and the client know the same entities.            *)
(*                                                                         *)
(* The messages of one connection are delivered in order and a client      *)
(* answers none of those modelled here, so what a client knows when it     *)
(* reads a message depends only on the messages before it: the model lets  *)
(* the clients read each message in the step that sends it.                *)
(***************************************************************************)
EXTENDS Integers, FiniteSets

CONSTANTS
    Client,         \* the players that may connect
    Bot,            \* the bots the server may add
    MaxId,          \* the last identifier findNewId() gives out, 254
    MaxPlace,       \* bound: positions are 0 .. MaxPlace on a line
    MinDelta,       \* MinDeltaToSendFullUpdate
    FullPeriod,     \* MT_NETWORK_FULL_UPDATE_PERIODE
    Ratio,          \* MT_NETWORK_MY_UPDATE_FREQUENCE_RATIO
    NbMaxClients,   \* no bot is added, and no login accepted, beyond it
    DisableNetworkOptimization,  \* every update is a FullUpdate
    Nobody          \* what a client has at an identifier it does not know

Entity == Client \cup Bot
Id     == 0 .. MaxId
Place  == 0 .. MaxPlace

ASSUME MirrorAssumption ==
    /\ IsFiniteSet(Client) /\ IsFiniteSet(Bot)
    /\ Client \cap Bot = {}
    /\ Nobody \notin Entity
    /\ MaxId \in Nat /\ MaxPlace \in Nat /\ MinDelta \in Nat
    /\ Ratio \in Nat \ {0}
    /\ FullPeriod \in Nat \ {0} /\ FullPeriod % Ratio = 0
    /\ NbMaxClients \in Nat
    /\ DisableNetworkOptimization \in BOOLEAN

VARIABLES
    entities,     \* the entities of the server
    idOf,         \* CEntity::Id, 0 when the entity is not there
    networkReady, \* the clients that have logged in
    updateIds,    \* CEntityManager::IdUpdateList, which is in ascending order
    updateCount,  \* CNetwork::updateCount, modulo FullPeriod
    toOthers,     \* CEntity::LastSent2OthersPos, on the server
    toMe,         \* CEntity::LastSent2MePos, on the server
    knows,        \* for each client, the entity it knows at an identifier
    seen,         \* for each client, LastSent2OthersPos at an identifier
    seenMe,       \* for each client, LastSent2MePos of its own entity
    synced,       \* history: identifiers with a FullUpdate since their Login
    disturbed     \* history: a pending client came in the way (see below)

serverVars == <<entities, idOf, networkReady, updateIds>>
sentVars   == <<updateCount, toOthers, toMe>>
viewVars   == <<knows, seen, seenMe, synced>>
vars == <<serverVars, sentVars, viewVars, disturbed>>

-----------------------------------------------------------------------------
(* A client that has connected but not logged in has no name yet.          *)
Named   == networkReady \cup (entities \cap Bot)
Pending == entities \ Named

IdsOf(S) == {idOf[e] : e \in S}

Known(c) == {i \in Id : knows[c][i] # Nobody}

TypeOK ==
    /\ entities \subseteq Entity
    /\ idOf \in [Entity -> Id]
    /\ networkReady \subseteq entities \cap Client
    /\ updateIds \subseteq Id
    /\ updateCount \in 0 .. FullPeriod - 1
    /\ toOthers \in [Entity -> Place]
    /\ toMe \in [Client -> Place]
    /\ knows \in [Client -> [Id -> Entity \cup {Nobody}]]
    /\ seen \in [Client -> [Id -> Place]]
    /\ seenMe \in [Client -> Place]
    /\ synced \in [Client -> SUBSET Id]
    /\ disturbed \in BOOLEAN

Init ==
    /\ entities = {}
    /\ idOf = [e \in Entity |-> 0]
    /\ networkReady = {}
    /\ updateIds = {}
    /\ updateCount = 0
    /\ toOthers = [e \in Entity |-> 0]
    /\ toMe = [c \in Client |-> 0]
    /\ knows = [c \in Client |-> [i \in Id |-> Nobody]]
    /\ seen = [c \in Client |-> [i \in Id |-> 0]]
    /\ seenMe = [c \in Client |-> 0]
    /\ synced = [c \in Client |-> {}]
    /\ disturbed = FALSE

-----------------------------------------------------------------------------
(* Arrivals and departures.                                                *)

(* findNewId(): the lowest identifier that no entity has.                  *)
FreeIds == Id \ IdsOf(entities)

CountAsId == Cardinality(entities)                              \* a mutant
NewId     == CHOOSE i \in FreeIds : \A j \in FreeIds : i <= j

Add(e) ==
    /\ FreeIds # {}
    /\ entities' = entities \cup {e}
    /\ idOf' = [idOf EXCEPT ![e] = NewId]

(* updateIdUpdateList(), from the entities there are now.                  *)
KeepIdUpdateList == UNCHANGED updateIds                         \* a mutant
UpdateIdUpdateList == updateIds' = {idOf'[e] : e \in entities'}

(* A Login message about e, at the identifier i, makes it known to the     *)
(* clients of C.                                                           *)
TellAll(C, e, i) ==
    [c \in Client |-> IF c \in C THEN [knows[c] EXCEPT ![i] = e] ELSE knows[c]]

Forget(C, i) ==
    [c \in Client |-> IF c \in C THEN synced[c] \ {i} ELSE synced[c]]

(* cbConnection and addClient(): nobody is told, and the list of           *)
(* identifiers is left as it is.                                           *)
Connect(c) ==
    /\ c \notin entities
    /\ Add(c)
    /\ UNCHANGED <<networkReady, updateIds, sentVars, viewVars, disturbed>>

(* login() of a client: the others are told of it, and it of itself and of *)
(* every other entity, those without a name included.                      *)
Roster == [i \in Id |-> IF i \in IdsOf(entities)
                          THEN CHOOSE e \in entities : idOf[e] = i
                          ELSE Nobody]

Login(c) ==
    /\ c \in Pending
    /\ Cardinality(entities) <= NbMaxClients
    /\ knows' = [TellAll(networkReady, c, idOf[c]) EXCEPT ![c] = Roster]
    /\ synced' = [Forget(networkReady, idOf[c]) EXCEPT ![c] = {}]
    /\ networkReady' = networkReady \cup {c}
    /\ disturbed' = (disturbed \/ Pending # {c})
    /\ UNCHANGED <<entities, idOf>>
    /\ UpdateIdUpdateList
    /\ UNCHANGED <<sentVars, seen, seenMe>>

(* addBot(): login() of a bot.                                             *)
AddBot(b) ==
    /\ b \in Bot \ entities
    /\ Cardinality(entities) < NbMaxClients
    /\ Add(b)
    /\ knows' = TellAll(networkReady, b, idOf'[b])
    /\ synced' = Forget(networkReady, idOf'[b])
    /\ disturbed' = (disturbed \/ Pending # {})
    /\ UpdateIdUpdateList
    /\ UNCHANGED <<networkReady, sentVars, seen, seenMe>>

(* remove(): the clients are told with a Logout, unless the entity has no  *)
(* name.  IdUpdateList keeps its identifier until the next login().        *)
NoLogout(e) == UNCHANGED knows                                  \* a mutant
LogoutSent(e) ==
    knows' = [c \in Client |->
                IF c = e THEN [i \in Id |-> Nobody]
                ELSE IF c \in networkReady /\ e \in Named
                  THEN [knows[c] EXCEPT ![idOf[e]] = Nobody]
                  ELSE knows[c]]

StillReady(e) == UNCHANGED networkReady                         \* a mutant
LogOut(e)     == networkReady' = networkReady \ {e}

Remove(e) ==
    /\ e \in entities
    /\ entities' = entities \ {e}
    /\ idOf' = [idOf EXCEPT ![e] = 0]
    /\ LogOut(e)
    /\ LogoutSent(e)
    /\ synced' = [c \in Client |->
                    IF c = e THEN {}
                    ELSE IF c \in networkReady THEN synced[c] \ {idOf[e]}
                    ELSE synced[c]]
    /\ toOthers' = [toOthers EXCEPT ![e] = 0]
    /\ toMe' = [c \in Client |-> IF c = e THEN 0 ELSE toMe[c]]
    /\ seen' = [c \in Client |-> IF c = e THEN [i \in Id |-> 0] ELSE seen[c]]
    /\ seenMe' = [c \in Client |-> IF c = e THEN 0 ELSE seenMe[c]]
    /\ UNCHANGED <<updateIds, updateCount, disturbed>>

-----------------------------------------------------------------------------
(* CNetwork::update().  "place" is where the physics has put the entities. *)

Placement == [entities -> Place]

Distance(m, n) == IF m < n THEN n - m ELSE m - n

(* An entity that is too far from where it was last sent to be brings the  *)
(* next FullUpdate forward.                                                *)
CountGoesOn(place) == updateCount                               \* a mutant
CountNow(place) ==
    IF \E e \in entities : Distance(place[e], toOthers[e]) > MinDelta
      THEN 0 ELSE updateCount

FirstOnly(place) == updateCount' = IF CountNow(place) + 1 = FullPeriod
                                     THEN Ratio
                                     ELSE CountNow(place) + 1   \* a mutant
NextCount(place) == updateCount' = (CountNow(place) + 1) % FullPeriod

(* The differences are packed into a few bits, rounded towards zero, and   *)
(* the server keeps for later what the rounding leaves out.                *)
RoundedFrom(last, n) == {p \in Place : \/ last <= p /\ p <= n
                                       \/ n <= p /\ p <= last}

(* What an entity is sent to be: named by its identifier.                  *)
EntityAt(i) == CHOOSE e \in entities : idOf[e] = i

IsFull(place) == CountNow(place) = 0 \/ DisableNetworkOptimization

FullUpdate(place) ==
    /\ IsFull(place)
    /\ NextCount(place)
    /\ toOthers' = [e \in Entity |-> IF e \in entities THEN place[e]
                                     ELSE toOthers[e]]
    /\ toMe' = [c \in Client |-> IF c \in entities THEN place[c] ELSE toMe[c]]
    /\ seen' = [c \in Client |->
                  [i \in Id |-> IF /\ c \in networkReady
                                   /\ i \in Known(c) \cap IdsOf(entities)
                                  THEN place[EntityAt(i)]
                                  ELSE seen[c][i]]]
    /\ seenMe' = [c \in Client |-> IF c \in networkReady THEN place[c]
                                   ELSE seenMe[c]]
    /\ synced' = [c \in Client |->
                    IF c \in networkReady THEN Known(c) \cap IdsOf(entities)
                    ELSE synced[c]]
    /\ UNCHANGED <<serverVars, knows, disturbed>>

(* Bound: a client that gives a difference to the wrong entity may take it *)
(* off the line.                                                           *)
Clip(n) == IF n < 0 THEN 0 ELSE IF n > MaxPlace THEN MaxPlace ELSE n

(* cbUpdate: the n-th difference goes to the n-th entity the client knows. *)
Rank(i, S) == Cardinality({j \in S : j < i})

SentIds == updateIds \cap IdsOf(entities)

Receive(c, i) ==
    LET mine == {u \in SentIds : Rank(u, SentIds) = Rank(i, Known(c))}
    IN  IF c \in networkReady /\ i \in Known(c) /\ mine # {}
          THEN LET e == EntityAt(CHOOSE u \in mine : TRUE)
               IN  Clip(seen[c][i] + toOthers'[e] - toOthers[e])
          ELSE seen[c][i]

Update(place) ==
    /\ ~IsFull(place)
    /\ CountNow(place) % Ratio = 0
    /\ NextCount(place)
    /\ toOthers' \in [Entity -> Place]
    /\ \A e \in Entity :
         IF e \in entities /\ idOf[e] \in updateIds
           THEN toOthers'[e] \in RoundedFrom(toOthers[e], place[e])
           ELSE toOthers'[e] = toOthers[e]
    /\ toMe' = [c \in Client |->
                  IF c \in entities /\ idOf[c] \in updateIds THEN toOthers'[c]
                  ELSE toMe[c]]
    /\ seen' = [c \in Client |-> [i \in Id |-> Receive(c, i)]]
    /\ seenMe' = [c \in Client |-> IF c \in networkReady THEN seen'[c][idOf[c]]
                                   ELSE seenMe[c]]
    /\ disturbed' = (disturbed \/ \E e \in Pending : idOf[e] \in updateIds)
    /\ UNCHANGED <<serverVars, knows, synced>>

(* UpdateOne: every client is sent its own difference, if it has logged in *)
(* (send() drops the message otherwise, after LastSent2MePos is computed). *)
UpdateOne(place) ==
    /\ ~IsFull(place)
    /\ CountNow(place) % Ratio # 0
    /\ NextCount(place)
    /\ toMe' \in [Client -> Place]
    /\ \A c \in Client :
         IF c \in entities THEN toMe'[c] \in RoundedFrom(toMe[c], place[c])
         ELSE toMe'[c] = toMe[c]
    /\ seenMe' = [c \in Client |->
                    IF c \in networkReady /\ idOf[c] \in Known(c)
                      THEN Clip(seenMe[c] + toMe'[c] - toMe[c])
                      ELSE seenMe[c]]
    /\ UNCHANGED <<serverVars, toOthers, knows, seen, synced, disturbed>>

(* CNetwork::reset(), when a level is launched.                            *)
Reset ==
    /\ updateCount' = 0
    /\ UNCHANGED <<serverVars, toOthers, toMe, viewVars, disturbed>>

NetworkUpdate(place) == FullUpdate(place) \/ Update(place) \/ UpdateOne(place)

Next ==
    \/ \E c \in Client : Connect(c) \/ Login(c)
    \/ \E b \in Bot : AddBot(b)
    \/ \E e \in Entity : Remove(e)
    \/ Reset
    \/ \E place \in Placement : NetworkUpdate(place)

Spec == Init /\ [][Next]_vars

(* The main loop calls CNetwork::update() for ever.                        *)
FairSpec == Spec /\ WF_vars(\E place \in Placement : NetworkUpdate(place))

-----------------------------------------------------------------------------
(* No two entities of the server have the same identifier.                 *)
DistinctIds == \A e, f \in entities : idOf[e] = idOf[f] => e = f

(* Every client that has logged in knows every entity that has, and every  *)
(* bot, under the right identifier.                                        *)
NamedAreKnown ==
    \A c \in networkReady : \A e \in Named : knows[c][idOf[e]] = e

(* Unless a pending client came in the way, a client knows nobody else: no *)
(* entity that has left and none that has not logged in.                   *)
OnlyNamedAreKnown ==
    ~disturbed => \A c \in networkReady : Known(c) = IdsOf(Named)

(* Server and clients agree on who is there: Login and Logout make up, on  *)
(* each client, the list the server has.                                   *)
RosterAgrees == NamedAreKnown /\ OnlyNamedAreKnown

(* The roster as a whole, which every step of the model keeps.             *)
RosterInv == TypeOK /\ DistinctIds /\ RosterAgrees

(* Once it has had a FullUpdate of an entity, a client adds each difference *)
(* to the position it was taken from: through arrivals, departures and     *)
(* identifiers given out again, its view stays in step with the server.    *)
InStep ==
    ~disturbed =>
      \A c \in networkReady :
        /\ \A e \in Named :
             idOf[e] \in synced[c] => seen[c][idOf[e]] = toOthers[e]
        /\ idOf[c] \in synced[c] => seenMe[c] = toMe[c]

(* After each update a client sees no entity farther than MinDelta from    *)
(* where it is.                                                            *)
SeenNearby ==
    [][ \A place \in Placement :
          NetworkUpdate(place) /\ ~disturbed' =>
            \A c \in networkReady, e \in Named :
              idOf[e] \in synced'[c] =>
                Distance(seen'[c][idOf[e]], place[e]) <= MinDelta ]_vars

(* A client that stays is eventually sent the position of every entity     *)
(* that stays, however little that entity moves.                           *)
ViewsCatchUp ==
    \A c \in Client, e \in Entity :
      <>[](c \in networkReady /\ e \in Named) => <>[](idOf[e] \in synced[c])

(* What the client program asserts when it reads a Login, and the server   *)
(* does not ensure: it did not know the entity already.                    *)
LoginOfUnknown ==
    [][ \A c \in networkReady, e \in Entity :
          e \in Named' \ Named /\ c # e => knows[c][idOf'[e]] = Nobody ]_vars
=============================================================================
