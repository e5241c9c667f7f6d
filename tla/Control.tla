------------------------------ MODULE Control ------------------------------
(***************************************************************************)
(* What a player may do during a session: opening and closing the ball,    *)
(* the limit on it, being frozen, crashing, falling into the water; and    *)
(* who is seen open by whom.                                               *)
(*                                                                         *)
(* No message says that an entity is open or closed: OpenClose tells the   *)
(* clients to switch it, a client closes everybody when it loads the level *)
(* that StartSession names, and closes by itself whom it shows falling     *)
(* into the water.  So what a client shows depends on every switch since   *)
(* it loaded the level, and on what it did in between.                     *)
(*                                                                         *)
(* The phases are those of Session, which says when they follow one        *)
(* another; here they may follow at any time.  As in Mirror, the clients   *)
(* read a message in the step that sends it: they answer none of these but *)
(* StartSession, and load a level when they like.  Positions are left out: *)
(* a client may show an entity entering the water at any time.             *)
(***************************************************************************)
EXTENDS Integers, FiniteSets

CONSTANTS
    Client,        \* the players that may log in
    Bot,           \* the bots the server may add
    MaxOpenClose,  \* DefaultMaxOpenClose: the switches of a session
    MaxReplay,     \* bound: the switches in the replay of a bot
    Level,         \* which Lua the levels have: "default", "extra_ball"
    ReadsOpen      \* version 6: a client reads the state that Login carries

ASSUME ControlAssumption ==
    /\ Client \cap Bot = {}
    /\ MaxOpenClose \in Nat /\ MaxReplay \in Nat
    /\ Level \subseteq {"default", "extra_ball"}
    /\ ReadsOpen \in BOOLEAN

Entity == Client \cup Bot
Phase  == {"WaitingClients", "WaitingReady", "WaitingStart", "Running",
           "Ending"}

VARIABLES
    phase,         \* the current session state
    due,           \* the start time is set and has come
    level,         \* the level's Lua, "none" without a level
    players,       \* the clients that are connected ...
    networkReady,  \* ... and those of them that have logged in
    bots,          \* the bots there are
    open,          \* CEntity::OpenClose
    nbOpenClose,   \* CEntity::NbOpenClose
    frozen,        \* CEntity::FreezeCommand
    inGame,        \* CEntity::InGame
    onTheWater,    \* CEntity::OnTheWater
    spectator,     \* CEntity::Spectator
    crashDisabled, \* the negation of CEntity::EnableCrashInFly
    replay,        \* CBot::Commands: the switches that are left
    newSession,    \* the clients that have a level to load
    sees,          \* for each client, the entities it shows open
    wrong          \* history: for each client, the entities that it came to
                   \* show the wrong way round by what it did itself: by
                   \* logging in or loading late, or in the water

sessionVars == <<phase, due, level>>
clientVars  == <<newSession, sees, wrong>>
gameVars    == <<inGame, onTheWater, spectator, crashDisabled>>
rosterVars  == <<players, networkReady, bots>>
entityVars  == <<rosterVars, open, nbOpenClose, frozen, gameVars, replay>>
vars == <<sessionVars, entityVars, clientVars>>

-----------------------------------------------------------------------------
entities == players \cup bots

(* The guard of cbOpenClose() and setForce() on the session's times.       *)
InSession == phase \in {"WaitingStart", "Running"} /\ due

(* startTime() is 0.                                                       *)
NoStartTime == phase \in {"WaitingClients", "WaitingReady"}

TypeOK ==
    /\ phase \in Phase /\ due \in BOOLEAN
    /\ level \in Level \cup {"none"}
    /\ players \subseteq Client /\ bots \subseteq Bot
    /\ open \subseteq entities
    /\ nbOpenClose \in [Entity -> 0 .. MaxOpenClose]
    /\ frozen \subseteq entities /\ inGame \subseteq entities
    /\ onTheWater \subseteq entities /\ spectator \subseteq entities
    /\ crashDisabled \subseteq entities
    /\ replay \in [Bot -> 0 .. MaxReplay]
    /\ networkReady \subseteq players
    /\ newSession \subseteq networkReady
    /\ sees \in [Client -> SUBSET entities]
    /\ wrong \in [Client -> SUBSET entities]

Init ==
    /\ phase = "WaitingClients" /\ due = FALSE /\ level = "none"
    /\ players = {} /\ networkReady = {} /\ bots = {} /\ open = {}
    /\ nbOpenClose = [e \in Entity |-> 0]
    /\ frozen = {} /\ inGame = {} /\ onTheWater = {}
    /\ spectator = {} /\ crashDisabled = {}
    /\ replay = [b \in Bot |-> 0]
    /\ newSession = {}
    /\ sees = [c \in Client |-> {}]
    /\ wrong = [c \in Client |-> {}]

-----------------------------------------------------------------------------
(* Arrivals and departures.                                                *)

(* addClient(): a client is frozen and a spectator until the next launch,  *)
(* or until the start of the game that it has come in time for.            *)
Connect(c) ==
    /\ c \in Client \ players
    /\ players' = players \cup {c}
    /\ frozen' = frozen \cup {c}
    /\ spectator' = spectator \cup {c}
    /\ UNCHANGED <<sessionVars, networkReady, bots, open, nbOpenClose, inGame,
                   onTheWater, crashDisabled, replay, clientVars>>

(* login(): it is told who is open, which version 5 does not read.         *)
Login(c) ==
    /\ c \in players \ networkReady
    /\ networkReady' = networkReady \cup {c}
    /\ sees' = [sees EXCEPT ![c] = IF ReadsOpen THEN open ELSE {}]
    /\ wrong' = [wrong EXCEPT ![c] = IF ReadsOpen THEN {} ELSE open]
    /\ UNCHANGED <<sessionVars, players, bots, open, nbOpenClose, frozen,
                   gameVars, replay, newSession>>

AddBot(b) ==
    /\ b \in Bot \ bots
    /\ bots' = bots \cup {b}
    /\ frozen' = frozen \cup {b}
    /\ UNCHANGED <<sessionVars, players, networkReady, open, nbOpenClose,
                   gameVars, replay, clientVars>>

(* remove(): the clients forget the entity, open or not.                   *)
Remove(e) ==
    /\ e \in entities
    /\ players' = players \ {e} /\ bots' = bots \ {e}
    /\ networkReady' = networkReady \ {e}
    /\ open' = open \ {e} /\ frozen' = frozen \ {e}
    /\ inGame' = inGame \ {e} /\ onTheWater' = onTheWater \ {e}
    /\ spectator' = spectator \ {e} /\ crashDisabled' = crashDisabled \ {e}
    /\ nbOpenClose' = [nbOpenClose EXCEPT ![e] = 0]
    /\ replay' = [b \in Bot |-> IF b = e THEN 0 ELSE replay[b]]
    /\ newSession' = newSession \ {e}
    /\ sees' = [c \in Client |-> IF c = e THEN {} ELSE sees[c] \ {e}]
    /\ wrong' = [c \in Client |-> IF c = e THEN {} ELSE wrong[c] \ {e}]
    /\ UNCHANGED sessionVars

-----------------------------------------------------------------------------
(* The session, as far as it changes what the players may do.              *)

(* The bots carry out what is left of their replays before the session     *)
(* manager is updated, as no start time is set any more.                   *)
Unfinished == {b \in bots : replay[b] > 0}

LeaveOpen  == UNCHANGED open                                    \* a mutant
CloseAll   == open' = {}
RestartAll == nbOpenClose' = [e \in Entity |-> 0]

(* The launch resets the entities (newLevel() calls their reset(), too)    *)
(* and sends StartSession to those who have logged in.                     *)
Launch ==
    /\ phase = "WaitingClients" /\ players # {} /\ Unfinished = {}
    /\ phase' = "WaitingReady"
    /\ level' \in Level
    /\ CloseAll /\ RestartAll
    /\ frozen' = {} /\ inGame' = {} /\ onTheWater' = {}
    /\ spectator' = {} /\ crashDisabled' = {}
    /\ newSession' = networkReady
    /\ wrong' = [c \in Client |-> {}]
    /\ UNCHANGED <<due, rosterVars, replay, sees>>

(* The level is released when there is nobody to play.                     *)
Release ==
    /\ phase = "WaitingClients" /\ players = {} /\ level # "none"
    /\ level' = "none"
    /\ UNCHANGED <<phase, due, entityVars, clientVars>>

(* Entity:init() of the level, and the bots' replays: as many switches as  *)
(* their player asked for, for the refused ones are recorded as well.      *)
Prepare ==
    /\ phase = "WaitingReady"
    /\ phase' = "WaitingStart" /\ due' = FALSE
    /\ crashDisabled' = IF level = "extra_ball" THEN entities
                        ELSE crashDisabled
    /\ replay' \in [Bot -> 0 .. MaxReplay]
    /\ \A b \in Bot \ bots : replay'[b] = 0
    /\ UNCHANGED <<level, rosterVars, open, nbOpenClose, frozen, inGame,
                   onTheWater, spectator, clientVars>>

StartTimeComes ==
    /\ phase \in {"WaitingStart", "Running"} /\ ~due
    /\ due' = TRUE
    /\ UNCHANGED <<phase, level, entityVars, clientVars>>

EnterGame == inGame' = entities

(* With ForceEnding the start time may not have come yet.                  *)
Start ==
    /\ phase = "WaitingStart"
    /\ phase' = "Running"
    /\ EnterGame
    /\ frozen' = {}
    /\ UNCHANGED <<due, level, rosterVars, open, nbOpenClose, onTheWater,
                   spectator, crashDisabled, replay, clientVars>>

Finish ==
    /\ phase = "Running"
    /\ phase' = "Ending"
    /\ UNCHANGED <<due, level, entityVars, clientVars>>

(* reset(), at the end of Ending or from the console.                      *)
BackToLobby ==
    /\ phase # "WaitingClients"
    /\ phase' = "WaitingClients" /\ due' = FALSE
    /\ UNCHANGED <<level, entityVars, clientVars>>

-----------------------------------------------------------------------------
(* The clients, in their own time.                                         *)

Swapped(S, e) == IF e \in S THEN S \ {e} ELSE S \cup {e}

(* loadNewSession() of a client, which closes everybody it shows.          *)
Load(c) ==
    /\ c \in newSession
    /\ newSession' = newSession \ {c}
    /\ sees' = [sees EXCEPT ![c] = {}]
    /\ wrong' = [wrong EXCEPT ![c] = open]
    /\ UNCHANGED <<sessionVars, entityVars>>

(* CEntity::update() of a client closes an entity that it shows coming     *)
(* below the level of the water.  The server is not told, and goes on as   *)
(* before.                                                                 *)
EnterWater(c, e) ==
    /\ c \in networkReady /\ e \in sees[c]
    /\ sees' = [sees EXCEPT ![c] = @ \ {e}]
    /\ wrong' = [wrong EXCEPT ![c] = Swapped(@, e)]
    /\ UNCHANGED <<sessionVars, entityVars, newSession>>

-----------------------------------------------------------------------------
(* Opening and closing.                                                    *)

(* An OpenClose message about e, to every client that has logged in.       *)
TellSome(e) == sees' = [c \in Client |-> IF c \in networkReady \ {e}
                                           THEN Swapped(sees[c], e)
                                           ELSE sees[c]]        \* a mutant
Tell(e) == sees' = [c \in Client |-> IF c \in networkReady
                                       THEN Swapped(sees[c], e)
                                       ELSE sees[c]]

NoLimit(e)   == e \notin frozen                                  \* a mutant
MaySwitch(e) == e \notin frozen /\ nbOpenClose[e] < MaxOpenClose

NoCount(e) == open' = Swapped(open, e) /\ UNCHANGED nbOpenClose \* a mutant
OpenClose(e) ==
    /\ open' = Swapped(open, e)
    /\ nbOpenClose' = [nbOpenClose EXCEPT ![e] = @ + 1]

(* cbOpenClose(): the others are told only if the switch really occurs.    *)
PlayerSwitch(c) ==
    /\ c \in networkReady /\ InSession /\ MaySwitch(c)
    /\ OpenClose(c)
    /\ Tell(c)
    /\ UNCHANGED <<sessionVars, rosterVars, frozen, gameVars, replay,
                   newSession, wrong>>

(* CBot::update() and CEntityManager::openClose(): they are told anyway.   *)
(* The time of a command is compared with the time since the start time,   *)
(* which has long come when it is 0.                                       *)
BotSwitch(b) ==
    /\ b \in bots /\ replay[b] > 0 /\ (NoStartTime \/ due)
    /\ replay' = [replay EXCEPT ![b] = @ - 1]
    /\ \/ MaySwitch(b) /\ OpenClose(b)
       \/ ~MaySwitch(b) /\ UNCHANGED <<open, nbOpenClose>>
    /\ Tell(b)
    /\ UNCHANGED <<sessionVars, rosterVars, frozen, gameVars, newSession,
                   wrong>>

-----------------------------------------------------------------------------
(* What happens to an entity: nearCallback(), and the Lua of the level.    *)

FreezeCrashed(e) == frozen' = frozen \cup {e} /\ inGame' = inGame \ {e}

(* An open entity touches the scene: it is out.                            *)
Crash(e) ==
    /\ e \in open \ crashDisabled
    /\ nbOpenClose' = [nbOpenClose EXCEPT ![e] = MaxOpenClose]
    /\ FreezeCrashed(e)
    /\ UNCHANGED <<sessionVars, rosterVars, open, onTheWater, spectator,
                   crashDisabled, replay, clientVars>>

(* setOpenCloseCount() of the Lua interface takes an odd count for open.   *)
SetOpenCloseCount(e, count) ==
    /\ nbOpenClose' = [nbOpenClose EXCEPT ![e] = count]
    /\ \/ nbOpenClose[e] % 2 # count % 2 /\ Tell(e)
       \/ nbOpenClose[e] % 2 = count % 2 /\ UNCHANGED sees

(* An update() calls no Lua for a spectator.                               *)
Anybody(e)  == level = "extra_ball"                             \* a mutant
HearsLua(e) == level = "extra_ball" /\ e \notin spectator

(* entityWaterCollideEvent() and Module:collide() of "extra_ball": who     *)
(* falls into the water closed, or lands on the target, plays again.       *)
ExtraBall(e) == e \notin open /\ HearsLua(e)

OnTarget(e) ==
    /\ e \in entities /\ ExtraBall(e)
    /\ SetOpenCloseCount(e, 0)
    /\ UNCHANGED <<sessionVars, rosterVars, open, frozen, gameVars, replay,
                   newSession, wrong>>

TouchWater(e) ==
    IF e \in frozen THEN UNCHANGED <<onTheWater, inGame>>
    ELSE /\ onTheWater' = onTheWater \cup {e}
         /\ inGame' = IF e \in open \ crashDisabled THEN inGame \ {e}
                      ELSE inGame

Water(e) ==
    /\ e \in entities
    /\ TouchWater(e)
    /\ IF ExtraBall(e)
         THEN SetOpenCloseCount(e, 0) /\ frozen' = frozen \ {e}
         ELSE UNCHANGED <<nbOpenClose, sees, frozen>>
    /\ UNCHANGED <<sessionVars, rosterVars, open, spectator, crashDisabled,
                   replay, newSession, wrong>>

-----------------------------------------------------------------------------
Session == \/ Launch \/ Release \/ Prepare \/ StartTimeComes
           \/ Start \/ Finish \/ BackToLobby

Next ==
    \/ Session
    \/ \E c \in Client :
         Connect(c) \/ Login(c) \/ Load(c) \/ PlayerSwitch(c)
    \/ \E b \in Bot : AddBot(b) \/ BotSwitch(b)
    \/ \E c \in Client, e \in Entity : EnterWater(c, e)
    \/ \E e \in Entity : Remove(e) \/ Crash(e) \/ OnTarget(e) \/ Water(e)

Spec == Init /\ [][Next]_vars

-----------------------------------------------------------------------------
(* Nobody is open between the launch and the start time, not even a bot    *)
(* whose replay was cut short: whoever loads the level meanwhile is right  *)
(* to show everybody closed.                                               *)
ClosedUntilStart ==
    phase = "WaitingReady" \/ (phase = "WaitingStart" /\ ~due) => open = {}

(* The count of switches tells whether an entity is open, as the Lua       *)
(* interface takes for granted, unless it has reached the limit (a crash   *)
(* sets it there); and an even count is all a closed entity ever has.      *)
CountTellsOpen ==
    \A e \in entities :
      /\ nbOpenClose[e] < MaxOpenClose =>
           (e \in open <=> nbOpenClose[e] % 2 = 1)
      /\ e \notin open => nbOpenClose[e] % 2 = 0

(* Nobody in the game is frozen.                                           *)
InGameCanMove == inGame \cap frozen = {}

(* A player leaves a running game by crashing or on the water only.        *)
PlayersAreInGame ==
    phase = "Running" => players \subseteq inGame \cup frozen \cup onTheWater

(* A client in the level shows every player as it is, but for those it     *)
(* came to show the wrong way round by itself: no message, crash, extra    *)
(* ball or departure turns a view that is right, and none puts right one   *)
(* that is wrong.                                                          *)
ViewsAgree ==
    \A c \in networkReady \ newSession, e \in players :
       (e \in sees[c] <=> e \in open) <=> e \notin wrong[c]

(* Who is not there has nothing left of an earlier stay.                   *)
AbsentAreReset ==
    /\ \A e \in Entity \ entities : nbOpenClose[e] = 0
    /\ \A b \in Bot \ bots : replay[b] = 0

(* While the clients load the level no bot has anything left to replay.    *)
NoReplayLeft == phase = "WaitingReady" => \A b \in Bot : replay[b] = 0

(* A player who is frozen in a running game has crashed, and so is open,   *)
(* or came too late and is a spectator.                                    *)
FrozenForCause ==
    phase = "Running" => frozen \cap players \subseteq open \cup spectator

(* The inductive invariant of the control of the penguins.                 *)
Inv ==
    /\ TypeOK
    /\ AbsentAreReset
    /\ NoReplayLeft
    /\ ClosedUntilStart
    /\ CountTellsOpen
    /\ InGameCanMove
    /\ FrozenForCause
    /\ PlayersAreInGame
    /\ ViewsAgree

(* A player who is frozen during a running game stays frozen: no extra     *)
(* ball for one who has crashed or has come too late.                      *)
OutStaysOut ==
    [][ phase = "Running" /\ phase' = "Running" =>
          frozen \cap players \cap players' \subseteq frozen' ]_vars

(* What CEntityManager::openClose() says it does, "send the new state to   *)
(* all entities", would give: the bots, too, are shown as they are.        *)
BotViewsAgree ==
    \A c \in networkReady \ newSession : \A b \in bots \ wrong[c] :
       b \in sees[c] <=> b \in open
=============================================================================
