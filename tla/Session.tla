------------------------------ MODULE Session ------------------------------
(***************************************************************************)
(* The game session of one mtp-target server: the five states of           *)
(* CSessionManager, the entities (players and bots) of CEntityManager as   *)
(* far as the session depends on them, and the network handlers that touch *)
(* either.                                                                 *)
(*                                                                         *)
(* The server is one loop: it reads the sockets (every callback of the     *)
(* network runs to completion there), runs the physics, updates the        *)
(* entities and calls update() on the current session state.  Each         *)
(* callback and each update() is one action below.  The interleaving is    *)
(* more liberal than the loop: any action may follow any other.            *)
(***************************************************************************)
EXTENDS Integers, FiniteSets

CONSTANTS
    Client,            \* the players that may connect
    AutoBot,           \* the bots CEntityManager adds to fill the server
    ConsoleBot,        \* the bots an operator adds with the addBot command
    Admin,             \* the clients that are administrators or moderators
    NbWaitingClients,  \* humans needed to launch a session
    ForcedClientCount, \* entities the server tops itself up to
    NbMaxClients,      \* no bot is added beyond this many entities
    Countdown,         \* TimeBeforeStart: from "everybody ready" to the start
    CheckDelay,        \* TimeBeforeCheck: a session never ends earlier
    LevelTimeout,      \* timeTimeout() of the level: a session never ends later
    RestartDelay,      \* TimeBeforeRestart: how long the results are shown
    ReadyTimeout,      \* WaitingReadyTimeout: how long a client may load
    MaxAfkSessionCount \* idle sessions before a client is removed

ASSUME SessionAssumption ==
    /\ Admin \subseteq Client
    /\ Client \cap AutoBot = {}
    /\ Client \cap ConsoleBot = {}
    /\ AutoBot \cap ConsoleBot = {}
    /\ NbWaitingClients \in Nat \ {0}
    /\ ForcedClientCount \in Nat
    /\ NbMaxClients \in Nat
    /\ Countdown \in Nat
    /\ CheckDelay \in Nat
    /\ LevelTimeout \in Nat
    /\ RestartDelay \in Nat
    /\ ReadyTimeout \in Nat
    /\ MaxAfkSessionCount \in Nat \ {0}

VARIABLES
    state,        \* CSessionManager::CurrentState, by its name()
    forceEnding,  \* CSessionManager::ForceEnding
    editMode,     \* CSessionManager::_editMode # 0
    startTimeSet, \* CSessionManager::StartTime # 0
    sinceStart,   \* now - StartTime, negative during the countdown
    endTimeSet,   \* CSessionManager::EndTime # 0
    sinceEnd,     \* now - EndTime
    entities,     \* the entities of CEntityManager, as a set ...
    ahead,        \* ... and, for each, those before it in the list
    networkReady, \* the clients that have logged in
    ready,        \* CEntity::Ready
    waiting,      \* CEntity::WaitingReady
    waited,       \* now - CEntity::WaitingReadyTimeoutStart
    inGame,       \* CEntity::InGame
    idle,         \* the clients without CEntity::ForceReceived
    afk,          \* CEntity::AfkCount
    recording,    \* the clients with an open CClient::ReplayFile
    asked         \* history: forceend was used since the session was launched

sessionRest == <<forceEnding, editMode, asked>>
sessionVars == <<state, sessionRest>>
timeVars    == <<startTimeSet, sinceStart, endTimeSet, sinceEnd>>
rosterVars  == <<entities, ahead, networkReady>>
readyVars   == <<ready, waiting, waited>>
playVars    == <<inGame, idle, afk, recording>>
vars == <<sessionVars, timeVars, rosterVars, readyVars, playVars>>

-----------------------------------------------------------------------------
Bot    == AutoBot \cup ConsoleBot
Entity == Client \cup Bot

State == {"WaitingClients", "WaitingReady", "WaitingStart", "Running", "Ending"}

(* The timers stop at the first value past the last one a guard looks at.  *)
AtMost(n, top) == IF n < top THEN n ELSE top
LastStart == (IF CheckDelay < LevelTimeout THEN LevelTimeout ELSE CheckDelay) + 1

TypeOK ==
    /\ state \in State
    /\ forceEnding \in BOOLEAN
    /\ editMode \in BOOLEAN
    /\ startTimeSet \in BOOLEAN
    /\ sinceStart \in -Countdown .. LastStart
    /\ endTimeSet \in BOOLEAN
    /\ sinceEnd \in 0 .. RestartDelay + 1
    /\ entities \subseteq Entity
    /\ ahead \in [Entity -> SUBSET Entity]
    /\ networkReady \subseteq entities \cap Client
    /\ ready \subseteq entities
    /\ waiting \subseteq entities \cap Client
    /\ waited \in [Client -> 0 .. ReadyTimeout + 1]
    /\ inGame \subseteq entities
    /\ idle \subseteq entities \cap Client
    /\ afk \in [Client -> 0 .. MaxAfkSessionCount - 1]
    /\ recording \subseteq entities \cap Client
    /\ asked \in BOOLEAN

Init ==
    /\ state = "WaitingClients"
    /\ forceEnding = FALSE
    /\ editMode = FALSE
    /\ startTimeSet = FALSE
    /\ sinceStart = 0
    /\ endTimeSet = FALSE
    /\ sinceEnd = 0
    /\ entities = {}
    /\ ahead = [e \in Entity |-> {}]
    /\ networkReady = {}
    /\ ready = {}
    /\ waiting = {}
    /\ waited = [c \in Client |-> 0]
    /\ inGame = {}
    /\ idle = {}
    /\ afk = [c \in Client |-> 0]
    /\ recording = {}
    /\ asked = FALSE

-----------------------------------------------------------------------------
(* humanClientCount(): the bots of the console count as humans.            *)
Humans == entities \cap (Client \cup ConsoleBot)

(* A client that is still loading, as everyBodyReady() tests it.           *)
Loading == waiting \ ready

(* The condition under which cbOpenClose and setForce act on a command.    *)
AcceptsInput == startTimeSet /\ ~endTimeSet /\ sinceStart >= 0

(* e is the first entity of S in the list of entities.                     *)
IsFirst(e, S) == e \in S /\ ahead[e] \cap S = {}

(* add(): a new entity goes to the end of the list.                        *)
Add(e) ==
    /\ entities' = entities \cup {e}
    /\ ahead' = [ahead EXCEPT ![e] = entities]

(* Any departure switches the edit mode off.                               *)
KeepEditMode(K) == UNCHANGED editMode                           \* a mutant
EndEditMode(K)  == editMode' = (editMode /\ K = {})

(* What remove() does for every entity of K, and what an action that also  *)
(* sets idle, afk or recording needs of it.                                *)
StillLoggedIn(K) == UNCHANGED networkReady                      \* a mutant
LogOut(K)        == networkReady' = networkReady \ K

Unlink(K) ==
    /\ entities' = entities \ K
    /\ ahead' = [e \in Entity |-> IF e \in K THEN {} ELSE ahead[e] \ K]
    /\ LogOut(K)
    /\ EndEditMode(K)
    /\ ready' = ready \ K
    /\ waiting' = waiting \ K
    /\ waited' = [c \in Client |-> IF c \in K THEN 0 ELSE waited[c]]
    /\ inGame' = inGame \ K

Remove(K) ==
    /\ Unlink(K)
    /\ idle' = idle \ K
    /\ afk' = [c \in Client |-> IF c \in K THEN 0 ELSE afk[c]]
    /\ recording' = recording \ K
    /\ UNCHANGED <<state, forceEnding, asked, timeVars>>

-----------------------------------------------------------------------------
(* The handlers of the network and the commands of the operators.          *)

(* cbConnection: the client is in the list before it has logged in.        *)
Connect(c) ==
    /\ c \notin entities
    /\ Add(c)
    /\ UNCHANGED <<networkReady, sessionVars, timeVars, readyVars, playVars>>

(* cbLogin, accepted: CEntity::init() and CEntityManager::login().  The    *)
(* client program sends its login once, on connecting.                     *)
Login(c) ==
    /\ c \in entities \ networkReady
    /\ networkReady' = networkReady \cup {c}
    /\ idle' = idle \ {c}
    /\ afk' = [afk EXCEPT ![c] = 0]
    /\ UNCHANGED <<entities, ahead, sessionVars, timeVars, readyVars,
                   inGame, recording>>

(* cbDisconnection.                                                        *)
Disconnect(c) ==
    /\ c \in entities
    /\ Remove({c})

(* cbReady: whatever the state of the session.                             *)
Ready(c) ==
    /\ c \in entities
    /\ ready' = ready \cup {c}
    /\ waiting' = waiting \ {c}
    /\ UNCHANGED <<waited, sessionVars, timeVars, rosterVars, playVars>>

(* cbRequestCRCKey and cbRequestDownload restart the client's loading time, *)
(* which is read only while it is waited for.                              *)
RequestFile(c) ==
    /\ c \in waiting
    /\ waited' = [waited EXCEPT ![c] = 0]
    /\ UNCHANGED <<ready, waiting, sessionVars, timeVars, rosterVars, playVars>>

(* cbForce with a movement that is not null, in any state of the session.  *)
ForceMessage(c) ==
    /\ c \in idle
    /\ idle' = idle \ {c}
    /\ UNCHANGED <<inGame, afk, recording,
                   sessionVars, timeVars, rosterVars, readyVars>>

(* cbEditMode, and cbUpdateElement which switches it on while Running.     *)
SetEditMode(c, on) ==
    /\ c \in Admin \cap entities
    /\ editMode' = on
    /\ UNCHANGED <<state, forceEnding, asked, timeVars, rosterVars, readyVars, playVars>>

(* The forceend command, of an administrator or of the console.            *)
ForceEnd ==
    /\ forceEnding' = TRUE
    /\ asked' = TRUE
    /\ UNCHANGED <<state, editMode, timeVars, rosterVars, readyVars, playVars>>

(* saveAllValidReplay(): every replay that is still open is closed.        *)
SaveNoReplay       == UNCHANGED recording                       \* a mutant
SaveAllValidReplay == recording' = {}

(* What reset() does of StartTime and EndTime.                             *)
ClearEndTime   == endTimeSet' = FALSE /\ sinceEnd' = 0
                  /\ UNCHANGED <<startTimeSet, sinceStart>>     \* a mutant
ClearStartTime == startTimeSet' = FALSE /\ sinceStart' = 0
                  /\ UNCHANGED <<endTimeSet, sinceEnd>>         \* a mutant
ClearTimes ==
    /\ startTimeSet' = FALSE
    /\ sinceStart' = 0
    /\ endTimeSet' = FALSE
    /\ sinceEnd' = 0

(* CSessionManager::reset().  ForceEnding and the edit mode stay.          *)
BackToLobby ==
    /\ SaveAllValidReplay
    /\ state' = "WaitingClients"
    /\ ClearTimes
    /\ UNCHANGED <<sessionRest, rosterVars, readyVars, inGame, idle, afk>>

(* The reset command.                                                      *)
Reset == BackToLobby

(* The console's addBot.                                                   *)
AddBot(b) ==
    /\ b \in ConsoleBot \ entities
    /\ Cardinality(entities) < NbMaxClients
    /\ Add(b)
    /\ UNCHANGED <<networkReady, sessionVars, timeVars, readyVars, playVars>>

-----------------------------------------------------------------------------
(* The physics and the entities.                                           *)

(* nearCallback: an open penguin that hits the scene or the water is out.  *)
LeaveGame(e) ==
    /\ e \in inGame
    /\ inGame' = inGame \ {e}
    /\ UNCHANGED <<idle, afk, recording, sessionVars, timeVars, rosterVars, readyVars>>

(* checkForcedClientCount(), too few entities: automatic bots are added at *)
(* the end of the list, each refused once the server holds NbMaxClients.   *)
MissingBots ==
    AtMost(ForcedClientCount, NbMaxClients) - Cardinality(entities)

FillWithBots ==
    /\ MissingBots > 0
    /\ \E B \in SUBSET (AutoBot \ entities) :
         \E rank \in [B -> 1 .. MissingBots] :
           /\ Cardinality(B) = MissingBots
           /\ \A a, b \in B : a # b => rank[a] # rank[b]
           /\ entities' = entities \cup B
           /\ ahead' = [e \in Entity |->
                          IF e \in B
                            THEN entities \cup {b \in B : rank[b] < rank[e]}
                            ELSE ahead[e]]
    /\ UNCHANGED <<networkReady, sessionVars, timeVars, readyVars, playVars>>

(* checkForcedClientCount(), too many: the first automatic bots leave, one *)
(* by one, until the count is right or no automatic bot is left.           *)
SpareBots ==
    {b \in AutoBot \cap entities :
       Cardinality(ahead[b] \cap AutoBot) < Cardinality(entities) - ForcedClientCount}

RemoveSpareBots ==
    /\ SpareBots # {}
    /\ Remove(SpareBots)

-----------------------------------------------------------------------------
(* update() of the five session states.                                    *)

(* forceEnding(false), at the launch and at the end of a game.             *)
StillForced == UNCHANGED forceEnding                            \* a mutant
NotForced   == forceEnding' = FALSE

(* The launch takes every entity out of the game.                          *)
HoldAll == inGame' = {}

(* CWaitingClientsSessionState::update(): a session is launched.  newLevel *)
(* sets ForceReceived for all, through CEntityManager::reset().            *)
Launch ==
    /\ state = "WaitingClients"
    /\ Cardinality(Humans) >= NbWaitingClients
    /\ state' = "WaitingReady"
    /\ HoldAll
    /\ ready' = entities \cap Bot
    /\ waiting' = entities \cap Client
    /\ waited' = [c \in Client |-> 0]
    /\ idle' = {}
    /\ NotForced
    /\ asked' = FALSE
    /\ UNCHANGED <<editMode, timeVars, rosterVars, afk, recording>>

(* CWaitingReadySessionState::update().  everyBodyReady() looks no further *)
(* than the first client that is still loading: it answers no while that   *)
(* client has time left, and yes, removing it, once its time is up.        *)
NeverTimedOut(c) == FALSE                                       \* a mutant
TimedOut(c)      == waited[c] > ReadyTimeout

EverybodyReadyAtOnce(K) ==                                      \* a mutant
    IF Loading = {} THEN K = {}
    ELSE \E c \in Loading : IsFirst(c, Loading) /\ K = {c}
EverybodyReady(K) ==
    IF Loading = {} THEN K = {}
    ELSE \E c \in Loading : IsFirst(c, Loading) /\ TimedOut(c) /\ K = {c}

Prepare(K) ==
    /\ state = "WaitingReady"
    /\ IF forceEnding THEN K = {} ELSE EverybodyReady(K)
    /\ Unlink(K)
    /\ afk' = [c \in Client |-> IF c \in K THEN 0 ELSE afk[c]]
    /\ idle' = (entities \ K) \cap Client
    /\ recording' \in SUBSET ((entities \ K) \cap Client)
    /\ state' = "WaitingStart"
    /\ startTimeSet' = TRUE
    /\ sinceStart' = -Countdown
    /\ UNCHANGED <<forceEnding, asked, endTimeSet, sinceEnd>>

(* CWaitingStartSessionState::update().                                    *)
Start ==
    /\ state = "WaitingStart"
    /\ forceEnding \/ sinceStart > 0
    /\ inGame' = entities
    /\ state' = "Running"
    /\ UNCHANGED <<sessionRest, timeVars, rosterVars, readyVars,
                   idle, afk, recording>>

(* CRunningSessionState::update().  "stopped" is what the physics answers: *)
(* no entity in the game is still moving.                                  *)
MayEnd == forceEnding \/ (sinceStart > CheckDelay /\ ~editMode)

OverWhenStopped(stopped) == forceEnding \/ stopped              \* a mutant
Over(stopped) == forceEnding \/ sinceStart > LevelTimeout \/ stopped

EndTimeForgotten == UNCHANGED <<endTimeSet, sinceEnd>>          \* a mutant
EndTimeIsNow     == endTimeSet' = TRUE /\ sinceEnd' = 0

(* checkAfkClient().                                                       *)
Away    == idle \ Admin
TooLong == {c \in Away : afk[c] + 1 >= MaxAfkSessionCount}

Finish(stopped) ==
    /\ state = "Running"
    /\ MayEnd
    /\ inGame = {} => stopped
    /\ Over(stopped)
    /\ Unlink(TooLong)
    /\ idle' = idle \ TooLong
    /\ afk' = [c \in Client |-> IF c \in Away \ TooLong THEN afk[c] + 1 ELSE 0]
    /\ SaveAllValidReplay
    /\ state' = "Ending"
    /\ EndTimeIsNow
    /\ NotForced
    /\ UNCHANGED <<asked, startTimeSet, sinceStart>>

(* CEndingSessionState::update().                                          *)
Restart ==
    /\ state = "Ending"
    /\ sinceEnd > RestartDelay
    /\ BackToLobby

-----------------------------------------------------------------------------
(* CTime::getLocalTime() moves on.                                         *)
Tick ==
    /\ sinceStart' = IF startTimeSet THEN AtMost(sinceStart + 1, LastStart) ELSE 0
    /\ sinceEnd' = IF endTimeSet THEN AtMost(sinceEnd + 1, RestartDelay + 1) ELSE 0
    /\ waited' = [c \in Client |-> IF c \in waiting
                                     THEN AtMost(waited[c] + 1, ReadyTimeout + 1)
                                     ELSE waited[c]]
    /\ UNCHANGED <<startTimeSet, endTimeSet, ready, waiting,
                   sessionVars, rosterVars, playVars>>

Update ==
    \/ Launch
    \/ \E K \in SUBSET Client : Prepare(K)
    \/ Start
    \/ \E stopped \in BOOLEAN : Finish(stopped)
    \/ Restart

Handler ==
    \/ \E c \in Client :
         \/ Connect(c) \/ Login(c) \/ Disconnect(c) \/ Ready(c)
         \/ RequestFile(c) \/ ForceMessage(c)
         \/ \E on \in BOOLEAN : SetEditMode(c, on)
    \/ ForceEnd
    \/ Reset
    \/ \E b \in ConsoleBot : AddBot(b)

Next ==
    \/ Tick
    \/ Handler
    \/ \E e \in Entity : LeaveGame(e)
    \/ FillWithBots
    \/ RemoveSpareBots
    \/ Update

Spec == Init /\ [][Next]_vars

(* The loop runs for ever: the clock moves and update() is called again and *)
(* again, so a step of a session state that stays possible is taken.  For  *)
(* Finish this is promised only with the least favourable answer of the    *)
(* physics, that everybody in the game is moving.                          *)
Fairness ==
    /\ WF_vars(Tick)
    /\ WF_vars(Launch)
    /\ WF_vars(\E K \in SUBSET Client : Prepare(K))
    /\ WF_vars(Start)
    /\ WF_vars(Finish(inGame = {}))
    /\ WF_vars(Restart)

FairSpec == Spec /\ Fairness

-----------------------------------------------------------------------------
(* Safety.                                                                 *)

(* A forceend ends the session it was issued in and no later one: when     *)
(* ForceEnding is seen during a session, it was set during that session.   *)
ForcedByThisSession ==
    state \in {"WaitingReady", "WaitingStart", "Running"} /\ forceEnding => asked

(* StartTime and EndTime agree with the state: the commands of the players *)
(* are acted on only from the end of the countdown to the end of the game. *)
InputOnlyInSession == AcceptsInput => state \in {"WaitingStart", "Running"}

(* While the game runs the players' commands are acted on, unless the game *)
(* is about to be cut short by a forceend.                                 *)
PlayersCanPlay == state = "Running" /\ ~forceEnding => AcceptsInput

(* StartTime and EndTime are set and cleared in step with the states, and  *)
(* a game that is not being cut short starts after the whole countdown.    *)
TimesFollowState ==
    /\ startTimeSet <=> state \in {"WaitingStart", "Running", "Ending"}
    /\ endTimeSet <=> state = "Ending"
    /\ state = "Running" /\ ~forceEnding => sinceStart > 0

(* Nobody is in the game while the level is loaded and counted down: the   *)
(* penguins of the last session, and those that arrive, are held.          *)
NobodyInGameBeforeStart ==
    state \in {"WaitingReady", "WaitingStart"} => inGame = {}

(* A replay is open only from the countdown to the end of the game.        *)
RecordingOnlyInSession ==
    recording # {} => state \in {"WaitingStart", "Running"}

(* Somebody who can switch the edit mode off is there while it is on: a    *)
(* session is not held open by an editor that has left.                    *)
EditModeHasAnEditor == editMode => entities \cap Admin # {}

(* The inductive invariant of the session.                                 *)
SessionInv ==
    /\ TypeOK
    /\ ForcedByThisSession
    /\ TimesFollowState
    /\ NobodyInGameBeforeStart
    /\ RecordingOnlyInSession
    /\ EditModeHasAnEditor

(* The only clients the session itself removes are those whose loading     *)
(* time is over and those that have been away for too many sessions.       *)
RemovedForCause ==
    [][ state' # state =>
          \A c \in entities \ entities' :
            \/ c \in Loading /\ TimedOut(c)
            \/ c \in TooLong /\ state = "Running" ]_vars

-----------------------------------------------------------------------------
(* Liveness, under FairSpec.                                               *)

(* From some time on nobody asks the server for files of a level.          *)
DownloadsCease == <>[][~ \E c \in Client : RequestFile(c)]_vars

(* From some time on no session is cut short by the reset command.         *)
ResetsCease == <>[][state' = "WaitingClients" => state = "Ending"]_state

(* The wait for the players to load ends, whoever never answers.           *)
LoadingEnds ==
    DownloadsCease => (state = "WaitingReady" ~> state # "WaitingReady")

(* A game ends, whatever the penguins do, unless it is edited for ever.    *)
GameEnds ==
    <>[](~editMode) => (state = "Running" ~> state # "Running")

(* Once every human has left for good, the server falls back to waiting    *)
(* for clients: no session goes on for the bots.                           *)
EmptyServerIdles ==
    <>[](Humans = {}) => <>[](state = "WaitingClients")

(* As long as enough humans stay, one game follows another.                *)
GamesFollow ==
    /\ DownloadsCease
    /\ ResetsCease
    /\ <>[](~editMode /\ Cardinality(Humans) >= NbWaitingClients)
    => []<>(state = "Running")

-----------------------------------------------------------------------------
(* What the client program takes the message EverybodyReady to mean (the   *)
(* code does not keep this promise): unless the countdown is forced, it    *)
(* starts with no connected client still loading.                          *)
EverybodyReadyMeansIt ==
    [][ state = "WaitingReady" /\ state' = "WaitingStart" /\ ~forceEnding
          => Loading' = {} ]_vars

(* What the server logs it does at a launch, "sending StartSession to      *)
(* everybody" (it does not): every client it then waits for has been sent  *)
(* the level.  send() skips a client that has not logged in yet.           *)
EverybodyIsTold ==
    [][ state = "WaitingClients" /\ state' = "WaitingReady"
          => waiting' \subseteq networkReady ]_vars
=============================================================================
