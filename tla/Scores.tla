------------------------------- MODULE Scores -------------------------------
(***************************************************************************)
(* The points: what the level scripts give during a game, what the end of  *)
(* the game adds, what is saved, and what each client shows of it.  The    *)
(* total is sent at the end of a game and with each Login; the score of    *)
(* the game goes out with ScoreUpdate when it differs from the last one    *)
(* sent.                                                                   *)
(*                                                                         *)
(* The handlers of the client change only what it shows, so each message   *)
(* is read in the step that sends it.  Players are known by their name,    *)
(* with the server in LAN mode (ShardId 0), where it keeps the accounts.   *)
(***************************************************************************)
EXTENDS Ranking, Functions

CONSTANTS
    Client,     \* the players
    Bot,        \* the bots
    Admin,      \* the players named in Admin or Moderator of the configuration
    AnyAdmin,   \* Admin has the name "*", as the default configuration has
    Points,     \* what a script may give
    MaxTime,    \* bound of the model: seconds a game lasts at most
    MaxGames,   \* bound of the model: games played to their end
    NoRecord    \* no LevelStats entry for the level yet

Entity == Client \cup Bot

ASSUME ScoresAssumption ==
    /\ Client \cap Bot = {}
    /\ Admin \subseteq Client /\ AnyAdmin \in BOOLEAN
    /\ NoOne \notin Entity
    /\ MinTimeNeeded \in Nat
    /\ Points \subseteq Nat \ {0}
    /\ MaxTime \in Nat \ {0}
    /\ MaxGames \in Nat
    /\ NoRecord \in Nat /\ NoRecord > MaxTime

VARIABLES
    phase,    \* where the session is
    now,      \* seconds since the start time
    games,    \* games played to their end
    loggedIn, \* the clients that are networkReady
    moved,    \* the clients with CEntity::ForceReceived
    playing,  \* the entities that are not CEntity::spectator()
    sent,     \* CEntity::LastSentScore, None when not LastSentScoreValid
    total,    \* CEntity::Score
    saved,    \* the score in the Accounts of the configuration file
    record,   \* the best time of the level in LevelStats
    shown,    \* for each client, its entities: score and total
    earned,   \* history: who was given points in this game
    missed    \* history: <<c, e>> when c shows another score than the last
              \* one sent, having come after it or been told the final one

gameVars   == <<phase, now, games, record, earned>>
rosterVars == <<list, loggedIn, moved, playing>>
scoreVars  == <<score, sent, total, arrival, saved>>
viewVars   == <<shown, missed>>
vars == <<gameVars, rosterVars, scoreVars, viewVars>>

-----------------------------------------------------------------------------
None == -1
Phase == {"Waiting", "Launched", "Prepared", "Running", "Ending"}
Present == ToSet(list)
Ready(e) == e \in loggedIn \/ e \in Bot \cap Present

Init ==
    /\ phase = "Waiting"
    /\ now = 0
    /\ games = 0
    /\ record = NoRecord
    /\ list = <<>>
    /\ loggedIn = {}
    /\ moved = Client
    /\ playing = {}
    /\ earned = {}
    /\ score = [e \in Entity |-> 0]
    /\ sent = [e \in Entity |-> None]
    /\ total = [e \in Entity |-> 0]
    /\ arrival = [e \in Entity |-> 0]
    /\ saved = [c \in Client |-> 0]
    /\ shown = [c \in Client |-> <<>>]
    /\ missed = {}

-----------------------------------------------------------------------------
(* The entities whose score differs from the one last sent.                *)
Dirty == {e \in Present : score[e] # sent[e]}

(* What a client knows of an entity it has just been told of.              *)
New(e, points) == [score |-> 0, total |-> points]

(* Login of e to every client that is ready: add() starts it afresh.       *)
Introduce(e, points) ==
    [c \in Client |->
        IF c \notin loggedIn \ {e} THEN shown[c]
        ELSE [f \in DOMAIN shown[c] \cup {e} |->
                IF f = e THEN New(e, points) ELSE shown[c][f]]]

Connect(c) ==
    /\ c \notin Present
    /\ list' = Append(list, c)
    /\ UNCHANGED <<gameVars, loggedIn, moved, playing, scoreVars, viewVars>>

(* cbLogin: the total is the one of the account; everybody is told of the  *)
(* player, and the player of everybody.  A login counts as a command.      *)
TotalOf(c) == saved[c]

Login(c) ==
    /\ c \in Present \ loggedIn
    /\ total' = [total EXCEPT ![c] = TotalOf(c)]
    /\ loggedIn' = loggedIn \cup {c}
    /\ moved' = moved \cup {c}
    /\ shown' = [Introduce(c, TotalOf(c)) EXCEPT
                    ![c] = [e \in Present |-> New(e, total'[e])]]
    /\ missed' = missed \cup ({c} \X Present) \cup (loggedIn \X {c})
    /\ UNCHANGED <<gameVars, list, playing, score, sent, arrival, saved>>

AddBot(b) ==
    /\ b \notin Present
    /\ list' = Append(list, b)
    /\ shown' = Introduce(b, 0)
    /\ missed' = missed \cup (loggedIn \X {b})
    /\ UNCHANGED <<gameVars, loggedIn, moved, playing, scoreVars>>

(* remove() of the entities K from the list.                               *)
Kept(K) ==
    FoldLeft(LAMBDA kept, e : IF e \in K THEN kept ELSE Append(kept, e), <<>>, list)

(* What remains of f when the entities K are gone: they come back new.     *)
Without(K, f, new) == [e \in DOMAIN f |-> IF e \in K THEN new ELSE f[e]]

(* A Logout of the entities K is sent only for who is known by name.       *)
Forget(K, views) ==
    [c \in Client |->
        IF c \in K THEN <<>>
        ELSE Restrict(views[c],
                      {e \in DOMAIN views[c] : ~(e \in K /\ Ready(e))})]

Leave(e) ==
    /\ e \in Present
    /\ list' = Kept({e})
    /\ loggedIn' = loggedIn \ {e}
    /\ moved' = moved \cup ({e} \cap Client)
    /\ playing' = playing \ {e}
    /\ score' = Without({e}, score, 0)
    /\ sent' = Without({e}, sent, None)
    /\ total' = Without({e}, total, 0)
    /\ arrival' = Without({e}, arrival, 0)
    /\ shown' = Forget({e}, shown)
    /\ missed' = {m \in missed : m[1] # e /\ m[2] # e}
    /\ earned' = earned \ {e}
    /\ UNCHANGED <<phase, now, games, record, saved>>

-----------------------------------------------------------------------------
(* The session, as far as the scores see it.  CNetwork::update() runs 50   *)
(* times a second: the countdown, a second of the game and the time the    *)
(* results are shown do not pass without it.  The launch, the first update *)
(* of WaitingReady and the end of the game may come between two of them.   *)
UpToDate == Dirty = {}

(* CWaitingClientsSessionState: the arrival times are cleared, and the     *)
(* reset of the entities counts as a command of each.                      *)
Launch ==
    /\ phase = "Waiting"
    /\ games < MaxGames
    /\ Client \cap Present # {}
    /\ phase' = "Launched"
    /\ arrival' = [e \in Entity |-> 0]
    /\ moved' = Client
    /\ playing' = Present
    /\ UNCHANGED <<now, games, record, earned, list, loggedIn, score, sent,
                   total, saved, viewVars>>

(* initBeforeStartLevel(), called by the first update of                   *)
(* CWaitingReadySessionState: the script's init() takes the score back.    *)
KeepScore(f) == f  \* a mutant

InitScore(f) == [e \in Entity |-> 0]

Prepare ==
    /\ phase = "Launched"
    /\ phase' = "Prepared"
    /\ score' = InitScore(score)
    /\ moved' = Client \ Present
    /\ earned' = {}
    /\ UNCHANGED <<now, games, record, list, loggedIn, playing, sent, total, arrival,
                   saved, viewVars>>

Start ==
    /\ phase = "Prepared"
    /\ UpToDate
    /\ phase' = "Running"
    /\ now' = 0
    /\ UNCHANGED <<games, record, earned, rosterVars, scoreVars, viewVars>>

Clock ==
    /\ phase = "Running"
    /\ now < MaxTime
    /\ UpToDate
    /\ now' = now + 1
    /\ UNCHANGED <<phase, games, record, earned, rosterVars, scoreVars, viewVars>>

(* cbForce of a player, whatever the state and before the login as well.   *)
Move(c) ==
    /\ c \in Present
    /\ moved' = moved \cup {c}
    /\ UNCHANGED <<gameVars, list, loggedIn, playing, scoreVars, viewVars>>

(* The script of the level sets the score of an entity: preUpdate() or the *)
(* water take it back, a target gives points.                              *)
SetScore(e) ==
    /\ phase \in {"Running", "Ending"}
    /\ e \in playing
    /\ \E p \in Points \cup {0} :
          /\ score' = [score EXCEPT ![e] = p]
          /\ earned' = IF p > 0 THEN earned \cup {e} ELSE earned
    /\ UNCHANGED <<phase, now, games, record, rosterVars, sent, total, arrival, saved, viewVars>>

(* An entity with points is seen at rest for the first time.               *)
Arrive(e) ==
    /\ phase = "Running"
    /\ now > 0
    /\ e \in playing
    /\ score[e] > 0
    /\ arrival[e] = 0
    /\ arrival' = [arrival EXCEPT ![e] = now]
    /\ UNCHANGED <<gameVars, rosterVars, score, sent, total, saved, viewVars>>

-----------------------------------------------------------------------------
(* The end of a game, CRunningSessionState::update().                      *)

(* forceReceived(): administrators and moderators may be away.  They are   *)
(* known by their name, which they have once they have logged in.          *)
Exempt == IF AnyAdmin THEN Client ELSE Admin \cap loggedIn

(* checkAfkClient(): who else sent no command loses the points.            *)
Idle == (Client \cap Present) \ (moved \cup Exempt)

KeepIdle(f) == f  \* a mutant

ZeroIdle(f) == [e \in Entity |-> IF e \in Idle THEN 0 ELSE f[e]]

WithBonus(f, order) ==
    [e \in Entity |-> IF e \in ToSet(order)
                       THEN f[e] + TimeBonus(e, order, f, arrival) ELSE f[e]]

(* updateStats() of each player in turn: it counts if its time is shorter  *)
(* than the record before it.  The first time of a level is no record      *)
(* broken; breaking one is worth 1000 points.                              *)
Timed(points, order) ==
    {i \in DOMAIN order : order[i] \in Client /\ Counts(order[i], points, arrival)}

RecordBefore(i, points, order) ==
    Min({record} \cup {arrival[order[j]] : j \in {k \in Timed(points, order) : k < i}})

Breaks(i, points, order) ==
    LET best == RecordBefore(i, points, order)
    IN  best # NoRecord /\ arrival[order[i]] < best

Aces(points, order) == {order[i] : i \in {k \in Timed(points, order) : Breaks(k, points, order)}}

(* EndSession to the clients that are ready: scores and totals.            *)
OldTotals(views, final, new) ==  \* a mutant
    [c \in Client |->
        [e \in DOMAIN views[c] |->
            IF e \in Present THEN [score |-> final[e], total |-> total[e]]
                              ELSE views[c][e]]]

Announce(views, final, new) ==
    [c \in Client |->
        [e \in DOMAIN views[c] |->
            IF e \in Present THEN [score |-> final[e], total |-> new[e]]
                              ELSE views[c][e]]]

(* The accounts of the configuration file, by name: only who has logged in *)
(* has one.                                                                *)
SavedNow(K, new) ==
    [c \in Client |-> IF c \in loggedIn \ K THEN new[c] ELSE saved[c]]

(* The idle clients K have been idle for too long and are removed before   *)
(* anything is counted; the level gives a time bonus or not.               *)
Finish(K, bonusTime) ==
    LET order  == Kept(K)
        zeroed == Without(K, ZeroIdle(score), 0)
        points == IF bonusTime THEN WithBonus(zeroed, order) ELSE zeroed
        aces   == Aces(points, order)
        final  == [e \in Entity |-> points[e] + IF e \in aces THEN 1000 ELSE 0]
        new    == Without(K, [e \in Entity |-> total[e] + final[e]], 0)
    IN  /\ phase = "Running"
        /\ K \subseteq Idle
        /\ phase' = "Ending"
        /\ games' = games + 1
        /\ record' = RecordBefore(Len(order) + 1, points, order)
        /\ list' = order
        /\ loggedIn' = loggedIn \ K
        /\ moved' = moved \cup K
        /\ playing' = playing \ K
        /\ earned' = earned \ K
        /\ score' = final
        /\ total' = new
        /\ sent' = Without(K, sent, None)
        /\ arrival' = Without(K, arrival, 0)
        /\ saved' = SavedNow(K, new)
        /\ shown' = Announce(Forget(K, shown), final, new)
        /\ missed' = {m \in (loggedIn \ K) \X (Present \ K) : final[m[2]] # sent[m[2]]}
        /\ now' = 0

(* CSessionManager::reset(), at the end of the results or by command.      *)
Reset ==
    /\ phase # "Waiting"
    /\ UpToDate
    /\ phase' = "Waiting"
    /\ now' = 0
    /\ UNCHANGED <<games, record, earned, rosterVars, scoreVars, viewVars>>

-----------------------------------------------------------------------------
(* ScoreUpdate, at the end of CNetwork::update().                          *)
FirstReader == {c \in loggedIn : c = list[1]}  \* a mutant

Readers == loggedIn

ScoreUpdate ==
    /\ Dirty # {}
    /\ sent' = [e \in Entity |-> IF e \in Dirty THEN score[e] ELSE sent[e]]
    /\ shown' = [c \in Client |->
                    IF c \notin Readers THEN shown[c]
                    ELSE [e \in DOMAIN shown[c] |->
                            IF e \in Dirty THEN [shown[c][e] EXCEPT !.score = score[e]]
                                           ELSE shown[c][e]]]
    /\ missed' = {m \in missed : m[2] \notin Dirty}
    /\ UNCHANGED <<gameVars, rosterVars, score, total, arrival, saved>>

Next ==
    \/ \E c \in Client : Connect(c) \/ Login(c) \/ Move(c)
    \/ \E b \in Bot : AddBot(b)
    \/ \E e \in Entity : Leave(e) \/ SetScore(e) \/ Arrive(e)
    \/ Launch \/ Prepare \/ Start \/ Clock \/ Reset \/ ScoreUpdate
    \/ \E K \in SUBSET Client, bonusTime \in BOOLEAN : Finish(K, bonusTime)

Spec == Init /\ [][Next]_vars

-----------------------------------------------------------------------------
TypeOK ==
    /\ phase \in Phase
    /\ now \in 0 .. MaxTime
    /\ games \in 0 .. MaxGames
    /\ record \in 0 .. MaxTime \cup {NoRecord}
    /\ list \in Seq(Entity) /\ IsInjective(list)
    /\ loggedIn \subseteq Client \cap Present
    /\ moved \subseteq Client
    /\ playing \subseteq Present /\ earned \subseteq playing
    /\ score \in [Entity -> Nat]
    /\ sent \in [Entity -> Nat \cup {None}]
    /\ total \in [Entity -> Nat]
    /\ arrival \in [Entity -> 0 .. MaxTime]
    /\ saved \in [Client -> Nat]
    /\ DOMAIN shown = Client
    /\ \A c \in Client :
          /\ DOMAIN shown[c] \subseteq Entity
          /\ shown[c] \in [DOMAIN shown[c] -> [score : Nat, total : Nat]]
    /\ missed \subseteq loggedIn \X Present

(* The total of a player is in three places, and the same in all of them,  *)
(* through logins in the middle of a game, departures at any moment and    *)
(* ends of games: it is that of the account, and every player shows the    *)
(* total of everybody who is there, though only Login and EndSession carry *)
(* it.                                                                     *)
TotalsAgree ==
    /\ \A c \in loggedIn : total[c] = saved[c]
    /\ \A c \in loggedIn, e \in Present :
          Ready(e) => e \in DOMAIN shown[c] /\ shown[c][e].total = total[e]

(* What the runs check of the totals and of the types.                     *)
TotalsInv == TypeOK /\ TotalsAgree

(* Who has missed nothing shows for everybody the score last sent.         *)
ScoresAgree ==
    \A c \in loggedIn, e \in Present :
       e \in DOMAIN shown[c] /\ sent[e] # None /\ <<c, e>> \notin missed
          => shown[c][e].score = sent[e]

(* A game pays for itself: who was given no points since it was prepared   *)
(* gains none, whatever score the entity ended the game before with.       *)
PaidForThisGame ==
    [][games' # games =>
         \A e \in Present' \ earned : total'[e] = total[e]]_vars

(* Who sent no command during the game and is not allowed to be away gains *)
(* nothing from it: no points of the level, no time bonus, no record.      *)
IdleGainNothing ==
    [][games' # games => \A c \in Idle : saved'[c] = saved[c]]_vars

(* Claimed by docs/KNOWN_ISSUES.md, "Per-round reset is automatic": init() *)
(* takes the score back to 0, "that differs from LastSentScore (carrying   *)
(* round 1's final), so the reset is broadcast".  When nothing is left to  *)
(* send during a game, nobody shows points for an entity that has none.    *)
ResetIsShown ==
    phase = "Running" /\ Dirty = {} =>
       \A c \in loggedIn, e \in Present :
          e \in DOMAIN shown[c] /\ score[e] = 0 => shown[c][e].score = 0
=============================================================================
