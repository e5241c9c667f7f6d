--------------------------- MODULE Session_proofs ---------------------------
(***************************************************************************)
(* Machine-checked proofs about Session, for any clients, bots and limits. *)
(***************************************************************************)
EXTENDS SessionRound, TLAPS

USE DEF Entity, Bot, State

-----------------------------------------------------------------------------
(* The bounded counters of time and of idle sessions.                      *)

(* A counter that AtMost stops stays between its bounds when it is raised. *)
LEMMA AtMostBounds ==
    ASSUME NEW lo \in Int, NEW top \in Int, NEW n \in lo .. top, lo <= top
    PROVE  AtMost(n + 1, top) \in lo .. top
BY DEF AtMost

(* The last values the timers and the idle count take are integers.        *)
LEMMA Limits ==
    /\ LastStart \in Nat
    /\ LastStart >= 1
    /\ -Countdown \in Int
    /\ -Countdown <= 0
    /\ RestartDelay + 1 \in Nat
    /\ ReadyTimeout + 1 \in Nat
    /\ MaxAfkSessionCount - 1 \in Nat
BY SessionAssumption DEF LastStart

(* The values the timers and the idle count are reset to are within their  *)
(* bounds.                                                                 *)
LEMMA Zeros ==
    /\ 0 \in -Countdown .. LastStart
    /\ -Countdown \in -Countdown .. LastStart
    /\ 0 \in 0 .. RestartDelay + 1
    /\ 0 \in 0 .. ReadyTimeout + 1
    /\ 0 \in 0 .. MaxAfkSessionCount - 1
BY Limits

-----------------------------------------------------------------------------
(* Type correctness.                                                       *)

(* The server starts with well-typed variables.                            *)
LEMMA TypeInit == Init => TypeOK
BY Zeros DEF Init, TypeOK

(* remove() keeps the types, whichever entities leave.                     *)
LEMMA TypeRemove ==
    ASSUME TypeOK, NEW K \in SUBSET Entity, Remove(K)
    PROVE  TypeOK'
BY Zeros
   DEF TypeOK, Remove, Unlink, LogOut, EndEditMode, timeVars

(* The network handlers and the commands of the operators keep the types.  *)
LEMMA TypeHandler ==
    ASSUME TypeOK, Handler
    PROVE  TypeOK'
<1> USE SessionAssumption, Zeros
       DEF TypeOK, sessionVars, sessionRest, timeVars, rosterVars, readyVars, playVars
<1>1. CASE \E c \in Client : Connect(c)
  BY <1>1 DEF Connect, Add
<1>2. CASE \E c \in Client : Login(c)
  BY <1>2 DEF Login
<1>3. CASE \E c \in Client : Disconnect(c)
  <2>1. PICK c \in Client : Disconnect(c)
    BY <1>3
  <2>2. {c} \in SUBSET Entity /\ Remove({c})
    BY <2>1 DEF Disconnect
  <2> QED BY <2>2, TypeRemove
<1>4. CASE \E c \in Client : Ready(c)
  BY <1>4 DEF Ready
<1>5. CASE \E c \in Client : RequestFile(c)
  BY <1>5 DEF RequestFile
<1>6. CASE \E c \in Client : ForceMessage(c)
  BY <1>6 DEF ForceMessage
<1>7. CASE \E c \in Client, on \in BOOLEAN : SetEditMode(c, on)
  BY <1>7 DEF SetEditMode
<1>8. CASE ForceEnd
  BY <1>8 DEF ForceEnd
<1>9. CASE Reset
  BY <1>9 DEF Reset, BackToLobby, ClearTimes, SaveAllValidReplay
<1>10. CASE \E b \in ConsoleBot : AddBot(b)
  BY <1>10 DEF AddBot, Add
<1> QED BY <1>1, <1>2, <1>3, <1>4, <1>5, <1>6, <1>7, <1>8, <1>9, <1>10 DEF Handler

(* Filling the server with bots and sending the spare ones away keep the   *)
(* types.                                                                  *)
LEMMA TypeBots ==
    ASSUME TypeOK, FillWithBots \/ RemoveSpareBots
    PROVE  TypeOK'
<1>1. CASE FillWithBots
  <2>1. PICK B \in SUBSET (AutoBot \ entities) :
         \E rank \in [B -> 1 .. MissingBots] :
           /\ entities' = entities \cup B
           /\ ahead' = [e \in Entity |->
                          IF e \in B
                            THEN entities \cup {b \in B : rank[b] < rank[e]}
                            ELSE ahead[e]]
    BY <1>1 DEF FillWithBots
  <2>2. ahead' \in [Entity -> SUBSET Entity]
    BY <2>1 DEF TypeOK
  <2>3. UNCHANGED <<networkReady, sessionVars, timeVars, readyVars, playVars>>
    BY <1>1 DEF FillWithBots
  <2> QED
    BY <2>1, <2>2, <2>3
       DEF TypeOK, sessionVars, sessionRest, timeVars, readyVars, playVars
<1>2. CASE RemoveSpareBots
  <2>1. SpareBots \in SUBSET Entity
    BY DEF SpareBots
  <2> QED BY <1>2, <2>1, TypeRemove DEF RemoveSpareBots
<1> QED BY <1>1, <1>2

(* The update() of each of the five session states keeps the types.        *)
LEMMA TypeUpdate ==
    ASSUME TypeOK, Update
    PROVE  TypeOK'
<1> USE SessionAssumption, Zeros
       DEF TypeOK, sessionVars, sessionRest, timeVars, rosterVars, readyVars, playVars
<1>1. CASE Launch
  BY <1>1 DEF Launch, HoldAll, NotForced
<1>2. CASE \E K \in SUBSET Client : Prepare(K)
  BY <1>2 DEF Prepare, Unlink, LogOut, EndEditMode
<1>3. CASE Start
  BY <1>3 DEF Start
<1>4. CASE \E stopped \in BOOLEAN : Finish(stopped)
  <2>1. TooLong \subseteq Client
    BY DEF TooLong, Away
  <2>2. \A c \in Away \ TooLong : afk[c] + 1 \in 0 .. MaxAfkSessionCount - 1
    BY DEF TooLong, Away
  <2>3. afk' \in [Client -> 0 .. MaxAfkSessionCount - 1]
    BY <1>4, <2>2 DEF Finish
  <2>4. Unlink(TooLong) /\ idle' = idle \ TooLong
    BY <1>4 DEF Finish
  <2>5. /\ entities' \subseteq Entity
        /\ ahead' \in [Entity -> SUBSET Entity]
        /\ networkReady' \subseteq entities' \cap Client
        /\ ready' \subseteq entities'
        /\ waiting' \subseteq entities' \cap Client
        /\ waited' \in [Client -> 0 .. ReadyTimeout + 1]
        /\ inGame' \subseteq entities'
        /\ idle' \subseteq entities' \cap Client
        /\ editMode' \in BOOLEAN
    BY <2>1, <2>4 DEF Unlink, LogOut, EndEditMode
  <2>6. /\ state' = "Ending"
        /\ endTimeSet' = TRUE /\ sinceEnd' = 0
        /\ forceEnding' = FALSE
        /\ recording' = {}
        /\ UNCHANGED <<asked, startTimeSet, sinceStart>>
    BY <1>4 DEF Finish, SaveAllValidReplay, EndTimeIsNow, NotForced
  <2> QED BY <2>3, <2>5, <2>6
<1>5. CASE Restart
  BY <1>5 DEF Restart, BackToLobby, ClearTimes, SaveAllValidReplay
<1> QED BY <1>1, <1>2, <1>3, <1>4, <1>5 DEF Update

(* The clock keeps the types: every timer stops at its last value.         *)
LEMMA TypeTick ==
    ASSUME TypeOK, Tick
    PROVE  TypeOK'
<1>1. sinceStart' \in -Countdown .. LastStart
  BY Limits, AtMostBounds DEF TypeOK, Tick
<1>2. sinceEnd' \in 0 .. RestartDelay + 1
  BY Limits, AtMostBounds DEF TypeOK, Tick
<1>3. waited' \in [Client -> 0 .. ReadyTimeout + 1]
  <2>1. \A c \in Client : AtMost(waited[c] + 1, ReadyTimeout + 1) \in 0 .. ReadyTimeout + 1
    BY Limits, AtMostBounds DEF TypeOK
  <2> QED BY <2>1 DEF TypeOK, Tick
<1> QED
  BY <1>1, <1>2, <1>3
     DEF TypeOK, Tick, sessionVars, sessionRest, rosterVars, playVars

(* Every step keeps the types.                                             *)
LEMMA TypeNext == TypeOK /\ [Next]_vars => TypeOK'
<1> SUFFICES ASSUME TypeOK, [Next]_vars PROVE TypeOK'
  OBVIOUS
<1>1. CASE Tick
  BY <1>1, TypeTick
<1>2. CASE Handler
  BY <1>2, TypeHandler
<1>3. CASE \E e \in Entity : LeaveGame(e)
  BY <1>3 DEF TypeOK, LeaveGame, sessionVars, sessionRest, timeVars, rosterVars, readyVars
<1>4. CASE FillWithBots \/ RemoveSpareBots
  BY <1>4, TypeBots
<1>5. CASE Update
  BY <1>5, TypeUpdate
<1>6. CASE UNCHANGED vars
  BY <1>6 DEF TypeOK, vars, sessionVars, sessionRest, timeVars, rosterVars, readyVars, playVars
<1> QED BY <1>1, <1>2, <1>3, <1>4, <1>5, <1>6 DEF Next

(* The state of the server is well formed in every session: whoever is     *)
(* ready, waited for, in the game or recorded is connected, and the time   *)
(* and idleness counters stay in range.                                    *)
THEOREM TypeCorrect == Spec => []TypeOK
BY TypeInit, TypeNext, PTL DEF Spec

-----------------------------------------------------------------------------
(* The inductive invariant.                                                *)

(* The server starts in the inductive invariant.                           *)
LEMMA InvInit == Init => SessionInv
BY TypeInit
   DEF Init, SessionInv, ForcedByThisSession, TimesFollowState,
       NobodyInGameBeforeStart, RecordingOnlyInSession, EditModeHasAnEditor

(* Departures take nobody into the game, start no replay and end the edit  *)
(* mode, whoever leaves.                                                   *)
LEMMA InvRemove ==
    ASSUME SessionInv, NEW K \in SUBSET Entity, Remove(K)
    PROVE  SessionInv'
<1>1. TypeOK'
  BY TypeRemove DEF SessionInv
<1>2. ForcedByThisSession' /\ TimesFollowState'
  BY DEF SessionInv, Remove, timeVars, ForcedByThisSession, TimesFollowState
<1>3. NobodyInGameBeforeStart' /\ RecordingOnlyInSession'
  BY DEF SessionInv, Remove, Unlink, NobodyInGameBeforeStart, RecordingOnlyInSession
<1>4. EditModeHasAnEditor'
  BY DEF SessionInv, Remove, Unlink, EndEditMode, EditModeHasAnEditor
<1> QED BY <1>1, <1>2, <1>3, <1>4 DEF SessionInv

(* The network handlers and the commands keep the invariant: a forceend of *)
(* this session is marked as asked for, the reset command clears the times *)
(* and the replays together with the state.                                *)
LEMMA InvHandler ==
    ASSUME SessionInv, Handler
    PROVE  SessionInv'
<1> USE DEF SessionInv, ForcedByThisSession, TimesFollowState,
            NobodyInGameBeforeStart, RecordingOnlyInSession, EditModeHasAnEditor,
            sessionVars, sessionRest, timeVars, rosterVars, readyVars, playVars
<1>0. TypeOK'
  BY TypeHandler
<1>1. CASE \E c \in Client : Connect(c)
  BY <1>0, <1>1 DEF Connect, Add
<1>2. CASE \E c \in Client : Login(c)
  BY <1>0, <1>2 DEF Login
<1>3. CASE \E c \in Client : Disconnect(c)
  <2>1. PICK c \in Client : Disconnect(c)
    BY <1>3
  <2>2. {c} \in SUBSET Entity /\ Remove({c})
    BY <2>1 DEF Disconnect
  <2> HIDE DEF SessionInv
  <2> QED BY <2>2, InvRemove
<1>4. CASE \E c \in Client : Ready(c)
  BY <1>0, <1>4 DEF Ready
<1>5. CASE \E c \in Client : RequestFile(c)
  BY <1>0, <1>5 DEF RequestFile
<1>6. CASE \E c \in Client : ForceMessage(c)
  BY <1>0, <1>6 DEF ForceMessage
<1>7. CASE \E c \in Client, on \in BOOLEAN : SetEditMode(c, on)
  BY <1>0, <1>7 DEF SetEditMode
<1>8. CASE ForceEnd
  BY <1>0, <1>8 DEF ForceEnd
<1>9. CASE Reset
  BY <1>0, <1>9 DEF Reset, BackToLobby, ClearTimes, SaveAllValidReplay
<1>10. CASE \E b \in ConsoleBot : AddBot(b)
  BY <1>0, <1>10 DEF AddBot, Add
<1> HIDE DEF SessionInv
<1> QED BY <1>1, <1>2, <1>3, <1>4, <1>5, <1>6, <1>7, <1>8, <1>9, <1>10 DEF Handler

(* The update() of each session state keeps the invariant.                 *)
LEMMA InvUpdate ==
    ASSUME SessionInv, Update
    PROVE  SessionInv'
<1> USE DEF SessionInv, ForcedByThisSession, TimesFollowState,
            NobodyInGameBeforeStart, RecordingOnlyInSession, EditModeHasAnEditor,
            sessionVars, sessionRest, timeVars, rosterVars, readyVars, playVars
<1>0. TypeOK'
  BY TypeUpdate
<1>1. CASE Launch
  BY <1>0, <1>1 DEF Launch, HoldAll, NotForced
<1>2. CASE \E K \in SUBSET Client : Prepare(K)
  <2>1. PICK K \in SUBSET Client : Prepare(K)
    BY <1>2
  <2>2. /\ state = "WaitingReady" /\ state' = "WaitingStart"
        /\ startTimeSet' = TRUE
        /\ UNCHANGED <<forceEnding, asked, endTimeSet>>
        /\ Unlink(K)
    BY <2>1 DEF Prepare
  <2>3. ForcedByThisSession' /\ TimesFollowState' /\ RecordingOnlyInSession'
    BY <2>2
  <2>4. NobodyInGameBeforeStart' /\ EditModeHasAnEditor'
    BY <2>2 DEF Unlink, EndEditMode
  <2> QED BY <1>0, <2>3, <2>4
<1>3. CASE Start
  BY <1>0, <1>3 DEF Start
<1>4. CASE \E stopped \in BOOLEAN : Finish(stopped)
  <2>1. /\ state = "Running" /\ state' = "Ending"
        /\ endTimeSet' = TRUE
        /\ forceEnding' = FALSE
        /\ recording' = {}
        /\ UNCHANGED <<asked, startTimeSet, sinceStart>>
        /\ Unlink(TooLong)
    BY <1>4 DEF Finish, SaveAllValidReplay, EndTimeIsNow, NotForced
  <2>2. ForcedByThisSession' /\ TimesFollowState' /\ RecordingOnlyInSession'
    BY <2>1
  <2>3. NobodyInGameBeforeStart' /\ EditModeHasAnEditor'
    BY <2>1 DEF Unlink, EndEditMode
  <2> QED BY <1>0, <2>2, <2>3
<1>5. CASE Restart
  BY <1>0, <1>5 DEF Restart, BackToLobby, ClearTimes, SaveAllValidReplay
<1> QED BY <1>1, <1>2, <1>3, <1>4, <1>5 DEF Update

(* The clock keeps the invariant: while Running, StartTime only recedes.   *)
LEMMA InvTick ==
    ASSUME SessionInv, Tick
    PROVE  SessionInv'
<1>1. TypeOK'
  BY TypeTick DEF SessionInv
<1>2. TimesFollowState'
  <2>1. startTimeSet /\ sinceStart > 0 => sinceStart' > 0
    BY Limits DEF SessionInv, TypeOK, Tick, AtMost
  <2> QED BY <2>1 DEF SessionInv, Tick, TimesFollowState, sessionVars, sessionRest
<1>3. /\ ForcedByThisSession' /\ NobodyInGameBeforeStart'
      /\ RecordingOnlyInSession' /\ EditModeHasAnEditor'
  BY DEF SessionInv, Tick, ForcedByThisSession, NobodyInGameBeforeStart,
         RecordingOnlyInSession, EditModeHasAnEditor,
         sessionVars, sessionRest, rosterVars, playVars
<1> QED BY <1>1, <1>2, <1>3 DEF SessionInv

(* Every step keeps the invariant.                                         *)
LEMMA InvNext == SessionInv /\ [Next]_vars => SessionInv'
<1> SUFFICES ASSUME SessionInv, [Next]_vars PROVE SessionInv'
  OBVIOUS
<1>0. TypeOK'
  BY TypeNext DEF SessionInv
<1>1. CASE Tick
  BY <1>1, InvTick
<1>2. CASE Handler
  BY <1>2, InvHandler
<1>3. CASE \E e \in Entity : LeaveGame(e)
  BY <1>0, <1>3
     DEF SessionInv, LeaveGame, ForcedByThisSession, TimesFollowState,
         NobodyInGameBeforeStart, RecordingOnlyInSession, EditModeHasAnEditor,
         sessionVars, sessionRest, timeVars, rosterVars
<1>4. CASE FillWithBots
  <2>1. /\ entities \subseteq entities'
        /\ UNCHANGED <<sessionVars, timeVars, readyVars, playVars>>
    BY <1>4 DEF FillWithBots
  <2> QED
    BY <1>0, <2>1
       DEF SessionInv, ForcedByThisSession, TimesFollowState,
           NobodyInGameBeforeStart, RecordingOnlyInSession, EditModeHasAnEditor,
           sessionVars, sessionRest, timeVars, playVars
<1>5. CASE RemoveSpareBots
  <2>1. SpareBots \in SUBSET Entity
    BY DEF SpareBots
  <2> QED BY <1>5, <2>1, InvRemove DEF RemoveSpareBots
<1>6. CASE Update
  BY <1>6, InvUpdate
<1>7. CASE UNCHANGED vars
  BY <1>0, <1>7
     DEF SessionInv, ForcedByThisSession, TimesFollowState,
         NobodyInGameBeforeStart, RecordingOnlyInSession, EditModeHasAnEditor,
         vars, sessionVars, sessionRest, timeVars, rosterVars, playVars
<1> QED BY <1>1, <1>2, <1>3, <1>4, <1>5, <1>6, <1>7 DEF Next

(* The inductive invariant holds in every session.  Its parts need one     *)
(* another: that the commands are accepted only in a session rests on the  *)
(* times following the state, and that a forceend never outlives its       *)
(* session on ForceEnding being cleared with the same step that launches.  *)
THEOREM InvCorrect == Spec => []SessionInv
BY InvInit, InvNext, PTL DEF Spec

-----------------------------------------------------------------------------
(* What the invariant gives.                                               *)

(* A forceend never outlives the session it was issued in.                 *)
THEOREM ForcedCorrect == Spec => []ForcedByThisSession
<1>1. SessionInv => ForcedByThisSession
  BY DEF SessionInv
<1> QED BY <1>1, InvCorrect, PTL

(* The players' commands are acted on only in a session.                   *)
THEOREM InputCorrect == Spec => []InputOnlyInSession
<1>1. SessionInv => InputOnlyInSession
  BY DEF SessionInv, TimesFollowState, InputOnlyInSession, AcceptsInput
<1> QED BY <1>1, InvCorrect, PTL

(* A running game that is not being cut short obeys the players.           *)
THEOREM PlayCorrect == Spec => []PlayersCanPlay
<1>1. SessionInv => PlayersCanPlay
  BY DEF SessionInv, TypeOK, TimesFollowState, PlayersCanPlay, AcceptsInput
<1> QED BY <1>1, InvCorrect, PTL

(* Penguins are held until the game starts, replays are open only while it *)
(* is counted down and played, and no edit mode outlives its editors.      *)
THEOREM HeldCorrect ==
    Spec => [](NobodyInGameBeforeStart /\ RecordingOnlyInSession /\ EditModeHasAnEditor)
<1>1. SessionInv => NobodyInGameBeforeStart /\ RecordingOnlyInSession /\ EditModeHasAnEditor
  BY DEF SessionInv
<1> QED BY <1>1, InvCorrect, PTL

(* The session itself removes only who has let the loading time pass or    *)
(* has been away for too many games.                                       *)
THEOREM CauseCorrect == Spec => RemovedForCause
<1> DEFINE Cause(c) == \/ c \in Loading /\ TimedOut(c)
                       \/ c \in TooLong /\ state = "Running"
           ForCause == state' # state => \A c \in entities \ entities' : Cause(c)
<1>1. ASSUME [Next]_vars
      PROVE  ForCause
  <2>1. CASE Launch \/ Start \/ Reset \/ Restart
    BY <2>1 DEF Launch, Start, Reset, Restart, BackToLobby, rosterVars
  <2>2. ASSUME NEW K \in SUBSET Client, Prepare(K)
        PROVE  ForCause
    <3>1. entities' = entities \ K
      BY <2>2 DEF Prepare, Unlink
    <3>2. \A c \in K : c \in Loading /\ TimedOut(c)
      BY <2>2 DEF Prepare, EverybodyReady, IsFirst
    <3> QED BY <3>1, <3>2
  <2>3. ASSUME NEW stopped \in BOOLEAN, Finish(stopped)
        PROVE  ForCause
    BY <2>3 DEF Finish, Unlink
  <2>4. CASE Tick \/ FillWithBots \/ RemoveSpareBots \/ \E e \in Entity : LeaveGame(e)
    BY <2>4 DEF Tick, FillWithBots, RemoveSpareBots, Remove, LeaveGame, sessionVars
  <2>5. ASSUME Handler, ~Reset
        PROVE  state' = state
    BY <2>5 DEF Handler, Connect, Login, Disconnect, Remove, Ready, RequestFile, ForceMessage,
                SetEditMode, ForceEnd, AddBot, sessionVars
  <2>6. CASE UNCHANGED vars
    BY <2>6 DEF vars, sessionVars
  <2> QED BY <1>1, <2>1, <2>2, <2>3, <2>4, <2>5, <2>6 DEF Next, Update
<1>2. [Next]_vars => [ForCause]_vars
  BY <1>1
<1> QED BY <1>2, PTL DEF Spec, RemovedForCause

-----------------------------------------------------------------------------
(* The session implements the round.                                       *)

(* An idle, empty server is an idle, empty round.                          *)
LEMMA RoundInitially == Init => R!RoundInit
BY DEF Init, AcceptsInput, R!RoundInit

(* What leaves StartTime, EndTime and the clock alone leaves the players'  *)
(* commands accepted, or refused, as they were.                            *)
LEMMA SameInput ==
    ASSUME UNCHANGED <<startTimeSet, sinceStart, endTimeSet>>
    PROVE  AcceptsInput' = AcceptsInput
BY DEF AcceptsInput

(* remove() is a departure of the round: nobody else leaves the game, and  *)
(* the time for commands does not change.                                  *)
LEMMA RoundRemove ==
    ASSUME NEW K \in SUBSET Entity, Remove(K)
    PROVE  R!RoundNext
<1>1. UNCHANGED AcceptsInput
  BY SameInput DEF Remove, timeVars
<1>2. R!Depart(K)
  BY <1>1 DEF Remove, Unlink, R!Depart, R!Go
<1> QED BY <1>2 DEF R!RoundNext

(* The handlers and the commands are arrivals, departures or the           *)
(* abandoning of the round, or are not seen by it.                         *)
LEMMA RoundHandler ==
    ASSUME SessionInv, Handler
    PROVE  R!RoundNext \/ UNCHANGED <<state, entities, inGame, AcceptsInput>>
<1> USE DEF sessionVars, sessionRest, timeVars, rosterVars, playVars
<1>1. CASE \E c \in Client : Connect(c)
  <2>1. PICK c \in Client : Connect(c)
    BY <1>1
  <2>2. R!Arrive({c})
    BY <2>1, SameInput DEF Connect, Add, R!Arrive
  <2> QED BY <2>2 DEF R!RoundNext
<1>2. CASE \E c \in Client : Login(c)
  BY <1>2, SameInput DEF Login
<1>3. CASE \E c \in Client : Disconnect(c)
  BY <1>3, RoundRemove DEF Disconnect
<1>4. CASE \E c \in Client : Ready(c)
  BY <1>4, SameInput DEF Ready
<1>5. CASE \E c \in Client : RequestFile(c)
  BY <1>5, SameInput DEF RequestFile
<1>6. CASE \E c \in Client : ForceMessage(c)
  BY <1>6, SameInput DEF ForceMessage
<1>7. CASE \E c \in Client, on \in BOOLEAN : SetEditMode(c, on)
  BY <1>7, SameInput DEF SetEditMode
<1>8. CASE ForceEnd
  BY <1>8, SameInput DEF ForceEnd
<1>9. CASE Reset
  <2>1. R!Abandon
    BY <1>9 DEF Reset, BackToLobby, ClearTimes, AcceptsInput, R!Abandon
  <2> QED BY <2>1 DEF R!RoundNext
<1>10. CASE \E b \in ConsoleBot : AddBot(b)
  <2>1. PICK b \in ConsoleBot : AddBot(b)
    BY <1>10
  <2>2. R!Arrive({b})
    BY <2>1, SameInput DEF AddBot, Add, R!Arrive
  <2> QED BY <2>2 DEF R!RoundNext
<1> QED BY <1>1, <1>2, <1>3, <1>4, <1>5, <1>6, <1>7, <1>8, <1>9, <1>10 DEF Handler

(* Each update() of a session state is a step from one stage of the round  *)
(* to the next.                                                            *)
LEMMA RoundUpdate ==
    ASSUME SessionInv, Update
    PROVE  R!RoundNext
<1> USE DEF sessionVars, sessionRest, timeVars, rosterVars, playVars
<1>1. CASE Launch
  <2>1. R!Begin
    BY <1>1, SameInput DEF Launch, HoldAll, R!Begin
  <2> QED BY <2>1 DEF R!RoundNext
<1>2. CASE \E K \in SUBSET Client : Prepare(K)
  <2>1. PICK K \in SUBSET Client : Prepare(K)
    BY <1>2
  <2>2. AcceptsInput' \in BOOLEAN
    BY DEF AcceptsInput
  <2>3. R!CountDown(K)
    BY <2>1, <2>2 DEF Prepare, Unlink, R!CountDown, R!Go
  <2> QED BY <2>3 DEF R!RoundNext
<1>3. CASE Start
  <2>1. R!Play
    BY <1>3, SameInput DEF Start, R!Play
  <2> QED BY <2>1 DEF R!RoundNext
<1>4. CASE \E stopped \in BOOLEAN : Finish(stopped)
  <2>1. TooLong \in SUBSET Entity
    BY DEF TooLong, Away, SessionInv, TypeOK
  <2>2. R!End(TooLong)
    BY <1>4 DEF Finish, Unlink, EndTimeIsNow, AcceptsInput, R!End, R!Go
  <2> QED BY <2>1, <2>2 DEF R!RoundNext
<1>5. CASE Restart
  <2>1. R!Abandon
    BY <1>5 DEF Restart, BackToLobby, ClearTimes, AcceptsInput, R!Abandon
  <2> QED BY <2>1 DEF R!RoundNext
<1> QED BY <1>1, <1>2, <1>3, <1>4, <1>5 DEF Update

(* The clock opens the round to commands, in the states of a session only, *)
(* and never closes it.                                                    *)
LEMMA RoundTick ==
    ASSUME SessionInv, Tick
    PROVE  R!RoundNext \/ UNCHANGED <<state, entities, inGame, AcceptsInput>>
<1>1. UNCHANGED <<state, entities, inGame, startTimeSet, endTimeSet>>
  BY DEF Tick, sessionVars, rosterVars, playVars
<1>2. AcceptsInput => AcceptsInput'
  <2>1. startTimeSet /\ sinceStart >= 0 => sinceStart' >= 0
    BY Limits DEF SessionInv, TypeOK, Tick, AtMost
  <2> QED BY <1>1, <2>1 DEF AcceptsInput
<1>3. CASE AcceptsInput' = AcceptsInput
  BY <1>1, <1>3
<1>4. CASE AcceptsInput' # AcceptsInput
  <2>1. AcceptsInput' = TRUE
    BY <1>2, <1>4 DEF AcceptsInput
  <2>2. state \in {"WaitingStart", "Running"}
    BY <1>1, <2>1 DEF AcceptsInput, SessionInv, TimesFollowState
  <2>3. R!Open
    BY <1>1, <2>1, <2>2 DEF R!Open
  <2> QED BY <2>3 DEF R!RoundNext
<1> QED BY <1>3, <1>4

(* Every step of the session is a step of the round or is not seen by it.  *)
LEMMA RoundStep ==
    SessionInv /\ [Next]_vars => [R!RoundNext]_(<<state, entities, inGame, AcceptsInput>>)
<1> SUFFICES ASSUME SessionInv, [Next]_vars
             PROVE  R!RoundNext \/ UNCHANGED <<state, entities, inGame, AcceptsInput>>
  OBVIOUS
<1>1. CASE Tick
  BY <1>1, RoundTick
<1>2. CASE Handler
  BY <1>2, RoundHandler
<1>3. CASE \E e \in Entity : LeaveGame(e)
  <2>1. PICK e \in Entity : LeaveGame(e)
    BY <1>3
  <2>2. R!Out({e})
    BY <2>1, SameInput
       DEF LeaveGame, sessionVars, sessionRest, timeVars, rosterVars, R!Out
  <2> QED BY <2>2 DEF R!RoundNext
<1>4. CASE FillWithBots
  <2>1. PICK B \in SUBSET (AutoBot \ entities) : entities' = entities \cup B
    BY <1>4 DEF FillWithBots
  <2>2. R!Arrive(B)
    BY <1>4, <2>1, SameInput
       DEF FillWithBots, sessionVars, timeVars, playVars, R!Arrive
  <2> QED BY <2>2 DEF R!RoundNext
<1>5. CASE RemoveSpareBots
  <2>1. SpareBots \in SUBSET Entity
    BY DEF SpareBots
  <2> QED BY <1>5, <2>1, RoundRemove DEF RemoveSpareBots
<1>6. CASE Update
  BY <1>6, RoundUpdate
<1>7. CASE UNCHANGED vars
  BY <1>7, SameInput DEF vars, sessionVars, timeVars, rosterVars, playVars
<1> QED BY <1>1, <1>2, <1>3, <1>4, <1>5, <1>6, <1>7 DEF Next

(* The server keeps the promise of the round, with any number of players   *)
(* and bots and any setting of the timers.                                 *)
THEOREM RoundCorrect == Spec => ImplementsRound
<1>1. [R!RoundNext]_(<<state, entities, inGame, AcceptsInput>>) =>
        [R!RoundNext]_R!roundVars
  BY DEF R!roundVars
<1>2. SessionInv /\ [Next]_vars => [R!RoundNext]_R!roundVars
  BY <1>1, RoundStep
<1> QED BY <1>2, RoundInitially, InvCorrect, PTL DEF Spec, ImplementsRound, R!RoundSpec
=============================================================================
