--------------------------- MODULE Control_proofs ---------------------------
(***************************************************************************)
(* Machine-checked proofs about Control, for any clients, bots, levels and *)
(* limit of switches.                                                      *)
(***************************************************************************)
EXTENDS Control, TLAPS

USE DEF Entity, entities

-----------------------------------------------------------------------------
(* The server starts with nobody there.                                    *)
LEMMA InvInit == Init => Inv
<1> SUFFICES ASSUME Init PROVE Inv
  OBVIOUS
<1> USE ControlAssumption DEF Init
<1>1. TypeOK
  <2>1. /\ nbOpenClose \in [Entity -> 0 .. MaxOpenClose]
        /\ replay \in [Bot -> 0 .. MaxReplay]
    OBVIOUS
  <2> QED
    BY <2>1 DEF TypeOK, Phase
<1>2. AbsentAreReset /\ NoReplayLeft
  BY DEF AbsentAreReset, NoReplayLeft
<1>3. ClosedUntilStart /\ CountTellsOpen /\ InGameCanMove
  BY DEF ClosedUntilStart, CountTellsOpen, InGameCanMove
<1>4. FrozenForCause /\ PlayersAreInGame /\ ViewsAgree
  BY DEF FrozenForCause, PlayersAreInGame, ViewsAgree
<1> QED
  BY <1>1, <1>2, <1>3, <1>4 DEF Inv

-----------------------------------------------------------------------------
(* Type correctness.                                                       *)

(* A switch leaves an entity's count within the limit and the set of the   *)
(* open entities among the entities.                                       *)
LEMMA OpenCloseTypes ==
    ASSUME TypeOK, NEW e \in entities, MaySwitch(e), OpenClose(e)
    PROVE  /\ open' \subseteq entities
           /\ nbOpenClose' \in [Entity -> 0 .. MaxOpenClose]
BY ControlAssumption DEF TypeOK, MaySwitch, OpenClose, Swapped

(* A message about an entity makes no client show one that is not there.   *)
LEMMA TellTypes ==
    ASSUME TypeOK, NEW e \in entities, Tell(e)
    PROVE  sees' \in [Client -> SUBSET entities]
BY DEF TypeOK, Tell, Swapped

(* Every step keeps the types.                                             *)
LEMMA TypeNext ==
    ASSUME TypeOK, [Next]_vars
    PROVE  TypeOK'
<1> USE ControlAssumption DEF sessionVars, clientVars, gameVars,
           entityVars, rosterVars
<1>1. CASE Session
  <2>1. CASE Launch
    <3>1. nbOpenClose' \in [Entity -> 0 .. MaxOpenClose]
      BY <2>1 DEF Launch, RestartAll
    <3> QED
      BY <2>1, <3>1 DEF Launch, CloseAll, TypeOK, Phase
  <2>2. CASE Release \/ Finish \/ BackToLobby \/ StartTimeComes
    BY <2>2 DEF Release, Finish, BackToLobby, StartTimeComes, TypeOK, Phase
  <2>3. CASE Prepare
    BY <2>3 DEF Prepare, TypeOK, Phase
  <2>4. CASE Start
    BY <2>4 DEF Start, EnterGame, TypeOK, Phase
  <2> QED
    BY <1>1, <2>1, <2>2, <2>3, <2>4 DEF Session
<1>2. ASSUME NEW c \in Client, Connect(c) \/ Login(c) PROVE TypeOK'
  BY <1>2 DEF Connect, Login, TypeOK
<1>3. ASSUME NEW c \in Client, Load(c) PROVE TypeOK'
  BY <1>3 DEF Load, TypeOK
<1>4. ASSUME NEW c \in Client, PlayerSwitch(c) PROVE TypeOK'
  BY <1>4, OpenCloseTypes, TellTypes DEF PlayerSwitch, TypeOK
<1>5. ASSUME NEW b \in Bot, AddBot(b) PROVE TypeOK'
  BY <1>5 DEF AddBot, TypeOK
<1>6. ASSUME NEW b \in Bot, BotSwitch(b) PROVE TypeOK'
  <2>1. open' \subseteq entities /\ nbOpenClose' \in [Entity -> 0 .. MaxOpenClose]
    BY <1>6, OpenCloseTypes DEF BotSwitch, TypeOK
  <2>2. sees' \in [Client -> SUBSET entities]
    BY <1>6, TellTypes DEF BotSwitch
  <2>3. replay' \in [Bot -> 0 .. MaxReplay]
    BY <1>6 DEF BotSwitch, TypeOK
  <2> QED
    BY <1>6, <2>1, <2>2, <2>3 DEF BotSwitch, TypeOK
<1>7. ASSUME NEW e \in Entity, Remove(e) PROVE TypeOK'
  BY <1>7 DEF Remove, TypeOK
<1>8. ASSUME NEW e \in Entity, Crash(e) PROVE TypeOK'
  BY <1>8 DEF Crash, FreezeCrashed, TypeOK
<1>9. ASSUME NEW e \in Entity, OnTarget(e) PROVE TypeOK'
  BY <1>9, TellTypes DEF OnTarget, SetOpenCloseCount, TypeOK
<1>10. ASSUME NEW e \in Entity, Water(e) PROVE TypeOK'
  <2>1. sees' \in [Client -> SUBSET entities]
    BY <1>10, TellTypes DEF Water, SetOpenCloseCount, TypeOK
  <2> QED
    BY <1>10, <2>1 DEF Water, TouchWater, SetOpenCloseCount, TypeOK
<1>11. ASSUME NEW c \in Client, NEW e \in Entity, EnterWater(c, e)
      PROVE  TypeOK'
  BY <1>11 DEF EnterWater, TypeOK, Swapped
<1>12. CASE UNCHANGED vars
  BY <1>12 DEF vars, TypeOK
<1> QED
  BY <1>1, <1>2, <1>3, <1>4, <1>5, <1>6, <1>7, <1>8, <1>9, <1>10, <1>11, <1>12 DEF Next

-----------------------------------------------------------------------------
(* The parts of the invariant, each with the actions that disturb it.      *)

(* Whoever leaves is reset.                                                *)
LEMMA AbsentNext ==
    ASSUME Inv, [Next]_vars
    PROVE  AbsentAreReset'
<1> USE DEF Inv, TypeOK, AbsentAreReset, sessionVars, clientVars, gameVars,
           entityVars, rosterVars
<1>1. CASE Session
  BY <1>1 DEF Session, Launch, Release, Prepare, StartTimeComes, Start, Finish,
              BackToLobby, RestartAll
<1>2. ASSUME NEW c \in Client, Connect(c) \/ Login(c) \/ Load(c) \/ PlayerSwitch(c)
      PROVE  AbsentAreReset'
  BY <1>2 DEF Connect, Login, Load, PlayerSwitch, OpenClose
<1>3. ASSUME NEW b \in Bot, AddBot(b) \/ BotSwitch(b) PROVE AbsentAreReset'
  BY <1>3 DEF AddBot, BotSwitch, OpenClose
<1>4. ASSUME NEW e \in Entity, Remove(e) PROVE AbsentAreReset'
  BY <1>4, ControlAssumption DEF Remove
<1>5. ASSUME NEW e \in Entity, Crash(e) \/ OnTarget(e) \/ Water(e)
      PROVE  AbsentAreReset'
  BY <1>5 DEF Crash, OnTarget, Water, SetOpenCloseCount
<1>6. ASSUME NEW c \in Client, NEW e \in Entity, EnterWater(c, e)
      PROVE  AbsentAreReset'
  BY <1>6 DEF EnterWater
<1>7. CASE UNCHANGED vars
  BY <1>7 DEF vars
<1> QED
  BY <1>1, <1>2, <1>3, <1>4, <1>5, <1>6, <1>7 DEF Next

(* The launch waits for the bots to be done with their replays.            *)
LEMMA NoReplayNext ==
    ASSUME Inv, [Next]_vars
    PROVE  NoReplayLeft'
<1> USE DEF Inv, TypeOK, NoReplayLeft, sessionVars, clientVars, gameVars,
           entityVars, rosterVars
<1>1. CASE Session
  BY <1>1 DEF Session, Launch, Release, Prepare, StartTimeComes, Start, Finish,
              BackToLobby, Unfinished, AbsentAreReset
<1>2. ASSUME NEW c \in Client, Connect(c) \/ Login(c) \/ Load(c) \/ PlayerSwitch(c)
      PROVE  NoReplayLeft'
  BY <1>2 DEF Connect, Login, Load, PlayerSwitch
<1>3. ASSUME NEW b \in Bot, AddBot(b) \/ BotSwitch(b) PROVE NoReplayLeft'
  BY <1>3 DEF AddBot, BotSwitch
<1>4. ASSUME NEW e \in Entity, Remove(e) PROVE NoReplayLeft'
  BY <1>4 DEF Remove
<1>5. ASSUME NEW e \in Entity, Crash(e) \/ OnTarget(e) \/ Water(e)
      PROVE  NoReplayLeft'
  BY <1>5 DEF Crash, OnTarget, Water
<1>6. ASSUME NEW c \in Client, NEW e \in Entity, EnterWater(c, e)
      PROVE  NoReplayLeft'
  BY <1>6 DEF EnterWater
<1>7. CASE UNCHANGED vars
  BY <1>7 DEF vars
<1> QED
  BY <1>1, <1>2, <1>3, <1>4, <1>5, <1>6, <1>7 DEF Next

(* Before the start time comes only a bot with a replay could switch.      *)
LEMMA ClosedNext ==
    ASSUME Inv, [Next]_vars
    PROVE  ClosedUntilStart'
<1> USE DEF Inv, TypeOK, ClosedUntilStart, sessionVars, clientVars, gameVars,
           entityVars, rosterVars
<1>1. CASE Session
  BY <1>1 DEF Session, Launch, Release, Prepare, StartTimeComes, Start, Finish,
              BackToLobby, CloseAll
<1>2. ASSUME NEW c \in Client, Connect(c) \/ Login(c) \/ Load(c) \/ PlayerSwitch(c)
      PROVE  ClosedUntilStart'
  BY <1>2 DEF Connect, Login, Load, PlayerSwitch, InSession
<1>3. ASSUME NEW b \in Bot, AddBot(b) \/ BotSwitch(b) PROVE ClosedUntilStart'
  BY <1>3 DEF AddBot, BotSwitch, NoStartTime, NoReplayLeft
<1>4. ASSUME NEW e \in Entity, Remove(e) PROVE ClosedUntilStart'
  BY <1>4 DEF Remove
<1>5. ASSUME NEW e \in Entity, Crash(e) \/ OnTarget(e) \/ Water(e)
      PROVE  ClosedUntilStart'
  BY <1>5 DEF Crash, OnTarget, Water
<1>6. ASSUME NEW c \in Client, NEW e \in Entity, EnterWater(c, e)
      PROVE  ClosedUntilStart'
  BY <1>6 DEF EnterWater
<1>7. CASE UNCHANGED vars
  BY <1>7 DEF vars
<1> QED
  BY <1>1, <1>2, <1>3, <1>4, <1>5, <1>6, <1>7 DEF Next

(* A switch changes the parity of the count with the state.                *)
LEMMA SwitchCounts ==
    ASSUME Inv, NEW e \in entities, MaySwitch(e), OpenClose(e),
           UNCHANGED <<players, bots>>
    PROVE  CountTellsOpen'
<1> USE ControlAssumption DEF Inv, TypeOK
<1> SUFFICES ASSUME NEW f \in entities
             PROVE  /\ nbOpenClose'[f] < MaxOpenClose =>
                         (f \in open' <=> nbOpenClose'[f] % 2 = 1)
                    /\ f \notin open' => nbOpenClose'[f] % 2 = 0
  BY DEF CountTellsOpen
<1>1. CASE f = e
  <2>1. /\ nbOpenClose[e] \in Nat
        /\ nbOpenClose'[e] = nbOpenClose[e] + 1
        /\ e \in open' <=> e \notin open
    BY DEF OpenClose, Swapped
  <2>2. e \in open <=> nbOpenClose[e] % 2 = 1
    BY DEF MaySwitch, CountTellsOpen
  <2>3. (nbOpenClose[e] + 1) % 2 = 1 <=> nbOpenClose[e] % 2 = 0
    BY <2>1
  <2>4. /\ nbOpenClose[e] % 2 \in {0, 1}
        /\ (nbOpenClose[e] + 1) % 2 \in {0, 1}
    BY <2>1
  <2> QED
    BY <1>1, <2>1, <2>2, <2>3, <2>4
<1>2. CASE f # e
  <2>1. nbOpenClose'[f] = nbOpenClose[f] /\ (f \in open' <=> f \in open)
    BY <1>2 DEF OpenClose, Swapped
  <2> QED
    BY <2>1 DEF CountTellsOpen
<1> QED
  BY <1>1, <1>2

(* A level's Lua sets the count of closed entities only, and to zero.      *)
LEMMA CountSet ==
    ASSUME Inv, NEW e \in entities \ open, SetOpenCloseCount(e, 0),
           UNCHANGED <<players, bots, open>>
    PROVE  CountTellsOpen'
BY DEF Inv, TypeOK, CountTellsOpen, SetOpenCloseCount

(* The count goes on telling who is open.                                  *)
LEMMA CountNext ==
    ASSUME Inv, [Next]_vars
    PROVE  CountTellsOpen'
<1> USE DEF sessionVars, clientVars, gameVars, entityVars, rosterVars
<1>1. CASE Session
  <2>1. CASE Launch
    BY <2>1 DEF Inv, TypeOK, CountTellsOpen, Launch, CloseAll, RestartAll
  <2> QED
    BY <1>1, <2>1 DEF Inv, CountTellsOpen, Session, Release, Prepare,
                      StartTimeComes, Start, Finish, BackToLobby
<1>2. ASSUME NEW c \in Client, Connect(c) \/ Login(c) \/ Load(c)
      PROVE  CountTellsOpen'
  <2>1. CASE Connect(c)
    <3>1. players' = players \cup {c}
      BY <2>1 DEF Connect
    <3>2. nbOpenClose[c] = 0 /\ c \notin open
      BY <2>1, ControlAssumption DEF Connect, Inv, AbsentAreReset, TypeOK
    <3> QED
      BY <2>1, <3>1, <3>2 DEF Connect, Inv, CountTellsOpen
  <2>2. CASE Login(c) \/ Load(c)
    BY <2>2 DEF Login, Load, Inv, CountTellsOpen
  <2> QED
    BY <1>2, <2>1, <2>2
<1>3. ASSUME NEW c \in Client, PlayerSwitch(c) PROVE CountTellsOpen'
  <2>1. c \in entities
    BY <1>3 DEF PlayerSwitch, Inv, TypeOK
  <2> QED
    BY <1>3, <2>1, SwitchCounts DEF PlayerSwitch
<1>4. ASSUME NEW b \in Bot, AddBot(b) PROVE CountTellsOpen'
  <2>1. nbOpenClose[b] = 0 /\ b \notin open
    BY <1>4, ControlAssumption DEF AddBot, Inv, AbsentAreReset, TypeOK
  <2> QED
    BY <1>4, <2>1 DEF AddBot, Inv, CountTellsOpen
<1>5. ASSUME NEW b \in Bot, BotSwitch(b) PROVE CountTellsOpen'
  <2>1. CASE MaySwitch(b) /\ OpenClose(b)
    BY <1>5, <2>1, SwitchCounts DEF BotSwitch
  <2>2. CASE UNCHANGED <<open, nbOpenClose>>
    BY <1>5, <2>2 DEF BotSwitch, Inv, CountTellsOpen
  <2> QED
    BY <1>5, <2>1, <2>2 DEF BotSwitch
<1>6. ASSUME NEW e \in Entity, Remove(e) PROVE CountTellsOpen'
  BY <1>6 DEF Remove, Inv, TypeOK, CountTellsOpen
<1>7. ASSUME NEW e \in Entity, Crash(e) PROVE CountTellsOpen'
  BY <1>7, ControlAssumption DEF Crash, Inv, TypeOK, CountTellsOpen
<1>8. ASSUME NEW e \in Entity, OnTarget(e) PROVE CountTellsOpen'
  BY <1>8, CountSet DEF OnTarget, ExtraBall
<1>9. ASSUME NEW e \in Entity, Water(e) PROVE CountTellsOpen'
  <2>1. CASE ExtraBall(e)
    BY <1>9, <2>1, CountSet DEF Water, ExtraBall
  <2>2. CASE ~ExtraBall(e)
    BY <1>9, <2>2 DEF Water, Inv, CountTellsOpen
  <2> QED
    BY <2>1, <2>2
<1>10. ASSUME NEW c \in Client, NEW e \in Entity, EnterWater(c, e)
      PROVE  CountTellsOpen'
  BY <1>10 DEF EnterWater, Inv, CountTellsOpen
<1>11. CASE UNCHANGED vars
  BY <1>11 DEF vars, Inv, CountTellsOpen
<1> QED
  BY <1>1, <1>2, <1>3, <1>4, <1>5, <1>6, <1>7, <1>8, <1>9, <1>10, <1>11 DEF Next

(* A crash freezes an entity and takes it out of the game in one.          *)
LEMMA InGameNext ==
    ASSUME Inv, [Next]_vars
    PROVE  InGameCanMove'
<1> USE DEF Inv, TypeOK, InGameCanMove, sessionVars, clientVars, gameVars,
           entityVars, rosterVars
<1>1. CASE Session
  BY <1>1 DEF Session, Launch, Release, Prepare, StartTimeComes, Start, Finish,
              BackToLobby
<1>2. ASSUME NEW c \in Client, Connect(c) \/ Login(c) \/ Load(c) \/ PlayerSwitch(c)
      PROVE  InGameCanMove'
  BY <1>2, ControlAssumption DEF Connect, Login, Load, PlayerSwitch
<1>3. ASSUME NEW b \in Bot, AddBot(b) \/ BotSwitch(b) PROVE InGameCanMove'
  BY <1>3, ControlAssumption DEF AddBot, BotSwitch
<1>4. ASSUME NEW e \in Entity, Remove(e) PROVE InGameCanMove'
  BY <1>4 DEF Remove
<1>5. ASSUME NEW e \in Entity, Crash(e) \/ OnTarget(e) \/ Water(e)
      PROVE  InGameCanMove'
  BY <1>5 DEF Crash, FreezeCrashed, OnTarget, Water, TouchWater
<1>6. ASSUME NEW c \in Client, NEW e \in Entity, EnterWater(c, e)
      PROVE  InGameCanMove'
  BY <1>6 DEF EnterWater
<1>7. CASE UNCHANGED vars
  BY <1>7 DEF vars
<1> QED
  BY <1>1, <1>2, <1>3, <1>4, <1>5, <1>6, <1>7 DEF Next

(* Who crashes is open, and cannot close any more.                         *)
LEMMA FrozenNext ==
    ASSUME Inv, [Next]_vars
    PROVE  FrozenForCause'
<1> USE DEF Inv, TypeOK, FrozenForCause, sessionVars, clientVars, gameVars,
           entityVars, rosterVars
<1>1. CASE Session
  BY <1>1 DEF Session, Launch, Release, Prepare, StartTimeComes, Start, Finish,
              BackToLobby, EnterGame
<1>2. ASSUME NEW c \in Client, Connect(c) \/ Login(c) \/ Load(c)
      PROVE  FrozenForCause'
  BY <1>2, ControlAssumption DEF Connect, Login, Load
<1>3. ASSUME NEW c \in Client, PlayerSwitch(c) PROVE FrozenForCause'
  BY <1>3 DEF PlayerSwitch, MaySwitch, OpenClose, Swapped
<1>4. ASSUME NEW b \in Bot, AddBot(b) \/ BotSwitch(b) PROVE FrozenForCause'
  BY <1>4, ControlAssumption DEF AddBot, BotSwitch, OpenClose, Swapped
<1>5. ASSUME NEW e \in Entity, Remove(e) PROVE FrozenForCause'
  BY <1>5 DEF Remove
<1>6. ASSUME NEW e \in Entity, Crash(e) \/ OnTarget(e) \/ Water(e)
      PROVE  FrozenForCause'
  BY <1>6 DEF Crash, FreezeCrashed, OnTarget, Water
<1>7. ASSUME NEW c \in Client, NEW e \in Entity, EnterWater(c, e)
      PROVE  FrozenForCause'
  BY <1>7 DEF EnterWater
<1>8. CASE UNCHANGED vars
  BY <1>8 DEF vars
<1> QED
  BY <1>1, <1>2, <1>3, <1>4, <1>5, <1>6, <1>7, <1>8 DEF Next

(* An extra ball unfreezes nobody who is a player of a running game.       *)
LEMMA NoPlayerUnfrozen ==
    ASSUME Inv, NEW e \in players, phase = "Running", ExtraBall(e)
    PROVE  e \notin frozen
BY DEF Inv, FrozenForCause, ExtraBall, HearsLua

(* A player of a running game is in it, frozen or on the water.            *)
LEMMA PlayersNext ==
    ASSUME Inv, [Next]_vars
    PROVE  PlayersAreInGame'
<1> USE DEF Inv, TypeOK, PlayersAreInGame, sessionVars, clientVars, gameVars,
           entityVars, rosterVars
<1>1. CASE Session
  BY <1>1 DEF Session, Launch, Release, Prepare, StartTimeComes, Start, Finish,
              BackToLobby, EnterGame
<1>2. ASSUME NEW c \in Client, Connect(c) \/ Login(c) \/ Load(c) \/ PlayerSwitch(c)
      PROVE  PlayersAreInGame'
  BY <1>2 DEF Connect, Login, Load, PlayerSwitch
<1>3. ASSUME NEW b \in Bot, AddBot(b) \/ BotSwitch(b) PROVE PlayersAreInGame'
  BY <1>3 DEF AddBot, BotSwitch
<1>4. ASSUME NEW e \in Entity, Remove(e) PROVE PlayersAreInGame'
  BY <1>4 DEF Remove
<1>5. ASSUME NEW e \in Entity, Crash(e) \/ OnTarget(e) PROVE PlayersAreInGame'
  BY <1>5 DEF Crash, FreezeCrashed, OnTarget
<1>6. ASSUME NEW e \in Entity, Water(e) PROVE PlayersAreInGame'
  BY <1>6, NoPlayerUnfrozen DEF Water, TouchWater
<1>7. ASSUME NEW c \in Client, NEW e \in Entity, EnterWater(c, e)
      PROVE  PlayersAreInGame'
  BY <1>7 DEF EnterWater
<1>8. CASE UNCHANGED vars
  BY <1>8 DEF vars
<1> QED
  BY <1>1, <1>2, <1>3, <1>4, <1>5, <1>6, <1>7, <1>8 DEF Next

-----------------------------------------------------------------------------
(* What the clients show.                                                  *)

(* A switch that is told keeps a view as right or as wrong as it was.      *)
LEMMA SwitchIsSeen ==
    ASSUME Inv, NEW e \in entities, OpenClose(e), Tell(e),
           UNCHANGED <<players, networkReady, wrong, newSession>>
    PROVE  ViewsAgree'
BY DEF Inv, TypeOK, ViewsAgree, OpenClose, Tell, Swapped

(* A message to say that a bot has switched changes no view of a player.   *)
LEMMA BotIsNotSeen ==
    ASSUME Inv, NEW b \in bots, Tell(b),
           UNCHANGED <<players, networkReady, open, wrong, newSession>>
    PROVE  ViewsAgree'
BY ControlAssumption DEF Inv, TypeOK, ViewsAgree, Tell, Swapped

(* The count of a closed entity is even, so that nobody is told of a       *)
(* switch when a level sets it to zero.                                    *)
LEMMA NothingToTell ==
    ASSUME Inv, NEW e \in entities \ open, SetOpenCloseCount(e, 0)
    PROVE  UNCHANGED sees
<1>1. nbOpenClose[e] % 2 = 0 % 2
  BY DEF Inv, CountTellsOpen
<1> QED
  BY <1>1 DEF SetOpenCloseCount

(* What makes a view wrong, or right again, is recorded.                   *)
LEMMA ViewsNext ==
    ASSUME Inv, [Next]_vars
    PROVE  ViewsAgree'
<1> USE DEF Inv, TypeOK, sessionVars, clientVars, gameVars,
           entityVars, rosterVars
<1>1. CASE Session
  BY <1>1 DEF ViewsAgree, Session, Launch, Release, Prepare, StartTimeComes,
              Start, Finish, BackToLobby, CloseAll
<1>2. ASSUME NEW c \in Client, Connect(c) \/ Login(c) PROVE ViewsAgree'
  BY <1>2, ControlAssumption DEF ViewsAgree, Connect, Login
<1>3. ASSUME NEW c \in Client, Load(c) PROVE ViewsAgree'
  BY <1>3 DEF ViewsAgree, Load
<1>4. ASSUME NEW c \in Client, PlayerSwitch(c) PROVE ViewsAgree'
  <2>1. c \in entities
    BY <1>4 DEF PlayerSwitch
  <2> QED
    BY <1>4, <2>1, SwitchIsSeen DEF PlayerSwitch
<1>5. ASSUME NEW b \in Bot, AddBot(b) PROVE ViewsAgree'
  BY <1>5 DEF ViewsAgree, AddBot
<1>6. ASSUME NEW b \in Bot, BotSwitch(b) PROVE ViewsAgree'
  <2>1. CASE OpenClose(b)
    BY <1>6, <2>1, SwitchIsSeen DEF BotSwitch
  <2>2. CASE UNCHANGED open
    BY <1>6, <2>2, BotIsNotSeen DEF BotSwitch
  <2> QED
    BY <1>6, <2>1, <2>2 DEF BotSwitch
<1>7. ASSUME NEW e \in Entity, Remove(e) PROVE ViewsAgree'
  BY <1>7, ControlAssumption DEF ViewsAgree, Remove
<1>8. ASSUME NEW e \in Entity, Crash(e) PROVE ViewsAgree'
  BY <1>8 DEF ViewsAgree, Crash
<1>9. ASSUME NEW e \in Entity, OnTarget(e) \/ Water(e) PROVE ViewsAgree'
  <2>1. UNCHANGED sees
    BY <1>9, NothingToTell DEF OnTarget, Water, ExtraBall
  <2> QED
    BY <1>9, <2>1 DEF ViewsAgree, OnTarget, Water
<1>10. ASSUME NEW c \in Client, NEW e \in Entity, EnterWater(c, e)
      PROVE  ViewsAgree'
  BY <1>10 DEF EnterWater, ViewsAgree, Swapped
<1>11. CASE UNCHANGED vars
  BY <1>11 DEF ViewsAgree, vars
<1> QED
  BY <1>1, <1>2, <1>3, <1>4, <1>5, <1>6, <1>7, <1>8, <1>9, <1>10, <1>11 DEF Next

-----------------------------------------------------------------------------
(* The theorems.                                                           *)

(* Every step keeps the invariant.                                         *)
LEMMA InvNext == Inv /\ [Next]_vars => Inv'
<1> SUFFICES ASSUME Inv, [Next]_vars PROVE Inv'
  OBVIOUS
<1>1. TypeOK'
  BY TypeNext DEF Inv
<1> QED
  BY <1>1, AbsentNext, NoReplayNext, ClosedNext, CountNext, InGameNext,
     FrozenNext, PlayersNext, ViewsNext
  DEF Inv

(* The invariant holds at all times.                                       *)
THEOREM InvCorrect == Spec => []Inv
BY InvInit, InvNext, PTL DEF Spec

(* The variables have their types.                                         *)
THEOREM TypeCorrect == Spec => []TypeOK
<1>1. Inv => TypeOK
  BY DEF Inv
<1> QED
  BY <1>1, InvCorrect, PTL

(* No entity is open between the launch of a session and its start time.   *)
THEOREM ClosedCorrect == Spec => []ClosedUntilStart
<1>1. Inv => ClosedUntilStart
  BY DEF Inv
<1> QED
  BY <1>1, InvCorrect, PTL

(* The count of switches tells who is open, whatever the levels' Lua does. *)
THEOREM CountCorrect == Spec => []CountTellsOpen
<1>1. Inv => CountTellsOpen
  BY DEF Inv
<1> QED
  BY <1>1, InvCorrect, PTL

(* The flags that say who plays agree.                                     *)
THEOREM GameCorrect == Spec => [](InGameCanMove /\ PlayersAreInGame)
<1>1. Inv => InGameCanMove /\ PlayersAreInGame
  BY DEF Inv
<1> QED
  BY <1>1, InvCorrect, PTL

(* A client in the level shows every player as it is, but for those it     *)
(* came to show wrong by itself, late or in the water: bots, crashes,      *)
(* departures, extra balls and messages put no view out of step.           *)
THEOREM ViewsCorrect == Spec => []ViewsAgree
<1>1. Inv => ViewsAgree
  BY DEF Inv
<1> QED
  BY <1>1, InvCorrect, PTL

(* No step of a running game unfreezes a player.                           *)
LEMMA OutStep ==
    ASSUME Inv, [Next]_vars, phase = "Running", phase' = "Running"
    PROVE  frozen \cap players \cap players' \subseteq frozen'
<1> USE DEF Inv, TypeOK, sessionVars, clientVars, gameVars,
           entityVars, rosterVars
<1>1. CASE Session
  BY <1>1 DEF Session, Launch, Release, Prepare, StartTimeComes, Start, Finish,
              BackToLobby
<1>2. ASSUME NEW c \in Client, Connect(c) \/ Login(c) \/ Load(c) \/ PlayerSwitch(c)
      PROVE  frozen \subseteq frozen'
  BY <1>2 DEF Connect, Login, Load, PlayerSwitch
<1>3. ASSUME NEW b \in Bot, AddBot(b) \/ BotSwitch(b) PROVE frozen \subseteq frozen'
  BY <1>3 DEF AddBot, BotSwitch
<1>4. ASSUME NEW e \in Entity, Remove(e)
      PROVE  frozen \cap players \cap players' \subseteq frozen'
  BY <1>4 DEF Remove
<1>5. ASSUME NEW e \in Entity, Crash(e) \/ OnTarget(e) PROVE frozen \subseteq frozen'
  BY <1>5 DEF Crash, FreezeCrashed, OnTarget
<1>6. ASSUME NEW e \in Entity, Water(e)
      PROVE  frozen \cap players \cap players' \subseteq frozen'
  BY <1>6, NoPlayerUnfrozen DEF Water
<1>7. ASSUME NEW c \in Client, NEW e \in Entity, EnterWater(c, e)
      PROVE  frozen \cap players \cap players' \subseteq frozen'
  BY <1>7 DEF EnterWater
<1>8. CASE UNCHANGED vars
  BY <1>8 DEF vars
<1> QED
  BY <1>1, <1>2, <1>3, <1>4, <1>5, <1>6, <1>7, <1>8 DEF Next

(* A player who is out stays out until the game is over.                   *)
THEOREM OutCorrect == Spec => OutStaysOut
<1>1. Inv /\ [Next]_vars =>
        [ phase = "Running" /\ phase' = "Running" =>
            frozen \cap players \cap players' \subseteq frozen' ]_vars
  BY OutStep
<1> QED
  BY <1>1, InvCorrect, PTL DEF Spec, OutStaysOut
=============================================================================
