# Formal verification of the Mtp-Target server

Mtp-Target is an on-line game: up to sixteen penguins roll down a slope, open
into gliders, and try to land on a target. This directory specifies the server
of the game, the part of the client that mirrors it, the download of levels and
the chat server, in TLA+; it checks the specifications with TLC on small instances and proves the most important
results with TLAPS for instances of any size.

Contents: 1 the system, 2 the modules, 3 from the code to the models, 4 the
runs, 5 fairness, 6 the proofs, 7 findings, 8 what is only model-checked and
what is not modelled, 9 the plan.

Paths are relative to the repository; `server/src/` is shortened to `s/` and
`client/src/` to `c/`.

## 1. The system

The server is one process with one thread for the game (`s/main.cpp:142`): it
reads the sockets and runs the handler of each message to its end, steps the
physics, updates the entities and the level, calls `update()` on the current
session state, and starts again. Clients connect over TCP. A separate login
service announces each player to the server with a cookie.

| Part | State it keeps | Operations | Works with |
|---|---|---|---|
| Session (`s/session_manager.cpp`, `s/*_session_state.cpp`) | current state, `StartTime`, `EndTime`, `ForceEnding`, edit mode | `update()` of five states; `reset`, `forceend` | reads the entities, broadcasts StartSession, EverybodyReady, EndSession |
| Entity manager (`s/entity_manager.cpp`) | the list of entities, `IdUpdateList`, the team cache | add, remove, login, bots, readiness, idle count, switches | called by the handlers, the session and the Lua proxies |
| Entities (`s/entity.cpp`, `client.cpp`, `bot.cpp`) | open, number of switches, frozen, in the game, ready, waiting, force received, replay | `openClose`, `setForce`, `update`, `reset` | physics contacts, Lua callbacks |
| Network (`s/network.cpp`) | update counter, ping number, last positions sent | `update()`, `send` | entities, `common/custom_floating_point.cpp` |
| Handlers (`s/net_callbacks.cpp`, `s/command.cpp`) | none | one per message or command | all of the above |
| Physics and Lua (`s/physics.cpp`, `s/lua_engine.cpp`, `server/data/lua`) | bodies, contacts, one script per level | contacts, level events | write the entities |
| Levels and votes (`s/level_manager.cpp`) | current level, `NextLevelId` | `newLevel`, `release`, votes | called by the launch |
| Client mirror (`c/net_callbacks.cpp`, `c/entity_manager.cpp`, `c/entity.cpp`) | the entities it knows, where and how it shows them | one handler per message; loading a level | the server's messages only |
| Download (`s/net_callbacks.cpp`, `c/resource_manager.cpp`) | on the server the packed files, on each client one transfer and the list of files checked | key request, chunk request, notice; `get()` | restarts the loading time |
| Admission (`s/welcome.cpp`, `login_service`, `login-service-deno`) | cookies, users on line | announce, consume, report | the handlers of login and departure |
| Chat server (`chat/src/`) | users and accounts in one list, pending users, channels, the database | one line of a user, one round of the loop, a restart by signal | nothing of the above; clients of its own |

What is hard here, and what correctness means:

* **The session** is a state machine whose `update()` reads flags and times that
  handlers, commands, other states and the clock set at any moment. Correct
  means: every round is played in order, commands of the players are acted on
  from the end of the countdown to the end of the game and at no other time, a
  flag set for one session does not act on the next, nobody is removed but for
  a cause, and the session never waits for ever.
* **The mirror**: the frequent position messages name nobody. Server and client
  agree on who the n-th entity is only because both have seen the same arrivals
  and departures, with identifiers that are given out again at once. Correct
  means: each difference reaches the entity it was taken from, and each client
  is soon and always near the truth.
* **The switches**: a message that *toggles* is broadcast, so one too many or one
  too few is never repaired within a session. Correct means: a client shows
  open those that are open; and the rules (limit, crash, extra ball) hold in
  whatever order contacts, scripts and commands come.
* **The difference code** is a hand-made floating point of ten bits. Correct means
  that the client decodes what the server accounts for, and that what is
  rounded away is made good.
* **The scores** are written by scripts, contacts and the end of a game, kept in
  three places and shown by every client from messages that only tell changes.
  Correct means: totals agree everywhere, a game pays for what was done in it, and
  the bonuses go to those who earned them.
* **The next level** is one 8-bit number with three writers. Correct means: votes
  decide as documented, the rotation keeps its order and leaves no level out, and
  what was announced is what is played.
* **The ping** is measured by numbers of 8 bits that come round every few seconds.
  Correct means: the time taken is that of the update the client answered.

* **The download** waits for answers that do not say what they answer, while files
  are replaced and connections lost. Correct means: what a client counts as
  checked is whole and is what the server hands out, and every wait ends.
* **The chat server** keeps people who have left in the same list as those who are
  there, until the next round of its loop. Correct means: one owner per name, counts
  that agree with the people, and nothing lost in a restart that should last.

The full list of hazards, each at its line, is in `PROJECT.json`.

## 2. The modules

| Module | What it is |
|---|---|
| `Session` | the session with the entities, handlers, commands and clock it depends on; safety and liveness properties |
| `Round` | abstract specification: what the session promises the players |
| `SessionRound` | the refinement mapping from `Session` to `Round` |
| `MCSession` | the constants of the instances of `Session` |
| `Session_proofs` | theorems about `Session`, and the refinement |
| `Mirror`, `MCMirror` | identifiers, Login/Logout, the three position messages, on both sides |
| `Mirror_proofs` | theorems about `Mirror` and `DeltaCode` |
| `DeltaCode`, `MCDeltaCode` | the code of the differences |
| `Control`, `MCControl` | switching, freezing, crashing, falling, extra balls, and what clients show |
| `Control_proofs` | theorems about `Control` |
| `Ranking` | the time bonus, and what is promised of it |
| `Arrivals`, `MCArrivals` | every list of arrivals, to compare `Ranking` with a sorted list |
| `Scores`, `MCScores` | points, totals, accounts, records, and what clients show; extends `Ranking` |
| `Scores_proofs` | theorems about `Scores` and `Ranking` |
| `LevelChoice`, `MCLevelChoice` | votes, forced maps, the rotation |
| `LevelChoice_proofs` | theorems about `LevelChoice` |
| `PingAck` | ping numbers on their way, and the queue they are looked for in |
| `PingAck_proofs` | theorems about `PingAck` |
| `Download`, `MCDownload` | keys, chunks and notices of the files of the levels, with lost connections |
| `Download_proofs` | theorems about `Download` |
| `Chat`, `MCChat` | the chat server: logins, names, channels, the database, restarts |
| `Chat_proofs` | theorems about `Chat` |

A definition whose comment is "a mutant" is used by nothing: it is a plausible
mistake in the definition below it. Putting it in that definition's place must
break the property named beside it in `PROJECT.json`, which shows that the
property depends on that piece of code.

The modules cut the server at places where little crosses. `Session` decides when
states follow one another; `Control` lets them follow at any time
and keeps what they do to the penguins; `Mirror` does not see the session except
for `CNetwork::reset()` at a launch; `DeltaCode` is what `Mirror` calls
`RoundedFrom`. `Scores` takes the order of the session's states from `Session`, with
a reset at any moment; `LevelChoice` is the body of the launch; `PingAck` is what
the position messages carry besides positions; `Download` is one of the things a client does
while `Session` waits for it to load; `Chat` shares nothing with the others. What one module assumes of another is weaker than
what the other does, so a property of the part is one of the whole.

## 3. From the code to the models

**Steps.** Each handler, each command and each `update()` of a session state is one
action, for the code runs each to its end in one thread. The loop has a
fixed order; the models let any action follow any other. Safety shown this way
does not depend on the loop's order.

**Time.** `Session` has a clock that ticks between any two actions. It keeps the
differences that the guards look at (`sinceStart`, `sinceEnd`, `waited`), each of
which stops at the first value past the last one compared. These are the only
bounds in `Session` and they lose nothing.

**Lists.** The order of the list of entities matters in `everyBodyReady()` and
`checkForcedClientCount()`, so `Session` keeps, for each entity, those `ahead`
of it. In `Mirror` only identifiers matter.

**Bots.** Automatic bots fill the server up to `ForcedClientCount`; those of the
console count as humans in `humanClientCount()`, and `Session` has both.
`Control` has one kind of bot, and takes the presence of a player for
what launches a session.

**Messages.** TCP delivers the messages of one connection in order and the client
answers none of those modelled in `Mirror` and `Control`, except that it loads a
level after StartSession. What a client shows when it reads a message is then
a function of the messages before it, and the models read each message in
the step that sends it. `PingAck`, where the answers of the client matter, has the
messages on their way in both directions, and so has `Download`. Two things the client does in its own time are
actions of their own. It loads the level (`Load`), at any moment from the launch on. And `CEntity::update()` closes a
penguin when it shows it coming down to the water (`EnterWater`, `c/entity.cpp:244`), without a message and without asking the
server, whose own contact with the water leaves `OpenClose` alone. `Control` has no positions, so a client may do
this with any penguin it shows open, at any time: from then on the two views differ, and a
later OpenClose turns both round and shows closed what is open. The client shows a switch a moment
after it has read it, when its interpolator comes to it; closing in between is the same as closing before the switch.

**Positions.** `Mirror` puts positions on a short line, lets the physics place
everybody anywhere before each update, and lets the code of a
difference round to any value between nothing and the difference. `DeltaCode`
shows that the real code does so, exactly, in units of
1/4096 (`NeverOvershoots`, and `UpdateStaysBetween` of `Mirror_proofs`).

**Configuration.** The constants have the names of the configuration variables.
`DisableNetworkOptimization` is 1 in the shipped file, which reduces `Mirror` to
full updates; the runs set it to 0 since the shorter messages are
the hard case. `ReadsOpen` stands for a client of version 6, which reads the
open state in Login; version 5, shipped, does not (`c/net_callbacks.cpp:130`).
`CheckAfk` is taken to be on, and the client not to be in spectator-only mode.

**The network tick in `Scores`.** `CNetwork::update()` does something every 20 ms, while
the loop goes round about every millisecond. So several scores may be set, and a
game end, between two of them; but the countdown, a second of the game and the
time the results are shown last longer than a tick, and the model
lets them pass (`Start`, `Clock`, `Reset`) only when nothing is left to send
(`UpToDate`). A `reset` of the console within 20 ms of a score is the case left out.

**The idle in `Scores`** are those `checkAfkClient()` and the end of a game find without `forceReceived()`: a
command of the player, his login (`CEntity::init`) and the preparation of the game (`reset()`) set it, and for administrators and
moderators it always answers yes (`s/client.cpp:107`). `Exempt` says who they are: `Admin` in the run, and everybody
when `AnyAdmin` is true, as with the shipped `Admin = {"*"}`, where nobody is ever idle.

**Time in `Scores`** is in seconds, where the code has milliseconds. `MinTimeNeeded`, 11
seconds in the code, is lowered with `MaxTime`. Accounts are those of the LAN mode
(`ShardId` 0), where the server keeps them itself.

**Names of levels.** A name somebody types is a model value, and `Matches` says which
files contain it. The playlist is a list of such names, each a set of files; `newLevel()`
takes the first file of each entry (`FirstOf`), while `/forcemap` accepts and announces any file that an entry
matches (`Accepted`). A level that does not load stands for every reason there is:
an error in its script, or a `ReleaseLevel` that is not allowed.

**Files in `Download`.** A file is a model value with a version number; two contents
have one key exactly if they have one version, and a piece is a version and a place in it.
What a client ends up with is `Mixed` when the pieces do not make up one version. `get()` is
the client's program counter: it waits by handling messages, so nothing else runs meanwhile.
A lost connection ends a wait with `exit(1)`; outside of a wait the program
goes on with what it has.

**Objects in `Chat`.** One object is a pending connection, a user or the account of somebody
who is away, as in the code. The loop of `Server()` has three phases, and takes the lines of a phase in
any order and number. A full output buffer logs its owner out in the middle of
somebody else's command (`Overflow`) or of his own login or move (`cut`). An overflow inside
a command of another is the same as one before or after it, but for one command. `Join()`
holds a pointer to the channel while it sends (`chat/src/command.c:1358`); if the logouts that follow take the last user
out of that channel, `LeaveChannel()` frees it and `Join()` passes the freed memory to `JoinChannel()`. `JoinFreed`
has the two outcomes after which the program goes on: `JoinChannel()` finds that this is no channel and the user
stays where he is, or it does not, and the user is in a channel that is in no list. The other commands
move users to the hall only, which is never freed, or use the channel they hold for
its text alone; the one that changes it, `set` of a channel's name, is one of the steps of `astray` if somebody is in it.

**History variables.** `asked` (Session): `forceend` was used since the launch.
`synced` (Mirror): the identifiers with a full update since their Login.
`disturbed` (Mirror): a connected client that had not logged in came in the way
of another's login, or of an update. `wrong` (Control): for each client, the entities it
came to show the wrong way round by itself: it logged in with version 5 or loaded a level while
they were open, or closed them in the water. `earned` (Scores): who was given points since the game was
prepared. `missed` (Scores): clients that have not been sent the last
score sent, or have been told a later one. `promised`, `last` (LevelChoice): what
`/forcemap` announced; the place of the level played before. `measured`, `wrapped`
(PingAck): which update was found for which answer; the number wrapped
between the first entry of a client and its login. `overtaken` (Download): files packed again while
a client was in the middle of loading them, or away. `astray` (Chat): one of five things that the code
does not put right has happened: a login or a move was cut by a full buffer, `Join()` went on with a channel that
had been deleted under it, two owners of one
account have logged in again between two rounds, a channel was renamed with somebody in it, or somebody was still
connected at a restart. They are written and never read by the model.

Correspondence of the principal actions (the complete one is in
`PROJECT.json`, under `map`):

| Action | Code |
|---|---|
| `Session!Connect`, `Login`, `Disconnect`, `Ready`, `RequestFile`, `ForceMessage`, `SetEditMode` | the callbacks of `s/net_callbacks.cpp` and `CEntityManager::addClient`, `login`, `remove` |
| `Session!ForceEnd`, `Reset`, `AddBot` | the commands of `s/session_manager.cpp` and `s/command.cpp` |
| `Session!Launch` | `CWaitingClientsSessionState::update` |
| `Session!Prepare(K)` | `CWaitingReadySessionState::update`, with `everyBodyReady()` removing `K` |
| `Session!Start`, `Finish`, `Restart` | the other three states; `Finish` includes `checkAfkClient` and `saveAllValidReplay` |
| `Session!FillWithBots`, `RemoveSpareBots` | `checkForcedClientCount` |
| `Mirror!Login`, `AddBot`, `Remove` | `CEntityManager::login`, `addBot`, `remove`, and the client's `cbLogin`, `cbLogout` |
| `Mirror!FullUpdate`, `Update`, `UpdateOne` | the three branches of `CNetwork::update`, and the client's handlers of these messages |
| `DeltaCode!Encode`, `Decode`, `Packed`, `Unpacked` | `computeMantis8_8`, `convert8_8fp`, `packBit32` |
| `Control!PlayerSwitch`, `BotSwitch` | `cbOpenClose`; `CBot::update` with `CEntityManager::openClose` |
| `Control!Crash`, `Water` | `nearCallback` of `s/physics.cpp`, `entityWaterCollideEvent` |
| `Control!OnTarget` | `Module:collide` of `level_extra_ball_server.lua` |
| `Scores!Finish` | the end of a game in `CRunningSessionState::update`, with `checkAfkClient` and `updateStats` |
| `Scores!ScoreUpdate`, `SetScore`, `Arrive` | the end of `CNetwork::update`; `setCurrentScore` of the scripts and the crash of `s/physics.cpp:343`; the arrival times |
| `Ranking!Podium`, `TimeBonus` | the pass over the entities and the `switch` after it |
| `LevelChoice!Choose`, `KeepLevel` | `CLevelManager::newLevel` |
| `LevelChoice!VoteMap`, `ForceMap`, `ForceMapUnchecked` | `/votemap`, `/forcemap`, the `forcemap` command, with `findAndForceMap` |
| `PingAck!Update`, `Answer`, `Ack` | `CNetwork::update`; the first lines of the client's `cbUpdate`, `cbFullUpdate`; the server's `cbUpdate` |
| `Download!Serve` | `cbRequestCRCKey`, `cbRequestDownload` with the packing and the notices to the others |
| `Download!Check`, `Fetch`, `Receive`, `Decide`, `GiveUp`, `Store` | `get()` from one wait to the next, and the client's `cbCRCKey`, `cbDownload` |
| `Download!Lose`, `Rejoin` | the ends of the waits of `get()`, and the next start |
| `Chat!Reap`, `PendingDone`, `UsersDone`, `Restart`, `Signal` | the loop of `Server()`, `RestartServer()` |
| `Chat!LoginNew`, `LoginName`, `RightPassword`, `WrongPassword`, `NoAccount` | `ProcessLogin()`, by the state of the user |
| `Chat!Join`, `Create`, `Leave`, `Invite`, `Bump`, `Kick`, `Kill`, `Register`, ... | the commands of `chat/src/command.c` |
| `Control!Load` | `loadNewSession` and `startSession` of the client |

## 4. The runs

| Run | Instance | Shows |
|---|---|---|
| `session_safety` | 2 clients (1 administrator), 1 automatic bot; all delays 0 or 1, level timeout 2, 2 idle games | type invariant, the inductive invariant of the proofs, forced ends, when commands are acted on, and who may be removed |
| `session_liveness` | 1 client, 2 automatic bots, 1 console bot | refinement of `Round`; a loading, a game, an abandoned server and a series of games all go on |
| `everybody_ready` | 2 clients, 1 bot | finding 1 |
| `mirror` | 2 clients, 1 bot, 2 identifiers, 3 places, MinDelta 1 | server and clients agree on who is there; the unnamed differences reach the right entities; closeness after each update, catching up |
| `delta_code` | 3841 differences up to 60 units and the 1201 smallest, with all that is left of them later; every coordinate beside eight corner values | the code of the differences |
| `control` | 2 players and 1 bot that replays two switches, two entities at once; both kinds of level, limit 3 | the inductive invariant of the proofs; what a client shows differs from the truth exactly for the penguins it put out of step itself; closed at the start, leftover replays included; out stays out |
| `arrivals` | up to 4 entities, 5 arrival times and never | the fastest is first; a sorted list is paid by place |
| `scores` | 2 players, one of them an administrator, and a bot, two at once, 1 game of 2 seconds that a reset may begin again | totals, accounts, shown scores; the idle; each game pays for itself |
| `level_choice` | 3 players, 4 levels of which one does not load, a playlist of 5 entries (one without a file, one with two), numbers modulo 8 | votes, rotation, promises |
| `ping_ack` | 1 client, numbers modulo 4, 10 updates | the answered update is measured; the queue does not grow |
| `download` | 2 clients, one whose connection may be lost; a map that is replaced once, a shape the server does not know; versions of exactly one chunk and of one and a half | checked files are whole and current; every `get()` ends |
| `chat` | 3 objects, 4 names, 2 levels, the flag `Invite` | counts, those after a logout inside `Join()` that deletes the channel included; names; the database |

The other configurations belong to no run of this list. `LevelRotation.cfg` checks, with
the real 256, that no level is left out for ever; `MirrorSafety.cfg` is the safety half of `mirror` with one identifier
more; the others give the counterexamples 2
to 11 of section 7: `tlc -config ScoresReset.cfg MCScores`, for one.

Why these bounds are enough to see the interesting cases:

* `Session`: two clients are what the order in `everyBodyReady()` needs (one times
  out, one is still loading); one administrator and one player distinguish who
  may edit; one bot above `ForcedClientCount` is removed when the second client
  comes, two are in `session_liveness`, where the order of removal shows. Each timer
  has a value before, at and after each comparison.
* `Mirror`: two identifiers for two clients and a bot make every departure
  followed by an arrival reuse one, in every combination of who was there before and who comes. A `FullPeriod` of 4 with `Ratio` 2 gives each
  of the three messages between two full updates (the code has 200 and 2).
  `MinDelta` 1 on four places gives the forced full update.
* `DeltaCode`: every power of two, every mantissa and both sides of every limit of
  the code are on the grid; multiples of 1/32 unit halve exactly. `Furthest` is 60
  units, the distance (3 units of length, times 20) beyond which a full
  update is sent.
* `Arrivals`: four entities are the smallest list with three prizes and somebody
  without one. Four times that count, one too early and none at all give every
  order and every tie.
* `Scores`: two entities at once are a player and another it is shown, or a player and the bot,
  which has no account and never logs in. A game that a reset cuts short and one that is played out
  are what it takes to carry something over. Everybody who
  arrives counts (`MinTimeNeeded` 0), so that two seconds are two different times, and a
  record can be broken within one game.
* `LevelChoice`: with three players two votes are needed, with one or two players one,
  so a departure changes what is needed. Four levels divide 8 as they divide
  256.
* `PingAck`: ten updates go round a modulus of four twice and a half, so there are up to
  three entries with the same number in the queue.
* `Download`: the second client is there to have the file packed again under the first. A version of exactly
  one chunk is the one that an empty block ends, and one of a chunk and a half the one whose end can be
  lost. One replacement makes the three cases: before, under and after a transfer. One notice on its way is
  what can be taken for an answer; a server that may not send another (`MaxNotices`) waits for the client to
  read it.
* `Chat`: three objects are an account, somebody who has just been logged out of it and somebody who
  logs in under its name. The fourth name is the second name of a channel, or a channel of its own: the latter
  only with two users, of which one is registered, so that the last one in a channel may be logged out
  by another's `Join()` (`Bounds`). What happens after one of the steps of `astray` is not followed.
* `Control`: the shipped limit is 2; with 3 a penguin can be closed in the water and switched
  twice more, which shows what the next messages make of the difference. Two entities at once are enough, as a client shows each by itself: two clients
  are one that differs and one that does not, of the penguin of either. A bot
  needs one switch left over to be open at the wrong time (`ClosedUntilStart` is proved
  for any number).

## 5. Fairness

`Session!Fairness`: the loop runs for ever and the clock goes on (`WF` of `Tick`);
each round of the loop calls `update()` on the current state, so an `update()` that
stays able to act does act (`WF` of `Launch`, `Prepare`, `Start`, `Restart`).
For `Finish` fairness is asked only for the answer of the physics that everybody
in the game is still moving, the least favourable: the game has to end by its
timeout. Nothing is assumed of players, administrators or bots. The properties name
what could really keep the server from moving on: clients that go on
downloading (each request restarts the loading time), an edit mode left on by an
editor who stays, endless use of `reset`.

`Mirror!FairSpec`: `CNetwork::update()` is called again and again by the loop, with
positions nobody chooses.

`LevelChoice!FairSpec`: while a human is there games follow one another
(`Session!GamesFollow`), and each begins with `newLevel()` (`WF` of `NewLevel`).
Nothing is assumed of `rand()` nor of the voters, who have to stop voting.

`Download!Fairness`: the server reads every socket (`SF` of `Serve`: strong, because the bound on the
notices may disable it now and then, while the real server never waits), and a client in `get()` does nothing
but read (`WF` of `Receive`) and go on (`WF` of `Decide`, `GiveUp` and `Store` together). Nothing is
assumed of who replaces files or of connections.

`DeltaCode!DeltaSpec`: the same as for `Mirror`, for one coordinate of an entity that stays where it is.

## 6. The proofs

`Session_proofs`, for any finite or infinite sets of clients and bots and any
durations satisfying `SessionAssumption` (the kinds of entities are disjoint, the
limits are numbers and two of them are not 0):

* `TypeCorrect`, by cases over the handlers, the bots and the updates.
* `InvCorrect`: the inductive invariant `SessionInv`. The four invariants about
  the game, the replays, the edit mode and the forced end are inductive together;
  `InputOnlyInSession` and `PlayersCanPlay` are not, because they speak
  of times without saying in which states these are set. The
  strengthening `TimesFollowState` says that: the start time is set from the
  countdown to the results, the end time exactly while the results are shown, and
  a game that is not being cut short has been counted down in full.
* `ForcedCorrect`, `InputCorrect`, `PlayCorrect`, `HeldCorrect`: what follows from it.
* `CauseCorrect`: an action property that needs no invariant but the types. Only three actions shorten the list of
  the clients; each removes those that it may.
* `RoundCorrect`: the refinement. Each kind of step maps to one of `Round`. The step
  that needs the invariant is the clock's: when it makes the commands accepted,
  the state must be one in which `Round` may open.

`Control_proofs`, for any clients, bots, levels and limit:

* `InvCorrect`: the conjunction of the checked invariants with three
  strengthenings. `NoReplayLeft`: while a level is loaded no bot has anything left
  to replay, or a bot could open behind the back of the launch. `AbsentAreReset`: an
  entity that comes back starts from nothing. `FrozenForCause`: a player frozen in a
  running game is open (it has crashed) or a spectator (it is late); an extra
  ball asks for neither, and that is why out stays out.
* `TypeCorrect`, `ClosedCorrect`, `CountCorrect`, `GameCorrect`, `ViewsCorrect`,
  `OutCorrect`: the parts of the invariant a reader should know of, and the action property.
  `ViewsCorrect` says that a client shows a penguin the wrong way round exactly if its own late login, late
  load or closing in the water has left it so (`wrong`): no message, crash, bot or departure adds to that,
  and none but a new level or the departure of the penguin repairs it. Its least obvious step is that the message `setOpenCloseCount(0)` may
  send is never sent in the extra-ball script: that script asks
  for a closed entity, and by `CountTellsOpen` a closed entity has an even count.

`Mirror_proofs`, for any number of clients, bots, identifiers and places:

* `RosterCorrect` (and `RosterCorrectFair`, for the specification with fairness): `RosterInv` is
  inductive as it stands. The step to look at is a departure: the identifier is free at once, so each
  client must have forgotten it in the same step, or never have known it.
* `InStepCorrect`: needs that an identifier `IdUpdateList` names has been sent a Login (`NamedAreSent`). An
  argument about ranks shows that the n-th difference goes to the n-th identifier on both sides: the list is
  increasing, and so is the order of the map the client goes through.
* `NearbyCorrect`: the action property; each of the three messages leaves less than `MinDelta` of
  whatever the server accounts for, and by `InStep` that is what the client has.

`Mirror_proofs` also has the theorems about `DeltaCode`, for every difference up to any `Furthest` for which the
loops of `computeMantis8_8()` reach the range of the mantissa (2^18 units; the configuration has 60):

* `NoOvershoot`, `EnoughIsSent`: the mantissa is the rest of a division, the exponent a power of two, so each bound is
  one about quotients and products; it is proved by cases over the fifteen halvings and doublings there may be, each with
  its number put in.
* `ClientsReadTheSame`: the three codes of ten bits keep apart whatever they are (`AnyThreeAreRead`); the
  property that the runs check takes eight corners for two of them.
* `UpdateStaysBetween`: what ties the two models together. `Mirror` lets an update move what the client shows to any place
  between where it was and where the entity is; by `NeverOvershoots` and the signs that is all the code can do.

`PingAck_proofs`, for any modulus and any number of updates:

* `QueueCorrect` and `MeasuresCorrect`: the queue ends with the updates on their way down and the answers on their way up,
  in their order. What stands before them is of the same round of the numbers as the
  first of them unless the number has wrapped before the login; so the first entry that is not older by number
  is the one answered. The lemmas before it are about division with remainder.

`Chat_proofs`, for any number of users, names, levels and channels:

* `NamesCorrect`: the inductive invariant `NamesInv`. Two names are distinct because a login looks for
  the name, but it finds the first object that has it, which may be somebody who has just been logged out and hides
  another. `NoneHidden` says that this cannot be while names are typed: the round of the
  loop has removed everybody who had left by then. `NamesOnDisk` carries the names through a restart.
* `DiskCorrect`: whenever no change is flagged, the file holds exactly the accounts and the record. `DiskOK` is inductive
  with the types alone. The lemma `Keeps` collects what most actions have in
  common, that they change an account only with the flag set. What is flagged and not yet written is lost by a
  restart; `SavesCorrect` says how little that is: every round of the loop leaves in the file what there is. Channels
  are not written.
* `RoomsCorrect`, for any finite number of objects: each command takes one user out of a channel, brings one in, or both, and each changes one
  count, so every case ends in the cardinality of a set with one element more or less. What needs care is the moment
  between: a user who is moved to a channel that exists only for it, a channel that goes with its last
  user, and the hall, which stays. The signal and the logouts inside `Join()` take out several at once (`AllOutCounts`).

`Scores_proofs`, for any players, bots, points and times, lists of any length:

* `TotalsCorrect` and `ScoresCorrect`: the inductive invariant `IInv`. Beside the two properties it says that who is not there
  has nothing (`AbsentInv`), or an entity that comes back under the same name would bring points that nobody has been
  told of; that during a game only who was given points has some (`EarnInv`), which `initBeforeStartLevel()` begins; and that the
  count of the games is within its bound.
* `GamePaysForItself` and `IdleAreNotPaid`: the action properties, both about the end of a game. `IdleAreNotPaid` is about
  who is neither administrator nor moderator, has not logged in during the game and has sent no command. The end of a game is
  long, for it removes the idle, gives the bonus, breaks records, adds up, saves and announces; the lemmas before it
  say of each part who may gain by it. The bonus is a fold over the list: `PodiumRuns` turns it into a sequence of podiums, each
  from the one before, and who is on the last one has come on it at some turn, where it counted.
* `FastestHasFirstPrize` and `SortedListIsFair`, proved for any list first (`FastestOfAnyList`, `FairWhenSorted`). After each turn
  the first place belongs to a fastest of those seen so far (`ThroughList` is the induction over the turns); in a
  sorted list the places are the first, second and third of those that count, and `rank` counts the faster ones.

`LevelChoice_proofs`, for any players, files, playlist, names and modulus that is at least the number of levels:

* `TypeCorrect`: the inductive invariant `IInv`, which beside the types says that a level is announced
  only while the name that gives it is kept (`PromiseMade`), and that `NextLevelId` is the place of the level
  played last unless a vote has made it random (`LastIsPlace`).
* `VotesDecideNext`: the count is a fold over the list; after each turn it has for each level the number of its voters so far, and
  the best one has as many as any (`BallotIs`). A player is counted once as none is twice in the list, and two names of one
  level come to one place (`OnePlace`).
* `PromiseIsKept`: under the hypothesis `OneOrder`: there is no playlist, or every name matches one file and every file that an
  entry of the playlist matches is one that `newLevel()` takes. The announced file may be any that an entry
  matches, so without the second part it may not be played at all; finding 9 is what happens otherwise. A vote for such a
  file is accepted too, and counted for no level.
* `RotationBeforeWrap` and `SomeLevelBeforeWrap`, without a hypothesis: in order, and with a level found, unless `NextLevelId` wraps
  within the tries of one call. `RotationKeepsOrder` and `SomeLevelIsFound`: always, when the number of
  the levels divides the modulus (`Even`); the shipped playlist has 60 levels, so there the wrap shows (findings 7 and 8).

`Download_proofs`, for any number of clients, files, versions, notices and any lengths:

* `TransferCorrect`: the inductive invariant `TransferInv`. A client that loads has its request on the way, or
  the block on the way, or the block in hand, and whatever the block holds is of the file and of the place it waits for
  (`Asked`, `Coming`, `AtHand`). An answer taken for another is harmless because of the order
  of one connection: the answer "up to date", which names no file, comes before the first block of the
  transfer that a notice has started meanwhile, so it is read before the next check begins (`Coming`). An
  answer on its way lets a file pass only if the file is current or a notice follows it (`Passes`).
* `CurrentCorrect` and `DownloadCorrect`: what follows from it. That the pieces are a whole version is
  arithmetic: the blocks before the last are full, so the length of the packed file is a multiple of `Chunk`, and
  the first block that is not full ends it (`WholeTransfer`).

The proofs are complete; they use no assumption but the named ones of the modules, and the two hypotheses `OneOrder` and
`Even` where they are named. A recursion over a list (a fold of the community modules) is reasoned about in two steps:
`FoldExists` gives the function its definition chooses, by adding one position at a time, and `ThroughList` is the
induction over the positions, by the least counterexample.

## 7. Findings

The code does something else than the repository says at the places 1 to 9; 10 and 11 are
promises of the code's own purpose that it does not keep. The first
is a run; each of the others has its configuration.

1. `everybody_ready`: `everyBodyReady()` (`s/entity_manager.cpp:1440`) answers yes
   as soon as the first client still loading has timed out, whoever is
   loading behind it; the client takes the message as "called when everybody is
   ready, can start the countdown" (`c/net_callbacks.cpp:535`).
2. `SessionStartSession.cfg` (`MCSession`, `EverybodyIsTold`): "sending StartSession to everybody"
   (`s/waiting_clients_session_state.cpp:125`) leaves out the clients that have
   not logged in (`s/network.cpp:629`), for which the server then waits.
3. `MirrorLogin.cfg` (`MCMirror`, `LoginOfUnknown`): a client is told of entities that have not logged in yet
   (`s/entity_manager.cpp:369`) and told again when they do, against
   `nlassert(!exist(eid))` (`c/entity_manager.cpp:120`).
4. `ControlBotViews.cfg` (`MCControl`, `BotViewsAgree`): a bot's switch is announced although it was refused
   (`s/entity_manager.cpp:748`).
5. `ArrivalsSecond.cfg` (`MCArrivals`, `SecondIsSecond`): the second fastest may get no bonus, when it comes before
   the fastest in the list (`s/running_session_state.cpp:118`), against "Additional
   bonus for placement (1st/2nd/3rd)" (`docs/SCORING_INVESTIGATION.md:58`).
6. `ScoresReset.cfg` (`MCScores`, `ResetIsShown`): points set in the last 20 ms of a game are told by EndSession and
   never taken back on the clients (`s/network.cpp:463`), against "Per-round reset
   (c) is automatic" (`docs/KNOWN_ISSUES.md:568`).
7. `LevelOrder.cfg` (`MCLevelChoice`, `RotationInOrder`): the rotation jumps when `NextLevelId` wraps, unless the number of
   levels divides 256 (`s/level_manager.cpp:576`), against "exact levels in exact
   order" (`server/mtp_target_service_default.cfg:53`).
8. `LevelFound.cfg` (`MCLevelChoice`, `LevelIsFound`): at that wrap `newLevel()` may leave out the one level that loads
   (`s/level_manager.cpp:262`), and `currentLevel()` asserts that there is one
   (`s/level_manager.h:42`).
9. `LevelPromise.cfg` (`MCLevelChoice`, `PromiseKept`): the level `/forcemap` announces is looked up in another order than
   the one that is played (`s/level_manager.cpp:248`), against "Next level: ..."
   (`s/net_callbacks.cpp:153`, `docs/CHAT.md:46`). `LevelPlaylist.cfg` has another cause for the same: the announced
   file is the second one that its playlist entry matches, and `newLevel()` keeps the first (`s/level_manager.cpp:157`).

10. `DownloadStale.cfg` (`MCDownload`, `AlwaysCurrent`): when a file is replaced under a transfer, the request
   for the next chunk has it packed again; everybody is told but the client that asked (`s/net_callbacks.cpp:498`),
   which gets the rest from the new file and counts the mixture as checked (`c/resource_manager.cpp:531`).
11. `DownloadOwn.cfg` (`MCDownload`, `KeepsItsOwn`): a client that takes a notice about one file for the answer about another
   deletes the other before it asks for it; when the server does not have it, it is gone
   (`c/resource_manager.cpp:99`).

Smaller things the models had to follow, and that are worth knowing: a penguin that
a client shows coming down to the water is closed there by the client alone (`c/entity.cpp:252`), so that the next OpenClose about it
opens on that client what the server closes (`wrong` in `Control`); `Join()` of the chat server may go on with a
channel that has been freed (`chat/src/command.c:1360`, `JoinFreed`); `IdUpdateList`
is not recomputed when an entity leaves or a client connects
(`s/network.cpp:334`), so a pending client that gets a departed entity's
identifier is given differences no client expects - `disturbed` marks these
behaviours; a pending client that leaves sends no Logout
(`s/entity_manager.cpp:154`); a positive difference of exactly 16 units is coded as
nothing, and negative ones from 16 units on are sent by halves
(`common/custom_floating_point.cpp:118`), which the accounting of the server
makes good one update later, except for the first, which waits for the entity
to move on or for the next full update; entries in the queue of pings from before a
login are never answered, and when the number has wrapped since
(`wrapped` in `PingAck`) the answers are refused until their numbers meet
these entries, from when on each is taken for an update 256 earlier.

## 8. Limits

Only model-checked: the liveness properties (`LoadingEnds`, `GameEnds`,
`EmptyServerIdles`, `GamesFollow`, `ViewsCatchUp`, `Converges`, `GetsEnd`,
`EveryLevelIsPlayed`), as the prover does not reason about fairness. Every safety and action property of the passing
runs is a theorem; three of those about `LevelChoice` have a hypothesis, as section 6 says.

Not modelled:

* **Physics**: its numbers. `Control` and `Mirror` take any.
* **Teams** (`computeTeamAssignments`): one sort and one cache; what is known of it is among the hazards.
* **Scripts**: each of about a hundred is a small sequential program of its own.
* **Admission and the login services.** The server keeps the cookies announced to it and consumes them at
  a login. Of its two partners in the repository, the one in C++ looks for the service of a shard in a loop that
  never advances its iterator (`login_service/connection_client.cpp:389`, `connection_ws.cpp`), and the one in
  TypeScript never announces a cookie, so that the server refuses it. There is no complete run of this protocol to model.
* **Download**: files replaced twice within a second (the packed one is compared by date), files inside shapes and
  particle systems (`loadChildren`), a `get()` that a Lua script starts from inside the wait of
  another, errors of the disks, files in the data directory, `CRCCheck` 0, the file server of `resource_manager2.cpp`.
  A packed file made since the start of the server is not found by its path until the next
  `reparsePath()`, so every chunk is packed and announced again; this is modelled (`listed`).
* **Chat**: the text of messages, histories, aliases, plans, help and birthdays; the HOST prompt, reserved names and the
  flags about them; the contents of passwords; statistics of failures and kicks; the making and changing of
  groups, and resident channels besides the hall; a signal in the middle of a line, or while the database is written. Two
  ways to end the program are left out: a connection that fails within the answer to a password, after which the
  login goes on without one (`chat/src/server.c:456`), and SIGTERM, which does not save. So is the third outcome of using a freed
  channel in `Join()`, that the program stops.
* **Presentation**, statistics, replay files and the contents of levels.
* A socket that refuses a message, which makes the server remove the client from inside `send()`, while it goes
  through the list it removes from: it is modelled as a departure between two actions.
* The best score of a level, the report to the login service, the mean a ping goes into.
* `reference/` is an old release that nothing builds.

## 9. What would come next

1. A composition of `Session` with `Control`, so that the phases of `Control`, and
   then those of `Scores`, follow by refinement and not by assumption.
2. `send()` as steps: what happens when a socket refuses a message while the list
   of entities is gone through.
3. An abstract specification of the download, where a client has a version of a file or none, and `Download` shown to
   implement it.
4. `Teams`: the cached assignment against arrivals and departures.
