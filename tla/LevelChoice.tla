---------------------------- MODULE LevelChoice ----------------------------
(***************************************************************************)
(* Which level is played next: the rotation over the playlist or over all  *)
(* files, the votes of the players, and the map an administrator forces.   *)
(* All three write NextLevelId, a number of 8 bits taken modulo the number *)
(* of levels.                                                              *)
(***************************************************************************)
EXTENDS Integers, Sequences, SequencesExt, FiniteSets, FiniteSetsExt

CONSTANTS
    Player,    \* the human players
    Files,     \* the level files, in the order of their directory
    Playlist,  \* LevelPlaylist: for each entry, the files whose name contains
               \* it; empty if there is none
    Loads,     \* the files that give a valid level
    Sessions,  \* what each level's script gives setMaxLevelSessionCount()
    Pattern,   \* the names players type
    Matches,   \* for each pattern, the files whose name contains it
    None,      \* no vote, no forced map, no level
    Modulus    \* NextLevelId wraps here: 256

Level == ToSet(Files)

(* The place of the first level of s that is in S, 0 if there is none.     *)
FirstOf(S, s) == SelectInSeq(s, LAMBDA l : l \in S)

(* The first file of each entry of the playlist, of those that have any.   *)
PlaylistLevels ==
    FoldLeft(LAMBDA found, entry :
               IF FirstOf(entry, Files) = 0 THEN found
               ELSE Append(found, Files[FirstOf(entry, Files)]),
             <<>>, Playlist)

(* The levels newLevel() chooses from: those of a playlist replace all     *)
(* files, unless it names none.                                            *)
Levels == IF PlaylistLevels = <<>> THEN Files ELSE PlaylistLevels

ASSUME LevelChoiceAssumption ==
    /\ Files \in Seq(Level) /\ Len(Files) > 0
    /\ Playlist \in Seq(SUBSET Level)
    /\ Loads \subseteq Level
    /\ Loads \cap ToSet(Levels) # {}
    /\ Sessions \in [Level -> Nat]
    /\ Matches \in [Pattern -> SUBSET Level]
    /\ None \notin Level \cup Pattern
    /\ Modulus \in Nat /\ Len(Levels) <= Modulus

VARIABLES
    nextLevelId,          \* CLevelManager::NextLevelId
    current,              \* CLevelManager::CurrentLevel
    levelSessionCount,    \* CLevelManager::LevelSessionCount
    maxLevelSessionCount, \* CLevelManager::MaxLevelSessionCount
    preferedMap,          \* CLevelManager::preferedMap
    list,                 \* the human players, in the order of the entities
    voteMap,              \* CEntity::VoteMap
    promised,             \* history: the level /forcemap announced
    last                  \* history: the place of the level played last, 0
                          \* when a vote has made the next one random

levelVars == <<nextLevelId, current, levelSessionCount, maxLevelSessionCount>>
wishVars  == <<preferedMap, promised, last>>
vars == <<levelVars, wishVars, list, voteMap>>

-----------------------------------------------------------------------------
Present == ToSet(list)

Init ==
    /\ nextLevelId = Modulus - 1
    /\ current = None
    /\ levelSessionCount = 0
    /\ maxLevelSessionCount = 0
    /\ preferedMap = None
    /\ list = <<>>
    /\ voteMap = [p \in Player |-> None]
    /\ promised = None
    /\ last = 0

-----------------------------------------------------------------------------
(* The players and their wishes.                                           *)

Join(p) ==
    /\ p \notin Present
    /\ list' = Append(list, p)
    /\ UNCHANGED <<levelVars, wishVars, voteMap>>

VoteStays(p) ==  \* a mutant
    /\ p \in Present
    /\ list' = RemoveFirst(list, p)
    /\ UNCHANGED <<levelVars, wishVars, voteMap>>

Leave(p) ==
    /\ p \in Present
    /\ list' = RemoveFirst(list, p)
    /\ voteMap' = [voteMap EXCEPT ![p] = None]
    /\ UNCHANGED <<levelVars, wishVars>>

FirstMatch(m, s) == FirstOf(Matches[m], s)

(* findAndForceMap() looks the name up among all files; the one it finds   *)
(* first has to load, and its name to contain an entry of the playlist if  *)
(* there is one.  It need not be the file newLevel() takes for that entry. *)
Found(m) == Files[FirstMatch(m, Files)]
Accepted(m) ==
    /\ FirstMatch(m, Files) # 0
    /\ Found(m) \in Loads
    /\ Playlist # <<>> => \E i \in DOMAIN Playlist : Found(m) \in Playlist[i]

VoteMap(p, m) ==
    /\ p \in Present
    /\ Accepted(m)
    /\ voteMap' = [voteMap EXCEPT ![p] = m]
    /\ UNCHANGED <<levelVars, wishVars, list>>

(* /forcemap of an administrator: "Next level: ..." is the answer.         *)
ForceMap(m) ==
    /\ list # <<>>
    /\ Accepted(m)
    /\ preferedMap' = m
    /\ promised' = Found(m)
    /\ UNCHANGED <<levelVars, last, list, voteMap>>

(* The forcemap command of the console, which checks nothing.              *)
ForceMapUnchecked(m) ==
    /\ preferedMap' = m
    /\ promised' = None
    /\ UNCHANGED <<levelVars, last, list, voteMap>>

-----------------------------------------------------------------------------
(* newLevel()                                                              *)
Count == Len(Levels)
LevelAt(id) == Levels[(id % Count) + 1]

(* The place of the level that a player or an administrator wishes.        *)
Place(m) == IF m = None THEN 0 ELSE FirstMatch(m, Levels)

(* The votes are counted in the order of the entities; the first level to  *)
(* reach the highest count wins.                                           *)
CountVote(ballot, m) ==
    LET j == Place(m)
        c == [ballot.count EXCEPT ![j] = @ + 1]
    IN  IF j = 0 THEN ballot
        ELSE IF c[j] > ballot.max THEN [count |-> c, max |-> c[j], best |-> j - 1]
        ELSE [ballot EXCEPT !.count = c]

Ballot ==
    FoldLeft(LAMBDA b, p : CountVote(b, voteMap[p]),
             [count |-> [j \in 0 .. Count |-> 0], max |-> 0, best |-> 0], list)

Majority == Len(list) \div 2 + 1  \* a mutant

VotesNeeded == Len(list) \div 3 + 1

VoteSucceeds == Ballot.max >= VotesNeeded

Stay == nextLevelId  \* a mutant

Advanced == (nextLevelId + 1) % Modulus

AfterVotes == IF VoteSucceeds THEN Ballot.best ELSE Advanced

ForcedFirst ==  \* a mutant
    IF Place(preferedMap) # 0 /\ ~VoteSucceeds THEN Place(preferedMap) - 1 ELSE AfterVotes

(* The forced map comes after the votes and overrides them.                *)
Wanted ==
    IF Place(preferedMap) # 0 THEN Place(preferedMap) - 1 ELSE AfterVotes

(* The number of steps to the first level from there on that loads, as     *)
(* many tries as there are levels.                                         *)
OneTry == IF LevelAt(Wanted) \in Loads THEN {0} ELSE {}  \* a mutant

Tries == {k \in 0 .. Count - 1 : LevelAt((Wanted + k) % Modulus) \in Loads}

Keeps ==
    /\ current # None
    /\ levelSessionCount + 1 < maxLevelSessionCount

KeepLevel ==
    /\ list # <<>>
    /\ Keeps
    /\ levelSessionCount' = levelSessionCount + 1
    /\ UNCHANGED <<nextLevelId, current, maxLevelSessionCount, wishVars, list,
                   voteMap>>

(* r is what rand() answers when a vote has decided.                       *)
Choose(r) ==
    /\ list # <<>>
    /\ ~Keeps
    /\ levelSessionCount' = 0
    /\ preferedMap' = None
    /\ promised' = None
    /\ voteMap' = [p \in Player |-> None]
    /\ IF Tries = {}
       THEN /\ current' = None
            /\ nextLevelId' = (Wanted + Count) % Modulus
            /\ maxLevelSessionCount' = 0
            /\ last' = 0
       ELSE LET id == (Wanted + Min(Tries)) % Modulus
            IN  /\ current' = LevelAt(id)
                /\ maxLevelSessionCount' = Sessions[LevelAt(id)]
                /\ nextLevelId' = IF VoteSucceeds THEN r ELSE id
                /\ last' = IF VoteSucceeds THEN 0 ELSE (id % Count) + 1
    /\ UNCHANGED list

NewLevel == KeepLevel \/ \E r \in 0 .. Count - 1 : Choose(r)

(* The server has become empty: CLevelManager::release().                  *)
Release ==
    /\ list = <<>>
    /\ current # None
    /\ current' = None
    /\ UNCHANGED <<nextLevelId, levelSessionCount, maxLevelSessionCount,
                   wishVars, list, voteMap>>

Next ==
    \/ \E p \in Player : Join(p) \/ Leave(p)
    \/ \E p \in Player, m \in Pattern : VoteMap(p, m)
    \/ \E m \in Pattern : ForceMap(m) \/ ForceMapUnchecked(m)
    \/ NewLevel \/ Release

Spec == Init /\ [][Next]_vars

(* While a human is there games follow one another (GamesFollow in         *)
(* Session), and each of them begins with newLevel().                      *)
FairSpec == Spec /\ WF_vars(NewLevel)

-----------------------------------------------------------------------------
TypeOK ==
    /\ nextLevelId \in 0 .. Modulus - 1
    /\ current \in Level \cup {None}
    /\ levelSessionCount \in Nat
    /\ maxLevelSessionCount \in Nat
    /\ preferedMap \in Pattern \cup {None}
    /\ list \in Seq(Player) /\ IsInjective(list)
    /\ voteMap \in [Player -> Pattern \cup {None}]
    /\ \A p \in Player \ Present : voteMap[p] = None
    /\ promised \in Level \cup {None}
    /\ last \in 0 .. Count

(* A level is chosen in this step.                                         *)
Chosen == \E r \in 0 .. Count - 1 : Choose(r)

(* Who wants this level, of those still there.                             *)
Voters(l) ==
    {p \in Present : Place(voteMap[p]) # 0 /\ Levels[Place(voteMap[p])] = l}

Enough(l) == Cardinality(Voters(l)) >= Len(list) \div 3 + 1

(* "Votes require agreement from 1/3 + 1 of human players": a level that   *)
(* has that many, and more than any other, is the next, whoever came or    *)
(* left since the votes, unless one is forced; and if none has that many   *)
(* and none is forced, the rotation goes on.                               *)
VotesDecide ==
    [][Chosen /\ preferedMap = None =>
         \A l \in ToSet(Levels) \cap Loads :
            (/\ Enough(l)
             /\ \A k \in ToSet(Levels) \ {l} :
                   Cardinality(Voters(k)) < Cardinality(Voters(l)))
            => current' = l]_vars

(* The first level after the i-th that loads, in the order of the levels.  *)
After(i) ==
    LET place(k) == ((i - 1 + k) % Count) + 1
        steps    == {k \in 1 .. Count : Levels[place(k)] \in Loads}
    IN  Levels[place(Min(steps))]

(* server/mtp_target_service_default.cfg, "specify exact levels in exact   *)
(* order": without votes and forced maps the levels follow one another in  *)
(* the order of the list, those that do not load left out.                 *)
RotationInOrder ==
    [][(/\ Chosen
        /\ preferedMap = None
        /\ last # 0
        /\ \A l \in ToSet(Levels) : ~Enough(l))
       => current' = After(last)]_vars

(* /forcemap answers "Next level: ..." with a name: that level is the next *)
(* one chosen, whatever is voted, and whoever leaves, in between.          *)
PromiseKept == [][Chosen /\ promised # None => current' = promised]_vars

(* currentLevel() asserts that there is one: a launch that looks for a     *)
(* level finds one, as at least one of the list loads.                     *)
LevelIsFound == [][Chosen => current' # None]_vars

(* The rotation leaves none out: once nobody votes or forces any more,     *)
(* every level that loads is played again and again.                       *)
EveryLevelIsPlayed ==
    <>[](list # <<>> /\ preferedMap = None /\ \A p \in Player : voteMap[p] = None)
      => \A l \in Loads \cap ToSet(Levels) : []<>(current = l)
=============================================================================
