------------------------------ MODULE Download ------------------------------
(***************************************************************************)
(* The download of the files of the levels from the server: the comparison *)
(* of keys, the transfer by chunks and the notices of changed files.       *)
(*                                                                         *)
(* A client has one program counter: get() runs in its only thread, and    *)
(* waits by handling every message that arrives (waitNetworkMessage() calls*)
(* CNetworkTask::update()).  The handlers write members of the resource    *)
(* manager that do not say which file they are about.                      *)
(*                                                                         *)
(* A file is one of the versions 1, 2, ...; version v, packed, is Size[v]  *)
(* bytes long and travels Chunk bytes at a time.  Keys are versions: two   *)
(* files have the same SHA-1 exactly if they are the same version.         *)
(***************************************************************************)
EXTENDS Integers, Sequences, FiniteSets, SequencesExt, FiniteSetsExt

CONSTANTS
    Clients,    \* the clients that have logged in once
    Files,      \* the files that clients ask for
    NoFile,     \* the empty name
    Wanted,     \* Wanted[c]: bound: the files that client c asks for
    Unsteady,   \* bound: the clients whose connection may be lost
    Newest,     \* Newest[f]: bound: the last version of file f
    Size,       \* Size[v]: length of version v when packed
    Chunk,      \* bytes per answer (8000 in the code)
    MaxNotices  \* bound: notices on their way to one client

ASSUME DownloadAssumption ==
    /\ NoFile \notin Files
    /\ Wanted \in [Clients -> SUBSET Files] /\ Unsteady \subseteq Clients
    /\ Size \in Seq(Nat \ {0}) \ {<<>>} /\ Newest \in [Files -> 0..Len(Size)]
    /\ Chunk \in Nat \ {0} /\ MaxNotices \in Nat \ {0}

Absent   == 0
Versions == 1..Len(Size)
Mixed    == Len(Size) + 1      \* a file made of pieces of several versions, or of too many

VARIABLES
    current,    \* current[f]: the version on the disk of the server
    packed,     \* packed[f]: the version in the packed file beside it
    listed,     \* listed[f]: CPath knows the packed file
    online,     \* the clients that are connected
    local,      \* local[c][f]: the version on the disk of the client
    partial,    \* partial[c][f]: the pieces in the packed file of the client
    checked,    \* checked[c]: CRCCheckTimes, the files not to be checked again
    get,        \* get[c]: the call of get() in progress
    toServer,   \* toServer[c]: requests on their way
    toClient,   \* toClient[c]: answers and notices on their way
    overtaken   \* history: overtaken[c], the files repacked while c was loading them or away

vars == <<current, packed, listed, online, local, partial, checked, get, toServer, toClient, overtaken>>

server  == <<current, packed, listed>>
disks   == <<local, partial>>

(***************************************************************************)
(* Messages and pieces                                                     *)
(***************************************************************************)
KeyRequest(f, v)  == [kind |-> "crc", file |-> f, version |-> v]
PartRequest(f, n) == [kind |-> "download", file |-> f, part |-> n]

KeyAnswer(f)      == [kind |-> "crc", file |-> f]   \* a notice has the same form
Failure           == [kind |-> "block", error |-> TRUE]
Block(v, n)       == [kind |-> "block", error |-> FALSE, version |-> v, at |-> n]

BlockSize(v, n)   == Max({0, Min({Chunk, Size[v] - n})})

\* Mutant: an empty block is not taken for the end.
NeverEmpty(v, n)  == BlockSize(v, n) \in 1..(Chunk - 1)

\* What fread() has found: fewer bytes than asked for.
IsLast(v, n)      == BlockSize(v, n) < Chunk

\* The pieces a whole transfer of version v leaves in the packed file.
Pieces(v) == [i \in 1..((Size[v] + Chunk - 1) \div Chunk) |-> <<v, (i - 1) * Chunk>>]

Unpacked(pieces) ==
    IF \E v \in Versions : pieces = Pieces(v)
    THEN CHOOSE v \in Versions : pieces = Pieces(v)
    ELSE Mixed

Idle            == [pc |-> "idle"]
Checking(f)     == [pc |-> "checking", file |-> f, received |-> FALSE, upToDate |-> TRUE]
Loading(f, n)   == [pc |-> "loading", file |-> f, part |-> n, block |-> <<>>]

InGet(c, f)     == get[c].pc # "idle" /\ get[c].file = f

\* The file has been sent to c in part, or wholly, in the call of get() in progress.
Begun(c, f)     == /\ InGet(c, f) /\ get[c].pc = "loading"
                   /\ ~Contains(toServer[c], PartRequest(f, 0))

NoticesTo(c)    == Len(SelectSeq(toClient[c], LAMBDA m : m.kind = "crc" /\ m.file # NoFile))

Init ==
    /\ current \in [Files -> {Absent, 1}]
    /\ packed \in {p \in [Files -> {Absent, 1}] : \A f \in Files : p[f] <= current[f]}
    /\ listed = [f \in Files |-> packed[f] # Absent]
    /\ online = Clients
    /\ local \in [Clients -> [Files -> {Absent, 1}]]
    /\ \A c \in Clients : \A f \in Files \ Wanted[c] : local[c][f] = Absent
    /\ partial = [c \in Clients |-> [f \in Files |-> <<>>]]
    /\ checked = [c \in Clients |-> {}]
    /\ get = [c \in Clients |-> Idle]
    /\ toServer = [c \in Clients |-> <<>>]
    /\ toClient = [c \in Clients |-> <<>>]
    /\ overtaken = [c \in Clients |-> {}]

(***************************************************************************)
(* The server                                                              *)
(***************************************************************************)

\* A file is written by the level editor or by an operator; it is younger than the packed one.
Replace(f) ==
    /\ current[f] < Newest[f]
    /\ current' = [current EXCEPT ![f] = @ + 1]
    /\ UNCHANGED <<packed, listed, online, disks, checked, get, toServer, toClient, overtaken>>

\* reparsePath(): only now are packed files found that were made since the start.
ReparsePath ==
    /\ listed' = [f \in Files |-> listed[f] \/ packed[f] # Absent]
    /\ UNCHANGED <<current, packed, online, disks, checked, get, toServer, toClient, overtaken>>

\* cbRequestCRCKey(): a file the server does not have is as good as up to date.
KeyFor(m) == IF current[m.file] \in {Absent, m.version} THEN NoFile ELSE m.file

cbRequestCRCKey(c) ==
    LET m == Head(toServer[c]) IN
    /\ m.kind = "crc"
    /\ toClient' = [toClient EXCEPT ![c] = Append(@, KeyAnswer(KeyFor(m)))]
    /\ UNCHANGED <<server, overtaken>>

PackedFileUpToDate(f) == listed[f] /\ packed[f] = current[f]

\* sendAllExcept(): who is told that a file has been packed again.
Told(c) == online \ {c}

\* The file sent to c when it wants part n, after the packed file has been made again.
Answer(f, n) == IF current[f] = Absent THEN Failure ELSE Block(current[f], n)

\* Whom a new packed file of f, made for c, comes too late for.
TooLateFor(c, f) ==
    {d \in Clients : \/ d # c /\ Begun(d, f)
                     \/ d = c /\ Head(toServer[c]).part > 0
                     \/ d \notin online /\ f \in checked[d]}

cbRequestDownload(c) ==
    LET m   == Head(toServer[c])
        new == current[m.file] # Absent /\ ~PackedFileUpToDate(m.file)
    IN
    /\ m.kind = "download"
    /\ \A d \in Told(c) : new => NoticesTo(d) < MaxNotices
    /\ packed' = [packed EXCEPT ![m.file] = current[m.file]]
    /\ toClient' = [d \in Clients |->
           CASE d = c               -> Append(toClient[d], Answer(m.file, m.part))
             [] new /\ d \in Told(c) -> Append(toClient[d], KeyAnswer(m.file))
             [] OTHER               -> toClient[d]]
    /\ overtaken' = IF packed[m.file] = current[m.file] THEN overtaken
                    ELSE [d \in Clients |-> IF d \in TooLateFor(c, m.file)
                                            THEN overtaken[d] \union {m.file} ELSE overtaken[d]]
    /\ UNCHANGED <<current, listed>>

Serve(c) ==
    /\ toServer[c] # <<>>
    /\ cbRequestCRCKey(c) \/ cbRequestDownload(c)
    /\ toServer' = [toServer EXCEPT ![c] = Tail(@)]
    /\ UNCHANGED <<online, disks, checked, get>>

(***************************************************************************)
(* A client: get()                                                         *)
(***************************************************************************)

\* Mutant: a transfer goes on from the packed file that is there.
KeepPartial(pieces) == pieces

\* The start of a transfer: what is left of an earlier one is deleted.
Cleared(pieces) == <<>>

Ask(c, f, n) == toServer' = [toServer EXCEPT ![c] = Append(@, PartRequest(f, n))]

Download(c, f) ==
    /\ local' = [local EXCEPT ![c][f] = Absent]
    /\ partial' = [partial EXCEPT ![c][f] = Cleared(@)]
    /\ get' = [get EXCEPT ![c] = Loading(f, 0)]
    /\ Ask(c, f, 0)

\* get() of a file that is there and has not been checked.
Check(c, f) ==
    /\ c \in online /\ get[c] = Idle /\ f \in Wanted[c]
    /\ local[c][f] # Absent /\ f \notin checked[c]
    /\ get' = [get EXCEPT ![c] = Checking(f)]
    /\ toServer' = [toServer EXCEPT ![c] = Append(@, KeyRequest(f, local[c][f]))]
    /\ overtaken' = [overtaken EXCEPT ![c] = @ \ {f}]
    /\ UNCHANGED <<server, online, disks, checked, toClient>>

\* get() of a file that is not there.
Fetch(c, f) ==
    /\ c \in online /\ get[c] = Idle /\ f \in Wanted[c]
    /\ local[c][f] = Absent
    /\ Download(c, f)
    /\ overtaken' = [overtaken EXCEPT ![c] = @ \ {f}]
    /\ UNCHANGED <<server, online, checked, toClient>>

\* Mutant: a notice does not take back that the file is checked.
KeepChecked(c, m) ==
    /\ get' = IF get[c].pc = "checking"
              THEN [get EXCEPT ![c].received = TRUE, ![c].upToDate = m.file = NoFile]
              ELSE get
    /\ UNCHANGED checked

\* receivedCRC(): whichever file is named, it answers the check in progress.
receivedCRC(c, m) ==
    /\ get' = IF get[c].pc = "checking"
              THEN [get EXCEPT ![c].received = TRUE, ![c].upToDate = m.file = NoFile]
              ELSE get
    /\ checked' = [checked EXCEPT ![c] = @ \ {m.file}]

receivedBlock(c, m) ==
    /\ get' = [get EXCEPT ![c].block = <<m>>]
    /\ UNCHANGED checked

\* One message of those that CNetworkTask::update() handles, from the wait or from the main loop.
Receive(c) ==
    /\ toClient[c] # <<>>
    /\ LET m == Head(toClient[c]) IN
       \/ m.kind = "crc" /\ receivedCRC(c, m)
       \/ m.kind = "block" /\ receivedBlock(c, m)
    /\ toClient' = [toClient EXCEPT ![c] = Tail(@)]
    /\ UNCHANGED <<server, online, disks, toServer, overtaken>>

\* The wait for the key is over: the file counts as checked, and is taken or loaded again.
Decide(c) ==
    LET f == get[c].file IN
    /\ get[c].pc = "checking" /\ get[c].received
    /\ checked' = [checked EXCEPT ![c] = @ \union {f}]
    /\ \/ /\ get[c].upToDate
          /\ get' = [get EXCEPT ![c] = Idle]
          /\ UNCHANGED <<disks, toServer>>
       \/ /\ ~get[c].upToDate
          /\ Download(c, f)
    /\ UNCHANGED <<server, online, toClient, overtaken>>

\* The wait for a block is over and it is an error: the file is given up.
GiveUp(c) ==
    /\ get[c].pc = "loading" /\ get[c].block = <<Failure>>
    /\ partial' = [partial EXCEPT ![c][get[c].file] = <<>>]
    /\ get' = [get EXCEPT ![c] = Idle]
    /\ UNCHANGED <<server, online, local, checked, toServer, toClient, overtaken>>

\* The whole file has come: it is unpacked, and counts as checked.
Install(c, f, pieces) ==
    /\ local' = [local EXCEPT ![c][f] = Unpacked(pieces)]
    /\ partial' = [partial EXCEPT ![c][f] = <<>>]
    /\ checked' = [checked EXCEPT ![c] = @ \union {f}]
    /\ get' = [get EXCEPT ![c] = Idle]
    /\ UNCHANGED toServer

\* The wait for a block is over: it is appended, and the next one asked for at the new length.
Store(c) ==
    /\ get[c].pc = "loading" /\ get[c].block # <<>>
    /\ get[c].block[1] # Failure
    /\ LET f      == get[c].file
           b      == get[c].block[1]
           size   == BlockSize(b.version, b.at)
           part   == get[c].part + size
           pieces == partial[c][f] \o (IF size = 0 THEN <<>> ELSE << <<b.version, b.at>> >>)
       IN
       IF IsLast(b.version, b.at) \/ part > Size[b.version]
       THEN Install(c, f, pieces)
       ELSE /\ partial' = [partial EXCEPT ![c][f] = pieces]
            /\ get' = [get EXCEPT ![c] = Loading(f, part)]
            /\ Ask(c, f, part)
            /\ UNCHANGED <<local, checked>>
    /\ UNCHANGED <<server, online, toClient, overtaken>>

\* refresh(): the client leaves a level it has edited.
Refresh(c, f) ==
    /\ get[c] = Idle /\ f \in checked[c]
    /\ checked' = [checked EXCEPT ![c] = @ \ {f}]
    /\ overtaken' = [overtaken EXCEPT ![c] = @ \ {f}]
    /\ UNCHANGED <<server, online, disks, get, toServer, toClient>>

(***************************************************************************)
(* Connections                                                             *)
(***************************************************************************)
NoticesLost(c) == {m.file : m \in {n \in ToSet(toClient[c]) : n.kind = "crc"}} \ {NoFile}

\* The connection is lost.  The wait ends with exit(1), and the packed file stays where it is;
\* outside of get() the program goes on and keeps what it has checked.
Lose(c) ==
    /\ c \in online \intersect Unsteady
    /\ online' = online \ {c}
    /\ toServer' = [toServer EXCEPT ![c] = <<>>]
    /\ toClient' = [toClient EXCEPT ![c] = <<>>]
    /\ get' = [get EXCEPT ![c] = Idle]
    /\ checked' = [checked EXCEPT ![c] = IF get[c] = Idle THEN @ ELSE {}]
    /\ overtaken' = [overtaken EXCEPT ![c] = (@ \union NoticesLost(c)) \intersect checked'[c]]
    /\ UNCHANGED <<server, disks>>

\* The program is started again, or only connected again.
Rejoin(c, again) ==
    /\ c \notin online
    /\ online' = online \union {c}
    /\ checked' = [checked EXCEPT ![c] = IF again THEN @ ELSE {}]
    /\ overtaken' = [overtaken EXCEPT ![c] = IF again THEN @ ELSE {}]
    /\ UNCHANGED <<server, disks, get, toServer, toClient>>

Next ==
    \/ \E f \in Files : Replace(f)
    \/ ReparsePath
    \/ \E c \in Clients :
        \/ Serve(c) \/ Receive(c) \/ Decide(c) \/ GiveUp(c) \/ Store(c) \/ Lose(c)
        \/ \E f \in Files : Check(c, f) \/ Fetch(c, f) \/ Refresh(c, f)
        \/ \E again \in BOOLEAN : Rejoin(c, again)

Spec == Init /\ [][Next]_vars

\* The server reads every socket, and a client in get() does nothing else.  Serve is strongly fair
\* because the bound on the notices may disable it again and again; the server itself never waits.
Fairness ==
    \A c \in Clients : SF_vars(Serve(c)) /\ WF_vars(Receive(c)) /\ WF_vars(Decide(c) \/ GiveUp(c) \/ Store(c))

FairSpec == Spec /\ Fairness

(***************************************************************************)
(* Properties                                                              *)
(***************************************************************************)
Requests == [kind : {"crc"}, file : Files, version : Versions \union {Mixed}]
            \union [kind : {"download"}, file : Files, part : Nat]
Blocks   == {Failure} \union [kind : {"block"}, error : {FALSE}, version : Versions, at : Nat]
Keys     == [kind : {"crc"}, file : Files \union {NoFile}]

\* The types of the variables.
TypeOK ==
    /\ current \in [Files -> 0..Len(Size)] /\ packed \in [Files -> 0..Len(Size)]
    /\ listed \in [Files -> BOOLEAN] /\ online \subseteq Clients
    /\ \A c \in Clients :
        /\ local[c] \in [Files -> 0..Mixed]
        /\ \A f \in Files : partial[c][f] \in Seq(Versions \X Nat)
        /\ checked[c] \subseteq Files /\ overtaken[c] \subseteq Files
        /\ toServer[c] \in Seq(Requests) /\ toClient[c] \in Seq(Blocks \union Keys)

Quiet(c, f) == ~InGet(c, f) /\ ~Contains(toClient[c], KeyAnswer(f))

\* A client that will not check a file again has what the server hands out, unless the file was
\* packed again in the middle of its own transfer or while it was away: the notices of
\* cbRequestDownload() reach everybody who has checked the older one, and an answer about one file
\* taken for that about another never makes an old one pass.
CheckedIsCurrent ==
    \A c \in Clients, f \in Files :
        /\ f \in checked[c] \ overtaken[c] /\ Quiet(c, f)
        /\ current[f] # Absent /\ packed[f] = current[f]
        => local[c][f] = current[f]

\* What a client has checked is one version of the file, whole, unless it was packed again in the
\* middle of the transfer: nothing of a transfer that a lost connection cut short gets into it.
CheckedIsWhole ==
    \A c \in Clients : \A f \in checked[c] \ overtaken[c] : local[c][f] # Mixed

\* A client that loads has exactly one request, block on its way or block in hand, and the others
\* have none: Buffer and Eof, which do not say whose they are, are always of the file being loaded.
OneBlockAtATime ==
    \A c \in Clients :
        LET asked  == {i \in DOMAIN toServer[c] : toServer[c][i].kind = "download"}
            coming == {i \in DOMAIN toClient[c] : toClient[c][i].kind = "block"}
        IN IF get[c].pc = "loading"
           THEN Cardinality(asked) + Cardinality(coming) + Len(get[c].block) = 1
           ELSE asked = {} /\ coming = {}

\* The state invariant of the run: what has come is whole, one block after the other.
DownloadInv == TypeOK /\ OneBlockAtATime /\ CheckedIsWhole

\* Every call of get() ends, whatever is replaced, answered or lost meanwhile.
GetsEnd == \A c \in Clients : get[c] # Idle ~> get[c] = Idle

\* Broken by the code: who has checked a file, and is told nothing, has what the server hands out.
AlwaysCurrent ==
    \A c \in online, f \in Files :
        /\ f \in checked[c] /\ Quiet(c, f)
        /\ current[f] # Absent /\ packed[f] = current[f]
        => local[c][f] = current[f]

\* Broken by the code: a client does not lose a file that the server does not have.
KeepsItsOwn ==
    [][\A c \in Clients, f \in Files :
         local[c][f] # Absent /\ local'[c][f] = Absent => current[f] # Absent]_vars
=============================================================================
