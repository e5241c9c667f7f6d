-------------------------- MODULE Download_proofs --------------------------
(***************************************************************************)
(* Machine-checked proofs about Download: for any number of clients and    *)
(* files, any lengths and any length of a chunk, what a client has checked *)
(* is whole and is what the server hands out, unless the file was packed   *)
(* again under its transfer or while it was away.                          *)
(***************************************************************************)
EXTENDS Download, FiniteSetTheorems, SequenceTheorems, TLAPS

-----------------------------------------------------------------------------
(* Where the blocks are among the messages on their way to a client, and   *)
(* the answers "up to date", which name no file.                           *)
BlocksIn(q)  == {i \in DOMAIN q : q[i].kind = "block"}
AnswersIn(q) == {i \in DOMAIN q : q[i] = KeyAnswer(NoFile)}

(* f would be no older with c than what is handed out.                     *)
CurrentOK(c, f) ==
    current[f] # Absent /\ packed[f] = current[f] => local[c][f] = current[f]

(* c will hear that f has been packed again, after the i-th message.       *)
ToldAfter(c, f, i) == \E j \in DOMAIN toClient[c] : j > i /\ toClient[c][j] = KeyAnswer(f)

(* The i-th message, or what c has read of it (i is 0), lets f pass.       *)
Passes(c, f, i) == local[c][f] # Mixed /\ (CurrentOK(c, f) \/ ToldAfter(c, f, i))

IdleInv(c) ==
    /\ toServer[c] = <<>>
    /\ BlocksIn(toClient[c]) = {} /\ AnswersIn(toClient[c]) = {}

CheckInv(c) ==
    LET f == get[c].file
        p == get[c].received /\ get[c].upToDate
    IN  /\ BlocksIn(toClient[c]) = {}
        /\ \/ /\ toServer[c] = <<KeyRequest(f, local[c][f])>>
              /\ AnswersIn(toClient[c]) = {} /\ ~p
           \/ /\ toServer[c] = <<>>
              /\ \A i, j \in AnswersIn(toClient[c]) : i = j
              /\ p => AnswersIn(toClient[c]) = {}
        /\ \A i \in AnswersIn(toClient[c]) : Passes(c, f, i)
        /\ p => Passes(c, f, 0)

(* A block that c will have, or has.                                       *)
BlockOK(c, b) ==
    LET f == get[c].file
    IN  IF b = Failure THEN f \notin overtaken[c] => CurrentOK(c, f)
        ELSE /\ b \in [kind : {"block"}, error : {FALSE}, version : Versions, at : Nat]
             /\ b.at = get[c].part
             /\ f \notin overtaken[c] => b.version = packed[f]
             /\ current[f] # Absent

Asked(c) ==
    LET d == PartRequest(get[c].file, get[c].part)
    IN  /\ \/ toServer[c] = <<d>>
           \/ Len(toServer[c]) = 2 /\ toServer[c][1].kind = "crc" /\ toServer[c][2] = d
        /\ BlocksIn(toClient[c]) = {} /\ get[c].block = <<>>

Coming(c) ==
    /\ toServer[c] = <<>> /\ get[c].block = <<>>
    /\ \E i \in DOMAIN toClient[c] :
         /\ BlocksIn(toClient[c]) = {i}
         /\ \A j \in AnswersIn(toClient[c]) : j < i
         /\ BlockOK(c, toClient[c][i])

AtHand(c) ==
    /\ IdleInv(c)
    /\ Len(get[c].block) = 1 /\ BlockOK(c, get[c].block[1])

(* What c has of f: one piece after the other, and of one version.         *)
PiecesOK(c) ==
    LET f == get[c].file
        n == get[c].part
        p == partial[c][f]
    IN  /\ n = Len(p) * Chunk
        /\ \A i \in 1..Len(p) : p[i][2] = (i - 1) * Chunk
        /\ n > 0 /\ f \notin overtaken[c] =>
             /\ packed[f] \in Versions /\ n <= Size[packed[f]]
             /\ \A i \in 1..Len(p) : p[i][1] = packed[f]

LoadInv(c) ==
    /\ local[c][get[c].file] = Absent
    /\ PiecesOK(c)
    /\ Asked(c) \/ Coming(c) \/ AtHand(c)

Gets == {Idle}
        \union [pc : {"checking"}, file : Files, received : BOOLEAN, upToDate : BOOLEAN]
        \union [pc : {"loading"}, file : Files, part : Nat, block : Seq(Blocks)]

ClientInv(c) ==
    /\ get[c] \in Gets
    /\ get[c] = Idle => IdleInv(c)
    /\ get[c].pc = "checking" => CheckInv(c)
    /\ get[c].pc = "loading" => LoadInv(c)
    /\ c \notin online => get[c] = Idle /\ toClient[c] = <<>>
    /\ \A f \in Files : local[c][f] = Mixed => current[f] # Absent

Kinds ==
    /\ local \in [Clients -> [Files -> 0..Mixed]]
    /\ partial \in [Clients -> [Files -> Seq(Versions \X Nat)]]
    /\ checked \in [Clients -> SUBSET Files] /\ overtaken \in [Clients -> SUBSET Files]
    /\ get \in [Clients -> Gets]
    /\ toServer \in [Clients -> Seq(Requests)]
    /\ toClient \in [Clients -> Seq(Blocks \union Keys)]
    /\ current \in [Files -> 0..Len(Size)] /\ packed \in [Files -> 0..Len(Size)]
    /\ listed \in [Files -> BOOLEAN] /\ online \subseteq Clients
    /\ \A f \in Files : packed[f] <= current[f]

(* What the run checks of the checked files, for one client.               *)
WholeInv(c) == \A f \in checked[c] \ overtaken[c] : local[c][f] # Mixed

CurrentInv(c) ==
    \A f \in Files :
        f \in checked[c] \ overtaken[c] /\ Quiet(c, f) => CurrentOK(c, f)

ClientOK(c) == ClientInv(c) /\ WholeInv(c) /\ CurrentInv(c)

(* The inductive invariant.                                                *)
TransferInv == Kinds /\ \A c \in Clients : ClientOK(c)

-----------------------------------------------------------------------------
(* Queues: what is left of one, and what is added to one.                  *)
LEMMA TailIn ==
    ASSUME NEW S, NEW q \in Seq(S), q # <<>>
    PROVE  /\ Tail(q) \in Seq(S)
           /\ \A i : i \in BlocksIn(Tail(q)) <=> i \in 1..(Len(q) - 1) /\ i + 1 \in BlocksIn(q)
           /\ \A i : i \in AnswersIn(Tail(q)) <=> i \in 1..(Len(q) - 1) /\ i + 1 \in AnswersIn(q)
           /\ \A i \in DOMAIN Tail(q) : i + 1 \in DOMAIN q /\ Tail(q)[i] = q[i + 1]
           /\ \A i \in DOMAIN q : i > 1 => i - 1 \in DOMAIN Tail(q) /\ Tail(q)[i - 1] = q[i]
<1>1. /\ Tail(q) \in Seq(S) /\ DOMAIN Tail(q) = 1..(Len(q) - 1)
      /\ \A i \in 1..(Len(q) - 1) : Tail(q)[i] = q[i + 1]
      /\ DOMAIN q = 1..Len(q) /\ Len(q) \in Nat
  OBVIOUS
<1> QED
  BY <1>1 DEF BlocksIn, AnswersIn

(* One more message at the end of a queue.                                 *)
LEMMA AppendIn ==
    ASSUME NEW S, NEW q \in Seq(S), NEW m \in S
    PROVE  /\ Append(q, m) \in Seq(S)
           /\ Len(q) \in Nat /\ Len(Append(q, m)) = Len(q) + 1
           /\ Append(q, m)[Len(q) + 1] = m
           /\ \A i \in DOMAIN q : i \in DOMAIN Append(q, m) /\ i <= Len(q) /\ Append(q, m)[i] = q[i]
           /\ BlocksIn(q) \subseteq 1..Len(q) /\ AnswersIn(q) \subseteq 1..Len(q)
           /\ m.kind # "block" => BlocksIn(Append(q, m)) = BlocksIn(q)
           /\ m.kind = "block" => BlocksIn(Append(q, m)) = BlocksIn(q) \union {Len(q) + 1}
           /\ m # KeyAnswer(NoFile) => AnswersIn(Append(q, m)) = AnswersIn(q)
           /\ m = KeyAnswer(NoFile) => AnswersIn(Append(q, m)) = AnswersIn(q) \union {Len(q) + 1}
<1>1. /\ Append(q, m) \in Seq(S) /\ DOMAIN Append(q, m) = 1..(Len(q) + 1)
      /\ Len(Append(q, m)) = Len(q) + 1
      /\ \A i \in 1..Len(q) : Append(q, m)[i] = q[i]
      /\ Append(q, m)[Len(q) + 1] = m
      /\ DOMAIN q = 1..Len(q) /\ Len(q) \in Nat
  OBVIOUS
<1>2. /\ m.kind # "block" => BlocksIn(Append(q, m)) = BlocksIn(q)
      /\ m.kind = "block" => BlocksIn(Append(q, m)) = BlocksIn(q) \union {Len(q) + 1}
  BY <1>1 DEF BlocksIn
<1>3. /\ m # KeyAnswer(NoFile) => AnswersIn(Append(q, m)) = AnswersIn(q)
      /\ m = KeyAnswer(NoFile) => AnswersIn(Append(q, m)) = AnswersIn(q) \union {Len(q) + 1}
  BY <1>1 DEF AnswersIn
<1>4. BlocksIn(q) \subseteq 1..Len(q) /\ AnswersIn(q) \subseteq 1..Len(q)
  BY <1>1 DEF BlocksIn, AnswersIn
<1> QED
  BY <1>1, <1>2, <1>3, <1>4

(* The three forms of a call of get().                                     *)
LEMMA GetForms ==
    ASSUME NEW g \in Gets
    PROVE  /\ g.pc \in {"idle", "checking", "loading"}
           /\ g.pc = "idle" <=> g = Idle
           /\ g.pc = "checking" => /\ g.file \in Files
                                   /\ g.received \in BOOLEAN /\ g.upToDate \in BOOLEAN
           /\ g.pc = "loading" => g.file \in Files /\ g.part \in Nat /\ g.block \in Seq(Blocks)
  BY DEF Gets, Idle

(* What c sees of the state.                                               *)
Unseen(c) ==
    /\ get'[c] = get[c] /\ toServer'[c] = toServer[c] /\ toClient'[c] = toClient[c]
    /\ local'[c] = local[c] /\ partial'[c] = partial[c]
    /\ checked'[c] = checked[c] /\ overtaken'[c] = overtaken[c]
    /\ c \in online' <=> c \in online

(* What a client does not see does not harm it.                            *)
LEMMA UnseenOK ==
    ASSUME NEW c \in Clients, Unseen(c), UNCHANGED <<current, packed>>, ClientOK(c)
    PROVE  ClientOK(c)'
<1> USE DEF Unseen
<1>1. \A f : CurrentOK(c, f)' = CurrentOK(c, f)
  BY DEF CurrentOK
<1>2. \A f, i : ToldAfter(c, f, i)' = ToldAfter(c, f, i)
  BY DEF ToldAfter
<1>3. \A b : BlockOK(c, b)' = BlockOK(c, b)
  BY <1>1 DEF BlockOK
<1>4. IdleInv(c)' = IdleInv(c) /\ Asked(c)' = Asked(c)
  BY DEF IdleInv, Asked
<1>5. Coming(c)' = Coming(c) /\ AtHand(c)' = AtHand(c)
  BY <1>3, <1>4 DEF Coming, AtHand
<1>6. CheckInv(c)' = CheckInv(c)
  BY <1>1, <1>2 DEF CheckInv, Passes
<1>7. PiecesOK(c)' = PiecesOK(c)
  BY DEF PiecesOK
<1>8. ClientInv(c)'
  BY <1>4, <1>5, <1>6, <1>7 DEF ClientOK, ClientInv, LoadInv
<1>9. WholeInv(c)' /\ CurrentInv(c)'
  BY <1>1 DEF ClientOK, WholeInv, CurrentInv, Quiet, InGet, Contains
<1> QED
  BY <1>8, <1>9 DEF ClientOK

(* A step of one client that leaves the files of the server as they are.   *)
LEMMA OneClient ==
    ASSUME TransferInv, NEW c \in Clients, Kinds', UNCHANGED <<current, packed>>,
           \A d \in Clients \ {c} : Unseen(d),
           ClientOK(c)'
    PROVE  TransferInv'
  BY UnseenOK DEF TransferInv

(* The numbers of the versions.                                            *)
LEMMA Numbers ==
    /\ Len(Size) \in Nat /\ Mixed \in Nat /\ Absent = 0 /\ Mixed # Absent
    /\ Absent \in 0..Mixed /\ 0..Len(Size) \subseteq 0..Mixed
    /\ 0..Mixed = {Absent} \union Versions \union {Mixed}
    /\ \A v \in Versions : v # Mixed /\ v # Absent /\ v \in 0..Len(Size)
    /\ \A v \in 0..Len(Size) : v # Mixed /\ (v # Absent => v \in Versions)
    /\ Chunk \in Nat \ {0} /\ \A v \in Versions : Size[v] \in Nat \ {0}
  BY DownloadAssumption DEF Mixed, Absent, Versions

-----------------------------------------------------------------------------
(* get() begins.                                                           *)
LEMMA CheckStep ==
    ASSUME TransferInv, NEW c \in Clients, NEW f \in Files, Check(c, f)
    PROVE  TransferInv'
<1>1. /\ get[c] = Idle /\ local[c][f] # Absent /\ f \notin checked[c] /\ c \in online
      /\ get' = [get EXCEPT ![c] = Checking(f)]
      /\ toServer' = [toServer EXCEPT ![c] = Append(@, KeyRequest(f, local[c][f]))]
      /\ overtaken' = [overtaken EXCEPT ![c] = @ \ {f}]
      /\ UNCHANGED <<server, online, disks, checked, toClient>>
  BY DEF Check
<1>2. Kinds /\ ClientOK(c)
  BY DEF TransferInv
<1>3. IdleInv(c) /\ Idle.pc = "idle"
  BY <1>1, <1>2 DEF ClientOK, ClientInv, Idle
<1>4. KeyRequest(f, local[c][f]) \in Requests
  <2>1. local[c][f] \in Versions \union {Mixed}
    BY <1>1, <1>2, Numbers DEF Kinds
  <2> QED
    BY <2>1 DEF Requests, KeyRequest
<1>5. Checking(f) \in Gets
  BY DEF Checking, Gets
<1>6. Kinds'
  <2>1. get' \in [Clients -> Gets]
    BY <1>1, <1>2, <1>5 DEF Kinds
  <2>2. toServer' \in [Clients -> Seq(Requests)]
    BY <1>1, <1>2, <1>4, AppendIn DEF Kinds
  <2>3. overtaken' \in [Clients -> SUBSET Files]
    BY <1>1, <1>2 DEF Kinds
  <2> QED
    BY <1>1, <1>2, <2>1, <2>2, <2>3 DEF Kinds, server, disks
<1>7. /\ get'[c] = Checking(f) /\ toServer'[c] = <<KeyRequest(f, local[c][f])>>
      /\ overtaken'[c] = overtaken[c] \ {f}
  BY <1>1, <1>2, <1>3 DEF Kinds, IdleInv
<1>8. ClientInv(c)'
  <2>1. CheckInv(c)'
    BY <1>1, <1>3, <1>7 DEF CheckInv, IdleInv, Checking, disks
  <2> QED
    BY <1>1, <1>2, <1>5, <1>7, <2>1 DEF ClientInv, ClientOK, Checking, Idle, server, disks
<1>9. WholeInv(c)' /\ CurrentInv(c)'
  <2>1. \A g \in checked'[c] \ overtaken'[c] : g # f /\ g \in checked[c] \ overtaken[c]
    BY <1>1, <1>7
  <2>2. \A g : Quiet(c, g)' => Quiet(c, g)
    BY <1>1, <1>3 DEF Quiet, InGet
  <2> QED
    BY <1>1, <1>2, <2>1, <2>2 DEF ClientOK, WholeInv, CurrentInv, CurrentOK, server, disks
<1>10. \A d \in Clients \ {c} : Unseen(d)
  BY <1>1, <1>2 DEF Unseen, Kinds, disks
<1> QED
  BY <1>1, <1>6, <1>8, <1>9, <1>10, OneClient DEF ClientOK, server

(* The first request of a transfer.                                        *)
LEMMA FirstRequest ==
    ASSUME NEW f \in Files
    PROVE  PartRequest(f, 0) \in Requests /\ Loading(f, 0) \in Gets
<1>1. <<>> \in Seq(Blocks)
  OBVIOUS
<1> QED
  BY <1>1 DEF PartRequest, Requests, Loading, Gets

(* get() of a file that is not there.                                      *)
LEMMA FetchStep ==
    ASSUME TransferInv, NEW c \in Clients, NEW f \in Files, Fetch(c, f)
    PROVE  TransferInv'
<1>1. /\ get[c] = Idle /\ local[c][f] = Absent /\ c \in online
      /\ local' = [local EXCEPT ![c][f] = Absent]
      /\ partial' = [partial EXCEPT ![c][f] = <<>>]
      /\ get' = [get EXCEPT ![c] = Loading(f, 0)]
      /\ toServer' = [toServer EXCEPT ![c] = Append(@, PartRequest(f, 0))]
      /\ overtaken' = [overtaken EXCEPT ![c] = @ \ {f}]
      /\ UNCHANGED <<server, online, checked, toClient>>
  BY DEF Fetch, Download, Cleared, Ask
<1>2. Kinds /\ ClientOK(c)
  BY DEF TransferInv
<1>3. IdleInv(c) /\ Idle.pc = "idle"
  BY <1>1, <1>2 DEF ClientOK, ClientInv, Idle
<1>4. PartRequest(f, 0) \in Requests /\ Loading(f, 0) \in Gets
  BY FirstRequest
<1>5. local' = local
  BY <1>1, <1>2 DEF Kinds
<1>6. Kinds'
  <2>1. get' \in [Clients -> Gets]
    BY <1>1, <1>2, <1>4 DEF Kinds
  <2>2. toServer' \in [Clients -> Seq(Requests)]
    BY <1>1, <1>2, <1>4, AppendIn DEF Kinds
  <2>3. overtaken' \in [Clients -> SUBSET Files]
    BY <1>1, <1>2 DEF Kinds
  <2>4. partial' \in [Clients -> [Files -> Seq(Versions \X Nat)]]
    <3>1. <<>> \in Seq(Versions \X Nat)
      OBVIOUS
    <3> QED
      BY <1>1, <1>2, <3>1 DEF Kinds
  <2> QED
    BY <1>1, <1>2, <1>5, <2>1, <2>2, <2>3, <2>4 DEF Kinds, server
<1>7. /\ get'[c] = Loading(f, 0) /\ partial'[c][f] = <<>>
      /\ toServer'[c] = Append(<<>>, PartRequest(f, 0))
      /\ overtaken'[c] = overtaken[c] \ {f}
  BY <1>1, <1>2, <1>3 DEF Kinds, IdleInv
<1>8. LoadInv(c)'
  <2>1. BlocksIn(toClient'[c]) = {} /\ local'[c][f] = Absent
    BY <1>1, <1>3, <1>5 DEF IdleInv
  <2> DEFINE q == <<>>
  <2>2. q \in Seq(Requests) /\ toServer'[c] = Append(q, PartRequest(f, 0))
    BY <1>7
  <2>3. PiecesOK(c)'
    <3>1. get'[c].file = f /\ get'[c].part = 0 /\ Len(partial'[c][f]) = 0
      BY <1>7 DEF Loading
    <3> QED
      BY <3>1, Numbers DEF PiecesOK
  <2>4. Asked(c)'
    BY <1>7, <2>1 DEF Asked, Loading
  <2> QED
    BY <1>7, <2>1, <2>3, <2>4 DEF LoadInv, Loading
<1>9. ClientInv(c)'
  BY <1>1, <1>2, <1>4, <1>5, <1>7, <1>8 DEF ClientInv, ClientOK, Loading, Idle, server
<1>10. WholeInv(c)' /\ CurrentInv(c)'
  <2>1. \A g \in Files : Quiet(c, g)' => Quiet(c, g) /\ g # f
    BY <1>1, <1>3, <1>7 DEF Quiet, InGet, Loading
  <2>2. \A g \in checked'[c] \ overtaken'[c] : g = f \/ g \in checked[c] \ overtaken[c]
    BY <1>1, <1>7
  <2> QED
    BY <1>1, <1>2, <1>5, <2>1, <2>2, Numbers DEF ClientOK, WholeInv, CurrentInv, CurrentOK, server
<1>11. \A d \in Clients \ {c} : Unseen(d)
  BY <1>1, <1>2, <1>5 DEF Unseen, Kinds
<1> QED
  BY <1>1, <1>6, <1>9, <1>10, <1>11, OneClient DEF ClientOK, server

-----------------------------------------------------------------------------
(* The server answers.                                                     *)

(* An answer appended takes no notice back.                                *)
LEMMA StillToCome ==
    ASSUME NEW q \in Seq(Blocks \union Keys), NEW m \in Blocks \union Keys, NEW e,
           Contains(q, e)
    PROVE  Contains(Append(q, m), e)
<1>1. PICK i \in 1..Len(q) : q[i] = e
  BY DEF Contains
<1>2. /\ i \in 1..Len(Append(q, m)) /\ Append(q, m)[i] = q[i]
  BY AppendIn
<1> QED
  BY <1>1, <1>2 DEF Contains

(* A notice is not a block, nor is it an answer that lets a file pass.     *)
LEMMA Notices ==
    /\ \A f : KeyAnswer(f).kind = "crc" /\ KeyAnswer(f).kind # "block"
    /\ \A f \in Files \union {NoFile} : KeyAnswer(f) \in Blocks \union Keys
    /\ \A f, g : KeyAnswer(f) = KeyAnswer(g) <=> f = g
    /\ \A f \in Files : f # NoFile /\ KeyAnswer(f) # KeyAnswer(NoFile)
<1>1. \A f, g : KeyAnswer(f) = KeyAnswer(g) <=> f = g
  <2> TAKE f, g
  <2>1. KeyAnswer(f).file = f /\ KeyAnswer(g).file = g
    BY DEF KeyAnswer
  <2> QED
    BY <2>1
<1>2. \A f \in Files : f # NoFile
  BY DownloadAssumption
<1>3. \A f : KeyAnswer(f).kind = "crc" /\ KeyAnswer(f).kind # "block"
  BY DEF KeyAnswer
<1>4. \A f \in Files \union {NoFile} : KeyAnswer(f) \in Blocks \union Keys
  BY DEF KeyAnswer, Keys
<1> QED
  BY <1>1, <1>2, <1>3, <1>4

(* The forms of a request and of a message.                                *)
LEMMA RequestForms ==
    ASSUME NEW m \in Requests
    PROVE  /\ m.kind \in {"crc", "download"} /\ m.file \in Files
           /\ m.kind = "download" => m = PartRequest(m.file, m.part) /\ m.part \in Nat
BY DEF Requests, PartRequest

(* The forms of the messages to a client.                                  *)
LEMMA MessageForms ==
    ASSUME NEW m \in Blocks \union Keys
    PROVE  /\ m.kind \in {"crc", "block"}
           /\ m.kind = "crc" => m \in Keys /\ m.file \in Files \union {NoFile} /\ m = KeyAnswer(m.file)
           /\ m.kind = "block" => m \in Blocks /\ m # KeyAnswer(NoFile)
<1>1. ASSUME m \in Keys PROVE m.kind = "crc" /\ m.file \in Files \union {NoFile} /\ m = KeyAnswer(m.file)
  BY <1>1 DEF Keys, KeyAnswer
<1>2. ASSUME m \in Blocks PROVE m.kind = "block"
  <2>1. CASE m = Failure
    BY <2>1 DEF Failure
  <2>2. CASE m \in [kind : {"block"}, error : {FALSE}, version : Versions, at : Nat]
    BY <2>2
  <2> QED
    BY <1>2, <2>1, <2>2 DEF Blocks
<1> QED
  BY <1>1, <1>2, Notices

(* cbRequestCRCKey(): the answer about the key of a file.                  *)
LEMMA KeyStep ==
    ASSUME TransferInv, NEW c \in Clients, Serve(c), cbRequestCRCKey(c)
    PROVE  TransferInv'
<1> DEFINE m == Head(toServer[c])
           a == KeyAnswer(KeyFor(m))
           f == get[c].file
<1>1. /\ toServer[c] # <<>> /\ m.kind = "crc"
      /\ toClient' = [toClient EXCEPT ![c] = Append(@, a)]
      /\ toServer' = [toServer EXCEPT ![c] = Tail(@)]
      /\ UNCHANGED <<server, overtaken, online, disks, checked, get>>
  BY DEF Serve, cbRequestCRCKey
<1>2. Kinds /\ ClientOK(c)
  BY DEF TransferInv
<1>3. m \in Requests /\ m.file \in Files /\ m = toServer[c][1]
  BY <1>1, <1>2, RequestForms DEF Kinds
<1>4. a \in Blocks \union Keys /\ a.kind # "block"
  BY <1>3, Notices DEF KeyFor
<1>5. toClient[c] \in Seq(Blocks \union Keys) /\ toServer[c] \in Seq(Requests)
  BY <1>2 DEF Kinds
<1>6. Kinds'
  <2>1. toServer' \in [Clients -> Seq(Requests)]
    BY <1>1, <1>2, TailIn DEF Kinds
  <2>2. toClient' \in [Clients -> Seq(Blocks \union Keys)]
    BY <1>1, <1>2, <1>4, AppendIn DEF Kinds
  <2> QED
    BY <1>1, <1>2, <2>1, <2>2 DEF Kinds, server, disks
<1>7. toServer'[c] = Tail(toServer[c]) /\ toClient'[c] = Append(toClient[c], a)
  BY <1>1, <1>2 DEF Kinds
<1>8. get[c].pc # "idle" /\ c \in online
  BY <1>1, <1>2, GetForms DEF ClientOK, ClientInv, IdleInv, Kinds
<1>9. BlocksIn(toClient'[c]) = BlocksIn(toClient[c])
  BY <1>4, <1>5, <1>7, AppendIn
<1> HIDE DEF m, a, f
<1>10. ASSUME get[c].pc = "checking" PROVE CheckInv(c)'
  <2>1. CheckInv(c)
    BY <1>2, <1>10 DEF ClientOK, ClientInv
  <2>2. /\ toServer[c] = <<KeyRequest(f, local[c][f])>> /\ BlocksIn(toClient[c]) = {}
        /\ AnswersIn(toClient[c]) = {} /\ ~(get[c].received /\ get[c].upToDate)
    BY <1>1, <2>1 DEF CheckInv, f
  <2>3. toServer'[c] = <<>> /\ m = KeyRequest(f, local[c][f])
    BY <1>3, <1>7, <2>2
  <2>4. f \in Files /\ m.file = f /\ m.version = local[c][f]
    BY <1>2, <1>10, <2>3, GetForms DEF Kinds, KeyRequest, f
  <2>5. /\ a = KeyAnswer(NoFile) => AnswersIn(toClient'[c]) = {Len(toClient[c]) + 1}
        /\ a # KeyAnswer(NoFile) => AnswersIn(toClient'[c]) = {}
    BY <1>4, <1>5, <1>7, <2>2, AppendIn
  <2>6. get'[c] = get[c] /\ f' = f
    BY <1>1 DEF f
  <2>7. ASSUME a = KeyAnswer(NoFile), NEW i PROVE Passes(c, f, i)'
    <3>1. current[f] = Absent \/ current[f] = local[c][f]
      <4>1. KeyFor(m) = NoFile
        BY <2>7, Notices DEF a, m
      <4> QED
        BY <2>4, <4>1, Notices DEF KeyFor
    <3>2. current[f] \in 0..Len(Size) /\ (local[c][f] = Mixed => current[f] # Absent)
      BY <1>2, <2>4 DEF Kinds, ClientOK, ClientInv
    <3>3. local[c][f] # Mixed
      BY <3>1, <3>2, Numbers
    <3> QED
      BY <1>1, <2>6, <3>1, <3>3 DEF Passes, CurrentOK, server, disks
  <2> QED
    BY <1>1, <1>9, <2>2, <2>3, <2>5, <2>7, <2>6 DEF CheckInv, f
<1>11. ASSUME get[c].pc = "loading" PROVE LoadInv(c)'
  <2>1. LoadInv(c)
    BY <1>2, <1>11 DEF ClientOK, ClientInv
  <2> DEFINE d == PartRequest(f, get[c].part)
  <2>2. d.kind # "crc"
    BY DEF PartRequest
  <2>3. /\ Len(toServer[c]) = 2 /\ toServer[c][2] = d
        /\ BlocksIn(toClient[c]) = {} /\ get[c].block = <<>>
    BY <1>1, <1>3, <2>1, <2>2 DEF LoadInv, Asked, Coming, AtHand, IdleInv, f
  <2>4. toServer'[c] = <<d>>
    <3>1. /\ Len(Tail(toServer[c])) = 1 /\ Tail(toServer[c])[1] = d
          /\ Tail(toServer[c]) \in Seq(Requests)
      BY <1>1, <1>5, <2>3
    <3> HIDE DEF d
    <3>2. \A q \in Seq(Requests) : Len(q) = 1 => q = <<q[1]>>
      OBVIOUS
    <3> QED
      BY <1>7, <3>1, <3>2
  <2>5. Asked(c)'
    BY <1>1, <1>9, <2>3, <2>4 DEF Asked, f
  <2> QED
    BY <1>1, <2>1, <2>5 DEF LoadInv, PiecesOK, server, disks
<1>12. ClientInv(c)'
  BY <1>1, <1>2, <1>8, <1>10, <1>11 DEF ClientInv, ClientOK, server, disks, Idle
<1>13. WholeInv(c)' /\ CurrentInv(c)'
  <2>1. \A g : Quiet(c, g)' => Quiet(c, g)
    BY <1>1, <1>4, <1>5, <1>7, StillToCome DEF Quiet, InGet
  <2> QED
    BY <1>1, <1>2, <2>1 DEF ClientOK, WholeInv, CurrentInv, CurrentOK, server, disks
<1>14. \A d \in Clients \ {c} : Unseen(d)
  BY <1>1, <1>2 DEF Unseen, Kinds, disks
<1> QED
  BY <1>1, <1>6, <1>12, <1>13, <1>14, OneClient DEF ClientOK, server

(* What f packed again for another client changes for d.                   *)
LEMMA OthersOK ==
    ASSUME NEW d \in Clients, NEW f \in Files, Kinds, ClientOK(d),
           UNCHANGED <<current, online>>,
           get'[d] = get[d], toServer'[d] = toServer[d],
           local'[d] = local[d], partial'[d] = partial[d], checked'[d] = checked[d],
           \/ toClient'[d] = toClient[d]
           \/ toClient'[d] = Append(toClient[d], KeyAnswer(f)),
           \A g \in Files : g # f => packed'[g] = packed[g],
           overtaken'[d] = overtaken[d] \/ overtaken'[d] = overtaken[d] \union {f},
           d \notin online => toClient'[d] = toClient[d],
           packed'[f] # packed[f] /\ d \in online =>
             toClient'[d] = Append(toClient[d], KeyAnswer(f)),
           packed'[f] # packed[f] /\ (Begun(d, f) \/ (d \notin online /\ f \in checked[d])) =>
             f \in overtaken'[d]
    PROVE  ClientOK(d)'
<1>1. /\ toClient[d] \in Seq(Blocks \union Keys) /\ get[d] \in Gets /\ toServer[d] \in Seq(Requests)
      /\ KeyAnswer(f) \in Blocks \union Keys /\ KeyAnswer(f).kind # "block"
      /\ KeyAnswer(f) # KeyAnswer(NoFile)
  BY Notices DEF Kinds
<1>2. BlocksIn(toClient'[d]) = BlocksIn(toClient[d]) /\ AnswersIn(toClient'[d]) = AnswersIn(toClient[d])
  <2> DEFINE q == Append(toClient[d], KeyAnswer(f))
  <2>1. BlocksIn(q) = BlocksIn(toClient[d]) /\ AnswersIn(q) = AnswersIn(toClient[d])
    BY <1>1, AppendIn
  <2>2. toClient'[d] = toClient[d] \/ toClient'[d] = q
    OBVIOUS
  <2> HIDE DEF q
  <2>3. CASE toClient'[d] = toClient[d]
    BY <2>3
  <2>4. CASE toClient'[d] = q
    BY <2>1, <2>4
  <2> QED
    BY <2>2, <2>3, <2>4
<1>3. \A i \in DOMAIN toClient[d] : i \in DOMAIN toClient'[d] /\ toClient'[d][i] = toClient[d][i]
  BY <1>1, AppendIn
<1>4. IdleInv(d)' = IdleInv(d)
  BY <1>2 DEF IdleInv
<1>5. \A g \in Files : g # f \/ packed'[f] = packed[f] => CurrentOK(d, g)' = CurrentOK(d, g)
  BY DEF CurrentOK
<1>6. ASSUME get[d].pc = "checking" PROVE CheckInv(d)'
  <2> DEFINE g == get[d].file
  <2>1. CheckInv(d)
    BY <1>6 DEF ClientOK, ClientInv
  <2>2. d \in online /\ g \in Files
    BY <1>1, <1>6, GetForms DEF ClientOK, ClientInv, Idle
  <2>3. ASSUME NEW i \in AnswersIn(toClient[d]) \union {0}, Passes(d, g, i)
        PROVE  Passes(d, g, i)'
    <3>1. ToldAfter(d, g, i) => ToldAfter(d, g, i)'
      BY <1>3 DEF ToldAfter
    <3>2. CASE g # f \/ packed'[f] = packed[f]
      BY <1>5, <2>2, <2>3, <3>1, <3>2 DEF Passes
    <3>3. CASE g = f /\ packed'[f] # packed[f]
      <4>1. toClient'[d] = Append(toClient[d], KeyAnswer(f))
        BY <2>2, <3>3
      <4>2. i \in 0..Len(toClient[d]) /\ Len(toClient[d]) \in Nat
        BY <1>1, AppendIn
      <4>3. /\ Len(toClient[d]) + 1 \in DOMAIN toClient'[d]
            /\ toClient'[d][Len(toClient[d]) + 1] = KeyAnswer(f)
        BY <1>1, <4>1, AppendIn
      <4>4. ToldAfter(d, g, i)'
        BY <3>3, <4>2, <4>3 DEF ToldAfter
      <4> QED
        BY <2>3, <4>4 DEF Passes
    <3> QED
      BY <3>2, <3>3
  <2> QED
    BY <1>2, <2>1, <2>3 DEF CheckInv
<1>7. ASSUME get[d].pc = "loading" PROVE LoadInv(d)'
  <2> DEFINE g == get[d].file
             n == get[d].part
  <2>1. LoadInv(d)
    BY <1>7 DEF ClientOK, ClientInv
  <2>2. g \in Files /\ n \in Nat /\ d \in online
    BY <1>1, <1>7, GetForms DEF ClientOK, ClientInv, Idle
  <2>3. ASSUME g = f, packed'[f] # packed[f], toServer[d] = <<>> \/ n > 0
        PROVE  f \in overtaken'[d]
    <3>1. ~Contains(toServer[d], PartRequest(f, 0))
      <4>1. CASE toServer[d] = <<>>
        BY <4>1 DEF Contains
      <4>2. CASE n > 0 /\ toServer[d] # <<>>
        <5>1. Asked(d)
          BY <2>1, <4>2 DEF LoadInv, Coming, AtHand, IdleInv
        <5>2. /\ PartRequest(g, n) # PartRequest(f, 0)
              /\ \A m : m.kind = "crc" => m # PartRequest(f, 0)
          <6>1. PartRequest(g, n).part = n /\ PartRequest(f, 0).part = 0 /\ PartRequest(f, 0).kind = "download"
            BY DEF PartRequest
          <6> QED
            BY <2>2, <4>2, <6>1
        <5>3. \A i \in 1..Len(toServer[d]) : toServer[d][i] = PartRequest(g, n) \/ toServer[d][i].kind = "crc"
          BY <5>1 DEF Asked
        <5> QED
          BY <5>2, <5>3 DEF Contains
      <4> QED
        BY <2>3, <4>1, <4>2
    <3> QED
      BY <1>7, <2>3, <3>1 DEF Begun, InGet
  <2>4. PiecesOK(d)'
    <3>1. g \notin overtaken'[d] => g \notin overtaken[d]
      OBVIOUS
    <3>2. n > 0 /\ g \notin overtaken'[d] => packed'[g] = packed[g]
      BY <2>2, <2>3
    <3> QED
      BY <2>1, <3>1, <3>2 DEF LoadInv, PiecesOK
  <2>5. ASSUME NEW b, toServer[d] = <<>>, BlockOK(d, b) PROVE BlockOK(d, b)'
    <3>1. g \notin overtaken'[d] => g \notin overtaken[d] /\ packed'[g] = packed[g] /\ CurrentOK(d, g)' = CurrentOK(d, g)
      BY <1>5, <2>2, <2>3, <2>5
    <3> QED
      BY <2>5, <3>1 DEF BlockOK
  <2>6. Asked(d) => Asked(d)'
    BY <1>2 DEF Asked
  <2>7. Coming(d) => Coming(d)'
    BY <1>2, <1>3, <2>5 DEF Coming
  <2>8. AtHand(d) => AtHand(d)'
    BY <1>4, <2>5 DEF AtHand, IdleInv
  <2> QED
    BY <2>1, <2>4, <2>6, <2>7, <2>8 DEF LoadInv
<1>8. ClientInv(d)'
  BY <1>4, <1>6, <1>7 DEF ClientOK, ClientInv
<1>9. WholeInv(d)'
  BY DEF ClientOK, WholeInv
<1>10. CurrentInv(d)'
  <2> SUFFICES ASSUME NEW g \in Files, g \in checked[d] \ overtaken'[d], Quiet(d, g)' PROVE CurrentOK(d, g)'
    BY DEF CurrentInv
  <2>1. Quiet(d, g)
    BY <1>1, StillToCome DEF Quiet, InGet
  <2>2. CurrentOK(d, g)
    BY <2>1 DEF ClientOK, CurrentInv
  <2>3. CASE g # f \/ packed'[f] = packed[f]
    BY <1>5, <2>2, <2>3
  <2>4. CASE g = f /\ packed'[f] # packed[f]
    <3>1. d \in online
      BY <2>4
    <3>2. Contains(toClient'[d], KeyAnswer(f))
      <4>1. /\ Len(toClient[d]) + 1 \in 1..Len(toClient'[d])
            /\ toClient'[d][Len(toClient[d]) + 1] = KeyAnswer(f)
        BY <1>1, <2>4, <3>1, AppendIn
      <4> QED
        BY <4>1 DEF Contains
    <3> QED
      BY <2>4, <3>2 DEF Quiet
  <2> QED
    BY <2>3, <2>4
<1> QED
  BY <1>8, <1>9, <1>10 DEF ClientOK

(* cbRequestDownload(): a block for one, and a notice for the others.      *)
LEMMA PartStep ==
    ASSUME TransferInv, NEW c \in Clients, Serve(c), cbRequestDownload(c)
    PROVE  TransferInv'
<1>1. Kinds /\ \A d \in Clients : ClientOK(d)
  BY DEF TransferInv
<1>2. PICK f \in Files, n \in Nat :
        toServer[c] # <<>> /\ Head(toServer[c]) = PartRequest(f, n) /\ toServer[c][1] = PartRequest(f, n)
  <2> DEFINE m == Head(toServer[c])
  <2>1. toServer[c] # <<>> /\ m.kind = "download" /\ m = toServer[c][1] /\ m \in Requests
    BY <1>1 DEF Kinds, Serve, cbRequestDownload
  <2> QED
    BY <2>1, RequestForms
<1>3. PartRequest(f, n).file = f /\ PartRequest(f, n).part = n
  BY DEF PartRequest
<1>4. PartRequest(f, n).kind # "crc"
  BY DEF PartRequest
<1> DEFINE new == current[f] # Absent /\ ~PackedFileUpToDate(f)
<1>5. /\ packed' = [packed EXCEPT ![f] = current[f]]
      /\ toClient' = [d \in Clients |->
             CASE d = c                -> Append(toClient[d], Answer(f, n))
               [] new /\ d \in Told(c) -> Append(toClient[d], KeyAnswer(f))
               [] OTHER                -> toClient[d]]
      /\ overtaken' = IF packed[f] = current[f] THEN overtaken
                      ELSE [d \in Clients |-> IF d \in TooLateFor(c, f)
                                              THEN overtaken[d] \union {f} ELSE overtaken[d]]
      /\ toServer' = [toServer EXCEPT ![c] = Tail(@)]
      /\ UNCHANGED <<current, listed, online, disks, checked, get>>
  <2> DEFINE m == Head(toServer[c])
             newm == current[m.file] # Absent /\ ~PackedFileUpToDate(m.file)
  <2>1. m.file = f /\ m.part = n
    BY <1>2, <1>3
  <2>2. /\ packed' = [packed EXCEPT ![m.file] = current[m.file]]
        /\ toClient' = [d \in Clients |->
               CASE d = c                -> Append(toClient[d], Answer(m.file, m.part))
                 [] newm /\ d \in Told(c) -> Append(toClient[d], KeyAnswer(m.file))
                 [] OTHER                -> toClient[d]]
        /\ overtaken' = IF packed[m.file] = current[m.file] THEN overtaken
                        ELSE [d \in Clients |-> IF d \in TooLateFor(c, m.file)
                                                THEN overtaken[d] \union {m.file} ELSE overtaken[d]]
    BY DEF Serve, cbRequestDownload
  <2>3. toServer' = [toServer EXCEPT ![c] = Tail(@)] /\ UNCHANGED <<current, listed, online, disks, checked, get>>
    BY DEF Serve, cbRequestDownload
  <2>4. newm = new
    BY <2>1
  <2> HIDE DEF m, newm, new
  <2> QED
    BY <2>1, <2>2, <2>3, <2>4
<1>6. PICK b \in Blocks : b = Answer(f, n) /\ b.kind = "block"
  <2>1. current[f] # Absent => current[f] \in Versions
    BY <1>1, Numbers DEF Kinds
  <2>2. Failure \in Blocks /\ Failure.kind = "block"
    BY DEF Failure, Blocks
  <2>3. current[f] # Absent => Block(current[f], n) \in Blocks /\ Block(current[f], n).kind = "block"
    BY <2>1 DEF Block, Blocks
  <2> QED
    BY <2>2, <2>3 DEF Answer
<1>7. packed[f] \in Nat /\ current[f] \in 0..Len(Size) /\ packed[f] <= current[f]
  BY <1>1, <1>2, Numbers DEF Kinds
<1>8. packed[f] # current[f] => new
  BY <1>7, Numbers DEF PackedFileUpToDate, Absent
<1>9. /\ packed'[f] = current[f] /\ \A g \in Files : g # f => packed'[g] = packed[g]
      /\ toServer'[c] = Tail(toServer[c]) /\ \A d \in Clients : d # c => toServer'[d] = toServer[d]
      /\ toClient'[c] = Append(toClient[c], b)
  <2>1. packed'[f] = current[f] /\ \A g \in Files : g # f => packed'[g] = packed[g]
    BY <1>5, <1>1 DEF Kinds
  <2>2. toServer'[c] = Tail(toServer[c]) /\ \A d \in Clients : d # c => toServer'[d] = toServer[d]
    BY <1>5, <1>1 DEF Kinds
  <2>3. toClient'[c] = Append(toClient[c], b)
    BY <1>5, <1>6 DEF Told
  <2> QED
    BY <2>1, <2>2, <2>3
<1>10. \A d \in Clients : d # c =>
        /\ toClient'[d] = IF new /\ d \in online THEN Append(toClient[d], KeyAnswer(f)) ELSE toClient[d]
  BY <1>5 DEF Told
<1>11. \A d \in Clients : overtaken'[d] = IF packed[f] # current[f] /\ d \in TooLateFor(c, f)
                                         THEN overtaken[d] \union {f} ELSE overtaken[d]
  BY <1>5
<1>12. Kinds'
  <2>1. toServer' \in [Clients -> Seq(Requests)]
    BY <1>5, <1>1, <1>2, TailIn DEF Kinds
  <2>2. toClient' \in [Clients -> Seq(Blocks \union Keys)]
    <3>1. KeyAnswer(f) \in Blocks \union Keys
      BY <1>2, Notices
    <3>2. ASSUME NEW d \in Clients PROVE toClient'[d] \in Seq(Blocks \union Keys)
      <4>1. toClient[d] \in Seq(Blocks \union Keys)
        BY <1>1 DEF Kinds
      <4>2. Append(toClient[d], KeyAnswer(f)) \in Seq(Blocks \union Keys)
        BY <3>1, <4>1, AppendIn
      <4>3. Append(toClient[d], b) \in Seq(Blocks \union Keys)
        BY <1>6, <4>1, AppendIn
      <4> QED
        BY <1>9, <1>10, <4>1, <4>2, <4>3
    <3> QED
      BY <1>5, <3>2
  <2>3. overtaken' \in [Clients -> SUBSET Files]
    BY <1>5, <1>1, <1>2 DEF Kinds
  <2>4. packed' \in [Files -> 0..Len(Size)] /\ \A g \in Files : packed'[g] <= current[g]
    BY <1>5, <1>1, <1>2, <1>7, Numbers DEF Kinds
  <2> QED
    BY <1>5, <1>1, <2>1, <2>2, <2>3, <2>4 DEF Kinds, disks
<1>13. ASSUME NEW d \in Clients, d # c PROVE ClientOK(d)'
  <2>1. packed[f] # current[f] => (f \in overtaken'[d] <=> f \in overtaken[d] \/ d \in TooLateFor(c, f))
    BY <1>11
  <2>2. /\ Begun(d, f) => d \in TooLateFor(c, f)
        /\ d \notin online /\ f \in checked[d] => d \in TooLateFor(c, f)
    BY <1>13 DEF TooLateFor
  <2>3. /\ toClient'[d] = toClient[d] \/ toClient'[d] = Append(toClient[d], KeyAnswer(f))
        /\ d \notin online => toClient'[d] = toClient[d]
        /\ packed'[f] # packed[f] /\ d \in online => toClient'[d] = Append(toClient[d], KeyAnswer(f))
    <3>1. CASE new /\ d \in online
      BY <1>10, <1>13, <3>1
    <3>2. CASE ~(new /\ d \in online)
      BY <1>8, <1>9, <1>10, <1>13, <3>2
    <3> QED
      BY <3>1, <3>2
  <2>4. overtaken'[d] = overtaken[d] \/ overtaken'[d] = overtaken[d] \union {f}
    BY <1>11
  <2>5. packed'[f] # packed[f] /\ (Begun(d, f) \/ (d \notin online /\ f \in checked[d])) => f \in overtaken'[d]
    BY <1>9, <2>1, <2>2
  <2>6. /\ get'[d] = get[d] /\ toServer'[d] = toServer[d] /\ local'[d] = local[d]
        /\ partial'[d] = partial[d] /\ checked'[d] = checked[d] /\ UNCHANGED <<current, online>>
    BY <1>5, <1>9, <1>13 DEF disks
  <2> HIDE DEF new
  <2> QED
    BY <1>1, <1>2, <1>9, <2>3, <2>4, <2>5, <2>6, OthersOK
<1>14. ClientOK(c)'
  <2>1. get[c].pc # "idle" /\ c \in online
    BY <1>2, <1>1, GetForms DEF ClientOK, ClientInv, IdleInv, Kinds
  <2>2. get[c].pc = "loading"
    <3>1. get[c].pc = "checking" => CheckInv(c)
      BY <1>1 DEF ClientOK, ClientInv
    <3>2. \A g, v : KeyRequest(g, v) # PartRequest(f, n)
      <4>1. \A g, v : KeyRequest(g, v).kind = "crc" /\ PartRequest(f, n).kind = "download"
        BY DEF KeyRequest, PartRequest
      <4> QED
        BY <4>1
    <3>3. get[c].pc # "checking"
      BY <1>2, <3>1, <3>2 DEF CheckInv
    <3> QED
      BY <1>1, <2>1, <3>3, GetForms DEF Kinds
  <2>3. LoadInv(c) /\ get[c].file \in Files /\ get[c].part \in Nat
    BY <1>1, <2>2, GetForms DEF ClientOK, ClientInv, Kinds
  <2>4. /\ toServer[c] = <<PartRequest(get[c].file, get[c].part)>>
        /\ BlocksIn(toClient[c]) = {} /\ get[c].block = <<>>
    BY <1>2, <1>4, <2>3 DEF LoadInv, Asked, Coming, AtHand, IdleInv
  <2>5. f = get[c].file /\ n = get[c].part /\ toServer'[c] = <<>>
    <3>1. PartRequest(f, n) = PartRequest(get[c].file, get[c].part)
      BY <1>2, <2>4
    <3>2. PartRequest(get[c].file, get[c].part).file = get[c].file
          /\ PartRequest(get[c].file, get[c].part).part = get[c].part
      BY DEF PartRequest
    <3> QED
      BY <1>2, <1>3, <1>9, <2>4, <3>1, <3>2
  <2>6. packed[f] # current[f] /\ n > 0 => f \in overtaken'[c]
    BY <1>11, <1>2, <1>3 DEF TooLateFor
  <2>7. f \notin overtaken'[c] => f \notin overtaken[c]
    BY <1>11
  <2>8. BlockOK(c, b)'
    <3>1. CASE current[f] = Absent
      BY <1>6, <1>5, <2>5, <3>1 DEF BlockOK, Answer, CurrentOK
    <3>2. CASE current[f] # Absent
      <4>1. current[f] \in Versions
        BY <1>7, <3>2, Numbers
      <4>2. /\ b = Block(current[f], n) /\ Block(current[f], n) # Failure
            /\ Block(current[f], n) \in [kind : {"block"}, error : {FALSE}, version : Versions, at : Nat]
            /\ Block(current[f], n).at = n /\ Block(current[f], n).version = current[f]
        <5>1. b = Block(current[f], n)
          BY <1>6, <3>2 DEF Answer
        <5>2. Block(current[f], n).error = FALSE /\ Failure.error = TRUE
          BY DEF Block, Failure
        <5> QED
          BY <1>2, <4>1, <5>1, <5>2 DEF Block
      <4> QED
        BY <1>5, <1>9, <2>5, <3>2, <4>2 DEF BlockOK
    <3> QED
      BY <3>1, <3>2
  <2>9. PiecesOK(c)'
    <3>1. n > 0 /\ f \notin overtaken'[c] => packed'[f] = packed[f] /\ f \notin overtaken[c]
      BY <1>9, <2>6, <2>7
    <3> QED
      BY <1>5, <2>3, <2>5, <3>1 DEF LoadInv, PiecesOK, disks
  <2>10. Coming(c)'
    <3> DEFINE k == Len(toClient[c]) + 1
    <3>1. toClient[c] \in Seq(Blocks \union Keys) /\ b # KeyAnswer(NoFile)
      BY <1>1, <1>6, Notices DEF Kinds
    <3>2. /\ k \in DOMAIN toClient'[c] /\ toClient'[c][k] = b
          /\ BlocksIn(toClient'[c]) = {k} /\ \A j \in AnswersIn(toClient'[c]) : j < k
      <4>1. /\ BlocksIn(Append(toClient[c], b)) = {k}
            /\ AnswersIn(Append(toClient[c], b)) \subseteq 1..Len(toClient[c])
            /\ Append(toClient[c], b)[k] = b
            /\ Len(Append(toClient[c], b)) = k /\ Len(toClient[c]) \in Nat
        <5>1. /\ b \in Blocks \union Keys /\ b.kind = "block" /\ b # KeyAnswer(NoFile)
          BY <1>6, <3>1
        <5> DEFINE S == Blocks \union Keys
                   t == toClient[c]
        <5>2. t \in Seq(S) /\ b \in S /\ BlocksIn(t) = {}
          BY <2>4, <3>1, <5>1
        <5> HIDE DEF S, t
        <5>3. /\ BlocksIn(Append(t, b)) = {Len(t) + 1}
              /\ AnswersIn(Append(t, b)) \subseteq 1..Len(t)
              /\ Append(t, b)[Len(t) + 1] = b
              /\ Len(Append(t, b)) = Len(t) + 1 /\ Len(t) \in Nat
          BY <5>1, <5>2, AppendIn
        <5> QED
          BY <5>3 DEF t
      <4> QED
        BY <1>9, <4>1 DEF BlocksIn
    <3> QED
      BY <1>5, <2>4, <2>5, <2>8, <3>2 DEF Coming
  <2>11. ClientInv(c)'
    BY <1>5, <1>1, <2>1, <2>2, <2>3, <2>9, <2>10 DEF ClientOK, ClientInv, LoadInv, Idle, disks
  <2>12. WholeInv(c)'
    BY <1>5, <1>1, <1>11 DEF ClientOK, WholeInv, disks
  <2>13. CurrentInv(c)'
    <3> SUFFICES ASSUME NEW g \in Files, g \in checked[c] \ overtaken'[c], Quiet(c, g)' PROVE CurrentOK(c, g)'
      BY <1>5 DEF CurrentInv
    <3>1. g # f /\ g \notin overtaken[c]
      BY <1>5, <1>11, <2>1, <2>5 DEF Quiet, InGet
    <3>2. Quiet(c, g)
      <4>1. toClient[c] \in Seq(Blocks \union Keys)
        BY <1>1 DEF Kinds
      <4>2. Contains(toClient[c], KeyAnswer(g)) => Contains(toClient'[c], KeyAnswer(g))
        BY <1>9, <1>6, <4>1, StillToCome
      <4> QED
        BY <1>5, <4>2 DEF Quiet, InGet
    <3>3. CurrentOK(c, g)
      BY <1>1, <3>1, <3>2 DEF ClientOK, CurrentInv
    <3> QED
      BY <1>5, <1>9, <3>1, <3>3 DEF CurrentOK, disks
  <2> QED
    BY <2>11, <2>12, <2>13 DEF ClientOK
<1> QED
  BY <1>12, <1>13, <1>14 DEF TransferInv

-----------------------------------------------------------------------------
(* A client reads: a notice, an answer, or a block.                        *)
LEMMA ReceiveStep ==
    ASSUME TransferInv, NEW c \in Clients, Receive(c)
    PROVE  TransferInv'
<1>1. Kinds /\ ClientOK(c)
  BY DEF TransferInv
<1>2. PICK q : q = toClient[c]
  OBVIOUS
<1>3. PICK m \in Blocks \union Keys :
        /\ q # <<>> /\ m = Head(q) /\ m = q[1]
        /\ \/ m.kind = "crc" /\ receivedCRC(c, m)
           \/ m.kind = "block" /\ receivedBlock(c, m)
        /\ toClient' = [toClient EXCEPT ![c] = Tail(@)]
        /\ UNCHANGED <<server, online, disks, toServer, overtaken>>
  <2>1. q # <<>> /\ Head(q) = q[1] /\ Head(q) \in Blocks \union Keys
    BY <1>2, <1>1 DEF Receive, Kinds
  <2> QED
    BY <1>2, <2>1 DEF Receive
<1>4. q \in Seq(Blocks \union Keys) /\ Len(q) \in Nat /\ 1 \in DOMAIN q /\ get[c] \in Gets
  BY <1>2, <1>1, <1>3 DEF Kinds
<1>5. toClient'[c] = Tail(q) /\ Tail(q) \in Seq(Blocks \union Keys)
  BY <1>2, <1>1, <1>3, <1>4, TailIn DEF Kinds
<1>6. c \in online
  BY <1>2, <1>1, <1>3 DEF ClientOK, ClientInv
<1>7. /\ BlocksIn(q) = {} => BlocksIn(Tail(q)) = {}
      /\ AnswersIn(q) = {} => AnswersIn(Tail(q)) = {}
      /\ \A i \in AnswersIn(Tail(q)) : i \in Nat \ {0} /\ i + 1 \in AnswersIn(q)
  <2>1. \A i : i \in AnswersIn(Tail(q)) => i \in 1..(Len(q) - 1) /\ i + 1 \in AnswersIn(q)
    BY <1>3, <1>4, TailIn
  <2>2. \A i : i \in BlocksIn(Tail(q)) => i + 1 \in BlocksIn(q)
    BY <1>3, <1>4, TailIn
  <2> QED
    BY <1>4, <2>1, <2>2
<1>8. toClient' \in [Clients -> Seq(Blocks \union Keys)]
  BY <1>1, <1>3, <1>5 DEF Kinds
<1>9. \A d \in Clients \ {c} : toClient'[d] = toClient[d]
  BY <1>1, <1>3 DEF Kinds
<1>10. \A g : Contains(q, KeyAnswer(g)) /\ m # KeyAnswer(g) => Contains(Tail(q), KeyAnswer(g))
  <2> TAKE g
  <2> SUFFICES ASSUME Contains(q, KeyAnswer(g)), m # KeyAnswer(g) PROVE Contains(Tail(q), KeyAnswer(g))
    OBVIOUS
  <2>1. PICK i \in 1..Len(q) : q[i] = KeyAnswer(g)
    BY DEF Contains
  <2>2. i > 1
    BY <1>3, <2>1
  <2>3. i - 1 \in 1..Len(Tail(q)) /\ Tail(q)[i - 1] = q[i]
    BY <1>3, <1>4, <2>1, <2>2
  <2> QED
    BY <2>1, <2>3 DEF Contains
<1>11. CASE m.kind = "crc"
  <2>1. receivedCRC(c, m) /\ m.file \in Files \union {NoFile} /\ m = KeyAnswer(m.file)
    BY <1>3, <1>11, MessageForms
  <2>2. checked' = [checked EXCEPT ![c] = @ \ {m.file}]
    BY <2>1 DEF receivedCRC
  <2>3. checked' \in [Clients -> SUBSET Files] /\ checked'[c] = checked[c] \ {m.file}
        /\ \A d \in Clients \ {c} : checked'[d] = checked[d]
    BY <1>1, <2>2 DEF Kinds
  <2>4. ASSUME get[c].pc = "checking"
        PROVE  LET g == [get[c] EXCEPT !.received = TRUE, !.upToDate = m.file = NoFile]
               IN  get' = [get EXCEPT ![c] = g] /\ g \in Gets
    <3>1. get' = [get EXCEPT ![c].received = TRUE, ![c].upToDate = m.file = NoFile]
      BY <2>1, <2>4 DEF receivedCRC
    <3>2. get[c] \in [pc : {"checking"}, file : Files, received : BOOLEAN, upToDate : BOOLEAN]
      BY <1>4, <2>4 DEF Gets, Idle
    <3> QED
      BY <1>1, <3>1, <3>2 DEF Kinds, Gets
  <2>5. ASSUME get[c].pc # "checking" PROVE get' = get
    BY <2>1, <2>5 DEF receivedCRC
  <2>6. get' \in [Clients -> Gets] /\ \A d \in Clients \ {c} : get'[d] = get[d]
    <3>1. get \in [Clients -> Gets]
      BY <1>1 DEF Kinds
    <3>2. get' = get \/ \E g \in Gets : get' = [get EXCEPT ![c] = g]
      BY <2>4, <2>5
    <3> QED
      BY <3>1, <3>2
  <2>7. Kinds'
    BY <1>1, <1>3, <1>8, <2>3, <2>6 DEF Kinds, server, disks
  <2>8. IdleInv(c) => IdleInv(c)'
    BY <1>2, <1>3, <1>5, <1>7 DEF IdleInv
  <2>9. 1 \notin BlocksIn(q) /\ (m.file = NoFile <=> 1 \in AnswersIn(q))
    BY <1>3, <1>4, <1>11, <2>1, Notices DEF BlocksIn, AnswersIn
  <2>10. ASSUME get[c].pc = "checking" PROVE CheckInv(c)' /\ get'[c].pc = "checking"
    <3>1. PICK f \in Files : f = get[c].file
      BY <1>4, <2>10, GetForms
    <3>2. CheckInv(c)
      BY <1>1, <2>10 DEF ClientOK, ClientInv
    <3>3. /\ get'[c].pc = "checking" /\ get'[c].file = f
          /\ get'[c].received /\ (get'[c].upToDate <=> m.file = NoFile)
      <4>1. get[c] \in [pc : {"checking"}, file : Files, received : BOOLEAN, upToDate : BOOLEAN]
        BY <1>4, <2>10 DEF Gets, Idle
      <4>2. get'[c] = [get[c] EXCEPT !.received = TRUE, !.upToDate = m.file = NoFile]
        BY <1>1, <2>4, <2>10 DEF Kinds
      <4> QED
        BY <3>1, <4>1, <4>2
    <3>4. \A i \in Nat : Passes(c, f, i + 1) => Passes(c, f, i)'
      <4> SUFFICES ASSUME NEW i \in Nat, Passes(c, f, i + 1) PROVE Passes(c, f, i)'
        OBVIOUS
      <4>1. ToldAfter(c, f, i + 1) => ToldAfter(c, f, i)'
        <5> SUFFICES ASSUME NEW j \in DOMAIN q, j > i + 1, q[j] = KeyAnswer(f) PROVE ToldAfter(c, f, i)'
          BY <1>2 DEF ToldAfter
        <5>1. j \in Nat /\ j - 1 \in DOMAIN Tail(q) /\ Tail(q)[j - 1] = KeyAnswer(f) /\ j - 1 > i
          BY <1>3, <1>4
        <5> QED
          BY <1>5, <5>1 DEF ToldAfter
      <4> QED
        BY <1>3, <4>1 DEF Passes, CurrentOK, server, disks
    <3>5. \A i \in AnswersIn(toClient'[c]) : Passes(c, f, i)'
      <4> SUFFICES ASSUME NEW i \in AnswersIn(Tail(q)) PROVE Passes(c, f, i)'
        BY <1>5
      <4>1. i \in Nat /\ i + 1 \in AnswersIn(q)
        BY <1>7
      <4>2. Passes(c, f, i + 1)
        BY <3>1, <1>2, <3>2, <4>1 DEF CheckInv
      <4> QED
        BY <3>4, <4>1, <4>2
    <3>6. CASE m.file = NoFile
      <4>1. 1 \in AnswersIn(q)
        BY <2>9, <3>6
      <4>2. toServer[c] = <<>> /\ \A i, j \in AnswersIn(q) : i = j
        BY <3>1, <1>2, <3>2, <4>1 DEF CheckInv
      <4>3. AnswersIn(Tail(q)) = {}
        BY <1>7, <4>1, <4>2
      <4>4. Passes(c, f, 0)'
        BY <3>1, <1>2, <3>2, <3>4, <4>1 DEF CheckInv
      <4> QED
        BY <3>1, <1>2, <1>3, <1>5, <1>7, <3>2, <3>3, <3>5, <4>2, <4>3, <4>4 DEF CheckInv
    <3>7. CASE m.file # NoFile
      <4>1. \A i, j \in AnswersIn(q) : toServer[c] = <<>> => i = j
        BY <3>1, <1>2, <3>2 DEF CheckInv
      <4>2. toServer[c] = <<>> => \A i, j \in AnswersIn(Tail(q)) : i = j
        BY <1>7, <4>1
      <4>3. ~(get'[c].received /\ get'[c].upToDate)
        BY <3>3, <3>7
      <4>4. \/ toServer'[c] = <<KeyRequest(f, local'[c][f])>> /\ AnswersIn(Tail(q)) = {}
            \/ toServer'[c] = <<>> /\ \A i, j \in AnswersIn(Tail(q)) : i = j
        BY <3>1, <1>2, <1>3, <1>7, <3>2, <4>2 DEF CheckInv, disks
      <4> QED
        BY <3>1, <1>2, <1>5, <1>7, <3>2, <3>3, <3>5, <4>3, <4>4 DEF CheckInv
    <3> QED
      BY <3>3, <3>6, <3>7
  <2>11. ASSUME get[c].pc = "loading" PROVE LoadInv(c)'
    <3>1. LoadInv(c) /\ get' = get
      BY <1>1, <2>5, <2>11 DEF ClientOK, ClientInv
    <3>2. \A b : BlockOK(c, b) => BlockOK(c, b)'
      BY <1>3, <3>1 DEF BlockOK, CurrentOK, server, disks
    <3>3. Asked(c) => Asked(c)'
      BY <1>2, <1>3, <1>5, <1>7, <3>1 DEF Asked
    <3>4. AtHand(c) => AtHand(c)'
      BY <2>8, <3>1, <3>2 DEF AtHand
    <3>5. ASSUME Coming(c) PROVE Coming(c)'
      <4>1. PICK i \in DOMAIN q : /\ BlocksIn(q) = {i} /\ BlockOK(c, q[i])
                                  /\ \A j \in AnswersIn(q) : j < i
        BY <1>2, <3>5 DEF Coming
      <4>2. i > 1 /\ i \in Nat
        BY <1>4, <2>9, <4>1
      <4>3. i - 1 \in DOMAIN Tail(q) /\ Tail(q)[i - 1] = q[i]
        BY <1>3, <1>4, <4>2
      <4>4. BlocksIn(Tail(q)) = {i - 1}
        <5>1. \A j : j \in BlocksIn(Tail(q)) => j \in Nat /\ j + 1 \in BlocksIn(q)
          BY <1>3, <1>4, TailIn
        <5>2. i - 1 \in BlocksIn(Tail(q))
          BY <4>1, <4>3 DEF BlocksIn
        <5>3. \A j : j \in BlocksIn(Tail(q)) => j = i - 1
          BY <4>1, <4>2, <5>1
        <5> QED
          BY <5>2, <5>3
      <4>5. \A j \in AnswersIn(Tail(q)) : j < i - 1
        BY <1>7, <4>1, <4>2
      <4>6. BlockOK(c, q[i])'
        BY <3>2, <4>1
      <4> QED
        BY <1>3, <1>5, <3>1, <3>5, <4>3, <4>4, <4>5, <4>6 DEF Coming
    <3> QED
      BY <1>3, <3>1, <3>3, <3>4, <3>5 DEF LoadInv, PiecesOK, disks, server
  <2>12. ClientInv(c)'
    BY <1>1, <1>3, <1>6, <2>5, <2>6, <2>8, <2>10, <2>11, GetForms DEF ClientInv, ClientOK, Kinds, Idle, server, disks
  <2>13. WholeInv(c)'
    BY <1>1, <1>3, <2>3 DEF ClientOK, WholeInv, disks
  <2>14. CurrentInv(c)'
    <3> SUFFICES ASSUME NEW g \in Files, g \in checked'[c] \ overtaken'[c], Quiet(c, g)' PROVE CurrentOK(c, g)'
      BY DEF CurrentInv
    <3>1. g \in checked[c] \ overtaken[c] /\ m # KeyAnswer(g)
      BY <1>3, <2>1, <2>3, Notices
    <3>2. InGet(c, g) => InGet(c, g)'
      <4>1. CASE get[c].pc = "checking"
        <5>1. get'[c].pc = "checking" /\ get'[c].file = get[c].file
          <6>1. get[c] \in [pc : {"checking"}, file : Files, received : BOOLEAN, upToDate : BOOLEAN]
            BY <1>4, <4>1 DEF Gets, Idle
          <6>2. get'[c] = [get[c] EXCEPT !.received = TRUE, !.upToDate = m.file = NoFile]
            BY <1>1, <2>4, <4>1 DEF Kinds
          <6> QED
            BY <6>1, <6>2
        <5> QED
          BY <5>1 DEF InGet
      <4>2. CASE get[c].pc # "checking"
        BY <2>5, <4>2 DEF InGet
      <4> QED
        BY <4>1, <4>2
    <3>3. Quiet(c, g)
      BY <1>2, <1>5, <1>10, <3>1, <3>2 DEF Quiet
    <3> QED
      BY <1>1, <1>3, <3>1, <3>3 DEF ClientOK, CurrentInv, CurrentOK, server, disks
  <2>15. \A d \in Clients \ {c} : Unseen(d)
    BY <1>3, <1>9, <2>3, <2>6 DEF Unseen, disks
  <2> QED
    BY <1>3, <2>7, <2>12, <2>13, <2>14, <2>15, OneClient DEF ClientOK, server
<1>12. CASE m.kind = "block"
  <2>1. receivedBlock(c, m) /\ m \in Blocks /\ m # KeyAnswer(NoFile) /\ 1 \in BlocksIn(q)
    BY <1>3, <1>4, <1>12, MessageForms DEF BlocksIn
  <2>2. get' = [get EXCEPT ![c].block = <<m>>] /\ checked' = checked
    BY <2>1 DEF receivedBlock
  <2>3. get[c].pc = "loading" /\ LoadInv(c)
    <3>1. get[c].pc # "idle"
      BY <1>2, <1>1, <1>4, <2>1, GetForms DEF ClientOK, ClientInv, IdleInv
    <3>2. get[c].pc # "checking"
      BY <1>2, <1>1, <2>1 DEF ClientOK, ClientInv, CheckInv
    <3> QED
      BY <1>1, <1>4, <3>1, <3>2, GetForms DEF ClientOK, ClientInv
  <2>4. Coming(c)
    BY <1>2, <2>1, <2>3 DEF LoadInv, Asked, AtHand, IdleInv
  <2>5. BlocksIn(q) = {1} /\ BlockOK(c, m) /\ AnswersIn(q) = {}
    <3>1. PICK i \in DOMAIN q : /\ BlocksIn(q) = {i} /\ BlockOK(c, q[i])
                                /\ \A j \in AnswersIn(q) : j < i
      BY <1>2, <2>4 DEF Coming
    <3>2. i = 1
      BY <2>1, <3>1
    <3>3. AnswersIn(q) \subseteq 1..Len(q)
      BY <1>4 DEF AnswersIn
    <3> QED
      BY <1>3, <1>4, <3>1, <3>2, <3>3
  <2>6. get[c] \in [pc : {"loading"}, file : Files, part : Nat, block : Seq(Blocks)]
    BY <1>4, <2>3 DEF Gets, Idle
  <2> DEFINE g == [get[c] EXCEPT !.block = <<m>>]
  <2>7. g \in Gets /\ get' = [get EXCEPT ![c] = g]
    <3>1. <<m>> \in Seq(Blocks)
      BY <2>1
    <3> QED
      BY <1>1, <2>2, <2>6, <3>1 DEF Gets, Kinds
  <2>8. /\ get'[c].pc = "loading" /\ get'[c].file = get[c].file /\ get'[c].part = get[c].part
        /\ get'[c].block = <<m>>
    BY <1>1, <2>3, <2>6, <2>7 DEF Kinds
  <2>9. Kinds'
    <3>1. get' \in [Clients -> Gets]
      BY <1>1, <2>7 DEF Kinds
    <3> QED
      BY <1>1, <1>3, <1>8, <2>2, <3>1 DEF Kinds, server, disks
  <2>10. AtHand(c)'
    <3>1. BlocksIn(Tail(q)) = {} /\ AnswersIn(Tail(q)) = {}
      BY <1>3, <1>4, <2>5, TailIn
    <3>2. IdleInv(c)'
      BY <1>3, <1>5, <2>4, <3>1 DEF IdleInv, Coming
    <3>3. BlockOK(c, m)'
      BY <1>3, <2>5, <2>8 DEF BlockOK, CurrentOK, server, disks
    <3> QED
      BY <2>8, <3>2, <3>3 DEF AtHand
  <2>11. LoadInv(c)'
    BY <1>3, <2>3, <2>8, <2>10 DEF LoadInv, PiecesOK, server, disks
  <2>12. ClientInv(c)'
    <3>1. get'[c] \in Gets
      BY <2>9 DEF Kinds
    <3> QED
      BY <1>1, <1>3, <1>6, <2>8, <2>11, <3>1 DEF ClientInv, ClientOK, Idle, server, disks
  <2>13. WholeInv(c)' /\ CurrentInv(c)'
    <3>1. \A e \in Files : Quiet(c, e)' => Quiet(c, e)
      <4>1. \A e \in Files : m # KeyAnswer(e)
        BY <1>12, Notices
      <4> QED
        BY <1>2, <1>5, <1>10, <2>3, <2>8, <4>1 DEF Quiet, InGet
    <3> QED
      BY <1>1, <1>3, <2>2, <3>1 DEF ClientOK, WholeInv, CurrentInv, CurrentOK, server, disks
  <2>14. \A d \in Clients \ {c} : Unseen(d)
    BY <1>1, <1>3, <1>9, <2>2 DEF Unseen, disks, Kinds
  <2> QED
    BY <1>3, <2>9, <2>12, <2>13, <2>14, OneClient DEF ClientOK, server
<1> QED
  BY <1>3, <1>11, <1>12

-----------------------------------------------------------------------------
(* A client goes on: the file is taken as it is, or loaded, or given up.   *)
LEMMA TakeStep ==
    ASSUME TransferInv, NEW c \in Clients, Decide(c), get[c].upToDate, get' = [get EXCEPT ![c] = Idle],
           UNCHANGED <<disks, toServer>>
    PROVE  TransferInv'
<1>1. Kinds /\ ClientOK(c) /\ get[c] \in Gets
  BY DEF TransferInv, Kinds
<1>2. /\ get[c].pc = "checking" /\ get[c].received
      /\ checked' = [checked EXCEPT ![c] = @ \union {get[c].file}]
      /\ UNCHANGED <<server, online, toClient, overtaken>>
  BY DEF Decide
<1>3. PICK f \in Files : f = get[c].file
  BY <1>1, <1>2, GetForms
<1>4. CheckInv(c)
  BY <1>1, <1>2 DEF ClientOK, ClientInv
<1>5. IdleInv(c) /\ Passes(c, f, 0)
  BY <1>2, <1>3, <1>4 DEF CheckInv, IdleInv
<1>6. Idle \in Gets /\ Idle.pc = "idle"
  BY DEF Gets, Idle
<1>7. get'[c] = Idle /\ checked'[c] = checked[c] \union {f}
  BY <1>1, <1>2, <1>3 DEF Kinds
<1>8. Kinds'
  <2>1. get' \in [Clients -> Gets]
    BY <1>1, <1>6 DEF Kinds
  <2>2. checked' \in [Clients -> SUBSET Files]
    BY <1>1, <1>2, <1>3 DEF Kinds
  <2> QED
    BY <1>1, <1>2, <2>1, <2>2 DEF Kinds, server, disks
<1>9. ClientInv(c)'
  BY <1>1, <1>2, <1>5, <1>6, <1>7 DEF ClientInv, ClientOK, IdleInv, server, disks
<1>10. WholeInv(c)'
  BY <1>1, <1>2, <1>5, <1>7 DEF ClientOK, WholeInv, Passes, disks
<1>11. CurrentInv(c)'
  <2> SUFFICES ASSUME NEW g \in Files, g \in checked'[c] \ overtaken[c], Quiet(c, g)' PROVE CurrentOK(c, g)
    BY <1>2 DEF CurrentInv, CurrentOK, server, disks
  <2>1. CASE g = f
    <3>1. ~ToldAfter(c, f, 0)
      BY <1>2, <2>1 DEF Quiet, ToldAfter, Contains
    <3> QED
      BY <1>5, <2>1, <3>1 DEF Passes
  <2>2. CASE g # f
    <3>1. Quiet(c, g)
      BY <1>2, <1>3, <2>2 DEF Quiet, InGet
    <3> QED
      BY <1>1, <1>7, <2>2, <3>1 DEF ClientOK, CurrentInv
  <2> QED
    BY <2>1, <2>2
<1>12. \A d \in Clients \ {c} : Unseen(d)
  BY <1>1, <1>2 DEF Unseen, Kinds, disks
<1> QED
  BY <1>2, <1>8, <1>9, <1>10, <1>11, <1>12, OneClient DEF ClientOK, server

(* The file is not up to date: it is loaded.                               *)
LEMMA ReloadStep ==
    ASSUME TransferInv, NEW c \in Clients, Decide(c), Download(c, get[c].file)
    PROVE  TransferInv'
<1>1. Kinds /\ ClientOK(c) /\ get[c] \in Gets
  BY DEF TransferInv, Kinds
<1>2. PICK f \in Files : f = get[c].file
  BY <1>1, GetForms DEF Decide
<1>3. /\ get[c].pc = "checking" /\ get[c].received
      /\ checked' = [checked EXCEPT ![c] = @ \union {f}]
      /\ local' = [local EXCEPT ![c][f] = Absent]
      /\ partial' = [partial EXCEPT ![c][f] = <<>>]
      /\ get' = [get EXCEPT ![c] = Loading(f, 0)]
      /\ toServer' = [toServer EXCEPT ![c] = Append(@, PartRequest(f, 0))]
      /\ UNCHANGED <<server, online, toClient, overtaken>>
  BY <1>2 DEF Decide, Download, Cleared, Ask
<1>4. CheckInv(c) /\ c \in online
  BY <1>1, <1>3 DEF ClientOK, ClientInv, Idle
<1>5. PartRequest(f, 0) \in Requests /\ Loading(f, 0) \in Gets
  BY FirstRequest
<1>6. Kinds'
  <2>1. get' \in [Clients -> Gets]
    BY <1>1, <1>3, <1>5 DEF Kinds
  <2>2. toServer' \in [Clients -> Seq(Requests)]
    BY <1>1, <1>3, <1>5, AppendIn DEF Kinds
  <2>3. checked' \in [Clients -> SUBSET Files]
    BY <1>1, <1>3 DEF Kinds
  <2>4. partial' \in [Clients -> [Files -> Seq(Versions \X Nat)]]
    <3>1. <<>> \in Seq(Versions \X Nat)
      OBVIOUS
    <3> QED
      BY <1>1, <1>3, <3>1 DEF Kinds
  <2>5. local' \in [Clients -> [Files -> 0..Mixed]]
    BY <1>1, <1>3, Numbers DEF Kinds
  <2> QED
    BY <1>1, <1>3, <2>1, <2>2, <2>3, <2>4, <2>5 DEF Kinds, server
<1>7. /\ get'[c] = Loading(f, 0) /\ partial'[c][f] = <<>> /\ local'[c][f] = Absent
      /\ toServer'[c] = Append(toServer[c], PartRequest(f, 0))
      /\ checked'[c] = checked[c] \union {f}
      /\ \A g \in Files : g # f => local'[c][g] = local[c][g]
  BY <1>1, <1>3 DEF Kinds
<1>8. /\ get'[c].pc = "loading" /\ get'[c].file = f /\ get'[c].part = 0 /\ get'[c].block = <<>>
  BY <1>7 DEF Loading
<1>9. Asked(c)'
  <2> DEFINE k == KeyRequest(f, local[c][f])
  <2>1. toServer[c] = <<>> \/ toServer[c] = <<k>>
    BY <1>2, <1>4 DEF CheckInv
  <2>2. k.kind = "crc"
    BY DEF KeyRequest
  <2> HIDE DEF k
  <2>3. BlocksIn(toClient'[c]) = {}
    BY <1>3, <1>4 DEF CheckInv
  <2>4. CASE toServer[c] = <<>>
    BY <1>7, <1>8, <2>3, <2>4 DEF Asked
  <2>5. CASE toServer[c] = <<k>>
    <3> DEFINE t == toServer[c]
               d == PartRequest(f, 0)
    <3>1. t \in Seq(Requests) /\ d \in Requests
      BY <1>1, <1>5 DEF Kinds
    <3>2. Len(t) = 1 /\ t[1] = k
      BY <2>5
    <3> HIDE DEF t, d
    <3>3. Len(Append(t, d)) = 2 /\ Append(t, d)[1] = k /\ Append(t, d)[2] = d
      <4>1. 1 \in DOMAIN t
        BY <3>1, <3>2
      <4> QED
        BY <3>1, <3>2, <4>1, AppendIn
    <3>4. /\ Len(toServer'[c]) = 2 /\ toServer'[c][1].kind = "crc"
          /\ toServer'[c][2] = PartRequest(f, 0)
      BY <1>7, <2>2, <3>3 DEF t, d
    <3> QED
      BY <1>8, <2>3, <3>4 DEF Asked
  <2> QED
    BY <2>1, <2>4, <2>5
<1>10. LoadInv(c)'
  <2>1. PiecesOK(c)'
    <3>1. Len(partial'[c][f]) = 0
      BY <1>7
    <3> QED
      BY <1>8, <3>1, Numbers DEF PiecesOK
  <2> QED
    BY <1>7, <1>8, <1>9, <2>1 DEF LoadInv
<1>11. ClientInv(c)'
  <2>1. get'[c] \in Gets
    BY <1>5, <1>7
  <2> QED
    BY <1>1, <1>3, <1>4, <1>7, <1>8, <1>10, <2>1, Numbers DEF ClientInv, ClientOK, Idle, server
<1>12. WholeInv(c)' /\ CurrentInv(c)'
  <2>1. \A g \in Files : Quiet(c, g)' => Quiet(c, g) /\ g # f
    BY <1>2, <1>3, <1>8 DEF Quiet, InGet
  <2>2. \A g \in checked'[c] \ overtaken'[c] : g = f \/ (g \in checked[c] \ overtaken[c] /\ g # f)
    BY <1>3, <1>7
  <2>3. WholeInv(c)'
    BY <1>1, <1>7, <2>2, Numbers DEF ClientOK, WholeInv, Kinds
  <2>4. CurrentInv(c)'
    BY <1>1, <1>3, <1>7, <2>1, <2>2 DEF ClientOK, CurrentInv, CurrentOK, server
  <2> QED
    BY <2>3, <2>4
<1>13. \A d \in Clients \ {c} : Unseen(d)
  BY <1>1, <1>3 DEF Unseen, Kinds
<1> QED
  BY <1>3, <1>6, <1>11, <1>12, <1>13, OneClient DEF ClientOK, server

(* The wait for the key is over, one way or the other.                     *)
LEMMA DecideStep ==
    ASSUME TransferInv, NEW c \in Clients, Decide(c)
    PROVE  TransferInv'
BY TakeStep, ReloadStep DEF Decide

(* The server does not have the file.                                      *)
LEMMA GiveUpStep ==
    ASSUME TransferInv, NEW c \in Clients, GiveUp(c)
    PROVE  TransferInv'
<1>1. Kinds /\ ClientOK(c) /\ get[c] \in Gets
  BY DEF TransferInv, Kinds
<1>2. PICK f \in Files : f = get[c].file
  BY <1>1, GetForms DEF GiveUp
<1>3. /\ get[c].pc = "loading" /\ get[c].block = <<Failure>>
      /\ partial' = [partial EXCEPT ![c][f] = <<>>]
      /\ get' = [get EXCEPT ![c] = Idle]
      /\ UNCHANGED <<server, online, local, checked, toServer, toClient, overtaken>>
  BY <1>2 DEF GiveUp
<1>4. LoadInv(c)
  BY <1>1, <1>3 DEF ClientOK, ClientInv
<1>5. AtHand(c)
  BY <1>3, <1>4 DEF LoadInv, Asked, Coming
<1>6. IdleInv(c) /\ (f \notin overtaken[c] => CurrentOK(c, f))
  BY <1>2, <1>3, <1>5 DEF AtHand, BlockOK
<1>7. Idle \in Gets /\ Idle.pc = "idle"
  BY DEF Gets, Idle
<1>8. get'[c] = Idle
  BY <1>1, <1>3 DEF Kinds
<1>9. Kinds'
  <2>1. get' \in [Clients -> Gets]
    BY <1>1, <1>3, <1>7 DEF Kinds
  <2>2. partial' \in [Clients -> [Files -> Seq(Versions \X Nat)]]
    <3>1. <<>> \in Seq(Versions \X Nat)
      OBVIOUS
    <3> QED
      BY <1>1, <1>3, <3>1 DEF Kinds
  <2> QED
    BY <1>1, <1>3, <2>1, <2>2 DEF Kinds, server
<1>10. ClientInv(c)'
  BY <1>1, <1>3, <1>6, <1>7, <1>8 DEF ClientInv, ClientOK, IdleInv, server
<1>11. WholeInv(c)' /\ CurrentInv(c)'
  <2>1. \A g \in Files : Quiet(c, g)' => Quiet(c, g) \/ g = f
    BY <1>2, <1>3 DEF Quiet, InGet
  <2> QED
    BY <1>1, <1>3, <1>6, <2>1 DEF ClientOK, WholeInv, CurrentInv, CurrentOK, server
<1>12. \A d \in Clients \ {c} : Unseen(d)
  BY <1>1, <1>3 DEF Unseen, Kinds
<1> QED
  BY <1>3, <1>9, <1>10, <1>11, <1>12, OneClient DEF ClientOK, server

-----------------------------------------------------------------------------
(* Files checked again, connections, and what happens on the server alone. *)
LEMMA RefreshStep ==
    ASSUME TransferInv, NEW c \in Clients, NEW f \in Files, Refresh(c, f)
    PROVE  TransferInv'
<1>1. Kinds /\ ClientOK(c)
  BY DEF TransferInv
<1>2. /\ get[c] = Idle
      /\ checked' = [checked EXCEPT ![c] = @ \ {f}]
      /\ overtaken' = [overtaken EXCEPT ![c] = @ \ {f}]
      /\ UNCHANGED <<server, online, disks, get, toServer, toClient>>
  BY DEF Refresh
<1>3. Kinds'
  <2>1. checked' \in [Clients -> SUBSET Files] /\ overtaken' \in [Clients -> SUBSET Files]
    BY <1>1, <1>2 DEF Kinds
  <2> QED
    BY <1>1, <1>2, <2>1 DEF Kinds, server, disks
<1>4. \A g \in checked'[c] \ overtaken'[c] : g \in checked[c] \ overtaken[c]
  BY <1>1, <1>2 DEF Kinds
<1>5. ClientInv(c)'
  <2>1. Idle.pc = "idle"
    BY DEF Idle
  <2> QED
    BY <1>1, <1>2, <2>1 DEF ClientInv, ClientOK, IdleInv, server, disks
<1>6. WholeInv(c)' /\ CurrentInv(c)'
  BY <1>1, <1>2, <1>4 DEF ClientOK, WholeInv, CurrentInv, CurrentOK, Quiet, InGet, server, disks
<1>7. \A d \in Clients \ {c} : Unseen(d)
  BY <1>1, <1>2 DEF Unseen, Kinds, disks
<1> QED
  BY <1>2, <1>3, <1>5, <1>6, <1>7, OneClient DEF ClientOK, server

(* The notices that are lost with a connection.                            *)
LEMMA LostNotices ==
    ASSUME Kinds, NEW c \in Clients
    PROVE  /\ NoticesLost(c) \subseteq Files
           /\ \A g \in Files : Contains(toClient[c], KeyAnswer(g)) => g \in NoticesLost(c)
<1> DEFINE q == toClient[c]
<1>1. q \in Seq(Blocks \union Keys)
  BY DEF Kinds
<1>2. \A m : m \in ToSet(q) <=> \E i \in DOMAIN q : m = q[i]
  BY DEF ToSet
<1>3. \A m \in ToSet(q) : m \in Blocks \union Keys
  BY <1>1, <1>2
<1>4. \A m \in ToSet(q) : m.kind = "crc" => m.file \in Files \union {NoFile}
  BY <1>3, MessageForms
<1>5. ASSUME NEW g \in Files, Contains(q, KeyAnswer(g)) PROVE g \in NoticesLost(c)
  <2>1. KeyAnswer(g) \in ToSet(q)
    BY <1>1, <1>2, <1>5 DEF Contains
  <2>2. KeyAnswer(g).file = g /\ g # NoFile
    BY Notices DEF KeyAnswer
  <2> QED
    BY <2>1, <2>2, Notices DEF NoticesLost
<1> QED
  BY <1>4, <1>5 DEF NoticesLost

(* The connection is lost.                                                 *)
LEMMA LoseStep ==
    ASSUME TransferInv, NEW c \in Clients, Lose(c)
    PROVE  TransferInv'
<1>1. Kinds /\ ClientOK(c)
  BY DEF TransferInv
<1>2. /\ online' = online \ {c}
      /\ toServer' = [toServer EXCEPT ![c] = <<>>]
      /\ toClient' = [toClient EXCEPT ![c] = <<>>]
      /\ get' = [get EXCEPT ![c] = Idle]
      /\ checked' = [checked EXCEPT ![c] = IF get[c] = Idle THEN @ ELSE {}]
      /\ overtaken' = [overtaken EXCEPT ![c] = (@ \union NoticesLost(c)) \intersect checked'[c]]
      /\ UNCHANGED <<server, disks>>
  BY DEF Lose
<1>3. Idle \in Gets /\ Idle.pc = "idle" /\ <<>> \in Seq(Requests) /\ <<>> \in Seq(Blocks \union Keys)
  BY DEF Gets, Idle
<1>4. /\ get'[c] = Idle /\ toServer'[c] = <<>> /\ toClient'[c] = <<>>
      /\ checked'[c] = IF get[c] = Idle THEN checked[c] ELSE {}
      /\ overtaken'[c] = (overtaken[c] \union NoticesLost(c)) \intersect checked'[c]
  BY <1>1, <1>2 DEF Kinds
<1>5. Kinds'
  <2>1. get' \in [Clients -> Gets] /\ toServer' \in [Clients -> Seq(Requests)]
        /\ toClient' \in [Clients -> Seq(Blocks \union Keys)]
    BY <1>1, <1>2, <1>3 DEF Kinds
  <2>2. checked' \in [Clients -> SUBSET Files]
    BY <1>1, <1>2 DEF Kinds
  <2>3. overtaken' \in [Clients -> SUBSET Files]
    BY <1>1, <1>2, <2>2 DEF Kinds
  <2> QED
    BY <1>1, <1>2, <2>1, <2>2, <2>3 DEF Kinds, server, disks
<1>6. ClientInv(c)'
  BY <1>1, <1>2, <1>3, <1>4 DEF ClientInv, ClientOK, IdleInv, BlocksIn, AnswersIn, server, disks
<1>7. WholeInv(c)' /\ CurrentInv(c)'
  <2>1. \A g \in checked'[c] \ overtaken'[c] :
          get[c] = Idle /\ g \in checked[c] \ overtaken[c] /\ g \notin NoticesLost(c)
    BY <1>4
  <2>2. \A g \in Files : get[c] = Idle /\ g \notin NoticesLost(c) => Quiet(c, g)
    BY <1>1, <1>3, LostNotices DEF Quiet, InGet
  <2> QED
    BY <1>1, <1>2, <2>1, <2>2 DEF ClientOK, WholeInv, CurrentInv, CurrentOK, server, disks
<1>8. \A d \in Clients \ {c} : Unseen(d)
  BY <1>1, <1>2 DEF Unseen, Kinds, disks
<1> QED
  BY <1>2, <1>5, <1>6, <1>7, <1>8, OneClient DEF ClientOK, server

(* The client is back.                                                     *)
LEMMA RejoinStep ==
    ASSUME TransferInv, NEW c \in Clients, NEW again \in BOOLEAN, Rejoin(c, again)
    PROVE  TransferInv'
<1>1. Kinds /\ ClientOK(c)
  BY DEF TransferInv
<1>2. /\ c \notin online /\ online' = online \union {c}
      /\ checked' = [checked EXCEPT ![c] = IF again THEN @ ELSE {}]
      /\ overtaken' = [overtaken EXCEPT ![c] = IF again THEN @ ELSE {}]
      /\ UNCHANGED <<server, disks, get, toServer, toClient>>
  BY DEF Rejoin
<1>3. /\ checked'[c] = IF again THEN checked[c] ELSE {}
      /\ overtaken'[c] = IF again THEN overtaken[c] ELSE {}
  BY <1>1, <1>2 DEF Kinds
<1>4. Kinds'
  <2>1. checked' \in [Clients -> SUBSET Files] /\ overtaken' \in [Clients -> SUBSET Files]
    BY <1>1, <1>2 DEF Kinds
  <2> QED
    BY <1>1, <1>2, <2>1 DEF Kinds, server, disks
<1>5. ClientInv(c)'
  <2>1. get[c] = Idle /\ Idle.pc = "idle"
    BY <1>1, <1>2 DEF ClientOK, ClientInv, Idle
  <2> QED
    BY <1>1, <1>2, <2>1 DEF ClientInv, ClientOK, IdleInv, server, disks
<1>6. WholeInv(c)' /\ CurrentInv(c)'
  <2>1. \A g \in checked'[c] \ overtaken'[c] : g \in checked[c] \ overtaken[c]
    BY <1>3
  <2> QED
    BY <1>1, <1>2, <2>1 DEF ClientOK, WholeInv, CurrentInv, CurrentOK, Quiet, InGet, server, disks
<1>7. \A d \in Clients \ {c} : Unseen(d)
  BY <1>1, <1>2 DEF Unseen, Kinds, disks
<1> QED
  BY <1>2, <1>4, <1>5, <1>6, <1>7, OneClient DEF ClientOK, server

(* A newer file is handed out to nobody before it is packed.               *)
LEMMA ReplaceStep ==
    ASSUME TransferInv, NEW f \in Files, Replace(f)
    PROVE  TransferInv'
<1>1. Kinds
  BY DEF TransferInv
<1>2. /\ current[f] < Newest[f] /\ current' = [current EXCEPT ![f] = @ + 1]
      /\ UNCHANGED <<packed, listed, online, disks, checked, get, toServer, toClient, overtaken>>
  BY DEF Replace
<1>3. /\ current[f] \in Nat /\ packed[f] \in Nat /\ packed[f] <= current[f]
      /\ Newest[f] \in 0..Len(Size) /\ current'[f] = current[f] + 1
      /\ \A g \in Files : g # f => current'[g] = current[g]
  <2>1. current[f] \in 0..Len(Size) /\ packed[f] \in 0..Len(Size) /\ packed[f] <= current[f]
    BY <1>1 DEF Kinds
  <2>2. Newest[f] \in 0..Len(Size)
    BY DownloadAssumption
  <2>3. current'[f] = current[f] + 1 /\ \A g \in Files : g # f => current'[g] = current[g]
    BY <1>1, <1>2 DEF Kinds
  <2> QED
    BY <2>1, <2>2, <2>3, Numbers
<1>4. Kinds'
  <2>1. current[f] + 1 \in 0..Len(Size) /\ packed[f] <= current[f] + 1
    BY <1>2, <1>3, Numbers
  <2>2. current' \in [Files -> 0..Len(Size)] /\ \A g \in Files : packed[g] <= current'[g]
    BY <1>1, <1>2, <1>3, <2>1 DEF Kinds
  <2> QED
    BY <1>1, <1>2, <2>2 DEF Kinds, disks
<1>5. \A c \in Clients, g \in Files : CurrentOK(c, g) => CurrentOK(c, g)'
  <2> SUFFICES ASSUME NEW c \in Clients, NEW g \in Files, CurrentOK(c, g) PROVE CurrentOK(c, g)'
    OBVIOUS
  <2>1. CASE g = f
    <3>1. packed[f] # current'[f]
      BY <1>3
    <3> QED
      BY <1>2, <2>1, <3>1 DEF CurrentOK
  <2>2. CASE g # f
    BY <1>2, <1>3, <2>2 DEF CurrentOK, disks
  <2> QED
    BY <2>1, <2>2
<1>6. \A g \in Files : current[g] # Absent => current'[g] # Absent
  BY <1>3 DEF Absent
<1>7. ASSUME NEW c \in Clients PROVE ClientOK(c)'
  <2>1. ClientOK(c) /\ get[c] \in Gets
    BY <1>1 DEF TransferInv, Kinds
  <2>2. IdleInv(c) => IdleInv(c)'
    BY <1>2 DEF IdleInv
  <2>3. ASSUME get[c].pc = "checking" PROVE CheckInv(c)'
    <3>1. CheckInv(c) /\ get[c].file \in Files
      BY <2>1, <2>3, GetForms DEF ClientOK, ClientInv
    <3>2. \A i : Passes(c, get[c].file, i) => Passes(c, get[c].file, i)'
      BY <1>2, <1>5, <3>1 DEF Passes, ToldAfter, disks
    <3> QED
      BY <1>2, <3>1, <3>2 DEF CheckInv, disks
  <2>4. ASSUME get[c].pc = "loading" PROVE LoadInv(c)'
    <3>1. LoadInv(c) /\ get[c].file \in Files
      BY <2>1, <2>4, GetForms DEF ClientOK, ClientInv
    <3>2. \A b : BlockOK(c, b) => BlockOK(c, b)'
      BY <1>2, <1>5, <1>6, <3>1 DEF BlockOK
    <3>3. Asked(c) => Asked(c)'
      BY <1>2 DEF Asked
    <3>4. Coming(c) => Coming(c)'
      BY <1>2, <3>2 DEF Coming
    <3>5. AtHand(c) => AtHand(c)'
      BY <1>2, <2>2, <3>2 DEF AtHand
    <3> QED
      BY <1>2, <3>1, <3>3, <3>4, <3>5 DEF LoadInv, PiecesOK, disks
  <2>5. ClientInv(c)'
    BY <1>2, <1>6, <2>1, <2>2, <2>3, <2>4 DEF ClientOK, ClientInv, disks
  <2>6. WholeInv(c)' /\ CurrentInv(c)'
    BY <1>2, <1>5, <2>1 DEF ClientOK, WholeInv, CurrentInv, Quiet, InGet, disks
  <2> QED
    BY <2>5, <2>6 DEF ClientOK
<1> QED
  BY <1>4, <1>7 DEF TransferInv

(* The server looks for packed files.                                      *)
LEMMA ReparseStep ==
    ASSUME TransferInv, ReparsePath
    PROVE  TransferInv'
<1>1. /\ listed' = [f \in Files |-> listed[f] \/ packed[f] # Absent]
      /\ UNCHANGED <<current, packed, online, disks, checked, get, toServer, toClient, overtaken>>
  BY DEF ReparsePath
<1>2. Kinds'
  <2>1. listed' \in [Files -> BOOLEAN]
    BY <1>1
  <2> QED
    BY <1>1, <2>1 DEF TransferInv, Kinds, disks
<1>3. \A c \in Clients : Unseen(c)
  BY <1>1 DEF Unseen, disks
<1> QED
  BY <1>1, <1>2, <1>3, UnseenOK DEF TransferInv

-----------------------------------------------------------------------------
(* Lengths and pieces.                                                     *)
LEMMA LeastOf ==
    ASSUME NEW a \in Int, NEW b \in Int
    PROVE  Min({a, b}) = (IF a <= b THEN a ELSE b) /\ Max({a, b}) = (IF a <= b THEN b ELSE a)
<1> DEFINE lo == IF a <= b THEN a ELSE b
           hi == IF a <= b THEN b ELSE a
<1>1. /\ lo \in {a, b} /\ \A y \in {a, b} : lo <= y
      /\ \A x \in {a, b} : (\A y \in {a, b} : x <= y) => x = lo
  OBVIOUS
<1>2. /\ hi \in {a, b} /\ \A y \in {a, b} : hi >= y
      /\ \A x \in {a, b} : (\A y \in {a, b} : x >= y) => x = hi
  OBVIOUS
<1>3. Min({a, b}) = lo
  BY <1>1 DEF Min
<1>4. Max({a, b}) = hi
  BY <1>2 DEF Max
<1> QED
  BY <1>3, <1>4

(* How much a block holds.                                                 *)
LEMMA BlockHolds ==
    ASSUME NEW v \in Versions, NEW n \in Nat
    PROVE  /\ BlockSize(v, n) \in Nat /\ BlockSize(v, n) <= Chunk
           /\ n <= Size[v] => BlockSize(v, n) = IF Chunk <= Size[v] - n THEN Chunk ELSE Size[v] - n
           /\ ~IsLast(v, n) => BlockSize(v, n) = Chunk /\ n + Chunk <= Size[v]
<1>1. Chunk \in Nat \ {0} /\ Size[v] \in Nat \ {0}
  BY Numbers
<1>2. PICK r \in Int : r = Size[v] - n
  BY <1>1
<1>3. PICK l \in Int : l = IF Chunk <= r THEN Chunk ELSE r
  BY <1>1, <1>2
<1>4. Min({Chunk, r}) = l
  BY <1>1, <1>2, <1>3, LeastOf
<1>5. Max({0, l}) = IF 0 <= l THEN l ELSE 0
  BY <1>3, LeastOf
<1>6. BlockSize(v, n) = IF 0 <= l THEN l ELSE 0
  BY <1>2, <1>4, <1>5 DEF BlockSize
<1> QED
  BY <1>1, <1>2, <1>3, <1>6 DEF IsLast

(* Multiplication respects the order.                                      *)
LEMMA TimesGrows ==
    ASSUME NEW a \in Nat, NEW b \in Nat, NEW m \in Nat, a < b
    PROVE  a * m + m <= b * m /\ a * m \in Nat /\ b * m \in Nat
<1>1. PICK k \in Nat : b = a + 1 + k
  <2>1. b - a - 1 \in Nat /\ b = a + 1 + (b - a - 1)
    OBVIOUS
  <2> QED
    BY <2>1
<1>2. b * m = a * m + m + k * m /\ a * m \in Nat /\ k * m \in Nat
  BY <1>1
<1> QED
  BY <1>2

(* What the quotient of a division is.                                     *)
LEMMA Division ==
    ASSUME NEW m \in Nat \ {0}, NEW p \in Nat
    PROVE  p \div m \in Nat /\ (p \div m) * m <= p /\ p < (p \div m) * m + m
<1>1. /\ p \div m \in Nat /\ p % m \in 0 .. m - 1
      /\ p = m * (p \div m) + (p % m)
  BY Z3
<1>2. m * (p \div m) = (p \div m) * m /\ m * (p \div m) \in Nat
  BY <1>1
<1> QED
  BY <1>1, <1>2

(* And that nothing else is.                                               *)
LEMMA Quotient ==
    ASSUME NEW m \in Nat \ {0}, NEW p \in Nat, NEW k \in Nat, k * m <= p, p < k * m + m
    PROVE  p \div m = k
<1> DEFINE q == p \div m
<1>1. q \in Nat /\ q * m <= p /\ p < q * m + m
  BY Division
<1> HIDE DEF q
<1>2. ~(q < k)
  <2> SUFFICES ASSUME q < k PROVE FALSE
    OBVIOUS
  <2>1. q * m + m <= k * m /\ q * m \in Nat /\ k * m \in Nat
    BY <1>1, TimesGrows
  <2> QED
    BY <1>1, <2>1
<1>3. ~(k < q)
  <2> SUFFICES ASSUME k < q PROVE FALSE
    OBVIOUS
  <2>1. k * m + m <= q * m /\ q * m \in Nat /\ k * m \in Nat
    BY <1>1, TimesGrows
  <2> QED
    BY <1>1, <2>1
<1> QED
  BY <1>1, <1>2, <1>3 DEF q

(* Only the last block takes the length to that of the file and beyond.    *)
LEMMA LastByLength ==
    ASSUME NEW v \in Versions, NEW n \in Nat, n + BlockSize(v, n) > Size[v]
    PROVE  IsLast(v, n)
<1>1. Chunk \in Nat /\ Size[v] \in Nat
  BY Numbers
<1>2. ~IsLast(v, n) => BlockSize(v, n) = Chunk /\ n + Chunk <= Size[v]
  BY BlockHolds
<1> QED
  BY <1>1, <1>2

(* The pieces of a version, and which version they are of.                 *)
LEMMA PiecesOf ==
    ASSUME NEW v \in Versions
    PROVE  \E l \in Nat \ {0} : /\ l = (Size[v] + Chunk - 1) \div Chunk
                                /\ Pieces(v) = [i \in 1..l |-> <<v, (i - 1) * Chunk>>]
<1> DEFINE p == Size[v] + Chunk - 1
           l == p \div Chunk
<1>1. Chunk \in Nat \ {0} /\ Size[v] \in Nat \ {0} /\ p \in Nat /\ p >= Chunk
  BY Numbers
<1>2. l \in Nat /\ p < l * Chunk + Chunk
  BY <1>1, Division
<1>3. l # 0
  <2> SUFFICES ASSUME l = 0 PROVE FALSE
    OBVIOUS
  <2>1. l * Chunk = 0
    BY <1>1
  <2> QED
    BY <1>1, <1>2, <2>1
<1> QED
  BY <1>2, <1>3 DEF Pieces

(* A whole file is unpacked to its version, anything else to some value.   *)
LEMMA UnpackedOK ==
    /\ \A v \in Versions : Unpacked(Pieces(v)) = v
    /\ \A p : Unpacked(p) \in 0..Mixed
<1>1. ASSUME NEW v \in Versions, NEW w \in Versions, Pieces(v) = Pieces(w) PROVE v = w
  <2>1. PICK l \in Nat \ {0} : Pieces(v) = [i \in 1..l |-> <<v, (i - 1) * Chunk>>]
    BY PiecesOf
  <2>2. PICK k \in Nat \ {0} : Pieces(w) = [i \in 1..k |-> <<w, (i - 1) * Chunk>>]
    BY PiecesOf
  <2>3. Pieces(v)[1] = <<v, (1 - 1) * Chunk>>
    BY <2>1
  <2>4. Pieces(w)[1] = <<w, (1 - 1) * Chunk>>
    BY <2>2
  <2> QED
    BY <1>1, <2>3, <2>4
<1>2. ASSUME NEW v \in Versions PROVE Unpacked(Pieces(v)) = v
  BY <1>1 DEF Unpacked
<1>3. ASSUME NEW p PROVE Unpacked(p) \in 0..Mixed
  BY Numbers DEF Unpacked
<1> QED
  BY <1>2, <1>3

(* The last of k + 1 places.                                               *)
LEMMA LastPlace ==
    ASSUME NEW k \in Nat, NEW i \in 1..(k + 1)
    PROVE  i \in 1..k \/ (i = k + 1 /\ i - 1 = k)
OBVIOUS

(* A transfer that has been of one version throughout is that version.     *)
LEMMA WholeTransfer ==
    ASSUME NEW v \in Versions, NEW p \in Seq(Versions \X Nat), NEW n \in Nat,
           n = Len(p) * Chunk, n <= Size[v],
           \A i \in 1..Len(p) : p[i] = <<v, (i - 1) * Chunk>>,
           IsLast(v, n)
    PROVE  p \o (IF BlockSize(v, n) = 0 THEN <<>> ELSE << <<v, n>> >>) = Pieces(v)
<1> DEFINE k == Len(p)
           s == Size[v]
           u == s + Chunk - 1
           e == IF BlockSize(v, n) = 0 THEN <<>> ELSE << <<v, n>> >>
<1>1. /\ k \in Nat /\ Chunk \in Nat \ {0} /\ s \in Nat \ {0} /\ u \in Nat
      /\ BlockSize(v, n) = s - n /\ s - n < Chunk
  <2>1. Chunk \in Nat \ {0} /\ s \in Nat \ {0} /\ k \in Nat
    BY Numbers
  <2>2. BlockSize(v, n) = IF Chunk <= s - n THEN Chunk ELSE s - n
    BY BlockHolds
  <2>3. BlockSize(v, n) < Chunk
    BY DEF IsLast
  <2> QED
    BY <2>1, <2>2, <2>3
<1>2. PICK l \in Nat \ {0} : l = u \div Chunk /\ Pieces(v) = [i \in 1..l |-> <<v, (i - 1) * Chunk>>]
  BY PiecesOf
<1>3. CASE BlockSize(v, n) = 0
  <2>1. u \div Chunk = k
    <3>1. k * Chunk <= u /\ u < k * Chunk + Chunk
      BY <1>1, <1>3
    <3> QED
      BY <1>1, <3>1, Quotient
  <2>2. p \o <<>> = p
    OBVIOUS
  <2>3. p = [i \in 1..k |-> p[i]]
    OBVIOUS
  <2>4. p = Pieces(v)
    BY <1>2, <2>1, <2>3
  <2> QED
    BY <1>3, <2>2, <2>4
<1>4. CASE BlockSize(v, n) # 0
  <2>1. u \div Chunk = k + 1
    <3>1. (k + 1) * Chunk = n + Chunk
      BY <1>1
    <3>2. (k + 1) * Chunk <= u /\ u < (k + 1) * Chunk + Chunk
      BY <1>1, <1>4, <3>1
    <3>3. PICK j \in Nat : j = k + 1
      BY <1>1
    <3>4. j * Chunk <= u /\ u < j * Chunk + Chunk
      BY <3>2, <3>3
    <3> HIDE DEF u
    <3>5. u \div Chunk = j
      BY <1>1, <3>4, Quotient
    <3> QED
      BY <3>3, <3>5
  <2> DEFINE x == <<v, n>>
             q == p \o <<x>>
  <2>2. x \in Versions \X Nat
    OBVIOUS
  <2> HIDE DEF x
  <2>3. /\ q \in Seq(Versions \X Nat) /\ Len(q) = k + 1 /\ q[k + 1] = x
        /\ \A i \in 1..k : q[i] = p[i]
    BY <2>2
  <2>4. q = [i \in 1..(k + 1) |-> q[i]]
    BY <2>3
  <2>5. \A i \in 1..(k + 1) : q[i] = <<v, (i - 1) * Chunk>>
    <3> SUFFICES ASSUME NEW i \in 1..(k + 1) PROVE q[i] = <<v, (i - 1) * Chunk>>
      OBVIOUS
    <3>1. CASE i \in 1..k
      BY <2>3, <3>1
    <3>2. CASE i = k + 1 /\ i - 1 = k
      <4>1. (i - 1) * Chunk = n
        BY <3>2
      <4>2. q[i] = x
        BY <2>3, <3>2
      <4>3. x = <<v, (i - 1) * Chunk>>
        BY <4>1 DEF x
      <4> QED
        BY <4>2, <4>3
    <3>3. k \in Nat
      OBVIOUS
    <3> HIDE DEF k, q
    <3>4. i \in 1..k \/ (i = k + 1 /\ i - 1 = k)
      BY <3>3, LastPlace
    <3> QED
      BY <3>1, <3>2, <3>4
  <2>6. q = Pieces(v)
    BY <1>2, <2>1, <2>4, <2>5
  <2> QED
    BY <1>4, <2>6 DEF x
<1> QED
  BY <1>3, <1>4

-----------------------------------------------------------------------------
(* What a client has in hand when the wait for a block is over: the block  *)
(* of version v at n, and of f the pieces p.                               *)
Held(c, f, v, n, p) ==
    /\ f = get[c].file /\ n = get[c].part /\ p = partial[c][f]
    /\ v = get[c].block[1].version /\ n = get[c].block[1].at
    /\ IdleInv(c) /\ c \in online
    /\ local[c][f] = Absent /\ current[f] # Absent
    /\ n = Len(p) * Chunk /\ \A i \in 1..Len(p) : p[i][2] = (i - 1) * Chunk
    /\ f \notin overtaken[c] =>
         /\ v = packed[f] /\ n <= Size[v]
         /\ \A i \in 1..Len(p) : p[i] = <<v, (i - 1) * Chunk>>

(* Whoever goes on with a block holds one of the file it loads.            *)
LEMMA InHand ==
    ASSUME TransferInv, NEW c \in Clients,
           get[c].pc = "loading", get[c].block # <<>>, get[c].block[1] # Failure
    PROVE  \E f \in Files, v \in Versions, n \in Nat, p \in Seq(Versions \X Nat) :
             Held(c, f, v, n, p)
<1>1. Kinds /\ ClientOK(c) /\ get[c] \in Gets
  BY DEF TransferInv, Kinds
<1>2. PICK f \in Files : f = get[c].file
  BY <1>1, GetForms
<1>3. PICK n \in Nat : n = get[c].part
  BY <1>1, GetForms
<1>4. PICK p \in Seq(Versions \X Nat) : p = partial[c][f]
  BY <1>1 DEF Kinds
<1>5. LoadInv(c) /\ c \in online
  BY <1>1 DEF ClientOK, ClientInv, Idle
<1>6. AtHand(c)
  BY <1>5 DEF LoadInv, Asked, Coming
<1>7. /\ get[c].block[1] \in [kind : {"block"}, error : {FALSE}, version : Versions, at : Nat]
      /\ get[c].block[1].at = n /\ current[f] # Absent
      /\ f \notin overtaken[c] => get[c].block[1].version = packed[f]
  BY <1>2, <1>3, <1>6 DEF AtHand, BlockOK
<1>8. PICK v \in Versions : v = get[c].block[1].version
  BY <1>7
<1>9. n = Len(p) * Chunk /\ \A i \in 1..Len(p) : p[i][2] = (i - 1) * Chunk
  BY <1>2, <1>3, <1>4, <1>5 DEF LoadInv, PiecesOK
<1>10. ASSUME f \notin overtaken[c]
       PROVE  n <= Size[v] /\ \A i \in 1..Len(p) : p[i] = <<v, (i - 1) * Chunk>>
  <2>1. CASE n = 0
    <3>1. Len(p) = 0
      <4>1. Len(p) \in Nat /\ Chunk \in Nat \ {0}
        BY Numbers
      <4>2. Len(p) > 0 => 0 * Chunk + Chunk <= Len(p) * Chunk
        BY <4>1, TimesGrows
      <4> QED
        BY <1>9, <2>1, <4>1, <4>2
    <3> QED
      BY <2>1, <3>1, Numbers
  <2>2. CASE n > 0
    <3>1. n <= Size[v] /\ \A i \in 1..Len(p) : p[i][1] = v
      BY <1>2, <1>3, <1>4, <1>5, <1>7, <1>8, <1>10, <2>2 DEF LoadInv, PiecesOK
    <3>2. \A i \in 1..Len(p) : p[i] = <<p[i][1], p[i][2]>>
      OBVIOUS
    <3> QED
      BY <1>9, <3>1, <3>2
  <2> QED
    BY <2>1, <2>2
<1>11. local[c][f] = Absent /\ IdleInv(c)
  BY <1>2, <1>5, <1>6 DEF LoadInv, AtHand
<1>12. f \notin overtaken[c] =>
          /\ v = packed[f] /\ n <= Size[v]
          /\ \A i \in 1..Len(p) : p[i] = <<v, (i - 1) * Chunk>>
  BY <1>7, <1>8, <1>10
<1>13. n = get[c].block[1].at
  BY <1>7
<1>14. f \in Files /\ v \in Versions /\ n \in Nat /\ p \in Seq(Versions \X Nat)
  BY <1>2, <1>3, <1>4, <1>8
<1>15. Held(c, f, v, n, p)
  BY <1>2, <1>3, <1>4, <1>5, <1>7, <1>8, <1>9, <1>11, <1>12, <1>13 DEF Held
<1> QED
  BY <1>14, <1>15

(* The last block: the file is unpacked.                                   *)
LEMMA InstallStep ==
    ASSUME TransferInv, NEW c \in Clients,
           get[c].pc = "loading", get[c].block # <<>>, get[c].block[1] # Failure,
           NEW f \in Files, NEW v \in Versions, NEW n \in Nat, NEW p \in Seq(Versions \X Nat),
           f = get[c].file, p = partial[c][f],
           IdleInv(c), c \in online, current[f] # Absent,
           n = Len(p) * Chunk,
           f \notin overtaken[c] =>
               /\ v = packed[f] /\ n <= Size[v]
               /\ \A i \in 1..Len(p) : p[i] = <<v, (i - 1) * Chunk>>,
           IsLast(v, n) \/ n + BlockSize(v, n) > Size[v],
           Install(c, f, p \o (IF BlockSize(v, n) = 0 THEN <<>> ELSE << <<v, n>> >>)),
           UNCHANGED <<server, online, toClient, overtaken>>
    PROVE  TransferInv'
<1>1. Kinds /\ ClientOK(c) /\ get[c] \in Gets
  BY DEF TransferInv, Kinds
<1>2. PICK w \in 0..Mixed : w = Unpacked(p \o (IF BlockSize(v, n) = 0 THEN <<>> ELSE << <<v, n>> >>))
  BY UnpackedOK
<1>3. /\ local' = [local EXCEPT ![c][f] = w]
      /\ partial' = [partial EXCEPT ![c][f] = <<>>]
      /\ checked' = [checked EXCEPT ![c] = @ \union {f}]
      /\ get' = [get EXCEPT ![c] = Idle]
      /\ UNCHANGED toServer
  BY <1>2 DEF Install
<1>4. f \notin overtaken[c] => w = packed[f] /\ w # Mixed
  <2> SUFFICES ASSUME f \notin overtaken[c] PROVE w = v /\ v # Mixed
    OBVIOUS
  <2>1. IsLast(v, n)
    BY LastByLength
  <2>2. p \o (IF BlockSize(v, n) = 0 THEN <<>> ELSE << <<v, n>> >>) = Pieces(v)
    BY <2>1, WholeTransfer
  <2> QED
    BY <1>2, <2>2, UnpackedOK, Numbers
<1>5. Idle \in Gets /\ Idle.pc = "idle"
  BY DEF Gets, Idle
<1>6. /\ get'[c] = Idle /\ checked'[c] = checked[c] \union {f} /\ local'[c][f] = w
      /\ \A g \in Files : g # f => local'[c][g] = local[c][g]
  BY <1>1, <1>3 DEF Kinds
<1>7. Kinds'
  <2>1. get' \in [Clients -> Gets]
    BY <1>1, <1>3, <1>5 DEF Kinds
  <2>2. partial' \in [Clients -> [Files -> Seq(Versions \X Nat)]]
    <3>1. <<>> \in Seq(Versions \X Nat)
      OBVIOUS
    <3> QED
      BY <1>1, <1>3, <3>1 DEF Kinds
  <2>3. checked' \in [Clients -> SUBSET Files]
    BY <1>1, <1>3 DEF Kinds
  <2>4. local' \in [Clients -> [Files -> 0..Mixed]]
    BY <1>1, <1>3 DEF Kinds
  <2> QED
    BY <1>1, <1>3, <2>1, <2>2, <2>3, <2>4 DEF Kinds, server
<1>8. ClientInv(c)'
  <2>1. IdleInv(c)'
    BY <1>3 DEF IdleInv
  <2>2. \A g \in Files : local'[c][g] = Mixed => current'[g] # Absent
    BY <1>1, <1>6 DEF ClientOK, ClientInv, server
  <2>3. c \in online'
    OBVIOUS
  <2>4. get'[c] \in Gets /\ get'[c].pc = "idle"
    BY <1>5, <1>6
  <2> QED
    BY <2>1, <2>2, <2>3, <2>4 DEF ClientInv
<1>9. WholeInv(c)'
  <2> SUFFICES ASSUME NEW g \in checked'[c] \ overtaken[c] PROVE local'[c][g] # Mixed
    BY DEF WholeInv
  <2>1. CASE g = f
    BY <1>4, <1>6, <2>1
  <2>2. CASE g # f
    <3>1. g \in checked[c] \ overtaken[c] /\ g \in Files
      BY <1>1, <1>6, <2>2 DEF Kinds
    <3> QED
      BY <1>1, <1>6, <2>2, <3>1 DEF ClientOK, WholeInv
  <2> QED
    BY <2>1, <2>2
<1>10. CurrentInv(c)'
  <2> SUFFICES ASSUME NEW g \in Files, g \in checked'[c] \ overtaken[c], Quiet(c, g)' PROVE CurrentOK(c, g)'
    BY DEF CurrentInv
  <2>1. CASE g = f
    BY <1>4, <1>6, <2>1 DEF CurrentOK, server
  <2>2. CASE g # f
    <3>1. Quiet(c, g)
      BY <2>2 DEF Quiet, InGet
    <3> QED
      BY <1>1, <1>6, <2>2, <3>1 DEF ClientOK, CurrentInv, CurrentOK, server
  <2> QED
    BY <2>1, <2>2
<1>11. \A d \in Clients \ {c} : Unseen(d)
  BY <1>1, <1>3 DEF Unseen, Kinds
<1> QED
  BY <1>3, <1>7, <1>8, <1>9, <1>10, <1>11, OneClient DEF ClientOK, server

(* The pieces after a block that is not the last.                          *)
LEMMA OnePieceMore ==
    ASSUME NEW v \in Versions, NEW n \in Nat, NEW p \in Seq(Versions \X Nat),
           n = Len(p) * Chunk, ~IsLast(v, n)
    PROVE  \E m \in Nat, q \in Seq(Versions \X Nat) :
             /\ m = n + BlockSize(v, n) /\ m <= Size[v]
             /\ q = p \o (IF BlockSize(v, n) = 0 THEN <<>> ELSE << <<v, n>> >>)
             /\ m = Len(q) * Chunk
             /\ \A i \in 1..Len(q) : (i \in 1..Len(p) /\ q[i] = p[i]) \/ q[i] = <<v, (i - 1) * Chunk>>
<1>1. BlockSize(v, n) = Chunk /\ n + Chunk <= Size[v] /\ Chunk \in Nat \ {0}
  BY BlockHolds, Numbers
<1>2. PICK x \in Versions \X Nat : x = <<v, n>>
  OBVIOUS
<1>3. PICK q \in Seq(Versions \X Nat) : q = p \o <<x>>
  <2>1. p \o <<x>> \in Seq(Versions \X Nat)
    OBVIOUS
  <2> QED
    BY <2>1
<1>4. PICK k \in Nat : k = Len(p)
  OBVIOUS
<1>5. Len(q) = k + 1 /\ q[k + 1] = x /\ \A i \in 1..k : q[i] = p[i]
  BY <1>3, <1>4
<1>6. n + Chunk = Len(q) * Chunk /\ n = k * Chunk
  BY <1>1, <1>4, <1>5
<1>7. ASSUME NEW i \in 1..Len(q)
      PROVE  (i \in 1..k /\ q[i] = p[i]) \/ q[i] = <<v, (i - 1) * Chunk>>
  <2>1. CASE i \in 1..k
    BY <1>5, <2>1
  <2>2. CASE i = k + 1 /\ i - 1 = k
    <3>1. (i - 1) * Chunk = n
      BY <1>6, <2>2
    <3> QED
      BY <1>2, <1>5, <2>2, <3>1
  <2>3. i \in 1..k \/ (i = k + 1 /\ i - 1 = k)
    BY <1>5, LastPlace
  <2> QED
    BY <2>1, <2>2, <2>3
<1>8. q = p \o (IF BlockSize(v, n) = 0 THEN <<>> ELSE << <<v, n>> >>)
  BY <1>1, <1>2, <1>3
<1>9. PICK m \in Nat : m = n + Chunk
  BY <1>1
<1> QED
  BY <1>1, <1>4, <1>6, <1>7, <1>8, <1>9

(* A block that is not the last: the next one is asked for.                *)
LEMMA OnwardStep ==
    ASSUME TransferInv, NEW c \in Clients, NEW f \in Files,
           NEW m \in Nat, NEW q \in Seq(Versions \X Nat),
           get[c].pc = "loading", f = get[c].file,
           IdleInv(c), c \in online, local[c][f] = Absent,
           m = Len(q) * Chunk, \A i \in 1..Len(q) : q[i][2] = (i - 1) * Chunk,
           f \notin overtaken[c] =>
               /\ packed[f] \in Versions /\ m <= Size[packed[f]]
               /\ \A i \in 1..Len(q) : q[i][1] = packed[f],
           partial' = [partial EXCEPT ![c][f] = q],
           get' = [get EXCEPT ![c] = Loading(f, m)],
           toServer' = [toServer EXCEPT ![c] = Append(@, PartRequest(f, m))],
           UNCHANGED <<local, checked, server, online, toClient, overtaken>>
    PROVE  TransferInv'
<1>1. Kinds /\ ClientOK(c) /\ get[c] \in Gets
  BY DEF TransferInv, Kinds
<1>2. PartRequest(f, m) \in Requests /\ Loading(f, m) \in Gets
  <2>1. <<>> \in Seq(Blocks)
    OBVIOUS
  <2> QED
    BY <2>1 DEF PartRequest, Requests, Loading, Gets
<1>3. get'[c] = Loading(f, m) /\ partial'[c][f] = q
  BY <1>1 DEF Kinds
<1>4. toServer'[c] = <<PartRequest(f, m)>>
  BY <1>1 DEF Kinds, IdleInv
<1>5. get'[c].pc = "loading" /\ get'[c].file = f /\ get'[c].part = m /\ get'[c].block = <<>>
  BY <1>3 DEF Loading
<1>6. Kinds'
  <2>1. get' \in [Clients -> Gets]
    BY <1>1, <1>2 DEF Kinds
  <2>2. toServer' \in [Clients -> Seq(Requests)]
    BY <1>1, <1>2, AppendIn DEF Kinds
  <2>3. partial' \in [Clients -> [Files -> Seq(Versions \X Nat)]]
    BY <1>1 DEF Kinds
  <2> QED
    BY <1>1, <2>1, <2>2, <2>3 DEF Kinds, server
<1>7. PiecesOK(c)'
  BY <1>3, <1>5 DEF PiecesOK, server
<1>8. Asked(c)'
  BY <1>4, <1>5 DEF Asked, IdleInv
<1>9. ClientInv(c)'
  <2>1. LoadInv(c)'
    BY <1>5, <1>7, <1>8 DEF LoadInv
  <2>2. get'[c] \in Gets
    BY <1>2, <1>3
  <2>3. \A g \in Files : local'[c][g] = Mixed => current'[g] # Absent
    BY <1>1 DEF ClientOK, ClientInv, server
  <2> QED
    BY <1>5, <2>1, <2>2, <2>3 DEF ClientInv, Idle
<1>10. WholeInv(c)' /\ CurrentInv(c)'
  <2>1. \A g \in Files : Quiet(c, g)' => Quiet(c, g)
    BY <1>5 DEF Quiet, InGet
  <2> QED
    BY <1>1, <2>1 DEF ClientOK, WholeInv, CurrentInv, CurrentOK, server
<1>11. \A d \in Clients \ {c} : Unseen(d)
  BY <1>1 DEF Unseen, Kinds
<1> QED
  BY <1>6, <1>9, <1>10, <1>11, OneClient DEF ClientOK, server

(* The wait for a block is over.                                           *)
LEMMA StoreStep ==
    ASSUME TransferInv, NEW c \in Clients, Store(c)
    PROVE  TransferInv'
<1>1. get[c].pc = "loading" /\ get[c].block # <<>> /\ get[c].block[1] # Failure
  BY DEF Store
<1>2. PICK f \in Files, v \in Versions, n \in Nat, p \in Seq(Versions \X Nat) : Held(c, f, v, n, p)
  BY <1>1, InHand
<1>3. UNCHANGED <<server, online, toClient, overtaken>>
  BY DEF Store
<1>4. CASE IsLast(v, n) \/ n + BlockSize(v, n) > Size[v]
  <2>1. Install(c, f, p \o (IF BlockSize(v, n) = 0 THEN <<>> ELSE << <<v, n>> >>))
    BY <1>2, <1>4 DEF Store, Held
  <2> QED
    BY <1>1, <1>2, <1>3, <1>4, <2>1, InstallStep DEF Held
<1>5. CASE ~(IsLast(v, n) \/ n + BlockSize(v, n) > Size[v])
  <2>1. PICK m \in Nat, q \in Seq(Versions \X Nat) :
           /\ m = n + BlockSize(v, n) /\ m <= Size[v]
           /\ q = p \o (IF BlockSize(v, n) = 0 THEN <<>> ELSE << <<v, n>> >>)
           /\ m = Len(q) * Chunk
           /\ \A i \in 1..Len(q) : (i \in 1..Len(p) /\ q[i] = p[i]) \/ q[i] = <<v, (i - 1) * Chunk>>
    <3>1. n = Len(p) * Chunk /\ ~IsLast(v, n)
      BY <1>2, <1>5 DEF Held
    <3> QED
      BY <3>1, OnePieceMore
  <2>2. /\ partial' = [partial EXCEPT ![c][f] = q]
        /\ get' = [get EXCEPT ![c] = Loading(f, m)]
        /\ toServer' = [toServer EXCEPT ![c] = Append(@, PartRequest(f, m))]
        /\ UNCHANGED <<local, checked>>
    <3>1. /\ partial' = [partial EXCEPT ![c][f] =
                            p \o (IF BlockSize(v, n) = 0 THEN <<>> ELSE << <<v, n>> >>)]
          /\ get' = [get EXCEPT ![c] = Loading(f, n + BlockSize(v, n))]
          /\ Ask(c, f, n + BlockSize(v, n))
          /\ UNCHANGED <<local, checked>>
      BY <1>2, <1>5 DEF Store, Held
    <3>2. Ask(c, f, m)
      BY <2>1, <3>1
    <3> QED
      BY <2>1, <3>1, <3>2 DEF Ask
  <2>3. ASSUME NEW i \in 1..Len(q)
        PROVE  /\ q[i][2] = (i - 1) * Chunk
               /\ f \notin overtaken[c] => q[i][1] = v
    <3>1. CASE i \in 1..Len(p) /\ q[i] = p[i]
      <4>1. p[i][2] = (i - 1) * Chunk
        BY <1>2, <3>1 DEF Held
      <4>2. f \notin overtaken[c] => p[i] = <<v, (i - 1) * Chunk>>
        BY <1>2, <3>1 DEF Held
      <4> QED
        BY <3>1, <4>1, <4>2
    <3>2. CASE q[i] = <<v, (i - 1) * Chunk>>
      BY <3>2
    <3> QED
      BY <2>1, <3>1, <3>2
  <2>4. f \notin overtaken[c] =>
           /\ packed[f] \in Versions /\ m <= Size[packed[f]]
           /\ \A i \in 1..Len(q) : q[i][1] = packed[f]
    <3>1. f \notin overtaken[c] => v = packed[f]
      BY <1>2 DEF Held
    <3> QED
      BY <2>1, <2>3, <3>1
  <2> QED
    BY <1>1, <1>2, <1>3, <2>1, <2>2, <2>3, <2>4, OnwardStep DEF Held
<1> QED
  BY <1>4, <1>5

-----------------------------------------------------------------------------
(* There is a first version.                                               *)
LEMMA FirstVersion == 1 \in Versions /\ 1 \in 0..Mixed /\ 1 # Mixed /\ 1 \in 0..Len(Size)
<1>1. Len(Size) \in Nat /\ Len(Size) > 0
  <2>1. Size \in Seq(Nat \ {0}) /\ Size # <<>>
    BY DownloadAssumption
  <2> QED
    BY <2>1
<1> QED
  BY <1>1 DEF Versions, Mixed

(* At the start every queue is empty and nothing is checked.               *)
LEMMA InitOK ==
    ASSUME Init
    PROVE  TransferInv
<1>1. Kinds
  <2>1. {Absent, 1} \subseteq 0..Mixed /\ {Absent, 1} \subseteq 0..Len(Size)
    BY FirstVersion, Numbers
  <2>2. local \in [Clients -> [Files -> 0..Mixed]]
    <3>1. [Files -> {Absent, 1}] \subseteq [Files -> 0..Mixed]
      BY <2>1
    <3> QED
      BY <3>1 DEF Init
  <2>3. /\ current \in [Files -> 0..Len(Size)] /\ packed \in [Files -> 0..Len(Size)]
        /\ \A f \in Files : packed[f] <= current[f]
    BY <2>1 DEF Init
  <2>4. listed \in [Files -> BOOLEAN] /\ online \subseteq Clients
    BY DEF Init
  <2>5. /\ partial \in [Clients -> [Files -> Seq(Versions \X Nat)]]
        /\ toServer \in [Clients -> Seq(Requests)]
        /\ toClient \in [Clients -> Seq(Blocks \union Keys)]
    <3>1. /\ <<>> \in Seq(Versions \X Nat) /\ <<>> \in Seq(Requests)
          /\ <<>> \in Seq(Blocks \union Keys)
      OBVIOUS
    <3> QED
      BY <3>1 DEF Init
  <2>6. /\ checked \in [Clients -> SUBSET Files] /\ overtaken \in [Clients -> SUBSET Files]
        /\ get \in [Clients -> Gets]
    BY DEF Init, Gets
  <2> QED
    BY <2>2, <2>3, <2>4, <2>5, <2>6 DEF Kinds
<1>2. ASSUME NEW c \in Clients PROVE ClientOK(c)
  <2>1. get[c] = Idle /\ toServer[c] = <<>> /\ toClient[c] = <<>> /\ checked[c] = {} /\ c \in online
    BY DEF Init
  <2>2. IdleInv(c)
    BY <2>1 DEF IdleInv, BlocksIn, AnswersIn
  <2>3. \A f \in Files : local[c][f] # Mixed
    <3> SUFFICES ASSUME NEW f \in Files PROVE local[c][f] # Mixed
      OBVIOUS
    <3>1. local[c][f] \in {Absent, 1}
      BY DEF Init
    <3> QED
      BY <3>1, FirstVersion, Numbers
  <2> QED
    BY <1>1, <2>1, <2>2, <2>3 DEF ClientOK, ClientInv, WholeInv, CurrentInv, Kinds, Idle
<1> QED
  BY <1>1, <1>2 DEF TransferInv

(* A step that changes nothing.                                            *)
LEMMA NothingOK ==
    ASSUME TransferInv, UNCHANGED vars
    PROVE  TransferInv'
<1>1. Kinds'
  BY DEF TransferInv, Kinds, vars
<1>2. \A c \in Clients : Unseen(c)
  BY DEF Unseen, vars
<1> QED
  BY <1>1, <1>2, UnseenOK DEF TransferInv, vars

(* Every step.                                                             *)
LEMMA NextOK ==
    ASSUME TransferInv, [Next]_vars
    PROVE  TransferInv'
<1>1. CASE \E f \in Files : Replace(f)
  BY <1>1, ReplaceStep
<1>2. CASE ReparsePath
  BY <1>2, ReparseStep
<1>3. ASSUME NEW c \in Clients, Serve(c) PROVE TransferInv'
  BY <1>3, KeyStep, PartStep DEF Serve
<1>4. ASSUME NEW c \in Clients, Receive(c) PROVE TransferInv'
  BY <1>4, ReceiveStep
<1>5. ASSUME NEW c \in Clients, Decide(c) PROVE TransferInv'
  BY <1>5, DecideStep
<1>6. ASSUME NEW c \in Clients, GiveUp(c) PROVE TransferInv'
  BY <1>6, GiveUpStep
<1>7. ASSUME NEW c \in Clients, Store(c) PROVE TransferInv'
  BY <1>7, StoreStep
<1>8. ASSUME NEW c \in Clients, Lose(c) PROVE TransferInv'
  BY <1>8, LoseStep
<1>9. ASSUME NEW c \in Clients, NEW f \in Files, Check(c, f) \/ Fetch(c, f) \/ Refresh(c, f)
      PROVE  TransferInv'
  BY <1>9, CheckStep, FetchStep, RefreshStep
<1>10. ASSUME NEW c \in Clients, NEW again \in BOOLEAN, Rejoin(c, again) PROVE TransferInv'
  BY <1>10, RejoinStep
<1>11. CASE UNCHANGED vars
  BY <1>11, NothingOK
<1> QED
  BY <1>1, <1>2, <1>3, <1>4, <1>5, <1>6, <1>7, <1>8, <1>9, <1>10, <1>11 DEF Next

(* Whatever is replaced, packed again, lost or read late, at most one      *)
(* request of a client is open that matters to it, and the answer to it is *)
(* of the file the client waits for.                                       *)
THEOREM TransferCorrect == Spec => []TransferInv
<1>1. Init => TransferInv
  BY InitOK
<1>2. TransferInv /\ [Next]_vars => TransferInv'
  BY NextOK
<1> QED
  BY <1>1, <1>2, PTL DEF Spec

(* A client that will not check a file again has what the server hands     *)
(* out, unless the file was packed again in the middle of its own transfer *)
(* or while it was away: get() and receivedCRC() of the client against     *)
(* cbRequestCRCKey() and cbRequestDownload() of the server.                *)
THEOREM CurrentCorrect == Spec => []CheckedIsCurrent
<1>1. TransferInv => CheckedIsCurrent
  BY DEF TransferInv, ClientOK, CurrentInv, CheckedIsCurrent, CurrentOK
<1> QED
  BY <1>1, TransferCorrect, PTL

(* One request, one block on its way or one in hand.                       *)
LEMMA OneAtATime ==
    ASSUME TransferInv, NEW c \in Clients, NEW asked, NEW coming,
           asked = {i \in DOMAIN toServer[c] : toServer[c][i].kind = "download"},
           coming = {i \in DOMAIN toClient[c] : toClient[c][i].kind = "block"}
    PROVE  IF get[c].pc = "loading"
           THEN Cardinality(asked) + Cardinality(coming) + Len(get[c].block) = 1
           ELSE asked = {} /\ coming = {}
<1>1. ClientInv(c) /\ get[c] \in Gets /\ toServer[c] \in Seq(Requests)
  BY DEF TransferInv, ClientOK, Kinds
<1>2. coming = BlocksIn(toClient[c])
  BY DEF BlocksIn
<1>3. toServer[c] = <<>> => asked = {}
  OBVIOUS
<1>4. Cardinality({}) = 0 /\ \A i : Cardinality({i}) = 1
  BY FS_EmptySet, FS_Singleton
<1>5. CASE get[c].pc = "idle"
  BY <1>1, <1>2, <1>3, <1>5, GetForms DEF ClientInv, IdleInv
<1>6. CASE get[c].pc = "checking"
  <2>1. CheckInv(c)
    BY <1>1, <1>6 DEF ClientInv
  <2>2. PICK k \in {KeyRequest(get[c].file, local[c][get[c].file])} : toServer[c] = <<>> \/ toServer[c] = <<k>>
    BY <2>1 DEF CheckInv
  <2>3. k.kind = "crc"
    BY <2>2 DEF KeyRequest
  <2>4. asked = {}
    BY <1>3, <2>2, <2>3
  <2> QED
    BY <1>2, <1>6, <2>1, <2>4 DEF CheckInv
<1>7. CASE get[c].pc = "loading"
  <2>1. LoadInv(c) /\ get[c].block \in Seq(Blocks)
    BY <1>1, <1>7, GetForms DEF ClientInv
  <2>2. CASE Asked(c)
    <3>1. PICK d \in {PartRequest(get[c].file, get[c].part)} :
             \/ toServer[c] = <<d>>
             \/ Len(toServer[c]) = 2 /\ toServer[c][1].kind = "crc" /\ toServer[c][2] = d
      BY <2>2 DEF Asked
    <3>2. d.kind = "download"
      BY <3>1 DEF PartRequest
    <3>3. CASE toServer[c] = <<d>>
      <4>1. asked = {1}
        BY <3>2, <3>3
      <4>2. coming = {} /\ get[c].block = <<>>
        BY <1>2, <2>2 DEF Asked
      <4>3. Cardinality(asked) = 1 /\ Cardinality(coming) = 0 /\ Len(get[c].block) = 0
        BY <1>4, <4>1, <4>2
      <4> QED
        BY <1>7, <4>3
    <3>4. CASE Len(toServer[c]) = 2 /\ toServer[c][1].kind = "crc" /\ toServer[c][2] = d
      <4>1. DOMAIN toServer[c] = {1, 2}
        BY <1>1, <3>4
      <4>2. asked = {2}
        BY <3>2, <3>4, <4>1
      <4>3. coming = {} /\ get[c].block = <<>>
        BY <1>2, <2>2 DEF Asked
      <4>4. Cardinality(asked) = 1 /\ Cardinality(coming) = 0 /\ Len(get[c].block) = 0
        BY <1>4, <4>2, <4>3
      <4> QED
        BY <1>7, <4>4
    <3> QED
      BY <3>1, <3>3, <3>4
  <2>3. CASE Coming(c)
    <3>1. PICK i : coming = {i}
      BY <1>2, <2>3 DEF Coming
    <3>2. Len(get[c].block) = 0 /\ asked = {}
      BY <1>3, <2>3 DEF Coming
    <3>3. Cardinality(asked) = 0 /\ Cardinality(coming) = 1
      BY <1>4, <3>1, <3>2
    <3> QED
      BY <1>7, <3>2, <3>3
  <2>4. CASE AtHand(c)
    <3>1. asked = {} /\ coming = {} /\ Len(get[c].block) = 1
      BY <1>2, <1>3, <2>4 DEF AtHand, IdleInv
    <3>2. Cardinality(asked) = 0 /\ Cardinality(coming) = 0
      BY <1>4, <3>1
    <3> QED
      BY <1>7, <3>1, <3>2
  <2> QED
    BY <2>1, <2>2, <2>3, <2>4 DEF LoadInv
<1> QED
  BY <1>1, <1>5, <1>6, <1>7, GetForms

(* The state invariant of the run: the types, one block at a time, and     *)
(* what has been checked is whole.  Buffer and Eof of the resource manager *)
(* do not say whose they are, and are always of the file being loaded.     *)
THEOREM DownloadCorrect == Spec => []DownloadInv
<1>1. TransferInv => TypeOK
  <2>1. Mixed \in Nat /\ Len(Size) \in Nat
    BY Numbers
  <2> QED
    BY <2>1 DEF TransferInv, Kinds, TypeOK
<1>2. TransferInv => OneBlockAtATime
  BY OneAtATime DEF OneBlockAtATime
<1>3. TransferInv => CheckedIsWhole
  BY DEF TransferInv, ClientOK, WholeInv, CheckedIsWhole
<1>4. TransferInv => DownloadInv
  BY <1>1, <1>2, <1>3 DEF DownloadInv
<1> QED
  BY <1>4, TransferCorrect, PTL
=============================================================================
