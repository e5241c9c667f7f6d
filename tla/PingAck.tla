------------------------------ MODULE PingAck ------------------------------
(***************************************************************************)
(* The measure of a client's ping.  Each update carries a number of 8 bits *)
(* and is entered in the client's queue LastSentPing with the time; the    *)
(* client sends the number back; cbUpdate() looks for it in the queue.     *)
(*                                                                         *)
(* The model numbers updates from the start of the server; messages and    *)
(* comparisons have only the number modulo Modulus.                        *)
(***************************************************************************)
EXTENDS Integers, Sequences, SequencesExt

CONSTANTS
    Modulus,   \* where pingnb wraps: 256
    MaxSent    \* bound of the model: updates sent

ASSUME PingAckAssumption == Modulus \in Nat \ {0} /\ MaxSent \in Nat

VARIABLES
    sent,         \* the updates sent so far: pingnb is this modulo Modulus
    connected,    \* the client is an entity of the server
    ready,        \* ... and is networkReady
    lastSentPing, \* CEntity::LastSentPing
    down,         \* the updates on the way to the client
    up,           \* its answers on the way to the server
    measured,     \* history: the update answered and the one found for it
    wrapped       \* history: pingnb wrapped between the first update that was
                  \* entered for the client and the first one sent to it

vars == <<sent, connected, ready, lastSentPing, down, up, measured, wrapped>>

-----------------------------------------------------------------------------
Nothing == [answered |-> 0, found |-> 0]

Init ==
    /\ sent = 0
    /\ connected = FALSE
    /\ ready = FALSE
    /\ lastSentPing = <<>>
    /\ down = <<>>
    /\ up = <<>>
    /\ measured = Nothing
    /\ wrapped = FALSE

Connect ==
    /\ ~connected
    /\ connected' = TRUE
    /\ UNCHANGED <<sent, ready, lastSentPing, down, up, measured, wrapped>>

Login ==
    /\ connected /\ ~ready
    /\ ready' = TRUE
    /\ wrapped' = (lastSentPing # <<>>
                     /\ lastSentPing[1] \div Modulus # sent \div Modulus)
    /\ UNCHANGED <<sent, connected, lastSentPing, down, up, measured>>

QueueStays ==  \* a mutant
    /\ connected
    /\ connected' = FALSE
    /\ ready' = FALSE
    /\ down' = <<>>
    /\ up' = <<>>
    /\ measured' = Nothing
    /\ wrapped' = FALSE
    /\ UNCHANGED <<sent, lastSentPing>>

Disconnect ==
    /\ connected
    /\ connected' = FALSE
    /\ ready' = FALSE
    /\ lastSentPing' = <<>>
    /\ down' = <<>>
    /\ up' = <<>>
    /\ measured' = Nothing
    /\ wrapped' = FALSE
    /\ UNCHANGED sent

(* FullUpdate and Update: entered for every client of the list, sent to    *)
(* those that are ready.  Of the clients that have not logged in FullUpdate*)
(* enters all, Update those of IdUpdateList.                               *)
Enter(queue) == {Append(queue, sent)} \cup (IF ready THEN {} ELSE {queue})

Update ==
    /\ sent < MaxSent
    /\ sent' = sent + 1
    /\ IF connected THEN lastSentPing' \in Enter(lastSentPing)
                    ELSE UNCHANGED lastSentPing
    /\ down' = IF ready THEN Append(down, sent) ELSE down
    /\ UNCHANGED <<connected, ready, up, measured, wrapped>>

(* The client answers each of the two first of all.                        *)
Answer ==
    /\ down # <<>>
    /\ up' = Append(up, Head(down))
    /\ down' = Tail(down)
    /\ UNCHANGED <<sent, connected, ready, lastSentPing, measured, wrapped>>

(* The first entry of the queue that is not older than the answer, as far  *)
(* as the numbers tell; 0 when there is none.                              *)
AnyEntry(queue, n) == IF queue = <<>> THEN 0 ELSE 1  \* a mutant

FirstNotOlder(queue, n) ==
    SelectInSeq(queue, LAMBDA p : p % Modulus >= n % Modulus)

KeepFound(queue, i) == SubSeq(queue, i, Len(queue))  \* a mutant

Rest(queue, i) == SubSeq(queue, i + 1, Len(queue))

(* cbUpdate(): entries that look older are dropped, one that looks younger *)
(* is left and the answer ignored, and an equal one gives the ping.        *)
Ack ==
    /\ up # <<>>
    /\ up' = Tail(up)
    /\ LET n == Head(up)
           i == FirstNotOlder(lastSentPing, n)
       IN  CASE i = 0 ->
                  lastSentPing' = <<>> /\ UNCHANGED measured
             [] i # 0 /\ lastSentPing[i] % Modulus = n % Modulus ->
                  /\ lastSentPing' = Rest(lastSentPing, i)
                  /\ measured' = [answered |-> n, found |-> lastSentPing[i]]
             [] OTHER ->
                  /\ lastSentPing' = SubSeq(lastSentPing, i, Len(lastSentPing))
                  /\ UNCHANGED measured
    /\ UNCHANGED <<sent, connected, ready, down, wrapped>>

Next == Connect \/ Login \/ Disconnect \/ Update \/ Answer \/ Ack

Spec == Init /\ [][Next]_vars

-----------------------------------------------------------------------------
TypeOK ==
    /\ sent \in 0 .. MaxSent
    /\ connected \in BOOLEAN
    /\ ready \in BOOLEAN /\ (ready => connected)
    /\ \A q \in {lastSentPing, down, up} :
          q \in Seq(0 .. MaxSent) /\ (~connected => q = <<>>)
    /\ measured \in [answered : 0 .. MaxSent, found : 0 .. MaxSent]
    /\ wrapped \in BOOLEAN

(* The ping that is measured is that of the update the client answered,    *)
(* however many are on the way, more than numbers even - unless the number *)
(* wrapped while the client was connected and had not logged in: then the  *)
(* answers are refused until they meet the old entries of a round before.  *)
MeasuresTheAnswered ==
    ~wrapped => measured.answered = measured.found

(* The queue holds what is still to be answered, at the end, and before it *)
(* nothing but what was entered before the login: it does not grow with    *)
(* the time a client plays.                                                *)
HoldsTheUnanswered ==
    ready /\ ~wrapped =>
       /\ IsSuffix(up \o down, lastSentPing)
       /\ measured # Nothing => lastSentPing = up \o down

(* What the run checks of the queue and of the types.                      *)
QueueInv == TypeOK /\ HoldsTheUnanswered
=============================================================================
