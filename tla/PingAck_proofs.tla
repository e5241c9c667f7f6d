--------------------------- MODULE PingAck_proofs ---------------------------
(***************************************************************************)
(* Machine-checked proofs about PingAck: for every modulus, and however    *)
(* many updates are on their way, the ping that is measured is that of the *)
(* update the client has answered.                                         *)
(***************************************************************************)
EXTENDS PingAck, SequenceTheorems, WellFoundedInduction, TLAPS

-----------------------------------------------------------------------------
(* Numbers.                                                                *)

(* A set of numbers that is not empty has a least element.                 *)
LEMMA LeastIndex ==
    ASSUME NEW S \in SUBSET Nat, S # {}
    PROVE  \E i \in S : \A j \in S : i <= j
<1>1. \E i \in S : \A j \in S : <<j, i>> \notin OpToRel(<, Nat)
  BY NatLessThanWellFounded, WFMin
<1>2. \A i, j \in Nat : <<j, i>> \in OpToRel(<, Nat) <=> j < i
  BY DEF OpToRel
<1>3. PICK i \in S : \A j \in S : ~(j < i)
  BY <1>1, <1>2
<1> QED
  BY <1>3

(* Division with remainder.                                                *)
LEMMA Division ==
    ASSUME NEW m \in Nat \ {0}, NEW p \in Nat
    PROVE  /\ p \div m \in Nat /\ p % m \in 0 .. m - 1
           /\ p = m * (p \div m) + (p % m)
BY Z3

(* The round of the numbers an update is in, and its number.               *)
Lap(n) == n \div Modulus
Number(n) == n % Modulus

LEMMA LapAndNumber ==
    ASSUME NEW p \in Nat
    PROVE  /\ Lap(p) \in Nat /\ Number(p) \in Nat /\ Number(p) < Modulus
           /\ p = (Modulus * Lap(p)) + Number(p)
BY Division, PingAckAssumption DEF Lap, Number

(* Within one round the numbers are ordered as the updates are.            *)
LEMMA SameRound ==
    ASSUME NEW p \in Nat, NEW q \in Nat, Lap(p) = Lap(q), p < q
    PROVE  Number(p) < Number(q)
<1> DEFINE base == Modulus * Lap(p)
<1>1. p = base + Number(p) /\ Number(p) \in Nat /\ Lap(p) \in Nat
  BY LapAndNumber
<1>2. q = base + Number(q) /\ Number(q) \in Nat
  BY LapAndNumber
<1>3. base \in Int
  BY <1>1, PingAckAssumption
<1> HIDE DEF base
<1> QED
  BY <1>1, <1>2, <1>3

(* A later update is not in an earlier round.                              *)
LEMMA LapGrows ==
    ASSUME NEW p \in Nat, NEW q \in Nat, p <= q
    PROVE  Lap(p) <= Lap(q)
<1> DEFINE a == Lap(p)
           b == Lap(q)
<1> SUFFICES ASSUME b < a PROVE FALSE
  BY LapAndNumber
<1>1. /\ a \in Nat /\ b \in Nat /\ Modulus \in Nat
      /\ p = (Modulus * a) + Number(p) /\ q = (Modulus * b) + Number(q)
      /\ Number(p) \in Nat /\ Number(q) \in Nat /\ Number(q) < Modulus
  BY LapAndNumber, PingAckAssumption
<1> HIDE DEF a, b
<1>2. b + 1 <= a
  BY <1>1
<1>3. Modulus * (b + 1) <= Modulus * a
  BY <1>1, <1>2, Z3
<1>4. Modulus * (b + 1) = (Modulus * b) + Modulus
  BY <1>1, Z3
<1>5. Modulus * a \in Int /\ Modulus * b \in Int
  BY <1>1
<1> QED
  BY <1>1, <1>3, <1>4, <1>5

(* What lies between two updates of a round is in that round.              *)
LEMMA RoundIsConvex ==
    ASSUME NEW p \in Nat, NEW q \in Nat, NEW r \in Nat,
           p <= q, q <= r, Lap(p) = Lap(r)
    PROVE  Lap(q) = Lap(r)
<1>1. Lap(p) <= Lap(q) /\ Lap(q) <= Lap(r)
  BY LapGrows
<1> QED
  BY <1>1, LapAndNumber

-----------------------------------------------------------------------------
(* The updates the client has not answered, or whose answers are on the    *)
(* way, in the order in which the answers come.                            *)
Flight == up \o down

Numbers == 0 .. MaxSent

(* The queue ends with them, ...                                           *)
Old == Len(lastSentPing) - Len(Flight)

EndsWithFlight ==
    /\ Old >= 0
    /\ \A i \in 1 .. Len(Flight) : lastSentPing[Old + i] = Flight[i]

(* ... and what is before them was entered before the first of them, and   *)
(* in the same round of the numbers.                                       *)
First == IF Flight = <<>> THEN sent ELSE Flight[1]

OldIsOfTheRound ==
    \A i \in 1 .. Old : lastSentPing[i] < First /\ Lap(lastSentPing[i]) = Lap(First)

(* The queue is in the order of the updates.                               *)
Ascending ==
    /\ \A i \in 1 .. Len(lastSentPing) : lastSentPing[i] < sent
    /\ \A i, j \in 1 .. Len(lastSentPing) : i < j => lastSentPing[i] < lastSentPing[j]

(* The inductive invariant.                                                *)
PingInv ==
    /\ TypeOK
    /\ ~ready => Flight = <<>> /\ measured = Nothing /\ ~wrapped
    /\ ~wrapped => Ascending /\ measured.answered = measured.found
    /\ ready /\ ~wrapped => EndsWithFlight /\ OldIsOfTheRound
    /\ ready /\ ~wrapped /\ measured # Nothing => Old = 0

-----------------------------------------------------------------------------
(* The updates on their way.                                               *)
LEMMA Types ==
    ASSUME TypeOK
    PROVE  /\ sent \in Nat /\ sent <= MaxSent
           /\ lastSentPing \in Seq(Numbers) /\ down \in Seq(Numbers) /\ up \in Seq(Numbers)
           /\ Flight \in Seq(Numbers) /\ Len(Flight) = Len(up) + Len(down)
           /\ Len(Flight) \in Nat /\ Len(lastSentPing) \in Nat
<1>1. lastSentPing \in Seq(Numbers) /\ down \in Seq(Numbers) /\ up \in Seq(Numbers)
  BY DEF TypeOK, Numbers
<1>2. Flight \in Seq(Numbers) /\ Len(Flight) = Len(up) + Len(down)
  BY <1>1, ConcatProperties DEF Flight
<1>3. sent \in Nat /\ sent <= MaxSent
  BY PingAckAssumption DEF TypeOK
<1> QED
  BY <1>1, <1>2, <1>3, LenProperties

(* The client answers in the order of the updates.                         *)
LEMMA FlightOfAnswer ==
    ASSUME TypeOK, Answer
    PROVE  Flight' = Flight
<1>1. down \in Seq(Numbers) /\ up \in Seq(Numbers) /\ down # <<>>
  BY Types DEF Answer
<1>2. up' = Append(up, Head(down)) /\ down' = Tail(down) /\ Head(down) = down[1]
  BY <1>1 DEF Answer
<1>3. /\ Len(down) \in Nat \ {0} /\ Len(up) \in Nat
  BY <1>1, EmptySeq, LenProperties
<1>4. /\ down[1] \in Numbers
      /\ Tail(down) \in Seq(Numbers) /\ Len(Tail(down)) = Len(down) - 1
      /\ \A i \in 1 .. Len(Tail(down)) : Tail(down)[i] = down[i + 1]
  BY <1>1, <1>2, HeadTailProperties
<1>5. /\ up' \in Seq(Numbers) /\ Len(up') = Len(up) + 1
      /\ \A i \in 1 .. Len(up) : up'[i] = up[i]
      /\ up'[Len(up) + 1] = down[1]
  BY <1>1, <1>2, <1>4, AppendProperties
<1>6. /\ Flight' \in Seq(Numbers) /\ Len(Flight') = Len(up) + Len(down)
      /\ \A i \in 1 .. Len(up) + Len(down) :
           Flight'[i] = IF i <= Len(up) + 1 THEN up'[i] ELSE Tail(down)[i - (Len(up) + 1)]
  <2>1. /\ Flight' \in Seq(Numbers) /\ Len(Flight') = Len(up') + Len(down')
        /\ \A i \in 1 .. Len(up') + Len(down') :
             Flight'[i] = IF i <= Len(up') THEN up'[i] ELSE down'[i - Len(up')]
    BY <1>2, <1>4, <1>5, ConcatProperties DEF Flight
  <2> QED
    BY <2>1, <1>2, <1>3, <1>4, <1>5
<1>7. /\ Flight \in Seq(Numbers) /\ Len(Flight) = Len(up) + Len(down)
      /\ \A i \in 1 .. Len(up) + Len(down) :
           Flight[i] = IF i <= Len(up) THEN up[i] ELSE down[i - Len(up)]
  BY <1>1, ConcatProperties DEF Flight
<1>8. ASSUME NEW i \in 1 .. Len(Flight') PROVE Flight'[i] = Flight[i]
  <2>0. i \in 1 .. Len(up) + Len(down)
    BY <1>6
  <2>1. CASE i <= Len(up)
    BY <2>0, <2>1, <1>3, <1>5, <1>6, <1>7
  <2>2. CASE i = Len(up) + 1
    BY <2>0, <2>2, <1>3, <1>5, <1>6, <1>7
  <2>3. CASE i > Len(up) + 1
    <3>1. i - (Len(up) + 1) \in 1 .. Len(Tail(down))
      BY <2>0, <2>3, <1>3, <1>4
    <3>2. Flight'[i] = Tail(down)[i - (Len(up) + 1)]
      BY <2>0, <2>3, <1>3, <1>6
    <3>3. Tail(down)[i - (Len(up) + 1)] = down[i - (Len(up) + 1) + 1]
      BY <3>1, <1>4
    <3>4. i - (Len(up) + 1) + 1 = i - Len(up) /\ ~(i <= Len(up))
      BY <2>0, <2>3, <1>3
    <3>5. Flight[i] = down[i - Len(up)]
      BY <2>0, <3>4, <1>7
    <3> QED
      BY <3>2, <3>3, <3>4, <3>5
  <2> QED
    BY <2>0, <2>1, <2>2, <2>3, <1>3
<1> QED
  BY <1>6, <1>7, <1>8, SeqEqual

(* An update goes behind those that are on their way.                      *)
LEMMA FlightOfUpdate ==
    ASSUME TypeOK, Update, ready
    PROVE  Flight' = Append(Flight, sent)
<1>1. down \in Seq(Numbers) /\ up \in Seq(Numbers) /\ sent \in Numbers
  BY Types DEF Update, Numbers
<1>2. up' = up /\ down' = Append(down, sent)
  BY DEF Update
<1>3. down' = down \o <<sent>> /\ Flight' = up \o (down \o <<sent>>)
  BY <1>1, <1>2, AppendIsConcat DEF Flight
<1>4. Flight \in Seq(Numbers) /\ Append(Flight, sent) = Flight \o <<sent>>
  BY <1>1, AppendIsConcat, ConcatProperties DEF Flight
<1>5. <<sent>> \in Seq(Numbers)
  BY <1>1
<1> QED
  BY <1>1, <1>3, <1>4, <1>5, ConcatAssociative DEF Flight

(* An answer that arrives is that of the first of them.                    *)
LEMMA FlightOfAck ==
    ASSUME TypeOK, Ack
    PROVE  /\ Flight # <<>> /\ Head(up) = Flight[1]
           /\ Len(Flight) \in Nat \ {0}
           /\ Flight' \in Seq(Numbers) /\ Len(Flight') = Len(Flight) - 1
           /\ \A i \in 1 .. Len(Flight') : Flight'[i] = Flight[i + 1]
<1>1. down \in Seq(Numbers) /\ up \in Seq(Numbers) /\ up # <<>>
  BY Types DEF Ack
<1>2. up' = Tail(up) /\ down' = down /\ Head(up) = up[1]
  BY <1>1 DEF Ack
<1>3. Len(down) \in Nat /\ Len(up) \in Nat \ {0}
  BY <1>1, EmptySeq, LenProperties
<1>4. /\ Tail(up) \in Seq(Numbers) /\ Len(Tail(up)) = Len(up) - 1
      /\ \A i \in 1 .. Len(Tail(up)) : Tail(up)[i] = up[i + 1]
  BY <1>1, HeadTailProperties
<1>5. /\ Flight \in Seq(Numbers) /\ Len(Flight) = Len(up) + Len(down)
      /\ \A i \in 1 .. Len(up) + Len(down) :
           Flight[i] = IF i <= Len(up) THEN up[i] ELSE down[i - Len(up)]
  BY <1>1, ConcatProperties DEF Flight
<1>6. /\ Flight' \in Seq(Numbers) /\ Len(Flight') = Len(up) - 1 + Len(down)
      /\ \A i \in 1 .. Len(up) - 1 + Len(down) :
           Flight'[i] = IF i <= Len(up) - 1 THEN Tail(up)[i] ELSE down[i - (Len(up) - 1)]
  BY <1>1, <1>2, <1>4, ConcatProperties DEF Flight
<1>7. Flight[1] = up[1] /\ Len(Flight) \in Nat \ {0} /\ Flight # <<>>
  BY <1>3, <1>5, EmptySeq
<1>8. ASSUME NEW i \in 1 .. Len(Flight') PROVE Flight'[i] = Flight[i + 1]
  <2>0. i \in 1 .. Len(up) - 1 + Len(down) /\ i + 1 \in 1 .. Len(up) + Len(down)
    BY <1>3, <1>6
  <2>1. CASE i <= Len(up) - 1
    <3>1. Flight'[i] = Tail(up)[i] /\ Tail(up)[i] = up[i + 1]
      BY <2>0, <2>1, <1>3, <1>4, <1>6
    <3> QED
      BY <3>1, <2>0, <2>1, <1>3, <1>5
  <2>2. CASE ~(i <= Len(up) - 1)
    <3>1. Flight'[i] = down[i - (Len(up) - 1)]
      BY <2>0, <2>2, <1>6
    <3>2. i + 1 - Len(up) = i - (Len(up) - 1) /\ ~(i + 1 <= Len(up))
      BY <2>0, <2>2, <1>3
    <3>3. Flight[i + 1] = down[i + 1 - Len(up)]
      BY <2>0, <3>2, <1>5
    <3> QED
      BY <3>1, <3>2, <3>3
  <2> QED
    BY <2>1, <2>2
<1> QED
  BY <1>2, <1>3, <1>5, <1>6, <1>7, <1>8

-----------------------------------------------------------------------------
(* The steps of the invariant.                                             *)
LEMMA PingInit == Init => PingInv
<1> SUFFICES ASSUME Init PROVE PingInv
  OBVIOUS
<1>1. TypeOK
  <2>1. /\ sent = 0 /\ connected = FALSE /\ ready = FALSE /\ wrapped = FALSE
        /\ lastSentPing = <<>> /\ down = <<>> /\ up = <<>>
        /\ measured = Nothing
    BY DEF Init
  <2>2. 0 \in 0 .. MaxSent
    BY PingAckAssumption
  <2>3. \A q \in {lastSentPing, down, up} : q \in Seq(0 .. MaxSent) /\ (~connected => q = <<>>)
    <3>1. <<>> \in Seq(0 .. MaxSent)
      BY EmptySeq
    <3> QED
      BY <2>1, <3>1
  <2>4. measured \in [answered : 0 .. MaxSent, found : 0 .. MaxSent]
    BY <2>1, <2>2 DEF Nothing
  <2>5. sent \in 0 .. MaxSent
    BY <2>1, <2>2
  <2>6. connected \in BOOLEAN /\ ready \in BOOLEAN /\ (ready => connected) /\ wrapped \in BOOLEAN
    BY <2>1
  <2> QED
    BY <2>3, <2>4, <2>5, <2>6 DEF TypeOK
<1>2. Flight = <<>>
  BY DEF Init, Flight
<1>3. ~ready /\ measured = Nothing /\ ~wrapped /\ lastSentPing = <<>>
  BY DEF Init
<1>4. Ascending
  BY <1>3 DEF Ascending
<1> QED
  BY <1>1, <1>2, <1>3, <1>4 DEF PingInv, Nothing

LEMMA PingConnect ==
    ASSUME PingInv, Connect
    PROVE  PingInv'
<1>1. TypeOK'
  BY DEF PingInv, TypeOK, Connect
<1>2. UNCHANGED <<Flight, Old, First, sent, ready, lastSentPing, measured, wrapped>>
  BY DEF Connect, Flight, Old, First
<1>3. Ascending' <=> Ascending
  BY <1>2 DEF Ascending
<1> QED
  BY <1>1, <1>2, <1>3 DEF PingInv, EndsWithFlight, OldIsOfTheRound

LEMMA PingLogin ==
    ASSUME PingInv, Login
    PROVE  PingInv'
<1>1. /\ TypeOK /\ connected /\ ~ready /\ Flight = <<>> /\ measured = Nothing /\ ~wrapped
      /\ Ascending
  BY DEF PingInv, Login
<1>2. ready' /\ UNCHANGED <<Flight, sent, connected, lastSentPing, down, up, measured>>
  BY DEF Login, Flight
<1>3. TypeOK'
  BY <1>1, <1>2 DEF TypeOK, Login
<1>4. Ascending'
  BY <1>1, <1>2 DEF Ascending
<1>5. Old' = Len(lastSentPing) /\ First' = sent
  BY <1>1, <1>2, Types DEF Old, First
<1>6. EndsWithFlight'
  BY <1>1, <1>2, <1>5, Types DEF EndsWithFlight
<1>7. ASSUME ~wrapped' PROVE OldIsOfTheRound'
  <2> SUFFICES ASSUME NEW i \in 1 .. Len(lastSentPing)
               PROVE  /\ lastSentPing[i] < sent
                      /\ Lap(lastSentPing[i]) = Lap(sent)
    BY <1>2, <1>5 DEF OldIsOfTheRound
  <2>1. lastSentPing[i] < sent /\ lastSentPing[1] <= lastSentPing[i]
    <3>1. lastSentPing[i] \in Nat /\ lastSentPing[1] \in Nat /\ i \in Nat /\ 1 \in 1 .. Len(lastSentPing)
      BY <1>1, Types, ElementOfSeq, PingAckAssumption DEF Numbers
    <3> QED
      BY <3>1, <1>1 DEF Ascending
  <2>2. Lap(lastSentPing[1]) = Lap(sent)
    <3>1. lastSentPing # <<>>
      BY <1>1, Types, EmptySeq
    <3> QED
      BY <3>1, <1>7 DEF Login, Lap
  <2>3. lastSentPing[i] \in Nat /\ lastSentPing[1] \in Nat
    <3>1. 1 \in 1 .. Len(lastSentPing)
      BY <1>1, Types
    <3> QED
      BY <3>1, <1>1, Types, ElementOfSeq, PingAckAssumption DEF Numbers
  <2>4. lastSentPing[i] <= sent /\ sent \in Nat
    BY <2>1, <2>3, <1>1, Types
  <2>5. Lap(lastSentPing[i]) = Lap(sent)
    BY <2>1, <2>2, <2>3, <2>4, RoundIsConvex
  <2> QED
    BY <2>1, <2>5
<1> QED
  BY <1>1, <1>2, <1>3, <1>4, <1>6, <1>7 DEF PingInv, Nothing

LEMMA PingDisconnect ==
    ASSUME PingInv, Disconnect
    PROVE  PingInv'
<1>1. /\ ~ready' /\ ~connected' /\ measured' = Nothing /\ ~wrapped' /\ lastSentPing' = <<>>
      /\ down' = <<>> /\ up' = <<>> /\ sent' = sent /\ TypeOK
  BY DEF PingInv, Disconnect
<1>2. TypeOK'
  <2>1. 0 \in 0 .. MaxSent
    BY PingAckAssumption
  <2>2. \A q \in {lastSentPing', down', up'} : q \in Seq(0 .. MaxSent) /\ (~connected' => q = <<>>)
    <3>1. <<>> \in Seq(0 .. MaxSent)
      BY EmptySeq
    <3> QED
      BY <1>1, <3>1
  <2>3. measured' \in [answered : 0 .. MaxSent, found : 0 .. MaxSent]
    BY <2>1, <1>1 DEF Nothing
  <2>4. /\ connected' \in BOOLEAN /\ ready' \in BOOLEAN /\ (ready' => connected')
        /\ wrapped' \in BOOLEAN
    BY DEF Disconnect
  <2>5. sent' \in 0 .. MaxSent
    BY <1>1 DEF TypeOK
  <2> QED
    BY <2>2, <2>3, <2>4, <2>5 DEF TypeOK
<1>3. Flight' = <<>> /\ Ascending'
  BY <1>1 DEF Flight, Ascending
<1> QED
  BY <1>1, <1>2, <1>3 DEF PingInv, Nothing

LEMMA PingAnswer ==
    ASSUME PingInv, Answer
    PROVE  PingInv'
<1>1. TypeOK /\ Flight' = Flight
  BY FlightOfAnswer DEF PingInv
<1>2. UNCHANGED <<sent, connected, ready, lastSentPing, measured, wrapped>>
  BY DEF Answer
<1>3. TypeOK'
  <2>1. down # <<>> /\ down \in Seq(Numbers) /\ up \in Seq(Numbers) /\ connected
    BY <1>1, Types DEF Answer, TypeOK
  <2>2. Head(down) \in Numbers /\ Tail(down) \in Seq(Numbers)
    BY <2>1, HeadTailProperties
  <2>3. up' \in Seq(Numbers) /\ down' \in Seq(Numbers)
    BY <2>1, <2>2, AppendProperties DEF Answer
  <2> QED
    BY <2>1, <2>3, <1>1, <1>2 DEF TypeOK, Numbers
<1>4. Old' = Old /\ First' = First /\ (Ascending' <=> Ascending)
  BY <1>1, <1>2 DEF Old, First, Ascending
<1> QED
  BY <1>1, <1>2, <1>3, <1>4 DEF PingInv, EndsWithFlight, OldIsOfTheRound

(* An update is entered at the end of the queue, and of what is on its way. *)
LEMMA PingUpdate ==
    ASSUME PingInv, Update
    PROVE  PingInv'
<1>1. /\ TypeOK /\ sent \in Numbers /\ sent' = sent + 1 /\ sent' \in Numbers
      /\ lastSentPing \in Seq(Numbers) /\ down \in Seq(Numbers) /\ up \in Seq(Numbers)
  BY Types, PingAckAssumption DEF PingInv, Update, Numbers
<1>2. UNCHANGED <<connected, ready, up, measured, wrapped>>
  BY DEF Update
<1>3. lastSentPing' = lastSentPing \/ (connected /\ lastSentPing' = Append(lastSentPing, sent))
  BY DEF Update, Enter
<1>4. /\ Append(lastSentPing, sent) \in Seq(Numbers)
      /\ Len(Append(lastSentPing, sent)) = Len(lastSentPing) + 1
      /\ \A i \in 1 .. Len(lastSentPing) : Append(lastSentPing, sent)[i] = lastSentPing[i]
      /\ Append(lastSentPing, sent)[Len(lastSentPing) + 1] = sent
  BY <1>1, AppendProperties
<1>5. TypeOK'
  <2>1. lastSentPing' \in Seq(Numbers)
    BY <1>1, <1>3, <1>4
  <2>2. down' \in Seq(Numbers)
    BY <1>1, AppendProperties DEF Update
  <2>3. ~connected => lastSentPing' = <<>> /\ down' = <<>> /\ up' = <<>>
    BY <1>1, <1>2, <1>3 DEF TypeOK, Update
  <2> QED
    BY <2>1, <2>2, <2>3, <1>1, <1>2 DEF TypeOK, Numbers
<1>6. ASSUME Ascending PROVE Ascending'
  <2>1. CASE lastSentPing' = lastSentPing
    <3>1. \A i \in 1 .. Len(lastSentPing) : lastSentPing[i] \in Numbers
      BY <1>1, ElementOfSeq
    <3> QED
      BY <2>1, <3>1, <1>1, <1>6 DEF Ascending, Numbers
  <2>2. CASE lastSentPing' = Append(lastSentPing, sent)
    <3>1. \A i \in 1 .. Len(lastSentPing) : lastSentPing[i] \in Numbers
      BY <1>1, ElementOfSeq
    <3>2. Len(lastSentPing) \in Nat
      BY <1>1, LenProperties
    <3>3. /\ Len(lastSentPing') = Len(lastSentPing) + 1
          /\ \A i \in 1 .. Len(lastSentPing) : lastSentPing'[i] = lastSentPing[i]
          /\ lastSentPing'[Len(lastSentPing) + 1] = sent
      BY <2>2, <1>4
    <3>4. \A i \in 1 .. Len(lastSentPing') : lastSentPing'[i] < sent'
      BY <3>1, <3>2, <3>3, <1>1, <1>6 DEF Ascending, Numbers
    <3>5. ASSUME NEW i \in 1 .. Len(lastSentPing'), NEW j \in 1 .. Len(lastSentPing'), i < j
          PROVE  lastSentPing'[i] < lastSentPing'[j]
      <4>1. i \in 1 .. Len(lastSentPing) /\ lastSentPing'[i] = lastSentPing[i]
        BY <3>2, <3>3, <3>5
      <4>2. CASE j = Len(lastSentPing) + 1
        BY <4>1, <4>2, <3>3, <1>6 DEF Ascending
      <4>3. CASE j \in 1 .. Len(lastSentPing)
        BY <4>1, <4>3, <3>3, <3>5, <1>6 DEF Ascending
      <4> QED
        BY <4>2, <4>3, <3>2, <3>3
    <3> QED
      BY <3>4, <3>5 DEF Ascending
  <2> QED
    BY <2>1, <2>2, <1>3
<1>7. CASE ~ready
  <2>1. Flight' = Flight
    BY <1>2, <1>7 DEF Flight, Update
  <2> QED
    BY <2>1, <1>2, <1>5, <1>6, <1>7 DEF PingInv
<1>8. CASE ready
  <2>1. Flight' = Append(Flight, sent) /\ Flight \in Seq(Numbers)
    BY <1>1, <1>8, FlightOfUpdate, Types
  <2>2. /\ Len(Flight') = Len(Flight) + 1 /\ Flight' # <<>> /\ Len(Flight) \in Nat
        /\ \A i \in 1 .. Len(Flight) : Flight'[i] = Flight[i]
        /\ Flight'[Len(Flight) + 1] = sent
    BY <2>1, <1>1, AppendProperties, LenProperties
  <2>3. lastSentPing' = Append(lastSentPing, sent)
    BY <1>1, <1>8 DEF Update, Enter, TypeOK
  <2>4. /\ Len(lastSentPing') = Len(lastSentPing) + 1 /\ Len(lastSentPing) \in Nat
        /\ \A i \in 1 .. Len(lastSentPing) : lastSentPing'[i] = lastSentPing[i]
        /\ lastSentPing'[Len(lastSentPing) + 1] = sent
    BY <2>3, <1>1, <1>4, LenProperties
  <2>5. Old' = Old /\ Old \in Int
    BY <2>2, <2>4 DEF Old
  <2>6. First' = First
    <3>1. CASE Flight = <<>>
      <4>1. Len(Flight) = 0
        BY <3>1
      <4> QED
        BY <3>1, <4>1, <2>2 DEF First
    <3>2. CASE Flight # <<>>
      <4>1. 1 \in 1 .. Len(Flight)
        BY <3>2, <2>1, <2>2, EmptySeq
      <4> QED
        BY <3>2, <4>1, <2>2 DEF First
    <3> QED
      BY <3>1, <3>2
  <2>7. ASSUME EndsWithFlight PROVE EndsWithFlight'
    <3> SUFFICES ASSUME NEW i \in 1 .. Len(Flight) + 1
                 PROVE  lastSentPing'[Old + i] = Flight'[i]
      BY <2>2, <2>5, <2>7 DEF EndsWithFlight
    <3>1. Old + Len(Flight) = Len(lastSentPing)
      BY <2>2, <2>4 DEF Old
    <3>2. CASE i \in 1 .. Len(Flight)
      <4>1. Old + i \in 1 .. Len(lastSentPing)
        BY <3>1, <3>2, <2>2, <2>4, <2>5, <2>7 DEF EndsWithFlight
      <4>2. lastSentPing[Old + i] = Flight[i]
        BY <3>2, <2>7 DEF EndsWithFlight
      <4> QED
        BY <4>1, <4>2, <3>2, <2>2, <2>4
    <3>3. CASE i = Len(Flight) + 1
      <4>1. Old + i = Len(lastSentPing) + 1
        BY <3>1, <3>3, <2>2, <2>4, <2>5
      <4> QED
        BY <4>1, <3>3, <2>2, <2>4
    <3> QED
      BY <3>2, <3>3, <2>2
  <2>8. ASSUME OldIsOfTheRound, Old >= 0 PROVE OldIsOfTheRound'
    <3>1. \A i \in 1 .. Old : i \in 1 .. Len(lastSentPing)
      BY <2>2, <2>4, <2>5 DEF Old
    <3> QED
      BY <3>1, <2>4, <2>5, <2>6, <2>8 DEF OldIsOfTheRound
  <2> QED
    BY <2>5, <2>7, <2>8, <1>2, <1>5, <1>6, <1>8 DEF PingInv, EndsWithFlight
<1> QED
  BY <1>7, <1>8

(* The entry cbUpdate() looks for, when there is one that is not older.    *)
LEMMA FirstNotOlderIsFirst ==
    ASSUME NEW queue \in Seq(Numbers), NEW n \in Nat, NEW k \in 1 .. Len(queue),
           Number(queue[k]) >= Number(n),
           \A j \in 1 .. k - 1 : ~(Number(queue[j]) >= Number(n))
    PROVE  FirstNotOlder(queue, n) = k
<1> DEFINE I == {i \in 1 .. Len(queue) : Number(queue[i]) >= Number(n)}
<1>1. k \in I /\ Len(queue) \in Nat
  BY LenProperties
<1>2. \A i \in I : k <= i
  <2> SUFFICES ASSUME NEW i \in I, ~(k <= i) PROVE FALSE
    OBVIOUS
  <2>1. i \in 1 .. k - 1
    BY <1>1
  <2> QED
    BY <2>1
<1>3. FirstNotOlder(queue, n) = Min(I)
  BY <1>1 DEF FirstNotOlder, SelectInSeq, Number
<1>4. Min(I) = k
  <2>1. \A i \in I : i \in Int
    BY <1>1
  <2>2. \A m \in I : (\A i \in I : m <= i) => m = k
    BY <1>1, <1>2, <2>1
  <2> HIDE DEF I
  <2> QED
    BY <1>1, <1>2, <2>2 DEF Min
<1> QED
  BY <1>3, <1>4

(* FirstNotOlder() gives a place of the queue, or 0.                       *)
LEMMA FirstNotOlderType ==
    ASSUME NEW queue \in Seq(Numbers), NEW n \in Nat
    PROVE  FirstNotOlder(queue, n) \in 0 .. Len(queue)
<1> DEFINE I == {i \in 1 .. Len(queue) : queue[i] % Modulus >= n % Modulus}
<1>1. Len(queue) \in Nat
  BY LenProperties
<1>2. CASE I = {}
  BY <1>1, <1>2 DEF FirstNotOlder, SelectInSeq
<1>3. CASE I # {}
  <2>1. FirstNotOlder(queue, n) = Min(I)
    BY <1>3 DEF FirstNotOlder, SelectInSeq
  <2>2. \E i \in I : \A j \in I : i <= j
    <3>1. I \in SUBSET Nat
      BY <1>1
    <3> HIDE DEF I
    <3> QED
      BY <1>3, <3>1, LeastIndex
  <2>3. Min(I) \in I
    BY <2>2 DEF Min
  <2> QED
    BY <1>1, <2>1, <2>3
<1> QED
  BY <1>2, <1>3

(* What cbUpdate() leaves of the queue is a part of it.                    *)
LEMMA TypeAck ==
    ASSUME PingInv, Ack
    PROVE  TypeOK'
<1>1. /\ TypeOK /\ up # <<>> /\ up' = Tail(up)
      /\ UNCHANGED <<sent, connected, ready, down, wrapped>>
      /\ lastSentPing \in Seq(Numbers) /\ down \in Seq(Numbers) /\ up \in Seq(Numbers)
  BY Types DEF PingInv, Ack
<1>2. connected
  BY <1>1 DEF TypeOK
<1>3. up' \in Seq(Numbers) /\ Head(up) \in Numbers
  BY <1>1, HeadTailProperties
<1> DEFINE i == FirstNotOlder(lastSentPing, Head(up))
<1>4. i \in 0 .. Len(lastSentPing) /\ Len(lastSentPing) \in Nat
  <2>1. Head(up) \in Nat
    BY <1>3, PingAckAssumption DEF Numbers
  <2>2. i \in 0 .. Len(lastSentPing)
    BY <2>1, <1>1, FirstNotOlderType
  <2> QED
    BY <2>2, <1>1, LenProperties
<1>5. /\ \A m \in 1 .. Len(lastSentPing) + 1 : SubSeq(lastSentPing, m, Len(lastSentPing)) \in Seq(Numbers)
      /\ i # 0 => lastSentPing[i] \in Numbers
  <2>1. \A j \in 1 .. Len(lastSentPing) : lastSentPing[j] \in Numbers
    BY <1>1, ElementOfSeq
  <2>2. ASSUME NEW m \in 1 .. Len(lastSentPing) + 1
        PROVE  SubSeq(lastSentPing, m, Len(lastSentPing)) \in Seq(Numbers)
    <3>1. \A j \in m .. Len(lastSentPing) : lastSentPing[j] \in Numbers
      BY <2>1, <1>4
    <3> QED
      BY <3>1, <1>4, SubSeqProperties
  <2> QED
    BY <2>1, <2>2, <1>4
<1>6. lastSentPing' \in Seq(Numbers)
  <2>1. \/ lastSentPing' = <<>>
        \/ i # 0 /\ lastSentPing' = SubSeq(lastSentPing, i + 1, Len(lastSentPing))
        \/ i # 0 /\ lastSentPing' = SubSeq(lastSentPing, i, Len(lastSentPing))
    BY DEF Ack, Rest
  <2>2. <<>> \in Seq(Numbers)
    BY EmptySeq
  <2>3. i # 0 => i \in 1 .. Len(lastSentPing) + 1 /\ i + 1 \in 1 .. Len(lastSentPing) + 1
    BY <1>4
  <2> HIDE DEF i
  <2> QED
    BY <2>1, <2>2, <2>3, <1>5
<1>7. measured' \in [answered : Numbers, found : Numbers]
  <2>1. \/ measured' = measured
        \/ i # 0 /\ measured' = [answered |-> Head(up), found |-> lastSentPing[i]]
    BY DEF Ack
  <2> HIDE DEF i
  <2> QED
    BY <2>1, <1>1, <1>3, <1>5 DEF TypeOK, Numbers
<1> QED
  BY <1>1, <1>2, <1>3, <1>6, <1>7 DEF TypeOK, Numbers

(* An answer is found behind the old entries, and the queue is then what   *)
(* is on its way.                                                          *)
LEMMA AnswerIsFound ==
    ASSUME PingInv, Ack, ready, ~wrapped
    PROVE  /\ Old \in Nat /\ Len(lastSentPing) = Old + Len(Flight)
           /\ lastSentPing' = SubSeq(lastSentPing, Old + 2, Len(lastSentPing))
           /\ measured' = [answered |-> Head(up), found |-> Head(up)]
<1> DEFINE n == Head(up)
           k == Old + 1
<1>1. /\ TypeOK /\ EndsWithFlight /\ OldIsOfTheRound
      /\ lastSentPing \in Seq(Numbers) /\ Len(lastSentPing) \in Nat
      /\ Flight # <<>> /\ n = Flight[1] /\ Len(Flight) \in Nat \ {0}
  BY Types, FlightOfAck DEF PingInv
<1>2. Old \in Nat /\ Len(lastSentPing) = Old + Len(Flight) /\ k \in 1 .. Len(lastSentPing)
  BY <1>1 DEF EndsWithFlight, Old
<1>3. lastSentPing[k] = n
  <2>1. 1 \in 1 .. Len(Flight)
    BY <1>1
  <2> QED
    BY <2>1, <1>1 DEF EndsWithFlight
<1>4. n \in Nat
  BY <1>1, <1>2, <1>3, ElementOfSeq, PingAckAssumption DEF Numbers
<1>5. \A j \in 1 .. k - 1 : ~(Number(lastSentPing[j]) >= Number(n))
  <2> SUFFICES ASSUME NEW j \in 1 .. k - 1 PROVE ~(Number(lastSentPing[j]) >= Number(n))
    OBVIOUS
  <2>1. j \in 1 .. Old /\ j \in 1 .. Len(lastSentPing)
    BY <1>2
  <2>2. lastSentPing[j] \in Nat
    BY <2>1, <1>1, ElementOfSeq, PingAckAssumption DEF Numbers
  <2>3. lastSentPing[j] < n /\ Lap(lastSentPing[j]) = Lap(n)
    BY <2>1, <1>1 DEF OldIsOfTheRound, First
  <2>4. Number(lastSentPing[j]) < Number(n)
    BY <2>2, <2>3, <1>4, SameRound
  <2>5. Number(lastSentPing[j]) \in Nat /\ Number(n) \in Nat
    BY <2>2, <1>4, LapAndNumber
  <2> QED
    BY <2>4, <2>5
<1>6. Number(lastSentPing[k]) >= Number(n)
  BY <1>3, <1>4, LapAndNumber
<1>7. FirstNotOlder(lastSentPing, n) = k
  <2> HIDE DEF k, n
  <2> QED
    BY <1>1, <1>2, <1>4, <1>5, <1>6, FirstNotOlderIsFirst
<1>8. k # 0 /\ lastSentPing[k] % Modulus = n % Modulus /\ k + 1 = Old + 2
  BY <1>2, <1>3
<1>9. /\ lastSentPing' = Rest(lastSentPing, k)
      /\ measured' = [answered |-> n, found |-> lastSentPing[k]]
  <2> HIDE DEF k
  <2> QED
    BY <1>7, <1>8 DEF Ack
<1> QED
  BY <1>2, <1>3, <1>8, <1>9 DEF Rest

LEMMA PingAnswered ==
    ASSUME PingInv, Ack
    PROVE  PingInv'
<1>1. TypeOK' /\ UNCHANGED <<sent, ready, wrapped>>
  BY TypeAck DEF Ack
<1>2. ready
  BY FlightOfAck DEF PingInv
<1>3. CASE wrapped
  BY <1>1, <1>2, <1>3 DEF PingInv
<1>4. CASE ~wrapped
  <2>1. /\ Old \in Nat /\ Len(lastSentPing) = Old + Len(Flight)
        /\ lastSentPing' = SubSeq(lastSentPing, Old + 2, Len(lastSentPing))
        /\ measured' = [answered |-> Head(up), found |-> Head(up)]
    BY <1>2, <1>4, AnswerIsFound
  <2>2. /\ Len(Flight) \in Nat \ {0} /\ Len(Flight') = Len(Flight) - 1
        /\ \A i \in 1 .. Len(Flight') : Flight'[i] = Flight[i + 1]
        /\ lastSentPing \in Seq(Numbers) /\ Len(lastSentPing) \in Nat
    BY Types, FlightOfAck DEF PingInv
  <2>3. EndsWithFlight /\ Ascending
    BY <1>2, <1>4 DEF PingInv
  <2>4. \A j \in Old + 2 .. Len(lastSentPing) : lastSentPing[j] \in Numbers
    BY <2>1, <2>2, ElementOfSeq
  <2>5. /\ Len(lastSentPing') = Len(Flight) - 1
        /\ \A i \in 1 .. Len(Flight) - 1 : lastSentPing'[i] = lastSentPing[Old + 1 + i]
    <3>1. Old + 2 \in Int /\ Len(lastSentPing) \in Int
      BY <2>1, <2>2
    <3>2. /\ Len(lastSentPing') = IF Old + 2 <= Len(lastSentPing)
                                  THEN Len(lastSentPing) - (Old + 2) + 1 ELSE 0
          /\ \A i \in 1 .. Len(lastSentPing) - (Old + 2) + 1 :
               lastSentPing'[i] = lastSentPing[Old + 2 + i - 1]
      BY <3>1, <2>1, <2>4, SubSeqProperties
    <3>3. \A i \in Int : Old + 2 + i - 1 = Old + 1 + i
      BY <2>1
    <3> QED
      BY <3>2, <3>3, <2>1, <2>2
  <2>6. Old' = 0
    BY <2>2, <2>5 DEF Old
  <2>7. EndsWithFlight'
    <3> SUFFICES ASSUME NEW i \in 1 .. Len(Flight) - 1
                 PROVE  lastSentPing'[i] = Flight'[i]
      BY <2>2, <2>6 DEF EndsWithFlight
    <3>1. i + 1 \in 1 .. Len(Flight) /\ Old + 1 + i = Old + (i + 1)
      BY <2>1, <2>2
    <3>2. lastSentPing[Old + (i + 1)] = Flight[i + 1]
      BY <3>1, <2>3 DEF EndsWithFlight
    <3> QED
      BY <3>1, <3>2, <2>2, <2>5
  <2>8. Ascending'
    <3>1. ASSUME NEW i \in 1 .. Len(Flight) - 1
          PROVE  Old + 1 + i \in 1 .. Len(lastSentPing) /\ lastSentPing'[i] = lastSentPing[Old + 1 + i]
      BY <2>1, <2>2, <2>5
    <3>2. \A i \in 1 .. Len(lastSentPing') : lastSentPing'[i] < sent'
      BY <3>1, <2>3, <2>5, <1>1 DEF Ascending
    <3>3. ASSUME NEW i \in 1 .. Len(Flight) - 1, NEW j \in 1 .. Len(Flight) - 1, i < j
          PROVE  lastSentPing'[i] < lastSentPing'[j]
      <4>1. Old + 1 + i < Old + 1 + j
        BY <3>3, <2>1, <2>2
      <4> QED
        BY <4>1, <3>1, <2>3 DEF Ascending
    <3> QED
      BY <3>2, <3>3, <2>5 DEF Ascending
  <2>9. OldIsOfTheRound'
    BY <2>6 DEF OldIsOfTheRound
  <2> QED
    BY <1>1, <1>2, <2>1, <2>6, <2>7, <2>8, <2>9 DEF PingInv
<1> QED
  BY <1>3, <1>4

(* The invariant is inductive.                                             *)
LEMMA PingNext ==
    ASSUME PingInv, [Next]_vars
    PROVE  PingInv'
<1>1. CASE UNCHANGED vars
  <2>1. UNCHANGED <<Flight, Old, First>>
    BY <1>1 DEF vars, Flight, Old, First
  <2> QED
    BY <2>1, <1>1 DEF vars, PingInv, TypeOK, Ascending, EndsWithFlight, OldIsOfTheRound
<1> QED
  BY <1>1, PingConnect, PingLogin, PingDisconnect, PingUpdate, PingAnswer, PingAnswered DEF Next

-----------------------------------------------------------------------------
(* Two sequences, one of which ends with the other.                        *)
LEMMA EndIsSuffix ==
    ASSUME PingInv, EndsWithFlight
    PROVE  IsSuffix(Flight, lastSentPing)
<1>1. /\ lastSentPing \in Seq(Numbers) /\ Flight \in Seq(Numbers)
      /\ Len(lastSentPing) \in Nat /\ Len(Flight) \in Nat /\ Old \in Nat
      /\ Len(lastSentPing) = Old + Len(Flight)
  BY Types DEF PingInv, EndsWithFlight, Old
<1> DEFINE r == Reverse(Flight)
           q == Reverse(lastSentPing)
<1>2. /\ r \in Seq(Numbers) /\ Len(r) = Len(Flight)
      /\ \A i \in 1 .. Len(Flight) : r[i] = Flight[(Len(Flight) - i) + 1]
  <2>1. \A i \in 1 .. Len(Flight) : Flight[(Len(Flight) - i) + 1] \in Numbers
    BY <1>1, ElementOfSeq
  <2> QED
    BY <2>1, <1>1 DEF Reverse
<1>3. /\ q \in Seq(Numbers) /\ Len(q) = Len(lastSentPing)
      /\ \A i \in 1 .. Len(lastSentPing) : q[i] = lastSentPing[(Len(lastSentPing) - i) + 1]
  <2>1. \A i \in 1 .. Len(lastSentPing) : lastSentPing[(Len(lastSentPing) - i) + 1] \in Numbers
    BY <1>1, ElementOfSeq
  <2> QED
    BY <2>1, <1>1 DEF Reverse
<1>4. \A i \in 1 .. Len(Flight) : r[i] = q[i]
  <2> SUFFICES ASSUME NEW i \in 1 .. Len(Flight) PROVE r[i] = q[i]
    OBVIOUS
  <2>1. (Len(Flight) - i) + 1 \in 1 .. Len(Flight) /\ i \in 1 .. Len(lastSentPing)
    BY <1>1
  <2>2. lastSentPing[Old + ((Len(Flight) - i) + 1)] = Flight[(Len(Flight) - i) + 1]
    BY <2>1 DEF EndsWithFlight
  <2>3. Old + ((Len(Flight) - i) + 1) = (Len(lastSentPing) - i) + 1
    BY <1>1
  <2> QED
    BY <2>1, <2>2, <2>3, <1>2, <1>3
<1> HIDE DEF r, q
<1>5. SubSeq(r, 1, Len(r)) = SubSeq(q, 1, Len(r))
  <2>1. \A i \in 1 .. Len(r) : r[i] \in Numbers /\ q[i] \in Numbers
    BY <1>1, <1>2, <1>3, ElementOfSeq
  <2>2. /\ SubSeq(r, 1, Len(r)) \in Seq(Numbers) /\ SubSeq(q, 1, Len(r)) \in Seq(Numbers)
        /\ Len(SubSeq(r, 1, Len(r))) = Len(r) /\ Len(SubSeq(q, 1, Len(r))) = Len(r)
        /\ \A i \in 1 .. Len(r) : SubSeq(r, 1, Len(r))[i] = r[i] /\ SubSeq(q, 1, Len(r))[i] = q[i]
    BY <2>1, <1>1, <1>2, SubSeqProperties
  <2> QED
    BY <2>2, <1>2, <1>4, SeqEqual
<1>6. Len(r) <= Len(q)
  BY <1>1, <1>2, <1>3
<1> QED
  BY <1>5, <1>6 DEF IsSuffix, IsPrefix, r, q

(* The queue when nothing old is left in it.                               *)
LEMMA NothingOld ==
    ASSUME PingInv, EndsWithFlight, Old = 0
    PROVE  lastSentPing = Flight
<1>1. /\ lastSentPing \in Seq(Numbers) /\ Flight \in Seq(Numbers)
      /\ Len(lastSentPing) = Len(Flight)
  BY Types DEF PingInv, Old
<1>2. \A i \in 1 .. Len(Flight) : lastSentPing[i] = Flight[i]
  <2> SUFFICES ASSUME NEW i \in 1 .. Len(Flight) PROVE lastSentPing[i] = Flight[i]
    OBVIOUS
  <2>1. Old + i = i
    OBVIOUS
  <2> QED
    BY <2>1 DEF EndsWithFlight
<1> QED
  BY <1>1, <1>2, SeqEqual

(* The ping that is measured is that of the update the client answered,    *)
(* for any modulus and any number of updates on their way, unless the      *)
(* numbers wrapped while the client was connected and not logged in.       *)
(* (cbUpdate() of the server)                                              *)
THEOREM MeasuresCorrect == Spec => []MeasuresTheAnswered
<1>1. PingInv => MeasuresTheAnswered
  BY DEF PingInv, MeasuresTheAnswered
<1> QED
  BY <1>1, PingInit, PingNext, PTL DEF Spec

(* The queue holds the unanswered updates at its end, and nothing else     *)
(* once an answer has been measured: it does not grow.  (LastSentPing)     *)
THEOREM QueueCorrect == Spec => []QueueInv
<1>1. PingInv => QueueInv
  <2> SUFFICES ASSUME PingInv PROVE QueueInv
    OBVIOUS
  <2>1. HoldsTheUnanswered
    BY EndIsSuffix, NothingOld DEF PingInv, HoldsTheUnanswered, Flight
  <2> QED
    BY <2>1 DEF PingInv, QueueInv
<1> QED
  BY <1>1, PingInit, PingNext, PTL DEF Spec
=============================================================================
