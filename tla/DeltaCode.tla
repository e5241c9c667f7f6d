----------------------------- MODULE DeltaCode -----------------------------
(***************************************************************************)
(* The code in which Update and UpdateOne carry a difference of position:  *)
(* common/custom_floating_point.cpp packs each coordinate into a mantissa  *)
(* of 4 bits and a signed exponent of 6.  The server adds to LastSent...   *)
(* what the client will decode, so what one update rounds away is left for *)
(* the next: a step below is one update of one coordinate.                 *)
(*                                                                         *)
(* A unit is 1/20 of the game's unit of length (the code multiplies by 20) *)
(* and a number n stands for n / Scale units, which is exact: the smallest *)
(* coded value is 8 / 2^12 units.                                          *)
(***************************************************************************)
EXTENDS Integers

CONSTANTS
    Furthest,  \* MinDeltaToSendFullUpdate: beyond it a FullUpdate is sent
    ToSend     \* bound: the differences to send at first

VARIABLE left   \* the position of the entity less the position sent so far

-----------------------------------------------------------------------------
Pow(k)      == 2^k
Scale       == 4096
ExponentMax == 16           \* F88_EXPONENT_MAX_VALUE
MantissaMax == 16           \* F88_MANTISSA_MAX_VALUE
ShortLimit  == MantissaMax \div 2                               \* a mutant
Limit       == MantissaMax - 2
Zero        == MantissaMax * 2 - 1

(* The configuration file gives 3 units of length, 60 of the code; the     *)
(* loops of computeMantis8_8() would stop short from 2^18 on.              *)
ASSUME DeltaAssumption ==
    /\ Furthest \in Nat
    /\ Furthest <= ExponentMax * Scale * Pow(Limit)
    /\ ToSend \subseteq -Furthest .. Furthest

Abs(n) == IF n < 0 THEN -n ELSE n

(* C's division and conversion to an integer round towards zero.           *)
Quot(n, d) == IF n < 0 THEN -((-n) \div d) ELSE n \div d

(* computeMantis8_8(): how often the number is halved, or doubled, to come *)
(* to the range of the mantissa.                                           *)
First(k, P(_)) == P(k) /\ \A j \in 0 .. k - 1 : ~P(j)

Halvings(a) ==
    LET Small(k) == k = Limit \/ a <= ExponentMax * Scale * Pow(k)
    IN  CHOOSE k \in 0 .. Limit : First(k, Small)

Doublings(a) ==
    LET Large(k) == k = Limit \/ a * Pow(k) >= ExponentMax * Scale
    IN  CHOOSE k \in 0 .. Limit : First(k, Large)

(* The mantissa, by a multiplier that is one doubling short of the range.  *)
Coded(n, sx, dx) ==
    [sx |-> 2 * sx + (IF n < 0 THEN 1 ELSE 0) + Zero,
     dx |-> dx - ExponentMax \div 2]

Encode(n) ==
    LET a == Abs(n)
        h == Halvings(a)
        d == Doublings(a)
    IN  IF a > ExponentMax * Scale THEN Coded(n, -h, a \div (Scale * Pow(h)))
        ELSE IF d = Limit THEN [sx |-> Zero, dx |-> 0]
        ELSE Coded(n, d, (a * Pow(d)) \div (2 * Scale))

(* convert8_8fp(): the exponent of a negative number that was halved comes *)
(* out one too high, for sx is divided by two towards zero.                *)
ShiftKept(q)   == q                                             \* a mutant
ShiftTooFar(q) == IF q > 0 THEN q - 2 ELSE q                    \* a mutant
Shift(q)       == IF q > 0 THEN q - 1 ELSE q

Signed(s, v)   == IF s % 2 = 1 THEN -v ELSE v

Decode(c) ==
    LET s == c.sx - Zero
        e == Shift(Quot(s, 2))
        m == c.dx + ExponentMax \div 2
        v == IF e < 0 THEN m * Scale * Pow(-e) ELSE (m * Scale) \div Pow(e)
    IN  IF s = 0 THEN 0 ELSE Signed(s, v)

(* packBit32::packBits() cuts a value that has too many bits down to the   *)
(* largest one that has not, and unpackBits() reads the last bits first.   *)
Cut(v, count) == IF v >= Pow(count) THEN Pow(count) - 1 ELSE v

PackBits(bits, v, count) == bits * Pow(count) + Cut(v, count)

PackCode(bits, c) == PackBits(PackBits(bits, c.dx, 4), c.sx, 6)

(* The three coordinates of an update, and what the client reads of them.  *)
Packed(x, y, z) == PackCode(PackCode(PackCode(0, x), y), z)

XFirst(bits, n) == [sx |-> (bits \div Pow(10 * (2 - n))) % Pow(6),  \* a mutant
                    dx |-> (bits \div Pow(10 * (2 - n) + 6)) % Pow(4)]
Unpacked(bits, n) == [sx |-> (bits \div Pow(10 * n)) % Pow(6),
                      dx |-> (bits \div Pow(10 * n + 6)) % Pow(4)]

Sent(n) == Decode(Encode(n))

-----------------------------------------------------------------------------
DeltaInit == left \in ToSend

(* One update while the entity stays where it is.                          *)
Send == left' = left - Sent(left)

DeltaSpec == DeltaInit /\ [][Send]_left /\ WF_left(Send)

-----------------------------------------------------------------------------
(* The client reads from the packed bits of an update the very differences *)
(* that the server has added to LastSent...: x, y and z keep apart, none   *)
(* of them is cut, whatever the other two are.                             *)
Corner == {0, 1, Scale, 16 * Scale, Furthest, -1, -Scale, -Furthest}

ClientReadsTheSame ==
    \A m, n \in Corner :
      LET bits == Packed(Encode(left), Encode(m), Encode(n))
      IN  /\ Decode(Unpacked(bits, 2)) = Sent(left)
          /\ Decode(Unpacked(bits, 1)) = Sent(m)
          /\ Decode(Unpacked(bits, 0)) = Sent(n)

(* No update sends an entity past where it is, or away from it.            *)
NeverOvershoots ==
    Abs(Sent(left)) <= Abs(left) /\ Abs(left - Sent(left)) <= Abs(left)

(* What the code cannot send: less than one part in 512 of a unit, and, as *)
(* the exponent 0 stands for nothing at all, a positive difference of 16   *)
(* units exactly.                                                          *)
Unsent == Abs(left) * 512 < Scale \/ left = ExponentMax * Scale

(* Of any other difference an update sends at least 8/9, or 4/9 when it is *)
(* negative and of 16 units or more (its exponent is decoded one too high  *)
(* there), ...                                                             *)
SendsAtLeast ==
    Unsent \/ 9 * Abs(Sent(left)) >=
                (IF left <= -ExponentMax * Scale THEN 4 ELSE 8) * Abs(left)

(* ... and so an entity that stays where it is is soon seen there.         *)
Converges == <>[]Unsent
=============================================================================
