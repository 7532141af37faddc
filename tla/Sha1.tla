-------------------------------- MODULE Sha1 --------------------------------
(***************************************************************************)
(* The part of Sha1 that cuts a text into blocks: Update, which may be     *)
(* called with pieces of any size, and Final, which pads what is left.     *)
(* What ProcessBlock does with a block is in AcceptKey.                    *)
(*                                                                         *)
(* A byte is a record that says which byte it is: a byte of the text, the  *)
(* 0x80 of the padding, a zero, or a byte of the length.                   *)
(*                                                                         *)
(* A definition X_y just before X is a faulty variant of X; no             *)
(* specification uses it.                                                  *)
(***************************************************************************)
EXTENDS Integers, Sequences

CONSTANTS
    BlockLen,   \* bytes of a block: 64
    LengthLen,  \* bytes of the length at the end: 8
    MaxBytes    \* bound: bytes of the text

ASSUME BlockAssumption ==
    BlockLen \in Nat /\ LengthLen \in Nat \ {0} /\ LengthLen < BlockLen
ASSUME MaxBytesAssumption == MaxBytes \in Nat

Text(i) == [kind |-> "text", at |-> i]
Pad == [kind |-> "pad", at |-> 0]       \* 0x80
Zero == [kind |-> "zero", at |-> 0]
LengthByte(i) == [kind |-> "length", at |-> i]
Bytes == {Pad, Zero} \cup {Text(i) : i \in Nat} \cup {LengthByte(i) : i \in Nat}

VARIABLES
    given,    \* total_bits_ / 8 when Final saves it
    buffer,   \* the first buffer_len_ bytes of buffer_
    hashed,   \* what ProcessBlock has been given, one block after the other
    phase     \* "open", in Final "padding", and "done"

hashVars == <<given, buffer, hashed, phase>>

HashInit == given = 0 /\ buffer = << >> /\ hashed = << >> /\ phase = "open"

\* The first bytes complete the block that has been begun; if they do not, they are
\* all there is.
TopUp(d) ==
    LET need == BlockLen - Len(buffer)
    IN IF Len(buffer) = 0 THEN 0 ELSE IF Len(d) < need THEN Len(d) ELSE need

\* n whole blocks of d are hashed from the caller's memory, and the rest is kept.
Update(d) ==
    LET take == TopUp(d)
        begun == buffer \o SubSeq(d, 1, take)
        full == Len(begun) = BlockLen
    IN \E n \in 0..Len(d) :
          LET end == take + n * BlockLen
          IN /\ end <= Len(d) /\ Len(d) < end + BlockLen
             /\ hashed' = hashed \o (IF full THEN begun ELSE << >>) \o SubSeq(d, take + 1, end)
             /\ buffer' = IF end < Len(d) THEN SubSeq(d, end + 1, Len(d))
                          ELSE IF full THEN << >> ELSE begun

\* A caller's piece of the text.
Give(n) ==
    /\ phase = "open" /\ given + n <= MaxBytes
    /\ Update([i \in 1..n |-> Text(given + i)])
    /\ given' = given + n
    /\ UNCHANGED phase

\* Final: 0x80, then zeros while there is not just room for the length.
FinalBegins ==
    /\ phase = "open"
    /\ Update(<<Pad>>) /\ phase' = "padding"
    /\ UNCHANGED given

RoomForLength_orMore == Len(buffer) <= BlockLen - LengthLen
RoomForLength == Len(buffer) = BlockLen - LengthLen

PadZero ==
    /\ phase = "padding" /\ ~RoomForLength
    /\ Update(<<Zero>>)
    /\ UNCHANGED <<given, phase>>

FinalEnds ==
    /\ phase = "padding" /\ RoomForLength
    /\ hashed' = hashed \o buffer \o [i \in 1..LengthLen |-> LengthByte(i)]
    /\ buffer' = << >> /\ phase' = "done"
    /\ UNCHANGED given

HashNext ==
    \/ \E n \in 1..MaxBytes : Give(n)
    \/ FinalBegins
    \/ PadZero
    \/ FinalEnds

HashSpec == HashInit /\ [][HashNext]_hashVars

-----------------------------------------------------------------------------
(* Properties.                                                             *)

HashTypeOK ==
    /\ given \in Nat /\ phase \in {"open", "padding", "done"}
    /\ buffer \in Seq(Bytes) /\ Len(buffer) < BlockLen
    /\ hashed \in Seq(Bytes)

\* What is hashed in the end is the text, however Update was given it, then 0x80, as
\* many zeros as make whole blocks and no more, and the length.
PaddedOnce ==
    phase = "done" =>
        LET len == Len(hashed)
        IN /\ \E k \in 0..len : len = k * BlockLen
           /\ given + 1 + LengthLen <= len /\ len < given + 1 + LengthLen + BlockLen
           /\ \A i \in 1..len : hashed[i] =
                 IF i <= given THEN Text(i)
                 ELSE IF i = given + 1 THEN Pad
                 ELSE IF i <= len - LengthLen THEN Zero
                 ELSE LengthByte(i - (len - LengthLen))
=============================================================================
