------------------------------- MODULE WsFrame -------------------------------
(***************************************************************************)
(* WebSocket frames byte by byte: ParseHeader and ApplyMask on what a      *)
(* client sends, EncodeServerFrame on what it gets.  Of the outcomes of    *)
(* ParseHeader "bad" stands for payload_len = UINT64_MAX, and "wait" for   *)
(* any other return of 0.  Header bytes are numbers; a byte of a payload,  *)
(* which is only ever masked, is the set of its bits that are 1.           *)
(*                                                                         *)
(* A definition X_y just before X is a faulty variant of X; no             *)
(* specification uses it.                                                  *)
(***************************************************************************)
EXTENDS Integers, Sequences

CONSTANTS
    FrameSet,  \* the client's frames
    NoFrame

\* form: the bits of the length field; len: the low 32 bits of the length; high: the
\* rest, which only the longest form has.
FrameRecords ==
    [fin : BOOLEAN, rsv : 0..7, op : 0..15, mask : {<< >>} \cup [1..4 -> 0..255],
     form : {7, 16, 64}, len : Nat, high : Nat]
Is32Bits(n) == n \div 65536 < 65536
Fits(f) ==
    /\ Is32Bits(f.len) /\ Is32Bits(f.high)
    /\ f.form = 7 => f.len < 126
    /\ f.form = 16 => f.len < 65536
    /\ f.form # 64 => f.high = 0

ASSUME FramesAssumption == FrameSet \subseteq FrameRecords /\ \A f \in FrameSet : Fits(f)

VARIABLES
    frame,     \* the frame the client sends
    arrived    \* how many bytes of its header have arrived

frameVars == <<frame, arrived>>

FrameInit == frame = NoFrame /\ arrived = 0

-----------------------------------------------------------------------------
(* Numbers, most significant byte first.                                   *)

Number(bytes) ==
    LET n[i \in 0..Len(bytes)] == IF i = 0 THEN 0 ELSE n[i - 1] * 256 + bytes[i]
    IN n[Len(bytes)]

\* The last size bytes of n.
BytesOf(n, size) ==
    LET shifted[i \in 0..size] == IF i = 0 THEN n ELSE shifted[i - 1] \div 256
    IN [i \in 1..size |-> shifted[size - i] % 256]

-----------------------------------------------------------------------------
(* The server.                                                             *)

IsValidOpCode(op) == op \in {0, 1, 2, 8, 9, 10}

Bad == [outcome |-> "bad"]
Wait == [outcome |-> "wait"]

ExtLenBytes(len7) == IF len7 = 126 THEN 2 ELSE IF len7 = 127 THEN 8 ELSE 0

\* The length and, for the long forms, whether it needed them and has no high bytes.
PayloadLen(data, len7) ==
    CASE len7 = 126 -> Number(SubSeq(data, 3, 4))
      [] len7 = 127 -> Number(SubSeq(data, 7, 10))
      [] OTHER      -> len7
LengthFits_offByOne(data, len7) ==
    CASE len7 = 126 -> PayloadLen(data, len7) >= 126
      [] len7 = 127 -> SubSeq(data, 3, 6) = <<0, 0, 0, 0>> /\ PayloadLen(data, len7) > 65536
      [] OTHER      -> TRUE
LengthFits(data, len7) ==
    CASE len7 = 126 -> PayloadLen(data, len7) >= 126
      [] len7 = 127 -> SubSeq(data, 3, 6) = <<0, 0, 0, 0>> /\ PayloadLen(data, len7) >= 65536
      [] OTHER      -> TRUE

ParseHeader(data) ==
    LET op == data[1] % 16
        masked == data[2] >= 128
        len7 == data[2] % 128
        keyAt == 2 + ExtLenBytes(len7)
        headerLen == keyAt + (IF masked THEN 4 ELSE 0)
    IN  IF Len(data) < 2 THEN Wait
        ELSE IF (data[1] \div 16) % 8 # 0 \/ ~IsValidOpCode(op) THEN Bad
        ELSE IF Len(data) < headerLen THEN Wait
        ELSE IF ~LengthFits(data, len7) THEN Bad
        ELSE [outcome |-> "header", fin |-> data[1] >= 128, op |-> op,
              len |-> PayloadLen(data, len7), headerLen |-> headerLen,
              mask |-> IF masked THEN SubSeq(data, keyAt + 1, headerLen) ELSE << >>]

XorBits(s, t) == (s \ t) \cup (t \ s)
Bits(byte) == {b \in 0..7 : (byte \div 2^b) % 2 = 1}
ApplyMask(payload, mask) ==
    [i \in DOMAIN payload |-> XorBits(payload[i], Bits(mask[((i - 1) % 4) + 1]))]

\* The header that EncodeServerFrame puts before a payload of len bytes.
EncodeServerFrame(fin, op, len) ==
    <<IF fin THEN op + 128 ELSE op>> \o
    (CASE len <= 125                -> <<len>>
       [] len > 125 /\ len <= 65535 -> <<126>> \o BytesOf(len, 2)
       [] OTHER                     -> <<127>> \o BytesOf(len, 8))

-----------------------------------------------------------------------------
(* The client, as RFC 6455 has it.                                         *)

Shortest(len) == IF len < 126 THEN 7 ELSE IF len < 65536 THEN 16 ELSE 64

ClientHeader(f) ==
    LET mark == IF f.mask = << >> THEN 0 ELSE 128
    IN <<(IF f.fin THEN 128 ELSE 0) + f.rsv * 16 + f.op>> \o
       (CASE f.form = 7  -> <<mark + f.len>>
          [] f.form = 16 -> <<mark + 126>> \o BytesOf(f.len, 2)
          [] f.form = 64 -> <<mark + 127>> \o BytesOf(f.high, 4) \o BytesOf(f.len, 4))
       \o f.mask

\* The client sends a frame, and its header arrives.
SendFrame(f) ==
    /\ frame = NoFrame
    /\ frame' = f /\ UNCHANGED arrived

HeaderArrives(n) ==
    /\ frame # NoFrame /\ arrived + n <= Len(ClientHeader(frame))
    /\ arrived' = arrived + n /\ UNCHANGED frame

FrameNext ==
    \/ \E f \in FrameSet : SendFrame(f)
    \/ \E n \in 1..14 : HeaderArrives(n)

FrameSpec == FrameInit /\ [][FrameNext]_frameVars

-----------------------------------------------------------------------------
(* Properties.                                                             *)

Expected(f, n) ==
    IF n < 2 THEN Wait
    ELSE IF f.rsv # 0 \/ ~IsValidOpCode(f.op) THEN Bad
    ELSE IF n < Len(ClientHeader(f)) THEN Wait
    ELSE IF f.form # Shortest(f.len) \/ f.high # 0 THEN Bad
    ELSE [outcome |-> "header", fin |-> f.fin, op |-> f.op, len |-> f.len,
          headerLen |-> Len(ClientHeader(f)), mask |-> f.mask]

Payload == <<{0}, {1}, {2, 7}, {}, {7}, 0..7, {5}>>
Masked(payload, key) ==
    [i \in DOMAIN payload |-> XorBits(payload[i], Bits(key[((i + 3) % 4) + 1]))]

\* However a header arrives, ParseHeader waits for all of it, refuses what the RFC
\* does, and finds in the rest what the client put there; its mask gives the payload
\* back; and what EncodeServerFrame writes is the shortest unmasked header.
FramesUnderstood ==
    frame # NoFrame =>
        /\ ParseHeader(SubSeq(ClientHeader(frame), 1, arrived)) = Expected(frame, arrived)
        /\ EncodeServerFrame(frame.fin, frame.op, frame.len) =
              ClientHeader([frame EXCEPT !.rsv = 0, !.mask = << >>, !.high = 0,
                                         !.form = Shortest(frame.len)])
        /\ frame.mask # << >> => ApplyMask(Masked(Payload, frame.mask), frame.mask) = Payload
=============================================================================
