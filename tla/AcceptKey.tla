------------------------------ MODULE AcceptKey ------------------------------
(***************************************************************************)
(* ComputeAcceptKey: Sha1 over the client's key and the magic GUID, what   *)
(* ProcessBlock makes of the blocks, and Base64Encode of the digest.  A    *)
(* byte is 0..255; a 32-bit word is two halves of 16 bits.                 *)
(*                                                                         *)
(* ProcessBlock depends on nothing but the blocks before, so that it is    *)
(* run here over the blocks that Sha1 has cut, once it has cut them all.   *)
(*                                                                         *)
(* A definition X_y just before X is a faulty variant of X; no             *)
(* specification uses it.                                                  *)
(***************************************************************************)
EXTENDS Sha1, Bitwise

CONSTANT Key     \* Sec-WebSocket-Key, in ASCII

ASSUME KeyAssumption == Key \in Seq(0..255) /\ BlockLen = 64 /\ LengthLen = 8

\* kMagicGuid, 258EAFA5-E914-47DA-95CA-C5AB0DC85B11.
Guid == <<50, 53, 56, 69, 65, 70, 65, 53, 45, 69, 57, 49, 52, 45, 52, 55, 68, 65, 45,
          57, 53, 67, 65, 45, 67, 53, 65, 66, 48, 68, 67, 56, 53, 66, 49, 49>>
Combined == Key \o Guid

VARIABLES
    h,       \* h_
    blocks,  \* how many blocks h accounts for
    w,       \* the words of the block under way, none between blocks
    s,       \* a to e
    step     \* i of the second loop

blockVars == <<h, blocks, w, s, step>>

-----------------------------------------------------------------------------
(* Words.                                                                  *)

Half == 65536

Map2(Op(_, _), v, u) == [i \in 1..2 |-> Op(v[i], u[i])]
Xor2(v, u) == Map2(^^, v, u)
And2(v, u) == Map2(&, v, u)
Or2(v, u) == Map2(|, v, u)
Not2(v) == [i \in 1..2 |-> Half - 1 - v[i]]

\* Addition modulo 2^32.
Add2(v, u) ==
    LET low == v[2] + u[2]
    IN <<(v[1] + u[1] + (low \div Half)) % Half, low % Half>>

LeftRotate(v, n) ==
    LET hi == IF n >= 16 THEN v[2] ELSE v[1]
        lo == IF n >= 16 THEN v[1] ELSE v[2]
        k == n % 16
    IN <<((hi * 2^k) % Half) + (lo \div 2^(16 - k)), ((lo * 2^k) % Half) + (hi \div 2^(16 - k))>>

-----------------------------------------------------------------------------
(* ProcessBlock.                                                           *)

KeyInit ==
    /\ h = << <<\h6745, \h2301>>, <<\hEFCD, \hAB89>>, <<\h98BA, \hDCFE>>,
              <<\h1032, \h5476>>, <<\hC3D2, \hE1F0>> >>
    /\ blocks = 0 /\ w = << >> /\ s = h /\ step = 0

\* The byte that stands in the text or its padding; its length is at most 65535 bits.
ByteOf(b) ==
    CASE b.kind = "text"   -> Combined[b.at]
      [] b.kind = "pad"    -> 128
      [] b.kind = "zero"   -> 0
      [] b.kind = "length" ->
            LET bits == 8 * given
            IN IF b.at = LengthLen THEN bits % 256
               ELSE IF b.at = LengthLen - 1 THEN bits \div 256 ELSE 0

BlockBegins ==
    /\ phase = "done" /\ given = Len(Combined)
    /\ w = << >> /\ blocks * BlockLen < Len(hashed)
    /\ LET byte(k) == ByteOf(hashed[blocks * BlockLen + k])
       IN w' = [i \in 1..16 |-> <<byte(4*i - 3) * 256 + byte(4*i - 2),
                                  byte(4*i - 1) * 256 + byte(4*i)>>]
    /\ s' = h /\ step' = 0
    /\ UNCHANGED <<h, blocks>>

Extended_unrotated == Xor2(Xor2(w[Len(w) - 2], w[Len(w) - 7]), Xor2(w[Len(w) - 13], w[Len(w) - 15]))
Extended ==
    LeftRotate(Xor2(Xor2(w[Len(w) - 2], w[Len(w) - 7]), Xor2(w[Len(w) - 13], w[Len(w) - 15])), 1)

ExtendWords ==
    /\ Len(w) \in 16..79
    /\ w' = Append(w, Extended)
    /\ UNCHANGED <<h, blocks, s, step>>

F(i, b, c, d) ==
    CASE i < 20       -> Or2(And2(b, c), And2(Not2(b), d))
      [] i \in 40..59 -> Or2(Or2(And2(b, c), And2(b, d)), And2(c, d))
      [] OTHER        -> Xor2(Xor2(b, c), d)
K(i) ==
    CASE i < 20       -> <<\h5A82, \h7999>>
      [] i \in 20..39 -> <<\h6ED9, \hEBA1>>
      [] i \in 40..59 -> <<\h8F1B, \hBCDC>>
      [] OTHER        -> <<\hCA62, \hC1D6>>

MixWord ==
    /\ Len(w) = 80 /\ step < 80
    /\ LET f == Add2(Add2(F(step, s[2], s[3], s[4]), s[5]), Add2(K(step), w[step + 1]))
       IN s' = <<Add2(LeftRotate(s[1], 5), f), s[1], LeftRotate(s[2], 30), s[3], s[4]>>
    /\ step' = step + 1
    /\ UNCHANGED <<h, blocks, w>>

BlockEnds ==
    /\ Len(w) = 80 /\ step = 80
    /\ h' = [i \in 1..5 |-> Add2(h[i], s[i])]
    /\ blocks' = blocks + 1 /\ w' = << >>
    /\ UNCHANGED <<s, step>>

ProcessBlock == BlockBegins \/ ExtendWords \/ MixWord \/ BlockEnds

-----------------------------------------------------------------------------
(* What Final returns, and Base64Encode.                                   *)

Digest ==
    LET half(i) == h[(i \div 4) + 1][((i % 4) \div 2) + 1]
    IN [i \in 1..20 |-> IF (i - 1) % 2 = 0 THEN half(i - 1) \div 256 ELSE half(i - 1) % 256]

\* kTable, in ASCII.
Table(n) ==
    CASE n < 26       -> 65 + n
      [] n \in 26..51 -> 71 + n
      [] n \in 52..61 -> n - 4
      [] n = 62       -> 43
      [] OTHER        -> 47

\* Three bytes give four characters; 61 is =, for the characters that have no byte.
Base64Encode(p) ==
    LET byte(k) == IF k <= Len(p) THEN p[k] ELSE 0
        char(g, k) == LET n == byte(3*g + 1) * 65536 + byte(3*g + 2) * 256 + byte(3*g + 3)
                      IN IF 3*g + k > Len(p) THEN 61 ELSE Table((n \div 64^(3 - k)) % 64)
    IN [i \in 1..4 * ((Len(p) + 2) \div 3) |-> char((i - 1) \div 4, (i - 1) % 4)]

Finished == phase = "done" /\ w = << >> /\ blocks * BlockLen = Len(hashed)

AcceptKey == Base64Encode(Digest)
=============================================================================
