---------------------------- MODULE WsWireProofs ----------------------------
(***************************************************************************)
(* Theorems about the two parts of WsWire that do not compute a digest:    *)
(* Sha1 hashes the padded text, for every length of the blocks, of the     *)
(* text and of the pieces in which it is given; and ParseHeader, ApplyMask *)
(* and EncodeServerFrame agree with RFC 6455 on every frame, whatever its  *)
(* opcode, its length and its mask.                                        *)
(***************************************************************************)
EXTENDS Sha1, WsFrame, SequenceTheorems, WellFoundedInduction, TLAPS

\* A set that has 0 and the successor of each of its numbers has them all.
LEMMA NatSetInduction ==
    ASSUME NEW T, 0 \in T, \A n \in Nat : n \in T => n + 1 \in T
    PROVE  Nat \subseteq T
  <1> DEFINE R == {ss \in Nat \X Nat : ss[1] < ss[2]}
  <1>1. IsWellFoundedOn(R, Nat)
    BY NatLessThanWellFounded DEF OpToRel
  <1>2. ASSUME NEW x \in Nat \ T PROVE \E y \in Nat \ T : <<y, x>> \in R
    <2>1. x # 0 /\ x - 1 \in Nat /\ x - 1 < x /\ (x - 1) + 1 = x
      OBVIOUS
    <2>2. x - 1 \notin T
      BY <2>1
    <2> QED BY <2>1, <2>2
  <1> HIDE DEF R
  <1>3. Nat \ T = {}
    BY <1>1, <1>2, WFMin
  <1> QED BY <1>3

-----------------------------------------------------------------------------
(* Sha1: the inductive invariant.                                          *)

\* t is what comes in g after the first l bytes.
Follows(t, l, g) == \A i \in 1..Len(t) : t[i] = g[l + i]

\* hashed and then buffer are the first bytes of g.
Held(g) == Follows(hashed, 0, g) /\ Follows(buffer, Len(hashed), g)

Texts == [i \in Nat |-> Text(i)]
Padded == [i \in Nat |-> IF i <= given THEN Text(i) ELSE IF i = given + 1 THEN Pad ELSE Zero]

Whole(n) == \E k \in 0..n : n = k * BlockLen

Room == BlockLen - LengthLen

Open == Len(hashed) + Len(buffer) = given /\ Held(Texts)

\* Either there is room in the block of 0x80 or that block must be filled first; or it
\* has been filled, which took fewer zeros than the length has bytes.
Padding ==
    /\ given + 1 <= Len(hashed) + Len(buffer) /\ Held(Padded)
    /\ \/ /\ Len(hashed) <= given + 1
          /\ Len(buffer) <= Room \/ given + 1 - Len(hashed) > Room
       \/ /\ given + 1 < Len(hashed) /\ Len(hashed) < given + 1 + LengthLen
          /\ Len(buffer) <= Room

IInv ==
    /\ HashTypeOK
    /\ Whole(Len(hashed))
    /\ phase = "open" => Open
    /\ phase = "padding" => Padding
    /\ PaddedOnce

-----------------------------------------------------------------------------
(* Sha1: Update.                                                           *)

\* Multiples of the block length.
LEMMA WholeSum ==
    ASSUME NEW k \in Nat, NEW n \in Nat, NEW b \in Nat \ {0}
    PROVE  /\ k * b + n * b = (k + n) * b /\ k * b + b = (k + 1) * b
           /\ k * b \in Nat /\ k <= k * b
  OBVIOUS

\* A block more, or some, keep the number of bytes whole.
LEMMA WholeMore ==
    ASSUME NEW len \in Nat, Whole(len), NEW n \in Nat, NEW m \in Nat,
           m = len + n * BlockLen \/ m = len + BlockLen + n * BlockLen
    PROVE  Whole(m)
  <1>1. BlockLen \in Nat \ {0}
    BY BlockAssumption
  <1>2. PICK k \in 0..len : len = k * BlockLen
    BY DEF Whole
  <1>3. k \in Nat /\ k + n \in Nat /\ k + 1 + n \in Nat /\ k + 1 \in Nat
    BY <1>2
  <1>4. CASE m = len + n * BlockLen
    <2>1. m = (k + n) * BlockLen /\ k + n <= m
      BY <1>1, <1>2, <1>3, <1>4, WholeSum
    <2>2. QED BY <1>3, <2>1 DEF Whole
  <1>5. CASE m = len + BlockLen + n * BlockLen
    <2>1. len + BlockLen = (k + 1) * BlockLen
      BY <1>1, <1>2, <1>3, WholeSum
    <2>2. m = (k + 1 + n) * BlockLen /\ k + 1 + n <= m
      BY <1>1, <1>3, <1>5, <2>1, WholeSum
    <2>3. QED BY <1>3, <2>2 DEF Whole
  <1>6. QED BY <1>4, <1>5

\* Two pieces of g, one after the other.
LEMMA JoinFollows ==
    ASSUME NEW S, NEW t \in Seq(S), NEW u \in Seq(S), NEW l \in Nat, NEW g,
           Follows(t, l, g), Follows(u, l + Len(t), g)
    PROVE  /\ t \o u \in Seq(S) /\ Len(t \o u) = Len(t) + Len(u)
           /\ Follows(t \o u, l, g)
  <1>1. Len(t) \in Nat /\ Len(u) \in Nat
    OBVIOUS
  <1>2. PICK tu : tu = t \o u
    OBVIOUS
  <1>3. /\ tu \in Seq(S) /\ Len(tu) = Len(t) + Len(u)
        /\ \A i \in 1..Len(t) + Len(u) : tu[i] = IF i <= Len(t) THEN t[i] ELSE u[i - Len(t)]
    BY <1>2, ConcatProperties
  <1>4. ASSUME NEW i \in 1..Len(tu) PROVE tu[i] = g[l + i]
    <2>1. CASE i <= Len(t)
      <3>1. i \in 1..Len(t) /\ tu[i] = t[i]
        BY <1>1, <1>3, <2>1
      <3>2. QED BY <3>1 DEF Follows
    <2>2. CASE i > Len(t)
      <3>1. i - Len(t) \in 1..Len(u) /\ tu[i] = u[i - Len(t)] /\ l + Len(t) + (i - Len(t)) = l + i
        BY <1>1, <1>3, <2>2
      <3>2. QED BY <3>1 DEF Follows
    <2>3. QED BY <1>1, <1>3, <2>1, <2>2
  <1>5. QED BY <1>2, <1>3, <1>4 DEF Follows

\* The elements of a part.
LEMMA PartOf ==
    ASSUME NEW S, NEW t \in Seq(S), NEW m \in 1..Len(t) + 1, NEW n \in m - 1..Len(t)
    PROVE  /\ SubSeq(t, m, n) \in Seq(S) /\ Len(SubSeq(t, m, n)) = n - m + 1
           /\ \A i \in 1..n - m + 1 : SubSeq(t, m, n)[i] = t[m + i - 1]
  OBVIOUS

\* A part of a piece of g.
LEMMA PartFollows ==
    ASSUME NEW S, NEW t \in Seq(S), NEW l \in Nat, NEW g, Follows(t, l, g),
           NEW m \in 0..Len(t), NEW n \in m..Len(t)
    PROVE  /\ SubSeq(t, m + 1, n) \in Seq(S) /\ Len(SubSeq(t, m + 1, n)) = n - m
           /\ Follows(SubSeq(t, m + 1, n), l + m, g)
  <1>1. PICK u : u = SubSeq(t, m + 1, n)
    OBVIOUS
  <1>2. Len(t) \in Nat /\ m \in Nat /\ n \in Nat
    OBVIOUS
  <1>3. /\ u \in Seq(S) /\ Len(u) = n - m
        /\ \A i \in 1..n - m : u[i] = t[m + i]
    <2>1. m + 1 \in 1..Len(t) + 1 /\ n \in (m + 1) - 1..Len(t)
      BY <1>2
    <2>2. QED BY <1>1, <1>2, <2>1, PartOf
  <1>4. ASSUME NEW i \in 1..Len(u) PROVE u[i] = g[l + m + i]
    <2>1. m + i \in 1..Len(t) /\ u[i] = t[m + i] /\ l + (m + i) = l + m + i
      BY <1>2, <1>3
    <2>2. QED BY <2>1 DEF Follows
  <1>5. QED BY <1>1, <1>3, <1>4 DEF Follows

\* Update goes on with the stream: nothing is lost, doubled or out of place.
LEMMA UpdateGoesOn ==
    ASSUME HashTypeOK, Whole(Len(hashed)), NEW d \in Seq(Bytes), Update(d),
           NEW g, Held(g), Follows(d, Len(hashed) + Len(buffer), g)
    PROVE  /\ hashed' \in Seq(Bytes) /\ buffer' \in Seq(Bytes) /\ Len(buffer') < BlockLen
           /\ Whole(Len(hashed')) /\ Held(g)'
           /\ Len(hashed') + Len(buffer') = Len(hashed) + Len(buffer) + Len(d)
           /\ Len(hashed') = Len(hashed) \/ Len(hashed') >= Len(hashed) + BlockLen
  <1>1. PICK take : take = TopUp(d)
    OBVIOUS
  <1>2. PICK top : top = SubSeq(d, 1, take)
    OBVIOUS
  <1>3. PICK begun : begun = buffer \o top
    OBVIOUS
  <1>4. PICK full \in BOOLEAN : full <=> Len(begun) = BlockLen
    OBVIOUS
  <1>5. PICK first : first = IF full THEN begun ELSE << >>
    OBVIOUS
  <1>6. buffer \in Seq(Bytes) /\ hashed \in Seq(Bytes)
    BY DEF HashTypeOK
  <1>7. PICK lh \in Nat, lb \in Nat, ld \in Nat :
           lh = Len(hashed) /\ lb = Len(buffer) /\ ld = Len(d)
    BY <1>6
  <1>8. BlockLen \in Nat \ {0} /\ lb < BlockLen
    BY <1>7, BlockAssumption DEF HashTypeOK
  <1>9. PICK n \in 0..Len(d) :
           /\ take + n * BlockLen <= Len(d) /\ Len(d) < take + n * BlockLen + BlockLen
           /\ hashed' = hashed \o first \o SubSeq(d, take + 1, take + n * BlockLen)
           /\ buffer' = IF take + n * BlockLen < Len(d)
                        THEN SubSeq(d, take + n * BlockLen + 1, Len(d))
                        ELSE IF full THEN << >> ELSE begun
    BY <1>1, <1>2, <1>3, <1>4, <1>5 DEF Update
  <1>10. PICK size \in Nat : size = n * BlockLen /\ (size = 0 \/ size >= BlockLen)
    BY <1>7, <1>8
  <1>11. take + size <= ld /\ ld < take + size + BlockLen
    BY <1>7, <1>9, <1>10
  <1>12. take = IF lb = 0 THEN 0 ELSE IF ld < BlockLen - lb THEN ld ELSE BlockLen - lb
    BY <1>1, <1>7 DEF TopUp
  <1>13. /\ take \in Nat /\ take <= ld
         /\ \/ lb = 0 /\ take = 0
            \/ take = ld /\ lb + take < BlockLen
            \/ lb + take = BlockLen
    BY <1>8, <1>12
  <1>14. top \in Seq(Bytes) /\ Len(top) = take /\ Follows(top, lh + lb, g)
    <2>1. 0 \in 0..Len(d) /\ take \in 0..Len(d)
      BY <1>7, <1>13
    <2>2. top = SubSeq(d, 0 + 1, take) /\ take - 0 = take /\ lh + lb + 0 = lh + lb
      BY <1>2, <1>7, <1>13
    <2>3. Follows(d, lh + lb, g) /\ lh + lb \in Nat
      BY <1>7
    <2>4. QED BY <2>1, <2>2, <2>3, PartFollows
  <1>15. begun \in Seq(Bytes) /\ Len(begun) = lb + take /\ Follows(begun, lh, g)
    <2>1. Follows(buffer, lh, g) /\ Follows(top, lh + Len(buffer), g)
      BY <1>7, <1>14 DEF Held
    <2>2. QED BY <1>3, <1>6, <1>7, <1>14, <2>1, JoinFollows
  <1>16. /\ first \in Seq(Bytes) /\ Follows(first, lh, g)
         /\ full <=> lb + take = BlockLen
         /\ Len(first) = IF full THEN BlockLen ELSE 0
    <2>1. full <=> lb + take = BlockLen
      BY <1>4, <1>15
    <2>2. CASE full
      BY <1>5, <1>15, <2>1, <2>2
    <2>3. CASE ~full
      <3>1. first = << >> /\ Len(first) = 0 /\ first \in Seq(Bytes)
        BY <1>5, <2>3
      <3>2. Follows(first, lh, g)
        BY <3>1 DEF Follows
      <3>3. QED BY <2>1, <2>3, <3>1, <3>2
    <2>4. QED BY <2>2, <2>3
  <1>17. PICK lf \in Nat : lf = Len(first) /\ lf = IF full THEN BlockLen ELSE 0
    BY <1>8, <1>16
  <1>18. lf = lb + take \/ size = 0
    BY <1>8, <1>11, <1>13, <1>16, <1>17
  <1>19. hashed' \in Seq(Bytes) /\ Len(hashed') = lh + lf + size /\ Follows(hashed', 0, g)
    <2>1. PICK part : part = SubSeq(d, take + 1, take + size)
      OBVIOUS
    <2>2. PICK begins : begins = hashed \o first
      OBVIOUS
    <2>3. part \in Seq(Bytes) /\ Len(part) = size /\ Follows(part, lh + lb + take, g)
      <3>1. take \in 0..Len(d) /\ take + size \in take..Len(d) /\ take + size - take = size
        BY <1>7, <1>11, <1>13
      <3>2. Follows(d, lh + lb, g) /\ lh + lb \in Nat
        BY <1>7
      <3>3. QED BY <2>1, <3>1, <3>2, PartFollows
    <2>4. Follows(hashed, 0, g) /\ Follows(first, 0 + Len(hashed), g)
      BY <1>7, <1>16 DEF Held
    <2>5. begins \in Seq(Bytes) /\ Len(begins) = lh + lf /\ Follows(begins, 0, g)
      BY <1>6, <1>7, <1>16, <1>17, <2>2, <2>4, JoinFollows
    <2>6. Follows(part, 0 + Len(begins), g)
      <3>1. CASE lf = lb + take
        <4>1. 0 + Len(begins) = lh + lb + take
          BY <1>13, <2>5, <3>1
        <4>2. QED BY <2>3, <4>1
      <3>2. CASE size = 0
        <4>1. 1..Len(part) = {}
          BY <2>3, <3>2
        <4>2. QED BY <4>1 DEF Follows
      <3>3. QED BY <1>18, <3>1, <3>2
    <2>7. hashed' = begins \o part
      BY <1>9, <1>10, <2>1, <2>2
    <2>8. begins \o part \in Seq(Bytes) /\ Len(begins \o part) = Len(begins) + Len(part)
          /\ Follows(begins \o part, 0, g)
      BY <2>3, <2>5, <2>6, JoinFollows
    <2>9. QED BY <2>3, <2>5, <2>7, <2>8
  <1>20. Whole(Len(hashed'))
    <2>1. PICK lx \in Nat : lx = Len(hashed') /\ lx = lh + lf + size
      BY <1>19
    <2>2. lx = lh + n * BlockLen \/ lx = lh + BlockLen + n * BlockLen
      BY <1>8, <1>10, <1>17, <2>1
    <2>3. Whole(lh) /\ n \in Nat
      BY <1>7
    <2>4. QED BY <2>1, <2>2, <2>3, WholeMore
  <1>21. lh + lf + size = lh \/ lh + lf + size >= lh + BlockLen
    BY <1>8, <1>10, <1>17
  <1>22. PICK lx \in Nat : lx = lh + lf + size
    OBVIOUS
  <1>23. PICK lr \in Nat :
            buffer' \in Seq(Bytes) /\ lr = Len(buffer') /\ lr < BlockLen
            /\ lx + lr = lh + lb + ld /\ Follows(buffer', lx, g)
    <2>1. CASE take + size < ld
      <3>1. buffer' = SubSeq(d, (take + size) + 1, Len(d))
        BY <1>7, <1>9, <1>10, <2>1
      <3>2. take + size \in 0..Len(d) /\ Len(d) \in take + size..Len(d)
        BY <1>7, <1>11, <1>13
      <3>3. Follows(d, lh + lb, g) /\ lh + lb \in Nat
        BY <1>7
      <3>4. /\ buffer' \in Seq(Bytes) /\ Len(buffer') = Len(d) - (take + size)
            /\ Follows(buffer', lh + lb + (take + size), g)
        <4>1. PICK end, rest : end = take + size /\ rest = SubSeq(d, end + 1, ld)
          OBVIOUS
        <4>2. end \in 0..Len(d) /\ ld \in end..Len(d) /\ lh + lb \in Nat
          BY <1>7, <3>2, <4>1
        <4>3. /\ SubSeq(d, end + 1, ld) \in Seq(Bytes) /\ Len(SubSeq(d, end + 1, ld)) = ld - end
              /\ Follows(SubSeq(d, end + 1, ld), lh + lb + end, g)
          BY <3>3, <4>2, PartFollows
        <4>4. buffer' = rest
          BY <1>7, <3>1, <4>1
        <4>5. QED BY <1>7, <4>1, <4>3, <4>4
      <3>5. PICK lr \in Nat : lr = ld - (take + size)
        BY <1>13, <2>1
      <3>6. lf = lb + take
        BY <1>8, <1>13, <1>16, <1>17, <1>18, <2>1
      <3>7. lx = lh + lb + (take + size) /\ lr < BlockLen /\ lx + lr = lh + lb + ld
        BY <1>8, <1>11, <1>13, <1>22, <2>1, <3>5, <3>6
      <3>8. lr = Len(buffer') /\ Follows(buffer', lx, g)
        BY <1>7, <3>4, <3>5, <3>7
      <3>9. QED BY <3>4, <3>7, <3>8
    <2>2. CASE take + size = ld /\ full
      <3>1. buffer' = << >> /\ Len(buffer') = 0 /\ buffer' \in Seq(Bytes)
        BY <1>7, <1>9, <1>10, <2>2
      <3>2. lx = lh + lb + ld
        BY <1>8, <1>13, <1>16, <1>17, <1>22, <2>2
      <3>3. Follows(buffer', lx, g)
        BY <3>1 DEF Follows
      <3>4. QED BY <1>8, <3>1, <3>2, <3>3
    <2>3. CASE take + size = ld /\ ~full
      <3>1. buffer' = begun
        BY <1>7, <1>9, <1>10, <2>3
      <3>2. lf = 0 /\ lb + take < BlockLen
        BY <1>8, <1>13, <1>16, <1>17, <2>3
      <3>3. lx + (lb + take) = lh + lb + ld
        BY <1>8, <1>13, <1>18, <1>22, <2>3, <3>2
      <3>4. Follows(begun, lx, g)
        <4>1. CASE size = 0
          <5>1. lx = lh
            BY <1>22, <3>2, <4>1
          <5>2. QED BY <1>15, <5>1
        <4>2. CASE lb + take = 0
          <5>1. 1..Len(begun) = {}
            BY <1>15, <4>2
          <5>2. QED BY <5>1 DEF Follows
        <4>3. QED BY <1>18, <3>2, <4>1, <4>2
      <3>5. lb + take \in Nat
        BY <1>13
      <3>6. QED BY <1>15, <3>1, <3>2, <3>3, <3>4, <3>5
    <2>4. QED BY <1>11, <1>13, <2>1, <2>2, <2>3
  <1>24. QED BY <1>7, <1>19, <1>20, <1>21, <1>22, <1>23 DEF Held

-----------------------------------------------------------------------------
(* The steps.                                                              *)

\* Nothing has been given yet.
LEMMA InitIInv == HashInit => IInv
  <1>1. SUFFICES ASSUME HashInit PROVE IInv
    OBVIOUS
  <1>2. buffer = << >> /\ hashed = << >> /\ given = 0 /\ phase = "open"
    BY <1>1 DEF HashInit
  <1>3. HashTypeOK
    BY <1>2, BlockAssumption DEF HashTypeOK
  <1>4. Len(hashed) = 0 /\ Len(buffer) = 0 /\ 0 = 0 * BlockLen
    BY <1>2, BlockAssumption
  <1>5. Open
    BY <1>2, <1>4 DEF Open, Held, Follows
  <1>6. Whole(Len(hashed))
    BY <1>4 DEF Whole
  <1>7. PaddedOnce
    BY <1>2 DEF PaddedOnce
  <1>8. QED BY <1>2, <1>3, <1>5, <1>6, <1>7 DEF IInv

\* A piece of the text goes on with the text.
LEMMA GivePreserves ==
    ASSUME IInv, NEW n \in 1..MaxBytes, Give(n)
    PROVE  IInv'
  <1>1. PICK d, g : d = [i \in 1..n |-> Text(given + i)] /\ g = Texts
    OBVIOUS
  <1>2. HashTypeOK /\ Whole(Len(hashed)) /\ Open /\ given \in Nat /\ n \in Nat
    BY MaxBytesAssumption DEF IInv, Give, HashTypeOK
  <1>3. Update(d) /\ given' = given + n /\ phase' = phase /\ phase = "open"
    BY <1>1 DEF Give
  <1>4. d \in Seq(Bytes) /\ Len(d) = n
    <2>1. \A i \in 1..n : Text(given + i) \in Bytes
      BY <1>2 DEF Bytes
    <2>2. QED BY <1>1, <1>2, <2>1
  <1>5. Held(g) /\ Len(hashed) + Len(buffer) = given
    BY <1>1, <1>2 DEF Open
  <1>6. Follows(d, Len(hashed) + Len(buffer), g)
    <2>1. ASSUME NEW i \in 1..n PROVE d[i] = g[given + i]
      BY <1>1, <1>2 DEF Texts
    <2>2. QED BY <1>4, <1>5, <2>1 DEF Follows
  <1>7. /\ hashed' \in Seq(Bytes) /\ buffer' \in Seq(Bytes) /\ Len(buffer') < BlockLen
        /\ Whole(Len(hashed')) /\ Held(g)'
        /\ Len(hashed') + Len(buffer') = Len(hashed) + Len(buffer) + Len(d)
    BY <1>2, <1>3, <1>4, <1>5, <1>6, UpdateGoesOn
  <1>8. HashTypeOK'
    BY <1>2, <1>3, <1>7 DEF HashTypeOK
  <1>9. Len(hashed') + Len(buffer') = given'
    BY <1>3, <1>4, <1>5, <1>7
  <1>10. Open'
    BY <1>1, <1>7, <1>9 DEF Open, Texts
  <1>11. Whole(Len(hashed))'
    BY <1>7 DEF Whole
  <1>12. PaddedOnce' /\ phase' = "open"
    BY <1>3 DEF PaddedOnce
  <1>13. QED BY <1>8, <1>10, <1>11, <1>12 DEF IInv


\* A byte more fills the block, or there is room in it still.
LEMMA OneMore ==
    ASSUME NEW h \in Nat, NEW b \in Nat, NEW hn \in Nat, NEW bn \in Nat, NEW len \in Nat,
           hn + bn = h + b + 1, b < len, hn = h \/ hn >= h + len
    PROVE  (hn = h /\ bn = b + 1) \/ (hn = h + len /\ bn = 0 /\ b + 1 = len)
  OBVIOUS

\* Update with one byte, in numbers.
LEMMA ByteGoesOn ==
    ASSUME HashTypeOK, Whole(Len(hashed)), NEW x \in Bytes, Update(<<x>>),
           NEW g, Held(g), NEW h \in Nat, NEW b \in Nat, h = Len(hashed), b = Len(buffer),
           g[h + b + 1] = x
    PROVE  /\ hashed' \in Seq(Bytes) /\ buffer' \in Seq(Bytes) /\ Len(buffer') < BlockLen
           /\ Whole(Len(hashed')) /\ Held(g)'
           /\ \/ Len(hashed') = h /\ Len(buffer') = b + 1
              \/ Len(hashed') = h + BlockLen /\ Len(buffer') = 0 /\ b + 1 = BlockLen
  <1>1. PICK d : d = <<x>>
    OBVIOUS
  <1>2. d \in Seq(Bytes) /\ Len(d) = 1 /\ d[1] = x
    BY <1>1
  <1>3. Follows(d, Len(hashed) + Len(buffer), g)
    BY <1>2 DEF Follows
  <1>4. /\ hashed' \in Seq(Bytes) /\ buffer' \in Seq(Bytes) /\ Len(buffer') < BlockLen
        /\ Whole(Len(hashed')) /\ Held(g)'
        /\ Len(hashed') + Len(buffer') = Len(hashed) + Len(buffer) + Len(d)
        /\ Len(hashed') = Len(hashed) \/ Len(hashed') >= Len(hashed) + BlockLen
    BY <1>1, <1>2, <1>3, UpdateGoesOn
  <1>5. PICK hn \in Nat, bn \in Nat : hn = Len(hashed') /\ bn = Len(buffer')
    BY <1>4
  <1>6. /\ hn + bn = h + b + 1 /\ bn < BlockLen /\ b < BlockLen /\ BlockLen \in Nat
        /\ hn = h \/ hn >= h + BlockLen
    BY <1>2, <1>4, <1>5, BlockAssumption DEF HashTypeOK
  <1>7. (hn = h /\ bn = b + 1) \/ (hn = h + BlockLen /\ bn = 0 /\ b + 1 = BlockLen)
    BY <1>6, OneMore
  <1>8. QED BY <1>4, <1>5, <1>7

\* 0x80 follows the text.
LEMMA FinalBeginsPreserves ==
    ASSUME IInv, FinalBegins
    PROVE  IInv'
  <1>1. PICK g : g = Padded
    OBVIOUS
  <1>2. HashTypeOK /\ Whole(Len(hashed)) /\ Open /\ given \in Nat
    BY DEF IInv, FinalBegins, HashTypeOK
  <1>3. Update(<<Pad>>) /\ given' = given /\ phase' = "padding"
    BY DEF FinalBegins
  <1>4. PICK h \in Nat, b \in Nat : h = Len(hashed) /\ b = Len(buffer) /\ h + b = given
    BY <1>2 DEF HashTypeOK, Open
  <1>5. Held(g)
    <2>1. \A i \in 1..given : g[i] = Texts[i]
      BY <1>1, <1>2 DEF Padded, Texts
    <2>2. ASSUME NEW i \in 1..Len(hashed) PROVE hashed[i] = g[0 + i]
      <3>1. hashed[i] = Texts[0 + i] /\ 0 + i \in 1..given
        BY <1>2, <1>4 DEF Open, Held, Follows
      <3>2. QED BY <2>1, <3>1
    <2>3. ASSUME NEW i \in 1..Len(buffer) PROVE buffer[i] = g[Len(hashed) + i]
      <3>1. buffer[i] = Texts[Len(hashed) + i] /\ Len(hashed) + i \in 1..given
        BY <1>2, <1>4 DEF Open, Held, Follows
      <3>2. QED BY <2>1, <3>1
    <2>4. QED BY <2>2, <2>3 DEF Held, Follows
  <1>6. g[h + b + 1] = Pad /\ Pad \in Bytes
    BY <1>1, <1>2, <1>4 DEF Padded, Bytes
  <1>7. /\ hashed' \in Seq(Bytes) /\ buffer' \in Seq(Bytes) /\ Len(buffer') < BlockLen
        /\ Whole(Len(hashed')) /\ Held(g)'
        /\ \/ Len(hashed') = h /\ Len(buffer') = b + 1
           \/ Len(hashed') = h + BlockLen /\ Len(buffer') = 0 /\ b + 1 = BlockLen
    BY <1>2, <1>3, <1>4, <1>5, <1>6, ByteGoesOn
  <1>8. Padding'
    <2>1. /\ given' + 1 <= Len(hashed') + Len(buffer') /\ Len(hashed') <= given' + 1
          /\ Len(buffer') <= Room \/ given' + 1 - Len(hashed') > Room
      BY <1>2, <1>3, <1>4, <1>7, BlockAssumption DEF Room
    <2>2. Padded' = g
      BY <1>1, <1>3 DEF Padded
    <2>3. QED BY <1>7, <2>1, <2>2 DEF Padding, Held, Room
  <1>9. HashTypeOK' /\ Whole(Len(hashed))'
    BY <1>2, <1>3, <1>7 DEF HashTypeOK, Whole
  <1>10. PaddedOnce'
    BY <1>3 DEF PaddedOnce
  <1>11. QED BY <1>3, <1>8, <1>9, <1>10 DEF IInv

\* A zero follows, and does not pass the room for the length a second time.
LEMMA PadZeroPreserves ==
    ASSUME IInv, PadZero
    PROVE  IInv'
  <1>1. PICK g : g = Padded
    OBVIOUS
  <1>2. HashTypeOK /\ Whole(Len(hashed)) /\ Padding /\ given \in Nat
    BY DEF IInv, PadZero, HashTypeOK
  <1>3. Update(<<Zero>>) /\ given' = given /\ phase' = "padding"
    BY DEF PadZero
  <1>4. PICK h \in Nat, b \in Nat :
           h = Len(hashed) /\ b = Len(buffer) /\ given + 1 <= h + b /\ b # Room
    BY <1>2 DEF HashTypeOK, Padding, PadZero, RoomForLength, Room
  <1>5. Held(g)
    BY <1>1, <1>2 DEF Padding
  <1>6. g[h + b + 1] = Zero /\ Zero \in Bytes
    BY <1>1, <1>2, <1>4 DEF Padded, Bytes
  <1>7. /\ hashed' \in Seq(Bytes) /\ buffer' \in Seq(Bytes) /\ Len(buffer') < BlockLen
        /\ Whole(Len(hashed')) /\ Held(g)'
        /\ \/ Len(hashed') = h /\ Len(buffer') = b + 1
           \/ Len(hashed') = h + BlockLen /\ Len(buffer') = 0 /\ b + 1 = BlockLen
    BY <1>2, <1>3, <1>4, <1>5, <1>6, ByteGoesOn, SMTT(30)
  <1>8. Padding'
    <2>1. \/ h <= given + 1 /\ (b <= Room \/ given + 1 - h > Room)
          \/ given + 1 < h /\ h < given + 1 + LengthLen /\ b <= Room
      BY <1>2, <1>4 DEF Padding
    <2>2. PICK hn \in Nat, bn \in Nat : hn = Len(hashed') /\ bn = Len(buffer')
      BY <1>7
    <2>3. \/ hn = h /\ bn = b + 1
          \/ hn = h + BlockLen /\ bn = 0 /\ b + 1 = BlockLen
      BY <1>7, <2>2
    <2>4. /\ given + 1 <= hn + bn
          /\ \/ hn <= given + 1 /\ (bn <= Room \/ given + 1 - hn > Room)
             \/ given + 1 < hn /\ hn < given + 1 + LengthLen /\ bn <= Room
      BY <1>2, <1>4, <2>1, <2>3, BlockAssumption DEF Room
    <2>5. Padded' = g
      BY <1>1, <1>3 DEF Padded
    <2>6. QED BY <1>3, <1>7, <2>2, <2>4, <2>5 DEF Padding, Held, Room
  <1>9. HashTypeOK' /\ Whole(Len(hashed))'
    BY <1>2, <1>3, <1>7 DEF HashTypeOK, Whole
  <1>10. PaddedOnce'
    BY <1>3 DEF PaddedOnce
  <1>11. QED BY <1>3, <1>8, <1>9, <1>10 DEF IInv


\* The length fills the last block.
LEMMA FinalEndsPreserves ==
    ASSUME IInv, FinalEnds
    PROVE  IInv'
  <1>1. PICK lens : lens = [i \in 1..LengthLen |-> LengthByte(i)]
    OBVIOUS
  <1>2. PICK begun : begun = hashed \o buffer
    OBVIOUS
  <1>3. HashTypeOK /\ Whole(Len(hashed)) /\ Padding /\ given \in Nat
    BY DEF IInv, FinalEnds, HashTypeOK
  <1>4. hashed' = begun \o lens /\ buffer' = << >> /\ phase' = "done" /\ given' = given
    BY <1>1, <1>2 DEF FinalEnds
  <1>5. hashed \in Seq(Bytes) /\ buffer \in Seq(Bytes)
    BY <1>3 DEF HashTypeOK
  <1>6. PICK h \in Nat, b \in Nat, len \in Nat :
           h = Len(hashed) /\ b = Len(buffer) /\ b = Room /\ len = h + BlockLen
    BY <1>5, BlockAssumption DEF FinalEnds, RoomForLength, Room
  <1>7. given + 1 <= h + b /\ h < given + 1 + LengthLen /\ b + LengthLen = BlockLen
    BY <1>3, <1>6, BlockAssumption DEF Padding, Room
  <1>8. begun \in Seq(Bytes) /\ Len(begun) = h + b
        /\ \A i \in 1..h + b : begun[i] = Padded[i]
    <2>1. Follows(hashed, 0, Padded) /\ Follows(buffer, 0 + Len(hashed), Padded)
      BY <1>3, <1>6 DEF Padding, Held
    <2>2. begun \in Seq(Bytes) /\ Len(begun) = Len(hashed) + Len(buffer)
          /\ Follows(begun, 0, Padded)
      BY <1>2, <1>5, <2>1, JoinFollows
    <2>3. \A i \in 1..Len(begun) : begun[i] = Padded[0 + i]
      BY <2>2 DEF Follows
    <2>4. Len(begun) = h + b
      BY <1>6, <2>2
    <2>5. \A i \in 1..h + b : 0 + i = i
      OBVIOUS
    <2>6. QED BY <2>2, <2>3, <2>4, <2>5
  <1>9. lens \in Seq(Bytes) /\ Len(lens) = LengthLen
        /\ \A i \in 1..LengthLen : lens[i] = LengthByte(i)
    <2>1. \A i \in 1..LengthLen : LengthByte(i) \in Bytes
      BY BlockAssumption DEF Bytes
    <2>2. QED BY <1>1, <2>1, BlockAssumption
  <1>10. /\ hashed' \in Seq(Bytes) /\ Len(hashed') = len
         /\ \A i \in 1..len : hashed'[i] =
               IF i <= h + b THEN Padded[i] ELSE LengthByte(i - (len - LengthLen))
    <2>1. len = h + b + LengthLen /\ len - LengthLen = h + b
      BY <1>6, <1>7, BlockAssumption
    <2>2. /\ begun \o lens \in Seq(Bytes) /\ Len(begun \o lens) = h + b + LengthLen
          /\ \A i \in 1..h + b + LengthLen :
                (begun \o lens)[i] = IF i <= h + b THEN begun[i] ELSE lens[i - (h + b)]
      <3>1. begun \in Seq(Bytes) /\ lens \in Seq(Bytes)
        BY <1>8, <1>9
      <3>2. /\ begun \o lens \in Seq(Bytes) /\ Len(begun \o lens) = Len(begun) + Len(lens)
            /\ \A i \in 1..Len(begun) + Len(lens) :
                  (begun \o lens)[i] = IF i <= Len(begun) THEN begun[i] ELSE lens[i - Len(begun)]
        BY <3>1, ConcatProperties
      <3>3. Len(begun) = h + b /\ Len(lens) = LengthLen
        BY <1>8, <1>9
      <3>4. QED BY <3>2, <3>3
    <2>3. \A i \in 1..h + b + LengthLen : i > h + b => i - (h + b) \in 1..LengthLen
      BY BlockAssumption
    <2>4. \A i \in 1..h + b + LengthLen : i <= h + b => i \in 1..h + b
      BY BlockAssumption
    <2>5. QED BY <1>4, <1>8, <1>9, <2>1, <2>2, <2>3, <2>4
  <1>11. Whole(len)
    <2>1. len = h + BlockLen + 0 * BlockLen /\ Whole(h)
      BY <1>3, <1>6, BlockAssumption
    <2>2. QED BY <2>1, WholeMore
  <1>12. HashTypeOK' /\ Whole(Len(hashed))'
    <2>1. Len(buffer') = 0 /\ buffer' \in Seq(Bytes)
      BY <1>4
    <2>2. QED BY <1>3, <1>4, <1>10, <1>11, <2>1, BlockAssumption DEF HashTypeOK, Whole
  <1>13. PaddedOnce'
    <2>1. \E k \in 0..len : len = k * BlockLen
      BY <1>11 DEF Whole
    <2>2. given + 1 + LengthLen <= len /\ len < given + 1 + LengthLen + BlockLen
          /\ h + b = len - LengthLen
      BY <1>3, <1>6, <1>7, BlockAssumption
    <2>3. ASSUME NEW i \in 1..len
          PROVE  hashed'[i] = IF i <= given THEN Text(i)
                              ELSE IF i = given + 1 THEN Pad
                              ELSE IF i <= len - LengthLen THEN Zero
                              ELSE LengthByte(i - (len - LengthLen))
      <3>1. Padded[i] = IF i <= given THEN Text(i) ELSE IF i = given + 1 THEN Pad ELSE Zero
        BY DEF Padded
      <3>2. i <= given + 1 => i <= h + b
        BY <1>3, <1>7
      <3>3. hashed'[i] = IF i <= h + b THEN Padded[i] ELSE LengthByte(i - (len - LengthLen))
        BY <1>10
      <3>4. CASE i <= h + b
        BY <2>2, <3>1, <3>3, <3>4
      <3>5. CASE ~(i <= h + b)
        <4>1. ~(i <= given) /\ i # given + 1 /\ ~(i <= len - LengthLen)
          BY <1>3, <2>2, <3>2, <3>5
        <4>2. QED BY <3>3, <3>5, <4>1
      <3>6. QED BY <3>4, <3>5
    <2>4. QED BY <1>4, <1>10, <2>1, <2>2, <2>3 DEF PaddedOnce
  <1>14. QED BY <1>4, <1>12, <1>13 DEF IInv

\* Every step.
LEMMA NextIInv == IInv /\ [HashNext]_hashVars => IInv'
  <1>1. SUFFICES ASSUME IInv, [HashNext]_hashVars PROVE IInv'
    OBVIOUS
  <1>2. ASSUME NEW n \in 1..MaxBytes, Give(n) PROVE IInv'
    BY <1>1, <1>2, GivePreserves
  <1>3. CASE FinalBegins
    BY <1>1, <1>3, FinalBeginsPreserves
  <1>4. CASE PadZero
    BY <1>1, <1>4, PadZeroPreserves
  <1>5. CASE FinalEnds
    BY <1>1, <1>5, FinalEndsPreserves
  <1>6. CASE UNCHANGED hashVars
    BY <1>1, <1>6, ZenonT(40)
       DEF hashVars, IInv, HashTypeOK, Whole, Open, Padding, Held, Follows, Texts, Padded, Room,
           PaddedOnce
  <1>7. QED BY <1>1, <1>2, <1>3, <1>4, <1>5, <1>6 DEF HashNext

\* The inductive invariant of Sha1.
THEOREM HashIInv == HashSpec => []IInv
  BY InitIInv, NextIInv, PTL DEF HashSpec

\* Update never fills buffer_ beyond a block, whatever pieces it is given (sha1.cpp,
\* Update: buffer_ is an array of BlockLen bytes).
THEOREM HashBuffer == HashSpec => []HashTypeOK
  <1>1. IInv => HashTypeOK
    BY DEF IInv
  <1>2. QED BY <1>1, HashIInv, PTL

\* For every text and every way to cut it into pieces, what ProcessBlock is given is the
\* text padded as SHA-1 wants it, with the length at the end of the first block that has
\* room for it (sha1.cpp, Update and Final).
THEOREM HashPaddedOnce == HashSpec => []PaddedOnce
  <1>1. IInv => PaddedOnce
    BY DEF IInv
  <1>2. QED BY <1>1, HashIInv, PTL

-----------------------------------------------------------------------------
(* Numbers and their bytes.                                                *)

\* What the recursions in Number and in BytesOf ask of a function.
NumberSteps(n, s, k) == n = [i \in 0..k |-> IF i = 0 THEN 0 ELSE n[i - 1] * 256 + s[i]]
ShiftSteps(g, n, k) == g = [i \in 0..k |-> IF i = 0 THEN n ELSE g[i - 1] \div 256]
\* What of the solution of the second is in BytesOf.
ShiftedBytes(g, n, size) ==
    /\ g[0] = n
    /\ \A i \in 1..size : g[i] = g[i - 1] \div 256
    /\ BytesOf(n, size) = [i \in 1..size |-> g[size - i] % 256]

\* The recursion of Number has a solution for as many bytes as one likes.
LEMMA NumberExists ==
    ASSUME NEW s
    PROVE  \A k \in Nat : \E g : NumberSteps(g, s, k)
  <1> DEFINE T == {k \in Nat : \E g : NumberSteps(g, s, k)}
  <1>1. 0 \in T
    <2> DEFINE g == [i \in 0..0 |-> 0]
    <2>1. NumberSteps(g, s, 0)
      BY DEF NumberSteps
    <2> QED BY <2>1
  <1>2. ASSUME NEW k \in Nat, k \in T PROVE k + 1 \in T
    <2>1. PICK g : NumberSteps(g, s, k)
      BY <1>2
    <2> DEFINE f == [i \in 0..(k + 1) |-> IF i = k + 1 THEN g[k] * 256 + s[i] ELSE g[i]]
    <2>2. ASSUME NEW i \in 0..(k + 1)
          PROVE  f[i] = IF i = 0 THEN 0 ELSE f[i - 1] * 256 + s[i]
      <3>1. CASE i = k + 1
        <4>1. i # 0 /\ i - 1 = k /\ f[i - 1] = g[k]
          BY <3>1
        <4> QED BY <3>1, <4>1
      <3>2. CASE i # k + 1
        <4>1. i \in 0..k /\ f[i] = g[i]
          BY <3>2
        <4>2. g[i] = IF i = 0 THEN 0 ELSE g[i - 1] * 256 + s[i]
          BY <2>1, <4>1 DEF NumberSteps
        <4>3. i # 0 => f[i - 1] = g[i - 1]
          BY <4>1
        <4> QED BY <4>1, <4>2, <4>3
      <3> QED BY <3>1, <3>2
    <2>3. NumberSteps(f, s, k + 1)
      <3>1. f = [i \in 0..(k + 1) |-> f[i]]
        OBVIOUS
      <3> HIDE DEF f
      <3> QED BY <2>2, <3>1 DEF NumberSteps
    <2> QED BY <2>3
  <1>3. Nat \subseteq T
    <2> HIDE DEF T
    <2> QED BY <1>1, <1>2, NatSetInduction
  <1> QED BY <1>3

\* Two bytes, and four.
LEMMA Numbers ==
    ASSUME NEW s \in Seq(Nat)
    PROVE  /\ Len(s) = 2 => Number(s) = s[1] * 256 + s[2]
           /\ Len(s) = 4 => Number(s) = ((s[1] * 256 + s[2]) * 256 + s[3]) * 256 + s[4]
  <1>1. PICK g : NumberSteps(g, s, Len(s))
    <2>1. Len(s) \in Nat
      OBVIOUS
    <2> QED BY <2>1, NumberExists
  <1> DEFINE n == CHOOSE n : n = [i \in 0..Len(s) |-> IF i = 0 THEN 0 ELSE n[i - 1] * 256 + s[i]]
  <1>2. n = [i \in 0..Len(s) |-> IF i = 0 THEN 0 ELSE n[i - 1] * 256 + s[i]]
    BY <1>1, ZenonT(40) DEF NumberSteps
  <1>3. Number(s) = n[Len(s)]
    BY DEF Number
  <1> HIDE DEF n
  <1>4. n[0] = 0
    BY <1>2
  <1>5. ASSUME Len(s) >= 2
        PROVE  n[1] = s[1] /\ n[2] = s[1] * 256 + s[2]
    <2>1. s[1] \in Nat
      BY <1>5
    <2>2. n[1] = n[0] * 256 + s[1] /\ n[2] = n[1] * 256 + s[2]
      BY <1>2, <1>5
    <2> QED BY <1>4, <2>1, <2>2
  <1>6. ASSUME Len(s) = 4
        PROVE  n[4] = ((s[1] * 256 + s[2]) * 256 + s[3]) * 256 + s[4]
    <2>1. n[3] = n[2] * 256 + s[3] /\ n[4] = n[3] * 256 + s[4]
      BY <1>2, <1>6
    <2> QED BY <1>5, <1>6, <2>1
  <1>7. CASE Len(s) = 2
    BY <1>3, <1>5, <1>7
  <1>8. CASE Len(s) = 4
    BY <1>3, <1>6, <1>8
  <1> QED BY <1>7, <1>8

\* The recursion of BytesOf has a solution, too.
LEMMA ShiftsExist ==
    ASSUME NEW n
    PROVE  \A k \in Nat : \E g : ShiftSteps(g, n, k)
  <1> DEFINE T == {k \in Nat : \E g : ShiftSteps(g, n, k)}
  <1>1. 0 \in T
    <2> DEFINE g == [i \in 0..0 |-> n]
    <2>1. ShiftSteps(g, n, 0)
      BY DEF ShiftSteps
    <2> QED BY <2>1
  <1>2. ASSUME NEW k \in Nat, k \in T PROVE k + 1 \in T
    <2>1. PICK g : ShiftSteps(g, n, k)
      BY <1>2
    <2> DEFINE f == [i \in 0..(k + 1) |-> IF i = k + 1 THEN g[k] \div 256 ELSE g[i]]
    <2>2. ASSUME NEW i \in 0..(k + 1)
          PROVE  f[i] = IF i = 0 THEN n ELSE f[i - 1] \div 256
      <3>1. CASE i = k + 1
        <4>1. i # 0 /\ i - 1 = k /\ f[i - 1] = g[k]
          BY <3>1
        <4> QED BY <3>1, <4>1
      <3>2. CASE i # k + 1
        <4>1. i \in 0..k /\ f[i] = g[i]
          BY <3>2
        <4>2. g[i] = IF i = 0 THEN n ELSE g[i - 1] \div 256
          BY <2>1, <4>1 DEF ShiftSteps
        <4>3. i # 0 => f[i - 1] = g[i - 1]
          BY <4>1
        <4> QED BY <4>1, <4>2, <4>3
      <3> QED BY <3>1, <3>2
    <2>3. ShiftSteps(f, n, k + 1)
      <3>1. f = [i \in 0..(k + 1) |-> f[i]]
        OBVIOUS
      <3> HIDE DEF f
      <3> QED BY <2>2, <3>1 DEF ShiftSteps
    <2> QED BY <2>3
  <1>3. Nat \subseteq T
    <2> HIDE DEF T
    <2> QED BY <1>1, <1>2, NatSetInduction
  <1> QED BY <1>3

\* The bytes of a number are what is left of it, shift by shift.
LEMMA Shifts ==
    ASSUME NEW n \in Nat, NEW size \in Nat
    PROVE  \E g : ShiftedBytes(g, n, size)
  <1>1. PICK f : ShiftSteps(f, n, size)
    BY ShiftsExist
  <1> DEFINE g == CHOOSE g : g = [i \in 0..size |-> IF i = 0 THEN n ELSE g[i - 1] \div 256]
  <1>2. g = [i \in 0..size |-> IF i = 0 THEN n ELSE g[i - 1] \div 256]
    BY <1>1, ZenonT(40) DEF ShiftSteps
  <1>3. BytesOf(n, size) = [i \in 1..size |-> g[size - i] % 256]
    BY DEF BytesOf
  <1> HIDE DEF g
  <1>4. g[0] = n /\ \A i \in 1..size : g[i] = g[i - 1] \div 256
    BY <1>2
  <1> QED BY <1>3, <1>4 DEF ShiftedBytes

Octets == 0..255

\* A function on 1..k is a sequence of length k.
LEMMA Sequences ==
    ASSUME NEW S, NEW k \in Nat, NEW b \in [1..k -> S]
    PROVE  b \in Seq(S) /\ Len(b) = k
  <1>1. b \in Seq(S)
    BY SeqDef
  <1>2. DOMAIN b = 1..k /\ DOMAIN b = 1..Len(b) /\ Len(b) \in Nat
    BY <1>1, LenProperties
  <1> QED BY <1>1, <1>2

\* Octets are numbers.
LEMMA OctetsNat == ASSUME NEW s \in Seq(Octets) PROVE s \in Seq(Nat)
  <1>1. Octets \subseteq Nat
    BY DEF Octets
  <1> QED BY <1>1, SeqMonotonic

\* One sequence after another.
LEMMA Concat ==
    ASSUME NEW S, NEW s \in Seq(S), NEW t \in Seq(S), NEW u, u = s \o t
    PROVE  /\ u \in Seq(S) /\ Len(u) = Len(s) + Len(t)
           /\ \A i \in 1..Len(s) : u[i] = s[i]
           /\ \A i \in 1..Len(t) : u[Len(s) + i] = t[i]
  OBVIOUS

\* A part of a sequence.
LEMMA Slice ==
    ASSUME NEW s \in Seq(Nat), NEW m \in Nat, NEW n \in Nat,
           1 <= m, m <= n + 1, n <= Len(s), NEW t, t = SubSeq(s, m, n)
    PROVE  /\ t \in Seq(Nat) /\ Len(t) = n - m + 1
           /\ \A i \in 1..(n - m + 1) : t[i] = s[m - 1 + i]
  <1>1. \A i \in m..n : s[i] \in Nat
    BY ElementOfSeq
  <1>2. /\ t \in Seq(Nat) /\ Len(t) = IF m <= n THEN n - m + 1 ELSE 0
        /\ \A i \in 1..(n - m + 1) : t[i] = s[m + i - 1]
    BY <1>1, SubSeqProperties
  <1> QED BY <1>2

\* Four elements are a sequence of length 4.
LEMMA FourElements ==
    ASSUME NEW S, NEW x1 \in S, NEW x2 \in S, NEW x3 \in S, NEW x4 \in S
    PROVE  /\ <<x1, x2, x3, x4>> \in Seq(S) /\ Len(<<x1, x2, x3, x4>>) = 4
           /\ <<x1, x2, x3, x4>>[1] = x1 /\ <<x1, x2, x3, x4>>[2] = x2
           /\ <<x1, x2, x3, x4>>[3] = x3 /\ <<x1, x2, x3, x4>>[4] = x4
  OBVIOUS

\* A number of 16 bits and its two bytes.
LEMMA TwoBytes ==
    ASSUME NEW n \in Nat, n < 65536
    PROVE  /\ BytesOf(n, 2) \in Seq(Octets) /\ Len(BytesOf(n, 2)) = 2
           /\ BytesOf(n, 2)[1] * 256 + BytesOf(n, 2)[2] = n
  <1>1a. PICK g : ShiftedBytes(g, n, 2)
    BY Shifts
  <1>1. /\ g[0] = n
        /\ \A i \in 1..2 : g[i] = g[i - 1] \div 256
        /\ BytesOf(n, 2) = [i \in 1..2 |-> g[2 - i] % 256]
    BY <1>1a DEF ShiftedBytes
  <1>2. PICK q \in Nat : q = n \div 256 /\ q < 256
    OBVIOUS
  <1>3. g[0] = n /\ g[1] = q
    BY <1>1, <1>2
  <1>4. PICK b : b = BytesOf(n, 2) /\ b = [i \in 1..2 |-> g[2 - i] % 256]
    BY <1>1
  <1>5. b[1] = q % 256 /\ b[2] = n % 256
    BY <1>3, <1>4
  <1>6. b[1] \in Octets /\ b[2] \in Octets /\ b[1] * 256 + b[2] = n
    BY <1>2, <1>5 DEF Octets
  <1>7. b \in [1..2 -> Octets]
    BY <1>4, <1>6
  <1>8. b \in Seq(Octets) /\ Len(b) = 2
    <2>1. PICK k \in Nat : k = 2
      OBVIOUS
    <2>2. b \in [1..k -> Octets]
      BY <1>7, <2>1
    <2>3. b \in Seq(Octets) /\ Len(b) = k
      BY <2>2, Sequences
    <2> QED BY <2>1, <2>3
  <1> QED BY <1>4, <1>6, <1>8

\* A number of 32 bits and its four bytes, and eight of them.
LEMMA FourBytes ==
    ASSUME NEW n \in Nat, Is32Bits(n)
    PROVE  LET b == BytesOf(n, 4)
           IN  /\ b \in Seq(Octets) /\ Len(b) = 4
               /\ ((b[1] * 256 + b[2]) * 256 + b[3]) * 256 + b[4] = n
               /\ BytesOf(n, 8) = <<0, 0, 0, 0>> \o b
  <1>1. PICK q1 \in Nat, q2 \in Nat, q3 \in Nat :
            /\ q1 = n \div 256 /\ q2 = q1 \div 256 /\ q3 = q2 \div 256 /\ q3 < 256
    <2>1. PICK q1 \in Nat : q1 = n \div 256
      OBVIOUS
    <2>2. PICK q2 \in Nat : q2 = q1 \div 256
      OBVIOUS
    <2>3. q2 = n \div 65536
      BY <2>1, <2>2
    <2>4. PICK q3 \in Nat : q3 = q2 \div 256
      OBVIOUS
    <2>5. q3 < 256
      BY <2>3, <2>4 DEF Is32Bits
    <2> QED BY <2>1, <2>2, <2>4, <2>5
  <1>2a. PICK g : ShiftedBytes(g, n, 4)
    BY Shifts
  <1>2. /\ g[0] = n
        /\ \A i \in 1..4 : g[i] = g[i - 1] \div 256
        /\ BytesOf(n, 4) = [i \in 1..4 |-> g[4 - i] % 256]
    BY <1>2a DEF ShiftedBytes
  <1>3. g[0] = n /\ g[1] = q1 /\ g[2] = q2 /\ g[3] = q3
    BY <1>1, <1>2
  <1>4. PICK b : b = BytesOf(n, 4) /\ b = [i \in 1..4 |-> g[4 - i] % 256]
    BY <1>2
  <1>5. b[1] = q3 % 256 /\ b[2] = q2 % 256 /\ b[3] = q1 % 256 /\ b[4] = n % 256
    BY <1>3, <1>4
  <1>6. b[1] \in Octets /\ b[2] \in Octets /\ b[3] \in Octets /\ b[4] \in Octets
    BY <1>1, <1>5 DEF Octets
  <1>7. ((b[1] * 256 + b[2]) * 256 + b[3]) * 256 + b[4] = n
    <2>1. b[1] = q3 /\ q3 * 256 + b[2] = q2 /\ q2 * 256 + b[3] = q1 /\ q1 * 256 + b[4] = n
      BY <1>1, <1>5
    <2> QED BY <1>1, <2>1
  <1>8. b \in [1..4 -> Octets]
    BY <1>4, <1>6
  <1>9. b \in Seq(Octets) /\ Len(b) = 4
    BY <1>8, Sequences
  <1>10. BytesOf(n, 8) = <<0, 0, 0, 0>> \o b
    <2>1a. PICK f : ShiftedBytes(f, n, 8)
      BY Shifts
    <2>1. /\ f[0] = n
          /\ \A i \in 1..8 : f[i] = f[i - 1] \div 256
          /\ BytesOf(n, 8) = [i \in 1..8 |-> f[8 - i] % 256]
      BY <2>1a DEF ShiftedBytes
    <2>2. f[0] = n /\ f[1] = q1 /\ f[2] = q2 /\ f[3] = q3
      BY <1>1, <2>1
    <2>3. f[4] = 0
      BY <1>1, <2>1, <2>2
    <2>4. f[5] = 0 /\ f[6] = 0 /\ f[7] = 0
      BY <2>1, <2>3
    <2>5. PICK c : c = BytesOf(n, 8) /\ c = [i \in 1..8 |-> f[8 - i] % 256]
      BY <2>1
    <2>6. /\ c[1] = 0 /\ c[2] = 0 /\ c[3] = 0 /\ c[4] = 0
          /\ c[5] = b[1] /\ c[6] = b[2] /\ c[7] = b[3] /\ c[8] = b[4]
      BY <1>5, <2>2, <2>3, <2>4, <2>5
    <2>7. \A i \in 1..8 : c[i] \in Octets
      BY <1>6, <2>6 DEF Octets
    <2>8. c \in [1..8 -> Octets]
      BY <2>5, <2>7
    <2>9. c \in Seq(Octets) /\ Len(c) = 8
      BY <2>8, Sequences
    <2>10. PICK z : z = <<0, 0, 0, 0>>
      OBVIOUS
    <2>10a. PICK d : d = z \o b
      OBVIOUS
    <2>11. /\ z \in Seq(Octets) /\ Len(z) = 4
           /\ z[1] = 0 /\ z[2] = 0 /\ z[3] = 0 /\ z[4] = 0
      <3>1. 0 \in Octets
        BY DEF Octets
      <3> QED BY <2>10, <3>1, FourElements
    <2>12. /\ d \in Seq(Octets) /\ Len(d) = 8
           /\ d[1] = z[1] /\ d[2] = z[2] /\ d[3] = z[3] /\ d[4] = z[4]
           /\ d[5] = b[1] /\ d[6] = b[2] /\ d[7] = b[3] /\ d[8] = b[4]
      <3>1. /\ d \in Seq(Octets) /\ Len(d) = Len(z) + Len(b)
            /\ \A i \in 1..Len(z) : d[i] = z[i]
            /\ \A i \in 1..Len(b) : d[Len(z) + i] = b[i]
        <4>1. b \in Seq(Octets) /\ z \in Seq(Octets)
          BY <1>9, <2>11
        <4> QED BY <2>10a, <4>1, Concat
      <3>2. \A i \in 1..4 : d[i] = z[i] /\ d[4 + i] = b[i]
        BY <1>9, <2>11, <3>1
      <3> QED BY <1>9, <2>11, <3>1, <3>2
    <2>13. /\ d[1] = 0 /\ d[2] = 0 /\ d[3] = 0 /\ d[4] = 0
           /\ d[5] = b[1] /\ d[6] = b[2] /\ d[7] = b[3] /\ d[8] = b[4]
      BY <2>11, <2>12
    <2>14. \A i \in 1..8 : c[i] = d[i]
      BY <2>6, <2>13
    <2>15. c = d
      BY <2>9, <2>12, <2>14, SeqEqual
    <2> QED BY <2>5, <2>10, <2>10a, <2>15
  <1> QED BY <1>4, <1>7, <1>9, <1>10

-----------------------------------------------------------------------------
(* The header of a frame.                                                  *)

FirstByte(f) == (IF f.fin THEN 128 ELSE 0) + f.rsv * 16 + f.op
MarkOf(f) == IF f.mask = << >> THEN 0 ELSE 128
ExtBytes(f) == IF f.form = 7 THEN 0 ELSE IF f.form = 16 THEN 2 ELSE 8
LengthField(f) ==
    CASE f.form = 7  -> <<MarkOf(f) + f.len>>
      [] f.form = 16 -> <<MarkOf(f) + 126>> \o BytesOf(f.len, 2)
      [] f.form = 64 -> <<MarkOf(f) + 127>> \o BytesOf(f.high, 4) \o BytesOf(f.len, 4)

\* What the length field holds.
LengthIn(f, e) ==
    /\ e \in Seq(Nat) /\ Len(e) = 1 + ExtBytes(f)
    /\ f.form = 7 => e[1] = MarkOf(f) + f.len
    /\ f.form = 16 => e[1] = MarkOf(f) + 126 /\ e[2] * 256 + e[3] = f.len
    /\ f.form = 64 =>
          /\ e[1] = MarkOf(f) + 127
          /\ ((e[2] * 256 + e[3]) * 256 + e[4]) * 256 + e[5] = f.high
          /\ ((e[6] * 256 + e[7]) * 256 + e[8]) * 256 + e[9] = f.len

LEMMA LengthFieldHolds ==
    ASSUME NEW f \in FrameRecords, Fits(f)
    PROVE  LengthIn(f, LengthField(f))
  <1>1. /\ f.form \in {7, 16, 64} /\ f.len \in Nat /\ f.high \in Nat
        /\ MarkOf(f) \in Nat /\ Is32Bits(f.len) /\ Is32Bits(f.high)
    BY DEF FrameRecords, Fits, MarkOf
  <1>2. PICK e : e = LengthField(f)
    OBVIOUS
  <1>3. CASE f.form = 7
    <2>1. e = <<MarkOf(f) + f.len>>
      BY <1>2, <1>3 DEF LengthField
    <2> QED BY <1>1, <1>2, <1>3, <2>1 DEF LengthIn, ExtBytes
  <1>4. CASE f.form = 16
    <2>1. PICK b : b = BytesOf(f.len, 2)
      OBVIOUS
    <2>2. PICK x \in Nat : x = MarkOf(f) + 126
      BY <1>1
    <2>3. e = <<x>> \o b
      BY <1>2, <1>4, <2>1, <2>2 DEF LengthField
    <2>4. f.len < 65536
      BY <1>4 DEF Fits
    <2>5. b \in Seq(Octets) /\ Len(b) = 2 /\ b[1] * 256 + b[2] = f.len
      BY <1>1, <2>1, <2>4, TwoBytes
    <2>6. b \in Seq(Nat)
      BY <2>5, OctetsNat
    <2>7. e \in Seq(Nat) /\ Len(e) = 3 /\ e[1] = x /\ e[2] = b[1] /\ e[3] = b[2]
      <3>1. PICK y : y = <<x>>
        OBVIOUS
      <3>2. y \in Seq(Nat) /\ Len(y) = 1 /\ y[1] = x /\ e = y \o b
        BY <2>3, <3>1
      <3>3. /\ e \in Seq(Nat) /\ Len(e) = Len(y) + Len(b)
            /\ \A i \in 1..Len(y) : e[i] = y[i]
            /\ \A i \in 1..Len(b) : e[Len(y) + i] = b[i]
        <4>1. b \in Seq(Nat) /\ y \in Seq(Nat) /\ e = y \o b
          BY <2>6, <3>2
        <4> QED BY <4>1, Concat
      <3> QED BY <2>5, <3>2, <3>3, SMTT(30)
    <2> QED BY <1>1, <1>2, <1>4, <2>2, <2>5, <2>7 DEF LengthIn, ExtBytes
  <1>5. CASE f.form = 64
    <2>1. PICK b, c : b = BytesOf(f.high, 4) /\ c = BytesOf(f.len, 4)
      OBVIOUS
    <2>2. PICK x \in Nat : x = MarkOf(f) + 127
      BY <1>1
    <2>3. e = (<<x>> \o b) \o c
      BY <1>2, <1>5, <2>1, <2>2 DEF LengthField
    <2>4. /\ b \in Seq(Octets) /\ Len(b) = 4
          /\ ((b[1] * 256 + b[2]) * 256 + b[3]) * 256 + b[4] = f.high
      BY <1>1, <2>1, FourBytes
    <2>5. /\ c \in Seq(Octets) /\ Len(c) = 4
          /\ ((c[1] * 256 + c[2]) * 256 + c[3]) * 256 + c[4] = f.len
      BY <1>1, <2>1, FourBytes
    <2>6. b \in Seq(Nat) /\ c \in Seq(Nat)
      BY <2>4, <2>5, OctetsNat
    <2>7. PICK d : d = <<x>> \o b
      OBVIOUS
    <2>8. /\ d \in Seq(Nat) /\ Len(d) = 5
          /\ d[1] = x /\ d[2] = b[1] /\ d[3] = b[2] /\ d[4] = b[3] /\ d[5] = b[4]
      <3>1. PICK y : y = <<x>>
        OBVIOUS
      <3>2. y \in Seq(Nat) /\ Len(y) = 1 /\ y[1] = x /\ d = y \o b
        BY <2>7, <3>1
      <3>3. /\ d \in Seq(Nat) /\ Len(d) = Len(y) + Len(b)
            /\ \A i \in 1..Len(y) : d[i] = y[i]
            /\ \A i \in 1..Len(b) : d[Len(y) + i] = b[i]
        <4>1. b \in Seq(Nat) /\ y \in Seq(Nat) /\ d = y \o b
          BY <2>6, <3>2
        <4> QED BY <4>1, Concat
      <3>4. \A i \in 1..4 : d[1 + i] = b[i]
        BY <2>4, <3>2, <3>3
      <3>5. d[2] = b[1] /\ d[3] = b[2] /\ d[4] = b[3] /\ d[5] = b[4]
        BY <3>4
      <3>6. Len(d) = 5 /\ d[1] = x
        <4>1. Len(y) = 1 /\ y[1] = x /\ 1 \in 1..Len(y)
          BY <3>2
        <4> QED BY <2>4, <3>3, <4>1
      <3> QED BY <3>3, <3>5, <3>6
    <2>9. e = d \o c
      BY <2>3, <2>7
    <2>10. /\ e \in Seq(Nat) /\ Len(e) = 9
           /\ e[1] = d[1] /\ e[2] = d[2] /\ e[3] = d[3] /\ e[4] = d[4] /\ e[5] = d[5]
           /\ e[6] = c[1] /\ e[7] = c[2] /\ e[8] = c[3] /\ e[9] = c[4]
      <3>1. /\ e \in Seq(Nat) /\ Len(e) = Len(d) + Len(c)
            /\ \A i \in 1..Len(d) : e[i] = d[i]
            /\ \A i \in 1..Len(c) : e[Len(d) + i] = c[i]
        <4>1. d \in Seq(Nat) /\ c \in Seq(Nat)
          BY <2>6, <2>8
        <4> QED BY <2>9, <4>1, Concat
      <3> QED BY <2>5, <2>8, <3>1
    <2> QED BY <1>1, <1>2, <1>5, <2>2, <2>4, <2>5, <2>8, <2>10 DEF LengthIn, ExtBytes
  <1> QED BY <1>1, <1>3, <1>4, <1>5

\* A mask is four bytes, or there is none.
LEMMA Masks ==
    ASSUME NEW f \in FrameRecords
    PROVE  /\ f.mask \in Seq(Nat)
           /\ Len(f.mask) = IF f.mask = << >> THEN 0 ELSE 4
  <1>1. CASE f.mask = << >>
    BY <1>1
  <1>2. CASE f.mask # << >>
    <2>1. PICK k \in Nat : k = 4
      OBVIOUS
    <2>2. f.mask \in [1..k -> Octets]
      BY <1>2, <2>1 DEF FrameRecords, Octets
    <2>3. f.mask \in Seq(Octets) /\ Len(f.mask) = k
      BY <2>2, Sequences
    <2>4. f.mask \in Seq(Nat)
      BY <2>3, OctetsNat
    <2> QED BY <1>2, <2>1, <2>3, <2>4
  <1> QED BY <1>1, <1>2

\* A header: its first byte, the length field, the mask.
HeaderIs(f, h, e) ==
    /\ LengthIn(f, e) /\ h \in Seq(Nat)
    /\ Len(h) = 2 + ExtBytes(f) + Len(f.mask)
    /\ h[1] = FirstByte(f)
    /\ \A i \in 1..Len(e) : h[1 + i] = e[i]
    /\ \A i \in 1..Len(f.mask) : h[2 + ExtBytes(f) + i] = f.mask[i]

LEMMA HeaderShape ==
    ASSUME NEW f \in FrameRecords, Fits(f)
    PROVE  HeaderIs(f, ClientHeader(f), LengthField(f))
  <1>1. PICK h, e, m : h = ClientHeader(f) /\ e = LengthField(f) /\ m = f.mask
    OBVIOUS
  <1>2. PICK x \in Nat : x = FirstByte(f)
    <2>1. f.rsv \in Nat /\ f.op \in Nat
      BY DEF FrameRecords
    <2>2. PICK w \in Nat : w = IF f.fin THEN 128 ELSE 0
      OBVIOUS
    <2> QED BY <2>1, <2>2 DEF FirstByte
  <1>3. h = (<<x>> \o e) \o m
    BY <1>1, <1>2 DEF ClientHeader, FirstByte, LengthField, MarkOf
  <1>4. LengthIn(f, e)
    BY <1>1, LengthFieldHolds
  <1>5. PICK k \in Nat : k = ExtBytes(f)
    BY DEF ExtBytes
  <1>6. e \in Seq(Nat) /\ Len(e) = 1 + k /\ m \in Seq(Nat)
    BY <1>1, <1>4, <1>5, Masks DEF LengthIn
  <1>7. PICK d : d = <<x>> \o e
    OBVIOUS
  <1>8. PICK y : y = <<x>>
    OBVIOUS
  <1>9. y \in Seq(Nat) /\ Len(y) = 1 /\ y[1] = x /\ d = y \o e
    BY <1>7, <1>8
  <1>10. /\ d \in Seq(Nat) /\ Len(d) = 2 + k /\ d[1] = x
         /\ \A i \in 1..Len(e) : d[1 + i] = e[i]
    <2>1. /\ d \in Seq(Nat) /\ Len(d) = Len(y) + Len(e)
          /\ \A i \in 1..Len(y) : d[i] = y[i]
          /\ \A i \in 1..Len(e) : d[Len(y) + i] = e[i]
      <3>1. y \in Seq(Nat) /\ e \in Seq(Nat) /\ d = y \o e
        BY <1>6, <1>9
      <3> QED BY <3>1, Concat
    <2> QED BY <1>6, <1>9, <2>1
  <1>11. h = d \o m
    BY <1>3, <1>7
  <1>12. /\ h \in Seq(Nat) /\ Len(h) = Len(d) + Len(m)
         /\ \A i \in 1..Len(d) : h[i] = d[i]
         /\ \A i \in 1..Len(m) : h[Len(d) + i] = m[i]
    <2>1. d \in Seq(Nat) /\ m \in Seq(Nat)
      BY <1>6, <1>10
    <2> QED BY <1>11, <2>1, Concat
  <1>13. h[1] = x /\ \A i \in 1..Len(e) : h[1 + i] = e[i]
    BY <1>6, <1>10, <1>12
  <1> QED BY <1>1, <1>2, <1>4, <1>5, <1>10, <1>12, <1>13 DEF HeaderIs

-----------------------------------------------------------------------------
(* The server reads it.                                                    *)

\* The first two bytes of a header, as ParseHeader takes them apart.
LEMMA FirstTwoBytes ==
    ASSUME NEW f \in FrameRecords, Fits(f), NEW e, LengthIn(f, e),
           NEW x, x = FirstByte(f)
    PROVE  /\ x % 16 = f.op /\ (x \div 16) % 8 = f.rsv /\ (x >= 128) = f.fin
           /\ e[1] % 128 = IF f.form = 7 THEN f.len ELSE IF f.form = 16 THEN 126 ELSE 127
           /\ (e[1] >= 128) = (f.mask # << >>)
           /\ ExtLenBytes(e[1] % 128) = ExtBytes(f)
  <1>1. f.rsv \in 0..7 /\ f.op \in 0..15 /\ f.fin \in BOOLEAN
    BY DEF FrameRecords
  <1>2. PICK rsv \in 0..7, op \in 0..15 : rsv = f.rsv /\ op = f.op
    BY <1>1
  <1>3. x % 16 = f.op /\ (x \div 16) % 8 = f.rsv /\ (x >= 128) = f.fin
    <2>1. CASE f.fin
      <3>1. x = 128 + rsv * 16 + op
        BY <1>2, <2>1 DEF FirstByte
      <3>2. x % 16 = op /\ (x \div 16) % 8 = rsv /\ x >= 128
        BY <3>1
      <3>3. (x >= 128) = f.fin
        BY <1>1, <2>1, <3>2
      <3> QED BY <1>2, <3>2, <3>3
    <2>2. CASE ~f.fin
      <3>1. x = rsv * 16 + op
        BY <1>2, <2>2 DEF FirstByte
      <3>2. x % 16 = op /\ (x \div 16) % 8 = rsv /\ ~(x >= 128)
        BY <3>1
      <3>3. (x >= 128) = f.fin
        BY <1>1, <2>2, <3>2
      <3> QED BY <1>2, <3>2, <3>3
    <2> QED BY <2>1, <2>2
  <1>6. PICK l \in 0..127 :
            /\ l = IF f.form = 7 THEN f.len ELSE IF f.form = 16 THEN 126 ELSE 127
            /\ f.form = 7 => l < 126
    <2>1. f.len \in Nat /\ (f.form = 7 => f.len < 126)
      BY DEF FrameRecords, Fits
    <2> QED BY <2>1
  <1>7. PICK mark \in {0, 128} : mark = MarkOf(f) /\ (mark = 128 <=> f.mask # << >>)
    BY DEF MarkOf
  <1>8. e[1] = mark + l
    BY <1>6, <1>7 DEF LengthIn, FrameRecords
  <1>9. e[1] % 128 = l /\ (e[1] >= 128 <=> mark = 128)
    BY <1>8
  <1>10. ExtLenBytes(l) = ExtBytes(f)
    BY <1>6 DEF ExtLenBytes, ExtBytes, FrameRecords
  <1> QED BY <1>3, <1>6, <1>7, <1>9, <1>10

\* What the bytes of a length say.
LEMMA Lengths ==
    ASSUME NEW f \in FrameRecords, Fits(f), NEW h, NEW e, HeaderIs(f, h, e)
    PROVE  LET l == e[1] % 128
           IN  /\ PayloadLen(h, l) = f.len
               /\ LengthFits(h, l) <=> (f.form = Shortest(f.len) /\ f.high = 0)
  <1>1. /\ f.form \in {7, 16, 64} /\ f.len \in Nat /\ f.high \in Nat
        /\ f.form = 7 => f.len < 126
        /\ f.form = 16 => f.len < 65536
        /\ f.form # 64 => f.high = 0
    BY DEF FrameRecords, Fits
  <1>2. PICK l : l = e[1] % 128
    OBVIOUS
  <1>3. l = IF f.form = 7 THEN f.len ELSE IF f.form = 16 THEN 126 ELSE 127
    BY <1>2, FirstTwoBytes DEF HeaderIs
  <1>4. /\ e \in Seq(Nat) /\ Len(e) = 1 + ExtBytes(f)
        /\ h \in Seq(Nat) /\ Len(h) >= 2 + ExtBytes(f)
        /\ \A i \in 1..Len(e) : h[1 + i] = e[i]
    <2>1. Len(f.mask) \in Nat /\ ExtBytes(f) \in Nat
      BY Masks DEF ExtBytes
    <2> QED BY <2>1 DEF HeaderIs, LengthIn
  <1>5. CASE f.form = 7
    <2>1. l # 126 /\ l # 127 /\ l = f.len
      BY <1>1, <1>3, <1>5
    <2>2. PayloadLen(h, l) = f.len /\ LengthFits(h, l)
      BY <2>1 DEF PayloadLen, LengthFits
    <2>3. f.form = Shortest(f.len) /\ f.high = 0
      BY <1>1, <1>5 DEF Shortest
    <2> QED BY <1>2, <2>2, <2>3
  <1>6. CASE f.form = 16
    <2>1. l = 126
      BY <1>3, <1>6
    <2>2. PICK s : s = SubSeq(h, 3, 4)
      OBVIOUS
    <2>3. Len(h) >= 4 /\ h[3] = e[2] /\ h[4] = e[3]
      BY <1>4, <1>6 DEF ExtBytes
    <2>4. s \in Seq(Nat) /\ Len(s) = 2 /\ s[1] = h[3] /\ s[2] = h[4]
      BY <1>4, <2>2, <2>3, SMTT(30)
    <2>5. Number(s) = s[1] * 256 + s[2]
      BY <2>4, Numbers
    <2>6. e[2] * 256 + e[3] = f.len
      BY <1>6 DEF HeaderIs, LengthIn
    <2>7. PayloadLen(h, l) = f.len
      <3>1. PayloadLen(h, l) = Number(s)
        BY <2>1, <2>2 DEF PayloadLen
      <3> QED BY <2>3, <2>4, <2>5, <2>6, <3>1
    <2>8. LengthFits(h, l) <=> f.len >= 126
      BY <2>1, <2>7 DEF LengthFits
    <2>9. f.len >= 126 <=> f.form = Shortest(f.len)
      BY <1>1, <1>6 DEF Shortest
    <2> QED BY <1>1, <1>2, <1>6, <2>7, <2>8, <2>9
  <1>7. CASE f.form = 64
    <2>1. l = 127
      BY <1>3, <1>7
    <2>2. PICK s, t : s = SubSeq(h, 7, 10) /\ t = SubSeq(h, 3, 6)
      OBVIOUS
    <2>3. /\ Len(h) >= 10
          /\ h[3] = e[2] /\ h[4] = e[3] /\ h[5] = e[4] /\ h[6] = e[5]
          /\ h[7] = e[6] /\ h[8] = e[7] /\ h[9] = e[8] /\ h[10] = e[9]
      <3>1. Len(e) = 9
        BY <1>4, <1>7 DEF ExtBytes
      <3> QED BY <1>4, <1>7, <3>1 DEF ExtBytes
    <2>4. /\ s \in Seq(Nat) /\ Len(s) = 4
          /\ s[1] = h[7] /\ s[2] = h[8] /\ s[3] = h[9] /\ s[4] = h[10]
      <3>1. PICK m \in Nat, n \in Nat : m = 7 /\ n = 10
        OBVIOUS
      <3>1a. /\ h \in Seq(Nat) /\ s = SubSeq(h, m, n)
             /\ 1 <= m /\ m <= n + 1 /\ n <= Len(h)
        BY <1>4, <2>2, <2>3, <3>1
      <3>1b. /\ s \in Seq(Nat) /\ Len(s) = n - m + 1
             /\ \A i \in 1..(n - m + 1) : s[i] = h[m - 1 + i]
        BY <3>1a, Slice
      <3>2. /\ s \in Seq(Nat) /\ Len(s) = 4
            /\ \A i \in 1..4 : s[i] = h[6 + i]
        BY <3>1, <3>1b
      <3> QED BY <3>2
    <2>5. /\ t \in Seq(Nat) /\ Len(t) = 4
          /\ t[1] = h[3] /\ t[2] = h[4] /\ t[3] = h[5] /\ t[4] = h[6]
      <3>1. PICK m \in Nat, n \in Nat : m = 3 /\ n = 6
        OBVIOUS
      <3>1a. /\ h \in Seq(Nat) /\ t = SubSeq(h, m, n)
             /\ 1 <= m /\ m <= n + 1 /\ n <= Len(h)
        BY <1>4, <2>2, <2>3, <3>1
      <3>1b. /\ t \in Seq(Nat) /\ Len(t) = n - m + 1
             /\ \A i \in 1..(n - m + 1) : t[i] = h[m - 1 + i]
        BY <3>1a, Slice
      <3>2. /\ t \in Seq(Nat) /\ Len(t) = 4
            /\ \A i \in 1..4 : t[i] = h[2 + i]
        BY <3>1, <3>1b
      <3> QED BY <3>2
    <2>6. Number(s) = ((s[1] * 256 + s[2]) * 256 + s[3]) * 256 + s[4]
      BY <2>4, Numbers, SMTT(30)
    <2>7. /\ ((e[2] * 256 + e[3]) * 256 + e[4]) * 256 + e[5] = f.high
          /\ ((e[6] * 256 + e[7]) * 256 + e[8]) * 256 + e[9] = f.len
      BY <1>7 DEF HeaderIs, LengthIn
    <2>8. PayloadLen(h, l) = f.len
      <3>1. PayloadLen(h, l) = Number(s)
        BY <2>1, <2>2 DEF PayloadLen
      <3> QED BY <2>3, <2>4, <2>6, <2>7, <3>1
    <2>9. t = <<0, 0, 0, 0>> <=> f.high = 0
      <3>1. PICK z : z = <<0, 0, 0, 0>>
        OBVIOUS
      <3>2. z \in Seq(Nat) /\ Len(z) = 4 /\ z[1] = 0 /\ z[2] = 0 /\ z[3] = 0 /\ z[4] = 0
        <4>1. 0 \in Nat
          OBVIOUS
        <4> QED BY <3>1, <4>1, FourElements
      <3>3. t = z <=> t[1] = 0 /\ t[2] = 0 /\ t[3] = 0 /\ t[4] = 0
        <4>1. ASSUME t[1] = 0, t[2] = 0, t[3] = 0, t[4] = 0 PROVE t = z
          <5>1. Len(t) = Len(z) /\ \A i \in 1..Len(t) : t[i] = z[i]
            BY <2>5, <3>2, <4>1
          <5>2. t \in Seq(Nat) /\ z \in Seq(Nat)
            BY <2>5, <3>2
          <5> QED BY <5>1, <5>2, SeqEqual
        <4> QED BY <3>2, <4>1
      <3>4. t[1] \in Nat /\ t[2] \in Nat /\ t[3] \in Nat /\ t[4] \in Nat
        <4>1. t \in Seq(Nat) /\ Len(t) = 4
          BY <2>5
        <4>2. \A i \in 1..4 : t[i] \in Nat
          BY <4>1, ElementOfSeq
        <4> QED BY <4>2
      <3>5. ((t[1] * 256 + t[2]) * 256 + t[3]) * 256 + t[4] = f.high
        BY <2>3, <2>5, <2>7
      <3>6. PICK x1 \in Nat, x2 \in Nat, x3 \in Nat, x4 \in Nat :
                t[1] = x1 /\ t[2] = x2 /\ t[3] = x3 /\ t[4] = x4
        BY <3>4
      <3>7. ((x1 * 256 + x2) * 256 + x3) * 256 + x4 = f.high
        BY <3>5, <3>6
      <3>8. f.high = 0 <=> x1 = 0 /\ x2 = 0 /\ x3 = 0 /\ x4 = 0
        BY <3>7
      <3> QED BY <3>1, <3>3, <3>6, <3>8
    <2>10. LengthFits(h, l) <=> f.high = 0 /\ f.len >= 65536
      BY <2>1, <2>2, <2>8, <2>9 DEF LengthFits
    <2>11. f.len >= 65536 <=> f.form = Shortest(f.len)
      BY <1>1, <1>7 DEF Shortest
    <2> QED BY <1>1, <1>2, <2>8, <2>10, <2>11
  <1> QED BY <1>1, <1>5, <1>6, <1>7

\* However much of a header has arrived, ParseHeader waits for the rest, refuses what
\* RFC 6455 does, or finds in it what the client put there.
THEOREM HeaderParsed ==
    ASSUME NEW f \in FrameRecords, Fits(f), NEW n \in 0..Len(ClientHeader(f))
    PROVE  ParseHeader(SubSeq(ClientHeader(f), 1, n)) = Expected(f, n)
  <1>1. PICK h, e : h = ClientHeader(f) /\ e = LengthField(f)
    OBVIOUS
  <1>2. HeaderIs(f, h, e)
    BY <1>1, HeaderShape
  <1>3. PICK k \in Nat, w \in Nat :
            /\ k = ExtBytes(f) /\ w = Len(f.mask)
            /\ w = IF f.mask = << >> THEN 0 ELSE 4
    BY Masks DEF ExtBytes
  <1>4. PICK d : d = SubSeq(h, 1, n)
    OBVIOUS
  <1>5. /\ h \in Seq(Nat) /\ Len(h) = 2 + k + w /\ n \in Nat /\ n <= Len(h)
        /\ h[1] = FirstByte(f) /\ h[2] = e[1]
    <2>1. Len(e) = 1 + k
      BY <1>2, <1>3 DEF HeaderIs, LengthIn
    <2> QED BY <1>1, <1>2, <1>3, <2>1 DEF HeaderIs
  <1>6. Len(d) = n /\ \A i \in 1..n : d[i] = h[i]
    <2>1. PICK m \in Nat : m = 1
      OBVIOUS
    <2>2. /\ h \in Seq(Nat) /\ n \in Nat /\ d = SubSeq(h, m, n)
          /\ 1 <= m /\ m <= n + 1 /\ n <= Len(h)
      BY <1>4, <1>5, <2>1
    <2>3. /\ Len(d) = n - m + 1
          /\ \A i \in 1..(n - m + 1) : d[i] = h[m - 1 + i]
      BY <2>2, Slice, SMTT(30)
    <2> QED BY <1>5, <2>1, <2>3
  <1>7. CASE n < 2
    <2>1. ParseHeader(d) = Wait
      BY <1>6, <1>7 DEF ParseHeader
    <2>2. Expected(f, n) = Wait
      BY <1>7 DEF Expected
    <2> QED BY <1>1, <1>4, <2>1, <2>2
  <1>8. CASE n >= 2
    <2>1. d[1] = FirstByte(f) /\ d[2] = e[1] /\ ~(n < 2)
      BY <1>5, <1>6, <1>8
    <2>2. PICK l : l = d[2] % 128
      OBVIOUS
    <2>3. /\ d[1] % 16 = f.op /\ (d[1] \div 16) % 8 = f.rsv
          /\ (d[1] >= 128) = f.fin /\ (d[2] >= 128) = (f.mask # << >>)
          /\ ExtLenBytes(l) = k
      <3>1. LengthIn(f, e)
        BY <1>2 DEF HeaderIs
      <3> QED BY <1>3, <2>1, <2>2, <3>1, FirstTwoBytes
    <2>4. PICK total \in Nat : total = Len(h) /\ total = 2 + k + w
      BY <1>3, <1>5
    <2>5. 2 + ExtLenBytes(l) + (IF d[2] >= 128 THEN 4 ELSE 0) = total
      BY <1>3, <2>3, <2>4
    <2>6. CASE f.rsv # 0 \/ ~IsValidOpCode(f.op)
      <3>1. ParseHeader(d) = Bad
        BY <1>6, <2>1, <2>3, <2>6 DEF ParseHeader
      <3>2. Expected(f, n) = Bad
        BY <2>1, <2>6 DEF Expected
      <3> QED BY <1>1, <1>4, <3>1, <3>2
    <2>7. CASE ~(f.rsv # 0 \/ ~IsValidOpCode(f.op)) /\ n < total
      <3>1. ParseHeader(d) = Wait
        BY <1>6, <2>1, <2>2, <2>3, <2>5, <2>7 DEF ParseHeader
      <3>2. Expected(f, n) = Wait
        BY <1>1, <2>1, <2>4, <2>7 DEF Expected
      <3> QED BY <1>1, <1>4, <3>1, <3>2
    <2>8. CASE ~(f.rsv # 0 \/ ~IsValidOpCode(f.op)) /\ ~(n < total)
      <3>1. n = Len(h) /\ d = h
        <4>1. n = Len(h)
          BY <1>5, <2>4, <2>8
        <4> QED BY <1>4, <1>5, <4>1, SubSeqFull
      <3>2. /\ PayloadLen(d, l) = f.len
            /\ LengthFits(d, l) <=> (f.form = Shortest(f.len) /\ f.high = 0)
        BY <1>2, <2>1, <2>2, <3>1, Lengths
      <3>3. CASE ~(f.form = Shortest(f.len) /\ f.high = 0)
        <4>1. ParseHeader(d) = Bad
          BY <1>6, <2>1, <2>2, <2>3, <2>5, <2>8, <3>2, <3>3 DEF ParseHeader
        <4>2. Expected(f, n) = Bad
          BY <1>1, <2>1, <2>4, <2>8, <3>3 DEF Expected
        <4> QED BY <1>1, <1>4, <4>1, <4>2
      <3>4. CASE f.form = Shortest(f.len) /\ f.high = 0
        <4>1. (IF d[2] >= 128 THEN SubSeq(d, 2 + ExtLenBytes(l) + 1, total) ELSE << >>) = f.mask
          <5>1. CASE f.mask = << >>
            BY <2>3, <5>1
          <5>2. CASE f.mask # << >>
            <6>1. PICK m \in Nat : m = 2 + k + 1
              BY <1>3
            <6>2. PICK s : s = SubSeq(d, m, total)
              OBVIOUS
            <6>3. w = 4 /\ total = m + 3 /\ f.mask \in Seq(Nat) /\ Len(f.mask) = 4
              BY <1>3, <2>4, <5>2, <6>1, Masks
            <6>4. /\ d \in Seq(Nat) /\ 1 <= m /\ m <= total + 1 /\ total <= Len(d)
              BY <1>5, <2>4, <3>1, <6>1, <6>3
            <6>5. /\ s \in Seq(Nat) /\ Len(s) = total - m + 1
                  /\ \A i \in 1..(total - m + 1) : s[i] = d[m - 1 + i]
              BY <6>2, <6>4, Slice
            <6>6. Len(s) = 4 /\ \A i \in 1..4 : s[i] = d[2 + k + i]
              BY <6>1, <6>3, <6>5
            <6>7. \A i \in 1..4 : d[2 + k + i] = f.mask[i]
              BY <1>2, <1>3, <3>1, <6>3 DEF HeaderIs
            <6>8. s = f.mask
              <7>1. s \in Seq(Nat) /\ f.mask \in Seq(Nat)
                BY <6>3, <6>5
              <7>2. Len(s) = Len(f.mask) /\ \A i \in 1..Len(s) : s[i] = f.mask[i]
                BY <6>3, <6>6, <6>7
              <7> QED BY <7>1, <7>2, SeqEqual
            <6> QED BY <2>3, <5>2, <6>1, <6>2, <6>8
          <5> QED BY <5>1, <5>2
        <4>2. PICK fin, m : fin = f.fin /\ m = f.mask
          OBVIOUS
        <4>3. PICK r : r = [outcome |-> "header", fin |-> fin, op |-> f.op, len |-> f.len,
                            headerLen |-> total, mask |-> m]
          OBVIOUS
        <4>4. (d[1] >= 128) = fin
          BY <2>3, <4>2
        <4>5. ParseHeader(d) = r
          <5>1. ParseHeader(d) =
                   [outcome |-> "header", fin |-> d[1] >= 128, op |-> d[1] % 16,
                    len |-> PayloadLen(d, l),
                    headerLen |-> 2 + ExtLenBytes(l) + (IF d[2] >= 128 THEN 4 ELSE 0),
                    mask |-> IF d[2] >= 128
                             THEN SubSeq(d, 2 + ExtLenBytes(l) + 1,
                                         2 + ExtLenBytes(l) + (IF d[2] >= 128 THEN 4 ELSE 0))
                             ELSE << >>]
            <6>1. /\ ~(Len(d) < 2) /\ (d[1] \div 16) % 8 = 0 /\ IsValidOpCode(d[1] % 16)
                  /\ ~(Len(d) < 2 + ExtLenBytes(l) + (IF d[2] >= 128 THEN 4 ELSE 0))
                  /\ LengthFits(d, l)
              BY <1>6, <2>1, <2>3, <2>5, <2>8, <3>2, <3>4
            <6> QED BY <2>2, <6>1, ZenonT(40) DEF ParseHeader
          <5> QED BY <2>3, <2>5, <3>2, <4>1, <4>2, <4>3, <4>4, <5>1, Zenon
        <4>6. Expected(f, n) = r
          <5>1. /\ ~(n < 2) /\ ~(n < Len(ClientHeader(f))) /\ Len(ClientHeader(f)) = total
                /\ ~(f.rsv # 0 \/ ~IsValidOpCode(f.op))
                /\ ~(f.form # Shortest(f.len) \/ f.high # 0)
            BY <1>1, <2>1, <2>4, <2>8, <3>4
          <5> QED BY <4>2, <4>3, <5>1, Zenon DEF Expected
        <4> QED BY <1>1, <1>4, <4>5, <4>6
      <3> QED BY <3>3, <3>4
    <2> QED BY <2>6, <2>7, <2>8
  <1> QED BY <1>5, <1>7, <1>8

-----------------------------------------------------------------------------
(* The server writes a frame.                                              *)

\* The bytes of 0 are 0.
LEMMA ZeroBytes == BytesOf(0, 4) = <<0, 0, 0, 0>>
  <1>1. PICK n \in Nat : n = 0
    OBVIOUS
  <1>2. Is32Bits(n)
    BY <1>1 DEF Is32Bits
  <1>3. PICK b : b = BytesOf(n, 4)
    OBVIOUS
  <1>4. /\ b \in Seq(Octets) /\ Len(b) = 4
        /\ ((b[1] * 256 + b[2]) * 256 + b[3]) * 256 + b[4] = n
    BY <1>2, <1>3, FourBytes
  <1>5. \A i \in 1..4 : b[i] \in Octets
    BY <1>4, ElementOfSeq
  <1>6. PICK x1 \in Nat, x2 \in Nat, x3 \in Nat, x4 \in Nat :
            b[1] = x1 /\ b[2] = x2 /\ b[3] = x3 /\ b[4] = x4
    <2>1. \A i \in 1..4 : b[i] \in Nat
      BY <1>5, SMTT(30) DEF Octets
    <2> QED BY <2>1
  <1>7. ((x1 * 256 + x2) * 256 + x3) * 256 + x4 = 0
    BY <1>1, <1>4, <1>6
  <1>8. x1 = 0 /\ x2 = 0 /\ x3 = 0 /\ x4 = 0
    BY <1>7
  <1>9. PICK z : z = <<0, 0, 0, 0>>
    OBVIOUS
  <1>10. z \in Seq(Octets) /\ Len(z) = 4 /\ z[1] = 0 /\ z[2] = 0 /\ z[3] = 0 /\ z[4] = 0
    <2>1. 0 \in Octets
      BY DEF Octets
    <2> QED BY <1>9, <2>1, FourElements
  <1>11. b = z
    <2>1. b \in Seq(Octets) /\ z \in Seq(Octets)
      BY <1>4, <1>10
    <2>2. Len(b) = Len(z) /\ \A i \in 1..Len(b) : b[i] = z[i]
      BY <1>4, <1>6, <1>8, <1>10
    <2> QED BY <2>1, <2>2, SeqEqual
  <1> QED BY <1>1, <1>3, <1>9, <1>11

\* The length field that EncodeServerFrame writes.
ServerField(n) ==
    CASE n <= 125                -> <<n>>
      [] n > 125 /\ n <= 65535 -> <<126>> \o BytesOf(n, 2)
      [] OTHER                  -> <<127>> \o BytesOf(n, 8)

\* What EncodeServerFrame puts before a payload is the shortest header that a client
\* would put before it, without a mask.
THEOREM HeaderEncoded ==
    ASSUME NEW f \in FrameRecords, Fits(f)
    PROVE  EncodeServerFrame(f.fin, f.op, f.len) =
              ClientHeader([f EXCEPT !.rsv = 0, !.mask = << >>, !.high = 0,
                                     !.form = Shortest(f.len)])
  <1>1. PICK n \in Nat : n = f.len /\ Is32Bits(n)
    BY DEF FrameRecords, Fits
  <1>2. PICK form \in {7, 16, 64} :
            /\ form = Shortest(n)
            /\ form = 7 <=> n <= 125
            /\ form = 16 <=> n > 125 /\ n <= 65535
    BY DEF Shortest
  <1>3. PICK none : none = << >>
    OBVIOUS
  <1>4. PICK g : g = [f EXCEPT !.rsv = 0, !.mask = none, !.high = 0, !.form = form]
    OBVIOUS
  <1>5. /\ g.fin = f.fin /\ g.op = f.op /\ g.len = n /\ g.rsv = 0 /\ g.mask = none
        /\ g.high = 0 /\ g.form = form
    BY <1>1, <1>4 DEF FrameRecords
  <1>6. g \in FrameRecords
    <2>1. PICK B, R, O, M, F :
              /\ B = BOOLEAN /\ R = 0..7 /\ O = 0..15 /\ F = {7, 16, 64}
              /\ M = {<< >>} \cup [1..4 -> 0..255]
      OBVIOUS
    <2>2. PICK records :
              /\ records = [fin : B, rsv : R, op : O, mask : M, form : F, len : Nat, high : Nat]
              /\ records = FrameRecords
      BY <2>1, Zenon DEF FrameRecords
    <2>3. 0 \in R /\ none \in M /\ form \in F /\ 0 \in Nat
      BY <1>3, <2>1
    <2>4. f \in records
      BY <2>2
    <2>5. g \in records
      <3>1. /\ f = [fin |-> f.fin, rsv |-> f.rsv, op |-> f.op, mask |-> f.mask,
                     form |-> f.form, len |-> f.len, high |-> f.high]
            /\ f.fin \in B /\ f.op \in O /\ f.len \in Nat
        BY <2>2, <2>4
      <3>2. g = [fin |-> f.fin, rsv |-> 0, op |-> f.op, mask |-> none,
                 form |-> form, len |-> f.len, high |-> 0]
        BY <1>4, <3>1
      <3> QED BY <2>2, <2>3, <3>1, <3>2
    <2> QED BY <2>2, <2>5
  <1>7. Fits(g)
    BY <1>1, <1>2, <1>5 DEF Fits, Is32Bits
  <1>8. PICK e : e = LengthField(g)
    OBVIOUS
  <1>9. e \in Seq(Nat)
    BY <1>6, <1>7, <1>8, LengthFieldHolds DEF LengthIn
  <1>10. f.op \in Nat /\ f.fin \in BOOLEAN
    BY DEF FrameRecords
  <1>11. PICK x \in Nat : x = FirstByte(g) /\ x = (IF f.fin THEN f.op + 128 ELSE f.op)
    BY <1>5, <1>10 DEF FirstByte
  <1>12. MarkOf(g) = 0
    BY <1>3, <1>5 DEF MarkOf
  <1>13. ClientHeader(g) = <<x>> \o e
    <2>1. ClientHeader(g) = (<<x>> \o e) \o << >>
      BY <1>3, <1>5, <1>8, <1>11 DEF ClientHeader, FirstByte, LengthField, MarkOf
    <2>2. <<x>> \o e \in Seq(Nat)
      BY <1>9
    <2> QED BY <2>1, <2>2, ConcatEmptySeq
  <1>14. PICK field : field = ServerField(n)
    OBVIOUS
  <1>15. EncodeServerFrame(f.fin, f.op, n) = <<x>> \o field
    BY <1>11, <1>14 DEF EncodeServerFrame, ServerField
  <1>16. field = e
    <2>1. CASE form = 7
      <3>1. e = <<n>>
        BY <1>1, <1>5, <1>8, <1>12, <2>1 DEF LengthField
      <3>2. field = <<n>>
        BY <1>2, <1>14, <2>1 DEF ServerField
      <3> QED BY <3>1, <3>2
    <2>2. CASE form = 16
      <3>1. e = <<126>> \o BytesOf(n, 2)
        BY <1>5, <1>8, <1>12, <2>2 DEF LengthField
      <3>2. field = <<126>> \o BytesOf(n, 2)
        BY <1>2, <1>14, <2>2 DEF ServerField
      <3> QED BY <3>1, <3>2
    <2>3. CASE form = 64
      <3>1. PICK z, b, y : z = <<0, 0, 0, 0>> /\ b = BytesOf(n, 4) /\ y = <<127>>
        OBVIOUS
      <3>2. e = (y \o z) \o b
        <4>1. e = (<<MarkOf(g) + 127>> \o BytesOf(g.high, 4)) \o BytesOf(g.len, 4)
          BY <1>5, <1>8, <2>3 DEF LengthField
        <4>2. MarkOf(g) + 127 = 127
          BY <1>12
        <4> QED BY <1>5, <3>1, <4>1, <4>2, ZeroBytes, Zenon
      <3>3. BytesOf(n, 8) = z \o b
        BY <1>1, <3>1, FourBytes
      <3>4. field = <<127>> \o BytesOf(n, 8)
        BY <1>2, <1>14, <2>3 DEF ServerField
      <3>5. field = y \o (z \o b)
        BY <3>1, <3>3, <3>4
      <3>6. y \in Seq(Nat) /\ z \in Seq(Nat) /\ b \in Seq(Nat)
        <4>1. b \in Seq(Nat)
          BY <1>1, <3>1, FourBytes, OctetsNat
        <4>2. z \in Seq(Nat)
          BY <3>1
        <4> QED BY <3>1, <4>1, <4>2
      <3>7. (y \o z) \o b = y \o (z \o b)
        BY <3>6, ConcatAssociative, SMTT(30)
      <3> QED BY <3>2, <3>5, <3>7
    <2> QED BY <2>1, <2>2, <2>3
  <1> QED BY <1>1, <1>2, <1>3, <1>4, <1>13, <1>15, <1>16

-----------------------------------------------------------------------------
(* The mask.                                                               *)

\* Masking twice with the same key gives a payload back, whatever the payload and the key.
THEOREM MaskTwice ==
    ASSUME NEW S, NEW p \in Seq(S), NEW key
    PROVE  ApplyMask(Masked(p, key), key) = p
  <1>1. \A a, b : XorBits(XorBits(a, b), b) = a
    BY DEF XorBits
  <1>2. DOMAIN p = 1..Len(p) /\ Len(p) \in Nat /\ p = [i \in DOMAIN p |-> p[i]]
    BY LenProperties
  <1>3. PICK q : q = Masked(p, key)
    OBVIOUS
  <1>4. q = [i \in DOMAIN p |-> XorBits(p[i], Bits(key[((i + 3) % 4) + 1]))]
    BY <1>3 DEF Masked
  <1>5. DOMAIN q = DOMAIN p
    BY <1>4
  <1>6. ASSUME NEW i \in DOMAIN p
        PROVE  XorBits(q[i], Bits(key[((i - 1) % 4) + 1])) = p[i]
    <2>1. (i - 1) % 4 = (i + 3) % 4
      BY <1>2
    <2>2. q[i] = XorBits(p[i], Bits(key[((i - 1) % 4) + 1]))
      BY <1>4, <2>1
    <2> QED BY <1>1, <2>2
  <1>7. ApplyMask(q, key) = [i \in DOMAIN p |-> XorBits(q[i], Bits(key[((i - 1) % 4) + 1]))]
    BY <1>5 DEF ApplyMask
  <1>8. [i \in DOMAIN p |-> XorBits(q[i], Bits(key[((i - 1) % 4) + 1]))] = [i \in DOMAIN p |-> p[i]]
    BY <1>6
  <1> QED BY <1>2, <1>3, <1>7, <1>8

-----------------------------------------------------------------------------
(* The frames that arrive.                                                 *)

\* A frame of the client's, and no more of its header than there is.
FrameInv ==
    /\ arrived \in Nat
    /\ frame \in FrameSet \cup {NoFrame}
    /\ frame # NoFrame => arrived \in 0..Len(ClientHeader(frame))
    /\ frame = NoFrame => arrived = 0

\* Every step of the client keeps to the header of the frame it sends.
THEOREM SpecFrameInv == FrameSpec => []FrameInv
  <1>1. FrameInit => FrameInv
    BY DEF FrameInit, FrameInv
  <1>2. FrameInv /\ [FrameNext]_frameVars => FrameInv'
    <2> SUFFICES ASSUME FrameInv, [FrameNext]_frameVars PROVE FrameInv'
      OBVIOUS
    <2>1. ASSUME NEW f \in FrameSet, SendFrame(f) PROVE FrameInv'
      <3>1. f \in FrameRecords /\ Fits(f)
        BY FramesAssumption
      <3>2. HeaderIs(f, ClientHeader(f), LengthField(f))
        BY <3>1, HeaderShape
      <3>3. Len(ClientHeader(f)) \in Nat
        BY <3>2 DEF HeaderIs
      <3>4. frame' = f /\ arrived' = 0
        BY <2>1 DEF SendFrame, FrameInv
      <3>5. 0 \in 0..Len(ClientHeader(f))
        BY <3>3
      <3> QED BY <3>4, <3>5 DEF FrameInv
    <2>2. ASSUME NEW n \in 1..14, HeaderArrives(n) PROVE FrameInv'
      <3>1. PICK h \in Nat : h = Len(ClientHeader(frame))
        <4>1. frame \in FrameRecords /\ Fits(frame)
          BY <2>2, FramesAssumption DEF FrameInv, HeaderArrives
        <4> QED BY <4>1, HeaderShape DEF HeaderIs
      <3>2. frame' = frame /\ frame # NoFrame /\ arrived' = arrived + n /\ arrived + n <= h
        BY <2>2, <3>1 DEF HeaderArrives
      <3>3. arrived' \in 0..h
        BY <3>1, <3>2 DEF FrameInv
      <3> QED BY <3>1, <3>2, <3>3 DEF FrameInv
    <2>3. CASE UNCHANGED frameVars
      BY <2>3 DEF FrameInv, frameVars
    <2> QED BY <2>1, <2>2, <2>3 DEF FrameNext
  <1> QED BY <1>1, <1>2, PTL DEF FrameSpec

\* The codec understands every frame, however its header arrives.
THEOREM SpecFramesUnderstood == FrameSpec => []FramesUnderstood
  <1>1. FrameInv => FramesUnderstood
    <2> SUFFICES ASSUME FrameInv, frame # NoFrame PROVE FramesUnderstood
      BY DEF FramesUnderstood
    <2>1. frame \in FrameRecords /\ Fits(frame)
      BY FramesAssumption DEF FrameInv
    <2>2. ParseHeader(SubSeq(ClientHeader(frame), 1, arrived)) = Expected(frame, arrived)
      BY <2>1, HeaderParsed DEF FrameInv
    <2>3. EncodeServerFrame(frame.fin, frame.op, frame.len) =
              ClientHeader([frame EXCEPT !.rsv = 0, !.mask = << >>, !.high = 0,
                                         !.form = Shortest(frame.len)])
      BY <2>1, HeaderEncoded
    <2>4. ApplyMask(Masked(Payload, frame.mask), frame.mask) = Payload
      <3>1. \A s1, s2, s3, s4, s5, s6, s7 :
                <<s1, s2, s3, s4, s5, s6, s7>> \in Seq({s1, s2, s3, s4, s5, s6, s7})
        OBVIOUS
      <3>2. \E S : Payload \in Seq(S)
        BY <3>1 DEF Payload
      <3> QED BY <3>2, MaskTwice
    <2> QED BY <2>2, <2>3, <2>4 DEF FramesUnderstood
  <1> QED BY <1>1, SpecFrameInv, PTL
=============================================================================
