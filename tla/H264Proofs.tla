----------------------------- MODULE H264Proofs -----------------------------
(***************************************************************************)
(* Proofs about H264: the scan finds the units of the byte stream format,  *)
(* the frames cover the file, and a receiver gets the units back.          *)
(***************************************************************************)
EXTENDS H264Reference, SequenceTheorems, WellFoundedInduction, TLAPS

-----------------------------------------------------------------------------
(* Sets of numbers.                                                        *)

\* A set that has 0 and the successor of each of its numbers has them all.
LEMMA NatSetInduction ==
    ASSUME NEW T, 0 \in T, \A n \in Nat : n \in T => n + 1 \in T
    PROVE  Nat \subseteq T
  <1> DEFINE R == {ss \in Nat \X Nat : ss[1] < ss[2]}
  <1>1. IsWellFoundedOn(R, Nat)
    BY NatLessThanWellFounded DEF OpToRel
  <1>2. ASSUME NEW x \in Nat \ T PROVE \E y \in Nat \ T : <<y, x>> \in R
    <2>1. x # 0 /\ x - 1 \in Nat /\ x - 1 < x /\ (x - 1) + 1 = x
      OBVIOUS
    <2>2. x - 1 \notin T
      BY <2>1
    <2> QED BY <2>1, <2>2
  <1> HIDE DEF R
  <1>3. Nat \ T = {}
    BY <1>1, <1>2, WFMin
  <1> QED BY <1>3

\* The least of the places from a to b that are in S, or b + 1.
LEMMA LeastPlace ==
    ASSUME NEW a \in Nat, NEW b \in Nat, a <= b + 1, NEW S, S \subseteq a..b
    PROVE  /\ Min(S \cup {b + 1}) \in S \cup {b + 1}
           /\ Min(S \cup {b + 1}) \in a..(b + 1)
           /\ \A x \in S : Min(S \cup {b + 1}) <= x
           /\ \A x \in a..(Min(S \cup {b + 1}) - 1) : x \notin S
  <1> DEFINE T == S \cup {b + 1}
             R == {ss \in Nat \X Nat : ss[1] < ss[2]}
  <1>1. T \subseteq Nat /\ T # {}
    OBVIOUS
  <1>2. \E x \in T : \A y \in T : x <= y
    <2>1. IsWellFoundedOn(R, Nat)
      BY NatLessThanWellFounded DEF OpToRel
    <2>2. PICK x \in T : \A y \in T : ~ (<<y, x>> \in R)
      <3> HIDE DEF T, R
      <3> QED BY <1>1, <2>1, WFMin
    <2>3. ASSUME NEW y \in T PROVE x <= y
      <3>1. x \in Nat /\ y \in Nat
        BY <1>1
      <3>2. <<y, x>> \in Nat \X Nat /\ <<y, x>>[1] = y /\ <<y, x>>[2] = x
        BY <3>1
      <3> QED BY <2>2, <3>1, <3>2
    <2> QED BY <2>3
  <1>3. Min(T) \in T /\ \A y \in T : Min(T) <= y
    BY <1>2 DEF Min
  <1>4. PICK m \in T : m = Min(T) /\ \A y \in T : m <= y
    BY <1>3
  <1>5. m <= b + 1 /\ m \in a..(b + 1)
    BY <1>4
  <1>6. ASSUME NEW x \in a..(m - 1) PROVE x \notin S
    BY <1>4, <1>5
  <1> QED BY <1>4, <1>5, <1>6

-----------------------------------------------------------------------------
(* Functions that are defined by recursion.                                *)

\* What ExtractNALUnits and AnnexB compute, for the pieces out[i] that the passes
\* yield and the places nxt[i] at which they leave off.
Scans(g, from, len, out, nxt) ==
    g = [i \in from..(len + 1) |-> IF i > len THEN << >> ELSE out[i] \o g[nxt[i]]]

LEMMA ScanExists ==
    ASSUME NEW len \in Nat, NEW out, NEW nxt,
           \A i \in 1..len : nxt[i] \in (i + 1)..(len + 1)
    PROVE  \E g : Scans(g, 1, len, out, nxt)
  <1> DEFINE T == {n \in Nat : n <= len => \E g : Scans(g, (len + 1) - n, len, out, nxt)}
  <1>1. 0 \in T
    <2> DEFINE g == [i \in (len + 1)..(len + 1) |-> << >>]
    <2>1. g = [i \in (len + 1)..(len + 1) |-> IF i > len THEN << >> ELSE out[i] \o g[nxt[i]]]
      <3>1. ASSUME NEW i \in (len + 1)..(len + 1)
            PROVE  << >> = IF i > len THEN << >> ELSE out[i] \o g[nxt[i]]
        <4>1. i > len
          OBVIOUS
        <4> QED BY <4>1, Zenon
      <3>2. \A i \in (len + 1)..(len + 1) :
               << >> = IF i > len THEN << >> ELSE out[i] \o g[nxt[i]]
        BY <3>1
      <3> QED BY <3>2, Zenon
    <2>2. (len + 1) - 0 = len + 1
      OBVIOUS
    <2> QED BY <2>1, <2>2 DEF Scans
  <1>2. ASSUME NEW n \in Nat, n \in T PROVE n + 1 \in T
    <2> SUFFICES ASSUME n + 1 <= len
                 PROVE  \E g : Scans(g, (len + 1) - (n + 1), len, out, nxt)
      OBVIOUS
    <2>1. PICK a \in 1..len : a = (len + 1) - (n + 1) /\ a + 1 = (len + 1) - n
      OBVIOUS
    <2>2. PICK g : Scans(g, a + 1, len, out, nxt)
      BY <1>2, <2>1
    <2>e. PICK e : e = out[a] \o g[nxt[a]]
      OBVIOUS
    <2> DEFINE f == [i \in a..(len + 1) |-> IF i = a THEN e ELSE g[i]]
    <2>3. ASSUME NEW i \in a..(len + 1)
          PROVE  f[i] = IF i > len THEN << >> ELSE out[i] \o f[nxt[i]]
      <3>1. i <= len => nxt[i] \in (i + 1)..(len + 1)
        OBVIOUS
      <3>2. i <= len => f[nxt[i]] = g[nxt[i]]
        BY <3>1
      <3>3. CASE i = a
        <4>1. ~ (i > len) /\ i <= len /\ f[i] = e
          BY <3>3
        <4> HIDE DEF f
        <4>2. f[i] = out[i] \o f[nxt[i]]
          BY <2>e, <3>2, <3>3, <4>1, Zenon
        <4> QED BY <4>1, <4>2, Zenon
      <3>4. CASE i # a
        <4>1. i \in (a + 1)..(len + 1)
          BY <3>4
        <4>2. g[i] = IF i > len THEN << >> ELSE out[i] \o g[nxt[i]]
          BY <2>2, <4>1 DEF Scans
        <4>3. f[i] = g[i]
          BY <3>4
        <4> QED BY <3>2, <4>2, <4>3
      <3> QED BY <3>3, <3>4
    <2>4. f = [i \in a..(len + 1) |-> f[i]]
      OBVIOUS
    <2> HIDE DEF f
    <2>5. f = [i \in a..(len + 1) |-> IF i > len THEN << >> ELSE out[i] \o f[nxt[i]]]
      BY <2>3, <2>4
    <2> QED BY <2>1, <2>5 DEF Scans
  <1>3. Nat \subseteq T
    <2> HIDE DEF T
    <2> QED BY <1>1, <1>2, NatSetInduction
  <1>4. len \in T /\ (len + 1) - len = 1
    BY <1>3
  <1> QED BY <1>4

\* Both functions are solutions.
LEMMA ExtractScans ==
    ASSUME NEW d, NEW out, NEW nxt, Len(d) \in Nat,
           \A i \in 1..Len(d) : out[i] = Found(d, i) /\ nxt[i] = After(d, i),
           \A i \in 1..Len(d) : nxt[i] \in (i + 1)..(Len(d) + 1)
    PROVE  \E g : Scans(g, 1, Len(d), out, nxt) /\ ExtractNALUnits(d) = g[1]
  <1>1. PICK f : Scans(f, 1, Len(d), out, nxt)
    BY ScanExists
  <1> DEFINE g == CHOOSE g : g = [i \in 1..(Len(d) + 1) |->
                     IF i > Len(d) THEN << >> ELSE Found(d, i) \o g[After(d, i)]]
  <1>2. ASSUME NEW x
        PROVE  [i \in 1..(Len(d) + 1) |->
                   IF i > Len(d) THEN << >> ELSE Found(d, i) \o x[After(d, i)]]
               = [i \in 1..(Len(d) + 1) |-> IF i > Len(d) THEN << >> ELSE out[i] \o x[nxt[i]]]
    <2>1. ASSUME NEW i \in 1..(Len(d) + 1)
          PROVE  (IF i > Len(d) THEN << >> ELSE Found(d, i) \o x[After(d, i)])
                 = (IF i > Len(d) THEN << >> ELSE out[i] \o x[nxt[i]])
      <3>1. i > Len(d) \/ i \in 1..Len(d)
        OBVIOUS
      <3> QED BY <3>1, Zenon
    <2> QED BY <2>1, Zenon
  <1>3. g = [i \in 1..(Len(d) + 1) |->
                IF i > Len(d) THEN << >> ELSE Found(d, i) \o g[After(d, i)]]
    <2>1. f = [i \in 1..(Len(d) + 1) |->
                  IF i > Len(d) THEN << >> ELSE Found(d, i) \o f[After(d, i)]]
      BY <1>1, <1>2, Zenon DEF Scans
    <2> QED BY <2>1, Zenon
  <1>4. ExtractNALUnits(d) = g[1]
    BY Zenon DEF ExtractNALUnits
  <1> HIDE DEF g
  <1>5. Scans(g, 1, Len(d), out, nxt)
    BY <1>2, <1>3, Zenon DEF Scans
  <1> QED BY <1>4, <1>5

LEMMA AnnexBScans ==
    ASSUME NEW d, NEW out, NEW nxt, Len(d) \in Nat,
           \A i \in 1..Len(d) : out[i] = UnitAt(d, i) /\ nxt[i] = i + 1
    PROVE  \E g : Scans(g, 1, Len(d), out, nxt) /\ AnnexB(d) = g[1]
  <1>1. PICK f : Scans(f, 1, Len(d), out, nxt)
    <2>1. \A i \in 1..Len(d) : nxt[i] \in (i + 1)..(Len(d) + 1)
      OBVIOUS
    <2> QED BY <2>1, ScanExists
  <1> DEFINE g == CHOOSE g : g = [p \in 1..(Len(d) + 1) |->
                     IF p > Len(d) THEN << >> ELSE UnitAt(d, p) \o g[p + 1]]
  <1>2. ASSUME NEW x
        PROVE  [i \in 1..(Len(d) + 1) |->
                   IF i > Len(d) THEN << >> ELSE UnitAt(d, i) \o x[i + 1]]
               = [i \in 1..(Len(d) + 1) |-> IF i > Len(d) THEN << >> ELSE out[i] \o x[nxt[i]]]
    <2>1. ASSUME NEW i \in 1..(Len(d) + 1)
          PROVE  (IF i > Len(d) THEN << >> ELSE UnitAt(d, i) \o x[i + 1])
                 = (IF i > Len(d) THEN << >> ELSE out[i] \o x[nxt[i]])
      <3>1. i > Len(d) \/ i \in 1..Len(d)
        OBVIOUS
      <3> QED BY <3>1, Zenon
    <2> QED BY <2>1, Zenon
  <1>3. g = [p \in 1..(Len(d) + 1) |->
                IF p > Len(d) THEN << >> ELSE UnitAt(d, p) \o g[p + 1]]
    <2>1. f = [p \in 1..(Len(d) + 1) |->
                  IF p > Len(d) THEN << >> ELSE UnitAt(d, p) \o f[p + 1]]
      BY <1>1, <1>2, Zenon DEF Scans
    <2> QED BY <2>1, Zenon
  <1>4. AnnexB(d) = g[1]
    BY Zenon DEF AnnexB
  <1> HIDE DEF g
  <1>5. Scans(g, 1, Len(d), out, nxt)
    BY <1>2, <1>3, Zenon DEF Scans
  <1> QED BY <1>4, <1>5

-----------------------------------------------------------------------------
(* The scan for start codes.                                               *)

File == Seq(Byte)

\* What a start code is made of, and where the next may begin.
LEMMA CodeSizes ==
    ASSUME NEW d \in File, NEW i \in 1..Len(d)
    PROVE  /\ StartCodeSize(d, i) \in {0, 3, 4}
           /\ i + StartCodeSize(d, i) <= Len(d) + 1
           /\ StartCodeSize(d, i) = 0 <=> ~LongCode(d, i) /\ ~ShortCode(d, i)
           /\ LongCode(d, i) => StartCodeSize(d, i) = 4
           /\ LongCode(d, i) => ShortCode(d, i + 1) /\ ~ShortCode(d, i)
           /\ ShortCode(d, i) => StartCodeSize(d, i) = 3
           /\ ShortCode(d, i) => ~ShortCode(d, i + 1) /\ ~ShortCode(d, i + 2)
  <1>1. Len(d) \in Nat
    BY DEF File
  <1> QED BY <1>1 DEF StartCodeSize, LongCode, ShortCode

\* NalEnd is before the first start code.
LEMMA NalEndIs ==
    ASSUME NEW d \in File, NEW i \in 1..(Len(d) + 1)
    PROVE  /\ NalEnd(d, i) \in (i - 1)..Len(d)
           /\ NalEnd(d, i) < Len(d) => StartCodeSize(d, NalEnd(d, i) + 1) > 0
           /\ \A j \in i..NalEnd(d, i) : StartCodeSize(d, j) = 0
  <1> DEFINE S == {j \in i..Len(d) : StartCodeSize(d, j) > 0}
  <1>1. Len(d) \in Nat
    BY DEF File
  <1>2. i \in Nat /\ i <= Len(d) + 1 /\ S \subseteq i..Len(d)
    BY <1>1
  <1>3. PICK m : m = Min(S \cup {Len(d) + 1})
    OBVIOUS
  <1>4. /\ m \in S \cup {Len(d) + 1} /\ m \in i..(Len(d) + 1)
        /\ \A x \in i..(m - 1) : x \notin S
    <2> HIDE DEF S
    <2> QED BY <1>1, <1>2, <1>3, LeastPlace
  <1>5. NalEnd(d, i) = m - 1
    BY <1>3 DEF NalEnd
  <1>6. ASSUME NEW j \in i..(m - 1) PROVE StartCodeSize(d, j) = 0
    <2>1. j \in 1..Len(d) /\ j \in i..Len(d)
      BY <1>1, <1>4
    <2>2. ~ (StartCodeSize(d, j) > 0)
      BY <1>4, <2>1
    <2> QED BY <2>1, <2>2, CodeSizes
  <1>7. m - 1 < Len(d) => StartCodeSize(d, (m - 1) + 1) > 0
    <2>1. (m - 1) + 1 = m
      BY <1>1, <1>4
    <2> QED BY <1>1, <1>4, <2>1
  <1>8. m - 1 \in (i - 1)..Len(d)
    BY <1>1, <1>4
  <1> QED BY <1>5, <1>6, <1>7, <1>8

\* The scan goes on.
LEMMA AfterIs ==
    ASSUME NEW d \in File, NEW i \in 1..Len(d)
    PROVE  After(d, i) \in (i + 1)..(Len(d) + 1)
  <1>1. Len(d) \in Nat
    BY DEF File
  <1>2. CASE StartCodeSize(d, i) = 0
    BY <1>1, <1>2 DEF After
  <1>3. CASE StartCodeSize(d, i) # 0
    <2>1. PICK s \in {3, 4} : s = StartCodeSize(d, i) /\ i + s <= Len(d) + 1
      BY <1>3, CodeSizes
    <2>2. i + s \in 1..(Len(d) + 1)
      BY <1>1, <2>1
    <2>3. NalEnd(d, i + s) \in ((i + s) - 1)..Len(d)
      BY <2>2, NalEndIs
    <2>4. After(d, i) = NalEnd(d, i + s) + 1
      BY <1>3, <2>1 DEF After
    <2> QED BY <1>1, <2>1, <2>3, <2>4
  <1> QED BY <1>2, <1>3

\* What the scan takes for a unit is what the byte stream format says.
LEMMA UnitIs ==
    ASSUME NEW d \in File, NEW p \in 1..Len(d), ShortCode(d, p)
    PROVE  /\ p + 3 \in 1..(Len(d) + 1)
           /\ Unit(d, p) = SubSeq(d, p + 3, NalEnd(d, p + 3))
           /\ \A q \in (p + 1)..NalEnd(d, p + 3) : ~ShortCode(d, q)
  <1>1. Len(d) \in Nat /\ p + 3 <= Len(d) + 1
    BY DEF File, ShortCode
  <1>2. p + 3 \in 1..(Len(d) + 1)
    BY <1>1
  <1>3. PICK e : e = NalEnd(d, p + 3)
    OBVIOUS
  <1>4. /\ e \in (p + 2)..Len(d)
        /\ e < Len(d) => StartCodeSize(d, e + 1) > 0
        /\ \A j \in (p + 3)..e : StartCodeSize(d, j) = 0
    <2>1. (p + 3) - 1 = p + 2
      OBVIOUS
    <2> QED BY <1>2, <1>3, <2>1, NalEndIs
  <1>5. ASSUME NEW q \in (p + 1)..e PROVE ~ShortCode(d, q)
    <2>1. q = p + 1 \/ q = p + 2 \/ q \in (p + 3)..e
      BY <1>4
    <2>2. q \in 1..Len(d)
      BY <1>1, <1>4
    <2> QED BY <1>4, <2>1, <2>2, CodeSizes
  <1> DEFINE S == {q \in (p + 1)..Len(d) : ShortCode(d, q)}
  <1>6. PICK m : m = Min(S \cup {Len(d) + 1})
    OBVIOUS
  <1>7. /\ m \in S \cup {Len(d) + 1} /\ m \in (p + 1)..(Len(d) + 1)
        /\ \A x \in S : m <= x
    <2>1. p + 1 \in Nat /\ p + 1 <= Len(d) + 1 /\ S \subseteq (p + 1)..Len(d)
      BY <1>1
    <2> HIDE DEF S
    <2> QED BY <1>1, <1>6, <2>1, LeastPlace
  <1>8. m > e
    <2>1. m \in S => m \notin (p + 1)..e
      BY <1>5
    <2> QED BY <1>1, <1>4, <1>7, <2>1
  <1>9. Unit(d, p) = IF m <= Len(d) /\ d[m - 1] = 0 THEN SubSeq(d, p + 3, m - 2)
                     ELSE SubSeq(d, p + 3, m - 1)
    BY <1>6 DEF Unit
  <1>10. CASE e = Len(d)
    <2>1. m = Len(d) + 1 /\ m - 1 = e
      BY <1>1, <1>4, <1>7, <1>8, <1>10
    <2>2. ~ (m <= Len(d))
      BY <1>1, <2>1
    <2> QED BY <1>2, <1>3, <1>5, <1>9, <2>1, <2>2
  <1>11. CASE e < Len(d) /\ LongCode(d, e + 1)
    <2>1. e + 1 \in 1..Len(d) /\ (e + 1) + 1 = e + 2
      BY <1>1, <1>4, <1>11
    <2>2. ShortCode(d, e + 2) /\ ~ShortCode(d, e + 1) /\ d[e + 1] = 0
      BY <1>11, <2>1, CodeSizes DEF LongCode
    <2>3. e + 2 \in S
      BY <1>1, <1>4, <2>2 DEF ShortCode
    <2>4. m = e + 2
      <3>1. m # e + 1
        BY <1>7, <1>11, <2>2, <1>1, <1>4
      <3>2. m <= e + 2
        BY <1>7, <2>3
      <3> QED BY <1>1, <1>4, <1>7, <1>8, <3>1, <3>2
    <2>5. m <= Len(d) /\ m - 1 = e + 1 /\ m - 2 = e
      BY <1>1, <1>4, <2>3, <2>4
    <2> QED BY <1>2, <1>3, <1>5, <1>9, <2>2, <2>5
  <1>12. CASE e < Len(d) /\ ~LongCode(d, e + 1)
    <2>1. e + 1 \in 1..Len(d)
      BY <1>1, <1>4, <1>12
    <2>2. ShortCode(d, e + 1)
      <3>1. StartCodeSize(d, e + 1) # 0
        BY <1>4, <1>12
      <3> QED BY <1>12, <2>1, <3>1, CodeSizes
    <2>3. m = e + 1
      <3>1. e + 1 \in S
        BY <1>1, <1>4, <2>1, <2>2
      <3>2. m <= e + 1
        BY <1>7, <3>1
      <3> QED BY <1>1, <1>4, <1>7, <1>8, <3>2
    <2>4. d[e] # 0
      <3>1. CASE e = p + 2
        BY <3>1 DEF ShortCode
      <3>2. CASE e # p + 2
        <4>1. e \in (p + 3)..e /\ e \in 1..Len(d)
          BY <1>1, <1>4, <3>2
        <4>2. ~LongCode(d, e)
          BY <1>4, <4>1, CodeSizes
        <4> QED BY <2>2, <4>2 DEF LongCode
      <3> QED BY <3>1, <3>2
    <2>5. m - 1 = e
      BY <1>4, <2>3
    <2> QED BY <1>2, <1>3, <1>5, <1>9, <2>4, <2>5
  <1> QED BY <1>1, <1>4, <1>10, <1>11, <1>12

NalUnits == Seq(Seq(Byte) \ {<< >>})

LEMMA UnitTypes ==
    ASSUME NEW d \in File, NEW i \in 1..Len(d)
    PROVE  /\ UnitAt(d, i) \in NalUnits
           /\ ShortCode(d, i) => Found(d, i) = UnitAt(d, i)
           /\ LongCode(d, i) => Found(d, i) = UnitAt(d, i + 1)
           /\ StartCodeSize(d, i) = 0 => Found(d, i) = << >>
           /\ ~ShortCode(d, i) => UnitAt(d, i) = << >>
  <1>1. Len(d) \in Nat
    BY DEF File
  <1>2. ASSUME NEW p \in 1..Len(d), ShortCode(d, p), NEW u, u = Unit(d, p),
               NEW e, e = NalEnd(d, p + 3)
        PROVE  /\ u \in Seq(Byte) /\ (u # << >> <=> p + 3 <= e)
               /\ UnitAt(d, p) = IF p + 3 <= e THEN << SubSeq(d, p + 3, e) >> ELSE << >>
               /\ UnitAt(d, p) \in NalUnits
    <2>1. u = SubSeq(d, p + 3, e) /\ p + 3 \in 1..(Len(d) + 1)
      BY <1>2, UnitIs
    <2>2. e \in ((p + 3) - 1)..Len(d)
      BY <1>2, <2>1, NalEndIs
    <2>3. u \in Seq(Byte)
      <3>1. CASE p + 3 <= e
        <4>1. p + 3 \in 1..Len(d) /\ e \in 1..Len(d)
          BY <1>1, <2>1, <2>2, <3>1
        <4> QED BY <2>1, <4>1, SubSeqProperties DEF File
      <3>2. CASE ~ (p + 3 <= e)
        BY <1>1, <2>1, <2>2, <3>2 DEF File
      <3> QED BY <3>1, <3>2
    <2>4. u # << >> <=> p + 3 <= e
      BY <1>1, <2>1, <2>2, <2>3 DEF File
    <2>5. UnitAt(d, p) = IF u # << >> THEN << u >> ELSE << >>
      BY <1>2 DEF UnitAt
    <2>6. UnitAt(d, p) = IF p + 3 <= e THEN << SubSeq(d, p + 3, e) >> ELSE << >>
      BY <2>1, <2>4, <2>5, Zenon
    <2>7. UnitAt(d, p) \in NalUnits
      <3>1. CASE u = << >>
        BY <2>5, <3>1 DEF NalUnits
      <3>2. CASE u # << >>
        <4>1. u \in Seq(Byte) \ {<< >>}
          BY <2>3, <3>2
        <4>2. << u >> \in Seq(Seq(Byte) \ {<< >>})
          BY <4>1
        <4> QED BY <2>5, <3>2, <4>2 DEF NalUnits
      <3> QED BY <3>1, <3>2
    <2> QED BY <2>3, <2>4, <2>6, <2>7
  <1>3. UnitAt(d, i) \in NalUnits
    <2>1. CASE ShortCode(d, i)
      BY <1>2, <2>1
    <2>2. CASE ~ShortCode(d, i)
      BY <2>2 DEF UnitAt, NalUnits
    <2> QED BY <2>1, <2>2
  <1>4. CASE ShortCode(d, i)
    <2>1. StartCodeSize(d, i) = 3
      BY <1>4, CodeSizes
    <2>2. Found(d, i) = IF i + 3 <= NalEnd(d, i + 3)
                        THEN << SubSeq(d, i + 3, NalEnd(d, i + 3)) >> ELSE << >>
      BY <2>1 DEF Found
    <2>3. Found(d, i) = UnitAt(d, i)
      BY <1>2, <1>4, <2>2
    <2>4. ~LongCode(d, i)
      BY <1>4, CodeSizes
    <2> QED BY <1>3, <1>4, <2>1, <2>3, <2>4
  <1>5. CASE LongCode(d, i)
    <2>1. StartCodeSize(d, i) = 4 /\ ShortCode(d, i + 1) /\ ~ShortCode(d, i)
      BY <1>5, CodeSizes
    <2>2. PICK p \in 1..Len(d) : p = i + 1 /\ p + 3 = i + 4
      BY <1>1, <2>1 DEF ShortCode
    <2>3. Found(d, i) = IF p + 3 <= NalEnd(d, p + 3)
                        THEN << SubSeq(d, p + 3, NalEnd(d, p + 3)) >> ELSE << >>
      BY <2>1, <2>2 DEF Found
    <2>4. UnitAt(d, p) = IF p + 3 <= NalEnd(d, p + 3)
                         THEN << SubSeq(d, p + 3, NalEnd(d, p + 3)) >> ELSE << >>
      BY <1>2, <2>1, <2>2
    <2>5. Found(d, i) = UnitAt(d, i + 1)
      BY <2>2, <2>3, <2>4
    <2> QED BY <1>3, <2>1, <2>5 DEF UnitAt
  <1>6. CASE ~ShortCode(d, i) /\ ~LongCode(d, i)
    BY <1>3, <1>6, CodeSizes DEF Found, UnitAt
  <1> QED BY <1>4, <1>5, <1>6

\* Where no prefix is, the list of the units does not change.
LEMMA SkipsOthers ==
    ASSUME NEW d \in File, NEW h, NEW a \in 1..(Len(d) + 1), NEW b \in a..(Len(d) + 1),
           \A i \in 1..Len(d) : h[i] = UnitAt(d, i) \o h[i + 1],
           \A i \in a..(Len(d) + 1) : h[i] \in NalUnits,
           \A i \in a..(b - 1) : ~ShortCode(d, i)
    PROVE  h[a] = h[b]
  <1> DEFINE T == {n \in Nat : a + n <= b => h[a] = h[a + n]}
  <1>1. Len(d) \in Nat
    BY DEF File
  <1>2. 0 \in T
    BY a + 0 = a
  <1>3. ASSUME NEW n \in Nat, n \in T PROVE n + 1 \in T
    <2> SUFFICES ASSUME a + (n + 1) <= b PROVE h[a] = h[a + (n + 1)]
      OBVIOUS
    <2>1. PICK i : i = a + n /\ i + 1 = a + (n + 1)
      OBVIOUS
    <2>2. i \in 1..Len(d) /\ i \in a..(b - 1) /\ i + 1 \in a..(Len(d) + 1) /\ a + n <= b
      BY <1>1, <2>1
    <2>3. h[i] = UnitAt(d, i) \o h[i + 1] /\ UnitAt(d, i) = << >>
      BY <2>2, UnitTypes
    <2>4. h[i + 1] \in NalUnits
      BY <2>2
    <2>5. << >> \o h[i + 1] = h[i + 1]
      BY <2>4, ConcatEmptySeq DEF NalUnits
    <2> QED BY <1>3, <2>1, <2>2, <2>3, <2>5
  <1>4. Nat \subseteq T
    <2> HIDE DEF T
    <2> QED BY <1>2, <1>3, NatSetInduction
  <1>5. PICK n \in Nat : n = b - a /\ a + n = b /\ a + n <= b
    BY <1>1
  <1>6. n \in T
    <2> HIDE DEF T
    <2> QED BY <1>4, <1>5
  <1> QED BY <1>5, <1>6

\* The scan yields the units of the byte stream format, of any bytes.
THEOREM ScanFindsUnits ==
    ASSUME NEW d \in File
    PROVE  ExtractNALUnits(d) = AnnexB(d) /\ ExtractNALUnits(d) \in NalUnits
  <1>1. PICK len \in Nat : len = Len(d)
    BY DEF File
  <1>2. PICK out, nxt :
            \A i \in 1..len : out[i] = Found(d, i) /\ nxt[i] = After(d, i)
    <2>1. \A i \in 1..len : /\ [j \in 1..len |-> Found(d, j)][i] = Found(d, i)
                            /\ [j \in 1..len |-> After(d, j)][i] = After(d, i)
      BY Zenon
    <2> QED BY <2>1, ZenonT(40)
  <1>3. \A i \in 1..len : nxt[i] \in (i + 1)..(len + 1)
    BY <1>1, <1>2, AfterIs
  <1>4. PICK g : Scans(g, 1, len, out, nxt) /\ ExtractNALUnits(d) = g[1]
    BY <1>1, <1>2, <1>3, ExtractScans, ZenonT(40)
  <1>5. PICK uout, unxt : \A i \in 1..len : uout[i] = UnitAt(d, i) /\ unxt[i] = i + 1
    <2>1. \A i \in 1..len : /\ [j \in 1..len |-> UnitAt(d, j)][i] = UnitAt(d, i)
                            /\ [j \in 1..len |-> j + 1][i] = i + 1
      BY Zenon
    <2> QED BY <2>1, ZenonT(40)
  <1>6. PICK h : Scans(h, 1, len, uout, unxt) /\ AnnexB(d) = h[1]
    BY <1>1, <1>5, AnnexBScans, ZenonT(40)
  <1>7. /\ \A i \in 1..len : g[i] = Found(d, i) \o g[After(d, i)]
        /\ g[len + 1] = << >>
    <2>1. ASSUME NEW i \in 1..len PROVE g[i] = Found(d, i) \o g[After(d, i)]
      <3>1. i \in 1..(len + 1) /\ ~ (i > len)
        OBVIOUS
      <3>2. g[i] = out[i] \o g[nxt[i]]
        BY <1>4, <3>1, Zenon DEF Scans
      <3> QED BY <1>2, <3>2
    <2>2. len + 1 \in 1..(len + 1) /\ len + 1 > len
      OBVIOUS
    <2>3. g[len + 1] = << >>
      BY <1>4, <2>2, Zenon DEF Scans
    <2> QED BY <2>1, <2>3
  <1>8. /\ \A i \in 1..len : h[i] = UnitAt(d, i) \o h[i + 1]
        /\ h[len + 1] = << >>
    <2>1. ASSUME NEW i \in 1..len PROVE h[i] = UnitAt(d, i) \o h[i + 1]
      <3>1. i \in 1..(len + 1) /\ ~ (i > len)
        OBVIOUS
      <3>2. h[i] = uout[i] \o h[unxt[i]]
        BY <1>6, <3>1, Zenon DEF Scans
      <3> QED BY <1>5, <3>2
    <2>2. len + 1 \in 1..(len + 1) /\ len + 1 > len
      OBVIOUS
    <2>3. h[len + 1] = << >>
      BY <1>6, <2>2, Zenon DEF Scans
    <2> QED BY <2>1, <2>3
  <1> DEFINE From(a) == \A i \in a..(len + 1) : g[i] = h[i] /\ h[i] \in NalUnits
             T == {n \in Nat : n <= len => From((len + 1) - n)}
  <1>9. 0 \in T
    <2>1. (len + 1) - 0 = len + 1
      OBVIOUS
    <2>2. << >> \in NalUnits
      BY DEF NalUnits
    <2> QED BY <1>7, <1>8, <2>1, <2>2
  <1>10. ASSUME NEW a \in 1..len, From(a + 1) PROVE From(a)
    <2> HIDE DEF T
    <2>1. h[a] \in NalUnits
      <3>1. UnitAt(d, a) \in NalUnits /\ h[a + 1] \in NalUnits
        BY <1>1, <1>10, UnitTypes
      <3>2. UnitAt(d, a) \o h[a + 1] \in NalUnits
        BY <3>1, ConcatProperties DEF NalUnits
      <3> QED BY <1>8, <3>2
    <2>2. PICK b \in (a + 1)..(len + 1) : b = After(d, a)
      BY <1>1, AfterIs
    <2>3. g[a] = Found(d, a) \o h[b]
      BY <1>7, <1>10, <2>2
    <2>4. \A i \in a..(len + 1) : h[i] \in NalUnits
      BY <1>10, <2>1
    <2>5. ASSUME NEW p \in a..len, p < b, \A i \in (p + 1)..(b - 1) : ~ShortCode(d, i)
          PROVE  h[p] = UnitAt(d, p) \o h[b]
      <3>1. p \in 1..len /\ p + 1 \in 1..(Len(d) + 1) /\ b \in (p + 1)..(Len(d) + 1)
        BY <1>1, <2>2, <2>5
      <3>2. /\ \A i \in 1..Len(d) : h[i] = UnitAt(d, i) \o h[i + 1]
            /\ \A i \in (p + 1)..(Len(d) + 1) : h[i] \in NalUnits
        BY <1>1, <1>8, <2>4
      <3>3. h[p + 1] = h[b]
        BY <2>5, <3>1, <3>2, SkipsOthers
      <3> QED BY <1>8, <3>1, <3>3
    <2>6. CASE ShortCode(d, a)
      <3>1. StartCodeSize(d, a) = 3 /\ Found(d, a) = UnitAt(d, a)
        BY <1>1, <2>6, CodeSizes, UnitTypes
      <3>2. b - 1 = NalEnd(d, a + 3)
        <4>1. b = NalEnd(d, a + 3) + 1
          BY <2>2, <3>1 DEF After
        <4>2. NalEnd(d, a + 3) \in ((a + 3) - 1)..Len(d)
          BY <1>1, <2>6, UnitIs, NalEndIs
        <4> QED BY <1>1, <4>1, <4>2
      <3>3. \A i \in (a + 1)..(b - 1) : ~ShortCode(d, i)
        BY <1>1, <2>6, <3>2, UnitIs
      <3>4. h[a] = UnitAt(d, a) \o h[b]
        BY <2>2, <2>5, <3>3
      <3>5. g[a] = h[a]
        BY <2>3, <3>1, <3>4
      <3> QED BY <1>10, <2>1, <3>5
    <2>7. CASE LongCode(d, a)
      <3>1. /\ StartCodeSize(d, a) = 4 /\ ShortCode(d, a + 1) /\ ~ShortCode(d, a)
            /\ Found(d, a) = UnitAt(d, a + 1)
        BY <1>1, <2>7, CodeSizes, UnitTypes
      <3>2. PICK p \in 1..len : p = a + 1 /\ p + 3 = a + 4
        BY <1>1, <3>1 DEF ShortCode
      <3>3. b - 1 = NalEnd(d, p + 3) /\ b - 1 >= p
        <4>1. b = NalEnd(d, p + 3) + 1
          BY <2>2, <3>1, <3>2 DEF After
        <4>2. NalEnd(d, p + 3) \in ((p + 3) - 1)..Len(d)
          BY <1>1, <3>1, <3>2, UnitIs, NalEndIs
        <4> QED BY <1>1, <4>1, <4>2
      <3>4. \A i \in (p + 1)..(b - 1) : ~ShortCode(d, i)
        BY <1>1, <3>1, <3>2, <3>3, UnitIs
      <3>5. h[p] = UnitAt(d, p) \o h[b]
        <4>1. p \in a..len /\ p < b
          BY <2>2, <3>2, <3>3
        <4> QED BY <2>5, <3>4, <4>1
      <3>6. h[a] = h[p]
        <4>1. UnitAt(d, a) = << >> /\ h[p] \in NalUnits
          BY <1>1, <2>4, <3>1, <3>2, UnitTypes
        <4>2. << >> \o h[p] = h[p]
          BY <4>1, ConcatEmptySeq DEF NalUnits
        <4> QED BY <1>8, <3>2, <4>1, <4>2
      <3>7. g[a] = h[a]
        BY <2>3, <3>1, <3>2, <3>5, <3>6
      <3> QED BY <1>10, <2>1, <3>7
    <2>8. CASE ~ShortCode(d, a) /\ ~LongCode(d, a)
      <3>1. StartCodeSize(d, a) = 0 /\ Found(d, a) = << >> /\ UnitAt(d, a) = << >>
        BY <1>1, <2>8, CodeSizes, UnitTypes
      <3>2. b = a + 1
        BY <2>2, <3>1 DEF After
      <3>3. g[a] = h[a]
        BY <1>8, <2>3, <3>1, <3>2
      <3> QED BY <1>10, <2>1, <3>3
    <2> QED BY <2>6, <2>7, <2>8
  <1>11. ASSUME NEW n \in Nat, n \in T PROVE n + 1 \in T
    <2> SUFFICES ASSUME n + 1 <= len PROVE From((len + 1) - (n + 1))
      OBVIOUS
    <2>1. PICK a \in 1..len : a = (len + 1) - (n + 1) /\ a + 1 = (len + 1) - n
      OBVIOUS
    <2>2. From(a + 1)
      BY <1>11, <2>1
    <2> HIDE DEF From
    <2> QED BY <1>10, <2>1, <2>2
  <1>12. len \in T
    <2>1. Nat \subseteq T
      <3> HIDE DEF T
      <3> QED BY <1>9, <1>11, NatSetInduction
    <2> HIDE DEF T
    <2> QED BY <2>1
  <1>13. From(1)
    <2>1. (len + 1) - len = 1
      OBVIOUS
    <2> HIDE DEF From
    <2> QED BY <1>12, <2>1
  <1> QED BY <1>4, <1>6, <1>13

-----------------------------------------------------------------------------
(* Joined.                                                                 *)

NextJoin(x, S, w, k) == IF k \in S THEN x \o w[k] ELSE x

JoinSteps(g, S, w, n) ==
    g = [k \in 0..n |-> IF k = 0 THEN << >> ELSE NextJoin(g[k - 1], S, w, k)]

LEMMA JoinExists ==
    ASSUME NEW S, NEW w, NEW n \in Nat
    PROVE  \E g : JoinSteps(g, S, w, n)
  <1> DEFINE T == {m \in Nat : \E g : JoinSteps(g, S, w, m)}
  <1>1. 0 \in T
    <2>1. \A x : (IF 0 = 0 THEN << >> ELSE x) = << >>
      OBVIOUS
    <2> DEFINE g == [k \in 0..0 |-> << >>]
    <2>2. ASSUME NEW k \in 0..0
          PROVE  << >> = IF k = 0 THEN << >> ELSE NextJoin(g[k - 1], S, w, k)
      <3>1. k = 0
        OBVIOUS
      <3> QED BY <3>1, Zenon
    <2>3. JoinSteps(g, S, w, 0)
      BY <2>2, Zenon DEF JoinSteps
    <2> QED BY <2>3
  <1>2. ASSUME NEW m \in Nat, m \in T PROVE m + 1 \in T
    <2>1. PICK g : JoinSteps(g, S, w, m)
      BY <1>2
    <2>2. PICK e : e = NextJoin(g[m], S, w, m + 1)
      OBVIOUS
    <2> DEFINE f == [k \in 0..(m + 1) |-> IF k = m + 1 THEN e ELSE g[k]]
    <2>3. ASSUME NEW k \in 0..(m + 1)
          PROVE  f[k] = IF k = 0 THEN << >> ELSE NextJoin(f[k - 1], S, w, k)
      <3>1. CASE k = m + 1
        <4>1. k # 0 /\ k - 1 = m /\ f[k - 1] = g[m] /\ f[k] = e
          BY <3>1
        <4> HIDE DEF f
        <4> QED BY <2>2, <3>1, <4>1, Zenon
      <3>2. CASE k # m + 1
        <4>1. k \in 0..m /\ f[k] = g[k] /\ (k # 0 => f[k - 1] = g[k - 1])
          BY <3>2
        <4>2. g[k] = IF k = 0 THEN << >> ELSE NextJoin(g[k - 1], S, w, k)
          BY <2>1, <4>1, Zenon DEF JoinSteps
        <4> HIDE DEF f
        <4> QED BY <4>1, <4>2, Zenon
      <3> QED BY <3>1, <3>2
    <2>4. f = [k \in 0..(m + 1) |-> f[k]]
      OBVIOUS
    <2> HIDE DEF f
    <2>5. JoinSteps(f, S, w, m + 1)
      BY <2>3, <2>4, Zenon DEF JoinSteps
    <2> QED BY <2>5
  <1>3. Nat \subseteq T
    <2> HIDE DEF T
    <2> QED BY <1>1, <1>2, NatSetInduction
  <1> QED BY <1>3

\* Joined is what a solution has at its end.
LEMMA JoinedSteps ==
    ASSUME NEW S, NEW w, Len(w) \in Nat
    PROVE  \E g : JoinSteps(g, S, w, Len(w)) /\ Joined(S, w) = g[Len(w)]
  <1>1. PICK f : JoinSteps(f, S, w, Len(w))
    BY JoinExists
  <1> DEFINE g == CHOOSE g : g = [k \in 0..Len(w) |->
                     IF k = 0 THEN << >> ELSE IF k \in S THEN g[k - 1] \o w[k] ELSE g[k - 1]]
  <1>2. g = [k \in 0..Len(w) |->
                IF k = 0 THEN << >> ELSE IF k \in S THEN g[k - 1] \o w[k] ELSE g[k - 1]]
    <2>1. f = [k \in 0..Len(w) |->
                  IF k = 0 THEN << >> ELSE IF k \in S THEN f[k - 1] \o w[k] ELSE f[k - 1]]
      BY <1>1, Zenon DEF JoinSteps, NextJoin
    <2> QED BY <2>1, Zenon
  <1>3. Joined(S, w) = g[Len(w)]
    BY Zenon DEF Joined
  <1> HIDE DEF g
  <1>4. JoinSteps(g, S, w, Len(w))
    BY <1>2, Zenon DEF JoinSteps, NextJoin
  <1> QED BY <1>3, <1>4

\* Its equations.
JoinEquation(g, S, w, k) ==
    /\ k + 1 \in S => g[k + 1] = g[k] \o w[k + 1]
    /\ k + 1 \notin S => g[k + 1] = g[k]
JoinEquations(g, S, w, n) ==
    g[0] = << >> /\ \A k \in 0..(n - 1) : JoinEquation(g, S, w, k)

LEMMA JoinStep ==
    ASSUME NEW S, NEW w, NEW n \in Nat, NEW g, JoinSteps(g, S, w, n)
    PROVE  JoinEquations(g, S, w, n)
  <1>1. g[0] = << >>
    <2>1. 0 \in 0..n
      OBVIOUS
    <2> QED BY <2>1, Zenon DEF JoinSteps
  <1>2. ASSUME NEW k \in 0..(n - 1)
        PROVE  g[k + 1] = NextJoin(g[k], S, w, k + 1)
    <2>1. k + 1 \in 0..n /\ k + 1 # 0 /\ (k + 1) - 1 = k
      OBVIOUS
    <2>2. g[k + 1] = NextJoin(g[(k + 1) - 1], S, w, k + 1)
      BY <2>1, Zenon DEF JoinSteps
    <2> QED BY <2>1, <2>2
  <1>3. ASSUME NEW k \in 0..(n - 1) PROVE JoinEquation(g, S, w, k)
    BY <1>2, Zenon DEF JoinEquation, NextJoin
  <1> QED BY <1>1, <1>3 DEF JoinEquations

LEMMA JoinTypes ==
    ASSUME NEW X, NEW S, NEW n \in Nat, NEW w, \A k \in 1..n : w[k] \in Seq(X),
           NEW g, JoinSteps(g, S, w, n)
    PROVE  \A k \in 0..n : g[k] \in Seq(X)
  <1>e. JoinEquations(g, S, w, n)
    BY JoinStep
  <1> DEFINE T == {k \in Nat : k <= n => g[k] \in Seq(X)}
  <1>1. 0 \in T
    <2>1. g[0] = << >>
      BY <1>e DEF JoinEquations
    <2>2. << >> \in Seq(X)
      OBVIOUS
    <2> QED BY <2>1, <2>2
  <1>2. ASSUME NEW k \in Nat, k \in T PROVE k + 1 \in T
    <2> SUFFICES ASSUME k + 1 <= n PROVE g[k + 1] \in Seq(X)
      OBVIOUS
    <2>1. k \in 0..(n - 1) /\ k + 1 \in 1..n /\ g[k] \in Seq(X)
      BY <1>2
    <2>2. w[k + 1] \in Seq(X)
      BY <2>1
    <2>3. g[k] \o w[k + 1] \in Seq(X)
      BY <2>1, <2>2, ConcatProperties
    <2>4. g[k + 1] = g[k] \o w[k + 1] \/ g[k + 1] = g[k]
      <3>1. JoinEquation(g, S, w, k)
        BY <1>e, <2>1 DEF JoinEquations
      <3> QED BY <3>1, Zenon DEF JoinEquation
    <2> QED BY <2>1, <2>3, <2>4
  <1>3. Nat \subseteq T
    <2> HIDE DEF T
    <2> QED BY <1>1, <1>2, NatSetInduction
  <1> QED BY <1>3

LEMMA JoinedType ==
    ASSUME NEW X, NEW S, NEW w \in Seq(Seq(X))
    PROVE  Joined(S, w) \in Seq(X)
  <1>1. Len(w) \in Nat /\ \A k \in 1..Len(w) : w[k] \in Seq(X)
    OBVIOUS
  <1>2. PICK g : JoinSteps(g, S, w, Len(w)) /\ Joined(S, w) = g[Len(w)]
    BY <1>1, JoinedSteps
  <1>3. \A k \in 0..Len(w) : g[k] \in Seq(X)
    BY <1>1, <1>2, JoinTypes
  <1> QED BY <1>1, <1>2, <1>3

\* What is joined later comes behind what was joined before.
LEMMA JoinedGrows ==
    ASSUME NEW X, NEW w \in Seq(Seq(X)), NEW p \in 0..Len(w),
           NEW S \in SUBSET (1..p), NEW F \in SUBSET ((p + 1)..Len(w))
    PROVE  Joined(S \cup F, w) = Joined(S, w) \o Joined(F, w)
  <1>1. PICK n \in Nat : n = Len(w) /\ \A k \in 1..n : w[k] \in Seq(X)
    OBVIOUS
  <1>2. PICK g : JoinSteps(g, S, w, n) /\ Joined(S, w) = g[n]
    BY <1>1, JoinedSteps
  <1>3. PICK h : JoinSteps(h, F, w, n) /\ Joined(F, w) = h[n]
    BY <1>1, JoinedSteps
  <1>4. PICK u : JoinSteps(u, S \cup F, w, n) /\ Joined(S \cup F, w) = u[n]
    BY <1>1, JoinedSteps
  <1>5. \A k \in 0..n : g[k] \in Seq(X) /\ h[k] \in Seq(X)
    BY <1>1, <1>2, <1>3, JoinTypes
  <1>e. JoinEquations(g, S, w, n) /\ JoinEquations(h, F, w, n) /\ JoinEquations(u, S \cup F, w, n)
    BY <1>2, <1>3, <1>4, JoinStep
  <1> DEFINE Both(k) == u[k] = g[k] \o h[k] /\ (k <= p => h[k] = << >>)
             T == {k \in Nat : k <= n => Both(k)}
  <1>6. 0 \in T
    <2>1. g[0] = << >> /\ h[0] = << >> /\ u[0] = << >>
      BY <1>e DEF JoinEquations
    <2>2. << >> \o << >> = << >>
      OBVIOUS
    <2>3. u[0] = g[0] \o h[0]
      BY <2>1, <2>2
    <2> QED BY <2>1, <2>3
  <1>7. ASSUME NEW k \in Nat, k \in T PROVE k + 1 \in T
    <2> SUFFICES ASSUME k + 1 <= n PROVE Both(k + 1)
      <3> HIDE DEF Both
      <3> QED OBVIOUS
    <2>1. k \in 0..(n - 1) /\ k + 1 \in 1..n /\ k \in 0..n
      OBVIOUS
    <2>k. /\ JoinEquation(g, S, w, k) /\ JoinEquation(h, F, w, k)
          /\ JoinEquation(u, S \cup F, w, k)
      BY <1>e, <2>1 DEF JoinEquations
    <2>2. Both(k)
      <3> HIDE DEF Both
      <3> QED BY <1>7, <2>1
    <2>3. /\ g[k] \in Seq(X) /\ h[k] \in Seq(X) /\ w[k + 1] \in Seq(X)
      BY <1>1, <1>5, <2>1
    <2>4. CASE k + 1 \in S
      <3>1. k + 1 <= p /\ k <= p /\ k + 1 \notin F
        BY <1>1, <2>1, <2>4
      <3>2. g[k + 1] = g[k] \o w[k + 1] /\ h[k + 1] = h[k] /\ u[k + 1] = u[k] \o w[k + 1]
        BY <2>k, <2>4, <3>1, Zenon DEF JoinEquation
      <3>3. h[k] = << >>
        BY <2>2, <3>1
      <3>4. g[k] \o << >> = g[k] /\ g[k] \o w[k + 1] \in Seq(X)
        BY <2>3, ConcatEmptySeq, ConcatProperties
      <3>5. (g[k] \o w[k + 1]) \o << >> = g[k] \o w[k + 1]
        BY <3>4, ConcatEmptySeq
      <3> QED BY <2>2, <3>2, <3>3, <3>4, <3>5
    <2>5. CASE k + 1 \in F
      <3>1. ~ (k + 1 <= p) /\ k + 1 \notin S
        BY <1>1, <2>1, <2>5
      <3>2. g[k + 1] = g[k] /\ h[k + 1] = h[k] \o w[k + 1] /\ u[k + 1] = u[k] \o w[k + 1]
        BY <2>k, <2>5, <3>1, Zenon DEF JoinEquation
      <3>3. (g[k] \o h[k]) \o w[k + 1] = g[k] \o (h[k] \o w[k + 1])
        <4>1. PICK a \in Seq(X), b \in Seq(X), c \in Seq(X) :
                  a = g[k] /\ b = h[k] /\ c = w[k + 1]
          BY <2>3
        <4>2. (a \o b) \o c = a \o (b \o c)
          BY ConcatAssociative, SMTT(30)
        <4> QED BY <4>1, <4>2
      <3> QED BY <2>2, <3>1, <3>2, <3>3
    <2>6. CASE k + 1 \notin S /\ k + 1 \notin F
      <3>1. k + 1 <= p => k <= p
        BY <1>1
      <3>2. g[k + 1] = g[k] /\ h[k + 1] = h[k] /\ u[k + 1] = u[k]
        BY <2>k, <2>6, Zenon DEF JoinEquation
      <3> QED BY <2>2, <3>1, <3>2
    <2> QED BY <2>4, <2>5, <2>6
  <1>8. Nat \subseteq T
    <2> HIDE DEF T
    <2> QED BY <1>6, <1>7, NatSetInduction
  <1>9. Both(n)
    <2> HIDE DEF Both
    <2> QED BY <1>8
  <1> QED BY <1>2, <1>3, <1>4, <1>9

-----------------------------------------------------------------------------
(* The fragments of a NAL unit.                                            *)

Packet == [data : Seq(Byte), last : BOOLEAN]

FragSize == MaxPayload - 2
FragCount(u) == (Len(u) - 2) \div FragSize + 1

\* The last byte of u in the first i fragments; its header counts as sent.
FragEnd(u, i) == IF i = FragCount(u) THEN Len(u) ELSE i * FragSize + 1

LEMMA DivFacts ==
    ASSUME NEW a \in Nat, NEW n \in Nat \ {0}
    PROVE  /\ a \div n \in Nat
           /\ (a \div n) * n <= a
           /\ a < (a \div n + 1) * n
  <1>1. PICK q \in Nat, r \in 0..(n - 1) : a = q * n + r /\ q = a \div n
    <2>1. a = (a \div n) * n + (a % n) /\ a % n \in 0..(n - 1) /\ a \div n \in Nat
      OBVIOUS
    <2> QED BY <2>1
  <1>2. (q + 1) * n = q * n + n /\ q * n \in Nat
    OBVIOUS
  <1>3. q * n <= a /\ a < (q + 1) * n
    BY <1>1, <1>2
  <1> QED BY <1>1, <1>3

LEMMA TimesMonotone ==
    ASSUME NEW a \in Nat, NEW b \in Nat, NEW n \in Nat, a <= b
    PROVE  a * n <= b * n /\ a * n \in Nat /\ (a + 1) * n = a * n + n
  <1>1. PICK c \in Nat : b = a + c
    <2>1. b - a \in Nat /\ b = a + (b - a)
      OBVIOUS
    <2> QED BY <2>1
  <1>2. (a + c) * n = a * n + c * n /\ a * n \in Nat /\ c * n \in Nat
    OBVIOUS
  <1>3. (a + 1) * n = a * n + n
    OBVIOUS
  <1> QED BY <1>1, <1>2, <1>3

\* All fragments but the last are full, and the last is not empty.
LEMMA FragEnds ==
    ASSUME NEW u \in Seq(Byte), Len(u) > MaxPayload
    PROVE  /\ FragSize \in Nat \ {0} /\ FragCount(u) \in Nat /\ FragCount(u) >= 2
           /\ FragEnd(u, 0) = 1
           /\ \A i \in 1..FragCount(u) :
                /\ FragEnd(u, i - 1) \in 1..Len(u) /\ FragEnd(u, i) \in 1..Len(u)
                /\ FragEnd(u, i - 1) = (i - 1) * FragSize + 1
                /\ FragEnd(u, i - 1) < FragEnd(u, i)
                /\ FragEnd(u, i) <= FragEnd(u, i - 1) + FragSize
                /\ Min({i * FragSize + 1, Len(u)}) = FragEnd(u, i)
  <1>1. FragSize \in Nat \ {0} /\ MaxPayload = FragSize + 2
    BY PayloadAssumption DEF FragSize
  <1>2. PICK s \in Nat \ {0}, a \in Nat : s = FragSize /\ a = Len(u) - 2 /\ a > s
    <2>1. Len(u) \in Nat
      OBVIOUS
    <2>2. Len(u) - 2 \in Nat /\ Len(u) - 2 > FragSize
      BY <1>1, <2>1
    <2> QED BY <1>1, <2>2
  <1>3. PICK n \in Nat : n = a \div s + 1 /\ n = FragCount(u) /\ n >= 1
    BY <1>2, DivFacts DEF FragCount
  <1>4. (n - 1) * s <= a /\ a < n * s
    <2>1. PICK q \in Nat : q = a \div s
      BY <1>2, DivFacts
    <2>2. q * s <= a /\ a < (q + 1) * s /\ n - 1 = q /\ n = q + 1
      BY <1>2, <1>3, <2>1, DivFacts
    <2> QED BY <2>2
  <1>5. n >= 2
    <2>1. n = 1 => n * s = s
      OBVIOUS
    <2> QED BY <1>2, <1>3, <1>4, <2>1
  <1>6. \A i : FragEnd(u, i) = IF i = n THEN Len(u) ELSE i * s + 1
    BY <1>2, <1>3 DEF FragEnd
  <1>7. FragEnd(u, 0) = 1
    <2>1. 0 * s = 0
      OBVIOUS
    <2> QED BY <1>5, <1>6, <2>1
  <1>8. ASSUME NEW i \in 1..n
        PROVE  /\ FragEnd(u, i - 1) \in 1..Len(u) /\ FragEnd(u, i) \in 1..Len(u)
               /\ FragEnd(u, i - 1) = (i - 1) * s + 1
               /\ FragEnd(u, i - 1) < FragEnd(u, i)
               /\ FragEnd(u, i) <= FragEnd(u, i - 1) + s
               /\ Min({i * s + 1, Len(u)}) = FragEnd(u, i)
    <2>1. PICK j \in Nat : j = i - 1 /\ i = j + 1
      OBVIOUS
    <2>2. PICK x \in Nat, y \in Nat : x = j * s /\ y = i * s /\ y = x + s
      <3>1. j * s \in Nat /\ (j + 1) * s = j * s + s
        BY TimesMonotone
      <3> QED BY <2>1, <3>1
    <2>3. x <= a
      <3>1. n - 1 \in Nat /\ j <= n - 1
        BY <1>3, <2>1
      <3>2. j * s <= (n - 1) * s
        BY <3>1, TimesMonotone
      <3>3. (n - 1) * s \in Int
        BY <3>1
      <3> QED BY <1>4, <2>2, <3>2, <3>3
    <2>4. i # n => y <= a
      <3> SUFFICES ASSUME i # n PROVE y <= a
        OBVIOUS
      <3>1. n - 1 \in Nat /\ i <= n - 1 /\ i \in Nat
        BY <1>3
      <3>2. i * s <= (n - 1) * s
        BY <3>1, TimesMonotone
      <3>3. (n - 1) * s \in Int
        BY <3>1
      <3> QED BY <1>4, <2>2, <3>2, <3>3
    <2>5. i = n => a < y
      BY <1>4, <2>2
    <2>6. FragEnd(u, i - 1) = x + 1
      BY <1>6, <2>1, <2>2
    <2>7. PICK e \in Nat : e = FragEnd(u, i) /\ (i = n => e = a + 2) /\ (i # n => e = y + 1)
      BY <1>2, <1>6, <2>2
    <2>8. Len(u) = a + 2
      BY <1>2
    <2>9. Min({y + 1, a + 2}) = e
      <3>1. e \in {y + 1, a + 2} /\ \A z \in {y + 1, a + 2} : e <= z
        BY <2>2, <2>4, <2>5, <2>7
      <3>2. \A f \in {y + 1, a + 2} : (\A z \in {y + 1, a + 2} : f <= z) => f = e
        BY <2>7, <3>1
      <3> QED BY <3>1, <3>2 DEF Min
    <2> QED BY <2>1, <2>2, <2>3, <2>4, <2>5, <2>6, <2>7, <2>8, <2>9
  <1> QED BY <1>1, <1>2, <1>3, <1>5, <1>7, <1>8

\* What the bytes of a header say, and that the fragments' headers keep it.
LEMMA FuBytes ==
    ASSUME NEW h \in Byte
    PROVE  /\ (h \div 32) * 32 + 28 \in Byte
           /\ ((h \div 32) * 32 + 28) % 32 = 28
           /\ h % 32 \in 0..31
           /\ ((((h \div 32) * 32 + 28) \div 32) * 32) + (h % 32) = h
  BY DEF Byte

LEMMA FuHeaders ==
    ASSUME NEW t \in 0..31
    PROVE  /\ t \in Byte /\ t + 128 \in Byte /\ t + 64 \in Byte
           /\ t % 128 = t /\ (t + 128) % 128 = t /\ (t + 128) % 32 = t
           /\ (t + 64) % 128 = t + 64
  BY DEF Byte

FragData(u, i) ==
    <<FuIndicator(u), FuHeader(u, i = 1, i = FragCount(u))>>
        \o SubSeq(u, FragEnd(u, i - 1) + 1, FragEnd(u, i))

\* Fragments, told by where each ends.
LEMMA FragmentsAre ==
    ASSUME NEW u \in Seq(Byte), Len(u) > MaxPayload
    PROVE  /\ Fragments(u) \in Seq(Packet) /\ Len(Fragments(u)) = FragCount(u)
           /\ \A i \in 1..FragCount(u) :
                /\ Fragments(u)[i].data = FragData(u, i)
                /\ Fragments(u)[i].last <=> i = FragCount(u)
                /\ Len(Fragments(u)[i].data) \in 1..MaxPayload
  <1>1. PICK n \in Nat : n = FragCount(u) /\ n >= 2
    BY FragEnds
  <1>2. u[1] \in Byte /\ Len(u) \in Nat
    BY PayloadAssumption
  <1>3. FuIndicator(u) \in Byte
    BY <1>2, FuBytes DEF FuIndicator
  <1>4. ASSUME NEW i \in 1..n
        PROVE  /\ FuHeader(u, i = 1, i = n) \in Byte
               /\ FragData(u, i) \in Seq(Byte) /\ Len(FragData(u, i)) \in 1..MaxPayload
    <2>1. PICK t \in 0..31 : t = NalType(u)
      BY <1>2, FuBytes DEF NalType
    <2>2. FuHeader(u, i = 1, i = n) \in Byte
      <3>1. PICK x \in {0, 128}, y \in {0, 64} :
                x = (IF i = 1 THEN 128 ELSE 0) /\ y = (IF i = n THEN 64 ELSE 0)
        OBVIOUS
      <3>2. FuHeader(u, i = 1, i = n) = t + x + y
        BY <2>1, <3>1, Zenon DEF FuHeader
      <3>3. t + x + y \in Byte
        BY DEF Byte
      <3> QED BY <3>2, <3>3
    <2>3. PICK a \in 1..Len(u), b \in 1..Len(u) :
              /\ a = FragEnd(u, i - 1) /\ b = FragEnd(u, i)
              /\ a < b /\ b <= a + FragSize
      BY <1>1, FragEnds
    <2>4. PICK rest \in Seq(Byte) : rest = SubSeq(u, a + 1, b) /\ Len(rest) = b - a
      <3>1. PICK c \in 1..Len(u) : c = a + 1 /\ c <= b /\ (b - c) + 1 = b - a
        BY <1>2, <2>3, SMTT(30)
      <3>2. SubSeq(u, c, b) \in Seq(Byte) /\ Len(SubSeq(u, c, b)) = (b - c) + 1
        BY <3>1, SubSeqProperties
      <3> QED BY <3>1, <3>2
    <2>5. PICK head \in Seq(Byte) :
              head = <<FuIndicator(u), FuHeader(u, i = 1, i = n)>> /\ Len(head) = 2
      <3>1. PICK x \in Byte, y \in Byte : x = FuIndicator(u) /\ y = FuHeader(u, i = 1, i = n)
        BY <1>3, <2>2, Zenon
      <3>2. << x, y >> \in Seq(Byte) /\ Len(<< x, y >>) = 2
        OBVIOUS
      <3> QED BY <3>1, <3>2, Zenon
    <2>6. FragData(u, i) = head \o rest
      BY <1>1, <2>3, <2>4, <2>5 DEF FragData
    <2>7. head \o rest \in Seq(Byte) /\ Len(head \o rest) = 2 + (b - a)
      BY <2>4, <2>5, ConcatProperties
    <2>8. 2 + (b - a) \in 1..MaxPayload
      BY <2>3, PayloadAssumption DEF FragSize
    <2> QED BY <2>2, <2>6, <2>7, <2>8
  <1>5. Fragments(u) = [i \in 1..n |-> [data |-> FragData(u, i), last |-> i = n]]
    <2>1. ASSUME NEW i \in 1..n
          PROVE  SubSeq(u, FragEnd(u, i - 1) + 1, FragEnd(u, i))
                 = SubSeq(u, (i - 1) * FragSize + 2, Min({i * FragSize + 1, Len(u)}))
      <3>1. PICK x \in Nat : x = (i - 1) * FragSize
        BY FragEnds
      <3>2. FragEnd(u, i - 1) = x + 1 /\ Min({i * FragSize + 1, Len(u)}) = FragEnd(u, i)
        BY <1>1, <3>1, FragEnds
      <3>3. (x + 1) + 1 = x + 2
        OBVIOUS
      <3> QED BY <3>1, <3>2, <3>3, Zenon
    <2>2. ASSUME NEW i \in 1..n
          PROVE  FragData(u, i) = <<FuIndicator(u), FuHeader(u, i = 1, i = n)>>
                   \o SubSeq(u, (i - 1) * FragSize + 2, Min({i * FragSize + 1, Len(u)}))
      BY <1>1, <2>1, Zenon DEF FragData
    <2>3. Fragments(u) = [i \in 1..n |->
              [data |-> <<FuIndicator(u), FuHeader(u, i = 1, i = n)>>
                 \o SubSeq(u, (i - 1) * FragSize + 2, Min({i * FragSize + 1, Len(u)})),
               last |-> i = n]]
      BY <1>1, Zenon DEF Fragments, FragSize, FragCount
    <2> QED BY <2>2, <2>3, Zenon
  <1>6. ASSUME NEW i \in 1..n
        PROVE  /\ Fragments(u)[i] \in Packet
               /\ Fragments(u)[i].data = FragData(u, i)
               /\ Fragments(u)[i].last <=> i = n
    <2>1. Fragments(u)[i] = [data |-> FragData(u, i), last |-> i = n]
      BY <1>5, Zenon
    <2>2. (i = n) \in BOOLEAN
      BY Zenon
    <2>3. [data |-> FragData(u, i), last |-> i = n] \in Packet
      BY <1>4, <2>2, Zenon DEF Packet
    <2>4. Fragments(u)[i] \in Packet
      BY <2>1, <2>3, Zenon
    <2>5. PICK d, l : d = FragData(u, i) /\ l = (i = n)
      BY Zenon
    <2>6. Fragments(u)[i] = [data |-> d, last |-> l]
      BY <2>1, <2>5, Zenon
    <2>7. Fragments(u)[i].data = d /\ Fragments(u)[i].last = l
      BY <2>6
    <2> QED BY <2>4, <2>5, <2>7, Zenon
  <1>7. Fragments(u) \in Seq(Packet) /\ Len(Fragments(u)) = n
    <2>1. Fragments(u) \in [1..n -> Packet]
      BY <1>5, <1>6, Zenon
    <2> HIDE DEF Packet
    <2> QED BY <2>1
  <1> QED BY <1>1, <1>4, <1>6, <1>7

NalUnit == Seq(Byte) \ {<< >>}

LEMMA HandleFrameTypes ==
    ASSUME NEW u \in NalUnit
    PROVE  /\ HandleFrame(u) \in Seq(Packet)
           /\ \A i \in 1..Len(HandleFrame(u)) : Len(HandleFrame(u)[i].data) \in 1..MaxPayload
  <1>1. u \in Seq(Byte) /\ Len(u) \in Nat /\ Len(u) # 0
    BY DEF NalUnit
  <1>2. CASE Len(u) <= MaxPayload
    <2>1. PICK p : p = [data |-> u, last |-> TRUE]
      OBVIOUS
    <2>2. p \in Packet /\ p.data = u
      BY <1>1, <2>1 DEF Packet
    <2>3. HandleFrame(u) = << p >>
      BY <1>2, <2>1 DEF HandleFrame
    <2>4. << p >> \in Seq(Packet) /\ Len(<< p >>) = 1 /\ << p >>[1] = p
      BY <2>2
    <2>5. Len(u) \in 1..MaxPayload
      BY <1>1, <1>2, PayloadAssumption
    <2> QED BY <2>2, <2>3, <2>4, <2>5
  <1>3. CASE ~ (Len(u) <= MaxPayload)
    <2>1. Len(u) > MaxPayload
      BY <1>1, <1>3, PayloadAssumption
    <2>2. HandleFrame(u) = Fragments(u)
      BY <1>3, Zenon DEF HandleFrame
    <2> QED BY <1>1, <2>1, <2>2, FragmentsAre
  <1> QED BY <1>2, <1>3

-----------------------------------------------------------------------------
(* The receiver.                                                           *)

Has(us, part) == [units |-> us, part |-> part]

ReceiveSteps(g, ps, n) ==
    g = [i \in 0..n |-> IF i = 0 THEN Has(<< >>, << >>) ELSE Receive(g[i - 1], ps[i])]

LEMMA ReceiveExists ==
    ASSUME NEW ps, NEW n \in Nat
    PROVE  \E g : ReceiveSteps(g, ps, n)
  <1> DEFINE T == {m \in Nat : \E g : ReceiveSteps(g, ps, m)}
  <1>1. 0 \in T
    <2> DEFINE g == [i \in 0..0 |-> Has(<< >>, << >>)]
    <2>1. ASSUME NEW i \in 0..0
          PROVE  Has(<< >>, << >>) = IF i = 0 THEN Has(<< >>, << >>)
                                     ELSE Receive(g[i - 1], ps[i])
      <3>1. i = 0
        OBVIOUS
      <3> QED BY <3>1, Zenon
    <2>2. ReceiveSteps(g, ps, 0)
      BY <2>1, Zenon DEF ReceiveSteps
    <2> QED BY <2>2
  <1>2. ASSUME NEW m \in Nat, m \in T PROVE m + 1 \in T
    <2>1. PICK g : ReceiveSteps(g, ps, m)
      BY <1>2
    <2>2. PICK e : e = Receive(g[m], ps[m + 1])
      BY Zenon
    <2> DEFINE f == [i \in 0..(m + 1) |-> IF i = m + 1 THEN e ELSE g[i]]
    <2>3. ASSUME NEW i \in 0..(m + 1)
          PROVE  f[i] = IF i = 0 THEN Has(<< >>, << >>) ELSE Receive(f[i - 1], ps[i])
      <3>1. CASE i = m + 1
        <4>1. i # 0 /\ i - 1 = m /\ f[i - 1] = g[m] /\ f[i] = e
          BY <3>1
        <4> HIDE DEF f
        <4> QED BY <2>2, <3>1, <4>1, Zenon
      <3>2. CASE i # m + 1
        <4>1. i \in 0..m /\ f[i] = g[i] /\ (i # 0 => f[i - 1] = g[i - 1])
          BY <3>2
        <4>2. g[i] = IF i = 0 THEN Has(<< >>, << >>) ELSE Receive(g[i - 1], ps[i])
          BY <2>1, <4>1, Zenon DEF ReceiveSteps
        <4> HIDE DEF f
        <4> QED BY <4>1, <4>2, Zenon
      <3> QED BY <3>1, <3>2
    <2>4. f = [i \in 0..(m + 1) |-> f[i]]
      OBVIOUS
    <2> HIDE DEF f
    <2>5. ReceiveSteps(f, ps, m + 1)
      BY <2>3, <2>4, Zenon DEF ReceiveSteps
    <2> QED BY <2>5
  <1>3. Nat \subseteq T
    <2> HIDE DEF T
    <2> QED BY <1>1, <1>2, NatSetInduction
  <1> QED BY <1>3

\* Its equations.
LEMMA ReceivedIs ==
    ASSUME NEW ps, Len(ps) \in Nat
    PROVE  /\ Received(ps)[0] = Has(<< >>, << >>)
           /\ \A i \in 1..Len(ps) : Received(ps)[i] = Receive(Received(ps)[i - 1], ps[i])
  <1>1. PICK f : ReceiveSteps(f, ps, Len(ps))
    BY ReceiveExists
  <1> DEFINE g == CHOOSE g : g = [i \in 0..Len(ps) |->
                     IF i = 0 THEN [units |-> << >>, part |-> << >>]
                     ELSE Receive(g[i - 1], ps[i])]
  <1>2. g = [i \in 0..Len(ps) |-> IF i = 0 THEN [units |-> << >>, part |-> << >>]
                                  ELSE Receive(g[i - 1], ps[i])]
    <2>1. f = [i \in 0..Len(ps) |-> IF i = 0 THEN [units |-> << >>, part |-> << >>]
                                    ELSE Receive(f[i - 1], ps[i])]
      BY <1>1, Zenon DEF ReceiveSteps, Has
    <2> QED BY <2>1, Zenon
  <1>3. Received(ps) = g
    BY Zenon DEF Received
  <1> HIDE DEF g
  <1>4. g[0] = Has(<< >>, << >>)
    <2>1. 0 \in 0..Len(ps)
      OBVIOUS
    <2> QED BY <1>2, <2>1, Zenon DEF Has
  <1>5. ASSUME NEW i \in 1..Len(ps) PROVE g[i] = Receive(g[i - 1], ps[i])
    <2>1. i \in 0..Len(ps) /\ i # 0
      OBVIOUS
    <2> QED BY <1>2, <2>1, Zenon
  <1> QED BY <1>3, <1>4, <1>5, Zenon

\* Later packets do not change what earlier ones did.
LEMMA ReceivedStays ==
    ASSUME NEW ps \in Seq(Packet), NEW more \in Seq(Packet)
    PROVE  \A i \in 0..Len(ps) : Received(ps \o more)[i] = Received(ps)[i]
  <1>1. PICK qs \in Seq(Packet) : qs = ps \o more
    <2>1. ps \o more \in Seq(Packet)
      BY ConcatProperties
    <2> QED BY <2>1
  <1>2. /\ Len(ps) \in Nat /\ Len(qs) \in Nat /\ Len(ps) <= Len(qs)
        /\ \A i \in 1..Len(ps) : qs[i] = ps[i]
    BY <1>1
  <1> DEFINE T == {i \in Nat : i <= Len(ps) => Received(qs)[i] = Received(ps)[i]}
  <1>3. 0 \in T
    BY <1>2, ReceivedIs
  <1>4. ASSUME NEW i \in Nat, i \in T PROVE i + 1 \in T
    <2> SUFFICES ASSUME i + 1 <= Len(ps) PROVE Received(qs)[i + 1] = Received(ps)[i + 1]
      OBVIOUS
    <2>1. PICK k \in 1..Len(ps) : k = i + 1 /\ k - 1 = i /\ k \in 1..Len(qs) /\ qs[k] = ps[k]
      BY <1>2
    <2>2. Received(qs)[i] = Received(ps)[i]
      BY <1>2, <1>4
    <2>3. /\ Received(qs)[k] = Receive(Received(qs)[k - 1], qs[k])
          /\ Received(ps)[k] = Receive(Received(ps)[k - 1], ps[k])
      BY <1>2, <2>1, ReceivedIs
    <2> QED BY <2>1, <2>2, <2>3, Zenon
  <1>5. Nat \subseteq T
    <2> HIDE DEF T
    <2> QED BY <1>3, <1>4, NatSetInduction
  <1> QED BY <1>1, <1>2, <1>5

\* A packet that is a NAL unit.
LEMMA ReceiveWhole ==
    ASSUME NEW us, NEW part, NEW p, NalType(p.data) # 28
    PROVE  Receive(Has(us, part), p) = Has(Append(us, p.data), << >>)
  <1>1. Has(us, part).units = us
    BY DEF Has
  <1> QED BY <1>1, Zenon DEF Receive, Has

\* A fragment with the header byte hd of a unit whose first byte is h.
IsFragment(p, h, hd, rest) ==
    /\ p.data[1] = (h \div 32) * 32 + 28 /\ p.data[2] = hd
    /\ SubSeq(p.data, 3, Len(p.data)) = rest

LEMMA ReceiveFirst ==
    ASSUME NEW us, NEW h \in Byte, NEW rest, NEW p,
           IsFragment(p, h, (h % 32) + 128, rest)
    PROVE  Receive(Has(us, << >>), p) = Has(us, << h >> \o rest)
  <1>1. PICK t \in 0..31 : t = h % 32
    BY FuBytes
  <1>2. PICK hd \in Byte : hd = t + 128 /\ hd % 128 = t /\ hd % 32 = t
    BY FuHeaders
  <1>3. /\ p.data[2] = hd /\ hd >= 128 /\ ~ (hd < 128) /\ ~ (hd % 128 >= 64)
        /\ ~ (NalType(p.data) # 28)
        /\ (p.data[1] \div 32) * 32 + (hd % 32) = h
    <2>1. NalType(p.data) = 28
      BY FuBytes DEF IsFragment, NalType
    <2>2. p.data[2] = hd /\ (p.data[1] \div 32) * 32 + (hd % 32) = h
      BY <1>1, <1>2, FuBytes DEF IsFragment
    <2>3. hd >= 128 /\ ~ (hd < 128) /\ ~ (hd % 128 >= 64)
      BY <1>2
    <2> QED BY <2>1, <2>2, <2>3
  <1>4. SubSeq(p.data, 3, Len(p.data)) = rest /\ Has(us, << >>).units = us
    BY DEF IsFragment, Has
  <1> QED BY <1>3, <1>4, Zenon DEF Receive, Has

LEMMA ReceiveMiddle ==
    ASSUME NEW us, NEW part, part # << >>, NEW h \in Byte, NEW rest, NEW p,
           IsFragment(p, h, h % 32, rest)
    PROVE  Receive(Has(us, part), p) = Has(us, part \o rest)
  <1>1. PICK t \in 0..31 : t = h % 32 /\ t % 128 = t
    BY FuBytes, FuHeaders, ZenonT(40)
  <1>2. /\ p.data[2] = t /\ ~ (t >= 128) /\ ~ (t % 128 >= 64)
        /\ ~ (NalType(p.data) # 28)
    <2>1. NalType(p.data) = 28 /\ p.data[2] = t
      BY <1>1, FuBytes DEF IsFragment, NalType
    <2>2. ~ (t >= 128) /\ ~ (t >= 64)
      OBVIOUS
    <2>3. ~ (t % 128 >= 64)
      BY <1>1, <2>2, Zenon
    <2> QED BY <2>1, <2>2, <2>3
  <1>3. /\ SubSeq(p.data, 3, Len(p.data)) = rest
        /\ Has(us, part).units = us /\ Has(us, part).part = part
    BY DEF IsFragment, Has
  <1> QED BY <1>2, <1>3, Zenon DEF Receive, Has

LEMMA ReceiveLast ==
    ASSUME NEW us, NEW part, part # << >>, NEW h \in Byte, NEW rest, NEW p,
           IsFragment(p, h, (h % 32) + 64, rest)
    PROVE  Receive(Has(us, part), p) = Has(Append(us, part \o rest), << >>)
  <1>1. PICK t \in 0..31 : t = h % 32
    BY FuBytes
  <1>2. PICK hd \in Byte : hd = t + 64 /\ hd % 128 = hd
    BY FuHeaders, ZenonT(40)
  <1>3. /\ p.data[2] = hd /\ ~ (hd >= 128) /\ hd % 128 >= 64
        /\ ~ (NalType(p.data) # 28)
    <2>1. NalType(p.data) = 28 /\ p.data[2] = hd
      BY <1>1, <1>2, FuBytes DEF IsFragment, NalType
    <2>2. ~ (hd >= 128) /\ hd % 128 >= 64
      BY <1>2
    <2> QED BY <2>1, <2>2
  <1>4. /\ SubSeq(p.data, 3, Len(p.data)) = rest
        /\ Has(us, part).units = us /\ Has(us, part).part = part
    BY DEF IsFragment, Has
  <1> QED BY <1>3, <1>4, Zenon DEF Receive, Has

\* Each fragment is what a receiver takes for one.
LEMMA FragmentIs ==
    ASSUME NEW u \in Seq(Byte), Len(u) > MaxPayload, NEW i \in 1..FragCount(u),
           NEW p, p.data = FragData(u, i)
    PROVE  IsFragment(p, u[1],
                      IF i = 1 THEN (u[1] % 32) + 128
                      ELSE IF i = FragCount(u) THEN (u[1] % 32) + 64 ELSE u[1] % 32,
                      SubSeq(u, FragEnd(u, i - 1) + 1, FragEnd(u, i)))
  <1>1. PICK n \in Nat : n = FragCount(u) /\ n >= 2
    BY FragEnds
  <1>2. u[1] \in Byte /\ Len(u) \in Nat
    BY PayloadAssumption
  <1>3. PICK t \in 0..31 : t = u[1] % 32 /\ t = NalType(u)
    BY <1>2, FuBytes DEF NalType
  <1>4. PICK hd \in Byte : hd = IF i = 1 THEN t + 128 ELSE IF i = n THEN t + 64 ELSE t
    BY FuHeaders, ZenonT(40)
  <1>5. hd = FuHeader(u, i = 1, i = n)
    <2>1. t + 0 + 0 = t /\ t + 128 + 0 = t + 128 /\ t + 0 + 64 = t + 64
      OBVIOUS
    <2>2. i = 1 => i # n
      BY <1>1
    <2> QED BY <1>3, <1>4, <2>1, <2>2, Zenon DEF FuHeader
  <1>6. PICK a \in 1..Len(u), b \in 1..Len(u) :
            a = FragEnd(u, i - 1) /\ b = FragEnd(u, i) /\ a < b
    BY <1>1, FragEnds
  <1>7. PICK rest \in Seq(Byte) : rest = SubSeq(u, a + 1, b)
    <2>1. \A j \in (a + 1)..b : u[j] \in Byte
      BY <1>2, <1>6
    <2>2. SubSeq(u, a + 1, b) \in Seq(Byte)
      BY <1>6, <2>1, SubSeqProperties
    <2> QED BY <2>2
  <1>8. PICK x \in Byte : x = FuIndicator(u) /\ x = (u[1] \div 32) * 32 + 28
    BY <1>2, FuBytes DEF FuIndicator
  <1>9. p.data = << x, hd >> \o rest
    BY <1>1, <1>5, <1>6, <1>7, <1>8 DEF FragData
  <1>10. PICK e \in Seq(Byte) : e = << x, hd >> \o rest
    <2>1. << x, hd >> \in Seq(Byte)
      OBVIOUS
    <2>2. << x, hd >> \o rest \in Seq(Byte)
      BY <2>1, ConcatProperties
    <2> QED BY <2>2
  <1>11. e[1] = x /\ e[2] = hd
    BY <1>10
  <1>12. SubSeq(e, 3, Len(e)) = rest
    BY <1>10
  <1>13. IsFragment(p, u[1], hd, rest)
    BY <1>8, <1>9, <1>10, <1>11, <1>12 DEF IsFragment
  <1> QED BY <1>1, <1>3, <1>4, <1>6, <1>7, <1>13

LEMMA FirstByte ==
    ASSUME NEW u \in Seq(Byte), u # << >>
    PROVE  SubSeq(u, 1, 1) = << u[1] >>
  <1>1. 1 \in 1..Len(u) /\ 1 \in 1..Len(u)
    OBVIOUS
  <1>2. SubSeq(u, 1, 1) = << u[1] >> \o SubSeq(u, 1 + 1, 1)
    BY <1>1, SubSeqRecursiveFirst
  <1>3. SubSeq(u, 1 + 1, 1) = << >>
    BY SubSeqEmpty
  <1>4. << u[1] >> \in Seq(Byte)
    BY <1>1
  <1>5. << u[1] >> \o << >> = << u[1] >>
    BY <1>4, ConcatEmptySeq
  <1> QED BY <1>2, <1>3, <1>5

\* The receiver has the units us; packets behind the first n that are the last of
\* their unit are those after which it has no part of one.
Gets(ps, n, us) ==
    /\ Received(ps)[Len(ps)] = Has(us, << >>)
    /\ \A i \in (n + 1)..Len(ps) : ps[i].last <=> Received(ps)[i].part = << >>

\* A receiver that has whole units, and is given the packets of another, has that
\* one too, at the last packet and no sooner.
LEMMA ReceivesUnit ==
    ASSUME NEW u \in NalUnit, NalType(u) # 28, NEW us,
           NEW ps \in Seq(Packet), Received(ps)[Len(ps)] = Has(us, << >>),
           NEW qs, qs = ps \o HandleFrame(u)
    PROVE  Gets(qs, Len(ps), Append(us, u))
  <1>1. PICK f \in Seq(Packet) : f = HandleFrame(u) /\ qs = ps \o f
    BY HandleFrameTypes
  <1>2. PICK n \in Nat : n = Len(ps)
    OBVIOUS
  <1>3. /\ qs \in Seq(Packet) /\ Len(qs) = n + Len(f) /\ Len(f) \in Nat
        /\ \A i \in 1..Len(f) : qs[n + i] = f[i]
    BY <1>1, <1>2
  <1>4. Received(qs)[n] = Has(us, << >>)
    BY <1>1, <1>2, ReceivedStays
  <1>5. ASSUME NEW i \in 0..(Len(f) - 1)
        PROVE  Received(qs)[n + (i + 1)] = Receive(Received(qs)[n + i], f[i + 1])
    <2>1. PICK j \in 1..Len(qs) : j = n + (i + 1) /\ j - 1 = n + i /\ qs[j] = f[i + 1]
      BY <1>3
    <2>2. Len(qs) \in Nat
      BY <1>3
    <2>3. Received(qs)[j] = Receive(Received(qs)[j - 1], qs[j])
      BY <2>2, ReceivedIs, Zenon
    <2> QED BY <2>1, <2>3
  <1>6. u \in Seq(Byte) /\ u # << >> /\ Len(u) \in Nat
    BY DEF NalUnit
  <1>7. \A x, y : Has(x, y).part = y
    BY DEF Has
  <1>8. CASE Len(u) <= MaxPayload
    <2>1. PICK p : p = [data |-> u, last |-> TRUE]
      OBVIOUS
    <2>2. f = << p >> /\ p.data = u /\ p.last
      BY <1>1, <1>8, <2>1 DEF HandleFrame
    <2>3. Len(f) = 1 /\ f[1] = p
      BY <2>2
    <2>4. Received(qs)[n + 1] = Receive(Has(us, << >>), p)
      <3>1. 0 \in 0..(Len(f) - 1) /\ n + (0 + 1) = n + 1 /\ n + 0 = n /\ 0 + 1 = 1
        BY <2>3
      <3> QED BY <1>4, <1>5, <2>3, <3>1
    <2>5. Received(qs)[n + 1] = Has(Append(us, u), << >>)
      BY <2>2, <2>4, ReceiveWhole
    <2>6. qs[n + 1] = p
      BY <1>3, <2>3
    <2> QED BY <1>2, <1>3, <1>7, <2>2, <2>3, <2>5, <2>6 DEF Gets
  <1>9. CASE ~ (Len(u) <= MaxPayload)
    <2>1. Len(u) > MaxPayload /\ f = Fragments(u)
      BY <1>1, <1>6, <1>9, PayloadAssumption DEF HandleFrame
    <2>2. PICK c \in Nat : /\ c = FragCount(u) /\ c >= 2 /\ Len(f) = c
                           /\ FragEnd(u, 0) = 1
      BY <1>6, <2>1, FragEnds, FragmentsAre
    <2> DEFINE Part(i) == SubSeq(u, 1, FragEnd(u, i))
    <2>3. ASSUME NEW i \in 1..c
          PROVE  /\ FragEnd(u, i) \in 1..Len(u) /\ FragEnd(u, i - 1) \in 1..Len(u)
                 /\ FragEnd(u, i - 1) < FragEnd(u, i)
                 /\ Part(i - 1) \o SubSeq(u, FragEnd(u, i - 1) + 1, FragEnd(u, i)) = Part(i)
                 /\ Part(i) # << >>
      <3>1. PICK a \in 1..Len(u), b \in 1..Len(u) :
                a = FragEnd(u, i - 1) /\ b = FragEnd(u, i) /\ a < b
        BY <1>6, <2>1, <2>2, FragEnds
      <3>2. SubSeq(u, 1, a) \o SubSeq(u, a + 1, b) = SubSeq(u, 1, b)
        <4>1. 1 \in 1..(Len(u) + 1) /\ a \in (1 - 1)..b /\ b \in a..Len(u)
          BY <1>6, <3>1
        <4> QED BY <1>6, <4>1, ConcatAdjacentSubSeq
      <3>3. SubSeq(u, 1, b) # << >>
        BY <1>6, <3>1
      <3> QED BY <3>1, <3>2, <3>3
    <2>4. ASSUME NEW i \in 1..c
          PROVE  /\ IsFragment(f[i], u[1], IF i = 1 THEN (u[1] % 32) + 128
                                  ELSE IF i = c THEN (u[1] % 32) + 64 ELSE u[1] % 32,
                               SubSeq(u, FragEnd(u, i - 1) + 1, FragEnd(u, i)))
                 /\ f[i].last <=> i = c
      <3>1. f[i].data = FragData(u, i) /\ (f[i].last <=> i = c)
        BY <1>6, <2>1, <2>2, FragmentsAre
      <3>2. IsFragment(f[i], u[1], IF i = 1 THEN (u[1] % 32) + 128
                             ELSE IF i = FragCount(u) THEN (u[1] % 32) + 64 ELSE u[1] % 32,
                       SubSeq(u, FragEnd(u, i - 1) + 1, FragEnd(u, i)))
        BY <1>6, <2>1, <2>2, <3>1, FragmentIs
      <3> QED BY <2>2, <3>1, <3>2, Zenon
    <2>5. u[1] \in Byte
      BY <1>6
    <2> DEFINE T == {i \in Nat : i \in 1..(c - 1) => Received(qs)[n + i] = Has(us, Part(i))}
    <2>6. 0 \in T
      BY <2>2
    <2>7. ASSUME NEW i \in Nat, i \in T PROVE i + 1 \in T
      <3> SUFFICES ASSUME i + 1 \in 1..(c - 1)
                   PROVE  Received(qs)[n + (i + 1)] = Has(us, Part(i + 1))
        <4> HIDE DEF Part
        <4> QED OBVIOUS
      <3>1. PICK k \in 1..c : k = i + 1 /\ k - 1 = i /\ k # c
        BY <2>2
      <3>2. PICK rest : rest = SubSeq(u, FragEnd(u, i) + 1, FragEnd(u, k))
        OBVIOUS
      <3>3. Received(qs)[n + k] = Receive(Received(qs)[n + i], f[k])
        <4>1. i \in 0..(Len(f) - 1)
          BY <2>2, <3>1
        <4>2. Received(qs)[n + (i + 1)] = Receive(Received(qs)[n + i], f[i + 1])
          BY <1>5, <4>1
        <4> QED BY <3>1, <4>2, Zenon
      <3>4. Part(i) \o rest = Part(k)
        BY <2>3, <3>1, <3>2
      <3>5. CASE i = 0
        <4>1. IsFragment(f[k], u[1], (u[1] % 32) + 128, rest)
          BY <2>4, <3>1, <3>2, <3>5
        <4>2. Received(qs)[n + i] = Has(us, << >>)
          <5>1. n + 0 = n
            OBVIOUS
          <5> QED BY <1>4, <3>5, <5>1
        <4>3. Received(qs)[n + k] = Has(us, << u[1] >> \o rest)
          BY <2>5, <3>3, <4>1, <4>2, ReceiveFirst
        <4>4. Part(i) = << u[1] >>
          <5>1. SubSeq(u, 1, 1) = << u[1] >>
            BY <1>6, FirstByte
          <5> QED BY <2>2, <3>5, <5>1, Zenon
        <4> QED BY <3>1, <3>4, <4>3, <4>4, Zenon
      <3>6. CASE i # 0
        <4>1. i \in 1..(c - 1) /\ i \in 1..c
          BY <2>2, <3>6
        <4>2. Received(qs)[n + i] = Has(us, Part(i))
          <5> HIDE DEF Part
          <5> QED BY <2>7, <4>1
        <4>3. Part(i) # << >>
          BY <2>3, <4>1
        <4>4. IsFragment(f[k], u[1], u[1] % 32, rest)
          BY <2>4, <3>1, <3>2, <3>6
        <4>5. Received(qs)[n + k] = Has(us, Part(i) \o rest)
          <5> HIDE DEF Part
          <5> QED BY <2>5, <3>3, <4>2, <4>3, <4>4, ReceiveMiddle
        <4> QED BY <3>1, <3>4, <4>5
      <3> QED BY <3>5, <3>6
    <2>8. Nat \subseteq T
      <3> HIDE DEF T
      <3> QED BY <2>6, <2>7, NatSetInduction
    <2>9. ASSUME NEW i \in 1..(c - 1)
          PROVE  Received(qs)[n + i] = Has(us, Part(i))
      <3> HIDE DEF Part
      <3> QED BY <2>8
    <2>10. Received(qs)[n + c] = Has(Append(us, u), << >>)
      <3>1. PICK i \in 1..(c - 1) : i = c - 1 /\ c = i + 1 /\ i \in 1..c /\ i \in 0..(c - 1)
        BY <2>2
      <3>2. PICK rest : rest = SubSeq(u, FragEnd(u, i) + 1, FragEnd(u, c))
        OBVIOUS
      <3>3. Received(qs)[n + c] = Receive(Has(us, Part(i)), f[c])
        <4> HIDE DEF Part
        <4> QED BY <1>5, <2>2, <2>9, <3>1
      <3>4. Part(i) # << >>
        BY <2>3, <3>1
      <3>5. c \in 1..c /\ c # 1
        BY <2>2
      <3>6. Part(i) \o rest = Part(c)
        BY <2>3, <3>1, <3>2, <3>5
      <3>7. IsFragment(f[c], u[1], (u[1] % 32) + 64, rest)
        BY <2>4, <3>1, <3>2, <3>5
      <3>8. Part(c) = u
        <4>1. FragEnd(u, c) = Len(u)
          BY <2>2 DEF FragEnd
        <4> QED BY <1>6, <4>1
      <3>9. Receive(Has(us, Part(i)), f[c]) = Has(Append(us, Part(i) \o rest), << >>)
        <4> HIDE DEF Part
        <4> QED BY <2>5, <3>4, <3>7, ReceiveLast
      <3> QED BY <3>3, <3>6, <3>8, <3>9
    <2>11. ASSUME NEW i \in 1..c
           PROVE  qs[n + i].last <=> Received(qs)[n + i].part = << >>
      <3>1. qs[n + i] = f[i] /\ (f[i].last <=> i = c)
        BY <1>3, <2>2, <2>4
      <3>2. CASE i = c
        BY <1>7, <2>10, <3>1, <3>2
      <3>3. CASE i # c
        <4>1. i \in 1..(c - 1)
          BY <2>2, <3>3
        <4>2. Part(i) # << >>
          BY <2>3
        <4> HIDE DEF Part
        <4> QED BY <1>7, <2>9, <3>1, <3>3, <4>1, <4>2
      <3> QED BY <3>2, <3>3
    <2>12. ASSUME NEW i \in (n + 1)..Len(qs)
           PROVE  qs[i].last <=> Received(qs)[i].part = << >>
      <3>1. PICK k \in 1..c : i = n + k
        <4>1. i - n \in 1..c /\ i = n + (i - n)
          BY <1>3, <2>2
        <4> QED BY <4>1
      <3> QED BY <2>11, <3>1
    <2> QED BY <1>2, <1>3, <2>2, <2>10, <2>12 DEF Gets
  <1> QED BY <1>8, <1>9

SizedPacket == {p \in Packet : Len(p.data) \in 1..MaxPayload}

Handled(ns) == [k \in 1..Len(ns) |-> HandleFrame(ns[k])]
Whole(ns) == [k \in 1..Len(ns) |-> << ns[k] >>]

LEMMA JoinedTypes ==
    ASSUME NEW ns \in NalUnits
    PROVE  /\ Handled(ns) \in Seq(Seq(SizedPacket)) /\ Len(Handled(ns)) = Len(ns)
           /\ Whole(ns) \in Seq(Seq(NalUnit)) /\ Len(Whole(ns)) = Len(ns)
           /\ \A k \in 1..Len(ns) : /\ ns[k] \in NalUnit
                                    /\ Handled(ns)[k] = HandleFrame(ns[k])
                                    /\ Whole(ns)[k] = << ns[k] >>
  <1>1. PICK n \in Nat : n = Len(ns) /\ \A k \in 1..n : ns[k] \in NalUnit
    BY DEF NalUnits, NalUnit
  <1>2. ASSUME NEW k \in 1..n
        PROVE  HandleFrame(ns[k]) \in Seq(SizedPacket) /\ << ns[k] >> \in Seq(NalUnit)
    <2>1. PICK u \in NalUnit : u = ns[k]
      BY <1>1
    <2>2. PICK f \in Seq(Packet) : f = HandleFrame(u)
      BY HandleFrameTypes
    <2>3. \A i \in 1..Len(f) : f[i] \in SizedPacket
      <3>1. \A i \in 1..Len(f) : Len(f[i].data) \in 1..MaxPayload
        BY <2>2, HandleFrameTypes
      <3>2. \A i \in 1..Len(f) : f[i] \in Packet
        OBVIOUS
      <3> QED BY <3>1, <3>2 DEF SizedPacket
    <2>4. f \in Seq(SizedPacket)
      <3>1. f = [i \in 1..Len(f) |-> f[i]] /\ Len(f) \in Nat
        OBVIOUS
      <3> QED BY <2>3, <3>1
    <2>5. << u >> \in Seq(NalUnit)
      OBVIOUS
    <2> QED BY <2>1, <2>2, <2>4, <2>5
  <1>3. Handled(ns) \in [1..n -> Seq(SizedPacket)]
    BY <1>1, <1>2, Zenon DEF Handled
  <1>4. Whole(ns) \in [1..n -> Seq(NalUnit)]
    BY <1>1, <1>2, Zenon DEF Whole
  <1>5. \A k \in 1..n : Handled(ns)[k] = HandleFrame(ns[k]) /\ Whole(ns)[k] = << ns[k] >>
    BY <1>1, Zenon DEF Handled, Whole
  <1>6. \A X, f : f \in [1..n -> X] => f \in Seq(X) /\ Len(f) = n
    OBVIOUS
  <1> QED BY <1>1, <1>3, <1>4, <1>5, <1>6

\* A receiver gets back the units whose packets it is given, whichever these are.
LEMMA ReceiverGetsJoined ==
    ASSUME NEW ns \in NalUnits, \A k \in 1..Len(ns) : NalType(ns[k]) # 28, NEW S,
           NEW ps, ps = Joined(S, Handled(ns))
    PROVE  /\ Received(ps)[Len(ps)] = Has(Joined(S, Whole(ns)), << >>)
           /\ \A i \in 1..Len(ps) : ps[i].last <=> Received(ps)[i].part = << >>
  <1>1. PICK n \in Nat : n = Len(ns)
    BY DEF NalUnits
  <1>2. PICK w : /\ w = Handled(ns) /\ Len(w) = n
                 /\ \A k \in 1..n : w[k] \in Seq(Packet) /\ w[k] = HandleFrame(ns[k])
    BY <1>1, JoinedTypes, HandleFrameTypes
  <1>3. PICK v : v = Whole(ns) /\ Len(v) = n /\ \A k \in 1..n : v[k] = << ns[k] >>
    BY <1>1, JoinedTypes
  <1>4. \A k \in 1..n : v[k] \in Seq(NalUnit) /\ ns[k] \in NalUnit
    <2>1. \A k \in 1..n : ns[k] \in NalUnit
      BY <1>1, JoinedTypes
    <2>2. ASSUME NEW k \in 1..n PROVE v[k] \in Seq(NalUnit)
      <3>1. PICK u \in NalUnit : u = ns[k]
        BY <2>1
      <3>2. << u >> \in Seq(NalUnit)
        OBVIOUS
      <3> QED BY <1>3, <3>1, <3>2
    <2> QED BY <2>1, <2>2
  <1>5. PICK g : JoinSteps(g, S, w, n) /\ ps = g[n]
    BY <1>2, JoinedSteps
  <1>6. PICK h : JoinSteps(h, S, v, n) /\ Joined(S, v) = h[n]
    BY <1>3, JoinedSteps
  <1>7. \A k \in 0..n : g[k] \in Seq(Packet) /\ h[k] \in Seq(NalUnit)
    BY <1>2, <1>4, <1>5, <1>6, JoinTypes
  <1>8. JoinEquations(g, S, w, n) /\ JoinEquations(h, S, v, n)
    BY <1>5, <1>6, JoinStep
  <1> DEFINE Good(x, us) ==
                 /\ Received(x)[Len(x)] = Has(us, << >>)
                 /\ \A i \in 1..Len(x) : x[i].last <=> Received(x)[i].part = << >>
             T == {k \in Nat : k <= n => Good(g[k], h[k])}
  <1>9. 0 \in T
    <2>1. g[0] = << >> /\ h[0] = << >>
      BY <1>8 DEF JoinEquations
    <2>2. Len(<< >>) = 0 /\ Len(<< >>) \in Nat
      OBVIOUS
    <2>3. Received(<< >>)[0] = Has(<< >>, << >>)
      BY <2>2, ReceivedIs
    <2> QED BY <2>1, <2>2, <2>3
  <1>10. ASSUME NEW k \in Nat, k \in T PROVE k + 1 \in T
    <2> SUFFICES ASSUME k + 1 <= n PROVE Good(g[k + 1], h[k + 1])
      <3> HIDE DEF Good
      <3> QED OBVIOUS
    <2>1. k \in 0..(n - 1) /\ k + 1 \in 1..n /\ k \in 0..n /\ k + 1 \in 0..n
      OBVIOUS
    <2>2. Good(g[k], h[k])
      <3> HIDE DEF Good
      <3> QED BY <1>10, <2>1
    <2>3. JoinEquation(g, S, w, k) /\ JoinEquation(h, S, v, k)
      BY <1>8, <2>1 DEF JoinEquations
    <2>4. CASE k + 1 \notin S
      <3>1. g[k + 1] = g[k] /\ h[k + 1] = h[k]
        BY <2>3, <2>4, Zenon DEF JoinEquation
      <3> HIDE DEF Good
      <3> QED BY <2>2, <3>1
    <2>5. CASE k + 1 \in S
      <3>1. g[k + 1] = g[k] \o w[k + 1] /\ h[k + 1] = h[k] \o v[k + 1]
        BY <2>3, <2>5, Zenon DEF JoinEquation
      <3>2. PICK u \in NalUnit : /\ u = ns[k + 1] /\ NalType(u) # 28
                                 /\ w[k + 1] = HandleFrame(u) /\ v[k + 1] = << u >>
        BY <1>1, <1>2, <1>3, <1>4, <2>1
      <3>3. PICK x \in Seq(Packet), us \in Seq(NalUnit) : x = g[k] /\ us = h[k]
        BY <1>7, <2>1
      <3>4. PICK y \in Seq(Packet) : y = g[k + 1] /\ y = x \o HandleFrame(u)
        BY <1>7, <2>1, <3>1, <3>2, <3>3
      <3>5. h[k + 1] = Append(us, u)
        BY <3>1, <3>2, <3>3, AppendIsConcat
      <3>6. Received(x)[Len(x)] = Has(us, << >>)
        BY <2>2, <3>3
      <3>7. /\ Received(y)[Len(y)] = Has(Append(us, u), << >>)
            /\ \A i \in (Len(x) + 1)..Len(y) : y[i].last <=> Received(y)[i].part = << >>
        <4>1. /\ u \in NalUnit /\ NalType(u) # 28 /\ x \in Seq(Packet)
              /\ Received(x)[Len(x)] = Has(us, << >>) /\ y = x \o HandleFrame(u)
          BY <3>2, <3>4, <3>6
        <4>2. Gets(y, Len(x), Append(us, u))
          BY <4>1, ReceivesUnit
        <4> QED BY <4>2 DEF Gets
      <3>8. ASSUME NEW i \in 1..Len(y)
            PROVE  y[i].last <=> Received(y)[i].part = << >>
        <4>1. CASE i > Len(x)
          <5>1. i \in (Len(x) + 1)..Len(y)
            BY <4>1
          <5> QED BY <3>7, <5>1
        <4>2. CASE ~ (i > Len(x))
          <5>1. i \in 1..Len(x) /\ i \in 0..Len(x)
            BY <4>2
          <5>2. HandleFrame(u) \in Seq(Packet)
            BY HandleFrameTypes
          <5>3. Received(y)[i] = Received(x)[i]
            BY <3>4, <5>1, <5>2, ReceivedStays
          <5>4. y[i] = x[i]
            BY <3>4, <5>1, <5>2
          <5>5. x[i].last <=> Received(x)[i].part = << >>
            BY <2>2, <3>3, <5>1
          <5> QED BY <5>3, <5>4, <5>5
        <4> QED BY <4>1, <4>2
      <3> QED BY <3>4, <3>5, <3>7, <3>8
    <2> QED BY <2>4, <2>5
  <1>11. Nat \subseteq T
    <2> HIDE DEF T
    <2> QED BY <1>9, <1>10, NatSetInduction
  <1>12. Good(g[n], h[n])
    <2> HIDE DEF Good
    <2> QED BY <1>11
  <1> QED BY <1>3, <1>5, <1>6, <1>12

-----------------------------------------------------------------------------
(* The invariant.                                                          *)

\* The type invariant: frames name NAL units of the file.
TypeOK ==
    /\ file \in Files /\ opened \in BOOLEAN /\ eof \in BOOLEAN
    /\ nals \in NalUnits /\ pos \in 0..Len(nals)
    /\ frames \in Seq(SUBSET (1..Len(nals))) /\ packets \in Seq(Packet)

\* Before Open there is nothing; after it the NAL units are the file's.
OpenInv ==
    IF opened THEN nals = ExtractNALUnits(file)
    ELSE nals = << >> /\ pos = 0 /\ frames = << >>

\* A frame begins with a slice, unless it is the first.
AtSlice == pos = 0 \/ pos = Len(nals) \/ IsVcl(nals[pos + 1])

IInv ==
    /\ TypeOK /\ OpenInv /\ AtSlice /\ FramesCoverFile
    /\ packets = Joined(Chosen, Handled(nals))

\* The loop of ReadNextFrame: where it ends, and what it has taken by then.
Frame == {k \in (pos + 1)..FrameEnd : k = pos + 1 \/ ~IsDelimiter(nals[k])}

LEMMA SliceIsNoDelimiter == ASSUME NEW u, IsVcl(u) PROVE ~IsDelimiter(u)
  BY DEF IsVcl, IsDelimiter

LEMMA FrameEndIs ==
    ASSUME nals \in NalUnits, pos \in 0..Len(nals), pos < Len(nals)
    PROVE  /\ FrameEnd \in (pos + 1)..Len(nals)
           /\ FrameEnd < Len(nals) => /\ IsVcl(nals[FrameEnd + 1])
                                      /\ \E i \in (pos + 1)..FrameEnd : IsVcl(nals[i])
           /\ \A k, l \in (pos + 1)..FrameEnd : IsVcl(nals[k]) /\ IsVcl(nals[l]) => k = l
  <1> DEFINE S == {k \in (pos + 2)..Len(nals) :
                      IsVcl(nals[k]) /\ \E i \in (pos + 1)..(k - 1) : IsVcl(nals[i])}
  <1>1. Len(nals) \in Nat /\ pos + 2 \in Nat /\ pos + 2 <= Len(nals) + 1
    BY DEF NalUnits
  <1>2. S \subseteq (pos + 2)..Len(nals)
    OBVIOUS
  <1>3. PICK m : m = Min(S \cup {Len(nals) + 1})
    OBVIOUS
  <1>4. /\ m \in S \cup {Len(nals) + 1} /\ m \in (pos + 2)..(Len(nals) + 1)
        /\ \A x \in (pos + 2)..(m - 1) : x \notin S
    <2> HIDE DEF S
    <2> QED BY <1>1, <1>2, <1>3, LeastPlace
  <1>5. FrameEnd = m - 1
    BY <1>3 DEF FrameEnd
  <1>6. m - 1 \in (pos + 1)..Len(nals) /\ (m - 1) + 1 = m
    BY <1>1, <1>4
  <1>7. m - 1 < Len(nals) =>
          IsVcl(nals[m]) /\ \E i \in (pos + 1)..(m - 1) : IsVcl(nals[i])
    BY <1>1, <1>4
  <1>8. ASSUME NEW k \in (pos + 1)..(m - 1), NEW l \in (pos + 1)..(m - 1),
               IsVcl(nals[k]), IsVcl(nals[l]), k < l
        PROVE  FALSE
    <2>1. l \in (pos + 2)..(m - 1) /\ l \in (pos + 2)..Len(nals) /\ k \in (pos + 1)..(l - 1)
      BY <1>1, <1>4, <1>8
    <2>2. l \in S
      BY <1>8, <2>1
    <2> HIDE DEF S
    <2> QED BY <1>4, <2>1, <2>2
  <1>9. ASSUME NEW k \in (pos + 1)..(m - 1), NEW l \in (pos + 1)..(m - 1),
               IsVcl(nals[k]), IsVcl(nals[l])
        PROVE  k = l
    <2>1. k < l \/ l < k \/ k = l
      BY <1>1
    <2> QED BY <1>8, <1>9, <2>1
  <1> QED BY <1>5, <1>6, <1>7, <1>9

\* A frame holds all that it passes but delimiters, and one slice, if there is any.
LEMMA FrameIs ==
    ASSUME IInv, pos < Len(nals)
    PROVE  /\ Frame \subseteq (pos + 1)..FrameEnd
           /\ \A k \in (pos + 1)..FrameEnd : k \in Frame \/ IsDelimiter(nals[k])
           /\ \/ \E k \in Frame : \A l \in Frame : IsVcl(nals[l]) <=> l = k
              \/ \A k \in 1..Len(nals) : ~IsVcl(nals[k])
  <1>1. nals \in NalUnits /\ pos \in 0..Len(nals) /\ Len(nals) \in Nat
    BY DEF IInv, TypeOK, NalUnits
  <1>2. PICK e : e = FrameEnd
    OBVIOUS
  <1>3. /\ e \in (pos + 1)..Len(nals)
        /\ e < Len(nals) => \E i \in (pos + 1)..e : IsVcl(nals[i])
        /\ \A k, l \in (pos + 1)..e : IsVcl(nals[k]) /\ IsVcl(nals[l]) => k = l
    BY <1>1, <1>2, FrameEndIs
  <1>4. /\ Frame \subseteq (pos + 1)..e
        /\ \A k \in (pos + 1)..e : k \in Frame \/ IsDelimiter(nals[k])
    BY <1>2 DEF Frame
  <1>5. \/ \E i \in (pos + 1)..e : IsVcl(nals[i])
        \/ \A k \in 1..Len(nals) : ~IsVcl(nals[k])
    <2>1. CASE e < Len(nals)
      BY <1>3, <2>1
    <2>2. CASE e = Len(nals) /\ pos = 0
      BY <1>1, <2>2
    <2>3. CASE pos # 0
      <3>1. IsVcl(nals[pos + 1])
        BY <2>3, <1>1 DEF IInv, AtSlice
      <3>2. pos + 1 \in (pos + 1)..e
        BY <1>1, <1>3
      <3> QED BY <3>1, <3>2
    <2> QED BY <1>1, <1>3, <2>1, <2>2, <2>3
  <1>6. ASSUME NEW k \in (pos + 1)..e, IsVcl(nals[k])
        PROVE  k \in Frame /\ \A l \in Frame : IsVcl(nals[l]) <=> l = k
    <2>1. k \in Frame
      BY <1>4, <1>6, SliceIsNoDelimiter
    <2> QED BY <1>3, <1>4, <1>6, <2>1
  <1> QED BY <1>2, <1>4, <1>5, <1>6

LEMMA JoinedNone ==
    ASSUME NEW X, NEW w \in Seq(Seq(X))
    PROVE  Joined({}, w) = << >>
  <1>1. PICK x \in Seq(X) : x = Joined({}, w)
    BY JoinedType
  <1>2. /\ {} \cup {} = {} /\ {} \in SUBSET (1..0) /\ {} \in SUBSET ((0 + 1)..Len(w))
        /\ 0 \in 0..Len(w)
    OBVIOUS
  <1>3. Joined({} \cup {}, w) = Joined({}, w) \o Joined({}, w)
    BY <1>2, JoinedGrows
  <1>4. x = x \o x
    BY <1>1, <1>2, <1>3
  <1>5. Len(x) = Len(x) + Len(x)
    BY <1>4, ConcatProperties
  <1> QED BY <1>1, <1>5

LEMMA InitIInv == Init => IInv
  <1> SUFFICES ASSUME Init PROVE IInv
    OBVIOUS
  <1>1. TypeOK /\ nals = << >>
    <2>1. << >> \in NalUnits /\ 0 \in 0..Len(<< >>)
      BY DEF NalUnits
    <2>2. << >> \in Seq(SUBSET (1..Len(<< >>))) /\ << >> \in Seq(Packet)
      OBVIOUS
    <2> QED BY <2>1, <2>2, Zenon DEF Init, TypeOK
  <1>2. OpenInv /\ AtSlice
    BY DEF Init, OpenInv, AtSlice
  <1>3. Chosen = {}
    BY DEF Init, Chosen
  <1>4. FramesCoverFile
    BY <1>3 DEF Init, FramesCoverFile
  <1>5. packets = Joined(Chosen, Handled(nals))
    <2>1. Handled(nals) \in Seq(Seq(SizedPacket))
      BY <1>1, JoinedTypes DEF TypeOK
    <2>2. Joined({}, Handled(nals)) = << >>
      BY <2>1, JoinedNone
    <2> QED BY <1>3, <2>2 DEF Init
  <1> QED BY <1>1, <1>2, <1>4, <1>5 DEF IInv

LEMMA OpenKeeps == ASSUME IInv, Open PROVE IInv'
  <1>1. file \in File
    BY FilesAssumption DEF IInv, TypeOK, File
  <1>2. nals' \in NalUnits /\ nals' = ExtractNALUnits(file)
    BY <1>1, ScanFindsUnits DEF Open
  <1>3. /\ frames = << >> /\ frames' = << >> /\ packets' = packets /\ nals = << >>
        /\ pos' = 0 /\ eof' = FALSE /\ opened' = TRUE /\ file' = file
    BY DEF IInv, OpenInv, Open
  <1>4. TypeOK'
    <2>1. Len(nals') \in Nat /\ << >> \in Seq(SUBSET (1..Len(nals')))
      BY <1>2 DEF NalUnits
    <2>2. 0 \in 0..Len(nals') /\ TRUE \in BOOLEAN /\ FALSE \in BOOLEAN
      BY <2>1
    <2>3. file \in Files /\ packets \in Seq(Packet)
      BY DEF IInv, TypeOK
    <2> QED BY <1>2, <1>3, <2>1, <2>2, <2>3, Zenon DEF TypeOK
  <1>5. OpenInv' /\ AtSlice'
    BY <1>2, <1>3 DEF OpenInv, AtSlice
  <1>6. Chosen' = {} /\ Chosen = {}
    BY <1>3 DEF Chosen
  <1>7. FramesCoverFile'
    BY <1>3, <1>6 DEF FramesCoverFile
  <1>8. packets' = Joined(Chosen', Handled(nals'))
    <2>1. Handled(nals') \in Seq(Seq(SizedPacket)) /\ Handled(nals) \in Seq(Seq(SizedPacket))
      BY <1>2, JoinedTypes DEF IInv, TypeOK
    <2>2. Joined({}, Handled(nals')) = << >> /\ Joined({}, Handled(nals)) = << >>
      BY <2>1, JoinedNone
    <2> QED BY <1>3, <1>6, <2>2 DEF IInv
  <1>9. (packets = Joined(Chosen, Handled(nals)))'
    BY <1>8 DEF Handled
  <1> QED BY <1>4, <1>5, <1>7, <1>9 DEF IInv

LEMMA ReadKeeps == ASSUME IInv, ReadNextFrame PROVE IInv'
  <1>1. PICK n \in Nat : n = Len(nals) /\ nals \in NalUnits
    BY DEF IInv, TypeOK, NalUnits
  <1>2. /\ opened /\ ~eof /\ pos < n /\ pos \in 0..n
        /\ nals' = nals /\ file' = file /\ opened' = opened /\ eof' = eof
    BY <1>1 DEF IInv, TypeOK, ReadNextFrame
  <1>3. PICK e \in (pos + 1)..n : e = FrameEnd /\ pos' = e
    BY <1>1, <1>2, FrameEndIs DEF ReadNextFrame
  <1>4. PICK f \in SUBSET ((pos + 1)..e) :
            /\ f = Frame
            /\ \A k \in (pos + 1)..e : k \in f \/ IsDelimiter(nals[k])
            /\ \/ \E k \in f : \A l \in f : IsVcl(nals[l]) <=> l = k
               \/ \A k \in 1..n : ~IsVcl(nals[k])
    <2>1. pos < Len(nals)
      BY <1>1, <1>2
    <2>2. /\ Frame \in SUBSET ((pos + 1)..e)
          /\ \A k \in (pos + 1)..e : k \in Frame \/ IsDelimiter(nals[k])
          /\ \/ \E k \in Frame : \A l \in Frame : IsVcl(nals[l]) <=> l = k
             \/ \A k \in 1..n : ~IsVcl(nals[k])
      BY <1>1, <1>3, <2>1, FrameIs
    <2> QED BY <2>2
  <1>5. frames' = Append(frames, f) /\ packets' = packets \o Joined(f, Handled(nals))
    BY <1>4 DEF ReadNextFrame, Frame, Handled
  <1>6. frames \in Seq(SUBSET (1..n)) /\ packets \in Seq(Packet)
    BY <1>1 DEF IInv, TypeOK
  <1>7. PICK c \in Nat : /\ c = Len(frames) /\ Len(frames') = c + 1
                         /\ \A i \in 1..c : frames'[i] = frames[i]
                         /\ frames'[c + 1] = f /\ frames' \in Seq(SUBSET (1..n))
    <2>1. f \in SUBSET (1..n)
      BY <1>2, <1>3
    <2> QED BY <1>5, <1>6, <2>1, SMTT(30)
  <1>8. Chosen' = Chosen \cup f
    <2>1. Chosen' = UNION {frames'[i] : i \in 1..(c + 1)}
      BY <1>7 DEF Chosen
    <2>2. Chosen = UNION {frames[i] : i \in 1..c}
      BY <1>7 DEF Chosen
    <2>3. 1..(c + 1) = (1..c) \cup {c + 1}
      OBVIOUS
    <2> QED BY <1>7, <2>1, <2>2, <2>3
  <1>9. /\ Chosen \in SUBSET (1..pos)
        /\ \A k \in 1..pos : k \in Chosen \/ IsDelimiter(nals[k])
    BY DEF IInv, FramesCoverFile
  <1>10. FramesCoverFile'
    <2>1. Chosen' \subseteq 1..pos'
      BY <1>2, <1>3, <1>8, <1>9
    <2>2. ASSUME NEW k \in 1..pos' PROVE k \in Chosen' \/ IsDelimiter(nals'[k])
      <3>1. k \in 1..pos \/ k \in (pos + 1)..e
        BY <1>2, <1>3
      <3> QED BY <1>2, <1>4, <1>8, <1>9, <3>1
    <2>3. ASSUME NEW i \in 1..(c + 1), NEW j \in 1..(c + 1), i < j,
                 NEW k \in frames'[i], NEW l \in frames'[j]
          PROVE  k < l
      <3>1. i \in 1..c /\ k \in frames[i]
        BY <1>7, <2>3
      <3>2. CASE j = c + 1
        <4>1. k \in 1..pos
          BY <1>7, <1>9, <3>1 DEF Chosen
        <4>2. l \in (pos + 1)..e
          BY <1>4, <1>7, <2>3, <3>2
        <4> QED BY <1>2, <1>3, <4>1, <4>2
      <3>3. CASE j # c + 1
        <4>1. j \in 1..c /\ l \in frames[j]
          BY <1>7, <2>3, <3>3
        <4> QED BY <1>7, <2>3, <3>1, <4>1 DEF IInv, FramesCoverFile
      <3> QED BY <3>2, <3>3
    <2>4. ASSUME NEW i \in 1..(c + 1)
          PROVE  \/ \E k \in frames'[i] : \A l \in frames'[i] : IsVcl(nals'[l]) <=> l = k
                 \/ \A k \in 1..Len(nals') : ~IsVcl(nals'[k])
      <3>1. CASE i = c + 1
        BY <1>1, <1>2, <1>4, <1>7, <3>1
      <3>2. CASE i # c + 1
        <4>1. i \in 1..c /\ frames'[i] = frames[i]
          BY <1>7, <3>2
        <4>2. \/ \E k \in frames[i] : \A l \in frames[i] : IsVcl(nals[l]) <=> l = k
              \/ \A k \in 1..Len(nals) : ~IsVcl(nals[k])
          BY <1>7, <4>1 DEF IInv, FramesCoverFile
        <4> QED BY <1>2, <4>1, <4>2
      <3> QED BY <3>1, <3>2
    <2>5. ~eof'
      BY <1>2
    <2> QED BY <1>7, <2>1, <2>2, <2>3, <2>4, <2>5 DEF FramesCoverFile
  <1>11. packets' = Joined(Chosen', Handled(nals))
    <2>1. PICK w \in Seq(Seq(SizedPacket)) : w = Handled(nals) /\ Len(w) = n
      BY <1>1, JoinedTypes
    <2>2. pos \in 0..Len(w) /\ f \in SUBSET ((pos + 1)..Len(w))
      BY <1>2, <1>3, <2>1
    <2>3. Joined(Chosen \cup f, w) = Joined(Chosen, w) \o Joined(f, w)
      BY <1>9, <2>2, JoinedGrows
    <2>4. packets = Joined(Chosen, w)
      BY <2>1 DEF IInv
    <2> QED BY <1>5, <1>8, <2>1, <2>3, <2>4
  <1>12. (packets = Joined(Chosen, Handled(nals)))'
    BY <1>2, <1>11 DEF Handled
  <1>13. TypeOK'
    <2>1. packets' \in Seq(Packet)
      <3>1. Handled(nals) \in Seq(Seq(Packet))
        <4>1. Handled(nals) \in Seq(Seq(SizedPacket))
          BY <1>1, JoinedTypes
        <4>2. \A x \in Seq(SizedPacket) : x \in Seq(Packet)
          BY DEF SizedPacket
        <4> QED BY <4>1, <4>2
      <3> QED BY <1>11, <3>1, JoinedType
    <2>2. pos' \in 0..n
      BY <1>2, <1>3
    <2> QED BY <1>1, <1>2, <1>7, <2>1, <2>2 DEF IInv, TypeOK
  <1>14. OpenInv'
    BY <1>2 DEF IInv, OpenInv
  <1>15. AtSlice'
    <2>1. e = n \/ IsVcl(nals[e + 1])
      BY <1>1, <1>2, <1>3, FrameEndIs
    <2> QED BY <1>1, <1>2, <1>3, <2>1 DEF AtSlice
  <1> QED BY <1>10, <1>12, <1>13, <1>14, <1>15 DEF IInv

LEMMA EndKeeps == ASSUME IInv, EndOfFile PROVE IInv'
  <1>1. /\ UNCHANGED <<file, opened, nals, pos, frames, packets>> /\ eof' = TRUE
        /\ eof \/ pos >= Len(nals)
    BY DEF EndOfFile
  <1>2. pos = Len(nals)
    <2>1. Len(nals) \in Nat
      BY DEF IInv, TypeOK, NalUnits
    <2> QED BY <1>1, <2>1 DEF IInv, TypeOK, FramesCoverFile
  <1>3. Chosen' = Chosen
    BY <1>1 DEF Chosen
  <1>4. FramesCoverFile'
    BY <1>1, <1>2, <1>3 DEF IInv, FramesCoverFile
  <1>5. TypeOK' /\ OpenInv' /\ AtSlice'
    BY <1>1 DEF IInv, TypeOK, OpenInv, AtSlice
  <1>6. (packets = Joined(Chosen, Handled(nals)))'
    BY <1>1, <1>3 DEF IInv, Handled
  <1> QED BY <1>4, <1>5, <1>6 DEF IInv

LEMMA ResetKeeps == ASSUME IInv, Reset PROVE IInv'
  <1>1. /\ UNCHANGED <<file, opened, nals>> /\ opened
        /\ pos' = 0 /\ eof' = FALSE /\ frames' = << >> /\ packets' = << >>
    BY DEF Reset
  <1>2. nals \in NalUnits /\ Len(nals) \in Nat
    BY DEF IInv, TypeOK, NalUnits
  <1>3. Chosen' = {}
    BY <1>1 DEF Chosen
  <1>4. FramesCoverFile'
    BY <1>1, <1>3 DEF FramesCoverFile
  <1>5. TypeOK'
    <2>1. << >> \in Seq(SUBSET (1..Len(nals))) /\ << >> \in Seq(Packet) /\ 0 \in 0..Len(nals)
      BY <1>2
    <2>2. file \in Files /\ opened \in BOOLEAN /\ FALSE \in BOOLEAN
      BY DEF IInv, TypeOK
    <2> QED BY <1>1, <1>2, <2>1, <2>2, Zenon DEF TypeOK
  <1>6. OpenInv' /\ AtSlice'
    BY <1>1 DEF IInv, OpenInv, AtSlice
  <1>7. (packets = Joined(Chosen, Handled(nals)))'
    <2>1. Handled(nals) \in Seq(Seq(SizedPacket))
      BY <1>2, JoinedTypes
    <2>2. Joined({}, Handled(nals)) = << >>
      BY <2>1, JoinedNone
    <2>3. Handled(nals)' = Handled(nals)
      BY <1>1 DEF Handled
    <2> QED BY <1>1, <1>3, <2>2, <2>3
  <1> QED BY <1>4, <1>5, <1>6, <1>7 DEF IInv

LEMMA StutterKeeps == ASSUME IInv, UNCHANGED vars PROVE IInv'
  BY DEF IInv, vars, TypeOK, OpenInv, AtSlice, FramesCoverFile, Chosen, Handled

-----------------------------------------------------------------------------
(* The theorems.                                                           *)

\* The inductive invariant of the module: the frames read so far are a prefix of the
\* file's NAL units, the packets are theirs, and reading goes on at a slice
\* (RawH264NALSource, H264Source::HandleFrame).
THEOREM SpecIInv == Spec => []IInv
  <1>1. IInv /\ [Next]_vars => IInv'
    BY OpenKeeps, ReadKeeps, EndKeeps, ResetKeeps, StutterKeeps DEF Next
  <1> QED BY InitIInv, <1>1, PTL DEF Spec

\* Every NAL unit in the cache is bytes, and is not empty: no read past the end of an
\* empty one (Open, ReadNextFrame, HandleFrame).
THEOREM SpecTypeOK == Spec => []TypeOK
  <1>1. IInv => TypeOK
    BY DEF IInv
  <1> QED BY <1>1, SpecIInv, PTL

\* In any file, whatever bytes it has, ExtractNALUnits finds the units of the byte
\* stream format.
THEOREM SpecFindsNalUnits == Spec => []FindsNalUnits
  <1>1. IInv => FindsNalUnits
    <2> SUFFICES ASSUME IInv, opened PROVE nals = AnnexB(file)
      BY DEF FindsNalUnits
    <2>1. file \in File
      BY FilesAssumption DEF IInv, TypeOK, File
    <2> QED BY <2>1, ScanFindsUnits DEF IInv, OpenInv
  <1> QED BY <1>1, SpecIInv, PTL

\* ReadNextFrame, Reset and the end of the file, in any order, lose no NAL unit but
\* delimiters and give every frame one slice.
THEOREM SpecFramesCoverFile == Spec => []FramesCoverFile
  <1>1. IInv => FramesCoverFile
    BY DEF IInv
  <1> QED BY <1>1, SpecIInv, PTL

\* Whatever MAX_RTP_PAYLOAD_SIZE is, a receiver puts the NAL units of the frames
\* together again from the packets of HandleFrame, and no packet is too large.
THEOREM SpecReceiverSeesUnits == Spec => []ReceiverSeesUnits
  <1>1. IInv => ReceiverSeesUnits
    <2> SUFFICES ASSUME IInv PROVE ReceiverSeesUnits
      OBVIOUS
    <2>1. nals \in NalUnits /\ packets = Joined(Chosen, Handled(nals))
      BY DEF IInv, TypeOK
    <2>2. ASSUME NoFragmentType
          PROVE  /\ Received(packets)[Len(packets)] = Has(Joined(Chosen, Whole(nals)), << >>)
                 /\ \A i \in 1..Len(packets) :
                      packets[i].last <=> Received(packets)[i].part = << >>
      BY <2>1, <2>2, ReceiverGetsJoined DEF NoFragmentType
    <2>3. \A i \in 1..Len(packets) : Len(packets[i].data) \in 1..MaxPayload
      <3>1. packets \in Seq(SizedPacket)
        BY <2>1, JoinedTypes, JoinedType
      <3> QED BY <3>1 DEF SizedPacket
    <2> QED BY <2>2, <2>3 DEF ReceiverSeesUnits, Has, Whole
  <1> QED BY <1>1, SpecIInv, PTL
=============================================================================
