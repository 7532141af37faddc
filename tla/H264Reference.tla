---------------------------- MODULE H264Reference ----------------------------
(***************************************************************************)
(* What the results of H264 are compared with, written from the standards  *)
(* and not from the code: the byte stream format of H.264 and the receiver *)
(* of RFC 6184; and the properties that compare them.                      *)
(***************************************************************************)
EXTENDS H264

\* A unit is what is between two prefixes 0 0 1, without the zero that belongs to
\* the second one.  (What other zeros come before it stay with the unit, where the
\* standard would drop them.)
Unit(d, p) ==
    LET next == Min({q \in (p + 1)..Len(d) : ShortCode(d, q)} \cup {Len(d) + 1})
    IN  IF next <= Len(d) /\ d[next - 1] = 0 THEN SubSeq(d, p + 3, next - 2)
        ELSE SubSeq(d, p + 3, next - 1)

UnitAt(d, p) ==
    IF ShortCode(d, p) /\ Unit(d, p) # << >> THEN << Unit(d, p) >> ELSE << >>

\* The units at all the prefixes, in their order.
AnnexB(d) ==
    LET from[p \in 1..(Len(d) + 1)] ==
            IF p > Len(d) THEN << >> ELSE UnitAt(d, p) \o from[p + 1]
    IN  from[1]

\* Whatever zeros, ones and start codes of three and four bytes follow one another,
\* the NAL units are those of the byte stream format (ExtractNALUnits).
FindsNalUnits == opened => nals = AnnexB(file)

\* The NAL units that the frames so far consist of.
Chosen == UNION {frames[i] : i \in 1..Len(frames)}

\* The frames read so far are the file up to pos, in its order: no NAL unit but
\* delimiters is lost or read twice, whichever way reads, the end of the file and
\* Reset alternate, and a frame has one slice, unless the file has none, so that a
\* picture of several slices comes back in several frames (unlike nalsource.h:45);
\* eof_reached_ does not outlast the pass that reached the end, so a file that was
\* rewound can be read again (ReadNextFrame, Reset).
FramesCoverFile ==
    /\ Chosen \subseteq 1..pos
    /\ \A k \in 1..pos : k \in Chosen \/ IsDelimiter(nals[k])
    /\ \A i, j \in 1..Len(frames) : i < j => \A k \in frames[i], l \in frames[j] : k < l
    /\ \A i \in 1..Len(frames) :
         \/ \E k \in frames[i] : \A l \in frames[i] : IsVcl(nals[l]) <=> l = k
         \/ \A k \in 1..Len(nals) : ~IsVcl(nals[k])
    /\ eof => pos = Len(nals)

-----------------------------------------------------------------------------
\* A receiver joins the fragments between a start and an end bit and ignores a
\* fragment without a start.
Receive(r, p) ==
    LET header == p.data[2]
        rest == SubSeq(p.data, 3, Len(p.data))
        whole == IF header >= 128 THEN <<(p.data[1] \div 32) * 32 + (header % 32)>> \o rest
                 ELSE r.part \o rest
    IN  IF NalType(p.data) # 28 THEN [units |-> Append(r.units, p.data), part |-> << >>]
        ELSE IF header < 128 /\ r.part = << >> THEN r
        ELSE IF header % 128 >= 64 THEN [units |-> Append(r.units, whole), part |-> << >>]
        ELSE [units |-> r.units, part |-> whole]

\* What it has after each of the packets.
Received(ps) ==
    LET after[i \in 0..Len(ps)] ==
            IF i = 0 THEN [units |-> << >>, part |-> << >>]
            ELSE Receive(after[i - 1], ps[i])
    IN  after

\* RFC 6184 takes the type of fragments from those that H.264 leaves unspecified.
NoFragmentType == \A k \in 1..Len(nals) : NalType(nals[k]) # 28

\* A receiver gets back exactly the NAL units of the frames read, at every size
\* around the limits of one packet and of two, and has a whole number of them
\* exactly when a packet is the last of its unit; and no packet outgrows its limit
\* (HandleFrame).
ReceiverSeesUnits ==
    /\ NoFragmentType =>
         /\ Received(packets)[Len(packets)]
              = [units |-> Joined(Chosen, [k \in 1..Len(nals) |-> << nals[k] >>]),
                 part |-> << >>]
         /\ \A i \in 1..Len(packets) :
              packets[i].last <=> Received(packets)[i].part = << >>
    /\ \A i \in 1..Len(packets) : Len(packets[i].data) \in 1..MaxPayload
=============================================================================
