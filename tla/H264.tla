-------------------------------- MODULE H264 --------------------------------
(***************************************************************************)
(* From the bytes of an H.264 file to RTP payloads: RawH264NALSource cuts  *)
(* the file into NAL units and the NAL units into frames, H264Source puts a*)
(* NAL unit into one packet or into FU-A fragments.  FeedNextNALFrame calls*)
(* both in one handler, as ReadNextFrame does here.                        *)
(*                                                                         *)
(* A byte is a number; the five low bits of a NAL unit's first byte are its*)
(* type.  A file and a NAL unit are sequences of bytes.                    *)
(*                                                                         *)
(* A definition X_y just before X is a faulty variant of X; no             *)
(* specification uses it.                                                  *)
(***************************************************************************)
EXTENDS Naturals, Sequences, FiniteSetsExt

CONSTANTS
    Files,      \* the files that may be opened
    MaxPayload  \* MAX_RTP_PAYLOAD_SIZE

Byte == 0..255

ASSUME FilesAssumption == Files \subseteq Seq(Byte)
ASSUME PayloadAssumption == MaxPayload \in Nat /\ MaxPayload > 2

VARIABLES
    file,     \* what Open finds
    opened,   \* is_opened_
    nals,     \* cached_nals_
    pos,      \* nal_index_: NAL units read
    eof,      \* eof_reached_
    frames,   \* the frames returned since the file was last at its beginning, each
              \* as its places in cached_nals_
    packets   \* what HandleFrame made of them

vars == <<file, opened, nals, pos, eof, frames, packets>>

-----------------------------------------------------------------------------
(* ExtractNALUnits.                                                        *)

ShortCode(d, i) == i + 2 <= Len(d) /\ d[i] = 0 /\ d[i + 1] = 0 /\ d[i + 2] = 1
LongCode(d, i) == d[i] = 0 /\ ShortCode(d, i + 1)
StartCodeSize(d, i) == IF LongCode(d, i) THEN 4 ELSE IF ShortCode(d, i) THEN 3 ELSE 0

\* Where the NAL unit that starts at i ends: before the next start code.
NalEnd_shortCodesOnly(d, i) ==
    Min({j \in i..Len(d) : ShortCode(d, j)} \cup {Len(d) + 1}) - 1
NalEnd(d, i) ==
    Min({j \in i..Len(d) : StartCodeSize(d, j) > 0} \cup {Len(d) + 1}) - 1

\* A pass of the loop at i: the NAL unit it finds, if any, and the next i.
Found(d, i) ==
    LET first == i + StartCodeSize(d, i)
    IN  IF StartCodeSize(d, i) > 0 /\ first <= NalEnd(d, first)
        THEN << SubSeq(d, first, NalEnd(d, first)) >> ELSE << >>
After(d, i) ==
    IF StartCodeSize(d, i) = 0 THEN i + 1 ELSE NalEnd(d, i + StartCodeSize(d, i)) + 1

ExtractNALUnits(d) ==
    LET from[i \in 1..(Len(d) + 1)] ==
            IF i > Len(d) THEN << >> ELSE Found(d, i) \o from[After(d, i)]
    IN  from[1]

NalType(nal) == nal[1] % 32
IsVcl(nal) == NalType(nal) \in 1..5
IsDelimiter(nal) == NalType(nal) = 9

-----------------------------------------------------------------------------
(* HandleFrame.                                                            *)

FuIndicator(nal) == (nal[1] \div 32) * 32 + 28
FuHeader(nal, isFirst, isLast) ==
    NalType(nal) + (IF isFirst THEN 128 ELSE 0) + (IF isLast THEN 64 ELSE 0)

\* All fragments but the last are full.
Fragments_dropsRest(nal) ==
    LET size == MaxPayload - 2
        n == (Len(nal) - 1) \div size
    IN  [i \in 1..n |->
            [data |-> <<FuIndicator(nal), FuHeader(nal, i = 1, i = n)>>
                      \o SubSeq(nal, (i - 1) * size + 2, Min({i * size + 1, Len(nal)})),
             last |-> i = n]]
Fragments(nal) ==
    LET size == MaxPayload - 2
        n == (Len(nal) - 2) \div size + 1
    IN  [i \in 1..n |->
            [data |-> <<FuIndicator(nal), FuHeader(nal, i = 1, i = n)>>
                      \o SubSeq(nal, (i - 1) * size + 2, Min({i * size + 1, Len(nal)})),
             last |-> i = n]]

HandleFrame(nal) ==
    IF Len(nal) <= MaxPayload THEN << [data |-> nal, last |-> TRUE] >>
    ELSE Fragments(nal)

-----------------------------------------------------------------------------
(* The operations of RawH264NALSource.                                     *)

Init ==
    /\ file \in Files
    /\ opened = FALSE /\ nals = << >> /\ pos = 0 /\ eof = FALSE
    /\ frames = << >> /\ packets = << >>

Open ==
    /\ ~opened /\ ExtractNALUnits(file) # << >>
    /\ nals' = ExtractNALUnits(file)
    /\ opened' = TRUE /\ pos' = 0 /\ eof' = FALSE
    /\ UNCHANGED <<file, frames, packets>>

\* The last NAL unit of the frame that starts behind pos: the one before the
\* second slice.
FrameEnd_beforeAnySlice ==
    Min({k \in (pos + 2)..Len(nals) : IsVcl(nals[k])} \cup {Len(nals) + 1}) - 1
FrameEnd ==
    Min({k \in (pos + 2)..Len(nals) :
            IsVcl(nals[k]) /\ \E i \in (pos + 1)..(k - 1) : IsVcl(nals[i])}
        \cup {Len(nals) + 1}) - 1

\* The sequences w[k] for the members k of S, one behind the other.
Joined(S, w) ==
    LET upTo[k \in 0..Len(w)] ==
            IF k = 0 THEN << >> ELSE IF k \in S THEN upTo[k - 1] \o w[k] ELSE upTo[k - 1]
    IN  upTo[Len(w)]

\* Delimiters are left out, unless the frame begins with one.
ReadNextFrame ==
    LET frame == {k \in (pos + 1)..FrameEnd : k = pos + 1 \/ ~IsDelimiter(nals[k])}
    IN  /\ opened /\ ~eof /\ pos < Len(nals)
        /\ pos' = FrameEnd
        /\ frames' = Append(frames, frame)
        /\ packets' = packets
                      \o Joined(frame, [k \in 1..Len(nals) |-> HandleFrame(nals[k])])
        /\ UNCHANGED <<file, opened, nals, eof>>

EndOfFile ==
    /\ opened /\ (eof \/ pos >= Len(nals))
    /\ eof' = TRUE
    /\ UNCHANGED <<file, opened, nals, pos, frames, packets>>

\* Reset, which Seek equals; the histories start anew.
Reset ==
    /\ opened
    /\ pos' = 0 /\ eof' = FALSE /\ frames' = << >> /\ packets' = << >>
    /\ UNCHANGED <<file, opened, nals>>

Next == Open \/ ReadNextFrame \/ EndOfFile \/ Reset

Spec == Init /\ [][Next]_vars
=============================================================================
