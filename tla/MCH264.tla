------------------------------- MODULE MCH264 -------------------------------
(***************************************************************************)
(* Files for H264.                                                         *)
(***************************************************************************)
EXTENDS H264Reference, SequencesExt

\* Every file of up to seven bytes that are zero, one or the header of a slice.
AnyBytes == UNION {[1..n -> {0, 1, 37}] : n \in 1..7}

\* Files of up to four NAL units behind start codes of both sizes: a delimiter,
\* parameters, slices, and slices of one, two and three fragments.
Units == {<<9, 1>>, <<39, 2>>, <<37>>, <<33, 2, 3, 4>>, <<37, 2, 3, 4, 5>>,
          <<33, 2, 3, 4, 5, 6, 7, 8>>}
Written(us) ==
    FlattenSeq([i \in 1..Len(us) |-> (IF i = 2 THEN <<0, 0, 1>> ELSE <<0, 0, 0, 1>>) \o us[i]])
Streams == {Written(us) : us \in UNION {[1..n -> Units] : n \in 1..4}}

SomeFiles == AnyBytes \cup Streams
=============================================================================
