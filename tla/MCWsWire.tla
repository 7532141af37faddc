------------------------------ MODULE MCWsWire ------------------------------
(* A small instance of WsWire: the key of the example in docs/websocket.md, *)
(* and frames at every boundary of the length's three forms.               *)
EXTENDS WsWire

\* dGhlIHNhbXBsZSBub25jZQ== and s3pPLMBiTxaQ9kYGzzhZRbK+xOo=
ExampleKey == <<100, 71, 104, 108, 73, 72, 78, 104, 98, 88, 66, 115, 90, 83, 66, 117, 98,
                50, 53, 106, 90, 81, 61, 61>>
ExampleAccept == <<115, 51, 112, 80, 76, 77, 66, 105, 84, 120, 97, 81, 57, 107, 89, 71, 122,
                   122, 104, 90, 82, 98, 75, 43, 120, 79, 111, 61>>

Lengths == {0, 1, 125, 126, 127, 128, 255, 256, 65535, 65536, 65537, 16777216, 2147483647}

FrameForms ==
    {f \in [form : {7, 16, 64}, len : Lengths, high : {0, 1}] :
        /\ f.form = 7 => f.len < 126
        /\ f.form = 16 => f.len < 65536
        /\ f.form # 64 => f.high = 0}

AnyFrames ==
    {[fin |-> fin, rsv |-> rsv, op |-> op, mask |-> mask,
      form |-> f.form, len |-> f.len, high |-> f.high] :
        fin \in BOOLEAN, rsv \in {0, 4}, op \in {0, 2, 3, 8, 10, 11},
        mask \in {<< >>, <<1, 2, 128, 255>>}, f \in FrameForms}
=============================================================================
