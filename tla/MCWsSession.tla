----------------------------- MODULE MCWsSession -----------------------------
(***************************************************************************)
(* Small instances of WsSession, and what a comment of the code says of it.*)
(***************************************************************************)
EXTENDS WsSession, TLC

F(op, fin, len) == [op |-> op, fin |-> fin, masked |-> TRUE, badAt |-> 0,
                    len |-> len, code |-> 0]
CloseF(len, code) == [F("Close", TRUE, len) EXCEPT !.code = code]

UpgradeRequest == {F("Upgrade", TRUE, 2)}
\* The last one is longer than max_handshake_bytes.
AnyRequest == UpgradeRequest \cup {F("NotUpgrade", TRUE, 1), F("NotUpgrade", TRUE, 6)}

\* Whole and fragmented messages, with a Pong in between.
DataFrames == {F("Text", TRUE, 1), F("Text", FALSE, 1), F("Binary", FALSE, 2),
               F("Continuation", FALSE, 1), F("Continuation", TRUE, 1),
               F("Pong", TRUE, 0)}
\* The same with everything ProcessFrameBuffer refuses, and a Close.
AnyFrames == DataFrames \cup
             {F("Text", FALSE, 0),
              [F("Text", TRUE, 0) EXCEPT !.badAt = 1],
              [F("Text", TRUE, 0) EXCEPT !.badAt = 2],
              [F("Text", TRUE, 0) EXCEPT !.masked = FALSE],
              F("Ping", FALSE, 0), F("Pong", TRUE, 2), F("Pong", TRUE, 1),
              F("Binary", TRUE, 3), CloseF(0, 0)}
\* Frames that make the session write.
CloseFrames == {F("Text", TRUE, 0), F("Ping", TRUE, 0), CloseF(0, 0),
                CloseF(2, 1001)}
BeatFrames == {F("Pong", TRUE, 0), CloseF(0, 0)}

ThreadSymmetry == Permutations(Threads)

NoReply == {"none"}
AllReplies == {"none", "send", "close"}

-----------------------------------------------------------------------------
\* What DoClose's comment says of it: the close flow runs once.
CloseFlowRunsOnce == Len(closeCalls) <= 1
=============================================================================
