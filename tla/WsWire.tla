------------------------------- MODULE WsWire -------------------------------
(***************************************************************************)
(* The bytes of a WebSocket connection: the accept key of the handshake    *)
(* response, computed by Sha1 and Base64Encode, and then frames.  What is  *)
(* done with the frames is in WsSession.                                   *)
(***************************************************************************)
EXTENDS AcceptKey, WsFrame

CONSTANT ExpectedKey  \* the accept key that belongs to Key

vars == <<hashVars, blockVars, frameVars>>

Init == HashInit /\ KeyInit /\ FrameInit

HashText == HashNext /\ UNCHANGED <<blockVars, frameVars>>
HashBlock == ProcessBlock /\ UNCHANGED <<hashVars, frameVars>>

\* Frames come after the response.
Frames == Finished /\ FrameNext /\ UNCHANGED <<hashVars, blockVars>>

Next == HashText \/ HashBlock \/ Frames

Spec == Init /\ [][Next]_vars

\* The accept key is the one that belongs to the key, as in the guide's example.
KeyAccepted == Finished => AcceptKey = ExpectedKey
=============================================================================
