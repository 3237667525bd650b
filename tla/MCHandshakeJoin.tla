--------------------------- MODULE MCHandshakeJoin ---------------------------
(***************************************************************************)
(* Instances of HandshakeJoin for TLC: one tuple of R meets two of S of     *)
(* different keys.  The memory behind both relations holds the key of R's   *)
(* tuple again, or keys that match nothing.                                 *)
(***************************************************************************)
EXTENDS HandshakeJoin, TLC

MCKeyR == 0 :> 1
MCKeyS == 0 :> 2 @@ 1 :> 1
MCPastKeys == {[R |-> 1, S |-> 1], [R |-> 3, S |-> 2]}
==============================================================================
