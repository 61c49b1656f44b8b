------------------------------ MODULE MCPeers ------------------------------
(***************************************************************************)
(* "a1" and "a2" are two addresses on one host; "s" is a seed that is      *)
(* dialled by its address.                                                 *)
(***************************************************************************)
EXTENDS PeerNode, TLC

MCHost == "a1" :> "a" @@ "a2" :> "a" @@ "s" :> "s"

MCBanScore == -30

NoNames == [k \in {"s"} |-> k]

ConnSymmetry == Permutations(Conn)
=============================================================================
