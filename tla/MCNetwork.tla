----------------------------- MODULE MCNetwork -----------------------------
(***************************************************************************)
(* Three nodes, each connected to the two others, and a chain of two       *)
(* blocks or a fork of two.                                                *)
(***************************************************************************)
EXTENDS Network, TLC

Triangle == [n \in Node |-> Node \ {n}]

OneBusy == {<<"n1", "n2">>}

Ring == "n1" :> "n3" @@ "n2" :> "n1" @@ "n3" :> "n2"

Line == "g" :> None @@ "b1" :> "g" @@ "b2" :> "b1"

Fork == "g" :> None @@ "b1" :> "g" @@ "c1" :> "g"
=============================================================================
