------------------------------ MODULE MCChain ------------------------------
(***************************************************************************)
(* The blocks of the chain models.                                         *)
(*                                                                         *)
(*    G -- A1 -- A2 -- A3       A3 mines "pay" and claims its fee          *)
(*     \     \     \-- C3       C3 mines "alt", which conflicts with "pay" *)
(*      \     \     \- E3       E3 mines nothing                           *)
(*       \     \-- I2           I2 mines "pay" too early, overpays itself  *)
(*        B1 -- B2              found fast: B2 weighs more than A1 to A3   *)
(*                                                                         *)
(* Base 4 and four digits: bits 223 are the target 31 (work 8), bits 156   *)
(* the target 7 (work 32).  The window is 2 blocks, so height 2 retargets. *)
(***************************************************************************)
EXTENDS ChainReplay, TLC

Easy == 223
Hard == 156

Blk(prev, h, time, bits) ==
    [prev |-> prev, height |-> h, time |-> time, bits |-> bits, sound |-> TRUE]

MCBlock == {"G", "A1", "B1", "A2", "B2", "I2", "A3", "C3", "E3"}

MCHeader ==
    "G"  :> Blk(None, 0, 0, Easy) @@
    "A1" :> Blk("G", 1, 8, Easy) @@
    "B1" :> Blk("G", 1, 2, Easy) @@
    "A2" :> Blk("A1", 2, 16, Easy) @@
    "I2" :> Blk("A1", 2, 17, Easy) @@
    "B2" :> Blk("B1", 2, 16, Hard) @@
    "A3" :> Blk("A2", 3, 24, Easy) @@
    "C3" :> Blk("A2", 3, 25, Easy) @@
    "E3" :> Blk("A2", 3, 26, Easy)

MCBody ==
    "G"  :> <<"G">> @@
    "A1" :> <<"A1">> @@
    "B1" :> <<"B1">> @@
    "A2" :> <<"A2">> @@
    "I2" :> <<"I2", "pay">> @@
    "B2" :> <<"B2">> @@
    "A3" :> <<"A3", "pay">> @@
    "C3" :> <<"C3", "alt">> @@
    "E3" :> <<"E3">>

MCChainWork ==
    [b \in Block |->
        CASE b = "B2" -> 48
          [] OTHER -> 8 * (HeightOf(b) + 1)]

\* A transaction is named after the block it is the coinbase of.
MCTx == Block \cup {"pay", "alt"}

Coinbase == <<[prev |-> None, key |-> "miner"]>>
OfA1 == <<[prev |-> <<"A1", 1>>, key |-> "miner"]>>

Pays(amount, script) == [amount |-> amount, script |-> script]

MCInputs ==
    "pay" :> OfA1 @@ "alt" :> OfA1 @@
    "G"  :> Coinbase @@ "A1" :> Coinbase @@ "B1" :> Coinbase @@
    "A2" :> Coinbase @@ "I2" :> Coinbase @@ "B2" :> Coinbase @@
    "A3" :> Coinbase @@ "C3" :> Coinbase @@ "E3" :> Coinbase

MCOutputs ==
    "pay" :> <<Pays(8, "shop"), Pays(4, "miner")>> @@
    "alt" :> <<Pays(10, "miner")>> @@
    "G"  :> <<Pays(16, "genesis")>> @@
    "A1" :> <<Pays(16, "miner")>> @@
    "B1" :> <<Pays(16, "miner")>> @@
    "A2" :> <<Pays(16, "miner")>> @@
    "I2" :> <<Pays(99, "miner")>> @@
    "B2" :> <<Pays(16, "miner")>> @@
    "A3" :> <<Pays(12, "miner")>> @@
    "C3" :> <<Pays(8, "miner")>> @@
    "E3" :> <<Pays(8, "miner")>>

MCSize ==
    "pay" :> 2 @@ "alt" :> 2 @@
    "G" :> 2 @@ "A1" :> 2 @@ "B1" :> 2 @@ "A2" :> 2 @@ "I2" :> 2 @@
    "B2" :> 2 @@ "A3" :> 2 @@ "C3" :> 2 @@ "E3" :> 2

\* Subsets of the blocks; each contains the parents of its members.
Line == {"G", "A1", "A2", "A3"}
LineAndB1 == Line \cup {"B1"}
Twins == {"G", "A1", "B1"}
ForkAt1 == {"G", "A1", "A2", "B1"}

ThreadSymmetry == Permutations(Thread)
=============================================================================
