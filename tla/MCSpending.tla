----------------------------- MODULE MCSpending -----------------------------
(***************************************************************************)
(* alice owns two outputs of the genesis coinbase and, once block "B" is   *)
(* connected, the reward of that block.  The transactions are all those    *)
(* that the two requests can be turned into, by either handler and from    *)
(* any of these coins, and three of bob's, who owns the third output: "u"  *)
(* pays the best rate, "s" alone is larger than the whole pool, and "d"    *)
(* spends the outpoint twice.                                              *)
(***************************************************************************)
EXTENDS Spending

In(t, i) == [prev |-> <<t, i>>, key |-> "alice"]
OfBob == [prev |-> <<"cb", 3>>, key |-> "bob"]
Out(n, script) == [amount |-> n, script |-> script]
Reward == <<[prev |-> None, key |-> "alice"]>>

Exact == [from |-> "alice", to |-> "shop", amount |-> 17, fee |-> 0]
Large == [from |-> "alice", to |-> "shop", amount |-> 19, fee |-> 4]
MCRequest == {Exact, Large}

MCTx == {"cb", "cb1", "a1", "a2", "b12", "b13", "b23", "t12", "t13", "t23", "u", "s", "d"}

MCInputs == [t \in MCTx |->
    CASE t \in {"cb", "cb1"} -> Reward
      [] t = "a1" -> <<In("cb", 1)>>
      [] t = "a2" -> <<In("cb", 2)>>
      [] t \in {"b12", "t12"} -> <<In("cb", 1), In("cb", 2)>>
      [] t \in {"b13", "t13"} -> <<In("cb", 1), In("cb1", 1)>>
      [] t \in {"b23", "t23"} -> <<In("cb", 2), In("cb1", 1)>>
      [] t \in {"u", "s"} -> <<OfBob>>
      [] t = "d" -> <<OfBob, OfBob>>]

MCOutputs == [t \in MCTx |->
    CASE t = "cb" -> <<Out(20, "alice"), Out(20, "alice"), Out(20, "bob")>>
      [] t = "cb1" -> <<Out(17, "alice")>>
      [] t \in {"a1", "a2"} -> <<Out(17, "shop")>>
      [] t = "b12" -> <<Out(19, "shop"), Out(17, "alice")>>
      [] t \in {"b13", "b23"} -> <<Out(19, "shop"), Out(14, "alice")>>
      [] t = "t12" -> <<Out(19, "shop"), Out(18, "alice")>>
      [] t \in {"t13", "t23"} -> <<Out(19, "shop"), Out(15, "alice")>>
      [] t = "u" -> <<Out(14, "shop")>>
      [] t = "s" -> <<Out(12, "shop")>>
      [] t = "d" -> <<Out(30, "shop")>>]

MCSize == [t \in MCTx |-> 
    CASE t \in {"a1", "a2", "u", "d"} -> 2 [] t = "s" -> 6 [] OTHER -> 3]

MCKeyOrder ==
    <<<<"cb", 1>>, <<"cb", 2>>, <<"cb1", 1>>, <<"b12", 2>>, <<"b12", 1>>,
      <<"a1", 1>>, <<"a2", 1>>, <<"b13", 1>>, <<"b13", 2>>, <<"b23", 1>>, <<"b23", 2>>,
      <<"t12", 1>>, <<"t12", 2>>, <<"t13", 1>>, <<"t13", 2>>, <<"t23", 1>>, <<"t23", 2>>,
      <<"cb", 3>>, <<"u", 1>>, <<"s", 1>>, <<"d", 1>>>>

MCBlock == {"G", "B"}
MCHeader == [b \in MCBlock |->
    IF b = "G" THEN [prev |-> None, height |-> 0, time |-> 0, bits |-> 208, sound |-> TRUE]
               ELSE [prev |-> "G", height |-> 1, time |-> 8, bits |-> 208, sound |-> TRUE]]
MCBody == [b \in MCBlock |-> IF b = "G" THEN <<"cb">> ELSE <<"cb1", "a1">>]
=============================================================================
