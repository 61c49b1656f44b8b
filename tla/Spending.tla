------------------------------ MODULE Spending ------------------------------
(***************************************************************************)
(* Transactions made by the node itself: wallet.BuildTransaction selects   *)
(* coins from the store, and the RPC handlers buildTx and genesisTrade put *)
(* the result into the mempool.  The handlers run concurrently; nothing is *)
(* locked between the selection and Mempool.Add.                           *)
(***************************************************************************)
EXTENDS Mempool

CONSTANTS
    Handler,      \* goroutines serving /tx/build and /genesis/trade
    Request,      \* [from, to, amount, fee]; fee 0 asks for the default
    DefaultFee,   \* 1000 in both handlers
    KeyOrder      \* the outpoints in the order WalkPrefix visits their keys

ASSUME SpendingAssumption ==
    /\ Request \subseteq [from : Script, to : Script, amount : 0 .. MaxUint, fee : 0 .. MaxUint]
    /\ DefaultFee \in Nat
    /\ KeyOrder \in Seq(Outpoint) /\ Range(KeyOrder) = Outpoint /\ IsInjective(KeyOrder)

VARIABLES
    building,     \* the transaction a handler has built and not yet added
    reply         \* the kind of the last answer: the code of an error, or "type"

vars == <<utxo, poolVars, building, reply>>

-----------------------------------------------------------------------------
(* wallet.BuildTransaction *)

ListUTXOsByScript(script) ==
    SelectSeq(KeyOrder, LAMBDA o : utxo[o] # None /\ utxo[o].script = script)

AmountOf(coins) == SumFunction([i \in DOMAIN coins |-> utxo[coins[i]].amount])

Need(r) == r.amount + r.fee

\* The numbers of coins, in order, that cover n.
Covering(coins, n) == {k \in DOMAIN coins : AmountOf(SubSeq(coins, 1, k)) >= n}

\* Mutant: the fee is left out when coins are selected.
SelectedWithoutFee(r) ==
    LET coins == ListUTXOsByScript(r.from)
    IN  SubSeq(coins, 1, Min(Covering(coins, r.amount)))

\* Coins are taken in order until they cover amount and fee.
Selected(r) ==
    LET coins == ListUTXOsByScript(r.from)
    IN  SubSeq(coins, 1, Min(Covering(coins, Need(r))))

\* None of the error returns.
CanBuild(r) ==
    /\ r.amount > 0 /\ Need(r) <= MaxUint
    /\ Covering(ListUTXOsByScript(r.from), Need(r)) # {}
    /\ AmountOf(Selected(r)) <= MaxUint

\* t is the transaction made for r: the selected coins, the payment, the change.
BuildTransaction(r, t) ==
    LET change == AmountOf(Selected(r)) - Need(r)
        payment == <<[amount |-> r.amount, script |-> r.to]>>
    IN  /\ Inputs[t] = [i \in DOMAIN Selected(r) |-> [prev |-> Selected(r)[i], key |-> r.from]]
        /\ Outputs[t] = IF change > 0
                        THEN Append(payment, [amount |-> change, script |-> r.from])
                        ELSE payment

-----------------------------------------------------------------------------
(* The handlers *)

\* buildTx charges the fee it is asked for, or the default.
Charged(r) == [r EXCEPT !.fee = IF @ = 0 THEN DefaultFee ELSE @]

Building(h, kind, r) ==
    /\ building[h] = None
    /\ CanBuild(r)
    /\ \E t \in Tx :
        BuildTransaction(r, t) /\ building' = [building EXCEPT ![h] = [kind |-> kind, tx |-> t]]
    /\ UNCHANGED <<utxo, poolVars, reply>>

\* buildTx, up to BuildTransaction.
BuildTx(h, r) == Building(h, "built", Charged(r))

BuildTxFails(h, r) ==
    /\ building[h] = None
    /\ r.amount = 0 \/ ~CanBuild(Charged(r))
    /\ reply' = "error"
    /\ UNCHANGED <<utxo, poolVars, building>>

\* genesisTrade, up to BuildTransaction; the fee is fixed.
GenesisTrade(h, r) == r.amount > 0 /\ Building(h, "genesis_utxo", [r EXCEPT !.fee = DefaultFee])

\* The metadata answers: nothing to build, or building failed.
GenesisTradeMeta(h, r) ==
    /\ building[h] = None
    /\ r.amount = 0 \/ ~CanBuild([r EXCEPT !.fee = DefaultFee])
    /\ reply' = "genesis_meta"
    /\ UNCHANGED <<utxo, poolVars, building>>

\* Mempool.Add took the transaction.
Added(h) ==
    /\ building[h] # None
    /\ Add(building[h].tx)
    /\ reply' = building[h].kind
    /\ building' = [building EXCEPT ![h] = None]
    /\ UNCHANGED utxo

\* Mempool.Add refused it: buildTx says so, genesisTrade does not look.
AddRefused(h) ==
    /\ building[h] # None
    /\ ~ValidTx(building[h].tx, utxo, Claimed, AnyHeight)
    /\ reply' = IF building[h].kind = "built" THEN "error" ELSE building[h].kind
    /\ building' = [building EXCEPT ![h] = None]
    /\ UNCHANGED <<utxo, poolVars>>

Init ==
    /\ PoolInit
    /\ utxo = [o \in Outpoint |-> None]
    /\ building = [h \in Handler |-> None]
    /\ reply = "error"

Next ==
    \/ \E h \in Handler :
        \/ \E r \in Request :
            BuildTx(h, r) \/ BuildTxFails(h, r) \/ GenesisTrade(h, r) \/ GenesisTradeMeta(h, r)
        \/ Added(h)
        \/ AddRefused(h)
    \/ PoolNext /\ UNCHANGED <<building, reply>>

Spec == Init /\ [][Next]_vars

-----------------------------------------------------------------------------
\* A request the wallet can pay for is turned into a transaction that the
\* mempool takes, whatever coins the store holds and whatever is pooled: unless
\* BuildTransaction picks a coin a pooled transaction already spends, or the fee
\* asked for is below the relay minimum of the size that results.
RequestAdmissible ==
    \A r \in Request :
        CanBuild(Charged(r)) =>
            \E t \in Tx :
                /\ BuildTransaction(Charged(r), t)
                /\ SpentBy(t) \cap Claimed = {} /\ Charged(r).fee >= MinFee(t)
                    => ValidTx(t, utxo, Claimed, AnyHeight)
=============================================================================
