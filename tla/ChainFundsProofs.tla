------------------------- MODULE ChainFundsProofs -------------------------
(***************************************************************************)
(* The value of the coins, and what is pooled, in the chain manager when   *)
(* calls come one at a time and no write fails: no block makes or loses    *)
(* money, and the pool holds nothing that is mined and spends nothing that *)
(* never was.                                                              *)
(***************************************************************************)
EXTENDS ChainLedgerProofs, LedgerProofs

-----------------------------------------------------------------------------
(* The hypotheses and the inductive invariants *)

\* The genesis block mints and does nothing else (CreateGenesisBlock).
GenesisMints == Len(Body[Genesis]) = 1 /\ IsCoinbase(Body[Genesis][1])

\* The coinbase of a block is in no other block.  Nothing in the code enforces this:
\* two coinbases for one address differ only by the second their templates were made.
CoinbasesDiffer ==
    \A b, c \in Block : b # c /\ Len(Body[b]) > 0 =>
        \A i \in DOMAIN Body[c] : Body[c][i] # Body[b][1]

\* The inductive invariant of the coins: they fit the transactions, and are worth what
\* was issued.
FundsInv ==
    /\ Fits(MainChainCoins, Connected)
    /\ IsFiniteSet(Held(MainChainCoins))
    /\ \A i \in DOMAIN Branch : Issued(Branch)[i] \in Int
    /\ Value(MainChainCoins) = SumFunction(Issued(Branch))

\* The pool is clean: a pooled transaction is in a block of the main chain only until
\* the call that connected the block has reached RemoveMinedBlock.
PoolClean ==
    \A x \in Pooled : x \in Connected =>
        \E t \in Thread : th[t].pc \in {"work", "clean"} /\ x \in MinedIn(tip)

\* What a pooled transaction spends is there, was spent on the main chain, or is made
\* by the block whose batch is being written.
InputsKnown ==
    \A x \in Pooled : \A o \in SpentBy(x) :
        \/ MainChainCoins[o] # None
        \/ \E y \in Connected : o \in SpentBy(y)
        \/ \E t \in Thread : th[t].pc = "applying" /\ o \in CreatedIn(th[t].block)

\* Nothing is pooled before the node is up, and only payments are.
PoolUsed ==
    /\ ~up => Pooled = {}
    /\ \A t \in Thread : th[t].pc = "work" /\ th[t].kind = "genesis" => ~up
    /\ \A x \in Pooled : ~IsCoinbase(x) /\ SpentBy(x) \subseteq Outpoint

\* The inductive invariant of the pool.
PoolLedgerInv == PoolClean /\ InputsKnown /\ PoolUsed

-----------------------------------------------------------------------------
(* The coins *)

\* A block that is being connected: valid on top of the coins of the main chain, and
\* its coinbase is new.
LEMMA ApplyingConnects ==
    ASSUME Serial, GenesisMints, CoinbasesDiffer, Inv, SerialInv, LedgerInv,
           NEW t \in Thread, th[t].pc = "applying"
    PROVE  /\ th[t].block \in Block /\ Connectable(th[t].block, MainChainCoins)
           /\ Body[th[t].block][1] \notin Connected
           /\ \A i \in DOMAIN Branch : Branch[i] \in Block
<1>1. PICK b : b = th[t].block
  OBVIOUS
<1>2. /\ b = th[t].side[1] /\ b \in Block /\ OnTop(b, th[t].kind)
  <2>1. /\ CallKnows(th[t]) /\ DOMAIN th[t].side = {1} /\ th[t].side[1] \in Block
    BY CallBlock
  <2>2. th[t].left \in DOMAIN th[t].side /\ b = th[t].side[th[t].left]
    BY <1>1 DEF Inv, CallsConsistent, Consistent
  <2>3. QED
    BY <2>1, <2>2 DEF CallKnows
<1>3. Connectable(b, MainChainCoins)
  <2>1. CASE th[t].kind # "genesis"
    <3>1. ValidBlockTxs(b, MainChainCoins)
      BY <1>2, <2>1 DEF LedgerInv, LedgerKnows
    <3>2. QED
      BY <3>1, Zenon DEF ValidBlockTxs, Connectable
  <2>2. CASE th[t].kind = "genesis"
    <3>1. b = Genesis
      BY <1>2, <2>2 DEF OnTop
    <3>2. Len(Body[b]) = 1 /\ IsCoinbase(Body[b][1]) /\ Len(Body[b]) > 0 /\ Body[b] \in Seq(Tx)
      BY <1>2, <3>1, LedgerAssumption DEF GenesisMints
    <3>3. DOMAIN Body[b] = {1}
      BY <3>2
    <3>4. DOMAIN Payments(b) = {}
      BY <1>2, <3>2, <3>3, PaymentsAre
    <3>5. QED
      BY <3>2, <3>4, Zenon DEF Connectable, ValidPayments
  <2>3. QED
    BY <2>1, <2>2
<1>4. \A i \in DOMAIN Branch : Branch[i] \in Block /\ Branch[i] # b
  <2>1. PICK n \in Nat :
          /\ DOMAIN Branch = 1 .. n
          /\ \A i \in 1 .. n : Branch[i] \in Block /\ HeightOf(Branch[i]) = i - 1
          /\ n = 0 <=> tip = None
          /\ tip # None => n = HeightOf(tip) + 1
    BY BranchIs, Zenon DEF SerialInv
  <2>2. tip = None \/ HeightOf(b) = HeightOf(tip) + 1
    BY <1>2 DEF OnTop
  <2>3. n = 0 \/ HeightOf(b) = n
    BY <2>1, <2>2
  <2>4. \A i \in 1 .. n : i - 1 # n
    OBVIOUS
  <2>5. QED
    BY <2>1, <2>3, <2>4
<1>5. Body[b][1] \notin Connected
  <2> SUFFICES ASSUME Body[b][1] \in Connected PROVE FALSE
    OBVIOUS
  <2>1. PICK i \in DOMAIN Branch : Body[b][1] \in Range(Body[Branch[i]])
    BY DEF Connected
  <2>2. PICK j \in DOMAIN Body[Branch[i]] : Body[b][1] = Body[Branch[i]][j]
    BY <2>1, Zenon DEF Range
  <2>3. Len(Body[b]) > 0
    BY <1>3 DEF Connectable
  <2>4. QED
    BY <1>2, <1>4, <2>2, <2>3 DEF CoinbasesDiffer
<1>6. QED
  BY <1>1, <1>2, <1>3, <1>4, <1>5, Zenon

\* The coins fit the transactions, and are worth what was issued, after the block.
LEMMA FundsGrow ==
    ASSUME Serial, GenesisMints, CoinbasesDiffer, Inv, SerialInv, LedgerInv, FundsInv,
           NEW t \in Thread, NEW b, NEW k, NEW kind, Connecting(t, b, k, kind), IsLast(b, k)
    PROVE  FundsInv'
<1>1. PICK n \in Nat :
        /\ DOMAIN Branch = 1 .. n /\ Branch \in Seq(Block) /\ Len(Branch) = n
        /\ MainChainCoins = IF n = 0 THEN NoCoins ELSE Replay[Branch[n]]
  BY BranchIs, Zenon DEF SerialInv
<1>2. /\ b \in Block /\ MainChainCoins' = Connect(MainChainCoins, b)
      /\ DOMAIN Branch' = 1 .. n + 1 /\ Branch'[n + 1] = b
      /\ \A i \in 1 .. n : Branch'[i] = Branch[i]
      /\ Connected' = Connected \cup Range(Body[b])
  BY <1>1, BranchGrows, Zenon
<1>3. Connectable(b, MainChainCoins) /\ Body[b][1] \notin Connected
  BY ApplyingConnects, ConnectingCall, Zenon
<1>4. PICK coins, done, path, longer, after :
        /\ coins = MainChainCoins /\ done = Connected /\ path = Branch /\ longer = Branch'
        /\ after = MainChainCoins'
  OBVIOUS
<1>5. /\ Fits(coins, done) /\ IsFiniteSet(Held(coins))
      /\ Value(coins) = SumFunction(Issued(path))
      /\ \A i \in 1 .. n : Issued(path)[i] \in Int
      /\ Connectable(b, coins) /\ Body[b][1] \notin done
  BY <1>1, <1>3, <1>4, Zenon DEF FundsInv
<1>6. PICK d : d = OutputTotal(Body[b][1]) - FeeTotal(Payments(b), coins)
  OBVIOUS
<1>7. /\ IsFiniteSet(Held(after)) /\ Value(after) = Value(coins) + d /\ d \in Int
      /\ Fits(after, done \cup Range(Body[b]))
  <2>1. after = Connect(coins, b)
    BY <1>2, <1>4, Zenon
  <2>2. Fits(Connect(coins, b), done \cup Range(Body[b]))
    BY <1>2, <1>5, ConnectFits, Zenon
  <2>3. /\ IsFiniteSet(Held(Connect(coins, b)))
        /\ Value(Connect(coins, b)) =
             Value(coins) + (OutputTotal(Body[b][1]) - FeeTotal(Payments(b), coins))
        /\ OutputTotal(Body[b][1]) - FeeTotal(Payments(b), coins) \in Int
    BY <1>2, <1>5, SupplyStep, Zenon
  <2>4. QED
    BY <1>6, <2>1, <2>2, <2>3, Zenon
<1>8. /\ \A i \in DOMAIN longer : Issued(longer)[i] \in Int
      /\ SumFunction(Issued(longer)) = SumFunction(Issued(path)) + d
  <2>1. /\ DOMAIN path = 1 .. n /\ DOMAIN longer = 1 .. n + 1
        /\ longer[n + 1] = b /\ \A i \in 1 .. n : longer[i] = path[i]
        /\ coins = IF n = 0 THEN NoCoins ELSE Replay[path[n]]
    BY <1>1, <1>2, <1>4, Zenon
  <2>2. d = OutputTotal(Body[longer[n + 1]][1]) - FeeTotal(Payments(longer[n + 1]), coins)
    BY <1>6, <2>1, Zenon
  <2>3. QED
    BY <1>5, <1>7, <2>1, <2>2, IssuedGrows
<1>9. Value(after) = SumFunction(Issued(longer))
  BY <1>5, <1>7, <1>8, Zenon
<1>10. QED
  BY <1>2, <1>4, <1>7, <1>8, <1>9, Zenon DEF FundsInv

\* A step that leaves the tip alone leaves the coins and their value alone.
LEMMA FundsKept ==
    ASSUME FundsInv, tip' = tip
    PROVE  FundsInv'
BY BranchKept, Zenon DEF FundsInv

\* Every step keeps the coins in order.
LEMMA FundsNext ==
    ASSUME Serial, GenesisMints, CoinbasesDiffer, Inv, SerialInv, LedgerInv, FundsInv, [Next]_vars
    PROVE  FundsInv'
BY TipMoves, FundsGrow, FundsKept, Zenon

\* Before the genesis block there are no coins.
LEMMA FundsInit == Init => FundsInv
<1> SUFFICES ASSUME Init PROVE FundsInv
  OBVIOUS
<1>1. Branch = <<>> /\ MainChainCoins = NoCoins
  BY DEF Init, Branch, MainChainCoins
<1>2. DOMAIN Branch = {}
  BY <1>1
<1>3. Connected = {}
  BY <1>2, Zenon DEF Connected
<1>4. QED
  BY <1>1, <1>2, <1>3, NoCoinsFit, NothingIssued, Zenon DEF FundsInv

\* A coin on disk is a coin of the main chain, or a new one of the block whose batch
\* is being written.
LEMMA CoinOnDisk ==
    ASSUME Serial, GenesisMints, CoinbasesDiffer, Inv, SerialInv, LedgerInv, FundsInv,
           NEW o \in Outpoint, utxo[o] # None, MainChainCoins[o] = None
    PROVE  \E t \in Thread : /\ th[t].pc = "applying" /\ o \in CreatedIn(th[t].block)
                             /\ o[1] \notin Connected
<1>1. PICK t \in Thread : th[t].pc = "applying"
  BY Zenon DEF LedgerInv
<1>2. PICK b : b = th[t].block
  OBVIOUS
<1>3. b \in Block /\ Connectable(b, MainChainCoins) /\ Body[b][1] \notin Connected
  BY <1>1, <1>2, ApplyingConnects, Zenon
<1>4. PartWay(MainChainCoins, b, th[t].done, utxo)
  BY <1>1, <1>2, Zenon DEF LedgerInv, LedgerKnows
<1>5. PICK k : Sets(b, k, o, utxo[o])
  BY <1>4, Zenon DEF PartWay
<1>6. PICK i \in DOMAIN Body[b] : o \in CreatedBy(Body[b][i])
  BY <1>5, Zenon DEF Sets
<1>7. Body[b][i] \notin Connected
  BY <1>3, BlockIsNew, Zenon DEF FundsInv
<1>8. Body[b][i] \in Tx
  BY <1>3, LedgerAssumption
<1>9. o[1] = Body[b][i]
  BY <1>6, <1>8, CreatedNames, Zenon
<1>10. o \in CreatedIn(b)
  BY <1>6, Zenon DEF CreatedIn
<1>11. QED
  BY <1>1, <1>2, <1>7, <1>9, <1>10, Zenon

\* Mempool.Add takes a payment that is not on the main chain and whose inputs are
\* there, even while a batch is half written.
LEMMA AddTxPoolLedger ==
    ASSUME Serial, GenesisMints, CoinbasesDiffer, Inv, SerialInv, LedgerInv, FundsInv,
           PoolLedgerInv, NEW x \in Tx, AddTx(x)
    PROVE  PoolLedgerInv'
<1>1. UNCHANGED <<tip, th, up>> /\ up /\ utxo \in Log /\ ValidTx(x, utxo, Claimed, AnyHeight)
  BY DEF AddTx, Add, tables, Inv, TypeOK
<1>2. /\ ~IsCoinbase(x) /\ SpentBy(x) # {}
      /\ \A o \in SpentBy(x) : o \in Outpoint /\ utxo[o] # None
  BY <1>1, ValidSpends, Zenon
<1>3. \A y \in Pooled' : y \in Pooled \/ y = x
  <2>1. PICK evicted \in SUBSET Pooled :
          pool' = [PoolWithout(evicted) EXCEPT ![x] = Fee(x, utxo)]
    BY Zenon DEF AddTx, Add
  <2>2. \A y \in Tx : y # x /\ pool'[y] # None => pool[y] # None
    BY <2>1 DEF PoolWithout
  <2>3. QED
    BY <2>2, Zenon DEF Pooled
<1>4. Branch' = Branch /\ Connected' = Connected /\ MainChainCoins' = MainChainCoins
  BY <1>1, BranchKept, Zenon
<1>5. x \notin Connected
  <2> SUFFICES ASSUME x \in Connected PROVE FALSE
    OBVIOUS
  <2>1. PICK o \in SpentBy(x) : o \in Outpoint /\ utxo[o] # None
    BY <1>2, Zenon
  <2>2. MainChainCoins[o] = None /\ o[1] \in Connected
    BY <1>2, Zenon DEF FundsInv, Fits
  <2>3. QED
    BY <2>1, <2>2, CoinOnDisk, Zenon
<1>6. PoolClean'
  BY <1>1, <1>3, <1>4, <1>5, Zenon DEF PoolLedgerInv, PoolClean
<1>7. \A o \in SpentBy(x) :
        \/ MainChainCoins[o] # None
        \/ \E t \in Thread : th[t].pc = "applying" /\ o \in CreatedIn(th[t].block)
  BY <1>2, CoinOnDisk, Zenon
<1>8. InputsKnown'
  BY <1>1, <1>3, <1>4, <1>7, Zenon DEF PoolLedgerInv, InputsKnown
<1>9. PoolUsed'
  BY <1>1, <1>2, <1>3, Zenon DEF PoolLedgerInv, PoolUsed
<1>10. QED
  BY <1>6, <1>8, <1>9, Zenon DEF PoolLedgerInv

\* A step of a call that leaves the tip and the pool alone.
LEMMA PoolLedgerKept ==
    ASSUME Serial, PoolLedgerInv, NEW t \in Thread, UNCHANGED <<tip, pool, up>>,
           th[t].pc \notin {"work", "clean"}, th'[t].pc # "work",
           th[t].pc = "applying" => th'[t].pc = "applying" /\ th'[t].block = th[t].block
    PROVE  PoolLedgerInv'
<1>1. \A s \in Thread : s = t
  BY OneThread
<1>2. Connected' = Connected /\ MainChainCoins' = MainChainCoins
  BY BranchKept, Zenon
<1>3. Pooled' = Pooled
  BY Zenon DEF Pooled
<1>4. PoolClean'
  <2>1. \A x \in Pooled : x \notin Connected
    BY <1>1, Zenon DEF PoolLedgerInv, PoolClean
  <2>2. QED
    BY <1>2, <1>3, <2>1, Zenon DEF PoolClean
<1>5. InputsKnown'
  BY <1>1, <1>2, <1>3, Zenon DEF PoolLedgerInv, InputsKnown
<1>6. PoolUsed'
  BY <1>1, <1>3, Zenon DEF PoolLedgerInv, PoolUsed
<1>7. QED
  BY <1>4, <1>5, <1>6, Zenon DEF PoolLedgerInv

\* A step that is none of a call's.
LEMMA PoolLedgerStutters ==
    ASSUME PoolLedgerInv, UNCHANGED <<tip, pool, th>>, up => up',
           \A t \in Thread : th[t].pc = "work" => up' = up
    PROVE  PoolLedgerInv'
<1>1. Connected' = Connected /\ MainChainCoins' = MainChainCoins
  BY BranchKept, Zenon
<1>2. Pooled' = Pooled
  BY Zenon DEF Pooled
<1>3. PoolClean'
  BY <1>1, <1>2, Zenon DEF PoolLedgerInv, PoolClean
<1>4. InputsKnown'
  BY <1>1, <1>2, Zenon DEF PoolLedgerInv, InputsKnown
<1>5. PoolUsed'
  BY <1>2, Zenon DEF PoolLedgerInv, PoolUsed
<1>6. QED
  BY <1>3, <1>4, <1>5, Zenon DEF PoolLedgerInv

\* The last chunk of a batch: what the block spends is spent by it, what it makes is there.
LEMMA LastPoolLedger ==
    ASSUME Serial, GenesisMints, CoinbasesDiffer, Inv, SerialInv, LedgerInv, FundsInv,
           PoolLedgerInv, NEW t \in Thread, NEW b, NEW k, NEW kind,
           Connecting(t, b, k, kind), IsLast(b, k)
    PROVE  PoolLedgerInv'
<1>1. PICK n \in Nat : DOMAIN Branch = 1 .. n /\ Branch \in Seq(Block) /\ Len(Branch) = n
  BY BranchIs, Zenon DEF SerialInv
<1>2. /\ tip' = b /\ b \in Block /\ MainChainCoins' = Connect(MainChainCoins, b)
      /\ Connected' = Connected \cup Range(Body[b])
  BY <1>1, BranchGrows
<1>3. th[t].pc = "applying" /\ b = th[t].block /\ kind = th[t].kind
  BY ConnectingCall
<1>4. Connectable(b, MainChainCoins) /\ Body[b][1] \notin Connected
  BY <1>3, ApplyingConnects, Zenon
<1>5. th'[t].pc = "work" /\ th'[t].kind = kind /\ UNCHANGED up
  BY ConnectingMoves, ConnectingOnTop, Zenon
<1>6. Pooled' = Pooled
  BY Zenon DEF Pooled, Connecting, Commit, poolVars
<1>7. \A s \in Thread : s = t
  BY OneThread
<1>8. ASSUME NEW x \in Pooled, x \in Connected'
      PROVE  x \in MinedIn(tip')
  <2>1. x \notin Connected
    BY <1>3, <1>7 DEF PoolLedgerInv, PoolClean
  <2>2. PICK i \in DOMAIN Body[b] : x = Body[b][i]
    BY <1>2, <1>8, <2>1, Zenon DEF Range
  <2>3. ~IsCoinbase(x)
    BY Zenon DEF PoolLedgerInv, PoolUsed
  <2>4. QED
    BY <1>2, <2>2, <2>3, Zenon DEF MinedIn
<1>9. PoolClean'
  BY <1>5, <1>6, <1>8, Zenon DEF PoolClean
<1>10. ASSUME NEW x \in Pooled, NEW o \in SpentBy(x)
       PROVE  MainChainCoins'[o] # None \/ \E y \in Connected' : o \in SpentBy(y)
  <2>1. o \in Outpoint
    BY Zenon DEF PoolLedgerInv, PoolUsed
  <2>2. \/ MainChainCoins[o] # None
        \/ \E y \in Connected : o \in SpentBy(y)
        \/ o \in CreatedIn(b)
    BY <1>3, <1>7, Zenon DEF PoolLedgerInv, InputsKnown
  <2>3. Fits(MainChainCoins, Connected)
    BY Zenon DEF FundsInv
  <2>4. QED
    BY <1>2, <1>4, <2>1, <2>2, <2>3, ThereOrSpent
<1>11. InputsKnown'
  BY <1>6, <1>10, Zenon DEF InputsKnown
<1>12. kind = "genesis" => ~up
  <2>1. OnTop(b, kind)
    BY ConnectingOnTop
  <2>2. QED
    BY <2>1 DEF OnTop
<1>13. PoolUsed'
  BY <1>5, <1>6, <1>7, <1>12, Zenon DEF PoolLedgerInv, PoolUsed
<1>14. QED
  BY <1>9, <1>11, <1>13, Zenon DEF PoolLedgerInv

\* PutTotalWork: the call goes on to RemoveMinedBlock, unless it connected the genesis
\* block, when the pool is still empty.
LEMMA PutTotalWorkPoolLedger ==
    ASSUME Serial, Inv, SerialInv, PoolLedgerInv, NEW t \in Thread, PutTotalWork(t)
    PROVE  PoolLedgerInv'
<1>1. th[t].pc = "work" /\ tip' = tip
  BY DEF PutTotalWork, At
<1>2. Pooled' = Pooled /\ up' = (up \/ th[t].kind = "genesis")
  BY Zenon DEF Pooled, PutTotalWork, poolVars
<1>3. Connected' = Connected /\ MainChainCoins' = MainChainCoins
  BY <1>1, BranchKept, Zenon
<1>4. \A s \in Thread : s = t
  BY OneThread
<1>5. th'[t].pc # "work" /\ (th[t].kind # "genesis" => th'[t].pc = "clean")
  <2>1. CallKnows(th[t]) /\ DOMAIN th[t].side = {1} /\ th \in [Thread -> Call]
    BY <1>1, CallBlock DEF Inv, TypeOK
  <2>2. th[t].kind \in {"genesis", "extend"}
    BY <1>1, <2>1 DEF CallKnows
  <2>3. th[t].left \in DOMAIN th[t].side
    BY <1>1 DEF Inv, CallsConsistent, Consistent
  <2>4. ~(th[t].left > 1)
    BY <2>1, <2>3
  <2>5. IF th[t].kind = "genesis" THEN th' = [th EXCEPT ![t] = Idle]
                                  ELSE th' = [th EXCEPT ![t].pc = "clean"]
    BY <2>2, <2>4 DEF PutTotalWork, Return, Goto
  <2>6. Idle.pc = "idle"
    BY DEF Idle
  <2>7. QED
    BY <2>1, <2>5, <2>6 DEF Call
<1>6. th[t].kind = "genesis" => Pooled = {}
  BY <1>1, Zenon DEF PoolLedgerInv, PoolUsed
<1>7. PoolClean'
  BY <1>1, <1>2, <1>3, <1>4, <1>5, <1>6, Zenon DEF PoolLedgerInv, PoolClean
<1>8. th[t].pc # "applying"
  BY <1>1
<1>9. InputsKnown'
  BY <1>2, <1>3, <1>4, <1>8, Zenon DEF PoolLedgerInv, InputsKnown
<1>10. PoolUsed'
  BY <1>2, <1>4, <1>5, Zenon DEF PoolLedgerInv, PoolUsed
<1>11. QED
  BY <1>7, <1>9, <1>10, Zenon DEF PoolLedgerInv

\* RemoveMinedBlock takes every payment of the new tip out of the pool.
LEMMA CleanPoolPoolLedger ==
    ASSUME Serial, Inv, SerialInv, PoolLedgerInv, NEW t \in Thread, CleanPool(t)
    PROVE  PoolLedgerInv'
<1>1. th[t].pc = "clean" /\ UNCHANGED <<tip, up>> /\ RemoveMinedBlock(th[t].side[th[t].left])
  BY DEF CleanPool, At, tables
<1>2. /\ CallKnows(th[t]) /\ DOMAIN th[t].side = {1} /\ Len(th[t].side) = 1
      /\ th \in [Thread -> Call]
  BY <1>1, CallBlock DEF Inv, TypeOK
<1>3. th[t].left = 1
  BY <1>1, <1>2 DEF Inv, CallsConsistent, Consistent
<1>4. tip = th[t].side[1]
  BY <1>1, <1>2 DEF CallKnows
<1>5. th' = [th EXCEPT ![t] = Idle]
  BY <1>2, <1>3 DEF CleanPool, Return
<1>6. th'[t].pc = "idle"
  BY <1>2, <1>5 DEF Idle
<1>7. \A x \in Pooled' : x \in Pooled /\ x \notin MinedIn(tip)
  <2>1. Drop(MinedIn(tip) \cap Pooled)
    BY <1>1, <1>3, <1>4, Zenon DEF RemoveMinedBlock
  <2>2. pool' = [x \in Tx |-> IF x \in MinedIn(tip) \cap Pooled THEN None ELSE pool[x]]
    BY <2>1, Zenon DEF Drop, PoolWithout
  <2>3. QED
    BY <2>2 DEF Pooled
<1>8. Connected' = Connected /\ MainChainCoins' = MainChainCoins
  BY <1>1, BranchKept, Zenon
<1>9. \A s \in Thread : s = t
  BY OneThread
<1>10. PoolClean'
  BY <1>7, <1>8, Zenon DEF PoolLedgerInv, PoolClean
<1>11. th[t].pc # "applying" /\ th'[t].pc # "work"
  BY <1>1, <1>6
<1>12. InputsKnown'
  BY <1>7, <1>8, <1>9, <1>11, Zenon DEF PoolLedgerInv, InputsKnown
<1>13. PoolUsed'
  BY <1>1, <1>7, <1>9, <1>11, Zenon DEF PoolLedgerInv, PoolUsed
<1>14. QED
  BY <1>10, <1>12, <1>13, Zenon DEF PoolLedgerInv

\* The other steps of a call, which leave the tip and the pool alone.
LEMMA CallPoolLedger ==
    ASSUME Serial, Inv, PoolLedgerInv, NEW t \in Thread,
           \/ CreateGenesis(t) \/ CheckTxs(t) \/ Weigh(t) \/ ForkChoice(t) \/ PutSideWork(t)
           \/ ApplyBlock(t) \/ \E b \in Block : Submit(t, b)
    PROVE  PoolLedgerInv'
<1>1. th \in [Thread -> Call] /\ Idle.pc = "idle"
  BY DEF Inv, TypeOK, Idle
<1>2. UNCHANGED <<tip, pool, up>>
  BY DEF CreateGenesis, CheckTxs, Weigh, ForkChoice, PutSideWork, ApplyBlock, Submit, tables, poolVars
<1>3. th[t].pc \notin {"work", "clean", "applying"}
  BY <1>1 DEF CreateGenesis, CheckTxs, Weigh, ForkChoice, PutSideWork, ApplyBlock, Submit, At
<1>4. th'[t].pc # "work"
  <2>1. CASE CreateGenesis(t)
    BY <1>1, <2>1 DEF CreateGenesis, Idle
  <2>2. CASE CheckTxs(t)
    BY <1>1, <2>2 DEF CheckTxs, Goto, Return, Call
  <2>3. CASE Weigh(t)
    BY <1>1, <2>3 DEF Weigh, Call
  <2>4. CASE ForkChoice(t)
    BY <1>1, <2>4 DEF ForkChoice, Goto, Direct, Call
  <2>5. CASE PutSideWork(t)
    BY <1>1, <2>5 DEF PutSideWork, Return
  <2>6. CASE ApplyBlock(t)
    BY <1>1, <2>6 DEF ApplyBlock, Call
  <2>7. CASE \E b \in Block : Submit(t, b)
    BY <1>1, <2>7 DEF Submit, Idle
  <2>8. QED
    BY <2>1, <2>2, <2>3, <2>4, <2>5, <2>6, <2>7, Zenon
<1>5. th[t].pc # "applying" /\ th[t].pc \notin {"work", "clean"}
  BY <1>3
<1>6. QED
  BY <1>2, <1>4, <1>5, PoolLedgerKept, Zenon

\* Batch.Commit.
LEMMA CommitPoolLedger ==
    ASSUME Serial, GenesisMints, CoinbasesDiffer, Inv, SerialInv, LedgerInv, FundsInv,
           PoolLedgerInv, NEW t \in Thread, Commit(t)
    PROVE  PoolLedgerInv'
<1>1. th[t].pc = "applying" /\ UNCHANGED <<pool, up>>
  BY DEF Commit, At, SerialInv, CallKnows, poolVars
<1>2. PICK b, k, kind : b = th[t].block /\ k = th[t].done + 1 /\ kind = th[t].kind
  OBVIOUS
<1>3. Connecting(t, b, k, kind)
  BY <1>1, <1>2, Zenon DEF Connecting
<1>4. CASE IsLast(b, k)
  BY <1>3, <1>4, LastPoolLedger, Zenon
<1>5. CASE ~IsLast(b, k)
  <2>1. tip' = tip /\ th'[t].pc = "applying" /\ th'[t].block = b
    BY <1>3, <1>5, ConnectingWrites, ConnectingMoves, Zenon
  <2>2. th[t].pc \notin {"work", "clean"} /\ th'[t].pc # "work"
    BY <1>1, <2>1
  <2>3. QED
    BY <1>1, <1>2, <2>1, <2>2, PoolLedgerKept, Zenon
<1>6. QED
  BY <1>4, <1>5, Zenon

\* Every step keeps the pool in order.
LEMMA PoolLedgerNext ==
    ASSUME Serial, GenesisMints, CoinbasesDiffer, Inv, SerialInv, LedgerInv, FundsInv,
           PoolLedgerInv, [Next]_vars
    PROVE  PoolLedgerInv'
<1>1. CASE Resume
  <2>1. UNCHANGED <<tip, pool, th>> /\ up' = TRUE /\ \A t \in Thread : th[t].pc # "work"
    BY <1>1 DEF Resume, tables, poolVars, Idle
  <2>2. up => up'
    BY <2>1
  <2>3. \A t \in Thread : th[t].pc = "work" => up' = up
    BY <2>1, Zenon
  <2>4. QED
    BY <2>1, <2>2, <2>3, PoolLedgerStutters
<1>2. ASSUME NEW t \in Thread, CreateGenesis(t) PROVE PoolLedgerInv'
  BY <1>2, CallPoolLedger, Zenon
<1>3. ASSUME NEW t \in Thread, Step(t) PROVE PoolLedgerInv'
  BY <1>3, NoReorg, CallPoolLedger, CommitPoolLedger, PutTotalWorkPoolLedger,
     CleanPoolPoolLedger, Zenon DEF Step
<1>4. ASSUME NEW t \in Thread, NEW b \in Block, Submit(t, b) PROVE PoolLedgerInv'
  BY <1>4, CallPoolLedger, Zenon
<1>5. ASSUME NEW x \in Tx, AddTx(x) PROVE PoolLedgerInv'
  BY <1>5, AddTxPoolLedger, Zenon
<1>6. CASE UNCHANGED vars
  <2>1. UNCHANGED <<tip, pool, th, up>>
    BY <1>6 DEF vars, tables, poolVars
  <2>2. QED
    BY <2>1, PoolLedgerStutters, Zenon
<1>7. Thread # {} /\ (~Crash) /\ \A t \in Thread : ~WriteError(t)
  BY NoFault, ChainAssumption
<1>8. QED
  BY <1>1, <1>2, <1>3, <1>4, <1>5, <1>6, <1>7, Zenon DEF Next

\* The pool is empty at first.
LEMMA PoolLedgerInit == Init => PoolLedgerInv
<1> SUFFICES ASSUME Init PROVE PoolLedgerInv
  OBVIOUS
<1>1. Pooled = {} /\ \A t \in Thread : th[t].pc = "idle"
  BY DEF Init, PoolInit, Pooled, Idle
<1>2. \A t \in Thread : th[t].pc # "work"
  BY <1>1
<1>3. QED
  BY <1>1, <1>2, Zenon DEF PoolLedgerInv, PoolClean, InputsKnown, PoolUsed

\* The invariants hold throughout: of the coins, and of the pool.
THEOREM FundsInvariance ==
    Serial /\ SoleGenesis /\ GenesisMints /\ CoinbasesDiffer
      => (Spec => [](Inv /\ SerialInv /\ LedgerInv /\ FundsInv /\ PoolLedgerInv))
<1> SUFFICES ASSUME Serial, SoleGenesis, GenesisMints, CoinbasesDiffer
             PROVE  Spec => [](Inv /\ SerialInv /\ LedgerInv /\ FundsInv /\ PoolLedgerInv)
  OBVIOUS
<1>1. Inv /\ SerialInv /\ LedgerInv /\ FundsInv /\ [Next]_vars => FundsInv'
  BY FundsNext
<1>2. Inv /\ SerialInv /\ LedgerInv /\ FundsInv /\ PoolLedgerInv /\ [Next]_vars => PoolLedgerInv'
  BY PoolLedgerNext
<1>3. Spec => [](Inv /\ SerialInv /\ LedgerInv)
  BY LedgerInvariance
<1>4. QED
  BY <1>1, <1>2, <1>3, FundsInit, PoolLedgerInit, PTL DEF Spec

\* ApplyBlock loses no coin and makes none: between calls the coins on disk are worth
\* exactly what the blocks of the main chain issued.
THEOREM SupplyIsExact ==
    Serial /\ SoleGenesis /\ GenesisMints /\ CoinbasesDiffer => (Spec => []SupplyExact)
<1> SUFFICES ASSUME Serial, SoleGenesis, GenesisMints, CoinbasesDiffer
             PROVE  Spec => []SupplyExact
  OBVIOUS
<1>1. LedgerInv /\ FundsInv => SupplyExact
  <2> SUFFICES ASSUME LedgerInv, FundsInv, Settled
               PROVE  SumFunction([o \in {p \in Outpoint : utxo[p] # None} |-> utxo[o].amount])
                        = SumFunction(Issued(MainChain))
    BY Zenon DEF SupplyExact
  <2>1. utxo = MainChainCoins /\ Branch = MainChain
    BY SettledFunds, Zenon
  <2>2. Value(utxo) = SumFunction(Issued(MainChain))
    BY <2>1, Zenon DEF FundsInv
  <2>3. QED
    BY <2>2, Zenon DEF Value, Held
<1>2. QED
  BY <1>1, FundsInvariance, PTL

\* RemoveMinedBlock keeps up: between calls no transaction of the main chain is pooled,
\* also when Add ran while the block that mines it was half written.
THEOREM PoolIsNotMined ==
    Serial /\ SoleGenesis /\ GenesisMints /\ CoinbasesDiffer => (Spec => []PoolNotMined)
<1> SUFFICES ASSUME Serial, SoleGenesis, GenesisMints, CoinbasesDiffer
             PROVE  Spec => []PoolNotMined
  OBVIOUS
<1>1. LedgerInv /\ PoolLedgerInv => PoolNotMined
  <2> SUFFICES ASSUME LedgerInv, PoolLedgerInv, Settled, NEW x \in Pooled, x \in MainChainTxs
               PROVE  FALSE
    BY Zenon DEF PoolNotMined
  <2>1. Connected = MainChainTxs /\ \A t \in Thread : th[t].pc = "idle"
    BY SettledFunds, Zenon
  <2>2. \E t \in Thread : th[t].pc \in {"work", "clean"}
    BY <2>1, Zenon DEF PoolLedgerInv, PoolClean
  <2>3. QED
    BY <2>1, <2>2
<1>2. QED
  BY <1>1, FundsInvariance, PTL

\* Add never takes in a spend of a coin that does not exist: between calls an input of a
\* pooled transaction is on disk, or a transaction of the main chain spent it.
THEOREM PoolInputsExist ==
    Serial /\ SoleGenesis /\ GenesisMints /\ CoinbasesDiffer => (Spec => []PoolInputsAccounted)
<1> SUFFICES ASSUME Serial, SoleGenesis, GenesisMints, CoinbasesDiffer
             PROVE  Spec => []PoolInputsAccounted
  OBVIOUS
<1>1. LedgerInv /\ PoolLedgerInv => PoolInputsAccounted
  <2> SUFFICES ASSUME LedgerInv, PoolLedgerInv, Settled, NEW x \in Pooled, NEW o \in SpentBy(x)
               PROVE  utxo[o] # None \/ \E y \in MainChainTxs : o \in SpentBy(y)
    BY Zenon DEF PoolInputsAccounted
  <2>1. /\ utxo = MainChainCoins /\ Connected = MainChainTxs
        /\ \A t \in Thread : th[t].pc = "idle"
    BY SettledFunds, Zenon
  <2>2. \A t \in Thread : th[t].pc # "applying"
    BY <2>1
  <2>3. QED
    BY <2>1, <2>2, Zenon DEF PoolLedgerInv, InputsKnown
<1>2. QED
  BY <1>1, FundsInvariance, PTL
=============================================================================
