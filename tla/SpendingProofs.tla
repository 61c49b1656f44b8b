-------------------------- MODULE SpendingProofs ---------------------------
(***************************************************************************)
(* Theorems about the mempool and its clients (Spending): whatever the     *)
(* handlers build and add, whatever is removed, and however the utxo table *)
(* changes underneath.                                                     *)
(***************************************************************************)
EXTENDS Spending, MempoolProofs

\* What a handler holds between BuildTransaction and Mempool.Add.
BuildingTyped ==
    building \in [Handler -> {None} \cup [kind : {"built", "genesis_utxo"}, tx : Tx]]

\* The inductive invariant.
Inv == utxo \in Log /\ BuildingTyped /\ PoolInv

\* The table keeps its type when blocks come and go.
LEMMA LedgerMovesTyped ==
    ASSUME utxo \in Log, LedgerMoves
    PROVE  utxo' \in Log
<1>1. PICK o \in Outpoint : \E c \in CoinsAt(o) \cup {None} : utxo' = [utxo EXCEPT ![o] = c]
  BY DEF LedgerMoves
<1>2. PICK c \in CoinsAt(o) \cup {None} : utxo' = [utxo EXCEPT ![o] = c]
  BY <1>1
<1>3. c \in Coin \cup {None}
  BY <1>2, NewCoinTyped DEF CoinsAt
<1>4. QED
  BY <1>2, <1>3 DEF Log

\* The steps of the mempool and of its environment preserve the invariant.
LEMMA PoolNextPreserves ==
    ASSUME utxo \in Log, PoolInv, PoolNext
    PROVE  utxo' \in Log /\ PoolInv'
<1>1. CASE \E t \in Tx : (Add(t) \/ RemoveTx(t)) /\ UNCHANGED utxo
  BY <1>1, AddPreserves, RemovePreserves
<1>2. CASE \E b \in Block : RemoveMinedBlock(b) /\ UNCHANGED utxo
  BY <1>2, RemoveMinedPreserves
<1>3. CASE LedgerMoves
  BY <1>3, LedgerMovesTyped, PoolStutters DEF LedgerMoves
<1>4. QED
  BY <1>1, <1>2, <1>3 DEF PoolNext

\* The invariant holds initially.
LEMMA InitInv == Init => Inv
<1> SUFFICES ASSUME Init PROVE Inv
  OBVIOUS
<1>1. PoolInv
  BY PoolInitInv DEF Init
<1>2. utxo \in Log /\ BuildingTyped
  BY DEF Init, Log, BuildingTyped
<1>3. QED
  BY <1>1, <1>2 DEF Inv

\* Every step of a handler, of the mempool or of the ledger preserves it.
LEMMA NextInv == Inv /\ [Next]_vars => Inv'
<1> SUFFICES ASSUME Inv, [Next]_vars PROVE Inv'
  OBVIOUS
<1> USE DEF Inv
<1>1. ASSUME UNCHANGED <<utxo, poolVars>>
      PROVE  utxo' \in Log /\ PoolInv'
  BY <1>1, PoolStutters
<1>2. ASSUME NEW h \in Handler, NEW kind \in {"built", "genesis_utxo"}, NEW r, Building(h, kind, r)
      PROVE  Inv'
  <2>1. BuildingTyped'
    BY <1>2 DEF Building, BuildingTyped
  <2>2. QED
    BY <1>1, <1>2, <2>1 DEF Building
<1>3. ASSUME NEW h \in Handler, NEW r \in Request, BuildTx(h, r)
      PROVE  Inv'
  BY <1>2, <1>3 DEF BuildTx
<1>4. ASSUME NEW h \in Handler, NEW r \in Request, BuildTxFails(h, r)
      PROVE  Inv'
  BY <1>1, <1>4 DEF BuildTxFails, BuildingTyped
<1>5. ASSUME NEW h \in Handler, NEW r \in Request, GenesisTrade(h, r)
      PROVE  Inv'
  BY <1>2, <1>5 DEF GenesisTrade
<1>6. ASSUME NEW h \in Handler, NEW r \in Request, GenesisTradeMeta(h, r)
      PROVE  Inv'
  BY <1>1, <1>6 DEF GenesisTradeMeta, BuildingTyped
<1>7. ASSUME NEW h \in Handler, Added(h)
      PROVE  Inv'
  <2>1. building[h].tx \in Tx
    BY <1>7 DEF Added, BuildingTyped
  <2>2. PoolInv'
    BY <1>7, <2>1, AddPreserves DEF Added
  <2>3. BuildingTyped'
    BY <1>7 DEF Added, BuildingTyped
  <2>4. QED
    BY <1>7, <2>2, <2>3 DEF Added
<1>8. ASSUME NEW h \in Handler, AddRefused(h)
      PROVE  Inv'
  <2>1. BuildingTyped'
    BY <1>8 DEF AddRefused, BuildingTyped
  <2>2. QED
    BY <1>1, <1>8, <2>1 DEF AddRefused
<1>9. ASSUME PoolNext, UNCHANGED <<building, reply>>
      PROVE  Inv'
  BY <1>9, PoolNextPreserves DEF BuildingTyped
<1>10. ASSUME UNCHANGED vars
       PROVE  Inv'
  BY <1>1, <1>10 DEF vars, BuildingTyped
<1>11. QED
  BY <1>3, <1>4, <1>5, <1>6, <1>7, <1>8, <1>9, <1>10 DEF Next

\* The double-spend index is exact in every reachable state: no admission, eviction
\* or removal, by whichever handler, leaves a claim behind or forgets one.
THEOREM SpendsExactHolds == Spec => []SpendsExact
<1>1. Inv => SpendsExact
  BY DEF Inv, PoolInv
<1>2. QED
  BY <1>1, InitInv, NextInv, PTL DEF Spec

\* The byte counter is the total size of what is pooled and stays within maxBytes
\* (or the pool is one oversized transaction), for every set of transactions.
THEOREM PoolAccounted == Spec => [](BytesExact /\ PoolBounded)
<1>1. Inv => BytesExact /\ PoolBounded
  BY DEF Inv, PoolInv
<1>2. QED
  BY <1>1, InitInv, NextInv, PTL DEF Spec

-----------------------------------------------------------------------------
(* Eviction *)

\* Every step evicts the lowest rates first, as long as no product wraps.
LEMMA StepEvictsLowest == Inv /\ RatesExact /\ [Next]_vars => [LowestFirst]_poolVars
<1> SUFFICES ASSUME Inv, RatesExact, [Next]_vars, ~UNCHANGED poolVars
             PROVE  LowestFirst
  OBVIOUS
<1>1. utxo \in Log /\ BuildingTyped /\ PoolInv
  BY DEF Inv
<1>2. ASSUME NEW t \in Tx, Add(t)
      PROVE  LowestFirst
  BY <1>1, <1>2, AddEvictsLowest DEF LowestFirst
<1>3. ASSUME NEW h \in Handler, Added(h)
      PROVE  LowestFirst
  <2>1. building[h].tx \in Tx
    BY <1>1, <1>3 DEF Added, BuildingTyped
  <2>2. QED
    BY <1>2, <1>3, <2>1 DEF Added
<1>4. ASSUME PoolNext
      PROVE  LowestFirst
  <2>1. ASSUME NEW t \in Tx, RemoveTx(t)
        PROVE  LowestFirst
    BY <2>1, DropAddsNothing DEF RemoveTx
  <2>2. ASSUME NEW b \in Block, RemoveMinedBlock(b)
        PROVE  LowestFirst
    BY <2>2, DropAddsNothing DEF RemoveMinedBlock
  <2>3. QED
    BY <1>2, <1>4, <2>1, <2>2 DEF PoolNext, LedgerMoves
<1>5. QED
  BY <1>3, <1>4
  DEF Next, BuildTx, BuildTxFails, GenesisTrade, GenesisTradeMeta, Building, AddRefused, vars

\* Add never evicts a transaction and keeps one of a lower fee rate, however the map
\* is scanned, in every behaviour in which the products that evictLowest compares
\* fit a uint64.
THEOREM EvictionIsFair == Spec /\ []RatesExact => EvictsLowestFirst
<1>1. Inv /\ RatesExact /\ [Next]_vars => [LowestFirst]_poolVars
  BY StepEvictsLowest
<1>2. EvictsLowestFirst <=> [][LowestFirst]_poolVars
  BY DEF EvictsLowestFirst, LowestFirst
<1>3. QED
  BY <1>1, <1>2, InitInv, NextInv, PTL DEF Spec

-----------------------------------------------------------------------------
(* Templates *)

\* The inductive invariant, with what is known of the contents.
ContentInv == Inv /\ CoinsGenuine /\ PoolValid

\* Blocks that come and go only put genuine coins into the table.
LEMMA CoinsGenuineMoves ==
    ASSUME utxo \in Log, CoinsGenuine, LedgerMoves
    PROVE  CoinsGenuine'
<1>1. PICK o \in Outpoint : \E c \in CoinsAt(o) \cup {None} : utxo' = [utxo EXCEPT ![o] = c]
  BY DEF LedgerMoves
<1>2. PICK c \in CoinsAt(o) \cup {None} : utxo' = [utxo EXCEPT ![o] = c]
  BY <1>1
<1>3. c # None => c.amount = Genuine[o].amount /\ c.script = Genuine[o].script
  BY <1>2 DEF CoinsAt, NewCoin, Genuine
<1>4. QED
  BY <1>2, <1>3 DEF CoinsGenuine, AreGenuine, Log

\* It holds initially.
LEMMA ContentInit == Init => ContentInv
<1> SUFFICES ASSUME Init PROVE ContentInv
  OBVIOUS
<1>1. Inv
  BY InitInv
<1>2. CoinsGenuine /\ PoolValid
  BY DEF Init, PoolInit, CoinsGenuine, AreGenuine, PoolValid, Pooled
<1>3. QED
  BY <1>1, <1>2 DEF ContentInv

\* Every step preserves it.
LEMMA ContentNext == ContentInv /\ [Next]_vars => ContentInv'
<1> SUFFICES ASSUME ContentInv, [Next]_vars PROVE ContentInv'
  OBVIOUS
<1>1. Inv /\ CoinsGenuine /\ PoolValid /\ utxo \in Log /\ PoolInv /\ BuildingTyped
  BY DEF ContentInv, Inv
<1>2. Inv'
  BY <1>1, NextInv
<1>3. ASSUME UNCHANGED <<utxo, poolVars>>
      PROVE  CoinsGenuine' /\ PoolValid'
  BY <1>1, <1>3 DEF CoinsGenuine, AreGenuine, PoolValid, Pooled, poolVars
<1>4. ASSUME NEW t \in Tx, Add(t), UNCHANGED utxo
      PROVE  CoinsGenuine' /\ PoolValid'
  BY <1>1, <1>4, AddKeepsValid DEF CoinsGenuine, AreGenuine
<1>5. ASSUME NEW S, Drop(S), UNCHANGED utxo
      PROVE  CoinsGenuine' /\ PoolValid'
  BY <1>1, <1>5, DropKeepsValid DEF CoinsGenuine, AreGenuine
<1>6. ASSUME NEW h \in Handler, Added(h)
      PROVE  CoinsGenuine' /\ PoolValid'
  <2>1. building[h].tx \in Tx
    BY <1>1, <1>6 DEF Added, BuildingTyped
  <2>2. QED
    BY <1>4, <1>6, <2>1 DEF Added
<1>7. ASSUME PoolNext
      PROVE  CoinsGenuine' /\ PoolValid'
  <2>1. CASE \E t \in Tx : (Add(t) \/ RemoveTx(t)) /\ UNCHANGED utxo
    BY <1>4, <1>5, <2>1 DEF RemoveTx
  <2>2. CASE \E b \in Block : RemoveMinedBlock(b) /\ UNCHANGED utxo
    BY <1>5, <2>2 DEF RemoveMinedBlock
  <2>3. CASE LedgerMoves
    <3>1. CoinsGenuine'
      BY <1>1, <2>3, CoinsGenuineMoves
    <3>2. PoolValid'
      BY <1>1, <2>3 DEF LedgerMoves, PoolValid, Pooled, poolVars
    <3>3. QED
      BY <3>1, <3>2
  <2>4. QED
    BY <1>7, <2>1, <2>2, <2>3 DEF PoolNext
<1>8. CoinsGenuine' /\ PoolValid'
  <2>1. CASE \E h \in Handler : Added(h)
    BY <1>6, <2>1
  <2>2. CASE PoolNext
    BY <1>7, <2>2
  <2>3. CASE ~(\E h \in Handler : Added(h)) /\ ~PoolNext
    <3>1. UNCHANGED <<utxo, poolVars>>
      BY <2>3
      DEF Next, BuildTx, BuildTxFails, GenesisTrade, GenesisTradeMeta, Building, AddRefused, vars
    <3>2. QED
      BY <1>3, <3>1
  <2>4. QED
    BY <2>1, <2>2, <2>3
<1>9. QED
  BY <1>2, <1>8 DEF ContentInv

\* Whenever the coins the pool spends are there and mature, the template BuildTemplate
\* makes of the whole pool passes ValidateBlockTransactions, in every order the sort
\* can produce, as long as the reward and the fees fit a uint64.
THEOREM PoolIsMinable == Spec => [](FeesFit => TemplateMinable)
<1>1. ContentInv => (FeesFit => TemplateMinable)
  BY MinableNow DEF ContentInv, Inv
<1>2. QED
  BY <1>1, ContentInit, ContentNext, PTL DEF Spec
=============================================================================
