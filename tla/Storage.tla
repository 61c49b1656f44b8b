------------------------------ MODULE Storage ------------------------------
(***************************************************************************)
(* The batches of writes by which storage.DB (storage/storage.go) connects *)
(* a block to the database and disconnects the tip again.                  *)
(*                                                                         *)
(* A table is a function from its keys to values, None where the key is    *)
(* absent.  A batch is a sequence of chunks; a chunk is a run of           *)
(* consecutive Set and Delete operations on one table, for one transaction *)
(* in the case of the utxo table.  The "spent:" markers are left out: they *)
(* are written by ApplyBlock and read by nothing.                          *)
(***************************************************************************)
EXTENDS Ledger

Chunk(table, put) == [table |-> table, put |-> put]

Entry(key, value) == [k \in {key} |-> value]

\* The table after a chunk has been executed; other tables' chunks leave it.
Execute(f, table, chunk) ==
    [k \in DOMAIN f |->
        IF chunk.table = table /\ k \in DOMAIN chunk.put THEN chunk.put[k] ELSE f[k]]

\* The inputs ApplyBlock looks up: those of the transactions that are no coinbase.
SpentIn(b) == UNION {SpentBy(Body[b][i]) : i \in {j \in DOMAIN Body[b] : ~IsCoinbase(Body[b][j])}}

\* An undo log: the coins to put back.  A coin that was not found is skipped.
Log == [Outpoint -> Coin \cup {None}]

ASSUME StorageAssumption == None \notin Log

UndoOf(b, coins) == [o \in Outpoint |-> IF o \in SpentIn(b) THEN coins[o] ELSE None]

NewCoin(b, i, o) ==
    [amount |-> Outputs[o[1]][o[2]].amount, script |-> Outputs[o[1]][o[2]].script,
     height |-> HeightOf(b), coinbase |-> i = 1]

\* Mutant: spent coins are not deleted.
SpendNothing(b, i) == Chunk("utxo", [o \in {} |-> None])

Spend(b, i) ==
    LET t == Body[b][i]
    IN  Chunk("utxo", [o \in (IF IsCoinbase(t) THEN {} ELSE SpentBy(t) \cap Outpoint) |-> None])

Create(b, i) == Chunk("utxo", [o \in CreatedBy(Body[b][i]) |-> NewCoin(b, i, o)])

\* Mutants: the tip is written first and the undo log last; the height entry
\* is forgotten.
ApplyBatchTipFirst(b, log) ==
    [k \in 1 .. 2 * Len(Body[b]) + 5 |->
        CASE k = 1 -> Chunk("tip", b)
          [] k = 2 -> Chunk("block", Entry(b, TRUE))
          [] k = 3 -> Chunk("height", Entry(HeightOf(b), b))
          [] k = 4 -> Chunk("tx", [t \in {Body[b][i] : i \in DOMAIN Body[b]} |-> TRUE])
          [] k = 2 * Len(Body[b]) + 5 -> Chunk("undo", Entry(b, log))
          [] OTHER -> IF k % 2 = 1 THEN Spend(b, (k - 3) \div 2) ELSE Create(b, (k - 3) \div 2)]

ApplyBatchNoHeight(b, log) ==
    [k \in 1 .. 2 * Len(Body[b]) + 5 |->
        CASE k = 1 -> Chunk("undo", Entry(b, log))
          [] k = 2 -> Chunk("block", Entry(b, TRUE))
          [] k = 3 -> Chunk("height", [h \in {} |-> b])
          [] k = 4 -> Chunk("tx", [t \in {Body[b][i] : i \in DOMAIN Body[b]} |-> TRUE])
          [] k = 2 * Len(Body[b]) + 5 -> Chunk("tip", b)
          [] OTHER -> IF k % 2 = 1 THEN Spend(b, (k - 3) \div 2) ELSE Create(b, (k - 3) \div 2)]

\* ApplyBlock: undo log, block, height index, transaction index, then for each
\* transaction the coins it spends and the coins it creates, the tip last.
ApplyBatch(b, log) ==
    [k \in 1 .. 2 * Len(Body[b]) + 5 |->
        CASE k = 1 -> Chunk("undo", Entry(b, log))
          [] k = 2 -> Chunk("block", Entry(b, TRUE))
          [] k = 3 -> Chunk("height", Entry(HeightOf(b), b))
          [] k = 4 -> Chunk("tx", [t \in {Body[b][i] : i \in DOMAIN Body[b]} |-> TRUE])
          [] k = 2 * Len(Body[b]) + 5 -> Chunk("tip", b)
          [] OTHER -> IF k % 2 = 1 THEN Spend(b, (k - 3) \div 2) ELSE Create(b, (k - 3) \div 2)]

\* Mutant: the undo log is not put back.
DisconnectBatchNoUndo(b, log) ==
    [k \in 1 .. Len(Body[b]) + 1 |->
        CASE k <= Len(Body[b]) -> Chunk("utxo", [o \in CreatedBy(Body[b][k]) |-> None])
          [] OTHER -> Chunk("tip", IF HeightOf(b) = 0 THEN None ELSE Header[b].prev)]

\* DisconnectTip: the outputs of every transaction, the undo log, the tip.
\* The block, its height entry and its transactions stay in the database.
DisconnectBatch(b, log) ==
    [k \in 1 .. Len(Body[b]) + 2 |->
        CASE k <= Len(Body[b]) -> Chunk("utxo", [o \in CreatedBy(Body[b][k]) |-> None])
          [] k = Len(Body[b]) + 1 ->
                Chunk("utxo", [o \in {p \in Outpoint : log[p] # None} |-> log[o]])
          [] OTHER -> Chunk("tip", IF HeightOf(b) = 0 THEN None ELSE Header[b].prev)]
=============================================================================
