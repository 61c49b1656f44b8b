-------------------------- MODULE ChainPoolProofs --------------------------
(***************************************************************************)
(* The mempool inside the chain manager (ChainNode): while calls of        *)
(* ValidateAndApplyBlock run concurrently, reorganise, fail half way or    *)
(* die with the process, also in the middle of a batch.                    *)
(***************************************************************************)
EXTENDS ChainNodeProofs, MempoolProofs

-----------------------------------------------------------------------------
(* The index and the counter *)

\* A restarted process has an empty pool.
LEMMA CrashEmptiesPool == Crash => PoolInv'
<1>1. Crash => PoolInit'
  BY DEF Crash, PoolInit
<1>2. PoolInit => PoolInv
  BY PoolInitInv
<1>3. QED
  BY <1>1, <1>2, PTL

\* The steps that leave the mempool alone: all but Add, RemoveMinedBlock and a crash.
LEMMA PoolAlone ==
    ASSUME [Next]_vars, ~(\E x \in Tx : AddTx(x)), ~(\E t \in Thread : CleanPool(t)), ~Crash
    PROVE  UNCHANGED poolVars
<1>1. ASSUME NEW t \in Thread, Step(t) PROVE UNCHANGED poolVars
  BY <1>1 DEF Step, CheckTxs, Weigh, ForkChoice, PutSideWork, Collect, Rollback, DisconnectTip,
              ApplyBlock, Commit, PutTotalWork
<1>2. ASSUME NEW t \in Thread, CreateGenesis(t) \/ WriteError(t) PROVE UNCHANGED poolVars
  BY <1>2 DEF CreateGenesis, WriteError
<1>3. ASSUME NEW t \in Thread, NEW b \in Block, Submit(t, b) PROVE UNCHANGED poolVars
  BY <1>3 DEF Submit
<1>4. CASE Resume
  BY <1>4 DEF Resume
<1>5. CASE UNCHANGED vars
  BY <1>5 DEF vars
<1>6. QED
  BY <1>1, <1>2, <1>3, <1>4, <1>5 DEF Next

\* Every step of the node preserves the mempool's invariant.
LEMMA ChainPoolNext ==
    ASSUME Inv, PoolInv, [Next]_vars
    PROVE  PoolInv'
<1>1. utxo \in Log
  BY DEF Inv, TypeOK
<1>2. ASSUME NEW x \in Tx, AddTx(x) PROVE PoolInv'
  BY <1>1, <1>2, AddPreserves DEF AddTx
<1>3. ASSUME NEW t \in Thread, CleanPool(t) PROVE PoolInv'
  BY <1>3, RemoveMinedPreserves DEF CleanPool
<1>4. CASE Crash
  BY <1>4, CrashEmptiesPool
<1>5. QED
  BY <1>2, <1>3, <1>4, PoolAlone, PoolStutters

\* The invariant of the node and its mempool.
NodeInv == Inv /\ PoolInv

\* It holds in every reachable state.
LEMMA NodeInvariance == Spec => []NodeInv
<1>1. Init => NodeInv
  <2>1. Init => Inv
    BY InitInv
  <2>2. Init => PoolInv
    BY PoolInitInv DEF Init
  <2>3. QED
    BY <2>1, <2>2 DEF NodeInv
<1>2. NodeInv /\ [Next]_vars => NodeInv'
  BY NextInv, ChainPoolNext DEF NodeInv
<1>3. QED
  BY <1>1, <1>2, PTL DEF Spec

\* The double-spend index is exact while blocks are connected, reorganised and
\* rolled back by any number of concurrent calls, with crashes and failed writes.
THEOREM ChainSpendsExact == Spec => []SpendsExact
<1>1. NodeInv => SpendsExact
  BY DEF NodeInv, PoolInv
<1>2. QED
  BY <1>1, NodeInvariance, PTL

\* So are the byte counter and its bound.
THEOREM ChainPoolAccounted == Spec => [](BytesExact /\ PoolBounded)
<1>1. NodeInv => BytesExact /\ PoolBounded
  BY DEF NodeInv, PoolInv
<1>2. QED
  BY <1>1, NodeInvariance, PTL

-----------------------------------------------------------------------------
(* Templates *)

\* Undo logs, stored or held by a call, keep what the coins said.
LogsGenuine ==
    /\ \A b \in Block : undo[b] # None => AreGenuine(undo[b])
    /\ \A t \in Thread : th[t].log # None => AreGenuine(th[t].log)

\* A coin that ApplyBlock creates is genuine.
LEMMA NewCoinGenuine ==
    ASSUME NEW b, NEW i, NEW o \in Outpoint
    PROVE  /\ NewCoin(b, i, o).amount = Genuine[o].amount
           /\ NewCoin(b, i, o).script = Genuine[o].script
BY DEF NewCoin, Genuine

\* What ApplyBlock's batch puts into the utxo table is genuine, and its undo
\* log is the one it was built with.
LEMMA ApplyChunkGenuine ==
    ASSUME NEW b \in Block, NEW log \in Log, NEW k \in 1 .. 2 * Len(Body[b]) + 5,
           NEW c, c = ApplyBatch(b, log)[k]
    PROVE  /\ c.table = "utxo" =>
                \A o \in Outpoint \cap DOMAIN c.put : c.put[o] # None =>
                    /\ c.put[o].amount = Genuine[o].amount
                    /\ c.put[o].script = Genuine[o].script
           /\ c.table = "undo" => c.put = Entry(b, log)
<1>1. ChunkOfApply(b, log, k, c)
  BY ApplyChunk
<1>2. Len(Body[b]) \in Nat
  BY BlockType
<1>3. CASE k \in {1, 2, 3, 4} \/ k = 2 * Len(Body[b]) + 5
  <2>1. k = 1 \/ c.table \notin {"utxo", "undo"}
    BY <1>1, <1>3 DEF ChunkOfApply
  <2>2. k = 1 => c.table = "undo" /\ c.put = Entry(b, log)
    BY <1>1 DEF ChunkOfApply
  <2>3. QED
    BY <2>1, <2>2
<1>4. CASE k \notin {1, 2, 3, 4} /\ k # 2 * Len(Body[b]) + 5
  <2> DEFINE i == (k - 3) \div 2
  <2>1. c = IF k % 2 = 1 THEN Spend(b, i) ELSE Create(b, i)
    BY <1>4, Zenon DEF ApplyBatch
  <2>2. CASE c = Spend(b, i)
    <3>1. c.table = "utxo" /\ \A o \in DOMAIN c.put : c.put[o] = None
      BY <2>2 DEF Spend, Chunk
    <3>2. QED
      BY <3>1
  <2>3. CASE c = Create(b, i)
    <3>1. c.table = "utxo" /\ \A o \in DOMAIN c.put : c.put[o] = NewCoin(b, i, o)
      BY <2>3 DEF Create, Chunk
    <3>2. QED
      BY <3>1, NewCoinGenuine
  <2>4. QED
    BY <2>1, <2>2, <2>3
<1>5. QED
  BY <1>3, <1>4

\* So is what DisconnectTip's batch puts back.
LEMMA DisconnectChunkGenuine ==
    ASSUME NEW b \in Block, NEW log \in Log, AreGenuine(log), NEW k \in 1 .. Len(Body[b]) + 2,
           NEW c, c = DisconnectBatch(b, log)[k]
    PROVE  /\ c.table \in {"utxo", "tip"}
           /\ c.table = "utxo" =>
                \A o \in Outpoint \cap DOMAIN c.put : c.put[o] # None =>
                    /\ c.put[o].amount = Genuine[o].amount
                    /\ c.put[o].script = Genuine[o].script
<1>1. Len(Body[b]) \in Nat
  BY BlockType
<1>2. CASE k <= Len(Body[b])
  <2>1. c = Chunk("utxo", [o \in CreatedBy(Body[b][k]) |-> None])
    BY <1>1, <1>2 DEF DisconnectBatch
  <2>2. QED
    BY <2>1 DEF Chunk
<1>3. CASE k = Len(Body[b]) + 1
  <2>1. c = Chunk("utxo", [o \in {p \in Outpoint : log[p] # None} |-> log[o]])
    BY <1>1, <1>3 DEF DisconnectBatch
  <2>2. c.table = "utxo" /\ \A o \in DOMAIN c.put : o \in Outpoint /\ c.put[o] = log[o]
    BY <2>1 DEF Chunk
  <2>3. QED
    BY <2>2 DEF AreGenuine
<1>4. CASE k = Len(Body[b]) + 2
  <2>1. c.table = "tip"
    BY <1>4, DisconnectChunk
  <2>2. QED
    BY <2>1
<1>5. QED
  BY <1>1, <1>2, <1>3, <1>4

\* Executing a genuine chunk keeps the table genuine.
LEMMA ExecuteGenuine ==
    ASSUME NEW coins \in Log, AreGenuine(coins), NEW c,
           c.table = "utxo" =>
                \A o \in Outpoint \cap DOMAIN c.put : c.put[o] # None =>
                    /\ c.put[o].amount = Genuine[o].amount
                    /\ c.put[o].script = Genuine[o].script
    PROVE  AreGenuine(Execute(coins, "utxo", c))
BY DEF AreGenuine, Execute, Log

\* A call keeps its undo log or forgets it, except where it builds a batch.
LEMMA LogsCarried ==
    ASSUME Inv, NEW t \in Thread,
           \/ CheckTxs(t) \/ Weigh(t) \/ ForkChoice(t) \/ PutSideWork(t) \/ Collect(t)
           \/ Rollback(t) \/ Commit(t) \/ PutTotalWork(t) \/ CleanPool(t)
           \/ CreateGenesis(t) \/ WriteError(t) \/ \E b \in Block : Submit(t, b)
    PROVE  \A s \in Thread : th'[s].log \in {th[s].log, None}
<1>1. th \in [Thread -> Call]
  BY DEF Inv, TypeOK
<1>2. Idle.log = None
  BY DEF Idle
<1>3. ASSUME NEW c, c.log \in {th[t].log, None}, th' = [th EXCEPT ![t] = c]
      PROVE  \A s \in Thread : th'[s].log \in {th[s].log, None}
  BY <1>1, <1>3
<1>4. ASSUME Return(t)
      PROVE  \A s \in Thread : th'[s].log \in {th[s].log, None}
  BY <1>2, <1>3, <1>4 DEF Return
<1>5. ASSUME NEW pc, Goto(t, pc)
      PROVE  \A s \in Thread : th'[s].log \in {th[s].log, None}
  BY <1>1, <1>5 DEF Goto, Call
<1>6. CASE CheckTxs(t)
  BY <1>4, <1>5, <1>6 DEF CheckTxs
<1>7. CASE Weigh(t)
  BY <1>1, <1>7 DEF Weigh, Call
<1>8. CASE ForkChoice(t)
  <2>1. \/ Direct(t, "first") \/ Direct(t, "extend") \/ Goto(t, "side")
        \/ th' = [th EXCEPT ![t].pc = "collect", ![t].kind = "reorg"]
    BY <1>8, Zenon DEF ForkChoice
  <2>2. ASSUME NEW kind, Direct(t, kind)
        PROVE  \A s \in Thread : th'[s].log \in {th[s].log, None}
    BY <1>1, <2>2 DEF Direct, Call
  <2>3. CASE th' = [th EXCEPT ![t].pc = "collect", ![t].kind = "reorg"]
    BY <1>1, <2>3 DEF Call
  <2>4. QED
    BY <1>5, <2>1, <2>2, <2>3
<1>9. CASE PutSideWork(t)
  BY <1>4, <1>9 DEF PutSideWork
<1>10. CASE Collect(t)
  <2>1. CASE Return(t)
    BY <1>4, <2>1
  <2>2. CASE ~Return(t)
    <3>1. \/ \E left, fork : th' = [th EXCEPT ![t].pc = "rollback", ![t].left = left, ![t].fork = fork]
          \/ \E prev : th' = [th EXCEPT ![t].side = Append(@, prev)]
      BY <1>10, <2>2, Zenon DEF Collect
    <3>2. ASSUME NEW left, NEW fork,
                 th' = [th EXCEPT ![t].pc = "rollback", ![t].left = left, ![t].fork = fork]
          PROVE  \A s \in Thread : th'[s].log \in {th[s].log, None}
      BY <1>1, <3>2 DEF Call
    <3>3. ASSUME NEW prev, th' = [th EXCEPT ![t].side = Append(@, prev)]
          PROVE  \A s \in Thread : th'[s].log \in {th[s].log, None}
      BY <1>1, <3>3 DEF Call
    <3>4. QED
      BY <3>1, <3>2, <3>3
  <2>3. QED
    BY <2>1, <2>2
<1>11. CASE Rollback(t)
  BY <1>4, <1>5, <1>11 DEF Rollback
<1>12. CASE Commit(t)
  <2>1. \/ \E pc : th' = [th EXCEPT ![t].pc = pc, ![t].block = None, ![t].log = None, ![t].done = 0]
        \/ \E done : th' = [th EXCEPT ![t].done = done]
    BY <1>12 DEF Commit
  <2>2. ASSUME NEW pc,
               th' = [th EXCEPT ![t].pc = pc, ![t].block = None, ![t].log = None, ![t].done = 0]
        PROVE  \A s \in Thread : th'[s].log \in {th[s].log, None}
    BY <1>1, <2>2 DEF Call
  <2>3. ASSUME NEW done, th' = [th EXCEPT ![t].done = done]
        PROVE  \A s \in Thread : th'[s].log \in {th[s].log, None}
    BY <1>1, <2>3 DEF Call
  <2>4. QED
    BY <2>1, <2>2, <2>3
<1>13. CASE PutTotalWork(t)
  <2>1. CASE Return(t) \/ Goto(t, "clean")
    BY <1>4, <1>5, <2>1
  <2>2. CASE ~Return(t) /\ ~Goto(t, "clean")
    <3>1. \E left : th' = [th EXCEPT ![t].pc = "apply", ![t].left = left]
      BY <1>13, <2>2 DEF PutTotalWork
    <3>2. QED
      BY <1>1, <3>1 DEF Call
  <2>3. QED
    BY <2>1, <2>2
<1>14. CASE CleanPool(t)
  <2>1. CASE Return(t)
    BY <1>4, <2>1
  <2>2. CASE ~Return(t)
    <3>1. \E left : th' = [th EXCEPT ![t].left = left]
      BY <1>14, <2>2 DEF CleanPool
    <3>2. QED
      BY <1>1, <3>1 DEF Call
  <2>3. QED
    BY <2>1, <2>2
<1>15. CASE CreateGenesis(t)
  BY <1>1, <1>15 DEF CreateGenesis, Idle
<1>16. CASE WriteError(t)
  BY <1>4, <1>16 DEF WriteError
<1>17. CASE \E b \in Block : Submit(t, b)
  BY <1>1, <1>17 DEF Submit, Idle
<1>18. QED
  BY <1>6, <1>7, <1>8, <1>9, <1>10, <1>11, <1>12, <1>13, <1>14, <1>15, <1>16, <1>17

\* A chunk leaves the coins and the undo logs genuine.
LEMMA CommitGenuine ==
    ASSUME Inv, CoinsGenuine, LogsGenuine, NEW t \in Thread, Commit(t)
    PROVE  CoinsGenuine' /\ \A b \in Block : undo'[b] # None => AreGenuine(undo'[b])
<1> DEFINE b == th[t].block
           log == th[t].log
           k == th[t].done + 1
<1>1. /\ utxo \in Log /\ th[t].done \in Nat /\ Consistent(th[t], stored, undo)
      /\ undo \in [Block -> Log \cup {None}]
  BY CallType DEF Inv, TypeOK
<1>2. log \in Log => AreGenuine(log)
  BY StorageAssumption DEF LogsGenuine
<1>3. CASE th[t].pc = "applying"
  <2> DEFINE c == ApplyBatch(b, log)[k]
  <2>1. /\ b \in Block /\ k \in 1 .. 2 * Len(Body[b]) + 5
        /\ undo' = IF k = 1 THEN [undo EXCEPT ![b] = log] ELSE undo
    BY <1>3, ApplyCommit
  <2>2. log \in Log
    BY <1>1, <1>3 DEF Consistent
  <2>3. utxo' = Execute(utxo, "utxo", c)
    BY <1>3 DEF Commit, BatchOf
  <2>4. c.table = "utxo" =>
          \A o \in Outpoint \cap DOMAIN c.put : c.put[o] # None =>
              /\ c.put[o].amount = Genuine[o].amount
              /\ c.put[o].script = Genuine[o].script
    <3> HIDE DEF b, log, k
    <3>1. QED
      BY <2>1, <2>2, ApplyChunkGenuine
  <2> HIDE DEF b, log, k, c
  <2>5. CoinsGenuine'
    BY <1>1, <2>3, <2>4, ExecuteGenuine DEF CoinsGenuine
  <2>6. ASSUME NEW a \in Block, undo'[a] # None
        PROVE  AreGenuine(undo'[a])
    <3>1. undo'[a] = log \/ undo'[a] = undo[a]
      BY <1>1, <2>1
    <3>2. QED
      BY <1>2, <2>2, <2>6, <3>1 DEF LogsGenuine
  <2>7. QED
    BY <2>5, <2>6
<1>4. CASE th[t].pc = "disconnecting"
  <2> DEFINE c == DisconnectBatch(b, log)[k]
  <2>1. /\ b \in Block /\ log \in Log /\ th[t].done < Len(Body[b]) + 2
    BY <1>1, <1>4 DEF Consistent
  <2>2. k \in 1 .. Len(Body[b]) + 2
    <3>1. Len(Body[b]) \in Nat
      BY <2>1, BlockType
    <3>2. QED
      BY <1>1, <2>1, <3>1
  <2>3. utxo' = Execute(utxo, "utxo", c) /\ undo' = Execute(undo, "undo", c)
    BY <1>4 DEF Commit, BatchOf
  <2>4. /\ c.table \in {"utxo", "tip"}
        /\ c.table = "utxo" =>
          \A o \in Outpoint \cap DOMAIN c.put : c.put[o] # None =>
              /\ c.put[o].amount = Genuine[o].amount
              /\ c.put[o].script = Genuine[o].script
    BY <1>2, <2>1, <2>2, DisconnectChunkGenuine
  <2> HIDE DEF b, log, k, c
  <2>5. CoinsGenuine'
    BY <1>1, <2>3, <2>4, ExecuteGenuine DEF CoinsGenuine
  <2>6. c.table # "undo"
    BY <2>4
  <2>7. undo' = undo
    BY <1>1, <2>3, <2>6, ExecuteOther
  <2>8. QED
    BY <2>5, <2>7 DEF LogsGenuine
<1>5. QED
  BY <1>3, <1>4 DEF Commit, At

\* The invariant, with what is known of the contents.
ContentInv == NodeInv /\ CoinsGenuine /\ LogsGenuine /\ PoolValid

\* A step that moves no coin and no undo log table keeps them genuine.
LEMMA TablesGenuine ==
    ASSUME CoinsGenuine, LogsGenuine, UNCHANGED <<utxo, undo>>,
           \A s \in Thread : th'[s].log # None => AreGenuine(th'[s].log)
    PROVE  CoinsGenuine' /\ LogsGenuine'
BY DEF CoinsGenuine, LogsGenuine

\* Coins and undo logs stay genuine.
LEMMA ContentGenuineNext ==
    ASSUME Inv, CoinsGenuine, LogsGenuine, [Next]_vars
    PROVE  CoinsGenuine' /\ LogsGenuine'
<1>1. /\ th \in [Thread -> Call] /\ utxo \in Log /\ undo \in [Block -> Log \cup {None}]
      /\ Idle.log = None
  BY DEF Inv, TypeOK, Idle
<1>2. ASSUME UNCHANGED <<utxo, undo>>,
             \A s \in Thread : th'[s].log \in {th[s].log, None}
      PROVE  CoinsGenuine' /\ LogsGenuine'
  <2>1. \A s \in Thread : th'[s].log # None => AreGenuine(th'[s].log)
    BY <1>2 DEF LogsGenuine
  <2>2. QED
    BY <1>2, <2>1, TablesGenuine
<1>3. ASSUME NEW t \in Thread, NEW log, AreGenuine(log), UNCHANGED <<utxo, undo>>,
             th'[t].log = log, \A s \in Thread \ {t} : th'[s] = th[s]
      PROVE  CoinsGenuine' /\ LogsGenuine'
  <2>1. \A s \in Thread : th'[s].log # None => AreGenuine(th'[s].log)
    BY <1>3 DEF LogsGenuine
  <2>2. QED
    BY <1>3, <2>1, TablesGenuine
<1>4. ASSUME NEW t \in Thread, Commit(t) PROVE CoinsGenuine' /\ LogsGenuine'
  <2>1. CoinsGenuine' /\ \A b \in Block : undo'[b] # None => AreGenuine(undo'[b])
    BY <1>4, CommitGenuine
  <2>2. \A s \in Thread : th'[s].log \in {th[s].log, None}
    BY <1>4, LogsCarried
  <2>3. QED
    BY <2>1, <2>2 DEF LogsGenuine
<1>5. ASSUME NEW t \in Thread, ApplyBlock(t) PROVE CoinsGenuine' /\ LogsGenuine'
  <2> DEFINE log == UndoOf(th[t].side[th[t].left], utxo)
  <2>1. AreGenuine(log)
    BY DEF UndoOf, CoinsGenuine, AreGenuine
  <2> HIDE DEF log
  <2>2. th'[t].log = log /\ \A s \in Thread \ {t} : th'[s] = th[s]
    BY <1>1, <1>5 DEF ApplyBlock, Call, log
  <2>3. UNCHANGED <<utxo, undo>>
    BY <1>5 DEF ApplyBlock, tables
  <2>4. QED
    BY <1>3, <2>1, <2>2, <2>3
<1>6. ASSUME NEW t \in Thread, DisconnectTip(t) PROVE CoinsGenuine' /\ LogsGenuine'
  <2>1. UNCHANGED <<utxo, undo>>
    BY <1>6 DEF DisconnectTip, tables
  <2>2. CASE Return(t)
    BY <1>1, <1>2, <2>1, <2>2 DEF Return
  <2>3. CASE ~Return(t)
    <3>1. undo[tip] # None /\ tip # None /\ th' = [th EXCEPT ![t].pc = "disconnecting",
                             ![t].block = tip, ![t].log = undo[tip]]
      BY <1>6, <2>3 DEF DisconnectTip
    <3>2. tip \in Block
      BY <3>1 DEF Inv, TypeOK
    <3>3. AreGenuine(undo[tip])
      BY <3>1, <3>2 DEF LogsGenuine
    <3>4. th'[t].log = undo[tip] /\ \A s \in Thread \ {t} : th'[s] = th[s]
      BY <1>1, <3>1 DEF Call
    <3>5. QED
      BY <1>3, <2>1, <3>3, <3>4
  <2>4. QED
    BY <2>2, <2>3
<1>7. ASSUME NEW t \in Thread,
             \/ CheckTxs(t) \/ Weigh(t) \/ ForkChoice(t) \/ PutSideWork(t) \/ Collect(t)
             \/ Rollback(t) \/ PutTotalWork(t) \/ CleanPool(t)
             \/ CreateGenesis(t) \/ WriteError(t) \/ \E b \in Block : Submit(t, b)
      PROVE  CoinsGenuine' /\ LogsGenuine'
  <2>1. UNCHANGED <<utxo, undo>>
    BY <1>7 DEF CheckTxs, Weigh, ForkChoice, PutSideWork, Collect, Rollback, PutTotalWork,
                CleanPool, CreateGenesis, WriteError, Submit, tables
  <2>2. \A s \in Thread : th'[s].log \in {th[s].log, None}
    BY <1>7, LogsCarried
  <2>3. QED
    BY <1>2, <2>1, <2>2
<1>8. CASE Resume \/ (\E x \in Tx : AddTx(x)) \/ Crash \/ UNCHANGED vars
  <2>1. UNCHANGED <<utxo, undo>>
    BY <1>8 DEF Resume, AddTx, Crash, vars, tables
  <2>2. th' = th \/ th' = [t \in Thread |-> Idle]
    BY <1>8 DEF Resume, AddTx, Crash, vars
  <2>3. QED
    BY <1>1, <1>2, <2>1, <2>2
<1>9. QED
  BY <1>4, <1>5, <1>6, <1>7, <1>8 DEF Next, Step

\* Every step preserves the invariant.
LEMMA ContentNext == ContentInv /\ [Next]_vars => ContentInv'
<1> SUFFICES ASSUME ContentInv, [Next]_vars PROVE ContentInv'
  OBVIOUS
<1>1. Inv /\ PoolInv /\ CoinsGenuine /\ LogsGenuine /\ PoolValid /\ utxo \in Log
  BY DEF ContentInv, NodeInv, Inv, TypeOK
<1>2. NodeInv'
  BY <1>1, NextInv, ChainPoolNext DEF NodeInv
<1>3. CoinsGenuine' /\ LogsGenuine'
  BY <1>1, ContentGenuineNext
<1>4. PoolValid'
  <2>1. ASSUME NEW x \in Tx, AddTx(x) PROVE PoolValid'
    BY <1>1, <2>1, AddKeepsValid DEF AddTx
  <2>2. ASSUME NEW t \in Thread, CleanPool(t) PROVE PoolValid'
    BY <1>1, <2>2, DropKeepsValid DEF CleanPool, RemoveMinedBlock
  <2>3. CASE Crash
    BY <2>3 DEF Crash, PoolValid, Pooled
  <2>4. CASE UNCHANGED poolVars
    BY <1>1, <2>4 DEF PoolValid, Pooled, poolVars
  <2>5. QED
    BY <2>1, <2>2, <2>3, <2>4, PoolAlone
<1>5. QED
  BY <1>2, <1>3, <1>4 DEF ContentInv

\* Whatever calls are connecting, reorganising or rolling back blocks, and after
\* whatever crash: whenever the coins the pool spends are in the table and mature,
\* the template of the whole pool passes ValidateBlockTransactions, as long as
\* the reward and the fees fit a uint64.
THEOREM ChainPoolIsMinable == Spec => [](FeesFit => TemplateMinable)
<1>1. Init => ContentInv
  <2> SUFFICES ASSUME Init PROVE ContentInv
    OBVIOUS
  <2>1. NodeInv
    BY InitInv, PoolInitInv DEF Init, NodeInv
  <2>2. CoinsGenuine /\ LogsGenuine /\ PoolValid
    BY DEF Init, PoolInit, CoinsGenuine, AreGenuine, LogsGenuine, PoolValid, Pooled, Idle
  <2>3. QED
    BY <2>1, <2>2 DEF ContentInv
<1>2. ContentInv => (FeesFit => TemplateMinable)
  BY MinableNow DEF ContentInv, NodeInv, Inv, TypeOK
<1>3. QED
  BY <1>1, <1>2, ContentNext, PTL DEF Spec
=============================================================================
