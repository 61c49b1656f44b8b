-------------------------- MODULE ChainNodeProofs --------------------------
(***************************************************************************)
(* Proofs about ChainNode, for any blocks, transactions, number of         *)
(* concurrent calls and number of faults, with and without atomic batches: *)
(* the database stays closed and recorded work is never overstated.        *)
(*                                                                         *)
(* The second half is about the node whose calls come one at a time (one   *)
(* that mines in one goroutine) and whose writes succeed.  Its database is *)
(* a single branch: every block that is stored is on the main chain, the   *)
(* indexes, the work records and the headers served follow it, and no call *)
(* ever reorganises, because a block beside the main chain has the         *)
(* difficulty of the block it competes with.                               *)
(***************************************************************************)
EXTENDS ChainNode, Branches, TLAPS

-----------------------------------------------------------------------------
(* Heights, work and single blocks *)

\* A thread without a call is idle.
LEMMA IdleRests == Idle.pc = "idle"
BY DEF Idle

\* A height that is not zero is positive.
LEMMA NotZero ==
    ASSUME NEW h \in Nat, h # 0
    PROVE  h > 0
OBVIOUS

\* The heights up to one of the main chain are heights of the main chain.
LEMMA HeightsBelow ==
    ASSUME NEW n \in Nat, NEW m \in 0 .. n, NEW h \in 0 .. m
    PROVE  h \in 0 .. n
OBVIOUS

\* A height is one of those up to itself.
LEMMA AtMostItself ==
    ASSUME NEW n \in Nat
    PROVE  n <= n /\ n \in 0 .. n /\ 0 \in 0 .. n
OBVIOUS

\* Heights that are not above another.
LEMMA AtMost ==
    ASSUME NEW m \in Nat, NEW n \in Nat, m <= n
    PROVE  m \in 0 .. n /\ m <= n + 1
OBVIOUS

\* Amounts of work are ordered.
LEMMA AtMostInTurn ==
    ASSUME NEW x \in Nat, NEW y \in Nat, NEW z \in Nat, x <= y, y <= z
    PROVE  x <= z
OBVIOUS

\* Work that is added to gives no less work.
LEMMA SumIsMore ==
    ASSUME NEW x \in Nat, NEW y \in Nat, NEW z, z = x + y
    PROVE  y <= z
OBVIOUS

\* A branch of one block.
LEMMA BranchOfOne ==
    ASSUME NEW b
    PROVE  Len(<<b>>) = 1 /\ <<b>>[1] = b
OBVIOUS

\* The one place of a branch of one block.
LEMMA OneBlock ==
    ASSUME NEW side \in Seq(Block), Len(side) = 1
    PROVE  DOMAIN side = {1}
OBVIOUS

-----------------------------------------------------------------------------
(* Blocks and coins *)

\* The shape of a block, from the assumption about the constants.
LEMMA BlockType ==
  ASSUME NEW b \in Block
  PROVE  /\ HeightOf(b) \in 0 .. MaxHeight /\ HeightOf(b) \in Nat
         /\ Header[b].prev \in Block \cup {None}
         /\ Body[b] \in Seq(Tx) /\ Len(Body[b]) \in Nat
  BY LedgerAssumption DEF LedgerAssumption, HeightOf

\* An element of a sequence over a set.
LEMMA ElementType ==
  ASSUME NEW S, NEW s \in Seq(S), NEW i \in DOMAIN s
  PROVE  s[i] \in S
  OBVIOUS

\* A coin ApplyBlock creates is a coin.
LEMMA NewCoinType ==
  ASSUME NEW b \in Block, NEW i \in DOMAIN Body[b], NEW o \in CreatedBy(Body[b][i])
  PROVE  NewCoin(b, i, o) \in Coin
  <1>1. Body[b][i] \in Tx
    BY BlockType
  <1>2. o[1] = Body[b][i] /\ o[2] \in DOMAIN Outputs[Body[b][i]]
    BY DEF CreatedBy
  <1>3. Outputs[o[1]] \in Seq([amount : 0 .. MaxUint, script : Script]) /\ MaxUint \in Nat
    <2>1. MaxUint \in Nat
      BY LedgerAssumption, SMT DEF LedgerAssumption
    <2>2. \A t \in Tx : Outputs[t] \in Seq([amount : 0 .. MaxUint, script : Script])
      BY LedgerAssumption, Zenon DEF LedgerAssumption
    <2> QED BY <1>1, <1>2, <2>1, <2>2, Zenon
  <1>4. Outputs[o[1]][o[2]] \in [amount : 0 .. MaxUint, script : Script]
    <2>1. o[2] \in DOMAIN Outputs[o[1]]
      BY <1>2
    <2> QED BY <1>3, <2>1, ElementType, Zenon
  <1> QED
    BY <1>3, <1>4, BlockType DEF NewCoin, Coin

-----------------------------------------------------------------------------
(* Batches *)

\* What chunk k of the batch that ApplyBlock writes for block b puts where.
ChunkOfApply(b, log, k, c) ==
  /\ k = 1 => c.table = "undo" /\ c.put = Entry(b, log)
  /\ k = 2 => c.table = "block" /\ c.put = Entry(b, TRUE)
  /\ k = 3 => c.table = "height" /\ c.put = Entry(HeightOf(b), b)
  /\ k = 4 => c.table = "tx" /\ \A x \in DOMAIN c.put : c.put[x] \in BOOLEAN
  /\ k = 2 * Len(Body[b]) + 5 => c.table = "tip" /\ c.put = b
  /\ k > 4 /\ k < 2 * Len(Body[b]) + 5 =>
       /\ c.table = "utxo"
       /\ \A o \in DOMAIN c.put : c.put[o] \in Coin \cup {None}

\* The chunks of ApplyBlock's batch.
LEMMA ApplyChunk ==
  ASSUME NEW b \in Block, NEW log \in Log, NEW k \in 1 .. 2 * Len(Body[b]) + 5
  PROVE  ChunkOfApply(b, log, k, ApplyBatch(b, log)[k])
  <1> DEFINE n == Len(Body[b])
             c == ApplyBatch(b, log)[k]
  <1>1. n \in Nat
    BY BlockType
  <1>2. ASSUME k = 1
        PROVE  c.table = "undo" /\ c.put = Entry(b, log)
    <2>1. k # 2 /\ k # 3 /\ k # 4 /\ k # 2 * n + 5
      BY <1>1, <1>2
    <2>2. c = Chunk("undo", Entry(b, log))
      BY <2>1, <1>2, Zenon DEF ApplyBatch
    <2> HIDE DEF c
    <2> QED BY <2>2 DEF Chunk
  <1>3. ASSUME k = 2
        PROVE  c.table = "block" /\ c.put = Entry(b, TRUE)
    <2>1. k # 1 /\ k # 3 /\ k # 4 /\ k # 2 * n + 5
      BY <1>1, <1>3
    <2>2. c = Chunk("block", Entry(b, TRUE))
      BY <2>1, <1>3, Zenon DEF ApplyBatch
    <2> HIDE DEF c
    <2> QED BY <2>2 DEF Chunk
  <1>4. ASSUME k = 3
        PROVE  c.table = "height" /\ c.put = Entry(HeightOf(b), b)
    <2>1. k # 1 /\ k # 2 /\ k # 4 /\ k # 2 * n + 5
      BY <1>1, <1>4
    <2>2. c = Chunk("height", Entry(HeightOf(b), b))
      BY <2>1, <1>4, Zenon DEF ApplyBatch
    <2> HIDE DEF c
    <2> QED BY <2>2 DEF Chunk
  <1>5. ASSUME k = 4
        PROVE  c.table = "tx" /\ \A x \in DOMAIN c.put : c.put[x] \in BOOLEAN
    <2>1. k # 1 /\ k # 2 /\ k # 3 /\ k # 2 * n + 5
      BY <1>1, <1>5
    <2>2. c = Chunk("tx", [t \in {Body[b][i] : i \in DOMAIN Body[b]} |-> TRUE])
      BY <2>1, <1>5, Zenon DEF ApplyBatch
    <2> HIDE DEF c
    <2> QED BY <2>2, Zenon DEF Chunk
  <1>6. ASSUME k = 2 * n + 5
        PROVE  c.table = "tip" /\ c.put = b
    <2>1. k # 1 /\ k # 2 /\ k # 3 /\ k # 4
      BY <1>1, <1>6
    <2>2. c = Chunk("tip", b)
      BY <2>1, <1>6, Zenon DEF ApplyBatch
    <2> HIDE DEF c
    <2> QED BY <2>2 DEF Chunk
  <1>7. ASSUME k > 4, k < 2 * n + 5
        PROVE  /\ c.table = "utxo"
               /\ \A o \in DOMAIN c.put : c.put[o] \in Coin \cup {None}
    <2> DEFINE i == (k - 3) \div 2
    <2>1. k # 1 /\ k # 2 /\ k # 3 /\ k # 4 /\ k # 2 * n + 5
      BY <1>1, <1>7
    <2>2. c = IF k % 2 = 1 THEN Spend(b, i) ELSE Create(b, i)
      BY <2>1, Zenon DEF ApplyBatch
    <2>3. i \in DOMAIN Body[b]
      <3>1. i \in 1 .. n
        BY <1>1, <1>7
      <3> QED BY <3>1, BlockType
    <2>4. CASE k % 2 = 1
      BY <2>2, <2>4 DEF Spend, Chunk
    <2>5. CASE k % 2 # 1
      <3>1. c = Chunk("utxo", [o \in CreatedBy(Body[b][i]) |-> NewCoin(b, i, o)])
        BY <2>2, <2>5 DEF Create
      <3> QED BY <3>1, <2>3, NewCoinType DEF Chunk
    <2> QED BY <2>4, <2>5
  <1> QED
    BY <1>2, <1>3, <1>4, <1>5, <1>6, <1>7, Zenon DEF ChunkOfApply, c

\* The chunks of DisconnectTip's batch.
LEMMA DisconnectChunk ==
  ASSUME NEW b \in Block, NEW log \in Log, NEW k \in 1 .. Len(Body[b]) + 2
  PROVE  LET c == DisconnectBatch(b, log)[k]
         IN  /\ k = Len(Body[b]) + 2 =>
                  /\ c.table = "tip"
                  /\ c.put = IF HeightOf(b) = 0 THEN None ELSE Header[b].prev
             /\ k < Len(Body[b]) + 2 =>
                  /\ c.table = "utxo"
                  /\ \A o \in DOMAIN c.put : c.put[o] \in Coin \cup {None}
  <1> DEFINE n == Len(Body[b])
             c == DisconnectBatch(b, log)[k]
  <1>1. n \in Nat
    BY BlockType
  <1>2. ASSUME k = n + 2
        PROVE  c.table = "tip" /\ c.put = IF HeightOf(b) = 0 THEN None ELSE Header[b].prev
    <2>1. ~(k <= n) /\ k # n + 1
      BY <1>1, <1>2
    <2>2. c = Chunk("tip", IF HeightOf(b) = 0 THEN None ELSE Header[b].prev)
      BY <2>1, Zenon DEF DisconnectBatch
    <2> HIDE DEF c
    <2> QED BY <2>2 DEF Chunk
  <1>3. ASSUME k = n + 1
        PROVE  /\ c.table = "utxo"
               /\ \A o \in DOMAIN c.put : c.put[o] \in Coin \cup {None}
    <2>1. ~(k <= n)
      BY <1>1, <1>3
    <2>2. c = Chunk("utxo", [o \in {p \in Outpoint : log[p] # None} |-> log[o]])
      BY <2>1, <1>3, Zenon DEF DisconnectBatch
    <2> QED BY <2>2 DEF Chunk, Log
  <1>4. ASSUME k <= n
        PROVE  /\ c.table = "utxo"
               /\ \A o \in DOMAIN c.put : c.put[o] \in Coin \cup {None}
    <2>1. k # n + 1
      BY <1>1, <1>4
    <2>2. c = Chunk("utxo", [o \in CreatedBy(Body[b][k]) |-> None])
      BY <2>1, <1>4, Zenon DEF DisconnectBatch
    <2> QED BY <2>2 DEF Chunk
  <1>5. k < n + 2 => k <= n \/ k = n + 1
    BY <1>1
  <1> QED
    BY <1>2, <1>3, <1>4, <1>5, Zenon

\* A chunk leaves the other tables alone.
LEMMA ExecuteOther ==
  ASSUME NEW S, NEW T, NEW f \in [S -> T], NEW table, NEW chunk, chunk.table # table
  PROVE  Execute(f, table, chunk) = f
  BY DEF Execute

\* A chunk of well-typed entries.
LEMMA ExecuteType ==
  ASSUME NEW S, NEW T, NEW f \in [S -> T], NEW table, NEW chunk,
         \A k \in DOMAIN chunk.put : chunk.put[k] \in T
  PROVE  Execute(f, table, chunk) \in [S -> T]
  BY DEF Execute

-----------------------------------------------------------------------------
(* The inductive invariant *)

Inv == TypeOK /\ StoreClosed /\ CallsConsistent /\ WorkNeverOverstated

\* A call stays consistent while blocks and undo logs are only added.
LEMMA ConsistentMonotone ==
  ASSUME NEW c \in Call, NEW kept, NEW logs, NEW kept2, NEW logs2,
         \A b \in Block : kept[b] => kept2[b],
         \A b \in Block : logs[b] # None => logs2[b] # None,
         Consistent(c, kept, logs)
  PROVE  Consistent(c, kept2, logs2)
  <1>1. c.side \in Seq(Block)
    BY DEF Call
  <1>2. \A i \in DOMAIN c.side : c.side[i] \in Block /\ Header[c.side[i]].prev \in Block \cup {None}
    BY <1>1, BlockType, ElementType
  <1>3. \A i \in DOMAIN c.side :
          HeightOf(c.side[i]) > 0 =>
            Header[c.side[i]].prev # None /\ kept2[Header[c.side[i]].prev]
    BY <1>2 DEF Consistent
  <1>4. c.pc = "applying" =>
          /\ c.block = c.side[c.left] /\ c.log \in Log
          /\ c.done < 2 * Len(Body[c.block]) + 5
          /\ c.done >= 1 => logs2[c.block] # None
          /\ c.done >= 2 => kept2[c.block]
    <2> SUFFICES ASSUME c.pc = "applying"
                 PROVE  /\ c.block = c.side[c.left] /\ c.log \in Log
                        /\ c.done < 2 * Len(Body[c.block]) + 5
                        /\ c.done >= 1 => logs2[c.block] # None
                        /\ c.done >= 2 => kept2[c.block]
      OBVIOUS
    <2>1. c.left \in DOMAIN c.side /\ c.block = c.side[c.left]
      BY DEF Consistent
    <2>2. c.block \in Block
      BY <1>2, <2>1
    <2> QED BY <2>2 DEF Consistent
  <1>5. c.pc = "disconnecting" =>
          /\ c.block \in Block /\ kept2[c.block] /\ c.log \in Log
          /\ c.done < Len(Body[c.block]) + 2
    BY DEF Consistent
  <1>6. c.pc = "work" => kept2[c.side[c.left]]
    BY <1>2 DEF Consistent
  <1> QED
    BY <1>3, <1>4, <1>5, <1>6 DEF Consistent

\* Zero is a height.
LEMMA HeightZero == 0 \in 0 .. MaxHeight
  BY LedgerAssumption DEF LedgerAssumption

\* The next chunk of a batch of m chunks, of which d are written.
LEMMA NextChunk ==
  ASSUME NEW d \in Nat, NEW m \in Nat, d < m
  PROVE  d + 1 \in 1 .. m
  OBVIOUS

\* The length of ApplyBlock's batch, and what a position in it can be.
LEMMA ApplyPositions ==
  ASSUME NEW n \in Nat
  PROVE  /\ 2 * n + 5 \in Nat
         /\ \A k \in 1 .. 2 * n + 5 : k = 1 \/ k = 2 \/ k = 3 \/ k = 4 \/ k = 2 * n + 5 \/ (k > 4 /\ k < 2 * n + 5)
         /\ 2 * n + 5 # 1 /\ 2 * n + 5 # 2 /\ 2 * n + 5 # 3 /\ 2 * n + 5 >= 2
  OBVIOUS

\* The chunks before the k-th one are written: what done says in terms of k.
LEMMA ChunksBefore ==
  ASSUME NEW d \in Nat
  PROVE  (d + 1 > 1 => d >= 1) /\ (d + 1 > 2 => d >= 2)
  OBVIOUS

\* A nonempty sequence has a first element, and its length is a positive number.
LEMMA NonemptyLength ==
  ASSUME NEW S, NEW s \in Seq(S), 1 \in DOMAIN s
  PROVE  Len(s) \in Nat /\ Len(s) > 0
  OBVIOUS

\* Going down the side chain stays within it.
LEMMA OneLower ==
  ASSUME NEW S, NEW s \in Seq(S), NEW i \in DOMAIN s, i > 1
  PROVE  i - 1 \in DOMAIN s
  OBVIOUS

\* The last of n + 1 positions, or one of the others.
LEMMA NotLast ==
  ASSUME NEW n \in Nat, NEW i \in 1 .. n + 1, i # n + 1
  PROVE  i \in 1 .. n
  OBVIOUS

\* The first position is kept when a position is added.
LEMMA FirstKept ==
  ASSUME NEW n \in Nat, n > 0
  PROVE  1 \in 1 .. n /\ n + 1 > 0
  OBVIOUS

\* The idle call is a consistent call.
LEMMA IdleConsistent ==
  Idle \in Call /\ \A kept, logs : Consistent(Idle, kept, logs)
  <1>1. Idle \in Call
    BY HeightZero DEF Idle, Call
  <1>2. \A kept, logs : Consistent(Idle, kept, logs)
    BY DEF Idle, Consistent
  <1> QED BY <1>1, <1>2

\* A step that only moves one call on, to a consistent one.
LEMMA CallMoves ==
  ASSUME Inv, NEW t \in Thread, UNCHANGED tables,
         up' \in BOOLEAN, faults' \in 0 .. MaxFaults,
         th' = [th EXCEPT ![t] = th'[t]], th'[t] \in Call,
         Consistent(th'[t], stored, undo)
  PROVE  Inv'
  <1>1. th' \in [Thread -> Call]
    BY DEF Inv, TypeOK
  <1>2. TypeOK'
    BY <1>1 DEF Inv, TypeOK, tables
  <1>3. StoreClosed'
    BY DEF Inv, StoreClosed, tables
  <1>4. CallsConsistent'
    <2> SUFFICES ASSUME NEW s \in Thread PROVE Consistent(th'[s], stored', undo')
      BY DEF CallsConsistent
    <2>1. stored' = stored /\ undo' = undo
      BY DEF tables
    <2>2. CASE s = t
      BY <2>1, <2>2
    <2>3. CASE s # t
      <3>1. th'[s] = th[s]
        BY <2>3 DEF Inv, TypeOK
      <3> QED BY <3>1, <2>1 DEF Inv, CallsConsistent
    <2> QED BY <2>2, <2>3
  <1>5. WorkNeverOverstated'
    BY DEF Inv, WorkNeverOverstated, tables
  <1> QED BY <1>2, <1>3, <1>4, <1>5 DEF Inv

\* A call that returns leaves an idle thread.
LEMMA ReturnMoves ==
  ASSUME Inv, NEW t \in Thread, Return(t), UNCHANGED tables,
         up' \in BOOLEAN, faults' \in 0 .. MaxFaults
  PROVE  Inv'
  <1>1. th' = [th EXCEPT ![t] = Idle] /\ th'[t] = Idle
    BY DEF Return, Inv, TypeOK
  <1> QED BY <1>1, IdleConsistent, CallMoves, Zenon

\* The walk of reorg appends one block to the side chain and keeps the rest.
LEMMA AppendExtends ==
  ASSUME NEW S, NEW s \in Seq(S), NEW e \in S
  PROVE  /\ Append(s, e) \in Seq(S) /\ Len(Append(s, e)) = Len(s) + 1
         /\ Append(s, e)[Len(s) + 1] = e
         /\ DOMAIN Append(s, e) = 1 .. Len(s) + 1 /\ DOMAIN s = 1 .. Len(s)
         /\ \A i \in 1 .. Len(s) : Append(s, e)[i] = s[i]
  OBVIOUS

\* What TypeOK says about one call.
LEMMA CallType ==
  ASSUME Inv, NEW t \in Thread
  PROVE  /\ th[t] \in Call /\ th[t].side \in Seq(Block) /\ th[t].left \in Nat
         /\ th[t].gain \in Nat /\ th[t].done \in Nat /\ th[t].fork \in 0 .. MaxHeight
         /\ \A i \in DOMAIN th[t].side : th[t].side[i] \in Block
         /\ th[t].pc # "idle" => 1 \in DOMAIN th[t].side
         /\ Consistent(th[t], stored, undo)
  <1>1. th[t] \in Call
    BY DEF Inv, TypeOK
  <1>2. /\ th[t].side \in Seq(Block) /\ th[t].left \in Nat
        /\ th[t].gain \in Nat /\ th[t].done \in Nat /\ th[t].fork \in 0 .. MaxHeight
    BY <1>1 DEF Call
  <1>3. Consistent(th[t], stored, undo)
    BY DEF Inv, CallsConsistent
  <1>4. th[t].pc # "idle" => 1 \in DOMAIN th[t].side
    BY <1>2, <1>3 DEF Consistent
  <1> QED BY <1>1, <1>2, <1>3, <1>4, ElementType

-----------------------------------------------------------------------------
(* Recorded work *)

\* The work computed for a block is at most its true work.
LEMMA WorkUpToBound ==
  ASSUME Inv, NEW b \in Block
  PROVE  WorkUpTo(b) \in Nat /\ WorkUpTo(b) <= ChainWork[b]
  <1> DEFINE p == Header[b].prev
  <1>1. /\ BlockWork(b) \in Nat
        /\ ChainWork[b] = BlockWork(b) + IF HeightOf(b) > 0 /\ p # None THEN ChainWork[p] ELSE 0
    BY ChainAssumption DEF ChainAssumption
  <1>2. p \in Block \cup {None}
    BY BlockType
  <1>3. ASSUME HeightOf(b) > 0, p # None
        PROVE  ChainWork[p] \in Nat /\ (work[p] # None => work[p] \in Nat /\ work[p] <= ChainWork[p])
    <2>1. p \in Block
      BY <1>2, <1>3
    <2>2. ChainWork[p] \in Nat
      BY <2>1, ChainAssumption DEF ChainAssumption
    <2>3. work[p] \in Nat \cup {None}
      BY <2>1 DEF Inv, TypeOK
    <2> QED BY <2>1, <2>2, <2>3 DEF Inv, WorkNeverOverstated
  <1> QED BY <1>1, <1>3 DEF WorkUpTo

-----------------------------------------------------------------------------
(* The steps of a call *)

\* The start of InitGenesis on an empty database keeps the invariant.
LEMMA CreateGenesisInv ==
  ASSUME Inv, NEW t \in Thread, CreateGenesis(t)
  PROVE  Inv'
  <1> DEFINE c == [Idle EXCEPT !.pc = "apply", !.kind = "genesis", !.side = <<Genesis>>,
                               !.left = 1, !.gain = BlockWork(Genesis)]
  <1>1. th' = [th EXCEPT ![t] = c] /\ th'[t] = c
    BY DEF CreateGenesis, Inv, TypeOK
  <1>2. Genesis \in Block /\ HeightOf(Genesis) = 0
    BY LedgerAssumption DEF LedgerAssumption, HeightOf
  <1>3. BlockWork(Genesis) \in Nat /\ ChainWork[Genesis] = BlockWork(Genesis)
    BY <1>2, ChainAssumption DEF ChainAssumption
  <1>4. c \in Call
    <2>1. <<Genesis>> \in Seq(Block)
      BY <1>2
    <2>2. Idle \in Call
      BY IdleConsistent
    <2> QED BY <1>3, <2>1, <2>2, Zenon DEF Call
  <1>5. Consistent(c, stored, undo)
    BY <1>2, <1>3 DEF Consistent, Idle
  <1> QED BY <1>1, <1>4, <1>5, CallMoves, Zenon DEF CreateGenesis, Inv, TypeOK

\* A new call of ValidateAndApplyBlock keeps the invariant: the parent is stored.
LEMMA SubmitInv ==
  ASSUME Inv, NEW t \in Thread, NEW b \in Block, Submit(t, b)
  PROVE  Inv'
  <1> DEFINE c == [Idle EXCEPT !.pc = "check", !.side = <<b>>]
  <1>1. th' = [th EXCEPT ![t] = c] /\ th'[t] = c
    BY DEF Submit, Acceptable, Inv, TypeOK
  <1>2. c \in Call
    <2>1. <<b>> \in Seq(Block)
      OBVIOUS
    <2>2. Idle \in Call
      BY IdleConsistent
    <2> QED BY <2>1, <2>2, Zenon DEF Call
  <1>3. Consistent(c, stored, undo)
    BY DEF Consistent, Idle, Submit, Acceptable
  <1>4. UNCHANGED tables /\ up' \in BOOLEAN /\ faults' \in 0 .. MaxFaults
    BY DEF Submit, Acceptable, Inv, TypeOK
  <1> HIDE DEF c
  <1> QED BY <1>1, <1>2, <1>3, <1>4, CallMoves, Zenon

\* ValidateBlockTransactions, passed or not, keeps the invariant.
LEMMA CheckTxsInv ==
  ASSUME Inv, NEW t \in Thread, CheckTxs(t)
  PROVE  Inv'
  <1>1. CASE Goto(t, "weigh")
    <2> DEFINE c == [th[t] EXCEPT !.pc = "weigh"]
    <2>1. th' = [th EXCEPT ![t] = c] /\ th'[t] = c
      BY <1>1 DEF Goto, Inv, TypeOK
    <2>2. c \in Call
      BY CallType, ZenonT(40) DEF Call
    <2>3. Consistent(c, stored, undo)
      <3>1. th[t].pc = "check" /\ th[t] \in Call /\ Consistent(th[t], stored, undo)
        BY CallType, Zenon DEF CheckTxs, At
      <3>2. c.pc = "weigh" /\ c.side = th[t].side /\ c.done = th[t].done
        BY <3>1, ZenonT(40) DEF Call
      <3> HIDE DEF c
      <3> QED BY <3>1, <3>2, ZenonT(40) DEF Consistent
    <2> QED BY <2>1, <2>2, <2>3, CallMoves, Zenon DEF CheckTxs, Inv, TypeOK
  <1>2. CASE Return(t)
    BY <1>2, ReturnMoves DEF CheckTxs, Inv, TypeOK
  <1> QED BY <1>1, <1>2 DEF CheckTxs

\* Computing incomingWork keeps the invariant: it is at most the true work.
LEMMA WeighInv ==
  ASSUME Inv, NEW t \in Thread, Weigh(t)
  PROVE  Inv'
  <1> DEFINE c == [th[t] EXCEPT !.pc = "choose", !.gain = WorkUpTo(th[t].side[1])]
  <1>1. th' = [th EXCEPT ![t] = c] /\ th'[t] = c
    BY Zenon DEF Weigh, Inv, TypeOK
  <1>2. th[t].side[1] \in Block
    BY CallType DEF Weigh, At
  <1>3. c \in Call
    BY <1>2, CallType, WorkUpToBound, ZenonT(40) DEF Call
  <1>4. Consistent(c, stored, undo)
    <2>1. c.pc = "choose" /\ c.side = th[t].side /\ c.done = th[t].done /\ c.gain <= ChainWork[c.side[1]]
      BY <1>2, CallType, WorkUpToBound DEF Call
    <2>2. th[t].pc = "weigh" /\ Consistent(th[t], stored, undo)
      BY CallType DEF Weigh, At
    <2> HIDE DEF c
    <2> QED BY <2>1, <2>2, ZenonT(40) DEF Consistent
  <1>5. UNCHANGED tables /\ up' \in BOOLEAN /\ faults' \in 0 .. MaxFaults
    BY DEF Weigh, Inv, TypeOK
  <1> HIDE DEF c
  <1> QED BY <1>1, <1>3, <1>4, <1>5, CallMoves, Zenon

\* Each outcome of the comparison of work keeps the invariant.
LEMMA ForkChoiceInv ==
  ASSUME Inv, NEW t \in Thread, ForkChoice(t)
  PROVE  Inv'
  <1>1. UNCHANGED tables /\ up' \in BOOLEAN /\ faults' \in 0 .. MaxFaults
    BY DEF ForkChoice, Inv, TypeOK
  <1>2. th[t].pc = "choose" /\ Consistent(th[t], stored, undo) /\ 1 \in DOMAIN th[t].side
    BY CallType DEF ForkChoice, At
  <1>3. ASSUME NEW kind \in {"first", "extend"}, Direct(t, kind)
        PROVE  Inv'
    <2> DEFINE c == [th[t] EXCEPT !.pc = "apply", !.kind = kind, !.left = 1]
    <2>1. th' = [th EXCEPT ![t] = c] /\ th'[t] = c
      BY <1>3, Zenon DEF Direct, Inv, TypeOK
    <2>2. c \in Call
      BY CallType, ZenonT(40) DEF Call
    <2>3. c.pc = "apply" /\ c.side = th[t].side /\ c.gain = th[t].gain /\ c.done = th[t].done /\ c.left = 1
      BY CallType DEF Call
    <2> HIDE DEF c
    <2>4. Consistent(c, stored, undo)
      BY <1>2, <2>3, Zenon DEF Consistent
    <2> QED BY <1>1, <2>1, <2>2, <2>4, CallMoves, Zenon
  <1>4. ASSUME Goto(t, "side")
        PROVE  Inv'
    <2> DEFINE c == [th[t] EXCEPT !.pc = "side"]
    <2>1. th' = [th EXCEPT ![t] = c] /\ th'[t] = c
      BY <1>4 DEF Goto, Inv, TypeOK
    <2>2. c \in Call
      BY CallType DEF Call
    <2>3. c.pc = "side" /\ c.side = th[t].side /\ c.gain = th[t].gain /\ c.done = th[t].done
      BY CallType DEF Call
    <2> HIDE DEF c
    <2>4. Consistent(c, stored, undo)
      BY <1>2, <2>3, Zenon DEF Consistent
    <2> QED BY <1>1, <2>1, <2>2, <2>4, CallMoves, Zenon
  <1>5. ASSUME th' = [th EXCEPT ![t].pc = "collect", ![t].kind = "reorg"]
        PROVE  Inv'
    <2> DEFINE c == [th[t] EXCEPT !.pc = "collect", !.kind = "reorg"]
    <2>1. th' = [th EXCEPT ![t] = c] /\ th'[t] = c
      BY <1>5, Zenon DEF Inv, TypeOK
    <2>2. c \in Call
      BY CallType, ZenonT(40) DEF Call
    <2>3. c.pc = "collect" /\ c.kind = "reorg" /\ c.side = th[t].side /\ c.gain = th[t].gain /\ c.done = th[t].done
      BY CallType DEF Call
    <2> HIDE DEF c
    <2>4. Consistent(c, stored, undo)
      BY <1>2, <2>3, ZenonT(40) DEF Consistent
    <2> QED BY <1>1, <2>1, <2>2, <2>4, CallMoves, Zenon
  <1> QED BY <1>3, <1>4, <1>5 DEF ForkChoice

\* A turn of reorg's walk to the fork point keeps the invariant: each block it
\* adds is stored, and so is that block's parent.
LEMMA CollectInv ==
  ASSUME Inv, NEW t \in Thread, Collect(t)
  PROVE  Inv'
  <1> DEFINE n == Len(th[t].side)
             cur == th[t].side[n]
             prev == Header[cur].prev
  <1>1. UNCHANGED tables /\ up' \in BOOLEAN /\ faults' \in 0 .. MaxFaults
    BY ZenonT(40) DEF Collect, Inv, TypeOK
  <1>2. th[t].pc = "collect" /\ Consistent(th[t], stored, undo) /\ n \in Nat /\ n > 0
    <2>1. th[t].pc = "collect" /\ Consistent(th[t], stored, undo)
      BY CallType, ZenonT(40) DEF Collect, At
    <2>2. th[t].side \in Seq(Block) /\ 1 \in DOMAIN th[t].side
      BY <2>1, CallType
    <2> QED BY <2>1, <2>2, NonemptyLength, ZenonT(40)
  <1>3. n \in DOMAIN th[t].side /\ cur \in Block
    BY <1>2, CallType
  <1>4. HeightOf(cur) \in 0 .. MaxHeight /\ MaxHeight \in Nat
    BY <1>3, BlockType, LedgerAssumption DEF LedgerAssumption
  <1>5. ASSUME NEW f \in 0 .. MaxHeight,
               th' = [th EXCEPT ![t].pc = "rollback", ![t].left = n, ![t].fork = f]
        PROVE  Inv'
    <2> DEFINE c == [th[t] EXCEPT !.pc = "rollback", !.left = n, !.fork = f]
    <2>1. th' = [th EXCEPT ![t] = c] /\ th'[t] = c
      BY <1>5, Zenon DEF Inv, TypeOK
    <2>2. c \in Call
      BY <1>2, CallType, ZenonT(40) DEF Call
    <2>3. c.pc = "rollback" /\ c.kind = th[t].kind /\ c.side = th[t].side /\ c.gain = th[t].gain /\ c.done = th[t].done /\ c.left = n
      BY CallType DEF Call
    <2> HIDE DEF c
    <2>4. Consistent(c, stored, undo)
      BY <1>2, <1>3, <2>3, ZenonT(40) DEF Consistent
    <2> QED BY <1>1, <2>1, <2>2, <2>4, CallMoves, Zenon
  <1>6. ASSUME prev # None, stored[prev], th' = [th EXCEPT ![t].side = Append(@, prev)]
        PROVE  Inv'
    <2> DEFINE side == Append(th[t].side, prev)
               c == [th[t] EXCEPT !.side = side]
    <2>1. th' = [th EXCEPT ![t] = c] /\ th'[t] = c
      BY <1>6, ZenonT(40) DEF Inv, TypeOK
    <2>2. prev \in Block
      BY <1>3, <1>6, BlockType
    <2>3. /\ side \in Seq(Block) /\ Len(side) = n + 1 /\ side[n + 1] = prev
          /\ DOMAIN side = 1 .. n + 1 /\ DOMAIN th[t].side = 1 .. n
          /\ \A i \in 1 .. n : side[i] = th[t].side[i]
      <3>1. th[t].side \in Seq(Block)
        BY CallType, Zenon
      <3> DEFINE old == th[t].side
                 new == prev
      <3>2. old \in Seq(Block) /\ new \in Block
        BY <3>1, <2>2
      <3> HIDE DEF old, new
      <3>3. /\ Append(old, new) \in Seq(Block) /\ Len(Append(old, new)) = Len(old) + 1
            /\ Append(old, new)[Len(old) + 1] = new
            /\ DOMAIN Append(old, new) = 1 .. Len(old) + 1 /\ DOMAIN old = 1 .. Len(old)
            /\ \A i \in 1 .. Len(old) : Append(old, new)[i] = old[i]
        BY <3>2, AppendExtends
      <3> QED BY <3>3, Zenon DEF old, new
    <2>4. c \in Call
      <3>1. side \in Seq(Block) /\ th[t] \in Call
        BY <2>3, CallType, Zenon
      <3> HIDE DEF side
      <3> QED BY <3>1, ZenonT(40) DEF Call
    <2>5. c.pc = "collect" /\ c.kind = th[t].kind /\ c.side = side /\ c.gain = th[t].gain /\ c.done = th[t].done
      BY <1>2, CallType, ZenonT(40) DEF Call
    <2>6. HeightOf(prev) > 0 => Header[prev].prev # None /\ stored[Header[prev].prev]
      BY <2>2, <1>6, Zenon DEF Inv, StoreClosed
    <2>7. \A i \in DOMAIN side : HeightOf(side[i]) > 0 =>
            Header[side[i]].prev # None /\ stored[Header[side[i]].prev]
      <3> SUFFICES ASSUME NEW i \in DOMAIN side, HeightOf(side[i]) > 0
                   PROVE  Header[side[i]].prev # None /\ stored[Header[side[i]].prev]
        BY Zenon
      <3>1. CASE i = n + 1
        BY <3>1, <2>3, <2>6, Zenon
      <3>2. CASE i # n + 1
        <4>1. i \in DOMAIN th[t].side /\ side[i] = th[t].side[i]
          <5>1. i \in 1 .. n + 1 /\ n \in Nat
            BY <2>3, <1>2, Zenon
          <5> HIDE DEF side, n
          <5>2. i \in 1 .. n
            BY <5>1, <3>2, NotLast, ZenonT(40)
          <5> QED BY <5>2, <2>3, Zenon
        <4> QED BY <4>1, <1>2, Zenon DEF Consistent
      <3> QED BY <3>1, <3>2, Zenon
    <2>8. side[1] = th[t].side[1] /\ Len(side) > 0
      <3>1. 1 \in 1 .. n /\ n + 1 > 0
        BY <1>2, FirstKept, ZenonT(40)
      <3> QED BY <3>1, <2>3, ZenonT(40)
    <2> HIDE DEF c, side
    <2>9. Consistent(c, stored, undo)
      BY <1>2, <2>5, <2>7, <2>8 DEF Consistent
    <2> QED BY <1>1, <2>1, <2>4, <2>9, CallMoves, Zenon
  <1>7. (IF HeightOf(cur) = 0 THEN 0 ELSE HeightOf(cur) - 1) \in 0 .. MaxHeight
    BY <1>4
  <1>8. Return(t) => Inv'
    BY <1>1, ReturnMoves
  <1> QED BY <1>5, <1>6, <1>7, <1>8, Zenon DEF Collect

\* The loop head of RollbackToHeight keeps the invariant.
LEMMA RollbackInv ==
  ASSUME Inv, NEW t \in Thread, Rollback(t)
  PROVE  Inv'
  <1>1. UNCHANGED tables /\ up' \in BOOLEAN /\ faults' \in 0 .. MaxFaults
    BY DEF Rollback, Inv, TypeOK
  <1>2. th[t].pc = "rollback" /\ Consistent(th[t], stored, undo)
    BY CallType DEF Rollback, At
  <1>3. ASSUME Goto(t, "disconnect")
        PROVE  Inv'
    <2> DEFINE c == [th[t] EXCEPT !.pc = "disconnect"]
    <2>1. th' = [th EXCEPT ![t] = c] /\ th'[t] = c
      BY <1>3 DEF Goto, Inv, TypeOK
    <2>2. c \in Call
      BY CallType DEF Call
    <2>3. c.pc = "disconnect" /\ c.kind = th[t].kind /\ c.side = th[t].side /\ c.gain = th[t].gain /\ c.done = th[t].done /\ c.left = th[t].left
      BY CallType DEF Call
    <2> HIDE DEF c
    <2>4. Consistent(c, stored, undo)
      BY <1>2, <2>3, Zenon DEF Consistent
    <2> QED BY <1>1, <2>1, <2>2, <2>4, CallMoves, Zenon
  <1>4. ASSUME Goto(t, "apply")
        PROVE  Inv'
    <2> DEFINE c == [th[t] EXCEPT !.pc = "apply"]
    <2>1. th' = [th EXCEPT ![t] = c] /\ th'[t] = c
      BY <1>4 DEF Goto, Inv, TypeOK
    <2>2. c \in Call
      BY CallType DEF Call
    <2>3. /\ c.pc = "apply" /\ c.side = th[t].side /\ c.gain = th[t].gain /\ c.done = th[t].done
          /\ c.left = th[t].left /\ c.kind = th[t].kind
      BY CallType DEF Call
    <2> HIDE DEF c
    <2>4. Consistent(c, stored, undo)
      BY <1>2, <2>3, Zenon DEF Consistent
    <2> QED BY <1>1, <2>1, <2>2, <2>4, CallMoves, Zenon
  <1>5. Return(t) => Inv'
    BY <1>1, ReturnMoves
  <1> QED BY <1>3, <1>4, <1>5 DEF Rollback

\* DisconnectTip's reads keep the invariant: the tip is stored with its undo log.
LEMMA DisconnectTipInv ==
  ASSUME Inv, NEW t \in Thread, DisconnectTip(t)
  PROVE  Inv'
  <1>1. UNCHANGED tables /\ up' \in BOOLEAN /\ faults' \in 0 .. MaxFaults
    BY DEF DisconnectTip, Inv, TypeOK
  <1>2. th[t].pc = "disconnect" /\ Consistent(th[t], stored, undo)
    BY CallType DEF DisconnectTip, At
  <1>3. ASSUME tip # None, stored[tip], undo[tip] # None,
               th' = [th EXCEPT ![t].pc = "disconnecting", ![t].block = tip, ![t].log = undo[tip]]
        PROVE  Inv'
    <2> DEFINE c == [th[t] EXCEPT !.pc = "disconnecting", !.block = tip, !.log = undo[tip]]
    <2>1. th' = [th EXCEPT ![t] = c] /\ th'[t] = c
      BY <1>3, Zenon DEF Inv, TypeOK
    <2>2. tip \in Block /\ undo[tip] \in Log
      BY <1>3 DEF Inv, TypeOK
    <2>3. c \in Call
      BY <2>2, CallType, ZenonT(40) DEF Call
    <2>4. /\ c.pc = "disconnecting" /\ c.kind = th[t].kind /\ c.side = th[t].side /\ c.gain = th[t].gain /\ c.done = th[t].done
          /\ c.left = th[t].left /\ c.block = tip /\ c.log = undo[tip]
      BY CallType DEF Call
    <2>5. th[t].done = 0
      BY <1>2 DEF Consistent
    <2>6. Len(Body[tip]) \in Nat
      BY <2>2, BlockType
    <2> HIDE DEF c
    <2>7. Consistent(c, stored, undo)
      <3>1. c.done < Len(Body[c.block]) + 2
        <4>1. c.done = 0 /\ Body[c.block] = Body[tip]
          BY <2>4, <2>5, Zenon
        <4> QED BY <4>1, <2>6
      <3>2. c.block \in Block /\ stored[c.block] /\ c.log \in Log
        BY <1>3, <2>2, <2>4, Zenon
      <3>3. /\ Len(c.side) > 0 /\ c.left \in DOMAIN c.side /\ c.kind = "reorg"
            /\ c.gain <= ChainWork[c.side[1]]
            /\ \A i \in DOMAIN c.side : HeightOf(c.side[i]) > 0 =>
                 Header[c.side[i]].prev # None /\ stored[Header[c.side[i]].prev]
        BY <1>2, <2>4, ZenonT(40) DEF Consistent
      <3> QED BY <2>4, <3>1, <3>2, <3>3, Zenon DEF Consistent
    <2> QED BY <1>1, <2>1, <2>3, <2>7, CallMoves, Zenon
  <1>4. Return(t) => Inv'
    BY <1>1, ReturnMoves
  <1> QED BY <1>3, <1>4 DEF DisconnectTip

\* ApplyBlock's reads keep the invariant.
LEMMA ApplyBlockInv ==
  ASSUME Inv, NEW t \in Thread, ApplyBlock(t)
  PROVE  Inv'
  <1> DEFINE b == th[t].side[th[t].left]
             log == UndoOf(b, utxo)
             c == [th[t] EXCEPT !.pc = "applying", !.block = b, !.log = log]
  <1>1. UNCHANGED tables /\ up' \in BOOLEAN /\ faults' \in 0 .. MaxFaults
    BY DEF ApplyBlock, Inv, TypeOK
  <1>2. th[t].pc = "apply" /\ Consistent(th[t], stored, undo)
    BY CallType DEF ApplyBlock, At
  <1>3. th' = [th EXCEPT ![t] = c] /\ th'[t] = c
    BY Zenon DEF ApplyBlock, Inv, TypeOK
  <1>4. b \in Block
    BY <1>2, CallType, Zenon DEF Consistent
  <1>5. log \in Log
    BY DEF UndoOf, Log, Inv, TypeOK
  <1> HIDE DEF b, log
  <1>6. c \in Call
    BY <1>4, <1>5, CallType, ZenonT(40) DEF Call
  <1>7. /\ c.pc = "applying" /\ c.side = th[t].side /\ c.gain = th[t].gain /\ c.done = th[t].done /\ c.kind = th[t].kind
        /\ c.left = th[t].left /\ c.block = b /\ c.log = log
    BY CallType DEF Call
  <1>8. th[t].done = 0 /\ b = th[t].side[th[t].left]
    BY <1>2, Zenon DEF Consistent, b
  <1> HIDE DEF c
  <1>9. c.done < 2 * Len(Body[c.block]) + 5 /\ ~(c.done >= 1) /\ ~(c.done >= 2)
    <2>1. Len(Body[c.block]) \in Nat /\ c.done = 0
      BY <1>4, <1>7, <1>8, BlockType
    <2> QED BY <2>1
  <1>10. Consistent(c, stored, undo)
    <2>1. c.pc = "applying" => c.block = c.side[c.left] /\ c.log \in Log
      BY <1>5, <1>7, <1>8, Zenon
    <2> QED BY <1>2, <1>7, <1>9, <2>1, ZenonT(40) DEF Consistent
  <1> QED BY <1>1, <1>3, <1>6, <1>10, CallMoves, Zenon
-----------------------------------------------------------------------------
(* Batches in progress *)

\* The tables after the next chunk of an ApplyBlock batch.
LEMMA ApplyCommit ==
  ASSUME Inv, NEW t \in Thread, Commit(t), th[t].pc = "applying",
         NEW b, b = th[t].block, NEW k, k = th[t].done + 1
  PROVE  /\ b \in Block /\ b = th[t].side[th[t].left] /\ k \in 1 .. 2 * Len(Body[b]) + 5
         /\ undo' = IF k = 1 THEN [undo EXCEPT ![b] = th[t].log] ELSE undo
         /\ stored' = IF k = 2 THEN [stored EXCEPT ![b] = TRUE] ELSE stored
         /\ height' = IF k = 3 THEN [height EXCEPT ![HeightOf(b)] = b] ELSE height
         /\ txs' \in [Tx -> BOOLEAN] /\ utxo' \in Log
         /\ tip' = IF k = 2 * Len(Body[b]) + 5 THEN b ELSE tip
  <1> DEFINE n == Len(Body[b])
             log == th[t].log
             chunk == ApplyBatch(b, log)[k]
  <1>1. Consistent(th[t], stored, undo) /\ th[t].done \in Nat
    BY CallType, ZenonT(40)
  <1>2. th[t].left \in DOMAIN th[t].side /\ b = th[t].side[th[t].left] /\ log \in Log
    BY <1>1, ZenonT(40) DEF Consistent
  <1>3. b \in Block
    BY <1>2, CallType
  <1>4. n \in Nat
    BY <1>3, BlockType, ZenonT(40)
  <1>5. k \in 1 .. 2 * n + 5
    <2>1. th[t].done < 2 * n + 5
      BY <1>1, ZenonT(40) DEF Consistent
    <2>2. 2 * n + 5 \in Nat
      BY <1>4, ApplyPositions, ZenonT(40)
    <2> QED BY <2>1, <2>2, <1>1, NextChunk, ZenonT(40)
  <1>6. /\ undo' = Execute(undo, "undo", chunk)
        /\ stored' = Execute(stored, "block", chunk)
        /\ height' = Execute(height, "height", chunk)
        /\ txs' = Execute(txs, "tx", chunk)
        /\ utxo' = Execute(utxo, "utxo", chunk)
        /\ tip' = IF chunk.table = "tip" THEN chunk.put ELSE tip
    BY ZenonT(40) DEF Commit, BatchOf
  <1>7. /\ undo \in [Block -> Log \cup {None}] /\ stored \in [Block -> BOOLEAN]
        /\ height \in [0 .. MaxHeight -> Block \cup {None}]
        /\ txs \in [Tx -> BOOLEAN] /\ utxo \in [Outpoint -> Coin \cup {None}]
    BY DEF Inv, TypeOK, Log
  <1>8. /\ chunk.table # "undo" => undo' = undo
        /\ chunk.table # "block" => stored' = stored
        /\ chunk.table # "height" => height' = height
        /\ chunk.table # "tx" => txs' = txs
        /\ chunk.table # "utxo" => utxo' = utxo
        /\ chunk.table # "tip" => tip' = tip
    <2> HIDE DEF chunk
    <2> QED BY <1>6, <1>7, ExecuteOther, Zenon
  <1>16. /\ k = 1 => chunk.table = "undo" /\ chunk.put = Entry(b, log)
         /\ k = 2 => chunk.table = "block" /\ chunk.put = Entry(b, TRUE)
         /\ k = 3 => chunk.table = "height" /\ chunk.put = Entry(HeightOf(b), b)
         /\ k = 4 => chunk.table = "tx" /\ \A x \in DOMAIN chunk.put : chunk.put[x] \in BOOLEAN
         /\ k = 2 * n + 5 => chunk.table = "tip" /\ chunk.put = b
         /\ k > 4 /\ k < 2 * n + 5 =>
              /\ chunk.table = "utxo"
              /\ \A o \in DOMAIN chunk.put : chunk.put[o] \in Coin \cup {None}
    <2>1. ChunkOfApply(b, log, k, chunk)
      BY <1>2, <1>3, <1>5, ApplyChunk
    <2> HIDE DEF chunk, log
    <2> QED BY <2>1, ZenonT(40) DEF ChunkOfApply
  <1>9. CASE k = 1
    <2>1. chunk.table = "undo" /\ chunk.put = Entry(b, log)
      BY <1>9, <1>16, Zenon
    <2>2. k # 2 /\ k # 3 /\ k # 2 * n + 5
      BY <1>4, <1>9
    <2> HIDE DEF chunk, n
    <2>4. Execute(undo, "undo", chunk) = [undo EXCEPT ![b] = log]
      BY <2>1 DEF Execute, Entry
    <2>3. undo' = [undo EXCEPT ![b] = log]
      BY <2>4, <1>6, Zenon
    <2> QED BY <2>1, <2>2, <2>3, <1>2, <1>3, <1>5, <1>7, <1>8, <1>9, Zenon DEF Log, n
  <1>10. CASE k = 2
    <2>1. chunk.table = "block" /\ chunk.put = Entry(b, TRUE)
      BY <1>10, <1>16, Zenon
    <2>2. k # 1 /\ k # 3 /\ k # 2 * n + 5
      BY <1>4, <1>10
    <2> HIDE DEF chunk, n
    <2>4. Execute(stored, "block", chunk) = [stored EXCEPT ![b] = TRUE]
      BY <2>1, Zenon DEF Execute, Entry
    <2>3. stored' = [stored EXCEPT ![b] = TRUE]
      BY <2>4, <1>6, Zenon
    <2> QED BY <2>1, <2>2, <2>3, <1>2, <1>3, <1>5, <1>7, <1>8, <1>10, Zenon DEF Log, n
  <1>11. CASE k = 3
    <2>1. chunk.table = "height" /\ chunk.put = Entry(HeightOf(b), b)
      BY <1>11, <1>16, Zenon
    <2>2. k # 1 /\ k # 2 /\ k # 2 * n + 5
      BY <1>4, <1>11
    <2> HIDE DEF chunk, n
    <2>4. Execute(height, "height", chunk) = [height EXCEPT ![HeightOf(b)] = b]
      BY <2>1 DEF Execute, Entry
    <2>3. height' = [height EXCEPT ![HeightOf(b)] = b]
      BY <2>4, <1>6, ZenonT(40)
    <2> QED BY <2>1, <2>2, <2>3, <1>2, <1>3, <1>5, <1>7, <1>8, <1>11, Zenon DEF Log, n
  <1>12. CASE k = 4
    <2>1. chunk.table = "tx" /\ \A x \in DOMAIN chunk.put : chunk.put[x] \in BOOLEAN
      BY <1>12, <1>16, Zenon
    <2>2. k # 1 /\ k # 2 /\ k # 3 /\ k # 2 * n + 5
      BY <1>4, <1>12
    <2> HIDE DEF chunk, n
    <2>3. txs' \in [Tx -> BOOLEAN]
      BY <2>1, <1>6, <1>7, ExecuteType, Zenon
    <2> QED BY <2>1, <2>2, <2>3, <1>2, <1>3, <1>5, <1>7, <1>8, <1>12 DEF Log, n
  <1>13. CASE k = 2 * n + 5
    <2>1. chunk.table = "tip" /\ chunk.put = b
      BY <1>13, <1>16, Zenon
    <2>2. k # 1 /\ k # 2 /\ k # 3
      BY <1>4, <1>13, ApplyPositions, ZenonT(40)
    <2> HIDE DEF chunk, n
    <2> QED BY <2>1, <2>2, <1>2, <1>3, <1>5, <1>6, <1>7, <1>8, <1>13, Zenon DEF Log, n
  <1>14. CASE k > 4 /\ k < 2 * n + 5
    <2>1. chunk.table = "utxo" /\ \A o \in DOMAIN chunk.put : chunk.put[o] \in Coin \cup {None}
      BY <1>14, <1>16, Zenon
    <2>2. k # 1 /\ k # 2 /\ k # 3 /\ k # 2 * n + 5
      BY <1>4, <1>5, <1>14
    <2> HIDE DEF chunk
    <2>3. utxo' \in [Outpoint -> Coin \cup {None}]
      BY <2>1, <1>6, <1>7, ExecuteType, Zenon
    <2> QED BY <2>1, <2>2, <2>3, <1>2, <1>3, <1>5, <1>7, <1>8 DEF Log
  <1>15. k = 1 \/ k = 2 \/ k = 3 \/ k = 4 \/ k = 2 * n + 5 \/ (k > 4 /\ k < 2 * n + 5)
    BY <1>4, <1>5, ApplyPositions, ZenonT(40)
  <1> QED BY <1>9, <1>10, <1>11, <1>12, <1>13, <1>14, <1>15, Zenon

\* The tables after the next chunk of a DisconnectTip batch.
LEMMA DisconnectCommit ==
  ASSUME Inv, NEW t \in Thread, Commit(t), th[t].pc = "disconnecting",
         NEW b, b = th[t].block, NEW k, k = th[t].done + 1
  PROVE  /\ b \in Block /\ k \in 1 .. Len(Body[b]) + 2
         /\ undo' = undo /\ stored' = stored /\ height' = height /\ txs' = txs
         /\ utxo' \in Log
         /\ tip' = IF k = Len(Body[b]) + 2
                   THEN IF HeightOf(b) = 0 THEN None ELSE Header[b].prev
                   ELSE tip
  <1> DEFINE n == Len(Body[b])
             log == th[t].log
             chunk == DisconnectBatch(b, log)[k]
  <1>1. Consistent(th[t], stored, undo) /\ th[t].done \in Nat
    BY CallType
  <1>2. b \in Block /\ log \in Log
    BY <1>1 DEF Consistent
  <1>3. n \in Nat
    BY <1>2, BlockType, ZenonT(40)
  <1>4. k \in 1 .. n + 2
    <2>1. th[t].done < n + 2
      BY <1>1, ZenonT(40) DEF Consistent
    <2>2. n + 2 \in Nat
      <3> HIDE DEF n
      <3> QED BY <1>3
    <2> QED BY <2>1, <2>2, <1>1, NextChunk, ZenonT(40)
  <1>5. /\ undo' = Execute(undo, "undo", chunk)
        /\ stored' = Execute(stored, "block", chunk)
        /\ height' = Execute(height, "height", chunk)
        /\ txs' = Execute(txs, "tx", chunk)
        /\ utxo' = Execute(utxo, "utxo", chunk)
        /\ tip' = IF chunk.table = "tip" THEN chunk.put ELSE tip
    BY DEF Commit, BatchOf
  <1>6. /\ undo \in [Block -> Log \cup {None}] /\ stored \in [Block -> BOOLEAN]
        /\ height \in [0 .. MaxHeight -> Block \cup {None}]
        /\ txs \in [Tx -> BOOLEAN] /\ utxo \in [Outpoint -> Coin \cup {None}]
    BY DEF Inv, TypeOK, Log
  <1>7. CASE k = n + 2
    <2>2. chunk.table = "tip" /\ chunk.put = IF HeightOf(b) = 0 THEN None ELSE Header[b].prev
      BY <1>2, <1>4, <1>7, DisconnectChunk
    <2> HIDE DEF chunk
    <2>3. undo' = undo /\ stored' = stored /\ height' = height /\ txs' = txs /\ utxo' = utxo
      BY <2>2, <1>5, <1>6, ExecuteOther, ZenonT(40)
    <2> QED BY <2>2, <2>3, <1>2, <1>4, <1>5, <1>6, <1>7, ZenonT(40) DEF Log
  <1>8. CASE k < n + 2
    <2>1. chunk.table = "utxo" /\ \A o \in DOMAIN chunk.put : chunk.put[o] \in Coin \cup {None}
      BY <1>2, <1>4, <1>8, DisconnectChunk, ZenonT(40)
    <2>2. k # n + 2
      BY <1>3, <1>4, <1>8
    <2> HIDE DEF chunk
    <2>3. undo' = undo /\ stored' = stored /\ height' = height /\ txs' = txs
      BY <2>1, <1>5, <1>6, ExecuteOther, ZenonT(40)
    <2>4. utxo' \in [Outpoint -> Coin \cup {None}]
      BY <2>1, <1>5, <1>6, ExecuteType, Zenon
    <2> QED BY <2>1, <2>2, <2>3, <2>4, <1>2, <1>4, <1>5, ZenonT(40) DEF Log
  <1>9. k = n + 2 \/ k < n + 2
    BY <1>3, <1>4
  <1> QED BY <1>7, <1>8, <1>9, Zenon
\* A step of one call that adds blocks and undo logs keeps every call consistent.
LEMMA OthersKept ==
  ASSUME Inv, NEW t \in Thread,
         \A b \in Block : stored[b] => stored'[b],
         \A b \in Block : undo[b] # None => undo'[b] # None,
         th' = [th EXCEPT ![t] = th'[t]], th'[t] \in Call,
         Consistent(th'[t], stored', undo')
  PROVE  th' \in [Thread -> Call] /\ CallsConsistent'
  <1>1. th \in [Thread -> Call] /\ \A s \in Thread : Consistent(th[s], stored, undo)
    BY DEF Inv, TypeOK, CallsConsistent
  <1>2. th' \in [Thread -> Call]
    BY <1>1
  <1>3. ASSUME NEW s \in Thread PROVE Consistent(th'[s], stored', undo')
    <2>1. CASE s = t
      BY <2>1
    <2>2. CASE s # t
      <3>1. th'[s] = th[s] /\ th[s] \in Call
        BY <2>2, <1>1
      <3>2. Consistent(th[s], stored', undo')
        BY <3>1, <1>1, ConsistentMonotone
      <3> QED BY <3>1, <3>2
    <2> QED BY <2>1, <2>2
  <1> QED BY <1>2, <1>3 DEF CallsConsistent

\* A chunk of an ApplyBlock batch keeps the invariant: the undo log precedes the
\* block, the block precedes the height entry and the tip.
LEMMA ApplyingInv ==
  ASSUME Inv, NEW t \in Thread, Commit(t), th[t].pc = "applying"
  PROVE  Inv'
  <1> DEFINE b == th[t].block
             k == th[t].done + 1
             n == Len(Body[b])
  <1>1. /\ b \in Block /\ b = th[t].side[th[t].left] /\ k \in 1 .. 2 * n + 5
        /\ undo' = IF k = 1 THEN [undo EXCEPT ![b] = th[t].log] ELSE undo
        /\ stored' = IF k = 2 THEN [stored EXCEPT ![b] = TRUE] ELSE stored
        /\ height' = IF k = 3 THEN [height EXCEPT ![HeightOf(b)] = b] ELSE height
        /\ txs' \in [Tx -> BOOLEAN] /\ utxo' \in Log
        /\ tip' = IF k = 2 * n + 5 THEN b ELSE tip
    BY ApplyCommit
  <1>2. /\ Consistent(th[t], stored, undo) /\ th[t].done \in Nat /\ n \in Nat
        /\ th[t] \in Call /\ th[t].left \in DOMAIN th[t].side /\ th[t].log \in Log
    <2>1. Consistent(th[t], stored, undo) /\ th[t].done \in Nat /\ th[t] \in Call
      BY CallType
    <2> QED BY <1>1, <2>1, BlockType, Zenon DEF Consistent
  <1>3. /\ k > 1 => undo[b] # None
        /\ k > 2 => stored[b]
        /\ HeightOf(b) > 0 => Header[b].prev # None /\ stored[Header[b].prev]
    <2>1. /\ th[t].done >= 1 => undo[b] # None
          /\ th[t].done >= 2 => stored[b]
      BY <1>2, ZenonT(40) DEF Consistent
    <2>2. HeightOf(b) > 0 => Header[b].prev # None /\ stored[Header[b].prev]
      BY <1>1, <1>2, ZenonT(40) DEF Consistent
    <2>3. th[t].done \in Nat
      BY <1>2
    <2> QED BY <2>1, <2>2, <2>3, ChunksBefore, ZenonT(40)
  <1>4. th[t].log # None
    BY <1>2, StorageAssumption DEF StorageAssumption
  <1>5. /\ undo \in [Block -> Log \cup {None}] /\ stored \in [Block -> BOOLEAN]
        /\ height \in [0 .. MaxHeight -> Block \cup {None}] /\ tip \in Block \cup {None}
    BY DEF Inv, TypeOK
  <1>6. UNCHANGED <<work, up, faults>>
    BY DEF Commit
  <1>16. /\ k \in Nat /\ n \in Nat /\ k >= 1 /\ k <= 2 * n + 5
         /\ th[t].done + 2 = k + 1 /\ th[t].done + 1 = k
    <2>1. k \in 1 .. 2 * n + 5 /\ th[t].done \in Nat /\ n \in Nat
      BY <1>1, <1>2, ZenonT(40)
    <2> HIDE DEF n, b
    <2> QED BY <2>1
  <1> HIDE DEF b, k, n
  <1>7. undo' \in [Block -> Log \cup {None}] /\ \A x \in Block : undo[x] # None => undo'[x] # None
    BY <1>1, <1>2, <1>4, <1>5, ZenonT(40)
  <1>8. stored' \in [Block -> BOOLEAN] /\ \A x \in Block : stored[x] => stored'[x]
    BY <1>1, <1>5
  <1>9. height' \in [0 .. MaxHeight -> Block \cup {None}] /\ tip' \in Block \cup {None}
    BY <1>1, <1>5, Zenon
  <1>10. (k >= 1 => undo'[b] # None) /\ (k >= 2 => stored'[b])
    <2>1. undo'[b] # None
      <3>1. CASE k = 1
        BY <3>1, <1>1, <1>4, <1>5
      <3>2. CASE k # 1
        <4>1. k > 1
          BY <3>2, <1>16
        <4> QED BY <4>1, <1>1, <1>3, <1>7, Zenon
      <3> QED BY <3>1, <3>2
    <2>2. ASSUME k >= 2 PROVE stored'[b]
      <3>1. CASE k = 2
        BY <3>1, <1>1, <1>5
      <3>2. CASE k # 2
        <4>1. k > 2
          BY <3>2, <2>2, <1>16
        <4> QED BY <4>1, <1>1, <1>3, <1>8, Zenon
      <3> QED BY <3>1, <3>2
    <2> QED BY <2>1, <2>2
  <1>11. StoreClosed'
    <2>1. tip' # None => stored'[tip']
      <3>1. CASE k = 2 * n + 5
        <4>1. k >= 2
          BY <3>1, <1>2, ApplyPositions, ZenonT(40)
        <4> QED BY <4>1, <3>1, <1>1, <1>10, ZenonT(40)
      <3>2. CASE k # 2 * n + 5
        BY <3>2, <1>1, <1>5, <1>8, Zenon DEF Inv, StoreClosed
      <3> QED BY <3>1, <3>2, ZenonT(40)
    <2>2. ASSUME NEW h \in 0 .. MaxHeight, height'[h] # None
          PROVE  stored'[height'[h]] /\ HeightOf(height'[h]) = h
      <3>1. CASE k = 3 /\ h = HeightOf(b)
        <4>1. height'[h] = b
          BY <3>1, <1>1, <1>5
        <4> QED BY <4>1, <3>1, <1>10, SMTT(40)
      <3>2. CASE ~(k = 3 /\ h = HeightOf(b))
        <4>1. height'[h] = height[h] /\ height[h] \in Block
          BY <3>2, <2>2, <1>1, <1>5, Zenon
        <4> QED BY <4>1, <2>2, <1>8, ZenonT(40) DEF Inv, StoreClosed
      <3> QED BY <3>1, <3>2
    <2>3. ASSUME NEW x \in Block, stored'[x]
          PROVE  /\ undo'[x] # None
                 /\ HeightOf(x) > 0 => Header[x].prev # None /\ stored'[Header[x].prev]
      <3>1. Header[x].prev \in Block \cup {None}
        BY BlockType
      <3>2. CASE k = 2 /\ x = b
        BY <3>1, <3>2, <1>3, <1>8, <1>10, SMTT(40)
      <3>3. CASE ~(k = 2 /\ x = b)
        <4>1. stored[x]
          BY <3>3, <2>3, <1>1, <1>5, ZenonT(40)
        <4>2. undo[x] # None /\ (HeightOf(x) > 0 => Header[x].prev # None /\ stored[Header[x].prev])
          BY <4>1 DEF Inv, StoreClosed
        <4> QED BY <4>2, <3>1, <1>7, <1>8, ZenonT(40)
      <3> QED BY <3>2, <3>3
    <2> QED BY <2>1, <2>2, <2>3 DEF StoreClosed
  <1>12. th' = [th EXCEPT ![t] = th'[t]] /\ th'[t] \in Call /\ Consistent(th'[t], stored', undo')
    <2>1. th[t].done + 2 \notin DOMAIN BatchOf(t) <=> k = 2 * n + 5
      <3>1. DOMAIN BatchOf(t) = 1 .. 2 * n + 5
        BY DEF BatchOf, ApplyBatch, b, n
      <3>2. k + 1 \notin 1 .. 2 * n + 5 <=> k = 2 * n + 5
        BY <1>16
      <3> QED BY <3>1, <3>2, <1>16
    <2>2. Consistent(th[t], stored', undo')
      BY <1>2, <1>7, <1>8, ConsistentMonotone
    <2>3. CASE k = 2 * n + 5
      <3> DEFINE c == [th[t] EXCEPT !.pc = "work", !.block = None, !.log = None, !.done = 0]
      <3>1. th' = [th EXCEPT ![t] = c] /\ th'[t] = c
        BY <2>1, <2>3, ZenonT(40) DEF Commit, Inv, TypeOK
      <3>2. c \in Call
        BY <1>2, Zenon DEF Call
      <3>3. /\ c.pc = "work" /\ c.side = th[t].side /\ c.gain = th[t].gain /\ c.done = 0
            /\ c.left = th[t].left /\ c.kind = th[t].kind
        BY <1>2 DEF Call
      <3>4. stored'[c.side[c.left]]
        <4>1. k >= 2
          BY <2>3, <1>16
        <4> QED BY <4>1, <3>3, <1>1, <1>10, ZenonT(40)
      <3> HIDE DEF c
      <3>5. Consistent(c, stored', undo')
        BY <2>2, <3>3, <3>4, ZenonT(40) DEF Consistent
      <3> QED BY <3>1, <3>2, <3>5, Zenon
    <2>4. CASE k # 2 * n + 5
      <3> DEFINE c == [th[t] EXCEPT !.done = k]
      <3>1. th' = [th EXCEPT ![t] = c] /\ th'[t] = c
        BY <2>1, <2>4 DEF Commit, Inv, TypeOK, k
      <3>2. c \in Call
        <4>1. k \in Nat /\ th[t] \in Call
          BY <1>2, <1>16
        <4> QED BY <4>1, ZenonT(40) DEF Call
      <3>3. /\ c.pc = "applying" /\ c.side = th[t].side /\ c.gain = th[t].gain /\ c.done = k
            /\ c.left = th[t].left /\ c.kind = th[t].kind /\ c.block = b /\ c.log = th[t].log
        BY <1>2 DEF Call, b
      <3>4. k < 2 * n + 5
        BY <2>4, <1>16
      <3> HIDE DEF c
      <3>5. Consistent(c, stored', undo')
        BY <2>2, <3>3, <3>4, <1>1, <1>10, ZenonT(40) DEF Consistent, n
      <3> QED BY <3>1, <3>2, <3>5, Zenon
    <2> QED BY <2>3, <2>4
  <1>13. th' \in [Thread -> Call] /\ CallsConsistent'
    BY <1>7, <1>8, <1>12, OthersKept
  <1>14. TypeOK'
    BY <1>1, <1>6, <1>7, <1>8, <1>9, <1>13, Zenon DEF Inv, TypeOK
  <1>15. WorkNeverOverstated'
    BY <1>6 DEF Inv, WorkNeverOverstated
  <1> QED BY <1>11, <1>13, <1>14, <1>15 DEF Inv

\* A chunk of a DisconnectTip batch keeps the invariant: the new tip is the
\* parent of a stored block.
LEMMA DisconnectingInv ==
  ASSUME Inv, NEW t \in Thread, Commit(t), th[t].pc = "disconnecting"
  PROVE  Inv'
  <1> DEFINE b == th[t].block
             k == th[t].done + 1
             n == Len(Body[b])
  <1>1. /\ b \in Block /\ k \in 1 .. n + 2
        /\ undo' = undo /\ stored' = stored /\ height' = height /\ txs' = txs
        /\ utxo' \in Log
        /\ tip' = IF k = n + 2 THEN IF HeightOf(b) = 0 THEN None ELSE Header[b].prev ELSE tip
    BY DisconnectCommit
  <1>2. /\ Consistent(th[t], stored, undo) /\ th[t].done \in Nat /\ n \in Nat
        /\ th[t] \in Call /\ stored[b] /\ HeightOf(b) \in Nat /\ Header[b].prev \in Block \cup {None}
    <2>1. Consistent(th[t], stored, undo) /\ th[t].done \in Nat /\ th[t] \in Call
      BY CallType, Zenon
    <2> QED BY <1>1, <2>1, BlockType, Zenon DEF Consistent
  <1>3. UNCHANGED <<work, up, faults>>
    BY DEF Commit
  <1>4. tip' \in Block \cup {None} /\ (tip' # None => stored[tip'])
    <2>1. tip \in Block \cup {None} /\ (tip # None => stored[tip])
      BY DEF Inv, TypeOK, StoreClosed
    <2>2. HeightOf(b) # 0 => Header[b].prev # None /\ stored[Header[b].prev]
      <3>1. HeightOf(b) > 0 => Header[b].prev # None /\ stored[Header[b].prev]
        BY <1>1, <1>2, Zenon DEF Inv, StoreClosed
      <3>2. HeightOf(b) # 0 => HeightOf(b) > 0
        <4>1. HeightOf(b) \in Nat
          BY <1>2, ZenonT(40)
        <4> HIDE DEF b
        <4> QED BY <4>1
      <3> QED BY <3>1, <3>2, Zenon
    <2> HIDE DEF b, k
    <2> QED BY <2>1, <2>2, <1>1, <1>2
  <1>5. StoreClosed'
    BY <1>1, <1>4 DEF Inv, StoreClosed
  <1>10. /\ k \in Nat /\ n \in Nat /\ k <= n + 2
         /\ th[t].done + 2 = k + 1 /\ th[t].done + 1 = k
    <2>1. k \in 1 .. n + 2 /\ th[t].done \in Nat /\ n \in Nat
      BY <1>1, <1>2, Zenon
    <2> HIDE DEF n, b
    <2> QED BY <2>1
  <1> HIDE DEF b, k, n
  <1>6. th' = [th EXCEPT ![t] = th'[t]] /\ th'[t] \in Call /\ Consistent(th'[t], stored, undo)
    <2>1. th[t].done + 2 \notin DOMAIN BatchOf(t) <=> k = n + 2
      <3>1. DOMAIN BatchOf(t) = 1 .. n + 2
        BY DEF BatchOf, DisconnectBatch, b, n
      <3>2. k + 1 \notin 1 .. n + 2 <=> k = n + 2
        BY <1>10
      <3> QED BY <3>1, <3>2, <1>10
    <2>2. CASE k = n + 2
      <3> DEFINE c == [th[t] EXCEPT !.pc = "rollback", !.block = None, !.log = None, !.done = 0]
      <3>1. th' = [th EXCEPT ![t] = c] /\ th'[t] = c
        BY <2>1, <2>2, ZenonT(40) DEF Commit, Inv, TypeOK
      <3>2. c \in Call
        BY <1>2, Zenon DEF Call
      <3>3. /\ c.pc = "rollback" /\ c.side = th[t].side /\ c.gain = th[t].gain /\ c.done = 0
            /\ c.left = th[t].left /\ c.kind = th[t].kind
        BY <1>2 DEF Call
      <3> HIDE DEF c
      <3>4. Consistent(c, stored, undo)
        BY <1>2, <3>3, ZenonT(40) DEF Consistent
      <3> QED BY <3>1, <3>2, <3>4, Zenon
    <2>3. CASE k # n + 2
      <3> DEFINE c == [th[t] EXCEPT !.done = k]
      <3>1. th' = [th EXCEPT ![t] = c] /\ th'[t] = c
        BY <2>1, <2>3 DEF Commit, Inv, TypeOK, k
      <3>2. c \in Call
        <4>1. k \in Nat /\ th[t] \in Call
          BY <1>2, <1>10
        <4> QED BY <4>1, ZenonT(40) DEF Call
      <3>3. /\ c.pc = "disconnecting" /\ c.side = th[t].side /\ c.gain = th[t].gain /\ c.done = k
            /\ c.left = th[t].left /\ c.kind = th[t].kind /\ c.block = b /\ c.log = th[t].log
        BY <1>2 DEF Call, b
      <3>4. k < n + 2
        BY <2>3, <1>10
      <3> HIDE DEF c
      <3>5. Consistent(c, stored, undo)
        BY <1>1, <1>2, <3>3, <3>4, Zenon DEF Consistent, n
      <3> QED BY <3>1, <3>2, <3>5, Zenon
    <2> QED BY <2>2, <2>3
  <1>7. th' \in [Thread -> Call] /\ CallsConsistent'
    BY <1>1, <1>6, OthersKept, ZenonT(40)
  <1>8. TypeOK'
    BY <1>1, <1>3, <1>4, <1>7 DEF Inv, TypeOK
  <1>9. WorkNeverOverstated'
    BY <1>3 DEF Inv, WorkNeverOverstated
  <1> QED BY <1>5, <1>7, <1>8, <1>9, Zenon DEF Inv
\* A step that records the work of one block and moves one call on.
LEMMA WorkMoves ==
  ASSUME Inv, NEW t \in Thread, NEW b \in Block, NEW w \in Nat, w <= ChainWork[b],
         work' = [work EXCEPT ![b] = w],
         UNCHANGED <<undo, stored, height, txs, utxo, tip, faults>>, up' \in BOOLEAN,
         th' = [th EXCEPT ![t] = th'[t]], th'[t] \in Call,
         Consistent(th'[t], stored, undo)
  PROVE  Inv'
  <1>1. th' \in [Thread -> Call] /\ CallsConsistent'
    BY OthersKept
  <1>2. work \in [Block -> Nat \cup {None}]
    BY DEF Inv, TypeOK
  <1>3. TypeOK'
    <2>1. work' \in [Block -> Nat \cup {None}]
      BY <1>2, ZenonT(40)
    <2> QED BY <2>1, <1>1 DEF Inv, TypeOK
  <1>4. StoreClosed'
    BY DEF Inv, StoreClosed
  <1>5. WorkNeverOverstated'
    <2> SUFFICES ASSUME NEW x \in Block, work'[x] # None
                 PROVE  work'[x] <= ChainWork[x]
      BY DEF WorkNeverOverstated
    <2>1. CASE x = b
      BY <2>1, <1>2
    <2>2. CASE x # b
      BY <2>2, <1>2 DEF Inv, WorkNeverOverstated
    <2> QED BY <2>1, <2>2
  <1> QED BY <1>1, <1>3, <1>4, <1>5 DEF Inv

\* Recording the work of a side block keeps the invariant.
LEMMA PutSideWorkInv ==
  ASSUME Inv, NEW t \in Thread, PutSideWork(t)
  PROVE  Inv'
  <1>1. th[t].pc = "side" /\ Consistent(th[t], stored, undo) /\ th[t].gain \in Nat
    BY CallType DEF PutSideWork, At
  <1>2. th[t].side[1] \in Block
    BY <1>1, CallType, ZenonT(40)
  <1>3. th[t].gain <= ChainWork[th[t].side[1]]
    BY <1>1, ZenonT(40) DEF Consistent
  <1>4. th' = [th EXCEPT ![t] = Idle] /\ th'[t] = Idle
    BY DEF PutSideWork, Return, Inv, TypeOK
  <1>5. /\ work' = [work EXCEPT ![th[t].side[1]] = th[t].gain]
        /\ UNCHANGED <<undo, stored, height, txs, utxo, tip, faults>> /\ up' \in BOOLEAN
    BY DEF PutSideWork, Inv, TypeOK
  <1> QED BY <1>1, <1>2, <1>3, <1>4, <1>5, IdleConsistent, WorkMoves, ZenonT(40)

\* PutTotalWork after ApplyBlock keeps the invariant.
LEMMA PutTotalWorkInv ==
  ASSUME Inv, NEW t \in Thread, PutTotalWork(t)
  PROVE  Inv'
  <1> DEFINE b == th[t].side[th[t].left]
             w == IF th[t].kind = "reorg" THEN WorkUpTo(b) ELSE th[t].gain
  <1>1. th[t].pc = "work" /\ Consistent(th[t], stored, undo) /\ th[t].gain \in Nat
    BY CallType DEF PutTotalWork, At
  <1>2. th[t].left \in DOMAIN th[t].side /\ th[t].left \in Nat
    BY <1>1, CallType, Zenon DEF Consistent
  <1>3. b \in Block
    BY <1>2, CallType, ZenonT(40)
  <1>4. w \in Nat /\ w <= ChainWork[b]
    <2>1. CASE th[t].kind = "reorg"
      BY <2>1, <1>3, WorkUpToBound, ZenonT(40)
    <2>2. CASE th[t].kind # "reorg"
      <3>1. th[t].left = 1 /\ th[t].gain <= ChainWork[th[t].side[1]]
        BY <2>2, <1>1, Zenon DEF Consistent
      <3> QED BY <3>1, <2>2, <1>1
    <2> QED BY <2>1, <2>2, ZenonT(40)
  <1>5. /\ work' = [work EXCEPT ![b] = w]
        /\ UNCHANGED <<undo, stored, height, txs, utxo, tip, faults>>
    BY DEF PutTotalWork
  <1>6. up' \in BOOLEAN
    BY DEF PutTotalWork, Inv, TypeOK
  <1>7. th' = [th EXCEPT ![t] = th'[t]] /\ th'[t] \in Call /\ Consistent(th'[t], stored, undo)
    <2>1. ASSUME Return(t) PROVE th' = [th EXCEPT ![t] = Idle] /\ th'[t] = Idle
      BY <2>1 DEF Return, Inv, TypeOK
    <2>2. ASSUME th[t].left > 1, th' = [th EXCEPT ![t].pc = "apply", ![t].left = @ - 1]
          PROVE  <1>7!:
      <3> DEFINE c == [th[t] EXCEPT !.pc = "apply", !.left = @ - 1]
      <3>1. th' = [th EXCEPT ![t] = c] /\ th'[t] = c
        BY <2>2, Zenon DEF Inv, TypeOK
      <3>2. c \in Call
        <4>1. th[t].left - 1 \in Nat /\ th[t] \in Call
          BY <2>2, <1>2, CallType
        <4> QED BY <4>1, Zenon DEF Call
      <3>3. /\ c.pc = "apply" /\ c.side = th[t].side /\ c.gain = th[t].gain /\ c.done = th[t].done
            /\ c.left = th[t].left - 1 /\ c.kind = th[t].kind
        BY CallType DEF Call
      <3>4. c.left \in DOMAIN c.side
        <4>1. th[t].side \in Seq(Block) /\ th[t].left \in DOMAIN th[t].side
          BY <1>2, CallType, ZenonT(40)
        <4>2. th[t].left - 1 \in DOMAIN th[t].side
          BY <4>1, <2>2, OneLower, ZenonT(40)
        <4> QED BY <4>2, <3>3, ZenonT(40)
      <3>5. c.kind = "reorg"
        BY <3>3, <2>2, <1>1 DEF Consistent
      <3> HIDE DEF c
      <3>6. Consistent(c, stored, undo)
        BY <1>1, <3>3, <3>4, <3>5, ZenonT(40) DEF Consistent
      <3> QED BY <3>1, <3>2, <3>6, Zenon
    <2>3. ASSUME Goto(t, "clean") PROVE <1>7!:
      <3> DEFINE c == [th[t] EXCEPT !.pc = "clean"]
      <3>1. th' = [th EXCEPT ![t] = c] /\ th'[t] = c
        BY <2>3 DEF Goto, Inv, TypeOK
      <3>2. c \in Call
        BY CallType DEF Call
      <3>3. /\ c.pc = "clean" /\ c.side = th[t].side /\ c.gain = th[t].gain /\ c.done = th[t].done
            /\ c.left = th[t].left
        BY CallType DEF Call
      <3> HIDE DEF c
      <3>4. Consistent(c, stored, undo)
        BY <1>1, <3>3, ZenonT(40) DEF Consistent
      <3> QED BY <3>1, <3>2, <3>4, Zenon
    <2> QED BY <2>1, <2>2, <2>3, IdleConsistent DEF PutTotalWork
  <1> HIDE DEF b, w
  <1> QED BY <1>3, <1>4, <1>5, <1>6, <1>7, WorkMoves, Zenon

\* RemoveMinedBlock keeps the invariant.
LEMMA CleanPoolInv ==
  ASSUME Inv, NEW t \in Thread, CleanPool(t)
  PROVE  Inv'
  <1>1. UNCHANGED tables /\ up' \in BOOLEAN /\ faults' \in 0 .. MaxFaults
    BY DEF CleanPool, Inv, TypeOK
  <1>2. th[t].pc = "clean" /\ Consistent(th[t], stored, undo)
    BY CallType DEF CleanPool, At
  <1>3. ASSUME th[t].left < Len(th[t].side), th' = [th EXCEPT ![t].left = @ + 1]
        PROVE  Inv'
    <2> DEFINE c == [th[t] EXCEPT !.left = @ + 1]
    <2>1. th' = [th EXCEPT ![t] = c] /\ th'[t] = c
      BY <1>3 DEF Inv, TypeOK
    <2>2. c \in Call
      <3>1. th[t] \in Call /\ th[t].left + 1 \in Nat
        <4>1. th[t] \in Call /\ th[t].left \in Nat
          BY CallType, Zenon
        <4> QED BY <4>1
      <3> QED BY <3>1, ZenonT(40) DEF Call
    <2>3. /\ c.pc = "clean" /\ c.side = th[t].side /\ c.gain = th[t].gain /\ c.done = th[t].done
          /\ c.left = th[t].left + 1
      BY <1>2, CallType DEF Call
    <2>4. c.left \in DOMAIN c.side
      BY <2>3, <1>3, CallType
    <2> HIDE DEF c
    <2>5. Consistent(c, stored, undo)
      BY <1>2, <2>3, <2>4, Zenon DEF Consistent
    <2> QED BY <1>1, <2>1, <2>2, <2>5, CallMoves, Zenon
  <1>4. Return(t) => Inv'
    BY <1>1, ReturnMoves
  <1> QED BY <1>3, <1>4 DEF CleanPool

\* A failed write keeps the invariant.
LEMMA WriteErrorInv ==
  ASSUME Inv, NEW t \in Thread, WriteError(t)
  PROVE  Inv'
  <1>1. UNCHANGED tables /\ Return(t)
    BY DEF WriteError
  <1>2. up' \in BOOLEAN
    BY DEF WriteError, Inv, TypeOK
  <1>3. faults' \in 0 .. MaxFaults
    <2>1. faults < MaxFaults /\ faults' = faults + 1
      BY Zenon DEF WriteError
    <2>2. faults \in 0 .. MaxFaults /\ MaxFaults \in Nat
      BY ChainAssumption, Zenon DEF Inv, TypeOK, ChainAssumption
    <2> QED BY <2>1, <2>2
  <1> QED BY <1>1, <1>2, <1>3, ReturnMoves

\* A step that changes no table and leaves each call as it was or idle.
LEMMA QuietStep ==
  ASSUME Inv, UNCHANGED tables, up' \in BOOLEAN, faults' \in 0 .. MaxFaults,
         th' = th \/ th' = [t \in Thread |-> Idle]
  PROVE  Inv'
  <1>1. th' \in [Thread -> Call]
    BY IdleConsistent DEF Inv, TypeOK
  <1>2. TypeOK'
    BY <1>1 DEF Inv, TypeOK, tables
  <1>3. StoreClosed' /\ WorkNeverOverstated'
    BY DEF Inv, StoreClosed, WorkNeverOverstated, tables
  <1>4. CallsConsistent'
    BY IdleConsistent DEF Inv, CallsConsistent, tables
  <1> QED BY <1>2, <1>3, <1>4 DEF Inv

-----------------------------------------------------------------------------
(* The theorems *)

\* The empty database satisfies the invariant.
LEMMA InitInv == Init => Inv
  <1> SUFFICES ASSUME Init PROVE Inv
    OBVIOUS
  <1>1. TypeOK
    <2>1. /\ undo \in [Block -> Log \cup {None}]
          /\ work \in [Block -> Nat \cup {None}]
          /\ tip \in Block \cup {None}
          /\ utxo \in Log
          /\ height \in [0 .. MaxHeight -> Block \cup {None}]
      BY DEF Init, Log
    <2>2. stored \in [Block -> BOOLEAN] /\ txs \in [Tx -> BOOLEAN]
      BY DEF Init
    <2>3. up \in BOOLEAN
      BY Zenon DEF Init
    <2>4. faults \in 0 .. MaxFaults
      BY ChainAssumption DEF Init, ChainAssumption
    <2>5. th \in [Thread -> Call]
      BY IdleConsistent DEF Init
    <2> QED BY <2>1, <2>2, <2>3, <2>4, <2>5 DEF TypeOK
  <1>2. StoreClosed /\ WorkNeverOverstated
    BY DEF Init, StoreClosed, WorkNeverOverstated
  <1>3. CallsConsistent
    BY IdleConsistent DEF Init, CallsConsistent
  <1> QED BY <1>1, <1>2, <1>3 DEF Inv

\* Every step keeps the invariant.
LEMMA NextInv == Inv /\ [Next]_vars => Inv'
  <1> SUFFICES ASSUME Inv, [Next]_vars PROVE Inv'
    OBVIOUS
  <1>1. CASE Resume
    <2>1. UNCHANGED tables /\ faults' = faults /\ th' = th /\ up' = TRUE
      BY <1>1 DEF Resume
    <2> QED BY <2>1, QuietStep DEF Inv, TypeOK
  <1>2. ASSUME NEW t \in Thread, CreateGenesis(t) PROVE Inv'
    BY <1>2, CreateGenesisInv
  <1>3. ASSUME NEW t \in Thread, Step(t) PROVE Inv'
    <2>1. ASSUME Commit(t) PROVE Inv'
      <3>1. th[t].pc = "applying" \/ th[t].pc = "disconnecting"
        BY <2>1 DEF Commit, At
      <3> QED BY <3>1, <2>1, ApplyingInv, DisconnectingInv
    <2> QED BY <1>3, <2>1, CheckTxsInv, WeighInv, ForkChoiceInv, PutSideWorkInv, CollectInv,
               RollbackInv, DisconnectTipInv, ApplyBlockInv, PutTotalWorkInv, CleanPoolInv, ZenonT(40)
            DEF Step
  <1>4. ASSUME NEW t \in Thread, WriteError(t) PROVE Inv'
    BY <1>4, WriteErrorInv
  <1>5. ASSUME NEW t \in Thread, NEW b \in Block, Submit(t, b) PROVE Inv'
    BY <1>5, SubmitInv, ZenonT(40)
  <1>6. ASSUME NEW x \in Tx, AddTx(x) PROVE Inv'
    <2>1. UNCHANGED tables /\ faults' = faults /\ th' = th /\ up' = up
      BY <1>6 DEF AddTx
    <2> QED BY <2>1, QuietStep DEF Inv, TypeOK
  <1>7. CASE Crash
    <2>1. UNCHANGED tables /\ up' = FALSE /\ th' = [t \in Thread |-> Idle]
      BY <1>7 DEF Crash
    <2>2. faults' \in 0 .. MaxFaults
      <3>1. faults < MaxFaults /\ faults' = faults + 1
        BY <1>7, Zenon DEF Crash
      <3>2. faults \in 0 .. MaxFaults /\ MaxFaults \in Nat
        BY ChainAssumption, ZenonT(40) DEF Inv, TypeOK, ChainAssumption
      <3> QED BY <3>1, <3>2
    <2> QED BY <2>1, <2>2, QuietStep, Zenon
  <1>8. CASE UNCHANGED vars
    <2>1. UNCHANGED tables /\ faults' = faults /\ th' = th /\ up' = up
      BY <1>8 DEF vars
    <2> QED BY <2>1, QuietStep DEF Inv, TypeOK
  <1> QED BY <1>1, <1>2, <1>3, <1>4, <1>5, <1>6, <1>7, <1>8 DEF Next

\* Every reachable state satisfies the inductive invariant.
THEOREM Invariance == Spec => []Inv
  BY InitInv, NextInv, PTL DEF Spec

\* The variables of the node keep their types.
THEOREM TypeCorrect == Spec => []TypeOK
  <1>1. Inv => TypeOK
    BY DEF Inv
  <1> QED BY Invariance, <1>1, PTL

\* Whatever calls run concurrently and wherever a write fails or the process
\* dies, also inside a batch, no reference in the database dangles: TipBlock,
\* HeaderByHeight and DisconnectTip find what the tip, the height index and a
\* stored block point to.
THEOREM StoreStaysClosed == Spec => []StoreClosed
  <1>1. Inv => StoreClosed
    BY DEF Inv
  <1> QED BY Invariance, <1>1, PTL

\* PutTotalWork never records more work than the branch of a block contains.
THEOREM WorkNeverInvented == Spec => []WorkNeverOverstated
  <1>1. Inv => WorkNeverOverstated
    BY DEF Inv
  <1> QED BY Invariance, <1>1, PTL

\* What a call of ValidateAndApplyBlock relies on when it writes stays true
\* without a lock.
THEOREM CallsStayConsistent == Spec => []CallsConsistent
  <1>1. Inv => CallsConsistent
    BY DEF Inv
  <1> QED BY Invariance, <1>1, PTL

-----------------------------------------------------------------------------
(* The batch that connects a block *)

\* Chunk k of the batch that connects b writes or deletes output o.
Touches(b, k, o) ==
    \E i \in DOMAIN Body[b] :
        \/ k = 2 * i + 3 /\ Spends(Body[b][i], o)
        \/ k = 2 * i + 4 /\ o \in CreatedBy(Body[b][i])

\* It sets it to v.
Sets(b, k, o, v) ==
    \E i \in DOMAIN Body[b] :
        \/ k = 2 * i + 3 /\ Spends(Body[b][i], o) /\ v = None
        \/ k = 2 * i + 4 /\ o \in CreatedBy(Body[b][i]) /\ v = NewCoin(b, i, o)

\* now is what the first d chunks of the batch that connects b make of coins: the
\* last chunk that touches an output decides.
PartWay(coins, b, d, now) ==
    \A o \in Outpoint :
        \/ now[o] = coins[o] /\ \A k \in 1 .. d : ~Touches(b, k, o)
        \/ \E k \in 1 .. d : Sets(b, k, o, now[o]) /\ \A j \in k + 1 .. d : ~Touches(b, j, o)

\* The places of a transaction's two chunks in the batch.
LEMMA ChunkNumbers ==
    ASSUME NEW n \in Nat, NEW i \in 1 .. n
    PROVE  /\ (2 * i + 3) % 2 = 1 /\ ((2 * i + 3) - 3) \div 2 = i
           /\ (2 * i + 4) % 2 # 1 /\ ((2 * i + 4) - 3) \div 2 = i
           /\ \A k \in {2 * i + 3, 2 * i + 4} :
                k \in 1 .. 2 * n + 5 /\ k # 1 /\ k # 2 /\ k # 3 /\ k # 4 /\ k # 2 * n + 5
OBVIOUS

\* Every place in the middle of the batch is one of a transaction's.
LEMMA ChunkNumbered ==
    ASSUME NEW n \in Nat, NEW k \in 5 .. 2 * n + 4
    PROVE  \E i \in 1 .. n : k = 2 * i + 3 \/ k = 2 * i + 4
<1>1. (k - 3) \div 2 \in 1 .. n
  OBVIOUS
<1>2. k = 2 * ((k - 3) \div 2) + 3 \/ k = 2 * ((k - 3) \div 2) + 4
  OBVIOUS
<1>3. QED
  BY <1>1, <1>2, Zenon

\* The two chunks of a transaction.
LEMMA TxChunks ==
    ASSUME NEW b \in Block, NEW log, NEW i \in DOMAIN Body[b]
    PROVE  /\ ApplyBatch(b, log)[2 * i + 3] = Spend(b, i)
           /\ ApplyBatch(b, log)[2 * i + 4] = Create(b, i)
<1> DEFINE n == Len(Body[b])
<1>1. n \in Nat /\ i \in 1 .. n
  BY BlockType
<1>2. ASSUME NEW k \in {2 * i + 3, 2 * i + 4}
      PROVE  ApplyBatch(b, log)[k] =
               IF k % 2 = 1 THEN Spend(b, (k - 3) \div 2) ELSE Create(b, (k - 3) \div 2)
  <2>1. k \in 1 .. 2 * n + 5 /\ k # 1 /\ k # 2 /\ k # 3 /\ k # 4 /\ k # 2 * n + 5
    BY <1>1, ChunkNumbers, Zenon
  <2>2. QED
    BY <2>1, Zenon DEF ApplyBatch
<1> HIDE DEF n
<1>3. /\ (2 * i + 3) % 2 = 1 /\ ((2 * i + 3) - 3) \div 2 = i
      /\ (2 * i + 4) % 2 # 1 /\ ((2 * i + 4) - 3) \div 2 = i
  BY <1>1, ChunkNumbers, Zenon
<1>4. QED
  BY <1>2, <1>3, Zenon

\* The chunk that spends for a transaction touches the outputs it spends.
LEMMA SpendTouches ==
    ASSUME NEW b \in Block, NEW i \in DOMAIN Body[b], NEW o
    PROVE  /\ Touches(b, 2 * i + 3, o) <=> Spends(Body[b][i], o)
           /\ \A v : Sets(b, 2 * i + 3, o, v) <=> Spends(Body[b][i], o) /\ v = None
<1>1. DOMAIN Body[b] = 1 .. Len(Body[b]) /\ Len(Body[b]) \in Nat
  BY BlockType
<1>2. \A j \in DOMAIN Body[b] : (2 * i + 3 = 2 * j + 3 => j = i) /\ 2 * i + 3 # 2 * j + 4
  BY <1>1
<1>3. QED
  BY <1>2, Zenon DEF Touches, Sets

\* The chunk that creates its outputs touches those.
LEMMA CreateTouches ==
    ASSUME NEW b \in Block, NEW i \in DOMAIN Body[b], NEW o
    PROVE  /\ Touches(b, 2 * i + 4, o) <=> o \in CreatedBy(Body[b][i])
           /\ \A v : Sets(b, 2 * i + 4, o, v) <=> o \in CreatedBy(Body[b][i]) /\ v = NewCoin(b, i, o)
<1>1. DOMAIN Body[b] = 1 .. Len(Body[b]) /\ Len(Body[b]) \in Nat
  BY BlockType
<1>2. \A j \in DOMAIN Body[b] : (2 * i + 4 = 2 * j + 4 => j = i) /\ 2 * i + 4 # 2 * j + 3
  BY <1>1
<1>3. QED
  BY <1>2, Zenon DEF Touches, Sets

\* Only those chunks touch an output.
LEMMA TouchingChunk ==
    ASSUME NEW b \in Block, NEW k, NEW o, Touches(b, k, o)
    PROVE  k \in 5 .. 2 * Len(Body[b]) + 4
<1>1. DOMAIN Body[b] = 1 .. Len(Body[b]) /\ Len(Body[b]) \in Nat
  BY BlockType
<1>2. PICK i \in DOMAIN Body[b] : k = 2 * i + 3 \/ k = 2 * i + 4
  BY Zenon DEF Touches
<1>3. QED
  BY <1>1, <1>2

\* What a chunk of the batch makes of the coins.
LEMMA CoinChunk ==
    ASSUME Inv, NEW b \in Block, NEW log \in Log, NEW k \in 1 .. 2 * Len(Body[b]) + 5,
           NEW o \in Outpoint
    PROVE  LET after == Execute(utxo, "utxo", ApplyBatch(b, log)[k])
           IN  IF Touches(b, k, o) THEN Sets(b, k, o, after[o]) ELSE after[o] = utxo[o]
<1> DEFINE c == ApplyBatch(b, log)[k]
           after == Execute(utxo, "utxo", c)
<1>1. utxo \in [Outpoint -> Coin \cup {None}]
  BY Zenon DEF Inv, TypeOK, Log
<1>2. after[o] = IF c.table = "utxo" /\ o \in DOMAIN c.put THEN c.put[o] ELSE utxo[o]
  BY <1>1, Zenon DEF Execute
<1>3. CASE Touches(b, k, o)
  <2>1. PICK i \in DOMAIN Body[b] : k = 2 * i + 3 \/ k = 2 * i + 4
    BY <1>3, Zenon DEF Touches
  <2>2. CASE k = 2 * i + 3
    <3>1. c = Spend(b, i)
      BY <2>2, TxChunks, Zenon
    <3>2. Spends(Body[b][i], o)
      BY <1>3, <2>2, SpendTouches, Zenon
    <3> HIDE DEF c
    <3>3. c.table = "utxo" /\ o \in DOMAIN c.put /\ c.put[o] = None
      BY <3>1, <3>2, Zenon DEF Spend, Chunk, Spends
    <3>4. after[o] = None
      BY <1>2, <3>3, Zenon
    <3> HIDE DEF after
    <3>5. Sets(b, k, o, after[o])
      BY <2>2, <3>2, <3>4, SpendTouches, Zenon
    <3>6. QED
      BY <1>3, <3>5, Zenon DEF after, c
  <2>3. CASE k = 2 * i + 4
    <3>1. c = Create(b, i)
      BY <2>3, TxChunks, Zenon
    <3>2. o \in CreatedBy(Body[b][i])
      BY <1>3, <2>3, CreateTouches, Zenon
    <3> HIDE DEF c
    <3>3. c.table = "utxo" /\ o \in DOMAIN c.put /\ c.put[o] = NewCoin(b, i, o)
      BY <3>1, <3>2, Zenon DEF Create, Chunk
    <3>4. after[o] = NewCoin(b, i, o)
      BY <1>2, <3>3, Zenon
    <3> HIDE DEF after
    <3>5. Sets(b, k, o, after[o])
      BY <2>3, <3>2, <3>4, CreateTouches, Zenon
    <3>6. QED
      BY <1>3, <3>5, Zenon DEF after, c
  <2>4. QED
    BY <2>1, <2>2, <2>3, Zenon
<1>4. CASE ~Touches(b, k, o)
  <2>1. Len(Body[b]) \in Nat /\ DOMAIN Body[b] = 1 .. Len(Body[b])
    BY BlockType
  <2>2. ~(c.table = "utxo" /\ o \in DOMAIN c.put)
    <3>1. CASE k \in 5 .. 2 * Len(Body[b]) + 4
      <4>1. PICK i \in DOMAIN Body[b] : k = 2 * i + 3 \/ k = 2 * i + 4
        BY <2>1, <3>1, ChunkNumbered, Zenon
      <4>2. CASE k = 2 * i + 3
        <5>1. c = Spend(b, i)
          BY <4>2, TxChunks, Zenon
        <5>2. ~Spends(Body[b][i], o)
          BY <1>4, <4>2, SpendTouches, Zenon
        <5> HIDE DEF c
        <5>3. QED
          BY <5>1, <5>2, Zenon DEF Spend, Chunk, Spends
      <4>3. CASE k = 2 * i + 4
        <5>1. c = Create(b, i)
          BY <4>3, TxChunks, Zenon
        <5>2. o \notin CreatedBy(Body[b][i])
          BY <1>4, <4>3, CreateTouches, Zenon
        <5> HIDE DEF c
        <5>3. QED
          BY <5>1, <5>2, Zenon DEF Create, Chunk
      <4>4. QED
        BY <4>1, <4>2, <4>3, Zenon
    <3>2. CASE k \notin 5 .. 2 * Len(Body[b]) + 4
      <4>1. k = 1 \/ k = 2 \/ k = 3 \/ k = 4 \/ k = 2 * Len(Body[b]) + 5
        BY <2>1, <3>2
      <4>2. ChunkOfApply(b, log, k, c)
        BY ApplyChunk, Zenon
      <4> HIDE DEF c
      <4>3. QED
        BY <4>1, <4>2, Zenon DEF ChunkOfApply
    <3>3. QED
      BY <3>1, <3>2, Zenon
  <2>3. after[o] = utxo[o]
    BY <1>2, <2>2, Zenon
  <2>4. QED
    BY <1>4, <2>3, Zenon
<1>5. QED
  BY <1>3, <1>4, Zenon

\* Nothing has been written yet.
LEMMA PartWayStart ==
    ASSUME NEW coins, NEW b
    PROVE  PartWay(coins, b, 0, coins)
<1>1. 1 .. 0 = {}
  OBVIOUS
<1>2. QED
  BY <1>1, Zenon DEF PartWay

\* One more chunk.
LEMMA PartWayNext ==
    ASSUME NEW coins, NEW b, NEW d \in Nat, NEW now, NEW next, PartWay(coins, b, d, now),
           \A o \in Outpoint : IF Touches(b, d + 1, o) THEN Sets(b, d + 1, o, next[o])
                                                       ELSE next[o] = now[o]
    PROVE  PartWay(coins, b, d + 1, next)
<1> SUFFICES ASSUME NEW o \in Outpoint
             PROVE  \/ next[o] = coins[o] /\ \A k \in 1 .. d + 1 : ~Touches(b, k, o)
                    \/ \E k \in 1 .. d + 1 :
                         Sets(b, k, o, next[o]) /\ \A j \in k + 1 .. d + 1 : ~Touches(b, j, o)
  BY Zenon DEF PartWay
<1>1. CASE Touches(b, d + 1, o)
  <2>1. Sets(b, d + 1, o, next[o])
    BY <1>1, Zenon
  <2>2. d + 1 \in 1 .. d + 1 /\ (d + 1) + 1 .. d + 1 = {}
    OBVIOUS
  <2>3. QED
    BY <2>1, <2>2, Zenon
<1>2. CASE ~Touches(b, d + 1, o)
  <2>1. next[o] = now[o]
    BY <1>2, Zenon
  <2>2. CASE now[o] = coins[o] /\ \A k \in 1 .. d : ~Touches(b, k, o)
    <3>1. \A k \in 1 .. d + 1 : k \in 1 .. d \/ k = d + 1
      OBVIOUS
    <3>2. QED
      BY <1>2, <2>1, <2>2, <3>1, Zenon
  <2>3. CASE \E k \in 1 .. d : Sets(b, k, o, now[o]) /\ \A j \in k + 1 .. d : ~Touches(b, j, o)
    <3>1. PICK k \in 1 .. d : Sets(b, k, o, now[o]) /\ \A j \in k + 1 .. d : ~Touches(b, j, o)
      BY <2>3, Zenon
    <3>2. k \in 1 .. d + 1 /\ \A j \in k + 1 .. d + 1 : j \in k + 1 .. d \/ j = d + 1
      OBVIOUS
    <3>3. QED
      BY <1>2, <2>1, <3>1, <3>2, Zenon
  <2>4. QED
    BY <2>2, <2>3, Zenon DEF PartWay
<1>3. QED
  BY <1>1, <1>2, Zenon

\* The largest of a set of numbers.
LEMMA MaxIs ==
    ASSUME NEW S, S \subseteq Nat, NEW m \in S, \A x \in S : x <= m
    PROVE  Max(S) = m
<1>1. \A y \in S : m >= y
  BY Zenon
<1>2. \E x \in S : \A y \in S : x >= y
  BY <1>1, Zenon
<1>3. Max(S) \in S /\ \A y \in S : Max(S) >= y
  BY <1>2, Zenon DEF Max
<1>4. \A x \in S : x >= m => x = m
  OBVIOUS
<1>5. QED
  BY <1>3, <1>4, Zenon

\* Once all the chunks are written the coins are those after the block.
LEMMA PartWayDone ==
    ASSUME NEW coins, NEW b \in Block, NEW d \in Nat, d >= 2 * Len(Body[b]) + 4,
           NEW now \in Log, PartWay(coins, b, d, now)
    PROVE  now = Connect(coins, b)
<1> DEFINE Users(o) == {i \in DOMAIN Body[b] :
                          Spends(Body[b][i], o) \/ o \in CreatedBy(Body[b][i])}
           Result(o) == IF Users(o) = {} THEN coins[o]
                        ELSE IF o \in CreatedBy(Body[b][Max(Users(o))])
                             THEN NewCoin(b, Max(Users(o)), o) ELSE None
<1>1. DOMAIN Body[b] = 1 .. Len(Body[b]) /\ Len(Body[b]) \in Nat
  BY BlockType
<1>2. \A i \in DOMAIN Body[b] : i \in Nat /\ 2 * i + 3 \in 1 .. d /\ 2 * i + 4 \in 1 .. d
  BY <1>1
<1>3. ASSUME NEW o \in Outpoint
      PROVE  now[o] = Result(o)
  <2>1. CASE now[o] = coins[o] /\ \A k \in 1 .. d : ~Touches(b, k, o)
    <3>1. ASSUME NEW i \in DOMAIN Body[b]
          PROVE  ~Spends(Body[b][i], o) /\ o \notin CreatedBy(Body[b][i])
      <4>1. ~Touches(b, 2 * i + 3, o) /\ ~Touches(b, 2 * i + 4, o)
        BY <1>2, <2>1, Zenon
      <4>2. QED
        BY <4>1, SpendTouches, CreateTouches, Zenon
    <3>2. Users(o) = {}
      BY <3>1, Zenon
    <3>3. QED
      BY <2>1, <3>2, Zenon
  <2>2. CASE \E k \in 1 .. d : Sets(b, k, o, now[o]) /\ \A j \in k + 1 .. d : ~Touches(b, j, o)
    <3>1. PICK k \in 1 .. d : Sets(b, k, o, now[o]) /\ \A j \in k + 1 .. d : ~Touches(b, j, o)
      BY <2>2, Zenon
    <3>2. PICK i \in DOMAIN Body[b] :
            \/ k = 2 * i + 3 /\ Spends(Body[b][i], o) /\ now[o] = None
            \/ k = 2 * i + 4 /\ o \in CreatedBy(Body[b][i]) /\ now[o] = NewCoin(b, i, o)
      BY <3>1, Zenon DEF Sets
    <3>3. i \in Users(o)
      BY <3>2, Zenon
    <3>4. ASSUME NEW j \in Users(o)
          PROVE  j <= i
      <4>1. j \in DOMAIN Body[b] /\ (Spends(Body[b][j], o) \/ o \in CreatedBy(Body[b][j]))
        BY Zenon
      <4>2. Touches(b, 2 * j + 3, o) \/ Touches(b, 2 * j + 4, o)
        BY <4>1, SpendTouches, CreateTouches, Zenon
      <4>3. 2 * j + 3 \notin k + 1 .. d \/ 2 * j + 4 \notin k + 1 .. d
        BY <3>1, <4>2, Zenon
      <4>4. i \in Nat /\ j \in Nat /\ 2 * j + 3 <= d /\ 2 * j + 4 <= d
        BY <1>2, <4>1
      <4>5. k = 2 * i + 3 \/ k = 2 * i + 4
        BY <3>2, Zenon
      <4> HIDE DEF Users
      <4>6. QED
        BY <4>3, <4>4, <4>5
    <3>5. Max(Users(o)) = i
      <4>1. Users(o) \subseteq Nat
        BY <1>2, Zenon
      <4> HIDE DEF Users
      <4>2. QED
        BY <3>3, <3>4, <4>1, MaxIs, Zenon
    <3>6. CASE k = 2 * i + 4 /\ o \in CreatedBy(Body[b][i]) /\ now[o] = NewCoin(b, i, o)
      <4> HIDE DEF Users
      <4>1. QED
        BY <3>3, <3>5, <3>6, Zenon
    <3>7. CASE k = 2 * i + 3 /\ Spends(Body[b][i], o) /\ now[o] = None
      <4>1. 2 * i + 4 \in k + 1 .. d
        BY <1>2, <3>7
      <4>2. o \notin CreatedBy(Body[b][i])
        BY <3>1, <4>1, CreateTouches, Zenon
      <4> HIDE DEF Users
      <4>3. QED
        BY <3>3, <3>5, <3>7, <4>2, Zenon
    <3>8. QED
      BY <3>2, <3>6, <3>7, Zenon
  <2>3. QED
    BY <2>1, <2>2, Zenon DEF PartWay
<1>4. now = [o \in Outpoint |-> now[o]]
  BY Zenon DEF Log
<1>5. Connect(coins, b) = [o \in Outpoint |-> Result(o)]
  BY Zenon DEF Connect
<1> HIDE DEF Result
<1>6. QED
  BY <1>3, <1>4, <1>5, Zenon

-----------------------------------------------------------------------------
(* Calls one at a time: the hypotheses *)

\* One call at a time, and every write succeeds.
Serial == MaxFaults = 0 /\ \E t \in Thread : Thread = {t}

\* The only block of height 0 is the genesis block.  ValidateAndApplyBlock does not
\* compare the height-0 blocks it is given with the genesis block.
SoleGenesis == \A b \in Block : HeightOf(b) = 0 => b = Genesis

-----------------------------------------------------------------------------
(* The inductive invariant *)

\* The height index lists a branch of accepted headers from the genesis block to the
\* tip, which has the most work of them.
Linked ==
    tip # None =>
        /\ height[0] = Genesis /\ height[HeightOf(tip)] = tip
        /\ \A h \in 1 .. HeightOf(tip) :
            /\ height[h] # None /\ Header[height[h]].prev = height[h - 1]
            /\ Header[height[h]].bits = ExpectedBits(height[h - 1], height)
        /\ \A h \in 0 .. HeightOf(tip) : ChainWork[height[h]] <= ChainWork[tip]

\* Only the main chain is stored, and the block that is being written.
OneBranch ==
    \A b \in Block : stored[b] =>
        \/ tip # None /\ HeightOf(b) <= HeightOf(tip) /\ height[HeightOf(b)] = b
        \/ \E t \in Thread : th[t].pc = "applying" /\ th[t].block = b

\* The work of the main chain is recorded exactly, the tip's once PutTotalWork
\* has run.
WorkRecorded ==
    tip # None => \A h \in 0 .. HeightOf(tip) :
        \/ work[height[h]] = ChainWork[height[h]]
        \/ h = HeightOf(tip) /\ \E t \in Thread : th[t].pc = "work"

\* Every transaction of the main chain is indexed.
TxsIndexed ==
    tip # None => \A h \in 0 .. HeightOf(tip) :
        \A i \in DOMAIN Body[height[h]] : txs[Body[height[h]][i]]

\* b was found acceptable, and still is.
Follows(b) ==
    /\ ~stored[b] /\ HeightOf(b) > 0 /\ Header[b].prev # None /\ stored[Header[b].prev]
    /\ HeightOf(b) = HeightOf(Header[b].prev) + 1
    /\ Header[b].bits = ExpectedBits(Header[b].prev, height)

\* b goes on top of the tip, or is the genesis block of an empty chain.
OnTop(b, kind) ==
    \/ kind = "genesis" /\ b = Genesis /\ tip = None /\ ~up
    \/ /\ kind = "extend" /\ tip # None /\ up /\ Header[b].prev = tip
       /\ HeightOf(b) = HeightOf(tip) + 1
       /\ Header[b].bits = ExpectedBits(tip, height)

\* What a call knows.
CallKnows(c) ==
    /\ c.pc \in {"idle", "check", "weigh", "choose", "side", "apply", "applying", "work", "clean"}
    /\ c.pc # "idle" => Len(c.side) = 1
    /\ c.pc \in {"check", "weigh", "choose", "side"} => up /\ Follows(c.side[1])
    /\ c.pc \in {"choose", "side", "apply", "applying", "work"} => c.gain = ChainWork[c.side[1]]
    /\ c.pc \in {"apply", "applying"} => OnTop(c.side[1], c.kind)
    /\ c.pc = "apply" => ~stored[c.side[1]]
    /\ c.pc = "applying" =>
        /\ c.done < 2 => ~stored[c.block]
        /\ c.done >= 3 => height[HeightOf(c.block)] = c.block
        /\ c.done >= 4 => \A i \in DOMAIN Body[c.block] : txs[Body[c.block][i]]
    /\ c.pc = "work" => c.kind \in {"genesis", "extend"} /\ tip = c.side[1]
    /\ c.pc = "clean" => c.kind = "extend" /\ tip = c.side[1]

\* The process is up once the genesis block has been connected.
UpWithTip == up => tip # None

\* The inductive invariant, besides Inv.
SerialInv ==
    /\ Linked /\ OneBranch /\ WorkRecorded /\ TxsIndexed /\ UpWithTip
    /\ \A t \in Thread : CallKnows(th[t])

-----------------------------------------------------------------------------
(* The main chain *)

\* There is one thread.
LEMMA OneThread ==
    ASSUME Serial, NEW s \in Thread, NEW t \in Thread
    PROVE  s = t
BY DEF Serial

\* The blocks that the height index lists up to the tip.
LEMMA ChainBlock ==
    ASSUME Inv, Linked, tip # None, NEW h \in 0 .. HeightOf(tip)
    PROVE  /\ tip \in Block /\ HeightOf(tip) \in Nat /\ h \in 0 .. MaxHeight
           /\ height[h] \in Block /\ height[h] # None
           /\ stored[height[h]] /\ HeightOf(height[h]) = h
<1>1. tip \in Block /\ height \in [0 .. MaxHeight -> Block \cup {None}]
  BY Zenon DEF Inv, TypeOK
<1>2. HeightOf(tip) \in 0 .. MaxHeight /\ MaxHeight \in Nat
  BY <1>1, BlockType, LedgerAssumption, Zenon
<1>3. h \in 0 .. MaxHeight
  BY <1>2
<1>4. Genesis # None
  BY LedgerAssumption, Zenon
<1>5. height[h] # None
  <2>1. CASE h = 0
    BY <1>4, <2>1, Zenon DEF Linked
  <2>2. CASE h # 0
    <3>1. h \in 1 .. HeightOf(tip)
      BY <1>2, <2>2
    <3>2. QED
      BY <3>1, Zenon DEF Linked
  <2>3. QED
    BY <2>1, <2>2, Zenon
<1>6. height[h] \in Block
  BY <1>1, <1>3, <1>5, Zenon
<1>7. HeightOf(tip) \in Nat
  BY <1>1, BlockType, Zenon
<1>8. QED
  BY <1>1, <1>3, <1>5, <1>6, <1>7, Zenon DEF Inv, StoreClosed

\* HeaderByHeight finds what the height index lists.
LEMMA IndexIsHeight ==
    ASSUME Inv
    PROVE  HeaderIndex = height
<1>1. height \in [0 .. MaxHeight -> Block \cup {None}]
  BY Zenon DEF Inv, TypeOK
<1>2. \A h \in 0 .. MaxHeight : height[h] # None => stored[height[h]]
  BY Zenon DEF Inv, StoreClosed
<1>3. QED
  BY <1>1, <1>2, Zenon DEF HeaderIndex

\* A multiple of the window is not smaller than the window.
LEMMA WindowReached ==
    ASSUME NEW n \in Nat, NEW w \in Nat \ {0}, (n + 1) % w = 0
    PROVE  n + 1 - w \in 0 .. n
OBVIOUS

\* ExpectedBits looks at no entry above prev.
LEMMA ExpectedBitsStable ==
    ASSUME NEW prev \in Block, NEW index, NEW index2,
           \A h \in 0 .. HeightOf(prev) : index[h] = index2[h]
    PROVE  ExpectedBits(prev, index) = ExpectedBits(prev, index2)
<1>1. HeightOf(prev) \in Nat /\ DifficultyWindow \in Nat \ {0}
  BY BlockType, DifficultyAssumption, Zenon
<1>2. CASE ~AtWindowBoundary(prev)
  BY <1>2, Zenon DEF ExpectedBits
<1>3. CASE AtWindowBoundary(prev)
  <2>1. HeightOf(prev) + 1 - DifficultyWindow \in 0 .. HeightOf(prev)
    BY <1>1, <1>3, WindowReached, Zenon DEF AtWindowBoundary
  <2>2. index[HeightOf(prev) + 1 - DifficultyWindow] = index2[HeightOf(prev) + 1 - DifficultyWindow]
    BY <2>1, Zenon
  <2>3. QED
    BY <2>2, Zenon DEF ExpectedBits
<1>4. QED
  BY <1>2, <1>3, Zenon

\* The true work of a block that follows another one.
LEMMA WorkAdds ==
    ASSUME NEW b \in Block, HeightOf(b) > 0, Header[b].prev # None
    PROVE  /\ Header[b].prev \in Block /\ BlockWork(b) \in Nat
           /\ ChainWork[b] \in Nat /\ ChainWork[Header[b].prev] \in Nat
           /\ ChainWork[b] = BlockWork(b) + ChainWork[Header[b].prev]
BY BlockType, ChainAssumption, Zenon

\* A block beside the main chain competes with one of the same difficulty: it
\* never has more work than the tip.
LEMMA SiblingIsNotHeavier ==
    ASSUME Inv, Linked, tip # None, NEW b \in Block, Follows(b), Header[b].prev # tip,
           NEW k \in 0 .. HeightOf(tip), Header[b].prev = height[k]
    PROVE  ChainWork[b] <= ChainWork[tip]
<1>1. /\ tip \in Block /\ HeightOf(tip) \in Nat /\ height[k] \in Block /\ height[k] # None
      /\ HeightOf(height[k]) = k
  BY ChainBlock, Zenon
<1>2. k < HeightOf(tip)
  BY <1>1 DEF Linked
<1>3. k + 1 \in 1 .. HeightOf(tip) /\ k + 1 \in 0 .. HeightOf(tip) /\ (k + 1) - 1 = k
  BY <1>1, <1>2
<1> DEFINE m == height[k + 1]
<1>4. m \in Block /\ HeightOf(m) = k + 1
  BY <1>3, ChainBlock, Zenon
<1>5. Header[m].prev = height[k] /\ Header[m].bits = ExpectedBits(height[k], height)
  BY <1>3, Zenon DEF Linked
<1>6. ChainWork[m] <= ChainWork[tip]
  BY <1>3, Zenon DEF Linked
<1> HIDE DEF m
<1>7. BlockWork(b) = BlockWork(m)
  BY <1>5, Zenon DEF Follows, BlockWork
<1>8. ChainWork[b] = BlockWork(b) + ChainWork[height[k]]
  BY <1>1, WorkAdds, Zenon DEF Follows
<1>9. ChainWork[m] = BlockWork(m) + ChainWork[height[k]]
  <2>1. HeightOf(m) > 0
    BY <1>1, <1>3, <1>4
  <2>2. QED
    BY <1>1, <1>4, <1>5, <2>1, WorkAdds, Zenon
<1>10. QED
  BY <1>6, <1>7, <1>8, <1>9, Zenon

-----------------------------------------------------------------------------
(* Steps *)

\* A step that moves a call on and leaves the database alone.
LEMMA CallStep ==
    ASSUME Serial, SerialInv, NEW t \in Thread, th[t].pc \notin {"work", "applying"},
           UNCHANGED <<stored, height, txs, work, tip>>, up' => tip # None,
           CallKnows(th[t])'
    PROVE  SerialInv'
<1>1. \A s \in Thread : s = t
  BY OneThread, Zenon
<1>2. /\ Linked /\ OneBranch /\ WorkRecorded /\ TxsIndexed
  BY Zenon DEF SerialInv
<1>3. Linked' /\ TxsIndexed' /\ UpWithTip'
  BY <1>2, Zenon DEF Linked, TxsIndexed, UpWithTip, ExpectedBits
<1>4. OneBranch'
  BY <1>1, <1>2, Zenon DEF OneBranch
<1>5. WorkRecorded'
  BY <1>1, <1>2, Zenon DEF WorkRecorded
<1>6. \A s \in Thread : CallKnows(th[s])'
  BY <1>1, Zenon
<1>7. QED
  BY <1>3, <1>4, <1>5, <1>6, Zenon DEF SerialInv

\* A call that has returned knows nothing.
LEMMA IdleKnows ==
    ASSUME NEW t \in Thread, th'[t] = Idle
    PROVE  CallKnows(th[t])'
<1>1. th'[t].pc = "idle"
  BY IdleRests, Zenon
<1>2. QED
  BY <1>1, Zenon DEF CallKnows

\* A returning call.
LEMMA ReturnStep ==
    ASSUME Serial, Inv, SerialInv, NEW t \in Thread, Return(t), th[t].pc \notin {"work", "applying"},
           UNCHANGED <<stored, height, txs, work, tip, up>>
    PROVE  SerialInv'
<1>1. th'[t] = Idle
  BY Zenon DEF Return, Inv, TypeOK
<1>2. up' => tip # None
  BY Zenon DEF SerialInv, UpWithTip
<1>3. QED
  BY <1>1, <1>2, IdleKnows, CallStep, Zenon

\* A block that passes the checks on arrival follows a stored block.
LEMMA AcceptableFollows ==
    ASSUME SoleGenesis, Inv, SerialInv, up, NEW b \in Block, Acceptable(b)
    PROVE  Follows(b)
<1>1. tip # None /\ Linked
  BY Zenon DEF SerialInv, UpWithTip
<1>2. HeightOf(tip) \in Nat /\ HeightOf(b) \in Nat
  BY <1>1, BlockType, Zenon DEF Inv, TypeOK
<1>3. stored[Genesis]
  <2>1. 0 \in 0 .. HeightOf(tip)
    BY <1>2, AtMostItself, Zenon
  <2>2. QED
    BY <1>1, <2>1, ChainBlock, Zenon DEF Linked
<1>4. HeightOf(b) > 0
  <2>1. HeightOf(b) # 0
    BY <1>3, Zenon DEF SoleGenesis, Acceptable
  <2>2. QED
    BY <1>2, <2>1, NotZero, Zenon
<1>5. Header[b].prev # None /\ stored[Header[b].prev] /\ ~stored[b]
  BY <1>4, Zenon DEF Acceptable
<1>6. /\ HeightOf(b) = HeightOf(Header[b].prev) + 1
      /\ Header[b].bits = ExpectedBits(Header[b].prev, HeaderIndex)
  BY <1>4, <1>5, Zenon DEF Acceptable, HeaderAccepted, ValidHeader
<1>7. QED
  BY <1>4, <1>5, <1>6, IndexIsHeight, Zenon DEF Follows

\* The call begins.
LEMMA SubmitStep ==
    ASSUME Serial, SoleGenesis, Inv, SerialInv, NEW t \in Thread, NEW b \in Block, Submit(t, b)
    PROVE  SerialInv'
<1>1. /\ up /\ th[t].pc = "idle" /\ Acceptable(b) /\ UNCHANGED <<tables, up>>
      /\ th' = [th EXCEPT ![t] = [Idle EXCEPT !.pc = "check", !.side = <<b>>]]
  BY Zenon DEF Submit, At
<1>2. /\ th'[t].pc = "check" /\ th'[t].side = <<b>>
  BY <1>1, Zenon DEF Inv, TypeOK, Idle
<1>3. Follows(b)
  BY <1>1, AcceptableFollows, Zenon
<1>4. Follows(b)'
  BY <1>1, <1>3, Zenon DEF Follows, ExpectedBits, tables
<1>5. CallKnows(th[t])'
  BY <1>1, <1>2, <1>4, BranchOfOne, Zenon DEF CallKnows
<1>6. up' => tip # None
  BY <1>1, Zenon DEF SerialInv, UpWithTip
<1>7. QED
  BY <1>1, <1>5, <1>6, CallStep, Zenon DEF tables

\* What is known of a call that has begun and of its block.
LEMMA CallBlock ==
    ASSUME Inv, SerialInv, NEW t \in Thread, th[t].pc # "idle"
    PROVE  /\ th[t] \in Call /\ CallKnows(th[t]) /\ Len(th[t].side) = 1 /\ 1 \in DOMAIN th[t].side
           /\ DOMAIN th[t].side = {1} /\ th[t].side[1] \in Block
<1>1. th[t] \in Call /\ th[t].side \in Seq(Block) /\ CallKnows(th[t])
  BY CallType, Zenon DEF SerialInv
<1>2. Len(th[t].side) = 1
  BY <1>1, Zenon DEF CallKnows
<1>3. DOMAIN th[t].side = {1}
  BY <1>1, <1>2, OneBlock, Zenon
<1>4. QED
  BY <1>1, <1>2, <1>3, CallType, Zenon

\* The transactions of the block are checked.
LEMMA CheckTxsStep ==
    ASSUME Serial, Inv, SerialInv, NEW t \in Thread, CheckTxs(t)
    PROVE  SerialInv'
<1>1. th[t].pc = "check" /\ UNCHANGED <<tables, up>>
  BY Zenon DEF CheckTxs, At
<1>2. CASE Return(t)
  BY <1>1, <1>2, ReturnStep, Zenon DEF tables
<1>3. CASE Goto(t, "weigh")
  <2>1. th[t] \in Call /\ CallKnows(th[t]) /\ Len(th[t].side) = 1
    BY <1>1, CallBlock, Zenon
  <2>2. th'[t].pc = "weigh" /\ th'[t].side = th[t].side
    BY <1>3, <2>1, Zenon DEF Goto, Inv, TypeOK, Call
  <2>3. up /\ Follows(th[t].side[1])
    BY <1>1, <2>1, Zenon DEF CallKnows
  <2>4. CallKnows(th[t])'
    BY <1>1, <2>1, <2>2, <2>3, Zenon DEF CallKnows, Follows, ExpectedBits, tables
  <2>5. up' => tip # None
    BY <1>1, Zenon DEF SerialInv, UpWithTip
  <2>6. QED
    BY <1>1, <2>4, <2>5, CallStep, Zenon DEF tables
<1>4. QED
  BY <1>2, <1>3, Zenon DEF CheckTxs

\* A stored block is on the main chain while nothing is being written.
LEMMA StoredOnChain ==
    ASSUME Serial, Inv, SerialInv, NEW t \in Thread, th[t].pc # "applying",
           NEW b \in Block, stored[b]
    PROVE  tip # None /\ HeightOf(b) \in 0 .. HeightOf(tip) /\ height[HeightOf(b)] = b
<1>1. tip # None /\ HeightOf(b) <= HeightOf(tip) /\ height[HeightOf(b)] = b
  BY OneThread, Zenon DEF SerialInv, OneBranch
<1>2. HeightOf(b) \in Nat /\ HeightOf(tip) \in Nat
  BY <1>1, BlockType, Zenon DEF Inv, TypeOK
<1>3. QED
  BY <1>1, <1>2, AtMost, Zenon

\* WorkForBits plus the parent's record is the true work of the block.
LEMMA WeighStep ==
    ASSUME Serial, Inv, SerialInv, NEW t \in Thread, Weigh(t)
    PROVE  SerialInv'
<1> DEFINE b == th[t].side[1]
<1>1. /\ th[t].pc = "weigh" /\ UNCHANGED <<tables, up>>
      /\ th' = [th EXCEPT ![t].pc = "choose", ![t].gain = WorkUpTo(b)]
  BY Zenon DEF Weigh, At
<1>2. th[t] \in Call /\ CallKnows(th[t]) /\ Len(th[t].side) = 1 /\ b \in Block
  BY <1>1, CallBlock, Zenon
<1>3. up /\ Follows(b)
  BY <1>1, <1>2, Zenon DEF CallKnows
<1>4. th'[t].pc = "choose" /\ th'[t].side = th[t].side /\ th'[t].gain = WorkUpTo(b)
  BY <1>1, <1>2, Zenon DEF Inv, TypeOK, Call
<1>5. WorkUpTo(b) = ChainWork[b]
  <2> DEFINE p == Header[b].prev
  <2>1. p \in Block /\ p # None /\ stored[p] /\ HeightOf(b) > 0
    BY <1>2, <1>3, BlockType, Zenon DEF Follows
  <2>2. tip # None /\ HeightOf(p) \in 0 .. HeightOf(tip) /\ height[HeightOf(p)] = p
    BY <1>1, <2>1, StoredOnChain, Zenon
  <2> HIDE DEF p
  <2>3. work[p] = ChainWork[p]
    <3>1. \A s \in Thread : th[s].pc # "work"
      BY <1>1, OneThread, Zenon
    <3>2. WorkRecorded
      BY Zenon DEF SerialInv
    <3>3. QED
      BY <2>2, <3>1, <3>2, Zenon DEF WorkRecorded
  <2>4. ChainWork[p] \in Nat /\ None \notin Nat
    BY <2>1, ChainAssumption, LedgerAssumption, Zenon
  <2>5. work[p] # None
    BY <2>3, <2>4, Zenon
  <2>6. WorkUpTo(b) = BlockWork(b) + ChainWork[p]
    BY <2>1, <2>3, <2>5, Zenon DEF WorkUpTo, p
  <2>7. QED
    BY <1>2, <2>1, <2>6, WorkAdds, Zenon DEF p
<1>6. CallKnows(th[t])'
  BY <1>1, <1>2, <1>3, <1>4, <1>5, Zenon DEF CallKnows, Follows, ExpectedBits, tables
<1>7. up' => tip # None
  BY <1>1, Zenon DEF SerialInv, UpWithTip
<1>8. QED
  BY <1>1, <1>6, <1>7, CallStep, Zenon DEF tables

\* The fork choice: the block extends the tip, or it is not heavier.
LEMMA ForkChoiceStep ==
    ASSUME Serial, Inv, SerialInv, NEW t \in Thread, ForkChoice(t)
    PROVE  SerialInv'
<1>1. th[t].pc = "choose" /\ UNCHANGED <<tables, up>>
  BY Zenon DEF ForkChoice, At
<1>2. /\ th[t] \in Call /\ CallKnows(th[t]) /\ Len(th[t].side) = 1 /\ th[t].side[1] \in Block
  BY <1>1, CallBlock, Zenon
<1>b. PICK b \in Block : b = th[t].side[1]
  BY <1>2, Zenon
<1>3. up /\ Follows(b) /\ th[t].gain = ChainWork[b] /\ tip # None
  BY <1>1, <1>2, <1>b, Zenon DEF CallKnows, SerialInv, UpWithTip
<1>4. up' => tip # None
  BY <1>1, Zenon DEF SerialInv, UpWithTip
<1>5. CASE Header[b].prev = tip
  <2>1. Direct(t, "extend")
    BY <1>3, <1>5, <1>b, Zenon DEF ForkChoice
  <2>2. /\ th'[t].pc = "apply" /\ th'[t].side = th[t].side /\ th'[t].gain = th[t].gain
        /\ th'[t].kind = "extend"
    BY <1>2, <2>1, Zenon DEF Direct, Inv, TypeOK, Call
  <2>3. OnTop(b, "extend") /\ ~stored[b]
    BY <1>3, <1>5, Zenon DEF OnTop, Follows
  <2>4. OnTop(b, "extend")' /\ ~stored'[b]
    BY <1>1, <2>3, Zenon DEF OnTop, ExpectedBits, tables
  <2>5. CallKnows(th[t])'
    BY <1>2, <1>3, <1>b, <2>2, <2>4, Zenon DEF CallKnows
  <2>6. QED
    BY <1>1, <1>4, <2>5, CallStep, Zenon DEF tables
<1>6. CASE Header[b].prev # tip
  <2>1. Header[b].prev \in Block /\ stored[Header[b].prev]
    BY <1>2, <1>3, BlockType, Zenon DEF Follows
  <2>2. /\ HeightOf(Header[b].prev) \in 0 .. HeightOf(tip)
        /\ height[HeightOf(Header[b].prev)] = Header[b].prev
    BY <1>1, <2>1, StoredOnChain, Zenon
  <2>3. ChainWork[b] <= ChainWork[tip]
    BY <1>2, <1>3, <1>6, <2>2, SiblingIsNotHeavier, Zenon DEF SerialInv
  <2>4. work[tip] = ChainWork[tip]
    <3>1. HeightOf(tip) \in 0 .. HeightOf(tip) /\ height[HeightOf(tip)] = tip
      <4>1. tip \in Block
        BY <1>3, Zenon DEF Inv, TypeOK
      <4>2. HeightOf(tip) \in Nat
        BY <4>1, BlockType, Zenon
      <4>3. QED
        BY <1>3, <4>2, AtMostItself, Zenon DEF SerialInv, Linked
    <3>2. QED
      BY <1>1, <1>3, <3>1, OneThread, Zenon DEF SerialInv, WorkRecorded
  <2>5. CurrentWork = ChainWork[tip]
    <3>1. ChainWork[tip] \in Nat /\ None \notin Nat
      BY <1>3, ChainAssumption, LedgerAssumption, Zenon DEF Inv, TypeOK
    <3>2. QED
      BY <2>4, <3>1, Zenon DEF CurrentWork
  <2>6. Goto(t, "side")
    BY <1>3, <1>6, <1>b, <2>3, <2>5, Zenon DEF ForkChoice
  <2>7. th'[t].pc = "side" /\ th'[t].side = th[t].side /\ th'[t].gain = th[t].gain
    BY <1>2, <2>6, Zenon DEF Goto, Inv, TypeOK, Call
  <2>8. Follows(b)' /\ up'
    BY <1>1, <1>3, Zenon DEF Follows, ExpectedBits, tables
  <2>9. CallKnows(th[t])'
    BY <1>2, <1>3, <1>b, <2>7, <2>8, Zenon DEF CallKnows
  <2>10. QED
    BY <1>1, <1>4, <2>9, CallStep, Zenon DEF tables
<1>7. QED
  BY <1>5, <1>6, Zenon

\* Recording the work of a block beside the main chain touches no record of the
\* main chain.
LEMMA PutSideWorkStep ==
    ASSUME Serial, Inv, SerialInv, NEW t \in Thread, PutSideWork(t)
    PROVE  SerialInv'
<1>1. /\ th[t].pc = "side" /\ Return(t) /\ UNCHANGED <<stored, height, txs, tip, up>>
      /\ work' = [work EXCEPT ![th[t].side[1]] = th[t].gain]
  BY Zenon DEF PutSideWork, At
<1>2. PICK b \in Block : b = th[t].side[1]
  BY <1>1, CallBlock, Zenon
<1>3. ~stored[b]
  BY <1>1, <1>2, CallBlock, Zenon DEF CallKnows, Follows
<1>4. /\ Linked /\ OneBranch /\ WorkRecorded /\ TxsIndexed /\ UpWithTip
  BY Zenon DEF SerialInv
<1>5. Linked' /\ TxsIndexed' /\ UpWithTip'
  BY <1>1, <1>4, Zenon DEF Linked, TxsIndexed, UpWithTip, ExpectedBits
<1>6. \A s \in Thread : s = t
  BY OneThread, Zenon
<1>7. OneBranch'
  BY <1>1, <1>4, <1>6, Zenon DEF OneBranch
<1>8. WorkRecorded'
  <2> SUFFICES ASSUME tip # None, NEW h \in 0 .. HeightOf(tip)
               PROVE  work'[height[h]] = ChainWork[height[h]]
    BY <1>1, Zenon DEF WorkRecorded
  <2>1. height[h] \in Block /\ stored[height[h]]
    BY <1>4, ChainBlock, Zenon
  <2>2. work'[height[h]] = work[height[h]]
    BY <1>1, <1>2, <1>3, <2>1, Zenon DEF Inv, TypeOK
  <2>3. QED
    BY <1>1, <1>4, <1>6, <2>2, Zenon DEF WorkRecorded
<1>9. \A s \in Thread : CallKnows(th[s])'
  <2>1. th'[t] = Idle
    BY <1>1, Zenon DEF Return, Inv, TypeOK
  <2>2. QED
    BY <1>6, <2>1, IdleKnows, Zenon
<1>10. QED
  BY <1>5, <1>7, <1>8, <1>9, Zenon DEF SerialInv

\* ApplyBlock builds its batch; nothing is written yet.
LEMMA ApplyBlockStep ==
    ASSUME Serial, Inv, SerialInv, NEW t \in Thread, ApplyBlock(t)
    PROVE  SerialInv'
<1>1. /\ th[t].pc = "apply" /\ UNCHANGED <<tables, up>>
      /\ th' = [th EXCEPT ![t].pc = "applying", ![t].block = th[t].side[th[t].left],
                          ![t].log = UndoOf(th[t].side[th[t].left], utxo)]
  BY Zenon DEF ApplyBlock, At
<1>2. /\ th[t] \in Call /\ CallKnows(th[t]) /\ Len(th[t].side) = 1 /\ th[t].side[1] \in Block
  BY <1>1, CallBlock, Zenon
<1>3. PICK b \in Block : b = th[t].side[1]
  BY <1>2, Zenon
<1>4. th[t].left = 1 /\ th[t].done = 0
  <2>1. Consistent(th[t], stored, undo) /\ th[t].kind # "reorg"
    BY <1>1, <1>2, CallType, Zenon DEF CallKnows, OnTop
  <2>2. QED
    BY <1>1, <2>1, Zenon DEF Consistent
<1>5. /\ th'[t].pc = "applying" /\ th'[t].side = th[t].side /\ th'[t].gain = th[t].gain
      /\ th'[t].kind = th[t].kind /\ th'[t].block = b /\ th'[t].done = 0
  BY <1>1, <1>2, <1>3, <1>4, Zenon DEF Inv, TypeOK, Call
<1>6. PICK kind : kind = th[t].kind
  BY Zenon
<1>7. OnTop(b, kind) /\ ~stored[b] /\ th[t].gain = ChainWork[b]
  BY <1>1, <1>2, <1>3, <1>6, Zenon DEF CallKnows
<1>8. OnTop(b, kind)' /\ ~stored'[b]
  BY <1>1, <1>7, Zenon DEF OnTop, ExpectedBits, tables
<1>9. CallKnows(th[t])'
  <2>1. OnTop(th[t].side[1], th[t].kind)'
    BY <1>3, <1>5, <1>6, <1>8, Zenon
  <2>2. ~(th'[t].done >= 3) /\ ~(th'[t].done >= 4)
    BY <1>5
  <2>3. th'[t].pc # "idle" /\ th'[t].pc \notin {"check", "weigh", "choose", "side"} /\ th'[t].pc # "apply"
        /\ th'[t].pc # "work" /\ th'[t].pc # "clean" /\ th'[t].pc \in {"idle", "check", "weigh", "choose", "side", "apply", "applying", "work", "clean"}
    BY <1>5, Zenon
  <2>4. Len(th'[t].side) = 1 /\ th'[t].gain = ChainWork[th'[t].side[1]] /\ ~stored'[th'[t].block]
    BY <1>2, <1>3, <1>5, <1>7, <1>8, Zenon
  <2>5. QED
    BY <2>1, <2>2, <2>3, <2>4, Zenon DEF CallKnows
<1>10. up' => tip # None
  BY <1>1, Zenon DEF SerialInv, UpWithTip
<1>11. QED
  BY <1>1, <1>9, <1>10, CallStep, Zenon DEF tables

\* The chunk of ApplyBlock's batch that fills the transaction index.
LEMMA TxsCommit ==
    ASSUME Inv, NEW t \in Thread, Commit(t), th[t].pc = "applying",
           NEW b, b = th[t].block, NEW k, k = th[t].done + 1
    PROVE  /\ \A x \in Tx : txs[x] => txs'[x]
           /\ k = 4 => \A i \in DOMAIN Body[b] : txs'[Body[b][i]]
<1> DEFINE c == ApplyBatch(b, th[t].log)[k]
<1>1. b \in Block /\ k \in 1 .. 2 * Len(Body[b]) + 5
  BY ApplyCommit, Zenon
<1>2. th[t].log \in Log
  <2>1. Consistent(th[t], stored, undo)
    BY CallType, Zenon
  <2>2. QED
    BY <2>1, Zenon DEF Consistent
<1>3. ChunkOfApply(b, th[t].log, k, c)
  BY <1>1, <1>2, ApplyChunk, Zenon
<1>4. txs' = Execute(txs, "tx", c) /\ txs \in [Tx -> BOOLEAN]
  BY Zenon DEF Commit, BatchOf, Inv, TypeOK
<1>5. Len(Body[b]) \in Nat /\ Body[b] \in Seq(Tx)
  BY <1>1, BlockType, Zenon
<1>6. CASE k = 4
  <2>1. k # 1 /\ k # 2 /\ k # 3 /\ k # 2 * Len(Body[b]) + 5
    BY <1>5, <1>6
  <2>2. c = Chunk("tx", [x \in {Body[b][i] : i \in DOMAIN Body[b]} |-> TRUE])
    BY <1>1, <1>6, <2>1, Zenon DEF ApplyBatch
  <2> HIDE DEF c
  <2>3. /\ c.table = "tx" /\ DOMAIN c.put = {Body[b][i] : i \in DOMAIN Body[b]}
        /\ \A x \in DOMAIN c.put : c.put[x] = TRUE
    BY <2>2, Zenon DEF Chunk
  <2>4. \A i \in DOMAIN Body[b] : Body[b][i] \in Tx
    BY <1>5
  <2>5. \A x \in Tx : txs'[x] = (x \in DOMAIN c.put \/ txs[x])
    BY <1>4, <2>3, Zenon DEF Execute
  <2>6. QED
    BY <2>3, <2>4, <2>5, Zenon
<1>7. CASE k # 4
  <2> HIDE DEF c
  <2>1. c.table # "tx"
    <3>1. k = 1 \/ k = 2 \/ k = 3 \/ k = 2 * Len(Body[b]) + 5 \/ (k > 4 /\ k < 2 * Len(Body[b]) + 5)
      BY <1>1, <1>5, <1>7
    <3>2. QED
      BY <1>3, <3>1, Zenon DEF ChunkOfApply
  <2>2. txs' = txs
    BY <1>4, <2>1, ExecuteOther, Zenon
  <2>3. QED
    BY <1>7, <2>2, Zenon
<1>8. QED
  BY <1>6, <1>7, Zenon

\* Chunk k is the last one of the batch that connects b.
IsLast(b, k) == k = 2 * Len(Body[b]) + 5

\* A block that is being connected, and the next chunk of its batch.
LEMMA ApplyingBlock ==
    ASSUME Serial, Inv, SerialInv, NEW t \in Thread, th[t].pc = "applying", Commit(t),
           NEW b, b = th[t].block, NEW k, k = th[t].done + 1
    PROVE  /\ th[t] \in Call /\ b \in Block /\ b = th[t].side[1] /\ Len(th[t].side) = 1
           /\ Len(Body[b]) \in Nat /\ k \in 1 .. 2 * Len(Body[b]) + 5 /\ th[t].done = k - 1
           /\ OnTop(b, th[t].kind) /\ th[t].gain = ChainWork[b]
           /\ HeightOf(b) \in 0 .. MaxHeight /\ UNCHANGED <<work, up>>
           /\ th'[t].side = th[t].side /\ th'[t].gain = th[t].gain /\ th'[t].kind = th[t].kind
           /\ IsLast(b, k) => th'[t].pc = "work"
           /\ ~IsLast(b, k) => th'[t].pc = "applying" /\ th'[t].block = b /\ th'[t].done = k
<1>1. /\ th[t] \in Call /\ CallKnows(th[t]) /\ Len(th[t].side) = 1 /\ DOMAIN th[t].side = {1}
  BY CallBlock, Zenon
<1>2. b \in Block /\ b = th[t].side[th[t].left] /\ k \in 1 .. 2 * Len(Body[b]) + 5
  BY ApplyCommit, Zenon
<1>3. th[t].done \in Nat /\ th[t].left \in DOMAIN th[t].side
  BY CallType, Zenon DEF Consistent
<1>4. b = th[t].side[1]
  BY <1>1, <1>2, <1>3, Zenon
<1>5. OnTop(b, th[t].kind) /\ th[t].gain = ChainWork[b]
  BY <1>1, <1>4, Zenon DEF CallKnows
<1>6. Len(Body[b]) \in Nat /\ HeightOf(b) \in 0 .. MaxHeight
  BY <1>2, BlockType, Zenon
<1>7. DOMAIN BatchOf(t) = 1 .. 2 * Len(Body[b]) + 5
  BY Zenon DEF BatchOf, ApplyBatch
<1>8. th[t].done + 2 = k + 1 /\ th[t].done = k - 1
  BY <1>3
<1>9. UNCHANGED <<work, up>>
  BY Zenon DEF Commit
<1>10. CASE IsLast(b, k)
  <2>1. th[t].done + 2 \notin DOMAIN BatchOf(t)
    BY <1>6, <1>7, <1>8, <1>10 DEF IsLast
  <2>2. th' = [th EXCEPT ![t].pc = IF @ = "applying" THEN "work" ELSE "rollback",
                         ![t].block = None, ![t].log = None, ![t].done = 0]
    BY <2>1, Zenon DEF Commit
  <2>3. /\ th'[t].side = th[t].side /\ th'[t].gain = th[t].gain /\ th'[t].kind = th[t].kind
        /\ th'[t].pc = "work"
    BY <1>1, <2>2, Zenon DEF Inv, TypeOK, Call
  <2>4. QED
    BY <1>1, <1>2, <1>4, <1>5, <1>6, <1>8, <1>9, <1>10, <2>3, Zenon
<1>11. CASE ~IsLast(b, k)
  <2>1. th[t].done + 2 \in DOMAIN BatchOf(t)
    <3>1. k \in 1 .. 2 * Len(Body[b]) + 5 /\ Len(Body[b]) \in Nat
      BY <1>2, <1>6, Zenon
    <3>2. k + 1 \in 1 .. 2 * Len(Body[b]) + 5
      BY <1>11, <3>1 DEF IsLast
    <3>3. QED
      BY <1>7, <1>8, <3>2, Zenon
  <2>2. th' = [th EXCEPT ![t].done = @ + 1]
    BY <2>1, Zenon DEF Commit
  <2>3. /\ th'[t].side = th[t].side /\ th'[t].gain = th[t].gain /\ th'[t].kind = th[t].kind
        /\ th'[t].pc = "applying" /\ th'[t].block = th[t].block /\ th'[t].done = th[t].done + 1
    BY <1>1, <2>2, Zenon DEF Inv, TypeOK, Call
  <2>4. QED
    BY <1>1, <1>2, <1>4, <1>5, <1>6, <1>8, <1>9, <1>11, <2>3, Zenon
<1>12. QED
  BY <1>10, <1>11, Zenon

\* The entries of the main chain stay while the next block is connected.
LEMMA ChainEntriesStay ==
    ASSUME Serial, Inv, SerialInv, NEW t \in Thread, th[t].pc = "applying", Commit(t), tip # None
    PROVE  \A h \in 0 .. HeightOf(tip) : height'[h] = height[h]
<1> DEFINE b == th[t].block
           k == th[t].done + 1
<1>1. b \in Block /\ OnTop(b, th[t].kind) /\ HeightOf(b) \in 0 .. MaxHeight
  BY ApplyingBlock, Zenon
<1>2. height' = IF k = 3 THEN [height EXCEPT ![HeightOf(b)] = b] ELSE height
  BY ApplyCommit, Zenon
<1>3. tip \in Block /\ height \in [0 .. MaxHeight -> Block \cup {None}]
  BY Zenon DEF Inv, TypeOK
<1>4. HeightOf(tip) \in 0 .. MaxHeight /\ HeightOf(b) = HeightOf(tip) + 1 /\ MaxHeight \in Nat
  BY <1>1, <1>3, BlockType, LedgerAssumption, Zenon DEF OnTop
<1> HIDE DEF b, k
<1>5. QED
  BY <1>1, <1>2, <1>3, <1>4

\* Thread t writes chunk k of the batch that connects block b.
Connecting(t, b, k, kind) ==
    /\ th[t].pc = "applying" /\ Commit(t)
    /\ b = th[t].block /\ k = th[t].done + 1 /\ kind = th[t].kind

\* The block and the call.
LEMMA ConnectingCall ==
    ASSUME Serial, Inv, SerialInv, NEW t \in Thread, NEW b, NEW k, NEW kind, Connecting(t, b, k, kind)
    PROVE  /\ th[t].pc = "applying" /\ b = th[t].block /\ kind = th[t].kind
           /\ b \in Block /\ b = th[t].side[1] /\ Len(th[t].side) = 1
           /\ th[t].gain = ChainWork[b] /\ HeightOf(b) \in 0 .. MaxHeight
BY ApplyingBlock, Zenon DEF Connecting

\* The position in the batch.
LEMMA ConnectingChunk ==
    ASSUME Serial, Inv, SerialInv, NEW t \in Thread, NEW b, NEW k, NEW kind, Connecting(t, b, k, kind)
    PROVE  k \in Nat /\ k >= 1 /\ th[t].done = k - 1 /\ (IsLast(b, k) => k >= 5)
<1>1. Len(Body[b]) \in Nat /\ k \in 1 .. 2 * Len(Body[b]) + 5 /\ th[t].done = k - 1
  BY ApplyingBlock, Zenon DEF Connecting
<1>2. QED
  BY <1>1 DEF IsLast

\* Where the block goes.
LEMMA ConnectingOnTop ==
    ASSUME Serial, Inv, SerialInv, NEW t \in Thread, NEW b, NEW k, NEW kind, Connecting(t, b, k, kind)
    PROVE  OnTop(b, kind) /\ UNCHANGED <<work, up>>
<1>1. th[t].pc = "applying" /\ Commit(t) /\ b = th[t].block /\ kind = th[t].kind
  BY Zenon DEF Connecting
<1>2. OnTop(b, th[t].kind) /\ UNCHANGED <<work, up>>
  BY <1>1, ApplyingBlock, Zenon
<1>3. QED
  BY <1>1, <1>2, Zenon

\* What the step makes of the call.
LEMMA ConnectingMoves ==
    ASSUME Serial, Inv, SerialInv, NEW t \in Thread, NEW b, NEW k, NEW kind, Connecting(t, b, k, kind)
    PROVE  /\ th'[t].side = th[t].side /\ th'[t].gain = th[t].gain /\ th'[t].kind = kind
           /\ IsLast(b, k) => th'[t].pc = "work"
           /\ ~IsLast(b, k) => th'[t].pc = "applying" /\ th'[t].block = b /\ th'[t].done = k
<1>1. th[t].pc = "applying" /\ Commit(t)
  BY Zenon DEF Connecting
<1>2. th'[t].side = th[t].side /\ th'[t].gain = th[t].gain /\ th'[t].kind = th[t].kind
  BY <1>1, ApplyingBlock, Zenon
<1>3. IsLast(th[t].block, th[t].done + 1) => th'[t].pc = "work"
  BY <1>1, ApplyingBlock, Zenon
<1>4. ~IsLast(th[t].block, th[t].done + 1) =>
        th'[t].pc = "applying" /\ th'[t].block = th[t].block /\ th'[t].done = th[t].done + 1
  BY <1>1, ApplyingBlock, Zenon
<1>5. b = th[t].block /\ k = th[t].done + 1 /\ kind = th[t].kind
  BY Zenon DEF Connecting
<1>6. QED
  BY <1>2, <1>3, <1>4, <1>5, Zenon

\* The kind of call stays.
LEMMA ConnectingKind ==
    ASSUME Serial, Inv, SerialInv, NEW t \in Thread, NEW b, NEW k, NEW kind, Connecting(t, b, k, kind)
    PROVE  th'[t].kind = kind
<1>1. th[t].pc = "applying" /\ Commit(t)
  BY Zenon DEF Connecting
<1>2. th'[t].kind = th[t].kind
  BY <1>1, ApplyingBlock, Zenon
<1>3. QED
  BY <1>2, Zenon DEF Connecting

\* What the step writes.
LEMMA ConnectingWrites ==
    ASSUME Serial, Inv, SerialInv, NEW t \in Thread, NEW b, NEW k, NEW kind, Connecting(t, b, k, kind)
    PROVE  /\ stored' = IF k = 2 THEN [stored EXCEPT ![b] = TRUE] ELSE stored
           /\ height' = IF k = 3 THEN [height EXCEPT ![HeightOf(b)] = b] ELSE height
           /\ tip' = IF IsLast(b, k) THEN b ELSE tip
           /\ \A x \in Tx : txs[x] => txs'[x]
           /\ k = 4 => \A i \in DOMAIN Body[b] : txs'[Body[b][i]]
<1>1. th[t].pc = "applying" /\ Commit(t) /\ b = th[t].block /\ k = th[t].done + 1
  BY Zenon DEF Connecting
<1>2. /\ stored' = IF k = 2 THEN [stored EXCEPT ![b] = TRUE] ELSE stored
      /\ height' = IF k = 3 THEN [height EXCEPT ![HeightOf(b)] = b] ELSE height
      /\ tip' = IF IsLast(b, k) THEN b ELSE tip
  BY <1>1, ApplyCommit, Zenon DEF IsLast
<1>3. /\ \A x \in Tx : txs[x] => txs'[x]
      /\ k = 4 => \A i \in DOMAIN Body[b] : txs'[Body[b][i]]
  BY <1>1, TxsCommit, Zenon
<1>4. QED
  BY <1>2, <1>3, Zenon

\* The expected difficulty on top of any block of the main chain stays.
LEMMA ConnectingBits ==
    ASSUME Serial, Inv, SerialInv, NEW t \in Thread, NEW b, NEW k, NEW kind, Connecting(t, b, k, kind),
           tip # None, NEW p \in Block, HeightOf(p) \in 0 .. HeightOf(tip)
    PROVE  ExpectedBits(p, height') = ExpectedBits(p, height)
<1>1. \A h \in 0 .. HeightOf(tip) : height'[h] = height[h]
  BY ChainEntriesStay, Zenon DEF Connecting
<1>2. HeightOf(tip) \in Nat
  BY BlockType, Zenon DEF Inv, TypeOK
<1>3. \A h \in 0 .. HeightOf(p) : height'[h] = height[h]
  BY <1>1, <1>2, HeightsBelow, Zenon
<1>4. QED
  BY <1>3, ExpectedBitsStable, Zenon

\* A chunk before the last one leaves the main chain linked.
LEMMA MiddleLinked ==
    ASSUME Serial, Inv, SerialInv, NEW t \in Thread, NEW b, NEW k, NEW kind, Connecting(t, b, k, kind),
           ~IsLast(b, k)
    PROVE  Linked'
<1>1. tip' = tip
  BY ConnectingWrites, Zenon
<1>2. tip # None => \A h \in 0 .. HeightOf(tip) : height'[h] = height[h]
  BY ChainEntriesStay, Zenon DEF Connecting
<1>3. Linked
  BY Zenon DEF SerialInv
<1>4. SUFFICES ASSUME tip # None
               PROVE  /\ height'[0] = Genesis /\ height'[HeightOf(tip)] = tip
                      /\ \A h \in 1 .. HeightOf(tip) :
                          /\ height'[h] # None /\ Header[height'[h]].prev = height'[h - 1]
                          /\ Header[height'[h]].bits = ExpectedBits(height'[h - 1], height')
                      /\ \A h \in 0 .. HeightOf(tip) : ChainWork[height'[h]] <= ChainWork[tip]
  BY <1>1, Zenon DEF Linked
<1>5. HeightOf(tip) \in Nat
  BY <1>4, BlockType, Zenon DEF Inv, TypeOK
<1>6. height'[0] = Genesis /\ height'[HeightOf(tip)] = tip
  BY <1>2, <1>3, <1>4, <1>5, AtMostItself, Zenon DEF Linked
<1>7. ASSUME NEW h \in 1 .. HeightOf(tip)
      PROVE  /\ height'[h] # None /\ Header[height'[h]].prev = height'[h - 1]
             /\ Header[height'[h]].bits = ExpectedBits(height'[h - 1], height')
  <2>1. h \in 0 .. HeightOf(tip) /\ h - 1 \in 0 .. HeightOf(tip)
    BY <1>5
  <2>2. height'[h] = height[h] /\ height'[h - 1] = height[h - 1]
    BY <1>2, <1>4, <2>1, Zenon
  <2>3. height[h - 1] \in Block /\ HeightOf(height[h - 1]) \in 0 .. HeightOf(tip)
    BY <1>3, <1>4, <2>1, ChainBlock, Zenon
  <2>4. ExpectedBits(height[h - 1], height') = ExpectedBits(height[h - 1], height)
    BY <1>4, <2>3, ConnectingBits, Zenon
  <2>5. /\ height[h] # None /\ Header[height[h]].prev = height[h - 1]
        /\ Header[height[h]].bits = ExpectedBits(height[h - 1], height)
    BY <1>3, <1>4, Zenon DEF Linked
  <2>6. QED
    BY <2>2, <2>4, <2>5, Zenon
<1>8. \A h \in 0 .. HeightOf(tip) : ChainWork[height'[h]] <= ChainWork[tip]
  BY <1>2, <1>3, <1>4, Zenon DEF Linked
<1>9. QED
  BY <1>6, <1>7, <1>8, Zenon

\* A chunk before the last one leaves the records of the main chain alone.
LEMMA MiddleRecords ==
    ASSUME Serial, Inv, SerialInv, NEW t \in Thread, NEW b, NEW k, NEW kind, Connecting(t, b, k, kind),
           ~IsLast(b, k)
    PROVE  OneBranch' /\ WorkRecorded' /\ TxsIndexed' /\ UpWithTip'
<1>1. /\ stored' = IF k = 2 THEN [stored EXCEPT ![b] = TRUE] ELSE stored
      /\ \A x \in Tx : txs[x] => txs'[x]
  BY ConnectingWrites, Zenon
<1>2. tip' = tip
  BY ConnectingWrites, Zenon
<1>3. tip # None => \A h \in 0 .. HeightOf(tip) : height'[h] = height[h]
  BY ChainEntriesStay, Zenon DEF Connecting
<1>4. Linked /\ OneBranch /\ WorkRecorded /\ TxsIndexed /\ UpWithTip
  BY Zenon DEF SerialInv
<1>5. th[t].pc = "applying" /\ b = th[t].block /\ b \in Block
  BY ConnectingCall, Zenon
<1>6. th'[t].pc = "applying" /\ th'[t].block = b
  BY ConnectingMoves, Zenon
<1>7. work' = work /\ up' = up
  BY ConnectingOnTop, Zenon
<1>8. \A s \in Thread : s = t
  BY OneThread, Zenon
<1>9. OneBranch'
  <2> SUFFICES ASSUME NEW x \in Block, stored'[x]
               PROVE  \/ tip # None /\ HeightOf(x) <= HeightOf(tip) /\ height'[HeightOf(x)] = x
                      \/ x = b
    BY <1>2, <1>6, Zenon DEF OneBranch
  <2>1. stored[x] \/ x = b
    BY <1>1, <1>5, Zenon DEF Inv, TypeOK
  <2>2. CASE stored[x]
    <3>1. \/ tip # None /\ HeightOf(x) <= HeightOf(tip) /\ height[HeightOf(x)] = x
          \/ x = b
      BY <1>4, <1>5, <1>8, <2>2, Zenon DEF OneBranch
    <3>2. HeightOf(x) \in Nat /\ (tip # None => HeightOf(tip) \in Nat)
      BY BlockType, Zenon DEF Inv, TypeOK
    <3>3. QED
      BY <1>3, <3>1, <3>2, AtMost, Zenon
  <2>3. QED
    BY <2>1, <2>2, Zenon
<1>10. WorkRecorded'
  <2> SUFFICES ASSUME tip # None, NEW h \in 0 .. HeightOf(tip)
               PROVE  work[height'[h]] = ChainWork[height'[h]]
    BY <1>2, <1>7, Zenon DEF WorkRecorded
  <2>1. \A s \in Thread : th[s].pc # "work"
    BY <1>5, <1>8, Zenon
  <2>2. work[height[h]] = ChainWork[height[h]]
    BY <1>4, <2>1, Zenon DEF WorkRecorded
  <2>3. QED
    BY <1>3, <2>2, Zenon
<1>11. TxsIndexed'
  <2> SUFFICES ASSUME tip # None, NEW h \in 0 .. HeightOf(tip), NEW i \in DOMAIN Body[height'[h]]
               PROVE  txs'[Body[height'[h]][i]]
    BY <1>2, Zenon DEF TxsIndexed
  <2>1. height'[h] = height[h] /\ height[h] \in Block
    BY <1>3, <1>4, ChainBlock, Zenon
  <2>2. Body[height[h]][i] \in Tx
    BY <2>1, BlockType, ElementType, Zenon
  <2>3. txs[Body[height[h]][i]]
    BY <1>4, <2>1, Zenon DEF TxsIndexed
  <2>4. QED
    BY <1>1, <2>1, <2>2, <2>3, Zenon
<1>12. UpWithTip'
  BY <1>2, <1>4, <1>7, Zenon DEF UpWithTip
<1>13. QED
  BY <1>9, <1>10, <1>11, <1>12, Zenon

\* After a chunk before the last one the call still knows where its block goes.
LEMMA MiddleOnTop ==
    ASSUME Serial, Inv, SerialInv, NEW t \in Thread, NEW b, NEW k, NEW kind, Connecting(t, b, k, kind),
           ~IsLast(b, k)
    PROVE  OnTop(b, kind)'
<1>1. tip' = tip /\ up' = up
  BY ConnectingWrites, ConnectingOnTop, Zenon
<1>2. OnTop(b, kind)
  BY ConnectingOnTop, Zenon
<1>3. CASE kind = "genesis" /\ b = Genesis /\ tip = None /\ ~up
  BY <1>1, <1>3, Zenon DEF OnTop
<1>4. CASE /\ kind = "extend" /\ tip # None /\ up /\ Header[b].prev = tip
           /\ HeightOf(b) = HeightOf(tip) + 1
           /\ Header[b].bits = ExpectedBits(tip, height)
  <2>1. HeightOf(tip) \in 0 .. HeightOf(tip) /\ tip \in Block
    BY <1>4, BlockType, AtMostItself, Zenon DEF Inv, TypeOK
  <2>2. ExpectedBits(tip, height') = ExpectedBits(tip, height)
    BY <1>4, <2>1, ConnectingBits, Zenon
  <2>3. QED
    BY <1>1, <1>4, <2>2, Zenon DEF OnTop
<1>5. QED
  BY <1>2, <1>3, <1>4, Zenon DEF OnTop

\* What the call has written so far.
LEMMA MiddleWritten ==
    ASSUME Serial, Inv, SerialInv, NEW t \in Thread, NEW b, NEW k, NEW kind, Connecting(t, b, k, kind),
           ~IsLast(b, k)
    PROVE  /\ k < 2 => ~stored'[b]
           /\ k >= 3 => height'[HeightOf(b)] = b
           /\ k >= 4 => \A i \in DOMAIN Body[b] : txs'[Body[b][i]]
<1>1. /\ stored' = IF k = 2 THEN [stored EXCEPT ![b] = TRUE] ELSE stored
      /\ height' = IF k = 3 THEN [height EXCEPT ![HeightOf(b)] = b] ELSE height
  BY ConnectingWrites, Zenon
<1>2. /\ \A x \in Tx : txs[x] => txs'[x]
      /\ k = 4 => \A i \in DOMAIN Body[b] : txs'[Body[b][i]]
  BY ConnectingWrites, Zenon
<1>3. k \in Nat /\ k >= 1 /\ th[t].done = k - 1
  BY ConnectingChunk, Zenon
<1>4. b \in Block /\ b = th[t].block /\ th[t].pc = "applying" /\ HeightOf(b) \in 0 .. MaxHeight
  BY ConnectingCall, Zenon
<1>5. CallKnows(th[t])
  BY Zenon DEF SerialInv
<1>6. /\ th[t].done < 2 => ~stored[b]
      /\ th[t].done >= 3 => height[HeightOf(b)] = b
      /\ th[t].done >= 4 => \A i \in DOMAIN Body[b] : txs[Body[b][i]]
  BY <1>4, <1>5, Zenon DEF CallKnows
<1>7. k < 2 => ~stored'[b]
  <2>1. k < 2 => k # 2 /\ k - 1 < 2
    BY <1>3
  <2>2. QED
    BY <1>1, <1>3, <1>6, <2>1, Zenon
<1>8. k >= 3 => height'[HeightOf(b)] = b
  <2>1. CASE k = 3
    BY <1>1, <1>4, <2>1, Zenon DEF Inv, TypeOK
  <2>2. CASE k # 3
    <3>1. k >= 3 => k - 1 >= 3
      BY <1>3, <2>2
    <3>2. QED
      BY <1>1, <1>3, <1>6, <2>2, <3>1, Zenon
  <2>3. QED
    BY <2>1, <2>2, Zenon
<1>9. k >= 4 => \A i \in DOMAIN Body[b] : txs'[Body[b][i]]
  <2>1. CASE k = 4
    BY <1>2, <2>1, Zenon
  <2>2. CASE k # 4
    <3>1. k >= 4 => th[t].done >= 4
      BY <1>3, <2>2
    <3>2. \A i \in DOMAIN Body[b] : Body[b][i] \in Tx
      BY <1>4, BlockType, ElementType, Zenon
    <3>3. QED
      BY <1>2, <1>6, <3>1, <3>2, Zenon
  <2>3. QED
    BY <2>1, <2>2, Zenon
<1>10. QED
  BY <1>7, <1>8, <1>9, Zenon

\* A chunk of ApplyBlock's batch before the last.
LEMMA MiddleChunkStep ==
    ASSUME Serial, Inv, SerialInv, NEW t \in Thread, NEW b, NEW k, NEW kind, Connecting(t, b, k, kind),
           ~IsLast(b, k)
    PROVE  SerialInv'
<1>1. /\ th'[t].pc = "applying" /\ th'[t].side = th[t].side /\ th'[t].gain = th[t].gain
      /\ th'[t].kind = kind /\ th'[t].block = b /\ th'[t].done = k
  BY ConnectingMoves, Zenon
<1>2. b = th[t].side[1] /\ Len(th[t].side) = 1 /\ th[t].gain = ChainWork[b]
  BY ConnectingCall, Zenon
<1>3. OnTop(b, kind)'
  BY MiddleOnTop, Zenon
<1>4. CallKnows(th[t])'
  <2>1. OnTop(th[t].side[1], th[t].kind)'
    BY <1>1, <1>2, <1>3, Zenon
  <2>2. /\ th'[t].done < 2 => ~stored'[th'[t].block]
        /\ th'[t].done >= 3 => height'[HeightOf(th'[t].block)] = th'[t].block
        /\ th'[t].done >= 4 => \A i \in DOMAIN Body[th'[t].block] : txs'[Body[th'[t].block][i]]
    BY <1>1, MiddleWritten, Zenon
  <2>3. /\ th'[t].pc # "idle" /\ th'[t].pc \notin {"check", "weigh", "choose", "side"}
        /\ th'[t].pc # "apply" /\ th'[t].pc # "work" /\ th'[t].pc # "clean"
        /\ th'[t].pc \in {"idle", "check", "weigh", "choose", "side", "apply", "applying",
                          "work", "clean"}
    BY <1>1, Zenon
  <2>4. Len(th'[t].side) = 1 /\ th'[t].gain = ChainWork[th'[t].side[1]]
    BY <1>1, <1>2, Zenon
  <2>5. QED
    BY <2>1, <2>2, <2>3, <2>4, Zenon DEF CallKnows
<1>5. \A s \in Thread : s = t
  BY OneThread, Zenon
<1>6. QED
  BY <1>4, <1>5, MiddleLinked, MiddleRecords, Zenon DEF SerialInv

\* The last chunk, which moves the tip to the block.
LEMMA LastChunkStep ==
    ASSUME Serial, Inv, SerialInv, NEW t \in Thread, NEW b, NEW k, NEW kind, Connecting(t, b, k, kind),
           IsLast(b, k)
    PROVE  SerialInv'
<1>1. k \in Nat /\ k >= 5 /\ th[t].done = k - 1
  BY ConnectingChunk, Zenon
<1>2. k # 2 /\ k # 3 /\ th[t].done >= 3 /\ th[t].done >= 4
  BY <1>1
<1>3. stored' = stored /\ height' = height /\ tip' = b /\ \A x \in Tx : txs[x] => txs'[x]
  BY <1>2, ConnectingWrites, Zenon
<1>4. work' = work /\ up' = up /\ OnTop(b, kind)
  BY ConnectingOnTop, Zenon
<1>5. /\ th'[t].pc = "work" /\ th'[t].side = th[t].side /\ th'[t].gain = th[t].gain
      /\ th'[t].kind = kind
  <2>1. th'[t].pc = "work"
    BY ConnectingMoves, Zenon
  <2>2. th'[t].side = th[t].side /\ th'[t].gain = th[t].gain
    BY ConnectingMoves, Zenon
  <2>3. QED
    BY <2>1, <2>2, ConnectingKind, Zenon
<1>6. /\ b \in Block /\ b = th[t].block /\ th[t].pc = "applying" /\ b = th[t].side[1]
      /\ Len(th[t].side) = 1 /\ th[t].gain = ChainWork[b]
  BY ConnectingCall, Zenon
<1>7. Linked /\ OneBranch /\ WorkRecorded /\ TxsIndexed /\ CallKnows(th[t])
  BY Zenon DEF SerialInv
<1>8. height[HeightOf(b)] = b /\ \A i \in DOMAIN Body[b] : txs[Body[b][i]]
  BY <1>2, <1>6, <1>7, Zenon DEF CallKnows
<1>9. \A s \in Thread : s = t
  BY OneThread, Zenon
<1>10. b # None /\ HeightOf(b) \in Nat
  BY <1>6, BlockType, LedgerAssumption, Zenon
<1>11. ASSUME NEW h \in 0 .. HeightOf(b)
       PROVE  h = HeightOf(b) \/ (tip # None /\ h \in 0 .. HeightOf(tip))
  <2>1. CASE kind = "genesis" /\ b = Genesis
    BY <2>1, LedgerAssumption DEF HeightOf
  <2>2. CASE tip # None /\ HeightOf(b) = HeightOf(tip) + 1
    <3>1. HeightOf(tip) \in Nat
      BY <2>2, BlockType, Zenon DEF Inv, TypeOK
    <3>2. QED
      BY <2>2, <3>1
  <2>3. QED
    BY <1>4, <2>1, <2>2, Zenon DEF OnTop
<1>12. Linked'
  <2> SUFFICES /\ height[0] = Genesis /\ height[HeightOf(b)] = b
               /\ \A h \in 1 .. HeightOf(b) :
                   /\ height[h] # None /\ Header[height[h]].prev = height[h - 1]
                   /\ Header[height[h]].bits = ExpectedBits(height[h - 1], height)
               /\ \A h \in 0 .. HeightOf(b) : ChainWork[height[h]] <= ChainWork[b]
    BY <1>3, Zenon DEF Linked
  <2>0. ChainWork[b] \in Nat
    BY <1>6, ChainAssumption, Zenon
  <2>1. CASE kind = "genesis" /\ b = Genesis
    <3>1. HeightOf(b) = 0
      BY <2>1, LedgerAssumption, Zenon DEF HeightOf
    <3>2. QED
      BY <1>8, <2>0, <2>1, <3>1
  <2>2. CASE /\ tip # None /\ Header[b].prev = tip /\ HeightOf(b) = HeightOf(tip) + 1
             /\ Header[b].bits = ExpectedBits(tip, height)
    <3>1. HeightOf(tip) \in Nat
      BY <2>2, BlockType, Zenon DEF Inv, TypeOK
    <3>2. /\ height[0] = Genesis /\ height[HeightOf(tip)] = tip
          /\ \A h \in 1 .. HeightOf(tip) :
              /\ height[h] # None /\ Header[height[h]].prev = height[h - 1]
              /\ Header[height[h]].bits = ExpectedBits(height[h - 1], height)
      BY <1>7, <2>2, Zenon DEF Linked
    <3>3. ASSUME NEW h \in 1 .. HeightOf(b)
          PROVE  /\ height[h] # None /\ Header[height[h]].prev = height[h - 1]
                 /\ Header[height[h]].bits = ExpectedBits(height[h - 1], height)
      <4>1. CASE h = HeightOf(b)
        <5>1. h - 1 = HeightOf(tip)
          BY <2>2, <3>1, <4>1
        <5>2. QED
          BY <1>8, <1>10, <2>2, <3>2, <4>1, <5>1, Zenon
      <4>2. CASE h # HeightOf(b)
        <5>1. h \in 1 .. HeightOf(tip)
          BY <2>2, <3>1, <4>2
        <5>2. QED
          BY <3>2, <5>1, Zenon
      <4>3. QED
        BY <4>1, <4>2, Zenon
    <3>4. ASSUME NEW h \in 0 .. HeightOf(b)
          PROVE  ChainWork[height[h]] <= ChainWork[b]
      <4>1. CASE h = HeightOf(b)
        BY <1>8, <2>0, <4>1, AtMostItself, Zenon
      <4>2. CASE h # HeightOf(b)
        <5>1. h \in 0 .. HeightOf(tip)
          BY <1>11, <4>2, Zenon
        <5>2. ChainWork[height[h]] <= ChainWork[tip] /\ ChainWork[height[h]] \in Nat
          BY <1>7, <2>2, <5>1, ChainBlock, ChainAssumption, Zenon DEF Linked
        <5>3. ChainWork[tip] <= ChainWork[b] /\ ChainWork[tip] \in Nat
          <6>1. HeightOf(b) > 0
            BY <2>2, <3>1
          <6>2. QED
            BY <1>6, <2>2, <6>1, WorkAdds, SumIsMore, Zenon
        <5>4. QED
          BY <2>0, <5>2, <5>3, AtMostInTurn, Zenon
      <4>3. QED
        BY <4>1, <4>2, Zenon
    <3>5. QED
      BY <1>8, <3>2, <3>3, <3>4, Zenon
  <2>3. QED
    BY <1>4, <2>1, <2>2, Zenon DEF OnTop
<1>13. OneBranch'
  <2> SUFFICES ASSUME NEW x \in Block, stored[x]
               PROVE  HeightOf(x) <= HeightOf(b) /\ height[HeightOf(x)] = x
    BY <1>3, <1>10, Zenon DEF OneBranch
  <2>1. \/ tip # None /\ HeightOf(x) <= HeightOf(tip) /\ height[HeightOf(x)] = x
        \/ x = b
    BY <1>6, <1>7, <1>9, Zenon DEF OneBranch
  <2>2. tip # None => HeightOf(tip) \in Nat /\ HeightOf(b) = HeightOf(tip) + 1
    BY <1>4, BlockType, Zenon DEF Inv, TypeOK, OnTop
  <2>3. HeightOf(x) \in Nat
    BY BlockType, Zenon
  <2>4. CASE x = b
    BY <1>8, <1>10, <2>4, AtMostItself, Zenon
  <2>5. CASE tip # None /\ HeightOf(x) <= HeightOf(tip) /\ height[HeightOf(x)] = x
    <3>1. HeightOf(tip) \in Nat /\ HeightOf(b) = HeightOf(tip) + 1
      BY <2>2, <2>5, Zenon
    <3>2. QED
      BY <2>3, <2>5, <3>1, AtMost, Zenon
  <2>6. QED
    BY <2>1, <2>4, <2>5, Zenon
<1>14. WorkRecorded'
  <2> SUFFICES ASSUME NEW h \in 0 .. HeightOf(b), h # HeightOf(b)
               PROVE  work[height[h]] = ChainWork[height[h]]
    BY <1>3, <1>4, <1>5, Zenon DEF WorkRecorded
  <2>1. \A s \in Thread : th[s].pc # "work"
    BY <1>6, <1>9, Zenon
  <2>2. QED
    BY <1>7, <1>11, <2>1, Zenon DEF WorkRecorded
<1>15. TxsIndexed'
  <2> SUFFICES ASSUME NEW h \in 0 .. HeightOf(b), NEW i \in DOMAIN Body[height[h]]
               PROVE  txs'[Body[height[h]][i]]
    BY <1>3, Zenon DEF TxsIndexed
  <2>1. height[h] \in Block
    BY <1>6, <1>7, <1>8, <1>11, ChainBlock, Zenon
  <2>2. Body[height[h]][i] \in Tx
    BY <2>1, BlockType, ElementType, Zenon
  <2>3. txs[Body[height[h]][i]]
    BY <1>7, <1>8, <1>11, Zenon DEF TxsIndexed
  <2>4. QED
    BY <1>3, <2>2, <2>3, Zenon
<1>16. CallKnows(th[t])'
  <2>1. kind \in {"genesis", "extend"}
    BY <1>4, Zenon DEF OnTop
  <2>2. QED
    BY <1>3, <1>5, <1>6, <2>1, Zenon DEF CallKnows
<1>17. UpWithTip'
  BY <1>3, <1>10, Zenon DEF UpWithTip
<1>18. QED
  BY <1>9, <1>12, <1>13, <1>14, <1>15, <1>16, <1>17, Zenon DEF SerialInv

\* Batch.Commit.
LEMMA CommitStep ==
    ASSUME Serial, Inv, SerialInv, NEW t \in Thread, Commit(t)
    PROVE  SerialInv'
<1>1. th[t].pc = "applying"
  <2>1. th[t].pc \in {"applying", "disconnecting"}
    BY Zenon DEF Commit, At
  <2>2. CallKnows(th[t])
    BY Zenon DEF SerialInv
  <2>3. QED
    BY <2>1, <2>2, Zenon DEF CallKnows
<1>2. PICK b, k, kind : b = th[t].block /\ k = th[t].done + 1 /\ kind = th[t].kind
  BY Zenon
<1>3. Connecting(t, b, k, kind)
  BY <1>1, <1>2, Zenon DEF Connecting
<1>4. QED
  BY <1>3, MiddleChunkStep, LastChunkStep, Zenon

\* PutTotalWork records the work of the new tip.
LEMMA PutTotalWorkStep ==
    ASSUME Serial, Inv, SerialInv, NEW t \in Thread, PutTotalWork(t)
    PROVE  SerialInv'
<1>1. th[t].pc = "work"
  BY Zenon DEF PutTotalWork, At
<1>2. /\ th[t] \in Call /\ CallKnows(th[t]) /\ Len(th[t].side) = 1 /\ th[t].side[1] \in Block
  BY <1>1, CallBlock, Zenon
<1>3. tip = th[t].side[1] /\ th[t].gain = ChainWork[tip] /\ th[t].kind \in {"genesis", "extend"}
  BY <1>1, <1>2, Zenon DEF CallKnows
<1>4. th[t].left = 1
  <2>1. Consistent(th[t], stored, undo) /\ th[t].kind # "reorg"
    BY <1>3, CallType, Zenon
  <2>2. QED
    BY <1>1, <2>1, Zenon DEF Consistent
<1>5. /\ work' = [work EXCEPT ![tip] = ChainWork[tip]]
      /\ UNCHANGED <<stored, height, txs, tip>>
  BY <1>3, <1>4, Zenon DEF PutTotalWork
<1>6. Linked /\ OneBranch /\ WorkRecorded /\ TxsIndexed
  BY Zenon DEF SerialInv
<1>7. \A s \in Thread : s = t
  BY OneThread, Zenon
<1>8. tip \in Block /\ tip # None
  BY <1>2, <1>3, LedgerAssumption, Zenon
<1>9. Linked' /\ TxsIndexed' /\ UpWithTip'
  BY <1>5, <1>6, <1>8, Zenon DEF Linked, TxsIndexed, UpWithTip, ExpectedBits
<1>10. OneBranch'
  BY <1>1, <1>5, <1>6, <1>7, Zenon DEF OneBranch
<1>11. WorkRecorded'
  <2> SUFFICES ASSUME NEW h \in 0 .. HeightOf(tip)
               PROVE  work'[height[h]] = ChainWork[height[h]]
    BY <1>5, Zenon DEF WorkRecorded
  <2>1. height[h] \in Block
    BY <1>6, <1>8, ChainBlock, Zenon
  <2>2. CASE height[h] = tip
    BY <1>5, <1>8, <2>2, Zenon DEF Inv, TypeOK
  <2>3. CASE height[h] # tip
    <3>1. h # HeightOf(tip)
      BY <1>6, <1>8, <2>3, Zenon DEF Linked
    <3>2. work[height[h]] = ChainWork[height[h]]
      BY <1>6, <1>8, <3>1, Zenon DEF WorkRecorded
    <3>3. QED
      BY <1>5, <2>1, <2>3, <3>2, Zenon DEF Inv, TypeOK
  <2>4. QED
    BY <2>2, <2>3, Zenon
<1>12. CallKnows(th[t])'
  <2>1. CASE th[t].kind = "genesis"
    <3>1. Return(t)
      BY <2>1, Zenon DEF PutTotalWork
    <3>2. th'[t] = Idle
      BY <3>1, Zenon DEF Return, Inv, TypeOK
    <3>3. QED
      BY <3>2, IdleKnows, Zenon
  <2>2. CASE th[t].kind = "extend"
    <3>1. Goto(t, "clean")
      BY <1>4, <2>2 DEF PutTotalWork
    <3>2. th'[t].pc = "clean" /\ th'[t].side = th[t].side /\ th'[t].kind = "extend"
      BY <1>2, <2>2, <3>1, Zenon DEF Goto, Inv, TypeOK, Call
    <3>3. QED
      BY <1>2, <1>3, <1>5, <3>2, Zenon DEF CallKnows
  <2>3. QED
    BY <1>3, <2>1, <2>2, Zenon
<1>13. QED
  BY <1>7, <1>9, <1>10, <1>11, <1>12, Zenon DEF SerialInv

\* RemoveMinedBlock ends the call.
LEMMA CleanPoolStep ==
    ASSUME Serial, Inv, SerialInv, NEW t \in Thread, CleanPool(t)
    PROVE  SerialInv'
<1>1. th[t].pc = "clean" /\ UNCHANGED <<tables, up>>
  BY Zenon DEF CleanPool, At
<1>2. Len(th[t].side) = 1 /\ DOMAIN th[t].side = {1} /\ th[t].left \in DOMAIN th[t].side
  <2>1. Consistent(th[t], stored, undo)
    BY CallType, Zenon
  <2>2. QED
    BY <1>1, <2>1, CallBlock, Zenon DEF Consistent
<1>3. Return(t)
  BY <1>2 DEF CleanPool
<1>4. QED
  BY <1>1, <1>3, ReturnStep, Zenon DEF tables

\* InitGenesis connects the genesis block to an empty database.
LEMMA CreateGenesisStep ==
    ASSUME Serial, Inv, SerialInv, NEW t \in Thread, CreateGenesis(t)
    PROVE  SerialInv'
<1>1. /\ ~up /\ th[t] = Idle /\ tip = None /\ UNCHANGED <<tables, up>>
      /\ th' = [th EXCEPT ![t] = [Idle EXCEPT !.pc = "apply", !.kind = "genesis",
                                              !.side = <<Genesis>>, !.left = 1,
                                              !.gain = BlockWork(Genesis)]]
  BY Zenon DEF CreateGenesis
<1>2. Genesis \in Block /\ HeightOf(Genesis) = 0
  BY LedgerAssumption, Zenon DEF HeightOf
<1>3. /\ th'[t].pc = "apply" /\ th'[t].kind = "genesis" /\ th'[t].side = <<Genesis>>
      /\ th'[t].gain = BlockWork(Genesis)
  BY <1>1, Zenon DEF Inv, TypeOK, Idle
<1>4. th[t].pc = "idle"
  BY <1>1, IdleRests, Zenon
<1>5. ~stored[Genesis]
  BY <1>1, <1>2, <1>4, OneThread, Zenon DEF SerialInv, OneBranch
<1>6. BlockWork(Genesis) = ChainWork[Genesis]
  BY <1>2, ChainAssumption
<1>7. CallKnows(th[t])'
  BY <1>1, <1>3, <1>5, <1>6, BranchOfOne, Zenon DEF CallKnows, OnTop, tables
<1>8. up' => tip # None
  BY <1>1, Zenon
<1>9. QED
  BY <1>1, <1>4, <1>7, <1>8, CallStep, Zenon DEF tables

\* The other steps of a call belong to a reorganisation, which never begins.
LEMMA NoReorg ==
    ASSUME SerialInv, NEW t \in Thread
    PROVE  ~Collect(t) /\ ~Rollback(t) /\ ~DisconnectTip(t)
<1>1. CallKnows(th[t])
  BY Zenon DEF SerialInv
<1>2. th[t].pc \notin {"collect", "rollback", "disconnect"}
  BY <1>1, Zenon DEF CallKnows
<1>3. QED
  BY <1>2, Zenon DEF Collect, Rollback, DisconnectTip, At

\* No fault happens.
LEMMA NoFault ==
    ASSUME Serial, Inv, NEW t \in Thread
    PROVE  ~WriteError(t) /\ ~Crash
<1>1. faults \in Nat /\ MaxFaults = 0
  BY ChainAssumption DEF Inv, TypeOK, Serial
<1>2. ~(faults < MaxFaults)
  BY <1>1
<1>3. QED
  BY <1>2, Zenon DEF WriteError, Crash

\* A step that leaves the database and the calls alone.
LEMMA RecordsKept ==
    ASSUME SerialInv, UNCHANGED <<stored, height, txs, work, tip, th>>
    PROVE  Linked' /\ OneBranch' /\ WorkRecorded' /\ TxsIndexed'
<1>1. Linked /\ OneBranch /\ WorkRecorded /\ TxsIndexed
  BY Zenon DEF SerialInv
<1>2. Linked' /\ TxsIndexed'
  BY <1>1, Zenon DEF Linked, TxsIndexed, ExpectedBits
<1>3. OneBranch' /\ WorkRecorded'
  BY <1>1, Zenon DEF OneBranch, WorkRecorded
<1>4. QED
  BY <1>2, <1>3, Zenon

\* A step that is none of the chain manager's.
LEMMA OtherStep ==
    ASSUME SerialInv, UNCHANGED <<stored, height, txs, work, tip, th, up>>
    PROVE  SerialInv'
<1>1. UpWithTip /\ \A t \in Thread : CallKnows(th[t])
  BY Zenon DEF SerialInv
<1>2. UpWithTip'
  BY <1>1, Zenon DEF UpWithTip
<1>3. \A t \in Thread : CallKnows(th[t])'
  <2>1. ASSUME NEW b, Follows(b) PROVE Follows(b)'
    BY <2>1, Zenon DEF Follows, ExpectedBits
  <2>2. ASSUME NEW b, NEW kind, OnTop(b, kind) PROVE OnTop(b, kind)'
    BY <2>2, Zenon DEF OnTop, ExpectedBits
  <2>3. TAKE t \in Thread
  <2>4. PICK b, kind : b = th[t].side[1] /\ kind = th[t].kind
    BY Zenon
  <2>5. CallKnows(th[t])
    BY <1>1, Zenon
  <2>6. th[t].pc \in {"check", "weigh", "choose", "side"} => Follows(th[t].side[1])'
    BY <2>1, <2>4, <2>5, Zenon DEF CallKnows
  <2>7. th[t].pc \in {"apply", "applying"} => OnTop(th[t].side[1], th[t].kind)'
    BY <2>2, <2>4, <2>5, Zenon DEF CallKnows
  <2>8. QED
    BY <2>5, <2>6, <2>7, Zenon DEF CallKnows
<1>4. QED
  BY <1>2, <1>3, RecordsKept, Zenon DEF SerialInv

\* InitGenesis finds a chain.
LEMMA ResumeStep ==
    ASSUME SerialInv, Resume
    PROVE  SerialInv'
<1>1. /\ tip # None /\ UNCHANGED <<stored, height, txs, work, tip, th>>
      /\ \A t \in Thread : th[t] = Idle
  BY Zenon DEF Resume, tables
<1>2. UpWithTip'
  BY <1>1, Zenon DEF UpWithTip
<1>3. \A t \in Thread : CallKnows(th[t])'
  BY <1>1, IdleKnows, Zenon
<1>4. QED
  BY <1>1, <1>2, <1>3, RecordsKept, Zenon DEF SerialInv

\* The mempool is no part of the chain.
LEMMA AddTxStep ==
    ASSUME SerialInv, NEW x \in Tx, AddTx(x)
    PROVE  SerialInv'
<1>1. UNCHANGED <<tables, up, th>>
  BY Zenon DEF AddTx
<1>2. QED
  BY <1>1, OtherStep, Zenon DEF tables

\* The database is empty at first.
LEMMA SerialInit == Init => SerialInv
<1> SUFFICES ASSUME Init PROVE SerialInv
  BY Zenon
<1>1. /\ tip = None /\ up = FALSE /\ stored = [b \in Block |-> FALSE]
      /\ th = [t \in Thread |-> Idle]
  BY Zenon DEF Init
<1>2. Linked /\ OneBranch /\ WorkRecorded /\ TxsIndexed /\ UpWithTip
  BY <1>1, Zenon DEF Linked, OneBranch, WorkRecorded, TxsIndexed, UpWithTip
<1>3. \A t \in Thread : CallKnows(th[t])
  BY <1>1, Zenon DEF CallKnows, Idle
<1>4. QED
  BY <1>2, <1>3, Zenon DEF SerialInv

\* Every step keeps the invariant.
LEMMA SerialNext ==
    ASSUME Serial, SoleGenesis, Inv, SerialInv, [Next]_vars
    PROVE  SerialInv'
<1>1. CASE Resume
  BY <1>1, ResumeStep, Zenon
<1>2. ASSUME NEW t \in Thread, CreateGenesis(t) PROVE SerialInv'
  BY <1>2, CreateGenesisStep, Zenon
<1>3. ASSUME NEW t \in Thread, Step(t) PROVE SerialInv'
  BY <1>3, CheckTxsStep, WeighStep, ForkChoiceStep, PutSideWorkStep, NoReorg, ApplyBlockStep,
     CommitStep, PutTotalWorkStep, CleanPoolStep, Zenon DEF Step
<1>4. ASSUME NEW t \in Thread, NEW b \in Block, Submit(t, b) PROVE SerialInv'
  BY <1>4, SubmitStep, Zenon
<1>5. ASSUME NEW x \in Tx, AddTx(x) PROVE SerialInv'
  BY <1>5, AddTxStep, Zenon
<1>6. CASE UNCHANGED vars
  <2>1. UNCHANGED <<stored, height, txs, work, tip, th, up>>
    BY <1>6, Zenon DEF vars, tables
  <2>2. QED
    BY <2>1, OtherStep, Zenon
<1>7. Thread # {} /\ (~Crash) /\ \A t \in Thread : ~WriteError(t)
  BY NoFault, ChainAssumption, Zenon
<1>8. QED
  BY <1>1, <1>2, <1>3, <1>4, <1>5, <1>6, <1>7, Zenon DEF Next

\* With one call at a time and no failing write, the invariant holds throughout.
THEOREM SerialInvariance == Serial /\ SoleGenesis => (Spec => [](Inv /\ SerialInv))
<1> SUFFICES ASSUME Serial, SoleGenesis PROVE Spec => [](Inv /\ SerialInv)
  BY Zenon
<1>1. Inv /\ SerialInv /\ [Next]_vars => SerialInv'
  BY SerialNext, Zenon
<1>2. QED
  BY <1>1, Invariance, SerialInit, PTL DEF Spec
=============================================================================
