------------------------- MODULE ChainLedgerProofs -------------------------
(***************************************************************************)
(* When calls come one at a time and no write fails, the chain manager     *)
(* keeps its promise: it implements the ledger of AbstractChain, and what  *)
(* it serves from the indexes is the branch of the tip.                    *)
(***************************************************************************)
EXTENDS ChainReplay, ChainNodeProofs, WellFoundedInduction

-----------------------------------------------------------------------------
(* The inductive invariant *)

\* A call has checked its block, and its batch has come as far as it counts.
LedgerKnows(c) ==
    /\ c.pc \in {"check", "weigh", "choose", "side"} => c.kind = "none"
    /\ c.pc \notin {"idle", "work", "clean"} /\ c.kind # "genesis" =>
        Header[c.side[1]].sound /\ TargetInRange(Header[c.side[1]].bits)
    /\ c.pc \in {"weigh", "choose", "side", "apply", "applying"} /\ c.kind # "genesis" =>
        ValidBlockTxs(c.side[1], MainChainCoins)
    /\ c.pc = "applying" => PartWay(MainChainCoins, c.block, c.done, utxo)

\* The inductive invariant, besides Inv and SerialInv.
LedgerInv ==
    /\ (\A t \in Thread : th[t].pc # "applying") => utxo = MainChainCoins
    /\ \A t \in Thread : LedgerKnows(th[t])

-----------------------------------------------------------------------------
(* Branches and replays *)

\* There is a least one among any heights: inductions over the height of a block.
LEMMA LeastHeight ==
    ASSUME NEW S, S \subseteq Nat, S # {}
    PROVE  \E n \in S : \A m \in S : n <= m
<1>1. PICK n \in S : \A m \in S : ~ (<<m, n>> \in OpToRel(<, Nat))
  BY WFMin, NatLessThanWellFounded, Zenon
<1>2. \A m \in S : ~ (m < n)
  BY <1>1, Zenon DEF OpToRel
<1>3. QED
  BY <1>2

\* The parent of a block that continues a branch.
LEMMA ParentBelow ==
    ASSUME NEW b \in Block, Continues(b)
    PROVE  /\ Header[b].prev \in Block /\ HeightOf(Header[b].prev) \in Nat
           /\ HeightOf(b) = HeightOf(Header[b].prev) + 1
BY BlockType, Zenon DEF Continues

\* The recursion of PathTo descends by height, so it has a solution.
LEMMA PathToDef ==
    ASSUME NEW b \in Block
    PROVE  PathTo[b] = IF Continues(b) THEN Append(PathTo[Header[b].prev], b) ELSE <<b>>
<1> DEFINE Low(n) == {x \in Block : HeightOf(x) < n}
           Solves(f, D) == f = [x \in D |->
                                  IF Continues(x) THEN Append(f[Header[x].prev], x) ELSE <<x>>]
           Bad == {n \in Nat : ~\E f : Solves(f, Low(n))}
<1>1. Bad = {}
  <2> SUFFICES ASSUME Bad # {} PROVE FALSE
    BY Zenon
  <2>1. PICK n \in Bad : \A m \in Bad : n <= m
    <3>1. Bad \subseteq Nat
      BY Zenon
    <3> HIDE DEF Bad
    <3>2. QED
      BY <3>1, LeastHeight, Zenon
  <2>2. n # 0
    <3>1. Low(0) = {}
      BY BlockType
    <3>2. Solves([x \in {} |-> 0], {})
      BY Zenon
    <3>3. QED
      BY <2>1, <3>1, <3>2, Zenon
  <2>3. n - 1 \in Nat /\ n - 1 \notin Bad
    <3>1. n \in Nat
      BY Zenon
    <3> HIDE DEF Bad
    <3>2. QED
      BY <2>1, <2>2, <3>1
  <2>4. PICK f : Solves(f, Low(n - 1))
    BY <2>3, Zenon
  <2> DEFINE g == [x \in Low(n) |->
                     IF Continues(x) THEN Append(f[Header[x].prev], x) ELSE <<x>>]
  <2>5. ASSUME NEW x \in Low(n), Continues(x)
        PROVE  f[Header[x].prev] = g[Header[x].prev]
    <3>1. Header[x].prev \in Low(n - 1) /\ Header[x].prev \in Low(n)
      BY <2>1, <2>3, <2>5, ParentBelow
    <3> DEFINE Value(y) == IF Continues(y) THEN Append(f[Header[y].prev], y) ELSE <<y>>
    <3>2. \A y \in Low(n - 1) : f[y] = Value(y)
      BY <2>4, Zenon
    <3>3. \A y \in Low(n) : g[y] = Value(y)
      BY Zenon
    <3> HIDE DEF g, Low, Solves, Value
    <3>4. QED
      BY <3>1, <3>2, <3>3
  <2>6. Solves(g, Low(n))
    BY <2>5, Zenon
  <2>7. QED
    BY <2>1, <2>6, Zenon
<1>2. MaxHeight + 1 \in Nat /\ Low(MaxHeight + 1) = Block
  BY BlockType, LedgerAssumption
<1>3. \E f : Solves(f, Block)
  BY <1>1, <1>2
<1>4. PathTo = CHOOSE f : Solves(f, Block)
  BY Zenon DEF PathTo
<1> HIDE DEF Bad, Low
<1>5. Solves(PathTo, Block)
  <2> HIDE DEF Solves
  <2>1. QED
    BY <1>3, <1>4, Zenon
<1>6. QED
  BY <1>5, Zenon

\* So has the recursion of Replay.
LEMMA ReplayDef ==
    ASSUME NEW b \in Block
    PROVE  Replay[b] = Connect(IF Continues(b) THEN Replay[Header[b].prev] ELSE NoCoins, b)
<1> DEFINE Low(n) == {x \in Block : HeightOf(x) < n}
           Solves(f, D) == f = [x \in D |->
                                  Connect(IF Continues(x) THEN f[Header[x].prev] ELSE NoCoins, x)]
           Bad == {n \in Nat : ~\E f : Solves(f, Low(n))}
<1>1. Bad = {}
  <2> SUFFICES ASSUME Bad # {} PROVE FALSE
    BY Zenon
  <2>1. PICK n \in Bad : \A m \in Bad : n <= m
    <3>1. Bad \subseteq Nat
      BY Zenon
    <3> HIDE DEF Bad
    <3>2. QED
      BY <3>1, LeastHeight, Zenon
  <2>2. n # 0
    <3>1. Low(0) = {}
      BY BlockType
    <3>2. Solves([x \in {} |-> 0], {})
      BY Zenon
    <3>3. QED
      BY <2>1, <3>1, <3>2, Zenon
  <2>3. n - 1 \in Nat /\ n - 1 \notin Bad
    <3>1. n \in Nat
      BY Zenon
    <3> HIDE DEF Bad
    <3>2. QED
      BY <2>1, <2>2, <3>1
  <2>4. PICK f : Solves(f, Low(n - 1))
    BY <2>3, Zenon
  <2> DEFINE g == [x \in Low(n) |->
                     Connect(IF Continues(x) THEN f[Header[x].prev] ELSE NoCoins, x)]
  <2>5. ASSUME NEW x \in Low(n), Continues(x)
        PROVE  f[Header[x].prev] = g[Header[x].prev]
    <3>1. Header[x].prev \in Low(n - 1) /\ Header[x].prev \in Low(n)
      BY <2>1, <2>3, <2>5, ParentBelow
    <3> DEFINE Value(y) == Connect(IF Continues(y) THEN f[Header[y].prev] ELSE NoCoins, y)
    <3>2. \A y \in Low(n - 1) : f[y] = Value(y)
      BY <2>4, Zenon
    <3>3. \A y \in Low(n) : g[y] = Value(y)
      BY Zenon
    <3> HIDE DEF g, Low, Solves, Value
    <3>4. QED
      BY <3>1, <3>2, <3>3
  <2>6. Solves(g, Low(n))
    BY <2>5, Zenon
  <2>7. QED
    BY <2>1, <2>6, Zenon
<1>2. MaxHeight + 1 \in Nat /\ Low(MaxHeight + 1) = Block
  BY BlockType, LedgerAssumption
<1>3. \E f : Solves(f, Block)
  BY <1>1, <1>2
<1>4. Replay = CHOOSE f : Solves(f, Block)
  BY Zenon DEF Replay
<1> HIDE DEF Bad, Low
<1>5. Solves(Replay, Block)
  <2> HIDE DEF Solves
  <2>1. QED
    BY <1>3, <1>4, Zenon
<1>6. QED
  BY <1>5, Zenon

\* The branch of a block of the main chain is what the height index lists.
LEMMA PathIsIndex ==
    ASSUME Inv, Linked, tip # None, NEW h \in 0 .. HeightOf(tip)
    PROVE  PathTo[height[h]] = [i \in 1 .. h + 1 |-> height[i - 1]]
<1> DEFINE Bad == {n \in Nat : /\ n <= HeightOf(tip)
                               /\ PathTo[height[n]] # [i \in 1 .. n + 1 |-> height[i - 1]]}
<1>1. HeightOf(tip) \in Nat
  BY ChainBlock, Zenon
<1>2. Bad = {}
  <2> SUFFICES ASSUME Bad # {} PROVE FALSE
    BY Zenon
  <2>1. PICK n \in Bad : \A m \in Bad : n <= m
    <3>1. Bad \subseteq Nat
      BY Zenon
    <3> HIDE DEF Bad
    <3>2. QED
      BY <3>1, LeastHeight, Zenon
  <2>2. /\ n \in Nat /\ n \in 0 .. HeightOf(tip)
        /\ PathTo[height[n]] # [i \in 1 .. n + 1 |-> height[i - 1]]
    BY <1>1
  <2>3. height[n] \in Block /\ HeightOf(height[n]) = n
    BY <2>2, ChainBlock, Zenon
  <2>4. CASE n = 0
    <3>1. height[0] = Genesis
      BY Zenon DEF Linked
    <3>2. ~Continues(height[n])
      BY <2>3, <2>4, ParentBelow
    <3>3. PathTo[height[n]] = <<height[n]>>
      BY <2>3, <3>2, PathToDef, Zenon
    <3>4. [i \in 1 .. n + 1 |-> height[i - 1]] = <<height[n]>>
      BY <2>4
    <3>5. QED
      BY <2>2, <3>3, <3>4, Zenon
  <2>5. CASE n # 0
    <3>1. n - 1 \in Nat /\ n - 1 \in 0 .. HeightOf(tip) /\ n \in 1 .. HeightOf(tip)
      BY <1>1, <2>2, <2>5
    <3>2. n - 1 \notin Bad
      <4> HIDE DEF Bad
      <4>1. QED
        BY <2>1, <2>2, <2>5
    <3>3. PathTo[height[n - 1]] = [i \in 1 .. n |-> height[i - 1]]
      <4>1. PathTo[height[n - 1]] = [i \in 1 .. (n - 1) + 1 |-> height[i - 1]]
        BY <3>1, <3>2
      <4>2. (n - 1) + 1 = n
        BY <2>2
      <4>3. QED
        BY <4>1, <4>2, Zenon
    <3>4. height[n - 1] \in Block /\ HeightOf(height[n - 1]) = n - 1 /\ height[n - 1] # None
      BY <3>1, ChainBlock, Zenon
    <3>5. Header[height[n]].prev = height[n - 1]
      BY <3>1, Zenon DEF Linked
    <3>6. Continues(height[n])
      BY <2>2, <2>3, <3>4, <3>5 DEF Continues
    <3>7. PathTo[height[n]] = Append(PathTo[height[n - 1]], height[n])
      BY <2>3, <3>5, <3>6, PathToDef, Zenon
    <3>8. Append([i \in 1 .. n |-> height[i - 1]], height[n]) = [i \in 1 .. n + 1 |-> height[i - 1]]
      BY <2>2
    <3>9. QED
      BY <2>2, <3>3, <3>7, <3>8, Zenon
  <2>6. QED
    BY <2>4, <2>5, Zenon
<1>3. h \in Nat /\ h <= HeightOf(tip)
  BY <1>1
<1>4. QED
  BY <1>2, <1>3, Zenon

\* The main chain.
LEMMA MainChainIs ==
    ASSUME Inv, Linked, tip # None
    PROVE  /\ MainChain = [i \in 1 .. HeightOf(tip) + 1 |-> height[i - 1]]
           /\ HeightOf(tip) \in Nat /\ tip \in Block
<1>1. HeightOf(tip) \in Nat /\ tip \in Block
  BY BlockType, Zenon DEF Inv, TypeOK
<1>2. HeightOf(tip) \in 0 .. HeightOf(tip) /\ height[HeightOf(tip)] = tip
  BY <1>1 DEF Linked
<1>3. QED
  BY <1>1, <1>2, PathIsIndex, Zenon DEF MainChain

-----------------------------------------------------------------------------
(* Steps *)

\* What the ledger knows of a call stays true while the coins, the tip and the call do.
LEMMA MainChainCoinsKept ==
    ASSUME tip' = tip
    PROVE  MainChainCoins' = MainChainCoins
BY Zenon DEF MainChainCoins

\* A step that moves a call on, outside a batch.
LEMMA LedgerStep ==
    ASSUME Serial, LedgerInv, NEW t \in Thread, th[t].pc # "applying", th'[t].pc # "applying",
           UNCHANGED <<utxo, tip>>, LedgerKnows(th[t])'
    PROVE  LedgerInv'
<1>1. \A s \in Thread : s = t
  BY OneThread, Zenon
<1>2. utxo = MainChainCoins
  BY <1>1, Zenon DEF LedgerInv
<1>3. utxo' = MainChainCoins'
  BY <1>2, MainChainCoinsKept, Zenon
<1>4. \A s \in Thread : LedgerKnows(th[s])'
  BY <1>1, Zenon
<1>5. QED
  BY <1>3, <1>4, Zenon DEF LedgerInv

\* Nothing needs to be known of a call that has returned.
LEMMA IdleLedger ==
    ASSUME NEW t \in Thread, th'[t] = Idle
    PROVE  LedgerKnows(th[t])' /\ th'[t].pc # "applying"
BY DEF LedgerKnows, Idle

\* A returning call.
LEMMA LedgerReturn ==
    ASSUME Serial, Inv, LedgerInv, NEW t \in Thread, Return(t), th[t].pc # "applying",
           UNCHANGED <<utxo, tip>>
    PROVE  LedgerInv'
<1>1. th'[t] = Idle
  BY Zenon DEF Return, Inv, TypeOK
<1>2. QED
  BY <1>1, IdleLedger, LedgerStep, Zenon

\* A call goes on with the same block, outside a batch, and knows no less.
LEMMA LedgerCallMoves ==
    ASSUME Serial, LedgerInv, NEW t \in Thread, UNCHANGED <<utxo, tip>>, th'[t].side = th[t].side,
           th[t].pc \in {"check", "weigh", "choose"}, th'[t].pc \in {"weigh", "choose", "side", "apply"},
           th'[t].pc # "apply" => th'[t].kind = th[t].kind,
           th[t].pc = "check" => ValidBlockTxs(th[t].side[1], MainChainCoins)
    PROVE  LedgerInv'
<1>1. LedgerKnows(th[t])
  BY Zenon DEF LedgerInv
<1>2. /\ Header[th[t].side[1]].sound /\ TargetInRange(Header[th[t].side[1]].bits)
      /\ ValidBlockTxs(th[t].side[1], MainChainCoins) /\ th[t].kind = "none"
  BY <1>1, Zenon DEF LedgerKnows
<1>3. PICK b : b = th[t].side[1]
  BY Zenon
<1>4. Header[b].sound /\ TargetInRange(Header[b].bits) /\ ValidBlockTxs(b, MainChainCoins')
  BY <1>2, <1>3, MainChainCoinsKept, Zenon
<1>5. th'[t].side[1] = b /\ th'[t].pc # "applying" /\ th[t].pc # "applying"
  BY <1>3, Zenon
<1>6. th'[t].pc \in {"check", "weigh", "choose", "side"} => th'[t].kind = "none"
  BY <1>2, Zenon
<1>7. LedgerKnows(th[t])'
  BY <1>4, <1>5, <1>6, Zenon DEF LedgerKnows
<1>8. QED
  BY <1>5, <1>7, LedgerStep, Zenon

\* A call begins with a sound header.
LEMMA SubmitLedger ==
    ASSUME Serial, Inv, LedgerInv, NEW t \in Thread, NEW b \in Block, Submit(t, b)
    PROVE  LedgerInv'
<1>1. /\ th[t].pc = "idle" /\ Acceptable(b) /\ UNCHANGED tables
      /\ th' = [th EXCEPT ![t] = [Idle EXCEPT !.pc = "check", !.side = <<b>>]]
  BY Zenon DEF Submit, At
<1>2. th'[t].pc = "check" /\ th'[t].side[1] = b /\ th'[t].kind = "none"
  BY <1>1, Zenon DEF Inv, TypeOK, Idle
<1>3. Header[b].sound /\ TargetInRange(Header[b].bits)
  BY <1>1, Zenon DEF Acceptable, HeaderAccepted, ValidHeader
<1>4. LedgerKnows(th[t])'
  BY <1>2, <1>3, Zenon DEF LedgerKnows
<1>5. QED
  BY <1>1, <1>2, <1>4, LedgerStep, Zenon DEF tables

\* The coins are those of the main chain when no batch is under way.
LEMMA CoinsAtRest ==
    ASSUME Serial, LedgerInv, NEW t \in Thread, th[t].pc # "applying"
    PROVE  utxo = MainChainCoins
<1>1. \A s \in Thread : s = t
  BY OneThread, Zenon
<1>2. QED
  BY <1>1, Zenon DEF LedgerInv

\* ValidateBlockTransactions looks at the coins of the main chain.
LEMMA CheckTxsLedger ==
    ASSUME Serial, Inv, LedgerInv, NEW t \in Thread, CheckTxs(t)
    PROVE  LedgerInv'
<1>1. th[t].pc = "check" /\ UNCHANGED <<utxo, tip>> /\ th[t] \in Call
  BY CallType, Zenon DEF CheckTxs, At, tables
<1>2. CASE Return(t)
  BY <1>1, <1>2, LedgerReturn, Zenon
<1>3. CASE ValidBlockTxs(th[t].side[1], utxo) /\ Goto(t, "weigh")
  <2>1. th'[t].pc = "weigh" /\ th'[t].side = th[t].side /\ th'[t].kind = th[t].kind
    BY <1>1, <1>3, Zenon DEF Goto, Inv, TypeOK, Call
  <2>2. utxo = MainChainCoins
    BY <1>1, CoinsAtRest, Zenon
  <2>3. ValidBlockTxs(th[t].side[1], MainChainCoins)
    BY <1>3, <2>2, Zenon
  <2>4. QED
    BY <1>1, <2>1, <2>3, LedgerCallMoves, Zenon
<1>4. QED
  BY <1>2, <1>3, Zenon DEF CheckTxs

\* The block is weighed.
LEMMA WeighLedger ==
    ASSUME Serial, Inv, LedgerInv, NEW t \in Thread, Weigh(t)
    PROVE  LedgerInv'
<1>1. /\ th[t].pc = "weigh" /\ UNCHANGED <<utxo, tip>> /\ th[t] \in Call
      /\ th' = [th EXCEPT ![t].pc = "choose", ![t].gain = WorkUpTo(th[t].side[1])]
  BY CallType, Zenon DEF Weigh, At, tables
<1>2. th'[t].pc = "choose" /\ th'[t].side = th[t].side /\ th'[t].kind = th[t].kind
  BY <1>1, Zenon DEF Inv, TypeOK, Call
<1>3. QED
  BY <1>1, <1>2, LedgerCallMoves, Zenon

\* The fork choice; no reorganisation begins.
LEMMA ForkChoiceLedger ==
    ASSUME Serial, Inv, LedgerInv, SerialInv', NEW t \in Thread, ForkChoice(t)
    PROVE  LedgerInv'
<1>1. th[t].pc = "choose" /\ UNCHANGED <<utxo, tip>> /\ th[t] \in Call
  BY CallType, Zenon DEF ForkChoice, At, tables
<1>2. /\ th'[t].side = th[t].side /\ th'[t].pc \in {"apply", "side", "collect"}
      /\ th'[t].pc = "side" => th'[t].kind = th[t].kind
  <2>1. CASE \E kind \in {"first", "extend"} : Direct(t, kind)
    BY <1>1, <2>1 DEF Direct, Inv, TypeOK, Call
  <2>2. CASE Goto(t, "side")
    BY <1>1, <2>2, Zenon DEF Goto, Inv, TypeOK, Call
  <2>3. CASE th' = [th EXCEPT ![t].pc = "collect", ![t].kind = "reorg"]
    BY <1>1, <2>3, Zenon DEF Inv, TypeOK, Call
  <2>4. QED
    BY <2>1, <2>2, <2>3, Zenon DEF ForkChoice
<1>3. th'[t].pc # "collect"
  BY Zenon DEF SerialInv, CallKnows
<1>4. QED
  BY <1>1, <1>2, <1>3, LedgerCallMoves, Zenon

\* A side block leaves the coins alone.
LEMMA PutSideWorkLedger ==
    ASSUME Serial, Inv, LedgerInv, NEW t \in Thread, PutSideWork(t)
    PROVE  LedgerInv'
BY LedgerReturn, Zenon DEF PutSideWork, At

\* ApplyBlock builds its batch on the coins of the main chain.
LEMMA ApplyBlockLedger ==
    ASSUME Serial, Inv, SerialInv, LedgerInv, NEW t \in Thread, ApplyBlock(t)
    PROVE  LedgerInv'
<1>1. /\ th[t].pc = "apply" /\ UNCHANGED <<utxo, tip>> /\ th[t] \in Call
      /\ th' = [th EXCEPT ![t].pc = "applying", ![t].block = th[t].side[th[t].left],
                          ![t].log = UndoOf(th[t].side[th[t].left], utxo)]
  BY CallType, Zenon DEF ApplyBlock, At, tables
<1>2. th[t].done = 0
  BY <1>1, CallType, Zenon DEF Consistent
<1>3. /\ th'[t].pc = "applying" /\ th'[t].side = th[t].side /\ th'[t].kind = th[t].kind
      /\ th'[t].done = 0
  BY <1>1, <1>2, Zenon DEF Inv, TypeOK, Call
<1>4. PICK b, kind, block : b = th[t].side[1] /\ kind = th[t].kind /\ block = th'[t].block
  BY Zenon
<1>5. LedgerKnows(th[t]) /\ \A s \in Thread : s = t
  BY OneThread, Zenon DEF LedgerInv
<1>6. kind # "genesis" =>
        /\ Header[b].sound /\ TargetInRange(Header[b].bits) /\ ValidBlockTxs(b, MainChainCoins)
  BY <1>1, <1>4, <1>5, Zenon DEF LedgerKnows
<1>7. MainChainCoins' = MainChainCoins /\ utxo' = MainChainCoins
  BY <1>1, CoinsAtRest, MainChainCoinsKept, Zenon
<1>8. PartWay(MainChainCoins', block, 0, utxo')
  BY <1>7, PartWayStart, Zenon
<1>9. th'[t].pc # "idle" /\ th'[t].pc \notin {"check", "weigh", "choose", "side"}
  BY <1>3, Zenon
<1>10. LedgerKnows(th[t])'
  BY <1>3, <1>4, <1>6, <1>7, <1>8, <1>9, Zenon DEF LedgerKnows
<1>11. QED
  BY <1>3, <1>5, <1>10, Zenon DEF LedgerInv

\* What a chunk of the batch makes of the coins.
LEMMA ConnectingCoins ==
    ASSUME Serial, Inv, SerialInv, NEW t \in Thread, NEW b, NEW k, NEW kind, Connecting(t, b, k, kind),
           NEW o \in Outpoint
    PROVE  IF Touches(b, k, o) THEN Sets(b, k, o, utxo'[o]) ELSE utxo'[o] = utxo[o]
<1>1. th[t].pc = "applying" /\ Commit(t) /\ b = th[t].block /\ k = th[t].done + 1
  BY Zenon DEF Connecting
<1>2. b \in Block /\ k \in 1 .. 2 * Len(Body[b]) + 5
  BY <1>1, ApplyingBlock, Zenon
<1>3. PICK log : log = th[t].log
  BY Zenon
<1>4. log \in Log
  BY <1>1, <1>3, CallType, Zenon DEF Consistent
<1>5. utxo' = Execute(utxo, "utxo", ApplyBatch(b, log)[k])
  BY <1>1, <1>3, Zenon DEF Commit, BatchOf
<1>6. QED
  BY <1>2, <1>4, <1>5, CoinChunk, Zenon

\* One more chunk of the batch has been written.
LEMMA ConnectingPartWay ==
    ASSUME Serial, Inv, SerialInv, LedgerInv, NEW t \in Thread, NEW b, NEW k, NEW kind,
           Connecting(t, b, k, kind)
    PROVE  PartWay(MainChainCoins, b, k, utxo')
<1>1. k \in Nat /\ k >= 1 /\ th[t].done = k - 1
  BY ConnectingChunk, Zenon
<1>2. k - 1 \in Nat /\ (k - 1) + 1 = k
  BY <1>1
<1>3. th[t].pc = "applying" /\ b = th[t].block
  BY ConnectingCall, Zenon
<1>4. PartWay(MainChainCoins, b, k - 1, utxo)
  BY <1>1, <1>3, Zenon DEF LedgerInv, LedgerKnows
<1>5. PICK d \in Nat : d = k - 1 /\ d + 1 = k
  BY <1>2, Zenon
<1>6. PartWay(MainChainCoins, b, d, utxo)
  BY <1>4, <1>5, Zenon
<1>7. \A o \in Outpoint : IF Touches(b, d + 1, o) THEN Sets(b, d + 1, o, utxo'[o])
                                                  ELSE utxo'[o] = utxo[o]
  BY <1>5, ConnectingCoins, Zenon
<1>8. PartWay(MainChainCoins, b, d + 1, utxo')
  BY <1>6, <1>7, PartWayNext, Zenon
<1>9. QED
  BY <1>5, <1>8, Zenon

\* The coins after the block that goes on top.
LEMMA ReplayOnTop ==
    ASSUME Inv, NEW b \in Block, NEW kind, OnTop(b, kind)
    PROVE  Replay[b] = Connect(MainChainCoins, b)
<1>1. CASE b = Genesis /\ tip = None
  <2>1. HeightOf(b) = 0
    BY <1>1, LedgerAssumption, Zenon DEF HeightOf
  <2>2. ~Continues(b)
    BY <2>1, ParentBelow
  <2>3. QED
    BY <1>1, <2>2, ReplayDef, Zenon DEF MainChainCoins
<1>2. CASE tip # None /\ Header[b].prev = tip /\ HeightOf(b) = HeightOf(tip) + 1
  <2>1. Continues(b)
    BY <1>2, Zenon DEF Continues
  <2>2. QED
    BY <1>2, <2>1, ReplayDef, Zenon DEF MainChainCoins
<1>3. QED
  BY <1>1, <1>2, Zenon DEF OnTop

\* A chunk before the last.
LEMMA MiddleLedger ==
    ASSUME Serial, Inv, SerialInv, LedgerInv, NEW t \in Thread, NEW b, NEW k, NEW kind,
           Connecting(t, b, k, kind), ~IsLast(b, k)
    PROVE  LedgerInv' /\ tip' = tip
<1>1. tip' = tip
  BY ConnectingWrites, Zenon
<1>2. MainChainCoins' = MainChainCoins
  BY <1>1, MainChainCoinsKept, Zenon
<1>3. /\ th'[t].pc = "applying" /\ th'[t].side = th[t].side /\ th'[t].kind = kind
      /\ th'[t].block = b /\ th'[t].done = k
  BY ConnectingMoves, Zenon
<1>4. b = th[t].side[1] /\ th[t].pc = "applying" /\ kind = th[t].kind
  BY ConnectingCall
<1>5. LedgerKnows(th[t])
  BY Zenon DEF LedgerInv
<1>6. kind # "genesis" =>
        /\ Header[b].sound /\ TargetInRange(Header[b].bits) /\ ValidBlockTxs(b, MainChainCoins)
  BY <1>4, <1>5, Zenon DEF LedgerKnows
<1>7. PartWay(MainChainCoins', b, k, utxo')
  BY <1>2, ConnectingPartWay, Zenon
<1>8. th'[t].pc # "idle" /\ th'[t].pc \notin {"check", "weigh", "choose", "side"}
  BY <1>3, Zenon
<1>9. th'[t].side[1] = b
  BY <1>3, <1>4, Zenon
<1>10. LedgerKnows(th[t])'
  BY <1>2, <1>3, <1>6, <1>7, <1>8, <1>9, Zenon DEF LedgerKnows
<1>11. \A s \in Thread : s = t
  BY OneThread, Zenon
<1>12. QED
  BY <1>1, <1>3, <1>10, <1>11, Zenon DEF LedgerInv

\* The last chunk: the tip moves to the block, and the coins are those after it.
LEMMA LastLedger ==
    ASSUME Serial, Inv, Inv', SerialInv, LedgerInv, NEW t \in Thread, NEW b, NEW k, NEW kind,
           Connecting(t, b, k, kind), IsLast(b, k)
    PROVE  LedgerInv' /\ tip' = b /\ utxo' = Connect(MainChainCoins, b)
<1>1. tip' = b
  BY ConnectingWrites, Zenon
<1>2. b \in Block /\ b # None /\ Len(Body[b]) \in Nat
  BY ConnectingCall, BlockType, LedgerAssumption
<1>3. k \in Nat /\ k >= 2 * Len(Body[b]) + 4
  BY <1>2 DEF IsLast
<1>4. utxo' \in Log
  BY Zenon DEF Inv, TypeOK
<1>5. PartWay(MainChainCoins, b, k, utxo')
  BY ConnectingPartWay, Zenon
<1>6. utxo' = Connect(MainChainCoins, b)
  BY <1>2, <1>3, <1>4, <1>5, PartWayDone, Zenon
<1>7. MainChainCoins' = Replay[b]
  BY <1>1, <1>2, Zenon DEF MainChainCoins
<1>8. OnTop(b, kind)
  BY ConnectingOnTop, Zenon
<1>9. utxo' = MainChainCoins'
  BY <1>2, <1>6, <1>7, <1>8, ReplayOnTop, Zenon
<1>10. th'[t].pc = "work"
  BY ConnectingMoves, Zenon
<1>11. LedgerKnows(th[t])'
  BY <1>10, Zenon DEF LedgerKnows
<1>12. \A s \in Thread : s = t
  BY OneThread, Zenon
<1>13. LedgerInv'
  BY <1>9, <1>11, <1>12, Zenon DEF LedgerInv
<1>14. QED
  BY <1>1, <1>6, <1>13, Zenon

\* Batch.Commit.
LEMMA CommitLedger ==
    ASSUME Serial, Inv, Inv', SerialInv, LedgerInv, NEW t \in Thread, Commit(t)
    PROVE  LedgerInv'
<1>1. th[t].pc = "applying"
  BY Zenon DEF Commit, At, SerialInv, CallKnows
<1>2. PICK b, k, kind : b = th[t].block /\ k = th[t].done + 1 /\ kind = th[t].kind
  BY Zenon
<1>3. Connecting(t, b, k, kind)
  BY <1>1, <1>2, Zenon DEF Connecting
<1>4. QED
  BY <1>3, MiddleLedger, LastLedger, Zenon

\* The work is recorded; nothing needs to be known any more.
LEMMA PutTotalWorkLedger ==
    ASSUME Serial, Inv, SerialInv, LedgerInv, NEW t \in Thread, PutTotalWork(t)
    PROVE  LedgerInv'
<1>1. th[t].pc = "work" /\ UNCHANGED <<utxo, tip>> /\ th[t] \in Call
  BY CallType, Zenon DEF PutTotalWork, At
<1>2. th[t].kind \in {"genesis", "extend"}
  BY <1>1, Zenon DEF SerialInv, CallKnows
<1>3. th[t].left = 1
  <2>1. Consistent(th[t], stored, undo) /\ th[t].kind # "reorg"
    BY <1>2, CallType, Zenon
  <2>2. QED
    BY <1>1, <2>1, Zenon DEF Consistent
<1>4. CASE Return(t)
  BY <1>1, <1>4, LedgerReturn, Zenon
<1>5. CASE Goto(t, "clean")
  <2>1. th'[t].pc = "clean"
    BY <1>1, <1>5, Zenon DEF Goto, Inv, TypeOK, Call
  <2>2. LedgerKnows(th[t])'
    BY <2>1, Zenon DEF LedgerKnows
  <2>3. QED
    BY <1>1, <2>1, <2>2, LedgerStep, Zenon
<1>6. QED
  BY <1>3, <1>4, <1>5 DEF PutTotalWork

\* RemoveMinedBlock ends the call.
LEMMA CleanPoolLedger ==
    ASSUME Serial, Inv, SerialInv, LedgerInv, NEW t \in Thread, CleanPool(t)
    PROVE  LedgerInv'
<1>1. th[t].pc = "clean" /\ UNCHANGED <<utxo, tip>> /\ th[t] \in Call
  BY CallType, Zenon DEF CleanPool, At, tables
<1>2. CASE Return(t)
  BY <1>1, <1>2, LedgerReturn, Zenon
<1>3. CASE th' = [th EXCEPT ![t].left = @ + 1]
  <2>1. th'[t].pc = "clean"
    BY <1>1, <1>3, Zenon DEF Inv, TypeOK, Call
  <2>2. LedgerKnows(th[t])'
    BY <2>1, Zenon DEF LedgerKnows
  <2>3. QED
    BY <1>1, <2>1, <2>2, LedgerStep, Zenon
<1>4. QED
  BY <1>2, <1>3, Zenon DEF CleanPool

\* The genesis block is not checked.
LEMMA CreateGenesisLedger ==
    ASSUME Serial, Inv, LedgerInv, NEW t \in Thread, CreateGenesis(t)
    PROVE  LedgerInv'
<1>1. /\ th[t] = Idle /\ UNCHANGED <<utxo, tip>>
      /\ th' = [th EXCEPT ![t] = [Idle EXCEPT !.pc = "apply", !.kind = "genesis",
                                              !.side = <<Genesis>>, !.left = 1,
                                              !.gain = BlockWork(Genesis)]]
  BY Zenon DEF CreateGenesis, tables
<1>2. th'[t].pc = "apply" /\ th'[t].kind = "genesis" /\ th[t].pc = "idle"
  BY <1>1 DEF Inv, TypeOK, Idle
<1>3. LedgerKnows(th[t])'
  BY <1>2, Zenon DEF LedgerKnows
<1>4. QED
  BY <1>1, <1>2, <1>3, LedgerStep, Zenon

\* A step that is none of a call's.
LEMMA OtherLedger ==
    ASSUME LedgerInv, UNCHANGED <<utxo, tip, th>>
    PROVE  LedgerInv'
<1>1. MainChainCoins' = MainChainCoins
  BY MainChainCoinsKept, Zenon
<1>2. (\A t \in Thread : th'[t].pc # "applying") => utxo' = MainChainCoins'
  BY <1>1, Zenon DEF LedgerInv
<1>3. ASSUME NEW t \in Thread PROVE LedgerKnows(th[t])'
  <2>1. LedgerKnows(th[t])
    BY Zenon DEF LedgerInv
  <2>2. th'[t] = th[t] /\ utxo' = utxo
    BY Zenon
  <2>3. QED
    BY <1>1, <2>1, <2>2, Zenon DEF LedgerKnows
<1>4. QED
  BY <1>2, <1>3, Zenon DEF LedgerInv

\* The database is empty at first.
LEMMA LedgerInit == Init => LedgerInv
<1> SUFFICES ASSUME Init PROVE LedgerInv
  BY Zenon
<1>1. utxo = NoCoins /\ tip = None /\ \A t \in Thread : th[t].pc = "idle"
  BY Zenon DEF Init, Idle, NoCoins
<1>2. utxo = MainChainCoins
  BY <1>1, Zenon DEF MainChainCoins
<1>3. \A t \in Thread : LedgerKnows(th[t])
  BY <1>1, Zenon DEF LedgerKnows
<1>4. QED
  BY <1>2, <1>3, Zenon DEF LedgerInv

\* Every step keeps the invariant.
LEMMA LedgerNext ==
    ASSUME Serial, Inv, Inv', SerialInv, SerialInv', LedgerInv, [Next]_vars
    PROVE  LedgerInv'
<1>1. CASE Resume
  <2>1. UNCHANGED <<utxo, tip, th>>
    BY <1>1, Zenon DEF Resume, tables
  <2>2. QED
    BY <2>1, OtherLedger, Zenon
<1>2. ASSUME NEW t \in Thread, CreateGenesis(t) PROVE LedgerInv'
  BY <1>2, CreateGenesisLedger, Zenon
<1>3. ASSUME NEW t \in Thread, Step(t) PROVE LedgerInv'
  BY <1>3, CheckTxsLedger, WeighLedger, ForkChoiceLedger, PutSideWorkLedger, NoReorg,
     ApplyBlockLedger, CommitLedger, PutTotalWorkLedger, CleanPoolLedger, Zenon DEF Step
<1>4. ASSUME NEW t \in Thread, NEW b \in Block, Submit(t, b) PROVE LedgerInv'
  BY <1>4, SubmitLedger, Zenon
<1>5. ASSUME NEW x \in Tx, AddTx(x) PROVE LedgerInv'
  <2>1. UNCHANGED <<utxo, tip, th>>
    BY <1>5, Zenon DEF AddTx, tables
  <2>2. QED
    BY <2>1, OtherLedger, Zenon
<1>6. CASE UNCHANGED vars
  <2>1. UNCHANGED <<utxo, tip, th>>
    BY <1>6, Zenon DEF vars, tables
  <2>2. QED
    BY <2>1, OtherLedger, Zenon
<1>7. Thread # {} /\ (~Crash) /\ \A t \in Thread : ~WriteError(t)
  BY NoFault, ChainAssumption, Zenon
<1>8. QED
  BY <1>1, <1>2, <1>3, <1>4, <1>5, <1>6, <1>7, Zenon DEF Next

\* With one call at a time and no failing write, the invariants hold throughout.
THEOREM LedgerInvariance ==
    Serial /\ SoleGenesis => (Spec => [](Inv /\ SerialInv /\ LedgerInv))
<1> SUFFICES ASSUME Serial, SoleGenesis PROVE Spec => [](Inv /\ SerialInv /\ LedgerInv)
  BY Zenon
<1>1. Inv /\ Inv' /\ SerialInv /\ SerialInv' /\ LedgerInv /\ [Next]_vars => LedgerInv'
  BY LedgerNext, Zenon
<1>2. QED
  BY <1>1, SerialInvariance, LedgerInit, PTL DEF Spec

-----------------------------------------------------------------------------
(* What the database answers *)

\* Between calls every thread is at rest.
LEMMA SettledRests ==
    ASSUME Settled
    PROVE  up /\ tip # None /\ \A t \in Thread : th[t].pc = "idle"
BY DEF Settled, Idle

\* A stored block is on the main chain between calls.
LEMMA SettledChain ==
    ASSUME Serial, Inv, SerialInv, Settled, NEW b \in Block, stored[b]
    PROVE  HeightOf(b) \in 0 .. HeightOf(tip) /\ height[HeightOf(b)] = b
<1>1. PICK t \in Thread : th[t].pc = "idle"
  BY SettledRests, ChainAssumption, Zenon
<1>2. QED
  BY <1>1, StoredOnChain, Zenon

\* The coins between calls.
LEMMA ReplayWhenSettled == Serial /\ LedgerInv => UtxoIsReplay
<1> SUFFICES ASSUME Serial, LedgerInv, Settled PROVE utxo = Replay[tip]
  BY Zenon DEF UtxoIsReplay
<1>1. tip # None /\ \A t \in Thread : th[t].pc # "applying"
  BY SettledRests, Zenon
<1>2. utxo = MainChainCoins
  BY <1>1, Zenon DEF LedgerInv
<1>3. QED
  BY <1>1, <1>2, Zenon DEF MainChainCoins

\* The work recorded between calls.
LEMMA WorkWhenSettled == Inv /\ SerialInv => TipWorkExact
<1> SUFFICES ASSUME Inv, SerialInv, Settled PROVE work[tip] = ChainWork[tip]
  BY Zenon DEF TipWorkExact
<1>1. tip # None /\ \A t \in Thread : th[t].pc # "work"
  BY SettledRests, Zenon
<1>2. HeightOf(tip) \in Nat
  BY <1>1, BlockType, Zenon DEF Inv, TypeOK
<1>3. height[HeightOf(tip)] = tip /\ HeightOf(tip) \in 0 .. HeightOf(tip)
  BY <1>1, <1>2 DEF SerialInv, Linked
<1>4. QED
  BY <1>1, <1>3, Zenon DEF SerialInv, WorkRecorded

\* The blocks stored between calls.
LEMMA HeaviestWhenSettled == Serial /\ Inv /\ SerialInv => HeaviestStored
<1> SUFFICES ASSUME Serial, Inv, SerialInv, Settled, NEW b \in Block, stored[b]
             PROVE  ChainWork[b] <= ChainWork[tip]
  BY Zenon DEF HeaviestStored
<1>1. HeightOf(b) \in 0 .. HeightOf(tip) /\ height[HeightOf(b)] = b
  BY SettledChain, Zenon
<1>2. QED
  BY <1>1, SettledRests, Zenon DEF SerialInv, Linked

\* The indexes between calls.
LEMMA IndexedWhenSettled == Inv /\ SerialInv => MainChainIndexed
<1> SUFFICES ASSUME Inv, SerialInv, Settled
             PROVE  /\ \A i \in DOMAIN MainChain : height[i - 1] = MainChain[i]
                    /\ \A x \in MainChainTxs : txs[x]
  BY Zenon DEF MainChainIndexed
<1>1. tip # None /\ Linked /\ TxsIndexed
  BY SettledRests, Zenon DEF SerialInv
<1>2. /\ MainChain = [i \in 1 .. HeightOf(tip) + 1 |-> height[i - 1]]
      /\ HeightOf(tip) \in Nat
  BY <1>1, MainChainIs, Zenon
<1>3. \A i \in DOMAIN MainChain : height[i - 1] = MainChain[i] /\ i - 1 \in 0 .. HeightOf(tip)
  BY <1>2
<1>4. ASSUME NEW x \in MainChainTxs PROVE txs[x]
  <2>1. PICK i \in DOMAIN MainChain : x \in Range(Body[MainChain[i]])
    BY DEF MainChainTxs, Range
  <2>2. PICK j \in DOMAIN Body[MainChain[i]] : x = Body[MainChain[i]][j]
    BY <2>1, Zenon DEF Range
  <2>3. QED
    BY <1>1, <1>3, <2>2, Zenon DEF TxsIndexed
<1>5. QED
  BY <1>3, <1>4, Zenon

\* The smallest of one number.
LEMMA MinOfOne ==
    ASSUME NEW n \in Nat
    PROVE  Min({n}) = n
BY DEF Min

\* How long a sequence is.
LEMMA LenOfFunction ==
    ASSUME NEW n \in Nat, NEW f, DOMAIN f = 1 .. n
    PROVE  Len(f) = n
OBVIOUS

\* The headers that gatherHeaders sends to a node on block b of the main chain.
LEMMA GatheredAbove ==
    ASSUME Inv, Linked, tip # None, NEW b \in Block, stored[b], HeightOf(b) \in 0 .. HeightOf(tip)
    PROVE  GatherHeaders(b) = [i \in 1 .. HeightOf(tip) - HeightOf(b) |-> height[HeightOf(b) + i]]
<1>1. HeightOf(tip) \in Nat /\ HeightOf(b) \in Nat
  BY BlockType, Zenon DEF Inv, TypeOK
<1> DEFINE start == HeightOf(b) + 1
           gaps == {h \in start .. HeightOf(tip) : HeaderIndex[h] = None}
<1>2. gaps = {}
  <2> SUFFICES ASSUME NEW h \in start .. HeightOf(tip) PROVE HeaderIndex[h] # None
    BY Zenon
  <2>1. h \in 0 .. HeightOf(tip)
    BY <1>1
  <2>2. QED
    BY <2>1, IndexIsHeight, ChainBlock, Zenon
<1>3. Min(gaps \cup {HeightOf(tip) + 1}) = HeightOf(tip) + 1
  <2>1. gaps \cup {HeightOf(tip) + 1} = {HeightOf(tip) + 1}
    BY <1>2, Zenon
  <2>2. HeightOf(tip) + 1 \in Nat
    BY <1>1
  <2>3. QED
    BY <2>1, <2>2, MinOfOne, Zenon
<1>4. GatherHeaders(b) = [i \in 1 .. Min(gaps \cup {HeightOf(tip) + 1}) - start |-> HeaderIndex[start + i - 1]]
  BY Zenon DEF GatherHeaders
<1>5. HeaderIndex = height
  BY IndexIsHeight, Zenon
<1> HIDE DEF gaps
<1>6. GatherHeaders(b) = [i \in 1 .. (HeightOf(tip) + 1) - start |-> height[start + i - 1]]
  BY <1>3, <1>4, <1>5, Zenon
<1>7. (HeightOf(tip) + 1) - start = HeightOf(tip) - HeightOf(b)
  BY <1>1
<1>8. \A i \in 1 .. HeightOf(tip) - HeightOf(b) : start + i - 1 = HeightOf(b) + i
  BY <1>1
<1> HIDE DEF start
<1>9. QED
  BY <1>6, <1>7, <1>8, Zenon

\* The headers served between calls.
LEMMA HeadersWhenSettled == Serial /\ Inv /\ SerialInv => HeadersFollow
<1> SUFFICES ASSUME Serial, Inv, SerialInv, Settled, NEW b \in Block, stored[b]
             PROVE  /\ Contiguous(GatherHeaders(b), b)
                    /\ HeightOf(b) + Len(GatherHeaders(b)) = HeightOf(tip)
  BY Zenon DEF HeadersFollow
<1>1. HeightOf(b) \in 0 .. HeightOf(tip) /\ height[HeightOf(b)] = b
  BY SettledChain, Zenon
<1>2. tip # None /\ Linked
  BY SettledRests, Zenon DEF SerialInv
<1>3. HeightOf(tip) \in Nat /\ HeightOf(b) \in Nat
  BY <1>2, BlockType, Zenon DEF Inv, TypeOK
<1>4. PICK n \in Nat : n = HeightOf(tip) - HeightOf(b)
  BY <1>1, <1>3
<1>5. PICK headers : headers = GatherHeaders(b)
  BY Zenon
<1>6. headers = [i \in 1 .. n |-> height[HeightOf(b) + i]]
  BY <1>1, <1>2, <1>4, <1>5, GatheredAbove, Zenon
<1>7. Len(headers) = n
  BY <1>6, LenOfFunction, Zenon
<1>8. Contiguous(headers, b)
  <2> SUFFICES ASSUME NEW i \in 1 .. n
               PROVE  Header[headers[i]].prev = IF i = 1 THEN b ELSE headers[i - 1]
    BY <1>6, Zenon DEF Contiguous
  <2>1. HeightOf(b) + i \in 1 .. HeightOf(tip)
    BY <1>3, <1>4
  <2>2. Header[height[HeightOf(b) + i]].prev = height[(HeightOf(b) + i) - 1]
    <3>1. \A h \in 1 .. HeightOf(tip) : Header[height[h]].prev = height[h - 1]
      BY <1>2, Zenon DEF Linked
    <3>2. QED
      BY <2>1, <3>1, Zenon
  <2>3. headers[i] = height[HeightOf(b) + i]
    BY <1>6, Zenon
  <2>4. CASE i = 1
    <3>1. (HeightOf(b) + i) - 1 = HeightOf(b)
      BY <1>3, <2>4
    <3>2. QED
      BY <1>1, <2>2, <2>3, <2>4, <3>1, Zenon
  <2>5. CASE i # 1
    <3>1. i - 1 \in 1 .. n /\ (HeightOf(b) + i) - 1 = HeightOf(b) + (i - 1)
      BY <1>3, <2>5
    <3>2. headers[i - 1] = height[(HeightOf(b) + i) - 1]
      BY <1>6, <3>1, Zenon
    <3>3. QED
      BY <2>2, <2>3, <2>5, <3>2, Zenon
  <2>6. QED
    BY <2>4, <2>5, Zenon
<1>9. QED
  BY <1>3, <1>4, <1>5, <1>7, <1>8

\* Once a call has returned, the coins are those of a replay of the main chain.
THEOREM CoinsAreReplay == Serial /\ SoleGenesis => (Spec => []UtxoIsReplay)
<1> SUFFICES ASSUME Serial, SoleGenesis PROVE Spec => []UtxoIsReplay
  BY Zenon
<1>1. LedgerInv => UtxoIsReplay
  BY ReplayWhenSettled, Zenon
<1>2. QED
  BY <1>1, LedgerInvariance, PTL

\* Once a call has returned, the work recorded for the tip is its true work.
THEOREM TipWorkIsExact == Serial /\ SoleGenesis => (Spec => []TipWorkExact)
<1> SUFFICES ASSUME Serial, SoleGenesis PROVE Spec => []TipWorkExact
  BY Zenon
<1>1. QED
  BY WorkWhenSettled, LedgerInvariance, PTL

\* Once a call has returned, no stored block has more work than the tip.
THEOREM TipIsHeaviest == Serial /\ SoleGenesis => (Spec => []HeaviestStored)
<1> SUFFICES ASSUME Serial, SoleGenesis PROVE Spec => []HeaviestStored
  BY Zenon
<1>1. Inv /\ SerialInv => HeaviestStored
  BY HeaviestWhenSettled, Zenon
<1>2. QED
  BY <1>1, LedgerInvariance, PTL

\* Once a call has returned, the height index and the transaction index answer from
\* the branch of the tip.
THEOREM IndexesFollowTip == Serial /\ SoleGenesis => (Spec => []MainChainIndexed)
<1> SUFFICES ASSUME Serial, SoleGenesis PROVE Spec => []MainChainIndexed
  BY Zenon
<1>1. QED
  BY IndexedWhenSettled, LedgerInvariance, PTL

\* Once a call has returned, gatherHeaders leads a node on any stored block to the tip.
THEOREM HeadersLeadToTip == Serial /\ SoleGenesis => (Spec => []HeadersFollow)
<1> SUFFICES ASSUME Serial, SoleGenesis PROVE Spec => []HeadersFollow
  BY Zenon
<1>1. Inv /\ SerialInv => HeadersFollow
  BY HeadersWhenSettled, Zenon
<1>2. QED
  BY <1>1, LedgerInvariance, PTL
-----------------------------------------------------------------------------
(* The refinement *)

\* The coins between batches are those of the main chain.
Seamless == CoinsBetweenBatches = MainChainCoins

\* Nothing of a batch shows.
LEMMA NoBatchShows ==
    ASSUME Serial, Inv, LedgerInv
    PROVE  Seamless
<1> SUFFICES CoinsBetweenBatches = MainChainCoins
  BY Zenon DEF Seamless
<1>1. CASE \E t \in Thread : MidCommit(t)
  BY <1>1, Zenon DEF CoinsBetweenBatches
<1>2. CASE ~\E t \in Thread : MidCommit(t)
  <2>1. CoinsBetweenBatches = utxo
    BY <1>2, Zenon DEF CoinsBetweenBatches
  <2>2. PICK t \in Thread : TRUE
    BY ChainAssumption, Zenon
  <2>3. CASE th[t].pc # "applying"
    BY <2>1, <2>3, CoinsAtRest, Zenon
  <2>4. CASE th[t].pc = "applying"
    <3>1. th[t].done = 0 /\ LedgerKnows(th[t])
      BY <1>2, Zenon DEF MidCommit, LedgerInv
    <3>2. PartWay(MainChainCoins, th[t].block, 0, utxo)
      BY <2>4, <3>1, Zenon DEF LedgerKnows
    <3>3. 1 .. 0 = {}
      OBVIOUS
    <3>4. \A o \in Outpoint : utxo[o] = MainChainCoins[o]
      BY <3>2, <3>3, Zenon DEF PartWay
    <3>5. utxo \in [Outpoint -> Coin \cup {None}]
      BY Zenon DEF Inv, TypeOK, Log
    <3>6. MainChainCoins = [o \in Outpoint |-> MainChainCoins[o]]
      <4>1. CASE tip = None
        BY <4>1, Zenon DEF MainChainCoins, NoCoins
      <4>2. CASE tip # None
        <5>1. tip \in Block
          BY <4>2, Zenon DEF Inv, TypeOK
        <5>2. PICK before : Replay[tip] = Connect(before, tip)
          BY <5>1, ReplayDef, Zenon
        <5>3. DOMAIN Connect(before, tip) = Outpoint
              /\ Connect(before, tip) = [o \in DOMAIN Connect(before, tip) |-> Connect(before, tip)[o]]
          BY Zenon DEF Connect
        <5>4. QED
          BY <4>2, <5>2, <5>3, Zenon DEF MainChainCoins
      <4>3. QED
        BY <4>1, <4>2, Zenon
    <3>7. utxo = [o \in Outpoint |-> utxo[o]]
      BY <3>5, Zenon
    <3>8. [o \in Outpoint |-> utxo[o]] = [o \in Outpoint |-> MainChainCoins[o]]
      BY <3>4, Zenon
    <3>9. QED
      BY <2>1, <3>6, <3>7, <3>8, Zenon
  <2>5. QED
    BY <2>3, <2>4, Zenon
<1>3. QED
  BY <1>1, <1>2, Zenon

\* Only the last chunk of a batch moves the tip.
LEMMA TipMoves ==
    ASSUME Serial, Inv, SerialInv, [Next]_vars
    PROVE  \/ tip' = tip
           \/ \E t \in Thread : \E b, k, kind : Connecting(t, b, k, kind) /\ IsLast(b, k)
<1>1. ASSUME NEW t \in Thread, Commit(t)
      PROVE  tip' = tip \/ \E b, k, kind : Connecting(t, b, k, kind) /\ IsLast(b, k)
  <2>1. th[t].pc = "applying"
    BY <1>1, Zenon DEF Commit, At, SerialInv, CallKnows
  <2>2. PICK b, k, kind : b = th[t].block /\ k = th[t].done + 1 /\ kind = th[t].kind
    BY Zenon
  <2>3. Connecting(t, b, k, kind)
    BY <1>1, <2>1, <2>2, Zenon DEF Connecting
  <2>4. tip' = IF IsLast(b, k) THEN b ELSE tip
    BY <2>3, ConnectingWrites, Zenon
  <2>5. QED
    BY <2>3, <2>4, Zenon
<1>2. ASSUME NEW t \in Thread, Step(t), ~Commit(t) PROVE tip' = tip
  BY <1>2, Zenon DEF Step, CheckTxs, Weigh, ForkChoice, PutSideWork, Collect, Rollback, DisconnectTip,
     ApplyBlock, PutTotalWork, CleanPool, tables
<1>3. ASSUME NEW t \in Thread, CreateGenesis(t) \/ WriteError(t) PROVE tip' = tip
  BY <1>3, Zenon DEF CreateGenesis, WriteError, tables
<1>4. ASSUME NEW t \in Thread, NEW b \in Block, Submit(t, b) PROVE tip' = tip
  BY <1>4, Zenon DEF Submit, tables
<1>5. ASSUME NEW x \in Tx, AddTx(x) PROVE tip' = tip
  BY <1>5, Zenon DEF AddTx, tables
<1>6. CASE Resume \/ Crash \/ UNCHANGED vars
  BY <1>6, Zenon DEF Resume, Crash, vars, tables
<1>7. QED
  BY <1>1, <1>2, <1>3, <1>4, <1>5, <1>6, Zenon DEF Next

\* The empty database is the ledger before its genesis block.
LEMMA InitMaps == Init => Promise!ChainInit
<1> SUFFICES ASSUME Init PROVE Promise!ChainInit
  BY Zenon
<1>1. tip = None /\ utxo = NoCoins /\ \A t \in Thread : ~MidCommit(t)
  BY Zenon DEF Init, Idle, NoCoins, MidCommit
<1>2. CoinsBetweenBatches = NoCoins
  BY <1>1, Zenon DEF CoinsBetweenBatches
<1>3. QED
  BY <1>1, <1>2, Zenon DEF Promise!ChainInit

\* The batch of the genesis block founds the ledger.
LEMMA FoundMaps ==
    ASSUME tip = None, tip' = Genesis,
           CoinsBetweenBatches' = Connect(NoCoins, Genesis)
    PROVE  Promise!Found
<1>1. Genesis \in Block /\ Genesis # None /\ HeightOf(Genesis) = 0
  BY LedgerAssumption, Zenon DEF HeightOf
<1>2. ~Continues(Genesis)
  BY <1>1, ParentBelow
<1>3. PathTo[Genesis] = <<Genesis>>
  BY <1>1, <1>2, PathToDef, Zenon
<1>4. MainChain' = <<Genesis>>
  BY <1>3, Zenon DEF MainChain
<1>5. QED
  BY <1>1, <1>4, Zenon DEF Promise!Found

\* A block that goes on top of the tip is valid on top of the main chain.
LEMMA OnTopIsValid ==
    ASSUME Inv, Linked, tip # None, NEW b \in Block, OnTop(b, "extend"),
           Header[b].sound, TargetInRange(Header[b].bits), ValidBlockTxs(b, MainChainCoins)
    PROVE  ValidNext(b, MainChain, MainChainCoins) /\ MainChain # <<>>
<1>1. /\ MainChain = [i \in 1 .. HeightOf(tip) + 1 |-> height[i - 1]]
      /\ HeightOf(tip) \in Nat /\ tip \in Block
  BY MainChainIs, Zenon
<1>2. PICK n \in Nat : n = HeightOf(tip)
  BY <1>1, Zenon
<1>3. n + 1 \in Nat /\ n + 1 \in 1 .. n + 1 /\ n + 1 - 1 = n
  OBVIOUS
<1>4. DOMAIN MainChain = 1 .. n + 1
  BY <1>1, <1>2, Zenon
<1>5. Len(MainChain) = n + 1
  BY <1>3, <1>4, LenOfFunction, Zenon
<1>6. MainChain[Len(MainChain)] = tip
  <2>1. MainChain[n + 1] = height[n]
    BY <1>1, <1>2, <1>3
  <2>2. height[n] = tip
    BY <1>2, Zenon DEF Linked
  <2>3. QED
    BY <1>5, <2>1, <2>2, Zenon
<1>7. /\ Header[b].prev = tip /\ HeightOf(b) = HeightOf(tip) + 1
      /\ Header[b].bits = ExpectedBits(tip, height)
  BY Zenon DEF OnTop
<1>8. ExpectedBits(tip, IndexOf(MainChain)) = ExpectedBits(tip, height)
  <2>1. ASSUME NEW h \in 0 .. HeightOf(tip)
        PROVE  IndexOf(MainChain)[h] = height[h]
    <3>1. h \in 0 .. MaxHeight
      BY ChainBlock, Zenon
    <3>2. h + 1 \in DOMAIN MainChain /\ h + 1 - 1 = h
      BY <1>2, <1>4
    <3>3. MainChain[h + 1] = height[h]
      BY <1>1, <1>2, <1>4, <3>2
    <3>4. QED
      BY <3>1, <3>2, <3>3, Zenon DEF IndexOf
  <2>2. QED
    BY <1>1, <2>1, ExpectedBitsStable, Zenon
<1>9. ValidHeader(b, tip)
  BY <1>7, Zenon DEF ValidHeader
<1>10. ValidNext(b, MainChain, MainChainCoins)
  BY <1>6, <1>7, <1>8, <1>9, Zenon DEF ValidNext
<1>11. QED
  BY <1>3, <1>4, <1>10

\* The batch of another block extends the ledger by that block.
LEMMA ExtendMaps ==
    ASSUME Inv, Linked, tip # None, NEW b \in Block, tip' = b, OnTop(b, "extend"),
           Header[b].sound, TargetInRange(Header[b].bits), ValidBlockTxs(b, MainChainCoins),
           CoinsBetweenBatches = MainChainCoins,
           CoinsBetweenBatches' = Connect(MainChainCoins, b)
    PROVE  Promise!Extend(b)
<1>1. ValidNext(b, MainChain, MainChainCoins) /\ MainChain # <<>>
  BY OnTopIsValid, Zenon
<1>2. Header[b].prev = tip /\ Continues(b) /\ b # None
  BY LedgerAssumption, Zenon DEF OnTop, Continues
<1>3. PathTo[b] = Append(PathTo[tip], b)
  BY <1>2, PathToDef, Zenon
<1>4. MainChain' = Append(MainChain, b)
  BY <1>3, Zenon DEF MainChain
<1>5. QED
  BY <1>1, <1>2, <1>4, Zenon DEF Promise!Extend

\* Every step of the node is a step of the ledger, or leaves the ledger alone.
LEMMA StepMaps ==
    ASSUME Serial, Inv, Inv', SerialInv, LedgerInv, Seamless, Seamless', [Next]_vars
    PROVE  [Promise!ChainNext]_(Promise!chainVars)
<1>1. CoinsBetweenBatches = MainChainCoins /\ CoinsBetweenBatches' = MainChainCoins'
  BY Zenon DEF Seamless
<1>2. CASE tip' = tip
  <2>1. CoinsBetweenBatches' = CoinsBetweenBatches /\ MainChain' = MainChain
    BY <1>1, <1>2, MainChainCoinsKept, Zenon DEF MainChain
  <2>2. QED
    BY <1>2, <2>1, Zenon DEF Promise!chainVars
<1>3. ASSUME NEW t \in Thread, NEW b, NEW k, NEW kind, Connecting(t, b, k, kind), IsLast(b, k)
      PROVE  Promise!ChainNext
  <2>1. tip' = b /\ utxo' = Connect(MainChainCoins, b)
    BY <1>3, LastLedger
  <2>2. OnTop(b, kind) /\ b \in Block
    BY <1>3, ConnectingOnTop, ConnectingCall, Zenon
  <2>3. b # None
    BY <2>2, LedgerAssumption, Zenon
  <2>4. CoinsBetweenBatches' = Connect(MainChainCoins, b)
    <3>1. MainChainCoins' = Replay[b]
      BY <2>1, <2>3, Zenon DEF MainChainCoins
    <3>2. QED
      BY <1>1, <2>2, <3>1, ReplayOnTop, Zenon
  <2>5. CASE kind = "genesis"
    <3>1. b = Genesis /\ tip = None
      BY <2>2, <2>5, Zenon DEF OnTop
    <3>2. MainChainCoins = NoCoins
      BY <3>1, Zenon DEF MainChainCoins
    <3>3. Promise!Found
      BY <2>1, <2>4, <3>1, <3>2, FoundMaps, Zenon
    <3>4. QED
      BY <3>3, Zenon DEF Promise!ChainNext
  <2>6. CASE kind # "genesis"
    <3>1. kind = "extend" /\ tip # None
      BY <2>2, <2>6, Zenon DEF OnTop
    <3>2. LedgerKnows(th[t]) /\ th[t].pc = "applying" /\ th[t].kind = kind /\ th[t].side[1] = b
      BY <1>3, ConnectingCall DEF LedgerInv
    <3>3. /\ Header[b].sound /\ TargetInRange(Header[b].bits)
          /\ ValidBlockTxs(b, MainChainCoins)
      BY <2>6, <3>2, Zenon DEF LedgerKnows
    <3>4. Linked
      BY Zenon DEF SerialInv
    <3>5. OnTop(b, "extend")
      BY <2>2, <3>1, Zenon
    <3>6. Promise!Extend(b)
      BY <1>1, <2>1, <2>2, <2>4, <3>1, <3>3, <3>4, <3>5, ExtendMaps, Zenon
    <3>7. QED
      BY <2>2, <3>6, Zenon DEF Promise!ChainNext
  <2>7. QED
    BY <2>5, <2>6, Zenon
<1>4. QED
  BY <1>2, <1>3, TipMoves, Zenon

\* With one call at a time and no failing write, the node implements the ledger it
\* promises: every batch appends one block that is valid where it lands, with all its
\* effects on the coins and no others, and nothing else moves the ledger.
THEOREM NodeImplementsLedger == Serial /\ SoleGenesis => (Spec => ImplementsLedger)
<1> SUFFICES ASSUME Serial, SoleGenesis PROVE Spec => ImplementsLedger
  BY Zenon
<1>1. Inv /\ LedgerInv => Seamless
  BY NoBatchShows, Zenon
<1>2. Inv /\ Inv' /\ SerialInv /\ LedgerInv /\ Seamless /\ Seamless' /\ [Next]_vars
        => [Promise!ChainNext]_(Promise!chainVars)
  BY StepMaps, Zenon
<1>3. QED
  BY <1>1, <1>2, InitMaps, LedgerInvariance, PTL DEF Spec, ImplementsLedger, Promise!ChainSpec

-----------------------------------------------------------------------------
(* The main chain as a sequence *)

\* The main chain, empty before its genesis block.
Branch == IF tip = None THEN <<>> ELSE MainChain

\* The transactions of the main chain.
Connected == UNION {Range(Body[Branch[i]]) : i \in DOMAIN Branch}

\* The main chain, block by block.
LEMMA BranchIs ==
    ASSUME Inv, Linked
    PROVE  \E n \in Nat :
             /\ DOMAIN Branch = 1 .. n /\ Branch \in Seq(Block) /\ Len(Branch) = n
             /\ \A i \in 1 .. n : Branch[i] \in Block /\ HeightOf(Branch[i]) = i - 1
             /\ n = 0 <=> tip = None
             /\ tip # None => n = HeightOf(tip) + 1 /\ Branch[n] = tip
             /\ MainChainCoins = IF n = 0 THEN NoCoins ELSE Replay[Branch[n]]
<1>1. CASE tip = None
  <2>1. Branch = <<>> /\ MainChainCoins = NoCoins
    BY <1>1, Zenon DEF Branch, MainChainCoins
  <2>2. QED
    BY <1>1, <2>1
<1>2. CASE tip # None
  <2>1. /\ MainChain = [i \in 1 .. HeightOf(tip) + 1 |-> height[i - 1]]
        /\ HeightOf(tip) \in Nat /\ tip \in Block
    BY <1>2, MainChainIs, Zenon
  <2>2. PICK n \in Nat : n = HeightOf(tip) + 1 /\ n # 0 /\ n - 1 = HeightOf(tip)
    BY <2>1
  <2>3. Branch = [i \in 1 .. n |-> height[i - 1]] /\ MainChainCoins = Replay[tip]
    BY <1>2, <2>1, <2>2, Zenon DEF Branch, MainChainCoins
  <2>4. ASSUME NEW i \in 1 .. n PROVE Branch[i] \in Block /\ HeightOf(Branch[i]) = i - 1
    <3>1. i - 1 \in 0 .. HeightOf(tip) /\ Branch[i] = height[i - 1]
      BY <2>2, <2>3
    <3>2. QED
      BY <1>2, <3>1, ChainBlock, Zenon
  <2>5. Branch[n] = tip
    <3>1. n \in 1 .. n
      BY <2>2
    <3>2. QED
      BY <1>2, <2>2, <2>3, <3>1, Zenon DEF Linked
  <2>6. DOMAIN Branch = 1 .. n /\ Branch \in Seq(Block) /\ Len(Branch) = n
    <3>1. Branch \in [1 .. n -> Block]
      BY <2>3, <2>4
    <3>2. QED
      BY <3>1, LenOfFunction
  <2>7. QED
    BY <1>2, <2>2, <2>3, <2>4, <2>5, <2>6, Zenon
<1>3. QED
  BY <1>1, <1>2

\* The last chunk of a batch moves the tip, and the main chain ends in the new block.
LEMMA BranchGrows ==
    ASSUME Serial, Inv, SerialInv, NEW t \in Thread, NEW b, NEW k, NEW kind,
           Connecting(t, b, k, kind), IsLast(b, k),
           NEW n \in Nat, DOMAIN Branch = 1 .. n, Branch \in Seq(Block), Len(Branch) = n
    PROVE  /\ tip' = b /\ b \in Block /\ b # None
           /\ MainChainCoins' = Connect(MainChainCoins, b)
           /\ DOMAIN Branch' = 1 .. n + 1 /\ Branch'[n + 1] = b
           /\ \A i \in 1 .. n : Branch'[i] = Branch[i]
           /\ Connected' = Connected \cup Range(Body[b])
<1>1. tip' = b
  BY ConnectingWrites, Zenon
<1>2. b \in Block /\ b # None /\ OnTop(b, kind)
  BY ConnectingCall, ConnectingOnTop, LedgerAssumption
<1>3. MainChainCoins' = Connect(MainChainCoins, b)
  <2>1. MainChainCoins' = Replay[b]
    BY <1>1, <1>2, Zenon DEF MainChainCoins
  <2>2. QED
    BY <1>2, <2>1, ReplayOnTop, Zenon
<1>4. Branch' = Append(Branch, b)
  <2>1. Branch' = PathTo[b]
    BY <1>1, <1>2, Zenon DEF Branch, MainChain
  <2>2. CASE tip = None
    <3>1. Branch = <<>> /\ b = Genesis
      BY <1>2, <2>2 DEF Branch, OnTop
    <3>2. HeightOf(b) = 0
      BY <3>1, LedgerAssumption DEF HeightOf
    <3>3. ~Continues(b)
      BY <1>2, <3>2, ParentBelow
    <3>4. PathTo[b] = <<b>>
      BY <1>2, <3>3, PathToDef, Zenon
    <3>5. QED
      BY <2>1, <3>1, <3>4
  <2>3. CASE tip # None
    <3>1. Header[b].prev = tip /\ HeightOf(b) = HeightOf(tip) + 1
      BY <1>2, <2>3 DEF OnTop
    <3>2. Continues(b)
      BY <2>3, <3>1, Zenon DEF Continues
    <3>3. PathTo[b] = Append(PathTo[tip], b)
      BY <1>2, <3>1, <3>2, PathToDef, Zenon
    <3>4. QED
      BY <2>1, <2>3, <3>3, Zenon DEF Branch, MainChain
  <2>4. QED
    BY <2>2, <2>3
<1>5. PICK s : s = Branch
  OBVIOUS
<1>6. PICK r : r = Branch'
  OBVIOUS
<1>7. /\ DOMAIN r = 1 .. n + 1 /\ r[n + 1] = b
      /\ \A i \in 1 .. n : r[i] = s[i]
  <2>1. s \in Seq(Block) /\ Len(s) = n /\ r = Append(s, b)
    BY <1>4, <1>5, <1>6, Zenon
  <2>2. QED
    BY <1>2, <2>1
<1>8. ASSUME NEW x
      PROVE  x \in Connected' <=> x \in Connected \cup Range(Body[b])
  <2>1. x \in Connected' <=> \E i \in 1 .. n + 1 : x \in Range(Body[r[i]])
    BY <1>6, <1>7, Zenon DEF Connected
  <2>2. x \in Connected <=> \E i \in 1 .. n : x \in Range(Body[s[i]])
    BY <1>5, Zenon DEF Connected
  <2>3. \A i : i \in 1 .. n + 1 <=> i \in 1 .. n \/ i = n + 1
    OBVIOUS
  <2>4. QED
    BY <1>7, <2>1, <2>2, <2>3, Zenon
<1>9. Connected' = Connected \cup Range(Body[b])
  BY <1>8, Zenon
<1>10. QED
  BY <1>1, <1>2, <1>3, <1>5, <1>6, <1>7, <1>9, Zenon

\* A step that leaves the tip alone.
LEMMA BranchKept ==
    ASSUME tip' = tip
    PROVE  Branch' = Branch /\ Connected' = Connected /\ MainChainCoins' = MainChainCoins
BY Zenon DEF Branch, MainChain, Connected, MainChainCoins

\* Between calls the main chain is what the definitions replay.
LEMMA SettledFunds ==
    ASSUME Serial, LedgerInv, Settled
    PROVE  /\ tip # None /\ utxo = MainChainCoins /\ Branch = MainChain /\ Connected = MainChainTxs
           /\ \A t \in Thread : th[t].pc = "idle"
<1>1. tip # None /\ \A t \in Thread : th[t].pc = "idle"
  BY SettledRests, Zenon
<1>2. \A t \in Thread : th[t].pc # "applying"
  BY <1>1
<1>3. utxo = MainChainCoins
  BY <1>2, Zenon DEF LedgerInv
<1>4. Branch = MainChain
  BY <1>1, Zenon DEF Branch
<1>5. Connected = MainChainTxs
  <2>1. \A x : x \in Connected <=> \E i \in DOMAIN MainChain : x \in Range(Body[MainChain[i]])
    BY <1>4, Zenon DEF Connected
  <2>2. \A x : x \in MainChainTxs <=> \E i \in DOMAIN MainChain : x \in Range(Body[MainChain[i]])
    <3>1. \A b : b \in Range(MainChain) <=> \E i \in DOMAIN MainChain : b = MainChain[i]
      BY DEF Range
    <3>2. \A x : x \in MainChainTxs <=> \E b \in Range(MainChain) : x \in Range(Body[b])
      BY Zenon DEF MainChainTxs
    <3>3. QED
      BY <3>1, <3>2, Zenon
  <2>3. QED
    BY <2>1, <2>2, Zenon
<1>6. QED
  BY <1>1, <1>3, <1>4, <1>5, Zenon
=============================================================================
