----------------------------- MODULE ChainNode -----------------------------
(***************************************************************************)
(* The chain manager (chain/chain.go) over its database                    *)
(* (storage/storage.go, internal/pebble/pebble.go) and its mempool, as it  *)
(* runs in neveld: RPC handlers call ValidateAndApplyBlock from goroutines *)
(* of their own and the manager holds no lock.                             *)
(*                                                                         *)
(* A thread is a call in progress.  Its steps are the points at which it   *)
(* reads or writes the database: what it has read may be stale when it     *)
(* writes.  A batch is committed chunk by chunk, as the shim in            *)
(* internal/pebble executes it; AtomicCommit restricts the schedule to the *)
(* one upstream Pebble guarantees, in which nothing happens between the    *)
(* chunks of a batch.                                                      *)
(***************************************************************************)
EXTENDS Mempool

CONSTANTS
    Thread,         \* concurrent calls into the manager
    MaxFaults,      \* bound on failed writes and crashes
    AtomicCommit,   \* a batch is all or nothing
    ChainWork       \* ChainWork[b]: the work of b and all its ancestors

ASSUME ChainAssumption ==
    /\ Thread # {}
    /\ MaxFaults \in Nat
    /\ AtomicCommit \in BOOLEAN
    /\ ChainWork \in [Block -> Nat]
    /\ \A b \in Block :
        /\ BlockWork(b) \in Nat   \* exponentiation is opaque to the provers
        /\ ChainWork[b] = BlockWork(b) + IF HeightOf(b) > 0 /\ Header[b].prev # None
                                         THEN ChainWork[Header[b].prev] ELSE 0

VARIABLES
    \* The tables of the database, besides utxo.
    undo,      \* undo logs by block
    stored,    \* blocks by hash: TRUE if the block is stored
    height,    \* block hashes by height
    txs,       \* transaction index
    work,      \* total work by block
    tip,       \* chain:tip
    \* The process.
    up,        \* InitGenesis has returned
    th,        \* the calls in progress
    faults     \* failed writes and crashes so far

tables == <<undo, stored, height, txs, utxo, work, tip>>
vars == <<tables, poolVars, up, th, faults>>

\* The fields of a call: where it is, which branch of ValidateAndApplyBlock it
\* took, the side chain (newest block first, just the block itself unless it
\* reorganises), the next side block to handle, the fork height, incomingWork;
\* for the batch under way its block, its undo log and how many of its chunks
\* have been executed.
Idle == [pc |-> "idle", kind |-> "none", side |-> <<>>, left |-> 0, fork |-> 0,
         gain |-> 0, block |-> None, log |-> None, done |-> 0]

\* A thread between two chunks of a batch.
MidCommit(t) == th[t].done # 0

\* With atomic batches nobody else acts while a batch is half executed.
Undisturbed == AtomicCommit => \A t \in Thread : ~MidCommit(t)

At(t, pc) ==
    /\ th[t].pc = pc
    /\ AtomicCommit => \A s \in Thread \ {t} : ~MidCommit(s)

Goto(t, pc) == th' = [th EXCEPT ![t].pc = pc]

Return(t) == th' = [th EXCEPT ![t] = Idle]

Init ==
    /\ undo = [b \in Block |-> None]
    /\ stored = [b \in Block |-> FALSE]
    /\ height = [h \in 0 .. MaxHeight |-> None]
    /\ txs = [t \in Tx |-> FALSE]
    /\ utxo = [o \in Outpoint |-> None]
    /\ work = [b \in Block |-> None]
    /\ tip = None
    /\ PoolInit
    /\ up = FALSE
    /\ th = [t \in Thread |-> Idle]
    /\ faults = 0

-----------------------------------------------------------------------------
(* InitGenesis *)

\* A chain exists: InitGenesis only reads it.
Resume ==
    /\ ~up /\ \A t \in Thread : th[t] = Idle
    /\ tip # None /\ stored[tip]
    /\ up' = TRUE
    /\ UNCHANGED <<tables, poolVars, th, faults>>

\* No tip: the genesis block is applied, its work written, any error of the
\* latter ignored.
CreateGenesis(t) ==
    /\ ~up /\ \A s \in Thread : th[s] = Idle
    /\ tip = None
    /\ th' = [th EXCEPT ![t] = [Idle EXCEPT !.pc = "apply", !.kind = "genesis",
                                            !.side = <<Genesis>>, !.left = 1,
                                            !.gain = BlockWork(Genesis)]]
    /\ UNCHANGED <<tables, poolVars, up, faults>>

-----------------------------------------------------------------------------
(* ValidateAndApplyBlock *)

\* The height index as HeaderByHeight sees it: an entry whose block is missing
\* is an error, like a missing entry.
HeaderIndex ==
    [h \in DOMAIN height |->
        IF height[h] # None /\ stored[height[h]] THEN height[h] ELSE None]

\* ValidateBlockHeaderWithDifficulty.
HeaderAccepted(b) ==
    LET prev == IF HeightOf(b) > 0 THEN Header[b].prev ELSE None
    IN  /\ ValidHeader(b, prev)
        /\ prev # None => Header[b].bits = ExpectedBits(prev, HeaderIndex)

\* The block is new, its parent is stored and its header is valid; otherwise
\* the call returns an error and changes nothing.
Acceptable(b) ==
    /\ ~stored[b]
    /\ HeightOf(b) > 0 => Header[b].prev # None /\ stored[Header[b].prev]
    /\ HeaderAccepted(b)

\* submitBlock (and MsgBlock, and a miner's loop) calls ValidateAndApplyBlock.
Submit(t, b) ==
    /\ up /\ At(t, "idle")
    /\ Acceptable(b)
    /\ th' = [th EXCEPT ![t] = [Idle EXCEPT !.pc = "check", !.side = <<b>>]]
    /\ UNCHANGED <<tables, poolVars, up, faults>>

\* Mutant: the transactions are not checked.
CheckTxsSkipped(t) ==
    /\ At(t, "check")
    /\ Goto(t, "weigh")
    /\ UNCHANGED <<tables, poolVars, up, faults>>

\* ValidateBlockTransactions, against the coins of the current tip.
CheckTxs(t) ==
    /\ At(t, "check")
    /\ IF ValidBlockTxs(th[t].side[1], utxo) THEN Goto(t, "weigh") ELSE Return(t)
    /\ UNCHANGED <<tables, poolVars, up, faults>>

\* Mutants: the parent's work is forgotten; the tip's work is taken for it.
WorkUpToAlone(b) == BlockWork(b)

WorkUpToFromTip(b) == BlockWork(b) + IF tip # None /\ work[tip] # None THEN work[tip] ELSE 0

\* WorkForBits plus the parent's recorded work; a parent without a record
\* counts for nothing.
WorkUpTo(b) ==
    BlockWork(b) + IF HeightOf(b) > 0 /\ Header[b].prev # None /\ work[Header[b].prev] # None
                   THEN work[Header[b].prev] ELSE 0

\* Mutant: the work is taken relative to the tip's.
WeighRelative(t) ==
    /\ At(t, "weigh")
    /\ th' = [th EXCEPT ![t].pc = "choose",
                        ![t].gain = WorkUpTo(th[t].side[1])
                                      - IF tip = None \/ work[tip] = None THEN 0 ELSE work[tip]]
    /\ UNCHANGED <<tables, poolVars, up, faults>>

Weigh(t) ==
    /\ At(t, "weigh")
    /\ th' = [th EXCEPT ![t].pc = "choose", ![t].gain = WorkUpTo(th[t].side[1])]
    /\ UNCHANGED <<tables, poolVars, up, faults>>

CurrentWork == IF work[tip] = None THEN 0 ELSE work[tip]

Direct(t, kind) == th' = [th EXCEPT ![t].pc = "apply", ![t].kind = kind, ![t].left = 1]

\* Mutant: the work is not compared.
ForkChoiceAlways(t) ==
    /\ At(t, "choose")
    /\ \/ tip = None /\ Direct(t, "first")
       \/ tip # None /\ Header[th[t].side[1]].prev = tip /\ Direct(t, "extend")
       \/ /\ tip # None /\ Header[th[t].side[1]].prev # tip
          /\ th' = [th EXCEPT ![t].pc = "collect", ![t].kind = "reorg"]
    /\ UNCHANGED <<tables, poolVars, up, faults>>

\* No tip, the block extends the tip, the block is not heavier, or a reorg.
ForkChoice(t) ==
    /\ At(t, "choose")
    /\ \/ tip = None /\ Direct(t, "first")
       \/ tip # None /\ Header[th[t].side[1]].prev = tip /\ Direct(t, "extend")
       \/ /\ tip # None /\ Header[th[t].side[1]].prev # tip
          /\ IF th[t].gain <= CurrentWork
             THEN Goto(t, "side")
             ELSE th' = [th EXCEPT ![t].pc = "collect", ![t].kind = "reorg"]
    /\ UNCHANGED <<tables, poolVars, up, faults>>

\* A block that is not heavier: only its work is written.
PutSideWork(t) ==
    /\ At(t, "side")
    /\ work' = [work EXCEPT ![th[t].side[1]] = th[t].gain]
    /\ Return(t)
    /\ UNCHANGED <<undo, stored, height, txs, utxo, tip, poolVars, up, faults>>

-----------------------------------------------------------------------------
(* reorg *)

\* One turn of the loop that collects the side chain: the parent is on the main
\* chain according to the height index, or it is fetched and the walk goes on.
Collect(t) ==
    LET cur == th[t].side[Len(th[t].side)]
        prev == Header[cur].prev
        atFork == HeightOf(cur) = 0 \/ height[HeightOf(cur) - 1] = prev
    IN  /\ At(t, "collect")
        /\ IF atFork
           THEN th' = [th EXCEPT ![t].pc = "rollback", ![t].left = Len(th[t].side),
                                 ![t].fork = IF HeightOf(cur) = 0 THEN 0 ELSE HeightOf(cur) - 1]
           ELSE IF height[HeightOf(cur) - 1] = None \/ prev = None \/ ~stored[prev]
           THEN Return(t)
           ELSE th' = [th EXCEPT ![t].side = Append(@, prev)]
        /\ UNCHANGED <<tables, poolVars, up, faults>>

\* The loop head of RollbackToHeight: TipBlock is compared with the fork height.
Rollback(t) ==
    /\ At(t, "rollback")
    /\ IF tip = None \/ ~stored[tip] THEN Return(t)
       ELSE Goto(t, IF HeightOf(tip) <= th[t].fork THEN "apply" ELSE "disconnect")
    /\ UNCHANGED <<tables, poolVars, up, faults>>

\* DisconnectTip reads the tip again and builds its batch.
DisconnectTip(t) ==
    /\ At(t, "disconnect")
    /\ IF tip = None \/ ~stored[tip] \/ undo[tip] = None THEN Return(t)
       ELSE th' = [th EXCEPT ![t].pc = "disconnecting",
                             ![t].block = tip, ![t].log = undo[tip]]
    /\ UNCHANGED <<tables, poolVars, up, faults>>

-----------------------------------------------------------------------------
(* Writes *)

\* ApplyBlock reads the coins the block spends and builds its batch.
ApplyBlock(t) ==
    LET b == th[t].side[th[t].left]
    IN  /\ At(t, "apply")
        /\ th' = [th EXCEPT ![t].pc = "applying", ![t].block = b, ![t].log = UndoOf(b, utxo)]
        /\ UNCHANGED <<tables, poolVars, up, faults>>

BatchOf(t) == IF th[t].pc = "applying" THEN ApplyBatch(th[t].block, th[t].log)
                                        ELSE DisconnectBatch(th[t].block, th[t].log)

\* Batch.Commit executes the next chunk.
Commit(t) ==
    LET chunk == BatchOf(t)[th[t].done + 1]
        last == th[t].done + 2 \notin DOMAIN BatchOf(t)
    IN  /\ At(t, "applying") \/ At(t, "disconnecting")
        /\ undo' = Execute(undo, "undo", chunk)
        /\ stored' = Execute(stored, "block", chunk)
        /\ height' = Execute(height, "height", chunk)
        /\ txs' = Execute(txs, "tx", chunk)
        /\ utxo' = Execute(utxo, "utxo", chunk)
        /\ tip' = IF chunk.table = "tip" THEN chunk.put ELSE tip
        /\ IF last
           THEN th' = [th EXCEPT ![t].pc = IF @ = "applying" THEN "work" ELSE "rollback",
                                 ![t].block = None, ![t].log = None, ![t].done = 0]
           ELSE th' = [th EXCEPT ![t].done = @ + 1]
        /\ UNCHANGED <<work, poolVars, up, faults>>

\* PutTotalWork after ApplyBlock.  A reorg recomputes the work of each block it
\* applies; the genesis and first-block paths end here, the mempool untouched.
PutTotalWork(t) ==
    LET b == th[t].side[th[t].left]
        w == IF th[t].kind = "reorg" THEN WorkUpTo(b) ELSE th[t].gain
    IN  /\ At(t, "work")
        /\ work' = [work EXCEPT ![b] = w]
        /\ IF th[t].kind \in {"genesis", "first"} THEN Return(t)
           ELSE IF th[t].left > 1
           THEN th' = [th EXCEPT ![t].pc = "apply", ![t].left = @ - 1]
           ELSE Goto(t, "clean")
        /\ up' = (up \/ th[t].kind = "genesis")
        /\ UNCHANGED <<undo, stored, height, txs, utxo, tip, poolVars, faults>>

\* Mutant: the loop over the blocks starts over.
CleanPoolAgain(t) ==
    /\ At(t, "clean")
    /\ RemoveMinedBlock(th[t].side[th[t].left])
    /\ th' = [th EXCEPT ![t].left = IF @ < Len(th[t].side) THEN @ + 1 ELSE 1]
    /\ UNCHANGED <<tables, up, faults>>

\* RemoveMinedBlock for the block, or for each block of the side chain in turn.
CleanPool(t) ==
    /\ At(t, "clean")
    /\ RemoveMinedBlock(th[t].side[th[t].left])
    /\ IF th[t].left < Len(th[t].side) THEN th' = [th EXCEPT ![t].left = @ + 1] ELSE Return(t)
    /\ UNCHANGED <<tables, up, faults>>

\* gatherHeaders: the blocks whose headers answer a locator of one hash, from
\* the height after that block (from 0 if it is unknown) up to the tip's height
\* or the first height without a header.  The limit of 2000 headers is not met.
GatherHeaders(locator) ==
    LET start == IF stored[locator] THEN HeightOf(locator) + 1 ELSE 0
        stop == Min({h \in start .. HeightOf(tip) : HeaderIndex[h] = None} \cup {HeightOf(tip) + 1})
    IN  [i \in 1 .. stop - start |-> HeaderIndex[start + i - 1]]

\* broadcastTx and MsgTx: Mempool.Add, against the table as it is right now.
AddTx(x) ==
    /\ up /\ Undisturbed
    /\ Add(x)
    /\ UNCHANGED <<tables, up, th, faults>>

-----------------------------------------------------------------------------
(* Faults *)

\* A write fails: the call returns the error, what was written stays.  The
\* error of the genesis block's work is ignored; the process goes on.
WriteError(t) ==
    /\ faults < MaxFaults
    /\ \E pc \in {"applying", "disconnecting", "work", "side"} : At(t, pc)
    /\ Undisturbed
    /\ Return(t)
    /\ up' = (up \/ (th[t].pc = "work" /\ th[t].kind = "genesis"))
    /\ faults' = faults + 1
    /\ UNCHANGED <<tables, poolVars>>

\* The process dies; the database survives, the mempool does not.
Crash ==
    /\ faults < MaxFaults
    /\ Undisturbed
    /\ up \/ \E t \in Thread : th[t] # Idle
    /\ up' = FALSE
    /\ th' = [t \in Thread |-> Idle]
    /\ pool' = [t \in Tx |-> None]
    /\ spends' = [o \in Outpoint |-> None]
    /\ bytes' = 0
    /\ faults' = faults + 1
    /\ UNCHANGED tables

-----------------------------------------------------------------------------
\* What a call in progress does next.
Step(t) ==
    \/ CheckTxs(t) \/ Weigh(t) \/ ForkChoice(t) \/ PutSideWork(t)
    \/ Collect(t) \/ Rollback(t) \/ DisconnectTip(t)
    \/ ApplyBlock(t) \/ Commit(t) \/ PutTotalWork(t) \/ CleanPool(t)

Next ==
    \/ Resume
    \/ \E t \in Thread : CreateGenesis(t) \/ Step(t) \/ WriteError(t)
    \/ \E t \in Thread, b \in Block : Submit(t, b)
    \/ \E x \in Tx : AddTx(x)
    \/ Crash

Spec == Init /\ [][Next]_vars

\* A goroutine that can run is eventually scheduled.
FairSpec == Spec /\ \A t \in Thread : WF_vars(Step(t))

-----------------------------------------------------------------------------
Call ==
    [pc : {"idle", "check", "weigh", "choose", "side", "collect", "rollback",
           "disconnect", "disconnecting", "apply", "applying", "work", "clean"},
     kind : {"none", "genesis", "first", "extend", "reorg"},
     side : Seq(Block), left : Nat, fork : 0 .. MaxHeight, gain : Nat,
     block : Block \cup {None}, log : Log \cup {None}, done : Nat]

\* Every table of the database and every call of ValidateAndApplyBlock in
\* progress has its type; the work a call carries is never negative.
TypeOK ==
    /\ undo \in [Block -> Log \cup {None}]
    /\ stored \in [Block -> BOOLEAN]
    /\ height \in [0 .. MaxHeight -> Block \cup {None}]
    /\ txs \in [Tx -> BOOLEAN]
    /\ utxo \in Log
    /\ work \in [Block -> Nat \cup {None}]
    /\ tip \in Block \cup {None}
    /\ up \in BOOLEAN
    /\ faults \in 0 .. MaxFaults
    /\ th \in [Thread -> Call]

\* The order of the writes keeps the database closed at every instant, whoever
\* commits concurrently and wherever a commit is cut short: the tip is a stored
\* block, a height entry names a stored block of that height, and a stored
\* block has its undo log and its parent.  So TipBlock, HeaderByHeight and
\* DisconnectTip never meet a dangling reference (reorg never stops half way
\* through a rollback for a missing block or undo log).
StoreClosed ==
    /\ tip # None => stored[tip]
    /\ \A h \in 0 .. MaxHeight :
        height[h] # None => stored[height[h]] /\ HeightOf(height[h]) = h
    /\ \A b \in Block : stored[b] =>
        /\ undo[b] # None
        /\ HeightOf(b) > 0 => Header[b].prev # None /\ stored[Header[b].prev]

\* What a call relies on when it writes, given the stored blocks and undo logs.
Consistent(c, kept, logs) ==
    /\ c.pc # "idle" => Len(c.side) > 0
    /\ \A i \in DOMAIN c.side :
        HeightOf(c.side[i]) > 0 =>
            Header[c.side[i]].prev # None /\ kept[Header[c.side[i]].prev]
    /\ c.pc \in {"rollback", "disconnect", "disconnecting", "apply", "applying", "work", "clean"} =>
        c.left \in DOMAIN c.side
    /\ c.pc \in {"collect", "rollback", "disconnect", "disconnecting"} => c.kind = "reorg"
    /\ c.pc \in {"apply", "applying", "work"} /\ c.kind # "reorg" => c.left = 1
    /\ c.pc \notin {"applying", "disconnecting"} => c.done = 0
    /\ c.pc = "applying" =>
        /\ c.block = c.side[c.left] /\ c.log \in Log
        /\ c.done < 2 * Len(Body[c.block]) + 5
        /\ c.done >= 1 => logs[c.block] # None
        /\ c.done >= 2 => kept[c.block]
    /\ c.pc = "disconnecting" =>
        /\ c.block \in Block /\ kept[c.block] /\ c.log \in Log
        /\ c.done < Len(Body[c.block]) + 2
    /\ c.pc = "work" => kept[c.side[c.left]]
    /\ c.pc \notin {"idle", "check", "weigh"} => c.gain <= ChainWork[c.side[1]]

\* No lock is held, yet what a call relies on when it writes is still true: the
\* parents of its side chain are stored, the undo log and the block it has
\* written are there, the block it disconnects is stored, and the work it
\* computed is not more than was done.  Other calls never take these away.
CallsConsistent == \A t \in Thread : Consistent(th[t], stored, undo)

\* A recorded total work never exceeds the true work of the branch, so no block
\* can win a fork choice by work that nobody did: missing records, racing
\* writers and interrupted reorgs only ever lose work.
WorkNeverOverstated == \A b \in Block : work[b] # None => work[b] <= ChainWork[b]

\* Every call into the manager returns, whatever the other calls do.
EveryCallReturns == \A t \in Thread : th[t].pc # "idle" ~> th[t].pc = "idle"
=============================================================================
