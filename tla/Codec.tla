------------------------------- MODULE Codec -------------------------------
(***************************************************************************)
(* The wire and disk format of transactions and blocks (tx/transaction.go, *)
(* blockchain/block.go), the Merkle root and the hash that is signed       *)
(* (wallet/wallet.go).                                                     *)
(*                                                                         *)
(* An encoding is a sequence of words.  A field of fixed width is one      *)
(* word, and so is the whole of a block header; a byte field is its length *)
(* followed by its bytes, one word each.  A read that finds a field cut    *)
(* short fails, so nothing is lost by cutting only between words.          *)
(* Hashes are ideal: the hash of a value stands for the value.             *)
(***************************************************************************)
EXTENDS Naturals, SequencesExt

CONSTANTS
    MaxField,   \* readBytes: 1,000,000
    MaxCount,   \* readCount: 1,000,000
    MaxItems,   \* ReadTransaction: 10,000 inputs and as many outputs
    MaxTxs      \* ReadBlock: 100,000 transactions

ASSUME CodecAssumption == {MaxField, MaxCount, MaxItems, MaxTxs} \subseteq Nat

-----------------------------------------------------------------------------
(* Writers *)

writeBytes(b) == <<Len(b)>> \o b

writeInput(in) ==
    <<in.PrevTxHash, in.OutputIdx>> \o writeBytes(in.Signature) \o writeBytes(in.PublicKey)

writeOutput(out) == <<out.Amount>> \o writeBytes(out.LockingScript)

\* A count and the encodings it counts.
writeList(encoded) == <<Len(encoded)>> \o FlattenSeq(encoded)

WriteTransaction(t) ==
    <<t.Version>>
        \o writeList([i \in DOMAIN t.Inputs |-> writeInput(t.Inputs[i])])
        \o writeList([i \in DOMAIN t.Outputs |-> writeOutput(t.Outputs[i])])
        \o <<t.LockTime>>

WriteBlock(b) ==
    <<b.Header>> \o writeList([i \in DOMAIN b.Transactions |-> WriteTransaction(b.Transactions[i])])

-----------------------------------------------------------------------------
(* Readers: what was read and the words that are left, or an error. *)

Read(val, rest) == [ok |-> TRUE, val |-> val, rest |-> rest]
Error == [ok |-> FALSE]

\* Read on with R unless there was an error.
Then(r, R(_, _)) == IF r.ok THEN R(r.val, r.rest) ELSE r

readWord(s) == IF s = <<>> THEN Error ELSE Read(Head(s), Tail(s))

\* io.ReadFull fails if fewer bytes are left than the length says.
readBytes(s) ==
    Then(readWord(s), LAMBDA n, t :
        IF n > MaxField \/ n > Len(t) THEN Error
        ELSE Read(SubSeq(t, 1, n), SubSeq(t, n + 1, Len(t))))

\* Mutant: a count above the limit is cut down to it.
readCountClamped(s, limit) ==
    Then(readWord(s), LAMBDA n, t : Read(IF n > limit THEN limit ELSE n, t))

\* A count, with the limit that the caller goes on to check.
readCount(s, limit) ==
    Then(readWord(s), LAMBDA n, t : IF n > MaxCount \/ n > limit THEN Error ELSE Read(n, t))

\* The loops of ReadTransaction and ReadBlock: n items, each read by R.
readItems(n, s, R(_)) ==
    FoldLeft(LAMBDA r, i : Then(r, LAMBDA items, t :
                 Then(R(t), LAMBDA item, u : Read(Append(items, item), u))),
             Read(<<>>, s), [i \in 1 .. n |-> i])

readInput(s) ==
    Then(readWord(s), LAMBDA hash, t : Then(readWord(t), LAMBDA idx, u :
    Then(readBytes(u), LAMBDA sig, v : Then(readBytes(v), LAMBDA pub, w :
        Read([PrevTxHash |-> hash, OutputIdx |-> idx, Signature |-> sig, PublicKey |-> pub], w)))))

readOutput(s) ==
    Then(readWord(s), LAMBDA amount, t : Then(readBytes(t), LAMBDA script, u :
        Read([Amount |-> amount, LockingScript |-> script], u)))

readList(s, limit, R(_)) == Then(readCount(s, limit), LAMBDA n, t : readItems(n, t, R))

\* Mutant: the error of the last read is dropped.
ReadTransactionLax(s) ==
    Then(readWord(s), LAMBDA version, t :
    Then(readList(t, MaxItems, readInput), LAMBDA inputs, u :
    Then(readList(u, MaxItems, readOutput), LAMBDA outputs, v :
        Read([Version |-> version, Inputs |-> inputs, Outputs |-> outputs,
              LockTime |-> IF v = <<>> THEN 0 ELSE Head(v)],
             IF v = <<>> THEN v ELSE Tail(v)))))

ReadTransaction(s) ==
    Then(readWord(s), LAMBDA version, t :
    Then(readList(t, MaxItems, readInput), LAMBDA inputs, u :
    Then(readList(u, MaxItems, readOutput), LAMBDA outputs, v :
    Then(readWord(v), LAMBDA lock, w :
        Read([Version |-> version, Inputs |-> inputs, Outputs |-> outputs, LockTime |-> lock], w)))))

\* The count of the transactions of a block has only the limit MaxTxs.
ReadBlock(s) ==
    Then(readWord(s), LAMBDA header, t : Then(readWord(t), LAMBDA n, u :
        IF n > MaxTxs THEN Error
        ELSE Then(readItems(n, u, ReadTransaction), LAMBDA txs, v :
                 Read([Header |-> header, Transactions |-> txs], v))))

-----------------------------------------------------------------------------
(* Hashes *)

TxHash(t) == WriteTransaction(t)

\* Mutant: the last hash of an odd level is left out.
PairsDropping(hashes) ==
    [i \in 1 .. Len(hashes) \div 2 |-> <<hashes[2 * i - 1], hashes[2 * i]>>]

\* One level of the tree: a level of odd length has its last hash twice.
Pairs(hashes) ==
    LET even == IF Len(hashes) % 2 = 1 THEN Append(hashes, Last(hashes)) ELSE hashes
    IN  [i \in 1 .. Len(even) \div 2 |-> <<even[2 * i - 1], even[2 * i]>>]

\* The levels end with the root; there are fewer of them than transactions.
BuildMerkleRoot(txs) ==
    IF txs = <<>> THEN <<>>
    ELSE FoldLeft(LAMBDA hashes, t : IF Len(hashes) > 1 THEN Pairs(hashes) ELSE hashes,
                  [i \in 1 .. Len(txs) |-> TxHash(txs[i])], txs)[1]

\* The inputs without what signing adds to them.
Unsigned(t) ==
    [t EXCEPT !.Inputs = [i \in 1 .. Len(@) |->
                             [@[i] EXCEPT !.Signature = <<>>, !.PublicKey = <<>>]]]

\* Mutant: signatures and public keys are not taken out first.
SignatureHashKeepingOthers(t, i, script) == TxHash([t EXCEPT !.Inputs[i].Signature = script])

\* What is signed for input i, which spends an output with the script given.
SignatureHash(t, i, script) ==
    TxHash([Unsigned(t) EXCEPT !.Inputs[i].Signature = script])
=============================================================================
