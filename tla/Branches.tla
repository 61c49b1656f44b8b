------------------------------ MODULE Branches ------------------------------
(***************************************************************************)
(* Reference definitions: the branch of a block, what replaying a branch   *)
(* from nothing makes of the coins, and when a block is valid on top of a  *)
(* branch.  storage.DB never replays; the chain models are compared with   *)
(* these definitions.                                                      *)
(***************************************************************************)
EXTENDS Storage

\* A block continues the branch of its parent; no header that breaks the count
\* of heights is accepted.
Continues(b) == Header[b].prev # None /\ HeightOf(b) = HeightOf(Header[b].prev) + 1

\* The branch of a block, oldest block first.
PathTo[b \in Block] ==
    IF Continues(b) THEN Append(PathTo[Header[b].prev], b) ELSE <<b>>

NoCoins == [o \in Outpoint |-> None]

Spends(t, o) == ~IsCoinbase(t) /\ o \in SpentBy(t)

\* The coins after a block, given the coins before it: the last transaction that
\* spends or creates an output decides.
Connect(coins, b) ==
    [o \in Outpoint |->
        LET users == {i \in DOMAIN Body[b] :
                        Spends(Body[b][i], o) \/ o \in CreatedBy(Body[b][i])}
            last == Max(users)
        IN  IF users = {} THEN coins[o]
            ELSE IF o \in CreatedBy(Body[b][last]) THEN NewCoin(b, last, o) ELSE None]

\* The coins after the whole branch of a block.
Replay[b \in Block] ==
    Connect(IF Continues(b) THEN Replay[Header[b].prev] ELSE NoCoins, b)

\* What each block of a branch adds to the supply: what its coinbase pays out, less
\* the fees of its payments, which no output of theirs carries.
Issued(path) ==
    [i \in DOMAIN path |->
        OutputTotal(Body[path[i]][1])
            - FeeTotal(Payments(path[i]), IF i = 1 THEN NoCoins ELSE Replay[path[i - 1]])]

\* A branch as the index by height that ExpectedBits consults.
IndexOf(path) ==
    [h \in 0 .. MaxHeight |-> IF h + 1 \in DOMAIN path THEN path[h + 1] ELSE None]

\* b is valid on top of a branch: its header, its difficulty, its transactions.
ValidNext(b, path, unspent) ==
    /\ ValidHeader(b, path[Len(path)])
    /\ Header[b].bits = ExpectedBits(path[Len(path)], IndexOf(path))
    /\ ValidBlockTxs(b, unspent)
=============================================================================
