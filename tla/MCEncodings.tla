---------------------------- MODULE MCEncodings ----------------------------
(***************************************************************************)
(* All streams of ten words 0, 1 and 2, with limits that 2 exceeds in one  *)
(* place and not in another; lists of up to five transactions; the         *)
(* boundary values of bytes and of five-bit symbols; hashes of 19 and of   *)
(* 20 bytes.                                                               *)
(***************************************************************************)
EXTENDS Encodings, TLC

In(sig) == [PrevTxHash |-> 1, OutputIdx |-> 0, Signature |-> sig, PublicKey |-> sig]
Out(n) == [Amount |-> n, LockingScript |-> <<1>>]
Tx(ins, outs) == [Version |-> 1, Inputs |-> ins, Outputs |-> outs, LockTime |-> 0]

SmallTx ==
    {Tx(<<In(a)>>, outs) : a \in {<<>>, <<1>>}, outs \in {<<>>, <<Out(1)>>, <<Out(2)>>}}
        \cup {Tx(<<In(a), In(b)>>, <<Out(1)>>) : a, b \in {<<>>, <<1>>}}

MCScript == {<<1>>, <<2>>, <<1, 1>>}

\* "nevel" and "rnevel"
Nevel == <<110, 101, 118, 101, 108>>
Rnevel == <<114>> \o Nevel

\* Two files of the present version, one key with a leading zero, and an old
\* file of the first wallet for the other network.
MCSaved ==
    << [key |-> 5, prefix |-> 1, passphrase |-> 1, salt |-> 1, nonce |-> 1, version |-> 2],
       [key |-> 300, prefix |-> 1, passphrase |-> 2, salt |-> 2, nonce |-> 2, version |-> 2],
       [key |-> 5, prefix |-> 2, passphrase |-> 1, salt |-> 0, nonce |-> 3, version |-> 1] >>

MCSymbol ==
    "stream" :> 0 .. 2 @@ "list" :> {Tx(<<>>, <<Out(n)>>) : n \in 1 .. 5} @@ "pair" :> SmallTx
        @@ "hash" :> {0, 129, 255} @@ "groups" :> {0, 1, 16, 31} @@ "file" :> DOMAIN MCSaved

MCStart == [k \in DOMAIN MCSymbol |-> IF k = "hash" THEN [i \in 1 .. 19 |-> 13 * i] ELSE <<>>]

MCBound ==
    "stream" :> 10 @@ "list" :> 5 @@ "pair" :> 2 @@ "hash" :> 20 @@ "groups" :> 5 @@ "file" :> 7
=============================================================================
