----------------------------- MODULE Encodings -----------------------------
(***************************************************************************)
(* What the formats of the program promise to their users.  A behaviour    *)
(* grows one input of one kind, symbol by symbol, and stops at the bound   *)
(* for that kind, so that the inputs of a kind are the states of the       *)
(* model:                                                                  *)
(*   stream  the words of a file or a message that is read;                *)
(*   list    the transactions of a block;                                  *)
(*   pair    two transactions to be signed;                                *)
(*   hash    the bytes of a public key hash;                               *)
(*   groups  the five-bit symbols of an address before its checksum;       *)
(*   file    the saved wallet that each field of a wallet file is from.    *)
(***************************************************************************)
EXTENDS Codec, Address, KeyFile, FiniteSets

CONSTANTS
    Symbol,     \* Symbol[k]: the symbols of an input of kind k
    Start,      \* Start[k]: what all of them start with
    Bound,      \* Bound[k]: the length of the longest
    Script,     \* locking scripts
    prefix,     \* the address prefix of the network
    other,      \* that of another network
    Saved       \* wallets that were saved, each with its seed, passphrase,
                \* salt, nonce and the version of the file

VARIABLES kind, input

vars == <<kind, input>>

Init == kind \in DOMAIN Symbol /\ input = Start[kind]

Grow ==
    /\ Len(input) < Bound[kind]
    /\ \E s \in Symbol[kind] : input' = Append(input, s)
    /\ UNCHANGED kind

Spec == Init /\ [][Grow]_vars

-----------------------------------------------------------------------------
Prefix(s, n) == SubSeq(s, 1, n)

\* There is one encoding of every transaction and block: what the readers take
\* from a stream is, word for word, what the writers make of the value they
\* return.  The identity of a transaction, the hash of its encoding, thus does
\* not depend on who encoded it, and whatever was read can be stored and read
\* again (ReadTransaction, ReadBlock).
Canonical ==
    kind = "stream" =>
        /\ LET r == ReadTransaction(input) IN r.ok => WriteTransaction(r.val) \o r.rest = input
        /\ LET r == ReadBlock(input) IN r.ok => WriteBlock(r.val) \o r.rest = input

\* A block or transaction of which the end is missing is never taken for
\* another one: a file whose write was cut short, or a message cut short, is an
\* error for ReadBlock and ReadTransaction.
TruncationDetected ==
    kind = "stream" =>
        /\ LET r == ReadTransaction(input)
           IN  r.ok => \A n \in 0 .. Len(input) - Len(r.rest) - 1 :
                           ~ReadTransaction(Prefix(input, n)).ok
        /\ LET r == ReadBlock(input)
           IN  r.ok => \A n \in 0 .. Len(input) - Len(r.rest) - 1 :
                           ~ReadBlock(Prefix(input, n)).ok

Lists == {list \in UNION {[1 .. n -> Symbol["list"]] : n \in 0 .. Bound["list"]} : IsInjective(list)}
Roots == {<<list, BuildMerkleRoot(list)>> : list \in Lists}

\* The root in a header determines the transactions of the block, as long as no
\* list repeats a transaction: BuildMerkleRoot tells any two such lists apart,
\* whatever their lengths, although it fills up odd levels.
RootBinds ==
    kind = "list" /\ IsInjective(input) =>
        LET root == BuildMerkleRoot(input)
        IN  \A p \in Roots : p[2] = root => p[1] = input

\* A signature covers everything but signatures and public keys, and its place:
\* two inputs of two transactions have the same SignatureHash only if they are
\* the same input of the same unsigned transaction, spending the same script,
\* and then they have, so inputs can be signed in any order.
SignatureBinds ==
    kind = "pair" /\ Len(input) = 2 =>
        LET t == input[1]
            u == input[2]
        IN  \A i \in DOMAIN t.Inputs, j \in DOMAIN u.Inputs, a, b \in Script :
                SignatureHash(t, i, a) = SignatureHash(u, j, b)
                    <=> i = j /\ a = b /\ Unsigned(t) = Unsigned(u)

\* The addresses that one slip makes of an address: a wrong symbol, two
\* neighbours exchanged, a symbol left out, the prefix of the other network.
Slips(addr) ==
    LET n == Len(addr.symbols)
    IN  {[addr EXCEPT !.symbols[i] = s] : i \in 1 .. n, s \in 0 .. 31}
        \cup {[addr EXCEPT !.symbols[i] = addr.symbols[i + 1], !.symbols[i + 1] = addr.symbols[i]] :
                 i \in 1 .. n - 1}
        \cup {[addr EXCEPT !.symbols = RemoveAt(@, i)] : i \in 1 .. n}
        \cup {[addr EXCEPT !.hrp = other]}

\* No coin is sent to a mistyped address: DecodeAddress gives the hash an
\* address was made from, and refuses what a slip makes of the address.
SlipsDetected ==
    kind = "hash" =>
        LET addr == AddressFromPublicKey(input, prefix)
        IN  /\ DecodeAddress(addr, prefix) = Decoded(input)
            /\ \A slip \in Slips(addr) \ {addr} : ~DecodeAddress(slip, slip.hrp).ok

\* A hash has one address: symbols with a right checksum that DecodeAddress
\* accepts are those AddressFromPublicKey writes for the hash it returns.
OneAddress ==
    kind = "groups" =>
        LET addr == bech32Encode(prefix, input)
            r    == DecodeAddress(addr, prefix)
        IN  r.ok => AddressFromPublicKey(r.val, prefix) = addr

-----------------------------------------------------------------------------
fileOf(k) ==
    LET v == Saved[k]
        w == FromPrivateKey(v.key, v.prefix)
    IN  IF v.version = 1 THEN LegacyFile(w, v.key, v.passphrase, v.nonce)
        ELSE SaveEncryptedWithSeed(w, v.key, v.passphrase, v.salt, v.nonce)

\* A wallet file that is damaged, so that fields of other files are in it, or a
\* wrong passphrase, never yields a wallet that was not saved: LoadEncrypted
\* fails, or it returns the key, the prefix and the address that were sealed
\* with that passphrase, and a seed phrase that restores the same wallet.  A
\* file as it was saved does load.
WalletReloads ==
    kind = "file" /\ Len(input) = 7 =>
        LET file == [Version |-> fileOf(input[1]).Version, Address |-> fileOf(input[2]).Address,
                     Prefix |-> fileOf(input[3]).Prefix, KDFSalt |-> fileOf(input[4]).KDFSalt,
                     KDFIter |-> fileOf(input[5]).KDFIter, Nonce |-> fileOf(input[6]).Nonce,
                     Ciphertext |-> fileOf(input[7]).Ciphertext]
            v    == Saved[input[7]]
            w    == FromPrivateKey(v.key, v.prefix)
        IN  /\ \A p \in {Saved[k].passphrase : k \in DOMAIN Saved} :
                LET r == LoadEncrypted(file, p)
                IN  r.ok => /\ p = v.passphrase /\ r.wallet = w
                            /\ NewFromSeedPhrase(r.seed, v.prefix) = w
            /\ Cardinality(ToSet(input)) = 1 => LoadEncrypted(file, v.passphrase).ok
=============================================================================
