------------------------------ MODULE KeyFile ------------------------------
(***************************************************************************)
(* Encrypted wallet files: wallet/store.go.                                *)
(*                                                                         *)
(* Ciphers and key derivation are ideal: a key is what it is derived from, *)
(* and a ciphertext is opened with the key, the nonce and the additional   *)
(* data it was sealed with, or not at all.  Hexadecimal text that does not *)
(* decode and JSON that does not parse are refused before anything else    *)
(* and are left out.                                                       *)
(***************************************************************************)
EXTENDS Naturals, SequencesExt

CONSTANTS pbkdf2Iter, MaxKeyBytes

ASSUME KeyFileAssumption == pbkdf2Iter \in Nat \ {0} /\ MaxKeyBytes \in Nat

-----------------------------------------------------------------------------
(* Ideal ciphers *)

sha256Key(passphrase) == <<passphrase>>
pbkdf2SHA256(passphrase, salt, iter) == <<passphrase, salt, iter>>

Seal(key, nonce, plain, data) == [key |-> key, nonce |-> nonce, plain |-> plain, data |-> data]
Opens(c, key, nonce, data) == c.key = key /\ c.nonce = nonce /\ c.data = data

-----------------------------------------------------------------------------
(* Private keys are numbers, written as bytes without leading zeros. *)

PrivateKeyHex(d) ==
    LET n == CHOOSE k \in 0 .. MaxKeyBytes : d < 256^k /\ (k = 0 \/ d >= 256^(k - 1))
    IN  [i \in 1 .. n |-> (d \div 256^(n - i)) % 256]

FromPrivateKey(d, prefix) == [PrivateKey |-> d, Prefix |-> prefix, Address |-> <<prefix, d>>]

FromHexPrivateKey(bytes, prefix) ==
    FromPrivateKey(FoldLeft(LAMBDA d, byte : 256 * d + byte, 0, bytes), prefix)

\* The key derived from a seed phrase has its full length; the phrase is given
\* by that key.
NewFromSeedPhrase(seed, prefix) ==
    FromHexPrivateKey([i \in 1 .. MaxKeyBytes |-> (seed \div 256^(MaxKeyBytes - i)) % 256], prefix)

-----------------------------------------------------------------------------
Plaintext(w, seed) == [PrivateKeyHex |-> PrivateKeyHex(w.PrivateKey), SeedPhrase |-> seed]

\* Salt and nonce are fresh; an empty passphrase is refused.
SaveEncryptedWithSeed(w, seed, passphrase, salt, nonce) ==
    [Version |-> 2, Address |-> w.Address, Prefix |-> w.Prefix,
     KDFSalt |-> salt, KDFIter |-> pbkdf2Iter, Nonce |-> nonce,
     Ciphertext |-> Seal(pbkdf2SHA256(passphrase, salt, pbkdf2Iter), nonce,
                         Plaintext(w, seed), w.Address)]

\* A file of the first version, which the program still reads: no salt and no
\* count of iterations.
LegacyFile(w, seed, passphrase, nonce) ==
    [Version |-> 1, Address |-> w.Address, Prefix |-> w.Prefix,
     KDFSalt |-> 0, KDFIter |-> 0, Nonce |-> nonce,
     Ciphertext |-> Seal(sha256Key(passphrase), nonce, Plaintext(w, seed), w.Address)]

fileKey(file, passphrase) ==
    IF file.Version = 1 THEN sha256Key(passphrase)
    ELSE pbkdf2SHA256(passphrase, file.KDFSalt,
                      IF file.KDFIter = 0 THEN pbkdf2Iter ELSE file.KDFIter)

\* Mutant: the address is not compared.
LoadEncryptedUnchecked(file, passphrase) ==
    LET c == file.Ciphertext
    IN  IF ~Opens(c, fileKey(file, passphrase), file.Nonce, file.Address) THEN [ok |-> FALSE]
        ELSE [ok |-> TRUE, seed |-> c.plain.SeedPhrase,
              wallet |-> FromHexPrivateKey(c.plain.PrivateKeyHex, file.Prefix)]

LoadEncrypted(file, passphrase) ==
    LET c == file.Ciphertext
        w == FromHexPrivateKey(c.plain.PrivateKeyHex, file.Prefix)
    IN  IF \/ file.Version \notin {1, 2}
           \/ ~Opens(c, fileKey(file, passphrase), file.Nonce, file.Address)
           \/ w.Address # file.Address
        THEN [ok |-> FALSE]
        ELSE [ok |-> TRUE, wallet |-> w, seed |-> c.plain.SeedPhrase]
=============================================================================
