------------------------------ MODULE Address ------------------------------
(***************************************************************************)
(* Addresses: wallet/bech32.go and its users in wallet/wallet.go.          *)
(*                                                                         *)
(* An address is its prefix, as bytes, and the five-bit symbols after the  *)
(* separator, which is the last "1" as no symbol is written so.  The case  *)
(* of the letters is left out: the checks on it come before all others.    *)
(***************************************************************************)
EXTENDS Naturals, Sequences, SequencesExt, Bitwise

Decoded(val) == [ok |-> TRUE, val |-> val]
Refused == [ok |-> FALSE]

-----------------------------------------------------------------------------
(* The checksum: a polynomial over 30 bits. *)

generator == <<996825010, 642813549, 513874426, 1027748829, 705979059>>

\* What the five bits shifted out on the left bring back in.
carry ==
    [top \in 0 .. 31 |->
        FoldLeft(LAMBDA c, i : IF (top \div 2^(i - 1)) % 2 = 1 THEN c ^^ generator[i] ELSE c,
                 0, <<1, 2, 3, 4, 5>>)]

\* Mutant: the bits shifted out are lost.
polymodStepNoCarry(chk, v) == (chk % 2^25) * 32 + v

polymodStep(chk, v) == ((chk % 2^25) * 32 + v) ^^ carry[chk \div 2^25]

bech32Polymod(values) ==
    LET from[i \in 1 .. Len(values) + 1, chk \in 0 .. 2^30 - 1] ==
            IF i > Len(values) THEN chk ELSE from[i + 1, polymodStep(chk, values[i])]
    IN  from[1, 1]

bech32HrpExpand(hrp) ==
    [i \in 1 .. Len(hrp) |-> hrp[i] \div 32] \o <<0>> \o [i \in 1 .. Len(hrp) |-> hrp[i] % 32]

bech32CreateChecksum(hrp, data) ==
    LET polymod == bech32Polymod(bech32HrpExpand(hrp) \o data \o <<0, 0, 0, 0, 0, 0>>) ^^ 1
    IN  [i \in 1 .. 6 |-> (polymod \div 2^(5 * (6 - i))) % 32]

bech32VerifyChecksum(hrp, data) == bech32Polymod(bech32HrpExpand(hrp) \o data) = 1

bech32Encode(hrp, data) == [hrp |-> hrp, symbols |-> data \o bech32CreateChecksum(hrp, data)]

\* At least the six symbols of the checksum, and a checksum that is right.
bech32Decode(addr) ==
    IF Len(addr.symbols) < 6 \/ ~bech32VerifyChecksum(addr.hrp, addr.symbols) THEN Refused
    ELSE Decoded(SubSeq(addr.symbols, 1, Len(addr.symbols) - 6))

-----------------------------------------------------------------------------
(* Regrouping bits *)

\* The loop of convertBits: the bits that are held back and the groups made.
regroup(data, from, to) ==
    LET after[i \in 0 .. Len(data)] ==
            IF i = 0 THEN [acc |-> 0, bits |-> 0, ret |-> <<>>]
            ELSE LET s    == after[i - 1]
                     acc  == (s.acc * 2^from + data[i]) % 2^(from + to - 1)
                     bits == s.bits + from
                 IN  [acc |-> acc, bits |-> bits % to,
                      ret |-> s.ret \o [k \in 1 .. bits \div to |->
                                           (acc \div 2^(bits - k * to)) % 2^to]]
    IN  after[Len(data)]

\* Mutant: padding is not looked at.
convertBitsAnyPadding(data, from, to, pad) ==
    LET s == regroup(data, from, to)
    IN  Decoded(IF pad /\ s.bits > 0 THEN Append(s.ret, (s.acc * 2^(to - s.bits)) % 2^to) ELSE s.ret)

convertBits(data, from, to, pad) ==
    LET s    == regroup(data, from, to)
        left == (s.acc * 2^(to - s.bits)) % 2^to
    IN  IF \/ \E i \in 1 .. Len(data) : data[i] >= 2^from
           \/ ~pad /\ (s.bits >= from \/ left # 0)
        THEN Refused
        ELSE Decoded(IF pad /\ s.bits > 0 THEN Append(s.ret, left) ELSE s.ret)

-----------------------------------------------------------------------------
(* The operations of a wallet; the public key is given by its hash. *)

AddressFromPublicKey(hash, prefix) == bech32Encode(prefix, convertBits(hash, 8, 5, TRUE).val)

DecodeAddress(addr, prefix) ==
    LET r == bech32Decode(addr)
    IN  IF ~r.ok \/ addr.hrp # prefix THEN Refused ELSE convertBits(r.val, 5, 8, FALSE)
=============================================================================
