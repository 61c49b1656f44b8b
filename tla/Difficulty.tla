----------------------------- MODULE Difficulty -----------------------------
(***************************************************************************)
(* Proof-of-work arithmetic: the compact encoding of a target              *)
(* (params/params.go), the retarget rule and the work a target stands for  *)
(* (consensus/consensus.go).                                               *)
(*                                                                         *)
(* The code works on bytes (base 256) and 256-bit targets.  The base, the  *)
(* number of digits and the time unit are constants here, so that every    *)
(* case of the encoding (short mantissas, a set sign bit, truncation) is   *)
(* reached with small numbers.                                             *)
(***************************************************************************)
EXTENDS Integers, FiniteSetsExt

CONSTANTS
    Base,                 \* 256: the radix of big.Int.Bytes()
    Digits,               \* 32: a target has at most this many digits
    PowLimit,             \* Network.PowLimit
    ExpectedRetargetSec,  \* TargetBlockSec * DifficultyAdjustmentInterval
    DifficultyWindow      \* DifficultyAdjustmentInterval

ASSUME DifficultyAssumption ==
    /\ Base \in Nat /\ Base >= 2 /\ Base % 2 = 0
    /\ Digits \in Nat /\ Digits >= 3
    /\ PowLimit \in 1 .. Base ^ Digits - 1
    /\ ExpectedRetargetSec \in Nat \ {0}
    /\ DifficultyWindow \in Nat \ {0}

(***************************************************************************)
(* A compact value is size * Base^3 + mantissa.  The upper half of the     *)
(* mantissa's range carries the sign bit (0x00800000).                     *)
(***************************************************************************)
SignBit == Base ^ 3 \div 2

CompactToBig(compact) ==
    LET size == compact \div Base ^ 3
        word == compact % SignBit
        size3 == IF size <= 3 THEN word \div Base ^ (3 - size)
                              ELSE word * Base ^ (size - 3)
    IN  IF compact % Base ^ 3 >= SignBit THEN -size3 ELSE size3

\* len(n.Bytes()) for n > 0.
ByteLen(n) == CHOOSE k \in 1 .. Digits : Base ^ (k - 1) <= n /\ n < Base ^ k

\* Mutant: the sign bit is forgotten.
BigToCompactSigned(n) ==
    LET size == ByteLen(n)
        mantissa == IF size <= 3 THEN n * Base ^ (3 - size)
                                 ELSE n \div Base ^ (size - 3)
    IN  IF n = 0 THEN 0 ELSE size * Base ^ 3 + mantissa

\* A set sign bit is avoided by dropping one more digit.
BigToCompact(n) ==
    LET size == ByteLen(n)
        mantissa == IF size <= 3 THEN n * Base ^ (3 - size)
                                 ELSE n \div Base ^ (size - 3)
    IN  IF n = 0 THEN 0
        ELSE IF mantissa >= SignBit
             THEN (size + 1) * Base ^ 3 + mantissa \div Base
             ELSE size * Base ^ 3 + mantissa

-----------------------------------------------------------------------------
\* Mutants: no upper clamp; a window counted one second too long; the ratio
\* upside down.
RetargetSkewed(oldTarget, actualTime) ==
    (oldTarget * Max({actualTime, ExpectedRetargetSec \div 4})) \div ExpectedRetargetSec

RetargetLong(oldTarget, actualTime) ==
    LET clamped == Min({Max({actualTime, ExpectedRetargetSec \div 4}),
                        ExpectedRetargetSec * 4})
    IN  (oldTarget * clamped) \div (ExpectedRetargetSec + 1)

RetargetInverse(oldTarget, actualTime) ==
    LET clamped == Min({Max({actualTime, ExpectedRetargetSec \div 4}),
                        ExpectedRetargetSec * 4})
    IN  (oldTarget * ExpectedRetargetSec) \div clamped

\* The measured time is clamped to a quarter and to four times the expected one.
Retarget(oldTarget, actualTime) ==
    LET clamped == Min({Max({actualTime, ExpectedRetargetSec \div 4}),
                        ExpectedRetargetSec * 4})
    IN  (oldTarget * clamped) \div ExpectedRetargetSec

\* The bits a block must carry at a window boundary, from the bits of its
\* parent and the seconds between the window's first block and the parent.
NextBits(bits, actualTime) ==
    BigToCompact(Min({Retarget(CompactToBig(bits), actualTime), PowLimit}))

WorkForBits(bits) ==
    LET target == CompactToBig(bits)
    IN  IF target <= 0 THEN 0 ELSE Base ^ Digits \div (target + 1)

\* CheckProofOfWork, without the comparison of the hash itself.
TargetInRange(bits) == CompactToBig(bits) \in 1 .. PowLimit
=============================================================================
