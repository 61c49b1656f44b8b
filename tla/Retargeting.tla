---------------------------- MODULE Retargeting ----------------------------
(***************************************************************************)
(* The difficulty schedule of one branch: what ExpectedBits                *)
(* (consensus/consensus.go) makes of the target window after window, for   *)
(* every length a window can have.  Timestamps are set by miners and are   *)
(* only bounded from above (ValidateBlockHeader), so a window may also be  *)
(* measured as zero or negative.                                           *)
(***************************************************************************)
EXTENDS Difficulty

CONSTANTS
    GenesisBits,     \* the bits of the first window
    Spans,           \* the window lengths tried, in seconds
    SmallestTarget   \* bound: the schedule stops below this target

ASSUME RetargetingAssumption ==
    /\ TargetInRange(GenesisBits)
    /\ Spans \subseteq Int
    /\ SmallestTarget >= 4

VARIABLES
    bits,   \* the bits in force
    span    \* the length of the window that was just closed

vars == <<bits, span>>

Init ==
    /\ bits = GenesisBits
    /\ span = ExpectedRetargetSec

CloseWindow(actual) ==
    /\ CompactToBig(bits) >= SmallestTarget
    /\ bits' = NextBits(bits, actual)
    /\ span' = actual

Next == \E actual \in Spans : CloseWindow(actual)

Spec == Init /\ [][Next]_vars

-----------------------------------------------------------------------------
\* The weight of the last digit a compact encoding of this target keeps.
Ulp(c) == LET size == c \div Base ^ 3 IN IF size <= 3 THEN 1 ELSE Base ^ (size - 3)

\* Every target the schedule produces can be met by a block: CheckProofOfWork
\* would not reject all blocks of the next window (a zero target, a set sign
\* bit or a target above the limit would halt the chain).
AlwaysMineable == TargetInRange(bits)

\* "bounded adjustment": whatever the timestamps say, one window moves the
\* target by at most a factor of four, up to the precision of the encoding.
AdjustmentBounded ==
    [][LET old == CompactToBig(bits)
           new == CompactToBig(bits')
       IN  new <= 4 * old /\ new + Ulp(bits') > old \div 4]_vars

\* A window of exactly the expected length leaves the bits alone: the bits the
\* schedule produces decode and encode back to themselves, so rounding alone
\* never makes the difficulty drift, and every node expects the same word.
NoDrift == NextBits(bits, ExpectedRetargetSec) = bits

\* A faster window never lowers the work of the next block, for any bits the
\* schedule continues from: clamping and truncation keep the order of the spans.
FasterIsHarder ==
    CompactToBig(bits) >= SmallestTarget =>
        \A a, b \in Spans : a <= b =>
            WorkForBits(NextBits(bits, a)) >= WorkForBits(NextBits(bits, b))
=============================================================================
