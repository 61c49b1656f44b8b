--------------------------- MODULE MCRetargeting ---------------------------
EXTENDS Retargeting

\* Windows from "timestamps run backwards" to far past the upper clamp (4 * 12),
\* with both neighbours of the two clamps and of the expected length.
MCSpans == {-1, 0, 2, 3, 4, 7, 11, 12, 13, 20, 47, 48, 49, 100}
=============================================================================
