---------------------------- MODULE HomeReportMC ----------------------------
EXTENDS HomeReport, TLC

CONSTANTS r1

\* A number without a meaning, one that reduces to itself, to a master number, by two sums, and one
\* that is taken for a postal code.
MCBuildings == {0, 7, 29, 199, 1234, Missing}

\* No words, a word whose value is 7 and one of 22.
MCTexts == {<<>>, <<7>>, <<26, 26, 15>>}

\* The bounds of the quarters, and bearings outside the circle.
MCBearings == {-90, 0, 44, 45, 134, 135, 224, 225, 314, 315, 400}
=============================================================================
