--------------------------- MODULE MCResultMerge ---------------------------
EXTENDS ResultMerge

\* The integers of nine verdicts, InternalError as an integer the program
\* never writes.  Left out: 2 (Compiling), which only a submission row holds.
MCColumns == {1, 3, 4, 5, 6, 7, 8, 9, 11}
=============================================================================
