----------------------------- MODULE MCWalLayout -----------------------------
(* Model-checking instances of WalLayout: the header and the alignment of  *)
(* the code, with length fields of 8 bits.                                 *)
EXTENDS WalLayout

\* 192 is the largest payload that fits, 249 to 255 wrap to a record length
\* that equals the header's, 200 wraps it to zero, 256 is a whole word.
SizesAroundTheWord ==
    {0, 1, 7, 8, 9, 185, 191, 192, 193, 199, 200, 201, 248, 249, 252, 255,
     256, 257, 448, 505}
=============================================================================
