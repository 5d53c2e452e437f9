--------------------------- MODULE MCEditHistory ---------------------------
(* A small instance of EditHistory: one file of one line.                  *)
EXTENDS EditHistory

CONSTANT a

OneFile == {<<<<Tab, a>>>>}
\* A short text, and a long one of three pieces.
SmallClips == {<<<<a>>>>, <<<<>>, <<a>>, <<>>>>}

\* The view drops the file while no property speaks of it: it is not read
\* back, and the next save replaces it.
StateView == <<doc, mod, mHist, crc0, IF apart THEN <<>> ELSE disk, apart>>

=============================================================================
