--------------------------- MODULE MCFileTransfer ---------------------------
(* Small batches of small files for TLC. *)
EXTENDS TransferProperties, TLC

\* Empty files first, last and in the middle; a file of one chunk; files long
\* enough to fill the pipeline and to be held up by backpressure; one that
\* memory does not hold, one with more chunks than allowed over a data channel.
GoodBatches == {<<0>>, <<1>>, <<7>>, <<11>>, <<0, 5>>, <<6, 0>>, <<1, 0, 4>>, <<0, 0, 0>>}

\* Too large, too many, and too large together.
BadBatches == {<<13>>, <<8, 8>>, <<1, 1, 1, 1>>}

SmallBatches == GoodBatches \cup BadBatches
=============================================================================
