----------------------------- MODULE MCFileCopy -----------------------------
(* One copy of a file of three or four bytes, in blocks of two bytes or in *)
(* one block.  One of the files ends in a zero.                            *)
EXTENDS FileCopy

MCContents == {<<0, 1, 1>>, <<1, 1, 0>>, <<1, 0, 0, 1>>}
MCCommandLines == {[options |-> <<2>>, operands |-> 2],
                   [options |-> << >>, operands |-> 2]}
=============================================================================
