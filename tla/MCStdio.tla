------------------------------ MODULE MCStdio ------------------------------
(***************************************************************************)
(* A buffer of two bytes, files of up to four.                             *)
(***************************************************************************)
EXTENDS Stdio

(* 0 stands for '\n', 1 and 2 for any other bytes.                         *)
MCContents == {<< >>, <<1, 0, 2>>}
MCChunks == {<<1>>, <<2, 0>>, <<2, 1, 2>>}
MCModes == {<<"r">>, <<"r", "b", "+">>, <<"w">>, <<"a", "+">>, <<"x">>, <<"b">>}
MCOffsets == {-1, 0, 1}
=============================================================================
