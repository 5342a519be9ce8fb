------------------------------ MODULE MCShExec ------------------------------
(***************************************************************************)
(* Pipelines of up to three commands; pipes of one byte, programs that     *)
(* write two, so that writers block.                                       *)
(***************************************************************************)
EXTENDS ShExec

MCRedirs == {{}, {"in", "out"}}
=============================================================================
