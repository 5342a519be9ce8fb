------------------------------- MODULE MCTlsf -------------------------------
(***************************************************************************)
(* The allocator with every size divided by eight (two-byte alignment) and *)
(* two second-level classes.  Regions are 24 or 40 bytes; the cache takes *)
(* two small regions or one large one.                                     *)
(***************************************************************************)
EXTENDS Tlsf
=============================================================================
