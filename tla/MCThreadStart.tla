--------------------------- MODULE MCThreadStart ---------------------------
(***************************************************************************)
(* The calls of main(): addNumbers(10, 32), countSlowly("counter", 1, 4)   *)
(* and addNumbers(1, 1).  Each func reads its two ints when it is called,  *)
(* countSlowly its label in each of four iterations.                       *)
(***************************************************************************)
EXTENDS ThreadStart

MainUses == <<2, 6, 2>>

=============================================================================
