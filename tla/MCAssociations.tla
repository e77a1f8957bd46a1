--------------------------- MODULE MCAssociations ---------------------------
(***************************************************************************)
(* Small instances of Associations for TLC.                                *)
(***************************************************************************)
EXTENDS Associations

CONSTANTS o1

=============================================================================
