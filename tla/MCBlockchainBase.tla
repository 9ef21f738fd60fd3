------------------------- MODULE MCBlockchainBase -------------------------
(***************************************************************************)
(* Instances of BlockchainBase for TLC: three records in a block, so that  *)
(* four transactions fill two block files.  The configurations choose the  *)
(* topic, the sibling, the workers and the failures.                       *)
(***************************************************************************)
EXTENDS BlockchainBase

===========================================================================
