----------------------------- MODULE MCConsumerLag -----------------------------
(***************************************************************************)
(* The instances of MCNormalize, with a lag collector beside the runs.     *)
(***************************************************************************)
EXTENDS MCNormalize, ConsumerLag
=============================================================================
