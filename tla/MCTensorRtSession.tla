-------------------------- MODULE MCTensorRtSession --------------------------
(* Instance of TensorRtSession for TLC. *)
EXTENDS TensorRtSession
==============================================================================
