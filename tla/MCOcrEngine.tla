----------------------------- MODULE MCOcrEngine -----------------------------
(* Instance of OcrEngine for TLC. *)
EXTENDS OcrEngine
==============================================================================
