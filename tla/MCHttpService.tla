---------------------------- MODULE MCHttpService ----------------------------
(* Instance of HttpService for TLC: the service alone, in either mode. *)
EXTENDS HttpService
==============================================================================
