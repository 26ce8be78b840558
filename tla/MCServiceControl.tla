--------------------------- MODULE MCServiceControl ---------------------------
(* Instance of ServiceControl for TLC: the service in a console or under the *)
(* service manager, then with the commands that install and uninstall it.    *)
EXTENDS ServiceControl
==============================================================================
