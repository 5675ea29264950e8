------------------------------ MODULE Browser ------------------------------
(***************************************************************************)
(* What the parts of the browser have in common: the servers it shows, and *)
(* what state.selectedServer and state.pendingRestart are while they name  *)
(* none (ui/js/state.js).                                                  *)
(***************************************************************************)
CONSTANTS Servers, NoServer

ASSUME BrowserAssumption == NoServer \notin Servers
=============================================================================
