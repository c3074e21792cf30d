------------------------------ MODULE MCSession ------------------------------
(***************************************************************************)
(* TLC instance of Session: the two devices of server.go's processors map. *)
(***************************************************************************)
EXTENDS Session

BothDevices == {"trackpad", "tablet"}
=============================================================================
