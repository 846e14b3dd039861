---------------------------- MODULE MCWebBridge ----------------------------
(***************************************************************************)
(* An instance of WebBridge for TLC.                                       *)
(***************************************************************************)
EXTENDS WebBridge, TLC

CONSTANTS b1, ana

Two == 1 .. 2
Unbalanced == {"{", "}"}
=============================================================================
