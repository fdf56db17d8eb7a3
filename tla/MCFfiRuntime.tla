---------------------------- MODULE MCFfiRuntime ----------------------------
(***************************************************************************)
(* FfiRuntime with a few threads of each kind.                             *)
(***************************************************************************)
EXTENDS FfiRuntime
=============================================================================
