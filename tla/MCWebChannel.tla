----------------------------- MODULE MCWebChannel -----------------------------
(***************************************************************************)
(* Small instances of WebChannel for TLC.                                  *)
(***************************************************************************)
EXTENDS WebChannelProps

=============================================================================
