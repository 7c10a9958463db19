-------------------------------- MODULE MCWatch --------------------------------
(***************************************************************************)
(* Small instances of Watch for TLC: where each stream is connected.       *)
(***************************************************************************)
EXTENDS WatchProps, TLC

CONSTANTS i1, i2, l1, l2

\* One stream, on the first process.
OneListener == l1 :> i1

\* A stream on each process.
ListenerEach == (l1 :> i1) @@ (l2 :> i2)
=============================================================================
