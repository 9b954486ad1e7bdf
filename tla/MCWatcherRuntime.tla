-------------------------- MODULE MCWatcherRuntime --------------------------
(***************************************************************************)
(* Instances of WatcherRuntime for TLC.                                    *)
(***************************************************************************)
EXTENDS WatcherRuntime, TLC

CONSTANTS f1, f2    \* files
=============================================================================
