---------------------------- MODULE MCTuiSession ----------------------------
(***************************************************************************)
(* Model-checking module of TuiSession: the bounds are in the configuration *)
(* files.                                                                   *)
(***************************************************************************)
EXTENDS TuiSession

=============================================================================
