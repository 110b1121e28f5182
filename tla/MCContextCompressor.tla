------------------------ MODULE MCContextCompressor ------------------------
(***************************************************************************)
(* Model-checking module of ContextCompressor.  The context is short, so    *)
(* its budgets are the small-context ones: 85 of 100 tokens are the         *)
(* threshold, and a long message is worth more than half of that.           *)
(***************************************************************************)
EXTENDS ContextCompressor

=============================================================================
