-------------------------- MODULE MCCompositeLogger --------------------------
(* Small instance of CompositeLogger for TLC: model values for the logging     *)
(* threads and the bootstrap threads, given in the cfg file.                   *)
EXTENDS CompositeLogger

==============================================================================
