---------------------------- MODULE MCFileLogger ----------------------------
(* Small instances of FileLogger for TLC: model values for the logging and    *)
(* the disposing threads, given in the cfg files.                             *)
EXTENDS FileLogger

=============================================================================
