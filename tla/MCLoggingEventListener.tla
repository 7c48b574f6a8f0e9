----------------------- MODULE MCLoggingEventListener -----------------------
(* Small instance of LoggingEventListener for TLC: model values for the event *)
(* sources, given in the cfg file.                                            *)
EXTENDS LoggingEventListener

=============================================================================
