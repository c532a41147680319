-------------------------- MODULE MCCaptionService --------------------------
(* Five commands: a start, a restart, a stop while the first session still *)
(* winds down, and two more.                                               *)
EXTENDS CaptionService
=============================================================================
