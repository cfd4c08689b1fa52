-------------------------- MODULE MCResumeHandoff --------------------------
(* Instances of ResumeHandoff for TLC.                                       *)
EXTENDS ResumeHandoff

CONSTANTS a, b, old

=============================================================================
