---------------------------- MODULE MCTranscript ----------------------------
(***************************************************************************)
(* Instances of Transcript for TLC.                                        *)
(***************************************************************************)
EXTENDS Transcript

CONSTANTS file, none

\* The first and the last call write to one file, the second to none.
ThreeCalls == <<file, none, file>>
TwoWrites == <<file, file>>
=============================================================================
