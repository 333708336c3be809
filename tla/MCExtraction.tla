---------------------------- MODULE MCExtraction ----------------------------
(* Instances of Extraction for TLC.  The scaled times keep timeout (15 s) < *)
(* active window (20 s) <= rate window (60 s); that the rate window is the  *)
(* longer of the two adds only rows that count without blocking, which the  *)
(* finished ones do already.  There is one slot more than the limit admits. *)
EXTENDS Extraction
=============================================================================
