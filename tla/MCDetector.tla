----------------------------- MODULE MCDetector -----------------------------
(* Instantiates Detector for TLC.  The offsets in Detector.cfg are scaled  *)
(* down with the pids, so that keys of different rules meet as they do     *)
(* with pids above 800000.                                                 *)
EXTENDS Detector
=============================================================================
