--------------------------- MODULE MCCaptureService ---------------------------
(* Two callers race through every pair of operations with up to three       *)
(* sniffers, each of whose threads receives at most two packets: one while  *)
(* it runs and one late, or two that would be late.  At the bounds the       *)
(* model stops, so deadlock is not checked.                                 *)
EXTENDS CaptureService
=============================================================================
