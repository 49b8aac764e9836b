--------------------------- MODULE MCServiceProvider ---------------------------
(* One polling thread and one thread of pressed buttons against two         *)
(* sniffers that capture up to two packets each, and a queue of two:        *)
(* packets that wait, overflow, or come late from a stopped sniffer.        *)
EXTENDS ServiceProvider
=============================================================================
