----------------------------- MODULE MCPlcScan -----------------------------
(* An instance of PlcScan for TLC.  The unit of time is half a millisecond:   *)
(* a period of 20 ms, an RTOS tick of 10 ms and a "second" of 12.5 ms, so that *)
(* every turn carries and tv_nsec wraps.                                      *)
EXTENDS PlcScan
=============================================================================
