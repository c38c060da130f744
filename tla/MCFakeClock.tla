---------------------------- MODULE MCFakeClock -----------------------------
(* A small instance of FakeClock: three threads, and u64::MAX within reach. *)
EXTENDS FakeClock

CONSTANTS t1, t2, t3
=============================================================================
