---------------------------- MODULE MCBenchQueue ----------------------------
(* A small instance of BenchQueue: two teams on one of a machine's two      *)
(* hosts.                                                                   *)
EXTENDS BenchQueue, TLC

CONSTANTS t1, t2, h1, h2, n1

SharedHost == (t1 :> h1) @@ (t2 :> h1)
OneMachine == (h1 :> n1) @@ (h2 :> n1)
=============================================================================
