---------------------------- MODULE MCCollector ----------------------------
(* Instances of Collector: families of one and of two members. *)
EXTENDS Collector

CONSTANTS k1, k2

One == <<k1>>
Two == <<k1, k2>>

=============================================================================
