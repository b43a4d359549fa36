---------------------------- MODULE MCEnumerator ----------------------------
(***************************************************************************)
(* The code's grace and eviction thresholds, on one node with a spare      *)
(* channel name: a pass treats each node by itself, and what nodes share,  *)
(* the pass's phases and the pool of channel names, couples none of them.  *)
(***************************************************************************)
EXTENDS Enumerator

CONSTANTS n1, ch1, ch2, s1, s2
=============================================================================
