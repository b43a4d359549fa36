-------------------------- MODULE MCCaptureSession --------------------------
(***************************************************************************)
(* CaptureSession for TLC: two controls, two channels of the route.        *)
(***************************************************************************)
EXTENDS CaptureSession, TLC

Symmetry == Permutations(Controls) \cup Permutations(Channels)
=============================================================================
