-------------------------- MODULE MCCaptureStaging --------------------------
(* Instances of CaptureStaging for TLC: processes are interchangeable.     *)
EXTENDS CaptureStaging, TLC

ProcSymmetry == Permutations(Procs)
=============================================================================
