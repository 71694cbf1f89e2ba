--------------------------- MODULE MCCaptureStore ---------------------------
(***************************************************************************)
(* Small instances of CaptureStore for TLC.                                *)
(***************************************************************************)
EXTENDS CaptureStore, TLC

CONSTANTS k1, k2, k3, b1, b2

\* The first capture becomes item 1: appends name that item.
Capture(k, b)   == [op |-> "capture", key |-> k, item |-> 0, expected |-> 0,
                    body |-> b]
Append(k, x, b) == [op |-> "append", key |-> k, item |-> 1, expected |-> x,
                    body |-> b]

MCKeys   == {k1, k2, k3}
MCBodies == {b1, b2}

\* One capture; an append, the same key with another body, a rival append on
\* the same base, and an append on the version these make.
AppendRequests ==
    {Capture(k1, b1), Append(k2, 1, b1), Append(k2, 1, b2),
     Append(k3, 1, b1)}

ProcSymmetry == Permutations(Procs)
=============================================================================
