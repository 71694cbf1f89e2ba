--------------------------- MODULE MCCaptureReader ---------------------------
(* Instances of CaptureReader for TLC: one reader beside the writers.      *)
EXTENDS CaptureReader, TLC

CONSTANTS k1, k2, k3, b1

Capture(k)   == [op |-> "capture", key |-> k, item |-> 0, expected |-> 0,
                 body |-> b1]
Append(k, x) == [op |-> "append", key |-> k, item |-> 1, expected |-> x,
                 body |-> b1]

MCKeys   == {k1, k2, k3}
MCBodies == {b1}

\* A chain of up to three versions, and captures without a key beside it.
ReadRequests  == {Capture(k1), Capture(NoKey), Append(k2, 1), Append(k3, 2)}
ChainRequests == {Capture(k1), Append(k2, 1), Append(k3, 2)}
=============================================================================
