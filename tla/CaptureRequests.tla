-------------------------- MODULE CaptureRequests --------------------------
(***************************************************************************)
(* The two write requests of the Capture Store and the vocabulary that the *)
(* abstract log and the detailed store share.                              *)
(*                                                                         *)
(* A request is a record [op, key, item, expected, body].  "body" stands   *)
(* for everything the request fingerprint covers besides the other fields  *)
(* (payload digest, channel, user intent), so two requests have the same   *)
(* fingerprint iff they are equal.  "key" stands for the pair of channel   *)
(* and idempotency key.  A capture_text request names no item and expects  *)
(* no version: item and expected are 0, and it may carry no key (NoKey).   *)
(***************************************************************************)
EXTENDS Naturals

CONSTANTS Requests,   \* the requests clients may send
          Keys,       \* the idempotency keys they use
          Bodies,     \* the contents they send
          NoKey       \* the key of a capture that carries none

CaptureRequest == [op : {"capture"}, key : Keys \cup {NoKey},
                   item : {0}, expected : {0}, body : Bodies]
AppendRequest  == [op : {"append"}, key : Keys,
                   item : Nat \ {0}, expected : Nat \ {0}, body : Bodies]

ASSUME RequestsAssumption ==
    /\ NoKey \notin Keys
    /\ Requests \subseteq CaptureRequest \cup AppendRequest

IsCapture(r) == r.op = "capture"
IsAppend(r)  == r.op = "append"

\* Same idempotency identity (scope, key_sha256): the scope ends in the name
\* of the operation.
SameIdentity(r, s) == r.key # NoKey /\ r.op = s.op /\ r.key = s.key

\* c is the newest version of its item in the set of versions log.
Newest(c, log) ==
    /\ c \in log
    /\ \A d \in log : d.item = c.item => d.ver <= c.ver
=============================================================================
