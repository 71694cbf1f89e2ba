----------------------------- MODULE VersionLog -----------------------------
(***************************************************************************)
(* What the Capture Store promises its callers, with no locks, staging,    *)
(* directories or crashes: a set of committed versions that only grows,    *)
(* one version per idempotency identity, appends that succeed only on the  *)
(* version the caller expected to be the newest, and answers that never    *)
(* claim a version that is not there.                                      *)
(***************************************************************************)
EXTENDS CaptureRequests

VARIABLES committed,  \* committed versions: [item, ver, req, eid]
          answers     \* receipts and refusals handed to callers

logVars == <<committed, answers>>

LogInit == committed = {} /\ answers = {}

\* A capture starts a new item: nothing else of that item is in the log.
Creates(c) ==
    /\ IsCapture(c.req)
    /\ c.ver = 1
    /\ \A d \in committed : d.item # c.item

\* An append follows the version its caller expected to be the newest.
Extends(c) ==
    /\ IsAppend(c.req)
    /\ c.item = c.req.item
    /\ c.ver = c.req.expected + 1
    /\ \E d \in committed : Newest(d, committed)
                            /\ d.item = c.item /\ d.ver = c.req.expected

\* One version is added; its event id is new and its identity unclaimed.
Commit ==
    /\ \E c \in committed' \ committed :
          /\ committed' = committed \cup {c}
          /\ c.req \in Requests
          /\ \A d \in committed : d.eid # c.eid /\ ~SameIdentity(d.req, c.req)
          /\ Creates(c) \/ Extends(c)
    /\ UNCHANGED answers

\* A call is answered once, and a claimed version is a version of the log
\* that was committed for that very request.
Answer ==
    /\ \E a \in answers' \ answers :
          /\ answers' = answers \cup {a}
          /\ \A b \in answers : b.att # a.att
          /\ a.state \in {"committed", "not-committed", "unknown"}
          /\ a.state = "committed" =>
                \E c \in committed : /\ c.req = a.req
                                     /\ c.item = a.item
                                     /\ c.ver = a.ver
                                     /\ c.eid = a.eid
    /\ UNCHANGED committed

LogNext == Commit \/ Answer

LogSpec == LogInit /\ [][LogNext]_logVars
=============================================================================
