---------------------------- MODULE CaptureStore ----------------------------
(***************************************************************************)
(* The write path of the Capture Store: capture_text and                   *)
(* append_capture_version, called by concurrent processes that share one   *)
(* store, serialised by the capture write lock, any of which may be killed *)
(* between two steps (operations.py).                                      *)
(*                                                                         *)
(* A version directory versions/<N> becomes visible when its event file    *)
(* events/<event-id>.yaml exists.  A capture publishes a whole item, with  *)
(* version 1 and its event, by one directory rename.  An append renames    *)
(* its version directory first and its event file second; a version        *)
(* directory without event is a tail, which only a retry of the same       *)
(* request may adopt.                                                      *)
(*                                                                         *)
(* Attempts (calls) are numbered.  The number of an attempt stands for the *)
(* fresh UUIDs it draws: its event id and, for a capture, its item id.     *)
(* The staging tree of a call is private to it and left out.               *)
(***************************************************************************)
EXTENDS CaptureRequests

CONSTANTS Procs,        \* processes that call the store
          NoProc,       \* nobody: the write lock is free
          NoReq,        \* the request of an idle process
          MaxAttempts,  \* bound: calls made in a behaviour
          MaxFaults     \* bound: I/O faults in a behaviour

ASSUME StoreAssumption ==
    /\ NoProc \notin Procs
    /\ NoReq \notin Requests
    /\ MaxAttempts \in Nat
    /\ MaxFaults \in Nat

VARIABLES dirs,     \* version directories in their final place
          events,   \* event files in their final place
          proj,     \* proj[i]: version shown by capture.yaml of i, 0 if none
          lock,     \* holder of journal/capture-write.lock
          pc,       \* next step of each process
          req,      \* the request it works on
          att,      \* number of its attempt
          cand,     \* the version it is committing
          ans,      \* the answer it is about to give
          answers,  \* history: answers given to callers
          lost,     \* history: requests whose call was killed
          nextAtt,  \* number of the next attempt
          faults    \* I/O faults still allowed

storeVars == <<dirs, events, proj>>
callVars  == <<pc, req, att, cand, ans>>
histVars  == <<answers, lost, nextAtt>>
vars == <<storeVars, lock, callVars, histVars, faults>>

Attempts == 1..MaxAttempts
States   == {"committed", "not-committed", "unknown"}
Codes    == {"saved", "replayed", "idempotency_conflict", "version_conflict",
             "capture_not_found", "atomic_commit_failed",
             "integrity_check_failed", "capture_store_unavailable",
             "capture_busy"}
Warnings == {"projection_needs_rebuild", "incomplete_version_ignored"}

\* Steps taken before, under and after the write lock.
Locked   == {"scan", "item", "version", "adopt", "event", "readback",
             "project", "unlock"}
Steps    == {"idle", "wait", "cleanup"} \cup Locked

NoCand == [item |-> 0, ver |-> 0, req |-> NoReq, eid |-> 0]
NoAns  == [state |-> "not-committed", code |-> "capture_busy",
           item |-> 0, ver |-> 0, eid |-> 0, warn |-> {}]

Version == [item : Nat, ver : Nat, req : Requests \cup {NoReq}, eid : Nat]
Receipt == [state : States, code : Codes, item : Nat, ver : Nat, eid : Nat,
            warn : SUBSET Warnings]
Answers == [att : Nat, req : Requests, state : States, code : Codes,
            item : Nat, ver : Nat, eid : Nat, warn : SUBSET Warnings]

-----------------------------------------------------------------------------
(* What the disk proves                                                    *)

\* The event file that makes the version directory d visible.
EventOf(d) == [item |-> d.item, ver |-> d.ver, eid |-> d.eid]

Committed == {d \in dirs : EventOf(d) \in events}
Tails     == dirs \ Committed

\* MUTANT: any claim of the identity is a conflict, the caller's own included.
Conflict_AnyClaim(r) == \E d \in dirs : SameIdentity(d.req, r)

\* Some version of the store claims the identity of r for another request.
Conflict(r) == \E d \in dirs : SameIdentity(d.req, r) /\ d.req # r

\* The versions committed for r itself, found through its identity.
Matches(r) == {d \in Committed : SameIdentity(d.req, r) /\ d.req = r}

Miss(r) == ~Conflict(r) /\ Matches(r) = {}

ProjectionIsCurrent(i) ==
    \E d \in Committed : d.item = i /\ Newest(d, Committed) /\ proj[i] = d.ver

-----------------------------------------------------------------------------
(* Evidence after a rename that raised                                     *)

\* A probe tells whether the object is there, or that it could not tell.
Probe(there) == {IF there THEN "present" ELSE "absent", "unprovable"}

\* _classify_commit_exception
ItemVerdict(source, target) ==
    IF "unprovable" \in {source, target} THEN "unknown"
    ELSE IF source = "present"           THEN "not-committed"
    ELSE IF target = "present"           THEN "committed"
    ELSE "unknown"

\* MUTANT: a target that cannot be attested counts as not committed.
EventVerdict_Guess(attempted, source, target, attested) ==
    IF attempted /\ source = "absent" /\ target = "present" /\ attested
    THEN "committed" ELSE "not-committed"

\* _classify_append_event_evidence; attested: the target was read back and
\* matches (it is never found invalid here, nothing corrupts files).
EventVerdict(attempted, source, target, attested) ==
    IF ~attempted
    THEN IF target = "absent" THEN "not-committed" ELSE "unknown"
    ELSE IF source = "present" /\ target = "absent" THEN "not-committed"
    ELSE IF source = "absent" /\ target = "present" /\ attested
         THEN "committed"
    ELSE "unknown"

-----------------------------------------------------------------------------
(* Building blocks of the steps                                            *)

\* MUTANT: state and code swapped.
Refusal_Swapped(state, code) ==
    [state |-> code, code |-> state, item |-> 0, ver |-> 0, eid |-> 0,
     warn |-> {}]

Refusal(state, code) ==
    [state |-> state, code |-> code, item |-> 0, ver |-> 0, eid |-> 0,
     warn |-> {}]

Success(d, code, warn) ==
    [state |-> "committed", code |-> code, item |-> d.item, ver |-> d.ver,
     eid |-> d.eid, warn |-> warn]

Goto(p, step) ==
    /\ pc' = [pc EXCEPT ![p] = step]
    /\ UNCHANGED <<req, att, cand, ans>>

\* Settle the answer under the lock; the lock is released next.
Finish(p, a) ==
    /\ pc' = [pc EXCEPT ![p] = "unlock"]
    /\ ans' = [ans EXCEPT ![p] = a]
    /\ UNCHANGED <<req, att, cand>>

Aim(p, d, step) ==
    /\ pc' = [pc EXCEPT ![p] = step]
    /\ cand' = [cand EXCEPT ![p] = d]
    /\ UNCHANGED <<req, att, ans>>

Idle(p) ==
    /\ pc' = [pc EXCEPT ![p] = "idle"]
    /\ req' = [req EXCEPT ![p] = NoReq]
    /\ att' = [att EXCEPT ![p] = 0]
    /\ cand' = [cand EXCEPT ![p] = NoCand]
    /\ ans' = [ans EXCEPT ![p] = NoAns]

\* A step at which nothing fails, and one at which the file system does.
NoFault == UNCHANGED faults
Fault   == faults > 0 /\ faults' = faults - 1

-----------------------------------------------------------------------------
(* Before the lock: environment, staging, payload                          *)

Start(p, r) ==
    /\ pc[p] = "idle"
    /\ nextAtt <= MaxAttempts
    /\ pc' = [pc EXCEPT ![p] = "wait"]
    /\ req' = [req EXCEPT ![p] = r]
    /\ att' = [att EXCEPT ![p] = nextAtt]
    /\ nextAtt' = nextAtt + 1
    /\ NoFault
    /\ UNCHANGED <<storeVars, lock, cand, ans, answers, lost>>

\* No lock was taken, so the call goes straight to its answer: the config or
\* the store cannot be read, the payload cannot be staged, the lock file
\* cannot be opened.
RefusedBeforeLock(p) ==
    /\ pc[p] = "wait"
    /\ Fault
    /\ pc' = [pc EXCEPT ![p] = "cleanup"]
    /\ ans' = [ans EXCEPT ![p] =
                  Refusal("not-committed", "capture_store_unavailable")]
    /\ UNCHANGED <<storeVars, lock, req, att, cand, histVars>>

\* Ten seconds of polling found the lock held by another process.
LockTimeout(p) ==
    /\ pc[p] = "wait"
    /\ lock # NoProc
    /\ pc' = [pc EXCEPT ![p] = "cleanup"]
    /\ ans' = [ans EXCEPT ![p] = Refusal("not-committed", "capture_busy")]
    /\ NoFault
    /\ UNCHANGED <<storeVars, lock, req, att, cand, histVars>>

\* MUTANT: the lock does not exclude.
Acquire_NoMutex(p) ==
    /\ pc[p] = "wait"
    /\ lock' = p
    /\ Goto(p, "scan")
    /\ NoFault
    /\ UNCHANGED <<storeVars, histVars>>

Acquire(p) ==
    /\ pc[p] = "wait"
    /\ lock = NoProc
    /\ lock' = p
    /\ Goto(p, "scan")
    /\ NoFault
    /\ UNCHANGED <<storeVars, histVars>>

-----------------------------------------------------------------------------
(* Under the lock: binding check, recovery listing, idempotency scan       *)

\* The config was rebound while the call waited, or the staging area cannot
\* be listed.
LockedPreflightFails(p) ==
    /\ pc[p] = "scan"
    /\ Fault
    /\ Finish(p, Refusal("not-committed", "capture_store_unavailable"))
    /\ UNCHANGED <<storeVars, lock, histVars>>

\* The scan meets an unreadable or inconsistent file.  A keyed capture then
\* cannot know whether it is already saved; an append says not-committed.  A
\* capture without key does not scan.
ScanFails(p) ==
    /\ pc[p] = "scan"
    /\ req[p].key # NoKey
    /\ Fault
    /\ \E code \in {"integrity_check_failed", "capture_store_unavailable"} :
          Finish(p, Refusal(IF IsCapture(req[p]) THEN "unknown"
                            ELSE "not-committed", code))
    /\ UNCHANGED <<storeVars, lock, histVars>>

ScanConflict(p) ==
    /\ pc[p] = "scan"
    /\ Conflict(req[p])
    /\ Finish(p, Refusal("not-committed", "idempotency_conflict"))
    /\ NoFault
    /\ UNCHANGED <<storeVars, lock, histVars>>

\* capture_text compares capture.yaml with version 1, the version it found.
ReplayCapture(p) ==
    /\ pc[p] = "scan"
    /\ IsCapture(req[p])
    /\ ~Conflict(req[p])
    /\ \E d \in Matches(req[p]) :
          Finish(p, Success(d, "replayed",
              IF proj[d.item] = d.ver THEN {}
              ELSE {"projection_needs_rebuild"}))
    /\ NoFault
    /\ UNCHANGED <<storeVars, lock, histVars>>

\* append_capture_version regenerates the warnings from the whole chain.
ReplayAppend(p) ==
    /\ pc[p] = "scan"
    /\ IsAppend(req[p])
    /\ ~Conflict(req[p])
    /\ \E d \in Matches(req[p]) :
          Finish(p, Success(d, "replayed",
              {w \in Warnings :
                  \/ /\ w = "projection_needs_rebuild"
                     /\ ~ProjectionIsCurrent(d.item)
                  \/ /\ w = "incomplete_version_ignored"
                     /\ \E t \in Tails : t.item = d.item}))
    /\ NoFault
    /\ UNCHANGED <<storeVars, lock, histVars>>

\* The version found can no longer be read back.
ReplayAppendFails(p) ==
    /\ pc[p] = "scan"
    /\ IsAppend(req[p])
    /\ ~Conflict(req[p])
    /\ Matches(req[p]) # {}
    /\ Fault
    /\ \E code \in {"integrity_check_failed", "atomic_commit_failed"} :
          Finish(p, Refusal("unknown", code))
    /\ UNCHANGED <<storeVars, lock, histVars>>

PlanCapture(p) ==
    /\ pc[p] = "scan"
    /\ IsCapture(req[p])
    /\ Miss(req[p])
    /\ Aim(p, [item |-> att[p], ver |-> 1, req |-> req[p], eid |-> att[p]],
           "item")
    /\ NoFault
    /\ UNCHANGED <<storeVars, lock, histVars>>

AppendNotFound(p) ==
    /\ pc[p] = "scan"
    /\ IsAppend(req[p])
    /\ Miss(req[p])
    /\ \A d \in Committed : d.item # req[p].item
    /\ Finish(p, Refusal("not-committed", "capture_not_found"))
    /\ NoFault
    /\ UNCHANGED <<storeVars, lock, histVars>>

VersionConflict(p) ==
    /\ pc[p] = "scan"
    /\ IsAppend(req[p])
    /\ Miss(req[p])
    /\ \E d \in Committed : /\ Newest(d, Committed)
                            /\ d.item = req[p].item
                            /\ d.ver # req[p].expected
    /\ Finish(p, Refusal("not-committed", "version_conflict"))
    /\ NoFault
    /\ UNCHANGED <<storeVars, lock, histVars>>

\* MUTANT: no compare-and-swap, any version of the item will do.
MayAppend_AnyBase(p) ==
    /\ pc[p] = "scan"
    /\ IsAppend(req[p])
    /\ Miss(req[p])
    /\ \E d \in Committed : d.item = req[p].item /\ d.ver = req[p].expected

\* The newest version is the expected one; what follows depends on the tail.
MayAppend(p) ==
    /\ pc[p] = "scan"
    /\ IsAppend(req[p])
    /\ Miss(req[p])
    /\ \E d \in Committed : /\ Newest(d, Committed)
                            /\ d.item = req[p].item
                            /\ d.ver = req[p].expected

ForeignTail(p) ==
    /\ MayAppend(p)
    /\ \E t \in Tails : t.item = req[p].item /\ t.req # req[p]
    /\ Finish(p, Refusal("not-committed", "atomic_commit_failed"))
    /\ NoFault
    /\ UNCHANGED <<storeVars, lock, histVars>>

\* MUTANT: the adopted tail gets a fresh event id.
AdoptTail_FreshEvent(p) ==
    /\ MayAppend(p)
    /\ \E t \in Tails : /\ t.item = req[p].item
                        /\ t.req = req[p]
                        /\ Aim(p, [t EXCEPT !.eid = att[p]], "adopt")
    /\ NoFault
    /\ UNCHANGED <<storeVars, lock, histVars>>

\* The tail is this request's own: keep its event id and its envelope.
AdoptTail(p) ==
    /\ MayAppend(p)
    /\ \E t \in Tails : /\ t.item = req[p].item
                        /\ t.req = req[p]
                        /\ Aim(p, t, "adopt")
    /\ NoFault
    /\ UNCHANGED <<storeVars, lock, histVars>>

\* MUTANT: the tail in the way is not looked for.
PlanAppend_IgnoresTail(p) ==
    /\ MayAppend(p)
    /\ Aim(p, [item |-> req[p].item, ver |-> req[p].expected + 1,
               req |-> req[p], eid |-> att[p]], "version")
    /\ NoFault
    /\ UNCHANGED <<storeVars, lock, histVars>>

PlanAppend(p) ==
    /\ MayAppend(p)
    /\ \A t \in Tails : t.item # req[p].item
    /\ Aim(p, [item |-> req[p].item, ver |-> req[p].expected + 1,
               req |-> req[p], eid |-> att[p]], "version")
    /\ NoFault
    /\ UNCHANGED <<storeVars, lock, histVars>>

-----------------------------------------------------------------------------
(* Commit of a capture: one rename of the whole item                       *)

\* Metadata cannot be written or read back, or the target path is refused.
CandidateFails(p) ==
    /\ pc[p] \in {"item", "version", "adopt"}
    /\ Fault
    /\ \E code \in {"integrity_check_failed", "capture_store_unavailable",
                    "atomic_commit_failed"} :
          Finish(p, Refusal("not-committed", code))
    /\ UNCHANGED <<storeVars, lock, histVars>>

\* The target path cannot be probed before the rename.
ItemTargetUnprovable(p) ==
    /\ pc[p] = "item"
    /\ Fault
    /\ Finish(p, Refusal("unknown", "atomic_commit_failed"))
    /\ UNCHANGED <<storeVars, lock, histVars>>

PlaceItem(p) ==
    /\ dirs' = dirs \cup {cand[p]}
    /\ events' = events \cup {EventOf(cand[p])}
    /\ UNCHANGED proj

CommitItem(p) ==
    /\ pc[p] = "item"
    /\ PlaceItem(p)
    /\ Goto(p, "readback")
    /\ NoFault
    /\ UNCHANGED <<lock, histVars>>

\* The rename raised: it may have moved the item all the same.
ItemRenameRaises(p) ==
    /\ pc[p] = "item"
    /\ Fault
    /\ \E moved \in BOOLEAN :
          /\ IF moved THEN PlaceItem(p) ELSE UNCHANGED storeVars
          /\ \E source \in Probe(~moved), target \in Probe(moved) :
                LET verdict == ItemVerdict(source, target) IN
                IF verdict = "committed" THEN Goto(p, "readback")
                ELSE Finish(p, Refusal(verdict, "atomic_commit_failed"))
    /\ UNCHANGED <<lock, histVars>>

-----------------------------------------------------------------------------
(* Commit of an append: the version directory, then the event file         *)

PlaceVersion(p) ==
    /\ dirs' = dirs \cup {cand[p]}
    /\ UNCHANGED <<events, proj>>

RenameVersion(p) ==
    /\ pc[p] = "version"
    /\ PlaceVersion(p)
    /\ Goto(p, "event")
    /\ NoFault
    /\ UNCHANGED <<lock, histVars>>

\* The event was not attempted: the answer depends on its target alone, and
\* a version directory that was moved stays behind as a tail.  When even the
\* staged event cannot be found the answer is "unknown".
VersionRenameRaises(p) ==
    /\ pc[p] = "version"
    /\ Fault
    /\ PlaceVersion(p) \/ UNCHANGED storeVars
    /\ \E target \in Probe(FALSE) :
          Finish(p, Refusal(EventVerdict(FALSE, "present", target, FALSE),
                            "atomic_commit_failed"))
    /\ UNCHANGED <<lock, histVars>>

\* The tail is attested and its event written again from its envelope.
StageAdoptedEvent(p) ==
    /\ pc[p] = "adopt"
    /\ Goto(p, "event")
    /\ NoFault
    /\ UNCHANGED <<storeVars, lock, histVars>>

\* Read back of the version or of the staged event fails (not-committed), or
\* the event's target cannot be probed (unknown).
EventPreflightFails(p) ==
    /\ pc[p] = "event"
    /\ Fault
    /\ \E state \in {"not-committed", "unknown"} :
          Finish(p, Refusal(state, "atomic_commit_failed"))
    /\ UNCHANGED <<storeVars, lock, histVars>>

PlaceEvent(p) ==
    /\ events' = events \cup {EventOf(cand[p])}
    /\ UNCHANGED <<dirs, proj>>

RenameEvent(p) ==
    /\ pc[p] = "event"
    /\ PlaceEvent(p)
    /\ Goto(p, "readback")
    /\ NoFault
    /\ UNCHANGED <<lock, histVars>>

EventRenameRaises(p) ==
    /\ pc[p] = "event"
    /\ Fault
    /\ \E moved \in BOOLEAN :
          /\ IF moved THEN PlaceEvent(p) ELSE UNCHANGED storeVars
          /\ \E source \in Probe(~moved), target \in Probe(moved),
                attested \in BOOLEAN :
                LET verdict == EventVerdict(TRUE, source, target, attested) IN
                IF verdict = "committed" THEN Goto(p, "readback")
                ELSE Finish(p, Refusal(verdict, "atomic_commit_failed"))
    /\ UNCHANGED <<lock, histVars>>

-----------------------------------------------------------------------------
(* After the commit: read back, projection, receipt                        *)

\* MUTANT: the lock is released before the projection is written.
Readback_Unlocks(p) ==
    /\ pc[p] = "readback"
    /\ lock' = NoProc
    /\ Goto(p, "project")
    /\ NoFault
    /\ UNCHANGED <<storeVars, histVars>>

Readback(p) ==
    /\ pc[p] = "readback"
    /\ Goto(p, "project")
    /\ NoFault
    /\ UNCHANGED <<storeVars, lock, histVars>>

\* MUTANT: a failed read back is reported as a failed commit.
ReadbackFails_NotCommitted(p) ==
    /\ pc[p] = "readback"
    /\ Fault
    /\ Finish(p, Refusal("not-committed", "atomic_commit_failed"))
    /\ UNCHANGED <<storeVars, lock, histVars>>

ReadbackFails(p) ==
    /\ pc[p] = "readback"
    /\ Fault
    /\ \E code \in {"integrity_check_failed", "atomic_commit_failed"} :
          Finish(p, Refusal("unknown", code))
    /\ UNCHANGED <<storeVars, lock, histVars>>

\* capture.yaml is replaced by one that shows the new version.
Project(p) ==
    /\ pc[p] = "project"
    /\ proj' = [proj EXCEPT ![cand[p].item] = cand[p].ver]
    /\ Finish(p, Success(cand[p], "saved", {}))
    /\ NoFault
    /\ UNCHANGED <<dirs, events, lock, histVars>>

\* A fault of the projection never turns the saved version into a failure.
ProjectFails(p) ==
    /\ pc[p] = "project"
    /\ Fault
    /\ \E replaced \in BOOLEAN :
          proj' = IF replaced
                  THEN [proj EXCEPT ![cand[p].item] = cand[p].ver]
                  ELSE proj
    /\ Finish(p, Success(cand[p], "saved", {"projection_needs_rebuild"}))
    /\ UNCHANGED <<dirs, events, lock, histVars>>

-----------------------------------------------------------------------------
(* After the answer is settled                                             *)

Release(p) ==
    /\ pc[p] = "unlock"
    /\ lock' = NoProc
    /\ Goto(p, "cleanup")
    /\ NoFault
    /\ UNCHANGED <<storeVars, histVars>>

Reply(p) ==
    /\ pc[p] = "cleanup"
    /\ answers' = answers \cup
          {[att |-> att[p], req |-> req[p], state |-> ans[p].state,
            code |-> ans[p].code, item |-> ans[p].item, ver |-> ans[p].ver,
            eid |-> ans[p].eid, warn |-> ans[p].warn]}
    /\ Idle(p)
    /\ NoFault
    /\ UNCHANGED <<storeVars, lock, lost, nextAtt>>

\* The process is killed; the kernel releases its byte lock.
Crash(p) ==
    /\ pc[p] # "idle"
    /\ lock' = IF lock = p THEN NoProc ELSE lock
    /\ lost' = lost \cup {req[p]}
    /\ Idle(p)
    /\ NoFault
    /\ UNCHANGED <<storeVars, answers, nextAtt>>

\* Nobody calls any more: the bound on the number of calls is reached.
Quiescent ==
    /\ nextAtt > MaxAttempts
    /\ \A p \in Procs : pc[p] = "idle"
    /\ UNCHANGED vars

-----------------------------------------------------------------------------
Init ==
    /\ dirs = {}
    /\ events = {}
    /\ proj = [i \in Attempts |-> 0]
    /\ lock = NoProc
    /\ pc = [p \in Procs |-> "idle"]
    /\ req = [p \in Procs |-> NoReq]
    /\ att = [p \in Procs |-> 0]
    /\ cand = [p \in Procs |-> NoCand]
    /\ ans = [p \in Procs |-> NoAns]
    /\ answers = {}
    /\ lost = {}
    /\ nextAtt = 1
    /\ faults = MaxFaults

Scan(p) ==
    \/ LockedPreflightFails(p) \/ ScanFails(p) \/ ScanConflict(p)
    \/ ReplayCapture(p) \/ ReplayAppend(p) \/ ReplayAppendFails(p)
    \/ PlanCapture(p) \/ AppendNotFound(p) \/ VersionConflict(p)
    \/ ForeignTail(p) \/ AdoptTail(p) \/ PlanAppend(p)

CommitStep(p) ==
    \/ CandidateFails(p) \/ ItemTargetUnprovable(p)
    \/ CommitItem(p) \/ ItemRenameRaises(p)
    \/ RenameVersion(p) \/ VersionRenameRaises(p) \/ StageAdoptedEvent(p)
    \/ EventPreflightFails(p) \/ RenameEvent(p) \/ EventRenameRaises(p)
    \/ Readback(p) \/ ReadbackFails(p) \/ Project(p) \/ ProjectFails(p)

\* A step of a call that is under way, kills apart.
Step(p) ==
    \/ RefusedBeforeLock(p) \/ LockTimeout(p) \/ Acquire(p)
    \/ Scan(p) \/ CommitStep(p) \/ Release(p) \/ Reply(p)

Next ==
    \/ \E p \in Procs : \/ \E r \in Requests : Start(p, r)
                        \/ Step(p)
                        \/ Crash(p)
    \/ Quiescent

Spec == Init /\ [][Next]_vars

-----------------------------------------------------------------------------
(* Properties                                                              *)

\* Every variable has its type (one per module).
TypeOK ==
    /\ dirs \subseteq Version
    /\ events \subseteq [item : Nat, ver : Nat, eid : Nat]
    /\ proj \in [Attempts -> Nat]
    /\ lock \in Procs \cup {NoProc}
    /\ pc \in [Procs -> Steps]
    /\ req \in [Procs -> Requests \cup {NoReq}]
    /\ att \in [Procs -> Nat]
    /\ cand \in [Procs -> Version]
    /\ ans \in [Procs -> Receipt]
    /\ answers \subseteq Answers
    /\ lost \subseteq Requests
    /\ nextAtt \in Nat
    /\ faults \in Nat

\* What the reader requires of an item on disk (_build_capture_version_chain):
\* no version directory twice, every event has its directory, every version
\* above 1 stands on a committed one, so that a tail can only follow the
\* newest committed version.  No crash or fault may leave anything else.
ReadableChains ==
    /\ \A d, e \in dirs : (d.item = e.item /\ d.ver = e.ver) => d = e
    /\ \A v \in events : \E d \in dirs : EventOf(d) = v
    /\ \A d \in dirs : d.ver > 1 =>
          \E e \in Committed : e.item = d.item /\ e.ver + 1 = d.ver
    /\ \A d \in dirs : d.ver = 1 => d \in Committed

\* One idempotency identity is claimed by at most one version directory, tails
\* included: a retry never makes a second version, whatever was killed.
KeyOnce ==
    \A d, e \in dirs : SameIdentity(d.req, e.req) => d = e

\* A receipt names a version committed for its request, and all receipts of
\* one identity are the same receipt, replays after crashes included.
ReceiptsHonoured ==
    \A a \in answers : a.state = "committed" =>
        /\ \E d \in Committed : /\ d.req = a.req
                                /\ d.item = a.item /\ d.ver = a.ver
                                /\ d.eid = a.eid
        /\ \A b \in answers :
              (b.state = "committed" /\ SameIdentity(a.req, b.req)) =>
                  /\ a.item = b.item /\ a.ver = b.ver
                  /\ a.eid = b.eid /\ a.req = b.req

\* A request refused for idempotency_conflict is in no version directory, then
\* or later: nobody is told of a conflict with his own earlier attempt.
ConflictsAreForeign ==
    \A a \in answers : a.code = "idempotency_conflict" =>
        \A d \in dirs : d.req # a.req

\* A committed version is owned up to: some call of its request is still
\* running, was killed, or was answered "committed" or "unknown".  If every
\* call of a request was answered "not-committed", no version of it exists,
\* although a later call may have adopted what an earlier one left behind.
CommitsAreOwnedUp ==
    \A d \in Committed :
        \/ d.req \in lost
        \/ \E p \in Procs : pc[p] # "idle" /\ req[p] = d.req
        \/ \E a \in answers : a.req = d.req /\ a.state # "not-committed"

\* Once the scan is over, "not-committed" is a proof: when such an answer is
\* settled, the request has no committed version.  (A failed scan or
\* preflight proves nothing: there "not-committed" is about this call only.)
RefusalAfterScan ==
    \A p \in Procs :
        ( /\ pc[p] = "unlock"
          /\ ans[p].state = "not-committed"
          /\ ans[p].code \in {"idempotency_conflict", "version_conflict",
                              "capture_not_found", "atomic_commit_failed"} )
        => \A d \in Committed :
              d.req = req[p] => req[p].key = NoKey /\ d.eid # att[p]

\* capture.yaml never shows a version that is not committed.
ProjectionIsCommitted ==
    \A i \in Attempts : proj[i] > 0 =>
        \E d \in Committed : d.item = i /\ d.ver = proj[i]

\* No call, however delayed, makes capture.yaml show an older version again.
ProjectionNeverRegresses ==
    [][\A i \in Attempts : proj'[i] >= proj[i]]_vars

\* The store implements the version log.
Log == INSTANCE VersionLog WITH committed <- Committed
LogSpec == Log!LogSpec
=============================================================================
