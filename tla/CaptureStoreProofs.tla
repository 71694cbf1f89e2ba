------------------------- MODULE CaptureStoreProofs -------------------------
(***************************************************************************)
(* Theorems about CaptureStore, for every set of processes, every set of   *)
(* requests and every bound on calls and faults, and about CaptureReader,  *)
(* the readers beside these writers, for any number of them.               *)
(***************************************************************************)
EXTENDS CaptureReader, TLAPS

-----------------------------------------------------------------------------
(* Types                                                                   *)

\* A refusal and a success are receipts, and what a scan aims at is a version.
LEMMA RefusalType ==
    ASSUME NEW state \in States, NEW code \in Codes
    PROVE  /\ Refusal(state, code) \in Receipt
           /\ Refusal(state, code).state = state
           /\ Refusal(state, code).code = code
  BY DEF Refusal, Receipt, States, Codes, Warnings

\* A receipt built from a version has the type of a receipt.
LEMMA SuccessType ==
    ASSUME NEW d \in Version, NEW code \in Codes, NEW warn \in SUBSET Warnings
    PROVE  /\ Success(d, code, warn) \in Receipt
           /\ Success(d, code, warn).state = "committed"
           /\ Success(d, code, warn).code = code
           /\ Success(d, code, warn).item = d.item
           /\ Success(d, code, warn).ver = d.ver
           /\ Success(d, code, warn).eid = d.eid
           /\ Success(d, code, warn).warn = warn
  BY DEF Success, Receipt, Version, States, Codes

\* The verdicts on a rename that raised are commit states.
LEMMA VerdictType ==
    /\ \A s, t : ItemVerdict(s, t) \in States
    /\ \A b, s, t, a : EventVerdict(b, s, t, a) \in States
  BY DEF ItemVerdict, EventVerdict, States

\* The types hold at the start.
LEMMA TypeInit == Init => TypeOK
  BY StoreAssumption
  DEF Init, TypeOK, Version, Receipt, Answers, NoCand, NoAns, Attempts, Steps,
      Locked, States, Codes, Warnings

\* The part of the type invariant about the variables of the calls.
CallTypes ==
    /\ pc \in [Procs -> Steps]
    /\ req \in [Procs -> Requests \cup {NoReq}]
    /\ att \in [Procs -> Nat]
    /\ cand \in [Procs -> Version]
    /\ ans \in [Procs -> Receipt]

\* The ways a call takes a step keep its types.
LEMMA GotoType ==
    ASSUME CallTypes, NEW p \in Procs, NEW step \in Steps, Goto(p, step)
    PROVE  CallTypes'
  BY DEF CallTypes, Goto

\* A call that has its answer.
LEMMA FinishType ==
    ASSUME CallTypes, NEW p \in Procs, NEW a \in Receipt, Finish(p, a)
    PROVE  CallTypes'
  BY DEF CallTypes, Finish, Steps, Locked

\* A call that aims at a candidate.
LEMMA AimType ==
    ASSUME CallTypes, NEW p \in Procs, NEW d \in Version, NEW step \in Steps,
           Aim(p, d, step)
    PROVE  CallTypes'
  BY DEF CallTypes, Aim

\* A call that is over.
LEMMA IdleType ==
    ASSUME CallTypes, NEW p \in Procs, Idle(p)
    PROVE  CallTypes'
  BY DEF CallTypes, Idle, Steps, Version, NoCand, NoAns, Receipt, States,
         Codes, Warnings

\* What is left of the type invariant.
StoreTypes ==
    /\ dirs \subseteq Version
    /\ events \subseteq [item : Nat, ver : Nat, eid : Nat]
    /\ proj \in [Attempts -> Nat]

HistoryTypes ==
    /\ lock \in Procs \cup {NoProc}
    /\ answers \subseteq Answers
    /\ lost \subseteq Requests
    /\ nextAtt \in Nat
    /\ faults \in Nat

\* A process between calls has no request, any other has one.
BusyHasRequest == \A p \in Procs : pc[p] # "idle" => req[p] \in Requests

\* The three parts make the type invariant.
LEMMA TypeParts == TypeOK <=> StoreTypes /\ CallTypes /\ HistoryTypes
  BY DEF TypeOK, StoreTypes, CallTypes, HistoryTypes

\* Faults are counted down to zero.
LEMMA FaultType ==
    ASSUME faults \in Nat, Fault \/ NoFault
    PROVE  faults' \in Nat
  BY DEF Fault, NoFault

\* Placing a directory, an item or an event keeps the types.
LEMMA PlaceType ==
    ASSUME StoreTypes, CallTypes, NEW p \in Procs,
           \/ PlaceItem(p) \/ PlaceVersion(p) \/ PlaceEvent(p)
           \/ UNCHANGED storeVars
    PROVE  StoreTypes'
  <1>1. cand[p] \in Version
    BY DEF CallTypes
  <1>2. EventOf(cand[p]) \in [item : Nat, ver : Nat, eid : Nat]
    BY <1>1 DEF EventOf, Version
  <1> QED
    BY <1>1, <1>2 DEF StoreTypes, PlaceItem, PlaceVersion, PlaceEvent, storeVars

\* The request shape: what an append expects and names are numbers.
LEMMA RequestNumbers ==
    ASSUME NEW r \in Requests
    PROVE  /\ r.item \in Nat
           /\ r.expected \in Nat
           /\ IsAppend(r) => r.item # 0 /\ r.expected # 0 /\ r.key # NoKey
           /\ IsCapture(r) \/ IsAppend(r)
           /\ ~(IsCapture(r) /\ IsAppend(r))
  BY RequestsAssumption
  DEF CaptureRequest, AppendRequest, IsAppend, IsCapture

\* A scan keeps the types, whichever way it ends.
LEMMA ScanType ==
    ASSUME TypeOK, BusyHasRequest, NEW p \in Procs, Scan(p)
    PROVE  TypeOK'
  <1> USE TypeParts
  <1>1. req[p] \in Requests
    BY DEF BusyHasRequest, Scan, LockedPreflightFails, ScanFails,
       ScanConflict, ReplayCapture, ReplayAppend, ReplayAppendFails,
       PlanCapture, AppendNotFound, VersionConflict, ForeignTail, AdoptTail,
       PlanAppend, MayAppend
  <1>2. UNCHANGED <<storeVars, lock, histVars>> /\ (Fault \/ NoFault)
    BY DEF Scan, LockedPreflightFails, ScanFails,
       ScanConflict, ReplayCapture, ReplayAppend, ReplayAppendFails,
       PlanCapture, AppendNotFound, VersionConflict, ForeignTail, AdoptTail,
       PlanAppend
  <1>3. StoreTypes' /\ HistoryTypes'
    BY <1>2, FaultType
    DEF StoreTypes, HistoryTypes, storeVars, histVars
  <1>4. CallTypes'
    <2>1. CASE \E state \in States, code \in Codes :
                   Finish(p, Refusal(state, code))
      BY <2>1, RefusalType, FinishType
    <2>2. CASE \E d \in dirs, w \in SUBSET Warnings :
                   Finish(p, Success(d, "replayed", w))
      <3>1. PICK d \in dirs, w \in SUBSET Warnings :
                   Finish(p, Success(d, "replayed", w))
        BY <2>2
      <3>2. d \in Version /\ "replayed" \in Codes
        BY DEF StoreTypes, Codes
      <3> QED
        BY <3>1, <3>2, SuccessType, FinishType
    <2>3. CASE \E d \in Version, step \in Steps : Aim(p, d, step)
      BY <2>3, AimType
    <2>4. \A d \in Matches(req[p]) : d \in dirs
      BY DEF Matches, Committed
    <2>5. \A t \in Tails : t \in Version
      BY DEF Tails, Committed, StoreTypes
    <2>6. /\ [item |-> att[p], ver |-> 1, req |-> req[p], eid |-> att[p]]
                \in Version
          /\ [item |-> req[p].item, ver |-> req[p].expected + 1,
              req |-> req[p], eid |-> att[p]] \in Version
      BY <1>1, RequestNumbers DEF CallTypes, Version
    <2>7. /\ {"scan", "item", "version", "adopt"} \subseteq Steps
          /\ {"committed", "not-committed", "unknown"} \subseteq States
          /\ {"idempotency_conflict", "version_conflict",
             "capture_not_found", "atomic_commit_failed",
             "integrity_check_failed", "capture_store_unavailable"}
             \subseteq Codes
      BY DEF Steps, Locked, States, Codes
    <2>8. CASE LockedPreflightFails(p) \/ ScanFails(p) \/ ScanConflict(p)
      BY <2>1, <2>7, <2>8 DEF LockedPreflightFails, ScanFails, ScanConflict
    <2>9. CASE ReplayCapture(p)
      BY <2>2, <2>4, <2>9 DEF ReplayCapture, Warnings
    <2>10. CASE ReplayAppend(p)
      BY <2>2, <2>4, <2>10 DEF ReplayAppend
    <2>11. CASE \/ ReplayAppendFails(p) \/ AppendNotFound(p)
                \/ VersionConflict(p) \/ ForeignTail(p)
      BY <2>1, <2>7, <2>11
      DEF ReplayAppendFails, AppendNotFound, VersionConflict, ForeignTail
    <2>12. CASE PlanCapture(p) \/ AdoptTail(p) \/ PlanAppend(p)
      BY <2>3, <2>5, <2>6, <2>7, <2>12
      DEF PlanCapture, AdoptTail, PlanAppend
    <2> QED
      BY <2>8, <2>9, <2>10, <2>11, <2>12 DEF Scan
  <1> QED
    BY <1>3, <1>4 DEF TypeOK, StoreTypes, CallTypes, HistoryTypes

\* So do the steps from the renames to the projection.
LEMMA CommitStepType ==
    ASSUME TypeOK, NEW p \in Procs, CommitStep(p)
    PROVE  TypeOK'
  <1>1. StoreTypes /\ CallTypes /\ HistoryTypes
    BY TypeParts
  <1>2. UNCHANGED <<lock, histVars>> /\ (Fault \/ NoFault)
    BY DEF CommitStep, CandidateFails, ItemTargetUnprovable, CommitItem,
       ItemRenameRaises, RenameVersion, VersionRenameRaises,
       StageAdoptedEvent, EventPreflightFails, RenameEvent,
       EventRenameRaises, Readback, ReadbackFails, Project, ProjectFails
  <1>3. HistoryTypes'
    BY <1>1, <1>2, FaultType DEF HistoryTypes, histVars
  <1>4. StoreTypes'
    <2>1. CASE \/ PlaceItem(p) \/ PlaceVersion(p) \/ PlaceEvent(p)
               \/ UNCHANGED storeVars
      BY <1>1, <2>1, PlaceType
    <2>2. CASE Project(p) \/ ProjectFails(p)
      BY <1>1, <2>2
      DEF Project, ProjectFails, StoreTypes, CallTypes, Version
    <2> QED
      BY <2>1, <2>2 DEF CommitStep, CandidateFails, ItemTargetUnprovable,
         CommitItem, ItemRenameRaises, RenameVersion, VersionRenameRaises,
         StageAdoptedEvent, EventPreflightFails, RenameEvent,
         EventRenameRaises, Readback, ReadbackFails
  <1>5. CallTypes'
    <2>1. CASE \E state \in States, code \in Codes :
                   Finish(p, Refusal(state, code))
      BY <1>1, <2>1, RefusalType, FinishType
    <2>2. CASE \E step \in Steps : Goto(p, step)
      BY <1>1, <2>2, GotoType
    <2>3. CASE Project(p) \/ ProjectFails(p)
      <3>1. /\ cand[p] \in Version
            /\ "saved" \in Codes
            /\ {} \in SUBSET Warnings
            /\ {"projection_needs_rebuild"} \in SUBSET Warnings
        BY <1>1 DEF CallTypes, Codes, Warnings
      <3>2. PICK w \in SUBSET Warnings :
                Finish(p, Success(cand[p], "saved", w))
        BY <2>3, <3>1 DEF Project, ProjectFails
      <3> QED
        BY <1>1, <3>1, <3>2, SuccessType, FinishType
    <2>4. /\ {"event", "readback", "project"} \subseteq Steps
          /\ {"committed", "not-committed", "unknown"} \subseteq States
          /\ {"atomic_commit_failed", "integrity_check_failed",
              "capture_store_unavailable"} \subseteq Codes
      BY DEF Steps, Locked, States, Codes
    <2>5. CASE \/ CandidateFails(p) \/ ItemTargetUnprovable(p)
               \/ EventPreflightFails(p) \/ ReadbackFails(p)
      BY <2>1, <2>4, <2>5
      DEF CandidateFails, ItemTargetUnprovable, EventPreflightFails,
          ReadbackFails
    <2>6. CASE \/ CommitItem(p) \/ RenameVersion(p) \/ StageAdoptedEvent(p)
               \/ RenameEvent(p) \/ Readback(p)
      BY <2>2, <2>4, <2>6
      DEF CommitItem, RenameVersion, StageAdoptedEvent, RenameEvent, Readback
    <2>7. CASE ItemRenameRaises(p)
      BY <2>1, <2>2, <2>4, <2>7, VerdictType DEF ItemRenameRaises
    <2>8. CASE VersionRenameRaises(p)
      BY <2>1, <2>4, <2>8, VerdictType DEF VersionRenameRaises
    <2>9. CASE EventRenameRaises(p)
      BY <2>1, <2>2, <2>4, <2>9, VerdictType DEF EventRenameRaises
    <2> QED
      BY <2>3, <2>5, <2>6, <2>7, <2>8, <2>9 DEF CommitStep
  <1> QED
    BY <1>3, <1>4, <1>5 DEF TypeOK, StoreTypes, CallTypes, HistoryTypes

\* A process that is not idle works on a request; kept by every step.
LEMMA BusyNext ==
    ASSUME TypeOK, BusyHasRequest, [Next]_vars
    PROVE  BusyHasRequest'
  <1>1. CASE UNCHANGED vars
    BY <1>1 DEF BusyHasRequest, vars, callVars
  <1>2. ASSUME NEW p \in Procs, NEW r \in Requests, Start(p, r)
        PROVE  BusyHasRequest'
    BY <1>2 DEF BusyHasRequest, Start, TypeOK
  <1>3. ASSUME NEW p \in Procs, Idle(p)
        PROVE  BusyHasRequest'
    BY <1>3 DEF BusyHasRequest, Idle, TypeOK
  <1>4. ASSUME NEW p \in Procs, pc[p] # "idle", UNCHANGED req,
               \A q \in Procs \ {p} : pc'[q] = pc[q]
        PROVE  BusyHasRequest'
    BY <1>4 DEF BusyHasRequest
  <1>5. ASSUME NEW p \in Procs, Step(p)
        PROVE  BusyHasRequest'
    <2>1. CASE Reply(p)
      BY <1>3, <2>1 DEF Reply
    <2>2. CASE RefusedBeforeLock(p) \/ LockTimeout(p) \/ Acquire(p)
               \/ Release(p)
      BY <1>4, <2>2
      DEF RefusedBeforeLock, LockTimeout, Acquire, Release, Goto, TypeOK
    <2>3. CASE Scan(p)
      BY <1>4, <2>3
      DEF Scan, LockedPreflightFails, ScanFails, ScanConflict, ReplayCapture,
          ReplayAppend, ReplayAppendFails, PlanCapture, AppendNotFound,
          VersionConflict, ForeignTail, AdoptTail, PlanAppend, MayAppend,
          Finish, Aim, TypeOK
    <2>4. CASE CommitStep(p)
      <3>1. pc[p] # "idle"
        BY <2>4 DEF CommitStep, CandidateFails, ItemTargetUnprovable,
           CommitItem, ItemRenameRaises, RenameVersion, VersionRenameRaises,
           StageAdoptedEvent, EventPreflightFails, RenameEvent,
           EventRenameRaises, Readback, ReadbackFails, Project, ProjectFails
      <3>2. (\E s \in Steps : Goto(p, s)) \/ (\E a : Finish(p, a))
        BY <2>4 DEF CommitStep, CandidateFails, ItemTargetUnprovable,
           CommitItem, ItemRenameRaises, RenameVersion, VersionRenameRaises,
           StageAdoptedEvent, EventPreflightFails, RenameEvent,
           EventRenameRaises, Readback, ReadbackFails, Project, ProjectFails,
           Steps, Locked
      <3> QED
        BY <1>4, <3>1, <3>2 DEF Goto, Finish, TypeOK
    <2> QED
      BY <1>5, <2>1, <2>2, <2>3, <2>4 DEF Step
  <1> QED
    BY <1>1, <1>2, <1>3, <1>5 DEF Next, Crash, Quiescent

\* Every step keeps the types.
LEMMA TypeNext ==
    ASSUME TypeOK, BusyHasRequest, [Next]_vars
    PROVE  TypeOK'
  <1>1. StoreTypes /\ CallTypes /\ HistoryTypes
    BY TypeParts
  <1>2. CASE UNCHANGED vars
    BY <1>2 DEF TypeOK, vars, storeVars, callVars, histVars
  <1>3. ASSUME NEW p \in Procs, NEW r \in Requests, Start(p, r)
        PROVE  TypeOK'
    BY <1>3 DEF Start, TypeOK, storeVars, NoFault, Steps
  <1>4. ASSUME NEW p \in Procs, Crash(p)
        PROVE  TypeOK'
    <2>1. CallTypes'
      BY <1>1, <1>4, IdleType DEF Crash
    <2>2. req[p] \in Requests
      BY <1>4 DEF Crash, BusyHasRequest
    <2> QED
      BY <1>1, <1>4, <2>1, <2>2
      DEF Crash, TypeOK, CallTypes, storeVars, NoFault
  <1>5. ASSUME NEW p \in Procs, Step(p)
        PROVE  TypeOK'
    <2>1. CASE RefusedBeforeLock(p) \/ LockTimeout(p)
      <3>1. /\ Refusal("not-committed", "capture_store_unavailable") \in Receipt
            /\ Refusal("not-committed", "capture_busy") \in Receipt
        BY RefusalType DEF States, Codes
      <3> QED
        BY <2>1, <3>1
        DEF RefusedBeforeLock, LockTimeout, TypeOK, storeVars, histVars,
            Fault, NoFault, Steps
    <2>2. CASE Acquire(p) \/ Release(p)
      <3>1. {"scan", "cleanup"} \subseteq Steps
        BY DEF Steps, Locked
      <3>2. CallTypes'
        BY <1>1, <2>2, <3>1, GotoType DEF Acquire, Release
      <3> QED
        BY <1>1, <2>2, <3>2
        DEF Acquire, Release, TypeOK, CallTypes, storeVars, histVars, NoFault
    <2>3. CASE Reply(p)
      <3>1. CallTypes'
        BY <1>1, <2>3, IdleType DEF Reply
      <3>2. req[p] \in Requests
        BY <2>3 DEF Reply, BusyHasRequest
      <3>3. answers' \subseteq Answers
        BY <1>1, <2>3, <3>2
        DEF Reply, CallTypes, HistoryTypes, Receipt, Answers
      <3> QED
        BY <1>1, <2>3, <3>1, <3>3
        DEF Reply, TypeOK, CallTypes, storeVars, NoFault
    <2> QED
      BY <1>5, <2>1, <2>2, <2>3, ScanType, CommitStepType DEF Step
  <1> QED
    BY <1>2, <1>3, <1>4, <1>5 DEF Next, Quiescent

\* Every variable keeps its type, for any number of processes, requests,
\* calls and faults.
THEOREM TypeCorrect == Spec => []TypeOK
  <1>1. Init => TypeOK /\ BusyHasRequest
    BY TypeInit DEF Init, BusyHasRequest
  <1>2. TypeOK /\ BusyHasRequest /\ [Next]_vars
        => (TypeOK /\ BusyHasRequest)'
    BY TypeNext, BusyNext
  <1> QED
    BY <1>1, <1>2, PTL DEF Spec
-----------------------------------------------------------------------------
(* The inductive invariant                                                 *)

\* No version directory carries the ids that attempt n draws.
Unused(n) == \A d \in dirs : d.eid # n /\ d.item # n

\* No version directory claims the identity of r.
Unclaimed(r) == \A d \in dirs : ~SameIdentity(d.req, r)

\* c is the successor of the newest committed version of its item.
Follows(c) ==
    \E d \in Committed : /\ Newest(d, Committed)
                         /\ d.item = c.item /\ d.ver + 1 = c.ver

\* What a version directory owes to its request and to the call that drew its
\* event id, drawn before n.
WellFounded(d, n) ==
    /\ d.req \in Requests
    /\ d.eid >= 1 /\ d.eid < n
    /\ d.item >= 1 /\ d.item < n
    /\ IsCapture(d.req) => d.item = d.eid /\ d.ver = 1
    /\ IsAppend(d.req) => d.item = d.req.item /\ d.ver = d.req.expected + 1

StoreInv ==
    /\ ReadableChains
    /\ KeyOnce
    /\ \A d \in dirs : WellFounded(d, nextAtt)
    /\ \A d, e \in dirs : d.eid = e.eid => d = e
    /\ nextAtt >= 1 /\ nextAtt <= MaxAttempts + 1

\* What a process knows at each step of its call.
CallInv(p) ==
    /\ pc[p] \in Locked <=> lock = p
    /\ pc[p] # "idle" => att[p] >= 1 /\ att[p] < nextAtt
    /\ pc[p] \in {"wait", "scan", "item", "version"} => Unused(att[p])
    /\ pc[p] = "item" =>
          /\ IsCapture(req[p])
          /\ Unclaimed(req[p])
          /\ cand[p] = [item |-> att[p], ver |-> 1, req |-> req[p],
                        eid |-> att[p]]
    /\ pc[p] = "version" =>
          /\ IsAppend(req[p])
          /\ Unclaimed(req[p])
          /\ cand[p] = [item |-> req[p].item, ver |-> req[p].expected + 1,
                        req |-> req[p], eid |-> att[p]]
          /\ Follows(cand[p])
          /\ \A d \in dirs : d.item = cand[p].item => d.ver # cand[p].ver
    /\ pc[p] \in {"adopt", "event"} =>
          /\ IsAppend(req[p])
          /\ cand[p] \in Tails
          /\ cand[p].req = req[p]
          /\ Follows(cand[p])
    /\ pc[p] \in {"readback", "project"} =>
          /\ Newest(cand[p], Committed)
          /\ cand[p].req = req[p]

\* A settled answer, given or not, is true of the store.
TrueAnswer(r, a) ==
    /\ a.state = "committed" =>
          \E d \in Committed : /\ d.req = r
                               /\ d.item = a.item /\ d.ver = a.ver
                               /\ d.eid = a.eid
    /\ a.code = "idempotency_conflict" =>
          \E d \in dirs : SameIdentity(d.req, r) /\ d.req # r

AnswerInv ==
    /\ \A p \in Procs : pc[p] \in {"unlock", "cleanup"} =>
          TrueAnswer(req[p], ans[p])
    /\ \A a \in answers : TrueAnswer(a.req, a)

\* The call that committed d is past its commit and will not deny it.
Acknowledging(p, d) ==
    /\ req[p] = d.req
    /\ \/ pc[p] \in {"readback", "project"}
       \/ pc[p] \in {"unlock", "cleanup"} /\ ans[p].state # "not-committed"

OwnedUp ==
    \A d \in Committed :
        \/ d.req \in lost
        \/ \E p \in Procs : Acknowledging(p, d)
        \/ \E a \in answers : a.req = d.req /\ a.state # "not-committed"

DistinctAttempts ==
    \A p, q \in Procs :
        (p # q /\ pc[p] # "idle" /\ pc[q] # "idle") => att[p] # att[q]

IInv ==
    /\ TypeOK
    /\ BusyHasRequest
    /\ StoreInv
    /\ DistinctAttempts
    /\ \A p \in Procs : CallInv(p)
    /\ AnswerInv
    /\ OwnedUp
    /\ ProjectionIsCommitted

-----------------------------------------------------------------------------
(* What the three placements do to the store                               *)

\* Nobody else moves.
OthersStand(p) ==
    \A q \in Procs \ {p} :
        /\ pc'[q] = pc[q] /\ req'[q] = req[q] /\ att'[q] = att[q]
        /\ cand'[q] = cand[q] /\ ans'[q] = ans[q]

\* A whole item with a fresh id adds one committed version and nothing else.
LEMMA PlaceItemLemma ==
    ASSUME IInv, NEW p \in Procs, pc[p] = "item", PlaceItem(p),
           UNCHANGED nextAtt
    PROVE  /\ dirs' = dirs \cup {cand[p]}
           /\ Committed' = Committed \cup {cand[p]}
           /\ StoreInv'
           /\ Newest(cand[p], Committed')
  <1> DEFINE c == cand[p]
  <1>1. /\ c.item = att[p] /\ c.ver = 1 /\ c.req = req[p] /\ c.eid = att[p]
        /\ IsCapture(req[p]) /\ Unclaimed(req[p]) /\ Unused(att[p])
        /\ att[p] >= 1 /\ att[p] < nextAtt
        /\ req[p] \in Requests
    <2>1. CallInv(p) /\ (pc[p] # "idle" => req[p] \in Requests)
      BY DEF IInv, BusyHasRequest
    <2>2. cand[p] = [item |-> att[p], ver |-> 1, req |-> req[p],
                     eid |-> att[p]]
      BY <2>1 DEF CallInv
    <2> QED
      BY <2>1, <2>2 DEF CallInv
  <1>2. dirs' = dirs \cup {c} /\ events' = events \cup {EventOf(c)}
    BY DEF PlaceItem
  <1>3. \A d \in dirs : d.eid # c.eid /\ d.item # c.item
    BY <1>1 DEF Unused
  <1>4. \A d \in dirs : EventOf(d) # EventOf(c)
    BY <1>3 DEF EventOf
  <1>5. Committed' = Committed \cup {c}
    BY <1>2, <1>4 DEF Committed
  <1>6. ReadableChains'
    <2>1. \A d, e \in dirs' : (d.item = e.item /\ d.ver = e.ver) => d = e
      BY <1>2, <1>3 DEF IInv, StoreInv, ReadableChains
    <2>2. \A v \in events' : \E d \in dirs' : EventOf(d) = v
      BY <1>2 DEF IInv, StoreInv, ReadableChains
    <2>3. \A d \in dirs' : d.ver > 1 =>
             \E e \in Committed' : e.item = d.item /\ e.ver + 1 = d.ver
      BY <1>1, <1>2, <1>5 DEF IInv, StoreInv, ReadableChains
    <2>4. \A d \in dirs' : d.ver = 1 => d \in Committed'
      BY <1>2, <1>5 DEF IInv, StoreInv, ReadableChains
    <2> QED
      BY <2>1, <2>2, <2>3, <2>4 DEF ReadableChains, EventOf
  <1>7. KeyOnce'
    <2>1. \A d \in dirs : ~SameIdentity(d.req, c.req)
      BY <1>1 DEF Unclaimed
    <2>2. \A d \in dirs : ~SameIdentity(c.req, d.req)
      BY <2>1 DEF SameIdentity
    <2> QED
      BY <1>2, <2>1, <2>2 DEF KeyOnce, IInv, StoreInv
  <1>8. \A d \in dirs' : WellFounded(d, nextAtt')
    <2>1. WellFounded(c, nextAtt')
      BY <1>1, RequestNumbers DEF WellFounded
    <2>2. \A d \in dirs : WellFounded(d, nextAtt')
      BY DEF IInv, StoreInv, WellFounded
    <2> QED
      BY <1>2, <2>1, <2>2
  <1>9. \A d, e \in dirs' : d.eid = e.eid => d = e
    BY <1>2, <1>3 DEF IInv, StoreInv
  <1>10. Newest(c, Committed')
    BY <1>1, <1>3, <1>5 DEF Newest, Committed
  <1> QED
    BY <1>2, <1>5, <1>6, <1>7, <1>8, <1>9, <1>10 DEF StoreInv, IInv

\* A version directory without event adds a tail: nothing is committed by it.
LEMMA PlaceVersionLemma ==
    ASSUME IInv, NEW p \in Procs, pc[p] = "version", PlaceVersion(p),
           UNCHANGED nextAtt
    PROVE  /\ dirs' = dirs \cup {cand[p]}
           /\ Committed' = Committed
           /\ StoreInv'
           /\ cand[p] \in Tails'
  <1> DEFINE c == cand[p]
  <1>1. /\ c.item = req[p].item /\ c.ver = req[p].expected + 1
        /\ c.req = req[p] /\ c.eid = att[p]
        /\ IsAppend(req[p]) /\ Unclaimed(req[p]) /\ Unused(att[p])
        /\ Follows(c)
        /\ att[p] >= 1 /\ att[p] < nextAtt
        /\ req[p] \in Requests
        /\ \A d \in dirs : d.item = c.item => d.ver # c.ver
    <2>1. CallInv(p) /\ (pc[p] # "idle" => req[p] \in Requests)
      BY DEF IInv, BusyHasRequest
    <2>2. cand[p] = [item |-> req[p].item, ver |-> req[p].expected + 1,
                     req |-> req[p], eid |-> att[p]]
      BY <2>1 DEF CallInv
    <2> QED
      BY <2>1, <2>2 DEF CallInv
  <1>2. dirs' = dirs \cup {c} /\ events' = events
    BY DEF PlaceVersion
  <1>3. \A d \in dirs : d.eid # c.eid
    BY <1>1 DEF Unused
  <1>4. EventOf(c) \notin events
    BY <1>3 DEF IInv, StoreInv, ReadableChains, EventOf
  <1>5. Committed' = Committed
    BY <1>2, <1>4 DEF Committed
  <1>6. PICK b \in Committed : b.item = c.item /\ b.ver + 1 = c.ver
    BY <1>1 DEF Follows
  <1>7. ReadableChains'
    <2>1. \A d, e \in dirs' : (d.item = e.item /\ d.ver = e.ver) => d = e
      BY <1>1, <1>2 DEF IInv, StoreInv, ReadableChains
    <2>2. \A v \in events' : \E d \in dirs' : EventOf(d) = v
      BY <1>2 DEF IInv, StoreInv, ReadableChains
    <2>3. \A d \in dirs' : d.ver > 1 =>
             \E e \in Committed' : e.item = d.item /\ e.ver + 1 = d.ver
      BY <1>2, <1>5, <1>6 DEF IInv, StoreInv, ReadableChains
    <2>4. \A d \in dirs' : d.ver = 1 => d \in Committed'
      BY <1>1, <1>2, <1>5, RequestNumbers DEF IInv, StoreInv, ReadableChains
    <2> QED
      BY <2>1, <2>2, <2>3, <2>4 DEF ReadableChains, EventOf
  <1>8. KeyOnce'
    <2>1. \A d \in dirs : ~SameIdentity(d.req, c.req)
      BY <1>1 DEF Unclaimed
    <2>2. \A d \in dirs : ~SameIdentity(c.req, d.req)
      BY <2>1 DEF SameIdentity
    <2> QED
      BY <1>2, <2>1, <2>2 DEF KeyOnce, IInv, StoreInv
  <1>9. \A d \in dirs' : WellFounded(d, nextAtt')
    <2>1. b \in dirs /\ WellFounded(b, nextAtt)
      BY DEF IInv, StoreInv, Committed
    <2>2. WellFounded(c, nextAtt')
      BY <1>1, <1>6, <2>1, RequestNumbers DEF WellFounded
    <2>3. \A d \in dirs : WellFounded(d, nextAtt')
      BY DEF IInv, StoreInv, WellFounded
    <2> QED
      BY <1>2, <2>2, <2>3
  <1>10. \A d, e \in dirs' : d.eid = e.eid => d = e
    BY <1>2, <1>3 DEF IInv, StoreInv
  <1>11. c \in Tails'
    <2>1. c \notin Committed
      BY <1>4 DEF Committed
    <2> QED
      BY <1>2, <1>5, <2>1 DEF Tails
  <1> QED
    BY <1>2, <1>5, <1>7, <1>8, <1>9, <1>10, <1>11 DEF StoreInv, IInv

\* An event commits the tail it belongs to.
LEMMA PlaceEventLemma ==
    ASSUME IInv, NEW p \in Procs, pc[p] = "event", PlaceEvent(p),
           UNCHANGED nextAtt
    PROVE  /\ dirs' = dirs
           /\ Committed' = Committed \cup {cand[p]}
           /\ StoreInv'
           /\ Newest(cand[p], Committed')
  <1> DEFINE c == cand[p]
  <1>1. c \in dirs /\ c \in Tails /\ Follows(c)
    BY DEF IInv, CallInv, Tails
  <1>2. dirs' = dirs /\ events' = events \cup {EventOf(c)}
    BY DEF PlaceEvent
  <1>3. \A d \in dirs : EventOf(d) = EventOf(c) => d = c
    BY <1>1 DEF EventOf, IInv, StoreInv
  <1>4. Committed' = Committed \cup {c}
    BY <1>1, <1>2, <1>3 DEF Committed
  <1>5. ReadableChains'
    <2>1. \A d, e \in dirs' : (d.item = e.item /\ d.ver = e.ver) => d = e
      BY <1>2 DEF IInv, StoreInv, ReadableChains
    <2>2. \A v \in events' : \E d \in dirs' : EventOf(d) = v
      BY <1>1, <1>2 DEF IInv, StoreInv, ReadableChains
    <2>3. \A d \in dirs' : d.ver > 1 =>
             \E e \in Committed' : e.item = d.item /\ e.ver + 1 = d.ver
      BY <1>2, <1>4 DEF IInv, StoreInv, ReadableChains
    <2>4. \A d \in dirs' : d.ver = 1 => d \in Committed'
      BY <1>2, <1>4 DEF IInv, StoreInv, ReadableChains
    <2> QED
      BY <2>1, <2>2, <2>3, <2>4 DEF ReadableChains, EventOf
  <1>6. KeyOnce'
    BY <1>2 DEF KeyOnce, IInv, StoreInv
  <1>7. \A d \in dirs' : WellFounded(d, nextAtt')
    BY <1>2 DEF IInv, StoreInv, WellFounded
  <1>8. \A d, e \in dirs' : d.eid = e.eid => d = e
    BY <1>2 DEF IInv, StoreInv
  <1>9. Newest(c, Committed')
    <2>1. PICK b \in Committed : /\ Newest(b, Committed)
                                 /\ b.item = c.item /\ b.ver + 1 = c.ver
      BY <1>1 DEF Follows
    <2>2. Committed' \subseteq Version
      BY <1>1, <1>4 DEF Committed, IInv, TypeOK
    <2>3. b.ver \in Nat /\ c.ver \in Nat
      BY <1>4, <2>2 DEF Version
    <2>4. \A d \in Committed' : d.ver \in Nat
      BY <2>2 DEF Version
    <2> QED
      BY <1>4, <2>1, <2>3, <2>4 DEF Newest
  <1> QED
    BY <1>2, <1>4, <1>5, <1>6, <1>7, <1>8, <1>9 DEF StoreInv, IInv

-----------------------------------------------------------------------------
(* The other processes                                                     *)

\* A step of one call leaves the others where they are.
LEMMA GotoStands ==
    ASSUME TypeOK, NEW p \in Procs,
           \/ \E s : Goto(p, s)
           \/ \E a : Finish(p, a)
           \/ \E d, s : Aim(p, d, s)
           \/ Idle(p)
    PROVE  OthersStand(p)
  BY DEF TypeOK, Goto, Finish, Aim, Idle, OthersStand

\* A step of p leaves what the others know true: either the store is as it
\* was, or p holds the lock and the others at most wait for it with ids that
\* stay unused.
LEMMA OtherCalls ==
    ASSUME IInv, NEW p \in Procs, OthersStand(p),
           nextAtt' >= nextAtt, nextAtt' \in Nat,
           \A q \in Procs \ {p} : lock' = q <=> lock = q,
           \/ dirs' = dirs /\ Committed' = Committed
           \/ lock = p /\ \A q \in Procs \ {p} :
                             pc[q] = "wait" => Unused(att[q])'
    PROVE  \A q \in Procs \ {p} : CallInv(q)'
  <1> SUFFICES ASSUME NEW q \in Procs \ {p} PROVE CallInv(q)'
    OBVIOUS
  <1>1. CallInv(q) /\ att[q] \in Nat
    BY DEF IInv, TypeOK
  <1>2. /\ pc'[q] = pc[q] /\ req'[q] = req[q] /\ att'[q] = att[q]
        /\ cand'[q] = cand[q]
        /\ lock' = q <=> lock = q
    BY DEF OthersStand
  <1>3. pc'[q] # "idle" => att'[q] >= 1 /\ att'[q] < nextAtt'
    BY <1>1, <1>2 DEF CallInv, IInv, TypeOK
  <1>4. CASE dirs' = dirs /\ Committed' = Committed
    <2>1. Tails' = Tails
      BY <1>4 DEF Tails
    <2>2. Follows(cand[q]) => Follows(cand[q])'
      BY <1>2, <1>4 DEF Follows
    <2> QED
      BY <1>1, <1>2, <1>3, <1>4, <2>1, <2>2
      DEF CallInv, Unused, Unclaimed, Follows
  <1>5. CASE lock = p /\ \A r \in Procs \ {p} :
                             pc[r] = "wait" => Unused(att[r])'
    <2>1. pc[q] \notin Locked
      BY <1>1, <1>5 DEF CallInv
    <2> QED
      BY <1>1, <1>2, <1>3, <1>5, <2>1 DEF CallInv, Locked
  <1> QED
    BY <1>4, <1>5

\* The ids a waiting process has drawn are in nobody else's candidate.
LEMMA WaitersStayUnused ==
    ASSUME IInv, NEW p \in Procs, NEW q \in Procs \ {p},
           pc[p] \in {"item", "version"}, pc[q] = "wait", att' = att,
           dirs' = dirs \cup {cand[p]}
    PROVE  Unused(att[q])'
  <1>1. CallInv(p) /\ CallInv(q) /\ att[p] # att[q]
    BY DEF IInv, DistinctAttempts
  <1>2. cand[p].eid = att[p]
    BY <1>1 DEF CallInv
  <1>3. cand[p].item # att[q]
    <2>1. CASE pc[p] = "item"
      BY <1>1, <2>1 DEF CallInv
    <2>2. CASE pc[p] = "version"
      <3>1. \E d \in dirs : d.item = cand[p].item
        BY <1>1, <2>2 DEF CallInv, Follows, Committed
      <3> QED
        BY <1>1, <3>1 DEF CallInv, Unused
    <2> QED
      BY <2>1, <2>2
  <1> QED
    BY <1>1, <1>2, <1>3 DEF CallInv, Unused

-----------------------------------------------------------------------------
(* Answers, acknowledgements and the projection                            *)

\* Answers settled earlier stay true while the store grows.
LEMMA AnswersHold ==
    ASSUME IInv, NEW p \in Procs, OthersStand(p),
           dirs \subseteq dirs', Committed \subseteq Committed',
           pc'[p] \in {"unlock", "cleanup"} => TrueAnswer(req[p], ans[p])',
           \A a \in answers' : a \in answers \/ TrueAnswer(a.req, a)'
    PROVE  AnswerInv'
  <1>1. ASSUME NEW q \in Procs, pc'[q] \in {"unlock", "cleanup"}
        PROVE  TrueAnswer(req[q], ans[q])'
    <2>1. CASE q = p
      BY <1>1, <2>1
    <2>2. CASE q # p
      <3>1. pc[q] = pc'[q] /\ req'[q] = req[q] /\ ans'[q] = ans[q]
        BY <2>2 DEF OthersStand
      <3>2. TrueAnswer(req[q], ans[q])
        BY <1>1, <3>1 DEF IInv, AnswerInv
      <3> QED
        BY <3>1, <3>2 DEF TrueAnswer
    <2> QED
      BY <2>1, <2>2
  <1>2. ASSUME NEW a \in answers' PROVE TrueAnswer(a.req, a)'
    <2>1. CASE a \in answers
      <3>1. TrueAnswer(a.req, a)
        BY <2>1 DEF IInv, AnswerInv
      <3> QED
        BY <3>1 DEF TrueAnswer
    <2> QED
      BY <1>2, <2>1
  <1> QED
    BY <1>1, <1>2 DEF AnswerInv

\* A commit stays owned up to if whoever made it goes on acknowledging it, was
\* killed, or has answered.
LEMMA OwnedUpHolds ==
    ASSUME IInv, NEW p \in Procs, OthersStand(p),
           lost \subseteq lost', answers \subseteq answers',
           \A d \in Committed' : d \in Committed \/ Acknowledging(p, d)',
           \A d \in Committed : Acknowledging(p, d) =>
               \/ Acknowledging(p, d)'
               \/ d.req \in lost'
               \/ \E a \in answers' : a.req = d.req
                                      /\ a.state # "not-committed"
    PROVE  OwnedUp'
  <1> SUFFICES ASSUME NEW d \in Committed'
               PROVE  \/ d.req \in lost'
                      \/ \E q \in Procs : Acknowledging(q, d)'
                      \/ \E a \in answers' : a.req = d.req
                                             /\ a.state # "not-committed"
    BY DEF OwnedUp
  <1>1. CASE d \in Committed
    <2>1. \A q \in Procs \ {p} : Acknowledging(q, d) => Acknowledging(q, d)'
      BY DEF OthersStand, Acknowledging
    <2> QED
      BY <1>1, <2>1 DEF IInv, OwnedUp
  <1> QED
    BY <1>1

\* What a step under the lock has to show besides what it leaves alone.
LEMMA LockedStep ==
    ASSUME IInv, TypeOK', BusyHasRequest', StoreInv', ProjectionIsCommitted',
           NEW p \in Procs, pc[p] \in Locked, pc'[p] \in Locked,
           OthersStand(p), att' = att, UNCHANGED <<lock, histVars>>,
           dirs \subseteq dirs', Committed \subseteq Committed',
           \/ dirs' = dirs
           \/ pc[p] \in {"item", "version"} /\ dirs' = dirs \cup {cand[p]},
           CallInv(p)',
           pc'[p] = "unlock" => TrueAnswer(req[p], ans[p])',
           \A d \in Committed' : d \in Committed \/ Acknowledging(p, d)',
           \A d \in Committed : Acknowledging(p, d) => Acknowledging(p, d)'
    PROVE  IInv'
  <1>1. CallInv(p) /\ lock = p
    BY DEF IInv, CallInv
  <1>2. \A q \in Procs \ {p} : CallInv(q)'
    <2>1. \A q \in Procs \ {p} : pc[q] = "wait" => Unused(att[q])'
      <3> SUFFICES ASSUME NEW q \in Procs \ {p}, pc[q] = "wait"
                   PROVE  Unused(att[q])'
        OBVIOUS
      <3>1. CASE dirs' = dirs
        <4>1. CallInv(q)
          BY DEF IInv
        <4> QED
          BY <3>1, <4>1 DEF CallInv, Unused
      <3>2. CASE pc[p] \in {"item", "version"} /\ dirs' = dirs \cup {cand[p]}
        BY <3>2, WaitersStayUnused
      <3> QED
        BY <3>1, <3>2
    <2>2. nextAtt' >= nextAtt /\ nextAtt' \in Nat
      BY DEF IInv, TypeOK, histVars
    <2> QED
      BY <1>1, <2>1, <2>2, OtherCalls
  <1>3. AnswerInv'
    <2>1. pc'[p] # "cleanup" /\ answers' = answers
      BY DEF Locked, histVars
    <2> QED
      BY <2>1, AnswersHold
  <1>4. OwnedUp'
    BY OwnedUpHolds DEF histVars
  <1>5. DistinctAttempts'
    BY DEF IInv, DistinctAttempts, OthersStand, Locked
  <1> QED
    BY <1>2, <1>3, <1>4, <1>5 DEF IInv

-----------------------------------------------------------------------------
(* The scan                                                                *)

\* Under an unchanged store everything about the store stands.
LEMMA SameStore ==
    ASSUME UNCHANGED storeVars
    PROVE  /\ dirs' = dirs /\ Committed' = Committed /\ Tails' = Tails
           /\ ProjectionIsCommitted => ProjectionIsCommitted'
           /\ nextAtt' = nextAtt /\ StoreInv => StoreInv'
  <1>1. dirs' = dirs /\ events' = events /\ proj' = proj
    BY DEF storeVars
  <1>2. Committed' = Committed
    BY <1>1 DEF Committed
  <1>3. Tails' = Tails
    BY <1>1, <1>2 DEF Tails
  <1>4. ProjectionIsCommitted => ProjectionIsCommitted'
    BY <1>1, <1>2 DEF ProjectionIsCommitted
  <1>5. nextAtt' = nextAtt /\ StoreInv => StoreInv'
    BY <1>1, <1>2 DEF StoreInv, ReadableChains, KeyOnce, WellFounded
  <1> QED
    BY <1>1, <1>2, <1>3, <1>4, <1>5

\* Settling a true answer that denies no commit of this call.
LEMMA SettleInv ==
    ASSUME IInv, TypeOK', BusyHasRequest', NEW p \in Procs, NEW a,
           pc[p] \in Locked \ {"unlock", "readback", "project"},
           Finish(p, a), TrueAnswer(req[p], a),
           UNCHANGED <<storeVars, lock, histVars>>
    PROVE  IInv'
  <1>1. pc'[p] = "unlock" /\ req' = req /\ att' = att /\ ans'[p] = a
    BY DEF Finish, IInv, TypeOK
  <1>2. OthersStand(p)
    BY GotoStands DEF IInv
  <1>3. /\ dirs' = dirs /\ Committed' = Committed
        /\ ProjectionIsCommitted' /\ StoreInv'
    BY SameStore DEF IInv, histVars
  <1>4. CallInv(p) /\ CallInv(p)'
    BY <1>1 DEF IInv, CallInv, Locked, histVars
  <1>5. TrueAnswer(req[p], ans[p])'
    BY <1>1, <1>3 DEF TrueAnswer
  <1>6. \A d \in Committed : ~Acknowledging(p, d)
    BY DEF Acknowledging, Locked
  <1>7. pc'[p] \in Locked
    BY <1>1 DEF Locked
  <1> QED
    BY <1>1, <1>2, <1>3, <1>4, <1>5, <1>6, <1>7, LockedStep

\* Aiming at a candidate.
LEMMA AimInv ==
    ASSUME IInv, TypeOK', BusyHasRequest', NEW p \in Procs, NEW d,
           NEW s \in {"item", "version", "adopt"},
           pc[p] = "scan", Aim(p, d, s), CallInv(p)',
           UNCHANGED <<storeVars, lock, histVars>>
    PROVE  IInv'
  <1>1. pc'[p] = s /\ req' = req /\ att' = att
    BY DEF Aim, IInv, TypeOK
  <1>2. OthersStand(p)
    BY GotoStands DEF IInv
  <1>3. /\ dirs' = dirs /\ Committed' = Committed
        /\ ProjectionIsCommitted' /\ StoreInv'
    BY SameStore DEF IInv, histVars
  <1>4. pc'[p] \in Locked /\ pc[p] \in Locked /\ pc'[p] # "unlock"
    BY <1>1 DEF Locked
  <1>5. \A c \in Committed : ~Acknowledging(p, c)
    BY DEF Acknowledging
  <1> QED
    BY <1>1, <1>2, <1>3, <1>4, <1>5, LockedStep

\* A miss leaves the identity of a request unclaimed, unless by its own tail.
LEMMA MissUnclaimed ==
    ASSUME IInv, NEW r \in Requests, Miss(r),
           \A t \in Tails : ~(t.item = r.item /\ t.req = r)
    PROVE  Unclaimed(r)
  <1> SUFFICES ASSUME NEW d \in dirs, SameIdentity(d.req, r) PROVE FALSE
    BY DEF Unclaimed
  <1>1. d.req = r /\ d \notin Committed
    BY DEF Miss, Conflict, Matches
  <1>2. d \in Tails /\ WellFounded(d, nextAtt)
    BY <1>1 DEF Tails, IInv, StoreInv
  <1>3. CASE IsCapture(r)
    BY <1>1, <1>2, <1>3 DEF WellFounded, IInv, StoreInv, ReadableChains
  <1>4. CASE IsAppend(r)
    BY <1>1, <1>2, <1>4 DEF WellFounded
  <1> QED
    BY <1>3, <1>4, RequestNumbers

\* A scan keeps the invariant: under the lock it sees all of the keys.
LEMMA ScanInv ==
    ASSUME IInv, NEW p \in Procs, Scan(p)
    PROVE  IInv'
  <1>1. /\ pc[p] = "scan"
        /\ UNCHANGED <<storeVars, lock, histVars>>
    BY DEF Scan, LockedPreflightFails, ScanFails,
       ScanConflict, ReplayCapture, ReplayAppend, ReplayAppendFails,
       PlanCapture, AppendNotFound, VersionConflict, ForeignTail, AdoptTail,
       PlanAppend, MayAppend
  <1>2. req[p] \in Requests
    BY <1>1 DEF IInv, BusyHasRequest
  <1>3. TypeOK' /\ BusyHasRequest'
    <2>1. Next
      BY DEF Next, Step
    <2> QED
      BY <2>1, TypeNext, BusyNext DEF IInv
  <1>4. "scan" \in Locked \ {"unlock", "readback", "project"}
    BY DEF Locked
  <1>5. ASSUME NEW state \in States \ {"committed"},
               NEW code \in Codes \ {"idempotency_conflict"},
               Finish(p, Refusal(state, code))
        PROVE  IInv'
    <2>1. TrueAnswer(req[p], Refusal(state, code))
      BY RefusalType DEF TrueAnswer
    <2> QED
      BY <1>1, <1>3, <1>4, <1>5, <2>1, SettleInv
  <1>6. {"not-committed", "unknown"} \subseteq States \ {"committed"}
    BY DEF States
  <1>7. {"version_conflict", "capture_not_found", "atomic_commit_failed",
         "integrity_check_failed", "capture_store_unavailable"}
        \subseteq Codes \ {"idempotency_conflict"}
    BY DEF Codes
  <1>8. ASSUME NEW d \in Matches(req[p]), NEW w \in SUBSET Warnings,
               Finish(p, Success(d, "replayed", w))
        PROVE  IInv'
    <2>1. d \in Committed /\ d.req = req[p] /\ d \in Version
      BY DEF Matches, Committed, IInv, TypeOK
    <2>2. TrueAnswer(req[p], Success(d, "replayed", w))
      BY <2>1, SuccessType DEF TrueAnswer, Codes
    <2> QED
      BY <1>1, <1>3, <1>4, <1>8, <2>2, SettleInv
  <1>9. CASE LockedPreflightFails(p) \/ ScanFails(p)
    BY <1>5, <1>6, <1>7, <1>9 DEF LockedPreflightFails, ScanFails
  <1>10. CASE ScanConflict(p)
    <2>1. TrueAnswer(req[p], Refusal("not-committed", "idempotency_conflict"))
      BY <1>10, RefusalType
      DEF TrueAnswer, ScanConflict, Conflict, States, Codes
    <2> QED
      BY <1>1, <1>3, <1>4, <1>10, <2>1, SettleInv DEF ScanConflict
  <1>11. CASE ReplayCapture(p)
    BY <1>8, <1>11 DEF ReplayCapture, Warnings
  <1>12. CASE ReplayAppend(p)
    BY <1>8, <1>12 DEF ReplayAppend
  <1>13. CASE \/ ReplayAppendFails(p) \/ AppendNotFound(p)
              \/ VersionConflict(p) \/ ForeignTail(p)
    BY <1>5, <1>6, <1>7, <1>13
    DEF ReplayAppendFails, AppendNotFound, VersionConflict, ForeignTail
  <1>14. CallInv(p) /\ lock = p /\ "item" \in Locked /\ "version" \in Locked
         /\ "adopt" \in Locked
    BY <1>1 DEF IInv, CallInv, Locked
  <1>15. dirs' = dirs /\ Committed' = Committed /\ Tails' = Tails
         /\ nextAtt' = nextAtt /\ lock' = lock
    BY <1>1, SameStore DEF histVars
  <1>16. CASE PlanCapture(p)
    <2> DEFINE c == [item |-> att[p], ver |-> 1, req |-> req[p],
                     eid |-> att[p]]
    <2>1. pc'[p] = "item" /\ req' = req /\ att' = att /\ cand'[p] = c
      BY <1>16 DEF PlanCapture, Aim, IInv, TypeOK
    <2>2. \A t \in Tails : ~(t.item = req[p].item /\ t.req = req[p])
      BY <1>2, <1>16, RequestNumbers
      DEF PlanCapture, IInv, StoreInv, WellFounded, ReadableChains, Tails
    <2>3. Unclaimed(req[p])
      BY <1>2, <1>16, <2>2, MissUnclaimed DEF PlanCapture
    <2>4. CallInv(p)'
      BY <1>1, <1>14, <1>15, <1>16, <2>1, <2>3
      DEF PlanCapture, CallInv, Unused, Unclaimed
    <2> QED
      BY <1>1, <1>3, <1>16, <2>4, AimInv DEF PlanCapture
  <1>17. ASSUME MayAppend(p), NEW c, c.item = req[p].item,
                c.ver = req[p].expected + 1
         PROVE  Follows(c)
    BY <1>17 DEF MayAppend, Follows
  <1>18. CASE AdoptTail(p)
    <2>1. PICK t \in Tails : /\ t.item = req[p].item
                             /\ t.req = req[p]
                             /\ Aim(p, t, "adopt")
      BY <1>18 DEF AdoptTail
    <2>2. pc'[p] = "adopt" /\ req' = req /\ att' = att /\ cand'[p] = t
      BY <2>1 DEF Aim, IInv, TypeOK
    <2>3. IsAppend(req[p]) /\ MayAppend(p)
      BY <1>18 DEF AdoptTail, MayAppend
    <2>4. WellFounded(t, nextAtt)
      BY DEF IInv, StoreInv, Tails
    <2>5. Follows(t)
      BY <1>17, <2>1, <2>3, <2>4 DEF WellFounded
    <2>6. CallInv(p)'
      BY <1>1, <1>14, <1>15, <2>1, <2>2, <2>3, <2>5 DEF CallInv, Follows
    <2> QED
      BY <1>1, <1>3, <2>1, <2>6, AimInv
  <1>19. CASE PlanAppend(p)
    <2> DEFINE c == [item |-> req[p].item, ver |-> req[p].expected + 1,
                     req |-> req[p], eid |-> att[p]]
    <2>1. pc'[p] = "version" /\ req' = req /\ att' = att /\ cand'[p] = c
      BY <1>19 DEF PlanAppend, Aim, IInv, TypeOK
    <2>2. /\ IsAppend(req[p]) /\ MayAppend(p) /\ Miss(req[p])
          /\ \A t \in Tails : t.item # req[p].item
      BY <1>19 DEF PlanAppend, MayAppend
    <2>3. Unclaimed(req[p])
      BY <1>2, <2>2, MissUnclaimed
    <2>4. Follows(c)
      BY <1>17, <2>2
    <2>5. \A d \in dirs : d.item = c.item => d.ver # c.ver
      <3> SUFFICES ASSUME NEW d \in dirs, d.item = c.item, d.ver = c.ver
                   PROVE  FALSE
        OBVIOUS
      <3>1. d \in Committed
        BY <2>2 DEF Tails
      <3>2. PICK b \in Committed : /\ Newest(b, Committed)
                                   /\ b.item = c.item /\ b.ver + 1 = c.ver
        BY <2>4 DEF Follows
      <3>3. d.ver \in Nat /\ b.ver \in Nat
        BY <3>1 DEF IInv, TypeOK, Committed, Version
      <3> QED
        BY <3>1, <3>2, <3>3 DEF Newest
    <2>6. CallInv(p)'
      BY <1>1, <1>14, <1>15, <2>1, <2>2, <2>3, <2>4, <2>5
      DEF CallInv, Unused, Unclaimed, Follows
    <2> QED
      BY <1>1, <1>3, <1>19, <2>6, AimInv DEF PlanAppend
  <1> QED
    BY <1>9, <1>10, <1>11, <1>12, <1>13, <1>16, <1>18, <1>19 DEF Scan

-----------------------------------------------------------------------------
(* The commit steps                                                        *)

\* Going on under the lock after a placement that committed the candidate, or
\* settling an answer that does not deny it.
LEMMA CommittedInv ==
    ASSUME IInv, TypeOK', BusyHasRequest', StoreInv',
           NEW p \in Procs, pc[p] \in {"item", "event"}, NEW a,
           \/ Goto(p, "readback")
           \/ Finish(p, a) /\ a.state = "unknown"
              /\ a.code # "idempotency_conflict",
           \/ pc[p] = "item" /\ dirs' = dirs \cup {cand[p]}
           \/ dirs' = dirs,
           Committed' = Committed \cup {cand[p]},
           Newest(cand[p], Committed'),
           UNCHANGED <<proj, lock, histVars>>
    PROVE  IInv'
  <1>1. CallInv(p) /\ pc[p] \in Locked
    BY DEF IInv, Locked
  <1>2. cand[p].req = req[p]
    BY <1>1 DEF CallInv
  <1>3. OthersStand(p) /\ req' = req /\ att' = att /\ cand' = cand
    BY GotoStands DEF IInv, Goto, Finish
  <1>4. ProjectionIsCommitted'
    BY DEF ProjectionIsCommitted, IInv
  <1>5. \A d \in Committed : ~Acknowledging(p, d)
    BY DEF Acknowledging
  <1>6. dirs \subseteq dirs' /\ Committed \subseteq Committed'
    OBVIOUS
  <1>7. CASE Goto(p, "readback")
    <2>1. pc'[p] = "readback"
      BY <1>7 DEF Goto, IInv, TypeOK
    <2>2. CallInv(p)'
      BY <1>1, <1>2, <1>3, <2>1 DEF CallInv, Locked, histVars
    <2>3. Acknowledging(p, cand[p])'
      BY <1>2, <1>3, <2>1 DEF Acknowledging
    <2>4. \A d \in Committed' : d \in Committed \/ Acknowledging(p, d)'
      BY <1>2, <1>3, <2>1 DEF Acknowledging
    <2>5. pc'[p] \in Locked
      BY <2>1 DEF Locked
    <2> QED
      BY <1>1, <1>3, <1>4, <1>5, <1>6, <2>1, <2>2, <2>4, <2>5, LockedStep
  <1>8. CASE Finish(p, a) /\ a.state = "unknown"
             /\ a.code # "idempotency_conflict"
    <2>1. pc'[p] = "unlock" /\ ans'[p] = a
      BY <1>8 DEF Finish, IInv, TypeOK
    <2>2. CallInv(p)'
      BY <1>1, <1>3, <2>1 DEF CallInv, Locked, histVars
    <2>3. \A d \in Committed' : d \in Committed \/ Acknowledging(p, d)'
      BY <1>2, <1>3, <1>8, <2>1 DEF Acknowledging
    <2>4. TrueAnswer(req[p], ans[p])'
      BY <1>8, <2>1 DEF TrueAnswer
    <2>5. pc'[p] \in Locked
      BY <2>1 DEF Locked
    <2> QED
      BY <1>1, <1>3, <1>4, <1>5, <1>6, <2>2, <2>3, <2>4, <2>5, LockedStep
  <1> QED
    BY <1>7, <1>8

\* The version directory is in place, whatever is said about it.
LEMMA TailInv ==
    ASSUME IInv, TypeOK', BusyHasRequest', NEW p \in Procs, NEW a,
           pc[p] = "version", PlaceVersion(p),
           \/ Goto(p, "event")
           \/ Finish(p, a) /\ a.state # "committed"
              /\ a.code # "idempotency_conflict",
           UNCHANGED <<lock, histVars>>
    PROVE  IInv'
  <1>1. CallInv(p) /\ pc[p] \in Locked
    BY DEF IInv, Locked
  <1>2. OthersStand(p) /\ req' = req /\ att' = att /\ cand' = cand
    BY GotoStands DEF IInv, Goto, Finish
  <1>3. /\ dirs' = dirs \cup {cand[p]} /\ Committed' = Committed
        /\ StoreInv' /\ cand[p] \in Tails'
    BY PlaceVersionLemma DEF histVars
  <1>4. ProjectionIsCommitted'
    BY <1>3 DEF PlaceVersion, ProjectionIsCommitted, IInv
  <1>5. \A d \in Committed : ~Acknowledging(p, d)
    BY DEF Acknowledging
  <1>6. cand[p].req = req[p] /\ IsAppend(req[p]) /\ Follows(cand[p])
    BY <1>1 DEF CallInv
  <1>7. dirs \subseteq dirs' /\ Committed \subseteq Committed'
    BY <1>3
  <1>8. CASE Goto(p, "event")
    <2>1. pc'[p] = "event"
      BY <1>8 DEF Goto, IInv, TypeOK
    <2>2. CallInv(p)'
      BY <1>1, <1>2, <1>3, <1>6, <2>1 DEF CallInv, Locked, Follows, histVars
    <2>3. pc'[p] \in Locked
      BY <2>1 DEF Locked
    <2> QED
      BY <1>1, <1>2, <1>3, <1>4, <1>5, <1>7, <2>1, <2>2, <2>3, LockedStep
  <1>9. CASE Finish(p, a) /\ a.state # "committed"
             /\ a.code # "idempotency_conflict"
    <2>1. pc'[p] = "unlock" /\ ans'[p] = a
      BY <1>9 DEF Finish, IInv, TypeOK
    <2>2. CallInv(p)'
      BY <1>1, <1>2, <2>1 DEF CallInv, Locked, histVars
    <2>3. TrueAnswer(req[p], ans[p])'
      BY <1>9, <2>1 DEF TrueAnswer
    <2>4. pc'[p] \in Locked
      BY <2>1 DEF Locked
    <2> QED
      BY <1>1, <1>2, <1>3, <1>4, <1>5, <1>7, <2>2, <2>3, <2>4, LockedStep
  <1> QED
    BY <1>8, <1>9

\* Steps that leave the store alone and go on.
LEMMA GoOnInv ==
    ASSUME IInv, TypeOK', BusyHasRequest', NEW p \in Procs,
           \/ pc[p] = "adopt" /\ Goto(p, "event")
           \/ pc[p] = "readback" /\ Goto(p, "project"),
           UNCHANGED <<storeVars, lock, histVars>>
    PROVE  IInv'
  <1>1. CallInv(p) /\ pc[p] \in Locked
    BY DEF IInv, Locked
  <1>2. OthersStand(p) /\ req' = req /\ att' = att /\ cand' = cand
    BY GotoStands DEF IInv, Goto
  <1>3. /\ dirs' = dirs /\ Committed' = Committed /\ Tails' = Tails
        /\ ProjectionIsCommitted' /\ StoreInv'
    BY SameStore DEF IInv, histVars
  <1>4. \/ pc[p] = "adopt" /\ pc'[p] = "event"
        \/ pc[p] = "readback" /\ pc'[p] = "project"
    BY DEF Goto, IInv, TypeOK
  <1>5. CallInv(p)'
    BY <1>1, <1>2, <1>3, <1>4 DEF CallInv, Locked, Follows, histVars
  <1>6. \A d \in Committed : Acknowledging(p, d) => Acknowledging(p, d)'
    BY <1>2, <1>4 DEF Acknowledging
  <1>7. pc'[p] \in Locked /\ pc'[p] # "unlock"
    BY <1>4 DEF Locked
  <1> QED
    BY <1>1, <1>2, <1>3, <1>5, <1>6, <1>7, LockedStep

\* The candidate is committed: what is said of it, "unknown" or a success,
\* does not deny it, and the projection may show it.
LEMMA AcknowledgeInv ==
    ASSUME IInv, TypeOK', BusyHasRequest', NEW p \in Procs,
           pc[p] \in {"readback", "project"}, NEW a, Finish(p, a),
           a.state # "not-committed", a.code # "idempotency_conflict",
           a.state = "committed" => /\ a.item = cand[p].item
                                    /\ a.ver = cand[p].ver
                                    /\ a.eid = cand[p].eid,
           \/ proj' = proj
           \/ proj' = [proj EXCEPT ![cand[p].item] = cand[p].ver],
           UNCHANGED <<dirs, events, lock, histVars>>
    PROVE  IInv'
  <1>1. CallInv(p) /\ pc[p] \in Locked
    BY DEF IInv, Locked
  <1>2. OthersStand(p) /\ req' = req /\ att' = att /\ cand' = cand
    BY GotoStands DEF IInv, Finish
  <1>3. Newest(cand[p], Committed) /\ cand[p].req = req[p]
        /\ cand[p] \in Committed
    BY <1>1 DEF CallInv, Newest
  <1>4. Committed' = Committed /\ dirs' = dirs
    BY DEF Committed
  <1>5. StoreInv'
    BY <1>4 DEF IInv, StoreInv, ReadableChains, KeyOnce, WellFounded,
                histVars
  <1>6. ProjectionIsCommitted'
    BY <1>3, <1>4 DEF ProjectionIsCommitted, IInv, TypeOK
  <1>7. pc'[p] = "unlock" /\ ans'[p] = a
    BY DEF Finish, IInv, TypeOK
  <1>8. CallInv(p)'
    BY <1>1, <1>2, <1>7 DEF CallInv, Locked, histVars
  <1>9. TrueAnswer(req[p], ans[p])'
    BY <1>2, <1>3, <1>4, <1>7 DEF TrueAnswer
  <1>10. \A d \in Committed : Acknowledging(p, d) => Acknowledging(p, d)'
    BY <1>2, <1>7 DEF Acknowledging
  <1>11. pc'[p] \in Locked
    BY <1>7 DEF Locked
  <1> QED
    BY <1>1, <1>2, <1>4, <1>5, <1>6, <1>8, <1>9, <1>10, <1>11, LockedStep

\* The renames, their failures and probes, and the projection keep the invariant.
LEMMA CommitStepInv ==
    ASSUME IInv, NEW p \in Procs, CommitStep(p)
    PROVE  IInv'
  <1>1. TypeOK' /\ BusyHasRequest'
    <2>1. Next
      BY DEF Next, Step
    <2> QED
      BY <2>1, TypeNext, BusyNext DEF IInv
  <1>2. /\ {"not-committed", "unknown"} \subseteq States
        /\ {"atomic_commit_failed", "integrity_check_failed",
            "capture_store_unavailable"}
           \subseteq Codes \ {"idempotency_conflict"}
    BY DEF States, Codes
  <1>3. ASSUME NEW state \in {"not-committed", "unknown"},
               NEW code \in {"atomic_commit_failed", "integrity_check_failed",
                             "capture_store_unavailable"}
        PROVE  /\ Refusal(state, code).state = state
               /\ Refusal(state, code).code = code
    BY <1>2, RefusalType
  <1>4. ASSUME NEW state \in {"not-committed", "unknown"},
               NEW code \in {"atomic_commit_failed", "integrity_check_failed",
                             "capture_store_unavailable"},
               Finish(p, Refusal(state, code)),
               pc[p] \in {"item", "version", "adopt", "event"},
               UNCHANGED <<storeVars, lock, histVars>>
        PROVE  IInv'
    <2>1. TrueAnswer(req[p], Refusal(state, code))
      BY <1>3 DEF TrueAnswer
    <2>2. pc[p] \in Locked \ {"unlock", "readback", "project"}
      BY <1>4 DEF Locked
    <2> QED
      BY <1>1, <1>4, <2>1, <2>2, SettleInv
  <1>5. CASE \/ CandidateFails(p) \/ ItemTargetUnprovable(p)
             \/ EventPreflightFails(p)
    BY <1>4, <1>5
    DEF CandidateFails, ItemTargetUnprovable, EventPreflightFails
  <1>6. CASE CommitItem(p)
    BY <1>1, <1>6, PlaceItemLemma, CommittedInv
    DEF CommitItem, PlaceItem, histVars
  <1>7. CASE ItemRenameRaises(p)
    <2>1. pc[p] = "item" /\ UNCHANGED <<lock, histVars>>
      BY <1>7 DEF ItemRenameRaises
    <2>2. CASE PlaceItem(p) /\ \E s \in Probe(FALSE), t \in Probe(TRUE) :
                   LET verdict == ItemVerdict(s, t) IN
                   IF verdict = "committed" THEN Goto(p, "readback")
                   ELSE Finish(p, Refusal(verdict, "atomic_commit_failed"))
      <3>1. PICK s \in Probe(FALSE), t \in Probe(TRUE) :
                   IF ItemVerdict(s, t) = "committed"
                   THEN Goto(p, "readback")
                   ELSE Finish(p, Refusal(ItemVerdict(s, t),
                                          "atomic_commit_failed"))
        BY <2>2
      <3>2. ItemVerdict(s, t) \in {"committed", "unknown"}
        BY DEF ItemVerdict, Probe
      <3>3. \/ Goto(p, "readback")
            \/ Finish(p, Refusal("unknown", "atomic_commit_failed"))
        BY <3>1, <3>2
      <3> QED
        BY <1>1, <1>3, <2>1, <2>2, <3>3, PlaceItemLemma, CommittedInv
        DEF PlaceItem, histVars
    <2>3. CASE UNCHANGED storeVars
               /\ \E s \in Probe(TRUE), t \in Probe(FALSE) :
                   LET verdict == ItemVerdict(s, t) IN
                   IF verdict = "committed" THEN Goto(p, "readback")
                   ELSE Finish(p, Refusal(verdict, "atomic_commit_failed"))
      <3>1. PICK s \in Probe(TRUE), t \in Probe(FALSE) :
                   IF ItemVerdict(s, t) = "committed"
                   THEN Goto(p, "readback")
                   ELSE Finish(p, Refusal(ItemVerdict(s, t),
                                          "atomic_commit_failed"))
        BY <2>3
      <3>2. ItemVerdict(s, t) \in {"not-committed", "unknown"}
        BY DEF ItemVerdict, Probe
      <3> QED
        BY <1>4, <2>1, <2>3, <3>1, <3>2
    <2> QED
      BY <1>7, <2>2, <2>3 DEF ItemRenameRaises
  <1>8. CASE RenameVersion(p)
    BY <1>1, <1>8, TailInv DEF RenameVersion
  <1>9. CASE VersionRenameRaises(p)
    <2>1. PICK t \in Probe(FALSE) :
              Finish(p, Refusal(EventVerdict(FALSE, "present", t, FALSE),
                                "atomic_commit_failed"))
      BY <1>9 DEF VersionRenameRaises
    <2>2. EventVerdict(FALSE, "present", t, FALSE)
              \in {"not-committed", "unknown"}
      BY DEF EventVerdict
    <2>3. CASE PlaceVersion(p)
      BY <1>1, <1>3, <1>9, <2>1, <2>2, <2>3, TailInv DEF VersionRenameRaises
    <2>4. CASE UNCHANGED storeVars
      BY <1>4, <1>9, <2>1, <2>2, <2>4 DEF VersionRenameRaises
    <2> QED
      BY <1>9, <2>3, <2>4 DEF VersionRenameRaises
  <1>10. CASE StageAdoptedEvent(p)
    BY <1>1, <1>10, GoOnInv DEF StageAdoptedEvent
  <1>11. CASE RenameEvent(p)
    BY <1>1, <1>11, PlaceEventLemma, CommittedInv
    DEF RenameEvent, PlaceEvent, histVars
  <1>12. CASE EventRenameRaises(p)
    <2>1. pc[p] = "event" /\ UNCHANGED <<lock, histVars>>
      BY <1>12 DEF EventRenameRaises
    <2>2. CASE PlaceEvent(p) /\ \E s \in Probe(FALSE), t \in Probe(TRUE),
                                  b \in BOOLEAN :
                   LET verdict == EventVerdict(TRUE, s, t, b) IN
                   IF verdict = "committed" THEN Goto(p, "readback")
                   ELSE Finish(p, Refusal(verdict, "atomic_commit_failed"))
      <3>1. PICK s \in Probe(FALSE), t \in Probe(TRUE), b \in BOOLEAN :
                   IF EventVerdict(TRUE, s, t, b) = "committed"
                   THEN Goto(p, "readback")
                   ELSE Finish(p, Refusal(EventVerdict(TRUE, s, t, b),
                                          "atomic_commit_failed"))
        BY <2>2
      <3>2. EventVerdict(TRUE, s, t, b) \in {"committed", "unknown"}
        BY DEF EventVerdict, Probe
      <3>3. \/ Goto(p, "readback")
            \/ Finish(p, Refusal("unknown", "atomic_commit_failed"))
        BY <3>1, <3>2
      <3> QED
        BY <1>1, <1>3, <2>1, <2>2, <3>3, PlaceEventLemma, CommittedInv
        DEF PlaceEvent, histVars
    <2>3. CASE UNCHANGED storeVars
               /\ \E s \in Probe(TRUE), t \in Probe(FALSE), b \in BOOLEAN :
                   LET verdict == EventVerdict(TRUE, s, t, b) IN
                   IF verdict = "committed" THEN Goto(p, "readback")
                   ELSE Finish(p, Refusal(verdict, "atomic_commit_failed"))
      <3>1. PICK s \in Probe(TRUE), t \in Probe(FALSE), b \in BOOLEAN :
                   IF EventVerdict(TRUE, s, t, b) = "committed"
                   THEN Goto(p, "readback")
                   ELSE Finish(p, Refusal(EventVerdict(TRUE, s, t, b),
                                          "atomic_commit_failed"))
        BY <2>3
      <3>2. EventVerdict(TRUE, s, t, b) \in {"not-committed", "unknown"}
        BY DEF EventVerdict, Probe
      <3> QED
        BY <1>4, <2>1, <2>3, <3>1, <3>2
    <2> QED
      BY <1>12, <2>2, <2>3 DEF EventRenameRaises
  <1>13. CASE Readback(p)
    BY <1>1, <1>13, GoOnInv DEF Readback
  <1>14. CASE ReadbackFails(p)
    BY <1>1, <1>3, <1>14, AcknowledgeInv DEF ReadbackFails, storeVars
  <1>15. CASE Project(p) \/ ProjectFails(p)
    <2>1. PICK w \in SUBSET Warnings :
              Finish(p, Success(cand[p], "saved", w))
      BY <1>15 DEF Project, ProjectFails, Warnings
    <2>2. cand[p] \in Version
      BY DEF IInv, TypeOK
    <2>3. /\ Success(cand[p], "saved", w).state = "committed"
          /\ Success(cand[p], "saved", w).code = "saved"
          /\ Success(cand[p], "saved", w).item = cand[p].item
          /\ Success(cand[p], "saved", w).ver = cand[p].ver
          /\ Success(cand[p], "saved", w).eid = cand[p].eid
      BY <2>2, SuccessType DEF Codes
    <2>4. \/ proj' = proj
          \/ proj' = [proj EXCEPT ![cand[p].item] = cand[p].ver]
      BY <1>15 DEF Project, ProjectFails
    <2>5. pc[p] = "project" /\ UNCHANGED <<dirs, events, lock, histVars>>
      BY <1>15 DEF Project, ProjectFails
    <2> QED
      BY <1>1, <2>1, <2>3, <2>4, <2>5, AcknowledgeInv
  <1> QED
    BY <1>5, <1>6, <1>7, <1>8, <1>9, <1>10, <1>11, <1>12, <1>13, <1>14,
       <1>15 DEF CommitStep

-----------------------------------------------------------------------------
(* The steps around the lock                                               *)

\* What a step outside the commit has to show: the lock of the others stands,
\* an answer it gives is true, and a commit stays acknowledged.
LockStands(p) == \A q \in Procs \ {p} : (lock' = q) <=> (lock = q)

NewAnswersTrue == \A a \in answers' : a \in answers \/ TrueAnswer(a.req, a)'

Owns(p) ==
    \A d \in Committed : Acknowledging(p, d) =>
        \/ Acknowledging(p, d)'
        \/ d.req \in lost'
        \/ \E a \in answers' : a.req = d.req /\ a.state # "not-committed"

AttemptsGrow ==
    \/ nextAtt' = nextAtt
    \/ nextAtt' = nextAtt + 1 /\ nextAtt' <= MaxAttempts + 1

LeavesTruth(p) ==
    pc'[p] \in {"unlock", "cleanup"} => TrueAnswer(req[p], ans[p])'

HistoryGrows == lost \subseteq lost' /\ answers \subseteq answers'

\* A step that leaves the store alone and moves one process outside the
\* commit: what it has to show.
LEMMA OutsideStep ==
    ASSUME IInv, TypeOK', BusyHasRequest', NEW p \in Procs, OthersStand(p),
           UNCHANGED storeVars,
           AttemptsGrow, LockStands(p), CallInv(p)', DistinctAttempts',
           LeavesTruth(p), HistoryGrows, NewAnswersTrue, Owns(p)
    PROVE  IInv'
  <1>1. dirs' = dirs /\ events' = events /\ proj' = proj
    BY DEF storeVars
  <1>2. Committed' = Committed
    BY <1>1 DEF Committed
  <1>3. ProjectionIsCommitted'
    BY <1>1, <1>2 DEF ProjectionIsCommitted, IInv
  <1>4. StoreInv'
    <2>1. nextAtt \in Nat /\ nextAtt' \in Nat /\ nextAtt' >= nextAtt
      BY DEF IInv, TypeOK, AttemptsGrow
    <2>2. nextAtt' >= 1 /\ nextAtt' <= MaxAttempts + 1
      BY <2>1, StoreAssumption DEF IInv, StoreInv, AttemptsGrow
    <2>3. ReadableChains' /\ KeyOnce'
      BY <1>1, <1>2 DEF IInv, StoreInv, ReadableChains, KeyOnce
    <2>4. \A d \in dirs' : WellFounded(d, nextAtt')
      <3> SUFFICES ASSUME NEW d \in dirs PROVE WellFounded(d, nextAtt')
        BY <1>1
      <3>1. WellFounded(d, nextAtt) /\ d.eid \in Nat /\ d.item \in Nat
        BY DEF IInv, StoreInv, TypeOK, Version
      <3> QED
        BY <2>1, <3>1 DEF WellFounded
    <2>5. \A d, e \in dirs' : d.eid = e.eid => d = e
      BY <1>1 DEF IInv, StoreInv
    <2> QED
      BY <2>2, <2>3, <2>4, <2>5 DEF StoreInv
  <1>5. \A q \in Procs : CallInv(q)'
    <2>1. nextAtt' >= nextAtt /\ nextAtt' \in Nat
      BY DEF IInv, TypeOK, AttemptsGrow
    <2> QED
      BY <1>1, <1>2, <2>1, OtherCalls DEF LockStands
  <1>6. AnswerInv'
    BY <1>1, <1>2, AnswersHold DEF LeavesTruth, HistoryGrows, NewAnswersTrue
  <1>7. OwnedUp'
    BY <1>2, OwnedUpHolds DEF HistoryGrows, Owns
  <1> QED
    BY <1>3, <1>4, <1>5, <1>6, <1>7 DEF IInv

\* Attempt numbers stay distinct when nobody takes a new one.
LEMMA DistinctHolds ==
    ASSUME IInv, NEW p \in Procs, OthersStand(p),
           pc'[p] = "idle" \/ (att'[p] = att[p] /\ pc[p] # "idle")
    PROVE  DistinctAttempts'
  BY DEF IInv, DistinctAttempts, OthersStand

\* A call begins with an attempt number of its own.
LEMMA StartInv ==
    ASSUME IInv, TypeOK', BusyHasRequest', NEW p \in Procs,
           NEW r \in Requests, Start(p, r)
    PROVE  IInv'
  <1>1. /\ pc[p] = "idle" /\ pc'[p] = "wait" /\ att'[p] = nextAtt
        /\ nextAtt' = nextAtt + 1 /\ nextAtt <= MaxAttempts
        /\ nextAtt \in Nat
        /\ UNCHANGED <<storeVars, lock, answers, lost>>
    BY DEF Start, IInv, TypeOK
  <1>2. OthersStand(p)
    BY DEF Start, IInv, TypeOK, OthersStand
  <1>3. nextAtt + 1 <= MaxAttempts + 1 /\ nextAtt >= 1
    BY <1>1, StoreAssumption DEF IInv, StoreInv
  <1>4. Unused(att[p])'
    <2> SUFFICES ASSUME NEW d \in dirs
                 PROVE  d.eid # nextAtt /\ d.item # nextAtt
      BY <1>1 DEF Unused, storeVars
    <2>1. WellFounded(d, nextAtt) /\ d.eid \in Nat /\ d.item \in Nat
      BY DEF IInv, StoreInv, TypeOK, Version
    <2> QED
      BY <1>1, <2>1 DEF WellFounded
  <1>5. CallInv(p)'
    <2>1. lock # p
      BY <1>1 DEF IInv, CallInv, Locked
    <2> QED
      BY <1>1, <1>3, <1>4, <2>1 DEF CallInv, Locked
  <1>6. DistinctAttempts'
    <2>1. \A q \in Procs \ {p} : pc'[q] # "idle" => att'[q] < nextAtt
      BY <1>2 DEF OthersStand, IInv, CallInv
    <2>2. \A q \in Procs \ {p} : pc'[q] # "idle" => att'[q] # att'[p]
      BY <1>1, <2>1 DEF TypeOK
    <2> QED
      BY <1>2, <2>2 DEF DistinctAttempts, OthersStand, IInv
  <1>7. Owns(p) /\ LeavesTruth(p)
    BY <1>1 DEF Acknowledging, Owns, LeavesTruth
  <1>8. AttemptsGrow /\ LockStands(p) /\ HistoryGrows /\ NewAnswersTrue
    BY <1>1, <1>3
    DEF AttemptsGrow, LockStands, HistoryGrows, NewAnswersTrue
  <1>9. UNCHANGED storeVars
    BY <1>1
  <1> QED
    BY <1>2, <1>5, <1>6, <1>7, <1>8, <1>9, OutsideStep

\* An answer settled without the lock.
LEMMA RefuseOutsideInv ==
    ASSUME IInv, TypeOK', BusyHasRequest', NEW p \in Procs,
           RefusedBeforeLock(p) \/ LockTimeout(p)
    PROVE  IInv'
  <1>1. /\ pc[p] = "wait" /\ pc'[p] = "cleanup"
        /\ ans'[p].state = "not-committed"
        /\ ans'[p].code # "idempotency_conflict"
        /\ req' = req /\ att' = att /\ cand' = cand
        /\ UNCHANGED <<storeVars, lock, histVars>>
    BY DEF RefusedBeforeLock, LockTimeout, IInv, TypeOK, Refusal
  <1>2. OthersStand(p)
    BY DEF RefusedBeforeLock, LockTimeout, IInv, TypeOK, OthersStand
  <1>3. CallInv(p)'
    BY <1>1 DEF IInv, CallInv, Locked, histVars
  <1>4. DistinctAttempts'
    BY <1>1, <1>2, DistinctHolds
  <1>5. Owns(p)
    BY <1>1 DEF Acknowledging, Owns
  <1>6. LeavesTruth(p)
    BY <1>1 DEF TrueAnswer, LeavesTruth
  <1>7. AttemptsGrow /\ LockStands(p) /\ HistoryGrows /\ NewAnswersTrue
    BY <1>1
    DEF histVars, AttemptsGrow, LockStands, HistoryGrows, NewAnswersTrue
  <1>8. UNCHANGED storeVars
    BY <1>1
  <1> QED
    BY <1>2, <1>3, <1>4, <1>5, <1>6, <1>7, <1>8, OutsideStep

\* The lock is taken by one call.
LEMMA AcquireInv ==
    ASSUME IInv, TypeOK', BusyHasRequest', NEW p \in Procs, Acquire(p)
    PROVE  IInv'
  <1>1. /\ pc[p] = "wait" /\ pc'[p] = "scan" /\ lock = NoProc /\ lock' = p
        /\ req' = req /\ att' = att /\ cand' = cand /\ ans' = ans
        /\ UNCHANGED <<storeVars, histVars>>
    BY DEF Acquire, Goto, IInv, TypeOK
  <1>2. OthersStand(p)
    BY GotoStands DEF Acquire, IInv
  <1>3. CallInv(p)'
    BY <1>1 DEF IInv, CallInv, Locked, histVars, storeVars, Unused
  <1>4. DistinctAttempts'
    BY <1>1, <1>2, DistinctHolds
  <1>5. Owns(p) /\ LeavesTruth(p)
    BY <1>1 DEF Acknowledging, Owns, LeavesTruth
  <1>6. AttemptsGrow /\ LockStands(p) /\ HistoryGrows /\ NewAnswersTrue
    BY <1>1, StoreAssumption
    DEF histVars, AttemptsGrow, LockStands, HistoryGrows, NewAnswersTrue
  <1>7. UNCHANGED storeVars
    BY <1>1
  <1> QED
    BY <1>2, <1>3, <1>4, <1>5, <1>6, <1>7, OutsideStep

\* A call that gives the lock back has a true answer in hand.
LEMMA ReleaseInv ==
    ASSUME IInv, TypeOK', BusyHasRequest', NEW p \in Procs, Release(p)
    PROVE  IInv'
  <1>1. /\ pc[p] = "unlock" /\ pc'[p] = "cleanup" /\ lock' = NoProc
        /\ req' = req /\ att' = att /\ cand' = cand /\ ans' = ans
        /\ UNCHANGED <<storeVars, histVars>>
    BY DEF Release, Goto, IInv, TypeOK
  <1>2. OthersStand(p)
    BY GotoStands DEF Release, IInv
  <1>3. lock = p
    BY <1>1 DEF IInv, CallInv, Locked
  <1>4. CallInv(p)'
    BY <1>1, StoreAssumption DEF IInv, CallInv, Locked, histVars
  <1>5. DistinctAttempts'
    BY <1>1, <1>2, DistinctHolds
  <1>6. Owns(p)
    BY <1>1 DEF Acknowledging, Owns
  <1>7. LeavesTruth(p)
    <2>1. TrueAnswer(req[p], ans[p])
      BY <1>1 DEF IInv, AnswerInv
    <2>2. dirs' = dirs /\ Committed' = Committed
      BY <1>1, SameStore DEF storeVars
    <2>3. TrueAnswer(req[p], ans[p])'
      BY <1>1, <2>1, <2>2 DEF TrueAnswer
    <2> QED
      BY <2>3 DEF LeavesTruth
  <1>8. AttemptsGrow /\ LockStands(p) /\ HistoryGrows /\ NewAnswersTrue
    BY <1>1, <1>3, StoreAssumption
    DEF histVars, AttemptsGrow, LockStands, HistoryGrows, NewAnswersTrue
  <1>9. UNCHANGED storeVars
    BY <1>1
  <1> QED
    BY <1>2, <1>4, <1>5, <1>6, <1>7, <1>8, <1>9, OutsideStep

\* An answer that was true in hand is true when given.
LEMMA ReplyInv ==
    ASSUME IInv, TypeOK', BusyHasRequest', NEW p \in Procs, Reply(p)
    PROVE  IInv'
  <1> DEFINE given == [att |-> att[p], req |-> req[p],
                       state |-> ans[p].state, code |-> ans[p].code,
                       item |-> ans[p].item, ver |-> ans[p].ver,
                       eid |-> ans[p].eid, warn |-> ans[p].warn]
  <1>1. /\ pc[p] = "cleanup" /\ pc'[p] = "idle"
        /\ answers' = answers \cup {given}
        /\ UNCHANGED <<storeVars, lock, lost, nextAtt>>
    BY DEF Reply, Idle, IInv, TypeOK
  <1>2. OthersStand(p)
    BY GotoStands DEF Reply, IInv
  <1>3. CallInv(p)'
    BY <1>1 DEF IInv, CallInv, Locked
  <1>4. DistinctAttempts'
    BY <1>1, <1>2, DistinctHolds
  <1>5. TrueAnswer(given.req, given)
    <2>1. TrueAnswer(req[p], ans[p])
      BY <1>1 DEF IInv, AnswerInv
    <2> QED
      BY <2>1 DEF TrueAnswer
  <1>6. NewAnswersTrue
    <2>1. dirs' = dirs /\ Committed' = Committed
      BY <1>1, SameStore DEF storeVars
    <2> SUFFICES ASSUME NEW a \in answers', a \notin answers
                 PROVE  TrueAnswer(a.req, a)'
      BY DEF NewAnswersTrue
    <2>2. TrueAnswer(a.req, a)
      BY <1>1, <1>5
    <2>3. CASE a.state = "committed"
      BY <2>1, <2>2, <2>3 DEF TrueAnswer
    <2>4. CASE a.code = "idempotency_conflict"
      BY <2>1, <2>2, <2>4 DEF TrueAnswer
    <2> QED
      BY <2>1, <2>2, <2>3, <2>4 DEF TrueAnswer
  <1>7. Owns(p) /\ LeavesTruth(p)
    <2>1. LeavesTruth(p)
      BY <1>1 DEF LeavesTruth
    <2>2. given \in answers' /\ given.req = req[p] /\ given.state = ans[p].state
      BY <1>1
    <2> HIDE DEF given
    <2>3. \A d \in Committed : Acknowledging(p, d) =>
              given.req = d.req /\ given.state # "not-committed"
      BY <1>1, <2>2 DEF Acknowledging
    <2> QED
      BY <2>1, <2>2, <2>3 DEF Owns
  <1>8. AttemptsGrow /\ LockStands(p) /\ HistoryGrows
    BY <1>1 DEF AttemptsGrow, LockStands, HistoryGrows
  <1>9. UNCHANGED storeVars
    BY <1>1
  <1> QED
    BY <1>2, <1>3, <1>4, <1>6, <1>7, <1>8, <1>9, OutsideStep

\* A killed call leaves what it has written; what it knew is gone.
LEMMA CrashInv ==
    ASSUME IInv, TypeOK', BusyHasRequest', NEW p \in Procs, Crash(p)
    PROVE  IInv'
  <1>1. /\ pc'[p] = "idle" /\ lost' = lost \cup {req[p]}
        /\ lock' = IF lock = p THEN NoProc ELSE lock
        /\ UNCHANGED <<storeVars, answers, nextAtt>>
    BY DEF Crash, Idle, IInv, TypeOK
  <1>2. OthersStand(p)
    BY GotoStands DEF Crash, IInv
  <1>3. CallInv(p)'
    BY <1>1, StoreAssumption DEF IInv, CallInv, Locked
  <1>4. DistinctAttempts'
    BY <1>1, <1>2, DistinctHolds
  <1>5. Owns(p) /\ LeavesTruth(p)
    BY <1>1 DEF Acknowledging, Owns, LeavesTruth
  <1>6. AttemptsGrow /\ LockStands(p) /\ HistoryGrows /\ NewAnswersTrue
    BY <1>1, StoreAssumption
    DEF AttemptsGrow, LockStands, HistoryGrows, NewAnswersTrue
  <1>7. UNCHANGED storeVars
    BY <1>1
  <1> QED
    BY <1>2, <1>3, <1>4, <1>5, <1>6, <1>7, OutsideStep

-----------------------------------------------------------------------------
(* Theorems                                                                *)

\* The store is empty and nobody has called at the start.
LEMMA InvInit == Init => IInv
  <1> SUFFICES ASSUME Init PROVE IInv
    OBVIOUS
  <1>1. TypeOK
    BY TypeInit
  <1>2. Committed = {}
    BY DEF Init, Committed
  <1>3. StoreInv
    BY <1>2, StoreAssumption DEF Init, StoreInv, ReadableChains, KeyOnce
  <1>4. \A p \in Procs : CallInv(p)
    BY StoreAssumption DEF Init, CallInv, Locked
  <1>5. BusyHasRequest /\ DistinctAttempts
    BY DEF Init, BusyHasRequest, DistinctAttempts
  <1>6. AnswerInv /\ OwnedUp /\ ProjectionIsCommitted
    BY <1>2 DEF Init, AnswerInv, OwnedUp, ProjectionIsCommitted
  <1> QED
    BY <1>1, <1>3, <1>4, <1>5, <1>6 DEF IInv

\* Every step keeps the invariant.
LEMMA InvNext == IInv /\ [Next]_vars => IInv'
  <1> SUFFICES ASSUME IInv, [Next]_vars PROVE IInv'
    OBVIOUS
  <1>1. TypeOK' /\ BusyHasRequest'
    BY TypeNext, BusyNext DEF IInv
  <1>2. CASE UNCHANGED vars
    <2>1. /\ UNCHANGED storeVars /\ lock' = lock /\ pc' = pc /\ req' = req
          /\ att' = att /\ cand' = cand /\ ans' = ans
          /\ answers' = answers /\ lost' = lost /\ nextAtt' = nextAtt
      BY <1>2 DEF vars, callVars, histVars
    <2>2. dirs' = dirs /\ Committed' = Committed /\ Tails' = Tails
      BY <2>1, SameStore DEF IInv
    <2>3. StoreInv' /\ ProjectionIsCommitted'
      BY <2>1, SameStore DEF IInv
    <2>4. \A p \in Procs : CallInv(p)'
      BY <2>1, <2>2
      DEF IInv, CallInv, Locked, Unused, Unclaimed, Follows
    <2>5. AnswerInv'
      BY <2>1, <2>2 DEF IInv, AnswerInv, TrueAnswer
    <2>6. OwnedUp'
      BY <2>1, <2>2 DEF IInv, OwnedUp, Acknowledging
    <2>7. DistinctAttempts'
      BY <2>1 DEF IInv, DistinctAttempts
    <2> QED
      BY <1>1, <2>3, <2>4, <2>5, <2>6, <2>7 DEF IInv
  <1>3. ASSUME NEW p \in Procs, Step(p) PROVE IInv'
    BY <1>1, <1>3, RefuseOutsideInv, AcquireInv, ScanInv, CommitStepInv,
       ReleaseInv, ReplyInv DEF Step
  <1>4. ASSUME NEW p \in Procs, NEW r \in Requests, Start(p, r) PROVE IInv'
    BY <1>1, <1>4, StartInv
  <1>5. ASSUME NEW p \in Procs, Crash(p) PROVE IInv'
    BY <1>1, <1>5, CrashInv
  <1> QED
    BY <1>2, <1>3, <1>4, <1>5 DEF Next, Quiescent

\* The inductive invariant holds in every behaviour.
THEOREM Invariance == Spec => []IInv
  BY InvInit, InvNext, PTL DEF Spec

\* No crash, fault or interleaving leaves a chain the reader would reject.
THEOREM ChainsReadable == Spec => []ReadableChains
  <1>1. IInv => ReadableChains
    BY DEF IInv, StoreInv
  <1> QED
    BY Invariance, <1>1, PTL

\* One idempotency identity never has two version directories.
THEOREM OneVersionPerKey == Spec => []KeyOnce
  <1>1. IInv => KeyOnce
    BY DEF IInv, StoreInv
  <1> QED
    BY Invariance, <1>1, PTL

\* Receipts name committed versions, and one identity has one receipt.
THEOREM ReceiptsAreTrue == Spec => []ReceiptsHonoured
  <1>1. IInv => ReceiptsHonoured
    <2> SUFFICES ASSUME IInv, NEW a \in answers, a.state = "committed"
                 PROVE  /\ \E d \in Committed :
                               /\ d.req = a.req /\ d.item = a.item
                               /\ d.ver = a.ver /\ d.eid = a.eid
                        /\ \A b \in answers :
                              (/\ b.state = "committed"
                               /\ SameIdentity(a.req, b.req)) =>
                                  /\ a.item = b.item /\ a.ver = b.ver
                                  /\ a.eid = b.eid /\ a.req = b.req
      BY DEF ReceiptsHonoured
    <2>1. \A b \in answers : b.state = "committed" =>
              \E d \in Committed : /\ d.req = b.req /\ d.item = b.item
                                   /\ d.ver = b.ver /\ d.eid = b.eid
      BY DEF IInv, AnswerInv, TrueAnswer
    <2>2. \A d, e \in Committed : SameIdentity(d.req, e.req) => d = e
      BY DEF IInv, StoreInv, KeyOnce, Committed
    <2> QED
      BY <2>1, <2>2
  <1> QED
    BY Invariance, <1>1, PTL

\* A request told of an idempotency conflict is never in the store.
THEOREM ConflictsTrue == Spec => []ConflictsAreForeign
  <1>1. IInv => ConflictsAreForeign
    <2> SUFFICES ASSUME IInv, NEW a \in answers,
                        a.code = "idempotency_conflict",
                        NEW d \in dirs, d.req = a.req
                 PROVE  FALSE
      BY DEF ConflictsAreForeign
    <2>1. PICK e \in dirs : SameIdentity(e.req, a.req) /\ e.req # a.req
      BY DEF IInv, AnswerInv, TrueAnswer
    <2>2. e = d
      BY <2>1 DEF IInv, StoreInv, KeyOnce
    <2> QED
      BY <2>1, <2>2
  <1> QED
    BY Invariance, <1>1, PTL

\* If every call of a request was answered not-committed, it is not committed.
THEOREM CommitsOwned == Spec => []CommitsAreOwnedUp
  <1>1. IInv => CommitsAreOwnedUp
    BY DEF IInv, OwnedUp, Acknowledging, CommitsAreOwnedUp
  <1> QED
    BY Invariance, <1>1, PTL

\* capture.yaml never shows a version that is not committed.
THEOREM ProjectionCommitted == Spec => []ProjectionIsCommitted
  <1>1. IInv => ProjectionIsCommitted
    BY DEF IInv
  <1> QED
    BY Invariance, <1>1, PTL

\* Only the projection steps of a call touch capture.yaml.
LEMMA ProjectionWrites ==
    ASSUME [Next]_vars
    PROVE  \/ proj' = proj
           \/ \E p \in Procs : Project(p) \/ ProjectFails(p)
  <1>1. CASE UNCHANGED vars
    BY <1>1 DEF vars, storeVars
  <1>2. ASSUME NEW p \in Procs, NEW r \in Requests, Start(p, r)
        PROVE  proj' = proj
    BY <1>2 DEF Start, storeVars
  <1>3. ASSUME NEW p \in Procs, Crash(p) PROVE proj' = proj
    BY <1>3 DEF Crash, storeVars
  <1>4. ASSUME NEW p \in Procs, Scan(p) PROVE proj' = proj
    BY <1>4
    DEF Scan, LockedPreflightFails, ScanFails, ScanConflict, ReplayCapture,
        ReplayAppend, ReplayAppendFails, PlanCapture, AppendNotFound,
        VersionConflict, ForeignTail, AdoptTail, PlanAppend, storeVars
  <1>5. ASSUME NEW p \in Procs, CommitStep(p)
        PROVE  proj' = proj \/ Project(p) \/ ProjectFails(p)
    BY <1>5
    DEF CommitStep, CandidateFails, ItemTargetUnprovable, CommitItem,
        ItemRenameRaises, RenameVersion, VersionRenameRaises,
        StageAdoptedEvent, EventPreflightFails, RenameEvent,
        EventRenameRaises, PlaceItem, PlaceVersion, PlaceEvent, Readback,
        ReadbackFails, storeVars
  <1>6. ASSUME NEW p \in Procs,
               \/ RefusedBeforeLock(p) \/ LockTimeout(p) \/ Acquire(p)
               \/ Release(p) \/ Reply(p)
        PROVE  proj' = proj
    BY <1>6
    DEF RefusedBeforeLock, LockTimeout, Acquire, Release, Reply, storeVars
  <1> QED
    BY <1>1, <1>2, <1>3, <1>4, <1>5, <1>6 DEF Next, Step, Quiescent

\* No call, however delayed, makes capture.yaml show an older version again:
\* what a call projects is the newest committed version of its item.
THEOREM ProjectionAdvances == Spec => ProjectionNeverRegresses
  <1>1. ASSUME IInv, [Next]_vars, NEW i \in Attempts
        PROVE  proj'[i] >= proj[i]
    <2>1. proj[i] \in Nat
      BY <1>1 DEF IInv, TypeOK
    <2>2. CASE proj' = proj
      BY <2>1, <2>2
    <2>3. ASSUME NEW p \in Procs, Project(p) \/ ProjectFails(p)
          PROVE  proj'[i] >= proj[i]
      <3>1. /\ pc[p] = "project"
            /\ \/ proj' = proj
               \/ proj' = [proj EXCEPT ![cand[p].item] = cand[p].ver]
        BY <2>3 DEF Project, ProjectFails
      <3>2. Newest(cand[p], Committed)
        BY <1>1, <3>1 DEF IInv, CallInv
      <3>3. CASE i = cand[p].item /\ proj[i] > 0
        <4>1. PICK d \in Committed : d.item = i /\ d.ver = proj[i]
          BY <1>1, <3>3 DEF IInv, ProjectionIsCommitted
        <4>2. d.ver <= cand[p].ver
          BY <3>2, <3>3, <4>1 DEF Newest
        <4>3. proj'[i] \in {proj[i], cand[p].ver}
          BY <1>1, <3>1, <3>3 DEF IInv, TypeOK
        <4> QED
          BY <2>1, <4>1, <4>2, <4>3
      <3>4. CASE i = cand[p].item /\ proj[i] = 0
        <4>1. proj'[i] \in {proj[i], cand[p].ver} /\ cand[p].ver \in Nat
          BY <1>1, <3>1, <3>4 DEF IInv, TypeOK, Version
        <4> QED
          BY <2>1, <3>4, <4>1
      <3>5. CASE i # cand[p].item
        BY <1>1, <2>1, <3>1, <3>5 DEF IInv, TypeOK
      <3> QED
        BY <2>1, <3>3, <3>4, <3>5
    <2> QED
      BY <1>1, <2>2, <2>3, ProjectionWrites
  <1>2. IInv /\ [Next]_vars => [\A i \in Attempts : proj'[i] >= proj[i]]_vars
    BY <1>1
  <1> QED
    BY Invariance, <1>2, PTL DEF Spec, ProjectionNeverRegresses

-----------------------------------------------------------------------------
(* What a refusal proves                                                   *)

\* The codes of the refusals that follow a whole scan.
Proving == {"idempotency_conflict", "version_conflict", "capture_not_found",
            "atomic_commit_failed"}

\* Nothing is committed for r, but by another attempt without key.
Unsaved(r, n) == \A d \in Committed : d.req = r => r.key = NoKey /\ d.eid # n

\* p settles, or has settled, a refusal that proves something.
Refuses(p) == /\ pc[p] = "unlock"
              /\ ans[p].state = "not-committed" /\ ans[p].code \in Proving

\* The scan that finds nothing, and the one that finds a foreign claim, prove
\* the request unsaved.
LEMMA ScanProves ==
    ASSUME IInv, NEW p \in Procs, pc[p] = "scan", Miss(req[p]) \/ Conflict(req[p])
    PROVE  Unsaved(req[p], att[p])
  <1>1. CallInv(p) /\ KeyOnce /\ Committed \subseteq dirs
    BY DEF IInv, StoreInv, Committed
  <1>2. Unused(att[p])
    BY <1>1 DEF CallInv
  <1> SUFFICES ASSUME NEW d \in Committed, d.req = req[p]
               PROVE  req[p].key = NoKey /\ d.eid # att[p]
    BY DEF Unsaved
  <1>3. d.eid # att[p]
    BY <1>1, <1>2 DEF Unused
  <1>4. ASSUME req[p].key # NoKey
        PROVE  FALSE
    <2>1. SameIdentity(d.req, req[p])
      BY <1>4 DEF SameIdentity
    <2>2. CASE Miss(req[p])
      BY <2>1, <2>2 DEF Miss, Matches
    <2>3. CASE Conflict(req[p])
      <3>1. PICK e \in dirs : SameIdentity(e.req, req[p]) /\ e.req # req[p]
        BY <2>3 DEF Conflict
      <3>2. SameIdentity(e.req, d.req)
        BY <3>1 DEF SameIdentity
      <3> QED
        BY <1>1, <3>1, <3>2 DEF KeyOnce
    <2> QED
      BY <2>2, <2>3
  <1> QED
    BY <1>3, <1>4

\* A candidate that is not committed proves its request unsaved.
LEMMA CandidateProves ==
    ASSUME IInv, NEW p \in Procs, pc[p] \in {"item", "version", "adopt", "event"}
    PROVE  Unsaved(req[p], att[p])
  <1>1. /\ CallInv(p) /\ KeyOnce /\ Committed \subseteq dirs
        /\ req[p] \in Requests
    BY DEF IInv, StoreInv, Committed, BusyHasRequest
  <1> SUFFICES ASSUME NEW d \in Committed, d.req = req[p]
               PROVE  req[p].key = NoKey /\ d.eid # att[p]
    BY DEF Unsaved
  <1>2. CASE pc[p] \in {"item", "version"}
    <2>1. Unused(att[p]) /\ Unclaimed(req[p])
      BY <1>1, <1>2 DEF CallInv
    <2>2. req[p].key # NoKey => SameIdentity(d.req, req[p])
      BY DEF SameIdentity
    <2> QED
      BY <1>1, <2>1, <2>2 DEF Unused, Unclaimed
  <1>3. CASE pc[p] \in {"adopt", "event"}
    <2>1. /\ IsAppend(req[p]) /\ cand[p] \in Tails /\ cand[p].req = req[p]
      BY <1>1, <1>3 DEF CallInv
    <2>2. SameIdentity(d.req, cand[p].req)
      BY <1>1, <2>1, RequestNumbers DEF SameIdentity
    <2> QED
      BY <1>1, <2>1, <2>2 DEF KeyOnce, Tails
  <1> QED
    BY <1>2, <1>3

\* An answer that is given under the lock and proves something is given before
\* anything of the request is committed.
LEMMA SettlesUnsaved ==
    ASSUME IInv, NEW p \in Procs, Scan(p) \/ CommitStep(p), Refuses(p)'
    PROVE  Unsaved(req[p], att[p])'
  <1>1. TypeOK
    BY DEF IInv
  <1>2. ASSUME NEW a, Finish(p, a), UNCHANGED storeVars,
               \/ pc[p] = "scan" /\ (Miss(req[p]) \/ Conflict(req[p]))
               \/ pc[p] \in {"item", "version", "adopt", "event"}
        PROVE  Unsaved(req[p], att[p])'
    <2>1. Unsaved(req[p], att[p])
      BY <1>2, ScanProves, CandidateProves
    <2>2. Committed' = Committed /\ req' = req /\ att' = att
      BY <1>2, SameStore DEF Finish
    <2> QED
      BY <2>1, <2>2 DEF Unsaved
  <1>3. ASSUME NEW a, Finish(p, a)
        PROVE  ans'[p] = a
    BY <1>1, <1>3 DEF Finish, TypeOK
  <1>4. ASSUME NEW state \in States, NEW code \in Codes, Finish(p, Refusal(state, code))
        PROVE  state = "not-committed" /\ code \in Proving
    BY <1>3, <1>4, RefusalType DEF Refuses
  <1>5. CASE Scan(p)
    <2>1. pc[p] = "scan" /\ UNCHANGED storeVars
      BY <1>5 DEF Scan, LockedPreflightFails, ScanFails,
         ScanConflict, ReplayCapture, ReplayAppend, ReplayAppendFails,
         PlanCapture, AppendNotFound, VersionConflict, ForeignTail, AdoptTail,
         PlanAppend, MayAppend
    <2>2. CASE LockedPreflightFails(p) \/ ScanFails(p)
      <3>1. PICK code \in {"integrity_check_failed", "capture_store_unavailable"},
                 state \in {"not-committed", "unknown"} :
               Finish(p, Refusal(state, code))
        BY <2>2 DEF LockedPreflightFails, ScanFails
      <3> QED
        BY <1>4, <3>1 DEF Proving, States, Codes
    <2>3. CASE ScanConflict(p)
      BY <1>2, <2>1, <2>3 DEF ScanConflict
    <2>4. CASE ReplayCapture(p) \/ ReplayAppend(p)
      <3>1. PICK d \in Matches(req[p]), w \in SUBSET Warnings :
               Finish(p, Success(d, "replayed", w))
        BY <2>4 DEF ReplayCapture, ReplayAppend, Warnings
      <3>2. d \in Version
        BY <1>1 DEF TypeOK, Matches, Committed
      <3> QED
        BY <1>3, <3>1, <3>2, SuccessType DEF Refuses, Codes
    <2>5. CASE ReplayAppendFails(p)
      <3>1. PICK code \in {"integrity_check_failed", "atomic_commit_failed"} :
               Finish(p, Refusal("unknown", code))
        BY <2>5 DEF ReplayAppendFails
      <3> QED
        BY <1>4, <3>1 DEF States, Codes
    <2>6. CASE AppendNotFound(p) \/ VersionConflict(p) \/ ForeignTail(p)
      BY <1>2, <2>1, <2>6 DEF AppendNotFound, VersionConflict, ForeignTail, MayAppend
    <2>7. CASE PlanCapture(p) \/ AdoptTail(p) \/ PlanAppend(p)
      <3>1. \E d, s : Aim(p, d, s) /\ s \in {"item", "adopt", "version"}
        BY <2>7 DEF PlanCapture, AdoptTail, PlanAppend
      <3> QED
        BY <1>1, <3>1 DEF Aim, TypeOK, Refuses
    <2> QED
      BY <1>5, <2>2, <2>3, <2>4, <2>5, <2>6, <2>7 DEF Scan
  <1>6. ASSUME NEW s \in Steps, Goto(p, s), s # "unlock"
        PROVE  FALSE
    BY <1>1, <1>6 DEF Goto, TypeOK, Refuses
  <1>7. CASE CommitStep(p)
    <2>1. CASE CandidateFails(p) \/ ItemTargetUnprovable(p) \/ EventPreflightFails(p)
      <3>1. PICK a : Finish(p, a)
        BY <2>1 DEF CandidateFails, ItemTargetUnprovable, EventPreflightFails
      <3> QED
        BY <1>2, <2>1, <3>1
        DEF CandidateFails, ItemTargetUnprovable, EventPreflightFails
    <2>2. CASE \/ CommitItem(p) \/ RenameVersion(p) \/ StageAdoptedEvent(p)
               \/ RenameEvent(p) \/ Readback(p)
      BY <1>6, <2>2
      DEF CommitItem, RenameVersion, StageAdoptedEvent, RenameEvent, Readback, Steps, Locked
    <2>3. CASE ItemRenameRaises(p)
      <3>0. PICK moved \in BOOLEAN :
               /\ IF moved THEN PlaceItem(p) ELSE UNCHANGED storeVars
               /\ \E s \in Probe(~moved), t \in Probe(moved) :
                     IF ItemVerdict(s, t) = "committed" THEN Goto(p, "readback")
                     ELSE Finish(p, Refusal(ItemVerdict(s, t), "atomic_commit_failed"))
        BY <2>3 DEF ItemRenameRaises
      <3>1. PICK s \in Probe(~moved), t \in Probe(moved) :
               /\ IF moved THEN PlaceItem(p) ELSE UNCHANGED storeVars
               /\ IF ItemVerdict(s, t) = "committed" THEN Goto(p, "readback")
                  ELSE Finish(p, Refusal(ItemVerdict(s, t), "atomic_commit_failed"))
        BY <3>0
      <3>2. ItemVerdict(s, t) \in States /\ "atomic_commit_failed" \in Codes
        BY VerdictType DEF Codes
      <3>3. Finish(p, Refusal(ItemVerdict(s, t), "atomic_commit_failed"))
        BY <1>6, <3>1 DEF Steps, Locked
      <3>4. ItemVerdict(s, t) = "not-committed"
        BY <1>4, <3>2, <3>3
      <3>5. ~moved
        BY <3>1, <3>4 DEF ItemVerdict, Probe
      <3> QED
        BY <1>2, <2>3, <3>1, <3>3, <3>5 DEF ItemRenameRaises
    <2>4. CASE VersionRenameRaises(p)
      <3>1. PICK a : Finish(p, a)
        BY <2>4 DEF VersionRenameRaises
      <3>2. pc[p] = "version" /\ nextAtt' = nextAtt
        BY <2>4 DEF VersionRenameRaises, histVars
      <3>3. CASE UNCHANGED storeVars
        BY <1>2, <3>1, <3>2, <3>3
      <3>4. CASE PlaceVersion(p)
        <4>1. Committed' = Committed
          BY <3>2, <3>4, PlaceVersionLemma
        <4>2. Unsaved(req[p], att[p])
          BY <3>2, CandidateProves
        <4> QED
          BY <3>1, <4>1, <4>2 DEF Unsaved, Finish
      <3> QED
        BY <2>4, <3>3, <3>4 DEF VersionRenameRaises
    <2>5. CASE EventRenameRaises(p)
      <3>0. PICK moved \in BOOLEAN :
               /\ IF moved THEN PlaceEvent(p) ELSE UNCHANGED storeVars
               /\ \E s \in Probe(~moved), t \in Probe(moved), b \in BOOLEAN :
                     IF EventVerdict(TRUE, s, t, b) = "committed" THEN Goto(p, "readback")
                     ELSE Finish(p, Refusal(EventVerdict(TRUE, s, t, b), "atomic_commit_failed"))
        BY <2>5 DEF EventRenameRaises
      <3>1. PICK s \in Probe(~moved), t \in Probe(moved), b \in BOOLEAN :
               /\ IF moved THEN PlaceEvent(p) ELSE UNCHANGED storeVars
               /\ IF EventVerdict(TRUE, s, t, b) = "committed" THEN Goto(p, "readback")
                  ELSE Finish(p, Refusal(EventVerdict(TRUE, s, t, b), "atomic_commit_failed"))
        BY <3>0
      <3>2. EventVerdict(TRUE, s, t, b) \in States /\ "atomic_commit_failed" \in Codes
        BY VerdictType DEF Codes
      <3>3. Finish(p, Refusal(EventVerdict(TRUE, s, t, b), "atomic_commit_failed"))
        BY <1>6, <3>1 DEF Steps, Locked
      <3>4. EventVerdict(TRUE, s, t, b) = "not-committed"
        BY <1>4, <3>2, <3>3
      <3>5. ~moved
        BY <3>1, <3>4 DEF EventVerdict, Probe
      <3> QED
        BY <1>2, <2>5, <3>1, <3>3, <3>5 DEF EventRenameRaises
    <2>6. CASE ReadbackFails(p)
      <3>1. PICK code \in {"integrity_check_failed", "atomic_commit_failed"} :
               Finish(p, Refusal("unknown", code))
        BY <2>6 DEF ReadbackFails
      <3> QED
        BY <1>4, <3>1 DEF States, Codes
    <2>7. CASE Project(p) \/ ProjectFails(p)
      <3>1. PICK w \in SUBSET Warnings : Finish(p, Success(cand[p], "saved", w))
        BY <2>7 DEF Project, ProjectFails, Warnings
      <3>2. cand[p] \in Version
        BY <1>1 DEF TypeOK
      <3> QED
        BY <1>3, <3>1, <3>2, SuccessType DEF Refuses, Codes
    <2> QED
      BY <1>7, <2>1, <2>2, <2>3, <2>4, <2>5, <2>6, <2>7 DEF CommitStep
  <1> QED
    BY <1>5, <1>7

\* A step under the lock moves the program counter of one process.
LEMMA LockedMoves ==
    ASSUME IInv, NEW p \in Procs, Scan(p) \/ CommitStep(p)
    PROVE  pc[p] \in Locked /\ OthersStand(p)
  <1>1. /\ \/ \E s : Goto(p, s)
           \/ \E a : Finish(p, a)
           \/ \E d, s : Aim(p, d, s)
        /\ pc[p] \in Locked
    <2>1. CASE Scan(p)
      BY <2>1
      DEF Scan, LockedPreflightFails, ScanFails, ScanConflict, ReplayCapture,
          ReplayAppend, ReplayAppendFails, PlanCapture, AppendNotFound,
          VersionConflict, ForeignTail, AdoptTail, PlanAppend, MayAppend, Locked
    <2>2. CASE CommitStep(p)
      BY <2>2
      DEF CommitStep, CandidateFails, ItemTargetUnprovable, CommitItem,
          ItemRenameRaises, RenameVersion, VersionRenameRaises,
          StageAdoptedEvent, EventPreflightFails, RenameEvent,
          EventRenameRaises, Readback, ReadbackFails, Project, ProjectFails, Locked
    <2> QED
      BY <2>1, <2>2
  <1> QED
    BY <1>1, GotoStands DEF IInv

\* Whose answer is settled holds the lock, and nobody changes the store.
LEMMA RefusalNext ==
    ASSUME IInv, RefusalAfterScan, [Next]_vars
    PROVE  RefusalAfterScan'
  <1> SUFFICES ASSUME NEW q \in Procs, Refuses(q)'
               PROVE  Unsaved(req[q], att[q])'
    BY DEF RefusalAfterScan, Refuses, Unsaved, Proving
  <1>1. Refuses(q) => Unsaved(req[q], att[q])
    BY DEF RefusalAfterScan, Refuses, Unsaved, Proving
  <1>2. CASE UNCHANGED vars
    <2>1. UNCHANGED storeVars /\ pc' = pc /\ req' = req /\ att' = att /\ ans' = ans
      BY <1>2 DEF vars, callVars
    <2>2. Committed' = Committed
      BY <2>1, SameStore
    <2> QED
      BY <1>1, <2>1, <2>2 DEF Refuses, Unsaved
  <1>3. ASSUME NEW p \in Procs, Scan(p) \/ CommitStep(p)
        PROVE  Unsaved(req[q], att[q])'
    <2>1. CASE p = q
      BY <1>3, <2>1, SettlesUnsaved
    <2>2. CASE p # q
      <3>1. OthersStand(p) /\ pc[p] \in Locked
        BY <1>3, LockedMoves
      <3>2. pc[q] \in Locked
        BY <2>2, <3>1 DEF Refuses, OthersStand, Locked
      <3> QED
        BY <2>2, <3>1, <3>2 DEF IInv, CallInv
    <2> QED
      BY <2>1, <2>2
  <1>4. ASSUME NEW p \in Procs, UNCHANGED storeVars, OthersStand(p), pc'[p] # "unlock"
        PROVE  Unsaved(req[q], att[q])'
    <2>1. /\ q # p /\ pc'[q] = pc[q] /\ req'[q] = req[q]
          /\ att'[q] = att[q] /\ ans'[q] = ans[q]
      BY <1>4 DEF Refuses, OthersStand
    <2>2. Committed' = Committed
      BY <1>4, SameStore
    <2> QED
      BY <1>1, <2>1, <2>2 DEF Refuses, Unsaved
  <1>5. ASSUME NEW p \in Procs,
               \/ \E r \in Requests : Start(p, r)
               \/ RefusedBeforeLock(p) \/ LockTimeout(p) \/ Acquire(p)
               \/ Release(p) \/ Reply(p) \/ Crash(p)
        PROVE  Unsaved(req[q], att[q])'
    <2>1. UNCHANGED storeVars
      BY <1>5 DEF Start, RefusedBeforeLock, LockTimeout, Acquire, Release, Reply, Crash
    <2>2. OthersStand(p) /\ pc'[p] # "unlock"
      BY <1>5 DEF Start, RefusedBeforeLock, LockTimeout, Acquire, Release, Reply, Crash,
         Goto, Idle, OthersStand, IInv, TypeOK
    <2> QED
      BY <1>4, <2>1, <2>2
  <1> QED
    BY <1>2, <1>3, <1>5 DEF Next, Step, Quiescent

\* Once the scan is over, a settled "not-committed" is a proof that nothing of
\* the request is committed.
THEOREM RefusalsProve == Spec => []RefusalAfterScan
  <1>1. Init => RefusalAfterScan
    BY DEF Init, RefusalAfterScan
  <1>2. IInv /\ RefusalAfterScan /\ [Next]_vars => RefusalAfterScan'
    BY RefusalNext
  <1> QED
    BY <1>1, <1>2, Invariance, PTL DEF Spec

-----------------------------------------------------------------------------
(* The Capture Store implements the version log: seen through its          *)
(* committed versions and the answers it gave, every step of the detailed  *)
(* specification is a commit, an answer or nothing.                        *)


\* The numbers of answered calls are not those of calls under way.
AnsweredOnce ==
    /\ \A a \in answers : a.att \in Nat /\ a.att < nextAtt
    /\ \A a \in answers, p \in Procs : pc[p] # "idle" => a.att # att[p]

-----------------------------------------------------------------------------
(* Steps that neither start nor answer a call                              *)

\* A scan writes nothing.
LEMMA ScanKeeps ==
    ASSUME NEW p \in Procs, Scan(p)
    PROVE  /\ pc[p] = "scan" /\ att' = att
           /\ UNCHANGED <<dirs, events, answers, nextAtt>>
  <1>1. CASE \/ LockedPreflightFails(p) \/ ScanFails(p) \/ ScanConflict(p)
             \/ ReplayCapture(p) \/ AppendNotFound(p)
    BY <1>1
    DEF LockedPreflightFails, ScanFails, ScanConflict, ReplayCapture,
        AppendNotFound, Finish, storeVars, histVars
  <1>2. CASE \/ ReplayAppendFails(p) \/ VersionConflict(p)
             \/ ForeignTail(p)
    BY <1>2
    DEF ReplayAppendFails, VersionConflict, ForeignTail, MayAppend, Finish,
        storeVars, histVars
  <1>3. CASE ReplayAppend(p)
    <2>1. /\ pc[p] = "scan" /\ UNCHANGED <<storeVars, histVars>>
          /\ \E a : Finish(p, a)
      BY <1>3 DEF ReplayAppend
    <2> QED
      BY <2>1 DEF Finish, storeVars, histVars
  <1>4. CASE PlanCapture(p) \/ AdoptTail(p) \/ PlanAppend(p)
    BY <1>4
    DEF PlanCapture, AdoptTail, PlanAppend, MayAppend, Aim, storeVars,
        histVars
  <1> QED
    BY <1>1, <1>2, <1>3, <1>4 DEF Scan

\* No step of a commit answers or draws a number.
LEMMA CommitStepKeeps ==
    ASSUME NEW p \in Procs, CommitStep(p)
    PROVE  pc[p] # "idle" /\ att' = att /\ UNCHANGED <<answers, nextAtt>>
  <1>1. CASE \/ CandidateFails(p) \/ ItemTargetUnprovable(p)
             \/ CommitItem(p) \/ RenameVersion(p) \/ StageAdoptedEvent(p)
             \/ EventPreflightFails(p) \/ RenameEvent(p) \/ Readback(p)
             \/ ReadbackFails(p) \/ Project(p) \/ ProjectFails(p)
             \/ VersionRenameRaises(p)
    BY <1>1
    DEF CandidateFails, ItemTargetUnprovable, CommitItem, RenameVersion,
        StageAdoptedEvent, EventPreflightFails, RenameEvent, Readback,
        ReadbackFails, Project, ProjectFails, VersionRenameRaises, Goto,
        Finish, histVars
  <1>2. CASE ItemRenameRaises(p) \/ EventRenameRaises(p)
    BY <1>2 DEF ItemRenameRaises, EventRenameRaises, Goto, Finish, histVars
  <1> QED
    BY <1>1, <1>2 DEF CommitStep

\* A step of a call under way that does not answer it.
LEMMA StepKeeps ==
    ASSUME IInv, NEW p \in Procs, Step(p), ~Reply(p)
    PROVE  /\ att' = att /\ UNCHANGED <<answers, nextAtt>>
           /\ \A q \in Procs : pc'[q] # "idle" => pc[q] # "idle"
  <1>1. /\ pc[p] # "idle" /\ att' = att
        /\ UNCHANGED <<answers, nextAtt>>
    BY ScanKeeps, CommitStepKeeps
    DEF Step, RefusedBeforeLock, LockTimeout, Acquire, Release, Goto,
        histVars
  <1> QED
    <2>1. \A q \in Procs \ {p} : pc'[q] = pc[q]
      <3>1. CASE Scan(p)
        BY <3>1
        DEF Scan, LockedPreflightFails, ScanFails, ScanConflict,
            ReplayCapture, ReplayAppend, ReplayAppendFails, PlanCapture,
            AppendNotFound, VersionConflict, ForeignTail, AdoptTail,
            PlanAppend, Finish, Aim, IInv, TypeOK
      <3>2. CASE CommitStep(p)
        BY <3>2
        DEF CommitStep, CandidateFails, ItemTargetUnprovable, CommitItem,
            RenameVersion, StageAdoptedEvent, EventPreflightFails,
            RenameEvent, Readback, ReadbackFails, Project, ProjectFails,
            VersionRenameRaises, ItemRenameRaises, EventRenameRaises, Goto,
            Finish, IInv, TypeOK
      <3>3. CASE \/ RefusedBeforeLock(p) \/ LockTimeout(p) \/ Acquire(p)
                 \/ Release(p)
        BY <3>3 DEF RefusedBeforeLock, LockTimeout, Acquire, Release, Goto,
                    IInv, TypeOK
      <3> QED
        BY <3>1, <3>2, <3>3 DEF Step
    <2> QED
      BY <1>1, <2>1

\* Every step keeps answers and running calls apart.
LEMMA AnsweredOnceNext ==
    ASSUME IInv, AnsweredOnce, [Next]_vars
    PROVE  AnsweredOnce'
  <1>1. CASE UNCHANGED vars
    BY <1>1 DEF vars, callVars, histVars, AnsweredOnce
  <1>2. ASSUME NEW p \in Procs, NEW r \in Requests, Start(p, r)
        PROVE  AnsweredOnce'
    <2>1. /\ answers' = answers /\ nextAtt' = nextAtt + 1 /\ nextAtt \in Nat
          /\ att'[p] = nextAtt
          /\ \A q \in Procs \ {p} : att'[q] = att[q] /\ pc'[q] = pc[q]
      BY <1>2 DEF Start, IInv, TypeOK
    <2> QED
      BY <2>1 DEF AnsweredOnce
  <1>3. ASSUME NEW p \in Procs, Crash(p) PROVE AnsweredOnce'
    <2>1. /\ answers' = answers /\ nextAtt' = nextAtt /\ pc'[p] = "idle"
          /\ \A q \in Procs \ {p} : att'[q] = att[q] /\ pc'[q] = pc[q]
      BY <1>3 DEF Crash, Idle, IInv, TypeOK
    <2> QED
      BY <2>1 DEF AnsweredOnce
  <1>4. ASSUME NEW p \in Procs, Reply(p) PROVE AnsweredOnce'
    <2>1. /\ nextAtt' = nextAtt /\ pc[p] = "cleanup" /\ pc'[p] = "idle"
          /\ \A q \in Procs \ {p} : att'[q] = att[q] /\ pc'[q] = pc[q]
          /\ \A a \in answers' : a \in answers \/ a.att = att[p]
      BY <1>4 DEF Reply, Idle, IInv, TypeOK
    <2>2. att[p] \in Nat /\ att[p] < nextAtt
      BY <2>1 DEF IInv, TypeOK, CallInv
    <2>3. \A q \in Procs \ {p} : pc[q] # "idle" => att[q] # att[p]
      BY <2>1 DEF IInv, DistinctAttempts
    <2> QED
      BY <2>1, <2>2, <2>3 DEF AnsweredOnce
  <1>5. ASSUME NEW p \in Procs, Step(p), ~Reply(p) PROVE AnsweredOnce'
    BY <1>5, StepKeeps DEF AnsweredOnce
  <1> QED
    BY <1>1, <1>2, <1>3, <1>4, <1>5 DEF Next, Quiescent

-----------------------------------------------------------------------------
(* What each kind of step is at the level of the log                       *)

\* A step that leaves the versions alone and answers nobody.
LEMMA Stutter ==
    ASSUME Committed' = Committed, answers' = answers
    PROVE  [Log!LogNext]_(Log!logVars)
  BY DEF Log!logVars

\* Placing a whole item, or the event of a version, commits the candidate.
LEMMA LogCommit ==
    ASSUME IInv, NEW p \in Procs, answers' = answers,
           Committed' = Committed \cup {cand[p]},
           \/ pc[p] = "item"
           \/ pc[p] = "event"
    PROVE  [Log!LogNext]_(Log!logVars)
  <1> DEFINE c == cand[p]
  <1>1. CallInv(p) /\ StoreInv /\ req[p] \in Requests
    BY DEF IInv, BusyHasRequest
  <1>2. c.req = req[p]
    BY <1>1 DEF CallInv
  <1>3. CASE pc[p] = "item"
    <2>1. /\ c.item = att[p] /\ c.ver = 1 /\ c.eid = att[p]
          /\ IsCapture(req[p]) /\ Unclaimed(req[p]) /\ Unused(att[p])
      BY <1>1, <1>3 DEF CallInv
    <2>2. \A d \in Committed : d.eid # c.eid /\ d.item # c.item
      BY <2>1 DEF Unused, Committed
    <2>3. \A d \in Committed : ~SameIdentity(d.req, c.req)
      BY <1>2, <2>1 DEF Unclaimed, Committed
    <2>4. Log!Creates(c)
      BY <1>2, <2>1, <2>2 DEF Log!Creates, Log!IsCapture, IsCapture
    <2>5. c \in Committed' \ Committed
      BY <2>2
    <2> QED
      BY <1>1, <1>2, <2>2, <2>3, <2>4, <2>5
      DEF Log!LogNext, Log!Commit, Log!SameIdentity, SameIdentity
  <1>4. CASE pc[p] = "event"
    <2>1. c \in Tails /\ Follows(c) /\ IsAppend(req[p])
      BY <1>1, <1>4 DEF CallInv
    <2>2. c \in dirs /\ c \notin Committed
      BY <2>1 DEF Tails
    <2>3. \A d \in Committed : d.eid # c.eid /\ ~SameIdentity(d.req, c.req)
      BY <1>1, <2>2 DEF StoreInv, KeyOnce, Committed
    <2>4. c.item = c.req.item /\ c.ver = c.req.expected + 1
          /\ c.req.expected \in Nat
      BY <1>1, <1>2, <2>1, <2>2, RequestNumbers DEF StoreInv, WellFounded
    <2>5. PICK d \in Committed : /\ Newest(d, Committed)
                                 /\ d.item = c.item /\ d.ver + 1 = c.ver
      BY <2>1 DEF Follows
    <2>6. d.ver = c.req.expected
      <3>1. d.ver \in Nat
        BY <2>5 DEF IInv, TypeOK, Version, Committed
      <3> QED
        BY <2>4, <2>5, <3>1
    <2>7. Log!Extends(c)
      BY <1>2, <2>1, <2>4, <2>5, <2>6
      DEF Log!Extends, Log!IsAppend, IsAppend, Log!Newest, Newest
    <2>8. c \in Committed' \ Committed
      BY <2>2
    <2> QED
      BY <1>1, <1>2, <2>3, <2>7, <2>8
      DEF Log!LogNext, Log!Commit, Log!SameIdentity, SameIdentity
  <1> QED
    BY <1>3, <1>4

\* Handing out the settled answer.
LEMMA LogAnswer ==
    ASSUME IInv, AnsweredOnce, NEW p \in Procs, Reply(p)
    PROVE  [Log!LogNext]_(Log!logVars)
  <1> DEFINE given == [att |-> att[p], req |-> req[p],
                       state |-> ans[p].state, code |-> ans[p].code,
                       item |-> ans[p].item, ver |-> ans[p].ver,
                       eid |-> ans[p].eid, warn |-> ans[p].warn]
  <1>1. /\ pc[p] = "cleanup" /\ answers' = answers \cup {given}
        /\ UNCHANGED storeVars
    BY DEF Reply
  <1>2. Committed' = Committed
    BY <1>1, SameStore
  <1>3. \A b \in answers : b.att # given.att
    BY <1>1 DEF AnsweredOnce
  <1>4. given.state \in {"committed", "not-committed", "unknown"}
    BY DEF IInv, TypeOK, Receipt, States
  <1>5. given.state = "committed" =>
            \E d \in Committed : /\ d.req = given.req
                                 /\ d.item = given.item
                                 /\ d.ver = given.ver /\ d.eid = given.eid
    BY <1>1 DEF IInv, AnswerInv, TrueAnswer
  <1>6. given \in answers' \ answers
    BY <1>1, <1>3
  <1> HIDE DEF given
  <1> QED
    BY <1>1, <1>2, <1>3, <1>4, <1>5, <1>6 DEF Log!LogNext, Log!Answer

\* The commit steps, by what they do to the committed versions.
LEMMA CommitStepLog ==
    ASSUME IInv, NEW p \in Procs, CommitStep(p)
    PROVE  [Log!LogNext]_(Log!logVars)
  <1>1. answers' = answers /\ nextAtt' = nextAtt
    BY CommitStepKeeps
  <1>2. CASE \/ CandidateFails(p) \/ ItemTargetUnprovable(p)
             \/ StageAdoptedEvent(p) \/ EventPreflightFails(p) \/ Readback(p)
             \/ ReadbackFails(p) \/ Project(p) \/ ProjectFails(p)
    <2>1. dirs' = dirs /\ events' = events
      BY <1>2
      DEF CandidateFails, ItemTargetUnprovable, StageAdoptedEvent,
          EventPreflightFails, Readback, ReadbackFails, Project,
          ProjectFails, storeVars
    <2>2. Committed' = Committed
      BY <2>1 DEF Committed
    <2> QED
      BY <1>1, <2>2, Stutter
  <1>3. CASE CommitItem(p) \/ ItemRenameRaises(p)
    <2>1. pc[p] = "item" /\ (PlaceItem(p) \/ UNCHANGED storeVars)
      BY <1>3 DEF CommitItem, ItemRenameRaises
    <2>2. CASE PlaceItem(p)
      BY <1>1, <2>1, <2>2, PlaceItemLemma, LogCommit
    <2>3. CASE UNCHANGED storeVars
      BY <1>1, <2>3, SameStore, Stutter
    <2> QED
      BY <2>1, <2>2, <2>3
  <1>4. CASE RenameVersion(p) \/ VersionRenameRaises(p)
    <2>1. pc[p] = "version" /\ (PlaceVersion(p) \/ UNCHANGED storeVars)
      BY <1>4 DEF RenameVersion, VersionRenameRaises
    <2>2. CASE PlaceVersion(p)
      BY <1>1, <2>1, <2>2, PlaceVersionLemma, Stutter
    <2>3. CASE UNCHANGED storeVars
      BY <1>1, <2>3, SameStore, Stutter
    <2> QED
      BY <2>1, <2>2, <2>3
  <1>5. CASE RenameEvent(p) \/ EventRenameRaises(p)
    <2>1. pc[p] = "event" /\ (PlaceEvent(p) \/ UNCHANGED storeVars)
      BY <1>5 DEF RenameEvent, EventRenameRaises
    <2>2. CASE PlaceEvent(p)
      BY <1>1, <2>1, <2>2, PlaceEventLemma, LogCommit
    <2>3. CASE UNCHANGED storeVars
      BY <1>1, <2>3, SameStore, Stutter
    <2> QED
      BY <2>1, <2>2, <2>3
  <1> QED
    BY <1>2, <1>3, <1>4, <1>5 DEF CommitStep

\* Every step of the store is a step of the log or stutters.
LEMMA NextLog ==
    ASSUME IInv, AnsweredOnce, [Next]_vars
    PROVE  [Log!LogNext]_(Log!logVars)
  <1>1. CASE UNCHANGED vars
    BY <1>1, Stutter DEF vars, storeVars, histVars, Committed
  <1>2. ASSUME NEW p \in Procs, \/ \E r \in Requests : Start(p, r)
                                \/ RefusedBeforeLock(p) \/ LockTimeout(p)
                                \/ Acquire(p) \/ Release(p) \/ Crash(p)
        PROVE  [Log!LogNext]_(Log!logVars)
    <2>1. dirs' = dirs /\ events' = events /\ answers' = answers
      BY <1>2 DEF Start, RefusedBeforeLock, LockTimeout, Acquire, Release,
                  Crash, storeVars, histVars
    <2>2. Committed' = Committed
      BY <2>1 DEF Committed
    <2> QED
      BY <2>1, <2>2, Stutter
  <1>3. ASSUME NEW p \in Procs, Scan(p)
        PROVE  [Log!LogNext]_(Log!logVars)
    <2>1. dirs' = dirs /\ events' = events /\ answers' = answers
      BY <1>3, ScanKeeps
    <2>2. Committed' = Committed
      BY <2>1 DEF Committed
    <2> QED
      BY <2>1, <2>2, Stutter
  <1>4. ASSUME NEW p \in Procs, CommitStep(p)
        PROVE  [Log!LogNext]_(Log!logVars)
    BY <1>4, CommitStepLog
  <1>5. ASSUME NEW p \in Procs, Reply(p)
        PROVE  [Log!LogNext]_(Log!logVars)
    BY <1>5, LogAnswer
  <1> QED
    BY <1>1, <1>2, <1>3, <1>4, <1>5 DEF Next, Step, Quiescent

\* The store implements the log: what its callers can see of the versions and
\* of their answers is what VersionLog promises, whatever is killed, fails or
\* interleaves.
THEOREM StoreImplementsLog == Spec => LogSpec
  <1>1. Init => Log!LogInit /\ AnsweredOnce
    BY DEF Init, Log!LogInit, Committed, AnsweredOnce
  <1>2. IInv /\ AnsweredOnce /\ [Next]_vars => AnsweredOnce'
    BY AnsweredOnceNext
  <1>3. IInv /\ AnsweredOnce /\ [Next]_vars => [Log!LogNext]_(Log!logVars)
    BY NextLog
  <1> QED
    BY Invariance, <1>1, <1>2, <1>3, PTL DEF Spec, LogSpec, Log!LogSpec

-----------------------------------------------------------------------------
(* Readers beside the writers: what writers do to what readers see.  The   *)
(* proofs rest on the inductive invariant IInv of the writers, which       *)
(* readers do not touch.                                                   *)

\* Each item that has a version has a newest one.
HasNewest ==
    \A c \in Committed : \E d \in Committed : d.item = c.item /\ Newest(d, Committed)

\* Writers add directories and events; what they commit is the newest version
\* of its item.
LEMMA StoreGrows ==
    ASSUME IInv, [Next]_vars
    PROVE  /\ dirs \subseteq dirs' /\ events \subseteq events'
           /\ Committed \subseteq Committed'
           /\ \/ Committed' = Committed
              \/ \E c \in Committed' : /\ Committed' = Committed \cup {c}
                                       /\ Newest(c, Committed')
  <1>1. ASSUME dirs' = dirs, events' = events
        PROVE  Committed' = Committed
    BY <1>1 DEF Committed
  <1>2. CASE UNCHANGED vars
    BY <1>1, <1>2 DEF vars, storeVars
  <1>3. ASSUME NEW p \in Procs, \/ \E r \in Requests : Start(p, r)
                                \/ RefusedBeforeLock(p) \/ LockTimeout(p)
                                \/ Acquire(p) \/ Release(p) \/ Crash(p) \/ Reply(p)
        PROVE  dirs' = dirs /\ events' = events
    BY <1>3 DEF Start, RefusedBeforeLock, LockTimeout, Acquire, Release,
                Crash, Reply, storeVars
  <1>4. ASSUME NEW p \in Procs, Scan(p)
        PROVE  dirs' = dirs /\ events' = events
    BY <1>4 DEF Scan, LockedPreflightFails, ScanFails, ScanConflict, ReplayCapture,
        ReplayAppend, ReplayAppendFails, PlanCapture, AppendNotFound,
        VersionConflict, ForeignTail, AdoptTail, PlanAppend, storeVars
  <1>5. ASSUME NEW p \in Procs, CommitStep(p)
        PROVE  /\ nextAtt' = nextAtt
               /\ \/ dirs' = dirs /\ events' = events
                  \/ pc[p] = "item" /\ PlaceItem(p)
                  \/ pc[p] = "version" /\ PlaceVersion(p)
                  \/ pc[p] = "event" /\ PlaceEvent(p)
    BY <1>5 DEF CommitStep, CandidateFails, ItemTargetUnprovable, CommitItem,
        ItemRenameRaises, RenameVersion, VersionRenameRaises,
        StageAdoptedEvent, EventPreflightFails, RenameEvent,
        EventRenameRaises, Readback, ReadbackFails, Project, ProjectFails,
        storeVars, histVars
  <1>6. ASSUME NEW p \in Procs, CommitStep(p)
        PROVE  /\ dirs \subseteq dirs' /\ events \subseteq events'
               /\ \/ Committed' = Committed
                  \/ /\ Committed' = Committed \cup {cand[p]}
                     /\ Newest(cand[p], Committed')
    <2>1. CASE dirs' = dirs /\ events' = events
      BY <1>1, <2>1
    <2>2. CASE pc[p] = "item" /\ PlaceItem(p)
      BY <1>5, <1>6, <2>2, PlaceItemLemma DEF PlaceItem
    <2>3. CASE pc[p] = "version" /\ PlaceVersion(p)
      BY <1>5, <1>6, <2>3, PlaceVersionLemma DEF PlaceVersion
    <2>4. CASE pc[p] = "event" /\ PlaceEvent(p)
      BY <1>5, <1>6, <2>4, PlaceEventLemma DEF PlaceEvent
    <2> QED
      BY <1>5, <1>6, <2>1, <2>2, <2>3, <2>4
  <1>7. ASSUME dirs \subseteq dirs', events \subseteq events'
        PROVE  Committed \subseteq Committed'
    BY <1>7 DEF Committed
  <1>8. CASE \E p \in Procs : CommitStep(p)
    <2>1. PICK p \in Procs : CommitStep(p)
      BY <1>8
    <2> QED
      BY <1>6, <1>7, <2>1
  <1> QED
    BY <1>1, <1>2, <1>3, <1>4, <1>8 DEF Next, Step, Quiescent

\* There is a newest version of each item throughout.
LEMMA NewestNext ==
    ASSUME IInv, IInv', HasNewest, [Next]_vars
    PROVE  HasNewest'
  <1> SUFFICES ASSUME NEW c \in Committed'
               PROVE  \E d \in Committed' : d.item = c.item /\ Newest(d, Committed')
    BY DEF HasNewest
  <1>1. CASE Committed' = Committed
    BY <1>1 DEF HasNewest
  <1>2. ASSUME NEW e \in Committed', Committed' = Committed \cup {e},
               Newest(e, Committed')
        PROVE  \E d \in Committed' : d.item = c.item /\ Newest(d, Committed')
    <2>1. CASE c.item = e.item
      BY <1>2, <2>1
    <2>2. CASE c.item # e.item
      <3>1. PICK d \in Committed : d.item = c.item /\ Newest(d, Committed)
        BY <1>2, <2>2 DEF HasNewest
      <3>2. Newest(d, Committed')
        BY <1>2, <2>2, <3>1 DEF Newest
      <3> QED
        BY <1>2, <3>1, <3>2
    <2> QED
      BY <2>1, <2>2
  <1> QED
    BY <1>1, <1>2, StoreGrows

\* A directory belongs to an item that has a version, and every event to one.
LEMMA LocatedItems ==
    ASSUME IInv
    PROVE  /\ \A d \in dirs : d.item \in Items /\ \E c \in Committed : c.item = d.item
           /\ \A v \in events : \E c \in Committed : EventOf(c) = v
           /\ \A c \in Committed : c \in dirs /\ c.ver \in Nat /\ c.ver >= 1
  <1>1. /\ StoreInv /\ dirs \subseteq Version /\ nextAtt \in Nat /\ MaxAttempts \in Nat
    BY StoreAssumption DEF IInv, TypeOK
  <1>2. ASSUME NEW d \in dirs
        PROVE  d.item \in Items /\ d.ver \in Nat /\ d.ver >= 1
    <2>1. WellFounded(d, nextAtt) /\ nextAtt <= MaxAttempts + 1
      BY <1>1 DEF StoreInv
    <2>2. d.item \in Nat /\ d.ver \in Nat
      BY <1>1 DEF Version
    <2>3. d.item \in Items
      BY <1>1, <2>1, <2>2 DEF WellFounded, Items, Attempts
    <2>4. d.ver >= 1
      BY <2>1, <2>2, RequestNumbers DEF WellFounded
    <2> QED
      BY <2>2, <2>3, <2>4
  <1>3. ASSUME NEW d \in dirs
        PROVE  \E c \in Committed : c.item = d.item
    BY <1>1, <1>2 DEF StoreInv, ReadableChains
  <1>4. \A v \in events : \E c \in Committed : EventOf(c) = v
    BY <1>1 DEF StoreInv, ReadableChains, Committed
  <1> QED
    BY <1>2, <1>3, <1>4 DEF Committed

\* NewestNow names the newest committed version of an item, or 0.
LEMMA NewestNowIs ==
    ASSUME IInv, HasNewest, NEW i \in Items
    PROVE  /\ NewestNow[i] \in Nat
           /\ NewestNow[i] > 0 => \E d \in Committed : d.item = i /\ d.ver = NewestNow[i]
           /\ \A d \in Committed : d.item = i => d.ver <= NewestNow[i]
  <1> DEFINE vs == {d.ver : d \in {c \in Committed : c.item = i}}
  <1>1. NewestNow[i] = IF vs = {} THEN 0 ELSE CHOOSE n \in vs : \A m \in vs : m <= n
    BY DEF NewestNow
  <1>2. CASE vs = {}
    <2>1. \A d \in Committed : d.item # i
      BY <1>2
    <2> QED
      BY <1>1, <1>2, <2>1
  <1>3. CASE vs # {}
    <2>1. PICK d \in Committed : d.item = i /\ Newest(d, Committed)
      BY <1>3 DEF HasNewest
    <2>2. d.ver \in vs /\ \A m \in vs : m <= d.ver
      BY <2>1 DEF Newest
    <2> HIDE DEF vs
    <2>3. NewestNow[i] \in vs /\ \A m \in vs : m <= NewestNow[i]
      BY <1>1, <1>3, <2>2
    <2> USE DEF vs
    <2>4. PICK e \in Committed : e.item = i /\ e.ver = NewestNow[i]
      BY <2>3
    <2>5. NewestNow[i] \in Nat
      BY <2>4, LocatedItems
    <2> QED
      BY <2>3, <2>4, <2>5
  <1> QED
    BY <1>2, <1>3

-----------------------------------------------------------------------------
(* The inductive invariant of a reader                                     *)

ReaderSteps == {"idle", "versions", "events", "chain", "done"}
ReaderCodes == {"none", "listed", "capture_not_found", "version_not_found",
                "integrity_check_failed"}
EventFiles  == [item : Nat, ver : Nat, eid : Nat]

ReaderState ==
    [step : ReaderSteps, todo : SUBSET Items, want : Nat, dirs : SUBSET Version,
     events : SUBSET EventFiles,
     got : SUBSET [item : Items, current : Nat, ver : Nat, warn : SUBSET Warnings],
     code : ReaderCodes, floor : [Items -> Nat]]

\* Version n of item i is committed.
IsSaved(i, n) == \E d \in Committed : d.item = i /\ d.ver = n

\* The item in hand, and what was listed of it: its newest event is not older
\* than what had been committed when the read began.
InHand(s, i) == i \in s.todo /\ \A j \in s.todo : i <= j

Listing(s, i) ==
    /\ \A v \in s.events : IsSaved(i, v.ver)
    /\ \E v \in s.events : /\ \A w \in s.events : w.ver <= v.ver
                           /\ s.floor[i] <= v.ver

\* What a read owes to the store as it was when it began, and to the store.
Reading(s) ==
    /\ \A i \in s.todo : \E d \in Committed : d.item = i
    /\ \A i \in Items : s.floor[i] > 0 => /\ IsSaved(i, s.floor[i])
                                          /\ i \in s.todo \/ \E e \in s.got : e.item = i
    /\ \A e \in s.got : /\ IsSaved(e.item, e.current) /\ IsSaved(e.item, e.ver)
                        /\ e.current >= s.floor[e.item]
    /\ s.want # 0 => \A i, j \in s.todo : i = j
    /\ s.step \in {"events", "chain"} => \E i \in Items : InHand(s, i)
    /\ s.step = "chain" => \A i \in Items : InHand(s, i) => Listing(s, i)
    /\ s.step = "done" =>
          /\ s.code = "version_not_found" => \A i \in s.todo : s.floor[i] < s.want
          /\ s.code \in {"listed", "capture_not_found"} => s.todo = {}

RInv ==
    /\ IInv
    /\ HasNewest
    /\ rd \in [Readers -> ReaderState]
    /\ \A r \in Readers : Reading(rd[r])

\* What writers do takes nothing from a read under way.
LEMMA ReadingStands ==
    ASSUME IInv, [Next]_vars, NEW s, Reading(s)
    PROVE  Reading(s)'
  <1>1. Committed \subseteq Committed'
    BY StoreGrows
  <1>2. \A i, n : IsSaved(i, n) => IsSaved(i, n)'
    BY <1>1 DEF IsSaved
  <1>3. \A i \in Items : Listing(s, i) => Listing(s, i)'
    BY <1>2 DEF Listing
  <1> QED
    BY <1>1, <1>2, <1>3 DEF Reading, InHand

\* A step of one reader is safe if its new state is.
LEMMA OneReads ==
    ASSUME RInv, NEW r \in Readers, NEW s \in ReaderState, Reading(s), Set(r, s),
           UNCHANGED vars
    PROVE  RInv'
  <1>1. rd' \in [Readers -> ReaderState] /\ rd'[r] = s
        /\ \A q \in Readers \ {r} : rd'[q] = rd[q]
    BY DEF Set, RInv
  <1>2. IInv' /\ HasNewest'
    <2>1. IInv' /\ [Next]_vars
      BY InvNext DEF RInv
    <2> QED
      BY <2>1, NewestNext DEF RInv
  <1>3. \A q \in Readers : Reading(rd'[q])
    BY <1>1 DEF RInv
  <1>4. \A q \in Readers : Reading(rd[q])'
    <2>1. Committed' = Committed
      BY DEF vars, storeVars, Committed
    <2> QED
      BY <1>3, <2>1 DEF Reading, IsSaved, Listing
  <1> QED
    BY <1>1, <1>2, <1>4 DEF RInv

-----------------------------------------------------------------------------
(* Steps of a read                                                         *)

\* A reader that does nothing.
LEMMA IdlerReads == Idler \in ReaderState /\ Reading(Idler)
  BY DEF Idler, ReaderState, ReaderSteps, ReaderCodes, Reading

\* A read begins with the items it located and what is committed of them.
LEMMA BeginReads ==
    ASSUME RInv, NEW r \in Readers, UNCHANGED vars,
           NEW asked \in SUBSET Items, NEW v \in Nat,
           NEW code \in {"listed", "capture_not_found"},
           Begin(r, Located \cap asked, asked, v, code),
           v # 0 => \A i, j \in asked : i = j
    PROVE  RInv'
  <1> DEFINE todo == Located \cap asked
             floor == [i \in Items |-> IF i \in asked THEN NewestNow[i] ELSE 0]
             step == IF todo = {} THEN "done" ELSE "versions"
             s == [Idler EXCEPT !.step = step, !.todo = todo, !.want = v,
                                !.code = IF todo = {} THEN code ELSE "none",
                                !.floor = floor]
  <1>1. Set(r, s)
    BY DEF Begin
  <1>2. IInv /\ HasNewest
    BY DEF RInv
  <1>3. floor \in [Items -> Nat]
    BY <1>2, NewestNowIs
  <1>4. todo \in SUBSET Items /\ step \in ReaderSteps
        /\ (IF todo = {} THEN code ELSE "none") \in ReaderCodes
    BY DEF ReaderSteps, ReaderCodes
  <1>5. /\ s.step = step /\ s.todo = todo /\ s.want = v /\ s.floor = floor
        /\ s.dirs = {} /\ s.events = {} /\ s.got = {}
        /\ s.code = IF todo = {} THEN code ELSE "none"
    BY DEF Idler
  <1>6. s \in ReaderState
    BY <1>3, <1>4 DEF Idler, ReaderState
  <1>7. \A i \in todo : \E d \in Committed : d.item = i
    BY <1>2, LocatedItems DEF Located
  <1>8. ASSUME NEW i \in Items, floor[i] > 0
        PROVE  IsSaved(i, floor[i]) /\ i \in todo
    <2>1. i \in asked /\ floor[i] = NewestNow[i]
      BY <1>8
    <2>2. PICK d \in Committed : d.item = i /\ d.ver = NewestNow[i]
      BY <1>2, <1>8, <2>1, NewestNowIs
    <2>3. i \in Located
      BY <1>2, <2>2, LocatedItems DEF Located
    <2> QED
      BY <2>1, <2>2, <2>3 DEF IsSaved
  <1>9. step \in {"done", "versions"} /\ (step = "done" => todo = {} /\ s.code = code)
    BY <1>5
  <1>10. v # 0 => \A i, j \in todo : i = j
    OBVIOUS
  <1> HIDE DEF s, todo, floor, step
  <1>11. Reading(s)
    BY <1>5, <1>7, <1>8, <1>9, <1>10 DEF Reading
  <1> QED
    BY <1>1, <1>6, <1>11, OneReads

\* Directories are listed first; the item in hand is the first one left.
LEMMA ListVersionsReads ==
    ASSUME RInv, NEW r \in Readers, UNCHANGED vars, ListVersions(r)
    PROVE  RInv'
  <1>1. PICK i \in Items : /\ IsNextItem(r, i)
                           /\ Set(r, [rd[r] EXCEPT !.step = "events",
                                                   !.dirs = {d \in dirs : d.item = i}])
    BY DEF ListVersions
  <1>2. PICK s : s = [rd[r] EXCEPT !.step = "events", !.dirs = {d \in dirs : d.item = i}]
    OBVIOUS
  <1>3. rd[r] \in ReaderState /\ Reading(rd[r]) /\ dirs \subseteq Version
    BY DEF RInv, IInv, TypeOK
  <1>4. /\ s \in ReaderState /\ s.step = "events" /\ s.todo = rd[r].todo
        /\ s.want = rd[r].want /\ s.got = rd[r].got /\ s.floor = rd[r].floor
    BY <1>2, <1>3 DEF ReaderState, ReaderSteps
  <1>5. InHand(s, i)
    BY <1>1, <1>4 DEF InHand, IsNextItem
  <1>6. Reading(s)
    BY <1>3, <1>4, <1>5 DEF Reading
  <1> QED
    BY <1>1, <1>2, <1>4, <1>6, OneReads

\* Events are listed after them: each belongs to a version, and the newest one
\* is at least what had been committed when the read began.
LEMMA ListEventsReads ==
    ASSUME RInv, NEW r \in Readers, UNCHANGED vars, ListEvents(r)
    PROVE  RInv'
  <1>1. PICK i \in Items : /\ IsNextItem(r, i)
                           /\ Set(r, [rd[r] EXCEPT !.step = "chain",
                                                   !.events = {v \in events : v.item = i}])
    BY DEF ListEvents
  <1>2. PICK s : s = [rd[r] EXCEPT !.step = "chain", !.events = {v \in events : v.item = i}]
    OBVIOUS
  <1>3. rd[r] \in ReaderState /\ Reading(rd[r]) /\ events \subseteq EventFiles
        /\ IInv /\ HasNewest
    BY DEF RInv, IInv, TypeOK, EventFiles
  <1>4. /\ s \in ReaderState /\ s.step = "chain" /\ s.todo = rd[r].todo
        /\ s.want = rd[r].want /\ s.got = rd[r].got /\ s.floor = rd[r].floor
        /\ s.events = {v \in events : v.item = i}
    BY <1>2, <1>3 DEF ReaderState, ReaderSteps
  <1>5. InHand(s, i) /\ \A j \in Items : InHand(s, j) => j = i
    BY <1>1, <1>4 DEF InHand, IsNextItem, Items, Attempts
  <1>6. Listing(s, i)
    <2>1. \A v \in s.events : \E c \in Committed : EventOf(c) = v /\ c.item = i
      <3>1. \A v \in s.events : v \in events /\ v.item = i
        BY <1>4
      <3> QED
        BY <1>3, <3>1, LocatedItems DEF EventOf
    <2>2. PICK c \in Committed : c.item = i
      BY <1>3, <1>4, <1>5 DEF Reading, InHand
    <2>3. PICK d \in Committed : d.item = i /\ Newest(d, Committed)
      BY <1>3, <2>2 DEF HasNewest
    <2>4. EventOf(d) \in s.events /\ EventOf(d).ver = d.ver
      BY <1>4, <2>3 DEF Committed, EventOf
    <2>5. \A w \in s.events : w.ver <= d.ver
      BY <2>1, <2>3 DEF Newest, EventOf
    <2>6. s.floor[i] <= d.ver
      <3>1. s.floor[i] \in Nat /\ d.ver \in Nat
        BY <1>3, <1>4, <2>3, LocatedItems DEF ReaderState
      <3>2. CASE s.floor[i] > 0
        BY <1>3, <1>4, <2>3, <3>2 DEF Reading, IsSaved, Newest
      <3> QED
        BY <3>1, <3>2
    <2>7. \A v \in s.events : IsSaved(i, v.ver)
      BY <2>1 DEF IsSaved, EventOf
    <2> QED
      BY <2>4, <2>5, <2>6, <2>7 DEF Listing
  <1>7. Reading(s)
    BY <1>3, <1>4, <1>5, <1>6 DEF Reading
  <1> QED
    BY <1>1, <1>2, <1>4, <1>7, OneReads

\* What a chain built from the two listings says: its version and every one
\* before it are committed, and it is not behind the store as it was when the
\* read began.
LEMMA ChainFacts ==
    ASSUME RInv, NEW r \in Readers, rd[r].step = "chain", IsChain(r),
           NEW i \in Items, InHand(rd[r], i)
    PROVE  /\ ChainVersion(r) \in Nat /\ ChainVersion(r) >= rd[r].floor[i]
           /\ IsSaved(i, ChainVersion(r))
           /\ \A n \in 1..ChainVersion(r) : IsSaved(i, n)
  <1>1. rd[r] \in ReaderState /\ Listing(rd[r], i)
    BY DEF RInv, Reading
  <1>2. \A v \in rd[r].events : v.ver \in Nat
    BY <1>1 DEF ReaderState, EventFiles
  <1>3. PICK v \in rd[r].events : /\ \A w \in rd[r].events : w.ver <= v.ver
                                  /\ rd[r].floor[i] <= v.ver
    BY <1>1 DEF Listing
  <1>4. v.ver \in EventVersions(r) /\ \A m \in EventVersions(r) : m <= v.ver
    BY <1>3 DEF EventVersions
  <1>5. HighestEvent(r) \in EventVersions(r)
        /\ \A m \in EventVersions(r) : m <= HighestEvent(r)
    BY <1>4 DEF HighestEvent
  <1>6. \A m \in EventVersions(r) : m \in Nat /\ IsSaved(i, m)
    BY <1>1, <1>2 DEF EventVersions, Listing
  <1>7. rd[r].floor[i] \in Nat
    BY <1>1 DEF ReaderState
  <1>8. HighestEvent(r) \in Nat /\ v.ver \in Nat /\ v.ver <= HighestEvent(r)
    BY <1>4, <1>5, <1>6
  <1>9. HighestEvent(r) >= rd[r].floor[i]
    BY <1>3, <1>7, <1>8
  <1>10. \A n \in 1..HighestEvent(r) : IsSaved(i, n)
    BY <1>6 DEF IsChain
  <1> QED
    BY <1>5, <1>6, <1>8, <1>9, <1>10 DEF ChainVersion

\* A refused read hands out nothing more.
LEMMA ChainRefusedReads ==
    ASSUME RInv, NEW r \in Readers, UNCHANGED vars, ChainRefused(r)
    PROVE  RInv'
  <1>1. PICK s : s = [rd[r] EXCEPT !.step = "done", !.code = "integrity_check_failed"]
    OBVIOUS
  <1>2. Set(r, s)
    BY <1>1 DEF ChainRefused, Done
  <1>3. rd[r] \in ReaderState /\ Reading(rd[r])
    BY DEF RInv
  <1>4. /\ s \in ReaderState /\ s.step = "done" /\ s.todo = rd[r].todo
        /\ s.want = rd[r].want /\ s.got = rd[r].got /\ s.floor = rd[r].floor
        /\ s.code = "integrity_check_failed"
    BY <1>1, <1>3 DEF ReaderState, ReaderSteps, ReaderCodes
  <1>5. Reading(s)
    BY <1>3, <1>4 DEF Reading
  <1> QED
    BY <1>2, <1>4, <1>5, OneReads

\* A version is reported missing when it is newer than the chain, hence newer
\* than everything committed when the read began.
LEMMA VersionNotFoundReads ==
    ASSUME RInv, NEW r \in Readers, UNCHANGED vars, VersionNotFound(r)
    PROVE  RInv'
  <1>1. PICK s : s = [rd[r] EXCEPT !.step = "done", !.code = "version_not_found"]
    OBVIOUS
  <1>2. Set(r, s) /\ rd[r].step = "chain" /\ IsChain(r) /\ rd[r].want > ChainVersion(r)
    BY <1>1 DEF VersionNotFound, Done
  <1>3. rd[r] \in ReaderState /\ Reading(rd[r])
    BY DEF RInv
  <1>4. /\ s \in ReaderState /\ s.step = "done" /\ s.todo = rd[r].todo
        /\ s.want = rd[r].want /\ s.got = rd[r].got /\ s.floor = rd[r].floor
        /\ s.code = "version_not_found"
    BY <1>1, <1>3 DEF ReaderState, ReaderSteps, ReaderCodes
  <1>5. PICK i \in Items : InHand(rd[r], i)
    BY <1>2, <1>3 DEF Reading
  <1>6. ChainVersion(r) \in Nat /\ ChainVersion(r) >= rd[r].floor[i]
    BY <1>2, <1>5, ChainFacts
  <1>7. rd[r].floor[i] \in Nat /\ rd[r].want \in Nat
    BY <1>3 DEF ReaderState
  <1>8. rd[r].floor[i] < rd[r].want /\ rd[r].want # 0
    BY <1>2, <1>6, <1>7
  <1>9. \A j \in rd[r].todo : j = i
    BY <1>3, <1>5, <1>8 DEF Reading, InHand
  <1>10. \A j \in s.todo : s.floor[j] < s.want
    BY <1>4, <1>8, <1>9
  <1>11. Reading(s)
    BY <1>3, <1>4, <1>10 DEF Reading
  <1> QED
    BY <1>2, <1>4, <1>11, OneReads

\* An item is read once its chain stands; a list then goes on with the next.
LEMMA ReadItemReads ==
    ASSUME RInv, NEW r \in Readers, UNCHANGED vars, ReadItem(r)
    PROVE  RInv'
  <1>1. PICK i \in Items :
          /\ IsNextItem(r, i)
          /\ LET left == rd[r].todo \ {i}
                 entry == [item |-> i, current |-> ChainVersion(r),
                           ver |-> IF rd[r].want = 0 THEN ChainVersion(r)
                                   ELSE rd[r].want,
                           warn |-> ChainWarnings(r, i)]
             IN Set(r, [rd[r] EXCEPT
                          !.step = IF left = {} THEN "done" ELSE "versions",
                          !.code = IF left = {} THEN "listed" ELSE "none",
                          !.todo = left,
                          !.dirs = {}, !.events = {},
                          !.got = @ \cup {entry}])
    BY DEF ReadItem
  <1>2. PICK cv : cv = ChainVersion(r)
    OBVIOUS
  <1>3. PICK ver : ver = IF rd[r].want = 0 THEN cv ELSE rd[r].want
    OBVIOUS
  <1>4. PICK warn : warn = ChainWarnings(r, i)
    OBVIOUS
  <1>5. PICK left : left = rd[r].todo \ {i}
    OBVIOUS
  <1>6. PICK entry : entry = [item |-> i, current |-> cv, ver |-> ver, warn |-> warn]
    OBVIOUS
  <1>7. PICK s : s = [rd[r] EXCEPT
                        !.step = IF left = {} THEN "done" ELSE "versions",
                        !.code = IF left = {} THEN "listed" ELSE "none",
                        !.todo = left,
                        !.dirs = {}, !.events = {},
                        !.got = @ \cup {entry}]
    OBVIOUS
  <1>8. Set(r, s)
    BY <1>1, <1>2, <1>3, <1>4, <1>5, <1>6, <1>7
  <1>9. rd[r] \in ReaderState /\ Reading(rd[r]) /\ rd[r].step = "chain"
        /\ IsChain(r) /\ rd[r].want <= cv
    BY <1>2 DEF RInv, ReadItem
  <1>10. InHand(rd[r], i)
    BY <1>1 DEF InHand, IsNextItem
  <1>11. /\ cv \in Nat /\ cv >= rd[r].floor[i] /\ IsSaved(i, cv)
         /\ \A n \in 1..cv : IsSaved(i, n)
    BY <1>2, <1>9, <1>10, ChainFacts
  <1>12. rd[r].want \in Nat
    BY <1>9 DEF ReaderState
  <1>13. ver \in Nat /\ IsSaved(i, ver)
    <2>1. CASE rd[r].want = 0
      BY <1>3, <1>11, <2>1
    <2>2. CASE rd[r].want # 0
      <3>1. ver = rd[r].want /\ ver \in 1..cv
        BY <1>3, <1>9, <1>11, <1>12, <2>2
      <3> QED
        BY <1>11, <1>12, <3>1
    <2> QED
      BY <2>1, <2>2
  <1>14. warn \in SUBSET Warnings
    BY <1>4 DEF ChainWarnings
  <1>15. entry \in [item : Items, current : Nat, ver : Nat, warn : SUBSET Warnings]
    BY <1>6, <1>11, <1>13, <1>14
  <1>16. /\ s.step = (IF left = {} THEN "done" ELSE "versions")
         /\ s.code = (IF left = {} THEN "listed" ELSE "none")
         /\ s.todo = left /\ s.want = rd[r].want /\ s.floor = rd[r].floor
         /\ s.got = rd[r].got \cup {entry}
         /\ s.dirs = {} /\ s.events = {}
    BY <1>7, <1>9 DEF ReaderState
  <1>17. s \in ReaderState
    <2>1. (IF left = {} THEN "done" ELSE "versions") \in ReaderSteps
          /\ (IF left = {} THEN "listed" ELSE "none") \in ReaderCodes
      BY DEF ReaderSteps, ReaderCodes
    <2>2. left \in SUBSET Items
      BY <1>5, <1>9 DEF ReaderState
    <2>3. rd[r].got \cup {entry}
            \in SUBSET [item : Items, current : Nat, ver : Nat, warn : SUBSET Warnings]
      BY <1>9, <1>15 DEF ReaderState
    <2> QED
      BY <1>7, <1>9, <2>1, <2>2, <2>3 DEF ReaderState
  <1>18. \A e \in s.got : /\ IsSaved(e.item, e.current) /\ IsSaved(e.item, e.ver)
                          /\ e.current >= s.floor[e.item]
    <2>1. \A e \in rd[r].got : /\ IsSaved(e.item, e.current) /\ IsSaved(e.item, e.ver)
                               /\ e.current >= s.floor[e.item]
      BY <1>9, <1>16 DEF Reading
    <2>2. /\ IsSaved(entry.item, entry.current) /\ IsSaved(entry.item, entry.ver)
          /\ entry.current >= s.floor[entry.item]
      BY <1>6, <1>11, <1>13, <1>16
    <2> QED
      BY <1>16, <2>1, <2>2
  <1>19. \A j \in Items : s.floor[j] > 0 => /\ IsSaved(j, s.floor[j])
                                            /\ j \in s.todo \/ \E e \in s.got : e.item = j
    <2> SUFFICES ASSUME NEW j \in Items, s.floor[j] > 0
                 PROVE  /\ IsSaved(j, s.floor[j])
                        /\ j \in s.todo \/ \E e \in s.got : e.item = j
      OBVIOUS
    <2>1. /\ IsSaved(j, s.floor[j])
          /\ j \in rd[r].todo \/ \E e \in rd[r].got : e.item = j
      BY <1>9, <1>16 DEF Reading
    <2>2. entry \in s.got /\ entry.item = i
      BY <1>6, <1>16
    <2>3. j \in rd[r].todo => j \in s.todo \/ j = i
      BY <1>5, <1>16
    <2> QED
      BY <1>16, <2>1, <2>2, <2>3
  <1>20. /\ \A j \in s.todo : \E d \in Committed : d.item = j
         /\ s.want # 0 => \A j, k \in s.todo : j = k
    BY <1>5, <1>9, <1>16 DEF Reading
  <1>21. /\ s.step \in {"done", "versions"}
         /\ s.step = "done" => s.todo = {} /\ s.code = "listed"
    BY <1>16
  <1>22. Reading(s)
    BY <1>18, <1>19, <1>20, <1>21 DEF Reading
  <1> QED
    BY <1>8, <1>17, <1>22, OneReads

-----------------------------------------------------------------------------
(* The theorems                                                            *)

\* Readers start idle on an empty store.
LEMMA ReaderInitInv ==
    ASSUME ReaderInit PROVE RInv
  <1>1. IInv
    BY InvInit DEF ReaderInit
  <1>2. Committed = {}
    BY DEF ReaderInit, Init, Committed
  <1>3. HasNewest
    BY <1>2 DEF HasNewest
  <1>4. \A r \in Readers : rd[r] = Idler
    BY DEF ReaderInit
  <1>5. rd \in [Readers -> ReaderState]
    BY IdlerReads DEF ReaderInit
  <1>6. \A r \in Readers : Reading(rd[r])
    BY <1>4, IdlerReads
  <1> QED
    BY <1>1, <1>3, <1>5, <1>6 DEF RInv

\* One step of a reader.
LEMMA ReadStep ==
    ASSUME RInv, NEW r \in Readers, Read(r), UNCHANGED vars
    PROVE  RInv'
  <1>1. CASE BeginGet(r)
    <2>1. PICK i \in Items : \E v \in 0..MaxAttempts :
             Begin(r, Located \cap {i}, {i}, v, "capture_not_found")
      BY <1>1 DEF BeginGet
    <2>2. PICK v \in 0..MaxAttempts :
             Begin(r, Located \cap {i}, {i}, v, "capture_not_found")
      BY <2>1
    <2>3. v \in Nat /\ {i} \in SUBSET Items
      OBVIOUS
    <2>4. \A j, k \in {i} : j = k
      OBVIOUS
    <2>5. "capture_not_found" \in {"listed", "capture_not_found"}
      OBVIOUS
    <2> QED
      BY <2>2, <2>3, <2>4, <2>5, BeginReads
  <1>2. CASE BeginList(r)
    <2>1. Located \cap Items = Located
      BY LocatedItems DEF RInv, Located
    <2>2. Begin(r, Located \cap Items, Items, 0, "listed")
      BY <1>2, <2>1 DEF BeginList
    <2>3. 0 \in Nat /\ Items \in SUBSET Items /\ ~(0 # 0)
      OBVIOUS
    <2>4. "listed" \in {"listed", "capture_not_found"}
      OBVIOUS
    <2> QED
      BY <2>2, <2>3, <2>4, BeginReads
  <1>3. CASE Return(r)
    BY <1>3, IdlerReads, OneReads DEF Return
  <1> QED
    BY <1>1, <1>2, <1>3, ListVersionsReads, ListEventsReads, ChainRefusedReads,
       VersionNotFoundReads, ReadItemReads DEF Read

\* Writers and readers keep the invariant.
LEMMA ReaderNextInv ==
    ASSUME RInv, [ReaderNext]_<<vars, rd>>
    PROVE  RInv'
  <1>1. ASSUME [Next]_vars, UNCHANGED rd
        PROVE  RInv'
    <2>1. IInv /\ HasNewest
      BY DEF RInv
    <2>2. IInv'
      BY <1>1, <2>1, InvNext
    <2>3. HasNewest'
      BY <1>1, <2>1, <2>2, NewestNext
    <2>4. \A r \in Readers : Reading(rd[r])
      BY DEF RInv
    <2>5. ASSUME NEW r \in Readers
          PROVE  Reading(rd[r])'
      <3>1. PICK s : s = rd[r]
        OBVIOUS
      <3>2. Reading(s)
        BY <2>4, <3>1
      <3>3. Reading(s)'
        BY <1>1, <2>1, <3>2, ReadingStands
      <3>4. s = (rd[r])'
        BY <1>1, <3>1
      <3> QED
        BY <3>3, <3>4 DEF Reading, InHand, Listing, IsSaved
    <2> QED
      BY <1>1, <2>2, <2>3, <2>5 DEF RInv
  <1>2. CASE \E r \in Readers : Read(r) /\ UNCHANGED vars
    BY <1>2, ReadStep
  <1> QED
    BY <1>1, <1>2 DEF ReaderNext

\* The invariant of writers and readers holds throughout, for any numbers of
\* both: what a reader has in hand stays true of the store while calls commit,
\* crash and fail around it.
THEOREM ReaderInvariance == ReaderSpec => []RInv
  <1>1. ReaderInit => RInv
    BY ReaderInitInv
  <1>2. RInv /\ [ReaderNext]_<<vars, rd>> => RInv'
    BY ReaderNextInv
  <1> QED
    BY <1>1, <1>2, PTL DEF ReaderSpec

\* get_capture and list_captures hand out committed versions only, never the
\* tail of a call that has not made its event durable.
THEOREM ReadsCommitted == ReaderSpec => []ReadsAreCommitted
  <1>1. RInv => ReadsAreCommitted
    BY DEF RInv, Reading, IsSaved, ReadsAreCommitted
  <1> QED
    BY <1>1, ReaderInvariance, PTL

\* The current version a read reports is at least the newest one committed when
\* it began, although it takes no lock and lists versions before events.
THEOREM ReadsFresh == ReaderSpec => []ReadsAreFresh
  <1>1. RInv => ReadsAreFresh
    BY DEF RInv, Reading, ReadsAreFresh
  <1> QED
    BY <1>1, ReaderInvariance, PTL

\* A version that had been committed when the read began is never reported
\* missing, and a list leaves out no item that was there.
THEOREM NothingMissed == ReaderSpec => []NothingIsMissed
  <1>1. RInv => NothingIsMissed
    BY DEF RInv, Reading, NothingIsMissed
  <1> QED
    BY <1>1, ReaderInvariance, PTL
=============================================================================
