--------------------------- MODULE StoreMigration ---------------------------
(***************************************************************************)
(* migrate_capture_store beside writers and rebuilds (migration.py,        *)
(* recovery.py).  One configuration file names the root every call binds   *)
(* to before it waits for that root's write lock; a migration copies the   *)
(* tree file by file and then switches the configuration.  Any process may *)
(* be killed between two steps, and locks die with their holders.          *)
(*                                                                         *)
(* A tree holds one item: capture.yaml and, for each version, an event     *)
(* file and a version directory (what happens inside one root is the       *)
(* subject of CaptureStore).  A file holds the key of the request that     *)
(* wrote it; capture.yaml holds a version number.                          *)
(***************************************************************************)
EXTENDS Integers

CONSTANTS Procs,        \* processes that call the public operations
          Roots,        \* directories a Capture Store may live in
          FirstRoot,    \* the root of the store to begin with
          Requests,     \* appends: [key, expected]
          Moves,        \* migrations asked for: <<source, target>>
          MaxVersions,  \* bound: length of the chain
          MaxCalls,     \* bound: calls made
          MaxFaults,    \* bound: I/O errors
          MaxTimeouts,  \* bound: lock waits given up
          Nobody        \* holder of a free lock

ASSUME MigrationAssumption ==
    /\ Nobody \notin Procs
    /\ FirstRoot \in Roots
    /\ Moves \subseteq Roots \X Roots
    /\ MaxVersions \in Nat \ {0}
    /\ \A r \in Requests : r.key \in Nat \ {0, 1}
                           /\ r.expected \in 1..MaxVersions
    /\ {MaxCalls, MaxFaults, MaxTimeouts} \subseteq Nat

VARIABLES config,     \* capture.root of the configuration file
          edition,    \* identity of that file: how often it was replaced
          tree,       \* tree[r][f]: content of the file f under root r
          initLock,   \* holder of <config>.init.lock
          lock,       \* lock[r]: holder of r/journal/capture-write.lock
          pc,         \* next step of each process
          job,        \* the call it works on
          snap,       \* tree it read under the source's lock
          receipts,   \* history: versions reported committed
          calls,      \* calls still allowed
          faults,     \* I/O errors still allowed
          timeouts    \* timeouts still allowed

configVars == <<config, edition>>
locks  == <<initLock, lock>>
bounds == <<faults, timeouts>>
vars == <<configVars, tree, locks, pc, job, snap, receipts, calls, bounds>>

Versions   == 1..MaxVersions
Projection == 0                         \* capture.yaml
Event(n)   == n                         \* events/<event-id>.yaml
Dir(n)     == MaxVersions + n           \* versions/<n>
Files      == 0..(2 * MaxVersions)      \* in the order they are copied

NoFile == 0
Torn   == -1                            \* the copy of a file was cut short

Empty  == [f \in Files |-> NoFile]

\* The store to begin with: one version, saved for key 1.
FirstTree == [f \in Files |-> IF f \in {Projection, Event(1), Dir(1)} THEN 1
                              ELSE NoFile]

NoJob == [op |-> "none"]

-----------------------------------------------------------------------------
(* What a tree proves                                                      *)

Has(t, f) == t[f] # NoFile

Committed(t) == {n \in Versions : Has(t, Event(n))}

\* _load_disk_capture_version_chain: events are a continuous prefix, each
\* with its directory; one directory more may follow, a tail.
IsReadable(t) ==
    \E n \in Versions :
        /\ Committed(t) = 1..n
        /\ \A m \in 1..n : t[Event(m)] = t[Dir(m)] /\ t[Dir(m)] # Torn
        /\ \A m \in Versions : m > n + 1 => ~Has(t, Dir(m))
        /\ \A m \in Versions : m = n + 1 => t[Dir(m)] # Torn

Current(t) == CHOOSE n \in Versions : Committed(t) = 1..n

\* MUTANT: projections are not looked at.
Validated_AnyProjection(t) == IsReadable(t)

\* _validate_store: readable, and capture.yaml needs no rebuild.
Validated(t) == IsReadable(t) /\ t[Projection] = Current(t)

\* _assert_compatible_subset
IsPartOf(t, u) == \A f \in Files : Has(t, f) => t[f] = u[f]

-----------------------------------------------------------------------------
(* Locks and ends                                                          *)

Goto(p, step) == pc' = [pc EXCEPT ![p] = step]

\* Every lock p holds is given back, by leaving its with-block or by dying.
FreeLocks(p) ==
    /\ lock' = [r \in Roots |-> IF lock[r] = p THEN Nobody ELSE lock[r]]
    /\ initLock' = IF initLock = p THEN Nobody ELSE initLock

Forget(p) ==
    /\ Goto(p, "idle")
    /\ job' = [job EXCEPT ![p] = NoJob]
    /\ snap' = [snap EXCEPT ![p] = Empty]

\* The call ends, with a failure result if it got no further.
End(p) == Forget(p) /\ FreeLocks(p)

Acquire(p, r, step) ==
    /\ lock[r] = Nobody
    /\ lock' = [lock EXCEPT ![r] = p]
    /\ Goto(p, step)
    /\ UNCHANGED initLock

Waiting(p) == pc[p] \in {"init", "lock", "source", "target"}

\* _wait_or_timeout: ten seconds are over.
Timeout(p) ==
    /\ Waiting(p)
    /\ timeouts > 0
    /\ timeouts' = timeouts - 1
    /\ End(p)
    /\ UNCHANGED <<configVars, tree, receipts, calls, faults>>

\* The process is killed, or the call fails there; what it wrote stays.
Crash(p) ==
    /\ pc[p] # "idle"
    /\ End(p)
    /\ UNCHANGED <<configVars, tree, receipts, calls, bounds>>

Begin(p, j, step) ==
    /\ pc[p] = "idle"
    /\ calls > 0
    /\ calls' = calls - 1
    /\ job' = [job EXCEPT ![p] = j]
    /\ Goto(p, step)
    /\ UNCHANGED <<configVars, tree, locks, snap, receipts, bounds>>

\* A step that touches nothing but p's own state.
Quiet == UNCHANGED <<configVars, tree, receipts, calls, bounds>>

-----------------------------------------------------------------------------
(* append_capture_version                                                  *)

\* _load_capture_environment binds the call to the configured root.
CallAppend(p, r) ==
    Begin(p, [op |-> "append", key |-> r.key, expected |-> r.expected,
              root |-> config], "lock")

AcquireWrite(p) ==
    /\ pc[p] = "lock"
    /\ Acquire(p, job[p].root,
               IF job[p].op = "append" THEN "binding" ELSE "rebuild")
    /\ UNCHANGED <<job, snap>>
    /\ Quiet

\* MUTANT: the binding is not read again under the lock.
CheckBinding_Trusts(p) ==
    /\ pc[p] = "binding"
    /\ Goto(p, "scan")
    /\ UNCHANGED <<locks, job, snap>>
    /\ Quiet

\* _locked_config_binding_is_current
CheckBinding(p) ==
    /\ pc[p] = "binding"
    /\ IF config = job[p].root
       THEN Goto(p, "scan") /\ UNCHANGED <<locks, job, snap>>
       ELSE End(p)
    /\ Quiet

Mine(p) == tree[job[p].root]

Replay(p) == {n \in Committed(Mine(p)) : Mine(p)[Event(n)] = job[p].key}

\* The next version is free, or holds the tail of this very request.
MayAppend(p) ==
    LET next == job[p].expected + 1
    IN  /\ IsReadable(Mine(p))
        /\ Current(Mine(p)) = job[p].expected
        /\ next \in Versions
        /\ Mine(p)[Dir(next)] \in {NoFile, job[p].key}

Scan(p) ==
    /\ pc[p] = "scan"
    /\ IF Replay(p) # {}
       THEN /\ receipts' = receipts \cup
                   {[key |-> job[p].key, ver |-> n] : n \in Replay(p)}
            /\ End(p)
       ELSE /\ UNCHANGED receipts
            /\ IF MayAppend(p)
               THEN Goto(p, "version") /\ UNCHANGED <<locks, job, snap>>
               ELSE End(p)
    /\ UNCHANGED <<configVars, tree, calls, bounds>>

PutFile(p, r, f, content, step) ==
    /\ tree' = [tree EXCEPT ![r][f] = content]
    /\ Goto(p, step)
    /\ UNCHANGED <<configVars, locks, job, snap, receipts, calls, bounds>>

PlaceVersion(p) ==
    /\ pc[p] = "version"
    /\ PutFile(p, job[p].root, Dir(job[p].expected + 1), job[p].key, "event")

PlaceEvent(p) ==
    /\ pc[p] = "event"
    /\ PutFile(p, job[p].root, Event(job[p].expected + 1), job[p].key,
               "project")

\* capture.yaml is replaced, or left behind with a warning; the receipt is
\* given in either case.
Project(p) ==
    /\ pc[p] = "project"
    /\ \/ tree' = [tree EXCEPT ![job[p].root][Projection] =
                      job[p].expected + 1]
          /\ UNCHANGED faults
       \/ faults > 0 /\ faults' = faults - 1 /\ UNCHANGED tree
    /\ receipts' = receipts \cup
           {[key |-> job[p].key, ver |-> job[p].expected + 1]}
    /\ End(p)
    /\ UNCHANGED <<configVars, calls, timeouts>>

-----------------------------------------------------------------------------
(* rebuild_capture_store_derived_state                                     *)

CallRebuild(p) == Begin(p, [op |-> "rebuild", root |-> config], "lock")

\* Plan and replacement; the binding is not read again under the lock.
Rebuild(p) ==
    /\ pc[p] = "rebuild"
    /\ IF IsReadable(Mine(p))
       THEN tree' = [tree EXCEPT ![job[p].root][Projection] = Current(Mine(p))]
       ELSE UNCHANGED tree
    /\ End(p)
    /\ UNCHANGED <<configVars, receipts, calls, bounds>>

-----------------------------------------------------------------------------
(* migrate_capture_store                                                   *)

\* _prepare_request: the configuration names the source, or the target
\* already; the source is a store.
CallMigrate(p, s, d) ==
    /\ s # d
    /\ config \in {s, d}
    /\ tree[s] # Empty
    /\ Begin(p, [op |-> "migrate", source |-> s, target |-> d,
                 again |-> config = d, edition |-> edition], "init")

\* MUTANT: what was prepared before the wait is taken for granted.
AcquireInit_Trusts(p) ==
    /\ pc[p] = "init"
    /\ initLock = Nobody
    /\ initLock' = p
    /\ Goto(p, "source")
    /\ UNCHANGED <<lock, job, snap>>
    /\ Quiet

\* MUTANT: migrations do not exclude each other.
AcquireInit_Shared(p) ==
    /\ pc[p] = "init"
    /\ IF edition = job[p].edition
       THEN Goto(p, "source") /\ UNCHANGED <<locks, job, snap>>
       ELSE End(p)
    /\ Quiet

\* The request is prepared once more under the lock and has to come out the
\* same, the identity of the configuration file included.
AcquireInit(p) ==
    /\ pc[p] = "init"
    /\ initLock = Nobody
    /\ IF edition = job[p].edition
       THEN /\ initLock' = p
            /\ Goto(p, "source")
            /\ UNCHANGED <<lock, job, snap>>
       ELSE End(p)
    /\ Quiet

AcquireSource(p) ==
    /\ pc[p] = "source"
    /\ Acquire(p, job[p].source, "validate")
    /\ UNCHANGED <<job, snap>>
    /\ Quiet

\* MUTANT: the source is read but its lock is given back.
ValidateSource_Unlocks(p) ==
    /\ pc[p] = "validate"
    /\ IF Validated(tree[job[p].source])
       THEN /\ snap' = [snap EXCEPT ![p] = tree[job[p].source]]
            /\ lock' = [lock EXCEPT ![job[p].source] = Nobody]
            /\ Goto(p, "target")
            /\ UNCHANGED <<initLock, job>>
       ELSE End(p)
    /\ Quiet

\* The source is validated and its snapshot taken; a target that is not part
\* of it is refused before its lock is asked for.
ValidateSource(p) ==
    /\ pc[p] = "validate"
    /\ IF /\ Validated(tree[job[p].source])
          /\ job[p].again
                \/ IsPartOf(tree[job[p].target], tree[job[p].source])
       THEN /\ snap' = [snap EXCEPT ![p] = tree[job[p].source]]
            /\ Goto(p, "target")
            /\ UNCHANGED <<locks, job>>
       ELSE End(p)
    /\ Quiet

\* MUTANT: the configuration is switched before anything is copied.
AcquireTarget_Switches(p) ==
    /\ pc[p] = "target"
    /\ Acquire(p, job[p].target, "compare")
    /\ config' = job[p].target
    /\ UNCHANGED <<edition, tree, job, snap, receipts, calls, bounds>>

AcquireTarget(p) ==
    /\ pc[p] = "target"
    /\ Acquire(p, job[p].target, IF job[p].again THEN "verify" ELSE "compare")
    /\ UNCHANGED <<job, snap>>
    /\ Quiet

\* The target is compared once more, now under its lock.
CompareTarget(p) ==
    /\ pc[p] = "compare"
    /\ IF IsPartOf(tree[job[p].target], snap[p])
       THEN Goto(p, "copy") /\ UNCHANGED <<locks, job, snap>>
       ELSE End(p)
    /\ Quiet

Missing(p) == {f \in Files : Has(snap[p], f) /\ ~Has(tree[job[p].target], f)}

IsNextFile(p, f) == f \in Missing(p) /\ \A g \in Missing(p) : f <= g

\* _copy_new_file: the destination is created and filled in place.
StartCopy(p) ==
    /\ pc[p] = "copy"
    /\ \E f \in Missing(p) :
          /\ IsNextFile(p, f)
          /\ PutFile(p, job[p].target, f, Torn, "copying")

FinishCopy(p) ==
    /\ pc[p] = "copying"
    /\ \E f \in Files :
          /\ tree[job[p].target][f] = Torn
          /\ PutFile(p, job[p].target, f, snap[p][f], "copy")

\* A read, write or flush error: the destination keeps what was written.
CopyFails(p) ==
    /\ pc[p] = "copying"
    /\ faults > 0
    /\ faults' = faults - 1
    /\ End(p)
    /\ UNCHANGED <<configVars, tree, receipts, calls, timeouts>>

\* _assert_exact_snapshot
CopyDone(p) ==
    /\ pc[p] = "copy"
    /\ Missing(p) = {}
    /\ IF tree[job[p].target] = snap[p]
       THEN Goto(p, "verify") /\ UNCHANGED <<locks, job, snap>>
       ELSE End(p)
    /\ Quiet

\* _validate_store of the target.
VerifyTarget(p) ==
    /\ pc[p] = "verify"
    /\ IF Validated(tree[job[p].target])
       THEN /\ Goto(p, IF job[p].again THEN "report" ELSE "switch")
            /\ UNCHANGED <<locks, job, snap>>
       ELSE End(p)
    /\ Quiet

\* _switch_config: a durable temporary file, one replace, and a readback that
\* decides, whatever the replace raised.
Switch(p) ==
    /\ pc[p] = "switch"
    /\ IF config = job[p].source /\ edition = job[p].edition
       THEN /\ config' = job[p].target
            /\ edition' = edition + 1
            /\ Goto(p, "report")
            /\ UNCHANGED <<locks, job, snap>>
       ELSE End(p) /\ UNCHANGED configVars
    /\ UNCHANGED <<tree, receipts, calls, bounds>>

\* The replace fails, or it is done and the readback fails: the caller is told
\* of a failure either way.
SwitchFails(p) ==
    /\ pc[p] = "switch"
    /\ faults > 0
    /\ faults' = faults - 1
    /\ \/ UNCHANGED configVars
       \/ config' = job[p].target /\ edition' = edition + 1
    /\ End(p)
    /\ UNCHANGED <<tree, receipts, calls, timeouts>>

Report(p) ==
    /\ pc[p] = "report"
    /\ End(p)
    /\ Quiet

-----------------------------------------------------------------------------
Init ==
    /\ config = FirstRoot /\ edition = 0
    /\ tree = [r \in Roots |-> IF r = FirstRoot THEN FirstTree ELSE Empty]
    /\ initLock = Nobody
    /\ lock = [r \in Roots |-> Nobody]
    /\ pc = [p \in Procs |-> "idle"]
    /\ job = [p \in Procs |-> NoJob]
    /\ snap = [p \in Procs |-> Empty]
    /\ receipts = {[key |-> 1, ver |-> 1]}
    /\ calls = MaxCalls
    /\ faults = MaxFaults
    /\ timeouts = MaxTimeouts

Call(p) ==
    \/ \E r \in Requests : CallAppend(p, r)
    \/ CallRebuild(p)
    \/ \E m \in Moves : CallMigrate(p, m[1], m[2])

Append(p) ==
    \/ CheckBinding(p) \/ Scan(p)
    \/ PlaceVersion(p) \/ PlaceEvent(p) \/ Project(p)

Migrate(p) ==
    \/ AcquireInit(p) \/ AcquireSource(p) \/ ValidateSource(p)
    \/ AcquireTarget(p) \/ CompareTarget(p) \/ StartCopy(p) \/ FinishCopy(p) \/ CopyFails(p)
    \/ CopyDone(p) \/ VerifyTarget(p) \/ Switch(p) \/ SwitchFails(p)
    \/ Report(p)

Run(p) == AcquireWrite(p) \/ Append(p) \/ Rebuild(p) \/ Migrate(p)

Next == \E p \in Procs : Call(p) \/ Run(p) \/ Timeout(p) \/ Crash(p)

Spec == Init /\ [][Next]_vars

\* A process that is not killed takes its next step when it can.
FairSpec == Spec /\ \A p \in Procs : WF_vars(Run(p))

-----------------------------------------------------------------------------
(* Properties                                                              *)

\* Whatever was reported saved is in the store the configuration names, under
\* the version it was reported as, however often the store was moved between.
ReceiptsMoveAlong ==
    \A c \in receipts :
        /\ tree[config][Event(c.ver)] = c.key
        /\ tree[config][Dir(c.ver)] = c.key

\* The configured root is always a readable store, never a copy in progress.
ConfigNamesAStore == IsReadable(tree[config])

\* Roots never fork: where two of them hold the same version, they hold the
\* same request's, and a request has one version number in all of them.
RootsDoNotFork ==
    \A r, s \in Roots : \A n, m \in Versions :
        LET a == tree[r][Dir(n)]
            b == tree[s][Dir(m)]
        IN  ({a, b} \cap {NoFile, Torn} = {}) => (n = m <=> a = b)

\* A root the configuration has left behind changes no more, unless a
\* migration copies into it; writers and rebuilds that had bound to it before
\* the switch leave it alone.
LeftRootsAreFrozen ==
    [][\A r \in Roots :
          tree'[r] # tree[r] =>
              \/ r = config
              \/ \E p \in Procs : /\ pc[p] \in {"copy", "copying"}
                                  /\ job[p].target = r
                                  /\ lock[r] = p]_vars

\* What a finished migration reports: the configuration names the target, and
\* the target holds everything committed in the source.
ReportsAreTrue ==
    \A p \in Procs : pc[p] = "report" =>
        /\ config = job[p].target
        /\ \A n \in Committed(tree[job[p].source]) :
              tree[config][Dir(n)] = tree[job[p].source][Dir(n)]

\* Calls end even if no wait ever times out: locks are taken in an order that
\* leaves nobody waiting for himself through others.
CallsEnd == \A p \in Procs : pc[p] # "idle" ~> pc[p] = "idle"
=============================================================================
