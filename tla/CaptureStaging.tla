--------------------------- MODULE CaptureStaging ---------------------------
(***************************************************************************)
(* Staging trees and who may remove them (store.py, locking.py).  A write  *)
(* prepares its body in .staging/<transaction> before it waits for the     *)
(* write lock; under the lock it first sweeps the trees that calls killed  *)
(* earlier have left.  A kernel lock on the tree's active.lock, the lease, *)
(* tells a tree in use from an abandoned one.                              *)
(*                                                                         *)
(* Trees are numbered by the calls that make them.  Outside the code: the  *)
(* kernel frees the locks of the dead, a second lock on a file is refused, *)
(* and a file that somebody has open cannot be unlinked (Windows).         *)
(***************************************************************************)
EXTENDS Naturals

CONSTANTS Procs,      \* processes that write
          Nobody,     \* holder of a free lock
          MaxCalls,   \* bound: calls made
          MaxFaults   \* bound: I/O errors

ASSUME StagingAssumption ==
    /\ Nobody \notin Procs
    /\ {MaxCalls, MaxFaults} \subseteq Nat

VARIABLES tree,       \* tree[t]: what .staging/<t> holds
          leaseOf,    \* leaseOf[t]: holder of the kernel lock on active.lock
          handles,    \* handles[t]: processes with active.lock open
          storeLock,  \* holder of the write lock
          pc,         \* next step of each process
          mine,       \* number of its call
          target,     \* the tree it is sweeping or about to sweep
          todo,       \* trees it listed and has not looked at
          due,        \* history: trees it listed that were abandoned then
          committed,  \* trees whose body was renamed into items
          calls,      \* calls made
          faults      \* I/O errors still allowed

kernel == <<leaseOf, handles, storeLock>>
local  == <<mine, target, todo, due>>
rest   == <<committed, calls, faults>>
vars   == <<tree, kernel, pc, local, rest>>

Trees == 1..MaxCalls

\* dir: the directory; marker: transaction.yaml; lease: active.lock;
\* body: the payload and the rest of the item.
NoTree == [dir |-> FALSE, marker |-> "none", lease |-> FALSE, body |-> FALSE]
Goto(p, step) == pc' = [pc EXCEPT ![p] = step]

Edit(t, shape) == tree' = [tree EXCEPT ![t] = shape]

CloseLease(p, t) ==
    /\ leaseOf' = [leaseOf EXCEPT ![t] = IF @ = p THEN Nobody ELSE @]
    /\ handles' = [handles EXCEPT ![t] = @ \ {p}]
    /\ UNCHANGED storeLock

\* Some live call made t.
Owned(t) == \E p \in Procs : pc[p] # "idle" /\ mine[p] = t

-----------------------------------------------------------------------------
(* Making a tree: directory, lease, marker, body                           *)

Mkdir(p) ==
    /\ pc[p] = "idle"
    /\ calls < MaxCalls
    /\ calls' = calls + 1
    /\ mine' = [mine EXCEPT ![p] = calls + 1]
    /\ Edit(calls + 1, [NoTree EXCEPT !.dir = TRUE])
    /\ Goto(p, "open")
    /\ UNCHANGED <<kernel, target, todo, due, committed, faults>>

\* _open_lock_file creates the file, the byte is locked afterwards.
OpenLease(p) ==
    /\ pc[p] = "open"
    /\ Edit(mine[p], [tree[mine[p]] EXCEPT !.lease = TRUE])
    /\ handles' = [handles EXCEPT ![mine[p]] = @ \cup {p}]
    /\ Goto(p, "lock")
    /\ UNCHANGED <<leaseOf, storeLock, local, rest>>

\* Never contended: nobody opens the lease of a tree without marker.
LockLease(p) ==
    /\ pc[p] = "lock"
    /\ leaseOf[mine[p]] = Nobody
    /\ leaseOf' = [leaseOf EXCEPT ![mine[p]] = p]
    /\ Goto(p, "mark")
    /\ UNCHANGED <<tree, handles, storeLock, local, rest>>

\* _discard_unmarked_staging_root: no lease, no tree.
LeaseFails(p) ==
    /\ pc[p] \in {"open", "lock"}
    /\ faults > 0
    /\ faults' = faults - 1
    /\ Edit(mine[p], NoTree)
    /\ CloseLease(p, mine[p])
    /\ Goto(p, "idle")
    /\ UNCHANGED <<local, committed, calls>>

StartMarker(p) ==
    /\ pc[p] = "mark"
    /\ Edit(mine[p], [tree[mine[p]] EXCEPT !.marker = "torn"])
    /\ Goto(p, "marking")
    /\ UNCHANGED <<kernel, local, rest>>

FinishMarker(p) ==
    /\ pc[p] = "marking"
    /\ Edit(mine[p], [tree[mine[p]] EXCEPT !.marker = "whole"])
    /\ Goto(p, "fill")
    /\ UNCHANGED <<kernel, local, rest>>

\* The cleanup refuses a tree without valid marker and leaves it.
MarkerFails(p) ==
    /\ pc[p] = "marking"
    /\ faults > 0
    /\ faults' = faults - 1
    /\ CloseLease(p, mine[p])
    /\ Goto(p, "idle")
    /\ UNCHANGED <<tree, local, committed, calls>>

\* The payload is written, before the write lock is asked for.
Fill(p) ==
    /\ pc[p] = "fill"
    /\ Edit(mine[p], [tree[mine[p]] EXCEPT !.body = TRUE])
    /\ Goto(p, "wait")
    /\ UNCHANGED <<kernel, local, rest>>

\* The text is refused, or the write lock not given: on to the cleanup.
GiveUp(p) ==
    /\ pc[p] \in {"fill", "wait"}
    /\ Goto(p, "body")
    /\ target' = [target EXCEPT ![p] = mine[p]]
    /\ UNCHANGED <<tree, kernel, mine, todo, due, rest>>

-----------------------------------------------------------------------------
(* Under the write lock: recovery, then the commit                         *)

Abandoned(t) ==
    /\ ~Owned(t)
    /\ tree[t].marker = "whole" /\ tree[t].lease
    /\ leaseOf[t] = Nobody /\ handles[t] = {}

LockStore(p) ==
    /\ pc[p] = "wait"
    /\ storeLock = Nobody
    /\ storeLock' = p
    /\ todo' = [todo EXCEPT ![p] = {t \in Trees : tree[t].dir} \ {mine[p]}]
    /\ due' = [due EXCEPT ![p] = {t \in Trees : Abandoned(t)}]
    /\ Goto(p, "recover")
    /\ UNCHANGED <<tree, leaseOf, handles, mine, target, rest>>

\* A readable marker and a lease file.
Reclaimable(t) == tree[t].marker = "whole" /\ tree[t].lease

Looked(p, t) == todo' = [todo EXCEPT ![p] = @ \ {t}]

\* Trees are taken in any order; what is not provably abandoned stays.
Skip(p) ==
    /\ pc[p] = "recover"
    /\ \E t \in todo[p] : ~Reclaimable(t) /\ Looked(p, t)
    /\ UNCHANGED <<tree, kernel, pc, mine, target, due, rest>>

Inspect(p) ==
    /\ pc[p] = "recover"
    /\ \E t \in todo[p] :
          /\ Reclaimable(t)
          /\ Looked(p, t)
          /\ target' = [target EXCEPT ![p] = t]
    /\ Goto(p, "openOther")
    /\ UNCHANGED <<tree, kernel, mine, due, rest>>

\* create_if_missing=False: a lease that is gone by now is not made anew.
OpenOther(p) ==
    /\ pc[p] = "openOther"
    /\ IF tree[target[p]].lease
       THEN /\ handles' = [handles EXCEPT ![target[p]] = @ \cup {p}]
            /\ Goto(p, "tryLock")
       ELSE Goto(p, "recover") /\ UNCHANGED handles
    /\ UNCHANGED <<tree, leaseOf, storeLock, local, rest>>

\* MUTANT: a lease held by another process does not stop the sweep.
TryLock_Steals(p) ==
    /\ pc[p] = "tryLock"
    /\ leaseOf' = [leaseOf EXCEPT ![target[p]] = p]
    /\ Goto(p, "body")
    /\ UNCHANGED <<tree, handles, storeLock, local, rest>>

\* No waiting: a contended lease means the tree is in use.  Identities are
\* compared once more before anything is removed.
TryLock(p) ==
    /\ pc[p] = "tryLock"
    /\ IF leaseOf[target[p]] = Nobody /\ Reclaimable(target[p])
       THEN /\ leaseOf' = [leaseOf EXCEPT ![target[p]] = p]
            /\ Goto(p, "body")
            /\ UNCHANGED <<handles, storeLock>>
       ELSE CloseLease(p, target[p]) /\ Goto(p, "recover")
    /\ UNCHANGED <<tree, local, rest>>

\* The item is renamed away, or the request is refused.
Commit(p) ==
    /\ pc[p] = "recover"
    /\ todo[p] = {}
    /\ \/ /\ tree[mine[p]].body
          /\ Edit(mine[p], [tree[mine[p]] EXCEPT !.body = FALSE])
          /\ committed' = committed \cup {mine[p]}
       \/ UNCHANGED <<tree, committed>>
    /\ storeLock' = Nobody
    /\ target' = [target EXCEPT ![p] = mine[p]]
    /\ Goto(p, "body")
    /\ UNCHANGED <<leaseOf, handles, mine, todo, due, calls, faults>>

-----------------------------------------------------------------------------
(* _cleanup_capture_staging: of the own tree, or of an abandoned one       *)

Swept(p) == Goto(p, IF target[p] = mine[p] THEN "idle" ELSE "recover")

\* MUTANT: the lease file goes first.
SweepBody_LeaseFirst(p) ==
    /\ pc[p] = "body"
    /\ Edit(target[p], [tree[target[p]] EXCEPT !.lease = FALSE])
    /\ Goto(p, "release")
    /\ UNCHANGED <<kernel, local, rest>>

\* The files of the item go one by one; until all are gone there is a body.
SweepBody(p) ==
    /\ pc[p] = "body"
    /\ Edit(target[p], [tree[target[p]] EXCEPT !.body = FALSE])
    /\ Goto(p, "release")
    /\ UNCHANGED <<kernel, local, rest>>

\* MUTANT: the lease is still held when its file is to be unlinked.
ReleaseLease_Keeps(p) ==
    /\ pc[p] = "release"
    /\ Goto(p, "unlease")
    /\ UNCHANGED <<tree, kernel, local, rest>>

ReleaseLease(p) ==
    /\ pc[p] = "release"
    /\ CloseLease(p, target[p])
    /\ Goto(p, "unlease")
    /\ UNCHANGED <<tree, local, rest>>

\* Refused while another process has the file open: it is sweeping now.
UnlinkLease(p) ==
    /\ pc[p] = "unlease"
    /\ IF tree[target[p]].lease /\ handles[target[p]] = {}
       THEN /\ Edit(target[p], [tree[target[p]] EXCEPT !.lease = FALSE])
            /\ Goto(p, "unmark")
       ELSE Swept(p) /\ UNCHANGED tree
    /\ UNCHANGED <<kernel, local, rest>>

UnlinkMarker(p) ==
    /\ pc[p] = "unmark"
    /\ Edit(target[p], [tree[target[p]] EXCEPT !.marker = "none"])
    /\ Goto(p, "rmdir")
    /\ UNCHANGED <<kernel, local, rest>>

Rmdir(p) ==
    /\ pc[p] = "rmdir"
    /\ Edit(target[p], NoTree)
    /\ Swept(p)
    /\ UNCHANGED <<kernel, local, rest>>

\* An unlink raises: the lease is released, the rest stays.
SweepFails(p) ==
    /\ pc[p] \in {"body", "release", "unlease", "unmark", "rmdir"}
    /\ faults > 0
    /\ faults' = faults - 1
    /\ CloseLease(p, target[p])
    /\ Swept(p)
    /\ UNCHANGED <<tree, local, committed, calls>>

\* The process is killed.
Crash(p) ==
    /\ pc[p] # "idle"
    /\ Goto(p, "idle")
    /\ leaseOf' = [t \in Trees |-> IF leaseOf[t] = p THEN Nobody
                                   ELSE leaseOf[t]]
    /\ handles' = [t \in Trees |-> handles[t] \ {p}]
    /\ storeLock' = IF storeLock = p THEN Nobody ELSE storeLock
    /\ UNCHANGED <<tree, local, rest>>

-----------------------------------------------------------------------------
Init ==
    /\ tree = [t \in Trees |-> NoTree]
    /\ leaseOf = [t \in Trees |-> Nobody]
    /\ handles = [t \in Trees |-> {}]
    /\ storeLock = Nobody
    /\ pc = [p \in Procs |-> "idle"]
    /\ mine = [p \in Procs |-> 0]
    /\ target = [p \in Procs |-> 0]
    /\ todo = [p \in Procs |-> {}]
    /\ due = [p \in Procs |-> {}]
    /\ committed = {}
    /\ calls = 0
    /\ faults = MaxFaults

Create(p) ==
    \/ Mkdir(p) \/ OpenLease(p) \/ LockLease(p) \/ LeaseFails(p)
    \/ StartMarker(p) \/ FinishMarker(p) \/ MarkerFails(p)
    \/ Fill(p) \/ GiveUp(p)

Recover(p) ==
    \/ LockStore(p) \/ Skip(p) \/ Inspect(p) \/ OpenOther(p) \/ TryLock(p)
    \/ Commit(p)

Sweep(p) ==
    \/ SweepBody(p) \/ ReleaseLease(p) \/ UnlinkLease(p) \/ UnlinkMarker(p)
    \/ Rmdir(p) \/ SweepFails(p)

Next == \E p \in Procs : Create(p) \/ Recover(p) \/ Sweep(p) \/ Crash(p)

Spec == Init /\ [][Next]_vars

-----------------------------------------------------------------------------
(* Properties                                                              *)

\* Nobody sweeps the tree of a call that still needs it, from its first byte
\* to the rename that commits it, although it is filled outside any lock.
TreesInUseAreKept ==
    \A p \in Procs :
        pc[p] \in {"fill", "wait", "recover", "openOther", "tryLock"} =>
            /\ tree[mine[p]].marker = "whole"
            /\ tree[mine[p]].lease
            /\ leaseOf[mine[p]] = p
            /\ pc[p] # "fill" => tree[mine[p]].body

\* A body that no call owns any more lies in a tree the next writer may sweep,
\* wherever its call, or a sweep of it, was killed or failed: saved text is
\* never stranded in staging.
BodiesAreReclaimable ==
    \A t \in Trees : (tree[t].body /\ ~Owned(t)) => Reclaimable(t)

\* Recovery misses nothing: what had been abandoned when the lock was taken is
\* gone when the commit comes, unless an I/O error got in the way.
AbandonedAreSwept ==
    \A p \in Procs :
        (pc[p] = "recover" /\ todo[p] = {} /\ faults = MaxFaults) =>
            \A t \in due[p] : ~tree[t].dir
=============================================================================
