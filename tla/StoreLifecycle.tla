--------------------------- MODULE StoreLifecycle ---------------------------
(***************************************************************************)
(* The life of a Capture Store around its everyday writes: init (store.py) *)
(* with its owned transaction and configuration temporary, verify, backup  *)
(* and restore (management.py) and the rebuild of derived state            *)
(* (recovery.py), beside captures of new items.  Several configurations    *)
(* may ask for one root; initialization locks belong to a configuration,   *)
(* write locks to a root.  Any process may be killed between two steps.    *)
(*                                                                         *)
(* A tree is what lies under one root: the store id in capture-store.yaml, *)
(* the required directories and the items, each of one version (chains are *)
(* the subject of CaptureStore, moves that of StoreMigration).  A bundle b *)
(* is a directory with backup.json beside the tree capture-store, tree[b]. *)
(***************************************************************************)
EXTENDS Integers

CONSTANTS Procs,      \* processes that call the public operations
          Configs,    \* configuration files
          Stores,     \* directories a store may live in, absent to begin with
          Bundles,    \* directories a backup may be written to
          Items,      \* texts that may be captured, in the order of their paths
          Asked,      \* Asked[n]: the calls of which each may be made n times
          MaxCalls,   \* bound: calls made in all
          MaxCrashes, \* bound: processes killed, calls cut short
          Nobody      \* holder of a free lock

Roots == Stores \cup Bundles

NoRoot == "no-root"

Calls == UNION {Asked[n] : n \in DOMAIN Asked}

ASSUME LifecycleAssumption ==
    /\ Nobody \notin Procs
    /\ NoRoot \notin Roots
    /\ Stores \cap Bundles = {}
    /\ Items \subseteq Nat
    /\ \A call \in Calls :
          \/ call.op = "init" /\ call.cfg \in Configs /\ call.root \in Roots
          \/ call.op = "capture" /\ call.cfg \in Configs /\ call.item \in Items
          \/ call.op \in {"rebuild", "verify"} /\ call.cfg \in Configs
          \/ call.op = "backup" /\ call.cfg \in Configs /\ call.bundle \in Bundles
          \/ call.op = "restore" /\ call.bundle \in Bundles /\ call.to \in Stores
    /\ {MaxCalls, MaxCrashes} \subseteq Nat

VARIABLES config,    \* config[c]: capture.root named by c, or NoRoot
          tree,      \* tree[r]: what lies under the root r
          manifest,  \* manifest[b]: the directory b and its backup.json
          debris,    \* init transactions and configuration temporaries
          initLock,  \* initLock[c]: holder of <c>.init.lock
          lock,      \* lock[r]: holder of r/journal/capture-write.lock
          pc,        \* next step of each process
          job,       \* the call it works on and what it has read so far
          left,      \* left[call]: how often it may still be made
          calls,     \* calls still allowed
          minted,    \* transactions and store ids drawn
          crashes,   \* crashes still allowed
          answers,   \* history: successful results
          copies     \* history: copies[r], the copies begun into the root r

locks  == <<initLock, lock>>
disk   == <<config, tree, manifest, debris>>
bounds == <<left, calls, crashes>>
vars   == <<disk, locks, pc, job, minted, bounds, answers, copies>>

NoFile == 0                             \* an absent file
Torn   == -1                            \* a file whose writing was cut short

\* An item: no directory; copied here: directories only, some of its files, a
\* file cut short, whole; captured here: without capture.yaml, with it.
Copied     == {"bare", "part", "torn", "whole"}
Captured   == {"unprojected", "captured"}
ItemStates == {"none"} \cup Copied \cup Captured

NoTree == [dir |-> FALSE, id |-> NoFile, layout |-> FALSE,
           items |-> [i \in Items |-> "none"]]

Built(id) == [NoTree EXCEPT !.dir = TRUE, !.id = id, !.layout = TRUE]

\* The bundle's directory: absent, without, with a torn or a whole backup.json.
NoLeaf   == [state |-> "absent"]
NoBackup == [state |-> "none"]
HalfJson == [state |-> "torn"]
Manifest(id, items) == [state |-> "whole", id |-> id, items |-> items]

NoJob == [op |-> "none"]

Present(t) == {i \in Items : t.items[i] \in Captured \cup {"whole"}}

\* _inspect_store: the root, a readable capture-store.yaml and the required
\* directories; items are not looked at.
IsStore(t) == t.dir /\ t.id \notin {NoFile, Torn} /\ t.layout

\* _load_disk_capture_version_chain of every item: a directory without its
\* event, or an event without its version, fails the whole scan.
Readable(t) == IsStore(t) /\ \A i \in Items :
                                t.items[i] \in {"none", "whole"} \cup Captured

\* _validate_store: readable, and nothing is left to rebuild.
Validated(t) == Readable(t) /\ \A i \in Items : t.items[i] # "unprojected"

\* _bundle_entries_are_exact: backup.json, capture-store and nothing else.
IsBundle(b) == /\ manifest[b].state \in {"torn", "whole"}
               /\ tree[b].dir
               /\ \A d \in debris : d.kind = "txn" => d.root # b

-----------------------------------------------------------------------------
(* Calls, locks and ends                                                   *)

Goto(p, step) == pc' = [pc EXCEPT ![p] = step]

FreeLocks(p) ==
    /\ lock' = [r \in Roots |-> IF lock[r] = p THEN Nobody ELSE lock[r]]
    /\ initLock' = [c \in Configs |-> IF initLock[c] = p THEN Nobody
                                      ELSE initLock[c]]

\* The call is over: every with-block is left, or the process is dead.
End(p) ==
    /\ Goto(p, "idle")
    /\ job' = [job EXCEPT ![p] = NoJob]
    /\ FreeLocks(p)

Answer(p, a) == answers' = answers \cup {a} /\ End(p)

Refuse(p) == End(p) /\ UNCHANGED answers

\* On to the next step with nothing learnt.
Step(p, step) == Goto(p, step) /\ UNCHANGED <<job, locks, answers>>

\* The process is killed, a wait is given up or an I/O error ends the call
\* there; what was written stays.
Crash(p) ==
    /\ pc[p] # "idle"
    /\ crashes > 0
    /\ crashes' = crashes - 1
    /\ Refuse(p)
    /\ UNCHANGED <<disk, left, calls, minted, copies>>

Begin(p, call, step, seen) ==
    /\ pc[p] = "idle"
    /\ left[call] > 0
    /\ calls > 0
    /\ calls' = calls - 1
    /\ left' = [left EXCEPT ![call] = @ - 1]
    /\ job' = [job EXCEPT ![p] = seen]
    /\ Goto(p, step)
    /\ UNCHANGED <<disk, locks, minted, crashes, answers, copies>>

Acquire(p, r, step) ==
    /\ lock[r] = Nobody
    /\ lock' = [lock EXCEPT ![r] = p]
    /\ Goto(p, step)
    /\ UNCHANGED <<disk, initLock, job, minted, bounds, answers, copies>>

PutTree(r, t) == tree' = [tree EXCEPT ![r] = t]

-----------------------------------------------------------------------------
(* init_capture_store                                                      *)

\* The directory that is to hold the root is there.
HasParent(r) == r \in Bundles => manifest[r].state # "absent"

\* _prepare_request, once before and once under the lock.
CallInit(p, call) ==
    /\ call.op = "init"
    /\ HasParent(call.root)
    /\ Begin(p, call, "init-lock",
             [op |-> "init", cfg |-> call.cfg, root |-> call.root, own |-> 0,
              victim |-> 0, id |-> NoFile, created |-> FALSE, next |-> "look"])

AcquireInit(p) ==
    /\ pc[p] = "init-lock"
    /\ initLock[job[p].cfg] = Nobody
    /\ initLock' = [initLock EXCEPT ![job[p].cfg] = p]
    /\ Goto(p, "look")
    /\ UNCHANGED <<disk, lock, job, minted, bounds, answers, copies>>

\* First look at configuration and root.
Look(p) ==
    LET t == tree[job[p].root]
        connected == config[job[p].cfg]
        Proceed(next) ==
            /\ Goto(p, "sweep")
            /\ job' = [job EXCEPT ![p].next = next, ![p].id = t.id]
            /\ UNCHANGED <<locks, answers>>
    IN  /\ pc[p] = "look"
        /\ CASE connected = job[p].root /\ IsStore(t) -> Proceed("done")
             [] connected = NoRoot /\ ~t.dir          -> Proceed("build")
             [] connected = NoRoot /\ IsStore(t)      -> Proceed("temp")
             [] OTHER                                 -> Refuse(p)
        /\ UNCHANGED <<disk, minted, bounds, copies>>

\* MUTANT: leftovers of any request are taken for one's own.
Owned_Anybodys(p) ==
    {d \in debris : d.state \in {"marked", "built", "whole"}}

\* Leftovers that prove to be those of this request: a transaction with its
\* marker, a temporary with the bytes this request would write.
Owned(p) == {d \in debris : /\ d.cfg = job[p].cfg
                            /\ d.root = job[p].root
                            /\ d.state \in {"marked", "built", "whole"}}

\* MUTANT: only a request that has to build sweeps.
Sweep_BuildersOnly(p) ==
    /\ pc[p] = "sweep"
    /\ job[p].next # "build" \/ Owned(p) = {}
    /\ Step(p, job[p].next)
    /\ UNCHANGED <<disk, minted, bounds, copies>>

\* _cleanup_recovery_candidates: every owned leftover goes, then on.
Sweep(p) ==
    /\ pc[p] = "sweep"
    /\ Owned(p) = {}
    /\ Step(p, job[p].next)
    /\ UNCHANGED <<disk, minted, bounds, copies>>

\* _remove_owned_transaction: the content first and the marker last ...
SweepTransaction(p) ==
    /\ pc[p] = "sweep"
    /\ \E d \in Owned(p) :
          /\ d.kind = "txn"
          /\ debris' = (debris \ {d}) \cup {[d EXCEPT !.state = "bare"]}
          /\ job' = [job EXCEPT ![p].victim = d.n]
    /\ Goto(p, "rmdir")
    /\ UNCHANGED <<config, tree, manifest, locks, minted, bounds, answers,
                   copies>>

\* ... then the directory, which nobody recognises any more.
RemoveDirectory(p) ==
    /\ pc[p] = "rmdir"
    /\ debris' = {d \in debris : d.n # job[p].victim}
    /\ Step(p, "sweep")
    /\ UNCHANGED <<config, tree, manifest, minted, bounds, copies>>

SweepTemporary(p) ==
    /\ pc[p] = "sweep"
    /\ \E d \in Owned(p) : d.kind = "temp" /\ debris' = debris \ {d}
    /\ UNCHANGED <<config, tree, manifest, locks, pc, job, minted, bounds,
                   answers, copies>>

Litter(p, kind, state) ==
    [kind |-> kind, n |-> minted + 1, cfg |-> job[p].cfg,
     root |-> job[p].root, state |-> state]

\* The record of what p is building right now.
Mine(p) == CHOOSE d \in debris : d.n = job[p].own

SetMine(p, state) ==
    debris' = (debris \ {Mine(p)}) \cup {[Mine(p) EXCEPT !.state = state]}

\* _transaction_path: the directory, not yet marked.
MakeTransaction(p) ==
    /\ pc[p] = "build"
    /\ minted' = minted + 1
    /\ debris' = debris \cup {Litter(p, "txn", "bare")}
    /\ job' = [job EXCEPT ![p].own = minted + 1]
    /\ Goto(p, "mark")
    /\ UNCHANGED <<config, tree, manifest, locks, bounds, answers, copies>>

\* _build_staged_store: transaction.yaml, then directories and manifest.
MarkTransaction(p) ==
    /\ pc[p] = "mark"
    /\ SetMine(p, "marked")
    /\ Step(p, "stage")
    /\ UNCHANGED <<config, tree, manifest, minted, bounds, copies>>

StageStore(p) ==
    /\ pc[p] = "stage"
    /\ SetMine(p, "built")
    /\ Step(p, "place")
    /\ UNCHANGED <<config, tree, manifest, minted, bounds, copies>>

\* MUTANT: the rename replaces what is there.
PlaceStore_Replaces(p) ==
    /\ pc[p] = "place"
    /\ PutTree(job[p].root, Built(job[p].own))
    /\ SetMine(p, "marked")
    /\ job' = [job EXCEPT ![p].created = TRUE]
    /\ Goto(p, "adopt")
    /\ UNCHANGED <<config, manifest, locks, minted, bounds, answers, copies>>

\* commit_directory_no_replace: the store gets its root unless something has
\* appeared there meanwhile.  The transaction's number serves as store id.
PlaceStore(p) ==
    /\ pc[p] = "place"
    /\ IF tree[job[p].root].dir
       THEN UNCHANGED <<tree, debris, job>>
       ELSE /\ PutTree(job[p].root, Built(job[p].own))
            /\ SetMine(p, "marked")
            /\ job' = [job EXCEPT ![p].created = TRUE]
    /\ Goto(p, "adopt")
    /\ UNCHANGED <<config, manifest, locks, minted, bounds, answers, copies>>

\* What is at the root now is adopted, or the call fails; either way the
\* own transaction is cleaned up first (the sweep removes it).
Adopt(p) ==
    LET t == tree[job[p].root]
        accepted == IsStore(t) /\ (job[p].created => t.id = job[p].own)
    IN  /\ pc[p] = "adopt"
        /\ job' = [job EXCEPT ![p].id = t.id, ![p].own = 0,
                              ![p].next = IF accepted THEN "temp" ELSE "fail"]
        /\ Goto(p, "sweep")
        /\ UNCHANGED <<disk, locks, minted, bounds, answers, copies>>

Fail(p) ==
    /\ pc[p] = "fail"
    /\ Refuse(p)
    /\ UNCHANGED <<disk, minted, bounds, copies>>

\* _new_config_temp_path; a kill in between leaves the temporary torn.
OpenTemporary(p) ==
    /\ pc[p] = "temp"
    /\ minted' = minted + 1
    /\ debris' = debris \cup {Litter(p, "temp", "torn")}
    /\ job' = [job EXCEPT ![p].own = minted + 1]
    /\ Goto(p, "fill")
    /\ UNCHANGED <<config, tree, manifest, locks, bounds, answers, copies>>

FillTemporary(p) ==
    /\ pc[p] = "fill"
    /\ SetMine(p, "whole")
    /\ Step(p, "connect")
    /\ UNCHANGED <<config, tree, manifest, minted, bounds, copies>>

\* _connect_config: commit_file_no_replace consumes the temporary; a
\* configuration that is there already is kept and compared in Reopen.
Connect(p) ==
    LET c == job[p].cfg
    IN  /\ pc[p] = "connect"
        /\ config' = [config EXCEPT ![c] = IF @ = NoRoot THEN job[p].root ELSE @]
        /\ debris' = debris \ {Mine(p)}
        /\ job' = [job EXCEPT ![p].own = 0]
        /\ Goto(p, "reopen")
        /\ UNCHANGED <<tree, manifest, locks, minted, bounds, answers, copies>>

\* Configuration and manifest are read once more before success is reported
\* for a new configuration.
Reopen(p) ==
    LET t == tree[job[p].root]
        stands == config[job[p].cfg] = job[p].root /\ IsStore(t) /\ t.id = job[p].id
    IN  /\ pc[p] \in {"reopen", "done"}
        /\ IF pc[p] = "done" \/ stands
           THEN Answer(p, [op |-> "init", cfg |-> job[p].cfg,
                           root |-> job[p].root, id |-> job[p].id,
                           created |-> job[p].created])
           ELSE Refuse(p)
        /\ UNCHANGED <<disk, minted, bounds, copies>>

-----------------------------------------------------------------------------
(* Captures, rebuilds and verification under the write lock                *)

\* The call binds to the store its configuration names.
Bind(p, call, item, to) ==
    LET r == config[call.cfg]
    IN  /\ r # NoRoot
        /\ IsStore(tree[r])
        /\ Begin(p, call, "lock",
                 [op |-> call.op, cfg |-> call.cfg, root |-> r,
                  id |-> tree[r].id, item |-> item, to |-> to, items |-> {}])

CallCapture(p, call) ==
    call.op = "capture" /\ Bind(p, call, call.item, NoRoot)

CallRebuild(p, call) ==
    call.op = "rebuild" /\ Bind(p, call, NoFile, NoRoot)

CallVerify(p, call) ==
    call.op = "verify" /\ Bind(p, call, NoFile, NoRoot)

AcquireWrite(p) == pc[p] = "lock" /\ Acquire(p, job[p].root, job[p].op)

SetItem(p, i, state) ==
    tree' = [tree EXCEPT ![job[p].root].items[i] = state]

\* The scan under the lock: what is there already is answered for, what the
\* scan cannot read is refused, a new item is renamed into place.
Capture(p) ==
    LET t == tree[job[p].root]
        receipt == [op |-> "capture", root |-> job[p].root, id |-> t.id,
                    item |-> job[p].item]
    IN  /\ pc[p] = "capture"
        /\ CASE ~Readable(t) -> Refuse(p) /\ UNCHANGED tree
             [] Readable(t) /\ job[p].item \in Present(t) ->
                    Answer(p, receipt) /\ UNCHANGED tree
             [] OTHER -> SetItem(p, job[p].item, "unprojected")
                         /\ Step(p, "project")
        /\ UNCHANGED <<config, manifest, debris, minted, bounds, copies>>

Project(p) ==
    /\ pc[p] = "project"
    /\ SetItem(p, job[p].item, "captured")
    /\ Answer(p, [op |-> "capture", root |-> job[p].root,
                  id |-> tree[job[p].root].id, item |-> job[p].item])
    /\ UNCHANGED <<config, manifest, debris, minted, bounds, copies>>

\* One capture.yaml after the other, of a store that can be read.
Rebuild(p) ==
    LET t == tree[job[p].root]
        todo == {i \in Items : t.items[i] = "unprojected"}
    IN  /\ pc[p] = "rebuild"
        /\ IF Readable(t) /\ todo # {}
           THEN /\ \E i \in todo : SetItem(p, i, "captured")
                /\ Step(p, "rebuild")
           ELSE Refuse(p) /\ UNCHANGED tree
        /\ UNCHANGED <<config, manifest, debris, minted, bounds, copies>>

\* _configured_store_unchanged
StillBound(p) == /\ config[job[p].cfg] = job[p].root
                 /\ IsStore(tree[job[p].root])
                 /\ tree[job[p].root].id = job[p].id

Verify(p) ==
    LET t == tree[job[p].root]
    IN  /\ pc[p] = "verify"
        /\ IF StillBound(p) /\ Validated(t)
           THEN Answer(p, [op |-> "verify", root |-> job[p].root, id |-> t.id,
                           items |-> Present(t)])
           ELSE Refuse(p)
        /\ UNCHANGED <<disk, minted, bounds, copies>>

-----------------------------------------------------------------------------
(* backup_capture_store                                                    *)

Absent(b) == manifest[b].state = "absent"

CallBackup(p, call) ==
    /\ call.op = "backup"
    /\ call.bundle # config[call.cfg]
    /\ Absent(call.bundle)
    /\ Bind(p, call, NoFile, call.bundle)

\* Under the lock of the source: still the configured store, valid, and the
\* target still absent.  The snapshot is kept.
Survey(p) ==
    LET t == tree[job[p].root]
    IN  /\ pc[p] = "backup"
        /\ IF StillBound(p) /\ Validated(t) /\ Absent(job[p].to)
           THEN /\ job' = [job EXCEPT ![p].items = Present(t)]
                /\ Goto(p, "mkdir")
                /\ UNCHANGED <<locks, answers>>
           ELSE Refuse(p)
        /\ UNCHANGED <<disk, minted, bounds, copies>>

\* MUTANT: backup.json is written before the tree.
MakeBundle_ManifestFirst(p) ==
    /\ pc[p] = "mkdir"
    /\ IF Absent(job[p].to)
       THEN /\ manifest' = [manifest EXCEPT
                              ![job[p].to] = Manifest(job[p].id, job[p].items)]
            /\ Step(p, "root")
       ELSE Refuse(p) /\ UNCHANGED manifest
    /\ UNCHANGED <<config, tree, debris, minted, bounds, copies>>

\* The bundle's directory is made by one process only.
MakeBundle(p) ==
    /\ pc[p] = "mkdir"
    /\ IF Absent(job[p].to)
       THEN /\ manifest' = [manifest EXCEPT ![job[p].to] = NoBackup]
            /\ Step(p, "root")
       ELSE Refuse(p) /\ UNCHANGED manifest
    /\ UNCHANGED <<config, tree, debris, minted, bounds, copies>>

\* backup.json comes last: a kill may leave it torn ...
OpenManifest(p) ==
    /\ pc[p] = "seal"
    /\ IF manifest[job[p].to].state = "none"
       THEN /\ manifest' = [manifest EXCEPT ![job[p].to] = HalfJson]
            /\ Step(p, "write")
       ELSE Refuse(p) /\ UNCHANGED manifest
    /\ UNCHANGED <<config, tree, debris, minted, bounds, copies>>

\* ... and is reported once it reads back in a bundle of two entries.
WriteManifest(p) ==
    /\ pc[p] = "write"
    /\ manifest' = [manifest EXCEPT
                      ![job[p].to] = Manifest(job[p].id, job[p].items)]
    /\ Step(p, "report")
    /\ UNCHANGED <<config, tree, debris, minted, bounds, copies>>

ReportBackup(p) ==
    /\ pc[p] = "report"
    /\ IF IsBundle(job[p].to)
       THEN Answer(p, [op |-> "backup", bundle |-> job[p].to, id |-> job[p].id,
                       items |-> job[p].items])
       ELSE Refuse(p)
    /\ UNCHANGED <<disk, minted, bounds, copies>>

-----------------------------------------------------------------------------
(* restore_capture_store                                                   *)

\* _load_backup_bundle and the first look at the target.
CallRestore(p, call) ==
    /\ call.op = "restore"
    /\ IsBundle(call.bundle)
    /\ manifest[call.bundle].state = "whole"
    /\ ~tree[call.to].dir
    /\ Begin(p, call, "lock",
             [op |-> "restore", root |-> call.bundle, to |-> call.to,
              id |-> manifest[call.bundle].id,
              items |-> manifest[call.bundle].items])

\* _verified_backup_snapshot under the lock of the bundle's tree; then the
\* target is looked for again.
VerifyBundle(p) ==
    LET t == tree[job[p].root]
    IN  /\ pc[p] = "restore"
        /\ IF /\ IsBundle(job[p].root)
              /\ manifest[job[p].root] = Manifest(job[p].id, job[p].items)
              /\ Validated(t)
              /\ t.id = job[p].id
              /\ Present(t) = job[p].items
              /\ ~tree[job[p].to].dir
           THEN Step(p, "root")
           ELSE Refuse(p)
        /\ UNCHANGED <<disk, minted, bounds, copies>>

-----------------------------------------------------------------------------
(* Copying, for both                                                       *)

\* _ensure_target_root and journal: what is there already is accepted.
EnsureRoot(p) ==
    /\ pc[p] = "root"
    /\ tree' = [tree EXCEPT ![job[p].to].dir = TRUE]
    /\ Step(p, "target")
    /\ UNCHANGED <<config, manifest, debris, minted, bounds, copies>>

AcquireTarget(p) == pc[p] = "target" /\ Acquire(p, job[p].to, "copy")

Target(p) == tree[job[p].to]

\* _assert_compatible_subset: no path and no byte there that the snapshot does
\* not have; what was captured here has identifiers of its own.
Compatible(p) ==
    /\ Target(p).id \in {NoFile, job[p].id}
    /\ \A i \in Items :
          \/ Target(p).items[i] = "none"
          \/ Target(p).items[i] \in Copied \ {"torn"} /\ i \in job[p].items

\* MUTANT: only the layout, an item's directories come with its files.
MakeDirectories_LayoutOnly(p) ==
    /\ pc[p] = "copy"
    /\ IF Compatible(p)
       THEN /\ tree' = [tree EXCEPT ![job[p].to].layout = TRUE]
            /\ copies' = [copies EXCEPT ![job[p].to] = @ \cup
                             {[by |-> p, items |-> job[p].items]}]
            /\ Step(p, "files")
       ELSE Refuse(p) /\ UNCHANGED <<tree, copies>>
    /\ UNCHANGED <<config, manifest, debris, minted, bounds>>

\* _copy_snapshot makes all directories, those of the items included, before
\* it copies the first file.
MakeDirectories(p) ==
    /\ pc[p] = "copy"
    /\ IF Compatible(p)
       THEN /\ tree' = [tree EXCEPT
                  ![job[p].to].layout = TRUE,
                  ![job[p].to].items =
                      [i \in Items |-> IF i \in job[p].items /\ @[i] = "none"
                                       THEN "bare" ELSE @[i]]]
            /\ copies' = [copies EXCEPT ![job[p].to] = @ \cup
                             {[by |-> p, items |-> job[p].items]}]
            /\ Step(p, "files")
       ELSE Refuse(p) /\ UNCHANGED <<tree, copies>>
    /\ UNCHANGED <<config, manifest, debris, minted, bounds>>

\* Items that still miss a file; files are copied in the order of their
\* paths, capture-store.yaml before all items.
Unfinished(p) == {i \in job[p].items : Target(p).items[i] # "whole"}

\* _copy_new_file of the next file, torn until it is closed.
OpenFile(p) ==
    /\ pc[p] = "files"
    /\ IF Target(p).id = NoFile
       THEN tree' = [tree EXCEPT ![job[p].to].id = Torn]
       ELSE \E i \in Unfinished(p) :
               /\ \A j \in Unfinished(p) : i <= j
               /\ tree' = [tree EXCEPT ![job[p].to].items[i] = "torn"]
    /\ Step(p, "close")
    /\ UNCHANGED <<config, manifest, debris, minted, bounds, copies>>

CloseFile(p) ==
    /\ pc[p] = "close"
    /\ IF Target(p).id = Torn
       THEN tree' = [tree EXCEPT ![job[p].to].id = job[p].id]
       ELSE \E i \in Items, state \in {"part", "whole"} :
               /\ Target(p).items[i] = "torn"
               /\ tree' = [tree EXCEPT ![job[p].to].items[i] = state]
    /\ Step(p, "files")
    /\ UNCHANGED <<config, manifest, debris, minted, bounds, copies>>

\* The copy is validated and compared with the snapshot; a restore is over,
\* a backup goes on to backup.json.
CompareCopy(p) ==
    LET exact == Validated(Target(p)) /\ Present(Target(p)) = job[p].items
    IN  /\ pc[p] = "files"
        /\ Target(p).id # NoFile
        /\ Unfinished(p) = {}
        /\ CASE exact /\ job[p].op = "backup" -> Step(p, "seal")
             [] exact /\ job[p].op = "restore" ->
                    Answer(p, [op |-> "restore", root |-> job[p].to,
                               bundle |-> job[p].root, id |-> job[p].id,
                               held |-> Present(Target(p))])
             [] OTHER -> Refuse(p)
        /\ UNCHANGED <<disk, minted, bounds, copies>>

-----------------------------------------------------------------------------
Init ==
    /\ config   = [c \in Configs |-> NoRoot]
    /\ tree     = [r \in Roots |-> NoTree]
    /\ manifest = [b \in Bundles |-> NoLeaf]
    /\ debris   = {}
    /\ initLock = [c \in Configs |-> Nobody]
    /\ lock     = [r \in Roots |-> Nobody]
    /\ pc       = [p \in Procs |-> "idle"]
    /\ job      = [p \in Procs |-> NoJob]
    /\ left     = [call \in Calls |->
                      CHOOSE n \in DOMAIN Asked : call \in Asked[n]]
    /\ calls    = MaxCalls
    /\ minted   = 0
    /\ crashes  = MaxCrashes
    /\ answers  = {}
    /\ copies   = [r \in Roots |-> {}]

Call(p) ==
    \E call \in Calls :
        \/ CallInit(p, call)   \/ CallCapture(p, call) \/ CallRebuild(p, call)
        \/ CallVerify(p, call) \/ CallBackup(p, call)  \/ CallRestore(p, call)

Initialise(p) ==
    \/ AcquireInit(p) \/ Look(p)
    \/ Sweep(p) \/ SweepTransaction(p) \/ RemoveDirectory(p) \/ SweepTemporary(p)
    \/ MakeTransaction(p) \/ MarkTransaction(p) \/ StageStore(p)
    \/ PlaceStore(p) \/ Adopt(p) \/ Fail(p)
    \/ OpenTemporary(p) \/ FillTemporary(p) \/ Connect(p) \/ Reopen(p)

Maintain(p) ==
    \/ AcquireWrite(p) \/ Capture(p) \/ Project(p) \/ Rebuild(p) \/ Verify(p)
    \/ Survey(p) \/ MakeBundle(p) \/ VerifyBundle(p)
    \/ EnsureRoot(p) \/ AcquireTarget(p) \/ MakeDirectories(p)
    \/ OpenFile(p) \/ CloseFile(p) \/ CompareCopy(p)
    \/ OpenManifest(p) \/ WriteManifest(p) \/ ReportBackup(p)

Next == \E p \in Procs : Call(p) \/ Initialise(p) \/ Maintain(p) \/ Crash(p)

Spec == Init /\ [][Next]_vars

-----------------------------------------------------------------------------
(* Properties                                                              *)

Answered(op) == {a \in answers : a.op = op}

\* What init answers stays true for good: the configuration names that root
\* and the root is that store, whoever asks for the same root through
\* another configuration meanwhile; one call at most has created it.  What
\* was captured into a root is there as long as the store is.
AnswersStand ==
    /\ \A a \in Answered("init") : /\ config[a.cfg] = a.root
                                   /\ IsStore(tree[a.root])
                                   /\ tree[a.root].id = a.id
    /\ \A a, b \in Answered("init") :
          a.created /\ b.created /\ a.root = b.root => a = b
    /\ \A a \in Answered("capture") : /\ tree[a.root].id = a.id
                                      /\ a.item \in Present(tree[a.root])

\* A copy that was cut short is never taken for a smaller store, not by a
\* reader nor by a verification, backup or capture through a configuration
\* that was connected to it: as soon as the root can be read, everything the
\* copy was to bring is there.
PartialCopiesAreShunned ==
    \A r \in Roots : Readable(tree[r]) =>
        \A copy \in copies[r] : copy.items \subseteq Present(tree[r])

\* A backup is whole at every moment it can be seen and is brought back as it
\* was.  A whole backup.json lies beside a store that can be read and holds
\* all it lists, wherever the backup was cut short; a restore holds what the
\* backup saw, neither less nor more, although captures may reach the bundle's
\* own tree through a configuration that was connected to it; and what it
\* brought back stays.
BackupsAreTrue ==
    /\ \A b \in Bundles : manifest[b].state = "whole" =>
          /\ Readable(tree[b])
          /\ tree[b].id = manifest[b].id
          /\ manifest[b].items \subseteq Present(tree[b])
    /\ \A a \in Answered("restore") :
          /\ a.id = manifest[a.bundle].id /\ a.id = tree[a.root].id
          /\ a.held = manifest[a.bundle].items
          /\ a.held \subseteq Present(tree[a.root])

\* Nobody sweeps the transaction or temporary of a call in progress.
LiveWorkIsKept ==
    \A p \in Procs : job[p].op = "init" /\ job[p].own # 0 =>
        \E d \in debris : d.n = job[p].own

\* Once a request has succeeded nothing recognisable of its attempts is left,
\* killed ones included.
SuccessSweepsUp ==
    \A a \in Answered("init") : ~\E d \in debris :
        d.cfg = a.cfg /\ d.root = a.root /\ d.state \in {"marked", "built", "whole"}

=============================================================================
