# KnowledgeFlow in TLA+

KnowledgeFlow is a local-first Windows program in Python. Its capture half
(`src/src/knowledgeflow_capture`) saves texts as immutable versions in a *Capture Store*, a
directory tree; its curation half (`src/src/knowledgeflow_curation`) turns captures into evidence
bundles, maps and knowledge-base checkpoints. There is no server: every operation is a call in a
process of its own, several processes may run, and any of them may be killed at any moment. What
makes it correct is the order in which files are written, renamed, locked and read back.

Paths below are under `src/src/`. `PROJECT.json` maps each definition to the lines it models.

## 1. Inventory

### Capture

| Component | State it keeps | Operations | What is hard |
|---|---|---|---|
| Write path: `operations.py`, `store.py`, `durability.py` | `items/<y>/<m>/<id>/{versions,events,capture.yaml}` | `capture_text`, `append_capture_version` | commits by rename, kills between the renames of version and event, renames that raise after they happened, retries with idempotency keys |
| Read path: `operations.py` | none | `get_capture`, `list_captures` | no lock: directory listings taken at different moments |
| Locks: `locking.py` | `capture-write.lock`, `<config>.init.lock`, `active.lock` | acquire with timeout, release, lease without waiting | holders that die |
| Staging: `store.py` | `.staging/<transaction>/{active.lock,transaction.yaml,item}` | create, recover, clean up | bodies are staged outside the write lock, the sweep runs under it |
| Inbox: `inbox.py`, `inbox_app.py` | page, document, draft, pending write | refresh, open, save, append, retry, abandon | lost answers, several windows, texts edited between attempts |
| Initialisation: `store.py`, `config.py`, `manifest.py` | owned transaction, configuration temporary, configuration file | `init_capture_store` | adoption or sweep of what an earlier, killed run left, two configurations for one root |
| Rebuild: `recovery.py` | `capture.yaml`, derived directories | `rebuild_capture_store_derived_state` | writers, migrations |
| Migration: `migration.py` | second root, configuration file | `migrate_capture_store` | copying beside writers, switching roots under callers that bound to the old one |
| Management: `management.py` | bundles: a copied tree and `backup.json` | verify, backup, restore | a stable tree, bundles and targets cut short, both of which can be connected as stores |
| Codecs, models, errors, ids, hashing, paths, CLI | none | pure functions | none of order |

A write call stages its body, takes the write lock, checks that the configuration still names the
root it bound to, sweeps abandoned staging, scans for its idempotency key, commits, reads back,
refreshes `capture.yaml`, releases the lock and cleans its staging. Readers take no lock at all.
The inbox calls the four public operations and keeps the identity of an unfinished write. Rebuild
and migration take the same write locks, a migration the initialization lock first.

### Curation

| Component | State it keeps | Operations | What is hard |
|---|---|---|---|
| Source preparation: `operations.py` | `requests/<request>` bundles | `prepare_source`, `inspect_source`, `show_evidence` | publication by rename, replays, a source edited meanwhile |
| Target decisions: `targeting.py` | decision transactions (`request.json`, `identity.json`, bootstrap staging), knowledge bases, decision bundles | `target_decide`, `inspect_target_decision` | kills between the steps of a transaction, two stores (files and Git), names chosen side by side |
| Processor: `processing.py`, `map_operations.py` | request, reservation, result and unit records; the ledger is read back from them | `suggest_target`, units of `build_map` | paid calls that are lost, limits over retries, restarts and a map that continues a suggestion |
| Map publication: `map_operations.py` | `publish.json`, staged files, receipts, `complete.json` | `build_map`, `decide_map` | kills between publication steps, other publications |
| Managed Git: `versioning.py` | isolated index, managed ref | `checkpoint`, `recover_checkpoint` | kills between commit and ref update |
| Review: `review.py`, `review_app.py` | none | reading a map | none of order |

What each component has to guarantee is listed under "hazards" in `PROJECT.json`, at the line
where it bites, with the properties that cover it.

## 2. Modules

| Module | Models | State |
|---|---|---|
| `CaptureRequests` | vocabulary of the two write requests | none |
| `VersionLog` | what the store promises: a growing set of versions, one per identity, appends only on the expected version, true receipts | `committed`, `answers` |
| `CaptureStore` | the write path | `dirs` (version directories), `events`, `proj` (`capture.yaml`), `lock`, and for each process its step, request, attempt, candidate and answer |
| `CaptureReader` | readers beside `CaptureStore` | `rd`: listings in hand, entries read |
| `InboxSession` | inbox windows over the version log | `pending`, `document`, `draft`, `ready`, `call` |
| `CaptureStaging` | staging trees, leases, sweep | `tree`, `leaseOf`, `handles`, `storeLock` |
| `StoreMigration` | migration, rebuild and writers over two roots | `config`, `tree`, the three locks, `job`, `snap` |
| `PublicationLog` | what publishing into a target promises: one log, every publication once, none beside an unfinished one | `log`, `closed` |
| `MapPublish` | publication of maps and decisions, with the managed Git checkpoint | `head` (the managed ref), `files` (work tree), `aligned` (default index), `tx` (transaction and receipt), `journal`, `base`, the locks |
| `StoreLifecycle` | initialisation, verify, backup, restore, rebuild and capture over stores, bundles and configurations | `tree` and `manifest` (what is on disk), `config`, `debris` (transactions and temporaries), the locks, `job` |
| `SourcePreparation` | `prepare_source`, the reads of its bundle, the owner of the file | `text`, `source` (bundles), `call` |
| `TargetDecision` | extends `SourcePreparation` by decisions about its bundles | `tx` (transaction files), `staging`, `kb` (knowledge bases with ref and receipt), `target` (decision bundles) |
| `ProcessorJournal` | attempts at a paid processor, and the ledger | `request`, `reserved`, `result`, `unit`, `done` (files), `call`; `sent` and `bill` are what the provider saw |
| `CaptureStoreProofs` | theorems about `CaptureStore` and `CaptureReader`, the refinement of `VersionLog` | |
| `InboxSessionProofs`, `CaptureStagingProofs`, `StoreMigrationProofs`, `StoreLifecycleProofs`, `MapPublishProofs`, `TargetDecisionProofs`, `ProcessorJournalProofs` | theorems about the module of that name | |
| `MC*` | instances for TLC | |

How actions correspond to code:

* **CaptureStore.** `Call` … `Reply` follow `_run_capture_text` and `_run_append_capture_version`.
  One action is one step that another process, a reader or a kill can fall between: lock, scan,
  rename of an item, rename of a version, rename of an event, readback, projection, unlock. A rename that
  raises has an action of its own: it may have moved the file or not, and the probes that follow
  (`ItemVerdict`, `EventVerdict`) see what is there or cannot tell. The number of a call stands for
  the UUIDs it draws. `faults` bounds I/O errors; kills are not bounded. Staging is left out here:
  it is private to a call, and `CaptureStaging` shows that nobody else touches it.
* **CaptureReader** extends `CaptureStore`. A read locates its items, and for each item lists the
  version directories, then the events, then builds the chain and looks at `capture.yaml` in later
  steps, so that writers act between.
* **InboxSession.** One action per callback of the window. The operation it calls is abstract:
  it commits at most once per key, or not, and its answer may be a receipt, not-committed or
  unknown, which is what `CaptureStoreProofs` proves of the store. `seen`, `displayed` and
  `doubt` are history.
* **CaptureStaging.** Directory, lease file, lease, marker and body are made in separate steps and
  removed in separate steps. A file that is open elsewhere cannot be unlinked, and the kernel frees
  the locks of the dead: both are Windows semantics the code relies on.
* **StoreMigration.** One item, whose files are `capture.yaml`, an event file and a directory per
  version. Copying a file is two steps, between which it is torn. `edition` is the identity of the
  configuration file, which changes with every replace.
* **MapPublish.** `Call` … `AcquireKb` follow `build_map` and `decide_map` up to the lock of the
  repository (processing is one step), `Prepare` … `Complete` the publication under it:
  `_prepare_publish_transaction`, `_target_checkpoint`, `checkpoint` or its recovery,
  `_complete_publish_transaction`. A commit is its history, a sequence, so the same commit made twice
  has the same name, as `commit-tree` with a frozen time has. `Stop` is every way to end between two steps;
  `KillWriting` ends inside a write and leaves a torn record. The base of a decision stands for its base file
  and for the sidecar it can be read back from. `part` is a publication of which some files are in the work tree.
  `CommitByHand`, `LoseRecords` and `LoseJournal` are the user's doing.
* **StoreLifecycle.** `CallInit` … `Reopen` follow `_initialize`: the sweep of the transactions and
  temporaries that are provably this configuration's, a transaction with its marker, the staged store, its rename or
  the adoption of what is there, the temporary of the configuration and its replace. A tree is a marker,
  a layout and, for each item, how much of it is there: nothing, directories, some files, a file
  cut short, everything but `capture.yaml`, all. An item is copied in several steps, so that a
  kill leaves each of these. An item captured in a root has an identifier and bytes of its own, so it is told apart
  from a copied one: a copy that meets it is refused, as `_assert_compatible_subset` refuses a file that the
  source does not have. Bundles are trees as well, and can be captured into or restored from. `backup.json` is written last, in two
  steps. `copies` and `answers` are history.
* **SourcePreparation, TargetDecision.** One action per record or rename: `request.json`, parent
  lock, `identity.json`, staging directory, owner marker, initialised repository, the move of a whole KB, raw
  files, candidate, ref, receipt, bundle. `KillDecide` and `FailDecide` end a call at any step, and leave the same things behind
  (`LeaveWork`): a file cut short, a staging directory swept or half swept, or the KB or bundle in its place,
  because `commit_directory_no_replace` may raise after the rename or although it happened. A failure is
  answered by the state the `except` clauses compute (`StateOf`); `CutPrepare` does the same for
  `prepare_source`. `CommitLater` is a later
  publication that moves the ref of the KB. A text is its version, a run the bundle's number.
* **ProcessorJournal.** An attempt is a slot of a unit: a reservation is written, the request
  sent, the result written; a slot with a reservation and no result counts as interrupted and is charged at its
  worst case. The ledger is not a variable of its own: like the code, each call folds it from the
  records (`Reserve`, `Charge`, `Exceeds`) and carries the suggestion's into the map's
  (`Carried`). Tokens of all kinds and money are one unit of usage. `bill` counts what the provider really
  charged, which the code learns late or never. A map and its suggestion are jobs with locks of their own.

## 3. Runs

| Run | Bounds | Shows |
|---|---|---|
| `store_append` | 2 processes, 4 calls, 1 fault | safety of the write path and the refinement of `VersionLog`: a capture, two appends of one key and a rival |
| `reader_reads` | 1 writer, 3 calls, 1 fault, 1 reader | lock-free gets of a growing chain and lists over several items |
| `reader_alarm` | 2 calls and a read are enough | **violated**, see section 6 |
| `inbox_windows` | 2 windows, 2 texts, 3 keys | windows that interfere through the store, edits between attempts, windows closed, killed and reopened |
| `inbox_unverified` | 1 window, 2 keys | **violated**, see section 6 |
| `staging_crash` | 3 processes, 3 calls, 1 fault | the sweep takes what is abandoned and nothing in use |
| `migration_moves` | 2 processes, 5 calls, 3 versions, 1 fault, 1 timeout, both directions, weak fairness | moving there and back beside writers and rebuilds, the lock order, and that every call ends |
| `lifecycle` | 2 processes, 5 calls out of ten, 1 kill, 2 configurations, 2 roots, 1 bundle, 2 items | stores are initialised once, backups and restores are exact, what was cut short is not taken for a store |
| `publish` | 2 processes, 5 calls, a map and two decisions, 1 commit by hand, 2 losses | the managed ref is a log of whole publications, whoever is killed where |
| `publish_base` | 4 calls | **violated**, see section 6 |
| `target` | 2 processes, 4 calls, 2 kills or failures, 2 decision requests, 2 policies, 2 ways to ask for the source | a decision ends in one KB of its own, however often it is interrupted, and denies nothing that stood before its last step |
| `processor` | 2 processes, 4 calls, 2 kills, a suggestion and a map of two units, 5 attempts, 3 retries, limits of 8 and 9 at a plan of 2 | nothing is sent twice, every request is covered, only torn files stop a job |

**Why the bounds are enough.** A kill turns a process into an idle one that may call again, so two
processes with four calls already give a killed capture or append, the rival that meets its tail, and the retry that adopts it.
One I/O fault reaches every error path, and with it
a kill reaches every pair of an error and a later recovery; an action whose operation and probe can
both fail takes both from one fault. A chain of three versions has a first, a middle and a last one. Two windows
and three keys give a lost write, its retry and a foreign append. A migration needs two roots, and a
return to the first one is the only way to meet a root twice. For a publication, five calls give a map
killed, a decision refused, the retry of both and a rival; two losses take both the journal and the records of one. Runs stop when the calls are used up,
so deadlock is not checked there; `store_append` has an action for it and is checked, and
`migration_moves` shows under fairness that calls end. For a lifecycle, one kill and the call that
meets its traces need two processes, and a root that is initialised, backed up, restored and connected
again needs five calls. For a decision, two kills leave one request with a name and another with a KB; the
fourth call finishes one of them. For the ledger, two units after a suggestion are the shortest chain of
three charges, and limits of four plans are exhausted by a retry, an overrun or an unknown answer. The number of a UUID or a date is its order of choice.

`target` and `processor` use a VIEW that leaves out a finished call whose answer no invariant looks at any more. The properties
about answers that were given are action properties, checked at the step that gives them, or read the
finished calls the view keeps; the other parts of the state do not depend on a finished call but
through its process being free. Symmetry is used for processes, which do the same things, and in
no run with liveness.

**Fairness.** Each process takes its next step if it can for good (weak fairness of its own
steps). No fairness is asked of calls, kills, faults, timeouts or the user. The write lock is polled every 50 ms
and gives no order, so a wait could be starved for ever by others that keep calling; the number
of calls is bounded in the model and in the code the wait ends after ten seconds.

Each property has a mutant, a plausible bug in the mapped code (an operator named after the one it replaces, with a
suffix, marked MUTANT), under which its run fails.

## 4. What is proved

Every invariant and every action property that a passing run checks is also a theorem, for any sets of
processes, requests, keys, roots, bundles and so on, and any bounds; so are the two refinements and
`ProjectionIsCommitted`, which no run lists. Each proof has the same form:

1. `IInv`, the inductive invariant. TLC checked it on the instance of the run before it was proved.
2. `Init => IInv`, then a lemma for each action, `IInv /\ Action => IInv'`, cut into what the caller
   itself knows afterwards, what the other processes still know, and what the disk keeps. Lemmas
   about the others are stated once per kind of step (`ReadingStands`, `AncestorStays`, `CoverStands`, "trees only
   grow") and cited by every action.
3. `Invariance`: `Spec => []IInv`, and one theorem for each property, which `IInv` implies or
   which follows from a step that starts in `IInv`.

None of the properties is inductive. What each `IInv` adds is what the code relies on without saying so:

| Proofs | Properties | What the inductive invariant adds |
|---|---|---|
| `CaptureStoreProofs`, of `CaptureStore` | types, `ReadableChains`, `KeyOnce`, `ReceiptsHonoured`, `ConflictsAreForeign`, `CommitsAreOwnedUp`, `RefusalAfterScan`, `ProjectionIsCommitted`, `ProjectionNeverRegresses`, `LogSpec` | see below |
| the same, of `CaptureReader` | `ReadsAreCommitted`, `ReadsAreFresh`, `NothingIsMissed` | the store's `IInv`; every committed item has a newest version; what a read has listed is saved, and the newest event in hand is not older than what was committed when it began. Writers only add, so a reader's part stands through all their steps |
| `InboxSessionProofs` | `ReviewIsCurrent`, `AppendsFollowReading`, `UnknownIsNotDropped` | no two windows hold one key, keys and versions are ordered by the time they were drawn, and the base of a document, a draft or a pending write is a saved version that, if it is still current, the window displayed |
| `CaptureStagingProofs` | `TreesInUseAreKept`, `BodiesAreReclaimable`, `AbandonedAreSwept` | who has which lease and which handle at each step, that a body lies only beside a whole marker and a lease, and for a tree abandoned when the lock was taken, that it waits, or that the sweeper alone is taking it down |
| `StoreMigrationProofs` | `ConfigNamesAStore`, `ReceiptsMoveAlong`, `RootsDoNotFork`, `ReportsAreTrue`, `LeftRootsAreFrozen` | every root holds parts of what the configured one holds; an append past its binding check works on the configured root and a migration keeps it so by its locks; what a copy has brought, file by file; a root the configuration left shows its newest version in `capture.yaml`, so a late rebuild changes nothing |
| `StoreLifecycleProofs` | `AnswersStand`, `PartialCopiesAreShunned`, `BackupsAreTrue`, `LiveWorkIsKept`, `SuccessSweepsUp` | trees only grow and are written under the lock of their root, leftovers are touched under the lock of their configuration alone; per step, what an initialisation is building exists and its other leftovers are gone, what a copy has brought, which backup fills a bundle; a store has one creator; after a request has been answered every later one for it can only find its store again |
| `MapPublishProofs` | `SuccessIsForever`, `CommittedIsRecoverable`, `OrphansAreBlocked`, the refinement of `PublicationLog` | a publication on the ref has its commit as a prefix of the ref's history, its files whole and its records in an order that lets a retry pass every check it meets, unless one of three records is torn; files of one that is not belong to the only unresolved one; per step, what a call under the lock has done |
| `TargetDecisionProofs` | `SuccessStands`, `NamesAreExclusive`, `OnlyDamageBlocks`, `NothingStandingIsDenied` | the order in which the files of a request appear, a KB stands under the name its owner froze and under no other, per step what the call has written, and that the damage that blocks a request is never repaired |
| `ProcessorJournalProofs` | `NothingIsSentTwice`, `OnlyTornFilesBlock`, `EveryCallIsCovered` | a reservation, a result and a unit record are what folding the records before them gives, what a call has in memory is what the files replay to, and a slot without a reservation was never sent; on top of it `BudgetInv`: wherever a job can go on, its ledger covers what it and the suggestion it continues were charged and have sent |

**The write path.** `IInv` of `CaptureStore` consists of mutual exclusion (a process at a locked step holds the lock, so what
it scanned is still so); attempts (numbers in directories, events, candidates and answers were drawn, each by one call,
so a fresh event or item cannot collide); the candidate (at every step after the scan, which
directory and event of it can be there, that its identity is not claimed by another request, and that an append's base is
the newest committed version); answers in hand (one that says committed is backed by the disk, one that says
not-committed by the absence of the candidate's event). `RefusalAfterScan` is inductive relative to it. The refinement maps `committed` to the
directories whose event exists. Two steps map to a commit of the log, the item's rename and the event's rename (each also
when it raises after it happened); `Reply` maps to an answer; every other step stutters. It needs that a
call that is still running has not been answered.

**Publication.** `PublicationLog` has one entry per publication and at most one that is not closed. The commit of the ref maps
to an entry, its completion record to closing, a commit by hand to an entry of the user's. The loss of the records of a
finished publication leaves it closed.

**Assumptions.** Constants are assumed to be what they stand for, in the module that declares them:

* `RequestsAssumption`, `StoreAssumption`, `StagingAssumption`, `MigrationAssumption`, `PublishAssumption`: shapes of
  requests, natural bounds, and values like `NoKey`, `Nobody` or `Unset` outside the sets they complete. The version a
  migration's store starts with has a key that no request uses. `InboxAssumption` is a natural bound.
* `PreparationAssumption`, `DecisionAssumption`, `FileAssumption`, `JournalAssumption`: the contents of a whole file are neither
  "no file" nor "a torn file"; a decision is about a source and asks for a new KB or for none. A plan is not larger than its ceiling.
* `LifecycleAssumption`: stores and bundles are different directories, and a restore goes to a store's
  directory. The code keeps a restore out of its own bundle only (`_require_disjoint_paths`); nothing stops a user from
  restoring one bundle into the directory of another, and what is proved does not speak of that.

**Only model-checked:** the liveness property `CallsEnd`, out of the prover's reach; the bounded instances stand in for it.
The properties of the three violated runs have counterexamples and so no proof. `SourcePreparation` is proved about through
`TargetDecision`, whose processes take its actions: `SuccessStands` and `SourceInv` speak of its bundles.

## 5. What is not modelled

* Validation, hashing, codecs, contracts, segmentation and the command lines are pure and left out; a value that
  passed them is a model value. So are the review window, which reads one map, and the maintenance scripts.
* Corruption of files by others is left out: the code detects it and fails closed, and a model could only
  repeat the check. Sudden power loss is left out: a kill keeps what was written.
* Size limits, clocks and the contents of texts do not influence the order of steps. `capture.yaml` is a version number. Filters,
  cursors and previews of `list_captures` are left out.
* In `MapPublish` the revised map of a decision belongs to its files, a torn base file of a decision (it stops
  that decision before anything is published) is left out, and so are publications without a target.
* In `StoreLifecycle` the derived directories of a rebuild are left out, an item has one version, and a lock
  is waited for without timeout (`CaptureStore` and `StoreMigration` have timeouts).
* In `TargetDecision` an owner's edits inside a KB are `CommitLater` only. The rename of a KB is taken to be available; on
  systems other than Windows `commit_directory_no_replace` refuses.
* In `ProcessorJournal` prompts, answers and their parsing are left out; a transient failure over HTTP is assumed to be
  charged within the plan; what a reply reports may lie below the plan, above it and above the ceiling. Units are processed
  in order by one thread, as in the code.
* What one module shows of a component, the others assume: the inbox of the store, publication of
  processing. These are compositions by interface; only `CaptureReader` and `TargetDecision` extend the module they build on.

## 6. Findings

Kept as runs:

* `reader_alarm`: a read lists `versions/` before `events/` without a lock. An append that commits in
  between leaves an event without a listed directory, and the read, a whole list included, answers
  `integrity_check_failed` for a sound store.
* `inbox_unverified`: `_execute_pending` overwrites the state `unknown` of a pending write by the
  `not-committed` of a later retry; the window then drops the identity of a write that may have been saved.
* `publish_base`: a decision made while its map is in the work tree but not yet on the ref binds the old commit,
  is refused as retryable, and its retry makes a transaction and writes files on the old base. It can never be finished,
  and every other publication of the target is refused because of it. A second map for one target decision ends
  the same way.

Also met, with a counterexample or by reading, and described here only:

* A replayed `capture_text` receipt takes its warnings from version 1 (`operations.py:1715`), and reports
  `projection_needs_rebuild` after any append.
* A publication killed after `update-ref` and before `_align_index` is resumed. When the ref has
  left the base, the retry takes `verify_reachable_checkpoint`, which does not align, and answers with a result
  (`map_operations.py:3024`); route recovery of a decision does so when the ref is its candidate (`targeting.py:974`).
* Two restores of different bundles into one absent target hold different locks while they look for it;
  the second goes on in what a killed first one has copied (`management.py:1382`), although a partial target is never to be resumed. What it
  answers is exact all the same.
* A decision that fails before it has read `identity.json` answers `not-committed`, printed as
  `saved: false`, although the KB of an earlier call may stand (`targeting.py:1297` to 1337). `NothingStandingIsDenied` leaves
  this window out.
* A decision also answers `not-committed` when its own rename of the KB, or of the bundle of a decision for no
  target, happened and raised all the same: the rename reports an error and the destination is there, or the check
  or the flush after it fails (`durability.py:730` to 741), and `published_kb` is set only after
  `_bootstrap_kb` returned (`targeting.py:1461` to 1469) and never for a decision without KB (1587 to 1597).
  The plan of the first curation slice has "`unknown` 不得伪报 `saved: false`"
  (`docs/curation/40-cur-mvp-1-execution-plan-首个可用策展地图纵向切片实施方案.md:184`); `build_map` and `decide_map` set
  `published = True` before they publish (`map_operations.py:3711`, 4532), `suggest_target` after it (2092 to 2107), like this.
  With the property read after the step as well, TLC finds the false answer in 14 states;
  `NothingStandingIsDenied` therefore speaks of what stood before the step that failed, and of the step's own rename
  only that nothing else can have put the KB or bundle there. The next call adopts what stands.
* `build_map` and `decide_map` answer an error of managed Git with the default `not-committed` (`map_operations.py:3876` to 3886,
  4668 to 4678), although the ref may have moved by then.
* A publication whose `publish.json`, candidate or receipt a kill has torn can never be finished, since every retry
  refuses the record, and it blocks the other publications of its target. With the publication
  on the ref the receipt may be torn by the call that publishes, `publish.json` and the candidate by a retry that
  writes them again after the records were lost. `CommittedIsRecoverable` says that there is no further exception.
* A kill between the `mkdir` of a decision's transaction and the end of `request.json` stops that
  request for good, and a torn `identity.json` every other new-KB decision of its policy (`targeting.py:582`). A torn
  reservation, result or unit record stops a paid job for good. All fail closed.
* A suggestion whose connection failed as often as may be retried answers retryable
  (`map_operations.py:2132`), but no later call sends again: it reads the same failure back.
* The ledger is one per chain of a suggestion and its map. Spending of a failed suggestion is not carried over, and jobs of
  one round may send side by side, where the execution plan speaks of one call at a time.

## 7. Plan

All modules of the plan are written, and every safety property and every refinement that a run checks is proved. What is left:

1. Abstract specifications where there is none yet: a log of charges that `ProcessorJournal` implements,
   and one decision per request that `TargetDecision` implements.
2. Action properties next to invariants proved here: no step of `StoreLifecycle` takes from a tree what `Grows` names (a
   lemma today), no step of `ProcessorJournal` shrinks the ledger of a job.
3. The composition by interface of `InboxSession` and `VersionLog`: that what a window assumes of a call is a step of the log.
