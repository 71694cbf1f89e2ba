----------------------------- MODULE MapPublish -----------------------------
(***************************************************************************)
(* Publishing curation maps and map decisions into a target knowledge      *)
(* base: the transaction of map_operations.py and the checkpoint of        *)
(* versioning.py.  A commit is named by its history, so the managed ref is *)
(* a sequence of the publications (and commits by hand) that led to it;    *)
(* git commit-tree with a fixed time and message gives a repeated          *)
(* checkpoint of one publication the same name.                            *)
(*                                                                         *)
(* Git itself and the locks of the operating system are external: a        *)
(* process that stops frees its locks, update-ref compares and swaps.      *)
(***************************************************************************)
EXTENDS Naturals, Sequences

CONSTANTS Procs,      \* processes that publish
          Nobody,     \* holder of a free lock
          Maps,       \* request ids of build_map
          Decisions,  \* request ids of decide_map
          Subject,    \* Subject[d]: the map that d decides
          User,       \* author of a commit made by hand
          Unset,      \* no publish-base-commit.txt yet
          MaxCalls,   \* bound: calls made
          MaxByHand,  \* bound: commits made by hand
          MaxLosses   \* bound: losses of local records

Requests  == Maps \cup Decisions
Histories == Seq(Requests \cup {User})

ASSUME PublishAssumption ==
    /\ Maps \cap Decisions = {}
    /\ User \notin Requests
    /\ Nobody \notin Procs
    /\ Unset \notin Requests \cup Histories
    /\ Subject \in [Decisions -> Maps]
    /\ {MaxCalls, MaxByHand, MaxLosses} \subseteq Nat

VARIABLES head,       \* refs/heads/knowledgeflow of the repository
          files,      \* files[r]: what of r is in the work tree
          aligned,    \* publications whose paths the default index has
          tx,         \* tx[r]: .knowledgeflow/transactions/<r> and its receipt
          journal,    \* requests with a transaction in the experiment root
          base,       \* base[r]: commit r is to be put on (a decision's:
                      \* in its base file, and in the sidecar once published)
          requestLock, kbLock,
          pc, req,    \* next step of each process, the request it works on
          done,       \* history: requests answered with a result
          forgotten,  \* history: publications whose records were lost
          calls, byHand, losses  \* what the bounds still allow

repoVars  == <<head, files, aligned>>
localVars == <<journal, base>>
lockVars  == <<requestLock, kbLock>>
histVars  == <<done, forgotten, calls, byHand, losses>>
vars == <<repoVars, tx, localVars, lockVars, pc, req, histVars>>

\* publish.json, publish-started.json, candidate-commit.txt, the isolated
\* index, the receipt and complete.json.
NoTx == [publish |-> "none", started |-> FALSE, candidate |-> "none",
         index |-> FALSE, receipt |-> "none", complete |-> "none"]

Commit(r) == Append(base[r], r)

IsAncestor(c, h) == Len(c) <= Len(h) /\ SubSeq(h, 1, Len(c)) = c

Committed == {head[i] : i \in DOMAIN head}

\* _has_unresolved_publish_transaction
Unresolved(r) == tx[r].publish # "none" /\ tx[r].complete = "none"

OtherUnresolved(r) == \E s \in Requests \ {r} : Unresolved(s)

Goto(p, step) == pc' = [pc EXCEPT ![p] = step] /\ UNCHANGED req

\* The call of p is over, with whatever answer: its locks are free.
End(p) ==
    /\ pc' = [pc EXCEPT ![p] = "idle"]
    /\ req' = [req EXCEPT ![p] = Unset]
    /\ requestLock' = [r \in Requests |-> IF requestLock[r] = p THEN Nobody
                                          ELSE requestLock[r]]
    /\ kbLock' = IF kbLock = p THEN Nobody ELSE kbLock

Mark(p, field, value) == tx' = [tx EXCEPT ![req[p]][field] = value]

-----------------------------------------------------------------------------
(* Before the publication                                                  *)

Call(p, r) ==
    /\ pc[p] = "idle"
    /\ calls > 0
    /\ calls' = calls - 1
    /\ pc' = [pc EXCEPT ![p] = "wait"]
    /\ req' = [req EXCEPT ![p] = r]
    /\ UNCHANGED <<repoVars, tx, localVars, lockVars, done, forgotten, byHand,
                   losses>>

LockRequest(p, step) ==
    /\ requestLock[req[p]] = Nobody
    /\ requestLock' = [requestLock EXCEPT ![req[p]] = p]
    /\ Goto(p, step)
    /\ UNCHANGED <<repoVars, tx, kbLock, histVars>>

AcquireRequest(p) ==
    /\ pc[p] = "wait"
    /\ LockRequest(p, IF req[p] \in Maps THEN "gate" ELSE "identity")
    /\ UNCHANGED localVars

\* Nothing is processed while another publication is unresolved, or when r
\* itself is, its journal is gone and no versioned run can replace it.
GateIsShut(r) ==
    \/ OtherUnresolved(r)
    \/ r \notin journal /\ files[r] # "whole" /\ Unresolved(r)

\* build_map looks under both locks, and gives both back.
GateOpen(p) ==
    /\ pc[p] = "gate"
    /\ kbLock = Nobody
    /\ ~GateIsShut(req[p])
    /\ req[p] \in journal \/ files[req[p]] # "whole"
    /\ requestLock' = [requestLock EXCEPT ![req[p]] = Nobody]
    /\ Goto(p, "process")
    /\ UNCHANGED <<repoVars, tx, localVars, kbLock, histVars>>

GateShut(p) ==
    /\ pc[p] = "gate"
    /\ kbLock = Nobody
    /\ GateIsShut(req[p])
    /\ End(p)
    /\ UNCHANGED <<repoVars, tx, localVars, histVars>>

\* _recover_target_map_checkout: the versioned run is there, the journal is
\* not.  The publication goes on under both locks.
GateRecovers(p) ==
    /\ pc[p] = "gate"
    /\ kbLock = Nobody
    /\ ~GateIsShut(req[p])
    /\ req[p] \notin journal
    /\ files[req[p]] = "whole"
    /\ kbLock' = p
    /\ Goto(p, "prepare")
    /\ UNCHANGED <<repoVars, tx, localVars, requestLock, histVars>>

\* The journal is opened and the units are processed under the request lock.
Process(p) ==
    /\ pc[p] = "process"
    /\ LockRequest(p, "publish")
    /\ journal' = journal \cup {req[p]}
    /\ UNCHANGED base

\* decide_map: a new identity, or, under the lock of the repository, that of
\* the sidecar in the work tree.
Identity(p) ==
    /\ pc[p] = "identity"
    /\ req[p] \notin journal => kbLock = Nobody
    /\ journal' = journal \cup {req[p]}
    /\ Goto(p, "publish")
    /\ UNCHANGED <<repoVars, tx, base, lockVars, histVars>>

AcquireKb(p) ==
    /\ pc[p] = "publish"
    /\ kbLock = Nobody
    /\ kbLock' = p
    /\ Goto(p, IF req[p] \in Maps THEN "prepare" ELSE "bind")
    /\ UNCHANGED <<repoVars, tx, localVars, requestLock, histVars>>

\* The map must be in the work tree; the base is the current commit, and is
\* kept for retries.
Bind(p) ==
    /\ pc[p] = "bind"
    /\ IF files[Subject[req[p]]] = "whole"
       THEN /\ base' = IF base[req[p]] = Unset
                       THEN [base EXCEPT ![req[p]] = head] ELSE base
            /\ Goto(p, "prepare")
            /\ UNCHANGED lockVars
       ELSE End(p) /\ UNCHANGED base
    /\ UNCHANGED <<repoVars, tx, journal, histVars>>

-----------------------------------------------------------------------------
(* The publication, under both locks                                       *)

\* MUTANT: the transaction of another publication is not looked at.
Prepare_Alone(p) ==
    /\ pc[p] = "prepare"
    /\ Mark(p, "publish", "whole")
    /\ Goto(p, "branch")
    /\ UNCHANGED <<repoVars, localVars, lockVars, histVars>>

\* MUTANT: publish.json comes later.
Prepare_Unwritten(p) ==
    /\ pc[p] = "prepare"
    /\ IF OtherUnresolved(req[p]) THEN End(p)
       ELSE Goto(p, "branch") /\ UNCHANGED lockVars
    /\ UNCHANGED <<repoVars, tx, localVars, histVars>>

\* The transaction of r is made, or found as it has to be.
Prepares(r) == ~OtherUnresolved(r) /\ tx[r].publish # "torn"

\* publish.json and the staged files, new or as they were.
Prepare(p) ==
    /\ pc[p] = "prepare"
    /\ IF Prepares(req[p])
       THEN /\ Mark(p, "publish", "whole")
            /\ Goto(p, "branch")
            /\ UNCHANGED lockVars
       ELSE End(p) /\ UNCHANGED tx
    /\ UNCHANGED <<repoVars, localVars, histVars>>

\* find_unique_checkpoint
IsCheckpointed(r) == r \in Committed /\ IsAncestor(Commit(r), head)

\* Where _target_checkpoint goes on with the transaction t of r.
Branch(r) ==
    LET t == tx[r] IN
    IF t.candidate = "torn" \/ files[r] = "torn" THEN "refuse"
    ELSE IF t.candidate = "whole" THEN "resume"
    ELSE IF t.started THEN "files"
    ELSE IF files[r] = "none" THEN "start"
    ELSE IF files[r] = "whole" /\ IsCheckpointed(r) THEN "rebuild"
    ELSE "refuse"

TakeBranch(p) ==
    /\ pc[p] = "branch"
    /\ IF Branch(req[p]) = "refuse" THEN End(p)
       ELSE Goto(p, Branch(req[p])) /\ UNCHANGED lockVars
    /\ UNCHANGED <<repoVars, tx, localVars, histVars>>

\* publish-started.json; a torn one does as well, it is never read.
Start(p) ==
    /\ pc[p] = "start"
    /\ Mark(p, "started", TRUE)
    /\ Goto(p, "files")
    /\ UNCHANGED <<repoVars, localVars, lockVars, histVars>>

WriteFiles(p) ==
    /\ pc[p] = "files"
    /\ files' = [files EXCEPT ![req[p]] = IF @ = "none" THEN "part" ELSE "whole"]
    /\ Goto(p, IF files'[req[p]] = "whole" THEN "current" ELSE "files")
    /\ UNCHANGED <<head, aligned, tx, localVars, lockVars, histVars>>

\* checkpoint: the ref is compared and the isolated index made; an index that
\* is there already is refused.
MakeCommit(p) ==
    LET r == req[p] IN
    /\ pc[p] = "current"
    /\ IF head = base[r] /\ ~tx[r].index
       THEN Mark(p, "index", TRUE) /\ Goto(p, "candidate") /\ UNCHANGED lockVars
       ELSE End(p) /\ UNCHANGED tx
    /\ UNCHANGED <<repoVars, localVars, histVars>>

\* MUTANT: the name of the commit is not kept before the ref moves.
PersistCandidate_Later(p) ==
    /\ pc[p] = "candidate"
    /\ Goto(p, "ref")
    /\ UNCHANGED <<repoVars, tx, localVars, lockVars, histVars>>

PersistCandidate(p) ==
    /\ pc[p] \in {"candidate", "rebuild"}
    /\ Mark(p, "candidate", "whole")
    /\ Goto(p, IF pc[p] = "candidate" THEN "ref" ELSE "resume")
    /\ UNCHANGED <<repoVars, localVars, lockVars, histVars>>

\* MUTANT: update-ref without the old value.
CompareAndSwap_Forced(p) == head' = Commit(req[p])

\* git update-ref with the old value
CompareAndSwap(p) == head = base[req[p]] /\ head' = Commit(req[p])

UpdateRef(p) ==
    /\ pc[p] = "ref"
    /\ \/ CompareAndSwap(p) /\ Goto(p, "align") /\ UNCHANGED lockVars
       \/ head # base[req[p]] /\ End(p) /\ UNCHANGED head
    /\ UNCHANGED <<files, aligned, tx, localVars, histVars>>

\* The paths of r in the default index.
Align(p) ==
    /\ pc[p] \in {"align", "realign"}
    /\ aligned' = aligned \cup {req[p]}
    /\ Goto(p, IF pc[p] = "align" THEN "verify" ELSE "receipt")
    /\ UNCHANGED <<head, files, tx, localVars, lockVars, histVars>>

VerifyCommit(p) ==
    /\ pc[p] = "verify"
    /\ IF head = Commit(req[p]) THEN Goto(p, "receipt") /\ UNCHANGED lockVars
       ELSE End(p)
    /\ UNCHANGED <<repoVars, tx, localVars, histVars>>

\* recover_checkpoint, or verify_reachable_checkpoint when the ref has left
\* the base: that one does not look at the default index.
Resume(p) ==
    LET r == req[p] IN
    /\ pc[p] = "resume"
    /\ \/ CompareAndSwap(p) /\ Goto(p, "realign") /\ UNCHANGED lockVars
       \/ /\ head # base[r]
          /\ IF IsAncestor(Commit(r), head)
             THEN Goto(p, "receipt") /\ UNCHANGED lockVars
             ELSE End(p)
          /\ UNCHANGED head
    /\ UNCHANGED <<files, aligned, tx, localVars, histVars>>

\* The receipt is written, or there already and the same.
Receipts(r) == tx[r].receipt # "torn"

WriteReceipt(p) ==
    /\ pc[p] = "receipt"
    /\ IF Receipts(req[p])
       THEN Mark(p, "receipt", "whole") /\ Goto(p, "complete") /\ UNCHANGED lockVars
       ELSE End(p) /\ UNCHANGED tx
    /\ UNCHANGED <<repoVars, localVars, histVars>>

Complete(p) ==
    /\ pc[p] = "complete"
    /\ IF tx[req[p]].complete = "torn" THEN UNCHANGED <<tx, done>>
       ELSE /\ Mark(p, "complete", "whole")
            /\ done' = done \cup {req[p]}
    /\ End(p)
    /\ UNCHANGED <<repoVars, localVars, forgotten, calls, byHand, losses>>

-----------------------------------------------------------------------------
(* What may happen at any time                                             *)

\* A kill, an I/O error, a failure of Git or a lock timeout: what is there
\* stays.
Stop(p) ==
    /\ pc[p] # "idle"
    /\ End(p)
    /\ UNCHANGED <<repoVars, tx, localVars, histVars>>

\* The record that is created at each step.
Written == [prepare |-> "publish", candidate |-> "candidate",
            rebuild |-> "candidate", receipt |-> "receipt",
            complete |-> "complete"]

\* A kill inside write_new_file_durable leaves the beginning of the file
\* under its final name.
KillWriting(p) ==
    LET r == req[p] IN
    /\ \/ /\ pc[p] \in DOMAIN Written
          /\ tx[r][Written[pc[p]]] = "none"
          /\ pc[p] = "prepare" => ~OtherUnresolved(r)
          /\ Mark(p, Written[pc[p]], "torn")
          /\ UNCHANGED files
       \/ /\ pc[p] = "files"
          /\ files[r] \in {"none", "part"}
          /\ files' = [files EXCEPT ![r] = "torn"]
          /\ UNCHANGED tx
    /\ End(p)
    /\ UNCHANGED <<head, aligned, localVars, histVars>>

CommitByHand ==
    /\ byHand > 0
    /\ byHand' = byHand - 1
    /\ head' = Append(head, User)
    /\ UNCHANGED <<files, aligned, tx, localVars, lockVars, pc, req, done,
                   forgotten, calls, losses>>

\* The ignored records of a finished publication are lost: its transaction
\* and its receipt.
LoseRecords(r) ==
    /\ losses > 0
    /\ losses' = losses - 1
    /\ \A p \in Procs : req[p] # r
    /\ tx[r].complete = "whole"
    /\ tx' = [tx EXCEPT ![r] = NoTx]
    /\ forgotten' = forgotten \cup {r}
    /\ UNCHANGED <<repoVars, localVars, lockVars, pc, req, done, calls, byHand>>

\* The experiment root loses what it knew of r; a decision that was not
\* published would be a new one then, and is not asked for again.
LoseJournal(r) ==
    /\ losses > 0
    /\ losses' = losses - 1
    /\ \A p \in Procs : req[p] # r
    /\ r \in journal
    /\ r \in Maps \/ files[r] = "whole"
    /\ journal' = journal \ {r}
    /\ UNCHANGED <<repoVars, tx, base, lockVars, pc, req, done, forgotten, calls,
                   byHand>>

-----------------------------------------------------------------------------
(* The specification                                                       *)

\* A map goes on the commit of its target decision, a decision on the one
\* current when it is bound.
Init ==
    /\ head = <<>>
    /\ files = [r \in Requests |-> "none"]
    /\ aligned = {}
    /\ tx = [r \in Requests |-> NoTx]
    /\ journal = {}
    /\ base = [r \in Requests |-> IF r \in Maps THEN <<>> ELSE Unset]
    /\ requestLock = [r \in Requests |-> Nobody]
    /\ kbLock = Nobody
    /\ pc = [p \in Procs |-> "idle"]
    /\ req = [p \in Procs |-> Unset]
    /\ done = {} /\ forgotten = {}
    /\ calls = MaxCalls /\ byHand = MaxByHand /\ losses = MaxLosses

Begin(p) ==
    \/ \E r \in Requests : Call(p, r)
    \/ AcquireRequest(p) \/ GateOpen(p) \/ GateShut(p) \/ GateRecovers(p)
    \/ Process(p) \/ Identity(p) \/ AcquireKb(p) \/ Bind(p)

Publish(p) ==
    \/ Prepare(p) \/ TakeBranch(p) \/ Start(p) \/ WriteFiles(p)
    \/ MakeCommit(p) \/ PersistCandidate(p) \/ UpdateRef(p) \/ Align(p)
    \/ VerifyCommit(p) \/ Resume(p) \/ WriteReceipt(p) \/ Complete(p)

Next ==
    \/ \E p \in Procs : Begin(p) \/ Publish(p) \/ Stop(p) \/ KillWriting(p)
    \/ CommitByHand
    \/ \E r \in Requests : LoseRecords(r) \/ LoseJournal(r)

Spec == Init /\ [][Next]_vars

-----------------------------------------------------------------------------
(* Properties                                                              *)

\* publish transaction (map_operations.py): the ref is a log in which every
\* publication stands once and for ever, and which no publication enters
\* while another is not closed.
Log == INSTANCE PublicationLog WITH
    Publications <- Requests,
    log <- head,
    closed <- {r \in Requests : tx[r].complete # "none"} \cup forgotten

ImplementsLog == Log!LogSpec

\* build_map, decide_map: what was answered with a result is in the history
\* of the ref and whole in the work tree, now and after any later call, kill,
\* commit by hand or loss of
\* local records.
SuccessIsForever ==
    \A r \in done : IsCheckpointed(r) /\ files[r] = "whole"

\* What a call of r meets on its way to complete.json lets it pass: the look
\* before processing, the map a decision is about, publish.json and the other
\* publications, the way back to the commit, and the receipt.
RetryPasses(r) ==
    /\ ~GateIsShut(r)
    /\ r \in Decisions => files[Subject[r]] = "whole"
    /\ Prepares(r)
    /\ Branch(r) \in {"resume", "rebuild"} /\ IsCheckpointed(r)
    /\ Receipts(r)

\* _target_checkpoint, checkpoint: a publication that has reached the ref and
\* is not closed can be finished by its retry, unless a kill has torn one of
\* its records: a torn publish.json, candidate or receipt ends every retry.
CommittedIsRecoverable ==
    \A r \in Requests :
        /\ r \in Committed /\ Unresolved(r)
        /\ "torn" \notin {tx[r].publish, tx[r].candidate, tx[r].receipt}
        => RetryPasses(r)

\* _prepare_publish_transaction: files that are not in the history yet belong
\* to a publication that is known to be unresolved, and to one only.
OrphansAreBlocked ==
    \A r \in Requests :
        files[r] # "none" /\ r \notin Committed =>
            Unresolved(r) /\ ~OtherUnresolved(r)

\* docs/curation/20-sop (7.1, step 1): a publication that starts to write into
\* the work tree is bound to the current commit (commits by hand apart).
BaseIsCurrent == \A p \in Procs : pc[p] = "start" => head = base[req[p]]
=============================================================================
