--------------------------- MODULE TargetDecision ---------------------------
(***************************************************************************)
(* target_decide and inspect_target_decision (knowledgeflow_curation/      *)
(* targeting.py) over the sources of SourcePreparation.  A decision gives  *)
(* a source no target, or a new knowledge base: a name is frozen in the    *)
(* request's transaction, the KB is built in a staging directory with its  *)
(* Git root commit and renamed into place, the captured text is routed     *)
(* into it as a second commit, and a bundle of the result is published.    *)
(*                                                                         *)
(* Calls of one request hold its lock, decisions for a new KB also that of *)
(* the parent directory; both end with the process.  A call may be killed  *)
(* or failed by the system at every step, and a file being written then is *)
(* left cut short (Half); the next call goes on from what it finds.        *)
(***************************************************************************)
EXTENDS SourcePreparation

CONSTANTS Decisions, \* TargetDecideRequests: [id, source, choice, policy, name]
          MaxName,   \* bound: storage names, numbered (the code's 99 a day)
          Half       \* a file whose writing was cut short

Requests == {d.id : d \in Decisions}
Names    == 1 .. MaxName
Unnamed     == 0                    \* no storage_name asked for: the next number
RawFiles == 3                    \* payload, source mapping, route record

ASSUME DecisionAssumption ==
    /\ \A d \in Decisions : /\ d.source \in Sources
                            /\ d.choice \in {"new-kb", "no-target"}
                            /\ d.name \in Names \cup {Unnamed}
    /\ Decisions \cap Preparations = {}
    /\ MaxName \in Nat

KnowledgeBases ==
    [owner : Requests, files : 0 .. RawFiles, raw : {Nothing, Half},
     candidate : {Nothing, Half, "routed"}, ref : {"base", "routed", "later"},
     receipt : {Nothing, Half, "routed"}]
Results == [req : Decisions, run : Nat, name : Names \cup {Unnamed}]
Whole(file) == file \notin {Nothing, Half}

\* Neither an absent file nor one cut short is one with contents.
ASSUME FileAssumption ==
    /\ Half # Nothing
    /\ \A d \in Decisions : Whole(d)
    /\ \A n \in Names \cup {Unnamed} : Whole([name |-> n])
    /\ Whole("root") /\ Whole("routed")
    /\ Nothing \notin KnowledgeBases /\ Nothing \notin Results

VARIABLES tx,      \* tx[r]: curation-work/target-transactions/<r>
          staging, \* staging[r]: the KB under construction beside its parent
          kb,      \* kb[n]: the knowledge base of that name, or Nothing
          target   \* target[r]: the bundle targets/<r>, or Nothing

targetVars == <<tx, staging, kb, target>>
vars == <<prepareVars, call, spent, targetVars>>

NoTx == [made |-> FALSE, request |-> Nothing, identity |-> Nothing,
         root |-> Nothing]

\* A renamed KB: its owner marker, files routed so far, the raw file being
\* written, the candidate of the route's commit, the managed ref and receipt.
NewKb(r) == [owner |-> r, files |-> 0, raw |-> Nothing, candidate |-> Nothing,
             ref |-> "base", receipt |-> Nothing]

Of(p)  == call[p].req.id
New(d) == d.choice = "new-kb"

\* What the frozen identity says: the storage name, and its KB.
NameOf(r) == tx[r].identity.name
KbOf(r)   == kb[NameOf(r)]

Steps == {"open", "request", "parent", "identity", "bootstrap", "mark", "build",
          "place", "raw", "checkpoint", "ref", "receipt", "bundle"}
InParent == Steps \ {"open", "request", "parent"}

HoldsRequest(q, r) == call[q].phase \in Steps /\ Of(q) = r
HoldsParent(q) == call[q].phase \in InParent /\ New(call[q].req)

Result(d, n) == [req |-> d, run |-> source[d.source].run, name |-> n]

Only(v) == UNCHANGED <<prepareVars, spent, v>>

-----------------------------------------------------------------------------
(* Taking up a decision                                                    *)

\* inspect_source first: without the source's bundle nothing is touched.
CallDecide(p, d) ==
    /\ Idle(p)
    /\ spent.calls < MaxCalls
    /\ spent' = [spent EXCEPT !.calls = @ + 1]
    /\ call' = [call EXCEPT ![p] =
                    IF source[d.source] = Nothing
                    THEN Told(d, "not", "source", Nothing)
                    ELSE [phase |-> "lock", req |-> d, published |-> FALSE]]
    /\ UNCHANGED <<prepareVars, targetVars>>

\* exclusive_file_lock of the request, given up after ten seconds.
AcquireRequest(p) ==
    /\ call[p].phase = "lock"
    /\ \/ (\A q \in Procs : ~HoldsRequest(q, Of(p))) /\ Goto(p, "open")
       \/ (\E q \in Procs : HoldsRequest(q, Of(p)))
            /\ Refuse(p, "unknown", "busy")
    /\ Only(targetVars)

\* What a bundle must still agree with: owner marker, route files, managed
\* history and receipt of its KB (a later commit may have followed).
Verified(r) ==
    New(target[r].req) =>
        LET k == kb[target[r].name]
        IN  /\ k # Nothing
            /\ k.owner = r
            /\ k.files = RawFiles
            /\ k.ref \in {"routed", "later"}
            /\ Whole(k.receipt)

LoadBundle(p) ==
    LET d == call[p].req
        r == d.id
        state == IF New(d) THEN "unknown" ELSE "not"
    IN  \/ target[r].req # d /\ Refuse(p, state, "conflict")
        \/ target[r].req = d /\ Verified(r) /\ Succeed(p, target[r])
        \/ target[r].req = d /\ ~Verified(r) /\ Refuse(p, "unknown", "blocked")

\* The bundle answers; else the transaction directory is made, or found with
\* the same request in it.
Open(p) ==
    /\ call[p].phase = "open"
    /\ LET r == Of(p)
           t == tx[r]
       IN  \/ target[r] # Nothing /\ LoadBundle(p) /\ UNCHANGED tx
           \/ /\ target[r] = Nothing
              /\ ~t.made
              /\ tx' = [tx EXCEPT ![r].made = TRUE]
              /\ Goto(p, "request")
           \/ /\ target[r] = Nothing
              /\ t.made
              /\ \/ t.request = Nothing /\ Refuse(p, "unknown", "blocked")
                 \/ t.request = Half /\ Refuse(p, "not", "blocked")
                 \/ Whole(t.request) /\ t.request # call[p].req
                        /\ Refuse(p, "not", "conflict")
                 \/ t.request = call[p].req /\ Goto(p, "parent")
              /\ UNCHANGED tx
    /\ Only(<<staging, kb, target>>)

WriteRequest(p) ==
    /\ call[p].phase = "request"
    /\ tx' = [tx EXCEPT ![Of(p)].request = call[p].req]
    /\ Goto(p, "parent")
    /\ Only(<<staging, kb, target>>)

\* .knowledgeflow-parent.lock; a decision for no target has a lock of its own.
AcquireParent(p) ==
    /\ call[p].phase = "parent"
    /\ LET held == New(call[p].req) /\ \E q \in Procs : HoldsParent(q)
       IN  \/ ~held /\ Goto(p, "identity")
           \/ held /\ Refuse(p, "unknown", "busy")
    /\ Only(targetVars)

-----------------------------------------------------------------------------
(* The frozen identity                                                     *)

\* Other requests for a new KB under the same policy whose identity exists.
Rivals(d) == {q \in Requests \ {d.id} :
                 /\ tx[q].identity # Nothing
                 /\ Whole(tx[q].request)
                 /\ New(tx[q].request)
                 /\ tx[q].request.policy = d.policy}

\* MUTANT: only what stands in the parent directory is taken.
Reserved_StandingOnly(d) == {}

Reserved(d) == {NameOf(q) : q \in {s \in Rivals(d) : tx[s].identity # Half}}

Free(d) == {n \in Names : kb[n] = Nothing /\ n \notin Reserved(d)}

\* _next_date_name, or the name asked for if nobody has it.
Chosen(d) ==
    IF d.name # Unnamed THEN Free(d) \cap {d.name}
    ELSE {n \in Free(d) : \A m \in Free(d) : n <= m}

Freeze(p, n) ==
    /\ tx' = [tx EXCEPT ![Of(p)].identity = [name |-> n]]
    /\ Goto(p, IF New(call[p].req) THEN "bootstrap" ELSE "bundle")

\* MUTANT: whether the KB stands already is not looked up.
FoundPublished_Never(r) == FALSE

\* published_kb after a restart: something stands under the frozen name.
FoundPublished(r) == NameOf(r) # Unnamed /\ KbOf(r) # Nothing

\* published_kb as the call knows it: what it says if it fails from here on.
StateOf(p) ==
    IF \/ call[p].published
       \/ /\ call[p].phase = "identity"
          /\ Whole(tx[Of(p)].identity) /\ FoundPublished(Of(p))
    THEN "unknown" ELSE "not"

Resume(p) ==
    LET r == Of(p)
        taken == New(call[p].req) /\ NameOf(r) \in Reserved(call[p].req)
    IN  \/ /\ ~taken
           /\ call' = [call EXCEPT ![p].published = FoundPublished(r),
                  ![p].phase = IF New(call[p].req) THEN "bootstrap"
                               ELSE "bundle"]
        \/ taken /\ Refuse(p, StateOf(p), "name")

\* The identity is read, or a name is chosen and written: once per request.
Identify(p) ==
    /\ call[p].phase = "identity"
    /\ LET r == Of(p)
           d == call[p].req
           id == tx[r].identity
           torn == \/ id = Half
                   \/ New(d) /\ \E q \in Rivals(d) : tx[q].identity = Half
       IN  \/ torn /\ Refuse(p, "unknown", "blocked") /\ UNCHANGED tx
           \/ ~torn /\ Whole(id) /\ Resume(p) /\ UNCHANGED tx
           \/ ~torn /\ id = Nothing /\ ~New(d) /\ Freeze(p, Unnamed)
           \/ ~torn /\ id = Nothing /\ New(d)
                    /\ \E n \in Chosen(d) : Freeze(p, n)
           \/ ~torn /\ id = Nothing /\ New(d) /\ Chosen(d) = {}
                    /\ Refuse(p, "not", "name") /\ UNCHANGED tx
    /\ Only(<<staging, kb, target>>)

-----------------------------------------------------------------------------
(* _bootstrap_kb                                                           *)

\* A KB under the name is adopted if it is this request's own; an owned
\* staging directory is swept and begun again.
Bootstrap(p) ==
    /\ call[p].phase = "bootstrap"
    /\ LET r == Of(p)
           k == KbOf(r)
           own == k # Nothing /\ k.owner = r /\ Whole(tx[r].root)
       IN  \/ tx[r].root = Half /\ Refuse(p, "unknown", "blocked")
                /\ UNCHANGED staging
           \/ /\ tx[r].root # Half /\ own
              /\ call' = [call EXCEPT ![p].phase = "raw",
                                      ![p].published = TRUE]
              /\ UNCHANGED staging
           \/ tx[r].root # Half /\ k # Nothing /\ ~own
                /\ Refuse(p, StateOf(p), "blocked") /\ UNCHANGED staging
           \/ /\ tx[r].root # Half /\ k = Nothing /\ staging[r] = "none"
              /\ staging' = [staging EXCEPT ![r] = "bare"]
              /\ Goto(p, "mark")
           \/ /\ tx[r].root # Half /\ k = Nothing /\ staging[r] = "owned"
              /\ staging' = [staging EXCEPT ![r] = "none"]
              /\ UNCHANGED call
           \/ /\ tx[r].root # Half /\ k = Nothing /\ staging[r] = "bare"
              /\ \E state \in {"not", "unknown"} : Refuse(p, state, "blocked")
              /\ UNCHANGED staging
    /\ Only(<<tx, kb, target>>)

\* bootstrap-owner.json, without which nobody dares to sweep the directory.
MarkStaging(p) ==
    /\ call[p].phase = "mark"
    /\ staging' = [staging EXCEPT ![Of(p)] = "owned"]
    /\ Goto(p, "build")
    /\ Only(<<tx, kb, target>>)

\* MUTANT: the root commit is recorded when the directory is in place.
BuildRoot_Later(p) ==
    /\ call[p].phase = "build"
    /\ Goto(p, "place")
    /\ Only(<<tx, staging, kb, target>>)

\* Files, git init and the root commit, persisted in root-candidate.txt before
\* the ref; built again it is the same commit, since identity fixes its time.
BuildRoot(p) ==
    /\ call[p].phase = "build"
    /\ tx' = [tx EXCEPT ![Of(p)].root = "root"]
    /\ Goto(p, "place")
    /\ Only(<<staging, kb, target>>)

\* commit_directory_no_replace of the staging directory to its name.
RenameKb(p) ==
    LET r == Of(p)
    IN  /\ KbOf(r) = Nothing
        /\ kb' = [kb EXCEPT ![NameOf(r)] = NewKb(r)]
        /\ staging' = [staging EXCEPT ![r] = "none"]
        /\ UNCHANGED <<tx, target>>

\* The call knows of the KB when _bootstrap_kb has returned.
PlaceKb(p) ==
    /\ call[p].phase = "place"
    /\ RenameKb(p)
    /\ call' = [call EXCEPT ![p].phase = "raw", ![p].published = TRUE]
    /\ UNCHANGED <<prepareVars, spent>>

-----------------------------------------------------------------------------
(* _route_raw                                                              *)

SetKb(r, k) == kb' = [kb EXCEPT ![NameOf(r)] = k]

\* Each raw file is written beside its place (every time) and renamed; one
\* already there with the same bytes is left.
RouteFiles(p) ==
    /\ call[p].phase = "raw"
    /\ LET r == Of(p)
           k == KbOf(r)
       IN  \/ k.raw = Half /\ Refuse(p, "unknown", "blocked") /\ UNCHANGED kb
           \/ /\ k.raw # Half /\ k.files < RawFiles
              /\ SetKb(r, [k EXCEPT !.files = @ + 1])
              /\ UNCHANGED call
           \/ k.files = RawFiles /\ Goto(p, "checkpoint") /\ UNCHANGED kb
    /\ Only(<<tx, staging, target>>)

\* MUTANT: a candidate means that the commit is done.
Checkpoint_CandidateIsCommit(p) ==
    /\ call[p].phase = "checkpoint"
    /\ LET r == Of(p)
           k == KbOf(r)
       IN  \/ /\ k.candidate = Nothing /\ k.ref = "base"
              /\ SetKb(r, [k EXCEPT !.candidate = "routed"])
              /\ Goto(p, "ref")
           \/ Whole(k.candidate) /\ Goto(p, "receipt") /\ UNCHANGED kb
           \/ k.candidate = Half /\ Refuse(p, "unknown", "blocked")
                /\ UNCHANGED kb
    /\ Only(<<tx, staging, target>>)

\* The commit is made on the base and its name persisted; a candidate found
\* is the current commit, or still has to become it.
Checkpoint(p) ==
    /\ call[p].phase = "checkpoint"
    /\ LET r == Of(p)
           k == KbOf(r)
       IN  \/ k.candidate = Half /\ Refuse(p, "unknown", "blocked")
                /\ UNCHANGED kb
           \/ /\ k.candidate = Nothing /\ k.ref = "base"
              /\ SetKb(r, [k EXCEPT !.candidate = "routed"])
              /\ Goto(p, "ref")
           \/ /\ Whole(k.candidate)
              /\ \/ k.ref = "routed" /\ Goto(p, "receipt")
                 \/ k.ref = "base" /\ Goto(p, "ref")
              /\ UNCHANGED kb
           \/ /\ k.ref \notin {"base", "routed"}
              /\ Refuse(p, "unknown", "blocked") /\ UNCHANGED kb
    /\ Only(<<tx, staging, target>>)

\* update-ref from the base, by checkpoint or recover_checkpoint.
AdvanceRef(p) ==
    /\ call[p].phase = "ref"
    /\ SetKb(Of(p), [KbOf(Of(p)) EXCEPT !.ref = "routed"])
    /\ Goto(p, "receipt")
    /\ Only(<<tx, staging, target>>)

WriteReceipt(p) ==
    /\ call[p].phase = "receipt"
    /\ LET r == Of(p)
           k == KbOf(r)
       IN  \/ k.receipt = Half /\ Refuse(p, "unknown", "blocked")
                /\ UNCHANGED kb
           \/ /\ k.receipt # Half
              /\ SetKb(r, [k EXCEPT !.receipt = "routed"])
              /\ Goto(p, "bundle")
    /\ Only(<<tx, staging, target>>)

-----------------------------------------------------------------------------
(* The result, and what comes after                                        *)

Facts(p) == Result(call[p].req, NameOf(Of(p)))

\* _write_target_bundle: one rename makes the decision known.
RenameBundle(p) ==
    /\ target' = [target EXCEPT ![Of(p)] = Facts(p)]
    /\ UNCHANGED <<tx, staging, kb>>

PublishTarget(p) ==
    /\ call[p].phase = "bundle"
    /\ RenameBundle(p)
    /\ Succeed(p, Facts(p))
    /\ UNCHANGED <<prepareVars, spent>>

\* inspect_target_decision: no lock, only what is published.
InspectTarget(p, r) ==
    /\ Idle(p)
    /\ spent.calls < MaxCalls
    /\ target[r] # Nothing
    /\ Verified(r)
    /\ spent' = [spent EXCEPT !.calls = @ + 1]
    /\ call' = [call EXCEPT ![p] =
                    Told(target[r].req, "committed", "ok", target[r])]
    /\ UNCHANGED <<prepareVars, targetVars>>

\* A map is published into a KB whose decision is closed (MapPublish).
CommitLater(n) ==
    /\ kb[n] # Nothing
    /\ kb[n].ref = "routed"
    /\ target[kb[n].owner] # Nothing
    /\ kb' = [kb EXCEPT ![n].ref = "later"]
    /\ UNCHANGED <<prepareVars, call, spent, tx, staging, target>>

\* The file under the pen of a call, cut short.
LeaveHalf(p) ==
    LET r == Of(p)
        Set(k) == SetKb(r, k) /\ UNCHANGED tx
    IN  \/ /\ call[p].phase = "request"
           /\ tx' = [tx EXCEPT ![r].request = Half] /\ UNCHANGED kb
        \/ /\ call[p].phase = "identity" /\ tx[r].identity = Nothing
           /\ tx' = [tx EXCEPT ![r].identity = Half] /\ UNCHANGED kb
        \/ /\ call[p].phase = "build" /\ tx[r].root = Nothing
           /\ tx' = [tx EXCEPT ![r].root = Half] /\ UNCHANGED kb
        \/ /\ call[p].phase = "raw"
           /\ Set([KbOf(r) EXCEPT !.raw = Half])
        \/ /\ call[p].phase = "checkpoint" /\ KbOf(r).candidate = Nothing
           /\ Set([KbOf(r) EXCEPT !.candidate = Half])
        \/ /\ call[p].phase = "receipt" /\ KbOf(r).receipt = Nothing
           /\ Set([KbOf(r) EXCEPT !.receipt = Half])

\* _safe_rmtree_owned, of what a killed call left or when the building failed:
\* done, or cut short when the owner marker is gone.
Sweep(p) ==
    LET r == Of(p)
    IN  /\ staging[r] = "owned"
        /\ \/ call[p].phase \in {"build", "place"}
           \/ /\ call[p].phase = "bootstrap"
              /\ tx[r].root # Half /\ KbOf(r) = Nothing
        /\ \E left \in {"none", "bare"} :
              staging' = [staging EXCEPT ![r] = left]

\* What a call leaves that is cut short at its step; a rename may have
\* happened although it raised.
LeaveWork(p) ==
    \/ /\ LeaveHalf(p) \/ UNCHANGED <<tx, kb>>
       /\ Sweep(p) \/ UNCHANGED staging
       /\ UNCHANGED target
    \/ call[p].phase = "place" /\ RenameKb(p)
    \/ call[p].phase = "bundle" /\ RenameBundle(p)

\* The process is killed: its locks are free and nobody reads an answer.
KillDecide(p) ==
    /\ call[p].phase \in Steps
    /\ spent.cuts < MaxCuts
    /\ spent' = [spent EXCEPT !.cuts = @ + 1]
    /\ call' = [call EXCEPT ![p] = [phase |-> "idle"]]
    /\ LeaveWork(p)
    /\ UNCHANGED prepareVars

\* An I/O or Git error ends the call there.  Only a record that cannot be read
\* is answered unknown for its own sake; before the identity is read, the
\* call has not looked for the KB.
FailDecide(p) ==
    /\ call[p].phase \in Steps
    /\ spent.cuts < MaxCuts
    /\ spent' = [spent EXCEPT !.cuts = @ + 1]
    /\ \E state \in {StateOf(p), "unknown"} \cup
                    (IF call[p].phase = "identity" THEN {"not"} ELSE {}) :
          Refuse(p, state, "cut")
    /\ LeaveWork(p)
    /\ UNCHANGED prepareVars

Init ==
    /\ PrepareInit
    /\ tx = [r \in Requests |-> NoTx]
    /\ staging = [r \in Requests |-> "none"]
    /\ kb = [n \in Names |-> Nothing]
    /\ target = [r \in Requests |-> Nothing]

DecideStep(p) ==
    \/ \E d \in Decisions : CallDecide(p, d)
    \/ \E r \in Requests : InspectTarget(p, r)
    \/ AcquireRequest(p) \/ Open(p) \/ WriteRequest(p) \/ AcquireParent(p)
    \/ Identify(p) \/ Bootstrap(p) \/ MarkStaging(p) \/ BuildRoot(p)
    \/ PlaceKb(p) \/ RouteFiles(p) \/ Checkpoint(p) \/ AdvanceRef(p)
    \/ WriteReceipt(p) \/ PublishTarget(p) \/ KillDecide(p) \/ FailDecide(p)

Next ==
    \/ \E p \in Procs : PrepareStep(p) /\ UNCHANGED targetVars
    \/ \E s \in Sources : Edit(s) /\ UNCHANGED targetVars
    \/ \E p \in Procs : DecideStep(p)
    \/ \E n \in Names : CommitLater(n)

Spec == Init /\ [][Next]_vars

-----------------------------------------------------------------------------
(* What a decision promises                                                *)

(***************************************************************************)
(* A caller told of a source or of a decision holds what is on disk, for   *)
(* good: the decision's bundle carries the run of the source it was made   *)
(* of, and its KB is its own, complete, committed and receipted, whatever  *)
(* kills and repetitions led there (target_decide, targeting.py:1246).     *)
(***************************************************************************)
SuccessStands ==
    /\ PreparedSourcesStand
    /\ \A p \in Procs :
          call[p].phase = "told" /\ call[p].state = "committed"
                /\ call[p].req \in Decisions
          => /\ target[Of(p)] = call[p].facts
             /\ Verified(Of(p))
             /\ call[p].facts.run = source[call[p].req.source].run

(***************************************************************************)
(* No two requests of one policy are ever given one name, however long a   *)
(* killed call leaves its name without a KB (_reserved_storage_names).     *)
(***************************************************************************)
NamesAreExclusive ==
    \A q, r \in Requests :
        q # r /\ Whole(tx[q].identity) /\ Whole(tx[r].identity)
              /\ New(tx[q].request) /\ New(tx[r].request)
              /\ tx[q].request.policy = tx[r].request.policy
        => NameOf(q) # NameOf(r)

\* The request has left something behind that its callers can learn of.
Left(d) == /\ tx[d.id].request = d
           /\ \/ target[d.id] # Nothing
              \/ \E n \in Names : kb[n] # Nothing /\ kb[n].owner = d.id

(***************************************************************************)
(* not-committed (printed as saved: false) is never said of a decision     *)
(* whose KB or bundle stood before the step that failed; what stands after *)
(* it was put there by that step's own rename, which raised although it    *)
(* happened: of such a rename the code does not know.  A call that fails   *)
(* before it has read the identity is left out: it has not looked.         *)
(***************************************************************************)
NothingStandingIsDenied ==
    [][\A p \in Procs :
          /\ call[p].phase \in InParent
          /\ call'[p].phase = "told" /\ call'[p].state = "not"
          /\ ~(call[p].phase = "identity" /\ call'[p].why = "cut")
          => /\ ~Left(call[p].req)
             /\ Left(call[p].req)' => call[p].phase \in {"place", "bundle"}]_vars

\* What no later call can get past: a file cut short, a directory without its
\* request or its owner marker, a name somebody else has built on.
Damaged(d) ==
    LET r == d.id
    IN  \/ tx[r].request \in {Nothing, Half}
        \/ Half \in {tx[r].identity, tx[r].root}
        \/ staging[r] = "bare"
        \/ \E q \in Rivals(d) : tx[q].identity = Half
        \/ \E n \in Names : /\ kb[n] # Nothing
                            /\ kb[n].owner = r
                            /\ Half \in {kb[n].raw, kb[n].candidate,
                                         kb[n].receipt}
        \/ Whole(tx[r].identity) /\ KbOf(r) # Nothing /\ KbOf(r).owner # r

(***************************************************************************)
(* Killed or failed at any step, a decision is taken up again by the next  *)
(* call: only a file cut short, an unmarked directory or a name taken      *)
(* under another policy stops it for good.                                 *)
(***************************************************************************)
OnlyDamageBlocks ==
    \A p \in Procs :
        call[p].phase = "told" /\ call[p].why = "blocked"
              /\ call[p].req \in Decisions
        => Damaged(call[p].req)
=============================================================================
