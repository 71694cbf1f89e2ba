------------------------ MODULE StoreLifecycleProofs ------------------------
(***************************************************************************)
(* Proofs about StoreLifecycle, for any processes, configurations, stores, *)
(* bundles, items, calls and bounds.                                       *)
(***************************************************************************)
EXTENDS StoreLifecycle, TLAPS

-----------------------------------------------------------------------------
(* Types                                                                   *)

OwnSteps  == {"mark", "stage", "place", "adopt", "fill", "connect"}
InitSteps == {"look", "sweep", "rmdir", "build", "fail", "temp", "reopen", "done"} \cup OwnSteps
SealSteps == {"seal", "write", "report"}
CopySteps == {"copy", "files", "close"} \cup SealSteps
RootSteps == {"capture", "project", "rebuild", "verify", "backup", "mkdir", "restore", "root",
              "target"} \cup CopySteps
Steps     == {"idle", "init-lock", "lock"} \cup InitSteps \cup RootSteps

Ids == Nat \ {NoFile}

TreeType == [dir : BOOLEAN, id : Nat \cup {Torn}, layout : BOOLEAN, items : [Items -> ItemStates]]

ManifestType == [state : {"absent", "none", "torn"}]
                \cup [state : {"whole"}, id : Ids, items : SUBSET Items]

Litters == [kind : {"txn", "temp"}, n : Nat \ {0}, cfg : Configs, root : Roots,
            state : {"bare", "marked", "built", "torn", "whole"}]

InitJobs    == [op : {"init"}, cfg : Configs, root : Roots, own : Nat, victim : Nat,
                id : Nat \cup {Torn}, created : BOOLEAN,
                next : {"look", "done", "build", "temp", "fail"}]
CaptureJobs == [op : {"capture"}, cfg : Configs, root : Roots, id : Ids, item : Items,
                to : {NoRoot}, items : SUBSET Items]
PlainJobs   == [op : {"rebuild", "verify"}, cfg : Configs, root : Roots, id : Ids,
                item : {NoFile}, to : {NoRoot}, items : SUBSET Items]
BackupJobs  == [op : {"backup"}, cfg : Configs, root : Roots, id : Ids, item : {NoFile},
                to : Bundles, items : SUBSET Items]
RestoreJobs == [op : {"restore"}, root : Bundles, to : Stores, id : Ids, items : SUBSET Items]
Jobs == {NoJob} \cup InitJobs \cup CaptureJobs \cup PlainJobs \cup BackupJobs \cup RestoreJobs

InitAnswers    == [op : {"init"}, cfg : Configs, root : Roots, id : Nat \cup {Torn},
                   created : BOOLEAN]
CaptureAnswers == [op : {"capture"}, root : Roots, id : Nat \cup {Torn}, item : Items]
RestoreAnswers == [op : {"restore"}, root : Stores, bundle : Bundles, id : Ids,
                   held : SUBSET Items]

DiskTypes ==
    /\ config \in [Configs -> Roots \cup {NoRoot}]
    /\ tree \in [Roots -> TreeType]
    /\ manifest \in [Bundles -> ManifestType]
    /\ debris \subseteq Litters
    /\ minted \in Nat

HistTypes ==
    /\ \A a \in answers : /\ a.op = "init" => a \in InitAnswers
                          /\ a.op = "capture" => a \in CaptureAnswers
                          /\ a.op = "restore" => a \in RestoreAnswers
    /\ copies \in [Roots -> SUBSET [by : Procs, items : SUBSET Items]]

CallTypes ==
    /\ initLock \in [Configs -> Procs \cup {Nobody}]
    /\ lock \in [Roots -> Procs \cup {Nobody}]
    /\ pc \in [Procs -> Steps]
    /\ job \in [Procs -> Jobs]

Types == DiskTypes /\ HistTypes /\ CallTypes

-----------------------------------------------------------------------------
(* What a call knows                                                       *)

JobInv(p) ==
    /\ pc[p] \in InitSteps \cup {"init-lock"} => job[p] \in InitJobs
    /\ pc[p] = "lock" => job[p] \in CaptureJobs \cup PlainJobs \cup BackupJobs \cup RestoreJobs
    /\ pc[p] \in {"capture", "project"} => job[p] \in CaptureJobs
    /\ pc[p] \in {"rebuild", "verify"} => job[p] \in PlainJobs
    /\ pc[p] \in {"backup", "mkdir"} \cup SealSteps => job[p] \in BackupJobs
    /\ pc[p] = "restore" => job[p] \in RestoreJobs
    /\ pc[p] \in {"root", "target", "copy", "files", "close"} =>
          job[p] \in BackupJobs \cup RestoreJobs
    /\ pc[p] = "idle" => job[p] = NoJob

LockInv(p) ==
    /\ pc[p] \in InitSteps => initLock[job[p].cfg] = p
    /\ pc[p] \in RootSteps => lock[job[p].root] = p
    /\ pc[p] \in CopySteps => lock[job[p].to] = p

\* What the sweep of a request takes for its own.
Recognised == {"marked", "built", "whole"}

\* The leftovers of this request other than what it is building itself.
Swept(p) == \A d \in debris :
               d.cfg = job[p].cfg /\ d.root = job[p].root /\ d.state \in Recognised
                  => d.n = job[p].own

Connected(c, r, id) == config[c] = r /\ IsStore(tree[r]) /\ tree[r].id = id

\* An initialisation.
BirthInv(p) ==
    pc[p] \in InitSteps \cup {"init-lock"} =>
        /\ pc[p] \in OwnSteps =>
              \E d \in debris : /\ d.n = job[p].own
                                /\ d.cfg = job[p].cfg /\ d.root = job[p].root
        /\ pc[p] \notin OwnSteps => job[p].own = 0
        /\ job[p].created => tree[job[p].root].dir
        /\ pc[p] = "rmdir" => /\ job[p].victim <= minted
                              /\ \A d \in debris : d.n = job[p].victim => d.cfg = job[p].cfg
        /\ pc[p] = "done" \/ (pc[p] \in {"sweep", "rmdir"} /\ job[p].next = "done") =>
              Connected(job[p].cfg, job[p].root, job[p].id)
        /\ pc[p] \in {"temp", "fill", "connect", "reopen", "done"} => Swept(p)

\* A capture between its rename and its projection.
CaptureInv(p) ==
    pc[p] = "project" => /\ IsStore(tree[job[p].root])
                         /\ tree[job[p].root].items[job[p].item] = "unprojected"

\* A copy under way.
CopyInv(p) ==
    LET t == tree[job[p].to]
    IN  /\ pc[p] \in {"target"} \cup CopySteps => t.dir
        /\ pc[p] \in {"files", "close"} =>
              /\ t.layout
              /\ \A i \in Items : \/ t.items[i] = "none"
                                  \/ t.items[i] \in Copied /\ i \in job[p].items
        /\ pc[p] = "files" => t.id \in {NoFile, job[p].id}
        /\ pc[p] = "close" => t.id \in {Torn, job[p].id}
        /\ pc[p] \in {"seal", "write"} =>
              Validated(t) /\ t.id = job[p].id /\ Present(t) = job[p].items
        /\ pc[p] \in {"root", "target", "copy", "files", "close"} /\ job[p].op = "restore" =>
              manifest[job[p].root] = Manifest(job[p].id, job[p].items)

\* A backup that has made its bundle's directory.
Packing(p) == job[p].op = "backup" /\ pc[p] \in {"root", "target"} \cup CopySteps

PackInv(p) ==
    Packing(p) =>
        manifest[job[p].to] = CASE pc[p] = "write"  -> HalfJson
                                [] pc[p] = "report" -> Manifest(job[p].id, job[p].items)
                                [] OTHER            -> NoBackup

CallInv(p) == /\ JobInv(p) /\ LockInv(p) /\ BirthInv(p)
              /\ CaptureInv(p) /\ CopyInv(p) /\ PackInv(p)

-----------------------------------------------------------------------------
(* What the disk and the answers keep                                      *)

\* Nothing lies under a root that is not there.
TreeInv == \A r \in Roots : ~tree[r].dir => tree[r] = NoTree

DebrisInv == \A d \in debris : /\ d.n <= minted
                               /\ \A e \in debris : d.n = e.n => d = e

Created(p) == job[p].op = "init" /\ job[p].created

\* One call creates the store of a root.
CreateInv ==
    /\ \A p, q \in Procs : Created(p) /\ Created(q) /\ job[p].root = job[q].root => p = q
    /\ \A a \in Answered("init") : a.created =>
          \A p \in Procs : Created(p) => job[p].root # a.root
    /\ \A a, b \in Answered("init") : a.created /\ b.created /\ a.root = b.root => a = b

\* A request that has been answered finds its store again.
Late(a, p) ==
    pc[p] \in InitSteps /\ job[p].cfg = a.cfg /\ job[p].root = a.root =>
        \/ pc[p] \in {"look", "done"}
        \/ pc[p] \in {"sweep", "rmdir"} /\ job[p].next = "done"

\* What an answer said, and what it rests on.
InitHolds(a) == /\ Connected(a.cfg, a.root, a.id)
                /\ \A p \in Procs : Late(a, p)
                /\ \A d \in debris : d.cfg = a.cfg /\ d.root = a.root => d.state \notin Recognised

CaptureHolds(a) == /\ IsStore(tree[a.root]) /\ tree[a.root].id = a.id
                   /\ a.item \in Present(tree[a.root])

RestoreHolds(a) == /\ IsStore(tree[a.root]) /\ tree[a.root].id = a.id
                   /\ manifest[a.bundle] = Manifest(a.id, a.held)
                   /\ a.held \subseteq Present(tree[a.root])

AnswerHolds(a) == /\ a.op = "init" => InitHolds(a)
                  /\ a.op = "capture" => CaptureHolds(a)
                  /\ a.op = "restore" => RestoreHolds(a)

AnswerInv == \A a \in answers : AnswerHolds(a)

ManifestInv ==
    \A b \in Bundles : manifest[b].state = "whole" =>
        /\ Readable(tree[b]) /\ tree[b].id = manifest[b].id
        /\ manifest[b].items \subseteq Present(tree[b])

\* One backup fills a bundle.
PackersApart ==
    \A p, q \in Procs : Packing(p) /\ Packing(q) /\ job[p].to = job[q].to => p = q

\* What a copy was to bring has left a trace.
CopiesInv == \A r \in Roots : \A copy \in copies[r] : \A i \in copy.items :
                tree[r].items[i] # "none"

WorldInv == /\ TreeInv /\ DebrisInv /\ CreateInv /\ AnswerInv
            /\ ManifestInv /\ PackersApart /\ CopiesInv

IInv == Types /\ WorldInv /\ \A p \in Procs : CallInv(p)

-----------------------------------------------------------------------------
(* Trees grow                                                              *)

\* What nobody takes back: the root, its layout, its store id, the items that
\* can be read, and any trace of an item.
Grows(t, u) ==
    /\ t.dir => u.dir
    /\ t.layout => u.layout
    /\ t.id \notin {NoFile, Torn} => u.id = t.id
    /\ \A i \in Items : /\ t.items[i] \in Captured \cup {"whole"} =>
                              u.items[i] \in Captured \cup {"whole"}
                        /\ t.items[i] # "none" => u.items[i] # "none"

\* A tree that stays as it is.
LEMMA GrowsSame == ASSUME NEW t PROVE Grows(t, t)
  BY DEF Grows

\* What grows stays the store it was, with its items.
LEMMA GrowsKeeps ==
    ASSUME NEW t, NEW u, Grows(t, u)
    PROVE  /\ IsStore(t) => IsStore(u) /\ u.id = t.id
           /\ Present(t) \subseteq Present(u)
  BY DEF Grows, IsStore, Present

-----------------------------------------------------------------------------
(* One call takes a step                                                   *)

\* The calls other than p's stay where they are and keep their locks.
OthersStay(p) ==
    \A q \in Procs \ {p} :
        /\ pc'[q] = pc[q] /\ job'[q] = job[q]
        /\ \A c \in Configs : initLock[c] = q => initLock'[c] = q
        /\ \A r \in Roots : lock[r] = q => lock'[r] = q

\* What p may do to the disk: let trees grow, those of others only into being;
\* connect what is not connected; leave whole manifests and those of other
\* packers alone; work on the leftovers of the configuration it has locked.
DiskMoves(p) ==
    /\ \A r \in Roots : /\ Grows(tree[r], tree'[r])
                        /\ lock[r] # p /\ tree[r].dir => tree'[r] = tree[r]
    /\ \A c \in Configs : config'[c] = config[c] \/ config[c] = NoRoot
    /\ \A b \in Bundles : manifest[b].state = "whole" => manifest'[b] = manifest[b]
    /\ \A q \in Procs \ {p} : Packing(q) => manifest'[job[q].to] = manifest[job[q].to]
    /\ \A d \in debris : d \in debris' \/ initLock[d.cfg] = p
    /\ \A d \in debris' : \/ d \in debris
                          \/ /\ initLock[d.cfg] = p
                             /\ d.n = minted + 1 \/ \E e \in debris : e.n = d.n /\ e.cfg = d.cfg
    /\ minted <= minted'

\* Where nothing changes, nothing moves.
LEMMA NothingMoves ==
    ASSUME NEW p \in Procs, Types, UNCHANGED <<disk, minted>>
    PROVE  DiskMoves(p)
  <1>1. minted <= minted'
    BY DEF Types, DiskTypes
  <1> QED
    BY <1>1, GrowsSame DEF DiskMoves, disk

\* The step a call is at and what it works on.
LEMMA WorksOn ==
    ASSUME IInv, NEW q \in Procs
    PROVE  /\ pc[q] \in InitSteps => job[q].cfg \in Configs /\ job[q].root \in Roots
           /\ pc[q] \in RootSteps => job[q].root \in Roots
           /\ pc[q] \in {"root", "target"} \cup CopySteps => job[q].to \in Roots
           /\ Packing(q) => job[q].to \in Bundles
           /\ pc[q] = "project" => job[q].item \in Items
           /\ job[q].op = "restore" /\ pc[q] \in {"root", "target", "copy", "files", "close"} =>
                 job[q].root \in Bundles
  <1>1. JobInv(q)
    BY DEF IInv, CallInv
  <1>2. pc[q] \in InitSteps => job[q].cfg \in Configs /\ job[q].root \in Roots
    BY <1>1 DEF JobInv, InitJobs
  <1>3. pc[q] \in {"capture", "project", "rebuild", "verify"} => job[q].root \in Roots
    BY <1>1 DEF JobInv, CaptureJobs, PlainJobs
  <1>4. pc[q] \in {"backup", "mkdir"} \cup SealSteps =>
           job[q].root \in Roots /\ job[q].to \in Bundles /\ job[q].op # "restore"
    BY <1>1 DEF JobInv, BackupJobs
  <1>5. pc[q] = "restore" => job[q].root \in Roots
    BY <1>1 DEF JobInv, RestoreJobs, Roots
  <1>6. pc[q] \in {"root", "target", "copy", "files", "close"} =>
           /\ job[q].root \in Roots /\ job[q].to \in Roots
           /\ job[q].op = "backup" => job[q].to \in Bundles
           /\ job[q].op = "restore" => job[q].root \in Bundles
    <2>1. CASE job[q] \in BackupJobs
      BY <2>1 DEF BackupJobs, Roots
    <2>2. CASE job[q] \in RestoreJobs
      BY <2>2 DEF RestoreJobs, Roots
    <2> QED
      BY <1>1, <2>1, <2>2 DEF JobInv
  <1>7. pc[q] = "project" => job[q].item \in Items
    BY <1>1 DEF JobInv, CaptureJobs
  <1>8. Bundles \subseteq Roots
    BY DEF Roots
  <1>9. pc[q] \in RootSteps => job[q].root \in Roots
    BY <1>3, <1>4, <1>5, <1>6 DEF RootSteps, CopySteps, SealSteps
  <1>10. pc[q] \in {"root", "target"} \cup CopySteps => job[q].to \in Roots
    BY <1>4, <1>6, <1>8 DEF CopySteps, SealSteps
  <1>11. Packing(q) => job[q].to \in Bundles
    BY <1>4, <1>6 DEF Packing, CopySteps, SealSteps
  <1> QED
    BY <1>2, <1>6, <1>7, <1>9, <1>10, <1>11

\* What the others know stays true.
LEMMA Frame ==
    ASSUME IInv, NEW p \in Procs, OthersStay(p), DiskMoves(p), minted' \in Nat
    PROVE  \A q \in Procs \ {p} : CallInv(q)'
  <1> SUFFICES ASSUME NEW q \in Procs \ {p} PROVE CallInv(q)'
    OBVIOUS
  <1>1. /\ pc'[q] = pc[q] /\ job'[q] = job[q]
        /\ \A c \in Configs : initLock[c] = q => initLock'[c] = q
        /\ \A r \in Roots : lock[r] = q => lock'[r] = q
    BY DEF OthersStay
  <1>2. CallInv(q) /\ q \in Procs /\ q # p
    BY DEF IInv
  <1>3. /\ pc[q] \in InitSteps => job[q].cfg \in Configs /\ job[q].root \in Roots
        /\ pc[q] \in RootSteps => job[q].root \in Roots
        /\ pc[q] \in {"root", "target"} \cup CopySteps => job[q].to \in Roots
        /\ pc[q] = "project" => job[q].item \in Items
        /\ job[q].op = "restore" /\ pc[q] \in {"root", "target", "copy", "files", "close"} =>
              job[q].root \in Bundles
    BY <1>2, WorksOn
  <1>4. JobInv(q)'
    BY <1>1, <1>2 DEF CallInv, JobInv
  <1>5. LockInv(q)'
    BY <1>1, <1>2, <1>3 DEF CallInv, LockInv, CopySteps, SealSteps
  <1>6. \A r \in Roots : lock[r] = q /\ tree[r].dir => tree'[r] = tree[r]
    BY <1>2 DEF DiskMoves
  <1>7. \A r \in Roots : Grows(tree[r], tree'[r])
    BY DEF DiskMoves
  <1>8. BirthInv(q)'
    <2> SUFFICES ASSUME pc[q] \in InitSteps \cup {"init-lock"} PROVE BirthInv(q)'
      BY <1>1 DEF BirthInv
    <2> DEFINE j == job[q]
    <2>1. BirthInv(q)
      BY <1>2 DEF CallInv
    <2>2. pc[q] \in InitSteps => initLock[j.cfg] = q
      BY <1>2 DEF CallInv, LockInv
    <2>3. OwnSteps \subseteq InitSteps
      BY DEF InitSteps
    <2>4. pc[q] \in OwnSteps =>
             \E d \in debris' : d.n = j.own /\ d.cfg = j.cfg /\ d.root = j.root
      BY <1>2, <2>1, <2>2, <2>3 DEF BirthInv, DiskMoves
    <2>5. j.root \in Roots
      BY <1>2 DEF CallInv, JobInv, InitJobs
    <2>6. j.created => tree'[j.root].dir
      BY <1>7, <2>1, <2>5 DEF BirthInv, Grows
    <2>7. pc[q] = "rmdir" => /\ j.victim <= minted'
                             /\ \A d \in debris' : d.n = j.victim => d.cfg = j.cfg
      <3> SUFFICES ASSUME pc[q] = "rmdir" PROVE /\ j.victim <= minted'
                             /\ \A d \in debris' : d.n = j.victim => d.cfg = j.cfg
        OBVIOUS
      <3>1. /\ j.victim <= minted /\ minted <= minted' /\ minted \in Nat /\ j.victim \in Nat
            /\ \A d \in debris : d.n = j.victim => d.cfg = j.cfg
        BY <1>2, <2>1 DEF BirthInv, DiskMoves, IInv, Types, DiskTypes, CallInv, JobInv, InitJobs
      <3>2. ASSUME NEW d \in debris', d.n = j.victim PROVE d.cfg = j.cfg
        <4>1. d.n # minted + 1
          BY <3>1, <3>2
        <4>2. d \in debris \/ \E e \in debris : e.n = d.n /\ e.cfg = d.cfg
          BY <4>1 DEF DiskMoves
        <4> QED
          BY <3>1, <3>2, <4>2
      <3>3. j.victim <= minted'
        BY <3>1
      <3> QED
        BY <3>2, <3>3
    <2>8. Connected(j.cfg, j.root, j.id) /\ j.cfg \in Configs =>
             config'[j.cfg] = j.root /\ IsStore(tree'[j.root]) /\ tree'[j.root].id = j.id
      <3>1. j.root # NoRoot
        BY <2>5, LifecycleAssumption
      <3> QED
        BY <1>7, <2>5, <3>1, GrowsKeeps DEF Connected, DiskMoves
    <2>9. pc[q] \in {"temp", "fill", "connect", "reopen", "done"} => Swept(q)'
      <3> SUFFICES ASSUME pc[q] \in {"temp", "fill", "connect", "reopen", "done"},
                          NEW d \in debris', d.cfg = j.cfg, d.root = j.root,
                          d.state \in Recognised
                   PROVE  d.n = j.own
        BY <1>1 DEF Swept
      <3>1. pc[q] \in InitSteps
        BY DEF InitSteps, OwnSteps
      <3>2. d \in debris
        BY <1>2, <2>2, <3>1 DEF DiskMoves
      <3> QED
        BY <2>1, <3>2 DEF BirthInv, Swept
    <2>10. j.cfg \in Configs
      BY <1>2 DEF CallInv, JobInv, InitJobs
    <2> QED
      BY <1>1, <2>1, <2>4, <2>6, <2>7, <2>8, <2>9, <2>10 DEF BirthInv, Connected
  <1>9. CaptureInv(q)'
    <2>1. pc[q] = "project" => tree'[job[q].root] = tree[job[q].root]
      BY <1>2, <1>3, <1>6 DEF CallInv, CaptureInv, LockInv, RootSteps, IsStore
    <2> QED
      BY <1>1, <1>2, <2>1 DEF CallInv, CaptureInv
  <1>10. CopyInv(q)'
    <2>1. pc[q] \in CopySteps => tree'[job[q].to] = tree[job[q].to]
      BY <1>2, <1>3, <1>6 DEF CallInv, CopyInv, LockInv
    <2>2. pc[q] \in {"target"} \cup CopySteps => tree'[job[q].to].dir
      BY <1>2, <1>3, <1>7 DEF CallInv, CopyInv, Grows
    <2>3. pc[q] \in {"root", "target", "copy", "files", "close"} /\ job[q].op = "restore" =>
             manifest'[job[q].root] = Manifest(job[q].id, job[q].items)
      BY <1>2, <1>3 DEF CallInv, CopyInv, DiskMoves, Manifest
    <2> QED
      BY <1>1, <1>2, <2>1, <2>2, <2>3 DEF CallInv, CopyInv, CopySteps, SealSteps
  <1>11. PackInv(q)'
    <2>1. Packing(q) => manifest'[job[q].to] = manifest[job[q].to]
      BY DEF DiskMoves
    <2>2. PackInv(q)
      BY <1>2 DEF CallInv
    <2> QED
      BY <1>1, <2>1, <2>2 DEF PackInv, Packing
  <1> QED
    BY <1>4, <1>5, <1>8, <1>9, <1>10, <1>11 DEF CallInv

\* A call that has ended holds nothing and claims nothing.
LEMMA Ended ==
    ASSUME IInv, NEW p \in Procs, End(p)
    PROVE  /\ OthersStay(p) /\ CallInv(p)' /\ CallTypes'
           /\ \A a : Late(a, p)'
           /\ ~Created(p)' /\ ~Packing(p)'
  <1>1. CallTypes
    BY DEF IInv, Types
  <1>2. Nobody \notin Procs
    BY LifecycleAssumption
  <1>3. pc'[p] = "idle" /\ job'[p] = NoJob
    BY <1>1 DEF End, Goto, CallTypes
  <1>4. CallInv(p)'
    BY <1>3 DEF CallInv, JobInv, LockInv, BirthInv, CaptureInv, CopyInv, PackInv, Packing,
                InitSteps, OwnSteps, RootSteps, CopySteps, SealSteps
  <1>5. OthersStay(p)
    BY <1>1, <1>2 DEF End, Goto, FreeLocks, CallTypes, OthersStay
  <1>6. pc' \in [Procs -> Steps] /\ job' \in [Procs -> Jobs]
    BY <1>1 DEF End, Goto, CallTypes, Steps, Jobs
  <1>7. /\ lock' \in [Roots -> Procs \cup {Nobody}]
        /\ initLock' \in [Configs -> Procs \cup {Nobody}]
    BY <1>1 DEF End, FreeLocks, CallTypes
  <1>8. (\A a : Late(a, p)') /\ ~Created(p)' /\ ~Packing(p)'
    BY <1>3 DEF Late, Created, Packing, NoJob, InitSteps, OwnSteps
  <1> QED
    BY <1>4, <1>5, <1>6, <1>7, <1>8 DEF CallTypes

\* A call that goes on to its next step, with a record of its own.
LEMMA Going ==
    ASSUME IInv, NEW p \in Procs, NEW s \in Steps, Goto(p, s), UNCHANGED locks,
           NEW j \in Jobs, job' = [job EXCEPT ![p] = j]
    PROVE  OthersStay(p) /\ CallTypes' /\ pc'[p] = s /\ job'[p] = j
  BY DEF Goto, IInv, Types, CallTypes, OthersStay, locks

\* A call that goes on with what it knows.
LEMMA GoingOn ==
    ASSUME IInv, NEW p \in Procs, NEW s \in Steps, Goto(p, s), UNCHANGED <<locks, job>>
    PROVE  OthersStay(p) /\ CallTypes' /\ pc'[p] = s /\ job'[p] = job[p]
  BY DEF Goto, IInv, Types, CallTypes, OthersStay, locks

\* A call that gets the lock of a root.
LEMMA Acquired ==
    ASSUME IInv, NEW p \in Procs, NEW s \in Steps, NEW r \in Roots, Acquire(p, r, s)
    PROVE  /\ OthersStay(p) /\ CallTypes' /\ pc'[p] = s /\ job'[p] = job[p]
           /\ lock'[r] = p /\ \A d \in Roots : lock[d] = p => lock'[d] = p
  <1>1. Nobody \notin Procs
    BY LifecycleAssumption
  <1> QED
    BY <1>1 DEF Acquire, Goto, IInv, Types, CallTypes, OthersStay

-----------------------------------------------------------------------------
(* What the disk and the answers keep                                      *)

\* Who creates a store and who fills a bundle stays so while p begins neither.
LEMMA CreateKept ==
    ASSUME IInv, NEW p \in Procs, OthersStay(p),
           \A a \in answers' : a.op = "init" => a \in answers,
           Created(p)' => Created(p) /\ job'[p].root = job[p].root
    PROVE  CreateInv'
  <1>1. CreateInv
    BY DEF IInv, WorldInv
  <1>2. \A q \in Procs : Created(q)' => Created(q) /\ job'[q].root = job[q].root
    BY DEF OthersStay, Created
  <1>3. Answered("init")' \subseteq Answered("init")
    BY DEF Answered
  <1> QED
    BY <1>1, <1>2, <1>3 DEF CreateInv

\* Packers stay apart where nobody begins to pack.
LEMMA PackersKept ==
    ASSUME IInv, NEW p \in Procs, OthersStay(p),
           Packing(p)' => Packing(p) /\ job'[p].to = job[p].to
    PROVE  PackersApart'
  <1>1. PackersApart
    BY DEF IInv, WorldInv
  <1>2. \A q \in Procs : Packing(q)' => Packing(q) /\ job'[q].to = job[q].to
    BY DEF OthersStay, Packing
  <1> QED
    BY <1>1, <1>2 DEF PackersApart

\* A new leftover that the sweep would recognise is not one of a request that
\* has been answered.
NothingLeft(p) ==
    \A d \in debris' : d \in debris \/ d.state \notin Recognised
                       \/ (d.cfg = job[p].cfg /\ d.root = job[p].root /\ ~\E a \in answers :
                              a.op = "init" /\ a.cfg = job[p].cfg /\ a.root = job[p].root)

\* Answers given stay true.
LEMMA AnswersKept ==
    ASSUME IInv, NEW p \in Procs, OthersStay(p), DiskMoves(p), NothingLeft(p),
           \A a \in answers : a.op = "init" => Late(a, p)'
    PROVE  \A a \in answers : AnswerHolds(a)'
  <1> SUFFICES ASSUME NEW a \in answers PROVE AnswerHolds(a)'
    OBVIOUS
  <1>1. AnswerHolds(a)
    BY DEF IInv, WorldInv, AnswerInv
  <1>2. \A r \in Roots : Grows(tree[r], tree'[r])
    BY DEF DiskMoves
  <1>3. ASSUME a.op = "init" PROVE InitHolds(a)'
    <2>1. a.cfg \in Configs /\ a.root \in Roots /\ a.root # NoRoot
      BY <1>3, LifecycleAssumption DEF IInv, Types, HistTypes, InitAnswers
    <2>2. InitHolds(a)
      BY <1>1, <1>3 DEF AnswerHolds
    <2>3. Connected(a.cfg, a.root, a.id)'
      BY <1>2, <2>1, <2>2, GrowsKeeps DEF InitHolds, Connected, DiskMoves
    <2>4. ASSUME NEW q \in Procs PROVE Late(a, q)'
      <3>1. CASE q = p
        BY <1>3, <3>1
      <3>2. CASE q # p
        BY <2>2, <3>2 DEF InitHolds, Late, OthersStay
      <3> QED
        BY <3>1, <3>2
    <2>5. ASSUME NEW d \in debris', d.cfg = a.cfg, d.root = a.root
          PROVE  d.state \notin Recognised
      <3>1. CASE d \in debris
        BY <2>2, <2>5, <3>1 DEF InitHolds
      <3>2. CASE d \notin debris
        BY <1>3, <2>5, <3>2 DEF NothingLeft
      <3> QED
        BY <3>1, <3>2
    <2> QED
      BY <2>3, <2>4, <2>5 DEF InitHolds
  <1>4. ASSUME a.op = "capture" PROVE CaptureHolds(a)'
    <2>1. a.root \in Roots
      BY <1>4 DEF IInv, Types, HistTypes, CaptureAnswers
    <2> QED
      BY <1>1, <1>2, <1>4, <2>1, GrowsKeeps DEF AnswerHolds, CaptureHolds
  <1>5. ASSUME a.op = "restore" PROVE RestoreHolds(a)'
    <2>1. a.root \in Roots /\ a.bundle \in Bundles
      BY <1>5 DEF IInv, Types, HistTypes, RestoreAnswers, Roots
    <2>2. RestoreHolds(a)
      BY <1>1, <1>5 DEF AnswerHolds
    <2>3. manifest'[a.bundle] = manifest[a.bundle]
      BY <2>1, <2>2 DEF RestoreHolds, Manifest, DiskMoves
    <2>4. /\ IsStore(tree'[a.root]) /\ tree'[a.root].id = a.id
          /\ Present(tree[a.root]) \subseteq Present(tree'[a.root])
      BY <1>2, <2>1, <2>2, GrowsKeeps DEF RestoreHolds
    <2> QED
      BY <2>2, <2>3, <2>4 DEF RestoreHolds
  <1> QED
    BY <1>3, <1>4, <1>5 DEF AnswerHolds

\* What copies were to bring leaves no tree again.
LEMMA CopiesKept ==
    ASSUME IInv, NEW p \in Procs, DiskMoves(p), copies' = copies
    PROVE  CopiesInv'
  <1> SUFFICES ASSUME NEW r \in Roots, NEW copy \in copies[r], NEW i \in copy.items
               PROVE  tree'[r].items[i] # "none"
    BY DEF CopiesInv
  <1>1. tree[r].items[i] # "none"
    BY DEF IInv, WorldInv, CopiesInv
  <1>2. i \in Items
    BY DEF IInv, Types, HistTypes
  <1> QED
    BY <1>1, <1>2 DEF DiskMoves, Grows

\* A whole backup stays one if its tree can be read after the step as well.
LEMMA ManifestsKept ==
    ASSUME IInv, NEW p \in Procs, DiskMoves(p),
           \A b \in Bundles : manifest'[b].state = "whole" => manifest[b].state = "whole",
           \A b \in Bundles : manifest[b].state = "whole" /\ Readable(tree[b]) => Readable(tree'[b])
    PROVE  ManifestInv'
  <1> SUFFICES ASSUME NEW b \in Bundles, manifest'[b].state = "whole"
               PROVE  /\ Readable(tree'[b]) /\ tree'[b].id = manifest'[b].id
                      /\ manifest'[b].items \subseteq Present(tree'[b])
    BY DEF ManifestInv
  <1>1. manifest[b].state = "whole" /\ manifest'[b] = manifest[b]
    BY DEF DiskMoves
  <1>2. /\ Readable(tree[b]) /\ tree[b].id = manifest[b].id
        /\ manifest[b].items \subseteq Present(tree[b])
    BY <1>1 DEF IInv, WorldInv, ManifestInv
  <1>3. Grows(tree[b], tree'[b])
    BY DEF DiskMoves, Roots
  <1> QED
    BY <1>1, <1>2, <1>3, GrowsKeeps DEF Readable

-----------------------------------------------------------------------------
(* Steps of one call, put together                                         *)

\* The invariant from what a step keeps of the disk, the histories and the calls.
LEMMA Assembled ==
    ASSUME IInv, NEW p \in Procs, OthersStay(p), DiskMoves(p), NothingLeft(p),
           DiskTypes', HistTypes', CallTypes', CallInv(p)',
           \A a \in answers : a.op = "init" => Late(a, p)',
           \A a \in answers' : a \in answers \/ AnswerHolds(a)',
           TreeInv', DebrisInv', CreateInv', ManifestInv', PackersApart', CopiesInv'
    PROVE  IInv'
  <1>1. \A q \in Procs : CallInv(q)'
    <2>1. minted' \in Nat
      BY DEF DiskTypes
    <2> QED
      BY <2>1, Frame
  <1>2. AnswerInv'
    BY AnswersKept DEF AnswerInv
  <1> QED
    BY <1>1, <1>2 DEF IInv, WorldInv, Types

\* The call goes on or ends, without a store created or a bundle begun by it,
\* and answers no initialisation.
LEMMA MoveStep ==
    ASSUME IInv, NEW p \in Procs, OthersStay(p), DiskMoves(p), NothingLeft(p),
           DiskTypes', HistTypes', CallTypes', CallInv(p)',
           \A a \in answers : a.op = "init" => Late(a, p)',
           \A a \in answers' : a \in answers \/ (a.op # "init" /\ AnswerHolds(a)'),
           Created(p)' => Created(p) /\ job'[p].root = job[p].root,
           Packing(p)' => Packing(p) /\ job'[p].to = job[p].to,
           copies' = copies, TreeInv', DebrisInv', ManifestInv'
    PROVE  IInv'
  <1>1. CreateInv' /\ PackersApart' /\ CopiesInv'
    BY CreateKept, PackersKept, CopiesKept
  <1> QED
    BY <1>1, Assembled

-----------------------------------------------------------------------------
(* Steps that leave the disk as it is                                      *)

\* A step that changes nothing on disk.
LEMMA DiskKept ==
    ASSUME IInv, NEW p \in Procs, UNCHANGED <<disk, minted>>
    PROVE  /\ DiskMoves(p) /\ NothingLeft(p) /\ DiskTypes'
           /\ TreeInv' /\ DebrisInv' /\ ManifestInv'
  <1>1. DiskMoves(p)
    BY NothingMoves DEF IInv
  <1>2. NothingLeft(p) /\ DiskTypes'
    BY DEF NothingLeft, disk, IInv, Types, DiskTypes
  <1>3. ManifestInv'
    BY <1>1, ManifestsKept DEF disk
  <1>4. TreeInv' /\ DebrisInv'
    BY DEF IInv, WorldInv, TreeInv, DebrisInv, disk
  <1> QED
    BY <1>1, <1>2, <1>3, <1>4

\* The call goes on, with nothing answered.
LEMMA QuietStep ==
    ASSUME IInv, NEW p \in Procs, OthersStay(p), CallTypes', CallInv(p)',
           UNCHANGED <<disk, minted, copies, answers>>,
           \A a \in answers : a.op = "init" => Late(a, p)',
           Created(p)' => Created(p) /\ job'[p].root = job[p].root,
           Packing(p)' => Packing(p) /\ job'[p].to = job[p].to
    PROVE  IInv'
  <1>1. HistTypes'
    BY DEF IInv, Types, HistTypes
  <1> QED
    BY <1>1, DiskKept, MoveStep

\* The call ends and leaves everything as it was.
LEMMA EndStep ==
    ASSUME IInv, NEW p \in Procs, End(p), UNCHANGED <<disk, minted, copies, answers>>
    PROVE  IInv'
  BY Ended, QuietStep

\* The call ends with an answer.
LEMMA AnswerStep ==
    ASSUME IInv, NEW p \in Procs, End(p), UNCHANGED <<disk, minted, copies>>,
           NEW a, answers' = answers \cup {a}, a.op # "init", HistTypes', AnswerHolds(a)'
    PROVE  IInv'
  BY Ended, DiskKept, MoveStep

\* A kill leaves the disk as it is and frees the locks.
LEMMA CrashStep ==
    ASSUME IInv, NEW p \in Procs, Crash(p) PROVE IInv'
  BY EndStep DEF Crash, Refuse

-----------------------------------------------------------------------------
(* Calls begin                                                             *)

\* A call that begins.
LEMMA Begun ==
    ASSUME IInv, NEW p \in Procs, NEW call, NEW s \in Steps, NEW seen \in Jobs,
           Begin(p, call, s, seen)
    PROVE  /\ OthersStay(p) /\ CallTypes' /\ pc'[p] = s /\ job'[p] = seen
           /\ UNCHANGED <<disk, minted, copies, answers>>
  BY Going DEF Begin

\* An initialisation begins with nothing of its own.
LEMMA CallInitStep ==
    ASSUME IInv, NEW p \in Procs, NEW call \in Calls, CallInit(p, call) PROVE IInv'
  <1> DEFINE j == [op |-> "init", cfg |-> call.cfg, root |-> call.root, own |-> 0,
                   victim |-> 0, id |-> NoFile, created |-> FALSE, next |-> "look"]
  <1>1. call.cfg \in Configs /\ call.root \in Roots
    BY LifecycleAssumption DEF CallInit
  <1>2. j \in InitJobs
    BY <1>1 DEF InitJobs, NoFile
  <1>3. Begin(p, call, "init-lock", j)
    BY DEF CallInit
  <1>4. j \in Jobs /\ "init-lock" \in Steps
    BY <1>2 DEF Jobs, Steps
  <1>5. /\ OthersStay(p) /\ CallTypes' /\ pc'[p] = "init-lock" /\ job'[p] = j
        /\ UNCHANGED <<disk, minted, copies, answers>>
    BY <1>3, <1>4, Begun
  <1>6. CallInv(p)'
    BY <1>2, <1>5 DEF CallInv, JobInv, LockInv, BirthInv, CaptureInv, CopyInv, PackInv, Packing,
                      InitSteps, OwnSteps, RootSteps, CopySteps, SealSteps
  <1>7. (\A a : Late(a, p)') /\ ~Created(p)' /\ ~Packing(p)'
    BY <1>5 DEF Late, Created, Packing, InitSteps, OwnSteps
  <1> QED
    BY <1>5, <1>6, <1>7, QuietStep

\* A call that waits for the write lock of the root it works on.
LEMMA LockCall ==
    ASSUME IInv, NEW p \in Procs, NEW call,
           NEW seen \in CaptureJobs \cup PlainJobs \cup BackupJobs \cup RestoreJobs,
           Begin(p, call, "lock", seen)
    PROVE  IInv'
  <1>1. seen \in Jobs /\ "lock" \in Steps
    BY DEF Jobs, Steps
  <1>2. /\ OthersStay(p) /\ CallTypes' /\ pc'[p] = "lock" /\ job'[p] = seen
        /\ UNCHANGED <<disk, minted, copies, answers>>
    BY <1>1, Begun
  <1>3. CallInv(p)'
    BY <1>2 DEF CallInv, JobInv, LockInv, BirthInv, CaptureInv, CopyInv, PackInv, Packing,
                InitSteps, OwnSteps, RootSteps, CopySteps, SealSteps
  <1>4. seen.op # "init"
    BY DEF CaptureJobs, PlainJobs, BackupJobs, RestoreJobs
  <1>5. (\A a : Late(a, p)') /\ ~Created(p)' /\ ~Packing(p)'
    BY <1>2, <1>4 DEF Late, Created, Packing, InitSteps, OwnSteps, CopySteps, SealSteps
  <1> QED
    BY <1>2, <1>3, <1>5, QuietStep

\* A store has an id.
LEMMA StoreIds ==
    ASSUME Types, NEW r \in Roots PROVE IsStore(tree[r]) => tree[r].id \in Ids
  BY DEF Types, DiskTypes, TreeType, IsStore, Ids

\* A call that binds to the root its configuration names.
LEMMA BindStep ==
    ASSUME IInv, NEW p \in Procs, NEW call \in Calls, NEW item, NEW to, Bind(p, call, item, to),
           \/ call.op = "capture" /\ item \in Items /\ to = NoRoot
           \/ call.op \in {"rebuild", "verify"} /\ item = NoFile /\ to = NoRoot
           \/ call.op = "backup" /\ item = NoFile /\ to \in Bundles
    PROVE  IInv'
  <1> DEFINE r == config[call.cfg]
             j == [op |-> call.op, cfg |-> call.cfg, root |-> r,
                   id |-> tree[r].id, item |-> item, to |-> to, items |-> {}]
  <1>1. call.cfg \in Configs
    BY LifecycleAssumption
  <1>2. r \in Roots /\ IsStore(tree[r])
    BY <1>1 DEF Bind, IInv, Types, DiskTypes
  <1>3. tree[r].id \in Ids
    BY <1>2, StoreIds DEF IInv
  <1>4. {} \in SUBSET Items
    OBVIOUS
  <1>5. j \in CaptureJobs \cup PlainJobs \cup BackupJobs
    BY <1>1, <1>2, <1>3, <1>4 DEF CaptureJobs, PlainJobs, BackupJobs
  <1>6. Begin(p, call, "lock", j)
    BY DEF Bind
  <1> QED
    BY <1>5, <1>6, LockCall

\* A capture begins.
LEMMA CallCaptureStep ==
    ASSUME IInv, NEW p \in Procs, NEW call \in Calls, CallCapture(p, call) PROVE IInv'
  <1>1. call.item \in Items
    BY LifecycleAssumption DEF CallCapture
  <1> QED
    BY <1>1, BindStep DEF CallCapture

\* A rebuild begins.
LEMMA CallRebuildStep ==
    ASSUME IInv, NEW p \in Procs, NEW call \in Calls, CallRebuild(p, call) PROVE IInv'
  BY BindStep DEF CallRebuild

\* A verification begins.
LEMMA CallVerifyStep ==
    ASSUME IInv, NEW p \in Procs, NEW call \in Calls, CallVerify(p, call) PROVE IInv'
  BY BindStep DEF CallVerify

\* A backup begins.
LEMMA CallBackupStep ==
    ASSUME IInv, NEW p \in Procs, NEW call \in Calls, CallBackup(p, call) PROVE IInv'
  <1>1. call.bundle \in Bundles
    BY LifecycleAssumption DEF CallBackup
  <1> QED
    BY <1>1, BindStep DEF CallBackup

\* A restore begins with what backup.json says.
LEMMA CallRestoreStep ==
    ASSUME IInv, NEW p \in Procs, NEW call \in Calls, CallRestore(p, call) PROVE IInv'
  <1> DEFINE m == manifest[call.bundle]
             j == [op |-> "restore", root |-> call.bundle, to |-> call.to,
                   id |-> m.id, items |-> m.items]
  <1>1. call.bundle \in Bundles /\ call.to \in Stores
    BY LifecycleAssumption DEF CallRestore
  <1>2. m.id \in Ids /\ m.items \in SUBSET Items
    BY <1>1 DEF CallRestore, IInv, Types, DiskTypes, ManifestType
  <1>3. j \in RestoreJobs
    BY <1>1, <1>2 DEF RestoreJobs
  <1>4. Begin(p, call, "lock", j)
    BY DEF CallRestore
  <1> QED
    BY <1>3, <1>4, LockCall

\* A call of any kind begins.
LEMMA CallStep ==
    ASSUME IInv, NEW p \in Procs, Call(p) PROVE IInv'
  BY CallInitStep, CallCaptureStep, CallRebuildStep, CallVerifyStep, CallBackupStep,
     CallRestoreStep DEF Call
-----------------------------------------------------------------------------
(* init: the disk is looked at                                             *)

\* What an initialisation at work holds.
LEMMA InitAt ==
    ASSUME IInv, NEW p \in Procs
    PROVE  /\ pc[p] \in InitSteps \cup {"init-lock"} <=> job[p].op = "init"
           /\ pc[p] \in InitSteps \cup {"init-lock"} => job[p] \in InitJobs
           /\ pc[p] \in InitSteps => initLock[job[p].cfg] = p
  <1>1. JobInv(p) /\ LockInv(p) /\ pc[p] \in Steps
    BY DEF IInv, CallInv, Types, CallTypes
  <1>2. pc[p] \in InitSteps \cup {"init-lock"} => job[p] \in InitJobs
    BY <1>1 DEF JobInv
  <1>3. pc[p] = "idle" => job[p].op # "init"
    BY <1>1 DEF JobInv, NoJob
  <1>4. pc[p] \in RootSteps \cup {"lock"} =>
           job[p] \in CaptureJobs \cup PlainJobs \cup BackupJobs \cup RestoreJobs
    BY <1>1 DEF JobInv, RootSteps, CopySteps, SealSteps
  <1>5. pc[p] \in RootSteps \cup {"lock"} => job[p].op # "init"
    BY <1>4 DEF CaptureJobs, PlainJobs, BackupJobs, RestoreJobs
  <1>6. job[p] \in InitJobs => job[p].op = "init"
    BY DEF InitJobs
  <1>7. pc[p] \in InitSteps => initLock[job[p].cfg] = p
    BY <1>1 DEF LockInv
  <1> QED
    BY <1>1, <1>2, <1>3, <1>5, <1>6, <1>7 DEF Steps

\* An initialisation claims no bundle and no lock of a root.
LEMMA InitCall ==
    ASSUME NEW p \in Procs, job'[p] \in InitJobs, pc'[p] \in InitSteps \cup {"init-lock"},
           pc'[p] \in InitSteps => initLock'[job'[p].cfg] = p, BirthInv(p)'
    PROVE  CallInv(p)' /\ ~Packing(p)'
  <1>1. job'[p].op = "init"
    BY DEF InitJobs
  <1>2. JobInv(p)'
    BY DEF JobInv, InitSteps, OwnSteps, SealSteps
  <1>3. pc'[p] \notin RootSteps
    BY DEF InitSteps, OwnSteps, RootSteps, CopySteps, SealSteps
  <1>4. LockInv(p)'
    BY <1>3 DEF LockInv, RootSteps
  <1>5. CaptureInv(p)' /\ CopyInv(p)'
    BY <1>3 DEF CaptureInv, CopyInv, RootSteps, CopySteps, SealSteps
  <1>6. ~Packing(p)'
    BY <1>1 DEF Packing
  <1> QED
    BY <1>2, <1>4, <1>5, <1>6 DEF CallInv, PackInv

\* A step of an initialisation that leaves the disk as it is.
LEMMA InitQuiet ==
    ASSUME IInv, NEW p \in Procs, OthersStay(p), CallTypes', UNCHANGED <<disk, minted, copies, answers>>,
           job'[p] \in InitJobs, pc'[p] \in InitSteps, initLock'[job'[p].cfg] = p, BirthInv(p)',
           \A a \in answers : a.op = "init" => Late(a, p)',
           Created(p)' => Created(p) /\ job'[p].root = job[p].root
    PROVE  IInv'
  <1>1. CallInv(p)' /\ ~Packing(p)'
    BY InitCall
  <1> QED
    BY <1>1, QuietStep

\* The lock of the configuration: its leftovers belong to nobody at work.
LEMMA AcquireInitStep ==
    ASSUME IInv, NEW p \in Procs, AcquireInit(p) PROVE IInv'
  <1>1. job[p] \in InitJobs /\ job[p].cfg \in Configs
    BY InitAt DEF AcquireInit, InitJobs
  <1>2. Nobody \notin Procs
    BY LifecycleAssumption
  <1>3. "look" \in Steps /\ "look" \in InitSteps /\ "look" \notin OwnSteps /\ "init-lock" \notin OwnSteps
    BY DEF Steps, InitSteps, OwnSteps
  <1>4. /\ OthersStay(p) /\ CallTypes' /\ pc'[p] = "look" /\ job'[p] = job[p]
        /\ initLock'[job[p].cfg] = p
    BY <1>1, <1>2, <1>3 DEF AcquireInit, Goto, IInv, Types, CallTypes, OthersStay
  <1>5. BirthInv(p)
    BY DEF IInv, CallInv
  <1>6. BirthInv(p)'
    BY <1>3, <1>4, <1>5 DEF AcquireInit, BirthInv, disk
  <1>7. \A a : Late(a, p)'
    BY <1>4 DEF Late
  <1>8. Created(p)' => Created(p) /\ job'[p].root = job[p].root
    BY <1>4 DEF Created
  <1> QED
    BY <1>1, <1>3, <1>4, <1>6, <1>7, <1>8, InitQuiet DEF AcquireInit

\* The configuration and the root are looked at.
LEMMA LookStep ==
    ASSUME IInv, NEW p \in Procs, Look(p) PROVE IInv'
  <1> DEFINE t == tree[job[p].root]
             c == config[job[p].cfg]
  <1>1. pc[p] = "look" /\ UNCHANGED <<disk, minted, copies>>
    BY DEF Look
  <1>2. "look" \in InitSteps /\ "sweep" \in InitSteps /\ "sweep" \in Steps
        /\ "sweep" \notin OwnSteps /\ "look" \notin OwnSteps
    BY DEF Steps, InitSteps, OwnSteps
  <1>3. job[p] \in InitJobs /\ initLock[job[p].cfg] = p
    BY <1>1, <1>2, InitAt
  <1>4. job[p].cfg \in Configs /\ job[p].root \in Roots
    BY <1>3 DEF InitJobs
  <1>5. t.id \in Nat \cup {Torn}
    BY <1>4 DEF IInv, Types, DiskTypes, TreeType
  <1>6. ASSUME NEW next \in {"done", "build", "temp"}, Goto(p, "sweep"), UNCHANGED <<locks, answers>>,
               job' = [job EXCEPT ![p].next = next, ![p].id = t.id],
               next = "done" => c = job[p].root /\ IsStore(t),
               next # "done" => c = NoRoot
        PROVE  IInv'
    <2> DEFINE j == [job[p] EXCEPT !.next = next, !.id = t.id]
    <2>1. j \in InitJobs
      BY <1>3, <1>5 DEF InitJobs
    <2>2. job' = [job EXCEPT ![p] = j]
      BY <1>6 DEF IInv, Types, CallTypes
    <2>3. j \in Jobs
      BY <2>1 DEF Jobs
    <2>4. OthersStay(p) /\ CallTypes' /\ pc'[p] = "sweep" /\ job'[p] = j
      <3> HIDE DEF j
      <3> QED
        BY <1>2, <1>6, <2>2, <2>3, Going
    <2>5. /\ j.cfg = job[p].cfg /\ j.root = job[p].root /\ j.own = job[p].own
          /\ j.created = job[p].created /\ j.next = next /\ j.id = t.id /\ j.op = job[p].op
      BY <1>3 DEF InitJobs
    <2>6. BirthInv(p)
      BY DEF IInv, CallInv
    <2>7. j.next = "done" => Connected(j.cfg, j.root, j.id)
      BY <1>6, <2>5 DEF Connected
    <2>8. BirthInv(p)'
      BY <1>1, <1>2, <2>4, <2>5, <2>6, <2>7 DEF BirthInv, disk, Connected
    <2>9. ASSUME NEW a \in answers, a.op = "init" PROVE Late(a, p)'
      <3>1. InitHolds(a) /\ a.root \in Roots /\ a.root # NoRoot
        BY <2>9, LifecycleAssumption
        DEF IInv, WorldInv, AnswerInv, AnswerHolds, Types, HistTypes, InitAnswers
      <3>2. job[p].cfg = a.cfg /\ job[p].root = a.root => next = "done"
        BY <1>6, <3>1 DEF InitHolds, Connected
      <3> QED
        BY <2>4, <2>5, <3>2 DEF Late
    <2>10. Created(p)' => Created(p) /\ job'[p].root = job[p].root
      BY <2>4, <2>5 DEF Created
    <2>11. initLock'[job'[p].cfg] = p
      BY <1>3, <1>6, <2>4, <2>5 DEF locks
    <2> QED
      BY <1>1, <1>2, <1>6, <2>1, <2>4, <2>8, <2>9, <2>10, <2>11, InitQuiet
  <1>7. CASE c = job[p].root /\ IsStore(t)
    BY <1>6, <1>7 DEF Look
  <1>8. CASE ~(c = job[p].root /\ IsStore(t)) /\ c = NoRoot /\ ~t.dir
    <2>1. ~IsStore(t)
      BY <1>8 DEF IsStore
    <2> QED
      BY <1>6, <1>8, <2>1 DEF Look
  <1>9. CASE ~(c = job[p].root /\ IsStore(t)) /\ ~(c = NoRoot /\ ~t.dir) /\ c = NoRoot /\ IsStore(t)
    BY <1>6, <1>9 DEF Look
  <1>10. CASE ~(c = job[p].root /\ IsStore(t)) /\ ~(c = NoRoot /\ ~t.dir) /\ ~(c = NoRoot /\ IsStore(t))
    <2>1. Refuse(p)
      BY <1>10 DEF Look
    <2> QED
      BY <1>1, <2>1, EndStep DEF Refuse
  <1> QED
    BY <1>7, <1>8, <1>9, <1>10

\* A step of an initialisation to its next one.
LEMMA InitGoes ==
    ASSUME IInv, NEW p \in Procs, NEW s \in InitSteps, Step(p, s), job[p] \in InitJobs
    PROVE  /\ OthersStay(p) /\ CallTypes' /\ pc'[p] = s /\ job'[p] = job[p]
           /\ initLock' = initLock /\ answers' = answers
           /\ Created(p)' => Created(p) /\ job'[p].root = job[p].root
  <1>1. s \in Steps
    BY DEF Steps
  <1> QED
    BY <1>1, GoingOn DEF Step, Created, locks

\* A sweep that is over has left nothing recognisable.
LEMMA SweepStep ==
    ASSUME IInv, NEW p \in Procs, Sweep(p) PROVE IInv'
  <1>1. pc[p] = "sweep" /\ Step(p, job[p].next) /\ UNCHANGED <<disk, minted, copies>>
    BY DEF Sweep
  <1>2. "sweep" \in InitSteps /\ "sweep" \notin OwnSteps
    BY DEF InitSteps, OwnSteps
  <1>3. job[p] \in InitJobs /\ initLock[job[p].cfg] = p
    BY <1>1, <1>2, InitAt
  <1>4. job[p].next \in {"look", "done", "build", "temp", "fail"}
    BY <1>3 DEF InitJobs
  <1>5. job[p].next \in InitSteps /\ job[p].next \notin OwnSteps
    BY <1>4 DEF InitSteps, OwnSteps
  <1>6. /\ OthersStay(p) /\ CallTypes' /\ pc'[p] = job[p].next /\ job'[p] = job[p]
        /\ initLock' = initLock /\ answers' = answers
        /\ Created(p)' => Created(p) /\ job'[p].root = job[p].root
    BY <1>1, <1>3, <1>5, InitGoes
  <1>7. BirthInv(p)
    BY DEF IInv, CallInv
  <1>8. Swept(p)
    BY DEF Sweep, Swept, Owned, Recognised
  <1>9. BirthInv(p)'
    BY <1>1, <1>2, <1>4, <1>5, <1>6, <1>7, <1>8 DEF BirthInv, disk, Connected, Swept
  <1>10. ASSUME NEW a \in answers, a.op = "init" PROVE Late(a, p)'
    BY <1>1, <1>2, <1>6, <1>10
    DEF Late, IInv, WorldInv, AnswerInv, AnswerHolds, InitHolds
  <1> QED
    BY <1>1, <1>3, <1>5, <1>6, <1>9, <1>10, InitQuiet
\* No request that has been answered is at work beyond its first look.
LEMMA NotAnswered ==
    ASSUME IInv, NEW p \in Procs, pc[p] \in OwnSteps \cup {"build", "temp", "reopen"},
           NEW a \in answers, a.op = "init"
    PROVE  ~(job[p].cfg = a.cfg /\ job[p].root = a.root)
  <1>1. Late(a, p)
    BY DEF IInv, WorldInv, AnswerInv, AnswerHolds, InitHolds
  <1> QED
    BY <1>1 DEF Late, InitSteps, OwnSteps

\* A root that is a store already is adopted.
LEMMA AdoptStep ==
    ASSUME IInv, NEW p \in Procs, Adopt(p) PROVE IInv'
  <1> DEFINE t == tree[job[p].root]
  <1>1. pc[p] = "adopt" /\ pc[p] \in OwnSteps /\ UNCHANGED <<disk, locks, minted, bounds, answers, copies>>
    BY DEF Adopt, OwnSteps
  <1>2. "adopt" \in InitSteps /\ "sweep" \in InitSteps /\ "sweep" \in Steps /\ "sweep" \notin OwnSteps
    BY DEF Steps, InitSteps, OwnSteps
  <1>3. job[p] \in InitJobs /\ initLock[job[p].cfg] = p
    BY <1>1, <1>2, InitAt
  <1>4. t.id \in Nat \cup {Torn}
    BY <1>3 DEF IInv, Types, DiskTypes, TreeType, InitJobs
  <1>5. PICK next \in {"temp", "fail"} :
           job' = [job EXCEPT ![p].id = t.id, ![p].own = 0, ![p].next = next]
    BY DEF Adopt
  <1>6. PICK j : j = [job[p] EXCEPT !.id = t.id, !.own = 0, !.next = next]
    OBVIOUS
  <1>7. j \in InitJobs
    BY <1>3, <1>4, <1>6 DEF InitJobs
  <1>8. job' = [job EXCEPT ![p] = j]
    BY <1>5, <1>6 DEF IInv, Types, CallTypes
  <1>9. j \in Jobs
    BY <1>7 DEF Jobs
  <1>10. OthersStay(p) /\ CallTypes' /\ pc'[p] = "sweep" /\ job'[p] = j
    BY <1>1, <1>2, <1>8, <1>9, Going DEF Adopt
  <1>11. /\ j.cfg = job[p].cfg /\ j.root = job[p].root /\ j.own = 0
         /\ j.created = job[p].created /\ j.next = next /\ j.op = job[p].op
    BY <1>3, <1>6 DEF InitJobs
  <1>12. BirthInv(p)
    BY DEF IInv, CallInv
  <1>13. BirthInv(p)'
    BY <1>1, <1>2, <1>10, <1>11, <1>12 DEF BirthInv, disk
  <1>14. ASSUME NEW a \in answers, a.op = "init" PROVE Late(a, p)'
    BY <1>1, <1>10, <1>11, <1>14, NotAnswered DEF Late
  <1>15. Created(p)' => Created(p) /\ job'[p].root = job[p].root
    BY <1>10, <1>11 DEF Created
  <1>16. initLock'[job'[p].cfg] = p
    BY <1>1, <1>3, <1>10, <1>11 DEF locks
  <1> QED
    BY <1>1, <1>2, <1>7, <1>10, <1>13, <1>14, <1>15, <1>16, InitQuiet

\* An initialisation that is refused.
LEMMA FailStep ==
    ASSUME IInv, NEW p \in Procs, Fail(p) PROVE IInv'
  BY EndStep DEF Fail, Refuse

\* Success is answered: nothing recognisable is left, and nobody else works
\* for the same request, as its configuration is locked.
LEMMA ReopenStep ==
    ASSUME IInv, NEW p \in Procs, Reopen(p) PROVE IInv'
  <1> DEFINE t == tree[job[p].root]
             stands == config[job[p].cfg] = job[p].root /\ IsStore(t) /\ t.id = job[p].id
  <1>1. pc[p] \in {"reopen", "done"} /\ UNCHANGED <<disk, minted, bounds, copies>>
    BY DEF Reopen
  <1>2. pc[p] \in InitSteps /\ pc[p] \notin OwnSteps
    BY <1>1 DEF InitSteps, OwnSteps
  <1>3. job[p] \in InitJobs /\ initLock[job[p].cfg] = p /\ job[p].op = "init"
    BY <1>2, InitAt
  <1>4. CASE ~(pc[p] = "done" \/ stands)
    <2>1. Refuse(p)
      BY <1>4 DEF Reopen
    <2> QED
      BY <1>1, <2>1, EndStep DEF Refuse
  <1>5. CASE pc[p] = "done" \/ stands
    <2>0. PICK a : a = [op |-> "init", cfg |-> job[p].cfg, root |-> job[p].root,
                        id |-> job[p].id, created |-> job[p].created]
      OBVIOUS
    <2>1. answers' = answers \cup {a} /\ End(p)
      BY <1>5, <2>0 DEF Reopen, Answer
    <2>2. /\ OthersStay(p) /\ CallInv(p)' /\ CallTypes' /\ \A b : Late(b, p)'
          /\ ~Created(p)' /\ ~Packing(p)'
      BY <2>1, Ended
    <2>3. BirthInv(p)
      BY DEF IInv, CallInv
    <2>4. a \in InitAnswers /\ a.op = "init" /\ a.cfg = job[p].cfg /\ a.root = job[p].root
          /\ a.id = job[p].id /\ a.created = job[p].created
      BY <1>3, <2>0 DEF InitJobs, InitAnswers
    <2>5. Connected(a.cfg, a.root, a.id)'
      BY <1>1, <1>2, <1>5, <2>3, <2>4 DEF BirthInv, Connected, disk
    <2>6. ASSUME NEW q \in Procs PROVE Late(a, q)'
      <3>1. CASE q = p
        BY <2>2, <3>1
      <3>2. CASE q # p
        <4>1. pc'[q] = pc[q] /\ job'[q] = job[q]
          BY <2>2, <3>2 DEF OthersStay
        <4>2. pc[q] \in InitSteps => initLock[job[q].cfg] = q
          BY InitAt
        <4> QED
          BY <1>3, <2>4, <3>2, <4>1, <4>2 DEF Late
      <3> QED
        BY <3>1, <3>2
    <2>7. \A d \in debris' : d.cfg = a.cfg /\ d.root = a.root => d.state \notin Recognised
      <3>1. Swept(p) /\ job[p].own = 0
        BY <1>1, <1>2, <2>3 DEF BirthInv
      <3>2. \A d \in debris : d.n # 0
        BY DEF IInv, Types, DiskTypes, Litters
      <3> QED
        BY <1>1, <2>4, <3>1, <3>2 DEF Swept, disk
    <2>8. AnswerHolds(a)'
      BY <2>4, <2>5, <2>6, <2>7 DEF AnswerHolds, InitHolds
    <2>9. HistTypes'
      BY <1>1, <2>1, <2>4 DEF IInv, Types, HistTypes
    <2>10. CreateInv'
      <3>1. CreateInv
        BY DEF IInv, WorldInv
      <3>2. \A q \in Procs : Created(q)' => q # p /\ Created(q) /\ job'[q].root = job[q].root
        BY <2>2 DEF OthersStay, Created
      <3>3. Answered("init")' = Answered("init") \cup {a}
        BY <2>1, <2>4 DEF Answered
      <3>4. a.created => Created(p)
        BY <1>3, <2>4 DEF Created
      <3>5. \A q, r \in Procs : Created(q)' /\ Created(r)' /\ job'[q].root = job'[r].root => q = r
        BY <3>1, <3>2 DEF CreateInv
      <3>6. \A b \in Answered("init")' : b.created =>
               \A q \in Procs : Created(q)' => job'[q].root # b.root
        BY <2>4, <3>1, <3>2, <3>3, <3>4 DEF CreateInv
      <3>7. \A b, c \in Answered("init")' : b.created /\ c.created /\ b.root = c.root => b = c
        BY <2>4, <3>1, <3>3, <3>4 DEF CreateInv
      <3> QED
        BY <3>5, <3>6, <3>7 DEF CreateInv
    <2>11. PackersApart' /\ CopiesInv'
      BY <1>1, <2>2, PackersKept, CopiesKept, DiskKept
    <2> QED
      BY <1>1, <2>1, <2>2, <2>8, <2>9, <2>10, <2>11, DiskKept, Assembled
  <1> QED
    BY <1>4, <1>5
-----------------------------------------------------------------------------
(* Captures, backups and restores: the disk is looked at                   *)

\* What a call under the write lock of its root works on.
LEMMA RootAt ==
    ASSUME IInv, NEW p \in Procs, pc[p] \in RootSteps \cup {"lock"}
    PROVE  /\ job[p] \in CaptureJobs \cup PlainJobs \cup BackupJobs \cup RestoreJobs
           /\ job[p] \in Jobs /\ job[p].op # "init" /\ job[p].root \in Roots
           /\ pc[p] # "lock" => lock[job[p].root] = p
           /\ pc[p] \in CopySteps => lock[job[p].to] = p
           /\ CallInv(p)
  <1>1. JobInv(p) /\ LockInv(p) /\ CallInv(p)
    BY DEF IInv, CallInv
  <1>2. job[p] \in CaptureJobs \cup PlainJobs \cup BackupJobs \cup RestoreJobs
    BY <1>1 DEF JobInv, RootSteps, CopySteps, SealSteps
  <1>3. job[p].op # "init" /\ job[p].root \in Roots
    BY <1>2 DEF CaptureJobs, PlainJobs, BackupJobs, RestoreJobs, Roots
  <1>4. "lock" \notin RootSteps
    BY DEF RootSteps, CopySteps, SealSteps
  <1>5. job[p] \in Jobs
    BY <1>2 DEF Jobs
  <1> QED
    BY <1>1, <1>2, <1>3, <1>4, <1>5 DEF LockInv

\* Such a call is not an initialisation.
LEMMA RootCall ==
    ASSUME NEW p \in Procs, pc'[p] \in RootSteps, job'[p].op # "init"
    PROVE  (\A a : Late(a, p)') /\ ~Created(p)' /\ BirthInv(p)'
  <1>1. pc'[p] \notin InitSteps \cup {"init-lock"}
    BY DEF InitSteps, OwnSteps, RootSteps, CopySteps, SealSteps
  <1> QED
    BY <1>1 DEF Late, Created, BirthInv

\* The write lock of the root.
LEMMA AcquireWriteStep ==
    ASSUME IInv, NEW p \in Procs, AcquireWrite(p) PROVE IInv'
  <1>1. pc[p] = "lock" /\ Acquire(p, job[p].root, job[p].op)
    BY DEF AcquireWrite
  <1>2. /\ job[p] \in CaptureJobs \cup PlainJobs \cup BackupJobs \cup RestoreJobs
        /\ job[p].op # "init" /\ job[p].root \in Roots
    BY <1>1, RootAt
  <1>3. /\ job[p] \in CaptureJobs => job[p].op = "capture"
        /\ job[p] \in PlainJobs => job[p].op \in {"rebuild", "verify"}
        /\ job[p] \in BackupJobs => job[p].op = "backup"
        /\ job[p] \in RestoreJobs => job[p].op = "restore"
    BY DEF CaptureJobs, PlainJobs, BackupJobs, RestoreJobs
  <1>4. job[p].op \in {"capture", "rebuild", "verify", "backup", "restore"}
    BY <1>2, <1>3
  <1>5. job[p].op \in Steps /\ job[p].op \in RootSteps
    BY <1>4 DEF Steps, RootSteps
  <1>6. /\ OthersStay(p) /\ CallTypes' /\ pc'[p] = job[p].op /\ job'[p] = job[p]
        /\ lock'[job[p].root] = p
    BY <1>1, <1>2, <1>5, Acquired
  <1>7. UNCHANGED <<disk, minted, copies, answers>>
    BY <1>1 DEF Acquire
  <1>8. (\A a : Late(a, p)') /\ ~Created(p)' /\ BirthInv(p)'
    BY <1>2, <1>5, <1>6, RootCall
  <1>9. JobInv(p)'
    BY <1>2, <1>3, <1>4, <1>6 DEF JobInv, InitSteps, OwnSteps, SealSteps
  <1>10. CallInv(p)' /\ ~Packing(p)'
    BY <1>4, <1>6, <1>8, <1>9
    DEF CallInv, LockInv, CaptureInv, CopyInv, PackInv, Packing, CopySteps, SealSteps,
        InitSteps, OwnSteps
  <1> QED
    BY <1>6, <1>7, <1>8, <1>10, QuietStep

\* A verification writes nothing.
LEMMA VerifyStep ==
    ASSUME IInv, NEW p \in Procs, Verify(p) PROVE IInv'
  <1>1. UNCHANGED <<disk, minted, bounds, copies>>
    BY DEF Verify
  <1>2. CASE Refuse(p)
    BY <1>1, <1>2, EndStep DEF Refuse
  <1>3. CASE ~Refuse(p)
    <2>1. PICK a : /\ a = [op |-> "verify", root |-> job[p].root, id |-> tree[job[p].root].id,
                           items |-> Present(tree[job[p].root])]
                   /\ Answer(p, a)
      BY <1>3 DEF Verify
    <2>2. a.op = "verify"
      BY <2>1
    <2>3. HistTypes'
      BY <1>1, <2>1, <2>2 DEF Answer, IInv, Types, HistTypes
    <2>4. AnswerHolds(a)'
      BY <2>2 DEF AnswerHolds
    <2> QED
      BY <1>1, <2>1, <2>2, <2>3, <2>4, AnswerStep DEF Answer
  <1> QED
    BY <1>2, <1>3

\* A backup notes what the source holds, under its lock.
LEMMA SurveyStep ==
    ASSUME IInv, NEW p \in Procs, Survey(p) PROVE IInv'
  <1>1. pc[p] = "backup" /\ UNCHANGED <<disk, minted, bounds, copies>>
    BY DEF Survey
  <1>2. CASE Refuse(p)
    BY <1>1, <1>2, EndStep DEF Refuse
  <1>3. CASE ~Refuse(p)
    <2> DEFINE t == tree[job[p].root]
    <2>1. /\ job' = [job EXCEPT ![p].items = Present(t)] /\ Goto(p, "mkdir")
          /\ UNCHANGED <<locks, answers>>
      BY <1>3 DEF Survey
    <2>2. "backup" \in RootSteps /\ "mkdir" \in RootSteps /\ "mkdir" \in Steps
      BY DEF RootSteps, Steps
    <2>3. job[p] \in BackupJobs /\ lock[job[p].root] = p
      BY <1>1, <2>2, RootAt DEF CallInv, JobInv
    <2>4. PICK j : j = [job[p] EXCEPT !.items = Present(t)]
      OBVIOUS
    <2>5. Present(t) \in SUBSET Items
      BY DEF Present
    <2>6. j \in BackupJobs /\ j.root = job[p].root /\ j.op = "backup"
      BY <2>3, <2>4, <2>5 DEF BackupJobs
    <2>7. job' = [job EXCEPT ![p] = j]
      BY <2>1, <2>4 DEF IInv, Types, CallTypes
    <2>8. j \in Jobs
      BY <2>6 DEF Jobs
    <2>9. OthersStay(p) /\ CallTypes' /\ pc'[p] = "mkdir" /\ job'[p] = j
      BY <2>1, <2>2, <2>7, <2>8, Going
    <2>10. (\A a : Late(a, p)') /\ ~Created(p)' /\ BirthInv(p)'
      BY <2>2, <2>6, <2>9, RootCall
    <2>11. CallInv(p)' /\ ~Packing(p)'
      BY <2>1, <2>3, <2>6, <2>9, <2>10
      DEF CallInv, JobInv, LockInv, CaptureInv, CopyInv, PackInv, Packing, CopySteps, SealSteps,
          InitSteps, OwnSteps, locks
    <2> QED
      BY <1>1, <2>1, <2>9, <2>10, <2>11, QuietStep
  <1> QED
    BY <1>2, <1>3

\* A restore goes on only with a bundle that is what its manifest says.
LEMMA VerifyBundleStep ==
    ASSUME IInv, NEW p \in Procs, VerifyBundle(p) PROVE IInv'
  <1>1. pc[p] = "restore" /\ UNCHANGED <<disk, minted, bounds, copies>>
    BY DEF VerifyBundle
  <1>2. CASE Refuse(p)
    BY <1>1, <1>2, EndStep DEF Refuse
  <1>3. CASE ~Refuse(p)
    <2>1. /\ manifest[job[p].root] = Manifest(job[p].id, job[p].items)
          /\ Step(p, "root")
      BY <1>3 DEF VerifyBundle
    <2>2. "restore" \in RootSteps /\ "root" \in RootSteps /\ "root" \in Steps
      BY DEF RootSteps, Steps
    <2>3. job[p] \in RestoreJobs /\ lock[job[p].root] = p
      BY <1>1, <2>2, RootAt DEF CallInv, JobInv
    <2>4. job[p].op = "restore"
      BY <2>3 DEF RestoreJobs
    <2>5. OthersStay(p) /\ CallTypes' /\ pc'[p] = "root" /\ job'[p] = job[p]
      BY <2>1, <2>2, GoingOn DEF Step
    <2>6. (\A a : Late(a, p)') /\ ~Created(p)' /\ BirthInv(p)'
      BY <2>2, <2>4, <2>5, RootCall
    <2>7. ~Packing(p)'
      BY <2>4, <2>5 DEF Packing
    <2>8. CallInv(p)'
      BY <1>1, <2>1, <2>3, <2>5, <2>6, <2>7
      DEF CallInv, JobInv, LockInv, CaptureInv, CopyInv, PackInv, CopySteps, SealSteps,
          InitSteps, OwnSteps, Step, locks, disk
    <2> QED
      BY <1>1, <2>1, <2>5, <2>6, <2>7, <2>8, QuietStep DEF Step
  <1> QED
    BY <1>2, <1>3

\* The write lock of the target of a copy.
LEMMA AcquireTargetStep ==
    ASSUME IInv, NEW p \in Procs, AcquireTarget(p) PROVE IInv'
  <1>1. pc[p] = "target" /\ Acquire(p, job[p].to, "copy")
    BY DEF AcquireTarget
  <1>2. "target" \in RootSteps /\ "copy" \in RootSteps /\ "copy" \in Steps
    BY DEF RootSteps, CopySteps, Steps
  <1>3. /\ CallInv(p) /\ job[p].op # "init" /\ lock[job[p].root] = p /\ job[p].root \in Roots
    BY <1>1, <1>2, RootAt
  <1>4. job[p].to \in Roots
    BY <1>1, WorksOn
  <1>5. /\ OthersStay(p) /\ CallTypes' /\ pc'[p] = "copy" /\ job'[p] = job[p]
        /\ lock'[job[p].to] = p /\ lock'[job[p].root] = p
    BY <1>1, <1>2, <1>3, <1>4, Acquired
  <1>6. UNCHANGED <<disk, minted, copies, answers>>
    BY <1>1 DEF Acquire
  <1>7. (\A a : Late(a, p)') /\ ~Created(p)' /\ BirthInv(p)'
    BY <1>2, <1>3, <1>5, RootCall
  <1>8. Packing(p)' => Packing(p) /\ job'[p].to = job[p].to
    BY <1>1, <1>5 DEF Packing
  <1>9. JobInv(p)' /\ LockInv(p)' /\ CaptureInv(p)'
    BY <1>1, <1>3, <1>5
    DEF CallInv, JobInv, LockInv, CaptureInv, SealSteps, InitSteps, OwnSteps
  <1>10. CopyInv(p)' /\ PackInv(p)'
    BY <1>1, <1>3, <1>5, <1>6, <1>8
    DEF CallInv, CopyInv, PackInv, Packing, CopySteps, SealSteps, disk
  <1> QED
    BY <1>5, <1>6, <1>7, <1>8, <1>9, <1>10, QuietStep DEF CallInv
\* A copy that is over holds exactly what it was to bring.
LEMMA CompareCopyStep ==
    ASSUME IInv, NEW p \in Procs, CompareCopy(p) PROVE IInv'
  <1> DEFINE t == tree[job[p].to]
             exact == Validated(t) /\ Present(t) = job[p].items
  <1>1. /\ pc[p] = "files" /\ t.id # NoFile
        /\ UNCHANGED <<disk, minted, bounds, copies>>
    BY DEF CompareCopy, Target
  <1>2. "files" \in RootSteps /\ "files" \in CopySteps /\ "seal" \in RootSteps /\ "seal" \in Steps
        /\ "seal" \in CopySteps
    BY DEF RootSteps, CopySteps, SealSteps, Steps
  <1>3. /\ CallInv(p) /\ job[p].op # "init" /\ lock[job[p].root] = p /\ lock[job[p].to] = p
        /\ job[p] \in BackupJobs \cup RestoreJobs
    BY <1>1, <1>2, RootAt DEF CallInv, JobInv
  <1>4. job[p].op = "backup" => job[p] \in BackupJobs
    BY <1>3 DEF RestoreJobs
  <1>5. job[p].op = "restore" => job[p] \in RestoreJobs
    BY <1>3 DEF BackupJobs
  <1>6. t.dir /\ t.id = job[p].id
    BY <1>1, <1>2, <1>3 DEF CallInv, CopyInv
  <1>7. CASE exact /\ job[p].op = "backup"
    <2>1. Step(p, "seal")
      BY <1>7 DEF CompareCopy, Target
    <2>2. OthersStay(p) /\ CallTypes' /\ pc'[p] = "seal" /\ job'[p] = job[p]
      BY <1>2, <2>1, GoingOn DEF Step
    <2>3. (\A a : Late(a, p)') /\ ~Created(p)' /\ BirthInv(p)'
      BY <1>2, <1>3, <2>2, RootCall
    <2>4. Packing(p)' => Packing(p) /\ job'[p].to = job[p].to
      BY <1>1, <1>2, <2>2 DEF Packing
    <2>5. JobInv(p)' /\ LockInv(p)' /\ CaptureInv(p)'
      BY <1>3, <1>4, <1>7, <2>1, <2>2
      DEF JobInv, LockInv, CaptureInv, SealSteps, InitSteps, OwnSteps, Step, locks
    <2>6. CopyInv(p)'
      BY <1>1, <1>6, <1>7, <2>2 DEF CopyInv, disk
    <2>7. PackInv(p)'
      BY <1>1, <1>2, <1>3, <2>2, <2>4 DEF CallInv, PackInv, disk
    <2> QED
      BY <1>1, <2>1, <2>2, <2>3, <2>4, <2>5, <2>6, <2>7, QuietStep DEF Step, CallInv
  <1>8. CASE exact /\ job[p].op = "restore"
    <2>1. PICK a : /\ a = [op |-> "restore", root |-> job[p].to, bundle |-> job[p].root,
                           id |-> job[p].id, held |-> Present(t)]
                   /\ Answer(p, a)
      BY <1>8 DEF CompareCopy, Target
    <2>2. /\ a \in RestoreAnswers /\ a.op = "restore" /\ a.root = job[p].to
          /\ a.bundle = job[p].root /\ a.id = job[p].id /\ a.held = job[p].items
      BY <1>5, <1>8, <2>1 DEF RestoreJobs, RestoreAnswers
    <2>3. HistTypes'
      BY <1>1, <2>1, <2>2 DEF Answer, IInv, Types, HistTypes
    <2>4. manifest[job[p].root] = Manifest(job[p].id, job[p].items)
      BY <1>1, <1>3, <1>8 DEF CallInv, CopyInv
    <2>5. RestoreHolds(a)'
      BY <1>1, <1>6, <1>8, <2>2, <2>4 DEF RestoreHolds, Validated, Readable, disk
    <2>6. AnswerHolds(a)'
      BY <2>2, <2>5 DEF AnswerHolds
    <2> QED
      BY <1>1, <2>1, <2>2, <2>3, <2>6, AnswerStep DEF Answer
  <1>9. CASE ~exact \/ job[p].op \notin {"backup", "restore"}
    <2>1. Refuse(p)
      BY <1>9 DEF CompareCopy, Target
    <2> QED
      BY <1>1, <2>1, EndStep DEF Refuse
  <1> QED
    BY <1>7, <1>8, <1>9

\* A backup is reported.
LEMMA ReportBackupStep ==
    ASSUME IInv, NEW p \in Procs, ReportBackup(p) PROVE IInv'
  <1>1. UNCHANGED <<disk, minted, bounds, copies>>
    BY DEF ReportBackup
  <1>2. CASE Refuse(p)
    BY <1>1, <1>2, EndStep DEF Refuse
  <1>3. CASE ~Refuse(p)
    <2>1. PICK a : /\ a = [op |-> "backup", bundle |-> job[p].to, id |-> job[p].id,
                           items |-> job[p].items]
                   /\ Answer(p, a)
      BY <1>3 DEF ReportBackup
    <2>2. a.op = "backup"
      BY <2>1
    <2>3. HistTypes'
      BY <1>1, <2>1, <2>2 DEF Answer, IInv, Types, HistTypes
    <2>4. AnswerHolds(a)'
      BY <2>2 DEF AnswerHolds
    <2> QED
      BY <1>1, <2>1, <2>2, <2>3, <2>4, AnswerStep DEF Answer
  <1> QED
    BY <1>2, <1>3

-----------------------------------------------------------------------------
(* init: leftovers come and go                                             *)


\* Leftovers of the request are dealt with under the lock of its configuration.
LEMMA DebrisMoves ==
    ASSUME IInv, NEW p \in Procs, UNCHANGED <<tree, config, manifest>>,
           minted' \in Nat, minted <= minted', debris' \subseteq Litters,
           \A d \in debris : d \in debris' \/ initLock[d.cfg] = p,
           \A d \in debris' : \/ d \in debris
                              \/ /\ initLock[d.cfg] = p
                                 /\ d.n = minted + 1 \/ \E e \in debris : e.n = d.n /\ e.cfg = d.cfg
    PROVE  DiskMoves(p) /\ DiskTypes' /\ TreeInv' /\ ManifestInv'
  <1>1. DiskMoves(p)
    BY GrowsSame DEF DiskMoves
  <1>2. DiskTypes'
    BY DEF IInv, Types, DiskTypes
  <1>3. ManifestInv'
    BY <1>1, ManifestsKept
  <1>4. TreeInv'
    BY DEF IInv, WorldInv, TreeInv
  <1> QED
    BY <1>1, <1>2, <1>3, <1>4
\* A step of an initialisation that changes the disk.
LEMMA InitMoves ==
    ASSUME IInv, NEW p \in Procs, OthersStay(p), CallTypes', DiskMoves(p), NothingLeft(p),
           DiskTypes', TreeInv', DebrisInv', ManifestInv', UNCHANGED <<copies, answers>>,
           job'[p] \in InitJobs, pc'[p] \in InitSteps, initLock'[job'[p].cfg] = p, BirthInv(p)',
           \A a \in answers : a.op = "init" => Late(a, p)',
           Created(p)' => Created(p) /\ job'[p].root = job[p].root
    PROVE  IInv'
  <1>1. CallInv(p)' /\ ~Packing(p)'
    BY InitCall
  <1>2. HistTypes'
    BY DEF IInv, Types, HistTypes
  <1> QED
    BY <1>1, <1>2, MoveStep

\* The marker of a leftover transaction goes.
LEMMA SweepTransactionStep ==
    ASSUME IInv, NEW p \in Procs, SweepTransaction(p) PROVE IInv'
  <1>1. /\ pc[p] = "sweep"
        /\ UNCHANGED <<config, tree, manifest, locks, minted, bounds, answers, copies>>
    BY DEF SweepTransaction
  <1>2. PICK d \in Owned(p) : /\ debris' = (debris \ {d}) \cup {[d EXCEPT !.state = "bare"]}
                              /\ job' = [job EXCEPT ![p].victim = d.n]
    BY DEF SweepTransaction
  <1>3. "sweep" \in InitSteps /\ "sweep" \notin OwnSteps /\ "rmdir" \in InitSteps /\ "rmdir" \in Steps
        /\ "rmdir" \notin OwnSteps
    BY DEF Steps, InitSteps, OwnSteps
  <1>4. job[p] \in InitJobs /\ initLock[job[p].cfg] = p
    BY <1>1, <1>3, InitAt
  <1>5. /\ d \in debris /\ d \in Litters /\ d.cfg = job[p].cfg /\ d.root = job[p].root
        /\ d.n \in Nat /\ d.n <= minted
    BY DEF Owned, IInv, Types, DiskTypes, WorldInv, DebrisInv, Litters
  <1>6. PICK e : e = [d EXCEPT !.state = "bare"]
    OBVIOUS
  <1>7. e \in Litters /\ e.n = d.n /\ e.cfg = d.cfg /\ e.root = d.root /\ e.state = "bare"
    BY <1>5, <1>6 DEF Litters
  <1>8. debris' = (debris \ {d}) \cup {e}
    BY <1>2, <1>6
  <1>9. DiskTypes' /\ DiskMoves(p) /\ TreeInv' /\ ManifestInv'
    <2>1. minted' \in Nat /\ minted <= minted' /\ debris \subseteq Litters
      BY <1>1 DEF IInv, Types, DiskTypes
    <2>2. debris' \subseteq Litters
      BY <1>7, <1>8, <2>1
    <2> QED
      BY <1>1, <1>4, <1>5, <1>7, <1>8, <2>1, <2>2, DebrisMoves
  <1>10. DebrisInv'
    BY <1>1, <1>5, <1>7, <1>8 DEF IInv, WorldInv, DebrisInv
  <1>11. NothingLeft(p)
    BY <1>7, <1>8 DEF NothingLeft, Recognised
  <1>12. PICK j : j = [job[p] EXCEPT !.victim = d.n]
    OBVIOUS
  <1>13. /\ j \in InitJobs /\ j.cfg = job[p].cfg /\ j.root = job[p].root /\ j.own = job[p].own
         /\ j.created = job[p].created /\ j.next = job[p].next /\ j.op = job[p].op /\ j.id = job[p].id
         /\ j.victim = d.n
    BY <1>4, <1>5, <1>12 DEF InitJobs
  <1>14. job' = [job EXCEPT ![p] = j] /\ j \in Jobs
    BY <1>2, <1>12, <1>13 DEF IInv, Types, CallTypes, Jobs
  <1>15. OthersStay(p) /\ CallTypes' /\ pc'[p] = "rmdir" /\ job'[p] = j
    BY <1>1, <1>3, <1>14, Going DEF SweepTransaction
  <1>16. BirthInv(p)
    BY DEF IInv, CallInv
  <1>17. \A f \in debris' : f.n = d.n => f.cfg = job[p].cfg
    BY <1>5, <1>7, <1>8 DEF IInv, WorldInv, DebrisInv
  <1>18. BirthInv(p)'
    BY <1>1, <1>3, <1>5, <1>13, <1>15, <1>16, <1>17 DEF BirthInv, Connected
  <1>19. ASSUME NEW a \in answers, a.op = "init" PROVE Late(a, p)'
    BY <1>1, <1>3, <1>13, <1>15, <1>19
    DEF Late, IInv, WorldInv, AnswerInv, AnswerHolds, InitHolds
  <1>20. Created(p)' => Created(p) /\ job'[p].root = job[p].root
    BY <1>13, <1>15 DEF Created
  <1>21. initLock'[job'[p].cfg] = p
    BY <1>1, <1>4, <1>13, <1>15 DEF locks
  <1> QED
    BY <1>1, <1>3, <1>9, <1>10, <1>11, <1>13, <1>15, <1>18, <1>19, <1>20, <1>21, InitMoves

\* Then its directory.
LEMMA RemoveDirectoryStep ==
    ASSUME IInv, NEW p \in Procs, RemoveDirectory(p) PROVE IInv'
  <1>1. /\ pc[p] = "rmdir" /\ debris' = {d \in debris : d.n # job[p].victim}
        /\ Step(p, "sweep") /\ UNCHANGED <<config, tree, manifest, minted, bounds, copies>>
    BY DEF RemoveDirectory
  <1>2. "sweep" \in InitSteps /\ "sweep" \notin OwnSteps /\ "rmdir" \in InitSteps
        /\ "rmdir" \notin OwnSteps
    BY DEF InitSteps, OwnSteps
  <1>3. job[p] \in InitJobs /\ initLock[job[p].cfg] = p
    BY <1>1, <1>2, InitAt
  <1>4. /\ OthersStay(p) /\ CallTypes' /\ pc'[p] = "sweep" /\ job'[p] = job[p]
        /\ initLock' = initLock /\ answers' = answers
        /\ Created(p)' => Created(p) /\ job'[p].root = job[p].root
    BY <1>1, <1>2, <1>3, InitGoes
  <1>5. BirthInv(p)
    BY DEF IInv, CallInv
  <1>6. DiskTypes' /\ DiskMoves(p) /\ TreeInv' /\ ManifestInv'
    <2>1. minted' \in Nat /\ minted <= minted' /\ debris' \subseteq Litters
      BY <1>1 DEF IInv, Types, DiskTypes
    <2>2. \A d \in debris : d \in debris' \/ initLock[d.cfg] = p
      BY <1>1, <1>3, <1>5 DEF BirthInv, InitSteps
    <2> QED
      BY <1>1, <2>1, <2>2, DebrisMoves
  <1>7. DebrisInv' /\ NothingLeft(p)
    BY <1>1 DEF IInv, WorldInv, DebrisInv, NothingLeft
  <1>8. BirthInv(p)'
    BY <1>1, <1>2, <1>4, <1>5 DEF BirthInv, Connected
  <1>9. ASSUME NEW a \in answers, a.op = "init" PROVE Late(a, p)'
    BY <1>1, <1>2, <1>4, <1>9 DEF Late, IInv, WorldInv, AnswerInv, AnswerHolds, InitHolds
  <1> QED
    BY <1>1, <1>2, <1>3, <1>4, <1>6, <1>7, <1>8, <1>9, InitMoves

\* A leftover temporary goes.
LEMMA SweepTemporaryStep ==
    ASSUME IInv, NEW p \in Procs, SweepTemporary(p) PROVE IInv'
  <1>1. /\ pc[p] = "sweep"
        /\ UNCHANGED <<config, tree, manifest, locks, pc, job, minted, bounds, answers, copies>>
    BY DEF SweepTemporary
  <1>2. PICK d \in Owned(p) : debris' = debris \ {d}
    BY DEF SweepTemporary
  <1>3. "sweep" \in InitSteps /\ "sweep" \notin OwnSteps
    BY DEF InitSteps, OwnSteps
  <1>4. job[p] \in InitJobs /\ initLock[job[p].cfg] = p
    BY <1>1, <1>3, InitAt
  <1>5. BirthInv(p)
    BY DEF IInv, CallInv
  <1>6. DiskTypes' /\ DiskMoves(p) /\ TreeInv' /\ ManifestInv'
    <2>1. minted' \in Nat /\ minted <= minted' /\ debris' \subseteq Litters
      BY <1>1, <1>2 DEF IInv, Types, DiskTypes
    <2>2. \A e \in debris : e \in debris' \/ initLock[e.cfg] = p
      BY <1>2, <1>4 DEF Owned
    <2>3. \A e \in debris' : e \in debris
      BY <1>2
    <2> QED
      BY <1>1, <2>1, <2>2, <2>3, DebrisMoves
  <1>7. DebrisInv' /\ NothingLeft(p)
    BY <1>1, <1>2 DEF IInv, WorldInv, DebrisInv, NothingLeft
  <1>8. OthersStay(p) /\ CallTypes'
    BY <1>1 DEF OthersStay, IInv, Types, CallTypes, locks
  <1>9. BirthInv(p)'
    BY <1>1, <1>3, <1>5 DEF BirthInv, Connected
  <1>10. ASSUME NEW a \in answers, a.op = "init" PROVE Late(a, p)'
    BY <1>1, <1>10 DEF Late, IInv, WorldInv, AnswerInv, AnswerHolds, InitHolds
  <1>11. Created(p)' => Created(p) /\ job'[p].root = job[p].root
    BY <1>1 DEF Created
  <1> QED
    BY <1>1, <1>3, <1>4, <1>6, <1>7, <1>8, <1>9, <1>10, <1>11, InitMoves DEF locks
\* A leftover of its own is drawn.
LEMMA Drawn ==
    ASSUME IInv, NEW p \in Procs, NEW kind \in {"txn", "temp"}, NEW state \in {"bare", "torn"},
           pc[p] \in {"build", "temp"}, NEW s \in OwnSteps, s # "connect",
           s = "fill" => pc[p] = "temp",
           minted' = minted + 1, debris' = debris \cup {Litter(p, kind, state)},
           job' = [job EXCEPT ![p].own = minted + 1], Goto(p, s),
           UNCHANGED <<config, tree, manifest, locks, bounds, answers, copies>>
    PROVE  IInv'
  <1>1. pc[p] \in InitSteps /\ pc[p] \notin OwnSteps /\ s \in InitSteps /\ s \in Steps
    BY DEF Steps, InitSteps, OwnSteps
  <1>2. job[p] \in InitJobs /\ initLock[job[p].cfg] = p
    BY <1>1, InitAt
  <1>3. minted \in Nat /\ \A d \in debris : d.n \in Nat /\ d.n # 0 /\ d.n <= minted
    BY DEF IInv, Types, DiskTypes, Litters, WorldInv, DebrisInv
  <1>4. PICK e : e = Litter(p, kind, state)
    OBVIOUS
  <1>5. /\ e \in Litters /\ e.n = minted + 1 /\ e.cfg = job[p].cfg /\ e.root = job[p].root
        /\ e.state = state
    BY <1>2, <1>3, <1>4 DEF Litters, Litter, InitJobs
  <1>6. debris' = debris \cup {e}
    BY <1>4
  <1>7. DiskTypes' /\ DiskMoves(p) /\ TreeInv' /\ ManifestInv'
    <2>1. minted' \in Nat /\ minted <= minted'
      BY <1>3
    <2>2. debris' \subseteq Litters
      BY <1>5, <1>6 DEF IInv, Types, DiskTypes
    <2> QED
      BY <1>2, <1>5, <1>6, <2>1, <2>2, DebrisMoves
  <1>8. DebrisInv'
    <2>1. \A d \in debris' : d.n <= minted'
      BY <1>3, <1>5, <1>6
    <2>2. \A d \in debris : d.n # e.n
      BY <1>3, <1>5
    <2> QED
      BY <1>6, <2>1, <2>2 DEF IInv, WorldInv, DebrisInv
  <1>9. NothingLeft(p)
    BY <1>5, <1>6 DEF NothingLeft, Recognised
  <1>10. PICK j : j = [job[p] EXCEPT !.own = minted + 1]
    OBVIOUS
  <1>11. /\ j \in InitJobs /\ j.cfg = job[p].cfg /\ j.root = job[p].root /\ j.own = minted + 1
         /\ j.created = job[p].created /\ j.op = job[p].op
    BY <1>2, <1>3, <1>10 DEF InitJobs
  <1>12. job' = [job EXCEPT ![p] = j] /\ j \in Jobs
    BY <1>10, <1>11 DEF IInv, Types, CallTypes, Jobs
  <1>13. OthersStay(p) /\ CallTypes' /\ pc'[p] = s /\ job'[p] = j
    BY <1>1, <1>12, Going
  <1>14. BirthInv(p)
    BY DEF IInv, CallInv
  <1>15. pc[p] = "temp" => Swept(p)'
    <2> SUFFICES ASSUME pc[p] = "temp", NEW d \in debris', d.cfg = j.cfg, d.root = j.root,
                        d.state \in Recognised
                 PROVE  FALSE
      BY <1>13 DEF Swept
    <2>1. d \in debris
      BY <1>5, <1>6 DEF Recognised
    <2>2. Swept(p) /\ job[p].own = 0
      BY <1>1, <1>14 DEF BirthInv
    <2> QED
      BY <1>3, <1>11, <2>1, <2>2 DEF Swept
  <1>16. BirthInv(p)'
    <2>1. \E d \in debris' : d.n = j.own /\ d.cfg = j.cfg /\ d.root = j.root
      BY <1>5, <1>6, <1>11
    <2>2. j.created => tree'[j.root].dir
      BY <1>1, <1>11, <1>14 DEF BirthInv
    <2>3. s \notin {"rmdir", "done", "sweep", "temp", "connect", "reopen"}
      BY DEF OwnSteps
    <2> QED
      BY <1>13, <1>15, <2>1, <2>2, <2>3 DEF BirthInv
  <1>17. ASSUME NEW a \in answers, a.op = "init" PROVE Late(a, p)'
    <2>1. ~(job[p].cfg = a.cfg /\ job[p].root = a.root)
      BY <1>17, NotAnswered
    <2> QED
      BY <1>11, <1>13, <2>1 DEF Late
  <1>18. Created(p)' => Created(p) /\ job'[p].root = job[p].root
    BY <1>11, <1>13 DEF Created
  <1>19. initLock'[job'[p].cfg] = p
    BY <1>2, <1>11, <1>13 DEF locks
  <1> QED
    BY <1>1, <1>7, <1>8, <1>9, <1>11, <1>13, <1>16, <1>17, <1>18, <1>19, InitMoves

\* A transaction is made, under a number of its own.
LEMMA MakeTransactionStep ==
    ASSUME IInv, NEW p \in Procs, MakeTransaction(p) PROVE IInv'
  <1>1. "mark" \in OwnSteps
    BY DEF OwnSteps
  <1> QED
    BY <1>1, Drawn DEF MakeTransaction

\* So is the temporary of the configuration.
LEMMA OpenTemporaryStep ==
    ASSUME IInv, NEW p \in Procs, OpenTemporary(p) PROVE IInv'
  <1>1. "fill" \in OwnSteps
    BY DEF OwnSteps
  <1> QED
    BY <1>1, Drawn DEF OpenTemporary

\* The record of what p is building right now is there.
LEMMA MineIs ==
    ASSUME IInv, NEW p \in Procs, pc[p] \in OwnSteps
    PROVE  /\ Mine(p) \in debris /\ Mine(p).n = job[p].own
           /\ Mine(p).cfg = job[p].cfg /\ Mine(p).root = job[p].root
           /\ \A d \in debris : d.n = job[p].own => d = Mine(p)
  <1>1. BirthInv(p) /\ pc[p] \in InitSteps
    BY DEF IInv, CallInv, InitSteps
  <1>2. PICK d \in debris : /\ d.n = job[p].own
                            /\ d.cfg = job[p].cfg /\ d.root = job[p].root
    BY <1>1 DEF BirthInv
  <1>3. \A e \in debris : e.n = job[p].own => e = d
    BY <1>2 DEF IInv, WorldInv, DebrisInv
  <1>4. Mine(p) \in debris /\ Mine(p).n = job[p].own
    BY <1>2 DEF Mine
  <1>5. Mine(p) = d
    BY <1>3, <1>4
  <1> QED
    BY <1>2, <1>3, <1>5

\* It changes its state.
LEMMA MineSet ==
    ASSUME IInv, NEW p \in Procs, pc[p] \in OwnSteps, NEW state \in Recognised,
           SetMine(p, state), minted' = minted
    PROVE  /\ debris' \subseteq Litters /\ DebrisInv' /\ NothingLeft(p)
           /\ \A d \in debris : d \in debris' \/ initLock[d.cfg] = p
           /\ \A d \in debris' : \/ d \in debris
                                 \/ /\ initLock[d.cfg] = p
                                    /\ \E e \in debris : e.n = d.n /\ e.cfg = d.cfg
           /\ \A d \in debris' : d \in debris \/ d.n = job[p].own
           /\ \E d \in debris' : /\ d.n = job[p].own
                                 /\ d.cfg = job[p].cfg /\ d.root = job[p].root
  <1>1. PICK m : m = Mine(p)
    OBVIOUS
  <1>2. PICK e : e = [m EXCEPT !.state = state]
    OBVIOUS
  <1>3. /\ m \in debris /\ m.n = job[p].own
        /\ m.cfg = job[p].cfg /\ m.root = job[p].root
        /\ \A d \in debris : d.n = job[p].own => d = m
    BY <1>1, MineIs
  <1>4. m \in Litters
    BY <1>3 DEF IInv, Types, DiskTypes
  <1>5. /\ e \in Litters /\ e.n = m.n /\ e.cfg = m.cfg /\ e.root = m.root /\ e.state = state
    BY <1>2, <1>4 DEF Litters, Recognised
  <1>6. debris' = (debris \ {m}) \cup {e}
    BY <1>1, <1>2 DEF SetMine
  <1>7. pc[p] \in InitSteps /\ initLock[job[p].cfg] = p
    BY InitAt DEF InitSteps
  <1>8. DebrisInv'
    BY <1>3, <1>5, <1>6 DEF IInv, WorldInv, DebrisInv
  <1>9. NothingLeft(p)
    <2>1. \A a \in answers : a.op = "init" => ~(job[p].cfg = a.cfg /\ job[p].root = a.root)
      BY NotAnswered
    <2> QED
      BY <1>3, <1>5, <1>6, <2>1 DEF NothingLeft
  <1>10. debris' \subseteq Litters
    BY <1>5, <1>6 DEF IInv, Types, DiskTypes
  <1> QED
    BY <1>3, <1>5, <1>6, <1>7, <1>8, <1>9, <1>10
\* What is being built gets on.
LEMMA MineGoes ==
    ASSUME IInv, NEW p \in Procs, pc[p] \in OwnSteps, NEW state \in Recognised,
           SetMine(p, state), NEW s \in {"stage", "place", "connect"}, Step(p, s),
           s = "connect" => pc[p] = "fill",
           UNCHANGED <<config, tree, manifest, minted, bounds, copies>>
    PROVE  IInv'
  <1>1. pc[p] \in InitSteps /\ s \in InitSteps /\ s \in OwnSteps
    BY DEF InitSteps, OwnSteps
  <1>2. job[p] \in InitJobs /\ initLock[job[p].cfg] = p
    BY <1>1, InitAt
  <1>3. /\ OthersStay(p) /\ CallTypes' /\ pc'[p] = s /\ job'[p] = job[p]
        /\ initLock' = initLock /\ answers' = answers
        /\ Created(p)' => Created(p) /\ job'[p].root = job[p].root
    BY <1>1, <1>2, InitGoes
  <1>4. /\ debris' \subseteq Litters /\ DebrisInv' /\ NothingLeft(p)
        /\ \A d \in debris : d \in debris' \/ initLock[d.cfg] = p
        /\ \A d \in debris' : \/ d \in debris
                              \/ /\ initLock[d.cfg] = p
                                 /\ \E e \in debris : e.n = d.n /\ e.cfg = d.cfg
        /\ \A d \in debris' : d \in debris \/ d.n = job[p].own
        /\ \E d \in debris' : /\ d.n = job[p].own
                              /\ d.cfg = job[p].cfg /\ d.root = job[p].root
    BY MineSet
  <1>5. DiskTypes' /\ DiskMoves(p) /\ TreeInv' /\ ManifestInv'
    <2>1. minted' \in Nat /\ minted <= minted'
      BY DEF IInv, Types, DiskTypes
    <2> QED
      BY <1>4, <2>1, DebrisMoves
  <1>6. BirthInv(p)
    BY DEF IInv, CallInv
  <1>7. s = "connect" => Swept(p)'
    BY <1>3, <1>4, <1>6, <1>1 DEF BirthInv, Swept
  <1>8. BirthInv(p)'
    <2>1. s \notin {"rmdir", "done", "sweep", "temp", "fill", "reopen"}
      OBVIOUS
    <2> QED
      BY <1>1, <1>3, <1>4, <1>6, <1>7, <2>1 DEF BirthInv
  <1>9. ASSUME NEW a \in answers, a.op = "init" PROVE Late(a, p)'
    BY <1>3, <1>9, NotAnswered DEF Late
  <1> QED
    BY <1>1, <1>2, <1>3, <1>4, <1>5, <1>8, <1>9, InitMoves

\* The transaction gets its marker.
LEMMA MarkTransactionStep ==
    ASSUME IInv, NEW p \in Procs, MarkTransaction(p) PROVE IInv'
  BY MineGoes DEF MarkTransaction, OwnSteps, Recognised

\* The store is staged in the transaction.
LEMMA StageStoreStep ==
    ASSUME IInv, NEW p \in Procs, StageStore(p) PROVE IInv'
  BY MineGoes DEF StageStore, OwnSteps, Recognised

\* The temporary is written.
LEMMA FillTemporaryStep ==
    ASSUME IInv, NEW p \in Procs, FillTemporary(p) PROVE IInv'
  BY MineGoes DEF FillTemporary, OwnSteps, Recognised

\* The configuration names the root from here on.
LEMMA ConnectStep ==
    ASSUME IInv, NEW p \in Procs, Connect(p) PROVE IInv'
  <1> DEFINE c == job[p].cfg
  <1>1. /\ pc[p] = "connect"
        /\ config' = [config EXCEPT ![c] = IF @ = NoRoot THEN job[p].root ELSE @]
        /\ debris' = debris \ {Mine(p)}
        /\ job' = [job EXCEPT ![p].own = 0] /\ Goto(p, "reopen")
        /\ UNCHANGED <<tree, manifest, locks, minted, bounds, answers, copies>>
    BY DEF Connect
  <1>2. /\ pc[p] \in InitSteps /\ pc[p] \in OwnSteps
        /\ "reopen" \in InitSteps /\ "reopen" \in Steps /\ "reopen" \notin OwnSteps
    BY <1>1 DEF Steps, InitSteps, OwnSteps
  <1>3. job[p] \in InitJobs /\ initLock[job[p].cfg] = p /\ c \in Configs /\ job[p].root \in Roots
    BY <1>2, InitAt DEF InitJobs
  <1>4. /\ Mine(p) \in debris /\ Mine(p).n = job[p].own
        /\ Mine(p).cfg = job[p].cfg /\ Mine(p).root = job[p].root
        /\ \A d \in debris : d.n = job[p].own => d = Mine(p)
    BY <1>2, MineIs
  <1>5. DiskTypes'
    BY <1>1, <1>3 DEF IInv, Types, DiskTypes
  <1>6. DiskMoves(p)
    <2>1. \A x \in Configs : config'[x] = config[x] \/ config[x] = NoRoot
      BY <1>1 DEF IInv, Types, DiskTypes
    <2>2. \A d \in debris : d \in debris' \/ initLock[d.cfg] = p
      BY <1>1, <1>3, <1>4
    <2>3. minted <= minted'
      BY <1>1 DEF IInv, Types, DiskTypes
    <2> QED
      BY <1>1, <2>1, <2>2, <2>3, GrowsSame DEF DiskMoves
  <1>7. DebrisInv' /\ NothingLeft(p) /\ TreeInv'
    BY <1>1 DEF IInv, WorldInv, DebrisInv, NothingLeft, TreeInv
  <1>8. ManifestInv'
    BY <1>1, <1>6, ManifestsKept
  <1>9. PICK j : j = [job[p] EXCEPT !.own = 0]
    OBVIOUS
  <1>10. /\ j \in InitJobs /\ j.cfg = job[p].cfg /\ j.root = job[p].root /\ j.own = 0
         /\ j.created = job[p].created /\ j.op = job[p].op
    BY <1>3, <1>9 DEF InitJobs
  <1>11. job' = [job EXCEPT ![p] = j] /\ j \in Jobs
    BY <1>1, <1>9, <1>10 DEF IInv, Types, CallTypes, Jobs
  <1>12. OthersStay(p) /\ CallTypes' /\ pc'[p] = "reopen" /\ job'[p] = j
    BY <1>1, <1>2, <1>11, Going
  <1>13. BirthInv(p)
    BY DEF IInv, CallInv
  <1>14. Swept(p)'
    <2> SUFFICES ASSUME NEW d \in debris', d.cfg = j.cfg, d.root = j.root, d.state \in Recognised
                 PROVE  FALSE
      BY <1>12 DEF Swept
    <2>1. d \in debris /\ d # Mine(p)
      BY <1>1
    <2>2. d.n = job[p].own
      BY <1>1, <1>2, <1>10, <1>13, <2>1 DEF BirthInv, Swept
    <2> QED
      BY <1>4, <2>1, <2>2
  <1>15. BirthInv(p)'
    BY <1>1, <1>2, <1>10, <1>12, <1>13, <1>14 DEF BirthInv
  <1>16. ASSUME NEW a \in answers, a.op = "init" PROVE Late(a, p)'
    BY <1>2, <1>10, <1>12, <1>16, NotAnswered DEF Late
  <1>17. Created(p)' => Created(p) /\ job'[p].root = job[p].root
    BY <1>10, <1>12 DEF Created
  <1>18. initLock'[job'[p].cfg] = p
    BY <1>1, <1>3, <1>10, <1>12 DEF locks
  <1> QED
    BY <1>1, <1>2, <1>5, <1>6, <1>7, <1>8, <1>10, <1>12, <1>15, <1>16, <1>17, <1>18, InitMoves
\* The store gets its root: what was there is nothing, so nobody else has
\* created it and no answer is about it.
LEMMA PlaceStoreStep ==
    ASSUME IInv, NEW p \in Procs, PlaceStore(p) PROVE IInv'
  <1> DEFINE r == job[p].root
             u == Built(job[p].own)
  <1>1. pc[p] = "place" /\ Goto(p, "adopt")
        /\ UNCHANGED <<config, manifest, locks, minted, bounds, answers, copies>>
    BY DEF PlaceStore
  <1>2. /\ pc[p] \in InitSteps /\ pc[p] \in OwnSteps
        /\ "adopt" \in InitSteps /\ "adopt" \in Steps /\ "adopt" \in OwnSteps
    BY <1>1 DEF Steps, InitSteps, OwnSteps
  <1>3. job[p] \in InitJobs /\ initLock[job[p].cfg] = p /\ r \in Roots /\ job[p].own \in Nat
    BY <1>2, InitAt DEF InitJobs
  <1>4. BirthInv(p)
    BY DEF IInv, CallInv
  <1>5. CASE tree[r].dir
    <2>1. UNCHANGED <<tree, debris, job>>
      BY <1>5 DEF PlaceStore
    <2>2. OthersStay(p) /\ CallTypes' /\ pc'[p] = "adopt" /\ job'[p] = job[p]
      BY <1>1, <1>2, <2>1, GoingOn
    <2>3. BirthInv(p)'
      <3>1. "adopt" \notin {"rmdir", "done", "sweep", "temp", "fill", "connect", "reopen"}
        OBVIOUS
      <3> QED
        BY <1>2, <1>4, <2>1, <2>2, <3>1 DEF BirthInv
    <2>4. ASSUME NEW a \in answers, a.op = "init" PROVE Late(a, p)'
      BY <1>2, <2>2, <2>4, NotAnswered DEF Late
    <2>5. Created(p)' => Created(p) /\ job'[p].root = job[p].root
      BY <2>2 DEF Created
    <2> QED
      BY <1>1, <1>2, <1>3, <2>1, <2>2, <2>3, <2>4, <2>5, InitQuiet DEF disk, locks
  <1>6. CASE ~tree[r].dir
    <2>1. /\ tree' = [tree EXCEPT ![r] = u] /\ SetMine(p, "marked")
          /\ job' = [job EXCEPT ![p].created = TRUE]
      BY <1>6 DEF PlaceStore, PutTree
    <2>2. tree[r] = NoTree
      BY <1>3, <1>6 DEF IInv, WorldInv, TreeInv
    <2>3. u \in TreeType /\ u.dir /\ Grows(tree[r], u)
      <3>1. PICK n : n = NoTree
        OBVIOUS
      <3>2. n \in TreeType
        BY <1>3, <2>2, <3>1 DEF IInv, Types, DiskTypes
      <3>3. u = [n EXCEPT !.dir = TRUE, !.id = job[p].own, !.layout = TRUE]
        BY <3>1 DEF Built
      <3>4. u \in TreeType /\ u.dir
        BY <1>3, <3>2, <3>3 DEF TreeType
      <3>5. tree[r].id = NoFile /\ ~tree[r].layout /\ \A i \in Items : tree[r].items[i] = "none"
        BY <2>2 DEF NoTree
      <3>6. Grows(tree[r], u)
        BY <3>4, <3>5 DEF Grows, Captured
      <3> QED
        BY <3>4, <3>6
    <2> HIDE DEF u
    <2>4. /\ tree \in [Roots -> TreeType] /\ tree'[r] = u
          /\ \A x \in Roots : x # r => tree'[x] = tree[x]
      BY <1>3, <2>1 DEF IInv, Types, DiskTypes
    <2>5. /\ debris' \subseteq Litters /\ DebrisInv' /\ NothingLeft(p)
          /\ \A d \in debris : d \in debris' \/ initLock[d.cfg] = p
          /\ \A d \in debris' : \/ d \in debris
                                \/ /\ initLock[d.cfg] = p
                                   /\ \E e \in debris : e.n = d.n /\ e.cfg = d.cfg
          /\ \E d \in debris' : /\ d.n = job[p].own
                                /\ d.cfg = job[p].cfg /\ d.root = job[p].root
      <3>1. "marked" \in Recognised
        BY DEF Recognised
      <3> QED
        BY <1>1, <1>2, <2>1, <3>1, MineSet
    <2>6. DiskTypes'
      BY <1>1, <1>3, <2>1, <2>3, <2>5 DEF IInv, Types, DiskTypes
    <2>7. DiskMoves(p)
      <3>1. \A x \in Roots : /\ Grows(tree[x], tree'[x])
                             /\ lock[x] # p /\ tree[x].dir => tree'[x] = tree[x]
        BY <1>6, <2>3, <2>4, GrowsSame
      <3>2. minted <= minted'
        BY <1>1 DEF IInv, Types, DiskTypes
      <3> QED
        BY <1>1, <2>5, <3>1, <3>2 DEF DiskMoves
    <2>8. TreeInv'
      BY <2>3, <2>4 DEF IInv, WorldInv, TreeInv
    <2>9. ManifestInv'
      <3>1. ~Readable(tree[r])
        BY <1>6 DEF Readable, IsStore
      <3>2. \A b \in Bundles : Readable(tree[b]) => Readable(tree'[b])
        BY <2>4, <3>1 DEF Roots
      <3> QED
        BY <1>1, <2>7, <3>2, ManifestsKept
    <2>10. PICK j : j = [job[p] EXCEPT !.created = TRUE]
      OBVIOUS
    <2>11. /\ j \in InitJobs /\ j.cfg = job[p].cfg /\ j.root = job[p].root /\ j.own = job[p].own
           /\ j.op = job[p].op
      BY <1>3, <2>10 DEF InitJobs
    <2>12. job' = [job EXCEPT ![p] = j] /\ j \in Jobs
      BY <2>1, <2>10, <2>11 DEF IInv, Types, CallTypes, Jobs
    <2>13. OthersStay(p) /\ CallTypes' /\ pc'[p] = "adopt" /\ job'[p] = j
      BY <1>1, <1>2, <2>12, Going
    <2>14. BirthInv(p)'
      <3>1. "adopt" \notin {"rmdir", "done", "sweep", "temp", "fill", "connect", "reopen"}
        OBVIOUS
      <3> QED
        BY <1>2, <2>3, <2>4, <2>5, <2>11, <2>13, <3>1 DEF BirthInv
    <2>15. initLock'[job'[p].cfg] = p
      BY <1>1, <1>3, <2>11, <2>13 DEF locks
    <2>16. CallInv(p)' /\ ~Packing(p)'
      BY <1>2, <2>11, <2>13, <2>14, <2>15, InitCall
    <2>17. ASSUME NEW a \in answers, a.op = "init" PROVE Late(a, p)'
      BY <1>2, <2>11, <2>13, <2>17, NotAnswered DEF Late
    <2>18. CreateInv'
      <3>1. ASSUME NEW q \in Procs \ {p}, Created(q)' PROVE Created(q) /\ job'[q].root # r
                                                            /\ job'[q].root = job[q].root
        <4>1. Created(q) /\ job'[q].root = job[q].root
          BY <2>13, <3>1 DEF OthersStay, Created
        <4>2. pc[q] \in InitSteps \cup {"init-lock"}
          BY <4>1, InitAt DEF Created
        <4>3. BirthInv(q)
          BY DEF IInv, CallInv
        <4>4. tree[job[q].root].dir
          BY <4>1, <4>2, <4>3 DEF BirthInv, Created
        <4> QED
          BY <1>6, <4>1, <4>4
      <3>2. \A a \in Answered("init") : a.root # r
        BY <1>6 DEF Answered, IInv, WorldInv, AnswerInv, AnswerHolds, InitHolds, Connected, IsStore
      <3>3. job'[p].root = r
        BY <2>11, <2>13
      <3>4. CreateInv /\ Answered("init")' = Answered("init")
        BY <1>1 DEF IInv, WorldInv, Answered
      <3>5. \A q, s \in Procs : Created(q)' /\ Created(s)' /\ job'[q].root = job'[s].root => q = s
        BY <3>1, <3>3, <3>4 DEF CreateInv
      <3>6. \A a \in Answered("init") : a.created =>
               \A q \in Procs : Created(q)' => job'[q].root # a.root
        BY <3>1, <3>2, <3>3, <3>4 DEF CreateInv
      <3> QED
        BY <3>4, <3>5, <3>6 DEF CreateInv
    <2>19. PackersApart' /\ CopiesInv' /\ HistTypes'
      BY <1>1, <2>7, <2>13, <2>16, PackersKept, CopiesKept DEF IInv, Types, HistTypes
    <2> QED
      BY <1>1, <2>5, <2>6, <2>7, <2>8, <2>9, <2>13, <2>16, <2>17, <2>18, <2>19, Assembled
  <1> QED
    BY <1>5, <1>6
-----------------------------------------------------------------------------
(* Trees change                                                            *)

\* One item of one tree.
ItemBecomes(r, i, s) == tree' = [tree EXCEPT ![r].items[i] = s]

\* A tree of which one item has changed.
LEMMA ItemSet ==
    ASSUME IInv, NEW r \in Roots, NEW i \in Items, NEW s \in ItemStates, ItemBecomes(r, i, s)
    PROVE  \E u \in TreeType :
              /\ tree' = [tree EXCEPT ![r] = u]
              /\ u.dir = tree[r].dir /\ u.id = tree[r].id /\ u.layout = tree[r].layout
              /\ u.items[i] = s /\ \A k \in Items \ {i} : u.items[k] = tree[r].items[k]
  <1>1. PICK t : t = tree[r]
    OBVIOUS
  <1>2. tree \in [Roots -> TreeType] /\ t \in TreeType
    BY <1>1 DEF IInv, Types, DiskTypes
  <1>3. PICK f : f = [t.items EXCEPT ![i] = s]
    OBVIOUS
  <1>4. /\ f \in [Items -> ItemStates] /\ f[i] = s
        /\ \A k \in Items \ {i} : f[k] = t.items[k]
    BY <1>2, <1>3 DEF TreeType
  <1>5. PICK u : u = [t EXCEPT !.items = f]
    OBVIOUS
  <1>6. /\ u \in TreeType /\ u.dir = t.dir /\ u.id = t.id /\ u.layout = t.layout /\ u.items = f
    BY <1>2, <1>4, <1>5 DEF TreeType
  <1>7. tree' = [tree EXCEPT ![r] = u]
    BY <1>1, <1>2, <1>3, <1>5 DEF ItemBecomes
  <1> QED
    BY <1>1, <1>4, <1>6, <1>7

\* p lets a tree that it may write to grow into u.
Extends(p, r, u) ==
    /\ tree' = [tree EXCEPT ![r] = u]
    /\ u.dir /\ Grows(tree[r], u)
    /\ lock[r] = p \/ ~tree[r].dir \/ u = tree[r]
    /\ r \in Bundles /\ manifest[r].state = "whole" /\ Readable(tree[r]) => Readable(u)
    /\ UNCHANGED <<config, manifest, debris, minted>>

\* What such a step keeps of the disk.
LEMMA TreeMoves ==
    ASSUME IInv, NEW p \in Procs, NEW r \in Roots, NEW u \in TreeType, Extends(p, r, u)
    PROVE  /\ DiskMoves(p) /\ NothingLeft(p) /\ DiskTypes'
           /\ TreeInv' /\ DebrisInv' /\ ManifestInv' /\ tree'[r] = u
  <1>1. /\ tree \in [Roots -> TreeType] /\ tree'[r] = u
        /\ \A x \in Roots : x # r => tree'[x] = tree[x]
        /\ UNCHANGED <<config, manifest, debris, minted>>
    BY DEF Extends, IInv, Types, DiskTypes
  <1>2. DiskTypes'
    BY <1>1 DEF Extends, IInv, Types, DiskTypes
  <1>3. DiskMoves(p)
    <2>1. \A x \in Roots : /\ Grows(tree[x], tree'[x])
                           /\ lock[x] # p /\ tree[x].dir => tree'[x] = tree[x]
      BY <1>1, GrowsSame DEF Extends
    <2>2. minted <= minted'
      BY <1>1 DEF IInv, Types, DiskTypes
    <2> QED
      BY <1>1, <2>1, <2>2 DEF DiskMoves
  <1>4. TreeInv'
    BY <1>1 DEF Extends, IInv, WorldInv, TreeInv
  <1>5. DebrisInv' /\ NothingLeft(p)
    BY <1>1 DEF IInv, WorldInv, DebrisInv, NothingLeft
  <1>6. ManifestInv'
    <2>1. \A b \in Bundles : manifest[b].state = "whole" /\ Readable(tree[b]) => Readable(tree'[b])
      BY <1>1 DEF Extends, Roots
    <2> QED
      BY <1>1, <1>3, <2>1, ManifestsKept
  <1> QED
    BY <1>1, <1>2, <1>3, <1>4, <1>5, <1>6

\* A capture renames its item into the root.
LEMMA CaptureStep ==
    ASSUME IInv, NEW p \in Procs, Capture(p) PROVE IInv'
  <1> DEFINE r == job[p].root
             t == tree[r]
             i == job[p].item
  <1>1. pc[p] = "capture" /\ UNCHANGED <<config, manifest, debris, minted, bounds, copies>>
    BY DEF Capture
  <1>2. "capture" \in RootSteps /\ "project" \in RootSteps /\ "project" \in Steps
    BY DEF RootSteps, Steps
  <1>3. /\ job[p] \in CaptureJobs /\ lock[r] = p /\ r \in Roots /\ job[p].op = "capture" /\ i \in Items
    BY <1>1, <1>2, RootAt DEF CallInv, JobInv, CaptureJobs
  <1>4. CASE ~Readable(t)
    <2>1. Refuse(p) /\ UNCHANGED tree
      BY <1>4 DEF Capture
    <2> QED
      BY <1>1, <2>1, EndStep DEF Refuse, disk
  <1>5. CASE Readable(t) /\ i \in Present(t)
    <2>1. PICK a : a = [op |-> "capture", root |-> r, id |-> t.id, item |-> i]
      OBVIOUS
    <2>2. Answer(p, a) /\ UNCHANGED tree
      BY <1>5, <2>1 DEF Capture
    <2>3. t.id \in Nat \cup {Torn}
      BY <1>3 DEF IInv, Types, DiskTypes, TreeType
    <2>4. a \in CaptureAnswers /\ a.op = "capture" /\ a.root = r /\ a.id = t.id /\ a.item = i
      BY <1>3, <2>1, <2>3 DEF CaptureAnswers
    <2>5. HistTypes'
      BY <1>1, <2>2, <2>4 DEF Answer, IInv, Types, HistTypes
    <2>6. AnswerHolds(a)'
      BY <1>5, <2>2, <2>4 DEF AnswerHolds, CaptureHolds, Readable
    <2> QED
      BY <1>1, <2>2, <2>4, <2>5, <2>6, AnswerStep DEF Answer, disk
  <1>6. CASE Readable(t) /\ i \notin Present(t)
    <2>1. SetItem(p, i, "unprojected") /\ Step(p, "project")
      BY <1>6 DEF Capture
    <2>2. PICK u \in TreeType :
              /\ tree' = [tree EXCEPT ![r] = u]
              /\ u.dir = t.dir /\ u.id = t.id /\ u.layout = t.layout
              /\ u.items[i] = "unprojected" /\ \A k \in Items \ {i} : u.items[k] = t.items[k]
      <3>1. "unprojected" \in ItemStates
        BY DEF ItemStates, Captured
      <3>2. ItemBecomes(r, i, "unprojected")
        BY <2>1 DEF SetItem, ItemBecomes
      <3> QED
        BY <1>3, <3>1, <3>2, ItemSet
    <2>3. IsStore(u) /\ Readable(u) /\ u.dir
      BY <1>6, <2>2 DEF Readable, IsStore, Captured
    <2>4. Grows(t, u)
      BY <1>3, <1>6, <2>2 DEF Grows, Present, Captured
    <2>5. /\ DiskMoves(p) /\ NothingLeft(p) /\ DiskTypes'
          /\ TreeInv' /\ DebrisInv' /\ ManifestInv' /\ tree'[r] = u
      <3>1. r \in Roots /\ Extends(p, r, u)
        BY <1>1, <1>3, <2>2, <2>3, <2>4 DEF Extends
      <3> HIDE DEF r, t, i
      <3> QED
        BY <3>1, TreeMoves
    <2>6. OthersStay(p) /\ CallTypes' /\ pc'[p] = "project" /\ job'[p] = job[p]
      BY <1>2, <2>1, GoingOn DEF Step
    <2>7. (\A a : Late(a, p)') /\ ~Created(p)' /\ BirthInv(p)'
      BY <1>2, <1>3, <2>6, RootCall
    <2>8. CallInv(p)' /\ ~Packing(p)'
      BY <1>3, <2>1, <2>2, <2>3, <2>5, <2>6, <2>7
      DEF CallInv, JobInv, LockInv, CaptureInv, CopyInv, PackInv, Packing, CopySteps, SealSteps,
          InitSteps, OwnSteps, Step, locks
    <2>9. HistTypes'
      BY <1>1, <2>1 DEF Step, IInv, Types, HistTypes
    <2> QED
      BY <1>1, <2>1, <2>5, <2>6, <2>7, <2>8, <2>9, MoveStep DEF Step
  <1> QED
    BY <1>4, <1>5, <1>6

\* capture.yaml is written, and the capture answers.
LEMMA ProjectStep ==
    ASSUME IInv, NEW p \in Procs, Project(p) PROVE IInv'
  <1> DEFINE r == job[p].root
             t == tree[r]
             i == job[p].item
  <1>1. /\ pc[p] = "project" /\ SetItem(p, i, "captured")
        /\ UNCHANGED <<config, manifest, debris, minted, bounds, copies>>
    BY DEF Project
  <1>2. "project" \in RootSteps
    BY DEF RootSteps
  <1>3. /\ job[p] \in CaptureJobs /\ lock[r] = p /\ r \in Roots /\ i \in Items /\ CallInv(p)
    BY <1>1, <1>2, RootAt DEF CallInv, JobInv, CaptureJobs
  <1>4. IsStore(t) /\ t.items[i] = "unprojected"
    BY <1>1, <1>3 DEF CallInv, CaptureInv
  <1>5. PICK a : /\ a = [op |-> "capture", root |-> r, id |-> t.id, item |-> i]
                 /\ Answer(p, a)
    BY DEF Project
  <1>6. t.id \in Nat \cup {Torn}
    BY <1>3 DEF IInv, Types, DiskTypes, TreeType
  <1>7. a \in CaptureAnswers /\ a.op = "capture" /\ a.root = r /\ a.id = t.id /\ a.item = i
    BY <1>3, <1>5, <1>6 DEF CaptureAnswers
  <1>8. PICK u \in TreeType :
            /\ tree' = [tree EXCEPT ![r] = u]
            /\ u.dir = t.dir /\ u.id = t.id /\ u.layout = t.layout
            /\ u.items[i] = "captured" /\ \A k \in Items \ {i} : u.items[k] = t.items[k]
    <2>1. "captured" \in ItemStates
      BY DEF ItemStates, Captured
    <2>2. ItemBecomes(r, i, "captured")
      BY <1>1 DEF SetItem, ItemBecomes
    <2> QED
      BY <1>3, <2>1, <2>2, ItemSet
  <1>9. /\ IsStore(u) /\ u.dir /\ i \in Present(u)
        /\ Readable(t) => Readable(u)
    BY <1>3, <1>4, <1>8 DEF Readable, IsStore, Captured, Present
  <1>10. Grows(t, u)
    BY <1>3, <1>4, <1>8 DEF Grows, Captured
  <1>11. /\ DiskMoves(p) /\ NothingLeft(p) /\ DiskTypes'
         /\ TreeInv' /\ DebrisInv' /\ ManifestInv' /\ tree'[r] = u
    <2>1. r \in Roots /\ Extends(p, r, u)
      BY <1>1, <1>3, <1>8, <1>9, <1>10 DEF Extends
    <2> HIDE DEF r, t, i
    <2> QED
      BY <2>1, TreeMoves
  <1>12. /\ OthersStay(p) /\ CallInv(p)' /\ CallTypes' /\ \A b : Late(b, p)'
         /\ ~Created(p)' /\ ~Packing(p)'
    BY <1>5, Ended DEF Answer
  <1>13. HistTypes'
    BY <1>1, <1>5, <1>7 DEF Answer, IInv, Types, HistTypes
  <1>14. AnswerHolds(a)'
    BY <1>7, <1>8, <1>9, <1>11 DEF AnswerHolds, CaptureHolds
  <1> QED
    BY <1>1, <1>5, <1>7, <1>11, <1>12, <1>13, <1>14, MoveStep DEF Answer

\* A rebuild completes the items that lack capture.yaml.
LEMMA RebuildStep ==
    ASSUME IInv, NEW p \in Procs, Rebuild(p) PROVE IInv'
  <1>0. PICK r : r = job[p].root
    OBVIOUS
  <1> DEFINE t == tree[r]
             todo == {i \in Items : t.items[i] = "unprojected"}
  <1>1. pc[p] = "rebuild" /\ UNCHANGED <<config, manifest, debris, minted, bounds, copies>>
    BY DEF Rebuild
  <1>2. "rebuild" \in RootSteps /\ "rebuild" \in Steps
    BY DEF RootSteps, Steps
  <1>3. /\ lock[r] = p /\ r \in Roots /\ job[p].op # "init" /\ CallInv(p)
    BY <1>0, <1>1, <1>2, RootAt
  <1>4. CASE ~(Readable(t) /\ todo # {})
    <2>1. Refuse(p) /\ UNCHANGED tree
      BY <1>0, <1>4 DEF Rebuild
    <2> QED
      BY <1>1, <2>1, EndStep DEF Refuse, disk
  <1>5. CASE Readable(t) /\ todo # {}
    <2>1. PICK i \in todo : SetItem(p, i, "captured")
      BY <1>0, <1>5 DEF Rebuild
    <2>2. Step(p, "rebuild")
      BY <1>0, <1>5 DEF Rebuild
    <2>3. PICK u \in TreeType :
              /\ tree' = [tree EXCEPT ![r] = u]
              /\ u.dir = t.dir /\ u.id = t.id /\ u.layout = t.layout
              /\ u.items[i] = "captured" /\ \A k \in Items \ {i} : u.items[k] = t.items[k]
      <3>1. "captured" \in ItemStates
        BY DEF ItemStates, Captured
      <3>2. ItemBecomes(r, i, "captured")
        BY <1>0, <2>1 DEF SetItem, ItemBecomes
      <3> QED
        BY <1>3, <3>1, <3>2, ItemSet
    <2>4. Readable(u) /\ u.dir
      BY <1>5, <2>3 DEF Readable, IsStore, Captured
    <2>5. Grows(t, u)
      BY <2>3 DEF Grows, Captured
    <2>6. /\ DiskMoves(p) /\ NothingLeft(p) /\ DiskTypes'
          /\ TreeInv' /\ DebrisInv' /\ ManifestInv' /\ tree'[r] = u
      <3>1. r \in Roots /\ Extends(p, r, u)
        BY <1>1, <1>3, <2>3, <2>4, <2>5 DEF Extends
      <3> QED
        BY <3>1, TreeMoves
    <2>7. OthersStay(p) /\ CallTypes' /\ pc'[p] = "rebuild" /\ job'[p] = job[p]
      BY <1>2, <2>2, GoingOn DEF Step
    <2>8. (\A a : Late(a, p)') /\ ~Created(p)' /\ BirthInv(p)'
      BY <1>2, <1>3, <2>7, RootCall
    <2>9. CallInv(p)' /\ ~Packing(p)'
      BY <1>0, <1>1, <1>3, <2>2, <2>7, <2>8
      DEF CallInv, JobInv, LockInv, CaptureInv, CopyInv, PackInv, Packing, CopySteps, SealSteps,
          InitSteps, OwnSteps, Step, locks
    <2>10. HistTypes'
      BY <1>1, <2>2 DEF Step, IInv, Types, HistTypes
    <2> QED
      BY <1>1, <2>2, <2>6, <2>7, <2>8, <2>9, <2>10, MoveStep DEF Step
  <1> QED
    BY <1>4, <1>5
-----------------------------------------------------------------------------
(* Copies, of backups and restores                                         *)

CopyWork == {"root", "target", "copy", "files", "close"}

\* What a copy is brought to: a root beside whose tree no whole backup.json lies.
LEMMA CopyAt ==
    ASSUME IInv, NEW p \in Procs, pc[p] \in CopyWork
    PROVE  /\ pc[p] \in RootSteps /\ CallInv(p) /\ job[p].op # "init"
           /\ job[p] \in BackupJobs \cup RestoreJobs
           /\ job[p].to \in Roots /\ job[p].id \in Ids /\ job[p].items \in SUBSET Items
           /\ ~(job[p].to \in Bundles /\ manifest[job[p].to].state = "whole")
           /\ pc[p] \in CopySteps => lock[job[p].to] = p
  <1>1. pc[p] \in RootSteps
    BY DEF CopyWork, RootSteps, CopySteps
  <1>2. CallInv(p) /\ job[p].op # "init" /\ (pc[p] \in CopySteps => lock[job[p].to] = p)
    BY <1>1, RootAt
  <1>3. job[p] \in BackupJobs \cup RestoreJobs
    BY <1>2 DEF CallInv, JobInv, CopyWork
  <1>4. CASE job[p] \in BackupJobs
    <2>1. /\ job[p].op = "backup" /\ job[p].to \in Bundles /\ job[p].id \in Ids
          /\ job[p].items \in SUBSET Items
      BY <1>4 DEF BackupJobs
    <2>2. Packing(p) /\ pc[p] \notin {"write", "report"}
      BY <2>1 DEF Packing, CopyWork, CopySteps
    <2>3. manifest[job[p].to] = NoBackup
      BY <1>2, <2>2 DEF CallInv, PackInv
    <2> QED
      BY <1>1, <1>2, <1>4, <2>1, <2>3 DEF NoBackup, Roots
  <1>5. CASE job[p] \in RestoreJobs
    <2>1. job[p].to \in Stores /\ job[p].id \in Ids /\ job[p].items \in SUBSET Items
      BY <1>5 DEF RestoreJobs
    <2> QED
      BY <1>1, <1>2, <1>5, <2>1, LifecycleAssumption DEF Roots
  <1> QED
    BY <1>3, <1>4, <1>5

\* A copy that goes on works for the same call, on the same lock.
LEMMA CopyGoes ==
    ASSUME IInv, NEW p \in Procs, pc[p] \in CopyWork, NEW s \in CopyWork,
           s \in CopySteps => pc[p] \in CopySteps, Step(p, s), UNCHANGED manifest
    PROVE  /\ OthersStay(p) /\ CallTypes' /\ pc'[p] = s /\ job'[p] = job[p] /\ answers' = answers
           /\ (\A a : Late(a, p)') /\ ~Created(p)' /\ BirthInv(p)'
           /\ Packing(p)' => Packing(p) /\ job'[p].to = job[p].to
           /\ CopyInv(p)' => CallInv(p)'
           /\ job[p].op = "restore" => manifest[job[p].root] = Manifest(job[p].id, job[p].items)
  <1>1. s \in Steps /\ s \in RootSteps
    BY DEF CopyWork, Steps, RootSteps, CopySteps
  <1>2. /\ pc[p] \in RootSteps /\ CallInv(p) /\ job[p].op # "init"
        /\ job[p] \in BackupJobs \cup RestoreJobs
    BY CopyAt
  <1>3. OthersStay(p) /\ CallTypes' /\ pc'[p] = s /\ job'[p] = job[p]
    BY <1>1, GoingOn DEF Step
  <1>4. (\A a : Late(a, p)') /\ ~Created(p)' /\ BirthInv(p)'
    BY <1>1, <1>2, <1>3, RootCall
  <1>5. Packing(p)' => Packing(p) /\ job'[p].to = job[p].to
    BY <1>3 DEF Packing, CopyWork, CopySteps
  <1>6. JobInv(p)'
    BY <1>2, <1>3 DEF JobInv, CopyWork, InitSteps, OwnSteps, SealSteps
  <1>7. LockInv(p)'
    <2>1. s \notin InitSteps
      BY DEF CopyWork, InitSteps, OwnSteps
    <2> QED
      BY <1>1, <1>2, <1>3, <2>1 DEF CallInv, LockInv, Step, locks
  <1>8. CaptureInv(p)'
    BY <1>3 DEF CaptureInv, CopyWork
  <1>9. PackInv(p)'
    <2>1. pc[p] \notin {"write", "report"} /\ s \notin {"write", "report"}
      BY DEF CopyWork
    <2> QED
      BY <1>2, <1>3, <1>5, <2>1 DEF CallInv, PackInv
  <1>10. job[p].op = "restore" => manifest[job[p].root] = Manifest(job[p].id, job[p].items)
    BY <1>2 DEF CallInv, CopyInv, CopyWork
  <1> QED
    BY <1>3, <1>4, <1>5, <1>6, <1>7, <1>8, <1>9, <1>10 DEF CallInv, Step

\* The directory of a target is made.
LEMMA EnsureRootStep ==
    ASSUME IInv, NEW p \in Procs, EnsureRoot(p) PROVE IInv'
  <1>1. /\ pc[p] = "root" /\ tree' = [tree EXCEPT ![job[p].to].dir = TRUE] /\ Step(p, "target")
        /\ UNCHANGED <<config, manifest, debris, minted, bounds, copies>>
    BY DEF EnsureRoot
  <1>2. pc[p] \in CopyWork /\ "target" \in CopyWork /\ "target" \notin CopySteps
    BY <1>1 DEF CopyWork, CopySteps, SealSteps
  <1>3. /\ CallInv(p) /\ job[p].to \in Roots
        /\ ~(job[p].to \in Bundles /\ manifest[job[p].to].state = "whole")
    BY <1>2, CopyAt
  <1>4. /\ OthersStay(p) /\ CallTypes' /\ pc'[p] = "target" /\ job'[p] = job[p] /\ answers' = answers
        /\ (\A a : Late(a, p)') /\ ~Created(p)' /\ BirthInv(p)'
        /\ Packing(p)' => Packing(p) /\ job'[p].to = job[p].to
        /\ CopyInv(p)' => CallInv(p)'
        /\ job[p].op = "restore" => manifest[job[p].root] = Manifest(job[p].id, job[p].items)
    BY <1>1, <1>2, CopyGoes
  <1>5. PICK r : r = job[p].to
    OBVIOUS
  <1>6. PICK t : t = tree[r]
    OBVIOUS
  <1>7. PICK u : u = [t EXCEPT !.dir = TRUE]
    OBVIOUS
  <1>8. r \in Roots /\ tree \in [Roots -> TreeType] /\ t \in TreeType
    BY <1>3, <1>5, <1>6 DEF IInv, Types, DiskTypes
  <1>9. /\ u \in TreeType /\ u.dir /\ u.id = t.id /\ u.layout = t.layout /\ u.items = t.items
        /\ t.dir => u = t
    BY <1>7, <1>8 DEF TreeType
  <1>10. tree' = [tree EXCEPT ![r] = u]
    BY <1>1, <1>5, <1>6, <1>7, <1>8
  <1>11. Grows(t, u)
    BY <1>9 DEF Grows
  <1>12. /\ DiskMoves(p) /\ NothingLeft(p) /\ DiskTypes'
         /\ TreeInv' /\ DebrisInv' /\ ManifestInv' /\ tree'[r] = u
    <2>1. Extends(p, r, u)
      BY <1>1, <1>3, <1>5, <1>6, <1>8, <1>9, <1>10, <1>11 DEF Extends
    <2> QED
      BY <1>8, <1>9, <2>1, TreeMoves
  <1>13. CopyInv(p)'
    BY <1>1, <1>2, <1>4, <1>5, <1>9, <1>12 DEF CopyInv
  <1>14. HistTypes'
    BY <1>1, <1>4 DEF IInv, Types, HistTypes
  <1> QED
    BY <1>1, <1>4, <1>12, <1>13, <1>14, MoveStep
\* Directories only: what was there is of the same store and still to be
\* copied or has been, so nothing that can be read is lost.
LEMMA MakeDirectoriesStep ==
    ASSUME IInv, NEW p \in Procs, MakeDirectories(p) PROVE IInv'
  <1>1. pc[p] = "copy" /\ UNCHANGED <<config, manifest, debris, minted, bounds>>
    BY DEF MakeDirectories
  <1>2. CASE ~Compatible(p)
    <2>1. Refuse(p) /\ UNCHANGED <<tree, copies>>
      BY <1>2 DEF MakeDirectories
    <2> QED
      BY <1>1, <2>1, EndStep DEF Refuse, disk
  <1>3. CASE Compatible(p)
    <2>1. PICK r : r = job[p].to
      OBVIOUS
    <2>2. PICK t : t = tree[r]
      OBVIOUS
    <2>3. PICK its : its = job[p].items
      OBVIOUS
    <2>4. /\ tree' = [tree EXCEPT ![r].layout = TRUE,
                                  ![r].items = [i \in Items |-> IF i \in its /\ @[i] = "none"
                                                                THEN "bare" ELSE @[i]]]
          /\ copies' = [copies EXCEPT ![r] = @ \cup {[by |-> p, items |-> its]}]
          /\ Step(p, "files")
      BY <1>3, <2>1, <2>3 DEF MakeDirectories
    <2>5. pc[p] \in CopyWork /\ pc[p] \in CopySteps /\ "files" \in CopyWork
      BY <1>1 DEF CopyWork, CopySteps, SealSteps
    <2>6. /\ CallInv(p) /\ r \in Roots /\ lock[r] = p /\ its \in SUBSET Items
          /\ ~(r \in Bundles /\ manifest[r].state = "whole")
      BY <2>1, <2>3, <2>5, CopyAt
    <2>7. /\ OthersStay(p) /\ CallTypes' /\ pc'[p] = "files" /\ job'[p] = job[p]
          /\ answers' = answers
          /\ (\A a : Late(a, p)') /\ ~Created(p)' /\ BirthInv(p)'
          /\ Packing(p)' => Packing(p) /\ job'[p].to = job[p].to
          /\ CopyInv(p)' => CallInv(p)'
          /\ job[p].op = "restore" => manifest[job[p].root] = Manifest(job[p].id, job[p].items)
      BY <1>1, <2>4, <2>5, CopyGoes
    <2>8. tree \in [Roots -> TreeType] /\ t \in TreeType /\ t.dir
      BY <2>1, <2>2, <2>5, <2>6 DEF IInv, Types, DiskTypes, CallInv, CopyInv
    <2>9. PICK f : f = [i \in Items |-> IF i \in its /\ t.items[i] = "none"
                                        THEN "bare" ELSE t.items[i]]
      OBVIOUS
    <2>10. \A i \in Items : f[i] = IF i \in its /\ t.items[i] = "none" THEN "bare" ELSE t.items[i]
      BY <2>9
    <2>11. f \in [Items -> ItemStates]
      BY <2>8, <2>9 DEF TreeType, ItemStates, Copied
    <2>12. PICK u : u = [t EXCEPT !.layout = TRUE, !.items = f]
      OBVIOUS
    <2>13. u \in TreeType /\ u.dir /\ u.id = t.id /\ u.layout /\ u.items = f
      BY <2>8, <2>11, <2>12 DEF TreeType
    <2>14. tree' = [tree EXCEPT ![r] = u]
      BY <2>2, <2>4, <2>6, <2>8, <2>9, <2>12
    <2>15. Grows(t, u)
      BY <2>10, <2>13 DEF Grows, Captured
    <2>16. /\ DiskMoves(p) /\ NothingLeft(p) /\ DiskTypes'
           /\ TreeInv' /\ DebrisInv' /\ ManifestInv' /\ tree'[r] = u
      <3>1. Extends(p, r, u)
        BY <1>1, <2>2, <2>6, <2>13, <2>14, <2>15 DEF Extends
      <3> QED
        BY <2>6, <2>13, <3>1, TreeMoves
    <2>17. /\ t.id \in {NoFile, job[p].id}
           /\ \A i \in Items : t.items[i] = "none" \/ (t.items[i] \in Copied /\ i \in its)
      BY <1>3, <2>1, <2>2, <2>3 DEF Compatible, Target
    <2>18. CopyInv(p)'
      <3>1. \A i \in Items : u.items[i] = "none" \/ (u.items[i] \in Copied /\ i \in its)
        BY <2>10, <2>13, <2>17 DEF Copied
      <3> QED
        BY <1>1, <2>1, <2>3, <2>7, <2>13, <2>16, <2>17, <3>1 DEF CopyInv
    <2>19. HistTypes'
      <3>1. copies' \in [Roots -> SUBSET [by : Procs, items : SUBSET Items]]
        BY <2>4, <2>6 DEF IInv, Types, HistTypes
      <3> QED
        BY <2>7, <3>1 DEF IInv, Types, HistTypes
    <2>20. CopiesInv'
      <3> SUFFICES ASSUME NEW x \in Roots, NEW copy \in copies'[x], NEW i \in copy.items
                   PROVE  tree'[x].items[i] # "none"
        BY DEF CopiesInv
      <3>1. CASE x = r /\ copy = [by |-> p, items |-> its]
        BY <2>6, <2>10, <2>13, <2>16, <3>1
      <3>2. CASE copy \in copies[x]
        <4>1. tree[x].items[i] # "none" /\ i \in Items
          BY <3>2 DEF IInv, WorldInv, CopiesInv, Types, HistTypes
        <4> QED
          BY <2>16, <4>1 DEF DiskMoves, Grows
      <3>3. copies'[x] = copies[x] \/ (x = r /\ copies'[x] = copies[x] \cup {[by |-> p, items |-> its]})
        BY <2>4, <2>6 DEF IInv, Types, HistTypes
      <3> QED
        BY <3>1, <3>2, <3>3
    <2>21. CreateInv' /\ PackersApart'
      BY <2>7, CreateKept, PackersKept
    <2> QED
      BY <2>7, <2>16, <2>18, <2>19, <2>20, <2>21, Assembled
  <1> QED
    BY <1>2, <1>3

\* p goes on to step s of its copy, whose target has grown into u.
CopiesInto(p, s, u) ==
    /\ Step(p, s) /\ tree' = [tree EXCEPT ![job[p].to] = u]
    /\ u.dir /\ u.layout /\ Grows(tree[job[p].to], u)
    /\ \A i \in Items : u.items[i] = "none" \/ (u.items[i] \in Copied /\ i \in job[p].items)
    /\ s = "files" => u.id \in {NoFile, job[p].id}
    /\ s = "close" => u.id \in {Torn, job[p].id}
    /\ UNCHANGED <<config, manifest, debris, minted, bounds, copies>>

\* A copy under way writes to its target only.
LEMMA CopyWrites ==
    ASSUME IInv, NEW p \in Procs, pc[p] \in {"files", "close"}, NEW s \in {"files", "close"},
           NEW u \in TreeType, CopiesInto(p, s, u)
    PROVE  IInv'
  <1>1. pc[p] \in CopyWork /\ pc[p] \in CopySteps /\ s \in CopyWork
    BY DEF CopyWork, CopySteps
  <1>2. /\ job[p].to \in Roots /\ lock[job[p].to] = p
        /\ ~(job[p].to \in Bundles /\ manifest[job[p].to].state = "whole")
    BY <1>1, CopyAt
  <1>3. /\ OthersStay(p) /\ CallTypes' /\ pc'[p] = s /\ job'[p] = job[p] /\ answers' = answers
        /\ (\A a : Late(a, p)') /\ ~Created(p)' /\ BirthInv(p)'
        /\ Packing(p)' => Packing(p) /\ job'[p].to = job[p].to
        /\ CopyInv(p)' => CallInv(p)'
        /\ job[p].op = "restore" => manifest[job[p].root] = Manifest(job[p].id, job[p].items)
    BY <1>1, CopyGoes DEF CopiesInto
  <1>4. /\ DiskMoves(p) /\ NothingLeft(p) /\ DiskTypes'
        /\ TreeInv' /\ DebrisInv' /\ ManifestInv' /\ tree'[job[p].to] = u
    <2>1. PICK r : r = job[p].to
      OBVIOUS
    <2>2. r \in Roots /\ Extends(p, r, u)
      BY <1>2, <2>1 DEF CopiesInto, Extends
    <2>3. /\ DiskMoves(p) /\ NothingLeft(p) /\ DiskTypes'
          /\ TreeInv' /\ DebrisInv' /\ ManifestInv' /\ tree'[r] = u
      BY <2>2, TreeMoves
    <2> QED
      BY <2>1, <2>3
  <1>5. CopyInv(p)'
    BY <1>3, <1>4 DEF CopiesInto, CopyInv
  <1>6. HistTypes'
    BY <1>3 DEF CopiesInto, IInv, Types, HistTypes
  <1> QED
    BY <1>3, <1>4, <1>5, <1>6, MoveStep DEF CopiesInto

\* A file of the copy is opened, and is torn until it is closed.
LEMMA OpenFileStep ==
    ASSUME IInv, NEW p \in Procs, OpenFile(p) PROVE IInv'
  <1>1. /\ pc[p] = "files" /\ Step(p, "close")
        /\ UNCHANGED <<config, manifest, debris, minted, bounds, copies>>
    BY DEF OpenFile
  <1>2. PICK r : r = job[p].to
    OBVIOUS
  <1>3. PICK t : t = tree[r]
    OBVIOUS
  <1>4. pc[p] \in CopyWork
    BY <1>1 DEF CopyWork
  <1>5. CallInv(p) /\ r \in Roots
    BY <1>2, <1>4, CopyAt
  <1>6. tree \in [Roots -> TreeType] /\ t \in TreeType
    BY <1>3, <1>5 DEF IInv, Types, DiskTypes
  <1>7. /\ t.dir /\ t.layout /\ t.id \in {NoFile, job[p].id}
        /\ \A i \in Items : t.items[i] = "none" \/ (t.items[i] \in Copied /\ i \in job[p].items)
    BY <1>1, <1>2, <1>3, <1>5 DEF CallInv, CopyInv, CopySteps
  <1>8. CASE t.id = NoFile
    <2>1. tree' = [tree EXCEPT ![r].id = Torn]
      BY <1>2, <1>3, <1>8 DEF OpenFile, Target
    <2>2. PICK u : u = [t EXCEPT !.id = Torn]
      OBVIOUS
    <2>3. u \in TreeType /\ u.dir = t.dir /\ u.id = Torn /\ u.layout = t.layout /\ u.items = t.items
      BY <1>6, <2>2 DEF TreeType
    <2>4. tree' = [tree EXCEPT ![r] = u]
      BY <1>3, <1>5, <1>6, <2>1, <2>2
    <2>5. Grows(t, u)
      BY <1>8, <2>3 DEF Grows
    <2> QED
      <3>1. CopiesInto(p, "close", u)
        BY <1>1, <1>2, <1>3, <1>7, <2>3, <2>4, <2>5 DEF CopiesInto
      <3> QED
        BY <1>1, <2>3, <3>1, CopyWrites
  <1>9. CASE t.id # NoFile
    <2>1. PICK i \in Unfinished(p) : tree' = [tree EXCEPT ![r].items[i] = "torn"]
      BY <1>2, <1>3, <1>9 DEF OpenFile, Target
    <2>2. i \in Items /\ i \in job[p].items /\ t.items[i] # "whole"
      BY <1>2, <1>3, <1>4, <2>1, CopyAt DEF Unfinished, Target
    <2>3. ItemBecomes(r, i, "torn") /\ "torn" \in ItemStates /\ "torn" \in Copied
      BY <2>1 DEF ItemBecomes, ItemStates, Copied
    <2>4. PICK u \in TreeType :
              /\ tree' = [tree EXCEPT ![r] = u]
              /\ u.dir = t.dir /\ u.id = t.id /\ u.layout = t.layout
              /\ u.items[i] = "torn" /\ \A k \in Items \ {i} : u.items[k] = t.items[k]
      BY <1>3, <1>5, <2>2, <2>3, ItemSet
    <2>5. Grows(t, u)
      BY <1>7, <2>2, <2>4 DEF Grows, Captured, Copied
    <2>6. \A k \in Items : u.items[k] = "none" \/ (u.items[k] \in Copied /\ k \in job[p].items)
      BY <1>7, <2>2, <2>3, <2>4
    <2> QED
      <3>1. CopiesInto(p, "close", u)
        BY <1>1, <1>2, <1>3, <1>7, <1>9, <2>4, <2>5, <2>6 DEF CopiesInto
      <3> QED
        BY <1>1, <2>4, <3>1, CopyWrites
  <1> QED
    BY <1>8, <1>9

\* A file of the copy is closed.
LEMMA CloseFileStep ==
    ASSUME IInv, NEW p \in Procs, CloseFile(p) PROVE IInv'
  <1>1. /\ pc[p] = "close" /\ Step(p, "files")
        /\ UNCHANGED <<config, manifest, debris, minted, bounds, copies>>
    BY DEF CloseFile
  <1>2. PICK r : r = job[p].to
    OBVIOUS
  <1>3. PICK t : t = tree[r]
    OBVIOUS
  <1>4. pc[p] \in CopyWork
    BY <1>1 DEF CopyWork
  <1>5. CallInv(p) /\ r \in Roots /\ job[p].id \in Ids
    BY <1>2, <1>4, CopyAt
  <1>6. tree \in [Roots -> TreeType] /\ t \in TreeType
    BY <1>3, <1>5 DEF IInv, Types, DiskTypes
  <1>7. /\ t.dir /\ t.layout /\ t.id \in {Torn, job[p].id}
        /\ \A i \in Items : t.items[i] = "none" \/ (t.items[i] \in Copied /\ i \in job[p].items)
    BY <1>1, <1>2, <1>3, <1>5 DEF CallInv, CopyInv, CopySteps
  <1>8. CASE t.id = Torn
    <2>1. tree' = [tree EXCEPT ![r].id = job[p].id]
      BY <1>2, <1>3, <1>8 DEF CloseFile, Target
    <2>2. PICK u : u = [t EXCEPT !.id = job[p].id]
      OBVIOUS
    <2>3. /\ u \in TreeType /\ u.dir = t.dir /\ u.id = job[p].id /\ u.layout = t.layout
          /\ u.items = t.items
      BY <1>5, <1>6, <2>2 DEF TreeType, Ids
    <2>4. tree' = [tree EXCEPT ![r] = u]
      BY <1>3, <1>5, <1>6, <2>1, <2>2
    <2>5. Grows(t, u)
      BY <1>8, <2>3 DEF Grows
    <2> QED
      <3>1. CopiesInto(p, "files", u)
        BY <1>1, <1>2, <1>3, <1>7, <2>3, <2>4, <2>5 DEF CopiesInto
      <3> QED
        BY <1>1, <2>3, <3>1, CopyWrites
  <1>9. CASE t.id # Torn
    <2>1. PICK i \in Items, state \in {"part", "whole"} :
              /\ t.items[i] = "torn"
              /\ tree' = [tree EXCEPT ![r].items[i] = state]
      BY <1>2, <1>3, <1>9 DEF CloseFile, Target
    <2>2. ItemBecomes(r, i, state) /\ state \in ItemStates /\ state \in Copied /\ state # "none"
      BY <2>1 DEF ItemBecomes, ItemStates, Copied
    <2>3. PICK u \in TreeType :
              /\ tree' = [tree EXCEPT ![r] = u]
              /\ u.dir = t.dir /\ u.id = t.id /\ u.layout = t.layout
              /\ u.items[i] = state /\ \A k \in Items \ {i} : u.items[k] = t.items[k]
      BY <1>3, <1>5, <2>2, ItemSet
    <2>4. Grows(t, u)
      BY <2>1, <2>2, <2>3 DEF Grows, Captured
    <2>5. \A k \in Items : u.items[k] = "none" \/ (u.items[k] \in Copied /\ k \in job[p].items)
      BY <1>7, <2>1, <2>2, <2>3
    <2> QED
      <3>1. CopiesInto(p, "files", u)
        BY <1>1, <1>2, <1>3, <1>7, <1>9, <2>3, <2>4, <2>5 DEF CopiesInto
      <3> QED
        BY <1>1, <2>3, <3>1, CopyWrites
  <1> QED
    BY <1>8, <1>9
-----------------------------------------------------------------------------
(* backup.json                                                             *)

\* What a whole manifest says of the tree beside it.
Matches(m, t) ==
    m.state = "whole" => Readable(t) /\ t.id = m.id /\ m.items \subseteq Present(t)

\* p writes m beside a bundle that nobody else packs.
Seals(p, b, m) ==
    /\ manifest' = [manifest EXCEPT ![b] = m]
    /\ manifest[b].state # "whole" /\ Matches(m, tree[b])
    /\ \A q \in Procs \ {p} : Packing(q) => job[q].to # b
    /\ UNCHANGED <<config, tree, debris, minted>>

\* What such a step keeps of the disk.
LEMMA ManifestMoves ==
    ASSUME IInv, NEW p \in Procs, NEW b \in Bundles, NEW m \in ManifestType, Seals(p, b, m)
    PROVE  /\ DiskMoves(p) /\ NothingLeft(p) /\ DiskTypes'
           /\ TreeInv' /\ DebrisInv' /\ ManifestInv' /\ manifest'[b] = m
  <1>1. /\ manifest \in [Bundles -> ManifestType] /\ manifest'[b] = m
        /\ \A c \in Bundles : c # b => manifest'[c] = manifest[c]
        /\ UNCHANGED <<config, tree, debris, minted>>
    BY DEF Seals, IInv, Types, DiskTypes
  <1>2. DiskTypes'
    BY <1>1 DEF Seals, IInv, Types, DiskTypes
  <1>3. DiskMoves(p)
    <2>1. \A c \in Bundles : manifest[c].state = "whole" => manifest'[c] = manifest[c]
      BY <1>1 DEF Seals
    <2>2. \A q \in Procs \ {p} : Packing(q) => manifest'[job[q].to] = manifest[job[q].to]
      BY <1>1, WorksOn DEF Seals
    <2>3. minted <= minted'
      BY <1>1 DEF IInv, Types, DiskTypes
    <2> QED
      BY <1>1, <2>1, <2>2, <2>3, GrowsSame DEF DiskMoves
  <1>4. TreeInv' /\ DebrisInv' /\ NothingLeft(p)
    BY <1>1 DEF IInv, WorldInv, TreeInv, DebrisInv, NothingLeft
  <1>5. ManifestInv'
    BY <1>1 DEF Seals, IInv, WorldInv, ManifestInv, Matches
  <1> QED
    BY <1>1, <1>2, <1>3, <1>4, <1>5

\* What a backup at work on its bundle holds.
LEMMA PackAt ==
    ASSUME IInv, NEW p \in Procs, pc[p] \in {"mkdir"} \cup SealSteps
    PROVE  /\ job[p] \in BackupJobs /\ job[p].op = "backup" /\ job[p].to \in Bundles
           /\ job[p].id \in Ids /\ job[p].items \in SUBSET Items
           /\ pc[p] \in RootSteps /\ CallInv(p) /\ lock[job[p].root] = p
           /\ pc[p] # "mkdir" => Packing(p) /\ pc[p] \in CopySteps /\ lock[job[p].to] = p
  <1>1. pc[p] \in RootSteps /\ pc[p] # "lock" /\ (pc[p] # "mkdir" => pc[p] \in CopySteps)
    BY DEF RootSteps, CopySteps, SealSteps
  <1>2. CallInv(p) /\ lock[job[p].root] = p /\ (pc[p] \in CopySteps => lock[job[p].to] = p)
    BY <1>1, RootAt
  <1>3. job[p] \in BackupJobs
    BY <1>2 DEF CallInv, JobInv
  <1>4. /\ job[p].op = "backup" /\ job[p].to \in Bundles
        /\ job[p].id \in Ids /\ job[p].items \in SUBSET Items
    BY <1>3 DEF BackupJobs
  <1> QED
    BY <1>1, <1>2, <1>3, <1>4 DEF Packing

\* Its next step.
LEMMA PackGoes ==
    ASSUME IInv, NEW p \in Procs, pc[p] \in {"mkdir"} \cup SealSteps,
           NEW s \in {"root"} \cup SealSteps, s # "root" => pc[p] # "mkdir", Step(p, s)
    PROVE  /\ OthersStay(p) /\ CallTypes' /\ pc'[p] = s /\ job'[p] = job[p] /\ answers' = answers
           /\ (\A a : Late(a, p)') /\ ~Created(p)' /\ BirthInv(p)'
           /\ JobInv(p)' /\ LockInv(p)' /\ CaptureInv(p)' /\ Packing(p)'
  <1>1. s \in Steps /\ s \in RootSteps /\ s # "lock"
    BY DEF Steps, RootSteps, CopySteps, SealSteps
  <1>2. /\ job[p] \in BackupJobs /\ job[p].op = "backup"
        /\ pc[p] \in RootSteps /\ CallInv(p) /\ lock[job[p].root] = p
        /\ pc[p] # "mkdir" => lock[job[p].to] = p
    BY PackAt
  <1>3. OthersStay(p) /\ CallTypes' /\ pc'[p] = s /\ job'[p] = job[p]
    BY <1>1, GoingOn DEF Step
  <1>4. (\A a : Late(a, p)') /\ ~Created(p)' /\ BirthInv(p)'
    BY <1>1, <1>2, <1>3, RootCall
  <1>5. s \notin InitSteps \cup {"init-lock", "lock", "capture", "project", "rebuild", "verify",
                                 "restore", "idle"}
    BY DEF InitSteps, OwnSteps, SealSteps
  <1>6. JobInv(p)'
    BY <1>2, <1>3, <1>5 DEF JobInv
  <1>7. LockInv(p)'
    <2>1. s \in CopySteps => s # "root"
      BY DEF CopySteps, SealSteps
    <2> QED
      BY <1>2, <1>3, <1>5, <2>1 DEF LockInv, Step, locks
  <1>8. CaptureInv(p)'
    BY <1>3, <1>5 DEF CaptureInv
  <1>9. Packing(p)'
    BY <1>2, <1>3 DEF Packing, CopySteps
  <1> QED
    BY <1>3, <1>4, <1>6, <1>7, <1>8, <1>9 DEF Step

\* One backup makes the directory of its bundle.
LEMMA MakeBundleStep ==
    ASSUME IInv, NEW p \in Procs, MakeBundle(p) PROVE IInv'
  <1>1. pc[p] = "mkdir" /\ UNCHANGED <<config, tree, debris, minted, bounds, copies>>
    BY DEF MakeBundle
  <1>2. CASE ~Absent(job[p].to)
    <2>1. Refuse(p) /\ UNCHANGED manifest
      BY <1>2 DEF MakeBundle
    <2> QED
      BY <1>1, <2>1, EndStep DEF Refuse, disk
  <1>3. CASE Absent(job[p].to)
    <2>1. manifest' = [manifest EXCEPT ![job[p].to] = NoBackup] /\ Step(p, "root")
      BY <1>3 DEF MakeBundle
    <2>2. PICK b : b = job[p].to
      OBVIOUS
    <2>3. b \in Bundles /\ manifest[b].state = "absent" /\ job[p].op = "backup"
      BY <1>1, <1>3, <2>2, PackAt DEF Absent
    <2>4. ASSUME NEW q \in Procs, Packing(q) PROVE job[q].to # b
      <3>1. PackInv(q)
        BY DEF IInv, CallInv
      <3>2. manifest[job[q].to] \in {HalfJson, NoBackup, Manifest(job[q].id, job[q].items)}
        BY <2>4, <3>1 DEF PackInv
      <3> QED
        BY <2>3, <3>2 DEF HalfJson, NoBackup, Manifest
    <2>5. NoBackup \in ManifestType /\ Matches(NoBackup, tree[b])
      BY DEF NoBackup, ManifestType, Matches
    <2>6. manifest' = [manifest EXCEPT ![b] = NoBackup]
      BY <2>1, <2>2
    <2>7. /\ DiskMoves(p) /\ NothingLeft(p) /\ DiskTypes'
          /\ TreeInv' /\ DebrisInv' /\ ManifestInv' /\ manifest'[b] = NoBackup
      <3>1. Seals(p, b, NoBackup)
        BY <1>1, <2>3, <2>4, <2>5, <2>6 DEF Seals
      <3> QED
        BY <2>3, <2>5, <3>1, ManifestMoves
    <2>8. /\ OthersStay(p) /\ CallTypes' /\ pc'[p] = "root" /\ job'[p] = job[p]
          /\ answers' = answers
          /\ (\A a : Late(a, p)') /\ ~Created(p)' /\ BirthInv(p)'
          /\ JobInv(p)' /\ LockInv(p)' /\ CaptureInv(p)'
      BY <1>1, <2>1, PackGoes
    <2>9. CopyInv(p)' /\ PackInv(p)'
      BY <2>2, <2>3, <2>7, <2>8 DEF CopyInv, PackInv, CopySteps, SealSteps
    <2>10. PackersApart'
      <3>1. \A q \in Procs \ {p} : Packing(q)' => Packing(q) /\ job'[q].to = job[q].to
        BY <2>8 DEF OthersStay, Packing
      <3>2. PackersApart
        BY DEF IInv, WorldInv
      <3> QED
        BY <2>2, <2>4, <2>8, <3>1, <3>2 DEF PackersApart
    <2>11. CreateInv' /\ CopiesInv'
      BY <1>1, <2>7, <2>8, CreateKept, CopiesKept
    <2>12. HistTypes'
      BY <1>1, <2>8 DEF IInv, Types, HistTypes
    <2> QED
      BY <2>7, <2>8, <2>9, <2>10, <2>11, <2>12, Assembled DEF CallInv
  <1> QED
    BY <1>2, <1>3

\* backup.json is opened and is torn.
LEMMA OpenManifestStep ==
    ASSUME IInv, NEW p \in Procs, OpenManifest(p) PROVE IInv'
  <1>1. pc[p] = "seal" /\ UNCHANGED <<config, tree, debris, minted, bounds, copies>>
    BY DEF OpenManifest
  <1>2. CASE manifest[job[p].to].state # "none"
    <2>1. Refuse(p) /\ UNCHANGED manifest
      BY <1>2 DEF OpenManifest
    <2> QED
      BY <1>1, <2>1, EndStep DEF Refuse, disk
  <1>3. CASE manifest[job[p].to].state = "none"
    <2>1. manifest' = [manifest EXCEPT ![job[p].to] = HalfJson] /\ Step(p, "write")
      BY <1>3 DEF OpenManifest
    <2>2. PICK b : b = job[p].to
      OBVIOUS
    <2>3. "write" \in SealSteps /\ pc[p] \in SealSteps
      BY <1>1 DEF SealSteps
    <2>4. b \in Bundles /\ manifest[b].state # "whole" /\ Packing(p) /\ CallInv(p)
      BY <1>1, <1>3, <2>2, <2>3, PackAt
    <2>5. \A q \in Procs \ {p} : Packing(q) => job[q].to # b
      BY <2>2, <2>4 DEF IInv, WorldInv, PackersApart
    <2>6. HalfJson \in ManifestType /\ Matches(HalfJson, tree[b])
      BY DEF HalfJson, ManifestType, Matches
    <2>7. manifest' = [manifest EXCEPT ![b] = HalfJson]
      BY <2>1, <2>2
    <2>8. /\ DiskMoves(p) /\ NothingLeft(p) /\ DiskTypes'
          /\ TreeInv' /\ DebrisInv' /\ ManifestInv' /\ manifest'[b] = HalfJson
      <3>1. Seals(p, b, HalfJson)
        BY <1>1, <2>4, <2>5, <2>6, <2>7 DEF Seals
      <3> QED
        BY <2>4, <2>6, <3>1, ManifestMoves
    <2>9. /\ OthersStay(p) /\ CallTypes' /\ pc'[p] = "write" /\ job'[p] = job[p]
          /\ answers' = answers
          /\ (\A a : Late(a, p)') /\ ~Created(p)' /\ BirthInv(p)'
          /\ JobInv(p)' /\ LockInv(p)' /\ CaptureInv(p)'
      BY <1>1, <2>1, <2>3, PackGoes
    <2>10. CopyInv(p)' /\ PackInv(p)'
      BY <1>1, <2>2, <2>3, <2>4, <2>8, <2>9 DEF CallInv, CopyInv, PackInv, CopySteps
    <2>11. HistTypes'
      BY <1>1, <2>9 DEF IInv, Types, HistTypes
    <2> QED
      BY <1>1, <2>4, <2>8, <2>9, <2>10, <2>11, MoveStep DEF CallInv
  <1> QED
    BY <1>2, <1>3

\* The tree has been compared and nobody else can have written to it since.
LEMMA WriteManifestStep ==
    ASSUME IInv, NEW p \in Procs, WriteManifest(p) PROVE IInv'
  <1>1. /\ pc[p] = "write" /\ Step(p, "report")
        /\ manifest' = [manifest EXCEPT ![job[p].to] = Manifest(job[p].id, job[p].items)]
        /\ UNCHANGED <<config, tree, debris, minted, bounds, copies>>
    BY DEF WriteManifest
  <1>2. PICK b : b = job[p].to
    OBVIOUS
  <1>3. PICK m : m = Manifest(job[p].id, job[p].items)
    OBVIOUS
  <1>4. "report" \in SealSteps /\ pc[p] \in SealSteps
    BY <1>1 DEF SealSteps
  <1>5. /\ b \in Bundles /\ Packing(p) /\ CallInv(p) /\ pc[p] \in CopySteps
        /\ job[p].id \in Ids /\ job[p].items \in SUBSET Items
    BY <1>1, <1>2, <1>4, PackAt
  <1>6. /\ m \in ManifestType /\ m.state = "whole" /\ m.id = job[p].id /\ m.items = job[p].items
    BY <1>3, <1>5 DEF Manifest, ManifestType
  <1>7. manifest[b] = HalfJson
    BY <1>1, <1>2, <1>5 DEF CallInv, PackInv
  <1>8. manifest[b].state # "whole"
    BY <1>7 DEF HalfJson
  <1>9. /\ Validated(tree[b]) /\ tree[b].id = job[p].id /\ Present(tree[b]) = job[p].items
        /\ tree[b].dir
    BY <1>1, <1>2, <1>5 DEF CallInv, CopyInv
  <1>10. \A q \in Procs \ {p} : Packing(q) => job[q].to # b
    BY <1>2, <1>5 DEF IInv, WorldInv, PackersApart
  <1>11. manifest' = [manifest EXCEPT ![b] = m]
    BY <1>1, <1>2, <1>3
  <1>12. Matches(m, tree[b])
    BY <1>6, <1>9 DEF Matches, Validated
  <1>13. /\ DiskMoves(p) /\ NothingLeft(p) /\ DiskTypes'
         /\ TreeInv' /\ DebrisInv' /\ ManifestInv' /\ manifest'[b] = m
    <2>1. Seals(p, b, m)
      BY <1>1, <1>8, <1>10, <1>11, <1>12 DEF Seals
    <2> QED
      BY <1>5, <1>6, <2>1, ManifestMoves
  <1>14. /\ OthersStay(p) /\ CallTypes' /\ pc'[p] = "report" /\ job'[p] = job[p]
         /\ answers' = answers
         /\ (\A a : Late(a, p)') /\ ~Created(p)' /\ BirthInv(p)'
         /\ JobInv(p)' /\ LockInv(p)' /\ CaptureInv(p)'
    BY <1>1, <1>4, PackGoes
  <1>15. CopyInv(p)' /\ PackInv(p)'
    BY <1>1, <1>2, <1>3, <1>9, <1>13, <1>14 DEF CopyInv, PackInv
  <1>16. HistTypes'
    BY <1>1, <1>14 DEF IInv, Types, HistTypes
  <1> QED
    BY <1>1, <1>5, <1>13, <1>14, <1>15, <1>16, MoveStep DEF CallInv
-----------------------------------------------------------------------------
(* The inductive invariant                                                 *)

\* The disk is empty and nobody has called at the start.
LEMMA InitInv == Init => IInv
  <1> SUFFICES ASSUME Init PROVE IInv
    OBVIOUS
  <1>1. /\ config \in [Configs -> Roots \cup {NoRoot}] /\ debris = {} /\ minted = 0
        /\ answers = {} /\ copies = [r \in Roots |-> {}]
    BY DEF Init
  <1>2. /\ tree = [r \in Roots |-> NoTree] /\ manifest = [b \in Bundles |-> NoLeaf]
    BY DEF Init
  <1>3. \A p \in Procs : pc[p] = "idle" /\ job[p] = NoJob
    BY DEF Init
  <1>4. NoTree \in TreeType /\ NoTree.dir = FALSE
    <2>1. "none" \in ItemStates
      BY DEF ItemStates
    <2>2. [i \in Items |-> "none"] \in [Items -> ItemStates]
      BY <2>1
    <2> QED
      BY <2>2 DEF NoTree, TreeType, NoFile
  <1>5. NoLeaf \in ManifestType /\ NoLeaf.state = "absent"
    BY DEF NoLeaf, ManifestType
  <1>6. DiskTypes
    <2>1. debris \subseteq Litters /\ minted \in Nat
      BY <1>1
    <2>2. tree \in [Roots -> TreeType]
      BY <1>2, <1>4
    <2>3. manifest \in [Bundles -> ManifestType]
      BY <1>2, <1>5
    <2> QED
      BY <1>1, <2>1, <2>2, <2>3 DEF DiskTypes
  <1>7. HistTypes
    BY <1>1 DEF HistTypes
  <1>8. CallTypes
    <2>1. NoJob \in Jobs /\ "idle" \in Steps
      BY DEF Jobs, Steps
    <2>2. pc \in [Procs -> Steps] /\ job \in [Procs -> Jobs]
      BY <2>1 DEF Init
    <2> QED
      BY <2>2 DEF CallTypes, Init
  <1>9. WorldInv
    <2>1. TreeInv
      BY <1>2 DEF TreeInv
    <2>2. DebrisInv /\ AnswerInv
      BY <1>1 DEF DebrisInv, AnswerInv
    <2>3. CreateInv /\ PackersApart
      BY <1>1, <1>3 DEF CreateInv, PackersApart, Answered, Created, Packing, NoJob
    <2>4. ManifestInv
      BY <1>2, <1>5 DEF ManifestInv
    <2>5. CopiesInv
      BY <1>1 DEF CopiesInv
    <2> QED
      BY <2>1, <2>2, <2>3, <2>4, <2>5 DEF WorldInv
  <1>10. ASSUME NEW p \in Procs PROVE CallInv(p)
    BY <1>3 DEF CallInv, JobInv, LockInv, BirthInv, CaptureInv, CopyInv, PackInv, Packing,
                InitSteps, OwnSteps, RootSteps, CopySteps, SealSteps
  <1> QED
    BY <1>6, <1>7, <1>8, <1>9, <1>10 DEF IInv, Types

\* Every step of an initialisation keeps the invariant.
LEMMA InitialiseStep ==
    ASSUME IInv, NEW p \in Procs, Initialise(p) PROVE IInv'
  BY AcquireInitStep, LookStep, SweepStep, SweepTransactionStep, RemoveDirectoryStep,
     SweepTemporaryStep, MakeTransactionStep, MarkTransactionStep, StageStoreStep, PlaceStoreStep,
     AdoptStep, FailStep, OpenTemporaryStep, FillTemporaryStep, ConnectStep, ReopenStep
  DEF Initialise

\* So does every step of the other calls.
LEMMA MaintainStep ==
    ASSUME IInv, NEW p \in Procs, Maintain(p) PROVE IInv'
  BY AcquireWriteStep, CaptureStep, ProjectStep, RebuildStep, VerifyStep, SurveyStep, MakeBundleStep,
     VerifyBundleStep, EnsureRootStep, AcquireTargetStep, MakeDirectoriesStep, OpenFileStep,
     CloseFileStep, CompareCopyStep, OpenManifestStep, WriteManifestStep, ReportBackupStep
  DEF Maintain

\* Every step keeps the invariant.
LEMMA NextInv == IInv /\ [Next]_vars => IInv'
  <1> SUFFICES ASSUME IInv, [Next]_vars PROVE IInv'
    OBVIOUS
  <1>1. CASE Next
    BY <1>1, CallStep, InitialiseStep, MaintainStep, CrashStep DEF Next
  <1>2. CASE UNCHANGED vars
    <2>1. UNCHANGED <<config, tree, manifest, debris, initLock, lock, pc, job, minted,
                      answers, copies>>
      BY <1>2 DEF vars, disk, locks
    <2>2. Types'
      BY <2>1 DEF IInv, Types, DiskTypes, HistTypes, CallTypes
    <2>3. TreeInv' /\ DebrisInv' /\ CreateInv'
      BY <2>1 DEF IInv, WorldInv, TreeInv, DebrisInv, CreateInv, Created, Answered
    <2>4. AnswerInv'
      BY <2>1 DEF IInv, WorldInv, AnswerInv, AnswerHolds, InitHolds, CaptureHolds, RestoreHolds,
                  Connected, Late
    <2>5. ManifestInv' /\ PackersApart' /\ CopiesInv'
      BY <2>1 DEF IInv, WorldInv, ManifestInv, PackersApart, Packing, CopiesInv
    <2>6. ASSUME NEW p \in Procs
          PROVE  CallInv(p)'
      <3>1. CallInv(p)
        BY DEF IInv
      <3>2. JobInv(p)' /\ LockInv(p)' /\ CaptureInv(p)'
        BY <2>1, <3>1 DEF CallInv, JobInv, LockInv, CaptureInv
      <3>3. BirthInv(p)'
        BY <2>1, <3>1 DEF CallInv, BirthInv, Swept, Connected
      <3>4. CopyInv(p)' /\ PackInv(p)'
        BY <2>1, <3>1 DEF CallInv, CopyInv, PackInv, Packing
      <3> QED
        BY <3>2, <3>3, <3>4 DEF CallInv
    <2> QED
      BY <2>2, <2>3, <2>4, <2>5, <2>6 DEF IInv, WorldInv
  <1> QED
    BY <1>1, <1>2

\* IInv is an invariant of the life of a store.
THEOREM Invariance == Spec => []IInv
  BY InitInv, NextInv, PTL DEF Spec

-----------------------------------------------------------------------------
(* What follows                                                            *)

\* What init and capture answered stays true (AnswersStand): the
\* configuration names that root, the root is that store, one call at most
\* has created it, and what was captured is there.
THEOREM AnswersAreKept == Spec => []AnswersStand
  <1>1. ASSUME IInv PROVE AnswersStand
    BY <1>1 DEF IInv, WorldInv, AnswerInv, AnswerHolds, InitHolds, CaptureHolds, Connected,
                CreateInv, Answered, AnswersStand
  <1> QED
    BY <1>1, Invariance, PTL

\* A root that can be read has everything its copies were to bring
\* (PartialCopiesAreShunned): the items' directories come before the first
\* file, and a directory without its files makes the root unreadable.
THEOREM PartialCopiesShow == Spec => []PartialCopiesAreShunned
  <1>1. ASSUME IInv, NEW r \in Roots, Readable(tree[r]), NEW copy \in copies[r],
               NEW i \in copy.items
        PROVE  i \in Present(tree[r])
    <2>1. tree[r].items[i] # "none"
      BY <1>1 DEF IInv, WorldInv, CopiesInv
    <2>2. i \in Items
      BY <1>1 DEF IInv, Types, HistTypes
    <2> QED
      BY <1>1, <2>1, <2>2 DEF Readable, Present, Captured
  <1>2. IInv => PartialCopiesAreShunned
    BY <1>1 DEF PartialCopiesAreShunned
  <1> QED
    BY <1>2, Invariance, PTL

\* A whole backup.json lies beside a store that can be read and holds what it
\* lists, and a restore that was answered brought back what the backup saw
\* (BackupsAreTrue).
THEOREM BackupsAreWhole == Spec => []BackupsAreTrue
  <1>1. ASSUME IInv, NEW a \in answers, a.op = "restore"
        PROVE  /\ a.id = manifest[a.bundle].id /\ a.id = tree[a.root].id
               /\ a.held = manifest[a.bundle].items
               /\ a.held \subseteq Present(tree[a.root])
    <2>1. RestoreHolds(a)
      BY <1>1 DEF IInv, WorldInv, AnswerInv, AnswerHolds
    <2>2. manifest[a.bundle].id = a.id /\ manifest[a.bundle].items = a.held
      BY <2>1 DEF RestoreHolds, Manifest
    <2> QED
      BY <2>1, <2>2 DEF RestoreHolds
  <1>2. ASSUME IInv PROVE ManifestInv
    BY <1>2 DEF IInv, WorldInv
  <1>3. IInv => BackupsAreTrue
    BY <1>1, <1>2 DEF BackupsAreTrue, Answered, ManifestInv
  <1> QED
    BY <1>3, Invariance, PTL

\* Nobody sweeps the transaction or temporary of a call in progress
\* (LiveWorkIsKept): leftovers of a request are touched under the lock of
\* its configuration only.
THEOREM LiveWorkStays == Spec => []LiveWorkIsKept
  <1>1. ASSUME IInv, NEW p \in Procs, job[p].op = "init", job[p].own # 0
        PROVE  \E d \in debris : d.n = job[p].own
    <2>1. pc[p] \in InitSteps \cup {"init-lock"}
      BY <1>1, InitAt
    <2>2. BirthInv(p)
      BY <1>1 DEF IInv, CallInv
    <2> QED
      BY <1>1, <2>1, <2>2 DEF BirthInv
  <1>2. IInv => LiveWorkIsKept
    BY <1>1 DEF LiveWorkIsKept
  <1> QED
    BY <1>2, Invariance, PTL

\* Once a request has succeeded nothing recognisable of its attempts is left,
\* killed ones included (SuccessSweepsUp).
THEOREM SuccessLeavesNothing == Spec => []SuccessSweepsUp
  <1>1. ASSUME IInv PROVE SuccessSweepsUp
    BY <1>1 DEF IInv, WorldInv, AnswerInv, AnswerHolds, InitHolds, Recognised, Answered,
                SuccessSweepsUp
  <1> QED
    BY <1>1, Invariance, PTL
=============================================================================
