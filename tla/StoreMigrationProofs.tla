------------------------ MODULE StoreMigrationProofs ------------------------
(***************************************************************************)
(* Proofs about StoreMigration, for any processes, roots, requests, moves  *)
(* and bounds.                                                             *)
(***************************************************************************)
EXTENDS StoreMigration, TLAPS

-----------------------------------------------------------------------------
(* Types                                                                   *)

AppendSteps == {"binding", "scan", "version", "event", "project"}
MoveSteps   == {"source", "validate", "target", "compare", "copy", "copying",
                "verify", "switch", "report"}
Steps       == {"idle", "lock", "rebuild", "init"} \cup AppendSteps \cup MoveSteps

AppendJobs  == [op : {"append"}, key : Nat \ {0, 1}, expected : Versions, root : Roots]
RebuildJobs == [op : {"rebuild"}, root : Roots]
MigrateJobs == [op : {"migrate"}, source : Roots, target : Roots, again : BOOLEAN,
                edition : Nat]

Trees == [Files -> Int]

StoreTypes ==
    /\ config \in Roots /\ edition \in Nat
    /\ tree \in [Roots -> Trees]
    /\ \A c \in receipts : c.key \in Nat \ {0} /\ c.ver \in Versions

CallTypes ==
    /\ initLock \in Procs \cup {Nobody}
    /\ lock \in [Roots -> Procs \cup {Nobody}]
    /\ pc \in [Procs -> Steps]
    /\ job \in [Procs -> {NoJob} \cup AppendJobs \cup RebuildJobs \cup MigrateJobs]
    /\ snap \in [Procs -> Trees]

Types == StoreTypes /\ CallTypes

-----------------------------------------------------------------------------
(* The inductive invariant                                                 *)

\* The step a call is at says what its record holds.
JobInv(p) ==
    /\ pc[p] \in AppendSteps => job[p] \in AppendJobs
    /\ pc[p] = "rebuild" => job[p] \in RebuildJobs
    /\ pc[p] = "lock" => job[p] \in AppendJobs \cup RebuildJobs
    /\ pc[p] \in MoveSteps \cup {"init"} =>
          job[p] \in MigrateJobs /\ job[p].source # job[p].target

\* The locks a call holds.
LockInv(p) ==
    /\ pc[p] \in AppendSteps \cup {"rebuild"} => lock[job[p].root] = p
    /\ pc[p] \in MoveSteps => initLock = p
    /\ pc[p] \in MoveSteps \ {"source"} => lock[job[p].source] = p
    /\ pc[p] \in {"compare", "copy", "copying", "verify", "switch", "report"} =>
          lock[job[p].target] = p

\* An append works on the configured root, on the version it has scanned for.
AppendInv(p) ==
    LET t    == tree[job[p].root]
        next == job[p].expected + 1
    IN  /\ pc[p] \in AppendSteps \ {"binding"} => config = job[p].root
        /\ pc[p] \in {"version", "event", "project"} => next \in Versions
        /\ pc[p] \in {"version", "event"} => Committed(t) = 1 .. job[p].expected
        /\ pc[p] = "version" => /\ t[Dir(next)] \in {NoFile, job[p].key}
                                /\ \A n \in Committed(t) : t[Event(n)] # job[p].key
        /\ pc[p] \in {"event", "project"} => t[Dir(next)] = job[p].key
        /\ pc[p] = "project" => t[Event(next)] = job[p].key

\* A root that a call bound to and the configuration left: capture.yaml shows
\* its newest version, and will.
Left(r) == tree[r][Projection] \in Versions
           /\ Committed(tree[r]) = 1 .. tree[r][Projection]

RebuildInv(p) ==
    pc[p] \in {"lock", "rebuild"} => job[p].root = config \/ Left(job[p].root)

\* What a migration knows by each step.
MoveInv(p) ==
    LET j == job[p]
        t == tree[j.target]
    IN  /\ pc[p] \in MoveSteps \cup {"init"} =>
              /\ j.edition <= edition
              /\ edition = j.edition => config = IF j.again THEN j.target ELSE j.source
        /\ pc[p] \in MoveSteps \ {"report"} => edition = j.edition
        /\ pc[p] = "report" => config = j.target
        /\ pc[p] \in MoveSteps \ {"source", "validate"} =>
              Validated(tree[j.source]) /\ snap[p] = tree[j.source]
        /\ pc[p] \in {"compare", "copy", "copying", "switch"} => ~j.again
        /\ pc[p] = "copy" => IsPartOf(t, snap[p])
        /\ pc[p] = "copying" =>
              \E f \in Files : /\ t[f] = Torn /\ Has(snap[p], f)
                               /\ \A g \in Files \ {f} : Has(t, g) => t[g] = snap[p][g]
        /\ pc[p] = "switch" \/ (pc[p] = "verify" /\ ~j.again) => t = snap[p]

\* The other roots hold parts of what the configured one holds.
PartInv(r) == \A f \in Files \ {Projection} : tree[r][f] \in {NoFile, Torn, tree[config][f]}

\* A request is one version.
KeysInv == \A n, m \in Versions :
              Has(tree[config], Dir(n)) /\ tree[config][Dir(n)] = tree[config][Dir(m)]
                 => n = m

CallInv(p) == JobInv(p) /\ LockInv(p) /\ AppendInv(p) /\ RebuildInv(p) /\ MoveInv(p)

StoreInv ==
    /\ ConfigNamesAStore /\ KeysInv /\ ReceiptsMoveAlong
    /\ \A r \in Roots : PartInv(r)

IInv == Types /\ StoreInv /\ \A p \in Procs : CallInv(p)

-----------------------------------------------------------------------------
(* Files and trees                                                         *)

\* The files of a tree have names of their own.
LEMMA FileNames ==
    /\ MaxVersions \in Nat \ {0} /\ Projection \in Files /\ 1 \in Versions
    /\ \A n \in Versions :
          /\ Event(n) \in Files /\ Dir(n) \in Files
          /\ Event(n) # Projection /\ Dir(n) # Projection
    /\ \A n, m \in Versions : /\ Event(n) # Dir(m)
                              /\ Event(n) = Event(m) => n = m
                              /\ Dir(n) = Dir(m) => n = m
    /\ \A n \in Versions : n \in Nat /\ n >= 1 /\ \A m \in 1 .. n : m \in Versions
    /\ NoFile # Torn /\ NoFile \in Int /\ Torn \in Int
  BY MigrationAssumption DEF Files, Versions, Event, Dir, Projection, NoFile, Torn

\* There is one newest version.
LEMMA CurrentIs ==
    ASSUME NEW t, NEW n \in Versions, Committed(t) = 1 .. n
    PROVE  Current(t) = n
  <1>1. ASSUME NEW m \in Versions, 1 .. n = 1 .. m PROVE m = n
    <2>1. n \in Nat /\ m \in Nat /\ n >= 1 /\ m >= 1
      BY FileNames DEF Versions
    <2>2. n \in 1 .. n /\ m \in 1 .. m
      BY <2>1
    <2>3. n \in 1 .. m /\ m \in 1 .. n
      BY <1>1, <2>2
    <2> QED
      BY <2>1, <2>3
  <1> QED
    BY <1>1 DEF Current

\* What a readable tree has.
LEMMA ReadableIs ==
    ASSUME NEW t, NEW n \in Versions, Committed(t) = 1 .. n
    PROVE  IsReadable(t) <=>
              /\ \A m \in 1 .. n : t[Event(m)] = t[Dir(m)] /\ t[Dir(m)] # Torn
              /\ \A m \in Versions : m > n + 1 => ~Has(t, Dir(m))
              /\ \A m \in Versions : m = n + 1 => t[Dir(m)] # Torn
  <1>1. \A m \in Versions : Committed(t) = 1 .. m => m = n
    BY CurrentIs
  <1> QED
    BY <1>1 DEF IsReadable

\* The newest version of a readable tree.
LEMMA ReadableHas ==
    ASSUME NEW t, IsReadable(t)
    PROVE  Current(t) \in Versions /\ Committed(t) = 1 .. Current(t)
  <1>1. PICK n \in Versions : Committed(t) = 1 .. n
    BY DEF IsReadable
  <1> QED
    BY <1>1, CurrentIs

\* A readable tree has no torn event and no torn directory.
LEMMA ReadableWhole ==
    ASSUME NEW t, IsReadable(t), NEW n \in Versions
    PROVE  t[Event(n)] # Torn /\ t[Dir(n)] # Torn
  <1>1. PICK c \in Versions : Committed(t) = 1 .. c
    BY DEF IsReadable
  <1>2. /\ \A m \in 1 .. c : t[Event(m)] = t[Dir(m)] /\ t[Dir(m)] # Torn
        /\ \A m \in Versions : m > c + 1 => ~Has(t, Dir(m))
        /\ \A m \in Versions : m = c + 1 => t[Dir(m)] # Torn
    BY <1>1, ReadableIs
  <1>3. c \in Nat /\ n \in Nat /\ n >= 1
    BY FileNames DEF Versions
  <1>4. CASE n <= c
    BY <1>2, <1>3, <1>4
  <1>5. CASE n > c
    <2>1. n \notin Committed(t)
      BY <1>1, <1>3, <1>5
    <2>2. t[Event(n)] = NoFile
      BY <2>1 DEF Committed, Has
    <2>3. t[Dir(n)] # Torn
      BY <1>2, <1>3, <1>5, FileNames DEF Has
    <2> QED
      BY <2>2, <2>3, FileNames
  <1> QED
    BY <1>3, <1>4, <1>5

\* A readable tree holds each committed version.
LEMMA ReadableHolds ==
    ASSUME NEW t, IsReadable(t), NEW n \in Committed(t)
    PROVE  n \in Versions /\ t[Dir(n)] = t[Event(n)] /\ Has(t, Dir(n))
  <1>1. PICK c \in Versions : Committed(t) = 1 .. c
    BY DEF IsReadable
  <1>2. t[Event(n)] = t[Dir(n)]
    BY <1>1, ReadableIs
  <1> QED
    BY <1>2 DEF Committed, Has

\* capture.yaml has no say in what is committed.
LEMMA PutProjection ==
    ASSUME NEW t \in Trees, NEW v, NEW u, u = [t EXCEPT ![Projection] = v]
    PROVE  /\ Committed(u) = Committed(t) /\ (IsReadable(u) <=> IsReadable(t))
           /\ \A f \in Files \ {Projection} : u[f] = t[f]
  <1>1. \A f \in Files \ {Projection} : u[f] = t[f]
    BY DEF Trees
  <1>2. \A n \in Versions : u[Event(n)] = t[Event(n)] /\ u[Dir(n)] = t[Dir(n)]
    BY <1>1, FileNames
  <1>3. Committed(u) = Committed(t)
    BY <1>2 DEF Committed, Has
  <1>4. ASSUME NEW n \in Versions, Committed(t) = 1 .. n
        PROVE  IsReadable(u) <=> IsReadable(t)
    <2>1. \A m \in 1 .. n : m \in Versions
      BY FileNames
    <2>2. (\A m \in 1 .. n : u[Event(m)] = u[Dir(m)] /\ u[Dir(m)] # Torn)
             <=> (\A m \in 1 .. n : t[Event(m)] = t[Dir(m)] /\ t[Dir(m)] # Torn)
      BY <1>2, <2>1
    <2>3. (\A m \in Versions : m > n + 1 => ~Has(u, Dir(m)))
             <=> (\A m \in Versions : m > n + 1 => ~Has(t, Dir(m)))
      BY <1>2 DEF Has
    <2>4. (\A m \in Versions : m = n + 1 => u[Dir(m)] # Torn)
             <=> (\A m \in Versions : m = n + 1 => t[Dir(m)] # Torn)
      BY <1>2
    <2>5. Committed(u) = 1 .. n
      BY <1>3, <1>4
    <2> QED
      BY <1>4, <2>2, <2>3, <2>4, <2>5, ReadableIs
  <1> QED
    BY <1>1, <1>3, <1>4 DEF IsReadable

\* A version directory is put behind the newest version: a tail.
LEMMA PutDir ==
    ASSUME NEW t \in Trees, IsReadable(t), NEW n \in Versions, n + 1 \in Versions,
           Committed(t) = 1 .. n, NEW k \in Nat \ {0, 1},
           NEW u, u = [t EXCEPT ![Dir(n + 1)] = k]
    PROVE  IsReadable(u) /\ Committed(u) = 1 .. n
  <1>1. \A m \in Versions : /\ u[Event(m)] = t[Event(m)]
                            /\ m # n + 1 => u[Dir(m)] = t[Dir(m)]
    BY FileNames DEF Trees
  <1>2. u[Dir(n + 1)] = k /\ k # Torn
    BY FileNames DEF Trees, Torn
  <1>3. Committed(u) = 1 .. n
    BY <1>1 DEF Committed, Has
  <1>4. n \in Nat /\ \A m \in 1 .. n : m \in Versions /\ m # n + 1
    BY FileNames
  <1>5. \A m \in Versions : m > n + 1 => m # n + 1
    BY <1>4 DEF Versions
  <1>6. /\ \A m \in 1 .. n : t[Event(m)] = t[Dir(m)] /\ t[Dir(m)] # Torn
        /\ \A m \in Versions : m > n + 1 => ~Has(t, Dir(m))
    BY ReadableIs
  <1>7. \A m \in 1 .. n : u[Event(m)] = u[Dir(m)] /\ u[Dir(m)] # Torn
    BY <1>1, <1>4, <1>6
  <1>8. \A m \in Versions : m > n + 1 => ~Has(u, Dir(m))
    BY <1>1, <1>5, <1>6 DEF Has
  <1>9. \A m \in Versions : m = n + 1 => u[Dir(m)] # Torn
    BY <1>2
  <1> QED
    BY <1>3, <1>7, <1>8, <1>9, ReadableIs

\* Its event commits it.
LEMMA PutEvent ==
    ASSUME NEW t \in Trees, IsReadable(t), NEW n \in Versions, n + 1 \in Versions,
           Committed(t) = 1 .. n, NEW k \in Nat \ {0, 1}, t[Dir(n + 1)] = k,
           NEW u, u = [t EXCEPT ![Event(n + 1)] = k]
    PROVE  IsReadable(u) /\ Committed(u) = 1 .. n + 1
  <1>1. \A m \in Versions : /\ u[Dir(m)] = t[Dir(m)]
                            /\ m # n + 1 => u[Event(m)] = t[Event(m)]
    BY FileNames DEF Trees
  <1>2. u[Event(n + 1)] = k /\ k # Torn /\ k # NoFile
    BY FileNames DEF Trees, Torn, NoFile
  <1>3. n \in Nat /\ n >= 1 /\ \A m \in 1 .. n + 1 : m = n + 1 \/ m \in 1 .. n
    BY FileNames DEF Versions
  <1>4. Committed(u) = 1 .. n + 1
    <2>1. \A m \in Versions : m \in Committed(u) <=> m \in Committed(t) \/ m = n + 1
      BY <1>1, <1>2 DEF Committed, Has
    <2>2. \A m \in 1 .. n + 1 : m \in Versions
      BY FileNames
    <2>3. \A m \in 1 .. n + 1 : m \in Committed(u)
      BY <1>3, <2>1, <2>2
    <2>4. \A m \in Committed(u) : m \in 1 .. n + 1
      BY <1>3, <2>1 DEF Committed
    <2> QED
      BY <2>3, <2>4
  <1>5. /\ \A m \in 1 .. n : t[Event(m)] = t[Dir(m)] /\ t[Dir(m)] # Torn
        /\ \A m \in Versions : m > n + 1 => ~Has(t, Dir(m))
    BY ReadableIs
  <1>6. \A m \in 1 .. n + 1 : u[Event(m)] = u[Dir(m)] /\ u[Dir(m)] # Torn
    <2> SUFFICES ASSUME NEW m \in 1 .. n + 1
                 PROVE  u[Event(m)] = u[Dir(m)] /\ u[Dir(m)] # Torn
      OBVIOUS
    <2>1. CASE m = n + 1
      BY <1>1, <1>2, <2>1
    <2>2. CASE m \in 1 .. n
      <3>1. m \in Versions /\ m # n + 1
        BY <1>3, <2>2, FileNames
      <3> QED
        BY <1>1, <1>5, <2>2, <3>1
    <2> QED
      BY <1>3, <2>1, <2>2
  <1>7. \A m \in Versions : m > n + 1 + 1 => ~Has(u, Dir(m))
    BY <1>1, <1>3, <1>5 DEF Has, Versions
  <1>8. \A m \in Versions : m = n + 1 + 1 => u[Dir(m)] # Torn
    BY <1>1, <1>3, <1>5, FileNames DEF Has, Versions
  <1> QED
    BY <1>4, <1>6, <1>7, <1>8, ReadableIs

-----------------------------------------------------------------------------
(* One call takes a step                                                   *)

\* The calls other than p's stay where they are and keep their locks.
OthersStay(p) ==
    \A q \in Procs \ {p} :
        /\ pc'[q] = pc[q] /\ job'[q] = job[q] /\ snap'[q] = snap[q]
        /\ initLock = q => initLock' = q
        /\ \A r \in Roots : lock[r] = q => lock'[r] = q

\* What the others know stays true when p writes only to roots it has locked
\* and leaves the configuration and the capture.yaml of left roots alone.
LEMMA Frame ==
    ASSUME IInv, NEW p \in Procs, OthersStay(p), UNCHANGED configVars,
           \A r \in Roots : lock[r] # p => tree'[r] = tree[r],
           \A r \in Roots : r = config \/ (Left(r) => Left(r)')
    PROVE  \A q \in Procs \ {p} : CallInv(q)'
  <1> SUFFICES ASSUME NEW q \in Procs \ {p} PROVE CallInv(q)'
    OBVIOUS
  <1>1. /\ pc'[q] = pc[q] /\ job'[q] = job[q] /\ snap'[q] = snap[q]
        /\ initLock = q => initLock' = q
        /\ \A r \in Roots : lock[r] = q => lock'[r] = q
        /\ config' = config /\ edition' = edition
    BY DEF OthersStay, configVars
  <1>2. CallInv(q) /\ q \in Procs /\ q # p
    BY DEF IInv
  <1>3. \A r \in Roots : lock[r] = q => tree'[r] = tree[r]
    BY <1>2
  <1>4. JobInv(q)'
    BY <1>1, <1>2 DEF JobInv, CallInv
  <1>5. /\ pc[q] \in AppendSteps \cup {"rebuild", "lock"} => job[q].root \in Roots
        /\ pc[q] \in MoveSteps => job[q].source \in Roots /\ job[q].target \in Roots
    BY <1>2 DEF JobInv, CallInv, AppendJobs, RebuildJobs, MigrateJobs
  <1>6. LockInv(q)'
    BY <1>1, <1>2, <1>5 DEF LockInv, CallInv, MoveSteps
  <1>7. pc[q] \in AppendSteps => tree'[job[q].root] = tree[job[q].root]
    BY <1>2, <1>3, <1>5 DEF LockInv, CallInv
  <1>8. AppendInv(q)'
    BY <1>1, <1>2, <1>7 DEF AppendInv, CallInv, AppendSteps
  <1>9. RebuildInv(q)'
    BY <1>1, <1>2, <1>5 DEF RebuildInv, CallInv
  <1>10. pc[q] \in MoveSteps \ {"source"} => tree'[job[q].source] = tree[job[q].source]
    BY <1>2, <1>3, <1>5 DEF LockInv, CallInv
  <1>11. pc[q] \in {"compare", "copy", "copying", "verify", "switch", "report"} =>
            tree'[job[q].target] = tree[job[q].target]
    BY <1>2, <1>3, <1>5 DEF LockInv, CallInv, MoveSteps
  <1>12. MoveInv(q)'
    BY <1>1, <1>2, <1>10, <1>11 DEF MoveInv, CallInv, MoveSteps
  <1> QED
    BY <1>4, <1>6, <1>8, <1>9, <1>12 DEF CallInv

\* A call that has ended holds nothing and claims nothing.
LEMMA Ended ==
    ASSUME IInv, NEW p \in Procs, End(p)
    PROVE  OthersStay(p) /\ CallInv(p)' /\ CallTypes'
  <1>1. CallTypes
    BY DEF IInv, Types
  <1>2. Nobody \notin Procs
    BY MigrationAssumption
  <1>3. pc'[p] = "idle"
    BY <1>1 DEF End, Forget, Goto, CallTypes
  <1>4. CallInv(p)'
    BY <1>3 DEF CallInv, JobInv, LockInv, AppendInv, RebuildInv, MoveInv, AppendSteps, MoveSteps
  <1>5. OthersStay(p)
    BY <1>1, <1>2 DEF End, Forget, Goto, FreeLocks, CallTypes, OthersStay
  <1>6. Empty \in Trees
    BY FileNames DEF Empty, Trees
  <1>7. /\ pc' \in [Procs -> Steps]
        /\ job' \in [Procs -> {NoJob} \cup AppendJobs \cup RebuildJobs \cup MigrateJobs]
        /\ snap' \in [Procs -> Trees]
    BY <1>1, <1>6 DEF End, Forget, Goto, CallTypes, Steps
  <1>8. lock' \in [Roots -> Procs \cup {Nobody}] /\ initLock' \in Procs \cup {Nobody}
    BY <1>1 DEF End, FreeLocks, CallTypes
  <1> QED
    BY <1>4, <1>5, <1>7, <1>8 DEF CallTypes

\* A call that goes on to its next step.
LEMMA Going ==
    ASSUME IInv, NEW p \in Procs, NEW s \in Steps, Goto(p, s), UNCHANGED <<locks, job, snap>>
    PROVE  OthersStay(p) /\ CallTypes' /\ pc'[p] = s
  BY DEF Goto, IInv, Types, CallTypes, OthersStay, locks

\* A call that gets the lock of a root.
LEMMA Acquired ==
    ASSUME IInv, NEW p \in Procs, NEW s \in Steps, NEW r \in Roots,
           Acquire(p, r, s), UNCHANGED <<job, snap>>
    PROVE  /\ OthersStay(p) /\ CallTypes' /\ pc'[p] = s
           /\ lock'[r] = p /\ \A d \in Roots : lock[d] = p => lock'[d] = p
  <1>1. Nobody \notin Procs
    BY MigrationAssumption
  <1> QED
    BY <1>1 DEF Acquire, Goto, IInv, Types, CallTypes, OthersStay

\* Nothing but p's own state changes.
LEMMA QuietStep ==
    ASSUME IInv, NEW p \in Procs, OthersStay(p), CallTypes', CallInv(p)',
           UNCHANGED <<configVars, tree, receipts>>
    PROVE  IInv'
  <1>1. \A q \in Procs \ {p} : CallInv(q)'
    BY Frame DEF Left
  <1>2. StoreTypes'
    BY DEF IInv, Types, StoreTypes, configVars
  <1>3. StoreInv'
    BY DEF IInv, StoreInv, configVars, ConfigNamesAStore, KeysInv, ReceiptsMoveAlong, PartInv
  <1> QED
    BY <1>1, <1>2, <1>3 DEF IInv, Types

\* A call ends and has changed nothing.
LEMMA EndStep ==
    ASSUME IInv, NEW p \in Procs, End(p), UNCHANGED <<configVars, tree, receipts>>
    PROVE  IInv'
  BY Ended, QuietStep

-----------------------------------------------------------------------------
(* The steps that change nothing but the caller's own state                *)

\* A call begins and has written nothing.
LEMMA BeginStep ==
    ASSUME IInv, NEW p \in Procs, NEW s \in Steps,
           NEW j \in AppendJobs \cup RebuildJobs \cup MigrateJobs,
           Begin(p, j, s), CallInv(p)'
    PROVE  IInv'
  <1>1. OthersStay(p) /\ CallTypes'
    BY DEF Begin, Goto, IInv, Types, CallTypes, OthersStay, locks
  <1> QED
    BY <1>1, QuietStep DEF Begin

\* An append binds to the root that is configured.
LEMMA CallAppendStep ==
    ASSUME IInv, NEW p \in Procs, NEW r \in Requests, CallAppend(p, r)
    PROVE  IInv'
  <1> DEFINE j == [op |-> "append", key |-> r.key, expected |-> r.expected, root |-> config]
  <1>1. j \in AppendJobs
    BY MigrationAssumption DEF AppendJobs, Versions, IInv, Types, StoreTypes
  <1>2. Begin(p, j, "lock")
    BY DEF CallAppend
  <1>3. pc'[p] = "lock" /\ job'[p] = j /\ config' = config
    BY <1>2 DEF Begin, Goto, IInv, Types, CallTypes, configVars
  <1>4. CallInv(p)'
    BY <1>1, <1>3 DEF CallInv, JobInv, LockInv, AppendInv, RebuildInv, MoveInv, AppendSteps,
                      MoveSteps
  <1> QED
    BY <1>1, <1>2, <1>4, BeginStep DEF Steps

\* So does a rebuild.
LEMMA CallRebuildStep ==
    ASSUME IInv, NEW p \in Procs, CallRebuild(p)
    PROVE  IInv'
  <1> DEFINE j == [op |-> "rebuild", root |-> config]
  <1>1. j \in RebuildJobs
    BY DEF RebuildJobs, IInv, Types, StoreTypes
  <1>2. Begin(p, j, "lock")
    BY DEF CallRebuild
  <1>3. pc'[p] = "lock" /\ job'[p] = j /\ config' = config
    BY <1>2 DEF Begin, Goto, IInv, Types, CallTypes, configVars
  <1>4. CallInv(p)'
    BY <1>1, <1>3 DEF CallInv, JobInv, LockInv, AppendInv, RebuildInv, MoveInv, AppendSteps,
                      MoveSteps
  <1> QED
    BY <1>1, <1>2, <1>4, BeginStep DEF Steps

\* A migration notes the edition of the configuration it has read.
LEMMA CallMigrateStep ==
    ASSUME IInv, NEW p \in Procs, NEW m \in Moves, CallMigrate(p, m[1], m[2])
    PROVE  IInv'
  <1> DEFINE j == [op |-> "migrate", source |-> m[1], target |-> m[2],
                   again |-> config = m[2], edition |-> edition]
  <1>1. m[1] \in Roots /\ m[2] \in Roots /\ m[1] # m[2] /\ config \in {m[1], m[2]}
    BY MigrationAssumption DEF CallMigrate
  <1>2. j \in MigrateJobs /\ j.source # j.target
    BY <1>1 DEF MigrateJobs, IInv, Types, StoreTypes
  <1>3. Begin(p, j, "init")
    BY DEF CallMigrate
  <1>4. pc'[p] = "init" /\ job'[p] = j /\ config' = config /\ edition' = edition
    BY <1>3 DEF Begin, Goto, IInv, Types, CallTypes, configVars
  <1>5. edition \in Nat
    BY DEF IInv, Types, StoreTypes
  <1>6. MoveInv(p)'
    <2>1. /\ job'[p].source = m[1] /\ job'[p].target = m[2]
          /\ job'[p].edition = edition /\ job'[p].again = (config = m[2])
      BY <1>4
    <2>2. config = IF job'[p].again THEN job'[p].target ELSE job'[p].source
      BY <1>1, <2>1
    <2> QED
      BY <1>4, <1>5, <2>1, <2>2 DEF MoveInv, MoveSteps
  <1>7. CallInv(p)'
    BY <1>2, <1>4, <1>6 DEF CallInv, JobInv, LockInv, AppendInv, RebuildInv, AppendSteps,
                            MoveSteps
  <1> QED
    BY <1>2, <1>3, <1>7, BeginStep DEF Steps

\* The write lock of the root a call has bound to.
LEMMA AcquireWriteStep ==
    ASSUME IInv, NEW p \in Procs, AcquireWrite(p)
    PROVE  IInv'
  <1> DEFINE s == IF job[p].op = "append" THEN "binding" ELSE "rebuild"
  <1>1. pc[p] = "lock" /\ CallInv(p)
    BY DEF AcquireWrite, IInv
  <1>2. job[p] \in AppendJobs \cup RebuildJobs /\ job[p].root \in Roots
    BY <1>1 DEF CallInv, JobInv, AppendJobs, RebuildJobs
  <1>3. s \in Steps
    BY DEF Steps, AppendSteps
  <1>4. Acquire(p, job[p].root, s) /\ UNCHANGED <<job, snap>> /\ Quiet
    BY DEF AcquireWrite
  <1>5. /\ OthersStay(p) /\ CallTypes' /\ pc'[p] = s
        /\ lock'[job[p].root] = p
    BY <1>2, <1>3, <1>4, Acquired
  <1>6. /\ s = "binding" => job[p] \in AppendJobs
        /\ s = "rebuild" => job[p] \in RebuildJobs
    BY <1>2 DEF AppendJobs, RebuildJobs
  <1>7. job' = job /\ config' = config /\ tree' = tree
    BY <1>4 DEF Quiet, configVars
  <1>8. s = "binding" \/ s = "rebuild"
    OBVIOUS
  <1>9. JobInv(p)' /\ LockInv(p)' /\ AppendInv(p)' /\ MoveInv(p)'
    BY <1>5, <1>6, <1>7, <1>8 DEF JobInv, LockInv, AppendInv, MoveInv, AppendSteps, MoveSteps
  <1>10. RebuildInv(p)'
    BY <1>1, <1>7 DEF CallInv, RebuildInv, Left
  <1> QED
    BY <1>4, <1>5, <1>9, <1>10, QuietStep DEF CallInv, Quiet

\* Under the lock an append finds its root configured, or is refused.
LEMMA CheckBindingStep ==
    ASSUME IInv, NEW p \in Procs, CheckBinding(p)
    PROVE  IInv'
  <1>1. CASE config = job[p].root
    <2>1. pc[p] = "binding" /\ Goto(p, "scan") /\ UNCHANGED <<locks, job, snap>> /\ Quiet
      BY <1>1 DEF CheckBinding
    <2>2. OthersStay(p) /\ CallTypes' /\ pc'[p] = "scan"
      BY <2>1, Going DEF Steps, AppendSteps
    <2>3. CallInv(p) /\ config' = config
      BY <2>1 DEF IInv, Quiet, configVars
    <2>4. CallInv(p)'
      BY <1>1, <2>1, <2>2, <2>3 DEF CallInv, JobInv, LockInv, AppendInv, RebuildInv, MoveInv,
                                    AppendSteps, MoveSteps, locks
    <2> QED
      BY <2>1, <2>2, <2>4, QuietStep DEF Quiet
  <1>2. CASE config # job[p].root
    BY <1>2, EndStep DEF CheckBinding, Quiet
  <1> QED
    BY <1>1, <1>2

\* Receipts are added for versions the configured store holds.
LEMMA ReceiptsStep ==
    ASSUME IInv, NEW p \in Procs, End(p), UNCHANGED <<configVars, tree>>,
           \A c \in receipts' \ receipts :
               /\ c.key \in Nat \ {0} /\ c.ver \in Versions
               /\ tree[config][Event(c.ver)] = c.key /\ tree[config][Dir(c.ver)] = c.key
    PROVE  IInv'
  <1>1. OthersStay(p) /\ CallInv(p)' /\ CallTypes'
    BY Ended
  <1>2. \A q \in Procs \ {p} : CallInv(q)'
    BY <1>1, Frame DEF Left
  <1>3. StoreTypes'
    BY DEF IInv, Types, StoreTypes, configVars
  <1>4. ReceiptsMoveAlong'
    BY DEF IInv, StoreInv, configVars, ReceiptsMoveAlong
  <1>5. StoreInv'
    BY <1>4 DEF IInv, StoreInv, configVars, ConfigNamesAStore, KeysInv, PartInv
  <1> QED
    BY <1>1, <1>2, <1>3, <1>5 DEF IInv, Types

\* Before the append writes: the version is the next one and its request new.
LEMMA ScanStep ==
    ASSUME IInv, NEW p \in Procs, Scan(p)
    PROVE  IInv'
  <1>1. pc[p] = "scan" /\ CallInv(p) /\ UNCHANGED <<configVars, tree, calls, bounds>>
    BY DEF Scan, IInv
  <1>2. /\ job[p] \in AppendJobs /\ config = job[p].root
        /\ job[p].key \in Nat \ {0, 1} /\ job[p].expected \in Versions
    BY <1>1 DEF CallInv, JobInv, AppendInv, AppendSteps, AppendJobs
  <1>3. IsReadable(Mine(p))
    BY <1>2 DEF IInv, StoreInv, ConfigNamesAStore, Mine
  <1>4. CASE Replay(p) # {}
    <2> DEFINE new == {[key |-> job[p].key, ver |-> n] : n \in Replay(p)}
    <2>1. End(p) /\ receipts' = receipts \cup new
      BY <1>4 DEF Scan
    <2>2. ASSUME NEW n \in Replay(p)
          PROVE  /\ n \in Versions /\ tree[config][Event(n)] = job[p].key
                 /\ tree[config][Dir(n)] = job[p].key
      BY <1>2, <1>3, ReadableHolds DEF Replay, Mine
    <2>3. \A c \in receipts' \ receipts :
             /\ c.key \in Nat \ {0} /\ c.ver \in Versions
             /\ tree[config][Event(c.ver)] = c.key /\ tree[config][Dir(c.ver)] = c.key
      BY <1>2, <2>1, <2>2
    <2> QED
      BY <1>1, <2>1, <2>3, ReceiptsStep
  <1>5. CASE Replay(p) = {} /\ MayAppend(p)
    <2>1. Goto(p, "version") /\ UNCHANGED <<locks, job, snap, receipts>>
      BY <1>5 DEF Scan
    <2>2. OthersStay(p) /\ CallTypes' /\ pc'[p] = "version"
      BY <2>1, Going DEF Steps, AppendSteps
    <2>3. /\ job[p].expected + 1 \in Versions
          /\ Committed(Mine(p)) = 1 .. job[p].expected
          /\ Mine(p)[Dir(job[p].expected + 1)] \in {NoFile, job[p].key}
      BY <1>3, <1>5, ReadableHas DEF MayAppend
    <2>4. \A n \in Committed(Mine(p)) : Mine(p)[Event(n)] # job[p].key
      BY <1>5 DEF Replay
    <2>5. AppendInv(p)'
      BY <1>1, <1>2, <2>1, <2>2, <2>3, <2>4 DEF AppendInv, Mine, AppendSteps, configVars
    <2>6. CallInv(p)'
      BY <1>1, <2>1, <2>2, <2>5 DEF CallInv, JobInv, LockInv, RebuildInv, MoveInv, AppendSteps,
                                    MoveSteps, locks
    <2> QED
      BY <1>1, <2>1, <2>2, <2>6, QuietStep
  <1>6. CASE Replay(p) = {} /\ ~MayAppend(p)
    <2>1. End(p) /\ UNCHANGED receipts
      BY <1>6 DEF Scan
    <2> QED
      BY <1>1, <2>1, EndStep
  <1> QED
    BY <1>4, <1>5, <1>6

-----------------------------------------------------------------------------
(* What an append and a rebuild write                                      *)

\* The version directory goes to the configured root, behind the chain.
LEMMA PlaceVersionStep ==
    ASSUME IInv, NEW p \in Procs, PlaceVersion(p)
    PROVE  IInv'
  <1> DEFINE t    == tree[config]
             n    == job[p].expected
             next == job[p].expected + 1
             k    == job[p].key
             u    == [t EXCEPT ![Dir(next)] = k]
  <1>1. pc[p] = "version" /\ CallInv(p)
    BY DEF PlaceVersion, IInv
  <1>2. job[p] \in AppendJobs /\ config = job[p].root /\ n \in Versions /\ k \in Nat \ {0, 1}
    BY <1>1 DEF CallInv, JobInv, AppendInv, AppendSteps, AppendJobs
  <1>3. /\ next \in Versions /\ Committed(t) = 1 .. n /\ t[Dir(next)] \in {NoFile, k}
        /\ \A m \in Committed(t) : t[Event(m)] # k
    BY <1>1, <1>2 DEF CallInv, AppendInv
  <1>4. /\ tree' = [tree EXCEPT ![config][Dir(next)] = k] /\ Goto(p, "event")
        /\ UNCHANGED <<configVars, locks, job, snap, receipts, calls, bounds>>
    BY <1>2 DEF PlaceVersion, PutFile
  <1>5. config \in Roots /\ tree \in [Roots -> Trees] /\ t \in Trees /\ IsReadable(t)
    BY DEF IInv, Types, StoreTypes, StoreInv, ConfigNamesAStore
  <1>6. tree'[config] = u /\ \A r \in Roots \ {config} : tree'[r] = tree[r]
    BY <1>4, <1>5
  <1>7. config' = config
    BY <1>4 DEF configVars
  <1>8. /\ \A f \in Files : f # Dir(next) => u[f] = t[f]
        /\ u[Dir(next)] = k /\ u \in Trees
    <2>1. k \in Int /\ Dir(next) \in Files
      BY <1>2, <1>3, FileNames
    <2> QED
      BY <1>5, <2>1 DEF Trees
  <1>9. IsReadable(u) /\ Committed(u) = 1 .. n
    BY <1>2, <1>3, <1>5, PutDir
  <1>10. OthersStay(p) /\ CallTypes' /\ pc'[p] = "event"
    BY <1>4, Going DEF Steps, AppendSteps
  <1>11. AppendInv(p)'
    BY <1>2, <1>3, <1>4, <1>6, <1>7, <1>8, <1>9, <1>10 DEF AppendInv, AppendSteps
  <1>12. CallInv(p)'
    BY <1>1, <1>4, <1>10, <1>11 DEF CallInv, JobInv, LockInv, RebuildInv, MoveInv, AppendSteps,
                                    MoveSteps, locks
  <1>13. lock[config] = p
    BY <1>1, <1>2 DEF CallInv, LockInv, AppendSteps
  <1>14. \A q \in Procs \ {p} : CallInv(q)'
    <2>1. \A r \in Roots : lock[r] # p => tree'[r] = tree[r]
      BY <1>6, <1>13
    <2>2. \A r \in Roots : r = config \/ (Left(r) => Left(r)')
      BY <1>6 DEF Left
    <2> QED
      BY <1>4, <1>10, <2>1, <2>2, Frame
  <1>15. StoreTypes'
    BY <1>4, <1>5, <1>6, <1>7, <1>8 DEF IInv, Types, StoreTypes, configVars
  <1>16. ASSUME NEW m \in Versions, m # next PROVE t[Dir(m)] # k
    <2>1. \A i \in 1 .. n : t[Event(i)] = t[Dir(i)]
      BY <1>2, <1>3, <1>5, ReadableIs
    <2>2. \A i \in Versions : i > n + 1 => ~Has(t, Dir(i))
      BY <1>2, <1>3, <1>5, ReadableIs
    <2>3. m \in 1 .. n \/ m > n + 1
      BY <1>2, <1>16, FileNames
    <2>4. CASE m \in 1 .. n
      BY <1>3, <2>1, <2>4
    <2>5. CASE m > n + 1
      BY <1>2, <2>2, <2>5 DEF Has, NoFile
    <2> QED
      BY <2>3, <2>4, <2>5
  <1>17. KeysInv'
    <2> SUFFICES ASSUME NEW i \in Versions, NEW j \in Versions,
                        Has(u, Dir(i)), u[Dir(i)] = u[Dir(j)]
                 PROVE  i = j
      BY <1>6, <1>7 DEF KeysInv
    <2>1. \A m \in Versions : m # next => u[Dir(m)] = t[Dir(m)]
      BY <1>3, <1>8, FileNames
    <2>2. KeysInv
      BY DEF IInv, StoreInv
    <2> QED
      BY <1>8, <1>16, <2>1, <2>2 DEF KeysInv, Has
  <1>18. ReceiptsMoveAlong'
    <2> SUFFICES ASSUME NEW c \in receipts
                 PROVE  u[Event(c.ver)] = c.key /\ u[Dir(c.ver)] = c.key
      BY <1>4, <1>6, <1>7 DEF ReceiptsMoveAlong
    <2>1. /\ c.ver \in Versions /\ c.key # NoFile
          /\ t[Event(c.ver)] = c.key /\ t[Dir(c.ver)] = c.key
      BY DEF IInv, Types, StoreTypes, StoreInv, ReceiptsMoveAlong, NoFile
    <2>2. c.ver \in Committed(t)
      BY <2>1 DEF Committed, Has
    <2>3. c.ver # next
      BY <1>2, <1>3, <2>2, FileNames
    <2> QED
      BY <1>3, <1>8, <2>1, <2>3, FileNames
  <1>19. ASSUME NEW r \in Roots PROVE PartInv(r)'
    <2>1. PartInv(r)
      BY DEF IInv, StoreInv
    <2>2. CASE r = config
      BY <1>7, <2>2 DEF PartInv
    <2>3. CASE r # config
      BY <1>3, <1>6, <1>7, <1>8, <2>1, <2>3 DEF PartInv
    <2> QED
      BY <2>2, <2>3
  <1>20. StoreInv'
    BY <1>6, <1>7, <1>9, <1>17, <1>18, <1>19 DEF StoreInv, ConfigNamesAStore
  <1> QED
    BY <1>12, <1>14, <1>15, <1>10, <1>20 DEF IInv, Types

\* The event file commits the version.
LEMMA PlaceEventStep ==
    ASSUME IInv, NEW p \in Procs, PlaceEvent(p)
    PROVE  IInv'
  <1> DEFINE t    == tree[config]
             n    == job[p].expected
             next == job[p].expected + 1
             k    == job[p].key
             u    == [t EXCEPT ![Event(next)] = k]
  <1>1. pc[p] = "event" /\ CallInv(p)
    BY DEF PlaceEvent, IInv
  <1>2. job[p] \in AppendJobs /\ config = job[p].root /\ n \in Versions /\ k \in Nat \ {0, 1}
    BY <1>1 DEF CallInv, JobInv, AppendInv, AppendSteps, AppendJobs
  <1>3. next \in Versions /\ Committed(t) = 1 .. n /\ t[Dir(next)] = k
    BY <1>1, <1>2 DEF CallInv, AppendInv
  <1>4. /\ tree' = [tree EXCEPT ![config][Event(next)] = k] /\ Goto(p, "project")
        /\ UNCHANGED <<configVars, locks, job, snap, receipts, calls, bounds>>
    BY <1>2 DEF PlaceEvent, PutFile
  <1>5. config \in Roots /\ tree \in [Roots -> Trees] /\ t \in Trees /\ IsReadable(t)
    BY DEF IInv, Types, StoreTypes, StoreInv, ConfigNamesAStore
  <1>6. tree'[config] = u /\ \A r \in Roots \ {config} : tree'[r] = tree[r]
    BY <1>4, <1>5
  <1>7. config' = config
    BY <1>4 DEF configVars
  <1>8. /\ \A f \in Files : f # Event(next) => u[f] = t[f]
        /\ u[Event(next)] = k /\ u \in Trees
    <2>1. k \in Int /\ Event(next) \in Files
      BY <1>2, <1>3, FileNames
    <2> QED
      BY <1>5, <2>1 DEF Trees
  <1>9. IsReadable(u) /\ Committed(u) = 1 .. n + 1
    BY <1>2, <1>3, <1>5, PutEvent
  <1>10. OthersStay(p) /\ CallTypes' /\ pc'[p] = "project"
    BY <1>4, Going DEF Steps, AppendSteps
  <1>11. \A m \in Versions : u[Dir(m)] = t[Dir(m)]
    BY <1>3, <1>8, FileNames
  <1>12. CallInv(p)'
    <2>1. AppendInv(p)'
      BY <1>2, <1>3, <1>4, <1>6, <1>7, <1>8, <1>10, <1>11 DEF AppendInv, AppendSteps
    <2> QED
      BY <1>1, <1>4, <1>10, <2>1 DEF CallInv, JobInv, LockInv, RebuildInv, MoveInv, AppendSteps,
                                     MoveSteps, locks
  <1>13. lock[config] = p
    BY <1>1, <1>2 DEF CallInv, LockInv, AppendSteps
  <1>14. \A q \in Procs \ {p} : CallInv(q)'
    <2>1. \A r \in Roots : lock[r] # p => tree'[r] = tree[r]
      BY <1>6, <1>13
    <2>2. \A r \in Roots : r = config \/ (Left(r) => Left(r)')
      BY <1>6 DEF Left
    <2> QED
      BY <1>4, <1>10, <2>1, <2>2, Frame
  <1>15. StoreTypes'
    BY <1>4, <1>5, <1>6, <1>7, <1>8 DEF IInv, Types, StoreTypes, configVars
  <1>16. t[Event(next)] = NoFile
    <2>1. next \notin Committed(t)
      BY <1>2, <1>3, FileNames
    <2> QED
      BY <1>3, <2>1 DEF Committed, Has
  <1>17. KeysInv'
    <2>1. \A m \in Versions : tree'[config'][Dir(m)] = tree[config][Dir(m)]
      BY <1>6, <1>7, <1>11
    <2>2. KeysInv
      BY DEF IInv, StoreInv
    <2> QED
      BY <2>1, <2>2 DEF KeysInv, Has
  <1>18. ReceiptsMoveAlong'
    <2> SUFFICES ASSUME NEW c \in receipts
                 PROVE  u[Event(c.ver)] = c.key /\ u[Dir(c.ver)] = c.key
      BY <1>4, <1>6, <1>7 DEF ReceiptsMoveAlong
    <2>1. /\ c.ver \in Versions /\ c.key # NoFile
          /\ t[Event(c.ver)] = c.key /\ t[Dir(c.ver)] = c.key
      BY DEF IInv, Types, StoreTypes, StoreInv, ReceiptsMoveAlong, NoFile
    <2> QED
      BY <1>3, <1>8, <1>11, <1>16, <2>1, FileNames
  <1>19. ASSUME NEW r \in Roots PROVE PartInv(r)'
    <2>1. PartInv(r)
      BY DEF IInv, StoreInv
    <2>2. CASE r = config
      BY <1>7, <2>2 DEF PartInv
    <2>3. CASE r # config
      BY <1>6, <1>7, <1>8, <1>16, <2>1, <2>3 DEF PartInv
    <2> QED
      BY <2>2, <2>3
  <1>20. StoreInv'
    BY <1>6, <1>7, <1>9, <1>17, <1>18, <1>19 DEF StoreInv, ConfigNamesAStore
  <1> QED
    BY <1>12, <1>14, <1>15, <1>10, <1>20 DEF IInv, Types

\* capture.yaml of a readable tree is written anew, and the call ends.
LEMMA ProjectionStep ==
    ASSUME IInv, NEW p \in Procs, End(p), UNCHANGED configVars,
           NEW r \in Roots, lock[r] = p, r = config \/ Left(r)', NEW v \in Nat,
           tree' = [tree EXCEPT ![r][Projection] = v],
           \A c \in receipts' \ receipts :
               /\ c.key \in Nat \ {0} /\ c.ver \in Versions
               /\ tree[config][Event(c.ver)] = c.key /\ tree[config][Dir(c.ver)] = c.key
    PROVE  IInv'
  <1> DEFINE u == [tree[r] EXCEPT ![Projection] = v]
  <1>1. OthersStay(p) /\ CallInv(p)' /\ CallTypes'
    BY Ended
  <1>2. config \in Roots /\ tree \in [Roots -> Trees] /\ \A d \in Roots : tree[d] \in Trees
    BY DEF IInv, Types, StoreTypes
  <1>3. tree'[r] = u /\ \A d \in Roots \ {r} : tree'[d] = tree[d]
    BY <1>2
  <1>4. /\ u \in Trees /\ (IsReadable(u) <=> IsReadable(tree[r]))
        /\ \A f \in Files \ {Projection} : u[f] = tree[r][f]
    <2>1. u \in Trees
      <3>1. v \in Int /\ tree[r] \in Trees
        BY <1>2
      <3> QED
        BY <3>1 DEF Trees
    <2>2. tree[r] \in Trees /\ u = [tree[r] EXCEPT ![Projection] = v]
      BY <1>2
    <2> HIDE DEF u
    <2> QED
      BY <2>1, <2>2, PutProjection
  <1>5. \A d \in Roots : /\ IsReadable(tree'[d]) <=> IsReadable(tree[d])
                         /\ \A f \in Files \ {Projection} : tree'[d][f] = tree[d][f]
    BY <1>3, <1>4
  <1>6. config' = config
    BY DEF configVars
  <1>7. \A q \in Procs \ {p} : CallInv(q)'
    <2>1. \A d \in Roots : lock[d] # p => tree'[d] = tree[d]
      BY <1>3
    <2>2. \A d \in Roots : d = config \/ (Left(d) => Left(d)')
      BY <1>3 DEF Left
    <2> QED
      BY <1>1, <2>1, <2>2, Frame
  <1>8. \A m \in Versions : /\ tree'[config][Event(m)] = tree[config][Event(m)]
                            /\ tree'[config][Dir(m)] = tree[config][Dir(m)]
    BY <1>2, <1>5, FileNames
  <1>9. StoreTypes'
    BY <1>2, <1>3, <1>4 DEF IInv, Types, StoreTypes, configVars
  <1>10. ConfigNamesAStore'
    BY <1>2, <1>5, <1>6 DEF IInv, StoreInv, ConfigNamesAStore
  <1>11. KeysInv'
    BY <1>6, <1>8 DEF IInv, StoreInv, KeysInv, Has
  <1>12. ReceiptsMoveAlong'
    BY <1>6, <1>8 DEF IInv, Types, StoreTypes, StoreInv, ReceiptsMoveAlong
  <1>13. \A d \in Roots : PartInv(d)'
    BY <1>2, <1>5, <1>6 DEF IInv, StoreInv, PartInv
  <1> QED
    BY <1>1, <1>7, <1>9, <1>10, <1>11, <1>12, <1>13 DEF IInv, Types, StoreInv

\* capture.yaml of the configured root is brought up to date.
LEMMA ProjectStep ==
    ASSUME IInv, NEW p \in Procs, Project(p)
    PROVE  IInv'
  <1> DEFINE next == job[p].expected + 1
             new  == {[key |-> job[p].key, ver |-> next]}
  <1>1. pc[p] = "project" /\ CallInv(p)
    BY DEF Project, IInv
  <1>2. job[p] \in AppendJobs /\ config = job[p].root /\ job[p].key \in Nat \ {0, 1}
    BY <1>1 DEF CallInv, JobInv, AppendInv, AppendSteps, AppendJobs
  <1>3. /\ next \in Versions
        /\ tree[config][Dir(next)] = job[p].key /\ tree[config][Event(next)] = job[p].key
    BY <1>1, <1>2 DEF CallInv, AppendInv
  <1>4. config \in Roots /\ lock[config] = p /\ next \in Nat
    BY <1>1, <1>2, <1>3, FileNames DEF CallInv, LockInv, AppendSteps, IInv, Types, StoreTypes
  <1>5. End(p) /\ UNCHANGED configVars /\ receipts' = receipts \cup new
    BY DEF Project
  <1>6. \A c \in receipts' \ receipts :
           /\ c.key \in Nat \ {0} /\ c.ver \in Versions
           /\ tree[config][Event(c.ver)] = c.key /\ tree[config][Dir(c.ver)] = c.key
    BY <1>2, <1>3, <1>5
  <1> HIDE DEF new, next
  <1>7. CASE tree' = [tree EXCEPT ![config][Projection] = next]
    BY <1>4, <1>5, <1>6, <1>7, ProjectionStep
  <1>8. CASE UNCHANGED tree
    BY <1>5, <1>6, <1>8, ReceiptsStep
  <1> QED
    BY <1>2, <1>7, <1>8 DEF Project, next

\* A rebuild writes to the configured root, or changes nothing in one that was left.
LEMMA RebuildStep ==
    ASSUME IInv, NEW p \in Procs, Rebuild(p)
    PROVE  IInv'
  <1>1. pc[p] = "rebuild" /\ CallInv(p) /\ End(p) /\ UNCHANGED <<configVars, receipts>>
    BY DEF Rebuild, IInv
  <1>2. PICK r \in Roots : r = job[p].root
    BY <1>1 DEF CallInv, JobInv, RebuildJobs
  <1>3. lock[r] = p /\ (r = config \/ Left(r)) /\ Mine(p) = tree[r]
    BY <1>1, <1>2 DEF CallInv, JobInv, LockInv, RebuildInv, Mine
  <1>4. CASE IsReadable(tree[r])
    <2>1. PICK c \in Versions : c = Current(tree[r]) /\ Committed(tree[r]) = 1 .. c
      BY <1>4, ReadableHas
    <2>2. tree' = [tree EXCEPT ![r][Projection] = c]
      BY <1>2, <1>3, <1>4, <2>1 DEF Rebuild
    <2>3. tree \in [Roots -> Trees] /\ tree[r] \in Trees
      BY <1>2 DEF IInv, Types, StoreTypes
    <2>4. tree'[r] = [tree[r] EXCEPT ![Projection] = c]
      BY <1>2, <2>2, <2>3
    <2>5. tree'[r][Projection] = c
      BY <2>3, <2>4, FileNames DEF Trees
    <2>6. Committed(tree'[r]) = Committed(tree[r])
      BY <2>3, <2>4, PutProjection
    <2>7. Left(r)'
      BY <2>1, <2>5, <2>6 DEF Left
    <2>8. receipts' \ receipts = {} /\ c \in Nat
      BY <1>1, FileNames
    <2> QED
      BY <1>1, <1>3, <2>2, <2>7, <2>8, ProjectionStep
  <1>5. CASE ~IsReadable(tree[r])
    BY <1>1, <1>3, <1>5, EndStep DEF Rebuild
  <1> QED
    BY <1>4, <1>5

-----------------------------------------------------------------------------
(* A migration's steps up to the copy                                      *)

\* What a migration goes by: its record and the locks it has by this step.
LEMMA Moving ==
    ASSUME IInv, NEW p \in Procs, pc[p] \in MoveSteps \cup {"init"}
    PROVE  /\ job[p] \in MigrateJobs /\ job[p].source # job[p].target
           /\ job[p].source \in Roots /\ job[p].target \in Roots
           /\ LockInv(p) /\ MoveInv(p)
  BY DEF IInv, CallInv, JobInv, MigrateJobs

\* A step whose call is a migration still has nothing of an append's to keep.
LEMMA MovingOn ==
    ASSUME IInv, NEW p \in Procs, job[p] \in MigrateJobs, job[p].source # job[p].target,
           UNCHANGED job, pc'[p] \in MoveSteps, LockInv(p)', MoveInv(p)'
    PROVE  CallInv(p)'
  BY DEF CallInv, JobInv, AppendInv, RebuildInv, MoveSteps, AppendSteps

\* The initialization lock: nobody else replaces the configuration from here on.
LEMMA AcquireInitStep ==
    ASSUME IInv, NEW p \in Procs, AcquireInit(p)
    PROVE  IInv'
  <1>1. pc[p] = "init" /\ initLock = Nobody /\ UNCHANGED <<configVars, tree, receipts>>
    BY DEF AcquireInit, Quiet
  <1>2. /\ job[p] \in MigrateJobs /\ job[p].source # job[p].target
        /\ LockInv(p) /\ MoveInv(p)
    BY <1>1, Moving
  <1>3. CASE edition = job[p].edition
    <2>1. initLock' = p /\ Goto(p, "source") /\ UNCHANGED <<lock, job, snap>>
      BY <1>3 DEF AcquireInit
    <2>2. Nobody \notin Procs
      BY MigrationAssumption
    <2>3. OthersStay(p) /\ CallTypes' /\ pc'[p] = "source"
      BY <1>1, <2>1, <2>2 DEF OthersStay, IInv, Types, CallTypes, Goto, Steps, MoveSteps
    <2>4. LockInv(p)'
      BY <2>1, <2>3 DEF LockInv, MoveSteps, AppendSteps
    <2>5. MoveInv(p)'
      BY <1>1, <1>2, <1>3, <2>1, <2>3 DEF MoveInv, MoveSteps, configVars
    <2>6. pc'[p] \in MoveSteps
      BY <2>3 DEF MoveSteps
    <2>7. CallInv(p)'
      BY <1>2, <2>1, <2>4, <2>5, <2>6, MovingOn
    <2> QED
      BY <1>1, <2>3, <2>7, QuietStep
  <1>4. CASE edition # job[p].edition
    BY <1>1, <1>4, EndStep DEF AcquireInit
  <1> QED
    BY <1>3, <1>4

\* The write lock of the source keeps it as it is.
LEMMA AcquireSourceStep ==
    ASSUME IInv, NEW p \in Procs, AcquireSource(p)
    PROVE  IInv'
  <1>1. pc[p] = "source" /\ UNCHANGED <<configVars, tree, receipts, job, snap>>
    BY DEF AcquireSource, Quiet
  <1>2. /\ job[p] \in MigrateJobs /\ job[p].source # job[p].target
        /\ job[p].source \in Roots /\ LockInv(p) /\ MoveInv(p)
    BY <1>1, Moving DEF MoveSteps
  <1>3. Acquire(p, job[p].source, "validate")
    BY DEF AcquireSource
  <1>4. "validate" \in Steps
    BY DEF Steps, MoveSteps
  <1>5. OthersStay(p) /\ CallTypes' /\ pc'[p] = "validate" /\ lock'[job[p].source] = p
    BY <1>1, <1>2, <1>3, <1>4, Acquired
  <1>6. initLock' = initLock
    BY <1>3 DEF Acquire
  <1>7. LockInv(p)'
    BY <1>1, <1>2, <1>5, <1>6 DEF LockInv, MoveSteps, AppendSteps
  <1>8. MoveInv(p)'
    BY <1>1, <1>2, <1>5 DEF MoveInv, MoveSteps, configVars
  <1>9. CallInv(p)'
    BY <1>1, <1>2, <1>5, <1>7, <1>8, MovingOn DEF MoveSteps
  <1> QED
    BY <1>1, <1>5, <1>9, QuietStep

\* The source is valid, and its snapshot is what it holds.
LEMMA ValidateSourceStep ==
    ASSUME IInv, NEW p \in Procs, ValidateSource(p)
    PROVE  IInv'
  <1> DEFINE ok == /\ Validated(tree[job[p].source])
                   /\ job[p].again
                         \/ IsPartOf(tree[job[p].target], tree[job[p].source])
  <1>1. pc[p] = "validate" /\ UNCHANGED <<configVars, tree, receipts>>
    BY DEF ValidateSource, Quiet
  <1>2. /\ job[p] \in MigrateJobs /\ job[p].source # job[p].target
        /\ job[p].source \in Roots /\ LockInv(p) /\ MoveInv(p)
    BY <1>1, Moving DEF MoveSteps
  <1>3. CASE ok
    <2>1. /\ snap' = [snap EXCEPT ![p] = tree[job[p].source]]
          /\ Goto(p, "target") /\ UNCHANGED <<locks, job>>
      BY <1>3 DEF ValidateSource
    <2>2. OthersStay(p) /\ CallTypes' /\ pc'[p] = "target" /\ snap'[p] = tree[job[p].source]
      BY <1>2, <2>1 DEF OthersStay, IInv, Types, StoreTypes, CallTypes, Goto, Steps, MoveSteps,
                        locks
    <2>3. LockInv(p)'
      BY <1>1, <1>2, <2>1, <2>2 DEF LockInv, MoveSteps, AppendSteps, locks
    <2>4. MoveInv(p)'
      BY <1>1, <1>2, <1>3, <2>1, <2>2 DEF MoveInv, MoveSteps, configVars
    <2>5. CallInv(p)'
      BY <1>2, <2>1, <2>2, <2>3, <2>4, MovingOn DEF MoveSteps
    <2> QED
      BY <1>1, <2>2, <2>5, QuietStep
  <1>4. CASE ~ok
    BY <1>1, <1>4, EndStep DEF ValidateSource
  <1> QED
    BY <1>3, <1>4

\* The write lock of the target.
LEMMA AcquireTargetStep ==
    ASSUME IInv, NEW p \in Procs, AcquireTarget(p)
    PROVE  IInv'
  <1> DEFINE s == IF job[p].again THEN "verify" ELSE "compare"
  <1>1. pc[p] = "target" /\ UNCHANGED <<configVars, tree, receipts, job, snap>>
    BY DEF AcquireTarget, Quiet
  <1>2. /\ job[p] \in MigrateJobs /\ job[p].source # job[p].target
        /\ job[p].source \in Roots /\ job[p].target \in Roots /\ LockInv(p) /\ MoveInv(p)
    BY <1>1, Moving DEF MoveSteps
  <1>3. Acquire(p, job[p].target, s) /\ s \in MoveSteps /\ s \in Steps
    BY DEF AcquireTarget, Steps, MoveSteps
  <1>4. (s = "verify" /\ job[p].again) \/ (s = "compare" /\ ~job[p].again)
    BY <1>2 DEF MigrateJobs
  <1> HIDE DEF s
  <1>5. /\ OthersStay(p) /\ CallTypes' /\ pc'[p] = s /\ lock'[job[p].target] = p
        /\ \A d \in Roots : lock[d] = p => lock'[d] = p
    BY <1>1, <1>2, <1>3, Acquired
  <1>6. initLock' = initLock
    BY <1>3 DEF Acquire
  <1>7. LockInv(p)'
    BY <1>1, <1>2, <1>4, <1>5, <1>6 DEF LockInv, MoveSteps, AppendSteps
  <1>8. MoveInv(p)'
    BY <1>1, <1>2, <1>4, <1>5 DEF MoveInv, MoveSteps, configVars
  <1>9. CallInv(p)'
    BY <1>1, <1>2, <1>3, <1>5, <1>7, <1>8, MovingOn
  <1> QED
    BY <1>1, <1>5, <1>9, QuietStep

\* A migration that goes on with the locks it has.
LEMMA MoveStep ==
    ASSUME IInv, NEW p \in Procs, NEW s \in MoveSteps \ {"source"},
           pc[p] \in {"compare", "copy", "verify"}, Goto(p, s),
           UNCHANGED <<locks, job, snap>>, UNCHANGED <<configVars, tree, receipts>>,
           pc'[p] = s => MoveInv(p)'
    PROVE  IInv'
  <1>1. OthersStay(p) /\ CallTypes' /\ pc'[p] = s
    BY Going DEF Steps
  <1>2. job[p] \in MigrateJobs /\ job[p].source # job[p].target /\ LockInv(p)
    BY Moving DEF MoveSteps
  <1>3. LockInv(p)'
    BY <1>1, <1>2 DEF LockInv, MoveSteps, AppendSteps, locks
  <1>4. CallInv(p)'
    BY <1>1, <1>2, <1>3, MovingOn
  <1> QED
    BY <1>1, <1>4, QuietStep

\* A target that is not part of the snapshot is refused.
LEMMA CompareTargetStep ==
    ASSUME IInv, NEW p \in Procs, CompareTarget(p)
    PROVE  IInv'
  <1>1. pc[p] = "compare" /\ UNCHANGED <<configVars, tree, receipts>>
    BY DEF CompareTarget, Quiet
  <1>2. MoveInv(p)
    BY <1>1, Moving DEF MoveSteps
  <1>3. CASE IsPartOf(tree[job[p].target], snap[p])
    <2>1. Goto(p, "copy") /\ UNCHANGED <<locks, job, snap>>
      BY <1>3 DEF CompareTarget
    <2>2. pc'[p] = "copy" => MoveInv(p)'
      BY <1>1, <1>2, <1>3, <2>1 DEF MoveInv, MoveSteps, configVars
    <2>3. "copy" \in MoveSteps \ {"source"}
      BY DEF MoveSteps
    <2> QED
      BY <1>1, <2>1, <2>2, <2>3, MoveStep
  <1>4. CASE ~IsPartOf(tree[job[p].target], snap[p])
    BY <1>1, <1>4, EndStep DEF CompareTarget
  <1> QED
    BY <1>3, <1>4

\* A target in which nothing is missing and nothing differs is the snapshot.
LEMMA CopyDoneStep ==
    ASSUME IInv, NEW p \in Procs, CopyDone(p)
    PROVE  IInv'
  <1>1. pc[p] = "copy" /\ UNCHANGED <<configVars, tree, receipts>>
    BY DEF CopyDone, Quiet
  <1>2. MoveInv(p)
    BY <1>1, Moving DEF MoveSteps
  <1>3. CASE tree[job[p].target] = snap[p]
    <2>1. Goto(p, "verify") /\ UNCHANGED <<locks, job, snap>>
      BY <1>3 DEF CopyDone
    <2>2. pc'[p] = "verify" => MoveInv(p)'
      BY <1>1, <1>2, <1>3, <2>1 DEF MoveInv, MoveSteps, configVars
    <2>3. "verify" \in MoveSteps \ {"source"}
      BY DEF MoveSteps
    <2> QED
      BY <1>1, <2>1, <2>2, <2>3, MoveStep
  <1>4. CASE tree[job[p].target] # snap[p]
    BY <1>1, <1>4, EndStep DEF CopyDone
  <1> QED
    BY <1>3, <1>4

\* A target that is not valid is refused.
LEMMA VerifyTargetStep ==
    ASSUME IInv, NEW p \in Procs, VerifyTarget(p)
    PROVE  IInv'
  <1>1. pc[p] = "verify" /\ UNCHANGED <<configVars, tree, receipts>>
    BY DEF VerifyTarget, Quiet
  <1>2. MoveInv(p) /\ job[p] \in MigrateJobs
    BY <1>1, Moving DEF MoveSteps
  <1>3. CASE Validated(tree[job[p].target])
    <2>1. PICK s \in {"report", "switch"} : s = IF job[p].again THEN "report" ELSE "switch"
      OBVIOUS
    <2>2. Goto(p, s) /\ UNCHANGED <<locks, job, snap>>
      BY <1>3, <2>1 DEF VerifyTarget
    <2>3. (s = "report" /\ job[p].again) \/ (s = "switch" /\ ~job[p].again)
      BY <1>2, <2>1 DEF MigrateJobs
    <2>4. pc'[p] = s => MoveInv(p)'
      BY <1>1, <1>2, <2>2, <2>3 DEF MoveInv, MoveSteps, configVars
    <2>5. s \in MoveSteps \ {"source"}
      BY DEF MoveSteps
    <2> QED
      BY <1>1, <2>2, <2>4, <2>5, MoveStep
  <1>4. CASE ~Validated(tree[job[p].target])
    BY <1>1, <1>4, EndStep DEF VerifyTarget
  <1> QED
    BY <1>3, <1>4

-----------------------------------------------------------------------------
(* The copy                                                                *)

\* No file of a validated tree is torn.
LEMMA ValidatedWhole ==
    ASSUME NEW t, Validated(t), NEW f \in Files
    PROVE  t[f] # Torn
  <1>1. Current(t) \in Versions /\ IsReadable(t) /\ t[Projection] = Current(t)
    BY ReadableHas DEF Validated
  <1>2. f = Projection \/ \E n \in Versions : f = Event(n) \/ f = Dir(n)
    <2>1. f \in Int /\ f >= 0 /\ f <= 2 * MaxVersions /\ MaxVersions \in Nat
      BY MigrationAssumption DEF Files
    <2>2. CASE f = 0
      BY <2>2 DEF Projection
    <2>3. CASE f \in 1 .. MaxVersions
      BY <2>3 DEF Versions, Event
    <2>4. CASE f > MaxVersions
      <3>1. f - MaxVersions \in Versions /\ Dir(f - MaxVersions) = f
        BY <2>1, <2>4 DEF Versions, Dir
      <3> QED
        BY <3>1
    <2> QED
      BY <2>1, <2>2, <2>3, <2>4
  <1>3. CASE f = Projection
    BY <1>1, <1>3 DEF Versions, Torn
  <1>4. CASE \E n \in Versions : f = Event(n) \/ f = Dir(n)
    BY <1>1, <1>4, ReadableWhole
  <1> QED
    BY <1>2, <1>3, <1>4

\* A copy into a root that is not the configured one: its capture.yaml and its
\* events, where it shows its newest version, are there already.
LEMMA CopyStep ==
    ASSUME IInv, NEW p \in Procs, NEW r \in Roots, lock[r] = p, r # config,
           NEW f \in Files, NEW v \in Int, tree' = [tree EXCEPT ![r][f] = v],
           NEW s \in Steps, Goto(p, s),
           UNCHANGED <<configVars, locks, job, snap, receipts>>,
           v \in {NoFile, Torn, tree[config][f]},
           Left(r) => Left(r)', pc'[p] = s => CallInv(p)'
    PROVE  IInv'
  <1>1. OthersStay(p) /\ CallTypes' /\ pc'[p] = s
    BY Going
  <1>2. config \in Roots /\ tree \in [Roots -> Trees] /\ \A d \in Roots : tree[d] \in Trees
    BY DEF IInv, Types, StoreTypes
  <1>3. tree'[r] = [tree[r] EXCEPT ![f] = v] /\ \A d \in Roots \ {r} : tree'[d] = tree[d]
    BY <1>2
  <1>4. tree'[r] \in Trees /\ tree'[r][f] = v /\ \A g \in Files \ {f} : tree'[r][g] = tree[r][g]
    BY <1>2, <1>3 DEF Trees
  <1>5. config' = config /\ tree'[config] = tree[config] /\ edition' = edition
    BY <1>2, <1>3 DEF configVars
  <1>6. \A q \in Procs \ {p} : CallInv(q)'
    <2>1. \A d \in Roots : lock[d] # p => tree'[d] = tree[d]
      BY <1>3
    <2>2. \A d \in Roots : d = config \/ (Left(d) => Left(d)')
      BY <1>3 DEF Left
    <2> QED
      BY <1>1, <2>1, <2>2, Frame
  <1>7. StoreTypes'
    BY <1>2, <1>3, <1>4, <1>5 DEF IInv, Types, StoreTypes
  <1>8. ConfigNamesAStore' /\ KeysInv' /\ ReceiptsMoveAlong'
    BY <1>5 DEF IInv, StoreInv, ConfigNamesAStore, KeysInv, ReceiptsMoveAlong
  <1>9. ASSUME NEW d \in Roots PROVE PartInv(d)'
    <2>1. PartInv(d)
      BY DEF IInv, StoreInv
    <2>2. CASE d = r
      BY <1>4, <1>5, <2>1, <2>2 DEF PartInv
    <2>3. CASE d # r
      BY <1>3, <1>5, <2>1, <2>3 DEF PartInv
    <2> QED
      BY <2>2, <2>3
  <1> QED
    BY <1>1, <1>6, <1>7, <1>8, <1>9 DEF IInv, Types, StoreInv

\* A file of the snapshot is there, torn.
LEMMA StartCopyStep ==
    ASSUME IInv, NEW p \in Procs, StartCopy(p)
    PROVE  IInv'
  <1>1. pc[p] = "copy"
    BY DEF StartCopy
  <1>2. /\ job[p] \in MigrateJobs /\ job[p].source # job[p].target
        /\ job[p].source \in Roots /\ job[p].target \in Roots /\ LockInv(p) /\ MoveInv(p)
    BY <1>1, Moving DEF MoveSteps
  <1>3. PICK r \in Roots : r = job[p].target
    BY <1>2
  <1>4. /\ r # config /\ lock[r] = p /\ IsPartOf(tree[r], snap[p])
        /\ snap[p] = tree[config] /\ Validated(snap[p])
    BY <1>1, <1>2, <1>3 DEF LockInv, MoveInv, MoveSteps
  <1>5. PICK f \in Files : /\ Has(snap[p], f) /\ ~Has(tree[r], f)
                           /\ PutFile(p, r, f, Torn, "copying")
    BY <1>3 DEF StartCopy, Missing
  <1>6. /\ tree' = [tree EXCEPT ![r][f] = Torn] /\ Goto(p, "copying")
        /\ UNCHANGED <<configVars, locks, job, snap, receipts>>
    BY <1>5 DEF PutFile
  <1>7. /\ tree \in [Roots -> Trees] /\ tree[r] \in Trees
        /\ tree'[r] = [tree[r] EXCEPT ![f] = Torn]
        /\ \A d \in Roots \ {r} : tree'[d] = tree[d]
    BY <1>6 DEF IInv, Types, StoreTypes
  <1>8. tree'[r][f] = Torn /\ \A g \in Files \ {f} : tree'[r][g] = tree[r][g]
    BY <1>7 DEF Trees
  <1>9. ASSUME Left(r) PROVE Left(r)'
    <2>1. tree[r][Projection] \in Versions /\ Committed(tree[r]) = 1 .. tree[r][Projection]
      BY <1>9 DEF Left
    <2>2. Has(tree[r], Projection)
      BY <2>1 DEF Has, Versions, NoFile
    <2>3. f # Projection /\ snap[p][Projection] = tree[r][Projection]
      BY <1>4, <1>5, <2>2, FileNames DEF IsPartOf
    <2>4. Committed(snap[p]) = 1 .. tree[r][Projection]
      BY <1>4, <2>3, ReadableHas DEF Validated
    <2>5. ASSUME NEW n \in Versions PROVE f # Event(n)
      <3>1. Has(snap[p], Event(n)) => Has(tree[r], Event(n))
        BY <2>1, <2>4 DEF Committed
      <3> QED
        BY <1>5, <3>1
    <2>6. Committed(tree'[r]) = Committed(tree[r])
      BY <1>8, <2>5, FileNames DEF Committed, Has
    <2>7. tree'[r][Projection] = tree[r][Projection]
      BY <1>8, <2>3, FileNames
    <2> QED
      BY <2>1, <2>6, <2>7 DEF Left
  <1>10. ASSUME pc'[p] = "copying" PROVE CallInv(p)'
    <2>1. job' = job /\ snap' = snap /\ lock' = lock /\ initLock' = initLock
          /\ config' = config /\ edition' = edition
      BY <1>6 DEF configVars, locks
    <2>2. LockInv(p)'
      BY <1>1, <1>2, <1>10, <2>1 DEF LockInv, MoveSteps, AppendSteps
    <2>3. tree'[job[p].source] = tree[job[p].source]
      BY <1>2, <1>3, <1>7
    <2>4. \A g \in Files \ {f} : Has(tree'[r], g) => tree'[r][g] = snap[p][g]
      BY <1>4, <1>8 DEF IsPartOf, Has
    <2>5. MoveInv(p)'
      BY <1>1, <1>2, <1>3, <1>5, <1>8, <1>10, <2>1, <2>3, <2>4 DEF MoveInv, MoveSteps
    <2> QED
      BY <1>2, <1>10, <2>1, <2>2, <2>5, MovingOn DEF MoveSteps
  <1>11. "copying" \in Steps /\ Torn \in Int
    BY DEF Steps, MoveSteps, Torn
  <1> QED
    BY <1>4, <1>6, <1>9, <1>10, <1>11, CopyStep

\* It is whole, and is what the snapshot has.
LEMMA FinishCopyStep ==
    ASSUME IInv, NEW p \in Procs, FinishCopy(p)
    PROVE  IInv'
  <1>1. pc[p] = "copying"
    BY DEF FinishCopy
  <1>2. /\ job[p] \in MigrateJobs /\ job[p].source # job[p].target
        /\ job[p].source \in Roots /\ job[p].target \in Roots /\ LockInv(p) /\ MoveInv(p)
    BY <1>1, Moving DEF MoveSteps
  <1>3. PICK r \in Roots : r = job[p].target
    BY <1>2
  <1>4. /\ r # config /\ lock[r] = p
        /\ snap[p] = tree[config] /\ Validated(snap[p])
    BY <1>1, <1>2, <1>3 DEF LockInv, MoveInv, MoveSteps
  <1>5. PICK f \in Files : tree[r][f] = Torn /\ PutFile(p, r, f, snap[p][f], "copy")
    BY <1>3 DEF FinishCopy
  <1>6. Has(snap[p], f) /\ \A g \in Files \ {f} : Has(tree[r], g) => tree[r][g] = snap[p][g]
    <2>1. PICK h \in Files : /\ tree[r][h] = Torn /\ Has(snap[p], h)
                             /\ \A g \in Files \ {h} : Has(tree[r], g) => tree[r][g] = snap[p][g]
      BY <1>1, <1>2, <1>3 DEF MoveInv
    <2>2. CASE f # h
      <3>1. Has(tree[r], f)
        BY <1>5, FileNames DEF Has
      <3>2. snap[p][f] = Torn
        BY <1>5, <2>1, <2>2, <3>1
      <3> QED
        BY <1>4, <3>2, ValidatedWhole
    <2> QED
      BY <2>1, <2>2
  <1>7. PICK v \in Int : v = snap[p][f]
    BY DEF IInv, Types, CallTypes, Trees
  <1>8. /\ tree' = [tree EXCEPT ![r][f] = v] /\ Goto(p, "copy")
        /\ UNCHANGED <<configVars, locks, job, snap, receipts>>
    BY <1>5, <1>7 DEF PutFile
  <1>9. /\ tree \in [Roots -> Trees] /\ tree[r] \in Trees
        /\ tree'[r] = [tree[r] EXCEPT ![f] = v]
        /\ \A d \in Roots \ {r} : tree'[d] = tree[d]
    BY <1>8 DEF IInv, Types, StoreTypes
  <1>10. tree'[r][f] = v /\ \A g \in Files \ {f} : tree'[r][g] = tree[r][g]
    BY <1>9 DEF Trees
  <1>11. ASSUME Left(r) PROVE Left(r)'
    <2>1. tree[r][Projection] \in Versions /\ Committed(tree[r]) = 1 .. tree[r][Projection]
      BY <1>11 DEF Left
    <2>2. f # Projection
      BY <1>5, <2>1 DEF Versions, Torn
    <2>3. Has(tree[r], f) /\ Has(tree'[r], f)
      BY <1>5, <1>6, <1>7, <1>10, FileNames DEF Has
    <2>4. \A g \in Files : Has(tree'[r], g) <=> Has(tree[r], g)
      BY <1>10, <2>3 DEF Has
    <2>5. Committed(tree'[r]) = Committed(tree[r])
      BY <2>4, FileNames DEF Committed
    <2>6. tree'[r][Projection] = tree[r][Projection]
      BY <1>10, <2>2, FileNames
    <2> QED
      BY <2>1, <2>5, <2>6 DEF Left
  <1>12. ASSUME pc'[p] = "copy" PROVE CallInv(p)'
    <2>1. job' = job /\ snap' = snap /\ lock' = lock /\ initLock' = initLock
          /\ config' = config /\ edition' = edition
      BY <1>8 DEF configVars, locks
    <2>2. LockInv(p)'
      BY <1>1, <1>2, <1>12, <2>1 DEF LockInv, MoveSteps, AppendSteps
    <2>3. tree'[job[p].source] = tree[job[p].source]
      BY <1>2, <1>3, <1>9
    <2>4. IsPartOf(tree'[r], snap[p])
      BY <1>6, <1>7, <1>10 DEF IsPartOf, Has
    <2>5. MoveInv(p)'
      BY <1>1, <1>2, <1>3, <1>12, <2>1, <2>3, <2>4 DEF MoveInv, MoveSteps
    <2> QED
      BY <1>2, <1>12, <2>1, <2>2, <2>5, MovingOn DEF MoveSteps
  <1>13. "copy" \in Steps /\ v \in {NoFile, Torn, tree[config][f]}
    BY <1>4, <1>7 DEF Steps, MoveSteps
  <1> QED
    BY <1>4, <1>8, <1>11, <1>12, <1>13, CopyStep

-----------------------------------------------------------------------------
(* The switch                                                              *)

\* The configuration is given the target, which is what the source is: no
\* append is past its check of the binding, as the source is locked, and what
\* bound to the source has nothing left to rebuild there.
LEMMA SwitchOver ==
    ASSUME IInv, NEW p \in Procs, pc[p] = "switch", config = job[p].source,
           config' = job[p].target, edition' = edition + 1, UNCHANGED <<tree, receipts>>,
           OthersStay(p), CallTypes', CallInv(p)'
    PROVE  IInv'
  <1>1. /\ job[p].source \in Roots /\ job[p].target \in Roots
        /\ job[p].source # job[p].target /\ LockInv(p) /\ MoveInv(p)
    BY Moving DEF MoveSteps
  <1>2. /\ initLock = p /\ lock[config] = p
        /\ Validated(tree[config]) /\ tree'[config'] = tree[config]
    BY <1>1 DEF LockInv, MoveInv, MoveSteps
  <1>3. Left(config)
    BY <1>2, ReadableHas DEF Validated, Left
  <1>4. StoreTypes'
    BY <1>1 DEF IInv, Types, StoreTypes
  <1>5. StoreInv'
    BY <1>2 DEF IInv, StoreInv, ConfigNamesAStore, KeysInv, ReceiptsMoveAlong, PartInv
  <1>6. ASSUME NEW q \in Procs \ {p} PROVE CallInv(q)'
    <2>1. /\ pc'[q] = pc[q] /\ job'[q] = job[q] /\ snap'[q] = snap[q]
          /\ initLock = q => initLock' = q
          /\ \A r \in Roots : lock[r] = q => lock'[r] = q
      BY DEF OthersStay
    <2>2. CallInv(q) /\ q # p
      BY DEF IInv
    <2>3. /\ pc[q] \in AppendSteps \cup {"rebuild", "lock"} => job[q].root \in Roots
          /\ pc[q] \in MoveSteps => job[q].source \in Roots /\ job[q].target \in Roots
      BY <2>2 DEF JobInv, CallInv, AppendJobs, RebuildJobs, MigrateJobs
    <2>4. JobInv(q)'
      BY <2>1, <2>2 DEF JobInv, CallInv
    <2>5. LockInv(q)'
      BY <2>1, <2>2, <2>3 DEF LockInv, CallInv, MoveSteps
    <2>6. pc[q] \notin MoveSteps /\ pc[q] \notin AppendSteps \ {"binding"}
      BY <1>2, <2>2 DEF CallInv, LockInv, AppendInv
    <2>7. AppendInv(q)'
      BY <2>1, <2>6 DEF AppendInv, AppendSteps
    <2>8. RebuildInv(q)'
      BY <1>3, <2>1, <2>2 DEF RebuildInv, CallInv, Left
    <2>9. MoveInv(q)'
      <3>1. pc[q] = "init" => job[q].edition <= edition /\ job[q].edition \in Nat
        BY <2>2 DEF MoveInv, CallInv, JobInv, MigrateJobs
      <3>2. edition \in Nat
        BY DEF IInv, Types, StoreTypes
      <3> QED
        BY <2>1, <2>6, <3>1, <3>2 DEF MoveInv, MoveSteps
    <2> QED
      BY <2>4, <2>5, <2>7, <2>8, <2>9 DEF CallInv
  <1> QED
    BY <1>4, <1>5, <1>6 DEF IInv, Types

\* The configuration names the target, which holds all that the source does.
LEMMA SwitchStep ==
    ASSUME IInv, NEW p \in Procs, Switch(p)
    PROVE  IInv'
  <1>1. pc[p] = "switch" /\ UNCHANGED <<tree, receipts>>
    BY DEF Switch
  <1>2. /\ job[p] \in MigrateJobs /\ job[p].source # job[p].target
        /\ LockInv(p) /\ MoveInv(p)
    BY <1>1, Moving DEF MoveSteps
  <1>3. CASE config = job[p].source /\ edition = job[p].edition
    <2>1. /\ config' = job[p].target /\ edition' = edition + 1
          /\ Goto(p, "report") /\ UNCHANGED <<locks, job, snap>>
      BY <1>3 DEF Switch
    <2>2. OthersStay(p) /\ CallTypes' /\ pc'[p] = "report"
      BY <2>1, Going DEF Steps, MoveSteps
    <2>3. LockInv(p)'
      BY <1>1, <1>2, <2>1, <2>2 DEF LockInv, MoveSteps, AppendSteps, locks
    <2>4. job[p].edition \in Nat /\ edition \in Nat
      BY <1>2 DEF MigrateJobs, IInv, Types, StoreTypes
    <2>5. MoveInv(p)'
      BY <1>1, <1>2, <1>3, <2>1, <2>2, <2>4 DEF MoveInv, MoveSteps
    <2>6. CallInv(p)'
      BY <1>2, <2>1, <2>2, <2>3, <2>5, MovingOn DEF MoveSteps
    <2> QED
      BY <1>1, <1>3, <2>1, <2>2, <2>6, SwitchOver
  <1>4. CASE ~(config = job[p].source /\ edition = job[p].edition)
    BY <1>1, <1>4, EndStep DEF Switch
  <1> QED
    BY <1>3, <1>4

\* A replace that raises may have happened.
LEMMA SwitchFailsStep ==
    ASSUME IInv, NEW p \in Procs, SwitchFails(p)
    PROVE  IInv'
  <1>1. pc[p] = "switch" /\ UNCHANGED <<tree, receipts>> /\ End(p)
    BY DEF SwitchFails
  <1>2. /\ config = job[p].source
    BY <1>1, Moving DEF MoveInv, MoveSteps
  <1>3. CASE UNCHANGED configVars
    BY <1>1, <1>3, EndStep
  <1>4. CASE config' = job[p].target /\ edition' = edition + 1
    BY <1>1, <1>2, <1>4, Ended, SwitchOver
  <1> QED
    BY <1>3, <1>4 DEF SwitchFails

-----------------------------------------------------------------------------
(* Invariance                                                              *)

\* The store to begin with satisfies the invariant.
LEMMA InitInv == Init => IInv
  <1> SUFFICES ASSUME Init PROVE IInv
    OBVIOUS
  <1>1. FirstTree \in Trees /\ Empty \in Trees
    BY FileNames DEF FirstTree, Empty, Trees
  <1>2. tree[config] = FirstTree /\ config = FirstRoot /\ FirstRoot \in Roots
    BY MigrationAssumption DEF Init
  <1>3. StoreTypes
    BY <1>1, <1>2, FileNames DEF Init, StoreTypes
  <1>4. CallTypes
    BY <1>1 DEF Init, CallTypes, Steps
  <1>5. \A n \in Versions : /\ FirstTree[Event(n)] = IF n = 1 THEN 1 ELSE NoFile
                            /\ FirstTree[Dir(n)] = IF n = 1 THEN 1 ELSE NoFile
    BY FileNames DEF FirstTree
  <1>6. Committed(FirstTree) = 1 .. 1
    BY <1>5, FileNames DEF Committed, Has, NoFile
  <1>7. ConfigNamesAStore
    <2>1. \A m \in 1 .. 1 : FirstTree[Event(m)] = FirstTree[Dir(m)] /\ FirstTree[Dir(m)] # Torn
      BY <1>5, FileNames DEF Torn
    <2>2. \A m \in Versions : m > 1 + 1 => ~Has(FirstTree, Dir(m))
      BY <1>5 DEF Has
    <2>3. \A m \in Versions : m = 1 + 1 => FirstTree[Dir(m)] # Torn
      BY <1>5, FileNames
    <2>4. IsReadable(FirstTree)
      BY <1>6, <2>1, <2>2, <2>3, ReadableIs, FileNames
    <2> QED
      BY <1>2, <2>4 DEF ConfigNamesAStore
  <1>8. KeysInv
    BY <1>2, <1>5 DEF KeysInv, Has, NoFile
  <1>9. ReceiptsMoveAlong
    BY <1>2, <1>5, FileNames DEF Init, ReceiptsMoveAlong
  <1>10. \A r \in Roots : PartInv(r)
    BY <1>2 DEF Init, PartInv, Empty
  <1>11. \A p \in Procs : CallInv(p)
    BY DEF Init, CallInv, JobInv, LockInv, AppendInv, RebuildInv, MoveInv, AppendSteps,
           MoveSteps
  <1> QED
    BY <1>3, <1>4, <1>7, <1>8, <1>9, <1>10, <1>11 DEF IInv, Types, StoreInv

\* Every step keeps it.
LEMMA NextInv == IInv /\ [Next]_vars => IInv'
  <1> SUFFICES ASSUME IInv, [Next]_vars PROVE IInv'
    OBVIOUS
  <1>1. CASE UNCHANGED vars
    <2>1. UNCHANGED <<config, edition, tree, initLock, lock, pc, job, snap, receipts>>
      BY <1>1 DEF vars, configVars, locks
    <2> QED
      BY <2>1 DEF IInv, Types, StoreTypes, CallTypes, StoreInv, ConfigNamesAStore, KeysInv,
                  ReceiptsMoveAlong, PartInv, CallInv, JobInv, LockInv, AppendInv, RebuildInv,
                  MoveInv, Left
  <1>2. ASSUME NEW p \in Procs, Call(p) PROVE IInv'
    BY <1>2, CallAppendStep, CallRebuildStep, CallMigrateStep DEF Call
  <1>3. ASSUME NEW p \in Procs, Append(p) PROVE IInv'
    BY <1>3, CheckBindingStep, ScanStep, PlaceVersionStep, PlaceEventStep, ProjectStep
       DEF Append
  <1>4. ASSUME NEW p \in Procs, CopyFails(p) \/ Report(p) PROVE IInv'
    BY <1>4, EndStep DEF CopyFails, Report, Quiet
  <1>5. ASSUME NEW p \in Procs, Migrate(p) PROVE IInv'
    BY <1>4, <1>5, AcquireInitStep, AcquireSourceStep, ValidateSourceStep, AcquireTargetStep,
       CompareTargetStep, StartCopyStep, FinishCopyStep, CopyDoneStep, VerifyTargetStep,
       SwitchStep, SwitchFailsStep DEF Migrate
  <1>6. ASSUME NEW p \in Procs, Timeout(p) \/ Crash(p) PROVE IInv'
    BY <1>6, EndStep DEF Timeout, Crash
  <1>7. ASSUME NEW p \in Procs, Run(p) PROVE IInv'
    BY <1>3, <1>5, <1>7, AcquireWriteStep, RebuildStep DEF Run
  <1> QED
    BY <1>1, <1>2, <1>6, <1>7 DEF Next

\* In every reachable state the calls, the locks and the trees are as IInv
\* says.
THEOREM Invariance == Spec => []IInv
  BY InitInv, NextInv, PTL DEF Spec

\* ConfigNamesAStore: whatever a migration has done so far or leaves undone,
\* the root the configuration names is a readable store.
THEOREM ConfigStaysAStore == Spec => []ConfigNamesAStore
  <1>1. IInv => ConfigNamesAStore
    BY DEF IInv, StoreInv
  <1> QED
    BY <1>1, Invariance, PTL

\* ReceiptsMoveAlong: what was reported saved is in the store the configuration
\* names, after any number of moves.
THEOREM ReceiptsAreKept == Spec => []ReceiptsMoveAlong
  <1>1. IInv => ReceiptsMoveAlong
    BY DEF IInv, StoreInv
  <1> QED
    BY <1>1, Invariance, PTL

\* RootsDoNotFork: no two roots hold different requests as one version, or one
\* request as different versions, whatever was appended between two copies.
THEOREM NoForks == Spec => []RootsDoNotFork
  <1>1. IInv => RootsDoNotFork
    <2> SUFFICES ASSUME IInv, NEW r \in Roots, NEW s \in Roots,
                        NEW n \in Versions, NEW m \in Versions,
                        {tree[r][Dir(n)], tree[s][Dir(m)]} \cap {NoFile, Torn} = {}
                 PROVE  n = m <=> tree[r][Dir(n)] = tree[s][Dir(m)]
      BY DEF RootsDoNotFork
    <2>1. PartInv(r) /\ PartInv(s) /\ KeysInv
      BY DEF IInv, StoreInv
    <2>2. /\ tree[r][Dir(n)] = tree[config][Dir(n)]
          /\ tree[s][Dir(m)] = tree[config][Dir(m)]
      BY <2>1, FileNames DEF PartInv
    <2>3. Has(tree[config], Dir(n))
      BY <2>2 DEF Has
    <2> QED
      BY <2>1, <2>2, <2>3 DEF KeysInv
  <1> QED
    BY <1>1, Invariance, PTL

\* ReportsAreTrue: a migration that reports success has the configuration name
\* its target, with every version of the source in it.
THEOREM ReportsHold == Spec => []ReportsAreTrue
  <1>1. IInv => ReportsAreTrue
    <2> SUFFICES ASSUME IInv, NEW p \in Procs, pc[p] = "report"
                 PROVE  /\ config = job[p].target
                        /\ \A n \in Committed(tree[job[p].source]) :
                              tree[config][Dir(n)] = tree[job[p].source][Dir(n)]
      BY DEF ReportsAreTrue
    <2>1. PICK r \in Roots : r = job[p].source
      BY Moving DEF MoveSteps
    <2>2. config = job[p].target /\ Validated(tree[r])
      BY <2>1, Moving DEF MoveInv, MoveSteps
    <2>3. ASSUME NEW n \in Committed(tree[r])
          PROVE  tree[config][Dir(n)] = tree[r][Dir(n)]
      <3>1. n \in Versions /\ Has(tree[r], Dir(n)) /\ tree[r][Dir(n)] # Torn
        BY <2>2, ReadableHolds, ReadableWhole DEF Validated, Committed
      <3>2. PartInv(r)
        BY DEF IInv, StoreInv
      <3> QED
        BY <3>1, <3>2, FileNames DEF PartInv, Has
    <2> QED
      BY <2>1, <2>2, <2>3
  <1> QED
    BY <1>1, Invariance, PTL

\* Only the roots a step may write to change.
Frozen ==
    \A r \in Roots :
        tree'[r] # tree[r] =>
            \/ r = config
            \/ \E p \in Procs : /\ pc[p] \in {"copy", "copying"}
                                /\ job[p].target = r
                                /\ lock[r] = p

\* A step that puts one file changes one root.
LEMMA PutInOneRoot ==
    ASSUME IInv, NEW r \in Roots, NEW f, NEW v, tree' = [tree EXCEPT ![r][f] = v],
           \/ r = config
           \/ \E p \in Procs : /\ pc[p] \in {"copy", "copying"}
                               /\ job[p].target = r
                               /\ lock[r] = p
    PROVE  Frozen
  BY DEF Frozen, IInv, Types, StoreTypes

\* Every step leaves the roots that are not configured alone, unless it migrates.
LEMMA StepsFreeze == IInv /\ [Next]_vars => Frozen
  <1> SUFFICES ASSUME IInv, [Next]_vars PROVE Frozen
    OBVIOUS
  <1>1. CASE UNCHANGED tree
    BY <1>1 DEF Frozen
  <1>2. ASSUME NEW p \in Procs, PlaceVersion(p) \/ PlaceEvent(p) \/ Project(p)
        PROVE  Frozen
    <2>1. pc[p] \in {"version", "event", "project"} /\ CallInv(p)
      BY <1>2 DEF PlaceVersion, PlaceEvent, Project, IInv
    <2>2. job[p].root = config /\ config \in Roots
      BY <2>1 DEF CallInv, AppendInv, AppendSteps, IInv, Types, StoreTypes
    <2> QED
      BY <1>1, <1>2, <2>2, PutInOneRoot DEF PlaceVersion, PlaceEvent, Project, PutFile
  <1>3. ASSUME NEW p \in Procs, Rebuild(p) PROVE Frozen
    <2>1. pc[p] = "rebuild" /\ CallInv(p)
      BY <1>3 DEF Rebuild, IInv
    <2>2. PICK r \in Roots : r = job[p].root
      BY <2>1 DEF CallInv, JobInv, RebuildJobs
    <2>3. r = config \/ Left(r)
      BY <2>1, <2>2 DEF CallInv, RebuildInv
    <2>4. CASE tree' = [tree EXCEPT ![r][Projection] = Current(tree[r])] /\ r = config
      BY <2>4, PutInOneRoot
    <2>5. CASE tree' = [tree EXCEPT ![r][Projection] = Current(tree[r])] /\ Left(r)
      <3>1. Current(tree[r]) = tree[r][Projection]
        BY <2>5, CurrentIs DEF Left
      <3>2. tree \in [Roots -> Trees] /\ tree[r] \in Trees
        BY DEF IInv, Types, StoreTypes
      <3>3. tree'[r] = [tree[r] EXCEPT ![Projection] = tree[r][Projection]]
        BY <2>5, <3>1, <3>2
      <3>4. tree'[r] = tree[r]
        BY <3>2, <3>3 DEF Trees
      <3> QED
        BY <2>5, <3>2, <3>4 DEF Frozen
    <2> QED
      BY <1>1, <1>3, <2>2, <2>3, <2>4, <2>5 DEF Rebuild, Mine
  <1>4. ASSUME NEW p \in Procs, StartCopy(p) \/ FinishCopy(p) PROVE Frozen
    <2>1. pc[p] \in {"copy", "copying"}
      BY <1>4 DEF StartCopy, FinishCopy
    <2>2. PICK r \in Roots : r = job[p].target /\ lock[r] = p
      BY <2>1, Moving DEF LockInv, MoveSteps
    <2>3. PICK f, v : tree' = [tree EXCEPT ![r][f] = v]
      BY <1>4, <2>2 DEF StartCopy, FinishCopy, PutFile
    <2> QED
      BY <2>1, <2>2, <2>3, PutInOneRoot
  <1>5. ASSUME NEW p \in Procs, Call(p) PROVE UNCHANGED tree
    BY <1>5 DEF Call, CallAppend, CallRebuild, CallMigrate, Begin
  <1>6. ASSUME NEW p \in Procs, CheckBinding(p) \/ Scan(p) \/ AcquireWrite(p)
        PROVE  UNCHANGED tree
    BY <1>6 DEF CheckBinding, Scan, AcquireWrite, Quiet
  <1>7. ASSUME NEW p \in Procs,
               \/ AcquireInit(p) \/ AcquireSource(p) \/ ValidateSource(p) \/ AcquireTarget(p)
               \/ CompareTarget(p) \/ CopyFails(p) \/ CopyDone(p) \/ VerifyTarget(p)
               \/ Switch(p) \/ SwitchFails(p) \/ Report(p)
        PROVE  UNCHANGED tree
    BY <1>7 DEF AcquireInit, AcquireSource, ValidateSource, AcquireTarget, CompareTarget,
                CopyFails, CopyDone, VerifyTarget, Switch, SwitchFails, Report, Quiet
  <1>8. ASSUME NEW p \in Procs, Timeout(p) \/ Crash(p) PROVE UNCHANGED tree
    BY <1>8 DEF Timeout, Crash
  <1>9. CASE UNCHANGED vars
    BY <1>1, <1>9 DEF vars
  <1>10. ASSUME NEW p \in Procs, Run(p) PROVE Frozen
    BY <1>1, <1>2, <1>3, <1>4, <1>6, <1>7, <1>10 DEF Run, Append, Migrate
  <1> QED
    BY <1>1, <1>5, <1>8, <1>9, <1>10 DEF Next

\* LeftRootsAreFrozen: a root the configuration has left changes no more but by
\* a migration that copies into it; a rebuild that bound to it before the switch
\* finds nothing to change.
THEOREM LeftRootsStay == Spec => LeftRootsAreFrozen
  <1>1. IInv /\ [Next]_vars => [Frozen]_vars
    BY StepsFreeze
  <1> QED
    BY <1>1, Invariance, PTL DEF Spec, LeftRootsAreFrozen, Frozen
=============================================================================
