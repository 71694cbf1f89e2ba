------------------------ MODULE CaptureStagingProofs ------------------------
(***************************************************************************)
(* Proofs about CaptureStaging, for any set of processes and any number of *)
(* calls and I/O errors.                                                   *)
(***************************************************************************)
EXTENDS CaptureStaging, TLAPS

(* The inductive invariant                                                 *)

\* What a call does with its own tree, then with one it takes down.
Making   == {"open", "lock", "mark", "marking"}
Using    == {"fill", "wait", "recover", "openOther", "tryLock"}
Sweeping == {"body", "release", "unlease", "unmark", "rmdir"}

Shapes == [dir : BOOLEAN, marker : {"none", "torn", "whole"}, lease : BOOLEAN,
           body : BOOLEAN]

TypeOK ==
    /\ tree \in [Trees -> Shapes]
    /\ leaseOf \in [Trees -> Procs \cup {Nobody}]
    /\ handles \in [Trees -> SUBSET Procs]
    /\ storeLock \in Procs \cup {Nobody}
    /\ pc \in [Procs -> {"idle"} \cup Making \cup Using \cup Sweeping]
    /\ mine \in [Procs -> Nat]
    /\ target \in [Procs -> Nat]
    /\ todo \in [Procs -> SUBSET Trees]
    /\ due \in [Procs -> SUBSET Trees]
    /\ calls \in 0 .. MaxCalls
    /\ faults \in 0 .. MaxFaults

Live(p) == pc[p] # "idle"

\* p takes down a tree that is not its own.
Foreign(p) == pc[p] \in Sweeping /\ target[p] # mine[p]

\* p has a tree in view, its own or another's.
Aims(p) == pc[p] \in {"openOther", "tryLock"} \cup Sweeping

\* p still needs its own tree; p holds the write lock.
Needs(p)   == pc[p] \in Using \/ Foreign(p)
InStore(p) == pc[p] \in {"recover", "openOther", "tryLock"} \/ Foreign(p)

\* Trees have the numbers of calls already made, each of one call.
Numbering(p) ==
    /\ mine[p] <= calls
    /\ Live(p) => mine[p] \in Trees
    /\ Aims(p) => target[p] \in Trees /\ target[p] <= calls
    /\ pc[p] \in {"openOther", "tryLock"} => target[p] # mine[p]
    /\ \A t \in todo[p] : t <= calls
    /\ \A q \in Procs : p # q /\ Live(p) => mine[p] # mine[q]

\* Nothing exists under a number not given yet; text lies where it can be
\* reclaimed, and what a tree holds lies in its directory.
Shape(t) ==
    /\ t > calls => tree[t] = NoTree /\ leaseOf[t] = Nobody /\ handles[t] = {}
    /\ tree[t].body => Reclaimable(t)
    /\ tree[t].lease \/ tree[t].marker # "none" => tree[t].dir

OwnTree(p) ==
    LET t == mine[p]
    IN  /\ pc[p] \in Making => tree[t].dir /\ tree[t].marker # "whole"
        /\ pc[p] \in Making \ {"open"} => tree[t].lease /\ p \in handles[t]
        /\ pc[p] \in {"mark", "marking"} => leaseOf[t] = p
        /\ Needs(p) => Reclaimable(t) /\ leaseOf[t] = p /\ p \in handles[t]
        /\ Needs(p) /\ pc[p] # "fill" => tree[t].body

\* The tree in view: open and locked until its body is gone, then released
\* and unlinked by one process only.
InView(p) ==
    LET t == target[p]
    IN  /\ pc[p] = "openOther" /\ tree[t].lease => tree[t].marker = "whole"
        /\ pc[p] \in {"tryLock", "body", "release"} => Reclaimable(t) /\ p \in handles[t]
        /\ pc[p] \in {"body", "release"} => leaseOf[t] = p
        /\ pc[p] \in {"release", "unlease", "unmark", "rmdir"} => ~tree[t].body
        /\ pc[p] \in {"unmark", "rmdir"} => tree[t].dir /\ ~tree[t].lease

\* The tree that q has in view is not one that another makes, and q takes down
\* none that another needs or takes down at the same point.
Apart(p, q) ==
    /\ Aims(q) /\ target[q] = mine[p] => pc[p] \notin Making
    /\ pc[q] \in Sweeping /\ target[q] = mine[p] => ~Needs(p)
    /\ {pc[p], pc[q]} \subseteq {"unmark", "rmdir"} => target[p] # target[q]

\* The write lock, and what is still to be looked at under it.
Locking(p) ==
    /\ storeLock = p <=> InStore(p)
    /\ InStore(p) => mine[p] \notin todo[p]
    /\ InStore(p) /\ Aims(p) => target[p] \notin todo[p]

\* t is abandoned and nobody has it open.
Waiting(t) == Reclaimable(t) /\ leaseOf[t] = Nobody /\ handles[t] = {}

\* A tree that was abandoned when p took the write lock waits, or is being
\* taken down by p alone, or is gone.
Fate(p, t) ==
    /\ ~Owned(t) /\ t <= calls
    /\ \/ ~tree[t].dir
       \/ t \in todo[p] /\ Waiting(t)
       \/ /\ Aims(p) /\ t = target[p]
          /\ pc[p] = "openOther" => Waiting(t)
          /\ pc[p] = "tryLock" => leaseOf[t] = Nobody
          /\ pc[p] \in {"tryLock", "body", "release"} => handles[t] = {p}
          /\ pc[p] = "unlease" => tree[t].lease /\ handles[t] = {}

Recovering(p) ==
    storeLock = p /\ faults = MaxFaults => \A t \in due[p] : Fate(p, t)

IInv ==
    /\ TypeOK
    /\ \A p \in Procs : /\ Numbering(p) /\ OwnTree(p) /\ InView(p)
                        /\ Locking(p) /\ Recovering(p)
    /\ \A p, q \in Procs : p # q => Apart(p, q)
    /\ \A t \in Trees : Shape(t)

-----------------------------------------------------------------------------
(* Steps of one process at one tree                                        *)

\* p moves and touches no tree but x.
Touches(p, x) ==
    /\ \A q \in Procs \ {p} :
          /\ pc'[q] = pc[q] /\ mine'[q] = mine[q] /\ target'[q] = target[q]
          /\ todo'[q] = todo[q] /\ due'[q] = due[q]
    /\ \A t \in Trees \ {x} :
          tree'[t] = tree[t] /\ leaseOf'[t] = leaseOf[t] /\ handles'[t] = handles[t]
    /\ calls <= calls'
    /\ \A q \in Procs \ {p} : storeLock' = q <=> storeLock = q
    /\ faults' = MaxFaults => faults = MaxFaults
    /\ \/ Live(p) /\ mine'[p] = mine[p] /\ (x = mine[p] \/ InStore(p))
       \/ mine'[p] > calls /\ x > calls

\* What another process knows stands, if it does not depend on x.
LEMMA OthersStand ==
  ASSUME IInv, TypeOK', NEW p \in Procs, NEW x \in Trees, Touches(p, x),
         NEW q \in Procs, q # p,
         Live(q) /\ mine[q] = x => OwnTree(q)',
         Aims(q) /\ target[q] = x => InView(q)'
  PROVE  Numbering(q)' /\ OwnTree(q)' /\ InView(q)' /\ Locking(q)' /\ Recovering(q)'
  <1>1. /\ pc'[q] = pc[q] /\ mine'[q] = mine[q] /\ target'[q] = target[q]
        /\ todo'[q] = todo[q] /\ due'[q] = due[q] /\ calls <= calls'
        /\ storeLock' = q <=> storeLock = q
        /\ faults' = MaxFaults => faults = MaxFaults
        /\ Numbering(q) /\ OwnTree(q) /\ InView(q) /\ Locking(q) /\ Recovering(q)
        /\ Numbering(p) /\ Locking(p)
        /\ \A t \in Trees \ {x} :
              tree'[t] = tree[t] /\ leaseOf'[t] = leaseOf[t] /\ handles'[t] = handles[t]
    BY DEF Touches, IInv
  <1>2. /\ calls \in Nat /\ calls' \in Nat /\ Trees \subseteq Nat
        /\ mine \in [Procs -> Nat] /\ mine' \in [Procs -> Nat]
        /\ target \in [Procs -> Nat] /\ todo \in [Procs -> SUBSET Trees]
        /\ due \in [Procs -> SUBSET Trees]
    <2>1. calls \in Nat /\ calls' \in Nat /\ Trees \subseteq Nat
      BY StagingAssumption DEF IInv, TypeOK, Trees
    <2> QED BY <2>1 DEF IInv, TypeOK
  <1>3. Numbering(q)'
    <2>1. ASSUME NEW r \in Procs, q # r, Live(q)
          PROVE  mine'[q] # mine'[r]
      <3>1. CASE r = p
        <4>1. mine'[p] = mine[p] \/ mine'[p] > calls
          BY DEF Touches
        <4>2. mine[q] <= calls /\ mine[q] # mine[p]
          BY <1>1, <2>1, <3>1 DEF Numbering
        <4> QED BY <1>1, <1>2, <3>1, <4>1, <4>2
      <3>2. CASE r # p
        BY <1>1, <2>1, <3>2 DEF Numbering, Touches
      <3> QED BY <3>1, <3>2
    <2>2. /\ mine'[q] <= calls'
          /\ Aims(q) => target[q] <= calls'
          /\ \A t \in todo[q] : t <= calls'
      BY <1>1, <1>2 DEF Numbering
    <2> QED BY <1>1, <2>1, <2>2 DEF Numbering, Live, Aims
  <1>4. OwnTree(q)'
    <2>1. CASE Live(q) /\ mine[q] = x
      BY <2>1
    <2>2. CASE ~Live(q)
      BY <1>1, <2>2 DEF Live, OwnTree, Making, Needs, Foreign, Using, Sweeping
    <2>3. CASE Live(q) /\ mine[q] # x
      <3>1. /\ mine[q] \in Trees /\ tree'[mine[q]] = tree[mine[q]]
            /\ leaseOf'[mine[q]] = leaseOf[mine[q]]
            /\ handles'[mine[q]] = handles[mine[q]]
        BY <1>1, <2>3 DEF Numbering
      <3> QED BY <1>1, <3>1 DEF OwnTree, Needs, Foreign, Reclaimable
    <2> QED BY <2>1, <2>2, <2>3
  <1>5. InView(q)'
    <2>1. CASE Aims(q) /\ target[q] = x
      BY <2>1
    <2>2. CASE ~Aims(q)
      BY <1>1, <2>2 DEF Aims, InView, Sweeping
    <2>3. CASE Aims(q) /\ target[q] # x
      <3>1. /\ target[q] \in Trees /\ tree'[target[q]] = tree[target[q]]
            /\ leaseOf'[target[q]] = leaseOf[target[q]]
            /\ handles'[target[q]] = handles[target[q]]
        BY <1>1, <2>3 DEF Numbering
      <3> QED BY <1>1, <3>1 DEF InView, Reclaimable
    <2> QED BY <2>1, <2>2, <2>3
  <1>6. Locking(q)'
    BY <1>1 DEF Locking, InStore, Foreign, Aims
  <1>7. Recovering(q)'
    <2>1. SUFFICES ASSUME storeLock' = q, faults' = MaxFaults, NEW t \in due'[q]
                   PROVE  Fate(q, t)'
      BY DEF Recovering
    <2>2. storeLock = q /\ Fate(q, t) /\ t \in Trees
      BY <1>1, <1>2, <2>1 DEF Recovering
    <2>3. ~Owned(t) /\ t <= calls
      BY <2>2 DEF Fate
    <2>4. t # x
      <3>1. CASE Live(p) /\ x = mine[p]
        BY <2>3, <3>1 DEF Owned, Live
      <3>2. CASE InStore(p)
        BY <1>1, <2>2, <3>2 DEF Locking
      <3>3. CASE x > calls
        BY <1>2, <2>2, <2>3, <3>3
      <3> QED BY <3>1, <3>2, <3>3 DEF Touches
    <2>5. ~Owned(t)'
      <3>1. SUFFICES ASSUME NEW r \in Procs, pc'[r] # "idle", mine'[r] = t
                     PROVE  FALSE
        BY DEF Owned
      <3>2. CASE r # p
        BY <2>3, <3>1, <3>2 DEF Touches, Owned
      <3>3. CASE r = p
        <4>1. mine'[p] > calls
          BY <2>3, <3>1, <3>3 DEF Touches, Owned, Live
        <4> QED BY <1>2, <2>2, <2>3, <3>1, <3>3, <4>1
      <3> QED BY <3>2, <3>3
    <2>6. /\ tree'[t] = tree[t] /\ leaseOf'[t] = leaseOf[t] /\ handles'[t] = handles[t]
          /\ t <= calls'
      BY <1>1, <1>2, <2>2, <2>3, <2>4
    <2> QED BY <1>1, <2>2, <2>5, <2>6 DEF Fate, Waiting, Reclaimable, Aims
  <1> QED BY <1>3, <1>4, <1>5, <1>6, <1>7

\* A step is safe if it is for the process, the tree, and those who have the
\* same tree in view.
LEMMA TreeStep ==
  ASSUME IInv, TypeOK', NEW p \in Procs, NEW x \in Trees, Touches(p, x),
         Numbering(p)', OwnTree(p)', InView(p)', Locking(p)', Recovering(p)',
         Shape(x)',
         \A q \in Procs : q # p =>
             /\ Live(q) /\ mine[q] = x => OwnTree(q)'
             /\ Aims(q) /\ target[q] = x => InView(q)'
             /\ Apart(p, q)' /\ Apart(q, p)'
  PROVE  IInv'
  <1>1. ASSUME NEW q \in Procs
        PROVE  Numbering(q)' /\ OwnTree(q)' /\ InView(q)' /\ Locking(q)' /\ Recovering(q)'
    BY OthersStand
  <1>2. ASSUME NEW q \in Procs, NEW r \in Procs, q # r
        PROVE  Apart(q, r)'
    <2>1. CASE q # p /\ r # p
      BY <1>2, <2>1 DEF IInv, Apart, Touches, Needs, Foreign, Aims
    <2> QED BY <1>2, <2>1
  <1>3. ASSUME NEW t \in Trees
        PROVE  Shape(t)'
    <2>1. CASE t = x
      BY <2>1
    <2>2. CASE t # x
      <3>1. /\ tree'[t] = tree[t] /\ leaseOf'[t] = leaseOf[t]
            /\ handles'[t] = handles[t] /\ calls <= calls' /\ Shape(t)
        BY <2>2 DEF Touches, IInv
      <3>2. calls \in Nat /\ calls' \in Nat /\ t \in Nat
        BY DEF IInv, TypeOK, Trees
      <3> QED BY <3>1, <3>2 DEF Shape, Reclaimable
    <2> QED BY <2>1, <2>2
  <1> QED BY <1>1, <1>2, <1>3 DEF IInv

-----------------------------------------------------------------------------
(* Making a tree                                                           *)

\* What types say of numbers.
LEMMA Types ==
  ASSUME IInv
  PROVE  /\ TypeOK /\ calls \in Nat /\ faults \in Nat /\ Trees \subseteq Nat
         /\ MaxCalls \in Nat /\ MaxFaults \in Nat /\ Nobody \notin Procs
         /\ \A p \in Procs : Live(p) => mine[p] \in Trees
  BY StagingAssumption DEF IInv, TypeOK, Trees, Numbering

\* A call that makes its tree has it for itself; one that has made it may find
\* it looked at.
LEMMA MakerStep ==
  ASSUME IInv, TypeOK', NEW p \in Procs, pc[p] \in Making \cup {"fill"},
         NEW c \in {"idle"} \cup Making \cup {"fill", "wait"},
         pc[p] = "fill" => c = "wait",
         pc' = [pc EXCEPT ![p] = c],
         UNCHANGED <<storeLock, mine, target, todo, due, calls>>,
         faults' = MaxFaults => faults = MaxFaults,
         \A t \in Trees \ {mine[p]} :
            tree'[t] = tree[t] /\ leaseOf'[t] = leaseOf[t] /\ handles'[t] = handles[t],
         OwnTree(p)', Shape(mine[p])',
         pc[p] = "fill" =>
            /\ Reclaimable(mine[p])' = Reclaimable(mine[p])
            /\ leaseOf'[mine[p]] = leaseOf[mine[p]] /\ handles'[mine[p]] = handles[mine[p]]
  PROVE  IInv'
  <1> DEFINE x == mine[p]
  <1>1. /\ TypeOK /\ calls \in Nat /\ x \in Trees /\ pc'[p] = c /\ Live(p)
        /\ \A q \in Procs \ {p} : pc'[q] = pc[q]
    BY Types DEF TypeOK, Live, Making
  <1>2. /\ Numbering(p) /\ Locking(p) /\ ~InStore(p)
        /\ \A q \in Procs : q # p => Numbering(q) /\ Apart(p, q) /\ InView(q)
    BY DEF IInv, InStore, Foreign, Making, Sweeping
  <1>3. Touches(p, x)
    BY <1>1 DEF Touches
  <1>4. /\ c \notin Sweeping /\ c \notin {"recover", "openOther", "tryLock"}
        /\ ~Aims(p)' /\ ~InStore(p)' /\ ~Foreign(p)'
    BY <1>1 DEF Making, Sweeping, Aims, InStore, Foreign
  <1>5. Numbering(p)' /\ InView(p)'
    BY <1>1, <1>2, <1>4 DEF Numbering, Aims, InView, Live, Sweeping
  <1>6. Locking(p)' /\ Recovering(p)'
    BY <1>2, <1>4 DEF Locking, Recovering
  <1>7. ASSUME NEW q \in Procs, q # p
        PROVE  /\ ~(Live(q) /\ mine[q] = x)
               /\ Aims(q) /\ target[q] = x => InView(q)'
               /\ Apart(p, q)' /\ Apart(q, p)'
    <2>1. ~(Live(q) /\ mine[q] = x)
      BY <1>1, <1>2, <1>7 DEF Numbering
    <2>2. ASSUME Aims(q), target[q] = x
          PROVE  pc[p] = "fill" /\ c = "wait" /\ pc[q] \in {"openOther", "tryLock"}
      BY <1>1, <1>2, <1>7, <2>2 DEF Apart, Aims, Needs, Using
    <2>3. ASSUME Aims(q), target[q] = x
          PROVE  InView(q)'
      <3>1. Reclaimable(x)
        BY <2>2, <2>3 DEF IInv, OwnTree, Needs, Using
      <3>2. Reclaimable(x)'
        BY <2>2, <2>3, <3>1
      <3>3. tree'[x].marker = "whole"
        BY <3>2 DEF Reclaimable
      <3> QED BY <1>1, <1>2, <1>7, <2>2, <2>3, <3>3 DEF InView, Sweeping
    <2>4. Apart(p, q)'
      BY <1>1, <1>4, <1>7, <2>2 DEF Apart, Aims, Making, Sweeping
    <2>5. Apart(q, p)'
      BY <1>1, <1>4, <1>7 DEF Apart, Sweeping
    <2> QED BY <2>1, <2>3, <2>4, <2>5
  <1> QED BY <1>1, <1>3, <1>5, <1>6, <1>7, TreeStep

\* A new call takes a number nobody had.
LEMMA MkdirKeeps ==
  ASSUME IInv, NEW p \in Procs, Mkdir(p)
  PROVE  IInv'
  <1>0. PICK x \in Trees : x = calls + 1
    <2>1. calls \in Nat /\ calls < MaxCalls /\ MaxCalls \in Nat
      BY Types DEF Mkdir
    <2> QED BY <2>1 DEF Trees
  <1>1. /\ TypeOK /\ calls \in Nat /\ Trees \subseteq Nat /\ MaxCalls \in Nat
        /\ pc[p] = "idle" /\ x \in Trees /\ calls' = x /\ x \in 0 .. MaxCalls
        /\ x \in Nat /\ x \notin {0}
        /\ UNCHANGED <<leaseOf, handles, storeLock, target, todo, due, faults>>
    BY <1>0, Types DEF Mkdir, kernel, Trees
  <1>2. /\ tree' = [tree EXCEPT ![x] = [NoTree EXCEPT !.dir = TRUE]]
        /\ mine' = [mine EXCEPT ![p] = x] /\ pc' = [pc EXCEPT ![p] = "open"]
    BY <1>0 DEF Mkdir, Edit, Goto
  <1>3. TypeOK'
    <2>1. [NoTree EXCEPT !.dir = TRUE] \in Shapes /\ "open" \in Making
      BY DEF NoTree, Shapes, Making
    <2> QED BY <1>1, <1>2, <2>1 DEF TypeOK
  <1>4. /\ pc'[p] = "open" /\ mine'[p] = x
        /\ tree'[x] = [dir |-> TRUE, marker |-> "none", lease |-> FALSE, body |-> FALSE]
        /\ \A q \in Procs \ {p} : pc'[q] = pc[q] /\ mine'[q] = mine[q]
        /\ \A t \in Trees \ {x} : tree'[t] = tree[t]
    BY <1>1, <1>2 DEF TypeOK, NoTree
  <1>5. x > calls /\ calls <= x
    BY <1>0, <1>1
  <1>6. /\ \A q \in Procs : mine[q] <= calls /\ mine[q] \in Nat
        /\ \A q \in Procs : Aims(q) => target[q] <= calls /\ target[q] \in Nat
        /\ Numbering(p) /\ Locking(p) /\ ~InStore(p)
    BY <1>1 DEF IInv, TypeOK, Numbering, InStore, Foreign, Sweeping
  <1>7. Touches(p, x)
    BY <1>1, <1>4, <1>5 DEF Touches
  <1>8. ~Aims(p)' /\ ~InStore(p)' /\ ~Foreign(p)' /\ Live(p)'
    BY <1>4 DEF Aims, InStore, Foreign, Sweeping, Live
  <1>9. Numbering(p)'
    <2>1. \A q \in Procs : p # q => mine'[q] # x
      BY <1>1, <1>4, <1>5, <1>6
    <2>2. \A t \in todo'[p] : t <= calls'
      <3>1. \A t \in todo[p] : t <= calls /\ t \in Nat
        BY <1>1, <1>6 DEF Numbering, TypeOK
      <3> QED BY <1>1, <1>5, <3>1
    <2> QED BY <1>1, <1>4, <1>8, <2>1, <2>2 DEF Numbering, Aims
  <1>10. OwnTree(p)' /\ InView(p)' /\ Locking(p)' /\ Recovering(p)'
    <2>1. OwnTree(p)' /\ InView(p)'
      BY <1>4, <1>8 DEF OwnTree, InView, Making, Needs, Using, Sweeping
    <2> QED BY <1>1, <1>6, <1>8, <2>1 DEF Locking, Recovering
  <1>11. Shape(x)'
    <2>1. ~(x > x)
      BY <1>1
    <2> QED BY <1>1, <1>4, <2>1 DEF Shape
  <1>12. ASSUME NEW q \in Procs, q # p
         PROVE  /\ ~(Live(q) /\ mine[q] = x) /\ ~(Aims(q) /\ target[q] = x)
                /\ Apart(p, q)' /\ Apart(q, p)'
    <2>1. mine[q] # x /\ (Aims(q) => target[q] # x)
      BY <1>1, <1>5, <1>6
    <2>2. Apart(p, q)'
      BY <1>1, <1>4, <1>8, <1>12, <2>1 DEF Apart, Aims
    <2>3. Apart(q, p)'
      BY <1>4, <1>8 DEF Apart, Aims
    <2> QED BY <2>1, <2>2, <2>3
  <1> QED BY <1>1, <1>3, <1>7, <1>9, <1>10, <1>11, <1>12, TreeStep

\* The lease file is made, locked, or neither.
LEMMA LeaseKeeps ==
  ASSUME IInv, NEW p \in Procs, OpenLease(p) \/ LockLease(p) \/ LeaseFails(p)
  PROVE  IInv'
  <1>0. pc[p] \in {"open", "lock"} /\ mine[p] \in Trees
    BY Types DEF OpenLease, LockLease, LeaseFails, Live
  <1>1. PICK x \in Trees : x = mine[p]
    BY <1>0
  <1>2. /\ TypeOK /\ calls \in Nat /\ faults \in Nat
        /\ OwnTree(p) /\ Shape(x) /\ Numbering(p) /\ tree[x] \in Shapes
    BY Types DEF IInv, TypeOK
  <1>3. /\ tree[x].dir /\ ~tree[x].body /\ tree[x].marker # "whole"
        /\ pc[p] = "lock" => tree[x].lease /\ p \in handles[x]
        /\ x <= calls
    BY <1>0, <1>1, <1>2 DEF OwnTree, Making, Shape, Reclaimable, Numbering
  <1>4. UNCHANGED <<storeLock, mine, target, todo, due, calls>>
    BY DEF OpenLease, LockLease, LeaseFails, CloseLease, local, rest
  <1>5. CASE OpenLease(p)
    <2> DEFINE shape == [tree[x] EXCEPT !.lease = TRUE]
    <2>1. /\ tree' = [tree EXCEPT ![x] = shape] /\ pc' = [pc EXCEPT ![p] = "lock"]
          /\ handles' = [handles EXCEPT ![x] = @ \cup {p}]
          /\ UNCHANGED <<leaseOf, faults>> /\ pc[p] = "open"
      BY <1>1, <1>5 DEF OpenLease, Edit, Goto, rest
    <2>2. /\ shape \in Shapes /\ shape.dir /\ shape.lease /\ ~shape.body
          /\ shape.marker # "whole"
      BY <1>2, <1>3 DEF Shapes
    <2> HIDE DEF shape
    <2>3. TypeOK'
      BY <1>2, <1>4, <2>1, <2>2 DEF TypeOK, Making
    <2>4. /\ tree'[x] = shape /\ p \in handles'[x] /\ pc'[p] = "lock" /\ mine'[p] = x
          /\ \A t \in Trees \ {x} : tree'[t] = tree[t] /\ handles'[t] = handles[t]
      BY <1>1, <1>2, <1>4, <2>1 DEF TypeOK
    <2>5. OwnTree(p)' /\ Shape(x)'
      BY <1>2, <1>3, <1>4, <2>2, <2>4
      DEF OwnTree, Making, Needs, Using, Foreign, Sweeping, Shape, TypeOK, Trees
    <2> QED BY <1>1, <1>4, <2>1, <2>3, <2>4, <2>5, MakerStep DEF Making
  <1>6. CASE LockLease(p)
    <2>1. /\ leaseOf' = [leaseOf EXCEPT ![x] = p] /\ pc' = [pc EXCEPT ![p] = "mark"]
          /\ UNCHANGED <<tree, handles, faults>> /\ pc[p] = "lock"
      BY <1>1, <1>6 DEF LockLease, Goto, rest
    <2>2. TypeOK'
      BY <1>2, <1>4, <2>1 DEF TypeOK, Making
    <2>3. /\ leaseOf'[x] = p /\ pc'[p] = "mark" /\ mine'[p] = x
          /\ \A t \in Trees \ {x} : leaseOf'[t] = leaseOf[t]
      BY <1>1, <1>2, <1>4, <2>1 DEF TypeOK
    <2>4. OwnTree(p)' /\ Shape(x)'
      BY <1>2, <1>3, <1>4, <2>1, <2>3
      DEF OwnTree, Making, Needs, Using, Foreign, Sweeping, Shape, TypeOK, Trees, Reclaimable
    <2> QED BY <1>1, <1>4, <2>1, <2>2, <2>3, <2>4, MakerStep DEF Making
  <1>7. CASE LeaseFails(p)
    <2>1. /\ tree' = [tree EXCEPT ![x] = NoTree] /\ pc' = [pc EXCEPT ![p] = "idle"]
          /\ leaseOf' = [leaseOf EXCEPT ![x] = IF @ = p THEN Nobody ELSE @]
          /\ handles' = [handles EXCEPT ![x] = @ \ {p}]
          /\ faults' = faults - 1 /\ faults > 0
      BY <1>1, <1>7 DEF LeaseFails, Edit, Goto, CloseLease
    <2>2. NoTree \in Shapes /\ ~NoTree.body /\ ~NoTree.lease /\ NoTree.marker = "none"
      BY DEF Shapes, NoTree
    <2>3. faults' \in 0 .. MaxFaults /\ faults' # MaxFaults
      BY <1>2, <2>1, StagingAssumption DEF TypeOK
    <2>4. TypeOK'
      BY <1>2, <1>4, <2>1, <2>2, <2>3 DEF TypeOK
    <2>5. /\ tree'[x] = NoTree /\ pc'[p] = "idle" /\ mine'[p] = x
          /\ \A t \in Trees \ {x} :
                tree'[t] = tree[t] /\ leaseOf'[t] = leaseOf[t] /\ handles'[t] = handles[t]
      BY <1>1, <1>2, <1>4, <2>1 DEF TypeOK
    <2>6. OwnTree(p)' /\ Shape(x)'
      <3>1. ~(x > calls)
        BY <1>2, <1>3, Types
      <3> QED BY <1>2, <1>4, <2>2, <2>5, <3>1
              DEF OwnTree, Making, Needs, Using, Foreign, Sweeping, Shape
    <2> QED BY <1>0, <1>1, <1>4, <2>1, <2>3, <2>4, <2>5, <2>6, MakerStep DEF Making
  <1> QED BY <1>5, <1>6, <1>7

\* The marker is written, or cut short, and the body behind it.
LEMMA MarkerKeeps ==
  ASSUME IInv, NEW p \in Procs,
         StartMarker(p) \/ FinishMarker(p) \/ MarkerFails(p) \/ Fill(p)
  PROVE  IInv'
  <1>0. pc[p] \in {"mark", "marking", "fill"} /\ mine[p] \in Trees
    BY Types DEF StartMarker, FinishMarker, MarkerFails, Fill, Live
  <1>1. PICK x \in Trees : x = mine[p]
    BY <1>0
  <1>2. /\ TypeOK /\ calls \in Nat /\ faults \in Nat
        /\ OwnTree(p) /\ Shape(x) /\ Numbering(p) /\ tree[x] \in Shapes
    BY Types DEF IInv, TypeOK
  <1>3. /\ tree[x].dir /\ tree[x].lease /\ p \in handles[x] /\ leaseOf[x] = p
        /\ pc[p] # "fill" => ~tree[x].body
        /\ pc[p] = "fill" => tree[x].marker = "whole"
        /\ x <= calls
    BY <1>0, <1>1, <1>2
    DEF OwnTree, Making, Shape, Reclaimable, Numbering, Needs, Using, Live
  <1>4. UNCHANGED <<storeLock, mine, target, todo, due, calls>>
    BY DEF StartMarker, FinishMarker, MarkerFails, Fill, CloseLease, local, rest, kernel
  <1>5. ASSUME NEW c \in {"marking", "fill", "wait"}, NEW m \in {"torn", "whole"},
               NEW b \in BOOLEAN,
               tree' = [tree EXCEPT ![x] = [tree[x] EXCEPT !.marker = m, !.body = b]],
               pc' = [pc EXCEPT ![p] = c], UNCHANGED <<leaseOf, handles, faults>>,
               \/ pc[p] = "mark" /\ c = "marking" /\ m = "torn" /\ b = FALSE
               \/ pc[p] = "marking" /\ c = "fill" /\ m = "whole" /\ b = FALSE
               \/ pc[p] = "fill" /\ c = "wait" /\ m = "whole" /\ b = TRUE
        PROVE  IInv'
    <2> DEFINE shape == [tree[x] EXCEPT !.marker = m, !.body = b]
    <2>1. /\ shape \in Shapes /\ shape.dir /\ shape.lease /\ shape.body = b
          /\ shape.marker = m
      BY <1>2, <1>3 DEF Shapes
    <2> HIDE DEF shape
    <2>2. tree' = [tree EXCEPT ![x] = shape]
      BY <1>5 DEF shape
    <2>3. TypeOK'
      BY <1>2, <1>4, <1>5, <2>1, <2>2 DEF TypeOK, Making, Using
    <2>4. /\ tree'[x] = shape /\ pc'[p] = c /\ mine'[p] = x
          /\ \A t \in Trees \ {x} : tree'[t] = tree[t]
      BY <1>1, <1>2, <1>4, <1>5, <2>2 DEF TypeOK
    <2>5. OwnTree(p)'
      BY <1>3, <1>5, <2>1, <2>4
      DEF OwnTree, Making, Needs, Using, Foreign, Sweeping, Reclaimable
    <2>6. Shape(x)'
      <3>1. ~(x > calls)
        BY <1>2, <1>3, Types
      <3>2. tree'[x].body => Reclaimable(x)'
        BY <1>5, <2>1, <2>4 DEF Reclaimable
      <3> QED BY <1>4, <2>1, <2>4, <3>1, <3>2 DEF Shape
    <2>7. pc[p] = "fill" => Reclaimable(x)' = Reclaimable(x)
      BY <1>3, <1>5, <2>1, <2>4 DEF Reclaimable
    <2> QED BY <1>0, <1>1, <1>4, <1>5, <2>3, <2>4, <2>5, <2>6, <2>7, MakerStep
            DEF Making
  <1>6. CASE StartMarker(p)
    <2>1. [tree[x] EXCEPT !.marker = "torn"] =
              [tree[x] EXCEPT !.marker = "torn", !.body = FALSE]
      BY <1>2, <1>3, <1>6 DEF Shapes, StartMarker
    <2> QED BY <1>1, <1>5, <1>6, <2>1 DEF StartMarker, Edit, Goto, kernel, rest
  <1>7. CASE FinishMarker(p)
    <2>1. [tree[x] EXCEPT !.marker = "whole"] =
              [tree[x] EXCEPT !.marker = "whole", !.body = FALSE]
      BY <1>2, <1>3, <1>7 DEF Shapes, FinishMarker
    <2> QED BY <1>1, <1>5, <1>7, <2>1 DEF FinishMarker, Edit, Goto, kernel, rest
  <1>8. CASE Fill(p)
    <2>1. [tree[x] EXCEPT !.body = TRUE] =
              [tree[x] EXCEPT !.marker = "whole", !.body = TRUE]
      BY <1>2, <1>3, <1>8 DEF Shapes, Fill
    <2> QED BY <1>1, <1>5, <1>8, <2>1 DEF Fill, Edit, Goto, kernel, rest
  <1>9. CASE MarkerFails(p)
    <2>1. /\ pc' = [pc EXCEPT ![p] = "idle"] /\ tree' = tree /\ pc[p] = "marking"
          /\ leaseOf' = [leaseOf EXCEPT ![x] = IF @ = p THEN Nobody ELSE @]
          /\ handles' = [handles EXCEPT ![x] = @ \ {p}]
          /\ faults' = faults - 1 /\ faults > 0
      BY <1>1, <1>9 DEF MarkerFails, Goto, CloseLease
    <2>2. faults' \in 0 .. MaxFaults /\ faults' # MaxFaults
      BY <1>2, <2>1, StagingAssumption DEF TypeOK
    <2>3. TypeOK'
      BY <1>2, <1>4, <2>1, <2>2 DEF TypeOK
    <2>4. /\ pc'[p] = "idle" /\ mine'[p] = x
          /\ \A t \in Trees \ {x} : leaseOf'[t] = leaseOf[t] /\ handles'[t] = handles[t]
      BY <1>1, <1>2, <1>4, <2>1 DEF TypeOK
    <2>5. OwnTree(p)' /\ Shape(x)'
      <3>1. ~(x > calls)
        BY <1>2, <1>3, Types
      <3> QED BY <1>2, <1>4, <2>1, <2>4, <3>1
              DEF OwnTree, Making, Needs, Using, Foreign, Sweeping, Shape, Reclaimable
    <2> QED BY <1>0, <1>1, <1>4, <2>1, <2>2, <2>3, <2>4, <2>5, MakerStep DEF Making
  <1> QED BY <1>6, <1>7, <1>8, <1>9

-----------------------------------------------------------------------------
(* Decisions that touch no tree                                            *)

\* A step that leaves the disk alone is safe if it is for the process.
LEMMA QuietStep ==
  ASSUME IInv, TypeOK', NEW p \in Procs, Live(p),
         UNCHANGED <<tree, leaseOf, handles, mine, calls, faults>>,
         \A q \in Procs \ {p} :
            /\ pc'[q] = pc[q] /\ target'[q] = target[q]
            /\ todo'[q] = todo[q] /\ due'[q] = due[q]
            /\ storeLock' = q <=> storeLock = q,
         Numbering(p)', OwnTree(p)', InView(p)', Locking(p)', Recovering(p)',
         \A q \in Procs : q # p => Apart(p, q)' /\ Apart(q, p)'
  PROVE  IInv'
  <1>1. PICK x \in Trees : x = mine[p]
    BY Types
  <1>2. Touches(p, x)
    <2>1. calls <= calls'
      BY Types
    <2> QED BY <1>1, <2>1 DEF Touches
  <1>3. Shape(x)'
    BY DEF IInv, Shape, Reclaimable
  <1>4. ASSUME NEW q \in Procs, q # p
        PROVE  OwnTree(q)' /\ InView(q)'
    BY <1>4 DEF IInv, OwnTree, InView, Needs, Foreign, Reclaimable
  <1> QED BY <1>2, <1>3, <1>4, TreeStep

\* A call that gives up turns to the cleanup of its own tree.
LEMMA GiveUpKeeps ==
  ASSUME IInv, NEW p \in Procs, GiveUp(p)
  PROVE  IInv'
  <1>1. /\ TypeOK /\ pc[p] \in {"fill", "wait"} /\ Live(p) /\ mine[p] \in Trees
        /\ Numbering(p) /\ OwnTree(p) /\ Locking(p)
        /\ \A q \in Procs : q # p => Apart(p, q) /\ Apart(q, p) /\ mine[p] # mine[q]
    BY Types DEF IInv, GiveUp, Live, Numbering
  <1>2. /\ pc' = [pc EXCEPT ![p] = "body"] /\ target' = [target EXCEPT ![p] = mine[p]]
        /\ UNCHANGED <<tree, leaseOf, handles, storeLock, mine, todo, due, calls, faults>>
    BY DEF GiveUp, Goto, kernel, rest
  <1>3. /\ pc'[p] = "body" /\ target'[p] = mine[p]
        /\ \A q \in Procs \ {p} : pc'[q] = pc[q] /\ target'[q] = target[q]
    BY <1>1, <1>2 DEF TypeOK
  <1>4. TypeOK'
    <2>1. mine[p] \in Nat
      BY <1>1 DEF TypeOK
    <2> QED BY <1>1, <1>2, <2>1 DEF TypeOK, Sweeping
  <1>5. ~InStore(p) /\ ~InStore(p)' /\ ~Needs(p)' /\ storeLock # p
    BY <1>1, <1>2, <1>3 DEF InStore, Foreign, Sweeping, Needs, Using, Locking
  <1>6. Numbering(p)' /\ OwnTree(p)' /\ InView(p)'
    <2>1. Numbering(p)'
      BY <1>1, <1>2, <1>3 DEF Numbering, Live
    <2>2. OwnTree(p)'
      BY <1>3, <1>5 DEF OwnTree, Making
    <2>3. Reclaimable(mine[p]) /\ leaseOf[mine[p]] = p /\ p \in handles[mine[p]]
      BY <1>1 DEF OwnTree, Needs, Using
    <2>4. InView(p)'
      BY <1>2, <1>3, <2>3 DEF InView, Reclaimable
    <2> QED BY <2>1, <2>2, <2>4
  <1>7. Locking(p)' /\ Recovering(p)'
    BY <1>2, <1>5 DEF Locking, Recovering
  <1>8. ASSUME NEW q \in Procs, q # p
        PROVE  Apart(p, q)' /\ Apart(q, p)'
    BY <1>1, <1>2, <1>3, <1>5, <1>8 DEF Apart, Aims, Making
  <1> QED BY <1>1, <1>2, <1>3, <1>4, <1>6, <1>7, <1>8, QuietStep

\* Under the write lock a call lists the trees there are; those that are
\* abandoned are among them.
LEMMA LockStoreKeeps ==
  ASSUME IInv, NEW p \in Procs, LockStore(p)
  PROVE  IInv'
  <1>1. /\ TypeOK /\ pc[p] = "wait" /\ Live(p) /\ mine[p] \in Trees
        /\ Numbering(p) /\ OwnTree(p) /\ storeLock = Nobody /\ Nobody \notin Procs
        /\ \A q \in Procs : q # p => Apart(p, q) /\ Apart(q, p)
        /\ \A t \in Trees : Shape(t)
        /\ Trees \subseteq Nat /\ calls \in Nat
    BY Types DEF IInv, LockStore, Live
  <1>2. /\ pc' = [pc EXCEPT ![p] = "recover"] /\ storeLock' = p
        /\ UNCHANGED <<tree, leaseOf, handles, mine, target, calls, faults>>
    BY DEF LockStore, Goto, rest
  <1>3. TypeOK'
    <2>1. todo' \in [Procs -> SUBSET Trees] /\ due' \in [Procs -> SUBSET Trees]
      BY <1>1 DEF LockStore, TypeOK
    <2> QED BY <1>1, <1>2, <2>1 DEF TypeOK, Using
  <1>4. /\ pc'[p] = "recover"
        /\ todo'[p] = {t \in Trees : tree[t].dir} \ {mine[p]}
        /\ due'[p] = {t \in Trees : Abandoned(t)}
        /\ \A q \in Procs \ {p} :
              pc'[q] = pc[q] /\ todo'[q] = todo[q] /\ due'[q] = due[q]
    BY <1>1 DEF LockStore, Goto, TypeOK
  <1>5. ~Aims(p)' /\ InStore(p)' /\ Needs(p)' /\ Needs(p) /\ pc'[p] \notin Making
    BY <1>1, <1>4 DEF Aims, InStore, Needs, Using, Sweeping, Making
  <1>6. ASSUME NEW t \in Trees, tree[t].dir
        PROVE  t <= calls
    <2>1. tree[t] # NoTree
      BY <1>6 DEF NoTree
    <2> QED BY <1>1, <2>1 DEF Shape
  <1>7. Numbering(p)' /\ OwnTree(p)' /\ InView(p)'
    <2>1. Numbering(p)'
      BY <1>1, <1>2, <1>4, <1>5, <1>6 DEF Numbering, Live
    <2>2. OwnTree(p)'
      BY <1>1, <1>2, <1>5 DEF OwnTree, Reclaimable
    <2>3. InView(p)'
      BY <1>4 DEF InView
    <2> QED BY <2>1, <2>2, <2>3
  <1>8. Locking(p)'
    BY <1>2, <1>4, <1>5 DEF Locking
  <1>9. Recovering(p)'
    <2>1. SUFFICES ASSUME NEW t \in due'[p]
                   PROVE  Fate(p, t)'
      BY DEF Recovering
    <2>2. t \in Trees /\ Abandoned(t)
      BY <1>4, <2>1
    <2>3. Waiting(t)' /\ tree[t].dir /\ ~Owned(t) /\ t # mine[p]
      BY <1>1, <1>2, <2>2
      DEF Abandoned, Waiting, Reclaimable, Shape, Owned, Live
    <2>4. ~Owned(t)'
      BY <1>1, <1>2, <1>4, <2>3 DEF Owned, Live
    <2>5. t \in todo'[p] /\ t <= calls'
      BY <1>2, <1>4, <1>6, <2>2, <2>3
    <2> QED BY <2>3, <2>4, <2>5 DEF Fate
  <1>10. ASSUME NEW q \in Procs, q # p
         PROVE  Apart(p, q)' /\ Apart(q, p)'
    <2>1. Apart(p, q)'
      BY <1>1, <1>2, <1>4, <1>5, <1>10 DEF Apart, Aims
    <2>2. Apart(q, p)'
      BY <1>4, <1>5 DEF Apart, Sweeping
    <2> QED BY <2>1, <2>2
  <1> QED BY <1>1, <1>2, <1>3, <1>4, <1>7, <1>8, <1>9, <1>10, QuietStep

\* What a call knows while it looks at the trees it listed.
LEMMA Looking ==
  ASSUME IInv, NEW p \in Procs, pc[p] = "recover"
  PROVE  /\ TypeOK /\ Live(p) /\ mine[p] \in Trees
         /\ Numbering(p) /\ OwnTree(p) /\ Locking(p) /\ Recovering(p)
         /\ \A q \in Procs : q # p => Apart(p, q) /\ Apart(q, p) /\ OwnTree(q)
         /\ Trees \subseteq Nat /\ calls \in Nat
         /\ InStore(p) /\ Needs(p) /\ ~Aims(p) /\ storeLock = p /\ mine[p] \notin todo[p]
         /\ \A t \in todo[p] : t \in Trees /\ t <= calls
         /\ \A u \in Trees : Owned(u) <=> \E q \in Procs : Live(q) /\ mine[q] = u
  <1>1. /\ TypeOK /\ Live(p) /\ mine[p] \in Trees
        /\ Numbering(p) /\ OwnTree(p) /\ Locking(p) /\ Recovering(p)
        /\ \A q \in Procs : q # p => Apart(p, q) /\ Apart(q, p) /\ OwnTree(q)
        /\ Trees \subseteq Nat /\ calls \in Nat
    BY Types DEF IInv, Live
  <1>2. InStore(p) /\ Needs(p) /\ ~Aims(p)
    BY <1>1 DEF InStore, Needs, Using, Aims, Sweeping
  <1>3. storeLock = p /\ mine[p] \notin todo[p]
    BY <1>1, <1>2 DEF Locking
  <1>4. \A t \in todo[p] : t \in Trees /\ t <= calls
    BY <1>1 DEF TypeOK, Numbering
  <1>5. \A u \in Trees : Owned(u) <=> \E q \in Procs : Live(q) /\ mine[q] = u
    BY DEF Owned, Live
  <1> QED BY <1>1, <1>2, <1>3, <1>4, <1>5

\* A tree passed over was not abandoned when the lock was taken.
LEMMA SkipKeeps ==
  ASSUME IInv, NEW p \in Procs, Skip(p)
  PROVE  IInv'
  <1>0. pc[p] = "recover"
    BY DEF Skip
  <1>1. PICK t \in todo[p] : ~Reclaimable(t) /\ todo' = [todo EXCEPT ![p] = @ \ {t}]
    BY DEF Skip, Looked
  <1>2. UNCHANGED <<tree, leaseOf, handles, storeLock, pc, mine, target, due, calls, faults>>
    BY DEF Skip, kernel, rest
  <1>3. TypeOK' /\ todo'[p] = todo[p] \ {t} /\ \A q \in Procs \ {p} : todo'[q] = todo[q]
    <2>1. TypeOK /\ todo[p] \ {t} \subseteq Trees
      BY <1>0, Looking DEF TypeOK
    <2> QED BY <1>1, <1>2, <2>1 DEF TypeOK
  <1>4. Numbering(p)' /\ OwnTree(p)' /\ InView(p)'
    <2>1. Numbering(p)'
      BY <1>0, <1>2, <1>3, Looking DEF Numbering, Live, Aims
    <2>2. OwnTree(p)'
      BY <1>0, <1>2, Looking DEF OwnTree, Needs, Foreign, Reclaimable
    <2>3. InView(p)'
      BY <1>0, <1>2 DEF InView
    <2> QED BY <2>1, <2>2, <2>3
  <1>5. Locking(p)'
    BY <1>0, <1>2, <1>3, Looking DEF Locking, InStore, Foreign, Aims
  <1>6. Recovering(p)'
    <2>1. SUFFICES ASSUME faults = MaxFaults, NEW u \in due[p]
                   PROVE  Fate(p, u)'
      BY <1>2 DEF Recovering
    <2>2. Fate(p, u) /\ ~Aims(p)
      BY <1>0, <2>1, Looking DEF Recovering
    <2>3. ~Owned(u)' /\ u <= calls'
      BY <1>2, <2>2 DEF Fate, Owned
    <2>4. ~tree[u].dir \/ (u \in todo'[p] /\ Waiting(u))
      BY <1>1, <1>3, <2>2 DEF Fate, Waiting
    <2>5. Waiting(u)' <=> Waiting(u)
      BY <1>2 DEF Waiting, Reclaimable
    <2> QED BY <1>2, <2>3, <2>4, <2>5 DEF Fate
  <1>7. ASSUME NEW q \in Procs, q # p
        PROVE  Apart(p, q)' /\ Apart(q, p)'
    BY <1>0, <1>2, <1>7, Looking DEF Apart, Aims, Needs, Foreign
  <1>8. Live(p)
    BY <1>0, Looking
  <1> QED BY <1>2, <1>3, <1>4, <1>5, <1>6, <1>7, <1>8, QuietStep

\* A tree that could be abandoned comes into view; nobody makes it.
LEMMA InspectKeeps ==
  ASSUME IInv, NEW p \in Procs, Inspect(p)
  PROVE  IInv'
  <1>0. pc[p] = "recover"
    BY DEF Inspect
  <1>1. PICK t \in todo[p] : /\ Reclaimable(t) /\ todo' = [todo EXCEPT ![p] = @ \ {t}]
                             /\ target' = [target EXCEPT ![p] = t]
    BY DEF Inspect, Looked
  <1>2. /\ UNCHANGED <<tree, leaseOf, handles, storeLock, mine, due, calls, faults>>
        /\ pc' = [pc EXCEPT ![p] = "openOther"]
    BY DEF Inspect, kernel, rest, Goto
  <1>3. /\ TypeOK' /\ todo'[p] = todo[p] \ {t} /\ target'[p] = t /\ pc'[p] = "openOther"
        /\ \A q \in Procs \ {p} :
              todo'[q] = todo[q] /\ target'[q] = target[q] /\ pc'[q] = pc[q]
    <2>1. TypeOK /\ todo[p] \ {t} \subseteq Trees /\ t \in Nat
      BY <1>0, Looking DEF TypeOK
    <2> QED BY <1>1, <1>2, <2>1 DEF TypeOK, Using
  <1>4. t \in Trees /\ t <= calls /\ t # mine[p]
    BY <1>0, Looking
  <1>5. Aims(p)' /\ InStore(p)' /\ Needs(p)' /\ Live(p)'
    BY <1>3 DEF Aims, InStore, Needs, Using, Live
  <1>6. Numbering(p)' /\ OwnTree(p)' /\ InView(p)'
    <2>1. Numbering(p)'
      BY <1>0, <1>2, <1>3, <1>4, Looking DEF Numbering, Live
    <2>2. OwnTree(p)'
      BY <1>0, <1>2, <1>3, Looking DEF OwnTree, Making, Reclaimable
    <2>3. InView(p)'
      BY <1>1, <1>2, <1>3 DEF InView, Reclaimable
    <2> QED BY <2>1, <2>2, <2>3
  <1>7. Locking(p)'
    BY <1>0, <1>2, <1>3, <1>5, Looking DEF Locking
  <1>8. Recovering(p)'
    <2>1. SUFFICES ASSUME faults = MaxFaults, NEW u \in due[p]
                   PROVE  Fate(p, u)'
      BY <1>2 DEF Recovering
    <2>2. Fate(p, u) /\ ~Aims(p)
      BY <1>0, <2>1, Looking DEF Recovering
    <2>3. ~Owned(u)'
      BY <1>0, <1>2, <1>3, <2>2 DEF Fate, Owned
    <2>4. u <= calls'
      BY <1>2, <2>2 DEF Fate
    <2>5. ~tree[u].dir \/ (u \in todo[p] /\ Waiting(u))
      BY <2>2 DEF Fate
    <2>6. Waiting(u)' <=> Waiting(u)
      BY <1>2 DEF Waiting, Reclaimable
    <2>7. CASE ~tree[u].dir
      BY <1>2, <2>3, <2>4, <2>7 DEF Fate
    <2>8. CASE u \in todo[p] /\ Waiting(u) /\ u = t
      BY <1>3, <1>5, <2>3, <2>4, <2>6, <2>8 DEF Fate
    <2>9. CASE u \in todo[p] /\ Waiting(u) /\ u # t
      BY <1>3, <2>3, <2>4, <2>6, <2>9 DEF Fate
    <2> QED BY <2>5, <2>7, <2>8, <2>9
  <1>9. ASSUME NEW q \in Procs, q # p
        PROVE  Apart(p, q)' /\ Apart(q, p)'
    <2>1. Apart(p, q)'
      BY <1>0, <1>2, <1>3, <1>9, Looking DEF Apart, Aims, Making
    <2>2. mine[q] = t => pc[q] \notin Making
      BY <1>0, <1>1, <1>9, Looking DEF OwnTree, Reclaimable
    <2>3. Apart(q, p)'
      BY <1>2, <1>3, <1>9, <2>2 DEF Apart, Sweeping
    <2> QED BY <2>1, <2>3
  <1>10. Live(p)
    BY <1>0, Looking
  <1> QED BY <1>2, <1>3, <1>6, <1>7, <1>8, <1>9, <1>10, QuietStep

-----------------------------------------------------------------------------
(* Steps at the tree in view                                               *)

\* What p, with a tree in view, knows of the others.
LEMMA Viewing ==
  ASSUME IInv, NEW p \in Procs, Aims(p)
  PROVE  /\ TypeOK /\ Live(p) /\ target[p] \in Trees /\ target[p] <= calls
         /\ target[p] \in Nat /\ calls \in Nat
         /\ Numbering(p) /\ OwnTree(p) /\ InView(p) /\ Locking(p) /\ Recovering(p)
         /\ Shape(target[p]) /\ tree[target[p]] \in Shapes
         /\ InStore(p) \/ target[p] = mine[p]
         /\ pc[p] \notin Sweeping => target[p] # mine[p] /\ InStore(p)
         /\ \A q \in Procs : q # p =>
               /\ Apart(p, q) /\ Apart(q, p) /\ OwnTree(q) /\ InView(q)
               /\ mine[q] = target[p] =>
                     pc[q] \notin Making /\ (pc[p] \in Sweeping => ~Needs(q))
  <1>1. /\ TypeOK /\ Live(p)
        /\ Numbering(p) /\ OwnTree(p) /\ InView(p) /\ Locking(p) /\ Recovering(p)
        /\ \A q \in Procs : q # p => Apart(p, q) /\ Apart(q, p) /\ OwnTree(q) /\ InView(q)
    BY Types DEF IInv, Live, Aims, Sweeping
  <1>2. /\ target[p] \in Trees /\ target[p] <= calls /\ target[p] \in Nat /\ calls \in Nat
        /\ Shape(target[p]) /\ tree[target[p]] \in Shapes
    <2>1. target[p] \in Trees /\ target[p] <= calls
      BY <1>1 DEF Numbering
    <2> QED BY <2>1, Types DEF IInv, TypeOK
  <1>3. /\ InStore(p) \/ target[p] = mine[p]
        /\ pc[p] \notin Sweeping => target[p] # mine[p] /\ InStore(p)
    BY <1>1 DEF Aims, InStore, Foreign, Numbering
  <1>4. \A q \in Procs : q # p /\ mine[q] = target[p] =>
            pc[q] \notin Making /\ (pc[p] \in Sweeping => ~Needs(q))
    BY <1>1 DEF Apart
  <1> QED BY <1>1, <1>2, <1>3, <1>4

\* p acts on the tree it has in view.  Of that tree it changes nothing that
\* others rely on: either the body alone goes, or the lease is gone already.
LEMMA TargetStep ==
  ASSUME IInv, TypeOK', NEW p \in Procs, Aims(p), NEW x \in Trees, x = target[p],
         NEW c \in {"idle", "recover", "tryLock"} \cup Sweeping,
         pc' = [pc EXCEPT ![p] = c],
         c = "idle" => target[p] = mine[p],
         c = "recover" => target[p] # mine[p],
         c = "tryLock" => pc[p] = "openOther",
         UNCHANGED <<storeLock, mine, target, todo, due, calls>>,
         faults' = MaxFaults => faults = MaxFaults,
         \A t \in Trees \ {x} :
            tree'[t] = tree[t] /\ leaseOf'[t] = leaseOf[t] /\ handles'[t] = handles[t],
         \A q \in Procs : q # p =>
            /\ leaseOf[x] = q => leaseOf'[x] = q
            /\ q \in handles[x] => q \in handles'[x],
         \/ tree'[x] = tree[x]
         \/ /\ pc[p] \in Sweeping /\ ~tree'[x].body
            /\ \/ /\ tree'[x].dir = tree[x].dir /\ tree'[x].lease = tree[x].lease
                  /\ tree'[x].marker = tree[x].marker
               \/ /\ ~tree'[x].lease /\ (tree[x].lease => handles[x] = {})
                  /\ tree'[x].dir \/ pc[p] = "rmdir",
         c \in Sweeping /\ pc[p] \notin Sweeping => leaseOf[x] = Nobody,
         pc[p] # "unmark" /\ c \in {"unmark", "rmdir"} => tree[x].lease,
         InView(p)', Shape(x)',
         storeLock = p /\ faults' = MaxFaults /\ x \in due[p] /\ Fate(p, x) => Fate(p, x)'
  PROVE  IInv'
  <1>1. /\ pc'[p] = c /\ (\A q \in Procs \ {p} : pc'[q] = pc[q]) /\ calls <= calls'
    BY Viewing DEF TypeOK
  <1>2. Touches(p, x)
    BY <1>1, Viewing DEF Touches
  <1>3. /\ InStore(p)' <=> InStore(p)
        /\ Foreign(p)' => target[p] # mine[p]
        /\ Needs(p)' => Needs(p) /\ target[p] # mine[p] /\ pc[p] # "fill"
        /\ c \notin Making /\ (Aims(p)' <=> c \notin {"idle", "recover"})
    <2>1. pc[p] \in Sweeping \/ (pc[p] \in Using /\ target[p] # mine[p])
      BY Viewing DEF Aims, Using
    <2>2. InStore(p)' <=> InStore(p)
      BY <1>1, <2>1, Viewing DEF InStore, Foreign, Sweeping, Aims
    <2>3. Foreign(p)' => target[p] # mine[p]
      BY DEF Foreign
    <2>4. Needs(p)' => Needs(p) /\ target[p] # mine[p] /\ pc[p] # "fill"
      BY <1>1, <2>1, Viewing DEF Needs, Foreign, Using, Sweeping, Aims
    <2>5. c \notin Making /\ (Aims(p)' <=> c \notin {"idle", "recover"})
      BY <1>1 DEF Making, Sweeping, Aims
    <2> QED BY <2>2, <2>3, <2>4, <2>5
  <1>4. Numbering(p)'
    BY <1>1, Viewing DEF Numbering, Live, Aims, Sweeping
  <1>5. OwnTree(p)'
    <2>1. CASE Needs(p)'
      <3>1. mine[p] \in Trees \ {x}
        BY <1>3, <2>1, Viewing DEF Numbering
      <3> QED BY <1>1, <1>3, <2>1, <3>1, Viewing DEF OwnTree, Reclaimable
    <2>2. CASE ~Needs(p)'
      BY <1>1, <1>3, <2>2 DEF OwnTree, Making
    <2> QED BY <2>1, <2>2
  <1>6. Locking(p)'
    BY <1>3, Viewing DEF Locking
  <1>7. Recovering(p)'
    <2>1. SUFFICES ASSUME storeLock = p, faults' = MaxFaults, NEW u \in due[p]
                   PROVE  Fate(p, u)'
      BY DEF Recovering
    <2>2. Fate(p, u) /\ u \in Trees
      BY <2>1, Viewing DEF Recovering, TypeOK
    <2>3. CASE u = x
      BY <2>1, <2>2, <2>3
    <2>4. CASE u # x
      <3>1. ~Owned(u)' /\ u <= calls'
        BY <1>1, <2>2, Viewing DEF Fate, Owned, Live
      <3>2. ~tree[u].dir \/ (u \in todo[p] /\ Waiting(u))
        BY <2>2, <2>4 DEF Fate
      <3>3. (Waiting(u)' <=> Waiting(u)) /\ tree'[u] = tree[u]
        BY <2>2, <2>4 DEF Waiting, Reclaimable
      <3> QED BY <3>1, <3>2, <3>3 DEF Fate
    <2> QED BY <2>3, <2>4
  <1>8. ASSUME NEW q \in Procs, q # p
        PROVE  /\ Live(q) /\ mine[q] = x => OwnTree(q)'
               /\ Aims(q) /\ target[q] = x => InView(q)'
               /\ Apart(p, q)' /\ Apart(q, p)'
    <2>1. ASSUME mine[q] = x
          PROVE  OwnTree(q)' /\ (c \in Sweeping => ~Needs(q))
      <3>1. pc[q] \notin Making /\ (pc[p] \in Sweeping => ~Needs(q)) /\ OwnTree(q)
        BY <1>8, <2>1, Viewing
      <3>2. c \in Sweeping => ~Needs(q)
        BY <1>8, <2>1, <3>1, Types DEF OwnTree
      <3>3. Needs(q)' <=> Needs(q)
        BY <1>1, <1>8 DEF Needs, Foreign
      <3>4. CASE Needs(q)
        <4>1. tree'[x] = tree[x]
          BY <3>1, <3>4
        <4> QED BY <1>1, <1>8, <2>1, <3>1, <3>2, <3>3, <3>4, <4>1 DEF OwnTree, Reclaimable, Making
      <3>5. CASE ~Needs(q)
        BY <1>1, <1>8, <3>1, <3>3, <3>5 DEF OwnTree, Making
      <3> QED BY <3>2, <3>4, <3>5
    <2>2. ASSUME target[q] = x, Aims(q)
          PROVE  InView(q)'
      <3>1. InView(q) /\ pc'[q] = pc[q] /\ Apart(p, q)
        BY <1>1, <1>8, Viewing
      <3>2. CASE /\ tree'[x].dir = tree[x].dir /\ tree'[x].lease = tree[x].lease
                 /\ tree'[x].marker = tree[x].marker
                 /\ tree'[x].body => tree[x].body
        BY <1>8, <2>2, <3>1, <3>2 DEF InView, Reclaimable
      <3>3. CASE /\ ~tree'[x].lease /\ ~tree'[x].body /\ (tree[x].lease => handles[x] = {})
                 /\ tree'[x].dir \/ pc[p] = "rmdir"
        <4>1. pc[q] \notin {"tryLock", "body", "release"}
          BY <2>2, <3>1, <3>3 DEF InView, Reclaimable
        <4>2. pc[q] \in {"unmark", "rmdir"} => tree'[x].dir
          BY <2>2, <3>1, <3>3 DEF Apart
        <4> QED BY <2>2, <3>1, <3>3, <4>1, <4>2 DEF InView
      <3> QED BY <3>2, <3>3
    <2>3. Apart(p, q)'
      <3>1. Apart(p, q) /\ pc'[q] = pc[q]
        BY <1>1, <1>8, Viewing
      <3>2. pc[p] # "unmark" /\ c \in {"unmark", "rmdir"} /\ pc[q] \in {"unmark", "rmdir"}
               => target[q] # x
        BY <1>8, Viewing DEF InView
      <3> QED BY <1>1, <1>3, <3>1, <3>2 DEF Apart, Aims
    <2>4. Apart(q, p)'
      <3>1. Apart(q, p) /\ pc'[q] = pc[q] /\ (Needs(q)' <=> Needs(q))
        BY <1>1, <1>8, Viewing DEF Needs, Foreign
      <3>2. Apart(p, q)'
        BY <2>3
      <3> QED BY <1>1, <1>3, <2>1, <3>1, <3>2 DEF Apart
    <2> QED BY <2>1, <2>2, <2>3, <2>4
  <1> QED BY <1>2, <1>4, <1>5, <1>6, <1>7, <1>8, TreeStep

\* The lease of a tree in view is opened, and locked if nobody holds it.
LEMMA AimKeeps ==
  ASSUME IInv, NEW p \in Procs, OpenOther(p) \/ TryLock(p)
  PROVE  IInv'
  <1>0. pc[p] \in {"openOther", "tryLock"} /\ Aims(p) /\ pc[p] \notin Sweeping
    BY DEF OpenOther, TryLock, Aims, Sweeping
  <1>1. PICK x \in Trees : x = target[p]
    BY <1>0, Viewing
  <1>2. /\ UNCHANGED <<tree, storeLock, mine, target, todo, due, calls, faults>>
        /\ tree'[x] = tree[x] /\ \A t \in Trees \ {x} : tree'[t] = tree[t]
    BY DEF OpenOther, TryLock, CloseLease, local, rest
  <1>3. Shape(x) /\ ~(x > calls) /\ TypeOK /\ target[p] # mine[p]
    BY <1>0, <1>1, Viewing
  <1>4. Shape(x)'
    BY <1>2, <1>3 DEF Shape, Reclaimable
  <1>5. InView(p) /\ (Fate(p, x) => ~Owned(x) /\ x <= calls)
    BY <1>0, Viewing DEF Fate
  <1>6. ASSUME ~tree[x].dir, Fate(p, x), pc' = [pc EXCEPT ![p] = "recover"]
        PROVE  Fate(p, x)'
    <2>1. ~Owned(x)'
      BY <1>0, <1>2, <1>3, <1>5, <1>6 DEF Owned, TypeOK
    <2> QED BY <1>2, <1>5, <1>6, <2>1 DEF Fate
  <1>7. Fate(p, x) => ~Owned(x) /\ (tree[x].dir =>
            /\ pc[p] = "openOther" => Waiting(x)
            /\ pc[p] = "tryLock" => leaseOf[x] = Nobody /\ handles[x] = {p} /\ Reclaimable(x))
    <2>1. pc[p] = "tryLock" => Reclaimable(x)
      BY <1>1, <1>5 DEF InView
    <2>2. x \notin todo[p]
      BY <1>0, <1>1, <1>3, Viewing DEF Locking
    <2> QED BY <2>1, <2>2 DEF Fate
  <1>8. CASE OpenOther(p) /\ tree[x].lease
    <2>1. /\ handles' = [handles EXCEPT ![x] = @ \cup {p}] /\ leaseOf' = leaseOf
          /\ pc' = [pc EXCEPT ![p] = "tryLock"] /\ pc[p] = "openOther"
      BY <1>1, <1>8 DEF OpenOther, Goto
    <2>2. TypeOK' /\ pc'[p] = "tryLock" /\ handles'[x] = handles[x] \cup {p}
      BY <1>2, <1>3, <2>1 DEF TypeOK, Using
    <2>3. InView(p)'
      BY <1>1, <1>2, <1>5, <1>8, <2>1, <2>2 DEF InView, Reclaimable
    <2>4. Shape(x)' /\ \A t \in Trees \ {x} : handles'[t] = handles[t]
      BY <1>3, <1>4, <2>1 DEF TypeOK
    <2>5. Fate(p, x) => Fate(p, x)'
      <3>1. Owned(x)' <=> Owned(x)
        BY <1>2, <1>3, <2>1 DEF Owned, TypeOK
      <3>2. CASE tree[x].dir
        BY <1>1, <1>2, <1>5, <1>7, <2>1, <2>2, <3>1, <3>2 DEF Fate, Waiting, Aims
      <3>3. CASE ~tree[x].dir
        BY <1>2, <1>5, <3>1, <3>3 DEF Fate
      <3> QED BY <3>2, <3>3
    <2> QED BY <1>0, <1>1, <1>2, <2>1, <2>2, <2>3, <2>4, <2>5, TargetStep DEF Sweeping
  <1>9. CASE OpenOther(p) /\ ~tree[x].lease
    <2>1. /\ UNCHANGED <<leaseOf, handles>> /\ pc[p] = "openOther"
          /\ pc' = [pc EXCEPT ![p] = "recover"]
      BY <1>1, <1>9 DEF OpenOther, Goto
    <2>2. TypeOK' /\ pc'[p] = "recover"
      BY <1>2, <1>3, <2>1 DEF TypeOK, Using
    <2>3. InView(p)'
      BY <2>2 DEF InView
    <2>4. Fate(p, x) => Fate(p, x)'
      BY <1>6, <1>7, <1>9, <2>1 DEF Waiting, Reclaimable
    <2> QED BY <1>0, <1>1, <1>2, <1>3, <1>4, <2>1, <2>2, <2>3, <2>4, TargetStep DEF Sweeping
  <1>10. CASE TryLock(p) /\ leaseOf[x] = Nobody /\ Reclaimable(x)
    <2>1. /\ leaseOf' = [leaseOf EXCEPT ![x] = p] /\ handles' = handles
          /\ pc' = [pc EXCEPT ![p] = "body"] /\ pc[p] = "tryLock"
      BY <1>1, <1>10 DEF TryLock, Goto
    <2>2. TypeOK' /\ pc'[p] = "body" /\ leaseOf'[x] = p
      BY <1>2, <1>3, <2>1 DEF TypeOK, Sweeping
    <2>3. InView(p)'
      BY <1>1, <1>2, <1>5, <1>10, <2>1, <2>2 DEF InView, Reclaimable
    <2>4. Shape(x)' /\ \A t \in Trees \ {x} : leaseOf'[t] = leaseOf[t]
      BY <1>2, <1>3, <1>4, <2>1 DEF TypeOK, Shape, Reclaimable
    <2>5. Fate(p, x) => Fate(p, x)'
      <3>1. Owned(x)' <=> Owned(x)
        BY <1>2, <1>3, <2>1 DEF Owned, TypeOK
      <3>2. CASE tree[x].dir
        BY <1>1, <1>2, <1>5, <1>7, <2>1, <2>2, <3>1, <3>2 DEF Fate, Aims, Sweeping
      <3>3. CASE ~tree[x].dir
        BY <1>2, <1>5, <3>1, <3>3 DEF Fate
      <3> QED BY <3>2, <3>3
    <2>6. \A q \in Procs : leaseOf[x] # q
      BY <1>10, Types
    <2> QED BY <1>0, <1>1, <1>2, <1>10, <2>1, <2>2, <2>3, <2>4, <2>5, <2>6, TargetStep
            DEF Sweeping
  <1>11. CASE TryLock(p) /\ ~(leaseOf[x] = Nobody /\ Reclaimable(x))
    <2>1. /\ leaseOf' = [leaseOf EXCEPT ![x] = IF @ = p THEN Nobody ELSE @]
          /\ handles' = [handles EXCEPT ![x] = @ \ {p}]
          /\ pc' = [pc EXCEPT ![p] = "recover"] /\ pc[p] = "tryLock"
      BY <1>1, <1>11 DEF TryLock, Goto, CloseLease
    <2>2. TypeOK' /\ pc'[p] = "recover"
      BY <1>2, <1>3, <2>1 DEF TypeOK, Using
    <2>3. InView(p)'
      BY <2>2 DEF InView
    <2>4. /\ Shape(x)'
          /\ \A t \in Trees \ {x} : leaseOf'[t] = leaseOf[t] /\ handles'[t] = handles[t]
          /\ \A q \in Procs : q # p =>
                /\ leaseOf[x] = q => leaseOf'[x] = q
                /\ q \in handles[x] => q \in handles'[x]
      BY <1>2, <1>3, <2>1 DEF TypeOK, Shape, Reclaimable
    <2>5. Fate(p, x) => Fate(p, x)'
      BY <1>6, <1>7, <1>11, <2>1
    <2> QED BY <1>0, <1>1, <1>2, <1>3, <2>1, <2>2, <2>3, <2>4, <2>5, TargetStep DEF Sweeping
  <1> QED BY <1>1, <1>8, <1>9, <1>10, <1>11

\* What a sweep knows of its tree, and what of it survives the step.
LEMMA Sweeps ==
  ASSUME IInv, NEW p \in Procs, pc[p] \in Sweeping, NEW x \in Trees, x = target[p],
         NEW c \in {"idle", "recover"} \cup Sweeping, pc' = [pc EXCEPT ![p] = c],
         UNCHANGED <<mine, calls>>
  PROVE  /\ Aims(p) /\ TypeOK /\ InView(p) /\ Shape(x) /\ x <= calls /\ ~(x > calls)
         /\ pc'[p] = c /\ tree[x] \in Shapes
         /\ storeLock = p => target[p] # mine[p]
         /\ storeLock = p /\ Fate(p, x) =>
               /\ ~Owned(x)' /\ x <= calls'
               /\ tree[x].dir => /\ pc[p] \in {"body", "release"} => handles[x] = {p}
                                 /\ pc[p] = "unlease" => tree[x].lease /\ handles[x] = {}
  <1>1. Aims(p) /\ pc[p] \notin {"recover", "openOther", "tryLock"}
    BY DEF Aims, Sweeping
  <1>2. TypeOK /\ pc'[p] = c /\ \A q \in Procs \ {p} : pc'[q] = pc[q]
    BY <1>1, Viewing DEF TypeOK
  <1>3. x <= calls /\ ~(x > calls) /\ InView(p) /\ Shape(x) /\ tree[x] \in Shapes
    BY <1>1, Viewing
  <1>4. storeLock = p => target[p] # mine[p] /\ x \notin todo[p]
    BY <1>1, Viewing DEF Locking, InStore, Foreign
  <1>5. ~Owned(x) => ~Owned(x)'
    BY <1>1, <1>2, Viewing DEF Owned, Live
  <1>6. storeLock = p /\ Fate(p, x) /\ tree[x].dir =>
            /\ pc[p] \in {"body", "release"} => handles[x] = {p}
            /\ pc[p] = "unlease" => tree[x].lease /\ handles[x] = {}
    BY <1>4 DEF Fate
  <1> QED BY <1>1, <1>2, <1>3, <1>4, <1>5, <1>6 DEF Fate

\* The body goes, then the lease is let go.
LEMMA BodyKeeps ==
  ASSUME IInv, NEW p \in Procs, SweepBody(p) \/ ReleaseLease(p)
  PROVE  IInv'
  <1>0. pc[p] \in Sweeping
    BY DEF SweepBody, ReleaseLease, Sweeping
  <1>1. PICK x \in Trees : x = target[p]
    BY <1>0, Viewing DEF Aims
  <1>2. UNCHANGED <<storeLock, mine, target, todo, due, calls, faults>>
    BY DEF SweepBody, ReleaseLease, CloseLease, local, rest, kernel
  <1>3. /\ TypeOK /\ Aims(p) /\ tree[x] \in Shapes
        /\ pc[p] \in {"body", "release"} => /\ Reclaimable(x) /\ p \in handles[x]
                                            /\ leaseOf[x] = p
    BY <1>0, <1>1, Viewing DEF Aims, InView
  <1>4. CASE SweepBody(p)
    <2> DEFINE shape == [tree[x] EXCEPT !.body = FALSE]
    <2>1. /\ tree' = [tree EXCEPT ![x] = shape] /\ pc' = [pc EXCEPT ![p] = "release"]
          /\ UNCHANGED <<leaseOf, handles>> /\ pc[p] = "body"
      BY <1>1, <1>4 DEF SweepBody, Edit, Goto, kernel
    <2>2. /\ shape \in Shapes /\ ~shape.body /\ shape.dir = tree[x].dir
          /\ shape.lease = tree[x].lease /\ shape.marker = tree[x].marker
      BY <1>3 DEF Shapes
    <2> HIDE DEF shape
    <2>3. TypeOK' /\ tree'[x] = shape /\ \A t \in Trees \ {x} : tree'[t] = tree[t]
      BY <1>2, <1>3, <2>1, <2>2 DEF TypeOK, Sweeping
    <2>4. pc'[p] = "release" /\ Shape(x) /\ ~(x > calls) /\ "release" \in Sweeping
      BY <1>0, <1>1, <1>2, <2>1, Sweeps DEF Sweeping
    <2>5. InView(p)' /\ Shape(x)'
      BY <1>1, <1>2, <1>3, <2>1, <2>2, <2>3, <2>4 DEF InView, Shape, Reclaimable
    <2>6. storeLock = p /\ Fate(p, x) => Fate(p, x)'
      <3>1. SUFFICES ASSUME storeLock = p, Fate(p, x)
                     PROVE  Fate(p, x)'
        OBVIOUS
      <3>2. ~Owned(x)' /\ x <= calls' /\ (tree[x].dir => handles[x] = {p})
        BY <1>0, <1>1, <1>2, <2>1, <2>4, <3>1, Sweeps
      <3> QED BY <1>1, <1>2, <2>1, <2>2, <2>3, <2>4, <3>2 DEF Fate, Aims
    <2>7. \A q \in Procs : /\ leaseOf[x] = q => leaseOf'[x] = q
                           /\ q \in handles[x] => q \in handles'[x]
      BY <2>1
    <2>8. /\ pc[p] \in Sweeping /\ ~tree'[x].body
          /\ tree'[x].dir = tree[x].dir /\ tree'[x].lease = tree[x].lease
          /\ tree'[x].marker = tree[x].marker
      BY <1>0, <2>2, <2>3
    <2> QED BY <1>1, <1>2, <1>3, <2>1, <2>3, <2>4, <2>5, <2>6, <2>7, <2>8, TargetStep
            DEF Sweeping
  <1>5. CASE ReleaseLease(p)
    <2>1. /\ leaseOf' = [leaseOf EXCEPT ![x] = IF @ = p THEN Nobody ELSE @]
          /\ handles' = [handles EXCEPT ![x] = @ \ {p}]
          /\ tree' = tree /\ pc' = [pc EXCEPT ![p] = "unlease"] /\ pc[p] = "release"
      BY <1>1, <1>5 DEF ReleaseLease, CloseLease, Goto
    <2>2. TypeOK' /\ handles'[x] = handles[x] \ {p}
      BY <1>2, <1>3, <2>1 DEF TypeOK, Sweeping
    <2>3. pc'[p] = "unlease" /\ Shape(x) /\ ~(x > calls) /\ InView(p) /\ "unlease" \in Sweeping
      BY <1>0, <1>1, <1>2, <2>1, Sweeps DEF Sweeping
    <2>4. InView(p)' /\ Shape(x)'
      BY <1>1, <1>2, <2>1, <2>3 DEF InView, Shape, Reclaimable
    <2>5. storeLock = p /\ Fate(p, x) => Fate(p, x)'
      <3>1. SUFFICES ASSUME storeLock = p, Fate(p, x)
                     PROVE  Fate(p, x)'
        OBVIOUS
      <3>2. ~Owned(x)' /\ x <= calls' /\ (tree[x].dir => handles[x] = {p})
        BY <1>0, <1>1, <1>2, <2>1, <2>3, <3>1, Sweeps
      <3> QED BY <1>1, <1>2, <1>3, <2>1, <2>2, <2>3, <3>2 DEF Fate, Aims, Reclaimable
    <2>6. /\ \A t \in Trees \ {x} : leaseOf'[t] = leaseOf[t] /\ handles'[t] = handles[t]
          /\ \A q \in Procs : q # p =>
                /\ leaseOf[x] = q => leaseOf'[x] = q
                /\ q \in handles[x] => q \in handles'[x]
      BY <1>3, <2>1 DEF TypeOK
    <2> QED BY <1>0, <1>1, <1>2, <1>3, <2>1, <2>2, <2>3, <2>4, <2>5, <2>6, TargetStep
            DEF Sweeping
  <1> QED BY <1>4, <1>5

\* The lease file is unlinked if nobody has it open, then the marker.
LEMMA UnlinkKeeps ==
  ASSUME IInv, NEW p \in Procs, NEW x \in Trees, x = target[p],
         \/ UnlinkLease(p) /\ tree[x].lease /\ handles[x] = {}
         \/ UnlinkMarker(p)
  PROVE  IInv'
  <1>0. pc[p] \in Sweeping
    BY DEF UnlinkLease, UnlinkMarker, Sweeping
  <1>1. /\ UNCHANGED <<leaseOf, handles, storeLock, mine, target, todo, due, calls, faults>>
        /\ TypeOK /\ Aims(p) /\ tree[x] \in Shapes /\ InView(p) /\ Shape(x)
    BY <1>0, Viewing DEF Aims, UnlinkLease, UnlinkMarker, local, rest, kernel
  <1>2. ASSUME NEW m \in {"none", "torn", "whole"}, NEW c \in {"unmark", "rmdir"},
               tree' = [tree EXCEPT ![x] = [tree[x] EXCEPT !.lease = FALSE, !.marker = m]],
               pc' = [pc EXCEPT ![p] = c],
               \/ /\ pc[p] = "unlease" /\ c = "unmark" /\ m = tree[x].marker
                  /\ tree[x].lease /\ handles[x] = {}
               \/ pc[p] = "unmark" /\ c = "rmdir" /\ m = "none"
        PROVE  IInv'
    <2> DEFINE shape == [tree[x] EXCEPT !.lease = FALSE, !.marker = m]
    <2>1. /\ shape \in Shapes /\ ~shape.lease /\ shape.marker = m
          /\ shape.dir = tree[x].dir /\ shape.body = tree[x].body
      BY <1>1 DEF Shapes
    <2> HIDE DEF shape
    <2>2. tree' = [tree EXCEPT ![x] = shape]
      BY <1>2 DEF shape
    <2>3. TypeOK' /\ tree'[x] = shape /\ \A t \in Trees \ {x} : tree'[t] = tree[t]
      BY <1>1, <1>2, <2>1, <2>2 DEF TypeOK, Sweeping
    <2>4. pc'[p] = c /\ ~(x > calls) /\ c \in Sweeping
      BY <1>0, <1>1, <1>2, Sweeps DEF Sweeping
    <2>5. ~tree[x].body /\ tree[x].dir /\ (tree[x].lease => handles[x] = {})
      BY <1>1, <1>2 DEF InView, Shape
    <2>6. InView(p)' /\ Shape(x)'
      BY <1>1, <1>2, <2>1, <2>3, <2>4, <2>5 DEF InView, Shape, Reclaimable
    <2>7. storeLock = p /\ Fate(p, x) => Fate(p, x)'
      <3>1. SUFFICES ASSUME storeLock = p, Fate(p, x)
                     PROVE  Fate(p, x)'
        OBVIOUS
      <3>2. ~Owned(x)' /\ x <= calls'
        BY <1>0, <1>1, <1>2, <2>4, <3>1, Sweeps
      <3> QED BY <1>1, <1>2, <2>4, <3>2 DEF Fate, Aims
    <2>8. /\ ~tree'[x].body /\ ~tree'[x].lease /\ tree'[x].dir
          /\ pc[p] # "unmark" /\ c \in {"unmark", "rmdir"} => tree[x].lease
      BY <1>2, <2>1, <2>3, <2>5
    <2>9. c \in {"idle", "recover", "tryLock"} \cup Sweeping /\ c \notin {"idle", "recover", "tryLock"}
      BY <1>2, <2>4
    <2> QED BY <1>0, <1>1, <1>2, <2>3, <2>5, <2>6, <2>7, <2>8, <2>9, TargetStep
  <1>3. CASE UnlinkLease(p) /\ tree[x].lease /\ handles[x] = {}
    <2>1. [tree[x] EXCEPT !.lease = FALSE] =
              [tree[x] EXCEPT !.lease = FALSE, !.marker = tree[x].marker]
      BY <1>1 DEF Shapes
    <2>2. tree[x].marker \in {"none", "torn", "whole"}
      BY <1>1 DEF Shapes
    <2> QED BY <1>2, <1>3, <2>1, <2>2 DEF UnlinkLease, Edit, Goto
  <1>4. CASE UnlinkMarker(p)
    <2>1. ~tree[x].lease
      BY <1>1, <1>4 DEF InView, UnlinkMarker
    <2>2. [tree[x] EXCEPT !.marker = "none"] =
              [tree[x] EXCEPT !.lease = FALSE, !.marker = "none"]
      BY <1>1, <2>1 DEF Shapes
    <2> QED BY <1>2, <1>4, <2>2 DEF UnlinkMarker, Edit, Goto
  <1> QED BY <1>3, <1>4

\* A sweep ends when the tree is gone, when another sweeps it, or with an
\* I/O error.
LEMMA EndKeeps ==
  ASSUME IInv, NEW p \in Procs, NEW x \in Trees, x = target[p],
         \/ UnlinkLease(p) /\ ~(tree[x].lease /\ handles[x] = {})
         \/ Rmdir(p)
         \/ SweepFails(p)
  PROVE  IInv'
  <1>0. pc[p] \in Sweeping
    BY DEF UnlinkLease, Rmdir, SweepFails, Sweeping
  <1>1. PICK c \in {"idle", "recover"} : c = IF target[p] = mine[p] THEN "idle" ELSE "recover"
    OBVIOUS
  <1>2. /\ UNCHANGED <<storeLock, mine, target, todo, due, calls>>
        /\ pc' = [pc EXCEPT ![p] = c]
    BY <1>1 DEF UnlinkLease, Rmdir, SweepFails, CloseLease, local, rest, kernel, Swept, Goto
  <1>3. /\ TypeOK /\ Aims(p) /\ tree[x] \in Shapes /\ InView(p) /\ Shape(x)
        /\ pc'[p] = c /\ ~(x > calls) /\ (storeLock = p => c = "recover")
    BY <1>0, <1>1, <1>2, Sweeps
  <1>4. ASSUME TypeOK', faults' = MaxFaults => faults = MaxFaults,
               \A t \in Trees \ {x} :
                  tree'[t] = tree[t] /\ leaseOf'[t] = leaseOf[t] /\ handles'[t] = handles[t],
               \A q \in Procs : q # p =>
                  /\ leaseOf[x] = q => leaseOf'[x] = q
                  /\ q \in handles[x] => q \in handles'[x],
               \/ tree'[x] = tree[x]
               \/ pc[p] = "rmdir" /\ tree'[x] = NoTree,
               faults' = MaxFaults /\ storeLock = p /\ Fate(p, x) => ~tree'[x].dir
        PROVE  IInv'
    <2>1. ~NoTree.dir /\ ~NoTree.lease /\ ~NoTree.body /\ NoTree.marker = "none"
      BY DEF NoTree
    <2>2. InView(p)'
      BY <1>1, <1>3 DEF InView
    <2>3. Shape(x)'
      BY <1>2, <1>3, <1>4, <2>1 DEF Shape, Reclaimable
    <2>4. storeLock = p /\ faults' = MaxFaults /\ Fate(p, x) => Fate(p, x)'
      <3>1. storeLock = p /\ Fate(p, x) => ~Owned(x)' /\ x <= calls'
        BY <1>0, <1>1, <1>2, Sweeps
      <3> QED BY <1>4, <3>1 DEF Fate
    <2>5. /\ c = "idle" => target[p] = mine[p]
          /\ c = "recover" => target[p] # mine[p]
          /\ c \notin Sweeping /\ c \notin {"tryLock", "unmark", "rmdir"}
      BY <1>1 DEF Sweeping
    <2>6. pc[p] = "rmdir" => ~tree[x].lease
      BY <1>3 DEF InView
    <2>7. \/ tree'[x] = tree[x]
          \/ /\ pc[p] \in Sweeping /\ ~tree'[x].body /\ ~tree'[x].lease
             /\ (tree[x].lease => handles[x] = {}) /\ pc[p] = "rmdir"
      BY <1>0, <1>4, <2>1, <2>6
    <2> QED BY <1>2, <1>3, <1>4, <2>2, <2>3, <2>4, <2>5, <2>7, TargetStep
  <1>5. storeLock = p /\ Fate(p, x) /\ tree[x].dir /\ pc[p] = "unlease" =>
            tree[x].lease /\ handles[x] = {}
    BY <1>0, <1>1, <1>2, Sweeps
  <1>6. CASE UnlinkLease(p) /\ ~(tree[x].lease /\ handles[x] = {})
    <2>1. UNCHANGED <<tree, leaseOf, handles, faults>> /\ pc[p] = "unlease"
      BY <1>6 DEF UnlinkLease, kernel, rest
    <2>2. TypeOK'
      BY <1>2, <1>3, <2>1 DEF TypeOK, Using
    <2> QED BY <1>4, <1>5, <1>6, <2>1, <2>2
  <1>7. CASE Rmdir(p)
    <2>1. /\ UNCHANGED <<leaseOf, handles, faults>> /\ pc[p] = "rmdir"
          /\ tree' = [tree EXCEPT ![x] = NoTree]
      BY <1>7 DEF Rmdir, kernel, rest, Edit
    <2>2. NoTree \in Shapes /\ ~NoTree.dir
      BY DEF NoTree, Shapes
    <2>3. TypeOK' /\ tree'[x] = NoTree /\ \A t \in Trees \ {x} : tree'[t] = tree[t]
      BY <1>2, <1>3, <2>1, <2>2 DEF TypeOK, Using
    <2> QED BY <1>4, <2>1, <2>2, <2>3
  <1>8. CASE SweepFails(p)
    <2>1. /\ tree' = tree /\ faults' = faults - 1 /\ faults > 0
          /\ leaseOf' = [leaseOf EXCEPT ![x] = IF @ = p THEN Nobody ELSE @]
          /\ handles' = [handles EXCEPT ![x] = @ \ {p}]
      BY <1>8 DEF SweepFails, CloseLease
    <2>2. faults' \in 0 .. MaxFaults /\ faults' # MaxFaults
      BY <1>3, <2>1, StagingAssumption DEF TypeOK
    <2>3. TypeOK'
      BY <1>2, <1>3, <2>1, <2>2 DEF TypeOK, Using
    <2>4. /\ \A t \in Trees \ {x} : leaseOf'[t] = leaseOf[t] /\ handles'[t] = handles[t]
          /\ \A q \in Procs : q # p =>
                /\ leaseOf[x] = q => leaseOf'[x] = q
                /\ q \in handles[x] => q \in handles'[x]
      BY <1>3, <2>1 DEF TypeOK
    <2> QED BY <1>4, <2>1, <2>2, <2>3, <2>4
  <1> QED BY <1>6, <1>7, <1>8

-----------------------------------------------------------------------------
(* The commit, a kill, and all steps                                       *)

\* The commit takes the body out of the tree and lets the write lock go.
LEMMA CommitKeeps ==
  ASSUME IInv, NEW p \in Procs, Commit(p)
  PROVE  IInv'
  <1>0. pc[p] = "recover"
    BY DEF Commit
  <1>1. PICK x \in Trees : x = mine[p]
    BY <1>0, Looking
  <1>2. /\ UNCHANGED <<leaseOf, handles, mine, todo, due, calls, faults>>
        /\ storeLock' = Nobody /\ target' = [target EXCEPT ![p] = x]
        /\ pc' = [pc EXCEPT ![p] = "body"]
    BY <1>1 DEF Commit, Goto
  <1>3. /\ TypeOK /\ tree[x] \in Shapes /\ Shape(x) /\ ~(x > calls) /\ Live(p)
        /\ Reclaimable(x) /\ leaseOf[x] = p /\ p \in handles[x] /\ x <= calls
        /\ storeLock = p /\ Nobody \notin Procs /\ calls \in Nat /\ x \in Nat
    <2>1. Shape(x) /\ TypeOK /\ Live(p) /\ Nobody \notin Procs /\ x \in Nat /\ calls \in Nat
      BY <1>0, Looking, Types DEF IInv
    <2>2. Reclaimable(x) /\ leaseOf[x] = p /\ p \in handles[x] /\ x <= calls /\ storeLock = p
      BY <1>0, <1>1, Looking DEF OwnTree, Numbering
    <2>3. ~(x > calls) /\ tree[x] \in Shapes
      BY <2>1, <2>2 DEF TypeOK
    <2> QED BY <2>1, <2>2, <2>3
  <1>4. PICK b \in BOOLEAN : tree' = [tree EXCEPT ![x] = [tree[x] EXCEPT !.body = b]]
    <2>1. CASE tree' = tree
      <3>1. [tree[x] EXCEPT !.body = tree[x].body] = tree[x] /\ tree[x].body \in BOOLEAN
        BY <1>3 DEF Shapes
      <3>2. [tree EXCEPT ![x] = tree[x]] = tree
        BY <1>3 DEF TypeOK
      <3> QED BY <2>1, <3>1, <3>2
    <2>2. CASE Edit(mine[p], [tree[mine[p]] EXCEPT !.body = FALSE])
      BY <1>1, <2>2 DEF Edit
    <2> QED BY <2>1, <2>2 DEF Commit
  <1> DEFINE shape == [tree[x] EXCEPT !.body = b]
  <1>5. /\ shape \in Shapes /\ shape.dir = tree[x].dir /\ shape.lease = tree[x].lease
        /\ shape.marker = tree[x].marker /\ tree' = [tree EXCEPT ![x] = shape]
    BY <1>3, <1>4 DEF Shapes
  <1> HIDE DEF shape
  <1>6. /\ TypeOK' /\ tree'[x] = shape /\ pc'[p] = "body" /\ target'[p] = x
        /\ \A t \in Trees \ {x} : tree'[t] = tree[t]
        /\ \A q \in Procs \ {p} : pc'[q] = pc[q] /\ target'[q] = target[q]
    BY <1>2, <1>3, <1>5 DEF TypeOK, Sweeping
  <1>7. ~(tree[x].body) => ~shape.body
    <2>1. tree[x].body
      BY <1>0, <1>1, Looking DEF OwnTree
    <2> QED BY <2>1
  <1>8. Reclaimable(x)'
    BY <1>3, <1>5, <1>6 DEF Reclaimable
  <1>9. Touches(p, x)
    BY <1>1, <1>2, <1>3, <1>6 DEF Touches
  <1>10. ~InStore(p)' /\ ~Needs(p)'
    BY <1>1, <1>2, <1>6 DEF InStore, Needs, Foreign, Using
  <1>11. Numbering(p)'
    BY <1>0, <1>1, <1>2, <1>3, <1>6, Looking DEF Numbering, Live
  <1>12. OwnTree(p)' /\ InView(p)' /\ Shape(x)'
    <2>1. OwnTree(p)'
      BY <1>6, <1>10 DEF OwnTree, Making
    <2>2. InView(p)'
      BY <1>2, <1>3, <1>6, <1>8 DEF InView
    <2>3. Shape(x)'
      BY <1>2, <1>3, <1>5, <1>6, <1>8 DEF Shape
    <2> QED BY <2>1, <2>2, <2>3
  <1>13. Locking(p)' /\ Recovering(p)'
    BY <1>2, <1>3, <1>10 DEF Locking, Recovering
  <1>14. ASSUME NEW q \in Procs, q # p
         PROVE  /\ Live(q) /\ mine[q] = x => OwnTree(q)'
                /\ Aims(q) /\ target[q] = x => InView(q)'
                /\ Apart(p, q)' /\ Apart(q, p)'
    <2>1. mine[q] # x /\ Apart(p, q) /\ Apart(q, p) /\ Needs(p)
      BY <1>0, <1>1, <1>14, Looking DEF Numbering
    <2>2. Aims(q) /\ target[q] = x => InView(q)'
      <3>1. ASSUME Aims(q), target[q] = x
            PROVE  pc[q] \in {"openOther", "tryLock"}
        BY <1>1, <2>1, <3>1 DEF Apart, Aims
      <3>2. InView(q)
        BY <1>14 DEF IInv
      <3> QED BY <1>2, <1>3, <1>5, <1>6, <1>8, <1>14, <3>1, <3>2 DEF InView
    <2>3. Apart(p, q)'
      BY <1>1, <1>2, <1>6, <1>10, <1>14 DEF Apart, Making
    <2>4. Apart(q, p)'
      BY <1>2, <1>6, <1>14, <2>1 DEF Apart
    <2> QED BY <2>1, <2>2, <2>3, <2>4
  <1> QED BY <1>6, <1>9, <1>11, <1>12, <1>13, <1>14, TreeStep

\* The kernel frees what a killed call held; its tree stays as it was.
LEMMA CrashKeeps ==
  ASSUME IInv, NEW p \in Procs, Crash(p)
  PROVE  IInv'
  <1>1. /\ TypeOK /\ Nobody \notin Procs
        /\ UNCHANGED <<tree, mine, target, todo, due, calls, faults>>
        /\ pc' = [pc EXCEPT ![p] = "idle"]
        /\ storeLock' = IF storeLock = p THEN Nobody ELSE storeLock
        /\ leaseOf' = [t \in Trees |-> IF leaseOf[t] = p THEN Nobody ELSE leaseOf[t]]
        /\ handles' = [t \in Trees |-> handles[t] \ {p}]
    BY Types DEF Crash, Goto, local, rest
  <1>2. /\ pc'[p] = "idle" /\ \A q \in Procs \ {p} : pc'[q] = pc[q]
        /\ \A q \in Procs \ {p} : storeLock' = q <=> storeLock = q
        /\ storeLock' # p
        /\ \A t \in Trees : /\ handles'[t] = handles[t] \ {p}
                            /\ leaseOf'[t] = IF leaseOf[t] = p THEN Nobody ELSE leaseOf[t]
    BY <1>1 DEF TypeOK
  <1>3. TypeOK'
    <2>1. storeLock' \in Procs \cup {Nobody}
      BY <1>1 DEF TypeOK
    <2>2. leaseOf' \in [Trees -> Procs \cup {Nobody}] /\ handles' \in [Trees -> SUBSET Procs]
      BY <1>1 DEF TypeOK
    <2> QED BY <1>1, <2>1, <2>2 DEF TypeOK
  <1>4. /\ ~Live(p)' /\ ~Aims(p)' /\ ~InStore(p)' /\ ~Needs(p)' /\ pc'[p] \notin Making
        /\ pc'[p] \notin Using \cup Sweeping
    BY <1>2 DEF Live, Aims, InStore, Needs, Foreign, Making, Using, Sweeping
  <1>5. Numbering(p)' /\ OwnTree(p)' /\ InView(p)' /\ Locking(p)' /\ Recovering(p)'
    <2>1. Numbering(p)'
      BY <1>1, <1>2, <1>4 DEF IInv, Numbering
    <2>2. OwnTree(p)' /\ InView(p)'
      BY <1>2, <1>4 DEF OwnTree, InView, Sweeping, Making
    <2> QED BY <1>2, <1>4, <2>1, <2>2 DEF Locking, Recovering
  <1>6. ASSUME NEW q \in Procs, q # p
        PROVE  /\ Numbering(q)' /\ OwnTree(q)' /\ InView(q)' /\ Locking(q)'
               /\ Recovering(q)'
    <2>1. /\ Numbering(q) /\ OwnTree(q) /\ InView(q) /\ Locking(q) /\ Recovering(q)
          /\ pc'[q] = pc[q]
      BY <1>2, <1>6 DEF IInv
    <2>2. /\ Live(q)' = Live(q) /\ Aims(q)' = Aims(q) /\ Needs(q)' = Needs(q)
          /\ InStore(q)' = InStore(q)
      BY <1>1, <2>1 DEF Live, Aims, Needs, InStore, Foreign
    <2>3. Numbering(q)'
      BY <1>1, <2>1, <2>2 DEF Numbering
    <2>4. \A t \in Trees : /\ leaseOf[t] = q => leaseOf'[t] = q
                           /\ q \in handles[t] => q \in handles'[t]
                           /\ Reclaimable(t)' = Reclaimable(t)
      BY <1>1, <1>2, <1>6 DEF Reclaimable
    <2>5. OwnTree(q)'
      <3>1. pc[q] \in Making \/ Needs(q) => mine[q] \in Trees
        BY <2>1 DEF Numbering, Live, Making, Needs, Foreign, Using, Sweeping
      <3> QED BY <1>1, <2>1, <2>2, <2>4, <3>1 DEF OwnTree, Making
    <2>6. InView(q)'
      <3>1. Aims(q) => target[q] \in Trees
        BY <2>1 DEF Numbering
      <3> QED BY <1>1, <2>1, <2>4, <3>1 DEF InView, Aims, Sweeping
    <2>7. Locking(q)'
      BY <1>1, <1>2, <1>6, <2>1, <2>2 DEF Locking
    <2>8. Recovering(q)'
      <3>1. SUFFICES ASSUME storeLock = q, faults = MaxFaults, NEW t \in due[q]
                     PROVE  Fate(q, t)'
        BY <1>1, <1>2, <1>6 DEF Recovering
      <3>2. Fate(q, t) /\ t \in Trees
        BY <1>1, <2>1, <3>1 DEF Recovering, TypeOK
      <3>3. ~Owned(t)' /\ t <= calls'
        BY <1>1, <1>2, <3>2 DEF Fate, Owned
      <3>4. /\ Waiting(t) => Waiting(t)'
            /\ handles[t] = {q} => handles'[t] = {q}
            /\ handles[t] = {} => handles'[t] = {}
            /\ leaseOf[t] = Nobody => leaseOf'[t] = Nobody
        BY <1>1, <1>2, <1>6, <3>2 DEF Waiting, Reclaimable
      <3>5. CASE ~tree[t].dir
        BY <1>1, <3>3, <3>5 DEF Fate
      <3>6. CASE t \in todo[q] /\ Waiting(t)
        BY <1>1, <3>3, <3>4, <3>6 DEF Fate
      <3>7. CASE tree[t].dir /\ ~(t \in todo[q] /\ Waiting(t))
        BY <1>1, <2>1, <2>2, <3>2, <3>3, <3>4, <3>7 DEF Fate
      <3> QED BY <3>5, <3>6, <3>7
    <2> QED BY <2>3, <2>5, <2>6, <2>7, <2>8
  <1>7. ASSUME NEW q \in Procs, NEW r \in Procs, q # r
        PROVE  Apart(q, r)'
    <2>1. CASE q = p
      BY <1>4, <2>1 DEF Apart, Sweeping
    <2>2. CASE r = p
      BY <1>4, <2>2 DEF Apart, Sweeping
    <2>3. CASE q # p /\ r # p
      BY <1>1, <1>2, <1>7, <2>3 DEF IInv, Apart, Aims, Needs, Foreign
    <2> QED BY <2>1, <2>2, <2>3
  <1>8. ASSUME NEW t \in Trees
        PROVE  Shape(t)'
    BY <1>1, <1>2 DEF IInv, Shape, Reclaimable
  <1> QED BY <1>3, <1>5, <1>6, <1>7, <1>8 DEF IInv

\* At the start there is nothing.
LEMMA InvInit ==
  ASSUME Init
  PROVE  IInv
  <1>1. 0 \in 0 .. MaxCalls /\ MaxFaults \in 0 .. MaxFaults /\ Trees \subseteq Nat
    BY StagingAssumption DEF Trees
  <1>2. NoTree \in Shapes /\ ~NoTree.dir /\ ~NoTree.lease /\ ~NoTree.body /\ NoTree.marker = "none"
    BY DEF NoTree, Shapes
  <1>3. TypeOK
    BY <1>1, <1>2 DEF Init, TypeOK
  <1>4. ASSUME NEW p \in Procs
        PROVE  /\ pc[p] = "idle" /\ ~Live(p) /\ ~Aims(p) /\ ~Needs(p) /\ ~InStore(p)
               /\ pc[p] \notin Making
    BY DEF Init, Live, Aims, Needs, InStore, Foreign, Making, Using, Sweeping
  <1>5. ASSUME NEW p \in Procs
        PROVE  Numbering(p) /\ OwnTree(p) /\ InView(p) /\ Locking(p) /\ Recovering(p)
    <2>1. Numbering(p)
      BY <1>4 DEF Init, Numbering
    <2>2. OwnTree(p) /\ InView(p)
      BY <1>4 DEF OwnTree, InView, Making
    <2>3. storeLock # p
      BY StagingAssumption DEF Init
    <2> QED BY <1>4, <2>1, <2>2, <2>3 DEF Locking, Recovering
  <1>6. ASSUME NEW p \in Procs, NEW q \in Procs
        PROVE  Apart(p, q)
    BY <1>4 DEF Apart, Sweeping
  <1>7. ASSUME NEW t \in Trees
        PROVE  Shape(t)
    BY <1>2 DEF Init, Shape
  <1> QED BY <1>3, <1>5, <1>6, <1>7 DEF IInv

\* Every step keeps the invariant.
LEMMA InvNext ==
  ASSUME IInv, [Next]_vars
  PROVE  IInv'
  <1>1. CASE UNCHANGED vars
    BY <1>1 DEF vars, kernel, local, rest, IInv, TypeOK, Numbering, OwnTree, InView,
                Apart, Locking, Recovering, Shape, Fate, Owned, Waiting, Reclaimable,
                Live, Aims, Needs, InStore, Foreign
  <1>2. ASSUME NEW p \in Procs, Create(p)
        PROVE  IInv'
    BY <1>2, MkdirKeeps, LeaseKeeps, MarkerKeeps, GiveUpKeeps DEF Create
  <1>3. ASSUME NEW p \in Procs, Recover(p)
        PROVE  IInv'
    BY <1>3, LockStoreKeeps, SkipKeeps, InspectKeeps, AimKeeps, CommitKeeps DEF Recover
  <1>4. ASSUME NEW p \in Procs, Sweep(p)
        PROVE  IInv'
    <2>1. pc[p] \in Sweeping
      BY <1>4 DEF Sweep, SweepBody, ReleaseLease, UnlinkLease, UnlinkMarker, Rmdir, SweepFails,
                  Sweeping
    <2>2. PICK x \in Trees : x = target[p]
      BY <2>1, Viewing DEF Aims
    <2> QED BY <1>4, <2>2, BodyKeeps, UnlinkKeeps, EndKeeps DEF Sweep
  <1> QED BY <1>1, <1>2, <1>3, <1>4, CrashKeeps DEF Next

\* The inductive invariant holds throughout.
THEOREM Invariance == Spec => []IInv
  <1>1. Init => IInv
    BY InvInit
  <1>2. IInv /\ [Next]_vars => IInv'
    BY InvNext
  <1> QED BY <1>1, <1>2, PTL DEF Spec

\* Nobody sweeps the tree of a call that needs it, however calls, kills and I/O
\* errors interleave.
THEOREM UsedTreesStay == Spec => []TreesInUseAreKept
  <1>1. IInv => TreesInUseAreKept
    BY DEF IInv, TreesInUseAreKept, OwnTree, Needs, Using, Reclaimable
  <1> QED BY <1>1, Invariance, PTL

\* Saved text in a tree without a call can be reclaimed.
THEOREM BodiesStayReclaimable == Spec => []BodiesAreReclaimable
  <1>1. IInv => BodiesAreReclaimable
    BY DEF IInv, BodiesAreReclaimable, Shape
  <1> QED BY <1>1, Invariance, PTL

\* What was abandoned when the write lock was taken is gone at the commit.
THEOREM RecoveryMissesNothing == Spec => []AbandonedAreSwept
  <1>1. ASSUME IInv, NEW p \in Procs, pc[p] = "recover", todo[p] = {}, faults = MaxFaults,
               NEW t \in due[p]
        PROVE  ~tree[t].dir
    <2>1. Fate(p, t) /\ ~Aims(p)
      BY <1>1, Looking DEF Recovering
    <2> QED BY <1>1, <2>1 DEF Fate
  <1>2. IInv => AbandonedAreSwept
    BY <1>1 DEF AbandonedAreSwept
  <1> QED BY <1>2, Invariance, PTL
=============================================================================
