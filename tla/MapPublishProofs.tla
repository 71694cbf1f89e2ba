-------------------------- MODULE MapPublishProofs --------------------------
(***************************************************************************)
(* Proofs about MapPublish, for any processes, maps, decisions and bounds: *)
(* its safety properties, and that the managed ref is the log which        *)
(* PublicationLog promises.                                                *)
(***************************************************************************)
EXTENDS MapPublish, SequenceTheorems, TLAPS

-----------------------------------------------------------------------------
(* Types                                                                   *)

Before   == {"idle", "wait", "gate", "process", "identity", "publish"}
After    == {"align", "realign", "verify", "receipt", "complete"}
Prepared == {"branch", "start", "files", "current", "candidate", "rebuild", "ref",
             "resume"} \cup After
Locked   == {"bind", "prepare"} \cup Prepared
Records  == {"none", "torn", "whole"}

Transactions == [publish : Records, started : BOOLEAN, candidate : Records,
                 index : BOOLEAN, receipt : Records, complete : Records]

Types ==
    /\ head \in Histories
    /\ files \in [Requests -> {"none", "part", "torn", "whole"}]
    /\ tx \in [Requests -> Transactions]
    /\ base \in [Requests -> Histories \cup {Unset}]
    /\ pc \in [Procs -> Before \cup Locked]
    /\ req \in [Procs -> Requests \cup {Unset}]
    /\ kbLock \in Procs \cup {Nobody}
    /\ journal \subseteq Requests
    /\ aligned \subseteq Requests
    /\ requestLock \in [Requests -> Procs \cup {Nobody}]
    /\ done \subseteq Requests /\ forgotten \subseteq Requests
    /\ {calls, byHand, losses} \subseteq Nat

-----------------------------------------------------------------------------
(* The inductive invariant                                                 *)

\* What the records of a publication say of the ref and of the work tree.
RequestInv(r) ==
    /\ r \in Maps => base[r] # Unset
    /\ r \in Committed => /\ base[r] # Unset
                          /\ IsAncestor(Commit(r), head)
                          /\ files[r] = "whole"
                          /\ tx[r].publish # "none" \/ r \in forgotten
                          /\ tx[r].candidate = "none" => ~tx[r].started
    /\ tx[r].candidate # "none" => files[r] = "whole"
    /\ tx[r].complete # "none" \/ r \in done \cup forgotten => r \in Committed
    /\ files[r] # "none" /\ r \notin Committed =>
          Unresolved(r) /\ ~OtherUnresolved(r)

\* What a call has seen or done by the step it is at.
CallInv(p) ==
    LET r == req[p]
    IN  /\ pc[p] # "idle" => r \in Requests
        /\ pc[p] \in {"gate", "process"} => r \in Maps
        /\ pc[p] \in Locked <=> kbLock = p
        /\ pc[p] \in Locked \ {"bind"} => base[r] # Unset
        /\ pc[p] \in Prepared => tx[r].publish = "whole" /\ ~OtherUnresolved(r)
        /\ pc[p] = "start" => files[r] = "none"
        /\ pc[p] = "files" => r \notin Committed
        /\ pc[p] \in {"current", "candidate", "rebuild"} => files[r] = "whole"
        /\ pc[p] \in {"ref", "resume"} => tx[r].candidate = "whole"
        /\ pc[p] \in After => r \in Committed

IInv ==
    /\ Types
    /\ \A r \in Requests : RequestInv(r)
    /\ \A p \in Procs : CallInv(p)

-----------------------------------------------------------------------------
(* Histories                                                               *)

\* A commit stays in the history of the ref when another is put on top.
LEMMA AncestorStays ==
    ASSUME NEW c \in Histories, NEW h \in Histories, NEW x \in Requests \cup {User},
           IsAncestor(c, h)
    PROVE  IsAncestor(c, Append(h, x))
  <1> DEFINE g == Append(h, x)
  <1>1. g \in Histories /\ Len(g) = Len(h) + 1 /\ \A i \in 1 .. Len(h) : g[i] = h[i]
    BY AppendProperties DEF Histories
  <1>2. Len(c) \in Nat /\ Len(h) \in Nat /\ Len(c) <= Len(h)
    BY LenProperties DEF Histories, IsAncestor
  <1>3. SubSeq(h, 1, Len(c)) = c
    BY DEF IsAncestor
  <1>4. SubSeq(g, 1, Len(c)) = SubSeq(h, 1, Len(c))
    <2> HIDE DEF g
    <2>1. /\ SubSeq(g, 1, Len(c)) = [i \in 1 .. Len(c) |-> g[i]]
          /\ SubSeq(h, 1, Len(c)) = [i \in 1 .. Len(c) |-> h[i]]
      BY <1>1, <1>2 DEF Histories
    <2>2. \A i \in 1 .. Len(c) : g[i] = h[i]
      BY <1>1, <1>2
    <2> QED
      BY <2>1, <2>2
  <1> QED
    BY <1>1, <1>2, <1>3, <1>4 DEF IsAncestor

\* A commit is in the history that ends with it.
LEMMA AncestorSelf ==
    ASSUME NEW h \in Histories
    PROVE  IsAncestor(h, h)
  BY SubSeqFull, LenProperties DEF IsAncestor, Histories

\* A history holds the publication whose commit is in it.
LEMMA AncestorHolds ==
    ASSUME NEW b \in Histories, NEW h \in Histories, NEW r \in Requests,
           IsAncestor(Append(b, r), h)
    PROVE  (\E i \in DOMAIN h : h[i] = r) /\ Len(b) < Len(h)
  <1> DEFINE c == Append(b, r)
  <1>1. c \in Histories /\ Len(c) = Len(b) + 1 /\ c[Len(c)] = r
    BY AppendProperties DEF Histories
  <1>2. Len(b) \in Nat /\ Len(h) \in Nat /\ DOMAIN h = 1 .. Len(h)
    BY LenProperties DEF Histories
  <1>3. Len(c) <= Len(h) /\ SubSeq(h, 1, Len(c)) = c
    BY DEF IsAncestor
  <1>4. SubSeq(h, 1, Len(c))[Len(c)] = h[Len(c)]
    <2> HIDE DEF c
    <2>1. SubSeq(h, 1, Len(c)) = [i \in 1 .. Len(c) |-> h[i]]
      BY <1>1, <1>2, <1>3 DEF Histories
    <2> QED
      BY <1>1, <1>2, <2>1
  <1> QED
    BY <1>1, <1>2, <1>3, <1>4

\* What a commit on top of the ref adds to what is published.
LEMMA HeadGrows ==
    ASSUME head \in Histories, NEW x \in Requests \cup {User}, head' = Append(head, x)
    PROVE  /\ head' \in Histories
           /\ Committed' = Committed \cup {x}
           /\ \A c \in Histories : IsAncestor(c, head) => IsAncestor(c, head')
  <1>1. /\ head' \in Histories /\ Len(head') = Len(head) + 1
        /\ \A i \in 1 .. Len(head) : head'[i] = head[i]
        /\ head'[Len(head) + 1] = x
    BY AppendProperties DEF Histories
  <1>2. /\ Len(head) \in Nat /\ DOMAIN head = 1 .. Len(head)
        /\ DOMAIN head' = 1 .. Len(head) + 1
    BY <1>1, LenProperties DEF Histories
  <1>3. Committed' = Committed \cup {x}
    <2>1. \A y : y \in Committed' => y \in Committed \cup {x}
      BY <1>1, <1>2 DEF Committed
    <2>2. \A y : y \in Committed \cup {x} => y \in Committed'
      BY <1>1, <1>2 DEF Committed
    <2> QED
      BY <2>1, <2>2
  <1> QED
    BY <1>1, <1>3, AncestorStays

-----------------------------------------------------------------------------
(* What a step leaves alone                                                *)

Others(p) == \A q \in Procs \ {p} : pc'[q] = pc[q] /\ req'[q] = req[q]

\* The lock of the repository, before and after a step of p.
KbStep(p) == kbLock' = kbLock \/ (kbLock \in {p, Nobody} /\ kbLock' \in {p, Nobody})

\* A call goes on.
LEMMA Gone ==
    ASSUME Types, NEW p \in Procs, NEW step \in Before \cup Locked, Goto(p, step)
    PROVE  /\ pc' \in [Procs -> Before \cup Locked] /\ pc'[p] = step
           /\ req' = req /\ Others(p)
  BY DEF Types, Goto, Others

\* A call ends, and its locks are free.
LEMMA Ended ==
    ASSUME IInv, NEW p \in Procs, End(p)
    PROVE  /\ pc' \in [Procs -> Before \cup Locked]
           /\ req' \in [Procs -> Requests \cup {Unset}]
           /\ requestLock' \in [Requests -> Procs \cup {Nobody}]
           /\ kbLock' \in Procs \cup {Nobody} /\ KbStep(p)
           /\ Others(p) /\ CallInv(p)'
  <1>1. pc'[p] = "idle" /\ kbLock' # p
    BY PublishAssumption DEF IInv, Types, End
  <1>2. "idle" \notin Locked /\ "idle" \in Before
    BY DEF Before, Locked, Prepared, After
  <1>3. CallInv(p)'
    BY <1>1, <1>2 DEF CallInv, Locked, Prepared
  <1> QED
    BY <1>2, <1>3 DEF IInv, Types, End, Others, KbStep

\* A call that did not take the step has what it had: what it relies on is
\* written under the lock of the repository only.
LEMMA OtherCall ==
    ASSUME IInv, NEW p \in Procs, NEW q \in Procs \ {p}, Others(p), KbStep(p),
           kbLock = p \/ UNCHANGED <<head, files, tx, base>>
    PROVE  CallInv(q)'
  <1>1. CallInv(q) /\ pc'[q] = pc[q] /\ req'[q] = req[q] /\ q # Nobody
    BY PublishAssumption DEF IInv, Others
  <1>2. kbLock' = q <=> kbLock = q
    BY <1>1 DEF KbStep
  <1>3. CASE pc[q] \in Locked
    <2>1. UNCHANGED <<head, files, tx, base>>
      BY <1>1, <1>3 DEF CallInv
    <2> QED
      BY <1>1, <1>2, <2>1
         DEF CallInv, Committed, OtherUnresolved, Unresolved
  <1>4. CASE pc[q] \notin Locked
    <2>1. pc[q] \notin Prepared \cup After
      BY <1>4 DEF Locked, Prepared
    <2>2. pc[q] \notin {"start", "files", "current", "candidate", "rebuild", "ref",
                        "resume"}
      BY <2>1 DEF Prepared
    <2> QED
      BY <1>1, <1>2, <1>4, <2>1, <2>2 DEF CallInv
  <1> QED
    BY <1>3, <1>4

\* What a step of one call has to establish.
LEMMA StepInv ==
    ASSUME IInv, NEW p \in Procs, Others(p), KbStep(p),
           kbLock = p \/ UNCHANGED <<head, files, tx, base>>,
           Types', CallInv(p)', \A r \in Requests : RequestInv(r)'
    PROVE  IInv'
  <1>1. \A q \in Procs \ {p} : CallInv(q)'
    BY OtherCall
  <1> QED
    BY <1>1 DEF IInv

\* The records of a request that stay as they are.
LEMMA RequestStands ==
    ASSUME IInv, UNCHANGED <<head, files, tx, base, done, forgotten>>,
           NEW r \in Requests
    PROVE  RequestInv(r)'
  BY DEF IInv, RequestInv, Commit, Committed, Unresolved, OtherUnresolved

\* A step that changes neither repository nor records.
LEMMA QuietStep ==
    ASSUME IInv, NEW p \in Procs, Others(p), KbStep(p),
           UNCHANGED <<head, files, tx, base, done, forgotten>>, Types', CallInv(p)'
    PROVE  IInv'
  BY RequestStands, StepInv

\* A call that ends without writing anything.
LEMMA QuietEnd ==
    ASSUME IInv, NEW p \in Procs, End(p), journal' = journal, aligned' = aligned,
           UNCHANGED <<head, files, tx, base, done, forgotten, calls, byHand, losses>>
    PROVE  IInv'
  <1>1. Types'
    BY Ended DEF IInv, Types
  <1> QED
    BY <1>1, Ended, QuietStep

\* What a call that holds the lock of the repository knows.
LEMMA Holder ==
    ASSUME IInv, NEW p \in Procs, pc[p] \in Locked
    PROVE  /\ req[p] \in Requests /\ kbLock = p
           /\ CallInv(p) /\ RequestInv(req[p]) /\ Types
           /\ tx[req[p]] \in Transactions /\ base[req[p]] \in Histories \cup {Unset}
           /\ pc[p] # "bind" => base[req[p]] \in Histories
  <1>1. pc[p] # "idle" /\ CallInv(p) /\ Types
    BY DEF IInv, Locked, Prepared, After
  <1>2. req[p] \in Requests /\ kbLock = p
    BY <1>1 DEF CallInv
  <1>3. pc[p] # "bind" => base[req[p]] # Unset
    BY <1>1 DEF CallInv
  <1> QED
    BY <1>1, <1>2, <1>3 DEF IInv, Types

\* A record is written.
LEMMA Marked ==
    ASSUME Types, NEW p \in Procs, req[p] \in Requests,
           NEW field \in {"publish", "candidate", "receipt", "complete"},
           NEW v \in Records, Mark(p, field, v)
    PROVE  \E t \in Transactions :
              /\ tx' = [tx EXCEPT ![req[p]] = t]
              /\ t = [tx[req[p]] EXCEPT ![field] = v]
  <1>1. PICK t : t = [tx[req[p]] EXCEPT ![field] = v]
    OBVIOUS
  <1>2. tx[req[p]] \in Transactions
    BY DEF Types
  <1>3. t \in Transactions
    BY <1>1, <1>2 DEF Transactions
  <1>4. tx' = [tx EXCEPT ![req[p]] = t]
    BY <1>1 DEF Mark
  <1> QED
    BY <1>1, <1>3, <1>4

\* What each of the records becomes.
LEMMA MarkedFields ==
    ASSUME NEW t \in Transactions, NEW v \in Records
    PROVE  /\ [t EXCEPT !["publish"] = v] = [t EXCEPT !.publish = v]
           /\ [t EXCEPT !["candidate"] = v] = [t EXCEPT !.candidate = v]
           /\ [t EXCEPT !["receipt"] = v] = [t EXCEPT !.receipt = v]
           /\ [t EXCEPT !["complete"] = v] = [t EXCEPT !.complete = v]
  BY DEF Transactions

\* A publication writes one of its records while no other is unresolved.
LEMMA RecordStep ==
    ASSUME IInv, NEW p \in Procs, NEW r \in Requests, r = req[p], kbLock = p,
           ~OtherUnresolved(r),
           NEW t \in Transactions, tx' = [tx EXCEPT ![r] = t],
           t.publish # "none",
           t.candidate # "none" => files[r] = "whole",
           t.complete # "none" => r \in Committed,
           r \in Committed /\ t.candidate = "none" => ~t.started,
           done' = done \/ (done' = done \cup {r} /\ r \in Committed),
           UNCHANGED <<head, files, base, forgotten>>,
           Others(p), KbStep(p), Types', CallInv(p)'
    PROVE  IInv'
  <1>1. tx'[r] = t /\ \A s \in Requests \ {r} : tx'[s] = tx[s]
    BY DEF IInv, Types
  <1>2. Committed' = Committed
    BY DEF Committed
  <1>3. RequestInv(r)'
    <2>1. RequestInv(r)
      BY DEF IInv
    <2>2. ~OtherUnresolved(r)'
      BY <1>1 DEF OtherUnresolved, Unresolved
    <2> QED
      BY <1>1, <1>2, <2>1, <2>2 DEF RequestInv, Commit, Unresolved
  <1>4. ASSUME NEW s \in Requests, s # r PROVE RequestInv(s)'
    <2>1. RequestInv(s) /\ ~Unresolved(s)
      BY <1>4 DEF IInv, OtherUnresolved
    <2> QED
      BY <1>1, <1>2, <1>4, <2>1 DEF RequestInv, Commit
  <1> QED
    BY <1>3, <1>4, StepInv

\* Files of a publication that is not committed yet are written.
LEMMA FilesStep ==
    ASSUME IInv, NEW p \in Procs, NEW r \in Requests, r = req[p], pc[p] = "files",
           NEW f \in {"part", "torn", "whole"}, files' = [files EXCEPT ![r] = f],
           files[r] = "whole" => f = "whole",
           UNCHANGED <<head, tx, base, done, forgotten>>,
           Others(p), KbStep(p), Types', CallInv(p)'
    PROVE  IInv'
  <1>1. /\ kbLock = p /\ r \notin Committed /\ RequestInv(r)
        /\ tx[r].publish = "whole" /\ ~OtherUnresolved(r)
    BY Holder DEF CallInv, Prepared, Locked
  <1>2. files'[r] = f /\ \A s \in Requests \ {r} : files'[s] = files[s]
    BY DEF IInv, Types
  <1>3. /\ Committed' = Committed
        /\ \A s \in Requests : /\ Unresolved(s)' <=> Unresolved(s)
                               /\ OtherUnresolved(s)' <=> OtherUnresolved(s)
    BY DEF Committed, Unresolved, OtherUnresolved
  <1>4. RequestInv(r)'
    BY <1>1, <1>2, <1>3 DEF RequestInv, Unresolved
  <1>5. ASSUME NEW s \in Requests, s # r PROVE RequestInv(s)'
    <2>1. RequestInv(s)
      BY DEF IInv
    <2> QED
      BY <1>2, <1>3, <1>5, <2>1 DEF RequestInv, Commit
  <1> QED
    BY <1>1, <1>4, <1>5, StepInv

\* The ref moves to the commit of a publication that has kept its name.
LEMMA RefStep ==
    ASSUME IInv, NEW p \in Procs, NEW r \in Requests, r = req[p],
           pc[p] \in {"ref", "resume"}, CompareAndSwap(p),
           UNCHANGED <<files, tx, base, done, forgotten>>,
           Others(p), KbStep(p), Types', CallInv(p)'
    PROVE  IInv' /\ r \notin Committed
  <1>1. /\ kbLock = p /\ RequestInv(r) /\ base[r] \in Histories
        /\ tx[r].publish = "whole" /\ tx[r].candidate = "whole"
    BY Holder DEF CallInv, Prepared, Locked
  <1>2. head = base[r] /\ head' = Append(head, r) /\ head \in Histories
    BY DEF CompareAndSwap, Commit, IInv, Types
  <1>3. /\ head' \in Histories
        /\ Committed' = Committed \cup {r}
        /\ \A c \in Histories : IsAncestor(c, head) => IsAncestor(c, head')
    BY <1>2, HeadGrows
  <1>4. r \notin Committed
    <2>1. IsAncestor(Append(base[r], r), head) => Len(base[r]) < Len(head)
      BY <1>1, <1>2, AncestorHolds
    <2>2. Len(head) \in Nat
      BY <1>2, LenProperties DEF Histories
    <2> QED
      BY <1>1, <1>2, <2>1, <2>2 DEF RequestInv, Commit
  <1>5. \A s \in Requests : /\ Unresolved(s)' <=> Unresolved(s)
                            /\ OtherUnresolved(s)' <=> OtherUnresolved(s)
    BY DEF Unresolved, OtherUnresolved
  <1>6. RequestInv(r)'
    <2>1. IsAncestor(Commit(r), head)'
      BY <1>2, <1>3, AncestorSelf DEF Commit
    <2>2. base[r] # Unset
      BY <1>1, PublishAssumption
    <2> QED
      BY <1>1, <1>3, <2>1, <2>2 DEF RequestInv
  <1>7. ASSUME NEW s \in Requests, s # r PROVE RequestInv(s)'
    <2>1. RequestInv(s) /\ (s \in Committed' <=> s \in Committed)
      BY <1>3, <1>7 DEF IInv
    <2>2. s \in Committed => IsAncestor(Commit(s), head)'
      <3>1. SUFFICES ASSUME s \in Committed PROVE IsAncestor(Commit(s), head)'
        OBVIOUS
      <3>2. base[s] \in Histories
        BY <2>1, <3>1 DEF RequestInv, IInv, Types
      <3>3. Commit(s) \in Histories /\ Commit(s)' = Commit(s)
        BY <3>2, AppendProperties DEF Commit, Histories
      <3> QED
        BY <1>3, <2>1, <3>1, <3>3 DEF RequestInv
    <2> QED
      BY <1>5, <2>1, <2>2 DEF RequestInv
  <1> QED
    BY <1>1, <1>4, <1>6, <1>7, StepInv

-----------------------------------------------------------------------------
(* Before the publication                                                  *)

\* A call is made.
LEMMA CallKeeps ==
    ASSUME IInv, NEW p \in Procs, NEW r \in Requests, Call(p, r)
    PROVE  IInv'
  <1>1. /\ pc' = [pc EXCEPT ![p] = "wait"] /\ req' = [req EXCEPT ![p] = r]
        /\ UNCHANGED <<repoVars, tx, localVars, lockVars, done, forgotten, byHand, losses>>
        /\ calls' = calls - 1 /\ calls > 0 /\ pc[p] = "idle"
    BY DEF Call
  <1>2. Types' /\ Others(p) /\ KbStep(p) /\ pc'[p] = "wait" /\ req'[p] = r
    BY <1>1 DEF IInv, Types, Others, KbStep, Before, repoVars, localVars, lockVars
  <1>3. kbLock # p
    BY <1>1 DEF IInv, CallInv, Locked, Prepared, After
  <1>4. CallInv(p)'
    BY <1>1, <1>2, <1>3 DEF CallInv, Locked, Prepared, After, lockVars
  <1> QED
    BY <1>1, <1>2, <1>4, QuietStep DEF repoVars, localVars

\* The lock of a request is taken.
LEMMA LockRequestKeeps ==
    ASSUME IInv, NEW p \in Procs, NEW step \in {"gate", "identity", "publish"},
           pc[p] \in {"wait", "process"}, LockRequest(p, step),
           step = "gate" => req[p] \in Maps,
           journal' \subseteq journal \cup {req[p]}, base' = base
    PROVE  IInv'
  <1>1. /\ requestLock' = [requestLock EXCEPT ![req[p]] = p]
        /\ UNCHANGED <<repoVars, tx, kbLock, histVars>> /\ Goto(p, step)
    BY DEF LockRequest
  <1>2. req[p] \in Requests /\ kbLock # p
    BY DEF IInv, CallInv, Locked, Prepared, After
  <1>3. pc'[p] = step /\ req' = req /\ Others(p) /\ pc' \in [Procs -> Before \cup Locked]
    BY <1>1, Gone DEF IInv, Before
  <1>4. Types' /\ KbStep(p)
    BY <1>1, <1>2, <1>3 DEF IInv, Types, KbStep, repoVars, histVars
  <1>5. CallInv(p)'
    BY <1>1, <1>2, <1>3 DEF CallInv, Locked, Prepared, After
  <1> QED
    BY <1>1, <1>3, <1>4, <1>5, QuietStep DEF repoVars, histVars

\* build_map and decide_map up to the lock of the repository.
LEMMA GatesKeep ==
    ASSUME IInv, NEW p \in Procs,
           \/ AcquireRequest(p) \/ GateOpen(p) \/ GateShut(p) \/ Process(p)
           \/ Identity(p)
    PROVE  IInv'
  <1>1. CASE AcquireRequest(p)
    BY <1>1, LockRequestKeeps DEF AcquireRequest, localVars
  <1>2. CASE GateOpen(p)
    <2>1. /\ pc[p] = "gate" /\ Goto(p, "process")
          /\ requestLock' = [requestLock EXCEPT ![req[p]] = Nobody]
          /\ UNCHANGED <<repoVars, tx, localVars, kbLock, histVars>>
      BY <1>2 DEF GateOpen
    <2>2. pc'[p] = "process" /\ req' = req /\ Others(p)
          /\ pc' \in [Procs -> Before \cup Locked]
      BY <2>1, Gone DEF IInv, Before
    <2>3. Types' /\ KbStep(p)
      BY <2>1, <2>2 DEF IInv, Types, KbStep, repoVars, localVars, histVars
    <2>4. CallInv(p)
      BY DEF IInv
    <2>5. CallInv(p)'
      BY <2>1, <2>2, <2>4 DEF CallInv, Locked, Prepared, After
    <2> QED
      BY <2>1, <2>2, <2>3, <2>5, QuietStep DEF repoVars, localVars, histVars
  <1>3. CASE GateShut(p)
    BY <1>3, QuietEnd DEF GateShut, repoVars, localVars, histVars
  <1>4. CASE Process(p)
    <2>1. LockRequest(p, "publish") /\ journal' \subseteq journal \cup {req[p]}
          /\ base' = base /\ pc[p] = "process"
      BY <1>4 DEF Process
    <2> QED
      BY <2>1, LockRequestKeeps
  <1>5. CASE Identity(p)
    <2>1. /\ pc[p] = "identity" /\ Goto(p, "publish") /\ journal' = journal \cup {req[p]}
          /\ UNCHANGED <<repoVars, tx, base, lockVars, histVars>>
      BY <1>5 DEF Identity
    <2>2. pc'[p] = "publish" /\ req' = req /\ Others(p)
          /\ pc' \in [Procs -> Before \cup Locked]
      BY <2>1, Gone DEF IInv, Before
    <2>3. CallInv(p) /\ req[p] \in Requests
      BY <2>1 DEF IInv, CallInv
    <2>4. Types' /\ KbStep(p)
      BY <2>1, <2>2, <2>3 DEF IInv, Types, KbStep, repoVars, lockVars, histVars
    <2>5. CallInv(p)'
      BY <2>1, <2>2, <2>3 DEF CallInv, Locked, Prepared, After, lockVars
    <2> QED
      BY <2>1, <2>2, <2>4, <2>5, QuietStep DEF repoVars, histVars
  <1> QED
    BY <1>1, <1>2, <1>3, <1>4, <1>5

\* The lock of the repository is taken, by a map whose base is that of its
\* target or by a decision that has to be bound first.
LEMMA LockKbKeeps ==
    ASSUME IInv, NEW p \in Procs, AcquireKb(p) \/ GateRecovers(p)
    PROVE  IInv'
  <1>1. PICK step \in {"bind", "prepare"} :
           /\ Goto(p, step) /\ kbLock' = p /\ kbLock = Nobody
           /\ step = "prepare" => req[p] \in Maps
           /\ pc[p] \in {"gate", "publish"}
           /\ UNCHANGED <<repoVars, tx, localVars, requestLock, histVars>>
    <2>1. CASE AcquireKb(p)
      BY <2>1 DEF AcquireKb
    <2>2. CASE GateRecovers(p)
      BY <2>2 DEF GateRecovers, IInv, CallInv
    <2> QED
      BY <2>1, <2>2
  <1>2. req[p] \in Requests
    BY <1>1 DEF IInv, CallInv
  <1>3. pc'[p] = step /\ req' = req /\ Others(p) /\ pc' \in [Procs -> Before \cup Locked]
    BY <1>1, Gone DEF IInv, Locked
  <1>4. Types' /\ KbStep(p)
    BY <1>1, <1>3 DEF IInv, Types, KbStep, repoVars, localVars, histVars
  <1>5. step = "prepare" => base[req[p]] # Unset
    BY <1>1, <1>2 DEF IInv, RequestInv
  <1>6. CallInv(p)'
    BY <1>1, <1>2, <1>3, <1>5 DEF CallInv, Locked, Prepared, After, localVars
  <1> QED
    BY <1>1, <1>3, <1>4, <1>6, QuietStep DEF repoVars, localVars, histVars

\* A decision is bound to the current commit, once.
LEMMA BindKeeps ==
    ASSUME IInv, NEW p \in Procs, Bind(p)
    PROVE  IInv'
  <1>1. PICK r : r = req[p]
    OBVIOUS
  <1>2. /\ r \in Requests /\ kbLock = p /\ CallInv(p) /\ Types /\ pc[p] = "bind"
        /\ UNCHANGED <<repoVars, tx, journal, histVars>>
    BY <1>1, Holder DEF Bind, Locked
  <1>3. CASE End(p) /\ UNCHANGED base
    BY <1>2, <1>3, QuietEnd DEF repoVars, histVars
  <1>4. CASE /\ Goto(p, "prepare") /\ UNCHANGED lockVars
             /\ base' = IF base[r] = Unset THEN [base EXCEPT ![r] = head] ELSE base
    <2>1. pc'[p] = "prepare" /\ req' = req /\ Others(p)
          /\ pc' \in [Procs -> Before \cup Locked]
      BY <1>2, <1>4, Gone DEF Locked
    <2>2. Types' /\ KbStep(p)
      BY <1>2, <1>4, <2>1 DEF Types, KbStep, repoVars, lockVars, histVars
    <2>3. base'[r] # Unset
      BY <1>2, <1>4, PublishAssumption DEF Types
    <2>4. CallInv(p)'
      BY <1>1, <1>2, <1>4, <2>1, <2>3 DEF CallInv, Locked, Prepared, After, lockVars
    <2>5. ASSUME NEW s \in Requests PROVE RequestInv(s)'
      <3>1. RequestInv(s)
        BY DEF IInv
      <3>2. base[s] # Unset => base'[s] = base[s]
        BY <1>2, <1>4 DEF Types
      <3>3. Committed' = Committed /\ (Unresolved(s)' <=> Unresolved(s))
            /\ (OtherUnresolved(s)' <=> OtherUnresolved(s))
        BY <1>2 DEF Committed, Unresolved, OtherUnresolved, repoVars
      <3> QED
        BY <1>2, <3>1, <3>2, <3>3 DEF RequestInv, Commit, repoVars, histVars
    <2> QED
      BY <1>2, <2>1, <2>2, <2>4, <2>5, StepInv
  <1> QED
    BY <1>1, <1>3, <1>4 DEF Bind

-----------------------------------------------------------------------------
(* The publication                                                         *)

\* A call that holds the lock goes on, and writes nothing but its way.
LEMMA GoOnKeeps ==
    ASSUME IInv, NEW p \in Procs, NEW r \in Requests, r = req[p],
           pc[p] \in Locked \ {"bind"}, NEW step \in Prepared, Goto(p, step),
           UNCHANGED <<head, files, tx, localVars, lockVars, histVars>>,
           aligned' \subseteq aligned \cup {r},
           tx[r].publish = "whole" /\ ~OtherUnresolved(r),
           step = "start" => files[r] = "none",
           step = "files" => r \notin Committed,
           step \in {"current", "candidate", "rebuild"} => files[r] = "whole",
           step \in {"ref", "resume"} => tx[r].candidate = "whole",
           step \in After => r \in Committed
    PROVE  IInv'
  <1>1. kbLock = p /\ base[r] # Unset
    BY Holder DEF CallInv
  <1>2. pc'[p] = step /\ req' = req /\ Others(p) /\ pc' \in [Procs -> Before \cup Locked]
    BY Gone DEF IInv, Locked
  <1>3. Types' /\ KbStep(p)
    BY <1>2 DEF IInv, Types, KbStep, localVars, lockVars, histVars
  <1>4. /\ Committed' = Committed /\ tx' = tx /\ files' = files /\ base' = base
        /\ kbLock' = kbLock /\ OtherUnresolved(r)' = OtherUnresolved(r)
    BY DEF Committed, OtherUnresolved, Unresolved, localVars, lockVars
  <1>5. CallInv(p)'
    <2>1. step \notin Before /\ step \in Locked
      BY DEF Before, Locked, Prepared, After
    <2>2. step # "idle" /\ step \notin {"gate", "process"}
      BY <2>1 DEF Before
    <2> QED
      BY <1>1, <1>2, <1>4, <2>1, <2>2 DEF CallInv
  <1> QED
    BY <1>2, <1>3, <1>5, QuietStep DEF localVars, histVars

\* A record is written and the call goes on.
LEMMA RecordAndGo ==
    ASSUME IInv, NEW p \in Procs, NEW r \in Requests, r = req[p],
           pc[p] \in Locked \ {"bind"}, ~OtherUnresolved(r),
           NEW t \in Transactions, tx' = [tx EXCEPT ![r] = t],
           t.publish = "whole",
           t.candidate # "none" => files[r] = "whole",
           t.complete # "none" => r \in Committed,
           r \in Committed /\ t.candidate = "none" => ~t.started,
           NEW step \in Prepared \ {"start", "align", "realign"}, Goto(p, step),
           step = "files" => r \notin Committed,
           step \in {"current", "candidate", "rebuild"} => files[r] = "whole",
           step \in {"ref", "resume"} => t.candidate = "whole",
           step \in After => r \in Committed,
           UNCHANGED <<repoVars, localVars, lockVars, histVars>>
    PROVE  IInv'
  <1>1. kbLock = p /\ base[r] # Unset
    BY Holder DEF CallInv
  <1>2. pc'[p] = step /\ req' = req /\ Others(p) /\ pc' \in [Procs -> Before \cup Locked]
    BY Gone DEF IInv, Locked
  <1>3. Types' /\ KbStep(p)
    BY <1>2 DEF IInv, Types, KbStep, repoVars, localVars, lockVars, histVars
  <1>4. tx'[r] = t /\ \A s \in Requests \ {r} : tx'[s] = tx[s]
    BY DEF IInv, Types
  <1>5. ~OtherUnresolved(r)' /\ Committed' = Committed
    BY <1>4 DEF OtherUnresolved, Unresolved, Committed, repoVars
  <1>6. CallInv(p)'
    <2>1. step \notin Before /\ step \in Locked /\ step # "start"
      BY DEF Before, Locked, Prepared, After
    <2>2. step # "idle" /\ step \notin {"gate", "process"}
      BY <2>1 DEF Before
    <2> QED
      BY <1>1, <1>2, <1>4, <1>5, <2>1, <2>2
         DEF CallInv, repoVars, localVars, lockVars
  <1> QED
    BY <1>1, <1>2, <1>3, <1>6, RecordStep DEF repoVars, localVars, histVars

\* A record is left half-written, or is the last one, and the call is over.
LEMMA RecordAndEnd ==
    ASSUME IInv, NEW p \in Procs, NEW r \in Requests, r = req[p], kbLock = p,
           ~OtherUnresolved(r),
           NEW t \in Transactions, tx' = [tx EXCEPT ![r] = t],
           t.publish # "none",
           t.candidate # "none" => files[r] = "whole",
           t.complete # "none" => r \in Committed,
           r \in Committed /\ t.candidate = "none" => ~t.started,
           done' = done \/ (done' = done \cup {r} /\ r \in Committed),
           End(p),
           UNCHANGED <<repoVars, localVars, forgotten, calls, byHand, losses>>
    PROVE  IInv'
  <1>1. Types' /\ Others(p) /\ KbStep(p) /\ CallInv(p)'
    BY Ended DEF IInv, Types, repoVars, localVars
  <1> QED
    BY <1>1, RecordStep DEF repoVars, localVars

\* What a call at a step after prepare has of its request.
LEMMA InHand ==
    ASSUME IInv, NEW p \in Procs, pc[p] \in Prepared
    PROVE  /\ req[p] \in Requests /\ kbLock = p /\ RequestInv(req[p])
           /\ tx[req[p]] \in Transactions
           /\ tx[req[p]].publish = "whole" /\ ~OtherUnresolved(req[p])
           /\ base[req[p]] \in Histories
           /\ pc[p] = "start" => files[req[p]] = "none"
           /\ pc[p] = "files" => req[p] \notin Committed
           /\ pc[p] \in {"current", "candidate", "rebuild"} => files[req[p]] = "whole"
           /\ pc[p] \in {"ref", "resume"} => tx[req[p]].candidate = "whole"
           /\ pc[p] \in After => req[p] \in Committed
  <1>1. pc[p] \in Locked /\ pc[p] # "bind"
    BY DEF Locked, Prepared, After
  <1> QED
    BY <1>1, Holder DEF CallInv

\* publish.json
LEMMA PrepareKeeps ==
    ASSUME IInv, NEW p \in Procs, Prepare(p)
    PROVE  IInv'
  <1>1. PICK r : r = req[p]
    OBVIOUS
  <1>2. /\ pc[p] = "prepare" /\ pc[p] \in Locked \ {"bind"}
        /\ UNCHANGED <<repoVars, localVars, histVars>>
    BY DEF Prepare, Locked
  <1>3. r \in Requests /\ tx[r] \in Transactions /\ RequestInv(r) /\ Types
    BY <1>1, <1>2, Holder
  <1>4. CASE End(p) /\ UNCHANGED tx
    BY <1>2, <1>4, QuietEnd DEF repoVars, localVars, histVars
  <1>5. CASE /\ ~OtherUnresolved(r)
             /\ Mark(p, "publish", "whole") /\ Goto(p, "branch") /\ UNCHANGED lockVars
    <2>1. PICK t \in Transactions : /\ tx' = [tx EXCEPT ![r] = t]
                                    /\ t = [tx[r] EXCEPT !["publish"] = "whole"]
      BY <1>1, <1>3, <1>5, Marked DEF Records
    <2>2. /\ t.publish = "whole" /\ t.candidate = tx[r].candidate
          /\ t.complete = tx[r].complete /\ t.started = tx[r].started
      BY <1>3, <2>1 DEF Transactions
    <2>3. "branch" \in Prepared \ {"start", "align", "realign"} /\ "branch" \notin After
      BY DEF Prepared, After
    <2> QED
      BY <1>1, <1>2, <1>3, <1>5, <2>1, <2>2, <2>3, RecordAndGo DEF RequestInv
  <1> QED
    BY <1>1, <1>4, <1>5 DEF Prepare, Prepares

\* Where the publication goes on.
LEMMA TakeBranchKeeps ==
    ASSUME IInv, NEW p \in Procs, TakeBranch(p)
    PROVE  IInv'
  <1>1. PICK r : r = req[p]
    OBVIOUS
  <1>2. /\ pc[p] = "branch" /\ pc[p] \in Prepared /\ pc[p] \in Locked \ {"bind"}
        /\ UNCHANGED <<repoVars, tx, localVars, histVars>>
    BY DEF TakeBranch, Prepared, Locked
  <1>3. /\ r \in Requests /\ RequestInv(r) /\ tx[r].publish = "whole"
        /\ ~OtherUnresolved(r) /\ tx[r] \in Transactions
    BY <1>1, <1>2, InHand
  <1>4. CASE End(p)
    BY <1>2, <1>4, QuietEnd DEF repoVars, localVars, histVars
  <1>5. CASE Branch(r) # "refuse" /\ Goto(p, Branch(r)) /\ UNCHANGED lockVars
    <2>1. PICK step : step = Branch(r)
      OBVIOUS
    <2>2. /\ step \in {"resume", "files", "start", "rebuild"}
          /\ step = "start" => files[r] = "none"
          /\ step = "rebuild" => files[r] = "whole"
          /\ step = "resume" => tx[r].candidate = "whole"
          /\ step = "files" => tx[r].candidate = "none" /\ tx[r].started
      BY <1>3, <1>5, <2>1 DEF Branch, Transactions, Records
    <2>3. step \in Prepared /\ step \notin After
      BY <2>2 DEF Prepared, After
    <2>4. step = "files" => r \notin Committed
      BY <1>3, <2>2 DEF RequestInv
    <2> QED
      BY <1>1, <1>2, <1>3, <1>5, <2>1, <2>2, <2>3, <2>4, GoOnKeeps DEF repoVars
  <1> QED
    BY <1>1, <1>4, <1>5 DEF TakeBranch

\* publish-started.json
LEMMA StartKeeps ==
    ASSUME IInv, NEW p \in Procs, Start(p)
    PROVE  IInv'
  <1>1. PICK r : r = req[p]
    OBVIOUS
  <1>2. /\ pc[p] = "start" /\ pc[p] \in Prepared /\ pc[p] \in Locked \ {"bind"}
        /\ Mark(p, "started", TRUE) /\ Goto(p, "files")
        /\ UNCHANGED <<repoVars, localVars, lockVars, histVars>>
    BY DEF Start, Prepared, Locked
  <1>3. /\ r \in Requests /\ RequestInv(r) /\ tx[r].publish = "whole"
        /\ ~OtherUnresolved(r) /\ tx[r] \in Transactions /\ files[r] = "none"
    BY <1>1, <1>2, InHand
  <1>4. PICK t : t = [tx[r] EXCEPT !.started = TRUE]
    OBVIOUS
  <1>5. /\ t \in Transactions /\ t.publish = "whole" /\ t.candidate = tx[r].candidate
        /\ t.complete = tx[r].complete
    BY <1>3, <1>4 DEF Transactions
  <1>6. tx' = [tx EXCEPT ![r] = t]
    BY <1>1, <1>2, <1>3, <1>4 DEF Mark, Transactions
  <1>7. r \notin Committed
    BY <1>3 DEF RequestInv
  <1>8. "files" \in Prepared \ {"start", "align", "realign"} /\ "files" \notin After
    BY DEF Prepared, After
  <1> QED
    BY <1>1, <1>2, <1>3, <1>5, <1>6, <1>7, <1>8, RecordAndGo DEF RequestInv

\* The files of the publication.
LEMMA WriteFilesKeeps ==
    ASSUME IInv, NEW p \in Procs, WriteFiles(p)
    PROVE  IInv'
  <1>1. PICK r : r = req[p]
    OBVIOUS
  <1>2. /\ pc[p] = "files" /\ pc[p] \in Prepared
        /\ UNCHANGED <<head, aligned, tx, localVars, lockVars, histVars>>
    BY DEF WriteFiles, Prepared
  <1>3. /\ r \in Requests /\ kbLock = p /\ tx[r].publish = "whole"
        /\ ~OtherUnresolved(r) /\ base[r] # Unset /\ r \notin Committed /\ Types
    BY <1>1, <1>2, InHand, PublishAssumption DEF IInv
  <1>4. PICK f \in {"part", "whole"} : f = IF files[r] = "none" THEN "part" ELSE "whole"
    OBVIOUS
  <1>5. files' = [files EXCEPT ![r] = f]
    BY <1>1, <1>4 DEF WriteFiles
  <1>6. files'[r] = f
    BY <1>3, <1>5 DEF Types
  <1>7. Goto(p, IF f = "whole" THEN "current" ELSE "files")
    BY <1>1, <1>6 DEF WriteFiles
  <1>8. PICK step \in {"current", "files"} :
           /\ Goto(p, step)
           /\ step = "current" => f = "whole"
    BY <1>7
  <1>a. step \in Prepared /\ step \in Before \cup Locked
    BY DEF Locked, Prepared
  <1>9. pc'[p] = step /\ req' = req /\ Others(p) /\ pc' \in [Procs -> Before \cup Locked]
    BY <1>3, <1>8, <1>a, Gone
  <1>10. Types' /\ KbStep(p)
    BY <1>2, <1>3, <1>5, <1>9 DEF Types, KbStep, localVars, lockVars, histVars
  <1>11. Committed' = Committed /\ (OtherUnresolved(r)' <=> OtherUnresolved(r))
    BY <1>2 DEF Committed, OtherUnresolved, Unresolved
  <1>12. CallInv(p)'
    <2>1. /\ req'[p] = r /\ kbLock' = p /\ base'[r] # Unset /\ tx'[r].publish = "whole"
          /\ r \notin Committed' /\ ~OtherUnresolved(r)'
      BY <1>1, <1>2, <1>3, <1>9, <1>11 DEF localVars, lockVars
    <2>2. step = "current" => files'[r] = "whole"
      BY <1>6, <1>8
    <2>3. CASE step = "current"
      BY <1>3, <1>9, <2>1, <2>2, <2>3 DEF CallInv, Locked, Prepared, After
    <2>4. CASE step = "files"
      BY <1>3, <1>9, <2>1, <2>4 DEF CallInv, Locked, Prepared, After
    <2> QED
      BY <2>3, <2>4
  <1>13. files[r] = "whole" => f = "whole"
    BY <1>4
  <1> QED
    BY <1>1, <1>2, <1>3, <1>5, <1>9, <1>10, <1>12, <1>13, FilesStep
       DEF localVars, histVars

\* The isolated index of the checkpoint.
LEMMA MakeCommitKeeps ==
    ASSUME IInv, NEW p \in Procs, MakeCommit(p)
    PROVE  IInv'
  <1>1. PICK r : r = req[p]
    OBVIOUS
  <1>2. /\ pc[p] = "current" /\ pc[p] \in Prepared /\ pc[p] \in Locked \ {"bind"}
        /\ UNCHANGED <<repoVars, localVars, histVars>>
    BY DEF MakeCommit, Prepared, Locked
  <1>3. /\ r \in Requests /\ RequestInv(r) /\ tx[r].publish = "whole"
        /\ ~OtherUnresolved(r) /\ tx[r] \in Transactions /\ files[r] = "whole"
    BY <1>1, <1>2, InHand
  <1>4. CASE End(p) /\ UNCHANGED tx
    BY <1>2, <1>4, QuietEnd DEF repoVars, localVars, histVars
  <1>5. CASE Mark(p, "index", TRUE) /\ Goto(p, "candidate") /\ UNCHANGED lockVars
    <2>1. PICK t : t = [tx[r] EXCEPT !.index = TRUE]
      OBVIOUS
    <2>2. /\ t \in Transactions /\ t.publish = "whole" /\ t.candidate = tx[r].candidate
          /\ t.complete = tx[r].complete /\ t.started = tx[r].started
      BY <1>3, <2>1 DEF Transactions
    <2>3. tx' = [tx EXCEPT ![r] = t]
      BY <1>1, <1>3, <1>5, <2>1 DEF Mark, Transactions
    <2>4. "candidate" \in Prepared \ {"start", "align", "realign"} /\ "candidate" \notin After
      BY DEF Prepared, After
    <2> QED
      BY <1>1, <1>2, <1>3, <1>5, <2>2, <2>3, <2>4, RecordAndGo DEF RequestInv
  <1> QED
    BY <1>1, <1>4, <1>5 DEF MakeCommit

\* candidate-commit.txt, before the ref moves or rebuilt from the history.
LEMMA PersistCandidateKeeps ==
    ASSUME IInv, NEW p \in Procs, PersistCandidate(p)
    PROVE  IInv'
  <1>1. PICK r : r = req[p]
    OBVIOUS
  <1>2. /\ pc[p] \in {"candidate", "rebuild"} /\ pc[p] \in Prepared
        /\ pc[p] \in Locked \ {"bind"} /\ Mark(p, "candidate", "whole")
        /\ UNCHANGED <<repoVars, localVars, lockVars, histVars>>
    BY DEF PersistCandidate, Prepared, Locked
  <1>3. /\ r \in Requests /\ RequestInv(r) /\ tx[r].publish = "whole" /\ Types
        /\ ~OtherUnresolved(r) /\ tx[r] \in Transactions /\ files[r] = "whole"
    BY <1>1, <1>2, InHand DEF IInv
  <1>4. PICK t \in Transactions : /\ tx' = [tx EXCEPT ![r] = t]
                                  /\ t = [tx[r] EXCEPT !["candidate"] = "whole"]
    BY <1>1, <1>2, <1>3, Marked DEF Records
  <1>5. t.publish = "whole" /\ t.candidate = "whole" /\ t.complete = tx[r].complete
    BY <1>3, <1>4 DEF Transactions
  <1>6. PICK step \in {"ref", "resume"} : Goto(p, step)
    BY DEF PersistCandidate
  <1>7. step \in Prepared \ {"start", "align", "realign"} /\ step \notin After
    BY DEF Prepared, After
  <1> QED
    BY <1>1, <1>2, <1>3, <1>4, <1>5, <1>6, <1>7, RecordAndGo DEF RequestInv

\* The ref moves, from here or from a retry, or is found elsewhere.
LEMMA MoveRefKeeps ==
    ASSUME IInv, NEW p \in Procs, UpdateRef(p) \/ Resume(p)
    PROVE  IInv'
  <1>1. PICK r : r = req[p]
    OBVIOUS
  <1>2. /\ pc[p] \in {"ref", "resume"} /\ pc[p] \in Prepared /\ pc[p] \in Locked \ {"bind"}
        /\ UNCHANGED <<files, aligned, tx, localVars, histVars>>
    BY DEF UpdateRef, Resume, Prepared, Locked
  <1>3. /\ r \in Requests /\ RequestInv(r) /\ tx[r].publish = "whole" /\ Types
        /\ ~OtherUnresolved(r) /\ base[r] \in Histories /\ kbLock = p
    BY <1>1, <1>2, InHand DEF IInv
  <1>4. CASE UNCHANGED head /\ End(p)
    BY <1>2, <1>4, QuietEnd DEF localVars, histVars
  <1>5. ASSUME NEW step \in {"align", "realign"}, CompareAndSwap(p), Goto(p, step),
               UNCHANGED lockVars
        PROVE  IInv'
    <2>0. step \in After /\ step \in Prepared /\ step \in Locked
      BY DEF After, Prepared, Locked
    <2>1. pc'[p] = step /\ req' = req /\ Others(p) /\ pc' \in [Procs -> Before \cup Locked]
      BY <1>3, <1>5, <2>0, Gone
    <2>2. head' = Append(head, r) /\ head \in Histories
      BY <1>1, <1>3, <1>5 DEF CompareAndSwap, Commit, Types
    <2>3. head' \in Histories /\ Committed' = Committed \cup {r}
      BY <1>3, <2>2, HeadGrows
    <2>4. Types' /\ KbStep(p)
      BY <1>2, <1>3, <1>5, <2>1, <2>3 DEF Types, KbStep, localVars, lockVars, histVars
    <2>5. OtherUnresolved(r)' <=> OtherUnresolved(r)
      BY <1>2 DEF OtherUnresolved, Unresolved
    <2>6. base[r] # Unset
      BY <1>3, PublishAssumption
    <2>7. CallInv(p)'
      BY <1>1, <1>2, <1>3, <1>5, <2>1, <2>3, <2>5, <2>6
         DEF CallInv, Locked, Prepared, After, localVars, lockVars
    <2> QED
      BY <1>1, <1>2, <1>3, <1>5, <2>1, <2>4, <2>7, RefStep DEF localVars, histVars
  <1>6. CASE /\ UNCHANGED <<head, lockVars>> /\ Goto(p, "receipt")
             /\ IsAncestor(Commit(r), head)
    <2>1. r \in Committed
      BY <1>3, <1>6, AncestorHolds DEF Commit, Committed, Types
    <2>2. "receipt" \in Prepared
      BY DEF Prepared, After
    <2> QED
      BY <1>1, <1>2, <1>3, <1>6, <2>1, <2>2, GoOnKeeps
  <1> QED
    BY <1>1, <1>4, <1>5, <1>6 DEF UpdateRef, Resume

\* The default index, and the check that follows it.
LEMMA AlignKeeps ==
    ASSUME IInv, NEW p \in Procs, Align(p) \/ VerifyCommit(p)
    PROVE  IInv'
  <1>1. PICK r : r = req[p]
    OBVIOUS
  <1>2. /\ pc[p] \in {"align", "realign", "verify"} /\ pc[p] \in After
        /\ pc[p] \in Prepared /\ pc[p] \in Locked \ {"bind"}
        /\ UNCHANGED <<head, files, tx, localVars, histVars>>
    BY DEF Align, VerifyCommit, repoVars, After, Prepared, Locked
  <1>3. /\ r \in Requests /\ tx[r].publish = "whole" /\ ~OtherUnresolved(r)
        /\ r \in Committed
    BY <1>1, <1>2, InHand
  <1>4. CASE End(p) /\ UNCHANGED aligned
    BY <1>2, <1>4, QuietEnd DEF localVars, histVars
  <1>5. ASSUME NEW step \in {"verify", "receipt"}, Goto(p, step), UNCHANGED lockVars,
               aligned' \subseteq aligned \cup {r}
        PROVE  IInv'
    <2>1. step \in Prepared
      BY DEF Prepared, After
    <2> QED
      BY <1>1, <1>2, <1>3, <1>5, <2>1, GoOnKeeps
  <1>6. CASE Align(p)
    BY <1>1, <1>5, <1>6 DEF Align
  <1>7. CASE VerifyCommit(p)
    BY <1>1, <1>4, <1>5, <1>7 DEF VerifyCommit, repoVars
  <1> QED
    BY <1>6, <1>7

\* The receipt and the completion mark.
LEMMA CloseKeeps ==
    ASSUME IInv, NEW p \in Procs, WriteReceipt(p) \/ Complete(p)
    PROVE  IInv'
  <1>1. PICK r : r = req[p]
    OBVIOUS
  <1>2. /\ pc[p] \in {"receipt", "complete"} /\ pc[p] \in After
        /\ pc[p] \in Prepared /\ pc[p] \in Locked \ {"bind"}
        /\ UNCHANGED <<repoVars, localVars, forgotten, calls, byHand, losses>>
    BY DEF WriteReceipt, Complete, histVars, After, Prepared, Locked
  <1>3. /\ r \in Requests /\ tx[r].publish = "whole" /\ ~OtherUnresolved(r) /\ Types
        /\ r \in Committed /\ kbLock = p /\ RequestInv(r) /\ tx[r] \in Transactions
    BY <1>1, <1>2, InHand DEF IInv
  <1>4. CASE End(p) /\ UNCHANGED <<tx, done>>
    BY <1>2, <1>4, QuietEnd DEF repoVars, localVars
  <1>5. CASE Mark(p, "receipt", "whole") /\ Goto(p, "complete") /\ UNCHANGED <<lockVars, done>>
    <2>1. PICK t \in Transactions : /\ tx' = [tx EXCEPT ![r] = t]
                                    /\ t = [tx[r] EXCEPT !["receipt"] = "whole"]
      BY <1>1, <1>3, <1>5, Marked DEF Records
    <2>2. t.publish = "whole" /\ t.candidate = tx[r].candidate /\ t.started = tx[r].started
          /\ t.complete = tx[r].complete
      BY <1>3, <2>1 DEF Transactions
    <2>3. "complete" \in Prepared \ {"start", "align", "realign"}
      BY DEF Prepared, After
    <2> QED
      BY <1>1, <1>2, <1>3, <1>5, <2>1, <2>2, <2>3, RecordAndGo DEF RequestInv, histVars
  <1>6. CASE Mark(p, "complete", "whole") /\ done' = done \cup {r} /\ End(p)
    <2>1. PICK t \in Transactions : /\ tx' = [tx EXCEPT ![r] = t]
                                    /\ t = [tx[r] EXCEPT !["complete"] = "whole"]
      BY <1>1, <1>3, <1>6, Marked DEF Records
    <2>2. t.publish = "whole" /\ t.candidate = tx[r].candidate /\ t.started = tx[r].started
      BY <1>3, <2>1 DEF Transactions
    <2> QED
      BY <1>1, <1>2, <1>3, <1>6, <2>1, <2>2, RecordAndEnd DEF RequestInv
  <1>7. CASE WriteReceipt(p)
    BY <1>1, <1>4, <1>5, <1>7 DEF WriteReceipt, histVars
  <1>8. CASE Complete(p)
    BY <1>1, <1>4, <1>6, <1>8 DEF Complete
  <1> QED
    BY <1>7, <1>8

-----------------------------------------------------------------------------
(* What may happen at any time                                             *)

\* A kill between two steps, or inside a write.
LEMMA KillsKeep ==
    ASSUME IInv, NEW p \in Procs, Stop(p) \/ KillWriting(p)
    PROVE  IInv'
  <1>1. PICK r : r = req[p]
    OBVIOUS
  <1>2. CASE Stop(p)
    BY <1>2, QuietEnd DEF Stop, repoVars, localVars, histVars
  <1>3. CASE KillWriting(p)
    <2>1. End(p) /\ UNCHANGED <<head, aligned, localVars, histVars>>
      BY <1>3 DEF KillWriting
    <2>2. CASE /\ pc[p] = "files" /\ files[r] \in {"none", "part"}
               /\ files' = [files EXCEPT ![r] = "torn"] /\ UNCHANGED tx
      <3>1. r \in Requests
        BY <1>1, <2>2, InHand DEF Prepared
      <3>2. Types' /\ Others(p) /\ KbStep(p) /\ CallInv(p)'
        BY <2>1, <2>2, <3>1, Ended DEF IInv, Types, localVars, histVars
      <3> QED
        BY <1>1, <2>1, <2>2, <3>1, <3>2, FilesStep DEF localVars, histVars
    <2>3. CASE /\ pc[p] \in DOMAIN Written /\ UNCHANGED files
               /\ pc[p] = "prepare" => ~OtherUnresolved(r)
               /\ Mark(p, Written[pc[p]], "torn")
      <3>1. /\ pc[p] \in {"prepare", "candidate", "rebuild", "receipt", "complete"}
            /\ Written[pc[p]] \in {"publish", "candidate", "receipt", "complete"}
            /\ Written[pc[p]] = "publish" <=> pc[p] = "prepare"
            /\ Written[pc[p]] = "candidate" <=> pc[p] \in {"candidate", "rebuild"}
            /\ Written[pc[p]] = "complete" <=> pc[p] = "complete"
        BY <2>3 DEF Written
      <3>2. /\ pc[p] \in Locked \ {"bind"} /\ (pc[p] # "prepare" => pc[p] \in Prepared)
            /\ (pc[p] = "complete" => pc[p] \in After)
        BY <3>1 DEF Locked, Prepared, After
      <3>3. /\ r \in Requests /\ kbLock = p /\ RequestInv(r) /\ Types
            /\ tx[r] \in Transactions
        BY <1>1, <3>2, Holder
      <3>4. /\ ~OtherUnresolved(r)
            /\ pc[p] # "prepare" => tx[r].publish = "whole"
            /\ pc[p] \in {"candidate", "rebuild"} => files[r] = "whole"
            /\ pc[p] = "complete" => r \in Committed
        BY <1>1, <2>3, <3>2, InHand
      <3>5. PICK field \in {"publish", "candidate", "receipt", "complete"} :
               field = Written[pc[p]]
        BY <3>1
      <3>6. PICK t \in Transactions : /\ tx' = [tx EXCEPT ![r] = t]
                                      /\ t = [tx[r] EXCEPT ![field] = "torn"]
        BY <1>1, <2>3, <3>3, <3>5, Marked DEF Records
      <3>7. /\ field # "publish" => t.publish = tx[r].publish
            /\ field = "publish" => t.publish = "torn"
            /\ field # "candidate" => t.candidate = tx[r].candidate
            /\ field = "candidate" => t.candidate = "torn"
            /\ field # "complete" => t.complete = tx[r].complete
            /\ t.started = tx[r].started
        BY <3>3, <3>6 DEF Transactions
      <3>8. /\ t.publish # "none"
            /\ t.candidate # "none" => files[r] = "whole"
            /\ t.complete # "none" => r \in Committed
            /\ r \in Committed /\ t.candidate = "none" => ~t.started
        BY <3>1, <3>3, <3>4, <3>5, <3>7 DEF RequestInv
      <3> QED
        BY <1>1, <2>1, <2>3, <3>3, <3>4, <3>6, <3>8, RecordAndEnd
           DEF repoVars, localVars, histVars
    <2> QED
      BY <1>1, <1>3, <2>2, <2>3 DEF KillWriting
  <1> QED
    BY <1>2, <1>3

\* A commit by hand.
LEMMA ByHandKeeps ==
    ASSUME IInv, CommitByHand
    PROVE  IInv'
  <1>1. /\ head' = Append(head, User) /\ byHand > 0 /\ byHand' = byHand - 1
        /\ UNCHANGED <<files, aligned, tx, localVars, lockVars, pc, req, done,
                       forgotten, calls, losses>>
    BY DEF CommitByHand
  <1>2. /\ head' \in Histories /\ Committed' = Committed \cup {User}
        /\ \A c \in Histories : IsAncestor(c, head) => IsAncestor(c, head')
    BY <1>1, HeadGrows DEF IInv, Types
  <1>3. \A s \in Requests : s \in Committed' <=> s \in Committed
    BY <1>2, PublishAssumption
  <1>4. Types'
    BY <1>1, <1>2 DEF IInv, Types, localVars, lockVars
  <1>5. \A s \in Requests : /\ Unresolved(s)' <=> Unresolved(s)
                            /\ OtherUnresolved(s)' <=> OtherUnresolved(s)
    BY <1>1 DEF Unresolved, OtherUnresolved
  <1>6. ASSUME NEW s \in Requests PROVE RequestInv(s)'
    <2>1. RequestInv(s)
      BY DEF IInv
    <2>2. s \in Committed => IsAncestor(Commit(s), head)'
      <3>1. SUFFICES ASSUME s \in Committed PROVE IsAncestor(Commit(s), head)'
        OBVIOUS
      <3>2. base[s] \in Histories
        BY <2>1, <3>1 DEF RequestInv, IInv, Types
      <3>3. Commit(s) \in Histories /\ Commit(s)' = Commit(s)
        BY <1>1, <3>2, AppendProperties DEF Commit, Histories, localVars
      <3> QED
        BY <1>2, <2>1, <3>1, <3>3 DEF RequestInv
    <2> QED
      BY <1>1, <1>3, <1>5, <2>1, <2>2 DEF RequestInv, localVars
  <1>7. ASSUME NEW q \in Procs PROVE CallInv(q)'
    <2>1. CallInv(q)
      BY DEF IInv
    <2>2. CASE pc[q] = "idle"
      BY <1>1, <2>1, <2>2 DEF CallInv, Locked, Prepared, After, localVars, lockVars
    <2>3. CASE pc[q] # "idle"
      BY <1>1, <1>3, <1>5, <2>1, <2>3 DEF CallInv, localVars, lockVars
    <2> QED
      BY <2>2, <2>3
  <1> QED
    BY <1>4, <1>6, <1>7 DEF IInv

\* Local records are lost.
LEMMA LossesKeep ==
    ASSUME IInv, NEW r \in Requests, LoseRecords(r) \/ LoseJournal(r)
    PROVE  IInv'
  <1>1. CASE LoseJournal(r)
    <2>1. /\ UNCHANGED <<head, files, aligned, tx, base, lockVars, pc, req, done,
                         forgotten, calls, byHand>>
          /\ journal' \subseteq journal /\ losses > 0 /\ losses' = losses - 1
      BY <1>1 DEF LoseJournal, repoVars
    <2>2. Types'
      BY <2>1 DEF IInv, Types, lockVars
    <2>3. \A s \in Requests : RequestInv(s)'
      BY <2>1, RequestStands
    <2>4. \A q \in Procs : CallInv(q)'
      BY <2>1 DEF IInv, CallInv, Committed, OtherUnresolved, Unresolved, lockVars
    <2> QED
      BY <2>2, <2>3, <2>4 DEF IInv
  <1>2. CASE LoseRecords(r)
    <2>1. /\ UNCHANGED <<head, files, aligned, localVars, lockVars, pc, req, done,
                         calls, byHand>>
          /\ tx' = [tx EXCEPT ![r] = NoTx] /\ forgotten' = forgotten \cup {r}
          /\ losses > 0 /\ losses' = losses - 1
          /\ tx[r].complete = "whole" /\ \A q \in Procs : req[q] # r
      BY <1>2 DEF LoseRecords, repoVars
    <2>2. /\ NoTx \in Transactions /\ NoTx.publish = "none" /\ NoTx.candidate = "none"
          /\ NoTx.complete = "none" /\ ~NoTx.started
      BY DEF NoTx, Transactions, Records
    <2>3. Types'
      BY <2>1, <2>2 DEF IInv, Types, localVars, lockVars
    <2>4. tx'[r] = NoTx /\ \A s \in Requests \ {r} : tx'[s] = tx[s]
      BY <2>1 DEF IInv, Types
    <2>5. /\ Committed' = Committed
          /\ \A s \in Requests \ {r} : Unresolved(s)' <=> Unresolved(s)
          /\ ~Unresolved(r)'
          /\ \A s \in Requests : OtherUnresolved(s)' => OtherUnresolved(s)
      BY <2>1, <2>2, <2>4 DEF Committed, Unresolved, OtherUnresolved
    <2>6. RequestInv(r)'
      BY <2>1, <2>2, <2>4, <2>5 DEF IInv, RequestInv, Commit, localVars
    <2>7. ASSUME NEW s \in Requests, s # r PROVE RequestInv(s)'
      <3>1. RequestInv(s)
        BY DEF IInv
      <3> QED
        BY <2>1, <2>4, <2>5, <2>7, <3>1 DEF RequestInv, Commit, localVars
    <2>8. ASSUME NEW q \in Procs PROVE CallInv(q)'
      <3>1. CallInv(q) /\ req[q] # r
        BY <2>1 DEF IInv
      <3>2. CASE pc[q] = "idle"
        BY <2>1, <3>1, <3>2 DEF CallInv, Locked, Prepared, After, localVars, lockVars
      <3>3. CASE pc[q] # "idle"
        BY <2>1, <2>4, <2>5, <3>1, <3>3 DEF CallInv, localVars, lockVars
      <3> QED
        BY <3>2, <3>3
    <2> QED
      BY <2>3, <2>6, <2>7, <2>8 DEF IInv
  <1> QED
    BY <1>1, <1>2

-----------------------------------------------------------------------------
(* The theorems                                                            *)

\* Nothing is published at first.
LEMMA InitInv == Init => IInv
  <1> SUFFICES ASSUME Init PROVE IInv
    OBVIOUS
  <1> USE DEF Init
  <1>1. NoTx \in Transactions
    BY DEF NoTx, Transactions, Records
  <1>2. <<>> \in Histories /\ Committed = {}
    BY DEF Histories, Committed
  <1>3. Types
    BY <1>1, <1>2, PublishAssumption DEF Types, Before
  <1>4. \A r \in Requests : RequestInv(r)
    <2>1. \A r \in Maps : base[r] # Unset
      BY <1>2, PublishAssumption DEF Requests
    <2>2. \A r \in Requests : files[r] = "none" /\ tx[r] = NoTx
      OBVIOUS
    <2> QED
      BY <1>2, <2>1, <2>2 DEF RequestInv, NoTx
  <1>5. \A p \in Procs : CallInv(p)
    BY PublishAssumption DEF CallInv, Locked, Prepared, After
  <1> QED
    BY <1>3, <1>4, <1>5 DEF IInv

\* The invariant is kept by every step.
LEMMA NextInv == IInv /\ [Next]_vars => IInv'
  <1> SUFFICES ASSUME IInv, [Next]_vars PROVE IInv'
    OBVIOUS
  <1>1. CASE UNCHANGED vars
    <2>1. UNCHANGED <<head, files, aligned, tx, journal, base, requestLock, kbLock, pc, req,
                      done, forgotten, calls, byHand, losses>>
      BY <1>1 DEF vars, repoVars, localVars, lockVars, histVars
    <2>2. Types'
      BY <2>1 DEF IInv, Types
    <2>3. \A s \in Requests : RequestInv(s)'
      BY <2>1, RequestStands
    <2>4. \A q \in Procs : CallInv(q)'
      BY <2>1 DEF IInv, CallInv, Committed, OtherUnresolved, Unresolved
    <2> QED
      BY <2>2, <2>3, <2>4 DEF IInv
  <1>2. ASSUME NEW p \in Procs, Begin(p) PROVE IInv'
    BY <1>2, CallKeeps, GatesKeep, LockKbKeeps, BindKeeps DEF Begin
  <1>3. ASSUME NEW p \in Procs, Publish(p) PROVE IInv'
    BY <1>3, PrepareKeeps, TakeBranchKeeps, StartKeeps, WriteFilesKeeps, MakeCommitKeeps,
       PersistCandidateKeeps, MoveRefKeeps, AlignKeeps, CloseKeeps DEF Publish
  <1> QED
    BY <1>1, <1>2, <1>3, KillsKeep, ByHandKeeps, LossesKeep DEF Next

\* The invariant of records, work tree, ref and calls holds throughout.
THEOREM Invariance == Spec => []IInv
  BY InitInv, NextInv, PTL DEF Spec

\* What build_map or decide_map answered with a result is in the history of the
\* ref and whole in the work tree, for good.
THEOREM SuccessStays == Spec => []SuccessIsForever
  <1>1. IInv => SuccessIsForever
    BY DEF IInv, Types, RequestInv, SuccessIsForever, IsCheckpointed
  <1> QED
    BY <1>1, Invariance, PTL

\* At most one publication is unresolved.
OneUnresolved == \A r \in Requests : Unresolved(r) => ~OtherUnresolved(r)

\* The map of a decision that has been bound is in the work tree.
SubjectsStand == \A d \in Decisions : base[d] # Unset => files[Subject[d]] = "whole"

\* The records change for one publication, while no other is unresolved.
LEMMA OneTransaction ==
    ASSUME OneUnresolved, NEW r \in Requests, ~OtherUnresolved(r),
           \A s \in Requests \ {r} : tx'[s] = tx[s]
    PROVE  OneUnresolved'
  <1>1. \A s \in Requests \ {r} : ~Unresolved(s)'
    BY DEF OtherUnresolved, Unresolved
  <1> QED
    BY <1>1 DEF OneUnresolved, OtherUnresolved

\* Nothing becomes unresolved.
LEMMA NoneMore ==
    ASSUME OneUnresolved, \A s \in Requests : Unresolved(s)' => Unresolved(s)
    PROVE  OneUnresolved'
  BY DEF OneUnresolved, OtherUnresolved

\* One call at a time makes a publication unresolved, under the lock.
LEMMA OneUnresolvedKept ==
    ASSUME IInv, OneUnresolved, [Next]_vars
    PROVE  OneUnresolved'
  <1>1. CASE tx' = tx
    BY <1>1, NoneMore DEF Unresolved
  <1>2. ASSUME NEW p \in Procs, Prepare(p)
        PROVE  OneUnresolved'
    <2>1. req[p] \in Requests
      BY <1>2, Holder DEF Prepare, Locked
    <2>2. CASE ~OtherUnresolved(req[p]) /\ Mark(p, "publish", "whole")
      BY <2>1, <2>2, OneTransaction DEF Mark, IInv, Types
    <2> QED
      BY <1>1, <1>2, <2>2 DEF Prepare, Prepares
  <1>3. ASSUME NEW p \in Procs, pc[p] \in Prepared,
               \A s \in Requests \ {req[p]} : tx'[s] = tx[s]
        PROVE  OneUnresolved'
    BY <1>3, InHand, OneTransaction
  <1>4. ASSUME NEW p \in Procs, Publish(p)
        PROVE  OneUnresolved'
    <2>1. CASE \/ TakeBranch(p) \/ WriteFiles(p) \/ UpdateRef(p) \/ Align(p)
               \/ VerifyCommit(p) \/ Resume(p)
      BY <1>1, <2>1 DEF TakeBranch, WriteFiles, UpdateRef, Align, VerifyCommit, Resume
    <2>2. CASE \/ Start(p) \/ MakeCommit(p) \/ PersistCandidate(p)
               \/ WriteReceipt(p) \/ Complete(p)
      <3>1. pc[p] \in Prepared
        BY <2>2 DEF Start, MakeCommit, PersistCandidate, WriteReceipt, Complete,
                    Prepared, After
      <3>2. \A s \in Requests \ {req[p]} : tx'[s] = tx[s]
        BY <2>2 DEF Start, MakeCommit, PersistCandidate, WriteReceipt, Complete,
                    Mark, IInv, Types
      <3> QED
        BY <1>3, <3>1, <3>2
    <2> QED
      BY <1>2, <1>4, <2>1, <2>2 DEF Publish
  <1>5. ASSUME NEW p \in Procs, KillWriting(p), tx' # tx
        PROVE  OneUnresolved'
    <2>1. /\ pc[p] \in {"prepare", "candidate", "rebuild", "receipt", "complete"}
          /\ pc[p] = "prepare" => ~OtherUnresolved(req[p])
          /\ Mark(p, Written[pc[p]], "torn")
      BY <1>5 DEF KillWriting, Written
    <2>2. \A s \in Requests \ {req[p]} : tx'[s] = tx[s]
      BY <2>1 DEF Mark, IInv, Types
    <2>3. CASE pc[p] = "prepare"
      <3>1. req[p] \in Requests
        BY <2>3, Holder DEF Locked
      <3> QED
        BY <2>1, <2>2, <2>3, <3>1, OneTransaction
    <2>4. CASE pc[p] # "prepare"
      <3>1. pc[p] \in Prepared
        BY <2>1, <2>4 DEF Prepared, After
      <3> QED
        BY <1>3, <2>2, <3>1
    <2> QED
      BY <2>3, <2>4
  <1>6. ASSUME NEW r \in Requests, LoseRecords(r)
        PROVE  OneUnresolved'
    <2>1. \A s \in Requests : tx'[s] = IF s = r THEN NoTx ELSE tx[s]
      BY <1>6 DEF LoseRecords, IInv, Types
    <2> QED
      BY <2>1, NoneMore DEF Unresolved, NoTx
  <1>7. CASE \E p \in Procs : Begin(p) \/ Stop(p)
    BY <1>1, <1>7 DEF Begin, Call, AcquireRequest, LockRequest, GateOpen, GateShut,
       GateRecovers, Process, Identity, AcquireKb, Bind, Stop
  <1>8. CASE UNCHANGED vars \/ CommitByHand \/ \E r \in Requests : LoseJournal(r)
    BY <1>1, <1>8 DEF vars, CommitByHand, LoseJournal
  <1> QED
    BY <1>1, <1>4, <1>5, <1>6, <1>7, <1>8 DEF Next

\* What is whole in the work tree stays, and a decision is bound over it.
LEMMA SubjectsKept ==
    ASSUME IInv, SubjectsStand, [Next]_vars
    PROVE  SubjectsStand'
  <1>1. CASE UNCHANGED <<files, base>>
    BY <1>1 DEF SubjectsStand
  <1>2. ASSUME NEW r, NEW f, files' = [files EXCEPT ![r] = f],
               files[r] = "whole" => f = "whole", base' = base
        PROVE  SubjectsStand'
    <2>1. \A d \in Decisions : Subject[d] \in Requests
      BY PublishAssumption DEF Requests
    <2> QED
      BY <1>2, <2>1 DEF SubjectsStand, IInv, Types
  <1>3. ASSUME NEW p \in Procs, Begin(p)
        PROVE  SubjectsStand'
    <2>1. CASE Bind(p)
      <3>1. files' = files
        BY <2>1 DEF Bind, repoVars
      <3>2. ASSUME NEW d \in Decisions, base'[d] # base[d]
            PROVE  files[Subject[d]] = "whole"
        <4>1. d \in Requests
          BY DEF Requests
        <4>2. /\ base' = [base EXCEPT ![req[p]] = head]
              /\ files[Subject[req[p]]] = "whole"
          BY <2>1, <3>2 DEF Bind
        <4> QED
          BY <3>2, <4>1, <4>2 DEF IInv, Types
      <3> QED
        BY <3>1, <3>2 DEF SubjectsStand
    <2>2. CASE ~Bind(p)
      BY <1>1, <1>3, <2>2 DEF Begin, Call, AcquireRequest, LockRequest, GateOpen,
         GateShut, GateRecovers, Process, Identity, AcquireKb, repoVars, localVars
    <2> QED
      BY <2>1, <2>2
  <1>4. ASSUME NEW p \in Procs, Publish(p)
        PROVE  SubjectsStand'
    <2>1. CASE WriteFiles(p)
      <3>1. PICK f : f = IF files[req[p]] = "none" THEN "part" ELSE "whole"
        OBVIOUS
      <3>2. /\ files' = [files EXCEPT ![req[p]] = f] /\ base' = base
            /\ files[req[p]] = "whole" => f = "whole"
        BY <2>1, <3>1 DEF WriteFiles, localVars
      <3> QED
        BY <1>2, <3>2
    <2>2. CASE ~WriteFiles(p)
      BY <1>1, <1>4, <2>2 DEF Publish, Prepare, TakeBranch, Start, MakeCommit,
         PersistCandidate, UpdateRef, Align, VerifyCommit, Resume, WriteReceipt,
         Complete, repoVars, localVars
    <2> QED
      BY <2>1, <2>2
  <1>5. ASSUME NEW p \in Procs, KillWriting(p)
        PROVE  SubjectsStand'
    <2>1. base' = base
      BY <1>5 DEF KillWriting, localVars
    <2>2. CASE /\ files[req[p]] \in {"none", "part"}
               /\ files' = [files EXCEPT ![req[p]] = "torn"]
      BY <1>2, <2>1, <2>2
    <2> QED
      BY <1>1, <1>5, <2>1, <2>2 DEF KillWriting
  <1>6. CASE \/ UNCHANGED vars \/ CommitByHand
             \/ \E p \in Procs : Stop(p)
             \/ \E r \in Requests : LoseRecords(r) \/ LoseJournal(r)
    BY <1>1, <1>6 DEF vars, CommitByHand, Stop, LoseRecords, LoseJournal, repoVars,
       localVars
  <1> QED
    BY <1>3, <1>4, <1>5, <1>6 DEF Next

\* The retry of a publication that has reached the ref and is not closed
\* passes every check it meets, from the look before processing to the
\* receipt, unless a kill has torn publish.json, candidate or receipt.
THEOREM Recoverable == Spec => []CommittedIsRecoverable
  <1>1. Init => OneUnresolved /\ SubjectsStand
    <2> SUFFICES ASSUME Init PROVE OneUnresolved /\ SubjectsStand
      OBVIOUS
    <2>1. \A r \in Requests : ~Unresolved(r)
      BY DEF Init, Unresolved, NoTx
    <2>2. \A d \in Decisions : base[d] = Unset
      BY PublishAssumption DEF Init, Requests
    <2> QED
      BY <2>1, <2>2 DEF OneUnresolved, SubjectsStand
  <1>2. /\ IInv /\ OneUnresolved /\ [Next]_vars => OneUnresolved'
        /\ IInv /\ SubjectsStand /\ [Next]_vars => SubjectsStand'
    BY OneUnresolvedKept, SubjectsKept
  <1>3. IInv /\ OneUnresolved /\ SubjectsStand => CommittedIsRecoverable
    <2> SUFFICES ASSUME IInv, OneUnresolved, SubjectsStand,
                        NEW r \in Requests, r \in Committed, Unresolved(r),
                        "torn" \notin {tx[r].publish, tx[r].candidate, tx[r].receipt}
                 PROVE  RetryPasses(r)
      BY DEF CommittedIsRecoverable
    <2>1. RequestInv(r) /\ tx[r] \in Transactions
      BY DEF IInv, Types
    <2>2. files[r] = "whole" /\ base[r] # Unset /\ ~OtherUnresolved(r)
      BY <2>1 DEF RequestInv, OneUnresolved
    <2>3. Branch(r) \in {"resume", "rebuild"} /\ IsCheckpointed(r)
      BY <2>1 DEF RequestInv, IsCheckpointed, Branch, Transactions, Records
    <2>4. r \in Decisions => files[Subject[r]] = "whole"
      BY <2>2 DEF SubjectsStand
    <2> QED
      BY <2>2, <2>3, <2>4 DEF RetryPasses, GateIsShut, Prepares, Receipts
  <1> QED
    BY <1>1, <1>2, <1>3, Invariance, PTL DEF Spec

\* Files without a commit belong to the one publication that is unresolved.
THEOREM OrphansBlocked == Spec => []OrphansAreBlocked
  <1>1. IInv => OrphansAreBlocked
    BY DEF IInv, RequestInv, OrphansAreBlocked
  <1> QED
    BY <1>1, Invariance, PTL

-----------------------------------------------------------------------------
(* The managed ref is the log                                              *)

Closed == {r \in Requests : tx[r].complete # "none"} \cup forgotten

\* A step that moves neither the ref nor a completion mark.
LEMMA LogStutters ==
    ASSUME UNCHANGED <<head, forgotten>>,
           \A r \in Requests : tx'[r].complete = tx[r].complete
    PROVE  UNCHANGED <<head, Closed>>
  BY DEF Closed

\* The ref moves when everything on it is closed.
LEMMA RefPublishes ==
    ASSUME IInv, NEW p \in Procs, pc[p] \in {"ref", "resume"}, CompareAndSwap(p),
           UNCHANGED <<files, tx, localVars, histVars>>,
           Goto(p, "align") \/ Goto(p, "realign"), UNCHANGED lockVars
    PROVE  Log!LogNext
  <1>1. PICK r : r = req[p]
    OBVIOUS
  <1>2. pc[p] \in Prepared
    BY DEF Prepared
  <1>3. /\ r \in Requests /\ ~OtherUnresolved(r) /\ base[r] \in Histories
        /\ RequestInv(r)
    BY <1>1, <1>2, InHand
  <1>4. head = base[r] /\ head' = Append(head, r)
    BY <1>1 DEF CompareAndSwap, Commit
  <1>5. r \notin Committed
    <2>1. IsAncestor(Append(base[r], r), head) => Len(base[r]) < Len(head)
      BY <1>3, <1>4, AncestorHolds
    <2>2. Len(head) \in Nat
      BY <1>3, <1>4, LenProperties DEF Histories
    <2> QED
      BY <1>3, <1>4, <2>1, <2>2 DEF RequestInv, Commit
  <1>6. ASSUME NEW s \in Committed, s # User PROVE s \in Closed
    <2>1. s \in Requests
      BY <1>3, <1>4, <1>6, ElementOfSeq DEF Committed, Histories
    <2>2. s # r /\ ~Unresolved(s) /\ RequestInv(s)
      BY <1>3, <1>5, <2>1 DEF OtherUnresolved, IInv
    <2> QED
      BY <1>6, <2>1, <2>2 DEF RequestInv, Unresolved, Closed
  <1>7. Closed' = Closed
    BY DEF Closed, histVars
  <1> QED
    BY <1>3, <1>4, <1>5, <1>6, <1>7 DEF Log!LogNext, Log!Publish, Log!Logged, Committed, Closed

\* A publication is closed, by a completion mark whole or torn.
LEMMA MarkCloses ==
    ASSUME IInv, NEW r \in Requests, r \in Committed, NEW t,
           tx' = [tx EXCEPT ![r] = t], t.complete # "none",
           UNCHANGED <<head, forgotten>>
    PROVE  Log!LogNext
  <1>1. tx'[r] = t /\ \A s \in Requests \ {r} : tx'[s] = tx[s]
    BY DEF IInv, Types
  <1>2. Closed' = Closed \cup {r}
    BY <1>1 DEF Closed
  <1> QED
    BY <1>2 DEF Log!LogNext, Log!Close, Log!Logged, Committed, Closed

\* Another record of a publication is written.
LEMMA MarkStutters ==
    ASSUME IInv, NEW p \in Procs, req[p] \in Requests,
           NEW field \in {"publish", "started", "candidate", "index", "receipt"},
           NEW v, Mark(p, field, v), UNCHANGED <<head, forgotten>>
    PROVE  UNCHANGED <<head, Closed>>
  <1>1. tx[req[p]] \in Transactions
    BY DEF IInv, Types
  <1>2. PICK t : t = [tx[req[p]] EXCEPT ![field] = v]
    OBVIOUS
  <1>3. t.complete = tx[req[p]].complete
    BY <1>1, <1>2 DEF Transactions
  <1>4. tx' = [tx EXCEPT ![req[p]] = t]
    BY <1>2 DEF Mark
  <1>5. \A s \in Requests : tx'[s].complete = tx[s].complete
    BY <1>3, <1>4 DEF IInv, Types
  <1> QED
    BY <1>5, LogStutters

\* A step of a call that publishes is one of the log, or none.
LEMMA PublishLogs ==
    ASSUME IInv, NEW p \in Procs, Publish(p)
    PROVE  Log!LogNext \/ UNCHANGED <<head, Closed>>
  <1>1. CASE UNCHANGED <<head, tx, forgotten>>
    BY <1>1, LogStutters
  <1>2. ASSUME NEW field \in {"publish", "started", "candidate", "index", "receipt"},
               NEW v, Mark(p, field, v), UNCHANGED <<head, forgotten>>,
               pc[p] \in Locked
        PROVE  UNCHANGED <<head, Closed>>
    BY <1>2, Holder, MarkStutters
  <1>3. CASE Prepare(p)
    BY <1>1, <1>2, <1>3 DEF Prepare, Locked, repoVars, histVars
  <1>4. CASE TakeBranch(p) \/ WriteFiles(p) \/ Align(p) \/ VerifyCommit(p)
    BY <1>1, <1>4 DEF TakeBranch, WriteFiles, Align, VerifyCommit, repoVars, histVars
  <1>5. CASE Start(p)
    BY <1>2, <1>5 DEF Start, Locked, Prepared, repoVars, histVars
  <1>6. CASE MakeCommit(p)
    BY <1>1, <1>2, <1>6 DEF MakeCommit, Locked, Prepared, repoVars, histVars
  <1>7. CASE PersistCandidate(p)
    BY <1>2, <1>7 DEF PersistCandidate, Locked, Prepared, repoVars, histVars
  <1>8. CASE UpdateRef(p) \/ Resume(p)
    <2>1. /\ pc[p] \in {"ref", "resume"} /\ UNCHANGED <<files, tx, localVars, histVars>>
          /\ \/ head' = head
             \/ /\ CompareAndSwap(p) /\ UNCHANGED lockVars
                /\ Goto(p, "align") \/ Goto(p, "realign")
      BY <1>8 DEF UpdateRef, Resume
    <2> QED
      BY <1>1, <2>1, RefPublishes DEF histVars
  <1>9. CASE WriteReceipt(p)
    BY <1>1, <1>2, <1>9 DEF WriteReceipt, Locked, Prepared, After, repoVars, histVars
  <1>10. CASE Complete(p)
    <2>1. pc[p] = "complete" /\ pc[p] \in Prepared /\ pc[p] \in After
          /\ UNCHANGED <<head, forgotten>>
      BY <1>10 DEF Complete, Prepared, After, repoVars
    <2>2. req[p] \in Requests /\ req[p] \in Committed /\ Types
      BY <2>1, InHand DEF IInv
    <2>3. CASE Mark(p, "complete", "whole")
      <3>1. PICK t \in Transactions : /\ tx' = [tx EXCEPT ![req[p]] = t]
                                      /\ t = [tx[req[p]] EXCEPT !["complete"] = "whole"]
        BY <2>2, <2>3, Marked DEF Records
      <3>2. t.complete = "whole"
        BY <2>2, <3>1 DEF Types, Transactions
      <3> QED
        BY <2>1, <2>2, <3>1, <3>2, MarkCloses
    <2> QED
      BY <1>1, <1>10, <2>1, <2>3 DEF Complete
  <1> QED
    BY <1>3, <1>4, <1>5, <1>6, <1>7, <1>8, <1>9, <1>10 DEF Publish

\* A kill inside a write is a step of the log if it tears the completion mark.
LEMMA KillLogs ==
    ASSUME IInv, NEW p \in Procs, KillWriting(p)
    PROVE  Log!LogNext \/ UNCHANGED <<head, Closed>>
  <1>1. UNCHANGED <<head, forgotten>>
    BY DEF KillWriting, histVars
  <1>2. CASE UNCHANGED tx
    BY <1>1, <1>2, LogStutters
  <1>3. CASE /\ pc[p] \in DOMAIN Written
             /\ Mark(p, Written[pc[p]], "torn")
    <2>1. /\ pc[p] \in {"prepare", "candidate", "rebuild", "receipt", "complete"}
          /\ pc[p] \in Locked /\ (pc[p] = "complete" => pc[p] \in After \cap Prepared)
      BY <1>3 DEF Written, Locked, Prepared, After
    <2>2. req[p] \in Requests /\ Types
      BY <2>1, Holder
    <2>3. CASE pc[p] # "complete"
      <3>1. PICK field \in {"publish", "candidate", "receipt"} : field = Written[pc[p]]
        BY <2>1, <2>3 DEF Written
      <3> QED
        BY <1>1, <1>3, <2>2, <3>1, MarkStutters
    <2>4. CASE pc[p] = "complete"
      <3>1. Written[pc[p]] = "complete"
        BY <2>4 DEF Written
      <3>2. PICK t \in Transactions : /\ tx' = [tx EXCEPT ![req[p]] = t]
                                      /\ t = [tx[req[p]] EXCEPT !["complete"] = "torn"]
        BY <1>3, <2>2, <3>1, Marked DEF Records
      <3>3. t.complete = "torn"
        BY <2>2, <3>2 DEF Types, Transactions
      <3>4. req[p] \in Committed
        BY <2>1, <2>4, InHand
      <3> QED
        BY <1>1, <2>2, <3>2, <3>3, <3>4, MarkCloses
    <2> QED
      BY <2>3, <2>4
  <1> QED
    BY <1>2, <1>3 DEF KillWriting

\* Every step is one of the log, or none.
LEMMA NextLogs == IInv /\ [Next]_vars => [Log!LogNext]_<<head, Closed>>
  <1> SUFFICES ASSUME IInv, [Next]_vars
               PROVE  Log!LogNext \/ UNCHANGED <<head, Closed>>
    OBVIOUS
  <1>1. CASE UNCHANGED vars
    BY <1>1, LogStutters DEF vars, repoVars, histVars
  <1>2. ASSUME NEW p \in Procs, Begin(p) PROVE UNCHANGED <<head, Closed>>
    <2>1. UNCHANGED <<head, tx, forgotten>>
      BY <1>2 DEF Begin, Call, AcquireRequest, LockRequest, GateOpen, GateShut,
            GateRecovers, Process, Identity, AcquireKb, Bind, repoVars, histVars
    <2> QED
      BY <2>1, LogStutters
  <1>3. ASSUME NEW p \in Procs, Stop(p) PROVE UNCHANGED <<head, Closed>>
    BY <1>3, LogStutters DEF Stop, repoVars, histVars
  <1>4. CASE CommitByHand
    BY <1>4 DEF CommitByHand, Log!LogNext, Log!CommitByHand, Closed
  <1>5. ASSUME NEW r \in Requests, LoseJournal(r) PROVE UNCHANGED <<head, Closed>>
    BY <1>5, LogStutters DEF LoseJournal, repoVars
  <1>6. ASSUME NEW r \in Requests, LoseRecords(r) PROVE UNCHANGED <<head, Closed>>
    <2>1. /\ tx[r].complete = "whole" /\ tx' = [tx EXCEPT ![r] = NoTx]
          /\ forgotten' = forgotten \cup {r} /\ head' = head
      BY <1>6 DEF LoseRecords, repoVars
    <2>2. NoTx.complete = "none" /\ tx'[r] = NoTx
          /\ \A s \in Requests \ {r} : tx'[s] = tx[s]
      BY <2>1 DEF IInv, Types, NoTx
    <2> QED
      BY <2>1, <2>2 DEF Closed
  <1> QED
    BY <1>1, <1>2, <1>3, <1>4, <1>5, <1>6, PublishLogs, KillLogs DEF Next

\* Publishing into a target implements the abstract log: every publication
\* enters once, while all others on it are closed, and nothing is taken off.
THEOREM PublishImplementsLog == Spec => ImplementsLog
  <1>1. Init => Log!LogInit
    BY DEF Init, Log!LogInit, NoTx
  <1>2. IInv /\ [Next]_vars => [Log!LogNext]_<<head, Closed>>
    BY NextLogs
  <1> QED
    BY <1>1, <1>2, Invariance, PTL DEF Spec, ImplementsLog, Log!LogSpec, Closed
=============================================================================
