------------------------ MODULE TargetDecisionProofs ------------------------
(***************************************************************************)
(* Proofs about TargetDecision and the SourcePreparation it stands on, for *)
(* any processes, requests, decisions and bounds.                          *)
(***************************************************************************)
EXTENDS TargetDecision, TLAPS

-----------------------------------------------------------------------------
(* Types                                                                   *)

Whys == {"ok", "source", "busy", "conflict", "blocked", "name", "cut",
         "mismatch", "integrity"}

IdleCalls    == [phase : {"idle"}]
PrepareCalls == [phase : PrepareSteps, req : Preparations, n : Nat]
DecideCalls  == [phase : Steps \cup {"lock"}, req : Decisions,
                 published : BOOLEAN]
ToldCalls    == [phase : {"told"}, req : Preparations \cup Decisions,
                 state : States, why : Whys,
                 facts : Bundles \cup Results \cup {Nothing}]
Calls == IdleCalls \cup PrepareCalls \cup DecideCalls \cup ToldCalls

Transactions ==
    [made : BOOLEAN, request : Decisions \cup {Nothing, Half},
     identity : [name : Names \cup {Unnamed}] \cup {Nothing, Half},
     root : {"root", Nothing, Half}]

CallTypes == /\ call \in [Procs -> Calls]
             /\ spent \in [calls : Nat, cuts : Nat, edits : Nat]

SourceTypes == /\ text \in [Sources -> Texts]
               /\ captured \in [Sources -> Texts \cup {Nothing}]
               /\ source \in [Sources -> Bundles \cup {Nothing}]

TargetTypes == /\ tx \in [Requests -> Transactions]
               /\ staging \in [Requests -> {"none", "bare", "owned"}]
               /\ kb \in [Names -> KnowledgeBases \cup {Nothing}]
               /\ target \in [Requests -> Results \cup {Nothing}]

-----------------------------------------------------------------------------
(* The inductive invariant                                                 *)

\* A bundle of a source binds the text that is stored; so does one about to be.
SourceInv ==
    /\ \A s \in Sources : source[s] # Nothing =>
          source[s].req.id = s /\ captured[s] = source[s].req.expect
    /\ \A p \in Procs : call[p].phase = "publish" =>
          captured[call[p].req.id] = call[p].req.expect

\* The files of a request appear in order, and its bundle says what they say.
RequestInv(r) ==
    LET t == tx[r]
    IN  /\ ~t.made => t.request = Nothing
        /\ t.identity # Nothing => Whole(t.request)
        /\ Whole(t.request) => t.request.id = r
        /\ t.root # Nothing => Whole(t.identity)
        /\ Whole(t.identity) => (NameOf(r) \in Names <=> New(t.request))
        /\ target[r] # Nothing =>
              /\ Whole(t.identity)
              /\ target[r].req = t.request
              /\ target[r].name = NameOf(r)
              /\ source[t.request.source] # Nothing
              /\ target[r].run = source[t.request.source].run
              /\ Verified(r)

\* A knowledge base stands under the name its owner froze.
KbInv(n) ==
    kb[n] # Nothing =>
        LET r == kb[n].owner
        IN  /\ Whole(tx[r].identity) /\ NameOf(r) = n
            /\ tx[r].root = "root"
            /\ kb[n].ref = "later" => target[r] # Nothing

\* The request has no knowledge base.
Kbless(r) == \A n \in Names : kb[n] # Nothing => kb[n].owner # r

AfterIdentity == InParent \ {"identity"}
Routing == {"raw", "checkpoint", "ref", "receipt"}

\* What a call has written by the step it is at.
HolderInv(p) ==
    LET phase == call[p].phase
        d == call[p].req
        r == d.id
        k == KbOf(r)
    IN  /\ phase \in Steps \cup {"lock"} => source[d.source] # Nothing
        /\ phase \in Steps \ {"open"} => target[r] = Nothing /\ tx[r].made
        /\ phase = "request" => tx[r].request = Nothing /\ tx[r].identity = Nothing
        /\ phase \in InParent \cup {"parent"} => tx[r].request = d
        /\ phase \in AfterIdentity => Whole(tx[r].identity)
        /\ phase \in AfterIdentity \ {"bundle"} => New(d)
        /\ phase \in AfterIdentity /\ ~call[p].published => Kbless(r)
        /\ phase \in {"mark", "build", "place"} => Kbless(r) /\ tx[r].root # Half
        /\ phase = "mark" => staging[r] = "bare"
        /\ phase \in {"build", "place"} => staging[r] = "owned"
        /\ phase = "place" => tx[r].root = "root"
        /\ phase \in Routing \/ (phase = "bundle" /\ New(d)) =>
              k # Nothing /\ k.owner = r /\ call[p].published
        /\ phase \in {"checkpoint", "ref", "receipt"} \/ (phase = "bundle" /\ New(d))
              => k.files = RawFiles
        /\ phase = "receipt" \/ (phase = "bundle" /\ New(d)) => k.ref = "routed"
        /\ phase = "bundle" /\ New(d) => Whole(k.receipt)

\* Nobody is about to write what is missing.
Unwritten(r) ==
    /\ tx[r].made /\ tx[r].request = Nothing
    /\ \A q \in Procs : call[q].phase = "request" => Of(q) # r

Unmarked(r) ==
    /\ staging[r] = "bare"
    /\ \A q \in Procs : call[q].phase = "mark" => Of(q) # r

Torn(k) == Half \in {k.raw, k.candidate, k.receipt}

\* Damage that stays.
Lasting(d) ==
    LET r == d.id
    IN  \/ Unwritten(r) \/ Unmarked(r)
        \/ tx[r].request = Half
        \/ Half \in {tx[r].identity, tx[r].root}
        \/ \E q \in Rivals(d) : tx[q].identity = Half
        \/ \E n \in Names : kb[n] # Nothing /\ kb[n].owner = r /\ Torn(kb[n])
        \/ /\ Whole(tx[r].identity) /\ NameOf(r) \in Names
           /\ KbOf(r) # Nothing /\ KbOf(r).owner # r

\* An answer stays true.
AnswerInv(p) ==
    LET d == call[p].req
    IN  call[p].phase = "told" =>
        /\ call[p].state = "committed" /\ d \in Preparations =>
              source[d.id] # Nothing /\ source[d.id] = call[p].facts
        /\ call[p].state = "committed" /\ d \in Decisions =>
              /\ target[d.id] # Nothing
              /\ target[d.id] = call[p].facts
              /\ target[d.id].req = d
        /\ call[p].why = "blocked" /\ d \in Decisions => Lasting(d)

\* One call at a time holds a request.
LockInv ==
    \A p, q \in Procs :
        call[p].phase \in Steps /\ call[q].phase \in Steps /\ Of(p) = Of(q) => p = q

IInv ==
    /\ CallTypes /\ SourceTypes /\ TargetTypes
    /\ SourceInv
    /\ \A r \in Requests : RequestInv(r)
    /\ \A n \in Names : KbInv(n)
    /\ \A p \in Procs : HolderInv(p) /\ AnswerInv(p)
    /\ LockInv
    /\ NamesAreExclusive

-----------------------------------------------------------------------------
(* Types of a step                                                         *)

\* The step a call is at says what its record holds.
LEMMA CallKinds ==
    ASSUME CallTypes, NEW p \in Procs
    PROVE  /\ call[p].phase = "idle" => call[p] \in IdleCalls
           /\ call[p].phase = "told" => call[p] \in ToldCalls
           /\ call[p].phase \in PrepareSteps => call[p] \in PrepareCalls
           /\ call[p].phase \in Steps \cup {"lock"} => call[p] \in DecideCalls
           /\ call[p].phase \in {"idle", "told", "lock"} \cup PrepareSteps \cup Steps
  <1>1. call[p] \in IdleCalls \/ call[p] \in PrepareCalls
        \/ call[p] \in DecideCalls \/ call[p] \in ToldCalls
    BY DEF CallTypes, Calls
  <1>2. ASSUME call[p] \in IdleCalls PROVE call[p].phase = "idle"
    BY <1>2 DEF IdleCalls
  <1>3. ASSUME call[p] \in PrepareCalls PROVE call[p].phase \in PrepareSteps
    BY <1>3 DEF PrepareCalls
  <1>4. ASSUME call[p] \in DecideCalls PROVE call[p].phase \in Steps \cup {"lock"}
    BY <1>4 DEF DecideCalls
  <1>5. ASSUME call[p] \in ToldCalls PROVE call[p].phase = "told"
    BY <1>5 DEF ToldCalls
  <1>6. /\ "idle" \notin PrepareSteps /\ "told" \notin PrepareSteps
        /\ "idle" \notin Steps \cup {"lock"} /\ "told" \notin Steps \cup {"lock"}
        /\ \A x \in PrepareSteps : x \notin Steps \cup {"lock"}
    BY DEF PrepareSteps, Steps
  <1> QED
    BY <1>1, <1>2, <1>3, <1>4, <1>5, <1>6

\* A call of target_decide goes on to its next step.
LEMMA Moved ==
    ASSUME CallTypes, NEW p \in Procs, call[p].phase \in Steps \cup {"lock"},
           NEW phase \in Steps \cup {"lock"}, Goto(p, phase)
    PROVE  /\ call' \in [Procs -> Calls]
           /\ call'[p].phase = phase /\ call'[p].req = call[p].req
           /\ call'[p].published = call[p].published
           /\ \A q \in Procs \ {p} : call'[q] = call[q]
  <1>1. call[p] \in DecideCalls
    BY CallKinds
  <1>2. PICK c : c = [call[p] EXCEPT !.phase = phase]
    OBVIOUS
  <1>3. c \in DecideCalls /\ c.phase = phase /\ c.req = call[p].req
        /\ c.published = call[p].published
    BY <1>1, <1>2 DEF DecideCalls
  <1>4. call' = [call EXCEPT ![p] = c]
    BY <1>2 DEF Goto
  <1> QED
    BY <1>3, <1>4 DEF CallTypes, Calls

\* A call is answered, whichever operation it is of.
LEMMA Answered ==
    ASSUME CallTypes, NEW p \in Procs,
           call[p].phase \in Steps \cup {"lock"} \cup PrepareSteps,
           NEW state \in States, NEW why \in Whys,
           NEW facts \in Bundles \cup Results \cup {Nothing},
           Answer(p, state, why, facts)
    PROVE  /\ call' \in [Procs -> Calls]
           /\ call'[p].phase = "told" /\ call'[p].req = call[p].req
           /\ call'[p].state = state /\ call'[p].why = why
           /\ call'[p].facts = facts
           /\ \A q \in Procs \ {p} : call'[q] = call[q]
  <1>1. call[p].req \in Preparations \cup Decisions
    BY CallKinds DEF DecideCalls, PrepareCalls
  <1>2. PICK c : c = Told(call[p].req, state, why, facts)
    OBVIOUS
  <1>3. /\ c \in ToldCalls /\ c.phase = "told" /\ c.req = call[p].req
        /\ c.state = state /\ c.why = why /\ c.facts = facts
    BY <1>1, <1>2 DEF Told, ToldCalls
  <1>4. call' = [call EXCEPT ![p] = c]
    BY <1>2 DEF Answer
  <1> QED
    BY <1>3, <1>4 DEF CallTypes, Calls

-----------------------------------------------------------------------------
(* What a step leaves alone                                                *)

Owns(p, s) == call[p].phase \in Steps /\ Of(p) = s

\* Everything that belongs to request s is as it was.
Untouched(s) ==
    /\ tx'[s] = tx[s] /\ staging'[s] = staging[s] /\ target'[s] = target[s]
    /\ \A n \in Names : \/ kb[n] # Nothing /\ kb[n].owner = s
                        \/ kb'[n] # Nothing /\ kb'[n].owner = s
                        => kb'[n] = kb[n]

\* What is written of request s is not taken back, and its damage stays.
Stays(s) ==
    /\ tx[s].request # Nothing => tx'[s].request = tx[s].request
    /\ tx[s].identity # Nothing => tx'[s].identity = tx[s].identity
    /\ tx[s].root \in {Half, "root"} => tx'[s].root = tx[s].root
    /\ target[s] # Nothing => target'[s] = target[s]
    /\ Unwritten(s) => Unwritten(s)'
    /\ Unmarked(s) => Unmarked(s)'
    /\ \A n \in Names : kb[n] # Nothing /\ kb[n].owner = s =>
          kb'[n] # Nothing /\ kb'[n].owner = s /\ (Torn(kb[n]) => Torn(kb'[n]))

SourcesStay == \A s \in Sources : source[s] # Nothing => source'[s] = source[s]

\* Requests and sources of decisions.
LEMMA DecisionIds ==
    ASSUME NEW d \in Decisions
    PROVE  d.id \in Requests /\ d.source \in Sources /\ Whole(d) /\ d \notin Preparations
  BY DecisionAssumption, FileAssumption DEF Requests

\* Damage stays damage.
LEMMA LastingStays ==
    ASSUME TargetTypes, \A s \in Requests : Stays(s), NEW d \in Decisions, Lasting(d)
    PROVE  Lasting(d)'
  <1> DEFINE r == d.id
  <1>1. r \in Requests /\ Stays(r)
    BY DecisionIds
  <1>2. ASSUME Unwritten(r) \/ Unmarked(r) PROVE Lasting(d)'
    BY <1>1, <1>2 DEF Stays, Lasting
  <1>3. ASSUME tx[r].request = Half PROVE Lasting(d)'
    BY <1>1, <1>3, FileAssumption DEF Stays, Lasting
  <1>4. ASSUME Half \in {tx[r].identity, tx[r].root} PROVE Lasting(d)'
    BY <1>1, <1>4, FileAssumption DEF Stays, Lasting
  <1>5. ASSUME NEW q \in Rivals(d), tx[q].identity = Half PROVE Lasting(d)'
    <2>1. q \in Requests /\ Stays(q)
      BY DEF Rivals
    <2>2. tx'[q].identity = Half /\ tx'[q].request = tx[q].request
      BY <1>5, <2>1, FileAssumption DEF Stays, Rivals, Whole
    <2>3. q \in Rivals(d)'
      BY <1>5, <2>1, <2>2, FileAssumption DEF Rivals
    <2> QED
      BY <2>2, <2>3 DEF Lasting
  <1>6. ASSUME NEW n \in Names, kb[n] # Nothing, kb[n].owner = r, Torn(kb[n])
        PROVE  Lasting(d)'
    BY <1>1, <1>6 DEF Stays, Lasting
  <1>7. ASSUME Whole(tx[r].identity), NameOf(r) \in Names, KbOf(r) # Nothing,
               KbOf(r).owner # r
        PROVE  Lasting(d)'
    <2>1. tx'[r].identity = tx[r].identity
      BY <1>1, <1>7 DEF Stays, Whole
    <2>2. PICK n \in Names : n = NameOf(r)
      BY <1>7
    <2>3. kb[n] # Nothing /\ kb[n].owner # r /\ kb[n].owner \in Requests
      BY <1>7, <2>2 DEF KbOf, TargetTypes, KnowledgeBases
    <2>4. Stays(kb[n].owner)
      BY <2>3
    <2>5. kb'[n] # Nothing /\ kb'[n].owner # r
      BY <2>3, <2>4 DEF Stays
    <2>6. n = NameOf(r)' /\ Whole(tx'[r].identity)
      BY <1>7, <2>1, <2>2 DEF NameOf
    <2> QED
      BY <2>5, <2>6 DEF Lasting, KbOf
  <1> QED
    BY <1>2, <1>3, <1>4, <1>5, <1>6, <1>7 DEF Lasting

\* An answer stays true.
LEMMA AnswersStand ==
    ASSUME TargetTypes, SourcesStay, \A s \in Requests : Stays(s),
           NEW p \in Procs, call'[p] = call[p], AnswerInv(p)
    PROVE  AnswerInv(p)'
  <1> SUFFICES ASSUME call[p].phase = "told" PROVE AnswerInv(p)'
    BY DEF AnswerInv
  <1> DEFINE d == call[p].req
  <1>1. ASSUME d \in Decisions
        PROVE  /\ call[p].state = "committed" => target'[d.id] = target[d.id]
               /\ call[p].why = "blocked" => Lasting(d)'
    <2>1. Stays(d.id)
      BY <1>1, DecisionIds
    <2> QED
      BY <1>1, <2>1, LastingStays DEF AnswerInv, Stays
  <1>2. ASSUME d \in Preparations, call[p].state = "committed"
        PROVE  source'[d.id] = source[d.id]
    <2>1. d.id \in Sources
      BY <1>2 DEF Sources
    <2> QED
      BY <1>2, <2>1 DEF AnswerInv, SourcesStay
  <1> QED
    BY <1>1, <1>2 DEF AnswerInv

\* The files of a request that nobody touches.
LEMMA RequestStands ==
    ASSUME TargetTypes, SourcesStay, NEW s \in Requests, Untouched(s), RequestInv(s)
    PROVE  RequestInv(s)'
  <1>1. tx'[s] = tx[s] /\ target'[s] = target[s] /\ NameOf(s)' = NameOf(s)
    BY DEF Untouched, NameOf
  <1>2. ASSUME target[s] # Nothing
        PROVE  /\ source'[tx[s].request.source] # Nothing
               /\ source'[tx[s].request.source] = source[tx[s].request.source]
               /\ Verified(s)'
    <2>1. /\ Whole(tx[s].identity) /\ Whole(tx[s].request)
          /\ target[s].req = tx[s].request /\ target[s].name = NameOf(s)
          /\ source[tx[s].request.source] # Nothing /\ Verified(s)
          /\ NameOf(s) \in Names <=> New(tx[s].request)
      BY <1>2 DEF RequestInv, Whole
    <2>2. tx[s].request \in Decisions
      BY <2>1 DEF TargetTypes, Transactions, Whole
    <2>3. source'[tx[s].request.source] = source[tx[s].request.source]
      BY <2>1, <2>2, DecisionIds DEF SourcesStay
    <2>4. CASE New(target[s].req)
      <3>1. PICK n \in Names : n = target[s].name
        BY <2>1, <2>4
      <3>2. kb[n] # Nothing /\ kb[n].owner = s
        BY <2>1, <2>4, <3>1 DEF Verified
      <3>3. kb'[n] = kb[n]
        BY <3>2 DEF Untouched
      <3> QED
        BY <1>1, <2>1, <2>3, <2>4, <3>1, <3>3 DEF Verified
    <2>5. CASE ~New(target[s].req)
      BY <1>1, <2>1, <2>3, <2>5 DEF Verified
    <2> QED
      BY <2>4, <2>5
  <1> QED
    BY <1>1, <1>2 DEF RequestInv

\* The knowledge base of a request that nobody touches.
LEMMA KbStands ==
    ASSUME TargetTypes', NEW n \in Names, KbInv(n), kb'[n] # Nothing,
           Untouched(kb'[n].owner)
    PROVE  KbInv(n)'
  <1>1. kb'[n].owner \in Requests
    BY DEF TargetTypes, KnowledgeBases
  <1>2. kb'[n] = kb[n]
    BY DEF Untouched
  <1>3. /\ tx'[kb[n].owner] = tx[kb[n].owner]
        /\ target'[kb[n].owner] = target[kb[n].owner]
    BY <1>2 DEF Untouched
  <1> QED
    BY <1>2, <1>3 DEF KbInv, NameOf

\* A call whose request nobody else touches.
LEMMA HolderStands ==
    ASSUME IInv, SourcesStay, NEW q \in Procs, call'[q] = call[q], HolderInv(q),
           call[q].phase \in Steps => Untouched(Of(q))
    PROVE  HolderInv(q)'
  <1>1. CallTypes /\ TargetTypes
    BY DEF IInv
  <1>2. CASE call[q].phase \notin Steps \cup {"lock"}
    <2>1. call[q].phase \notin InParent \cup Routing \cup {"request", "parent", "bundle"}
      BY <1>2 DEF Steps, InParent, Routing
    <2>2. call[q].phase \notin {"mark", "build", "place", "checkpoint", "ref", "receipt"}
      BY <1>2 DEF Steps
    <2> QED
      BY <1>2, <2>1, <2>2 DEF HolderInv, AfterIdentity
  <1>3. CASE call[q].phase \in Steps \cup {"lock"}
    <2>0. PICK d : d = call[q].req
      OBVIOUS
    <2>a. PICK r : r = d.id
      OBVIOUS
    <2>1. d \in Decisions
      BY <1>1, <1>3, <2>0, CallKinds DEF DecideCalls
    <2>2. source'[d.source] # Nothing
      BY <1>3, <2>0, <2>1, DecisionIds DEF HolderInv, SourcesStay
    <2>3. CASE call[q].phase = "lock"
      <3>1. "lock" \notin InParent \cup Routing \cup {"request", "parent", "bundle"} \cup Steps
        BY DEF Steps, InParent, Routing
      <3> QED
        BY <2>0, <2>2, <2>3, <3>1 DEF HolderInv, AfterIdentity
    <2>4. CASE call[q].phase \in Steps
      <3>1. Untouched(r) /\ r \in Requests
        BY <2>0, <2>a, <2>1, <2>4, DecisionIds DEF Of
      <3>2. /\ tx'[r] = tx[r] /\ staging'[r] = staging[r] /\ target'[r] = target[r]
            /\ NameOf(r)' = NameOf(r)
        BY <3>1 DEF Untouched, NameOf
      <3>3. Kbless(r) => Kbless(r)'
        BY <3>1 DEF Kbless, Untouched
      <3>4. ASSUME call[q].phase \in Routing \/ (call[q].phase = "bundle" /\ New(d))
            PROVE  KbOf(r)' = KbOf(r)
        <4>1. /\ call[q].phase \in AfterIdentity /\ Whole(tx[r].identity)
              /\ tx[r].request = d /\ New(d)
              /\ KbOf(r) # Nothing /\ KbOf(r).owner = r
          BY <2>0, <2>a, <3>4 DEF HolderInv, AfterIdentity, InParent, Steps, Routing
        <4>2. NameOf(r) \in Names
          BY <3>1, <4>1, DecisionIds DEF IInv, RequestInv
        <4>3. PICK n \in Names : n = NameOf(r)
          BY <4>2
        <4>4. kb[n] # Nothing /\ kb[n].owner = r
          BY <4>1, <4>3 DEF KbOf
        <4>5. kb'[n] = kb[n]
          BY <3>1, <4>4 DEF Untouched
        <4> QED
          BY <3>2, <4>3, <4>5 DEF KbOf
      <3>5. call[q].phase \in {"checkpoint", "ref", "receipt"} => call[q].phase \in Routing
        BY DEF Routing
      <3> QED
        BY <2>0, <2>a, <2>2, <3>2, <3>3, <3>4, <3>5 DEF HolderInv
    <2> QED
      BY <1>3, <2>3, <2>4
  <1> QED
    BY <1>2, <1>3

\* Names stay apart while requests and identities are what they were.
LEMMA NamesStand ==
    ASSUME NamesAreExclusive,
           \A s \in Requests : /\ tx'[s].request = tx[s].request
                               /\ tx'[s].identity = tx[s].identity
    PROVE  NamesAreExclusive'
  BY DEF NamesAreExclusive, NameOf

\* A request nobody touches, and that no step of p begins to write or mark.
LEMMA UntouchedStays ==
    ASSUME CallTypes, NEW p \in Procs, \A q \in Procs \ {p} : call'[q] = call[q],
           NEW s \in Requests, Untouched(s),
           call'[p].phase \in {"request", "mark"} => Of(p)' # s
    PROVE  Stays(s)
  <1>1. \A q \in Procs : call'[q].phase = "request" /\ Of(q)' = s =>
           call[q].phase = "request" /\ Of(q) = s
    BY DEF Of
  <1>2. \A q \in Procs : call'[q].phase = "mark" /\ Of(q)' = s =>
           call[q].phase = "mark" /\ Of(q) = s
    BY DEF Of
  <1>3. Unwritten(s) => Unwritten(s)'
    BY <1>1 DEF Unwritten, Untouched
  <1>4. Unmarked(s) => Unmarked(s)'
    BY <1>2 DEF Unmarked, Untouched
  <1> QED
    BY <1>3, <1>4 DEF Stays, Untouched

\* What a step of one call has to establish: the others keep what they have.
LEMMA StepInv ==
    ASSUME IInv, NEW p \in Procs, \A q \in Procs \ {p} : call'[q] = call[q],
           CallTypes', SourceTypes', TargetTypes', SourceInv', SourcesStay,
           \A s \in Requests : Untouched(s) \/ (Owns(p, s) /\ Stays(s) /\ RequestInv(s)'),
           \A n \in Names : kb'[n] # Nothing /\ Owns(p, kb'[n].owner) => KbInv(n)',
           call'[p].phase \in Steps =>
              \/ Owns(p, Of(p)')
              \/ \A q \in Procs \ {p} : ~HoldsRequest(q, Of(p)'),
           \A s \in Requests : call'[p].phase \in {"request", "mark"} /\ Of(p)' = s
              => ~Untouched(s) \/ Stays(s),
           HolderInv(p)', AnswerInv(p)', NamesAreExclusive'
    PROVE  IInv'
  <1>1. TargetTypes /\ CallTypes
    BY DEF IInv
  <1>2. \A s \in Requests : Stays(s)
    BY <1>1, UntouchedStays
  <1>3. \A s \in Requests : RequestInv(s)'
    BY <1>1, RequestStands DEF IInv
  <1>4. ASSUME NEW n \in Names PROVE KbInv(n)'
    <2>1. CASE kb'[n] = Nothing
      BY <2>1 DEF KbInv
    <2>2. CASE kb'[n] # Nothing
      <3>1. kb'[n].owner \in Requests
        BY <2>2 DEF TargetTypes, KnowledgeBases
      <3>2. KbInv(n)
        BY DEF IInv
      <3> QED
        BY <2>2, <3>1, <3>2, KbStands
    <2> QED
      BY <2>1, <2>2
  <1>5. ASSUME NEW q \in Procs \ {p} PROVE HolderInv(q)' /\ AnswerInv(q)'
    <2>1. HolderInv(q) /\ AnswerInv(q) /\ LockInv
      BY DEF IInv
    <2>2. AnswerInv(q)'
      BY <1>1, <1>2, <2>1, AnswersStand
    <2>3. ASSUME call[q].phase \in Steps PROVE Untouched(Of(q))
      <3>1. Of(q) \in Requests
        BY <1>1, <2>3, CallKinds, DecisionIds DEF DecideCalls, Of
      <3>2. ~Owns(p, Of(q))
        BY <2>1, <2>3 DEF Owns, LockInv
      <3> QED
        BY <3>1, <3>2
    <2> QED
      BY <2>1, <2>2, <2>3, HolderStands
  <1>6. LockInv'
    <2>1. ASSUME NEW q \in Procs \ {p}, call'[p].phase \in Steps,
                 call'[q].phase \in Steps, Of(p)' = Of(q)'
          PROVE  FALSE
      <3>1. call[q].phase \in Steps /\ Of(q) = Of(p)'
        BY <2>1 DEF Of
      <3> QED
        BY <2>1, <3>1 DEF Owns, HoldsRequest, LockInv, IInv
    <2>2. \A q, r \in Procs \ {p} : Of(q)' = Of(q) /\ Of(r)' = Of(r)
      BY DEF Of
    <2> QED
      BY <2>1, <2>2 DEF LockInv, IInv
  <1> QED
    BY <1>3, <1>4, <1>5, <1>6 DEF IInv

\* No file of any request changes.
SameFiles == UNCHANGED targetVars

\* Where no file changes, no request is touched.
LEMMA SameFilesUntouched ==
    ASSUME SameFiles
    PROVE  \A s \in Requests : Untouched(s)
  BY DEF SameFiles, targetVars, Untouched

\* A step of one call that changes no file of a request.
LEMMA QuietStep ==
    ASSUME IInv, NEW p \in Procs, \A q \in Procs \ {p} : call'[q] = call[q],
           CallTypes', SourceTypes', SourceInv', SourcesStay, SameFiles,
           call'[p].phase \in Steps =>
              \/ Owns(p, Of(p)')
              \/ \A q \in Procs \ {p} : ~HoldsRequest(q, Of(p)'),
           call'[p].phase \notin {"request", "mark"},
           HolderInv(p)', AnswerInv(p)'
    PROVE  IInv'
  <1>1. TargetTypes'
    BY DEF IInv, TargetTypes, SameFiles, targetVars
  <1>2. NamesAreExclusive'
    BY NamesStand DEF IInv, SameFiles, targetVars
  <1>3. \A n \in Names : kb'[n] # Nothing /\ Owns(p, kb'[n].owner) => KbInv(n)'
    BY DEF IInv, KbInv, SameFiles, targetVars, NameOf
  <1> QED
    BY <1>1, <1>2, <1>3, SameFilesUntouched, StepInv

\* A call that is not under way owes nothing.
LEMMA NotHolding ==
    ASSUME NEW p \in Procs, call'[p].phase \notin Steps \cup {"lock"}
    PROVE  HolderInv(p)'
  <1>1. call'[p].phase \notin InParent \cup Routing \cup {"request", "parent", "bundle"}
    BY DEF Steps, InParent, Routing
  <1>2. call'[p].phase \notin {"mark", "build", "place", "checkpoint", "ref", "receipt"}
    BY DEF Steps
  <1> QED
    BY <1>1, <1>2 DEF HolderInv, AfterIdentity

-----------------------------------------------------------------------------
(* The preparation of sources                                              *)

CapturedStay == \A s \in Sources : captured[s] # Nothing => captured'[s] = captured[s]

\* Sources and texts asked for.
LEMMA PreparationIds ==
    ASSUME NEW req \in Preparations
    PROVE  req.id \in Sources /\ req.expect \in Texts /\ req.expect # Nothing
           /\ req \notin Decisions
  BY PreparationAssumption, DecisionAssumption DEF Sources

\* What is stored and published stays, and what is new is right.
LEMMA SourceStands ==
    ASSUME SourceInv, CallTypes, SourceTypes, SourcesStay, CapturedStay, NEW p \in Procs,
           \A q \in Procs \ {p} : call'[q] = call[q],
           \A s \in Sources : source[s] = Nothing /\ source'[s] # Nothing =>
              source'[s].req.id = s /\ captured'[s] = source'[s].req.expect,
           call'[p].phase = "publish" =>
              captured'[call'[p].req.id] = call'[p].req.expect
    PROVE  SourceInv'
  <1>1. ASSUME NEW s \in Sources, source'[s] # Nothing
        PROVE  source'[s].req.id = s /\ captured'[s] = source'[s].req.expect
    <2>1. CASE source[s] = Nothing
      BY <1>1, <2>1
    <2>2. CASE source[s] # Nothing
      <3>1. /\ source'[s] = source[s] /\ source[s].req.id = s
            /\ captured[s] = source[s].req.expect
        BY <2>2 DEF SourcesStay, SourceInv
      <3>2. source[s].req \in Preparations
        BY <2>2 DEF SourceTypes, Bundles
      <3> QED
        BY <3>1, <3>2, PreparationIds DEF CapturedStay
    <2> QED
      BY <2>1, <2>2
  <1>2. ASSUME NEW q \in Procs \ {p}, call'[q].phase = "publish"
        PROVE  captured'[call'[q].req.id] = call'[q].req.expect
    <2>1. call[q].phase = "publish" /\ call'[q] = call[q]
      BY <1>2
    <2>2. call[q].req \in Preparations
      BY <2>1, CallKinds DEF PrepareSteps, PrepareCalls
    <2>3. captured[call[q].req.id] = call[q].req.expect
      BY <2>1 DEF SourceInv
    <2> QED
      BY <2>1, <2>2, <2>3, PreparationIds DEF CapturedStay
  <1> QED
    BY <1>1, <1>2 DEF SourceInv

\* A call of prepare_source goes on to its next step.
LEMMA MovedPrepare ==
    ASSUME CallTypes, NEW p \in Procs, call[p].phase \in PrepareSteps,
           NEW phase \in PrepareSteps, Goto(p, phase)
    PROVE  /\ call' \in [Procs -> Calls]
           /\ call'[p].phase = phase /\ call'[p].req = call[p].req
           /\ \A q \in Procs \ {p} : call'[q] = call[q]
  <1>1. call[p] \in PrepareCalls
    BY CallKinds
  <1>2. PICK c : c = [call[p] EXCEPT !.phase = phase]
    OBVIOUS
  <1>3. c \in PrepareCalls /\ c.phase = phase /\ c.req = call[p].req
    BY <1>1, <1>2 DEF PrepareCalls
  <1>4. call' = [call EXCEPT ![p] = c]
    BY <1>2 DEF Goto
  <1> QED
    BY <1>3, <1>4 DEF CallTypes, Calls

\* A process takes up a call, or is given a reader's answer.
LEMMA Taken ==
    ASSUME CallTypes, NEW p \in Procs, NEW c \in Calls, call' = [call EXCEPT ![p] = c]
    PROVE  /\ call' \in [Procs -> Calls] /\ call'[p] = c
           /\ \A q \in Procs \ {p} : call'[q] = call[q]
  BY DEF CallTypes

\* A step that is not one of target_decide leaves the files of decisions alone.
LEMMA OtherStep ==
    ASSUME IInv, NEW p \in Procs, \A q \in Procs \ {p} : call'[q] = call[q],
           call' \in [Procs -> Calls], spent' \in [calls : Nat, cuts : Nat, edits : Nat],
           SourceTypes', SourcesStay, CapturedStay, SameFiles,
           \A s \in Sources : source[s] = Nothing /\ source'[s] # Nothing =>
              source'[s].req.id = s /\ captured'[s] = source'[s].req.expect,
           call'[p].phase = "publish" =>
              captured'[call'[p].req.id] = call'[p].req.expect,
           call'[p].phase \notin Steps \cup {"lock"}, AnswerInv(p)'
    PROVE  IInv'
  <1>1. SourceInv'
    BY SourceStands DEF IInv
  <1>2. HolderInv(p)'
    BY NotHolding
  <1>3. CallTypes' /\ call'[p].phase \notin {"request", "mark"}
    BY DEF CallTypes, Steps
  <1> QED
    BY <1>1, <1>2, <1>3, QuietStep

\* An answer of prepare_source or of a reader of sources.
LEMMA SourceAnswer ==
    ASSUME NEW p \in Procs, call'[p].phase = "told", call'[p].req \in Preparations,
           call'[p].state = "committed" => /\ source'[call'[p].req.id] # Nothing
                                           /\ source'[call'[p].req.id] = call'[p].facts
    PROVE  AnswerInv(p)'
  <1>1. call'[p].req \notin Decisions
    BY PreparationIds
  <1> QED
    BY <1>1 DEF AnswerInv

\* One step of prepare_source, inspect_source or show_evidence.
LEMMA PrepareStepInv ==
    ASSUME IInv, NEW p \in Procs, PrepareStep(p), UNCHANGED targetVars
    PROVE  IInv'
  <1>1. CallTypes /\ SourceTypes /\ SourceInv /\ SameFiles
        /\ spent \in [calls : Nat, cuts : Nat, edits : Nat]
    BY DEF IInv, CallTypes, SameFiles
  <1>2. ASSUME spent' = [spent EXCEPT !.calls = @ + 1] \/ spent' = spent
               \/ spent' = [spent EXCEPT !.cuts = @ + 1]
        PROVE  spent' \in [calls : Nat, cuts : Nat, edits : Nat]
    BY <1>1, <1>2
  <1>3. ASSUME UNCHANGED prepareVars
        PROVE  /\ SourceTypes' /\ SourcesStay /\ CapturedStay
               /\ source' = source /\ captured' = captured
               /\ \A s \in Sources : ~(source[s] = Nothing /\ source'[s] # Nothing)
    BY <1>1, <1>3 DEF prepareVars, SourceTypes, SourcesStay, CapturedStay
  <1>4. ASSUME call[p].phase \in PrepareSteps
        PROVE  call[p].req \in Preparations /\ call[p].n \in Nat
    BY <1>1, <1>4, CallKinds DEF PrepareCalls
  <1>5. /\ PrepareSteps \cap (Steps \cup {"lock", "told"}) = {}
        /\ "told" \notin Steps \cup {"lock"}
    BY DEF PrepareSteps, Steps
  <1>6. ASSUME NEW s \in Sources, source[s] # Nothing
        PROVE  /\ source[s] \in Bundles /\ source[s].req \in Preparations
               /\ source[s].req.id = s
    BY <1>1, <1>6 DEF SourceTypes, Bundles, SourceInv
  \* Refusals before anything is stored, and after.
  <1>7. ASSUME NEW state \in {"not", "unknown"}, NEW why \in Whys, Refuse(p, state, why),
               call[p].phase \in PrepareSteps, SourceTypes', SourcesStay, CapturedStay,
               \A s \in Sources : source[s] = Nothing /\ source'[s] # Nothing =>
                  source'[s].req.id = s /\ captured'[s] = source'[s].req.expect,
               spent' \in [calls : Nat, cuts : Nat, edits : Nat]
        PROVE  IInv'
    <2>1. state \in States /\ state # "committed"
      BY <1>7 DEF States
    <2>2. /\ call' \in [Procs -> Calls] /\ call'[p].phase = "told"
          /\ call'[p].req = call[p].req /\ call'[p].state = state
          /\ \A q \in Procs \ {p} : call'[q] = call[q]
      BY <1>1, <1>7, <2>1, Answered DEF Refuse
    <2>3. AnswerInv(p)'
      BY <1>4, <1>7, <2>1, <2>2, SourceAnswer
    <2> QED
      BY <1>1, <1>5, <1>7, <2>2, <2>3, OtherStep
  \* Answers with a published bundle.
  <1>8. ASSUME NEW facts \in Bundles, Succeed(p, facts), call[p].phase \in PrepareSteps,
               SourceTypes', SourcesStay, UNCHANGED <<captured, spent>>,
               source'[call[p].req.id] = facts,
               \A s \in Sources : source[s] = Nothing /\ source'[s] # Nothing =>
                  source'[s].req.id = s /\ captured[s] = source'[s].req.expect
        PROVE  IInv'
    <2>1. "committed" \in States /\ "ok" \in Whys
      BY DEF States, Whys
    <2>2. /\ call' \in [Procs -> Calls] /\ call'[p].phase = "told"
          /\ call'[p].req = call[p].req /\ call'[p].facts = facts
          /\ \A q \in Procs \ {p} : call'[q] = call[q]
      BY <1>1, <1>8, <2>1, Answered DEF Succeed
    <2>3. facts # Nothing
      BY <1>8, PreparationAssumption
    <2>4. AnswerInv(p)'
      BY <1>4, <1>8, <2>2, <2>3, SourceAnswer
    <2>5. CapturedStay
      BY <1>8 DEF CapturedStay
    <2> QED
      BY <1>1, <1>5, <1>8, <2>2, <2>4, <2>5, OtherStep
  \* Steps that go on.
  <1>9. ASSUME NEW phase \in PrepareSteps, Goto(p, phase), call[p].phase \in PrepareSteps,
               SourceTypes', CapturedStay, UNCHANGED <<source, spent>>,
               phase = "publish" => captured'[call[p].req.id] = call[p].req.expect
        PROVE  IInv'
    <2>1. /\ call' \in [Procs -> Calls]
          /\ call'[p].phase = phase /\ call'[p].req = call[p].req
          /\ \A q \in Procs \ {p} : call'[q] = call[q]
      BY <1>1, <1>9, MovedPrepare
    <2>2. AnswerInv(p)'
      BY <1>5, <1>9, <2>1 DEF AnswerInv
    <2>3. SourcesStay
      BY <1>9 DEF SourcesStay
    <2> QED
      BY <1>1, <1>5, <1>9, <2>1, <2>2, <2>3, OtherStep
  <1>10. CASE \E req \in Preparations : CallPrepare(p, req)
    <2>1. PICK req \in Preparations : CallPrepare(p, req)
      BY <1>10
    <2>2. PICK c : c = [phase |-> "look", req |-> req, n |-> spent.calls + 1]
      OBVIOUS
    <2>3. c \in Calls /\ c.phase = "look"
      BY <1>1, <2>2 DEF Calls, PrepareCalls, PrepareSteps
    <2>4. call' = [call EXCEPT ![p] = c]
      BY <2>1, <2>2 DEF CallPrepare, Begin
    <2>5. /\ call' \in [Procs -> Calls] /\ call'[p] = c
          /\ \A q \in Procs \ {p} : call'[q] = call[q]
      BY <1>1, <2>3, <2>4, Taken
    <2>6. call'[p].phase \notin Steps \cup {"lock", "told", "publish"}
      BY <2>3, <2>5 DEF Steps
    <2>7. AnswerInv(p)'
      BY <2>6 DEF AnswerInv
    <2> QED
      BY <1>1, <1>2, <1>3, <2>1, <2>5, <2>6, <2>7, OtherStep DEF CallPrepare, Begin
  <1>11. ASSUME NEW s \in Sources, InspectSource(p, s) \/ ShowEvidence(p, s)
         PROVE  IInv'
    <2>1. PICK c : /\ \/ c = Told(source[s].req, "committed", "ok", source[s])
                      \/ c = Told(source[s].req, "unknown", "integrity", Nothing)
                   /\ Read(p, s, c)
      BY <1>11 DEF InspectSource, ShowEvidence
    <2>2. source[s] # Nothing
      BY <2>1 DEF Read
    <2>3. /\ c \in Calls /\ c.phase = "told" /\ c.req = source[s].req
          /\ c.state = "committed" => c.facts = source[s]
      BY <1>6, <2>1, <2>2 DEF Told, Calls, ToldCalls, States, Whys
    <2>4. /\ call' \in [Procs -> Calls] /\ call'[p] = c
          /\ \A q \in Procs \ {p} : call'[q] = call[q]
      BY <1>1, <2>1, <2>3, Taken DEF Read
    <2>5. AnswerInv(p)'
      BY <1>3, <1>6, <2>1, <2>2, <2>3, <2>4, SourceAnswer DEF Read
    <2>6. call'[p].phase \notin Steps \cup {"lock", "publish"}
      BY <2>3, <2>4 DEF Steps
    <2> QED
      BY <1>1, <1>2, <1>3, <2>1, <2>4, <2>5, <2>6, OtherStep DEF Read
  <1>12. CASE Look(p)
    <2>1. PICK found : found = source[call[p].req.id]
      OBVIOUS
    <2>2. call[p].phase \in PrepareSteps /\ UNCHANGED <<prepareVars, spent>>
      BY <1>12 DEF Look, PrepareSteps
    <2>3. call[p].req.id \in Sources
      BY <1>4, <2>2, PreparationIds
    <2>4. "preflight" \in PrepareSteps /\ "preflight" # "publish" /\ "conflict" \in Whys
      BY DEF PrepareSteps, Whys
    <2>5. CASE Goto(p, "preflight")
      BY <1>3, <1>9, <2>2, <2>4, <2>5 DEF prepareVars
    <2>6. CASE found # Nothing /\ Succeed(p, found)
      BY <1>3, <1>6, <1>8, <2>1, <2>2, <2>3, <2>6 DEF prepareVars
    <2>7. CASE Refuse(p, "not", "conflict")
      BY <1>3, <1>7, <1>2, <2>2, <2>4, <2>7 DEF prepareVars
    <2> QED
      BY <1>12, <2>1, <2>5, <2>6, <2>7 DEF Look
  <1>13. CASE Preflight(p)
    <2>1. call[p].phase \in PrepareSteps /\ UNCHANGED <<prepareVars, spent>>
      BY <1>13 DEF Preflight, PrepareSteps
    <2>2. "capture" \in PrepareSteps /\ "capture" # "publish" /\ "mismatch" \in Whys
      BY DEF PrepareSteps, Whys
    <2>3. CASE Goto(p, "capture")
      BY <1>3, <1>9, <2>1, <2>2, <2>3 DEF prepareVars
    <2>4. CASE Refuse(p, "not", "mismatch")
      BY <1>3, <1>7, <1>2, <2>1, <2>2, <2>4 DEF prepareVars
    <2> QED
      BY <1>13, <2>3, <2>4 DEF Preflight
  <1>14. CASE CaptureFile(p)
    <2>1. call[p].phase \in PrepareSteps /\ UNCHANGED <<text, source, spent>>
      BY <1>14 DEF CaptureFile, PrepareSteps
    <2>2. call[p].req.id \in Sources
      BY <1>4, <2>1, PreparationIds
    <2>3. "postflight" \in PrepareSteps /\ "postflight" # "publish" /\ "conflict" \in Whys
      BY DEF PrepareSteps, Whys
    <2>4. CASE /\ captured[call[p].req.id] \in {Nothing, text[call[p].req.id]}
               /\ captured' = [captured EXCEPT ![call[p].req.id] = text[call[p].req.id]]
               /\ Goto(p, "postflight")
      <3>1. SourceTypes' /\ CapturedStay
        BY <1>1, <2>1, <2>2, <2>4 DEF SourceTypes, CapturedStay
      <3> QED
        BY <1>9, <2>1, <2>3, <2>4, <3>1
    <2>5. CASE Refuse(p, "not", "conflict") /\ UNCHANGED captured
      <3>1. UNCHANGED prepareVars
        BY <2>1, <2>5 DEF prepareVars
      <3> QED
        BY <1>2, <1>3, <1>7, <2>1, <2>3, <2>5, <3>1
    <2> QED
      BY <1>14, <2>4, <2>5 DEF CaptureFile
  <1>15. CASE Postflight(p)
    <2>1. call[p].phase \in PrepareSteps /\ UNCHANGED <<prepareVars, spent>>
      BY <1>15 DEF Postflight, PrepareSteps
    <2>2. "publish" \in PrepareSteps /\ "mismatch" \in Whys
      BY DEF PrepareSteps, Whys
    <2>3. CASE captured[call[p].req.id] = call[p].req.expect /\ Goto(p, "publish")
      BY <1>3, <1>9, <2>1, <2>2, <2>3 DEF prepareVars
    <2>4. CASE Refuse(p, "unknown", "mismatch")
      BY <1>3, <1>7, <1>2, <2>1, <2>2, <2>4 DEF prepareVars
    <2> QED
      BY <1>15, <2>3, <2>4 DEF Postflight
  <1>16. CASE PublishSource(p)
    <2>1. PICK found : found = source[call[p].req.id]
      OBVIOUS
    <2>2. PICK mine : mine = Bundle(call[p].req, call[p].n)
      OBVIOUS
    <2>3. call[p].phase \in PrepareSteps /\ UNCHANGED <<text, captured, spent>>
      BY <1>16 DEF PublishSource, PrepareSteps
    <2>4. call[p].req.id \in Sources
      BY <1>4, <2>3, PreparationIds
    <2>5. mine \in Bundles /\ mine.req = call[p].req
      BY <1>4, <2>2, <2>3 DEF Bundle, Bundles
    <2>6. captured[call[p].req.id] = call[p].req.expect
      BY <1>1, <1>16 DEF PublishSource, SourceInv
    <2>7. CASE /\ found = Nothing
               /\ source' = [source EXCEPT ![call[p].req.id] = mine]
               /\ Succeed(p, mine)
      <3>1. SourceTypes' /\ SourcesStay
        BY <1>1, <2>1, <2>3, <2>4, <2>5, <2>7 DEF SourceTypes, SourcesStay
      <3>2. source'[call[p].req.id] = mine
        BY <1>1, <2>4, <2>7 DEF SourceTypes
      <3>3. \A s \in Sources : source[s] = Nothing /\ source'[s] # Nothing =>
                  source'[s].req.id = s /\ captured[s] = source'[s].req.expect
        BY <1>1, <2>4, <2>5, <2>6, <2>7 DEF SourceTypes
      <3> QED
        BY <1>8, <2>3, <2>5, <2>7, <3>1, <3>2, <3>3
    <2>8. CASE found # Nothing /\ Succeed(p, found) /\ UNCHANGED source
      <3>1. UNCHANGED prepareVars
        BY <2>3, <2>8 DEF prepareVars
      <3> QED
        BY <1>3, <1>6, <1>8, <2>1, <2>3, <2>4, <2>8, <3>1
    <2>9. CASE Refuse(p, "unknown", "blocked") /\ UNCHANGED source
      <3>1. UNCHANGED prepareVars
        BY <2>3, <2>9 DEF prepareVars
      <3>2. "blocked" \in Whys
        BY DEF Whys
      <3> QED
        BY <1>2, <1>3, <1>7, <2>3, <2>9, <3>1, <3>2
    <2> QED
      BY <1>16, <2>1, <2>2, <2>7, <2>8, <2>9 DEF PublishSource
  <1>17. CASE CutPrepare(p)
    <2>1. PICK mine : mine = Bundle(call[p].req, call[p].n)
      OBVIOUS
    <2>2. /\ call[p].phase \in PrepareSteps /\ UNCHANGED text
          /\ spent' = [spent EXCEPT !.cuts = @ + 1]
      BY <1>17 DEF CutPrepare
    <2>3. call[p].req.id \in Sources /\ "cut" \in Whys
      BY <1>4, <2>2, PreparationIds DEF Whys
    <2>4. mine \in Bundles /\ mine.req = call[p].req
      BY <1>4, <2>1, <2>2 DEF Bundle, Bundles
    <2>5. PICK state \in {"not", "unknown"} : Refuse(p, state, "cut")
      BY <1>17 DEF CutPrepare
    <2>6. CASE /\ UNCHANGED source
               /\ \/ UNCHANGED captured
                  \/ /\ captured[call[p].req.id] = Nothing
                     /\ captured' = [captured EXCEPT ![call[p].req.id]
                                                    = text[call[p].req.id]]
      <3>1. SourceTypes' /\ CapturedStay /\ SourcesStay
        BY <1>1, <2>2, <2>3, <2>6 DEF SourceTypes, CapturedStay, SourcesStay
      <3>2. \A s \in Sources : ~(source[s] = Nothing /\ source'[s] # Nothing)
        BY <2>6
      <3> QED
        BY <1>2, <1>7, <2>2, <2>3, <2>5, <3>1, <3>2
    <2>7. CASE /\ call[p].phase = "publish" /\ source[call[p].req.id] = Nothing
               /\ source' = [source EXCEPT ![call[p].req.id] = mine]
               /\ UNCHANGED captured
      <3>1. SourceTypes' /\ SourcesStay /\ CapturedStay
        BY <1>1, <2>2, <2>3, <2>4, <2>7 DEF SourceTypes, SourcesStay, CapturedStay
      <3>2. captured[call[p].req.id] = call[p].req.expect
        BY <1>1, <2>7 DEF SourceInv
      <3>3. \A s \in Sources : source[s] = Nothing /\ source'[s] # Nothing =>
                  source'[s].req.id = s /\ captured'[s] = source'[s].req.expect
        BY <1>1, <2>3, <2>4, <2>7, <3>2 DEF SourceTypes
      <3> QED
        BY <1>2, <1>7, <2>2, <2>3, <2>5, <3>1, <3>3
    <2> QED
      BY <1>17, <2>1, <2>6, <2>7 DEF CutPrepare
  <1> QED
    BY <1>10, <1>11, <1>12, <1>13, <1>14, <1>15, <1>16, <1>17 DEF PrepareStep

-----------------------------------------------------------------------------
(* Steps of target_decide                                                  *)

\* What a running call of target_decide knows.
LEMMA HolderFacts ==
    ASSUME IInv, NEW p \in Procs, call[p].phase \in Steps
    PROVE  /\ Of(p) \in Requests /\ call[p].req \in Decisions
           /\ call[p] \in DecideCalls
           /\ call[p].req.source \in Sources /\ source[call[p].req.source] # Nothing
           /\ tx[Of(p)] \in Transactions /\ target[Of(p)] \in Results \cup {Nothing}
           /\ RequestInv(Of(p)) /\ HolderInv(p)
           /\ call[p].phase # "open" => ~Unwritten(Of(p))
           /\ call[p].phase = "mark" => ~Unmarked(Of(p))
           /\ \A q \in Procs \ {p} : call[q].phase \in Steps => Of(q) # Of(p)
  <1>1. call[p] \in DecideCalls
    BY CallKinds DEF IInv
  <1>2. call[p].req \in Decisions /\ Of(p) \in Requests /\ call[p].req.source \in Sources
    BY <1>1, DecisionIds DEF DecideCalls, Of
  <1>3. HolderInv(p) /\ source[call[p].req.source] # Nothing /\ RequestInv(Of(p))
    BY <1>2 DEF IInv, HolderInv
  <1>4. tx[Of(p)] \in Transactions /\ target[Of(p)] \in Results \cup {Nothing}
    BY <1>2 DEF IInv, TargetTypes
  <1>5. ASSUME call[p].phase # "open" PROVE ~Unwritten(Of(p))
    <2>1. CASE call[p].phase = "request"
      BY <2>1 DEF Unwritten
    <2>2. CASE call[p].phase \in InParent \cup {"parent"}
      <3>1. tx[Of(p)].request = call[p].req
        BY <1>3, <2>2 DEF HolderInv, Of
      <3> QED
        BY <1>2, <3>1, DecisionIds DEF Unwritten, Whole
    <2> QED
      BY <1>5, <2>1, <2>2 DEF InParent
  <1>6. call[p].phase = "mark" => ~Unmarked(Of(p))
    BY DEF Unmarked
  <1>7. \A q \in Procs \ {p} : call[q].phase \in Steps => Of(q) # Of(p)
    BY DEF IInv, LockInv
  <1> QED
    BY <1>1, <1>2, <1>3, <1>4, <1>5, <1>6, <1>7

\* The sources stand while decisions are taken.
LEMMA SourcesSame ==
    ASSUME IInv, UNCHANGED prepareVars, NEW p \in Procs, CallTypes',
           \A q \in Procs \ {p} : call'[q] = call[q],
           call'[p].phase \notin PrepareSteps
    PROVE  SourceTypes' /\ SourcesStay /\ SourceInv'
  <1>1. SourceTypes' /\ SourcesStay /\ CapturedStay
    BY DEF IInv, prepareVars, SourceTypes, SourcesStay, CapturedStay
  <1>2. call'[p].phase # "publish"
    BY DEF PrepareSteps
  <1>3. \A s \in Sources : ~(source[s] = Nothing /\ source'[s] # Nothing)
    BY DEF prepareVars
  <1> QED
    BY <1>1, <1>2, <1>3, SourceStands DEF IInv

\* A step of the call that holds a request, on files of that request.
LEMMA OwnStep ==
    ASSUME IInv, NEW p \in Procs, call[p].phase \in Steps, NEW r \in Requests, r = Of(p),
           \A q \in Procs \ {p} : call'[q] = call[q],
           CallTypes', TargetTypes', UNCHANGED prepareVars,
           \A s \in Requests \ {r} : /\ tx'[s] = tx[s] /\ staging'[s] = staging[s]
                                     /\ target'[s] = target[s],
           \A n \in Names : \/ kb'[n] = kb[n]
                            \/ /\ kb'[n] # Nothing /\ kb'[n].owner = r
                               /\ kb[n] = Nothing \/ kb[n].owner = r,
           Stays(r), RequestInv(r)',
           \A n \in Names : kb'[n] # Nothing /\ kb'[n].owner = r => KbInv(n)',
           call'[p].phase \in Steps => Of(p)' = r,
           call'[p].phase \notin PrepareSteps,
           HolderInv(p)', AnswerInv(p)', NamesAreExclusive'
    PROVE  IInv'
  <1>1. SourceTypes' /\ SourcesStay /\ SourceInv'
    BY SourcesSame
  <1>2. Owns(p, r)
    BY DEF Owns
  <1>3. \A s \in Requests \ {r} : Untouched(s)
    BY DEF Untouched
  <1>4. call'[p].phase \in Steps => Owns(p, Of(p)')
    BY <1>2
  <1>5. \A n \in Names : Owns(p, kb'[n].owner) => kb'[n].owner = r
    BY DEF Owns
  <1>6. \A s \in Requests : call'[p].phase \in {"request", "mark"} /\ Of(p)' = s
           => ~Untouched(s) \/ Stays(s)
    BY DEF Steps
  <1> QED
    BY <1>1, <1>2, <1>3, <1>4, <1>5, <1>6, StepInv

\* What a call under way has written of its transaction.
TxShape(r, t) ==
    /\ ~t.made => t.request = Nothing
    /\ t.identity # Nothing => Whole(t.request)
    /\ Whole(t.request) => t.request.id = r
    /\ t.root # Nothing => Whole(t.identity)
    /\ Whole(t.identity) => (t.identity.name \in Names <=> New(t.request))

\* A file of the transaction is written; an owned staging directory may be swept.
LEMMA TxStagingStep ==
    ASSUME IInv, NEW p \in Procs, call[p].phase \in Steps, NEW r \in Requests, r = Of(p),
           NEW t \in Transactions, tx' = [tx EXCEPT ![r] = t],
           \A q \in Procs \ {p} : call'[q] = call[q],
           CallTypes', UNCHANGED <<prepareVars, kb, target>>,
           staging' \in [Requests -> {"none", "bare", "owned"}],
           \A s \in Requests \ {r} : staging'[s] = staging[s],
           Unmarked(r) => staging'[r] = "bare",
           TxShape(r, t), target[r] = Nothing,
           tx[r].request # Nothing => t.request = tx[r].request,
           tx[r].identity # Nothing => t.identity = tx[r].identity,
           tx[r].root \in {Half, "root"} => t.root = tx[r].root,
           ~Unwritten(r), call'[p].phase # "mark",
           call'[p].phase \in Steps => Of(p)' = r,
           call'[p].phase \notin PrepareSteps,
           HolderInv(p)', AnswerInv(p)', NamesAreExclusive'
    PROVE  IInv'
  <1>1. TargetTypes'
    BY DEF IInv, TargetTypes
  <1>2. tx'[r] = t /\ \A s \in Requests \ {r} : tx'[s] = tx[s]
    BY DEF IInv, TargetTypes
  <1>3. Unmarked(r) => Unmarked(r)'
    <2>1. \A q \in Procs : call'[q].phase = "mark" /\ Of(q)' = r =>
             call[q].phase = "mark" /\ Of(q) = r
      BY DEF Of
    <2> QED
      BY <2>1 DEF Unmarked
  <1>4. Stays(r)
    BY <1>2, <1>3 DEF Stays
  <1>5. RequestInv(r)'
    BY <1>2 DEF RequestInv, TxShape, NameOf
  <1>6. ASSUME NEW n \in Names, kb'[n] # Nothing, kb'[n].owner = r
        PROVE  KbInv(n)'
    <2>1. KbInv(n) /\ kb[n] # Nothing /\ kb[n].owner = r
      BY <1>6 DEF IInv
    <2>2. Whole(tx[r].identity) /\ NameOf(r) = n /\ tx[r].root = "root"
      BY <2>1 DEF KbInv
    <2>3. t.identity = tx[r].identity /\ t.root = "root"
      BY <2>2 DEF Whole
    <2> QED
      BY <1>2, <2>1, <2>2, <2>3 DEF KbInv, NameOf
  <1> QED
    BY <1>1, <1>2, <1>4, <1>5, <1>6, OwnStep

\* A file of the transaction is written.
LEMMA TxStep ==
    ASSUME IInv, NEW p \in Procs, call[p].phase \in Steps, NEW r \in Requests, r = Of(p),
           NEW t \in Transactions, tx' = [tx EXCEPT ![r] = t],
           \A q \in Procs \ {p} : call'[q] = call[q],
           CallTypes', UNCHANGED <<prepareVars, staging, kb, target>>,
           TxShape(r, t), target[r] = Nothing,
           tx[r].request # Nothing => t.request = tx[r].request,
           tx[r].identity # Nothing => t.identity = tx[r].identity,
           tx[r].root \in {Half, "root"} => t.root = tx[r].root,
           ~Unwritten(r), call'[p].phase # "mark",
           call'[p].phase \in Steps => Of(p)' = r,
           call'[p].phase \notin PrepareSteps,
           HolderInv(p)', AnswerInv(p)', NamesAreExclusive'
    PROVE  IInv'
  <1>1. /\ staging' \in [Requests -> {"none", "bare", "owned"}]
        /\ \A s \in Requests \ {r} : staging'[s] = staging[s]
        /\ Unmarked(r) => staging'[r] = "bare"
    BY DEF IInv, TargetTypes, Unmarked
  <1> QED
    BY <1>1, TxStagingStep

\* The staging directory is made, marked, swept or renamed away.
LEMMA StagingStep ==
    ASSUME IInv, NEW p \in Procs, call[p].phase \in Steps, NEW r \in Requests, r = Of(p),
           NEW x \in {"none", "bare", "owned"}, staging' = [staging EXCEPT ![r] = x],
           \A q \in Procs \ {p} : call'[q] = call[q],
           CallTypes', UNCHANGED <<prepareVars, tx, kb, target>>,
           target[r] = Nothing, ~Unwritten(r), ~Unmarked(r),
           call'[p].phase \in Steps => Of(p)' = r,
           call'[p].phase \notin PrepareSteps,
           HolderInv(p)', AnswerInv(p)'
    PROVE  IInv'
  <1>1. TargetTypes'
    BY DEF IInv, TargetTypes
  <1>2. \A s \in Requests \ {r} : staging'[s] = staging[s]
    BY DEF IInv, TargetTypes
  <1>3. Stays(r)
    BY DEF Stays
  <1>4. RequestInv(r)'
    BY DEF IInv, RequestInv, NameOf
  <1>5. \A n \in Names : KbInv(n)'
    BY DEF IInv, KbInv, NameOf
  <1>6. NamesAreExclusive'
    BY NamesStand DEF IInv
  <1> QED
    BY <1>1, <1>2, <1>3, <1>4, <1>5, <1>6, OwnStep

\* The knowledge base of the request is placed or written to.
LEMMA KbStep ==
    ASSUME IInv, NEW p \in Procs, call[p].phase \in Steps, NEW r \in Requests, r = Of(p),
           NameOf(r) \in Names, NEW k \in KnowledgeBases, k.owner = r, SetKb(r, k),
           KbOf(r) = Nothing \/ (KbOf(r).owner = r /\ (Torn(KbOf(r)) => Torn(k))),
           Whole(tx[r].identity), tx[r].root = "root", k.ref # "later",
           \A q \in Procs \ {p} : call'[q] = call[q],
           CallTypes', UNCHANGED <<prepareVars, tx, target>>,
           staging' \in [Requests -> {"none", "bare", "owned"}],
           \A s \in Requests \ {r} : staging'[s] = staging[s],
           Unmarked(r) => staging'[r] = "bare" /\ call'[p].phase # "mark",
           target[r] = Nothing, ~Unwritten(r),
           call'[p].phase \in Steps => Of(p)' = r,
           call'[p].phase \notin PrepareSteps,
           HolderInv(p)', AnswerInv(p)'
    PROVE  IInv'
  <1>1. PICK m \in Names : m = NameOf(r)
    OBVIOUS
  <1>2. kb \in [Names -> KnowledgeBases \cup {Nothing}] /\ kb' = [kb EXCEPT ![m] = k]
    BY <1>1 DEF IInv, TargetTypes, SetKb
  <1>3. kb'[m] = k /\ k # Nothing /\ \A n \in Names \ {m} : kb'[n] = kb[n]
    BY <1>2, FileAssumption
  <1>4. TargetTypes'
    BY <1>2 DEF IInv, TargetTypes
  <1>5. Unmarked(r) => Unmarked(r)'
    <2>1. call'[p].phase # "mark" =>
            \A q \in Procs : call'[q].phase = "mark" /\ Of(q)' = r =>
               call[q].phase = "mark" /\ Of(q) = r
      BY DEF Of
    <2> QED
      BY <2>1 DEF Unmarked
  <1>6. Stays(r)
    BY <1>1, <1>3, <1>5 DEF Stays, KbOf
  <1>7. RequestInv(r)'
    BY DEF IInv, RequestInv, NameOf
  <1>8. ASSUME NEW n \in Names, kb'[n] # Nothing, kb'[n].owner = r
        PROVE  KbInv(n)'
    <2>1. CASE n = m
      BY <1>1, <1>3, <2>1 DEF KbInv, NameOf
    <2>2. CASE n # m
      BY <1>3, <1>8, <2>2 DEF IInv, KbInv, NameOf
    <2> QED
      BY <2>1, <2>2
  <1>9. NamesAreExclusive'
    BY NamesStand DEF IInv
  <1>10. \A n \in Names : \/ kb'[n] = kb[n]
                          \/ /\ kb'[n] # Nothing /\ kb'[n].owner = r
                             /\ kb[n] = Nothing \/ kb[n].owner = r
    BY <1>1, <1>3 DEF KbOf
  <1> QED
    BY <1>4, <1>6, <1>7, <1>8, <1>9, <1>10, OwnStep

\* The decision of a call after a step, by its name.
LEMMA LastingOfCall ==
    ASSUME NEW p \in Procs, NEW d, call'[p].req = d, Lasting(d)'
    PROVE  Lasting(call[p].req)'
  BY DEF Lasting, Rivals, Unwritten, Unmarked, NameOf, KbOf

\* A refusal that changes no file; blocked is said over damage that stays.
LEMMA RefuseInv ==
    ASSUME IInv, NEW p \in Procs, call[p].phase \in Steps \cup {"lock"},
           NEW state \in {"not", "unknown"}, NEW why \in Whys, Refuse(p, state, why),
           why = "blocked" => Lasting(call[p].req),
           UNCHANGED <<prepareVars, spent>>, SameFiles
    PROVE  IInv'
  <1>1. state \in States /\ state # "committed"
    BY DEF States
  <1>2. CallTypes /\ TargetTypes /\ call[p].req \in Decisions
    BY CallKinds DEF IInv, DecideCalls
  <1>3. /\ call' \in [Procs -> Calls] /\ call'[p].phase = "told"
        /\ call'[p].req = call[p].req /\ call'[p].state = state /\ call'[p].why = why
        /\ \A q \in Procs \ {p} : call'[q] = call[q]
    BY <1>1, <1>2, Answered DEF Refuse
  <1>4. CallTypes'
    BY <1>2, <1>3 DEF CallTypes
  <1>5. "told" \notin Steps \cup {"lock"} \cup PrepareSteps
    BY DEF Steps, PrepareSteps
  <1>6. SourceTypes' /\ SourcesStay /\ SourceInv'
    BY <1>3, <1>4, <1>5, SourcesSame
  <1>7. \A s \in Requests : Stays(s)
    BY <1>2, <1>3, SameFilesUntouched, UntouchedStays
  <1>8. PICK d : d = call[p].req
    OBVIOUS
  <1>9. AnswerInv(p)'
    <2>1. d \in Decisions \ Preparations
      BY <1>2, <1>8, DecisionIds
    <2>2. why = "blocked" => Lasting(d)'
      BY <1>2, <1>7, <1>8, <2>1, LastingStays
    <2>3. why = "blocked" => Lasting(call[p].req)'
      BY <1>3, <1>8, <2>2, LastingOfCall
    <2> QED
      BY <1>1, <1>3, <1>8, <2>1, <2>3 DEF AnswerInv
  <1>10. HolderInv(p)'
    BY <1>3, <1>5, NotHolding
  <1> QED
    BY <1>3, <1>4, <1>5, <1>6, <1>9, <1>10, QuietStep DEF Steps

\* A call goes on to its next step and changes no file.
LEMMA GoOnInv ==
    ASSUME IInv, NEW p \in Procs, call[p].phase \in Steps,
           NEW phase \in Steps \ {"request", "mark"}, Goto(p, phase),
           UNCHANGED <<prepareVars, spent>>, SameFiles, HolderInv(p)'
    PROVE  IInv'
  <1>1. CallTypes
    BY DEF IInv
  <1>2. /\ call' \in [Procs -> Calls] /\ call'[p].phase = phase
        /\ call'[p].req = call[p].req
        /\ \A q \in Procs \ {p} : call'[q] = call[q]
    BY <1>1, Moved
  <1>3. CallTypes'
    BY <1>1, <1>2 DEF CallTypes
  <1>4. phase \notin PrepareSteps /\ phase # "told"
    BY DEF Steps, PrepareSteps
  <1>5. SourceTypes' /\ SourcesStay /\ SourceInv'
    BY <1>2, <1>3, <1>4, SourcesSame
  <1>6. AnswerInv(p)'
    BY <1>2, <1>4 DEF AnswerInv
  <1>7. Owns(p, Of(p)')
    BY <1>2 DEF Owns, Of
  <1> QED
    BY <1>2, <1>3, <1>5, <1>6, <1>7, QuietStep

\* What the invariant says of a call at a step, in terms of the files alone.
HolderAt(phase, d, published, t, stage, bundle, k) ==
    /\ phase # "open" => bundle = Nothing /\ t.made
    /\ phase = "request" => t.request = Nothing /\ t.identity = Nothing
    /\ phase \in InParent \cup {"parent"} => t.request = d
    /\ phase \in AfterIdentity => Whole(t.identity)
    /\ phase \in AfterIdentity \ {"bundle"} => New(d)
    /\ phase \in {"mark", "build", "place"} => t.root # Half
    /\ phase = "mark" => stage = "bare"
    /\ phase \in {"build", "place"} => stage = "owned"
    /\ phase = "place" => t.root = "root"
    /\ phase \in Routing \/ (phase = "bundle" /\ New(d)) =>
          k # Nothing /\ k.owner = d.id /\ published
    /\ phase \in {"checkpoint", "ref", "receipt"} \/ (phase = "bundle" /\ New(d))
          => k.files = RawFiles
    /\ phase = "receipt" \/ (phase = "bundle" /\ New(d)) => k.ref = "routed"
    /\ phase = "bundle" /\ New(d) => Whole(k.receipt)

\* The invariant of a call, taken apart.
LEMMA HolderParts ==
    ASSUME NEW p \in Procs, call[p].phase \in Steps
    PROVE  HolderInv(p) <=>
             /\ source[call[p].req.source] # Nothing
             /\ HolderAt(call[p].phase, call[p].req, call[p].published, tx[Of(p)],
                         staging[Of(p)], target[Of(p)], KbOf(Of(p)))
             /\ call[p].phase \in AfterIdentity /\ ~call[p].published => Kbless(Of(p))
             /\ call[p].phase \in {"mark", "build", "place"} => Kbless(Of(p))
  BY DEF HolderInv, HolderAt, Of

\* The same after a step.
LEMMA HolderPartsNext ==
    ASSUME NEW p \in Procs, call'[p].phase \in Steps
    PROVE  HolderInv(p)' <=>
             /\ source'[call'[p].req.source] # Nothing
             /\ HolderAt(call'[p].phase, call'[p].req, call'[p].published, tx'[Of(p)'],
                         staging'[Of(p)'], target'[Of(p)'], KbOf(Of(p))')
             /\ call'[p].phase \in AfterIdentity /\ ~call'[p].published => Kbless(Of(p))'
             /\ call'[p].phase \in {"mark", "build", "place"} => Kbless(Of(p))'
  BY DEF HolderInv, HolderAt, Of

\* A decision is asked for, or its bundle is read.
LEMMA CallInv ==
    ASSUME IInv, NEW p \in Procs,
           (\E d \in Decisions : CallDecide(p, d)) \/ (\E r \in Requests : InspectTarget(p, r))
    PROVE  IInv'
  <1>1. /\ CallTypes /\ SameFiles /\ UNCHANGED prepareVars
        /\ spent' = [spent EXCEPT !.calls = @ + 1]
    BY DEF CallDecide, InspectTarget, SameFiles, IInv
  <1>2. spent' \in [calls : Nat, cuts : Nat, edits : Nat]
    BY <1>1 DEF CallTypes
  <1>3. ASSUME NEW c \in Calls, call' = [call EXCEPT ![p] = c],
               c.phase \in {"told", "lock"},
               c.phase = "lock" => source[c.req.source] # Nothing,
               c.phase = "told" => /\ c.req \in Decisions /\ c.why # "blocked"
                                   /\ c.state = "committed" =>
                                        /\ target[c.req.id] # Nothing
                                        /\ target[c.req.id] = c.facts
                                        /\ target[c.req.id].req = c.req
        PROVE  IInv'
    <2>1. /\ call' \in [Procs -> Calls] /\ call'[p] = c
          /\ \A q \in Procs \ {p} : call'[q] = call[q]
      BY <1>1, <1>3, Taken
    <2>2. CallTypes' /\ c.phase \notin PrepareSteps \cup Steps
      BY <1>2, <1>3, <2>1 DEF CallTypes, PrepareSteps, Steps
    <2>3. SourceTypes' /\ SourcesStay /\ SourceInv'
      BY <1>1, <2>1, <2>2, SourcesSame
    <2>4. HolderInv(p)'
      <3>1. CASE c.phase = "told"
        BY <2>1, <2>2, <3>1, NotHolding
      <3>2. CASE c.phase = "lock"
        BY <1>1, <1>3, <2>1, <3>2
           DEF HolderInv, AfterIdentity, InParent, Steps, Routing, prepareVars
      <3> QED
        BY <1>3, <3>1, <3>2
    <2>5. AnswerInv(p)'
      <3>1. CASE c.phase = "told"
        <4>1. c.req \notin Preparations /\ target' = target
          BY <1>1, <1>3, <3>1, DecisionIds DEF SameFiles, targetVars
        <4> QED
          BY <1>3, <2>1, <3>1, <4>1 DEF AnswerInv
      <3>2. CASE c.phase = "lock"
        BY <2>1, <3>2 DEF AnswerInv
      <3> QED
        BY <1>3, <3>1, <3>2
    <2> QED
      BY <1>1, <2>1, <2>2, <2>3, <2>4, <2>5, QuietStep DEF Steps
  <1>4. CASE \E d \in Decisions : CallDecide(p, d)
    <2>1. PICK d \in Decisions : CallDecide(p, d)
      BY <1>4
    <2>2. PICK c : c = IF source[d.source] = Nothing
                       THEN Told(d, "not", "source", Nothing)
                       ELSE [phase |-> "lock", req |-> d, published |-> FALSE]
      OBVIOUS
    <2>3. c \in Calls
      BY <2>2 DEF Told, Calls, ToldCalls, DecideCalls, States, Whys
    <2>4. /\ c.phase \in {"told", "lock"}
          /\ c.phase = "lock" => source[c.req.source] # Nothing
          /\ c.phase = "told" => c.req \in Decisions /\ c.why # "blocked"
                                 /\ c.state # "committed"
      BY <2>2 DEF Told
    <2>5. call' = [call EXCEPT ![p] = c]
      BY <2>1, <2>2 DEF CallDecide
    <2> QED
      BY <1>3, <2>3, <2>4, <2>5
  <1>5. CASE \E r \in Requests : InspectTarget(p, r)
    <2>1. PICK r \in Requests : InspectTarget(p, r)
      BY <1>5
    <2>2. PICK c : c = Told(target[r].req, "committed", "ok", target[r])
      OBVIOUS
    <2>3. target[r] # Nothing /\ target[r] \in Results /\ RequestInv(r)
      BY <2>1 DEF InspectTarget, IInv, TargetTypes
    <2>4. target[r].req \in Decisions /\ target[r].req.id = r
      BY <2>3 DEF Results, RequestInv, Whole
    <2>5. c \in Calls /\ c.phase = "told" /\ c.req = target[r].req /\ c.why = "ok"
          /\ c.facts = target[r]
      BY <2>2, <2>3, <2>4 DEF Told, Calls, ToldCalls, States, Whys
    <2>6. call' = [call EXCEPT ![p] = c]
      BY <2>1, <2>2 DEF InspectTarget
    <2> QED
      BY <1>3, <2>3, <2>4, <2>5, <2>6
  <1> QED
    BY <1>4, <1>5

\* The lock of the request is free, or taken for too long.
LEMMA AcquireRequestInv ==
    ASSUME IInv, NEW p \in Procs, AcquireRequest(p)
    PROVE  IInv'
  <1>1. /\ CallTypes /\ SameFiles /\ UNCHANGED <<prepareVars, spent>>
        /\ call[p].phase = "lock" /\ HolderInv(p)
    BY DEF AcquireRequest, Only, SameFiles, IInv
  <1>2. CASE (\A q \in Procs : ~HoldsRequest(q, Of(p))) /\ Goto(p, "open")
    <2>1. "open" \in Steps \cup {"lock"}
      BY DEF Steps
    <2>2. /\ call' \in [Procs -> Calls] /\ call'[p].phase = "open"
          /\ call'[p].req = call[p].req
          /\ \A q \in Procs \ {p} : call'[q] = call[q]
      BY <1>1, <1>2, <2>1, Moved
    <2>3. CallTypes' /\ "open" \notin PrepareSteps
      BY <1>1, <2>2 DEF CallTypes, PrepareSteps
    <2>4. SourceTypes' /\ SourcesStay /\ SourceInv'
      BY <1>1, <2>2, <2>3, SourcesSame
    <2>5. HolderInv(p)'
      BY <1>1, <2>2 DEF HolderInv, AfterIdentity, InParent, Steps, Routing, prepareVars
    <2>6. AnswerInv(p)'
      BY <2>2 DEF AnswerInv
    <2>7. \A q \in Procs \ {p} : ~HoldsRequest(q, Of(p)')
      BY <1>2, <2>2 DEF Of
    <2> QED
      BY <1>1, <2>2, <2>3, <2>4, <2>5, <2>6, <2>7, QuietStep
  <1>3. CASE Refuse(p, "unknown", "busy")
    BY <1>1, <1>3, RefuseInv DEF Whys
  <1> QED
    BY <1>2, <1>3 DEF AcquireRequest

\* The next step of a call, in terms of the files it has then.
LEMMA HolderNext ==
    ASSUME IInv, NEW p \in Procs, call[p].phase \in Steps, UNCHANGED prepareVars,
           NEW d, d = call[p].req, NEW r, r = Of(p),
           call'[p].phase \in Steps, call'[p].req = call[p].req,
           HolderAt(call'[p].phase, d, call'[p].published, tx'[r], staging'[r],
                    target'[r], KbOf(r)'),
           call'[p].phase \in AfterIdentity /\ ~call'[p].published => Kbless(r)',
           call'[p].phase \in {"mark", "build", "place"} => Kbless(r)'
    PROVE  HolderInv(p)'
  <1>1. source[d.source] # Nothing
    BY HolderFacts
  <1>2. source'[call'[p].req.source] # Nothing
    BY <1>1 DEF prepareVars
  <1>3. r = call'[p].req.id /\ r = Of(p)'
    BY DEF Of
  <1>4. KbOf(Of(p))' = KbOf(r)'
    BY <1>3 DEF KbOf, NameOf
  <1>5. Kbless(r)' => Kbless(Of(p))'
    BY <1>3 DEF Kbless
  <1> QED
    BY <1>2, <1>3, <1>4, <1>5, HolderPartsNext

\* A call at a step, as the invariant has it.
LEMMA HolderNow ==
    ASSUME IInv, NEW p \in Procs, call[p].phase \in Steps
    PROVE  /\ HolderAt(call[p].phase, call[p].req, call[p].published, tx[Of(p)],
                       staging[Of(p)], target[Of(p)], KbOf(Of(p)))
           /\ call[p].phase \in AfterIdentity /\ ~call[p].published => Kbless(Of(p))
           /\ call[p].phase \in {"mark", "build", "place"} => Kbless(Of(p))
  BY HolderParts DEF IInv

\* The files a call goes on with when it has its identity.
LEMMA HolderIdentity ==
    ASSUME IInv, NEW p \in Procs, call[p].phase \in AfterIdentity
    PROVE  /\ tx[Of(p)].request = call[p].req /\ Whole(tx[Of(p)].identity)
           /\ target[Of(p)] = Nothing /\ tx[Of(p)].made
           /\ NameOf(Of(p)) \in Names <=> New(call[p].req)
           /\ ~Unwritten(Of(p))
  <1>1. call[p].phase \in Steps \ {"open"} /\ call[p].phase \in InParent
    BY DEF AfterIdentity, InParent, Steps
  <1>2. /\ tx[Of(p)].request = call[p].req /\ Whole(tx[Of(p)].identity)
        /\ target[Of(p)] = Nothing /\ tx[Of(p)].made
    BY <1>1, HolderNow DEF HolderAt
  <1> QED
    BY <1>1, <1>2, HolderFacts DEF RequestInv

\* A call answers with a bundle that is published.
LEMMA SucceedInv ==
    ASSUME IInv, NEW p \in Procs, call[p].phase \in Steps, target[Of(p)] # Nothing,
           target[Of(p)].req = call[p].req, Succeed(p, target[Of(p)]),
           UNCHANGED <<prepareVars, spent>>, SameFiles
    PROVE  IInv'
  <1>1. CallTypes /\ call[p].req \in Decisions /\ target[Of(p)] \in Results
    BY HolderFacts DEF IInv
  <1>2. "committed" \in States /\ "ok" \in Whys
    BY DEF States, Whys
  <1>3. /\ call' \in [Procs -> Calls] /\ call'[p].phase = "told"
        /\ call'[p].req = call[p].req /\ call'[p].why = "ok"
        /\ call'[p].facts = target[Of(p)]
        /\ \A q \in Procs \ {p} : call'[q] = call[q]
    BY <1>1, <1>2, Answered DEF Succeed
  <1>4. CallTypes' /\ "told" \notin PrepareSteps \cup Steps \cup {"lock"}
    BY <1>1, <1>3 DEF CallTypes, PrepareSteps, Steps
  <1>5. SourceTypes' /\ SourcesStay /\ SourceInv'
    BY <1>3, <1>4, SourcesSame
  <1>6. HolderInv(p)'
    BY <1>3, <1>4, NotHolding
  <1>7. AnswerInv(p)'
    <2>1. call[p].req \notin Preparations /\ target' = target
      BY <1>1, DecisionIds DEF SameFiles, targetVars
    <2> QED
      BY <1>1, <1>3, <2>1 DEF AnswerInv, Of
  <1> QED
    BY <1>3, <1>4, <1>5, <1>6, <1>7, QuietStep DEF Steps

\* A step that goes on within the request and writes a file of it.
LEMMA GoesOn ==
    ASSUME IInv, NEW p \in Procs, call[p].phase \in Steps,
           NEW phase \in Steps, Goto(p, phase), spent' = spent
    PROVE  /\ CallTypes' /\ call'[p].phase = phase /\ call'[p].req = call[p].req
           /\ call'[p].published = call[p].published /\ Of(p)' = Of(p)
           /\ call'[p].phase \notin PrepareSteps /\ AnswerInv(p)'
           /\ \A q \in Procs \ {p} : call'[q] = call[q]
  <1>1. CallTypes
    BY DEF IInv
  <1>2. /\ call' \in [Procs -> Calls] /\ call'[p].phase = phase
        /\ call'[p].req = call[p].req /\ call'[p].published = call[p].published
        /\ \A q \in Procs \ {p} : call'[q] = call[q]
    BY <1>1, Moved
  <1>3. phase \notin PrepareSteps /\ phase # "told"
    BY DEF Steps, PrepareSteps
  <1> QED
    BY <1>1, <1>2, <1>3 DEF CallTypes, AnswerInv, Of

\* The bundle answers, or the transaction directory is made or found.
LEMMA OpenInv ==
    ASSUME IInv, NEW p \in Procs, Open(p)
    PROVE  IInv'
  <1>1. PICK r : r = Of(p)
    OBVIOUS
  <1>2. PICK d : d = call[p].req
    OBVIOUS
  <1>3. PICK t : t = tx[r]
    OBVIOUS
  <1>4. /\ call[p].phase = "open" /\ "open" \in Steps
        /\ UNCHANGED <<prepareVars, spent, staging, kb, target>>
    BY DEF Open, Only, Steps
  <1>5. /\ r \in Requests /\ d \in Decisions /\ d.id = r /\ t \in Transactions
        /\ RequestInv(r)
        /\ \A q \in Procs \ {p} : call[q].phase \in Steps => Of(q) # r
    BY <1>1, <1>2, <1>3, <1>4, HolderFacts DEF Of
  <1>6. {"conflict", "blocked"} \subseteq Whys
    BY DEF Whys
  <1>7. CASE target[r] # Nothing /\ LoadBundle(p) /\ UNCHANGED tx
    <2>1. SameFiles
      BY <1>4, <1>7 DEF SameFiles, targetVars
    <2>2. Verified(r)
      BY <1>5, <1>7 DEF RequestInv
    <2>3. \/ \E state \in {"not", "unknown"} : Refuse(p, state, "conflict")
          \/ target[r].req = d /\ Succeed(p, target[r])
      BY <1>1, <1>2, <1>5, <1>7, <2>2 DEF LoadBundle
    <2> QED
      BY <1>1, <1>2, <1>4, <1>6, <1>7, <2>1, <2>3, RefuseInv, SucceedInv
  <1>8. CASE target[r] = Nothing /\ ~t.made /\ Goto(p, "request")
             /\ tx' = [tx EXCEPT ![r].made = TRUE]
    <2>1. PICK u : u = [t EXCEPT !.made = TRUE]
      OBVIOUS
    <2>2. tx' = [tx EXCEPT ![r] = u]
      BY <1>3, <1>8, <2>1
    <2>3. /\ u \in Transactions /\ u.made /\ u.request = t.request
          /\ u.identity = t.identity /\ u.root = t.root
      BY <1>5, <2>1 DEF Transactions
    <2>4. t.request = Nothing /\ t.identity = Nothing /\ t.root = Nothing
      BY <1>3, <1>5, <1>8 DEF RequestInv, Whole
    <2>5. TxShape(r, u)
      BY <2>3, <2>4 DEF TxShape, Whole
    <2>6. "request" \in Steps /\ "request" # "mark"
      BY DEF Steps
    <2>7. /\ CallTypes' /\ call'[p].phase = "request" /\ call'[p].req = call[p].req
          /\ Of(p)' = Of(p) /\ call'[p].phase \notin PrepareSteps /\ AnswerInv(p)'
          /\ \A q \in Procs \ {p} : call'[q] = call[q]
      BY <1>4, <1>8, <2>6, GoesOn
    <2>8. tx'[r] = u /\ \A s \in Requests \ {r} : tx'[s] = tx[s]
      BY <1>5, <2>2 DEF IInv, TargetTypes
    <2>9. HolderInv(p)'
      <3>1. HolderAt("request", d, call'[p].published, tx'[r], staging'[r], target'[r],
                     KbOf(r)')
        BY <1>4, <1>8, <2>3, <2>4, <2>8
           DEF HolderAt, AfterIdentity, InParent, Routing
      <3> QED
        BY <1>1, <1>2, <1>4, <2>6, <2>7, <3>1, HolderNext DEF AfterIdentity, InParent
    <2>10. NamesAreExclusive'
      BY <1>3, <1>5, <2>3, <2>8, NamesStand DEF IInv
    <2>11. ~Unwritten(r)
      BY <1>3, <1>8 DEF Unwritten
    <2> QED
      BY <1>1, <1>3, <1>4, <1>5, <1>8, <2>2, <2>3, <2>4, <2>5, <2>6, <2>7, <2>9, <2>10,
         <2>11, TxStep
  <1>9. CASE target[r] = Nothing /\ t.made /\ UNCHANGED tx
             /\ \/ t.request = Nothing /\ Refuse(p, "unknown", "blocked")
                \/ t.request = Half /\ Refuse(p, "not", "blocked")
                \/ Refuse(p, "not", "conflict")
                \/ t.request = d /\ Goto(p, "parent")
    <2>1. SameFiles
      BY <1>4, <1>9 DEF SameFiles, targetVars
    <2>2. CASE t.request = Nothing /\ Refuse(p, "unknown", "blocked")
      <3>1. Unwritten(r)
        BY <1>3, <1>4, <1>5, <1>9, <2>2 DEF Unwritten, Steps
      <3>2. Lasting(d)
        BY <1>5, <3>1 DEF Lasting
      <3> QED
        BY <1>2, <1>4, <1>6, <2>1, <2>2, <3>2, RefuseInv
    <2>3. CASE t.request = Half /\ Refuse(p, "not", "blocked")
      <3>1. Lasting(d)
        BY <1>3, <1>5, <2>3 DEF Lasting
      <3> QED
        BY <1>2, <1>4, <1>6, <2>1, <2>3, <3>1, RefuseInv
    <2>4. CASE Refuse(p, "not", "conflict")
      BY <1>4, <1>6, <2>1, <2>4, RefuseInv
    <2>5. CASE t.request = d /\ Goto(p, "parent")
      <3>1. "parent" \in Steps \ {"request", "mark"}
        BY DEF Steps
      <3>2. call'[p].phase = "parent" /\ call'[p].req = call[p].req
        BY <1>4, <2>5, <3>1, GoesOn
      <3>3. HolderAt("parent", d, call'[p].published, tx'[r], staging'[r], target'[r],
                     KbOf(r)')
        BY <1>3, <1>4, <1>9, <2>5, <3>1
           DEF HolderAt, AfterIdentity, InParent, Routing
      <3>4. HolderInv(p)'
        BY <1>1, <1>2, <1>4, <3>1, <3>2, <3>3, HolderNext DEF AfterIdentity, InParent
      <3> QED
        BY <1>4, <2>1, <2>5, <3>1, <3>4, GoOnInv
    <2> QED
      BY <1>9, <2>2, <2>3, <2>4, <2>5
  <1> QED
    BY <1>1, <1>2, <1>3, <1>7, <1>8, <1>9 DEF Open

\* The request is written into its transaction.
LEMMA WriteRequestInv ==
    ASSUME IInv, NEW p \in Procs, WriteRequest(p)
    PROVE  IInv'
  <1>1. PICK r : r = Of(p)
    OBVIOUS
  <1>2. PICK d : d = call[p].req
    OBVIOUS
  <1>3. PICK t : t = [tx[r] EXCEPT !.request = d]
    OBVIOUS
  <1>4. /\ call[p].phase = "request" /\ "request" \in Steps /\ "parent" \in Steps
        /\ Goto(p, "parent")
        /\ UNCHANGED <<prepareVars, spent, staging, kb, target>>
        /\ tx' = [tx EXCEPT ![r] = t]
    BY <1>1, <1>2, <1>3 DEF WriteRequest, Only, Steps
  <1>5. /\ r \in Requests /\ d \in Decisions /\ d.id = r /\ tx[r] \in Transactions
        /\ Whole(d) /\ RequestInv(r) /\ ~Unwritten(r)
    BY <1>1, <1>2, <1>4, HolderFacts, DecisionIds DEF Of
  <1>6. /\ target[r] = Nothing /\ tx[r].made
        /\ tx[r].request = Nothing /\ tx[r].identity = Nothing
    BY <1>1, <1>4, HolderNow DEF HolderAt
  <1>7. tx[r].root = Nothing
    BY <1>5, <1>6 DEF RequestInv, Whole
  <1>8. /\ t \in Transactions /\ t.made /\ t.request = d /\ t.identity = Nothing
        /\ t.root = Nothing
    BY <1>3, <1>5, <1>6, <1>7 DEF Transactions
  <1>9. TxShape(r, t)
    BY <1>5, <1>8 DEF TxShape, Whole
  <1>10. /\ CallTypes' /\ call'[p].phase = "parent" /\ call'[p].req = call[p].req
         /\ Of(p)' = Of(p) /\ call'[p].phase \notin PrepareSteps /\ AnswerInv(p)'
         /\ \A q \in Procs \ {p} : call'[q] = call[q]
    BY <1>4, GoesOn
  <1>11. tx'[r] = t /\ \A s \in Requests \ {r} : tx'[s] = tx[s]
    BY <1>4, <1>5 DEF IInv, TargetTypes
  <1>12. HolderInv(p)'
    <2>1. HolderAt("parent", d, call'[p].published, tx'[r], staging'[r], target'[r],
                   KbOf(r)')
      BY <1>4, <1>6, <1>8, <1>11 DEF HolderAt, AfterIdentity, InParent, Routing
    <2> QED
      BY <1>1, <1>2, <1>4, <1>10, <2>1, HolderNext DEF AfterIdentity, InParent
  <1>13. NamesAreExclusive'
    BY <1>8, <1>11 DEF IInv, NamesAreExclusive, NameOf, Whole
  <1> QED
    BY <1>1, <1>4, <1>5, <1>6, <1>7, <1>8, <1>9, <1>10, <1>12, <1>13, TxStep

\* The lock of the parent directory is free, or taken for too long.
LEMMA AcquireParentInv ==
    ASSUME IInv, NEW p \in Procs, AcquireParent(p)
    PROVE  IInv'
  <1>1. /\ call[p].phase = "parent" /\ SameFiles /\ UNCHANGED <<prepareVars, spent>>
        /\ "parent" \in Steps /\ "identity" \in Steps \ {"request", "mark"}
        /\ "busy" \in Whys
    BY DEF AcquireParent, Only, SameFiles, Steps, Whys
  <1>2. CASE Goto(p, "identity")
    <2>1. PICK r : r = Of(p)
      OBVIOUS
    <2>2. PICK d : d = call[p].req
      OBVIOUS
    <2>3. call'[p].phase = "identity" /\ call'[p].req = call[p].req
      BY <1>1, <1>2, GoesOn
    <2>4. HolderAt("parent", d, call[p].published, tx[r], staging[r], target[r], KbOf(r))
      BY <1>1, <2>1, <2>2, HolderNow
    <2>5. HolderAt("identity", d, call'[p].published, tx'[r], staging'[r], target'[r],
                   KbOf(r)')
      BY <1>1, <2>4
         DEF HolderAt, AfterIdentity, InParent, Routing, SameFiles, targetVars
    <2>6. HolderInv(p)'
      BY <1>1, <2>1, <2>2, <2>3, <2>5, HolderNext DEF AfterIdentity, InParent
    <2> QED
      BY <1>1, <1>2, <2>6, GoOnInv
  <1>3. CASE Refuse(p, "unknown", "busy")
    BY <1>1, <1>3, RefuseInv
  <1> QED
    BY <1>2, <1>3 DEF AcquireParent

-----------------------------------------------------------------------------
(* The frozen identity                                                     *)

\* A decision that is not for a new knowledge base has none; nor has one whose
\* identity is not written, or whose name stands free.
LEMMA KblessRequest ==
    ASSUME IInv, NEW r \in Requests,
           \/ ~Whole(tx[r].identity) \/ NameOf(r) \notin Names
           \/ KbOf(r) = Nothing \/ KbOf(r).owner # r
    PROVE  Kbless(r)
  <1> SUFFICES ASSUME NEW n \in Names, kb[n] # Nothing, kb[n].owner = r
               PROVE  FALSE
    BY DEF Kbless
  <1>1. Whole(tx[r].identity) /\ NameOf(r) = n
    BY DEF IInv, KbInv
  <1> QED
    BY <1>1 DEF KbOf

\* A free name is nobody's.
LEMMA ChosenFree ==
    ASSUME NEW d, NEW n \in Chosen(d)
    PROVE  n \in Names /\ kb[n] = Nothing /\ n \notin Reserved(d)
  BY DEF Chosen, Free

\* An identity found is gone on with.
LEMMA ResumeInv ==
    ASSUME IInv, NEW p \in Procs, call[p].phase = "identity",
           Whole(tx[Of(p)].identity), Resume(p),
           UNCHANGED <<prepareVars, spent>>, SameFiles
    PROVE  IInv'
  <1>1. PICK r : r = Of(p)
    OBVIOUS
  <1>2. PICK d : d = call[p].req
    OBVIOUS
  <1>3. /\ call[p].phase \in Steps /\ CallTypes /\ "name" \in Whys
        /\ \A x : StateOf(x) \in {"not", "unknown"}
    BY DEF Steps, IInv, Whys, StateOf
  <1>4. /\ r \in Requests /\ d \in Decisions /\ d.id = r /\ RequestInv(r)
        /\ call[p] \in DecideCalls
    BY <1>1, <1>2, <1>3, HolderFacts DEF Of
  <1>5. tx[r].request = d /\ target[r] = Nothing /\ tx[r].made
    BY <1>1, <1>2, <1>3, HolderNow DEF HolderAt, InParent, Steps
  <1>6. NameOf(r) \in Names <=> New(d)
    BY <1>1, <1>4, <1>5 DEF RequestInv
  <1>7. CASE Refuse(p, StateOf(p), "name")
    BY <1>3, <1>7, RefuseInv
  <1>8. CASE call' = [call EXCEPT ![p].published = FoundPublished(r),
                ![p].phase = IF New(d) THEN "bootstrap" ELSE "bundle"]
    <2>1. PICK phase : phase = IF New(d) THEN "bootstrap" ELSE "bundle"
      OBVIOUS
    <2>2. PICK c : c = [call[p] EXCEPT !.published = FoundPublished(r), !.phase = phase]
      OBVIOUS
    <2>3. FoundPublished(r) \in BOOLEAN /\ phase \in Steps \ {"request", "mark"}
      BY <2>1 DEF FoundPublished, Steps
    <2>4. /\ c \in DecideCalls /\ c.phase = phase /\ c.req = d
          /\ c.published = FoundPublished(r)
      BY <1>2, <1>4, <2>2, <2>3 DEF DecideCalls
    <2>5. c \in Calls /\ call' = [call EXCEPT ![p] = c]
      BY <1>8, <2>1, <2>2, <2>4 DEF Calls
    <2>6. /\ call' \in [Procs -> Calls] /\ call'[p] = c
          /\ \A q \in Procs \ {p} : call'[q] = call[q]
      BY <1>3, <2>5, Taken
    <2>7. CallTypes' /\ phase \notin PrepareSteps /\ phase # "told"
      BY <1>3, <2>1, <2>6 DEF CallTypes, PrepareSteps
    <2>8. SourceTypes' /\ SourcesStay /\ SourceInv'
      BY <2>4, <2>6, <2>7, SourcesSame
    <2>9. Kbless(r) \/ FoundPublished(r)
      <3>1. ~FoundPublished(r) => NameOf(r) = Unnamed \/ KbOf(r) = Nothing
        BY DEF FoundPublished
      <3>2. Unnamed \notin Names
        BY DecisionAssumption DEF Unnamed, Names
      <3> QED
        BY <1>4, <3>1, <3>2, KblessRequest
    <2>10. Kbless(r)' <=> Kbless(r)
      BY DEF Kbless, SameFiles, targetVars
    <2>11. HolderAt(phase, d, call'[p].published, tx'[r], staging'[r], target'[r],
                    KbOf(r)')
      <3>1. tx' = tx /\ target' = target
        BY DEF SameFiles, targetVars
      <3>2. phase = "bundle" => ~New(d)
        BY <2>1
      <3>3. phase \in {"bootstrap", "bundle"}
        BY <2>1
      <3> QED
        BY <1>1, <1>5, <2>1, <3>1, <3>2, <3>3
           DEF HolderAt, AfterIdentity, InParent, Routing
    <2>12. phase \notin {"mark", "build", "place"}
      BY <2>1
    <2>13. HolderInv(p)'
      BY <1>1, <1>2, <1>3, <2>3, <2>4, <2>6, <2>9, <2>10, <2>11, <2>12, HolderNext
    <2>14. AnswerInv(p)'
      BY <2>4, <2>6, <2>7 DEF AnswerInv
    <2>15. Owns(p, Of(p)')
      BY <1>2, <1>3, <2>4, <2>6 DEF Owns, Of
    <2> QED
      BY <2>3, <2>4, <2>6, <2>7, <2>8, <2>13, <2>14, <2>15, QuietStep
  <1> QED
    BY <1>1, <1>2, <1>7, <1>8 DEF Resume

\* An identity is frozen: with a name that is free, or with none.
LEMMA FreezeInv ==
    ASSUME IInv, NEW p \in Procs, call[p].phase = "identity",
           tx[Of(p)].identity = Nothing, NEW n, Freeze(p, n),
           IF New(call[p].req) THEN n \in Chosen(call[p].req) ELSE n = Unnamed,
           UNCHANGED <<prepareVars, spent, staging, kb, target>>
    PROVE  IInv'
  <1>1. PICK r : r = Of(p)
    OBVIOUS
  <1>2. PICK d : d = call[p].req
    OBVIOUS
  <1>3. PICK t : t = [tx[r] EXCEPT !.identity = [name |-> n]]
    OBVIOUS
  <1>4. PICK phase : phase = IF New(d) THEN "bootstrap" ELSE "bundle"
    OBVIOUS
  <1>5. /\ call[p].phase \in Steps /\ phase \in Steps /\ Goto(p, phase)
        /\ tx' = [tx EXCEPT ![r] = t]
    BY <1>1, <1>2, <1>3, <1>4 DEF Freeze, Steps
  <1>6. /\ r \in Requests /\ d \in Decisions /\ d.id = r /\ tx[r] \in Transactions
        /\ Whole(d) /\ RequestInv(r) /\ ~Unwritten(r)
    BY <1>1, <1>2, <1>5, HolderFacts, DecisionIds DEF Of
  <1>7. tx[r].request = d /\ target[r] = Nothing /\ tx[r].made
    BY <1>1, <1>2, <1>5, HolderNow DEF HolderAt, InParent, Steps
  <1>8. tx[r].root = Nothing
    BY <1>1, <1>6 DEF RequestInv, Whole
  <1>9. /\ n \in Names \cup {Unnamed} /\ (n \in Names <=> New(d))
        /\ New(d) => n \notin Reserved(d)
    BY <1>2, ChosenFree, DecisionAssumption DEF Unnamed, Names
  <1>10. Whole([name |-> n])
    BY <1>9, FileAssumption
  <1>11. /\ t \in Transactions /\ t.made /\ t.request = d /\ t.root = Nothing
         /\ t.identity = [name |-> n] /\ t.identity.name = n
    BY <1>3, <1>6, <1>7, <1>8, <1>9 DEF Transactions
  <1>12. TxShape(r, t)
    BY <1>6, <1>9, <1>11 DEF TxShape
  <1>13. /\ CallTypes' /\ call'[p].phase = phase /\ call'[p].req = call[p].req
         /\ Of(p)' = Of(p) /\ call'[p].phase \notin PrepareSteps /\ AnswerInv(p)'
         /\ \A q \in Procs \ {p} : call'[q] = call[q]
    BY <1>5, GoesOn
  <1>14. tx'[r] = t /\ \A s \in Requests \ {r} : tx'[s] = tx[s]
    BY <1>5, <1>6 DEF IInv, TargetTypes
  <1>15. Kbless(r)'
    <2>1. Kbless(r)
      BY <1>1, <1>6, KblessRequest DEF Whole
    <2> QED
      BY <2>1 DEF Kbless
  <1>16. HolderInv(p)'
    <2>1. HolderAt(phase, d, call'[p].published, tx'[r], staging'[r], target'[r],
                   KbOf(r)')
      <3>1. phase \in {"bootstrap", "bundle"} /\ (phase = "bundle" => ~New(d))
            /\ (phase = "bootstrap" => New(d))
        BY <1>4
      <3> QED
        BY <1>7, <1>10, <1>11, <1>14, <3>1
           DEF HolderAt, AfterIdentity, InParent, Routing
    <2> QED
      BY <1>1, <1>2, <1>5, <1>13, <1>15, <2>1, HolderNext
  <1>17. NamesAreExclusive'
    <2>1. ASSUME New(d), NEW q \in Requests \ {r}, Whole(tx[q].identity),
                 New(tx[q].request), tx[q].request.policy = d.policy
          PROVE  NameOf(q) # n
      <3>1. Whole(tx[q].request) /\ tx[q].identity \notin {Nothing, Half}
        BY <2>1 DEF IInv, RequestInv, Whole
      <3>2. q \in Rivals(d)
        BY <1>6, <2>1, <3>1 DEF Rivals
      <3>3. NameOf(q) \in Reserved(d)
        BY <3>1, <3>2 DEF Reserved
      <3> QED
        BY <1>9, <2>1, <3>3
    <2>2. NamesAreExclusive
      BY DEF IInv
    <2>3. \A q \in Requests \ {r} : NameOf(q)' = NameOf(q)
      BY <1>14 DEF NameOf
    <2>4. NameOf(r)' = n
      BY <1>11, <1>14 DEF NameOf
    <2> QED
      BY <1>11, <1>14, <2>1, <2>2, <2>3, <2>4 DEF NamesAreExclusive
  <1>18. phase # "mark"
    BY <1>4
  <1> QED
    BY <1>1, <1>5, <1>6, <1>7, <1>8, <1>11, <1>12, <1>13, <1>16, <1>17, <1>18, TxStep

\* The identity is read, or a name is chosen.
LEMMA IdentifyInv ==
    ASSUME IInv, NEW p \in Procs, Identify(p)
    PROVE  IInv'
  <1>1. PICK r : r = Of(p)
    OBVIOUS
  <1>2. PICK d : d = call[p].req
    OBVIOUS
  <1>3. /\ call[p].phase = "identity" /\ call[p].phase \in Steps
        /\ UNCHANGED <<prepareVars, spent, staging, kb, target>>
        /\ {"blocked", "name"} \subseteq Whys
    BY DEF Identify, Only, Steps, Whys
  <1>4. /\ r \in Requests /\ d.id = r /\ tx[r] \in Transactions
    BY <1>1, <1>2, <1>3, HolderFacts DEF Of
  <1>5. UNCHANGED tx => SameFiles
    BY <1>3 DEF SameFiles, targetVars
  <1>6. CASE /\ tx[r].identity = Half \/ \E q \in Rivals(d) : tx[q].identity = Half
             /\ Refuse(p, "unknown", "blocked") /\ UNCHANGED tx
    <2>1. Lasting(d)
      BY <1>4, <1>6 DEF Lasting
    <2> QED
      BY <1>2, <1>3, <1>5, <1>6, <2>1, RefuseInv
  <1>7. CASE Whole(tx[r].identity) /\ Resume(p) /\ UNCHANGED tx
    BY <1>1, <1>3, <1>5, <1>7, ResumeInv
  <1>8. CASE tx[r].identity = Nothing /\ ~New(d) /\ Freeze(p, Unnamed)
    BY <1>1, <1>2, <1>3, <1>8, FreezeInv
  <1>9. CASE tx[r].identity = Nothing /\ New(d) /\ \E n \in Chosen(d) : Freeze(p, n)
    BY <1>1, <1>2, <1>3, <1>9, FreezeInv
  <1>10. CASE Refuse(p, "not", "name") /\ UNCHANGED tx
    BY <1>3, <1>5, <1>10, RefuseInv
  <1> QED
    BY <1>1, <1>2, <1>6, <1>7, <1>8, <1>9, <1>10 DEF Identify

-----------------------------------------------------------------------------
(* The knowledge base is built and placed                                  *)

\* A call that has its knowledge base in place goes on to route the text.
LEMMA Adopts ==
    ASSUME IInv, NEW p \in Procs, call[p].phase \in Steps, spent' = spent,
           call' = [call EXCEPT ![p].phase = "raw", ![p].published = TRUE]
    PROVE  /\ CallTypes' /\ call'[p].phase = "raw" /\ call'[p].req = call[p].req
           /\ call'[p].published = TRUE /\ Of(p)' = Of(p)
           /\ call'[p].phase \notin PrepareSteps /\ AnswerInv(p)'
           /\ \A q \in Procs \ {p} : call'[q] = call[q]
  <1>1. CallTypes /\ call[p] \in DecideCalls
    BY HolderFacts DEF IInv
  <1>2. PICK c : c = [call[p] EXCEPT !.phase = "raw", !.published = TRUE]
    OBVIOUS
  <1>3. "raw" \in Steps /\ "raw" \notin PrepareSteps /\ "raw" # "told"
    BY DEF Steps, PrepareSteps
  <1>4. c \in DecideCalls /\ c.phase = "raw" /\ c.req = call[p].req /\ c.published = TRUE
    BY <1>1, <1>2, <1>3 DEF DecideCalls
  <1>5. c \in Calls /\ call' = [call EXCEPT ![p] = c]
    BY <1>2, <1>4 DEF Calls
  <1>6. /\ call' \in [Procs -> Calls] /\ call'[p] = c
        /\ \A q \in Procs \ {p} : call'[q] = call[q]
    BY <1>1, <1>5, Taken
  <1> QED
    BY <1>1, <1>3, <1>4, <1>6 DEF CallTypes, AnswerInv, Of

\* The knowledge base under the frozen name, if any, is the request's own or
\* one that somebody else has built.
LEMMA OwnKb ==
    ASSUME IInv, NEW r \in Requests, NameOf(r) \in Names, KbOf(r) # Nothing,
           Whole(tx[r].identity)
    PROVE  /\ KbOf(r) \in KnowledgeBases
           /\ KbOf(r).owner = r => tx[r].root = "root" /\ Whole(tx[r].root)
           /\ KbOf(r).owner = r /\ target[r] = Nothing => KbOf(r).ref # "later"
  <1>1. PICK n \in Names : n = NameOf(r)
    OBVIOUS
  <1>2. kb[n] # Nothing /\ KbOf(r) = kb[n] /\ KbInv(n)
    BY <1>1 DEF KbOf, IInv
  <1> QED
    BY <1>2, FileAssumption DEF KbInv, IInv, TargetTypes

\* _bootstrap_kb finds the knowledge base, or makes and sweeps its staging.
LEMMA BootstrapInv ==
    ASSUME IInv, NEW p \in Procs, Bootstrap(p)
    PROVE  IInv'
  <1>1. PICK r : r = Of(p)
    OBVIOUS
  <1>2. PICK d : d = call[p].req
    OBVIOUS
  <1>3. PICK k : k = KbOf(r)
    OBVIOUS
  <1>4. /\ call[p].phase = "bootstrap" /\ call[p].phase \in Steps
        /\ call[p].phase \in AfterIdentity
        /\ UNCHANGED <<prepareVars, spent, tx, kb, target>>
        /\ "blocked" \in Whys /\ \A x : StateOf(x) \in {"not", "unknown"}
    BY DEF Bootstrap, Only, Steps, Whys, AfterIdentity, InParent, StateOf
  <1>5. /\ r \in Requests /\ d \in Decisions /\ d.id = r
        /\ \A q \in Procs \ {p} : call[q].phase \in Steps => Of(q) # r
    BY <1>1, <1>2, <1>4, HolderFacts DEF Of
  <1>6. /\ tx[r].request = d /\ Whole(tx[r].identity) /\ target[r] = Nothing
        /\ tx[r].made /\ ~Unwritten(r) /\ (NameOf(r) \in Names <=> New(d))
    BY <1>1, <1>2, <1>4, HolderIdentity
  <1>7. HolderAt("bootstrap", d, call[p].published, tx[r], staging[r], target[r], k)
        /\ (~call[p].published => Kbless(r))
    BY <1>1, <1>2, <1>3, <1>4, HolderNow
  <1>8. New(d) /\ NameOf(r) \in Names
    BY <1>4, <1>6, <1>7 DEF HolderAt
  <1>9. UNCHANGED staging => SameFiles
    BY <1>4 DEF SameFiles, targetVars
  <1>10. Kbless(r)' <=> Kbless(r)
    BY <1>4 DEF Kbless
  <1>11. KbOf(r)' = k
    BY <1>3, <1>4 DEF KbOf, NameOf
  <1>12. CASE tx[r].root = Half /\ Refuse(p, "unknown", "blocked") /\ UNCHANGED staging
    <2>1. Lasting(d)
      BY <1>5, <1>12 DEF Lasting
    <2> QED
      BY <1>2, <1>4, <1>9, <1>12, <2>1, RefuseInv
  <1>13. CASE /\ k # Nothing /\ k.owner = r /\ Whole(tx[r].root)
              /\ call' = [call EXCEPT ![p].phase = "raw", ![p].published = TRUE]
              /\ UNCHANGED staging
    <2>1. /\ CallTypes' /\ call'[p].phase = "raw" /\ call'[p].req = call[p].req
          /\ call'[p].published = TRUE /\ Of(p)' = Of(p)
          /\ call'[p].phase \notin PrepareSteps /\ AnswerInv(p)'
          /\ \A q \in Procs \ {p} : call'[q] = call[q]
      BY <1>4, <1>13, Adopts
    <2>2. SourceTypes' /\ SourcesStay /\ SourceInv'
      BY <1>4, <2>1, SourcesSame
    <2>3. HolderAt("raw", d, TRUE, tx'[r], staging'[r], target'[r], KbOf(r)')
      BY <1>4, <1>5, <1>6, <1>8, <1>11, <1>13
         DEF HolderAt, AfterIdentity, InParent, Routing
    <2>4. HolderInv(p)'
      BY <1>1, <1>2, <1>4, <2>1, <2>3, HolderNext DEF Steps
    <2>5. Owns(p, Of(p)')
      BY <1>4, <2>1 DEF Owns
    <2> QED
      BY <1>9, <1>13, <2>1, <2>2, <2>4, <2>5, QuietStep
  <1>14. CASE /\ k # Nothing /\ ~(k.owner = r /\ Whole(tx[r].root))
              /\ Refuse(p, StateOf(p), "blocked") /\ UNCHANGED staging
    <2>1. k.owner # r
      BY <1>3, <1>5, <1>6, <1>8, <1>14, OwnKb
    <2>2. Lasting(d)
      BY <1>3, <1>5, <1>6, <1>8, <1>14, <2>1 DEF Lasting
    <2> QED
      BY <1>2, <1>4, <1>9, <1>14, <2>2, RefuseInv
  <1>15. CASE /\ tx[r].root # Half /\ k = Nothing /\ staging[r] = "none"
              /\ staging' = [staging EXCEPT ![r] = "bare"]
              /\ Goto(p, "mark")
    <2>1. "mark" \in Steps
      BY DEF Steps
    <2>2. /\ CallTypes' /\ call'[p].phase = "mark" /\ call'[p].req = call[p].req
          /\ Of(p)' = Of(p) /\ call'[p].phase \notin PrepareSteps /\ AnswerInv(p)'
          /\ \A q \in Procs \ {p} : call'[q] = call[q]
      BY <1>4, <1>15, <2>1, GoesOn
    <2>3. Kbless(r)' /\ ~Unmarked(r) /\ staging'[r] = "bare"
      BY <1>3, <1>5, <1>10, <1>15, KblessRequest DEF Unmarked, IInv, TargetTypes
    <2>4. HolderAt("mark", d, call'[p].published, tx'[r], staging'[r], target'[r],
                   KbOf(r)')
      BY <1>4, <1>6, <1>8, <1>15, <2>3 DEF HolderAt, AfterIdentity, InParent, Routing
    <2>5. HolderInv(p)'
      BY <1>1, <1>2, <1>4, <2>1, <2>2, <2>3, <2>4, HolderNext
    <2> QED
      BY <1>1, <1>4, <1>5, <1>6, <1>15, <2>2, <2>3, <2>5, StagingStep
  <1>16. CASE /\ staging[r] = "owned" /\ staging' = [staging EXCEPT ![r] = "none"]
              /\ UNCHANGED call
    <2>1. CallTypes' /\ call'[p].phase \notin PrepareSteps /\ AnswerInv(p)'
      BY <1>4, <1>16 DEF IInv, CallTypes, AnswerInv, PrepareSteps
    <2>2. ~Unmarked(r)
      BY <1>16 DEF Unmarked
    <2>3. HolderAt("bootstrap", d, call'[p].published, tx'[r], staging'[r], target'[r],
                   KbOf(r)')
      BY <1>4, <1>7, <1>11, <1>16 DEF HolderAt
    <2>4. HolderInv(p)'
      BY <1>1, <1>2, <1>4, <1>7, <1>10, <1>16, <2>3, HolderNext
    <2>5. Of(p)' = r
      BY <1>1, <1>16 DEF Of
    <2> QED
      BY <1>1, <1>4, <1>5, <1>6, <1>16, <2>1, <2>2, <2>4, <2>5, StagingStep
  <1>17. CASE /\ staging[r] = "bare" /\ UNCHANGED staging
              /\ \E state \in {"not", "unknown"} : Refuse(p, state, "blocked")
    <2>1. Unmarked(r)
      BY <1>4, <1>5, <1>17 DEF Unmarked, Steps
    <2>2. Lasting(d)
      BY <1>5, <2>1 DEF Lasting
    <2> QED
      BY <1>2, <1>4, <1>9, <1>17, <2>2, RefuseInv
  <1> QED
    BY <1>1, <1>3, <1>12, <1>13, <1>14, <1>15, <1>16, <1>17 DEF Bootstrap

\* The staging directory gets its owner marker.
LEMMA MarkStagingInv ==
    ASSUME IInv, NEW p \in Procs, MarkStaging(p)
    PROVE  IInv'
  <1>1. PICK r : r = Of(p)
    OBVIOUS
  <1>2. PICK d : d = call[p].req
    OBVIOUS
  <1>3. /\ call[p].phase = "mark" /\ call[p].phase \in Steps /\ "build" \in Steps
        /\ call[p].phase \in AfterIdentity /\ Goto(p, "build")
        /\ UNCHANGED <<prepareVars, spent, tx, kb, target>>
        /\ staging' = [staging EXCEPT ![r] = "owned"]
    BY <1>1 DEF MarkStaging, Only, Steps, AfterIdentity, InParent
  <1>4. r \in Requests /\ d.id = r /\ ~Unmarked(r)
    BY <1>1, <1>2, <1>3, HolderFacts DEF Of
  <1>5. target[r] = Nothing /\ ~Unwritten(r)
    BY <1>1, <1>3, HolderIdentity
  <1>6. HolderAt("mark", d, call[p].published, tx[r], staging[r], target[r], KbOf(r))
        /\ Kbless(r)
    BY <1>1, <1>2, <1>3, HolderNow
  <1>7. /\ CallTypes' /\ call'[p].phase = "build" /\ call'[p].req = call[p].req
        /\ Of(p)' = Of(p) /\ call'[p].phase \notin PrepareSteps /\ AnswerInv(p)'
        /\ \A q \in Procs \ {p} : call'[q] = call[q]
    BY <1>3, GoesOn
  <1>8. staging'[r] = "owned" /\ Kbless(r)'
    BY <1>3, <1>4, <1>6 DEF IInv, TargetTypes, Kbless
  <1>9. HolderAt("build", d, call'[p].published, tx'[r], staging'[r], target'[r], KbOf(r)')
    BY <1>3, <1>6, <1>8 DEF HolderAt, AfterIdentity, InParent, Routing
  <1>10. HolderInv(p)'
    BY <1>1, <1>2, <1>3, <1>7, <1>8, <1>9, HolderNext
  <1> QED
    BY <1>1, <1>3, <1>4, <1>5, <1>7, <1>10, StagingStep

\* The root commit is recorded before the directory is renamed into place.
LEMMA BuildRootInv ==
    ASSUME IInv, NEW p \in Procs, BuildRoot(p)
    PROVE  IInv'
  <1>1. PICK r : r = Of(p)
    OBVIOUS
  <1>2. PICK d : d = call[p].req
    OBVIOUS
  <1>3. PICK t : t = [tx[r] EXCEPT !.root = "root"]
    OBVIOUS
  <1>4. /\ call[p].phase = "build" /\ call[p].phase \in Steps /\ "place" \in Steps
        /\ call[p].phase \in AfterIdentity /\ Goto(p, "place")
        /\ UNCHANGED <<prepareVars, spent, staging, kb, target>>
        /\ tx' = [tx EXCEPT ![r] = t]
    BY <1>1, <1>3 DEF BuildRoot, Only, Steps, AfterIdentity, InParent
  <1>5. /\ r \in Requests /\ d \in Decisions /\ d.id = r /\ tx[r] \in Transactions
        /\ RequestInv(r)
    BY <1>1, <1>2, <1>4, HolderFacts DEF Of
  <1>6. target[r] = Nothing /\ ~Unwritten(r) /\ Whole(tx[r].identity)
    BY <1>1, <1>4, HolderIdentity
  <1>7. HolderAt("build", d, call[p].published, tx[r], staging[r], target[r], KbOf(r))
        /\ Kbless(r)
    BY <1>1, <1>2, <1>4, HolderNow
  <1>8. /\ t \in Transactions /\ t.made = tx[r].made /\ t.request = tx[r].request
        /\ t.identity = tx[r].identity /\ t.root = "root"
    BY <1>3, <1>5 DEF Transactions
  <1>9. TxShape(r, t)
    BY <1>5, <1>6, <1>8 DEF TxShape, RequestInv, NameOf
  <1>10. tx[r].root # Half
    BY <1>7 DEF HolderAt
  <1>11. /\ CallTypes' /\ call'[p].phase = "place" /\ call'[p].req = call[p].req
         /\ Of(p)' = Of(p) /\ call'[p].phase \notin PrepareSteps /\ AnswerInv(p)'
         /\ \A q \in Procs \ {p} : call'[q] = call[q]
    BY <1>4, GoesOn
  <1>12. tx'[r] = t /\ \A s \in Requests \ {r} : tx'[s] = tx[s]
    BY <1>4, <1>5 DEF IInv, TargetTypes
  <1>13. Kbless(r)'
    BY <1>4, <1>7 DEF Kbless
  <1>14. HolderAt("place", d, call'[p].published, tx'[r], staging'[r], target'[r],
                  KbOf(r)')
    BY <1>4, <1>7, <1>8, <1>12, FileAssumption
       DEF HolderAt, AfterIdentity, InParent, Routing, Whole
  <1>15. HolderInv(p)'
    BY <1>1, <1>2, <1>4, <1>11, <1>13, <1>14, HolderNext
  <1>16. NamesAreExclusive'
    BY <1>8, <1>12, NamesStand DEF IInv
  <1> QED
    BY <1>1, <1>4, <1>5, <1>6, <1>8, <1>9, <1>10, <1>11, <1>15, <1>16, TxStep

\* The knowledge base under a name is what was last written there.
LEMMA KbSet ==
    ASSUME IInv, NEW r \in Requests, NameOf(r) \in Names, NEW k, SetKb(r, k), tx' = tx
    PROVE  KbOf(r)' = k
  BY DEF IInv, TargetTypes, SetKb, KbOf, NameOf

\* What a call knows when it renames the staging directory.
LEMMA PlaceFacts ==
    ASSUME IInv, NEW p \in Procs, call[p].phase = "place", RenameKb(p)
    PROVE  /\ call[p].phase \in Steps /\ Of(p) \in Requests
           /\ tx[Of(p)].request = call[p].req /\ Whole(tx[Of(p)].identity)
           /\ tx[Of(p)].made /\ tx[Of(p)].root = "root" /\ target[Of(p)] = Nothing
           /\ ~Unwritten(Of(p)) /\ ~Unmarked(Of(p))
           /\ New(call[p].req) /\ NameOf(Of(p)) \in Names
           /\ KbOf(Of(p)) = Nothing /\ SetKb(Of(p), NewKb(Of(p)))
           /\ NewKb(Of(p)) \in KnowledgeBases /\ NewKb(Of(p)).owner = Of(p)
           /\ NewKb(Of(p)).ref = "base"
           /\ UNCHANGED <<tx, target>> /\ staging' = [staging EXCEPT ![Of(p)] = "none"]
  <1>1. call[p].phase \in Steps /\ call[p].phase \in AfterIdentity
    BY DEF Steps, AfterIdentity, InParent
  <1>2. Of(p) \in Requests
    BY <1>1, HolderFacts
  <1>3. /\ tx[Of(p)].request = call[p].req /\ Whole(tx[Of(p)].identity)
        /\ target[Of(p)] = Nothing /\ tx[Of(p)].made /\ ~Unwritten(Of(p))
        /\ (NameOf(Of(p)) \in Names <=> New(call[p].req))
    BY <1>1, HolderIdentity
  <1>4. HolderAt("place", call[p].req, call[p].published, tx[Of(p)], staging[Of(p)],
                 target[Of(p)], KbOf(Of(p)))
    BY <1>1, HolderNow
  <1>5. /\ New(call[p].req) /\ NameOf(Of(p)) \in Names /\ staging[Of(p)] = "owned"
        /\ tx[Of(p)].root = "root"
    BY <1>1, <1>3, <1>4 DEF HolderAt
  <1>6. ~Unmarked(Of(p))
    BY <1>5 DEF Unmarked
  <1>7. /\ NewKb(Of(p)) \in KnowledgeBases /\ NewKb(Of(p)).owner = Of(p)
        /\ NewKb(Of(p)).ref = "base"
    BY <1>2 DEF NewKb, KnowledgeBases, RawFiles
  <1>8. /\ KbOf(Of(p)) = Nothing /\ SetKb(Of(p), NewKb(Of(p)))
        /\ UNCHANGED <<tx, target>> /\ staging' = [staging EXCEPT ![Of(p)] = "none"]
    BY DEF RenameKb, SetKb
  <1> QED
    BY <1>1, <1>2, <1>3, <1>5, <1>6, <1>7, <1>8

\* The staging directory is renamed to the frozen name, whether the call goes on
\* or ends there.
LEMMA RenameKbInv ==
    ASSUME IInv, NEW p \in Procs, call[p].phase = "place", RenameKb(p),
           UNCHANGED prepareVars, CallTypes', \A q \in Procs \ {p} : call'[q] = call[q],
           call'[p].phase \in Steps => Of(p)' = Of(p),
           call'[p].phase \notin PrepareSteps, HolderInv(p)', AnswerInv(p)'
    PROVE  IInv'
  <1>1. PICK r : r = Of(p)
    OBVIOUS
  <1>2. /\ call[p].phase \in Steps /\ r \in Requests /\ NameOf(r) \in Names
        /\ Whole(tx[r].identity) /\ tx[r].root = "root" /\ target[r] = Nothing
        /\ ~Unwritten(r) /\ ~Unmarked(r) /\ KbOf(r) = Nothing
        /\ UNCHANGED <<tx, target>> /\ staging' = [staging EXCEPT ![r] = "none"]
    BY <1>1, PlaceFacts
  <1>3. PICK k \in KnowledgeBases : k = NewKb(r)
    BY <1>1, PlaceFacts
  <1>4. k.owner = r /\ k.ref # "later" /\ SetKb(r, k)
    BY <1>1, <1>3, PlaceFacts
  <1>5. /\ staging' \in [Requests -> {"none", "bare", "owned"}]
        /\ \A s \in Requests \ {r} : staging'[s] = staging[s]
    BY <1>2 DEF IInv, TargetTypes
  <1> QED
    BY <1>1, <1>2, <1>4, <1>5, KbStep

\* The call goes on with the knowledge base it has placed.
LEMMA PlaceKbInv ==
    ASSUME IInv, NEW p \in Procs, PlaceKb(p)
    PROVE  IInv'
  <1>1. PICK r : r = Of(p)
    OBVIOUS
  <1>2. PICK d : d = call[p].req
    OBVIOUS
  <1>3. /\ call[p].phase = "place" /\ RenameKb(p) /\ UNCHANGED <<prepareVars, spent>>
        /\ call' = [call EXCEPT ![p].phase = "raw", ![p].published = TRUE]
    BY DEF PlaceKb
  <1>4. /\ call[p].phase \in Steps /\ r \in Requests /\ d.id = r
        /\ tx[r].request = d /\ Whole(tx[r].identity) /\ tx[r].made
        /\ target[r] = Nothing /\ New(d) /\ NameOf(r) \in Names
        /\ SetKb(r, NewKb(r)) /\ NewKb(r) \in KnowledgeBases /\ NewKb(r).owner = r
        /\ UNCHANGED <<tx, target>>
    BY <1>1, <1>2, <1>3, PlaceFacts DEF Of
  <1>5. KbOf(r)' = NewKb(r) /\ NewKb(r) # Nothing
    BY <1>4, KbSet, FileAssumption
  <1>6. call[p].phase \in AfterIdentity
    BY <1>3 DEF AfterIdentity, InParent, Steps
  <1>7. /\ CallTypes' /\ call'[p].phase = "raw" /\ call'[p].req = call[p].req
        /\ call'[p].published = TRUE /\ Of(p)' = Of(p)
        /\ call'[p].phase \notin PrepareSteps /\ AnswerInv(p)'
        /\ \A q \in Procs \ {p} : call'[q] = call[q]
    BY <1>3, <1>4, <1>6, Adopts
  <1>8. HolderAt("raw", d, TRUE, tx'[r], staging'[r], target'[r], KbOf(r)')
    BY <1>4, <1>5 DEF HolderAt, AfterIdentity, InParent, Routing
  <1>9. HolderInv(p)'
    BY <1>1, <1>2, <1>3, <1>4, <1>7, <1>8, HolderNext DEF Steps
  <1> QED
    BY <1>3, <1>7, <1>9, RenameKbInv

-----------------------------------------------------------------------------
(* The text is routed into the knowledge base                              *)

\* What a call that routes the text finds.
LEMMA RoutingFacts ==
    ASSUME IInv, NEW p \in Procs, call[p].phase \in Routing
    PROVE  /\ call[p].phase \in Steps /\ Of(p) \in Requests /\ call[p].req \in Decisions
           /\ call[p].req.id = Of(p)
           /\ tx[Of(p)].request = call[p].req /\ Whole(tx[Of(p)].identity)
           /\ target[Of(p)] = Nothing /\ ~Unwritten(Of(p))
           /\ New(call[p].req) /\ NameOf(Of(p)) \in Names
           /\ KbOf(Of(p)) \in KnowledgeBases /\ KbOf(Of(p)).owner = Of(p)
           /\ KbOf(Of(p)) # Nothing
           /\ KbOf(Of(p)).ref # "later" /\ tx[Of(p)].root = "root"
           /\ call[p].published /\ tx[Of(p)].made
           /\ (call[p].phase # "raw" => KbOf(Of(p)).files = RawFiles)
           /\ (call[p].phase = "receipt" => KbOf(Of(p)).ref = "routed")
  <1>1. /\ call[p].phase \in Steps /\ call[p].phase \in AfterIdentity \ {"bundle"}
    BY DEF Routing, Steps, AfterIdentity, InParent
  <1>2. Of(p) \in Requests /\ call[p].req \in Decisions /\ call[p].req.id = Of(p)
    BY <1>1, HolderFacts DEF Of
  <1>3. /\ tx[Of(p)].request = call[p].req /\ Whole(tx[Of(p)].identity)
        /\ target[Of(p)] = Nothing /\ tx[Of(p)].made
        /\ NameOf(Of(p)) \in Names <=> New(call[p].req)
        /\ ~Unwritten(Of(p))
    BY <1>1, HolderIdentity
  <1>4. /\ New(call[p].req) /\ KbOf(Of(p)) # Nothing /\ KbOf(Of(p)).owner = Of(p)
        /\ call[p].published
        /\ (call[p].phase # "raw" => KbOf(Of(p)).files = RawFiles)
        /\ (call[p].phase = "receipt" => KbOf(Of(p)).ref = "routed")
    BY <1>1, <1>2, HolderNow DEF HolderAt, Routing
  <1> QED
    BY <1>1, <1>2, <1>3, <1>4, OwnKb

\* A refusal over a file of the knowledge base that was cut short.
LEMMA RoutingBlocked ==
    ASSUME IInv, NEW p \in Procs, call[p].phase \in Routing, Torn(KbOf(Of(p))),
           Refuse(p, "unknown", "blocked"), UNCHANGED <<prepareVars, spent>>, SameFiles
    PROVE  IInv'
  <1>1. PICK n \in Names : n = NameOf(Of(p))
    BY RoutingFacts
  <1>2. kb[n] # Nothing /\ kb[n].owner = call[p].req.id /\ Torn(kb[n])
    BY <1>1, RoutingFacts DEF KbOf
  <1>3. Lasting(call[p].req)
    BY <1>2 DEF Lasting
  <1> QED
    BY <1>3, RoutingFacts, RefuseInv DEF Whys

\* A call that routes goes on without writing.
LEMMA RoutingGoesOn ==
    ASSUME IInv, NEW p \in Procs, call[p].phase \in Routing,
           NEW phase \in {"checkpoint", "ref", "receipt"}, Goto(p, phase),
           KbOf(Of(p)).files = RawFiles, phase = "receipt" => KbOf(Of(p)).ref = "routed",
           UNCHANGED <<prepareVars, spent>>, SameFiles
    PROVE  IInv'
  <1>1. PICK r : r = Of(p)
    OBVIOUS
  <1>2. PICK d : d = call[p].req
    OBVIOUS
  <1>3. call[p].phase \in Steps /\ phase \in Steps \ {"request", "mark"}
    BY RoutingFacts DEF Steps
  <1>4. /\ call'[p].phase = phase /\ call'[p].req = call[p].req
        /\ call'[p].published = call[p].published
    BY <1>3, GoesOn
  <1>5. KbOf(r)' = KbOf(r) /\ tx' = tx /\ target' = target
    BY DEF SameFiles, targetVars, KbOf, NameOf
  <1>6. HolderAt(phase, d, call'[p].published, tx'[r], staging'[r], target'[r], KbOf(r)')
    BY <1>1, <1>2, <1>3, <1>4, <1>5, RoutingFacts
       DEF HolderAt, AfterIdentity, InParent, Routing
  <1>7. HolderInv(p)'
    BY <1>1, <1>2, <1>3, <1>4, <1>6, RoutingFacts, HolderNext
  <1> QED
    BY <1>3, <1>7, GoOnInv

\* A call that routes writes a file of the knowledge base.
LEMMA RoutingWrites ==
    ASSUME IInv, NEW p \in Procs, call[p].phase \in Routing,
           NEW k \in KnowledgeBases, SetKb(Of(p), k), k.owner = Of(p), k.ref # "later",
           Torn(KbOf(Of(p))) => Torn(k),
           NEW phase \in Routing \cup {"bundle"}, CallTypes',
           call'[p].phase = phase, call'[p].req = call[p].req, call'[p].published,
           phase # "raw" => k.files = RawFiles,
           phase \in {"receipt", "bundle"} => k.ref = "routed",
           phase = "bundle" => Whole(k.receipt),
           \A q \in Procs \ {p} : call'[q] = call[q],
           UNCHANGED <<prepareVars, spent, tx, staging, target>>
    PROVE  IInv'
  <1>1. PICK r : r = Of(p)
    OBVIOUS
  <1>2. PICK d : d = call[p].req
    OBVIOUS
  <1>3. /\ phase \in Steps /\ phase \notin PrepareSteps /\ phase \notin {"told", "mark"}
    BY DEF Routing, Steps, PrepareSteps
  <1>4. KbOf(r)' = k /\ k # Nothing
    BY <1>1, RoutingFacts, KbSet, FileAssumption
  <1>5. HolderAt(phase, d, call'[p].published, tx'[r], staging'[r], target'[r], KbOf(r)')
    BY <1>1, <1>2, <1>4, RoutingFacts
       DEF HolderAt, AfterIdentity, InParent, Routing
  <1>6. phase \notin {"mark", "build", "place"}
    BY DEF Routing
  <1>7. HolderInv(p)'
    BY <1>1, <1>2, <1>3, <1>5, <1>6, RoutingFacts, HolderNext
  <1>8. AnswerInv(p)' /\ Of(p)' = r
    BY <1>1, <1>3 DEF AnswerInv, Of
  <1>9. /\ staging' \in [Requests -> {"none", "bare", "owned"}]
        /\ \A s \in Requests \ {r} : staging'[s] = staging[s]
        /\ (Unmarked(r) => staging'[r] = "bare")
    BY DEF IInv, TargetTypes, Unmarked
  <1> QED
    BY <1>1, <1>3, <1>7, <1>8, <1>9, RoutingFacts, KbStep

\* The raw files are written and renamed one by one.
LEMMA RouteFilesInv ==
    ASSUME IInv, NEW p \in Procs, RouteFiles(p)
    PROVE  IInv'
  <1>1. PICK r : r = Of(p)
    OBVIOUS
  <1>2. PICK k : k = KbOf(r)
    OBVIOUS
  <1>3. /\ call[p].phase = "raw" /\ "raw" \in Routing
        /\ UNCHANGED <<prepareVars, spent, tx, staging, target>>
    BY DEF RouteFiles, Only, Routing
  <1>4. UNCHANGED kb => SameFiles
    BY <1>3 DEF SameFiles, targetVars
  <1>5. CASE k.raw = Half /\ Refuse(p, "unknown", "blocked") /\ UNCHANGED kb
    BY <1>1, <1>2, <1>3, <1>4, <1>5, RoutingBlocked DEF Torn
  <1>6. CASE k.files < RawFiles /\ SetKb(r, [k EXCEPT !.files = @ + 1]) /\ UNCHANGED call
    <2>1. PICK m : m = [k EXCEPT !.files = @ + 1]
      OBVIOUS
    <2>2. k \in KnowledgeBases /\ k.owner = r /\ k.ref # "later" /\ call[p].published
      BY <1>1, <1>2, <1>3, RoutingFacts
    <2>3. /\ m \in KnowledgeBases /\ m.owner = r /\ m.ref # "later"
          /\ (Torn(k) => Torn(m))
      BY <1>6, <2>1, <2>2 DEF KnowledgeBases, Torn, RawFiles
    <2>4. CallTypes' /\ call' = call /\ SetKb(r, m)
      BY <1>3, <1>6, <2>1 DEF IInv, CallTypes
    <2> QED
      BY <1>1, <1>2, <1>3, <2>2, <2>3, <2>4, RoutingWrites
  <1>7. CASE k.files = RawFiles /\ Goto(p, "checkpoint") /\ UNCHANGED kb
    BY <1>1, <1>2, <1>3, <1>4, <1>7, RoutingGoesOn
  <1> QED
    BY <1>1, <1>2, <1>5, <1>6, <1>7 DEF RouteFiles

\* The commit is made and its name persisted, or found.
LEMMA CheckpointInv ==
    ASSUME IInv, NEW p \in Procs, Checkpoint(p)
    PROVE  IInv'
  <1>1. PICK r : r = Of(p)
    OBVIOUS
  <1>2. PICK k : k = KbOf(r)
    OBVIOUS
  <1>3. /\ call[p].phase = "checkpoint" /\ "checkpoint" \in Routing
        /\ call[p].phase \in Steps /\ "ref" \in Steps
        /\ UNCHANGED <<prepareVars, spent, tx, staging, target>>
    BY DEF Checkpoint, Only, Routing, Steps
  <1>4. UNCHANGED kb => SameFiles
    BY <1>3 DEF SameFiles, targetVars
  <1>5. /\ k \in KnowledgeBases /\ k.owner = r /\ k.ref # "later" /\ call[p].published
        /\ k.files = RawFiles
    BY <1>1, <1>2, <1>3, RoutingFacts
  <1>6. CASE k.candidate = Half /\ Refuse(p, "unknown", "blocked") /\ UNCHANGED kb
    BY <1>1, <1>2, <1>3, <1>4, <1>6, RoutingBlocked DEF Torn
  <1>7. CASE /\ k.candidate = Nothing /\ k.ref = "base"
             /\ SetKb(r, [k EXCEPT !.candidate = "routed"])
             /\ Goto(p, "ref")
    <2>1. PICK m : m = [k EXCEPT !.candidate = "routed"]
      OBVIOUS
    <2>2. /\ m \in KnowledgeBases /\ m.owner = r /\ m.ref # "later"
          /\ m.files = RawFiles /\ (Torn(k) => Torn(m)) /\ SetKb(r, m)
      BY <1>5, <1>7, <2>1, FileAssumption DEF KnowledgeBases, Torn
    <2>3. /\ CallTypes' /\ call'[p].phase = "ref" /\ call'[p].req = call[p].req
          /\ call'[p].published = call[p].published
          /\ \A q \in Procs \ {p} : call'[q] = call[q]
      BY <1>3, <1>7, GoesOn
    <2>4. "ref" \in Routing
      BY DEF Routing
    <2> QED
      BY <1>1, <1>2, <1>3, <1>5, <2>2, <2>3, <2>4, RoutingWrites
  <1>8. CASE k.ref = "routed" /\ Goto(p, "receipt") /\ UNCHANGED kb
    BY <1>1, <1>2, <1>3, <1>4, <1>5, <1>8, RoutingGoesOn
  <1>9. CASE Goto(p, "ref") /\ UNCHANGED kb
    BY <1>1, <1>2, <1>3, <1>4, <1>5, <1>9, RoutingGoesOn
  <1>10. k.ref \in {"base", "routed"}
    BY <1>5 DEF KnowledgeBases
  <1> QED
    BY <1>1, <1>2, <1>6, <1>7, <1>8, <1>9, <1>10 DEF Checkpoint

\* The managed ref follows.
LEMMA AdvanceRefInv ==
    ASSUME IInv, NEW p \in Procs, AdvanceRef(p)
    PROVE  IInv'
  <1>1. PICK r : r = Of(p)
    OBVIOUS
  <1>2. PICK k : k = KbOf(r)
    OBVIOUS
  <1>3. PICK m : m = [k EXCEPT !.ref = "routed"]
    OBVIOUS
  <1>4. /\ call[p].phase = "ref" /\ "ref" \in Routing
        /\ call[p].phase \in Steps /\ "receipt" \in Steps \cap Routing
        /\ Goto(p, "receipt") /\ SetKb(r, m)
        /\ UNCHANGED <<prepareVars, spent, tx, staging, target>>
    BY <1>1, <1>2, <1>3 DEF AdvanceRef, Only, Routing, Steps
  <1>5. /\ k \in KnowledgeBases /\ k.owner = r /\ call[p].published
        /\ k.files = RawFiles
    BY <1>1, <1>2, <1>4, RoutingFacts
  <1>6. /\ m \in KnowledgeBases /\ m.owner = r /\ m.ref = "routed"
        /\ m.files = RawFiles /\ (Torn(k) => Torn(m))
    BY <1>3, <1>5 DEF KnowledgeBases, Torn
  <1>7. /\ CallTypes' /\ call'[p].phase = "receipt" /\ call'[p].req = call[p].req
        /\ call'[p].published = call[p].published
        /\ \A q \in Procs \ {p} : call'[q] = call[q]
    BY <1>4, GoesOn
  <1> QED
    BY <1>1, <1>2, <1>4, <1>5, <1>6, <1>7, RoutingWrites

\* The receipt of the route is written last.
LEMMA WriteReceiptInv ==
    ASSUME IInv, NEW p \in Procs, WriteReceipt(p)
    PROVE  IInv'
  <1>1. PICK r : r = Of(p)
    OBVIOUS
  <1>2. PICK k : k = KbOf(r)
    OBVIOUS
  <1>3. /\ call[p].phase = "receipt" /\ "receipt" \in Routing
        /\ call[p].phase \in Steps /\ "bundle" \in Steps
        /\ UNCHANGED <<prepareVars, spent, tx, staging, target>>
    BY DEF WriteReceipt, Only, Routing, Steps
  <1>4. /\ k \in KnowledgeBases /\ k.owner = r /\ call[p].published
        /\ k.files = RawFiles /\ k.ref = "routed"
    BY <1>1, <1>2, <1>3, RoutingFacts
  <1>5. CASE k.receipt = Half /\ Refuse(p, "unknown", "blocked") /\ UNCHANGED kb
    BY <1>1, <1>2, <1>3, <1>5, RoutingBlocked DEF Torn, SameFiles, targetVars
  <1>6. CASE k.receipt # Half /\ SetKb(r, [k EXCEPT !.receipt = "routed"])
             /\ Goto(p, "bundle")
    <2>1. PICK m : m = [k EXCEPT !.receipt = "routed"]
      OBVIOUS
    <2>2. /\ m \in KnowledgeBases /\ m.owner = r /\ m.ref = "routed"
          /\ m.files = RawFiles /\ (Torn(k) => Torn(m)) /\ SetKb(r, m)
          /\ Whole(m.receipt)
      BY <1>4, <1>6, <2>1, FileAssumption DEF KnowledgeBases, Torn
    <2>3. /\ CallTypes' /\ call'[p].phase = "bundle" /\ call'[p].req = call[p].req
          /\ call'[p].published = call[p].published
          /\ \A q \in Procs \ {p} : call'[q] = call[q]
      BY <1>3, <1>6, GoesOn
    <2> QED
      BY <1>1, <1>2, <1>3, <1>4, <2>2, <2>3, RoutingWrites
  <1> QED
    BY <1>1, <1>2, <1>5, <1>6 DEF WriteReceipt

-----------------------------------------------------------------------------
(* The result, and what ends a call                                        *)

\* What a call knows when it publishes its bundle.
LEMMA BundleFacts ==
    ASSUME IInv, NEW p \in Procs, call[p].phase = "bundle", RenameBundle(p)
    PROVE  /\ call[p].phase \in Steps /\ Of(p) \in Requests
           /\ call[p].req \in Decisions /\ call[p].req.id = Of(p)
           /\ Facts(p) \in Results /\ Facts(p) # Nothing
           /\ Facts(p).req = call[p].req /\ Facts(p).name = NameOf(Of(p))
           /\ Facts(p).run = source[call[p].req.source].run
           /\ TargetTypes' /\ target'[Of(p)] = Facts(p)
           /\ \A s \in Requests \ {Of(p)} : target'[s] = target[s]
           /\ UNCHANGED <<tx, staging, kb>>
  <1>1. call[p].phase \in Steps /\ call[p].phase \in AfterIdentity
    BY DEF Steps, AfterIdentity, InParent
  <1>2. /\ Of(p) \in Requests /\ call[p].req \in Decisions /\ call[p].req.id = Of(p)
        /\ RequestInv(Of(p)) /\ tx[Of(p)] \in Transactions
        /\ source[call[p].req.source] # Nothing /\ call[p].req.source \in Sources
    BY <1>1, HolderFacts DEF Of
  <1>3. Whole(tx[Of(p)].identity)
    BY <1>1, HolderIdentity
  <1>4. NameOf(Of(p)) \in Names \cup {Unnamed}
    BY <1>2, <1>3 DEF Transactions, NameOf, Whole
  <1>5. source[call[p].req.source].run \in Nat
    BY <1>2 DEF IInv, SourceTypes, Bundles
  <1>6. /\ Facts(p) \in Results /\ Facts(p) # Nothing
        /\ Facts(p).req = call[p].req /\ Facts(p).name = NameOf(Of(p))
        /\ Facts(p).run = source[call[p].req.source].run
    BY <1>2, <1>4, <1>5, FileAssumption DEF Facts, Result, Results
  <1>7. /\ target' = [target EXCEPT ![Of(p)] = Facts(p)] /\ UNCHANGED <<tx, staging, kb>>
    BY DEF RenameBundle
  <1>8. /\ TargetTypes' /\ target'[Of(p)] = Facts(p)
        /\ \A s \in Requests \ {Of(p)} : target'[s] = target[s]
    BY <1>2, <1>6, <1>7 DEF IInv, TargetTypes
  <1> QED
    BY <1>1, <1>2, <1>6, <1>7, <1>8

\* The bundle is published and says what the files say, whether the call succeeds
\* or is cut short.
LEMMA RenameBundleInv ==
    ASSUME IInv, NEW p \in Procs, call[p].phase = "bundle", RenameBundle(p),
           UNCHANGED prepareVars, CallTypes', \A q \in Procs \ {p} : call'[q] = call[q],
           call'[p].phase \notin Steps \cup PrepareSteps, HolderInv(p)', AnswerInv(p)'
    PROVE  IInv'
  <1>1. PICK r : r = Of(p)
    OBVIOUS
  <1>2. PICK d : d = call[p].req
    OBVIOUS
  <1>3. PICK facts : facts = Facts(p)
    OBVIOUS
  <1>4. /\ call[p].phase \in Steps /\ r \in Requests /\ d \in Decisions /\ d.id = r
        /\ facts # Nothing /\ facts.req = d /\ facts.name = NameOf(r)
        /\ facts.run = source[d.source].run
        /\ TargetTypes' /\ target'[r] = facts
        /\ \A s \in Requests \ {r} : target'[s] = target[s]
        /\ UNCHANGED <<tx, staging, kb>>
    BY <1>1, <1>2, <1>3, BundleFacts
  <1>5. call[p].phase \in AfterIdentity
    BY DEF AfterIdentity, InParent, Steps
  <1>6. /\ tx[r].request = d /\ Whole(tx[r].identity) /\ target[r] = Nothing
        /\ (NameOf(r) \in Names <=> New(d)) /\ ~Unwritten(r)
    BY <1>1, <1>2, <1>5, HolderIdentity
  <1>7. RequestInv(r) /\ source[d.source] # Nothing
    BY <1>1, <1>2, <1>4, HolderFacts
  <1>8. HolderAt("bundle", d, call[p].published, tx[r], staging[r], target[r], KbOf(r))
    BY <1>1, <1>2, <1>4, HolderNow
  <1>9. Verified(r)'
    <2>1. ASSUME New(d)
          PROVE  /\ kb[facts.name] # Nothing /\ kb[facts.name].owner = r
                 /\ kb[facts.name].files = RawFiles /\ kb[facts.name].ref = "routed"
                 /\ Whole(kb[facts.name].receipt)
      BY <1>4, <1>8, <2>1 DEF HolderAt, KbOf
    <2> QED
      BY <1>4, <2>1 DEF Verified
  <1>10. RequestInv(r)'
    BY <1>4, <1>6, <1>7, <1>9 DEF RequestInv, NameOf, prepareVars
  <1>11. Stays(r)
    <2>1. Unmarked(r) => Unmarked(r)'
      <3>1. \A q \in Procs : call'[q].phase = "mark" => call[q].phase = "mark"
                                                       /\ Of(q)' = Of(q)
        BY DEF Of, Steps
      <3> QED
        BY <1>4, <3>1 DEF Unmarked
    <2> QED
      BY <1>4, <1>6, <2>1 DEF Stays
  <1>12. ASSUME NEW n \in Names, kb'[n] # Nothing, kb'[n].owner = r PROVE KbInv(n)'
    <2>1. KbInv(n)
      BY DEF IInv
    <2> QED
      BY <1>4, <1>12, <2>1 DEF KbInv, NameOf
  <1>13. NamesAreExclusive'
    BY <1>4, NamesStand DEF IInv
  <1> QED
    BY <1>1, <1>4, <1>10, <1>11, <1>12, <1>13, OwnStep

\* The call answers with the bundle it has published.
LEMMA PublishTargetInv ==
    ASSUME IInv, NEW p \in Procs, PublishTarget(p)
    PROVE  IInv'
  <1>1. /\ call[p].phase = "bundle" /\ RenameBundle(p) /\ Succeed(p, Facts(p))
        /\ UNCHANGED <<prepareVars, spent>>
    BY DEF PublishTarget
  <1>2. /\ call[p].phase \in Steps /\ Of(p) \in Requests
        /\ call[p].req \in Decisions /\ call[p].req.id = Of(p)
        /\ Facts(p) \in Results /\ Facts(p) # Nothing /\ Facts(p).req = call[p].req
        /\ target'[Of(p)] = Facts(p)
    BY <1>1, BundleFacts
  <1>3. PICK facts \in Results : facts = Facts(p)
    BY <1>2
  <1>4. "committed" \in States /\ "ok" \in Whys
    BY DEF States, Whys
  <1>5. /\ call' \in [Procs -> Calls] /\ call'[p].phase = "told"
        /\ call'[p].req = call[p].req /\ call'[p].why = "ok" /\ call'[p].facts = facts
        /\ \A q \in Procs \ {p} : call'[q] = call[q]
    BY <1>1, <1>2, <1>3, <1>4, Answered DEF Succeed, IInv
  <1>6. CallTypes' /\ "told" \notin PrepareSteps \cup Steps \cup {"lock"}
    BY <1>1, <1>5 DEF IInv, CallTypes, PrepareSteps, Steps
  <1>7. HolderInv(p)'
    BY <1>5, <1>6, NotHolding
  <1>8. AnswerInv(p)'
    <2>1. call[p].req \notin Preparations
      BY <1>2, DecisionIds
    <2> QED
      BY <1>2, <1>3, <1>5, <2>1 DEF AnswerInv
  <1> QED
    BY <1>1, <1>5, <1>6, <1>7, <1>8, RenameBundleInv

\* A call that is killed or refused has no step to keep.
LEMMA Ends ==
    ASSUME IInv, NEW p \in Procs, call[p].phase \in Steps,
           spent' = [spent EXCEPT !.cuts = @ + 1],
           \/ call' = [call EXCEPT ![p] = [phase |-> "idle"]]
           \/ \E state \in {"not", "unknown"} : Refuse(p, state, "cut")
    PROVE  /\ CallTypes' /\ call'[p].phase \in {"idle", "told"}
           /\ call'[p].phase \notin Steps \cup PrepareSteps
           /\ HolderInv(p)' /\ AnswerInv(p)'
           /\ \A q \in Procs \ {p} : call'[q] = call[q]
  <1>1. CallTypes
    BY DEF IInv
  <1>2. spent' \in [calls : Nat, cuts : Nat, edits : Nat]
    BY <1>1 DEF CallTypes
  <1>3. {"idle", "told"} \cap (Steps \cup PrepareSteps \cup {"lock"}) = {}
    BY DEF Steps, PrepareSteps
  <1>4. CASE call' = [call EXCEPT ![p] = [phase |-> "idle"]]
    <2>1. [phase |-> "idle"] \in Calls
      BY DEF Calls, IdleCalls
    <2>2. /\ call' \in [Procs -> Calls] /\ call'[p].phase = "idle"
          /\ \A q \in Procs \ {p} : call'[q] = call[q]
      BY <1>1, <1>4, <2>1, Taken
    <2> QED
      BY <1>2, <1>3, <2>2, NotHolding DEF CallTypes, AnswerInv
  <1>5. ASSUME NEW state \in {"not", "unknown"}, Refuse(p, state, "cut")
        PROVE  /\ CallTypes' /\ call'[p].phase = "told"
               /\ HolderInv(p)' /\ AnswerInv(p)'
               /\ \A q \in Procs \ {p} : call'[q] = call[q]
    <2>1. state \in States /\ state # "committed" /\ "cut" \in Whys /\ "cut" # "blocked"
      BY <1>5 DEF States, Whys
    <2>2. /\ call' \in [Procs -> Calls] /\ call'[p].phase = "told"
          /\ call'[p].state = state /\ call'[p].why = "cut"
          /\ \A q \in Procs \ {p} : call'[q] = call[q]
      BY <1>1, <1>5, <2>1, Answered DEF Refuse
    <2>3. AnswerInv(p)'
      BY <2>1, <2>2 DEF AnswerInv
    <2> QED
      BY <1>2, <1>3, <2>2, <2>3, NotHolding DEF CallTypes
  <1> QED
    BY <1>3, <1>4, <1>5

\* A call that ends leaves a file cut short, a swept directory, or what it renamed.
LEMMA LeaveWorkInv ==
    ASSUME IInv, NEW p \in Procs, call[p].phase \in Steps, LeaveWork(p),
           UNCHANGED prepareVars, CallTypes', \A q \in Procs \ {p} : call'[q] = call[q],
           call'[p].phase \in {"idle", "told"},
           call'[p].phase \notin Steps \cup PrepareSteps, HolderInv(p)', AnswerInv(p)'
    PROVE  IInv'
  <1>1. PICK r : r = Of(p)
    OBVIOUS
  <1>2. PICK t : t = tx[r]
    OBVIOUS
  <1>3. CASE call[p].phase = "place" /\ RenameKb(p)
    BY <1>3, RenameKbInv
  <1>4. CASE call[p].phase = "bundle" /\ RenameBundle(p)
    BY <1>4, RenameBundleInv
  <1>5. /\ r \in Requests /\ call[p].req \in Decisions /\ call[p].req.id = r
        /\ t \in Transactions /\ RequestInv(r)
        /\ (call[p].phase # "open" => ~Unwritten(r))
    BY <1>1, <1>2, HolderFacts DEF Of
  <1>6. call'[p].phase # "mark"
    OBVIOUS
  <1>7. ASSUME UNCHANGED <<tx, staging, kb, target>> PROVE IInv'
    <2>1. SameFiles
      BY <1>7 DEF SameFiles, targetVars
    <2>2. SourceTypes' /\ SourcesStay /\ SourceInv'
      BY SourcesSame
    <2> QED
      BY <2>1, <2>2, QuietStep
  <1>8. HolderAt(call[p].phase, call[p].req, call[p].published, t, staging[r], target[r],
                 KbOf(r))
    BY <1>1, <1>2, HolderNow
  <1>9. CASE /\ call[p].phase = "request" /\ tx' = [tx EXCEPT ![r].request = Half]
             /\ UNCHANGED <<kb, staging, target>>
    <2>1. PICK u : u = [t EXCEPT !.request = Half]
      OBVIOUS
    <2>2. target[r] = Nothing /\ t.made /\ t.request = Nothing /\ t.identity = Nothing
      BY <1>8, <1>9 DEF HolderAt
    <2>3. t.root = Nothing
      BY <1>2, <1>5, <2>2 DEF RequestInv, Whole
    <2>4. /\ u \in Transactions /\ u.made /\ u.request = Half /\ u.identity = Nothing
          /\ u.root = Nothing /\ tx' = [tx EXCEPT ![r] = u]
      BY <1>2, <1>5, <1>9, <2>1, <2>2, <2>3 DEF Transactions
    <2>5. TxShape(r, u)
      BY <2>4 DEF TxShape, Whole
    <2>6. NamesAreExclusive'
      BY <1>5, <2>4 DEF IInv, TargetTypes, NamesAreExclusive, NameOf, Whole
    <2>7. call[p].phase # "open"
      BY <1>9
    <2> QED
      BY <1>1, <1>2, <1>5, <1>6, <1>9, <2>2, <2>3, <2>4, <2>5, <2>6, <2>7,
         FileAssumption, TxStep
  <1>10. CASE /\ call[p].phase = "identity" /\ tx[r].identity = Nothing
              /\ tx' = [tx EXCEPT ![r].identity = Half] /\ UNCHANGED <<kb, staging, target>>
    <2>1. PICK u : u = [t EXCEPT !.identity = Half]
      OBVIOUS
    <2>2. target[r] = Nothing /\ t.made /\ t.request = call[p].req
      BY <1>8, <1>10 DEF HolderAt, InParent, Steps
    <2>3. t.root = Nothing
      BY <1>2, <1>5, <1>10 DEF RequestInv, Whole
    <2>4. /\ u \in Transactions /\ u.made /\ u.request = t.request /\ u.identity = Half
          /\ u.root = Nothing /\ tx' = [tx EXCEPT ![r] = u]
      BY <1>2, <1>5, <1>10, <2>1, <2>2, <2>3 DEF Transactions
    <2>5. TxShape(r, u)
      BY <1>5, <2>2, <2>4, DecisionIds DEF TxShape, Whole
    <2>6. NamesAreExclusive'
      BY <1>5, <2>4 DEF IInv, TargetTypes, NamesAreExclusive, NameOf, Whole
    <2>7. call[p].phase # "open"
      BY <1>10
    <2> QED
      BY <1>1, <1>2, <1>5, <1>6, <1>10, <2>2, <2>3, <2>4, <2>5, <2>6, <2>7,
         FileAssumption, TxStep
  <1>11. CASE /\ call[p].phase = "build" /\ tx[r].root = Nothing
              /\ tx' = [tx EXCEPT ![r].root = Half] /\ UNCHANGED <<kb, target>>
              /\ Sweep(p) \/ UNCHANGED staging
    <2>1. PICK u : u = [t EXCEPT !.root = Half]
      OBVIOUS
    <2>2. target[r] = Nothing /\ t.made /\ t.request = call[p].req /\ Whole(t.identity)
      BY <1>8, <1>11 DEF HolderAt, AfterIdentity, InParent, Steps
    <2>3. /\ u \in Transactions /\ u.made /\ u.request = t.request
          /\ u.identity = t.identity /\ u.root = Half /\ tx' = [tx EXCEPT ![r] = u]
      BY <1>2, <1>5, <1>11, <2>1, <2>2 DEF Transactions
    <2>4. TxShape(r, u)
      BY <1>2, <1>5, <2>2, <2>3 DEF TxShape, RequestInv, NameOf
    <2>5. \A s \in Requests : tx'[s].request = tx[s].request
                              /\ tx'[s].identity = tx[s].identity
      BY <1>2, <1>5, <2>3 DEF IInv, TargetTypes
    <2>6. NamesAreExclusive'
      BY <2>5, NamesStand DEF IInv
    <2>7. call[p].phase # "open" /\ tx[r].root \notin {Half, "root"}
      BY <1>11, FileAssumption DEF Whole
    <2>8. /\ staging' \in [Requests -> {"none", "bare", "owned"}]
          /\ \A s \in Requests \ {r} : staging'[s] = staging[s]
          /\ Unmarked(r) => staging'[r] = "bare"
      BY <1>1, <1>5, <1>11 DEF Sweep, IInv, TargetTypes, Unmarked
    <2> QED
      BY <1>1, <1>2, <1>5, <1>6, <1>11, <2>2, <2>3, <2>4, <2>6, <2>7,
         <2>8, TxStagingStep
  <1>12. CASE Sweep(p) /\ UNCHANGED <<tx, kb, target>>
    <2>1. PICK left \in {"none", "bare", "owned"} : staging' = [staging EXCEPT ![r] = left]
      BY <1>1, <1>12 DEF Sweep
    <2>2. /\ target[r] = Nothing /\ ~Unmarked(r) /\ call[p].phase # "open"
      BY <1>1, <1>8, <1>12 DEF Sweep, HolderAt, Unmarked
    <2> QED
      BY <1>1, <1>5, <1>12, <2>1, <2>2, StagingStep
  <1>13. ASSUME call[p].phase \in Routing, NEW k \in KnowledgeBases, k.owner = r,
                k.ref # "later", Torn(k), SetKb(r, k), UNCHANGED <<tx, staging, target>>
         PROVE  IInv'
    <2>1. /\ staging' \in [Requests -> {"none", "bare", "owned"}]
          /\ \A s \in Requests \ {r} : staging'[s] = staging[s]
          /\ Unmarked(r) => staging'[r] = "bare"
      BY <1>13 DEF IInv, TargetTypes, Unmarked
    <2> QED
      BY <1>1, <1>5, <1>6, <1>13, <2>1, RoutingFacts, KbStep
  <1>14. ASSUME call[p].phase \in Routing
         PROVE  KbOf(r) \in KnowledgeBases /\ KbOf(r).owner = r /\ KbOf(r).ref # "later"
    BY <1>1, <1>14, RoutingFacts
  <1>15. "raw" \in Routing /\ "checkpoint" \in Routing /\ "receipt" \in Routing
    BY DEF Routing
  <1>16. CASE /\ call[p].phase = "raw" /\ SetKb(r, [KbOf(r) EXCEPT !.raw = Half])
              /\ UNCHANGED <<tx, staging, target>>
    <2>1. PICK k : k = [KbOf(r) EXCEPT !.raw = Half]
      OBVIOUS
    <2>2. k \in KnowledgeBases /\ k.owner = r /\ k.ref # "later" /\ Torn(k)
      BY <1>14, <1>15, <1>16, <2>1 DEF KnowledgeBases, Torn
    <2> QED
      BY <1>13, <1>15, <1>16, <2>1, <2>2
  <1>17. CASE /\ call[p].phase = "checkpoint"
              /\ SetKb(r, [KbOf(r) EXCEPT !.candidate = Half])
              /\ UNCHANGED <<tx, staging, target>>
    <2>1. PICK k : k = [KbOf(r) EXCEPT !.candidate = Half]
      OBVIOUS
    <2>2. k \in KnowledgeBases /\ k.owner = r /\ k.ref # "later" /\ Torn(k)
      BY <1>14, <1>15, <1>17, <2>1 DEF KnowledgeBases, Torn
    <2> QED
      BY <1>13, <1>15, <1>17, <2>1, <2>2
  <1>18. CASE /\ call[p].phase = "receipt"
              /\ SetKb(r, [KbOf(r) EXCEPT !.receipt = Half])
              /\ UNCHANGED <<tx, staging, target>>
    <2>1. PICK k : k = [KbOf(r) EXCEPT !.receipt = Half]
      OBVIOUS
    <2>2. k \in KnowledgeBases /\ k.owner = r /\ k.ref # "later" /\ Torn(k)
      BY <1>14, <1>15, <1>18, <2>1 DEF KnowledgeBases, Torn
    <2> QED
      BY <1>13, <1>15, <1>18, <2>1, <2>2
  <1>19. CASE LeaveHalf(p) /\ UNCHANGED <<staging, target>>
    BY <1>1, <1>9, <1>10, <1>11, <1>16, <1>17, <1>18, <1>19 DEF LeaveHalf
  <1>20. CASE LeaveHalf(p) /\ Sweep(p) /\ UNCHANGED target
    BY <1>1, <1>11, <1>20 DEF LeaveHalf, Sweep
  <1> QED
    BY <1>3, <1>4, <1>7, <1>12, <1>19, <1>20 DEF LeaveWork

\* The process is killed; nobody reads an answer.
LEMMA KillDecideInv ==
    ASSUME IInv, NEW p \in Procs, KillDecide(p)
    PROVE  IInv'
  <1>1. /\ call[p].phase \in Steps /\ LeaveWork(p) /\ UNCHANGED prepareVars
        /\ spent' = [spent EXCEPT !.cuts = @ + 1]
        /\ call' = [call EXCEPT ![p] = [phase |-> "idle"]]
    BY DEF KillDecide
  <1> QED
    BY <1>1, Ends, LeaveWorkInv

\* The call fails and is answered.
LEMMA FailDecideInv ==
    ASSUME IInv, NEW p \in Procs, FailDecide(p)
    PROVE  IInv'
  <1>1. /\ call[p].phase \in Steps /\ LeaveWork(p) /\ UNCHANGED prepareVars
        /\ spent' = [spent EXCEPT !.cuts = @ + 1]
        /\ \E state \in {"not", "unknown"} : Refuse(p, state, "cut")
    BY DEF FailDecide, StateOf
  <1> QED
    BY <1>1, Ends, LeaveWorkInv

\* A map is committed into a knowledge base whose decision is closed.
LEMMA CommitLaterInv ==
    ASSUME IInv, NEW n \in Names, CommitLater(n)
    PROVE  IInv'
  <1>1. PICK r : r = kb[n].owner
    OBVIOUS
  <1>2. PICK k : k = [kb[n] EXCEPT !.ref = "later"]
    OBVIOUS
  <1>3. /\ kb[n] # Nothing /\ kb[n].ref = "routed" /\ target[r] # Nothing
        /\ kb' = [kb EXCEPT ![n] = k]
        /\ UNCHANGED <<prepareVars, call, spent, tx, staging, target>>
    BY <1>1, <1>2 DEF CommitLater
  <1>4. /\ CallTypes /\ SourceTypes /\ TargetTypes /\ SourceInv /\ LockInv
        /\ NamesAreExclusive /\ KbInv(n)
    BY DEF IInv
  <1>5. kb[n] \in KnowledgeBases /\ r \in Requests
    BY <1>1, <1>3, <1>4 DEF TargetTypes, KnowledgeBases
  <1>6. /\ k \in KnowledgeBases /\ k.owner = r /\ k.files = kb[n].files
        /\ k.receipt = kb[n].receipt /\ k.ref = "later" /\ (Torn(kb[n]) => Torn(k))
        /\ k # Nothing
    BY <1>1, <1>2, <1>5, FileAssumption DEF KnowledgeBases, Torn
  <1>7. kb'[n] = k /\ \A m \in Names \ {n} : kb'[m] = kb[m]
    BY <1>3, <1>4 DEF TargetTypes
  <1>8. CallTypes' /\ SourceTypes' /\ TargetTypes' /\ SourceInv' /\ SourcesStay
    BY <1>3, <1>4, <1>6 DEF CallTypes, SourceTypes, TargetTypes, SourceInv, SourcesStay,
                            prepareVars
  <1>9. LockInv' /\ NamesAreExclusive'
    BY <1>3, <1>4, NamesStand DEF LockInv, Of
  <1>10. \A s \in Requests \ {r} : Untouched(s)
    BY <1>1, <1>3, <1>6, <1>7 DEF Untouched
  <1>11. \A s \in Requests : Stays(s)
    BY <1>1, <1>3, <1>6, <1>7 DEF Stays, Unwritten, Unmarked, Of
  <1>12. ASSUME NEW s \in Requests PROVE RequestInv(s)'
    <2>1. RequestInv(s)
      BY DEF IInv
    <2>2. CASE s # r
      BY <1>4, <1>8, <1>10, <2>1, <2>2, RequestStands
    <2>3. CASE s = r
      <3>1. NameOf(r) = n /\ target[r].name = n /\ Verified(r)
        BY <1>1, <1>3, <1>4, <2>1, <2>3 DEF KbInv, RequestInv
      <3>2. Verified(r)'
        BY <1>3, <1>6, <1>7, <3>1 DEF Verified
      <3> QED
        BY <1>3, <2>1, <2>3, <3>2 DEF RequestInv, NameOf, prepareVars
    <2> QED
      BY <2>2, <2>3
  <1>13. ASSUME NEW m \in Names PROVE KbInv(m)'
    <2>1. KbInv(m)
      BY DEF IInv
    <2>2. CASE m = n
      BY <1>1, <1>3, <1>4, <1>6, <1>7, <2>2 DEF KbInv, NameOf
    <2>3. CASE m # n
      BY <1>3, <1>7, <2>1, <2>3 DEF KbInv, NameOf
    <2> QED
      BY <2>2, <2>3
  <1>14. ASSUME NEW q \in Procs PROVE HolderInv(q)' /\ AnswerInv(q)'
    <2>1. HolderInv(q) /\ AnswerInv(q) /\ call'[q] = call[q]
      BY <1>3 DEF IInv
    <2>2. AnswerInv(q)'
      BY <1>4, <1>8, <1>11, <2>1, AnswersStand
    <2>3. CASE call[q].phase \in Steps /\ Of(q) = r
      <3>1. call[q].phase = "open"
        BY <1>3, <2>1, <2>3, HolderFacts DEF HolderInv, Of
      <3> QED
        <4>1. "open" \notin {"lock", "request", "parent", "bundle"} \cup InParent \cup Routing
          BY DEF InParent, Steps, Routing
        <4>2. HolderInv(q)'
          BY <1>3, <2>1, <3>1, <4>1 DEF HolderInv, AfterIdentity, Steps, prepareVars
        <4> QED
          BY <2>2, <4>2
    <2>4. CASE ~(call[q].phase \in Steps /\ Of(q) = r)
      <3>1. call[q].phase \in Steps => Untouched(Of(q))
        BY <1>10, <2>4, HolderFacts
      <3> QED
        BY <1>8, <2>1, <3>1, HolderStands, <2>2
    <2> QED
      BY <2>2, <2>3, <2>4
  <1> QED
    BY <1>8, <1>9, <1>12, <1>13, <1>14 DEF IInv

\* The owner of a source file writes to it.
LEMMA EditInv ==
    ASSUME IInv, NEW s \in Sources, Edit(s), UNCHANGED targetVars
    PROVE  IInv'
  <1>1. /\ UNCHANGED <<captured, source, call>> /\ SameFiles
        /\ spent' = [spent EXCEPT !.edits = @ + 1]
        /\ \E t \in Texts : text' = [text EXCEPT ![s] = t]
    BY DEF Edit, SameFiles
  <1>2. CallTypes /\ SourceTypes /\ TargetTypes /\ SourceInv /\ LockInv
        /\ NamesAreExclusive
    BY DEF IInv
  <1>3. CallTypes' /\ SourceTypes' /\ TargetTypes' /\ SourceInv' /\ SourcesStay
    BY <1>1, <1>2 DEF CallTypes, SourceTypes, TargetTypes, SourceInv, SourcesStay,
                      SameFiles, targetVars
  <1>4. LockInv' /\ NamesAreExclusive'
    BY <1>1, <1>2, NamesStand DEF LockInv, Of, SameFiles, targetVars
  <1>5. \A r \in Requests : Untouched(r)
    BY <1>1, SameFilesUntouched
  <1>6. \A r \in Requests : Stays(r)
    BY <1>1, <1>5 DEF Stays, Untouched, Unwritten, Unmarked, Of
  <1>7. \A r \in Requests : RequestInv(r)'
    BY <1>2, <1>3, <1>5, RequestStands DEF IInv
  <1>8. \A n \in Names : KbInv(n)'
    BY <1>1 DEF IInv, KbInv, NameOf, SameFiles, targetVars
  <1>9. ASSUME NEW q \in Procs PROVE HolderInv(q)' /\ AnswerInv(q)'
    <2>1. HolderInv(q) /\ AnswerInv(q) /\ call'[q] = call[q]
      BY <1>1 DEF IInv
    <2>2. call[q].phase \in Steps => Untouched(Of(q))
      BY <1>5, HolderFacts
    <2> QED
      BY <1>2, <1>3, <1>6, <2>1, <2>2, HolderStands, AnswersStand
  <1> QED
    BY <1>3, <1>4, <1>7, <1>8, <1>9 DEF IInv

-----------------------------------------------------------------------------
(* The theorems                                                            *)

\* Nothing is there at first.
LEMMA InitInv == Init => IInv
  <1> SUFFICES ASSUME Init PROVE IInv
    OBVIOUS
  <1> USE DEF Init, PrepareInit
  <1>1. \A p \in Procs : call[p] = [phase |-> "idle"]
    OBVIOUS
  <1>2. CallTypes
    BY DEF CallTypes, Calls, IdleCalls
  <1>3. SourceTypes
    BY DEF SourceTypes
  <1>4. TargetTypes
    BY DEF TargetTypes, NoTx, Transactions
  <1>5. SourceInv
    BY <1>1 DEF SourceInv
  <1>6. \A r \in Requests : RequestInv(r)
    BY DEF RequestInv, NoTx, Whole
  <1>7. \A n \in Names : KbInv(n)
    BY DEF KbInv
  <1>8. "idle" \notin InParent \cup Routing \cup Steps \cup {"lock", "told"}
    BY DEF InParent, Routing, Steps
  <1>9. \A p \in Procs : HolderInv(p)
    BY <1>1, <1>8 DEF HolderInv, AfterIdentity
  <1>10. \A p \in Procs : AnswerInv(p)
    BY <1>1 DEF AnswerInv
  <1>11. LockInv
    BY <1>1, <1>8 DEF LockInv
  <1>12. NamesAreExclusive
    BY DEF NamesAreExclusive, NoTx, Whole
  <1> QED
    BY <1>2, <1>3, <1>4, <1>5, <1>6, <1>7, <1>9, <1>10, <1>11, <1>12 DEF IInv

\* Each step of a call of target_decide keeps the invariant.
LEMMA DecideStepInv ==
    ASSUME IInv, NEW p \in Procs, DecideStep(p)
    PROVE  IInv'
  BY CallInv, AcquireRequestInv, OpenInv, WriteRequestInv, AcquireParentInv, IdentifyInv,
     BootstrapInv, MarkStagingInv, BuildRootInv, PlaceKbInv, RouteFilesInv,
     CheckpointInv, AdvanceRefInv, WriteReceiptInv, PublishTargetInv, KillDecideInv,
     FailDecideInv DEF DecideStep

\* The invariant is kept by every step.
LEMMA NextInv == IInv /\ [Next]_vars => IInv'
  <1> SUFFICES ASSUME IInv, [Next]_vars PROVE IInv'
    OBVIOUS
  <1>1. CASE UNCHANGED vars
    <2> USE <1>1 DEF vars, prepareVars, targetVars
    <2>1. CallTypes' /\ SourceTypes' /\ TargetTypes' /\ SourceInv'
      BY DEF IInv, CallTypes, SourceTypes, TargetTypes, SourceInv
    <2>2. (\A r \in Requests : RequestInv(r)') /\ (\A n \in Names : KbInv(n)')
      BY DEF IInv, RequestInv, KbInv, Verified, NameOf
    <2>3. SameFiles /\ SourcesStay /\ TargetTypes
      BY DEF SameFiles, SourcesStay, IInv
    <2>4. ASSUME NEW p \in Procs PROVE HolderInv(p)' /\ AnswerInv(p)'
      <3>1. HolderInv(p) /\ AnswerInv(p) /\ call'[p] = call[p]
        BY DEF IInv
      <3>2. (\A r \in Requests : Untouched(r)) /\ (\A r \in Requests : Stays(r))
        BY <2>3, SameFilesUntouched DEF Stays, Untouched, Unwritten, Unmarked, Of
      <3>3. call[p].phase \in Steps => Untouched(Of(p))
        BY <3>2, HolderFacts
      <3>4. HolderInv(p)'
        BY <2>3, <3>1, <3>3, HolderStands
      <3> QED
        BY <2>3, <3>1, <3>2, <3>4, AnswersStand
    <2>5. LockInv' /\ NamesAreExclusive'
      BY DEF IInv, LockInv, NamesAreExclusive, NameOf, Of
    <2> QED
      BY <2>1, <2>2, <2>4, <2>5 DEF IInv
  <1> QED
    BY <1>1, PrepareStepInv, EditInv, DecideStepInv, CommitLaterInv DEF Next

\* The invariant of sources, decisions and the calls that make them.
THEOREM Invariance == Spec => []IInv
  BY InitInv, NextInv, PTL DEF Spec

\* A caller told of a source or of a decision holds what is on disk, for good,
\* and the decision's knowledge base is its own, complete and receipted.
THEOREM SuccessStandsFirm == Spec => []SuccessStands
  <1>1. IInv => SuccessStands
    <2> SUFFICES ASSUME IInv PROVE SuccessStands
      OBVIOUS
    <2>1. PreparedSourcesStand
      BY DEF IInv, SourceInv, AnswerInv, PreparedSourcesStand
    <2>2. ASSUME NEW p \in Procs, call[p].phase = "told", call[p].state = "committed",
                 call[p].req \in Decisions
          PROVE  /\ target[Of(p)] = call[p].facts /\ Verified(Of(p))
                 /\ call[p].facts.run = source[call[p].req.source].run
      <3>1. /\ target[Of(p)] # Nothing /\ target[Of(p)] = call[p].facts
            /\ target[Of(p)].req = call[p].req
        BY <2>2 DEF IInv, AnswerInv, Of
      <3>2. Of(p) \in Requests
        BY <2>2, DecisionIds DEF Of
      <3> QED
        BY <3>1, <3>2 DEF IInv, RequestInv
    <2> QED
      BY <2>1, <2>2 DEF SuccessStands
  <1> QED
    BY <1>1, Invariance, PTL

\* No two requests of one policy are given one name.
THEOREM NamesExclusive == Spec => []NamesAreExclusive
  <1>1. IInv => NamesAreExclusive
    BY DEF IInv
  <1> QED
    BY <1>1, Invariance, PTL

\* Only damage that nobody can get past stops a decision.
THEOREM DamageBlocks == Spec => []OnlyDamageBlocks
  <1>1. IInv => OnlyDamageBlocks
    <2> SUFFICES ASSUME IInv, NEW p \in Procs, call[p].phase = "told",
                        call[p].why = "blocked", call[p].req \in Decisions
                 PROVE  Damaged(call[p].req)
      BY DEF OnlyDamageBlocks
    <2>1. Lasting(call[p].req)
      BY DEF IInv, AnswerInv
    <2> QED
      BY <2>1 DEF Lasting, Damaged, Unwritten, Unmarked, Torn
  <1> QED
    BY <1>1, Invariance, PTL

-----------------------------------------------------------------------------
(* What a refusal says of the decision                                     *)

\* A call that says not-committed has found no knowledge base of its own.
LEMMA SaysNot ==
    ASSUME IInv, NEW p \in Procs, call[p].phase \in InParent, StateOf(p) = "not"
    PROVE  Kbless(Of(p))
  <1>1. Of(p) \in Requests /\ HolderInv(p)
    BY HolderFacts DEF InParent
  <1>2. CASE call[p].phase = "identity"
    <2>1. ~(Whole(tx[Of(p)].identity) /\ FoundPublished(Of(p)))
      BY <1>2 DEF StateOf
    <2>2. \/ ~Whole(tx[Of(p)].identity) \/ NameOf(Of(p)) \notin Names
          \/ KbOf(Of(p)) = Nothing
      BY <2>1, DecisionAssumption DEF FoundPublished, Names, Unnamed
    <2> QED
      BY <1>1, <2>2, KblessRequest
  <1>3. CASE call[p].phase # "identity"
    <2>1. ~call[p].published
      BY DEF StateOf
    <2> QED
      BY <1>1, <1>3, <2>1 DEF HolderInv, AfterIdentity, Of
  <1> QED
    BY <1>2, <1>3

\* Neither a knowledge base nor a bundle stands, and a step that makes none leaves none.
LEMMA LeavesNothing ==
    ASSUME IInv, NEW p \in Procs, call[p].phase \in InParent, Kbless(Of(p)),
           NEW state, NEW why, Refuse(p, state, why)
    PROVE  /\ ~Left(call[p].req)
           /\ UNCHANGED <<kb, target>> => ~Left(call[p].req)'
  <1>1. target[Of(p)] = Nothing
    BY HolderFacts DEF HolderInv, InParent, Of, Steps
  <1>2. call'[p].req = call[p].req
    BY DEF Refuse, Answer, Told, IInv, CallTypes
  <1> QED
    BY <1>1, <1>2 DEF Left, Kbless, Of

\* What target_decide says of a request whose name it cannot have.
LEMMA IdentifySaysTrue ==
    ASSUME IInv, NEW p \in Procs, Identify(p), call'[p].phase = "told",
           call'[p].state = "not"
    PROVE  ~Left(call[p].req) /\ ~Left(call[p].req)'
  <1>1. PICK r : r = Of(p)
    OBVIOUS
  <1>2. /\ call[p].phase \in InParent /\ r \in Requests /\ UNCHANGED <<kb, target>>
        /\ call[p].phase = "identity"
    BY <1>1, HolderFacts DEF Identify, InParent, Steps, Only
  <1>3. ASSUME NEW why, Refuse(p, "unknown", why) PROVE FALSE
    BY <1>3 DEF Refuse, Answer, Told, IInv, CallTypes
  <1>4. ASSUME NEW n, Freeze(p, n) PROVE FALSE
    <2>1. call'[p].phase \in {"bootstrap", "bundle"}
      BY <1>4 DEF Freeze, Goto, IInv, CallTypes
    <2> QED
      BY <2>1
  <1>5. CASE tx[r].identity = Nothing /\ Refuse(p, "not", "name")
    <2>1. Kbless(r)
      BY <1>2, <1>5, KblessRequest DEF Whole
    <2> QED
      BY <1>1, <1>2, <1>5, <2>1, LeavesNothing
  <1>6. CASE Resume(p)
    <2>1. ASSUME call' = [call EXCEPT ![p].published = FoundPublished(r),
                               ![p].phase = IF New(call[p].req) THEN "bootstrap"
                                            ELSE "bundle"]
          PROVE  FALSE
      <3>1. call[p] \in DecideCalls
        BY <1>2, HolderFacts DEF InParent
      <3>2. call'[p].phase = IF New(call[p].req) THEN "bootstrap" ELSE "bundle"
        BY <2>1, <3>1 DEF IInv, CallTypes, DecideCalls
      <3> QED
        BY <3>2
    <2>2. Refuse(p, StateOf(p), "name")
      BY <1>1, <1>6, <2>1 DEF Resume
    <2>3. StateOf(p) = "not"
      BY <2>2 DEF Refuse, Answer, Told, IInv, CallTypes
    <2>4. Kbless(Of(p))
      BY <1>2, <2>3, SaysNot
    <2> QED
      BY <1>2, <2>2, <2>4, LeavesNothing
  <1> QED
    BY <1>1, <1>3, <1>4, <1>5, <1>6 DEF Identify

\* What _bootstrap_kb says before there is a knowledge base.
LEMMA BootstrapSaysTrue ==
    ASSUME IInv, NEW p \in Procs, Bootstrap(p), call'[p].phase = "told",
           call'[p].state = "not"
    PROVE  ~Left(call[p].req) /\ ~Left(call[p].req)'
  <1>1. PICK r : r = Of(p)
    OBVIOUS
  <1>2. /\ call[p].phase \in InParent /\ r \in Requests /\ UNCHANGED <<kb, target>>
        /\ call[p].phase = "bootstrap" /\ call[p] \in DecideCalls
    BY <1>1, HolderFacts DEF Bootstrap, InParent, Steps, Only
  <1>3. CASE call' = [call EXCEPT ![p].phase = "raw", ![p].published = TRUE]
    BY <1>2, <1>3 DEF IInv, CallTypes, DecideCalls
  <1>4. CASE Goto(p, "mark") \/ UNCHANGED call \/ Refuse(p, "unknown", "blocked")
    BY <1>2, <1>4 DEF Goto, Refuse, Answer, Told, IInv, CallTypes, DecideCalls
  <1>5. CASE Refuse(p, StateOf(p), "blocked")
    <2>1. StateOf(p) = "not"
      BY <1>5 DEF Refuse, Answer, Told, IInv, CallTypes
    <2> QED
      BY <1>2, <1>5, <2>1, SaysNot, LeavesNothing
  <1>6. CASE KbOf(r) = Nothing /\ \E state \in {"not", "unknown"} : Refuse(p, state, "blocked")
    <2>1. Kbless(r)
      BY <1>2, <1>6, KblessRequest
    <2> QED
      BY <1>1, <1>2, <1>6, <2>1, LeavesNothing
  <1> QED
    BY <1>1, <1>3, <1>4, <1>5, <1>6 DEF Bootstrap

\* The steps before the parent's lock are not of a call that holds it.
LEMMA BeforeParent ==
    ASSUME NEW p \in Procs, call[p].phase \in InParent
    PROVE  /\ \A d \in Decisions : ~CallDecide(p, d)
           /\ \A r \in Requests : ~InspectTarget(p, r)
           /\ ~AcquireRequest(p) /\ ~Open(p) /\ ~WriteRequest(p) /\ ~AcquireParent(p)
           /\ ~PrepareStep(p)
  <1>1. call[p].phase \notin {"idle", "told", "lock", "open", "request", "parent"}
    BY DEF InParent, Steps
  <1>2. call[p].phase \notin PrepareSteps
    BY DEF InParent, Steps, PrepareSteps
  <1>3. ~PrepareStep(p)
    BY <1>1, <1>2 DEF PrepareStep, CallPrepare, InspectSource, ShowEvidence, Read, Begin, Idle,
          Look, Preflight, CaptureFile, Postflight, PublishSource, CutPrepare, PrepareSteps
  <1> QED
    BY <1>1, <1>3 DEF CallDecide, InspectTarget, AcquireRequest, Open, WriteRequest,
                      AcquireParent, Idle

\* The other steps of a call that holds the parent say unknown or success.
LEMMA OtherSaysTrue ==
    ASSUME IInv, NEW p \in Procs, call[p].phase \in InParent,
           call'[p].phase = "told", call'[p].state = "not"
    PROVE  /\ ~MarkStaging(p) /\ ~BuildRoot(p) /\ ~PlaceKb(p) /\ ~RouteFiles(p)
           /\ ~Checkpoint(p) /\ ~AdvanceRef(p) /\ ~WriteReceipt(p)
           /\ ~PublishTarget(p) /\ ~KillDecide(p)
  <1>1. call[p] \in DecideCalls /\ call[p].phase # "told"
    BY HolderFacts DEF InParent, Steps
  <1>2. ASSUME NEW phase, Goto(p, phase) PROVE phase = "told"
    BY <1>1, <1>2 DEF Goto, IInv, CallTypes, DecideCalls
  <1>3. ASSUME NEW state, NEW why, NEW facts, Answer(p, state, why, facts)
        PROVE  state = "not"
    BY <1>3 DEF Answer, Told, IInv, CallTypes
  <1>4. call' # call
    BY <1>1
  <1>5. ~MarkStaging(p) /\ ~BuildRoot(p) /\ ~AdvanceRef(p)
    BY <1>2 DEF MarkStaging, BuildRoot, AdvanceRef
  <1>6. ~PlaceKb(p) /\ ~KillDecide(p)
    BY <1>1 DEF PlaceKb, KillDecide, IInv, CallTypes, DecideCalls
  <1>7. ~RouteFiles(p)
    BY <1>2, <1>3, <1>4 DEF RouteFiles, Refuse
  <1>8. ~Checkpoint(p)
    BY <1>2, <1>3, <1>4 DEF Checkpoint, Refuse
  <1>9. ~WriteReceipt(p)
    BY <1>2, <1>3 DEF WriteReceipt, Refuse
  <1>10. ~PublishTarget(p)
    BY <1>3 DEF PublishTarget, Succeed
  <1> QED
    BY <1>5, <1>6, <1>7, <1>8, <1>9, <1>10

\* A step of one call is no answer to another.
LEMMA StepOfOne ==
    ASSUME CallTypes, NEW q \in Procs, DecideStep(q) \/ PrepareStep(q), NEW p \in Procs, p # q
    PROVE  call'[p] = call[p]
  <1>1. CASE PrepareStep(q)
    BY <1>1 DEF CallTypes, PrepareStep, CallPrepare, InspectSource, ShowEvidence, Read, Begin, Look,
          Preflight, CaptureFile, Postflight, PublishSource, CutPrepare, Goto, Succeed,
          Refuse, Answer
  <1>2. CASE (\E d \in Decisions : CallDecide(q, d)) \/ (\E r \in Requests : InspectTarget(q, r))
    BY <1>2 DEF CallTypes, CallDecide, InspectTarget
  <1>3. CASE AcquireRequest(q) \/ Open(q) \/ WriteRequest(q) \/ AcquireParent(q)
    BY <1>3 DEF CallTypes, AcquireRequest, Open, LoadBundle, WriteRequest, AcquireParent, Goto,
          Succeed, Refuse, Answer
  <1>4. CASE Identify(q) \/ Bootstrap(q) \/ MarkStaging(q) \/ BuildRoot(q) \/ PlaceKb(q)
    BY <1>4 DEF CallTypes, Identify, Resume, Freeze, Bootstrap, MarkStaging, BuildRoot, PlaceKb,
          Goto, Refuse, Answer
  <1>5. CASE \/ RouteFiles(q) \/ Checkpoint(q) \/ AdvanceRef(q) \/ WriteReceipt(q)
             \/ PublishTarget(q) \/ KillDecide(q) \/ FailDecide(q)
    BY <1>5 DEF CallTypes, RouteFiles, Checkpoint, AdvanceRef, WriteReceipt, PublishTarget,
          KillDecide, FailDecide, Goto, Succeed, Refuse, Answer
  <1> QED
    BY <1>1, <1>2, <1>3, <1>4, <1>5 DEF DecideStep

\* What a call says that is cut short after it has read the identity.
LEMMA FailureSaysTrue ==
    ASSUME IInv, NEW p \in Procs, FailDecide(p), call[p].phase \in InParent \ {"identity"},
           call'[p].state = "not"
    PROVE  /\ ~Left(call[p].req)
           /\ Left(call[p].req)' => call[p].phase \in {"place", "bundle"}
  <1>1. PICK state \in {StateOf(p), "unknown"} : Refuse(p, state, "cut")
    BY DEF FailDecide
  <1>2. StateOf(p) = "not"
    BY <1>1 DEF Refuse, Answer, Told, IInv, CallTypes
  <1>3. Kbless(Of(p))
    BY <1>2, SaysNot
  <1>4. call[p].phase \notin Routing
    BY <1>2, RoutingFacts DEF StateOf
  <1>5. call[p].phase \notin {"place", "bundle"} => UNCHANGED <<kb, target>>
    BY <1>4 DEF FailDecide, LeaveWork, LeaveHalf, Routing
  <1> QED
    BY <1>1, <1>3, <1>5, LeavesNothing

\* A call that holds the parent and has looked for what stands says not-committed
\* (saved: false) only where nothing stood; what stands afterwards is the step's
\* own rename.
THEOREM StandingNotDenied == Spec => NothingStandingIsDenied
  <1>1. IInv /\ [Next]_vars =>
           [\A p \in Procs :
               /\ call[p].phase \in InParent
               /\ call'[p].phase = "told" /\ call'[p].state = "not"
               /\ ~(call[p].phase = "identity" /\ call'[p].why = "cut")
               => /\ ~Left(call[p].req)
                  /\ Left(call[p].req)' => call[p].phase \in {"place", "bundle"}]_vars
    <2> SUFFICES ASSUME IInv, Next, NEW p \in Procs, call[p].phase \in InParent,
                        call'[p].phase = "told", call'[p].state = "not",
                        ~(call[p].phase = "identity" /\ call'[p].why = "cut")
                 PROVE  /\ ~Left(call[p].req)
                        /\ Left(call[p].req)' => call[p].phase \in {"place", "bundle"}
      OBVIOUS
    <2>1. call' # call /\ call'[p] # call[p]
      BY DEF InParent, Steps
    <2>2. CASE DecideStep(p)
      <3>1. CASE Identify(p) \/ Bootstrap(p)
        BY <3>1, IdentifySaysTrue, BootstrapSaysTrue
      <3>2. CASE FailDecide(p)
        <4>1. call'[p].why = "cut"
          BY <3>2 DEF FailDecide, Refuse, Answer, Told, IInv, CallTypes
        <4> QED
          BY <3>2, <4>1, FailureSaysTrue
      <3> QED
        BY <2>2, <3>1, <3>2, BeforeParent, OtherSaysTrue DEF DecideStep
    <2>3. ~PrepareStep(p)
      BY BeforeParent
    <2>4. \A q \in Procs : DecideStep(q) \/ PrepareStep(q) => q = p
      BY <2>1, StepOfOne DEF IInv
    <2>5. \A s \in Sources : ~Edit(s)
      BY <2>1 DEF Edit
    <2>6. \A n \in Names : ~CommitLater(n)
      BY <2>1 DEF CommitLater
    <2> QED
      BY <2>2, <2>3, <2>4, <2>5, <2>6 DEF Next
  <1> QED
    BY <1>1, Invariance, PTL DEF Spec, NothingStandingIsDenied
=============================================================================
