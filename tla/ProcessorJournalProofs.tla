----------------------- MODULE ProcessorJournalProofs -----------------------
(***************************************************************************)
(* Proofs about ProcessorJournal, for any processes, jobs, limits, plans   *)
(* and usages, and any bounds.                                             *)
(***************************************************************************)
EXTENDS ProcessorJournal, FiniteSetTheorems, TLAPS

(* Types                                                                   *)

Working == Steps \cup {"lock"}

Idles == [phase : {"idle"}]
Tolds == [phase : {"told"}, ask : Asks,
          why : {"prior", "busy", "conflict", "blocked", "budget", "failed", "ok"}]
Works == [phase : Working, ask : Asks, ledger : Ledgers, unit : UnitIds,
          attempt : Attempts, outcome : Outcomes \cup {Nothing}]

TypeOK ==
    /\ request \in [Jobs -> Requests \cup {Nothing, Half}]
    /\ reserved \in [Jobs -> [Slots -> Ledgers \cup {Nothing, Half}]]
    /\ result \in [Jobs -> [Slots -> Results \cup {Nothing, Half}]]
    /\ unit \in [Jobs -> [UnitIds -> Ledgers \cup {Nothing, Half}]]
    /\ done \in [Jobs -> Dones \cup {Nothing}]
    /\ call \in [Procs -> Idles \cup Tolds \cup Works]
    /\ sent \in [Jobs -> [Slots -> Nat]]
    /\ bill \in [Jobs -> Nat]

-----------------------------------------------------------------------------
(* What the files of a job say of each other                               *)

Success(j, u, a) ==
    result[j][<<u, a>>] \in Results /\ result[j][<<u, a>>].outcome.status = "succeeded"

Again(j, u, a) ==
    /\ result[j][<<u, a>>] \in Results
    /\ result[j][<<u, a>>].outcome.status # "succeeded"
    /\ result[j][<<u, a>>].outcome.retry

\* Attempt a of unit u of job j is the next one, or was once: the units before
\* are made and its attempts before are worth another.
Reached(j, u, a) ==
    /\ request[j] \in Requests
    /\ \A v \in UnitIds : v < u => unit[j][v] \in Ledgers
    /\ \A b \in Attempts : b < a => Again(j, u, b)

\* The ledger that the attempt starts from, as the files have it.
Before(j, u, a) ==
    IF a > 1 THEN result[j][<<u, a - 1>>].ledger
    ELSE IF u > 1 THEN unit[j][u - 1]
    ELSE request[j].ledger

Reservations(j) ==
    \A u \in UnitIds, a \in Attempts :
        /\ reserved[j][<<u, a>>] # Nothing => Reached(j, u, a)
        /\ reserved[j][<<u, a>>] \in Ledgers =>
               reserved[j][<<u, a>>] = Reserve(Before(j, u, a), a)

Outcoming(j) ==
    \A u \in UnitIds, a \in Attempts :
        /\ result[j][<<u, a>>] # Nothing => reserved[j][<<u, a>>] \in Ledgers
        /\ result[j][<<u, a>>] \in Results =>
               result[j][<<u, a>>].ledger =
                   Charge(reserved[j][<<u, a>>], result[j][<<u, a>>].outcome)

\* A unit's record is the ledger after the attempt that succeeded.
UnitRecords(j) ==
    \A u \in UnitIds :
        unit[j][u] # Nothing =>
            \E a \in Attempts :
                /\ Success(j, u, a)
                /\ unit[j][u] \in Ledgers => unit[j][u] = result[j][<<u, a>>].ledger

Published(j) ==
    done[j] # Nothing =>
        /\ request[j] \in Requests
        /\ unit[j][UnitsOf[j]] \in Ledgers
        /\ done[j] = [limit |-> request[j].ask.limit,
                      ledger |-> unit[j][UnitsOf[j]]]

\* What was not reserved was not sent, and nothing was sent twice.
Sendings(j) ==
    \A u \in UnitIds, a \in Attempts :
        /\ reserved[j][<<u, a>>] = Nothing => sent[j][<<u, a>>] = 0
        /\ sent[j][<<u, a>>] <= 1

JobInv(j) ==
    Reservations(j) /\ Outcoming(j) /\ UnitRecords(j) /\ Published(j) /\ Sendings(j)

-----------------------------------------------------------------------------
(* What a running call knows                                               *)

\* p works at attempt a of unit u of job j and has its lock.
At(p, j, u, a) ==
    /\ call[p].phase \in Steps /\ JobOf(p) = j
    /\ call[p].unit = u /\ call[p].attempt = a

\* What p has in memory is what the files say, and what p is about to write
\* is not there yet.
Replays(p, j, u, a) ==
    LET c == call[p]
        s == <<u, a>>
    IN  /\ u <= UnitsOf[j]
        /\ c.phase # "request" => request[j] \in Requests /\ request[j].ask = c.ask
        /\ c.phase \notin {"request", "publish"} => Reached(j, u, a)
        /\ c.phase = "attempt" => c.ledger = Before(j, u, a)
        /\ c.phase \in {"send", "wait", "record"} => result[j][s] = Nothing
        /\ c.phase \in {"send", "wait", "load"} => reserved[j][s] = c.ledger
        /\ c.phase = "send" => sent[j][s] = 0
        /\ c.phase = "wait" => c.outcome \in Outcomes /\ c.outcome.usage \in Usages
        /\ c.phase = "record" => /\ c.outcome \in Outcomes
                                 /\ reserved[j][s] \in Ledgers
                                 /\ c.ledger = Charge(reserved[j][s], c.outcome)
        /\ c.phase = "load" => result[j][s] # Nothing
        /\ c.phase = "unit" => Success(j, u, a) /\ c.ledger = result[j][s].ledger
        /\ c.phase = "publish" => u = UnitsOf[j] /\ c.ledger = unit[j][u]

CallInv(p) ==
    /\ call[p].phase = "told" /\ call[p].why = "blocked" =>
           \A j \in Jobs : JobOf(p) = j => Torn(j)
    /\ call[p].phase \in {"lock", "request"} =>
           call[p].unit = 1 /\ call[p].attempt = 1
    /\ \A j \in Jobs, u \in UnitIds, a \in Attempts :
           At(p, j, u, a) => Replays(p, j, u, a)

\* The job's lock.
OneAtATime ==
    \A p, q \in Procs : \A j \in Jobs : Holds(p, j) /\ Holds(q, j) => p = q

IInv ==
    /\ TypeOK
    /\ OneAtATime
    /\ \A j \in Jobs : JobInv(j)
    /\ \A p \in Procs : CallInv(p)

-----------------------------------------------------------------------------
(* Types                                                                   *)

\* A file that is there and whole is neither of the two others.
LEMMA Wholes ==
  /\ Nothing \notin Ledgers /\ Half \notin Ledgers
  /\ Nothing \notin Requests /\ Half \notin Requests
  /\ Nothing \notin Results /\ Half \notin Results
  /\ Nothing \notin Dones /\ Half \notin Dones
  /\ Nothing \notin Jobs /\ Nothing # Half
  BY JournalAssumption

\* A call that works has all its fields; its slot is one of its job.
LEMMA WorkTypes ==
  ASSUME TypeOK, NEW p \in Procs, call[p].phase \in Working
  PROVE  /\ call[p] \in Works
         /\ call[p].ask \in Asks /\ JobOf(p) \in Jobs
         /\ call[p].unit \in UnitIds /\ call[p].attempt \in Attempts
         /\ SlotOf(p) \in Slots /\ call[p].ledger \in Ledgers
         /\ call[p].outcome \in Outcomes \cup {Nothing}
  <1>1. call[p] \in Idles \cup Tolds \cup Works
    BY DEF TypeOK
  <1>2. call[p].phase # "idle" /\ call[p].phase # "told"
    BY DEF Working, Steps
  <1>3. call[p] \in Works
    BY <1>1, <1>2 DEF Idles, Tolds
  <1> QED BY <1>3 DEF Works, JobOf, SlotOf, Slots, Jobs

\* The units of a job are numbered from 1.
LEMMA UnitTypes ==
  /\ UnitIds \subseteq Nat \ {0}
  /\ \A j \in Jobs : UnitsOf[j] \in UnitIds /\ UnitsOf[j] \in Nat \ {0}
  /\ \A j \in Jobs : \A u \in UnitIds : u < UnitsOf[j] => u + 1 \in UnitIds
  /\ \A j \in Jobs : 1 \in UnitIds
  BY JournalAssumption DEF UnitIds

\* Ledgers stay ledgers.
LEMMA LedgerTypes ==
  ASSUME NEW ledger \in Ledgers
  PROVE  /\ \A a \in Attempts : Reserve(ledger, a) \in Ledgers
         /\ \A outcome \in Outcomes : Charge(ledger, outcome) \in Ledgers
         /\ Interrupted \in Outcomes
  <1>1. ASSUME NEW a \in Attempts
        PROVE  Reserve(ledger, a) \in Ledgers
    <2>1. /\ (IF a = 1 THEN 1 ELSE 0) \in Nat
          /\ ledger.units \in Nat /\ ledger.attempts \in Nat
      BY DEF Ledgers
    <2>2. /\ ledger.units + (IF a = 1 THEN 1 ELSE 0) \in Nat
          /\ ledger.attempts + 1 \in Nat
      BY <2>1
    <2> QED BY <2>2 DEF Reserve, Ledgers
  <1>2. ASSUME NEW outcome \in Outcomes
        PROVE  Charge(ledger, outcome) \in Ledgers
    <2>1. outcome.usage # Nothing => outcome.usage \in Nat
      BY JournalAssumption DEF Outcomes
    <2>2. Plan \in Nat
      BY JournalAssumption
    <2> QED BY <2>1, <2>2 DEF Charge, Ledgers
  <1>3. Interrupted \in Outcomes
    BY DEF Interrupted, Outcomes
  <1> QED BY <1>1, <1>2, <1>3

-----------------------------------------------------------------------------
(* Steps of the holder of a job                                            *)

FilesStand(j) ==
    /\ request'[j] = request[j] /\ reserved'[j] = reserved[j]
    /\ result'[j] = result[j] /\ unit'[j] = unit[j] /\ done'[j] = done[j]

\* p moves; the other calls and the files of the other jobs stay.
Frame(p, j) ==
    /\ \A q \in Procs \ {p} : call'[q] = call[q]
    /\ \A i \in Jobs \ {j} : FilesStand(i) /\ sent'[i] = sent[i]
    /\ call'[p].phase \in Steps => call'[p].ask.job = j
    /\ Torn(j) => Torn(j)'

\* The files of a job that nobody touches agree as they did.
LEMMA JobStands ==
  ASSUME NEW j \in Jobs, JobInv(j), FilesStand(j), sent'[j] = sent[j]
  PROVE  JobInv(j)'
  <1>1. Reservations(j)'
    <2>1. ASSUME NEW u \in UnitIds, NEW a \in Attempts
          PROVE  /\ Reached(j, u, a)' = Reached(j, u, a)
                 /\ Before(j, u, a)' = Before(j, u, a)
      BY DEF FilesStand, Reached, Before, Again
    <2> QED BY <2>1 DEF JobInv, FilesStand, Reservations
  <1>2. Outcoming(j)' /\ UnitRecords(j)'
    BY DEF JobInv, FilesStand, Outcoming, UnitRecords, Success
  <1>3. Published(j)' /\ Sendings(j)'
    BY DEF JobInv, FilesStand, Published, Sendings
  <1> QED BY <1>1, <1>2, <1>3 DEF JobInv

\* What a call knows stays true as long as it and its job stand.
LEMMA CallStands ==
  ASSUME NEW q \in Procs, NEW j \in Jobs, NEW u, NEW a, Replays(q, j, u, a),
         call'[q] = call[q], FilesStand(j), sent'[j] = sent[j]
  PROVE  Replays(q, j, u, a)'
  <1>1. Reached(j, u, a)' = Reached(j, u, a)
    BY DEF FilesStand, Reached, Again
  <1>2. Before(j, u, a)' = Before(j, u, a)
    BY DEF FilesStand, Before
  <1>3. Success(j, u, a)' = Success(j, u, a)
    BY DEF FilesStand, Success
  <1> QED BY <1>1, <1>2, <1>3 DEF Replays, FilesStand

\* A step of the lock's holder is safe if it is safe for the job and himself.
LEMMA HolderStep ==
  ASSUME IInv, TypeOK', NEW p \in Procs, NEW j \in Jobs, Holds(p, j),
         Frame(p, j), JobInv(j)', CallInv(p)'
  PROVE  IInv'
  <1>1. OneAtATime'
    BY DEF IInv, OneAtATime, Holds, JobOf, Frame
  <1>2. ASSUME NEW i \in Jobs
        PROVE  JobInv(i)'
    BY JobStands DEF IInv, Frame
  <1>3. ASSUME NEW q \in Procs
        PROVE  CallInv(q)'
    <2>1. CASE q = p
      BY <2>1
    <2>2. CASE q # p
      <3>1. call'[q] = call[q] /\ CallInv(q)
        BY <2>2 DEF Frame, IInv
      <3>2. ASSUME NEW i \in Jobs, call[q].phase = "told", call[q].why = "blocked",
                   call[q].ask.job = i
            PROVE  Torn(i)'
        <4>1. Torn(i)
          BY <3>1, <3>2 DEF CallInv, JobOf
        <4>2. CASE i = j
          BY <4>1, <4>2 DEF Frame
        <4>3. CASE i # j
          BY <4>1, <4>3 DEF Frame, FilesStand, Torn
        <4> QED BY <4>2, <4>3
      <3>3. ASSUME NEW i \in Jobs, NEW u \in UnitIds, NEW a \in Attempts,
                   At(q, i, u, a)'
            PROVE  Replays(q, i, u, a)'
        <4>1. At(q, i, u, a)
          BY <3>1, <3>3 DEF At, JobOf
        <4>2. i # j
          BY <2>2, <4>1 DEF At, Holds, IInv, OneAtATime
        <4> QED BY <3>1, <4>1, <4>2, CallStands DEF CallInv, Frame
      <3>4. call[q].phase \in {"lock", "request"} =>
                call[q].unit = 1 /\ call[q].attempt = 1
        BY <3>1 DEF CallInv
      <3> QED BY <3>1, <3>2, <3>3, <3>4 DEF CallInv, JobOf
    <2> QED BY <2>1, <2>2
  <1> QED BY <1>1, <1>2, <1>3 DEF IInv

\* A step that touches no file is safe if the caller knows the truth after it.
LEMMA QuietStep ==
  ASSUME IInv, TypeOK', NEW p \in Procs, OneAtATime', CallInv(p)',
         \A q \in Procs \ {p} : call'[q] = call[q],
         \A j \in Jobs : FilesStand(j) /\ sent'[j] = sent[j]
  PROVE  IInv'
  <1>1. ASSUME NEW i \in Jobs
        PROVE  JobInv(i)'
    BY JobStands DEF IInv
  <1>2. ASSUME NEW q \in Procs \ {p}
        PROVE  CallInv(q)'
    <2>1. call'[q] = call[q] /\ CallInv(q)
      BY DEF IInv
    <2>2. ASSUME NEW i \in Jobs, call[q].phase = "told", call[q].why = "blocked",
                 call[q].ask.job = i
          PROVE  Torn(i)'
      <3>1. Torn(i)
        BY <2>1, <2>2 DEF CallInv, JobOf
      <3> QED BY <3>1 DEF Torn, FilesStand
    <2>3. ASSUME NEW i \in Jobs, NEW u \in UnitIds, NEW a \in Attempts,
                 At(q, i, u, a)'
          PROVE  Replays(q, i, u, a)'
      <3>1. At(q, i, u, a)
        BY <2>1, <2>3 DEF At, JobOf
      <3> QED BY <2>1, <3>1, CallStands DEF CallInv
    <2> QED BY <2>1, <2>2, <2>3 DEF CallInv, JobOf
  <1> QED BY <1>1, <1>2 DEF IInv

\* A call that is told anything but "blocked" has nothing to know any more.
LEMMA Told ==
  ASSUME TypeOK, NEW p \in Procs, NEW why, Answer(p, why), why # "blocked"
  PROVE  CallInv(p)' /\ call'[p].phase = "told"
  BY DEF TypeOK, Answer, CallInv, At, Steps

\* Types of an answer.
LEMMA AnswerTypes ==
  ASSUME TypeOK, NEW p \in Procs, call[p].phase \in Working,
         NEW why \in {"prior", "busy", "conflict", "blocked", "budget", "failed", "ok"},
         Answer(p, why)
  PROVE  /\ call' \in [Procs -> Idles \cup Tolds \cup Works]
         /\ \A q \in Procs \ {p} : call'[q] = call[q]
         /\ call'[p] = [phase |-> "told", ask |-> call[p].ask, why |-> why]
  BY WorkTypes DEF TypeOK, Answer, Tolds

\* What is known of a call that holds its job's lock, at attempt a of unit u.
Holding(p, j, u, a) ==
    /\ At(p, j, u, a) /\ SlotOf(p) = <<u, a>> /\ <<u, a>> \in Slots
    /\ JobOf(p) = j /\ call[p].unit = u /\ call[p].attempt = a
    /\ Holds(p, j) /\ Replays(p, j, u, a) /\ JobInv(j) /\ TypeOK
    /\ call[p] \in Works /\ call[p].ledger \in Ledgers
    /\ call[p].ask.job = j /\ call[p].ask \in Asks
    /\ call[p].phase \in Steps /\ call[p].phase \in Working

\* A call at work is at some attempt of some unit of its job, and holds it.
LEMMA HolderAt ==
  ASSUME IInv, NEW p \in Procs, call[p].phase \in Steps
  PROVE  \E j \in Jobs, u \in UnitIds, a \in Attempts : Holding(p, j, u, a)
  <1>1. /\ call[p] \in Works /\ call[p].ask \in Asks /\ JobOf(p) \in Jobs
        /\ call[p].unit \in UnitIds /\ call[p].attempt \in Attempts
        /\ SlotOf(p) \in Slots /\ call[p].ledger \in Ledgers
    BY WorkTypes DEF IInv, Working
  <1>2. At(p, JobOf(p), call[p].unit, call[p].attempt)
    BY DEF At
  <1>3. PICK j \in Jobs, u \in UnitIds, a \in Attempts :
           /\ j = JobOf(p) /\ u = call[p].unit /\ a = call[p].attempt
           /\ At(p, j, u, a)
    BY <1>1, <1>2
  <1>4. Replays(p, j, u, a) /\ JobInv(j) /\ Holds(p, j)
    BY <1>3 DEF IInv, CallInv, Holds
  <1>5. SlotOf(p) = <<u, a>> /\ call[p].ask.job = j
    BY <1>3 DEF SlotOf, JobOf
  <1>6. TypeOK /\ call[p].phase \in Working
    BY DEF IInv, Working
  <1> QED BY <1>1, <1>3, <1>4, <1>5, <1>6 DEF Holding

\* A step that touches no file and leaves the job to its holder.
LEMMA QuietHolder ==
  ASSUME IInv, TypeOK', NEW p \in Procs, NEW j \in Jobs, Holds(p, j), CallInv(p)',
         call'[p].phase \in Steps => call'[p].ask.job = j,
         \A q \in Procs \ {p} : call'[q] = call[q],
         \A i \in Jobs : FilesStand(i) /\ sent'[i] = sent[i]
  PROVE  IInv'
  <1>1. OneAtATime'
    BY DEF IInv, OneAtATime, Holds, JobOf
  <1> QED BY <1>1, QuietStep

-----------------------------------------------------------------------------
(* The actions: taking up a job                                            *)

\* A new call holds nothing yet.
LEMMA CallKeeps ==
  ASSUME IInv, NEW p \in Procs, NEW ask \in Asks, Call(p, ask)
  PROVE  IInv'
  <1> DEFINE started == [phase |-> "lock", ask |-> ask, ledger |-> Carried(ask),
                         unit |-> 1, attempt |-> 1, outcome |-> Nothing]
             refused == [phase |-> "told", ask |-> ask, why |-> "prior"]
  <1>1. /\ call' = [call EXCEPT ![p] = IF PriorStands(ask) THEN started ELSE refused]
        /\ UNCHANGED <<files, seen>>
    BY DEF Call
  <1>2. PriorStands(ask) => started \in Works
    <2>1. ASSUME PriorStands(ask)
          PROVE  Carried(ask) \in Ledgers
      <3>1. Empty \in Ledgers
        BY DEF Empty, Ledgers
      <3>2. ASSUME ask.prior # Nothing
            PROVE  done[ask.prior].ledger \in Ledgers
        <4>1. ask.prior \in Jobs /\ done[ask.prior] # Nothing
          BY <2>1, <3>2, JournalAssumption DEF PriorStands
        <4> QED BY <4>1 DEF IInv, TypeOK, Dones
      <3> QED BY <3>1, <3>2 DEF Carried
    <2>2. 1 \in UnitIds
      BY UnitTypes DEF Jobs
    <2> QED BY <2>1, <2>2 DEF Works, Working, Attempts
  <1>3. refused \in Tolds
    BY DEF Tolds
  <1>4. /\ call' \in [Procs -> Idles \cup Tolds \cup Works]
        /\ \A q \in Procs \ {p} : call'[q] = call[q]
        /\ call'[p] = IF PriorStands(ask) THEN started ELSE refused
    <2> HIDE DEF started, refused
    <2> QED BY <1>1, <1>2, <1>3 DEF IInv, TypeOK
  <1>5. TypeOK' /\ \A i \in Jobs : FilesStand(i) /\ sent'[i] = sent[i]
    BY <1>1, <1>4 DEF IInv, TypeOK, files, seen, FilesStand
  <1>6. /\ call'[p].phase \notin Steps
        /\ call'[p].phase = "told" => call'[p].why = "prior"
        /\ call'[p].phase = "lock" => call'[p].unit = 1 /\ call'[p].attempt = 1
        /\ call'[p].phase \in {"told", "lock"}
    BY <1>4 DEF Steps
  <1>7. OneAtATime'
    BY <1>4, <1>6 DEF IInv, OneAtATime, Holds, JobOf
  <1>8. CallInv(p)'
    BY <1>6 DEF CallInv, At
  <1> QED BY <1>4, <1>5, <1>7, <1>8, QuietStep

\* A phase that changes alone.
LEMMA GotoTypes ==
  ASSUME TypeOK, NEW p \in Procs, call[p].phase \in Working,
         NEW phase \in Working, Goto(p, phase)
  PROVE  /\ call' \in [Procs -> Idles \cup Tolds \cup Works]
         /\ \A q \in Procs \ {p} : call'[q] = call[q]
         /\ call'[p] = [call[p] EXCEPT !.phase = phase]
         /\ call'[p] \in Works
  BY WorkTypes DEF TypeOK, Goto, Works

\* The lock has one holder.
LEMMA LockKeeps ==
  ASSUME IInv, NEW p \in Procs, Lock(p)
  PROVE  IInv'
  <1>1. /\ TypeOK /\ call[p].phase = "lock" /\ call[p].phase \in Working
        /\ call[p] \in Works /\ CallInv(p) /\ JobOf(p) \in Jobs
        /\ call[p].attempt \in Attempts /\ call[p].unit \in UnitIds
        /\ UNCHANGED <<files, seen>>
    BY WorkTypes DEF IInv, Lock, Working
  <1>2. CASE Answer(p, "busy")
    <2>1. CallInv(p)' /\ call'[p].phase = "told"
      BY <1>1, <1>2, Told
    <2>2. /\ call' \in [Procs -> Idles \cup Tolds \cup Works]
          /\ \A q \in Procs \ {p} : call'[q] = call[q]
      BY <1>1, <1>2, AnswerTypes
    <2>3. TypeOK' /\ \A i \in Jobs : FilesStand(i) /\ sent'[i] = sent[i]
      BY <1>1, <2>2 DEF TypeOK, files, seen, FilesStand
    <2>4. OneAtATime'
      BY <2>1, <2>2 DEF IInv, OneAtATime, Holds, JobOf, Steps
    <2> QED BY <2>1, <2>2, <2>3, <2>4, QuietStep
  <1>3. CASE ~(\E q \in Procs : Holds(q, JobOf(p))) /\ Goto(p, "request")
    <2>1. /\ call' \in [Procs -> Idles \cup Tolds \cup Works]
          /\ \A q \in Procs \ {p} : call'[q] = call[q]
          /\ call'[p] = [call[p] EXCEPT !.phase = "request"]
      BY <1>1, <1>3, GotoTypes DEF Working, Steps
    <2>2. TypeOK' /\ \A i \in Jobs : FilesStand(i) /\ sent'[i] = sent[i]
      BY <1>1, <2>1 DEF TypeOK, files, seen, FilesStand
    <2>3. /\ call'[p].phase = "request" /\ call'[p].ask = call[p].ask
          /\ call'[p].unit = 1 /\ call'[p].attempt = 1
      BY <1>1, <2>1 DEF Works, CallInv
    <2>4. OneAtATime'
      <3>1. ASSUME NEW q \in Procs \ {p}, NEW i \in Jobs
            PROVE  /\ Holds(q, i)' = Holds(q, i)
                   /\ Holds(p, i)' => i = JobOf(p)
        BY <2>1, <2>3 DEF Holds, JobOf
      <3>2. \A q \in Procs : ~Holds(q, JobOf(p))
        BY <1>3
      <3> QED BY <3>1, <3>2 DEF IInv, OneAtATime
    <2>5. ASSUME NEW j \in Jobs, NEW u \in UnitIds, NEW a \in Attempts,
                 At(p, j, u, a)'
          PROVE  Replays(p, j, u, a)'
      <3>1. u = 1 /\ u <= UnitsOf[j]
        BY <2>3, <2>5, UnitTypes DEF At
      <3> QED BY <2>3, <3>1 DEF Replays
    <2>6. CallInv(p)'
      BY <2>3, <2>5 DEF CallInv
    <2> QED BY <2>1, <2>2, <2>4, <2>6, QuietStep
  <1> QED BY <1>2, <1>3 DEF Lock

-----------------------------------------------------------------------------
(* The actions: files                                                      *)

\* Before its request is frozen a job has no other file.
LEMMA NoRequestNoFiles ==
  ASSUME IInv, NEW j \in Jobs, request[j] \notin Requests
  PROVE  /\ \A u \in UnitIds, a \in Attempts :
               /\ reserved[j][<<u, a>>] = Nothing
               /\ result[j][<<u, a>>] = Nothing
               /\ unit[j][u] = Nothing
         /\ done[j] = Nothing
  <1>1. /\ Reservations(j) /\ Outcoming(j) /\ UnitRecords(j) /\ Published(j)
    BY DEF IInv, JobInv
  <1>2. ASSUME NEW u \in UnitIds, NEW a \in Attempts
        PROVE  reserved[j][<<u, a>>] = Nothing /\ result[j][<<u, a>>] = Nothing
    BY <1>1, Wholes DEF Reservations, Outcoming, Reached
  <1>3. ASSUME NEW u \in UnitIds
        PROVE  unit[j][u] = Nothing
    BY <1>1, <1>2, Wholes DEF UnitRecords, Success
  <1> QED BY <1>1, <1>2, <1>3 DEF Published

\* A file that is cut short stays so.
LEMMA FreezeRequestKeeps ==
  ASSUME IInv, NEW p \in Procs, NEW j \in Jobs, NEW u \in UnitIds,
         NEW a \in Attempts, Holding(p, j, u, a), FreezeRequest(p)
  PROVE  IInv'
  <1>1. /\ TypeOK /\ call[p].phase = "request" /\ call[p].phase \in Steps
        /\ call[p].phase \in Working
    BY DEF IInv, FreezeRequest, Steps, Working
  <1>2. /\ JobOf(p) = j /\ call[p].unit = u /\ call[p].attempt = a
        /\ Holds(p, j) /\ Replays(p, j, u, a) /\ JobInv(j)
        /\ call[p] \in Works /\ call[p].ledger \in Ledgers
        /\ call[p].ask.job = j /\ call[p].ask \in Asks
    BY DEF Holding
  <1> DEFINE frozen == [ask |-> call[p].ask, ledger |-> call[p].ledger]
  <1>3. frozen \in Requests /\ frozen.ask = call[p].ask /\ frozen.ledger = call[p].ledger
    BY <1>2 DEF Requests
  <1>4. u = 1 /\ a = 1
    BY <1>1, <1>2 DEF IInv, CallInv
  <1> HIDE DEF frozen
  <1>5. UNCHANGED <<reserved, result, unit, done, count, seen>>
    BY DEF FreezeRequest
  <1>6. CASE /\ request[j] \in {Nothing, frozen}
             /\ request' = [request EXCEPT ![j] = frozen]
             /\ Goto(p, "attempt")
    <2>1. /\ call' \in [Procs -> Idles \cup Tolds \cup Works]
          /\ \A q \in Procs \ {p} : call'[q] = call[q]
          /\ call'[p] = [call[p] EXCEPT !.phase = "attempt"]
      BY <1>1, <1>6, GotoTypes DEF Working, Steps
    <2>2. TypeOK'
      BY <1>1, <1>3, <1>5, <1>6, <2>1 DEF TypeOK, seen
    <2>3. /\ request'[j] = frozen
          /\ \A i \in Jobs \ {j} : FilesStand(i) /\ sent'[i] = sent[i]
      BY <1>1, <1>5, <1>6 DEF TypeOK, FilesStand, seen
    <2>4. /\ call'[p].phase = "attempt" /\ call'[p].ask = call[p].ask
          /\ call'[p].unit = u /\ call'[p].attempt = a
          /\ call'[p].ledger = call[p].ledger
      BY <1>2, <2>1 DEF Works
    <2>5. JobInv(j)'
      <3>1. CASE request[j] = frozen
        BY <1>2, <1>5, <2>3, <3>1, JobStands DEF FilesStand, seen
      <3>2. CASE request[j] = Nothing
        <4>1. request[j] \notin Requests
          BY <3>2, Wholes
        <4>2. Reservations(j)' /\ Outcoming(j)' /\ UnitRecords(j)' /\ Published(j)'
          BY <1>5, <4>1, NoRequestNoFiles, Wholes
          DEF Reservations, Outcoming, UnitRecords, Published
        <4>3. Sendings(j)'
          BY <1>2, <1>5 DEF JobInv, Sendings, seen
        <4> QED BY <4>2, <4>3 DEF JobInv
      <3> QED BY <1>6, <3>1, <3>2
    <2>6. CallInv(p)'
      <3>1. Reached(j, u, a)'
        <4>1. ~(\E v \in UnitIds : v < 1) /\ ~(\E b \in Attempts : b < 1)
          BY UnitTypes DEF Attempts
        <4>2. request'[j] \in Requests
          BY <1>3, <2>3
        <4> QED BY <1>4, <4>1, <4>2 DEF Reached
      <3>2. Before(j, u, a)' = frozen.ledger
        BY <1>4, <2>3 DEF Before
      <3>3. Replays(p, j, u, a)'
        BY <1>2, <1>3, <2>3, <2>4, <3>1, <3>2 DEF Replays
      <3> QED BY <1>2, <2>4, <3>3 DEF CallInv, At, JobOf
    <2>7. Torn(j) => Torn(j)'
      BY <1>3, <1>5, <1>6, Wholes DEF Torn
    <2>8. Frame(p, j)
      BY <1>2, <2>1, <2>3, <2>4, <2>7 DEF Frame
    <2> QED BY <1>2, <2>2, <2>5, <2>6, <2>8, HolderStep
  <1>7. CASE /\ request[j] \notin {Nothing, frozen}
             /\ Answer(p, IF request[j] = Half THEN "blocked" ELSE "conflict")
             /\ UNCHANGED request
    <2> DEFINE why == IF request[j] = Half THEN "blocked" ELSE "conflict"
    <2>1. /\ call' \in [Procs -> Idles \cup Tolds \cup Works]
          /\ \A q \in Procs \ {p} : call'[q] = call[q]
          /\ call'[p] = [phase |-> "told", ask |-> call[p].ask, why |-> why]
      BY <1>1, <1>7, AnswerTypes
    <2>2. TypeOK' /\ \A i \in Jobs : FilesStand(i) /\ sent'[i] = sent[i]
      BY <1>1, <1>5, <1>7, <2>1 DEF TypeOK, seen, FilesStand
    <2>3. why = "blocked" => Torn(j)'
      BY <1>7 DEF Torn
    <2>4. CallInv(p)'
      BY <1>2, <2>1, <2>3 DEF CallInv, At, JobOf, Steps
    <2> QED BY <1>2, <2>1, <2>2, <2>4, QuietHolder DEF Steps
  <1> QED BY <1>2, <1>6, <1>7 DEF FreezeRequest, frozen

\* The next reservation of a job, whole or cut short, continues its journal.
LEMMA ReservationWritten ==
  ASSUME TypeOK, NEW j \in Jobs, NEW u \in UnitIds, NEW a \in Attempts, JobInv(j),
         reserved[j][<<u, a>>] = Nothing, Reached(j, u, a),
         NEW x \in {Reserve(Before(j, u, a), a), Half}, x # Nothing,
         reserved' = [reserved EXCEPT ![j][<<u, a>>] = x],
         UNCHANGED <<request, result, unit, done, sent>>
  PROVE  JobInv(j)'
  <1>1. \A v \in UnitIds, b \in Attempts :
            reserved'[j][<<v, b>>] = IF v = u /\ b = a THEN x
                                     ELSE reserved[j][<<v, b>>]
    BY DEF TypeOK, Slots
  <1>2. ASSUME NEW v \in UnitIds, NEW b \in Attempts
        PROVE  /\ Reached(j, v, b)' = Reached(j, v, b)
               /\ Before(j, v, b)' = Before(j, v, b)
    BY DEF Reached, Before, Again
  <1>3. Reservations(j)'
    <2>1. ASSUME NEW v \in UnitIds, NEW b \in Attempts
          PROVE  /\ reserved'[j][<<v, b>>] # Nothing => Reached(j, v, b)
                 /\ reserved'[j][<<v, b>>] \in Ledgers =>
                        reserved'[j][<<v, b>>] = Reserve(Before(j, v, b), b)
      BY <1>1, Wholes DEF JobInv, Reservations
    <2> QED BY <1>2, <2>1 DEF Reservations
  <1>4. Outcoming(j)'
    <2>1. ASSUME NEW v \in UnitIds, NEW b \in Attempts, result[j][<<v, b>>] # Nothing
          PROVE  reserved'[j][<<v, b>>] = reserved[j][<<v, b>>]
      BY <1>1, <2>1, Wholes DEF JobInv, Outcoming
    <2> QED BY <2>1, Wholes DEF JobInv, Outcoming
  <1>5. UnitRecords(j)' /\ Published(j)'
    BY DEF JobInv, UnitRecords, Published, Success
  <1>6. Sendings(j)'
    <2>1. \A v \in UnitIds, b \in Attempts :
             /\ reserved[j][<<v, b>>] = Nothing => sent[j][<<v, b>>] = 0
             /\ sent[j][<<v, b>>] <= 1
      BY DEF JobInv, Sendings
    <2>2. ASSUME NEW v \in UnitIds, NEW b \in Attempts, reserved'[j][<<v, b>>] = Nothing
          PROVE  reserved[j][<<v, b>>] = Nothing
      BY <1>1, <2>2
    <2> QED BY <2>1, <2>2 DEF Sendings
  <1> QED BY <1>3, <1>4, <1>5, <1>6 DEF JobInv

\* The first result of an attempt that was reserved continues the journal.
LEMMA ResultWritten ==
  ASSUME TypeOK, NEW j \in Jobs, NEW u \in UnitIds, NEW a \in Attempts, JobInv(j),
         result[j][<<u, a>>] = Nothing, reserved[j][<<u, a>>] \in Ledgers,
         NEW x \in Results \cup {Half},
         x \in Results => x.ledger = Charge(reserved[j][<<u, a>>], x.outcome),
         result' = [result EXCEPT ![j][<<u, a>>] = x],
         UNCHANGED <<request, reserved, unit, done, sent>>
  PROVE  JobInv(j)'
  <1>1. \A v \in UnitIds, b \in Attempts :
            result'[j][<<v, b>>] = IF v = u /\ b = a THEN x
                                   ELSE result[j][<<v, b>>]
    BY DEF TypeOK, Slots
  <1>2. ASSUME NEW v \in UnitIds, NEW b \in Attempts, Reached(j, v, b)
        PROVE  /\ Reached(j, v, b)'
               /\ Before(j, v, b)' = Before(j, v, b)
    <2>1. ASSUME NEW c \in Attempts, c < b
          PROVE  /\ Again(j, v, c)'
                 /\ result'[j][<<v, c>>] = result[j][<<v, c>>]
      BY <1>1, <1>2, <2>1, Wholes DEF Reached, Again
    <2>2. b > 1 => b - 1 \in Attempts /\ b - 1 < b
      BY DEF Attempts
    <2>3. Reached(j, v, b)'
      BY <1>2, <2>1 DEF Reached
    <2>4. Before(j, v, b)' = Before(j, v, b)
      BY <2>1, <2>2 DEF Before
    <2> QED BY <2>3, <2>4
  <1>3. Reservations(j)'
    BY <1>2, Wholes DEF JobInv, Reservations
  <1>4. Outcoming(j)'
    <2>1. ASSUME NEW v \in UnitIds, NEW b \in Attempts
          PROVE  /\ result'[j][<<v, b>>] # Nothing => reserved[j][<<v, b>>] \in Ledgers
                 /\ result'[j][<<v, b>>] \in Results =>
                        result'[j][<<v, b>>].ledger =
                            Charge(reserved[j][<<v, b>>], result'[j][<<v, b>>].outcome)
      BY <1>1, Wholes DEF JobInv, Outcoming
    <2> QED BY <2>1 DEF Outcoming
  <1>5. UnitRecords(j)'
    <2>1. ASSUME NEW v \in UnitIds, NEW b \in Attempts, Success(j, v, b)
          PROVE  /\ Success(j, v, b)'
                 /\ result'[j][<<v, b>>] = result[j][<<v, b>>]
      BY <1>1, <2>1, Wholes DEF Success
    <2> QED BY <2>1 DEF JobInv, UnitRecords
  <1>6. Published(j)' /\ Sendings(j)'
    BY <1>1 DEF JobInv, Published, Sendings
  <1> QED BY <1>3, <1>4, <1>5, <1>6 DEF JobInv

\* The first record of a unit that succeeded continues the journal.
LEMMA UnitWritten ==
  ASSUME TypeOK, NEW j \in Jobs, NEW u \in UnitIds, NEW a \in Attempts, JobInv(j),
         unit[j][u] = Nothing, Success(j, u, a),
         NEW x \in {result[j][<<u, a>>].ledger, Half},
         unit' = [unit EXCEPT ![j][u] = x],
         UNCHANGED <<request, reserved, result, done, sent>>
  PROVE  JobInv(j)'
  <1>1. \A v \in UnitIds : unit'[j][v] = IF v = u THEN x ELSE unit[j][v]
    BY DEF TypeOK
  <1>2. ASSUME NEW v \in UnitIds, NEW b \in Attempts, Reached(j, v, b)
        PROVE  /\ Reached(j, v, b)'
               /\ Before(j, v, b)' = Before(j, v, b)
    <2>1. \A w \in UnitIds : w < v => w # u
      BY <1>2, Wholes DEF Reached
    <2>2. v > 1 => v - 1 \in UnitIds /\ v - 1 < v
      BY JournalAssumption DEF UnitIds
    <2> QED BY <1>1, <1>2, <2>1, <2>2 DEF Reached, Before, Again
  <1>3. Reservations(j)'
    BY <1>2, Wholes DEF JobInv, Reservations
  <1>4. Outcoming(j)' /\ Sendings(j)'
    BY DEF JobInv, Outcoming, Sendings
  <1>5. UnitRecords(j)'
    BY <1>1, Wholes DEF JobInv, UnitRecords, Success
  <1>6. Published(j)'
    BY <1>1, UnitTypes, Wholes DEF JobInv, Published
  <1> QED BY <1>3, <1>4, <1>5, <1>6 DEF JobInv

-----------------------------------------------------------------------------
(* The actions: attempts                                                   *)

\* An answer other than "blocked" that leaves the files alone.
LEMMA AnswerKeeps ==
  ASSUME IInv, NEW p \in Procs, NEW j \in Jobs, NEW u \in UnitIds,
         NEW a \in Attempts, Holding(p, j, u, a),
         NEW why \in {"busy", "conflict", "budget", "failed", "ok", "blocked"},
         Answer(p, why), why = "blocked" => Torn(j), UNCHANGED <<files, seen>>
  PROVE  IInv'
  <1>1. /\ call' \in [Procs -> Idles \cup Tolds \cup Works]
        /\ \A q \in Procs \ {p} : call'[q] = call[q]
        /\ call'[p] = [phase |-> "told", ask |-> call[p].ask, why |-> why]
    BY AnswerTypes DEF Holding
  <1>2. TypeOK' /\ \A i \in Jobs : FilesStand(i) /\ sent'[i] = sent[i]
    BY <1>1 DEF Holding, TypeOK, files, seen, FilesStand
  <1>3. Torn(j)' = Torn(j)
    BY DEF Torn, files
  <1>4. CallInv(p)'
    BY <1>1, <1>3 DEF CallInv, At, JobOf, Steps, Holding
  <1> QED BY <1>1, <1>2, <1>4, QuietHolder DEF Steps, Holding

\* A running call that changes its own fields only.
LEMMA WorkTo ==
  ASSUME TypeOK, NEW p \in Procs, call[p] \in Works, NEW d \in Works,
         call' = [call EXCEPT ![p] = d]
  PROVE  /\ call' \in [Procs -> Idles \cup Tolds \cup Works]
         /\ \A q \in Procs \ {p} : call'[q] = call[q]
         /\ call'[p] = d
  BY DEF TypeOK

\* A call that goes on in the same job knows what Replays says of its place.
LEMMA PlaceKept ==
  ASSUME NEW p \in Procs, NEW j \in Jobs, NEW u \in UnitIds, NEW a \in Attempts,
         call'[p].phase \in Steps \ {"request"}, call'[p].ask.job = j,
         call'[p].unit = u, call'[p].attempt = a, Replays(p, j, u, a)'
  PROVE  CallInv(p)'
  BY DEF CallInv, At, JobOf, Steps

\* An attempt is reserved, found or refused; what is found and whole is what
\* the call would write.
LEMMA AttemptKeeps ==
  ASSUME IInv, NEW p \in Procs, NEW j \in Jobs, NEW u \in UnitIds,
         NEW a \in Attempts, Holding(p, j, u, a), Attempt(p)
  PROVE  IInv'
  <1> DEFINE ledger == Reserve(call[p].ledger, a)
             found == reserved[j][<<u, a>>]
  <1>1. /\ JobOf(p) = j /\ SlotOf(p) = <<u, a>> /\ call[p].attempt = a
        /\ call[p].unit = u /\ Replays(p, j, u, a) /\ JobInv(j) /\ TypeOK
        /\ call[p] \in Works /\ call[p].ledger \in Ledgers /\ Holds(p, j)
        /\ call[p].ask.job = j /\ <<u, a>> \in Slots
        /\ call[p].phase = "attempt"
        /\ UNCHANGED <<request, result, unit, done, count, seen>>
    BY DEF Holding, Attempt
  <1>2. /\ Reached(j, u, a) /\ call[p].ledger = Before(j, u, a)
        /\ u <= UnitsOf[j] /\ request[j] \in Requests /\ request[j].ask = call[p].ask
    BY <1>1 DEF Replays
  <1>3. ledger \in Ledgers /\ Interrupted \in Outcomes
        /\ Charge(ledger, Interrupted) \in Ledgers
    BY <1>1, LedgerTypes
  <1>4. found \in Ledgers \cup {Nothing, Half} /\ (found \in Ledgers => found = ledger)
    BY <1>1, <1>2 DEF TypeOK, JobInv, Reservations
  <1>5. CASE Answer(p, "budget") /\ UNCHANGED reserved
    BY <1>1, <1>5, AnswerKeeps DEF files
  <1>6. CASE found \notin {Nothing, ledger} /\ Answer(p, "blocked") /\ UNCHANGED reserved
    <2>1. found = Half
      BY <1>4, <1>6
    <2>2. Torn(j)
      BY <1>1, <2>1 DEF Torn
    <2> QED BY <1>1, <1>6, <2>2, AnswerKeeps DEF files
  <1>7. CASE /\ found = Nothing
             /\ reserved' = [reserved EXCEPT ![j][<<u, a>>] = ledger]
             /\ call' = [call EXCEPT ![p].phase = "send", ![p].ledger = ledger]
    <2> HIDE DEF ledger
    <2> DEFINE d == [call[p] EXCEPT !.phase = "send", !.ledger = ledger]
    <2>1. d \in Works /\ call' = [call EXCEPT ![p] = d]
      BY <1>1, <1>3, <1>7 DEF Works, Working, Steps
    <2>2. /\ d.phase = "send" /\ d.ledger = ledger /\ d.unit = u /\ d.attempt = a
          /\ d.ask = call[p].ask
      BY <1>1 DEF Works
    <2> HIDE DEF d
    <2>3. /\ call' \in [Procs -> Idles \cup Tolds \cup Works]
          /\ \A q \in Procs \ {p} : call'[q] = call[q]
          /\ call'[p] = d
      BY <1>1, <2>1, WorkTo
    <2>4. TypeOK'
      BY <1>1, <1>3, <1>7, <2>3 DEF TypeOK, seen
    <2>5. JobInv(j)'
      <3>1. ledger = Reserve(Before(j, u, a), a) /\ ledger # Nothing
        BY <1>2, <1>3, Wholes DEF ledger
      <3> QED BY <1>1, <1>2, <1>7, <3>1, ReservationWritten DEF seen
    <2>6. /\ \A i \in Jobs \ {j} : FilesStand(i) /\ sent'[i] = sent[i]
          /\ reserved'[j][<<u, a>>] = ledger
          /\ \A t \in Slots : reserved[j][t] # Nothing => reserved'[j][t] = reserved[j][t]
      BY <1>1, <1>7 DEF TypeOK, FilesStand, seen
    <2>7. Torn(j) => Torn(j)'
      BY <1>1, <2>6, Wholes DEF Torn
    <2>8. Frame(p, j)
      BY <1>1, <2>2, <2>3, <2>6, <2>7 DEF Frame
    <2>9. Replays(p, j, u, a)'
      <3>1. Reached(j, u, a)'
        BY <1>1, <1>2 DEF Reached, Again
      <3>2. sent'[j][<<u, a>>] = 0
        BY <1>1, <1>7 DEF JobInv, Sendings, seen
      <3>3. result'[j][<<u, a>>] = Nothing
        BY <1>1, <1>3, <1>7, Wholes DEF JobInv, Outcoming
      <3> QED BY <1>1, <1>2, <1>3, <2>2, <2>3, <2>6, <3>1, <3>2, <3>3 DEF Replays
    <2>10. CallInv(p)'
      BY <1>1, <2>2, <2>3, <2>9, PlaceKept DEF Steps
    <2> QED BY <1>1, <2>4, <2>5, <2>8, <2>10, HolderStep
  <1>8. CASE /\ found = ledger
             /\ LET next == AfterReservation(j, <<u, a>>)
                IN  call' = [call EXCEPT ![p].phase = next,
                        ![p].ledger = IF next = "record"
                                      THEN Charge(ledger, Interrupted) ELSE ledger,
                        ![p].outcome = Interrupted]
             /\ UNCHANGED reserved
    <2> DEFINE next == AfterReservation(j, <<u, a>>)
               after == IF next = "record" THEN Charge(ledger, Interrupted) ELSE ledger
               d == [call[p] EXCEPT !.phase = next, !.ledger = after,
                                    !.outcome = Interrupted]
    <2>1. /\ next \in {"load", "record"} /\ after \in Ledgers
          /\ next = "load" => result[j][<<u, a>>] # Nothing /\ after = ledger
          /\ next = "record" => /\ result[j][<<u, a>>] = Nothing
                                /\ after = Charge(ledger, Interrupted)
      BY <1>3 DEF AfterReservation
    <2>2. call' = [call EXCEPT ![p].phase = next, ![p].ledger = after,
                               ![p].outcome = Interrupted]
      BY <1>8
    <2> HIDE DEF ledger, next, after
    <2>3. d \in Works /\ call' = [call EXCEPT ![p] = d]
      BY <1>1, <1>3, <2>1, <2>2 DEF Works, Working, Steps
    <2>4. /\ d.phase = next /\ d.ledger = after /\ d.unit = u /\ d.attempt = a
          /\ d.ask = call[p].ask /\ d.outcome = Interrupted
      BY <1>1 DEF Works
    <2> HIDE DEF d
    <2>5. /\ call' \in [Procs -> Idles \cup Tolds \cup Works]
          /\ \A q \in Procs \ {p} : call'[q] = call[q]
          /\ call'[p] = d
      BY <1>1, <2>3, WorkTo
    <2>6. TypeOK' /\ \A i \in Jobs : FilesStand(i) /\ sent'[i] = sent[i]
      BY <1>1, <1>8, <2>5 DEF TypeOK, FilesStand, seen
    <2>7. Replays(p, j, u, a)'
      <3>1. Reached(j, u, a)'
        BY <1>1, <1>2, <1>8 DEF Reached, Again
      <3>2. reserved'[j][<<u, a>>] = ledger
        BY <1>8
      <3> QED BY <1>1, <1>2, <1>3, <2>1, <2>4, <2>5, <3>1, <3>2 DEF Replays
    <2>8. CallInv(p)'
      BY <1>1, <2>1, <2>4, <2>5, <2>7, PlaceKept DEF Steps
    <2> QED BY <1>1, <2>4, <2>5, <2>6, <2>8, QuietHolder
  <1> QED BY <1>1, <1>5, <1>6, <1>7, <1>8 DEF Attempt

\* What a call that has its answer knows: the ledger it will record.
LEMMA LearnKeeps ==
  ASSUME IInv, NEW p \in Procs, NEW j \in Jobs, NEW u \in UnitIds,
         NEW a \in Attempts, Holding(p, j, u, a), call[p].phase \in {"send", "wait"},
         NEW outcome \in Outcomes, Learn(p, outcome), UNCHANGED <<files, count, seen>>
  PROVE  IInv'
  <1> DEFINE after == Charge(call[p].ledger, outcome)
             d == [call[p] EXCEPT !.phase = "record", !.outcome = outcome,
                                  !.ledger = after]
  <1>1. /\ TypeOK /\ call[p] \in Works /\ call[p].ledger \in Ledgers
        /\ Replays(p, j, u, a) /\ Holds(p, j) /\ call[p].ask.job = j
        /\ call[p].unit = u /\ call[p].attempt = a
    BY DEF Holding
  <1>2. after \in Ledgers
    BY <1>1, LedgerTypes
  <1>3. call' = [call EXCEPT ![p].phase = "record", ![p].outcome = outcome,
                             ![p].ledger = after]
    BY DEF Learn
  <1> HIDE DEF after
  <1>4. d \in Works /\ call' = [call EXCEPT ![p] = d]
    BY <1>1, <1>2, <1>3 DEF Works, Working, Steps
  <1>5. /\ d.phase = "record" /\ d.ledger = after /\ d.unit = u /\ d.attempt = a
        /\ d.ask = call[p].ask /\ d.outcome = outcome
    BY <1>1 DEF Works
  <1> HIDE DEF d
  <1>6. /\ call' \in [Procs -> Idles \cup Tolds \cup Works]
        /\ \A q \in Procs \ {p} : call'[q] = call[q]
        /\ call'[p] = d
    BY <1>1, <1>4, WorkTo
  <1>7. TypeOK' /\ \A i \in Jobs : FilesStand(i) /\ sent'[i] = sent[i]
    BY <1>1, <1>6 DEF TypeOK, FilesStand, files, seen
  <1>8. /\ Reached(j, u, a) /\ result[j][<<u, a>>] = Nothing /\ u <= UnitsOf[j]
        /\ reserved[j][<<u, a>>] = call[p].ledger
        /\ request[j] \in Requests /\ request[j].ask = call[p].ask
    BY <1>1 DEF Replays
  <1>9. Replays(p, j, u, a)'
    <2>1. Reached(j, u, a)'
      BY <1>7, <1>8 DEF Reached, Again, FilesStand
    <2> QED BY <1>1, <1>5, <1>6, <1>7, <1>8, <2>1 DEF Replays, FilesStand, after
  <1>10. CallInv(p)'
    BY <1>1, <1>5, <1>6, <1>9, PlaceKept DEF Steps
  <1> QED BY <1>1, <1>5, <1>6, <1>7, <1>10, QuietHolder

\* Nothing goes out, or an answer or its absence is learnt.
LEMMA NotSentReplyKeep ==
  ASSUME IInv, NEW p \in Procs, NEW j \in Jobs, NEW u \in UnitIds,
         NEW a \in Attempts, Holding(p, j, u, a), NotSent(p) \/ Reply(p)
  PROVE  IInv'
  <1>1. CASE NotSent(p)
    <2>1. PICK retry \in BOOLEAN :
             Learn(p, [status |-> "failed", retry |-> retry, usage |-> Nothing])
      BY <1>1 DEF NotSent
    <2>2. [status |-> "failed", retry |-> retry, usage |-> Nothing] \in Outcomes
      BY DEF Outcomes
    <2> QED BY <1>1, <2>1, <2>2, LearnKeeps DEF NotSent
  <1>2. CASE Reply(p)
    <2>1. call[p].outcome.usage \in Usages /\ call[p].phase = "wait"
      BY <1>2 DEF Holding, Replays, Reply
    <2>2. /\ Interrupted \in Outcomes
          /\ [Interrupted EXCEPT !.retry = TRUE] \in Outcomes
          /\ \A status \in {"succeeded", "failed"} :
                [status |-> status, retry |-> FALSE,
                 usage |-> call[p].outcome.usage] \in Outcomes
      BY <2>1 DEF Interrupted, Outcomes
    <2>3. \E outcome \in Outcomes : Learn(p, outcome)
      BY <1>2, <2>2 DEF Reply
    <2> QED BY <1>2, <2>1, <2>3, LearnKeeps DEF Reply
  <1> QED BY <1>1, <1>2

\* The request goes out for the first time: the slot was reserved by this call.
LEMMA SendKeeps ==
  ASSUME IInv, NEW p \in Procs, NEW j \in Jobs, NEW u \in UnitIds,
         NEW a \in Attempts, Holding(p, j, u, a), Send(p)
  PROVE  IInv'
  <1>1. /\ TypeOK /\ call[p] \in Works /\ call[p].ledger \in Ledgers
        /\ Replays(p, j, u, a) /\ Holds(p, j) /\ call[p].ask.job = j /\ JobOf(p) = j
        /\ call[p].unit = u /\ call[p].attempt = a /\ SlotOf(p) = <<u, a>>
        /\ <<u, a>> \in Slots /\ JobInv(j) /\ call[p].phase = "send"
        /\ UNCHANGED <<files, count>>
    BY DEF Holding, Send
  <1>2. PICK used \in Usages :
           /\ sent' = [sent EXCEPT ![j][<<u, a>>] = @ + 1]
           /\ bill' = [bill EXCEPT ![j] = @ + used]
           /\ call' = [call EXCEPT ![p].phase = "wait",
                          ![p].outcome = [Interrupted EXCEPT !.usage = used]]
    BY <1>1 DEF Send
  <1> DEFINE outcome == [Interrupted EXCEPT !.usage = used]
             d == [call[p] EXCEPT !.phase = "wait", !.outcome = outcome]
  <1>3. outcome \in Outcomes /\ outcome.usage = used
    BY DEF Interrupted, Outcomes
  <1>4. call' = [call EXCEPT ![p].phase = "wait", ![p].outcome = outcome]
    BY <1>2
  <1> HIDE DEF outcome
  <1>5. d \in Works /\ call' = [call EXCEPT ![p] = d]
    BY <1>1, <1>3, <1>4 DEF Works, Working, Steps
  <1>6. /\ d.phase = "wait" /\ d.ledger = call[p].ledger /\ d.unit = u
        /\ d.attempt = a /\ d.ask = call[p].ask /\ d.outcome = outcome
    BY <1>1 DEF Works
  <1> HIDE DEF d
  <1>7. /\ call' \in [Procs -> Idles \cup Tolds \cup Works]
        /\ \A q \in Procs \ {p} : call'[q] = call[q]
        /\ call'[p] = d
    BY <1>1, <1>5, WorkTo
  <1>8. sent' \in [Jobs -> [Slots -> Nat]] /\ bill' \in [Jobs -> Nat]
    BY <1>1, <1>2, JournalAssumption DEF TypeOK
  <1>9. TypeOK' /\ \A i \in Jobs : FilesStand(i)
    BY <1>1, <1>7, <1>8 DEF TypeOK, FilesStand, files
  <1>10. \A i \in Jobs \ {j} : sent'[i] = sent[i]
    BY <1>1, <1>2 DEF TypeOK
  <1>11. \A v \in UnitIds, b \in Attempts :
            sent'[j][<<v, b>>] = IF v = u /\ b = a THEN sent[j][<<u, a>>] + 1
                                 ELSE sent[j][<<v, b>>]
    BY <1>1, <1>2 DEF TypeOK, Slots
  <1>12. /\ Reached(j, u, a) /\ result[j][<<u, a>>] = Nothing /\ u <= UnitsOf[j]
         /\ reserved[j][<<u, a>>] = call[p].ledger /\ sent[j][<<u, a>>] = 0
         /\ request[j] \in Requests /\ request[j].ask = call[p].ask
    BY <1>1 DEF Replays
  <1>13. JobInv(j)'
    <2>1. Sendings(j)'
      <3>1. reserved' = reserved /\ reserved[j][<<u, a>>] # Nothing
        BY <1>1, <1>12, Wholes DEF files
      <3>2. \A v \in UnitIds, b \in Attempts :
               /\ reserved[j][<<v, b>>] = Nothing => sent[j][<<v, b>>] = 0
               /\ sent[j][<<v, b>>] <= 1
        BY <1>1 DEF JobInv, Sendings
      <3>3. sent[j][<<u, a>>] + 1 = 1
        BY <1>12
      <3>4. ASSUME NEW v \in UnitIds, NEW b \in Attempts
            PROVE  /\ reserved[j][<<v, b>>] = Nothing => sent'[j][<<v, b>>] = 0
                   /\ sent'[j][<<v, b>>] <= 1
        <4>1. CASE v = u /\ b = a
          BY <1>11, <3>1, <3>3, <4>1
        <4>2. CASE ~(v = u /\ b = a)
          BY <1>11, <3>2, <4>2
        <4> QED BY <4>1, <4>2
      <3> QED BY <3>1, <3>4 DEF Sendings
    <2>2. /\ Reservations(j)' = Reservations(j) /\ Outcoming(j)' = Outcoming(j)
          /\ UnitRecords(j)' = UnitRecords(j) /\ Published(j)' = Published(j)
      BY <1>1 DEF files, Reservations, Reached, Again, Before, Outcoming,
         UnitRecords, Success, Published
    <2> QED BY <1>1, <2>1, <2>2 DEF JobInv
  <1>14. Replays(p, j, u, a)'
    <2>1. Reached(j, u, a)'
      BY <1>1, <1>12 DEF Reached, Again, files
    <2> QED BY <1>1, <1>3, <1>6, <1>7, <1>12, <2>1 DEF Replays, files
  <1>15. CallInv(p)'
    BY <1>1, <1>6, <1>7, <1>14, PlaceKept DEF Steps
  <1>16. Frame(p, j)
    <2>1. Torn(j)' = Torn(j)
      BY <1>1 DEF Torn, files
    <2> QED BY <1>1, <1>6, <1>7, <1>9, <1>10, <2>1 DEF Frame
  <1> QED BY <1>1, <1>9, <1>13, <1>15, <1>16, HolderStep

\* Behind a result that is on disk the call goes on at a place that the files
\* have reached, or stops.
LEMMA ProceedKnows ==
  ASSUME NEW p \in Procs, NEW j \in Jobs, NEW u \in UnitIds, NEW a \in Attempts,
         Holding(p, j, u, a), call[p].phase \in {"record", "load"},
         NEW ledger \in Ledgers, NEW outcome \in Outcomes,
         Proceed(p, ledger, outcome),
         result'[j][<<u, a>>] \in Results,
         result'[j][<<u, a>>].outcome = outcome,
         result'[j][<<u, a>>].ledger = ledger,
         \A b \in Attempts : b < a => result'[j][<<u, b>>] = result[j][<<u, b>>],
         UNCHANGED <<request, reserved, unit, done>>
  PROVE  /\ call' \in [Procs -> Idles \cup Tolds \cup Works]
         /\ \A q \in Procs \ {p} : call'[q] = call[q]
         /\ call'[p].phase \in Steps => call'[p].ask.job = j
         /\ CallInv(p)'
  <1>1. /\ TypeOK /\ call[p] \in Works /\ Replays(p, j, u, a)
        /\ call[p].ask.job = j /\ call[p].unit = u /\ call[p].attempt = a
        /\ call[p].phase \in Working
    BY DEF Holding
  <1>2. /\ Reached(j, u, a) /\ u <= UnitsOf[j]
        /\ request[j] \in Requests /\ request[j].ask = call[p].ask
    BY <1>1 DEF Replays
  <1>3. Reached(j, u, a)'
    BY <1>2 DEF Reached, Again
  <1>4. ASSUME NEW why \in {"budget", "failed"}, Answer(p, why)
        PROVE  /\ call' \in [Procs -> Idles \cup Tolds \cup Works]
               /\ \A q \in Procs \ {p} : call'[q] = call[q]
               /\ call'[p].phase \in Steps => call'[p].ask.job = j
               /\ CallInv(p)'
    <2>1. call'[p].phase = "told" /\ CallInv(p)'
      BY <1>1, <1>4, Told
    <2>2. /\ call' \in [Procs -> Idles \cup Tolds \cup Works]
          /\ \A q \in Procs \ {p} : call'[q] = call[q]
      BY <1>1, <1>4, AnswerTypes
    <2> QED BY <2>1, <2>2 DEF Steps
  <1>5. CASE /\ outcome.status = "succeeded"
             /\ call' = [call EXCEPT ![p].phase = "unit", ![p].ledger = ledger]
    <2> DEFINE d == [call[p] EXCEPT !.phase = "unit", !.ledger = ledger]
    <2>1. d \in Works /\ call' = [call EXCEPT ![p] = d]
      BY <1>1, <1>5 DEF Works, Working, Steps
    <2>2. /\ d.phase = "unit" /\ d.ledger = ledger /\ d.unit = u /\ d.attempt = a
          /\ d.ask = call[p].ask
      BY <1>1 DEF Works
    <2> HIDE DEF d
    <2>3. /\ call' \in [Procs -> Idles \cup Tolds \cup Works]
          /\ \A q \in Procs \ {p} : call'[q] = call[q]
          /\ call'[p] = d
      BY <1>1, <2>1, WorkTo
    <2>4. Success(j, u, a)'
      BY <1>5 DEF Success
    <2>5. Replays(p, j, u, a)'
      BY <1>2, <1>3, <2>2, <2>3, <2>4 DEF Replays
    <2> QED BY <1>1, <2>2, <2>3, <2>5, PlaceKept DEF Steps
  <1>6. CASE /\ outcome.status # "succeeded" /\ outcome.retry /\ a # 3
             /\ call' = [call EXCEPT ![p].phase = "attempt", ![p].ledger = ledger,
                                     ![p].attempt = @ + 1]
    <2> DEFINE d == [call[p] EXCEPT !.phase = "attempt", !.ledger = ledger,
                                    !.attempt = a + 1]
    <2>1. a + 1 \in Attempts /\ a \in Nat /\ a > 0
      BY <1>6 DEF Attempts
    <2>2. call' = [call EXCEPT ![p].phase = "attempt", ![p].ledger = ledger,
                               ![p].attempt = a + 1]
      BY <1>1, <1>6
    <2>3. d \in Works /\ call' = [call EXCEPT ![p] = d]
      BY <1>1, <2>1, <2>2 DEF Works, Working, Steps
    <2>4. /\ d.phase = "attempt" /\ d.ledger = ledger /\ d.unit = u
          /\ d.attempt = a + 1 /\ d.ask = call[p].ask
      BY <1>1 DEF Works
    <2> HIDE DEF d
    <2>5. /\ call' \in [Procs -> Idles \cup Tolds \cup Works]
          /\ \A q \in Procs \ {p} : call'[q] = call[q]
          /\ call'[p] = d
      BY <1>1, <2>3, WorkTo
    <2>6. Reached(j, u, a + 1)'
      <3>1. Again(j, u, a)'
        BY <1>6 DEF Again
      <3>2. \A b \in Attempts : b < a + 1 => b < a \/ b = a
        BY <2>1 DEF Attempts
      <3> QED BY <1>3, <3>1, <3>2 DEF Reached
    <2>7. Before(j, u, a + 1)' = ledger
      BY <2>1 DEF Before
    <2>8. Replays(p, j, u, a + 1)'
      BY <1>2, <2>4, <2>5, <2>6, <2>7 DEF Replays
    <2> QED BY <1>1, <2>1, <2>4, <2>5, <2>8, PlaceKept DEF Steps
  <1> QED BY <1>1, <1>4, <1>5, <1>6 DEF Proceed

\* The result is written where there was none.
LEMMA RecordKeeps ==
  ASSUME IInv, NEW p \in Procs, NEW j \in Jobs, NEW u \in UnitIds,
         NEW a \in Attempts, Holding(p, j, u, a), Record(p)
  PROVE  IInv'
  <1> DEFINE x == [outcome |-> call[p].outcome, ledger |-> call[p].ledger]
  <1>1. /\ TypeOK /\ call[p].ledger \in Ledgers /\ Replays(p, j, u, a) /\ Holds(p, j)
        /\ JobOf(p) = j /\ SlotOf(p) = <<u, a>> /\ <<u, a>> \in Slots /\ JobInv(j)
        /\ call[p].phase = "record"
        /\ UNCHANGED <<request, reserved, unit, done, count, seen>>
    BY DEF Holding, Record
  <1>2. /\ result[j][<<u, a>>] = Nothing /\ reserved[j][<<u, a>>] \in Ledgers
        /\ call[p].outcome \in Outcomes
        /\ call[p].ledger = Charge(reserved[j][<<u, a>>], call[p].outcome)
    BY <1>1 DEF Replays
  <1>3. x \in Results /\ x.outcome = call[p].outcome /\ x.ledger = call[p].ledger
    BY <1>1, <1>2 DEF Results
  <1>4. /\ result' = [result EXCEPT ![j][<<u, a>>] = x]
        /\ Proceed(p, call[p].ledger, call[p].outcome)
    BY <1>1 DEF Record
  <1> HIDE DEF x
  <1>5. /\ result'[j][<<u, a>>] = x
        /\ \A i \in Jobs \ {j} : result'[i] = result[i]
        /\ \A t \in Slots \ {<<u, a>>} : result'[j][t] = result[j][t]
    BY <1>1, <1>4 DEF TypeOK
  <1>6. \A b \in Attempts : b < a => result'[j][<<u, b>>] = result[j][<<u, b>>]
    BY <1>5 DEF Slots, Attempts
  <1>7. /\ call' \in [Procs -> Idles \cup Tolds \cup Works]
        /\ \A q \in Procs \ {p} : call'[q] = call[q]
        /\ call'[p].phase \in Steps => call'[p].ask.job = j
        /\ CallInv(p)'
    BY <1>1, <1>2, <1>3, <1>4, <1>5, <1>6, ProceedKnows
  <1>8. TypeOK'
    BY <1>1, <1>3, <1>4, <1>7 DEF TypeOK, seen
  <1>9. JobInv(j)'
    BY <1>1, <1>2, <1>3, <1>4, ResultWritten DEF seen
  <1>10. Torn(j) => Torn(j)'
    BY <1>1, <1>2, <1>5, Wholes DEF Torn
  <1>11. Frame(p, j)
    BY <1>1, <1>5, <1>7, <1>10 DEF Frame, FilesStand, seen
  <1> QED BY <1>1, <1>7, <1>8, <1>9, <1>11, HolderStep

\* A result that is found whole comes to the ledger it was written with.
LEMMA LoadResultKeeps ==
  ASSUME IInv, NEW p \in Procs, NEW j \in Jobs, NEW u \in UnitIds,
         NEW a \in Attempts, Holding(p, j, u, a), LoadResult(p)
  PROVE  IInv'
  <1> DEFINE found == result[j][<<u, a>>]
             ledger == Charge(call[p].ledger, found.outcome)
  <1>1. /\ TypeOK /\ call[p].ledger \in Ledgers /\ Replays(p, j, u, a) /\ Holds(p, j)
        /\ JobOf(p) = j /\ SlotOf(p) = <<u, a>> /\ <<u, a>> \in Slots /\ JobInv(j)
        /\ call[p].phase = "load" /\ UNCHANGED <<files, count, seen>>
    BY DEF Holding, LoadResult
  <1>2. /\ found # Nothing /\ reserved[j][<<u, a>>] = call[p].ledger
        /\ found \in Results \cup {Nothing, Half}
    BY <1>1 DEF Replays, TypeOK
  <1>3. CASE found = Half
    <2>1. Torn(j)
      BY <1>1, <1>3 DEF Torn
    <2>2. Answer(p, "blocked")
      BY <1>1, <1>3 DEF LoadResult
    <2> QED BY <1>1, <2>1, <2>2, AnswerKeeps
  <1>4. CASE found # Half
    <2>1. found \in Results /\ found.ledger = ledger
      BY <1>1, <1>2, <1>4 DEF JobInv, Outcoming
    <2>2. Proceed(p, ledger, found.outcome)
      BY <1>1, <1>4, <2>1 DEF LoadResult, LoadLedger
    <2>3. ledger \in Ledgers /\ found.outcome \in Outcomes
      BY <1>1, <2>1, LedgerTypes DEF Results
    <2> HIDE DEF ledger
    <2>4. /\ call' \in [Procs -> Idles \cup Tolds \cup Works]
          /\ \A q \in Procs \ {p} : call'[q] = call[q]
          /\ call'[p].phase \in Steps => call'[p].ask.job = j
          /\ CallInv(p)'
      BY <1>1, <2>1, <2>2, <2>3, ProceedKnows DEF files
    <2>5. TypeOK' /\ \A i \in Jobs : FilesStand(i) /\ sent'[i] = sent[i]
      BY <1>1, <2>4 DEF TypeOK, FilesStand, files, seen
    <2> QED BY <1>1, <2>4, <2>5, QuietHolder
  <1> QED BY <1>3, <1>4

-----------------------------------------------------------------------------
(* The actions: units, the job and kills                                   *)

\* At most one attempt of a unit succeeds.
LEMMA OneSuccess ==
  ASSUME NEW j \in Jobs, JobInv(j), NEW u \in UnitIds,
         NEW a \in Attempts, NEW b \in Attempts, Success(j, u, a), Success(j, u, b)
  PROVE  a = b
  <1>1. ASSUME NEW c \in Attempts, NEW d \in Attempts, c < d, Success(j, u, c),
               Success(j, u, d)
        PROVE  FALSE
    <2>1. reserved[j][<<u, d>>] \in Ledgers
      BY <1>1, Wholes DEF JobInv, Outcoming, Success
    <2>2. Reached(j, u, d)
      BY <2>1, Wholes DEF JobInv, Reservations
    <2> QED BY <1>1, <2>2 DEF Reached, Again, Success
  <1>2. a < b \/ b < a \/ a = b
    BY DEF Attempts
  <1> QED BY <1>1, <1>2

\* A unit's record that is there and whole is what the call would write.
LEMMA WriteUnitKeeps ==
  ASSUME IInv, NEW p \in Procs, NEW j \in Jobs, NEW u \in UnitIds,
         NEW a \in Attempts, Holding(p, j, u, a), WriteUnit(p)
  PROVE  IInv'
  <1>1. /\ TypeOK /\ call[p].ledger \in Ledgers /\ Replays(p, j, u, a) /\ Holds(p, j)
        /\ JobOf(p) = j /\ call[p].unit = u /\ call[p].attempt = a /\ JobInv(j)
        /\ call[p].phase = "unit" /\ call[p] \in Works /\ call[p].ask.job = j
        /\ UNCHANGED <<request, reserved, result, done, count, seen>>
    BY DEF Holding, WriteUnit
  <1>2. /\ Success(j, u, a) /\ call[p].ledger = result[j][<<u, a>>].ledger
        /\ Reached(j, u, a) /\ u <= UnitsOf[j]
        /\ request[j] \in Requests /\ request[j].ask = call[p].ask
    BY <1>1 DEF Replays
  <1>3. unit[j][u] \in {Nothing, Half, call[p].ledger}
    <2>1. unit[j][u] \in Ledgers \cup {Nothing, Half}
      BY <1>1 DEF TypeOK
    <2>2. ASSUME unit[j][u] \in Ledgers
          PROVE  unit[j][u] = call[p].ledger
      <3>1. PICK b \in Attempts : Success(j, u, b) /\ unit[j][u] = result[j][<<u, b>>].ledger
        BY <1>1, <2>2, Wholes DEF JobInv, UnitRecords
      <3> QED BY <1>1, <1>2, <3>1, OneSuccess
    <2> QED BY <2>1, <2>2
  <1>4. CASE unit[j][u] \notin {Nothing, call[p].ledger} /\ Answer(p, "blocked") /\ UNCHANGED unit
    <2>1. Torn(j)
      BY <1>3, <1>4 DEF Torn
    <2> QED BY <1>1, <1>4, <2>1, AnswerKeeps DEF files
  <1>5. CASE /\ unit[j][u] \in {Nothing, call[p].ledger}
             /\ unit' = [unit EXCEPT ![j][u] = call[p].ledger]
             /\ call' = IF u = UnitsOf[j]
                        THEN [call EXCEPT ![p].phase = "publish"]
                        ELSE [call EXCEPT ![p].phase = "attempt",
                                 ![p].unit = u + 1, ![p].attempt = 1]
    <2>1. /\ unit'[j][u] = call[p].ledger
          /\ \A i \in Jobs \ {j} : unit'[i] = unit[i]
          /\ \A v \in UnitIds \ {u} : unit'[j][v] = unit[j][v]
      BY <1>1, <1>5 DEF TypeOK
    <2>2. JobInv(j)'
      <3>1. CASE unit[j][u] = Nothing
        BY <1>1, <1>2, <1>5, <3>1, UnitWritten DEF seen
      <3>2. CASE unit[j][u] = call[p].ledger
        <4>1. unit'[j] = unit[j]
          BY <1>1, <1>5, <3>2 DEF TypeOK
        <4> QED BY <1>1, <4>1, JobStands DEF FilesStand, seen
      <3> QED BY <1>5, <3>1, <3>2
    <2>3. /\ u \in Nat \ {0} /\ 1 \in Attempts
          /\ u # UnitsOf[j] => u + 1 \in UnitIds /\ u + 1 <= UnitsOf[j]
      BY <1>2, UnitTypes DEF Attempts
    <2>4. Torn(j) => Torn(j)'
      BY <1>1, <1>5, <2>1, Wholes DEF Torn
    <2>5. CASE u = UnitsOf[j]
      <3> DEFINE d == [call[p] EXCEPT !.phase = "publish"]
      <3>1. d \in Works /\ call' = [call EXCEPT ![p] = d]
        BY <1>1, <1>5, <2>5 DEF Works, Working, Steps
      <3>2. /\ d.phase = "publish" /\ d.ledger = call[p].ledger /\ d.unit = u
            /\ d.attempt = a /\ d.ask = call[p].ask
        BY <1>1 DEF Works
      <3> HIDE DEF d
      <3>3. /\ call' \in [Procs -> Idles \cup Tolds \cup Works]
            /\ \A q \in Procs \ {p} : call'[q] = call[q]
            /\ call'[p] = d
        BY <1>1, <3>1, WorkTo
      <3>4. TypeOK'
        BY <1>1, <1>5, <3>3 DEF TypeOK, seen
      <3>5. Replays(p, j, u, a)'
        BY <1>1, <1>2, <2>1, <2>5, <3>2, <3>3 DEF Replays
      <3>6. CallInv(p)'
        BY <1>1, <3>2, <3>3, <3>5, PlaceKept DEF Steps
      <3>7. Frame(p, j)
        BY <1>1, <2>1, <2>4, <3>2, <3>3 DEF Frame, FilesStand, seen
      <3> QED BY <1>1, <2>2, <3>4, <3>6, <3>7, HolderStep
    <2>6. CASE u # UnitsOf[j]
      <3> DEFINE d == [call[p] EXCEPT !.phase = "attempt", !.unit = u + 1, !.attempt = 1]
      <3>1. d \in Works /\ call' = [call EXCEPT ![p] = d]
        BY <1>1, <1>5, <2>3, <2>6 DEF Works, Working, Steps
      <3>2. /\ d.phase = "attempt" /\ d.ledger = call[p].ledger /\ d.unit = u + 1
            /\ d.attempt = 1 /\ d.ask = call[p].ask
        BY <1>1 DEF Works
      <3> HIDE DEF d
      <3>3. /\ call' \in [Procs -> Idles \cup Tolds \cup Works]
            /\ \A q \in Procs \ {p} : call'[q] = call[q]
            /\ call'[p] = d
        BY <1>1, <3>1, WorkTo
      <3>4. TypeOK'
        BY <1>1, <1>5, <3>3 DEF TypeOK, seen
      <3>5. Reached(j, u + 1, 1)'
        <4>1. ASSUME NEW v \in UnitIds, v < u + 1
              PROVE  unit'[j][v] \in Ledgers
          <5>1. v = u \/ v < u
            BY <2>3, <4>1, UnitTypes
          <5> QED BY <1>1, <1>2, <2>1, <4>1, <5>1 DEF Reached
        <4>2. ~(\E b \in Attempts : b < 1)
          BY DEF Attempts
        <4> QED BY <1>1, <1>2, <4>1, <4>2 DEF Reached
      <3>6. Before(j, u + 1, 1)' = call[p].ledger
        BY <2>1, <2>3 DEF Before
      <3>7. Replays(p, j, u + 1, 1)'
        BY <1>1, <1>2, <2>3, <2>6, <3>2, <3>3, <3>5, <3>6 DEF Replays
      <3>8. CallInv(p)'
        BY <1>1, <2>3, <2>6, <3>2, <3>3, <3>7, PlaceKept DEF Steps
      <3>9. Frame(p, j)
        BY <1>1, <2>1, <2>4, <3>2, <3>3 DEF Frame, FilesStand, seen
      <3> QED BY <1>1, <2>2, <3>4, <3>8, <3>9, HolderStep
    <2> QED BY <2>5, <2>6
  <1> QED BY <1>1, <1>4, <1>5 DEF WriteUnit

\* A job that is published already has the ledger the call has come to.
LEMMA PublishJobKeeps ==
  ASSUME IInv, NEW p \in Procs, NEW j \in Jobs, NEW u \in UnitIds,
         NEW a \in Attempts, Holding(p, j, u, a), PublishJob(p)
  PROVE  IInv'
  <1> DEFINE made == [limit |-> call[p].ask.limit, ledger |-> call[p].ledger]
  <1>1. /\ TypeOK /\ call[p].ledger \in Ledgers /\ Replays(p, j, u, a) /\ Holds(p, j)
        /\ JobOf(p) = j /\ JobInv(j) /\ call[p].phase = "publish"
        /\ call[p] \in Works /\ call[p].ask.job = j /\ call[p].ask \in Asks
        /\ call[p].phase \in Working
        /\ UNCHANGED <<request, reserved, result, unit, count, seen>>
    BY DEF Holding, PublishJob
  <1>2. /\ u = UnitsOf[j] /\ call[p].ledger = unit[j][u]
        /\ request[j] \in Requests /\ request[j].ask = call[p].ask
    BY <1>1 DEF Replays
  <1>3. made \in Dones
    BY <1>1, JournalAssumption DEF Dones
  <1>4. done[j] \in {Nothing, made}
    BY <1>1, <1>2 DEF JobInv, Published
  <1>5. done' = [done EXCEPT ![j] = made] /\ Answer(p, "ok")
    BY <1>1, <1>4 DEF PublishJob
  <1> HIDE DEF made
  <1>6. CallInv(p)' /\ call'[p].phase = "told"
    BY <1>1, <1>5, Told
  <1>7. /\ call' \in [Procs -> Idles \cup Tolds \cup Works]
        /\ \A q \in Procs \ {p} : call'[q] = call[q]
    BY <1>1, <1>5, AnswerTypes
  <1>8. TypeOK'
    BY <1>1, <1>3, <1>5, <1>7 DEF TypeOK, seen
  <1>9. done'[j] = made /\ \A i \in Jobs \ {j} : done'[i] = done[i]
    BY <1>1, <1>5 DEF TypeOK
  <1>10. JobInv(j)'
    <2>1. Published(j)'
      BY <1>1, <1>2, <1>9 DEF Published, made
    <2>2. /\ Reservations(j)' = Reservations(j) /\ Outcoming(j)' = Outcoming(j)
          /\ UnitRecords(j)' = UnitRecords(j) /\ Sendings(j)' = Sendings(j)
      BY <1>1 DEF seen, Reservations, Reached, Again, Before, Outcoming,
         UnitRecords, Success, Sendings
    <2> QED BY <1>1, <2>1, <2>2 DEF JobInv
  <1>11. Frame(p, j)
    <2>1. Torn(j)' = Torn(j)
      BY <1>1 DEF Torn
    <2> QED BY <1>1, <1>6, <1>7, <1>9, <2>1 DEF Frame, FilesStand, seen, Steps
  <1> QED BY <1>1, <1>6, <1>8, <1>10, <1>11, HolderStep

\* A kill leaves at most one file cut short, where the call was writing the
\* next file of its job.
LEMMA LeaveHalfKeeps ==
  ASSUME NEW p \in Procs, NEW j \in Jobs, NEW u \in UnitIds, IInv,
         NEW a \in Attempts, Holding(p, j, u, a), LeaveHalf(p),
         UNCHANGED <<done, sent>>
  PROVE  /\ JobInv(j)'
         /\ Torn(j)'
         /\ \A i \in Jobs \ {j} : FilesStand(i)
         /\ request' \in [Jobs -> Requests \cup {Nothing, Half}]
         /\ reserved' \in [Jobs -> [Slots -> Ledgers \cup {Nothing, Half}]]
         /\ result' \in [Jobs -> [Slots -> Results \cup {Nothing, Half}]]
         /\ unit' \in [Jobs -> [UnitIds -> Ledgers \cup {Nothing, Half}]]
  <1>1. /\ TypeOK /\ Replays(p, j, u, a) /\ JobInv(j)
        /\ JobOf(p) = j /\ SlotOf(p) = <<u, a>> /\ call[p].unit = u
        /\ <<u, a>> \in Slots
    BY DEF Holding
  <1>2. CASE /\ call[p].phase = "request" /\ request[j] = Nothing
             /\ request' = [request EXCEPT ![j] = Half]
             /\ UNCHANGED <<reserved, result, unit>>
    <2>1. request'[j] = Half /\ \A i \in Jobs \ {j} : request'[i] = request[i]
      BY <1>1, <1>2 DEF TypeOK
    <2>2. request[j] \notin Requests
      BY <1>2, Wholes
    <2>3. Reservations(j)' /\ Outcoming(j)' /\ UnitRecords(j)' /\ Published(j)'
      BY <1>2, <2>2, NoRequestNoFiles, Wholes
      DEF Reservations, Outcoming, UnitRecords, Published
    <2>4. Sendings(j)'
      BY <1>1, <1>2 DEF JobInv, Sendings
    <2> QED BY <1>1, <1>2, <2>1, <2>3, <2>4 DEF JobInv, FilesStand, Torn, TypeOK
  <1>3. CASE /\ call[p].phase = "attempt" /\ reserved[j][<<u, a>>] = Nothing
             /\ reserved' = [reserved EXCEPT ![j][<<u, a>>] = Half]
             /\ UNCHANGED <<request, result, unit>>
    <2>1. JobInv(j)'
      BY <1>1, <1>3, ReservationWritten, Wholes DEF Replays
    <2>2. reserved'[j][<<u, a>>] = Half
      BY <1>1, <1>3 DEF TypeOK
    <2> QED BY <1>1, <1>3, <2>1, <2>2 DEF FilesStand, Torn, TypeOK
  <1>4. CASE /\ call[p].phase = "record"
             /\ result' = [result EXCEPT ![j][<<u, a>>] = Half]
             /\ UNCHANGED <<request, reserved, unit>>
    <2>1. result[j][<<u, a>>] = Nothing /\ reserved[j][<<u, a>>] \in Ledgers
      BY <1>1, <1>4 DEF Replays
    <2>2. JobInv(j)'
      BY <1>1, <1>4, <2>1, ResultWritten, Wholes
    <2>3. result'[j][<<u, a>>] = Half
      BY <1>1, <1>4 DEF TypeOK
    <2> QED BY <1>1, <1>4, <2>2, <2>3 DEF FilesStand, Torn, TypeOK
  <1>5. CASE /\ call[p].phase = "unit" /\ unit[j][u] = Nothing
             /\ unit' = [unit EXCEPT ![j][u] = Half]
             /\ UNCHANGED <<request, reserved, result>>
    <2>1. Success(j, u, a)
      BY <1>1, <1>5 DEF Replays
    <2>2. JobInv(j)'
      BY <1>1, <1>5, <2>1, UnitWritten
    <2>3. unit'[j][u] = Half
      BY <1>1, <1>5 DEF TypeOK
    <2> QED BY <1>1, <1>5, <2>2, <2>3 DEF FilesStand, Torn, TypeOK
  <1> QED BY <1>1, <1>2, <1>3, <1>4, <1>5 DEF LeaveHalf

\* A killed call forgets everything; the files it leaves still agree.
LEMMA KillKeeps ==
  ASSUME IInv, NEW p \in Procs, NEW j \in Jobs, NEW u \in UnitIds,
         NEW a \in Attempts, Holding(p, j, u, a), Kill(p)
  PROVE  IInv'
  <1>1. /\ TypeOK /\ Holds(p, j) /\ JobInv(j)
        /\ call' = [call EXCEPT ![p] = [phase |-> "idle"]]
        /\ UNCHANGED <<done, seen>>
    BY DEF Holding, Kill
  <1>2. /\ call' \in [Procs -> Idles \cup Tolds \cup Works]
        /\ \A q \in Procs \ {p} : call'[q] = call[q]
        /\ call'[p] = [phase |-> "idle"]
    BY <1>1 DEF TypeOK, Idles
  <1>3. CallInv(p)' /\ call'[p].phase \notin Steps
    BY <1>2 DEF CallInv, At, Steps
  <1>4. CASE LeaveHalf(p)
    <2>1. /\ JobInv(j)' /\ Torn(j)'
          /\ \A i \in Jobs \ {j} : FilesStand(i)
          /\ request' \in [Jobs -> Requests \cup {Nothing, Half}]
          /\ reserved' \in [Jobs -> [Slots -> Ledgers \cup {Nothing, Half}]]
          /\ result' \in [Jobs -> [Slots -> Results \cup {Nothing, Half}]]
          /\ unit' \in [Jobs -> [UnitIds -> Ledgers \cup {Nothing, Half}]]
      BY <1>1, <1>4, LeaveHalfKeeps DEF seen
    <2>2. TypeOK'
      BY <1>1, <1>2, <2>1 DEF TypeOK, seen
    <2>3. Frame(p, j)
      BY <1>1, <1>2, <1>3, <2>1 DEF Frame, seen
    <2> QED BY <1>1, <1>3, <2>1, <2>2, <2>3, HolderStep
  <1>5. CASE UNCHANGED <<request, reserved, result, unit>>
    <2>1. TypeOK' /\ \A i \in Jobs : FilesStand(i) /\ sent'[i] = sent[i]
      BY <1>1, <1>2, <1>5 DEF TypeOK, FilesStand, seen
    <2> QED BY <1>1, <1>2, <1>3, <2>1, QuietHolder
  <1> QED BY <1>4, <1>5 DEF Kill

-----------------------------------------------------------------------------
(* The theorems                                                            *)

\* At the start there are no files and no calls.
LEMMA InvInit == Init => IInv
  <1> SUFFICES ASSUME Init
               PROVE  IInv
    OBVIOUS
  <1>1. TypeOK
    BY DEF Init, TypeOK, Idles
  <1>2. OneAtATime
    BY DEF Init, OneAtATime, Holds, Steps
  <1>3. ASSUME NEW j \in Jobs
        PROVE  JobInv(j)
    BY Wholes
    DEF Init, JobInv, Reservations, Outcoming, UnitRecords, Published, Sendings, Slots
  <1>4. ASSUME NEW p \in Procs
        PROVE  CallInv(p)
    BY DEF Init, CallInv, At, Steps
  <1> QED BY <1>1, <1>2, <1>3, <1>4 DEF IInv

\* Every step of a call keeps the invariant.
LEMMA InvNext == IInv /\ [Next]_vars => IInv'
  <1> SUFFICES ASSUME IInv, [Next]_vars
               PROVE  IInv'
    OBVIOUS
  <1>1. CASE UNCHANGED vars
    <2>1. /\ \A i \in Jobs : FilesStand(i) /\ sent'[i] = sent[i]
          /\ TypeOK' /\ call' = call /\ OneAtATime'
      BY <1>1 DEF vars, files, seen, FilesStand, IInv, TypeOK, OneAtATime, Holds, JobOf
    <2>2. ASSUME NEW p \in Procs
          PROVE  CallInv(p)'
      <3>1. ASSUME NEW j \in Jobs
            PROVE  Torn(j)' = Torn(j)
        BY <1>1 DEF vars, files, Torn
      <3>2. ASSUME NEW j \in Jobs, NEW u \in UnitIds, NEW a \in Attempts, At(p, j, u, a)'
            PROVE  Replays(p, j, u, a)'
        BY <2>1, <3>2, CallStands DEF IInv, CallInv, At, JobOf
      <3> QED BY <2>1, <3>1, <3>2 DEF IInv, CallInv, JobOf
    <2>3. \A j \in Jobs : JobInv(j)'
      BY <2>1, JobStands DEF IInv
    <2> QED BY <2>1, <2>2, <2>3 DEF IInv
  <1>2. ASSUME NEW p \in Procs, Step(p)
        PROVE  IInv'
    <2>1. CASE (\E ask \in Asks : Call(p, ask)) \/ Lock(p)
      BY <2>1, CallKeeps, LockKeeps
    <2>2. CASE ~((\E ask \in Asks : Call(p, ask)) \/ Lock(p))
      <3>1. call[p].phase \in Steps
        BY <1>2, <2>2 DEF Step, FreezeRequest, Attempt, NotSent, Send, Reply, Record,
           LoadResult, WriteUnit, PublishJob, Kill, Steps
      <3>2. PICK j \in Jobs, u \in UnitIds, a \in Attempts : Holding(p, j, u, a)
        BY <3>1, HolderAt
      <3> QED
        BY <1>2, <2>2, <3>2, FreezeRequestKeeps, AttemptKeeps, NotSentReplyKeep,
           SendKeeps, RecordKeeps, LoadResultKeeps, WriteUnitKeeps, PublishJobKeeps,
           KillKeeps
        DEF Step
    <2> QED BY <2>1, <2>2
  <1> QED BY <1>1, <1>2 DEF Next

\* The files of every job agree, one call at a time holds a job, and what a
\* call has in memory is what the files replay to, in every reachable state.
THEOREM Invariance == Spec => []IInv
  <1> QED BY InvInit, InvNext, PTL DEF Spec

\* No request goes out twice in the same attempt.
THEOREM SendsAreSingle == Spec => []NothingIsSentTwice
  <1>1. IInv => NothingIsSentTwice
    BY DEF IInv, JobInv, Sendings, NothingIsSentTwice, Slots
  <1> QED BY Invariance, <1>1, PTL

\* A call is told "blocked" only over a file of its job that was cut short.
THEOREM BlockedMeansTorn == Spec => []OnlyTornFilesBlock
  <1>1. ASSUME IInv
        PROVE  OnlyTornFilesBlock
    <2> SUFFICES ASSUME NEW p \in Procs, call[p].phase = "told",
                        call[p].why = "blocked"
                 PROVE  Torn(JobOf(p))
      BY DEF OnlyTornFilesBlock
    <2>1. call[p] \in Tolds
      BY <1>1 DEF IInv, TypeOK, Idles, Works, Working, Steps
    <2>2. JobOf(p) \in Jobs
      BY <2>1 DEF Tolds, JobOf, Jobs
    <2> QED BY <1>1, <2>2 DEF IInv, CallInv
  <1> QED BY Invariance, <1>1, PTL

-----------------------------------------------------------------------------
(* The budget: what was sent and charged is in the ledgers                 *)

SentSlots(j)   == {s \in Slots : sent[j][s] > 0}
ResentSlots(j) == {s \in SentSlots(j) : s[2] > 1}

\* The ledger accounts for all that job j was charged and has sent, on top of
\* the ledger it continues.
Covered(j, ledger) ==
    LET first == request[j].ledger
    IN  /\ bill[j] + first.tokens <= ledger.tokens
        /\ Cardinality(SentSlots(j)) + first.attempts <= ledger.attempts
        /\ Cardinality(ResentSlots(j)) + (first.attempts - first.units)
               <= ledger.attempts - ledger.units

\* The ledger that a job starts with is the one of the job it continues.
Continues(ask, ledger) ==
    /\ ask.prior = Nothing => ledger = Empty
    /\ ask.prior # Nothing =>
           done[ask.prior] # Nothing /\ ledger = done[ask.prior].ledger

PriorInv(j) ==
    request[j] \in Requests =>
        /\ Continues(request[j].ask, request[j].ledger)
        /\ request[j].ask.prior # j
        /\ request[j].ledger.units <= request[j].ledger.attempts

\* Wherever a job can go on, the ledger it goes on from covers it: before an
\* attempt that is not reserved, behind the success of a unit that has no
\* record, and at the end.
CoverInv(j) ==
    /\ IsFiniteSet(SentSlots(j))
    /\ request[j] \notin Requests => bill[j] = 0 /\ SentSlots(j) = {}
    /\ \A u \in UnitIds, a \in Attempts :
           Reached(j, u, a) /\ reserved[j][<<u, a>>] = Nothing =>
               Covered(j, Before(j, u, a))
    /\ \A u \in UnitIds, a \in Attempts :
           Success(j, u, a) /\ unit[j][u] \notin Ledgers =>
               Covered(j, result[j][<<u, a>>].ledger)
    /\ unit[j][UnitsOf[j]] \in Ledgers => Covered(j, unit[j][UnitsOf[j]])

\* A call about to send has room for what it sends; one that waits knows what
\* it was charged; a result worth going on from is covered.
Spends(p, j, a) ==
    LET c == call[p]
        first == request[j].ledger
        again == IF a > 1 THEN 1 ELSE 0
    IN  /\ c.phase = "send" =>
               /\ bill[j] + first.tokens <= c.ledger.tokens
               /\ Cardinality(SentSlots(j)) + 1 + first.attempts <= c.ledger.attempts
               /\ Cardinality(ResentSlots(j)) + again + (first.attempts - first.units)
                      <= c.ledger.attempts - c.ledger.units
               /\ c.ledger.tokens + Plan <= c.ask.limit
               /\ c.ledger.attempts <= MaxAttempts
               /\ c.ledger.attempts - c.ledger.units <= MaxRetries
        /\ c.phase = "wait" =>
               /\ bill[j] + first.tokens <= c.ledger.tokens + c.outcome.usage
               /\ Cardinality(SentSlots(j)) + first.attempts <= c.ledger.attempts
               /\ Cardinality(ResentSlots(j)) + (first.attempts - first.units)
                      <= c.ledger.attempts - c.ledger.units
        /\ c.phase = "record" /\ (c.outcome.status = "succeeded" \/ c.outcome.retry) =>
               Covered(j, c.ledger)

CallCover(p) ==
    /\ call[p].phase \in {"lock", "request"} => Continues(call[p].ask, call[p].ledger)
    /\ \A j \in Jobs, u \in UnitIds, a \in Attempts :
           At(p, j, u, a) => Spends(p, j, a)

BudgetInv ==
    /\ \A j \in Jobs : CoverInv(j) /\ PriorInv(j)
    /\ \A p \in Procs : CallCover(p)

-----------------------------------------------------------------------------
(* What moves and what stands                                              *)

DoneStands == \A k \in Jobs : done[k] # Nothing => done'[k] = done[k]

MoneyStands(j) == sent'[j] = sent[j] /\ bill'[j] = bill[j]

\* The account of a job stands with its files.
LEMMA CoverStands ==
  ASSUME NEW j \in Jobs, CoverInv(j), FilesStand(j), MoneyStands(j)
  PROVE  CoverInv(j)'
  <1>1. /\ SentSlots(j)' = SentSlots(j) /\ ResentSlots(j)' = ResentSlots(j)
        /\ request'[j] = request[j] /\ bill'[j] = bill[j] /\ unit'[j] = unit[j]
        /\ reserved'[j] = reserved[j] /\ result'[j] = result[j]
    BY DEF SentSlots, ResentSlots, FilesStand, MoneyStands
  <1>2. ASSUME NEW ledger
        PROVE  Covered(j, ledger)' = Covered(j, ledger)
    BY <1>1 DEF Covered
  <1>3. ASSUME NEW u \in UnitIds, NEW a \in Attempts
        PROVE  /\ Reached(j, u, a)' = Reached(j, u, a)
               /\ Before(j, u, a)' = Before(j, u, a)
               /\ Success(j, u, a)' = Success(j, u, a)
    BY <1>1 DEF Reached, Again, Before, Success
  <1>4. \A u \in UnitIds, a \in Attempts :
            Reached(j, u, a)' /\ reserved'[j][<<u, a>>] = Nothing =>
                Covered(j, Before(j, u, a))'
    <2>1. ASSUME NEW u \in UnitIds, NEW a \in Attempts
          PROVE  Covered(j, Before(j, u, a))' = Covered(j, Before(j, u, a))
      BY <1>1, <1>3 DEF Covered
    <2> QED BY <1>1, <1>3, <2>1 DEF CoverInv
  <1>5. \A u \in UnitIds, a \in Attempts :
            Success(j, u, a)' /\ unit'[j][u] \notin Ledgers =>
                Covered(j, result[j][<<u, a>>].ledger)'
    BY <1>1, <1>3 DEF CoverInv, Covered
  <1>6. unit'[j][UnitsOf[j]] \in Ledgers => Covered(j, unit[j][UnitsOf[j]])'
    BY <1>1 DEF CoverInv, Covered
  <1> QED BY <1>1, <1>4, <1>5, <1>6 DEF CoverInv

\* What a job continues is published for good.
LEMMA ContinuesStands ==
  ASSUME NEW ask \in Asks, NEW ledger, Continues(ask, ledger), DoneStands
  PROVE  Continues(ask, ledger)'
  <1>1. ask.prior \in Jobs \cup {Nothing}
    BY JournalAssumption
  <1> QED BY <1>1 DEF Continues, DoneStands

\* So is what the request of a job says of it.
LEMMA PriorStays ==
  ASSUME TypeOK, NEW j \in Jobs, PriorInv(j), request'[j] = request[j], DoneStands
  PROVE  PriorInv(j)'
  <1>1. request[j] \in Requests => request[j].ask \in Asks
    BY DEF Requests
  <1> QED BY <1>1, ContinuesStands DEF PriorInv, Continues, DoneStands

\* A step of the holder that is safe for his job and himself is safe for the
\* budget of everyone.
LEMMA BudgetStep ==
  ASSUME IInv, IInv', BudgetInv, NEW p \in Procs, NEW j \in Jobs, Holds(p, j),
         \A q \in Procs \ {p} : call'[q] = call[q],
         \A i \in Jobs \ {j} : FilesStand(i) /\ MoneyStands(i),
         DoneStands, CoverInv(j)', PriorInv(j)', CallCover(p)'
  PROVE  BudgetInv'
  <1>1. ASSUME NEW i \in Jobs \ {j}
        PROVE  CoverInv(i)' /\ PriorInv(i)'
    BY CoverStands, PriorStays DEF BudgetInv, IInv, FilesStand
  <1>2. ASSUME NEW q \in Procs \ {p}
        PROVE  CallCover(q)'
    <2>1. call'[q] = call[q] /\ CallCover(q)
      BY DEF BudgetInv
    <2>2. ASSUME call[q].phase \in {"lock", "request"}
          PROVE  Continues(call[q].ask, call[q].ledger)'
      <3>1. call[q].ask \in Asks
        BY <2>2, WorkTypes DEF IInv, Working, Steps
      <3>2. Continues(call[q].ask, call[q].ledger)
        BY <2>1, <2>2 DEF CallCover
      <3> QED BY <2>1, <3>1, <3>2, JournalAssumption DEF Continues, DoneStands
    <2>3. ASSUME NEW i \in Jobs, NEW u \in UnitIds, NEW a \in Attempts,
                 At(q, i, u, a)'
          PROVE  Spends(q, i, a)'
      <3>1. At(q, i, u, a)
        BY <2>1, <2>3 DEF At, JobOf
      <3>2. i # j
        BY <3>1 DEF At, Holds, IInv, OneAtATime
      <3>3. Spends(q, i, a) /\ FilesStand(i) /\ MoneyStands(i)
        BY <2>1, <3>1, <3>2 DEF CallCover
      <3> QED BY <2>1, <3>3
              DEF Spends, FilesStand, MoneyStands, SentSlots, ResentSlots, Covered
    <2> QED BY <2>1, <2>2, <2>3 DEF CallCover
  <1> QED BY <1>1, <1>2 DEF BudgetInv

\* A call that neither waits for the lock nor spends owes nothing.
LEMMA Careless ==
  ASSUME NEW p \in Procs,
         call'[p].phase \notin {"lock", "request", "send", "wait", "record"}
  PROVE  CallCover(p)'
  BY DEF CallCover, Spends

\* Every step of a holder moves him and his job only.
LEMMA HolderFrame ==
  ASSUME NEW p \in Procs, NEW j \in Jobs, NEW u \in UnitIds, NEW a \in Attempts,
         Holding(p, j, u, a),
         \/ FreezeRequest(p) \/ Attempt(p) \/ NotSent(p) \/ Send(p) \/ Reply(p)
         \/ Record(p) \/ LoadResult(p) \/ WriteUnit(p) \/ PublishJob(p) \/ Kill(p)
  PROVE  /\ \A q \in Procs \ {p} : call'[q] = call[q]
         /\ \A i \in Jobs \ {j} : FilesStand(i) /\ MoneyStands(i)
         /\ DoneStands
  <1>1. /\ TypeOK /\ JobOf(p) = j /\ SlotOf(p) = <<u, a>> /\ call[p].unit = u
    BY DEF Holding
  <1>2. CASE FreezeRequest(p)
    BY <1>1, <1>2
    DEF FreezeRequest, Goto, Answer, TypeOK, FilesStand, MoneyStands, DoneStands, seen
  <1>3. CASE Attempt(p)
    BY <1>1, <1>3
    DEF Attempt, Answer, TypeOK, FilesStand, MoneyStands, DoneStands, seen
  <1>4. CASE NotSent(p) \/ Reply(p) \/ Send(p)
    BY <1>1, <1>4
    DEF NotSent, Reply, Send, Learn, TypeOK, FilesStand, MoneyStands, DoneStands,
        files, seen
  <1>5. CASE Record(p) \/ LoadResult(p)
    BY <1>1, <1>5
    DEF Record, LoadResult, Proceed, Answer, TypeOK, FilesStand, MoneyStands,
        DoneStands, files, seen
  <1>6. CASE WriteUnit(p)
    BY <1>1, <1>6
    DEF WriteUnit, Answer, TypeOK, FilesStand, MoneyStands, DoneStands, seen
  <1>7. CASE PublishJob(p)
    BY <1>1, <1>7
    DEF PublishJob, Answer, TypeOK, FilesStand, MoneyStands, DoneStands, seen
  <1>8. CASE Kill(p)
    BY <1>1, <1>8
    DEF Kill, LeaveHalf, TypeOK, FilesStand, MoneyStands, DoneStands, seen
  <1> QED BY <1>2, <1>3, <1>4, <1>5, <1>6, <1>7, <1>8

-----------------------------------------------------------------------------
(* The budget, action by action                                            *)

\* The ledger of a published job covers it and is a ledger with no more units
\* than attempts.
LEMMA DoneCovered ==
  ASSUME IInv, BudgetInv, NEW k \in Jobs, done[k] # Nothing
  PROVE  /\ Covered(k, done[k].ledger) /\ done[k].ledger \in Ledgers
         /\ request[k] \in Requests
         /\ done[k].ledger.units <= done[k].ledger.attempts
  <1>1. /\ request[k] \in Requests /\ done[k].ledger = unit[k][UnitsOf[k]]
        /\ unit[k][UnitsOf[k]] \in Ledgers
    <2>1. Published(k)
      BY DEF IInv, JobInv
    <2> QED BY <2>1 DEF Published
  <1>2. /\ Covered(k, done[k].ledger) /\ IsFiniteSet(SentSlots(k))
        /\ request[k].ledger.units <= request[k].ledger.attempts
    BY <1>1 DEF BudgetInv, CoverInv, PriorInv
  <1>3. Cardinality(ResentSlots(k)) \in Nat
    BY <1>2, FS_Subset, FS_CardinalityType DEF ResentSlots
  <1>4. /\ request[k].ledger.units \in Nat /\ request[k].ledger.attempts \in Nat
        /\ done[k].ledger.units \in Nat /\ done[k].ledger.attempts \in Nat
    BY <1>1 DEF Requests, Ledgers
  <1> QED BY <1>1, <1>2, <1>3, <1>4 DEF Covered

\* A call that is begun or waits for the lock continues what is published.
LEMMA CallBudget ==
  ASSUME IInv, IInv', BudgetInv, NEW p \in Procs,
         \/ \E ask \in Asks : Call(p, ask)
         \/ Lock(p)
  PROVE  BudgetInv'
  <1>1. UNCHANGED <<files, seen>>
    BY DEF Call, Lock
  <1>2. /\ \A i \in Jobs : FilesStand(i) /\ MoneyStands(i)
        /\ DoneStands
    BY <1>1 DEF files, seen, FilesStand, MoneyStands, DoneStands
  <1>3. \A q \in Procs \ {p} : call'[q] = call[q]
    BY DEF Call, Lock, Goto, Answer, IInv, TypeOK
  <1>4. CallCover(p)'
    <2>1. CASE \E ask \in Asks : Call(p, ask)
      <3>1. PICK ask \in Asks : Call(p, ask)
        BY <2>1
      <3>2. CASE PriorStands(ask)
        <4>1. call'[p] = [phase |-> "lock", ask |-> ask, ledger |-> Carried(ask),
                          unit |-> 1, attempt |-> 1, outcome |-> Nothing]
          BY <3>1, <3>2 DEF Call, IInv, TypeOK
        <4>2. Continues(call[p].ask, call[p].ledger)'
          BY <1>1, <3>2, <4>1 DEF Continues, Carried, PriorStands, files
        <4> QED BY <4>1, <4>2 DEF CallCover, At, Steps
      <3>3. CASE ~PriorStands(ask)
        <4>1. call'[p].phase = "told"
          BY <3>1, <3>3 DEF Call, IInv, TypeOK
        <4> QED BY <4>1, Careless
      <3> QED BY <3>2, <3>3
    <2>2. CASE Lock(p)
      <3>1. /\ call[p] \in Works /\ call[p].phase = "lock" /\ CallCover(p)
        BY <2>2, WorkTypes DEF Lock, IInv, BudgetInv, Working
      <3>2. CASE Answer(p, "busy")
        <4>1. call'[p].phase = "told"
          BY <3>2 DEF Answer, IInv, TypeOK
        <4> QED BY <4>1, Careless
      <3>3. CASE Goto(p, "request")
        <4>1. /\ call'[p].phase = "request" /\ call'[p].ask = call[p].ask
              /\ call'[p].ledger = call[p].ledger
          BY <3>1, <3>3 DEF Goto, IInv, TypeOK, Works
        <4>2. Continues(call[p].ask, call[p].ledger) /\ done' = done
          BY <1>1, <3>1 DEF CallCover, files
        <4>3. Continues(call[p].ask, call[p].ledger)'
          BY <4>1, <4>2 DEF Continues
        <4> QED BY <4>1, <4>3 DEF CallCover, Spends
      <3> QED BY <2>2, <3>2, <3>3 DEF Lock
    <2> QED BY <2>1, <2>2
  <1>5. ASSUME NEW i \in Jobs
        PROVE  CoverInv(i)' /\ PriorInv(i)'
    BY <1>2, CoverStands, PriorStays DEF BudgetInv, IInv, FilesStand
  <1>6. ASSUME NEW q \in Procs \ {p}
        PROVE  CallCover(q)'
    <2>1. call'[q] = call[q] /\ CallCover(q)
      BY <1>3 DEF BudgetInv
    <2>2. ASSUME call[q].phase \in {"lock", "request"}
          PROVE  Continues(call[q].ask, call[q].ledger)'
      BY <1>1, <2>1, <2>2 DEF CallCover, Continues, files
    <2>3. ASSUME NEW i \in Jobs, NEW u \in UnitIds, NEW a \in Attempts,
                 At(q, i, u, a)'
          PROVE  Spends(q, i, a)'
      <3>1. At(q, i, u, a)
        BY <2>1, <2>3 DEF At, JobOf
      <3>2. Spends(q, i, a) /\ FilesStand(i) /\ MoneyStands(i)
        BY <1>2, <2>1, <3>1 DEF CallCover
      <3> QED BY <2>1, <3>2
              DEF Spends, FilesStand, MoneyStands, SentSlots, ResentSlots, Covered
    <2> QED BY <2>1, <2>2, <2>3 DEF CallCover
  <1> QED BY <1>4, <1>5, <1>6 DEF BudgetInv

\* Steps of a holder that touch neither files nor money.
LEMMA IdleBudget ==
  ASSUME NEW p \in Procs, NEW j \in Jobs, NEW u \in UnitIds, NEW a \in Attempts,
         IInv, IInv', BudgetInv, Holding(p, j, u, a),
         \/ FreezeRequest(p) \/ Attempt(p) \/ NotSent(p) \/ Send(p) \/ Reply(p)
         \/ Record(p) \/ LoadResult(p) \/ WriteUnit(p) \/ PublishJob(p) \/ Kill(p),
         FilesStand(j), MoneyStands(j), CallCover(p)'
  PROVE  BudgetInv'
  <1>1. /\ \A q \in Procs \ {p} : call'[q] = call[q]
        /\ \A i \in Jobs \ {j} : FilesStand(i) /\ MoneyStands(i)
        /\ DoneStands /\ Holds(p, j)
    BY HolderFrame DEF Holding
  <1>2. CoverInv(j)'
    BY CoverStands DEF BudgetInv
  <1>3. PriorInv(j)'
    BY <1>1, PriorStays DEF BudgetInv, IInv, FilesStand
  <1> QED BY <1>1, <1>2, <1>3, BudgetStep

\* The frozen request carries the ledger of what it continues, and the job has
\* spent nothing yet.
LEMMA FreezeRequestBudget ==
  ASSUME NEW p \in Procs, NEW j \in Jobs, NEW u \in UnitIds, NEW a \in Attempts,
         IInv, IInv', BudgetInv, Holding(p, j, u, a), FreezeRequest(p)
  PROVE  BudgetInv'
  <1> DEFINE frozen == [ask |-> call[p].ask, ledger |-> call[p].ledger]
  <1>1. /\ TypeOK /\ call[p] \in Works /\ call[p].ledger \in Ledgers /\ JobInv(j)
        /\ call[p].ask \in Asks /\ call[p].phase = "request" /\ JobOf(p) = j
        /\ Holds(p, j)
        /\ UNCHANGED <<reserved, result, unit, done, seen>>
    BY DEF Holding, FreezeRequest
  <1>2. Continues(call[p].ask, call[p].ledger)
    BY <1>1 DEF BudgetInv, CallCover
  <1>3. call'[p].phase \in {"attempt", "told"}
    BY <1>1 DEF FreezeRequest, Goto, Answer, TypeOK, Works
  <1>4. CallCover(p)'
    BY <1>3, Careless
  <1>5. CASE request'[j] = request[j]
    BY <1>1, <1>4, <1>5, IdleBudget DEF FilesStand, MoneyStands, seen
  <1>6. CASE request[j] = Nothing /\ request'[j] = frozen
    <2>1. request[j] \notin Requests /\ request' [j] \in Requests
      BY <1>1, <1>6, Wholes DEF Requests
    <2>2. bill'[j] = 0 /\ SentSlots(j)' = {} /\ ResentSlots(j)' = {}
      BY <1>1, <2>1 DEF BudgetInv, CoverInv, SentSlots, ResentSlots, seen
    <2>3. PriorInv(j)'
      <3>1. request'[j].ask = call[p].ask /\ request'[j].ledger = call[p].ledger
        BY <1>6
      <3>2. call[p].ask.prior # j
        BY <1>2, <2>1, DoneCovered, Wholes DEF Continues
      <3>3. call[p].ledger.units <= call[p].ledger.attempts
        <4>1. CASE call[p].ask.prior = Nothing
          BY <1>2, <4>1 DEF Continues, Empty
        <4>2. CASE call[p].ask.prior # Nothing
          BY <1>1, <1>2, <4>2, DoneCovered, JournalAssumption DEF Continues
        <4> QED BY <4>1, <4>2
      <3>4. Continues(request[j].ask, request[j].ledger)'
        BY <1>1, <1>2, <3>1 DEF Continues
      <3> QED BY <3>1, <3>2, <3>3, <3>4 DEF PriorInv
    <2>4. Covered(j, request[j].ledger)'
      <3>1. request'[j].ledger \in Ledgers
        BY <2>1 DEF Requests
      <3> QED BY <2>2, <3>1, FS_EmptySet DEF Covered, Ledgers
    <2>5. CoverInv(j)'
      <3>0. /\ \A v \in UnitIds : unit'[j][v] = Nothing
            /\ \A v \in UnitIds, b \in Attempts : result'[j][<<v, b>>] = Nothing
        <4>1. 1 \in Attempts
          BY DEF Attempts
        <4> QED BY <1>1, <2>1, <4>1, NoRequestNoFiles
      <3>1. ASSUME NEW v \in UnitIds, NEW b \in Attempts, Reached(j, v, b)'
            PROVE  Before(j, v, b)' = request'[j].ledger
        <4>0. \A w \in UnitIds : w < v => unit'[j][w] \in Ledgers
          BY <3>1 DEF Reached
        <4>1. v = 1
          <5>1. 1 \in UnitIds /\ (v = 1 \/ 1 < v)
            BY <1>1, UnitTypes
          <5> QED BY <3>0, <4>0, <5>1, Wholes
        <4>2. b = 1
          BY <3>0, <3>1, Wholes DEF Reached, Again, Attempts
        <4> QED BY <4>1, <4>2 DEF Before
      <3>2. \A v \in UnitIds, b \in Attempts : ~Success(j, v, b)'
        BY <3>0, Wholes DEF Success
      <3>3. unit'[j][UnitsOf[j]] \notin Ledgers
        BY <3>0, UnitTypes, Wholes
      <3>4. IsFiniteSet(SentSlots(j))'
        BY <2>2, FS_EmptySet
      <3>5. ASSUME NEW v \in UnitIds, NEW b \in Attempts, Reached(j, v, b)'
            PROVE  Covered(j, Before(j, v, b))'
        BY <2>4, <3>1, <3>5 DEF Covered
      <3> QED BY <2>1, <3>2, <3>3, <3>4, <3>5 DEF CoverInv
    <2> QED BY <1>1, <1>4, <2>3, <2>5, HolderFrame, BudgetStep
  <1> QED BY <1>1, <1>5, <1>6 DEF FreezeRequest, TypeOK

\* A call at work in job j owes what Spends says of its place.
LEMMA SpendsAt ==
  ASSUME NEW p \in Procs, NEW j \in Jobs, NEW a \in Attempts,
         call'[p].phase \notin {"lock", "request"}, call'[p].ask.job = j,
         call'[p].attempt = a, Spends(p, j, a)'
  PROVE  CallCover(p)'
  BY DEF CallCover, At, JobOf

\* The account of a job stands when each place it can go on from has a ledger
\* that covers it.
LEMMA CoverMoves ==
  ASSUME NEW j \in Jobs, CoverInv(j), MoneyStands(j), request'[j] = request[j],
         \A u \in UnitIds, a \in Attempts :
             Reached(j, u, a)' /\ reserved'[j][<<u, a>>] = Nothing =>
                 \E ledger : Covered(j, ledger) /\ Before(j, u, a)' = ledger,
         \A u \in UnitIds, a \in Attempts :
             Success(j, u, a)' /\ unit'[j][u] \notin Ledgers =>
                 \E ledger : Covered(j, ledger) /\ result'[j][<<u, a>>].ledger = ledger,
         unit'[j][UnitsOf[j]] \in Ledgers => Covered(j, unit'[j][UnitsOf[j]])
  PROVE  CoverInv(j)'
  <1>1. /\ SentSlots(j)' = SentSlots(j) /\ ResentSlots(j)' = ResentSlots(j)
        /\ bill'[j] = bill[j]
    BY DEF SentSlots, ResentSlots, MoneyStands
  <1>2. ASSUME NEW u \in UnitIds, NEW a \in Attempts,
               Reached(j, u, a)', reserved'[j][<<u, a>>] = Nothing
        PROVE  Covered(j, Before(j, u, a))'
    <2>1. PICK ledger : Covered(j, ledger) /\ Before(j, u, a)' = ledger
      BY <1>2
    <2> QED BY <1>1, <2>1 DEF Covered
  <1>3. ASSUME NEW u \in UnitIds, NEW a \in Attempts,
               Success(j, u, a)', unit'[j][u] \notin Ledgers
        PROVE  Covered(j, result[j][<<u, a>>].ledger)'
    <2>1. PICK ledger : Covered(j, ledger) /\ result'[j][<<u, a>>].ledger = ledger
      BY <1>3
    <2> QED BY <1>1, <2>1 DEF Covered
  <1>4. unit'[j][UnitsOf[j]] \in Ledgers => Covered(j, unit[j][UnitsOf[j]])'
    BY <1>1 DEF Covered
  <1> QED BY <1>1, <1>2, <1>3, <1>4 DEF CoverInv

\* How much a job has sent is a number.
LEMMA SentCounts ==
  ASSUME IInv, BudgetInv, NEW j \in Jobs
  PROVE  /\ IsFiniteSet(SentSlots(j)) /\ IsFiniteSet(ResentSlots(j))
         /\ Cardinality(SentSlots(j)) \in Nat /\ Cardinality(ResentSlots(j)) \in Nat
         /\ bill[j] \in Nat
  <1>1. IsFiniteSet(SentSlots(j)) /\ bill[j] \in Nat
    BY DEF BudgetInv, CoverInv, IInv, TypeOK
  <1>2. ResentSlots(j) \subseteq SentSlots(j)
    BY DEF ResentSlots
  <1> QED BY <1>1, <1>2, FS_Subset, FS_CardinalityType

\* A reservation that is made finds the job covered, and has the room it asks
\* for.
LEMMA AttemptBudget ==
  ASSUME NEW p \in Procs, NEW j \in Jobs, NEW u \in UnitIds, NEW a \in Attempts,
         IInv, IInv', BudgetInv, Holding(p, j, u, a), Attempt(p)
  PROVE  BudgetInv'
  <1> DEFINE ledger == Reserve(call[p].ledger, a)
  <1>1. /\ TypeOK /\ call[p] \in Works /\ call[p].ledger \in Ledgers /\ JobInv(j)
        /\ call[p].phase = "attempt" /\ JobOf(p) = j /\ SlotOf(p) = <<u, a>>
        /\ Holds(p, j) /\ call[p].attempt = a /\ call[p].unit = u
        /\ call[p].ask.job = j /\ call[p].ask \in Asks /\ <<u, a>> \in Slots
        /\ UNCHANGED <<request, result, unit, done, count, seen>>
    BY DEF Holding, Attempt
  <1>2. /\ Reached(j, u, a) /\ call[p].ledger = Before(j, u, a)
        /\ request[j] \in Requests /\ request[j].ask = call[p].ask
    BY <1>1 DEF Holding, Replays
  <1>3. CASE UNCHANGED reserved
    <2>1. FilesStand(j) /\ MoneyStands(j)
      BY <1>1, <1>3 DEF FilesStand, MoneyStands, seen
    <2>2. CASE call'[p].phase \notin {"lock", "request", "send", "wait", "record"}
      BY <2>1, <2>2, Careless, IdleBudget
    <2>3. CASE /\ reserved[j][<<u, a>>] = ledger
               /\ LET next == AfterReservation(j, <<u, a>>)
                  IN  call' = [call EXCEPT ![p].phase = next,
                          ![p].ledger = IF next = "record"
                                        THEN Charge(ledger, Interrupted)
                                        ELSE ledger,
                          ![p].outcome = Interrupted]
      <3>1. /\ call'[p].phase \in {"load", "record"} /\ call'[p].outcome = Interrupted
            /\ call'[p].ask.job = j /\ call'[p].attempt = a
        <4> HIDE DEF ledger
        <4> QED BY <1>1, <2>3 DEF AfterReservation, TypeOK, Works
      <3>2. Spends(p, j, a)'
        BY <3>1 DEF Spends, Interrupted
      <3> QED BY <2>1, <3>1, <3>2, SpendsAt, IdleBudget
    <2>4. CASE \E why \in {"budget", "blocked"} : Answer(p, why)
      <3>1. call'[p].phase = "told"
        BY <1>1, <2>4 DEF Answer, TypeOK
      <3> QED BY <2>2, <3>1
    <2>5. reserved[j][<<u, a>>] = Nothing => \E why \in {"budget", "blocked"} : Answer(p, why)
      <3>1. ASSUME reserved' = [reserved EXCEPT ![j][<<u, a>>] = ledger],
                   reserved[j][<<u, a>>] = Nothing
            PROVE  FALSE
        <4>1. reserved'[j][<<u, a>>] = ledger
          BY <1>1, <3>1 DEF TypeOK
        <4>2. ledger # Nothing
          BY <1>1, LedgerTypes, Wholes
        <4> QED BY <1>3, <3>1, <4>1, <4>2
      <3>2. ledger # Nothing
        BY <1>1, LedgerTypes, Wholes
      <3> QED BY <1>1, <1>3, <3>1, <3>2 DEF Attempt
    <2> QED BY <1>1, <2>3, <2>4, <2>5 DEF Attempt
  <1>4. CASE /\ Affordable(call[p].ledger, a, call[p].ask.limit)
             /\ reserved[j][<<u, a>>] = Nothing
             /\ reserved' = [reserved EXCEPT ![j][<<u, a>>] = ledger]
             /\ call' = [call EXCEPT ![p].phase = "send", ![p].ledger = ledger]
    <2>1. Covered(j, call[p].ledger)
      BY <1>2, <1>4 DEF BudgetInv, CoverInv
    <2>2. /\ call'[p].phase = "send" /\ call'[p].ledger = ledger
          /\ call'[p].ask = call[p].ask /\ call'[p].attempt = a
      <3> HIDE DEF ledger
      <3> QED BY <1>1, <1>4 DEF TypeOK, Works
    <2>3. MoneyStands(j) /\ SentSlots(j)' = SentSlots(j) /\ ResentSlots(j)' = ResentSlots(j)
      BY <1>1 DEF MoneyStands, SentSlots, ResentSlots, seen
    <2>4. Spends(p, j, a)'
      <3> DEFINE first == request[j].ledger
                 n == Cardinality(SentSlots(j))
                 m == Cardinality(ResentSlots(j))
      <3>1. /\ n \in Nat /\ m \in Nat /\ bill[j] \in Nat
            /\ first.units \in Nat /\ first.attempts \in Nat /\ first.tokens \in Nat
            /\ call[p].ledger.units \in Nat /\ call[p].ledger.attempts \in Nat
            /\ call[p].ledger.tokens \in Nat
        BY <1>1, <1>2, SentCounts DEF Requests, Ledgers
      <3>2. /\ bill[j] + first.tokens <= call[p].ledger.tokens
            /\ n + first.attempts <= call[p].ledger.attempts
            /\ m + (first.attempts - first.units)
                  <= call[p].ledger.attempts - call[p].ledger.units
        BY <2>1 DEF Covered
      <3>3. /\ ledger.tokens = call[p].ledger.tokens
            /\ ledger.attempts = call[p].ledger.attempts + 1
            /\ ledger.units = call[p].ledger.units + (IF a = 1 THEN 1 ELSE 0)
        BY <1>1 DEF Reserve, Ledgers
      <3>4. /\ ledger.attempts <= MaxAttempts
            /\ ledger.attempts - ledger.units <= MaxRetries
            /\ ledger.tokens + Plan <= call[p].ask.limit
        BY <1>4, <3>3 DEF Affordable
      <3>5. a > 1 <=> a # 1
        BY DEF Attempts
      <3>6. request'[j] = request[j] /\ bill'[j] = bill[j]
        BY <1>1, <2>3 DEF MoneyStands
      <3> HIDE DEF ledger, first, n, m
      <3>7. /\ bill[j] + first.tokens <= ledger.tokens
            /\ n + 1 + first.attempts <= ledger.attempts
            /\ m + (IF a > 1 THEN 1 ELSE 0) + (first.attempts - first.units)
                  <= ledger.attempts - ledger.units
        BY <3>1, <3>2, <3>3, <3>5
      <3> QED BY <2>2, <2>3, <3>4, <3>6, <3>7 DEF Spends, first, n, m
    <2>5. CoverInv(j)'
      <3>1. ASSUME NEW v \in UnitIds, NEW b \in Attempts
            PROVE  /\ Reached(j, v, b)' = Reached(j, v, b)
                   /\ Before(j, v, b)' = Before(j, v, b)
                   /\ Success(j, v, b)' = Success(j, v, b)
                   /\ reserved'[j][<<v, b>>] = Nothing => reserved[j][<<v, b>>] = Nothing
        <4>1. /\ Reached(j, v, b)' = Reached(j, v, b)
              /\ Before(j, v, b)' = Before(j, v, b)
              /\ Success(j, v, b)' = Success(j, v, b)
          BY <1>1 DEF Reached, Again, Before, Success
        <4>2. reserved'[j][<<v, b>>] = Nothing => reserved[j][<<v, b>>] = Nothing
          BY <1>1, <1>4, LedgerTypes, Wholes DEF TypeOK, Slots
        <4> QED BY <4>1, <4>2
      <3>2. /\ CoverInv(j) /\ request'[j] = request[j] /\ unit' = unit
            /\ result' = result
        BY <1>1 DEF BudgetInv
      <3>3. \A v \in UnitIds, b \in Attempts :
               Reached(j, v, b)' /\ reserved'[j][<<v, b>>] = Nothing =>
                   \E l : Covered(j, l) /\ Before(j, v, b)' = l
        BY <3>1, <3>2 DEF CoverInv
      <3>4. \A v \in UnitIds, b \in Attempts :
               Success(j, v, b)' /\ unit'[j][v] \notin Ledgers =>
                   \E l : Covered(j, l) /\ result'[j][<<v, b>>].ledger = l
        BY <3>1, <3>2 DEF CoverInv
      <3>5. unit'[j][UnitsOf[j]] \in Ledgers => Covered(j, unit'[j][UnitsOf[j]])
        BY <3>2 DEF CoverInv
      <3> QED BY <2>3, <3>2, <3>3, <3>4, <3>5, CoverMoves
    <2>6. CallCover(p)'
      BY <1>1, <2>2, <2>4, SpendsAt
    <2>7. PriorInv(j)'
      BY <1>1, HolderFrame, PriorStays DEF BudgetInv
    <2> QED BY <1>1, <2>5, <2>6, <2>7, HolderFrame, BudgetStep
  <1> QED BY <1>1, <1>3, <1>4 DEF Attempt

\* What is learnt of a call is charged at least what the provider charges, if
\* the job goes on from it.
LEMMA LearnBudget ==
  ASSUME NEW p \in Procs, NEW j \in Jobs, NEW u \in UnitIds, NEW a \in Attempts,
         IInv, IInv', BudgetInv, Holding(p, j, u, a), NotSent(p) \/ Reply(p)
  PROVE  BudgetInv'
  <1>1. /\ TypeOK /\ call[p] \in Works /\ call[p].ledger \in Ledgers
        /\ call[p].attempt = a /\ call[p].ask.job = j /\ Replays(p, j, u, a)
        /\ At(p, j, u, a) /\ call[p].phase \in {"send", "wait"}
        /\ UNCHANGED <<files, count, seen>>
    BY DEF Holding, NotSent, Reply
  <1>2. /\ FilesStand(j) /\ MoneyStands(j) /\ Spends(p, j, a)
        /\ request[j] \in Requests
    BY <1>1 DEF FilesStand, MoneyStands, files, seen, BudgetInv, CallCover, Replays
  <1> DEFINE first == request[j].ledger
             n == Cardinality(SentSlots(j))
             m == Cardinality(ResentSlots(j))
             ledger == call[p].ledger
  <1>3. /\ n \in Nat /\ m \in Nat /\ bill[j] \in Nat
        /\ first.units \in Nat /\ first.attempts \in Nat /\ first.tokens \in Nat
        /\ ledger.units \in Nat /\ ledger.attempts \in Nat /\ ledger.tokens \in Nat
    BY <1>1, <1>2, SentCounts DEF Requests, Ledgers
  <1>4. ASSUME NEW outcome \in Outcomes, Learn(p, outcome),
               outcome.status = "succeeded" \/ outcome.retry =>
                   Covered(j, Charge(ledger, outcome))
        PROVE  BudgetInv'
    <2>1. /\ call'[p].phase = "record" /\ call'[p].outcome = outcome
          /\ call'[p].ledger = Charge(ledger, outcome) /\ call'[p].ask = call[p].ask
          /\ call'[p].attempt = a
      BY <1>1, <1>4 DEF Learn, TypeOK, Works
    <2>2. request'[j] = request[j] /\ bill'[j] = bill[j] /\ sent'[j] = sent[j]
      BY <1>2 DEF FilesStand, MoneyStands
    <2>3. ASSUME outcome.status = "succeeded" \/ outcome.retry
          PROVE  Covered(j, call[p].ledger)'
      BY <1>4, <2>1, <2>2, <2>3 DEF Covered, SentSlots, ResentSlots
    <2>4. Spends(p, j, a)'
      BY <2>1, <2>3 DEF Spends
    <2> QED BY <1>1, <1>2, <2>1, <2>4, SpendsAt, IdleBudget
  <1>5. ASSUME NEW outcome \in Outcomes
        PROVE  /\ Charge(ledger, outcome).units = ledger.units
               /\ Charge(ledger, outcome).attempts = ledger.attempts
               /\ Charge(ledger, outcome).tokens =
                      ledger.tokens + (IF outcome.usage # Nothing THEN outcome.usage
                                       ELSE IF outcome.status = "unknown" THEN Plan ELSE 0)
    BY <1>1 DEF Charge, Ledgers
  <1>6. CASE NotSent(p)
    <2>1. PICK retry \in BOOLEAN :
             Learn(p, [status |-> "failed", retry |-> retry, usage |-> Nothing])
      BY <1>6 DEF NotSent
    <2> DEFINE outcome == [status |-> "failed", retry |-> retry, usage |-> Nothing]
    <2>2. /\ outcome \in Outcomes /\ outcome.usage = Nothing
          /\ outcome.status # "unknown"
      BY DEF Outcomes
    <2>3. Learn(p, outcome)
      BY <2>1
    <2> HIDE DEF outcome
    <2>4. /\ bill[j] + first.tokens <= ledger.tokens
          /\ n + 1 + first.attempts <= ledger.attempts
          /\ m + (IF a > 1 THEN 1 ELSE 0) + (first.attempts - first.units)
                <= ledger.attempts - ledger.units
      BY <1>2, <1>6 DEF Spends, NotSent
    <2>5. Charge(ledger, outcome).tokens = ledger.tokens
      BY <1>3, <1>5, <2>2
    <2>6. /\ n + first.attempts <= ledger.attempts
          /\ m + (first.attempts - first.units) <= ledger.attempts - ledger.units
      <3> HIDE DEF ledger, first, n, m
      <3>1. CASE a > 1
        BY <1>3, <2>4, <3>1
      <3>2. CASE ~(a > 1)
        BY <1>3, <2>4, <3>2
      <3> QED BY <3>1, <3>2
    <2>7. Covered(j, Charge(ledger, outcome))
      BY <1>5, <2>2, <2>4, <2>5, <2>6 DEF Covered
    <2> QED BY <1>4, <2>2, <2>3, <2>7
  <1>7. CASE Reply(p)
    <2> DEFINE used == call[p].outcome.usage
    <2>1. used \in Usages /\ used \in Nat /\ used # Nothing /\ Plan \in Nat
      BY <1>1, <1>7, JournalAssumption DEF Replays, Reply
    <2>2. /\ bill[j] + first.tokens <= ledger.tokens + used
          /\ n + first.attempts <= ledger.attempts
          /\ m + (first.attempts - first.units) <= ledger.attempts - ledger.units
      BY <1>2, <1>7 DEF Spends, Reply
    <2>3. ASSUME NEW outcome \in Outcomes, Learn(p, outcome),
                 ledger.tokens + used <= Charge(ledger, outcome).tokens
          PROVE  BudgetInv'
      <3>1. Charge(ledger, outcome).tokens \in Nat
        BY <1>1, <2>3, LedgerTypes DEF Ledgers
      <3>2. bill[j] + first.tokens <= Charge(ledger, outcome).tokens
        <4> HIDE DEF ledger, first, n, m, used
        <4> QED BY <1>3, <2>1, <2>2, <2>3, <3>1
      <3>3. Covered(j, Charge(ledger, outcome))
        BY <1>5, <2>2, <2>3, <3>2 DEF Covered
      <3> QED BY <1>4, <2>3, <3>3
    <2>4. ASSUME NEW status \in {"succeeded", "failed"},
                 Learn(p, [status |-> status, retry |-> FALSE, usage |-> used])
          PROVE  BudgetInv'
      <3> DEFINE outcome == [status |-> status, retry |-> FALSE, usage |-> used]
      <3>1. outcome \in Outcomes /\ outcome.usage = used
        BY <2>1 DEF Outcomes
      <3>2. Learn(p, outcome)
        BY <2>4
      <3> HIDE DEF outcome, used
      <3>3. Charge(ledger, outcome).tokens = ledger.tokens + used
        BY <1>5, <2>1, <3>1
      <3>4. ledger.tokens + used <= Charge(ledger, outcome).tokens
        <4> HIDE DEF ledger
        <4> QED BY <1>3, <2>1, <3>3
      <3> QED BY <2>3, <3>1, <3>2, <3>4
    <2>5. ASSUME Learn(p, Interrupted)
          PROVE  BudgetInv'
      <3>1. Interrupted \in Outcomes
        BY DEF Interrupted, Outcomes
      <3>2. ~(Interrupted.status = "succeeded" \/ Interrupted.retry)
        BY DEF Interrupted
      <3> QED BY <1>4, <2>5, <3>1, <3>2
    <2>6. ASSUME used <= Plan, Learn(p, [Interrupted EXCEPT !.retry = TRUE])
          PROVE  BudgetInv'
      <3> DEFINE outcome == [Interrupted EXCEPT !.retry = TRUE]
      <3>1. outcome \in Outcomes /\ outcome.usage = Nothing /\ outcome.status = "unknown"
        BY DEF Interrupted, Outcomes
      <3>2. Learn(p, outcome)
        BY <2>6
      <3> HIDE DEF outcome, used
      <3>3. Charge(ledger, outcome).tokens = ledger.tokens + Plan
        BY <1>5, <3>1
      <3>4. ledger.tokens + used <= Charge(ledger, outcome).tokens
        <4> HIDE DEF ledger
        <4> QED BY <1>3, <2>1, <2>6, <3>3
      <3> QED BY <2>3, <3>1, <3>2, <3>4
    <2> QED BY <1>7, <2>4, <2>5, <2>6 DEF Reply
  <1> QED BY <1>6, <1>7

\* A job has one open place: while an attempt has a reservation and no result,
\* no other is reached that has none, and no success waits for its record.
LEMMA OneOpenPlace ==
  ASSUME NEW j \in Jobs, NEW u \in UnitIds, NEW a \in Attempts, JobInv(j),
         Reached(j, u, a), u <= UnitsOf[j],
         reserved[j][<<u, a>>] \in Ledgers, result[j][<<u, a>>] = Nothing
  PROVE  /\ \A v \in UnitIds, b \in Attempts :
                /\ Reached(j, v, b) => reserved[j][<<v, b>>] # Nothing
                /\ Success(j, v, b) => unit[j][v] \in Ledgers
         /\ unit[j][u] \notin Ledgers /\ unit[j][UnitsOf[j]] \notin Ledgers
         /\ \A b \in Attempts : ~Success(j, u, b)
  <1>1. ASSUME NEW v \in UnitIds, NEW b \in Attempts, result[j][<<v, b>>] \in Results
        PROVE  reserved[j][<<v, b>>] \in Ledgers /\ Reached(j, v, b)
    <2>1. reserved[j][<<v, b>>] \in Ledgers
      BY <1>1, Wholes DEF JobInv, Outcoming
    <2> QED BY <2>1, Wholes DEF JobInv, Reservations
  <1>2. ASSUME NEW b \in Attempts, Success(j, u, b)
        PROVE  FALSE
    <2>1. Reached(j, u, b)
      BY <1>1, <1>2 DEF Success
    <2>2. b < a \/ b = a \/ a < b
      BY DEF Attempts
    <2> QED BY <1>2, <2>1, <2>2, Wholes DEF Reached, Again, Success
  <1>3. ASSUME NEW v \in UnitIds, unit[j][v] \in Ledgers
        PROVE  \E c \in Attempts : Success(j, v, c) /\ Reached(j, v, c)
    <2>1. PICK c \in Attempts : Success(j, v, c)
      BY <1>3, Wholes DEF JobInv, UnitRecords
    <2> QED BY <1>1, <2>1 DEF Success
  <1>4. unit[j][u] \notin Ledgers
    BY <1>2, <1>3
  <1>5. ASSUME NEW v \in UnitIds, NEW b \in Attempts, Reached(j, v, b)
        PROVE  v <= u /\ reserved[j][<<v, b>>] # Nothing
    <2>1. ~(u < v)
      BY <1>4, <1>5 DEF Reached
    <2>2. CASE v < u
      <3>1. PICK c \in Attempts : Success(j, v, c) /\ Reached(j, v, c)
        BY <1>3, <2>2 DEF Reached
      <3>2. b < c \/ b = c \/ c < b
        BY DEF Attempts
      <3>3. result[j][<<v, b>>] \in Results
        BY <1>5, <3>1, <3>2 DEF Reached, Again, Success
      <3> QED BY <1>1, <2>1, <2>2, <3>3, UnitTypes, Wholes
    <2>3. CASE v = u
      <3>1. b < a \/ b = a \/ a < b
        BY DEF Attempts
      <3>2. ~(a < b)
        BY <1>5, <2>3, Wholes DEF Reached, Again
      <3>3. b < a => result[j][<<v, b>>] \in Results
        BY <2>3 DEF Reached, Again
      <3> QED BY <1>1, <2>3, <3>1, <3>2, <3>3, UnitTypes, Wholes
    <2> QED BY <2>1, <2>2, <2>3, UnitTypes
  <1>6. ASSUME NEW v \in UnitIds, NEW b \in Attempts, Success(j, v, b)
        PROVE  unit[j][v] \in Ledgers
    <2>1. v <= u /\ v # u
      BY <1>1, <1>2, <1>5, <1>6 DEF Success
    <2> QED BY <2>1, UnitTypes DEF Reached
  <1>7. unit[j][UnitsOf[j]] \notin Ledgers
    <2>1. SUFFICES ASSUME unit[j][UnitsOf[j]] \in Ledgers
                   PROVE  FALSE
      OBVIOUS
    <2>2. PICK c \in Attempts : Success(j, UnitsOf[j], c) /\ Reached(j, UnitsOf[j], c)
      BY <1>3, <2>1, UnitTypes
    <2>3. UnitsOf[j] <= u
      BY <1>5, <2>2, UnitTypes
    <2> QED BY <1>4, <2>1, <2>3, UnitTypes
  <1> QED BY <1>2, <1>4, <1>5, <1>6, <1>7

\* A request that goes out is one more of its job, and one more repeated if it
\* is not the first attempt.
LEMMA SendCounts ==
  ASSUME NEW p \in Procs, NEW j \in Jobs, NEW u \in UnitIds, NEW a \in Attempts,
         IInv, BudgetInv, Holding(p, j, u, a), Send(p)
  PROVE  /\ IsFiniteSet(SentSlots(j)') /\ IsFiniteSet(ResentSlots(j)')
         /\ Cardinality(SentSlots(j)') = Cardinality(SentSlots(j)) + 1
         /\ Cardinality(ResentSlots(j)') =
                Cardinality(ResentSlots(j)) + (IF a > 1 THEN 1 ELSE 0)
  <1> DEFINE s == <<u, a>>
             n == Cardinality(SentSlots(j))
             m == Cardinality(ResentSlots(j))
  <1>1. /\ TypeOK /\ s \in Slots /\ sent[j][s] = 0
        /\ sent' = [sent EXCEPT ![j][s] = @ + 1]
    BY DEF Holding, Send, Replays
  <1>2. sent'[j][s] = 1 /\ \A t \in Slots \ {s} : sent'[j][t] = sent[j][t]
    BY <1>1 DEF TypeOK
  <1>3. SentSlots(j)' = SentSlots(j) \cup {s} /\ s \notin SentSlots(j)
    BY <1>1, <1>2 DEF SentSlots
  <1>4. /\ ResentSlots(j)' = IF a > 1 THEN ResentSlots(j) \cup {s} ELSE ResentSlots(j)
        /\ s \notin ResentSlots(j)
    BY <1>3 DEF ResentSlots
  <1>5. /\ IsFiniteSet(SentSlots(j)) /\ IsFiniteSet(ResentSlots(j))
        /\ n \in Nat /\ m \in Nat
    BY SentCounts
  <1>6. /\ IsFiniteSet(SentSlots(j) \cup {s})
        /\ Cardinality(SentSlots(j) \cup {s}) = n + 1
    BY <1>3, <1>5, FS_AddElement
  <1>7. /\ IsFiniteSet(ResentSlots(j) \cup {s})
        /\ Cardinality(ResentSlots(j) \cup {s}) = m + 1
    BY <1>4, <1>5, FS_AddElement
  <1>8. CASE a > 1
    BY <1>3, <1>4, <1>6, <1>7, <1>8
  <1>9. CASE ~(a > 1)
    <2>1. ResentSlots(j)' = ResentSlots(j) /\ m + 0 = m
      BY <1>4, <1>5, <1>9
    <2> QED BY <1>3, <1>5, <1>6, <1>9, <2>1
  <1> QED BY <1>8, <1>9

\* A request that goes out takes the room that its reservation asked for.
LEMMA SendBudget ==
  ASSUME NEW p \in Procs, NEW j \in Jobs, NEW u \in UnitIds, NEW a \in Attempts,
         IInv, IInv', BudgetInv, Holding(p, j, u, a), Send(p)
  PROVE  BudgetInv'
  <1> DEFINE s == <<u, a>>
             first == request[j].ledger
             n == Cardinality(SentSlots(j))
             m == Cardinality(ResentSlots(j))
             ledger == call[p].ledger
  <1>1. /\ TypeOK /\ call[p] \in Works /\ ledger \in Ledgers /\ JobInv(j)
        /\ call[p].attempt = a /\ call[p].ask.job = j /\ Replays(p, j, u, a)
        /\ At(p, j, u, a) /\ call[p].phase = "send" /\ JobOf(p) = j /\ Holds(p, j)
        /\ SlotOf(p) = s /\ s \in Slots /\ UNCHANGED <<files, count>>
    BY DEF Holding, Send
  <1>2. /\ request[j] \in Requests /\ Reached(j, u, a) /\ u <= UnitsOf[j]
        /\ reserved[j][s] = ledger /\ result[j][s] = Nothing /\ sent[j][s] = 0
    BY <1>1 DEF Replays
  <1>3. PICK used \in Usages :
           /\ sent' = [sent EXCEPT ![j][s] = @ + 1]
           /\ bill' = [bill EXCEPT ![j] = @ + used]
           /\ call' = [call EXCEPT ![p].phase = "wait",
                          ![p].outcome = [Interrupted EXCEPT !.usage = used]]
    BY <1>1 DEF Send
  <1>4. /\ call'[p].phase = "wait" /\ call'[p].outcome.usage = used
        /\ call'[p].ledger = ledger /\ call'[p].ask = call[p].ask
        /\ call'[p].attempt = a
    BY <1>1, <1>3 DEF TypeOK, Works, Interrupted
  <1>5. bill'[j] = bill[j] + used
    BY <1>1, <1>3 DEF TypeOK
  <1>7. n \in Nat /\ m \in Nat /\ bill[j] \in Nat /\ used \in Nat
    BY SentCounts, JournalAssumption
  <1>8. /\ IsFiniteSet(SentSlots(j)') /\ Cardinality(SentSlots(j)') = n + 1
        /\ Cardinality(ResentSlots(j)') = m + (IF a > 1 THEN 1 ELSE 0)
    BY SendCounts
  <1>9. Spends(p, j, a)
    BY <1>1 DEF BudgetInv, CallCover
  <1>10. Spends(p, j, a)'
    <2>1. /\ bill[j] + first.tokens <= ledger.tokens
          /\ n + 1 + first.attempts <= ledger.attempts
          /\ m + (IF a > 1 THEN 1 ELSE 0) + (first.attempts - first.units)
                <= ledger.attempts - ledger.units
      BY <1>1, <1>9 DEF Spends
    <2>2. /\ first.tokens \in Nat /\ ledger.tokens \in Nat
          /\ request'[j] = request[j]
      BY <1>1, <1>2 DEF Requests, Ledgers, files
    <2> HIDE DEF first, ledger, n, m
    <2>3. bill[j] + used + first.tokens <= ledger.tokens + used
      BY <1>7, <2>1, <2>2
    <2> QED BY <1>4, <1>5, <1>8, <2>1, <2>2, <2>3 DEF Spends, first, ledger, n, m
  <1>11. CoverInv(j)'
    <2>1. /\ \A v \in UnitIds, b \in Attempts :
                /\ Reached(j, v, b) => reserved[j][<<v, b>>] # Nothing
                /\ Success(j, v, b) => unit[j][v] \in Ledgers
          /\ unit[j][UnitsOf[j]] \notin Ledgers
      <3> HIDE DEF ledger
      <3> QED BY <1>1, <1>2, OneOpenPlace
    <2>2. \A v \in UnitIds, b \in Attempts :
             /\ Reached(j, v, b)' => reserved'[j][<<v, b>>] # Nothing
             /\ Success(j, v, b)' => unit'[j][v] \in Ledgers
      BY <1>1, <2>1 DEF files, Reached, Again, Success
    <2>3. unit'[j][UnitsOf[j]] \notin Ledgers /\ request'[j] \in Requests
      BY <1>1, <1>2, <2>1 DEF files
    <2> QED BY <1>8, <2>2, <2>3 DEF CoverInv
  <1>12. CallCover(p)'
    BY <1>1, <1>4, <1>10, SpendsAt
  <1>13. PriorInv(j)'
    BY <1>1, HolderFrame, PriorStays DEF BudgetInv, files
  <1> QED BY <1>1, <1>11, <1>12, <1>13, HolderFrame, BudgetStep

\* Behind a result the call stops, tries again or goes on to the unit's record.
LEMMA ProceedCareless ==
  ASSUME NEW p \in Procs, NEW ledger, NEW outcome, TypeOK, call[p] \in Works,
         Proceed(p, ledger, outcome)
  PROVE  CallCover(p)'
  <1>1. call'[p].phase \in {"told", "unit", "attempt"}
    BY DEF Proceed, Answer, TypeOK, Works
  <1> QED BY <1>1, Careless

\* A result that is written opens the next attempt or the unit's record, with
\* the ledger it says, or nothing.
LEMMA ResultCover ==
  ASSUME NEW j \in Jobs, NEW u \in UnitIds, NEW a \in Attempts,
         TypeOK, JobInv(j), CoverInv(j), Reached(j, u, a), u <= UnitsOf[j],
         reserved[j][<<u, a>>] \in Ledgers, result[j][<<u, a>>] = Nothing,
         NEW x \in Results \cup {Half},
         x \in Results /\ (x.outcome.status = "succeeded" \/ x.outcome.retry) =>
             Covered(j, x.ledger),
         result' = [result EXCEPT ![j][<<u, a>>] = x],
         UNCHANGED <<request, reserved, unit>>, MoneyStands(j)
  PROVE  CoverInv(j)'
  <1>1. \A v \in UnitIds, b \in Attempts :
            result'[j][<<v, b>>] = IF v = u /\ b = a THEN x
                                   ELSE result[j][<<v, b>>]
    BY DEF TypeOK, Slots
  <1>2. /\ \A v \in UnitIds, b \in Attempts :
              /\ Reached(j, v, b) => reserved[j][<<v, b>>] # Nothing
              /\ Success(j, v, b) => unit[j][v] \in Ledgers
        /\ unit[j][UnitsOf[j]] \notin Ledgers
    BY OneOpenPlace
  <1>3. ASSUME NEW v \in UnitIds, NEW b \in Attempts,
               Reached(j, v, b)', reserved'[j][<<v, b>>] = Nothing
        PROVE  \E ledger : Covered(j, ledger) /\ Before(j, v, b)' = ledger
    <2>1. ~Reached(j, v, b)
      BY <1>2, <1>3
    <2>2. PICK c \in Attempts : c < b /\ ~Again(j, v, c)
      BY <1>3, <2>1 DEF Reached
    <2>3. Again(j, v, c)'
      BY <1>3, <2>2 DEF Reached
    <2>4. v = u /\ c = a
      BY <1>1, <2>2, <2>3 DEF Again
    <2>5. x \in Results /\ x.outcome.retry /\ x.outcome.status # "succeeded"
      BY <1>1, <2>3, <2>4 DEF Again
    <2>6. b = a + 1
      <3>1. SUFFICES ASSUME b # a + 1
                     PROVE  FALSE
        OBVIOUS
      <3>2. a + 1 \in Attempts /\ a + 1 < b /\ a < a + 1 /\ a + 1 # a
        BY <2>2, <2>4, <3>1 DEF Attempts
      <3>3. result[j][<<u, a + 1>>] \in Results
        <4>1. Again(j, u, a + 1)'
          BY <1>3, <2>4, <3>2 DEF Reached
        <4>2. result'[j][<<u, a + 1>>] = result[j][<<u, a + 1>>]
          BY <1>1, <3>2
        <4> QED BY <4>1, <4>2 DEF Again
      <3>4. reserved[j][<<u, a + 1>>] \in Ledgers
        BY <3>2, <3>3, Wholes DEF JobInv, Outcoming
      <3>5. Reached(j, u, a + 1)
        BY <3>2, <3>4, Wholes DEF JobInv, Reservations
      <3> QED BY <3>2, <3>5, Wholes DEF Reached, Again
    <2>7. Before(j, v, b)' = x.ledger
      <3>1. b > 1 /\ b - 1 = a
        BY <2>6 DEF Attempts
      <3> QED BY <1>1, <2>4, <3>1 DEF Before
    <2> QED BY <2>5, <2>7
  <1>4. ASSUME NEW v \in UnitIds, NEW b \in Attempts,
               Success(j, v, b)', unit'[j][v] \notin Ledgers
        PROVE  \E ledger : Covered(j, ledger) /\ result'[j][<<v, b>>].ledger = ledger
    <2>1. ~Success(j, v, b)
      BY <1>2, <1>4
    <2>2. v = u /\ b = a
      BY <1>1, <1>4, <2>1 DEF Success
    <2>3. x \in Results /\ x.outcome.status = "succeeded" /\ result'[j][<<v, b>>] = x
      BY <1>1, <1>4, <2>2 DEF Success
    <2> QED BY <2>3
  <1>5. unit'[j][UnitsOf[j]] \notin Ledgers
    BY <1>2
  <1> QED BY <1>3, <1>4, <1>5, CoverMoves

\* Results are written, or found.
LEMMA ResultBudget ==
  ASSUME NEW p \in Procs, NEW j \in Jobs, NEW u \in UnitIds, NEW a \in Attempts,
         IInv, IInv', BudgetInv, Holding(p, j, u, a), Record(p) \/ LoadResult(p)
  PROVE  BudgetInv'
  <1>1. /\ TypeOK /\ call[p] \in Works /\ JobInv(j) /\ Replays(p, j, u, a)
        /\ At(p, j, u, a) /\ JobOf(p) = j /\ Holds(p, j) /\ SlotOf(p) = <<u, a>>
    BY DEF Holding
  <1>2. CallCover(p)'
    <2>1. ASSUME Answer(p, "blocked")
          PROVE  CallCover(p)'
      <3>1. call'[p].phase = "told"
        BY <1>1, <2>1 DEF Answer, TypeOK
      <3> QED BY <3>1, Careless
    <2> QED BY <1>1, <2>1, ProceedCareless DEF Record, LoadResult
  <1>3. CASE LoadResult(p)
    <2>1. FilesStand(j) /\ MoneyStands(j)
      BY <1>3 DEF LoadResult, FilesStand, MoneyStands, files, seen
    <2> QED BY <1>2, <1>3, <2>1, IdleBudget
  <1>4. CASE Record(p)
    <2> DEFINE x == [outcome |-> call[p].outcome, ledger |-> call[p].ledger]
    <2>1. /\ call[p].phase = "record" /\ UNCHANGED <<request, reserved, unit, done, seen>>
          /\ result' = [result EXCEPT ![j][<<u, a>>] = x]
      BY <1>1, <1>4 DEF Record
    <2>2. /\ Reached(j, u, a) /\ u <= UnitsOf[j] /\ result[j][<<u, a>>] = Nothing
          /\ reserved[j][<<u, a>>] \in Ledgers /\ call[p].outcome \in Outcomes
      BY <1>1, <2>1 DEF Replays
    <2>3. x \in Results
      BY <2>2 DEF Holding, Results
    <2>4. x.outcome.status = "succeeded" \/ x.outcome.retry => Covered(j, x.ledger)
      <3>1. Spends(p, j, a)
        BY <1>1 DEF BudgetInv, CallCover
      <3> QED BY <2>1, <3>1 DEF Spends
    <2>5. MoneyStands(j) /\ CoverInv(j)
      BY <2>1 DEF MoneyStands, seen, BudgetInv
    <2> HIDE DEF x
    <2>6. CoverInv(j)'
      BY <1>1, <2>1, <2>2, <2>3, <2>4, <2>5, ResultCover
    <2>7. PriorInv(j)'
      BY <1>1, <1>4, <2>1, HolderFrame, PriorStays DEF BudgetInv
    <2> QED BY <1>1, <1>2, <1>4, <2>6, <2>7, HolderFrame, BudgetStep
  <1> QED BY <1>3, <1>4

\* A unit's record opens the first attempt of the next unit, or the end, with
\* the ledger it says; one cut short opens nothing.
LEMMA UnitCover ==
  ASSUME NEW j \in Jobs, NEW u \in UnitIds, NEW a \in Attempts,
         TypeOK, JobInv(j), CoverInv(j), Success(j, u, a), unit[j][u] = Nothing,
         NEW x \in {result[j][<<u, a>>].ledger, Half},
         unit' = [unit EXCEPT ![j][u] = x],
         UNCHANGED <<request, reserved, result>>, MoneyStands(j)
  PROVE  CoverInv(j)'
  <1>1. \A v \in UnitIds : unit'[j][v] = IF v = u THEN x ELSE unit[j][v]
    BY DEF TypeOK
  <1>2. x \in Ledgers => Covered(j, x)
    BY Wholes DEF CoverInv
  <1>3. ASSUME NEW v \in UnitIds, NEW b \in Attempts,
               Reached(j, v, b)', reserved'[j][<<v, b>>] = Nothing
        PROVE  \E ledger : Covered(j, ledger) /\ Before(j, v, b)' = ledger
    <2>1. CASE Reached(j, v, b)
      <3>1. Covered(j, Before(j, v, b))
        BY <1>3, <2>1 DEF CoverInv
      <3>2. v > 1 => v - 1 \in UnitIds /\ v - 1 < v
        BY JournalAssumption DEF UnitIds
      <3>3. v > 1 => v - 1 # u
        BY <2>1, <3>2, Wholes DEF Reached
      <3>4. Before(j, v, b)' = Before(j, v, b)
        BY <1>1, <3>2, <3>3 DEF Before
      <3> QED BY <3>1, <3>4
    <2>2. CASE ~Reached(j, v, b)
      <3>1. /\ u < v /\ x \in Ledgers
            /\ \A w \in UnitIds : w < v /\ w # u => unit[j][w] \in Ledgers
            /\ \A c \in Attempts : c < b => Again(j, v, c)
            /\ request[j] \in Requests
        BY <1>1, <1>3, <2>2 DEF Reached, Again
      <3>2. ASSUME NEW w \in UnitIds, NEW c \in Attempts, u < w,
                   result[j][<<w, c>>] \in Results
            PROVE  FALSE
        <4>1. reserved[j][<<w, c>>] \in Ledgers
          BY <3>2, Wholes DEF JobInv, Outcoming
        <4>2. Reached(j, w, c)
          BY <4>1, Wholes DEF JobInv, Reservations
        <4> QED BY <3>2, <4>2, Wholes DEF Reached
      <3>3. v = u + 1
        <4>1. SUFFICES ASSUME v # u + 1
                       PROVE  FALSE
          OBVIOUS
        <4>2. u + 1 \in UnitIds /\ u < u + 1 /\ u + 1 < v /\ u + 1 # u
          BY <3>1, <4>1, JournalAssumption DEF UnitIds
        <4>3. unit[j][u + 1] \in Ledgers
          BY <3>1, <4>2
        <4>4. PICK c \in Attempts : Success(j, u + 1, c)
          BY <4>2, <4>3, Wholes DEF JobInv, UnitRecords
        <4> QED BY <3>2, <4>2, <4>4 DEF Success
      <3>4. b = 1
        <4>1. 1 \in Attempts /\ (b = 1 \/ 1 < b)
          BY DEF Attempts
        <4> QED BY <3>1, <3>2, <4>1 DEF Again
      <3>5. Before(j, v, b)' = x
        <4>1. v > 1 /\ v - 1 = u /\ ~(b > 1)
          BY <3>3, <3>4, UnitTypes
        <4> QED BY <1>1, <4>1 DEF Before
      <3> QED BY <1>2, <3>1, <3>5
    <2> QED BY <2>1, <2>2
  <1>4. ASSUME NEW v \in UnitIds, NEW b \in Attempts,
               Success(j, v, b)', unit'[j][v] \notin Ledgers
        PROVE  \E ledger : Covered(j, ledger) /\ result'[j][<<v, b>>].ledger = ledger
    <2>1. Success(j, v, b) /\ unit[j][v] \notin Ledgers /\ result' = result
      BY <1>1, <1>4, Wholes DEF Success
    <2> QED BY <2>1 DEF CoverInv
  <1>5. unit'[j][UnitsOf[j]] \in Ledgers => Covered(j, unit'[j][UnitsOf[j]])
    BY <1>1, <1>2, UnitTypes DEF CoverInv
  <1> QED BY <1>3, <1>4, <1>5, CoverMoves

\* A unit is recorded.
LEMMA WriteUnitBudget ==
  ASSUME NEW p \in Procs, NEW j \in Jobs, NEW u \in UnitIds, NEW a \in Attempts,
         IInv, IInv', BudgetInv, Holding(p, j, u, a), WriteUnit(p)
  PROVE  BudgetInv'
  <1>1. /\ TypeOK /\ call[p] \in Works /\ JobInv(j) /\ Replays(p, j, u, a)
        /\ JobOf(p) = j /\ Holds(p, j) /\ call[p].unit = u /\ call[p].phase = "unit"
        /\ UNCHANGED <<request, reserved, result, done, count, seen>>
    BY DEF Holding, WriteUnit
  <1>2. Success(j, u, a) /\ call[p].ledger = result[j][<<u, a>>].ledger
    BY <1>1 DEF Replays
  <1>3. CallCover(p)'
    <2>1. call'[p].phase \in {"told", "publish", "attempt"}
      BY <1>1 DEF WriteUnit, Answer, TypeOK, Works
    <2> QED BY <2>1, Careless
  <1>4. CASE unit'[j] = unit[j]
    <2>1. FilesStand(j) /\ MoneyStands(j)
      BY <1>1, <1>4 DEF FilesStand, MoneyStands, seen
    <2> QED BY <1>3, <2>1, IdleBudget
  <1>5. CASE unit'[j] # unit[j]
    <2>1. /\ unit[j][u] \in {Nothing, call[p].ledger}
          /\ unit' = [unit EXCEPT ![j][u] = call[p].ledger]
      BY <1>1, <1>5 DEF WriteUnit
    <2>2. unit[j][u] = Nothing
      BY <1>1, <1>5, <2>1 DEF TypeOK
    <2>3. MoneyStands(j) /\ CoverInv(j)
      BY <1>1 DEF MoneyStands, seen, BudgetInv
    <2>4. CoverInv(j)'
      BY <1>1, <1>2, <2>1, <2>2, <2>3, UnitCover
    <2>5. PriorInv(j)'
      BY <1>1, HolderFrame, PriorStays DEF BudgetInv
    <2> QED BY <1>1, <1>3, <2>4, <2>5, HolderFrame, BudgetStep
  <1> QED BY <1>4, <1>5

\* What is published is added, nothing is spent.
LEMMA PublishBudget ==
  ASSUME NEW p \in Procs, NEW j \in Jobs, NEW u \in UnitIds, NEW a \in Attempts,
         IInv, IInv', BudgetInv, Holding(p, j, u, a), PublishJob(p)
  PROVE  BudgetInv'
  <1>1. /\ TypeOK /\ call[p] \in Works /\ Holds(p, j)
        /\ UNCHANGED <<request, reserved, result, unit, count, seen>>
    BY DEF Holding, PublishJob
  <1>2. CallCover(p)'
    <2>1. call'[p].phase = "told"
      BY <1>1 DEF PublishJob, Answer, TypeOK
    <2> QED BY <2>1, Careless
  <1>3. CoverInv(j)'
    <2>1. ASSUME NEW v \in UnitIds, NEW b \in Attempts
          PROVE  /\ Reached(j, v, b)' = Reached(j, v, b)
                 /\ Before(j, v, b)' = Before(j, v, b)
                 /\ Success(j, v, b)' = Success(j, v, b)
      BY <1>1 DEF Reached, Again, Before, Success
    <2>2. CoverInv(j) /\ MoneyStands(j)
      BY <1>1 DEF MoneyStands, seen, BudgetInv
    <2>3. \A v \in UnitIds, b \in Attempts :
             Reached(j, v, b)' /\ reserved'[j][<<v, b>>] = Nothing =>
                 \E l : Covered(j, l) /\ Before(j, v, b)' = l
      BY <1>1, <2>1, <2>2 DEF CoverInv
    <2>4. \A v \in UnitIds, b \in Attempts :
             Success(j, v, b)' /\ unit'[j][v] \notin Ledgers =>
                 \E l : Covered(j, l) /\ result'[j][<<v, b>>].ledger = l
      BY <1>1, <2>1, <2>2 DEF CoverInv
    <2>5. unit'[j][UnitsOf[j]] \in Ledgers => Covered(j, unit'[j][UnitsOf[j]])
      BY <1>1, <2>2 DEF CoverInv
    <2> QED BY <1>1, <2>2, <2>3, <2>4, <2>5, CoverMoves
  <1>4. PriorInv(j)'
    BY <1>1, HolderFrame, PriorStays DEF BudgetInv
  <1> QED BY <1>1, <1>2, <1>3, <1>4, HolderFrame, BudgetStep

\* A file cut short opens no place to go on from.
LEMMA HalfCover ==
  ASSUME NEW p \in Procs, NEW j \in Jobs, NEW u \in UnitIds, NEW a \in Attempts,
         IInv, BudgetInv, Holding(p, j, u, a), LeaveHalf(p), UNCHANGED seen
  PROVE  CoverInv(j)' /\ (request'[j] = request[j] \/ request'[j] = Half)
  <1>1. /\ TypeOK /\ Replays(p, j, u, a) /\ JobInv(j) /\ MoneyStands(j) /\ CoverInv(j)
        /\ JobOf(p) = j /\ SlotOf(p) = <<u, a>> /\ call[p].unit = u
        /\ <<u, a>> \in Slots
    BY DEF Holding, BudgetInv, MoneyStands, seen
  <1>2. CASE /\ call[p].phase = "request" /\ request[j] = Nothing
             /\ request' = [request EXCEPT ![j] = Half]
             /\ UNCHANGED <<reserved, result, unit>>
    <2>1. request'[j] = Half /\ Half \notin Requests /\ request[j] \notin Requests
      BY <1>1, <1>2, Wholes DEF TypeOK
    <2>2. /\ \A v \in UnitIds, b \in Attempts : ~Success(j, v, b)'
          /\ unit'[j][UnitsOf[j]] \notin Ledgers
      <3>1. 1 \in Attempts /\ UnitsOf[j] \in UnitIds
        BY UnitTypes DEF Attempts
      <3>2. /\ \A v \in UnitIds, b \in Attempts : result[j][<<v, b>>] = Nothing
            /\ unit[j][UnitsOf[j]] = Nothing
        BY <2>1, <3>1, NoRequestNoFiles
      <3>3. ASSUME NEW v \in UnitIds, NEW b \in Attempts
            PROVE  ~Success(j, v, b)'
        BY <1>2, <3>2, Wholes DEF Success
      <3> QED BY <1>2, <3>2, <3>3, Wholes
    <2>3. \A v \in UnitIds, b \in Attempts : ~Reached(j, v, b)'
      BY <2>1 DEF Reached
    <2>4. /\ SentSlots(j)' = SentSlots(j) /\ bill'[j] = bill[j]
          /\ IsFiniteSet(SentSlots(j)) /\ bill[j] = 0 /\ SentSlots(j) = {}
      BY <1>1, <2>1 DEF SentSlots, MoneyStands, CoverInv
    <2> QED BY <2>1, <2>2, <2>3, <2>4 DEF CoverInv
  <1>3. CASE /\ call[p].phase = "attempt" /\ reserved[j][<<u, a>>] = Nothing
             /\ reserved' = [reserved EXCEPT ![j][<<u, a>>] = Half]
             /\ UNCHANGED <<request, result, unit>>
    <2>1. ASSUME NEW v \in UnitIds, NEW b \in Attempts
          PROVE  /\ Reached(j, v, b)' = Reached(j, v, b)
                 /\ Before(j, v, b)' = Before(j, v, b)
                 /\ Success(j, v, b)' = Success(j, v, b)
      BY <1>3 DEF Reached, Again, Before, Success
    <2>2. \A v \in UnitIds, b \in Attempts :
             reserved'[j][<<v, b>>] = Nothing => reserved[j][<<v, b>>] = Nothing
      BY <1>1, <1>3, Wholes DEF TypeOK, Slots
    <2>3. \A v \in UnitIds, b \in Attempts :
             Reached(j, v, b)' /\ reserved'[j][<<v, b>>] = Nothing =>
                 \E l : Covered(j, l) /\ Before(j, v, b)' = l
      BY <1>1, <2>1, <2>2 DEF CoverInv
    <2>4. \A v \in UnitIds, b \in Attempts :
             Success(j, v, b)' /\ unit'[j][v] \notin Ledgers =>
                 \E l : Covered(j, l) /\ result'[j][<<v, b>>].ledger = l
      BY <1>1, <1>3, <2>1 DEF CoverInv
    <2>5. unit'[j][UnitsOf[j]] \in Ledgers => Covered(j, unit'[j][UnitsOf[j]])
      BY <1>1, <1>3 DEF CoverInv
    <2> QED BY <1>1, <1>3, <2>3, <2>4, <2>5, CoverMoves
  <1>4. CASE /\ call[p].phase = "record"
             /\ result' = [result EXCEPT ![j][<<u, a>>] = Half]
             /\ UNCHANGED <<request, reserved, unit>>
    <2>1. /\ Reached(j, u, a) /\ u <= UnitsOf[j] /\ result[j][<<u, a>>] = Nothing
          /\ reserved[j][<<u, a>>] \in Ledgers
      BY <1>1, <1>4 DEF Replays
    <2> QED BY <1>1, <1>4, <2>1, ResultCover, Wholes
  <1>5. CASE /\ call[p].phase = "unit" /\ unit[j][u] = Nothing
             /\ unit' = [unit EXCEPT ![j][u] = Half]
             /\ UNCHANGED <<request, reserved, result>>
    <2>1. Success(j, u, a)
      BY <1>1, <1>5 DEF Replays
    <2> QED BY <1>1, <1>5, <2>1, UnitCover
  <1> QED BY <1>1, <1>2, <1>3, <1>4, <1>5 DEF LeaveHalf

\* A kill takes no account away.
LEMMA KillBudget ==
  ASSUME NEW p \in Procs, NEW j \in Jobs, NEW u \in UnitIds, NEW a \in Attempts,
         IInv, IInv', BudgetInv, Holding(p, j, u, a), Kill(p)
  PROVE  BudgetInv'
  <1>1. /\ TypeOK /\ Holds(p, j) /\ call'[p].phase = "idle" /\ UNCHANGED <<done, seen>>
    BY DEF Holding, Kill, TypeOK
  <1>2. CallCover(p)'
    BY <1>1, Careless
  <1>3. CASE UNCHANGED <<request, reserved, result, unit>>
    <2>1. FilesStand(j) /\ MoneyStands(j)
      BY <1>1, <1>3 DEF FilesStand, MoneyStands, seen
    <2> QED BY <1>2, <2>1, IdleBudget
  <1>4. CASE LeaveHalf(p)
    <2>1. CoverInv(j)' /\ (request'[j] = request[j] \/ request'[j] = Half)
      BY <1>1, <1>4, HalfCover
    <2>2. PriorInv(j)'
      <3>1. CASE request'[j] = request[j]
        BY <1>1, <3>1, HolderFrame, PriorStays DEF BudgetInv
      <3>2. CASE request'[j] = Half
        BY <3>2, Wholes DEF PriorInv
      <3> QED BY <2>1, <3>1, <3>2
    <2> QED BY <1>1, <1>2, <2>1, <2>2, HolderFrame, BudgetStep
  <1> QED BY <1>3, <1>4 DEF Kill

-----------------------------------------------------------------------------
(* Every call is covered                                                   *)

\* At the start nothing is spent.
LEMMA InitBudget == Init => BudgetInv
  <1> SUFFICES ASSUME Init
               PROVE  BudgetInv
    OBVIOUS
  <1>1. ASSUME NEW j \in Jobs
        PROVE  CoverInv(j) /\ PriorInv(j)
    <2>1. request[j] \notin Requests /\ bill[j] = 0 /\ unit[j][UnitsOf[j]] \notin Ledgers
      BY UnitTypes, Wholes DEF Init
    <2>2. SentSlots(j) = {}
      BY DEF Init, SentSlots
    <2>3. \A u \in UnitIds, a \in Attempts : ~Reached(j, u, a) /\ ~Success(j, u, a)
      BY <2>1, Wholes DEF Init, Reached, Success, Slots
    <2> QED BY <2>1, <2>2, <2>3, FS_EmptySet DEF CoverInv, PriorInv
  <1>2. ASSUME NEW p \in Procs
        PROVE  CallCover(p)
    BY DEF Init, CallCover, At, Steps
  <1> QED BY <1>1, <1>2 DEF BudgetInv

\* Every step of a call keeps the account of every job.
LEMMA NextBudget == IInv /\ IInv' /\ BudgetInv /\ [Next]_vars => BudgetInv'
  <1> SUFFICES ASSUME IInv, IInv', BudgetInv, [Next]_vars
               PROVE  BudgetInv'
    OBVIOUS
  <1>1. CASE UNCHANGED vars
    <2>1. /\ \A i \in Jobs : FilesStand(i) /\ MoneyStands(i)
          /\ DoneStands /\ call' = call /\ done' = done
      BY <1>1 DEF vars, files, seen, FilesStand, MoneyStands, DoneStands
    <2>2. ASSUME NEW j \in Jobs
          PROVE  CoverInv(j)' /\ PriorInv(j)'
      BY <2>1, CoverStands, PriorStays DEF BudgetInv, IInv, FilesStand
    <2>3. ASSUME NEW q \in Procs
          PROVE  CallCover(q)'
      <3>1. CallCover(q)
        BY DEF BudgetInv
      <3>2. ASSUME call[q].phase \in {"lock", "request"}
            PROVE  Continues(call[q].ask, call[q].ledger)'
        BY <2>1, <3>1, <3>2 DEF CallCover, Continues
      <3>3. ASSUME NEW i \in Jobs, NEW u \in UnitIds, NEW a \in Attempts,
                   At(q, i, u, a)'
            PROVE  Spends(q, i, a)'
        <4>1. At(q, i, u, a)
          BY <2>1, <3>3 DEF At, JobOf
        <4>2. Spends(q, i, a) /\ FilesStand(i) /\ MoneyStands(i)
          BY <2>1, <3>1, <4>1 DEF CallCover
        <4> QED BY <2>1, <4>2
                DEF Spends, FilesStand, MoneyStands, SentSlots, ResentSlots, Covered
      <3> QED BY <2>1, <3>2, <3>3 DEF CallCover
    <2> QED BY <2>2, <2>3 DEF BudgetInv
  <1>2. ASSUME NEW p \in Procs, Step(p)
        PROVE  BudgetInv'
    <2>1. CASE (\E ask \in Asks : Call(p, ask)) \/ Lock(p)
      BY <2>1, CallBudget
    <2>2. CASE ~((\E ask \in Asks : Call(p, ask)) \/ Lock(p))
      <3>1. call[p].phase \in Steps
        BY <1>2, <2>2 DEF Step, FreezeRequest, Attempt, NotSent, Send, Reply, Record,
           LoadResult, WriteUnit, PublishJob, Kill, Steps
      <3>2. PICK j \in Jobs, u \in UnitIds, a \in Attempts : Holding(p, j, u, a)
        BY <3>1, HolderAt
      <3> QED
        BY <1>2, <2>2, <3>2, FreezeRequestBudget, AttemptBudget, LearnBudget,
           SendBudget, ResultBudget, WriteUnitBudget, PublishBudget, KillBudget
        DEF Step
    <2> QED BY <2>1, <2>2
  <1> QED BY <1>1, <1>2 DEF Next

\* Wherever a job can go on, the ledger it goes on from covers what it and the
\* job it continues were charged and have sent, in every reachable state.
THEOREM BudgetInvariance == Spec => []BudgetInv
  <1>1. Init => BudgetInv
    BY InitBudget
  <1>2. IInv /\ IInv' /\ BudgetInv /\ [Next]_vars => BudgetInv'
    BY NextBudget
  <1> QED BY <1>1, <1>2, Invariance, PTL DEF Spec

\* The slots S as those of job j.
OfJob(j, S) == {j} \X S

\* The slots of one job are counted as they are.
LEMMA SlotsCount ==
  ASSUME NEW j, NEW S, IsFiniteSet(S)
  PROVE  IsFiniteSet(OfJob(j, S)) /\ Cardinality(OfJob(j, S)) = Cardinality(S)
  <1>1. IsFiniteSet({j}) /\ Cardinality({j}) = 1 /\ Cardinality(S) \in Nat
    BY FS_Singleton, FS_CardinalityType
  <1>2. IsFiniteSet({j} \X S) /\ Cardinality({j} \X S) = 1 * Cardinality(S)
    BY <1>1, FS_Product
  <1> QED BY <1>1, <1>2 DEF OfJob

\* And of two jobs as their sum.
LEMMA TwoJobsCount ==
  ASSUME NEW j, NEW k, j # k, NEW S, NEW T, IsFiniteSet(S), IsFiniteSet(T)
  PROVE  Cardinality(OfJob(j, S) \cup OfJob(k, T)) = Cardinality(S) + Cardinality(T)
  <1>1. /\ IsFiniteSet(OfJob(j, S)) /\ Cardinality(OfJob(j, S)) = Cardinality(S)
        /\ IsFiniteSet(OfJob(k, T)) /\ Cardinality(OfJob(k, T)) = Cardinality(T)
    BY SlotsCount
  <1>2. OfJob(j, S) \cap OfJob(k, T) = {}
    BY DEF OfJob
  <1>3. Cardinality(OfJob(j, S) \cap OfJob(k, T)) = 0
    BY <1>2, FS_EmptySet
  <1>4. Cardinality(OfJob(j, S) \cup OfJob(k, T))
            = Cardinality(S) + Cardinality(T) - 0
    BY <1>1, <1>3, FS_Union
  <1>5. Cardinality(S) \in Nat /\ Cardinality(T) \in Nat
    BY FS_CardinalityType
  <1> QED BY <1>4, <1>5

\* Only the holder of a job sends in its name.
LEMMA SenderHolds ==
  ASSUME IInv, [Next]_vars, NEW j \in Jobs, sent'[j] # sent[j]
  PROVE  \E p \in Procs, u \in UnitIds, a \in Attempts : Holding(p, j, u, a) /\ Send(p)
  <1>1. PICK p \in Procs : Step(p)
    BY DEF Next, vars, seen
  <1>2. Send(p)
    BY <1>1 DEF Step, Call, Lock, FreezeRequest, Attempt, NotSent, Reply, Record,
       LoadResult, WriteUnit, PublishJob, Kill, seen
  <1>3. call[p].phase \in Steps
    BY <1>2 DEF Send, Steps
  <1>4. PICK i \in Jobs, u \in UnitIds, a \in Attempts : Holding(p, i, u, a)
    BY <1>3, HolderAt
  <1>5. i = j
    BY <1>2, <1>4, HolderFrame DEF MoneyStands
  <1> QED BY <1>2, <1>4, <1>5

\* What goes out is covered, by the account of the job and the one it
\* continues.
LEMMA SendIsCovered ==
  ASSUME IInv, BudgetInv, [Next]_vars, NEW j \in Jobs, sent'[j] # sent[j]
  PROVE  /\ Billed(j) + Plan <= request[j].ask.limit
         /\ Cardinality(Went(j)') <= MaxAttempts
         /\ Cardinality({w \in Went(j)' : w[2][2] > 1}) <= MaxRetries
  <1>1. PICK p \in Procs, u \in UnitIds, a \in Attempts : Holding(p, j, u, a) /\ Send(p)
    BY SenderHolds
  <1> DEFINE first == request[j].ledger
             ledger == call[p].ledger
             k == request[j].ask.prior
             n == Cardinality(SentSlots(j))
             m == Cardinality(ResentSlots(j))
             again == IF a > 1 THEN 1 ELSE 0
             after == SentSlots(j)'
             repeated == ResentSlots(j)'
  <1>2. /\ TypeOK /\ Replays(p, j, u, a) /\ At(p, j, u, a) /\ call[p].phase = "send"
        /\ ledger \in Ledgers /\ UNCHANGED <<files, count>>
    BY <1>1 DEF Holding, Send
  <1>3. request[j] \in Requests /\ request[j].ask = call[p].ask /\ Spends(p, j, a)
    BY <1>2 DEF Replays, BudgetInv, CallCover
  <1>4. /\ bill[j] + first.tokens <= ledger.tokens
        /\ n + 1 + first.attempts <= ledger.attempts
        /\ m + again + (first.attempts - first.units) <= ledger.attempts - ledger.units
        /\ ledger.tokens + Plan <= request[j].ask.limit
        /\ ledger.attempts <= MaxAttempts
        /\ ledger.attempts - ledger.units <= MaxRetries
    BY <1>2, <1>3 DEF Spends
  <1>5. /\ IsFiniteSet(after) /\ Cardinality(after) = n + 1
        /\ IsFiniteSet(repeated) /\ Cardinality(repeated) = m + again
    BY <1>1, SendCounts
  <1>6. /\ n \in Nat /\ m \in Nat /\ bill[j] \in Nat /\ again \in Nat
        /\ first.units \in Nat /\ first.attempts \in Nat /\ first.tokens \in Nat
        /\ ledger.units \in Nat /\ ledger.attempts \in Nat /\ ledger.tokens \in Nat
        /\ request[j].ask.limit \in Nat /\ k \in Jobs \cup {Nothing}
        /\ {Plan, MaxAttempts, MaxRetries} \subseteq Nat
    <2>1. request[j].ask \in Asks /\ first \in Ledgers
      BY <1>3 DEF Requests
    <2> QED BY <1>2, <2>1, SentCounts, JournalAssumption DEF Ledgers
  <1>7. Continues(request[j].ask, first) /\ k # j
    BY <1>3 DEF BudgetInv, PriorInv
  <1>8. /\ Chain(j) = {j} \cup ({k} \ {Nothing}) /\ Chain(j)' = Chain(j)
        /\ after = {s \in Slots : sent'[j][s] > 0}
        /\ repeated = {s \in after : s[2] > 1}
    BY <1>2, <1>3, Wholes DEF Chain, Whole, SentSlots, ResentSlots, files
  <1>9. CASE k = Nothing
    <2>1. first.tokens = 0 /\ first.attempts = 0 /\ first.units = 0
      BY <1>7, <1>9 DEF Continues, Empty
    <2>2. Chain(j) = {j} /\ Billed(j) = bill[j]
      BY <1>6, <1>8, <1>9 DEF Billed
    <2>3. Went(j)' = OfJob(j, after)
      <3> HIDE DEF after
      <3> QED BY <1>8, <2>2 DEF Went, OfJob
    <2>4. {w \in Went(j)' : w[2][2] > 1} = OfJob(j, repeated)
      <3> HIDE DEF after, repeated
      <3> QED BY <1>8, <2>3 DEF OfJob
    <2>5. /\ Cardinality(OfJob(j, after)) = n + 1
          /\ Cardinality(OfJob(j, repeated)) = m + again
      <3> HIDE DEF after, repeated, n, m, again
      <3> QED BY <1>5, SlotsCount
    <2> HIDE DEF first, ledger, n, m, again, after, repeated
    <2>6. bill[j] + Plan <= request[j].ask.limit
      BY <1>4, <1>6, <2>1
    <2>7. n + 1 <= MaxAttempts
      BY <1>4, <1>6, <2>1
    <2>8. m + again <= MaxRetries
      BY <1>4, <1>6, <2>1
    <2> QED BY <2>2, <2>3, <2>4, <2>5, <2>6, <2>7, <2>8
  <1>10. CASE k # Nothing
    <2>1. k \in Jobs /\ done[k] # Nothing /\ first = done[k].ledger
      BY <1>6, <1>7, <1>10 DEF Continues
    <2>2. /\ Covered(k, first) /\ request[k] \in Requests /\ PriorInv(k)
      BY <2>1, DoneCovered DEF BudgetInv
    <2> DEFINE start == request[k].ledger
               others == SentSlots(k)
               retries == ResentSlots(k)
               n2 == Cardinality(others)
               m2 == Cardinality(retries)
    <2>3. /\ bill[k] + start.tokens <= first.tokens
          /\ n2 + start.attempts <= first.attempts
          /\ m2 + (start.attempts - start.units) <= first.attempts - first.units
          /\ start.units <= start.attempts
      BY <2>2 DEF Covered, PriorInv
    <2>4. /\ n2 \in Nat /\ m2 \in Nat /\ bill[k] \in Nat
          /\ start.units \in Nat /\ start.attempts \in Nat /\ start.tokens \in Nat
          /\ IsFiniteSet(others) /\ IsFiniteSet(retries)
      BY <2>1, <2>2, SentCounts DEF Requests, Ledgers
    <2>5. Chain(j) = {j, k} /\ Billed(j) = bill[j] + bill[k]
      BY <1>7, <1>8, <1>10 DEF Billed
    <2>6. sent'[k] = sent[k]
      BY <1>1, <1>7, <2>1, HolderFrame DEF MoneyStands
    <2>7. /\ others = {s \in Slots : sent'[k][s] > 0}
          /\ retries = {s \in others : s[2] > 1}
      BY <2>6 DEF SentSlots, ResentSlots
    <2>8. Went(j)' = OfJob(j, after) \cup OfJob(k, others)
      <3> HIDE DEF after, others
      <3>1. Went(j)' = {w \in {j, k} \X Slots : sent'[w[1]][w[2]] > 0}
        BY <1>8, <2>5 DEF Went
      <3> HIDE DEF k
      <3> QED BY <1>8, <2>7, <3>1 DEF OfJob
    <2>9. {w \in Went(j)' : w[2][2] > 1} = OfJob(j, repeated) \cup OfJob(k, retries)
      <3> HIDE DEF after, repeated, others, retries, k
      <3> QED BY <1>8, <2>7, <2>8 DEF OfJob
    <2>10. /\ Cardinality(OfJob(j, after) \cup OfJob(k, others)) = n + 1 + n2
           /\ Cardinality(OfJob(j, repeated) \cup OfJob(k, retries)) = m + again + m2
      <3>1. n2 = Cardinality(others) /\ m2 = Cardinality(retries)
        OBVIOUS
      <3> HIDE DEF after, repeated, others, retries, k, n, m, again, n2, m2
      <3>2. /\ Cardinality(OfJob(j, after) \cup OfJob(k, others))
                   = Cardinality(after) + Cardinality(others)
            /\ Cardinality(OfJob(j, repeated) \cup OfJob(k, retries))
                   = Cardinality(repeated) + Cardinality(retries)
        BY <1>5, <1>7, <2>4, TwoJobsCount
      <3> QED BY <1>5, <3>1, <3>2
    <2> HIDE DEF first, ledger, n, m, again, after, repeated, start, others, retries, n2, m2, k
    <2>11. bill[j] + bill[k] + Plan <= request[j].ask.limit
      BY <1>4, <1>6, <2>3, <2>4
    <2>12. n + 1 + n2 <= MaxAttempts
      BY <1>4, <1>6, <2>3, <2>4
    <2>13. m + again + m2 <= MaxRetries
      BY <1>4, <1>6, <2>3, <2>4
    <2> QED BY <2>5, <2>8, <2>9, <2>10, <2>11, <2>12, <2>13
  <1> QED BY <1>9, <1>10

\* Each request that goes out has room for its worst case within the limit
\* frozen first, next to all that was charged and sent before.
THEOREM CallsAreCovered == Spec => EveryCallIsCovered
  <1>1. IInv /\ BudgetInv /\ [Next]_vars =>
            [\A j \in Jobs :
                sent'[j] # sent[j] =>
                    /\ Billed(j) + Plan <= request[j].ask.limit
                    /\ Cardinality(Went(j)') <= MaxAttempts
                    /\ Cardinality({w \in Went(j)' : w[2][2] > 1}) <= MaxRetries]_vars
    BY SendIsCovered
  <1> QED BY <1>1, Invariance, BudgetInvariance, PTL DEF Spec, EveryCallIsCovered
=============================================================================
