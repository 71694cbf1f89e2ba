-------------------------- MODULE ProcessorJournal --------------------------
(***************************************************************************)
(* The journal of paid processor calls (processing.py and _execute_unit of *)
(* map_operations.py, knowledgeflow_curation).  A job, which is one target *)
(* suggestion or one map, sends its units in order to a remote processor,  *)
(* each at most three times.  Before a call goes out a reservation is made *)
(* durable, after it a result; what was spent is kept in a ledger that is  *)
(* rebuilt from these files, in the same order, by every later call for    *)
(* the job.  A map may continue the ledger of a published suggestion.      *)
(*                                                                         *)
(* Calls for one job hold its lock, which ends with the process.  A call   *)
(* may be killed at any step and leave the file it was writing cut short   *)
(* (Half); an I/O error does no more than that.  The four token and cost   *)
(* counters of the ledger are one here, since the code treats them alike.  *)
(***************************************************************************)
EXTENDS Integers, FiniteSets

CONSTANTS Procs,       \* processes that call suggest_target and build_map
          Asks,        \* the calls made: [job, prior, limit]
          UnitsOf,     \* UnitsOf[j]: how many units job j has
          Plan,        \* tokens planned for one call, its worst case
          Ceiling,     \* tokens of one call beyond which the job stops
          Usages,      \* tokens a call may turn out to have used
          MaxUnits,    \* limits.max_first_work_units
          MaxAttempts, \* limits.max_http_attempts
          MaxRetries,  \* limits.max_retry_attempts
          MaxCalls,    \* bound: calls made in all
          MaxKills,    \* bound: calls killed
          Nothing,     \* an absent file
          Half         \* a file whose writing was cut short

Jobs     == {ask.job : ask \in Asks}
Attempts == 1 .. 3

\* ProcessingBudgetLedger, and what a result says of its attempt
Ledgers  == [units : Nat, attempts : Nat, tokens : Nat]
Outcomes == [status : {"succeeded", "failed", "unknown"}, retry : BOOLEAN,
             usage : Usages \cup {Nothing}]

\* What the files hold: reservations and units, requests, results, the job.
Requests == [ask : Asks, ledger : Ledgers]
Results  == [outcome : Outcomes, ledger : Ledgers]
Dones    == [limit : Nat, ledger : Ledgers]

ASSUME JournalAssumption ==
    /\ \A ask \in Asks : ask.prior \in Jobs \cup {Nothing} /\ ask.limit \in Nat
    /\ UnitsOf \in [Jobs -> Nat \ {0}]
    /\ {Plan, Ceiling, MaxUnits, MaxAttempts, MaxRetries} \subseteq Nat
    /\ {MaxCalls, MaxKills} \subseteq Nat
    /\ Usages \subseteq Nat
    /\ Plan <= Ceiling
    /\ {Nothing, Half} \cap (Jobs \cup Ledgers \cup Requests \cup Results
                              \cup Dones) = {}
    /\ Nothing # Half
    /\ Nothing \notin Usages

UnitIds  == UNION {1 .. UnitsOf[j] : j \in Jobs}
Slots    == UnitIds \X Attempts

VARIABLES request,  \* request[j]: request.json, the frozen ask and its prior
          reserved, \* reserved[j][u, a]: ledger after the reservation, if any
          result,   \* result[j][u, a]: outcome and ledger after it, if any
          unit,     \* unit[j][u]: ledger of unit-<u>.json, if any
          done,     \* done[j]: ledger of the published suggestion or map
          call,     \* call[p]: the running call or the last answer of p
          count,    \* calls begun and calls killed, both bounded
          sent,     \* observation: how often the request of a slot went out
          bill      \* observation: tokens the provider charged to the job

files == <<request, reserved, result, unit, done>>
seen  == <<sent, bill>>
vars  == <<files, call, count, seen>>

Empty == [units |-> 0, attempts |-> 0, tokens |-> 0]

Whole(file) == file \notin {Nothing, Half}

JobOf(p)  == call[p].ask.job
SlotOf(p) == <<call[p].unit, call[p].attempt>>

Steps == {"request", "attempt", "send", "wait", "record", "load", "unit",
          "publish"}
Holds(q, j) == call[q].phase \in Steps /\ JobOf(q) = j

Goto(p, phase) == call' = [call EXCEPT ![p].phase = phase]
Answer(p, why) ==
    call' = [call EXCEPT ![p] = [phase |-> "told", ask |-> @.ask, why |-> why]]

-----------------------------------------------------------------------------
(* The ledger                                                              *)

\* reserve_attempt counts the attempt and asks for room for its worst case.
Reserve(ledger, a) ==
    [ledger EXCEPT !.units = @ + (IF a = 1 THEN 1 ELSE 0), !.attempts = @ + 1]

Affordable(ledger, a, limit) ==
    LET next == Reserve(ledger, a)
    IN  /\ next.units <= MaxUnits
        /\ next.attempts <= MaxAttempts
        /\ next.attempts - next.units <= MaxRetries
        /\ ledger.tokens + Plan <= limit

\* MUTANT: only usage that was reported is charged.
Charge_ReportedOnly(ledger, outcome) ==
    [ledger EXCEPT !.tokens =
        @ + (IF outcome.usage = Nothing THEN 0 ELSE outcome.usage)]

\* record_observed_usage, or record_unknown with the worst case; a call that
\* never left costs nothing.
Charge(ledger, outcome) ==
    [ledger EXCEPT !.tokens =
        @ + (IF outcome.usage # Nothing THEN outcome.usage
             ELSE IF outcome.status = "unknown" THEN Plan ELSE 0)]

\* The charge raises BudgetExhausted, once the ledger has it.
Exceeds(ledger, outcome, limit) ==
    \/ outcome.usage # Nothing /\ outcome.usage > Ceiling
    \/ ledger.tokens > limit

-----------------------------------------------------------------------------
(* Taking up a job                                                         *)

\* _prior_target_suggestion_budget.
Carried(ask) == IF ask.prior = Nothing THEN Empty ELSE done[ask.prior].ledger

\* The suggestion named must be published, under the same limits.
PriorStands(ask) ==
    ask.prior # Nothing =>
        done[ask.prior] # Nothing /\ done[ask.prior].limit = ask.limit

Call(p, ask) ==
    /\ call[p].phase \in {"idle", "told"}
    /\ count.calls < MaxCalls
    /\ count' = [count EXCEPT !.calls = @ + 1]
    /\ call' = [call EXCEPT ![p] =
                    IF PriorStands(ask)
                    THEN [phase |-> "lock", ask |-> ask, ledger |-> Carried(ask),
                          unit |-> 1, attempt |-> 1, outcome |-> Nothing]
                    ELSE [phase |-> "told", ask |-> ask, why |-> "prior"]]
    /\ UNCHANGED <<files, seen>>

\* exclusive_file_lock of the job, given up after ten seconds.
Lock(p) ==
    /\ call[p].phase = "lock"
    /\ LET held == \E q \in Procs : Holds(q, JobOf(p))
       IN  \/ ~held /\ Goto(p, "request")
           \/ held /\ Answer(p, "busy")
    /\ UNCHANGED <<files, count, seen>>

\* request.json freezes limits and prior ledger: a later call must repeat them.
FreezeRequest(p) ==
    /\ call[p].phase = "request"
    /\ LET j == JobOf(p)
           frozen == [ask |-> call[p].ask, ledger |-> call[p].ledger]
       IN  \/ /\ request[j] \in {Nothing, frozen}
              /\ request' = [request EXCEPT ![j] = frozen]
              /\ Goto(p, "attempt")
           \/ /\ request[j] \notin {Nothing, frozen}
              /\ Answer(p, IF request[j] = Half THEN "blocked" ELSE "conflict")
              /\ UNCHANGED request
    /\ UNCHANGED <<reserved, result, unit, done, count, seen>>

-----------------------------------------------------------------------------
(* One attempt                                                             *)

\* MUTANT: an attempt without a result is made once more.
AfterReservation_Resends(j, s) ==
    IF result[j][s] # Nothing THEN "load" ELSE "send"

\* Where an attempt goes on whose reservation was found: its result, or the
\* record that there is none, for the request may have gone out.
AfterReservation(j, s) == IF result[j][s] # Nothing THEN "load" ELSE "record"

\* What a reservation without a result counts as.
Interrupted == [status |-> "unknown", retry |-> FALSE, usage |-> Nothing]

\* Room for the worst case is asked for, then the reservation is written, or
\* the one found must be the same.
Attempt(p) ==
    /\ call[p].phase = "attempt"
    /\ LET j == JobOf(p)
           s == SlotOf(p)
           a == call[p].attempt
           ledger == Reserve(call[p].ledger, a)
           found == reserved[j][s]
       IN  \/ /\ ~Affordable(call[p].ledger, a, call[p].ask.limit)
              /\ Answer(p, "budget")
              /\ UNCHANGED reserved
           \/ /\ Affordable(call[p].ledger, a, call[p].ask.limit)
              /\ found = Nothing
              /\ reserved' = [reserved EXCEPT ![j][s] = ledger]
              /\ call' = [call EXCEPT ![p].phase = "send",
                                      ![p].ledger = ledger]
           \/ /\ Affordable(call[p].ledger, a, call[p].ask.limit)
              /\ found = ledger
              /\ LET next == AfterReservation(j, s)
                 IN  call' = [call EXCEPT ![p].phase = next,
                         ![p].ledger = IF next = "record"
                                       THEN Charge(ledger, Interrupted)
                                       ELSE ledger,
                         ![p].outcome = Interrupted]
              /\ UNCHANGED reserved
           \/ /\ Affordable(call[p].ledger, a, call[p].ask.limit)
              /\ found \notin {Nothing, ledger}
              /\ Answer(p, "blocked")
              /\ UNCHANGED reserved
    /\ UNCHANGED <<request, result, unit, done, count, seen>>

Learn(p, outcome) ==
    call' = [call EXCEPT ![p].phase = "record", ![p].outcome = outcome,
                         ![p].ledger = Charge(@, outcome)]

\* No connection (worth another attempt) or no key (not): nothing goes out.
NotSent(p) ==
    /\ call[p].phase = "send"
    /\ \E retry \in BOOLEAN :
          Learn(p, [status |-> "failed", retry |-> retry, usage |-> Nothing])
    /\ UNCHANGED <<files, count, seen>>

\* The request goes out, and the provider charges what it uses.
Send(p) ==
    /\ call[p].phase = "send"
    /\ LET j == JobOf(p)
       IN  \E used \in Usages :
              /\ sent' = [sent EXCEPT ![j][SlotOf(p)] = @ + 1]
              /\ bill' = [bill EXCEPT ![j] = @ + used]
              /\ call' = [call EXCEPT ![p].phase = "wait",
                             ![p].outcome = [Interrupted EXCEPT !.usage = used]]
    /\ UNCHANGED <<files, count>>

\* An answer that passes the contract, or one that does not but tells its
\* usage; a timeout, broken connection or unreadable answer, final as well; or
\* a transient HTTP failure, which the provider charges within the plan.
Reply(p) ==
    /\ call[p].phase = "wait"
    /\ LET used == call[p].outcome.usage
       IN  \/ Learn(p, [status |-> "succeeded", retry |-> FALSE, usage |-> used])
           \/ Learn(p, [status |-> "failed", retry |-> FALSE, usage |-> used])
           \/ Learn(p, Interrupted)
           \/ used <= Plan /\ Learn(p, [Interrupted EXCEPT !.retry = TRUE])
    /\ UNCHANGED <<files, count, seen>>

\* Behind the result of an attempt: stop, go on to the unit's record, give the
\* unit up, or try again.
Proceed(p, ledger, outcome) ==
    IF Exceeds(ledger, outcome, call[p].ask.limit) THEN Answer(p, "budget")
    ELSE IF outcome.status = "succeeded"
         THEN call' = [call EXCEPT ![p].phase = "unit", ![p].ledger = ledger]
    ELSE IF ~outcome.retry \/ call[p].attempt = 3 THEN Answer(p, "failed")
    ELSE call' = [call EXCEPT ![p].phase = "attempt", ![p].ledger = ledger,
                              ![p].attempt = @ + 1]

\* The result is durable before the call goes on or its budget stops it.
Record(p) ==
    /\ call[p].phase = "record"
    /\ LET outcome == call[p].outcome
           ledger == call[p].ledger
       IN  /\ result' = [result EXCEPT ![JobOf(p)][SlotOf(p)] =
                            [outcome |-> outcome, ledger |-> ledger]]
           /\ Proceed(p, ledger, outcome)
    /\ UNCHANGED <<request, reserved, unit, done, count, seen>>

\* MUTANT: a replayed result is not charged.
LoadLedger_Free(p, found) == call[p].ledger

\* The ledger as the replay of a result makes it.
LoadLedger(p, found) == Charge(call[p].ledger, found.outcome)

\* _load_attempt_result: the charge is made again and must come to the same.
LoadResult(p) ==
    /\ call[p].phase = "load"
    /\ LET found == result[JobOf(p)][SlotOf(p)]
       IN  \/ found = Half /\ Answer(p, "blocked")
           \/ /\ found # Half
              /\ LET ledger == LoadLedger(p, found)
                 IN  \/ ledger = found.ledger /\ Proceed(p, ledger, found.outcome)
                     \/ ledger # found.ledger /\ Answer(p, "blocked")
    /\ UNCHANGED <<files, count, seen>>

-----------------------------------------------------------------------------
(* Units and what is made of them                                          *)

WriteUnit(p) ==
    /\ call[p].phase = "unit"
    /\ LET j == JobOf(p)
           u == call[p].unit
       IN  \/ /\ unit[j][u] \in {Nothing, call[p].ledger}
              /\ unit' = [unit EXCEPT ![j][u] = call[p].ledger]
              /\ call' = IF u = UnitsOf[j]
                         THEN [call EXCEPT ![p].phase = "publish"]
                         ELSE [call EXCEPT ![p].phase = "attempt",
                                  ![p].unit = u + 1, ![p].attempt = 1]
           \/ /\ unit[j][u] \notin {Nothing, call[p].ledger}
              /\ Answer(p, "blocked")
              /\ UNCHANGED unit
    /\ UNCHANGED <<request, reserved, result, done, count, seen>>

\* The suggestion is renamed into place, the map published (MapPublish); one
\* that stands already must be the same.
PublishJob(p) ==
    /\ call[p].phase = "publish"
    /\ LET j == JobOf(p)
           made == [limit |-> call[p].ask.limit, ledger |-> call[p].ledger]
       IN  \/ /\ done[j] \in {Nothing, made}
              /\ done' = [done EXCEPT ![j] = made]
              /\ Answer(p, "ok")
           \/ /\ done[j] \notin {Nothing, made}
              /\ Answer(p, "blocked")
              /\ UNCHANGED done
    /\ UNCHANGED <<request, reserved, result, unit, count, seen>>

\* The file under the pen of a killed call.
LeaveHalf(p) ==
    LET j == JobOf(p)
        s == SlotOf(p)
    IN  \/ /\ call[p].phase = "request" /\ request[j] = Nothing
           /\ request' = [request EXCEPT ![j] = Half]
           /\ UNCHANGED <<reserved, result, unit>>
        \/ /\ call[p].phase = "attempt" /\ reserved[j][s] = Nothing
           /\ Affordable(call[p].ledger, call[p].attempt, call[p].ask.limit)
           /\ reserved' = [reserved EXCEPT ![j][s] = Half]
           /\ UNCHANGED <<request, result, unit>>
        \/ /\ call[p].phase = "record"
           /\ result' = [result EXCEPT ![j][s] = Half]
           /\ UNCHANGED <<request, reserved, unit>>
        \/ /\ call[p].phase = "unit" /\ unit[j][call[p].unit] = Nothing
           /\ unit' = [unit EXCEPT ![j][call[p].unit] = Half]
           /\ UNCHANGED <<request, reserved, result>>

\* The process is killed; a request that is out has been charged.
Kill(p) ==
    /\ call[p].phase \in Steps
    /\ count.kills < MaxKills
    /\ count' = [count EXCEPT !.kills = @ + 1]
    /\ call' = [call EXCEPT ![p] = [phase |-> "idle"]]
    /\ LeaveHalf(p) \/ UNCHANGED <<request, reserved, result, unit>>
    /\ UNCHANGED <<done, seen>>

Init ==
    /\ request = [j \in Jobs |-> Nothing]
    /\ reserved = [j \in Jobs |-> [s \in Slots |-> Nothing]]
    /\ result = [j \in Jobs |-> [s \in Slots |-> Nothing]]
    /\ unit = [j \in Jobs |-> [u \in UnitIds |-> Nothing]]
    /\ done = [j \in Jobs |-> Nothing]
    /\ call = [p \in Procs |-> [phase |-> "idle"]]
    /\ count = [calls |-> 0, kills |-> 0]
    /\ sent = [j \in Jobs |-> [s \in Slots |-> 0]]
    /\ bill = [j \in Jobs |-> 0]

Step(p) ==
    \/ \E ask \in Asks : Call(p, ask)
    \/ Lock(p) \/ FreezeRequest(p) \/ Attempt(p) \/ NotSent(p) \/ Send(p)
    \/ Reply(p) \/ Record(p) \/ LoadResult(p) \/ WriteUnit(p) \/ PublishJob(p)
    \/ Kill(p)

Next == \E p \in Procs : Step(p)

Spec == Init /\ [][Next]_vars

-----------------------------------------------------------------------------
(* What the journal promises                                               *)

(***************************************************************************)
(* No request goes out twice in the same attempt, by whichever process and *)
(* after whatever kill: what may have been paid for is never sent again    *)
(* (_execute_unit, map_operations.py:1615).                                *)
(***************************************************************************)
NothingIsSentTwice == \A j \in Jobs : \A s \in Slots : sent[j][s] <= 1

\* The jobs whose spending a job answers for, its own and its prior's.
Chain(j) ==
    {j} \cup (IF Whole(request[j]) THEN {request[j].ask.prior} \ {Nothing}
              ELSE {})

Billed(j) == bill[j] + (IF Chain(j) = {j} THEN 0 ELSE bill[request[j].ask.prior])

Went(j) == {w \in Chain(j) \X Slots : sent[w[1]][w[2]] > 0}

(***************************************************************************)
(* Each request that goes out is covered: what the provider has charged so *)
(* far, to the job and to the suggestion it continues, leaves room for its *)
(* worst case within the limit frozen first, and the requests and repeated *)
(* requests stay within theirs, across kills, lost answers and replays     *)
(* (ProcessingBudgetLedger.reserve_attempt, processing.py:751).            *)
(***************************************************************************)
EveryCallIsCovered ==
    [][\A j \in Jobs :
          sent'[j] # sent[j] =>
              /\ Billed(j) + Plan <= request[j].ask.limit
              /\ Cardinality(Went(j)') <= MaxAttempts
              /\ Cardinality({w \in Went(j)' : w[2][2] > 1}) <= MaxRetries
      ]_vars

Torn(j) ==
    \/ request[j] = Half
    \/ \E s \in Slots : Half \in {reserved[j][s], result[j][s]}
    \/ \E u \in UnitIds : unit[j][u] = Half

(***************************************************************************)
(* Whatever calls were cut short before, the files of a job are read back  *)
(* to the same ledger they were written with: only a file that was itself  *)
(* cut short stops the job for good (_load_attempt_result,                 *)
(* map_operations.py:1411).                                                *)
(***************************************************************************)
OnlyTornFilesBlock ==
    \A p \in Procs :
        call[p].phase = "told" /\ call[p].why = "blocked" => Torn(JobOf(p))
=============================================================================
