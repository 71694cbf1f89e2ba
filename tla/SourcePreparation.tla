------------------------- MODULE SourcePreparation -------------------------
(***************************************************************************)
(* prepare_source, inspect_source and show_evidence                        *)
(* (knowledgeflow_curation/operations.py) of one experiment root: a file   *)
(* named by its expected digest is captured under a key made of the        *)
(* request id, and one bundle directory per request binds capture,         *)
(* authorisation, run and evidence.  No lock is taken: the capture's       *)
(* idempotency key and the rename that replaces nothing are all that       *)
(* orders two calls.                                                       *)
(*                                                                         *)
(* The Capture Store appears as one step that answers per key (CaptureStore*)
(* and its refinement of the abstract log say why that is enough).  The    *)
(* file belongs to somebody else and may change at any moment.             *)
(***************************************************************************)
EXTENDS Naturals, FiniteSets

CONSTANTS Procs,       \* processes that call the public operations
          Preparations,\* SourcePrepareRequests: [id, expect, scope]
          Texts,       \* contents the file may have
          Nothing,     \* an absent file, capture or bundle
          MaxCalls,    \* bound: calls made in all
          MaxCuts,     \* bound: calls killed or failed by the system
          MaxEdits     \* bound: changes of source files

Sources == {req.id : req \in Preparations}
Bundles == [req : Preparations, run : Nat]

\* An absent file is not one with contents.
ASSUME PreparationAssumption ==
    /\ \A req \in Preparations : req.expect \in Texts
    /\ Nothing \notin Texts /\ Nothing \notin Bundles
    /\ {MaxCalls, MaxCuts, MaxEdits} \subseteq Nat

VARIABLES text,      \* text[s]: the file at the path request s names
          captured,  \* captured[s]: text stored under the key of request s
          source,    \* source[s]: the bundle requests/<s>, or Nothing
          call,      \* call[p]: the running call or the last answer of p
          spent      \* calls begun, calls cut short and edits, all bounded

prepareVars == <<text, captured, source>>

States == {"committed", "not", "unknown"}

\* The answer a caller holds: success with facts, or CurationFailure.
Told(req, state, why, facts) ==
    [phase |-> "told", req |-> req, state |-> state, why |-> why,
     facts |-> facts]

Answer(p, state, why, facts) ==
    call' = [call EXCEPT ![p] = Told(@.req, state, why, facts)]

Goto(p, phase) == call' = [call EXCEPT ![p].phase = phase]

Succeed(p, facts) == Answer(p, "committed", "ok", facts)

Refuse(p, state, why) == Answer(p, state, why, Nothing)

Idle(p) == call[p].phase \in {"idle", "told"}

\* A process takes up a call; its number tells its draws from any other's.
Begin(p, req, phase) ==
    /\ Idle(p)
    /\ spent.calls < MaxCalls
    /\ call' = [call EXCEPT ![p] =
                    [phase |-> phase, req |-> req, n |-> spent.calls + 1]]
    /\ spent' = [spent EXCEPT !.calls = @ + 1]

\* The bundle of a run: what was asked, and the identities drawn for it.
Bundle(req, n) == [req |-> req, run |-> n]

-----------------------------------------------------------------------------
(* prepare_source                                                          *)

CallPrepare(p, req) ==
    /\ Begin(p, req, "look")
    /\ UNCHANGED prepareVars

\* _existing_bundle: the published bundle answers for the same request bytes.
Look(p) ==
    /\ call[p].phase = "look"
    /\ LET req == call[p].req
           found == source[req.id]
       IN  \/ found = Nothing /\ Goto(p, "preflight")
           \/ found # Nothing /\ found.req = req /\ Succeed(p, found)
           \/ found # Nothing /\ found.req # req /\ Refuse(p, "not", "conflict")
    /\ UNCHANGED <<prepareVars, spent>>

\* _hash_exact_source, before anything is stored.
Preflight(p) ==
    /\ call[p].phase = "preflight"
    /\ LET req == call[p].req
       IN  \/ text[req.id] = req.expect /\ Goto(p, "capture")
           \/ text[req.id] # req.expect /\ Refuse(p, "not", "mismatch")
    /\ UNCHANGED <<prepareVars, spent>>

\* capture_text reads the file once more and stores it under the key, finds
\* the text it has stored already, or finds another one under the key.
CaptureFile(p) ==
    /\ call[p].phase = "capture"
    /\ LET s == call[p].req.id
       IN  \/ /\ captured[s] \in {Nothing, text[s]}
              /\ captured' = [captured EXCEPT ![s] = text[s]]
              /\ Goto(p, "postflight")
           \/ /\ captured[s] \notin {Nothing, text[s]}
              /\ Refuse(p, "not", "conflict")
              /\ UNCHANGED captured
    /\ UNCHANGED <<text, source, spent>>

\* The receipt's digest, then the file's, then the stored bytes read back.
Postflight(p) ==
    /\ call[p].phase = "postflight"
    /\ LET req == call[p].req
           same == captured[req.id] = req.expect /\ text[req.id] = req.expect
       IN  \/ same /\ Goto(p, "publish")
           \/ ~same /\ Refuse(p, "unknown", "mismatch")
    /\ UNCHANGED <<prepareVars, spent>>

\* _write_bundle; the loser of a race answers with the winner's bundle.
PublishSource(p) ==
    /\ call[p].phase = "publish"
    /\ LET req == call[p].req
           found == source[req.id]
           mine == Bundle(req, call[p].n)
       IN  \/ /\ found = Nothing
              /\ source' = [source EXCEPT ![req.id] = mine]
              /\ Succeed(p, mine)
           \/ found # Nothing /\ found.req = req /\ Succeed(p, found)
                /\ UNCHANGED source
           \/ found # Nothing /\ found.req # req
                /\ Refuse(p, "unknown", "blocked") /\ UNCHANGED source
    /\ UNCHANGED <<text, captured, spent>>

PrepareSteps == {"look", "preflight", "capture", "postflight", "publish"}

\* The system fails the call, or kills it (and the answer is never read).  A
\* capture cut short may have committed; from then on the answer is unknown,
\* also when the rename has happened and the bundle cannot be read back.
CutPrepare(p) ==
    /\ call[p].phase \in PrepareSteps
    /\ spent.cuts < MaxCuts
    /\ spent' = [spent EXCEPT !.cuts = @ + 1]
    /\ LET s == call[p].req.id
           stores == call[p].phase = "capture" /\ captured[s] = Nothing
       IN  \/ /\ UNCHANGED <<captured, source>>
              /\ Refuse(p, IF call[p].phase \in {"postflight", "publish"}
                           THEN "unknown" ELSE "not", "cut")
           \/ /\ stores
              /\ captured' = [captured EXCEPT ![s] = text[s]]
              /\ Refuse(p, "unknown", "cut")
              /\ UNCHANGED source
           \/ /\ call[p].phase = "publish" /\ source[s] = Nothing
              /\ source' = [source EXCEPT ![s] = Bundle(call[p].req, call[p].n)]
              /\ Refuse(p, "unknown", "cut")
              /\ UNCHANGED captured
    /\ UNCHANGED text

\* A read of the published bundle of a source, whoever asks.
Read(p, s, answer) ==
    /\ Idle(p)
    /\ source[s] # Nothing
    /\ spent.calls < MaxCalls
    /\ spent' = [spent EXCEPT !.calls = @ + 1]
    /\ call' = [call EXCEPT ![p] = answer]
    /\ UNCHANGED prepareVars

\* inspect_source: the bundle as it is.
InspectSource(p, s) ==
    Read(p, s, Told(source[s].req, "committed", "ok", source[s]))

\* show_evidence: bytes of the stored text, if it is still the one bound.
ShowEvidence(p, s) ==
    Read(p, s, IF captured[s] = source[s].req.expect
               THEN Told(source[s].req, "committed", "ok", source[s])
               ELSE Told(source[s].req, "unknown", "integrity", Nothing))

\* The owner of the file writes to it; an edit while nobody prepares is seen by
\* the next call only, so those made during a call are enough.
Edit(s) ==
    /\ \E p \in Procs : call[p].phase \in PrepareSteps /\ call[p].req.id = s
    /\ spent.edits < MaxEdits
    /\ spent' = [spent EXCEPT !.edits = @ + 1]
    /\ \E t \in Texts \ {text[s]} : text' = [text EXCEPT ![s] = t]
    /\ UNCHANGED <<captured, source, call>>

PrepareInit ==
    /\ text \in [Sources -> Texts]
    /\ captured = [s \in Sources |-> Nothing]
    /\ source = [s \in Sources |-> Nothing]
    /\ call = [p \in Procs |-> [phase |-> "idle"]]
    /\ spent = [calls |-> 0, cuts |-> 0, edits |-> 0]

PrepareStep(p) ==
    \/ \E req \in Preparations : CallPrepare(p, req)
    \/ \E s \in Sources : InspectSource(p, s) \/ ShowEvidence(p, s)
    \/ Look(p) \/ Preflight(p) \/ CaptureFile(p) \/ Postflight(p)
    \/ PublishSource(p) \/ CutPrepare(p)

-----------------------------------------------------------------------------
(* What a bundle promises                                                  *)

(***************************************************************************)
(* A caller told of a source holds the bundle that is on disk, whichever   *)
(* call published it and however long ago, and the text it binds is the    *)
(* stored one and the one that was asked for: not that of a file changed   *)
(* between the hash and the capture (prepare_source, operations.py:893).   *)
(***************************************************************************)
PreparedSourcesStand ==
    /\ \A s \in Sources : source[s] # Nothing =>
          captured[s] = source[s].req.expect
    /\ \A p \in Procs :
          call[p].phase = "told" /\ call[p].state = "committed"
                /\ call[p].req \in Preparations
          => source[call[p].req.id] = call[p].facts
=============================================================================
