---------------------------- MODULE InboxSession ----------------------------
(***************************************************************************)
(* The local inbox: window sessions (InboxSession and its Tk window) that  *)
(* write through the public operations of one Capture Store and keep the   *)
(* identity of an unfinished write for retries.  The store is the version  *)
(* log CaptureStore is shown to implement: a call commits at most once per *)
(* key, or not at all, and its answer may be lost.  A window is single     *)
(* threaded: while a call runs, none of its callbacks does.                *)
(***************************************************************************)
EXTENDS Naturals

CONSTANTS Sessions,   \* windows open side by side
          Texts,      \* bodies a user may type
          MaxKeys     \* bound: idempotency keys drawn, over all sessions

ASSUME InboxAssumption == MaxKeys \in Nat

VARIABLES committed,  \* versions of the store, with the key that made them
                      \* and, as history, whether their base had been read
          pending,    \* _pending: the write kept for retries
          document,   \* _current_document
          draft,      \* _draft_capture_id and _draft_expected_version
          ready,      \* _configured_ready
          call,       \* the public operation under way: none, sent, stored
          nextKey,    \* next value of _new_idempotency_key
          seen,       \* history: the last read showed the pending write
          displayed,  \* history: current <<item, version>> the user has seen
          doubt       \* history: an answer was unknown, nothing read since

windowVars == <<pending, document, draft, ready, call>>
histVars   == <<seen, displayed, doubt>>
vars == <<committed, windowVars, nextKey, histVars>>

Keys == 1..MaxKeys

\* capture_id None is 0; a new item takes the number of its key.
NewDraft == [item |-> 0, expected |-> 0]
NoDoc    == [item |-> 0, current |-> 0]
NoWrite  == [key |-> 0]
Writes   == [key : Keys, text : Texts, item : 0..MaxKeys,
             expected : 0..MaxKeys,
             state : {"none", "not-committed", "unknown"},
             reviewed : BOOLEAN]

StoredKeys == {v.key : v \in committed}

IsCurrent(i, n) ==
    /\ \E v \in committed : v.item = i /\ v.ver = n
    /\ \A v \in committed : v.item = i => v.ver <= n

-----------------------------------------------------------------------------
(* Reading: pages and documents                                            *)

\* A successful read after an unknown answer counts as its review.
Reviewed(w) ==
    IF w # NoWrite /\ w.state = "unknown" THEN [w EXCEPT !.reviewed = TRUE]
    ELSE w

\* The write of s is no longer pending.
Drop(s) ==
    /\ pending' = [pending EXCEPT ![s] = NoWrite]
    /\ seen' = [seen EXCEPT ![s] = FALSE]
    /\ doubt' = [doubt EXCEPT ![s] = FALSE]

SawStore(s) ==
    /\ seen' = [seen EXCEPT ![s] = pending[s].key \in StoredKeys]
    /\ doubt' = [doubt EXCEPT ![s] = FALSE]

\* _refresh, _next_page, _previous_page
LoadPage(s) ==
    /\ call[s] = "none"
    /\ ready' = [ready EXCEPT ![s] = TRUE]
    /\ pending' = [pending EXCEPT ![s] = Reviewed(@)]
    /\ SawStore(s)
    /\ UNCHANGED <<committed, document, draft, call, nextKey,
                   displayed>>

\* The list failed with one of the codes that make the window unusable.
LoadPageFails(s) ==
    /\ call[s] = "none"
    /\ ready' = [ready EXCEPT ![s] = FALSE]
    /\ UNCHANGED <<committed, pending, document, draft, call, nextKey, histVars>>

Display(s, i, n) ==
    /\ document' = [document EXCEPT ![s] = [item |-> i, current |-> n]]
    /\ displayed' = [displayed EXCEPT ![s] = @ \cup {<<i, n>>}]

\* _open_selected: read the current version of an item of the page.
OpenCapture(s) ==
    /\ call[s] = "none"
    /\ \E v \in committed : IsCurrent(v.item, v.ver)
                            /\ Display(s, v.item, v.ver)
    /\ pending' = [pending EXCEPT ![s] = Reviewed(@)]
    /\ SawStore(s)
    /\ UNCHANGED <<committed, draft, ready, call, nextKey>>

-----------------------------------------------------------------------------
(* Giving up a pending write                                               *)

\* abandon_pending, and the check _confirm_replace_pending makes before it
MayAbandon(s) ==
    ~( /\ pending[s] # NoWrite
       /\ pending[s].state = "unknown"
       /\ ~pending[s].reviewed )

\* The button is there for a pending write only.
AbandonPending(s) ==
    /\ call[s] = "none"
    /\ pending[s] # NoWrite
    /\ MayAbandon(s)
    /\ Drop(s)
    /\ UNCHANGED <<committed, document, draft, ready, call, nextKey,
                   displayed>>

StartNew(s) ==
    /\ call[s] = "none"
    /\ ready[s]
    /\ MayAbandon(s)
    /\ Drop(s)
    /\ draft' = [draft EXCEPT ![s] = NewDraft]
    /\ UNCHANGED <<committed, document, ready, call, nextKey,
                   displayed>>

\* MUTANT: the base is the newest version of the item, seen or not.
StartAppend_Newest(s) ==
    /\ call[s] = "none"
    /\ ready[s]
    /\ document[s] # NoDoc
    /\ MayAbandon(s)
    /\ Drop(s)
    /\ \E v \in committed :
          /\ v.item = document[s].item
          /\ IsCurrent(v.item, v.ver)
          /\ draft' = [draft EXCEPT ![s] = [item |-> v.item,
                                            expected |-> v.ver]]
    /\ UNCHANGED <<committed, document, ready, call, nextKey,
                   displayed>>

\* The base of an append is the current version of the document on display.
StartAppend(s) ==
    /\ call[s] = "none"
    /\ ready[s]
    /\ document[s] # NoDoc
    /\ MayAbandon(s)
    /\ Drop(s)
    /\ draft' = [draft EXCEPT ![s] = [item |-> document[s].item,
                                      expected |-> document[s].current]]
    /\ UNCHANGED <<committed, document, ready, call, nextKey,
                   displayed>>

-----------------------------------------------------------------------------
(* Writing                                                                 *)

SameRequest(s, t) ==
    /\ pending[s] # NoWrite
    /\ pending[s].text = t
    /\ pending[s].item = draft[s].item
    /\ pending[s].expected = draft[s].expected

\* The pending write is sent once more, under its key.
Resend(s) ==
    /\ call' = [call EXCEPT ![s] = "sent"]
    /\ UNCHANGED <<committed, pending, document, draft, ready, nextKey, histVars>>

\* A request with a key of its own takes the place of the pending write.
SendFresh(s, t) ==
    /\ nextKey <= MaxKeys
    /\ pending' = [pending EXCEPT ![s] =
          [key |-> nextKey, text |-> t, item |-> draft[s].item,
           expected |-> draft[s].expected, state |-> "none",
           reviewed |-> FALSE]]
    /\ nextKey' = nextKey + 1
    /\ call' = [call EXCEPT ![s] = "sent"]
    /\ seen' = [seen EXCEPT ![s] = FALSE]
    /\ doubt' = [doubt EXCEPT ![s] = FALSE]
    /\ UNCHANGED <<committed, document, draft, ready, displayed>>

\* MUTANT: saving over an unknown write replaces it.
Save_ReplacesUnknown(s, t) ==
    /\ call[s] = "none"
    /\ ready[s]
    /\ IF SameRequest(s, t) THEN Resend(s) ELSE SendFresh(s, t)

\* capture and append: _select_pending, then the public operation.  (The
\* refusal of a new text over an unknown write changes nothing.)
Save(s, t) ==
    /\ call[s] = "none"
    /\ ready[s]
    /\ IF SameRequest(s, t) THEN Resend(s)
       ELSE /\ pending[s] # NoWrite => pending[s].state # "unknown"
            /\ SendFresh(s, t)

RetryPending(s) ==
    /\ call[s] = "none"
    /\ pending[s] # NoWrite
    /\ Resend(s)

\* capture_text and append_capture_version reach their commit.
StoreCommits(s) ==
    /\ call[s] = "sent"
    /\ pending[s].key \notin StoredKeys
    /\ pending[s].item = 0 \/ IsCurrent(pending[s].item, pending[s].expected)
    /\ LET p == pending[s]
           i == IF p.item = 0 THEN p.key ELSE p.item
       IN  /\ committed' = committed \cup
                 {[item |-> i, ver |-> p.expected + 1, key |-> p.key,
                   read |-> p.item = 0 \/ <<i, p.expected>> \in displayed[s]]}
           /\ displayed' = [w \in Sessions |->
                               displayed[w] \ {<<i, p.expected>>}]
    /\ call' = [call EXCEPT ![s] = "stored"]
    /\ UNCHANGED <<pending, document, draft, ready, nextKey, seen, doubt>>

\* A receipt: the write is no longer pending, and _render_write reloads the
\* first page and opens the item, either of which may fail.
ReturnsReceipt(s) ==
    /\ call[s] \in {"sent", "stored"}
    /\ pending[s].key \in StoredKeys
    /\ call' = [call EXCEPT ![s] = "none"]
    /\ Drop(s)
    /\ draft' = [draft EXCEPT ![s] = NewDraft]
    /\ \E listed \in BOOLEAN : ready' = [ready EXCEPT ![s] = listed]
    /\ \/ UNCHANGED <<document, displayed>>
       \/ \E v, top \in committed :
             /\ v.key = pending[s].key
             /\ top.item = v.item
             /\ IsCurrent(top.item, top.ver)
             /\ Display(s, top.item, top.ver)
    /\ UNCHANGED <<committed, nextKey>>

\* The operation answers "not-committed": it refused, ran into the lock
\* timeout, or failed before its commit.  That is said of this call only: an
\* earlier call under the same key may have committed.
ReturnsNotCommitted(s) ==
    /\ call[s] = "sent"
    /\ call' = [call EXCEPT ![s] = "none"]
    /\ pending' = [pending EXCEPT ![s].state = "not-committed"]
    /\ UNCHANGED <<committed, document, draft, ready, nextKey,
                   histVars>>

\* MUTANT: a second unknown answer keeps the old review.
ReturnsUnknown_KeepsReview(s) ==
    /\ call[s] \in {"sent", "stored"}
    /\ call' = [call EXCEPT ![s] = "none"]
    /\ pending' = [pending EXCEPT ![s].state = "unknown"]
    /\ doubt' = [doubt EXCEPT ![s] = TRUE]
    /\ UNCHANGED <<committed, document, draft, ready, nextKey, seen,
                   displayed>>

\* "unknown", an exception, or a result that cannot be verified.
ReturnsUnknown(s) ==
    /\ call[s] \in {"sent", "stored"}
    /\ call' = [call EXCEPT ![s] = "none"]
    /\ pending' = [pending EXCEPT ![s].state = "unknown",
                                  ![s].reviewed = FALSE]
    /\ seen' = [seen EXCEPT ![s] = FALSE]
    /\ doubt' = [doubt EXCEPT ![s] = TRUE]
    /\ UNCHANGED <<committed, document, draft, ready, nextKey,
                   displayed>>

\* The window is closed, or killed in the middle of a call, and opened again
\* with nothing remembered.
Close(s) ==
    /\ Drop(s)
    /\ document' = [document EXCEPT ![s] = NoDoc]
    /\ draft' = [draft EXCEPT ![s] = NewDraft]
    /\ ready' = [ready EXCEPT ![s] = FALSE]
    /\ call' = [call EXCEPT ![s] = "none"]
    /\ UNCHANGED <<committed, nextKey, displayed>>

-----------------------------------------------------------------------------
Init ==
    /\ committed = {}
    /\ pending = [s \in Sessions |-> NoWrite]
    /\ document = [s \in Sessions |-> NoDoc]
    /\ draft = [s \in Sessions |-> NewDraft]
    /\ ready = [s \in Sessions |-> FALSE]
    /\ call = [s \in Sessions |-> "none"]
    /\ nextKey = 1
    /\ seen = [s \in Sessions |-> FALSE]
    /\ displayed = [s \in Sessions |-> {}]
    /\ doubt = [s \in Sessions |-> FALSE]

Callback(s) ==
    \/ LoadPage(s) \/ LoadPageFails(s) \/ OpenCapture(s)
    \/ AbandonPending(s) \/ StartNew(s) \/ StartAppend(s)
    \/ \E t \in Texts : Save(s, t)
    \/ RetryPending(s)

CallStep(s) ==
    \/ StoreCommits(s)
    \/ ReturnsReceipt(s) \/ ReturnsNotCommitted(s) \/ ReturnsUnknown(s)

Next == \E s \in Sessions : Callback(s) \/ CallStep(s) \/ Close(s)

Spec == Init /\ [][Next]_vars

-----------------------------------------------------------------------------
(* Properties                                                              *)

\* A review is of the last call: while a write is unknown and reviewed, the
\* store holds its key exactly if it did when the user looked.  Otherwise the
\* user would give up an identity on stale evidence and save a duplicate.
ReviewIsCurrent ==
    \A s \in Sessions :
        ( /\ call[s] = "none"
          /\ pending[s] # NoWrite
          /\ pending[s].state = "unknown"
          /\ pending[s].reviewed )
        => (pending[s].key \in StoredKeys <=> seen[s])

\* An identity whose last answer is unknown leaves a living window only with
\* a receipt or after a review, whichever callback drops it.
UnknownIsNotDropped ==
    [][\A s \in Sessions :
          ( /\ pending[s] # NoWrite
            /\ pending[s].state = "unknown"
            /\ pending'[s].key # pending[s].key
            /\ ~Close(s) )
          => \/ pending[s].reviewed
             \/ call[s] # "none" /\ pending[s].key \in StoredKeys]_vars

\* Every append that commits stands on a version its own window had on
\* display: nobody overwrites what he has not read, however stale his page.
AppendsFollowReading == \A v \in committed : v.read

\* What the product specification says of an unknown write: it cannot be
\* replaced or given up before the user has looked.  Here, for a write that is
\* in the store.  In the code a retry that is answered "not-committed" (a lock
\* timeout, say) overwrites "unknown" and lifts the protection.
SavedIsNotForgotten ==
    [][\A s \in Sessions :
          ( /\ doubt[s]
            /\ pending[s].key \in StoredKeys
            /\ pending'[s].key # pending[s].key )
          => Close(s) \/ call[s] # "none"]_vars
=============================================================================
