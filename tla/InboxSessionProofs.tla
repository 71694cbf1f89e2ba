------------------------- MODULE InboxSessionProofs -------------------------
(***************************************************************************)
(* Proofs about InboxSession, for any sets of windows and texts and any    *)
(* bound on the keys.                                                      *)
(***************************************************************************)
EXTENDS InboxSession, TLAPS

Commits == [item : Keys, ver : Keys, key : Keys, read : BOOLEAN]

(* The parts of the inductive invariant                                    *)

TypeInv ==
    /\ nextKey \in 1..(MaxKeys + 1)
    /\ committed \in SUBSET Commits
    /\ pending \in [Sessions -> Writes \cup {NoWrite}]
    /\ document \in [Sessions -> [item : 0..MaxKeys, current : 0..MaxKeys]]
    /\ draft \in [Sessions -> [item : 0..MaxKeys, expected : 0..MaxKeys]]
    /\ ready \in [Sessions -> BOOLEAN]
    /\ call \in [Sessions -> {"none", "sent", "stored"}]
    /\ seen \in [Sessions -> BOOLEAN]
    /\ displayed \in [Sessions -> SUBSET (Nat \X Nat)]
    /\ doubt \in [Sessions -> BOOLEAN]

\* Keys are drawn in order, a version number never exceeds the key that made
\* the version, and an item is the key of a capture that was committed.
StoreNumbers ==
    \A v \in committed :
        v.key < nextKey /\ v.ver <= v.key /\ v.item \in StoredKeys

\* Two windows never hold the same key, so that nobody but its window commits
\* a pending write.
KeysAreApart ==
    \A s, w \in Sessions :
        s # w /\ pending[s] # NoWrite /\ pending[w] # NoWrite
        => pending[s].key # pending[w].key

\* <<i, n>> is a version the store has, older than key k, and still current
\* only if window s has had it on display.
Stands(s, i, n, k) ==
    /\ i < k /\ n < k
    /\ i # 0 => /\ \E v \in committed : v.item = i /\ v.ver = n
                /\ IsCurrent(i, n) => <<i, n>> \in displayed[s]

\* What window s shows, writes on and has sent stands on what it has read.
BasesStand(s) ==
    /\ Stands(s, document[s].item, document[s].current, nextKey)
    /\ Stands(s, draft[s].item, draft[s].expected, nextKey)
    /\ pending[s] # NoWrite =>
          /\ Stands(s, pending[s].item, pending[s].expected, pending[s].key)
          /\ pending[s].key < nextKey

\* A call is about a pending write.
CallIsPending(s) == call[s] # "none" => pending[s] # NoWrite

\* ReviewIsCurrent, of window s.
ReviewStands(s) ==
    ( /\ call[s] = "none"
      /\ pending[s] # NoWrite
      /\ pending[s].state = "unknown"
      /\ pending[s].reviewed )
    => (pending[s].key \in StoredKeys <=> seen[s])

WindowInv(s) == BasesStand(s) /\ CallIsPending(s) /\ ReviewStands(s)

IInv ==
    /\ TypeInv
    /\ StoreNumbers
    /\ KeysAreApart
    /\ AppendsFollowReading
    /\ \A s \in Sessions : WindowInv(s)

-----------------------------------------------------------------------------
(* Steps of one window that leave the store alone                          *)

\* Window s moves; the store and the other windows stay as they are.
OthersStand(s) ==
    /\ committed' = committed
    /\ nextKey <= nextKey'
    /\ \A w \in Sessions : displayed[w] \subseteq displayed'[w]
    /\ \A w \in Sessions \ {s} :
          /\ pending'[w] = pending[w] /\ document'[w] = document[w]
          /\ draft'[w] = draft[w] /\ call'[w] = call[w] /\ seen'[w] = seen[w]

\* A pending write is never the absent one.
LEMMA WritesAreWrites == \A w \in Writes : w # NoWrite /\ w.key # 0
  BY InboxAssumption DEF Writes, NoWrite, Keys

\* A base stands while the store does: its version is displayed for ever
\* after, until an append makes it stale.
LEMMA StandsStands ==
  ASSUME NEW s, NEW i \in Nat, NEW n \in Nat, NEW k \in Nat, NEW j \in Nat,
         Stands(s, i, n, k), k <= j,
         committed' = committed, displayed[s] \subseteq displayed'[s]
  PROVE  /\ Stands(s, i, n, j)'
         /\ Stands(s, i, n, k)'
  BY DEF Stands, IsCurrent

\* What holds of the windows that did not move still holds.
LEMMA OthersKeep ==
  ASSUME IInv, TypeInv', NEW s \in Sessions, OthersStand(s),
         NEW w \in Sessions \ {s}
  PROVE  WindowInv(w)'
  <1>1. /\ pending[w] \in Writes \cup {NoWrite}
        /\ document[w] \in [item : 0..MaxKeys, current : 0..MaxKeys]
        /\ draft[w] \in [item : 0..MaxKeys, expected : 0..MaxKeys]
    BY DEF IInv, TypeInv
  <1>2. /\ pending'[w] = pending[w] /\ document'[w] = document[w]
        /\ draft'[w] = draft[w] /\ call'[w] = call[w] /\ seen'[w] = seen[w]
        /\ displayed[w] \subseteq displayed'[w]
        /\ committed' = committed /\ nextKey <= nextKey'
        /\ nextKey \in Nat /\ nextKey' \in Nat
    BY InboxAssumption DEF OthersStand, IInv, TypeInv
  <1>3. BasesStand(w) /\ CallIsPending(w) /\ ReviewStands(w)
    BY DEF IInv, WindowInv
  <1>4. Stands(w, document[w].item, document[w].current, nextKey)'
    <2>1. document[w].item \in Nat /\ document[w].current \in Nat
      BY <1>1
    <2> QED BY <2>1, <1>2, <1>3, StandsStands DEF BasesStand, Stands, IsCurrent
  <1>5. Stands(w, draft[w].item, draft[w].expected, nextKey)'
    <2>1. draft[w].item \in Nat /\ draft[w].expected \in Nat
      BY <1>1
    <2> QED BY <2>1, <1>2, <1>3, StandsStands DEF BasesStand, Stands, IsCurrent
  <1>6. ASSUME pending'[w] # NoWrite
        PROVE  /\ Stands(w, pending[w].item, pending[w].expected, pending[w].key)'
               /\ pending'[w].key < nextKey'
    <2>1. /\ pending[w].item \in Nat /\ pending[w].expected \in Nat
          /\ pending[w].key \in Nat
      BY <1>1, <1>2, <1>6 DEF Writes, Keys
    <2> QED BY <2>1, <1>2, <1>3, <1>6 DEF BasesStand, Stands, IsCurrent
  <1>7. BasesStand(w)'
    BY <1>4, <1>5, <1>6 DEF BasesStand
  <1>8. CallIsPending(w)' /\ ReviewStands(w)'
    BY <1>2, <1>3 DEF CallIsPending, ReviewStands, StoredKeys
  <1> QED BY <1>7, <1>8 DEF WindowInv

\* A step of one window keeps the invariant if it keeps that window's part and
\* the key it holds afterwards is the one it held or a new one.
LEMMA WindowStep ==
  ASSUME IInv, TypeInv', NEW s \in Sessions, OthersStand(s), WindowInv(s)',
         pending'[s] # NoWrite =>
             \/ pending[s] # NoWrite /\ pending'[s].key = pending[s].key
             \/ pending'[s].key = nextKey
  PROVE  IInv'
  <1>1. \A w \in Sessions : WindowInv(w)'
    BY OthersKeep
  <1>2. KeysAreApart'
    <2>1. \A w \in Sessions \ {s} : pending'[w] = pending[w]
      BY DEF OthersStand
    <2>2. \A w \in Sessions :
             pending[w] # NoWrite => pending[w].key < nextKey /\ pending[w].key \in Nat
      BY DEF IInv, WindowInv, BasesStand, TypeInv, Writes, Keys
    <2>3. nextKey \in Nat
      BY InboxAssumption DEF IInv, TypeInv
    <2> QED BY <2>1, <2>2, <2>3 DEF IInv, KeysAreApart
  <1>3. StoreNumbers'
    BY InboxAssumption DEF IInv, StoreNumbers, OthersStand, StoredKeys, TypeInv, Commits, Keys
  <1>4. AppendsFollowReading'
    BY DEF IInv, AppendsFollowReading, OthersStand
  <1> QED BY <1>1, <1>2, <1>3, <1>4 DEF IInv

-----------------------------------------------------------------------------
(* The actions                                                             *)

\* The types of what window s holds.
LEMMA WindowTypes ==
  ASSUME TypeInv, NEW s \in Sessions
  PROVE  /\ pending[s] \in Writes \cup {NoWrite}
         /\ document[s] \in [item : 0..MaxKeys, current : 0..MaxKeys]
         /\ draft[s] \in [item : 0..MaxKeys, expected : 0..MaxKeys]
         /\ nextKey \in Nat /\ nextKey > 0 /\ nextKey <= MaxKeys + 1
         /\ MaxKeys \in Nat
  BY InboxAssumption DEF TypeInv

\* A base of a window stands as long as window and store do.
LEMMA KeptBase ==
  ASSUME IInv, NEW s \in Sessions, TypeInv', OthersStand(s)
  PROVE  /\ document'[s] = document[s] =>
               Stands(s, document[s].item, document[s].current, nextKey)'
         /\ draft'[s] = draft[s] =>
               Stands(s, draft[s].item, draft[s].expected, nextKey)'
         /\ pending[s] # NoWrite /\ pending'[s].key = pending[s].key
            /\ pending'[s].item = pending[s].item
            /\ pending'[s].expected = pending[s].expected =>
               /\ Stands(s, pending[s].item, pending[s].expected, pending[s].key)'
               /\ pending'[s].key < nextKey'
  <1>1. /\ committed' = committed /\ displayed[s] \subseteq displayed'[s]
        /\ nextKey <= nextKey' /\ nextKey \in Nat /\ nextKey' \in Nat
    BY InboxAssumption DEF OthersStand, IInv, TypeInv
  <1>2. BasesStand(s) /\ TypeInv
    BY DEF IInv, WindowInv
  <1>3. ASSUME document'[s] = document[s]
        PROVE  Stands(s, document[s].item, document[s].current, nextKey)'
    BY <1>1, <1>2, <1>3, WindowTypes DEF BasesStand, Stands, IsCurrent
  <1>4. ASSUME draft'[s] = draft[s]
        PROVE  Stands(s, draft[s].item, draft[s].expected, nextKey)'
    BY <1>1, <1>2, <1>4, WindowTypes DEF BasesStand, Stands, IsCurrent
  <1>5. ASSUME pending[s] # NoWrite, pending'[s].key = pending[s].key,
               pending'[s].item = pending[s].item,
               pending'[s].expected = pending[s].expected
        PROVE  /\ Stands(s, pending[s].item, pending[s].expected, pending[s].key)'
               /\ pending'[s].key < nextKey'
    <2>1. pending[s].key \in Nat
      BY <1>2, <1>5, WindowTypes DEF Writes, Keys
    <2> QED BY <1>1, <1>2, <1>5, <2>1 DEF BasesStand, Stands, IsCurrent
  <1> QED BY <1>3, <1>4, <1>5

\* Marking the pending write as reviewed changes nothing else of it.
LEMMA ReviewedWrite ==
  ASSUME NEW w \in Writes \cup {NoWrite}
  PROVE  /\ Reviewed(w) \in Writes \cup {NoWrite}
         /\ Reviewed(w) = NoWrite <=> w = NoWrite
         /\ w # NoWrite => /\ Reviewed(w).key = w.key
                           /\ Reviewed(w).item = w.item
                           /\ Reviewed(w).expected = w.expected
                           /\ Reviewed(w).state = w.state
  <1>1. CASE w = NoWrite
    BY <1>1 DEF Reviewed
  <1>2. CASE w \in Writes
    <2>1. Reviewed(w) \in Writes
      BY <1>2 DEF Reviewed, Writes
    <2> QED BY <1>2, <2>1, WritesAreWrites DEF Reviewed, Writes
  <1> QED BY <1>1, <1>2

\* Reading a page reviews the pending write and records what the store holds.
LEMMA LoadPageKeeps ==
  ASSUME IInv, NEW s \in Sessions, LoadPage(s)
  PROVE  IInv'
  <1>1. TypeInv'
    BY WindowTypes, ReviewedWrite DEF IInv, TypeInv, LoadPage, SawStore
  <1>2. OthersStand(s)
    BY DEF IInv, TypeInv, LoadPage, SawStore, OthersStand
  <1>3. /\ pending'[s] = Reviewed(pending[s]) /\ pending[s] \in Writes \cup {NoWrite}
        /\ document'[s] = document[s] /\ draft'[s] = draft[s]
        /\ call[s] = "none" /\ call' = call
        /\ seen'[s] = (pending[s].key \in StoredKeys) /\ committed' = committed
    BY WindowTypes DEF IInv, TypeInv, LoadPage, SawStore
  <1>4. WindowInv(s)'
    <2>1. BasesStand(s)'
      BY <1>1, <1>2, <1>3, KeptBase, ReviewedWrite DEF BasesStand
    <2>2. CallIsPending(s)' /\ ReviewStands(s)'
      BY <1>3, ReviewedWrite DEF CallIsPending, ReviewStands, StoredKeys
    <2> QED BY <2>1, <2>2 DEF WindowInv
  <1> QED BY <1>1, <1>2, <1>3, <1>4, ReviewedWrite, WindowStep

\* A failed read changes neither the writes nor the bases.
LEMMA LoadPageFailsKeeps ==
  ASSUME IInv, NEW s \in Sessions, LoadPageFails(s)
  PROVE  IInv'
  <1>1. TypeInv'
    BY DEF IInv, TypeInv, LoadPageFails, histVars
  <1>2. OthersStand(s)
    BY DEF IInv, TypeInv, LoadPageFails, histVars, OthersStand
  <1>3. /\ pending' = pending /\ document' = document /\ draft' = draft
        /\ call' = call /\ seen' = seen /\ committed' = committed
    BY DEF LoadPageFails, histVars
  <1>4. WindowInv(s)'
    <2>1. BasesStand(s)'
      BY <1>1, <1>2, <1>3, KeptBase DEF BasesStand
    <2>2. CallIsPending(s)' /\ ReviewStands(s)'
      BY <1>3 DEF IInv, WindowInv, CallIsPending, ReviewStands, StoredKeys
    <2> QED BY <2>1, <2>2 DEF WindowInv
  <1> QED BY <1>1, <1>2, <1>3, <1>4, WindowStep

\* What a window displays is a version of the store, and is displayed.
LEMMA DisplayStands ==
  ASSUME IInv, NEW s \in Sessions, NEW v \in committed,
         Display(s, v.item, v.ver), committed' = committed, nextKey' = nextKey
  PROVE  /\ document' \in [Sessions -> [item : 0..MaxKeys, current : 0..MaxKeys]]
         /\ displayed' \in [Sessions -> SUBSET (Nat \X Nat)]
         /\ Stands(s, document[s].item, document[s].current, nextKey)'
         /\ \A w \in Sessions : displayed[w] \subseteq displayed'[w]
         /\ \A w \in Sessions \ {s} : document'[w] = document[w]
  <1>1. /\ v.item \in 1..MaxKeys /\ v.ver \in 1..MaxKeys /\ v.key \in 1..MaxKeys
        /\ nextKey \in Nat
    BY WindowTypes DEF IInv, TypeInv, Commits, Keys
  <1>2. /\ document'[s] = [item |-> v.item, current |-> v.ver]
        /\ <<v.item, v.ver>> \in displayed'[s]
    BY DEF Display, IInv, TypeInv
  <1>3. v.item < nextKey /\ v.ver < nextKey
    <2>1. /\ v.key < nextKey /\ v.ver <= v.key
          /\ \E u \in committed : u.key = v.item
      BY DEF IInv, StoreNumbers, StoredKeys
    <2> QED BY <1>1, <2>1 DEF IInv, StoreNumbers
  <1>4. Stands(s, document[s].item, document[s].current, nextKey)'
    BY <1>2, <1>3 DEF Stands
  <1>5. document' \in [Sessions -> [item : 0..MaxKeys, current : 0..MaxKeys]]
    BY <1>1 DEF Display, IInv, TypeInv
  <1>6. displayed' \in [Sessions -> SUBSET (Nat \X Nat)]
    BY <1>1 DEF Display, IInv, TypeInv
  <1> QED BY <1>4, <1>5, <1>6 DEF Display, IInv, TypeInv

\* Opening an item reviews the pending write and displays a current version.
LEMMA OpenCaptureKeeps ==
  ASSUME IInv, NEW s \in Sessions, OpenCapture(s)
  PROVE  IInv'
  <1>1. PICK v \in committed : IsCurrent(v.item, v.ver) /\ Display(s, v.item, v.ver)
    BY DEF OpenCapture
  <1>2. committed' = committed /\ nextKey' = nextKey
    BY DEF OpenCapture
  <1>3. TypeInv'
    BY <1>1, <1>2, DisplayStands, WindowTypes, ReviewedWrite
    DEF IInv, TypeInv, OpenCapture, SawStore
  <1>4. OthersStand(s)
    BY <1>1, <1>2, DisplayStands, WindowTypes DEF IInv, TypeInv, OpenCapture, SawStore, OthersStand
  <1>5. /\ pending'[s] = Reviewed(pending[s]) /\ pending[s] \in Writes \cup {NoWrite}
        /\ draft'[s] = draft[s]
        /\ call[s] = "none" /\ call' = call
        /\ seen'[s] = (pending[s].key \in StoredKeys)
    BY WindowTypes DEF IInv, TypeInv, OpenCapture, SawStore
  <1>6. WindowInv(s)'
    <2>1. BasesStand(s)'
      BY <1>1, <1>2, <1>3, <1>4, <1>5, KeptBase, ReviewedWrite, DisplayStands DEF BasesStand
    <2>2. CallIsPending(s)' /\ ReviewStands(s)'
      BY <1>2, <1>5, ReviewedWrite DEF CallIsPending, ReviewStands, StoredKeys
    <2> QED BY <2>1, <2>2 DEF WindowInv
  <1> QED BY <1>3, <1>4, <1>5, <1>6, ReviewedWrite, WindowStep

\* A window whose write is gone and whose draft is new keeps its bases.
LEMMA DroppedWindow ==
  ASSUME IInv, NEW s \in Sessions, TypeInv', OthersStand(s),
         pending'[s] = NoWrite, call'[s] = "none",
         Stands(s, document[s].item, document[s].current, nextKey)',
         Stands(s, draft[s].item, draft[s].expected, nextKey)'
  PROVE  IInv'
  <1>1. WindowInv(s)'
    BY DEF WindowInv, BasesStand, CallIsPending, ReviewStands
  <1> QED BY <1>1, WindowStep

\* The empty draft and the empty page stand on nothing.
LEMMA NothingStands ==
  ASSUME IInv, NEW s, TypeInv'
  PROVE  Stands(s, 0, 0, nextKey)'
  BY WindowTypes, InboxAssumption DEF Stands, TypeInv

\* Giving up a write leaves the draft and the page alone.
LEMMA AbandonPendingKeeps ==
  ASSUME IInv, NEW s \in Sessions, AbandonPending(s)
  PROVE  IInv'
  <1>1. TypeInv'
    BY DEF IInv, TypeInv, AbandonPending, Drop
  <1>2. OthersStand(s)
    BY WindowTypes DEF IInv, TypeInv, AbandonPending, Drop, OthersStand
  <1>3. /\ pending'[s] = NoWrite /\ call'[s] = "none"
        /\ document'[s] = document[s] /\ draft'[s] = draft[s]
    BY DEF AbandonPending, Drop, IInv, TypeInv
  <1> QED BY <1>1, <1>2, <1>3, KeptBase, DroppedWindow

\* A new draft stands on nothing.
LEMMA StartNewKeeps ==
  ASSUME IInv, NEW s \in Sessions, StartNew(s)
  PROVE  IInv'
  <1>1. TypeInv'
    BY InboxAssumption DEF IInv, TypeInv, StartNew, Drop, NewDraft
  <1>2. OthersStand(s)
    BY WindowTypes DEF IInv, TypeInv, StartNew, Drop, OthersStand
  <1>3. /\ pending'[s] = NoWrite /\ call'[s] = "none"
        /\ document'[s] = document[s] /\ draft'[s] = [item |-> 0, expected |-> 0]
    BY DEF StartNew, Drop, IInv, TypeInv, NewDraft
  <1>4. Stands(s, draft[s].item, draft[s].expected, nextKey)'
    BY <1>1, <1>3, NothingStands
  <1> QED BY <1>1, <1>2, <1>3, <1>4, KeptBase, DroppedWindow

\* An append stands on what the page stands on.
LEMMA StartAppendKeeps ==
  ASSUME IInv, NEW s \in Sessions, StartAppend(s)
  PROVE  IInv'
  <1>1. /\ document[s] \in [item : 0..MaxKeys, current : 0..MaxKeys]
        /\ document' = document /\ nextKey' = nextKey
        /\ draft' = [draft EXCEPT ![s] = [item |-> document[s].item,
                                          expected |-> document[s].current]]
    BY WindowTypes DEF StartAppend, IInv
  <1>2. TypeInv'
    BY <1>1 DEF IInv, TypeInv, StartAppend, Drop
  <1>3. OthersStand(s)
    BY WindowTypes DEF IInv, TypeInv, StartAppend, Drop, OthersStand
  <1>4. pending'[s] = NoWrite /\ call'[s] = "none"
    BY DEF StartAppend, Drop, IInv, TypeInv
  <1>5. /\ draft'[s].item = document'[s].item
        /\ draft'[s].expected = document'[s].current
    BY <1>1 DEF IInv, TypeInv
  <1>6. Stands(s, document[s].item, document[s].current, nextKey)'
    BY <1>1, <1>2, <1>3, KeptBase
  <1>7. Stands(s, draft[s].item, draft[s].expected, nextKey)'
    BY <1>5, <1>6 DEF Stands
  <1> QED BY <1>2, <1>3, <1>4, <1>6, <1>7, DroppedWindow

\* Sending the pending write again changes nothing of it.
LEMMA ResendKeeps ==
  ASSUME IInv, NEW s \in Sessions, pending[s] # NoWrite, Resend(s)
  PROVE  IInv'
  <1>1. TypeInv'
    BY DEF IInv, TypeInv, Resend, histVars
  <1>2. OthersStand(s)
    BY WindowTypes DEF IInv, TypeInv, Resend, histVars, OthersStand
  <1>3. pending' = pending /\ document' = document /\ draft' = draft
    BY DEF Resend, histVars
  <1>4. call'[s] = "sent"
    BY DEF Resend, IInv, TypeInv
  <1>5. WindowInv(s)'
    BY <1>1, <1>2, <1>3, <1>4, KeptBase
    DEF WindowInv, BasesStand, CallIsPending, ReviewStands
  <1> QED BY <1>1, <1>2, <1>3, <1>5, WindowStep

\* A fresh request takes over the base of the draft.
LEMMA SendFreshKeeps ==
  ASSUME IInv, NEW s \in Sessions, NEW t \in Texts, SendFresh(s, t)
  PROVE  IInv'
  <1> DEFINE w == [key |-> nextKey, text |-> t, item |-> draft[s].item,
                   expected |-> draft[s].expected, state |-> "none",
                   reviewed |-> FALSE]
  <1>1. /\ draft[s] \in [item : 0..MaxKeys, expected : 0..MaxKeys]
        /\ nextKey \in Keys /\ MaxKeys \in Nat /\ nextKey' = nextKey + 1
    BY WindowTypes DEF IInv, SendFresh, Keys
  <1>2. w \in Writes
    BY <1>1 DEF Writes
  <1>3. pending' = [pending EXCEPT ![s] = w] /\ pending'[s] = w
    BY DEF SendFresh, IInv, TypeInv
  <1>4. TypeInv'
    BY <1>1, <1>2, <1>3 DEF IInv, TypeInv, SendFresh, Keys
  <1>5. OthersStand(s)
    BY <1>1, <1>3 DEF IInv, TypeInv, SendFresh, OthersStand, Keys
  <1>6. /\ document'[s] = document[s] /\ draft'[s] = draft[s]
        /\ committed' = committed /\ displayed' = displayed
        /\ call'[s] = "sent"
    BY DEF SendFresh, IInv, TypeInv
  <1>7. Stands(s, pending[s].item, pending[s].expected, pending[s].key)'
    <2>1. Stands(s, draft[s].item, draft[s].expected, nextKey)
      BY DEF IInv, WindowInv, BasesStand
    <2>2. /\ pending'[s].item = draft[s].item /\ pending'[s].key = nextKey
          /\ pending'[s].expected = draft[s].expected
      BY <1>3
    <2> QED BY <1>6, <2>1, <2>2 DEF Stands, IsCurrent
  <1>8. WindowInv(s)'
    <2>1. BasesStand(s)'
      BY <1>1, <1>3, <1>4, <1>5, <1>6, <1>7, KeptBase DEF BasesStand, Keys
    <2>2. CallIsPending(s)' /\ ReviewStands(s)'
      BY <1>2, <1>3, <1>6, WritesAreWrites DEF CallIsPending, ReviewStands
    <2> QED BY <2>1, <2>2 DEF WindowInv
  <1> QED BY <1>3, <1>4, <1>5, <1>8, WindowStep

\* Saving sends the pending write again or a fresh one.
LEMMA SaveKeeps ==
  ASSUME IInv, NEW s \in Sessions, NEW t \in Texts, Save(s, t)
  PROVE  IInv'
  <1>1. CASE SameRequest(s, t)
    BY <1>1, ResendKeeps DEF Save, SameRequest
  <1>2. CASE ~SameRequest(s, t)
    BY <1>2, SendFreshKeeps DEF Save
  <1> QED BY <1>1, <1>2

\* An answer that says "not-committed" changes the state of the write only.
LEMMA ReturnsNotCommittedKeeps ==
  ASSUME IInv, NEW s \in Sessions, ReturnsNotCommitted(s)
  PROVE  IInv'
  <1>1. /\ pending[s] \in Writes /\ pending[s] # NoWrite
        /\ pending' = [pending EXCEPT ![s] = [pending[s] EXCEPT !.state = "not-committed"]]
    BY WindowTypes DEF ReturnsNotCommitted, IInv, WindowInv, CallIsPending
  <1>2. /\ pending'[s] = [pending[s] EXCEPT !.state = "not-committed"]
        /\ [pending[s] EXCEPT !.state = "not-committed"] \in Writes
    BY <1>1 DEF IInv, TypeInv, Writes
  <1>3. TypeInv'
    BY <1>1, <1>2 DEF IInv, TypeInv, ReturnsNotCommitted, histVars
  <1>4. OthersStand(s)
    BY <1>1, WindowTypes DEF IInv, TypeInv, ReturnsNotCommitted, histVars, OthersStand
  <1>5. /\ document'[s] = document[s] /\ draft'[s] = draft[s]
        /\ call'[s] = "none"
    BY DEF ReturnsNotCommitted, IInv, TypeInv
  <1>6. /\ pending'[s].key = pending[s].key /\ pending'[s].item = pending[s].item
        /\ pending'[s].expected = pending[s].expected
        /\ pending'[s].state = "not-committed"
    BY <1>1, <1>2 DEF Writes
  <1>7. WindowInv(s)'
    BY <1>1, <1>3, <1>4, <1>5, <1>6, KeptBase
    DEF WindowInv, BasesStand, CallIsPending, ReviewStands
  <1> QED BY <1>1, <1>3, <1>4, <1>6, <1>7, WindowStep

\* An unknown answer takes back the review.
LEMMA ReturnsUnknownKeeps ==
  ASSUME IInv, NEW s \in Sessions, ReturnsUnknown(s)
  PROVE  IInv'
  <1> DEFINE u == [pending[s] EXCEPT !.state = "unknown", !.reviewed = FALSE]
  <1>1. /\ pending[s] \in Writes /\ pending[s] # NoWrite
        /\ pending' = [pending EXCEPT ![s] = u]
    BY WindowTypes DEF ReturnsUnknown, IInv, TypeInv, WindowInv, CallIsPending
  <1>2. pending'[s] = u /\ u \in Writes
    BY <1>1 DEF IInv, TypeInv, Writes
  <1>3. TypeInv'
    BY <1>1, <1>2 DEF IInv, TypeInv, ReturnsUnknown
  <1>4. OthersStand(s)
    BY <1>1, WindowTypes DEF IInv, TypeInv, ReturnsUnknown, OthersStand
  <1>5. /\ document'[s] = document[s] /\ draft'[s] = draft[s]
        /\ call'[s] = "none"
    BY DEF ReturnsUnknown, IInv, TypeInv
  <1>6. /\ pending'[s].key = pending[s].key /\ pending'[s].item = pending[s].item
        /\ pending'[s].expected = pending[s].expected
        /\ pending'[s].reviewed = FALSE
    BY <1>1, <1>2 DEF Writes
  <1>7. WindowInv(s)'
    BY <1>1, <1>3, <1>4, <1>5, <1>6, KeptBase
    DEF WindowInv, BasesStand, CallIsPending, ReviewStands
  <1> QED BY <1>1, <1>3, <1>4, <1>6, <1>7, WindowStep

\* A receipt ends the write; the page is reloaded from the store, or not.
LEMMA ReturnsReceiptKeeps ==
  ASSUME IInv, NEW s \in Sessions, ReturnsReceipt(s)
  PROVE  IInv'
  <1>1. committed' = committed /\ nextKey' = nextKey
    BY DEF ReturnsReceipt
  <1>2. /\ document' \in [Sessions -> [item : 0..MaxKeys, current : 0..MaxKeys]]
        /\ displayed' \in [Sessions -> SUBSET (Nat \X Nat)]
        /\ \A w \in Sessions : displayed[w] \subseteq displayed'[w]
        /\ \A w \in Sessions \ {s} : document'[w] = document[w]
        /\ document'[s] = document[s]
           \/ Stands(s, document[s].item, document[s].current, nextKey)'
    <2>1. CASE UNCHANGED <<document, displayed>>
      BY <2>1 DEF IInv, TypeInv
    <2>2. CASE \E v \in committed : Display(s, v.item, v.ver)
      <3>1. PICK v \in committed : Display(s, v.item, v.ver)
        BY <2>2
      <3> QED BY <1>1, <3>1, DisplayStands
    <2> QED BY <2>1, <2>2 DEF ReturnsReceipt
  <1>3. TypeInv'
    <2>1. ready' \in [Sessions -> BOOLEAN]
      BY DEF IInv, TypeInv, ReturnsReceipt
    <2>2. /\ pending' = [pending EXCEPT ![s] = NoWrite]
          /\ seen' = [seen EXCEPT ![s] = FALSE]
          /\ doubt' = [doubt EXCEPT ![s] = FALSE]
          /\ call' = [call EXCEPT ![s] = "none"]
          /\ draft' = [draft EXCEPT ![s] = [item |-> 0, expected |-> 0]]
      BY DEF ReturnsReceipt, Drop, NewDraft
    <2> QED BY <1>1, <1>2, <2>1, <2>2, InboxAssumption DEF IInv, TypeInv
  <1>4. OthersStand(s)
    BY <1>1, <1>2, WindowTypes DEF IInv, TypeInv, ReturnsReceipt, Drop, OthersStand
  <1>5. /\ pending'[s] = NoWrite /\ call'[s] = "none"
        /\ draft'[s] = [item |-> 0, expected |-> 0]
    BY DEF ReturnsReceipt, Drop, IInv, TypeInv, NewDraft
  <1>6. Stands(s, draft[s].item, draft[s].expected, nextKey)'
    BY <1>3, <1>5, NothingStands
  <1>7. Stands(s, document[s].item, document[s].current, nextKey)'
    BY <1>2, <1>3, <1>4, KeptBase
  <1> QED BY <1>3, <1>4, <1>5, <1>6, <1>7, DroppedWindow

\* A window that is opened again remembers nothing.
LEMMA CloseKeeps ==
  ASSUME IInv, NEW s \in Sessions, Close(s)
  PROVE  IInv'
  <1>1. TypeInv'
    BY InboxAssumption DEF IInv, TypeInv, Close, Drop, NewDraft, NoDoc
  <1>2. OthersStand(s)
    BY WindowTypes DEF IInv, TypeInv, Close, Drop, OthersStand
  <1>3. /\ pending'[s] = NoWrite /\ call'[s] = "none"
        /\ document'[s] = [item |-> 0, current |-> 0]
        /\ draft'[s] = [item |-> 0, expected |-> 0]
    BY DEF Close, Drop, IInv, TypeInv, NewDraft, NoDoc
  <1>4. /\ Stands(s, document[s].item, document[s].current, nextKey)'
        /\ Stands(s, draft[s].item, draft[s].expected, nextKey)'
    BY <1>1, <1>3, NothingStands
  <1> QED BY <1>1, <1>2, <1>3, <1>4, DroppedWindow

\* The commit of a pending write: its version is read, its base is stale from
\* then on for every window, and no other window waits for its key.
LEMMA StoreCommitsKeeps ==
  ASSUME IInv, NEW s \in Sessions, StoreCommits(s)
  PROVE  IInv'
  <1> DEFINE p == pending[s]
             i == IF p.item = 0 THEN p.key ELSE p.item
             v0 == [item |-> i, ver |-> p.expected + 1, key |-> p.key,
                    read |-> p.item = 0 \/ <<i, p.expected>> \in displayed[s]]
  <1>1. /\ p \in Writes /\ p # NoWrite
        /\ p.item \in Nat /\ p.expected \in Nat /\ p.key \in Keys
        /\ p.item < p.key /\ p.expected < p.key /\ p.key < nextKey
        /\ MaxKeys \in Nat /\ nextKey \in Nat
    <2>1. p \in Writes /\ p # NoWrite /\ MaxKeys \in Nat /\ nextKey \in Nat
      BY WindowTypes DEF StoreCommits, IInv, WindowInv, CallIsPending
    <2>2. /\ Stands(s, p.item, p.expected, p.key)
          /\ p.key < nextKey
      BY <2>1 DEF IInv, WindowInv, BasesStand
    <2> HIDE DEF p
    <2> QED BY <2>1, <2>2 DEF Stands, Writes
  <1>2. /\ committed' = committed \cup {v0}
        /\ displayed' = [w \in Sessions |-> displayed[w] \ {<<i, p.expected>>}]
        /\ call' = [call EXCEPT ![s] = "stored"]
        /\ pending' = pending /\ document' = document /\ draft' = draft
        /\ ready' = ready /\ nextKey' = nextKey /\ seen' = seen /\ doubt' = doubt
    BY DEF StoreCommits
  <1>3. /\ p.key \notin StoredKeys
        /\ p.item # 0 => IsCurrent(p.item, p.expected)
    BY DEF StoreCommits
  <1>4. i \in Keys /\ p.expected + 1 \in Keys
    BY <1>1 DEF Keys
  <1>5. TypeInv'
    <2>1. v0 \in Commits
      BY <1>1, <1>4 DEF Commits
    <2>2. committed' \in SUBSET Commits
      BY <1>2, <2>1 DEF IInv, TypeInv
    <2>3. displayed' \in [Sessions -> SUBSET (Nat \X Nat)]
      BY <1>2 DEF IInv, TypeInv
    <2> QED BY <1>2, <2>2, <2>3 DEF IInv, TypeInv
  <1>6. StoredKeys' = StoredKeys \cup {p.key}
    <2>1. v0.key = p.key
      OBVIOUS
    <2> HIDE DEF v0, p
    <2> QED BY <1>2, <2>1 DEF StoredKeys
  <1>7. StoreNumbers'
    <2>1. i \in StoredKeys'
      BY <1>3, <1>6 DEF IsCurrent, IInv, StoreNumbers
    <2>2. v0.key < nextKey /\ v0.ver <= v0.key /\ v0.item \in StoredKeys'
      BY <1>1, <2>1 DEF Keys
    <2> HIDE DEF v0
    <2> QED BY <1>2, <1>6, <2>2 DEF IInv, StoreNumbers
  <1>8. KeysAreApart'
    BY <1>2 DEF IInv, KeysAreApart
  <1>9. AppendsFollowReading'
    <2>1. p.item # 0 => <<p.item, p.expected>> \in displayed[s]
      BY <1>1, <1>3 DEF IInv, WindowInv, BasesStand, Stands
    <2>2. v0.read
      BY <2>1
    <2> HIDE DEF v0
    <2> QED BY <1>2, <2>2 DEF IInv, AppendsFollowReading
  <1>10. ASSUME NEW w \in Sessions, NEW j \in Nat, NEW n \in Nat, NEW k,
                Stands(w, j, n, k)
         PROVE  j < k /\ n < k /\ (j # 0 =>
                   /\ \E v \in committed' : v.item = j /\ v.ver = n
                   /\ IsCurrent(j, n)' => <<j, n>> \in displayed'[w])
    <2>1. \E v \in committed' : v.item = i /\ ~(v.ver <= p.expected)
      <3>1. v0 \in committed' /\ v0.item = i /\ ~(v0.ver <= p.expected)
        BY <1>1, <1>2
      <3> HIDE DEF v0, i, p
      <3> QED BY <3>1
    <2>2. ASSUME j # 0
          PROVE  /\ \E v \in committed' : v.item = j /\ v.ver = n
                 /\ IsCurrent(j, n)' => IsCurrent(j, n) /\ <<j, n>> \in displayed[w]
      <3>1. PICK v \in committed : v.item = j /\ v.ver = n
        BY <1>10, <2>2 DEF Stands
      <3>2. v \in committed'
        BY <1>2
      <3>3. IsCurrent(j, n)' => IsCurrent(j, n)
        BY <1>2, <3>1 DEF IsCurrent
      <3> QED BY <1>10, <2>2, <3>1, <3>2, <3>3 DEF Stands
    <2>3. IsCurrent(j, n)' => <<j, n>> # <<i, p.expected>>
      <3> HIDE DEF i, p
      <3> QED BY <2>1 DEF IsCurrent
    <2> HIDE DEF i, p
    <2> QED BY <1>2, <1>10, <2>2, <2>3 DEF Stands
  <1>11. ASSUME NEW w \in Sessions
         PROVE  WindowInv(w)'
    <2>1. /\ BasesStand(w) /\ CallIsPending(w) /\ ReviewStands(w)
          /\ pending[w] \in Writes \cup {NoWrite}
          /\ document[w].item \in Nat /\ document[w].current \in Nat
          /\ draft[w].item \in Nat /\ draft[w].expected \in Nat
      BY WindowTypes DEF IInv, WindowInv
    <2>2. /\ Stands(w, document[w].item, document[w].current, nextKey)'
          /\ Stands(w, draft[w].item, draft[w].expected, nextKey)'
      <3>1. /\ Stands(w, document[w].item, document[w].current, nextKey)
            /\ Stands(w, draft[w].item, draft[w].expected, nextKey)
        BY <2>1 DEF BasesStand
      <3>2. document' = document /\ draft' = draft /\ nextKey' = nextKey
        BY <1>2
      <3>3. Stands(w, document[w].item, document[w].current, nextKey)'
        BY <1>10, <2>1, <3>1, <3>2 DEF Stands
      <3>4. Stands(w, draft[w].item, draft[w].expected, nextKey)'
        BY <1>10, <2>1, <3>1, <3>2 DEF Stands
      <3> QED BY <3>3, <3>4
    <2>3. ASSUME pending'[w] # NoWrite
          PROVE  /\ Stands(w, pending[w].item, pending[w].expected, pending[w].key)'
                 /\ pending'[w].key < nextKey'
      <3>1. pending[w].item \in Nat /\ pending[w].expected \in Nat
        BY <1>2, <2>1, <2>3 DEF Writes
      <3>2. /\ Stands(w, pending[w].item, pending[w].expected, pending[w].key)
            /\ pending[w].key < nextKey
            /\ pending' = pending /\ nextKey' = nextKey
        BY <1>2, <2>1, <2>3 DEF BasesStand
      <3> QED BY <1>10, <3>1, <3>2 DEF Stands
    <2>4. CallIsPending(w)'
      BY <1>1, <1>2, <2>1 DEF CallIsPending, IInv, TypeInv
    <2>5. ReviewStands(w)'
      <3>1. CASE w = s
        BY <1>2, <3>1 DEF ReviewStands, IInv, TypeInv
      <3>2. CASE w # s
        <4>1. call'[w] = call[w]
          BY <1>2, <3>2 DEF IInv, TypeInv
        <4>2. pending[w] # NoWrite => pending[w].key # p.key
          BY <1>1, <3>2 DEF IInv, KeysAreApart
        <4> HIDE DEF p
        <4> QED BY <1>2, <1>6, <2>1, <4>1, <4>2 DEF ReviewStands
      <3> QED BY <3>1, <3>2
    <2> QED BY <2>2, <2>3, <2>4, <2>5 DEF WindowInv, BasesStand
  <1> QED BY <1>5, <1>7, <1>8, <1>9, <1>11 DEF IInv

-----------------------------------------------------------------------------
(* The theorems                                                            *)

\* Nothing is stored, displayed or sent when the first window opens.
LEMMA InvInit == Init => IInv
  <1> SUFFICES ASSUME Init
               PROVE  IInv
    OBVIOUS
  <1>1. TypeInv
    BY InboxAssumption DEF Init, TypeInv, NewDraft, NoDoc
  <1>2. StoreNumbers /\ KeysAreApart /\ AppendsFollowReading
    BY DEF Init, StoreNumbers, KeysAreApart, AppendsFollowReading
  <1>3. ASSUME NEW s \in Sessions
        PROVE  WindowInv(s)
    <2>1. /\ pending[s] = NoWrite /\ call[s] = "none" /\ nextKey = 1
          /\ document[s].item = 0 /\ document[s].current = 0
          /\ draft[s].item = 0 /\ draft[s].expected = 0
      BY DEF Init, NewDraft, NoDoc
    <2> QED BY <2>1 DEF WindowInv, BasesStand, Stands, CallIsPending, ReviewStands
  <1> QED BY <1>1, <1>2, <1>3 DEF IInv

\* Every step of a window and of its call keeps the invariant.
LEMMA InvNext == IInv /\ [Next]_vars => IInv'
  <1> SUFFICES ASSUME IInv, [Next]_vars
               PROVE  IInv'
    OBVIOUS
  <1>1. CASE UNCHANGED vars
    <2>1. /\ committed' = committed /\ pending' = pending /\ document' = document
          /\ draft' = draft /\ ready' = ready /\ call' = call
          /\ nextKey' = nextKey /\ seen' = seen /\ displayed' = displayed
          /\ doubt' = doubt
      BY <1>1 DEF vars, windowVars, histVars
    <2>2. TypeInv' /\ StoreNumbers' /\ KeysAreApart' /\ AppendsFollowReading'
      BY <2>1 DEF IInv, TypeInv, StoreNumbers, KeysAreApart, AppendsFollowReading, StoredKeys
    <2>3. ASSUME NEW s \in Sessions
          PROVE  WindowInv(s)'
      <3>1. WindowInv(s)
        BY DEF IInv
      <3>2. BasesStand(s)'
        BY <2>1, <3>1 DEF WindowInv, BasesStand, Stands, IsCurrent
      <3>3. CallIsPending(s)' /\ ReviewStands(s)'
        BY <2>1, <3>1 DEF WindowInv, CallIsPending, ReviewStands, StoredKeys
      <3> QED
        BY <3>2, <3>3 DEF WindowInv
    <2> QED
      BY <2>2, <2>3 DEF IInv
  <1>2. ASSUME NEW s \in Sessions, Callback(s)
        PROVE  IInv'
    <2>1. CASE RetryPending(s)
      BY <2>1, ResendKeeps DEF RetryPending
    <2> QED
      BY <1>2, <2>1, LoadPageKeeps, LoadPageFailsKeeps, OpenCaptureKeeps,
         AbandonPendingKeeps, StartNewKeeps, StartAppendKeeps, SaveKeeps
      DEF Callback
  <1>3. ASSUME NEW s \in Sessions, CallStep(s)
        PROVE  IInv'
    BY <1>3, StoreCommitsKeeps, ReturnsReceiptKeeps, ReturnsNotCommittedKeeps,
       ReturnsUnknownKeeps
    DEF CallStep
  <1> QED BY <1>1, <1>2, <1>3, CloseKeeps DEF Next

\* The invariant holds in every reachable state.
THEOREM Invariance == Spec => []IInv
  <1> QED BY InvInit, InvNext, PTL DEF Spec

\* While a write is unknown and reviewed, the store holds its key exactly if
\* it did when the user looked, whatever the other windows commit.
THEOREM ReviewsAreCurrent == Spec => []ReviewIsCurrent
  <1>1. IInv => ReviewIsCurrent
    BY DEF IInv, WindowInv, ReviewStands, ReviewIsCurrent
  <1> QED BY Invariance, <1>1, PTL

\* Every committed append stands on a version its own window had on display.
THEOREM ReadingPrecedesAppending == Spec => []AppendsFollowReading
  <1>1. IInv => AppendsFollowReading
    BY DEF IInv
  <1> QED BY Invariance, <1>1, PTL

\* No callback of a living window drops a write whose last answer is unknown
\* before a review, and no answer does without a receipt.
THEOREM UnknownWritesAreKept == Spec => UnknownIsNotDropped
  <1> DEFINE Kept(s) ==
        ( /\ pending[s] # NoWrite
          /\ pending[s].state = "unknown"
          /\ pending'[s].key # pending[s].key
          /\ ~Close(s) )
        => \/ pending[s].reviewed
           \/ call[s] # "none" /\ pending[s].key \in StoredKeys
  <1>1. IInv /\ [Next]_vars => [\A s \in Sessions : Kept(s)]_vars
    <2> SUFFICES ASSUME IInv, Next, NEW s \in Sessions,
                        pending[s] # NoWrite, pending[s].state = "unknown",
                        pending'[s].key # pending[s].key, ~Close(s)
                 PROVE  \/ pending[s].reviewed
                        \/ call[s] # "none" /\ pending[s].key \in StoredKeys
      OBVIOUS
    <2>1. /\ pending \in [Sessions -> Writes \cup {NoWrite}]
          /\ pending[s] \in Writes
      BY DEF IInv, TypeInv
    <2>2. PICK w \in Sessions : Callback(w) \/ CallStep(w) \/ Close(w)
      BY DEF Next
    <2>3. CASE Callback(w)
      <3>1. CASE LoadPage(w) \/ OpenCapture(w)
        <4>1. pending'[s].key = pending[s].key
          BY <2>1, <3>1, ReviewedWrite DEF LoadPage, OpenCapture
        <4> QED BY <4>1
      <3>2. CASE LoadPageFails(w) \/ RetryPending(w)
        BY <3>2 DEF LoadPageFails, RetryPending, Resend
      <3>3. CASE AbandonPending(w) \/ StartNew(w) \/ StartAppend(w)
        BY <2>1, <3>3 DEF AbandonPending, StartNew, StartAppend, Drop, MayAbandon
      <3>4. CASE \E t \in Texts : Save(w, t)
        <4>1. PICK t \in Texts : Save(w, t)
          BY <3>4
        <4> QED BY <2>1, <4>1 DEF Save, Resend, SendFresh
      <3> QED BY <2>3, <3>1, <3>2, <3>3, <3>4 DEF Callback
    <2>4. CASE CallStep(w)
      <3>1. CASE StoreCommits(w)
        BY <3>1 DEF StoreCommits
      <3>2. CASE ReturnsReceipt(w)
        BY <2>1, <3>2 DEF ReturnsReceipt, Drop
      <3>3. CASE ReturnsNotCommitted(w)
        <4>1. pending'[s].key = pending[s].key
          BY <2>1, <3>3 DEF ReturnsNotCommitted, Writes
        <4> QED BY <4>1
      <3>4. CASE ReturnsUnknown(w)
        <4>1. pending'[s].key = pending[s].key
          BY <2>1, <3>4 DEF ReturnsUnknown, Writes
        <4> QED BY <4>1
      <3> QED BY <2>4, <3>1, <3>2, <3>3, <3>4 DEF CallStep
    <2>5. CASE Close(w)
      BY <2>1, <2>5 DEF Close, Drop
    <2> QED BY <2>2, <2>3, <2>4, <2>5
  <1> QED BY Invariance, <1>1, PTL DEF Spec, UnknownIsNotDropped
=============================================================================
