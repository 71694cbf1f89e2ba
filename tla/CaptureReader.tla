---------------------------- MODULE CaptureReader ----------------------------
(***************************************************************************)
(* get_capture and list_captures beside the writers of CaptureStore.       *)
(* Readers take no lock: for each item they list the version directories,  *)
(* then the events, build the chain from the two listings, and look at     *)
(* capture.yaml last, while calls commit, crash and fail around them.      *)
(***************************************************************************)
EXTENDS CaptureStore

CONSTANTS Readers

VARIABLE rd   \* what each reader is doing and has in hand

Items == Attempts

\* want: the version asked for, 0 for the current one; floor: newest committed
\* version of each item when the read began (history, for the properties).
Idler == [step |-> "idle", todo |-> {}, want |-> 0, dirs |-> {},
          events |-> {}, got |-> {}, code |-> "none",
          floor |-> [i \in Items |-> 0]]

NewestNow == [i \in Items |->
    LET vs == {d.ver : d \in {c \in Committed : c.item = i}}
    IN  IF vs = {} THEN 0 ELSE CHOOSE n \in vs : \A m \in vs : m <= n]

Located == {d.item : d \in dirs}

\* Items are read one by one in the order of their directories.
IsNextItem(r, i) == i \in rd[r].todo /\ \A j \in rd[r].todo : i <= j

-----------------------------------------------------------------------------
(* The chain built from the two listings                                   *)

ListedVersions(r) == {d.ver : d \in rd[r].dirs}
EventVersions(r)  == {v.ver : v \in rd[r].events}
HighestEvent(r)   == CHOOSE n \in EventVersions(r) :
                        \A m \in EventVersions(r) : m <= n

\* Events are a continuous prefix, each with a listed directory; at most one
\* listed directory has no event, and it is the next one.
IsChain(r) ==
    /\ EventVersions(r) = 1..HighestEvent(r)
    /\ EventVersions(r) \subseteq ListedVersions(r)
    /\ ListedVersions(r) \ EventVersions(r) \subseteq {HighestEvent(r) + 1}

\* MUTANT: the highest directory name counts as the current version.
ChainVersion_HighestDirectory(r) ==
    CHOOSE n \in ListedVersions(r) : \A m \in ListedVersions(r) : m <= n

\* MUTANT: the projection says which version is current.
ChainVersion_Projection(r) ==
    LET i == CHOOSE j \in rd[r].todo : IsNextItem(r, j)
    IN  IF proj[i] > 0 THEN proj[i] ELSE 1

\* _CaptureVersionChain.current_version
ChainVersion(r) == HighestEvent(r)

ChainWarnings(r, i) ==
    {w \in Warnings :
        \/ /\ w = "incomplete_version_ignored"
           /\ ListedVersions(r) # EventVersions(r)
        \/ /\ w = "projection_needs_rebuild"
           /\ proj[i] # ChainVersion(r)}

-----------------------------------------------------------------------------
(* Steps of a read                                                         *)

Set(r, new) == rd' = [rd EXCEPT ![r] = new]

Done(r, code) == Set(r, [rd[r] EXCEPT !.step = "done", !.code = code])

\* Start on the items in todo, wanting version v; asked are the items a
\* complete answer has to cover.
Begin(r, todo, asked, v, code) ==
    /\ rd[r].step = "idle"
    /\ Set(r, [Idler EXCEPT
                 !.step = IF todo = {} THEN "done" ELSE "versions",
                 !.todo = todo,
                 !.want = v,
                 !.code = IF todo = {} THEN code ELSE "none",
                 !.floor = [i \in Items |-> IF i \in asked THEN NewestNow[i]
                                            ELSE 0]])

BeginGet(r) ==
    \E i \in Items, v \in 0..MaxAttempts :
        Begin(r, Located \cap {i}, {i}, v, "capture_not_found")

\* MUTANT: the list is taken from the projections, not from the items.
BeginList_ByProjection(r) ==
    Begin(r, {i \in Located : proj[i] > 0}, Items, 0, "listed")

\* Every item is located before the first one is read.
BeginList(r) == Begin(r, Located, Items, 0, "listed")

ListVersions(r) ==
    /\ rd[r].step = "versions"
    /\ \E i \in Items :
          /\ IsNextItem(r, i)
          /\ Set(r, [rd[r] EXCEPT !.step = "events",
                                  !.dirs = {d \in dirs : d.item = i}])

ListEvents(r) ==
    /\ rd[r].step = "events"
    /\ \E i \in Items :
          /\ IsNextItem(r, i)
          /\ Set(r, [rd[r] EXCEPT !.step = "chain",
                                  !.events = {v \in events : v.item = i}])

\* One contradiction refuses the whole read, a list of many items included.
ChainRefused(r) ==
    /\ rd[r].step = "chain"
    /\ ~IsChain(r)
    /\ Done(r, "integrity_check_failed")

\* get_capture of a version the chain does not hold.
VersionNotFound(r) ==
    /\ rd[r].step = "chain"
    /\ IsChain(r)
    /\ rd[r].want > ChainVersion(r)
    /\ Done(r, "version_not_found")

\* The payloads are verified and capture.yaml is compared with the chain; a
\* list goes on with the next item.
ReadItem(r) ==
    /\ rd[r].step = "chain"
    /\ IsChain(r)
    /\ rd[r].want <= ChainVersion(r)
    /\ \E i \in Items :
          /\ IsNextItem(r, i)
          /\ LET left == rd[r].todo \ {i}
                 entry == [item |-> i, current |-> ChainVersion(r),
                           ver |-> IF rd[r].want = 0 THEN ChainVersion(r)
                                   ELSE rd[r].want,
                           warn |-> ChainWarnings(r, i)]
             IN Set(r, [rd[r] EXCEPT
                          !.step = IF left = {} THEN "done" ELSE "versions",
                          !.code = IF left = {} THEN "listed" ELSE "none",
                          !.todo = left,
                          !.dirs = {}, !.events = {},
                          !.got = @ \cup {entry}])

\* The result is handed out and forgotten.
Return(r) ==
    /\ rd[r].step = "done"
    /\ Set(r, Idler)

Read(r) ==
    \/ BeginGet(r) \/ BeginList(r)
    \/ ListVersions(r) \/ ListEvents(r)
    \/ ChainRefused(r) \/ VersionNotFound(r) \/ ReadItem(r)
    \/ Return(r)

ReaderInit == Init /\ rd = [r \in Readers |-> Idler]

ReaderNext ==
    \/ Next /\ UNCHANGED rd
    \/ \E r \in Readers : Read(r) /\ UNCHANGED vars

ReaderSpec == ReaderInit /\ [][ReaderNext]_<<vars, rd>>

-----------------------------------------------------------------------------
(* Properties                                                              *)

\* What a read returns is committed: a version in hand has its directory and
\* its event, never a tail, whatever was being appended meanwhile.
ReadsAreCommitted ==
    \A r \in Readers : \A e \in rd[r].got :
        /\ \E d \in Committed : d.item = e.item /\ d.ver = e.current
        /\ \E d \in Committed : d.item = e.item /\ d.ver = e.ver

\* A read is never behind the store as it was when the read began: current is
\* at least what had been committed then, for every item of a list.
ReadsAreFresh ==
    \A r \in Readers : \A e \in rd[r].got : e.current >= rd[r].floor[e.item]

\* A version that had been committed when the read began is never reported
\* missing, and a list leaves out no item that was there.
NothingIsMissed ==
    \A r \in Readers : rd[r].step = "done" =>
        /\ rd[r].code = "version_not_found" =>
              \A i \in rd[r].todo : rd[r].floor[i] < rd[r].want
        /\ rd[r].code \in {"listed", "capture_not_found"} =>
              \A i \in Items : rd[r].floor[i] > 0 =>
                  \E e \in rd[r].got : e.item = i

\* What the operations contract says of integrity_check_failed: it reports a
\* contradiction of immutable facts.  The store never holds one (ReadableChains
\* of CaptureStore), so a reader should never report one.  It does when an
\* append commits between its two listings.
NoFalseAlarm ==
    \A r \in Readers : rd[r].code # "integrity_check_failed"
=============================================================================
