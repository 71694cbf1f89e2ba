--------------------------- MODULE PublicationLog ---------------------------
(***************************************************************************)
(* What publishing into a target knowledge base promises: one log, in      *)
(* which every publication stands once and for ever, and which takes no    *)
(* further publication while one of its own is not closed.  Other commits  *)
(* may be appended by hand at any time.                                    *)
(***************************************************************************)
EXTENDS Sequences

CONSTANTS Publications, User

VARIABLES log,     \* commits of the managed ref, oldest first
          closed   \* publications with receipt and completion mark

Logged == {log[i] : i \in DOMAIN log}

Publish(r) ==
    /\ r \notin Logged
    /\ Logged \subseteq closed \cup {User}
    /\ log' = Append(log, r)
    /\ UNCHANGED closed

Close(r) ==
    /\ r \in Logged
    /\ closed' = closed \cup {r}
    /\ UNCHANGED log

CommitByHand ==
    /\ log' = Append(log, User)
    /\ UNCHANGED closed

LogInit == log = <<>> /\ closed = {}

LogNext ==
    \/ CommitByHand
    \/ \E r \in Publications : Publish(r) \/ Close(r)

LogSpec == LogInit /\ [][LogNext]_<<log, closed>>
=============================================================================
