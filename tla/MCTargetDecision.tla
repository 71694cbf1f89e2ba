-------------------------- MODULE MCTargetDecision --------------------------
(* Instance of TargetDecision for TLC.                                     *)
EXTENDS TargetDecision, TLC

\* One source, asked for with two scopes, of a file that has the expected text
\* or another one.
MCPreparations == {[id |-> "s", expect |-> "t1", scope |-> "all"],
                   [id |-> "s", expect |-> "t1", scope |-> "part"]}

MCTexts == {"t1", "t2"}

NewKB(r, policy, name) == [id |-> r, source |-> "s", choice |-> "new-kb",
                           policy |-> policy, name |-> name]

\* Two requests want the first free name under one policy; the second may also
\* want the first name under another, or a decision for no target.
MCDecisions == {NewKB("r1", 1, Unnamed), NewKB("r2", 1, Unnamed), NewKB("r2", 2, 1),
                [id |-> "r2", source |-> "s", choice |-> "no-target",
                 policy |-> 0, name |-> Unnamed]}

\* Processes do the same things.
Symmetric == Permutations(Procs)

\* A refusal nobody quotes any more is as good as no call: only those about
\* damage are looked at later, the others when they are given.
Settled(p) == call[p].phase = "told" /\ call[p].why \notin {"ok", "blocked"}

View == <<prepareVars, targetVars, spent,
          [p \in Procs |-> IF Settled(p) THEN [phase |-> "idle"] ELSE call[p]]>>
=============================================================================
