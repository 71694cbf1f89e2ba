-------------------------- MODULE MCStoreLifecycle --------------------------
(* Instances of StoreLifecycle for TLC.                                    *)
EXTENDS StoreLifecycle, TLC

CONSTANTS A, B, K, c1, c2

MCItems == {1, 2}

Ask(op, cfg) == [op |-> op, cfg |-> cfg]

InitAt(cfg, r)    == [op |-> "init", cfg |-> cfg, root |-> r]
CaptureOf(cfg, i) == [op |-> "capture", cfg |-> cfg, item |-> i]
BackupTo(cfg, b)  == [op |-> "backup", cfg |-> cfg, bundle |-> b]
RestoreOf(b, r)   == [op |-> "restore", bundle |-> b, to |-> r]

\* Two configurations want one root; a bundle, and what is restored from it,
\* are connected as stores.
Lives == <<{InitAt(c2, A), InitAt(c2, K), InitAt(c2, B), CaptureOf(c1, 1),
            CaptureOf(c2, 2), Ask("rebuild", c1), Ask("verify", c2),
            BackupTo(c1, K), RestoreOf(K, B)},
           {InitAt(c1, A)}>>

\* Processes do the same things.
Symmetric == Permutations(Procs)
=============================================================================
