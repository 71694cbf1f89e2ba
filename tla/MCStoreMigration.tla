-------------------------- MODULE MCStoreMigration --------------------------
(* Instances of StoreMigration for TLC.                                    *)
EXTENDS StoreMigration

CONSTANTS A, B

MCRoots == {A, B}

\* There and back.
BothWays == {<<A, B>>, <<B, A>>}

\* Two rivals for version 2, and one that follows.
Chain == {[key |-> 2, expected |-> 1], [key |-> 3, expected |-> 1],
          [key |-> 4, expected |-> 2]}
=============================================================================
