--------------------------- MODULE MCInboxSession ---------------------------
(* Instances of InboxSession for TLC: sessions and texts are model values. *)
EXTENDS InboxSession, TLC

CONSTANTS s1, s2, t1, t2

MCSessions == {s1, s2}
MCOneSession == {s1}
MCTexts == {t1, t2}

\* Windows are interchangeable, texts are interchangeable.
MCSymmetry == Permutations(MCSessions) \cup Permutations(MCTexts)
=============================================================================
