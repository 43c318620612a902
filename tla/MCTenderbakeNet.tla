--------------------------- MODULE MCTenderbakeNet ---------------------------
(* Four bakers with one slot each, one of them faulty.                      *)
EXTENDS TenderbakeNet, TLC

CONSTANTS b1, b2, b3, f, p1, p2

MCBakers == {b1, b2, b3, f}
MCFaulty == {f}
MCSlots == 1 .. 4
MCOwner == <<b1, b2, b3, f>>
MCPayloads == {p1, p2}
Symmetry == Permutations({b1, b2, b3})

\* A payload, at round 1 its reproposal and a rival, and the reproposal of the
\* rival that unlocks for it.
MCOffers == {<<0, p1, {}>>, <<1, p1, {0}>>, <<1, p2, {}>>, <<2, p2, {1}>>}

================================================================================
