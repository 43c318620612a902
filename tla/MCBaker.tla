-------------------------------- MODULE MCBaker --------------------------------
(* Small instances of Baker: two levels, three rounds, two branches.        *)
EXTENDS Baker

Block(level, round, payload, pred, prequorum) ==
  [level |-> level, round |-> round, payload |-> payload, pred |-> pred,
   prequorum |-> prequorum, first |-> FALSE]

\* The block that activates the protocol, and a rival of it one round later.
Root == [level |-> 0, round |-> 0, payload |-> "r", start |-> 0]
G0 == [Block(1, 0, "g", Root, {}) EXCEPT !.first = TRUE]
G1 == Block(1, 1, "h", Root, {})

\* Level 2 on the first branch: two payloads and their reproposals.
A0 == Block(2, 0, "a", BlockInfo(G0), {})
A1 == Block(2, 1, "a", BlockInfo(G0), {0})
B1 == Block(2, 1, "b", BlockInfo(G0), {})
A3 == Block(2, 3, "a", BlockInfo(G0), {0})

\* Level 2 on the other branch, with a prequorum of its own.
C1 == Block(2, 1, "c", BlockInfo(G1), {0})
C2 == Block(2, 2, "c", BlockInfo(G1), {1})

\* Level 3.
D0 == Block(3, 0, "d", BlockInfo(A0), {})

MCGenesis == G0

\* One branch, three levels: the delegate proposes at round 1.
MCProposals == {G0, A0, D0}
MCOwnRounds == {<<2, 1>>}

\* Two branches, and the block of the delegate at the next level.
MCBranches == {G0, A0, A3, C1, C2, D0}
MCOwnNext == {<<3, 0>>}

\* Two rival payloads of one level, in two rounds.
MCRivals == {G0, A0, B1}

\* One payload and its reproposal.
MCReproposal == {G0, A0, A1}

\* The delegate proposes at a later round of the next level only.
MCOwnLater == {<<3, 1>>}

================================================================================
