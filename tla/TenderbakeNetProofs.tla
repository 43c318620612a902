--------------------------- MODULE TenderbakeNetProofs ---------------------------
(****************************************************************************)
(* The bakers of TenderbakeNet implement Tenderbake, for every committee,   *)
(* every set of rounds and payloads and every choice of blocks on offer.    *)
(****************************************************************************)
EXTENDS TenderbakeNet, FiniteSetTheorems, TLAPS

Blocks == {Block(o[1], o[2], o[3]) : o \in Offers}

VoteFor(p) == [level |-> p.level, round |-> p.round, payload |-> p.payload]

Phases == {"Idle", "Awaiting_preattestations", "Awaiting_attestations", "Awaiting_application"}

AutoStates ==
  [level : {0, 1}, proposal : Blocks \cup {Genesis}, applied : BOOLEAN,
   locked : SUBSET [round : Rounds, payload : Payloads],
   attestable : SUBSET [proposal : Blocks, prequorum : Rounds],
   elected : SUBSET Blocks, proposed : SUBSET Nat, round : Nat, phase : Phases,
   delayed : BOOLEAN, early : SUBSET {VoteFor(p) : p \in Blocks}, awaiting : BOOLEAN]

\* What holds of the automaton of one baker, whatever the others do: outside the
\* Idle phase, and as long as an attestation is held back, the proposal is the
\* one of the current round; the lock is of a past or the current round.
AutomatonOK(s) ==
  /\ s \in AutoStates
  /\ s.level = 0 => s.locked = {} /\ s.elected = {} /\ s.phase = "Idle" /\ s.early = {}
  /\ s.level = 1 => s.proposal \in Blocks /\ s.proposal.round <= s.round
  /\ s.phase # "Idle" \/ s.early # {} => s.level = 1 /\ s.proposal.round = s.round
  /\ s.early \subseteq {VoteFor(s.proposal)}
  /\ \A l \in s.locked : l.round <= s.round

--------------------------------------------------------------------------------
LEMMA BlockFields ==
  ASSUME NEW p \in Blocks
  PROVE  /\ p.level = 1 /\ p.round \in Rounds /\ p.round \in Nat /\ p.payload \in Payloads
         /\ p.prequorum \in SUBSET Rounds /\ p.first = FALSE /\ p.pred = BlockInfo(Genesis)
<1>1. PICK o \in Offers : p = Block(o[1], o[2], o[3])
  BY Zenon DEF Blocks
<1>2. o[1] \in Rounds /\ o[2] \in Payloads /\ o[3] \in SUBSET Rounds /\ o[1] \in Nat
  BY Zenon, TenderbakeAssumption, NetAssumption
<1>3. p.first = FALSE
  BY <1>1, Zenon DEF Block
<1>. QED
  BY Zenon, <1>1, <1>2, <1>3 DEF Block

LEMMA UpdateProposal ==
  ASSUME NEW s, AutomatonOK(s), s.level = 1, NEW p \in Blocks, p.round <= s.round
  PROVE  LET a == may_update_attestable_payload_with_internal_pqc(s, p)
             n == may_update_proposal(a, p, FALSE)
         IN  /\ AutomatonOK(n) /\ n.level = 1 /\ n.locked = s.locked /\ n.elected = s.elected
             /\ n.round = s.round /\ n.phase = s.phase /\ n.early = s.early
             /\ n.proposal = IF s.proposal.round < p.round THEN p ELSE s.proposal
<1> DEFINE a == may_update_attestable_payload_with_internal_pqc(s, p)
           n == may_update_proposal(a, p, FALSE)
<1>1. /\ p.round \in Nat /\ p.prequorum \in SUBSET Rounds /\ s.proposal \in Blocks
      /\ s.proposal.round \in Nat /\ s \in AutoStates /\ s.round \in Nat
  BY Zenon, BlockFields DEF AutomatonOK, AutoStates
<1>2. \/ a = s
      \/ \E at \in SUBSET [proposal : Blocks, prequorum : Rounds] : a = [s EXCEPT !.attestable = at]
  <2>1. {[proposal |-> p, prequorum |-> q] : q \in p.prequorum} \in
          SUBSET [proposal : Blocks, prequorum : Rounds]
    BY <1>1
  <2>. QED
    BY Zenon, <2>1 DEF may_update_attestable_payload_with_internal_pqc
<1>3. /\ a \in AutoStates /\ a.level = 1 /\ a.locked = s.locked /\ a.elected = s.elected
      /\ a.round = s.round /\ a.phase = s.phase /\ a.early = s.early /\ a.proposal = s.proposal
  BY ZenonT(30), <1>1, <1>2 DEF AutoStates, AutomatonOK
<1> HIDE DEF a
<1>4. AutomatonOK(a)
  BY Zenon, <1>3 DEF AutomatonOK
<1>5. CASE s.proposal.round < p.round
  <2>1. \E x \in BOOLEAN : n = [a EXCEPT !.proposal = p, !.applied = x]
    <3>1. (FALSE \/ (a.proposal = p /\ a.applied)) \in BOOLEAN
      BY Zenon
    <3>. QED
      BY Zenon, <1>3, <1>5, <3>1 DEF may_update_proposal, update_proposal
  <2>2. /\ n \in AutoStates /\ n.level = 1 /\ n.locked = s.locked /\ n.elected = s.elected
        /\ n.round = s.round /\ n.phase = s.phase /\ n.early = s.early /\ n.proposal = p
    BY ZenonT(30), <1>3, <2>1 DEF AutoStates
  <2>3. s.early = {} /\ s.phase = "Idle"
    BY <1>1, <1>5 DEF AutomatonOK
  <2> HIDE DEF n
  <2>4. AutomatonOK(n)
    BY Zenon, <2>2, <2>3, <1>3 DEF AutomatonOK
  <2>. QED
    BY Zenon, <1>5, <2>2, <2>4 DEF n, a
<1>6. CASE ~(s.proposal.round < p.round)
  <2>1. n = a
    BY Zenon, <1>3, <1>6 DEF may_update_proposal
  <2>. QED
    BY Zenon, <1>3, <1>4, <1>6, <2>1 DEF n, a
<1>. QED
  BY Zenon, <1>5, <1>6

\* What handle_proposal does with a block of the level that is not of the future:
\* the lock and the elected block stay, and votes are asked for only when the
\* block is of the current round and the lock lets it through.
LEMMA HandleProposal ==
  ASSUME NEW s, AutomatonOK(s), s.level = 1, NEW p \in Blocks, p.round <= s.round
  PROVE  LET r == handle_proposal(s, p, FALSE)
         IN  /\ AutomatonOK(r.st) /\ r.st.level = 1 /\ r.st.round = s.round
             /\ r.st.locked = s.locked /\ r.st.elected = s.elected
             /\ r.st.phase = "Awaiting_application" =>
                  s.phase = "Awaiting_application" /\ r.st.proposal = s.proposal
             /\ \/ r.act \in {Do_nothing, Watch_prequorum}
                \/ /\ r.act = [type |-> "Prepare_consensus_votes", vote |-> VoteFor(p)]
                   /\ r.st.proposal = p /\ r.st.phase = "Awaiting_preattestations"
                   /\ p.round = s.round /\ Unlocks(s, p)
<1> DEFINE n == may_update_proposal(may_update_attestable_payload_with_internal_pqc(s, p), p, FALSE)
           e == [n EXCEPT !.early = {}]
           r == handle_proposal(s, p, FALSE)
<1>1. /\ p.level = 1 /\ p.round \in Nat /\ p.first = FALSE /\ s.proposal \in Blocks
      /\ p.pred = s.proposal.pred /\ s.proposal.round \in Nat /\ s.round \in Nat
      /\ s.proposal.round <= s.round
  BY Zenon, BlockFields DEF AutomatonOK, AutoStates
<1>2. /\ AutomatonOK(n) /\ n.level = 1 /\ n.locked = s.locked /\ n.elected = s.elected
      /\ n.round = s.round /\ n.phase = s.phase /\ n.early = s.early
      /\ n.proposal = IF s.proposal.round < p.round THEN p ELSE s.proposal
  BY Zenon, UpdateProposal
<1>3. r = HandleSameBranch(s, p, FALSE)
  BY <1>1 DEF handle_proposal
<1> HIDE DEF r
<1>4. CASE IsInvalid(s, p)
  <2>0. ~IsOutdated(s, p)
    BY <1>1, <1>4 DEF IsInvalid, IsOutdated
  <2>1. r = do_nothing(s)
    BY Zenon, <1>3, <1>4, <2>0 DEF HandleSameBranch
  <2>2. r.st = s /\ r.act = Do_nothing
    BY Zenon, <2>1 DEF do_nothing, Return
  <2>. QED
    BY Zenon, <2>2 DEF r
<1>5. CASE ~IsInvalid(s, p) /\ IsOutdated(s, p)
  <2>1. r = do_nothing(n)
    BY Zenon, <1>3, <1>5 DEF HandleSameBranch, HandleOutdated
  <2>2. r.st = n /\ r.act = Do_nothing
    BY Zenon, <2>1 DEF do_nothing, Return
  <2> HIDE DEF n
  <2>3. n.phase # "Idle" => n.proposal = s.proposal
    BY <1>1, <1>2, <1>5 DEF IsOutdated, AutomatonOK
  <2>. QED
    BY Zenon, <1>2, <2>2, <2>3 DEF r
<1>6. CASE ~IsInvalid(s, p) /\ ~IsOutdated(s, p)
  <2>1. r = HandleValid(s, p, FALSE)
    BY Zenon, <1>3, <1>6 DEF HandleSameBranch
  <2>2. r = IF Unlocks(e, p) THEN may_vote(e, p)
            ELSE Return([e EXCEPT !.awaiting = TRUE, !.phase = "Awaiting_preattestations"],
                        Watch_prequorum)
    BY Zenon, <2>1 DEF HandleValid
  <2> HIDE DEF n
  <2>3. p.round = s.round /\ n.proposal = p
    BY <1>1, <1>2, <1>6 DEF IsInvalid, IsOutdated
  <2>4. /\ e \in AutoStates /\ e.early = {} /\ e.level = 1 /\ e.locked = s.locked
        /\ e.elected = s.elected /\ e.round = s.round /\ e.phase = s.phase /\ e.proposal = p
    BY Zenon, <1>2, <2>3 DEF AutomatonOK, AutoStates
  <2>5. AutomatonOK(e)
    <3> HIDE DEF e
    <3>. QED
      BY Zenon, <1>2, <2>3, <2>4 DEF AutomatonOK
  <2>6. Unlocks(e, p) <=> Unlocks(s, p)
    BY Zenon, <2>4 DEF Unlocks
  <2> HIDE DEF e
  <2>7. s.phase # "Idle" => s.proposal = p
    BY <1>1, <1>2, <2>3 DEF AutomatonOK
  <2>8. CASE ~Unlocks(e, p)
    <3> DEFINE w == [e EXCEPT !.awaiting = TRUE, !.phase = "Awaiting_preattestations"]
    <3>1. r.st = w /\ r.act = Watch_prequorum
      BY Zenon, <2>2, <2>8 DEF Return
    <3>2. /\ w \in AutoStates /\ w.early = {} /\ w.level = 1 /\ w.locked = s.locked
          /\ w.elected = s.elected /\ w.round = s.round /\ w.proposal = p
          /\ w.phase = "Awaiting_preattestations"
      BY Zenon, <2>4 DEF AutoStates, Phases
    <3> HIDE DEF w
    <3>3. AutomatonOK(w)
      BY <2>3, <2>4, <2>5, <3>2 DEF AutomatonOK
    <3>. QED
      BY Zenon, <3>1, <3>2, <3>3 DEF r
  <2>9. CASE Unlocks(e, p) /\ s.phase # "Idle"
    <3>1. r.st = e /\ r.act = Do_nothing
      BY Zenon, <2>2, <2>4, <2>9 DEF may_vote, do_nothing, Return
    <3>. QED
      BY Zenon, <2>4, <2>5, <2>7, <2>9, <3>1 DEF r
  <2>10. CASE Unlocks(e, p) /\ s.phase = "Idle"
    <3> DEFINE w == [e EXCEPT !.phase = "Awaiting_preattestations"]
               a == [type |-> "Prepare_consensus_votes", vote |-> VoteFor(p)]
    <3>1. make_consensus_vote_batch(e, p) = VoteFor(p)
      BY Zenon, <1>1, <2>4 DEF make_consensus_vote_batch, VoteFor
    <3>2. prepare_consensus_votes(e, p) = Return(w, a)
      BY Zenon, <1>1, <3>1 DEF prepare_consensus_votes
    <3>3. r = [Return(w, a) EXCEPT !.cancel = TRUE]
      BY Zenon, <2>2, <2>4, <2>10, <3>2 DEF may_vote
    <3>4. r.st = w /\ r.act = a
      BY Zenon, <3>3 DEF Return
    <3>5. /\ w \in AutoStates /\ w.early = {} /\ w.level = 1 /\ w.locked = s.locked
          /\ w.elected = s.elected /\ w.round = s.round /\ w.proposal = p
          /\ w.phase = "Awaiting_preattestations"
      BY Zenon, <2>4 DEF AutoStates, Phases
    <3> HIDE DEF w
    <3>6. AutomatonOK(w)
      BY <2>3, <2>4, <2>5, <3>5 DEF AutomatonOK
    <3>. QED
      BY Zenon, <2>3, <2>6, <2>10, <3>4, <3>5, <3>6 DEF r
  <2>. QED
    BY Zenon, <2>8, <2>9, <2>10
<1>. QED
  BY Zenon, <1>4, <1>5, <1>6

--------------------------------------------------------------------------------
(* What perform_action does with the actions the automaton can ask for.     *)

HwmType == [Honest -> [Kinds -> SUBSET Nat]]

LEMMA PerformSilent ==
  ASSUME NEW b \in Honest, NEW r, r.act \in {Do_nothing, Watch_prequorum, Watch_quorum},
         hwm \in HwmType, perform_action(b, r)
  PROVE  st' = [st EXCEPT ![b] = r.st] /\ hwm' = hwm /\ preatts' = preatts /\ atts' = atts
<1>1. NewRequests(r.act) = <<>> /\ Injected(r.act) = {}
  BY DEF NewRequests, Injected, Do_nothing, Watch_prequorum, Watch_quorum
<1>2. Requested(b, r) = {}
  BY <1>1 DEF Requested
<1>3. \A k : OfKind({}, k) = {}
  BY Zenon DEF OfKind
<1>4. record(b, {}) = hwm[b]
  BY Zenon, <1>3 DEF record, HwmType
<1>5. Votes(b, {}) = {}
  BY Zenon DEF Votes
<1> DEFINE signed == {handle_forge_event(r.st, e) : e \in OfKind(Requested(b, r), "Attestation")}
           sent == Injected(r.act) \cup OfKind(Requested(b, r), "Preattestation")
                     \cup UNION {Injected(x.act) : x \in signed}
<1>6. /\ st' = [st EXCEPT ![b] = IF signed = {} THEN r.st ELSE (CHOOSE x \in signed : TRUE).st]
      /\ hwm' = [hwm EXCEPT ![b] = record(b, Requested(b, r))]
      /\ preatts' = preatts \cup Votes(b, OfKind(sent, "Preattestation"))
      /\ atts' = atts \cup Votes(b, OfKind(sent, "Attestation"))
  BY Zenon DEF perform_action
<1>7. signed = {}
  BY Zenon, <1>2, <1>3
<1>8. sent = {}
  BY Zenon, <1>1, <1>2, <1>3, <1>7
<1> HIDE DEF signed, sent
<1>9. hwm' = hwm
  BY Zenon, <1>2, <1>4, <1>6 DEF HwmType
<1>. QED
  BY Zenon, <1>3, <1>5, <1>6, <1>7, <1>8, <1>9

LEMMA VoteFields ==
  ASSUME NEW kind, NEW v
  PROVE  Vote(kind, v).kind = kind /\ Vote(kind, v).vote = v
BY Zenon DEF Vote

\* Prepare_consensus_votes: the preattestation leaves if its watermark allows it,
\* and the attestation comes back early.
LEMMA PerformVotes ==
  ASSUME NEW b \in Honest, NEW r, AutomatonOK(r.st), r.st.phase = "Awaiting_preattestations",
         NEW v, v = VoteFor(r.st.proposal), v.round \in Nat,
         r.act = [type |-> "Prepare_consensus_votes", vote |-> v],
         hwm \in HwmType, perform_action(b, r)
  PROVE  LET pre == may_sign(b, Vote("Preattestation", v))
             att == may_sign(b, Vote("Attestation", v))
         IN  /\ st' = [st EXCEPT ![b] = IF att THEN [r.st EXCEPT !.early = @ \cup {v}] ELSE r.st]
             /\ preatts' = preatts \cup (IF pre THEN {<<b, v.round, v.payload>>} ELSE {})
             /\ atts' = atts
             /\ hwm' \in HwmType
             /\ \A c \in Honest : hwm'[c]["Preattestation"] =
                  IF c = b /\ pre THEN {v.round} ELSE hwm[c]["Preattestation"]
<1> DEFINE P == Vote("Preattestation", v)
           A == Vote("Attestation", v)
           R == Requested(b, r)
           signed == {handle_forge_event(r.st, e) : e \in OfKind(R, "Attestation")}
           early == [r.st EXCEPT !.early = @ \cup {v}]
<1>1. NewRequests(r.act) = <<P, A>> /\ Injected(r.act) = {}
  BY DEF NewRequests, Injected
<1>2. R = {x \in {P, A} : may_sign(b, x)}
  <2>1. DOMAIN <<P, A>> = {1, 2} /\ <<P, A>>[1] = P /\ <<P, A>>[2] = A
    OBVIOUS
  <2> HIDE DEF P, A
  <2>. QED
    BY Zenon, <1>1, <2>1 DEF Requested
<1>3. /\ OfKind(R, "Preattestation") = IF may_sign(b, P) THEN {P} ELSE {}
      /\ OfKind(R, "Attestation") = IF may_sign(b, A) THEN {A} ELSE {}
  <2>1. P.kind = "Preattestation" /\ A.kind = "Attestation"
    BY Zenon, VoteFields
  <2> HIDE DEF P, A, R
  <2>. QED
    BY Zenon, <1>2, <2>1 DEF OfKind
<1>4. handle_forge_event(r.st, A) = do_nothing(early)
  <2>1. A.kind = "Attestation" /\ A.vote = v
    BY Zenon, VoteFields
  <2>2. handle_forge_event(r.st, A) = handle_arriving_attestation(r.st, v)
    BY Zenon, <2>1 DEF handle_forge_event
  <2>. QED
    BY Zenon, <2>2 DEF handle_arriving_attestation, VoteFor
<1>5. do_nothing(early).st = early /\ Injected(do_nothing(early).act) = {}
  BY Zenon DEF do_nothing, Return, Do_nothing, Injected
<1> HIDE DEF R, P, A, early
<1>6. signed = IF may_sign(b, A) THEN {do_nothing(early)} ELSE {}
  BY Zenon, <1>3, <1>4
<1>7. UNION {Injected(x.act) : x \in signed} = {}
  BY Zenon, <1>5, <1>6
<1>8. st' = [st EXCEPT ![b] = IF may_sign(b, A) THEN early ELSE r.st]
  <2>1. st' = [st EXCEPT ![b] = IF signed = {} THEN r.st ELSE (CHOOSE x \in signed : TRUE).st]
    BY Zenon DEF perform_action, R
  <2>. QED
    BY Zenon, <1>5, <1>6, <2>1
<1> DEFINE sent == Injected(r.act) \cup OfKind(R, "Preattestation")
                     \cup UNION {Injected(x.act) : x \in signed}
<1>9. sent = IF may_sign(b, P) THEN {P} ELSE {}
  BY Zenon, <1>1, <1>3, <1>7
<1>10. /\ preatts' = preatts \cup Votes(b, OfKind(sent, "Preattestation"))
       /\ atts' = atts \cup Votes(b, OfKind(sent, "Attestation"))
       /\ hwm' = [hwm EXCEPT ![b] = record(b, R)]
  BY Zenon DEF perform_action, R
<1>11. P.kind = "Preattestation" /\ A.kind = "Attestation" /\ P.vote = v /\ A.vote = v
  BY Zenon, VoteFields DEF P, A
<1> HIDE DEF sent, signed
<1>12. /\ OfKind(sent, "Preattestation") = sent /\ OfKind(sent, "Attestation") = {}
  BY Zenon, <1>9, <1>11 DEF OfKind
<1>13. Votes(b, sent) = (IF may_sign(b, P) THEN {<<b, v.round, v.payload>>} ELSE {}) /\ Votes(b, {}) = {}
  BY Zenon, <1>9, <1>11 DEF Votes
<1>14. /\ {q.vote.round : q \in OfKind(R, "Preattestation")} = IF may_sign(b, P) THEN {v.round} ELSE {}
       /\ {q.vote.round : q \in OfKind(R, "Attestation")} = IF may_sign(b, A) THEN {v.round} ELSE {}
  BY Zenon, <1>3, <1>11
<1>15. record(b, R) = [k \in Kinds |->
         IF k = "Preattestation"
         THEN IF may_sign(b, P) THEN {v.round} ELSE hwm[b]["Preattestation"]
         ELSE IF may_sign(b, A) THEN {v.round} ELSE hwm[b]["Attestation"]]
  <2>1. ASSUME NEW k \in Kinds
        PROVE  (IF OfKind(R, k) = {} THEN hwm[b][k] ELSE {q.vote.round : q \in OfKind(R, k)}) =
                 IF k = "Preattestation"
                 THEN IF may_sign(b, P) THEN {v.round} ELSE hwm[b]["Preattestation"]
                 ELSE IF may_sign(b, A) THEN {v.round} ELSE hwm[b]["Attestation"]
    <3>1. CASE k = "Preattestation"
      BY Zenon, <1>3, <1>14, <3>1
    <3>2. CASE k = "Attestation"
      BY Zenon, <1>3, <1>14, <3>2
    <3>. QED
      BY Zenon, <3>1, <3>2 DEF Kinds
  <2>. QED
    BY Zenon, <2>1 DEF record
<1>16. /\ hwm' \in HwmType
       /\ \A c \in Honest : hwm'[c]["Preattestation"] =
            IF c = b /\ may_sign(b, P) THEN {v.round} ELSE hwm[c]["Preattestation"]
  <2>1. record(b, R) \in [Kinds -> SUBSET Nat]
    BY <1>15 DEF HwmType, Kinds
  <2>2. record(b, R)["Preattestation"] = IF may_sign(b, P) THEN {v.round} ELSE hwm[b]["Preattestation"]
    BY Zenon, <1>15 DEF Kinds
  <2>. QED
    BY Zenon, <1>10, <2>1, <2>2 DEF HwmType
<1>. QED
  BY Zenon, <1>8, <1>10, <1>12, <1>13, <1>16 DEF P, A, early

\* Inject_attestations with the vote for the proposal.
LEMMA PerformInject ==
  ASSUME NEW b \in Honest, NEW r, NEW v,
         r.act = [type |-> "Inject_attestations", votes |-> {v}],
         hwm \in HwmType, perform_action(b, r)
  PROVE  /\ st' = [st EXCEPT ![b] = r.st] /\ hwm' = hwm /\ preatts' = preatts
         /\ atts' = atts \cup {<<b, v.round, v.payload>>}
<1> DEFINE A == Vote("Attestation", v)
           signed == {handle_forge_event(r.st, e) : e \in OfKind(Requested(b, r), "Attestation")}
           sent == Injected(r.act) \cup OfKind(Requested(b, r), "Preattestation")
                     \cup UNION {Injected(x.act) : x \in signed}
<1>1. NewRequests(r.act) = <<>> /\ Injected(r.act) = {A}
  BY DEF NewRequests, Injected
<1>2. Requested(b, r) = {}
  BY <1>1 DEF Requested
<1>3. \A k : OfKind({}, k) = {}
  BY Zenon DEF OfKind
<1>4. record(b, {}) = hwm[b]
  BY Zenon, <1>3 DEF record, HwmType
<1>5. Votes(b, {}) = {} /\ Votes(b, {A}) = {<<b, v.round, v.payload>>}
  BY VoteFields DEF Votes
<1>6. /\ st' = [st EXCEPT ![b] = IF signed = {} THEN r.st ELSE (CHOOSE x \in signed : TRUE).st]
      /\ hwm' = [hwm EXCEPT ![b] = record(b, Requested(b, r))]
      /\ preatts' = preatts \cup Votes(b, OfKind(sent, "Preattestation"))
      /\ atts' = atts \cup Votes(b, OfKind(sent, "Attestation"))
  BY Zenon DEF perform_action
<1>7. signed = {}
  BY Zenon, <1>2, <1>3
<1>8. sent = {A}
  <2> HIDE DEF A
  <2>. QED
    BY Zenon, <1>1, <1>2, <1>3, <1>7
<1> HIDE DEF signed, sent
<1>9. OfKind({A}, "Preattestation") = {} /\ OfKind({A}, "Attestation") = {A}
  <2>1. A.kind = "Attestation"
    BY Zenon, VoteFields
  <2>. QED
    BY Zenon, <2>1 DEF OfKind
<1> HIDE DEF A
<1>10. hwm' = hwm
  BY Zenon, <1>2, <1>4, <1>6 DEF HwmType
<1>. QED
  BY Zenon, <1>5, <1>6, <1>7, <1>8, <1>9, <1>10

\* Prepare_attestations: the attestation leaves if its watermark allows it.
LEMMA PerformAttestation ==
  ASSUME NEW b \in Honest, NEW r, r.st.phase = "Awaiting_attestations",
         NEW v, v = VoteFor(r.st.proposal), v.round \in Nat,
         r.act = [type |-> "Prepare_attestations", vote |-> v],
         hwm \in HwmType, perform_action(b, r)
  PROVE  /\ st' = [st EXCEPT ![b] = r.st] /\ preatts' = preatts
         /\ atts' \in {atts, atts \cup {<<b, v.round, v.payload>>}}
         /\ hwm' \in HwmType
         /\ \A c \in Honest : hwm'[c]["Preattestation"] = hwm[c]["Preattestation"]
<1> DEFINE A == Vote("Attestation", v)
           R == Requested(b, r)
           signed == {handle_forge_event(r.st, e) : e \in OfKind(R, "Attestation")}
           sent == Injected(r.act) \cup OfKind(R, "Preattestation")
                     \cup UNION {Injected(x.act) : x \in signed}
           back == Return(r.st, [type |-> "Inject_attestations", votes |-> {v}])
<1>1. NewRequests(r.act) = <<A>> /\ Injected(r.act) = {}
  BY DEF NewRequests, Injected
<1>2. A.kind = "Attestation" /\ A.vote = v
  BY Zenon, VoteFields
<1>3. R = IF may_sign(b, A) THEN {A} ELSE {}
  <2>1. DOMAIN <<A>> = {1} /\ <<A>>[1] = A
    OBVIOUS
  <2> HIDE DEF A
  <2>. QED
    BY Zenon, <1>1, <2>1 DEF Requested
<1>4. handle_forge_event(r.st, A) = back
  <2>1. handle_forge_event(r.st, A) = handle_arriving_attestation(r.st, v)
    BY Zenon, <1>2 DEF handle_forge_event
  <2>. QED
    BY Zenon, <2>1 DEF handle_arriving_attestation, VoteFor
<1>5. back.st = r.st /\ Injected(back.act) = {A}
  BY Zenon DEF Return, Injected
<1>6. /\ st' = [st EXCEPT ![b] = IF signed = {} THEN r.st ELSE (CHOOSE x \in signed : TRUE).st]
      /\ hwm' = [hwm EXCEPT ![b] = record(b, R)]
      /\ preatts' = preatts \cup Votes(b, OfKind(sent, "Preattestation"))
      /\ atts' = atts \cup Votes(b, OfKind(sent, "Attestation"))
  BY Zenon DEF perform_action
<1>7. Votes(b, {}) = {} /\ Votes(b, {A}) = {<<b, v.round, v.payload>>}
  BY VoteFields DEF Votes
<1> HIDE DEF A, R, back
<1>8. /\ OfKind(R, "Preattestation") = {} /\ OfKind(R, "Attestation") = R
      /\ OfKind({A}, "Preattestation") = {} /\ OfKind({A}, "Attestation") = {A}
      /\ OfKind({}, "Preattestation") = {} /\ OfKind({}, "Attestation") = {}
  BY Zenon, <1>2, <1>3 DEF OfKind
<1>9. signed = IF may_sign(b, A) THEN {back} ELSE {}
  BY Zenon, <1>3, <1>4, <1>8
<1>10. sent = IF may_sign(b, A) THEN {A} ELSE {}
  BY Zenon, <1>1, <1>5, <1>8, <1>9
<1> HIDE DEF signed, sent
<1>11. st' = [st EXCEPT ![b] = r.st]
  BY Zenon, <1>5, <1>6, <1>9
<1>12. preatts' = preatts /\ atts' \in {atts, atts \cup {<<b, v.round, v.payload>>}}
  BY Zenon, <1>6, <1>7, <1>8, <1>10
<1>13. record(b, R) \in [Kinds -> SUBSET Nat]
       /\ record(b, R)["Preattestation"] = hwm[b]["Preattestation"]
  <2>1. {q.vote.round : q \in R} \in SUBSET Nat
    BY Zenon, <1>2, <1>3
  <2>2. record(b, R) = [k \in Kinds |-> IF OfKind(R, k) = {} THEN hwm[b][k]
                                        ELSE {q.vote.round : q \in OfKind(R, k)}]
    BY Zenon DEF record
  <2>. QED
    BY <1>8, <2>1, <2>2 DEF Kinds, HwmType
<1>14. hwm' \in HwmType /\ \A c \in Honest : hwm'[c]["Preattestation"] = hwm[c]["Preattestation"]
  BY Zenon, <1>6, <1>13 DEF HwmType
<1>. QED
  BY Zenon, <1>11, <1>12, <1>14

--------------------------------------------------------------------------------
(* What the other handlers do.                                              *)

\* A prequorum on the proposal locks the baker on it.
LEMMA PrequorumHandled ==
  ASSUME NEW s, AutomatonOK(s), s.phase = "Awaiting_preattestations"
  PROVE  LET p == s.proposal
             r == Prequorum_reached(s, p)
         IN  /\ AutomatonOK(r.st) /\ r.st.level = 1 /\ r.st.round = s.round
             /\ r.st.locked = {[round |-> p.round, payload |-> p.payload]}
             /\ r.st.elected = s.elected /\ r.st.proposal = p
             /\ r.st.phase = "Awaiting_attestations"
             /\ \/ r.act = Watch_quorum
                \/ r.act = [type |-> "Inject_attestations", votes |-> {VoteFor(p)}]
                \/ r.act = [type |-> "Prepare_attestations", vote |-> VoteFor(p)]
<1> DEFINE p == s.proposal
           better == \A a \in s.attestable : a.prequorum < p.round
           attestable == IF better THEN {[proposal |-> p, prequorum |-> p.round]} ELSE s.attestable
           n == [update_locked_round([s EXCEPT !.attestable = attestable], p.round, p.payload)
                   EXCEPT !.phase = "Awaiting_attestations"]
           r == Prequorum_reached(s, p)
<1>1. /\ s \in AutoStates /\ s.level = 1 /\ p \in Blocks /\ p.round = s.round
      /\ p.round \in Rounds /\ p.payload \in Payloads /\ p.level = 1 /\ p.round \in Nat
  BY Zenon, BlockFields DEF AutomatonOK, AutoStates
<1>2. attestable \in SUBSET [proposal : Blocks, prequorum : Rounds]
  BY <1>1 DEF AutoStates
<1>3. r = CASE p # p -> do_nothing(s)
            [] p = p /\ n.awaiting ->
                 Return(n, [type |-> "Prepare_attestations", vote |-> make_consensus_vote_batch(n, p)])
            [] p = p /\ ~n.awaiting -> inject_early_arrived_attestations(n)
  BY Zenon DEF Prequorum_reached, prequorum_reached_when_awaiting_preattestations
<1> HIDE DEF attestable
<1>4. /\ n \in AutoStates /\ n.level = 1 /\ n.proposal = p /\ n.round = s.round
      /\ n.locked = {[round |-> p.round, payload |-> p.payload]} /\ n.elected = s.elected
      /\ n.phase = "Awaiting_attestations" /\ n.early = s.early /\ n.awaiting = s.awaiting
  <2> DEFINE lock == {[round |-> p.round, payload |-> p.payload]}
             m == [s EXCEPT !.attestable = attestable]
             k == [m EXCEPT !.locked = lock]
  <2>1. lock \in SUBSET [round : Rounds, payload : Payloads]
    BY <1>1
  <2>2. n = [k EXCEPT !.phase = "Awaiting_attestations"]
    BY Zenon DEF update_locked_round
  <2> HIDE DEF lock, n
  <2>3. /\ m \in AutoStates /\ m.level = 1 /\ m.proposal = p /\ m.round = s.round
        /\ m.elected = s.elected /\ m.early = s.early /\ m.awaiting = s.awaiting
    BY Zenon, <1>1, <1>2 DEF AutoStates
  <2> HIDE DEF m
  <2>4. /\ k \in AutoStates /\ k.level = 1 /\ k.proposal = p /\ k.round = s.round /\ k.locked = lock
        /\ k.elected = s.elected /\ k.early = s.early /\ k.awaiting = s.awaiting
    BY Zenon, <2>1, <2>3 DEF AutoStates
  <2> HIDE DEF k
  <2>5. /\ n \in AutoStates /\ n.level = 1 /\ n.proposal = p /\ n.round = s.round /\ n.locked = lock
        /\ n.elected = s.elected /\ n.early = s.early /\ n.awaiting = s.awaiting
        /\ n.phase = "Awaiting_attestations"
    BY Zenon, <2>2, <2>4 DEF AutoStates, Phases
  <2>. QED
    BY Zenon, <2>5 DEF lock
<1> HIDE DEF n, r
<1>5. AutomatonOK(n)
  BY <1>1, <1>4 DEF AutomatonOK
<1>6. CASE n.awaiting
  <2>1. r = Return(n, [type |-> "Prepare_attestations", vote |-> make_consensus_vote_batch(n, p)])
    BY Zenon, <1>3, <1>6
  <2>2. make_consensus_vote_batch(n, p) = VoteFor(p)
    BY Zenon, <1>1, <1>4 DEF make_consensus_vote_batch, VoteFor
  <2>3. r.st = n /\ r.act = [type |-> "Prepare_attestations", vote |-> VoteFor(p)]
    BY Zenon, <2>1, <2>2 DEF Return
  <2>. QED
    BY Zenon, <1>4, <1>5, <2>3 DEF r
<1>7. CASE ~n.awaiting
  <2>1. r = inject_early_arrived_attestations(n)
    BY Zenon, <1>3, <1>7
  <2>2. CASE n.early = {}
    <3>1. r.st = n /\ r.act = Watch_quorum
      BY Zenon, <2>1, <2>2 DEF inject_early_arrived_attestations, Return
    <3>. QED
      BY Zenon, <1>4, <1>5, <3>1 DEF r
  <2>3. CASE n.early # {}
    <3> DEFINE w == [n EXCEPT !.early = {}]
    <3>1. r.st = w /\ r.act = [type |-> "Inject_attestations", votes |-> n.early]
      BY Zenon, <2>1, <2>3 DEF inject_early_arrived_attestations, Return
    <3>2. n.early = {VoteFor(p)}
      BY Zenon, <1>4, <1>5, <2>3 DEF AutomatonOK
    <3>3. /\ w \in AutoStates /\ w.level = 1 /\ w.proposal = p /\ w.round = s.round
          /\ w.locked = n.locked /\ w.elected = s.elected
          /\ w.phase = "Awaiting_attestations" /\ w.early = {}
      BY Zenon, <1>4 DEF AutoStates
    <3> HIDE DEF w
    <3>4. AutomatonOK(w)
      BY Zenon, <1>1, <1>4, <1>5, <3>3 DEF AutomatonOK
    <3>. QED
      BY Zenon, <1>4, <3>1, <3>2, <3>3, <3>4 DEF r
  <2>. QED
    BY Zenon, <2>2, <2>3
<1>. QED
  BY Zenon, <1>6, <1>7

\* A quorum on the proposal elects it, at once or when its block is applied.
LEMMA QuorumHandled ==
  ASSUME NEW s, AutomatonOK(s), s.phase = "Awaiting_attestations", s.elected = {}
  PROVE  LET r == Quorum_reached(s, s.proposal)
         IN  /\ AutomatonOK(r.st) /\ r.st.level = 1 /\ r.st.round = s.round /\ r.st.locked = s.locked
             /\ r.st.elected \subseteq {s.proposal} /\ r.st.proposal = s.proposal
             /\ r.act = Do_nothing
<1> DEFINE e == [s EXCEPT !.elected = {s.proposal}, !.phase = "Idle"]
           d == [s EXCEPT !.delayed = TRUE, !.phase = "Awaiting_application"]
           r == Quorum_reached(s, s.proposal)
<1>1. s \in AutoStates /\ s.level = 1 /\ s.proposal \in Blocks /\ s.proposal.round = s.round
  BY Zenon DEF AutomatonOK
<1>2. r = IF s.applied THEN do_nothing(e) ELSE do_nothing(d)
  BY Zenon DEF Quorum_reached, quorum_reached_when_waiting_attestations
<1> HIDE DEF r
<1>3. CASE s.applied
  <2>1. r.st = e /\ r.act = Do_nothing
    BY Zenon, <1>2, <1>3 DEF do_nothing, Return
  <2>2. /\ e \in AutoStates /\ e.level = 1 /\ e.round = s.round /\ e.locked = s.locked
        /\ e.elected = {s.proposal} /\ e.proposal = s.proposal /\ e.phase = "Idle"
        /\ e.early = s.early
    BY ZenonT(30), <1>1 DEF AutoStates, Phases
  <2> HIDE DEF e
  <2>3. AutomatonOK(e)
    BY Zenon, <1>1, <2>2 DEF AutomatonOK
  <2>. QED
    BY Zenon, <2>1, <2>2, <2>3 DEF r
<1>4. CASE ~s.applied
  <2>1. r.st = d /\ r.act = Do_nothing
    BY ZenonT(30), <1>2, <1>4 DEF do_nothing, Return
  <2>2. /\ d \in AutoStates /\ d.level = 1 /\ d.round = s.round /\ d.locked = s.locked
        /\ d.elected = {} /\ d.proposal = s.proposal /\ d.phase = "Awaiting_application"
        /\ d.early = s.early
    BY Zenon, <1>1 DEF AutoStates, Phases
  <2> HIDE DEF d
  <2>3. AutomatonOK(d)
    BY Zenon, <1>1, <2>2 DEF AutomatonOK
  <2>. QED
    BY Zenon, <2>1, <2>2, <2>3 DEF r
<1>. QED
  BY Zenon, <1>3, <1>4

LEMMA HeadHandled ==
  ASSUME NEW s, AutomatonOK(s), s.phase = "Awaiting_application"
  PROVE  LET r == New_head_proposal(s, s.proposal)
         IN  /\ AutomatonOK(r.st) /\ r.st.level = 1 /\ r.st.round = s.round /\ r.st.locked = s.locked
             /\ r.st.elected \subseteq s.elected \cup {s.proposal} /\ r.st.proposal = s.proposal
             /\ r.act = Do_nothing
<1> DEFINE e == [s EXCEPT !.elected = {s.proposal}, !.phase = "Idle"]
           d == [s EXCEPT !.applied = TRUE, !.phase = "Idle"]
           r == New_head_proposal(s, s.proposal)
<1>1. s \in AutoStates /\ s.level = 1 /\ s.proposal \in Blocks /\ s.proposal.round = s.round
  BY Zenon DEF AutomatonOK
<1>2. r = IF s.elected = {} THEN do_nothing(e) ELSE do_nothing(d)
  BY Zenon DEF New_head_proposal, handle_expected_applied_proposal
<1> HIDE DEF r
<1>3. CASE s.elected = {}
  <2>1. r.st = e /\ r.act = Do_nothing
    BY Zenon, <1>2, <1>3 DEF do_nothing, Return
  <2>2. /\ e \in AutoStates /\ e.level = 1 /\ e.round = s.round /\ e.locked = s.locked
        /\ e.elected = {s.proposal} /\ e.proposal = s.proposal /\ e.phase = "Idle"
        /\ e.early = s.early
    BY Zenon, <1>1 DEF AutoStates, Phases
  <2> HIDE DEF e
  <2>3. AutomatonOK(e)
    BY Zenon, <1>1, <2>2 DEF AutomatonOK
  <2>. QED
    BY Zenon, <2>1, <2>2, <2>3 DEF r
<1>4. CASE s.elected # {}
  <2>1. r.st = d /\ r.act = Do_nothing
    BY Zenon, <1>2, <1>4 DEF do_nothing, Return
  <2>2. /\ d \in AutoStates /\ d.level = 1 /\ d.round = s.round /\ d.locked = s.locked
        /\ d.elected = s.elected /\ d.proposal = s.proposal /\ d.phase = "Idle"
        /\ d.early = s.early
    BY Zenon, <1>1 DEF AutoStates, Phases
  <2> HIDE DEF d
  <2>3. AutomatonOK(d)
    BY Zenon, <1>1, <2>2 DEF AutomatonOK
  <2>. QED
    BY Zenon, <2>1, <2>2, <2>3 DEF r
<1>. QED
  BY Zenon, <1>3, <1>4

LEMMA RoundEnded ==
  ASSUME NEW s, AutomatonOK(s), s.level = 1
  PROVE  LET r == end_of_round(s, s.round, FALSE)
         IN  /\ AutomatonOK(r.st) /\ r.st.level = 1 /\ r.st.round = s.round + 1 /\ r.st.locked = s.locked
             /\ r.st.elected = s.elected /\ r.st.phase = "Idle" /\ r.act = Do_nothing
<1> DEFINE n == FreshRound(s, s.round + 1)
           r == end_of_round(s, s.round, FALSE)
<1>1. r.st = n /\ r.act = Do_nothing
  BY Zenon DEF end_of_round, do_nothing, Return
<1>2. s \in AutoStates /\ s.round \in Nat /\ s.round + 1 \in Nat
  BY DEF AutomatonOK, AutoStates
<1> DEFINE k == [s EXCEPT !.round = s.round + 1, !.phase = "Idle", !.delayed = FALSE]
<1>3. n = [k EXCEPT !.early = {}, !.awaiting = FALSE]
  BY Zenon DEF FreshRound
<1>4. /\ k \in AutoStates /\ k.level = 1 /\ k.round = s.round + 1 /\ k.locked = s.locked
      /\ k.elected = s.elected /\ k.phase = "Idle" /\ k.proposal = s.proposal
  BY Zenon, <1>2 DEF AutoStates, Phases
<1> HIDE DEF n, k, r
<1>5. /\ n \in AutoStates /\ n.level = 1 /\ n.round = s.round + 1 /\ n.locked = s.locked
      /\ n.elected = s.elected /\ n.phase = "Idle" /\ n.proposal = s.proposal /\ n.early = {}
  BY Zenon, <1>3, <1>4 DEF AutoStates
<1>6. \A l \in s.locked : l.round \in Nat
  BY Zenon, <1>2, TenderbakeAssumption DEF AutoStates
<1>7. s.proposal \in Blocks /\ s.proposal.round \in Nat /\ s.proposal.round <= s.round
  BY Zenon, BlockFields DEF AutomatonOK
<1>8. AutomatonOK(n)
  BY <1>2, <1>5, <1>6, <1>7 DEF AutomatonOK
<1>. QED
  BY Zenon, <1>1, <1>5, <1>8 DEF r

--------------------------------------------------------------------------------
(* The inductive invariant.                                                 *)

NetVotes == Honest \X Rounds \X Payloads

\* The preattestations of a baker are not after its round nor after its
\* watermark, and a block is elected, or waits for its application, only with a
\* quorum on it.
NetInv ==
  /\ st \in [Honest -> AutoStates] /\ hwm \in HwmType
  /\ preatts \subseteq NetVotes /\ atts \subseteq NetVotes
  /\ \A b \in Honest : AutomatonOK(st[b])
  /\ \A b \in Honest, q \in Rounds, w \in Payloads : <<b, q, w>> \in preatts =>
       st[b].level = 1 /\ q <= st[b].round /\ \E m \in hwm[b]["Preattestation"] : q <= m
  /\ \A b \in Honest : \A d \in st[b].elected : Reached(atts, d.round, d.payload)
  /\ \A b \in Honest : st[b].phase = "Awaiting_application" =>
       Reached(atts, st[b].proposal.round, st[b].proposal.payload)

LEMMA ReachedMonotone ==
  ASSUME NEW S, NEW T, S \subseteq T, NEW r, NEW v, Reached(S, r, v)
  PROVE  Reached(T, r, v)
<1> DEFINE A == {s \in Slots : Owner[s] \in Faulty \/ <<Owner[s], r, v>> \in S}
           B == {s \in Slots : Owner[s] \in Faulty \/ <<Owner[s], r, v>> \in T}
<1>1. IsFiniteSet(B) /\ A \subseteq B
  BY Zenon, FS_Subset, TenderbakeAssumption
<1>2. Cardinality(A) <= Cardinality(B) /\ Cardinality(A) \in Nat /\ Cardinality(B) \in Nat
  BY Zenon, <1>1, FS_Subset, FS_CardinalityType
<1>3. Threshold \in Nat
  BY Zenon, TenderbakeAssumption
<1>. QED
  BY <1>2, <1>3 DEF Reached

\* One baker has moved to the state n, and its votes and watermarks with it.
LEMMA InvStep ==
  ASSUME NetInv, NEW b \in Honest, NEW n, AutomatonOK(n), n.level = 1,
         st[b].level = 1 => st[b].round <= n.round,
         st' = [st EXCEPT ![b] = n], hwm' \in HwmType,
         atts \subseteq atts', atts' \subseteq NetVotes, preatts' \subseteq NetVotes,
         \A c \in Honest, q \in Rounds, w \in Payloads : <<c, q, w>> \in preatts' =>
           <<c, q, w>> \in preatts \/ (c = b /\ q = n.round /\ q \in hwm'[b]["Preattestation"]),
         \A c \in Honest : \A m \in hwm[c]["Preattestation"] :
           \E k \in hwm'[c]["Preattestation"] : m <= k,
         \A d \in n.elected : Reached(atts', d.round, d.payload),
         n.phase = "Awaiting_application" => Reached(atts', n.proposal.round, n.proposal.payload)
  PROVE  NetInv'
<1>1. n \in AutoStates /\ n.round \in Nat
  BY Zenon DEF AutomatonOK, AutoStates
<1>2. st' \in [Honest -> AutoStates] /\ st'[b] = n /\ \A c \in Honest : c # b => st'[c] = st[c]
  BY Zenon, <1>1 DEF NetInv
<1>3. \A c \in Honest : AutomatonOK(st'[c])
  BY Zenon, <1>2 DEF NetInv
<1>4. ASSUME NEW c \in Honest, NEW q \in Rounds, NEW w \in Payloads, <<c, q, w>> \in preatts'
      PROVE  st'[c].level = 1 /\ q <= st'[c].round /\ \E m \in hwm'[c]["Preattestation"] : q <= m
  <2>1. q \in Nat /\ st[c].round \in Nat /\ st'[c].round \in Nat
        /\ hwm[c]["Preattestation"] \in SUBSET Nat /\ hwm'[c]["Preattestation"] \in SUBSET Nat
    BY SMTT(30), <1>2, TenderbakeAssumption DEF NetInv, AutoStates, HwmType, Kinds
  <2>2. CASE <<c, q, w>> \in preatts
    <3>1. st[c].level = 1 /\ q <= st[c].round
      BY Zenon, <2>2 DEF NetInv
    <3>2. st'[c].level = 1 /\ q <= st'[c].round
      BY SMTT(30), <1>1, <1>2, <2>1, <3>1
    <3>3. PICK m \in hwm[c]["Preattestation"] : q <= m
      BY Zenon, <2>2 DEF NetInv
    <3>4. PICK k \in hwm'[c]["Preattestation"] : m <= k
      BY Zenon, <3>3
    <3>5. q <= k
      BY SMTT(30), <2>1, <3>3, <3>4
    <3>. QED
      BY Zenon, <3>2, <3>5
  <2>3. CASE c = b /\ q = n.round /\ q \in hwm'[b]["Preattestation"]
    BY SMTT(30), <1>2, <2>1, <2>3
  <2>. QED
    BY Zenon, <1>4, <2>2, <2>3
<1>5. ASSUME NEW c \in Honest
      PROVE  /\ \A d \in st'[c].elected : Reached(atts', d.round, d.payload)
             /\ st'[c].phase = "Awaiting_application" =>
                  Reached(atts', st'[c].proposal.round, st'[c].proposal.payload)
  <2>1. CASE c = b
    BY Zenon, <1>2, <2>1
  <2>2. CASE c # b
    BY ZenonT(30), <1>2, <2>2, ReachedMonotone DEF NetInv
  <2>. QED
    BY Zenon, <2>1, <2>2
<1>. QED
  BY ZenonT(30), <1>2, <1>3, <1>4, <1>5
     DEF NetInv, Reached, AutomatonOK, AutoStates, Blocks, HwmType, NetVotes

--------------------------------------------------------------------------------
(* The refinement, step by step.                                            *)

Locks == [b \in Honest |-> {<<l.round, l.payload>> : l \in st[b].locked}]

AbstractStep == [Abstract!Next]_(Abstract!vars)

LEMMA AbstractCardinality ==
  ASSUME NEW S
  PROVE  Abstract!Cardinality(S) = Cardinality(S) /\ (Abstract!IsFiniteSet(S) <=> IsFiniteSet(S))
BY Zenon DEF Abstract!Cardinality, Cardinality, Abstract!IsFiniteSet, IsFiniteSet

LEMMA AbstractQuorum ==
  ASSUME NEW S, NEW r, NEW v
  PROVE  Abstract!HasQuorum(S, r, v) <=> Reached(S, r, v)
BY Zenon, AbstractCardinality DEF Abstract!HasQuorum, Abstract!Backing, Reached

LEMMA LocksKept ==
  ASSUME st \in [Honest -> AutoStates], NEW b \in Honest, NEW n, st' = [st EXCEPT ![b] = n],
         n.locked = st[b].locked
  PROVE  Locks' = Locks
<1>1. \A c \in Honest : st'[c].locked = st[c].locked
  OBVIOUS
<1>. QED
  BY Zenon, <1>1 DEF Locks

\* A step that only moves the automaton of b, without a vote and without a lock.
LEMMA SilentStep ==
  ASSUME NetInv, NEW b \in Honest, NEW r, r.act \in {Do_nothing, Watch_prequorum, Watch_quorum},
         perform_action(b, r), AutomatonOK(r.st), r.st.level = 1, r.st.locked = st[b].locked,
         st[b].level = 1 => st[b].round <= r.st.round,
         \A d \in r.st.elected : Reached(atts, d.round, d.payload),
         r.st.phase = "Awaiting_application" =>
           Reached(atts, r.st.proposal.round, r.st.proposal.payload)
  PROVE  NetInv' /\ AbstractStep
<1>1. st' = [st EXCEPT ![b] = r.st] /\ hwm' = hwm /\ preatts' = preatts /\ atts' = atts
  BY SMTT(30), PerformSilent DEF NetInv
<1>2. Locks' = Locks
  BY Zenon, <1>1, LocksKept DEF NetInv
<1>3. AbstractStep
  BY Zenon, <1>1, <1>2 DEF AbstractStep, Abstract!vars, Locks
<1>4. hwm' \in HwmType /\ atts' \subseteq NetVotes /\ preatts' \subseteq NetVotes
  BY ZenonT(30), <1>1 DEF NetInv
<1>5. \A c \in Honest : \A m \in hwm[c]["Preattestation"] :
        \E k \in hwm'[c]["Preattestation"] : m <= k
  <2>1. \A c \in Honest : \A m \in hwm[c]["Preattestation"] : m \in Nat
    BY ZenonT(30) DEF NetInv, HwmType, Kinds
  <2>. QED
    BY SMTT(30), <1>1, <2>1
<1>6. NetInv'
  BY Zenon, <1>1, <1>4, <1>5, InvStep
<1>. QED
  BY Zenon, <1>3, <1>6

\* Votes are asked for: a preattestation, if the watermark allows it.
LEMMA PreattestStep ==
  ASSUME NetInv, NEW b \in Honest, NEW r, NEW p \in Blocks, ShowsPrequorum(p),
         r.act = [type |-> "Prepare_consensus_votes", vote |-> VoteFor(p)],
         perform_action(b, r), AutomatonOK(r.st), r.st.level = 1, r.st.locked = st[b].locked,
         r.st.proposal = p, r.st.phase = "Awaiting_preattestations", p.round = r.st.round,
         st[b].level = 1 => st[b].round <= r.st.round, Unlocks(r.st, p),
         \A d \in r.st.elected : Reached(atts, d.round, d.payload)
  PROVE  NetInv' /\ AbstractStep
<1> DEFINE v == VoteFor(p)
           pre == may_sign(b, Vote("Preattestation", v))
           n == IF may_sign(b, Vote("Attestation", v)) THEN [r.st EXCEPT !.early = @ \cup {v}]
                ELSE r.st
<1>1. /\ p.round \in Nat /\ p.round \in Rounds /\ p.payload \in Payloads
      /\ v.round = p.round /\ v.payload = p.payload
  BY Zenon, BlockFields DEF VoteFor
<1>2. /\ st' = [st EXCEPT ![b] = n]
      /\ preatts' = preatts \cup (IF pre THEN {<<b, p.round, p.payload>>} ELSE {})
      /\ atts' = atts /\ hwm' \in HwmType
      /\ \A c \in Honest : hwm'[c]["Preattestation"] =
           IF c = b /\ pre THEN {p.round} ELSE hwm[c]["Preattestation"]
  <2> HIDE DEF v
  <2>1. hwm \in HwmType /\ v = VoteFor(r.st.proposal) /\ v.round \in Nat
        /\ r.act = [type |-> "Prepare_consensus_votes", vote |-> v]
    BY Zenon, <1>1 DEF NetInv, v
  <2>. QED
    BY ZenonT(30), <1>1, <2>1, PerformVotes
<1>3. /\ n \in AutoStates /\ n.level = 1 /\ n.round = r.st.round /\ n.locked = st[b].locked
      /\ n.elected = r.st.elected /\ n.proposal = p /\ n.phase = "Awaiting_preattestations"
      /\ n.early \subseteq {v}
  <2>1. v \in {VoteFor(x) : x \in Blocks}
    BY Zenon
  <2> HIDE DEF v
  <2>2. r.st.early \subseteq {v} /\ r.st \in AutoStates
    BY Zenon DEF AutomatonOK, v
  <2>. QED
    BY Zenon, <2>1, <2>2 DEF AutoStates
<1> HIDE DEF n, v
<1>4. AutomatonOK(n)
  BY Zenon, <1>3 DEF AutomatonOK, v
<1>5. pre => \A m \in hwm[b]["Preattestation"] : m < p.round
  BY SMTT(30), <1>1, VoteFields DEF may_sign
<1>6. hwm[b]["Preattestation"] \in SUBSET Nat /\ hwm \in HwmType
  BY Zenon DEF NetInv, HwmType, Kinds
<1> HIDE DEF pre
<1>7. NetInv'
  <2>1. preatts' \subseteq NetVotes /\ atts' \subseteq NetVotes /\ atts \subseteq atts'
    BY SMTT(30), <1>1, <1>2 DEF NetInv, NetVotes
  <2>2. \A c \in Honest, q \in Rounds, w \in Payloads : <<c, q, w>> \in preatts' =>
          <<c, q, w>> \in preatts \/ (c = b /\ q = n.round /\ q \in hwm'[b]["Preattestation"])
    BY Zenon, <1>2, <1>3
  <2>3. \A c \in Honest : \A m \in hwm[c]["Preattestation"] :
           \E k \in hwm'[c]["Preattestation"] : m <= k
    <3>1. ASSUME NEW c \in Honest, NEW m \in hwm[c]["Preattestation"]
          PROVE  \E k \in hwm'[c]["Preattestation"] : m <= k
      <4>1. m \in Nat
        BY ZenonT(30) DEF NetInv, HwmType, Kinds
      <4>2. CASE c = b /\ pre
        <5>1. p.round \in hwm'[c]["Preattestation"] /\ m <= p.round
          BY SMTT(30), <1>1, <1>2, <1>5, <4>1, <4>2
        <5>. QED
          BY Zenon, <5>1
      <4>3. CASE ~(c = b /\ pre)
        <5>1. m \in hwm'[c]["Preattestation"] /\ m <= m
          BY SMTT(30), <1>2, <4>1, <4>3
        <5>. QED
          BY Zenon, <5>1
      <4>. QED
        BY Zenon, <4>2, <4>3
    <3>. QED
      BY Zenon, <3>1
  <2>4. st[b].level = 1 => st[b].round <= n.round
    BY ZenonT(30), <1>3
  <2>5. /\ \A d \in n.elected : Reached(atts', d.round, d.payload)
        /\ n.phase # "Awaiting_application"
    BY ZenonT(30), <1>2, <1>3
  <2>. QED
    BY ZenonT(30), <1>2, <1>3, <1>4, <2>1, <2>2, <2>3, <2>4, <2>5, InvStep
<1>8. Locks' = Locks
  BY ZenonT(30), <1>2, <1>3, LocksKept DEF NetInv
<1>9. CASE ~pre
  BY ZenonT(30), <1>2, <1>7, <1>8, <1>9 DEF AbstractStep, Abstract!vars, Locks
<1>10. CASE pre
  <2>1. \A q \in Rounds, w \in Payloads : <<b, q, w>> \in preatts => q < p.round
    <3>1. ASSUME NEW q \in Rounds, NEW w \in Payloads, <<b, q, w>> \in preatts
          PROVE  q < p.round
      <4>1. PICK m \in hwm[b]["Preattestation"] : q <= m
        BY Zenon, <3>1 DEF NetInv
      <4>2. m < p.round /\ m \in Nat /\ q \in Nat
        BY ZenonT(30), <1>5, <1>6, <1>10, TenderbakeAssumption
      <4>. QED
        BY SMTT(30), <1>1, <4>1, <4>2
    <3>. QED
      BY ZenonT(30), <3>1
  <2>2. ASSUME NEW q \in Rounds, NEW w \in Payloads, <<q, w>> \in Locks[b]
        PROVE  /\ q <= p.round
               /\ w = p.payload \/ \E k \in Rounds : q < k /\ k < p.round
                                       /\ Reached(preatts, k, p.payload)
    <3>1. PICK l \in st[b].locked : l.round = q /\ l.payload = w
      BY Zenon, <2>2 DEF Locks
    <3>2. q <= p.round
      BY Zenon, <3>1 DEF AutomatonOK
    <3>3. l.payload = p.payload \/ \E k \in p.prequorum : l.round < k
      BY Zenon, <3>1 DEF Unlocks
    <3>4. p.prequorum \in SUBSET Rounds
      BY Zenon, BlockFields
    <3>. QED
      BY Zenon, <3>1, <3>2, <3>3, <3>4 DEF ShowsPrequorum
  <2>3. Abstract!MayPreattest(b, p.round, p.payload)
    BY Zenon, <2>1, <2>2, AbstractQuorum DEF Abstract!MayPreattest, Abstract!Prequorum, Locks
  <2>4. Abstract!Preattest(b, p.round, p.payload)
    BY ZenonT(30), <1>2, <1>8, <1>10, <2>3 DEF Abstract!Preattest, Locks
  <2>5. Abstract!Next
    BY Zenon, <1>1, <2>4 DEF Abstract!Next, Abstract!Honest, Honest
  <2>. QED
    BY Zenon, <1>7, <2>5 DEF AbstractStep
<1>. QED
  BY Zenon, <1>7, <1>9, <1>10

\* A valid proposal handled in state s, which is the state of b or the first state
\* of b at the level of the block.
LEMMA HandledStep ==
  ASSUME NetInv, NEW b \in Honest, NEW s, AutomatonOK(s), s.level = 1, NEW p \in Blocks,
         p.round <= s.round, ShowsPrequorum(p), s.locked = st[b].locked,
         st[b].level = 1 => st[b].round <= s.round,
         \A d \in s.elected : Reached(atts, d.round, d.payload),
         s.phase = "Awaiting_application" => Reached(atts, s.proposal.round, s.proposal.payload),
         perform_action(b, handle_proposal(s, p, FALSE))
  PROVE  NetInv' /\ AbstractStep
<1> DEFINE r == handle_proposal(s, p, FALSE)
<1>1. /\ AutomatonOK(r.st) /\ r.st.level = 1 /\ r.st.round = s.round
      /\ r.st.locked = s.locked /\ r.st.elected = s.elected
      /\ r.st.phase = "Awaiting_application" =>
           s.phase = "Awaiting_application" /\ r.st.proposal = s.proposal
      /\ \/ r.act \in {Do_nothing, Watch_prequorum}
         \/ /\ r.act = [type |-> "Prepare_consensus_votes", vote |-> VoteFor(p)]
            /\ r.st.proposal = p /\ r.st.phase = "Awaiting_preattestations"
            /\ p.round = s.round /\ Unlocks(s, p)
  BY Zenon, HandleProposal
<1>2. perform_action(b, r)
  BY ZenonT(30)
<1> HIDE DEF r
<1>3. CASE r.act \in {Do_nothing, Watch_prequorum}
  <2>1. r.act \in {Do_nothing, Watch_prequorum, Watch_quorum}
    BY Zenon, <1>3
  <2>2. r.st.locked = st[b].locked /\ (st[b].level = 1 => st[b].round <= r.st.round)
    BY Zenon, <1>1
  <2>. QED
    BY SMTT(30), <1>1, <1>2, <2>1, <2>2, SilentStep
<1>4. CASE /\ r.act = [type |-> "Prepare_consensus_votes", vote |-> VoteFor(p)]
           /\ r.st.proposal = p /\ r.st.phase = "Awaiting_preattestations"
           /\ p.round = s.round /\ Unlocks(s, p)
  <2>1. Unlocks(r.st, p)
    BY Zenon, <1>1, <1>4 DEF Unlocks
  <2>2. /\ r.st.locked = st[b].locked /\ (st[b].level = 1 => st[b].round <= r.st.round)
        /\ p.round = r.st.round /\ \A d \in r.st.elected : Reached(atts, d.round, d.payload)
    BY Zenon, <1>1, <1>4
  <2>. QED
    BY ZenonT(30), <1>1, <1>2, <1>4, <2>1, <2>2, PreattestStep
<1>. QED
  BY Zenon, <1>1, <1>3, <1>4

LEMMA FirstState ==
  ASSUME NEW p \in Blocks, NEW round \in Rounds, p.round <= round
  PROVE  LET s == LevelState(p, FALSE, round)
         IN  AutomatonOK(s) /\ s.level = 1 /\ s.round = round /\ s.locked = {} /\ s.elected = {}
             /\ s.phase = "Idle"
<1> DEFINE s == LevelState(p, FALSE, round)
<1>1. p.level = 1 /\ round \in Nat
  BY Zenon, BlockFields, TenderbakeAssumption
<1>2. /\ s \in AutoStates /\ s.level = 1 /\ s.proposal = p /\ s.round = round
      /\ s.locked = {} /\ s.elected = {} /\ s.phase = "Idle" /\ s.early = {}
  BY Zenon, <1>1 DEF LevelState, AutoStates, Phases
<1> HIDE DEF s
<1>3. AutomatonOK(s)
  BY Zenon, <1>2 DEF AutomatonOK
<1>. QED
  BY Zenon, <1>2, <1>3 DEF s

LEMMA ProposalStep ==
  ASSUME NetInv, NEW b \in Honest, NEW p \in Blocks, NEW round \in Rounds,
         NewValidProposal(b, p, round)
  PROVE  NetInv' /\ AbstractStep
<1>1. /\ p.level = 1 /\ p.round <= round /\ (st[b].level = 1 => round = st[b].round)
      /\ ShowsPrequorum(p) /\ perform_action(b, Continue(New_valid_proposal(st[b], p), round))
  BY Zenon, BlockFields DEF NewValidProposal
<1>2. /\ AutomatonOK(st[b]) /\ \A d \in st[b].elected : Reached(atts, d.round, d.payload)
      /\ st[b].phase = "Awaiting_application" =>
           Reached(atts, st[b].proposal.round, st[b].proposal.payload)
      /\ st[b].level \in {0, 1} /\ st[b].round \in Nat
  BY Zenon DEF NetInv, AutomatonOK, AutoStates
<1>3. New_valid_proposal(st[b], p) = handle_proposal(st[b], p, FALSE)
  <2>1. New_valid_proposal(st[b], p) # do_nothing(st[b])
    BY Zenon DEF NewValidProposal
  <2>. QED
    BY Zenon, <2>1 DEF New_valid_proposal
<1>4. CASE st[b].level = 0
  <2> DEFINE r == Return(st[b], [type |-> "Update_to_level", proposal |-> p, applied |-> FALSE])
             s == LevelState(p, FALSE, round)
  <2>1. handle_proposal(st[b], p, FALSE) = r
    BY <1>1, <1>4 DEF handle_proposal
  <2>2. Continue(r, round) = handle_proposal(s, p, FALSE)
    BY Zenon DEF Continue, Return, compute_new_state
  <2>3. perform_action(b, handle_proposal(s, p, FALSE))
    BY Zenon, <1>1, <1>3, <2>1, <2>2
  <2>4. /\ AutomatonOK(s) /\ s.level = 1 /\ s.round = round /\ s.locked = {} /\ s.elected = {}
        /\ s.phase = "Idle"
    BY Zenon, <1>1, FirstState
  <2>5. st[b].locked = {}
    BY ZenonT(30), <1>2, <1>4 DEF AutomatonOK
  <2> HIDE DEF s
  <2>6. /\ p.round <= s.round /\ s.locked = st[b].locked
        /\ st[b].level = 1 => st[b].round <= s.round
        /\ \A d \in s.elected : Reached(atts, d.round, d.payload)
        /\ s.phase = "Awaiting_application" =>
             Reached(atts, s.proposal.round, s.proposal.payload)
    BY SMTT(30), <1>1, <1>4, <2>4, <2>5
  <2>. QED
    BY ZenonT(30), <1>1, <2>3, <2>4, <2>6, HandledStep
<1>5. CASE st[b].level = 1
  <2>1. p.round <= st[b].round
    BY Zenon, <1>1, <1>5
  <2>2. SUFFICES ASSUME NEW s, s = st[b]
                 PROVE  NetInv' /\ AbstractStep
    BY Zenon
  <2> DEFINE r == handle_proposal(s, p, FALSE)
  <2>3. /\ AutomatonOK(s) /\ s.level = 1 /\ p.round <= s.round /\ s.locked = st[b].locked
        /\ st[b].level = 1 => st[b].round <= s.round
        /\ \A d \in s.elected : Reached(atts, d.round, d.payload)
        /\ s.phase = "Awaiting_application" =>
             Reached(atts, s.proposal.round, s.proposal.payload)
    BY SMTT(30), <1>2, <1>5, <2>1, <2>2
  <2>4. /\ AutomatonOK(r.st) /\ r.st.level = 1 /\ r.st.round = s.round
        /\ r.st.locked = s.locked /\ r.st.elected = s.elected
        /\ r.st.phase = "Awaiting_application" =>
             s.phase = "Awaiting_application" /\ r.st.proposal = s.proposal
        /\ \/ r.act \in {Do_nothing, Watch_prequorum}
           \/ /\ r.act = [type |-> "Prepare_consensus_votes", vote |-> VoteFor(p)]
              /\ r.st.proposal = p /\ r.st.phase = "Awaiting_preattestations"
              /\ p.round = s.round /\ Unlocks(s, p)
    BY Zenon, <2>3, HandleProposal
  <2>5. perform_action(b, r)
    <3> HIDE DEF r
    <3>1. r.act.type # "Update_to_level"
      BY <2>4 DEF Do_nothing, Watch_prequorum
    <3>2. New_valid_proposal(st[b], p) = r
      BY ZenonT(30), <1>3, <2>2 DEF r
    <3>. QED
      BY ZenonT(30), <1>1, <3>1, <3>2 DEF Continue
  <2>. QED
    BY ZenonT(30), <1>1, <2>3, <2>5, HandledStep
<1>. QED
  BY ZenonT(30), <1>2, <1>4, <1>5

LEMMA HeadStep ==
  ASSUME NetInv, NEW b \in Honest, NewHeadProposal(b)
  PROVE  NetInv' /\ AbstractStep
<1> DEFINE s == st[b]
           r == New_head_proposal(s, s.proposal)
<1>1. /\ AutomatonOK(s) /\ \A d \in s.elected : Reached(atts, d.round, d.payload)
      /\ Reached(atts, s.proposal.round, s.proposal.payload)
      /\ s.phase = "Awaiting_application" /\ s.round \in Nat
  BY Zenon DEF NetInv, AutomatonOK, AutoStates, NewHeadProposal
<1>2. /\ AutomatonOK(r.st) /\ r.st.level = 1 /\ r.st.round = s.round /\ r.st.locked = s.locked
      /\ r.st.elected \subseteq s.elected \cup {s.proposal} /\ r.st.proposal = s.proposal
      /\ r.act = Do_nothing
  BY Zenon, <1>1, HeadHandled
<1>3. perform_action(b, r)
  BY Zenon DEF NewHeadProposal
<1> HIDE DEF r
<1>4. /\ r.act \in {Do_nothing, Watch_prequorum, Watch_quorum}
      /\ \A d \in r.st.elected : Reached(atts, d.round, d.payload)
      /\ Reached(atts, r.st.proposal.round, r.st.proposal.payload)
      /\ s.round <= r.st.round
  BY SMTT(30), <1>1, <1>2
<1>. QED
  BY SMTT(30), <1>2, <1>3, <1>4, SilentStep

LEMMA QuorumStep ==
  ASSUME NetInv, NEW b \in Honest, QuorumReached(b)
  PROVE  NetInv' /\ AbstractStep
<1> DEFINE s == st[b]
           r == Quorum_reached(s, s.proposal)
<1>1. /\ AutomatonOK(s) /\ s.elected = {} /\ Reached(atts, s.proposal.round, s.proposal.payload)
      /\ s.phase = "Awaiting_attestations" /\ s.round \in Nat
  BY Zenon DEF NetInv, AutomatonOK, AutoStates, QuorumReached
<1>2. /\ AutomatonOK(r.st) /\ r.st.level = 1 /\ r.st.round = s.round /\ r.st.locked = s.locked
      /\ r.st.elected \subseteq {s.proposal} /\ r.st.proposal = s.proposal
      /\ r.act = Do_nothing
  BY Zenon, <1>1, QuorumHandled
<1>3. perform_action(b, r)
  BY Zenon DEF QuorumReached
<1> HIDE DEF r
<1>4. /\ r.act \in {Do_nothing, Watch_prequorum, Watch_quorum}
      /\ \A d \in r.st.elected : Reached(atts, d.round, d.payload)
      /\ Reached(atts, r.st.proposal.round, r.st.proposal.payload)
      /\ s.round <= r.st.round
  BY SMTT(30), <1>1, <1>2
<1>. QED
  BY SMTT(30), <1>2, <1>3, <1>4, SilentStep

LEMMA RoundStep ==
  ASSUME NetInv, NEW b \in Honest, EndOfRound(b)
  PROVE  NetInv' /\ AbstractStep
<1> DEFINE s == st[b]
           r == end_of_round(s, s.round, FALSE)
<1>1. /\ AutomatonOK(s) /\ \A d \in s.elected : Reached(atts, d.round, d.payload)
      /\ s.level = 1 /\ s.round \in Nat
  BY Zenon DEF NetInv, AutomatonOK, AutoStates, EndOfRound
<1>2. /\ AutomatonOK(r.st) /\ r.st.level = 1 /\ r.st.round = s.round + 1 /\ r.st.locked = s.locked
      /\ r.st.elected = s.elected /\ r.st.phase = "Idle" /\ r.act = Do_nothing
  BY Zenon, <1>1, RoundEnded
<1>3. perform_action(b, r)
  BY Zenon DEF EndOfRound
<1> HIDE DEF r
<1>4. /\ r.act \in {Do_nothing, Watch_prequorum, Watch_quorum}
      /\ \A d \in r.st.elected : Reached(atts, d.round, d.payload)
      /\ s.round <= r.st.round /\ r.st.phase # "Awaiting_application"
  BY <1>1, <1>2
<1>. QED
  BY SMTT(30), <1>2, <1>3, <1>4, SilentStep

LEMMA LockStep ==
  ASSUME NetInv, NEW b \in Honest, PrequorumReached(b)
  PROVE  NetInv' /\ AbstractStep
<1> SUFFICES ASSUME NEW p, p = st[b].proposal
             PROVE  NetInv' /\ AbstractStep
  BY Zenon
<1> DEFINE s == st[b]
           r == Prequorum_reached(s, s.proposal)
           n == r.st
<1>1. /\ AutomatonOK(s) /\ \A d \in s.elected : Reached(atts, d.round, d.payload)
      /\ Reached(preatts, p.round, p.payload)
      /\ s.phase = "Awaiting_preattestations" /\ s.round \in Nat
  BY Zenon DEF NetInv, AutomatonOK, AutoStates, PrequorumReached
<1>2. s.level = 1 /\ p \in Blocks /\ p.round = s.round
  BY Zenon, <1>1 DEF AutomatonOK
<1>3. p.round \in Rounds /\ p.round \in Nat /\ p.payload \in Payloads
  BY Zenon, <1>2, BlockFields
<1>4. /\ AutomatonOK(n) /\ n.level = 1 /\ n.round = s.round
      /\ n.locked = {[round |-> p.round, payload |-> p.payload]}
      /\ n.elected = s.elected /\ n.proposal = p
      /\ n.phase = "Awaiting_attestations"
      /\ \/ r.act = Watch_quorum
         \/ r.act = [type |-> "Inject_attestations", votes |-> {VoteFor(p)}]
         \/ r.act = [type |-> "Prepare_attestations", vote |-> VoteFor(p)]
  BY Zenon, <1>1, PrequorumHandled
<1>5. perform_action(b, r)
  BY Zenon DEF PrequorumReached
<1>6. VoteFor(p).round = p.round /\ VoteFor(p).payload = p.payload
  BY Zenon DEF VoteFor
<1>7. hwm \in HwmType /\ \A c \in Honest : hwm[c]["Preattestation"] \in SUBSET Nat
  BY Zenon DEF NetInv, HwmType, Kinds
<1> HIDE DEF r
<1>8. /\ st' = [st EXCEPT ![b] = n] /\ preatts' = preatts /\ hwm' \in HwmType
      /\ atts' = atts \/ atts' = atts \cup {<<b, p.round, p.payload>>}
      /\ \A c \in Honest : hwm'[c]["Preattestation"] = hwm[c]["Preattestation"]
  <2>1. CASE r.act = Watch_quorum
    <3>1. r.act \in {Do_nothing, Watch_prequorum, Watch_quorum}
      BY Zenon, <2>1
    <3>. QED
      BY <1>5, <1>7, <3>1, PerformSilent
  <2>2. CASE r.act = [type |-> "Inject_attestations", votes |-> {VoteFor(p)}]
    BY SMTT(30), <1>5, <1>6, <1>7, <2>2, PerformInject
  <2>3. CASE r.act = [type |-> "Prepare_attestations", vote |-> VoteFor(p)]
    <3>1. VoteFor(p) = VoteFor(r.st.proposal) /\ VoteFor(p).round \in Nat
      BY Zenon, <1>3, <1>4, <1>6
    <3>2. atts' \in {atts, atts \cup {<<b, VoteFor(p).round, VoteFor(p).payload>>}}
          /\ st' = [st EXCEPT ![b] = r.st] /\ preatts' = preatts /\ hwm' \in HwmType
          /\ \A c \in Honest : hwm'[c]["Preattestation"] = hwm[c]["Preattestation"]
      BY ZenonT(30), <1>4, <1>5, <1>7, <2>3, <3>1, PerformAttestation
    <3>. QED
      BY Zenon, <1>6, <3>2
  <2>. QED
    BY ZenonT(30), <1>4, <2>1, <2>2, <2>3
<1>9. NetInv'
  <2>1. /\ preatts' \subseteq NetVotes /\ atts' \subseteq NetVotes /\ atts \subseteq atts'
        /\ atts \in SUBSET NetVotes
    BY SMTT(30), <1>3, <1>8 DEF NetInv, NetVotes
  <2>2. \A c \in Honest, q \in Rounds, w \in Payloads : <<c, q, w>> \in preatts' =>
          <<c, q, w>> \in preatts \/ (c = b /\ q = n.round /\ q \in hwm'[b]["Preattestation"])
    BY Zenon, <1>8
  <2>3. \A c \in Honest : \A m \in hwm[c]["Preattestation"] :
           \E k \in hwm'[c]["Preattestation"] : m <= k
    BY SMTT(30), <1>7, <1>8
  <2>4. st[b].level = 1 => st[b].round <= n.round
    BY SMTT(30), <1>1, <1>4
  <2>5. \A d \in n.elected : Reached(atts', d.round, d.payload)
    <3>1. SUFFICES ASSUME NEW d \in n.elected
                   PROVE  Reached(atts', d.round, d.payload)
      BY Zenon
    <3>2. d \in Blocks /\ d.round \in Rounds /\ d.payload \in Payloads
      BY Zenon, <1>4, BlockFields DEF AutomatonOK, AutoStates
    <3>. QED
      BY ZenonT(30), <1>1, <1>4, <2>1, <3>2, ReachedMonotone
  <2>. QED
    BY ZenonT(30), <1>4, <1>8, <2>1, <2>2, <2>3, <2>4, <2>5, InvStep
<1>10. Locks' = [Locks EXCEPT ![b] = {<<p.round, p.payload>>}]
  <2>1. /\ \A c \in Honest : c # b => st'[c] = st[c]
        /\ st'[b].locked = {[round |-> p.round, payload |-> p.payload]}
    BY Zenon, <1>4, <1>8 DEF NetInv
  <2>2. {<<l.round, l.payload>> : l \in st'[b].locked} = {<<p.round, p.payload>>}
    BY SMTT(30), <2>1
  <2>. QED
    BY Zenon, <2>1, <2>2 DEF Locks
<1>11. Abstract!MayLock(b, p.round, p.payload)
  <2>1. \A q \in Rounds, w \in Payloads : <<b, q, w>> \in preatts => q <= p.round
    BY Zenon, <1>2 DEF NetInv
  <2>2. \A q \in Rounds, w \in Payloads : <<q, w>> \in Locks[b] => q <= p.round
    <3>1. ASSUME NEW q \in Rounds, NEW w \in Payloads, <<q, w>> \in Locks[b]
          PROVE  q <= p.round
      <4>1. PICK l \in st[b].locked : l.round = q /\ l.payload = w
        BY Zenon, <3>1 DEF Locks
      <4>. QED
        BY Zenon, <1>1, <1>2, <4>1 DEF AutomatonOK
    <3>. QED
      BY Zenon, <3>1
  <2>. QED
    BY ZenonT(30), <1>1, <2>1, <2>2, AbstractQuorum DEF Abstract!MayLock, Abstract!Prequorum, Locks
<1>12. Abstract!Lock(b, p.round, p.payload)
  BY Zenon, <1>8, <1>10, <1>11 DEF Abstract!Lock, Locks
<1>13. Abstract!Next
  BY Zenon, <1>3, <1>12 DEF Abstract!Next, Abstract!Honest, Honest
<1>. QED
  BY Zenon, <1>9, <1>13 DEF AbstractStep

--------------------------------------------------------------------------------
LEMMA NetStep ==
  ASSUME NetInv, Next
  PROVE  NetInv' /\ AbstractStep
<1>1. ASSUME NEW b \in Honest, NEW o \in Offers, NEW round \in Rounds,
             NewValidProposal(b, Block(o[1], o[2], o[3]), round)
      PROVE  NetInv' /\ AbstractStep
  <2>1. Block(o[1], o[2], o[3]) \in Blocks
    BY Zenon DEF Blocks
  <2>. QED
    BY Zenon, <1>1, <2>1, ProposalStep
<1>2. ASSUME NEW b \in Honest, NewHeadProposal(b) PROVE NetInv' /\ AbstractStep
  BY Zenon, <1>2, HeadStep
<1>3. ASSUME NEW b \in Honest, PrequorumReached(b) PROVE NetInv' /\ AbstractStep
  BY ZenonT(30), <1>3, LockStep
<1>4. ASSUME NEW b \in Honest, QuorumReached(b) PROVE NetInv' /\ AbstractStep
  BY Zenon, <1>4, QuorumStep
<1>5. ASSUME NEW b \in Honest, EndOfRound(b) PROVE NetInv' /\ AbstractStep
  BY Zenon, <1>5, RoundStep
<1>. QED
  BY Zenon, <1>1, <1>2, <1>3, <1>4, <1>5 DEF Next

LEMMA NetStutter ==
  ASSUME NetInv, UNCHANGED vars
  PROVE  NetInv' /\ AbstractStep
<1>1. NetInv'
  BY Zenon DEF NetInv, vars, Reached
<1>2. AbstractStep
  BY Zenon DEF AbstractStep, Abstract!vars, vars
<1>. QED
  BY Zenon, <1>1, <1>2

LEMMA NetInit == Init => NetInv /\ Abstract!Init
<1> SUFFICES ASSUME Init PROVE NetInv /\ Abstract!Init
  OBVIOUS
<1> DEFINE g == LevelState(Genesis, TRUE, 0)
<1>1. /\ g \in AutoStates /\ g.level = 0 /\ g.locked = {} /\ g.elected = {} /\ g.phase = "Idle"
      /\ g.early = {} /\ g.round = 0
  BY Zenon DEF LevelState, Genesis, AutoStates, Phases
<1>2. st = [b \in Honest |-> g] /\ preatts = {} /\ atts = {}
  BY Zenon DEF Init
<1> HIDE DEF g
<1>3. AutomatonOK(g)
  BY <1>1 DEF AutomatonOK
<1>4. hwm \in HwmType
  BY Zenon DEF Init, HwmType
<1>5. NetInv
  BY ZenonT(30), <1>1, <1>2, <1>3, <1>4 DEF NetInv
<1>6. Locks = [b \in Honest |-> {}]
  BY Zenon, <1>1, <1>2 DEF Locks
<1>7. Abstract!Init
  BY Zenon, <1>2, <1>6 DEF Abstract!Init, Abstract!Honest, Honest, Locks
<1>. QED
  BY Zenon, <1>5, <1>7

\* The automata of the bakers, their watermarks and the votes sent stay together
\* as NetInv says, whatever the committee and the schedule.
THEOREM NetInvariant == Spec => []NetInv
<1>1. Init => NetInv
  BY Zenon, NetInit
<1>2. NetInv /\ [Next]_vars => NetInv'
  BY Zenon, NetStep, NetStutter
<1>. QED
  BY <1>1, <1>2, PTL DEF Spec

\* Every behaviour of the bakers that run state_transitions.ml is, in its votes
\* and locks, a behaviour of Tenderbake.
THEOREM NetImplementsTenderbake == Spec => ImplementsTenderbake
<1>1. Init => Abstract!Init
  BY Zenon, NetInit
<1>2. NetInv /\ [Next]_vars => [Abstract!Next]_(Abstract!vars)
  BY ZenonT(30), NetStep, NetStutter DEF AbstractStep
<1>. QED
  BY <1>1, <1>2, NetInvariant, PTL DEF Spec, ImplementsTenderbake, Abstract!Spec

--------------------------------------------------------------------------------
(* Agreement of Tenderbake, carried over to the automata.                   *)

TP == INSTANCE TenderbakeProofs WITH
  locked <- [b \in Honest |-> {<<l.round, l.payload>> : l \in st[b].locked}]

LEMMA InstanceCardinality ==
  ASSUME NEW S
  PROVE  TP!Cardinality(S) = Cardinality(S) /\ (TP!IsFiniteSet(S) <=> IsFiniteSet(S))
BY Zenon DEF TP!Cardinality, Cardinality, TP!IsFiniteSet, IsFiniteSet

LEMMA InstanceQuorum ==
  ASSUME NEW S, NEW r, NEW v
  PROVE  TP!HasQuorum(S, r, v) <=> Reached(S, r, v)
BY Zenon, InstanceCardinality DEF TP!HasQuorum, TP!Backing, Reached

LEMMA InstanceAssumption == TP!TenderbakeAssumption
BY SMTT(30), TenderbakeAssumption, InstanceCardinality
   DEF TP!TenderbakeAssumption, TP!FaultySlots, FaultySlots

LEMMA InstanceStep == Abstract!Next => TP!Next
<1>1. ASSUME NEW b \in Honest, NEW r \in Rounds, NEW v \in Payloads, Abstract!Preattest(b, r, v)
      PROVE  TP!Preattest(b, r, v)
  <2>1. Abstract!MayPreattest(b, r, v) => TP!MayPreattest(b, r, v)
    BY ZenonT(30), InstanceQuorum, AbstractQuorum DEF Abstract!MayPreattest, TP!MayPreattest,
       Abstract!Prequorum, TP!Prequorum
  <2>. QED
    BY ZenonT(30), <1>1, <2>1 DEF Abstract!Preattest, TP!Preattest
<1>2. ASSUME NEW b \in Honest, NEW r \in Rounds, NEW v \in Payloads, Abstract!Lock(b, r, v)
      PROVE  TP!Lock(b, r, v)
  <2>1. Abstract!MayLock(b, r, v) => TP!MayLock(b, r, v)
    BY ZenonT(30), InstanceQuorum, AbstractQuorum DEF Abstract!MayLock, TP!MayLock,
       Abstract!Prequorum, TP!Prequorum
  <2>. QED
    BY ZenonT(30), <1>2, <2>1 DEF Abstract!Lock, TP!Lock
<1>3. ASSUME NEW b \in Honest, NEW r \in Rounds, NEW v \in Payloads, Abstract!Attest(b, r, v)
      PROVE  TP!Attest(b, r, v)
  BY ZenonT(30), <1>3 DEF Abstract!Attest, TP!Attest
<1>. QED
  BY ZenonT(30), <1>1, <1>2, <1>3 DEF Abstract!Next, TP!Next, Abstract!Honest, TP!Honest, Honest

\* Of the bakers that run state_transitions.ml: all the quorums of a level are for
\* one payload, and once there is one no later round has a prequorum on another.
THEOREM NetAgrees == Spec => [](Agreement /\ QuorumIsFinal)
<1>1. TP!Spec => [](TP!Agreement /\ TP!QuorumIsFinal)
  <2>1. TP!Spec => []TP!Agreement
    BY ZenonT(30), TP!AgreementHolds, InstanceAssumption
  <2>2. TP!Spec => [](TP!OnePrequorum /\ TP!QuorumIsFinal)
    BY ZenonT(30), TP!Finality, InstanceAssumption
  <2>. QED
    BY <2>1, <2>2, PTL
<1>2. Abstract!Init => TP!Init
  BY ZenonT(30) DEF Abstract!Init, TP!Init, Abstract!Honest, TP!Honest
<1>3. [Abstract!Next]_(Abstract!vars) => [TP!Next]_(TP!vars)
  BY ZenonT(30), InstanceStep DEF Abstract!vars, TP!vars
<1>4. TP!Agreement /\ TP!QuorumIsFinal => Agreement /\ QuorumIsFinal
  <2>1. \A S : \A x \in Quorums(S) :
          /\ x[1] \in Rounds /\ x[2] \in Payloads /\ TP!HasQuorum(S, x[1], x[2])
    BY ZenonT(30), InstanceQuorum DEF Quorums
  <2>2. TP!Agreement => Agreement
    <3>1. SUFFICES ASSUME TP!Agreement, NEW x \in Quorums(atts), NEW y \in Quorums(atts)
                   PROVE  x[2] = y[2]
      BY Zenon DEF Agreement
    <3>2. TP!Quorum(x[1], x[2]) /\ TP!Quorum(y[1], y[2])
      BY Zenon, <2>1 DEF TP!Quorum
    <3>3. x[1] \in Rounds /\ x[2] \in Payloads /\ y[1] \in Rounds /\ y[2] \in Payloads
      BY Zenon, <2>1
    <3>. QED
      BY Zenon, <3>1, <3>2, <3>3 DEF TP!Agreement
  <2>3. TP!QuorumIsFinal => QuorumIsFinal
    <3>1. SUFFICES ASSUME TP!QuorumIsFinal, NEW x \in Quorums(atts), NEW y \in Quorums(preatts),
                          x[1] <= y[1]
                   PROVE  x[2] = y[2]
      BY Zenon DEF QuorumIsFinal
    <3>2. TP!Quorum(x[1], x[2]) /\ TP!Prequorum(y[1], y[2])
      BY Zenon, <2>1 DEF TP!Quorum, TP!Prequorum
    <3>3. x[1] \in Rounds /\ x[2] \in Payloads /\ y[1] \in Rounds /\ y[2] \in Payloads
      BY Zenon, <2>1
    <3>. QED
      BY Zenon, <3>1, <3>2, <3>3 DEF TP!QuorumIsFinal
  <2>. QED
    BY Zenon, <2>2, <2>3
<1>. QED
  BY <1>1, <1>2, <1>3, <1>4, NetImplementsTenderbake, PTL
     DEF ImplementsTenderbake, Abstract!Spec, TP!Spec

\* Bakers that run state_transitions.ml never elect blocks with two contents at one
\* level: agreement, carried over to what the automata keep.
THEOREM ElectedBlocksAgree == Spec => []ElectedAgree
<1>1. NetInv /\ Agreement => ElectedAgree
  <2> SUFFICES ASSUME NetInv, Agreement, NEW b \in Honest, NEW c \in Honest,
                      NEW d \in st[b].elected, NEW e \in st[c].elected
               PROVE  d.payload = e.payload
    BY ZenonT(30) DEF ElectedAgree
  <2>1. d \in Blocks /\ e \in Blocks
    BY Zenon DEF NetInv, AutoStates
  <2>2. d.round \in Rounds /\ e.round \in Rounds /\ d.payload \in Payloads /\ e.payload \in Payloads
    BY ZenonT(30), <2>1, BlockFields
  <2>3. Reached(atts, d.round, d.payload) /\ Reached(atts, e.round, e.payload)
    BY ZenonT(30) DEF NetInv
  <2>4. <<d.round, d.payload>> \in Quorums(atts) /\ <<e.round, e.payload>> \in Quorums(atts)
    BY SMTT(10), <2>2, <2>3 DEF Quorums
  <2>. QED
    BY SMTT(10), <2>4 DEF Agreement
<1>. QED
  BY <1>1, NetInvariant, NetAgrees, PTL

================================================================================
