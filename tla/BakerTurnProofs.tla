---------------------------- MODULE BakerTurnProofs ----------------------------
(******************************************************************************)
(* What one turn of the loop keeps: a step Turned(n, act) of BakerInvariants - *)
(* whatever event it takes - leads to a state that is sound and told of its    *)
(* quorums, and that the votes on their way and the votes sent still follow.   *)
(******************************************************************************)
EXTENDS BakerInvariants, TLAPS

--------------------------------------------------------------------------------
(* Proposals and queues: as in BakerProofs, of which nothing else is needed.  *)

LEMMA FieldsOfProposal ==
  ASSUME NEW p \in Proposals
  PROVE  /\ p.level \in Nat /\ p.round \in Nat /\ p.payload \in Payloads /\ p.pred \in Preds
         /\ p.prequorum \in SUBSET Nat /\ \A q \in p.prequorum : q < p.round
         /\ \A q, r \in p.prequorum : q = r
BY Zenon, ProposalsAssumption DEF Payloads, Preds

LEMMA EntriesOfTail ==
  ASSUME NEW T, NEW q \in Seq(T), q # <<>>
  PROVE  /\ Tail(q) \in Seq(T) /\ Head(q) \in T
         /\ Entries(Tail(q)) \subseteq Entries(q) /\ Head(q) \in Entries(q)
<1>1. /\ Tail(q) \in Seq(T) /\ Head(q) \in T /\ Head(q) = q[1] /\ 1 \in DOMAIN q
      /\ \A i \in DOMAIN Tail(q) : i + 1 \in DOMAIN q /\ Tail(q)[i] = q[i + 1]
  OBVIOUS
<1>. QED
  BY <1>1 DEF Entries

LEMMA EntriesOfAppend ==
  ASSUME NEW T, NEW q \in Seq(T), NEW e \in T
  PROVE  Append(q, e) \in Seq(T) /\ Entries(Append(q, e)) = Entries(q) \cup {e}
<1>1. /\ Append(q, e) \in Seq(T) /\ DOMAIN q = 1 .. Len(q) /\ Len(q) \in Nat
      /\ DOMAIN Append(q, e) = 1 .. (Len(q) + 1) /\ Append(q, e)[Len(q) + 1] = e
      /\ \A i \in DOMAIN q : Append(q, e)[i] = q[i]
  OBVIOUS
<1>. QED
  BY <1>1 DEF Entries

--------------------------------------------------------------------------------
(* Rounds and quorums.                                                       *)

LEMMA StaysSound ==
  ASSUME NEW s \in AutoStates, Sound(s), NEW n, Stays(s, n)
  PROVE  n \in AutoStates /\ Sound(n) /\ SameWait(s, n)
<1>1. /\ n \in AutoStates /\ SameWait(s, n) /\ n.round = s.round
      /\ s.phase = "Awaiting_application" => n.delayed = s.delayed /\ n.applied = s.applied
  BY Zenon DEF Stays, InLevel, SameWait
<1>2. /\ n.level = n.proposal.level /\ n.proposal.round <= n.round
      /\ n.phase # "Idle" => n.proposal.round = n.round
  BY Zenon, <1>1 DEF Sound, SameWait
<1>3. n.phase = "Awaiting_application" => n.delayed /\ n.elected = {} /\ ~n.applied
  BY ZenonT(30), <1>1 DEF Sound, SameWait
<1>. QED
  BY Zenon, <1>1, <1>2, <1>3 DEF Sound

LEMMA FollowsSound ==
  ASSUME NEW s \in AutoStates, Sound(s), NEW n, Follows(s, n),
         \/ n.phase = "Idle"
         \/ n.phase = "Awaiting_preattestations" /\ n.proposal.round = s.round
  PROVE  n \in AutoStates /\ Sound(n) /\ n.level = s.level
<1>1. /\ n \in AutoStates /\ n.level = s.level /\ n.round = s.round /\ n.proposal.level = s.level
      /\ n.proposal = s.proposal \/ n.proposal.round <= s.round
  BY Zenon DEF Follows, InLevel
<1>2. n.proposal.round <= n.round
  BY Zenon, <1>1 DEF Sound
<1>. QED
  BY Zenon, <1>1, <1>2 DEF Sound

LEMMA ProposedSound ==
  ASSUME NEW s \in AutoStates, Sound(s), NEW n, NEW act, Proposed(s, n, act)
  PROVE  /\ n \in AutoStates /\ Sound(n) /\ n.level = s.level
         /\ \/ act = Do_nothing /\ (SameWait(s, n) \/ n.phase = "Idle")
            \/ /\ act.type \in {"Prepare_consensus_votes", "Watch_prequorum"}
               /\ n.phase = "Awaiting_preattestations"
<1>1. CASE act = Do_nothing /\ Stays(s, n)
  BY Zenon, <1>1, StaysSound DEF SameWait
<1>2. CASE act = Do_nothing /\ Adopts(s, n)
  BY Zenon, <1>2, FollowsSound DEF Adopts
<1>3. CASE Votes_for(s, n, act)
  BY Zenon, <1>3, FollowsSound DEF Votes_for, Enters
<1>4. CASE act = Watch_prequorum /\ Enters(s, n)
  BY Zenon, <1>4, FollowsSound DEF Watch_prequorum, Enters
<1>. QED
  BY Zenon, <1>1, <1>2, <1>3, <1>4 DEF Proposed

LEMMA RenewsSound ==
  ASSUME NEW s \in AutoStates, Sound(s), NEW n, NEW round \in Int, s.round <= round,
         Renews(s, n, round)
  PROVE  n \in AutoStates /\ Sound(n) /\ n.level = s.level /\ n.phase = "Idle"
<1>1. s.proposal.round \in Nat /\ s.round \in Int
  BY Zenon, FieldsOfProposal DEF AutoStates
<1>. QED
  BY SMTT(30), <1>1 DEF Renews, Sound

LEMMA QuorumSound ==
  ASSUME NEW s \in AutoStates, Sound(s), NEW n, NEW act,
         Locks(s, n, act) \/ Elects(s, n) \/ Delays(s, n)
  PROVE  n \in AutoStates /\ Sound(n) /\ n.level = s.level /\ n.proposal = s.proposal
<1>1. /\ n \in AutoStates /\ n.level = s.level /\ n.round = s.round /\ n.proposal = s.proposal
      /\ s.phase # "Idle"
  BY Zenon DEF Locks, Elects, Delays, InLevel
<1>2. n.phase = "Awaiting_application" => n.delayed /\ n.elected = {} /\ ~n.applied
  BY Zenon DEF Locks, Elects, Delays
<1>3. /\ n.level = n.proposal.level /\ n.proposal.round <= n.round
      /\ n.phase # "Idle" => n.proposal.round = n.round
  BY Zenon, <1>1 DEF Sound
<1>. QED
  BY ZenonT(30), <1>1, <1>2, <1>3 DEF Sound

LEMMA ArrivesSound ==
  ASSUME NEW s \in AutoStates, Sound(s), NEW n, NEW act, NEW v, Arrives(s, n, act, v)
  PROVE  n \in AutoStates /\ Sound(n) /\ SameWait(s, n)
<1>1. /\ n \in AutoStates /\ SameWait(s, n) /\ n.round = s.round
      /\ s.phase = "Awaiting_application" => n.delayed = s.delayed /\ n.applied = s.applied
  BY Zenon DEF Arrives, InLevel, SameWait
<1>2. /\ n.level = n.proposal.level /\ n.proposal.round <= n.round
      /\ n.phase # "Idle" => n.proposal.round = n.round
  BY Zenon, <1>1 DEF Sound, SameWait
<1>3. n.phase = "Awaiting_application" => n.delayed /\ n.elected = {} /\ ~n.applied
  BY ZenonT(30), <1>1 DEF Sound, SameWait
<1>. QED
  BY Zenon, <1>1, <1>2, <1>3 DEF Sound

LEMMA TailRest ==
  ASSUME NEW T, NEW q \in Seq(T), q # <<>>
  PROVE  Entries(q) \subseteq Entries(Tail(q)) \cup {Head(q)}
<1>1. /\ Head(q) = q[1] /\ DOMAIN q = 1 .. Len(q) /\ Len(q) \in Nat
      /\ DOMAIN Tail(q) = 1 .. (Len(q) - 1)
      /\ \A i \in 1 .. (Len(q) - 1) : Tail(q)[i] = q[i + 1]
  OBVIOUS
<1>2. ASSUME NEW i \in DOMAIN q PROVE q[i] \in Entries(Tail(q)) \cup {Head(q)}
  <2>1. CASE i = 1
    BY Zenon, <1>1, <2>1
  <2>2. CASE i # 1
    <3>1. i - 1 \in DOMAIN Tail(q) /\ Tail(q)[i - 1] = q[i]
      BY SMTT(30), <1>1, <2>2
    <3>. QED
      BY Zenon, <3>1 DEF Entries
  <2>. QED
    BY Zenon, <2>1, <2>2
<1>. QED
  BY Zenon, <1>2 DEF Entries

LEMMA WatchedTypes ==
  ASSUME NEW n, NEW act
  PROVE  /\ act.type \in {"Prepare_consensus_votes", "Watch_prequorum"} =>
              Watched(n, act) = {[kind |-> "Preattestation", candidate |-> n.proposal]}
         /\ act.type \in {"Prepare_attestations", "Inject_attestations", "Watch_quorum"} =>
              Watched(n, act) = {[kind |-> "Attestation", candidate |-> n.proposal]}
         /\ act.type \in {"Do_nothing", "Inject_preattestation", "Inject_block",
                          "Prepare_block"} => Watched(n, act) = watch
BY Zenon DEF Watched

LEMMA ToldSame ==
  ASSUME NEW s, NEW n, NEW W, NEW Q, NEW G, ToldBy(s, W, Q, G), Reported(s, G), SameWait(s, n)
  PROVE  ToldBy(n, W, Q, G) /\ Reported(n, G)
BY ZenonT(30) DEF ToldBy, Reported, SameWait

LEMMA ToldAsked ==
  ASSUME NEW n, NEW W, NEW Q, NEW G,
         \/ n.phase = "Idle"
         \/ /\ n.phase = "Awaiting_preattestations"
            /\ [kind |-> "Preattestation", candidate |-> n.proposal] \in W
         \/ /\ n.phase = "Awaiting_attestations"
            /\ [kind |-> "Attestation", candidate |-> n.proposal] \in W
  PROVE  ToldBy(n, W, Q, G) /\ Reported(n, G)
BY Zenon DEF ToldBy, Reported

\* What an iteration does to what the daemon waits for.
LEMMA TurnTold ==
  ASSUME RoundInv, NEW n, NEW act, Turned(n, act)
  PROVE  /\ n \in AutoStates /\ Sound(n)
         /\ ToldBy(n, watch', Entries(qc'), granted) /\ Reported(n, granted)
         /\ \/ stepped' = n /\ n.level = st.level
            \/ /\ stepped' = st /\ n.level > st.level /\ qc' = qc
               /\ \/ watch' = watch
                  \/ watch' = {[kind |-> "Preattestation", candidate |-> n.proposal]}
<1>0. PICK s : s = st
  OBVIOUS
<1>1. PICK W, Q, G, W1, Q1 :
        W = watch /\ Q = Entries(qc) /\ G = granted /\ W1 = watch' /\ Q1 = Entries(qc')
  BY Zenon
<1>2. s \in AutoStates /\ Sound(s) /\ ToldBy(s, W, Q, G) /\ Reported(s, G)
  BY Zenon, <1>0, <1>1 DEF RoundInv, TypeInv, Followed
<1>3. W1 = Watched(n, act)
  BY Zenon, <1>1 DEF Turned, Acted
<1> DEFINE Goal == /\ n \in AutoStates /\ Sound(n) /\ ToldBy(n, W1, Q1, G) /\ Reported(n, G)
                   /\ \/ stepped' = n /\ n.level = s.level
                      \/ /\ stepped' = s /\ n.level > s.level /\ qc' = qc
                         /\ \/ W1 = W
                            \/ W1 = {[kind |-> "Preattestation", candidate |-> n.proposal]}
<1>. SUFFICES Goal
  BY ZenonT(30), <1>0, <1>1 DEF Goal
<1> HIDE DEF Goal
<1>4. ASSUME NEW k, k \in AutoStates, Sound(k), k = s \/ k.phase = "Idle", Proposed(k, n, act),
             qc' = qc
      PROVE  /\ n \in AutoStates /\ Sound(n) /\ n.level = k.level
             /\ ToldBy(n, W1, Q1, G) /\ Reported(n, G)
             /\ \/ W1 = W
                \/ W1 = {[kind |-> "Preattestation", candidate |-> n.proposal]}
  <2>1. /\ n \in AutoStates /\ Sound(n) /\ n.level = k.level
        /\ \/ act = Do_nothing /\ (SameWait(k, n) \/ n.phase = "Idle")
           \/ /\ act.type \in {"Prepare_consensus_votes", "Watch_prequorum"}
              /\ n.phase = "Awaiting_preattestations"
    BY Zenon, <1>4, ProposedSound
  <2>2. Q1 = Q
    BY Zenon, <1>1, <1>4
  <2>3. CASE act = Do_nothing
    <3>1. W1 = W
      BY Zenon, <1>1, <1>3, <2>3, WatchedTypes DEF Do_nothing
    <3>2. n.phase = "Idle" \/ SameWait(s, n)
      <4>1. act.type = "Do_nothing"
        BY Zenon, <2>3 DEF Do_nothing
      <4>2. SameWait(k, n) \/ n.phase = "Idle"
        BY Zenon, <2>1, <4>1
      <4>. QED
        BY Zenon, <1>4, <4>2 DEF SameWait
    <3>3. ToldBy(n, W, Q, G) /\ Reported(n, G)
      BY Zenon, <1>2, <3>2, ToldSame, ToldAsked
    <3>. QED
      BY ZenonT(30), <2>1, <2>2, <3>1, <3>3
  <2>4. CASE /\ act.type \in {"Prepare_consensus_votes", "Watch_prequorum"}
             /\ n.phase = "Awaiting_preattestations"
    <3>1. W1 = {[kind |-> "Preattestation", candidate |-> n.proposal]}
      BY Zenon, <1>3, <2>4, WatchedTypes
    <3>2. ToldBy(n, W1, Q1, G) /\ Reported(n, G)
      BY Zenon, <2>4, <3>1, ToldAsked
    <3>. QED
      BY ZenonT(30), <2>1, <3>1, <3>2
  <2>. QED
    BY ZenonT(30), <2>1, <2>3, <2>4
<1>5. CASE ByProposal(n, act)
  <2>1. stepped' = n /\ qc' = qc
    BY Zenon, <1>5 DEF ByProposal
  <2>2. CASE Proposed(s, n, act)
    BY Zenon, <1>2, <1>4, <2>1, <2>2 DEF Goal
  <2>3. CASE Elects(s, n)
    <3>1. n \in AutoStates /\ Sound(n) /\ n.level = s.level /\ n.phase = "Idle"
      BY Zenon, <1>2, <2>3, QuorumSound DEF Elects
    <3>. QED
      BY ZenonT(30), <2>1, <3>1, ToldAsked DEF Goal
  <2>. QED
    BY ZenonT(30), <1>0, <1>5, <2>2, <2>3 DEF ByProposal
<1>6. CASE ByLevel(n, act)
  <2>1. PICK L : StartsLevel(s, L) /\ Proposed(L, n, act)
    BY Zenon, <1>0, <1>6 DEF ByLevel
  <2>2. L \in AutoStates /\ Sound(L) /\ L.level > s.level /\ L.phase = "Idle"
    BY Zenon, <2>1 DEF StartsLevel
  <2>3. stepped' = s /\ qc' = qc
    BY Zenon, <1>0, <1>6 DEF ByLevel
  <2>4. /\ n \in AutoStates /\ Sound(n) /\ n.level = L.level
        /\ ToldBy(n, W1, Q1, G) /\ Reported(n, G)
        /\ W1 = W \/ W1 = {[kind |-> "Preattestation", candidate |-> n.proposal]}
    BY ZenonT(30), <1>4, <2>1, <2>2, <2>3
  <2>5. n.level > s.level
    BY Zenon, <2>2, <2>4
  <2>. QED
    BY Zenon, <2>3, <2>4, <2>5 DEF Goal
<1>7. CASE ByTimeout(n, act)
  <2>1. stepped' = n /\ Q1 = Q /\ W1 = W
    BY Zenon, <1>1, <1>3, <1>7, WatchedTypes DEF ByTimeout
  <2>2. CASE Stays(s, n)
    <3>1. n \in AutoStates /\ Sound(n) /\ SameWait(s, n)
      BY Zenon, <1>2, <2>2, StaysSound
    <3>2. ToldBy(n, W, Q, G) /\ Reported(n, G)
      BY Zenon, <1>2, <3>1, ToldSame
    <3>. QED
      BY ZenonT(30), <2>1, <3>1, <3>2 DEF SameWait, Goal
  <2>3. ASSUME NEW round \in Int, s.round <= round, Renews(s, n, round)
        PROVE  Goal
    <3>1. n \in AutoStates /\ Sound(n) /\ n.level = s.level /\ n.phase = "Idle"
      BY Zenon, <1>2, <2>3, RenewsSound
    <3>. QED
      BY ZenonT(30), <2>1, <3>1, ToldAsked DEF Goal
  <2>4. s.round \in Int /\ s.round + 1 \in Int /\ s.round <= s.round /\ s.round <= s.round + 1
    BY <1>2 DEF AutoStates
  <2>. QED
    BY ZenonT(30), <1>0, <1>7, <2>2, <2>3, <2>4 DEF ByTimeout
<1>8. CASE ByQuorum(n, act)
  <2>1. PICK e : e = Head(qc)
    BY Zenon
  <2>2. stepped' = n /\ qc # <<>> /\ qc' = Tail(qc) /\ qc \in Seq(QuorumEvents)
        /\ Q \subseteq G
    BY Zenon, <1>1, <1>8 DEF ByQuorum, RoundInv
  <2>3. Q \subseteq Q1 \cup {e} /\ e \in Q
    BY Zenon, <1>1, <2>1, <2>2, TailRest, EntriesOfTail
  <2>4. CASE /\ n = s /\ act = Do_nothing
             /\ e = [kind |-> "Preattestation", candidate |-> s.proposal] =>
                  s.phase # "Awaiting_preattestations"
             /\ e = [kind |-> "Attestation", candidate |-> s.proposal] =>
                  s.phase # "Awaiting_attestations" \/ s.elected # {}
    <3>1. W1 = W
      BY Zenon, <1>1, <1>3, <2>4, WatchedTypes DEF Do_nothing
    <3>2. ToldBy(s, W, Q1, G)
      BY Zenon, <1>2, <2>3, <2>4 DEF ToldBy
    <3>. QED
      BY ZenonT(30), <1>2, <2>2, <2>4, <3>1, <3>2 DEF Goal
  <2>5. CASE Locks(s, n, act)
    <3>1. n \in AutoStates /\ Sound(n) /\ n.level = s.level /\ n.phase = "Awaiting_attestations"
      BY ZenonT(30), <1>2, <2>5, QuorumSound DEF Locks
    <3>2. act.type \in {"Prepare_attestations", "Inject_attestations", "Watch_quorum"}
      BY SMTT(30), <2>5 DEF Locks, Watch_quorum
    <3>3. W1 = {[kind |-> "Attestation", candidate |-> n.proposal]}
      BY Zenon, <1>3, <3>2, WatchedTypes
    <3>. QED
      <4>1. ToldBy(n, W1, Q1, G) /\ Reported(n, G)
        BY ZenonT(30), <3>1, <3>3, ToldAsked
      <4>. QED
        BY Zenon, <2>2, <3>1, <4>1 DEF Goal
  <2>6. CASE /\ e = [kind |-> "Attestation", candidate |-> s.proposal]
             /\ Elects(s, n) \/ Delays(s, n)
    <3>1. n \in AutoStates /\ Sound(n) /\ n.level = s.level /\ n.proposal = s.proposal
      BY Zenon, <1>2, <2>6, QuorumSound
    <3>2. n.phase \in {"Idle", "Awaiting_application"}
      BY ZenonT(30), <2>6 DEF Elects, Delays
    <3>3. [kind |-> "Attestation", candidate |-> n.proposal] \in G
      BY Zenon, <2>2, <2>3, <2>6, <3>1
    <3>4. ToldBy(n, W1, Q1, G) /\ Reported(n, G)
      BY Zenon, <3>2, <3>3 DEF ToldBy, Reported
    <3>. QED
      BY ZenonT(30), <2>2, <3>1, <3>4 DEF Goal
  <2>. QED
    BY ZenonT(30), <1>0, <1>8, <2>1, <2>4, <2>5, <2>6 DEF ByQuorum
<1>9. CASE ByForge(n, act)
  <2>1. stepped' = n /\ Q1 = Q
    BY Zenon, <1>1, <1>9 DEF ByForge
  <2>2. CASE n = s /\ act.type \in {"Do_nothing", "Inject_block", "Inject_preattestation"}
    <3>1. W1 = W
      BY Zenon, <1>1, <1>3, <2>2, WatchedTypes
    <3>. QED
      BY ZenonT(30), <1>2, <2>1, <2>2, <3>1 DEF Goal
  <2>3. ASSUME NEW v, Arrives(s, n, act, v)
        PROVE  Goal
    <3>1. n \in AutoStates /\ Sound(n) /\ SameWait(s, n)
      BY Zenon, <1>2, <2>3, ArrivesSound
    <3>2. ToldBy(n, W, Q, G) /\ Reported(n, G)
      BY Zenon, <1>2, <3>1, ToldSame
    <3>3. CASE act = Do_nothing
      <4>1. W1 = W
        BY Zenon, <1>1, <1>3, <3>3, WatchedTypes DEF Do_nothing
      <4>. QED
        BY ZenonT(30), <2>1, <3>1, <3>2, <4>1 DEF SameWait, Goal
    <3>4. CASE n.phase # "Awaiting_preattestations" /\ act.type = "Inject_attestations"
      <4>1. W1 = {[kind |-> "Attestation", candidate |-> n.proposal]}
        BY Zenon, <1>3, <3>4, WatchedTypes
      <4>2. ToldBy(n, W1, Q1, G)
        BY Zenon, <3>4, <4>1 DEF ToldBy
      <4>. QED
        BY ZenonT(30), <2>1, <3>1, <3>2, <4>2 DEF SameWait, Goal
    <3>5. act = Do_nothing \/ (n.phase # "Awaiting_preattestations" /\ act.type = "Inject_attestations")
      BY SMTT(30), <2>3 DEF Arrives
    <3>. QED
      BY Zenon, <3>3, <3>4, <3>5
  <2>4. \/ n = s /\ act.type \in {"Do_nothing", "Inject_block", "Inject_preattestation"}
        \/ \E v : Arrives(s, n, act, v)
    BY SMTT(30), <1>0, <1>9 DEF ByForge
  <2>. QED
    BY ZenonT(30), <2>2, <2>3, <2>4
<1>. QED
  BY ZenonT(30), <1>5, <1>6, <1>7, <1>8, <1>9 DEF Turned

--------------------------------------------------------------------------------
(* The votes.                                                                *)

LEMMA PendingType ==
  ASSUME TypeInv
  PROVE  Pending \subseteq Votes
<1>1. \A q \in Seq(Requests) : Entries(q) \subseteq Requests
  BY DEF Entries
<1>2. requests \in Seq(Requests) /\ signing \in Seq(Requests) /\ ready \in Seq(Requests)
  BY Zenon DEF TypeInv
<1>3. \A r \in Requests : r.kind # "Block" => r \in Votes
  BY Zenon DEF Requests, Votes
<1>. QED
  BY Zenon, <1>1, <1>2, <1>3 DEF Pending

LEMMA AskedTypes ==
  ASSUME NEW act
  PROVE  /\ act.type \in {"Do_nothing", "Watch_prequorum", "Watch_quorum", "Prepare_block",
                          "Inject_block", "Inject_preattestation", "Inject_attestations"} =>
              Asked(act) = {}
         /\ act.type = "Prepare_consensus_votes" =>
              Asked(act) = {Vote("Preattestation", act.vote), Vote("Attestation", act.vote)}
         /\ act.type = "Prepare_attestations" => Asked(act) = {Vote("Attestation", act.vote)}
<1>1. CASE act.type \in {"Do_nothing", "Watch_prequorum", "Watch_quorum", "Inject_block",
                         "Inject_preattestation", "Inject_attestations"}
  <2>1. NewRequests(act) = <<>>
    BY Zenon, <1>1 DEF NewRequests
  <2>. QED
    BY <1>1, <2>1 DEF Asked, Entries
<1>2. CASE act.type = "Prepare_block"
  <2>1. NewRequests(act) = <<[kind |-> "Block", block |-> act]>>
    BY Zenon, <1>2 DEF NewRequests
  <2>. QED
    BY <1>2, <2>1 DEF Asked, Entries
<1>3. CASE act.type = "Prepare_consensus_votes"
  <2> DEFINE v == Vote("Preattestation", act.vote)
             w == Vote("Attestation", act.vote)
  <2>1. NewRequests(act) = <<v, w>>
    BY Zenon, <1>3 DEF NewRequests
  <2>2. v.kind # "Block" /\ w.kind # "Block"
    BY Zenon DEF Vote
  <2> HIDE DEF v, w
  <2>3. Entries(<<v, w>>) = {v, w}
    BY DEF Entries
  <2>4. Asked(act) = {v, w}
    BY Zenon, <2>1, <2>2, <2>3 DEF Asked
  <2>. QED
    BY Zenon, <1>3, <2>4 DEF v, w
<1>4. CASE act.type = "Prepare_attestations"
  <2> DEFINE w == Vote("Attestation", act.vote)
  <2>1. NewRequests(act) = <<w>>
    BY Zenon, <1>4 DEF NewRequests
  <2>2. w.kind # "Block"
    BY Zenon DEF Vote
  <2> HIDE DEF w
  <2>3. Entries(<<w>>) = {w}
    BY DEF Entries
  <2>4. Asked(act) = {w}
    BY Zenon, <2>1, <2>2, <2>3 DEF Asked
  <2>. QED
    BY Zenon, <1>4, <2>4 DEF w
<1>. QED
  BY Zenon, <1>1, <1>2, <1>3, <1>4

\* A proposal of the state's round is never replaced.
LEMMA FollowsCurrent ==
  ASSUME NEW s \in AutoStates, NEW n, Follows(s, n), NEW v, Current(s, v)
  PROVE  Current(n, v)
<1>1. /\ n.round = s.round /\ n \in AutoStates /\ s.round \in Int
      /\ \/ n.proposal = s.proposal
         \/ s.proposal.round < n.proposal.round /\ n.proposal.round <= s.round
  BY Zenon DEF Follows, InLevel, AutoStates
<1>2. s.proposal.round \in Nat /\ n.proposal.round \in Nat
  BY Zenon, <1>1, FieldsOfProposal DEF AutoStates
<1>3. n.proposal = s.proposal
  BY SMTT(30), <1>1, <1>2 DEF Current
<1>. QED
  BY Zenon, <1>1, <1>3 DEF Current

\* Votes of the state's level are of its proposal, which has the state's round:
\* a later proposal cannot come.
LEMMA FollowsPending ==
  ASSUME NEW s \in AutoStates, NEW n, Follows(s, n), NEW P, P \subseteq Votes, NEW G,
         PendingFor(s, P, G),
         \/ n.phase = "Awaiting_preattestations"
         \/ s.phase # "Awaiting_preattestations"
         \/ n.phase = s.phase
  PROVE  PendingFor(n, P, G)
<1>1. n.level = s.level /\ n.early \subseteq s.early
  BY Zenon DEF Follows, InLevel
<1>2. \A v : Current(s, v) => Current(n, v)
  BY Zenon, FollowsCurrent
<1>. QED
  BY Zenon, <1>1, <1>2 DEF PendingFor

LEMMA SamePending ==
  ASSUME NEW s, NEW n, NEW P, NEW G, PendingFor(s, P, G),
         n.level = s.level, n.round = s.round, n.proposal = s.proposal,
         s.phase # "Awaiting_preattestations" \/ n.phase = s.phase,
         \A v \in n.early : v \in s.early \/ Current(s, v)
  PROVE  PendingFor(n, P, G)
BY Zenon DEF PendingFor, Current

LEMMA FewerPending ==
  ASSUME NEW s, NEW P, NEW R, NEW G, NEW H, PendingFor(s, P, G), R \subseteq P, G \subseteq H
  PROVE  PendingFor(s, R, H)
BY Zenon DEF PendingFor, GrantedIn

LEMMA ProposedPending ==
  ASSUME NEW s \in AutoStates, Sound(s), NEW n, NEW act, Proposed(s, n, act),
         NEW P, P \subseteq Votes, NEW G, PendingFor(s, P, G)
  PROVE  PendingFor(n, P \cup Asked(act), G)
<1>1. CASE act = Do_nothing /\ Stays(s, n)
  <2>1. PendingFor(n, P, G)
    BY Zenon, <1>1, SamePending DEF Stays, InLevel
  <2>2. Asked(act) = {}
    BY Zenon, <1>1, AskedTypes DEF Do_nothing
  <2>. QED
    BY Zenon, <2>1, <2>2
<1>2. CASE act = Do_nothing /\ Adopts(s, n)
  <2>1. PendingFor(n, P, G)
    BY Zenon, <1>2, FollowsPending DEF Adopts
  <2>2. Asked(act) = {}
    BY Zenon, <1>2, AskedTypes DEF Do_nothing
  <2>. QED
    BY Zenon, <2>1, <2>2
<1>3. CASE act = Watch_prequorum /\ Enters(s, n)
  <2>1. PendingFor(n, P, G)
    BY Zenon, <1>3, FollowsPending DEF Enters
  <2>2. Asked(act) = {}
    BY Zenon, <1>3, AskedTypes DEF Watch_prequorum
  <2>. QED
    BY Zenon, <2>1, <2>2
<1>4. CASE Votes_for(s, n, act)
  <2>1. PendingFor(n, P, G)
    BY Zenon, <1>4, FollowsPending DEF Votes_for, Enters
  <2>2. act.type = "Prepare_consensus_votes" /\ act.vote = Content(n.proposal)
    BY Zenon, <1>4 DEF Votes_for
  <2>3. \A t \in Asked(act) : t.vote = Content(n.proposal)
    BY SMTT(30), <2>2, AskedTypes DEF Vote
  <2>4. /\ n.phase = "Awaiting_preattestations" /\ n.level = s.level /\ n.round = s.round
        /\ n.proposal.round = n.round /\ n.proposal.level = n.level /\ n.level \in Nat
    BY Zenon, <1>4 DEF Votes_for, Enters, Follows, InLevel, AutoStates
  <2>5. \A t \in Asked(act) : t.vote.level <= n.level /\ Current(n, t.vote)
    BY <2>3, <2>4 DEF Current, Content
  <2>. QED
    BY ZenonT(30), <2>1, <2>4, <2>5 DEF PendingFor
<1>. QED
  BY Zenon, <1>1, <1>2, <1>3, <1>4 DEF Proposed

LEMMA InjectedTypes ==
  ASSUME NEW act
  PROVE  /\ act.type \in {"Do_nothing", "Watch_prequorum", "Watch_quorum", "Prepare_block",
                          "Inject_block", "Prepare_consensus_votes", "Prepare_attestations"} =>
              Injected(act) = {}
         /\ act.type = "Inject_preattestation" =>
              Injected(act) = {Vote("Preattestation", act.vote)}
         /\ act.type = "Inject_attestations" =>
              Injected(act) = {Vote("Attestation", v) : v \in act.votes}
BY Zenon DEF Injected

\* The prequorum of the proposal is there for all the attestations of the round.
LEMMA LocksPending ==
  ASSUME NEW s \in AutoStates, Sound(s), NEW n, NEW act, Locks(s, n, act),
         NEW P, P \subseteq Votes, NEW G, PendingFor(s, P, G),
         [kind |-> "Preattestation", candidate |-> s.proposal] \in G
  PROVE  /\ PendingFor(n, P \cup Asked(act), G)
         /\ \A v \in Injected(act) :
              v.kind = "Attestation" /\ GrantedIn(G, v.vote) /\ Current(s, v.vote)
<1>1. GrantedIn(G, Content(s.proposal))
  <2> DEFINE g == [kind |-> "Preattestation", candidate |-> s.proposal]
  <2>1. g \in G /\ g.kind = "Preattestation" /\ g.candidate = s.proposal
    BY Zenon
  <2> HIDE DEF g
  <2>. QED
    BY Zenon, <2>1 DEF GrantedIn
<1>2. /\ n.level = s.level /\ n.round = s.round /\ n.proposal = s.proposal
      /\ n.early \subseteq s.early /\ s.proposal.round = s.round /\ s.level \in Nat
      /\ s.proposal.level = s.level
  BY Zenon DEF Locks, InLevel, Sound, AutoStates
<1>3. \A v : Current(s, v) <=> Current(n, v)
  BY Zenon, <1>2 DEF Current
<1>4. PendingFor(n, P, G)
  <2>1. \A t \in P : t.vote.level <= n.level /\ (t.vote.level = n.level => Current(n, t.vote))
    BY Zenon, <1>2, <1>3 DEF PendingFor
  <2>2. \A t \in P : t.vote.level = n.level => GrantedIn(G, t.vote)
    BY Zenon, <1>1, <1>2, <2>1 DEF Current
  <2>3. \A v \in n.early : Current(n, v)
    BY ZenonT(30), <1>2, <1>3 DEF PendingFor
  <2>. QED
    BY Zenon, <2>1, <2>2, <2>3 DEF PendingFor
<1>5. Current(n, Content(s.proposal))
  BY Zenon, <1>2 DEF Current
<1>6. CASE act = [type |-> "Prepare_attestations", vote |-> Content(s.proposal)]
  <2>1. act.type = "Prepare_attestations" /\ act.vote = Content(s.proposal)
    BY Zenon, <1>6
  <2>2. Asked(act) = {Vote("Attestation", Content(s.proposal))} /\ Injected(act) = {}
    BY Zenon, <2>1, AskedTypes, InjectedTypes
  <2>3. \A t \in Asked(act) : t.vote = Content(s.proposal)
    BY SMTT(30), <2>2 DEF Vote
  <2>4. \A t \in Asked(act) : t.vote.level <= n.level
    BY SMTT(30), <1>2, <2>3 DEF Content
  <2>. QED
    BY ZenonT(30), <1>1, <1>4, <1>5, <2>2, <2>3, <2>4 DEF PendingFor
<1>7. CASE act = Watch_quorum
  <2>1. Asked(act) = {} /\ Injected(act) = {}
    BY Zenon, <1>7, AskedTypes, InjectedTypes DEF Watch_quorum
  <2>. QED
    BY Zenon, <1>4, <2>1
<1>8. CASE act = [type |-> "Inject_attestations", votes |-> s.early]
  <2>1. act.type = "Inject_attestations" /\ act.votes = s.early
    BY Zenon, <1>8
  <2>2. Asked(act) = {} /\ Injected(act) = {Vote("Attestation", v) : v \in s.early}
    BY Zenon, <2>1, AskedTypes, InjectedTypes
  <2>3. \A t \in Injected(act) : t.kind = "Attestation" /\ t.vote \in s.early
    BY <2>2 DEF Vote
  <2>4. \A v \in s.early : Current(s, v) /\ GrantedIn(G, v)
    BY ZenonT(30), <1>1 DEF PendingFor, Current
  <2>. QED
    BY Zenon, <1>4, <2>2, <2>3, <2>4
<1>. QED
  BY Zenon, <1>6, <1>7, <1>8 DEF Locks

\* A signed attestation is kept until its prequorum, or sent after it.
LEMMA ArrivesPending ==
  ASSUME NEW s \in AutoStates, Sound(s), NEW n, NEW act, NEW P, P \subseteq Votes, NEW G,
         NEW e \in P, e.kind = "Attestation", Arrives(s, n, act, e.vote), PendingFor(s, P, G)
  PROVE  /\ PendingFor(n, P \cup Asked(act), G) /\ Current(s, e.vote)
         /\ \/ Injected(act) = {}
            \/ /\ Injected(act) = {Vote("Attestation", e.vote)} /\ GrantedIn(G, e.vote)
               /\ s.phase # "Awaiting_preattestations"
<1>1. /\ n.level = s.level /\ n.round = s.round /\ n.proposal = s.proposal
      /\ n.phase = s.phase /\ e.vote = Content(s.proposal) /\ s.proposal.level = s.level
  BY Zenon DEF Arrives, InLevel, Sound
<1>2. e.vote.level = s.level
  BY <1>1 DEF Content
<1>3. Current(s, e.vote) /\ (s.phase = "Awaiting_preattestations" \/ GrantedIn(G, e.vote))
  BY ZenonT(30), <1>2 DEF PendingFor
<1>4. n.early = s.early \/ n.early = s.early \cup {e.vote}
  BY Zenon DEF Arrives
<1>5. PendingFor(n, P, G)
  <2>1. \A v \in n.early : v \in s.early \/ Current(s, v)
    BY Zenon, <1>3, <1>4
  <2>. QED
    BY ZenonT(30), <1>1, <2>1, SamePending
<1>6. CASE act = Do_nothing
  <2>1. Asked(act) = {} /\ Injected(act) = {}
    BY Zenon, <1>6, AskedTypes, InjectedTypes DEF Do_nothing
  <2>. QED
    BY Zenon, <1>3, <1>5, <2>1
<1>7. CASE /\ s.phase # "Awaiting_preattestations"
           /\ act = [type |-> "Inject_attestations", votes |-> {e.vote}]
  <2>1. act.type = "Inject_attestations" /\ act.votes = {e.vote}
    BY Zenon, <1>7
  <2>2. Asked(act) = {} /\ Injected(act) = {Vote("Attestation", v) : v \in {e.vote}}
    BY Zenon, <2>1, AskedTypes, InjectedTypes
  <2>3. Injected(act) = {Vote("Attestation", e.vote)}
    BY Zenon, <2>2
  <2>. QED
    BY Zenon, <1>3, <1>5, <1>7, <2>2, <2>3
<1>. QED
  BY Zenon, <1>6, <1>7 DEF Arrives

LEMMA TurnPending ==
  ASSUME PromptSigning, PendInv, NEW n, NEW act, Turned(n, act)
  PROVE  PendingFor(n, Pending', granted) /\ Sends_of(st, Pending, granted, n, act)
<1>0. PICK s, P, G : s = st /\ P = Pending /\ G = granted
  BY Zenon
<1>1. s \in AutoStates /\ Sound(s) /\ P \subseteq Votes /\ PendingFor(s, P, G)
  BY Zenon, <1>0, PendingType DEF PendInv, RoundInv, TypeInv, Followed
<1>2. Pending' \subseteq P \cup Asked(act)
  BY Zenon, <1>0 DEF Turned, Acted
<1> SUFFICES PendingFor(n, P \cup Asked(act), G) /\ Sends_of(s, P, G, n, act)
  BY Zenon, <1>0, <1>2, FewerPending
<1>3. ASSUME NEW k, NEW m, NEW a, Proposed(k, m, a)
      PROVE  Injected(a) = {}
  <2>1. a.type \in {"Do_nothing", "Prepare_consensus_votes", "Watch_prequorum"}
    BY SMTT(30), <1>3 DEF Proposed, Votes_for, Do_nothing, Watch_prequorum
  <2>. QED
    BY Zenon, <2>1, InjectedTypes
<1>4. Injected(Do_nothing) = {} /\ Asked(Do_nothing) = {}
  BY Zenon, InjectedTypes, AskedTypes DEF Do_nothing
<1>5. CASE ByProposal(n, act)
  <2>1. CASE Proposed(s, n, act)
    BY ZenonT(30), <1>1, <1>3, <2>1, ProposedPending DEF Sends_of
  <2>2. CASE Elects(s, n) /\ act = Do_nothing
    <3>1. PendingFor(n, P, G)
      BY Zenon, <1>1, <2>2, SamePending DEF Elects, InLevel
    <3>. QED
      BY ZenonT(30), <1>4, <2>2, <3>1 DEF Sends_of
  <2>. QED
    BY Zenon, <1>0, <1>5, <2>1, <2>2 DEF ByProposal
<1>6. CASE ByLevel(n, act)
  <2>1. PICK L : StartsLevel(s, L) /\ Proposed(L, n, act)
    BY Zenon, <1>0, <1>6 DEF ByLevel
  <2>2. L \in AutoStates /\ Sound(L) /\ L.level > s.level /\ L.early = {}
    BY Zenon, <2>1 DEF StartsLevel
  <2>3. PendingFor(L, P, G)
    <3>1. L.level \in Nat /\ s.level \in Nat /\ \A t \in P : t.vote.level \in Nat
      BY Zenon, <1>1, <2>2 DEF AutoStates, Votes, VoteContents
    <3>2. \A t \in P : t.vote.level <= s.level
      BY Zenon, <1>1 DEF PendingFor
    <3>3. \A t \in P : t.vote.level <= L.level /\ t.vote.level # L.level
      BY SMTT(30), <2>2, <3>1, <3>2
    <3>. QED
      BY Zenon, <2>2, <3>3 DEF PendingFor
  <2>. QED
    BY Zenon, <1>1, <1>3, <2>1, <2>2, <2>3, ProposedPending DEF Sends_of
<1>7. CASE ByTimeout(n, act)
  <2>1. Injected(act) = {} /\ Asked(act) = {}
    BY Zenon, <1>7, InjectedTypes, AskedTypes DEF ByTimeout
  <2>2. CASE Stays(s, n)
    <3>1. PendingFor(n, P, G)
      BY Zenon, <1>1, <2>2, SamePending DEF Stays, InLevel
    <3>. QED
      BY Zenon, <2>1, <3>1 DEF Sends_of
  <2>3. ASSUME NEW round, Renews(s, n, round), P = {}
        PROVE  PendingFor(n, P \cup Asked(act), G) /\ Sends_of(s, P, G, n, act)
    <3>1. n.early = {}
      BY Zenon, <2>3 DEF Renews
    <3>. QED
      BY Zenon, <2>1, <2>3, <3>1 DEF Sends_of, PendingFor
  <2>4. loop = "boot" => P = {}
    BY Zenon, <1>0 DEF PendInv
  <2>. QED
    BY Zenon, <1>0, <1>7, <2>2, <2>3, <2>4 DEF ByTimeout
<1>8. CASE ByQuorum(n, act)
  <2>1. CASE n = s /\ act = Do_nothing
    BY Zenon, <1>1, <1>4, <2>1 DEF Sends_of
  <2>2. CASE /\ Head(qc) = [kind |-> "Preattestation", candidate |-> s.proposal]
             /\ Locks(s, n, act)
    <3>1. Head(qc) \in Entries(qc) /\ Entries(qc) \subseteq G
      BY ZenonT(30), <1>0, <1>8, EntriesOfTail DEF ByQuorum, PendInv, RoundInv
    <3>2. [kind |-> "Preattestation", candidate |-> s.proposal] \in G
      BY ZenonT(30), <2>2, <3>1
    <3>. QED
      BY ZenonT(30), <1>1, <2>2, <3>2, LocksPending DEF Sends_of
  <2>3. CASE act = Do_nothing /\ (Elects(s, n) \/ Delays(s, n))
    <3>1. PendingFor(n, P, G)
      BY ZenonT(30), <1>1, <2>3, SamePending DEF Elects, Delays, InLevel
    <3>. QED
      BY ZenonT(30), <1>4, <2>3, <3>1 DEF Sends_of
  <2>. QED
    BY ZenonT(30), <1>0, <1>8, <2>1, <2>2, <2>3 DEF ByQuorum
<1>9. CASE ByForge(n, act)
  <2>1. CASE n = s /\ act.type \in {"Do_nothing", "Inject_block"}
    <3>1. Injected(act) = {} /\ Asked(act) = {}
      BY Zenon, <2>1, InjectedTypes, AskedTypes
    <3>. QED
      BY Zenon, <1>1, <2>1, <3>1 DEF Sends_of
  <2>2. ASSUME NEW e \in P, e.kind = "Preattestation", n = s,
               act = [type |-> "Inject_preattestation", vote |-> e.vote]
        PROVE  PendingFor(n, P \cup Asked(act), G) /\ Sends_of(s, P, G, n, act)
    <3>1. act.type = "Inject_preattestation" /\ act.vote = e.vote
      BY Zenon, <2>2
    <3>2. Injected(act) = {Vote("Preattestation", e.vote)} /\ Asked(act) = {}
      BY Zenon, <3>1, InjectedTypes, AskedTypes
    <3>. QED
      BY Zenon, <1>1, <2>2, <3>2 DEF Sends_of
  <2>3. ASSUME NEW e \in P, e.kind = "Attestation", Arrives(s, n, act, e.vote)
        PROVE  PendingFor(n, P \cup Asked(act), G) /\ Sends_of(s, P, G, n, act)
    <3>1. /\ n.level = s.level /\ n.locked = s.locked
          /\ n.proposal = s.proposal /\ n.round = s.round
      BY Zenon, <2>3 DEF Arrives, InLevel
    <3>2. /\ PendingFor(n, P \cup Asked(act), G) /\ Current(s, e.vote)
          /\ \/ Injected(act) = {}
             \/ /\ Injected(act) = {Vote("Attestation", e.vote)} /\ GrantedIn(G, e.vote)
                /\ s.phase # "Awaiting_preattestations"
      BY Zenon, <1>1, <2>3, ArrivesPending
    <3>3. Current(n, e.vote)
      BY Zenon, <3>1, <3>2 DEF Current
    <3>. QED
      BY ZenonT(30), <2>3, <3>1, <3>2, <3>3 DEF Sends_of
  <2>. QED
    BY Zenon, <1>0, <1>9, <2>1, <2>2, <2>3 DEF ByForge
<1>. QED
  BY Zenon, <1>5, <1>6, <1>7, <1>8, <1>9 DEF Turned

LEMMA ForgePending ==
  ASSUME TypeInv, ProcessRequest \/ Sign \/ SigningFails
  PROVE  /\ Pending' \subseteq Pending
         /\ UNCHANGED <<st, loop, previous, stepped, votes, granted>>
<1>1. requests \in Seq(Requests) /\ signing \in Seq(Requests) /\ ready \in Seq(Requests)
  BY Zenon DEF TypeInv
<1>2. UNCHANGED <<st, loop, previous, stepped, votes, granted>>
  BY Zenon DEF ProcessRequest, Sign, SigningFails, automaton, history
<1>3. Pending' = {r \in Entries(requests') \cup Entries(signing') \cup Entries(ready') :
                    r.kind # "Block"}
  BY Zenon DEF Pending
<1>4. CASE ProcessRequest
  <2>1. PICK r : r = Head(requests)
    BY Zenon
  <2>2. requests # <<>> /\ requests' = Tail(requests) /\ ready' = ready
    BY Zenon, <1>4 DEF ProcessRequest
  <2>3. r \in Requests /\ r \in Entries(requests) /\ Entries(requests') \subseteq Entries(requests)
    BY Zenon, <1>1, <2>1, <2>2, EntriesOfTail
  <2>4. signing' \in {signing, Append(signing, r)}
    BY Zenon, <1>4, <2>1 DEF ProcessRequest
  <2>5. Entries(signing') \subseteq Entries(signing) \cup {r}
    <3>1. Entries(Append(signing, r)) = Entries(signing) \cup {r}
      BY SMTT(30), <1>1, <2>3, EntriesOfAppend
    <3>. QED
      BY Zenon, <2>4, <3>1
  <2>. QED
    BY Zenon, <1>2, <1>3, <2>2, <2>3, <2>5 DEF Pending
<1>5. CASE Sign \/ SigningFails
  <2>1. PICK r : r = Head(signing)
    OBVIOUS
  <2>2. signing # <<>> /\ signing' = Tail(signing) /\ requests' = requests
    BY Zenon, <1>5 DEF Sign, SigningFails
  <2>3. r \in Requests /\ r \in Entries(signing) /\ Entries(signing') \subseteq Entries(signing)
    BY Zenon, <1>1, <2>1, <2>2, EntriesOfTail
  <2>4. ready' \in {ready, Append(ready, r)}
    BY Zenon, <1>5, <2>1 DEF Sign, SigningFails
  <2>5. Entries(ready') \subseteq Entries(ready) \cup {r}
    <3>1. Entries(Append(ready, r)) = Entries(ready) \cup {r}
      BY SMTT(30), <1>1, <2>3, EntriesOfAppend
    <3>. QED
      BY Zenon, <2>4, <3>1
  <2>. QED
    BY Zenon, <1>2, <1>3, <2>2, <2>3, <2>5 DEF Pending
<1>. QED
  BY Zenon, <1>4, <1>5

--------------------------------------------------------------------------------
(* The lock.                                                                 *)

LEMMA FewerVotes ==
  ASSUME NEW s, NEW V, NEW P, NEW G, VoteFor(s, V, P, G),
         NEW R, R \subseteq P, NEW H, G \subseteq H, NEW W, W \subseteq V
  PROVE  VoteFor(s, W, R, H)
<1>1. \A v : Justified(v, V, G) => Justified(v, W, H)
  BY Zenon DEF Justified
<1>. QED
  BY Zenon, <1>1 DEF VoteFor

LEMMA SameVotes ==
  ASSUME NEW s, NEW n, NEW V, NEW P, NEW G, VoteFor(s, V, P, G),
         n.level = s.level, n.round = s.round, n.locked = s.locked,
         \A v : Current(s, v) => Current(n, v),
         n.phase = "Awaiting_preattestations" \/ s.phase # "Awaiting_preattestations"
           \/ n.phase = s.phase
  PROVE  VoteFor(n, V, P, G)
<1>1. \A v : LocksIn(s, v) <=> LocksIn(n, v)
  BY Zenon DEF LocksIn
<1>. QED
  BY ZenonT(30), <1>1 DEF VoteFor

\* A proposal that the lock lets through is justified against what was attested.
LEMMA VotesForJustified ==
  ASSUME NEW s \in AutoStates, Sound(s), NEW n, NEW act, Votes_for(s, n, act),
         NEW V, V \subseteq Votes, NEW P, NEW G, G \subseteq QuorumEvents, VoteFor(s, V, P, G)
  PROVE  Justified(Content(n.proposal), V, G)
<1>1. PICK p : p = n.proposal
  BY Zenon
<1>2. p \in Proposals /\ p.level = s.level /\ Unlocks(s, p)
  BY Zenon, <1>1 DEF Votes_for, Enters, Follows, InLevel, AutoStates
<1>3. PICK v : v = Content(p)
  BY Zenon
<1>4. v.level = s.level /\ v.payload = p.payload /\ v.round = p.round
  BY Zenon, <1>2, <1>3 DEF Content
<1>5. ASSUME NEW a \in V, a.kind = "Attestation", a.vote.level = v.level, a.vote.round < v.round,
             a.vote.payload # v.payload
      PROVE  \/ \E x \in Proposals : Content(x) = v /\ \E q \in x.prequorum : q > a.vote.round
             \/ \E g \in G :
                  /\ g.kind = "Preattestation" /\ g.candidate.level = v.level
                  /\ g.candidate.payload = v.payload /\ g.candidate.round > a.vote.round
  <2>1. LocksIn(s, a.vote)
    BY ZenonT(30), <1>4, <1>5 DEF VoteFor
  <2>2. PICK l \in s.locked : TRUE
    BY Zenon, <2>1 DEF LocksIn
  <2>3. a.vote.round <= l.round /\ (a.vote.round = l.round => a.vote.payload = l.payload)
    BY Zenon, <2>1 DEF LocksIn
  <2>4. a.vote.round \in Nat /\ l.round \in Nat
    BY Zenon DEF Votes, VoteContents, AutoStates, LockedRounds
  <2>5. CASE l.payload = p.payload
    <3>1. l.round > a.vote.round
      BY SMTT(30), <1>4, <1>5, <2>3, <2>4, <2>5
    <3>2. PICK g \in G : /\ g.kind = "Preattestation" /\ g.candidate.level = s.level
                         /\ g.candidate.round = l.round /\ g.candidate.payload = l.payload
      BY Zenon DEF VoteFor
    <3>. QED
      BY Zenon, <1>4, <2>5, <3>1, <3>2
  <2>6. ASSUME NEW q \in p.prequorum, l.round < q
        PROVE  q > a.vote.round
    <3>1. q \in Nat
      BY Zenon, <1>2, FieldsOfProposal
    <3>. QED
      BY SMTT(30), <2>3, <2>4, <2>6, <3>1
  <2>. QED
    BY Zenon, <1>2, <1>3, <2>5, <2>6 DEF Unlocks
<1>6. Justified(v, V, G)
  BY ZenonT(30), <1>5 DEF Justified
<1>. QED
  BY Zenon, <1>1, <1>3, <1>6

LEMMA ProposedVotes ==
  ASSUME NEW s \in AutoStates, Sound(s), NEW n, NEW act, Proposed(s, n, act),
         NEW V, V \subseteq Votes, NEW P, NEW G, G \subseteq QuorumEvents, VoteFor(s, V, P, G)
  PROVE  VoteFor(n, V, P \cup Asked(act), G)
<1>1. CASE act = Do_nothing /\ Stays(s, n)
  <2>1. VoteFor(n, V, P, G)
    BY Zenon, <1>1, SameVotes DEF Stays, InLevel, Current
  <2>2. Asked(act) = {}
    BY Zenon, <1>1, AskedTypes DEF Do_nothing
  <2>. QED
    BY Zenon, <2>1, <2>2
<1>2. ASSUME Follows(s, n), s.phase = "Idle" \/ n.phase = "Awaiting_preattestations"
      PROVE  VoteFor(n, V, P, G)
  <2>1. \A v : Current(s, v) => Current(n, v)
    BY Zenon, <1>2, FollowsCurrent
  <2>2. n.level = s.level /\ n.round = s.round /\ n.locked = s.locked
    BY Zenon, <1>2 DEF Follows, InLevel
  <2>. QED
    BY Zenon, <1>2, <2>1, <2>2, SameVotes
<1>3. CASE act = Do_nothing /\ Adopts(s, n)
  <2>1. Asked(act) = {}
    BY Zenon, <1>3, AskedTypes DEF Do_nothing
  <2>. QED
    BY ZenonT(30), <1>2, <1>3, <2>1 DEF Adopts
<1>4. CASE act = Watch_prequorum /\ Enters(s, n)
  <2>1. Asked(act) = {}
    BY Zenon, <1>4, AskedTypes DEF Watch_prequorum
  <2>. QED
    BY Zenon, <1>2, <1>4, <2>1 DEF Enters
<1>5. CASE Votes_for(s, n, act)
  <2>1. VoteFor(n, V, P, G) /\ n.phase = "Awaiting_preattestations"
    BY Zenon, <1>2, <1>5 DEF Votes_for, Enters
  <2>2. act.type = "Prepare_consensus_votes" /\ act.vote = Content(n.proposal)
    BY Zenon, <1>5 DEF Votes_for
  <2>3. \A t \in Asked(act) : t.vote = Content(n.proposal)
    BY SMTT(30), <2>2, AskedTypes DEF Vote
  <2>4. Justified(Content(n.proposal), V, G)
    BY Zenon, <1>5, VotesForJustified
  <2>. QED
    BY ZenonT(30), <2>1, <2>3, <2>4 DEF VoteFor
<1>. QED
  BY Zenon, <1>1, <1>3, <1>4, <1>5 DEF Proposed

\* The prequorum of the current proposal locks above all that was sent.
LEMMA LocksVotes ==
  ASSUME NEW s \in AutoStates, Sound(s), NEW n, NEW act, Locks(s, n, act),
         NEW V, V \subseteq Votes, NEW P, P \subseteq Votes, NEW G,
         PendingFor(s, P, G), VoteFor(s, V, P, G),
         [kind |-> "Preattestation", candidate |-> s.proposal] \in G
  PROVE  /\ VoteFor(n, V, P \cup Asked(act), G)
         /\ \A v : Current(s, v) => LocksIn(n, v) /\ Current(n, v)
<1> DEFINE l == [round |-> s.proposal.round, payload |-> s.proposal.payload]
           g == [kind |-> "Preattestation", candidate |-> s.proposal]
<1>1. /\ n.level = s.level /\ n.round = s.round /\ n.proposal = s.proposal /\ n.locked = {l}
      /\ s.proposal.round = s.round /\ s.proposal.level = s.level
      /\ l.round = s.round /\ l.payload = s.proposal.payload
  BY Zenon DEF Locks, InLevel, Sound
<1>2. g \in G /\ g.kind = "Preattestation" /\ g.candidate = s.proposal
  BY Zenon
<1> HIDE DEF l, g
<1>3. s.round \in Nat
  BY Zenon, <1>1, FieldsOfProposal DEF AutoStates
<1>4. \A v : Current(s, v) => Current(n, v)
  BY ZenonT(30), <1>1 DEF Current
<1>5. ASSUME NEW v, v.round <= s.round, v.round = s.round => Current(s, v)
      PROVE  LocksIn(n, v)
  <2>1. v.round = s.round => v.payload = s.proposal.payload
    BY SMTT(30), <1>5 DEF Current, Content
  <2>. QED
    BY ZenonT(30), <1>1, <1>5, <2>1 DEF LocksIn
<1>6. ASSUME NEW v, Current(s, v) PROVE LocksIn(n, v)
  <2>1. v.round = s.round
    BY ZenonT(30), <1>1, <1>6 DEF Current, Content
  <2>. QED
    BY SMTT(30), <1>3, <1>5, <1>6, <2>1
<1>7. \A t \in Asked(act) : t.kind = "Attestation" /\ Current(s, t.vote)
  <2>1. CASE act = [type |-> "Prepare_attestations", vote |-> Content(s.proposal)]
    <3>1. act.type = "Prepare_attestations" /\ act.vote = Content(s.proposal)
      BY Zenon, <2>1
    <3>2. Asked(act) = {Vote("Attestation", Content(s.proposal))}
      BY Zenon, <3>1, AskedTypes
    <3>. QED
      BY SMTT(30), <1>1, <3>2 DEF Vote, Current
  <2>2. CASE act.type \in {"Watch_quorum", "Inject_attestations"}
    BY Zenon, <2>2, AskedTypes
  <2>. QED
    BY SMTT(30), <2>1, <2>2 DEF Locks, Watch_quorum
<1>8. \A t \in V : t.vote.level = s.level => LocksIn(n, t.vote)
  BY Zenon, <1>5 DEF VoteFor
<1>9. \A t \in P : t.vote.level = s.level => LocksIn(n, t.vote)
  BY ZenonT(30), <1>6 DEF PendingFor
<1>10. \E x \in G : /\ x.kind = "Preattestation" /\ x.candidate.level = n.level
                    /\ x.candidate.round = l.round /\ x.candidate.payload = l.payload
  BY Zenon, <1>1, <1>2
<1>11. \A t \in P \cup Asked(act) \cup V : t.kind = "Preattestation" => Justified(t.vote, V, G)
  <2>1. \A t \in Asked(act) : t.kind # "Preattestation"
    BY Zenon, <1>7
  <2>. QED
    BY ZenonT(30), <2>1 DEF VoteFor
<1>12. \A t \in V :
         /\ t.vote.level <= n.level
         /\ t.vote.level = n.level =>
              t.vote.round <= n.round /\ (t.vote.round = n.round => Current(n, t.vote))
  BY ZenonT(30), <1>1, <1>4 DEF VoteFor
<1>13. VoteFor(n, V, P \cup Asked(act), G)
  BY Zenon, <1>1, <1>6, <1>7, <1>8, <1>9, <1>10, <1>11, <1>12 DEF VoteFor
<1>. QED
  BY ZenonT(30), <1>4, <1>6, <1>13

LEMMA LevelVotes ==
  ASSUME NEW s \in AutoStates, NEW L, StartsLevel(s, L), NEW V, V \subseteq Votes,
         NEW P, P \subseteq Votes, NEW G, PendingFor(s, P, G), VoteFor(s, V, P, G)
  PROVE  VoteFor(L, V, P, G)
<1>1. L.level > s.level /\ L.locked = {} /\ L.level \in Nat /\ s.level \in Nat
  BY Zenon DEF StartsLevel, AutoStates
<1>2. ASSUME NEW t \in V \cup P
      PROVE  t.vote.level <= L.level /\ t.vote.level # L.level
  <2>1. t.vote.level <= s.level
    BY Zenon DEF VoteFor, PendingFor
  <2>2. t.vote.level \in Nat
    BY Zenon DEF Votes, VoteContents
  <2>. QED
    BY SMTT(30), <1>1, <2>1, <2>2
<1>. QED
  BY ZenonT(30), <1>1, <1>2 DEF VoteFor

\* A later round: nothing is on its way, and all was sent before.
LEMMA RenewsVotes ==
  ASSUME NEW s \in AutoStates, NEW n, NEW round \in Int, round \in {s.round, s.round + 1},
         Renews(s, n, round), NEW V, V \subseteq Votes, NEW G, VoteFor(s, V, {}, G)
  PROVE  VoteFor(n, V, {}, G)
<1>1. /\ n.level = s.level /\ n.round = round /\ n.locked = s.locked /\ n.proposal = s.proposal
      /\ s.round \in Int
  BY Zenon DEF Renews, AutoStates
<1>2. \A v : LocksIn(s, v) <=> LocksIn(n, v)
  BY ZenonT(30), <1>1 DEF LocksIn
<1>3. ASSUME NEW t \in V, t.vote.level = n.level
      PROVE  t.vote.round <= n.round /\ (t.vote.round = n.round => Current(n, t.vote))
  <2>1. t.vote.round <= s.round /\ (t.vote.round = s.round => Current(s, t.vote))
    BY Zenon, <1>1, <1>3 DEF VoteFor
  <2>2. t.vote.round \in Nat
    BY Zenon DEF Votes, VoteContents
  <2>3. CASE round = s.round
    BY ZenonT(30), <1>1, <2>1, <2>3 DEF Current
  <2>4. CASE round = s.round + 1
    BY SMTT(30), <1>1, <2>1, <2>2, <2>4
  <2>. QED
    BY Zenon, <2>3, <2>4
<1>. QED
  BY ZenonT(30), <1>1, <1>2, <1>3 DEF VoteFor

\* Votes I are sent from the state n, with R on their way.
LEMMA VotesAdded ==
  ASSUME NEW n \in AutoStates, Sound(n), NEW V, V \subseteq Votes, NEW R, R \subseteq Votes, NEW G,
         PendingFor(n, R, G), VoteFor(n, V, R, G), NEW I, I \subseteq Votes,
         \A t \in I : /\ t.vote.level <= n.level
                      /\ t.vote.level = n.level => Current(n, t.vote)
                      /\ t.kind = "Preattestation" => Justified(t.vote, V, G)
                      /\ t.kind = "Attestation" => Current(n, t.vote) /\ LocksIn(n, t.vote)
  PROVE  VoteFor(n, V \cup I, R, G)
<1>1. n.round \in Int /\ n.proposal.round \in Nat
  BY ZenonT(30), FieldsOfProposal DEF AutoStates
<1>2. ASSUME NEW v, Current(n, v) PROVE v.round = n.round
  BY ZenonT(30), <1>2 DEF Current, Content
<1>3. ASSUME NEW t \in V \cup R \cup I, t.vote.level = n.level
      PROVE  t.vote.round <= n.round /\ (t.vote.round = n.round => Current(n, t.vote))
  <2>1. CASE t \in V
    BY ZenonT(30), <1>3, <2>1 DEF VoteFor
  <2>2. CASE t \in R \cup I
    <3>1. Current(n, t.vote)
      BY Zenon, <1>3, <2>2 DEF PendingFor
    <3>. QED
      BY SMTT(30), <1>1, <1>2, <3>1
  <2>. QED
    BY ZenonT(30), <2>1, <2>2
<1>4. ASSUME NEW t \in R \cup V \cup I, t.kind = "Preattestation"
      PROVE  Justified(t.vote, V \cup I, G)
  <2>1. Justified(t.vote, V, G)
    BY ZenonT(30), <1>4 DEF VoteFor
  <2>2. ASSUME NEW a \in I, a.kind = "Attestation", a.vote.level = t.vote.level,
               a.vote.round < t.vote.round
        PROVE  FALSE
    <3>1. Current(n, a.vote) /\ a.vote.level <= n.level
      BY Zenon, <2>2
    <3>2. a.vote.round = n.round
      BY Zenon, <1>2, <3>1
    <3>3. t.vote.level # n.level
      <4>1. t.vote.round \in Nat
        BY Zenon DEF Votes, VoteContents
      <4>. QED
        BY SMTT(30), <1>1, <1>3, <2>2, <3>2, <4>1
    <3>4. a.vote.level = n.level
      BY SMTT(30), <3>1 DEF Current, Content, Sound
    <3>. QED
      BY Zenon, <2>2, <3>3, <3>4
  <2>. QED
    BY ZenonT(30), <2>1, <2>2 DEF Justified
<1>5. \A t \in V \cup I : t.kind = "Attestation" /\ t.vote.level = n.level => LocksIn(n, t.vote)
  BY Zenon DEF VoteFor
<1>6. \A t \in V \cup I : t.vote.level <= n.level
  BY Zenon DEF VoteFor
<1>7. /\ \A t \in R : t.kind = "Attestation" /\ t.vote.level = n.level =>
           n.phase = "Awaiting_preattestations" \/ LocksIn(n, t.vote)
      /\ \A l \in n.locked : \E g \in G :
           /\ g.kind = "Preattestation" /\ g.candidate.level = n.level
           /\ g.candidate.round = l.round /\ g.candidate.payload = l.payload
  BY ZenonT(30) DEF VoteFor
<1>. QED
  BY ZenonT(30), <1>3, <1>4, <1>5, <1>6, <1>7 DEF VoteFor

LEMMA TurnVotesState ==
  ASSUME PromptSigning, VoteInv, NEW n, NEW act, Turned(n, act)
  PROVE  VoteFor(n, votes, Pending \cup Asked(act), granted)
<1>0. PICK s, V, P, G : s = st /\ V = votes /\ P = Pending /\ G = granted
  BY Zenon
<1>1. /\ s \in AutoStates /\ Sound(s) /\ V \subseteq Votes /\ P \subseteq Votes
      /\ G \subseteq QuorumEvents /\ PendingFor(s, P, G) /\ VoteFor(s, V, P, G)
  BY Zenon, <1>0, PendingType DEF VoteInv, PendInv, RoundInv, TypeInv, Followed
<1> SUFFICES VoteFor(n, V, P \cup Asked(act), G)
  BY ZenonT(30), <1>0
<1>2. Asked(Do_nothing) = {}
  BY Zenon, AskedTypes DEF Do_nothing
<1>3. ASSUME n.level = s.level, n.round = s.round, n.locked = s.locked, n.proposal = s.proposal,
             s.phase # "Awaiting_preattestations" \/ n.phase = s.phase, Asked(act) = {}
      PROVE  VoteFor(n, V, P \cup Asked(act), G)
  <2>1. \A v : Current(s, v) => Current(n, v)
    BY Zenon, <1>3 DEF Current
  <2>2. VoteFor(n, V, P, G)
    BY ZenonT(30), <1>1, <1>3, <2>1, SameVotes
  <2>. QED
    BY Zenon, <1>3, <2>2
<1>4. CASE n = s /\ Asked(act) = {}
  BY Zenon, <1>3, <1>4
<1>5. CASE ByProposal(n, act)
  <2>1. CASE Proposed(s, n, act)
    BY ZenonT(30), <1>1, <2>1, ProposedVotes
  <2>2. CASE Elects(s, n) /\ act = Do_nothing
    BY Zenon, <1>2, <1>3, <2>2 DEF Elects, InLevel
  <2>. QED
    BY Zenon, <1>0, <1>5, <2>1, <2>2 DEF ByProposal
<1>6. CASE ByLevel(n, act)
  <2>1. PICK L : StartsLevel(s, L) /\ Proposed(L, n, act)
    BY Zenon, <1>0, <1>6 DEF ByLevel
  <2>2. L \in AutoStates /\ Sound(L)
    BY Zenon, <2>1 DEF StartsLevel
  <2>3. VoteFor(L, V, P, G)
    BY ZenonT(30), <1>1, <2>1, LevelVotes
  <2>. QED
    BY ZenonT(30), <1>1, <2>1, <2>2, <2>3, ProposedVotes
<1>7. CASE ByTimeout(n, act)
  <2>1. Asked(act) = {}
    BY Zenon, <1>7, AskedTypes DEF ByTimeout
  <2>2. CASE Stays(s, n)
    BY ZenonT(30), <1>3, <2>1, <2>2 DEF Stays, InLevel
  <2>3. s.round \in Int /\ s.round + 1 \in Int
    BY SMTT(30), <1>1 DEF AutoStates
  <2>4. ASSUME NEW round \in Int, round \in {s.round, s.round + 1}, Renews(s, n, round), P = {}
        PROVE  VoteFor(n, V, P \cup Asked(act), G)
    <3>1. VoteFor(n, V, {}, G)
      BY Zenon, <1>1, <2>4, RenewsVotes
    <3>. QED
      BY Zenon, <2>1, <2>4, <3>1
  <2>5. loop = "boot" => P = {}
    BY Zenon, <1>0 DEF VoteInv, PendInv
  <2>. QED
    BY Zenon, <1>0, <1>7, <2>2, <2>3, <2>4, <2>5 DEF ByTimeout
<1>8. CASE ByQuorum(n, act)
  <2>1. CASE n = s /\ act = Do_nothing
    BY Zenon, <1>2, <1>4, <2>1
  <2>2. CASE /\ Head(qc) = [kind |-> "Preattestation", candidate |-> s.proposal]
             /\ Locks(s, n, act)
    <3>1. Head(qc) \in Entries(qc) /\ Entries(qc) \subseteq G
      BY ZenonT(30), <1>0, <1>8, EntriesOfTail DEF ByQuorum, VoteInv, PendInv, RoundInv
    <3>2. [kind |-> "Preattestation", candidate |-> s.proposal] \in G
      BY Zenon, <2>2, <3>1
    <3>. QED
      BY ZenonT(30), <1>1, <2>2, <3>2, LocksVotes
  <2>3. CASE act = Do_nothing /\ (Elects(s, n) \/ Delays(s, n))
    BY ZenonT(30), <1>2, <1>3, <2>3 DEF Elects, Delays, InLevel
  <2>. QED
    BY ZenonT(30), <1>0, <1>8, <2>1, <2>2, <2>3 DEF ByQuorum
<1>9. CASE ByForge(n, act)
  <2>1. CASE n = s /\ act.type \in {"Do_nothing", "Inject_block", "Inject_preattestation"}
    BY Zenon, <1>4, <2>1, AskedTypes
  <2>2. ASSUME NEW v, Arrives(s, n, act, v)
        PROVE  VoteFor(n, V, P \cup Asked(act), G)
    <3>1. act.type \in {"Do_nothing", "Inject_attestations"}
      BY SMTT(30), <2>2 DEF Arrives, Do_nothing
    <3>2. Asked(act) = {}
      BY Zenon, <3>1, AskedTypes
    <3>. QED
      BY ZenonT(30), <1>3, <2>2, <3>2 DEF Arrives, InLevel
  <2>3. \/ n = s /\ act.type \in {"Do_nothing", "Inject_block", "Inject_preattestation"}
        \/ \E v : Arrives(s, n, act, v)
    BY <1>0, <1>9 DEF ByForge
  <2>. QED
    BY Zenon, <2>1, <2>2, <2>3
<1>. QED
  BY Zenon, <1>5, <1>6, <1>7, <1>8, <1>9 DEF Turned

================================================================================
