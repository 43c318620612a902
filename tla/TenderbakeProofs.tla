---------------------------- MODULE TenderbakeProofs ----------------------------
(****************************************************************************)
(* Agreement of Tenderbake, for any number of bakers, slots, payloads and   *)
(* rounds.                                                                  *)
(*                                                                          *)
(* The argument: two quorums share an honest baker, so a round has at most  *)
(* one prequorum.  An honest baker that attests v and later preattests w    *)
(* must have been shown a prequorum on w in between.  That prequorum shares *)
(* a baker with the quorum on v, which leads to an earlier one still, and   *)
(* so on down to the round of the quorum.                                   *)
(*                                                                          *)
(* A baker may also preattest late, when its prequorum already exists and   *)
(* has locked it: that vote needs no earlier prequorum.  The invariant      *)
(* therefore says that the votes which formed a prequorum are justified,    *)
(* not that all its votes are.                                              *)
(****************************************************************************)
EXTENDS Tenderbake, FiniteSetTheorems, NaturalsInduction, WellFoundedInduction, TLAPS

--------------------------------------------------------------------------------
(* The inductive invariant, over the preattestations P, the attestations A  *)
(* and the locks L.                                                         *)

Typed(P, A, L) ==
  /\ P \subseteq Votes /\ A \subseteq Votes
  /\ L \in [Honest -> {{}} \cup {{x} : x \in Rounds \X Payloads}]

OncePerRound(P) ==
  \A b \in Honest, r \in Rounds, v, w \in Payloads :
    <<b, r, v>> \in P /\ <<b, r, w>> \in P => v = w

LocksBacked(P, L) ==
  \A b \in Honest, r \in Rounds, v \in Payloads : <<r, v>> \in L[b] => HasQuorum(P, r, v)

AttsLocked(P, A, L) ==
  \A b \in Honest, r \in Rounds, v \in Payloads : <<b, r, v>> \in A =>
    /\ HasQuorum(P, r, v)
    /\ \E q \in Rounds, w \in Payloads : <<q, w>> \in L[b] /\ r <= q

\* A prequorum on v strictly between the rounds m and r.
Shown(P, m, r, v) == \E n \in Rounds : m < n /\ n < r /\ HasQuorum(P, n, v)

LocksRespected(P, L) ==
  \A b \in Honest, m, r \in Rounds, v, w \in Payloads :
    <<m, v>> \in L[b] /\ <<b, r, w>> \in P /\ m < r /\ v # w => Shown(P, m, r, w)

Justified(P, A, b, r, w) ==
  \A m \in Rounds, v \in Payloads : <<b, m, v>> \in A /\ m < r /\ v # w => Shown(P, m, r, w)

Founders(P, A, r, v) ==
  {s \in Slots : \/ Owner[s] \in Faulty
                 \/ <<Owner[s], r, v>> \in P /\ Justified(P, A, Owner[s], r, v)}

Unformed(P, A) ==
  \A b \in Honest, r \in Rounds, v \in Payloads :
    <<b, r, v>> \in P /\ ~HasQuorum(P, r, v) => Justified(P, A, b, r, v)

Formed(P, A) ==
  \A r \in Rounds, v \in Payloads :
    HasQuorum(P, r, v) => Cardinality(Founders(P, A, r, v)) >= Threshold

Good(P, A, L) ==
  /\ Typed(P, A, L) /\ OncePerRound(P) /\ LocksBacked(P, L) /\ AttsLocked(P, A, L)
  /\ LocksRespected(P, L) /\ Unformed(P, A) /\ Formed(P, A)

--------------------------------------------------------------------------------
(* Quorums.                                                                 *)

\* Two sets of slots that reach the threshold share a slot of an honest baker.
LEMMA SharedSlot ==
  ASSUME NEW A \in SUBSET Slots, NEW B \in SUBSET Slots,
         Cardinality(A) >= Threshold, Cardinality(B) >= Threshold
  PROVE  \E s \in A \cap B : Owner[s] \in Honest
<1>1. /\ IsFiniteSet(A) /\ IsFiniteSet(B) /\ IsFiniteSet(Slots) /\ IsFiniteSet(A \cup B)
      /\ IsFiniteSet(FaultySlots)
  BY TenderbakeAssumption, FS_Subset DEF FaultySlots
<1>2. /\ Cardinality(A) \in Nat /\ Cardinality(B) \in Nat /\ Cardinality(Slots) \in Nat
      /\ Cardinality(A \cap B) \in Nat /\ Cardinality(FaultySlots) \in Nat
  BY Zenon, <1>1, FS_CardinalityType, FS_Intersection
<1>3. Cardinality(A \cup B) = Cardinality(A) + Cardinality(B) - Cardinality(A \cap B)
  BY <1>1, FS_Union
<1>4. Cardinality(A \cup B) <= Cardinality(Slots)
  BY <1>1, FS_Subset
<1>5. Cardinality(A \cap B) > Cardinality(FaultySlots)
  <2>1. Cardinality(Slots) + Cardinality(FaultySlots) < 2 * Threshold /\ Threshold \in Nat
    BY TenderbakeAssumption
  <2> QED BY <2>1, <1>2, <1>3, <1>4
<1>6. ~ (A \cap B \subseteq FaultySlots)
  BY <1>1, <1>2, <1>5, FS_Subset
<1> QED BY <1>6, TenderbakeAssumption DEF FaultySlots, Honest

\* More votes, more quorums.
LEMMA QuorumMonotone ==
  ASSUME NEW P, NEW Q, P \subseteq Q, NEW r, NEW v, HasQuorum(P, r, v)
  PROVE  HasQuorum(Q, r, v)
<1>1. Backing(P, r, v) \subseteq Backing(Q, r, v) /\ Backing(Q, r, v) \subseteq Slots
  BY DEF Backing
<1>2. IsFiniteSet(Backing(Q, r, v)) /\ IsFiniteSet(Backing(P, r, v))
  BY <1>1, TenderbakeAssumption, FS_Subset
<1>3. Cardinality(Backing(P, r, v)) <= Cardinality(Backing(Q, r, v))
  BY <1>1, <1>2, FS_Subset
<1>4. Cardinality(Backing(P, r, v)) \in Nat /\ Cardinality(Backing(Q, r, v)) \in Nat
  BY <1>2, FS_CardinalityType
<1> QED BY <1>3, <1>4, TenderbakeAssumption DEF HasQuorum

\* When every honest baker preattests once per round, a round has one prequorum.
LEMMA UniqueQuorum ==
  ASSUME NEW P, OncePerRound(P), NEW r \in Rounds, NEW v \in Payloads, NEW w \in Payloads,
         HasQuorum(P, r, v), HasQuorum(P, r, w)
  PROVE  v = w
<1>1. PICK s \in Backing(P, r, v) \cap Backing(P, r, w) : Owner[s] \in Honest
  BY SharedSlot DEF HasQuorum, Backing
<1>2. <<Owner[s], r, v>> \in P /\ <<Owner[s], r, w>> \in P
  BY <1>1 DEF Backing, Honest
<1> QED BY <1>1, <1>2 DEF OncePerRound

--------------------------------------------------------------------------------
(* The steps.                                                               *)

\* A justification stays one when votes are added.
LEMMA JustifiedMonotone ==
  ASSUME NEW P, NEW Q, P \subseteq Q, NEW A, NEW b, NEW r, NEW v, Justified(P, A, b, r, v)
  PROVE  Justified(Q, A, b, r, v)
BY QuorumMonotone DEF Justified, Shown

\* The rule of the lock justifies a preattestation that forms a prequorum.
LEMMA NewVoteJustified ==
  ASSUME NEW P, NEW A, NEW L, Good(P, A, L),
         NEW b \in Honest, NEW r \in Rounds, NEW v \in Payloads,
         \A q \in Rounds, w \in Payloads : <<q, w>> \in L[b] =>
           q <= r /\ (w = v \/ Shown(P, q, r, v)),
         ~HasQuorum(P, r, v)
  PROVE  Justified(P, A, b, r, v)
<1> SUFFICES ASSUME NEW m \in Rounds, NEW w \in Payloads, <<b, m, w>> \in A, m < r, w # v
             PROVE  Shown(P, m, r, v)
  BY DEF Justified
<1>1. HasQuorum(P, m, w)
  BY DEF Good, AttsLocked
<1>2. PICK q \in Rounds, u \in Payloads : <<q, u>> \in L[b] /\ m <= q
  BY DEF Good, AttsLocked
<1>3. q \in Nat /\ m \in Nat /\ r \in Nat
  BY TenderbakeAssumption
<1>4. CASE u # v
  <2>1. PICK n \in Rounds : q < n /\ n < r /\ HasQuorum(P, n, v)
    BY <1>2, <1>4 DEF Shown
  <2>2. m < n
    BY <2>1, <1>2, <1>3, TenderbakeAssumption
  <2> QED BY <2>1, <2>2 DEF Shown
<1>5. CASE u = v
  <2>1. HasQuorum(P, q, v)
    BY <1>2, <1>5 DEF Good, LocksBacked
  <2>2. q # r /\ q <= r
    BY <2>1, <1>2
  <2>3. q # m
    BY <2>1, <1>1, UniqueQuorum DEF Good
  <2>4. m < q /\ q < r
    BY <1>2, <1>3, <2>2, <2>3
  <2> QED BY <2>1, <2>4 DEF Shown
<1> QED BY <1>4, <1>5

\* A preattestation preserves the invariant.
LEMMA GoodPreattest ==
  ASSUME NEW P, NEW A, NEW L, Good(P, A, L),
         NEW b \in Honest, NEW r \in Rounds, NEW v \in Payloads,
         \A q \in Rounds, w \in Payloads : <<b, q, w>> \in P => q < r,
         \A q \in Rounds, w \in Payloads : <<q, w>> \in L[b] =>
           q <= r /\ (w = v \/ Shown(P, q, r, v))
  PROVE  Good(P \cup {<<b, r, v>>}, A, L)
<1> DEFINE Q == P \cup {<<b, r, v>>}
<1>0. P \subseteq Q
  OBVIOUS
<1>m. \A n, w : HasQuorum(P, n, w) => HasQuorum(Q, n, w)
  BY <1>0, QuorumMonotone
<1>s. \A m, n, w : Shown(P, m, n, w) => Shown(Q, m, n, w)
  BY <1>m DEF Shown
<1>j. \A c, n, w : Justified(P, A, c, n, w) => Justified(Q, A, c, n, w)
  BY <1>0, JustifiedMonotone
<1>n. ~HasQuorum(P, r, v) => Justified(Q, A, b, r, v)
  BY Zenon, NewVoteJustified, <1>j
<1>q. \A c, n, w : <<c, n, w>> \in Q <=> <<c, n, w>> \in P \/ (c = b /\ n = r /\ w = v)
  OBVIOUS
<1>1. Typed(Q, A, L)
  BY DEF Good, Typed, Votes
<1> HIDE DEF Q
<1>2. OncePerRound(Q)
  <2>1. r \in Nat /\ ~ (r < r)
    BY TenderbakeAssumption
  <2> QED BY <1>q, <2>1 DEF Good, OncePerRound
<1>3. LocksBacked(Q, L)
  BY <1>m DEF Good, LocksBacked
<1>4. AttsLocked(Q, A, L)
  BY Zenon, <1>m DEF Good, AttsLocked
<1>5. LocksRespected(Q, L)
  BY <1>q, <1>s DEF Good, LocksRespected
<1>6. Unformed(Q, A)
  BY <1>q, <1>m, <1>j, <1>n DEF Good, Unformed
<1>7. Formed(Q, A)
  <2> SUFFICES ASSUME NEW n \in Rounds, NEW w \in Payloads, HasQuorum(Q, n, w)
               PROVE  Cardinality(Founders(Q, A, n, w)) >= Threshold
    BY DEF Formed
  <2>1. CASE HasQuorum(P, n, w)
    <3>1. Founders(P, A, n, w) \subseteq Founders(Q, A, n, w) /\ Founders(Q, A, n, w) \subseteq Slots
      BY <1>q, <1>j DEF Founders
    <3>2. IsFiniteSet(Founders(Q, A, n, w)) /\ IsFiniteSet(Founders(P, A, n, w))
      BY <3>1, TenderbakeAssumption, FS_Subset
    <3>3. Cardinality(Founders(P, A, n, w)) <= Cardinality(Founders(Q, A, n, w))
      BY <3>1, <3>2, FS_Subset
    <3>4. /\ Cardinality(Founders(P, A, n, w)) \in Nat
          /\ Cardinality(Founders(Q, A, n, w)) \in Nat
      BY <3>2, FS_CardinalityType
    <3>5. Cardinality(Founders(P, A, n, w)) >= Threshold
      BY <2>1 DEF Good, Formed
    <3> QED BY <3>3, <3>4, <3>5, TenderbakeAssumption
  <2>2. CASE ~HasQuorum(P, n, w)
    <3>1. \A c \in Honest : <<c, n, w>> \in Q => Justified(Q, A, c, n, w)
      BY <2>2, <1>q, <1>j, <1>n DEF Good, Unformed
    <3>2. Founders(Q, A, n, w) = Backing(Q, n, w)
      BY <3>1, TenderbakeAssumption DEF Founders, Backing, Honest
    <3> QED BY <3>2 DEF HasQuorum
  <2> QED BY <2>1, <2>2
<1> QED BY <1>1, <1>2, <1>3, <1>4, <1>5, <1>6, <1>7 DEF Good, Q

\* A lock preserves the invariant.
LEMMA GoodLock ==
  ASSUME NEW P, NEW A, NEW L, Good(P, A, L),
         NEW b \in Honest, NEW r \in Rounds, NEW v \in Payloads, HasQuorum(P, r, v),
         \A q \in Rounds, w \in Payloads : <<b, q, w>> \in P => q <= r,
         \A q \in Rounds, w \in Payloads : <<q, w>> \in L[b] => q <= r
  PROVE  Good(P, A, [L EXCEPT ![b] = {<<r, v>>}])
<1> DEFINE M == [L EXCEPT ![b] = {<<r, v>>}]
<1>1. Typed(P, A, M)
  BY DEF Good, Typed
<1>2. /\ M[b] = {<<r, v>>}
      /\ \A c \in Honest : c # b => M[c] = L[c]
  BY DEF Good, Typed
<1> HIDE DEF M
<1>3. LocksBacked(P, M)
  BY <1>2 DEF Good, LocksBacked
<1>4. AttsLocked(P, A, M)
  <2> SUFFICES ASSUME NEW c \in Honest, NEW n \in Rounds, NEW w \in Payloads, <<c, n, w>> \in A
               PROVE  /\ HasQuorum(P, n, w)
                      /\ \E q \in Rounds, u \in Payloads : <<q, u>> \in M[c] /\ n <= q
    BY Zenon DEF AttsLocked
  <2>1. PICK q \in Rounds, u \in Payloads : <<q, u>> \in L[c] /\ n <= q
    BY DEF Good, AttsLocked
  <2>2. CASE c = b
    <3>1. n <= r
      BY <2>1, <2>2, TenderbakeAssumption
    <3> QED BY <3>1, <2>2, <1>2 DEF Good, AttsLocked
  <2>3. CASE c # b
    BY <2>1, <2>3, <1>2 DEF Good, AttsLocked
  <2> QED BY <2>2, <2>3
<1>5. LocksRespected(P, M)
  <2> SUFFICES ASSUME NEW c \in Honest, NEW m \in Rounds, NEW n \in Rounds,
                      NEW u \in Payloads, NEW w \in Payloads,
                      <<m, u>> \in M[c], <<c, n, w>> \in P, m < n, u # w
               PROVE  Shown(P, m, n, w)
    BY DEF LocksRespected
  <2>1. CASE c = b
    <3>1. m = r /\ n <= r
      BY <2>1, <1>2
    <3> QED BY <3>1, TenderbakeAssumption
  <2>2. CASE c # b
    BY <2>2, <1>2 DEF Good, LocksRespected
  <2> QED BY <2>1, <2>2
<1> QED BY <1>1, <1>3, <1>4, <1>5 DEF Good, M

\* An attestation of the locked payload preserves the invariant.
LEMMA GoodAttest ==
  ASSUME NEW P, NEW A, NEW L, Good(P, A, L),
         NEW b \in Honest, NEW r \in Rounds, NEW v \in Payloads, <<r, v>> \in L[b]
  PROVE  Good(P, A \cup {<<b, r, v>>}, L)
<1> DEFINE B == A \cup {<<b, r, v>>}
<1>q. \A c, n, w : <<c, n, w>> \in B <=> <<c, n, w>> \in A \/ (c = b /\ n = r /\ w = v)
  OBVIOUS
<1>1. Typed(P, B, L)
  BY DEF Good, Typed, Votes
<1> HIDE DEF B
<1>2. AttsLocked(P, B, L)
  <2>1. HasQuorum(P, r, v) /\ r <= r
    BY TenderbakeAssumption DEF Good, LocksBacked
  <2> QED BY SMTT(30), <1>q, <2>1 DEF Good, AttsLocked
<1>3. \A c \in Honest, n \in Rounds, w \in Payloads :
        <<c, n, w>> \in P /\ Justified(P, A, c, n, w) => Justified(P, B, c, n, w)
  BY <1>q DEF Good, LocksRespected, Justified
<1>4. Unformed(P, B)
  BY <1>3 DEF Good, Unformed
<1>5. Formed(P, B)
  <2> SUFFICES ASSUME NEW n \in Rounds, NEW w \in Payloads, HasQuorum(P, n, w)
               PROVE  Cardinality(Founders(P, B, n, w)) >= Threshold
    BY DEF Formed
  <2>1. Founders(P, A, n, w) \subseteq Founders(P, B, n, w)
    BY <1>3, TenderbakeAssumption DEF Founders, Honest
  <2>2. Founders(P, B, n, w) \subseteq Slots
    BY DEF Founders
  <2>3. IsFiniteSet(Founders(P, A, n, w)) /\ IsFiniteSet(Founders(P, B, n, w))
    BY <2>1, <2>2, TenderbakeAssumption, FS_Subset
  <2>4. Cardinality(Founders(P, A, n, w)) <= Cardinality(Founders(P, B, n, w))
    BY <2>1, <2>3, FS_Subset
  <2>5. /\ Cardinality(Founders(P, A, n, w)) \in Nat
        /\ Cardinality(Founders(P, B, n, w)) \in Nat
    BY <2>3, FS_CardinalityType
  <2>6. Cardinality(Founders(P, A, n, w)) >= Threshold
    BY DEF Good, Formed
  <2> QED BY <2>4, <2>5, <2>6, TenderbakeAssumption
<1> QED BY <1>1, <1>2, <1>4, <1>5 DEF Good, B

--------------------------------------------------------------------------------
(* What the invariant gives.                                                *)

\* A quorum forbids any later prequorum on another payload.
LEMMA NoLaterPrequorum ==
  ASSUME NEW P, NEW A, NEW L, Good(P, A, L),
         NEW r \in Rounds, NEW v \in Payloads, HasQuorum(A, r, v),
         NEW n \in Rounds, NEW w \in Payloads, HasQuorum(P, n, w), r < n, v # w
  PROVE  FALSE
<1> DEFINE Later == {k \in Rounds : r < k /\ HasQuorum(P, k, w)}
<1>1. Later \subseteq Nat /\ Later # {}
  BY Zenon, TenderbakeAssumption
<1>2. PICK k \in Later : \A j \in Later : ~(j < k)
  <2>1. PICK k \in Later : \A j \in Later : ~ (<<j, k>> \in OpToRel(<, Nat))
    BY Zenon, <1>1, WFMin, NatLessThanWellFounded
  <2>2. \A j \in Later : ~(j < k)
    BY Zenon, <1>1, <2>1 DEF OpToRel
  <2> QED BY <2>2
<1>3. Cardinality(Founders(P, A, k, w)) >= Threshold
  BY <1>2 DEF Good, Formed
<1>4. Founders(P, A, k, w) \in SUBSET Slots /\ Backing(A, r, v) \in SUBSET Slots
  BY DEF Founders, Backing
<1>5. PICK s \in Founders(P, A, k, w) \cap Backing(A, r, v) : Owner[s] \in Honest
  BY <1>3, <1>4, SharedSlot DEF HasQuorum
<1>6. Justified(P, A, Owner[s], k, w) /\ <<Owner[s], r, v>> \in A
  BY <1>5 DEF Founders, Backing, Honest
<1>7. Shown(P, r, k, w)
  BY <1>2, <1>6 DEF Justified
<1> QED BY <1>2, <1>7 DEF Shown

\* A quorum of attestations stands on a prequorum.
LEMMA QuorumHasPrequorum ==
  ASSUME NEW P, NEW A, NEW L, Good(P, A, L),
         NEW r \in Rounds, NEW v \in Payloads, HasQuorum(A, r, v)
  PROVE  HasQuorum(P, r, v)
<1>1. Backing(A, r, v) \in SUBSET Slots
  BY DEF Backing
<1>2. PICK s \in Backing(A, r, v) \cap Backing(A, r, v) : Owner[s] \in Honest
  BY <1>1, SharedSlot DEF HasQuorum
<1>3. <<Owner[s], r, v>> \in A
  BY <1>2 DEF Backing, Honest
<1> QED BY <1>2, <1>3 DEF Good, AttsLocked

--------------------------------------------------------------------------------
(* The theorems.                                                            *)

\* The inductive invariant holds of every behaviour.
THEOREM Invariance == Spec => []Good(preatts, atts, locked)
<1>1. Init => Good(preatts, atts, locked)
  <2> SUFFICES ASSUME Init PROVE Good(preatts, atts, locked)
    OBVIOUS
  <2>1. Typed(preatts, atts, locked)
    BY DEF Init, Typed
  <2>2. OncePerRound(preatts) /\ LocksBacked(preatts, locked) /\ AttsLocked(preatts, atts, locked)
    BY DEF Init, OncePerRound, LocksBacked, AttsLocked
  <2>3. LocksRespected(preatts, locked) /\ Unformed(preatts, atts)
    BY DEF Init, LocksRespected, Unformed
  <2>4. Formed(preatts, atts)
    <3>1. \A r, v : Founders(preatts, atts, r, v) = Backing(preatts, r, v)
      BY DEF Init, Founders, Backing
    <3> QED BY <3>1 DEF Formed, HasQuorum
  <2> QED BY <2>1, <2>2, <2>3, <2>4 DEF Good
<1>2. Good(preatts, atts, locked) /\ [Next]_vars => Good(preatts, atts, locked)'
  <2> SUFFICES ASSUME Good(preatts, atts, locked), [Next]_vars
               PROVE  Good(preatts', atts', locked')
    BY Zenon DEF Good, Typed, OncePerRound, LocksBacked, AttsLocked, LocksRespected, Unformed, Formed,
           Shown, Justified, Founders, HasQuorum, Backing
  <2>1. CASE UNCHANGED vars
    BY <2>1 DEF vars
  <2>2. ASSUME NEW b \in Honest, NEW r \in Rounds, NEW v \in Payloads, Preattest(b, r, v)
        PROVE  Good(preatts', atts', locked')
    <3>1. Good(preatts \cup {<<b, r, v>>}, atts, locked)
      BY <2>2, GoodPreattest DEF Preattest, MayPreattest, Prequorum, Shown
    <3> QED BY <2>2, <3>1 DEF Preattest
  <2>3. ASSUME NEW b \in Honest, NEW r \in Rounds, NEW v \in Payloads, Lock(b, r, v)
        PROVE  Good(preatts', atts', locked')
    <3>1. Good(preatts, atts, locked')
      BY Zenon, <2>3, GoodLock DEF Lock, MayLock, Prequorum
    <3>2. <<r, v>> \in locked'[b]
      BY <2>3 DEF Lock, Good, Typed
    <3>3. Good(preatts, atts \cup {<<b, r, v>>}, locked')
      BY <3>1, <3>2, GoodAttest
    <3> QED BY <2>3, <3>1, <3>3 DEF Lock
  <2>4. ASSUME NEW b \in Honest, NEW r \in Rounds, NEW v \in Payloads, Attest(b, r, v)
        PROVE  Good(preatts', atts', locked')
    <3>1. Good(preatts, atts \cup {<<b, r, v>>}, locked)
      BY Zenon, <2>4, GoodAttest DEF Attest
    <3> QED BY <2>4, <3>1 DEF Attest
  <2> QED BY SMTT(30), <2>1, <2>2, <2>3, <2>4 DEF Next
<1> QED BY <1>1, <1>2, PTL DEF Spec

\* Votes and locks are always those of honest bakers.
THEOREM TypeCorrect == Spec => []TypeOK
<1>1. Good(preatts, atts, locked) => TypeOK
  BY DEF Good, Typed, TypeOK
<1> QED BY <1>1, Invariance, PTL

\* A quorum is final: no later round has a prequorum on another payload, so that no
\* proposal can show one to a locked baker.
THEOREM Finality == Spec => [](OnePrequorum /\ QuorumIsFinal)
<1>1. Good(preatts, atts, locked) => OnePrequorum
  BY UniqueQuorum DEF Good, OnePrequorum, Prequorum
<1>2. Good(preatts, atts, locked) => QuorumIsFinal
  <2> SUFFICES ASSUME Good(preatts, atts, locked),
                      NEW r \in Rounds, NEW n \in Rounds, NEW v \in Payloads, NEW w \in Payloads,
                      HasQuorum(atts, r, v), r <= n, HasQuorum(preatts, n, w)
               PROVE  v = w
    BY DEF QuorumIsFinal, Quorum, Prequorum
  <2>1. CASE r = n
    BY <2>1, QuorumHasPrequorum, UniqueQuorum DEF Good
  <2>2. CASE r # n
    <3>1. r < n
      BY <2>2, TenderbakeAssumption
    <3> QED BY <3>1, NoLaterPrequorum
  <2> QED BY <2>1, <2>2
<1> QED BY <1>1, <1>2, Invariance, PTL

\* Two blocks elected by quorums of one level have the same payload, whatever the
\* rounds at which the quorums were reached.
THEOREM AgreementHolds == Spec => []Agreement
<1>1. Good(preatts, atts, locked) /\ QuorumIsFinal => Agreement
  <2> SUFFICES ASSUME Good(preatts, atts, locked), QuorumIsFinal,
                      NEW r \in Rounds, NEW n \in Rounds, NEW v \in Payloads, NEW w \in Payloads,
                      HasQuorum(atts, r, v), HasQuorum(atts, n, w)
               PROVE  v = w
    BY DEF Agreement, Quorum
  <2>1. HasQuorum(preatts, r, v) /\ HasQuorum(preatts, n, w)
    BY QuorumHasPrequorum
  <2>2. r <= n \/ n <= r
    BY TenderbakeAssumption
  <2> QED BY <2>1, <2>2 DEF QuorumIsFinal, Quorum, Prequorum
<1> QED BY <1>1, Invariance, Finality, PTL

================================================================================
