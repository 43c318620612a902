---------------------------- MODULE MCBakerWorker ----------------------------
(* The daemon with its operation worker: the worker has three delegates over *)
(* four slots and one slot that is not a first slot, and counts for two      *)
(* candidates at consecutive rounds.                                         *)
EXTENDS MCBaker, OperationWorker, TLC

CONSTANTS Tags   \* the DAL contents an attestation may carry beside its consensus content

MCWorkerSlots == 0 .. 3
MCOwned == (0 :> {0, 2}) @@ (1 :> {1}) @@ (3 :> {3})
MCCandidates == {[hash |-> 1, round_watched |-> 0, payload_hash_watched |-> "p"],
                 [hash |-> 2, round_watched |-> 1, payload_hash_watched |-> "p"]}
MCHeads == {<<1, 0>>, <<2, 6>>}

MempoolVote(kind, round, slot, tag) ==
  [kind |-> kind, level |-> 1, round |-> round, slot |-> slot, payload |-> "p", tag |-> tag]

\* Two delegates vote at round 0 and one at round 1; slot 2 is not the first
\* slot of its delegate.  A preattestation has no DAL content.
MCOps ==
  {MempoolVote("Preattestation", 0, s, "none") : s \in {0, 1, 2}} \cup
  {MempoolVote("Attestation", 0, s, t) : s \in {0, 1}, t \in Tags} \cup
  {MempoolVote("Attestation", 1, 3, t) : t \in Tags}

\* In a behaviour the automaton and its forge worker move, with any quorums, or
\* the operation worker, with any calls.
VARIABLE part

MCInit == Init /\ WorkerInit /\ part \in {"automaton", "worker"}

MCNext ==
  \/ part = "automaton" /\ Next /\ UNCHANGED <<part, workerVars>>
  \/ part = "worker" /\ WorkerNext /\ UNCHANGED <<part, vars>>

MCSpec == MCInit /\ [][MCNext]_<<part, vars, workerVars>>

==============================================================================
