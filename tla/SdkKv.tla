-------------------------------- MODULE SdkKv --------------------------------
(***************************************************************************)
(* What the SDK's Runtime (host/src/runtime.rs:85-246) promises of the     *)
(* durable storage: a map from paths to byte sequences, changed at one     *)
(* path, at an offset of one path, or at all the paths below a prefix.     *)
(* Whatever a call does on the way - writing in chunks, growing or pruning *)
(* a tree - it changes the map as one of these steps does, or not at all.  *)
(***************************************************************************)
EXTENDS Integers, Sequences, SequencesExt

CONSTANTS KvPaths,   \* the paths a call may name
          KvBytes,   \* the byte sequences a call may write
          KvOffsets  \* the offsets a call may write at

VARIABLE kv

KvBelow(m, p) == {q \in DOMAIN m : IsPrefix(p, q)}

Written(m, p, v) == [q \in DOMAIN m \cup {p} |-> IF q = p THEN v ELSE m[q]]

Without(m, ps) == [q \in DOMAIN m \ ps |-> m[q]]

ValueAt(m, p) == IF p \in DOMAIN m THEN m[p] ELSE <<>>

\* The value with src laid over it at the offset.
Overlay(v, src, offset) ==
  SubSeq(v, 1, offset) \o src \o SubSeq(v, offset + Len(src) + 1, Len(v))

Rebased(q, from, to) == to \o SubSeq(q, Len(from) + 1, Len(q))

\* m with what `source` holds below one path in the place of what m holds
\* below another.
Grafted(m, source, from, to) ==
  LET moved == KvBelow(source, from)
      kept  == {q \in DOMAIN m : ~ IsPrefix(to, q)}
  IN  [q \in kept \cup {Rebased(r, from, to) : r \in moved} |->
         IF q \in kept THEN m[q] ELSE source[Rebased(q, to, from)]]

Moved(m, p, q) == Grafted(Without(m, KvBelow(m, p)), m, p, q)

Patch(p, src, offset) ==
  /\ offset <= Len(ValueAt(kv, p))
  /\ kv' = Written(kv, p, Overlay(ValueAt(kv, p), src, offset))

Put(p, v)       == kv' = Written(kv, p, v)
Drop(p)         == kv' = Without(kv, {p})
DropTree(p)     == kv' = Without(kv, KvBelow(kv, p))
CopyTree(p, q)  == kv' = Grafted(kv, kv, p, q)
MoveTree(p, q)  == kv' = Moved(kv, p, q)

KvInit == kv = [p \in {} |-> <<>>]

KvNext ==
  \E p \in KvPaths :
     \/ \E src \in KvBytes, offset \in KvOffsets : Patch(p, src, offset)
     \/ \E v \in KvBytes : Put(p, v)
     \/ Drop(p)
     \/ DropTree(p)
     \/ \E q \in KvPaths : CopyTree(p, q) \/ MoveTree(p, q)

KvSpec == KvInit /\ [][KvNext]_kv
=============================================================================
