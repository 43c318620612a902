------------------------------ MODULE SdkStore -------------------------------
(***************************************************************************)
(* The durable storage as kernels of the SDK see it: the Runtime's calls   *)
(* (host/src/runtime.rs) over the in-memory store of the mock host         *)
(* (mock/src/state/store.rs and in_memory_store.rs), which the entrypoint  *)
(* crate also offers to real kernels.                                      *)
(*                                                                         *)
(* The store is a tree of nodes with optional values: a function from the  *)
(* step sequences of the nodes that exist, the root <<>> among them, to    *)
(* <<>> (no value) or <<value>>.  The entry "@" that the code keeps among  *)
(* a node's children while it has a value is counted, not represented.     *)
(***************************************************************************)
EXTENDS Integers, Sequences, FiniteSets, SequencesExt

---------------------------------------------------------------------------
(***************************************************************************)
(* Storage paths of the kernel SDK (host/src/path.rs) and the way the      *)
(* outbox queue builds its paths from a root (sdk/src/outbox.rs).          *)
(*                                                                         *)
(* A path is a sequence of bytes, and a byte is one of four classes: the   *)
(* separator, a byte allowed in a step, any other byte, and one byte that  *)
(* stands for the whole word "readonly".  Lengths count these bytes.       *)
(***************************************************************************)
CONSTANTS PATH_MAX_SIZE,   \* the most bytes of a path
          SdkIndexBytes,   \* size_of::<u32>(), the bytes of a queue index
          SdkProbe         \* the longest byte sequence tried

PATH_SEPARATOR == "/"
ReadOnlyWord   == "readonly"
SdkBytes       == {PATH_SEPARATOR, ReadOnlyWord, "a", "!"}

ASSUME SdkPathAssumption == PATH_MAX_SIZE \in Nat /\ SdkIndexBytes \in Nat \ {0}

VARIABLES sdPath, sdSuffix
sdPathVars == <<sdPath, sdSuffix>>

is_allowed_step_byte(b) == b \in {"a", ReadOnlyWord}

FirstFault(path) ==
  LET bad == {i \in 2 .. Len(path) :
                \/ path[i - 1] = PATH_SEPARATOR /\ path[i] = PATH_SEPARATOR
                \/ path[i] # PATH_SEPARATOR /\ ~ is_allowed_step_byte(path[i])}
  IN  CASE bad = {} -> "Ok"
        [] path[CHOOSE i \in bad : \A j \in bad : i <= j] = PATH_SEPARATOR -> "InvalidEmptyStep"
        [] OTHER -> "InvalidByteInStep"

validate_path_internal(path) ==
  CASE path = <<>>                       -> "PathEmpty"
    [] path # <<>> /\ Last(path) = PATH_SEPARATOR -> "InvalidEmptyStep"
    [] path # <<>> /\ Last(path) # PATH_SEPARATOR ->
         CASE Len(path) > PATH_MAX_SIZE      -> "PathTooLong"
           [] Len(path) <= PATH_MAX_SIZE /\ path[1] = PATH_SEPARATOR -> FirstFault(path)
           [] OTHER                          -> "InvalidStart"

ReadOnlyPath(path) ==
  \/ path = <<PATH_SEPARATOR, ReadOnlyWord>>
  \/ IsPrefix(<<PATH_SEPARATOR, ReadOnlyWord, PATH_SEPARATOR>>, path)

validate_path(path) ==
  IF validate_path_internal(path) = "Ok" /\ ReadOnlyPath(path)
  THEN "ReadOnly" ELSE validate_path_internal(path)

\* RefPath::assert_from, OwnedPath::try_from: the bytes that become a Path.
IsPath(path) == validate_path(path) = "Ok"

\* Joins the bytes and checks the length alone.
concat(prefix, suffix) ==
  IF Len(prefix \o suffix) <= PATH_MAX_SIZE
  THEN <<"Ok", prefix \o suffix>> ELSE <<"PathTooLong", <<>>>>

len_steps(path) == Len(SelectSeq(path, LAMBDA b : b = PATH_SEPARATOR))

---------------------------------------------------------------------------
\* What the type's documentation says of a path: a sequence of non-empty
\* steps, each after one separator, of allowed bytes.
RECURSIVE StepsOf(_)
StepsOf(path) ==
  LET starts == {i \in 1 .. Len(path) : path[i] = PATH_SEPARATOR}
      last   == CHOOSE i \in starts : \A j \in starts : j <= i
  IN  IF starts = {} THEN <<>>
      ELSE Append(StepsOf(SubSeq(path, 1, last - 1)), SubSeq(path, last + 1, Len(path)))

WellFormed(path) ==
  /\ path # <<>> /\ path[1] = PATH_SEPARATOR /\ Len(path) <= PATH_MAX_SIZE
  /\ \A i \in DOMAIN StepsOf(path) :
       /\ StepsOf(path)[i] # <<>>
       /\ \A k \in DOMAIN StepsOf(path)[i] : is_allowed_step_byte(StepsOf(path)[i][k])

---------------------------------------------------------------------------
\* OutboxQueue::new accepts a root, and `message_path` then puts a separator
\* and the hexadecimal index behind it.
RootAccepted(root) ==
  /\ IsPath(root)
  /\ ~ (Len(root) > PATH_MAX_SIZE - 2 * SdkIndexBytes + 1)

message_path(root) ==
  concat(root, <<PATH_SEPARATOR>> \o [i \in 1 .. 2 * SdkIndexBytes |-> "a"])

---------------------------------------------------------------------------
SdkByteSeqs(n) == UNION {[1 .. k -> SdkBytes] : k \in 0 .. n}

SdkPathInit ==
  /\ sdPath \in SdkByteSeqs(SdkProbe)
  /\ sdSuffix \in {<<PATH_SEPARATOR, b>> : b \in SdkBytes}

(***************************************************************************)
(* A byte sequence becomes a path exactly when the documentation's grammar *)
(* and length bound admit it and it is not in the read-only part, and the  *)
(* unchecked constructor that `concat` uses is never handed anything else: *)
(* the join of two paths is a path or is refused, outside the read-only    *)
(* part, and has the steps of both.  The outbox queue's constructor accepts *)
(* every root that leaves room for the index of a message, and the path of *)
(* a message below such a root is a path.                                  *)
(***************************************************************************)
SdkPathsWellFormed ==
  /\ (validate_path_internal(sdPath) = "Ok") <=> WellFormed(sdPath)
  /\ (validate_path(sdPath) = "ReadOnly") => StepsOf(sdPath)[1] = <<ReadOnlyWord>>
  /\ (WellFormed(sdPath) /\ StepsOf(sdPath)[1] = <<ReadOnlyWord>>) => ~ IsPath(sdPath)
  /\ (IsPath(sdPath) /\ IsPath(sdSuffix)) =>
       LET joined == concat(sdPath, sdSuffix)
       IN  \/ joined[1] = "PathTooLong"
           \/ /\ IsPath(joined[2])
              /\ len_steps(joined[2]) = len_steps(sdPath) + len_steps(sdSuffix)
  /\ IsPath(sdPath) /\ Len(sdPath) + 1 + 2 * SdkIndexBytes <= PATH_MAX_SIZE =>
       RootAccepted(sdPath) /\ message_path(sdPath)[1] = "Ok" /\ IsPath(message_path(sdPath)[2])

---------------------------------------------------------------------------
CONSTANTS SdkPaths,            \* the paths the kernel names
          SdkSources,          \* the byte sequences it writes
          SdkOffsets,          \* the offsets it writes at
          MAX_FILE_CHUNK_SIZE, \* the most bytes of one read or write
          SdkMaxDepth,         \* bound: steps of a node
          SdkMaxLen            \* bound: bytes of a value

ASSUME SdkStoreAssumption == MAX_FILE_CHUNK_SIZE \in Nat \ {0}

VARIABLES sdTree, sdLast
sdStoreVars == <<sdTree, sdLast>>

Absent   == <<>>
Held(v)  == <<v>>

---------------------------------------------------------------------------
(* Store: the tree.                                                        *)

SdkNodes(t)     == DOMAIN t
SubNodes(t, p)  == {q \in SdkNodes(t) : IsPrefix(p, q)}
SdkChildren(t, p) == {q \in SdkNodes(t) : Len(q) = Len(p) + 1 /\ IsPrefix(p, q)}
Ancestors(p)    == {SubSeq(p, 1, n) : n \in 0 .. Len(p) - 1}

\* node.inner.len(): the children, and "@" when there is a value.
inner_len(t, p) == Cardinality(SdkChildren(t, p)) + Len(t[p])

has_entry(t, p) == p \in SdkNodes(t) /\ t[p] # Absent

\* A node's subtree, as a function of the steps below it.
node_from_path(t, p) ==
  [r \in {SubSeq(q, Len(p) + 1, Len(q)) : q \in SubNodes(t, p)} |-> t[p \o r]]

node_insert(t, p, node) ==
  LET fresh == {p \o r : r \in DOMAIN node}
      kept  == (SdkNodes(t) \ SubNodes(t, p)) \cup Ancestors(p)
  IN  [q \in kept \cup fresh |->
         IF q \in fresh THEN node[SubSeq(q, Len(p) + 1, Len(q))]
         ELSE IF q \in SdkNodes(t) THEN t[q] ELSE Absent]

\* The node goes with all that is below it, and then each ancestor, from the
\* nearest up, as long as nothing is left in it.
node_delete(t, p) ==
  LET left   == SdkNodes(t) \ SubNodes(t, p)
      empty(q) == \A r \in left : IsPrefix(q, r) => r \in Ancestors(p) /\ t[r] = Absent
      pruned == {q \in (Ancestors(p) \cap left) \ {<<>>} : empty(q)}
  IN  IF ~ (Ancestors(p) \subseteq SdkNodes(t)) THEN t
      ELSE [q \in left \ pruned |-> t[q]]

set_value(t, p, v) ==
  IF p \in SdkNodes(t) THEN [t EXCEPT ![p] = Held(v)]
  ELSE node_insert(t, p, [r \in {<<>>} |-> Held(v)])

\* The node stays, even when nothing is left in it.
delete_value(t, p) == IF p \in SdkNodes(t) THEN [t EXCEPT ![p] = Absent] ELSE t

---------------------------------------------------------------------------
(* InMemoryStore: the host functions.  A result is [res, tree] for a call  *)
(* that writes and <<res, value>> for one that reads.                      *)

\* Error codes are -1, -2, ... in this order.
SdkErrorCodes ==
  <<"StoreKeyTooLarge", "StoreInvalidKey", "StoreNotAValue", "StoreInvalidAccess",
    "StoreValueSizeExceeded", "MemoryInvalidAccess", "InputOutputTooLarge",
    "GenericInvalidAccess", "StoreReadonlyValue", "StoreNotANode", "FullOutbox">>

error_code(e)  == - (CHOOSE i \in DOMAIN SdkErrorCodes : SdkErrorCodes[i] = e)
error_from(c)  == IF - c \in DOMAIN SdkErrorCodes THEN SdkErrorCodes[- c] ELSE "GenericInvalidAccess"
wrap(c)        == IF c >= 0 THEN "Ok" ELSE error_from(c)

\* What a host function returns - a size, zero or an error's code - and what
\* the Runtime makes of it.
Returned(res)  == IF res = "Ok" THEN 0 ELSE error_code(res)

SdkOk(t)     == [res |-> "Ok", tree |-> t]
SdkErr(e, t) == [res |-> e, tree |-> t]

handle_store_list_size(t, p) ==
  IF p \in SdkNodes(t) THEN <<"Ok", inner_len(t, p)>> ELSE <<"StoreNotANode", 0>>

handle_store_has(t, p) ==
  LET value == has_entry(t, p)
      below == handle_store_list_size(t, p)[2] > (IF value THEN 1 ELSE 0)
  IN  CASE ~ value /\ ~ below -> "None"
        [] value /\ ~ below   -> "Value"
        [] ~ value /\ below   -> "Subtree"
        [] OTHER              -> "ValueWithSubtree"

SdkMin(a, b) == IF a <= b THEN a ELSE b

\* Mutant: a read at the end of the value is refused.
handle_store_read_strict(t, p, offset, max) ==
  IF ~ has_entry(t, p) THEN <<"StoreNotAValue", <<>>>>
  ELSE LET bytes == t[p][1]
           n     == SdkMin(MAX_FILE_CHUNK_SIZE, SdkMin(max, Len(bytes) - offset))
       IN  IF offset >= Len(bytes) THEN <<"StoreInvalidAccess", <<>>>>
           ELSE <<"Ok", SubSeq(bytes, offset + 1, offset + n)>>

handle_store_read(t, p, offset, max) ==
  IF ~ has_entry(t, p) THEN <<"StoreNotAValue", <<>>>>
  ELSE LET bytes == t[p][1]
       IN  IF offset > Len(bytes) THEN <<"StoreInvalidAccess", <<>>>>
           ELSE LET n == SdkMin(MAX_FILE_CHUNK_SIZE, SdkMin(max, Len(bytes) - offset))
                IN  <<"Ok", SubSeq(bytes, offset + 1, offset + n)>>

handle_store_write(t, p, offset, bytes) ==
  LET value == IF has_entry(t, p) THEN t[p][1] ELSE <<>>
      inside == offset < Len(value) /\ offset + Len(bytes) <= Len(value)
  IN  CASE Len(bytes) > MAX_FILE_CHUNK_SIZE -> SdkErr("InputOutputTooLarge", t)
        [] Len(bytes) <= MAX_FILE_CHUNK_SIZE /\ offset > Len(value) ->
             SdkErr("StoreInvalidAccess", t)
        [] OTHER ->
             SdkOk(set_value(t, p,
               IF inside
               THEN SubSeq(value, 1, offset) \o bytes
                      \o SubSeq(value, offset + Len(bytes) + 1, Len(value))
               ELSE SubSeq(value, 1, offset) \o bytes))

handle_store_move(t, from, to) ==
  IF from \notin SdkNodes(t) THEN SdkErr("StoreNotANode", t)
  ELSE SdkOk(node_insert(node_delete(t, from), to, node_from_path(t, from)))

handle_store_copy(t, from, to) ==
  IF from \notin SdkNodes(t) THEN SdkErr("StoreNotANode", t)
  ELSE SdkOk(node_insert(t, to, node_from_path(t, from)))

handle_store_value_size(t, p) ==
  IF has_entry(t, p) THEN <<"Ok", Len(t[p][1])>> ELSE <<"StoreNotAValue", 0>>

HostWrites(r) == [r EXCEPT !.res = wrap(Returned(@))]
HostReads(r)  == [r EXCEPT ![1] = wrap(Returned(@))]

---------------------------------------------------------------------------
(* Runtime: the calls kernels make.                                        *)

check_path_has_value(t, p) == handle_store_has(t, p) \in {"Value", "ValueWithSubtree"}
check_path_exists(t, p)    == handle_store_has(t, p) # "None"

store_read(t, p, offset, max) ==
  IF ~ check_path_has_value(t, p) THEN <<"PathNotFound", <<>>>>
  ELSE HostReads(handle_store_read(t, p, offset, SdkMin(MAX_FILE_CHUNK_SIZE, max)))

store_value_size(t, p) ==
  IF ~ check_path_exists(t, p) THEN <<"PathNotFound", 0>>
  ELSE HostReads(handle_store_value_size(t, p))

\* One read per chunk, each at the end of what has been read.
RECURSIVE ReadFrom(_, _, _, _)
ReadFrom(t, p, buffer, length) ==
  IF Len(buffer) >= length THEN <<"Ok", buffer>>
  ELSE LET chunk == HostReads(handle_store_read(t, p, Len(buffer),
                      SdkMin(MAX_FILE_CHUNK_SIZE, length - Len(buffer))))
       IN  IF chunk[1] # "Ok" THEN chunk
           ELSE ReadFrom(t, p, buffer \o chunk[2], length)

store_read_all(t, p) ==
  LET size == store_value_size(t, p)
  IN  IF size[1] # "Ok" THEN <<size[1], <<>>>> ELSE ReadFrom(t, p, <<>>, size[2])

\* Mutant: a last chunk that is not full is forgotten.
RECURSIVE store_write_last_full(_, _, _, _)
store_write_last_full(t, p, src, offset) ==
  IF Len(src) <= MAX_FILE_CHUNK_SIZE THEN HostWrites(handle_store_write(t, p, offset, src))
  ELSE LET first == HostWrites(handle_store_write(t, p, offset, SubSeq(src, 1, MAX_FILE_CHUNK_SIZE)))
           rest  == SubSeq(src, MAX_FILE_CHUNK_SIZE + 1, Len(src))
       IN  IF first.res # "Ok" \/ Len(rest) < MAX_FILE_CHUNK_SIZE THEN first
           ELSE store_write_last_full(first.tree, p, rest, offset + MAX_FILE_CHUNK_SIZE)

\* The source is cut in chunks, and the first write that fails ends the call:
\* what was written before it stays.
RECURSIVE store_write(_, _, _, _)
store_write(t, p, src, offset) ==
  IF Len(src) <= MAX_FILE_CHUNK_SIZE THEN HostWrites(handle_store_write(t, p, offset, src))
  ELSE LET first == HostWrites(handle_store_write(t, p, offset, SubSeq(src, 1, MAX_FILE_CHUNK_SIZE)))
           rest  == SubSeq(src, MAX_FILE_CHUNK_SIZE + 1, Len(src))
       IN  IF first.res # "Ok" \/ rest = <<>> THEN first
           ELSE store_write(first.tree, p, rest, offset + MAX_FILE_CHUNK_SIZE)

store_write_all(t, p, v) == store_write(delete_value(t, p), p, v, 0)

store_delete(t, p) ==
  IF check_path_exists(t, p) THEN SdkOk(node_delete(t, p)) ELSE SdkErr("PathNotFound", t)

store_delete_value(t, p) == SdkOk(delete_value(t, p))

store_move(t, from, to) ==
  IF check_path_exists(t, from) THEN HostWrites(handle_store_move(t, from, to))
  ELSE SdkErr("PathNotFound", t)

store_copy(t, from, to) ==
  IF check_path_exists(t, from) THEN HostWrites(handle_store_copy(t, from, to))
  ELSE SdkErr("PathNotFound", t)

---------------------------------------------------------------------------
EmptyTree == [p \in {<<>>} |-> Absent]

SdkStoreInit == sdTree = EmptyTree /\ sdLast = "Ok"

WithinBounds(t) ==
  \A q \in SdkNodes(t) : Len(q) <= SdkMaxDepth /\ (t[q] # Absent => Len(t[q][1]) <= SdkMaxLen)

SdkCall(result) ==
  /\ WithinBounds(result.tree)
  /\ sdTree' = result.tree
  /\ sdLast' = result.res

SdkStoreNext ==
  \E p \in SdkPaths :
     \/ \E src \in SdkSources, offset \in SdkOffsets : SdkCall(store_write(sdTree, p, src, offset))
     \/ \E v \in SdkSources : SdkCall(store_write_all(sdTree, p, v))
     \/ SdkCall(store_delete(sdTree, p))
     \/ SdkCall(store_delete_value(sdTree, p))
     \/ \E q \in SdkPaths : SdkCall(store_copy(sdTree, p, q)) \/ SdkCall(store_move(sdTree, p, q))

SdkStoreSpec == SdkStoreInit /\ [][SdkStoreNext]_sdStoreVars

---------------------------------------------------------------------------
Valued(t) == {q \in SdkNodes(t) : t[q] # Absent}

\* The map the tree stands for.
SdkMapOf(t) == [q \in Valued(t) |-> t[q][1]]

(***************************************************************************)
(* Type invariant: the nodes are closed under prefixes, and the root holds *)
(* no value.                                                               *)
(***************************************************************************)
SdkStoreTypeOK ==
  /\ <<>> \in SdkNodes(sdTree) /\ sdTree[<<>>] = Absent
  /\ \A q \in SdkNodes(sdTree) : Ancestors(q) \subseteq SdkNodes(sdTree)
  /\ sdLast \in {"Ok", "PathNotFound", "StoreInvalidAccess", "StoreNotANode"}

(***************************************************************************)
(* A value written in chunks is read back whole, from every offset and     *)
(* through every buffer: `store_read_all` reassembles what `store_read`    *)
(* and `store_value_size` say of the same path, and none of them finds a   *)
(* value where another does not.                                           *)
(***************************************************************************)
SdkReadsAgree ==
  \A p \in SdkPaths :
     LET all == store_read_all(sdTree, p)
     IN  /\ (all[1] = "Ok") <=> check_path_has_value(sdTree, p)
         /\ all[1] = "Ok" =>
              /\ all[2] = sdTree[p][1]
              /\ \A offset \in 0 .. Len(all[2]), max \in 0 .. SdkMaxLen :
                    LET got == store_read(sdTree, p, offset, max)
                    IN  /\ got[1] = "Ok"
                        /\ got[2] = SubSeq(all[2], offset + 1, offset + Len(got[2]))
                        /\ got[2] = <<>> => max = 0 \/ offset = Len(all[2])

(***************************************************************************)
(* `store_has` reports every value: a path it calls empty has no value at  *)
(* it or below it, so that a kernel that trusts the answer (store_delete,  *)
(* store_move, store_copy all do) loses nothing.                           *)
(***************************************************************************)
SdkHasSeesValues ==
  \A p \in SdkPaths :
     ~ check_path_exists(sdTree, p) => \A q \in Valued(sdTree) : ~ IsPrefix(p, q)

(***************************************************************************)
(* The calls implement the map of SdkKv: a write in chunks is one overlay  *)
(* of the value, a move or a copy replaces all that is below its target,   *)
(* and nothing else changes, whatever nodes are made, left empty or pruned *)
(* on the way.                                                             *)
(***************************************************************************)
SdkMap == INSTANCE SdkKv WITH
            KvPaths <- SdkPaths, KvBytes <- SdkSources, KvOffsets <- SdkOffsets,
            kv <- SdkMapOf(sdTree)

SdkImplementsMap == SdkMap!KvSpec
=============================================================================
