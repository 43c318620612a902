------------------------------ MODULE SdkLayers ------------------------------
(***************************************************************************)
(* Transactional storage of the SDK (storage/src/storage.rs, layer.rs): a  *)
(* stack of layers over the durable storage, each a copy of the one below  *)
(* when its transaction begins, which commit moves over the one below and  *)
(* rollback deletes.  The stack is in the kernel's memory and the layers   *)
(* are in the durable storage, so a run that is aborted loses the former   *)
(* and leaves the latter.                                                  *)
(*                                                                         *)
(* Layer n is the subtree at <<n>>: the code's "prefix" for the bottom one *)
(* and "prefix.n" for the others.  An object is a subtree of a layer, with *)
(* one field.                                                              *)
(***************************************************************************)
EXTENDS SdkStore

CONSTANTS SdkIds,          \* the objects' identifiers
          SdkField,        \* the step of an object's field
          SdkFieldValues,  \* what is written to it
          SdkMaxLayers,    \* bound: layers at once
          SdkMaxAborts     \* bound: runs aborted

\* sdStack: the number of layers.  sdLayers: what each holds, as the calls
\* made say it.  sdStale: a transaction has begun on top of a missing layer
\* where an abandoned one had been left.  sdAborts: the runs aborted so far.
VARIABLES sdStack, sdLayers, sdStale, sdAborts
sdLayerVars == <<sdTree, sdLast, sdStack, sdLayers, sdStale, sdAborts>>

NoObjects == [id \in {} |-> <<>>]

layer_path(n)     == <<n>>
object_path(n, id) == <<n, id>>
field_path(n, id)  == <<n, id, SdkField>>

has_subtree_res(has) == has \in {"Subtree", "ValueWithSubtree"}

layer_get(t, n, id) == has_subtree_res(handle_store_has(t, object_path(n, id)))
layer_create_new(t, n, id) == ~ has_subtree_res(handle_store_has(t, object_path(n, id)))

force_make_copy(t, n) ==
  LET r == store_copy(t, layer_path(n), layer_path(n + 1))
  IN  IF r.res = "PathNotFound" THEN SdkOk(r.tree) ELSE r

\* Mutant: a layer that is gone does not delete the one below.
consume_keeps_deleted(t, n) ==
  IF check_path_exists(t, layer_path(n + 1))
  THEN store_move(t, layer_path(n + 1), layer_path(n))
  ELSE SdkOk(t)

consume(t, n) ==
  CASE check_path_exists(t, layer_path(n + 1)) ->
         store_move(t, layer_path(n + 1), layer_path(n))
    [] ~ check_path_exists(t, layer_path(n + 1)) /\ check_path_exists(t, layer_path(n)) ->
         store_delete(t, layer_path(n))
    [] OTHER -> SdkOk(t)

discard(t, n) ==
  IF check_path_exists(t, layer_path(n)) THEN store_delete(t, layer_path(n)) ELSE SdkOk(t)

layer_delete(t, n, id) == store_delete(t, object_path(n, id))

---------------------------------------------------------------------------
Storage_init == /\ sdTree = EmptyTree /\ sdLast = "Ok"
                /\ sdStack = 1 /\ sdLayers = <<NoObjects>>
                /\ sdStale = FALSE /\ sdAborts = 0

LayerCall(result) == sdTree' = result.tree /\ sdLast' = result.res

\* An object's field, written through a handle of get_or_create, which only
\* makes the path; those of get and of create_new, where they give one, are
\* the same.
WriteObject(id, v) ==
  /\ LayerCall(store_write_all(sdTree, field_path(sdStack, id), v))
  /\ sdLayers' = [sdLayers EXCEPT ![sdStack] =
                    [i \in DOMAIN @ \cup {id} |-> IF i = id THEN v ELSE @[i]]]
  /\ UNCHANGED <<sdStack, sdStale, sdAborts>>

delete_object(id) ==
  /\ LayerCall(layer_delete(sdTree, sdStack, id))
  /\ sdLayers' = [sdLayers EXCEPT ![sdStack] = [i \in DOMAIN @ \ {id} |-> @[i]]]
  /\ UNCHANGED <<sdStack, sdStale, sdAborts>>

begin_layer ==
  /\ sdStack < SdkMaxLayers
  /\ LayerCall(force_make_copy(sdTree, sdStack))
  /\ sdStack' = sdStack + 1
  /\ sdLayers' = Append(sdLayers, sdLayers[sdStack])
  /\ sdStale' = (sdStale \/ ( /\ ~ check_path_exists(sdTree, layer_path(sdStack))
                              /\ check_path_exists(sdTree, layer_path(sdStack + 1)) ))
  /\ UNCHANGED sdAborts

NoCurrentTransaction ==
  /\ sdStack = 1
  /\ sdLast' = "NoCurrentTransaction"
  /\ UNCHANGED <<sdTree, sdStack, sdLayers, sdStale, sdAborts>>

commit_layer ==
  /\ sdStack > 1
  /\ LayerCall(consume(sdTree, sdStack - 1))
  /\ sdStack' = sdStack - 1
  /\ sdLayers' = Append(SubSeq(sdLayers, 1, sdStack - 2), sdLayers[sdStack])
  /\ UNCHANGED <<sdStale, sdAborts>>

rollback_layer ==
  /\ sdStack > 1
  /\ LayerCall(discard(sdTree, sdStack))
  /\ sdStack' = sdStack - 1
  /\ sdLayers' = Front(sdLayers)
  /\ UNCHANGED <<sdStale, sdAborts>>

\* The run is aborted in a transaction, and the next one starts over on the
\* durable storage it left.
AbortRun ==
  /\ sdStack > 1 /\ sdAborts < SdkMaxAborts
  /\ sdStack' = 1 /\ sdLayers' = <<sdLayers[1]>> /\ sdAborts' = sdAborts + 1
  /\ UNCHANGED <<sdTree, sdLast, sdStale>>

SdkLayersNext ==
  \/ \E id \in SdkIds : delete_object(id) \/ \E v \in SdkFieldValues : WriteObject(id, v)
  \/ begin_layer \/ commit_layer \/ rollback_layer \/ NoCurrentTransaction
  \/ AbortRun

---------------------------------------------------------------------------
LayerHolds(n) ==
  [id \in {i \in SdkIds : has_entry(sdTree, field_path(n, i))} |->
     sdTree[field_path(n, id)][1]]

(***************************************************************************)
(* Nested transactions are a stack of maps: every layer holds what the     *)
(* calls made in its transaction, and the committed ones above it, left    *)
(* there, a commit of a transaction that deleted everything included, and  *)
(* what an aborted run left behind is never seen.  The exception is the    *)
(* one that layer.rs gives the caller to avoid: a transaction begun while  *)
(* the layer below is missing takes over a layer found at its name.        *)
(***************************************************************************)
SdkLayersAreMaps ==
  ~ sdStale => \A n \in 1 .. sdStack : LayerHolds(n) = sdLayers[n]

(***************************************************************************)
(* `get` finds exactly the objects of the layer on top, `get_original`     *)
(* those of the bottom one, and `create_new` gives a handle exactly when   *)
(* `get` finds nothing: deletions prune the tree far enough that no empty  *)
(* node is taken for an object.                                            *)
(***************************************************************************)
SdkGetFindsObjects ==
  ~ sdStale => \A id \in SdkIds :
     /\ layer_get(sdTree, sdStack, id) <=> id \in DOMAIN sdLayers[sdStack]
     /\ layer_get(sdTree, 1, id) <=> id \in DOMAIN sdLayers[1]
     /\ layer_create_new(sdTree, sdStack, id) <=> ~ layer_get(sdTree, sdStack, id)

\* Transactional storage behaves as nested maps of objects.
LayersSound == SdkLayersAreMaps /\ SdkGetFindsObjects
=============================================================================
