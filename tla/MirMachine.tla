----------------------------- MODULE MirMachine -----------------------------
(***************************************************************************)
(* MIR at work: a program is typechecked against a type stack and run on a *)
(* value stack.  Both passes go through a block from left to right         *)
(* (typecheck and interpret fold over it), so the two are advanced         *)
(* together, an instruction at a time: a behaviour is a program, chosen    *)
(* as it runs.  The instructions come from a theme, a set of Micheline     *)
(* nodes with the stacks to start from.                                    *)
(***************************************************************************)
EXTENDS MirInterpreter

---------------------------------------------------------------------------
(***************************************************************************)
(* The TZT unit tests of Michelson (contrib/mir/src/tzt.rs,                *)
(* tzt/expectation.rs) and the storage of big_maps (ast/big_map.rs).       *)
(***************************************************************************)
-----------------------------------------------------------------------------
(* TZT tests.  A stack of a test is a sequence of <<type, value>> in       *)
(* Micheline, top first; a result is a type stack and an interpreter state.*)

\* typecheck_stack: the values of an expectation, in a context of its own.
typecheck_stack(stk) ==
    FoldLeft(LAMBDA r, e :
               Then(r, LAMBDA acc :
                 Then(parse_ty(e[1]), LAMBDA t :
                   Then(typecheck_value(e[2], t), LAMBDA v :
                     Ok([ts |-> Append(acc.ts, t), vs |-> Append(acc.vs, v)], 0)))),
             Ok([ts |-> <<>>, vs |-> <<>>], 0), stk)

\* Values are compared as Micheline, so that a lambda built by APPLY equals the
\* code it stands for.
compare_typed_values(v, w) == ToMicheline(v) = ToMicheline(w)
ReadsAs(r, v) == r.err = "" /\ compare_typed_values(r.val, v)
compare_typed_stacks(ts1, vs1, ts2, vs2) ==
    /\ ts1 = ts2
    /\ Len(vs1) = Len(vs2)
    /\ \A k \in DOMAIN vs1 : compare_typed_values(vs1[k], vs2[k])

\* unify_interpreter_error: the expected value is read at the type that failed.
unify_interpreter_error(exp, st) ==
    CASE exp.kind = "FailedWith" /\ st.out = "FailedWith" ->
             ReadsAs(typecheck_value(exp.value, st.fail[1]), st.fail[2])
      [] exp.kind = "MutezOverflow" -> st.out = "MutezOverflow"
      [] OTHER -> FALSE

\* check_expectation, check_error_expectation: what the test reports.
check_expectation(exp, res) ==
    CASE exp.kind = "Success" /\ res.tc = "" /\ res.st.out = "ok" ->
             IF compare_typed_stacks(res.ts, res.st.s, exp.ts, exp.vs) THEN "pass"
             ELSE "StackMismatch"
      [] exp.kind = "Success" /\ ~(res.tc = "" /\ res.st.out = "ok") -> "UnexpectedError"
      [] exp.kind # "Success" /\ res.tc = "" /\ res.st.out = "ok" -> "UnexpectedSuccess"
      [] exp.kind = "StaticError" /\ res.tc # "" -> "pass"
      [] OTHER -> IF res.tc = "" /\ unify_interpreter_error(exp, res.st) THEN "pass"
                  ELSE "ExpectedDifferentError"

-----------------------------------------------------------------------------
(* InMemoryLazyStorage: next_id and the maps that exist.  An operation on  *)
(* an id that does not exist panics.                                       *)

lazy_new == [next_id |-> 0, big_maps |-> <<>>, panic |-> FALSE]
\* big_maps is a sequence of <<id, sorted entries>>.
access_big_map(ls, id) == Find(ls.big_maps, id)
LazyPanic(ls) == [ls EXCEPT !.panic = TRUE]

PutMap(ls, id, m) ==
    [ls EXCEPT !.big_maps = SelectSeq(@, LAMBDA e : e[1] # id) \o <<<<id, m>>>>]

big_map_update(ls, id, key, value) ==
    LET info == access_big_map(ls, id)
    IN  IF info = <<>> THEN LazyPanic(ls)
        ELSE PutMap(ls, id, IF value = <<>> THEN Erase(info[1], key)
                            ELSE Insert(info[1], key, value[1]))
big_map_bulk_update(ls, id, entries) ==
    FoldLeft(LAMBDA acc, e : IF acc.panic THEN acc ELSE big_map_update(acc, id, e[1], e[2]),
             ls, entries)
big_map_new(ls) == [PutMap(ls, ls.next_id, <<>>) EXCEPT !.next_id = @ + 1]
big_map_remove(ls, id) == [ls EXCEPT !.big_maps = SelectSeq(@, LAMBDA e : e[1] # id)]
\* The id is taken before the source is looked up.
big_map_copy(ls, id) ==
    LET info == access_big_map(ls, id)
        taken == [ls EXCEPT !.next_id = @ + 1]
    IN  IF info = <<>> THEN LazyPanic(taken) ELSE PutMap(taken, ls.next_id, info[1])

\* BigMap::get on a handle <<id option, overlay>>.
handle_get(ls, h, key) ==
    CASE Find(h[2], key) # <<>> -> Find(h[2], key)[1]
      [] Find(h[2], key) = <<>> /\ h[1] # <<>> -> Find(access_big_map(ls, h[1][1])[1], key)
      [] OTHER -> <<>>
handle_mem(ls, h, key) ==
    CASE Find(h[2], key) # <<>> -> Find(h[2], key)[1] # <<>>
      [] Find(h[2], key) = <<>> /\ h[1] # <<>> -> key \in Keys(access_big_map(ls, h[1][1])[1])
      [] OTHER -> FALSE
handle_update(h, key, value) == <<h[1], Insert(h[2], key, value)>>

\* collect_big_maps, view_big_maps_mut: the handles inside a value, in order.
RECURSIVE collect_big_maps(_)
collect_big_maps(v) ==
    LET all(vs) == FlattenSeq([k \in DOMAIN vs |-> collect_big_maps(vs[k])])
    IN  CASE v[1] = "big_map" -> <<<<v[2], v[3]>>>>
          [] v[1] = "pair" -> all(<<v[2], v[3]>>)
          [] v[1] = "or" -> collect_big_maps(v[3])
          [] v[1] \in {"option", "list"} -> all(v[2])
          [] v[1] = "map" -> all([k \in DOMAIN v[2] |-> v[2][k][2]])
          [] v[1] = "operation" /\ v[2].kind \in {"TransferTokens", "CreateContract"} ->
                 collect_big_maps(v[2].param)
          [] OTHER -> <<>>

\* view_big_map_ids.
IdsOf(maps) == FlattenSeq([k \in DOMAIN maps |-> maps[k][1]])
view_big_map_ids(v) == IdsOf(collect_big_maps(v))

\* What a dump has done so far: the storage and the handles.
Dumped(d, k, ls, id) == [ls |-> ls, maps |-> [d.maps EXCEPT ![k] = <<<<id>>, <<>>>>]]

\* A handle without an id becomes a new stored map.
DumpNew(d, k) ==
    LET ls == big_map_new(d.ls)
    IN  Dumped(d, k, big_map_bulk_update(ls, d.ls.next_id, d.maps[k][2]), d.ls.next_id)

\* The handles (by position) on one stored map: all but the first get a copy of
\* it, then the first is written in place.
DumpGroup(d, id, group) ==
    LET copied == FoldLeft(LAMBDA acc, k :
                     Dumped(acc, k, big_map_bulk_update(big_map_copy(acc.ls, id), acc.ls.next_id,
                                                        acc.maps[k][2]), acc.ls.next_id),
                     d, Tail(group))
    IN  Dumped(copied, group[1],
               big_map_bulk_update(copied.ls, id, d.maps[group[1]][2]), id)

\* The maps the execution started with and no longer holds.
RemoveGone(ls, started, used) ==
    FoldLeft(LAMBDA acc, id : IF id \in used THEN acc ELSE big_map_remove(acc, id), ls, started)

\* dump_big_map_updates: new maps, then removals, then the groups by id.
dump_big_map_updates(ls, started, maps) ==
    LET ids == {maps[k][1][1] : k \in {j \in DOMAIN maps : maps[j][1] # <<>>}}
        positions(p(_)) == SelectSeq([k \in DOMAIN maps |-> k], p)
        news == FoldLeft(DumpNew, [ls |-> ls, maps |-> maps],
                         positions(LAMBDA k : maps[k][1] = <<>>))
        kept == [news EXCEPT !.ls = RemoveGone(@, started, ids)]
    IN  FoldLeft(LAMBDA acc, id : DumpGroup(acc, id, positions(LAMBDA k : maps[k][1] = <<id>>)),
                 kept, SetToSortSeq(ids, <))

---------------------------------------------------------------------------
(***************************************************************************)
(* big_maps at work (contrib/mir/src/ast/big_map.rs): handles - a stored   *)
(* map and the changes made to it in memory - over the lazy storage.  An   *)
(* execution updates handles, copies them (a big_map is duplicable) and    *)
(* drops them; when it ends, dump_big_map_updates writes the handles in    *)
(* the resulting value to the storage, and the next execution starts from  *)
(* what it left.                                                           *)
(***************************************************************************)
CONSTANTS LzHandles,      \* the places for a handle, 1..n
          LzKeys, LzValues,
          LzMaxIds        \* bound on the maps ever allocated

VARIABLES lz_store,     \* InMemoryLazyStorage
          lz_handle,    \* place |-> <<id option, overlay>>, or <<>> where free
          lz_view,      \* place |-> key |-> value option: what it must read
          lz_started    \* the ids this execution started with
lz_vars == <<lz_store, lz_handle, lz_view, lz_started>>

LzInit ==
    /\ lz_store = lazy_new
    /\ lz_handle = [h \in LzHandles |-> <<>>]
    /\ lz_view = [h \in LzHandles |-> [k \in LzKeys |-> <<>>]]
    /\ lz_started = <<>>

LzFree(h) == lz_handle[h] = <<>>

\* EMPTY_BIG_MAP: no stored map behind it.
LzEmpty(h) ==
    /\ LzFree(h)
    /\ lz_handle' = [lz_handle EXCEPT ![h] = <<<<>>, <<>>>>]
    /\ lz_view' = [lz_view EXCEPT ![h] = [k \in LzKeys |-> <<>>]]
    /\ UNCHANGED <<lz_store, lz_started>>

LzClone(g, h) ==
    /\ ~LzFree(g) /\ LzFree(h)
    /\ lz_handle' = [lz_handle EXCEPT ![h] = lz_handle[g]]
    /\ lz_view' = [lz_view EXCEPT ![h] = lz_view[g]]
    /\ UNCHANGED <<lz_store, lz_started>>

LzUpdate(h, k, v) ==
    /\ ~LzFree(h)
    /\ lz_handle' = [lz_handle EXCEPT ![h] = handle_update(@, NatV(k), v)]
    /\ lz_view' = [lz_view EXCEPT ![h][k] = v]
    /\ UNCHANGED <<lz_store, lz_started>>

\* The handle is gone; its map is removed when the execution ends.
LzDrop(h) ==
    /\ ~LzFree(h)
    /\ lz_handle' = [lz_handle EXCEPT ![h] = <<>>]
    /\ lz_view' = [lz_view EXCEPT ![h] = [k \in LzKeys |-> <<>>]]
    /\ UNCHANGED <<lz_store, lz_started>>

\* The value an execution ends with: the first place is the parameter of an
\* operation, the others are in the storage.
LzResult(handles) ==
    LET at(h) == <<"option", IF handles[h] = <<>> THEN <<>>
                             ELSE <<<<"big_map", handles[h][1], handles[h][2], Nat_, Nat_>>>>>>
        rest == [h \in 1..(Cardinality(LzHandles) - 1) |-> <<NatV(h), at(h + 1)>>]
    IN  PairV(<<"list", <<<<"operation", [kind |-> "TransferTokens", param |-> at(1)], 1>>>>>>,
              <<"or", "Right", <<"map", rest>>>>)

\* The end of an execution.
LzUsed == SelectSeq([h \in 1..Cardinality(LzHandles) |-> h], LAMBDA h : ~LzFree(h))
LzEnd ==
    \E d \in {dump_big_map_updates(lz_store, lz_started,
                                   collect_big_maps(LzResult(lz_handle)))} :
        /\ d.ls.next_id <= LzMaxIds
        /\ lz_store' = d.ls
        /\ lz_handle' = [h \in LzHandles |->
                           IF LzFree(h) THEN <<>>
                           ELSE d.maps[CHOOSE k \in DOMAIN LzUsed : LzUsed[k] = h]]
        /\ lz_started' = view_big_map_ids(LzResult(lz_handle'))
        /\ UNCHANGED lz_view

LzNext ==
    \/ \E h \in LzHandles :
        \/ LzEmpty(h)
        \/ \E g \in LzHandles : LzClone(g, h)
        \/ \E k \in LzKeys, v \in {<<>>} \cup {<<NatV(x)>> : x \in LzValues} : LzUpdate(h, k, v)
        \/ LzDrop(h)
    \/ LzEnd

-----------------------------------------------------------------------------
\* Each handle reads, for every key and by GET and MEM alike, what its own
\* updates left there: within an execution, across the dumps in place, into new
\* maps and into copies, and whatever the other handles on the same map do.
LzHandlesIsolated ==
    \A h \in LzHandles : ~LzFree(h) =>
        \A k \in LzKeys :
            /\ handle_get(lz_store, lz_handle[h], NatV(k)) = lz_view[h][k]
            /\ handle_mem(lz_store, lz_handle[h], NatV(k)) = (lz_view[h][k] # <<>>)

\* What dump_big_map_updates says it leaves: no id twice, and in the storage the
\* maps of those ids and no other; an unknown id is never looked up.
LzStoreExact ==
    /\ ~lz_store.panic
    /\ \A j, k \in DOMAIN lz_started : lz_started[j] = lz_started[k] => j = k
    /\ Keys(lz_store.big_maps) = {lz_started[k] : k \in DOMAIN lz_started}
    /\ \A id \in Keys(lz_store.big_maps) : id < lz_store.next_id

---------------------------------------------------------------------------
CONSTANTS Themes,      \* theme |-> [instrs, starts, gas, depth]
          Scripts,     \* contracts with a parameter and a storage
          SelfEps      \* entrypoints of the running contract

VARIABLES mir_theme,
          mir_ts,      \* the type stack, or Failed
          mir_st,      \* the state of the interpreter
          mir_code     \* the instructions executed, for the properties
mir_vars == <<mir_theme, mir_ts, mir_st, mir_code>>

MirStart(gas, s) ==
    [s |-> s, gas |-> gas, ops |-> 0, orig |-> 0, out |-> "ok", fail |-> <<>>,
     minted |-> TicketsIn(<<"list", s>>)]

MirInit ==
    /\ mir_theme \in DOMAIN Themes
    /\ \E start \in Themes[mir_theme].starts, gas \in Themes[mir_theme].gas :
         /\ mir_ts = start.ts
         /\ mir_st = MirStart(gas, start.s)
    /\ mir_code = <<>>

MirRunning == mir_st.out = "ok" /\ Len(mir_code) < Themes[mir_theme].depth

\* Bound: only short byte strings are read as numbers.
MAX_NUM_BYTES == 2
MirSmall(m) ==
    m[1] = "App" /\ m[2] \in {"INT", "NAT"} /\ Shape(mir_ts, <<"bytes">>) =>
        Len(mir_st.s[1][2]) <= MAX_NUM_BYTES

\* The next instruction of the program; one the typechecker refuses is in no
\* program.
MirStep ==
    /\ MirRunning
    /\ \E m \in Themes[mir_theme].instrs :
         /\ MirSmall(m)
         /\ mir_code' = Append(mir_code, m)
         /\ \E r \in {typecheck_instruction(m, <<SelfEps>>, mir_ts)} :
              \/ /\ r.err = ""
                 /\ mir_ts' = r.val.s
                 /\ mir_st' = interpret_one(r.val.i, mir_st)
              \/ /\ r.err = "panic"
                 /\ mir_st' = Panic(mir_st)
                 /\ UNCHANGED mir_ts
    /\ UNCHANGED mir_theme

\* A contract is called: its script is checked, then its arguments, then run.
MirCall ==
    /\ MirRunning
    /\ mir_code = <<>>
    /\ \E c \in Scripts : \E r \in {typecheck_script(c.script)} :
         /\ r.err = ""
         /\ mir_ts' = <<PairT(ListT(Operation_), r.val.storage)>>
         /\ mir_st' = interpret_script(r.val, c.parameter, c.storage, mir_st)
         /\ mir_code' = <<c.script>>
    /\ UNCHANGED mir_theme

MirNext == MirStep \/ MirCall

-----------------------------------------------------------------------------
(* Properties                                                              *)

Sorted(s, key_of(_)) == \A k \in 1..(Len(s) - 1) : Lt(key_of(s[k]), key_of(s[k + 1]))

\* The type of a closure.
RECURSIVE ClosureType(_)
ClosureType(c) ==
    IF c.kind = "Apply"
    THEN LET inner == ClosureType(c.closure) IN LambdaT(inner[2][3], inner[3])
    ELSE LambdaT(c.in_ty, c.out_ty)

\* What a value of a type may be.
RECURSIVE HasType(_, _)
HasType(v, t) ==
    LET each(s, ty) == \A k \in DOMAIN s : HasType(s[k], ty)
    IN  IF t[1] = "contract" /\ v[1] = "contract"
        THEN typecheck_contract_address(v[2], v[3], DefaultEp, t[2]).err = ""
        ELSE
        /\ v[1] = t[1]
        /\ CASE t[1] = "nat" -> v[2] >= 0
             [] t[1] = "mutez" -> v[2] \in 0..MUTEZ_MAX
             [] t = Fr_ \/ t = G1_ \/ t = G2_ -> v[2] \in 0..(FR_ORDER - 1)
             [] t[1] = "bytes" -> \A k \in DOMAIN v[2] : v[2][k] \in 0..255
             [] t[1] = "pair" -> HasType(v[2], t[2]) /\ HasType(v[3], t[3])
             [] t[1] = "or" -> HasType(v[3], t[IF v[2] = "Left" THEN 2 ELSE 3])
             [] t[1] \in {"option", "list"} -> each(v[2], t[2])
             [] t[1] = "set" -> each(v[2], t[2]) /\ Sorted(v[2], LAMBDA x : x)
             [] t[1] = "map" ->
                    /\ \A k \in DOMAIN v[2] : HasType(v[2][k][1], t[2]) /\ HasType(v[2][k][2], t[3])
                    /\ Sorted(v[2], LAMBDA x : x[1])
             [] t[1] = "big_map" ->
                    /\ v[4] = t[2] /\ v[5] = t[3]
                    /\ \A k \in DOMAIN v[3] : HasType(v[3][k][1], t[2]) /\ each(v[3][k][2], t[3])
                    /\ Sorted(v[3], LAMBDA x : x[1])
             [] t[1] = "ticket" -> HasType(v[2].content, t[2]) /\ v[2].amount > 0
             [] t[1] = "lambda" -> ClosureType(v[2]) = t
             [] OTHER -> TRUE

\* Subject reduction: while a program runs, the value stack has exactly the
\* types the typechecker computed - lengths, ranges of mutez and scalars, sorted
\* keys, contents of collections and closures included.  The interpreter relies
\* on it in every arm.
MirTypesPreserved ==
    mir_st.out = "ok" /\ mir_ts # Failed =>
        /\ Len(mir_st.s) = Len(mir_ts)
        /\ \A k \in DOMAIN mir_ts : HasType(mir_st.s[k], mir_ts[k])

\* Progress: a program the typechecker accepted never reaches a state that
\* unreachable_state, or the cost of a comparison, declares unreachable.
MirProgress == mir_st.out # "unreachable"

\* No program makes tickets out of nothing: what is on the stack, inside
\* pairs, collections, closures and operations, was minted by TICKET.
MirTicketsConserved ==
    mir_st.out = "ok" => TicketsIn(<<"list", mir_st.s>>) <= mir_st.minted

\* The operations inside a value.
RECURSIVE OperationsIn(_)
OperationsIn(v) ==
    LET all(vs) == FlattenSeq([k \in DOMAIN vs |-> OperationsIn(vs[k])])
    IN  CASE v[1] = "operation" -> <<v>>
          [] v[1] = "pair" -> all(<<v[2], v[3]>>)
          [] v[1] \in {"option", "list"} -> all(v[2])
          [] v[1] = "or" -> OperationsIn(v[3])
          [] OTHER -> <<>>

\* The counter tells an operation from every other one, so that a copy (an
\* operation may be duplicated) is recognised as a replay; none is beyond the
\* counter of the context.
MirOperationsUnique ==
    mir_st.out = "ok" =>
        LET ops == OperationsIn(<<"list", mir_st.s>>)
        IN  \A j, k \in DOMAIN ops :
                ops[j][3] <= mir_st.ops /\ (ops[j][3] = ops[k][3] => ops[j] = ops[k])

\* Values whose closures can be written: APPLY captured what PUSH can push.
RECURSIVE Writable(_)
Writable(c) == c.kind = "Apply" => Has(c.arg_ty, "Pushable") /\ Writable(c.closure)
CanWrite(v, t) == Has(t, "Pushable") /\ (v[1] = "lambda" => Writable(v[2]))

\* The decoded bytes are read at type t as the value v.
Unpacks(d, t, v) == d.err = "" /\ ReadsAs(typecheck_value(d.val, t), v)

\* PACK and UNPACK: a value of a pushable type is read back from its bytes, at
\* its type, as the same value (as the TZT runner compares values: a closure is
\* the code it stands for, a signature its bytes).
MirPackRoundTrip ==
    mir_st.out = "ok" /\ mir_ts # Failed =>
        \A k \in DOMAIN mir_ts :
            CanWrite(mir_st.s[k], mir_ts[k]) =>
                Unpacks(decode_packed(encode_for_pack(ToMicheline(mir_st.s[k]))),
                        mir_ts[k], mir_st.s[k])

\* The outcome of a program, as a TZT test sees it.
MirResult == [tc |-> "", ts |-> mir_ts, st |-> mir_st]
ExpectStack(r) == [kind |-> "Success", ts |-> r.val.ts, vs |-> r.val.vs]
MirExpectation ==
    CASE mir_st.out = "ok" ->
             ExpectStack(typecheck_stack([k \in DOMAIN mir_ts |->
                 <<TypeToMicheline(mir_ts[k]), ToMicheline(mir_st.s[k])>>]))
      [] mir_st.out = "FailedWith" ->
             [kind |-> "FailedWith", value |-> ToMicheline(mir_st.fail[2])]
      [] OTHER -> [kind |-> mir_st.out]

\* A TZT test whose expectation is written from what the program really does -
\* its final stack, the value it fails with, or an overflow - passes, and one
\* that expects a static error does not.
MirTztConsistent ==
    \/ /\ mir_st.out = "ok" /\ mir_ts # Failed
       /\ \A k \in DOMAIN mir_ts : CanWrite(mir_st.s[k], mir_ts[k])
    \/ mir_st.out \in {"FailedWith", "MutezOverflow"}
    => \A exp \in {MirExpectation, [kind |-> "StaticError"]} :
           check_expectation(exp, MirResult) = "pass" <=> exp.kind # "StaticError"

\* Gas only goes down, the counters only up, and the counter is exhausted for
\* good: no step of a program brings back what another took.
MirGasMonotone ==
    [][/\ mir_st'.gas <= mir_st.gas
       /\ mir_st'.ops >= mir_st.ops /\ mir_st'.orig >= mir_st.orig
       /\ mir_st.gas = Exhausted => mir_st'.out \in {"ok", "panic", "FailedWith"}]_mir_vars
=============================================================================
