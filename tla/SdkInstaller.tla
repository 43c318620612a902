----------------------------- MODULE SdkInstaller ----------------------------
(***************************************************************************)
(* The installer kernel (installer-kernel/src), its configuration programs *)
(* (installer-config/src) and the client that makes them                   *)
(* (installer-client/src): a kernel that carries a program in its own      *)
(* binary, runs it on the durable storage, and so puts another kernel in   *)
(* its place.                                                              *)
(*                                                                         *)
(* A binary is a sequence of cells; a number that the code writes on four  *)
(* bytes, a length, a hash and a step of a path are one cell each.         *)
(***************************************************************************)
EXTENDS SdkStore

---------------------------------------------------------------------------
(***************************************************************************)
(* DAC pages of the kernel SDK (encoding/src/dac/pages.rs): the tree of    *)
(* pages made of a content, the two ways it is revealed - depth first for  *)
(* the installer (`reveal_loop`), breadth first for a certificate          *)
(* (encoding/src/dac/certificate.rs) - and the certificate's signatures.   *)
(*                                                                         *)
(* A page is [tag, size, body]: the size prefix and the bytes that follow, *)
(* in hashes for a hash page.  A hash is the number its page was given, so *)
(* different pages have different hashes.                                  *)
(***************************************************************************)
CONSTANTS MAX_CONTENT_SIZE,     \* bytes of content in a page
          MAX_HASHES_PER_PAGE,  \* hashes in a page
          MAX_TOP_LEVEL_HASHES, \* the certificate's bound
          MAX_DAC_LEVELS,       \* the installer's bound
          SdkContents,          \* lengths of the contents tried
          SdkCommittee          \* members of the committee

ASSUME SdkDacAssumption ==
  /\ MAX_CONTENT_SIZE \in Nat \ {0} /\ MAX_HASHES_PER_PAGE \in Nat \ {0, 1}
  /\ MAX_TOP_LEVEL_HASHES \in Nat /\ MAX_DAC_LEVELS \in Nat

VARIABLE sdDac

SdkChunks(s, n) ==
  [i \in 1 .. (Len(s) + n - 1) \div n |->
     SubSeq(s, (i - 1) * n + 1, IF i * n <= Len(s) THEN i * n ELSE Len(s))]

ContentPage(c)  == [tag |-> 0, size |-> Len(c), body |-> c]
HashPage(hs)    == [tag |-> 1, size |-> Len(hs), body |-> hs]

\* prepare_preimages: the pages so far, in the order they are handed out, and
\* then a level of hash pages over the last until one hash is left.
RECURSIVE HashLevels(_, _)
HashLevels(pages, hashes) ==
  IF Len(hashes) <= 1 THEN [pages |-> pages, root |-> hashes[1]]
  ELSE LET above == SdkChunks(hashes, MAX_HASHES_PER_PAGE)
       IN  HashLevels(pages \o [i \in DOMAIN above |-> HashPage(above[i])],
                      [i \in DOMAIN above |-> Len(pages) + i])

prepare_preimages(content) ==
  LET leaves == SdkChunks(content, MAX_CONTENT_SIZE)
  IN  HashLevels([i \in DOMAIN leaves |-> ContentPage(leaves[i])], [i \in DOMAIN leaves |-> i])

\* SlicePage::try_from with the parsers of the two kinds of page.
TryPage(page) ==
  CASE page.tag \notin {0, 1}      -> [kind |-> "InvalidTag", inner |-> <<>>]
    [] page.tag \in {0, 1} /\ Len(page.body) < page.size ->
                                      [kind |-> "InvalidSizePrefix", inner |-> <<>>]
    [] OTHER -> [kind  |-> IF page.tag = 0 THEN "Content" ELSE "Hashes",
                 inner |-> SubSeq(page.body, 1, page.size)]

---------------------------------------------------------------------------
\* reveal_loop: [res, out], the content saved up to the error when there is
\* one.  `have` are the hashes whose preimage the host can give.
RECURSIVE reveal_loop(_, _, _, _, _)
RECURSIVE RevealEach(_, _, _, _, _)
reveal_loop(pages, have, level, hash, out) ==
  IF level >= MAX_DAC_LEVELS THEN [res |-> "TooManyLevels", out |-> out]
  ELSE IF hash \notin have THEN [res |-> "NoPreimage", out |-> out]
  ELSE LET page == TryPage(pages[hash])
       IN  CASE page.kind = "Hashes"  -> RevealEach(pages, have, level + 1, page.inner, out)
             [] page.kind = "Content" -> [res |-> "Ok", out |-> out \o page.inner]
             [] OTHER                 -> [res |-> "NotAPage", out |-> out]
RevealEach(pages, have, level, hashes, out) ==
  IF hashes = <<>> THEN [res |-> "Ok", out |-> out]
  ELSE LET first == reveal_loop(pages, have, level, Head(hashes), out)
       IN  IF first.res # "Ok" THEN first
           ELSE RevealEach(pages, have, level, Tail(hashes), first.out)

---------------------------------------------------------------------------
MAX_REVEALS == 1 + MAX_TOP_LEVEL_HASHES + MAX_HASHES_PER_PAGE * MAX_TOP_LEVEL_HASHES

TooManyHashes(known, page) == Len(page) > MAX_REVEALS - known

\* reveal_to_store: hashes are appended to the list they are taken from.
RECURSIVE RevealList(_, _, _, _, _)
RevealList(pages, have, hashes, revealed, out) ==
  IF revealed >= Len(hashes) THEN [res |-> "Ok", out |-> out]
  ELSE IF hashes[revealed + 1] \notin have THEN [res |-> "RevealError", out |-> out]
  ELSE LET page == TryPage(pages[hashes[revealed + 1]])
       IN  CASE page.kind = "Hashes" /\ TooManyHashes(Len(hashes), page.inner) ->
                  [res |-> "PayloadTooLarge", out |-> out]
             [] page.kind = "Hashes" /\ ~ TooManyHashes(Len(hashes), page.inner) ->
                  RevealList(pages, have, hashes \o page.inner, revealed + 1, out)
             [] page.kind = "Content" ->
                  RevealList(pages, have, hashes, revealed + 1, out \o page.inner)
             [] OTHER -> [res |-> "PageError", out |-> out]

reveal_to_store(pages, have, root) == RevealList(pages, have, <<root>>, 0, <<>>)

\* Certificate::verify: the members whose witness bit is set, and the
\* aggregate signature, good when those members and no others made it.
verify(members, witnesses, signers, threshold) ==
  IF Cardinality(members \cap witnesses) < threshold THEN "InsufficientNumberOfSignatures"
  ELSE IF signers = members \cap witnesses THEN "Ok" ELSE "InvalidAggregateSignature"

---------------------------------------------------------------------------
\* Bits beyond the committee may be set in a witness field.
SdkBits == 0 .. SdkCommittee

SdkDacInit ==
  \/ \E n \in SdkContents :
       LET tree == prepare_preimages([i \in 1 .. n |-> i])
       IN  \E missing \in 0 .. Len(tree.pages) :
             sdDac = [case |-> "reveal", content |-> [i \in 1 .. n |-> i], tree |-> tree,
                      have |-> DOMAIN tree.pages \ {missing}]
  \/ \E size \in 0 .. SdkCommittee, witnesses \in SUBSET SdkBits,
        signers \in SUBSET (0 .. SdkCommittee - 1), threshold \in 0 .. SdkCommittee :
       sdDac = [case |-> "certificate", members |-> 0 .. size - 1,
                witnesses |-> witnesses, signers |-> signers, threshold |-> threshold]

SdkCap == MAX_TOP_LEVEL_HASHES * MAX_HASHES_PER_PAGE * MAX_CONTENT_SIZE

(***************************************************************************)
(* Revealing the pages of a content gives the content, in order, whichever *)
(* of the two reveals is used: the certificate's up to the 10,063,860      *)
(* bytes its documentation promises and no further, the installer's up to  *)
(* its four levels; and when a page is missing, what was saved before the  *)
(* error is a beginning of the content ("the content revealed up-to the    *)
(* error occuring will be written in `path`", certificate.rs:159).         *)
(***************************************************************************)
SdkRevealsContent ==
  sdDac.case = "reveal" =>
    LET all    == DOMAIN sdDac.tree.pages
        pages  == sdDac.tree.pages
        whole  == reveal_to_store(pages, all, sdDac.tree.root)
        deep   == reveal_loop(pages, all, 0, sdDac.tree.root, <<>>)
        partly == reveal_to_store(pages, sdDac.have, sdDac.tree.root)
        partlyDeep == reveal_loop(pages, sdDac.have, 0, sdDac.tree.root, <<>>)
    IN  /\ (whole.res = "Ok") <=> (Len(sdDac.content) <= SdkCap)
        /\ whole.res # "Ok" => whole.res = "PayloadTooLarge" /\ whole.out = <<>>
        /\ whole.res = "Ok" => whole.out = sdDac.content
        /\ deep.res = "Ok" => deep.out = sdDac.content
        /\ deep.res # "Ok" => deep.res = "TooManyLevels" /\ deep.out = <<>>
        /\ IsPrefix(partly.out, sdDac.content) /\ IsPrefix(partlyDeep.out, sdDac.content)
        /\ sdDac.have # all => partly.res # "Ok" /\ partlyDeep.res # "Ok"

(***************************************************************************)
(* A certificate that verifies was signed by at least the threshold of     *)
(* members of the committee, and by no one its witness field leaves out;   *)
(* witness bits beyond the committee count for nothing.                    *)
(***************************************************************************)
SdkCertificateSigned ==
  sdDac.case = "certificate" =>
    (verify(sdDac.members, sdDac.witnesses, sdDac.signers, sdDac.threshold) = "Ok" =>
       /\ sdDac.signers \subseteq sdDac.members \cap sdDac.witnesses
       /\ Cardinality(sdDac.signers) >= sdDac.threshold)

---------------------------------------------------------------------------
CONSTANTS SdkSetups,     \* setup programs given to the client
          SdkKernel,     \* the content of the kernel to install
          SdkMaxRuns     \* bound: runs of the installer

VARIABLE sdInst
sdInstVars == <<sdTree, sdLast, sdInst>>

KERNEL_BOOT_PATH    == <<10>>
PREPARE_KERNEL_PATH == <<11>>
AUXILIARY_PATH      == <<12>>
InstallerCode       == <<90, 91>>

---------------------------------------------------------------------------
(* Binary form of a program: installer-config/src/binary.                  *)

Sized(cells) == <<Len(cells)>> \o cells

EncodeInstr(i) ==
  CASE i.op = "Reveal" -> <<0>> \o Sized(<<i.hash>>) \o Sized(i.to)
    [] i.op = "Move"   -> <<1>> \o Sized(i.from) \o Sized(i.to)
    [] i.op = "Set"    -> <<2>> \o Sized(i.value) \o Sized(i.to)

EncodeProgram(is) ==
  LET body == FlattenSeq([k \in DOMAIN is |-> Sized(EncodeInstr(is[k]))])
  IN  Append(body, Len(body))

\* length_data: a length within the bound and that many cells, or nothing.
TakeSized(cells, bound) ==
  IF cells = <<>> \/ (cells # <<>> /\ (cells[1] > bound \/ Len(cells) < 1 + cells[1]))
  THEN [ok |-> FALSE, data |-> <<>>, rest |-> <<>>]
  ELSE [ok |-> TRUE, data |-> SubSeq(cells, 2, 1 + cells[1]),
        rest |-> SubSeq(cells, 2 + cells[1], Len(cells))]

\* ConfigInstruction::nom_read followed by `completed`.
InstrOf(tag, first, second) ==
  IF tag \notin 0 .. 2 \/ ~ first.ok \/ ~ second.ok \/ second.rest # <<>>
  THEN [op |-> "Undecodable"]
  ELSE CASE tag = 0 -> [op |-> "Reveal", hash |-> first.data[1], to |-> second.data]
         [] tag = 1 -> [op |-> "Move", from |-> first.data, to |-> second.data]
         [] tag = 2 -> [op |-> "Set", value |-> first.data, to |-> second.data]

DecodeSecond(tag, first) == InstrOf(tag, first, TakeSized(first.rest, SdkMaxDepth))

DecodeInstr(cells) ==
  DecodeSecond(cells[1],
    TakeSized(Tail(cells), IF cells[1] = 1 THEN SdkMaxDepth ELSE MAX_FILE_CHUNK_SIZE))

---------------------------------------------------------------------------
(* The client: create_installer_config and with_config_program.            *)

\* Mutant: the kernel is revealed at the boot path.
create_installer_config_in_place(root, setup) ==
  <<[op |-> "Reveal", hash |-> root, to |-> KERNEL_BOOT_PATH]>> \o setup

create_installer_config(root, setup) ==
  <<[op |-> "Reveal", hash |-> root, to |-> PREPARE_KERNEL_PATH],
    [op |-> "Move", from |-> PREPARE_KERNEL_PATH, to |-> KERNEL_BOOT_PATH]>> \o setup

with_config_program(is) == InstallerCode \o EncodeProgram(is)

KernelTree == prepare_preimages(SdkKernel)
InstallerBinary(setup) == with_config_program(create_installer_config(KernelTree.root, setup))

---------------------------------------------------------------------------
(* The installer: eval_config_instr and install_kernel.                    *)

\* Each content page is written behind the one before, the ones before a
\* missing page included.
WritePages(t, r, to) ==
  LET Write(acc, page) == [tree |-> store_write(acc.tree, to, page, acc.at).tree,
                           at |-> acc.at + Len(page)]
  IN  [res |-> r.res,
       tree |-> FoldLeft(Write, [tree |-> t, at |-> 0], SdkChunks(r.out, MAX_CONTENT_SIZE)).tree]

reveal_root_hash_to_store(t, have, hash, to) ==
  WritePages(t, reveal_loop(KernelTree.pages, have, 0, hash, <<>>), to)

eval_config_instr(t, have, i) ==
  CASE i.op = "Reveal" -> reveal_root_hash_to_store(t, have, i.hash, i.to)
    [] i.op = "Move"   -> store_move(t, i.from, i.to)
    [] i.op = "Set"    -> store_write(t, i.to, i.value, 0)
    [] OTHER           -> SdkErr("Undecodable", t)

\* The loop over the copy of the installer's binary.
InstrAt(binary, offset) ==
  DecodeInstr(SubSeq(binary, offset + 2, offset + 1 + binary[offset + 1]))

RECURSIVE Interpret(_, _, _, _)
RECURSIVE InterpretAfter(_, _, _, _)
Interpret(t, have, offset, end) ==
  IF offset >= end THEN SdkOk(t)
  ELSE InterpretAfter(eval_config_instr(t, have, InstrAt(t[AUXILIARY_PATH][1], offset)),
                      have, offset + 1 + t[AUXILIARY_PATH][1][offset + 1], end)
InterpretAfter(step, have, offset, end) ==
  IF step.res # "Ok" THEN step ELSE Interpret(step.tree, have, offset, end)

InterpretBinary(t, have, binary) ==
  Interpret(store_copy(t, KERNEL_BOOT_PATH, AUXILIARY_PATH).tree, have,
            Len(binary) - 1 - binary[Len(binary)], Len(binary) - 1)

DeleteCopy(ran) == IF ran.res # "Ok" THEN ran ELSE store_delete(ran.tree, AUXILIARY_PATH)

install_kernel(t, have) == DeleteCopy(InterpretBinary(t, have, t[KERNEL_BOOT_PATH][1]))

---------------------------------------------------------------------------
Boot(t) == t[KERNEL_BOOT_PATH][1]

SdkInstInit ==
  /\ \E setup \in SdkSetups :
       /\ sdInst = [setup |-> setup, have |-> {}, runs |-> 0, status |-> "installer"]
       /\ sdTree = store_write_all(EmptyTree, KERNEL_BOOT_PATH, InstallerBinary(setup)).tree
  /\ sdLast = "Ok"

\* The rollup node obtains a page.
Publish ==
  /\ \E h \in DOMAIN KernelTree.pages \ sdInst.have :
       sdInst' = [sdInst EXCEPT !.have = @ \cup {h}]
  /\ UNCHANGED <<sdTree, sdLast>>

\* A kernel_run of whatever kernel is at the boot path: the installer's is
\* `installer`, which asks for a reboot only when all went well.
KernelRun ==
  /\ sdInst.status = "installer" /\ sdInst.runs < SdkMaxRuns
  /\ \E r \in {install_kernel(sdTree, sdInst.have)} :
       /\ sdTree' = r.tree /\ sdLast' = r.res
       /\ sdInst' = [sdInst EXCEPT !.runs = @ + 1,
            !.status = CASE r.res = "Ok" -> "rebooted"
                         [] r.res # "Ok" /\ Boot(r.tree) # InstallerBinary(sdInst.setup) -> "replaced"
                         [] OTHER -> "installer"]

SdkInstNext == Publish \/ KernelRun

SdkInstSpec == SdkInstInit /\ [][SdkInstNext]_sdInstVars

---------------------------------------------------------------------------
(***************************************************************************)
(* The boot path never holds a part of a kernel: whichever pages were      *)
(* missing in however many runs, it holds the installer or the whole of    *)
(* the kernel to install.  This is what revealing to a prepared path and   *)
(* moving it buys.                                                         *)
(***************************************************************************)
SdkBootWhole ==
  Boot(sdTree) \in {InstallerBinary(sdInst.setup), SdkKernel}

\* A setup program run on the map of paths, without the binary form.
RECURSIVE Applied(_, _)
Applied(t, setup) ==
  IF setup = <<>> THEN t
  ELSE Applied(eval_config_instr(t, DOMAIN KernelTree.pages, Head(setup)).tree, Tail(setup))

(***************************************************************************)
(* When the installer asks for the reboot, the storage is what the         *)
(* program of its client says, however many runs failed before: the kernel *)
(* in its place, every setup instruction applied in order, and none of the *)
(* installer's own paths left.                                             *)
(***************************************************************************)
SdkInstallExact ==
  sdInst.status = "rebooted" =>
    SdkMapOf(sdTree) =
      SdkMapOf(Applied(store_write_all(EmptyTree, KERNEL_BOOT_PATH, SdkKernel).tree, sdInst.setup))
=============================================================================
