----------------------------- MODULE RvSandbox -----------------------------
(* The rvemu mode of the RISC-V sandbox: an inbox is built level by level,  *)
(* then the guest runs and asks for its messages through SBI calls until it *)
(* has been told twice that there are none.  A message is its kind and      *)
(* length; the guest is arbitrary; rvemu itself is external.                *)
EXTENDS Integers, Sequences, FiniteSets, SequencesExt, TLC

CONSTANTS
    SbLengths,       \* lengths of serialised external messages
    SbMaxMessages,   \* bound on the messages inserted
    SbMaxLevels,     \* bound on the levels of the inbox
    SbBuffers,       \* buffer sizes (a1), one of which the guest passes
    SbMaxNones       \* bound on the empty answers when the loop keeps going

ASSUME SbAssumption ==
    /\ SbLengths \subseteq Nat /\ SbBuffers \subseteq Nat
    /\ {SbMaxMessages, SbMaxLevels, SbMaxNones} \subseteq Nat

VARIABLES
    sbInbox,     \* Inbox: levels, current_level, current_id, none_counter
    sbBuilt,     \* the levels when build() returned
    sbGuest,     \* registers a0 to a2 after the last call, and the buffer it passes
    sbStatus,    \* build | run | done | exit | error | panic
    sbKeepGoing, \* the option keep_going
    sbGiven      \* history: answers of inbox.next(), with the length copied

sbVars == <<sbInbox, sbBuilt, sbGuest, sbStatus, sbKeepGoing, sbGiven>>

Message(kind, len) == [kind |-> kind, len |-> len]

-----------------------------------------------------------------------------
\* InboxBuilder.
insert_raw(levels, msg) == [levels EXCEPT ![Len(levels)] = Append(@, msg)]

start_level(levels) ==
    insert_raw(insert_raw(levels, Message("StartOfLevel", 2)), Message("InfoPerLevel", 4))

end_level(levels) == insert_raw(levels, Message("EndOfLevel", 2))

next_level(levels) == start_level(Append(end_level(levels), <<>>))

\* Inbox::next: <<answer, inbox>>, the answer <<>> when no level is left.  An
\* exhausted level is dropped and the search goes on in the next one.
\* Mutant: the identifier is not reset for the next level.
next_keeps_id(inbox) ==
    LET Answer[n \in 0 .. Len(inbox.levels)] ==
          LET box == [inbox EXCEPT !.levels = SubSeq(@, n + 1, Len(@)), !.level = @ + n]
          IN  IF box.levels = <<>> THEN <<<<>>, [box EXCEPT !.nones = @ + 1]>>
              ELSE IF Head(box.levels) = <<>> THEN Answer[n + 1]
              ELSE <<<<box.level, box.id, Head(Head(box.levels))>>,
                     [box EXCEPT !.id = @ + 1, !.levels[1] = Tail(@)]>>
    IN  Answer[0]

inbox_next(inbox) ==
    LET Answer[n \in 0 .. Len(inbox.levels)] ==
          LET box == [inbox EXCEPT !.levels = SubSeq(@, n + 1, Len(@)), !.level = @ + n,
                                   !.id = IF n > 0 THEN 0 ELSE @]
          IN  IF box.levels = <<>> THEN <<<<>>, [box EXCEPT !.nones = @ + 1]>>
              ELSE IF Head(box.levels) = <<>> THEN Answer[n + 1]
              ELSE <<<<box.level, box.id, Head(Head(box.levels))>>,
                     [box EXCEPT !.id = @ + 1, !.levels[1] = Tail(@)]>>
    IN  Answer[0]

-----------------------------------------------------------------------------
SbInit ==
    /\ sbInbox = [levels |-> start_level(<<<<>>>>), level |-> 0, id |-> 0, nones |-> 0]
    /\ sbBuilt = <<>>
    /\ \E max \in SbBuffers : sbGuest = [regs |-> <<0, 0, 0>>, max |-> max]
    /\ sbStatus = "build" /\ sbGiven = <<>>
    /\ sbKeepGoing \in BOOLEAN

Inserted == Len(FlattenSeq(sbInbox.levels)) - 3 * Len(sbInbox.levels) + 1

Building(levels) ==
    /\ sbStatus = "build"
    /\ sbInbox' = [sbInbox EXCEPT !.levels = levels]
    /\ UNCHANGED <<sbBuilt, sbGuest, sbStatus, sbKeepGoing, sbGiven>>

Insert(kind, len) ==
    /\ Inserted < SbMaxMessages
    /\ Building(insert_raw(sbInbox.levels, Message(kind, len)))

NextLevel ==
    /\ Len(sbInbox.levels) < SbMaxLevels
    /\ Building(next_level(sbInbox.levels))

build ==
    /\ sbStatus = "build"
    /\ sbInbox' = [sbInbox EXCEPT !.levels = end_level(@)]
    /\ sbBuilt' = end_level(sbInbox.levels)
    /\ sbStatus' = "run"
    /\ UNCHANGED <<sbGuest, sbKeepGoing, sbGiven>>

-----------------------------------------------------------------------------
\* One turn of the loop of rvemu().
Looping ==
    /\ sbStatus = "run" /\ sbInbox.nones < SbMaxNones
    /\ sbInbox.nones < 2 \/ sbKeepGoing

\* An instruction that is not an environment call; a program counter that
\* did not move is "Stuck".
Execute(moved) ==
    /\ Looping
    /\ sbStatus' = IF moved THEN "run" ELSE "panic"
    /\ UNCHANGED <<sbInbox, sbBuilt, sbGuest, sbKeepGoing, sbGiven>>

\* An interrupt, another exception, and a failed or unknown call end the run.
Stop(status) ==
    /\ Looping
    /\ sbStatus' = status
    /\ UNCHANGED <<sbInbox, sbBuilt, sbGuest, sbKeepGoing, sbGiven>>

\* An environment call that is answered: the program counter moves past it.
Answered(regs) ==
    /\ sbStatus' = "run"
    /\ sbGuest' = [sbGuest EXCEPT !.regs = regs]

sbi_tezos_inbox_next ==
    /\ Looping
    /\ \E r \in {inbox_next(sbInbox)} :
          /\ sbInbox' = r[2]
          /\ IF r[1] = <<>> THEN Answered(<<0, 0, 0>>) /\ UNCHANGED sbGiven
             ELSE LET length == Min({r[1][3].len, sbGuest.max})
                  IN  /\ Answered(<<r[1][1], r[1][2], length>>)
                      /\ sbGiven' = Append(sbGiven, [level |-> r[1][1], id |-> r[1][2],
                                                     kind |-> r[1][3].kind, length |-> length])
    /\ UNCHANGED <<sbBuilt, sbKeepGoing>>

\* The destination cannot be translated or written: the message is gone from
\* the inbox, and the sandbox stops with the error.
InboxNextFails ==
    /\ Looping
    /\ \E r \in {inbox_next(sbInbox)} : r[1] # <<>> /\ sbInbox' = r[2]
    /\ sbStatus' = "error"
    /\ UNCHANGED <<sbBuilt, sbGuest, sbKeepGoing, sbGiven>>

\* sbi_console_putchar, the metadata and the cryptographic calls: they write
\* a0 (the last ones memory the guest names) and leave the inbox alone.
OtherSbi(a0) ==
    /\ Looping
    /\ Answered([sbGuest.regs EXCEPT ![1] = a0])
    /\ UNCHANGED <<sbInbox, sbBuilt, sbKeepGoing, sbGiven>>

LoopEnds ==
    /\ sbStatus = "run" /\ sbInbox.nones >= 2 /\ ~sbKeepGoing
    /\ sbStatus' = "done"
    /\ UNCHANGED <<sbInbox, sbBuilt, sbGuest, sbKeepGoing, sbGiven>>

SbNext ==
    \/ \E len \in SbLengths : Insert("External", len)
    \/ Insert("Transfer", 3)
    \/ NextLevel
    \/ build
    \/ \E moved \in BOOLEAN : Execute(moved)
    \/ \E status \in {"exit", "error", "panic"} : Stop(status)
    \/ sbi_tezos_inbox_next
    \/ InboxNextFails
    \/ OtherSbi(0)
    \/ LoopEnds

-----------------------------------------------------------------------------
\* The message that sits at position i of level n of the built inbox.
Position(n, i) == [level |-> n - 1, id |-> i - 1, kind |-> sbBuilt[n][i].kind, len |-> sbBuilt[n][i].len]

Numbered ==
    FlattenSeq([n \in DOMAIN sbBuilt |-> [i \in DOMAIN sbBuilt[n] |-> Position(n, i)]])

\* The guest gets the messages of the inbox in order, none twice and none
\* left out, numbered by level and position, each cut to its buffer; and every
\* level is framed by StartOfLevel, InfoPerLevel and EndOfLevel.
SbInboxExact ==
    /\ Len(sbGiven) <= Len(Numbered)
    /\ \A k \in DOMAIN sbGiven :
          /\ <<sbGiven[k].level, sbGiven[k].id, sbGiven[k].kind>> =
                <<Numbered[k].level, Numbered[k].id, Numbered[k].kind>>
          /\ sbGiven[k].length = Min({Numbered[k].len, sbGuest.max})
    /\ \A n \in DOMAIN sbBuilt :
          LET kinds == [i \in DOMAIN sbBuilt[n] |-> sbBuilt[n][i].kind]
          IN  /\ SubSeq(kinds, 1, 2) = <<"StartOfLevel", "InfoPerLevel">>
              /\ \A i \in DOMAIN kinds : kinds[i] = "EndOfLevel" <=> i = Len(kinds)

\* The sandbox ends by itself only after the guest has got every message and
\* has been told twice that there is none.
SbDoneAfterAll ==
    sbStatus = "done" => Len(sbGiven) = Len(Numbered) /\ sbInbox.nones = 2

\* The sandbox gives the guest the whole inbox, in order, and then ends.
SandboxExact == SbInboxExact /\ SbDoneAfterAll

---------------------------------------------------------------------------
(* Loading an ELF file (kernel_loader) into the two memories the sandbox    *)
(* has - the interpreter's Program, a map of byte chunks, and rvemu's bus,  *)
(* written byte by byte - and installing the Program in main memory for     *)
(* boot (MachineState::setup_boot).  An ELF file is the sequence of loader  *)
(* steps it asks for; a byte is 0 for a zero fill and a label otherwise.    *)
CONSTANTS
    RvLoadStart,     \* start of main memory
    RvLoadEnd,       \* first address past main memory
    RvOffsets,       \* p_paddr - start, p_vaddr and r_offset of the headers
    RvSizes,         \* file and memory sizes of a segment
    RvMaxHeaders,    \* bound on the PT_LOAD headers of a file
    RvMaxRelocs,     \* bound on its relocations
    RvPointer,       \* bytes a relocation writes (8 in the code)
    RvInitrds,       \* lengths of the initial RAM disk
    RvDtb            \* length of the flattened device tree

ASSUME RvLoadAssumption ==
    /\ RvLoadStart \in Nat /\ RvLoadEnd \in Nat /\ RvLoadStart < RvLoadEnd
    /\ RvOffsets \subseteq Nat /\ RvSizes \subseteq Nat
    /\ RvInitrds \subseteq Nat
    /\ {RvMaxHeaders, RvMaxRelocs, RvPointer, RvDtb} \subseteq Nat

VARIABLES
    rvSegs,      \* Program.segments: start address -> bytes
    rvBus,       \* rvemu's bus: address -> byte, for the addresses written
    rvHeaders,   \* the PT_LOAD headers loaded so far
    rvRelocs,    \* number of relocations applied
    rvLast,      \* LoadResult.last_written
    rvMem,       \* main memory after setup_boot, <<>> before
    rvDisk       \* length of the RAM disk given to setup_boot

loadVars == <<rvSegs, rvBus, rvHeaders, rvRelocs, rvLast, rvMem, rvDisk>>

NoBytes == [a \in {} |-> 0]

NoInitrd == -1

-----------------------------------------------------------------------------
\* Program::write_bytes.  The chunk before paddr is cut where the write
\* begins; the write is split at the starts of the chunks it runs over; its
\* last piece overwrites the front of the chunk there if that is as long.
ShrinkBefore(segs, paddr) ==
    LET before == {a \in DOMAIN segs : a < paddr}
        prev == Max(before)
    IN  IF before # {} /\ paddr < prev + Len(segs[prev])
        THEN [segs EXCEPT ![prev] = SubSeq(@, 1, paddr - prev)]
        ELSE segs

Pieces(segs, paddr, bytes) ==
    LET after == paddr + Len(bytes)
        starts == {paddr} \cup {a \in DOMAIN segs : paddr <= a /\ a < after}
        End(a) == Min({b \in starts : b > a} \cup {after})
    IN  [a \in starts |-> SubSeq(bytes, a - paddr + 1, End(a) - paddr)]

write_bytes(segs, paddr, bytes) ==
    IF bytes = <<>> THEN segs
    ELSE LET shrunk == ShrinkBefore(segs, paddr)
             pieces == Pieces(shrunk, paddr, bytes)
             last == Max(DOMAIN pieces)
             rest == IF last \in DOMAIN shrunk
                     THEN SubSeq(shrunk[last], Len(pieces[last]) + 1, Len(shrunk[last]))
                     ELSE <<>>
         IN  [pieces EXCEPT ![last] = @ \o rest] @@ shrunk

\* The same for rvemu's bus and for a Cursor: one byte after the other.
bus_write_bytes(bus, paddr, bytes) ==
    [a \in paddr .. paddr + Len(bytes) - 1 |-> bytes[a - paddr + 1]] @@ bus

\* Memory::set_zero of both.
Zeroes(len) == [i \in 1 .. len |-> 0]

-----------------------------------------------------------------------------
\* load_elf: load_elf_nonreloc takes p_paddr as it is, load_elf_reloc adds
\* start to p_vaddr; then R_RISCV_RELATIVE writes a pointer.  The label of a
\* byte tells which step wrote it.
LoadInit ==
    /\ rvSegs = NoBytes /\ rvBus = NoBytes
    /\ rvHeaders = <<>> /\ rvRelocs = 0
    /\ rvLast = RvLoadStart
    /\ rvMem = NoBytes
    /\ rvDisk \in RvInitrds \cup {NoInitrd}

Label(h) == [i \in 1 .. h.filesz |-> Len(rvHeaders) + 1]

\* The headers of an ELF file come in ascending order and do not overlap.
Ascending(addr) == \A i \in DOMAIN rvHeaders : addr >= rvHeaders[i].addr + rvHeaders[i].memsz

LoadSegment(h) ==
    /\ rvMem = NoBytes /\ rvRelocs = 0 /\ Len(rvHeaders) < RvMaxHeaders
    /\ LET at == RvLoadStart + h.addr
           zero == IF h.memsz > h.filesz THEN Zeroes(h.memsz - h.filesz) ELSE <<>>
       IN  /\ rvSegs' = write_bytes(write_bytes(rvSegs, at, Label(h)), at + h.filesz, zero)
           /\ rvBus' = bus_write_bytes(bus_write_bytes(rvBus, at, Label(h)), at + h.filesz, zero)
           /\ rvLast' = at + h.memsz
    /\ rvHeaders' = Append(rvHeaders, h)
    /\ UNCHANGED <<rvRelocs, rvMem, rvDisk>>

Relocate(offset) ==
    /\ rvMem = NoBytes /\ rvHeaders # <<>> /\ rvRelocs < RvMaxRelocs
    /\ LET pointer == [i \in 1 .. RvPointer |-> RvMaxHeaders + rvRelocs + 1]
       IN  /\ rvSegs' = write_bytes(rvSegs, RvLoadStart + offset, pointer)
           /\ rvBus' = bus_write_bytes(rvBus, RvLoadStart + offset, pointer)
    /\ rvRelocs' = rvRelocs + 1
    /\ UNCHANGED <<rvHeaders, rvLast, rvMem, rvDisk>>

\* mem_size: the span of the PT_LOAD headers.
mem_size(headers) ==
    IF headers = <<>> THEN 0
    ELSE LET range == {headers[i] : i \in DOMAIN headers}
         IN  Max({h.addr + h.memsz : h \in range}) - Min({h.addr : h \in range})

-----------------------------------------------------------------------------
\* setup_boot: the chunks go to main memory, then the RAM disk right after
\* the last of them, then the device tree right after the RAM disk.
initrd_addr == Max({a + Len(rvSegs[a]) : a \in DOMAIN rvSegs} \cup
                   (IF rvSegs = NoBytes THEN {RvLoadStart} ELSE {}))

dtb_addr == initrd_addr + (IF rvDisk = NoInitrd THEN 0 ELSE rvDisk)
InitrdByte == 100
DtbByte == 200

\* The writes of setup_boot in order.
BootWrites ==
    LET chunks == {<<a, rvSegs[a]>> : a \in DOMAIN rvSegs}
    IN  chunks \cup {<<initrd_addr, [i \in 1 .. rvDisk |-> InitrdByte]>>}
               \cup {<<dtb_addr, [i \in 1 .. RvDtb |-> DtbByte]>>}

\* Bus::write_all takes only a range that main memory contains.
Fits(write) == write[1] >= RvLoadStart /\ write[1] + Len(write[2]) <= RvLoadEnd

\* A byte written twice keeps what the later write put there: RAM disk over
\* chunks, device tree over both.
BootProgram ==
    /\ rvMem = NoBytes /\ rvHeaders # <<>>
    /\ \A w \in BootWrites : Fits(w)
    /\ LET at == {<<a, i>> \in (DOMAIN rvSegs) \X (1 .. RvLoadEnd) : i <= Len(rvSegs[a])}
           program == [x \in {p[1] + p[2] - 1 : p \in at} |->
                         LET p == CHOOSE p \in at : p[1] + p[2] - 1 = x IN rvSegs[p[1]][p[2]]]
           withDisk == bus_write_bytes(program, initrd_addr, [i \in 1 .. rvDisk |-> InitrdByte])
       IN  rvMem' = bus_write_bytes(withDisk, dtb_addr, [i \in 1 .. RvDtb |-> DtbByte])
    /\ UNCHANGED <<rvSegs, rvBus, rvHeaders, rvRelocs, rvLast, rvDisk>>

LoadNext ==
    \/ \E addr \in RvOffsets, f \in RvSizes, m \in RvSizes :
          m >= f /\ Ascending(addr) /\ LoadSegment([addr |-> addr, filesz |-> f, memsz |-> m])
    \/ \E offset \in RvOffsets : Relocate(offset)
    \/ BootProgram

-----------------------------------------------------------------------------
ChunkRange(a) == a .. a + Len(rvSegs[a]) - 1

\* The invariant Program.segments documents, "all the arrays are
\* non-overlapping", and its use: a chunk holds at every address it covers
\* the byte that was last written there, and until relocations only addresses within
\* the span mem_size computes are covered.
RvSegmentsSound ==
    /\ \A a, b \in DOMAIN rvSegs : a # b => ChunkRange(a) \cap ChunkRange(b) = {}
    /\ \A a \in DOMAIN rvSegs : \A i \in 1 .. Len(rvSegs[a]) :
          rvBus[a + i - 1] = rvSegs[a][i]
    /\ rvRelocs = 0 /\ rvHeaders # <<>> =>
          Cardinality(DOMAIN rvBus) <= mem_size(rvHeaders)

\* After setup_boot the RAM disk and the device tree are in memory complete,
\* and neither has overwritten a byte of a chunk.  A file without relocations
\* is in memory as its headers ask, byte for byte; a relocation within a chunk
\* drops the bytes of the chunk that follow it (write_bytes shrinks the chunk),
\* and of those nothing is said.
RvBootImage ==
    rvMem # NoBytes =>
       /\ \A a \in DOMAIN rvSegs : \A i \in 1 .. Len(rvSegs[a]) : rvMem[a + i - 1] = rvSegs[a][i]
       /\ rvRelocs = 0 => \A x \in DOMAIN rvBus : rvMem[x] = rvBus[x]
       /\ Cardinality({x \in DOMAIN rvMem : rvMem[x] = DtbByte}) = RvDtb
       /\ Cardinality({x \in DOMAIN rvMem : rvMem[x] = InitrdByte}) = Max({rvDisk, 0})
       /\ rvMem[dtb_addr] = DtbByte

---------------------------------------------------------------------------
(* The state backend of the RISC-V interpreter: a layout (a tuple of atoms, *)
(* arrays and nested layouts) is placed in one byte buffer by the           *)
(* Choreographer, and the regions of the machine state are typed views of   *)
(* that buffer.  A nested layout is placed left to right, so it is the      *)
(* sequence of its leaves; a leaf [size, len] is an array of len elements   *)
(* of size bytes (an atom is an array of one).                              *)
CONSTANTS
    StLeaves,        \* leaves a layout is built from
    StMaxLeaves,     \* bound on the leaves of a layout
    StMaxWrites,     \* bound on the operations applied to a buffer
    StByte           \* number of values of a byte (256 in the code)

ASSUME StAssumption ==
    /\ \A leaf \in StLeaves : leaf.size \in Nat \ {0} /\ leaf.len \in Nat \ {0}
    /\ StMaxLeaves \in Nat /\ StMaxWrites \in Nat /\ StByte \in Nat \ {0, 1}

VARIABLES
    stLayout,    \* the layout of the buffer
    stBytes,     \* InMemoryBackend.backing_storage
    stValues,    \* history: the values last given to each region
    stWrites     \* number of operations so far

stVars == <<stLayout, stBytes, stValues, stWrites>>

Leaf(size, len) == [size |-> size, len |-> len]

-----------------------------------------------------------------------------
align_address(address, align) ==
    IF address % align > 0 THEN address + align - (address % align) ELSE address

\* Choreographer::alloc: an element is aligned to its size (the primitive
\* types of a 64-bit host), an array like its element.
alloc(ch, leaf) ==
    LET offset == align_address(ch.first, leaf.size)
    IN  [first |-> offset + leaf.size * leaf.len,
         align |-> Max({ch.align, leaf.size}),
         offsets |-> Append(ch.offsets, offset)]

\* Choreographer::place of a whole layout.
place(layout) ==
    LET After[k \in 0 .. Len(layout)] ==
            IF k = 0 THEN [first |-> 0, align |-> 1, offsets |-> <<>>]
            ELSE alloc(After[k - 1], layout[k])
    IN  After[Len(layout)]

-----------------------------------------------------------------------------
\* An element in its stored form: its bytes from the least significant one.
to_stored(value, size) == [i \in 1 .. size |-> (value \div StByte^(i - 1)) % StByte]

from_stored(bytes) ==
    LET Value[i \in 0 .. Len(bytes)] ==
            IF i = 0 THEN 0 ELSE Value[i - 1] + bytes[i] * StByte^(i - 1)
    IN  Value[Len(bytes)]

Offset(k) == place(stLayout).offsets[k]

Address(k, index) == Offset(k) + index * stLayout[k].size

\* Region::read and read_all of region k.
region_read(bytes, k, index) ==
    from_stored(SubSeq(bytes, Address(k, index) + 1, Address(k, index) + stLayout[k].size))

region_read_all(bytes, k) ==
    [i \in 1 .. stLayout[k].len |-> region_read(bytes, k, i - 1)]

\* Region::write_some: values from index on (write and replace are the case of
\* one value, write_all that of all of them).
region_write_some(bytes, k, index, values) ==
    LET size == stLayout[k].size
        first == Address(k, index) + 1
    IN  [a \in DOMAIN bytes |->
           IF a \in first .. first + size * Len(values) - 1
           THEN to_stored(values[(a - first) \div size + 1], size)[((a - first) % size) + 1]
           ELSE bytes[a]]

\* Backend::write: raw bytes at an offset of the buffer.
backend_write(bytes, index, data) ==
    [a \in DOMAIN bytes |-> IF a \in index + 1 .. index + Len(data) THEN data[a - index] ELSE bytes[a]]

-----------------------------------------------------------------------------
StInit ==
    /\ \E n \in 1 .. StMaxLeaves : stLayout \in [1 .. n -> StLeaves]
    /\ stBytes = [a \in 1 .. place(stLayout).first |-> 0]
    /\ stValues = [k \in DOMAIN stLayout |-> [i \in 1 .. stLayout[k].len |-> 0]]
    /\ stWrites = 0

Values(k) == {1, StByte^stLayout[k].size - 1}

\* A panic on an index out of range leaves the state as it was.
StWrite(k, index, values) ==
    /\ stWrites < StMaxWrites
    /\ index + Len(values) <= stLayout[k].len
    /\ stBytes' = region_write_some(stBytes, k, index, values)
    /\ stValues' = [stValues EXCEPT ![k] =
          [i \in DOMAIN @ |-> IF i \in index + 1 .. index + Len(values) THEN values[i - index] ELSE @[i]]]
    /\ stWrites' = stWrites + 1
    /\ UNCHANGED stLayout

\* A DynRegion written at a byte address with an element of another width.
StWriteDyn(k, address, size, value) ==
    /\ stWrites < StMaxWrites
    /\ stLayout[k].size = 1 /\ address + size <= stLayout[k].len
    /\ stBytes' = backend_write(stBytes, Offset(k) + address, to_stored(value, size))
    /\ stValues' = [stValues EXCEPT ![k] =
          [i \in DOMAIN @ |-> IF i \in address + 1 .. address + size
                              THEN to_stored(value, size)[i - address] ELSE @[i]]]
    /\ stWrites' = stWrites + 1
    /\ UNCHANGED stLayout

StNext ==
    \E k \in DOMAIN stLayout : \E v \in Values(k) :
       \/ \E index \in 0 .. stLayout[k].len - 1 : StWrite(k, index, <<v>>)
       \/ \E index \in 0 .. stLayout[k].len - 1 : StWrite(k, index, <<v, 1>>)
       \/ StWrite(k, 0, [i \in 1 .. stLayout[k].len |-> v])
       \/ \E address \in 0 .. stLayout[k].len : StWriteDyn(k, address, 2, v + 1)

-----------------------------------------------------------------------------
\* Every region of the layout lies inside the buffer, is aligned for its
\* element type (the cast of allocate_region to a reference needs it) and
\* shares no byte with another region.
StPlacement ==
    LET p == place(stLayout)
        Bytes(k) == p.offsets[k] .. p.offsets[k] + stLayout[k].size * stLayout[k].len - 1
    IN  \A k \in DOMAIN stLayout :
           /\ p.offsets[k] % stLayout[k].size = 0 /\ stLayout[k].size <= p.align
           /\ Bytes(k) \subseteq 0 .. p.first - 1
           /\ \A j \in DOMAIN stLayout : j # k => Bytes(j) \cap Bytes(k) = {}

\* The regions behave as independent arrays: whatever was written, each one
\* reads back what was last written to it.
StRegionsIndependent ==
    \A k \in DOMAIN stLayout : region_read_all(stBytes, k) = stValues[k]

\* A program and the state it runs in are laid out soundly: segments and the
\* boot image in memory, and the regions of the machine state in theirs.
RvLayoutSound == RvSegmentsSound /\ RvBootImage /\ StPlacement /\ StRegionsIndependent
============================================================================
