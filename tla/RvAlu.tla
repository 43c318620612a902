------------------------------- MODULE RvAlu -------------------------------
(***************************************************************************)
(* The arithmetic, load and store instructions of the RISC-V interpreter   *)
(* and the bus they go through, with the widths scaled down: a byte has    *)
(* RvByteBits bits instead of 8, so that a register, 8 bytes, and a word,  *)
(* 4 bytes, stay in the proportions the casts of the code depend on.  A    *)
(* register value is a natural number below 2^XLEN.                        *)
(*                                                                         *)
(* Each result is computed as the code computes it, with its casts, and    *)
(* compared with what the bits of the result must be.                      *)
(***************************************************************************)
EXTENDS RvCsr, FiniteSetsExt

CONSTANTS
    RvByteBits,      \* bits of a byte, 8 in the code
    RvOperands,      \* second operands that are tried
    RvDevices,       \* length of the devices' address space
    RvMemory         \* length of main memory, in bytes

ASSUME RvWidthAssumption ==
    RvByteBits \in {1, 2} /\ RvDevices + RvMemory + 8 <= 2^(8 * RvByteBits)

VARIABLES
    rvAlu            \* the operation and its first operand

XLEN == 8 * RvByteBits
WLEN == 4 * RvByteBits
XValues == 0 .. (2^XLEN - 1)
XMask(n) == n % 2^XLEN

\* The number of shift bits that are looked at is log2 of the width.
ShiftX(b) == b % XLEN
ShiftW(b) == b % WLEN

(***************************************************************************)
(* Casts.                                                                  *)
(***************************************************************************)
Signed(v, width) ==
    LET low == v % 2^width
    IN  IF low >= 2^(width - 1) THEN low - 2^width ELSE low

\* "as i32 as u64" and the like.
SignExtend(v, width) == XMask(Signed(v, width))
ZeroExtend(v, width) == v % 2^width

BitOf(v, i) == (v \div 2^i) % 2
FromBits(f(_)) == SumSet({IF f(i) = 1 THEN 2^i ELSE 0 : i \in 0 .. (XLEN - 1)})
Bool(b) == IF b THEN 1 ELSE 0

(***************************************************************************)
(* rv32i.  An immediate is already sign-extended, so the register and the  *)
(* immediate form of an instruction compute the same.                      *)
(***************************************************************************)
rv32i(op, a, b) ==
    CASE op = "add" -> XMask(a + b)
      [] op = "sub" -> XMask(a - b)
      [] op = "lui" -> b
      [] op = "and" -> FromBits(LAMBDA i : BitOf(a, i) * BitOf(b, i))
      [] op = "or" -> FromBits(LAMBDA i : Bool(BitOf(a, i) + BitOf(b, i) > 0))
      [] op = "xor" -> FromBits(LAMBDA i : (BitOf(a, i) + BitOf(b, i)) % 2)
      [] op = "slt" -> Bool(Signed(a, XLEN) < Signed(b, XLEN))
      [] op = "sltu" -> Bool(a < b)

\* Whether a branch is taken.
BranchTaken(op, a, b) ==
    CASE op = "beq" -> a = b
      [] op = "bne" -> a # b
      [] op = "blt" -> Signed(a, XLEN) < Signed(b, XLEN)
      [] op = "bge" -> Signed(a, XLEN) >= Signed(b, XLEN)
      [] op = "bltu" -> a < b
      [] op = "bgeu" -> a >= b

\* jalr clears the lowest bit of its target.
run_jalr(a, b) == XMask(a + b) - (XMask(a + b) % 2)

(***************************************************************************)
(* rv64i.                                                                  *)
(***************************************************************************)
AddSubW(op, a, b) ==
    CASE op = "addw" -> SignExtend(XMask(a + b), WLEN)
      [] op = "subw" -> SignExtend(XMask(a - b), WLEN)

\* Shifts by an immediate, which slli, srli and slliw take whole.
ShiftImm(op, a, imm) ==
    CASE op = "slli" -> XMask(a * 2^imm)
      [] op = "srli" -> a \div 2^imm
      [] op = "srai" -> XMask(Signed(a, XLEN) \div 2^ShiftX(imm))
      [] op = "slliw" -> SignExtend(XMask(a * 2^imm), WLEN)
      [] op = "sraiw" -> XMask(Signed(a, WLEN) \div 2^ShiftW(imm))

\* A word shifted right by the whole immediate: an amount of the word's width
\* or more panics in a debug build and is cut to its low bits in a release one.
run_srliw(a, imm) ==
    LET result == [panic |-> FALSE,
                   value |-> SignExtend(ZeroExtend(a, WLEN) \div 2^ShiftW(imm), WLEN)]
    IN  {result} \cup (IF imm < WLEN THEN {} ELSE {[result EXCEPT !.panic = TRUE]})

ShiftReg(op, a, b) ==
    CASE op = "sll" -> XMask(a * 2^ShiftX(b))
      [] op = "srl" -> a \div 2^ShiftX(b)
      [] op = "sra" -> XMask(Signed(a, XLEN) \div 2^ShiftX(b))
      [] op = "sllw" -> SignExtend(XMask(a * 2^ShiftW(b)), WLEN)
      [] op = "srlw" -> SignExtend(ZeroExtend(a, WLEN) \div 2^ShiftW(b), WLEN)
      [] op = "sraw" -> XMask(Signed(a, WLEN) \div 2^ShiftW(b))

(***************************************************************************)
(* Remainders.  The remainder operator truncates towards zero, and the one *)
(* division that overflows is answered without dividing.                   *)
(***************************************************************************)
AbsValue(n) == IF n < 0 THEN -n ELSE n
TruncRem(x, y) == LET r == AbsValue(x) % AbsValue(y) IN IF x < 0 THEN -r ELSE r

SignedRem(x, y, width) ==
    CASE y = 0 -> x
      [] y = -1 /\ x = -(2^(width - 1)) -> 0
      [] OTHER -> TruncRem(x, y)

UnsignedRem(x, y) == IF y = 0 THEN x ELSE x % y

run_rem(a, b) == XMask(SignedRem(Signed(a, XLEN), Signed(b, XLEN), XLEN))
run_remu(a, b) == UnsignedRem(a, b)
run_remw(a, b) == XMask(SignedRem(Signed(a, WLEN), Signed(b, WLEN), WLEN))
run_remuw(a, b) ==
    SignExtend(UnsignedRem(ZeroExtend(a, WLEN), ZeroExtend(b, WLEN)), WLEN)

(***************************************************************************)
(* The bus.  The devices answer no access; an access belongs to the space  *)
(* its first byte is in and must end inside main memory.                   *)
(***************************************************************************)
locate(address) ==
    CASE address < RvDevices -> "devices"
      [] address >= RvDevices /\ address - RvDevices < RvMemory -> "memory"
      [] OTHER -> "out_of_bounds"

\* Is an access of n bytes answered?
Readable(address, n) ==
    /\ locate(address) = "memory"
    /\ address - RvDevices + n <= RvMemory

bus_read(mem, address, n) ==
    SumSet({mem[address - RvDevices + i] * 2^(RvByteBits * i) :
               i \in 0 .. (n - 1)})

\* The n low bytes of a value, lowest first.
bus_write(mem, address, n, value) ==
    [j \in DOMAIN mem |->
        LET i == j + RvDevices - address
        IN  IF i \in 0 .. (n - 1)
            THEN (value \div 2^(RvByteBits * i)) % 2^RvByteBits
            ELSE mem[j]]

\* write_all refuses a range that starts and ends in different spaces.
bus_write_all(mem, address, values) ==
    LET n == Cardinality(DOMAIN values)
        end == address + (IF n = 0 THEN 0 ELSE n - 1)
    IN  IF locate(address) = locate(end) /\ Readable(address, n)
        THEN [ok |-> TRUE,
              mem |-> [j \in DOMAIN mem |->
                          IF j + RvDevices - address \in 0 .. (n - 1)
                          THEN values[j + RvDevices - address] ELSE mem[j]]]
        ELSE [ok |-> FALSE, mem |-> mem]

LoadWidth(op) ==
    CASE op \in {"lb", "lbu", "sb"} -> 1 [] op \in {"lh", "lhu", "sh"} -> 2
      [] op \in {"lw", "lwu", "sw"} -> 4 [] op \in {"ld", "sd"} -> 8

run_load(op, mem, address) ==
    LET n == LoadWidth(op)
        v == bus_read(mem, address, n)
    IN  IF ~Readable(address, n) THEN [ok |-> FALSE]
        ELSE [ok |-> TRUE,
              value |-> IF op \in {"lb", "lh", "lw", "ld"}
                        THEN SignExtend(v, n * RvByteBits) ELSE v]

run_store(op, mem, address, value) ==
    LET n == LoadWidth(op)
    IN  IF ~Readable(address, n) THEN [ok |-> FALSE, mem |-> mem]
        ELSE [ok |-> TRUE,
              mem |-> bus_write(mem, address, n, ZeroExtend(value, n * RvByteBits))]

(***************************************************************************)
(* The inputs, one state each.                                             *)
(***************************************************************************)
AluOps == {"add", "sub", "slt", "addw", "subw", "slli", "srli", "srai", "slliw",
           "srliw", "sraiw", "sll", "srl", "sra", "sllw", "srlw", "sraw",
           "rem", "remu", "remw", "remuw", "xor", "branch", "memory"}

AluInit == \E op \in AluOps, a \in XValues : rvAlu = [op |-> op, a |-> a]

Lesser(x, y) == IF x < y THEN x ELSE y

\* Bit i of a shift by s: what moves in, and where a word's sign is copied.
BitsAre(v, f(_)) == \A i \in 0 .. (XLEN - 1) : BitOf(v, i) = f(i)
Moved(a, i, low, high) == IF i \in low .. high THEN BitOf(a, i) ELSE 0

RemainderOf(r, x, y) ==
    IF y = 0 THEN r = x
    ELSE /\ AbsValue(r) < AbsValue(y)
         /\ \E q \in -(2^XLEN) .. 2^XLEN : x = q * y + r
         /\ r # 0 => ((r < 0) <=> (x < 0))

RvAluCorrect(op, a, b) ==
    LET top == XLEN - 1
        word == WLEN - 1
    IN
    CASE op \in {"add", "sub"} ->
            BitOf(rv32i(op, a, b), 0) = (BitOf(a, 0) + BitOf(b, 0)) % 2
            /\ rv32i(IF op = "add" THEN "sub" ELSE "add", rv32i(op, a, b), b) = a
      [] op = "slt" -> rv32i("slt", a, b) =
            rv32i("sltu", XMask(a + 2^top), XMask(b + 2^top))
      [] op \in {"addw", "subw"} ->
            LET low == (IF op = "addw" THEN a + b ELSE a - b) % 2^WLEN
            IN  BitsAre(AddSubW(op, a, b), LAMBDA i : BitOf(low, Lesser(i, word)))
      [] op = "slli" -> LET s == ShiftX(b) IN BitsAre(ShiftImm(op, a, s),
            LAMBDA i : IF i < s THEN 0 ELSE BitOf(a, i - s))
      [] op = "srli" -> LET s == ShiftX(b) IN BitsAre(ShiftImm(op, a, s),
            LAMBDA i : Moved(a, i + s, 0, top))
      [] op = "srai" -> BitsAre(ShiftImm(op, a, b),
            LAMBDA i : BitOf(a, Lesser(i + ShiftX(b), top)))
      [] op = "slliw" -> LET s == ShiftW(b) IN BitsAre(ShiftImm(op, a, s),
            LAMBDA i : IF Lesser(i, word) < s THEN 0
                       ELSE BitOf(a, Lesser(i, word) - s))
      [] op = "srliw" -> \A out \in run_srliw(a, ShiftW(b)) :
            ~out.panic /\ BitsAre(out.value,
            LAMBDA i : Moved(a, Lesser(i, word) + ShiftW(b), 0, word))
      [] op = "sraiw" -> BitsAre(ShiftImm(op, a, b),
            LAMBDA i : BitOf(a, Lesser(i + ShiftW(b), word)))
      [] op \in {"sll", "srl"} ->
            ShiftReg(op, a, b) = ShiftImm(IF op = "sll" THEN "slli" ELSE "srli",
                                          a, ShiftX(b))
      [] op = "sra" -> BitsAre(ShiftReg(op, a, b),
            LAMBDA i : BitOf(a, Lesser(i + ShiftX(b), top)))
      [] op = "sllw" -> ShiftReg(op, a, b) = ShiftImm("slliw", a, ShiftW(b))
      [] op = "srlw" -> \A out \in run_srliw(a, ShiftW(b)) : ShiftReg(op, a, b) = out.value
      [] op = "sraw" -> BitsAre(ShiftReg(op, a, b),
            LAMBDA i : BitOf(a, Lesser(i + ShiftW(b), word)))
      [] op = "rem" ->
            RemainderOf(Signed(run_rem(a, b), XLEN), Signed(a, XLEN), Signed(b, XLEN))
      [] op = "remu" -> RemainderOf(run_remu(a, b), a, b)
      [] op = "remw" ->
            /\ RemainderOf(Signed(run_remw(a, b), WLEN), Signed(a, WLEN), Signed(b, WLEN))
            /\ run_remw(a, b) = SignExtend(run_remw(a, b), WLEN)
      [] op = "remuw" ->
            /\ RemainderOf(run_remuw(a, b) % 2^WLEN, a % 2^WLEN, b % 2^WLEN)
            /\ run_remuw(a, b) = SignExtend(run_remuw(a, b), WLEN)
      [] op = "xor" -> rv32i("xor", a, b) =
            rv32i("sub", rv32i("or", a, b), rv32i("and", a, b))
      [] op = "branch" ->
            /\ BranchTaken("beq", a, b) # BranchTaken("bne", a, b)
            /\ BranchTaken("blt", a, b) <=> rv32i("slt", a, b) = 1
            /\ BranchTaken("bge", a, b) # BranchTaken("blt", a, b)
            /\ BranchTaken("bgeu", a, b) # BranchTaken("bltu", a, b)
            /\ run_jalr(a, b) % 2 = 0 /\ XMask(a + b) - run_jalr(a, b) \in {0, 1}
      [] OTHER -> TRUE

\* Every arithmetic instruction of run_instr, computed with the code's casts,
\* has the bits its mnemonic promises: the word forms look only at the low
\* word and fill the rest with its sign, shifts by an amount the encoding
\* allows never lose or invent a bit, and the remainder has the sign
\* of the dividend, also where the division by zero or by -1 is special.
RvAluAgrees ==
    rvAlu.op \in AluOps \ {"memory"} => \A b \in RvOperands : RvAluCorrect(rvAlu.op, rvAlu.a, b)

MemPattern == [j \in 0 .. (RvMemory - 1) |-> (j * j) % 2^RvByteBits]

\* A store changes the bytes it names and no other, a load of the same width
\* reads the stored value back with the sign the load asks for, and both fault
\* exactly when a byte of the access lies outside main memory.
RvMemoryExact ==
    rvAlu.op = "memory" =>
        LET address == rvAlu.a
            inside(n) == \A k \in 0 .. (n - 1) :
                            (address + k) \in RvDevices .. (RvDevices + RvMemory - 1)
        IN  \A v \in RvOperands :
            /\ \A p \in {<<"sb", "lb">>, <<"sh", "lh">>, <<"sw", "lw">>, <<"sd", "ld">>,
                         <<"sb", "lbu">>, <<"sh", "lhu">>, <<"sw", "lwu">>} :
                LET n == LoadWidth(p[1])
                    s == run_store(p[1], MemPattern, address, v)
                    l == run_load(p[2], s.mem, address)
                IN  /\ s.ok <=> inside(n)
                    /\ l.ok <=> inside(n)
                    /\ s.ok => l.value % 2^(n * RvByteBits) = v % 2^(n * RvByteBits)
                    /\ s.ok => l.value = IF p[2] \in {"lbu", "lhu", "lwu"}
                                         THEN v % 2^(n * RvByteBits)
                                         ELSE SignExtend(v, n * RvByteBits)
                    /\ \A j \in DOMAIN MemPattern :
                        (j + RvDevices) \notin address .. (address + n - 1)
                            => s.mem[j] = MemPattern[j]
            /\ bus_write_all(MemPattern, address, [i \in 0 .. 4 |-> 0]).ok
                 <=> inside(5)

---------------------------------------------------------------------------
(***************************************************************************)
(* The instruction parser of the RISC-V interpreter.  A 32-bit word is the *)
(* set of its bits that are one; an immediate is a 64-bit value in the     *)
(* same form.  The nested match of the code is a table of its arms, each   *)
(* with the fields it looks at; a word that no arm matches is Unknown.     *)
(***************************************************************************)
CONSTANTS
    RvRegs,       \* register numbers that are tried
    RvImms        \* immediates that are tried, before they are cut to shape

VARIABLES
    rvWord        \* what is encoded, and a bit of the word that is flipped

\* bits(word, pos, n) as a number.
bits(word, pos, n) == ToNat({b - pos : b \in word \cap Ones(n, pos)})

opcode(word) == bits(word, 0, 7)
funct3(word) == bits(word, 12, 3)
funct7(word) == bits(word, 25, 7)
rd(word) == bits(word, 7, 5)
rs1(word) == bits(word, 15, 5)
rs2(word) == bits(word, 20, 5)
imm_11_6(word) == bits(word, 26, 6) * 2
fm(word) == bits(word, 28, 4)
csr_field(word) == bits(word, 20, 12)

\* Part of the word shifted into place, and bit 31 copied to the top.
Shifted(word, low, high, to) ==
    {b - low + to : b \in word \cap low .. high}
SignFrom(word, at) == IF 31 \in word THEN at .. 63 ELSE {}

i_imm(word) == Shifted(word, 20, 30, 0) \cup SignFrom(word, 11)
s_imm(word) ==
    Shifted(word, 7, 11, 0) \cup Shifted(word, 25, 30, 5) \cup SignFrom(word, 11)

\* Mutant: bit 7 left where the store format has it.
b_imm_like_s(word) == s_imm(word)

b_imm(word) ==
    Shifted(word, 8, 11, 1) \cup Shifted(word, 25, 30, 5)
    \cup Shifted(word, 7, 7, 11) \cup SignFrom(word, 12)
u_imm(word) == Shifted(word, 12, 30, 12) \cup SignFrom(word, 31)
j_imm(word) ==
    Shifted(word, 21, 30, 1) \cup Shifted(word, 20, 20, 11)
    \cup Shifted(word, 12, 19, 12) \cup SignFrom(word, 20)

(***************************************************************************)
(* The arms.                                                               *)
(***************************************************************************)
OP_ARITH == 51
OP_ARITH_W == 59
OP_ARITH_I == 19
OP_LOAD == 3
OP_ARITH_IW == 27
OP_SYNCH == 15
OP_SYS == 115
OP_STORE == 35
OP_BRANCH == 99
OP_LUI == 55
OP_AUIPC == 23
OP_JAL == 111
OP_JALR == 103

Arm(name, format, op, f3, f7) ==
    [name |-> name, format |-> format, op |-> op, f3 |-> f3, f7 |-> f7]
AnyF7 == 0 .. 127
R(name, op, f3, f7) == Arm(name, "R", op, f3, {f7})
Shift(name, op, f3, f7) == Arm(name, "shift", op, f3, {f7})
Plain(name, format, op, f3) == Arm(name, format, op, f3, AnyF7)

RArms ==
    {R("Add", OP_ARITH, 0, 0), R("Sub", OP_ARITH, 0, 32), R("Xor", OP_ARITH, 4, 0),
     R("Or", OP_ARITH, 6, 0), R("Rem", OP_ARITH, 6, 1), R("And", OP_ARITH, 7, 0),
     R("Remu", OP_ARITH, 7, 1), R("Sll", OP_ARITH, 1, 0), R("Srl", OP_ARITH, 5, 0),
     R("Sra", OP_ARITH, 5, 32), R("Slt", OP_ARITH, 2, 0), R("Sltu", OP_ARITH, 3, 0),
     R("Addw", OP_ARITH_W, 0, 0), R("Subw", OP_ARITH_W, 0, 32),
     Arm("Sllw", "R", OP_ARITH_W, 1, AnyF7), R("Srlw", OP_ARITH_W, 5, 0),
     R("Sraw", OP_ARITH_W, 5, 32), R("Remw", OP_ARITH_W, 6, 1),
     R("Remuw", OP_ARITH_W, 7, 1)}

IArms ==
    {Plain("Addi", "I", OP_ARITH_I, 0), Plain("Xori", "I", OP_ARITH_I, 4),
     Plain("Ori", "I", OP_ARITH_I, 6), Plain("Andi", "I", OP_ARITH_I, 7),
     Plain("Slti", "I", OP_ARITH_I, 2), Plain("Sltiu", "I", OP_ARITH_I, 3),
     Shift("Slli", OP_ARITH_I, 1, 0), Shift("Srli", OP_ARITH_I, 5, 0),
     Shift("Srai", OP_ARITH_I, 5, 32),
     Plain("Lb", "I", OP_LOAD, 0), Plain("Lh", "I", OP_LOAD, 1),
     Plain("Lw", "I", OP_LOAD, 2), Plain("Ld", "I", OP_LOAD, 3),
     Plain("Lbu", "I", OP_LOAD, 4), Plain("Lhu", "I", OP_LOAD, 5),
     Plain("Lwu", "I", OP_LOAD, 6),
     Plain("Addiw", "I", OP_ARITH_IW, 0), Shift("Slliw", OP_ARITH_IW, 1, 0),
     Shift("Srliw", OP_ARITH_IW, 5, 0), Shift("Sraiw", OP_ARITH_IW, 5, 32)}

\* The fences and the system instructions; the latter name themselves by
\* their second register field and funct7.
SystemArms ==
    {Plain("Fence", "fence", OP_SYNCH, 0), Plain("FenceTso", "fence", OP_SYNCH, 0),
     Plain("FenceI", "none", OP_SYNCH, 1),
     Arm("Ecall", "sys", OP_SYS, 0, {0}), Arm("Ebreak", "sys", OP_SYS, 0, {0}),
     Arm("Sret", "sys", OP_SYS, 0, {8}), Arm("Mret", "sys", OP_SYS, 0, {24}),
     Arm("Mnret", "sys", OP_SYS, 0, {56}), Arm("Wfi", "sys", OP_SYS, 0, {8}),
     Plain("Csrrw", "csr", OP_SYS, 1), Plain("Csrrs", "csr", OP_SYS, 2),
     Plain("Csrrc", "csr", OP_SYS, 3), Plain("Csrrwi", "csri", OP_SYS, 5),
     Plain("Csrrsi", "csri", OP_SYS, 6), Plain("Csrrci", "csri", OP_SYS, 7)}

SysRs2(name) ==
    CASE name = "Ecall" -> 0 [] name = "Ebreak" -> 1
      [] name \in {"Sret", "Mret", "Mnret"} -> 2 [] name = "Wfi" -> 5
FenceMode(name) == IF name = "Fence" THEN 0 ELSE 8

StoreBranchArms ==
    {Plain("Sb", "S", OP_STORE, 0), Plain("Sh", "S", OP_STORE, 1),
     Plain("Sw", "S", OP_STORE, 2), Plain("Sd", "S", OP_STORE, 3),
     Plain("Beq", "B", OP_BRANCH, 0), Plain("Bne", "B", OP_BRANCH, 1),
     Plain("Blt", "B", OP_BRANCH, 4), Plain("Bge", "B", OP_BRANCH, 5),
     Plain("Bltu", "B", OP_BRANCH, 6), Plain("Bgeu", "B", OP_BRANCH, 7)}

JumpArms ==
    {Plain("Lui", "U", OP_LUI, -1), Plain("Auipc", "U", OP_AUIPC, -1),
     Plain("Jal", "J", OP_JAL, -1), Plain("Jalr", "I", OP_JALR, 0)}

Arms == RArms \cup IArms \cup SystemArms \cup StoreBranchArms \cup JumpArms

Matches(arm, word) ==
    /\ arm.f3 # -1 => funct3(word) = arm.f3
    /\ CASE arm.format = "shift" -> imm_11_6(word) \in arm.f7
         [] arm.format = "sys" -> /\ funct7(word) \in arm.f7 /\ rs1(word) = 0
                                  /\ rs2(word) = SysRs2(arm.name)
         [] arm.format = "fence" -> fm(word) = FenceMode(arm.name)
         [] arm.format \in {"csr", "csri"} ->
                try_parse_csregister(csr_field(word)) # {}
         [] OTHER -> funct7(word) \in arm.f7

\* The arguments an arm takes from the word.
Args(arm, word) ==
    CASE arm.format = "R" -> <<rd(word), rs1(word), rs2(word)>>
      [] arm.format \in {"I", "shift"} -> <<rd(word), rs1(word), i_imm(word)>>
      [] arm.format = "S" -> <<rs1(word), rs2(word), s_imm(word)>>
      [] arm.format = "B" -> <<rs1(word), rs2(word), b_imm(word)>>
      [] arm.format = "U" -> <<rd(word), u_imm(word)>>
      [] arm.format = "J" -> <<rd(word), j_imm(word)>>
      [] arm.format \in {"csr", "csri"} -> <<rd(word), rs1(word), csr_field(word)>>
      [] arm.format = "fence" -> <<bits(word, 24, 4), bits(word, 20, 4)>>
      [] arm.format \in {"sys", "none"} -> <<>>

parse_uncompressed_instruction(word) ==
    LET op == opcode(word)
    IN  {<<arm.name, Args(arm, word)>> :
            arm \in {a \in Arms : a.op = op /\ Matches(a, word)}}

instr_width(word) == IF {0, 1} \subseteq word THEN 4 ELSE 2

\* A halfword whose two low bits are not both one is a compressed
\* instruction, none of which is known.
parse(word) ==
    IF instr_width(word) = 4 THEN parse_uncompressed_instruction(word) ELSE {}

\* parse_block over halfwords, each 4 bytes long or compressed: the offsets,
\* in halfwords, at which instructions start.  A last word that is cut off
\* is dropped.
parse_block(long) ==
    LET N == Len(long)
        Starts[k \in 1 .. N + 2] ==
            \/ k = 1
            \/ k > 1 /\ Starts[k - 1] /\ ~long[k - 1]
            \/ k > 2 /\ Starts[k - 2] /\ long[k - 2]
    IN  {k \in 1 .. N : Starts[k] /\ (long[k] => k < N)}

(***************************************************************************)
(* The instruction formats of the ISA manual, as an encoder.  The amount   *)
(* of a word shift has five bits, that of the others six.                  *)
(***************************************************************************)
Amount(arm, imm) == imm \cap 0 .. (IF arm.op = OP_ARITH_IW THEN 4 ELSE 5)
Put(n, pos) == {b + pos : b \in ToBits(n)}
Piece(imm, low, high, to) == {b - low + to : b \in imm \cap low .. high}

Encode(arm, r1, r2, r3, f7, imm, csr) ==
    ToBits(arm.op)
    \cup (IF arm.f3 = -1 THEN {} ELSE Put(arm.f3, 12))
    \cup
    CASE arm.format = "R" -> Put(r1, 7) \cup Put(r2, 15) \cup Put(r3, 20) \cup Put(f7, 25)
      [] arm.format = "I" -> Put(r1, 7) \cup Put(r2, 15) \cup Piece(imm, 0, 11, 20)
      [] arm.format = "shift" -> Put(r1, 7) \cup Put(r2, 15)
                                 \cup Piece(Amount(arm, imm), 0, 5, 20) \cup Put(f7, 25)
      [] arm.format = "S" -> Put(r1, 15) \cup Put(r2, 20)
                             \cup Piece(imm, 0, 4, 7) \cup Piece(imm, 5, 11, 25)
      [] arm.format = "B" -> Put(r1, 15) \cup Put(r2, 20)
                             \cup Piece(imm, 1, 4, 8) \cup Piece(imm, 5, 10, 25)
                             \cup Piece(imm, 11, 11, 7) \cup Piece(imm, 12, 12, 31)
      [] arm.format = "U" -> Put(r1, 7) \cup Piece(imm, 12, 31, 12)
      [] arm.format = "J" -> Put(r1, 7) \cup Piece(imm, 1, 10, 21)
                             \cup Piece(imm, 11, 11, 20) \cup Piece(imm, 12, 19, 12)
                             \cup Piece(imm, 20, 20, 31)
      [] arm.format \in {"csr", "csri"} -> Put(r1, 7) \cup Put(r2, 15) \cup Put(csr, 20)
      [] arm.format = "fence" -> Put(r1 % 16, 24) \cup Put(r2 % 16, 20)
                                 \cup Put(FenceMode(arm.name), 28)
      [] arm.format = "sys" -> Put(SysRs2(arm.name), 20) \cup Put(f7, 25)
      [] arm.format = "none" -> {}

\* An immediate of n bits, sign-extended; of those below low none.
Cut(imm, low, n) ==
    (imm \cap low .. (n - 2)) \cup (IF (n - 1) \in imm THEN (n - 1) .. 63 ELSE {})

Expected(arm, r1, r2, r3, f7, imm, csr) ==
    CASE arm.format = "R" -> <<r1, r2, r3>>
      [] arm.format = "I" -> <<r1, r2, Cut(imm, 0, 12)>>
      [] arm.format = "shift" -> <<r1, r2, Amount(arm, imm) \cup {b + 5 : b \in ToBits(f7)}>>
      [] arm.format = "S" -> <<r1, r2, Cut(imm, 0, 12)>>
      [] arm.format = "B" -> <<r1, r2, Cut(imm, 1, 13)>>
      [] arm.format = "U" -> <<r1, Cut(imm, 12, 32)>>
      [] arm.format = "J" -> <<r1, Cut(imm, 1, 21)>>
      [] arm.format \in {"csr", "csri"} -> <<r1, r2, csr>>
      [] arm.format = "fence" -> <<r1 % 16, r2 % 16>>
      [] arm.format \in {"sys", "none"} -> <<>>

DecodeInit ==
    \E arm \in Arms, r1, r2 \in RvRegs, imm \in RvImms :
        rvWord = [arm |-> arm, r1 |-> r1, r2 |-> r2, imm |-> imm]

F7Of(arm) == Min(arm.f7)

\* A register's privilege and writability, against the bits of its address.
RangesFaithful ==
    \A reg \in CSRegister :
        /\ privilege(reg) = ToNat({b - 8 : b \in ToBits(reg) \cap 8 .. 9})
        /\ is_read_only(reg) <=> {10, 11} \subseteq ToBits(reg)

\* The instructions of a block neither overlap nor leave a gap.
BlocksTile ==
    \A long \in [1 .. 5 -> BOOLEAN] :
        LET starts == parse_block(long)
            covered == UNION {{k} \cup (IF long[k] THEN {k + 1} ELSE {}) : k \in starts}
        IN  /\ \A j, k \in starts : j < k /\ long[j] => k > j + 1
            /\ 1 .. 5 \ covered \subseteq {5}

\* The parser inverts the encoding of every instruction it knows: the word
\* that encodes an instruction is parsed by exactly one arm, with the
\* registers, the csr address and the sign-extended immediate that were
\* encoded, and a flipped bit of the opcode or of funct3 never gives the same
\* instruction with the same arguments.  The csr field's address tells
\* privilege and writability as the ISA numbers them, and a block of halfwords
\* is cut without overlap or gap.  Words that encode nothing are not spoken of.
RvDecodeInverse ==
    LET arm == rvWord.arm
        csr == IF rvWord.r1 = 0 THEN mepc ELSE sstatus
        word == Encode(arm, rvWord.r1, rvWord.r2, rvWord.r2, F7Of(arm), rvWord.imm, csr)
        args == Expected(arm, rvWord.r1, rvWord.r2, rvWord.r2, F7Of(arm), rvWord.imm, csr)
        flip(b) == (word \cup {b}) \ (word \cap {b})
    IN  arm \in Arms =>
        /\ parse(word) = {<<arm.name, args>>}
        /\ arm.format = "sys" => RangesFaithful /\ BlocksTile
        /\ \A b \in 0 .. 6 \cup 12 .. 14 : <<arm.name, args>> \notin parse(flip(b))

\* An instruction is decoded to the one that was encoded, computes what the
\* manual says, and reads and writes the bytes its address names.
RvInstructionsExact == RvAluAgrees /\ RvMemoryExact /\ RvDecodeInverse
=============================================================================
