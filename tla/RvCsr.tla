------------------------------- MODULE RvCsr -------------------------------
(***************************************************************************)
(* The control and status registers of the RISC-V interpreter: which       *)
(* addresses exist, who may touch them, what a write is turned into before *)
(* it is stored, and how the supervisor's registers shadow the machine's.  *)
(*                                                                         *)
(* A 64-bit value is the set of its bits that are one, so that masking is  *)
(* intersection and a field is an interval of bit positions.  The stored   *)
(* registers are one function csr from the registers in Stored to values;  *)
(* a register without a rule of its own behaves like mscratch.             *)
(***************************************************************************)
EXTENDS Integers, Sequences

Bits64 == 0 .. 63

\* ones(n) << at
Ones(n, at) == at .. (at + n - 1)

(***************************************************************************)
(* Registers, by address.                                                  *)
(***************************************************************************)
fflags == 1
cycle == \hC00
sstatus == \h100
sie == \h104
stvec == \h105
scounteren == \h106
senvcfg == \h10A
sepc == \h141
scause == \h142
stval == \h143
sip == \h144
satp == \h180
mstatus == \h300
misa == \h301
medeleg == \h302
mideleg == \h303
mie == \h304
mtvec == \h305
mcounteren == \h306
menvcfg == \h30A
mscratch == \h340
mepc == \h341
mcause == \h342
mtval == \h343
mip == \h344
mnepc == \h741
mncause == \h742
mnstatus == \h744
mseccfg == \h747

\* The registers below machine level: floating point, counters, supervisor,
\* hypervisor and virtual supervisor.
LowerRegisters ==
    1 .. 3 \cup \hC00 .. \hC1F
    \cup {\h100} \cup \h104 .. \h106 \cup {\h10A} \cup \h140 .. \h144
    \cup {\h180, \h5A8}
    \cup {\h600} \cup \h602 .. \h607 \cup {\h60A} \cup \h643 .. \h645
    \cup {\h64A, \h680, \h6A8, \hE12}
    \cup {\h200, \h204, \h205} \cup \h240 .. \h244 \cup {\h280}

\* The machine's identity, trap, protection, interrupt, counter and debug
\* registers.
MachineRegisters ==
    \hF11 .. \hF15 \cup \h300 .. \h306 \cup {\h30A}
    \cup \h340 .. \h344 \cup {\h34A, \h34B}
    \cup {\h3A0 + 2 * i : i \in 0 .. 7} \cup \h3B0 .. \h3EF
    \cup {\h740, \h741, \h742, \h744, \h747}
    \cup {\hB00} \cup \hB02 .. \hB1F \cup {\h320} \cup \h323 .. \h33F
    \cup \h7A0 .. \h7A3 \cup {\h7A5, \h7A8} \cup \h7B0 .. \h7B3

CSRegister == LowerRegisters \cup MachineRegisters

\* The address of an instruction's csr field, when it names a register.
try_parse_csregister(address) ==
    IF address \in CSRegister THEN {address} ELSE {}

(***************************************************************************)
(* Access rights.  A privilege is 0 for everyone, 1 for the supervisor, 2  *)
(* for a hypervisor and 3 for the machine.                                 *)
(***************************************************************************)
\* The ranges of 256 addresses that belong to each privilege.
privilege(reg) ==
    CASE reg \div 256 \in {0, 4, 8, 12} -> 0
      [] reg \div 256 \in {1, 5, 9, 13} -> 1
      [] reg \div 256 \in {2, 6, 10, 14} -> 2
      [] reg \div 256 \in {3, 7, 11, 15} -> 3

is_read_only(reg) == (reg \div 1024) % 4 = 3

\* Modes are the numbers the mode cell stores.
User == 0
Supervisor == 1
Machine == 3
Modes == {User, Supervisor, Machine}

mode_privilege(mode) == mode

check_privilege(reg, mode) == mode_privilege(mode) >= privilege(reg)

check_write(reg) == ~is_read_only(reg)

(***************************************************************************)
(* Fields of a register.  A field's contents are the bits of the field,    *)
(* shifted down; a two-bit value is again a set of bits.                   *)
(***************************************************************************)
FieldBits(field) == Ones(field[2], field[1])

GetField(value, field) ==
    {b - field[1] : b \in value \cap FieldBits(field)}

SetField(value, field, bits) ==
    (value \ FieldBits(field))
    \cup {b + field[1] : b \in bits \cap 0 .. (field[2] - 1)}

Flag(b) == IF b THEN {0} ELSE {}

SD == <<63, 1>>
MBE == <<37, 1>>
SBE == <<36, 1>>
SXL == <<34, 2>>
UXL == <<32, 2>>
TSR == <<22, 1>>
TW == <<21, 1>>
TVM == <<20, 1>>
MXR == <<19, 1>>
SUM == <<18, 1>>
MPRV == <<17, 1>>
XS == <<15, 2>>
FS == <<13, 2>>
MPP == <<11, 2>>
VS == <<9, 2>>
SPP == <<8, 1>>
MPIE == <<7, 1>>
UBE == <<6, 1>>
SPIE == <<5, 1>>
MIE == <<3, 1>>
SIE == <<1, 1>>
MNPV == <<7, 1>>
NMIE == <<3, 1>>
SATP_MODE == <<60, 4>>

Dirty == {0, 1}
Initial == {0}
MXL64 == {1}

\* The bits of a mode in MPP or SPP, and the mode they are read as: the
\* reserved value 2 of MPP is read as user mode.
ModeBits(mode) ==
    CASE mode = User -> {} [] mode = Supervisor -> {0}
      [] mode = Machine -> {0, 1}

MPPValue(bits) ==
    CASE bits = {0} -> Supervisor [] bits = {0, 1} -> Machine
      [] OTHER -> User

SPPValue(bits) == IF bits = {0} THEN Supervisor ELSE User

SSTATUS_FIELDS_MASK ==
    UNION {FieldBits(f) : f \in {SD, UXL, MXR, SUM, XS, FS, VS, SPP, UBE,
                                 SPIE, SIE}}

MSTATUS_FIELDS_MASK ==
    SSTATUS_FIELDS_MASK
    \cup UNION {FieldBits(f) : f \in {MBE, SBE, SXL, TSR, TW, TVM, MPRV,
                                      MPP, MPIE, MIE}}

sstatus_from_mstatus(value) == value \cap SSTATUS_FIELDS_MASK

apply_warl_sstatus(value) ==
    LET dirty == \E f \in {XS, FS, VS} : GetField(value, f) = Dirty
    IN  SetField(SetField(value, SD, Flag(dirty)), UXL, MXL64)

LegalMPP(value) == SetField(value, MPP, ModeBits(MPPValue(GetField(value, MPP))))

apply_warl_mstatus(value) ==
    LegalMPP(SetField(apply_warl_sstatus(value), SXL, MXL64))

apply_warl_mnstatus(value) ==
    LegalMPP(SetField(SetField(value, MNPV, {}), NMIE, {0}))

(***************************************************************************)
(* Interrupts, by code, and the masks built from the codes.                *)
(***************************************************************************)
SUPERVISOR_BIT_MASK == {1, 5, 9}
MACHINE_BIT_MASK == {3, 7, 11}

InterruptBit == 63

\* The number n as bits, for the small numbers of causes and addresses: an
\* address has 16 bits instead of 64.
AddressSpan == 2^16
ToBits(n) == {b \in 0 .. 15 : (n \div 2^b) % 2 = 1}
ToNat(bits) ==
    LET w(b) == IF b \in bits THEN 2^b ELSE 0
    IN  w(0) + w(1) + w(2) + w(3) + w(4) + w(5) + w(6) + w(7)
        + w(8) + w(9) + w(10) + w(11) + w(12) + w(13) + w(14) + w(15)

MCauses == {ToBits(c) \cup {InterruptBit} : c \in {1, 3, 5, 7, 9, 11}}
           \cup {ToBits(c) : c \in (0 .. 9) \cup {11, 12, 13, 15}}

SCauses == {ToBits(c) \cup {InterruptBit} : c \in {1, 5, 9}}
           \cup {ToBits(c) : c \in (0 .. 9) \cup {12, 13, 15}}

legal_values(reg) ==
    CASE reg = mcause -> MCauses [] reg = scause -> SCauses [] OTHER -> {}

is_legal(reg, value) ==
    \/ legal_values(reg) = {}
    \/ value \in legal_values(reg)

(***************************************************************************)
(* What a write stores.                                                    *)
(***************************************************************************)
Reserved(reg) ==
    CASE reg = mstatus -> {0, 2, 4} \cup Ones(9, 23) \cup Ones(25, 38)
      [] reg = menvcfg -> Ones(3, 1) \cup Ones(54, 8)
      [] reg = mseccfg -> Ones(5, 3) \cup Ones(54, 10)
      [] reg = sstatus -> {0} \cup Ones(3, 2) \cup {7} \cup Ones(2, 11)
                          \cup {17} \cup Ones(12, 20) \cup Ones(29, 34)
      [] reg = senvcfg -> Ones(3, 1) \cup Ones(56, 8)
      [] reg = mncause -> {63}
      [] reg = mnstatus -> Ones(3, 0) \cup Ones(3, 4) \cup Ones(3, 8)
                           \cup Ones(51, 13)
      [] OTHER -> {}

clear_wpri_fields(reg, value) == value \ Reserved(reg)

WARL_MISA_VALUE == {63, 0, 2, 3, 5, 8, 12, 18, 20}

WARL_MASK_MEDELEG == (0 .. 15) \ {10, 11, 14}
WARL_MASK_MIDELEG == {1, 3, 5, 7, 9, 11}
WARL_MASK_MIP_MIE == MACHINE_BIT_MASK \cup SUPERVISOR_BIT_MASK
WARL_MASK_SIP_SIE == SUPERVISOR_BIT_MASK

\* satp: an unknown translation mode is no write at all, and the bare mode
\* clears the other fields.
SatpValues(value) ==
    LET m == GetField(value, SATP_MODE)
    IN  CASE m = {} -> {{}} [] m \in {{3}, {0, 3}, {1, 3}} -> {value}
          [] OTHER -> {}

\* The set of at most one value a write becomes.
transform_warl_fields(reg, value) ==
    CASE reg = misa -> {WARL_MISA_VALUE}
      [] reg = medeleg -> {value \cap WARL_MASK_MEDELEG}
      [] reg = mideleg -> {value \cap WARL_MASK_MIDELEG}
      [] reg \in {mtvec, stvec} -> {value \ {1}}
      [] reg \in {mip, mie} -> {value \cap WARL_MASK_MIP_MIE}
      [] reg \in {sip, sie} -> {value \cap WARL_MASK_SIP_SIE}
      [] reg \in {mepc, sepc, mnepc} -> {value \ {0}}
      [] reg = satp -> SatpValues(value)
      [] reg = mstatus -> {apply_warl_mstatus(value)}
      [] reg = sstatus -> {apply_warl_sstatus(value)}
      [] reg = mnstatus -> {apply_warl_mnstatus(value)}
      [] OTHER -> {value}

make_value_writable(reg, value) ==
    {v \in transform_warl_fields(reg, clear_wpri_fields(reg, value)) :
        is_legal(reg, v)}

(***************************************************************************)
(* Shadow registers.                                                       *)
(***************************************************************************)
ShadowOf(reg) ==
    CASE reg = sstatus -> mstatus [] reg = sip -> mip [] reg = sie -> mie
      [] OTHER -> reg

ShadowMask(reg) ==
    CASE reg = sstatus -> SSTATUS_FIELDS_MASK
      [] reg \in {sip, sie} -> WARL_MASK_SIP_SIE
      [] OTHER -> Bits64

\* Mutant: the write of a shadow, were the other fields taken from the value too.
transform_write_unmasked(csr, reg, value) == value

\* The value stored in ShadowOf(reg): the shadowed fields from the value
\* and the rest from what is stored.
transform_write(csr, reg, value) ==
    (value \cap ShadowMask(reg)) \cup (csr[ShadowOf(reg)] \ ShadowMask(reg))

csr_read(csr, reg) == csr[ShadowOf(reg)] \cap ShadowMask(reg)

\* The write of the value, if there is one.
StoreOne(csr, reg, values) ==
    IF values = {} THEN csr
    ELSE [csr EXCEPT ![ShadowOf(reg)] =
              transform_write(csr, reg, CHOOSE v \in values : TRUE)]

csr_write(csr, reg, value) == StoreOne(csr, reg, make_value_writable(reg, value))

\* csrrs and csrrc read the register, change the bits and write it back.
csr_set_bits(csr, reg, bits) == csr_write(csr, reg, csr_read(csr, reg) \cup bits)

csr_clear_bits(csr, reg, bits) == csr_write(csr, reg, csr_read(csr, reg) \ bits)

(***************************************************************************)
(* Reset.  Every register is zeroed, then each known one is written with   *)
(* its default value, in the order of the enumeration: the supervisor's    *)
(* shadows come before the machine's registers and leave no trace.         *)
(***************************************************************************)
Stored == {fflags, cycle, stvec, scounteren, sepc, scause, stval, satp,
           mstatus, misa, medeleg, mideleg, mie, mtvec, mcounteren, mscratch,
           mepc, mcause, mtval, mip, mncause, mnstatus}

\* The fields do not overlap, so that the order in which they are set from zero
\* does not matter.
DefaultMstatus ==
    UNION {SetField({}, f[1], f[2]) :
             f \in {<<SPP, ModeBits(Supervisor)>>, <<MPP, ModeBits(Supervisor)>>,
                    <<VS, Initial>>, <<FS, Initial>>, <<XS, Initial>>,
                    <<UXL, MXL64>>, <<SXL, MXL64>>, <<SUM, {0}>>}}

default_value(reg) ==
    CASE reg = mstatus -> DefaultMstatus
      [] reg = sstatus -> sstatus_from_mstatus(DefaultMstatus)
      [] reg = misa -> WARL_MISA_VALUE
      [] reg \in {medeleg, mideleg} -> Bits64
      [] reg \in {scounteren, mcounteren} -> 0 .. 31
      [] reg = mncause -> {31}
      [] reg = mnstatus -> apply_warl_mnstatus({})
      [] OTHER -> {}

ZeroCsr == [r \in Stored |-> {}]

csr_reset ==
    [r \in Stored |-> StoreOne(ZeroCsr, r, make_value_writable(r, default_value(r)))[r]]

(***************************************************************************)
(* What interrupts may be taken and where a trap goes.                     *)
(***************************************************************************)
possible_interrupts(csr, mode) ==
    LET enabled(flag, reg) == IF GetField(csr[mstatus], flag) = {0}
                              THEN csr_read(csr, reg) ELSE {}
    IN  CASE mode = User -> SUPERVISOR_BIT_MASK \cup MACHINE_BIT_MASK
          [] mode = Supervisor -> enabled(SIE, sie) \cup MACHINE_BIT_MASK
          [] mode = Machine -> enabled(MIE, mie)

\* Mutant: delegation without looking at the mode the trap comes from.
trap_mode_ignores_source(csr, kind, code, mode) ==
    LET deleg == IF kind = "interrupt" THEN mideleg ELSE medeleg
    IN  IF code \in csr[deleg] THEN Supervisor ELSE Machine

\* kind is "interrupt" or "exception".
get_trap_mode(csr, kind, code, mode) ==
    LET deleg == IF kind = "interrupt" THEN mideleg ELSE medeleg
    IN  IF mode <= Supervisor /\ code \in csr[deleg]
        THEN Supervisor ELSE Machine

\* An interrupt in vectored mode goes to its own entry of the table; every
\* other trap goes to the base address.
trap_handler_address(kind, code, xtvec) ==
    LET base == ToNat(xtvec \ {0, 1})
        vectored == kind = "interrupt" /\ xtvec \cap {0, 1} = {0}
    IN  (base + (IF vectored THEN 4 * code ELSE 0)) % AddressSpan
=============================================================================
