---------------------------- MODULE RollupProofs ----------------------------
(***************************************************************************)
(* What holds of programs of a rollup: what the hart of RvHart keeps, for  *)
(* every guest and every memory; and what fees.rs charges, for every gas,  *)
(* price and data fee.                                                     *)
(***************************************************************************)
EXTENDS RvHart, EvmFees, TLAPS

(***************************************************************************)
(* Fields, bit by bit.                                                     *)
(***************************************************************************)
\* Where the fields are.
LEMMA Fields ==
  /\ SD[1] = 63 /\ SD[2] = 1 /\ SXL[1] = 34 /\ SXL[2] = 2 /\ UXL[1] = 32 /\ UXL[2] = 2
  /\ MPRV[1] = 17 /\ MPRV[2] = 1 /\ XS[1] = 15 /\ XS[2] = 2 /\ FS[1] = 13 /\ FS[2] = 2
  /\ MPP[1] = 11 /\ MPP[2] = 2 /\ VS[1] = 9 /\ VS[2] = 2 /\ SPP[1] = 8 /\ SPP[2] = 1
  /\ MPIE[1] = 7 /\ MPIE[2] = 1 /\ SPIE[1] = 5 /\ SPIE[2] = 1 /\ MIE[1] = 3 /\ MIE[2] = 1
  /\ SIE[1] = 1 /\ SIE[2] = 1 /\ TSR[1] = 22 /\ TSR[2] = 1
  /\ SATP_MODE[1] = 60 /\ SATP_MODE[2] = 4
  BY Zenon DEF SD, SXL, UXL, MPRV, XS, FS, MPP, VS, SPP, MPIE, SPIE, MIE, SIE, TSR, SATP_MODE

\* What a value holds after one of its fields was set.
LEMMA SetFieldBits ==
  ASSUME NEW v, NEW f, f[1] \in Nat, f[2] \in Nat, NEW bits, NEW b \in Int
  PROVE  b \in SetField(v, f, bits)
           <=> IF f[1] <= b /\ b < f[1] + f[2] THEN b - f[1] \in bits ELSE b \in v
<1>. DEFINE k == f[1]
            n == f[2]
            up == {c + k : c \in bits \cap 0 .. (n - 1)}
<1>1. SetField(v, f, bits) = (v \ (k .. (k + n - 1))) \cup up
  BY Zenon DEF SetField, FieldBits, Ones
<1>2. b \in up <=> k <= b /\ b < k + n /\ b - k \in bits
  <2>1. ASSUME b \in up PROVE k <= b /\ b < k + n /\ b - k \in bits
    <3>1. PICK c \in bits \cap 0 .. (n - 1) : b = c + k
      BY Zenon, <2>1
    <3>. QED
      BY <3>1
  <2>2. ASSUME k <= b, b < k + n, b - k \in bits PROVE b \in up
    <3>1. b - k \in bits \cap 0 .. (n - 1) /\ b = (b - k) + k
      BY <2>2
    <3>. QED
      BY Zenon, <3>1
  <2>. QED
    BY Zenon, <2>1, <2>2
<1>. HIDE DEF up
<1>3. b \in SetField(v, f, bits) <=> (b \in v /\ ~(k <= b /\ b < k + n)) \/ b \in up
  BY <1>1
<1>. QED
  BY Zenon, <1>2, <1>3

\* The contents of a field, bit by bit.
LEMMA GetFieldBits ==
  ASSUME NEW v, NEW f, f[1] \in Nat, f[2] \in Nat
  PROVE  /\ GetField(v, f) \in SUBSET Int
         /\ \A c \in Int : c \in GetField(v, f) <=> 0 <= c /\ c < f[2] /\ c + f[1] \in v
<1>. DEFINE k == f[1]
            n == f[2]
<1>1. GetField(v, f) = {c - k : c \in v \cap (k .. (k + n - 1))}
  BY Zenon DEF GetField, FieldBits, Ones
<1>. QED
  BY <1>1

\* A field of one or two bits.
LEMMA OneBit ==
  ASSUME NEW v, NEW f, f[1] \in Nat, f[2] = 1
  PROVE  GetField(v, f) = IF f[1] \in v THEN {0} ELSE {}
  BY GetFieldBits

LEMMA TwoBits ==
  ASSUME NEW v, NEW f, f[1] \in Nat, f[2] = 2
  PROVE  GetField(v, f) = (IF f[1] \in v THEN {0} ELSE {}) \cup (IF f[1] + 1 \in v THEN {1} ELSE {})
  BY GetFieldBits

\* Who may touch the registers that are stored.
LEMMA StoredPrivilege ==
  ASSUME NEW r \in Stored
  PROVE  privilege(r) = IF r \in {fflags, cycle} THEN 0
                        ELSE IF r \in {stvec, scounteren, sepc, scause, stval, satp} THEN 1 ELSE 3
  BY DEF Stored, privilege, fflags, cycle, stvec, scounteren, sepc, scause, stval, satp,
           mstatus, misa, medeleg, mideleg, mie, mtvec, mcounteren, mscratch,
           mepc, mcause, mtval, mip, mncause, mnstatus

\* Zero has no bits.
LEMMA ZeroBits == ToBits(0) = {} /\ \A n : ToBits(n) \in SUBSET (0 .. 15)
<1>1. ASSUME NEW b \in 0 .. 15 PROVE 2^b \in Nat \ {0}
  <2>1. /\ 2^0 > 0 /\ 2^1 > 0 /\ 2^2 > 0 /\ 2^3 > 0 /\ 2^4 > 0 /\ 2^5 > 0 /\ 2^6 > 0 /\ 2^7 > 0
        /\ 2^8 > 0 /\ 2^9 > 0 /\ 2^10 > 0 /\ 2^11 > 0 /\ 2^12 > 0 /\ 2^13 > 0 /\ 2^14 > 0
        /\ 2^15 > 0
    OBVIOUS
  <2>2. 2^b \in Int
    OBVIOUS
  <2>3. \/ b = 0 \/ b = 1 \/ b = 2 \/ b = 3 \/ b = 4 \/ b = 5 \/ b = 6 \/ b = 7
        \/ b = 8 \/ b = 9 \/ b = 10 \/ b = 11 \/ b = 12 \/ b = 13 \/ b = 14 \/ b = 15
    OBVIOUS
  <2>4. 2^b > 0
    BY Zenon, <2>1, <2>3
  <2>. QED
    BY <2>2, <2>4
<1>2. ASSUME NEW w \in Nat \ {0} PROVE (0 \div w) % 2 = 0
  OBVIOUS
<1>3. ASSUME NEW b \in 0 .. 15 PROVE ~ ((0 \div 2^b) % 2 = 1)
  <2>1. PICK w \in Nat \ {0} : w = 2^b
    BY Zenon, <1>1
  <2>2. (0 \div w) % 2 = 0
    BY Zenon, <1>2, <2>1
  <2>. QED
    BY <2>1, <2>2
<1>. QED
  BY Zenon, <1>3 DEF ToBits

\* A number read from bits is a number.
LEMMA NatOfBits == AddressSpan \in Nat \ {0} /\ \A bits : ToNat(bits) \in Nat
<1>0. AddressSpan \in Nat \ {0}
  BY DEF AddressSpan
<1>. SUFFICES ASSUME NEW bits PROVE ToNat(bits) \in Nat
  BY Zenon, <1>0
<1>1. PICK a0 \in Nat : a0 = IF 0 \in bits THEN 2^0 ELSE 0
  OBVIOUS
<1>2. PICK a1 \in Nat : a1 = IF 1 \in bits THEN 2^1 ELSE 0
  OBVIOUS
<1>3. PICK a2 \in Nat : a2 = IF 2 \in bits THEN 2^2 ELSE 0
  OBVIOUS
<1>4. PICK a3 \in Nat : a3 = IF 3 \in bits THEN 2^3 ELSE 0
  OBVIOUS
<1>5. PICK a4 \in Nat : a4 = IF 4 \in bits THEN 2^4 ELSE 0
  OBVIOUS
<1>6. PICK a5 \in Nat : a5 = IF 5 \in bits THEN 2^5 ELSE 0
  OBVIOUS
<1>7. PICK a6 \in Nat : a6 = IF 6 \in bits THEN 2^6 ELSE 0
  OBVIOUS
<1>8. PICK a7 \in Nat : a7 = IF 7 \in bits THEN 2^7 ELSE 0
  OBVIOUS
<1>9. PICK a8 \in Nat : a8 = IF 8 \in bits THEN 2^8 ELSE 0
  OBVIOUS
<1>10. PICK a9 \in Nat : a9 = IF 9 \in bits THEN 2^9 ELSE 0
  OBVIOUS
<1>11. PICK a10 \in Nat : a10 = IF 10 \in bits THEN 2^10 ELSE 0
  OBVIOUS
<1>12. PICK a11 \in Nat : a11 = IF 11 \in bits THEN 2^11 ELSE 0
  OBVIOUS
<1>13. PICK a12 \in Nat : a12 = IF 12 \in bits THEN 2^12 ELSE 0
  OBVIOUS
<1>14. PICK a13 \in Nat : a13 = IF 13 \in bits THEN 2^13 ELSE 0
  OBVIOUS
<1>15. PICK a14 \in Nat : a14 = IF 14 \in bits THEN 2^14 ELSE 0
  OBVIOUS
<1>16. PICK a15 \in Nat : a15 = IF 15 \in bits THEN 2^15 ELSE 0
  OBVIOUS
<1>17. ToNat(bits) = a0 + a1 + a2 + a3 + a4 + a5 + a6 + a7 + a8 + a9 + a10 + a11 + a12 +
                     a13 + a14 + a15
  BY SMTT(30), <1>1, <1>2, <1>3, <1>4, <1>5, <1>6, <1>7, <1>8, <1>9, <1>10, <1>11, <1>12,
     <1>13, <1>14, <1>15, <1>16 DEF ToNat
<1>. QED
  BY <1>17

(***************************************************************************)
(* Registers.                                                              *)
(***************************************************************************)
\* The registers, in the order of their addresses: they are all different.
LEMMA RegisterOrder ==
  /\ fflags \in Int /\ fflags < sstatus
  /\ sstatus \in Int /\ sstatus < sie
  /\ sie \in Int /\ sie < stvec
  /\ stvec \in Int /\ stvec < scounteren
  /\ scounteren \in Int /\ scounteren < senvcfg
  /\ senvcfg \in Int /\ senvcfg < sepc
  /\ sepc \in Int /\ sepc < scause
  /\ scause \in Int /\ scause < stval
  /\ stval \in Int /\ stval < sip
  /\ sip \in Int /\ sip < satp
  /\ satp \in Int /\ satp < mstatus
  /\ mstatus \in Int /\ mstatus < misa
  /\ misa \in Int /\ misa < medeleg
  /\ medeleg \in Int /\ medeleg < mideleg
  /\ mideleg \in Int /\ mideleg < mie
  /\ mie \in Int /\ mie < mtvec
  /\ mtvec \in Int /\ mtvec < mcounteren
  /\ mcounteren \in Int /\ mcounteren < menvcfg
  /\ menvcfg \in Int /\ menvcfg < mscratch
  /\ mscratch \in Int /\ mscratch < mepc
  /\ mepc \in Int /\ mepc < mcause
  /\ mcause \in Int /\ mcause < mtval
  /\ mtval \in Int /\ mtval < mip
  /\ mip \in Int /\ mip < mnepc
  /\ mnepc \in Int /\ mnepc < mncause
  /\ mncause \in Int /\ mncause < mnstatus
  /\ mnstatus \in Int /\ mnstatus < mseccfg
  /\ mseccfg \in Int /\ mseccfg < cycle
  /\ cycle \in Int
  BY DEF fflags, cycle, sstatus, sie, stvec, scounteren, senvcfg, sepc, scause, stval, sip, satp,
         mstatus, misa, medeleg, mideleg, mie, mtvec, mcounteren, menvcfg, mscratch, mepc, mcause,
         mtval, mip, mnepc, mncause, mnstatus, mseccfg

\* A register that is written is stored, or is one of three shadows.
LEMMA Shadows ==
  ASSUME NEW reg, ShadowOf(reg) \in Stored
  PROVE  /\ reg = sstatus => ShadowOf(reg) = mstatus
         /\ reg = sip => ShadowOf(reg) = mip
         /\ reg = sie => ShadowOf(reg) = mie
         /\ reg \notin {sstatus, sip, sie} =>
              reg \in Stored /\ ShadowOf(reg) = reg /\ ShadowMask(reg) = Bits64
         /\ ShadowMask(reg) \subseteq Bits64
<1>1. sstatus # sip /\ sstatus # sie /\ sip # sie
  BY RegisterOrder
<1>2. SSTATUS_FIELDS_MASK \subseteq Bits64
  BY DEF SSTATUS_FIELDS_MASK, FieldBits, Ones, Bits64, SD, UXL, MXR, SUM, XS, FS, VS, SPP, UBE,
         SPIE, SIE
<1>3. WARL_MASK_SIP_SIE \subseteq Bits64
  BY DEF WARL_MASK_SIP_SIE, SUPERVISOR_BIT_MASK, Bits64
<1>. QED
  BY Zenon, <1>1, <1>2, <1>3 DEF ShadowOf, ShadowMask

Csrs == [Stored -> SUBSET Bits64]

\* A write stores a value it may store, in one register, or changes nothing.
LEMMA OneWrite ==
  ASSUME NEW c \in Csrs, NEW reg, ShadowOf(reg) \in Stored, NEW v
  PROVE  \/ csr_write(c, reg, v) = c /\ make_value_writable(reg, v) = {}
         \/ \E x \in make_value_writable(reg, v) :
               csr_write(c, reg, v) = [c EXCEPT ![ShadowOf(reg)] = transform_write(c, reg, x)]
<1>. DEFINE values == make_value_writable(reg, v)
<1>1. CASE values = {}
  BY Zenon, <1>1 DEF csr_write, StoreOne
<1>2. CASE values # {}
  <2>1. PICK x : x = CHOOSE y \in values : TRUE
    OBVIOUS
  <2>2. x \in values
    BY Zenon, <1>2, <2>1
  <2>3. csr_write(c, reg, v) = [c EXCEPT ![ShadowOf(reg)] = transform_write(c, reg, x)]
    BY Zenon, <1>2, <2>1 DEF csr_write, StoreOne
  <2>. QED
    BY Zenon, <2>2, <2>3
<1>. QED
  BY Zenon, <1>1, <1>2

\* What a write leaves alone, and what it leaves in the register it changes.
LEMMA WriteOne ==
  ASSUME NEW c \in Csrs, NEW reg, ShadowOf(reg) \in Stored, NEW v
  PROVE  /\ csr_write(c, reg, v) \in Csrs
         /\ \A r \in Stored : r # ShadowOf(reg) => csr_write(c, reg, v)[r] = c[r]
         /\ \/ csr_write(c, reg, v) = c /\ make_value_writable(reg, v) = {}
            \/ \E x \in make_value_writable(reg, v) :
                  csr_write(c, reg, v)[ShadowOf(reg)]
                    = (x \cap ShadowMask(reg)) \cup (c[ShadowOf(reg)] \ ShadowMask(reg))
<1>1. CASE csr_write(c, reg, v) = c /\ make_value_writable(reg, v) = {}
  BY Zenon, <1>1
<1>2. ASSUME NEW x \in make_value_writable(reg, v),
             csr_write(c, reg, v) = [c EXCEPT ![ShadowOf(reg)] = transform_write(c, reg, x)]
      PROVE  /\ csr_write(c, reg, v) \in Csrs
             /\ \A r \in Stored : r # ShadowOf(reg) => csr_write(c, reg, v)[r] = c[r]
             /\ csr_write(c, reg, v)[ShadowOf(reg)]
                  = (x \cap ShadowMask(reg)) \cup (c[ShadowOf(reg)] \ ShadowMask(reg))
  <2>1. PICK s \in Stored : s = ShadowOf(reg)
    OBVIOUS
  <2>2. PICK y : y = (x \cap ShadowMask(reg)) \cup (c[s] \ ShadowMask(reg))
    BY Zenon
  <2>3. y \in SUBSET Bits64
    BY Zenon, <2>2, Shadows DEF Csrs
  <2>4. csr_write(c, reg, v) = [c EXCEPT ![s] = y]
    BY Zenon, <1>2, <2>1, <2>2 DEF transform_write
  <2>5. [c EXCEPT ![s] = y] \in Csrs
    BY Zenon, <2>3 DEF Csrs
  <2>6. [c EXCEPT ![s] = y][s] = y /\ \A r \in Stored : r # s => [c EXCEPT ![s] = y][r] = c[r]
    BY Zenon DEF Csrs
  <2>. QED
    BY Zenon, <2>1, <2>2, <2>4, <2>5, <2>6
<1>. QED
  BY Zenon, OneWrite, <1>1, <1>2

(***************************************************************************)
(* The status register, bit by bit.                                        *)
(***************************************************************************)
\* The dirty extensions of a status.
SomeDirty(s) == \/ 9 \in s /\ 10 \in s
                \/ 13 \in s /\ 14 \in s
                \/ 15 \in s /\ 16 \in s

StatusReserved == {0, 2, 4} \cup (23 .. 31) \cup (38 .. 62)

LEMMA DirtyFields ==
  ASSUME NEW v
  PROVE  (\E f \in {XS, FS, VS} : GetField(v, f) = Dirty) <=> SomeDirty(v)
<1>1. (\E f \in {XS, FS, VS} : GetField(v, f) = Dirty)
        <=> GetField(v, XS) = Dirty \/ GetField(v, FS) = Dirty \/ GetField(v, VS) = Dirty
  BY Zenon
<1>2. GetField(v, XS) = Dirty <=> 15 \in v /\ 16 \in v
  BY GetFieldBits, Fields DEF Dirty
<1>3. GetField(v, FS) = Dirty <=> 13 \in v /\ 14 \in v
  BY GetFieldBits, Fields DEF Dirty
<1>4. GetField(v, VS) = Dirty <=> 9 \in v /\ 10 \in v
  BY GetFieldBits, Fields DEF Dirty
<1>. QED
  BY Zenon, <1>1, <1>2, <1>3, <1>4 DEF SomeDirty

\* What the two normalisations of a status do, bit by bit.
LEMMA WarlSstatusBits ==
  ASSUME NEW v, NEW b \in Int
  PROVE  b \in apply_warl_sstatus(v)
           <=> CASE b = 63 -> SomeDirty(v) [] b = 32 -> FALSE [] b = 33 -> TRUE [] OTHER -> b \in v
<1>1. PICK flag : flag = IF SomeDirty(v) THEN {0} ELSE {}
  BY Zenon
<1>2. apply_warl_sstatus(v) = SetField(SetField(v, SD, flag), UXL, {1})
  <2>1. (IF \E f \in {XS, FS, VS} : GetField(v, f) = Dirty THEN {0} ELSE {}) = flag
    BY Zenon, <1>1, DirtyFields
  <2>. QED
    BY Zenon, <2>1 DEF apply_warl_sstatus, MXL64, Flag
<1>3. b \in SetField(v, SD, flag) <=> IF b = 63 THEN 0 \in flag ELSE b \in v
  BY SetFieldBits, Fields
<1>4. b \in apply_warl_sstatus(v)
        <=> CASE b = 32 -> FALSE [] b = 33 -> TRUE [] OTHER -> b \in SetField(v, SD, flag)
  BY SetFieldBits, Fields, <1>2
<1>. QED
  BY <1>1, <1>3, <1>4

\* The field of the previous mode never holds the reserved mode.
LEMMA LegalMPPBits ==
  ASSUME NEW v, NEW b \in Int
  PROVE  b \in LegalMPP(v) <=> IF b = 12 THEN 11 \in v /\ 12 \in v ELSE b \in v
<1>1. PICK f : f = GetField(v, MPP)
  BY Zenon
<1>2. f = (IF 11 \in v THEN {0} ELSE {}) \cup (IF 12 \in v THEN {1} ELSE {})
  BY <1>1, TwoBits, Fields
<1>3. PICK g : g = ModeBits(MPPValue(f))
  BY Zenon
<1>4. /\ 0 \in g <=> 11 \in v
      /\ 1 \in g <=> 11 \in v /\ 12 \in v
  <2>1. CASE 11 \in v /\ 12 \in v
    <3>1. f = {0, 1}
      BY Zenon, <1>2, <2>1
    <3>. QED
      BY <1>3, <2>1, <3>1 DEF ModeBits, MPPValue, User, Supervisor, Machine
  <2>2. CASE 11 \in v /\ 12 \notin v
    <3>1. f = {0}
      BY Zenon, <1>2, <2>2
    <3>. QED
      BY <1>3, <2>2, <3>1 DEF ModeBits, MPPValue, User, Supervisor, Machine
  <2>3. CASE 11 \notin v
    <3>1. f # {0} /\ f # {0, 1}
      BY Zenon, <1>2, <2>3
    <3>. QED
      BY <1>3, <2>3, <3>1 DEF ModeBits, MPPValue, User, Supervisor, Machine
  <2>. QED
    BY Zenon, <2>1, <2>2, <2>3
<1>5. LegalMPP(v) = SetField(v, MPP, g)
  BY Zenon, <1>1, <1>3 DEF LegalMPP
<1>. QED
  BY SetFieldBits, Fields, <1>4, <1>5

LEMMA WarlMstatusBits ==
  ASSUME NEW v, NEW b \in Int
  PROVE  b \in apply_warl_mstatus(v)
           <=> CASE b = 63 -> SomeDirty(v) [] b \in {32, 34} -> FALSE [] b \in {33, 35} -> TRUE
                 [] b = 12 -> 11 \in v /\ 12 \in v [] OTHER -> b \in v
<1>1. PICK s : s = apply_warl_sstatus(v)
  BY Zenon
<1>2. PICK w : w = SetField(s, SXL, {1})
  BY Zenon
<1>3. \A a \in Int : a \in s
        <=> CASE a = 63 -> SomeDirty(v) [] a = 32 -> FALSE [] a = 33 -> TRUE [] OTHER -> a \in v
  BY Zenon, <1>1, WarlSstatusBits
<1>4. \A a \in Int : a \in w <=> CASE a = 34 -> FALSE [] a = 35 -> TRUE [] OTHER -> a \in s
  BY SetFieldBits, Fields, <1>2
<1>5. apply_warl_mstatus(v) = LegalMPP(w)
  BY Zenon, <1>1, <1>2 DEF apply_warl_mstatus, MXL64
<1>6. b \in LegalMPP(w) <=> IF b = 12 THEN 11 \in w /\ 12 \in w ELSE b \in w
  BY Zenon, LegalMPPBits
<1>. QED
  BY <1>3, <1>4, <1>5, <1>6

\* The fields of the status the supervisor sees, and those there are.
LEMMA SupervisorFields ==
  ASSUME NEW b \in Int
  PROVE  b \in SSTATUS_FIELDS_MASK <=> b \in {1, 5, 6, 8, 9, 10, 13, 14, 15, 16, 18, 19, 32, 33, 63}
<1>1. /\ FieldBits(SD) = 63 .. 63 /\ FieldBits(UXL) = 32 .. 33 /\ FieldBits(MXR) = 19 .. 19
      /\ FieldBits(SUM) = 18 .. 18 /\ FieldBits(XS) = 15 .. 16 /\ FieldBits(FS) = 13 .. 14
      /\ FieldBits(VS) = 9 .. 10 /\ FieldBits(SPP) = 8 .. 8 /\ FieldBits(UBE) = 6 .. 6
      /\ FieldBits(SPIE) = 5 .. 5 /\ FieldBits(SIE) = 1 .. 1
  BY DEF FieldBits, Ones, SD, UXL, MXR, SUM, XS, FS, VS, SPP, UBE, SPIE, SIE
<1>2. SSTATUS_FIELDS_MASK
        = FieldBits(SD) \cup FieldBits(UXL) \cup FieldBits(MXR) \cup FieldBits(SUM) \cup FieldBits(XS)
          \cup FieldBits(FS) \cup FieldBits(VS) \cup FieldBits(SPP) \cup FieldBits(UBE)
          \cup FieldBits(SPIE) \cup FieldBits(SIE)
  BY Zenon DEF SSTATUS_FIELDS_MASK
<1>. QED
  BY <1>1, <1>2

LEMMA StatusFields ==
  ASSUME NEW b \in Bits64
  PROVE  b \in MSTATUS_FIELDS_MASK <=> b \notin StatusReserved
<1>1. /\ FieldBits(MBE) = 37 .. 37 /\ FieldBits(SBE) = 36 .. 36 /\ FieldBits(SXL) = 34 .. 35
      /\ FieldBits(TSR) = 22 .. 22 /\ FieldBits(TW) = 21 .. 21 /\ FieldBits(TVM) = 20 .. 20
      /\ FieldBits(MPRV) = 17 .. 17 /\ FieldBits(MPP) = 11 .. 12 /\ FieldBits(MPIE) = 7 .. 7
      /\ FieldBits(MIE) = 3 .. 3
  BY DEF FieldBits, Ones, MBE, SBE, SXL, TSR, TW, TVM, MPRV, MPP, MPIE, MIE
<1>2. MSTATUS_FIELDS_MASK
        = SSTATUS_FIELDS_MASK \cup FieldBits(MBE) \cup FieldBits(SBE) \cup FieldBits(SXL)
          \cup FieldBits(TSR) \cup FieldBits(TW) \cup FieldBits(TVM) \cup FieldBits(MPRV)
          \cup FieldBits(MPP) \cup FieldBits(MPIE) \cup FieldBits(MIE)
  BY ZenonT(30) DEF MSTATUS_FIELDS_MASK
<1>3. b \in Int
  BY DEF Bits64
<1>. QED
  BY <1>1, <1>2, <1>3, SupervisorFields DEF StatusReserved, Bits64

\* The status written from machine mode: v, made legal.
LEMMA StatusWrite ==
  ASSUME NEW c \in Csrs, NEW v, NEW b \in Bits64
  PROVE  b \in csr_write(c, mstatus, v)[mstatus]
           <=> CASE b = 63 -> SomeDirty(v) [] b \in {32, 34} -> FALSE [] b \in {33, 35} -> TRUE
                 [] b = 12 -> 11 \in v /\ 12 \in v [] b \in StatusReserved -> FALSE
                 [] OTHER -> b \in v
<1>1. ShadowOf(mstatus) = mstatus /\ ShadowMask(mstatus) = Bits64 /\ mstatus \in Stored
  BY RegisterOrder DEF ShadowOf, ShadowMask, Stored
<1>2. Reserved(mstatus) = StatusReserved
  BY RegisterOrder DEF Reserved, Ones, StatusReserved
<1>3. PICK u : u = v \ StatusReserved
  BY Zenon
<1>4. make_value_writable(mstatus, v) = {apply_warl_mstatus(u)}
  <2>1. legal_values(mstatus) = {}
    BY RegisterOrder DEF legal_values
  <2>2. transform_warl_fields(mstatus, u) = {apply_warl_mstatus(u)}
    BY RegisterOrder DEF transform_warl_fields
  <2>. QED
    BY Zenon, <1>2, <1>3, <2>1, <2>2 DEF make_value_writable, clear_wpri_fields, is_legal
<1>5. csr_write(c, mstatus, v)[mstatus] = apply_warl_mstatus(u) \cap Bits64
  <2>1. c[mstatus] \ Bits64 = {}
    BY Zenon, <1>1 DEF Csrs
  <2>2. make_value_writable(mstatus, v) # {} /\ ShadowOf(mstatus) \in Stored
    BY Zenon, <1>1, <1>4
  <2>3. PICK x \in make_value_writable(mstatus, v) :
          csr_write(c, mstatus, v)[ShadowOf(mstatus)]
            = (x \cap ShadowMask(mstatus)) \cup (c[ShadowOf(mstatus)] \ ShadowMask(mstatus))
    BY Zenon, <2>2, WriteOne
  <2>. QED
    BY Zenon, <1>1, <1>4, <2>1, <2>3
<1>6. SomeDirty(u) <=> SomeDirty(v)
  BY <1>3 DEF SomeDirty, StatusReserved
<1>7. b \in Int
  BY DEF Bits64
<1>8. /\ 11 \in u <=> 11 \in v
      /\ 12 \in u <=> 12 \in v
      /\ b \in u <=> b \in v /\ b \notin StatusReserved
  BY <1>3 DEF StatusReserved
<1>9. 12 \notin StatusReserved /\ 32 \notin StatusReserved /\ 33 \notin StatusReserved
      /\ 34 \notin StatusReserved /\ 35 \notin StatusReserved /\ 63 \notin StatusReserved
  BY DEF StatusReserved
<1>10. b \in apply_warl_mstatus(u)
         <=> CASE b = 63 -> SomeDirty(u) [] b \in {32, 34} -> FALSE [] b \in {33, 35} -> TRUE
               [] b = 12 -> 11 \in u /\ 12 \in u [] OTHER -> b \in u
  BY Zenon, <1>7, WarlMstatusBits
<1>. QED
  BY <1>5, <1>6, <1>8, <1>9, <1>10

\* The status written through its shadow: the other fields stay.
LEMMA SstatusWrite ==
  ASSUME NEW c \in Csrs, NEW v, NEW b \in Bits64
  PROVE  b \in csr_write(c, sstatus, v)[mstatus]
           <=> CASE b = 63 -> SomeDirty(v) [] b = 32 -> FALSE [] b = 33 -> TRUE
                 [] b \in SSTATUS_FIELDS_MASK \ {32, 33, 63} -> b \in v
                 [] OTHER -> b \in c[mstatus]
<1>1. /\ ShadowOf(sstatus) = mstatus /\ ShadowMask(sstatus) = SSTATUS_FIELDS_MASK
      /\ mstatus \in Stored
  BY RegisterOrder DEF ShadowOf, ShadowMask, Stored
<1>2. PICK u : u = v \ Reserved(sstatus)
  BY Zenon
<1>3. \A a \in Bits64 : a \in Reserved(sstatus) <=> a \notin SSTATUS_FIELDS_MASK
  <2>1. Reserved(sstatus) = {0} \cup (2 .. 4) \cup {7} \cup (11 .. 12) \cup {17} \cup (20 .. 31)
                            \cup (34 .. 62)
    BY RegisterOrder DEF Reserved, Ones
  <2>. QED
    BY <2>1, SupervisorFields DEF Bits64
<1>4. make_value_writable(sstatus, v) = {apply_warl_sstatus(u)}
  <2>1. legal_values(sstatus) = {}
    BY RegisterOrder DEF legal_values
  <2>2. transform_warl_fields(sstatus, u) = {apply_warl_sstatus(u)}
    BY RegisterOrder DEF transform_warl_fields
  <2>. QED
    BY Zenon, <1>2, <2>1, <2>2 DEF make_value_writable, clear_wpri_fields, is_legal
<1>5. csr_write(c, sstatus, v)[mstatus]
        = (apply_warl_sstatus(u) \cap SSTATUS_FIELDS_MASK) \cup (c[mstatus] \ SSTATUS_FIELDS_MASK)
  BY SMTT(30), <1>1, <1>4, WriteOne
<1>6. b \in Int
  BY DEF Bits64
<1>7. \A a \in Bits64 : a \in SSTATUS_FIELDS_MASK => (a \in u <=> a \in v)
  BY Zenon, <1>2, <1>3
<1>8. SomeDirty(u) <=> SomeDirty(v)
  <2>1. ASSUME NEW a \in {9, 10, 13, 14, 15, 16} PROVE a \in u <=> a \in v
    BY <1>7, SupervisorFields DEF Bits64
  <2>. QED
    BY Zenon, <2>1 DEF SomeDirty
<1>9. b \in apply_warl_sstatus(u)
        <=> CASE b = 63 -> SomeDirty(u) [] b = 32 -> FALSE [] b = 33 -> TRUE [] OTHER -> b \in u
  BY Zenon, <1>6, WarlSstatusBits
<1>10. 32 \in SSTATUS_FIELDS_MASK /\ 33 \in SSTATUS_FIELDS_MASK /\ 63 \in SSTATUS_FIELDS_MASK
  BY SupervisorFields
<1>. QED
  BY <1>5, <1>7, <1>8, <1>9, <1>10

(***************************************************************************)
(* Legal registers.                                                        *)
(***************************************************************************)
\* A status that was zeroed or written.
StatusLegal(s) ==
  /\ \A b \in StatusReserved \cup {34} : b \notin s
  /\ 12 \in s => 11 \in s
  /\ s # {} => 33 \in s /\ 32 \notin s /\ (63 \in s <=> SomeDirty(s))

Interrupts == SUPERVISOR_BIT_MASK \cup MACHINE_BIT_MASK

LegalValue(r, x) ==
  /\ r = mstatus => StatusLegal(x)
  /\ r \in {mip, mie, mideleg} => x \subseteq Interrupts
  /\ r = mcause => x \in MCauses
  /\ r = scause => x \in SCauses
  /\ r = medeleg => 11 \notin x
  /\ r \in {mepc, sepc} => 0 \notin x
  /\ r \in {mtvec, stvec} => 1 \notin x
  /\ r = satp => (GetField(x, SATP_MODE) = {} => x = {})

CsrLegal(c) == c \in Csrs /\ \A r \in Stored : LegalValue(r, c[r])

LEMMA SomeCauses == {} \in MCauses /\ {} \in SCauses
<1>1. ToBits(0) \in MCauses /\ ToBits(0) \in SCauses
  BY DEF MCauses, SCauses
<1>. QED
  BY Zenon, <1>1, ZeroBits

\* A write of machine mode leaves a legal status.
LEMMA LegalStatusWrite ==
  ASSUME NEW c \in Csrs, NEW v
  PROVE  StatusLegal(csr_write(c, mstatus, v)[mstatus])
<1>1. PICK s : s = csr_write(c, mstatus, v)[mstatus]
  BY Zenon
<1>2. \A b \in Bits64 : b \in s
        <=> CASE b = 63 -> SomeDirty(v) [] b \in {32, 34} -> FALSE [] b \in {33, 35} -> TRUE
              [] b = 12 -> 11 \in v /\ 12 \in v [] b \in StatusReserved -> FALSE
              [] OTHER -> b \in v
  BY Zenon, <1>1, StatusWrite
<1>3. \A b \in StatusReserved \cup {34} : b \notin s
  BY <1>2 DEF StatusReserved, Bits64
<1>4. 33 \in s /\ 32 \notin s /\ (12 \in s => 11 \in s)
  BY <1>2 DEF StatusReserved, Bits64
<1>5. 63 \in s <=> SomeDirty(v)
  BY <1>2 DEF Bits64, StatusReserved
<1>6. SomeDirty(s) <=> SomeDirty(v)
  <2>1. ASSUME NEW b \in {9, 10, 13, 14, 15, 16} PROVE b \in s <=> b \in v
    BY <1>2 DEF StatusReserved, Bits64
  <2>. QED
    BY Zenon, <2>1 DEF SomeDirty
<1>. QED
  BY ZenonT(30), <1>1, <1>3, <1>4, <1>5, <1>6 DEF StatusLegal

\* A write through the shadow keeps a status legal.
LEMMA LegalSstatusWrite ==
  ASSUME NEW c \in Csrs, NEW v, StatusLegal(c[mstatus])
  PROVE  StatusLegal(csr_write(c, sstatus, v)[mstatus])
<1>1. PICK s : s = csr_write(c, sstatus, v)[mstatus]
  BY Zenon
<1>2. \A b \in Bits64 : b \in s
        <=> CASE b = 63 -> SomeDirty(v) [] b = 32 -> FALSE [] b = 33 -> TRUE
              [] b \in SSTATUS_FIELDS_MASK \ {32, 33, 63} -> b \in v
              [] OTHER -> b \in c[mstatus]
  BY Zenon, <1>1, SstatusWrite
<1>3. \A b \in StatusReserved \cup {34, 11, 12} : b \in Bits64 /\ b \notin SSTATUS_FIELDS_MASK
  BY SupervisorFields DEF StatusReserved, Bits64
<1>4. ASSUME NEW b \in StatusReserved \cup {34, 11, 12} PROVE b \in s <=> b \in c[mstatus]
  <2>1. b # 63 /\ b # 32 /\ b # 33 /\ b \in Bits64 /\ b \notin SSTATUS_FIELDS_MASK
    BY <1>3 DEF StatusReserved
  <2>. QED
    BY Zenon, <1>2, <2>1
<1>5. 33 \in s /\ 32 \notin s /\ (63 \in s <=> SomeDirty(v))
  BY <1>2 DEF Bits64
<1>6. SomeDirty(s) <=> SomeDirty(v)
  <2>1. ASSUME NEW b \in {9, 10, 13, 14, 15, 16} PROVE b \in s <=> b \in v
    <3>1. b \in SSTATUS_FIELDS_MASK \ {32, 33, 63} /\ b \in Bits64 /\ b # 63 /\ b # 32 /\ b # 33
      BY SupervisorFields DEF Bits64
    <3>. QED
      BY Zenon, <1>2, <3>1
  <2>. QED
    BY Zenon, <2>1 DEF SomeDirty
<1>. QED
  BY <1>1, <1>4, <1>5, <1>6 DEF StatusLegal

\* What may be written into the registers with rules of their own.
LEMMA LegalWritable ==
  ASSUME NEW reg, reg \notin {mstatus, sstatus}, NEW v \in SUBSET Bits64,
         NEW x \in make_value_writable(reg, v)
  PROVE  /\ reg \in {sip, sie} => x \subseteq Interrupts
         /\ LegalValue(reg, x)
<1>1. x \in transform_warl_fields(reg, v \ Reserved(reg)) /\ is_legal(reg, x)
  BY Zenon DEF make_value_writable, clear_wpri_fields
<1>2. PICK u \in SUBSET Bits64 : u = v \ Reserved(reg)
  BY Zenon
<1>3. reg \in {mip, mie, sip, sie, mideleg} => x \subseteq Interrupts
  BY <1>1, <1>2, RegisterOrder DEF transform_warl_fields, WARL_MASK_MIP_MIE, WARL_MASK_SIP_SIE,
     WARL_MASK_MIDELEG, Interrupts, SUPERVISOR_BIT_MASK, MACHINE_BIT_MASK
<1>4. (reg = mcause => x \in MCauses) /\ (reg = scause => x \in SCauses)
  BY <1>1, SomeCauses, RegisterOrder DEF is_legal, legal_values
<1>5. reg = medeleg => 11 \notin x
  BY <1>1, <1>2, RegisterOrder DEF transform_warl_fields, WARL_MASK_MEDELEG
<1>6. (reg \in {mepc, sepc} => 0 \notin x) /\ (reg \in {mtvec, stvec} => 1 \notin x)
  BY <1>1, <1>2, RegisterOrder DEF transform_warl_fields
<1>7. reg = satp => (GetField(x, SATP_MODE) = {} => x = {})
  <2>1. SUFFICES ASSUME reg = satp, GetField(x, SATP_MODE) = {} PROVE x = {}
    BY Zenon
  <2>2. x \in SatpValues(u)
    BY <1>1, <1>2, <2>1, RegisterOrder DEF transform_warl_fields
  <2>. QED
    BY Zenon, <2>1, <2>2 DEF SatpValues
<1>. QED
  BY Zenon, <1>3, <1>4, <1>5, <1>6, <1>7 DEF LegalValue

\* Every write keeps the registers legal, and changes one of them.
LEMMA LegalWrite ==
  ASSUME NEW c, CsrLegal(c), NEW reg, ShadowOf(reg) \in Stored, NEW v \in SUBSET Bits64
  PROVE  CsrLegal(csr_write(c, reg, v))
<1>1. PICK w : w = csr_write(c, reg, v)
  BY Zenon
<1>2. PICK s \in Stored : s = ShadowOf(reg)
  BY Zenon
<1>3. c \in Csrs /\ \A r \in Stored : LegalValue(r, c[r])
  BY Zenon DEF CsrLegal
<1>4. w \in Csrs /\ \A r \in Stored : r # s => w[r] = c[r]
  BY <1>1, <1>2, <1>3, WriteOne
<1>5. SUFFICES LegalValue(s, w[s])
  <2>1. ASSUME LegalValue(s, w[s]), NEW r \in Stored PROVE LegalValue(r, w[r])
    <3>1. CASE r = s
      BY Zenon, <2>1, <3>1
    <3>2. CASE r # s
      BY Zenon, <1>3, <1>4, <3>2
    <3>. QED
      BY Zenon, <3>1, <3>2
  <2>. QED
    BY Zenon, <1>1, <1>4, <2>1 DEF CsrLegal
<1>6. CASE reg = mstatus
  <2>1. s = mstatus
    BY <1>2, <1>6, RegisterOrder DEF ShadowOf
  <2>2. StatusLegal(w[s])
    BY Zenon, <1>1, <1>3, <1>6, <2>1, LegalStatusWrite
  <2>. QED
    BY <2>1, <2>2, RegisterOrder DEF LegalValue
<1>7. CASE reg = sstatus
  <2>1. s = mstatus
    BY <1>2, <1>7, RegisterOrder DEF ShadowOf
  <2>2. StatusLegal(c[mstatus])
    BY Zenon, <1>3, <2>1 DEF LegalValue
  <2>3. StatusLegal(w[s])
    BY Zenon, <1>1, <1>3, <1>7, <2>1, <2>2, LegalSstatusWrite
  <2>. QED
    BY <2>1, <2>3, RegisterOrder DEF LegalValue
<1>8. CASE reg \notin {mstatus, sstatus}
  <2>1. CASE w = c
    BY Zenon, <1>3, <2>1
  <2>2. ASSUME NEW x \in make_value_writable(reg, v),
               w[s] = (x \cap ShadowMask(reg)) \cup (c[s] \ ShadowMask(reg))
        PROVE  LegalValue(s, w[s])
    <3>1. (reg \in {sip, sie} => x \subseteq Interrupts) /\ LegalValue(reg, x)
      BY Zenon, <1>8, <2>2, LegalWritable
    <3>2. CASE reg \in {sip, sie}
      <4>1. s \in {mip, mie}
        BY Zenon, <1>2, <3>2, Shadows
      <4>2. c[s] \subseteq Interrupts
        BY Zenon, <1>3, <4>1 DEF LegalValue
      <4>3. w[s] \subseteq Interrupts
        BY Zenon, <2>2, <3>1, <3>2, <4>2
      <4>. QED
        BY <4>1, <4>3, RegisterOrder DEF LegalValue
    <3>3. CASE reg \notin {sip, sie}
      <4>1. s = reg /\ ShadowMask(reg) = Bits64
        BY Zenon, <1>2, <1>8, <3>3, Shadows
      <4>2. c[s] \in SUBSET Bits64
        BY Zenon, <1>3 DEF Csrs
      <4>3. w[s] = x \cap Bits64
        BY Zenon, <2>2, <4>1, <4>2
      <4>4. reg \in {mcause, scause, satp} => x \in SUBSET Bits64
        <5>1. x \in transform_warl_fields(reg, v \ Reserved(reg))
          BY Zenon, <2>2 DEF make_value_writable, clear_wpri_fields
        <5>2. v \ Reserved(reg) \subseteq Bits64
          BY Zenon
        <5>3. \A u : reg \in {mcause, scause} => transform_warl_fields(reg, u) = {u}
          BY RegisterOrder DEF transform_warl_fields
        <5>4. \A u : reg = satp => transform_warl_fields(reg, u) \subseteq {u, {}}
          BY RegisterOrder DEF transform_warl_fields, SatpValues
        <5>. QED
          BY <5>1, <5>2, <5>3, <5>4
      <4>5. reg \in {mcause, scause, satp} => w[s] = x
        BY Zenon, <4>3, <4>4
      <4>6. w[s] \subseteq x
        BY Zenon, <4>3
      <4>. QED
        <5>1. CASE reg \in {mcause, scause, satp}
          BY Zenon, <3>1, <4>1, <4>5, <5>1
        <5>2. CASE reg \notin {mcause, scause, satp}
          BY Zenon, <1>8, <3>1, <4>1, <4>6, <5>2 DEF LegalValue
        <5>. QED
          BY Zenon, <5>1, <5>2
    <3>. QED
      BY Zenon, <3>2, <3>3
  <2>. QED
    BY Zenon, <1>1, <1>2, <1>3, <2>1, <2>2, WriteOne
<1>. QED
  BY Zenon, <1>6, <1>7, <1>8

(***************************************************************************)
(* What the machine owns, and the contexts of interrupted code.            *)
(***************************************************************************)
\* The registers w leave what the machine owns as it is in c.
Confined(c, w) ==
  /\ \A b \in Bits64 : b \notin SSTATUS_FIELDS_MASK \cup {17, 34, 35} =>
       (b \in w[mstatus] <=> b \in c[mstatus])
  /\ w[mie] \ SUPERVISOR_BIT_MASK = c[mie] \ SUPERVISOR_BIT_MASK
  /\ w[mip] \cap MACHINE_BIT_MASK \subseteq c[mip]
  /\ \A r \in Stored : privilege(r) = 3 /\ r \notin {mstatus, mie, mip} => w[r] = c[r]

LEMMA ConfinedMeans ==
  ASSUME NEW c \in Csrs, NEW w \in Csrs, Confined(c, w)
  PROVE  MachineOwned(w) = MachineOwned(c) /\ w[mip] \cap MACHINE_BIT_MASK \subseteq c[mip]
<1>. DEFINE own(k, r) ==
       CASE r = mstatus -> k[r] \ (SSTATUS_FIELDS_MASK \cup FieldBits(MPRV) \cup FieldBits(SXL))
         [] r = mie -> k[r] \ WARL_MASK_SIP_SIE
         [] r = mip -> {}
         [] r # mstatus /\ privilege(r) = 3 /\ r \notin {mie, mip} -> k[r]
         [] OTHER -> {}
<1>1. ASSUME NEW r \in Stored PROVE own(w, r) = own(c, r)
  <2>1. CASE r = mstatus
    <3>1. FieldBits(MPRV) = {17} /\ FieldBits(SXL) = {34, 35}
      BY Fields DEF FieldBits, Ones
    <3>2. w[mstatus] \in SUBSET Bits64 /\ c[mstatus] \in SUBSET Bits64
      BY Zenon, <2>1 DEF Csrs
    <3>3. w[mstatus] \ (SSTATUS_FIELDS_MASK \cup FieldBits(MPRV) \cup FieldBits(SXL))
            = c[mstatus] \ (SSTATUS_FIELDS_MASK \cup FieldBits(MPRV) \cup FieldBits(SXL))
      BY Zenon, <3>1, <3>2 DEF Confined
    <3>4. mstatus # mie /\ mstatus # mip
      BY RegisterOrder
    <3>. QED
      BY Zenon, <2>1, <3>3, <3>4
  <2>2. CASE r = mie
    <3>1. mie # mstatus /\ mie # mip
      BY RegisterOrder
    <3>. QED
      BY Zenon, <2>2, <3>1 DEF Confined, WARL_MASK_SIP_SIE
  <2>3. CASE r = mip
    <3>1. mip # mstatus /\ mip # mie
      BY RegisterOrder
    <3>. QED
      BY Zenon, <2>3, <3>1
  <2>4. CASE r \notin {mstatus, mie, mip}
    <3>1. CASE privilege(r) = 3
      <4>1. w[r] = c[r]
        BY Zenon, <2>4, <3>1 DEF Confined
      <4>. QED
        BY Zenon, <2>4, <3>1, <4>1
    <3>2. CASE privilege(r) # 3
      BY Zenon, <2>4, <3>2
    <3>. QED
      BY Zenon, <3>1, <3>2
  <2>. QED
    BY Zenon, <2>1, <2>2, <2>3, <2>4
<1>2. MachineOwned(w) = [r \in Stored |-> own(w, r)] /\ MachineOwned(c) = [r \in Stored |-> own(c, r)]
  BY Zenon DEF MachineOwned
<1>. HIDE DEF own
<1>. QED
  BY Zenon, <1>1, <1>2 DEF Confined

LEMMA ConfinedRefl == \A c : Confined(c, c)
  BY Zenon DEF Confined

LEMMA ConfinedTrans ==
  ASSUME NEW c, NEW w, NEW k, Confined(c, w), Confined(w, k)
  PROVE  Confined(c, k)
  BY Zenon DEF Confined

\* Who may not touch the machine's registers changes nothing it owns.
LEMMA ConfinedWrite ==
  ASSUME NEW c \in Csrs, NEW reg, ShadowOf(reg) \in Stored, NEW v, privilege(reg) <= 1
  PROVE  Confined(c, csr_write(c, reg, v))
<1>1. PICK w : w = csr_write(c, reg, v)
  BY Zenon
<1>2. PICK s \in Stored : s = ShadowOf(reg)
  BY Zenon
<1>3. /\ w \in Csrs
      /\ \A r \in Stored : r # s => w[r] = c[r]
      /\ \/ w = c
         \/ \E x : w[s] = (x \cap ShadowMask(reg)) \cup (c[s] \ ShadowMask(reg))
  BY <1>1, <1>2, WriteOne
<1>4. /\ mstatus \in Stored /\ mie \in Stored /\ mip \in Stored
      /\ mstatus # mie /\ mstatus # mip /\ mie # mip
  BY RegisterOrder DEF Stored
<1>5. CASE reg = sstatus
  <2>1. s = mstatus
    BY Zenon, <1>2, <1>5, Shadows
  <2>2. ASSUME NEW b \in Bits64, b \notin SSTATUS_FIELDS_MASK
        PROVE  b \in w[mstatus] <=> b \in c[mstatus]
    <3>1. b # 63 /\ b # 32 /\ b # 33
      BY <2>2, SupervisorFields
    <3>2. b \in csr_write(c, sstatus, v)[mstatus]
           <=> CASE b = 63 -> SomeDirty(v) [] b = 32 -> FALSE [] b = 33 -> TRUE
                 [] b \in SSTATUS_FIELDS_MASK \ {32, 33, 63} -> b \in v
                 [] OTHER -> b \in c[mstatus]
      BY Zenon, SstatusWrite
    <3>. QED
      BY Zenon, <1>1, <1>5, <2>2, <3>1, <3>2
  <2>. QED
    BY Zenon, <1>1, <1>3, <1>4, <2>1, <2>2 DEF Confined
<1>6. CASE reg \in {sie, sip}
  <2>1. s = (IF reg = sie THEN mie ELSE mip) /\ ShadowMask(reg) = SUPERVISOR_BIT_MASK
    <3>1. sie # sip /\ sie # sstatus /\ sip # sstatus
      BY RegisterOrder
    <3>. QED
      BY Zenon, <1>2, <1>6, <3>1, Shadows DEF ShadowMask, WARL_MASK_SIP_SIE
  <2>2. \/ w = c
        \/ \E x : w[s] = (x \cap SUPERVISOR_BIT_MASK) \cup (c[s] \ SUPERVISOR_BIT_MASK)
    BY Zenon, <1>3, <2>1
  <2>3. w[s] \ SUPERVISOR_BIT_MASK = c[s] \ SUPERVISOR_BIT_MASK
    BY Zenon, <2>2
  <2>4. SUPERVISOR_BIT_MASK \cap MACHINE_BIT_MASK = {}
    BY DEF SUPERVISOR_BIT_MASK, MACHINE_BIT_MASK
  <2>5. w[s] \cap MACHINE_BIT_MASK \subseteq c[s]
    BY Zenon, <2>3, <2>4
  <2>6. s \in {mie, mip}
    BY Zenon, <2>1
  <2>. QED
    <3>1. CASE s = mie
      BY Zenon, <1>1, <1>3, <1>4, <2>3, <3>1 DEF Confined
    <3>2. CASE s = mip
      BY Zenon, <1>1, <1>3, <1>4, <2>5, <3>2 DEF Confined
    <3>. QED
      BY Zenon, <2>6, <3>1, <3>2
<1>7. CASE reg \notin {sstatus, sie, sip}
  <2>1. s = reg
    BY Zenon, <1>2, <1>7, Shadows
  <2>2. privilege(s) <= 1
    BY Zenon, <2>1
  <2>3. ASSUME NEW r \in Stored, privilege(r) = 3 PROVE r # s
    BY <2>2, <2>3
  <2>4. privilege(mstatus) = 3 /\ privilege(mie) = 3 /\ privilege(mip) = 3
    BY <1>4, StoredPrivilege, RegisterOrder
  <2>5. \A r \in Stored : privilege(r) = 3 => w[r] = c[r]
    BY Zenon, <1>3, <2>3
  <2>. QED
    BY Zenon, <1>1, <1>4, <2>4, <2>5 DEF Confined
<1>. QED
  BY Zenon, <1>5, <1>6, <1>7

\* A status written with nothing of the machine's changed.
LEMMA ConfinedStatus ==
  ASSUME NEW c \in Csrs, StatusLegal(c[mstatus]), NEW v,
         \A b \in Bits64 \ {1, 5, 8, 17} : b \in v <=> b \in c[mstatus]
  PROVE  Confined(c, csr_write(c, mstatus, v))
<1>1. PICK w : w = csr_write(c, mstatus, v)
  BY Zenon
<1>2. ShadowOf(mstatus) = mstatus /\ mstatus \in Stored /\ mie \in Stored /\ mip \in Stored
      /\ mstatus # mie /\ mstatus # mip
  BY RegisterOrder DEF ShadowOf, Stored
<1>3. \A r \in Stored : r # mstatus => w[r] = c[r]
  BY <1>1, <1>2, WriteOne
<1>4. ASSUME NEW b \in Bits64, b \notin SSTATUS_FIELDS_MASK \cup {17, 34, 35}
      PROVE  b \in w[mstatus] <=> b \in c[mstatus]
  <2>1. b \notin {1, 5, 8, 17, 32, 33, 34, 35, 63}
    BY <1>4, SupervisorFields DEF Bits64
  <2>2. b \in w[mstatus]
          <=> CASE b = 63 -> SomeDirty(v) [] b \in {32, 34} -> FALSE [] b \in {33, 35} -> TRUE
                [] b = 12 -> 11 \in v /\ 12 \in v [] b \in StatusReserved -> FALSE
                [] OTHER -> b \in v
    BY Zenon, <1>1, StatusWrite
  <2>3. b \in v <=> b \in c[mstatus]
    BY Zenon, <2>1
  <2>4. CASE b = 12
    <3>1. (11 \in v <=> 11 \in c[mstatus]) /\ (12 \in v <=> 12 \in c[mstatus])
      BY DEF Bits64
    <3>2. 12 \in c[mstatus] => 11 \in c[mstatus]
      BY Zenon DEF StatusLegal
    <3>3. b \notin StatusReserved
      BY <2>4 DEF StatusReserved
    <3>. QED
      BY Zenon, <2>1, <2>2, <2>4, <3>1, <3>2, <3>3
  <2>5. CASE b \in StatusReserved
    <3>1. b # 12 /\ b \notin c[mstatus]
      BY <2>5 DEF StatusReserved, StatusLegal
    <3>. QED
      BY Zenon, <2>1, <2>2, <2>5, <3>1
  <2>6. CASE b # 12 /\ b \notin StatusReserved
    BY Zenon, <2>1, <2>2, <2>3, <2>6
  <2>. QED
    BY Zenon, <2>4, <2>5, <2>6
<1>. QED
  BY Zenon, <1>1, <1>2, <1>3, <1>4 DEF Confined

LEMMA TrapRegistersAre ==
  /\ TrapRegisters(Supervisor).tvec = stvec /\ TrapRegisters(Supervisor).epc = sepc
  /\ TrapRegisters(Supervisor).cause = scause /\ TrapRegisters(Supervisor).tval = stval
  /\ TrapRegisters(Supervisor).previous = SPP /\ TrapRegisters(Supervisor).enabled = SIE
  /\ TrapRegisters(Supervisor).before = SPIE
  /\ TrapRegisters(Machine).tvec = mtvec /\ TrapRegisters(Machine).epc = mepc
  /\ TrapRegisters(Machine).cause = mcause /\ TrapRegisters(Machine).tval = mtval
  /\ TrapRegisters(Machine).previous = MPP /\ TrapRegisters(Machine).enabled = MIE
  /\ TrapRegisters(Machine).before = MPIE
<1>1. Supervisor # Machine
  BY DEF Supervisor, Machine
<1>. QED
  BY Zenon, <1>1 DEF TrapRegisters

\* The context g that was saved for the handlers of mode m is intact in c.
Context(m, g, c) ==
  g.saved =>
    /\ g.mode <= m
    /\ GetField(c[mstatus], TrapRegisters(m).previous) = ModeBits(g.mode)
    /\ GetField(c[mstatus], TrapRegisters(m).before) = g.enabled
    /\ c[TrapRegisters(m).epc] = ToBits(g.pc) \ {0}
    /\ \/ c[TrapRegisters(m).cause] = g.cause
       \/ TrapRegisters(m).cause = scause /\ g.cause \notin SCauses

\* The bits of the status that hold a context.
ContextBits(m) == IF m = Supervisor THEN {5, 8} ELSE {7, 11, 12}

KeepsContext(m, c, w) ==
  /\ \A b \in ContextBits(m) : b \in w[mstatus] <=> b \in c[mstatus]
  /\ w[TrapRegisters(m).epc] = c[TrapRegisters(m).epc]
  /\ w[TrapRegisters(m).cause] = c[TrapRegisters(m).cause]

\* The fields of a context.
LEMMA ContextFields ==
  ASSUME NEW s
  PROVE  /\ GetField(s, SPP) = IF 8 \in s THEN {0} ELSE {}
         /\ GetField(s, SPIE) = IF 5 \in s THEN {0} ELSE {}
         /\ GetField(s, SIE) = IF 1 \in s THEN {0} ELSE {}
         /\ GetField(s, MPIE) = IF 7 \in s THEN {0} ELSE {}
         /\ GetField(s, MIE) = IF 3 \in s THEN {0} ELSE {}
         /\ GetField(s, MPP) = (IF 11 \in s THEN {0} ELSE {}) \cup (IF 12 \in s THEN {1} ELSE {})
<1>1. GetField(s, SPP) = IF 8 \in s THEN {0} ELSE {}
  BY OneBit, Fields
<1>2. GetField(s, SPIE) = IF 5 \in s THEN {0} ELSE {}
  BY OneBit, Fields
<1>3. GetField(s, SIE) = IF 1 \in s THEN {0} ELSE {}
  BY OneBit, Fields
<1>4. GetField(s, MPIE) = IF 7 \in s THEN {0} ELSE {}
  BY OneBit, Fields
<1>5. GetField(s, MIE) = IF 3 \in s THEN {0} ELSE {}
  BY OneBit, Fields
<1>6. GetField(s, MPP) = (IF 11 \in s THEN {0} ELSE {}) \cup (IF 12 \in s THEN {1} ELSE {})
  BY TwoBits, Fields
<1>. QED
  BY Zenon, <1>1, <1>2, <1>3, <1>4, <1>5, <1>6

LEMMA ContextKept ==
  ASSUME NEW m \in TrapModes, NEW g, NEW c, NEW w, Context(m, g, c), KeepsContext(m, c, w)
  PROVE  Context(m, g, w)
<1>1. /\ GetField(w[mstatus], TrapRegisters(m).previous)
           = GetField(c[mstatus], TrapRegisters(m).previous)
      /\ GetField(w[mstatus], TrapRegisters(m).before)
           = GetField(c[mstatus], TrapRegisters(m).before)
  <2>1. CASE m = Supervisor
    <3>1. (5 \in w[mstatus] <=> 5 \in c[mstatus]) /\ (8 \in w[mstatus] <=> 8 \in c[mstatus])
      BY Zenon, <2>1 DEF KeepsContext, ContextBits
    <3>2. GetField(w[mstatus], SPP) = GetField(c[mstatus], SPP)
      BY Zenon, <3>1, ContextFields
    <3>3. GetField(w[mstatus], SPIE) = GetField(c[mstatus], SPIE)
      BY Zenon, <3>1, ContextFields
    <3>. QED
      BY Zenon, <2>1, <3>2, <3>3, TrapRegistersAre
  <2>2. CASE m = Machine
    <3>1. /\ 7 \in w[mstatus] <=> 7 \in c[mstatus]
          /\ 11 \in w[mstatus] <=> 11 \in c[mstatus]
          /\ 12 \in w[mstatus] <=> 12 \in c[mstatus]
      BY Zenon, <2>2 DEF KeepsContext, ContextBits, Supervisor, Machine
    <3>2. GetField(w[mstatus], MPP) = GetField(c[mstatus], MPP)
      BY Zenon, <3>1, ContextFields
    <3>3. GetField(w[mstatus], MPIE) = GetField(c[mstatus], MPIE)
      BY Zenon, <3>1, ContextFields
    <3>. QED
      BY Zenon, <2>2, <3>2, <3>3, TrapRegistersAre
  <2>. QED
    BY Zenon, <2>1, <2>2 DEF TrapModes
<1>. QED
  BY Zenon, <1>1 DEF Context, KeepsContext

\* A write to another register keeps a context.
LEMMA WriteKeeps ==
  ASSUME NEW m \in TrapModes, NEW c \in Csrs, NEW reg, ShadowOf(reg) \in Stored, NEW v,
         reg # mstatus, reg # TrapRegisters(m).epc, reg # TrapRegisters(m).cause,
         m = Supervisor => reg # sstatus
  PROVE  KeepsContext(m, c, csr_write(c, reg, v))
<1>1. PICK w : w = csr_write(c, reg, v)
  BY Zenon
<1>2. PICK s \in Stored : s = ShadowOf(reg)
  BY Zenon
<1>3. \A r \in Stored : r # s => w[r] = c[r]
  BY <1>1, <1>2, WriteOne
<1>4. /\ mstatus \in Stored /\ TrapRegisters(m).epc \in Stored /\ TrapRegisters(m).cause \in Stored
      /\ TrapRegisters(m).epc \notin {mstatus, mip, mie}
      /\ TrapRegisters(m).cause \notin {mstatus, mip, mie}
  <2>1. \A r \in {mepc, sepc, mcause, scause} : r \in Stored /\ r \notin {mstatus, mip, mie}
    BY RegisterOrder DEF Stored
  <2>2. TrapRegisters(m).epc \in {mepc, sepc} /\ TrapRegisters(m).cause \in {mcause, scause}
    BY Zenon, TrapRegistersAre DEF TrapModes
  <2>. QED
    BY Zenon, <2>1, <2>2 DEF Stored
<1>5. s # TrapRegisters(m).epc /\ s # TrapRegisters(m).cause
  <2>1. s \in {reg, mstatus, mip, mie}
    BY Zenon, <1>2, Shadows
  <2>. QED
    BY Zenon, <1>4, <2>1
<1>6. w[TrapRegisters(m).epc] = c[TrapRegisters(m).epc]
      /\ w[TrapRegisters(m).cause] = c[TrapRegisters(m).cause]
  BY Zenon, <1>3, <1>4, <1>5
<1>7. CASE s # mstatus
  BY Zenon, <1>1, <1>3, <1>4, <1>6, <1>7 DEF KeepsContext
<1>8. CASE s = mstatus
  <2>1. mstatus # mip /\ mstatus # mie
    BY RegisterOrder
  <2>2. reg = sstatus
    BY Zenon, <1>2, <1>8, <2>1, Shadows
  <2>3. m = Machine /\ ContextBits(m) = {7, 11, 12}
    BY Zenon, <2>2 DEF TrapModes, ContextBits, Supervisor, Machine
  <2>4. ASSUME NEW b \in {7, 11, 12} PROVE b \in w[mstatus] <=> b \in c[mstatus]
    <3>1. b \in Bits64 /\ b \notin SSTATUS_FIELDS_MASK /\ b # 63 /\ b # 32 /\ b # 33
      BY SupervisorFields DEF Bits64
    <3>2. b \in csr_write(c, sstatus, v)[mstatus]
           <=> CASE b = 63 -> SomeDirty(v) [] b = 32 -> FALSE [] b = 33 -> TRUE
                 [] b \in SSTATUS_FIELDS_MASK \ {32, 33, 63} -> b \in v
                 [] OTHER -> b \in c[mstatus]
      BY Zenon, <3>1, SstatusWrite
    <3>. QED
      BY Zenon, <1>1, <2>2, <3>1, <3>2
  <2>. QED
    BY Zenon, <1>1, <1>6, <2>3, <2>4 DEF KeepsContext
<1>. QED
  BY Zenon, <1>7, <1>8

\* So does a status written with the same bits for it.
LEMMA StatusKeeps ==
  ASSUME NEW m \in TrapModes, NEW c \in Csrs, StatusLegal(c[mstatus]), NEW v,
         \A b \in ContextBits(m) : b \in v <=> b \in c[mstatus]
  PROVE  KeepsContext(m, c, csr_write(c, mstatus, v))
<1>1. PICK w : w = csr_write(c, mstatus, v)
  BY Zenon
<1>2. /\ ShadowOf(mstatus) = mstatus /\ mstatus \in Stored
      /\ \A r \in {mepc, sepc, mcause, scause} : r \in Stored /\ r # mstatus
  BY RegisterOrder DEF ShadowOf, Stored
<1>3. \A r \in Stored : r # mstatus => w[r] = c[r]
  BY <1>1, <1>2, WriteOne
<1>4. TrapRegisters(m).epc \in {mepc, sepc} /\ TrapRegisters(m).cause \in {mcause, scause}
  BY Zenon, TrapRegistersAre DEF TrapModes
<1>5. ASSUME NEW b \in ContextBits(m) PROVE b \in w[mstatus] <=> b \in c[mstatus]
  <2>1. b \in {5, 7, 8, 11, 12} /\ b \in Bits64 /\ b \notin StatusReserved
        /\ (b = 12 => 11 \in ContextBits(m))
    BY DEF ContextBits, Bits64, StatusReserved
  <2>2. b \in w[mstatus]
          <=> CASE b = 63 -> SomeDirty(v) [] b \in {32, 34} -> FALSE [] b \in {33, 35} -> TRUE
                [] b = 12 -> 11 \in v /\ 12 \in v [] b \in StatusReserved -> FALSE
                [] OTHER -> b \in v
    BY ZenonT(30), <1>1, <2>1, StatusWrite
  <2>3. CASE b = 12
    <3>1. (11 \in v <=> 11 \in c[mstatus]) /\ (12 \in v <=> 12 \in c[mstatus])
      BY Zenon, <2>1, <2>3
    <3>2. 12 \in c[mstatus] => 11 \in c[mstatus]
      BY Zenon DEF StatusLegal
    <3>. QED
      BY <2>1, <2>2, <2>3, <3>1, <3>2
  <2>4. CASE b # 12
    BY <2>1, <2>2, <2>4
  <2>. QED
    BY Zenon, <2>3, <2>4
<1>. QED
  BY Zenon, <1>1, <1>2, <1>3, <1>4, <1>5 DEF KeepsContext

(***************************************************************************)
(* Traps.                                                                  *)
(***************************************************************************)
Addresses == 0 .. (AddressSpan - 1)
Harts == [pc : Addresses, mode : Modes, csr : Csrs]

\* The traps the hart takes.
LegalTrap(trap) ==
  \/ trap.kind = "interrupt" /\ trap.code \in Interrupts
  \/ trap.kind = "exception" /\ trap.code \in (0 .. 9) \cup {11, 12, 13, 15}

LEMMA LegalCause ==
  ASSUME NEW trap, LegalTrap(trap)
  PROVE  xcause(trap) \in MCauses /\ xcause(trap) \in SUBSET Bits64 /\ trap.code \in Nat
<1>1. CASE trap.kind = "interrupt"
  <2>1. trap.code \in {1, 3, 5, 7, 9, 11}
    BY Zenon, <1>1 DEF LegalTrap, Interrupts, SUPERVISOR_BIT_MASK, MACHINE_BIT_MASK
  <2>2. xcause(trap) = ToBits(trap.code) \cup {63}
    BY Zenon, <1>1 DEF xcause, InterruptBit
  <2>3. xcause(trap) \in MCauses
    BY ZenonT(30), <2>1, <2>2 DEF MCauses, InterruptBit
  <2>. QED
    BY <2>1, <2>2, <2>3, ZeroBits DEF Bits64
<1>2. CASE trap.kind # "interrupt"
  <2>1. trap.code \in (0 .. 9) \cup {11, 12, 13, 15}
    BY Zenon, <1>2 DEF LegalTrap
  <2>2. xcause(trap) = ToBits(trap.code)
    BY Zenon, <1>2 DEF xcause
  <2>3. xcause(trap) \in MCauses
    BY Zenon, <2>1, <2>2 DEF MCauses
  <2>. QED
    BY <2>1, <2>2, <2>3, ZeroBits DEF Bits64
<1>. QED
  BY Zenon, <1>1, <1>2

\* A program counter is stored even.
LEMMA EpcWrite ==
  ASSUME NEW c \in Csrs, NEW r \in {mepc, sepc}, NEW v \in SUBSET Bits64
  PROVE  csr_write(c, r, v)[r] = v \ {0}
<1>1. r \in Stored /\ ShadowOf(r) = r /\ ShadowMask(r) = Bits64
  BY RegisterOrder DEF ShadowOf, ShadowMask, Stored
<1>2. Reserved(r) = {} /\ legal_values(r) = {}
  BY RegisterOrder DEF Reserved, legal_values
<1>3. \A u : transform_warl_fields(r, u) = {u \ {0}}
  BY RegisterOrder DEF transform_warl_fields
<1>4. v \ {} = v
  BY Zenon
<1>5. make_value_writable(r, v) = {v \ {0}}
  BY Zenon, <1>2, <1>3, <1>4 DEF make_value_writable, clear_wpri_fields, is_legal
<1>6. PICK x \in make_value_writable(r, v) :
        csr_write(c, r, v)[ShadowOf(r)] = (x \cap ShadowMask(r)) \cup (c[ShadowOf(r)] \ ShadowMask(r))
  <2>1. make_value_writable(r, v) # {} /\ ShadowOf(r) \in Stored
    BY Zenon, <1>1, <1>5
  <2>. QED
    BY ZenonT(30), <2>1, WriteOne
<1>7. c[r] \ Bits64 = {}
  BY Zenon, <1>1 DEF Csrs
<1>. QED
  BY Zenon, <1>1, <1>5, <1>6, <1>7

\* A cause is stored when the register takes it.
LEMMA CauseWrite ==
  ASSUME NEW c \in Csrs, NEW r \in {mcause, scause}, NEW v \in SUBSET Bits64, v \in legal_values(r)
  PROVE  csr_write(c, r, v)[r] = v
<1>1. r \in Stored /\ ShadowOf(r) = r /\ ShadowMask(r) = Bits64
  BY RegisterOrder DEF ShadowOf, ShadowMask, Stored
<1>2. Reserved(r) = {}
  BY RegisterOrder DEF Reserved
<1>3. \A u : transform_warl_fields(r, u) = {u}
  BY RegisterOrder DEF transform_warl_fields
<1>4. v \ {} = v
  BY Zenon
<1>5. make_value_writable(r, v) = {v}
  BY Zenon, <1>2, <1>3, <1>4 DEF make_value_writable, clear_wpri_fields, is_legal
<1>6. PICK x \in make_value_writable(r, v) :
        csr_write(c, r, v)[ShadowOf(r)] = (x \cap ShadowMask(r)) \cup (c[ShadowOf(r)] \ ShadowMask(r))
  <2>1. make_value_writable(r, v) # {} /\ ShadowOf(r) \in Stored
    BY Zenon, <1>1, <1>5
  <2>. QED
    BY Zenon, <2>1, WriteOne
<1>7. c[r] \ Bits64 = {}
  BY Zenon, <1>1 DEF Csrs
<1>. QED
  BY Zenon, <1>1, <1>5, <1>6, <1>7

\* What is written into the status on a trap.
LEMMA OnTrapBits ==
  ASSUME NEW s, NEW mode, NEW b \in Int
  PROVE  /\ b \in StatusOnTrap(s, TrapRegisters(Supervisor), mode)
              <=> CASE b = 5 -> 1 \in s [] b = 1 -> FALSE [] b = 8 -> 0 \in ModeBits(mode)
                    [] OTHER -> b \in s
         /\ b \in StatusOnTrap(s, TrapRegisters(Machine), mode)
              <=> CASE b = 7 -> 3 \in s [] b = 3 -> FALSE [] b = 11 -> 0 \in ModeBits(mode)
                    [] b = 12 -> 1 \in ModeBits(mode) [] OTHER -> b \in s
<1>1. PICK e : e = GetField(s, SIE)
  BY Zenon
<1>2. 0 \in e <=> 1 \in s
  BY <1>1, GetFieldBits, Fields
<1>3. StatusOnTrap(s, TrapRegisters(Supervisor), mode)
        = SetField(SetField(SetField(s, SPIE, e), SIE, {}), SPP, ModeBits(mode))
  BY Zenon, <1>1, TrapRegistersAre DEF StatusOnTrap
<1>4. b \in SetField(s, SPIE, e) <=> IF b = 5 THEN 0 \in e ELSE b \in s
  BY SetFieldBits, Fields
<1>5. b \in SetField(SetField(s, SPIE, e), SIE, {}) <=> IF b = 1 THEN FALSE ELSE b \in SetField(s, SPIE, e)
  BY SetFieldBits, Fields
<1>6. b \in SetField(SetField(SetField(s, SPIE, e), SIE, {}), SPP, ModeBits(mode))
        <=> IF b = 8 THEN 0 \in ModeBits(mode) ELSE b \in SetField(SetField(s, SPIE, e), SIE, {})
  BY SetFieldBits, Fields
<1>7. PICK n : n = GetField(s, MIE)
  BY Zenon
<1>8. 0 \in n <=> 3 \in s
  BY <1>7, GetFieldBits, Fields
<1>9. StatusOnTrap(s, TrapRegisters(Machine), mode)
        = SetField(SetField(SetField(s, MPIE, n), MIE, {}), MPP, ModeBits(mode))
  BY Zenon, <1>7, TrapRegistersAre DEF StatusOnTrap
<1>10. b \in SetField(s, MPIE, n) <=> IF b = 7 THEN 0 \in n ELSE b \in s
  BY SetFieldBits, Fields
<1>11. b \in SetField(SetField(s, MPIE, n), MIE, {}) <=> IF b = 3 THEN FALSE ELSE b \in SetField(s, MPIE, n)
  BY SetFieldBits, Fields
<1>12. b \in SetField(SetField(SetField(s, MPIE, n), MIE, {}), MPP, ModeBits(mode))
         <=> CASE b = 11 -> 0 \in ModeBits(mode) [] b = 12 -> 1 \in ModeBits(mode)
               [] OTHER -> b \in SetField(SetField(s, MPIE, n), MIE, {})
  BY SetFieldBits, Fields
<1>13. b \in StatusOnTrap(s, TrapRegisters(Supervisor), mode)
         <=> CASE b = 5 -> 1 \in s [] b = 1 -> FALSE [] b = 8 -> 0 \in ModeBits(mode)
               [] OTHER -> b \in s
  BY <1>2, <1>3, <1>4, <1>5, <1>6
<1>14. b \in StatusOnTrap(s, TrapRegisters(Machine), mode)
         <=> CASE b = 7 -> 3 \in s [] b = 3 -> FALSE [] b = 11 -> 0 \in ModeBits(mode)
               [] b = 12 -> 1 \in ModeBits(mode) [] OTHER -> b \in s
  BY <1>8, <1>9, <1>10, <1>11, <1>12
<1>. QED
  BY Zenon, <1>13, <1>14

\* The registers after a trap to mode m: legal; the handler finds what was
\* interrupted; the context of the other mode is still there; and a trap to the
\* supervisor leaves what the machine owns.
LEMMA TrapWritten ==
  ASSUME NEW c, CsrLegal(c), NEW m \in TrapModes, NEW mode \in Modes, mode <= m,
         NEW trap, LegalTrap(trap), NEW pc, NEW w, NEW g,
         w = WithStatus(TrapWrites(c, TrapRegisters(m), trap, pc), TrapRegisters(m), mode),
         g.mode = mode, g.pc = pc, g.cause = xcause(trap),
         g.enabled = GetField(c[mstatus], TrapRegisters(m).enabled)
  PROVE  /\ CsrLegal(w)
         /\ Context(m, g, w)
         /\ \A o \in TrapModes : o # m => KeepsContext(o, c, w)
         /\ m = Supervisor => Confined(c, w)
<1>. DEFINE E == TrapRegisters(m).epc
            K == TrapRegisters(m).cause
            T == TrapRegisters(m).tval
<1>1. PICK c1 : c1 = csr_write(c, E, ToBits(pc))
  BY Zenon
<1>2. PICK c2 : c2 = csr_write(c1, K, xcause(trap))
  BY Zenon
<1>3. PICK c3 : c3 = csr_write(c2, T, ToBits(trap.tval))
  BY Zenon
<1>4. PICK v : v = StatusOnTrap(csr_read(c3, mstatus), TrapRegisters(m), mode)
  BY Zenon
<1>5. w = csr_write(c3, mstatus, v)
  BY Zenon, <1>1, <1>2, <1>3, <1>4 DEF WithStatus, TrapWrites
<1>6. /\ E \in {mepc, sepc} /\ K \in {mcause, scause} /\ T \in {mtval, stval}
      /\ m = Supervisor => E = sepc /\ K = scause /\ T = stval
      /\ m = Machine => E = mepc /\ K = mcause /\ T = mtval
      /\ Supervisor # Machine
  BY TrapRegistersAre DEF TrapModes, Supervisor, Machine
<1>. HIDE DEF E, K, T
<1>7. /\ ShadowOf(E) = E /\ ShadowOf(K) = K /\ ShadowOf(T) = T /\ ShadowOf(mstatus) = mstatus
      /\ E \in Stored /\ K \in Stored /\ T \in Stored /\ mstatus \in Stored
      /\ E # K /\ E # T /\ K # T /\ E # mstatus /\ K # mstatus /\ T # mstatus
  <2>1. ASSUME NEW r \in {mepc, sepc, mcause, scause, mtval, stval, mstatus}
        PROVE  r \in Stored /\ ShadowOf(r) = r
    BY RegisterOrder DEF ShadowOf, Stored
  <2>2. E # K /\ E # T /\ K # T /\ E # mstatus /\ K # mstatus /\ T # mstatus
    BY <1>6, RegisterOrder
  <2>. QED
    BY Zenon, <1>6, <2>1, <2>2
<1>8. ToBits(pc) \in SUBSET Bits64 /\ ToBits(trap.tval) \in SUBSET Bits64
  BY ZeroBits DEF Bits64
<1>9. xcause(trap) \in SUBSET Bits64 /\ xcause(trap) \in MCauses
  BY Zenon, LegalCause
<1>10. CsrLegal(c1)
  BY Zenon, <1>1, <1>7, <1>8, LegalWrite
<1>11. CsrLegal(c2)
  BY ZenonT(30), <1>2, <1>7, <1>9, <1>10, LegalWrite
<1>12. CsrLegal(c3)
  BY Zenon, <1>3, <1>7, <1>8, <1>11, LegalWrite
<1>13. c \in Csrs /\ c1 \in Csrs /\ c2 \in Csrs /\ c3 \in Csrs
  BY Zenon, <1>10, <1>11, <1>12 DEF CsrLegal
<1>14. \A r \in Stored : r # E => c1[r] = c[r]
  BY SMTT(30), <1>1, <1>7, <1>13, WriteOne
<1>15. \A r \in Stored : r # K => c2[r] = c1[r]
  BY SMTT(30), <1>2, <1>7, <1>13, WriteOne
<1>16. \A r \in Stored : r # T => c3[r] = c2[r]
  BY SMTT(30), <1>3, <1>7, <1>13, WriteOne
<1>17. w \in Csrs /\ \A r \in Stored : r # mstatus => w[r] = c3[r]
  BY <1>5, <1>7, <1>13, WriteOne
<1>18. PICK s : s = c[mstatus]
  BY Zenon
<1>19. csr_read(c3, mstatus) = s /\ c3[mstatus] = s /\ StatusLegal(s)
  <2>1. c3[mstatus] = s
    BY Zenon, <1>7, <1>14, <1>15, <1>16, <1>18
  <2>2. ShadowMask(mstatus) = Bits64
    BY RegisterOrder DEF ShadowMask
  <2>3. s \in SUBSET Bits64
    BY Zenon, <1>7, <1>13, <1>18 DEF Csrs
  <2>4. csr_read(c3, mstatus) = s
    BY Zenon, <1>7, <2>1, <2>2, <2>3 DEF csr_read
  <2>5. StatusLegal(s)
    BY Zenon, <1>7, <1>18 DEF CsrLegal, LegalValue
  <2>. QED
    BY Zenon, <2>1, <2>4, <2>5
<1>20. CsrLegal(w)
  <2>1. StatusLegal(w[mstatus])
    BY Zenon, <1>5, <1>13, LegalStatusWrite
  <2>2. \A r \in Stored : LegalValue(r, c3[r])
    BY ZenonT(30), <1>12 DEF CsrLegal
  <2>3. LegalValue(mstatus, w[mstatus])
    BY <2>1, RegisterOrder DEF LegalValue
  <2>4. ASSUME NEW r \in Stored PROVE LegalValue(r, w[r])
    <3>1. CASE r = mstatus
      BY Zenon, <2>3, <3>1
    <3>2. CASE r # mstatus
      <4>1. w[r] = c3[r]
        BY Zenon, <1>17, <3>2
      <4>. QED
        BY Zenon, <2>2, <4>1
    <3>. QED
      BY Zenon, <3>1, <3>2
  <2>. QED
    BY Zenon, <1>17, <2>4 DEF CsrLegal
<1>21. w[E] = ToBits(pc) \ {0}
  <2>1. c1[E] = ToBits(pc) \ {0}
    BY <1>1, <1>6, <1>8, <1>13, EpcWrite
  <2>. QED
    BY ZenonT(30), <1>7, <1>15, <1>16, <1>17, <2>1
<1>22. w[K] = xcause(trap) \/ (K = scause /\ xcause(trap) \notin SCauses)
  <2>1. w[K] = c2[K]
    BY Zenon, <1>7, <1>16, <1>17
  <2>2. legal_values(mcause) = MCauses /\ legal_values(scause) = SCauses
    BY RegisterOrder DEF legal_values
  <2>3. CASE K = mcause \/ xcause(trap) \in SCauses
    <3>1. xcause(trap) \in legal_values(K)
      BY Zenon, <1>6, <1>9, <2>2, <2>3
    <3>2. csr_write(c1, K, xcause(trap))[K] = xcause(trap)
      BY Zenon, <1>6, <1>9, <1>13, <3>1, CauseWrite
    <3>. QED
      BY Zenon, <1>2, <2>1, <3>2
  <2>. QED
    BY Zenon, <1>6, <2>3
<1>23. \A b \in Bits64 : b \in w[mstatus]
         <=> CASE b = 63 -> SomeDirty(v) [] b \in {32, 34} -> FALSE [] b \in {33, 35} -> TRUE
               [] b = 12 -> 11 \in v /\ 12 \in v [] b \in StatusReserved -> FALSE
               [] OTHER -> b \in v
  BY ZenonT(30), <1>5, <1>13, StatusWrite
<1>24. \A b \in {5, 7, 8, 11} : b \in w[mstatus] <=> b \in v
  BY <1>23 DEF Bits64, StatusReserved
<1>25. 12 \in w[mstatus] <=> 11 \in v /\ 12 \in v
  BY <1>23 DEF Bits64, StatusReserved
<1>26. CASE m = Supervisor
  <2>1. \A b \in Int : b \in v
          <=> CASE b = 5 -> 1 \in s [] b = 1 -> FALSE [] b = 8 -> 0 \in ModeBits(mode)
                [] OTHER -> b \in s
    BY Zenon, <1>4, <1>19, <1>26, OnTrapBits
  <2>2. GetField(w[mstatus], SPP) = ModeBits(mode)
    <3>1. 8 \in w[mstatus] <=> 0 \in ModeBits(mode)
      BY <1>24, <2>1
    <3>2. ModeBits(mode) = {} \/ ModeBits(mode) = {0}
      BY <1>26 DEF ModeBits, Modes, User, Supervisor, Machine
    <3>3. GetField(w[mstatus], SPP) = IF 8 \in w[mstatus] THEN {0} ELSE {}
      BY Zenon, ContextFields
    <3>. QED
      BY Zenon, <3>1, <3>2, <3>3
  <2>3. GetField(w[mstatus], SPIE) = GetField(s, SIE)
    <3>1. 5 \in w[mstatus] <=> 1 \in s
      BY <1>24, <2>1
    <3>. QED
      BY ZenonT(30), <3>1, ContextFields
  <2>4. Context(m, g, w)
    BY Zenon, <1>18, <1>21, <1>22, <1>26, <2>2, <2>3, TrapRegistersAre DEF Context, E, K
  <2>5. KeepsContext(Machine, c3, w)
    <3>1. \A b \in ContextBits(Machine) : b \in v <=> b \in c3[mstatus]
      BY SMTT(30), <1>6, <1>19, <2>1 DEF ContextBits
    <3>. QED
      BY Zenon, <1>5, <1>13, <1>19, <3>1, StatusKeeps DEF TrapModes
  <2>6. KeepsContext(Machine, c, w)
    <3>1. mepc \in Stored /\ mcause \in Stored /\ mepc \notin {sepc, scause, stval}
          /\ mcause \notin {sepc, scause, stval}
      BY SMTT(30), RegisterOrder DEF Stored
    <3>2. c3[mepc] = c[mepc] /\ c3[mcause] = c[mcause]
      BY Zenon, <1>6, <1>14, <1>15, <1>16, <1>26, <3>1
    <3>. QED
      BY Zenon, <1>18, <1>19, <2>5, <3>2, TrapRegistersAre DEF KeepsContext
  <2>7. Confined(c, w)
    <3>1. privilege(sepc) = 1 /\ privilege(scause) = 1 /\ privilege(stval) = 1
      BY StoredPrivilege, RegisterOrder DEF Stored
    <3>2. privilege(E) <= 1 /\ privilege(K) <= 1 /\ privilege(T) <= 1
      BY <1>6, <1>26, <3>1
    <3>3. Confined(c, c1)
      BY Zenon, <1>1, <1>7, <1>13, <3>2, ConfinedWrite
    <3>4. Confined(c1, c2)
      BY Zenon, <1>2, <1>7, <1>13, <3>2, ConfinedWrite
    <3>5. Confined(c2, c3)
      BY Zenon, <1>3, <1>7, <1>13, <3>2, ConfinedWrite
    <3>6. \A b \in Bits64 \ {1, 5, 8, 17} : b \in v <=> b \in c3[mstatus]
      BY <1>19, <2>1 DEF Bits64
    <3>7. Confined(c3, w)
      BY Zenon, <1>5, <1>13, <1>19, <3>6, ConfinedStatus
    <3>. QED
      BY ZenonT(30), <3>3, <3>4, <3>5, <3>7, ConfinedTrans
  <2>. QED
    BY Zenon, <1>20, <1>26, <2>4, <2>6, <2>7 DEF TrapModes
<1>27. CASE m = Machine
  <2>1. \A b \in Int : b \in v
          <=> CASE b = 7 -> 3 \in s [] b = 3 -> FALSE [] b = 11 -> 0 \in ModeBits(mode)
                [] b = 12 -> 1 \in ModeBits(mode) [] OTHER -> b \in s
    BY Zenon, <1>4, <1>19, <1>27, OnTrapBits
  <2>2. GetField(w[mstatus], MPP) = ModeBits(mode)
    <3>1. (11 \in v <=> 0 \in ModeBits(mode)) /\ (12 \in v <=> 1 \in ModeBits(mode))
      BY <2>1
    <3>2. ModeBits(mode) \in {{}, {0}, {0, 1}}
      BY Zenon DEF ModeBits, Modes, User, Supervisor, Machine
    <3>3. GetField(w[mstatus], MPP)
            = (IF 11 \in w[mstatus] THEN {0} ELSE {}) \cup (IF 12 \in w[mstatus] THEN {1} ELSE {})
      BY Zenon, ContextFields
    <3>4. 11 \in w[mstatus] <=> 11 \in v
      BY Zenon, <1>24
    <3>. QED
      BY Zenon, <1>25, <3>1, <3>2, <3>3, <3>4
  <2>3. GetField(w[mstatus], MPIE) = GetField(s, MIE)
    <3>1. 7 \in w[mstatus] <=> 3 \in s
      BY <1>24, <2>1
    <3>. QED
      BY ZenonT(30), <3>1, ContextFields
  <2>4. Context(m, g, w)
    BY Zenon, <1>18, <1>21, <1>22, <1>27, <2>2, <2>3, TrapRegistersAre DEF Context, E, K
  <2>5. KeepsContext(Supervisor, c3, w)
    <3>1. \A b \in ContextBits(Supervisor) : b \in v <=> b \in c3[mstatus]
      BY SMTT(30), <1>19, <2>1 DEF ContextBits
    <3>. QED
      BY Zenon, <1>5, <1>13, <1>19, <3>1, StatusKeeps DEF TrapModes
  <2>6. KeepsContext(Supervisor, c, w)
    <3>1. sepc \in Stored /\ scause \in Stored /\ sepc \notin {mepc, mcause, mtval}
          /\ scause \notin {mepc, mcause, mtval}
      BY SMTT(30), RegisterOrder DEF Stored
    <3>2. c3[sepc] = c[sepc] /\ c3[scause] = c[scause]
      BY ZenonT(30), <1>6, <1>14, <1>15, <1>16, <1>27, <3>1
    <3>. QED
      BY ZenonT(30), <1>18, <1>19, <2>5, <3>2, TrapRegistersAre DEF KeepsContext
  <2>. QED
    BY Zenon, <1>6, <1>20, <1>27, <2>4, <2>6 DEF TrapModes
<1>. QED
  BY Zenon, <1>26, <1>27 DEF TrapModes

HartOK(h) == h \in Harts /\ CsrLegal(h.csr)

\* The contexts of both modes are intact.
SavedOK(saved, c) ==
  /\ saved = [m \in TrapModes |-> saved[m]]
  /\ \A m \in TrapModes : Context(m, saved[m], c)

\* A trap never goes to a less privileged mode.
LEMMA TrapTaken ==
  ASSUME NEW h, HartOK(h), NEW trap, LegalTrap(trap), NEW pc, NEW t,
         t = take_trap_from_mode(h, trap, pc)
  PROVE  /\ HartOK(t.hart) /\ t.hart.mode \in TrapModes /\ t.pc \in Addresses
         /\ Context(t.hart.mode, t.ghost, t.hart.csr)
         /\ \A o \in TrapModes : o # t.hart.mode => KeepsContext(o, h.csr, t.hart.csr)
         /\ t.hart.mode = Supervisor => Confined(h.csr, t.hart.csr)
<1>1. PICK m : m = get_trap_mode(h.csr, trap.kind, trap.code, h.mode)
  BY Zenon
<1>2. h \in Harts /\ CsrLegal(h.csr) /\ h.mode \in Modes
  BY Zenon DEF HartOK, Harts
<1>3. m \in TrapModes /\ h.mode <= m /\ m \in Modes
  BY <1>1, <1>2 DEF get_trap_mode, TrapModes, Modes, User, Supervisor, Machine
<1>4. PICK w : w = WithStatus(TrapWrites(h.csr, TrapRegisters(m), trap, pc), TrapRegisters(m), h.mode)
  BY Zenon
<1>5. PICK g : g = [saved |-> TRUE, mode |-> h.mode, pc |-> pc,
                    enabled |-> GetField(h.csr[mstatus], TrapRegisters(m).enabled),
                    cause |-> xcause(trap)]
  BY Zenon
<1>6. PICK a : a = trap_handler_address(trap.kind, trap.code, h.csr[TrapRegisters(m).tvec])
  BY Zenon
<1>7. t = [hart |-> [h EXCEPT !.csr = w, !.mode = m], pc |-> a, ghost |-> g]
  BY Zenon, <1>1, <1>4, <1>5, <1>6 DEF take_trap_from_mode, TakeTrapIn, EnterHandler
<1>8. /\ CsrLegal(w)
      /\ Context(m, g, w)
      /\ \A o \in TrapModes : o # m => KeepsContext(o, h.csr, w)
      /\ m = Supervisor => Confined(h.csr, w)
  <2>1. /\ g.mode = h.mode /\ g.pc = pc /\ g.cause = xcause(trap)
        /\ g.enabled = GetField(h.csr[mstatus], TrapRegisters(m).enabled)
    BY Zenon, <1>5
  <2>. QED
    BY Zenon, <1>2, <1>3, <1>4, <2>1, TrapWritten
<1>9. a \in Addresses
  <2>1. PICK n \in Nat : n = ToNat(h.csr[TrapRegisters(m).tvec] \ {0, 1})
    BY Zenon, NatOfBits
  <2>2. trap.code \in Nat
    BY Zenon, LegalCause
  <2>3. \E k \in Nat : a = k % AddressSpan
    <3>1. a = n % AddressSpan \/ a = (n + 4 * trap.code) % AddressSpan
      BY <1>6, <2>1, <2>2, NatOfBits DEF trap_handler_address
    <3>. QED
      BY <2>2, <3>1
  <2>. QED
    BY <2>3, NatOfBits DEF Addresses
<1>10. PICK k : k = [h EXCEPT !.csr = w, !.mode = m]
  BY Zenon
<1>11. k \in Harts /\ k.csr = w /\ k.mode = m
  <2>1. w \in Csrs
    BY Zenon, <1>8 DEF CsrLegal
  <2>. QED
    BY Zenon, <1>2, <1>3, <1>10, <2>1 DEF Harts
<1>12. t.hart = k /\ t.pc = a /\ t.ghost = g
  BY <1>7, <1>10
<1>. QED
  BY Zenon, <1>3, <1>8, <1>9, <1>11, <1>12 DEF HartOK

LEMMA TrapSaved ==
  ASSUME NEW h, HartOK(h), NEW trap, LegalTrap(trap), NEW pc, NEW t,
         t = take_trap_from_mode(h, trap, pc), NEW saved, SavedOK(saved, h.csr)
  PROVE  SavedOK(SaveTrap(saved, t), t.hart.csr)
<1>1. PICK m, g, w : m = t.hart.mode /\ g = t.ghost /\ w = t.hart.csr
  BY Zenon
<1>2. /\ m \in TrapModes /\ Context(m, g, w)
      /\ \A o \in TrapModes : o # m => KeepsContext(o, h.csr, w)
  BY Zenon, <1>1, TrapTaken
<1>3. PICK f : f = SaveTrap(saved, t)
  BY Zenon
<1>4. /\ f = [o \in TrapModes |-> f[o]] /\ f[m] = g
      /\ \A o \in TrapModes : o # m => f[o] = saved[o]
  BY Zenon, <1>1, <1>2, <1>3 DEF SaveTrap, SavedOK
<1>5. ASSUME NEW o \in TrapModes PROVE Context(o, f[o], w)
  <2>1. CASE o = m
    BY Zenon, <1>2, <1>4, <2>1
  <2>2. CASE o # m
    <3>1. Context(o, saved[o], h.csr) /\ KeepsContext(o, h.csr, w)
      BY Zenon, <1>2, <2>2 DEF SavedOK
    <3>2. Context(o, saved[o], w)
      BY Zenon, <3>1, ContextKept
    <3>. QED
      BY Zenon, <1>4, <2>2, <3>2
  <2>. QED
    BY Zenon, <2>1, <2>2
<1>. QED
  BY Zenon, <1>1, <1>3, <1>4, <1>5 DEF SavedOK

(***************************************************************************)
(* Instructions.                                                           *)
(***************************************************************************)
LEMMA LegalStatus ==
  ASSUME NEW c, CsrLegal(c), NEW v
  PROVE  CsrLegal(csr_write(c, mstatus, v))
<1>1. PICK w : w = csr_write(c, mstatus, v)
  BY Zenon
<1>2. c \in Csrs /\ \A r \in Stored : LegalValue(r, c[r])
  BY Zenon DEF CsrLegal
<1>3. ShadowOf(mstatus) = mstatus /\ mstatus \in Stored
  BY RegisterOrder DEF ShadowOf, Stored
<1>4. w \in Csrs /\ \A r \in Stored : r # mstatus => w[r] = c[r]
  BY <1>1, <1>2, <1>3, WriteOne
<1>5. StatusLegal(w[mstatus])
  BY Zenon, <1>1, <1>2, LegalStatusWrite
<1>6. LegalValue(mstatus, w[mstatus])
  BY <1>5, RegisterOrder DEF LegalValue
<1>7. ASSUME NEW r \in Stored PROVE LegalValue(r, w[r])
  <2>1. CASE r = mstatus
    BY Zenon, <1>6, <2>1
  <2>2. CASE r # mstatus
    BY Zenon, <1>2, <1>4, <2>2
  <2>. QED
    BY Zenon, <2>1, <2>2
<1>. QED
  BY Zenon, <1>1, <1>4, <1>7 DEF CsrLegal

\* What a return leaves of the status.
LEMMA OnReturnBits ==
  ASSUME NEW s, NEW b \in Int
  PROVE  /\ b \notin {1, 5, 8} => (b \in StatusOnReturn(s, TrapRegisters(Supervisor)) <=> b \in s)
         /\ b \notin {3, 7, 11, 12} => (b \in StatusOnReturn(s, TrapRegisters(Machine)) <=> b \in s)
<1>1. PICK e : e = GetField(s, SPIE)
  BY Zenon
<1>2. StatusOnReturn(s, TrapRegisters(Supervisor))
        = SetField(SetField(SetField(s, SIE, e), SPIE, {0}), SPP, {})
  BY Zenon, <1>1, TrapRegistersAre DEF StatusOnReturn
<1>3. b # 1 => (b \in SetField(s, SIE, e) <=> b \in s)
  BY SetFieldBits, Fields
<1>4. b # 5 => (b \in SetField(SetField(s, SIE, e), SPIE, {0}) <=> b \in SetField(s, SIE, e))
  BY SetFieldBits, Fields
<1>5. b # 8 => (b \in SetField(SetField(SetField(s, SIE, e), SPIE, {0}), SPP, {})
                 <=> b \in SetField(SetField(s, SIE, e), SPIE, {0}))
  BY SetFieldBits, Fields
<1>6. PICK n : n = GetField(s, MPIE)
  BY Zenon
<1>7. StatusOnReturn(s, TrapRegisters(Machine))
        = SetField(SetField(SetField(s, MIE, n), MPIE, {0}), MPP, {})
  BY Zenon, <1>6, TrapRegistersAre DEF StatusOnReturn
<1>8. b # 3 => (b \in SetField(s, MIE, n) <=> b \in s)
  BY SetFieldBits, Fields
<1>9. b # 7 => (b \in SetField(SetField(s, MIE, n), MPIE, {0}) <=> b \in SetField(s, MIE, n))
  BY SetFieldBits, Fields
<1>10. b \notin {11, 12} =>
         (b \in SetField(SetField(SetField(s, MIE, n), MPIE, {0}), MPP, {})
            <=> b \in SetField(SetField(s, MIE, n), MPIE, {0}))
  BY SetFieldBits, Fields
<1>. QED
  BY Zenon, <1>2, <1>3, <1>4, <1>5, <1>7, <1>8, <1>9, <1>10

\* The instructions of a guest.
Decoded(i) ==
  /\ i.op \in RvOperations
  /\ i.op \in CsrOps => ShadowOf(i.csr) \in Stored /\ i.value \subseteq Bits64
  /\ i.op = "jal" => i.imm \in Int

\* An instruction that completes: the hart stays legal and the contexts that
\* are not given up intact; below machine mode it changes nothing the machine
\* owns.
Completes(h, i, at, saved, r) ==
  /\ r.ok = TRUE /\ HartOK(r.hart) /\ r.pc \in Addresses
  /\ SavedOK(Kept(saved, i, h, at), r.hart.csr)
  /\ h.mode # Machine => Confined(h.csr, r.hart.csr)

\* An instruction that raises an exception changes nothing.
Raises(h, r) == r.ok = FALSE /\ r.hart = h /\ LegalTrap(r.trap)

LEMMA KeptContexts ==
  ASSUME NEW saved, NEW i, NEW h, NEW at, NEW w, InMemory(at, 4), SavedOK(saved, h.csr),
         \A m \in TrapModes : GivesUp(i, h, m) \/ KeepsContext(m, h.csr, w)
  PROVE  SavedOK(Kept(saved, i, h, at), w)
<1>1. PICK f : f = Kept(saved, i, h, at)
  BY Zenon
<1>2. /\ f = [m \in TrapModes |-> f[m]]
      /\ \A m \in TrapModes : f[m] = IF InMemory(at, 4) /\ GivesUp(i, h, m) THEN NotSaved ELSE saved[m]
  BY Zenon, <1>1 DEF Kept
<1>3. ASSUME NEW m \in TrapModes PROVE Context(m, f[m], w)
  <2>1. CASE GivesUp(i, h, m)
    <3>1. f[m] = NotSaved
      BY Zenon, <1>2, <2>1
    <3>2. f[m].saved = FALSE
      BY <3>1 DEF NotSaved
    <3>. QED
      BY Zenon, <3>2 DEF Context
  <2>2. CASE ~GivesUp(i, h, m)
    <3>1. f[m] = saved[m]
      BY Zenon, <1>2, <2>2
    <3>2. Context(m, saved[m], h.csr) /\ KeepsContext(m, h.csr, w)
      BY Zenon, <2>2 DEF SavedOK
    <3>3. Context(m, saved[m], w)
      BY Zenon, <3>2, ContextKept
    <3>. QED
      BY Zenon, <3>1, <3>3
  <2>. QED
    BY Zenon, <2>1, <2>2
<1>. QED
  BY Zenon, <1>1, <1>2, <1>3 DEF SavedOK

LEMMA SameContexts == \A m, c : KeepsContext(m, c, c)
  BY Zenon DEF KeepsContext

\* An instruction that leaves the registers.
LEMMA Leaves ==
  ASSUME NEW h, HartOK(h), NEW i, NEW at \in Addresses, NEW saved, SavedOK(saved, h.csr),
         InMemory(at, 4), NEW pc \in Int, NEW r,
         r = Jump(h, pc)
  PROVE  Completes(h, i, at, saved, r)
<1>1. r.ok = TRUE /\ r.hart = h /\ r.pc = pc % AddressSpan
  BY Zenon DEF Jump
<1>2. r.pc \in Addresses
  BY <1>1, NatOfBits DEF Addresses
<1>3. SavedOK(Kept(saved, i, h, at), h.csr)
  BY Zenon, KeptContexts, SameContexts
<1>4. Confined(h.csr, h.csr)
  BY Zenon, ConfinedRefl
<1>. QED
  BY Zenon, <1>1, <1>2, <1>3, <1>4 DEF Completes

LEMMA CsrInstruction ==
  ASSUME NEW h, HartOK(h), NEW i, Decoded(i), i.op \in CsrOps, NEW at \in Addresses,
         NEW saved, SavedOK(saved, h.csr), InMemory(at, 4), NEW r, r = run_csr(h, i, at)
  PROVE  Completes(h, i, at, saved, r) \/ Raises(h, r)
<1>1. CASE ~check_privilege(i.csr, h.mode) \/ (~ReadsOnly(i) /\ ~check_write(i.csr))
  <2>1. r = Raise(h, IllegalInstruction)
    BY Zenon, <1>1 DEF run_csr
  <2>. QED
    BY <2>1 DEF Raises, Raise, IllegalInstruction, Trap, LegalTrap
<1>2. CASE ~(~check_privilege(i.csr, h.mode) \/ (~ReadsOnly(i) /\ ~check_write(i.csr)))
  <2>1. PICK reg, op, c : reg = i.csr /\ op = CsrOperand(i) /\ c = h.csr
    BY Zenon
  <2>2. PICK w : w = CsrAccess(c, i, op)
    BY Zenon
  <2>3. r = Next4([h EXCEPT !.csr = w], at)
    BY Zenon, <1>2, <2>1, <2>2 DEF run_csr
  <2>4. ShadowOf(reg) \in Stored /\ op \in SUBSET Bits64
    <3>1. ShadowOf(reg) \in Stored /\ i.value \subseteq Bits64
      BY Zenon, <2>1 DEF Decoded
    <3>. QED
      BY Zenon, <2>1, <3>1 DEF CsrOperand
  <2>5. /\ h \in Harts /\ CsrLegal(c) /\ c \in Csrs /\ h.mode \in Modes
    BY Zenon, <2>1 DEF HartOK, CsrLegal, Harts
  <2>6. w = c \/ \E v \in SUBSET Bits64 : w = csr_write(c, reg, v)
    <3>1. csr_read(c, reg) \in SUBSET Bits64
      BY Zenon, <2>4, Shadows DEF csr_read
    <3>2. csr_read(c, reg) \cup op \in SUBSET Bits64 /\ csr_read(c, reg) \ op \in SUBSET Bits64
      BY Zenon, <2>4, <3>1
    <3>3. CASE ReadsOnly(i)
      BY Zenon, <2>2, <3>3 DEF CsrAccess
    <3>4. CASE ~ReadsOnly(i)
      <4>1. \/ w = csr_write(c, reg, op)
            \/ w = csr_write(c, reg, csr_read(c, reg) \cup op)
            \/ w = csr_write(c, reg, csr_read(c, reg) \ op)
        BY Zenon, <2>1, <2>2, <3>4 DEF CsrAccess, CsrOps, csr_set_bits, csr_clear_bits
      <4>. QED
        BY Zenon, <2>4, <3>2, <4>1
    <3>. QED
      BY Zenon, <3>3, <3>4
  <2>7. CsrLegal(w)
    BY Zenon, <2>4, <2>5, <2>6, LegalWrite
  <2>8. PICK k : k = [h EXCEPT !.csr = w]
    BY Zenon
  <2>9. k \in Harts /\ k.csr = w
    <3>1. w \in Csrs
      BY Zenon, <2>7 DEF CsrLegal
    <3>. QED
      BY Zenon, <2>5, <2>8, <3>1 DEF Harts
  <2>10. r.ok = TRUE /\ r.hart = k /\ r.pc = (at + 4) % AddressSpan
    BY <2>3, <2>8 DEF Next4
  <2>11. r.pc \in Addresses
    BY <2>10, NatOfBits DEF Addresses
  <2>12. ASSUME NEW m \in TrapModes PROVE GivesUp(i, h, m) \/ KeepsContext(m, h.csr, w)
    <3>1. CASE w = c
      BY Zenon, <2>1, <3>1, SameContexts
    <3>2. ASSUME NEW v \in SUBSET Bits64, w = csr_write(c, reg, v), ~GivesUp(i, h, m)
          PROVE  KeepsContext(m, c, w)
      <4>1. /\ reg # mstatus /\ reg # TrapRegisters(m).epc /\ reg # TrapRegisters(m).cause
            /\ m = Supervisor => reg # sstatus
        BY Zenon, <2>1, <3>2 DEF GivesUp
      <4>. QED
        BY Zenon, <2>4, <2>5, <3>2, <4>1, WriteKeeps
    <3>. QED
      BY Zenon, <2>1, <2>6, <3>1, <3>2
  <2>13. SavedOK(Kept(saved, i, h, at), w)
    BY Zenon, <2>12, KeptContexts
  <2>14. h.mode # Machine => Confined(h.csr, w)
    <3>1. SUFFICES ASSUME h.mode # Machine PROVE Confined(c, w)
      BY Zenon, <2>1
    <3>2. privilege(reg) <= 1
      <4>1. h.mode >= privilege(reg)
        BY Zenon, <1>2, <2>1 DEF check_privilege, mode_privilege
      <4>2. h.mode \in {0, 1}
        BY Zenon, <2>5, <3>1 DEF Modes, User, Supervisor, Machine
      <4>3. privilege(reg) \in 0 .. 3
        <5>1. \A s \in Stored : privilege(s) \in 0 .. 3
          BY StoredPrivilege
        <5>2. privilege(sstatus) = 1 /\ privilege(sip) = 1 /\ privilege(sie) = 1
          BY SMTT(30) DEF privilege, sstatus, sip, sie
        <5>. QED
          BY <2>4, <5>1, <5>2, Shadows
      <4>. QED
        BY <4>1, <4>2, <4>3
    <3>. QED
      BY Zenon, <2>4, <2>5, <2>6, <3>2, ConfinedWrite, ConfinedRefl
  <2>. QED
    BY Zenon, <2>7, <2>9, <2>10, <2>11, <2>13, <2>14 DEF Completes, HartOK
<1>. QED
  BY Zenon, <1>1, <1>2

\* A return from a handler of mode o, to a mode and with a status.
LEMMA Returns ==
  ASSUME NEW h, HartOK(h), NEW i, NEW at \in Addresses, NEW saved, SavedOK(saved, h.csr),
         InMemory(at, 4), NEW mode \in Modes, NEW epc, NEW v, NEW r,
         r = ReturnTo(h, mode, epc, v),
         \A m \in TrapModes : \/ GivesUp(i, h, m)
                              \/ \A b \in ContextBits(m) : b \in v <=> b \in h.csr[mstatus],
         h.mode # Machine => \A b \in Bits64 \ {1, 5, 8, 17} : b \in v <=> b \in h.csr[mstatus]
  PROVE  Completes(h, i, at, saved, r)
<1>1. PICK c, w : c = h.csr /\ w = csr_write(h.csr, mstatus, v)
  BY Zenon
<1>2. h \in Harts /\ CsrLegal(c) /\ c \in Csrs
  BY Zenon, <1>1 DEF HartOK, CsrLegal
<1>3. StatusLegal(c[mstatus])
  BY Zenon, <1>2, RegisterOrder DEF CsrLegal, LegalValue, Stored
<1>4. CsrLegal(w) /\ w \in Csrs
  <2>1. CsrLegal(w)
    BY Zenon, <1>1, <1>2, LegalStatus
  <2>. QED
    BY Zenon, <2>1 DEF CsrLegal
<1>5. PICK k : k = [h EXCEPT !.csr = w, !.mode = mode]
  BY Zenon
<1>6. k \in Harts /\ k.csr = w
  BY Zenon, <1>2, <1>4, <1>5 DEF Harts
<1>7. PICK n \in Nat : n = ToNat(csr_read(h.csr, epc))
  BY Zenon, NatOfBits
<1>8. r.ok = TRUE /\ r.hart = k /\ r.pc = n % AddressSpan
  BY Zenon, <1>1, <1>5, <1>7 DEF ReturnTo, Jump
<1>9. r.pc \in Addresses
  <2>1. n % AddressSpan \in Addresses
    <3>1. PICK span \in Nat \ {0} : span = AddressSpan
      BY ZenonT(30), NatOfBits
    <3>2. n % span \in 0 .. (span - 1)
      BY SMTT(30)
    <3>. QED
      BY Zenon, <3>1, <3>2 DEF Addresses
  <2>. QED
    BY Zenon, <1>8, <2>1
<1>10. \A m \in TrapModes : GivesUp(i, h, m) \/ KeepsContext(m, h.csr, w)
  BY Zenon, <1>1, <1>2, <1>3, StatusKeeps
<1>11. SavedOK(Kept(saved, i, h, at), w)
  BY Zenon, <1>10, KeptContexts
<1>12. h.mode # Machine => Confined(h.csr, w)
  BY Zenon, <1>1, <1>2, <1>3, ConfinedStatus
<1>. QED
  BY Zenon, <1>4, <1>6, <1>8, <1>9, <1>11, <1>12 DEF Completes, HartOK

\* The status is read as it is stored.
LEMMA StatusRead ==
  ASSUME NEW c \in Csrs
  PROVE  csr_read(c, mstatus) = c[mstatus]
<1>1. ShadowOf(mstatus) = mstatus /\ ShadowMask(mstatus) = Bits64 /\ mstatus \in Stored
  BY RegisterOrder DEF ShadowOf, ShadowMask, Stored
<1>2. c[mstatus] \in SUBSET Bits64
  BY Zenon, <1>1 DEF Csrs
<1>. QED
  BY Zenon, <1>1, <1>2 DEF csr_read

\* Clearing MPRV on a return changes one bit.
LEMMA ClearedMPRV ==
  ASSUME NEW v, NEW b \in Int, b # 17
  PROVE  b \in SetField(v, MPRV, {}) <=> b \in v
  BY SetFieldBits, Fields

LEMMA MretInstruction ==
  ASSUME NEW h, HartOK(h), NEW i, i.op = "mret", NEW at \in Addresses,
         NEW saved, SavedOK(saved, h.csr), InMemory(at, 4), NEW r, r = run_mret(h)
  PROVE  Completes(h, i, at, saved, r) \/ Raises(h, r)
<1>1. CASE h.mode # Machine
  <2>1. r = Raise(h, IllegalInstruction)
    BY Zenon, <1>1 DEF run_mret
  <2>. QED
    BY <2>1 DEF Raises, Raise, IllegalInstruction, Trap, LegalTrap
<1>2. CASE h.mode = Machine
  <2>1. PICK s, p, back : /\ s = csr_read(h.csr, mstatus) /\ p = MPPValue(GetField(s, MPP))
                          /\ back = StatusOnReturn(s, TrapRegisters(Machine))
    BY Zenon
  <2>2. PICK v : v = IF p = Machine THEN back ELSE SetField(back, MPRV, {})
    BY Zenon
  <2>3. r = ReturnTo(h, p, mepc, v)
    BY Zenon, <1>2, <2>1, <2>2 DEF run_mret
  <2>4. p \in Modes
    BY Zenon, <2>1 DEF MPPValue, Modes
  <2>5. s = h.csr[mstatus]
    BY Zenon, <2>1, StatusRead DEF HartOK, CsrLegal
  <2>6. ASSUME NEW b \in {5, 8} PROVE b \in v <=> b \in h.csr[mstatus]
    <3>1. b \in Int /\ b \notin {3, 7, 11, 12} /\ b # 17
      OBVIOUS
    <3>2. b \in back <=> b \in s
      BY Zenon, <2>1, <3>1, OnReturnBits
    <3>3. b \in SetField(back, MPRV, {}) <=> b \in back
      BY Zenon, <3>1, ClearedMPRV
    <3>. QED
      BY Zenon, <2>2, <2>5, <3>2, <3>3
  <2>7. ASSUME NEW m \in TrapModes
        PROVE  GivesUp(i, h, m) \/ \A b \in ContextBits(m) : b \in v <=> b \in h.csr[mstatus]
    <3>1. CASE m = Machine
      BY Zenon, <1>2, <3>1 DEF GivesUp
    <3>2. CASE m = Supervisor
      BY Zenon, <2>6, <3>2 DEF ContextBits
    <3>. QED
      BY Zenon, <3>1, <3>2 DEF TrapModes
  <2>. QED
    BY Zenon, <1>2, <2>3, <2>4, <2>7, Returns
<1>. QED
  BY Zenon, <1>1, <1>2

LEMMA SretInstruction ==
  ASSUME NEW h, HartOK(h), NEW i, i.op = "sret", NEW at \in Addresses,
         NEW saved, SavedOK(saved, h.csr), InMemory(at, 4), NEW r, r = run_sret(h)
  PROVE  Completes(h, i, at, saved, r) \/ Raises(h, r)
<1>1. PICK s, p, back, v : /\ s = csr_read(h.csr, mstatus) /\ p = SPPValue(GetField(s, SPP))
                           /\ back = StatusOnReturn(s, TrapRegisters(Supervisor))
                           /\ v = SetField(back, MPRV, {})
  BY Zenon
<1>2. CASE r = Raise(h, IllegalInstruction)
  BY <1>2 DEF Raises, Raise, IllegalInstruction, Trap, LegalTrap
<1>3. CASE h.mode # User /\ r = ReturnTo(h, p, sepc, v)
  <2>1. p \in Modes
    BY Zenon, <1>1 DEF SPPValue, Modes
  <2>2. s = h.csr[mstatus]
    BY Zenon, <1>1, StatusRead DEF HartOK, CsrLegal
  <2>3. ASSUME NEW b \in Int, b \notin {1, 5, 8, 17} PROVE b \in v <=> b \in h.csr[mstatus]
    <3>1. b \in back <=> b \in s
      BY Zenon, <1>1, <2>3, OnReturnBits
    <3>2. b \in SetField(back, MPRV, {}) <=> b \in back
      BY Zenon, <2>3, ClearedMPRV
    <3>. QED
      BY Zenon, <1>1, <2>2, <3>1, <3>2
  <2>4. ASSUME NEW m \in TrapModes
        PROVE  GivesUp(i, h, m) \/ \A b \in ContextBits(m) : b \in v <=> b \in h.csr[mstatus]
    <3>1. CASE m = Supervisor
      BY ZenonT(30), <1>3, <3>1 DEF GivesUp
    <3>2. CASE m = Machine
      <4>1. ContextBits(m) = {7, 11, 12}
        BY Zenon, <3>2 DEF ContextBits, Supervisor, Machine
      <4>. QED
        BY <2>3, <4>1
    <3>. QED
      BY Zenon, <3>1, <3>2 DEF TrapModes
  <2>5. \A b \in Bits64 \ {1, 5, 8, 17} : b \in v <=> b \in h.csr[mstatus]
    BY <2>3 DEF Bits64
  <2>. QED
    BY Zenon, <1>3, <2>1, <2>4, <2>5, Returns
<1>. QED
  BY Zenon, <1>1, <1>2, <1>3 DEF run_sret

\* Every instruction completes or raises an exception.
LEMMA Instruction ==
  ASSUME NEW h, HartOK(h), NEW i, Decoded(i), NEW at \in Addresses,
         NEW saved, SavedOK(saved, h.csr), NEW r, r = run_instr_at(h, i, at)
  PROVE  Completes(h, i, at, saved, r) \/ Raises(h, r)
<1>1. CASE ~InMemory(at, 4)
  <2>1. r = Raise(h, InstructionAccessFault(at))
    BY Zenon, <1>1 DEF run_instr_at
  <2>. QED
    BY <2>1 DEF Raises, Raise, InstructionAccessFault, Trap, LegalTrap
<1>2. CASE InMemory(at, 4)
  <2>1. r = run_instr(h, i, at)
    BY Zenon, <1>2 DEF run_instr_at
  <2>2. CASE i.op \in CsrOps
    <3>1. r = run_csr(h, i, at)
      BY Zenon, <2>1, <2>2 DEF run_instr, CsrOps
    <3>. QED
      BY Zenon, <1>2, <2>2, <3>1, CsrInstruction
  <2>3. CASE i.op = "mret"
    <3>1. r = run_mret(h)
      BY Zenon, <2>1, <2>3 DEF run_instr, CsrOps
    <3>. QED
      BY Zenon, <1>2, <2>3, <3>1, MretInstruction
  <2>4. CASE i.op = "sret"
    <3>1. r = run_sret(h)
      BY Zenon, <2>1, <2>4 DEF run_instr, CsrOps
    <3>. QED
      BY Zenon, <1>2, <2>4, <3>1, SretInstruction
  <2>5. CASE i.op = "ecall"
    <3>1. r = Raise(h, EnvCallFrom(h.mode))
      BY Zenon, <2>1, <2>5 DEF run_instr, CsrOps
    <3>2. h.mode \in Modes
      BY Zenon DEF HartOK, Harts
    <3>. QED
      BY <3>1, <3>2 DEF Raises, Raise, EnvCallFrom, Trap, LegalTrap, Modes, User, Supervisor, Machine
  <2>6. CASE i.op \in {"ebreak", "mnret", "unknown"}
    <3>1. r = Raise(h, Breakpoint) \/ r = Raise(h, IllegalInstruction)
      BY Zenon, <2>1, <2>6 DEF run_instr, CsrOps
    <3>. QED
      BY <3>1 DEF Raises, Raise, Breakpoint, IllegalInstruction, Trap, LegalTrap
  <2>7. CASE i.op = "jal"
    <3>1. r = Jump(h, h.pc + AddressSpan + i.imm)
      BY ZenonT(30), <2>1, <2>7 DEF run_instr, CsrOps
    <3>2. h.pc + AddressSpan + i.imm \in Int
      BY <2>7, NatOfBits DEF HartOK, Harts, Addresses, Decoded
    <3>. QED
      BY Zenon, <1>2, <3>1, <3>2, Leaves
  <2>8. CASE i.op \in {"load", "store", "wfi", "fence", "alu"}
    <3>1. \/ r = Next4(h, at)
          \/ r = Raise(h, LoadAccessFault(i.address)) \/ r = Raise(h, StoreAccessFault(i.address))
      BY Zenon, <2>1, <2>8 DEF run_instr, CsrOps
    <3>2. CASE r = Next4(h, at)
      <4>1. r = Jump(h, at + 4) /\ at + 4 \in Int
        BY <3>2, NatOfBits DEF Next4, Jump, Addresses
      <4>. QED
        BY Zenon, <1>2, <4>1, Leaves
    <3>3. CASE r = Raise(h, LoadAccessFault(i.address)) \/ r = Raise(h, StoreAccessFault(i.address))
      BY <3>3 DEF Raises, Raise, LoadAccessFault, StoreAccessFault, Trap, LegalTrap
    <3>. QED
      BY Zenon, <3>1, <3>2, <3>3
  <2>9. i.op \in RvOperations
    BY Zenon DEF Decoded
  <2>. QED
    BY Zenon, <2>2, <2>3, <2>4, <2>5, <2>6, <2>7, <2>8, <2>9 DEF RvOperations
<1>. QED
  BY Zenon, <1>1, <1>2

(***************************************************************************)
(* Steps.                                                                  *)
(***************************************************************************)
LEMMA MovedPc ==
  ASSUME NEW h, HartOK(h), NEW pc \in Addresses, NEW k, k = [h EXCEPT !.pc = pc]
  PROVE  HartOK(k) /\ k.csr = h.csr /\ k.mode = h.mode
<1>1. h \in Harts /\ CsrLegal(h.csr)
  BY Zenon DEF HartOK
<1>2. k \in Harts /\ k.csr = h.csr /\ k.mode = h.mode
  BY Zenon, <1>1 DEF Harts
<1>. QED
  BY Zenon, <1>1, <1>2 DEF HartOK

\* The interrupt that is due is no longer pending when it is taken.
LEMMA Acknowledged ==
  ASSUME NEW h, HartOK(h), NEW code, NEW n, n = csr_write(h.csr, mip, csr_read(h.csr, mip) \ {code}),
         NEW saved, SavedOK(saved, h.csr)
  PROVE  CsrLegal(n) /\ SavedOK(saved, n) /\ Confined(h.csr, n)
<1>1. PICK c, v : c = h.csr /\ v = csr_read(c, mip) \ {code}
  BY Zenon
<1>2. PICK w : w = csr_write(c, mip, v)
  BY Zenon
<1>3. h \in Harts /\ CsrLegal(c) /\ c \in Csrs
  BY Zenon, <1>1 DEF HartOK, CsrLegal
<1>4. /\ ShadowOf(mip) = mip /\ ShadowMask(mip) = Bits64 /\ mip \in Stored
      /\ mstatus \in Stored /\ mie \in Stored /\ mstatus # mip /\ mie # mip
  BY RegisterOrder DEF ShadowOf, ShadowMask, Stored
<1>5. c[mip] \in SUBSET Bits64
  BY Zenon, <1>3, <1>4 DEF Csrs
<1>6. v \subseteq c[mip] /\ v \in SUBSET Bits64
  BY Zenon, <1>1, <1>4, <1>5 DEF csr_read
<1>7. CsrLegal(w) /\ w \in Csrs
  <2>1. CsrLegal(w)
    BY Zenon, <1>2, <1>3, <1>4, <1>6, LegalWrite
  <2>. QED
    BY Zenon, <2>1 DEF CsrLegal
<1>8. n = w
  BY Zenon, <1>1, <1>2
<1>9. \A m \in TrapModes : KeepsContext(m, c, w)
  <2>1. ASSUME NEW m \in TrapModes
        PROVE  /\ mip # mstatus /\ mip # TrapRegisters(m).epc /\ mip # TrapRegisters(m).cause
               /\ mip # sstatus
    <3>1. TrapRegisters(m).epc \in {mepc, sepc} /\ TrapRegisters(m).cause \in {mcause, scause}
      BY Zenon, TrapRegistersAre DEF TrapModes
    <3>. QED
      BY <3>1, RegisterOrder
  <2>. QED
    BY ZenonT(30), <1>2, <1>3, <1>4, <2>1, WriteKeeps
<1>10. SavedOK(saved, w)
  BY Zenon, <1>1, <1>9, ContextKept DEF SavedOK
<1>11. Confined(c, w)
  <2>1. \A r \in Stored : r # mip => w[r] = c[r]
    BY <1>2, <1>3, <1>4, WriteOne
  <2>2. make_value_writable(mip, v) \subseteq {v \cap WARL_MASK_MIP_MIE}
    <3>1. Reserved(mip) = {} /\ \A u : transform_warl_fields(mip, u) = {u \cap WARL_MASK_MIP_MIE}
      BY RegisterOrder DEF Reserved, transform_warl_fields
    <3>2. v \ {} = v
      BY Zenon
    <3>. QED
      BY Zenon, <3>1, <3>2 DEF make_value_writable, clear_wpri_fields
  <2>3. w[mip] \subseteq c[mip]
    <3>1. \/ w = c
          \/ \E x \in make_value_writable(mip, v) : w[mip] = (x \cap Bits64) \cup (c[mip] \ Bits64)
      BY <1>2, <1>3, <1>4, WriteOne
    <3>2. ASSUME NEW x \in make_value_writable(mip, v),
                 w[mip] = (x \cap Bits64) \cup (c[mip] \ Bits64)
          PROVE  w[mip] \subseteq c[mip]
      <4>1. x \subseteq v
        BY Zenon, <2>2
      <4>. QED
        BY Zenon, <1>5, <1>6, <3>2, <4>1
    <3>. QED
      BY ZenonT(30), <3>1, <3>2
  <2>. QED
    BY ZenonT(30), <1>4, <2>1, <2>3 DEF Confined
<1>. QED
  BY Zenon, <1>1, <1>7, <1>8, <1>10, <1>11

LEMMA InterruptTaken ==
  ASSUME NEW h, HartOK(h), NEW saved, SavedOK(saved, h.csr), NEW s,
         s = Interrupted(h, saved, get_pending_interrupt(h))
  PROVE  /\ HartOK(s.hart) /\ s.pc \in Addresses /\ SavedOK(s.saved, s.hart.csr)
         /\ s.hart.mode # Machine => Confined(h.csr, s.hart.csr)
<1>1. PICK pending : pending = get_pending_interrupt(h)
  BY Zenon
<1>2. CASE pending = {}
  <2>1. s.hart = h /\ s.pc = h.pc /\ s.saved = saved
    BY Zenon, <1>1, <1>2 DEF Interrupted
  <2>2. h.pc \in Addresses
    BY ZenonT(30) DEF HartOK, Harts
  <2>. QED
    BY Zenon, <2>1, <2>2, ConfinedRefl
<1>3. CASE pending # {}
  <2>1. PICK code : code = CHOOSE x \in pending : TRUE
    BY Zenon
  <2>2. code \in Interrupts
    <3>1. code \in pending
      BY ZenonT(30), <1>3, <2>1
    <3>2. pending \subseteq {InterruptPriority[k] : k \in 1 .. 6}
      BY Zenon, <1>1 DEF get_pending_interrupt
    <3>3. \A k \in 1 .. 6 : InterruptPriority[k] \in Interrupts
      BY DEF InterruptPriority, Interrupts, SUPERVISOR_BIT_MASK, MACHINE_BIT_MASK
    <3>. QED
      BY Zenon, <3>1, <3>2, <3>3
  <2>3. PICK w, k : w = csr_write(h.csr, mip, csr_read(h.csr, mip) \ {code}) /\ k = [h EXCEPT !.csr = w]
    BY Zenon
  <2>4. PICK trap : trap = Trap("interrupt", code, 0)
    BY Zenon
  <2>5. PICK t : t = take_trap_from_mode(k, trap, h.pc)
    BY Zenon
  <2>6. s = Noted(saved, t)
    <3>1. address_on_interrupt(h, code) = t
      BY Zenon, <2>3, <2>4, <2>5 DEF address_on_interrupt
    <3>2. s = Noted(saved, address_on_interrupt(h, code))
      BY Zenon, <1>1, <1>3, <2>1 DEF Interrupted
    <3>. QED
      BY Zenon, <3>1, <3>2
  <2>7. s.hart = t.hart /\ s.pc = t.pc /\ s.saved = SaveTrap(saved, t)
    BY <2>6 DEF Noted
  <2>8. HartOK(k) /\ SavedOK(saved, k.csr) /\ Confined(h.csr, k.csr)
    <3>1. CsrLegal(w) /\ SavedOK(saved, w) /\ Confined(h.csr, w)
      BY Zenon, <2>3, Acknowledged
    <3>2. h \in Harts /\ w \in Csrs
      BY Zenon, <3>1 DEF HartOK, CsrLegal
    <3>3. k \in Harts /\ k.csr = w
      BY Zenon, <2>3, <3>2 DEF Harts
    <3>. QED
      BY Zenon, <3>1, <3>3 DEF HartOK
  <2>9. LegalTrap(trap)
    BY Zenon, <2>2, <2>4 DEF LegalTrap, Trap
  <2>10. /\ HartOK(t.hart) /\ t.hart.mode \in TrapModes /\ t.pc \in Addresses
         /\ t.hart.mode = Supervisor => Confined(k.csr, t.hart.csr)
    BY Zenon, <2>5, <2>8, <2>9, TrapTaken
  <2>11. SavedOK(SaveTrap(saved, t), t.hart.csr)
    BY Zenon, <2>5, <2>8, <2>9, TrapSaved
  <2>12. t.hart.mode # Machine => Confined(h.csr, t.hart.csr)
    BY Zenon, <2>8, <2>10, ConfinedTrans DEF TrapModes
  <2>. QED
    BY Zenon, <2>7, <2>10, <2>11, <2>12
<1>. QED
  BY Zenon, <1>2, <1>3

LEMMA HandlerEntered ==
  ASSUME NEW h, HartOK(h), NEW trap, LegalTrap(trap), NEW pc, NEW saved, SavedOK(saved, h.csr),
         NEW s, s = InHandler(saved, take_trap_from_mode(h, trap, pc))
  PROVE  /\ HartOK(s.hart) /\ SavedOK(s.saved, s.hart.csr) /\ s.env = FALSE
         /\ s.hart.mode # Machine => Confined(h.csr, s.hart.csr)
<1>1. PICK t : t = take_trap_from_mode(h, trap, pc)
  BY Zenon
<1>2. /\ HartOK(t.hart) /\ t.hart.mode \in TrapModes /\ t.pc \in Addresses
      /\ t.hart.mode = Supervisor => Confined(h.csr, t.hart.csr)
  BY Zenon, <1>1, TrapTaken
<1>3. SavedOK(SaveTrap(saved, t), t.hart.csr)
  BY Zenon, <1>1, TrapSaved
<1>4. PICK k : k = [t.hart EXCEPT !.pc = t.pc]
  BY Zenon
<1>5. s = [hart |-> k, saved |-> SaveTrap(saved, t), env |-> FALSE]
  BY Zenon, <1>1, <1>4 DEF InHandler
<1>6. s.hart = k /\ s.saved = SaveTrap(saved, t) /\ s.env = FALSE
  BY <1>5
<1>7. HartOK(k) /\ k.csr = t.hart.csr /\ k.mode = t.hart.mode
  BY ZenonT(30), <1>2, <1>4, MovedPc
<1>. QED
  BY Zenon, <1>2, <1>3, <1>6, <1>7 DEF TrapModes

\* A step keeps the hart legal and the contexts intact; one that is below
\* machine mode throughout leaves what the machine owns.
LEMMA MachineStep ==
  ASSUME NEW h, HartOK(h), NEW saved, SavedOK(saved, h.csr), NEW i, Decoded(i),
         NEW n, n = Interrupted(h, saved, get_pending_interrupt(h)),
         NEW s, s = machine_step(h, saved, i)
  PROVE  /\ HartOK(s.hart) /\ SavedOK(s.saved, s.hart.csr) /\ s.env \in BOOLEAN
         /\ n.hart.mode # Machine /\ s.hart.mode # Machine => Confined(h.csr, s.hart.csr)
<1>1. PICK k, at, sv : k = n.hart /\ at = n.pc /\ sv = n.saved
  BY Zenon
<1>2. /\ HartOK(k) /\ at \in Addresses /\ SavedOK(sv, k.csr)
      /\ k.mode # Machine => Confined(h.csr, k.csr)
  BY Zenon, <1>1, InterruptTaken
<1>3. PICK r : r = run_instr_at(k, i, at)
  BY Zenon
<1>4. s = handle_instr_result(k, at, sv, i, r)
  BY Zenon, <1>1, <1>3 DEF machine_step, StepAfter, RunFrom
<1>5. SUFFICES /\ HartOK(s.hart) /\ SavedOK(s.saved, s.hart.csr) /\ s.env \in BOOLEAN
               /\ k.mode # Machine /\ s.hart.mode # Machine => Confined(k.csr, s.hart.csr)
  BY Zenon, <1>1, <1>2, ConfinedTrans
<1>6. CASE Completes(k, i, at, sv, r)
  <2>1. PICK q : q = [r.hart EXCEPT !.pc = r.pc]
    BY Zenon
  <2>2. /\ HartOK(r.hart) /\ r.pc \in Addresses /\ SavedOK(Kept(sv, i, k, at), r.hart.csr)
        /\ k.mode # Machine => Confined(k.csr, r.hart.csr)
        /\ r.ok = TRUE
    BY Zenon, <1>6 DEF Completes
  <2>3. s = [hart |-> q, saved |-> Kept(sv, i, k, at), env |-> FALSE]
    BY Zenon, <1>4, <2>1, <2>2 DEF handle_instr_result
  <2>4. s.hart = q /\ s.saved = Kept(sv, i, k, at) /\ s.env = FALSE
    BY <2>3
  <2>5. HartOK(q) /\ q.csr = r.hart.csr
    <3>1. PICK o, pc : o = r.hart /\ pc = r.pc
      BY Zenon
    <3>2. HartOK(o) /\ pc \in Addresses /\ q = [o EXCEPT !.pc = pc]
      BY Zenon, <2>1, <2>2, <3>1
    <3>3. HartOK(q) /\ q.csr = o.csr
      BY Zenon, <3>2, MovedPc
    <3>. QED
      BY Zenon, <3>1, <3>3
  <2>. QED
    BY Zenon, <2>2, <2>4, <2>5
<1>7. CASE Raises(k, r) /\ EnvironException(r.trap)
  <2>1. PICK q : q = [k EXCEPT !.pc = at]
    BY Zenon
  <2>2. s = [hart |-> q, saved |-> sv, env |-> TRUE]
    BY Zenon, <1>4, <1>7, <2>1 DEF handle_instr_result, Raises
  <2>3. s.hart = q /\ s.saved = sv /\ s.env = TRUE
    BY <2>2
  <2>4. HartOK(q) /\ q.csr = k.csr
    BY Zenon, <1>2, <2>1, MovedPc
  <2>. QED
    BY Zenon, <1>2, <2>3, <2>4, ConfinedRefl
<1>8. CASE Raises(k, r) /\ ~EnvironException(r.trap)
  <2>1. LegalTrap(r.trap)
    BY Zenon, <1>8 DEF Raises
  <2>2. s = InHandler(sv, take_trap_from_mode(k, r.trap, at))
    BY Zenon, <1>4, <1>8 DEF handle_instr_result, Raises
  <2>3. /\ HartOK(s.hart) /\ SavedOK(s.saved, s.hart.csr) /\ s.env = FALSE
        /\ s.hart.mode # Machine => Confined(k.csr, s.hart.csr)
    BY Zenon, <1>2, <2>1, <2>2, HandlerEntered
  <2>. QED
    BY Zenon, <2>3
<1>. QED
  BY Zenon, <1>2, <1>3, <1>6, <1>7, <1>8, Instruction

(***************************************************************************)
(* The invariant.                                                          *)
(***************************************************************************)
Runs == [driver : {"interpreter", "pvm"}, phase : {"step", "call", "done"},
         max : Nat, done : Nat, acc : Nat, budget : Nat, calls : Int,
         kind : {"none", "running", "exit", "exception", "panic"}, steps : Nat]

\* The steps counted so far and those that are left make up at most the maximum
\* the caller gave, and exactly it in the PVM.
RunOK(run, steps) ==
  /\ run \in Runs /\ steps \in Nat
  /\ run.phase # "done" =>
       /\ steps = run.acc + run.done /\ run.done <= run.max
       /\ run.acc + run.max <= run.budget
       /\ run.driver = "pvm" => run.acc + run.max = run.budget
  /\ run.phase = "call" => run.done < run.max
  /\ run.phase = "done" =>
       /\ run.steps = steps /\ run.steps <= run.budget
       /\ run.driver = "pvm" /\ run.kind = "running" => run.steps = run.budget

RvInv ==
  /\ rvGuest \in DOMAIN RvScenarios
  /\ HartOK(rvHart) /\ SavedOK(rvSaved, rvHart.csr)
  /\ rvPosix \in [exited : {0, 1}, code : {0, 1}, exitMode : Modes]
  /\ RunOK(rvRun, rvSteps)

LEMMA ZeroLegal == CsrLegal(ZeroCsr)
<1>1. ZeroCsr \in Csrs
  BY Zenon DEF ZeroCsr, Csrs
<1>2. ASSUME NEW r \in Stored PROVE LegalValue(r, ZeroCsr[r])
  <2>1. ZeroCsr[r] = {}
    BY Zenon DEF ZeroCsr
  <2>2. StatusLegal({})
    BY Zenon DEF StatusLegal
  <2>. QED
    BY Zenon, <2>1, <2>2, SomeCauses DEF LegalValue
<1>. QED
  BY Zenon, <1>1, <1>2 DEF CsrLegal

LEMMA ResetLegal == CsrLegal(csr_reset)
<1>1. PICK z : z = ZeroCsr
  BY Zenon
<1>2. CsrLegal(z) /\ z \in Csrs
  BY Zenon, <1>1, ZeroLegal DEF CsrLegal
<1>3. ASSUME NEW r \in Stored
      PROVE  /\ csr_reset[r] = csr_write(z, r, default_value(r))[r]
             /\ csr_reset[r] \in SUBSET Bits64
             /\ LegalValue(r, csr_reset[r])
  <2>1. csr_reset[r] = csr_write(z, r, default_value(r))[r]
    BY Zenon, <1>1 DEF csr_reset, csr_write
  <2>2. ShadowOf(r) = r
    BY RegisterOrder DEF ShadowOf, Stored
  <2>3. csr_write(z, r, default_value(r)) \in Csrs
    BY Zenon, <1>2, <2>2, WriteOne
  <2>4. csr_reset[r] \in SUBSET Bits64
    BY ZenonT(30), <2>1, <2>3 DEF Csrs
  <2>5. CASE r = mstatus
    <3>1. StatusLegal(csr_write(z, mstatus, default_value(mstatus))[mstatus])
      BY Zenon, <1>2, LegalStatusWrite
    <3>2. csr_reset[r] = csr_write(z, mstatus, default_value(mstatus))[mstatus]
      BY Zenon, <2>1, <2>5
    <3>3. StatusLegal(csr_reset[r])
      BY ZenonT(30), <3>1, <3>2
    <3>4. LegalValue(r, csr_reset[r])
      BY <2>5, <3>3, RegisterOrder DEF LegalValue
    <3>. QED
      BY Zenon, <2>1, <2>4, <3>4
  <2>6. CASE r \in {mip, mie, mideleg, mcause, scause, medeleg, mepc, sepc, mtvec, stvec, satp}
    <3>1. default_value(r) \in SUBSET Bits64
      BY <2>6, RegisterOrder DEF default_value
    <3>2. CsrLegal(csr_write(z, r, default_value(r)))
      BY ZenonT(30), <1>2, <2>2, <3>1, LegalWrite
    <3>. QED
      BY Zenon, <2>1, <2>4, <3>2 DEF CsrLegal
  <2>7. CASE r \notin {mstatus, mip, mie, mideleg, mcause, scause, medeleg, mepc, sepc, mtvec, stvec, satp}
    <3>1. LegalValue(r, csr_reset[r])
      BY Zenon, <2>7 DEF LegalValue
    <3>. QED
      BY Zenon, <2>1, <2>4, <3>1
  <2>8. LegalValue(r, csr_reset[r])
    BY Zenon, <2>5, <2>6, <2>7
  <2>. QED
    BY Zenon, <2>1, <2>4, <2>8
<1>4. csr_reset = [r \in Stored |-> csr_reset[r]]
  BY Zenon DEF csr_reset
<1>5. csr_reset \in Csrs
  BY Zenon, <1>3, <1>4 DEF Csrs
<1>. QED
  BY Zenon, <1>3, <1>5 DEF CsrLegal

LEMMA Booted ==
  ASSUME NEW c, CsrLegal(c), NEW mode \in Modes
  PROVE  HartOK(setup_boot(c, mode))
<1>1. PICK w : w = csr_write(csr_write(c, medeleg, Bits64), mideleg, Bits64)
  BY Zenon
<1>2. CsrLegal(w) /\ w \in Csrs
  <2>1. ShadowOf(medeleg) \in Stored /\ ShadowOf(mideleg) \in Stored
    BY Zenon, RegisterOrder DEF ShadowOf, Stored
  <2>2. Bits64 \in SUBSET Bits64
    BY Zenon
  <2>3. CsrLegal(csr_write(c, medeleg, Bits64))
    BY Zenon, <2>1, <2>2, LegalWrite
  <2>4. CsrLegal(w)
    BY ZenonT(30), <1>1, <2>1, <2>2, <2>3, LegalWrite
  <2>. QED
    BY Zenon, <2>4 DEF CsrLegal
<1>3. PICK h : h = setup_boot(c, mode)
  BY Zenon
<1>4. h = [pc |-> RvMemStart, mode |-> mode, csr |-> w]
  BY Zenon, <1>1, <1>3 DEF setup_boot
<1>5. RvMemStart \in Addresses
  BY RvMemoryAssumption, NatOfBits DEF Addresses
<1>6. h \in Harts /\ h.csr = w
  BY Zenon, <1>2, <1>4, <1>5 DEF Harts
<1>. QED
  BY Zenon, <1>2, <1>3, <1>6 DEF HartOK

LEMMA RvInitial == RvInit => RvInv
<1>. SUFFICES ASSUME RvInit PROVE RvInv
  OBVIOUS
<1>1. PICK guest \in DOMAIN RvScenarios, exitMode \in Modes, max \in 0 .. 9,
           driver \in {"interpreter", "pvm"} :
        /\ rvGuest = guest
        /\ \/ rvHart = setup_boot(ZeroCsr, Machine)
           \/ \E mode \in Modes : rvHart = setup_boot(csr_reset, mode)
        /\ rvPosix = [exited |-> 0, code |-> 0, exitMode |-> exitMode]
        /\ rvRun = Running(driver, max)
        /\ rvSaved = [m \in TrapModes |-> NotSaved]
        /\ rvSteps = 0
  BY ZenonT(30) DEF RvInit
<1>2. HartOK(rvHart)
  <2>1. Machine \in Modes
    BY Zenon DEF Modes
  <2>. QED
    BY Zenon, <1>1, <2>1, ZeroLegal, ResetLegal, Booted
<1>3. SavedOK(rvSaved, rvHart.csr)
  <2>1. NotSaved.saved = FALSE
    BY Zenon DEF NotSaved
  <2>2. rvSaved = [m \in TrapModes |-> rvSaved[m]] /\ \A m \in TrapModes : rvSaved[m] = NotSaved
    BY Zenon, <1>1
  <2>3. ASSUME NEW m \in TrapModes PROVE Context(m, rvSaved[m], rvHart.csr)
    <3>1. rvSaved[m].saved = FALSE
      BY Zenon, <2>1, <2>2
    <3>. QED
      BY Zenon, <3>1 DEF Context
  <2>. QED
    BY Zenon, <2>2, <2>3 DEF SavedOK
<1>4. rvPosix \in [exited : {0, 1}, code : {0, 1}, exitMode : Modes]
  BY ZenonT(30), <1>1
<1>5. RunOK(rvRun, rvSteps)
  BY <1>1 DEF Running, RunOK, Runs
<1>. QED
  BY Zenon, <1>1, <1>2, <1>3, <1>4, <1>5 DEF RvInv

(***************************************************************************)
(* The drivers.                                                            *)
(***************************************************************************)
LEMMA RunFields ==
  ASSUME NEW run \in Runs
  PROVE  /\ run.driver \in {"interpreter", "pvm"} /\ run.phase \in {"step", "call", "done"}
         /\ run.max \in Nat /\ run.done \in Nat /\ run.acc \in Nat /\ run.budget \in Nat
         /\ run.calls \in Int /\ run.steps \in Nat
  BY Zenon DEF Runs

\* A call that returns.
LEMMA Returned ==
  ASSUME NEW run \in Runs, NEW kind \in {"running", "exit", "exception", "panic"},
         NEW steps \in Nat, steps <= run.budget,
         run.driver = "pvm" /\ kind = "running" => steps = run.budget
  PROVE  RunOK([run EXCEPT !.phase = "done", !.kind = kind, !.steps = steps], steps)
<1>1. PICK r : r = [run EXCEPT !.phase = "done", !.kind = kind, !.steps = steps]
  BY Zenon
<1>2. /\ r.phase = "done" /\ r.kind = kind /\ r.steps = steps
      /\ r.budget = run.budget /\ r.driver = run.driver
  BY Zenon, <1>1 DEF Runs
<1>3. r \in Runs
  BY Zenon, <1>1 DEF Runs
<1>. QED
  BY Zenon, <1>1, <1>2, <1>3 DEF RunOK

\* A call that goes on with the steps that are left.
LEMMA Recursed ==
  ASSUME NEW run \in Runs, NEW steps \in Nat, NEW left \in Nat, steps + left <= run.budget,
         run.driver = "pvm" => steps + left = run.budget
  PROVE  RunOK([run EXCEPT !.phase = "step", !.max = left, !.done = 0, !.acc = steps], steps)
<1>1. PICK r : r = [run EXCEPT !.phase = "step", !.max = left, !.done = 0, !.acc = steps]
  BY Zenon
<1>2. /\ r.phase = "step" /\ r.max = left /\ r.done = 0 /\ r.acc = steps
      /\ r.budget = run.budget /\ r.driver = run.driver
  BY Zenon, <1>1 DEF Runs
<1>3. r \in Runs
  BY Zenon, <1>1 DEF Runs
<1>4. steps = steps + 0
  OBVIOUS
<1>. QED
  BY <1>1, <1>2, <1>3, <1>4 DEF RunOK

LEMMA Answered ==
  ASSUME RunOK(rvRun, rvSteps), rvRun.phase = "call", rvSteps' = rvSteps + 1,
         Answer(FALSE, TRUE) \/ Answer(TRUE, FALSE)
  PROVE  RunOK(rvRun', rvSteps')
<1>1. rvRun \in Runs /\ rvSteps \in Nat
  BY Zenon DEF RunOK
<1>2. /\ rvSteps = rvRun.acc + rvRun.done /\ rvRun.done < rvRun.max
      /\ rvRun.acc + rvRun.max <= rvRun.budget
      /\ rvRun.driver = "pvm" => rvRun.acc + rvRun.max = rvRun.budget
  BY Zenon DEF RunOK
<1>3. /\ rvRun.max \in Nat /\ rvRun.done \in Nat /\ rvRun.acc \in Nat /\ rvRun.budget \in Nat
      /\ rvRun.driver \in {"interpreter", "pvm"}
  BY Zenon, <1>1, RunFields
<1>4. PICK steps \in Nat : steps = rvRun.acc + rvRun.done + 1 /\ steps = rvSteps'
  BY <1>2, <1>3
<1>5. steps <= rvRun.budget /\ steps <= rvRun.acc + rvRun.max
  BY <1>2, <1>3, <1>4
<1>6. ASSUME NEW kind \in {"running", "exit"}, Return(kind, steps),
             rvRun.driver = "pvm" => kind = "exit"
      PROVE  RunOK(rvRun', rvSteps')
  <2>1. RunOK([rvRun EXCEPT !.phase = "done", !.kind = kind, !.steps = steps], steps)
    BY Zenon, <1>1, <1>5, <1>6, Returned
  <2>. QED
    BY Zenon, <1>4, <1>6, <2>1 DEF Return
<1>7. ASSUME NEW left \in Nat, Recurse(steps, left), steps + left <= rvRun.budget,
             rvRun.driver = "pvm" => steps + left = rvRun.budget
      PROVE  RunOK(rvRun', rvSteps')
  <2>1. RunOK([rvRun EXCEPT !.phase = "step", !.max = left, !.done = 0, !.acc = steps], steps)
    BY Zenon, <1>1, <1>7, Recursed
  <2>. QED
    BY Zenon, <1>4, <1>7, <2>1 DEF Recurse
<1>8. CASE rvRun.driver = "pvm"
  <2>1. PICK left \in Nat : left = rvRun.max - (rvRun.done + 1)
    BY <1>2, <1>3
  <2>2. Saturating(rvRun.max - (rvRun.done + 1)) = left
    BY <2>1 DEF Saturating
  <2>3. Recurse(steps, left) \/ Return("exit", steps)
    BY ZenonT(30), <1>4, <1>8, <2>2 DEF Answer, step_many_accum
  <2>4. steps + left = rvRun.budget /\ steps + left <= rvRun.budget
    BY <1>2, <1>3, <1>4, <1>8, <2>1
  <2>. QED
    BY Zenon, <1>6, <1>7, <2>3, <2>4
<1>9. CASE rvRun.driver # "pvm"
  <2>1. PICK left \in Nat : left = Saturating(rvRun.max - steps)
    BY <1>3, <1>4 DEF Saturating
  <2>2. \/ Return("exit", steps) \/ Return("running", steps)
        \/ left > 0 /\ Recurse(steps, left)
    BY ZenonT(30), <1>4, <1>9, <2>1 DEF Answer, handle_step_result
  <2>3. left > 0 => steps + left <= rvRun.budget
    BY <1>2, <1>3, <1>4, <2>1 DEF Saturating
  <2>. QED
    BY ZenonT(30), <1>6, <1>7, <1>9, <2>2, <2>3
<1>. QED
  BY Zenon, <1>8, <1>9

(***************************************************************************)
(* Every step keeps the invariant, and below machine mode is confined.     *)
(***************************************************************************)
\* What RvConfined says of a step, by registers.
StepConfined ==
  (/\ rvHart.mode # Machine /\ rvHart'.mode # Machine
   /\ rvRun.phase = "step" => ModeOfInstruction # Machine)
     => Confined(rvHart.csr, rvHart'.csr)

LEMMA StepKeeps ==
  ASSUME RvInv, RvStep
  PROVE  RvInv' /\ StepConfined
<1>1. /\ rvGuest \in DOMAIN RvScenarios /\ HartOK(rvHart) /\ SavedOK(rvSaved, rvHart.csr)
      /\ rvPosix \in [exited : {0, 1}, code : {0, 1}, exitMode : Modes]
      /\ RunOK(rvRun, rvSteps)
  BY Zenon DEF RvInv
<1>2. PICK i \in RvScenarios[rvGuest].instrs : \E s \in {machine_step(rvHart, rvSaved, i)} :
        /\ rvHart' = s.hart /\ rvSaved' = s.saved
        /\ rvRun' = IF s.env THEN [rvRun EXCEPT !.phase = "call"] ELSE [rvRun EXCEPT !.done = @ + 1]
        /\ rvSteps' = IF s.env THEN rvSteps ELSE rvSteps + 1
  BY Zenon DEF RvStep
<1>3. PICK s : /\ s = machine_step(rvHart, rvSaved, i)
               /\ rvHart' = s.hart /\ rvSaved' = s.saved
               /\ rvRun' = IF s.env THEN [rvRun EXCEPT !.phase = "call"] ELSE [rvRun EXCEPT !.done = @ + 1]
               /\ rvSteps' = IF s.env THEN rvSteps ELSE rvSteps + 1
  BY Zenon, <1>2
<1>4. Decoded(i)
  BY Zenon, <1>1, <1>2, RvScenariosAssumption DEF Decoded
<1>5. PICK n : n = Interrupted(rvHart, rvSaved, get_pending_interrupt(rvHart))
  BY Zenon
<1>6. /\ HartOK(s.hart) /\ SavedOK(s.saved, s.hart.csr) /\ s.env \in BOOLEAN
      /\ n.hart.mode # Machine /\ s.hart.mode # Machine => Confined(rvHart.csr, s.hart.csr)
  BY ZenonT(30), <1>1, <1>3, <1>4, <1>5, MachineStep
<1>7. HartOK(rvHart') /\ SavedOK(rvSaved', rvHart'.csr)
  BY Zenon, <1>3, <1>6
<1>8. RunOK(rvRun', rvSteps')
  <2>1. /\ rvRun \in Runs /\ rvSteps \in Nat /\ rvSteps = rvRun.acc + rvRun.done
        /\ rvRun.done < rvRun.max /\ rvRun.acc + rvRun.max <= rvRun.budget
        /\ rvRun.driver = "pvm" => rvRun.acc + rvRun.max = rvRun.budget
        /\ rvRun.phase = "step"
    BY Zenon, <1>1 DEF RunOK, RvStep
  <2>2. /\ rvRun.max \in Nat /\ rvRun.done \in Nat /\ rvRun.acc \in Nat /\ rvRun.budget \in Nat
    BY Zenon, <2>1, RunFields
  <2>3. CASE s.env
    <3>1. PICK r : r = [rvRun EXCEPT !.phase = "call"]
      BY Zenon
    <3>2. /\ r \in Runs /\ r.phase = "call" /\ r.max = rvRun.max /\ r.done = rvRun.done
          /\ r.acc = rvRun.acc /\ r.budget = rvRun.budget /\ r.driver = rvRun.driver
      BY Zenon, <2>1, <3>1 DEF Runs
    <3>3. rvRun' = r /\ rvSteps' = rvSteps
      BY ZenonT(30), <1>3, <2>3, <3>1
    <3>4. RunOK(r, rvSteps)
      BY <2>1, <2>2, <3>2 DEF RunOK
    <3>. QED
      BY Zenon, <3>3, <3>4
  <2>4. CASE ~s.env
    <3>1. PICK d \in Nat : d = rvRun.done + 1
      BY <2>2
    <3>2. PICK r : r = [rvRun EXCEPT !.done = d]
      BY Zenon
    <3>3. /\ r \in Runs /\ r.phase = "step" /\ r.max = rvRun.max /\ r.done = d
          /\ r.acc = rvRun.acc /\ r.budget = rvRun.budget /\ r.driver = rvRun.driver
      BY Zenon, <2>1, <3>2 DEF Runs
    <3>4. rvRun' = r /\ rvSteps' = rvSteps + 1
      BY ZenonT(30), <1>3, <2>4, <3>1, <3>2
    <3>5. RunOK(r, rvSteps + 1)
      BY <2>1, <2>2, <3>1, <3>3 DEF RunOK
    <3>. QED
      BY Zenon, <3>4, <3>5
  <2>. QED
    BY Zenon, <2>3, <2>4
<1>9. rvGuest' = rvGuest /\ rvPosix' = rvPosix /\ rvRun.phase = "step"
  BY Zenon DEF RvStep
<1>10. StepConfined
  BY Zenon, <1>3, <1>5, <1>6, <1>9 DEF StepConfined, ModeOfInstruction
<1>. QED
  BY ZenonT(30), <1>1, <1>7, <1>8, <1>9, <1>10 DEF RvInv

\* Steps that leave the hart.
LEMMA HartUnchanged ==
  ASSUME UNCHANGED rvHart
  PROVE  StepConfined
  BY Zenon, ConfinedRefl DEF StepConfined

LEMMA StopKeeps ==
  ASSUME RvInv, RvStop
  PROVE  RvInv' /\ StepConfined
<1>1. /\ rvRun \in Runs /\ rvSteps \in Nat /\ rvSteps = rvRun.acc + rvRun.done
      /\ rvRun.done = rvRun.max /\ rvRun.acc + rvRun.max <= rvRun.budget
      /\ rvRun.driver = "pvm" => rvRun.acc + rvRun.max = rvRun.budget
  BY Zenon DEF RvInv, RunOK, RvStop
<1>2. /\ rvRun.max \in Nat /\ rvRun.done \in Nat /\ rvRun.acc \in Nat /\ rvRun.budget \in Nat
  BY Zenon, <1>1, RunFields
<1>3. PICK steps \in Nat : steps = rvRun.acc + rvRun.done /\ steps = rvSteps
  BY Zenon, <1>1, <1>2
<1>4. steps <= rvRun.budget /\ (rvRun.driver = "pvm" => steps = rvRun.budget)
  BY Zenon, <1>1, <1>2, <1>3
<1>5. RunOK([rvRun EXCEPT !.phase = "done", !.kind = "running", !.steps = steps], steps)
  BY Zenon, <1>1, <1>4, Returned
<1>6. rvSteps' = rvSteps /\ rvRun' = [rvRun EXCEPT !.phase = "done", !.kind = "running", !.steps = steps]
  BY Zenon, <1>3 DEF RvStop, Return
<1>7. RunOK(rvRun', rvSteps')
  BY Zenon, <1>3, <1>5, <1>6
<1>. QED
  BY Zenon, <1>7, HartUnchanged DEF RvInv, RvStop

LEMMA CallKeeps ==
  ASSUME RvInv, RvCall
  PROVE  RvInv' /\ StepConfined
<1>1. PICK max \in RvScenarios[rvGuest].budgets :
        rvRun' = [Running(rvRun.driver, max) EXCEPT !.calls = rvRun.calls + 1]
  BY Zenon DEF RvCall
<1>2. max \in Nat
  BY Zenon, RvScenariosAssumption DEF RvInv
<1>3. rvRun.driver \in {"interpreter", "pvm"} /\ rvRun.calls \in Int
  BY Zenon, RunFields DEF RvInv, RunOK
<1>4. PICK d \in {"interpreter", "pvm"}, k \in Int : d = rvRun.driver /\ k = rvRun.calls + 1
  BY <1>3
<1>5. rvRun' = [driver |-> d, phase |-> "step", max |-> max, done |-> 0, acc |-> 0,
                budget |-> max, calls |-> k, kind |-> "none", steps |-> 0]
  BY Zenon, <1>1, <1>4 DEF Running
<1>6. rvSteps' = 0
  BY ZenonT(30) DEF RvCall
<1>7. RunOK(rvRun', rvSteps')
  BY <1>2, <1>4, <1>5, <1>6 DEF RunOK, Runs
<1>. QED
  BY Zenon, <1>7, HartUnchanged DEF RvInv, RvCall

\* The environment call of every mode is a trap.
LEMMA EnvCallLegal ==
  ASSUME NEW m \in Modes
  PROVE  LegalTrap(EnvCallFrom(m))
<1>1. EnvCallFrom(m).kind = "exception" /\ EnvCallFrom(m).code \in {8, 9, 11}
  BY Zenon DEF EnvCallFrom, Trap, Modes, User, Supervisor, Machine
<1>. QED
  BY <1>1 DEF LegalTrap

LEMMA FatalKeeps ==
  ASSUME RvInv, rvRun.phase = "call", Fatal, UNCHANGED rvGuest
  PROVE  RvInv' /\ StepConfined
<1>1. /\ rvRun \in Runs /\ rvSteps \in Nat /\ rvSteps = rvRun.acc + rvRun.done
      /\ rvRun.done < rvRun.max /\ rvRun.acc + rvRun.max <= rvRun.budget
  BY Zenon DEF RvInv, RunOK
<1>2. /\ rvRun.max \in Nat /\ rvRun.done \in Nat /\ rvRun.acc \in Nat /\ rvRun.budget \in Nat
  BY Zenon, <1>1, RunFields
<1>3. PICK steps \in Nat : steps = rvRun.acc + rvRun.done /\ steps = rvSteps
  BY Zenon, <1>1, <1>2
<1>4. steps <= rvRun.budget
  BY <1>1, <1>2, <1>3
<1>5. PICK kind \in {"exception", "panic"} :
        kind = IF rvRun.driver = "pvm" THEN "panic" ELSE "exception"
  BY Zenon
<1>6. kind \in {"running", "exit", "exception", "panic"} /\ kind # "running"
  BY Zenon, <1>5
<1>7. RunOK([rvRun EXCEPT !.phase = "done", !.kind = kind, !.steps = steps], steps)
  BY Zenon, <1>1, <1>4, <1>6, Returned
<1>8. rvSteps' = rvSteps /\ rvRun' = [rvRun EXCEPT !.phase = "done", !.kind = kind, !.steps = steps]
  BY Zenon, <1>3, <1>5 DEF Fatal, Return
<1>9. RunOK(rvRun', rvSteps')
  BY Zenon, <1>3, <1>7, <1>8
<1>. QED
  BY Zenon, <1>9, HartUnchanged DEF RvInv, Fatal

\* A call that is not the exit mode's goes to the guest's own handler.
LEMMA ForwardKeeps ==
  ASSUME RvInv, rvRun.phase = "call", UNCHANGED <<rvGuest, rvPosix>>,
         \E t \in {InHandler(rvSaved, take_trap_from_mode(rvHart, EnvCallFrom(rvHart.mode), rvHart.pc))} :
           rvHart' = t.hart /\ rvSaved' = t.saved,
         rvSteps' = rvSteps + 1, Answer(FALSE, TRUE)
  PROVE  RvInv' /\ StepConfined
<1>1. HartOK(rvHart) /\ SavedOK(rvSaved, rvHart.csr) /\ RunOK(rvRun, rvSteps)
  BY Zenon DEF RvInv
<1>2. rvHart.mode \in Modes
  BY Zenon, <1>1 DEF HartOK, Harts
<1>3. PICK trap : trap = EnvCallFrom(rvHart.mode)
  BY Zenon
<1>4. LegalTrap(trap)
  BY Zenon, <1>2, <1>3, EnvCallLegal
<1>5. PICK t : /\ t = InHandler(rvSaved, take_trap_from_mode(rvHart, trap, rvHart.pc))
               /\ rvHart' = t.hart /\ rvSaved' = t.saved
  BY Zenon, <1>3
<1>6. /\ HartOK(t.hart) /\ SavedOK(t.saved, t.hart.csr)
      /\ t.hart.mode # Machine => Confined(rvHart.csr, t.hart.csr)
  BY Zenon, <1>1, <1>4, <1>5, HandlerEntered
<1>7. HartOK(rvHart') /\ SavedOK(rvSaved', rvHart'.csr) /\ StepConfined
  BY Zenon, <1>5, <1>6 DEF StepConfined
<1>8. RunOK(rvRun', rvSteps')
  BY Zenon, <1>1, Answered
<1>. QED
  BY Zenon, <1>7, <1>8 DEF RvInv

LEMMA ExitKeeps ==
  ASSUME RvInv, rvRun.phase = "call", UNCHANGED <<rvGuest, rvHart, rvSaved>>, rvPosix.exited = 0,
         \E code \in {0, 1} : rvPosix' = [rvPosix EXCEPT !.exited = @ + 1, !.code = code],
         rvSteps' = rvSteps + 1, Answer(TRUE, FALSE)
  PROVE  RvInv' /\ StepConfined
<1>1. rvPosix \in [exited : {0, 1}, code : {0, 1}, exitMode : Modes]
  BY Zenon DEF RvInv
<1>2. PICK code \in {0, 1} : rvPosix' = [rvPosix EXCEPT !.exited = @ + 1, !.code = code]
  BY Zenon
<1>3. rvPosix' = [rvPosix EXCEPT !.exited = 1, !.code = code]
  BY <1>2
<1>4. rvPosix' \in [exited : {0, 1}, code : {0, 1}, exitMode : Modes]
  BY Zenon, <1>1, <1>3
<1>5. RunOK(rvRun', rvSteps')
  BY Zenon, Answered DEF RvInv
<1>. QED
  BY Zenon, <1>4, <1>5, HartUnchanged DEF RvInv

LEMMA EveryStepKeeps ==
  ASSUME RvInv, RvNext
  PROVE  RvInv' /\ StepConfined
<1>1. CASE RvStep
  BY Zenon, <1>1, StepKeeps
<1>2. CASE RvStop
  BY Zenon, <1>2, StopKeeps
<1>3. CASE handle_call
  <2>1. rvRun.phase = "call" /\ UNCHANGED rvGuest
    BY Zenon, <1>3 DEF handle_call
  <2>2. CASE Fatal
    BY Zenon, <2>1, <2>2, FatalKeeps
  <2>3. CASE /\ \E t \in {InHandler(rvSaved, take_trap_from_mode(rvHart,
                                       EnvCallFrom(rvHart.mode), rvHart.pc))} :
                  rvHart' = t.hart /\ rvSaved' = t.saved
             /\ rvSteps' = rvSteps + 1 /\ UNCHANGED rvPosix /\ Answer(FALSE, TRUE)
    BY Zenon, <2>1, <2>3, ForwardKeeps
  <2>4. CASE /\ rvPosix.exited = 0
             /\ \E code \in {0, 1} : rvPosix' = [rvPosix EXCEPT !.exited = @ + 1, !.code = code]
             /\ rvSteps' = rvSteps + 1 /\ UNCHANGED <<rvHart, rvSaved>> /\ Answer(TRUE, FALSE)
    BY Zenon, <2>1, <2>4, ExitKeeps
  <2>. QED
    BY Zenon, <1>3, <2>2, <2>3, <2>4 DEF handle_call
<1>4. CASE RvCall
  BY Zenon, <1>4, CallKeeps
<1>. QED
  BY Zenon, <1>1, <1>2, <1>3, <1>4 DEF RvNext

(***************************************************************************)
(* What the invariant says of the hart.                                    *)
(***************************************************************************)
LEMMA LegalMeans ==
  ASSUME NEW s \in SUBSET Bits64, StatusLegal(s), s # {}
  PROVE  /\ s \subseteq MSTATUS_FIELDS_MASK
         /\ GetField(s, MPP) # {1}
         /\ GetField(s, SXL) \in {{}, MXL64}
         /\ GetField(s, UXL) = MXL64
         /\ (63 \in s) <=> \E f \in {XS, FS, VS} : GetField(s, f) = Dirty
<1>1. s \subseteq MSTATUS_FIELDS_MASK
  BY Zenon, StatusFields DEF StatusLegal
<1>2. /\ 12 \in s => 11 \in s
      /\ 33 \in s /\ 32 \notin s /\ 34 \notin s /\ (63 \in s <=> SomeDirty(s))
  BY Zenon DEF StatusLegal
<1>3. GetField(s, MPP) # {1}
  BY <1>2, ContextFields
<1>4. GetField(s, SXL) = IF 35 \in s THEN {1} ELSE {}
  <2>1. GetField(s, SXL) = (IF 34 \in s THEN {0} ELSE {}) \cup (IF 34 + 1 \in s THEN {1} ELSE {})
    BY Fields, TwoBits
  <2>. QED
    BY <1>2, <2>1
<1>5. GetField(s, UXL) = {1}
  <2>1. GetField(s, UXL) = (IF 32 \in s THEN {0} ELSE {}) \cup (IF 32 + 1 \in s THEN {1} ELSE {})
    BY Fields, TwoBits
  <2>. QED
    BY <1>2, <2>1
<1>6. (63 \in s) <=> \E f \in {XS, FS, VS} : GetField(s, f) = Dirty
  BY Zenon, <1>2, DirtyFields
<1>. QED
  BY Zenon, <1>1, <1>3, <1>4, <1>5, <1>6 DEF MXL64

LEMMA InvTypes == RvInv => RvTypeOK
<1>. SUFFICES ASSUME RvInv PROVE RvTypeOK
  OBVIOUS
<1>1. PICK c, status : c = rvHart.csr /\ status = c[mstatus]
  BY Zenon
<1>2. rvHart \in Harts /\ CsrLegal(c)
  BY Zenon, <1>1 DEF RvInv, HartOK
<1>3. rvHart.mode \in Modes /\ rvHart.pc \in 0 .. (AddressSpan - 1)
  BY Zenon, <1>2 DEF Harts, Addresses
<1>4. rvPosix.exited \in {0, 1}
  BY Zenon DEF RvInv
<1>5. c \in Csrs /\ \A r \in Stored : LegalValue(r, c[r])
  BY Zenon, <1>2 DEF CsrLegal
<1>6. {mstatus, mip, mie, mcause, scause, mideleg, medeleg, mepc, sepc, mtvec, stvec, satp} \subseteq Stored
  BY Zenon DEF Stored
<1>7. status \in SUBSET Bits64 /\ StatusLegal(status)
  <2>1. c[mstatus] \in SUBSET Bits64
    BY Zenon, <1>5, <1>6 DEF Csrs
  <2>. QED
    BY Zenon, <1>1, <1>5, <1>6, <2>1 DEF LegalValue
<1>8. c[mip] \subseteq Interrupts /\ c[mie] \subseteq Interrupts /\ c[mideleg] \subseteq Interrupts
  BY Zenon, <1>5, <1>6 DEF LegalValue
<1>9. c[mip] \cup c[mie] \subseteq SUPERVISOR_BIT_MASK \cup MACHINE_BIT_MASK
  BY Zenon, <1>8 DEF Interrupts
<1>10. c[mcause] \in MCauses /\ c[scause] \in SCauses /\ 11 \notin c[medeleg]
  BY Zenon, <1>5, <1>6 DEF LegalValue
<1>11. 0 \notin c[mepc] \cup c[sepc] /\ 1 \notin c[mtvec] \cup c[stvec]
  BY Zenon, <1>5, <1>6 DEF LegalValue
<1>12. GetField(c[satp], SATP_MODE) = {} => c[satp] = {}
  BY Zenon, <1>5, <1>6 DEF LegalValue
<1>13. \/ status = {}
       \/ /\ status \subseteq MSTATUS_FIELDS_MASK
          /\ GetField(status, MPP) # {1}
          /\ GetField(status, SXL) \in {{}, MXL64}
          /\ GetField(status, UXL) = MXL64
          /\ (63 \in status) <=> \E f \in {XS, FS, VS} : GetField(status, f) = Dirty
  BY Zenon, <1>7, LegalMeans
<1>. QED
  BY ZenonT(30), <1>1, <1>3, <1>4, <1>8, <1>9, <1>10, <1>11, <1>12, <1>13 DEF RvTypeOK, Interrupts

LEMMA InvSound == RvInv => RvHartSound
<1>. SUFFICES ASSUME RvInv PROVE RvHartSound
  OBVIOUS
<1>1. RvTypeOK
  BY Zenon, InvTypes
<1>2. RvTrapReturns
  BY Zenon DEF RvInv, SavedOK, Context, RvTrapReturns
<1>3. RvStepsReported
  BY Zenon DEF RvInv, RunOK, RvStepsReported
<1>. QED
  BY Zenon, <1>1, <1>2, <1>3 DEF RvHartSound

LEMMA InvInductive == RvInv /\ [RvNext]_rvVars => RvInv'
<1>. SUFFICES ASSUME RvInv, [RvNext]_rvVars PROVE RvInv'
  OBVIOUS
<1>1. CASE RvNext
  BY Zenon, <1>1, EveryStepKeeps
<1>2. CASE UNCHANGED rvVars
  BY Zenon, <1>2 DEF RvInv, rvVars
<1>. QED
  BY Zenon, <1>1, <1>2

\* Whatever the guest executes, in every reachable state the control registers
\* hold legal values, what a trap interrupted is intact for the handler that
\* returns to it, and a call reports no more steps than it was allowed (the
\* registers of csregisters.rs, the traps and returns of hart_state.rs, the
\* drivers of the interpreter and of the PVM).
THEOREM HartIsSound == RvSpec => []RvHartSound
<1>1. RvInv /\ [RvNext]_rvVars => RvInv'
  BY Zenon, InvInductive
<1>. QED
  BY <1>1, RvInitial, InvSound, PTL DEF RvSpec

\* A step below machine mode changes nothing the machine owns, and makes no
\* machine interrupt pending (check_privilege and the shadow registers of
\* csregisters.rs, the delegated traps of hart_state.rs).
THEOREM HartIsConfined == RvSpec => RvConfined
<1>1. RvInv /\ [RvNext]_rvVars => RvInv'
  BY Zenon, InvInductive
<1>2. RvInv /\ RvInv' /\ [RvNext]_rvVars =>
        [(/\ rvHart.mode # Machine /\ rvHart'.mode # Machine
          /\ rvRun.phase = "step" => ModeOfInstruction # Machine)
           => /\ MachineOwned(rvHart'.csr) = MachineOwned(rvHart.csr)
              /\ rvHart'.csr[mip] \cap MACHINE_BIT_MASK
                     \subseteq rvHart.csr[mip]]_rvVars
  <2>. SUFFICES ASSUME RvInv, RvInv', RvNext,
                       /\ rvHart.mode # Machine /\ rvHart'.mode # Machine
                       /\ rvRun.phase = "step" => ModeOfInstruction # Machine
                PROVE  /\ MachineOwned(rvHart'.csr) = MachineOwned(rvHart.csr)
                       /\ rvHart'.csr[mip] \cap MACHINE_BIT_MASK \subseteq rvHart.csr[mip]
    BY Zenon
  <2>1. Confined(rvHart.csr, rvHart'.csr)
    BY Zenon, EveryStepKeeps DEF StepConfined
  <2>2. rvHart.csr \in Csrs /\ rvHart'.csr \in Csrs
    BY Zenon DEF RvInv, HartOK, CsrLegal
  <2>. QED
    BY Zenon, <2>1, <2>2, ConfinedMeans
<1>. QED
  BY <1>1, <1>2, RvInitial, PTL DEF RvSpec, RvConfined

(****************************************************************************)
(* What fees.rs guarantees, for every gas, price and data fee.              *)
(****************************************************************************)
\* Rounding up: the least multiple of r that is at least l.
LEMMA CdivRounds ==
  ASSUME NEW l \in Nat, NEW r \in Nat \ {0}
  PROVE  /\ cdiv(l, r) \in Nat
         /\ l <= cdiv(l, r) * r
         /\ cdiv(l, r) * r < l + r
<1>1. l = r * (l \div r) + (l % r) /\ l % r \in 0 .. (r - 1) /\ (l \div r) \in Int
  OBVIOUS
<1>2. (l \div r) >= 0
  OBVIOUS
<1> QED BY <1>1, <1>2, Z3 DEF cdiv

\* What the user pays beyond the execution gas, and what is burned and given
\* to the sequencer, are the same amount: no fee is created or lost
\* (FeeUpdates::of_gas_and_da_fee, FeeUpdates::apply).
THEOREM FeesBalance ==
  ASSUME NEW used \in Nat, NEW price \in Nat \ {0}, NEW da \in Nat
  PROVE  LET f == of_gas_and_da_fee(used, price, da)
         IN /\ f.burn \in Nat /\ f.charge \in Nat /\ f.compensate \in Nat
            /\ f.burn + f.compensate = used * price + f.charge
            /\ f.used * f.price = used * price + f.charge
            /\ f.charge >= da /\ f.charge < da + price
<1> DEFINE exec == used * price
           gas == cdiv(da + exec, price)
<1>1. exec \in Nat /\ da + exec \in Nat
  OBVIOUS
<1>2. gas \in Nat /\ da + exec <= gas * price /\ gas * price < da + exec + price
  BY Zenon, <1>1, CdivRounds
<1>3. gas * price = price * gas /\ gas * price \in Nat
  BY <1>2
<1> HIDE DEF exec, gas
<1>4. LET f == [price |-> price, used |-> gas, burn |-> exec + price * gas - (da + exec),
                charge |-> price * gas - exec, compensate |-> da]
      IN /\ f.burn \in Nat /\ f.charge \in Nat /\ f.compensate \in Nat
         /\ f.burn + f.compensate = exec + f.charge
         /\ f.used * f.price = exec + f.charge
         /\ f.charge >= da /\ f.charge < da + price
  BY <1>1, <1>2, <1>3
<1> QED BY Zenon, <1>4 DEF of_gas_and_da_fee, exec, gas

\* The gas reported to the user stays within the gas limit they signed: the
\* execution used at most what tx_execution_gas_limit left of it.
THEOREM OverallGasWithinLimit ==
  ASSUME NEW used \in Nat, NEW price \in Nat \ {0}, NEW da \in Nat, NEW limit \in Nat,
         used <= tx_execution_gas_limit(limit, da, price, FALSE)
  PROVE  of_gas_and_da_fee(used, price, da).used <= limit
<1> DEFINE feeGas == cdiv(da, price)
           gas == cdiv(da + used * price, price)
<1>1. feeGas \in Nat /\ da <= feeGas * price
  BY Zenon, CdivRounds
<1>2. used * price \in Nat /\ da + used * price \in Nat
  OBVIOUS
<1>3. gas \in Nat /\ gas * price < (da + used * price) + price
  BY Zenon, <1>2, CdivRounds
<1>4. used + feeGas <= limit
  BY <1>1 DEF tx_execution_gas_limit, gas_for_fees
<1> HIDE DEF feeGas, gas
<1>5. (used + feeGas + 1) * price = used * price + feeGas * price + price
  BY <1>1
<1>6. gas * price < (used + feeGas + 1) * price
  BY <1>1, <1>2, <1>3, <1>5
<1>7. gas < used + feeGas + 1
  <2>1. SUFFICES ASSUME gas >= used + feeGas + 1 PROVE FALSE
    BY <1>1, <1>3
  <2>2. PICK d \in Nat : gas = (used + feeGas + 1) + d
    <3>1. gas - (used + feeGas + 1) \in Nat
      BY <2>1, <1>1, <1>3
    <3> QED BY <3>1, <1>1, <1>3
  <2>3. gas * price = (used + feeGas + 1) * price + d * price /\ d * price \in Nat
    BY <2>2, <1>1
  <2> QED BY <2>3, <1>6, <1>1
<1>8. gas <= limit
  BY <1>7, <1>4, <1>1, <1>3
<1>9. of_gas_and_da_fee(used, price, da).used = gas
  BY Zenon DEF of_gas_and_da_fee, gas
<1> QED BY Zenon, <1>8, <1>9

\* The gas a simulation reports is enough at every later price: what it adds
\* for the data availability fee is computed at the lowest one
\* (simulation_add_gas_for_fees).
THEOREM EstimateCoversFees ==
  ASSUME NEW used \in Nat, NEW da \in Nat, NEW minimum \in Nat \ {0}, NEW now \in Nat,
         NEW price \in Nat, price >= minimum
  PROVE  LET estimate == simulation_add_gas_for_fees(used, da, minimum, now)
         IN tx_execution_gas_limit(estimate, da, price, FALSE) >= used
<1> DEFINE low == cdiv(da, minimum)
           gas == cdiv(da, price)
<1>1. low \in Nat /\ da <= low * minimum
  BY Zenon, CdivRounds
<1>2. price \in Nat \ {0}
  OBVIOUS
<1>3. gas \in Nat /\ gas * price < da + price
  BY Zenon, <1>2, CdivRounds
<1> HIDE DEF low, gas
<1>4. low * minimum <= low * price
  <2>1. PICK d \in Nat : price = minimum + d
    <3>1. price - minimum \in Nat
      OBVIOUS
    <3> QED BY <3>1
  <2>2. low * price = low * minimum + low * d /\ low * d \in Nat
    BY <2>1, <1>1
  <2> QED BY <2>2, <1>1
<1>5. gas * price < (low + 1) * price
  <2>1. (low + 1) * price = low * price + price
    BY <1>1
  <2> QED BY <2>1, <1>1, <1>3, <1>4
<1>6. gas <= low
  <2>1. SUFFICES ASSUME gas >= low + 1 PROVE FALSE
    BY <1>1, <1>3
  <2>2. PICK d \in Nat : gas = (low + 1) + d
    <3>1. gas - (low + 1) \in Nat
      BY <2>1, <1>1, <1>3
    <3> QED BY <3>1, <1>1, <1>3
  <2>3. gas * price = (low + 1) * price + d * price /\ d * price \in Nat
    BY <2>2, <1>1
  <2> QED BY <2>3, <1>5, <1>1
<1>7. (used + low) - gas >= used
  BY <1>1, <1>3, <1>6
<1> QED BY Zenon, <1>7 DEF simulation_add_gas_for_fees, tx_execution_gas_limit, gas_for_fees, low, gas
=============================================================================
