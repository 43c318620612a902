------------------------------- MODULE RvHart ------------------------------
(***************************************************************************)
(* One hart of the RISC-V interpreter, the Posix execution environment     *)
(* that serves its environment calls, and the two drivers that run it: the *)
(* Interpreter of the sandbox and the PVM.                                 *)
(*                                                                         *)
(* The hart is its program counter, its mode and its control registers.    *)
(* General registers and memory contents are abstracted: the instruction   *)
(* found at an address inside the memory, with the operand values it reads *)
(* from registers, is any member of the scenario's set, each time it is    *)
(* fetched.  Arithmetic and memory contents are the subject of RvAlu.      *)
(***************************************************************************)
EXTENDS RvCsr, Sequences

CONSTANTS
    RvScenarios,     \* the guests: what they execute and how they are run;
                     \* each bounds the steps and the calls of its run
    RvMemStart,      \* first address of main memory
    RvMemEnd         \* first address after it

ASSUME RvMemoryAssumption ==
    /\ RvMemStart \in Nat /\ RvMemEnd \in Nat
    /\ RvMemStart < RvMemEnd /\ RvMemEnd < AddressSpan - 64

CsrOps == {"csrrw", "csrrs", "csrrc"}
RvOperations ==
    CsrOps \cup {"mret", "sret", "ecall", "ebreak", "mnret", "unknown", "jal", "load", "store",
                 "wfi", "fence", "alu"}

\* A guest executes decoded instructions; a csr instruction names one of the
\* registers in Stored or a shadow of one.
ASSUME RvScenariosAssumption ==
    \A guest \in DOMAIN RvScenarios :
        /\ RvScenarios[guest].budgets \subseteq Nat
        /\ \A i \in RvScenarios[guest].instrs :
            /\ i.op \in RvOperations
            /\ i.op \in CsrOps => ShadowOf(i.csr) \in Stored /\ i.value \subseteq Bits64
            /\ i.op = "jal" => i.imm \in Int

VARIABLES
    rvGuest,    \* the number of the scenario
    rvHart,     \* program counter, mode, control registers
    rvPosix,    \* the environment's exited counter, exit code and exit mode
    rvRun,      \* the driver: its recursion's step counts and its result
    rvSaved,    \* by trap mode, what the last trap there interrupted
    rvSteps     \* completed steps of the current call, counted one by one

rvVars == <<rvGuest, rvHart, rvPosix, rvRun, rvSaved, rvSteps>>

NotSaved == [saved |-> FALSE]
TrapModes == {Supervisor, Machine}

(***************************************************************************)
(* Traps.                                                                  *)
(***************************************************************************)
Trap(kind, code, tval) == [kind |-> kind, code |-> code, tval |-> tval]

InstructionAccessFault(address) == Trap("exception", 1, address)
IllegalInstruction == Trap("exception", 2, 0)
Breakpoint == Trap("exception", 3, 0)
LoadAccessFault(address) == Trap("exception", 5, address)
StoreAccessFault(address) == Trap("exception", 7, address)
EnvCallFrom(mode) ==
    Trap("exception", CASE mode = User -> 8 [] mode = Supervisor -> 9
                        [] mode = Machine -> 11, 0)

xcause(trap) == ToBits(trap.code)
                \cup (IF trap.kind = "interrupt" THEN {InterruptBit} ELSE {})

\* Exceptions that are the execution environment's business.
EnvironException(trap) == trap.kind = "exception" /\ trap.code \in {8, 9, 11}

TrapRegisters(mode) ==
    IF mode = Supervisor
    THEN [tvec |-> stvec, epc |-> sepc, cause |-> scause, tval |-> stval,
          previous |-> SPP, enabled |-> SIE, before |-> SPIE]
    ELSE [tvec |-> mtvec, epc |-> mepc, cause |-> mcause, tval |-> mtval,
          previous |-> MPP, enabled |-> MIE, before |-> MPIE]

\* The status register prepared for a handler: interrupts off, the mode and
\* the interrupt enable of the interrupted code remembered.
StatusOnTrap(status, r, mode) ==
    LET off == SetField(SetField(status, r.before, GetField(status, r.enabled)),
                        r.enabled, {})
    IN  SetField(off, r.previous, ModeBits(mode))

\* The registers the trap is recorded in, in the order of the writes.
TrapWrites(csr, r, trap, return_pc) ==
    csr_write(csr_write(csr_write(csr, r.epc, ToBits(return_pc)), r.cause, xcause(trap)),
              r.tval, ToBits(trap.tval))

WithStatus(csr, r, mode) ==
    csr_write(csr, mstatus, StatusOnTrap(csr_read(csr, mstatus), r, mode))

\* No write of the trap changes the address of the handler.
EnterHandler(hart, trap, return_pc, mode, r) ==
    [hart |-> [hart EXCEPT !.csr = WithStatus(TrapWrites(@, r, trap, return_pc), r, hart.mode),
                           !.mode = mode],
     pc |-> trap_handler_address(trap.kind, trap.code, hart.csr[r.tvec]),
     ghost |-> [saved |-> TRUE, mode |-> hart.mode, pc |-> return_pc,
                enabled |-> GetField(hart.csr[mstatus], r.enabled),
                cause |-> xcause(trap)]]

TakeTrapIn(hart, trap, return_pc, mode) ==
    EnterHandler(hart, trap, return_pc, mode, TrapRegisters(mode))

take_trap_from_mode(hart, trap, return_pc) ==
    TakeTrapIn(hart, trap, return_pc,
               get_trap_mode(hart.csr, trap.kind, trap.code, hart.mode))

(***************************************************************************)
(* Instructions.  The result of one is the hart it leaves, with either the *)
(* next program counter or an exception.                                   *)
(***************************************************************************)
Next4(hart, at) == [hart |-> hart, ok |-> TRUE, pc |-> (at + 4) % AddressSpan]
Jump(hart, pc) == [hart |-> hart, ok |-> TRUE, pc |-> pc % AddressSpan]
Raise(hart, trap) == [hart |-> hart, ok |-> FALSE, trap |-> trap]

InMemory(address, length) ==
    RvMemStart <= address /\ address + length <= RvMemEnd

\* A csr instruction's operand and whether it asks for no write: csrrs and
\* csrrc with register x0 or a zero immediate only read.
CsrOperand(i) == IF i.imm THEN i.value \cap 0 .. 4 ELSE i.value
ReadsOnly(i) ==
    /\ i.op # "csrrw"
    /\ IF i.imm THEN CsrOperand(i) = {} ELSE i.x0

CsrAccess(csr, i, value) ==
    IF ReadsOnly(i) THEN csr
    ELSE CASE i.op = "csrrw" -> csr_write(csr, i.csr, value)
           [] i.op = "csrrs" -> csr_set_bits(csr, i.csr, value)
           [] i.op = "csrrc" -> csr_clear_bits(csr, i.csr, value)

run_csr(hart, i, at) ==
    IF ~check_privilege(i.csr, hart.mode) \/ (~ReadsOnly(i) /\ ~check_write(i.csr))
    THEN Raise(hart, IllegalInstruction)
    ELSE Next4([hart EXCEPT !.csr = CsrAccess(@, i, CsrOperand(i))], at)

\* The status register after a return: the remembered interrupt enable is
\* back, and the least privileged mode is what is remembered.
StatusOnReturn(status, r) ==
    SetField(SetField(SetField(status, r.enabled, GetField(status, r.before)),
                      r.before, {0}), r.previous, {})

\* Writing the status leaves the address to return to as it is.
ReturnTo(hart, mode, epc, status) ==
    Jump([hart EXCEPT !.csr = csr_write(@, mstatus, status), !.mode = mode],
         ToNat(csr_read(hart.csr, epc)))

run_mret(hart) ==
    IF hart.mode # Machine THEN Raise(hart, IllegalInstruction)
    ELSE LET status == csr_read(hart.csr, mstatus)
             previous == MPPValue(GetField(status, MPP))
             back == StatusOnReturn(status, TrapRegisters(Machine))
         IN  ReturnTo(hart, previous, mepc,
                      IF previous = Machine THEN back ELSE SetField(back, MPRV, {}))

run_sret(hart) ==
    LET status == csr_read(hart.csr, mstatus)
        previous == SPPValue(GetField(status, SPP))
        back == StatusOnReturn(status, TrapRegisters(Supervisor))
    IN  IF hart.mode = User \/ GetField(status, TSR) = {0}
        THEN Raise(hart, IllegalInstruction)
        ELSE ReturnTo(hart, previous, sepc, SetField(back, MPRV, {}))

\* Jumps and branches start from the program counter cell of the hart; every
\* other instruction advances from the address it was fetched at.
run_instr(hart, i, at) ==
    CASE i.op \in CsrOps -> run_csr(hart, i, at)
      [] i.op = "mret" -> run_mret(hart)
      [] i.op = "sret" -> run_sret(hart)
      [] i.op = "ecall" -> Raise(hart, EnvCallFrom(hart.mode))
      [] i.op = "ebreak" -> Raise(hart, Breakpoint)
      [] i.op \in {"mnret", "unknown"} -> Raise(hart, IllegalInstruction)
      [] i.op = "jal" -> Jump(hart, hart.pc + AddressSpan + i.imm)
      [] i.op = "load" -> IF InMemory(i.address, 1) THEN Next4(hart, at)
                          ELSE Raise(hart, LoadAccessFault(i.address))
      [] i.op = "store" -> IF InMemory(i.address, 1) THEN Next4(hart, at)
                           ELSE Raise(hart, StoreAccessFault(i.address))
      [] i.op \in {"wfi", "fence", "alu"} -> Next4(hart, at)

run_instr_at(hart, i, at) ==
    IF InMemory(at, 4) THEN run_instr(hart, i, at)
    ELSE Raise(hart, InstructionAccessFault(at))

(***************************************************************************)
(* One step: take the interrupt of highest priority, if any, then run one  *)
(* instruction and take the exception it raises.                           *)
(***************************************************************************)
InterruptPriority == <<11, 3, 7, 9, 1, 5>>

\* The set of at most one interrupt to take.
get_pending_interrupt(hart) ==
    LET active == csr_read(hart.csr, mip)
                  \cap possible_interrupts(hart.csr, hart.mode)
        first(k) == /\ InterruptPriority[k] \in active
                    /\ \A j \in 1 .. k - 1 : InterruptPriority[j] \notin active
    IN  {InterruptPriority[k] : k \in {k \in 1 .. 6 : first(k)}}

address_on_interrupt(hart, code) ==
    take_trap_from_mode(
        [hart EXCEPT !.csr = csr_write(@, mip, csr_read(@, mip) \ {code})],
        Trap("interrupt", code, 0), hart.pc)

\* What the step leaves in rvSaved: a trap replaces the context of its mode;
\* a guest that writes one of the registers holding a context, or returns
\* from it, gives the context up.
GivesUp(i, hart, m) ==
    LET r == TrapRegisters(m)
    IN  \/ i.op = "mret" /\ m = Machine /\ hart.mode = Machine
        \/ i.op = "sret" /\ m = Supervisor /\ hart.mode # User
        \/ /\ i.op \in CsrOps
           /\ \/ i.csr \in {mstatus, r.epc, r.cause}
              \/ i.csr = sstatus /\ m = Supervisor

SaveTrap(saved, t) == [saved EXCEPT ![t.hart.mode] = t.ghost]
Noted(saved, t) == [hart |-> t.hart, pc |-> t.pc, saved |-> SaveTrap(saved, t)]

Kept(saved, i, hart, at) ==
    [m \in TrapModes |->
        IF InMemory(at, 4) /\ GivesUp(i, hart, m) THEN NotSaved ELSE saved[m]]

\* The hart in the handler of a trap just taken.
InHandler(saved, t) ==
    [hart |-> [t.hart EXCEPT !.pc = t.pc], saved |-> SaveTrap(saved, t), env |-> FALSE]

\* From the hart h on, at an address, to the result r of its instruction.
handle_instr_result(h, at, saved, i, r) ==
    IF r.ok
    THEN [hart |-> [r.hart EXCEPT !.pc = r.pc], saved |-> Kept(saved, i, h, at),
          env |-> FALSE]
    ELSE IF EnvironException(r.trap)
    THEN [hart |-> [r.hart EXCEPT !.pc = at], saved |-> saved, env |-> TRUE]
    ELSE InHandler(saved, take_trap_from_mode(r.hart, r.trap, at))

RunFrom(h, at, saved, i) ==
    handle_instr_result(h, at, saved, i, run_instr_at(h, i, at))

\* An interrupt leads to the address of its handler, but leaves the program
\* counter cell of the hart.
Interrupted(hart, saved, pending) ==
    IF pending = {} THEN [hart |-> hart, pc |-> hart.pc, saved |-> saved]
    ELSE Noted(saved, address_on_interrupt(hart, CHOOSE code \in pending : TRUE))

StepAfter(s, i) == RunFrom(s.hart, s.pc, s.saved, i)

machine_step(hart, saved, i) ==
    StepAfter(Interrupted(hart, saved, get_pending_interrupt(hart)), i)

(***************************************************************************)
(* Booting.  The interpreter starts from zeroed cells in machine mode and  *)
(* only chooses the mode whose environment calls exit; a reset machine has *)
(* its registers' defaults.  Both delegate every trap to the supervisor.   *)
(***************************************************************************)
setup_boot(csr, mode) ==
    [pc |-> RvMemStart, mode |-> mode,
     csr |-> csr_write(csr_write(csr, medeleg, Bits64), mideleg, Bits64)]

Running(driver, max) ==
    [driver |-> driver, phase |-> "step", max |-> max, done |-> 0, acc |-> 0,
     budget |-> max, calls |-> 1, kind |-> "none", steps |-> 0]

RvInit ==
    \E guest \in DOMAIN RvScenarios, exitMode \in Modes, max \in 0 .. 9 :
    \E driver \in {"interpreter", "pvm"} :
        /\ max \in RvScenarios[guest].budgets
        /\ exitMode \in RvScenarios[guest].exits
        /\ rvGuest = guest
        /\ \/ RvScenarios[guest].boot = "new"
              /\ rvHart = setup_boot(ZeroCsr, Machine)
           \/ RvScenarios[guest].boot = "reset"
              /\ \E mode \in Modes : rvHart = setup_boot(csr_reset, mode)
        /\ rvPosix = [exited |-> 0, code |-> 0, exitMode |-> exitMode]
        /\ rvRun = Running(driver, max)
        /\ rvSaved = [m \in TrapModes |-> NotSaved]
        /\ rvSteps = 0

(***************************************************************************)
(* The drivers.  step_many performs steps until the maximum or an          *)
(* environment exception; the driver lets the environment handle the       *)
(* exception and recurses with the steps that are left.                    *)
(***************************************************************************)
RvStep ==
    /\ rvRun.phase = "step" /\ rvRun.done < rvRun.max
    /\ \E i \in RvScenarios[rvGuest].instrs :
        \E s \in {machine_step(rvHart, rvSaved, i)} :
            /\ rvHart' = s.hart
            /\ rvSaved' = s.saved
            /\ rvRun' = IF s.env THEN [rvRun EXCEPT !.phase = "call"]
                        ELSE [rvRun EXCEPT !.done = @ + 1]
            /\ rvSteps' = IF s.env THEN rvSteps ELSE rvSteps + 1
    /\ UNCHANGED <<rvGuest, rvPosix>>

Return(kind, steps) ==
    rvRun' = [rvRun EXCEPT !.phase = "done", !.kind = kind, !.steps = steps]

\* The steps are used up.
RvStop ==
    /\ rvRun.phase = "step" /\ rvRun.done = rvRun.max
    /\ Return("running", rvRun.acc + rvRun.done)
    /\ UNCHANGED <<rvGuest, rvHart, rvPosix, rvSaved, rvSteps>>

Saturating(n) == IF n < 0 THEN 0 ELSE n

\* A handled call after which evaluation may go on.
Recurse(steps, left) ==
    rvRun' = [rvRun EXCEPT !.phase = "step", !.max = left, !.done = 0,
                           !.acc = steps]

\* What the driver does with the environment's answer.
handle_step_result(exits, continues) ==
    LET steps == rvRun.acc + rvRun.done + 1
        left == Saturating(rvRun.max - steps)
    IN  CASE exits -> Return("exit", steps)
          [] ~exits /\ continues /\ left > 0 -> Recurse(steps, left)
          [] ~exits /\ ~(continues /\ left > 0) -> Return("running", steps)

step_many_accum(continues) ==
    LET steps == rvRun.acc + rvRun.done + 1
    IN  IF continues THEN Recurse(steps, Saturating(rvRun.max - (rvRun.done + 1)))
        ELSE Return("exit", steps)

Answer(exits, continues) ==
    IF rvRun.driver = "pvm" THEN step_many_accum(continues)
    ELSE handle_step_result(exits, continues)

Fatal ==
    /\ Return(IF rvRun.driver = "pvm" THEN "panic" ELSE "exception",
              rvRun.acc + rvRun.done)
    /\ UNCHANGED <<rvHart, rvPosix, rvSaved, rvSteps>>

\* The environment call of the mode the hart is in: forwarded to the guest's
\* own handler unless it comes from the exit mode, where it must be exit.
handle_call ==
    /\ rvRun.phase = "call"
    /\ UNCHANGED rvGuest
    /\ \/ rvPosix.exited > 0 /\ Fatal
       \/ /\ rvPosix.exited = 0 /\ rvHart.mode # rvPosix.exitMode
          /\ \E t \in {InHandler(rvSaved, take_trap_from_mode(rvHart,
                                       EnvCallFrom(rvHart.mode), rvHart.pc))} :
                rvHart' = t.hart /\ rvSaved' = t.saved
          /\ rvSteps' = rvSteps + 1
          /\ UNCHANGED rvPosix
          /\ Answer(FALSE, TRUE)
       \/ /\ rvPosix.exited = 0 /\ rvHart.mode = rvPosix.exitMode
          /\ \E code \in {0, 1} :
                rvPosix' = [rvPosix EXCEPT !.exited = @ + 1, !.code = code]
          /\ rvSteps' = rvSteps + 1
          /\ UNCHANGED <<rvHart, rvSaved>>
          /\ Answer(TRUE, FALSE)
       \/ rvPosix.exited = 0 /\ rvHart.mode = rvPosix.exitMode /\ Fatal

\* The caller runs the machine again.
RvCall ==
    /\ rvRun.phase = "done" /\ rvRun.kind # "panic" /\ rvRun.calls < RvScenarios[rvGuest].calls
    /\ \E max \in RvScenarios[rvGuest].budgets :
        rvRun' = [Running(rvRun.driver, max) EXCEPT !.calls = rvRun.calls + 1]
    /\ rvSteps' = 0
    /\ UNCHANGED <<rvGuest, rvHart, rvPosix, rvSaved>>

RvNext == RvStep \/ RvStop \/ handle_call \/ RvCall

RvSpec == RvInit /\ [][RvNext]_rvVars

(***************************************************************************)
(* Properties.                                                             *)
(***************************************************************************)

\* The control registers hold legal values in every reachable state: reserved
\* bits are clear, a dirty extension is summarised in SD, MPP never holds the
\* reserved mode, causes, enables, delegations and addresses are in range,
\* and satp's unsupported modes never get in.  A register no one has written
\* since power-on is zero.
RvTypeOK ==
    LET c == rvHart.csr
        status == c[mstatus]
    IN  /\ rvHart.mode \in Modes /\ rvHart.pc \in 0 .. (AddressSpan - 1)
        /\ rvPosix.exited \in {0, 1}
        /\ \/ status = {}
           \/ /\ status \subseteq MSTATUS_FIELDS_MASK
              /\ GetField(status, MPP) # {1}
              /\ GetField(status, SXL) \in {{}, MXL64}
              /\ GetField(status, UXL) = MXL64
              /\ (63 \in status) <=> \E f \in {XS, FS, VS} :
                                        GetField(status, f) = Dirty
        /\ c[mip] \cup c[mie] \subseteq SUPERVISOR_BIT_MASK \cup MACHINE_BIT_MASK
        /\ c[mcause] \in MCauses /\ c[scause] \in SCauses
        /\ c[mideleg] \subseteq SUPERVISOR_BIT_MASK \cup MACHINE_BIT_MASK
        /\ 11 \notin c[medeleg]
        /\ 0 \notin c[mepc] \cup c[sepc] /\ 1 \notin c[mtvec] \cup c[stvec]
        /\ GetField(c[satp], SATP_MODE) = {} => c[satp] = {}

\* What a trap interrupted is intact for the handler that returns to it: as
\* long as the guest neither writes the registers that hold the context nor
\* returns, no further trap to the other mode, no interrupt and no write
\* through a shadow register changes the saved mode, interrupt enable and
\* address; and no trap went from a mode to a less privileged one.  The
\* handler finds the cause too, unless it is a machine interrupt delegated to
\* the supervisor, which scause does not take: that handler finds an older one.
RvTrapReturns ==
    \A m \in TrapModes :
        rvSaved[m].saved =>
            LET r == TrapRegisters(m)
            IN  /\ rvSaved[m].mode <= m
                /\ GetField(rvHart.csr[mstatus], r.previous)
                       = ModeBits(rvSaved[m].mode)
                /\ GetField(rvHart.csr[mstatus], r.before) = rvSaved[m].enabled
                /\ rvHart.csr[r.epc] = ToBits(rvSaved[m].pc) \ {0}
                /\ \/ rvHart.csr[r.cause] = rvSaved[m].cause
                   \/ r.cause = scause /\ rvSaved[m].cause \notin SCauses

\* What belongs to the machine: its registers, and the fields of mstatus,
\* mie and mip that the supervisor does not see.  A pending bit may be
\* cleared by an interrupt that is delegated, and sret clears MPRV.
MachineOwned(csr) ==
    [r \in Stored |->
        CASE r = mstatus -> csr[r] \ (SSTATUS_FIELDS_MASK \cup FieldBits(MPRV)
                                      \cup FieldBits(SXL))
          [] r = mie -> csr[r] \ WARL_MASK_SIP_SIE
          [] r = mip -> {}
          [] r # mstatus /\ privilege(r) = 3 /\ r \notin {mie, mip} -> csr[r]
          [] OTHER -> {}]

\* The mode in which the next instruction runs: an interrupt that is due is
\* taken first.
ModeOfInstruction ==
    Interrupted(rvHart, rvSaved, get_pending_interrupt(rvHart)).hart.mode

\* A step that is below machine mode throughout changes nothing the machine
\* owns, whatever the guest executes, and never makes a machine interrupt
\* pending.  Where a step begins and ends does not say so: an interrupt may go
\* to a handler of the machine whose first instruction returns.
RvConfined ==
    [][(/\ rvHart.mode # Machine /\ rvHart'.mode # Machine
        /\ rvRun.phase = "step" => ModeOfInstruction # Machine)
         => /\ MachineOwned(rvHart'.csr) = MachineOwned(rvHart.csr)
            /\ rvHart'.csr[mip] \cap MACHINE_BIT_MASK
                   \subseteq rvHart.csr[mip]]_rvVars

\* A call never reports more steps than the caller allowed, over however many
\* environment calls it recursed.  The interpreter reports the steps completed,
\* a handled environment call among them; so does the PVM when no environment
\* call was met.  Of a PVM that went on after one nothing more is said.
RvStepsReported ==
    rvRun.phase = "done" =>
        /\ rvRun.steps <= rvRun.budget
        /\ (rvRun.driver = "interpreter" \/ (rvRun.kind = "running" /\ rvRun.acc = 0))
             => rvRun.steps = rvSteps

\* A hart is sound: its registers hold legal values, a trap returns to where
\* and to the mode it was taken from, and the steps reported are within the
\* budget.
RvHartSound == RvTypeOK /\ RvTrapReturns /\ RvStepsReported
=============================================================================
