------------------------------- MODULE RunElf -------------------------------
(***************************************************************************)
(* python.rs: run_elf and parse_elf.  run_elf puts a fresh Vcpu on the     *)
(* memory AddressSpace has built and runs it once: Vcpu, with the engine   *)
(* of AddressSpace for its memory.  Every error leaves the function, so    *)
(* that the caller gets the output and the trace, or a ValueError.         *)
(*                                                                         *)
(* Unicorn keeps the guest to its rights: it stores where it may write,    *)
(* and does nothing but fault where its entry may not be executed.  The    *)
(* host's own accesses, those of syscalls among them, need no rights.      *)
(***************************************************************************)
EXTENDS AddressSpace

CONSTANTS
    MaxAlloc,     \* the largest buffer the write handler can allocate
    Requests,     \* the syscalls guests make: [nr, arg0, ptr, count]
    Targets,      \* the addresses guests store to
    Bytes,        \* the bytes they store
    UsPerMs,      \* microseconds per millisecond
    MaxSyscalls,  \* bound: syscalls of one guest
    MaxClock      \* bound: microseconds the guest is followed for

ASSUME RunElfAssumption ==
    /\ MaxAlloc \in Nat
    /\ Requests \subseteq [nr : Int, arg0 : Nat, ptr : Nat, count : Nat]
    /\ UsPerMs \in Nat \ {0}
    /\ MaxSyscalls \in Nat /\ MaxClock \in Nat

VARIABLES
    rax, output, exit_reason, engine_error, trace, pc, armed, clock,
    stop_requested, emu_err, result, runs, requested, issued,  \* those of Vcpu
    timeout_ms,   \* run_elf's argument
    reply         \* what the call has returned or raised

Cpu == INSTANCE Vcpu WITH
    mem <- engine, Mapped <- Addresses, Timeouts <- 0 .. MaxClock, MaxRuns <- 1

cpuVars == <<rax, output, exit_reason, engine_error, trace, pc, armed, clock,
             stop_requested, emu_err, result, runs, requested, issued>>
coreVars == <<spaceVars, cpuVars, timeout_ms, reply>>

Pending          == [kind |-> "pending"]
ValueError(code) == [kind |-> "ValueError", code |-> code]
PanicException   == [kind |-> "PanicException"]
OverflowError    == [kind |-> "OverflowError"]
Gone             == [kind |-> "gone"]   \* the process is, and no call returns

RunElfInit ==
    /\ SpaceInit
    /\ Cpu!New
    /\ timeout_ms = 0 /\ reply = Pending

-----------------------------------------------------------------------------
(* What load_elf or a step of the set-up is reported as. *)
SetupReply ==
    IF "panic" \in {error, failure} THEN PanicException
    ELSE IF error = "abort" THEN Gone
    ELSE ValueError(CASE phase = "refused" -> error
                      [] failure = "init"  -> "E501"
                      [] failure \in {"overlap", "engine"} -> "E502"
                      [] failure = "regop" -> "E503")

(* load_elf, Vcpu::new, map_elf, map_stack, setup_initial_state. *)
SetUp ==
    /\ Load \/ NewVcpu \/ MapSegment \/ SegmentsMapped \/ MapStack \/ SetupInitialState
    /\ reply' = IF stage' = "failed" THEN SetupReply' ELSE Pending
    /\ UNCHANGED <<cpuVars, timeout_ms>>

(* vcpu.run, to the call of emu_start. *)
Start ==
    /\ stage = "ready"
    /\ Cpu!RunStart(timeout_ms)
    /\ UNCHANGED <<spaceVars, timeout_ms, reply>>

(* The reply had the errors of run gone the way of its reasons. *)
RunReply_ErrorAsDict(reason, wrote, records) ==
    [kind |-> "dict", exit |-> reason, output |-> wrote, trace |-> records]

(* What run_elf makes of the value of run; `wrote' and `records' are what   *)
(* vcpu.output() and trace.drain() return.                                  *)
RunReply(reason, wrote, records) ==
    IF reason = Cpu!ExecError THEN ValueError("E504")
    ELSE [kind |-> "dict", exit |-> reason, output |-> wrote, trace |-> records]

(* run returns, and run_elf behind it; the sink is dropped with its records.*)
Return ==
    /\ Cpu!RunReturn
    /\ reply' = RunReply(result', output, trace)
    /\ UNCHANGED <<spaceVars, timeout_ms>>

(* parse_elf: load_elf alone. *)
Parse ==
    /\ Load
    /\ reply' = CASE stage' = "failed" -> SetupReply'
                  [] stage' = "engine" -> [kind |-> "segments", entry |-> image.entry,
                                           segments |-> segments]
                  [] OTHER -> Pending
    /\ UNCHANGED <<cpuVars, timeout_ms>>

-----------------------------------------------------------------------------
(* The engine and its guest, inside emu_start. *)
MayExecute == rip \in DOMAIN access /\ "x" \in access[rip]

Unmoved == UNCHANGED <<loaderVars, stage, seg, map, regions, access, rip, rsp,
                       failure, extra, timeout_ms, reply>>

Store(addr, byte) ==
    /\ addr \in DOMAIN engine /\ "w" \in access[addr]
    /\ Cpu!GuestStore(addr, byte)

Guest ==
    /\ \/ /\ MayExecute
          /\ \/ \E addr \in Targets, byte \in Bytes : Store(addr, byte)
             \/ \E err \in Cpu!EngineErrors : Cpu!GuestFault(err)
             \/ Cpu!GuestReachesUntil
             \/ \E regs \in Requests : Cpu!Syscall(regs)
       \/ /\ ~MayExecute
          /\ Cpu!GuestFault(IF rip \in DOMAIN access THEN "FETCH_PROT"
                            ELSE "FETCH_UNMAPPED")
    /\ Unmoved

Tick        == Cpu!Tick /\ Unmoved /\ UNCHANGED engine
TimerFires  == Cpu!TimerFires /\ Unmoved /\ UNCHANGED engine
EngineStops == Cpu!EngineStops /\ Unmoved /\ UNCHANGED engine

(* One step of run_elf, and of what runs beside it. *)
RunElfHost == SetUp \/ Start \/ Return
RunElfNext == RunElfHost \/ Guest \/ Tick \/ TimerFires \/ EngineStops
=============================================================================
