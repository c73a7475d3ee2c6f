-------------------------------- MODULE Vcpu --------------------------------
(***************************************************************************)
(* The execution loop of cpu/unicorn_engine.rs: one Vcpu whose image and   *)
(* stack are mapped, run any number of times by its owner.  A run is       *)
(* emu_start with a `syscall' hook; besides the guest there is one other   *)
(* thread, Unicorn's timer, which asks the engine to stop.                 *)
(*                                                                         *)
(* Modelled from the way the code uses it (Unicorn is a library):          *)
(*   - the guest is an arbitrary program: it may store to mapped memory,   *)
(*     make any syscall of Requests, fault, or reach the `until' address;  *)
(*   - emu_stop from the hook ends emu_start before another instruction;   *)
(*     a stop asked for by the timer is noticed some instructions later;   *)
(*   - emu_start takes its timeout in microseconds, 0 for none.            *)
(* Addresses and bytes are small numbers, rip is left out, and the clock   *)
(* counts microseconds from the start of the run.                          *)
(***************************************************************************)
EXTENDS Dispatch

CONSTANTS
    Requests,     \* the syscalls guests make: [nr, arg0, ptr, count]
    Mapped,       \* mapped guest addresses
    Bytes,        \* byte values
    Timeouts,     \* values of run's `timeout_ms' argument
    UsPerMs,      \* microseconds per millisecond (1000; smaller in models)
    MaxRuns,      \* bound: calls of run
    MaxSyscalls,  \* bound: syscalls, over all runs
    MaxClock      \* bound: microseconds one run is followed for

ASSUME VcpuAssumption ==
    /\ Requests \subseteq [nr : Int, arg0 : Nat, ptr : Nat, count : Nat]
    /\ Timeouts \subseteq Nat
    /\ UsPerMs \in Nat \ {0}
    /\ MaxRuns \in Nat /\ MaxSyscalls \in Nat /\ MaxClock \in Nat
    /\ \A t \in Timeouts : t <= MaxClock

VARIABLES
    mem,             \* guest memory, Mapped -> Bytes
    rax,             \* what the hook last wrote to RAX
    output,          \* SharedState.output
    exit_reason,     \* SharedState.exit_reason
    engine_error,    \* SharedState.engine_error, is it Some
    trace,           \* the records of the dispatcher's sink
    pc,              \* "idle", "running", "returned" (emu_start), "aborted"
    armed,           \* the timeout emu_start was given, microseconds
    clock,           \* microseconds since emu_start
    stop_requested,  \* the timer has called emu_stop
    emu_err,         \* the result of emu_start
    result,          \* the value of the last run, NotRun before the first
    runs,            \* history: calls of run
    requested,       \* history: the timeout_ms of the last call of run
    issued           \* history: the syscalls made, [run, regs, outcome]

shared == <<output, exit_reason, engine_error>>
engine == <<pc, armed, clock, stop_requested, emu_err>>
history == <<runs, requested, issued>>
vars == <<mem, rax, shared, trace, engine, result, history>>

Handlers == RegisterAll({})

NotRun    == [kind |-> "not run"]
Falloff   == [kind |-> "falloff"]
Stopped   == [kind |-> "stopped"]
ExecError == [kind |-> "E504"]
NoReason  == [kind |-> "none"]

(* What emu_start can report, and the names run looks for in the message.   *)
(* Unicorn calls a protection fault ..._PROT: the last two never match.     *)
EngineErrors  == {"READ_UNMAPPED", "WRITE_UNMAPPED", "FETCH_UNMAPPED",
                  "READ_PROT", "WRITE_PROT", "FETCH_PROT", "INSN_INVALID"}
FalloffErrors == {"READ_UNMAPPED", "WRITE_UNMAPPED", "FETCH_UNMAPPED",
                  "READ_PROTECT", "FETCH_PROTECT"}

-----------------------------------------------------------------------------
(* Vcpu::new: no memory, nothing run. *)
New ==
    /\ rax = 0
    /\ output = << >> /\ exit_reason = NoReason /\ engine_error = FALSE
    /\ trace = << >>
    /\ pc = "idle" /\ armed = 0 /\ clock = 0
    /\ stop_requested = FALSE /\ emu_err = "OK"
    /\ result = NotRun
    /\ runs = 0 /\ requested = 0 /\ issued = << >>

Init == mem \in [Mapped -> Bytes] /\ New

(* The owner stores to guest memory between runs. *)
WriteGuest(addr, byte) ==
    /\ pc = "idle"
    /\ mem' = [mem EXCEPT ![addr] = byte]
    /\ UNCHANGED <<rax, shared, trace, engine, result, history>>

(* The first half of run without handing its timeout on. *)
RunStart_Unarmed(timeout_ms) ==
    /\ pc = "idle" /\ runs < MaxRuns
    /\ pc' = "running"
    /\ armed' = 0 /\ clock' = 0 /\ stop_requested' = FALSE
    /\ runs' = runs + 1 /\ requested' = timeout_ms
    /\ UNCHANGED <<mem, rax, shared, trace, emu_err, result, issued>>

(* The first half of run: the shared state is not reset and the number of   *)
(* milliseconds goes to emu_start as it is.                                 *)
RunStart(timeout_ms) ==
    /\ pc = "idle" /\ runs < MaxRuns
    /\ pc' = "running"
    /\ armed' = timeout_ms /\ clock' = 0 /\ stop_requested' = FALSE
    /\ runs' = runs + 1 /\ requested' = timeout_ms
    /\ UNCHANGED <<mem, rax, shared, trace, emu_err, result, issued>>

(* emu_start returns. *)
EmuReturns(err) == pc' = "returned" /\ emu_err' = err

-----------------------------------------------------------------------------
(* The guest. *)
GuestStore(addr, byte) ==
    /\ pc = "running"
    /\ mem' = [mem EXCEPT ![addr] = byte]
    /\ UNCHANGED <<rax, shared, trace, engine, result, history>>

GuestFault(err) ==
    /\ pc = "running"
    /\ EmuReturns(err)
    /\ UNCHANGED <<mem, rax, shared, trace, armed, clock, stop_requested,
                   result, history>>

GuestReachesUntil ==
    /\ pc = "running"
    /\ EmuReturns("OK")
    /\ UNCHANGED <<mem, rax, shared, trace, armed, clock, stop_requested,
                   result, history>>

(* The match on the outcome at the end of the hook. *)
HookReturn(ret) ==
    /\ rax' = ret
    /\ UNCHANGED <<exit_reason, engine_error, pc, emu_err>>

HookExit_NoStop(outcome) ==
    /\ exit_reason' = outcome
    /\ UNCHANGED <<rax, engine_error, pc, emu_err>>

HookExit_FirstWins(outcome) ==
    /\ exit_reason' = IF exit_reason = NoReason THEN outcome ELSE exit_reason
    /\ EmuReturns("OK")
    /\ UNCHANGED <<rax, engine_error>>

HookExit(outcome) ==
    /\ exit_reason' = outcome
    /\ EmuReturns("OK")
    /\ UNCHANGED <<rax, engine_error>>

HookError ==
    /\ engine_error' = TRUE
    /\ EmuReturns("OK")
    /\ UNCHANGED <<rax, exit_reason>>

(* The whole hook: dispatch, append what this syscall captured, record it,  *)
(* act on the outcome.  A panic inside it ends the process.                 *)
Syscall(regs) ==
    /\ pc = "running" /\ Len(issued) < MaxSyscalls
    /\ LET call == DispatchCall(Handlers, mem, regs)
           outcome == call.outcome
       IN  /\ issued' = Append(issued, [run |-> runs, regs |-> regs,
                                        outcome |-> outcome])
           /\ trace' = Traced(Handlers, trace, regs, outcome)
           /\ output' = output \o Combined(call.io)
           /\ \/ outcome.kind = "return" /\ HookReturn(outcome.ret)
              \/ outcome.kind = "exit"   /\ HookExit(outcome)
              \/ outcome.kind = "error"  /\ HookError
              \/ /\ outcome.kind = "panic"
                 /\ pc' = "aborted"
                 /\ UNCHANGED <<rax, exit_reason, engine_error, emu_err>>
    /\ UNCHANGED <<mem, armed, clock, stop_requested, result, runs, requested>>

-----------------------------------------------------------------------------
(* Time and the engine's timer thread. *)
Tick ==
    /\ pc = "running" /\ clock < MaxClock
    /\ clock' = clock + 1
    /\ UNCHANGED <<mem, rax, shared, trace, pc, armed, stop_requested,
                   emu_err, result, history>>

TimerFires ==
    /\ pc = "running" /\ armed > 0 /\ clock >= armed /\ ~stop_requested
    /\ stop_requested' = TRUE
    /\ UNCHANGED <<mem, rax, shared, trace, pc, armed, clock, emu_err,
                   result, history>>

EngineStops ==
    /\ pc = "running" /\ stop_requested
    /\ EmuReturns("OK")
    /\ UNCHANGED <<mem, rax, shared, trace, armed, clock, stop_requested,
                   result, history>>

-----------------------------------------------------------------------------
(* The second half of run, had it looked at the exit reason only. *)
Verdict_NoEngineError(err, reason, error) ==
    IF err # "OK" THEN IF err \in FalloffErrors THEN Falloff ELSE ExecError
    ELSE IF reason # NoReason THEN reason
    ELSE Stopped

(* What run returns, in the order it looks: emu_start's error, the exit     *)
(* reason, the engine error.                                                *)
Verdict(err, reason, error) ==
    IF err # "OK" THEN IF err \in FalloffErrors THEN Falloff ELSE ExecError
    ELSE IF reason # NoReason THEN reason
    ELSE IF error THEN ExecError
    ELSE Stopped

RunReturn ==
    /\ pc = "returned"
    /\ pc' = "idle"
    /\ result' = Verdict(emu_err, exit_reason, engine_error)
    /\ UNCHANGED <<mem, rax, shared, trace, armed, clock, stop_requested,
                   emu_err, history>>

-----------------------------------------------------------------------------
Next ==
    \/ \E addr \in Mapped, byte \in Bytes : WriteGuest(addr, byte)
    \/ \E timeout_ms \in Timeouts : RunStart(timeout_ms)
    \/ \E addr \in Mapped, byte \in Bytes : GuestStore(addr, byte)
    \/ \E err \in EngineErrors : GuestFault(err)
    \/ GuestReachesUntil
    \/ \E regs \in Requests : Syscall(regs)
    \/ Tick
    \/ TimerFires
    \/ EngineStops
    \/ RunReturn

Spec == Init /\ [][Next]_vars

(* Time passes, the timer thread is scheduled, the engine gets round to the *)
(* stop it was asked for, and the caller's thread returns.  Nothing is      *)
(* assumed of the guest.                                                    *)
Fairness ==
    /\ WF_vars(Tick)
    /\ WF_vars(TimerFires)
    /\ WF_vars(EngineStops)
    /\ WF_vars(RunReturn)

FairSpec == Spec /\ Fairness
=============================================================================
