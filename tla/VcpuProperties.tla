--------------------------- MODULE VcpuProperties ---------------------------
(***************************************************************************)
(* What is asked of Vcpu: the type invariant, the safety and liveness      *)
(* properties, the abstract process a Vcpu implements, and the             *)
(* statements of the sources that the code does not keep.                  *)
(***************************************************************************)
EXTENDS Vcpu, SequencesExt

-----------------------------------------------------------------------------
ExitReasons == [kind : {"exit"}, code : 0 .. 255]
Outcomes    == [kind : {"return"}, ret : Int] \cup ExitReasons
                   \cup {EngineFailure, Panic}
Results     == ExitReasons \cup {NotRun, Falloff, Stopped, ExecError}
Names       == {"write", "exit", "exit_group", "<unimplemented>"}

(* Every variable holds a value of the Rust type it stands for; in          *)
(* particular an exit code is a u8 whatever the guest left in rdi.          *)
TypeOK ==
    /\ mem \in [Mapped -> Bytes]
    /\ rax \in Int
    /\ output \in Seq(Bytes)
    /\ exit_reason \in ExitReasons \cup {NoReason}
    /\ engine_error \in BOOLEAN
    /\ trace \in Seq([seq : Nat, regs : Requests, name : Names, ret : Int])
    /\ pc \in {"idle", "running", "returned", "aborted"}
    /\ armed \in Timeouts \cup {0}
    /\ clock \in Nat
    /\ stop_requested \in BOOLEAN
    /\ emu_err \in EngineErrors \cup {"OK"}
    /\ result \in Results
    /\ runs \in Nat
    /\ requested \in Timeouts \cup {0}
    /\ issued \in Seq([run : Nat, regs : Requests, outcome : Outcomes])

(* Once the guest has called exit or exit_group, or a handler has failed,   *)
(* the guest makes no other syscall in that run: the emu_stop of the hook   *)
(* takes effect before the next one, also when the timer stops the engine   *)
(* at the same time.                                                        *)
NothingAfterExit ==
    \A i, j \in DOMAIN issued :
        i < j /\ issued[i].outcome.kind # "return"
            => issued[i].run < issued[j].run

(* run looks at the error of emu_start before it looks at the exit reason;  *)
(* that order loses nothing, because a guest that has exited in this run    *)
(* (or whose syscall failed) can no longer fault.                           *)
FaultHidesNoExit ==
    pc = "returned" /\ emu_err # "OK" =>
        \A i \in DOMAIN issued :
            issued[i].run = runs => issued[i].outcome.kind = "return"

(* SharedState.exit_reason, and so every Exit that run returns, is the      *)
(* outcome of the last exit or exit_group the guest made, in whatever run   *)
(* it made it.                                                              *)
ReasonIsLatestExit ==
    LET exits == {i \in DOMAIN issued : issued[i].outcome.kind = "exit"}
    IN  IF exit_reason = NoReason THEN exits = {}
        ELSE \E i \in exits : /\ issued[i].outcome = exit_reason
                              /\ \A j \in exits : j <= i

(* What a reader of the trace is to find of a syscall, in place n.          *)
NameOf(nr) == CASE nr = 1   -> "write"
                [] nr = 60  -> "exit"
                [] nr = 231 -> "exit_group"
                [] OTHER    -> "<unimplemented>"

RowOf(call, n) ==
    [seq |-> n - 1, regs |-> call.regs, name |-> NameOf(call.regs.nr),
     ret |-> IF call.outcome.kind = "return" THEN call.outcome.ret ELSE 0]

(* The trace is the syscalls the guest made, in order, less exactly those   *)
(* whose handler failed: each under its place, its registers, the name of   *)
(* its handler and the value the guest got, over all runs of the Vcpu.      *)
TraceMissesOnlyFailures ==
    LET recorded == {i \in DOMAIN issued :
                        issued[i].outcome.kind \notin {"error", "panic"}}
        place(i) == Cardinality({j \in recorded : j <= i})
    IN  /\ Len(trace) = Cardinality(recorded)
        /\ \A i \in recorded : trace[place(i)] = RowOf(issued[i], place(i))

(* Two accounts of the same bytes agree step by step: the captured output   *)
(* is only ever appended to, and by n > 0 bytes exactly when a write that   *)
(* returned n is recorded.                                                  *)
CapturedBytesAreReported ==
    [][LET grown == Len(output') - Len(output)
           last  == trace'[Len(trace')]
       IN  /\ IsPrefix(output, output')
           /\ grown = IF Len(trace') > Len(trace) /\ last.name = "write"
                         /\ last.ret > 0
                      THEN last.ret ELSE 0]_vars

(* A run that was given a time limit ends, whatever the guest does.         *)
TimedRunEnds ==
    (pc = "running" /\ requested > 0) ~> (pc \in {"idle", "aborted"})

-----------------------------------------------------------------------------
(* What later runs inherit, said from the syscalls made: the last exit, or  *)
(* a failure if there was no exit.                                          *)
Made(kind) == {i \in DOMAIN issued : issued[i].outcome.kind = kind}

Kept ==
    LET last == CHOOSE i \in Made("exit") : \A j \in Made("exit") : j <= i
    IN  CASE Made("exit") # {} -> issued[last].outcome
          [] Made("exit") = {} /\ Made("error") # {} -> ExecError
          [] OTHER -> NotRun

(* How the run ended, decided by the guest when emu_start returns. *)
GuestEnding ==
    CASE emu_err \in FalloffErrors -> Falloff
      [] emu_err \notin FalloffErrors \cup {"OK"} -> ExecError
      [] OTHER -> IF Kept = NotRun THEN Stopped ELSE Kept

(* A Vcpu implements the abstract process: the ending of a run is           *)
(* GuestEnding when emu_start returns, and afterwards whatever run made of  *)
(* the error, the exit reason and the engine error.                         *)
AbstractStatus ==
    CASE pc = "aborted" -> "crashed"
      [] pc = "running" -> "live"
      [] OTHER          -> IF runs = 0 THEN "ready" ELSE "ended"

AbstractEnding ==
    CASE pc = "returned" -> GuestEnding
      [] pc = "aborted"  -> Panic
      [] pc = "running"  -> NotRun
      [] OTHER           -> result

Process == INSTANCE VirtualProcess WITH
    Exits     <- ExitReasons,
    Faults    <- {Falloff, ExecError},
    Stopped   <- Stopped,
    Failed    <- ExecError,
    Panic     <- Panic,
    Undecided <- NotRun,
    status    <- AbstractStatus,
    out       <- output,
    ending    <- AbstractEnding,
    kept      <- Kept

(* The refinement: output stops growing when a run ends, the verdict run    *)
(* computes later from cells it never resets is the way the guest did end,  *)
(* and a later run inherits the exit or the failure of an earlier one.      *)
ImplementsProcess == Process!Spec

-----------------------------------------------------------------------------
(* Statements of the sources that the code does not keep. *)

(* unicorn_engine.rs:339, Vcpu::exit_reason: "The exit reason observed      *)
(* during the last Vcpu::run, if any."                                      *)
ExitReasonIsOfLastRun ==
    pc = "idle" /\ exit_reason # NoReason =>
        \E i \in DOMAIN issued : /\ issued[i].run = runs
                                 /\ issued[i].outcome = exit_reason

(* unicorn_engine.rs:275-277, Vcpu::run takes `timeout_ms', and cli.py:45:  *)
(* "Execution timeout in milliseconds."                                     *)
TimerFiresAfterTimeout ==
    stop_requested => clock >= requested * UsPerMs
=============================================================================
