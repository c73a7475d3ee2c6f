------------------------------ MODULE Dispatch ------------------------------
(***************************************************************************)
(* The syscall layer: syscall/dispatch.rs, dispatch_impl.rs, errno.rs and  *)
(* the guest-memory backend the handlers use while the emulator runs       *)
(* (UnicornGuest of vkernel/mem.rs).                                       *)
(*                                                                         *)
(* A syscall is a record `regs' of the ABI registers a handler looks at.   *)
(* Guest memory is a function from the mapped addresses to bytes.  The     *)
(* result of a dispatch is [outcome, io]: what the handler returned and    *)
(* what it captured into the Context built for this one syscall.           *)
(***************************************************************************)
EXTENDS OutputCapture

CONSTANT MaxAlloc   \* the largest length `vec![0u8; len]' can allocate

ASSUME MaxAllocAssumption == MaxAlloc \in Nat

-----------------------------------------------------------------------------
(* errno.rs *)
ENOSYS == 38
EBADF  == 9
Err(errno) == -errno

(* SyscallOutcome, DispatchError::Engine, and the panic of an allocation    *)
(* that cannot be made, which cannot unwind through Unicorn's C callback.   *)
Return(ret)   == [kind |-> "return", ret |-> ret]
Exit(code)    == [kind |-> "exit", code |-> code]
EngineFailure == [kind |-> "error"]
Panic         == [kind |-> "panic"]

-----------------------------------------------------------------------------
(* The handlers of a Dispatch.  Registering removes every handler of the    *)
(* same number first, so numbers are unique and the order of the Vec is     *)
(* not observable: a set.                                                   *)
WriteHandler     == [number |-> 1,   name |-> "write"]
ExitHandler      == [number |-> 60,  name |-> "exit"]
ExitGroupHandler == [number |-> 231, name |-> "exit_group"]

Register(handlers, h) == {x \in handlers : x.number # h.number} \cup {h}

RegisterAll(handlers) ==
    Register(Register(Register(handlers, WriteHandler), ExitHandler),
             ExitGroupHandler)

Find(handlers, nr) == {h \in handlers : h.number = nr}

-----------------------------------------------------------------------------
(* UnicornGuest::read: all of the range or an error. *)
Readable(mem, ptr, count) == \A i \in 1 .. count : ptr + i - 1 \in DOMAIN mem
MemRead(mem, ptr, count)  == [i \in 1 .. count |-> mem[ptr + i - 1]]

(* WriteHandler::handle.  The buffer is allocated before the range is read. *)
HandleWrite(mem, regs) ==
    IF regs.arg0 \notin {1, 2}
      THEN [outcome |-> Return(Err(EBADF)), io |-> NoOutput]
    ELSE IF regs.count > MaxAlloc
      THEN [outcome |-> Panic, io |-> NoOutput]
    ELSE IF ~Readable(mem, regs.ptr, regs.count)
      THEN [outcome |-> EngineFailure, io |-> NoOutput]
    ELSE [outcome |-> Return(regs.count),
          io |-> CaptureWrite(NoOutput, regs.arg0,
                              MemRead(mem, regs.ptr, regs.count))]

(* The exit handlers without their mask. *)
HandleExit_Wide(regs) == [outcome |-> Exit(regs.arg0), io |-> NoOutput]

(* ExitHandler::handle and ExitGroupHandler::handle: the low byte of rdi. *)
HandleExit(regs) == [outcome |-> Exit(regs.arg0 % 256), io |-> NoOutput]

Handle(h, mem, regs) ==
    IF h = WriteHandler THEN HandleWrite(mem, regs) ELSE HandleExit(regs)

(* Dispatch::dispatch up to the trace. *)
DispatchCall(handlers, mem, regs) ==
    IF Find(handlers, regs.nr) = {}
      THEN [outcome |-> Return(Err(ENOSYS)), io |-> NoOutput]
      ELSE Handle(CHOOSE h \in Find(handlers, regs.nr) : TRUE, mem, regs)

-----------------------------------------------------------------------------
(* TraceSink::record as Dispatch::dispatch calls it. *)
HandlerName(handlers, nr) ==
    IF Find(handlers, nr) = {} THEN "<unimplemented>"
    ELSE (CHOOSE h \in Find(handlers, nr) : TRUE).name

TraceRecord(handlers, trace, regs, outcome) ==
    [seq  |-> Len(trace),
     regs |-> regs,
     name |-> HandlerName(handlers, regs.nr),
     ret  |-> IF outcome.kind = "return" THEN outcome.ret ELSE 0]

(* The trace without the early return of `?': failures would be recorded too. *)
Traced_Always(handlers, trace, regs, outcome) ==
    Append(trace, TraceRecord(handlers, trace, regs, outcome))

(* The `?' of dispatch.rs:125 leaves before the record is made. *)
Traced(handlers, trace, regs, outcome) ==
    IF outcome.kind \in {"error", "panic"} THEN trace
    ELSE Append(trace, TraceRecord(handlers, trace, regs, outcome))
=============================================================================
