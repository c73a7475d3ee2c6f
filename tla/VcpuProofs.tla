----------------------------- MODULE VcpuProofs -----------------------------
(***************************************************************************)
(* Proofs about Vcpu, for every guest, memory, timeout and bound.          *)
(***************************************************************************)
EXTENDS VcpuProperties, FiniteSetTheorems, TLAPS

-----------------------------------------------------------------------------
(* The dispatcher. *)

(* Registering the three handlers leaves exactly those three. *)
LEMMA HandlersAre ==
    Handlers = {WriteHandler, ExitHandler, ExitGroupHandler}
BY DEF Handlers, RegisterAll, Register, WriteHandler, ExitHandler, ExitGroupHandler

(* A number finds its own handler: a handler that is found has that number. *)
LEMMA Found ==
    ASSUME NEW nr, Find(Handlers, nr) # {}
    PROVE  /\ (CHOOSE h \in Find(Handlers, nr) : TRUE)
                  \in {WriteHandler, ExitHandler, ExitGroupHandler}
           /\ (CHOOSE h \in Find(Handlers, nr) : TRUE).number = nr
BY HandlersAre DEF Find

(* The name in a trace record is a handler's or "<unimplemented>". *)
LEMMA HandlerNameType ==
    ASSUME NEW nr
    PROVE  HandlerName(Handlers, nr) \in Names
<1> DEFINE h == CHOOSE x \in Find(Handlers, nr) : TRUE
<1>1. CASE Find(Handlers, nr) = {}
  BY <1>1 DEF HandlerName, Names
<1>2. CASE Find(Handlers, nr) # {}
  <2>1. h \in {WriteHandler, ExitHandler, ExitGroupHandler}
    BY <1>2, Found
  <2>2. HandlerName(Handlers, nr) = h.name
    BY <1>2 DEF HandlerName
  <2> HIDE DEF h
  <2> QED BY <2>1, <2>2 DEF Names, WriteHandler, ExitHandler, ExitGroupHandler
<1> QED BY <1>1, <1>2

(* And it is the handler's own: that of its number. *)
LEMMA HandlerNameIs ==
    ASSUME NEW nr
    PROVE  HandlerName(Handlers, nr) = NameOf(nr)
<1> DEFINE h == CHOOSE x \in Find(Handlers, nr) : TRUE
<1>1. CASE Find(Handlers, nr) = {}
  <2>1. nr \notin {1, 60, 231}
    <3>1. \A x \in {WriteHandler, ExitHandler, ExitGroupHandler} : x.number # nr
      BY <1>1, HandlersAre DEF Find
    <3> QED BY <3>1 DEF WriteHandler, ExitHandler, ExitGroupHandler
  <2> QED BY <1>1, <2>1 DEF HandlerName, NameOf
<1>2. CASE Find(Handlers, nr) # {}
  <2>1. h \in {WriteHandler, ExitHandler, ExitGroupHandler} /\ h.number = nr
    BY <1>2, Found
  <2>2. HandlerName(Handlers, nr) = h.name
    BY <1>2 DEF HandlerName
  <2> HIDE DEF h
  <2> QED BY <2>1, <2>2 DEF NameOf, WriteHandler, ExitHandler, ExitGroupHandler
<1> QED BY <1>1, <1>2

(* A syscall that captures nothing contributes nothing to the output. *)
LEMMA CombinedOfNothing == Combined(NoOutput) = << >>
BY DEF Combined, Captured, NoOutput

(* A write to stdout or to stderr contributes its bytes to the output. *)
LEMMA CombinedOfWrite ==
    ASSUME NEW S, NEW data \in Seq(S), NEW fd \in {1, 2}
    PROVE  Combined(CaptureWrite(NoOutput, fd, data)) = data
<1> DEFINE io == CaptureWrite(NoOutput, fd, data)
<1>1. /\ DOMAIN io = {fd}
      /\ io[fd] = << >> \o data
  BY DEF CaptureWrite, Captured, NoOutput
<1>2. << >> \o data = data /\ data \o << >> = data
  OBVIOUS
<1>3. Captured(io, fd) = data
  BY <1>1, <1>2 DEF Captured
<1>4. \A f : f # fd => Captured(io, f) = << >>
  BY <1>1 DEF Captured
<1> HIDE DEF io
<1>5. CASE fd = 1
  BY <1>5, <1>2, <1>3, <1>4 DEF Combined, io
<1>6. CASE fd = 2
  BY <1>6, <1>2, <1>3, <1>4 DEF Combined, io
<1> QED BY <1>5, <1>6

(* What a dispatched syscall comes to: its outcome is one of the four       *)
(* kinds, and it captures bytes only if it is a write that returns their    *)
(* number.                                                                  *)
LEMMA DispatchType ==
    ASSUME NEW m \in [Mapped -> Bytes], NEW regs \in Requests,
           NEW call, call = DispatchCall(Handlers, m, regs)
    PROVE  /\ call.outcome \in Outcomes
           /\ Combined(call.io) \in Seq(Bytes)
           /\ call.outcome.kind \in {"return", "exit", "error", "panic"}
           /\ call.outcome.kind = "return" => call.outcome.ret \in Int
           /\ call.outcome.kind = "exit" => call.outcome \in ExitReasons
<1> USE VcpuAssumption, MaxAllocAssumption
<1> DEFINE Typed(outcome) ==
        /\ outcome \in Outcomes
        /\ outcome.kind \in {"return", "exit", "error", "panic"}
        /\ outcome.kind = "return" => outcome.ret \in Int
        /\ outcome.kind = "exit" => outcome \in ExitReasons
<1>1. /\ regs.nr \in Int /\ regs.arg0 \in Nat
      /\ regs.ptr \in Nat /\ regs.count \in Nat
  OBVIOUS
<1>2. \/ call = [outcome |-> Return(Err(ENOSYS)), io |-> NoOutput]
      \/ call = HandleWrite(m, regs)
      \/ call = HandleExit(regs)
  BY DEF DispatchCall, Handle
<1>3. /\ \A n \in Int : Typed(Return(n))
      /\ \A c \in 0 .. 255 : Typed(Exit(c))
      /\ Typed(EngineFailure)
      /\ Typed(Panic)
  BY DEF Return, Exit, EngineFailure, Panic, Outcomes, ExitReasons
<1> HIDE DEF Typed
<1>4. << >> \in Seq(Bytes)
  OBVIOUS
<1>5. CASE call = [outcome |-> Return(Err(ENOSYS)), io |-> NoOutput]
  <2>1. Typed(call.outcome)
    BY <1>3, <1>5 DEF Err, ENOSYS
  <2>2. Combined(call.io) \in Seq(Bytes)
    BY <1>4, <1>5, CombinedOfNothing
  <2> QED BY <2>1, <2>2 DEF Typed
<1>6. CASE call = HandleExit(regs)
  <2>1. Typed(call.outcome)
    BY <1>1, <1>3, <1>6 DEF HandleExit
  <2>2. Combined(call.io) \in Seq(Bytes)
    BY <1>4, <1>6, CombinedOfNothing DEF HandleExit
  <2> QED BY <2>1, <2>2 DEF Typed
<1>7. CASE call = HandleWrite(m, regs)
  <2> DEFINE data == MemRead(m, regs.ptr, regs.count)
  <2>1. \/ call = [outcome |-> Return(Err(EBADF)), io |-> NoOutput]
        \/ call = [outcome |-> Panic, io |-> NoOutput]
        \/ call = [outcome |-> EngineFailure, io |-> NoOutput]
        \/ /\ regs.arg0 \in {1, 2}
           /\ Readable(m, regs.ptr, regs.count)
           /\ call = [outcome |-> Return(regs.count),
                      io |-> CaptureWrite(NoOutput, regs.arg0, data)]
    BY <1>7 DEF HandleWrite
  <2>2. Typed(call.outcome)
    BY <1>1, <1>3, <2>1 DEF Err, EBADF
  <2>3. Readable(m, regs.ptr, regs.count) => data \in Seq(Bytes)
    BY <1>1 DEF MemRead, Readable
  <2> HIDE DEF data
  <2>4. CASE call.io = NoOutput
    BY <1>4, <2>2, <2>4, CombinedOfNothing DEF Typed
  <2>5. CASE /\ regs.arg0 \in {1, 2}
             /\ Readable(m, regs.ptr, regs.count)
             /\ call.io = CaptureWrite(NoOutput, regs.arg0, data)
    <3>1. Combined(call.io) = data
      BY <2>3, <2>5, CombinedOfWrite
    <3> QED BY <2>2, <2>3, <2>5, <3>1 DEF Typed
  <2> QED BY <2>1, <2>4, <2>5
<1> QED BY <1>2, <1>5, <1>6, <1>7

-----------------------------------------------------------------------------
(* Types. *)

TraceEntries == [seq : Nat, regs : Requests, name : Names, ret : Int]
Issues       == [run : Nat, regs : Requests, outcome : Outcomes]

(* The state a hook leaves behind is typed whatever the outcome. *)
LEMMA SyscallType ==
    ASSUME TypeOK, NEW regs \in Requests, Syscall(regs)
    PROVE  TypeOK'
<1> DEFINE call == DispatchCall(Handlers, mem, regs)
<1>1. /\ call.outcome \in Outcomes
      /\ Combined(call.io) \in Seq(Bytes)
      /\ call.outcome.kind = "return" => call.outcome.ret \in Int
      /\ call.outcome.kind = "exit" => call.outcome \in ExitReasons
  BY DispatchType DEF TypeOK
<1>2. /\ issued' = Append(issued, [run |-> runs, regs |-> regs,
                                   outcome |-> call.outcome])
      /\ trace' = Traced(Handlers, trace, regs, call.outcome)
      /\ output' = output \o Combined(call.io)
      /\ \/ call.outcome.kind = "return" /\ HookReturn(call.outcome.ret)
         \/ call.outcome.kind = "exit"   /\ HookExit(call.outcome)
         \/ call.outcome.kind = "error"  /\ HookError
         \/ /\ call.outcome.kind = "panic"
            /\ pc' = "aborted"
            /\ UNCHANGED <<rax, exit_reason, engine_error, emu_err>>
      /\ UNCHANGED <<mem, armed, clock, stop_requested, result, runs, requested>>
  BY DEF Syscall
<1> HIDE DEF call
<1>3. issued' \in Seq(Issues)
  BY <1>1, <1>2 DEF TypeOK, Issues
<1>4. trace' \in Seq(TraceEntries)
  <2>1. trace \in Seq(TraceEntries) /\ Len(trace) \in Nat
    BY DEF TypeOK, TraceEntries
  <2>2. TraceRecord(Handlers, trace, regs, call.outcome) \in TraceEntries
        \/ call.outcome.kind \in {"error", "panic"}
    BY <1>1, <2>1, HandlerNameType DEF TraceRecord, TraceEntries
  <2> QED BY <1>2, <2>1, <2>2 DEF Traced
<1>5. output' \in Seq(Bytes)
  BY <1>1, <1>2 DEF TypeOK
<1>6. /\ rax' \in Int
      /\ exit_reason' \in ExitReasons \cup {NoReason}
      /\ engine_error' \in BOOLEAN
      /\ pc' \in {"idle", "running", "returned", "aborted"}
      /\ emu_err' \in EngineErrors \cup {"OK"}
  <2> USE DEF TypeOK
  <2>1. CASE call.outcome.kind = "return" /\ HookReturn(call.outcome.ret)
    BY <1>1, <2>1 DEF HookReturn
  <2>2. CASE call.outcome.kind = "exit" /\ HookExit(call.outcome)
    BY <1>1, <2>2 DEF HookExit, EmuReturns
  <2>3. CASE call.outcome.kind = "error" /\ HookError
    BY <2>3 DEF HookError, EmuReturns
  <2>4. CASE /\ pc' = "aborted"
             /\ UNCHANGED <<rax, exit_reason, engine_error, emu_err>>
    BY <2>4
  <2> QED BY <1>2, <2>1, <2>2, <2>3, <2>4
<1> QED BY <1>2, <1>3, <1>4, <1>5, <1>6 DEF TypeOK, Issues, TraceEntries

(* run returns one of the results it names. *)
LEMMA VerdictType ==
    ASSUME TypeOK
    PROVE  Verdict(emu_err, exit_reason, engine_error) \in Results
BY DEF TypeOK, Verdict, Results

(* Every variable keeps its type. *)
THEOREM TypeCorrect == Spec => []TypeOK
<1>1. Init => TypeOK
  <2> SUFFICES ASSUME Init PROVE TypeOK
    OBVIOUS
  <2>1. << >> \in Seq(Bytes) /\ << >> \in Seq(TraceEntries) /\ << >> \in Seq(Issues)
    OBVIOUS
  <2>2. result \in Results
    BY DEF Init, New, Results
  <2>3. engine_error \in BOOLEAN /\ stop_requested \in BOOLEAN
    BY DEF Init, New
  <2> QED BY <2>1, <2>2, <2>3 DEF Init, New, TypeOK, TraceEntries, Issues
<1>2. TypeOK /\ [Next]_vars => TypeOK'
  <2> SUFFICES ASSUME TypeOK, [Next]_vars PROVE TypeOK'
    OBVIOUS
  <2>1. ASSUME NEW addr \in Mapped, NEW byte \in Bytes,
               WriteGuest(addr, byte) \/ GuestStore(addr, byte)
        PROVE  TypeOK'
    BY <2>1 DEF TypeOK, WriteGuest, GuestStore, shared, engine, history
  <2>2. ASSUME NEW timeout_ms \in Timeouts, RunStart(timeout_ms)
        PROVE  TypeOK'
    <3>1. stop_requested' \in BOOLEAN
      BY <2>2 DEF RunStart
    <3> QED BY <2>2, <3>1 DEF TypeOK, RunStart, shared
  <2>3. ASSUME NEW err \in EngineErrors, GuestFault(err)
        PROVE  TypeOK'
    BY <2>3 DEF TypeOK, GuestFault, EmuReturns, EngineErrors, shared, history
  <2>4. CASE GuestReachesUntil
    BY <2>4 DEF TypeOK, GuestReachesUntil, EmuReturns, shared, history
  <2>5. ASSUME NEW regs \in Requests, Syscall(regs)
        PROVE  TypeOK'
    BY <2>5, SyscallType
  <2>6. CASE Tick
    BY <2>6 DEF TypeOK, Tick, shared, history
  <2>7. CASE TimerFires
    BY <2>7 DEF TypeOK, TimerFires, shared, history
  <2>8. CASE EngineStops
    BY <2>8 DEF TypeOK, EngineStops, EmuReturns, shared, history
  <2>9. CASE RunReturn
    BY <2>9, VerdictType DEF TypeOK, RunReturn, shared, history
  <2>10. CASE UNCHANGED vars
    BY <2>10 DEF TypeOK, vars, shared, engine, history
  <2> QED BY <2>1, <2>2, <2>3, <2>4, <2>5, <2>6, <2>7, <2>8, <2>9, <2>10 DEF Next
<1> QED BY <1>1, <1>2, PTL DEF Spec

-----------------------------------------------------------------------------
(* The end of a run.  NothingAfterExit and FaultHidesNoExit are not         *)
(* inductive: that a syscall or a fault comes from a guest that has not     *)
(* ended has to be known of every state in which the guest is running, and  *)
(* that a new run starts clean because no earlier syscall is counted in it. *)

(* Whether the syscall ended the run it was made in. *)
EndsRun(call) == call.outcome.kind # "return"

LiveRunHasNotEnded ==
    pc = "running" =>
        \A i \in DOMAIN issued : issued[i].run = runs => ~EndsRun(issued[i])

IssuedInRunsSoFar == \A i \in DOMAIN issued : issued[i].run <= runs

EndInv ==
    /\ IssuedInRunsSoFar
    /\ LiveRunHasNotEnded
    /\ NothingAfterExit
    /\ FaultHidesNoExit

(* What TypeOK says of the syscalls issued. *)
LEMMA IssuedType ==
    ASSUME TypeOK
    PROVE  \A i \in DOMAIN issued : issued[i] \in Issues /\ issued[i].run \in Nat
<1>1. issued \in Seq(Issues)
  BY DEF TypeOK, Issues
<1>2. \A i \in DOMAIN issued : issued[i] \in Issues
  BY <1>1
<1> QED BY <1>2 DEF Issues

(* A syscall keeps the invariant: if it ends the run, the guest is no       *)
(* longer running, and emu_start reports no error.                          *)
LEMMA SyscallEnds ==
    ASSUME TypeOK, EndInv, NEW regs \in Requests, Syscall(regs)
    PROVE  EndInv'
<1> DEFINE call == DispatchCall(Handlers, mem, regs)
           new  == [run |-> runs, regs |-> regs, outcome |-> call.outcome]
<1>1. pc = "running" /\ runs' = runs
  BY DEF Syscall
<1>2. /\ issued \in Seq(Issues)
      /\ issued' = Append(issued, new)
  BY DEF Syscall, TypeOK, Issues
<1>3. \/ call.outcome.kind = "return" /\ pc' = pc
      \/ call.outcome.kind # "return" /\ pc' = "returned" /\ emu_err' = "OK"
      \/ pc' = "aborted"
  BY DEF Syscall, HookReturn, HookExit, HookError, EmuReturns
<1> HIDE DEF call
<1>4. /\ Len(issued) \in Nat
      /\ DOMAIN issued = 1 .. Len(issued)
      /\ DOMAIN issued' = 1 .. Len(issued) + 1
      /\ \A i \in DOMAIN issued : issued'[i] = issued[i]
      /\ issued'[Len(issued) + 1] = new
  BY <1>2
<1>5. \A i \in DOMAIN issued' : i \in DOMAIN issued \/ i = Len(issued) + 1
  BY <1>4
<1>6. new.run = runs /\ new.outcome = call.outcome /\ runs \in Nat
  BY DEF TypeOK
<1> HIDE DEF new
<1>7. IssuedInRunsSoFar'
  BY <1>1, <1>4, <1>5, <1>6 DEF EndInv, IssuedInRunsSoFar
<1>8. LiveRunHasNotEnded'
  BY <1>1, <1>3, <1>4, <1>5, <1>6 DEF EndInv, LiveRunHasNotEnded, EndsRun
<1>9. NothingAfterExit'
  <2> SUFFICES ASSUME NEW i \in DOMAIN issued', NEW j \in DOMAIN issued',
                      i < j, issued'[i].outcome.kind # "return"
               PROVE  issued'[i].run < issued'[j].run
    BY DEF NothingAfterExit
  <2>1. i \in DOMAIN issued
    BY <1>4
  <2>2. CASE j \in DOMAIN issued
    BY <1>4, <2>1, <2>2 DEF EndInv, NothingAfterExit
  <2>3. CASE j = Len(issued) + 1
    <3>1. issued[i].run # runs
      BY <1>1, <1>4, <2>1 DEF EndInv, LiveRunHasNotEnded, EndsRun
    <3>2. issued[i].run <= runs /\ issued[i].run \in Nat
      BY <2>1, IssuedType DEF EndInv, IssuedInRunsSoFar
    <3> QED BY <1>4, <1>6, <2>1, <2>3, <3>1, <3>2
  <2> QED BY <1>5, <2>2, <2>3
<1>10. FaultHidesNoExit'
  BY <1>1, <1>3 DEF FaultHidesNoExit
<1> QED BY <1>7, <1>8, <1>9, <1>10 DEF EndInv

(* The invariant is inductive. *)
LEMMA EndInvariant == Spec => []EndInv
<1>1. Init => EndInv
  BY DEF Init, New, EndInv, IssuedInRunsSoFar, LiveRunHasNotEnded,
         NothingAfterExit, FaultHidesNoExit
<1>2. TypeOK /\ EndInv /\ [Next]_vars => EndInv'
  <2> SUFFICES ASSUME TypeOK, EndInv, [Next]_vars PROVE EndInv'
    OBVIOUS
  <2> DEFINE Steady == UNCHANGED <<issued, runs>>
  <2>1. ASSUME Steady, pc' = pc, emu_err' = emu_err PROVE EndInv'
    BY <2>1 DEF EndInv, IssuedInRunsSoFar, LiveRunHasNotEnded,
                NothingAfterExit, FaultHidesNoExit
  <2>2. ASSUME Steady, pc = "running", pc' = "returned" PROVE EndInv'
    BY <2>2 DEF EndInv, IssuedInRunsSoFar, LiveRunHasNotEnded, EndsRun,
                NothingAfterExit, FaultHidesNoExit
  <2>3. ASSUME NEW timeout_ms \in Timeouts, RunStart(timeout_ms)
        PROVE  EndInv'
    <3>1. /\ issued' = issued /\ runs' = runs + 1 /\ pc' = "running"
          /\ runs \in Nat /\ \A i \in DOMAIN issued : issued[i].run \in Nat
      BY <2>3, IssuedType DEF RunStart, TypeOK
    <3> QED BY <3>1 DEF EndInv, IssuedInRunsSoFar, LiveRunHasNotEnded,
                        NothingAfterExit, FaultHidesNoExit
  <2>4. ASSUME NEW regs \in Requests, Syscall(regs) PROVE EndInv'
    BY <2>4, SyscallEnds
  <2>5. ASSUME NEW addr \in Mapped, NEW byte \in Bytes,
               WriteGuest(addr, byte) \/ GuestStore(addr, byte)
        PROVE  EndInv'
    BY <2>1, <2>5 DEF WriteGuest, GuestStore, engine, history
  <2>6. ASSUME NEW err \in EngineErrors, GuestFault(err) PROVE EndInv'
    BY <2>2, <2>6 DEF GuestFault, EmuReturns, history
  <2>7. CASE GuestReachesUntil
    BY <2>2, <2>7 DEF GuestReachesUntil, EmuReturns, history
  <2>8. CASE Tick
    BY <2>1, <2>8 DEF Tick, history
  <2>9. CASE TimerFires
    BY <2>1, <2>9 DEF TimerFires, history
  <2>10. CASE EngineStops
    BY <2>2, <2>10 DEF EngineStops, EmuReturns, history
  <2>11. CASE RunReturn
    BY <2>11 DEF RunReturn, history, EndInv, IssuedInRunsSoFar,
                 LiveRunHasNotEnded, NothingAfterExit, FaultHidesNoExit
  <2>12. CASE UNCHANGED vars
    BY <2>1, <2>12 DEF vars, engine, history
  <2> QED BY <2>3, <2>4, <2>5, <2>6, <2>7, <2>8, <2>9, <2>10, <2>11, <2>12
          DEF Next
<1> QED BY <1>1, <1>2, TypeCorrect, PTL DEF Spec

(* After exit, exit_group or a failed handler there is no other syscall in  *)
(* that run.                                                                *)
THEOREM NoSyscallAfterExit == Spec => []NothingAfterExit
<1>1. EndInv => NothingAfterExit
  BY DEF EndInv
<1> QED BY <1>1, EndInvariant, PTL

(* When emu_start reports an error no exit and no handler failure of this   *)
(* run is lost by looking at that error first.                              *)
THEOREM NoExitIsHidden == Spec => []FaultHidesNoExit
<1>1. EndInv => FaultHidesNoExit
  BY DEF EndInv
<1> QED BY <1>1, EndInvariant, PTL

-----------------------------------------------------------------------------
(* The exit reason.                                                         *)

(* Only an exit of the guest sets the exit reason, and it sets it to that   *)
(* exit, so it is always the outcome of the latest one.                     *)
THEOREM ReasonIsTheLatest == Spec => []ReasonIsLatestExit
<1> DEFINE exits == {i \in DOMAIN issued : issued[i].outcome.kind = "exit"}
<1>1. Init => ReasonIsLatestExit
  BY DEF Init, New, ReasonIsLatestExit
<1>2. TypeOK /\ ReasonIsLatestExit /\ [Next]_vars => ReasonIsLatestExit'
  <2> SUFFICES ASSUME TypeOK, ReasonIsLatestExit, [Next]_vars
               PROVE  ReasonIsLatestExit'
    OBVIOUS
  <2>1. ASSUME NEW regs \in Requests, Syscall(regs)
        PROVE  ReasonIsLatestExit'
    <3> DEFINE call == DispatchCall(Handlers, mem, regs)
               new  == [run |-> runs, regs |-> regs, outcome |-> call.outcome]
               last == Len(issued) + 1
    <3>1. issued \in Seq(Issues) /\ issued' = Append(issued, new)
      BY <2>1 DEF Syscall, TypeOK, Issues
    <3>2. call.outcome.kind = "exit" => call.outcome \in ExitReasons
      BY DispatchType DEF TypeOK
    <3>3. \/ call.outcome.kind = "exit" /\ exit_reason' = call.outcome
          \/ call.outcome.kind # "exit" /\ exit_reason' = exit_reason
      BY <2>1 DEF Syscall, HookReturn, HookExit, HookError
    <3>4. new.outcome = call.outcome
      OBVIOUS
    <3> HIDE DEF call, new
    <3>5. /\ Len(issued) \in Nat
          /\ DOMAIN issued = 1 .. Len(issued)
          /\ DOMAIN issued' = 1 .. last
          /\ \A i \in DOMAIN issued : issued'[i] = issued[i]
          /\ issued'[last] = new
      BY <3>1
    <3>6. CASE call.outcome.kind = "exit"
      <4>1. exits' = exits \cup {last}
        BY <3>4, <3>5, <3>6
      <4>2. exit_reason' # NoReason
        BY <3>2, <3>3, <3>6 DEF ExitReasons, NoReason
      <4>3. \A j \in exits' : j <= last
        BY <3>5
      <4> QED BY <3>3, <3>4, <3>5, <3>6, <4>1, <4>2, <4>3 DEF ReasonIsLatestExit
    <3>7. CASE call.outcome.kind # "exit"
      <4>1. exits' = exits
        BY <3>4, <3>5, <3>7
      <4> QED BY <3>3, <3>5, <3>7, <4>1 DEF ReasonIsLatestExit
    <3> QED BY <3>6, <3>7
  <2>2. CASE UNCHANGED <<exit_reason, issued>>
    BY <2>2 DEF ReasonIsLatestExit
  <2> QED BY <2>1, <2>2
       DEF Next, WriteGuest, RunStart, GuestStore, GuestFault, GuestReachesUntil,
           Tick, TimerFires, EngineStops, RunReturn, vars, shared, history
<1> QED BY <1>1, <1>2, TypeCorrect, PTL DEF Spec

-----------------------------------------------------------------------------
(* Output and trace.                                                        *)

(* What one syscall adds to the output is what its record says it wrote.    *)
LEMMA DispatchCaptures ==
    ASSUME NEW m \in [Mapped -> Bytes], NEW regs \in Requests,
           NEW call, call = DispatchCall(Handlers, m, regs)
    PROVE  Len(Combined(call.io)) =
               IF /\ call.outcome.kind = "return"
                  /\ HandlerName(Handlers, regs.nr) = "write"
                  /\ call.outcome.ret > 0
               THEN call.outcome.ret ELSE 0
<1> USE VcpuAssumption, MaxAllocAssumption
<1> DEFINE h == CHOOSE x \in Find(Handlers, regs.nr) : TRUE
           name == HandlerName(Handlers, regs.nr)
           data == MemRead(m, regs.ptr, regs.count)
<1>1. /\ regs.arg0 \in Nat /\ regs.ptr \in Nat /\ regs.count \in Nat
  OBVIOUS
<1>2. Len(<< >>) = 0
  OBVIOUS
<1>3. CASE Find(Handlers, regs.nr) = {}
  <2>1. name = "<unimplemented>" /\ call.io = NoOutput
    BY <1>3 DEF HandlerName, DispatchCall
  <2> QED BY <1>2, <2>1, CombinedOfNothing
<1>4. CASE Find(Handlers, regs.nr) # {}
  <2>1. /\ call = Handle(h, m, regs)
        /\ name = h.name
    BY <1>4 DEF DispatchCall, HandlerName
  <2>2. h \in {WriteHandler, ExitHandler, ExitGroupHandler}
    BY <1>4, Found
  <2> HIDE DEF h, name
  <2>3. CASE h # WriteHandler
    <3>1. call.io = NoOutput /\ call.outcome = Exit(regs.arg0 % 256)
      BY <2>1, <2>3 DEF Handle, HandleExit
    <3> QED BY <1>2, <3>1, CombinedOfNothing DEF Exit
  <2>4. CASE h = WriteHandler
    <3>1. name = "write" /\ call = HandleWrite(m, regs)
      BY <2>1, <2>4 DEF Handle, WriteHandler
    <3>2. CASE call.io = NoOutput /\ ~(call.outcome.kind = "return"
                                       /\ call.outcome.ret > 0)
      BY <1>2, <3>2, CombinedOfNothing
    <3>3. CASE /\ regs.arg0 \in {1, 2}
               /\ Readable(m, regs.ptr, regs.count)
               /\ call = [outcome |-> Return(regs.count),
                          io |-> CaptureWrite(NoOutput, regs.arg0, data)]
      <4>1. data \in Seq(Bytes) /\ Len(data) = regs.count
        BY <1>1, <3>3 DEF MemRead, Readable
      <4>2. Combined(call.io) = data
        BY <3>3, <4>1, CombinedOfWrite
      <4> HIDE DEF data
      <4> QED BY <1>1, <3>1, <3>3, <4>1, <4>2 DEF Return, name
    <3> QED BY <1>1, <3>1, <3>2, <3>3
            DEF HandleWrite, Return, Panic, EngineFailure, Err, EBADF
  <2> QED BY <2>3, <2>4
<1> QED BY <1>3, <1>4

(* The two accounts of the guest's output agree: it only grows, and by n    *)
(* bytes exactly when the trace gains a write that returned n.              *)
THEOREM OutputIsTraced == Spec => CapturedBytesAreReported
<1> DEFINE grown == Len(output') - Len(output)
           last  == trace'[Len(trace')]
           Agree ==
               /\ IsPrefix(output, output')
               /\ grown = IF Len(trace') > Len(trace) /\ last.name = "write"
                             /\ last.ret > 0
                          THEN last.ret ELSE 0
<1>1. TypeOK /\ [Next]_vars => [Agree]_vars
  <2> SUFFICES ASSUME TypeOK, [Next]_vars PROVE Agree
    OBVIOUS
  <2>1. output \in Seq(Bytes) /\ trace \in Seq(TraceEntries)
    BY DEF TypeOK, TraceEntries
  <2>2. CASE UNCHANGED <<output, trace>>
    <3>1. IsPrefix(output, output') /\ grown = 0 /\ ~(Len(trace') > Len(trace))
      BY <2>1, <2>2 DEF IsPrefix
    <3> QED BY <3>1
  <2>3. ASSUME NEW regs \in Requests, Syscall(regs) PROVE Agree
    <3> DEFINE call  == DispatchCall(Handlers, mem, regs)
               data  == Combined(call.io)
               entry == TraceRecord(Handlers, trace, regs, call.outcome)
               fails == call.outcome.kind \in {"error", "panic"}
    <3>1. /\ trace' = IF fails THEN trace ELSE Append(trace, entry)
          /\ output' = output \o data
      BY <2>3 DEF Syscall, Traced
    <3>2. /\ data \in Seq(Bytes)
          /\ call.outcome.kind \in {"return", "exit", "error", "panic"}
          /\ call.outcome.kind = "return" => call.outcome.ret \in Int
      BY DispatchType DEF TypeOK
    <3>3. Len(data) = IF /\ call.outcome.kind = "return"
                         /\ HandlerName(Handlers, regs.nr) = "write"
                         /\ call.outcome.ret > 0
                      THEN call.outcome.ret ELSE 0
      BY DispatchCaptures DEF TypeOK
    <3>4. /\ entry.name = HandlerName(Handlers, regs.nr)
          /\ entry.ret = IF call.outcome.kind = "return"
                         THEN call.outcome.ret ELSE 0
      BY DEF TraceRecord
    <3> HIDE DEF call, data, entry
    <3>5. IsPrefix(output, output') /\ grown = Len(data)
      BY <2>1, <3>1, <3>2 DEF IsPrefix
    <3>6. CASE fails
      <4>1. ~(Len(trace') > Len(trace))
        BY <2>1, <3>1, <3>6
      <4> QED BY <3>3, <3>5, <3>6, <4>1
    <3>7. CASE ~fails
      <4>1. Len(trace') > Len(trace) /\ last = entry
        BY <2>1, <3>1, <3>7
      <4> QED BY <3>2, <3>3, <3>4, <3>5, <3>7, <4>1
    <3> QED BY <3>6, <3>7
  <2> QED BY <2>2, <2>3
       DEF Next, WriteGuest, RunStart, GuestStore, GuestFault, GuestReachesUntil,
           Tick, TimerFires, EngineStops, RunReturn, vars, shared
<1> QED BY <1>1, TypeCorrect, PTL DEF Spec, CapturedBytesAreReported

-----------------------------------------------------------------------------
(* The trace against the syscalls issued. *)

(* Numbers up to a bound: their positions by counting. *)
LEMMA CountedPlaces ==
    ASSUME NEW n \in Nat, NEW S \in SUBSET (1 .. n)
    PROVE  /\ IsFiniteSet(S) /\ Cardinality(S) \in Nat
           /\ \A i \in S : Cardinality({j \in S : j <= i}) \in 1 .. Cardinality(S)
<1>1. IsFiniteSet(1 .. n)
  BY FS_Interval
<1>2. IsFiniteSet(S) /\ Cardinality(S) \in Nat
  BY <1>1, FS_Subset, FS_CardinalityType
<1>3. ASSUME NEW i \in S
      PROVE  Cardinality({j \in S : j <= i}) \in 1 .. Cardinality(S)
  <2> DEFINE T == {j \in S : j <= i}
  <2>1. T \in SUBSET S /\ i \in T
    OBVIOUS
  <2> HIDE DEF T
  <2>2. IsFiniteSet(T) /\ Cardinality(T) <= Cardinality(S)
    BY <1>2, <2>1, FS_Subset
  <2>3. Cardinality(T) \in Nat /\ Cardinality(T) # 0
    BY <2>1, <2>2, FS_EmptySet, FS_CardinalityType
  <2>4. Cardinality(T) \in 1 .. Cardinality(S)
    BY <1>2, <2>2, <2>3
  <2> QED BY <2>4 DEF T
<1> QED BY <1>2, <1>3

(* The trace is the syscalls the guest made, in order, less exactly those   *)
(* whose handler failed: each under its place, its registers, its name and  *)
(* the value the guest got.                                                 *)
THEOREM TraceIsTheCalls == Spec => []TraceMissesOnlyFailures
<1> DEFINE recorded == {i \in DOMAIN issued :
                           issued[i].outcome.kind \notin {"error", "panic"}}
           place(i) == Cardinality({j \in recorded : j <= i})
<1>1. Init => TraceMissesOnlyFailures
  <2> SUFFICES ASSUME Init PROVE TraceMissesOnlyFailures
    OBVIOUS
  <2>1. recorded = {} /\ Len(trace) = 0
    BY DEF Init, New
  <2> HIDE DEF recorded
  <2>2. Cardinality(recorded) = 0
    BY <2>1, FS_EmptySet
  <2> QED BY <2>1, <2>2 DEF TraceMissesOnlyFailures, recorded
<1>2. TypeOK /\ TraceMissesOnlyFailures /\ [Next]_vars => TraceMissesOnlyFailures'
  <2> SUFFICES ASSUME TypeOK, TraceMissesOnlyFailures, [Next]_vars
               PROVE  TraceMissesOnlyFailures'
    OBVIOUS
  <2>1. ASSUME NEW regs \in Requests, Syscall(regs)
        PROVE  TraceMissesOnlyFailures'
    <3> DEFINE call  == DispatchCall(Handlers, mem, regs)
               new   == [run |-> runs, regs |-> regs, outcome |-> call.outcome]
               entry == TraceRecord(Handlers, trace, regs, call.outcome)
               fails == call.outcome.kind \in {"error", "panic"}
               last  == Len(issued) + 1
    <3>1. /\ issued' = Append(issued, new)
          /\ trace' = IF fails THEN trace ELSE Append(trace, entry)
      BY <2>1 DEF Syscall, Traced
    <3>2. /\ new.outcome = call.outcome /\ new.regs = regs
          /\ entry = [seq |-> Len(trace), regs |-> regs, name |-> NameOf(regs.nr),
                      ret |-> IF call.outcome.kind = "return" THEN call.outcome.ret
                              ELSE 0]
      BY HandlerNameIs DEF TraceRecord
    <3> HIDE DEF call, new, entry
    <3>3. /\ Len(issued) \in Nat
          /\ DOMAIN issued = 1 .. Len(issued)
          /\ DOMAIN issued' = 1 .. last
          /\ \A i \in DOMAIN issued : issued'[i] = issued[i]
          /\ issued'[last] = new
      <4>1. issued \in Seq(Issues)
        BY DEF TypeOK, Issues
      <4> QED BY <3>1, <4>1
    <3>4. trace \in Seq(TraceEntries) /\ Len(trace) \in Nat
      BY DEF TypeOK, TraceEntries
    <3>5. /\ recorded \in SUBSET (1 .. Len(issued))
          /\ recorded' = IF fails THEN recorded ELSE recorded \cup {last}
      BY <3>2, <3>3
    <3>6. /\ IsFiniteSet(recorded) /\ Cardinality(recorded) \in Nat
          /\ \A i \in recorded : place(i) \in 1 .. Cardinality(recorded)
      <4> HIDE DEF recorded
      <4> QED BY <3>3, <3>5, CountedPlaces
    <3>7. /\ Len(trace) = Cardinality(recorded)
          /\ \A i \in recorded : trace[place(i)] = RowOf(issued[i], place(i))
      BY DEF TraceMissesOnlyFailures
    <3>8. \A i \in recorded : i \in DOMAIN issued
      OBVIOUS
    <3>9. CASE fails
      BY <3>1, <3>3, <3>5, <3>7, <3>8, <3>9 DEF TraceMissesOnlyFailures
    <3>10. CASE ~fails
      <4> HIDE DEF recorded
      <4>1. recorded' = recorded \cup {last} /\ last \notin recorded
        BY <3>3, <3>5, <3>10
      <4>2. Cardinality(recorded') = Cardinality(recorded) + 1
        BY <3>6, <4>1, FS_AddElement
      <4>3. \A i \in recorded : {j \in recorded' : j <= i} = {j \in recorded : j <= i}
        BY <3>3, <3>5, <4>1
      <4>4. {j \in recorded' : j <= last} = recorded'
        <5>1. \A j \in recorded' : j <= last
          BY <3>3, <3>5, <4>1
        <5> QED BY <5>1
      <4>5. /\ Len(trace') = Len(trace) + 1
            /\ \A k \in 1 .. Len(trace) : trace'[k] = trace[k]
            /\ trace'[Len(trace) + 1] = entry
        BY <3>1, <3>4, <3>10
      <4>6. ASSUME NEW i \in recorded'
            PROVE  LET n == Cardinality({j \in recorded' : j <= i})
                   IN  trace'[n] = RowOf(issued'[i], n)
        <5>1. CASE i \in recorded
          <6>1. place(i) \in 1 .. Len(trace)
            BY <3>6, <3>7, <5>1
          <6>2. Cardinality({j \in recorded' : j <= i}) = place(i)
            BY <4>3, <5>1
          <6>3. trace[place(i)] = RowOf(issued[i], place(i))
            BY <3>7, <5>1
          <6> HIDE DEF place
          <6>4. issued'[i] = issued[i]
            BY <3>3, <3>5, <5>1
          <6> QED BY <4>5, <6>1, <6>2, <6>3, <6>4
        <5>2. CASE i = last
          <6>1. entry = RowOf(new, Len(trace) + 1)
            BY <3>2, <3>4 DEF RowOf
          <6> QED BY <3>3, <3>7, <4>2, <4>4, <4>5, <5>2, <6>1
        <5> QED BY <4>1, <5>1, <5>2
      <4>7. Len(trace') = Cardinality(recorded')
        BY <3>7, <4>2, <4>5
      <4> QED BY <4>6, <4>7 DEF TraceMissesOnlyFailures, recorded
    <3> QED BY <3>9, <3>10
  <2>2. CASE UNCHANGED <<trace, issued>>
    BY <2>2 DEF TraceMissesOnlyFailures
  <2> QED BY <2>1, <2>2
       DEF Next, WriteGuest, RunStart, GuestStore, GuestFault, GuestReachesUntil,
           Tick, TimerFires, EngineStops, RunReturn, vars, history
<1> QED BY <1>1, <1>2, TypeCorrect, PTL DEF Spec

-----------------------------------------------------------------------------
(* The refinement.  What the abstract process keeps is, in the code, spread *)
(* over two cells that no run resets: the exit reason is the latest exit    *)
(* (ReasonIsLatestExit), and the engine error is set by a failed syscall.   *)

ErrorIsMade == engine_error = TRUE <=> Made("error") # {}

(* Every run that has left "idle" has been counted. *)
RunsAreCounted == pc # "idle" => runs # 0

RefineInv == TypeOK /\ ReasonIsLatestExit /\ ErrorIsMade /\ RunsAreCounted

(* What a syscall adds to the syscalls of a kind. *)
LEMMA SyscallMade ==
    ASSUME TypeOK, NEW regs \in Requests, Syscall(regs), NEW kind,
           NEW call, call = DispatchCall(Handlers, mem, regs)
    PROVE  /\ Len(issued) + 1 \notin Made(kind)
           /\ Made(kind)' = IF call.outcome.kind = kind
                            THEN Made(kind) \cup {Len(issued) + 1} ELSE Made(kind)
           /\ \A i \in Made(kind) : i < Len(issued) + 1 /\ issued'[i] = issued[i]
           /\ issued'[Len(issued) + 1].outcome = call.outcome
<1> DEFINE new == [run |-> runs, regs |-> regs, outcome |-> call.outcome]
<1>1. issued \in Seq(Issues) /\ issued' = Append(issued, new)
  BY DEF Syscall, TypeOK, Issues
<1>2. new.outcome = call.outcome
  OBVIOUS
<1> HIDE DEF new
<1>3. /\ Len(issued) \in Nat
      /\ DOMAIN issued = 1 .. Len(issued)
      /\ DOMAIN issued' = 1 .. Len(issued) + 1
      /\ \A i \in DOMAIN issued : issued'[i] = issued[i]
      /\ issued'[Len(issued) + 1] = new
  BY <1>1
<1> QED BY <1>2, <1>3 DEF Made

(* The cells hold what is kept. *)
LEMMA CellsAreKept ==
    ASSUME RefineInv
    PROVE  Kept = IF exit_reason # NoReason THEN exit_reason
                  ELSE IF engine_error THEN ExecError ELSE NotRun
<1> DEFINE exits == {i \in DOMAIN issued : issued[i].outcome.kind = "exit"}
           last == CHOOSE i \in Made("exit") : \A j \in Made("exit") : j <= i
<1>1. exits = Made("exit")
  BY DEF Made
<1>2. \A i \in DOMAIN issued : i \in Nat
  <2>1. issued \in Seq(Issues)
    BY DEF RefineInv, TypeOK, Issues
  <2> QED BY <2>1
<1>3. CASE exit_reason = NoReason
  BY <1>1, <1>3 DEF RefineInv, ReasonIsLatestExit, ErrorIsMade, Kept
<1>4. CASE exit_reason # NoReason
  <2>1. PICK i \in Made("exit") : /\ issued[i].outcome = exit_reason
                                  /\ \A j \in Made("exit") : j <= i
    BY <1>1, <1>4 DEF RefineInv, ReasonIsLatestExit
  <2>2. last \in Made("exit") /\ \A j \in Made("exit") : j <= last
    BY <2>1
  <2>3. last = i
    BY <1>2, <2>1, <2>2 DEF Made
  <2> QED BY <1>4, <2>1, <2>3 DEF Kept
<1> QED BY <1>3, <1>4

(* What run makes of the cells is how the guest has ended. *)
LEMMA VerdictIsTheEnding ==
    ASSUME RefineInv
    PROVE  Verdict(emu_err, exit_reason, engine_error) = GuestEnding
<1>1. exit_reason # NoReason => exit_reason \in ExitReasons
  BY DEF RefineInv, TypeOK
<1>2. Kept = NotRun <=> (exit_reason = NoReason /\ engine_error = FALSE)
  <2>1. exit_reason # NoReason => exit_reason # NotRun
    <3>1. \A r \in ExitReasons : r.kind = "exit"
      BY DEF ExitReasons
    <3>2. NotRun.kind = "not run"
      BY DEF NotRun
    <3> QED BY <1>1, <3>1, <3>2
  <2>2. ExecError # NotRun
    BY DEF ExecError, NotRun
  <2>3. engine_error \in BOOLEAN
    BY DEF RefineInv, TypeOK
  <2> QED BY <2>1, <2>2, <2>3, CellsAreKept
<1>3. "OK" \notin FalloffErrors
  BY DEF FalloffErrors
<1>4. CASE emu_err # "OK"
  BY <1>4 DEF Verdict, GuestEnding
<1>5. CASE emu_err = "OK" /\ Kept = NotRun
  BY <1>2, <1>3, <1>5 DEF Verdict, GuestEnding
<1>6. CASE emu_err = "OK" /\ Kept # NotRun
  BY <1>2, <1>3, <1>6, CellsAreKept DEF Verdict, GuestEnding, RefineInv, TypeOK
<1> QED BY <1>4, <1>5, <1>6

(* The cells follow the syscalls, and the runs are counted. *)
LEMMA RefineInvariant == Spec => []RefineInv
<1>1. Init => ErrorIsMade /\ RunsAreCounted
  <2> SUFFICES ASSUME Init PROVE ErrorIsMade /\ RunsAreCounted
    OBVIOUS
  <2>1. issued = << >> /\ engine_error = FALSE /\ pc = "idle"
    BY DEF Init, New
  <2>2. Made("error") = {}
    BY <2>1 DEF Made
  <2> QED BY <2>1, <2>2 DEF ErrorIsMade, RunsAreCounted
<1>2. TypeOK /\ ErrorIsMade /\ RunsAreCounted /\ [Next]_vars
          => ErrorIsMade' /\ RunsAreCounted'
  <2> SUFFICES ASSUME TypeOK, ErrorIsMade, RunsAreCounted, [Next]_vars
               PROVE  ErrorIsMade' /\ RunsAreCounted'
    OBVIOUS
  <2>1. ASSUME NEW regs \in Requests, Syscall(regs)
        PROVE  ErrorIsMade' /\ RunsAreCounted'
    <3> DEFINE call == DispatchCall(Handlers, mem, regs)
    <3>1. \/ call.outcome.kind # "error" /\ engine_error' = engine_error
          \/ call.outcome.kind = "error" /\ engine_error' = TRUE
      BY <2>1 DEF Syscall, HookReturn, HookExit, HookError
    <3> HIDE DEF call
    <3>2. Made("error")' = IF call.outcome.kind = "error"
                           THEN Made("error") \cup {Len(issued) + 1} ELSE Made("error")
      BY <2>1, SyscallMade DEF call
    <3>3. ErrorIsMade'
      BY <3>1, <3>2 DEF ErrorIsMade
    <3>4. RunsAreCounted'
      BY <2>1 DEF Syscall, RunsAreCounted
    <3> QED BY <3>3, <3>4
  <2>2. ASSUME NEW timeout_ms \in Timeouts, RunStart(timeout_ms)
        PROVE  ErrorIsMade' /\ RunsAreCounted'
    BY <2>2 DEF RunStart, shared, ErrorIsMade, RunsAreCounted, Made, TypeOK
  <2>3. CASE UNCHANGED <<engine_error, issued, runs>> /\ (pc' # "idle" => pc # "idle")
    BY <2>3 DEF ErrorIsMade, RunsAreCounted, Made
  <2> QED BY <2>1, <2>2, <2>3
       DEF Next, WriteGuest, GuestStore, GuestFault, GuestReachesUntil,
           Tick, TimerFires, EngineStops, RunReturn, EmuReturns, vars, shared,
           engine, history
<1> QED BY <1>1, <1>2, TypeCorrect, ReasonIsTheLatest, PTL DEF Spec, RefineInv

(* What is kept changes only with the syscalls. *)
LEMMA KeptIsSteady ==
    ASSUME issued' = issued
    PROVE  Kept' = Kept
BY DEF Kept, Made

(* A step inside a run that no syscall makes. *)
LEMMA QuietRun ==
    ASSUME pc = "running", pc' = "running", UNCHANGED <<output, issued>>
    PROVE  UNCHANGED Process!vars
BY KeptIsSteady DEF Process!vars, AbstractStatus, AbstractEnding

(* The guest stops without a syscall. *)
LEMMA StopIsStop ==
    ASSUME RefineInv, pc = "running", EmuReturns("OK"),
           UNCHANGED <<output, issued, runs>>
    PROVE  Process!Next
<1>1. Kept' = Kept
  BY KeptIsSteady
<1>2. Stopped \notin ExitReasons /\ Stopped # ExecError
  <2>1. \A r \in ExitReasons : r.kind = "exit"
    BY DEF ExitReasons
  <2>2. Stopped.kind = "stopped" /\ ExecError.kind = "E504"
    BY DEF Stopped, ExecError
  <2> QED BY <2>1, <2>2
<1>3. AbstractStatus = "live" /\ AbstractStatus' = "ended"
  BY DEF EmuReturns, AbstractStatus, RefineInv, RunsAreCounted
<1>4. AbstractEnding' = IF Kept' = NotRun THEN Stopped ELSE Kept'
  BY DEF EmuReturns, AbstractEnding, GuestEnding, FalloffErrors
<1>5. Process!Stop(Stopped)
  BY <1>1, <1>2, <1>3, <1>4 DEF Process!Stop
<1> QED BY <1>5 DEF Process!Next

(* A syscall is a write, a stop, or a crash. *)
LEMMA SyscallIsAStep ==
    ASSUME RefineInv, NEW regs \in Requests, Syscall(regs)
    PROVE  Process!Next
<1> DEFINE call == DispatchCall(Handlers, mem, regs)
           data == Combined(call.io)
           last == Len(issued) + 1
<1>1. /\ pc = "running" /\ runs' = runs /\ runs # 0
      /\ output' = output \o data
      /\ \/ call.outcome.kind = "return" /\ HookReturn(call.outcome.ret)
         \/ call.outcome.kind = "exit"   /\ HookExit(call.outcome)
         \/ call.outcome.kind = "error"  /\ HookError
         \/ call.outcome.kind = "panic"  /\ pc' = "aborted"
  BY DEF Syscall, RefineInv, RunsAreCounted
<1>2. output \in Seq(Bytes)
  BY DEF RefineInv, TypeOK
<1>3. /\ data \in Seq(Bytes)
      /\ call.outcome.kind = "exit" => call.outcome \in ExitReasons
  BY DispatchType DEF RefineInv, TypeOK
<1>4. call.outcome.kind # "return" => Len(data) = 0
  BY DispatchCaptures DEF RefineInv, TypeOK
<1>5. \A kind :
         /\ last \notin Made(kind)
         /\ Made(kind)' = IF call.outcome.kind = kind
                          THEN Made(kind) \cup {last} ELSE Made(kind)
         /\ \A i \in Made(kind) : i < last /\ issued'[i] = issued[i]
         /\ issued'[last].outcome = call.outcome
  BY SyscallMade DEF RefineInv
<1>5a. \A r \in ExitReasons : r.kind = "exit"
  BY DEF ExitReasons
<1>5b. ExecError \notin ExitReasons /\ NotRun \notin ExitReasons /\ ExecError # NotRun
  <2>1. ExecError.kind = "E504" /\ NotRun.kind = "not run"
    BY DEF ExecError, NotRun
  <2> QED BY <1>5a, <2>1
<1>5c. last \in Nat
  BY DEF RefineInv, TypeOK
<1>5d. \A i \in Made("exit") : i \in Nat
  <2>1. issued \in Seq(Issues)
    BY DEF RefineInv, TypeOK, Issues
  <2> QED BY <2>1 DEF Made
<1> HIDE DEF call, data, last
<1>6. AbstractStatus = "live"
  BY <1>1 DEF AbstractStatus
<1>7. call.outcome.kind # "return" => output' = output
  BY <1>1, <1>2, <1>3, <1>4
<1>8. call.outcome.kind # "exit" =>
         Kept' = IF Made("exit") # {} THEN Kept
                 ELSE IF call.outcome.kind = "error" THEN ExecError ELSE Kept
  <2> SUFFICES ASSUME call.outcome.kind # "exit"
               PROVE  Kept' = IF Made("exit") # {} THEN Kept
                              ELSE IF call.outcome.kind = "error"
                              THEN ExecError ELSE Kept
    OBVIOUS
  <2> DEFINE top == CHOOSE i \in Made("exit") : \A j \in Made("exit") : j <= i
  <2>1. Made("exit")' = Made("exit")
    BY <1>5
  <2>2. CASE Made("exit") # {}
    <3>1. top \in Made("exit")
      <4>1. exit_reason # NoReason
        BY <2>2 DEF RefineInv, ReasonIsLatestExit, Made
      <4>2. \E i \in Made("exit") : \A j \in Made("exit") : j <= i
        BY <4>1 DEF RefineInv, ReasonIsLatestExit, Made
      <4> QED BY <4>2
    <3>2. top' = top
      BY <2>1
    <3>3. issued'[top] = issued[top]
      BY <1>5, <3>1
    <3>4. Kept = issued[top].outcome /\ Kept' = issued'[top].outcome
      <4>1. Kept = issued[top].outcome
        BY <2>2 DEF Kept
      <4>2. Kept' = issued'[top'].outcome
        BY <2>1, <2>2 DEF Kept
      <4> HIDE DEF top
      <4> QED BY <3>2, <4>1, <4>2
    <3> QED BY <2>2, <3>3, <3>4
  <2>3. CASE Made("exit") = {}
    <3>1. Made("error")' = IF call.outcome.kind = "error"
                           THEN Made("error") \cup {last} ELSE Made("error")
      BY <1>5
    <3> QED BY <2>1, <2>3, <3>1 DEF Kept
  <2> QED BY <2>2, <2>3
<1>9. CASE call.outcome.kind = "return"
  <2>1. pc' = "running"
    BY <1>1, <1>9 DEF HookReturn
  <2>2. /\ Len(output) <= Len(output')
        /\ SubSeq(output', 1, Len(output)) = output
    BY <1>1, <1>2, <1>3
  <2>3. AbstractStatus' = AbstractStatus /\ AbstractEnding' = AbstractEnding
    BY <1>1, <2>1 DEF AbstractStatus, AbstractEnding
  <2>4. Process!Write
    BY <1>6, <1>8, <1>9, <2>2, <2>3 DEF Process!Write
  <2> QED BY <2>4 DEF Process!Next
<1>10. CASE call.outcome.kind = "exit"
  <2>1. /\ pc' = "returned" /\ emu_err' = "OK" /\ call.outcome \in ExitReasons
    BY <1>1, <1>3, <1>10 DEF HookExit, EmuReturns
  <2>2. Kept' = call.outcome
    <3> DEFINE top == CHOOSE i \in Made("exit")' : \A j \in Made("exit")' : j <= i
    <3>1. Made("exit")' = Made("exit") \cup {last}
      BY <1>5, <1>10
    <3>2. last \in Made("exit")' /\ \A j \in Made("exit")' : j <= last
      <4>1. \A j \in Made("exit") : j <= last
        BY <1>5, <1>5c, <1>5d
      <4> QED BY <1>5c, <3>1, <4>1
    <3>3. top \in Made("exit")' /\ \A j \in Made("exit")' : j <= top
      BY <3>2
    <3>4. top = last
      <4> HIDE DEF top
      <4>1. top \in Nat
        BY <1>5c, <1>5d, <3>1, <3>3
      <4> QED BY <1>5c, <3>2, <3>3, <4>1
    <3>5. Kept' = issued'[top].outcome
      BY <3>2 DEF Kept
    <3> QED BY <1>5, <3>4, <3>5
  <2>3. Kept' # NotRun
    BY <1>5b, <2>1, <2>2
  <2>4. AbstractStatus' = "ended" /\ AbstractEnding' = Kept'
    BY <1>1, <2>1, <2>3 DEF AbstractStatus, AbstractEnding, GuestEnding, FalloffErrors
  <2>5. Process!Stop(call.outcome)
    BY <1>6, <1>7, <1>10, <2>1, <2>2, <2>3, <2>4 DEF Process!Stop
  <2> QED BY <2>1, <2>5 DEF Process!Next
<1>11. CASE call.outcome.kind = "error"
  <2>1. pc' = "returned" /\ emu_err' = "OK"
    BY <1>1, <1>11 DEF HookError, EmuReturns
  <2>2. Made("exit") # {} <=> Kept \in ExitReasons
    <3>1. exit_reason = NoReason <=> Made("exit") = {}
      BY DEF RefineInv, ReasonIsLatestExit, Made
    <3>2. exit_reason # NoReason => exit_reason \in ExitReasons
      BY DEF RefineInv, TypeOK
    <3>3. CASE exit_reason # NoReason
      <4>1. Kept = exit_reason
        BY <3>3, CellsAreKept
      <4> QED BY <3>1, <3>2, <3>3, <4>1
    <3>4. CASE exit_reason = NoReason
      <4>1. Kept \in {ExecError, NotRun}
        BY <3>4, CellsAreKept
      <4> QED BY <1>5b, <3>1, <3>4, <4>1
    <3> QED BY <3>3, <3>4
  <2>3. Kept' # NotRun
    <3>1. CASE Made("exit") # {}
      BY <1>5b, <1>8, <1>11, <2>2, <3>1
    <3>2. CASE Made("exit") = {}
      BY <1>5b, <1>8, <1>11, <3>2
    <3> QED BY <3>1, <3>2
  <2>4. AbstractStatus' = "ended" /\ AbstractEnding' = Kept'
    BY <1>1, <2>1, <2>3 DEF AbstractStatus, AbstractEnding, GuestEnding, FalloffErrors
  <2>5. Process!Stop(ExecError)
    BY <1>5b, <1>6, <1>7, <1>8, <1>11, <2>2, <2>3, <2>4 DEF Process!Stop
  <2> QED BY <2>5 DEF Process!Next
<1>12. CASE call.outcome.kind = "panic" /\ pc' = "aborted"
  <2>1. AbstractStatus' = "crashed" /\ AbstractEnding' = Panic
    BY <1>12 DEF AbstractStatus, AbstractEnding
  <2>2. Kept' = Kept
    BY <1>8, <1>12
  <2>3. Process!Crash
    BY <1>6, <1>7, <1>12, <2>1, <2>2 DEF Process!Crash
  <2> QED BY <2>3 DEF Process!Next
<1> QED BY <1>1, <1>9, <1>10, <1>11, <1>12

(* Every step of a Vcpu is a step of the abstract process or leaves it as   *)
(* it is.                                                                   *)
LEMMA StepRefines ==
    ASSUME RefineInv, RefineInv', [Next]_vars
    PROVE  [Process!Next]_(Process!vars)
<1>1. ASSUME NEW addr \in Mapped, NEW byte \in Bytes, WriteGuest(addr, byte)
      PROVE  UNCHANGED Process!vars
  BY <1>1, KeptIsSteady
     DEF WriteGuest, shared, engine, history, Process!vars, AbstractStatus, AbstractEnding
<1>2. ASSUME NEW timeout_ms \in Timeouts, RunStart(timeout_ms)
      PROVE  Process!Next
  <2>1. Kept' = Kept
    BY <1>2, KeptIsSteady DEF RunStart
  <2>2. AbstractStatus \in {"ready", "ended"} /\ AbstractStatus' = "live"
    BY <1>2 DEF RunStart, AbstractStatus
  <2>3. AbstractEnding' = NotRun /\ output' = output
    BY <1>2 DEF RunStart, AbstractEnding, shared
  <2>4. Process!Start
    BY <2>1, <2>2, <2>3 DEF Process!Start
  <2> QED BY <2>4 DEF Process!Next
<1>3. ASSUME NEW addr \in Mapped, NEW byte \in Bytes, GuestStore(addr, byte)
      PROVE  UNCHANGED Process!vars
  BY <1>3, QuietRun DEF GuestStore, shared, engine, history
<1>4. ASSUME NEW err \in EngineErrors, GuestFault(err)
      PROVE  Process!Next
  <2>1. Kept' = Kept /\ output' = output
    BY <1>4, KeptIsSteady DEF GuestFault, shared, history
  <2>2. AbstractStatus = "live" /\ AbstractStatus' = "ended"
    BY <1>4 DEF GuestFault, EmuReturns, AbstractStatus, RefineInv, RunsAreCounted, history
  <2>3. AbstractEnding' \in {Falloff, ExecError}
    <3>1. emu_err' = err /\ err # "OK" /\ pc' = "returned"
      BY <1>4 DEF GuestFault, EmuReturns, EngineErrors
    <3> QED BY <3>1 DEF AbstractEnding, GuestEnding
  <2>4. Process!Fault
    BY <2>1, <2>2, <2>3 DEF Process!Fault
  <2> QED BY <2>4 DEF Process!Next
<1>5. ASSUME GuestReachesUntil \/ EngineStops
      PROVE  Process!Next
  BY <1>5, StopIsStop DEF GuestReachesUntil, EngineStops, shared, history
<1>6. ASSUME NEW regs \in Requests, Syscall(regs)
      PROVE  Process!Next
  BY <1>6, SyscallIsAStep
<1>7. ASSUME Tick \/ TimerFires
      PROVE  UNCHANGED Process!vars
  BY <1>7, QuietRun DEF Tick, TimerFires, shared, history
<1>8. ASSUME RunReturn
      PROVE  UNCHANGED Process!vars
  <2>1. Kept' = Kept /\ output' = output /\ runs' = runs
    BY <1>8, KeptIsSteady DEF RunReturn, shared, history
  <2>2. AbstractStatus' = AbstractStatus
    BY <1>8, <2>1 DEF RunReturn, AbstractStatus
  <2>3. result' = GuestEnding
    BY <1>8, VerdictIsTheEnding DEF RunReturn
  <2>4. AbstractEnding' = AbstractEnding
    BY <1>8, <2>3 DEF RunReturn, AbstractEnding
  <2> QED BY <2>1, <2>2, <2>4 DEF Process!vars
<1>9. CASE UNCHANGED vars
  <2>1. Kept' = Kept
    BY <1>9, KeptIsSteady DEF vars, history
  <2> QED
    BY <1>9, <2>1 DEF vars, shared, engine, history, Process!vars, AbstractStatus,
                      AbstractEnding, GuestEnding
<1> QED
  BY <1>1, <1>2, <1>3, <1>4, <1>5, <1>6, <1>7, <1>8, <1>9 DEF Next

(* A Vcpu implements the abstract process: whatever the guest, the owner    *)
(* and the timer do, output only grows and only while a run lasts, each run *)
(* ends once, as its guest ended it, and what a later run inherits from the *)
(* cells Vcpu::run never resets is the last exit, or below it a failure.    *)
THEOREM VcpuIsAProcess == Spec => ImplementsProcess
<1>1. Init => Process!Init
  <2> SUFFICES ASSUME Init PROVE Process!Init
    OBVIOUS
  <2>1. Made("exit") = {} /\ Made("error") = {}
    BY DEF Init, New, Made
  <2>2. Kept = NotRun
    BY <2>1 DEF Kept
  <2> QED BY <2>2 DEF Init, New, Process!Init, AbstractStatus, AbstractEnding
<1> QED BY <1>1, RefineInvariant, StepRefines, PTL
       DEF Spec, ImplementsProcess, Process!Spec
=============================================================================
