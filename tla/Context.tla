------------------------------ MODULE Context ------------------------------
(***************************************************************************)
(* A Dispatch and one Context used without an emulator, as an owner of the *)
(* library may: the memory is an InMemGuest, and the Context lives on from *)
(* call to call (the hook of Vcpu builds one per syscall), so that output  *)
(* and process state add up in it.  Nothing looks at the process state.    *)
(***************************************************************************)
EXTENDS Dispatch, InMemGuest

CONSTANTS
    Candidates,   \* the handlers an owner registers
    Requests,     \* the syscalls it dispatches: [nr, arg0, ptr, count]
    Layouts,      \* bound: the memories dispatches are followed on, where the
                  \* last call that prepared them was ok
    MaxCalls      \* bound: calls of dispatch

ASSUME ContextAssumption ==
    /\ Candidates \subseteq [number : Int, name : STRING]
    /\ Requests \subseteq [nr : Int, arg0 : Nat, ptr : Addresses, count : Addresses]
    /\ MaxCalls \in Nat

VARIABLES
    handlers,   \* Dispatch.handlers
    sink,       \* Dispatch.trace, is it Some
    log,        \* the records of that sink
    process,    \* Context.process
    io,         \* Context.io
    made        \* history: the dispatches, [regs, outcome, traced]

dispatchVars == <<handlers, sink, log>>
vars == <<guestVars, dispatchVars, process, io, made>>

Running == [kind |-> "running"]
Exited(code) == [kind |-> "exited", code |-> code]

(* Dispatch::new and Context::new. *)
Init ==
    /\ GuestInit
    /\ handlers = {} /\ sink = FALSE /\ log = << >>
    /\ process = Running /\ io = NoOutput
    /\ made = << >>

-----------------------------------------------------------------------------
(* The owner prepares the memory, registers handlers, and dispatches.       *)
Prepare ==
    /\ handlers = {} /\ ~sink /\ made = << >>
    /\ GuestNext
    /\ UNCHANGED <<dispatchVars, process, io, made>>

RegisterHandler(h) ==
    /\ bytes \in Layouts /\ answer = "ok" /\ made = << >>
    /\ handlers' = Register(handlers, h)
    /\ UNCHANGED <<guestVars, sink, log, process, io, made>>

(* Dispatch::set_trace with a new sink, at any time, and again. *)
SetTrace ==
    /\ bytes \in Layouts /\ answer = "ok"
    /\ sink' = TRUE /\ log' = << >>
    /\ made' = [i \in DOMAIN made |-> [made[i] EXCEPT !.traced = FALSE]]
    /\ UNCHANGED <<guestVars, handlers, process, io>>

-----------------------------------------------------------------------------
(* What ctx.mem.read finds of a request's range: its bytes, if it has all.  *)
View(regs) ==
    LET got == Served(regs.ptr, regs.count)
        found == Fetched(got.cells)
    IN  [a \in {regs.ptr + i - 1 : i \in DOMAIN found} |-> found[a - regs.ptr + 1]]

(* A read that overflows behind its last byte panics where it would fail.   *)
ReadPanics(regs) == Served(regs.ptr, regs.count).answer = "panic"

(* The output as a Context per call would have it. *)
Extended_Afresh(more) == more

(* The output with what one handler has added to it. *)
Extended(more) ==
    [fd \in DOMAIN io \cup DOMAIN more |-> Captured(io, fd) \o Captured(more, fd)]

(* Dispatch::dispatch on the Context. *)
DispatchOn(regs) ==
    LET mem == IF ReadPanics(regs) THEN [a \in {} |-> 0] ELSE View(regs)
        call == DispatchCall(handlers, mem, regs)
        outcome == IF call.outcome = EngineFailure /\ ReadPanics(regs) THEN Panic
                   ELSE call.outcome
    IN  /\ bytes \in Layouts /\ answer = "ok" /\ Len(made) < MaxCalls
        /\ \A i \in DOMAIN made : made[i].outcome # Panic
        /\ io' = Extended(call.io)
        /\ process' = IF outcome.kind = "exit" THEN Exited(outcome.code) ELSE process
        /\ log' = IF sink THEN Traced(handlers, log, regs, outcome) ELSE log
        /\ made' = Append(made, [regs |-> regs, outcome |-> outcome, traced |-> sink])
        /\ UNCHANGED <<guestVars, handlers, sink>>

Next ==
    \/ Prepare
    \/ \E h \in Candidates : RegisterHandler(h)
    \/ SetTrace
    \/ \E regs \in Requests : DispatchOn(regs)

Spec == Init /\ [][Next]_vars
=============================================================================
