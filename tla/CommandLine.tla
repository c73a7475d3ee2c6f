---------------------------- MODULE CommandLine ----------------------------
(***************************************************************************)
(* cli.py: `winvpwn run' and `winvpwn elf', from the file named on the     *)
(* command line to the exit status, over RunElf.                           *)
(*                                                                         *)
(* What is printed is a sequence of items: the guest's bytes, an error, a  *)
(* JSON document, a summary with its trace, the description of an image.   *)
(* The options are chosen where they are first looked at.  An exception    *)
(* that nobody catches makes Python exit with 1; an abort inside the hook  *)
(* or in load_elf kills the interpreter.                                   *)
(***************************************************************************)
EXTENDS RunElf

CONSTANT Limits   \* values of --timeout: [nan, halves], halves of a millisecond

ASSUME CommandLineAssumption == Limits \subseteq [nan : BOOLEAN, halves : Int]

VARIABLES
    step,      \* "start", "call", "core", "report", "done"
    command,   \* "run" or "elf"
    limit,     \* the value of --timeout
    printed,   \* what is on stdout
    status     \* the exit status, once it is known

cliVars == <<step, command, limit, printed, status>>
vars == <<coreVars, cliVars>>

NoLimit == [nan |-> FALSE, halves |-> 0]
Killed  == 256   \* no status a process can choose
Unknown == -1

OSError == [kind |-> "OSError"]

GuestBytes(bytes) == [kind |-> "guest", bytes |-> bytes]
ErrorLine         == [kind |-> "error"]
Json(r)           == [kind |-> "json", exit |-> r.exit, trace |-> r.trace]
Summary(r)        == [kind |-> "summary", exit |-> r.exit, trace |-> r.trace]
Description(r)    == [kind |-> "image", segments |-> r.segments]

Init ==
    /\ RunElfInit
    /\ step = "start" /\ command \in {"run", "elf"}
    /\ limit = NoLimit
    /\ printed = << >> /\ status = Unknown

ExitWith(code) == step' = "done" /\ status' = code

-----------------------------------------------------------------------------
(* elf.read_bytes(): the image, or an OSError. *)
ReadFile ==
    /\ step = "start"
    /\ \/ /\ step' = IF command = "run" THEN "call" ELSE "core"
          /\ UNCHANGED reply
       \/ step' = "core" /\ reply' = OSError
    /\ UNCHANGED <<spaceVars, cpuVars, timeout_ms, command, limit, printed, status>>

(* int() of a float: towards zero. *)
Truncated(halves) == IF halves >= 0 THEN halves \div 2 ELSE -((-halves) \div 2)

(* int(timeout) and its conversion to a u64, on the way into run_elf: a NaN *)
(* is a ValueError, which `run' catches, a number that does not fit is an   *)
(* OverflowError, which it does not.                                        *)
Call(asked) ==
    LET ms == Truncated(asked.halves)
    IN  /\ step = "call" /\ step' = "core"
        /\ limit' = asked
        /\ \/ asked.nan /\ reply' = ValueError("NaN") /\ UNCHANGED timeout_ms
           \/ /\ ~asked.nan /\ ms \notin Addresses
              /\ reply' = OverflowError /\ UNCHANGED timeout_ms
           \/ /\ ~asked.nan /\ ms \in Addresses
              /\ timeout_ms' = ms /\ UNCHANGED reply
        /\ UNCHANGED <<spaceVars, cpuVars, command, printed, status>>

(* core.run_elf or core.parse_elf, while it has not returned. *)
InCore(action) ==
    /\ step = "core" /\ reply = Pending
    /\ action
    /\ UNCHANGED cliVars

(* A panic that could not unwind through the hook, or no memory for a       *)
(* segment: the process is gone.                                            *)
Abort ==
    /\ step = "core" /\ (pc = "aborted" \/ reply = Gone)
    /\ ExitWith(Killed)
    /\ UNCHANGED <<coreVars, command, limit, printed>>

(* `except (ValueError, OSError)', and what passes it. *)
Except ==
    /\ step = "core"
    /\ \/ /\ reply.kind \in {"ValueError", "OSError"}
          /\ ExitWith(2) /\ printed' = Append(printed, ErrorLine)
       \/ /\ reply.kind \in {"OverflowError", "PanicException"}
          /\ ExitWith(1) /\ UNCHANGED printed
    /\ UNCHANGED <<coreVars, command, limit>>

-----------------------------------------------------------------------------
(* `run' has its dictionary: the guest's bytes, if any, and a flush. *)
PrintOutput ==
    /\ step = "core" /\ reply.kind = "dict"
    /\ step' = "report"
    /\ printed' = IF reply.output = << >> THEN printed
                  ELSE Append(printed, GuestBytes(reply.output))
    /\ UNCHANGED <<coreVars, command, limit, status>>

(* The exit code where an ending the code does not know is no error. *)
ExitCode_DefaultsToZero(ending) ==
    IF ending.kind = "exit" THEN ending.code ELSE 0

(* _exit_code *)
ExitCode(ending) == IF ending.kind = "exit" THEN ending.code ELSE 1

(* A JSON document, the summary with its trace, or with --quiet nothing. *)
Report ==
    /\ step = "report"
    /\ \/ printed' = Append(printed, Json(reply))
       \/ printed' = Append(printed, Summary(reply))
       \/ UNCHANGED printed
    /\ ExitWith(ExitCode(reply.exit))
    /\ UNCHANGED <<coreVars, command, limit>>

(* `elf' has its dictionary. *)
PrintImage ==
    /\ step = "core" /\ reply.kind = "segments"
    /\ printed' = Append(printed, Description(reply))
    /\ ExitWith(0)
    /\ UNCHANGED <<coreVars, command, limit>>

-----------------------------------------------------------------------------
(* What the host's threads do besides the engine. *)
Host ==
    \/ ReadFile
    \/ \E asked \in Limits : Call(asked)
    \/ InCore(IF command = "run" THEN RunElfHost ELSE Parse)
    \/ Abort \/ Except
    \/ PrintOutput \/ Report \/ PrintImage

Next ==
    \/ Host
    \/ InCore(Guest)
    \/ InCore(Tick) \/ InCore(TimerFires) \/ InCore(EngineStops)

Spec == Init /\ [][Next]_vars

(* The interpreter's thread goes on, time passes, the engine's timer fires  *)
(* and its stop is noticed.  Nothing is assumed of the guest.               *)
Fairness ==
    /\ WF_vars(Host)
    /\ WF_vars(InCore(Tick))
    /\ WF_vars(InCore(TimerFires))
    /\ WF_vars(InCore(EngineStops))

FairSpec == Spec /\ Fairness
=============================================================================
