----------------------- MODULE CommandLineProperties -----------------------
(***************************************************************************)
(* What is asked of the two commands: the abstract command they implement, *)
(* that what is printed is complete and in order, that the guest cannot    *)
(* change its read-only image, and that a limited command ends.            *)
(***************************************************************************)
EXTENDS CommandLine

Seqs == INSTANCE SequencesExt

Endings == [kind : {"exit"}, code : 0 .. 255] \cup {Cpu!Falloff, Cpu!Stopped}
Replies ==
    {Pending, Gone, OSError, OverflowError, PanicException}
        \cup {ValueError(c) : c \in {"NaN", "E001", "E002", "E003", "E004", "E005",
                                     "E006", "E007", "E501", "E502", "E503", "E504"}}

(* Every variable of the commands holds a value of its type: a dictionary's *)
(* ending is one of ExitReason, a raised ValueError carries a known code,   *)
(* an exit status is a byte unless the process was killed.                  *)
TypeOK ==
    /\ step \in {"start", "call", "core", "report", "done"}
    /\ limit \in Limits \cup {NoLimit}
    /\ timeout_ms \in Addresses
    /\ \/ reply \in Replies
       \/ reply.kind = "dict" /\ reply.exit \in Endings
       \/ reply.kind = "segments" /\ reply.entry \in Addresses
    /\ Len(printed) <= 2
    /\ status \in 0 .. 255 \cup {Killed, Unknown}
    /\ (status # Unknown) <=> (step = "done")

-----------------------------------------------------------------------------
(* How the command ends, said from the guest's syscalls and from what       *)
(* stopped the command before there was a guest.                            *)
NoEnding == [kind |-> "no ending"]
NoGuest(why) == [kind |-> why]

GuestEnding ==
    LET last == issued[Len(issued)].outcome
    IN  CASE emu_err \in Cpu!FalloffErrors -> Cpu!Falloff
          [] emu_err \notin Cpu!FalloffErrors \cup {"OK"} -> Cpu!ExecError
          [] OTHER -> IF issued = << >> THEN Cpu!Stopped
                      ELSE CASE last.kind = "exit"   -> last
                             [] last.kind = "error"  -> Cpu!ExecError
                             [] last.kind = "return" -> Cpu!Stopped

AbstractPhase ==
    CASE step = "done"    -> "over"
      [] pc = "running"   -> "live"
      [] step # "done" /\ pc # "running" ->
            IF reply # Pending \/ pc \in {"returned", "aborted"} THEN "ended"
            ELSE "pending"

AbstractEnding ==
    CASE pc = "aborted"           -> Cpu!Panic
      [] pc = "running"           -> NoEnding
      [] pc \in {"returned", "idle"} /\ runs = 1 -> GuestEnding
      [] OTHER -> CASE reply.kind = "pending"  -> NoEnding
                    [] reply.kind = "gone"     -> Cpu!Panic
                    [] reply.kind = "segments" -> NoGuest("described")
                    [] reply.kind \in {"ValueError", "OSError"} -> NoGuest("refused")
                    [] reply.kind \in {"OverflowError", "PanicException"} ->
                          NoGuest("crashed")

(* What the items on stdout tell. *)
Shown == Seqs!FlattenSeq([i \in DOMAIN printed |->
             IF printed[i].kind = "guest" THEN printed[i].bytes ELSE << >>])

Note ==
    LET notes == {i \in DOMAIN printed : printed[i].kind # "guest"}
        last == printed[CHOOSE i \in notes : \A j \in notes : j <= i]
    IN  IF notes = {} THEN NoEnding
        ELSE CASE last.kind = "error" -> Cpu!ExecError
               [] last.kind = "image" -> NoGuest("described")
               [] last.kind \in {"json", "summary"} -> last.exit

Command == INSTANCE GuestCommand WITH
    Exits     <- [kind : {"exit"}, code : 0 .. 255],
    Faults    <- {Cpu!Falloff, Cpu!Stopped},
    Failed    <- Cpu!ExecError,
    Refused   <- NoGuest("refused"),
    Crashed   <- NoGuest("crashed"),
    Described <- NoGuest("described"),
    Aborted   <- Cpu!Panic,
    None      <- NoEnding,
    phase     <- AbstractPhase,
    written   <- output,
    ending    <- AbstractEnding,
    shown     <- Shown,
    note      <- Note

(* The refinement, from the bytes of the file to the exit status: status 0  *)
(* means a guest that exited with 0, a load error is never taken for a      *)
(* guest that ran, and whatever a guest that ended has written is shown.    *)
ImplementsCommand == Command!Spec

(* The bytes a trace says were written. *)
Wrote(row) == IF row.name = "write" /\ row.ret > 0 THEN row.ret ELSE 0
Accounted(rows) ==
    LET total[n \in 0 .. Len(rows)] ==
            IF n = 0 THEN 0 ELSE total[n - 1] + Wrote(rows[n])
    IN  total[Len(rows)]

(* The guest's bytes are in front of every report and an error stands       *)
(* alone, so that a reader of --json finds the document at the end; and the *)
(* report's trace accounts for the bytes in front of it, write for write.   *)
ReportIsWhole ==
    \A i \in DOMAIN printed :
        LET item == printed[i]
        IN  /\ item.kind = "guest" => i = 1 /\ item.bytes # << >>
            /\ item.kind = "error" => printed = <<item>>
            /\ item.kind \in {"json", "summary"} =>
                  /\ i = Len(printed)
                  /\ Len(Shown) = Accounted(item.trace)

(* A guest runs in a memory where it cannot change the part of its image    *)
(* that is not writable, wherever a segment lies in its pages: once mapped, *)
(* each byte of such a segment is the file's until the command ends.        *)
ReadOnlyIsTheFile ==
    \A i \in 1 .. seg - 1 :
        LET p == segments[i]
        IN  p.flags \notin {2, 3, 6, 7} =>
                \A k \in 0 .. p.filesz - 1 : engine[p.vaddr + k] = p.offset + k + 1

(* A command that was given a limit of at least a millisecond ends,         *)
(* whatever its guest does.                                                 *)
CommandEnds ==
    (step = "core" /\ limit.halves >= 2) ~> (step = "done")

-----------------------------------------------------------------------------
(* A statement of the sources that the code does not keep. *)

(* cli.py:45, --timeout: "Execution timeout in milliseconds."  A positive   *)
(* number of milliseconds is a limit.                                       *)
LimitIsALimit ==
    (step = "core" /\ limit.halves > 0) ~> (step = "done")
=============================================================================
