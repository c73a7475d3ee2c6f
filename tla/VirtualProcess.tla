--------------------------- MODULE VirtualProcess ---------------------------
(***************************************************************************)
(* What a Vcpu promises to the code above it (python.rs, the CLI): its     *)
(* process writes an append-only output while a run lasts, each run ends   *)
(* once, in one of the ways run names, and until the next run neither the  *)
(* output nor that ending changes.  An exit, and below it a failed         *)
(* syscall, is kept: it is the ending of every later run that stops        *)
(* without a fault.  It says nothing of engines, hooks or shared cells.    *)
(***************************************************************************)
EXTENDS Naturals, Sequences

CONSTANTS
    Exits,      \* endings the guest asked for
    Faults,     \* endings by a fault of the engine
    Stopped,    \* stopped from outside, or come to its last address
    Failed,     \* a syscall failed
    Panic,      \* the host's code panicked
    Undecided   \* no ending

VARIABLES
    status,  \* "ready", "live", "ended", "crashed"
    out,     \* what the process has written, over all runs
    ending,  \* how the last run ended
    kept     \* the exit or failure that later runs inherit

vars == <<status, out, ending, kept>>

Init ==
    /\ status = "ready"
    /\ out = << >>
    /\ ending = Undecided /\ kept = Undecided

Start ==
    /\ status \in {"ready", "ended"}
    /\ status' = "live" /\ ending' = Undecided
    /\ UNCHANGED <<out, kept>>

(* Output grows at its end; what has been written stays. *)
Write ==
    /\ status = "live"
    /\ Len(out) <= Len(out') /\ SubSeq(out', 1, Len(out)) = out
    /\ UNCHANGED <<status, ending, kept>>

Fault ==
    /\ status = "live"
    /\ status' = "ended" /\ ending' \in Faults
    /\ UNCHANGED <<out, kept>>

(* An exit replaces what was kept, a failure only the absence of it. *)
Stop(e) ==
    /\ status = "live"
    /\ kept' = IF e \in Exits \/ (e = Failed /\ kept \notin Exits) THEN e ELSE kept
    /\ status' = "ended"
    /\ ending' = IF kept' = Undecided THEN Stopped ELSE kept'
    /\ UNCHANGED out

Crash ==
    /\ status = "live"
    /\ status' = "crashed" /\ ending' = Panic
    /\ UNCHANGED <<out, kept>>

Next ==
    \/ Start
    \/ Write
    \/ Fault
    \/ \E e \in Exits \cup {Failed, Stopped} : Stop(e)
    \/ Crash

Spec == Init /\ [][Next]_vars
=============================================================================
