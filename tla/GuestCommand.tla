---------------------------- MODULE GuestCommand ----------------------------
(***************************************************************************)
(* What `winvpwn run' and `winvpwn elf' promise to the shell: a command    *)
(* ends in one way, and its exit status and what it printed tell that way. *)
(* A guest that ended has all it wrote on stdout, an error has none of it. *)
(***************************************************************************)
EXTENDS Naturals, Sequences

CONSTANTS
    Exits,       \* endings of a guest by exit: [kind, code]
    Faults,      \* its other endings that are reported
    Failed,      \* the engine or a syscall failed under it
    Refused,     \* there was no guest: the file, an argument or the set-up
    Crashed,     \* there was no guest: an exception nobody caught
    Described,   \* there was no guest: the image was only described
    Aborted,     \* the guest or its image took the interpreter with it
    None, Killed, Unknown

VARIABLES
    phase,     \* "pending", "live", "ended", "over"
    written,   \* what the guest has written
    ending,    \* the way the command ends
    shown,     \* what of it is on stdout
    note,      \* the ending told on stdout behind it
    status     \* the exit status

vars == <<phase, written, ending, shown, note, status>>

Init ==
    /\ phase = "pending" /\ written = << >> /\ ending = None
    /\ shown = << >> /\ note = None /\ status = Unknown

Begin ==
    /\ phase = "pending" /\ phase' = "live"
    /\ UNCHANGED <<written, ending, shown, note, status>>

Write ==
    /\ phase = "live"
    /\ Len(written) <= Len(written') /\ SubSeq(written', 1, Len(written)) = written
    /\ UNCHANGED <<phase, ending, shown, note, status>>

Finish ==
    /\ \/ phase = "live" /\ ending' \in Exits \cup Faults \cup {Failed, Aborted}
       \/ phase = "pending" /\ ending' \in {Refused, Crashed, Described, Aborted}
    /\ phase' = "ended"
    /\ UNCHANGED <<written, shown, note, status>>

Show ==
    /\ phase = "ended" /\ ending \in Exits \cup Faults
    /\ shown' = written
    /\ UNCHANGED <<phase, written, ending, note, status>>

(* A reported ending may be left out (--quiet), never another one told.     *)
Close ==
    /\ phase = "ended" /\ phase' = "over"
    /\ \/ /\ ending \in Exits \cup Faults /\ shown = written
          /\ status' = IF ending \in Exits THEN ending.code ELSE 1
          /\ note' \in {ending, None}
       \/ ending \in {Failed, Refused} /\ status' = 2 /\ note' = Failed
       \/ ending = Described /\ status' = 0 /\ note' = Described
       \/ ending = Crashed /\ status' = 1 /\ UNCHANGED note
       \/ ending = Aborted /\ status' = Killed /\ UNCHANGED note
    /\ UNCHANGED <<written, ending, shown>>

Next == Begin \/ Write \/ Finish \/ Show \/ Close

Spec == Init /\ [][Next]_vars
=============================================================================
