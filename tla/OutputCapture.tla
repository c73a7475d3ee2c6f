--------------------------- MODULE OutputCapture ---------------------------
(***************************************************************************)
(* vkernel/io.rs: the captured output of a simulated process, a BTreeMap   *)
(* from file descriptor to the bytes written to it.  Here it is a function *)
(* whose domain is the set of descriptors that were written.               *)
(***************************************************************************)
EXTENDS Integers, Sequences

NoOutput == [fd \in {} |-> << >>]

(* OutputCapture::get; stdout and stderr are Captured(io, 1), Captured(io, 2). *)
Captured(io, fd) == IF fd \in DOMAIN io THEN io[fd] ELSE << >>

(* OutputCapture::write *)
CaptureWrite(io, fd, data) ==
    [f \in DOMAIN io \cup {fd} |->
        IF f = fd THEN Captured(io, fd) \o data ELSE io[f]]

(* OutputCapture::combined as it would be without the descriptor 2. *)
Combined_StdoutOnly(io) == Captured(io, 1)

(* OutputCapture::combined: stdout, then stderr; other descriptors are left out. *)
Combined(io) == Captured(io, 1) \o Captured(io, 2)
=============================================================================
