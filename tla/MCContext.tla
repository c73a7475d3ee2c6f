----------------------------- MODULE MCContext -----------------------------
(* MCInMemGuest's memory; dispatches are followed on two layouts of it: two *)
(* neighbours written over their border, and the region at the last        *)
(* address with one at 0.  The handlers, one of them by two registrations; *)
(* writes inside, over the border, into a hole, at the last address and to *)
(* another descriptor; both exits; a number nobody has.                    *)
EXTENDS MCInMemGuest, ContextProperties

MCLayouts == {
    [b \in {0, 2} |-> IF b = 0 THEN <<1, 2>> ELSE <<1, 0>>],
    [b \in {0, 7} |-> IF b = 0 THEN <<2, 0>> ELSE <<1>>]}

MCCandidates == {WriteHandler, ExitHandler, [number |-> 60, name |-> "quit"]}

WriteOf(fd, ptr, n) == [nr |-> 1, arg0 |-> fd, ptr |-> ptr, count |-> n]
MCRequests == {
    WriteOf(1, 1, 2), WriteOf(2, 0, 1), WriteOf(1, 3, 3), WriteOf(1, 7, 2),
    WriteOf(3, 0, 1), [nr |-> 60, arg0 |-> 257, ptr |-> 0, count |-> 0],
    [nr |-> 60, arg0 |-> 2, ptr |-> 0, count |-> 0]}
=============================================================================
