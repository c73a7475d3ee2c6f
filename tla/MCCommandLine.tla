--------------------------- MODULE MCCommandLine ---------------------------
(* A space of 16 addresses in pages of 2 with the stack in 8 .. 9.  Images: *)
(* code and data; an entry in the data; an entry in no segment; one        *)
(* segment with all rights; code in the last page; and five that fail: in  *)
(* the header, in the copy, for want of memory, on the stack, in a page of *)
(* another segment.                                                        *)
(* Guests store to code, data and stack and make a syscall of every kind.  *)
EXTENDS CommandLineProperties

Phdr(vaddr, memsz, offset, filesz, flags) ==
    [load |-> TRUE, vaddr |-> vaddr, memsz |-> memsz,
     offset |-> offset, filesz |-> filesz, flags |-> flags]

Image(entry, phdrs) ==
    [defects |-> {}, little |-> TRUE, len |-> 3, entry |-> entry, phdrs |-> phdrs]

Code == Phdr(0, 2, 0, 2, 5)
Data == Phdr(3, 1, 2, 1, 6)

MCImages == {
    Image(0, <<Code, Data>>), Image(3, <<Code, Data>>), Image(14, <<Code>>),
    Image(1, <<Phdr(0, 2, 0, 2, 7)>>), Image(14, <<Phdr(14, 1, 0, 1, 5)>>),
    [Image(0, <<Code>>) EXCEPT !.defects = {"E002"}],
    Image(0, <<Phdr(0, 1, 0, 2, 5)>>), Image(0, <<Phdr(0, 4, 0, 1, 5)>>),
    Image(0, <<Code, Phdr(9, 1, 0, 1, 6)>>),
    Image(0, <<Phdr(0, 1, 0, 1, 5), Phdr(1, 1, 1, 1, 6)>>)}

Write(fd, ptr, count) == [nr |-> 1, arg0 |-> fd, ptr |-> ptr, count |-> count]
Plain(nr, arg)        == [nr |-> nr, arg0 |-> arg, ptr |-> 0, count |-> 0]

MCRequests == {Write(1, 0, 2), Write(2, 3, 1), Write(1, 6, 2), Write(1, 0, 4),
               Plain(60, 257), Plain(231, 0), Plain(9, 0)}

Halves(h) == [nan |-> FALSE, halves |-> h]
MCLimits == {[nan |-> TRUE, halves |-> 0], Halves(-3), Halves(1), Halves(2), Halves(40)}
=============================================================================
