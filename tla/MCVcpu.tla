------------------------------- MODULE MCVcpu -------------------------------
(* Vcpu on two mapped bytes and a program that draws on every case of the  *)
(* hook: both descriptors, a longer write, an empty one, a bad descriptor, *)
(* a buffer that is not mapped, a length no allocation can have, both ways *)
(* to exit (one with a status wider than a byte), an unknown number.       *)
EXTENDS VcpuProperties

Write(fd, ptr, count) == [nr |-> 1, arg0 |-> fd, ptr |-> ptr, count |-> count]
Plain(nr, status)     == [nr |-> nr, arg0 |-> status, ptr |-> 0, count |-> 0]

MCRequests == {
    Write(1, 0, 1), Write(2, 0, 2), Write(1, 5, 0), Write(3, 0, 1),
    Write(1, 1, 2), Write(2, 0, 4), Plain(60, 257), Plain(231, 0), Plain(9, 0)}
=============================================================================
