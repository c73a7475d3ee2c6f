----------------------------- MODULE ByteMemory -----------------------------
(***************************************************************************)
(* What the trait GuestMemory promises to a syscall handler: a byte per    *)
(* mapped address.  Mapping free addresses zeroes them, a read returns the *)
(* bytes of its whole range or fails, and a write that fails has written   *)
(* no more than the mapped bytes in front of the first unmapped one.       *)
(***************************************************************************)
EXTENDS Integers, Sequences

CONSTANTS Maps, Reads, Writes   \* arguments: [addr, len] and [addr, data]

VARIABLES
    cells,    \* the byte at each mapped address
    answer,   \* "none", "ok" or "fault": the last call's
    out       \* the bytes the last read returned

vars == <<cells, answer, out>>

Init == cells = [a \in {} |-> 0] /\ answer = "none" /\ out = << >>

Range(addr, len) == addr .. addr + len - 1

MapAnon(addr, len) ==
    /\ out' = << >>
    /\ IF Range(addr, len) \cap DOMAIN cells = {}
         THEN /\ answer' = "ok"
              /\ cells' = [a \in DOMAIN cells \cup Range(addr, len) |->
                              IF a \in DOMAIN cells THEN cells[a] ELSE 0]
         ELSE answer' = "fault" /\ UNCHANGED cells

Read(addr, len) ==
    /\ UNCHANGED cells
    /\ IF Range(addr, len) \subseteq DOMAIN cells
         THEN answer' = "ok" /\ out' = [i \in 1 .. len |-> cells[addr + i - 1]]
         ELSE answer' = "fault" /\ out' = << >>

(* The first n bytes of data are written. *)
WritePrefix(addr, data, n) ==
    cells' = [a \in DOMAIN cells |->
                 IF a \in Range(addr, n) THEN data[a - addr + 1] ELSE cells[a]]

Write(addr, data) ==
    /\ out' = << >>
    /\ IF Range(addr, Len(data)) \subseteq DOMAIN cells
         THEN answer' = "ok" /\ WritePrefix(addr, data, Len(data))
         ELSE /\ answer' = "fault"
              /\ \E n \in 0 .. Len(data) : /\ Range(addr, n) \subseteq DOMAIN cells
                                           /\ WritePrefix(addr, data, n)

Next ==
    \/ \E m \in Maps   : MapAnon(m.addr, m.len)
    \/ \E r \in Reads  : Read(r.addr, r.len)
    \/ \E w \in Writes : Write(w.addr, w.data)

Spec == Init /\ [][Next]_vars
=============================================================================
