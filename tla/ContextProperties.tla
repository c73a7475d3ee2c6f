------------------------- MODULE ContextProperties -------------------------
(***************************************************************************)
(* What is asked of a Context that is dispatched on more than once: that   *)
(* its output, its process state and the trace are those of the calls made.*)
(***************************************************************************)
EXTENDS Context

Seqs == INSTANCE SequencesExt

(* The bytes a call has put on a descriptor, said from the memory: the      *)
(* whole range of a write that returned its count, nothing of any other.    *)
WroteTo(fd, call) ==
    IF call.regs.nr = 1 /\ call.regs.arg0 = fd
       /\ call.outcome = Return(call.regs.count)
      THEN Fetched(Served(call.regs.ptr, call.regs.count).cells)
      ELSE << >>

(* The output on each descriptor is what the successful writes put there,   *)
(* in order, and the process state is that of the latest exit: a write that *)
(* fails half-way leaves nothing, and calls after an exit, which nothing    *)
(* refuses, neither revive the process nor lose what came before.           *)
ContextIsItsCalls ==
    LET exits == {i \in DOMAIN made : made[i].outcome.kind = "exit"}
        latest == CHOOSE i \in exits : \A j \in exits : j <= i
    IN  /\ \A fd \in {1, 2} :
              Captured(io, fd) = Seqs!FlattenSeq([i \in DOMAIN made |-> WroteTo(fd, made[i])])
        /\ DOMAIN io \subseteq {1, 2}
        /\ process = IF exits = {} THEN Running ELSE Exited(made[latest].outcome.code)

(* The sink that is attached has the calls made since it was attached, less *)
(* those whose handler failed, in order, each under the name of a handler   *)
(* of its number, or as unimplemented when there is none.                   *)
SinkHasItsCalls ==
    LET kept == {i \in DOMAIN made : /\ made[i].traced
                                     /\ made[i].outcome.kind \in {"return", "exit"}}
        place(i) == Cardinality({j \in kept : j <= i})
        named(name, nr) == \E h \in handlers : h.number = nr /\ h.name = name
        unknown(nr) == \A h \in handlers : h.number # nr
        isOf(entry, call) ==
            /\ entry.regs = call.regs
            /\ entry.ret = IF call.outcome.kind = "exit" THEN 0 ELSE call.outcome.ret
            /\ \/ named(entry.name, call.regs.nr)
               \/ entry.name = "<unimplemented>" /\ unknown(call.regs.nr)
    IN  /\ Len(log) = Cardinality(kept)
        /\ \A i \in kept : /\ log[place(i)].seq = place(i) - 1
                           /\ isOf(log[place(i)], made[i])
=============================================================================
