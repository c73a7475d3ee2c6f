------------------------ MODULE TraceSinkProperties ------------------------
(***************************************************************************)
(* What is asked of TraceSink.                                             *)
(***************************************************************************)
EXTENDS TraceSink

Records == [seq : Nat, by : Recorders, call : Nat]

(* Every variable holds a value of its type. *)
TypeOK ==
    /\ buffer \in Seq(Records)
    /\ owner \in Threads \cup {Nobody}
    /\ pc \in [Threads -> {"idle", "waiting", "locked", "numbered"}]
    /\ calls \in [Threads -> Nat]
    /\ index \in [Threads -> Nat]
    /\ observed \in [Threads -> Nat]
    /\ batches \in Seq(Seq(Records))
    /\ handed \in Seq(Records)

(* The index in a record is the place it has in what a reader gets, although *)
(* it is read off the buffer before the push, and whoever drains in between.  *)
Numbered(s) == \A i \in DOMAIN s : s[i].seq = i - 1

SeqIsPosition ==
    /\ Numbered(buffer)
    /\ \A b \in DOMAIN batches : Numbered(batches[b])

-----------------------------------------------------------------------------
(* The sink implements the abstract log: no record is lost, made twice,     *)
(* handed out twice or overtaken by a later one of the same thread, however *)
(* recorders and readers interleave.                                        *)
Entries(s) == [i \in DOMAIN s |-> [by |-> s[i].by, call |-> s[i].call]]

Log == INSTANCE TraceLog WITH
    log   <- Entries(handed \o buffer),
    taken <- Len(handed)

ImplementsLog == Log!Spec

(* Every call of record, drain and len returns: no thread waits for the     *)
(* mutex for ever.                                                          *)
EveryCallReturns == \A t \in Threads : (pc[t] # "idle") ~> (pc[t] = "idle")
=============================================================================
