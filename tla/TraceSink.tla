----------------------------- MODULE TraceSink -----------------------------
(***************************************************************************)
(* The syscall trace of trace/recorder.rs: a Vec of records behind a       *)
(* Mutex.  Cloning a TraceSink shares the buffer, and a Dispatch is shared *)
(* by Arc, so the recorders may be the Vcpus of several threads while the  *)
(* readers, the owners of other clones, look at the buffer and empty it.   *)
(*                                                                         *)
(* A call takes the mutex, works on the buffer and lets the mutex go when  *)
(* its guard is dropped.  A record is reduced to its index and, in place   *)
(* of the syscall, to the call it was made for: the n-th of recorder `by'. *)
(***************************************************************************)
EXTENDS Integers, Sequences

CONSTANTS
    Recorders,   \* threads that record
    Readers,     \* threads that drain the sink or ask for its length
    Nobody,      \* the owner of a free mutex
    MaxCalls     \* bound: calls of one thread

Threads == Recorders \cup Readers

ASSUME SinkAssumption ==
    /\ Recorders \cap Readers = {}
    /\ Nobody \notin Threads
    /\ MaxCalls \in Nat

VARIABLES
    buffer,    \* the Vec
    owner,     \* the thread that holds the mutex
    pc,        \* "idle", "waiting", "locked", "numbered"
    calls,     \* how many calls a thread has made
    index,     \* `let seq' of record
    observed,  \* what len last returned
    batches,   \* history: what the calls of drain returned, in their order
    handed     \* history: the records of the batches, one after the other

history == <<batches, handed>>
vars == <<buffer, owner, pc, calls, index, observed, history>>

Init ==
    /\ buffer = << >> /\ owner = Nobody
    /\ pc = [t \in Threads |-> "idle"]
    /\ calls = [t \in Threads |-> 0]
    /\ index = [t \in Threads |-> 0]
    /\ observed = [t \in Threads |-> 0]
    /\ batches = << >> /\ handed = << >>

-----------------------------------------------------------------------------
Goto(t, label) == pc' = [pc EXCEPT ![t] = label]

(* A thread calls record, drain or len. *)
Call(t) ==
    /\ pc[t] = "idle" /\ calls[t] < MaxCalls
    /\ calls' = [calls EXCEPT ![t] = @ + 1]
    /\ Goto(t, "waiting")
    /\ UNCHANGED <<buffer, owner, index, observed, history>>

(* lock(), were there no mutex. *)
Acquire_Unguarded(t) ==
    /\ pc[t] = "waiting"
    /\ owner' = t
    /\ Goto(t, "locked")
    /\ UNCHANGED <<buffer, calls, index, observed, history>>

(* lock() *)
Acquire(t) ==
    /\ pc[t] = "waiting" /\ owner = Nobody
    /\ owner' = t
    /\ Goto(t, "locked")
    /\ UNCHANGED <<buffer, calls, index, observed, history>>

(* The call returns and keeps the mutex. *)
Release_Leak(t) ==
    /\ Goto(t, "idle")
    /\ UNCHANGED owner

(* The guard goes out of scope and the call returns. *)
Release(t) ==
    /\ owner' = Nobody
    /\ Goto(t, "idle")

(* record: `let seq = buf.len()' *)
Number(t) ==
    /\ pc[t] = "locked"
    /\ index' = [index EXCEPT ![t] = Len(buffer)]
    /\ Goto(t, "numbered")
    /\ UNCHANGED <<buffer, owner, calls, observed, history>>

(* record: push, and unlock *)
Push(t) ==
    /\ pc[t] = "numbered"
    /\ buffer' = Append(buffer, [seq |-> index[t], by |-> t, call |-> calls[t]])
    /\ Release(t)
    /\ UNCHANGED <<calls, index, observed, history>>

(* drain had it cloned the buffer. *)
Drain_Clone(t) ==
    /\ pc[t] = "locked"
    /\ batches' = Append(batches, buffer) /\ handed' = handed \o buffer
    /\ UNCHANGED buffer
    /\ Release(t)
    /\ UNCHANGED <<calls, index, observed>>

(* drain: mem::take *)
Drain(t) ==
    /\ pc[t] = "locked"
    /\ batches' = Append(batches, buffer) /\ handed' = handed \o buffer
    /\ buffer' = << >>
    /\ Release(t)
    /\ UNCHANGED <<calls, index, observed>>

(* len had it returned the index of the last record. *)
Length_LastIndex(t) ==
    /\ pc[t] = "locked"
    /\ observed' = [observed EXCEPT ![t] = Len(buffer) - 1]
    /\ Release(t)
    /\ UNCHANGED <<buffer, calls, index, history>>

(* len, and is_empty, which is len() == 0 *)
Length(t) ==
    /\ pc[t] = "locked"
    /\ observed' = [observed EXCEPT ![t] = Len(buffer)]
    /\ Release(t)
    /\ UNCHANGED <<buffer, calls, index, history>>

-----------------------------------------------------------------------------
Record(t) == Number(t) \/ Push(t)
Read(t)   == Drain(t) \/ Length(t)

Next ==
    \/ \E t \in Threads : Call(t) \/ Acquire(t)
    \/ \E t \in Recorders : Record(t)
    \/ \E t \in Readers : Read(t)

Spec == Init /\ [][Next]_vars

(* A thread that is inside a call is scheduled; which thread a free mutex   *)
(* goes to is left open, and no thread makes calls for ever (MaxCalls).     *)
Fairness ==
    /\ \A t \in Threads : WF_vars(Acquire(t))
    /\ \A t \in Recorders : WF_vars(Record(t))
    /\ \A t \in Readers : WF_vars(Read(t))

FairSpec == Spec /\ Fairness
=============================================================================
