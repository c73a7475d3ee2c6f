-------------------------- MODULE TraceSinkProofs --------------------------
(***************************************************************************)
(* Proofs about TraceSink, for any number of threads and calls.            *)
(***************************************************************************)
EXTENDS TraceSinkProperties, FiniteSetTheorems, TLAPS

(* A thread inside a critical section holds the mutex. *)
HolderOwns ==
    \A t \in Threads : pc[t] \in {"locked", "numbered"} => owner = t

(* The index a recorder has read is still the next free place: nobody else  *)
(* has touched the buffer since.                                            *)
IndexIsFresh ==
    \A t \in Threads : pc[t] = "numbered" => index[t] = Len(buffer)

(* SeqIsPosition is not inductive: that a push makes the index true depends *)
(* on the index being fresh, and that on the mutex.                         *)
SinkInv ==
    /\ TypeOK
    /\ HolderOwns
    /\ IndexIsFresh
    /\ SeqIsPosition

-----------------------------------------------------------------------------
(* A step that leaves the buffer and the batches alone. *)
LEMMA QuietStep ==
    ASSUME SinkInv, UNCHANGED <<buffer, history>>, TypeOK', HolderOwns',
           \A t \in Threads :
               pc'[t] = "numbered" => pc[t] = "numbered" /\ index'[t] = index[t]
    PROVE  SinkInv'
BY DEF SinkInv, IndexIsFresh, SeqIsPosition, Numbered, history

(* A push puts the record in the place its index says. *)
LEMMA PushKeeps ==
    ASSUME SinkInv, NEW t \in Recorders, Push(t)
    PROVE  SinkInv'
<1> DEFINE new == [seq |-> index[t], by |-> t, call |-> calls[t]]
<1> USE DEF SinkInv, history
<1>1. /\ t \in Threads
      /\ pc[t] = "numbered" /\ owner = t /\ index[t] = Len(buffer)
      /\ buffer' = Append(buffer, new)
      /\ owner' = Nobody
      /\ pc' = [pc EXCEPT ![t] = "idle"]
      /\ UNCHANGED <<calls, index, observed, history>>
  BY DEF Push, Release, Goto, Threads, HolderOwns, IndexIsFresh
<1>2. \A u \in Threads : pc'[u] \notin {"locked", "numbered"}
  BY <1>1 DEF HolderOwns, TypeOK
<1>3. new \in Records /\ new.seq = Len(buffer)
  BY <1>1 DEF TypeOK, Records
<1> HIDE DEF new
<1>4. buffer \in Seq(Records) /\ buffer' \in Seq(Records)
  BY <1>1, <1>3 DEF TypeOK
<1>5. TypeOK'
  BY <1>1, <1>4 DEF TypeOK
<1>6. Numbered(buffer)'
  BY <1>1, <1>3, <1>4 DEF SeqIsPosition, Numbered
<1>7. SeqIsPosition'
  BY <1>1, <1>6 DEF SeqIsPosition, Numbered
<1> QED BY <1>2, <1>5, <1>7 DEF HolderOwns, IndexIsFresh

(* A drain hands the buffer out as it is. *)
LEMMA DrainKeeps ==
    ASSUME SinkInv, NEW t \in Readers, Drain(t)
    PROVE  SinkInv'
<1> USE DEF SinkInv, history
<1>1. /\ t \in Threads
      /\ pc[t] = "locked" /\ owner = t
      /\ batches' = Append(batches, buffer)
      /\ handed' = handed \o buffer
      /\ buffer' = << >>
      /\ owner' = Nobody
      /\ pc' = [pc EXCEPT ![t] = "idle"]
      /\ UNCHANGED <<calls, index, observed>>
  BY DEF Drain, Release, Goto, Threads, HolderOwns
<1>2. \A u \in Threads : pc'[u] \notin {"locked", "numbered"}
  BY <1>1 DEF HolderOwns, TypeOK
<1>3. /\ buffer \in Seq(Records) /\ buffer' \in Seq(Records)
      /\ batches \in Seq(Seq(Records)) /\ batches' \in Seq(Seq(Records))
      /\ handed' \in Seq(Records)
  BY <1>1 DEF TypeOK
<1>4. TypeOK'
  BY <1>1, <1>3 DEF TypeOK
<1>5. \A b \in DOMAIN batches' : batches'[b] = buffer \/ (b \in DOMAIN batches /\ batches'[b] = batches[b])
  BY <1>1, <1>3
<1>6. SeqIsPosition'
  BY <1>1, <1>5 DEF SeqIsPosition, Numbered
<1> QED BY <1>2, <1>4, <1>6 DEF HolderOwns, IndexIsFresh

(* The invariant is inductive. *)
LEMMA SinkInvariant == Spec => []SinkInv
<1> USE SinkAssumption DEF history
<1>1. Init => SinkInv
  BY DEF Init, history, SinkInv, TypeOK, HolderOwns, IndexIsFresh, SeqIsPosition, Numbered
<1>2. SinkInv /\ [Next]_vars => SinkInv'
  <2> SUFFICES ASSUME SinkInv, [Next]_vars PROVE SinkInv'
    OBVIOUS
  <2> USE DEF SinkInv
  <2>1. ASSUME NEW t \in Threads, Call(t) PROVE SinkInv'
    <3>1. TypeOK'
      BY <2>1 DEF Call, Goto, TypeOK
    <3>2. HolderOwns'
      BY <2>1 DEF Call, Goto, TypeOK, HolderOwns
    <3> QED BY <2>1, <3>1, <3>2, QuietStep DEF Call, Goto, TypeOK
  <2>2. ASSUME NEW t \in Threads, Acquire(t) PROVE SinkInv'
    <3>1. TypeOK'
      BY <2>2 DEF Acquire, Goto, TypeOK
    <3>2. HolderOwns'
      BY <2>2 DEF Acquire, Goto, TypeOK, HolderOwns, Threads
    <3> QED BY <2>2, <3>1, <3>2, QuietStep DEF Acquire, Goto, TypeOK
  <2>3. ASSUME NEW t \in Recorders, Number(t) PROVE SinkInv'
    <3>1. /\ t \in Threads /\ Len(buffer) \in Nat
          /\ pc' = [pc EXCEPT ![t] = "numbered"]
          /\ index' = [index EXCEPT ![t] = Len(buffer)]
          /\ pc[t] = "locked" /\ owner = t
          /\ UNCHANGED <<buffer, owner, calls, observed, history>>
      BY <2>3 DEF Number, Goto, Threads, TypeOK, HolderOwns
    <3>2. TypeOK'
      BY <3>1 DEF TypeOK
    <3>3. HolderOwns'
      BY <3>1 DEF TypeOK, HolderOwns
    <3>4. IndexIsFresh'
      BY <3>1 DEF TypeOK, HolderOwns, IndexIsFresh
    <3>5. SeqIsPosition'
      BY <3>1 DEF SeqIsPosition, Numbered
    <3> QED BY <3>2, <3>3, <3>4, <3>5
  <2>4. ASSUME NEW t \in Recorders, Push(t) PROVE SinkInv'
    BY <2>4, PushKeeps
  <2>5. ASSUME NEW t \in Readers, Drain(t) PROVE SinkInv'
    BY <2>5, DrainKeeps
  <2>6. ASSUME NEW t \in Readers, Length(t) PROVE SinkInv'
    <3>1. /\ t \in Threads /\ Len(buffer) \in Nat
          /\ pc' = [pc EXCEPT ![t] = "idle"]
          /\ owner' = Nobody
          /\ observed' = [observed EXCEPT ![t] = Len(buffer)]
          /\ pc[t] = "locked" /\ owner = t
          /\ UNCHANGED <<buffer, index, calls, history>>
      BY <2>6 DEF Length, Release, Goto, Threads, TypeOK, HolderOwns
    <3>2. TypeOK'
      BY <3>1 DEF TypeOK
    <3>3. HolderOwns'
      BY <3>1 DEF TypeOK, HolderOwns
    <3> QED BY <3>1, <3>2, <3>3, QuietStep DEF TypeOK
  <2>7. CASE UNCHANGED vars
    BY <2>7 DEF vars, TypeOK, HolderOwns, IndexIsFresh, SeqIsPosition, Numbered
  <2> QED BY <2>1, <2>2, <2>3, <2>4, <2>5, <2>6, <2>7 DEF Next, Record, Read
<1> QED BY <1>1, <1>2, PTL DEF Spec

(* Every variable keeps its type. *)
THEOREM SinkTypeCorrect == Spec => []TypeOK
<1>1. SinkInv => TypeOK
  BY DEF SinkInv
<1> QED BY <1>1, SinkInvariant, PTL

(* In the buffer and in whatever a reader drains, a record's index is its   *)
(* place, for any number of recorders and readers.                          *)
THEOREM IndexIsPlace == Spec => []SeqIsPosition
<1>1. SinkInv => SeqIsPosition
  BY DEF SinkInv
<1> QED BY <1>1, SinkInvariant, PTL

-----------------------------------------------------------------------------
(* The refinement.  The abstract log is what was handed out and then what   *)
(* is still in the buffer: a push lengthens it, a drain only moves records  *)
(* from one part to the other.  That a record bears the number of its call  *)
(* depends on no call being entered twice or not at all, whatever was       *)
(* drained in between.                                                      *)
Entered == handed \o buffer

EnteredBy(t) == {i \in DOMAIN Entered : Entered[i].by = t}

CallsAreEntered ==
    \A t \in Recorders :
        calls[t] = Cardinality(EnteredBy(t)) + IF pc[t] = "idle" THEN 0 ELSE 1

LogInv == SinkInv /\ CallsAreEntered

(* Concatenation is associative, and has the empty sequence for its unit. *)
LEMMA Concatenations ==
    ASSUME NEW S, NEW s \in Seq(S), NEW u \in Seq(S), NEW e \in S
    PROVE  /\ s \o u \in Seq(S)
           /\ Len(s \o u) = Len(s) + Len(u)
           /\ s \o Append(u, e) = Append(s \o u, e)
           /\ (s \o u) \o << >> = s \o u
OBVIOUS

(* A step that leaves the log as it is and takes no call from its start to  *)
(* its end.                                                                 *)
LEMMA LogIsKept ==
    ASSUME LogInv, SinkInv', Entered' = Entered,
           \A t \in Recorders : /\ calls'[t] = calls[t]
                                /\ pc'[t] = "idle" <=> pc[t] = "idle"
    PROVE  LogInv'
BY DEF LogInv, CallsAreEntered, EnteredBy

(* The positions in the log, and those of one thread, are finitely many. *)
LEMMA EnteredFacts ==
    ASSUME TypeOK
    PROVE  /\ Entered \in Seq(Records) /\ Len(Entered) \in Nat
           /\ DOMAIN Entered = 1 .. Len(Entered)
           /\ \A t : IsFiniteSet(EnteredBy(t)) /\ Cardinality(EnteredBy(t)) \in Nat
<1>1. Entered \in Seq(Records)
  BY DEF TypeOK, Entered
<1>2. Len(Entered) \in Nat /\ DOMAIN Entered = 1 .. Len(Entered)
  BY <1>1
<1>3. IsFiniteSet(DOMAIN Entered)
  BY <1>2, FS_Interval
<1>4. \A t : IsFiniteSet(EnteredBy(t)) /\ Cardinality(EnteredBy(t)) \in Nat
  BY <1>3, FS_Subset, FS_CardinalityType DEF EnteredBy
<1> QED BY <1>1, <1>2, <1>4

(* What a push makes of the log. *)
LEMMA PushEnters ==
    ASSUME LogInv, NEW t \in Recorders, Push(t)
    PROVE  LET new == [seq |-> index[t], by |-> t, call |-> calls[t]]
           IN  /\ new \in Records
               /\ Entered' = Append(Entered, new)
               /\ handed' = handed
               /\ pc[t] = "numbered" /\ pc' = [pc EXCEPT ![t] = "idle"]
               /\ calls' = calls
               /\ calls[t] = Cardinality(EnteredBy(t)) + 1
<1> DEFINE new == [seq |-> index[t], by |-> t, call |-> calls[t]]
<1>1. /\ pc[t] = "numbered" /\ pc' = [pc EXCEPT ![t] = "idle"]
      /\ buffer' = Append(buffer, new)
      /\ handed' = handed /\ calls' = calls
  BY DEF Push, Release, Goto, history
<1>2. new \in Records
  BY DEF LogInv, SinkInv, TypeOK, Records, Threads
<1>3. calls[t] = Cardinality(EnteredBy(t)) + 1
  BY <1>1 DEF LogInv, CallsAreEntered
<1> HIDE DEF new
<1>4. Entered' = Append(Entered, new)
  BY <1>1, <1>2, Concatenations DEF Entered, LogInv, SinkInv, TypeOK
<1> QED BY <1>1, <1>2, <1>3, <1>4 DEF new

(* A drain takes nothing from the log. *)
LEMMA DrainMoves ==
    ASSUME LogInv, NEW t \in Readers, Drain(t)
    PROVE  Entered' = Entered /\ handed' = Entered
<1>1. buffer' = << >> /\ handed' = handed \o buffer
  BY DEF Drain
<1>2. buffer \in Seq(Records) /\ handed \in Seq(Records)
  BY DEF LogInv, SinkInv, TypeOK
<1>3. (handed \o buffer) \o << >> = handed \o buffer
  BY <1>2
<1> QED BY <1>1, <1>3 DEF Entered

(* The entry a push makes is one more for its thread. *)
LEMMA PushKeepsLog ==
    ASSUME LogInv, NEW t \in Recorders, Push(t)
    PROVE  LogInv'
<1> DEFINE new == [seq |-> index[t], by |-> t, call |-> calls[t]]
<1>1. /\ new \in Records /\ new.by = t
      /\ Entered' = Append(Entered, new)
      /\ pc[t] = "numbered" /\ pc' = [pc EXCEPT ![t] = "idle"]
      /\ calls' = calls
      /\ calls[t] = Cardinality(EnteredBy(t)) + 1
  BY PushEnters
<1>2. SinkInv'
  BY PushKeeps DEF LogInv
<1> HIDE DEF new
<1>3. /\ Entered \in Seq(Records) /\ Len(Entered) \in Nat
      /\ DOMAIN Entered = 1 .. Len(Entered)
      /\ IsFiniteSet(EnteredBy(t)) /\ Cardinality(EnteredBy(t)) \in Nat
  BY EnteredFacts DEF LogInv, SinkInv
<1>4. /\ DOMAIN Entered' = DOMAIN Entered \cup {Len(Entered) + 1}
      /\ Len(Entered) + 1 \notin DOMAIN Entered
      /\ \A i \in DOMAIN Entered : Entered'[i] = Entered[i]
      /\ Entered'[Len(Entered) + 1] = new
  <2>1. DOMAIN Entered' = 1 .. Len(Entered) + 1
    BY <1>1, <1>3
  <2>2. /\ \A i \in DOMAIN Entered : Entered'[i] = Entered[i]
        /\ Entered'[Len(Entered) + 1] = new
    BY <1>1, <1>3
  <2> QED BY <1>3, <2>1, <2>2
<1>5. EnteredBy(t)' = EnteredBy(t) \cup {Len(Entered) + 1}
  BY <1>1, <1>4 DEF EnteredBy
<1>6. Cardinality(EnteredBy(t)') = Cardinality(EnteredBy(t)) + 1
  <2>1. Len(Entered) + 1 \notin EnteredBy(t)
    BY <1>4 DEF EnteredBy
  <2> QED BY <1>3, <1>5, <2>1, FS_AddElement
<1>7. \A u \in Recorders : u # t => EnteredBy(u)' = EnteredBy(u)
  BY <1>1, <1>4 DEF EnteredBy
<1>8. /\ pc'[t] = "idle"
      /\ \A u \in Recorders : u # t => pc'[u] = pc[u]
  BY <1>1 DEF LogInv, SinkInv, TypeOK, Threads
<1>9. ASSUME NEW u \in Recorders
      PROVE  calls'[u] = Cardinality(EnteredBy(u)') + IF pc'[u] = "idle" THEN 0 ELSE 1
  <2>1. CASE u = t
    BY <1>1, <1>3, <1>6, <1>8, <2>1
  <2>2. CASE u # t
    BY <1>1, <1>7, <1>8, <2>2 DEF LogInv, CallsAreEntered
  <2> QED BY <2>1, <2>2
<1> QED BY <1>2, <1>9 DEF LogInv, CallsAreEntered

(* A call that begins is not entered yet. *)
LEMMA CallKeepsLog ==
    ASSUME LogInv, SinkInv', NEW t \in Threads, Call(t)
    PROVE  LogInv'
<1>1. /\ pc[t] = "idle" /\ pc' = [pc EXCEPT ![t] = "waiting"]
      /\ calls' = [calls EXCEPT ![t] = @ + 1]
      /\ Entered' = Entered
  BY DEF Call, Goto, Entered, history
<1>2. \A u : EnteredBy(u)' = EnteredBy(u) /\ Cardinality(EnteredBy(u)) \in Nat
  BY <1>1, EnteredFacts DEF EnteredBy, LogInv, SinkInv
<1>3. /\ pc'[t] = "waiting" /\ calls'[t] = calls[t] + 1
      /\ \A u \in Recorders : u # t => pc'[u] = pc[u] /\ calls'[u] = calls[u]
  BY <1>1 DEF LogInv, SinkInv, TypeOK, Threads
<1>4. ASSUME NEW u \in Recorders
      PROVE  calls'[u] = Cardinality(EnteredBy(u)') + IF pc'[u] = "idle" THEN 0 ELSE 1
  <2>1. calls[u] = Cardinality(EnteredBy(u)) + IF pc[u] = "idle" THEN 0 ELSE 1
    BY DEF LogInv, CallsAreEntered
  <2>2. CASE u = t
    BY <1>1, <1>2, <1>3, <2>1, <2>2
  <2>3. CASE u # t
    BY <1>2, <1>3, <2>1, <2>3
  <2> QED BY <2>2, <2>3
<1> QED BY <1>4 DEF LogInv, CallsAreEntered

(* The invariant holds initially and is kept by every step. *)
LEMMA LogStart == Init => LogInv
<1> SUFFICES ASSUME Init PROVE LogInv
  OBVIOUS
<1>1. SinkInv
  BY SinkAssumption DEF Init, SinkInv, TypeOK, HolderOwns, IndexIsFresh, SeqIsPosition, Numbered
<1>2. Entered = << >>
  BY DEF Init, Entered
<1>3. \A t \in Recorders : EnteredBy(t) = {}
  BY <1>2 DEF EnteredBy
<1>4. \A t \in Recorders : Cardinality(EnteredBy(t)) = 0 /\ calls[t] = 0 /\ pc[t] = "idle"
  BY <1>3, FS_EmptySet DEF Init, Threads
<1> QED BY <1>1, <1>4 DEF LogInv, CallsAreEntered

LEMMA LogStep == LogInv /\ SinkInv' /\ [Next]_vars => LogInv'
<1> SUFFICES ASSUME LogInv, SinkInv', [Next]_vars PROVE LogInv'
  OBVIOUS
<1> USE SinkAssumption
<1>1. ASSUME NEW t \in Threads, NEW label, label # "idle", pc[t] # "idle",
             pc' = [pc EXCEPT ![t] = label], calls' = calls,
             UNCHANGED <<buffer, handed>>
      PROVE  LogInv'
  <2>1. \A u \in Recorders : calls'[u] = calls[u] /\ (pc'[u] = "idle" <=> pc[u] = "idle")
    BY <1>1 DEF LogInv, SinkInv, TypeOK, Threads
  <2> QED BY <1>1, <2>1, LogIsKept DEF Entered
<1>2. ASSUME NEW t \in Readers, pc' = [pc EXCEPT ![t] = "idle"], calls' = calls,
             Entered' = Entered
      PROVE  LogInv'
  <2>1. \A u \in Recorders : calls'[u] = calls[u] /\ pc'[u] = pc[u]
    BY <1>2 DEF LogInv, SinkInv, TypeOK, Threads
  <2> QED BY <1>2, <2>1, LogIsKept
<1>3. ASSUME NEW t \in Threads, Call(t) PROVE LogInv'
  BY <1>3, CallKeepsLog
<1>4. ASSUME NEW t \in Threads, Acquire(t) PROVE LogInv'
  BY <1>1, <1>4 DEF Acquire, Goto, history
<1>5. ASSUME NEW t \in Recorders, Number(t) PROVE LogInv'
  BY <1>1, <1>5 DEF Number, Goto, history, Threads
<1>6. ASSUME NEW t \in Recorders, Push(t) PROVE LogInv'
  BY <1>6, PushKeepsLog
<1>7. ASSUME NEW t \in Readers, Drain(t) PROVE LogInv'
  BY <1>2, <1>7, DrainMoves DEF Drain, Release, Goto
<1>8. ASSUME NEW t \in Readers, Length(t) PROVE LogInv'
  BY <1>2, <1>8 DEF Length, Release, Goto, history, Entered
<1>9. CASE UNCHANGED vars
  BY <1>9, LogIsKept DEF vars, history, Entered
<1> QED BY <1>3, <1>4, <1>5, <1>6, <1>7, <1>8, <1>9 DEF Next, Record, Read

LEMMA LogInvariant == Spec => []LogInv
BY LogStart, LogStep, SinkInvariant, PTL DEF Spec

-----------------------------------------------------------------------------
(* Positions in the abstract log are those in the log of records. *)
LEMMA EntriesFacts ==
    ASSUME NEW s \in Seq(Records)
    PROVE  /\ Entries(s) \in Seq([by : Recorders, call : Nat])
           /\ Len(Entries(s)) = Len(s)
           /\ DOMAIN Entries(s) = DOMAIN s
           /\ \A i \in DOMAIN s : Entries(s)[i] = [by |-> s[i].by, call |-> s[i].call]
           /\ \A r \in Records :
                 Entries(Append(s, r)) = Append(Entries(s), [by |-> r.by, call |-> r.call])
<1>1. /\ Entries(s) \in Seq([by : Recorders, call : Nat])
      /\ Len(Entries(s)) = Len(s)
      /\ DOMAIN Entries(s) = DOMAIN s
      /\ \A i \in DOMAIN s : Entries(s)[i] = [by |-> s[i].by, call |-> s[i].call]
  <2>1. /\ Len(s) \in Nat /\ DOMAIN s = 1 .. Len(s)
        /\ \A i \in DOMAIN s : s[i].by \in Recorders /\ s[i].call \in Nat
    <3>1. \A i \in DOMAIN s : s[i] \in Records
      OBVIOUS
    <3>2. \A r \in Records : r.by \in Recorders /\ r.call \in Nat
      BY DEF Records
    <3> QED BY <3>1, <3>2
  <2>2. Entries(s) \in Seq([by : Recorders, call : Nat])
    BY <2>1 DEF Entries
  <2>3. DOMAIN Entries(s) = 1 .. Len(s)
    BY <2>1 DEF Entries
  <2>4. Len(Entries(s)) = Len(s)
    BY <2>1, <2>2, <2>3
  <2>5. \A i \in DOMAIN s : Entries(s)[i] = [by |-> s[i].by, call |-> s[i].call]
    BY DEF Entries
  <2> QED BY <2>1, <2>2, <2>3, <2>4, <2>5
<1>2. ASSUME NEW r \in Records
      PROVE  Entries(Append(s, r)) = Append(Entries(s), [by |-> r.by, call |-> r.call])
  BY DEF Entries, Records
<1> QED BY <1>1, <1>2

(* The two modules count alike. *)
LEMMA SameCardinality == \A S : Log!Cardinality(S) = Cardinality(S)
BY DEF Log!Cardinality, Cardinality

(* Every step of the sink is a step of the log, or none. *)
LEMMA LogRefines ==
    LogInv /\ [Next]_vars => [Log!Next]_(Log!vars)
<1> SUFFICES ASSUME LogInv, [Next]_vars PROVE [Log!Next]_(Log!vars)
  OBVIOUS
<1>1. Entered \in Seq(Records) /\ Len(Entered) \in Nat
  BY EnteredFacts DEF LogInv, SinkInv
<1>2. ASSUME UNCHANGED <<buffer, handed>>
      PROVE  UNCHANGED Log!vars
  BY <1>2 DEF Log!vars
<1>3. ASSUME NEW t \in Threads, Call(t) \/ Acquire(t)
      PROVE  UNCHANGED Log!vars
  BY <1>2, <1>3 DEF Call, Acquire, history
<1>4. ASSUME NEW t \in Recorders, Number(t)
      PROVE  UNCHANGED Log!vars
  BY <1>2, <1>4 DEF Number, history
<1>5. ASSUME NEW t \in Readers, Length(t)
      PROVE  UNCHANGED Log!vars
  BY <1>2, <1>5 DEF Length, history
<1>6. ASSUME NEW t \in Readers, Drain(t)
      PROVE  Log!Take
  <2>1. Entered' = Entered /\ handed' = Entered
    BY <1>6, DrainMoves
  <2>2. Len(Entries(Entered)) = Len(Entered)
    BY <1>1, EntriesFacts
  <2> QED BY <2>1, <2>2 DEF Log!Take, Entered
<1>7. ASSUME NEW t \in Recorders, Push(t)
      PROVE  Log!Enter(t)
  <2> DEFINE new == [seq |-> index[t], by |-> t, call |-> calls[t]]
  <2>1. /\ new \in Records /\ new.by = t /\ new.call = calls[t]
        /\ Entered' = Append(Entered, new)
        /\ handed' = handed
        /\ calls[t] = Cardinality(EnteredBy(t)) + 1
    BY <1>7, PushEnters
  <2> HIDE DEF new
  <2>2. Entries(Append(Entered, new))
            = Append(Entries(Entered), [by |-> t, call |-> calls[t]])
    BY <1>1, <2>1, EntriesFacts
  <2>3. {i \in DOMAIN Entries(Entered) : Entries(Entered)[i].by = t} = EnteredBy(t)
    <3>1. DOMAIN Entries(Entered) = DOMAIN Entered
      BY <1>1, EntriesFacts
    <3>2. \A i \in DOMAIN Entered : Entries(Entered)[i].by = Entered[i].by
      BY DEF Entries
    <3> QED BY <3>1, <3>2 DEF EnteredBy
  <2>4. Cardinality(EnteredBy(t)) \in Nat
    BY EnteredFacts DEF LogInv, SinkInv
  <2>5. calls[t] = 1 + Cardinality(EnteredBy(t))
    BY <2>1, <2>4
  <2> QED BY <2>1, <2>2, <2>3, <2>5, SameCardinality DEF Log!Enter, Log!NextCall, Entered
<1>8. CASE UNCHANGED vars
  BY <1>2, <1>8 DEF vars, history
<1> QED BY <1>3, <1>4, <1>5, <1>6, <1>7, <1>8 DEF Next, Record, Read, Log!Next

(* However recorders and readers interleave, the sink is one log: each call *)
(* is entered once, in an order that keeps each thread's own, and what the  *)
(* readers drain is all of it, once and oldest first.                       *)
THEOREM SinkIsALog == Spec => ImplementsLog
<1>1. Init => Log!Init
  <2> SUFFICES ASSUME Init PROVE Log!Init
    OBVIOUS
  <2>1. handed = << >> /\ buffer = << >>
    BY DEF Init
  <2>2. handed \o buffer = << >>
    BY <2>1
  <2>3. Entries(<< >>) = << >>
    BY DEF Entries
  <2> QED BY <2>1, <2>2, <2>3 DEF Log!Init
<1> QED BY <1>1, LogInvariant, LogRefines, PTL DEF Spec, ImplementsLog, Log!Spec
=============================================================================
