-------------------------- MODULE CommandLineProofs --------------------------
(***************************************************************************)
(* Proofs about CommandLine, for every image, every guest and both         *)
(* commands: what AddressSpace has laid out holds while the guest runs, a  *)
(* report tells the whole run it is about, and the commands do what        *)
(* GuestCommand promises.                                                  *)
(***************************************************************************)
EXTENDS CommandLineProperties, AddressSpaceProofs

-----------------------------------------------------------------------------
(* The steps of the two commands, as the address space sees them: a step of *)
(* the set-up, a store of the guest where it may write, or none.            *)

(* Nothing of the address space moves. *)
Still == UNCHANGED spaceVars

GuestWrites ==
    /\ \E addr \in Targets, byte \in Bytes :
          /\ addr \in DOMAIN engine /\ "w" \in access[addr]
          /\ engine' = [engine EXCEPT ![addr] = byte]
    /\ UNCHANGED <<loaderVars, stage, seg, map, regions, access, rip, rsp, failure, extra>>

LEMMA GuestSteps == Guest => Still \/ GuestWrites
<1> SUFFICES ASSUME Guest PROVE Still \/ GuestWrites
  OBVIOUS
<1>1. UNCHANGED <<loaderVars, stage, seg, map, regions, access, rip, rsp, failure, extra>>
  BY DEF Guest, Unmoved
<1>2. \/ engine' = engine
      \/ \E addr \in Targets, byte \in Bytes :
            /\ addr \in DOMAIN engine /\ "w" \in access[addr]
            /\ engine' = [engine EXCEPT ![addr] = byte]
  <2>1. ASSUME NEW addr \in Targets, NEW byte \in Bytes, Store(addr, byte)
        PROVE  /\ addr \in DOMAIN engine /\ "w" \in access[addr]
               /\ engine' = [engine EXCEPT ![addr] = byte]
    BY <2>1 DEF Store, Cpu!GuestStore
  <2>2. ASSUME NEW err, Cpu!GuestFault(err) PROVE engine' = engine
    BY <2>2 DEF Cpu!GuestFault
  <2>3. ASSUME Cpu!GuestReachesUntil PROVE engine' = engine
    BY <2>3 DEF Cpu!GuestReachesUntil
  <2>4. ASSUME NEW regs, Cpu!Syscall(regs) PROVE engine' = engine
    BY <2>4 DEF Cpu!Syscall
  <2> QED BY <2>1, <2>2, <2>3, <2>4 DEF Guest
<1> QED BY <1>1, <1>2 DEF Still, GuestWrites, spaceVars, mapVars, memory

LEMMA CommandSteps == [Next]_vars => SpaceNext \/ Still \/ GuestWrites
<1> SUFFICES ASSUME [Next]_vars PROVE SpaceNext \/ Still \/ GuestWrites
  OBVIOUS
<1>1. CASE ReadFile \/ Abort \/ Except \/ PrintOutput \/ Report \/ PrintImage
  BY <1>1 DEF ReadFile, Abort, Except, PrintOutput, Report, PrintImage, coreVars, Still
<1>2. ASSUME NEW asked \in Limits, Call(asked) PROVE Still
  BY <1>2 DEF Call, Still
<1>3. CASE RunElfHost
  BY <1>3 DEF RunElfHost, SetUp, Start, Return, SpaceNext, Still
<1>4. CASE Parse
  BY <1>4 DEF Parse, SpaceNext
<1>5. CASE Guest
  BY <1>5, GuestSteps
<1>6. CASE Tick \/ TimerFires \/ EngineStops
  BY <1>6 DEF Tick, TimerFires, EngineStops, Unmoved, Still, spaceVars, mapVars, memory
<1>7. CASE UNCHANGED vars
  BY <1>7 DEF vars, coreVars, Still
<1> QED BY <1>1, <1>2, <1>3, <1>4, <1>5, <1>6, <1>7 DEF Next, Host, InCore

-----------------------------------------------------------------------------
(* The layout does not depend on what the memory holds, so that it stands   *)
(* whatever the guest stores; what is there stands for the segments the     *)
(* guest may not write.                                                     *)

Writable == {2, 3, 6, 7}

ReadOnlyInv ==
    /\ LayoutInv
    /\ \A i \in 1 .. seg - 1 :
          segments[i].flags \notin Writable => ContentsHold(segments[i], engine)

(* The guest's stores move nothing. *)
LEMMA GuestKeepsLayout == LayoutInv /\ GuestWrites => LayoutInv'
<1> SUFFICES ASSUME LayoutInv, GuestWrites PROVE LayoutInv'
  OBVIOUS
<1>1. UNCHANGED <<loaderVars, stage, seg, access>> /\ DOMAIN engine' = DOMAIN engine
  BY DEF GuestWrites
<1>2. LoaderInv' /\ segments' = segments
  BY <1>1, LoaderStep DEF LayoutInv, loaderVars
<1>3. StackIsPlaced => StackIsPlaced'
  BY <1>1, <1>2 DEF StackIsPlaced
<1> QED BY <1>1, <1>2, <1>3 DEF LayoutInv

(* The guest's stores miss the pages it may not write. *)
LEMMA GuestKeepsReadOnly ==
    ASSUME LayoutInv, GuestWrites, NEW i \in 1 .. seg - 1,
           segments[i].flags \notin Writable
    PROVE  \A a \in Pages(segments[i]) : engine'[a] = engine[a]
<1>1. PICK addr \in DOMAIN engine : /\ "w" \in access[addr]
                                    /\ \A a \in DOMAIN engine : a # addr =>
                                          engine'[a] = engine[a]
  BY DEF GuestWrites
<1>2. SegmentIsPlaced(segments[i], access) /\ DOMAIN access = DOMAIN engine
  BY DEF LayoutInv
<1>3. "w" \notin RightsOf(segments[i].flags)
  <2>1. segments[i].flags \in 0 .. 7
    BY MappedSegments, PhdrFacts
  <2> QED BY <2>1, FlagsAreRights DEF Writable
<1>4. addr \notin Pages(segments[i])
  BY <1>1, <1>2, <1>3 DEF SegmentIsPlaced
<1> QED BY <1>1, <1>2, <1>4 DEF SegmentIsPlaced

(* Bytes that stay where they are stay right. *)
LEMMA ContentsStay ==
    ASSUME LayoutInv, NEW i \in 1 .. seg - 1, NEW cells, NEW later,
           ContentsHold(segments[i], cells),
           \A a \in Pages(segments[i]) : later[a] = cells[a]
    PROVE  ContentsHold(segments[i], later)
<1>1. SegmentIsPlaced(segments[i], access) /\ segments[i] \in PhdrType
  BY MappedSegments DEF LayoutInv
<1>2. \A k \in 0 .. segments[i].memsz - 1 :
          later[segments[i].vaddr + k] = cells[segments[i].vaddr + k]
  BY <1>1, BytesAreInPages
<1> QED BY <1>2 DEF ContentsHold

LEMMA ReadOnlyStep == ReadOnlyInv /\ [Next]_vars => ReadOnlyInv'
<1> SUFFICES ASSUME ReadOnlyInv, [Next]_vars PROVE ReadOnlyInv'
  OBVIOUS
<1>1. LayoutInv /\ \A i \in 1 .. seg - 1 :
          segments[i].flags \notin Writable => ContentsHold(segments[i], engine)
  BY DEF ReadOnlyInv
<1>2. CASE SpaceNext \/ Still
  <2>1. [SpaceNext]_spaceVars
    BY <1>2 DEF Still
  <2>2. LayoutInv'
    BY <1>1, <2>1, LayoutStep
  <2>3. /\ \A i \in 1 .. seg - 1 :
              /\ segments'[i] = segments[i]
              /\ \A a \in Pages(segments[i]) : engine'[a] = engine[a]
        /\ \/ seg' = seg
           \/ /\ seg' = seg + 1 /\ segments' = segments
              /\ seg \in DOMAIN segments
              /\ ContentsHold(segments[seg], engine')
    BY <1>1, <2>1, ContentsStep
  <2>4. ASSUME NEW i \in 1 .. seg - 1, segments[i].flags \notin Writable
        PROVE  ContentsHold(segments[i], engine')
    BY <1>1, <2>3, <2>4, ContentsStay
  <2>5. ASSUME NEW i \in 1 .. seg' - 1, segments'[i].flags \notin Writable
        PROVE  ContentsHold(segments'[i], engine')
    <3>1. i \in 1 .. seg - 1 \/ (i = seg /\ seg' = seg + 1)
      BY <1>1, <2>3, MappedSegments
    <3> QED BY <2>3, <2>4, <2>5, <3>1
  <2> QED BY <2>2, <2>5 DEF ReadOnlyInv
<1>3. CASE GuestWrites
  <2>1. LayoutInv' /\ seg' = seg /\ segments' = segments
    BY <1>1, <1>3, GuestKeepsLayout DEF GuestWrites, loaderVars
  <2>2. ASSUME NEW i \in 1 .. seg - 1, segments[i].flags \notin Writable
        PROVE  ContentsHold(segments[i], engine')
    <3>1. \A a \in Pages(segments[i]) : engine'[a] = engine[a]
      BY <1>1, <1>3, <2>2, GuestKeepsReadOnly
    <3> QED BY <1>1, <2>2, <3>1, ContentsStay
  <2> QED BY <2>1, <2>2 DEF ReadOnlyInv
<1> QED BY <1>2, <1>3, CommandSteps

(* Whatever the guest does, from the moment a segment it may not write is   *)
(* mapped until the command is over, the segment is what the file says.     *)
THEOREM ReadOnlyStaysTheFile == Spec => []ReadOnlyIsTheFile
<1>1. Init => ReadOnlyInv
  BY LayoutStart DEF Init, RunElfInit, SpaceInit, ReadOnlyInv
<1>2. ReadOnlyInv => ReadOnlyIsTheFile
  <2> SUFFICES ASSUME ReadOnlyInv, NEW i \in 1 .. seg - 1,
                      segments[i].flags \notin {2, 3, 6, 7},
                      NEW k \in 0 .. segments[i].filesz - 1
               PROVE  engine[segments[i].vaddr + k] = segments[i].offset + k + 1
    BY DEF ReadOnlyIsTheFile
  <2>1. ContentsHold(segments[i], engine)
    BY DEF ReadOnlyInv, Writable
  <2>2. segments[i] \in PhdrType /\ SoundSegment(segments[i])
    BY MappedSegments DEF ReadOnlyInv
  <2>3. k \in 0 .. segments[i].memsz - 1 /\ k < segments[i].filesz
    BY <2>2, PhdrFacts DEF SoundSegment
  <2> QED BY <2>1, <2>3 DEF ContentsHold
<1> QED BY <1>1, <1>2, ReadOnlyStep, PTL DEF Spec


-----------------------------------------------------------------------------
(* The bytes a trace accounts for. *)

(* Sequences of whatever kind. *)
IsSeq(s) == \E S : s \in Seq(S)

LEMMA SeqFacts ==
    ASSUME NEW s, IsSeq(s)
    PROVE  /\ Len(s) \in Nat /\ DOMAIN s = 1 .. Len(s)
           /\ s \o << >> = s /\ << >> \o s = s
           /\ Len(s) = 0 => s = << >>
           /\ SubSeq(s, 1, Len(s)) = s
<1>1. PICK S : s \in Seq(S)
  BY DEF IsSeq
<1> QED BY <1>1

LEMMA SeqAppend ==
    ASSUME NEW s, IsSeq(s), NEW x
    PROVE  /\ IsSeq(Append(s, x))
           /\ Len(Append(s, x)) = Len(s) + 1
           /\ \A i \in 1 .. Len(s) : Append(s, x)[i] = s[i]
           /\ Append(s, x)[Len(s) + 1] = x
<1>1. PICK S : s \in Seq(S)
  BY DEF IsSeq
<1>2. s \in Seq(S \cup {x})
  BY <1>1
<1>3. Append(s, x) \in Seq(S \cup {x})
  BY <1>2
<1> QED BY <1>2, <1>3 DEF IsSeq

LEMMA SeqJoin ==
    ASSUME NEW s, IsSeq(s), NEW t, IsSeq(t)
    PROVE  /\ IsSeq(s \o t)
           /\ Len(s \o t) = Len(s) + Len(t)
           /\ Len(s) <= Len(s \o t)
           /\ SubSeq(s \o t, 1, Len(s)) = s
           /\ Len(t) = 0 => s \o t = s
<1>1. PICK S : s \in Seq(S)
  BY DEF IsSeq
<1>2. PICK T : t \in Seq(T)
  BY DEF IsSeq
<1>3. s \in Seq(S \cup T) /\ t \in Seq(S \cup T)
  BY <1>1, <1>2
<1>4. s \o t \in Seq(S \cup T)
  BY <1>3
<1>5. /\ Len(s \o t) = Len(s) + Len(t)
      /\ Len(s) <= Len(s \o t)
      /\ Len(s) \in Nat
      /\ \A i \in 1 .. Len(s) : (s \o t)[i] = s[i]
  BY <1>3
<1>6. SubSeq(s \o t, 1, Len(s)) = s
  BY <1>3, <1>4, <1>5
<1>7. Len(t) = 0 => s \o t = s
  BY <1>3
<1> QED BY <1>4, <1>5, <1>6, <1>7 DEF IsSeq

(* The totals of a trace's first n records, as Accounted has them. *)
Totals(rows, n, f) ==
    f = [k \in 0 .. n |-> IF k = 0 THEN 0 ELSE f[k - 1] + Wrote(rows[k])]

LEMMA TotalsAt ==
    ASSUME NEW rows, NEW n \in Nat, NEW f, Totals(rows, n, f)
    PROVE  /\ DOMAIN f = 0 .. n
           /\ \A k \in 0 .. n : f[k] = IF k = 0 THEN 0 ELSE f[k - 1] + Wrote(rows[k])
<1> DEFINE h == [k \in 0 .. n |-> IF k = 0 THEN 0 ELSE f[k - 1] + Wrote(rows[k])]
<1>1. f = h
  BY DEF Totals
<1>2. /\ DOMAIN h = 0 .. n
      /\ \A k \in 0 .. n : h[k] = IF k = 0 THEN 0 ELSE f[k - 1] + Wrote(rows[k])
  OBVIOUS
<1> HIDE DEF h
<1> QED BY <1>1, <1>2

LEMMA TotalsExist ==
    ASSUME NEW rows, NEW n \in Nat
    PROVE  \E f : Totals(rows, n, f)
<1> DEFINE Bad == {k \in Nat : ~\E f : Totals(rows, k, f)}
           least == Min(Bad)
<1> SUFFICES ASSUME Bad # {} PROVE FALSE
  OBVIOUS
<1>1. least \in Bad /\ \A k \in Bad : least <= k
  <2>1. Bad \in SUBSET Nat
    OBVIOUS
  <2> HIDE DEF Bad
  <2> QED BY <2>1, MinIsLeast
<1> HIDE DEF least
<1>2. CASE least = 0
  <2> DEFINE f == [k \in 0 .. 0 |-> 0]
             h == [k \in 0 .. 0 |-> IF k = 0 THEN 0 ELSE f[k - 1] + Wrote(rows[k])]
  <2>1. \A k \in 0 .. 0 : k = 0
    OBVIOUS
  <2>2. f = h
    BY <2>1
  <2>3. Totals(rows, 0, f)
    BY <2>2 DEF Totals
  <2> QED BY <1>1, <1>2, <2>3
<1>3. CASE least # 0
  <2>1. least \in Nat /\ least - 1 \in Nat /\ ~(least <= least - 1)
    BY <1>1, <1>3
  <2>2. least - 1 \notin Bad
    BY <1>1, <2>1
  <2>3. PICK g : Totals(rows, least - 1, g)
    BY <2>1, <2>2
  <2> DEFINE f == [k \in 0 .. least |-> IF k = 0 THEN 0 ELSE g[k - 1] + Wrote(rows[k])]
             h == [k \in 0 .. least |-> IF k = 0 THEN 0 ELSE f[k - 1] + Wrote(rows[k])]
  <2>4. ASSUME NEW k \in 0 .. least, k # 0 PROVE f[k - 1] = g[k - 1]
    <3>1. k - 1 \in 0 .. least - 1 /\ k - 1 \in 0 .. least
      BY <2>1, <2>4
    <3>2. g[k - 1] = IF k - 1 = 0 THEN 0 ELSE g[(k - 1) - 1] + Wrote(rows[k - 1])
      <4>1. \A j \in 0 .. least - 1 :
                g[j] = IF j = 0 THEN 0 ELSE g[j - 1] + Wrote(rows[j])
        BY <2>1, <2>3, TotalsAt
      <4> QED BY <3>1, <4>1
    <3>3. f[k - 1] = IF k - 1 = 0 THEN 0 ELSE g[(k - 1) - 1] + Wrote(rows[k - 1])
      BY <3>1
    <3> QED BY <3>2, <3>3
  <2>5. f = h
    <3>1. \A k \in 0 .. least : f[k] = h[k]
      <4> TAKE k \in 0 .. least
      <4>1. /\ f[k] = IF k = 0 THEN 0 ELSE g[k - 1] + Wrote(rows[k])
            /\ h[k] = IF k = 0 THEN 0 ELSE f[k - 1] + Wrote(rows[k])
        OBVIOUS
      <4> HIDE DEF f, h
      <4> QED BY <2>4, <4>1
    <3> QED BY <3>1
  <2>6. Totals(rows, least, f)
    BY <2>5 DEF Totals
  <2> QED BY <1>1, <2>6
<1> QED BY <1>2, <1>3

AgreeUpTo(s, t, n) == \A i \in 0 .. n : s[i] = t[i]

LEMMA TotalsAgree ==
    ASSUME NEW s, NEW t, NEW n \in Nat, NEW m \in Nat, n <= m,
           \A i \in 1 .. n : s[i] = t[i],
           NEW f, Totals(s, n, f), NEW g, Totals(t, m, g)
    PROVE  AgreeUpTo(f, g, n)
<1> DEFINE Bad == {i \in 0 .. n : f[i] # g[i]}
           least == Min(Bad)
<1> SUFFICES ASSUME Bad # {} PROVE FALSE
  BY DEF AgreeUpTo
<1>1. least \in Bad /\ \A k \in Bad : least <= k
  <2>1. Bad \in SUBSET Nat
    OBVIOUS
  <2> HIDE DEF Bad
  <2> QED BY <2>1, MinIsLeast
<1>2. least \in 0 .. n /\ least \in 0 .. m /\ f[least] # g[least]
  BY <1>1
<1>3. least # 0 => f[least - 1] = g[least - 1] /\ s[least] = t[least]
  <2> SUFFICES ASSUME least # 0
               PROVE  f[least - 1] = g[least - 1] /\ s[least] = t[least]
    OBVIOUS
  <2>1. least - 1 \in 0 .. n /\ least \in 1 .. n /\ ~(least <= least - 1)
    BY <1>2
  <2> QED BY <1>1, <2>1
<1>4. /\ f[least] = IF least = 0 THEN 0 ELSE f[least - 1] + Wrote(s[least])
      /\ g[least] = IF least = 0 THEN 0 ELSE g[least - 1] + Wrote(t[least])
  <2>1. /\ \A k \in 0 .. n : f[k] = IF k = 0 THEN 0 ELSE f[k - 1] + Wrote(s[k])
        /\ \A k \in 0 .. m : g[k] = IF k = 0 THEN 0 ELSE g[k - 1] + Wrote(t[k])
    BY TotalsAt
  <2> HIDE DEF least
  <2> QED BY <1>2, <2>1
<1> QED BY <1>2, <1>3, <1>4

LEMMA AccountedIs ==
    ASSUME NEW rows, Len(rows) \in Nat, NEW f, Totals(rows, Len(rows), f)
    PROVE  Accounted(rows) = f[Len(rows)]
<1> DEFINE n == Len(rows)
           g == CHOOSE h : h = [k \in 0 .. n |->
                                   IF k = 0 THEN 0 ELSE h[k - 1] + Wrote(rows[k])]
<1>1. Accounted(rows) = g[n]
  BY DEF Accounted
<1>2. g = [k \in 0 .. n |-> IF k = 0 THEN 0 ELSE g[k - 1] + Wrote(rows[k])]
  BY DEF Totals
<1>3. Totals(rows, n, g)
  <2> HIDE DEF g
  <2> QED BY <1>2 DEF Totals
<1> HIDE DEF g
<1>4. n <= n /\ n \in Nat /\ n \in 0 .. n
  OBVIOUS
<1>5. AgreeUpTo(g, f, n)
  BY <1>3, <1>4, TotalsAgree
<1> QED BY <1>1, <1>4, <1>5 DEF AgreeUpTo

LEMMA AccountedAppend ==
    ASSUME NEW s, IsSeq(s), NEW x
    PROVE  /\ Accounted(Append(s, x)) = Accounted(s) + Wrote(x)
           /\ Accounted(<< >>) = 0
<1> DEFINE t == Append(s, x)
           n == Len(s)
           m == n + 1
<1>1. /\ n \in Nat /\ m \in Nat /\ n <= m /\ Len(t) = m
      /\ m \in 0 .. m /\ m - 1 = n /\ m # 0 /\ n \in 0 .. n
      /\ \A i \in 1 .. n : s[i] = t[i]
      /\ t[m] = x
  BY SeqFacts, SeqAppend
<1>2. Accounted(<< >>) = 0
  <2> DEFINE e == << >>
  <2>1. Len(e) = 0 /\ 0 \in Nat /\ 0 \in 0 .. 0
    OBVIOUS
  <2> HIDE DEF e
  <2>2. PICK f : Totals(e, 0, f)
    BY <2>1, TotalsExist
  <2>3. f[0] = 0
    BY <2>1, <2>2, TotalsAt
  <2>4. Accounted(e) = 0
    BY <2>1, <2>2, <2>3, AccountedIs
  <2> QED BY <2>4 DEF e
<1> HIDE DEF t, n, m
<1>3. PICK f : Totals(t, m, f)
  BY <1>1, TotalsExist
<1>4. PICK g : Totals(s, n, g)
  BY <1>1, TotalsExist
<1>5. Accounted(t) = f[m]
  BY <1>1, <1>3, AccountedIs
<1>6. Accounted(s) = g[n]
  BY <1>1, <1>4, AccountedIs DEF n
<1>7. f[m] = f[n] + Wrote(x)
  <2>1. f[m] = IF m = 0 THEN 0 ELSE f[m - 1] + Wrote(t[m])
    BY <1>1, <1>3, TotalsAt
  <2> QED BY <1>1, <2>1
<1>8. f[n] = g[n]
  <2>1. AgreeUpTo(g, f, n)
    BY <1>1, <1>3, <1>4, TotalsAgree
  <2> QED BY <1>1, <2>1 DEF AgreeUpTo
<1> QED BY <1>2, <1>5, <1>6, <1>7, <1>8 DEF t


-----------------------------------------------------------------------------
(* What stdout shows: at most the guest's bytes and one item behind them.   *)

PartOf(item)    == IF item.kind = "guest" THEN item.bytes ELSE << >>
PartsOf(items)  == [i \in DOMAIN items |-> PartOf(items[i])]
Flat(parts)     == Seqs!FlattenSeq(parts)
ShownIn(items)  == Flat(PartsOf(items))
Notes(items)    == {i \in DOMAIN items : items[i].kind # "guest"}
LastNote(items) == items[CHOOSE i \in Notes(items) : \A j \in Notes(items) : j <= i]
ToldBy(item)    == CASE item.kind = "error" -> Cpu!ExecError
                     [] item.kind = "image" -> NoGuest("described")
                     [] item.kind \in {"json", "summary"} -> item.exit
NoteIn(items)   == IF Notes(items) = {} THEN NoEnding ELSE ToldBy(LastNote(items))

LEMMA ShownIt ==
    /\ Shown = ShownIn(printed) /\ Note = NoteIn(printed)
    /\ Shown' = ShownIn(printed') /\ Note' = NoteIn(printed')
BY DEF Shown, ShownIn, Flat, PartsOf, PartOf, Note, NoteIn, Notes, LastNote, ToldBy

LEMMA FlattenShort ==
    \A s : /\ Len(s) = 1 => Flat(s) = s[1]
           /\ Len(s) = 2 => Flat(s) = s[1] \o s[2]
<1> SUFFICES ASSUME NEW s, Len(s) = 1 \/ Len(s) = 2
             PROVE  /\ Len(s) = 1 => Flat(s) = s[1]
                    /\ Len(s) = 2 => Flat(s) = s[1] \o s[2]
  OBVIOUS
<1> DEFINE n == Len(s)
           Good(h) == h = [i \in 1 .. n |-> IF i = 1 THEN s[i] ELSE h[i - 1] \o s[i]]
           g == CHOOSE h : h = [i \in 1 .. n |->
                                   IF i = 1 THEN s[i] ELSE h[i - 1] \o s[i]]
           k == [i \in 1 .. n |-> IF i = 1 THEN s[1] ELSE s[1] \o s[2]]
           l == [i \in 1 .. n |-> IF i = 1 THEN s[i] ELSE k[i - 1] \o s[i]]
<1>1. Flat(s) = g[n]
  BY DEF Flat, Seqs!FlattenSeq
<1>2. n \in {1, 2}
  OBVIOUS
<1> HIDE DEF n
<1>3. k = l
  <2>1. \A i \in 1 .. n : i = 1 \/ (i = 2 /\ i - 1 = 1 /\ 1 \in 1 .. n)
    BY <1>2
  <2>2. \A i \in 1 .. n : k[i] = l[i]
    <3> TAKE i \in 1 .. n
    <3>1. CASE i = 1
      BY <3>1
    <3>2. CASE i = 2 /\ i - 1 = 1 /\ 1 \in 1 .. n
      <4>1. /\ \A j \in 1 .. n : k[j] = IF j = 1 THEN s[1] ELSE s[1] \o s[2]
            /\ \A j \in 1 .. n : l[j] = IF j = 1 THEN s[j] ELSE k[j - 1] \o s[j]
        OBVIOUS
      <4> HIDE DEF k, l
      <4>2. i # 1 /\ i \in 1 .. n
        BY <3>2
      <4>3. k[i] = s[1] \o s[2] /\ k[1] = s[1]
        BY <3>2, <4>1, <4>2
      <4>4. l[i] = k[i - 1] \o s[i]
        BY <4>1, <4>2
      <4> QED BY <3>2, <4>3, <4>4
    <3> QED BY <2>1, <3>1, <3>2
  <2> QED BY <2>2
<1>4. Good(k)
  BY <1>3
<1>5. Good(g)
  <2> HIDE DEF k
  <2>1. \E h : Good(h)
    BY <1>4
  <2>2. g = CHOOSE h : Good(h)
    OBVIOUS
  <2> HIDE DEF Good, g
  <2> QED BY <2>1, <2>2
<1> DEFINE m == [i \in 1 .. n |-> IF i = 1 THEN s[i] ELSE g[i - 1] \o s[i]]
<1>6. g = m
  BY <1>5
<1>7. 1 \in 1 .. n => m[1] = s[1]
  OBVIOUS
<1>8. 2 \in 1 .. n => m[2] = g[1] \o s[2]
  BY 2 # 1, 2 - 1 = 1
<1> HIDE DEF g, m, k, l, Good
<1>9. g[n] = IF n = 1 THEN s[1] ELSE s[1] \o s[2]
  <2>1. CASE n = 1
    BY <1>6, <1>7, <2>1
  <2>2. CASE n = 2
    <3>1. 1 \in 1 .. n /\ 2 \in 1 .. n
      BY <2>2
    <3> QED BY <1>6, <1>7, <1>8, <2>2, <3>1
  <2> QED BY <1>2, <2>1, <2>2
<1>10. /\ n = 1 => Flat(s) = s[1]
       /\ n = 2 => Flat(s) = s[1] \o s[2]
  <2>1. CASE n = 1
    <3>1. Flat(s) = s[1] /\ n # 2
      BY <1>1, <1>9, <2>1
    <3> QED BY <2>1, <3>1
  <2>2. CASE n = 2
    <3>1. g[n] = s[1] \o s[2] /\ n # 1
      BY <1>9, <2>2
    <3>2. Flat(s) = s[1] \o s[2]
      BY <1>1, <3>1
    <3> QED BY <3>1, <3>2
  <2> QED BY <1>2, <2>1, <2>2
<1> QED BY <1>10 DEF n

LEMMA ShownOf ==
    /\ ShownIn(<< >>) = << >>
    /\ \A a : ShownIn(<<a>>) = PartOf(a)
    /\ \A a, b : ShownIn(<<a, b>>) = PartOf(a) \o PartOf(b)
<1>1. ShownIn(<< >>) = << >>
  <2>1. PartsOf(<< >>) = << >>
    BY DEF PartsOf
  <2>2. Flat(<< >>) = << >>
    BY DEF Flat, Seqs!FlattenSeq
  <2> QED BY <2>1, <2>2 DEF ShownIn
<1>2. ASSUME NEW a PROVE ShownIn(<<a>>) = PartOf(a)
  <2> DEFINE s == <<PartOf(a)>>
  <2>1. PartsOf(<<a>>) = s
    BY DEF PartsOf
  <2>2. Len(s) = 1 /\ s[1] = PartOf(a)
    OBVIOUS
  <2> HIDE DEF s
  <2>3. Flat(s) = s[1]
    BY <2>2, FlattenShort
  <2> QED BY <2>1, <2>2, <2>3 DEF ShownIn
<1>3. ASSUME NEW a, NEW b PROVE ShownIn(<<a, b>>) = PartOf(a) \o PartOf(b)
  <2> DEFINE s == <<PartOf(a), PartOf(b)>>
  <2>1. PartsOf(<<a, b>>) = s
    BY DEF PartsOf
  <2>2. Len(s) = 2 /\ s[1] = PartOf(a) /\ s[2] = PartOf(b)
    OBVIOUS
  <2> HIDE DEF s
  <2>3. Flat(s) = s[1] \o s[2]
    BY <2>2, FlattenShort
  <2> QED BY <2>1, <2>2, <2>3 DEF ShownIn
<1> QED BY <1>1, <1>2, <1>3

LEMMA NoteOf ==
    /\ NoteIn(<< >>) = NoEnding
    /\ \A a : NoteIn(<<a>>) = IF a.kind = "guest" THEN NoEnding ELSE ToldBy(a)
    /\ \A a, b : a.kind = "guest" /\ b.kind # "guest" => NoteIn(<<a, b>>) = ToldBy(b)
<1>1. NoteIn(<< >>) = NoEnding
  <2>1. Notes(<< >>) = {}
    BY DEF Notes
  <2> QED BY <2>1 DEF NoteIn
<1>2. ASSUME NEW a PROVE NoteIn(<<a>>) = IF a.kind = "guest" THEN NoEnding ELSE ToldBy(a)
  <2> DEFINE items == <<a>>
  <2>1. DOMAIN items = {1} /\ items[1] = a
    OBVIOUS
  <2> HIDE DEF items
  <2>2. CASE a.kind = "guest"
    <3>1. Notes(items) = {}
      BY <2>1, <2>2 DEF Notes
    <3> QED BY <2>2, <3>1 DEF NoteIn, items
  <2>3. CASE a.kind # "guest"
    <3>1. Notes(items) = {1}
      BY <2>1, <2>3 DEF Notes
    <3>2. LastNote(items) = a
      BY <2>1, <3>1 DEF LastNote
    <3> QED BY <2>3, <3>1, <3>2 DEF NoteIn, items
  <2> QED BY <2>2, <2>3
<1>3. ASSUME NEW a, NEW b, a.kind = "guest", b.kind # "guest"
      PROVE  NoteIn(<<a, b>>) = ToldBy(b)
  <2> DEFINE items == <<a, b>>
  <2>1. DOMAIN items = {1, 2} /\ items[1] = a /\ items[2] = b
    OBVIOUS
  <2> HIDE DEF items
  <2>2. Notes(items) = {2}
    BY <1>3, <2>1 DEF Notes
  <2>3. LastNote(items) = b
    BY <2>1, <2>2 DEF LastNote
  <2>4. NoteIn(items) = ToldBy(b)
    BY <2>2, <2>3 DEF NoteIn
  <2> QED BY <2>4 DEF items
<1> QED BY <1>1, <1>2, <1>3



-----------------------------------------------------------------------------
(* The guest inside its one run.                                            *)

GuestExits == [kind : {"exit"}, code : 0 .. 255]

LEMMA GuestHandlers ==
    ASSUME NEW nr, Cpu!Find(Cpu!Handlers, nr) # {}
    PROVE  (CHOOSE h \in Cpu!Find(Cpu!Handlers, nr) : TRUE)
               \in {Cpu!WriteHandler, Cpu!ExitHandler, Cpu!ExitGroupHandler}
<1>1. Cpu!Handlers = {Cpu!WriteHandler, Cpu!ExitHandler, Cpu!ExitGroupHandler}
  BY DEF Cpu!Handlers, Cpu!RegisterAll, Cpu!Register,
         Cpu!WriteHandler, Cpu!ExitHandler, Cpu!ExitGroupHandler
<1>2. Cpu!Find(Cpu!Handlers, nr) \subseteq Cpu!Handlers
  BY DEF Cpu!Find
<1> QED BY <1>1, <1>2

(* What is captured of a syscall is nothing, or the bytes of a write. *)
LEMMA GuestCaptures ==
    /\ Cpu!Combined(Cpu!NoOutput) = << >>
    /\ \A data, fd : IsSeq(data) /\ fd \in {1, 2} =>
          Cpu!Combined(Cpu!CaptureWrite(Cpu!NoOutput, fd, data)) = data
<1>1. Cpu!Combined(Cpu!NoOutput) = << >>
  BY DEF Cpu!Combined, Cpu!Captured, Cpu!NoOutput
<1>2. ASSUME NEW data, NEW fd \in {1, 2}, IsSeq(data)
      PROVE  Cpu!Combined(Cpu!CaptureWrite(Cpu!NoOutput, fd, data)) = data
  <2> DEFINE io == Cpu!CaptureWrite(Cpu!NoOutput, fd, data)
  <2>1. DOMAIN io = {fd} /\ io[fd] = << >> \o data
    BY DEF Cpu!CaptureWrite, Cpu!Captured, Cpu!NoOutput
  <2>2. << >> \o data = data /\ data \o << >> = data
    BY <1>2, SeqFacts
  <2>3. /\ Cpu!Captured(io, fd) = data
        /\ \A f : f # fd => Cpu!Captured(io, f) = << >>
    BY <2>1, <2>2 DEF Cpu!Captured
  <2> HIDE DEF io
  <2>4. Cpu!Combined(io) = data
    <3>1. CASE fd = 1
      <4>1. Cpu!Captured(io, 1) = data /\ Cpu!Captured(io, 2) = << >>
        BY <2>3, <3>1
      <4> QED BY <2>2, <4>1 DEF Cpu!Combined
    <3>2. CASE fd = 2
      <4>1. Cpu!Captured(io, 1) = << >> /\ Cpu!Captured(io, 2) = data
        BY <2>3, <3>2
      <4> QED BY <2>2, <4>1 DEF Cpu!Combined
    <3> QED BY <3>1, <3>2
  <2> QED BY <2>4 DEF io
<1> QED BY <1>1, <1>2

(* A syscall of the guest, whatever is in memory: its outcome is one of     *)
(* four, and it captures as many bytes as its record will say it wrote.     *)
LEMMA GuestCall ==
    ASSUME NEW m, NEW regs \in Requests, NEW rows,
           NEW call, call = Cpu!DispatchCall(Cpu!Handlers, m, regs)
    PROVE  /\ call.outcome.kind \in {"return", "exit", "error", "panic"}
           /\ call.outcome.kind = "exit" => call.outcome \in GuestExits
           /\ IsSeq(Cpu!Combined(call.io))
           /\ Len(Cpu!Combined(call.io)) =
                  Wrote(Cpu!TraceRecord(Cpu!Handlers, rows, regs, call.outcome))
           /\ call.outcome.kind # "return" => Len(Cpu!Combined(call.io)) = 0
<1> DEFINE h    == CHOOSE x \in Cpu!Find(Cpu!Handlers, regs.nr) : TRUE
           row  == Cpu!TraceRecord(Cpu!Handlers, rows, regs, call.outcome)
           data == Cpu!MemRead(m, regs.ptr, regs.count)
           Fits == /\ call.outcome.kind \in {"return", "exit", "error", "panic"}
                   /\ call.outcome.kind = "exit" => call.outcome \in GuestExits
                   /\ IsSeq(Cpu!Combined(call.io))
                   /\ Len(Cpu!Combined(call.io)) = Wrote(row)
                   /\ call.outcome.kind # "return" => Len(Cpu!Combined(call.io)) = 0
<1>1. regs.arg0 \in Nat /\ regs.ptr \in Nat /\ regs.count \in Nat
  BY RunElfAssumption
<1>2. Len(<< >>) = 0 /\ IsSeq(<< >>)
  BY DEF IsSeq
<1>3. /\ row.name = Cpu!HandlerName(Cpu!Handlers, regs.nr)
      /\ row.ret = IF call.outcome.kind = "return" THEN call.outcome.ret ELSE 0
  BY DEF Cpu!TraceRecord
<1> SUFFICES Fits
  OBVIOUS
<1> HIDE DEF row
<1>4. ASSUME call.io = Cpu!NoOutput,
             call.outcome.kind \in {"return", "exit", "error", "panic"},
             call.outcome.kind = "exit" => call.outcome \in GuestExits,
             ~(row.name = "write" /\ row.ret > 0)
      PROVE  Fits
  BY <1>2, <1>4, GuestCaptures DEF Wrote
<1>5. CASE Cpu!Find(Cpu!Handlers, regs.nr) = {}
  <2>1. call.io = Cpu!NoOutput /\ call.outcome.kind = "return"
    BY <1>5 DEF Cpu!DispatchCall, Cpu!Return
  <2>2. row.name = "<unimplemented>"
    BY <1>3, <1>5 DEF Cpu!HandlerName
  <2> QED BY <1>4, <2>1, <2>2
<1>6. CASE Cpu!Find(Cpu!Handlers, regs.nr) # {}
  <2>1. call = Cpu!Handle(h, m, regs) /\ row.name = h.name
    BY <1>3, <1>6 DEF Cpu!DispatchCall, Cpu!HandlerName
  <2>2. h \in {Cpu!WriteHandler, Cpu!ExitHandler, Cpu!ExitGroupHandler}
    BY <1>6, GuestHandlers
  <2> HIDE DEF h
  <2>3. CASE h # Cpu!WriteHandler
    <3>1. call = Cpu!HandleExit(regs)
      BY <2>1, <2>3 DEF Cpu!Handle
    <3>2. regs.arg0 % 256 \in 0 .. 255
      BY <1>1
    <3>3. call.io = Cpu!NoOutput /\ call.outcome.kind = "exit" /\ call.outcome \in GuestExits
      BY <3>1, <3>2 DEF Cpu!HandleExit, Cpu!Exit, GuestExits
    <3> QED BY <1>3, <1>4, <3>3
  <2>4. CASE h = Cpu!WriteHandler
    <3>1. row.name = "write" /\ call = Cpu!HandleWrite(m, regs)
      BY <2>1, <2>4 DEF Cpu!Handle, Cpu!WriteHandler
    <3>2. \/ call = [outcome |-> Cpu!Return(Cpu!Err(Cpu!EBADF)), io |-> Cpu!NoOutput]
          \/ call = [outcome |-> Cpu!Panic, io |-> Cpu!NoOutput]
          \/ call = [outcome |-> Cpu!EngineFailure, io |-> Cpu!NoOutput]
          \/ /\ regs.arg0 \in {1, 2}
             /\ call = [outcome |-> Cpu!Return(regs.count),
                        io |-> Cpu!CaptureWrite(Cpu!NoOutput, regs.arg0, data)]
      BY <3>1 DEF Cpu!HandleWrite
    <3>3. /\ Cpu!Return(Cpu!Err(Cpu!EBADF)).kind = "return"
          /\ ~(Cpu!Return(Cpu!Err(Cpu!EBADF)).ret > 0)
          /\ Cpu!Panic.kind = "panic" /\ Cpu!EngineFailure.kind = "error"
          /\ Cpu!Return(regs.count).kind = "return"
          /\ Cpu!Return(regs.count).ret = regs.count
      BY DEF Cpu!Return, Cpu!Err, Cpu!EBADF, Cpu!Panic, Cpu!EngineFailure
    <3>4. IsSeq(data) /\ Len(data) = regs.count
      <4> DEFINE S == {m[regs.ptr + i - 1] : i \in 1 .. regs.count}
      <4>1. data \in Seq(S)
        <5>1. \A i \in 1 .. regs.count : m[regs.ptr + i - 1] \in S
          OBVIOUS
        <5> HIDE DEF S
        <5> QED BY <1>1, <5>1 DEF Cpu!MemRead
      <4>2. Len(data) = regs.count
        BY <1>1 DEF Cpu!MemRead
      <4> QED BY <4>1, <4>2 DEF IsSeq
    <3> HIDE DEF data
    <3>5. CASE call.io = Cpu!NoOutput /\ call.outcome.kind # "exit" /\ ~(row.ret > 0)
               /\ call.outcome.kind \in {"return", "exit", "error", "panic"}
      BY <1>4, <3>5
    <3>6. CASE /\ regs.arg0 \in {1, 2}
               /\ call = [outcome |-> Cpu!Return(regs.count),
                          io |-> Cpu!CaptureWrite(Cpu!NoOutput, regs.arg0, data)]
      <4>1. call.outcome.kind = "return" /\ row.ret = regs.count
        BY <1>3, <3>3, <3>6
      <4>2. Cpu!Combined(call.io) = data
        BY <3>4, <3>6, GuestCaptures
      <4>3. Wrote(row) = regs.count
        BY <1>1, <3>1, <4>1 DEF Wrote
      <4> QED BY <3>4, <4>1, <4>2, <4>3
    <3> QED BY <1>3, <3>2, <3>3, <3>5, <3>6
  <2> QED BY <2>3, <2>4
<1> QED BY <1>5, <1>6



-----------------------------------------------------------------------------
(* What holds of the guest's run at every step of the commands.  That a     *)
(* report and its bytes agree, and that a run ends in the way its syscalls  *)
(* say, has to be known from the first syscall on: what is captured is what *)
(* is recorded, and while the guest runs nothing has ended it.              *)

(* GuestEnding of an error of emu_start and the syscalls issued. *)
EndingOf(err, calls) ==
    LET last == calls[Len(calls)].outcome
    IN  CASE err \in Cpu!FalloffErrors -> Cpu!Falloff
          [] err \notin Cpu!FalloffErrors \cup {"OK"} -> Cpu!ExecError
          [] OTHER -> IF calls = << >> THEN Cpu!Stopped
                      ELSE CASE last.kind = "exit"   -> last
                             [] last.kind = "error"  -> Cpu!ExecError
                             [] last.kind = "return" -> Cpu!Stopped

NothingEnded ==
    /\ emu_err = "OK" /\ exit_reason = Cpu!NoReason /\ engine_error = FALSE
    /\ \A i \in 1 .. Len(issued) : issued[i].outcome.kind = "return"

RunIsJudged ==
    LET ending == EndingOf(emu_err, issued)
    IN  /\ ending = Cpu!Verdict(emu_err, exit_reason, engine_error)
        /\ ending \in Endings \cup {Cpu!ExecError}

GuestInv ==
    /\ IsSeq(output) /\ IsSeq(issued) /\ IsSeq(trace)
    /\ Len(output) = Accounted(trace)
    /\ runs \in {0, 1} /\ pc \in {"idle", "running", "returned", "aborted"}
    /\ runs = 0 => pc = "idle" /\ output = << >>
    /\ runs = 0 \/ pc = "running" => NothingEnded
    /\ runs = 1 /\ pc \in {"returned", "idle"} => RunIsJudged

(* What a step of the commands does to the guest's run. *)
runVars == <<output, exit_reason, engine_error, trace, pc, emu_err, runs, issued>>

RunEnds ==
    /\ pc = "running" /\ pc' = "returned"
    /\ emu_err' \in Cpu!EngineErrors \cup {"OK"}
    /\ UNCHANGED <<output, exit_reason, engine_error, trace, runs, issued>>

GuestSyscall == \E regs \in Requests : Cpu!Syscall(regs)

LEMMA RunMoves ==
    [Next]_vars => UNCHANGED runVars \/ Start \/ Return \/ RunEnds \/ GuestSyscall
<1> SUFFICES ASSUME [Next]_vars
             PROVE  UNCHANGED runVars \/ Start \/ Return \/ RunEnds \/ GuestSyscall
  OBVIOUS
<1>1. ASSUME UNCHANGED cpuVars PROVE UNCHANGED runVars
  BY <1>1 DEF cpuVars, runVars
<1>2. CASE ReadFile \/ Abort \/ Except \/ PrintOutput \/ Report \/ PrintImage
  BY <1>1, <1>2 DEF ReadFile, Abort, Except, PrintOutput, Report, PrintImage, coreVars
<1>3. ASSUME NEW asked \in Limits, Call(asked) PROVE UNCHANGED runVars
  BY <1>1, <1>3 DEF Call
<1>4. CASE SetUp \/ Parse
  BY <1>1, <1>4 DEF SetUp, Parse
<1>5. ASSUME NEW addr, NEW byte, Store(addr, byte) PROVE UNCHANGED runVars
  BY <1>5 DEF Store, Cpu!GuestStore, Cpu!shared, Cpu!engine, Cpu!history, runVars
<1>6. ASSUME NEW err \in Cpu!EngineErrors, Cpu!GuestFault(err) PROVE RunEnds
  BY <1>6 DEF Cpu!GuestFault, Cpu!EmuReturns, Cpu!shared, Cpu!history, RunEnds
<1>7. CASE Cpu!GuestReachesUntil
  BY <1>7 DEF Cpu!GuestReachesUntil, Cpu!EmuReturns, Cpu!shared, Cpu!history, RunEnds
<1>8. CASE EngineStops
  BY <1>8 DEF EngineStops, Cpu!EngineStops, Cpu!EmuReturns, Cpu!shared, Cpu!history,
              RunEnds
<1>9. CASE Tick \/ TimerFires
  BY <1>9 DEF Tick, TimerFires, Cpu!Tick, Cpu!TimerFires, Cpu!shared, Cpu!history, runVars
<1>10. CASE Guest
  <2>1. "FETCH_PROT" \in Cpu!EngineErrors /\ "FETCH_UNMAPPED" \in Cpu!EngineErrors
    BY DEF Cpu!EngineErrors
  <2> QED BY <1>5, <1>6, <1>7, <1>10, <2>1 DEF Guest, GuestSyscall
<1>11. CASE UNCHANGED vars
  BY <1>1, <1>11 DEF vars, coreVars
<1> QED BY <1>2, <1>3, <1>4, <1>8, <1>9, <1>10, <1>11 DEF Next, Host, InCore, RunElfHost

(* What a syscall does: it is issued, recorded unless it fails, what it     *)
(* captures goes behind the output, and its outcome decides of the run.     *)
LEMMA SyscallMoves ==
    ASSUME GuestInv, NEW regs \in Requests, Cpu!Syscall(regs)
    PROVE  \E outcome, data, row :
              /\ IsSeq(data) /\ (outcome.kind # "return" => Len(data) = 0)
              /\ output' = output \o data
              /\ \/ trace' = trace /\ Len(data) = 0
                 \/ trace' = Append(trace, row) /\ Len(data) = Wrote(row)
              /\ issued' = Append(issued, [run |-> runs, regs |-> regs,
                                           outcome |-> outcome])
              /\ pc = "running" /\ runs' = runs
              /\ \/ /\ outcome.kind = "return"
                    /\ UNCHANGED <<exit_reason, engine_error, pc, emu_err>>
                 \/ /\ outcome.kind = "exit" /\ outcome \in GuestExits
                    /\ exit_reason' = outcome /\ engine_error' = engine_error
                    /\ pc' = "returned" /\ emu_err' = "OK"
                 \/ /\ outcome.kind = "error"
                    /\ engine_error' = TRUE /\ exit_reason' = exit_reason
                    /\ pc' = "returned" /\ emu_err' = "OK"
                 \/ pc' = "aborted" /\ outcome.kind = "panic"
<1> DEFINE call == Cpu!DispatchCall(Cpu!Handlers, engine, regs)
           row  == Cpu!TraceRecord(Cpu!Handlers, trace, regs, call.outcome)
           data == Cpu!Combined(call.io)
<1>1. /\ call.outcome.kind \in {"return", "exit", "error", "panic"}
      /\ call.outcome.kind = "exit" => call.outcome \in GuestExits
      /\ IsSeq(data) /\ Len(data) = Wrote(row)
      /\ call.outcome.kind # "return" => Len(data) = 0
  BY GuestCall
<1>2. /\ pc = "running" /\ runs' = runs
      /\ issued' = Append(issued, [run |-> runs, regs |-> regs,
                                   outcome |-> call.outcome])
      /\ trace' = IF call.outcome.kind \in {"error", "panic"} THEN trace
                  ELSE Append(trace, row)
      /\ output' = output \o data
      /\ \/ call.outcome.kind = "return" /\ Cpu!HookReturn(call.outcome.ret)
         \/ call.outcome.kind = "exit"   /\ Cpu!HookExit(call.outcome)
         \/ call.outcome.kind = "error"  /\ Cpu!HookError
         \/ call.outcome.kind = "panic"  /\ pc' = "aborted"
  BY DEF Cpu!Syscall, Cpu!Traced
<1> HIDE DEF call, row, data
<1>3. \/ trace' = trace /\ Len(data) = 0
      \/ trace' = Append(trace, row) /\ Len(data) = Wrote(row)
  BY <1>1, <1>2
<1>4. \/ /\ call.outcome.kind = "return"
         /\ UNCHANGED <<exit_reason, engine_error, pc, emu_err>>
      \/ /\ call.outcome.kind = "exit" /\ call.outcome \in GuestExits
         /\ exit_reason' = call.outcome /\ engine_error' = engine_error
         /\ pc' = "returned" /\ emu_err' = "OK"
      \/ /\ call.outcome.kind = "error"
         /\ engine_error' = TRUE /\ exit_reason' = exit_reason
         /\ pc' = "returned" /\ emu_err' = "OK"
      \/ pc' = "aborted" /\ call.outcome.kind = "panic"
  BY <1>1, <1>2 DEF Cpu!HookReturn, Cpu!HookExit, Cpu!HookError, Cpu!EmuReturns
<1> QED BY <1>1, <1>2, <1>3, <1>4

LEMMA GuestStep == GuestInv /\ [Next]_vars => GuestInv'
<1> SUFFICES ASSUME GuestInv, [Next]_vars PROVE GuestInv'
  OBVIOUS
<1>1. CASE UNCHANGED runVars
  BY <1>1 DEF runVars, GuestInv, NothingEnded, RunIsJudged
<1>2. CASE Start
  <2>1. /\ pc = "idle" /\ runs = 0 /\ pc' = "running" /\ runs' = 1
        /\ UNCHANGED <<output, exit_reason, engine_error, trace, emu_err, issued>>
    BY <1>2 DEF Start, Cpu!RunStart, Cpu!shared, GuestInv
  <2> QED BY <2>1 DEF GuestInv, NothingEnded
<1>3. CASE Return
  <2>1. /\ pc = "returned" /\ pc' = "idle"
        /\ UNCHANGED <<output, exit_reason, engine_error, trace, emu_err, runs, issued>>
    BY <1>3 DEF Return, Cpu!RunReturn, Cpu!shared, Cpu!history
  <2>2. runs = 1
    BY <2>1 DEF GuestInv
  <2> QED BY <2>1, <2>2 DEF GuestInv, RunIsJudged
<1>4. CASE RunEnds
  <2>1. runs = 1 /\ NothingEnded /\ IsSeq(issued)
    BY <1>4 DEF RunEnds, GuestInv
  <2>2. RunIsJudged'
    <3> DEFINE last == issued[Len(issued)].outcome
    <3>1. issued = << >> \/ last.kind = "return"
      <4>1. Len(issued) \in Nat /\ (Len(issued) = 0 => issued = << >>)
        BY <2>1, SeqFacts
      <4>2. Len(issued) # 0 => Len(issued) \in 1 .. Len(issued)
        BY <4>1
      <4> QED BY <2>1, <4>1, <4>2 DEF NothingEnded
    <3>2. exit_reason' = Cpu!NoReason /\ engine_error' = FALSE /\ issued' = issued
      BY <1>4, <2>1 DEF RunEnds, NothingEnded
    <3>3. /\ emu_err' \in Cpu!EngineErrors \cup {"OK"} /\ "OK" \notin Cpu!FalloffErrors
      BY <1>4 DEF RunEnds, Cpu!FalloffErrors
    <3>4. EndingOf(emu_err', issued) =
              IF emu_err' # "OK" THEN IF emu_err' \in Cpu!FalloffErrors THEN Cpu!Falloff
                                      ELSE Cpu!ExecError
              ELSE Cpu!Stopped
      <4> DEFINE err == emu_err'
      <4> HIDE DEF err
      <4>1. CASE err \in Cpu!FalloffErrors
        BY <3>3, <4>1 DEF EndingOf, err
      <4>2. CASE err \notin Cpu!FalloffErrors \cup {"OK"}
        BY <3>3, <4>2 DEF EndingOf, err
      <4>3. CASE err = "OK"
        BY <3>1, <3>3, <4>3 DEF EndingOf, err
      <4> QED BY <4>1, <4>2, <4>3 DEF err
    <3> QED BY <3>2, <3>4 DEF RunIsJudged, Cpu!Verdict, Endings
  <2> QED BY <1>4, <2>1, <2>2 DEF RunEnds, GuestInv
<1>5. CASE GuestSyscall
  <2>0. PICK regs \in Requests : Cpu!Syscall(regs)
    BY <1>5 DEF GuestSyscall
  <2>1. PICK outcome, data, row :
              /\ IsSeq(data)
              /\ output' = output \o data
              /\ \/ trace' = trace /\ Len(data) = 0
                 \/ trace' = Append(trace, row) /\ Len(data) = Wrote(row)
              /\ issued' = Append(issued, [run |-> runs, regs |-> regs,
                                           outcome |-> outcome])
              /\ pc = "running" /\ runs' = runs
              /\ \/ /\ outcome.kind = "return"
                    /\ UNCHANGED <<exit_reason, engine_error, pc, emu_err>>
                 \/ /\ outcome.kind = "exit" /\ outcome \in GuestExits
                    /\ exit_reason' = outcome /\ engine_error' = engine_error
                    /\ pc' = "returned" /\ emu_err' = "OK"
                 \/ /\ outcome.kind = "error"
                    /\ engine_error' = TRUE /\ exit_reason' = exit_reason
                    /\ pc' = "returned" /\ emu_err' = "OK"
                 \/ pc' = "aborted"
    BY <2>0, SyscallMoves
  <2>2. /\ IsSeq(output) /\ IsSeq(trace) /\ IsSeq(issued) /\ runs = 1
        /\ NothingEnded /\ Len(output) = Accounted(trace)
    BY <2>1 DEF GuestInv
  <2>3. IsSeq(output') /\ Len(output') = Len(output) + Len(data)
    BY <2>1, <2>2, SeqJoin
  <2>4. IsSeq(trace') /\ Len(output') = Accounted(trace')
    <3>1. CASE trace' = trace /\ Len(data) = 0
      <4>1. Len(output) \in Nat
        BY <2>2, SeqFacts
      <4> QED BY <2>2, <2>3, <3>1, <4>1
    <3>2. CASE trace' = Append(trace, row) /\ Len(data) = Wrote(row)
      <4>1. /\ IsSeq(Append(trace, row))
            /\ Accounted(Append(trace, row)) = Accounted(trace) + Wrote(row)
        BY <2>2, SeqAppend, AccountedAppend
      <4> QED BY <2>2, <2>3, <3>2, <4>1
    <3> QED BY <2>1, <3>1, <3>2
  <2> DEFINE n == Len(issued)
             new == [run |-> runs, regs |-> regs, outcome |-> outcome]
  <2>5. /\ IsSeq(issued') /\ Len(issued') = n + 1 /\ n \in Nat
        /\ \A i \in 1 .. n : issued'[i] = issued[i]
        /\ issued'[n + 1] = new
    BY <2>1, <2>2, SeqAppend, SeqFacts
  <2>6. new.outcome = outcome
    OBVIOUS
  <2> HIDE DEF n, new
  <2>7. issued'[Len(issued')].outcome = outcome /\ issued' # << >>
    <3>1. Len(<< >>) = 0 /\ n + 1 # 0
      BY <2>5
    <3> QED BY <2>5, <2>6, <3>1
  <2>8. CASE outcome.kind = "return" /\ UNCHANGED <<exit_reason, engine_error, pc, emu_err>>
    <3>1. NothingEnded'
      <4>1. \A i \in 1 .. n + 1 : i \in 1 .. n \/ i = n + 1
        BY <2>5
      <4> QED BY <2>2, <2>5, <2>6, <2>8, <4>1 DEF NothingEnded, n
    <3> QED BY <2>1, <2>2, <2>3, <2>4, <2>5, <2>8, <3>1 DEF GuestInv
  <2>9. CASE /\ outcome.kind = "exit" /\ outcome \in GuestExits
             /\ exit_reason' = outcome /\ engine_error' = engine_error
             /\ pc' = "returned" /\ emu_err' = "OK"
    <3>1. EndingOf("OK", issued') = outcome
      BY <2>7, <2>9 DEF EndingOf, Cpu!FalloffErrors
    <3>2. outcome # Cpu!NoReason
      BY <2>9 DEF Cpu!NoReason
    <3>3. RunIsJudged'
      BY <2>9, <3>1, <3>2 DEF RunIsJudged, Cpu!Verdict, Endings, GuestExits
    <3> QED BY <2>1, <2>2, <2>3, <2>4, <2>5, <2>9, <3>3 DEF GuestInv
  <2>10. CASE /\ outcome.kind = "error"
              /\ engine_error' = TRUE /\ exit_reason' = exit_reason
              /\ pc' = "returned" /\ emu_err' = "OK"
    <3>1. EndingOf("OK", issued') = Cpu!ExecError
      BY <2>7, <2>10 DEF EndingOf, Cpu!FalloffErrors
    <3>2. exit_reason' = Cpu!NoReason
      BY <2>2, <2>10 DEF NothingEnded
    <3>3. RunIsJudged'
      BY <2>10, <3>1, <3>2 DEF RunIsJudged, Cpu!Verdict
    <3> QED BY <2>1, <2>2, <2>3, <2>4, <2>5, <2>10, <3>3 DEF GuestInv
  <2>11. CASE pc' = "aborted"
    BY <2>1, <2>2, <2>3, <2>4, <2>5, <2>11 DEF GuestInv
  <2> QED BY <2>1, <2>8, <2>9, <2>10, <2>11
<1> QED BY <1>1, <1>2, <1>3, <1>4, <1>5, RunMoves



-----------------------------------------------------------------------------
(* The two commands.                                                        *)

(* How far load_elf is where the set-up is: before it has ended nothing is  *)
(* refused, and behind it no code of it is left to report.                  *)
SetUpIsAhead ==
    /\ stage = "loading" => phase \in {"header", "phdrs"} /\ failure = "none"
    /\ stage \in {"engine", "segments", "stack", "frame", "ready"} => phase = "loaded"

InFront(bytes) == IF bytes = << >> THEN << >> ELSE <<GuestBytes(bytes)>>

(* What is on stdout when there is no more to come. *)
PrintedAtEnd ==
    \/ printed \in {<< >>, <<ErrorLine>>}
    \/ reply.kind = "segments" /\ printed = <<Description(reply)>>
    \/ /\ reply.kind = "dict"
       /\ printed \in {InFront(reply.output),
                       Append(InFront(reply.output), Json(reply)),
                       Append(InFront(reply.output), Summary(reply))}

CliInv ==
    /\ step \in {"start", "call", "core", "report", "done"}
    /\ limit \in Limits \cup {NoLimit} /\ timeout_ms \in Addresses
    /\ step \in {"start", "call"} => reply = Pending /\ runs = 0
    /\ pc \in {"running", "returned"} => step = "core" /\ reply = Pending
    /\ pc = "aborted" => step \in {"core", "done"} /\ reply = Pending
    /\ runs = 1 => stage = "ready"
    /\ runs = 1 /\ pc = "idle" =>
          reply = RunReply(EndingOf(emu_err, issued), output, trace)
    /\ runs = 0 => \/ reply \in Replies
                   \/ reply.kind = "segments" /\ reply.entry \in Addresses
    /\ step \in {"start", "call", "core"} => printed = << >>
    /\ step = "report" => reply.kind = "dict" /\ printed = InFront(reply.output)
    /\ step = "done" => PrintedAtEnd
    /\ status \in 0 .. 255 \cup {Killed, Unknown}
    /\ (status # Unknown) <=> (step = "done")

CommandInv == LayoutInv /\ GuestInv /\ SetUpIsAhead /\ CliInv

LEMMA LayoutKept == LayoutInv /\ [Next]_vars => LayoutInv'
BY CommandSteps, LayoutStep, GuestKeepsLayout DEF Still

(* A step of load_elf ends it, if it does, with a code or a panic. *)
LEMMA LoaderEnds ==
    ASSUME LoaderInv, LoaderNext, phase \in {"header", "phdrs"}
    PROVE  /\ phase' \in {"header", "phdrs", "loaded", "refused"}
           /\ phase' = "refused" => error' \in Codes \ {"none"}
<1>1. LoaderInv'
  BY LoaderStep
<1>2. phase' \in {"header", "phdrs", "loaded", "refused"} /\ error' \in Codes
  BY <1>1 DEF LoaderInv, LoaderTypeOK
<1>3. ASSUME phase' = "refused" PROVE error' # "none"
  <2>1. CASE CheckHeader
    <3> DEFINE failed == {i \in DOMAIN HeaderChecks : HeaderChecks[i] \in image.defects}
    <3>1. failed # {} /\ error' = HeaderChecks[Min(failed)]
      BY <1>3, <2>1 DEF CheckHeader, Refuse
    <3>2. failed \in SUBSET Nat
      BY DEF HeaderChecks
    <3>3. Min(failed) \in failed
      <4> HIDE DEF failed
      <4> QED BY <3>1, <3>2, MinIsLeast
    <3>4. Min(failed) \in DOMAIN HeaderChecks
      BY <3>3
    <3>5. \A i \in DOMAIN HeaderChecks : HeaderChecks[i] # "none"
      BY DEF HeaderChecks
    <3> QED BY <3>1, <3>4, <3>5
  <2>2. CASE SkipPhdr
    BY <1>3, <2>2 DEF SkipPhdr
  <2>3. CASE LoadPhdr
    BY <1>3, <2>3 DEF LoadPhdr, Refuse
  <2>4. CASE Finish
    BY <1>3, <2>4 DEF Finish, Refuse
  <2> QED BY <2>1, <2>2, <2>3, <2>4 DEF LoaderNext
<1> QED BY <1>2, <1>3

SetUpAction ==
    Load \/ NewVcpu \/ MapSegment \/ SegmentsMapped \/ MapStack \/ SetupInitialState

(* A step of the set-up goes on, or it ends what it set up with a panic,    *)
(* with the end of the process or with an error that has a code.            *)
LEMMA SetUpStep ==
    ASSUME LayoutInv, SetUpIsAhead, SetUpAction
    PROVE  /\ stage # "ready"
           /\ SetUpIsAhead'
           /\ stage' = "failed" =>
                 /\ SetupReply' \in Replies
                 /\ SetupReply'.kind \in {"ValueError", "PanicException", "gone"}
<1> DEFINE Good(r) == r \in Replies /\ r.kind \in {"ValueError", "PanicException", "gone"}
<1>1. /\ Good(PanicException) /\ Good(Gone)
      /\ \A c \in {"E001", "E002", "E003", "E004", "E005", "E006", "E007",
                   "E501", "E502", "E503"} : Good(ValueError(c))
  BY DEF Replies, PanicException, ValueError, Gone
<1> HIDE DEF Good
<1>2. ASSUME Load
      PROVE  SetUpIsAhead' /\ (stage' = "failed" => Good(SetupReply'))
  <2>1. /\ LoaderNext /\ phase \in {"header", "phdrs"} /\ LoaderInv
        /\ failure' = "none"
        /\ stage' = CASE phase' = "loaded"  -> "engine"
                      [] phase' = "refused" -> "failed"
                      [] OTHER              -> "loading"
    BY <1>2 DEF Load, SetUpIsAhead, LayoutInv
  <2>2. /\ phase' \in {"header", "phdrs", "loaded", "refused"}
        /\ phase' = "refused" => error' \in Codes \ {"none"}
    BY <2>1, LoaderEnds
  <2>3. SetUpIsAhead'
    BY <2>1, <2>2 DEF SetUpIsAhead
  <2>4. ASSUME stage' = "failed" PROVE Good(SetupReply')
    <3>1. phase' = "refused"
      BY <2>1, <2>2, <2>4
    <3>2. error' \in {"panic", "abort", "E001", "E002", "E003", "E004", "E005", "E006", "E007"}
      BY <2>2, <3>1 DEF Codes
    <3>3. SetupReply' = IF error' = "panic" THEN PanicException
                        ELSE IF error' = "abort" THEN Gone ELSE ValueError(error')
      BY <2>1, <3>1 DEF SetupReply
    <3> QED BY <1>1, <3>2, <3>3
  <2> QED BY <2>3, <2>4
<1>3. ASSUME stage \in {"engine", "segments", "stack", "frame"}, phase' = phase,
             stage' \in {"segments", "stack", "frame", "ready", "failed"},
             stage' = "failed" =>
                 failure' \in {"init", "overlap", "engine", "regop", "panic"}
      PROVE  SetUpIsAhead' /\ (stage' = "failed" => Good(SetupReply'))
  <2>1. phase' = "loaded"
    BY <1>3 DEF SetUpIsAhead
  <2>2. SetUpIsAhead'
    BY <1>3, <2>1 DEF SetUpIsAhead
  <2>3. ASSUME stage' = "failed" PROVE Good(SetupReply')
    <3>1. \/ SetupReply' \in {PanicException, Gone}
          \/ SetupReply' \in {ValueError("E501"), ValueError("E502"), ValueError("E503")}
      BY <1>3, <2>1, <2>3 DEF SetupReply
    <3> QED BY <1>1, <3>1
  <2> QED BY <2>2, <2>3
<1>4. ASSUME ~Load
      PROVE  /\ stage \in {"engine", "segments", "stack", "frame"} /\ phase' = phase
             /\ stage' \in {"segments", "stack", "frame", "ready", "failed"}
             /\ stage' = "failed" =>
                    failure' \in {"init", "overlap", "engine", "regop", "panic"}
  <2>1. CASE NewVcpu
    BY <2>1 DEF NewVcpu, loaderVars
  <2>2. CASE MapSegment
    BY <2>2, SegmentOutcomes DEF loaderVars, SegmentIsTorn
  <2>3. CASE SegmentsMapped
    BY <2>3 DEF SegmentsMapped, loaderVars
  <2>4. CASE MapStack
    BY <2>4, StackOutcomes DEF loaderVars
  <2>5. CASE SetupInitialState
    BY <2>5 DEF SetupInitialState, loaderVars
  <2> QED BY <1>4, <2>1, <2>2, <2>3, <2>4, <2>5 DEF SetUpAction
<1>5. stage # "ready"
  BY <1>4 DEF Load
<1>6. SetUpIsAhead' /\ (stage' = "failed" => Good(SetupReply'))
  BY <1>2, <1>3, <1>4
<1> QED BY <1>5, <1>6 DEF Good


(* What a reply is told by. *)
LEMMA ReplyKinds ==
    /\ \A r \in Replies :
          /\ r.kind \in {"pending", "gone", "OSError", "OverflowError", "PanicException",
                         "ValueError"}
          /\ (r.kind = "pending") <=> (r = Pending)
    /\ \A reason, wrote, records :
          \/ /\ reason = Cpu!ExecError
             /\ RunReply(reason, wrote, records) = ValueError("E504")
          \/ /\ reason # Cpu!ExecError
             /\ RunReply(reason, wrote, records).kind = "dict"
             /\ RunReply(reason, wrote, records).exit = reason
             /\ RunReply(reason, wrote, records).output = wrote
             /\ RunReply(reason, wrote, records).trace = records
    /\ ValueError("E504").kind = "ValueError" /\ ValueError("E504") \in Replies
    /\ Pending.kind = "pending" /\ Pending \in Replies
    /\ Gone.kind = "gone"
BY DEF Replies, Pending, Gone, OSError, OverflowError, PanicException, ValueError, RunReply

(* A dictionary holds what a guest left that has run. *)
LEMMA DictIsOfAGuest ==
    ASSUME GuestInv, CliInv, reply.kind = "dict"
    PROVE  /\ runs = 1 /\ pc = "idle"
           /\ reply.exit = EndingOf(emu_err, issued) /\ reply.exit \in Endings
           /\ reply.output = output /\ reply.trace = trace
<1>1. runs = 1
  <2>1. runs = 0 => reply \in Replies \/ reply.kind = "segments"
    BY DEF CliInv
  <2>2. \A r \in Replies : r.kind # "dict"
    BY ReplyKinds
  <2> QED BY <2>1, <2>2 DEF GuestInv
<1>2. pc = "idle"
  <2>1. pc \in {"running", "returned", "aborted"} => reply.kind = "pending"
    BY ReplyKinds DEF CliInv
  <2> QED BY <2>1 DEF GuestInv
<1>3. /\ reply = RunReply(EndingOf(emu_err, issued), output, trace)
      /\ EndingOf(emu_err, issued) \in Endings \cup {Cpu!ExecError}
  BY <1>1, <1>2 DEF CliInv, GuestInv, RunIsJudged
<1>4. EndingOf(emu_err, issued) # Cpu!ExecError
  BY <1>3, ReplyKinds
<1> QED BY <1>1, <1>2, <1>3, <1>4, ReplyKinds

(* The replies of a command whose guest has not run. *)
LEMMA NoGuestReplies ==
    ASSUME CliInv, GuestInv, runs = 0
    PROVE  /\ pc = "idle"
           /\ reply.kind \in {"pending", "gone", "OSError", "OverflowError",
                              "PanicException", "ValueError", "segments"}
           /\ (reply.kind = "pending") <=> (reply = Pending)
<1>1. reply \in Replies \/ reply.kind = "segments"
  BY DEF CliInv
<1>2. CASE reply \in Replies
  BY <1>2, ReplyKinds DEF GuestInv
<1>3. CASE reply.kind = "segments"
  BY <1>3, ReplyKinds DEF GuestInv
<1> QED BY <1>1, <1>2, <1>3

LEMMA ExitCodes ==
    \A e \in Endings : ExitCode(e) \in 0 .. 255
BY DEF Endings, ExitCode, Cpu!Falloff, Cpu!Stopped

(* While the guest runs the command waits. *)
LEMMA WaitingStep ==
    ASSUME GuestInv, CliInv, GuestInv', pc = "running",
           UNCHANGED <<cliVars, reply, timeout_ms, stage, runs>>,
           pc' \in {"running", "returned", "aborted"}
    PROVE  CliInv'
<1>1. step = "core" /\ reply = Pending /\ runs = 1
  BY DEF CliInv, GuestInv
<1> QED BY <1>1 DEF CliInv, cliVars

(* Every step of the commands keeps what they hold to. *)
LEMMA CliStep ==
    ASSUME LayoutInv, LayoutInv', GuestInv, GuestInv', SetUpIsAhead, CliInv, [Next]_vars
    PROVE  CliInv'
<1> DEFINE Steady == UNCHANGED <<stage, pc, runs, emu_err, issued, output, trace>>
<1>1. CASE ReadFile
  <2>1. /\ step = "start" /\ step' \in {"call", "core"} /\ Steady
        /\ reply' \in {reply, OSError} /\ (step' = "call" => reply' = reply)
        /\ UNCHANGED <<timeout_ms, limit, printed, status>>
    BY <1>1 DEF ReadFile, cpuVars, spaceVars
  <2>2. reply = Pending /\ runs = 0 /\ pc = "idle" /\ reply' \in Replies
    BY <2>1 DEF CliInv, GuestInv, Replies
  <2> QED BY <2>1, <2>2 DEF CliInv
<1>2. ASSUME NEW asked \in Limits, Call(asked) PROVE CliInv'
  <2>1. /\ step = "call" /\ step' = "core" /\ Steady
        /\ limit' \in Limits
        /\ reply' \in {reply, ValueError("NaN"), OverflowError}
        /\ timeout_ms' = timeout_ms \/ timeout_ms' \in Addresses
        /\ UNCHANGED <<printed, status>>
    BY <1>2 DEF Call, cpuVars, spaceVars
  <2>2. reply = Pending /\ runs = 0 /\ pc = "idle" /\ reply' \in Replies
    BY <2>1 DEF CliInv, GuestInv, Replies
  <2> QED BY <2>1, <2>2 DEF CliInv
<1>3. CASE InCore(SetUp)
  <2>1. /\ step = "core" /\ reply = Pending /\ UNCHANGED cliVars
        /\ SetUpAction
        /\ reply' = IF stage' = "failed" THEN SetupReply' ELSE Pending
        /\ UNCHANGED <<pc, runs, emu_err, issued, output, trace, timeout_ms>>
    BY <1>3 DEF InCore, SetUp, SetUpAction, cpuVars
  <2>2. /\ stage # "ready"
        /\ stage' = "failed" => SetupReply' \in Replies
    BY <2>1, SetUpStep
  <2>3. runs = 0 /\ pc = "idle"
    BY <2>2 DEF CliInv, GuestInv
  <2>4. reply' \in Replies
    BY <2>1, <2>2, ReplyKinds
  <2> QED BY <2>1, <2>3, <2>4 DEF CliInv, cliVars
<1>4. CASE InCore(Start)
  <2>1. /\ step = "core" /\ reply = Pending /\ UNCHANGED cliVars
        /\ stage = "ready" /\ stage' = stage
        /\ pc' = "running" /\ runs' = runs + 1 /\ runs = 0
        /\ UNCHANGED <<timeout_ms, reply>>
    BY <1>4 DEF InCore, Start, Cpu!RunStart, spaceVars, GuestInv
  <2> QED BY <2>1 DEF CliInv, cliVars
<1>5. CASE InCore(Return)
  <2>1. /\ step = "core" /\ UNCHANGED cliVars
        /\ pc = "returned" /\ pc' = "idle"
        /\ result' = Cpu!Verdict(emu_err, exit_reason, engine_error)
        /\ reply' = RunReply(result', output, trace)
        /\ UNCHANGED <<stage, runs, emu_err, issued, output, trace, timeout_ms>>
    BY <1>5 DEF InCore, Return, Cpu!RunReturn, Cpu!shared, Cpu!history, spaceVars
  <2>2. runs = 1 /\ RunIsJudged
    BY <2>1 DEF GuestInv
  <2>3. reply' = RunReply(EndingOf(emu_err, issued), output, trace)
    BY <2>1, <2>2 DEF RunIsJudged
  <2> QED BY <2>1, <2>2, <2>3 DEF CliInv, cliVars
<1>6. CASE InCore(Parse)
  <2>1. /\ step = "core" /\ reply = Pending /\ UNCHANGED cliVars
        /\ SetUpAction /\ stage' \in {"loading", "engine", "failed"}
        /\ \/ stage' = "failed" /\ reply' = SetupReply'
           \/ /\ reply' = [kind |-> "segments", entry |-> image.entry, segments |-> segments]
           \/ reply' = Pending
        /\ UNCHANGED <<pc, runs, emu_err, issued, output, trace, timeout_ms>>
    BY <1>6 DEF InCore, Parse, Load, SetUpAction, cpuVars
  <2>2. /\ stage # "ready"
        /\ stage' = "failed" => SetupReply' \in Replies
    BY <2>1, SetUpStep
  <2>3. runs = 0 /\ pc = "idle"
    BY <2>2 DEF CliInv, GuestInv
  <2>4. image.entry \in Addresses
    BY DEF LayoutInv, LoaderInv, LoaderTypeOK, ImageType
  <2>5. \/ reply' \in Replies
        \/ reply'.kind = "segments" /\ reply'.entry \in Addresses
    BY <2>1, <2>2, <2>4, ReplyKinds
  <2> QED BY <2>1, <2>3, <2>5 DEF CliInv, cliVars
<1>7. CASE Abort \/ Except
  <2>1. /\ step = "core" /\ step' = "done" /\ Steady
        /\ status' \in {Killed, 1, 2} /\ printed' \in {printed, Append(printed, ErrorLine)}
        /\ pc = "aborted" \/ reply.kind \in {"gone", "ValueError", "OSError",
                                              "OverflowError", "PanicException"}
        /\ UNCHANGED <<reply, timeout_ms, limit>>
    BY <1>7, ReplyKinds DEF Abort, Except, ExitWith, coreVars, cpuVars, spaceVars
  <2>2. printed' \in {<< >>, <<ErrorLine>>}
    <3>1. printed = << >>
      BY <2>1 DEF CliInv
    <3> QED BY <2>1, <3>1
  <2>3. pc \notin {"running", "returned"}
    BY <2>1, ReplyKinds DEF CliInv
  <2>4. status' \in 0 .. 255 \cup {Killed, Unknown} /\ status' # Unknown
    BY <2>1 DEF Killed, Unknown
  <2> QED BY <2>1, <2>2, <2>3, <2>4 DEF CliInv, PrintedAtEnd
<1>8. CASE PrintOutput
  <2>1. /\ step = "core" /\ step' = "report" /\ Steady
        /\ reply.kind = "dict"
        /\ printed' = IF reply.output = << >> THEN printed
                      ELSE Append(printed, GuestBytes(reply.output))
        /\ UNCHANGED <<reply, timeout_ms, limit, status>>
    BY <1>8 DEF PrintOutput, coreVars, cpuVars, spaceVars
  <2>2. runs = 1 /\ pc = "idle"
    BY <2>1, DictIsOfAGuest
  <2>3. printed' = InFront(reply.output)
    <3>1. printed = << >>
      BY <2>1 DEF CliInv
    <3> QED BY <2>1, <3>1 DEF InFront
  <2> QED BY <2>1, <2>2, <2>3 DEF CliInv
<1>9. CASE Report
  <2>1. /\ step = "report" /\ step' = "done" /\ Steady
        /\ printed' \in {printed, Append(printed, Json(reply)), Append(printed, Summary(reply))}
        /\ status' = ExitCode(reply.exit)
        /\ UNCHANGED <<reply, timeout_ms, limit>>
    BY <1>9 DEF Report, ExitWith, coreVars, cpuVars, spaceVars
  <2>2. reply.kind = "dict" /\ printed = InFront(reply.output)
    BY <2>1 DEF CliInv
  <2>3. runs = 1 /\ pc = "idle" /\ reply.exit \in Endings
    BY <2>2, DictIsOfAGuest
  <2>4. status' \in 0 .. 255
    BY <2>1, <2>3, ExitCodes
  <2>5. status' \in 0 .. 255 \cup {Killed, Unknown} /\ status' # Unknown
    BY <2>4 DEF Unknown
  <2>6. PrintedAtEnd'
    BY <2>1, <2>2 DEF PrintedAtEnd
  <2> QED BY <2>1, <2>3, <2>5, <2>6 DEF CliInv
<1>10. CASE PrintImage
  <2>1. /\ step = "core" /\ step' = "done" /\ Steady
        /\ reply.kind = "segments"
        /\ printed' = Append(printed, Description(reply)) /\ status' = 0
        /\ UNCHANGED <<reply, timeout_ms, limit>>
    BY <1>10 DEF PrintImage, ExitWith, coreVars, cpuVars, spaceVars
  <2>2. printed' = <<Description(reply)>>
    <3>1. printed = << >>
      BY <2>1 DEF CliInv
    <3> QED BY <2>1, <3>1
  <2>3. pc \notin {"running", "returned", "aborted"}
    BY <2>1, ReplyKinds DEF CliInv
  <2>4. status' \in 0 .. 255 \cup {Killed, Unknown} /\ status' # Unknown
    BY <2>1 DEF Unknown
  <2> QED BY <2>1, <2>2, <2>3, <2>4 DEF CliInv, PrintedAtEnd
<1>11. CASE InCore(Guest) \/ InCore(Tick) \/ InCore(TimerFires) \/ InCore(EngineStops)
  <2>1. /\ pc = "running" /\ pc' \in {"running", "returned", "aborted"}
        /\ UNCHANGED <<cliVars, reply, timeout_ms, stage, runs>>
    <3>1. CASE Guest
      <4>1. UNCHANGED <<reply, timeout_ms, stage>>
        BY <3>1 DEF Guest, Unmoved
      <4>2. ASSUME NEW addr, NEW byte, Store(addr, byte)
            PROVE  pc = "running" /\ pc' = "running" /\ runs' = runs
        BY <4>2 DEF Store, Cpu!GuestStore, Cpu!engine, Cpu!history
      <4>3. ASSUME NEW err, Cpu!GuestFault(err)
            PROVE  pc = "running" /\ pc' = "returned" /\ runs' = runs
        BY <4>3 DEF Cpu!GuestFault, Cpu!EmuReturns, Cpu!history
      <4>4. ASSUME Cpu!GuestReachesUntil
            PROVE  pc = "running" /\ pc' = "returned" /\ runs' = runs
        BY <4>4 DEF Cpu!GuestReachesUntil, Cpu!EmuReturns, Cpu!history
      <4>5. ASSUME NEW regs \in Requests, Cpu!Syscall(regs)
            PROVE  pc = "running" /\ pc' \in {"running", "returned", "aborted"} /\ runs' = runs
        BY <4>5, SyscallMoves
      <4> QED BY <1>11, <3>1, <4>1, <4>2, <4>3, <4>4, <4>5
              DEF Guest, InCore, Tick, TimerFires, EngineStops, Cpu!Tick, Cpu!TimerFires,
                  Cpu!EngineStops
    <3>2. CASE Tick \/ TimerFires \/ EngineStops
      BY <1>11, <3>2 DEF InCore, Tick, TimerFires, EngineStops, Cpu!Tick, Cpu!TimerFires,
              Cpu!EngineStops, Cpu!EmuReturns, Cpu!history, Unmoved
    <3> QED BY <1>11, <3>1, <3>2 DEF InCore
  <2> QED BY <2>1, WaitingStep
<1>12. CASE UNCHANGED vars
  BY <1>12 DEF vars, coreVars, cliVars, cpuVars, spaceVars, CliInv, PrintedAtEnd
<1> QED BY <1>1, <1>2, <1>3, <1>4, <1>5, <1>6, <1>7, <1>8, <1>9, <1>10, <1>11, <1>12
        DEF Next, Host, RunElfHost, InCore


LEMMA AheadStep ==
    ASSUME LayoutInv, SetUpIsAhead, [Next]_vars
    PROVE  SetUpIsAhead'
<1>1. CASE SetUp \/ Parse
  <2>1. SetUpAction
    BY <1>1 DEF SetUp, Parse, SetUpAction
  <2> QED BY <2>1, SetUpStep
<1>2. CASE UNCHANGED <<stage, phase, failure>>
  BY <1>2 DEF SetUpIsAhead
<1>3. CASE ReadFile \/ Abort \/ Except \/ PrintOutput \/ Report \/ PrintImage
  BY <1>2, <1>3 DEF ReadFile, Abort, Except, PrintOutput, Report, PrintImage,
                    coreVars, spaceVars, loaderVars
<1>4. ASSUME NEW asked \in Limits, Call(asked) PROVE SetUpIsAhead'
  BY <1>2, <1>4 DEF Call, spaceVars, loaderVars
<1>5. CASE Start \/ Return
  BY <1>2, <1>5 DEF Start, Return, spaceVars, loaderVars
<1>6. CASE Guest \/ Tick \/ TimerFires \/ EngineStops
  BY <1>2, <1>6 DEF Guest, Tick, TimerFires, EngineStops, Unmoved, loaderVars
<1>7. CASE UNCHANGED vars
  BY <1>2, <1>7 DEF vars, coreVars, spaceVars, loaderVars
<1> QED BY <1>1, <1>3, <1>4, <1>5, <1>6, <1>7 DEF Next, Host, RunElfHost, InCore

LEMMA CommandStart == Init => CommandInv
<1> SUFFICES ASSUME Init PROVE CommandInv
  OBVIOUS
<1>1. LayoutInv
  BY LayoutStart DEF Init, RunElfInit, SpaceInit
<1>2. SetUpIsAhead
  BY DEF Init, RunElfInit, SpaceInit, LoaderInit, SetUpIsAhead
<1>3. /\ pc = "idle" /\ runs = 0 /\ reply = Pending /\ output = << >>
      /\ trace = << >> /\ issued = << >> /\ NothingEnded
  BY DEF Init, RunElfInit, Cpu!New, NothingEnded
<1>4. IsSeq(<< >>) /\ Len(<< >>) = 0 /\ Accounted(<< >>) = 0
  <2>1. << >> \in Seq({})
    OBVIOUS
  <2>2. IsSeq(<< >>)
    BY <2>1 DEF IsSeq
  <2> QED BY <2>2, AccountedAppend
<1>5. GuestInv
  BY <1>3, <1>4 DEF GuestInv
<1>6. CliInv
  <2>1. timeout_ms \in Addresses
    BY RegionsAssumption DEF Init, RunElfInit, Addresses
  <2> QED BY <1>3, <2>1, ReplyKinds DEF Init, CliInv
<1> QED BY <1>1, <1>2, <1>5, <1>6 DEF CommandInv

LEMMA CommandStep == CommandInv /\ [Next]_vars => CommandInv'
<1> SUFFICES ASSUME CommandInv, [Next]_vars PROVE CommandInv'
  OBVIOUS
<1>1. LayoutInv /\ LayoutInv' /\ GuestInv /\ GuestInv' /\ SetUpIsAhead /\ CliInv
  BY LayoutKept, GuestStep DEF CommandInv
<1>2. CliInv'
  BY <1>1, CliStep
<1>3. SetUpIsAhead'
  BY <1>1, AheadStep
<1> QED BY <1>1, <1>2, <1>3 DEF CommandInv

LEMMA CommandInvariant == Spec => []CommandInv
BY CommandStart, CommandStep, PTL DEF Spec

(* Every variable of the commands keeps its type: in particular, what a     *)
(* dictionary calls an ending is one.                                       *)
THEOREM CommandTypeCorrect == Spec => []TypeOK
<1>1. CommandInv => TypeOK
  <2> SUFFICES ASSUME CommandInv PROVE TypeOK
    OBVIOUS
  <2> USE DEF CommandInv
  <2>1. \/ reply \in Replies
        \/ reply.kind = "dict" /\ reply.exit \in Endings
        \/ reply.kind = "segments" /\ reply.entry \in Addresses
    <3>1. CASE runs = 0
      BY <3>1 DEF CliInv
    <3>2. CASE pc \in {"running", "returned", "aborted"}
      BY <3>2, ReplyKinds DEF CliInv
    <3>3. CASE runs = 1 /\ pc = "idle"
      <4>1. /\ reply = RunReply(EndingOf(emu_err, issued), output, trace)
            /\ EndingOf(emu_err, issued) \in Endings \cup {Cpu!ExecError}
        BY <3>3 DEF CliInv, GuestInv, RunIsJudged
      <4> QED BY <4>1, ReplyKinds
    <3> QED BY <3>1, <3>2, <3>3 DEF GuestInv
  <2>2. Len(printed) <= 2
    <3>1. \A bytes : Len(InFront(bytes)) <= 1 /\ IsSeq(InFront(bytes))
      <4> TAKE bytes
      <4>1. CASE bytes = << >>
        <5>1. InFront(bytes) = << >> /\ << >> \in Seq({}) /\ Len(<< >>) <= 1
          BY <4>1 DEF InFront
        <5> QED BY <5>1 DEF IsSeq
      <4>2. CASE bytes # << >>
        <5> DEFINE g == GuestBytes(bytes)
        <5>1. InFront(bytes) = <<g>>
          BY <4>2 DEF InFront
        <5> HIDE DEF g
        <5>2. <<g>> \in Seq({g}) /\ Len(<<g>>) <= 1
          OBVIOUS
        <5> QED BY <5>1, <5>2 DEF IsSeq
      <4> QED BY <4>1, <4>2
    <3>2. \A bytes, item : Len(Append(InFront(bytes), item)) <= 2
      BY <3>1, SeqAppend, SeqFacts
    <3>3. \A item : Len(<<item>>) <= 2 /\ Len(<< >>) <= 2
      OBVIOUS
    <3>4. \/ printed = << >> \/ \E item : printed = <<item>>
          \/ \E bytes : printed = InFront(bytes)
          \/ \E bytes, item : printed = Append(InFront(bytes), item)
      BY DEF CliInv, PrintedAtEnd
    <3>5. \A bytes : Len(InFront(bytes)) <= 2
      BY <3>1, SeqFacts
    <3> QED BY <3>2, <3>3, <3>4, <3>5
  <2> QED BY <2>1, <2>2 DEF CliInv, TypeOK
<1> QED BY <1>1, CommandInvariant, PTL


-----------------------------------------------------------------------------
(* The reports.                                                             *)

LEMMA AppendShort ==
    /\ \A a : Append(<< >>, a) = <<a>>
    /\ \A g, a : Append(<<g>>, a) = <<g, a>>
<1>1. ASSUME NEW a PROVE Append(<< >>, a) = <<a>>
  OBVIOUS
<1>2. ASSUME NEW g, NEW a PROVE Append(<<g>>, a) = <<g, a>>
  <2> DEFINE s == <<g>>
             t == Append(s, a)
             u == <<g, a>>
  <2>1. s \in Seq({g, a}) /\ Len(s) = 1 /\ s[1] = g
    OBVIOUS
  <2> HIDE DEF s
  <2>2. /\ t \in Seq({g, a}) /\ Len(t) = 2 /\ t[1] = g /\ t[2] = a
    <3>1. IsSeq(s) /\ 1 \in 1 .. Len(s)
      BY <2>1 DEF IsSeq
    <3>2. /\ Len(t) = Len(s) + 1 /\ t[Len(s) + 1] = a
          /\ \A i \in 1 .. Len(s) : t[i] = s[i]
      BY <3>1, SeqAppend
    <3>3. t \in Seq({g, a})
      BY <2>1
    <3> HIDE DEF t
    <3> QED BY <2>1, <3>1, <3>2, <3>3
  <2>3. u \in Seq({g, a}) /\ Len(u) = 2 /\ u[1] = g /\ u[2] = a
    OBVIOUS
  <2> HIDE DEF t, u
  <2>4. \A i \in 1 .. 2 : t[i] = u[i]
    <3>1. \A i \in 1 .. 2 : i = 1 \/ i = 2
      OBVIOUS
    <3> QED BY <2>2, <2>3, <3>1
  <2>5. t = u
    BY <2>2, <2>3, <2>4
  <2> QED BY <2>5 DEF s, t, u
<1> QED BY <1>1, <1>2

(* What stands in front of a report, and what a report then shows and says. *)
LEMMA FrontShows ==
    ASSUME NEW bytes, IsSeq(bytes)
    PROVE  /\ ShownIn(InFront(bytes)) = bytes /\ NoteIn(InFront(bytes)) = NoEnding
           /\ \A item : item.kind \in {"json", "summary"} =>
                 /\ ShownIn(Append(InFront(bytes), item)) = bytes
                 /\ NoteIn(Append(InFront(bytes), item)) = item.exit
           /\ \/ InFront(bytes) = << >>
              \/ bytes # << >> /\ InFront(bytes) = <<GuestBytes(bytes)>>
<1>1. /\ bytes \o << >> = bytes /\ << >> \o bytes = bytes
  BY SeqFacts
<1>2. /\ GuestBytes(bytes).kind = "guest" /\ PartOf(GuestBytes(bytes)) = bytes
      /\ \A item : item.kind \in {"json", "summary"} =>
            item.kind # "guest" /\ PartOf(item) = << >> /\ ToldBy(item) = item.exit
  BY DEF GuestBytes, PartOf, ToldBy
<1>3. CASE bytes = << >>
  <2>1. InFront(bytes) = << >> /\ \A item : Append(InFront(bytes), item) = <<item>>
    BY <1>3 DEF InFront
  <2>2. ShownIn(<< >>) = bytes /\ NoteIn(<< >>) = NoEnding
    BY <1>3, ShownOf, NoteOf
  <2>3. ASSUME NEW item, item.kind \in {"json", "summary"}
        PROVE  ShownIn(<<item>>) = bytes /\ NoteIn(<<item>>) = item.exit
    <3>1. ShownIn(<<item>>) = PartOf(item)
      BY ShownOf
    <3>2. NoteIn(<<item>>) = ToldBy(item)
      BY <1>2, <2>3, NoteOf
    <3> QED BY <1>2, <1>3, <2>3, <3>1, <3>2
  <2> QED BY <2>1, <2>2, <2>3
<1>4. CASE bytes # << >>
  <2> DEFINE g == GuestBytes(bytes)
  <2>1. InFront(bytes) = <<g>>
    BY <1>4 DEF InFront
  <2> HIDE DEF g
  <2>2. \A item : Append(InFront(bytes), item) = <<g, item>>
    <3> TAKE item
    <3>1. Append(<<g>>, item) = <<g, item>>
      BY AppendShort
    <3> QED BY <2>1, <3>1
  <2>3. g.kind = "guest" /\ PartOf(g) = bytes
    BY <1>2 DEF g
  <2>4. ShownIn(<<g>>) = bytes /\ NoteIn(<<g>>) = NoEnding
    BY <2>3, ShownOf, NoteOf
  <2>5. ASSUME NEW item, item.kind \in {"json", "summary"}
        PROVE  ShownIn(<<g, item>>) = bytes /\ NoteIn(<<g, item>>) = item.exit
    <3>1. ShownIn(<<g, item>>) = PartOf(g) \o PartOf(item)
      BY ShownOf
    <3>2. NoteIn(<<g, item>>) = ToldBy(item)
      BY <1>2, <2>3, <2>5, NoteOf
    <3>3. PartOf(item) = << >> /\ ToldBy(item) = item.exit
      BY <1>2, <2>5
    <3>4. ShownIn(<<g, item>>) = bytes \o << >>
      BY <2>3, <3>1, <3>3
    <3>5. ShownIn(<<g, item>>) = bytes
      BY <1>1, <3>4
    <3> QED BY <3>2, <3>3, <3>5
  <2>6. /\ \A item : item.kind \in {"json", "summary"} =>
                 /\ ShownIn(Append(InFront(bytes), item)) = bytes
                 /\ NoteIn(Append(InFront(bytes), item)) = item.exit
        /\ ShownIn(InFront(bytes)) = bytes /\ NoteIn(InFront(bytes)) = NoEnding
    <3>1. ASSUME NEW item, item.kind \in {"json", "summary"}
          PROVE  /\ ShownIn(Append(InFront(bytes), item)) = bytes
                 /\ NoteIn(Append(InFront(bytes), item)) = item.exit
      <4>1. Append(InFront(bytes), item) = <<g, item>>
        BY <2>2
      <4>2. ShownIn(<<g, item>>) = bytes /\ NoteIn(<<g, item>>) = item.exit
        BY <2>5, <3>1
      <4> QED BY <4>1, <4>2
    <3>2. ShownIn(InFront(bytes)) = bytes /\ NoteIn(InFront(bytes)) = NoEnding
      BY <2>1, <2>4
    <3> QED BY <3>1, <3>2
  <2> QED BY <1>4, <2>1, <2>6 DEF g
<1> QED BY <1>3, <1>4

(* Which lists of items are whole. *)
WholeList(items) ==
    \A i \in DOMAIN items :
        LET item == items[i]
        IN  /\ item.kind = "guest" => i = 1 /\ item.bytes # << >>
            /\ item.kind = "error" => items = <<item>>
            /\ item.kind \in {"json", "summary"} =>
                  i = Len(items) /\ Len(ShownIn(items)) = Accounted(item.trace)

LEMMA WholeLists ==
    /\ WholeList(<< >>)
    /\ \A a : a.kind \in {"error", "image"} => WholeList(<<a>>)
    /\ \A bytes, a :
          IsSeq(bytes) => /\ WholeList(InFront(bytes))
                          /\ a.kind \in {"json", "summary"}
                                /\ Len(bytes) = Accounted(a.trace) =>
                                     WholeList(Append(InFront(bytes), a))
<1>1. WholeList(<< >>)
  BY DEF WholeList
<1>2. ASSUME NEW a, a.kind \in {"error", "image"} PROVE WholeList(<<a>>)
  BY <1>2 DEF WholeList
<1>3. ASSUME NEW bytes, IsSeq(bytes) PROVE WholeList(InFront(bytes))
  <2>1. CASE InFront(bytes) = << >>
    BY <1>1, <2>1
  <2>2. CASE bytes # << >> /\ InFront(bytes) = <<GuestBytes(bytes)>>
    <3> DEFINE g == GuestBytes(bytes)
    <3>1. g.kind = "guest" /\ g.bytes = bytes
      BY DEF GuestBytes
    <3> HIDE DEF g
    <3>2. WholeList(<<g>>)
      BY <2>2, <3>1 DEF WholeList
    <3> QED BY <2>2, <3>2 DEF g
  <2> QED BY <1>3, <2>1, <2>2, FrontShows
<1>4. ASSUME NEW bytes, IsSeq(bytes), NEW a, a.kind \in {"json", "summary"},
             Len(bytes) = Accounted(a.trace)
      PROVE  WholeList(Append(InFront(bytes), a))
  <2> DEFINE items == Append(InFront(bytes), a)
  <2>1. ShownIn(items) = bytes
    BY <1>4, FrontShows
  <2>2. \/ items = <<a>>
        \/ bytes # << >> /\ items = <<GuestBytes(bytes), a>>
    <3>1. \/ InFront(bytes) = << >>
          \/ bytes # << >> /\ InFront(bytes) = <<GuestBytes(bytes)>>
      BY <1>4, FrontShows
    <3>2. /\ Append(<< >>, a) = <<a>>
          /\ Append(<<GuestBytes(bytes)>>, a) = <<GuestBytes(bytes), a>>
      BY AppendShort
    <3>3. CASE InFront(bytes) = << >>
      BY <3>2, <3>3
    <3>4. CASE bytes # << >> /\ InFront(bytes) = <<GuestBytes(bytes)>>
      <4> DEFINE f == InFront(bytes)
                 u == <<GuestBytes(bytes)>>
                 v == <<GuestBytes(bytes), a>>
      <4>1. f = u /\ Append(u, a) = v
        BY <3>2, <3>4
      <4> HIDE DEF f, u, v
      <4>2. Append(f, a) = v
        BY <4>1
      <4> QED BY <3>4, <4>2 DEF f, v
    <3> QED BY <3>1, <3>3, <3>4
  <2> HIDE DEF items
  <2>3. CASE items = <<a>>
    <3>1. DOMAIN items = {1} /\ items[1] = a /\ Len(items) = 1
      BY <2>3
    <3> QED BY <1>4, <2>1, <3>1 DEF WholeList, items
  <2>4. CASE bytes # << >> /\ items = <<GuestBytes(bytes), a>>
    <3> DEFINE g == GuestBytes(bytes)
    <3>1. g.kind = "guest" /\ g.bytes = bytes
      BY DEF GuestBytes
    <3> HIDE DEF g
    <3>2. items = <<g, a>>
      BY <2>4 DEF g
    <3>3. DOMAIN items = {1, 2} /\ items[1] = g /\ items[2] = a /\ Len(items) = 2
      BY <3>2
    <3>4. WholeList(items)
      BY <1>4, <2>1, <2>4, <3>1, <3>3 DEF WholeList
    <3> QED BY <3>4 DEF items
  <2> QED BY <2>2, <2>3, <2>4
<1> QED BY <1>1, <1>2, <1>3, <1>4

(* Every report has the guest's bytes in front of it, all of them, and its  *)
(* trace accounts for each; an error stands alone.                          *)
THEOREM ReportsAreWhole == Spec => []ReportIsWhole
<1>1. CommandInv => ReportIsWhole
  <2> SUFFICES ASSUME CommandInv PROVE ReportIsWhole
    OBVIOUS
  <2>1. GuestInv /\ CliInv
    BY DEF CommandInv
  <2>2. IsSeq(output) /\ Len(output) = Accounted(trace)
    BY <2>1 DEF GuestInv
  <2>3. CASE printed \in {<< >>, <<ErrorLine>>, <<Description(reply)>>}
    <3>1. ErrorLine.kind = "error" /\ Description(reply).kind = "image"
      BY DEF ErrorLine, Description
    <3>2. WholeList(<< >>) /\ WholeList(<<ErrorLine>>) /\ WholeList(<<Description(reply)>>)
      BY <3>1, WholeLists
    <3>3. WholeList(printed)
      BY <2>3, <3>2
    <3> QED BY <3>3, ShownIt DEF WholeList, ReportIsWhole
  <2>4. CASE /\ reply.kind = "dict"
             /\ printed \in {InFront(reply.output),
                             Append(InFront(reply.output), Json(reply)),
                             Append(InFront(reply.output), Summary(reply))}
    <3>1. reply.output = output /\ reply.trace = trace
      BY <2>1, <2>4, DictIsOfAGuest
    <3>2. /\ Json(reply).kind = "json" /\ Json(reply).trace = trace
          /\ Summary(reply).kind = "summary" /\ Summary(reply).trace = trace
      BY <3>1 DEF Json, Summary
    <3>3. /\ WholeList(InFront(output))
          /\ WholeList(Append(InFront(output), Json(reply)))
          /\ WholeList(Append(InFront(output), Summary(reply)))
      BY <2>2, <3>2, WholeLists
    <3>4. WholeList(printed)
      BY <2>4, <3>1, <3>3
    <3> QED BY <3>4, ShownIt DEF WholeList, ReportIsWhole
  <2> QED BY <2>1, <2>3, <2>4 DEF CliInv, PrintedAtEnd
<1> QED BY <1>1, CommandInvariant, PTL


-----------------------------------------------------------------------------
(* The commands are what GuestCommand promises.                             *)

PhaseOf(at, p, r) ==
    CASE at = "done"   -> "over"
      [] p = "running" -> "live"
      [] at # "done" /\ p # "running" ->
            IF r # Pending \/ p \in {"returned", "aborted"} THEN "ended" ELSE "pending"

EndingAt(p, n, err, calls, r) ==
    CASE p = "aborted" -> Cpu!Panic
      [] p = "running" -> NoEnding
      [] p \in {"returned", "idle"} /\ n = 1 -> EndingOf(err, calls)
      [] OTHER -> CASE r.kind = "pending"  -> NoEnding
                    [] r.kind = "gone"     -> Cpu!Panic
                    [] r.kind = "segments" -> NoGuest("described")
                    [] r.kind \in {"ValueError", "OSError"} -> NoGuest("refused")
                    [] r.kind \in {"OverflowError", "PanicException"} -> NoGuest("crashed")

LEMMA AbstractIt ==
    /\ AbstractPhase = PhaseOf(step, pc, reply)
    /\ AbstractPhase' = PhaseOf(step', pc', reply')
    /\ AbstractEnding = EndingAt(pc, runs, emu_err, issued, reply)
    /\ AbstractEnding' = EndingAt(pc', runs', emu_err', issued', reply')
BY DEF AbstractPhase, PhaseOf, AbstractEnding, EndingAt, GuestEnding, EndingOf

LEMMA PhaseFacts ==
    \A at, p, r :
        /\ at = "done" /\ p # "running" => PhaseOf(at, p, r) = "over"
        /\ at # "done" /\ p = "running" => PhaseOf(at, p, r) = "live"
        /\ at # "done" /\ p \in {"returned", "aborted"} => PhaseOf(at, p, r) = "ended"
        /\ at # "done" /\ p = "idle" /\ r # Pending => PhaseOf(at, p, r) = "ended"
        /\ at # "done" /\ p = "idle" /\ r = Pending => PhaseOf(at, p, r) = "pending"
BY DEF PhaseOf

LEMMA EndingFacts ==
    \A p, n, err, calls, r :
        /\ p = "aborted" => EndingAt(p, n, err, calls, r) = Cpu!Panic
        /\ p = "running" => EndingAt(p, n, err, calls, r) = NoEnding
        /\ p \in {"returned", "idle"} /\ n = 1 =>
              EndingAt(p, n, err, calls, r) = EndingOf(err, calls)
        /\ p = "idle" /\ n = 0 =>
              /\ r.kind = "pending" => EndingAt(p, n, err, calls, r) = NoEnding
              /\ r.kind = "gone" => EndingAt(p, n, err, calls, r) = Cpu!Panic
              /\ r.kind = "segments" =>
                    EndingAt(p, n, err, calls, r) = NoGuest("described")
              /\ r.kind \in {"ValueError", "OSError"} =>
                    EndingAt(p, n, err, calls, r) = NoGuest("refused")
              /\ r.kind \in {"OverflowError", "PanicException"} =>
                    EndingAt(p, n, err, calls, r) = NoGuest("crashed")
BY DEF EndingAt

(* A step of the abstract command, or none. *)
Promised == [Command!Next]_(Command!vars)

LEMMA StutterIs ==
    ASSUME AbstractPhase' = AbstractPhase, AbstractEnding' = AbstractEnding,
           UNCHANGED <<output, printed, status>>
    PROVE  Promised
<1>1. Shown' = Shown /\ Note' = Note
  BY ShownIt
<1> QED BY <1>1 DEF Promised, Command!vars

(* Before there is a guest: the command goes on, or it has its reply. *)
LEMMA BeforeTheGuest ==
    ASSUME CliInv, GuestInv, CliInv', GuestInv', runs = 0, runs' = 0, reply = Pending,
           step # "done", step' # "done", reply'.kind # "dict",
           UNCHANGED <<emu_err, issued, output, printed, status>>
    PROVE  Promised
<1>1. /\ pc = "idle" /\ pc' = "idle"
      /\ reply'.kind \in {"pending", "gone", "OSError", "OverflowError",
                          "PanicException", "ValueError", "segments"}
      /\ (reply'.kind = "pending") <=> (reply' = Pending)
  <2>1. /\ runs' = 0 => \/ reply' \in Replies
                        \/ reply'.kind = "segments" /\ reply'.entry \in Addresses
        /\ runs = 0 => pc = "idle"
        /\ runs' = 0 => pc' = "idle"
    BY DEF CliInv, GuestInv
  <2>2. CASE reply' \in Replies
    BY <2>1, <2>2, ReplyKinds
  <2>3. CASE reply'.kind = "segments"
    BY <2>1, <2>3, ReplyKinds
  <2> QED BY <2>1, <2>2, <2>3
<1>2. AbstractPhase = "pending" /\ AbstractEnding = NoEnding
  BY <1>1, AbstractIt, PhaseFacts, EndingFacts, ReplyKinds
<1>3. CASE reply' = Pending
  <2>1. AbstractPhase' = "pending" /\ AbstractEnding' = NoEnding
    BY <1>1, <1>3, AbstractIt, PhaseFacts, EndingFacts, ReplyKinds
  <2> QED BY <1>2, <2>1, StutterIs
<1>4. CASE reply' # Pending
  <2>1. AbstractPhase' = "ended"
    BY <1>1, <1>4, AbstractIt, PhaseFacts
  <2>2. AbstractEnding' \in {NoGuest("refused"), NoGuest("crashed"), NoGuest("described"),
                             Cpu!Panic}
    BY <1>1, <1>4, AbstractIt, EndingFacts
  <2>3. Shown' = Shown /\ Note' = Note
    BY ShownIt
  <2> QED BY <1>2, <2>1, <2>2, <2>3 DEF Promised, Command!Next, Command!Finish
<1> QED BY <1>3, <1>4

(* The guest ends, or is ended. *)
LEMMA GuestFinishes ==
    ASSUME CliInv, pc = "running", runs = 1, runs' = 1, step' = step, reply' = reply,
           \/ pc' = "returned" /\ RunIsJudged'
           \/ pc' = "aborted",
           UNCHANGED <<output, printed, status>>
    PROVE  Promised
<1>1. step # "done"
  BY DEF CliInv
<1>2. AbstractPhase = "live" /\ AbstractPhase' = "ended"
  BY <1>1, AbstractIt, PhaseFacts
<1>3. AbstractEnding' \in Endings \cup {Cpu!ExecError, Cpu!Panic}
  <2>1. CASE pc' = "returned" /\ RunIsJudged'
    <3>1. AbstractEnding' = EndingOf(emu_err', issued')
      BY <2>1, AbstractIt, EndingFacts
    <3>2. EndingOf(emu_err', issued') \in Endings \cup {Cpu!ExecError}
      BY <2>1 DEF RunIsJudged
    <3> QED BY <3>1, <3>2
  <2>2. CASE pc' = "aborted"
    BY <2>2, AbstractIt, EndingFacts
  <2> QED BY <2>1, <2>2
<1>4. Shown' = Shown /\ Note' = Note
  BY ShownIt
<1> QED BY <1>2, <1>3, <1>4 DEF Promised, Command!Next, Command!Finish, Endings

(* A syscall writes, or it ends the run and writes nothing. *)
LEMMA SyscallIsPromised ==
    ASSUME CliInv, GuestInv, GuestInv', NEW regs \in Requests, Cpu!Syscall(regs),
           UNCHANGED <<step, reply, printed, status>>
    PROVE  Promised
<1>1. PICK outcome, data, row :
              /\ IsSeq(data) /\ (outcome.kind # "return" => Len(data) = 0)
              /\ output' = output \o data
              /\ pc = "running" /\ runs' = runs
              /\ \/ /\ outcome.kind = "return"
                    /\ UNCHANGED <<exit_reason, engine_error, pc, emu_err>>
                 \/ outcome.kind = "exit" /\ pc' = "returned"
                 \/ outcome.kind = "error" /\ pc' = "returned"
                 \/ pc' = "aborted" /\ outcome.kind # "return"
  BY SyscallMoves
<1>2. IsSeq(output) /\ runs = 1 /\ step # "done"
  BY <1>1 DEF GuestInv, CliInv
<1>3. /\ Len(output) <= Len(output') /\ SubSeq(output', 1, Len(output)) = output
      /\ Len(data) = 0 => output' = output
  BY <1>1, <1>2, SeqJoin
<1>4. CASE pc' = pc
  <2>1. AbstractPhase = "live" /\ AbstractPhase' = "live" /\ AbstractEnding' = AbstractEnding
    <3>1. pc = "running" /\ pc' = "running" /\ step # "done" /\ step' # "done"
      BY <1>1, <1>2, <1>4
    <3>2. AbstractPhase = "live" /\ AbstractPhase' = "live"
      BY <3>1, AbstractIt, PhaseFacts
    <3>3. AbstractEnding = NoEnding /\ AbstractEnding' = NoEnding
      BY <3>1, AbstractIt, EndingFacts
    <3> QED BY <3>2, <3>3
  <2>2. Shown' = Shown /\ Note' = Note
    BY ShownIt
  <2> QED BY <1>3, <2>1, <2>2 DEF Promised, Command!Next, Command!Write
<1>5. CASE pc' \in {"returned", "aborted"} /\ outcome.kind # "return"
  <2>1. pc' = "returned" => RunIsJudged'
    BY <1>1, <1>2 DEF GuestInv
  <2> QED BY <1>1, <1>2, <1>3, <1>5, <2>1, GuestFinishes
<1> QED BY <1>1, <1>4, <1>5

(* The guest's end is told as it was. *)
LEMMA ReportIsPromised ==
    ASSUME GuestInv, CliInv, PrintOutput \/ Report
    PROVE  Promised
<1> DEFINE e == EndingOf(emu_err, issued)
<1>1. /\ step \in {"core", "report"} /\ reply.kind = "dict"
      /\ UNCHANGED <<pc, runs, emu_err, issued, output, reply>>
  BY DEF PrintOutput, Report, CliInv, coreVars, cpuVars
<1>2. /\ runs = 1 /\ pc = "idle" /\ reply.exit = e /\ e \in Endings
      /\ reply.output = output /\ IsSeq(output)
  BY <1>1, DictIsOfAGuest DEF GuestInv
<1> HIDE DEF e
<1>3. reply # Pending
  BY <1>1, ReplyKinds
<1>4. AbstractPhase = "ended" /\ AbstractEnding = e /\ AbstractEnding' = e
  BY <1>1, <1>2, <1>3, AbstractIt, PhaseFacts, EndingFacts DEF e
<1>5. /\ ShownIn(InFront(output)) = output /\ NoteIn(InFront(output)) = NoEnding
      /\ \A item : item.kind \in {"json", "summary"} =>
            /\ ShownIn(Append(InFront(output), item)) = output
            /\ NoteIn(Append(InFront(output), item)) = item.exit
  BY <1>2, FrontShows
<1>6. CASE PrintOutput
  <2>1. /\ step = "core" /\ step' = "report" /\ status' = status
        /\ printed' = IF reply.output = << >> THEN printed
                      ELSE Append(printed, GuestBytes(reply.output))
    BY <1>6 DEF PrintOutput
  <2>2. printed = << >>
    BY <2>1 DEF CliInv
  <2>3. printed' = InFront(output)
    BY <1>2, <2>1, <2>2 DEF InFront
  <2>4. AbstractPhase' = "ended"
    BY <1>1, <1>2, <1>3, <2>1, AbstractIt, PhaseFacts
  <2>5. Shown' = output /\ Note' = Note
    <3>1. NoteIn(printed) = NoEnding
      BY <2>2, NoteOf
    <3> QED BY <1>5, <2>3, <3>1, ShownIt
  <2> QED BY <1>1, <1>2, <1>4, <2>1, <2>4, <2>5 DEF Promised, Command!Next, Command!Show, Endings
<1>7. CASE Report
  <2>1. /\ step = "report" /\ step' = "done" /\ status' = ExitCode(reply.exit)
        /\ printed' \in {printed, Append(printed, Json(reply)), Append(printed, Summary(reply))}
    BY <1>7 DEF Report, ExitWith
  <2>2. printed = InFront(output)
    BY <1>2, <2>1 DEF CliInv
  <2>3. /\ Json(reply).kind = "json" /\ Json(reply).exit = e
        /\ Summary(reply).kind = "summary" /\ Summary(reply).exit = e
    BY <1>2 DEF Json, Summary
  <2>4. /\ ShownIn(printed) = output /\ ShownIn(printed') = output
        /\ NoteIn(printed') \in {e, NoEnding}
    <3>1. ShownIn(printed) = output /\ NoteIn(printed) = NoEnding
      BY <1>5, <2>2
    <3>2. /\ ShownIn(Append(printed, Json(reply))) = output
          /\ NoteIn(Append(printed, Json(reply))) = e
      BY <1>5, <2>2, <2>3
    <3>3. /\ ShownIn(Append(printed, Summary(reply))) = output
          /\ NoteIn(Append(printed, Summary(reply))) = e
      BY <1>5, <2>2, <2>3
    <3>4. CASE printed' = printed
      BY <3>1, <3>4
    <3>5. CASE printed' = Append(printed, Json(reply))
      BY <3>1, <3>2, <3>5
    <3>6. CASE printed' = Append(printed, Summary(reply))
      BY <3>1, <3>3, <3>6
    <3> QED BY <2>1, <3>4, <3>5, <3>6
  <2>5. Shown = output /\ Shown' = output /\ Note' \in {e, NoEnding}
    BY <2>4, ShownIt
  <2>6. AbstractPhase' = "over"
    BY <1>1, <1>2, <2>1, AbstractIt, PhaseFacts
  <2>7. /\ e \in [kind : {"exit"}, code : 0 .. 255] \cup {Cpu!Falloff, Cpu!Stopped}
        /\ status' = IF e \in [kind : {"exit"}, code : 0 .. 255] THEN e.code ELSE 1
    BY <1>2, <2>1 DEF Endings, ExitCode, Cpu!Falloff, Cpu!Stopped
  <2> QED BY <1>1, <1>4, <2>5, <2>6, <2>7 DEF Promised, Command!Next, Command!Close
<1> QED BY <1>6, <1>7

(* What ends a command without a report. *)
LEMMA EndIsPromised ==
    ASSUME GuestInv, CliInv, Abort \/ Except \/ PrintImage
    PROVE  Promised
<1>1. /\ step = "core" /\ step' = "done" /\ printed = << >>
      /\ UNCHANGED <<pc, runs, emu_err, issued, output, reply>>
  BY DEF Abort, Except, PrintImage, ExitWith, CliInv, coreVars, cpuVars
<1>2. /\ NoteIn(<< >>) = NoEnding /\ ShownIn(<< >>) = << >>
  BY ShownOf, NoteOf
<1>3. CASE Abort
  <2>1. /\ pc = "aborted" \/ reply = Gone
        /\ status' = Killed /\ printed' = printed
    BY <1>3 DEF Abort, ExitWith
  <2>2. pc = "aborted" \/ (pc = "idle" /\ runs = 0 /\ reply = Gone)
    <3>1. CASE reply = Gone
      <4>1. reply # Pending /\ reply.kind = "gone"
        BY <3>1, ReplyKinds
      <4>2. pc = "idle"
        BY <4>1 DEF CliInv, GuestInv
      <4>3. runs # 1
        BY <4>1, <4>2, ReplyKinds DEF CliInv
      <4> QED BY <3>1, <4>2, <4>3 DEF GuestInv
    <3> QED BY <2>1, <3>1
  <2>3. AbstractPhase = "ended" /\ AbstractPhase' = "over"
    <3>1. reply = Gone => reply # Pending
      BY ReplyKinds
    <3>2. PhaseOf(step, pc, reply) = "ended" /\ PhaseOf(step', pc', reply') = "over"
      BY <1>1, <2>2, <3>1, PhaseFacts
    <3> QED BY <3>2, AbstractIt
  <2>4. AbstractEnding = Cpu!Panic /\ AbstractEnding' = Cpu!Panic
    <3>1. EndingAt(pc, runs, emu_err, issued, reply) = Cpu!Panic
      BY <2>2, EndingFacts, ReplyKinds
    <3> QED BY <1>1, <3>1, AbstractIt
  <2>5. Shown' = Shown /\ Note' = Note
    BY <2>1, ShownIt
  <2> QED BY <1>1, <2>1, <2>3, <2>4, <2>5 DEF Promised, Command!Next, Command!Close
<1>4. CASE Except \/ PrintImage
  <2>1. \/ /\ reply.kind \in {"ValueError", "OSError"}
           /\ status' = 2 /\ printed' = Append(printed, ErrorLine)
        \/ /\ reply.kind \in {"OverflowError", "PanicException"}
           /\ status' = 1 /\ printed' = printed
        \/ /\ reply.kind = "segments"
           /\ status' = 0 /\ printed' = Append(printed, Description(reply))
    BY <1>4 DEF Except, PrintImage, ExitWith
  <2>2. reply # Pending /\ pc = "idle"
    <3>1. reply # Pending
      BY <2>1, ReplyKinds
    <3> QED BY <3>1 DEF CliInv, GuestInv
  <2>3. AbstractPhase = "ended" /\ AbstractPhase' = "over"
    BY <1>1, <2>2, AbstractIt, PhaseFacts
  <2>4. AbstractEnding' = AbstractEnding
    BY <1>1, AbstractIt
  <2>5. \/ /\ reply.kind \in {"ValueError", "OSError"}
           /\ AbstractEnding \in {NoGuest("refused"), Cpu!ExecError}
        \/ /\ reply.kind \in {"OverflowError", "PanicException"}
           /\ AbstractEnding = NoGuest("crashed")
        \/ /\ reply.kind = "segments"
           /\ AbstractEnding = NoGuest("described")
    <3>1. CASE runs = 0
      BY <2>1, <2>2, <3>1, AbstractIt, EndingFacts
    <3>2. CASE runs = 1
      <4>1. /\ reply = RunReply(EndingOf(emu_err, issued), output, trace)
            /\ AbstractEnding = EndingOf(emu_err, issued)
        <5>1. reply = RunReply(EndingOf(emu_err, issued), output, trace)
          BY <2>2, <3>2 DEF CliInv
        <5>2. EndingAt(pc, runs, emu_err, issued, reply) = EndingOf(emu_err, issued)
          BY <2>2, <3>2, EndingFacts
        <5> QED BY <5>1, <5>2, AbstractIt
      <4>2. EndingOf(emu_err, issued) = Cpu!ExecError /\ reply.kind = "ValueError"
        BY <2>1, <4>1, ReplyKinds
      <4> QED BY <4>1, <4>2
    <3> QED BY <3>1, <3>2 DEF GuestInv
  <2>6. /\ \A item : Append(printed, item) = <<item>>
        /\ Shown = << >> /\ Note = NoEnding
    BY <1>1, <1>2, ShownIt, AppendShort
  <2>7. /\ ErrorLine.kind = "error" /\ PartOf(ErrorLine) = << >>
        /\ ToldBy(ErrorLine) = Cpu!ExecError
        /\ Description(reply).kind = "image" /\ PartOf(Description(reply)) = << >>
        /\ ToldBy(Description(reply)) = NoGuest("described")
    BY DEF ErrorLine, Description, PartOf, ToldBy
  <2>8. CASE /\ reply.kind \in {"ValueError", "OSError"}
             /\ status' = 2 /\ printed' = Append(printed, ErrorLine)
    <3>1. printed' = <<ErrorLine>>
      BY <2>6, <2>8
    <3>2. Shown' = << >> /\ Note' = Cpu!ExecError
      BY <2>7, <3>1, ShownOf, NoteOf, ShownIt
    <3>3. AbstractEnding \in {NoGuest("refused"), Cpu!ExecError}
      BY <2>5, <2>8
    <3> QED BY <1>1, <2>3, <2>4, <2>6, <2>8, <3>2, <3>3
            DEF Promised, Command!Next, Command!Close
  <2>9. CASE /\ reply.kind \in {"OverflowError", "PanicException"}
             /\ status' = 1 /\ printed' = printed
    <3>1. Shown' = Shown /\ Note' = Note
      BY <2>9, ShownIt
    <3>2. AbstractEnding = NoGuest("crashed")
      BY <2>5, <2>9
    <3> QED BY <1>1, <2>3, <2>4, <2>9, <3>1, <3>2
            DEF Promised, Command!Next, Command!Close
  <2>10. CASE /\ reply.kind = "segments"
              /\ status' = 0 /\ printed' = Append(printed, Description(reply))
    <3>1. printed' = <<Description(reply)>>
      BY <2>6, <2>10
    <3>2. Shown' = << >> /\ Note' = NoGuest("described")
      <4> DEFINE item == Description(reply)
      <4>1. item.kind = "image" /\ PartOf(item) = << >> /\ ToldBy(item) = NoGuest("described")
        BY <2>7
      <4> HIDE DEF item
      <4>2. ShownIn(<<item>>) = << >> /\ NoteIn(<<item>>) = NoGuest("described")
        BY <4>1, ShownOf, NoteOf
      <4>3. printed' = <<item>>
        BY <3>1 DEF item
      <4> QED BY <4>2, <4>3, ShownIt
    <3>3. AbstractEnding = NoGuest("described")
      BY <2>5, <2>10
    <3> QED BY <1>1, <2>3, <2>4, <2>6, <2>10, <3>2, <3>3
            DEF Promised, Command!Next, Command!Close
  <2> QED BY <2>1, <2>8, <2>9, <2>10
<1> QED BY <1>3, <1>4

LEMMA CommandIsPromised == CommandInv /\ CommandInv' /\ [Next]_vars => Promised
<1> SUFFICES ASSUME CommandInv, CommandInv', [Next]_vars PROVE Promised
  OBVIOUS
<1> USE DEF CommandInv
<1>1. CASE ReadFile
  <2>1. /\ step = "start" /\ step' # "done" /\ reply' \in {reply, OSError}
        /\ UNCHANGED <<runs, emu_err, issued, output, printed, status>>
    BY <1>1 DEF ReadFile, cpuVars
  <2>2. runs = 0 /\ reply = Pending /\ reply'.kind # "dict"
    BY <2>1, ReplyKinds DEF CliInv, OSError
  <2> QED BY <2>1, <2>2, BeforeTheGuest
<1>2. ASSUME NEW asked \in Limits, Call(asked) PROVE Promised
  <2>1. /\ step = "call" /\ step' # "done"
        /\ reply' \in {reply, ValueError("NaN"), OverflowError}
        /\ UNCHANGED <<runs, emu_err, issued, output, printed, status>>
    BY <1>2 DEF Call, cpuVars
  <2>2. runs = 0 /\ reply = Pending /\ reply'.kind # "dict"
    BY <2>1, ReplyKinds DEF CliInv, OverflowError, ValueError
  <2> QED BY <2>1, <2>2, BeforeTheGuest
<1>3. CASE InCore(SetUp) \/ InCore(Parse)
  <2>1. /\ step = "core" /\ step' = step /\ reply = Pending /\ SetUpAction
        /\ \/ stage' = "failed" /\ reply' = SetupReply'
           \/ reply' = [kind |-> "segments", entry |-> image.entry, segments |-> segments]
           \/ reply' = Pending
        /\ UNCHANGED <<runs, emu_err, issued, output, printed, status>>
    BY <1>3 DEF InCore, SetUp, Parse, SetUpAction, Load, cliVars, cpuVars
  <2>2. /\ stage # "ready"
        /\ stage' = "failed" => SetupReply'.kind \in {"ValueError", "PanicException", "gone"}
    BY <2>1, SetUpStep
  <2>3. runs = 0
    BY <2>2 DEF CliInv, GuestInv
  <2>4. reply'.kind # "dict"
    BY <2>1, <2>2, ReplyKinds
  <2> QED BY <2>1, <2>3, <2>4, BeforeTheGuest
<1>4. CASE InCore(Start)
  <2>1. /\ step = "core" /\ step' = step /\ reply = Pending /\ reply' = reply
        /\ pc = "idle" /\ runs = 0 /\ pc' = "running"
        /\ UNCHANGED <<output, printed, status>>
    BY <1>4 DEF InCore, Start, Cpu!RunStart, Cpu!shared, cliVars, GuestInv
  <2>2. AbstractPhase = "pending" /\ AbstractPhase' = "live"
    BY <2>1, AbstractIt, PhaseFacts
  <2>3. AbstractEnding = NoEnding /\ AbstractEnding' = NoEnding
    <3>1. reply.kind = "pending"
      BY <2>1, ReplyKinds
    <3>2. EndingAt(pc, runs, emu_err, issued, reply) = NoEnding
      BY <2>1, <3>1, EndingFacts
    <3>3. EndingAt(pc', runs', emu_err', issued', reply') = NoEnding
      BY <2>1, EndingFacts
    <3> QED BY <3>2, <3>3, AbstractIt
  <2>4. Shown' = Shown /\ Note' = Note
    BY <2>1, ShownIt
  <2> QED BY <2>1, <2>2, <2>3, <2>4 DEF Promised, Command!Next, Command!Begin
<1>5. CASE InCore(Return)
  <2>1. /\ step = "core" /\ step' = step
        /\ pc = "returned" /\ pc' = "idle"
        /\ reply' = RunReply(result', output, trace)
        /\ UNCHANGED <<runs, emu_err, issued, output, printed, status>>
    BY <1>5 DEF InCore, Return, Cpu!RunReturn, Cpu!shared, Cpu!history, cliVars
  <2>2. runs = 1 /\ reply' # Pending
    BY <2>1, ReplyKinds DEF GuestInv
  <2>3. AbstractPhase = "ended" /\ AbstractPhase' = "ended"
    BY <2>1, <2>2, AbstractIt, PhaseFacts
  <2>4. AbstractEnding' = AbstractEnding
    BY <2>1, <2>2, AbstractIt, EndingFacts
  <2> QED BY <2>1, <2>3, <2>4, StutterIs
<1>6. CASE PrintOutput \/ Report
  BY <1>6, ReportIsPromised
<1>7. CASE Abort \/ Except \/ PrintImage
  BY <1>7, EndIsPromised
<1>8. CASE InCore(Guest) \/ InCore(Tick) \/ InCore(TimerFires) \/ InCore(EngineStops)
  <2>1. UNCHANGED <<step, reply, printed, status>>
    BY <1>8 DEF InCore, cliVars, Guest, Tick, TimerFires, EngineStops, Unmoved
  <2>2. CASE UNCHANGED runVars
    <3>1. AbstractPhase' = AbstractPhase /\ AbstractEnding' = AbstractEnding
      BY <2>1, <2>2, AbstractIt DEF runVars
    <3> QED BY <2>1, <2>2, <3>1, StutterIs DEF runVars
  <2>3. CASE RunEnds
    <3>1. /\ pc = "running" /\ pc' = "returned" /\ runs = 1 /\ runs' = 1 /\ output' = output
          /\ RunIsJudged'
      BY <2>3 DEF RunEnds, GuestInv
    <3> QED BY <2>1, <3>1, GuestFinishes
  <2>4. CASE GuestSyscall
    BY <2>1, <2>4, SyscallIsPromised DEF GuestSyscall
  <2>5. ~Start /\ ~Return
    <3>1. pc = "running"
      BY <1>8 DEF InCore, Guest, Tick, TimerFires, EngineStops, Store, Cpu!GuestStore,
             Cpu!GuestFault, Cpu!GuestReachesUntil, Cpu!Syscall, Cpu!Tick, Cpu!TimerFires,
             Cpu!EngineStops
    <3> QED BY <3>1 DEF Start, Return, Cpu!RunStart, Cpu!RunReturn
  <2> QED BY <2>2, <2>3, <2>4, <2>5, RunMoves
<1>9. CASE UNCHANGED vars
  <2>1. /\ UNCHANGED <<step, pc, runs, emu_err, issued, reply, output, printed, status>>
    BY <1>9 DEF vars, coreVars, cliVars, cpuVars
  <2>2. AbstractPhase' = AbstractPhase /\ AbstractEnding' = AbstractEnding
    BY <2>1, AbstractIt
  <2> QED BY <2>1, <2>2, StutterIs
<1> QED BY <1>1, <1>2, <1>3, <1>4, <1>5, <1>6, <1>7, <1>8, <1>9
        DEF Next, Host, RunElfHost, InCore

(* From the file's bytes to the exit status, every step of the two commands *)
(* is one that GuestCommand allows, or none: a status of 0 comes from a     *)
(* guest that exited with 0 or from a description, and what a guest that    *)
(* ended has written is shown before the command is over.                   *)
THEOREM CommandIsWhatItPromises == Spec => ImplementsCommand
<1>1. Init => Command!Init
  <2> SUFFICES ASSUME Init PROVE Command!Init
    OBVIOUS
  <2>1. /\ step = "start" /\ pc = "idle" /\ runs = 0 /\ reply = Pending
        /\ output = << >> /\ printed = << >> /\ status = Unknown
    BY DEF Init, RunElfInit, Cpu!New
  <2>2. AbstractPhase = "pending" /\ AbstractEnding = NoEnding
    <3>1. AbstractPhase = "pending"
      BY <2>1, AbstractIt, PhaseFacts
    <3>2. Pending.kind = "pending"
      BY DEF Pending
    <3>3. EndingAt(pc, runs, emu_err, issued, reply) = NoEnding
      BY <2>1, <3>2, EndingFacts
    <3> QED BY <3>1, <3>3, AbstractIt
  <2>3. Shown = << >> /\ Note = NoEnding
    BY <2>1, ShownIt, ShownOf, NoteOf
  <2> QED BY <2>1, <2>2, <2>3 DEF Command!Init
<1> QED BY <1>1, CommandInvariant, CommandIsPromised, PTL
        DEF Spec, ImplementsCommand, Command!Spec, Promised
=============================================================================
