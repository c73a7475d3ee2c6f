--------------------------- MODULE ContextProofs ---------------------------
(***************************************************************************)
(* Proofs about InMemGuest and the Context that is dispatched on in it,    *)
(* for every address space, memory layout and range, in both kinds of      *)
(* build.                                                                  *)
(***************************************************************************)
EXTENDS ContextProperties, InMemGuestProperties, RegionsProofs, FiniteSetTheorems

(* Lengths by base, as Extents has them. *)
AreExtents(lens) ==
    /\ DOMAIN lens \subseteq Addresses
    /\ \A b \in DOMAIN lens : lens[b] \in Nat

(* Base and take of a turn. *)
BaseAt(lens, cursor) == CHOOSE b \in Holder(lens, cursor) : TRUE

TakeAt(lens, addr, n, d) ==
    LET cursor == Plus(addr, d)
    IN  Min({n - d, lens[BaseAt(lens, cursor)] - (cursor - BaseAt(lens, cursor))})

HereAt(lens, addr, n, d) ==
    LET cursor == Plus(addr, d)
        base == BaseAt(lens, cursor)
    IN  [i \in 1 .. TakeAt(lens, addr, n, d) |-> <<base, cursor - base + i>>]

-----------------------------------------------------------------------------
(* The loop of read and write, one turn at a time. *)

(* A sum that wraps at most once. *)
LEMMA PlusWrapsOnce ==
    ASSUME NEW a \in Addresses, NEW d \in 0 .. Space - 1
    PROVE  /\ Plus(a, d) \in Addresses
           /\ Plus(a, d) = IF a + d < Space THEN a + d ELSE a + d - Space
BY RegionsAssumption DEF Plus, Addresses

(* The region a lookup finds holds the address, and no other is found. *)
LEMMA HolderFacts ==
    ASSUME NEW lens, AreExtents(lens), NEW a \in Addresses
    PROVE  /\ \A b \in Holder(lens, a) :
                 /\ b \in DOMAIN lens /\ b \in Nat /\ lens[b] \in Nat
                 /\ b <= a /\ a - b < lens[b]
                 /\ \A c \in DOMAIN lens : c <= a => c <= b
           /\ Holder(lens, a) # {} =>
                 /\ BaseAt(lens, a) \in Holder(lens, a)
                 /\ Holder(lens, a) = {BaseAt(lens, a)}
<1> USE RegionsAssumption
<1>1. ASSUME NEW b \in Holder(lens, a)
      PROVE  /\ b \in DOMAIN lens /\ b \in Nat /\ lens[b] \in Nat
             /\ b <= a /\ a - b < lens[b]
             /\ \A c \in DOMAIN lens : c <= a => c <= b
  BY DEF Holder, AreExtents, Addresses
<1>2. \A b, c \in Holder(lens, a) : b = c
  BY <1>1
<1>3. Holder(lens, a) # {} => BaseAt(lens, a) \in Holder(lens, a)
  BY DEF BaseAt
<1> QED BY <1>1, <1>2, <1>3

(* A turn that finds a region takes at least one byte, no more than are     *)
(* asked for and no more than the region still holds.                       *)
LEMMA TakeFacts ==
    ASSUME NEW lens, AreExtents(lens), NEW addr \in Addresses,
           NEW n \in 0 .. Space, NEW d \in 0 .. n - 1,
           Holder(lens, Plus(addr, d)) # {}
    PROVE  LET cursor == Plus(addr, d)
               base == BaseAt(lens, cursor)
               take == TakeAt(lens, addr, n, d)
           IN  /\ cursor \in Nat /\ base \in Nat /\ base \in DOMAIN lens
               /\ base <= cursor
               /\ take \in 1 .. n - d
               /\ cursor - base + take <= lens[base]
               /\ lens[base] \in Nat
<1> DEFINE cursor == Plus(addr, d)
           base == BaseAt(lens, cursor)
           room == lens[base] - (cursor - base)
           take == TakeAt(lens, addr, n, d)
<1>1. cursor \in Addresses /\ cursor \in Nat
  <2>1. d \in 0 .. Space - 1
    BY RegionsAssumption
  <2> QED BY <2>1, PlusWrapsOnce, RegionsAssumption DEF Addresses
<1>2. take = Min({n - d, room})
  BY DEF TakeAt
<1> HIDE DEF cursor
<1>3. /\ base \in DOMAIN lens /\ base \in Nat /\ lens[base] \in Nat
      /\ base <= cursor /\ cursor - base < lens[base]
  <2>1. base \in Holder(lens, cursor)
    BY <1>1, HolderFacts DEF cursor
  <2> QED BY <1>1, <2>1, HolderFacts
<1> HIDE DEF base
<1>4. room \in Nat \ {0} /\ n - d \in Nat \ {0}
  BY <1>1, <1>3, RegionsAssumption
<1> HIDE DEF room
<1>5. take \in {n - d, room} /\ take <= n - d /\ take <= room
  <2> DEFINE S == {n - d, room}
  <2>1. S \in SUBSET Nat /\ S # {} /\ n - d \in S /\ room \in S
    BY <1>4
  <2> HIDE DEF S
  <2>2. Min(S) \in S /\ \A m \in S : Min(S) <= m
    BY <2>1, MinIsLeast
  <2>3. take = Min(S)
    BY <1>2 DEF S
  <2> HIDE DEF take
  <2>4. take \in S /\ take <= n - d /\ take <= room
    BY <2>1, <2>2, <2>3
  <2> QED BY <2>4 DEF S
<1> HIDE DEF take
<1>6. take \in 1 .. n - d
  BY <1>4, <1>5
<1>7. cursor - base + take <= lens[base]
  BY <1>1, <1>3, <1>4, <1>5 DEF room
<1> QED BY <1>1, <1>3, <1>6, <1>7 DEF cursor, base, take

(* The three ends of a turn. *)
LEMMA TurnIs ==
    ASSUME NEW lens, NEW addr, NEW n, NEW d, NEW later
    PROVE  LET cursor == Plus(addr, d)
               take == TakeAt(lens, addr, n, d)
               here == HereAt(lens, addr, n, d)
               t == Turn(lens, addr, n, d, later)
           IN  /\ d = n => t = [cells |-> << >>, answer |-> "ok"]
               /\ d # n /\ Holder(lens, cursor) = {} =>
                     t = [cells |-> << >>, answer |-> "fault"]
               /\ d # n /\ Holder(lens, cursor) # {} =>
                     \/ /\ OverflowChecks /\ Overflows(cursor, take)
                        /\ t = [cells |-> here, answer |-> "panic"]
                     \/ /\ ~(OverflowChecks /\ Overflows(cursor, take))
                        /\ t = [cells |-> here \o later[d + take].cells,
                                answer |-> later[d + take].answer]
<1> DEFINE cursor == Plus(addr, d)
           base == BaseAt(lens, cursor)
           take == TakeAt(lens, addr, n, d)
           here == HereAt(lens, addr, n, d)
           rest == later[d + take]
           t == Turn(lens, addr, n, d, later)
<1>1. t = IF d = n THEN [cells |-> << >>, answer |-> "ok"]
          ELSE IF Holder(lens, cursor) = {} THEN [cells |-> << >>, answer |-> "fault"]
          ELSE IF OverflowChecks /\ Overflows(cursor, take)
            THEN [cells |-> here, answer |-> "panic"]
          ELSE [cells |-> here \o rest.cells, answer |-> rest.answer]
  BY DEF Turn, HereAt, TakeAt, BaseAt
<1> HIDE DEF cursor, take, here, t, rest
<1>2. /\ d = n => t = [cells |-> << >>, answer |-> "ok"]
      /\ d # n /\ Holder(lens, cursor) = {} =>
            t = [cells |-> << >>, answer |-> "fault"]
      /\ d # n /\ Holder(lens, cursor) # {} =>
            \/ /\ OverflowChecks /\ Overflows(cursor, take)
               /\ t = [cells |-> here, answer |-> "panic"]
            \/ /\ ~(OverflowChecks /\ Overflows(cursor, take))
               /\ t = [cells |-> here \o rest.cells, answer |-> rest.answer]
  BY <1>1
<1> QED BY <1>2 DEF cursor, take, here, t, rest

(* A turn depends only on the turns behind it. *)
LEMMA TurnLooksAhead ==
    ASSUME NEW lens, AreExtents(lens), NEW addr \in Addresses,
           NEW n \in 0 .. Space, NEW d \in 0 .. n, NEW f, NEW g,
           \A e \in d + 1 .. n : f[e] = g[e]
    PROVE  Turn(lens, addr, n, d, f) = Turn(lens, addr, n, d, g)
<1> DEFINE cursor == Plus(addr, d)
           take == TakeAt(lens, addr, n, d)
<1>1. CASE d = n \/ Holder(lens, cursor) = {}
  BY <1>1, TurnIs
<1>2. CASE d # n /\ Holder(lens, cursor) # {}
  <2>1. n \in Nat /\ d \in 0 .. n - 1
    BY <1>2, RegionsAssumption
  <2>2. take \in 1 .. n - d
    BY <1>2, <2>1, TakeFacts
  <2> HIDE DEF take
  <2>3. f[d + take] = g[d + take]
    BY <2>1, <2>2
  <2> QED BY <1>2, <2>3, TurnIs DEF take
<1> QED BY <1>1, <1>2

(* The turns of a range, from the first that is looked at. *)
Turns(lens, addr, n, first, f) ==
    f = [d \in first .. n |-> Turn(lens, addr, n, d, f)]

(* The turns exist: by the largest number of bytes to go for which they     *)
(* would not.                                                               *)
LEMMA TurnsExist ==
    ASSUME NEW lens, AreExtents(lens), NEW addr \in Addresses,
           NEW n \in 0 .. Space
    PROVE  \E f : Turns(lens, addr, n, 0, f)
<1> DEFINE Bad == {k \in 0 .. n : ~\E f : Turns(lens, addr, n, n - k, f)}
           least == Min(Bad)
<1>1. n \in Nat /\ Bad \in SUBSET Nat
  BY RegionsAssumption
<1> SUFFICES ASSUME Bad # {} PROVE FALSE
  <2>1. n \in 0 .. n /\ n - n = 0
    BY <1>1
  <2>2. Bad = {} => \E f : Turns(lens, addr, n, n - n, f)
    BY <2>1
  <2> HIDE DEF Bad
  <2> QED BY <2>1, <2>2
<1>2. least \in Bad /\ \A k \in Bad : least <= k
  <2> HIDE DEF Bad
  <2> QED BY <1>1, MinIsLeast
<1> HIDE DEF least
<1>3. least \in 0 .. n /\ least \in Nat /\ ~\E f : Turns(lens, addr, n, n - least, f)
  BY <1>1, <1>2
<1>4. CASE least = 0
  <2> DEFINE f == [d \in n .. n |-> [cells |-> << >>, answer |-> "ok"]]
  <2>1. \A d \in n .. n : d = n
    BY <1>1
  <2>2. \A d \in n .. n : Turn(lens, addr, n, d, f) = [cells |-> << >>, answer |-> "ok"]
    <3> HIDE DEF f
    <3> QED BY <2>1, TurnIs
  <2>3. f = [d \in n .. n |-> Turn(lens, addr, n, d, f)]
    <3> DEFINE g == [d \in n .. n |-> Turn(lens, addr, n, d, f)]
    <3>1. \A d \in n .. n : f[d] = g[d]
      BY <2>2
    <3> QED BY <3>1
  <2>4. n - least = n
    BY <1>1, <1>4
  <2> HIDE DEF f
  <2> QED BY <1>3, <2>3, <2>4 DEF Turns
<1>5. CASE least # 0
  <2> DEFINE m == n - least
  <2>1. least - 1 \in 0 .. n /\ ~(least <= least - 1) /\ n - (least - 1) = m + 1
    BY <1>1, <1>3, <1>5
  <2>2. \E g : Turns(lens, addr, n, m + 1, g)
    BY <1>2, <2>1
  <2>3. PICK g : Turns(lens, addr, n, m + 1, g)
    BY <2>2
  <2>4. m \in 0 .. n - 1 /\ m \in Nat
    BY <1>1, <1>3, <1>5
  <2> HIDE DEF m
  <2> DEFINE f == [d \in m .. n |-> IF d = m THEN Turn(lens, addr, n, m, g) ELSE g[d]]
  <2>5. \A e \in m + 1 .. n : /\ g[e] = Turn(lens, addr, n, e, g)
                              /\ f[e] = g[e]
    <3> DEFINE h == [d \in m + 1 .. n |-> Turn(lens, addr, n, d, g)]
    <3>1. g = h
      BY <2>3 DEF Turns
    <3>2. \A e \in m + 1 .. n : h[e] = Turn(lens, addr, n, e, g)
      OBVIOUS
    <3> HIDE DEF h
    <3>3. \A e \in m + 1 .. n : g[e] = Turn(lens, addr, n, e, g)
      BY <3>1, <3>2
    <3>4. \A e \in m + 1 .. n : e \in m .. n /\ e # m
      BY <1>1, <2>4
    <3>5. \A e \in m + 1 .. n : f[e] = g[e]
      BY <3>4
    <3> QED BY <3>3, <3>5
  <2>6. ASSUME NEW d \in m .. n PROVE Turn(lens, addr, n, d, f) = Turn(lens, addr, n, d, g)
    <3>1. d \in 0 .. n /\ \A e \in d + 1 .. n : e \in m + 1 .. n
      BY <1>1, <2>4
    <3>2. \A e \in d + 1 .. n : f[e] = g[e]
      BY <2>5, <3>1
    <3> HIDE DEF f
    <3> QED BY <3>1, <3>2, TurnLooksAhead
  <2>7. ASSUME NEW d \in m .. n PROVE f[d] = Turn(lens, addr, n, d, f)
    <3>1. CASE d = m
      <4>1. f[d] = Turn(lens, addr, n, d, g)
        BY <3>1, <2>7
      <4> HIDE DEF f
      <4> QED BY <4>1, <2>6
    <3>2. CASE d # m
      <4>1. d \in m + 1 .. n
        BY <3>2, <1>1, <2>4
      <4> HIDE DEF f
      <4> QED BY <4>1, <2>5, <2>6
    <3> QED BY <3>1, <3>2
  <2>8. f = [d \in m .. n |-> Turn(lens, addr, n, d, f)]
    <3> DEFINE h == [d \in m .. n |-> Turn(lens, addr, n, d, f)]
    <3>1. \A d \in m .. n : f[d] = h[d]
      <4> HIDE DEF f
      <4> QED BY <2>7
    <3> QED BY <3>1
  <2> HIDE DEF f
  <2> QED BY <1>3, <2>8 DEF Turns, m
<1> QED BY <1>4, <1>5

(* So what a range is served is the first of its turns. *)
LEMMA ServedIsTheFirst ==
    ASSUME NEW addr \in Addresses, NEW n \in 0 .. Space, AreExtents(Extents)
    PROVE  \E f : Turns(Extents, addr, n, 0, f) /\ Served(addr, n) = f[0]
<1> DEFINE f == CHOOSE g : g = [d \in 0 .. n |-> Turn(Extents, addr, n, d, g)]
<1>1. \E g : g = [d \in 0 .. n |-> Turn(Extents, addr, n, d, g)]
  BY TurnsExist DEF Turns
<1>2. f = [d \in 0 .. n |-> Turn(Extents, addr, n, d, f)]
  <2> HIDE DEF Turn, Extents
  <2> QED BY <1>1
<1>3. Served(addr, n) = f[0]
  BY DEF Served
<1> HIDE DEF f
<1> QED BY <1>2, <1>3 DEF Turns

-----------------------------------------------------------------------------
(* What the turns come to. *)

(* The index k in region b stands for the address: its sum may have wrapped *)
(* once.                                                                    *)
StandsFor(b, k, address) ==
    b + k - 1 = address \/ b + k - 1 = address - Space

(* An outcome of the turns from d on: as many cells as bytes if it is ok,   *)
(* and each is the one of its address, in a region that has it; a fault is  *)
(* at the first address that no region is found for, and the cursor         *)
(* overflows only behind a region that reaches the last address.            *)
GoodCell(lens, cell, address) ==
    \E b \in DOMAIN lens : \E k \in 1 .. lens[b] :
        cell = <<b, k>> /\ StandsFor(b, k, address)

ReachesLast(lens) == \E b \in DOMAIN lens : b + lens[b] >= Space

GoodOutcome(lens, addr, n, d, t) ==
    /\ t.cells \in Seq(Nat \X Nat)
    /\ Len(t.cells) <= n - d
    /\ \A i \in DOMAIN t.cells : GoodCell(lens, t.cells[i], addr + d + i - 1)
    /\ t.answer \in {"ok", "fault", "panic"}
    /\ t.answer = "ok" => Len(t.cells) = n - d
    /\ t.answer = "fault" =>
          /\ Len(t.cells) < n - d
          /\ Holder(lens, Plus(addr, d + Len(t.cells))) = {}
    /\ t.answer = "panic" => ReachesLast(lens)

(* The cells of one turn. *)
LEMMA HereFacts ==
    ASSUME NEW lens, AreExtents(lens), NEW addr \in Addresses,
           NEW n \in 0 .. Space, NEW d \in 0 .. n - 1,
           Holder(lens, Plus(addr, d)) # {}
    PROVE  LET here == HereAt(lens, addr, n, d)
               take == TakeAt(lens, addr, n, d)
           IN  /\ here \in Seq(Nat \X Nat)
               /\ Len(here) = take /\ take \in 1 .. n - d
               /\ \A i \in DOMAIN here : GoodCell(lens, here[i], addr + d + i - 1)
               /\ Overflows(Plus(addr, d), take) => ReachesLast(lens)
<1> DEFINE cursor == Plus(addr, d)
           base == BaseAt(lens, cursor)
           here == HereAt(lens, addr, n, d)
           take == TakeAt(lens, addr, n, d)
<1>1. /\ cursor \in Nat /\ base \in Nat /\ base \in DOMAIN lens
      /\ base <= cursor
      /\ take \in 1 .. n - d
      /\ cursor - base + take <= lens[base]
      /\ lens[base] \in Nat
  BY TakeFacts
<1>2. cursor = addr + d \/ cursor = addr + d - Space
  <2>1. d \in 0 .. Space - 1
    BY RegionsAssumption
  <2> QED BY <2>1, PlusWrapsOnce
<1>3. here = [i \in 1 .. take |-> <<base, cursor - base + i>>]
  BY DEF HereAt
<1> HIDE DEF cursor, base, here, take
<1>4. \A i \in 1 .. take : <<base, cursor - base + i>> \in Nat \X Nat
  BY <1>1
<1>5. here \in Seq(Nat \X Nat) /\ Len(here) = take /\ DOMAIN here = 1 .. take
  <2>1. take \in Nat
    BY <1>1
  <2> QED BY <1>3, <1>4, <2>1
<1>6. ASSUME NEW i \in 1 .. take
      PROVE  GoodCell(lens, here[i], addr + d + i - 1)
  <2> DEFINE k == cursor - base + i
  <2>1. here[i] = <<base, k>>
    BY <1>3
  <2>2. k \in 1 .. lens[base]
    BY <1>1
  <2>3. base + k - 1 = cursor + i - 1
    BY <1>1
  <2>4. StandsFor(base, k, addr + d + i - 1)
    BY <1>1, <1>2, <2>3, RegionsAssumption DEF StandsFor, Addresses
  <2> HIDE DEF k
  <2> QED BY <1>1, <2>1, <2>2, <2>4 DEF GoodCell
<1>7. Overflows(cursor, take) => base + lens[base] >= Space
  BY <1>1, RegionsAssumption DEF Overflows
<1> QED BY <1>1, <1>5, <1>6, <1>7 DEF here, take, cursor, ReachesLast

(* Places in a concatenation. *)
LEMMA JoinedPlaces ==
    ASSUME NEW S, NEW s \in Seq(S), NEW u \in Seq(S)
    PROVE  /\ s \o u \in Seq(S)
           /\ Len(s \o u) = Len(s) + Len(u)
           /\ \A i \in 1 .. Len(s) + Len(u) :
                 /\ i <= Len(s) => (s \o u)[i] = s[i]
                 /\ ~(i <= Len(s)) => (s \o u)[i] = u[i - Len(s)]
OBVIOUS

(* The cells of a turn in front of those of the turns behind it. *)
LEMMA OutcomesJoin ==
    ASSUME NEW lens, NEW addr \in Nat, NEW n \in Nat, NEW d \in 0 .. n,
           NEW here \in Seq(Nat \X Nat), Len(here) \in 1 .. n - d,
           \A i \in DOMAIN here : GoodCell(lens, here[i], addr + d + i - 1),
           NEW rest, GoodOutcome(lens, addr, n, d + Len(here), rest)
    PROVE  GoodOutcome(lens, addr, n, d,
               [cells |-> here \o rest.cells, answer |-> rest.answer])
<1> DEFINE more == rest.cells
           all == here \o more
           t == [cells |-> all, answer |-> rest.answer]
           h == Len(here)
           m == Len(more)
<1>1. /\ more \in Seq(Nat \X Nat)
      /\ m <= n - (d + h)
      /\ \A i \in DOMAIN more : GoodCell(lens, more[i], addr + (d + h) + i - 1)
      /\ rest.answer \in {"ok", "fault", "panic"}
      /\ rest.answer = "ok" => m = n - (d + h)
      /\ rest.answer = "fault" =>
            /\ m < n - (d + h)
            /\ Holder(lens, Plus(addr, (d + h) + m)) = {}
      /\ rest.answer = "panic" => ReachesLast(lens)
  BY DEF GoodOutcome
<1> HIDE DEF more
<1>2. /\ h \in Nat /\ m \in Nat
      /\ DOMAIN here = 1 .. h /\ DOMAIN more = 1 .. m
  BY <1>1
<1>3. /\ all \in Seq(Nat \X Nat)
      /\ Len(all) = h + m
      /\ \A i \in 1 .. h + m : /\ i <= h => all[i] = here[i]
                               /\ ~(i <= h) => all[i] = more[i - h]
  BY <1>1, JoinedPlaces
<1>4. DOMAIN all = 1 .. h + m
  BY <1>2, <1>3
<1> HIDE DEF all, h, m
<1>5. ASSUME NEW i \in 1 .. h + m
      PROVE  GoodCell(lens, all[i], addr + d + i - 1)
  <2>1. CASE i <= h
    <3>1. i \in DOMAIN here
      BY <1>2, <2>1
    <3> QED BY <1>3, <2>1, <3>1
  <2>2. CASE ~(i <= h)
    <3>1. i - h \in 1 .. m
      BY <1>2, <2>2
    <3>2. addr + (d + h) + (i - h) - 1 = addr + d + i - 1
      BY <1>2
    <3>3. GoodCell(lens, more[i - h], addr + (d + h) + (i - h) - 1)
      BY <1>1, <1>2, <3>1
    <3>4. all[i] = more[i - h]
      BY <1>3, <2>2
    <3> QED BY <3>2, <3>3, <3>4
  <2> QED BY <2>1, <2>2
<1>6. /\ h + m <= n - d
      /\ m = n - (d + h) => h + m = n - d
      /\ m < n - (d + h) => h + m < n - d
      /\ (d + h) + m = d + (h + m)
  <2>1. h \in 1 .. n - d
    BY DEF h
  <2> QED BY <1>1, <1>2, <2>1
<1>7. t.cells = all /\ t.answer = rest.answer
  OBVIOUS
<1> HIDE DEF t
<1>8. GoodOutcome(lens, addr, n, d, t)
  BY <1>1, <1>3, <1>4, <1>5, <1>6, <1>7 DEF GoodOutcome
<1> QED BY <1>8 DEF t, all, more

(* Every turn comes to such an outcome, by the one with the fewest bytes to *)
(* go that would not.                                                       *)
LEMMA TurnsAreGood ==
    ASSUME NEW lens, AreExtents(lens), NEW addr \in Addresses,
           NEW n \in 0 .. Space, NEW f, Turns(lens, addr, n, 0, f)
    PROVE  GoodOutcome(lens, addr, n, 0, f[0])
<1> DEFINE Bad == {k \in 0 .. n : ~GoodOutcome(lens, addr, n, n - k, f[n - k])}
           least == Min(Bad)
<1>1. n \in Nat /\ Bad \in SUBSET Nat /\ addr \in Nat
  BY RegionsAssumption DEF Addresses
<1> SUFFICES ASSUME Bad # {} PROVE FALSE
  <2>1. n \in 0 .. n /\ n - n = 0
    BY <1>1
  <2>2. Bad = {} => GoodOutcome(lens, addr, n, n - n, f[n - n])
    BY <2>1
  <2> HIDE DEF Bad
  <2> QED BY <2>1, <2>2
<1>2. least \in Bad /\ \A k \in Bad : least <= k
  <2> HIDE DEF Bad
  <2> QED BY <1>1, MinIsLeast
<1> HIDE DEF least
<1> DEFINE d == n - least
<1>3. /\ least \in 0 .. n /\ d \in 0 .. n /\ n - d = least
      /\ ~GoodOutcome(lens, addr, n, d, f[d])
  BY <1>1, <1>2
<1>4. ASSUME NEW e \in d + 1 .. n PROVE GoodOutcome(lens, addr, n, e, f[e])
  <2>1. n - e \in 0 .. n /\ n - (n - e) = e /\ ~(least <= n - e)
    BY <1>1, <1>3
  <2>2. n - e \notin Bad
    BY <1>2, <2>1
  <2> QED BY <2>1, <2>2
<1> HIDE DEF d, Bad
<1>5. f[d] = Turn(lens, addr, n, d, f)
  <2> DEFINE h == [e \in 0 .. n |-> Turn(lens, addr, n, e, f)]
  <2>1. f = h
    BY DEF Turns
  <2>2. h[d] = Turn(lens, addr, n, d, f)
    BY <1>3
  <2> HIDE DEF h
  <2> QED BY <2>1, <2>2
<1>6. CASE d = n
  <2>1. f[d] = [cells |-> << >>, answer |-> "ok"]
    BY <1>5, <1>6, TurnIs
  <2> QED BY <1>1, <1>3, <1>6, <2>1 DEF GoodOutcome
<1>7. CASE d # n /\ Holder(lens, Plus(addr, d)) = {}
  <2>1. f[d] = [cells |-> << >>, answer |-> "fault"]
    BY <1>5, <1>7, TurnIs
  <2>2. d + 0 = d /\ 0 < n - d /\ Len(<< >>) = 0
    BY <1>1, <1>3, <1>7
  <2> QED BY <1>3, <1>7, <2>1, <2>2 DEF GoodOutcome
<1>8. CASE d # n /\ Holder(lens, Plus(addr, d)) # {}
  <2> DEFINE here == HereAt(lens, addr, n, d)
             take == TakeAt(lens, addr, n, d)
  <2>1. d \in 0 .. n - 1
    BY <1>1, <1>3, <1>8
  <2>2. /\ here \in Seq(Nat \X Nat)
        /\ Len(here) = take /\ take \in 1 .. n - d
        /\ \A i \in DOMAIN here : GoodCell(lens, here[i], addr + d + i - 1)
        /\ Overflows(Plus(addr, d), take) => ReachesLast(lens)
    BY <1>8, <2>1, HereFacts
  <2>3. \/ /\ Overflows(Plus(addr, d), take)
           /\ f[d] = [cells |-> here, answer |-> "panic"]
        \/ f[d] = [cells |-> here \o f[d + take].cells, answer |-> f[d + take].answer]
    BY <1>5, <1>8, TurnIs
  <2> HIDE DEF here, take
  <2>4. CASE /\ Overflows(Plus(addr, d), take)
             /\ f[d] = [cells |-> here, answer |-> "panic"]
    <3>1. f[d].cells = here /\ f[d].answer = "panic"
      BY <2>4
    <3>2. Len(here) <= n - d
      BY <1>1, <1>3, <2>2
    <3>3. GoodOutcome(lens, addr, n, d, f[d])
      BY <2>2, <2>4, <3>1, <3>2 DEF GoodOutcome
    <3> QED BY <1>3, <3>3
  <2>5. CASE f[d] = [cells |-> here \o f[d + take].cells, answer |-> f[d + take].answer]
    <3>1. d + take \in d + 1 .. n
      BY <1>1, <1>3, <2>2
    <3>2. GoodOutcome(lens, addr, n, d + Len(here), f[d + take])
      BY <1>4, <2>2, <3>1
    <3>3. GoodOutcome(lens, addr, n, d, f[d])
      BY <1>1, <1>3, <2>2, <2>5, <3>2, OutcomesJoin
    <3> QED BY <1>3, <3>3
  <2> QED BY <2>3, <2>4, <2>5
<1> QED BY <1>6, <1>7, <1>8

(* What read and write find of a range. *)
LEMMA ServedIsGood ==
    ASSUME NEW addr \in Addresses, NEW n \in 0 .. Space, AreExtents(Extents)
    PROVE  GoodOutcome(Extents, addr, n, 0, Served(addr, n))
<1>1. PICK f : Turns(Extents, addr, n, 0, f) /\ Served(addr, n) = f[0]
  BY ServedIsTheFirst
<1>2. GoodOutcome(Extents, addr, n, 0, f[0])
  BY <1>1, TurnsAreGood
<1> QED BY <1>1, <1>2

-----------------------------------------------------------------------------
(* The state.  A lookup goes by extents alone, so a served range stays the  *)
(* same while they do.                                                      *)
ServedIn(lens, addr, n) ==
    LET turn[d \in 0 .. n] == Turn(lens, addr, n, d, turn) IN turn[0]

LEMMA ServedByExtents ==
    ASSUME NEW addr, NEW n
    PROVE  /\ Served(addr, n) = ServedIn(Extents, addr, n)
           /\ Extents' = Extents => Served(addr, n)' = Served(addr, n)
<1>1. Served(addr, n) = ServedIn(Extents, addr, n)
  BY DEF Served, ServedIn
<1>2. Served(addr, n)' = ServedIn(Extents', addr, n)
  BY DEF Served, ServedIn
<1> HIDE DEF Extents
<1> QED BY <1>1, <1>2

(* The regions of a well-typed state. *)
LEMMA RegionFacts ==
    ASSUME TypeOK
    PROVE  /\ AreExtents(Extents) /\ DOMAIN Extents = DOMAIN bytes
           /\ \A b \in DOMAIN bytes :
                 /\ b \in Addresses /\ b \in Nat
                 /\ Extents[b] = Len(bytes[b]) /\ Len(bytes[b]) \in Nat
                 /\ DOMAIN bytes[b] = 1 .. Len(bytes[b])
                 /\ bytes[b] \in Seq(Nat)
                 /\ \A k \in 1 .. Len(bytes[b]) : bytes[b][k] \in Nat
<1>1. \A b \in DOMAIN bytes : b \in Addresses /\ b \in Nat /\ bytes[b] \in Seq(Nat)
  BY RegionsAssumption DEF TypeOK, Addresses
<1>2. DOMAIN Extents = DOMAIN bytes /\ \A b \in DOMAIN bytes : Extents[b] = Len(bytes[b])
  BY DEF Extents
<1>3. \A b \in DOMAIN bytes : /\ Len(bytes[b]) \in Nat
                              /\ DOMAIN bytes[b] = 1 .. Len(bytes[b])
                              /\ \A k \in 1 .. Len(bytes[b]) : bytes[b][k] \in Nat
  BY <1>1
<1> QED BY <1>1, <1>2, <1>3 DEF AreExtents

(* What read and write get, said of the bytes: the cells are in the regions *)
(* and stand for the addresses of the range, each for its own.              *)
LEMMA ServedFacts ==
    ASSUME TypeOK, NEW addr \in Addresses, NEW n \in 0 .. Space
    PROVE  LET got == Served(addr, n)
           IN  /\ got.cells \in Seq(Nat \X Nat) /\ Len(got.cells) \in 0 .. n
               /\ DOMAIN got.cells = 1 .. Len(got.cells)
               /\ got.answer \in {"ok", "fault", "panic"}
               /\ got.answer = "ok" => Len(got.cells) = n
               /\ got.answer = "fault" =>
                     /\ Len(got.cells) < n
                     /\ Holder(Extents, Plus(addr, Len(got.cells))) = {}
               /\ got.answer = "panic" => ReachesLast(Extents)
               /\ \A i \in 1 .. Len(got.cells) :
                     \E b \in DOMAIN bytes : \E k \in 1 .. Len(bytes[b]) :
                         /\ got.cells[i] = <<b, k>>
                         /\ got.cells[i][1] = b /\ got.cells[i][2] = k
                         /\ StandsFor(b, k, addr + i - 1)
               /\ \A i, j \in 1 .. Len(got.cells) :
                     got.cells[i] = got.cells[j] => i = j
<1> DEFINE got == Served(addr, n)
           cells == got.cells
<1>1. n \in Nat /\ addr \in Nat
  BY RegionsAssumption DEF Addresses
<1>2. GoodOutcome(Extents, addr, n, 0, got)
  BY RegionFacts, ServedIsGood
<1>3. /\ cells \in Seq(Nat \X Nat) /\ Len(cells) <= n - 0
      /\ \A i \in DOMAIN cells : GoodCell(Extents, cells[i], addr + 0 + i - 1)
      /\ got.answer \in {"ok", "fault", "panic"}
      /\ got.answer = "ok" => Len(cells) = n - 0
      /\ got.answer = "fault" =>
            /\ Len(cells) < n - 0
            /\ Holder(Extents, Plus(addr, 0 + Len(cells))) = {}
      /\ got.answer = "panic" => ReachesLast(Extents)
  BY <1>2 DEF GoodOutcome
<1> HIDE DEF got
<1>4. /\ Len(cells) \in 0 .. n /\ DOMAIN cells = 1 .. Len(cells)
      /\ 0 + Len(cells) = Len(cells) /\ n - 0 = n
  BY <1>1, <1>3
<1>5. ASSUME NEW i \in 1 .. Len(cells)
      PROVE  \E b \in DOMAIN bytes : \E k \in 1 .. Len(bytes[b]) :
                 /\ cells[i] = <<b, k>>
                 /\ cells[i][1] = b /\ cells[i][2] = k
                 /\ StandsFor(b, k, addr + i - 1)
  <2>1. addr + 0 + i - 1 = addr + i - 1
    BY <1>1, <1>4
  <2>2. GoodCell(Extents, cells[i], addr + i - 1)
    BY <1>3, <1>4, <2>1
  <2>3. PICK b \in DOMAIN Extents : \E k \in 1 .. Extents[b] :
            cells[i] = <<b, k>> /\ StandsFor(b, k, addr + i - 1)
    BY <2>2 DEF GoodCell
  <2> QED BY <2>3, RegionFacts
<1>6. ASSUME NEW i \in 1 .. Len(cells), NEW j \in 1 .. Len(cells),
             cells[i] = cells[j]
      PROVE  i = j
  <2>1. PICK b \in DOMAIN bytes : \E k \in 1 .. Len(bytes[b]) :
            /\ cells[i] = <<b, k>> /\ cells[i][1] = b /\ cells[i][2] = k
            /\ StandsFor(b, k, addr + i - 1)
    BY <1>5
  <2>2. PICK k \in 1 .. Len(bytes[b]) :
            /\ cells[i][1] = b /\ cells[i][2] = k
            /\ StandsFor(b, k, addr + i - 1)
    BY <2>1
  <2>3. StandsFor(b, k, addr + j - 1)
    BY <1>5, <1>6, <2>2
  <2>4. b \in Nat /\ k \in Nat /\ i \in 1 .. Space /\ j \in 1 .. Space
    BY <1>1, <1>4, RegionFacts, RegionsAssumption
  <2> QED BY <1>1, <2>2, <2>3, <2>4, RegionsAssumption DEF StandsFor
<1> QED BY <1>3, <1>4, <1>5, <1>6 DEF got

(* Bytes that are fetched are as many as the cells, each from its own. *)
LEMMA FetchedFacts ==
    ASSUME TypeOK, NEW addr \in Addresses, NEW n \in 0 .. Space,
           NEW cells, cells = Served(addr, n).cells
    PROVE  /\ Fetched(cells) \in Seq(Nat)
           /\ Len(Fetched(cells)) = Len(cells)
<1>1. /\ Len(cells) \in Nat /\ DOMAIN cells = 1 .. Len(cells)
      /\ \A i \in 1 .. Len(cells) : bytes[cells[i][1]][cells[i][2]] \in Nat
  <2>1. n \in Nat
    BY RegionsAssumption
  <2>2. Len(cells) \in 0 .. n /\ DOMAIN cells = 1 .. Len(cells)
    BY ServedFacts
  <2>3. ASSUME NEW i \in 1 .. Len(cells)
        PROVE  bytes[cells[i][1]][cells[i][2]] \in Nat
    <3>1. PICK b \in DOMAIN bytes : \E k \in 1 .. Len(bytes[b]) :
              /\ cells[i] = <<b, k>>
              /\ cells[i][1] = b /\ cells[i][2] = k
              /\ StandsFor(b, k, addr + i - 1)
      BY ServedFacts
    <3> QED BY <3>1, RegionFacts
  <2> QED BY <2>1, <2>2, <2>3
<1>2. Fetched(cells) \in Seq(Nat) /\ DOMAIN Fetched(cells) = 1 .. Len(cells)
  BY <1>1 DEF Fetched
<1> QED BY <1>1, <1>2

(* What a write stores at an index goes by the cells that name it. *)
OnlyCell(cells, i, b, k) ==
    cells[i] = <<b, k>> /\ \A j \in DOMAIN cells : cells[j] = <<b, k>> => j = i

NoCell(cells, b, k) == \A j \in DOMAIN cells : cells[j] # <<b, k>>

(* A write puts its bytes in place and moves no region. *)
LEMMA StoredFacts ==
    ASSUME TypeOK, NEW cells, NEW data \in Seq(Nat), DOMAIN cells \subseteq DOMAIN data,
           NEW new, new = Stored(cells, data)
    PROVE  /\ DOMAIN new = DOMAIN bytes
           /\ \A b \in DOMAIN bytes :
                 /\ new[b] \in Seq(Nat) /\ Len(new[b]) = Len(bytes[b])
                 /\ \A k \in 1 .. Len(bytes[b]) :
                       /\ \A i \in DOMAIN cells :
                             OnlyCell(cells, i, b, k) => new[b][k] = data[i]
                       /\ NoCell(cells, b, k) => new[b][k] = bytes[b][k]
<1> DEFINE value(b, k) == IF \E i \in DOMAIN cells : cells[i] = <<b, k>>
                          THEN data[CHOOSE i \in DOMAIN cells : cells[i] = <<b, k>>]
                          ELSE bytes[b][k]
<1>1. new = [b \in DOMAIN bytes |-> [k \in DOMAIN bytes[b] |-> value(b, k)]]
  BY DEF Stored
<1>2. ASSUME NEW b \in DOMAIN bytes, NEW k \in 1 .. Len(bytes[b])
      PROVE  value(b, k) \in Nat
  <2>1. CASE \E i \in DOMAIN cells : cells[i] = <<b, k>>
    <3>1. (CHOOSE i \in DOMAIN cells : cells[i] = <<b, k>>) \in DOMAIN data
      BY <2>1
    <3> QED BY <2>1, <3>1
  <2>2. CASE ~\E i \in DOMAIN cells : cells[i] = <<b, k>>
    BY <2>2, RegionFacts
  <2> QED BY <2>1, <2>2
<1>3. ASSUME NEW b \in DOMAIN bytes, NEW k \in 1 .. Len(bytes[b])
      PROVE  /\ \A i \in DOMAIN cells : OnlyCell(cells, i, b, k) => value(b, k) = data[i]
             /\ NoCell(cells, b, k) => value(b, k) = bytes[b][k]
  BY DEF OnlyCell, NoCell
<1> HIDE DEF value
<1>4. ASSUME NEW b \in DOMAIN bytes
      PROVE  /\ new[b] \in Seq(Nat) /\ Len(new[b]) = Len(bytes[b])
             /\ \A k \in 1 .. Len(bytes[b]) : new[b][k] = value(b, k)
  <2>1. /\ Len(bytes[b]) \in Nat
        /\ new[b] = [k \in 1 .. Len(bytes[b]) |-> value(b, k)]
    BY <1>1, RegionFacts
  <2>2. new[b] \in Seq(Nat) /\ DOMAIN new[b] = 1 .. Len(bytes[b])
    BY <1>2, <2>1
  <2>3. \A k \in 1 .. Len(bytes[b]) : new[b][k] = value(b, k)
    BY <2>1
  <2> QED BY <2>1, <2>2, <2>3
<1> QED BY <1>1, <1>3, <1>4

(* The lengths in calls. *)
LEMMA CallFacts ==
    /\ \A m \in Maps : m.addr \in Addresses /\ m.len \in Nat
    /\ \A r \in Reads : r.addr \in Addresses /\ r.len \in 0 .. Space /\ r.len \in Nat
    /\ \A w \in Writes : /\ w.addr \in Addresses /\ w.data \in Seq(Nat)
                         /\ Len(w.data) \in 0 .. Space /\ Len(w.data) \in Nat
                         /\ DOMAIN w.data = 1 .. Len(w.data)
<1> USE InMemGuestAssumption, RegionsAssumption DEF Addresses
<1>1. \A m \in Maps : m.addr \in Addresses /\ m.len \in Nat
  OBVIOUS
<1>2. \A r \in Reads : r.addr \in Addresses /\ r.len \in 0 .. Space /\ r.len \in Nat
  OBVIOUS
<1>3. ASSUME NEW w \in Writes
      PROVE  /\ w.addr \in Addresses /\ w.data \in Seq(Nat)
             /\ Len(w.data) \in 0 .. Space /\ Len(w.data) \in Nat
             /\ DOMAIN w.data = 1 .. Len(w.data)
  <2>1. w.addr \in Addresses /\ w.data \in Seq(Nat)
    OBVIOUS
  <2>2. Len(w.data) \in Nat /\ DOMAIN w.data = 1 .. Len(w.data) /\ Len(w.data) < Space
    BY <2>1
  <2> QED BY <2>1, <2>2
<1> QED BY <1>1, <1>2, <1>3

(* A write's cells and bytes. *)
LEMMA WriteFacts ==
    ASSUME TypeOK, NEW w \in Writes, Write(w.addr, w.data)
    PROVE  LET got == Served(w.addr, Len(w.data))
           IN  /\ DOMAIN got.cells \subseteq DOMAIN w.data
               /\ bytes' = Stored(got.cells, w.data)
               /\ answer' = got.answer /\ out' = << >>
               /\ Extents' = Extents
<1> DEFINE got == Served(w.addr, Len(w.data))
<1>1. /\ answer' = got.answer
      /\ bytes' = Stored(got.cells, w.data)
      /\ out' = << >>
  BY DEF Write
<1>2. DOMAIN got.cells \subseteq DOMAIN w.data
  <2>1. /\ Len(got.cells) \in 0 .. Len(w.data)
        /\ DOMAIN got.cells = 1 .. Len(got.cells)
    BY ServedFacts, CallFacts
  <2> QED BY <2>1, CallFacts
<1>3. Extents' = Extents
  <2> HIDE DEF got
  <2>1. /\ DOMAIN bytes' = DOMAIN bytes
        /\ \A b \in DOMAIN bytes : Len(bytes'[b]) = Len(bytes[b])
    BY <1>1, <1>2, StoredFacts, CallFacts
  <2> QED BY <2>1 DEF Extents
<1> QED BY <1>1, <1>2, <1>3

-----------------------------------------------------------------------------
(* Each call keeps the types. *)
LEMMA MapAnonKeepsType ==
    ASSUME TypeOK, NEW m \in Maps, MapAnon(m.addr, m.len)
    PROVE  TypeOK'
<1>1. m.addr \in Addresses /\ m.len \in Nat /\ MaxBuffer \in Nat
  BY CallFacts, InMemGuestAssumption
<1>2. answer' \in {"ok", "fault", "panic"} /\ out' = << >>
  BY DEF MapAnon
<1>3. CASE answer' # "ok"
  <2>1. bytes' = bytes
    BY <1>3 DEF MapAnon
  <2> QED BY <1>2, <2>1 DEF TypeOK
<1>4. CASE answer' = "ok"
  <2> DEFINE zeros == [i \in 1 .. m.len |-> 0]
  <2>1. /\ m.len <= MaxBuffer
        /\ bytes' = [b \in DOMAIN bytes \cup {m.addr} |->
                        IF b = m.addr THEN zeros ELSE bytes[b]]
    BY <1>1, <1>4 DEF MapAnon
  <2>2. zeros \in Seq(Nat) /\ Len(zeros) = m.len
    BY <1>1
  <2> HIDE DEF zeros
  <2>3. /\ DOMAIN bytes' \subseteq Addresses
        /\ \A b \in DOMAIN bytes' : bytes'[b] \in Seq(Nat) /\ Len(bytes'[b]) <= MaxBuffer
    BY <1>1, <2>1, <2>2 DEF TypeOK
  <2> QED BY <1>2, <2>3 DEF TypeOK
<1> QED BY <1>3, <1>4

LEMMA ReadKeepsType ==
    ASSUME TypeOK, NEW r \in Reads, Read(r.addr, r.len)
    PROVE  TypeOK'
<1> DEFINE got == Served(r.addr, r.len)
<1>1. /\ answer' \in {"panic", got.answer} /\ bytes' = bytes
      /\ out' = IF answer' # "ok" THEN << >> ELSE Fetched(got.cells)
  BY DEF Read
<1>2. got.answer \in {"ok", "fault", "panic"}
  BY ServedFacts, CallFacts
<1>3. Fetched(got.cells) \in Seq(Nat)
  BY FetchedFacts, CallFacts
<1> HIDE DEF got
<1>4. out' \in Seq(Nat) /\ (answer' # "ok" => out' = << >>)
  BY <1>1, <1>3
<1> QED BY <1>1, <1>2, <1>4 DEF TypeOK

LEMMA WriteKeepsType ==
    ASSUME TypeOK, NEW w \in Writes, Write(w.addr, w.data)
    PROVE  TypeOK'
<1> DEFINE got == Served(w.addr, Len(w.data))
<1>1. /\ DOMAIN got.cells \subseteq DOMAIN w.data
      /\ bytes' = Stored(got.cells, w.data)
      /\ answer' = got.answer /\ out' = << >>
  BY WriteFacts
<1>2. got.answer \in {"ok", "fault", "panic"}
  BY ServedFacts, CallFacts
<1> HIDE DEF got
<1>3. /\ DOMAIN bytes' = DOMAIN bytes
      /\ \A b \in DOMAIN bytes : bytes'[b] \in Seq(Nat) /\ Len(bytes'[b]) = Len(bytes[b])
  BY <1>1, StoredFacts, CallFacts
<1> QED BY <1>1, <1>2, <1>3 DEF TypeOK

(* Everything a Context does to its memory is the memory's own step. *)
LEMMA ContextUsesGuest == Spec => GuestSpec
<1>1. Init => GuestInit
  BY DEF Init
<1>2. [Next]_vars => [GuestNext]_guestVars
  BY DEF Next, Prepare, RegisterHandler, SetTrace, DispatchOn, vars
<1> QED BY <1>1, <1>2, PTL DEF Spec, GuestSpec

(* Every reachable state of the memory is well typed: a region is a buffer  *)
(* that could be allocated, and a read hands out bytes or an error.         *)
THEOREM GuestTypeCorrect == Spec => []TypeOK
<1>1. GuestInit => TypeOK
  BY DEF GuestInit, TypeOK
<1>2. TypeOK /\ [GuestNext]_guestVars => TypeOK'
  <2> SUFFICES ASSUME TypeOK, [GuestNext]_guestVars PROVE TypeOK'
    OBVIOUS
  <2>1. CASE UNCHANGED guestVars
    BY <2>1 DEF guestVars, TypeOK
  <2> QED BY <2>1, MapAnonKeepsType, ReadKeepsType, WriteKeepsType DEF GuestNext
<1> QED BY <1>1, <1>2, ContextUsesGuest, PTL DEF GuestSpec

-----------------------------------------------------------------------------
(* What an ok map_anon adds. *)
LEMMA MapAnonAdds ==
    ASSUME TypeOK, NEW m \in Maps, MapAnon(m.addr, m.len), answer' = "ok"
    PROVE  /\ m.addr \notin DOMAIN bytes /\ m.len <= MaxBuffer
           /\ DOMAIN bytes' = DOMAIN bytes \cup {m.addr}
           /\ \A b \in DOMAIN bytes : bytes'[b] = bytes[b]
           /\ Len(bytes'[m.addr]) = m.len
           /\ \A k \in 1 .. m.len : bytes'[m.addr][k] = 0
<1> DEFINE zeros == [i \in 1 .. m.len |-> 0]
<1>1. m.len \in Nat /\ MaxBuffer \in Nat
  BY CallFacts, InMemGuestAssumption
<1>2. /\ m.addr \notin DOMAIN bytes /\ m.len <= MaxBuffer
      /\ bytes' = [b \in DOMAIN bytes \cup {m.addr} |->
                      IF b = m.addr THEN zeros ELSE bytes[b]]
  BY <1>1 DEF MapAnon
<1>3. Len(zeros) = m.len /\ \A k \in 1 .. m.len : zeros[k] = 0
  BY <1>1
<1> HIDE DEF zeros
<1> QED BY <1>2, <1>3

(* Where a region is mapped behind an address, or in front of the base that *)
(* serves it, the address is served as before.                              *)
LEMMA MapAnonHides ==
    ASSUME TypeOK, NEW m \in Maps, MapAnon(m.addr, m.len),
           NEW a \in Addresses, NEW b \in Holder(Extents, a),
           ~(b < m.addr /\ m.addr <= a)
    PROVE  Holder(Extents, a)' = {b} /\ bytes'[b] = bytes[b]
<1> USE RegionsAssumption
<1>1. /\ b \in DOMAIN bytes /\ b \in Nat /\ Extents[b] \in Nat
      /\ b <= a /\ a - b < Extents[b]
      /\ \A c \in DOMAIN bytes : c <= a => c <= b
      /\ Holder(Extents, a) = {b}
  <2>1. AreExtents(Extents) /\ DOMAIN Extents = DOMAIN bytes
    BY RegionFacts
  <2> QED BY <2>1, HolderFacts
<1>2. m.addr \in Nat /\ a \in Nat
  BY CallFacts DEF Addresses
<1>3. CASE answer' # "ok"
  <2>1. bytes' = bytes
    BY <1>3 DEF MapAnon
  <2>2. Extents' = Extents
    BY <2>1 DEF Extents
  <2> HIDE DEF Extents
  <2>3. Holder(Extents, a)' = Holder(Extents, a)
    BY <2>2 DEF Holder
  <2> QED BY <1>1, <2>1, <2>3
<1>4. CASE answer' = "ok"
  <2>1. /\ m.addr \notin DOMAIN bytes
        /\ DOMAIN bytes' = DOMAIN bytes \cup {m.addr}
        /\ \A c \in DOMAIN bytes : bytes'[c] = bytes[c]
    BY <1>4, MapAnonAdds
  <2>2. /\ DOMAIN Extents' = DOMAIN bytes'
        /\ Extents'[b] = Extents[b]
    BY <1>1, <2>1 DEF Extents
  <2>3. m.addr < b \/ a < m.addr
    BY <1>1, <1>2, <2>1
  <2>4. \A c \in DOMAIN bytes' : c <= a => c <= b
    BY <1>1, <1>2, <2>1, <2>3
  <2>5. \A c \in DOMAIN bytes' : c \in Nat
    BY <1>2, <2>1, RegionFacts
  <2> HIDE DEF Extents
  <2>6. b \in Holder(Extents, a)'
    BY <1>1, <2>1, <2>2, <2>4 DEF Holder
  <2>7. \A c \in Holder(Extents, a)' : c = b
    <3> TAKE c \in Holder(Extents, a)'
    <3>1. /\ c \in DOMAIN bytes' /\ c <= a
          /\ \A e \in DOMAIN bytes' : e <= a => e <= c
      BY <2>2 DEF Holder
    <3>2. c <= b /\ b <= c
      BY <1>1, <2>1, <2>4, <3>1
    <3> QED BY <1>1, <2>5, <3>1, <3>2
  <2> QED BY <1>1, <2>1, <2>6, <2>7
<1> QED BY <1>3, <1>4

(* map_anon refuses no more than an equal base, so a new region may hide    *)
(* bytes of an older one; it hides only those behind its base in a region   *)
(* that began in front of it, and every other byte is read as before.       *)
THEOREM MappingHidesOnlyInside == Spec => MapHidesOnlyInside
<1>1. TypeOK =>
        \A m \in Maps : MapAnon(m.addr, m.len) =>
            \A a \in Addresses : \A b \in Holder(Extents, a) :
                \/ b < m.addr /\ m.addr <= a
                \/ Holder(Extents, a)' = {b} /\ bytes'[b] = bytes[b]
  BY MapAnonHides
<1> QED BY <1>1, GuestTypeCorrect, PTL DEF MapHidesOnlyInside

-----------------------------------------------------------------------------
(* After a write its bytes are in its cells. *)
LEMMA WriteFills ==
    ASSUME TypeOK, NEW w \in Writes, Write(w.addr, w.data),
           NEW cells, cells = Served(w.addr, Len(w.data)).cells
    PROVE  \A i \in 1 .. Len(cells) : bytes'[cells[i][1]][cells[i][2]] = w.data[i]
<1> SUFFICES ASSUME NEW i \in 1 .. Len(cells)
             PROVE  bytes'[cells[i][1]][cells[i][2]] = w.data[i]
  OBVIOUS
<1>1. /\ w.addr \in Addresses /\ Len(w.data) \in 0 .. Space
      /\ DOMAIN cells \subseteq DOMAIN w.data /\ w.data \in Seq(Nat)
      /\ bytes' = Stored(cells, w.data)
  BY CallFacts, WriteFacts
<1>2. PICK b \in DOMAIN bytes : \E k \in 1 .. Len(bytes[b]) :
          /\ cells[i] = <<b, k>>
          /\ cells[i][1] = b /\ cells[i][2] = k
          /\ StandsFor(b, k, w.addr + i - 1)
  BY <1>1, ServedFacts
<1>3. PICK k \in 1 .. Len(bytes[b]) : /\ cells[i] = <<b, k>>
                                      /\ cells[i][1] = b /\ cells[i][2] = k
  BY <1>2
<1>4. DOMAIN cells = 1 .. Len(cells) /\ \A j \in 1 .. Len(cells) : cells[j] = cells[i] => j = i
  BY <1>1, ServedFacts
<1>5. i \in DOMAIN cells /\ OnlyCell(cells, i, b, k)
  BY <1>3, <1>4 DEF OnlyCell
<1>6. bytes'[b][k] = w.data[i]
  BY <1>1, <1>3, <1>5, StoredFacts
<1> QED BY <1>3, <1>6

(* The address is none of the n from addr. *)
Outside(a, addr, n) == \A i \in 1 .. n : a # Plus(addr, i - 1)

(* An index stands for one address only. *)
LEMMA StandsForOne ==
    ASSUME NEW b \in Nat, NEW k \in Nat, NEW a \in Addresses, NEW addr \in Addresses,
           NEW j \in 1 .. Space,
           b + k - 1 = a, StandsFor(b, k, addr + j - 1)
    PROVE  a = Plus(addr, j - 1)
<1> USE RegionsAssumption DEF Addresses
<1>1. j - 1 \in 0 .. Space - 1 /\ addr + (j - 1) = addr + j - 1
  OBVIOUS
<1>2. Plus(addr, j - 1) = IF addr + j - 1 < Space THEN addr + j - 1 ELSE addr + j - 1 - Space
  BY <1>1, PlusWrapsOnce
<1>3. a = addr + j - 1 \/ a = addr + j - 1 - Space
  BY DEF StandsFor
<1>4. a \in 0 .. Space - 1 /\ addr + j - 1 \in Nat
  OBVIOUS
<1> HIDE DEF Addresses
<1> QED BY <1>2, <1>3, <1>4

LEMMA OneOfOne ==
    ASSUME NEW n \in 0 .. 1, NEW i \in 1 .. n
    PROVE  i = 1
OBVIOUS

(* And every other address is served the byte it was. *)
LEMMA WriteSpares ==
    ASSUME TypeOK, NEW w \in Writes, Write(w.addr, w.data),
           NEW a \in Addresses,
           Outside(a, w.addr, Len(w.data)),
           NEW cells, cells = Served(a, 1).cells
    PROVE  \A i \in 1 .. Len(cells) :
              bytes'[cells[i][1]][cells[i][2]] = bytes[cells[i][1]][cells[i][2]]
<1> SUFFICES ASSUME NEW i \in 1 .. Len(cells)
             PROVE  bytes'[cells[i][1]][cells[i][2]] = bytes[cells[i][1]][cells[i][2]]
  OBVIOUS
<1> DEFINE set == Served(w.addr, Len(w.data)).cells
<1>1. /\ w.addr \in Addresses /\ Len(w.data) \in 0 .. Space
      /\ DOMAIN set \subseteq DOMAIN w.data /\ w.data \in Seq(Nat)
      /\ bytes' = Stored(set, w.data)
      /\ DOMAIN w.data = 1 .. Len(w.data)
  BY CallFacts, WriteFacts
<1>2. 1 \in 0 .. Space
  BY RegionsAssumption
<1>3. PICK b \in DOMAIN bytes : \E k \in 1 .. Len(bytes[b]) :
          /\ cells[i] = <<b, k>>
          /\ cells[i][1] = b /\ cells[i][2] = k
          /\ StandsFor(b, k, a + i - 1)
  BY <1>2, ServedFacts
<1>4. PICK k \in 1 .. Len(bytes[b]) : /\ cells[i] = <<b, k>>
                                      /\ cells[i][1] = b /\ cells[i][2] = k
                                      /\ StandsFor(b, k, a + i - 1)
  BY <1>3
<1>5. i = 1
  <2>1. Len(cells) \in 0 .. 1
    BY <1>2, ServedFacts
  <2> QED BY <2>1, OneOfOne
<1>6. /\ a \in 0 .. Space - 1 /\ w.addr \in 0 .. Space - 1 /\ Space \in Nat
      /\ b \in Nat /\ k \in Nat /\ a + i - 1 = a
  <2>1. a \in 0 .. Space - 1 /\ w.addr \in 0 .. Space - 1 /\ Space \in Nat
    BY <1>1, RegionsAssumption DEF Addresses
  <2>2. b \in Nat /\ k \in Nat
    BY RegionFacts
  <2> QED BY <1>5, <2>1, <2>2
<1>7. b + k - 1 = a
  BY <1>4, <1>6 DEF StandsFor
<1>8. ASSUME NEW j \in DOMAIN set, set[j] = <<b, k>>
      PROVE  FALSE
  <2>1. j \in 1 .. Len(set) /\ j \in DOMAIN w.data
    BY <1>1, ServedFacts
  <2>2. PICK c \in DOMAIN bytes : \E h \in 1 .. Len(bytes[c]) :
            /\ set[j] = <<c, h>>
            /\ set[j][1] = c /\ set[j][2] = h
            /\ StandsFor(c, h, w.addr + j - 1)
    BY <1>1, <2>1, ServedFacts
  <2>3. StandsFor(b, k, w.addr + j - 1)
    BY <1>8, <2>2
  <2>4. j \in 1 .. Space
    BY <1>1, <1>6, <2>1
  <2>5. a = Plus(w.addr, j - 1)
    BY <1>1, <1>6, <1>7, <2>3, <2>4, StandsForOne
  <2> QED BY <1>1, <2>1, <2>5 DEF Outside
<1> HIDE DEF set
<1>9. NoCell(set, b, k)
  BY <1>8 DEF NoCell
<1>10. bytes'[b][k] = bytes[b][k]
  BY <1>1, <1>9, StoredFacts
<1> QED BY <1>4, <1>10

LEMMA WriteShows ==
    ASSUME TypeOK, NEW w \in Writes, Write(w.addr, w.data), answer' = "ok"
    PROVE  /\ Served(w.addr, Len(w.data)).answer = "ok"
           /\ Fetched(Served(w.addr, Len(w.data)).cells)' = w.data
<1> DEFINE got == Served(w.addr, Len(w.data))
           cells == got.cells
<1>1. /\ w.addr \in Addresses /\ Len(w.data) \in 0 .. Space /\ Len(w.data) \in Nat
      /\ w.data \in Seq(Nat) /\ DOMAIN w.data = 1 .. Len(w.data)
      /\ got.answer = "ok" /\ Extents' = Extents
  BY CallFacts, WriteFacts
<1>2. got' = got
  BY <1>1, ServedByExtents
<1>3. Len(cells) = Len(w.data) /\ DOMAIN cells = 1 .. Len(w.data)
  BY <1>1, ServedFacts
<1>4. \A i \in 1 .. Len(w.data) : bytes'[cells[i][1]][cells[i][2]] = w.data[i]
  BY <1>3, WriteFills
<1> HIDE DEF got
<1>5. Fetched(cells)' = [i \in DOMAIN cells |-> bytes'[cells[i][1]][cells[i][2]]]
  BY <1>2 DEF Fetched
<1>6. Fetched(cells)' = [i \in 1 .. Len(w.data) |-> w.data[i]]
  BY <1>3, <1>4, <1>5
<1>7. w.data = [i \in 1 .. Len(w.data) |-> w.data[i]]
  BY <1>1
<1> QED BY <1>1, <1>6, <1>7 DEF got

LEMMA WriteHides ==
    ASSUME TypeOK, NEW w \in Writes, Write(w.addr, w.data),
           NEW a \in Addresses \ {Plus(w.addr, i - 1) : i \in DOMAIN w.data}
    PROVE  Fetched(Served(a, 1).cells)' = Fetched(Served(a, 1).cells)
<1> DEFINE got == Served(a, 1)
           cells == got.cells
<1>1. a \in Addresses /\ 1 \in 0 .. Space /\ Extents' = Extents
  BY WriteFacts, RegionsAssumption
<1>2. Outside(a, w.addr, Len(w.data))
  BY CallFacts DEF Outside
<1>3. got' = got
  BY <1>1, ServedByExtents
<1>4. DOMAIN cells = 1 .. Len(cells)
  BY <1>1, ServedFacts
<1>5. \A i \in 1 .. Len(cells) :
          bytes'[cells[i][1]][cells[i][2]] = bytes[cells[i][1]][cells[i][2]]
  BY <1>1, <1>2, WriteSpares
<1> HIDE DEF got
<1>6. Fetched(cells)' = [i \in DOMAIN cells |-> bytes'[cells[i][1]][cells[i][2]]]
  BY <1>3 DEF Fetched
<1>7. Fetched(cells)' = [i \in DOMAIN cells |-> bytes[cells[i][1]][cells[i][2]]]
  BY <1>4, <1>5, <1>6
<1>8. Fetched(cells)' = Fetched(cells)
  BY <1>7 DEF Fetched
<1> QED BY <1>8 DEF got

(* Whatever the layout, what an ok write was given is what a read of the    *)
(* same range then returns, and a byte that can be read elsewhere is what   *)
(* it was: the cells of a range are one for each address, in a region that  *)
(* holds it, and a write moves none of them.                                *)
THEOREM WrittenIsReadBack == Spec => WrittenIsRead
<1>1. TypeOK =>
        \A w \in Writes : answer' = "ok" /\ Write(w.addr, w.data) =>
            LET range == {Plus(w.addr, i - 1) : i \in DOMAIN w.data}
                got   == Served(w.addr, Len(w.data))
            IN  /\ got.answer = "ok" /\ Fetched(got.cells)' = w.data
                /\ \A a \in Addresses \ range :
                      LET cells == Served(a, 1).cells
                      IN  Fetched(cells)' = Fetched(cells)
  <2> SUFFICES ASSUME TypeOK, NEW w \in Writes, answer' = "ok", Write(w.addr, w.data)
               PROVE  /\ Served(w.addr, Len(w.data)).answer = "ok"
                      /\ Fetched(Served(w.addr, Len(w.data)).cells)' = w.data
                      /\ \A a \in Addresses \ {Plus(w.addr, i - 1) : i \in DOMAIN w.data} :
                            Fetched(Served(a, 1).cells)' = Fetched(Served(a, 1).cells)
    OBVIOUS
  <2> QED BY WriteShows, WriteHides
<1> QED BY <1>1, GuestTypeCorrect, PTL DEF WrittenIsRead


-----------------------------------------------------------------------------
(* The byte memory that regions kept apart are. *)
AreRegions(regions) ==
    /\ DOMAIN regions \subseteq Nat
    /\ \A b \in DOMAIN regions : regions[b] \in Seq(Nat)

(* The index of an address in the region that covers it, and there is one.  *)
LEMMA ApartFacts ==
    ASSUME NEW regions, AreRegions(regions), Apart(regions)
    PROVE  /\ \A b \in DOMAIN regions :
                 /\ b \in Nat /\ Len(regions[b]) \in Nat
                 /\ 1 <= Len(regions[b]) /\ b + Len(regions[b]) < Space
           /\ \A b, c \in DOMAIN regions : \A a \in Nat :
                 /\ b <= a /\ a < b + Len(regions[b])
                 /\ c <= a /\ a < c + Len(regions[c])
                 => b = c
<1>1. ASSUME NEW b \in DOMAIN regions
      PROVE  /\ b \in Nat /\ Len(regions[b]) \in Nat
             /\ 1 <= Len(regions[b]) /\ b + Len(regions[b]) < Space
  <2>1. regions[b] \in Seq(Nat) /\ regions[b] # << >>
    BY DEF AreRegions, Apart
  <2>2. Len(regions[b]) \in Nat /\ Len(regions[b]) # 0
    BY <2>1
  <2> QED BY <2>2 DEF AreRegions, Apart
<1>2. ASSUME NEW b \in DOMAIN regions, NEW c \in DOMAIN regions, NEW a \in Nat,
             b <= a, a < b + Len(regions[b]), c <= a, a < c + Len(regions[c])
      PROVE  b = c
  <2>1. ~(b < c) /\ ~(c < b)
    BY <1>1, <1>2 DEF Apart
  <2> QED BY <1>1, <2>1
<1> QED BY <1>1, <1>2

LEMMA CellsFacts ==
    ASSUME NEW regions, AreRegions(regions), Apart(regions)
    PROVE  /\ \A a \in DOMAIN CellsOf(regions) :
                 \E b \in DOMAIN regions : \E k \in 1 .. Len(regions[b]) : b + k - 1 = a
           /\ \A b \in DOMAIN regions : \A k \in 1 .. Len(regions[b]) :
                 /\ b + k - 1 \in DOMAIN CellsOf(regions)
                 /\ CellsOf(regions)[b + k - 1] = regions[b][k]
           /\ \A b, c \in DOMAIN regions :
                 \A k \in 1 .. Len(regions[b]), h \in 1 .. Len(regions[c]) :
                    b + k - 1 = c + h - 1 => b = c /\ k = h
           /\ DOMAIN CellsOf(regions) \subseteq Addresses
<1> DEFINE covers(b, a) == b <= a /\ a < b + Len(regions[b])
           covered == {x \in Addresses : \E b \in DOMAIN regions : covers(b, x)}
           holder(a) == CHOOSE b \in DOMAIN regions : covers(b, a)
<1>1. CellsOf(regions) = [a \in covered |-> regions[holder(a)][a - holder(a) + 1]]
  BY DEF CellsOf
<1>2. \A b \in DOMAIN regions :
          /\ b \in Nat /\ Len(regions[b]) \in Nat
          /\ 1 <= Len(regions[b]) /\ b + Len(regions[b]) < Space
  BY ApartFacts
<1>3. \A a \in covered : a \in Nat
  BY RegionsAssumption DEF Addresses
<1>4. ASSUME NEW a \in covered
      PROVE  \E b \in DOMAIN regions : \E k \in 1 .. Len(regions[b]) : b + k - 1 = a
  <2>1. PICK b \in DOMAIN regions : covers(b, a)
    OBVIOUS
  <2>2. a - b + 1 \in 1 .. Len(regions[b]) /\ b + (a - b + 1) - 1 = a
    BY <1>2, <1>3, <2>1
  <2> QED BY <2>2
<1>5. ASSUME NEW b \in DOMAIN regions, NEW k \in 1 .. Len(regions[b])
      PROVE  /\ b + k - 1 \in covered
             /\ CellsOf(regions)[b + k - 1] = regions[b][k]
  <2> DEFINE a == b + k - 1
  <2>1. a \in Addresses /\ a \in Nat /\ covers(b, a) /\ a - b + 1 = k
    BY <1>2, RegionsAssumption DEF Addresses
  <2>2. a \in covered
    BY <2>1
  <2> HIDE DEF a
  <2>3. holder(a) \in DOMAIN regions /\ covers(holder(a), a)
    BY <2>1
  <2>4. holder(a) = b
    <3> HIDE DEF holder
    <3> QED BY <2>1, <2>3, ApartFacts
  <2> HIDE DEF holder, covered
  <2>5. CellsOf(regions)[a] = regions[b][k]
    BY <1>1, <2>1, <2>2, <2>4
  <2> QED BY <2>2, <2>5 DEF a
<1>6. ASSUME NEW b \in DOMAIN regions, NEW c \in DOMAIN regions,
             NEW k \in 1 .. Len(regions[b]), NEW h \in 1 .. Len(regions[c]),
             b + k - 1 = c + h - 1
      PROVE  b = c /\ k = h
  <2> DEFINE a == b + k - 1
  <2>1. a \in Nat /\ covers(b, a)
    BY <1>2
  <2>2. covers(c, a)
    BY <1>2, <1>6
  <2>3. b = c
    <3> HIDE DEF a
    <3> QED BY <2>1, <2>2, ApartFacts
  <2> QED BY <1>2, <1>6, <2>3
<1>7. DOMAIN CellsOf(regions) = covered /\ covered \subseteq Addresses
  BY <1>1
<1> HIDE DEF covered
<1> QED BY <1>4, <1>5, <1>6, <1>7


LEMMA RegionsOfState ==
    ASSUME TypeOK
    PROVE  AreRegions(bytes)
BY RegionFacts DEF AreRegions

(* The cell is the one of the address. *)
AtAddress(cell, a) ==
    \E b \in DOMAIN bytes : \E k \in 1 .. Len(bytes[b]) :
        /\ cell = <<b, k>>
        /\ cell[1] = b /\ cell[2] = k
        /\ b + k - 1 = a

(* A range of the in-memory guest while its regions are apart: it never     *)
(* wraps, each of its cells is that of its address, an ok range is mapped   *)
(* and a fault is at the first address that is not.                         *)
LEMMA ApartServed ==
    ASSUME TypeOK, Apart(bytes), NEW addr \in Addresses, NEW n \in 0 .. Space,
           NEW got, got = Served(addr, n)
    PROVE  /\ got.answer \in {"ok", "fault"}
           /\ Len(got.cells) \in 0 .. n /\ DOMAIN got.cells = 1 .. Len(got.cells)
           /\ \A i \in 1 .. Len(got.cells) :
                 AtAddress(got.cells[i], addr + i - 1)
           /\ got.answer = "ok" => Len(got.cells) = n
           /\ got.answer = "fault" =>
                 /\ Len(got.cells) < n
                 /\ addr + Len(got.cells) \notin DOMAIN CellsOf(bytes)
<1> DEFINE cells == got.cells
           m == Len(cells)
<1>1. /\ m \in 0 .. n /\ DOMAIN cells = 1 .. m
      /\ got.answer \in {"ok", "fault", "panic"}
      /\ got.answer = "ok" => m = n
      /\ got.answer = "fault" => m < n /\ Holder(Extents, Plus(addr, m)) = {}
      /\ got.answer = "panic" => ReachesLast(Extents)
      /\ \A i \in 1 .. m :
            \E b \in DOMAIN bytes : \E k \in 1 .. Len(bytes[b]) :
                /\ cells[i] = <<b, k>>
                /\ cells[i][1] = b /\ cells[i][2] = k
                /\ StandsFor(b, k, addr + i - 1)
  BY ServedFacts
<1>2. /\ \A b \in DOMAIN bytes :
            /\ b \in Nat /\ Len(bytes[b]) \in Nat
            /\ 1 <= Len(bytes[b]) /\ b + Len(bytes[b]) < Space
      /\ addr \in 0 .. Space - 1 /\ Space \in Nat /\ n \in Nat /\ m \in Nat
  BY <1>1, RegionsOfState, ApartFacts, RegionsAssumption DEF Addresses
<1> HIDE DEF m, cells
<1>3. got.answer # "panic"
  BY <1>1, <1>2, RegionFacts DEF ReachesLast
<1>4. ASSUME NEW i \in 1 .. m
      PROVE  addr + i - 1 # Space - 1
  <2>1. PICK b \in DOMAIN bytes : \E k \in 1 .. Len(bytes[b]) :
            /\ cells[i] = <<b, k>>
            /\ cells[i][1] = b /\ cells[i][2] = k
            /\ StandsFor(b, k, addr + i - 1)
    BY <1>1
  <2>2. PICK k \in 1 .. Len(bytes[b]) : StandsFor(b, k, addr + i - 1)
    BY <2>1
  <2> QED BY <1>2, <2>2 DEF StandsFor
<1>5. addr + m < Space
  <2> SUFFICES ASSUME addr + m >= Space PROVE FALSE
    BY <1>2
  <2>1. Space - addr \in 1 .. m /\ addr + (Space - addr) - 1 = Space - 1
    BY <1>2
  <2> QED BY <1>4, <2>1
<1>6. ASSUME NEW i \in 1 .. m
      PROVE  AtAddress(cells[i], addr + i - 1)
  <2>1. PICK b \in DOMAIN bytes : \E k \in 1 .. Len(bytes[b]) :
            /\ cells[i] = <<b, k>>
            /\ cells[i][1] = b /\ cells[i][2] = k
            /\ StandsFor(b, k, addr + i - 1)
    BY <1>1
  <2>2. PICK k \in 1 .. Len(bytes[b]) : /\ cells[i] = <<b, k>>
                                        /\ cells[i][1] = b /\ cells[i][2] = k
                                        /\ StandsFor(b, k, addr + i - 1)
    BY <2>1
  <2>3. b + k - 1 = addr + i - 1
    BY <1>2, <1>5, <2>2 DEF StandsFor
  <2> QED BY <2>2, <2>3 DEF AtAddress
<1>7. ASSUME got.answer = "fault"
      PROVE  addr + m \notin DOMAIN CellsOf(bytes)
  <2> DEFINE a == addr + m
  <2>1. Plus(addr, m) = a /\ a \in Addresses
    <3>1. m \in 0 .. Space - 1
      BY <1>2, <1>5
    <3> QED BY <1>2, <1>5, <3>1, PlusWrapsOnce DEF Addresses
  <2>2. Holder(Extents, a) = {} /\ a \in Nat
    BY <1>1, <1>2, <1>7, <2>1
  <2> HIDE DEF a
  <2> SUFFICES ASSUME a \in DOMAIN CellsOf(bytes) PROVE FALSE
    BY DEF a
  <2>3. PICK b \in DOMAIN bytes : \E k \in 1 .. Len(bytes[b]) : b + k - 1 = a
    BY RegionsOfState, CellsFacts
  <2>4. b <= a /\ a - b < Len(bytes[b]) /\ a < b + Len(bytes[b])
    BY <1>2, <2>2, <2>3
  <2>5. \A c \in DOMAIN bytes : c <= a => c <= b
    <3> TAKE c \in DOMAIN bytes
    <3>1. b < c => a < c
      BY <1>2, <2>2, <2>4 DEF Apart
    <3> QED BY <1>2, <2>2, <3>1
  <2>6. b \in Holder(Extents, a)
    BY <2>4, <2>5, RegionFacts DEF Holder
  <2> QED BY <2>2, <2>6
<1> QED BY <1>1, <1>3, <1>6, <1>7 DEF m, cells

(* What is mapped of the range and what not. *)
LEMMA ApartRange ==
    ASSUME TypeOK, Apart(bytes), NEW addr \in Addresses, NEW n \in 0 .. Space,
           NEW got, got = Served(addr, n)
    PROVE  /\ addr .. addr + Len(got.cells) - 1 \subseteq DOMAIN CellsOf(bytes)
           /\ got.answer = "ok" <=> addr .. addr + n - 1 \subseteq DOMAIN CellsOf(bytes)
<1> DEFINE cells == got.cells
           m == Len(cells)
<1>1. /\ m \in 0 .. n /\ got.answer \in {"ok", "fault"}
      /\ got.answer = "ok" => m = n
      /\ got.answer = "fault" => m < n /\ addr + m \notin DOMAIN CellsOf(bytes)
      /\ \A i \in 1 .. m : AtAddress(cells[i], addr + i - 1)
  BY ApartServed
<1>2. addr \in Nat /\ n \in Nat
  BY RegionsAssumption DEF Addresses
<1> HIDE DEF m, cells
<1>3. ASSUME NEW a \in addr .. addr + m - 1 PROVE a \in DOMAIN CellsOf(bytes)
  <2>1. a - addr + 1 \in 1 .. m /\ addr + (a - addr + 1) - 1 = a
    BY <1>1, <1>2
  <2>2. PICK b \in DOMAIN bytes : \E k \in 1 .. Len(bytes[b]) : b + k - 1 = a
    BY <1>1, <2>1 DEF AtAddress
  <2> QED BY <2>2, RegionsOfState, CellsFacts
<1>4. got.answer = "fault" => ~(addr .. addr + n - 1 \subseteq DOMAIN CellsOf(bytes))
  <2>1. got.answer = "fault" => addr + m \in addr .. addr + n - 1
    BY <1>1, <1>2
  <2> QED BY <1>1, <2>1
<1> QED BY <1>1, <1>3, <1>4 DEF m, cells


LEMMA CellsOfNext == CellsOf(bytes)' = CellsOf(bytes')
BY DEF CellsOf

(* The calls while regions are apart, each the byte memory's. *)
LEMMA ApartRead ==
    ASSUME TypeOK, Apart(bytes), NEW r \in Reads, Read(r.addr, r.len), r.len <= MaxBuffer
    PROVE  Memory!Read(r.addr, r.len)
<1> DEFINE got == Served(r.addr, r.len)
           cells == got.cells
<1>1. /\ r.addr \in Addresses /\ r.addr \in Nat
      /\ r.len \in 0 .. Space /\ r.len \in Nat /\ MaxBuffer \in Nat
  BY CallFacts, InMemGuestAssumption, RegionsAssumption DEF Addresses
<1>2. /\ answer' = got.answer /\ bytes' = bytes
      /\ out' = IF answer' # "ok" THEN << >> ELSE Fetched(cells)
  BY <1>1 DEF Read
<1>3. CellsOf(bytes)' = CellsOf(bytes)
  BY <1>2, CellsOfNext
<1>4. got.answer \in {"ok", "fault"}
  BY <1>1, ApartServed
<1>5. got.answer = "ok" <=> r.addr .. r.addr + r.len - 1 \subseteq DOMAIN CellsOf(bytes)
  BY <1>1, ApartRange
<1>6. ASSUME got.answer = "ok"
      PROVE  Fetched(cells) = [i \in 1 .. r.len |-> CellsOf(bytes)[r.addr + i - 1]]
  <2>1. /\ DOMAIN cells = 1 .. r.len /\ Len(cells) = r.len
        /\ \A i \in 1 .. r.len :
              AtAddress(cells[i], r.addr + i - 1)
    BY <1>1, <1>6, ApartServed
  <2> HIDE DEF cells, got
  <2>2. ASSUME NEW i \in 1 .. r.len
        PROVE  bytes[cells[i][1]][cells[i][2]] = CellsOf(bytes)[r.addr + i - 1]
    <3>1. PICK b \in DOMAIN bytes : \E k \in 1 .. Len(bytes[b]) :
              /\ cells[i] = <<b, k>>
              /\ cells[i][1] = b /\ cells[i][2] = k
              /\ b + k - 1 = r.addr + i - 1
      BY <2>1 DEF AtAddress
    <3>2. PICK k \in 1 .. Len(bytes[b]) : /\ cells[i][1] = b /\ cells[i][2] = k
                                          /\ b + k - 1 = r.addr + i - 1
      BY <3>1
    <3>3. CellsOf(bytes)[b + k - 1] = bytes[b][k]
      BY RegionsOfState, CellsFacts
    <3> QED BY <3>2, <3>3
  <2>3. Fetched(cells) = [i \in 1 .. r.len |-> bytes[cells[i][1]][cells[i][2]]]
    BY <2>1 DEF Fetched
  <2> QED BY <2>2, <2>3
<1> HIDE DEF got, cells
<1>7. CASE got.answer = "ok"
  BY <1>2, <1>3, <1>5, <1>6, <1>7 DEF Memory!Read, Memory!Range
<1>8. CASE got.answer = "fault"
  BY <1>2, <1>3, <1>5, <1>8 DEF Memory!Read, Memory!Range
<1> QED BY <1>4, <1>7, <1>8

(* A write of m bytes, said of the byte memory. *)
LEMMA ApartStores ==
    ASSUME TypeOK, Apart(bytes), NEW w \in Writes, Write(w.addr, w.data),
           NEW got, got = Served(w.addr, Len(w.data))
    PROVE  CellsOf(bytes') =
             [a \in DOMAIN CellsOf(bytes) |->
                 IF a \in w.addr .. w.addr + Len(got.cells) - 1
                 THEN w.data[a - w.addr + 1] ELSE CellsOf(bytes)[a]]
<1> DEFINE cells == got.cells
           m == Len(cells)
<1>1. /\ w.addr \in Addresses /\ Len(w.data) \in 0 .. Space
      /\ w.data \in Seq(Nat) /\ DOMAIN cells \subseteq DOMAIN w.data
      /\ bytes' = Stored(cells, w.data) /\ w.addr \in Nat
  BY CallFacts, WriteFacts, RegionsAssumption DEF Addresses
<1>2. /\ m \in Nat /\ DOMAIN cells = 1 .. m
      /\ \A i \in 1 .. m :
            AtAddress(cells[i], w.addr + i - 1)
  <2>1. w.addr \in Addresses /\ Len(w.data) \in 0 .. Space
    BY <1>1
  <2>2. m \in 0 .. Len(w.data) /\ DOMAIN cells = 1 .. m
    BY <2>1, ApartServed
  <2>3. ASSUME NEW i \in 1 .. m
        PROVE  AtAddress(cells[i], w.addr + i - 1)
    BY <2>1, ApartServed
  <2>4. m \in 0 .. Len(w.data) => m \in Nat
    <3>1. Len(w.data) \in Nat
      BY <1>1
    <3> HIDE DEF m
    <3> QED BY <3>1
  <2> HIDE DEF m, cells
  <2> QED BY <2>2, <2>3, <2>4
<1>3. m \in Nat /\ w.addr \in Nat
  BY <1>1, <1>2
<1> HIDE DEF m, cells
<1>4. /\ DOMAIN bytes' = DOMAIN bytes
      /\ \A b \in DOMAIN bytes :
            /\ bytes'[b] \in Seq(Nat) /\ Len(bytes'[b]) = Len(bytes[b])
            /\ \A k \in 1 .. Len(bytes[b]) :
                  NoCell(cells, b, k) => bytes'[b][k] = bytes[b][k]
  BY <1>1, StoredFacts
<1>5. AreRegions(bytes) /\ AreRegions(bytes') /\ Apart(bytes')
  <2>1. AreRegions(bytes) /\ AreRegions(bytes')
    BY <1>4, RegionsOfState DEF AreRegions
  <2>2. \A b \in DOMAIN bytes' : bytes'[b] # << >> /\ b + Len(bytes'[b]) < Space
    <3> TAKE b \in DOMAIN bytes'
    <3>1. Len(bytes'[b]) # 0 /\ b + Len(bytes'[b]) < Space
      BY <1>4, <2>1, ApartFacts
    <3> QED BY <3>1
  <2>3. \A b, c \in DOMAIN bytes' : b < c => b + Len(bytes'[b]) <= c
    BY <1>4 DEF Apart
  <2> QED BY <2>1, <2>2, <2>3 DEF Apart
<1>6. DOMAIN CellsOf(bytes') = DOMAIN CellsOf(bytes)
  <2>1. \A a : a \in DOMAIN CellsOf(bytes') <=> a \in DOMAIN CellsOf(bytes)
    <3>1. ASSUME NEW a \in DOMAIN CellsOf(bytes') PROVE a \in DOMAIN CellsOf(bytes)
      <4>1. PICK b \in DOMAIN bytes' : \E k \in 1 .. Len(bytes'[b]) : b + k - 1 = a
        BY <1>5, CellsFacts
      <4> QED BY <1>4, <1>5, <4>1, CellsFacts
    <3>2. ASSUME NEW a \in DOMAIN CellsOf(bytes) PROVE a \in DOMAIN CellsOf(bytes')
      <4>1. PICK b \in DOMAIN bytes : \E k \in 1 .. Len(bytes[b]) : b + k - 1 = a
        BY <1>5, CellsFacts
      <4> QED BY <1>4, <1>5, <4>1, CellsFacts
    <3> QED BY <3>1, <3>2
  <2> QED BY <2>1
<1>7. ASSUME NEW a \in DOMAIN CellsOf(bytes)
      PROVE  CellsOf(bytes')[a] = IF a \in w.addr .. w.addr + m - 1
                                  THEN w.data[a - w.addr + 1] ELSE CellsOf(bytes)[a]
  <2>1. PICK b \in DOMAIN bytes : \E k \in 1 .. Len(bytes[b]) : b + k - 1 = a
    BY <1>5, CellsFacts
  <2>2. PICK k \in 1 .. Len(bytes[b]) : b + k - 1 = a
    BY <2>1
  <2>3. CellsOf(bytes)[a] = bytes[b][k] /\ CellsOf(bytes')[a] = bytes'[b][k]
    BY <1>4, <1>5, <2>2, CellsFacts
  <2>4. ASSUME NEW i \in 1 .. m, cells[i] = <<b, k>>
        PROVE  w.addr + i - 1 = a
    <3>1. PICK c \in DOMAIN bytes : \E h \in 1 .. Len(bytes[c]) :
              /\ cells[i] = <<c, h>>
              /\ cells[i][1] = c /\ cells[i][2] = h
              /\ c + h - 1 = w.addr + i - 1
      BY <1>2 DEF AtAddress
    <3>2. PICK h \in 1 .. Len(bytes[c]) :
              /\ cells[i] = <<c, h>> /\ c + h - 1 = w.addr + i - 1
      BY <3>1
    <3>3. c = b /\ h = k
      BY <2>4, <3>2
    <3> QED BY <2>2, <3>2, <3>3
  <2>5. a \in Nat
    BY <2>2, RegionFacts
  <2>6. CASE a \in w.addr .. w.addr + m - 1
    <3> DEFINE i == a - w.addr + 1
    <3>1. i \in 1 .. m /\ w.addr + i - 1 = a
      BY <1>3, <2>6
    <3> HIDE DEF i
    <3>2. PICK c \in DOMAIN bytes : \E h \in 1 .. Len(bytes[c]) :
              /\ cells[i] = <<c, h>>
              /\ cells[i][1] = c /\ cells[i][2] = h
              /\ c + h - 1 = w.addr + i - 1
      BY <1>2, <3>1 DEF AtAddress
    <3>3. PICK h \in 1 .. Len(bytes[c]) : /\ cells[i][1] = c /\ cells[i][2] = h
                                          /\ c + h - 1 = w.addr + i - 1
      BY <3>2
    <3>4. c = b /\ h = k
      BY <1>5, <2>2, <3>1, <3>3, CellsFacts
    <3>5. bytes'[cells[i][1]][cells[i][2]] = w.data[i]
      BY <3>1, WriteFills DEF cells, m
    <3> QED BY <2>3, <2>6, <3>3, <3>4, <3>5 DEF i
  <2>7. CASE a \notin w.addr .. w.addr + m - 1
    <3>1. \A i \in 1 .. m : w.addr + i - 1 \in w.addr .. w.addr + m - 1
      BY <1>3
    <3>2. \A i \in 1 .. m : cells[i] # <<b, k>>
      BY <2>4, <2>7, <3>1
    <3>3. NoCell(cells, b, k)
      BY <1>2, <3>2 DEF NoCell
    <3> QED BY <1>4, <2>3, <2>7, <3>3
  <2> QED BY <2>6, <2>7
<1>8. CellsOf(bytes') = [a \in DOMAIN CellsOf(bytes') |-> CellsOf(bytes')[a]]
  BY DEF CellsOf
<1> QED BY <1>6, <1>7, <1>8 DEF m, cells

LEMMA ApartWrite ==
    ASSUME TypeOK, Apart(bytes), NEW w \in Writes, Write(w.addr, w.data)
    PROVE  Memory!Write(w.addr, w.data)
<1> DEFINE got == Served(w.addr, Len(w.data))
           m == Len(got.cells)
<1>1. w.addr \in Addresses /\ Len(w.data) \in 0 .. Space
  BY CallFacts
<1>2. answer' = got.answer /\ out' = << >>
  BY WriteFacts
<1>3. /\ got.answer \in {"ok", "fault"} /\ m \in 0 .. Len(w.data)
      /\ got.answer = "ok" => m = Len(w.data)
  BY <1>1, ApartServed
<1>4. /\ w.addr .. w.addr + m - 1 \subseteq DOMAIN CellsOf(bytes)
      /\ got.answer = "ok" <=>
            w.addr .. w.addr + Len(w.data) - 1 \subseteq DOMAIN CellsOf(bytes)
  BY <1>1, ApartRange
<1>5. CellsOf(bytes)' =
          [a \in DOMAIN CellsOf(bytes) |->
              IF a \in w.addr .. w.addr + m - 1
              THEN w.data[a - w.addr + 1] ELSE CellsOf(bytes)[a]]
  BY CellsOfNext, ApartStores
<1> HIDE DEF got, m
<1>6. Memory!WritePrefix(w.addr, w.data, m)
  BY <1>5 DEF Memory!WritePrefix, Memory!Range
<1> QED BY <1>2, <1>3, <1>4, <1>6 DEF Memory!Write, Memory!Range


LEMMA ApartMapAnon ==
    ASSUME TypeOK, Apart(bytes), TypeOK', Apart(bytes'),
           NEW m \in Maps, MapAnon(m.addr, m.len), Fits(m.len)
    PROVE  Memory!MapAnon(m.addr, m.len)
<1> DEFINE range == m.addr .. m.addr + m.len - 1
<1>1. /\ m.addr \in Nat /\ m.len \in Nat /\ 1 <= m.len /\ MaxBuffer \in Nat
      /\ ~(m.len > MaxBuffer) /\ out' = << >>
      /\ AreRegions(bytes)
  BY CallFacts, InMemGuestAssumption, RegionsAssumption, RegionsOfState
     DEF Addresses, Fits, MapAnon
<1>2. CASE m.addr \in DOMAIN bytes
  <2>1. answer' = "fault" /\ bytes' = bytes
    BY <1>2 DEF MapAnon
  <2>2. 1 \in 1 .. Len(bytes[m.addr]) /\ m.addr + 1 - 1 = m.addr
    BY <1>1, <1>2, ApartFacts
  <2>3. m.addr \in DOMAIN CellsOf(bytes)
    BY <1>1, <1>2, <2>2, CellsFacts
  <2>4. m.addr \in range
    BY <1>1
  <2>5. CellsOf(bytes)' = CellsOf(bytes)
    BY <2>1, CellsOfNext
  <2> HIDE DEF range
  <2>6. range \cap DOMAIN CellsOf(bytes) # {}
    BY <2>3, <2>4
  <2> QED BY <1>1, <2>1, <2>5, <2>6 DEF range, Memory!MapAnon, Memory!Range
<1>3. CASE m.addr \notin DOMAIN bytes
  <2>1. answer' = "ok"
    BY <1>1, <1>3 DEF MapAnon
  <2>2. /\ DOMAIN bytes' = DOMAIN bytes \cup {m.addr}
        /\ \A b \in DOMAIN bytes : bytes'[b] = bytes[b]
        /\ Len(bytes'[m.addr]) = m.len
        /\ \A k \in 1 .. m.len : bytes'[m.addr][k] = 0
    BY <2>1, MapAnonAdds
  <2>3. AreRegions(bytes')
    <3>1. \A b \in DOMAIN bytes' : bytes'[b] \in Seq(Nat)
      BY DEF TypeOK
    <3>2. DOMAIN bytes' \subseteq Nat
      BY <1>1, <2>2 DEF AreRegions
    <3> QED BY <3>1, <3>2 DEF AreRegions
  <2>4. ASSUME NEW a \in range
        PROVE  /\ a \in DOMAIN CellsOf(bytes') /\ CellsOf(bytes')[a] = 0
               /\ a \notin DOMAIN CellsOf(bytes)
    <3> DEFINE k == a - m.addr + 1
    <3>1. k \in 1 .. m.len /\ m.addr + k - 1 = a
      BY <1>1
    <3> HIDE DEF k, range
    <3>2. /\ m.addr \in DOMAIN bytes' /\ k \in 1 .. Len(bytes'[m.addr])
          /\ bytes'[m.addr][k] = 0
      BY <2>2, <3>1
    <3>3. a \in DOMAIN CellsOf(bytes') /\ CellsOf(bytes')[a] = 0
      BY <2>3, <3>1, <3>2, CellsFacts
    <3>4. a \notin DOMAIN CellsOf(bytes)
      <4> SUFFICES ASSUME a \in DOMAIN CellsOf(bytes) PROVE FALSE
        OBVIOUS
      <4>1. PICK b \in DOMAIN bytes : \E h \in 1 .. Len(bytes[b]) : b + h - 1 = a
        BY <1>1, CellsFacts
      <4>2. PICK h \in 1 .. Len(bytes[b]) : b + h - 1 = a
        BY <4>1
      <4>3. b \in DOMAIN bytes' /\ h \in 1 .. Len(bytes'[b]) /\ b + h - 1 = m.addr + k - 1
        BY <2>2, <3>1, <4>2
      <4>4. b = m.addr
        BY <2>3, <3>2, <4>3, CellsFacts
      <4> QED BY <1>3, <4>4
    <3> QED BY <3>3, <3>4
  <2>5. ASSUME NEW a \in DOMAIN CellsOf(bytes)
        PROVE  a \in DOMAIN CellsOf(bytes') /\ CellsOf(bytes')[a] = CellsOf(bytes)[a]
    <3>1. PICK b \in DOMAIN bytes : \E k \in 1 .. Len(bytes[b]) : b + k - 1 = a
      BY <1>1, CellsFacts
    <3>2. PICK k \in 1 .. Len(bytes[b]) : b + k - 1 = a
      BY <3>1
    <3>3. CellsOf(bytes)[a] = bytes[b][k]
      BY <1>1, <3>2, CellsFacts
    <3>4. b \in DOMAIN bytes' /\ k \in 1 .. Len(bytes'[b]) /\ bytes'[b][k] = bytes[b][k]
      BY <2>2
    <3>5. a \in DOMAIN CellsOf(bytes') /\ CellsOf(bytes')[a] = bytes'[b][k]
      BY <2>3, <3>2, <3>4, CellsFacts
    <3> QED BY <3>3, <3>4, <3>5
  <2>6. ASSUME NEW a \in DOMAIN CellsOf(bytes')
        PROVE  a \in DOMAIN CellsOf(bytes) \/ a \in range
    <3>1. PICK b \in DOMAIN bytes' : \E k \in 1 .. Len(bytes'[b]) : b + k - 1 = a
      BY <2>3, CellsFacts
    <3>2. PICK k \in 1 .. Len(bytes'[b]) : b + k - 1 = a
      BY <3>1
    <3>3. CASE b = m.addr
      <4>1. k \in 1 .. m.len
        BY <2>2, <3>3
      <4>2. a \in range
        BY <1>1, <3>2, <3>3, <4>1
      <4> QED BY <4>2
    <3>4. CASE b # m.addr
      <4>1. b \in DOMAIN bytes /\ k \in 1 .. Len(bytes[b])
        BY <2>2, <3>4
      <4> HIDE DEF range
      <4>2. a \in DOMAIN CellsOf(bytes)
        BY <1>1, <3>2, <4>1, CellsFacts
      <4> QED BY <4>2
    <3> QED BY <3>3, <3>4
  <2> HIDE DEF range
  <2>7. range \cap DOMAIN CellsOf(bytes) = {}
    BY <2>4
  <2>8. DOMAIN CellsOf(bytes') = DOMAIN CellsOf(bytes) \cup range
    <3>1. \A a : a \in DOMAIN CellsOf(bytes') <=> a \in DOMAIN CellsOf(bytes) \cup range
      BY <2>4, <2>5, <2>6
    <3> QED BY <3>1
  <2>9. CellsOf(bytes') = [a \in DOMAIN CellsOf(bytes') |-> CellsOf(bytes')[a]]
    BY DEF CellsOf
  <2>10. CellsOf(bytes') = [a \in DOMAIN CellsOf(bytes) \cup range |->
                               IF a \in DOMAIN CellsOf(bytes) THEN CellsOf(bytes)[a] ELSE 0]
    BY <2>4, <2>5, <2>8, <2>9
  <2>11. CellsOf(bytes)' = CellsOf(bytes')
    BY CellsOfNext
  <2> QED BY <1>1, <2>1, <2>7, <2>10, <2>11 DEF range, Memory!MapAnon, Memory!Range
<1> QED BY <1>2, <1>3

(* While its regions are kept apart, the in-memory guest is the byte memory *)
(* the trait GuestMemory promises: each call is the byte memory's.          *)
THEOREM GuestIsAByteMemory == Spec => ImplementsByteMemory
<1>1. GuestInit => Memory!Init
  <2> SUFFICES ASSUME GuestInit PROVE Memory!Init
    OBVIOUS
  <2>1. bytes = [b \in {} |-> << >>] /\ answer = "none" /\ out = << >>
    BY DEF GuestInit
  <2>2. DOMAIN bytes = {}
    BY <2>1
  <2>3. CellsOf(bytes) = [a \in {} |-> 0]
    BY <2>2 DEF CellsOf
  <2> QED BY <2>1, <2>3 DEF Memory!Init
<1>2. TypeOK /\ TypeOK' /\ [GuestNext]_guestVars =>
        [Apart(bytes) /\ Apart(bytes') =>
            /\ \A m \in Maps :
                  MapAnon(m.addr, m.len) /\ Fits(m.len) => Memory!MapAnon(m.addr, m.len)
            /\ \A r \in Reads :
                  Read(r.addr, r.len) /\ r.len <= MaxBuffer => Memory!Read(r.addr, r.len)
            /\ \A w \in Writes :
                  Write(w.addr, w.data) => Memory!Write(w.addr, w.data)]_guestVars
  BY ApartMapAnon, ApartRead, ApartWrite
<1> QED BY <1>1, <1>2, GuestTypeCorrect, ContextUsesGuest, PTL DEF GuestSpec, ImplementsByteMemory


-----------------------------------------------------------------------------
(* The dispatches on a Context. *)
Outcomes == [kind : {"return"}, ret : Int] \cup [kind : {"exit"}, code : 0 .. 255]
                \cup {EngineFailure, Panic}
Calls    == [regs : Requests, outcome : Outcomes, traced : BOOLEAN]
Names    == {h.name : h \in Candidates} \cup {"<unimplemented>"}
Entries  == [seq : Nat, regs : Requests, name : Names, ret : Int]

CallsAreTyped ==
    /\ handlers \in SUBSET Candidates /\ sink \in BOOLEAN
    /\ log \in Seq(Entries) /\ made \in Seq(Calls)

(* What a dispatch may come to. *)
LEMMA OutcomeFacts ==
    ASSUME NEW outcome \in Outcomes
    PROVE  /\ outcome.kind \in {"return", "exit", "error", "panic"}
           /\ outcome.kind = "return" => outcome.ret \in Int
           /\ outcome.kind = "exit" => outcome.code \in 0 .. 255
BY DEF Outcomes, EngineFailure, Panic

LEMMA DispatchComesTo ==
    ASSUME NEW hs, NEW m, NEW regs \in Requests
    PROVE  DispatchCall(hs, m, regs).outcome \in Outcomes
<1> DEFINE call == DispatchCall(hs, m, regs)
<1>1. regs.arg0 \in Nat /\ regs.count \in Int
  BY ContextAssumption, RegionsAssumption DEF Addresses
<1>2. \/ call.outcome = Return(Err(ENOSYS))
      \/ call = HandleWrite(m, regs)
      \/ call = HandleExit(regs)
  BY DEF DispatchCall, Handle
<1>3. CASE call.outcome = Return(Err(ENOSYS))
  BY <1>3 DEF Outcomes, Return, Err, ENOSYS
<1>4. CASE call = HandleExit(regs)
  <2>1. call.outcome = Exit(regs.arg0 % 256)
    BY <1>4 DEF HandleExit
  <2>2. regs.arg0 % 256 \in 0 .. 255
    BY <1>1
  <2> HIDE DEF call
  <2>3. call.outcome \in Outcomes
    BY <2>1, <2>2 DEF Outcomes, Exit
  <2> QED BY <2>3 DEF call
<1>5. CASE call = HandleWrite(m, regs)
  <2>1. call.outcome \in {Return(Err(EBADF)), Panic, EngineFailure, Return(regs.count)}
    BY <1>5 DEF HandleWrite
  <2> HIDE DEF call
  <2>2. call.outcome \in Outcomes
    BY <1>1, <2>1 DEF Outcomes, Return, Err, EBADF
  <2> QED BY <2>2 DEF call
<1> QED BY <1>2, <1>3, <1>4, <1>5

(* What is dispatched and how it ended, as DispatchOn has it. *)
OutcomeOn(regs) ==
    LET mem == IF ReadPanics(regs) THEN [a \in {} |-> 0] ELSE View(regs)
        call == DispatchCall(handlers, mem, regs)
    IN  IF call.outcome = EngineFailure /\ ReadPanics(regs) THEN Panic ELSE call.outcome

LEMMA DispatchFacts ==
    ASSUME NEW regs \in Requests, DispatchOn(regs),
           NEW outcome, outcome = OutcomeOn(regs)
    PROVE  /\ outcome \in Outcomes
           /\ made' = Append(made, [regs |-> regs, outcome |-> outcome, traced |-> sink])
           /\ log' = IF sink THEN Traced(handlers, log, regs, outcome) ELSE log
           /\ process' = IF outcome.kind = "exit" THEN Exited(outcome.code) ELSE process
           /\ UNCHANGED <<guestVars, handlers, sink>>
<1>1. Panic \in Outcomes
  BY DEF Outcomes
<1>2. outcome \in Outcomes
  BY <1>1, DispatchComesTo DEF OutcomeOn
<1> QED BY <1>2 DEF DispatchOn, OutcomeOn

(* The record of a call. *)
IsRecordOf(hs, entry, call) ==
    /\ entry.regs = call.regs
    /\ entry.ret = IF call.outcome.kind = "exit" THEN 0 ELSE call.outcome.ret
    /\ \/ \E h \in hs : h.number = call.regs.nr /\ h.name = entry.name
       \/ entry.name = "<unimplemented>" /\ \A h \in hs : h.number # call.regs.nr

LEMMA RecordFacts ==
    ASSUME NEW hs \in SUBSET Candidates, NEW l \in Seq(Entries), NEW regs \in Requests,
           NEW outcome \in Outcomes, outcome.kind \in {"return", "exit"},
           NEW entry, entry = TraceRecord(hs, l, regs, outcome)
    PROVE  /\ entry \in Entries
           /\ entry.seq = Len(l)
           /\ \A call : call.regs = regs /\ call.outcome = outcome
                          => IsRecordOf(hs, entry, call)
<1>1. /\ entry.seq = Len(l) /\ entry.regs = regs
      /\ entry.name = HandlerName(hs, regs.nr)
      /\ entry.ret = IF outcome.kind = "return" THEN outcome.ret ELSE 0
      /\ entry = [seq |-> entry.seq, regs |-> entry.regs,
                  name |-> entry.name, ret |-> entry.ret]
  BY DEF TraceRecord
<1>2. entry.ret \in Int /\ Len(l) \in Nat
  BY <1>1, OutcomeFacts
<1>3. entry.name \in Names => entry \in Entries
  BY <1>1, <1>2 DEF Entries
<1>4. entry.ret = IF outcome.kind = "exit" THEN 0 ELSE outcome.ret
  BY <1>1
<1>5. CASE Find(hs, regs.nr) = {}
  <2>1. entry.name = "<unimplemented>" /\ \A h \in hs : h.number # regs.nr
    BY <1>1, <1>5 DEF HandlerName, Find
  <2>2. entry.name \in Names
    BY <2>1 DEF Names
  <2> QED BY <1>1, <1>3, <1>4, <2>1, <2>2 DEF IsRecordOf
<1>6. CASE Find(hs, regs.nr) # {}
  <2> DEFINE h == CHOOSE x \in Find(hs, regs.nr) : TRUE
  <2>1. h \in Find(hs, regs.nr) /\ entry.name = h.name
    BY <1>1, <1>6 DEF HandlerName
  <2> HIDE DEF h
  <2>2. h \in hs /\ h.number = regs.nr
    BY <2>1 DEF Find
  <2>3. h.name \in Names
    BY <2>2 DEF Names
  <2> QED BY <1>1, <1>3, <1>4, <2>1, <2>2, <2>3 DEF IsRecordOf
<1> QED BY <1>5, <1>6


(* Calls, outputs and records are of their types. *)
LEMMA CallsKeepTypes ==
    ASSUME CallsAreTyped, [Next]_vars
    PROVE  CallsAreTyped'
<1> USE DEF CallsAreTyped
<1>1. CASE Prepare
  BY <1>1 DEF Prepare, dispatchVars
<1>2. ASSUME NEW h \in Candidates, RegisterHandler(h)
      PROVE  CallsAreTyped'
  BY <1>2 DEF RegisterHandler, Register
<1>3. CASE SetTrace
  <2>1. \A call \in Calls : [call EXCEPT !.traced = FALSE] \in Calls
    BY DEF Calls
  <2>2. made' \in Seq(Calls)
    <3>1. /\ made' = [i \in 1 .. Len(made) |-> [made[i] EXCEPT !.traced = FALSE]]
          /\ Len(made) \in Nat /\ \A i \in 1 .. Len(made) : made[i] \in Calls
      BY <1>3 DEF SetTrace
    <3>2. \A i \in 1 .. Len(made) : [made[i] EXCEPT !.traced = FALSE] \in Calls
      BY <2>1, <3>1
    <3> QED BY <3>1, <3>2
  <2> QED BY <1>3, <2>2 DEF SetTrace
<1>4. ASSUME NEW regs \in Requests, DispatchOn(regs)
      PROVE  CallsAreTyped'
  <2> DEFINE outcome == OutcomeOn(regs)
             new == [regs |-> regs, outcome |-> outcome, traced |-> sink]
             entry == TraceRecord(handlers, log, regs, outcome)
  <2>1. /\ outcome \in Outcomes
        /\ made' = Append(made, new)
        /\ log' = IF sink THEN Traced(handlers, log, regs, outcome) ELSE log
        /\ UNCHANGED <<handlers, sink>>
    BY <1>4, DispatchFacts
  <2>2. /\ outcome.kind \in {"return", "exit", "error", "panic"}
        /\ outcome.kind \in {"return", "exit"} => entry \in Entries
    BY <2>1, OutcomeFacts, RecordFacts
  <2>3. \/ log' = log
        \/ log' = Append(log, entry) /\ outcome.kind \in {"return", "exit"}
    BY <2>1, <2>2 DEF Traced
  <2> HIDE DEF outcome
  <2>4. new \in Calls
    BY <2>1 DEF Calls
  <2> HIDE DEF new, entry
  <2>5. /\ made \in Seq(Calls) /\ made' = Append(made, new)
        /\ log \in Seq(Entries)
        /\ \/ log' = log
           \/ log' = Append(log, entry) /\ entry \in Entries
        /\ handlers' = handlers /\ handlers \in SUBSET Candidates
        /\ sink' = sink
    BY <2>1, <2>2, <2>3
  <2>6. log' \in Seq(Entries) /\ made' \in Seq(Calls) /\ handlers' \in SUBSET Candidates
    <3> HIDE DEF CallsAreTyped
    <3> QED BY <2>4, <2>5
  <2>7. sink' \in BOOLEAN
    BY <2>5
  <2> QED BY <2>6, <2>7
<1>5. CASE UNCHANGED vars
  BY <1>5 DEF vars, dispatchVars
<1> QED BY <1>1, <1>2, <1>3, <1>4, <1>5 DEF Next

LEMMA CallsTyped == Spec => []CallsAreTyped
<1>1. Init => CallsAreTyped
  <2> SUFFICES ASSUME Init PROVE CallsAreTyped
    OBVIOUS
  <2>1. handlers = {} /\ sink = FALSE /\ log = << >> /\ made = << >>
    BY DEF Init
  <2>2. log \in Seq(Entries) /\ made \in Seq(Calls) /\ handlers \in SUBSET Candidates
    BY <2>1
  <2>3. sink \in BOOLEAN
    BY <2>1
  <2> QED BY <2>2, <2>3 DEF CallsAreTyped
<1> QED BY <1>1, CallsKeepTypes, PTL DEF Spec

(* Numbers up to a bound: their positions by counting. *)
LEMMA CountedPlaces ==
    ASSUME NEW n \in Nat, NEW S \in SUBSET (1 .. n)
    PROVE  /\ IsFiniteSet(S) /\ Cardinality(S) \in Nat
           /\ \A i \in S : Cardinality({j \in S : j <= i}) \in 1 .. Cardinality(S)
<1>1. IsFiniteSet(1 .. n)
  BY FS_Interval
<1>2. IsFiniteSet(S) /\ Cardinality(S) \in Nat
  BY <1>1, FS_Subset, FS_CardinalityType
<1>3. ASSUME NEW i \in S
      PROVE  Cardinality({j \in S : j <= i}) \in 1 .. Cardinality(S)
  <2> DEFINE T == {j \in S : j <= i}
  <2>1. T \in SUBSET S /\ i \in T
    OBVIOUS
  <2> HIDE DEF T
  <2>2. IsFiniteSet(T) /\ Cardinality(T) <= Cardinality(S)
    BY <1>2, <2>1, FS_Subset
  <2>3. Cardinality(T) \in Nat /\ Cardinality(T) # 0
    BY <2>1, <2>2, FS_EmptySet, FS_CardinalityType
  <2>4. Cardinality(T) \in 1 .. Cardinality(S)
    BY <1>2, <2>2, <2>3
  <2> QED BY <2>4 DEF T
<1> QED BY <1>2, <1>3

(* The calls that are to be in the sink. *)
KeptCalls(calls) == {i \in DOMAIN calls : /\ calls[i].traced
                                          /\ calls[i].outcome.kind \in {"return", "exit"}}
PlaceIn(S, i) == Cardinality({j \in S : j <= i})

SinkHas(hs, l, calls) ==
    /\ Len(l) = Cardinality(KeptCalls(calls))
    /\ \A i \in KeptCalls(calls) :
          /\ l[PlaceIn(KeptCalls(calls), i)].seq = PlaceIn(KeptCalls(calls), i) - 1
          /\ IsRecordOf(hs, l[PlaceIn(KeptCalls(calls), i)], calls[i])

LEMMA SinkHasIt ==
    /\ SinkHasItsCalls <=> SinkHas(handlers, log, made)
    /\ SinkHasItsCalls' <=> SinkHas(handlers', log', made')
BY DEF SinkHasItsCalls, SinkHas, KeptCalls, PlaceIn, IsRecordOf

(* One more call. *)
LEMMA SinkGetsCall ==
    ASSUME NEW hs \in SUBSET Candidates, NEW l \in Seq(Entries), NEW calls \in Seq(Calls),
           SinkHas(hs, l, calls),
           NEW new \in Calls, NEW entry,
           new.traced /\ new.outcome.kind \in {"return", "exit"} =>
               /\ entry \in Entries /\ entry.seq = Len(l) /\ IsRecordOf(hs, entry, new),
           NEW m, m = IF new.traced /\ new.outcome.kind \in {"return", "exit"}
                      THEN Append(l, entry) ELSE l
    PROVE  SinkHas(hs, m, Append(calls, new))
<1> DEFINE more == Append(calls, new)
           last == Len(calls) + 1
           S == KeptCalls(calls)
           T == KeptCalls(more)
           keeps == new.traced /\ new.outcome.kind \in {"return", "exit"}
<1>1. /\ Len(calls) \in Nat /\ DOMAIN calls = 1 .. Len(calls)
      /\ DOMAIN more = 1 .. last
      /\ \A i \in 1 .. Len(calls) : more[i] = calls[i]
      /\ more[last] = new
  OBVIOUS
<1> HIDE DEF more
<1>2. S \in SUBSET (1 .. Len(calls)) /\ last \notin S
  BY <1>1 DEF KeptCalls
<1>3. T = IF keeps THEN S \cup {last} ELSE S
  BY <1>1 DEF KeptCalls
<1>4. /\ IsFiniteSet(S) /\ Cardinality(S) \in Nat
      /\ \A i \in S : PlaceIn(S, i) \in 1 .. Cardinality(S)
  <2> HIDE DEF S
  <2> QED BY <1>1, <1>2, CountedPlaces DEF PlaceIn
<1>5. /\ Len(l) = Cardinality(S)
      /\ \A i \in S : /\ l[PlaceIn(S, i)].seq = PlaceIn(S, i) - 1
                      /\ IsRecordOf(hs, l[PlaceIn(S, i)], calls[i])
  BY DEF SinkHas
<1> HIDE DEF S, T
<1>6. CASE ~keeps
  <2>1. T = S /\ m = l
    BY <1>3, <1>6
  <2>2. \A i \in S : more[i] = calls[i]
    BY <1>1, <1>2
  <2> HIDE DEF keeps
  <2>3. SinkHas(hs, m, more)
    BY <1>5, <2>1, <2>2 DEF SinkHas, T
  <2> QED BY <2>3 DEF more
<1>7. CASE keeps
  <2>1. T = S \cup {last} /\ m = Append(l, entry)
    BY <1>3, <1>7
  <2>2. entry \in Entries /\ entry.seq = Len(l) /\ IsRecordOf(hs, entry, new)
    BY <1>7
  <2> HIDE DEF keeps
  <2>3. /\ Len(l) \in Nat /\ Len(m) = Len(l) + 1
        /\ \A k \in 1 .. Len(l) : m[k] = l[k]
        /\ m[Len(l) + 1] = entry
    BY <2>1, <2>2
  <2>4. Cardinality(T) = Cardinality(S) + 1
    BY <1>2, <1>4, <2>1, FS_AddElement
  <2>5. ASSUME NEW i \in S PROVE PlaceIn(T, i) = PlaceIn(S, i)
    <3>1. {j \in T : j <= i} = {j \in S : j <= i}
      BY <1>1, <1>2, <2>1
    <3> QED BY <3>1 DEF PlaceIn
  <2>6. PlaceIn(T, last) = Cardinality(T)
    <3>1. \A j \in T : j <= last
      BY <1>1, <1>2, <2>1
    <3> HIDE DEF last
    <3>2. {j \in T : j <= last} = T
      BY <3>1
    <3> QED BY <3>2 DEF PlaceIn
  <2>7. ASSUME NEW i \in T
        PROVE  /\ m[PlaceIn(T, i)].seq = PlaceIn(T, i) - 1
               /\ IsRecordOf(hs, m[PlaceIn(T, i)], more[i])
    <3>1. CASE i \in S
      <4>1. PlaceIn(S, i) \in 1 .. Len(l)
        BY <1>4, <1>5, <3>1
      <4>2. m[PlaceIn(S, i)] = l[PlaceIn(S, i)]
        BY <2>3, <4>1
      <4>3. more[i] = calls[i]
        BY <1>1, <1>2, <3>1
      <4> QED BY <1>5, <2>5, <3>1, <4>2, <4>3
    <3>2. CASE i = last
      <4>1. PlaceIn(T, i) = Len(l) + 1
        BY <1>5, <2>4, <2>6, <3>2
      <4>2. (Len(l) + 1) - 1 = Len(l)
        BY <2>3
      <4> QED BY <1>1, <2>2, <2>3, <3>2, <4>1, <4>2
    <3> QED BY <2>1, <3>1, <3>2
  <2>8. Len(m) = Cardinality(T)
    BY <1>5, <2>3, <2>4
  <2>9. SinkHas(hs, m, more)
    BY <2>7, <2>8 DEF SinkHas, T
  <2> QED BY <2>9 DEF more
<1> QED BY <1>6, <1>7

(* The sink that is attached has the calls made since it was attached, less *)
(* those whose handler failed, in order.                                    *)
THEOREM AttachedSinkIsWhole == Spec => []SinkHasItsCalls
<1>1. Init => SinkHasItsCalls
  <2> SUFFICES ASSUME Init PROVE SinkHas(handlers, log, made)
    BY SinkHasIt
  <2>1. KeptCalls(made) = {} /\ Len(log) = 0
    BY DEF Init, KeptCalls
  <2> QED BY <2>1, FS_EmptySet DEF SinkHas
<1>2. CallsAreTyped /\ SinkHasItsCalls /\ [Next]_vars => SinkHasItsCalls'
  <2> SUFFICES ASSUME CallsAreTyped, SinkHas(handlers, log, made), [Next]_vars
               PROVE  SinkHas(handlers', log', made')
    BY SinkHasIt
  <2>1. CASE UNCHANGED <<handlers, log, made>>
    BY <2>1
  <2>2. ASSUME NEW h \in Candidates, RegisterHandler(h)
        PROVE  SinkHas(handlers', log', made')
    <3>1. made = << >> /\ made' = made /\ log' = log
      BY <2>2 DEF RegisterHandler
    <3>2. KeptCalls(made) = {}
      BY <3>1 DEF KeptCalls
    <3> QED BY <3>1, <3>2 DEF SinkHas
  <2>3. CASE SetTrace
    <3>1. /\ made' = [i \in DOMAIN made |-> [made[i] EXCEPT !.traced = FALSE]]
          /\ log' = << >>
      BY <2>3 DEF SetTrace
    <3>2. \A i \in DOMAIN made : made[i] \in Calls
      BY DEF CallsAreTyped
    <3>3. KeptCalls(made') = {}
      BY <3>1, <3>2 DEF KeptCalls, Calls
    <3>4. Len(log') = 0
      BY <3>1
    <3> QED BY <3>3, <3>4, FS_EmptySet DEF SinkHas
  <2>4. ASSUME NEW regs \in Requests, DispatchOn(regs)
        PROVE  SinkHas(handlers', log', made')
    <3> DEFINE outcome == OutcomeOn(regs)
               new == [regs |-> regs, outcome |-> outcome, traced |-> sink]
               entry == TraceRecord(handlers, log, regs, outcome)
    <3>1. /\ outcome \in Outcomes
          /\ made' = Append(made, new)
          /\ log' = IF sink THEN Traced(handlers, log, regs, outcome) ELSE log
          /\ UNCHANGED <<handlers, sink>>
      BY <2>4, DispatchFacts
    <3>2. /\ handlers \in SUBSET Candidates /\ log \in Seq(Entries)
          /\ made \in Seq(Calls) /\ sink \in BOOLEAN
      BY DEF CallsAreTyped
    <3> HIDE DEF outcome
    <3>3. outcome.kind \in {"return", "exit", "error", "panic"}
      BY <3>1, OutcomeFacts
    <3>4. ASSUME outcome.kind \in {"return", "exit"}
          PROVE  /\ entry \in Entries /\ entry.seq = Len(log)
                 /\ \A call : call.regs = regs /\ call.outcome = outcome
                                => IsRecordOf(handlers, entry, call)
      BY <3>1, <3>2, <3>4, RecordFacts
    <3>5. log' = IF sink /\ outcome.kind \in {"return", "exit"}
                 THEN Append(log, entry) ELSE log
      BY <3>1, <3>2, <3>3 DEF Traced
    <3> HIDE DEF entry
    <3>6. new \in Calls /\ new.traced = sink /\ new.outcome = outcome /\ new.regs = regs
      BY <3>1, <3>2 DEF Calls
    <3> HIDE DEF new
    <3>7. new.traced /\ new.outcome.kind \in {"return", "exit"} =>
              entry \in Entries /\ entry.seq = Len(log) /\ IsRecordOf(handlers, entry, new)
      BY <3>4, <3>6
    <3>8. log' = IF new.traced /\ new.outcome.kind \in {"return", "exit"}
                 THEN Append(log, entry) ELSE log
      BY <3>5, <3>6
    <3>9. SinkHas(handlers, log', Append(made, new))
      BY <3>2, <3>6, <3>7, <3>8, SinkGetsCall
    <3> QED BY <3>1, <3>9
  <2> QED BY <2>1, <2>2, <2>3, <2>4 DEF Next, Prepare, dispatchVars, vars
<1> QED BY <1>1, <1>2, CallsTyped, PTL DEF Spec


-----------------------------------------------------------------------------
(* Sequences one behind the other: the partial results of FlattenSeq.       *)
Flattened(seqs, n, f) ==
    f = [i \in 1 .. n |-> IF i = 1 THEN seqs[i] ELSE f[i - 1] \o seqs[i]]

LEMMA FlattenedAt ==
    ASSUME NEW seqs, NEW n \in Nat, NEW f, Flattened(seqs, n, f)
    PROVE  /\ DOMAIN f = 1 .. n
           /\ \A i \in 1 .. n : f[i] = IF i = 1 THEN seqs[i] ELSE f[i - 1] \o seqs[i]
<1> DEFINE h == [i \in 1 .. n |-> IF i = 1 THEN seqs[i] ELSE f[i - 1] \o seqs[i]]
<1>1. f = h
  BY DEF Flattened
<1>2. /\ DOMAIN h = 1 .. n
      /\ \A i \in 1 .. n : h[i] = IF i = 1 THEN seqs[i] ELSE f[i - 1] \o seqs[i]
  OBVIOUS
<1> HIDE DEF h
<1> QED BY <1>1, <1>2

LEMMA FlattenedExists ==
    ASSUME NEW seqs, NEW n \in Nat
    PROVE  \E f : Flattened(seqs, n, f)
<1> DEFINE Bad == {k \in Nat : ~\E f : Flattened(seqs, k, f)}
           least == Min(Bad)
<1> SUFFICES ASSUME Bad # {} PROVE FALSE
  OBVIOUS
<1>1. least \in Bad /\ \A k \in Bad : least <= k
  <2>1. Bad \in SUBSET Nat
    OBVIOUS
  <2> HIDE DEF Bad
  <2> QED BY <2>1, MinIsLeast
<1> HIDE DEF least
<1>2. CASE least = 0
  <2> DEFINE f == [i \in {} |-> << >>]
  <2>1. Flattened(seqs, 0, f)
    BY DEF Flattened
  <2> QED BY <1>1, <1>2, <2>1
<1>3. CASE least # 0
  <2>1. least \in Nat /\ least - 1 \in Nat /\ ~(least <= least - 1)
    BY <1>1, <1>3
  <2>2. least - 1 \notin Bad
    BY <1>1, <2>1
  <2>3. PICK g : Flattened(seqs, least - 1, g)
    BY <2>1, <2>2
  <2> DEFINE f == [i \in 1 .. least |->
                      IF i = 1 THEN seqs[i] ELSE g[i - 1] \o seqs[i]]
             h == [i \in 1 .. least |->
                      IF i = 1 THEN seqs[i] ELSE f[i - 1] \o seqs[i]]
  <2>4. ASSUME NEW i \in 1 .. least, i # 1 PROVE f[i - 1] = g[i - 1]
    <3>1. i - 1 \in 1 .. least - 1 /\ i - 1 \in 1 .. least /\ (i - 1) - 1 = i - 2
      BY <2>1, <2>4
    <3>2. g[i - 1] = IF i - 1 = 1 THEN seqs[i - 1] ELSE g[(i - 1) - 1] \o seqs[i - 1]
      BY <2>1, <2>3, <3>1, FlattenedAt
    <3> QED BY <3>1, <3>2
  <2>5. f = h
    <3>1. \A i \in 1 .. least : f[i] = h[i]
      <4> TAKE i \in 1 .. least
      <4>1. /\ f[i] = IF i = 1 THEN seqs[i] ELSE g[i - 1] \o seqs[i]
            /\ h[i] = IF i = 1 THEN seqs[i] ELSE f[i - 1] \o seqs[i]
        OBVIOUS
      <4> HIDE DEF f, h
      <4> QED BY <2>4, <4>1
    <3> QED BY <3>1
  <2>6. Flattened(seqs, least, f)
    BY <2>5 DEF Flattened
  <2> QED BY <1>1, <2>6
<1> QED BY <1>2, <1>3

AgreeUpTo(s, t, n) == \A i \in 1 .. n : s[i] = t[i]

LEMMA FlattenedAgree ==
    ASSUME NEW s, NEW t, NEW n \in Nat, NEW m \in Nat, n <= m,
           AgreeUpTo(s, t, n),
           NEW f, Flattened(s, n, f), NEW g, Flattened(t, m, g)
    PROVE  AgreeUpTo(f, g, n)
<1> DEFINE Bad == {i \in 1 .. n : f[i] # g[i]}
           least == Min(Bad)
<1> SUFFICES ASSUME Bad # {} PROVE FALSE
  BY DEF AgreeUpTo
<1>1. least \in Bad /\ \A k \in Bad : least <= k
  <2>1. Bad \in SUBSET Nat
    OBVIOUS
  <2> HIDE DEF Bad
  <2> QED BY <2>1, MinIsLeast
<1>2. least \in 1 .. n /\ least \in 1 .. m /\ f[least] # g[least]
  BY <1>1
<1>3. least # 1 => f[least - 1] = g[least - 1]
  <2> SUFFICES ASSUME least # 1 PROVE f[least - 1] = g[least - 1]
    OBVIOUS
  <2>1. least - 1 \in 1 .. n /\ ~(least <= least - 1)
    BY <1>2
  <2> QED BY <1>1, <2>1
<1>4. /\ f[least] = IF least = 1 THEN s[least] ELSE f[least - 1] \o s[least]
      /\ g[least] = IF least = 1 THEN t[least] ELSE g[least - 1] \o t[least]
  BY <1>2, FlattenedAt
<1> QED BY <1>2, <1>3, <1>4 DEF AgreeUpTo

LEMMA FlattenIs ==
    ASSUME NEW s, Len(s) \in Nat \ {0}, NEW f, Flattened(s, Len(s), f)
    PROVE  Seqs!FlattenSeq(s) = f[Len(s)]
<1> DEFINE g == CHOOSE h : h = [i \in 1 .. Len(s) |->
                                   IF i = 1 THEN s[i] ELSE h[i - 1] \o s[i]]
<1>1. Seqs!FlattenSeq(s) = g[Len(s)]
  BY DEF Seqs!FlattenSeq
<1>2. g = [i \in 1 .. Len(s) |-> IF i = 1 THEN s[i] ELSE g[i - 1] \o s[i]]
  BY DEF Flattened
<1>3. Flattened(s, Len(s), g)
  <2> HIDE DEF g
  <2> QED BY <1>2 DEF Flattened
<1> HIDE DEF g
<1>4. \A i \in 1 .. Len(s) : g[i] = f[i]
  <2>1. AgreeUpTo(s, s, Len(s))
    BY DEF AgreeUpTo
  <2>2. Len(s) \in Nat /\ Len(s) <= Len(s)
    OBVIOUS
  <2>3. AgreeUpTo(g, f, Len(s))
    BY <1>3, <2>1, <2>2, FlattenedAgree
  <2> QED BY <2>3 DEF AgreeUpTo
<1> QED BY <1>1, <1>4

LEMMA FlattenAppend ==
    ASSUME NEW S, NEW s \in Seq(Seq(S)), NEW x \in Seq(S)
    PROVE  Seqs!FlattenSeq(Append(s, x)) = Seqs!FlattenSeq(s) \o x
<1> DEFINE t == Append(s, x)
           n == Len(s)
           m == n + 1
<1>1. /\ n \in Nat /\ m \in Nat /\ n <= m /\ Len(t) = m
      /\ m \in 1 .. m /\ m - 1 = n /\ m # 0 /\ (m = 1 <=> n = 0)
      /\ \A i \in 1 .. n : s[i] = t[i]
      /\ t[m] = x /\ << >> \o x = x
  OBVIOUS
<1> HIDE DEF t, n, m
<1>2. PICK f : Flattened(t, m, f)
  BY <1>1, FlattenedExists
<1>3. Seqs!FlattenSeq(t) = f[m]
  BY <1>1, <1>2, FlattenIs
<1>4. f[m] = IF m = 1 THEN x ELSE f[n] \o x
  <2>1. f[m] = IF m = 1 THEN t[m] ELSE f[m - 1] \o t[m]
    BY <1>1, <1>2, FlattenedAt
  <2> QED BY <1>1, <2>1
<1>5. CASE n = 0
  <2>1. s = << >>
    BY <1>5 DEF n
  <2>2. Seqs!FlattenSeq(s) = << >>
    BY <2>1 DEF Seqs!FlattenSeq
  <2> QED BY <1>1, <1>3, <1>4, <1>5, <2>2 DEF t
<1>6. CASE n # 0
  <2>1. PICK g : Flattened(s, n, g)
    BY <1>1, FlattenedExists
  <2>2. Seqs!FlattenSeq(s) = g[n]
    BY <1>1, <1>6, <2>1, FlattenIs DEF n
  <2>3. f[n] = g[n]
    <3>1. AgreeUpTo(s, t, n)
      BY <1>1 DEF AgreeUpTo
    <3>2. AgreeUpTo(g, f, n)
      BY <1>1, <1>2, <2>1, <3>1, FlattenedAgree
    <3> QED BY <1>1, <1>6, <3>2 DEF AgreeUpTo
  <2> QED BY <1>1, <1>3, <1>4, <1>6, <2>2, <2>3 DEF t
<1> QED BY <1>5, <1>6


-----------------------------------------------------------------------------
(* What a call puts on a descriptor, said of regions and a call.            *)
ExtentsIn(regions) == [b \in DOMAIN regions |-> Len(regions[b])]
FetchedIn(regions, cells) ==
    [i \in DOMAIN cells |-> regions[cells[i][1]][cells[i][2]]]
WroteIn(regions, fd, call) ==
    IF call.regs.nr = 1 /\ call.regs.arg0 = fd
       /\ call.outcome = Return(call.regs.count)
      THEN FetchedIn(regions, ServedIn(ExtentsIn(regions), call.regs.ptr, call.regs.count).cells)
      ELSE << >>

PartsIn(regions, calls, fd) == [i \in DOMAIN calls |-> WroteIn(regions, fd, calls[i])]

(* What the latest exit leaves. *)
Exits(calls) == {i \in DOMAIN calls : calls[i].outcome.kind = "exit"}
LatestExit(calls) == CHOOSE i \in Exits(calls) : \A j \in Exits(calls) : j <= i
LeftBy(calls) == IF Exits(calls) = {} THEN Running
                 ELSE Exited(calls[LatestExit(calls)].outcome.code)

ContextHas(regions, calls, o, p) ==
    /\ \A fd \in {1, 2} : Captured(o, fd) = Seqs!FlattenSeq(PartsIn(regions, calls, fd))
    /\ DOMAIN o \subseteq {1, 2}
    /\ p = LeftBy(calls)

LEMMA ContextHasIt ==
    /\ ContextIsItsCalls <=> ContextHas(bytes, made, io, process)
    /\ ContextIsItsCalls' <=> ContextHas(bytes', made', io', process')
BY DEF ContextIsItsCalls, ContextHas, PartsIn, WroteIn, WroteTo, FetchedIn, Fetched,
       Served, ServedIn, ExtentsIn, Extents, LeftBy, LatestExit, Exits

(* The bytes of a request's range, if the handler can read them all. *)
LEMMA ReadableIsFetched ==
    ASSUME TypeOK, NEW regs \in Requests,
           NEW mem, mem = (IF ReadPanics(regs) THEN [a \in {} |-> 0] ELSE View(regs)),
           Readable(mem, regs.ptr, regs.count)
    PROVE  MemRead(mem, regs.ptr, regs.count)
               = Fetched(Served(regs.ptr, regs.count).cells)
<1> DEFINE n == regs.count
           cells == Served(regs.ptr, n).cells
           found == Fetched(cells)
           data == MemRead(mem, regs.ptr, n)
<1>1. /\ regs.ptr \in Addresses /\ regs.ptr \in Nat
      /\ n \in 0 .. Space /\ n \in Nat
  BY ContextAssumption, RegionsAssumption DEF Addresses
<1>2. /\ found \in Seq(Nat) /\ Len(found) = Len(cells) /\ Len(cells) \in 0 .. n
  BY <1>1, FetchedFacts, ServedFacts
<1>3. data = [i \in 1 .. n |-> mem[regs.ptr + i - 1]]
  BY DEF MemRead
<1>4. \A i \in 1 .. n : regs.ptr + i - 1 \in DOMAIN mem
  BY DEF Readable
<1>5. View(regs) = [a \in {regs.ptr + i - 1 : i \in DOMAIN found}
                       |-> found[a - regs.ptr + 1]]
  BY DEF View
<1> HIDE DEF cells, found, data, n
<1>6. DOMAIN found = 1 .. Len(found) /\ Len(found) \in 0 .. n
  BY <1>1, <1>2
<1>7. CASE n = 0
  <2>1. found = << >>
    <3>1. Len(found) = 0
      BY <1>6, <1>7
    <3>2. found \in Seq(Nat)
      BY <1>2
    <3> QED BY <3>1, <3>2
  <2>2. data = << >>
    BY <1>3, <1>7
  <2> QED BY <2>1, <2>2 DEF data, found, cells, n
<1>8. CASE n # 0
  <2>1. n \in 1 .. n
    BY <1>1, <1>8
  <2>2. mem = View(regs)
    <3>1. regs.ptr + n - 1 \in DOMAIN mem
      BY <1>4, <2>1
    <3> QED BY <3>1
  <2>3. ASSUME NEW i \in 1 .. n
        PROVE  i \in 1 .. Len(found) /\ mem[regs.ptr + i - 1] = found[i]
    <3> DEFINE a == regs.ptr + i - 1
    <3>1. a \in DOMAIN mem /\ a - regs.ptr + 1 = i
      BY <1>1, <1>4
    <3> HIDE DEF a
    <3>2. PICK j \in 1 .. Len(found) : a = regs.ptr + j - 1
      BY <1>5, <1>6, <2>2, <3>1
    <3>3. j = i
      BY <1>1, <1>6, <3>1, <3>2
    <3>4. mem[a] = found[a - regs.ptr + 1]
      BY <1>5, <2>2, <3>1
    <3> QED BY <3>1, <3>2, <3>3, <3>4 DEF a
  <2>4. Len(found) = n
    <3>1. n \in 1 .. Len(found)
      BY <2>1, <2>3
    <3>2. Len(found) \in 0 .. n
      BY <1>6
    <3> QED BY <1>1, <3>1, <3>2
  <2>5. found = [i \in 1 .. n |-> found[i]]
    BY <1>2, <2>4
  <2>6. data = found
    BY <1>3, <2>3, <2>5
  <2> QED BY <2>6 DEF data, found, cells, n
<1> QED BY <1>7, <1>8

LEMMA CapturedOfWrite ==
    ASSUME NEW fd \in {1, 2}, NEW data \in Seq(Nat),
           NEW o, o = CaptureWrite(NoOutput, fd, data)
    PROVE  /\ DOMAIN o = {fd}
           /\ \A f : Captured(o, f) = IF f = fd THEN data ELSE << >>
<1>1. Captured(NoOutput, fd) = << >> /\ << >> \o data = data /\ DOMAIN NoOutput = {}
  BY DEF Captured, NoOutput
<1>2. DOMAIN o = {fd} /\ o[fd] = data
  BY <1>1 DEF CaptureWrite
<1> QED BY <1>2 DEF Captured

(* A dispatch captures what its call is said to have written. *)
LEMMA DispatchWrites ==
    ASSUME TypeOK, NEW regs \in Requests,
           NEW mem, mem = (IF ReadPanics(regs) THEN [a \in {} |-> 0] ELSE View(regs)),
           NEW call, call = DispatchCall(handlers, mem, regs),
           NEW outcome, outcome = OutcomeOn(regs)
    PROVE  /\ DOMAIN call.io \subseteq {1, 2}
           /\ \A fd \in {1, 2} :
                 Captured(call.io, fd) =
                   IF regs.nr = 1 /\ regs.arg0 = fd /\ outcome = Return(regs.count)
                   THEN Fetched(Served(regs.ptr, regs.count).cells) ELSE << >>
<1>1. regs.ptr \in Addresses /\ regs.count \in 0 .. Space /\ regs.count \in Nat
  BY ContextAssumption, RegionsAssumption DEF Addresses
<1>2. outcome = IF call.outcome = EngineFailure /\ ReadPanics(regs) THEN Panic
                ELSE call.outcome
  BY DEF OutcomeOn
<1>3. DOMAIN NoOutput = {} /\ \A fd : Captured(NoOutput, fd) = << >>
  BY DEF NoOutput, Captured
<1>4. /\ \A n \in Nat : Return(Err(ENOSYS)) # Return(n) /\ Return(Err(EBADF)) # Return(n)
      /\ \A n : EngineFailure # Return(n) /\ Panic # Return(n)
      /\ \A c, n : Exit(c) # Return(n)
      /\ \A c : Exit(c) # EngineFailure
      /\ Return(Err(EBADF)) # EngineFailure /\ Return(Err(ENOSYS)) # EngineFailure
  BY DEF Return, Err, ENOSYS, EBADF, EngineFailure, Panic, Exit
<1>5. \/ call = [outcome |-> Return(Err(ENOSYS)), io |-> NoOutput]
      \/ call = HandleExit(regs)
      \/ regs.nr = 1 /\ call = HandleWrite(mem, regs)
  <2>1. CASE Find(handlers, regs.nr) = {}
    BY <2>1 DEF DispatchCall
  <2>2. CASE Find(handlers, regs.nr) # {}
    <3> DEFINE h == CHOOSE x \in Find(handlers, regs.nr) : TRUE
    <3>1. h \in Find(handlers, regs.nr) /\ call = Handle(h, mem, regs)
      BY <2>2 DEF DispatchCall
    <3> HIDE DEF h
    <3>2. h.number = regs.nr
      BY <3>1 DEF Find
    <3> QED BY <3>1, <3>2 DEF Handle, WriteHandler
  <2> QED BY <2>1, <2>2
<1>6. CASE call = [outcome |-> Return(Err(ENOSYS)), io |-> NoOutput]
  BY <1>1, <1>2, <1>3, <1>4, <1>6
<1>7. CASE call = HandleExit(regs)
  <2>1. call.io = NoOutput /\ call.outcome = Exit(regs.arg0 % 256)
    BY <1>7 DEF HandleExit
  <2> QED BY <1>2, <1>3, <1>4, <2>1
<1>8. CASE regs.nr = 1 /\ call = HandleWrite(mem, regs)
  <2> DEFINE data == MemRead(mem, regs.ptr, regs.count)
  <2>1. \/ /\ call.io = NoOutput
           /\ call.outcome \in {Return(Err(EBADF)), Panic, EngineFailure}
        \/ /\ regs.arg0 \in {1, 2}
           /\ Readable(mem, regs.ptr, regs.count)
           /\ call.io = CaptureWrite(NoOutput, regs.arg0, data)
           /\ call.outcome = Return(regs.count)
    BY <1>8 DEF HandleWrite
  <2>2. CASE /\ call.io = NoOutput
             /\ call.outcome \in {Return(Err(EBADF)), Panic, EngineFailure}
    <3>1. outcome # Return(regs.count)
      BY <1>1, <1>2, <1>4, <2>2
    <3> QED BY <1>3, <2>2, <3>1
  <2>3. CASE /\ regs.arg0 \in {1, 2}
             /\ Readable(mem, regs.ptr, regs.count)
             /\ call.io = CaptureWrite(NoOutput, regs.arg0, data)
             /\ call.outcome = Return(regs.count)
    <3>1. data = Fetched(Served(regs.ptr, regs.count).cells)
      BY <2>3, ReadableIsFetched
    <3>2. data \in Seq(Nat)
      BY <1>1, <3>1, FetchedFacts
    <3> HIDE DEF data
    <3>3. /\ DOMAIN call.io = {regs.arg0}
          /\ \A fd : Captured(call.io, fd) = IF fd = regs.arg0 THEN data ELSE << >>
      BY <2>3, <3>2, CapturedOfWrite
    <3>4. outcome = Return(regs.count)
      BY <1>2, <1>4, <2>3
    <3> QED BY <1>8, <2>3, <3>1, <3>3, <3>4
  <2> QED BY <2>1, <2>2, <2>3
<1> QED BY <1>5, <1>6, <1>7, <1>8


(* One more call, and what it puts on a descriptor. *)
LEMMA PartsAppend ==
    ASSUME NEW regions, NEW calls \in Seq(Calls), NEW new \in Calls, NEW fd
    PROVE  PartsIn(regions, Append(calls, new), fd)
               = Append(PartsIn(regions, calls, fd), WroteIn(regions, fd, new))
<1> DEFINE more == Append(calls, new)
           n == Len(calls)
           w(call) == WroteIn(regions, fd, call)
<1>1. /\ n \in Nat /\ DOMAIN calls = 1 .. n /\ DOMAIN more = 1 .. n + 1
      /\ \A i \in 1 .. n : more[i] = calls[i]
      /\ more[n + 1] = new
  OBVIOUS
<1>2. PartsIn(regions, calls, fd) = [i \in 1 .. n |-> w(calls[i])]
  BY <1>1 DEF PartsIn
<1>3. PartsIn(regions, more, fd) = [i \in 1 .. n + 1 |-> w(more[i])]
  BY <1>1 DEF PartsIn
<1> HIDE DEF more, n, w
<1>4. Append([i \in 1 .. n |-> w(calls[i])], w(new))
          = [i \in 1 .. n + 1 |-> IF i = n + 1 THEN w(new) ELSE w(calls[i])]
  BY <1>1 DEF Append
<1>5. \A i \in 1 .. n + 1 : w(more[i]) = IF i = n + 1 THEN w(new) ELSE w(calls[i])
  BY <1>1
<1>6. PartsIn(regions, more, fd) = Append(PartsIn(regions, calls, fd), w(new))
  BY <1>2, <1>3, <1>4, <1>5
<1> QED BY <1>6 DEF more, w

LEMMA PartsAreData ==
    ASSUME TypeOK, NEW calls \in Seq(Calls), NEW fd
    PROVE  PartsIn(bytes, calls, fd) \in Seq(Seq(Nat))
<1>1. ASSUME NEW call \in Calls PROVE WroteIn(bytes, fd, call) \in Seq(Nat)
  <2>1. /\ call.regs \in Requests
        /\ call.regs.ptr \in Addresses /\ call.regs.count \in 0 .. Space
    BY ContextAssumption, RegionsAssumption DEF Calls, Addresses
  <2>2. Fetched(Served(call.regs.ptr, call.regs.count).cells) \in Seq(Nat)
    BY <2>1, FetchedFacts
  <2>3. << >> \in Seq(Nat)
    OBVIOUS
  <2> QED BY <2>2, <2>3 DEF WroteIn, FetchedIn, Fetched, Served, ServedIn, ExtentsIn, Extents
<1>2. /\ DOMAIN calls = 1 .. Len(calls) /\ Len(calls) \in Nat
      /\ \A i \in 1 .. Len(calls) : calls[i] \in Calls
  OBVIOUS
<1>3. /\ PartsIn(bytes, calls, fd) = [i \in 1 .. Len(calls) |-> WroteIn(bytes, fd, calls[i])]
      /\ \A i \in 1 .. Len(calls) : WroteIn(bytes, fd, calls[i]) \in Seq(Nat)
  BY <1>1, <1>2 DEF PartsIn
<1> QED BY <1>2, <1>3

(* The latest exit is the last of them, and one more call may be a later. *)
LEMMA LatestExists ==
    ASSUME NEW calls \in Seq(Calls), Exits(calls) # {}
    PROVE  LatestExit(calls) \in Exits(calls)
<1> DEFINE n == Len(calls)
           S == Exits(calls)
           Above == {u \in 1 .. n : \A j \in S : j <= u}
           least == Min(Above)
<1>1. n \in Nat /\ S \in SUBSET (1 .. n) /\ S # {}
  BY DEF Exits
<1> HIDE DEF n, S
<1>2. n \in Above
  <2>1. PICK k \in S : TRUE
    BY <1>1
  <2>2. k \in 1 .. n
    BY <1>1
  <2>3. n \in 1 .. n
    BY <1>1, <2>2
  <2>4. \A j \in S : j <= n
    BY <1>1
  <2> QED BY <2>3, <2>4
<1>3. least \in Above /\ \A u \in Above : least <= u
  <2>1. Above \in SUBSET Nat /\ Above # {}
    BY <1>2
  <2> HIDE DEF Above
  <2> QED BY <2>1, MinIsLeast
<1> HIDE DEF least
<1>4. least \in 1 .. n /\ \A j \in S : j <= least
  BY <1>3
<1>5. least \in S
  <2> SUFFICES ASSUME least \notin S PROVE FALSE
    OBVIOUS
  <2>1. ASSUME NEW j \in S PROVE j <= least - 1 /\ 1 <= least - 1
    <3>1. j \in 1 .. n /\ j <= least /\ j # least
      BY <1>1, <1>4
    <3> QED BY <1>4, <3>1
  <2>2. least - 1 \in 1 .. n /\ ~(least <= least - 1)
    <3>1. PICK k \in S : TRUE
      BY <1>1
    <3>2. 1 <= least - 1
      BY <2>1, <3>1
    <3> QED BY <1>1, <1>4, <3>2
  <2>3. least - 1 \in Above
    BY <2>1, <2>2
  <2> QED BY <1>3, <2>2, <2>3
<1>6. \E i \in Exits(calls) : \A j \in Exits(calls) : j <= i
  BY <1>4, <1>5 DEF S
<1> QED BY <1>6 DEF LatestExit

LEMMA LeftByAppend ==
    ASSUME NEW calls \in Seq(Calls), NEW new \in Calls
    PROVE  LeftBy(Append(calls, new)) =
               IF new.outcome.kind = "exit" THEN Exited(new.outcome.code)
               ELSE LeftBy(calls)
<1> DEFINE more == Append(calls, new)
           n == Len(calls)
           S == Exits(calls)
<1>1. /\ n \in Nat /\ DOMAIN calls = 1 .. n /\ DOMAIN more = 1 .. n + 1
      /\ \A i \in 1 .. n : more[i] = calls[i]
      /\ more[n + 1] = new
  OBVIOUS
<1> HIDE DEF more, n
<1>2. S \in SUBSET (1 .. n)
  BY <1>1 DEF Exits
<1>3. CASE new.outcome.kind = "exit"
  <2>1. Exits(more) = S \cup {n + 1}
    BY <1>1, <1>3 DEF Exits
  <2> HIDE DEF S
  <2>2. /\ n + 1 \in Exits(more)
        /\ \A j \in Exits(more) : j <= n + 1 /\ j \in Nat
    <3>1. \A j \in 1 .. n : j <= n + 1 /\ j \in Nat
      BY <1>1
    <3>2. n + 1 <= n + 1 /\ n + 1 \in Nat
      BY <1>1
    <3>3. \A j \in Exits(more) : j \in 1 .. n \/ j = n + 1
      BY <1>2, <2>1
    <3>4. n + 1 \in Exits(more)
      BY <2>1
    <3> QED BY <3>1, <3>2, <3>3, <3>4
  <2>3. LatestExit(more) \in Exits(more) /\ \A j \in Exits(more) : j <= LatestExit(more)
    BY <2>2 DEF LatestExit
  <2>4. LatestExit(more) = n + 1
    <3>1. /\ LatestExit(more) \in Nat /\ LatestExit(more) <= n + 1
          /\ n + 1 <= LatestExit(more)
      BY <2>2, <2>3
    <3> QED BY <1>1, <3>1
  <2>5. LeftBy(more) = Exited(new.outcome.code)
    BY <1>1, <2>2, <2>4 DEF LeftBy
  <2> QED BY <1>3, <2>5 DEF more
<1>4. CASE new.outcome.kind # "exit"
  <2>1. Exits(more) = Exits(calls)
    BY <1>1, <1>4 DEF Exits
  <2>2. LatestExit(more) = LatestExit(calls)
    BY <2>1 DEF LatestExit
  <2>3. Exits(calls) # {} => more[LatestExit(calls)] = calls[LatestExit(calls)]
    BY <1>1, <1>2, LatestExists
  <2>4. LeftBy(more) = LeftBy(calls)
    BY <2>1, <2>2, <2>3 DEF LeftBy
  <2> QED BY <1>4, <2>4 DEF more
<1> QED BY <1>3, <1>4


LEMMA ExtendedFacts ==
    ASSUME NEW more, NEW o, o = Extended(more),
           DOMAIN io \subseteq {1, 2}, DOMAIN more \subseteq {1, 2}
    PROVE  /\ DOMAIN o \subseteq {1, 2}
           /\ \A fd \in {1, 2} : Captured(o, fd) = Captured(io, fd) \o Captured(more, fd)
<1>1. DOMAIN o = DOMAIN io \cup DOMAIN more
  BY DEF Extended
<1>2. ASSUME NEW fd \in {1, 2}
      PROVE  Captured(o, fd) = Captured(io, fd) \o Captured(more, fd)
  <2>1. CASE fd \in DOMAIN o
    BY <2>1, <1>1 DEF Extended, Captured
  <2>2. CASE fd \notin DOMAIN o
    <3>1. /\ Captured(o, fd) = << >> /\ Captured(io, fd) = << >>
          /\ Captured(more, fd) = << >>
      BY <1>1, <2>2 DEF Captured
    <3>2. << >> \o << >> = << >>
      OBVIOUS
    <3> QED BY <3>1, <3>2
  <2> QED BY <2>1, <2>2
<1> QED BY <1>1, <1>2

LEMMA DispatchAddsUp ==
    ASSUME TypeOK, CallsAreTyped, ContextHas(bytes, made, io, process),
           NEW regs \in Requests, DispatchOn(regs)
    PROVE  ContextHas(bytes', made', io', process')
<1> DEFINE mem == IF ReadPanics(regs) THEN [a \in {} |-> 0] ELSE View(regs)
           call == DispatchCall(handlers, mem, regs)
           outcome == OutcomeOn(regs)
           new == [regs |-> regs, outcome |-> outcome, traced |-> sink]
<1>1. /\ io' = Extended(call.io)
      /\ bytes' = bytes
  BY DEF DispatchOn, guestVars
<1>2. /\ outcome \in Outcomes
      /\ made' = Append(made, new)
      /\ process' = IF outcome.kind = "exit" THEN Exited(outcome.code) ELSE process
  BY DispatchFacts
<1>3. /\ DOMAIN call.io \subseteq {1, 2}
      /\ \A fd \in {1, 2} :
            Captured(call.io, fd) =
              IF regs.nr = 1 /\ regs.arg0 = fd /\ outcome = Return(regs.count)
              THEN Fetched(Served(regs.ptr, regs.count).cells) ELSE << >>
  BY DispatchWrites
<1> HIDE DEF call, outcome
<1>4. new \in Calls /\ made \in Seq(Calls)
  BY <1>2 DEF CallsAreTyped, Calls
<1>5. new.regs = regs /\ new.outcome = outcome
  OBVIOUS
<1> HIDE DEF new
<1>6. \A fd \in {1, 2} : Captured(call.io, fd) = WroteIn(bytes, fd, new)
  <2>1. Fetched(Served(regs.ptr, regs.count).cells)
            = FetchedIn(bytes, ServedIn(ExtentsIn(bytes), regs.ptr, regs.count).cells)
    BY DEF FetchedIn, Fetched, Served, ServedIn, ExtentsIn, Extents
  <2> QED BY <1>3, <1>5, <2>1 DEF WroteIn
<1>7. /\ DOMAIN io' \subseteq {1, 2}
      /\ \A fd \in {1, 2} : Captured(io', fd) = Captured(io, fd) \o Captured(call.io, fd)
  <2>1. DOMAIN io \subseteq {1, 2}
    BY DEF ContextHas
  <2> QED BY <1>1, <1>3, <2>1, ExtendedFacts
<1>8. ASSUME NEW fd \in {1, 2}
      PROVE  Captured(io', fd) = Seqs!FlattenSeq(PartsIn(bytes', made', fd))
  <2> DEFINE parts == PartsIn(bytes, made, fd)
             part  == WroteIn(bytes, fd, new)
  <2>1. PartsIn(bytes', made', fd) = Append(parts, part)
    BY <1>1, <1>2, <1>4, PartsAppend
  <2>2. parts \in Seq(Seq(Nat))
    BY <1>4, PartsAreData
  <2>3. part \in Seq(Nat)
    <3>1. regs.ptr \in Addresses /\ regs.count \in 0 .. Space
      BY ContextAssumption, RegionsAssumption DEF Addresses
    <3>2. Fetched(Served(regs.ptr, regs.count).cells) \in Seq(Nat)
      BY <3>1, FetchedFacts
    <3>3. << >> \in Seq(Nat)
      OBVIOUS
    <3>4. Captured(call.io, fd) \in Seq(Nat)
      BY <1>3, <3>2, <3>3
    <3> QED BY <1>6, <3>4
  <2>4. Captured(io, fd) = Seqs!FlattenSeq(parts)
    BY DEF ContextHas
  <2> HIDE DEF parts, part
  <2>5. Seqs!FlattenSeq(Append(parts, part)) = Seqs!FlattenSeq(parts) \o part
    BY <2>2, <2>3, FlattenAppend
  <2>6. Captured(io', fd) = Captured(io, fd) \o part
    BY <1>6, <1>7 DEF part
  <2> QED BY <2>1, <2>4, <2>5, <2>6
<1>9. process' = LeftBy(made')
  <2>1. LeftBy(made') = IF outcome.kind = "exit" THEN Exited(outcome.code) ELSE LeftBy(made)
    BY <1>2, <1>4, <1>5, LeftByAppend
  <2>2. process = LeftBy(made)
    BY DEF ContextHas
  <2> QED BY <1>2, <2>1, <2>2
<1> QED BY <1>7, <1>8, <1>9 DEF ContextHas

(* The output on a descriptor is what the successful writes put there, in   *)
(* order, and the process state is that of the latest exit.                 *)
THEOREM ContextAddsUp == Spec => []ContextIsItsCalls
<1>1. Init => ContextIsItsCalls
  <2> SUFFICES ASSUME Init PROVE ContextHas(bytes, made, io, process)
    BY ContextHasIt
  <2>1. made = << >> /\ io = NoOutput /\ process = Running
    BY DEF Init
  <2>2. Exits(made) = {} /\ \A fd : PartsIn(bytes, made, fd) = << >>
    BY <2>1 DEF Exits, PartsIn
  <2>3. Seqs!FlattenSeq(<< >>) = << >>
    BY DEF Seqs!FlattenSeq
  <2>4. DOMAIN io = {} /\ \A fd : Captured(io, fd) = << >>
    BY <2>1 DEF NoOutput, Captured
  <2> QED BY <2>1, <2>2, <2>3, <2>4 DEF ContextHas, LeftBy
<1>2. TypeOK /\ CallsAreTyped /\ ContextIsItsCalls /\ [Next]_vars => ContextIsItsCalls'
  <2> SUFFICES ASSUME TypeOK, CallsAreTyped, ContextHas(bytes, made, io, process),
                      [Next]_vars
               PROVE  ContextHas(bytes', made', io', process')
    BY ContextHasIt
  <2>1. CASE UNCHANGED <<bytes, made, io, process>>
    BY <2>1
  <2>2. CASE Prepare
    <3>1. made = << >> /\ UNCHANGED <<made, io, process>>
      BY <2>2 DEF Prepare
    <3>2. \A fd : PartsIn(bytes, made, fd) = << >> /\ PartsIn(bytes', made', fd) = << >>
      BY <3>1 DEF PartsIn
    <3> QED BY <3>1, <3>2 DEF ContextHas
  <2>3. CASE SetTrace
    <3>1. /\ made' = [i \in DOMAIN made |-> [made[i] EXCEPT !.traced = FALSE]]
          /\ UNCHANGED <<bytes, io, process>>
      BY <2>3 DEF SetTrace, guestVars
    <3>2. \A i \in DOMAIN made : made[i] \in Calls
      BY DEF CallsAreTyped
    <3>3. /\ DOMAIN made' = DOMAIN made
          /\ \A i \in DOMAIN made : /\ made'[i].regs = made[i].regs
                                    /\ made'[i].outcome = made[i].outcome
      BY <3>1, <3>2 DEF Calls
    <3>4. ASSUME NEW fd PROVE PartsIn(bytes', made', fd) = PartsIn(bytes, made, fd)
      <4>1. \A i \in DOMAIN made : WroteIn(bytes, fd, made'[i]) = WroteIn(bytes, fd, made[i])
        BY <3>3 DEF WroteIn
      <4> QED BY <3>1, <3>3, <4>1 DEF PartsIn
    <3>5. Exits(made') = Exits(made)
      BY <3>3 DEF Exits
    <3>6. LatestExit(made') = LatestExit(made)
      BY <3>5 DEF LatestExit
    <3>7. LeftBy(made') = LeftBy(made)
      <4>1. made \in Seq(Calls)
        BY DEF CallsAreTyped
      <4>2. Exits(made) # {} => LatestExit(made) \in DOMAIN made
        BY <4>1, LatestExists DEF Exits
      <4> QED BY <3>3, <3>5, <3>6, <4>2 DEF LeftBy
    <3> QED BY <3>1, <3>4, <3>7 DEF ContextHas
  <2>4. ASSUME NEW h \in Candidates, RegisterHandler(h)
        PROVE  ContextHas(bytes', made', io', process')
    BY <2>1, <2>4 DEF RegisterHandler, guestVars
  <2>5. ASSUME NEW regs \in Requests, DispatchOn(regs)
        PROVE  ContextHas(bytes', made', io', process')
    BY <2>5, DispatchAddsUp
  <2>6. CASE UNCHANGED vars
    BY <2>1, <2>6 DEF vars, guestVars
  <2> QED BY <2>2, <2>3, <2>4, <2>5, <2>6 DEF Next
<1> QED BY <1>1, <1>2, GuestTypeCorrect, CallsTyped, PTL DEF Spec
=============================================================================
