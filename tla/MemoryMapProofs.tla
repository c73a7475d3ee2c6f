-------------------------- MODULE MemoryMapProofs --------------------------
(***************************************************************************)
(* Proofs about MemoryMap, for every address space and every set of        *)
(* inserts: where the sorted Vec puts a region, and that the regions stay  *)
(* disjoint if no insert reaches the end of the address space or the build *)
(* checks for overflow.                                                    *)
(***************************************************************************)
EXTENDS MemoryMap, RegionsProofs

-----------------------------------------------------------------------------
(* What the type of the map says of each of its regions. *)
LEMMA RegionFacts ==
    ASSUME TypeOK
    PROVE  /\ Len(regions) \in Nat
           /\ DOMAIN regions = 1 .. Len(regions)
           /\ \A i \in DOMAIN regions :
                 /\ regions[i] \in Region
                 /\ regions[i].base \in Nat /\ regions[i].base < Space
                 /\ regions[i].size \in Nat \ {0} /\ regions[i].size < Space
<1> USE RegionsAssumption
<1>1. regions \in Seq(Region)
  BY DEF TypeOK
<1>2. \A r \in Region : /\ r.base \in Nat /\ r.base < Space
                        /\ r.size \in Nat \ {0} /\ r.size < Space
  BY DEF Region, Addresses
<1> QED BY <1>1, <1>2

(* The place of a base in a sorted map: behind every region that starts at  *)
(* or below it, ahead of every region that starts above it.                 *)
LEMMA PlaceSplits ==
    ASSUME TypeOK, SortedAndDisjoint, NEW base \in Addresses
    PROVE  /\ Place(regions, base) \in 0 .. Len(regions)
           /\ \A i \in DOMAIN regions :
                 i <= Place(regions, base) <=> regions[i].base <= base
<1> DEFINE place == Place(regions, base)
<1> USE RegionsAssumption
<1>1. /\ Len(regions) \in Nat
      /\ DOMAIN regions = 1 .. Len(regions)
      /\ \A i \in DOMAIN regions :
            regions[i].base \in Nat /\ regions[i].size \in Nat \ {0}
      /\ base \in Nat
  BY RegionFacts DEF Addresses
<1>2. /\ place \in 0 .. Len(regions)
      /\ \A j \in DOMAIN regions : place < j => base < regions[j].base
      /\ place # 0 => regions[place].base <= base
  <2>1. regions \in Seq(Region)
    BY DEF TypeOK
  <2> QED BY <1>1, <2>1, PlaceIsBehindTheLast
<1> HIDE DEF place
<1>3. ASSUME NEW i \in DOMAIN regions, i <= place
      PROVE  regions[i].base <= base
  <2>1. place \in DOMAIN regions /\ place # 0
    BY <1>1, <1>2, <1>3
  <2>2. i < place => regions[i].base <= regions[place].base
    BY <1>1, <2>1 DEF SortedAndDisjoint
  <2> QED BY <1>1, <1>2, <1>3, <2>1, <2>2
<1>4. \A i \in DOMAIN regions : i <= place <=> regions[i].base <= base
  BY <1>1, <1>2, <1>3
<1> QED BY <1>2, <1>4 DEF place

-----------------------------------------------------------------------------
(* When ends do not wrap, what overlaps computes is the question it is      *)
(* asked.                                                                   *)

InsertsInside == \A r \in Inserts : r.base + r.size < Space
RegionsInside == \A i \in DOMAIN regions :
                    regions[i].base + regions[i].size < Space

(* Disjointness needs to know of each region that its end did not wrap, or  *)
(* that looking at a wrapped end would have panicked.                       *)
MapInv ==
    /\ TypeOK
    /\ SortedAndDisjoint
    /\ OverflowChecks = TRUE \/ RegionsInside

(* An insert that is ok, of a region that is not empty, leaves every region *)
(* on one side of the new one.                                              *)
LEMMA OkMeansClear ==
    ASSUME MapInv, OverflowChecks = TRUE \/ InsertsInside,
           NEW r \in Inserts, r.size # 0,
           InsertOutcome(regions, r.base, r.size) = "ok",
           NEW i \in DOMAIN regions
    PROVE  \/ r.base + r.size <= regions[i].base
           \/ regions[i].base + regions[i].size <= r.base
<1> DEFINE q == regions[i]
<1> USE RegionsAssumption, MemoryMapAssumption
<1>1. r.base \in Nat /\ r.size \in Nat /\ r.size < Space
  BY DEF Addresses
<1>2. q.base \in Nat /\ q.size \in Nat /\ q.base < Space /\ q.size < Space
  BY RegionFacts DEF MapInv
<1>3. ~OverlapsPanics(q, r.base, r.size) /\ ~Overlaps(q, r.base, r.size)
  BY DEF InsertOutcome
<1>4. r.base + r.size < Space
  BY <1>1, <1>3 DEF OverlapsPanics, Overflows, InsertsInside
<1>5. Plus(r.base, r.size) = r.base + r.size
  BY <1>1, <1>4 DEF Plus
<1>6. q.base < r.base + r.size => q.base + q.size < Space
  BY <1>1, <1>2, <1>3, <1>5 DEF MapInv, RegionsInside, OverlapsPanics, Overflows
<1> HIDE DEF q
<1>7. r.base + r.size <= q.base \/ q.base + q.size <= r.base
  BY <1>1, <1>2, <1>3, <1>4, <1>6, NoOverlapSeparates
<1> QED BY <1>7 DEF q

(* An insert keeps the regions sorted and disjoint.                         *)
LEMMA InsertKeeps ==
    ASSUME MapInv, OverflowChecks = TRUE \/ InsertsInside,
           NEW r \in Inserts, Insert(r.base, r.size, r.prot)
    PROVE  MapInv'
<1> DEFINE place == Place(regions, r.base)
           new   == [base |-> r.base, size |-> r.size, prot |-> r.prot]
<1> USE RegionsAssumption, MemoryMapAssumption
<1>1. /\ r.base \in Addresses /\ r.size \in Addresses /\ r.prot \in Nat
      /\ r.base \in Nat /\ r.size \in Nat
  BY DEF Addresses
<1>2. answer' \in {"ok", "overlap", "panic"}
  BY DEF Insert, InsertOutcome
<1>3. CASE regions' = regions
  BY <1>2, <1>3 DEF MapInv, TypeOK, SortedAndDisjoint, RegionsInside
<1>4. CASE regions' # regions
  <2>1. /\ r.size # 0
        /\ InsertOutcome(regions, r.base, r.size) = "ok"
        /\ regions' = InsertAt(regions, place, new)
    BY <1>4 DEF Insert, Inserted
  <2>2. /\ place \in 0 .. Len(regions)
        /\ \A i \in DOMAIN regions : i <= place <=> regions[i].base <= r.base
    BY <1>1, PlaceSplits DEF MapInv
  <2>3. /\ regions \in Seq(Region) /\ Len(regions) \in Nat
        /\ DOMAIN regions = 1 .. Len(regions)
        /\ \A i \in DOMAIN regions : /\ regions[i] \in Region
                                     /\ regions[i].base \in Nat
                                     /\ regions[i].size \in Nat \ {0}
    BY RegionFacts DEF MapInv, TypeOK
  <2>4. new \in Region /\ new.base = r.base /\ new.size = r.size
    BY <1>1, <2>1 DEF Region
  <2>5. \A i \in DOMAIN regions : \/ r.base + r.size <= regions[i].base
                                  \/ regions[i].base + regions[i].size <= r.base
    BY <2>1, OkMeansClear
  <2> HIDE DEF place, new
  <2>6. \A i \in DOMAIN regions :
            IF i <= place THEN regions[i].base + regions[i].size <= r.base
            ELSE r.base + r.size <= regions[i].base
    BY <1>1, <2>1, <2>2, <2>3, <2>5
  <2>7. /\ DOMAIN regions' = 1 .. Len(regions) + 1
        /\ \A i \in DOMAIN regions' :
              regions'[i] = IF i <= place THEN regions[i]
                            ELSE IF i = place + 1 THEN new ELSE regions[i - 1]
    BY <2>1 DEF InsertAt
  <2>8. \A i \in DOMAIN regions' : regions'[i] \in Region
    BY <2>2, <2>3, <2>4, <2>7
  <2>9. TypeOK'
    <3>1. regions' \in Seq(Region)
      BY <2>1, <2>3, <2>7, <2>8 DEF InsertAt
    <3> QED BY <1>2, <3>1 DEF TypeOK
  <2>10. SortedAndDisjoint'
    <3> SUFFICES ASSUME NEW i \in DOMAIN regions', NEW j \in DOMAIN regions', i < j
                 PROVE  regions'[i].base + regions'[i].size <= regions'[j].base
      BY DEF SortedAndDisjoint
    <3>1. CASE i = place + 1
      <4>1. j - 1 \in DOMAIN regions /\ ~(j - 1 <= place)
        BY <2>2, <2>3, <2>7, <3>1
      <4>2. regions'[i] = new /\ regions'[j] = regions[j - 1]
        BY <2>2, <2>3, <2>7, <3>1
      <4> QED BY <2>4, <2>6, <4>1, <4>2
    <3>2. CASE j = place + 1
      <4>1. i \in DOMAIN regions /\ i <= place
        BY <2>2, <2>3, <2>7, <3>2
      <4>2. regions'[j] = new /\ regions'[i] = regions[i]
        BY <2>2, <2>3, <2>7, <3>2
      <4> QED BY <2>4, <2>6, <4>1, <4>2
    <3>3. CASE i # place + 1 /\ j # place + 1
      <4> DEFINE old(k) == IF k <= place THEN k ELSE k - 1
      <4>1. /\ old(i) \in DOMAIN regions /\ old(j) \in DOMAIN regions
            /\ old(i) < old(j)
        BY <2>2, <2>3, <2>7, <3>3
      <4>2. regions'[i] = regions[old(i)] /\ regions'[j] = regions[old(j)]
        BY <2>2, <2>3, <2>7, <3>3
      <4> HIDE DEF old
      <4> QED BY <4>1, <4>2 DEF MapInv, SortedAndDisjoint
    <3> QED BY <3>1, <3>2, <3>3
  <2>11. OverflowChecks = TRUE \/ RegionsInside'
    <3>1. CASE InsertsInside /\ RegionsInside
      <4>1. new.base + new.size < Space
        BY <2>4, <3>1 DEF InsertsInside
      <4> QED BY <2>2, <2>3, <2>7, <3>1, <4>1 DEF RegionsInside
    <3> QED BY <3>1 DEF MapInv
  <2> QED BY <2>9, <2>10, <2>11 DEF MapInv
<1> QED BY <1>3, <1>4

(* Every state of the map is well typed, whatever is inserted and however   *)
(* the build treats overflow; in particular an empty region is never kept.  *)
THEOREM MapTypeCorrect == Spec => []TypeOK
<1>1. Init => TypeOK
  BY DEF Init, TypeOK
<1>2. TypeOK /\ [Next]_vars => TypeOK'
  <2> SUFFICES ASSUME TypeOK, [Next]_vars PROVE TypeOK'
    OBVIOUS
  <2>1. CASE UNCHANGED vars
    BY <2>1 DEF vars, TypeOK
  <2>2. ASSUME NEW r \in Inserts, Insert(r.base, r.size, r.prot) PROVE TypeOK'
    <3> DEFINE place == Place(regions, r.base)
               new   == [base |-> r.base, size |-> r.size, prot |-> r.prot]
    <3>1. answer' \in {"ok", "overlap", "panic"}
      BY <2>2 DEF Insert, InsertOutcome
    <3>2. CASE regions' = regions
      BY <3>1, <3>2 DEF TypeOK
    <3>3. CASE regions' # regions
      <4>1. r.size # 0 /\ regions' = InsertAt(regions, place, new)
        BY <2>2, <3>3 DEF Insert, Inserted
      <4>2. /\ r.base \in Addresses /\ r.size \in Addresses /\ r.prot \in Nat
            /\ r.base \in Nat
        BY MemoryMapAssumption, RegionsAssumption DEF Addresses
      <4>3. new \in Region
        BY <4>1, <4>2 DEF Region
      <4>4. regions \in Seq(Region) /\ place \in 0 .. Len(regions)
        <5>1. regions \in Seq(Region) /\ \A i \in DOMAIN regions : regions[i].base \in Nat
          BY RegionFacts DEF TypeOK
        <5> QED BY <4>2, <5>1, PlaceIsBehindTheLast
      <4> HIDE DEF place, new
      <4>5. regions' \in Seq(Region)
        BY <4>1, <4>3, <4>4, InsertAtElements
      <4> QED BY <3>1, <4>5 DEF TypeOK
    <3> QED BY <3>2, <3>3
  <2> QED BY <2>1, <2>2 DEF Next
<1> QED BY <1>1, <1>2, PTL DEF Spec

(* The invariant is inductive. *)
LEMMA MapInvariant ==
    ASSUME OverflowChecks = TRUE \/ InsertsInside
    PROVE  Spec => []MapInv
<1>1. Init => MapInv
  BY DEF Init, MapInv, TypeOK, SortedAndDisjoint, RegionsInside
<1>2. MapInv /\ [Next]_vars => MapInv'
  <2> SUFFICES ASSUME MapInv, [Next]_vars PROVE MapInv'
    OBVIOUS
  <2>1. CASE UNCHANGED vars
    BY <2>1 DEF vars, MapInv, TypeOK, SortedAndDisjoint, RegionsInside
  <2>2. ASSUME NEW r \in Inserts, Insert(r.base, r.size, r.prot) PROVE MapInv'
    BY <2>2, InsertKeeps
  <2> QED BY <2>1, <2>2 DEF Next
<1> QED BY <1>1, <1>2, PTL DEF Spec

(* No sequence of inserts makes claimed regions overlap, if the build       *)
(* checks for overflow or no insert reaches the end of the address space.   *)
THEOREM RegionsStayDisjoint ==
    ASSUME OverflowChecks = TRUE \/ InsertsInside
    PROVE  Spec => []SortedAndDisjoint
<1>1. MapInv => SortedAndDisjoint
  BY DEF MapInv
<1> QED BY <1>1, MapInvariant, PTL

-----------------------------------------------------------------------------
(* The refinement: each answer is the right one. *)

Claimed == UNION {AddressesOf(regions[i]) : i \in DOMAIN regions}

LEMMA ClaimedIs ==
    \A a : a \in Claimed <=> \E i \in DOMAIN regions : a \in AddressesOf(regions[i])
BY DEF Claimed

(* An insert that is ok grants the request. *)
LEMMA OkGrants ==
    ASSUME MapInv, OverflowChecks = TRUE \/ InsertsInside,
           NEW r \in Inserts, Insert(r.base, r.size, r.prot), answer' = "ok"
    PROVE  /\ AddressesOf(r) \cap Claimed = {}
           /\ Claimed' = Claimed \cup AddressesOf(r)
<1> DEFINE place == Place(regions, r.base)
           new   == [base |-> r.base, size |-> r.size, prot |-> r.prot]
<1>1. /\ r.base \in Addresses /\ r.size \in Addresses /\ r.prot \in Nat
      /\ r.base \in Nat /\ r.size \in Nat
  BY MemoryMapAssumption, RegionsAssumption DEF Addresses
<1>2. /\ InsertOutcome(regions, r.base, r.size) = "ok"
      /\ regions' = Inserted(regions, r.base, r.size, r.prot)
  BY DEF Insert
<1>3. CASE r.size = 0
  <2>1. AddressesOf(r) = {}
    BY <1>1, <1>3 DEF AddressesOf
  <2>2. regions' = regions
    BY <1>2, <1>3 DEF Inserted
  <2> QED BY <2>1, <2>2 DEF Claimed
<1>4. CASE r.size # 0
  <2>1. \A i \in DOMAIN regions : /\ regions[i].base \in Nat /\ regions[i].size \in Nat
                                  /\ \/ r.base + r.size <= regions[i].base
                                     \/ regions[i].base + regions[i].size <= r.base
    BY <1>2, <1>4, OkMeansClear, RegionFacts DEF MapInv
  <2>2. AddressesOf(r) \cap Claimed = {}
    BY <1>1, <2>1, ClaimedIs DEF AddressesOf
  <2>3. /\ regions' = InsertAt(regions, place, new)
        /\ new \in Region /\ regions \in Seq(Region)
    BY <1>1, <1>2, <1>4 DEF Inserted, Region, MapInv, TypeOK
  <2>4. place \in 0 .. Len(regions)
    BY <1>1, <2>1, <2>3, PlaceIsBehindTheLast
  <2>5. AddressesOf(new) = AddressesOf(r)
    BY DEF AddressesOf
  <2> HIDE DEF place, new
  <2>6. /\ \E j \in DOMAIN regions' : regions'[j] = new
        /\ \A i \in DOMAIN regions : \E j \in DOMAIN regions' : regions'[j] = regions[i]
        /\ \A j \in DOMAIN regions' :
              regions'[j] = new \/ \E i \in DOMAIN regions : regions'[j] = regions[i]
    BY <2>3, <2>4, InsertAtElements
  <2>7. ASSUME NEW a PROVE a \in Claimed' <=> (a \in Claimed \/ a \in AddressesOf(r))
    <3>1. a \in Claimed' <=> \E j \in DOMAIN regions' : a \in AddressesOf(regions'[j])
      BY DEF Claimed
    <3> QED BY <2>5, <2>6, <3>1, ClaimedIs
  <2> QED BY <2>2, <2>7
<1> QED BY <1>3, <1>4

(* An insert is refused for an address it shares with a region. *)
LEMMA RefusedIsClaimed ==
    ASSUME MapInv, OverflowChecks = TRUE \/ InsertsInside,
           NEW r \in Inserts, InsertOutcome(regions, r.base, r.size) = "overlap"
    PROVE  AddressesOf(r) \cap Claimed # {}
<1> DEFINE deciding == {i \in DOMAIN regions :
                            \/ OverlapsPanics(regions[i], r.base, r.size)
                            \/ Overlaps(regions[i], r.base, r.size)}
<1>1. /\ r.base \in Nat /\ r.size \in Nat /\ Space \in Nat \ {0}
  BY MemoryMapAssumption, RegionsAssumption DEF Addresses
<1>2. /\ r.size # 0 /\ deciding # {}
      /\ ~OverlapsPanics(regions[Min(deciding)], r.base, r.size)
  BY DEF InsertOutcome
<1>3. deciding \in SUBSET Nat
  BY RegionFacts DEF MapInv
<1>4. Min(deciding) \in deciding
  BY <1>2, <1>3, MinIsLeast
<1>5. PICK i \in DOMAIN regions : /\ ~OverlapsPanics(regions[i], r.base, r.size)
                                  /\ Overlaps(regions[i], r.base, r.size)
  BY <1>2, <1>4
<1> DEFINE q == regions[i]
<1>6. q.base \in Nat /\ q.size \in Nat \ {0}
  BY RegionFacts DEF MapInv
<1>7. r.base + r.size < Space
  BY <1>1, <1>5 DEF OverlapsPanics, Overflows, InsertsInside
<1>8. Plus(r.base, r.size) = r.base + r.size
  BY <1>1, <1>7 DEF Plus
<1>9. q.base < r.base + r.size
  BY <1>5, <1>8 DEF Overlaps
<1>10. q.base + q.size < Space
  BY <1>1, <1>5, <1>6, <1>8, <1>9 DEF OverlapsPanics, Overflows, MapInv, RegionsInside
<1>11. End(q) = q.base + q.size
  BY <1>1, <1>6, <1>10 DEF End, Plus
<1>12. r.base < q.base + q.size
  BY <1>5, <1>11 DEF Overlaps
<1> HIDE DEF q
<1>13. PICK a \in Nat : /\ r.base <= a /\ a < r.base + r.size
                        /\ q.base <= a /\ a < q.base + q.size
  <2>1. CASE q.base <= r.base
    BY <1>1, <1>2, <1>6, <1>12, <2>1
  <2>2. CASE r.base <= q.base
    BY <1>1, <1>2, <1>6, <1>9, <2>2
  <2> QED BY <1>1, <1>6, <2>1, <2>2
<1>14. a \in AddressesOf(r) /\ a \in AddressesOf(q)
  BY <1>1, <1>6, <1>13 DEF AddressesOf
<1> QED BY <1>14, ClaimedIs DEF q

(* An insert panics only where an end is past the last address. *)
LEMMA PanicIsAtTheEnd ==
    ASSUME TypeOK, NEW r \in Inserts,
           InsertOutcome(regions, r.base, r.size) = "panic"
    PROVE  \E a \in AddressesOf(r) \cup Claimed : a >= Space - 1
<1> DEFINE deciding == {i \in DOMAIN regions :
                            \/ OverlapsPanics(regions[i], r.base, r.size)
                            \/ Overlaps(regions[i], r.base, r.size)}
<1>1. /\ r.base \in Nat /\ r.size \in Nat /\ Space \in Nat \ {0}
  BY MemoryMapAssumption, RegionsAssumption DEF Addresses
<1>2. /\ r.size # 0 /\ deciding # {}
      /\ OverlapsPanics(regions[Min(deciding)], r.base, r.size)
  BY DEF InsertOutcome
<1>3. deciding \in SUBSET Nat
  BY RegionFacts
<1>4. Min(deciding) \in deciding
  BY <1>2, <1>3, MinIsLeast
<1>5. PICK i \in DOMAIN regions : OverlapsPanics(regions[i], r.base, r.size)
  BY <1>2, <1>4
<1> DEFINE q == regions[i]
<1>6. q.base \in Nat /\ q.size \in Nat \ {0}
  BY RegionFacts
<1>7. CASE Overflows(r.base, r.size)
  <2>1. r.base + r.size - 1 \in AddressesOf(r) /\ r.base + r.size - 1 >= Space - 1
    BY <1>1, <1>2, <1>7 DEF Overflows, AddressesOf
  <2> QED BY <2>1
<1>8. CASE Overflows(q.base, q.size)
  <2> HIDE DEF q
  <2>1. q.base + q.size - 1 \in AddressesOf(q) /\ q.base + q.size - 1 >= Space - 1
    BY <1>1, <1>6, <1>8 DEF Overflows, AddressesOf
  <2> QED BY <2>1, ClaimedIs DEF q
<1> QED BY <1>5, <1>7, <1>8 DEF OverlapsPanics

(* The map implements the abstract claims: it grants what is free, refuses  *)
(* what is not, and panics only at the end of the address space.            *)
THEOREM MapGrantsWhatIsFree ==
    ASSUME OverflowChecks = TRUE \/ InsertsInside
    PROVE  Spec => ImplementsClaims
<1>1. Init => Claims!Init
  BY DEF Init, Claims!Init
<1>2. MapInv /\ [Next]_vars =>
         [\A r \in Inserts :
             Insert(r.base, r.size, r.prot) => Claims!Request(AddressesOf(r))]_vars
  <2> SUFFICES ASSUME MapInv, NEW r \in Inserts, Insert(r.base, r.size, r.prot)
               PROVE  Claims!Request(AddressesOf(r))
    OBVIOUS
  <2>1. /\ answer' = InsertOutcome(regions, r.base, r.size)
        /\ answer' \in {"ok", "overlap", "panic"}
        /\ answer' # "ok" => regions' = regions
    BY DEF Insert, InsertOutcome
  <2>2. CASE answer' = "ok"
    BY <2>2, OkGrants DEF Claims!Request, Claims!Grant, Claimed
  <2>3. CASE answer' = "overlap"
    <3>1. AddressesOf(r) \cap Claimed # {}
      BY <2>1, <2>3, RefusedIsClaimed
    <3> QED BY <2>1, <2>3, <3>1 DEF Claims!Request, Claims!Refuse, Claimed
  <2>4. CASE answer' = "panic"
    <3>1. \E a \in AddressesOf(r) \cup Claimed : a >= Space - 1
      BY <2>1, <2>4, PanicIsAtTheEnd DEF MapInv
    <3> QED BY <2>1, <2>4, <3>1 DEF Claims!Request, Claims!Abort, Claimed
  <2> QED BY <2>1, <2>2, <2>3, <2>4
<1> QED BY <1>1, <1>2, MapInvariant, PTL DEF Spec, ImplementsClaims
=============================================================================
