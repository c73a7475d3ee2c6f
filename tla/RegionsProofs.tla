--------------------------- MODULE RegionsProofs ---------------------------
(***************************************************************************)
(* Lemmas about Regions that every user of a memory map rests on: where an *)
(* insert goes, what it leaves, and what the overlap test has decided when *)
(* no end wraps.                                                           *)
(***************************************************************************)
EXTENDS Regions, WellFoundedInduction, TLAPS

(* The least number of a set is in it and below the others. *)
LEMMA MinIsLeast ==
    ASSUME NEW S \in SUBSET Nat, S # {}
    PROVE  Min(S) \in S /\ \A n \in S : Min(S) <= n
<1> DEFINE R == OpToRel(<, Nat)
<1>1. \A m, n \in Nat : m < n => <<m, n>> \in R
  BY DEF OpToRel
<1>2. PICK m \in S : \A n \in S : ~(<<n, m>> \in R)
  <2>1. IsWellFoundedOn(R, Nat)
    BY NatLessThanWellFounded
  <2> HIDE DEF R
  <2> QED BY <2>1, WFMin
<1> HIDE DEF R
<1>3. ASSUME NEW n \in S PROVE m <= n
  <2>1. m \in Nat /\ n \in Nat
    OBVIOUS
  <2>2. ~(n < m)
    BY <1>1, <1>2, <2>1
  <2> QED BY <2>1, <2>2
<1> QED BY <1>2, <1>3 DEF Min

(* The place of a base: everything behind it starts above the base, and the *)
(* region in front of it, if there is one, does not.                        *)
LEMMA PlaceIsBehindTheLast ==
    ASSUME NEW S, NEW rs \in Seq(S), \A i \in DOMAIN rs : rs[i].base \in Nat,
           NEW base \in Nat
    PROVE  /\ Place(rs, base) \in 0 .. Len(rs)
           /\ \A j \in DOMAIN rs : Place(rs, base) < j => base < rs[j].base
           /\ Place(rs, base) # 0 => rs[Place(rs, base)].base <= base
<1> DEFINE fits == {k \in 0 .. Len(rs) :
                        \A j \in DOMAIN rs : k < j => base < rs[j].base}
           place == Place(rs, base)
<1>1. Len(rs) \in Nat /\ DOMAIN rs = 1 .. Len(rs)
  OBVIOUS
<1>2. Len(rs) \in fits
  BY <1>1
<1>3. place \in fits /\ \A k \in fits : place <= k
  <2>1. fits \in SUBSET Nat /\ fits # {}
    BY <1>1, <1>2
  <2>2. place = Min(fits)
    BY DEF Place
  <2> HIDE DEF fits, place
  <2> QED BY <2>1, <2>2, MinIsLeast
<1>4. /\ place \in 0 .. Len(rs)
      /\ \A j \in DOMAIN rs : place < j => base < rs[j].base
  BY <1>3
<1>5. place # 0 => rs[place].base <= base
  <2> SUFFICES ASSUME place # 0, base < rs[place].base PROVE FALSE
    BY <1>1, <1>4
  <2>1. place - 1 \in fits
    BY <1>1, <1>4
  <2> QED BY <1>3, <1>4, <2>1
<1> QED BY <1>4, <1>5

(* An insert adds the region and keeps the others. *)
LEMMA InsertAtElements ==
    ASSUME NEW S, NEW rs \in Seq(S), NEW r \in S, NEW k \in 0 .. Len(rs)
    PROVE  /\ InsertAt(rs, k, r) \in Seq(S)
           /\ \E j \in DOMAIN InsertAt(rs, k, r) : InsertAt(rs, k, r)[j] = r
           /\ \A i \in DOMAIN rs : \E j \in DOMAIN InsertAt(rs, k, r) :
                 InsertAt(rs, k, r)[j] = rs[i]
           /\ \A j \in DOMAIN InsertAt(rs, k, r) :
                 \/ InsertAt(rs, k, r)[j] = r
                 \/ \E i \in DOMAIN rs : InsertAt(rs, k, r)[j] = rs[i]
<1> DEFINE new == InsertAt(rs, k, r)
<1>1. Len(rs) \in Nat /\ DOMAIN rs = 1 .. Len(rs) /\ k \in Nat
  OBVIOUS
<1>2. /\ DOMAIN new = 1 .. Len(rs) + 1
      /\ \A j \in DOMAIN new : new[j] = IF j <= k THEN rs[j]
                                        ELSE IF j = k + 1 THEN r ELSE rs[j - 1]
  BY DEF InsertAt
<1>3. new \in Seq(S)
  BY <1>1 DEF InsertAt
<1> HIDE DEF new
<1>4. k + 1 \in DOMAIN new /\ new[k + 1] = r
  BY <1>1, <1>2
<1>5. ASSUME NEW i \in DOMAIN rs
      PROVE  \E j \in DOMAIN new : new[j] = rs[i]
  <2>1. CASE i <= k
    BY <1>1, <1>2, <2>1
  <2>2. CASE ~(i <= k)
    <3>1. i + 1 \in DOMAIN new /\ new[i + 1] = rs[i]
      BY <1>1, <1>2, <2>2
    <3> QED BY <3>1
  <2> QED BY <2>1, <2>2
<1>6. ASSUME NEW j \in DOMAIN new
      PROVE  new[j] = r \/ \E i \in DOMAIN rs : new[j] = rs[i]
  <2>1. CASE j <= k
    BY <1>1, <1>2, <2>1
  <2>2. CASE j > k + 1
    <3>1. j - 1 \in DOMAIN rs /\ new[j] = rs[j - 1]
      BY <1>1, <1>2, <2>2
    <3> QED BY <3>1
  <2> QED BY <1>1, <1>2, <2>1, <2>2
<1> QED BY <1>3, <1>4, <1>5, <1>6 DEF new

(* Ends that do not wrap are sums, so that a region found not to overlap    *)
(* lies wholly on one side.                                                 *)
LEMMA NoOverlapSeparates ==
    ASSUME NEW q, q.base \in Nat, q.size \in Nat,
           NEW base \in Nat, NEW size \in Nat, base + size < Space,
           q.base < base + size => q.base + q.size < Space,
           ~Overlaps(q, base, size)
    PROVE  base + size <= q.base \/ q.base + q.size <= base
<1> USE RegionsAssumption
<1> DEFINE b == q.base
           s == q.size
<1>1. b \in Nat /\ s \in Nat /\ base + size \in Nat /\ b + s \in Nat
  OBVIOUS
<1>2. Plus(base, size) = base + size
  BY <1>1 DEF Plus
<1>3. b + s < Space => End(q) = b + s
  BY <1>1 DEF End, Plus
<1>4. ~(b < base + size) \/ ~(base < End(q))
  BY <1>2 DEF Overlaps
<1>5. b < base + size => b + s < Space
  OBVIOUS
<1> HIDE DEF b, s
<1>6. base + size <= b \/ b + s <= base
  BY <1>1, <1>3, <1>4, <1>5
<1> QED BY <1>6 DEF b, s
=============================================================================
