------------------------------ MODULE Regions ------------------------------
(***************************************************************************)
(* The region arithmetic of memory/mmap.rs.  A region is a record          *)
(* [base, size, prot]; addresses are u64, so there are Space = 2^64 of     *)
(* them and `base + size' wraps at Space.  Whether it wraps in silence or  *)
(* panics depends on the build: Rust checks overflow in debug builds and   *)
(* not in release builds (the manifest leaves both at their defaults).     *)
(***************************************************************************)
EXTENDS Integers, Sequences, FiniteSetsExt

CONSTANTS
    Space,           \* the number of addresses, 2^64
    OverflowChecks   \* is this a build that panics on overflow

ASSUME RegionsAssumption ==
    /\ Space \in Nat \ {0}
    /\ OverflowChecks \in BOOLEAN

Addresses == 0 .. Space - 1

-----------------------------------------------------------------------------
(* The u64 sum of two u64. *)
Plus(a, b)      == (a + b) % Space
Overflows(a, b) == a + b >= Space

(* Region::end *)
End(r) == Plus(r.base, r.size)

(* Region::contains *)
Contains(r, addr) == r.base <= addr /\ addr < End(r)

(* Region::overlaps of a build that checks nothing, with an end that counts. *)
Overlaps_Inclusive(r, base, size) ==
    r.base <= Plus(base, size) /\ base < End(r)

(* Region::overlaps *)
Overlaps(r, base, size) ==
    r.base < Plus(base, size) /\ base < End(r)

(* The same where the end of the region itself is not looked at.            *)
OverlapsPanics_RequestOnly(r, base, size) ==
    OverflowChecks /\ Overflows(base, size)

(* Whether Region::overlaps panics instead.  `&&' evaluates the sum of its  *)
(* right-hand side only when the left-hand side holds.                      *)
OverlapsPanics(r, base, size) ==
    /\ OverflowChecks
    /\ \/ Overflows(base, size)
       \/ r.base < Plus(base, size) /\ Overflows(r.base, r.size)

(* MemoryMap::insert, its `any': the first region in order that overlaps or *)
(* panics decides.                                                          *)
InsertOutcome(regions, base, size) ==
    LET deciding == {i \in DOMAIN regions :
                        \/ OverlapsPanics(regions[i], base, size)
                        \/ Overlaps(regions[i], base, size)}
    IN  IF size = 0 \/ deciding = {} THEN "ok"
        ELSE IF OverlapsPanics(regions[Min(deciding)], base, size) THEN "panic"
        ELSE "overlap"

-----------------------------------------------------------------------------
(* Where sort_by_key puts a region pushed onto a sorted Vec: behind the     *)
(* regions up to the last whose base is not larger.                         *)
Place(regions, base) ==
    Min({k \in 0 .. Len(regions) :
            \A j \in DOMAIN regions : k < j => base < regions[j].base})

InsertAt(regions, k, r) ==
    [i \in 1 .. Len(regions) + 1 |->
        IF i <= k THEN regions[i] ELSE IF i = k + 1 THEN r ELSE regions[i - 1]]

(* push without the sort. *)
Inserted_Unsorted(regions, base, size, prot) ==
    IF size = 0 THEN regions
    ELSE Append(regions, [base |-> base, size |-> size, prot |-> prot])

(* insert without its early return. *)
Inserted_EmptyToo(regions, base, size, prot) ==
    InsertAt(regions, Place(regions, base),
             [base |-> base, size |-> size, prot |-> prot])

(* The regions after an insert that is ok. *)
Inserted(regions, base, size, prot) ==
    IF size = 0 THEN regions
    ELSE InsertAt(regions, Place(regions, base),
                  [base |-> base, size |-> size, prot |-> prot])
=============================================================================
