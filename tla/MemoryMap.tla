----------------------------- MODULE MemoryMap -----------------------------
(***************************************************************************)
(* memory::mmap::MemoryMap under any sequence of inserts.                  *)
(***************************************************************************)
EXTENDS Regions

CONSTANTS
    Inserts,      \* the arguments of insert: [base, size, prot]
    MaxRegions    \* bound: inserts into a map of this many regions at most

ASSUME MemoryMapAssumption ==
    /\ Inserts \subseteq [base : Addresses, size : Addresses, prot : Nat]
    /\ MaxRegions \in Nat

VARIABLES
    regions,   \* MemoryMap.regions
    answer     \* what insert last came to: "none", "ok", "overlap", "panic"

vars == <<regions, answer>>

Init == regions = << >> /\ answer = "none"

(* MemoryMap::insert *)
Insert(base, size, prot) ==
    /\ answer # "panic" /\ Len(regions) < MaxRegions
    /\ answer' = InsertOutcome(regions, base, size)
    /\ regions' = IF answer' = "ok" THEN Inserted(regions, base, size, prot)
                  ELSE regions

Next == \E r \in Inserts : Insert(r.base, r.size, r.prot)

Spec == Init /\ [][Next]_vars

-----------------------------------------------------------------------------
Region == [base : Addresses, size : Addresses \ {0}, prot : Nat]

(* Every variable holds a value of its type; an empty region is never kept. *)
TypeOK ==
    /\ regions \in Seq(Region)
    /\ answer \in {"none", "ok", "overlap", "panic"}

(* The regions are in address order and none reaches into the next one,     *)
(* with ends computed in the integers: what every reader of the map takes   *)
(* for granted.                                                             *)
SortedAndDisjoint ==
    \A i, j \in DOMAIN regions :
        i < j => regions[i].base + regions[i].size <= regions[j].base

-----------------------------------------------------------------------------
(* The map grants and refuses exactly what it should, and panics only where *)
(* an end is past the last address: in a build with overflow checks for     *)
(* every insert, in one without them for inserts that end inside.  Said of  *)
(* each insert and the request it stands for, which is more than that some  *)
(* request explains every step.                                             *)
AddressesOf(r) == r.base .. r.base + r.size - 1

Claims == INSTANCE AddressClaims WITH
    Requests <- {AddressesOf(r) : r \in Inserts},
    Limit    <- Space - 1,
    claimed  <- UNION {AddressesOf(regions[i]) : i \in DOMAIN regions},
    answer   <- IF answer = "panic" THEN "abort" ELSE answer

ImplementsClaims ==
    /\ Claims!Init
    /\ [][\A r \in Inserts :
            Insert(r.base, r.size, r.prot) => Claims!Request(AddressesOf(r))]_vars
=============================================================================
