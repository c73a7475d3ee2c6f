----------------------- MODULE AddressSpaceProperties -----------------------
(***************************************************************************)
(* What is asked of AddressSpace: the accounts of the guest's memory agree, *)
(* and a guest that may run finds its image where it was linked.           *)
(***************************************************************************)
EXTENDS AddressSpace

Claim  == [base : Addresses, size : Addresses \ {0}, prot : 0 .. 7]
Listed == [base : Addresses, size : Addresses \ {0}]

(* Every variable of the mapper holds a value of its type. *)
SpaceTypeOK ==
    /\ stage \in {"loading", "engine", "segments", "stack", "frame", "ready",
                  "failed"}
    /\ seg \in 1 .. Len(segments) + 1
    /\ map \in Seq(Claim)
    /\ regions \in Seq(Listed)
    /\ DOMAIN engine \subseteq Addresses
    /\ \A a \in DOMAIN engine : engine[a] \in Addresses
    /\ access \in [DOMAIN engine -> SUBSET {"r", "w", "x"}]
    /\ rip \in Addresses /\ rsp \in Addresses
    /\ failure \in {"none", "init", "overlap", "engine", "regop", "panic"}
    /\ extra \in 0 .. MaxExtra

(* Each address a Vcpu lists is mapped in the engine, under one region, even *)
(* where a wrapped end blinds the map to an overlap.  The engine has mapped *)
(* no more than that, but for one case: where the copy of a segment has     *)
(* failed its pages are claimed and mapped, no region has them, and the     *)
(* Vcpu is never run.                                                       *)
EngineIsRegions ==
    LET spanned == UNION {Cells(regions[i].base, regions[i].size) :
                              i \in DOMAIN regions}
        p == segments[seg]
        torn == Cells(PageStart(p), PageSpan(p))
    IN  /\ \A i, j \in DOMAIN regions : i < j =>
              Cells(regions[i].base, regions[i].size)
                  \cap Cells(regions[j].base, regions[j].size) = {}
        /\ \/ DOMAIN engine = spanned
           \/ /\ stage = "failed" /\ failure = "engine" /\ seg <= Len(segments)
              /\ DOMAIN engine = spanned \cup torn /\ spanned \cap torn = {}
              /\ \E i \in DOMAIN map : /\ map[i].base = PageStart(p)
                                      /\ map[i].size = PageSpan(p)

(* Every region listed is claimed in the map, once; a claim that is not     *)
(* listed is what a mapping that failed has left.                           *)
ListedIsClaimed ==
    LET claims == {[base |-> map[i].base, size |-> map[i].size] : i \in DOMAIN map}
        listed == {regions[i] : i \in DOMAIN regions}
    IN  /\ listed \subseteq claims
        /\ stage \notin {"failed", "ready"} => listed = claims
        /\ stage = "failed" => Cardinality(claims \ listed) <= 1
        /\ stage = "ready"  => Cardinality(claims \ listed) <= extra

(* From the moment every segment is mapped, each byte of each segment is    *)
(* the file's or, behind the file bytes, zero; mapping the stack, writing   *)
(* its frame and later mappings leave it so.                                *)
ImageIsInMemory ==
    stage \in {"stack", "frame", "ready"} =>
        \A i \in DOMAIN segments : \A k \in 0 .. segments[i].memsz - 1 :
            LET p == segments[i]
            IN  /\ p.vaddr + k \in DOMAIN engine
                /\ engine[p.vaddr + k] = IF k < p.filesz THEN p.offset + k + 1 ELSE 0

(* The guest may do on the pages of a segment what its p_flags say (R is 4, *)
(* W 2, X 1), no more and no less, may not execute the stack, and no later  *)
(* mapping changes that: no segment gets the rights of a neighbour it       *)
(* shares a page with.                                                      *)
AccessIsAsked ==
    /\ stage \in {"stack", "frame", "ready"} =>
          \A i \in DOMAIN segments :
             LET p == segments[i]
             IN  \A a \in Cells(PageStart(p), PageSpan(p)) :
                    /\ "r" \in access[a] <=> p.flags \in {4, 5, 6, 7}
                    /\ "w" \in access[a] <=> p.flags \in {2, 3, 6, 7}
                    /\ "x" \in access[a] <=> p.flags \in {1, 3, 5, 7}
    /\ stage \in {"frame", "ready"} =>
          \A a \in Cells(StackBase, StackSize) : access[a] = {"r", "w"}
=============================================================================
