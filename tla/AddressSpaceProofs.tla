------------------------- MODULE AddressSpaceProofs -------------------------
(***************************************************************************)
(* Proofs about AddressSpace, for every image, page size, place of the     *)
(* stack and both kinds of build: where a segment's bytes lie in its       *)
(* pages, that the accounts of the guest's memory agree, and that the      *)
(* image stays as it was mapped.                                           *)
(***************************************************************************)
EXTENDS AddressSpaceProperties, ElfLoaderProofs, FiniteSetTheorems

-----------------------------------------------------------------------------
(* Pages. *)

(* Rounding down goes to the same page. *)
LEMMA PageOfBounds ==
    ASSUME NEW a \in Nat
    PROVE  /\ PageOf(a) \in Nat /\ PageOf(a) <= a /\ a < PageOf(a) + PageSize
           /\ a < PageSize => PageOf(a) = 0
<1> DEFINE m == a % PageSize
<1>1. PageSize \in Nat \ {0}
  BY AddressSpaceAssumption
<1>2. m \in 0 .. PageSize - 1 /\ (a < PageSize => m = a)
  BY <1>1
<1>3. m <= a
  BY <1>1, <1>2
<1> HIDE DEF m
<1>4. a - m \in Nat /\ a - m <= a /\ a < (a - m) + PageSize /\ (a < PageSize => a - m = 0)
  BY <1>1, <1>2, <1>3
<1> QED BY <1>4 DEF PageOf, m

(* The u64 arithmetic of sums and differences below twice the space. *)
LEMMA Wraps ==
    /\ \A x \in Nat : x < Space => x % Space = x
    /\ \A x \in Nat : Space <= x /\ x < Space + Space => x % Space = x - Space
    /\ \A x \in Nat : 0 < x /\ x < Space => (0 - x) % Space = Space - x
BY RegionsAssumption

(* A sound segment that has pages lies in them, also where the rounded end  *)
(* wraps.                                                                   *)
LEMMA SegmentIsInItsPages ==
    ASSUME NEW p \in PhdrType, SoundSegment(p), PageSpan(p) > 0
    PROVE  /\ PageStart(p) \in Nat /\ PageSpan(p) \in Nat
           /\ PageStart(p) <= p.vaddr
           /\ p.vaddr + p.memsz <= PageStart(p) + PageSpan(p)
<1> DEFINE end == p.vaddr + p.memsz
           sum == end + (PageSize - 1)
           start == PageOf(p.vaddr)
<1>1. /\ p.vaddr \in Nat /\ p.memsz \in Nat /\ p.filesz \in Nat
      /\ Space \in Nat \ {0} /\ PageSize \in Nat \ {0}
  BY PhdrFacts, RegionsAssumption, AddressSpaceAssumption
<1>2. /\ end \in Nat /\ end < Space /\ p.vaddr <= end /\ ~(p.filesz > p.memsz)
  BY <1>1 DEF SoundSegment
<1>3. SegmentEnd(p) = end
  BY <1>1, <1>2, Wraps DEF SegmentEnd, Plus
<1>4. start \in Nat /\ start <= p.vaddr
  BY <1>1, PageOfBounds
<1>5. PageStart(p) = start /\ PageSpan(p) = (PageOf(Plus(end, PageSize - 1)) - start) % Space
  BY <1>3 DEF PageStart, PageSpan
<1>6. PageSize <= Space
  BY <1>1, AddressSpaceAssumption
<1> HIDE DEF end, sum, start
<1>7. sum \in Nat /\ sum >= end /\ sum < Space + Space /\ sum - Space < PageSize
  BY <1>1, <1>2, <1>6 DEF sum
<1>8. CASE sum < Space
  <2>1. Plus(end, PageSize - 1) = sum
    BY <1>7, <1>8, Wraps DEF Plus, sum
  <2>2. PageOf(sum) \in Nat /\ PageOf(sum) <= sum /\ end <= PageOf(sum)
    BY <1>1, <1>2, <1>7, PageOfBounds DEF sum
  <2>3. PageSpan(p) = PageOf(sum) - start
    <3>1. PageOf(sum) - start \in Nat /\ PageOf(sum) - start < Space
      BY <1>1, <1>2, <1>4, <1>7, <1>8, <2>2
    <3> QED BY <1>5, <2>1, <3>1, Wraps
  <2> QED BY <1>1, <1>2, <1>4, <1>5, <2>2, <2>3 DEF end
<1>9. CASE ~(sum < Space)
  <2>1. Plus(end, PageSize - 1) = sum - Space
    BY <1>1, <1>7, <1>9, Wraps DEF Plus, sum
  <2>2. PageOf(sum - Space) = 0
    BY <1>1, <1>7, <1>9, PageOfBounds
  <2>3. PageSpan(p) = (0 - start) % Space
    BY <1>5, <2>1, <2>2
  <2>4. start # 0
    BY <1>1, <2>3, Wraps
  <2>5. PageSpan(p) = Space - start
    BY <1>1, <1>2, <1>4, <2>3, <2>4, Wraps
  <2> QED BY <1>1, <1>2, <1>4, <1>5, <2>5 DEF end
<1> QED BY <1>8, <1>9

(* The pages of any segment start and span within u64. *)
LEMMA PagesType ==
    ASSUME NEW p \in PhdrType
    PROVE  PageStart(p) \in Addresses /\ PageSpan(p) \in Addresses
<1>1. /\ p.vaddr \in Nat /\ p.vaddr < Space /\ p.memsz \in Nat /\ p.filesz \in Nat
      /\ Space \in Nat \ {0} /\ PageSize \in Nat \ {0}
  BY PhdrFacts, RegionsAssumption, AddressSpaceAssumption DEF Addresses
<1>2. \A x \in Int : x % Space \in Addresses
  BY <1>1 DEF Addresses
<1>3. PageStart(p) \in Addresses /\ PageStart(p) \in Nat
  BY <1>1, PageOfBounds DEF PageStart, Addresses
<1>4. SegmentEnd(p) \in Nat
  BY <1>1, <1>2 DEF SegmentEnd, Plus, Addresses
<1>5. PageOf(Plus(SegmentEnd(p), PageSize - 1)) \in Nat
  <2>1. Plus(SegmentEnd(p), PageSize - 1) \in Nat
    BY <1>1, <1>2, <1>4 DEF Plus, Addresses
  <2> QED BY <2>1, PageOfBounds
<1> QED BY <1>2, <1>3, <1>5 DEF PageSpan

-----------------------------------------------------------------------------
(* The mapper. *)

(* The engine maps a region, with these contents afterwards. *)
EngineMaps(base, size, rights, contents) ==
    /\ MemMapFits(base, size)
    /\ MemMap(base, size, rights, contents)

(* A region is mapped in the engine and listed. *)
RegionIsMapped(base, size, rights, contents) ==
    /\ EngineMaps(base, size, rights, contents)
    /\ failure' = "none"
    /\ regions' = Append(regions, [base |-> base, size |-> size])

(* A mapping comes to a claim with its region, to a claim and pages that no *)
(* region has, to a claim alone, or to nothing.                             *)
LEMMA MappingOutcomes ==
    ASSUME NEW base, NEW size, NEW prot, NEW rights, NEW contents, NEW torn,
           MapRegion(base, size, prot, rights, contents, torn)
    PROVE  \/ map' = Inserted(map, base, size, prot)
             /\ RegionIsMapped(base, size, rights, contents)
          \/ /\ map' = Inserted(map, base, size, prot) /\ regions' = regions
             /\ failure' = "engine"
             /\ \E some \in torn : EngineMaps(base, size, rights, some)
          \/ /\ failure' \in {"overlap", "engine", "panic"}
             /\ UNCHANGED <<regions, engine, access>>
             /\ map' = map \/ map' = Inserted(map, base, size, prot)
<1>1. CASE InsertOutcome(map, base, size) # "ok"
  BY <1>1, InsertOutcomes DEF MapRegion, mapVars, memory
<1>2. CASE InsertOutcome(map, base, size) = "ok"
  <2>1. CASE MapSucceeds(base, size, rights, contents)
    BY <1>2, <2>1 DEF MapRegion, MapSucceeds, RegionIsMapped, EngineMaps
  <2>2. CASE CopyFails(base, size, rights, torn)
    BY <1>2, <2>2 DEF MapRegion, CopyFails, EngineMaps
  <2>3. CASE failure' = "engine" /\ UNCHANGED <<regions, memory>>
    BY <1>2, <2>3 DEF MapRegion, memory
  <2> QED BY <1>2, <2>1, <2>2, <2>3 DEF MapRegion
<1> QED BY <1>1, <1>2

(* Mapping adds the cells of the region to the engine, with its rights, and *)
(* leaves the rights elsewhere.                                             *)
LEMMA MappingAdds ==
    ASSUME NEW base \in Nat, NEW size \in Nat, NEW rights, NEW contents,
           EngineMaps(base, size, rights, contents),
           DOMAIN contents = DOMAIN engine \cup Cells(base, size)
    PROVE  /\ DOMAIN engine' = DOMAIN engine \cup Cells(base, size)
           /\ DOMAIN access' = DOMAIN engine'
           /\ Cells(base, size) \cap DOMAIN engine = {}
           /\ \A a \in Cells(base, size) : access'[a] = rights
           /\ \A a \in DOMAIN engine : access'[a] = access[a]
BY DEF EngineMaps, MemMap, MemMapFits

LEMMA ContentsDomain ==
    /\ \A base, size : DOMAIN Zeroed(base, size) = DOMAIN engine \cup Cells(base, size)
    /\ \A p : DOMAIN SegmentContents(p)
                   = DOMAIN engine \cup Cells(PageStart(p), PageSpan(p))
BY DEF Zeroed, SegmentContents, Written

(* The copy of a segment fails: its pages are mapped, and nothing else of   *)
(* the mapper shows it.                                                     *)
SegmentIsTorn(p) ==
    /\ failure' = "engine" /\ regions' = regions
    /\ \E some \in SegmentTorn(p) :
          EngineMaps(PageStart(p), PageSpan(p), RightsOf(p.flags), some)

(* What a failed copy leaves is what the mapping of a segment with fewer    *)
(* file bytes, on the same pages, would.                                    *)
LEMMA TornIsShorter ==
    ASSUME LoaderInv, NEW p \in PhdrType, SoundSegment(p), SegmentIsTorn(p)
    PROVE  \E q \in PhdrType :
              /\ SoundSegment(q)
              /\ PageStart(q) = PageStart(p) /\ PageSpan(q) = PageSpan(p)
              /\ EngineMaps(PageStart(p), PageSpan(p), RightsOf(p.flags),
                            SegmentContents(q))
<1>1. PICK n \in 0 .. p.filesz - 1 :
          EngineMaps(PageStart(p), PageSpan(p), RightsOf(p.flags),
                     SegmentContents([p EXCEPT !.filesz = n]))
  BY DEF SegmentIsTorn, SegmentTorn
<1> DEFINE q == [p EXCEPT !.filesz = n]
<1>2. /\ p.vaddr \in Nat /\ p.memsz \in Nat /\ p.offset \in Nat /\ p.filesz \in Nat
      /\ p.filesz <= p.memsz /\ p.offset + p.filesz <= image.len
      /\ p.vaddr + p.memsz < Space /\ n \in Nat /\ n < p.filesz
      /\ p.filesz < Space /\ Space \in Nat
  BY PhdrFacts, RegionsAssumption DEF SoundSegment, PhdrType, Addresses
<1>3. n \in Addresses
  BY <1>2 DEF Addresses
<1>4. /\ q \in PhdrType /\ q.filesz = n /\ q.memsz = p.memsz /\ q.vaddr = p.vaddr
      /\ q.offset = p.offset
  BY <1>3 DEF PhdrType
<1> HIDE DEF q
<1>5. SoundSegment(q)
  <2>1. image.len \in Nat
    BY RegionsAssumption DEF LoaderInv, LoaderTypeOK, ImageType, Addresses
  <2> QED BY <1>2, <1>4, <2>1 DEF SoundSegment
<1>6. SegmentEnd(q) = SegmentEnd(p)
  <2>1. ~(p.filesz > p.memsz) /\ ~(n > p.memsz)
    BY <1>2
  <2> QED BY <1>4, <2>1 DEF SegmentEnd
<1>7. PageStart(q) = PageStart(p) /\ PageSpan(q) = PageSpan(p)
  BY <1>4, <1>6 DEF PageStart, PageSpan
<1>8. EngineMaps(PageStart(p), PageSpan(p), RightsOf(p.flags), SegmentContents(q))
  BY <1>1 DEF q
<1> QED BY <1>4, <1>5, <1>7, <1>8

-----------------------------------------------------------------------------
(* Where things are.  The segments mapped so far lie in pages of their own, *)
(* with the rights asked for, and so does the stack behind them.            *)

Pages(p)   == Cells(PageStart(p), PageSpan(p))
StackCells == Cells(StackBase, StackSize)

SegmentIsPlaced(p, rights) ==
    /\ Cells(p.vaddr, p.memsz) \subseteq Pages(p)
    /\ Pages(p) \subseteq DOMAIN rights
    /\ \A a \in Pages(p) : rights[a] = RightsOf(p.flags)

StackIsPlaced ==
    /\ StackCells \subseteq DOMAIN access
    /\ \A a \in StackCells : access[a] = {"r", "w"}
    /\ \A i \in DOMAIN segments : StackCells \cap Pages(segments[i]) = {}

LayoutInv ==
    /\ LoaderInv
    /\ seg \in 1 .. Len(segments) + 1
    /\ stage = "loading" => seg = 1
    /\ stage \in {"stack", "frame", "ready"} => seg = Len(segments) + 1
    /\ access \in [DOMAIN engine -> SUBSET {"r", "w", "x"}]
    /\ \A i \in 1 .. seg - 1 : SegmentIsPlaced(segments[i], access)
    /\ stage \in {"frame", "ready"} => StackIsPlaced

(* The segments that the mapper has come by. *)
LEMMA MappedSegments ==
    ASSUME LayoutInv
    PROVE  /\ segments \in Seq(PhdrType) /\ Len(segments) \in Nat
           /\ DOMAIN segments = 1 .. Len(segments)
           /\ seg \in Nat /\ 1 .. seg - 1 \subseteq DOMAIN segments
           /\ \A i \in DOMAIN segments : /\ segments[i] \in PhdrType
                                          /\ SoundSegment(segments[i])
<1>1. segments \in Seq(PhdrType) /\ \A i \in DOMAIN segments : SoundSegment(segments[i])
  BY DEF LayoutInv, LoaderInv, LoaderTypeOK, SegmentsAreSound
<1> QED BY <1>1 DEF LayoutInv

(* Whatever only adds rights where there were none keeps what has been      *)
(* placed.                                                                  *)
LEMMA PlacedStays ==
    ASSUME NEW rights, NEW more,
           DOMAIN rights \subseteq DOMAIN more,
           \A a \in DOMAIN rights : more[a] = rights[a],
           NEW p, SegmentIsPlaced(p, rights)
    PROVE  SegmentIsPlaced(p, more)
BY DEF SegmentIsPlaced

(* A step that leaves the loader, the pages and the rights alone.           *)
LEMMA QuietLayout ==
    ASSUME LayoutInv, UNCHANGED <<loaderVars, seg, access>>,
           DOMAIN engine' = DOMAIN engine,
           stage' # "loading",
           stage' \in {"stack", "frame", "ready"} => seg = Len(segments) + 1,
           stage' \in {"frame", "ready"} => StackIsPlaced
    PROVE  LayoutInv'
<1>1. LoaderInv'
  BY LoaderStep DEF LayoutInv
<1>2. segments' = segments /\ access' = access /\ seg' = seg
  BY DEF loaderVars
<1>3. stage' \in {"frame", "ready"} => StackIsPlaced'
  BY <1>2 DEF StackIsPlaced
<1>4. \A i \in 1 .. seg' - 1 : SegmentIsPlaced(segments'[i], access')
  BY <1>2 DEF LayoutInv
<1>5. access' \in [DOMAIN engine' -> SUBSET {"r", "w", "x"}]
  BY <1>2 DEF LayoutInv
<1>6. seg' \in 1 .. Len(segments') + 1
  BY <1>2 DEF LayoutInv
<1> QED BY <1>1, <1>2, <1>3, <1>4, <1>5, <1>6 DEF LayoutInv

(* The rights after a mapping are a function on the memory. *)
LEMMA RightsType ==
    ASSUME access \in [DOMAIN engine -> SUBSET {"r", "w", "x"}],
           NEW base \in Nat, NEW size \in Nat, NEW rights \in SUBSET {"r", "w", "x"},
           NEW contents, EngineMaps(base, size, rights, contents),
           DOMAIN contents = DOMAIN engine \cup Cells(base, size)
    PROVE  access' \in [DOMAIN engine' -> SUBSET {"r", "w", "x"}]
BY DEF EngineMaps, MemMap

(* A segment is mapped. *)
LEMMA SegmentLayout ==
    ASSUME LayoutInv, stage = "segments", stage' = "segments",
           seg <= Len(segments), seg' = seg + 1, UNCHANGED loaderVars,
           NEW p, p = segments[seg],
           RegionIsMapped(PageStart(p), PageSpan(p), RightsOf(p.flags), SegmentContents(p))
    PROVE  LayoutInv'
<1>1. LoaderInv' /\ segments' = segments
  BY LoaderStep DEF LayoutInv, loaderVars
<1>2. p \in PhdrType /\ SoundSegment(p) /\ seg \in Nat \ {0}
  BY MappedSegments DEF LayoutInv
<1>3. PageStart(p) \in Nat /\ PageSpan(p) \in Nat
  BY <1>2, PagesType, RegionsAssumption DEF Addresses
<1>4. DOMAIN SegmentContents(p) = DOMAIN engine \cup Pages(p)
  BY ContentsDomain DEF Pages
<1>5. /\ DOMAIN engine' = DOMAIN engine \cup Pages(p)
      /\ DOMAIN access' = DOMAIN engine'
      /\ \A a \in Pages(p) : access'[a] = RightsOf(p.flags)
      /\ \A a \in DOMAIN engine : access'[a] = access[a]
  BY <1>3, <1>4, MappingAdds DEF Pages, RegionIsMapped
<1>6. Cells(p.vaddr, p.memsz) \subseteq Pages(p)
  <2>1. PageSpan(p) > 0
    BY DEF RegionIsMapped, EngineMaps, MemMapFits
  <2> QED BY <1>2, <1>3, <2>1, PhdrFacts, SegmentIsInItsPages DEF Cells, Pages
<1>7. SegmentIsPlaced(p, access')
  BY <1>5, <1>6 DEF SegmentIsPlaced
<1>8. DOMAIN access = DOMAIN engine
  BY DEF LayoutInv
<1>9. \A i \in 1 .. seg - 1 : SegmentIsPlaced(segments[i], access')
  BY <1>5, <1>8, PlacedStays DEF LayoutInv
<1>10. \A i \in 1 .. seg' - 1 : SegmentIsPlaced(segments'[i], access')
  <2> SUFFICES ASSUME NEW i \in 1 .. seg' - 1
               PROVE  SegmentIsPlaced(segments'[i], access')
    OBVIOUS
  <2>1. i \in 1 .. seg - 1 \/ i = seg
    BY <1>2
  <2> QED BY <1>1, <1>7, <1>9, <2>1
<1>11. access' \in [DOMAIN engine' -> SUBSET {"r", "w", "x"}]
  <2>1. RightsOf(p.flags) \in SUBSET {"r", "w", "x"}
    BY DEF RightsOf
  <2> QED BY <1>3, <1>4, <2>1, RightsType DEF LayoutInv, Pages, RegionIsMapped
<1>12. seg' \in 1 .. Len(segments') + 1
  BY <1>1, <1>2, MappedSegments
<1> QED BY <1>1, <1>10, <1>11, <1>12 DEF LayoutInv

(* A segment's pages are mapped and the copy fails. *)
LEMMA TornLayout ==
    ASSUME LayoutInv, stage' = "failed", seg <= Len(segments), seg' = seg,
           UNCHANGED loaderVars, NEW p, p = segments[seg], SegmentIsTorn(p)
    PROVE  LayoutInv'
<1>1. LoaderInv' /\ segments' = segments
  BY LoaderStep DEF LayoutInv, loaderVars
<1>2. p \in PhdrType /\ SoundSegment(p) /\ seg \in Nat \ {0}
  BY MappedSegments DEF LayoutInv
<1>3. PageStart(p) \in Nat /\ PageSpan(p) \in Nat
  BY <1>2, PagesType, RegionsAssumption DEF Addresses
<1>4. PICK some : /\ DOMAIN some = DOMAIN engine \cup Pages(p)
                  /\ EngineMaps(PageStart(p), PageSpan(p), RightsOf(p.flags), some)
  BY <1>2, TornIsShorter, ContentsDomain DEF Pages, LayoutInv
<1>5. /\ DOMAIN access' = DOMAIN engine \cup Pages(p)
      /\ \A a \in DOMAIN engine : access'[a] = access[a]
  BY <1>3, <1>4, MappingAdds DEF Pages
<1>6. DOMAIN access = DOMAIN engine
  BY DEF LayoutInv
<1>7. \A i \in 1 .. seg' - 1 : SegmentIsPlaced(segments'[i], access')
  <2>1. \A i \in 1 .. seg - 1 : SegmentIsPlaced(segments[i], access')
    BY <1>5, <1>6, PlacedStays DEF LayoutInv
  <2> QED BY <1>1, <2>1
<1>8. access' \in [DOMAIN engine' -> SUBSET {"r", "w", "x"}]
  <2>1. RightsOf(p.flags) \in SUBSET {"r", "w", "x"}
    BY DEF RightsOf
  <2> QED BY <1>3, <1>4, <2>1, RightsType DEF LayoutInv, Pages
<1>9. seg' \in 1 .. Len(segments') + 1
  BY <1>1 DEF LayoutInv
<1> QED BY <1>1, <1>7, <1>8, <1>9 DEF LayoutInv

(* The stack is mapped. *)
LEMMA StackLayout ==
    ASSUME LayoutInv, stage = "stack", stage' = "frame",
           UNCHANGED <<loaderVars, seg>>,
           RegionIsMapped(StackBase, StackSize, {"r", "w"}, Zeroed(StackBase, StackSize))
    PROVE  LayoutInv'
<1>1. LoaderInv' /\ segments' = segments /\ seg' = seg
  BY LoaderStep DEF LayoutInv, loaderVars
<1>2. StackBase \in Nat /\ StackSize \in Nat
  BY AddressSpaceAssumption
<1>3. DOMAIN Zeroed(StackBase, StackSize) = DOMAIN engine \cup StackCells
  BY ContentsDomain DEF StackCells
<1>4. /\ DOMAIN engine' = DOMAIN engine \cup StackCells
      /\ DOMAIN access' = DOMAIN engine'
      /\ StackCells \cap DOMAIN engine = {}
      /\ \A a \in StackCells : access'[a] = {"r", "w"}
      /\ \A a \in DOMAIN engine : access'[a] = access[a]
  BY <1>2, <1>3, MappingAdds DEF StackCells, RegionIsMapped
<1>5. DOMAIN access = DOMAIN engine
  BY DEF LayoutInv
<1>6. \A i \in 1 .. seg' - 1 : SegmentIsPlaced(segments'[i], access')
  <2>1. \A i \in 1 .. seg - 1 : SegmentIsPlaced(segments[i], access')
    BY <1>4, <1>5, PlacedStays DEF LayoutInv
  <2> QED BY <1>1, <2>1
<1>7. access' \in [DOMAIN engine' -> SUBSET {"r", "w", "x"}]
  BY <1>2, <1>3, RightsType DEF LayoutInv, StackCells, RegionIsMapped
<1>8. StackIsPlaced'
  <2>1. ASSUME NEW i \in DOMAIN segments
        PROVE  StackCells \cap Pages(segments[i]) = {}
    <3>1. SegmentIsPlaced(segments[i], access)
      BY MappedSegments DEF LayoutInv
    <3> QED BY <1>4, <1>5, <3>1 DEF SegmentIsPlaced
  <2> QED BY <1>1, <1>4, <2>1 DEF StackIsPlaced
<1>9. seg' \in 1 .. Len(segments') + 1 /\ seg = Len(segments) + 1
  BY <1>1 DEF LayoutInv
<1> QED BY <1>1, <1>6, <1>7, <1>8, <1>9 DEF LayoutInv

(* What the mapping actions come to. *)
LEMMA SegmentOutcomes ==
    ASSUME MapSegment, NEW p, p = segments[seg]
    PROVE  /\ stage = "segments" /\ seg <= Len(segments)
           /\ UNCHANGED <<loaderVars, rip, rsp, extra>>
           /\ \/ /\ stage' = "segments" /\ seg' = seg + 1
                 /\ RegionIsMapped(PageStart(p), PageSpan(p), RightsOf(p.flags),
                                   SegmentContents(p))
                 /\ map' = Inserted(map, PageStart(p), PageSpan(p), p.flags)
              \/ /\ stage' = "failed" /\ seg' = seg
                 /\ SegmentIsTorn(p)
                 /\ map' = Inserted(map, PageStart(p), PageSpan(p), p.flags)
              \/ /\ stage' = "failed" /\ UNCHANGED <<seg, regions, engine, access>>
                 /\ failure' \in {"overlap", "engine", "panic"}
                 /\ \/ map' = map
                    \/ map' = Inserted(map, PageStart(p), PageSpan(p), p.flags)
<1>1. CASE RoundingPanics(p)
  BY <1>1 DEF MapSegment, mapVars, memory
<1>2. CASE ~RoundingPanics(p)
  <2>1. /\ MapRegion(PageStart(p), PageSpan(p), p.flags, RightsOf(p.flags),
                     SegmentContents(p), SegmentTorn(p))
        /\ IF failure' = "none" THEN seg' = seg + 1 /\ stage' = stage
           ELSE stage' = "failed" /\ seg' = seg
        /\ stage = "segments" /\ seg <= Len(segments)
        /\ UNCHANGED <<loaderVars, rip, rsp, extra>>
    BY <1>2 DEF MapSegment
  <2>2. \/ /\ map' = Inserted(map, PageStart(p), PageSpan(p), p.flags)
           /\ RegionIsMapped(PageStart(p), PageSpan(p), RightsOf(p.flags),
                             SegmentContents(p))
        \/ /\ map' = Inserted(map, PageStart(p), PageSpan(p), p.flags)
           /\ SegmentIsTorn(p)
        \/ /\ failure' \in {"overlap", "engine", "panic"}
           /\ UNCHANGED <<regions, engine, access>>
           /\ \/ map' = map
              \/ map' = Inserted(map, PageStart(p), PageSpan(p), p.flags)
    BY <2>1, MappingOutcomes DEF SegmentIsTorn
  <2>3. RegionIsMapped(PageStart(p), PageSpan(p), RightsOf(p.flags), SegmentContents(p))
            => failure' = "none"
    BY DEF RegionIsMapped
  <2>4. SegmentIsTorn(p) => failure' = "engine"
    BY DEF SegmentIsTorn
  <2> QED BY <2>1, <2>2, <2>3, <2>4
<1> QED BY <1>1, <1>2

LEMMA StackOutcomes ==
    ASSUME MapStack
    PROVE  /\ stage = "stack" /\ UNCHANGED <<loaderVars, seg, rip, rsp, extra>>
           /\ \/ /\ stage' = "frame"
                 /\ RegionIsMapped(StackBase, StackSize, {"r", "w"},
                                   Zeroed(StackBase, StackSize))
                 /\ map' = Inserted(map, StackBase, StackSize, 0)
              \/ /\ stage' = "failed" /\ UNCHANGED <<regions, engine, access>>
                 /\ failure' \in {"overlap", "engine", "panic"}
                 /\ map' = map \/ map' = Inserted(map, StackBase, StackSize, 0)
<1>1. \/ /\ map' = Inserted(map, StackBase, StackSize, 0)
         /\ RegionIsMapped(StackBase, StackSize, {"r", "w"}, Zeroed(StackBase, StackSize))
      \/ /\ failure' \in {"overlap", "engine", "panic"}
         /\ UNCHANGED <<regions, engine, access>>
         /\ map' = map \/ map' = Inserted(map, StackBase, StackSize, 0)
  BY MappingOutcomes DEF MapStack
<1>2. RegionIsMapped(StackBase, StackSize, {"r", "w"}, Zeroed(StackBase, StackSize))
          => failure' = "none"
  BY DEF RegionIsMapped
<1> QED BY <1>1, <1>2 DEF MapStack

LEMMA ExtraOutcomes ==
    ASSUME NEW r \in ExtraMaps, MapMemory(r.base, r.size, r.rights)
    PROVE  /\ stage = "ready" /\ UNCHANGED <<loaderVars, stage, seg, rip, rsp>>
           /\ extra < MaxExtra /\ extra' = extra + 1
           /\ \/ /\ RegionIsMapped(r.base, r.size, r.rights, Zeroed(r.base, r.size))
                 /\ map' = Inserted(map, r.base, r.size, 0)
              \/ /\ UNCHANGED <<regions, engine, access>>
                 /\ failure' \in {"overlap", "engine", "panic"}
                 /\ map' = map \/ map' = Inserted(map, r.base, r.size, 0)
<1>1. \/ /\ map' = Inserted(map, r.base, r.size, 0)
         /\ RegionIsMapped(r.base, r.size, r.rights, Zeroed(r.base, r.size))
      \/ /\ failure' \in {"overlap", "engine", "panic"}
         /\ UNCHANGED <<regions, engine, access>>
         /\ map' = map \/ map' = Inserted(map, r.base, r.size, 0)
  BY MappingOutcomes DEF MapMemory
<1> QED BY <1>1 DEF MapMemory

LEMMA ExtraMapsType ==
    \A r \in ExtraMaps : /\ r.base \in Addresses /\ r.size \in Addresses
                         /\ r.base \in Nat /\ r.size \in Nat
                         /\ r.rights \in SUBSET {"r", "w", "x"}
BY RegionsAssumption, AddressSpaceAssumption DEF Addresses

(* The owner maps memory of its own. *)
LEMMA ExtraLayout ==
    ASSUME LayoutInv, stage = "ready", UNCHANGED <<loaderVars, stage, seg>>,
           NEW r \in ExtraMaps,
           RegionIsMapped(r.base, r.size, r.rights, Zeroed(r.base, r.size))
    PROVE  LayoutInv'
<1>1. LoaderInv' /\ segments' = segments /\ seg' = seg
  BY LoaderStep DEF LayoutInv, loaderVars
<1>2. r.base \in Nat /\ r.size \in Nat /\ r.rights \in SUBSET {"r", "w", "x"}
  BY ExtraMapsType
<1>3. DOMAIN Zeroed(r.base, r.size) = DOMAIN engine \cup Cells(r.base, r.size)
  BY ContentsDomain
<1>4. /\ DOMAIN engine' = DOMAIN engine \cup Cells(r.base, r.size)
      /\ DOMAIN access' = DOMAIN engine'
      /\ \A a \in DOMAIN engine : access'[a] = access[a]
  BY <1>2, <1>3, MappingAdds DEF RegionIsMapped
<1>5. DOMAIN access = DOMAIN engine
  BY DEF LayoutInv
<1>6. \A i \in 1 .. seg' - 1 : SegmentIsPlaced(segments'[i], access')
  <2>1. \A i \in 1 .. seg - 1 : SegmentIsPlaced(segments[i], access')
    BY <1>4, <1>5, PlacedStays DEF LayoutInv
  <2> QED BY <1>1, <2>1
<1>7. access' \in [DOMAIN engine' -> SUBSET {"r", "w", "x"}]
  BY <1>2, <1>3, RightsType DEF LayoutInv, RegionIsMapped
<1>8. StackIsPlaced'
  BY <1>1, <1>4, <1>5 DEF StackIsPlaced, LayoutInv
<1>9. seg' \in 1 .. Len(segments') + 1 /\ seg = Len(segments) + 1
  BY <1>1 DEF LayoutInv
<1> QED BY <1>1, <1>6, <1>7, <1>8, <1>9 DEF LayoutInv

(* Every step keeps the layout. *)
LEMMA LayoutStep == LayoutInv /\ [SpaceNext]_spaceVars => LayoutInv'
<1> SUFFICES ASSUME LayoutInv, [SpaceNext]_spaceVars PROVE LayoutInv'
  OBVIOUS
<1>1. CASE Load
  <2>1. LoaderInv' /\ seg = 1 /\ seg' = 1
    BY <1>1, LoaderStep DEF Load, LayoutInv
  <2>2. Len(segments') \in Nat
    BY <2>1 DEF LoaderInv, LoaderTypeOK
  <2>3. stage' \in {"loading", "engine", "failed"}
    BY <1>1 DEF Load
  <2>4. engine' = engine /\ access' = access
    BY <1>1 DEF Load, mapVars, memory
  <2> QED BY <2>1, <2>2, <2>3, <2>4 DEF LayoutInv
<1>2. CASE NewVcpu
  BY <1>2, QuietLayout DEF NewVcpu, mapVars, memory
<1>3. CASE MapSegment
  <2> DEFINE p == segments[seg]
  <2>1. CASE stage' = "failed" /\ UNCHANGED <<loaderVars, seg, regions, engine, access>>
    BY <2>1, QuietLayout
  <2>2. CASE /\ stage' = "segments" /\ seg' = seg + 1
             /\ RegionIsMapped(PageStart(p), PageSpan(p), RightsOf(p.flags),
                               SegmentContents(p))
    BY <1>3, <2>2, SegmentLayout, SegmentOutcomes
  <2>3. CASE stage' = "failed" /\ seg' = seg /\ SegmentIsTorn(p)
    BY <1>3, <2>3, SegmentOutcomes, TornLayout
  <2> QED BY <1>3, <2>1, <2>2, <2>3, SegmentOutcomes
<1>4. CASE SegmentsMapped
  <2>1. seg = Len(segments) + 1
    BY <1>4, MappedSegments DEF SegmentsMapped, LayoutInv
  <2> QED BY <1>4, <2>1, QuietLayout DEF SegmentsMapped, mapVars, memory
<1>5. CASE MapStack
  BY <1>5, QuietLayout, StackLayout, StackOutcomes
<1>6. CASE SetupInitialState
  <2>1. /\ UNCHANGED <<loaderVars, seg, access>> /\ DOMAIN engine' = DOMAIN engine
        /\ stage = "frame" /\ stage' \in {"ready", "failed"}
    BY <1>6 DEF SetupInitialState
  <2> QED BY <2>1, QuietLayout DEF LayoutInv
<1>7. ASSUME NEW r \in ExtraMaps, MapMemory(r.base, r.size, r.rights)
      PROVE  LayoutInv'
  <2>1. CASE UNCHANGED <<regions, engine, access>>
    BY <1>7, <2>1, QuietLayout, ExtraOutcomes DEF LayoutInv
  <2> QED BY <1>7, <2>1, ExtraOutcomes, ExtraLayout
<1>8. ASSUME NEW reg, NEW value, SetReg(reg, value)
      PROVE  LayoutInv'
  BY <1>8, QuietLayout DEF SetReg, mapVars, memory, LayoutInv
<1>9. CASE UNCHANGED spaceVars
  <2>1. /\ UNCHANGED <<loaderVars, stage, seg, access, engine, segments>>
    BY <1>9 DEF spaceVars, mapVars, memory, loaderVars
  <2>2. LoaderInv'
    BY <2>1, LoaderStep DEF LayoutInv
  <2> QED BY <2>1, <2>2 DEF LayoutInv, StackIsPlaced
<1> QED BY <1>1, <1>2, <1>3, <1>4, <1>5, <1>6, <1>7, <1>8, <1>9 DEF SpaceNext

LEMMA LayoutStart == SpaceInit => LayoutInv
<1> SUFFICES ASSUME SpaceInit PROVE LayoutInv
  OBVIOUS
<1>1. LoaderInv /\ segments = << >>
  BY LoaderStart DEF SpaceInit, LoaderInit
<1> QED BY <1>1 DEF SpaceInit, LayoutInv

LEMMA LayoutInvariant == SpaceSpec => []LayoutInv
BY LayoutStart, LayoutStep, PTL DEF SpaceSpec

-----------------------------------------------------------------------------
(* What is there. *)

(* The bytes of a segment are the file's, and zero behind them. *)
ContentsHold(p, cells) ==
    \A k \in 0 .. p.memsz - 1 :
        cells[p.vaddr + k] = IF k < p.filesz THEN p.offset + k + 1 ELSE 0

(* The bytes of a placed segment are in its pages. *)
LEMMA BytesAreInPages ==
    ASSUME NEW p \in PhdrType, NEW rights, SegmentIsPlaced(p, rights),
           NEW k \in 0 .. p.memsz - 1
    PROVE  p.vaddr + k \in Pages(p) /\ p.vaddr + k \in DOMAIN rights
<1>1. p.vaddr \in Nat /\ p.memsz \in Nat /\ k \in Nat
  BY PhdrFacts
<1>2. p.vaddr + k \in Cells(p.vaddr, p.memsz)
  BY <1>1 DEF Cells
<1> QED BY <1>2 DEF SegmentIsPlaced

(* A segment that has just been mapped holds its bytes. *)
LEMMA WrittenContents ==
    ASSUME NEW p \in PhdrType, SoundSegment(p),
           RegionIsMapped(PageStart(p), PageSpan(p), RightsOf(p.flags), SegmentContents(p))
    PROVE  ContentsHold(p, engine')
<1> SUFFICES ASSUME NEW k \in 0 .. p.memsz - 1
             PROVE  engine'[p.vaddr + k]
                        = IF k < p.filesz THEN p.offset + k + 1 ELSE 0
  BY DEF ContentsHold
<1>1. /\ p.vaddr \in Nat /\ p.memsz \in Nat /\ p.filesz \in Nat /\ p.offset \in Nat
      /\ k \in Nat /\ k < p.memsz
      /\ p.filesz <= p.memsz
  BY PhdrFacts DEF SoundSegment
<1> DEFINE a == p.vaddr + k
           pages == Cells(PageStart(p), PageSpan(p))
<1>2. a \in Cells(p.vaddr, p.filesz) <=> k < p.filesz
  BY <1>1 DEF Cells
<1>3. a - p.vaddr = k
  BY <1>1
<1>4. a \in pages
  <2>1. PageSpan(p) > 0
    BY DEF RegionIsMapped, EngineMaps, MemMapFits
  <2> QED BY <1>1, <2>1, SegmentIsInItsPages DEF Cells
<1>5. a \notin DOMAIN engine
  BY <1>4 DEF RegionIsMapped, EngineMaps, MemMapFits
<1>6. engine' = SegmentContents(p)
  BY DEF RegionIsMapped, EngineMaps, MemMap
<1> HIDE DEF a, pages
<1>7. Zeroed(PageStart(p), PageSpan(p))[a] = 0
      /\ a \in DOMAIN Zeroed(PageStart(p), PageSpan(p))
  BY <1>4, <1>5 DEF Zeroed, pages
<1>8. engine'[a] = IF a \in Cells(p.vaddr, p.filesz) THEN p.offset + (a - p.vaddr) + 1
                   ELSE 0
  BY <1>6, <1>7 DEF SegmentContents, Written
<1> QED BY <1>2, <1>3, <1>8 DEF a

(* Mapping a region leaves what the engine holds. *)
LEMMA MappingKeepsCells ==
    /\ \A base, size, rights :
          EngineMaps(base, size, rights, Zeroed(base, size))
              => \A a \in DOMAIN engine : engine'[a] = engine[a]
    /\ \A p \in PhdrType : \A rights :
          /\ SoundSegment(p)
          /\ EngineMaps(PageStart(p), PageSpan(p), rights, SegmentContents(p))
          => \A a \in DOMAIN engine : engine'[a] = engine[a]
<1>1. ASSUME NEW base, NEW size, NEW rights,
             EngineMaps(base, size, rights, Zeroed(base, size))
      PROVE  \A a \in DOMAIN engine : engine'[a] = engine[a]
  BY <1>1 DEF EngineMaps, MemMap, Zeroed
<1>2. ASSUME NEW p \in PhdrType, NEW rights, SoundSegment(p),
             EngineMaps(PageStart(p), PageSpan(p), rights, SegmentContents(p))
      PROVE  \A a \in DOMAIN engine : engine'[a] = engine[a]
  <2>1. PageSpan(p) > 0 /\ Cells(PageStart(p), PageSpan(p)) \cap DOMAIN engine = {}
    BY <1>2 DEF EngineMaps, MemMapFits
  <2>2. Cells(p.vaddr, p.filesz) \subseteq Cells(PageStart(p), PageSpan(p))
    <3>1. /\ p.vaddr \in Nat /\ p.memsz \in Nat /\ p.filesz \in Nat
          /\ p.filesz <= p.memsz
      BY <1>2, PhdrFacts DEF SoundSegment
    <3> QED BY <1>2, <2>1, <3>1, SegmentIsInItsPages DEF Cells
  <2>3. engine' = SegmentContents(p)
    BY <1>2 DEF EngineMaps, MemMap
  <2> QED BY <2>1, <2>2, <2>3 DEF SegmentContents, Written, Zeroed
<1> QED BY <1>1, <1>2

(* No step changes a byte in the pages of a segment that has been mapped,   *)
(* and a segment that is mapped now holds its bytes.                        *)
LEMMA ContentsStep ==
    ASSUME LayoutInv, [SpaceNext]_spaceVars
    PROVE  /\ \A i \in 1 .. seg - 1 :
                 /\ segments'[i] = segments[i]
                 /\ \A a \in Pages(segments[i]) : engine'[a] = engine[a]
           /\ \/ seg' = seg
              \/ /\ seg' = seg + 1 /\ segments' = segments
                 /\ seg \in DOMAIN segments
                 /\ ContentsHold(segments[seg], engine')
<1>1. /\ \A i \in 1 .. seg - 1 : Pages(segments[i]) \subseteq DOMAIN engine
      /\ seg \in Nat
      /\ \A i \in DOMAIN segments : segments[i] \in PhdrType /\ SoundSegment(segments[i])
      /\ DOMAIN segments = 1 .. Len(segments) /\ Len(segments) \in Nat /\ seg # 0
  <2>1. DOMAIN access = DOMAIN engine
    BY DEF LayoutInv
  <2> QED BY <2>1, MappedSegments DEF LayoutInv, SegmentIsPlaced
<1>2. CASE UNCHANGED <<segments, seg, engine>>
  BY <1>2
<1>3. CASE UNCHANGED <<segments, seg>> /\ \A a \in DOMAIN engine : engine'[a] = engine[a]
  BY <1>1, <1>3
<1>4. CASE Load
  <2>1. seg = 1 /\ seg' = seg
    BY <1>4 DEF Load, LayoutInv
  <2> QED BY <2>1
<1>5. CASE NewVcpu \/ SegmentsMapped \/ UNCHANGED spaceVars
  BY <1>2, <1>5 DEF NewVcpu, SegmentsMapped, spaceVars, loaderVars, mapVars, memory
<1>6. CASE MapSegment
  <2>1. PICK p : p = segments[seg]
    OBVIOUS
  <2>2. /\ UNCHANGED loaderVars /\ seg <= Len(segments)
        /\ \/ /\ seg' = seg + 1
              /\ RegionIsMapped(PageStart(p), PageSpan(p), RightsOf(p.flags),
                                SegmentContents(p))
           \/ seg' = seg /\ SegmentIsTorn(p)
           \/ UNCHANGED <<seg, engine>>
    BY <1>6, <2>1, SegmentOutcomes
  <2>3. segments' = segments
    BY <2>2 DEF loaderVars
  <2>4. CASE UNCHANGED <<seg, engine>>
    BY <1>2, <2>3, <2>4
  <2>5. CASE /\ seg' = seg + 1
             /\ RegionIsMapped(PageStart(p), PageSpan(p), RightsOf(p.flags),
                               SegmentContents(p))
    <3>1. seg \in DOMAIN segments /\ p \in PhdrType /\ SoundSegment(p)
      BY <1>1, <2>1, <2>2
    <3>2. ContentsHold(p, engine')
      BY <2>5, <3>1, WrittenContents
    <3>3. \A a \in DOMAIN engine : engine'[a] = engine[a]
      BY <2>5, <3>1, MappingKeepsCells DEF RegionIsMapped
    <3> QED BY <1>1, <2>1, <2>3, <2>5, <3>1, <3>2, <3>3
  <2>6. CASE seg' = seg /\ SegmentIsTorn(p)
    <3>1. p \in PhdrType /\ SoundSegment(p) /\ LoaderInv
      BY <1>1, <2>1, <2>2 DEF LayoutInv
    <3>2. PICK q \in PhdrType :
             /\ SoundSegment(q)
             /\ EngineMaps(PageStart(q), PageSpan(q), RightsOf(p.flags),
                           SegmentContents(q))
      BY <2>6, <3>1, TornIsShorter
    <3>3. \A a \in DOMAIN engine : engine'[a] = engine[a]
      BY <3>2, MappingKeepsCells
    <3> QED BY <1>3, <2>3, <2>6, <3>3
  <2> QED BY <2>2, <2>4, <2>5, <2>6
<1>7. CASE MapStack
  <2>1. UNCHANGED <<segments, seg>>
    BY <1>7, StackOutcomes DEF loaderVars
  <2>2. \A a \in DOMAIN engine : engine'[a] = engine[a]
    BY <1>7, StackOutcomes, MappingKeepsCells DEF RegionIsMapped
  <2> QED BY <1>3, <2>1, <2>2
<1>8. CASE SetupInitialState
  <2> DEFINE frame == Cells(StackBase + StackSize - FrameSize, FrameSize)
  <2>1. /\ UNCHANGED <<segments, seg>> /\ stage = "frame"
        /\ \A a \in DOMAIN engine : a \notin frame => engine'[a] = engine[a]
    BY <1>8 DEF SetupInitialState, loaderVars
  <2>2. frame \subseteq StackCells
    BY AddressSpaceAssumption DEF StackCells, Cells
  <2> HIDE DEF frame
  <2>3. \A i \in 1 .. seg - 1 : Pages(segments[i]) \cap frame = {}
    BY <1>1, <2>1, <2>2, MappedSegments DEF LayoutInv, StackIsPlaced
  <2> QED BY <1>1, <2>1, <2>3
<1>9. ASSUME NEW r \in ExtraMaps, MapMemory(r.base, r.size, r.rights)
      PROVE  UNCHANGED <<segments, seg>> /\ \A a \in DOMAIN engine : engine'[a] = engine[a]
  BY <1>9, ExtraOutcomes, MappingKeepsCells DEF loaderVars, RegionIsMapped
<1>10. ASSUME NEW reg, NEW value, SetReg(reg, value)
       PROVE  UNCHANGED <<segments, seg, engine>>
  BY <1>10 DEF SetReg, loaderVars, mapVars, memory
<1> QED BY <1>2, <1>3, <1>4, <1>5, <1>6, <1>7, <1>8, <1>9, <1>10 DEF SpaceNext

ContentsInv == LayoutInv /\ \A i \in 1 .. seg - 1 : ContentsHold(segments[i], engine)

LEMMA ContentsInvariant == SpaceSpec => []ContentsInv
<1>1. SpaceInit => ContentsInv
  BY LayoutStart DEF SpaceInit, ContentsInv
<1>2. ContentsInv /\ [SpaceNext]_spaceVars => ContentsInv'
  <2> SUFFICES ASSUME ContentsInv, [SpaceNext]_spaceVars PROVE ContentsInv'
    OBVIOUS
  <2>1. LayoutInv /\ LayoutInv'
    BY LayoutStep DEF ContentsInv
  <2>2. /\ \A i \in 1 .. seg - 1 :
              /\ segments'[i] = segments[i]
              /\ \A a \in Pages(segments[i]) : engine'[a] = engine[a]
        /\ \/ seg' = seg
           \/ /\ seg' = seg + 1 /\ segments' = segments
              /\ seg \in DOMAIN segments
              /\ ContentsHold(segments[seg], engine')
    BY <2>1, ContentsStep
  <2>3. ASSUME NEW i \in 1 .. seg - 1
        PROVE  ContentsHold(segments'[i], engine')
    <3>1. PICK p : p = segments[i]
      OBVIOUS
    <3>2. /\ ContentsHold(p, engine) /\ SegmentIsPlaced(p, access) /\ p \in PhdrType
      BY <2>1, <3>1, MappedSegments DEF ContentsInv, LayoutInv
    <3>3. \A k \in 0 .. p.memsz - 1 : engine'[p.vaddr + k] = engine[p.vaddr + k]
      BY <2>2, <3>1, <3>2, BytesAreInPages
    <3>4. ContentsHold(p, engine')
      BY <3>2, <3>3 DEF ContentsHold
    <3> QED BY <2>2, <3>1, <3>4
  <2>4. \A i \in 1 .. seg' - 1 : ContentsHold(segments'[i], engine')
    <3> SUFFICES ASSUME NEW i \in 1 .. seg' - 1
                 PROVE  ContentsHold(segments'[i], engine')
      OBVIOUS
    <3>1. i \in 1 .. seg - 1 \/ (i = seg /\ seg' = seg + 1)
      BY <2>1, <2>2, MappedSegments
    <3> QED BY <2>2, <2>3, <3>1, MappedSegments
  <2> QED BY <2>1, <2>4 DEF ContentsInv
<1> QED BY <1>1, <1>2, PTL DEF SpaceSpec

(* Once all segments are mapped the guest finds its image where it was      *)
(* linked, whatever is mapped later.                                        *)
THEOREM ImageStaysInMemory == SpaceSpec => []ImageIsInMemory
<1>1. ContentsInv => ImageIsInMemory
  <2> SUFFICES ASSUME ContentsInv, stage \in {"stack", "frame", "ready"},
                      NEW i \in DOMAIN segments, NEW p, p = segments[i],
                      NEW k \in 0 .. p.memsz - 1
               PROVE  /\ p.vaddr + k \in DOMAIN engine
                      /\ engine[p.vaddr + k]
                             = IF k < p.filesz THEN p.offset + k + 1 ELSE 0
    BY DEF ImageIsInMemory
  <2>1. i \in 1 .. seg - 1 /\ p \in PhdrType /\ DOMAIN access = DOMAIN engine
    BY MappedSegments DEF ContentsInv, LayoutInv
  <2>2. SegmentIsPlaced(p, access) /\ ContentsHold(p, engine)
    BY <2>1 DEF ContentsInv, LayoutInv
  <2>3. p.vaddr + k \in DOMAIN engine
    BY <2>1, <2>2, BytesAreInPages
  <2> QED BY <2>2, <2>3 DEF ContentsHold
<1> QED BY <1>1, ContentsInvariant, PTL

(* The bits of p_flags and what they are asked to mean. *)
LEMMA FlagsAreRights ==
    ASSUME NEW flags \in 0 .. 7
    PROVE  /\ "r" \in RightsOf(flags) <=> flags \in {4, 5, 6, 7}
           /\ "w" \in RightsOf(flags) <=> flags \in {2, 3, 6, 7}
           /\ "x" \in RightsOf(flags) <=> flags \in {1, 3, 5, 7}
<1>1. /\ "r" \in RightsOf(flags) <=> (flags \div 4) % 2 = 1
      /\ "w" \in RightsOf(flags) <=> (flags \div 2) % 2 = 1
      /\ "x" \in RightsOf(flags) <=> (flags \div 1) % 2 = 1
  BY DEF RightsOf
<1>2. flags \in {0, 1, 2, 3, 4, 5, 6, 7}
  OBVIOUS
<1> QED BY <1>1, <1>2

(* The guest's rights are those its program headers ask for, in the pages   *)
(* of every segment and on the stack, and stay so.                          *)
THEOREM RightsAreAsked == SpaceSpec => []AccessIsAsked
<1>1. LayoutInv => AccessIsAsked
  <2> SUFFICES ASSUME LayoutInv PROVE AccessIsAsked
    OBVIOUS
  <2>1. ASSUME stage \in {"stack", "frame", "ready"}, NEW i \in DOMAIN segments,
               NEW a \in Pages(segments[i])
        PROVE  /\ "r" \in access[a] <=> segments[i].flags \in {4, 5, 6, 7}
               /\ "w" \in access[a] <=> segments[i].flags \in {2, 3, 6, 7}
               /\ "x" \in access[a] <=> segments[i].flags \in {1, 3, 5, 7}
    <3>1. i \in 1 .. seg - 1
      BY <2>1, MappedSegments DEF LayoutInv
    <3>2. access[a] = RightsOf(segments[i].flags) /\ segments[i].flags \in 0 .. 7
      BY <2>1, <3>1, MappedSegments, PhdrFacts DEF LayoutInv, SegmentIsPlaced
    <3> QED BY <3>2, FlagsAreRights
  <2>2. ASSUME stage \in {"frame", "ready"}, NEW a \in Cells(StackBase, StackSize)
        PROVE  access[a] = {"r", "w"}
    BY <2>2 DEF LayoutInv, StackIsPlaced, StackCells
  <2> QED BY <2>1, <2>2 DEF AccessIsAsked, Pages
<1> QED BY <1>1, LayoutInvariant, PTL

-----------------------------------------------------------------------------
(* The accounts of the memory: the map, the list of regions, the engine.    *)

ClaimsOf(m)  == {[base |-> m[i].base, size |-> m[i].size] : i \in DOMAIN m}
ListedOf(rs) == {rs[i] : i \in DOMAIN rs}

(* What a claim does to the map. *)
LEMMA InsertedClaims ==
    ASSUME NEW m \in Seq(Claim), NEW base \in Addresses, NEW size \in Addresses,
           size # 0, NEW prot \in 0 .. 7
    PROVE  /\ Inserted(m, base, size, prot) \in Seq(Claim)
           /\ ClaimsOf(Inserted(m, base, size, prot))
                  = ClaimsOf(m) \cup {[base |-> base, size |-> size]}
<1> DEFINE r == [base |-> base, size |-> size, prot |-> prot]
           c == [base |-> base, size |-> size]
           place == Place(m, base)
           new == Inserted(m, base, size, prot)
<1>1. r \in Claim /\ r.base = base /\ r.size = size
  BY DEF Claim
<1>2. new = InsertAt(m, place, r)
  BY DEF Inserted
<1>3. place \in 0 .. Len(m)
  <2>1. \A i \in DOMAIN m : m[i].base \in Nat
    <3>1. \A i \in DOMAIN m : m[i] \in Claim
      OBVIOUS
    <3> QED BY <3>1, RegionsAssumption DEF Claim, Addresses
  <2>2. base \in Nat
    BY RegionsAssumption DEF Addresses
  <2> QED BY <2>1, <2>2, PlaceIsBehindTheLast
<1> HIDE DEF r, place, new
<1>4. /\ new \in Seq(Claim)
      /\ \E j \in DOMAIN new : new[j] = r
      /\ \A i \in DOMAIN m : \E j \in DOMAIN new : new[j] = m[i]
      /\ \A j \in DOMAIN new : new[j] = r \/ \E i \in DOMAIN m : new[j] = m[i]
  BY <1>1, <1>2, <1>3, InsertAtElements
<1>5. \A x : x \in ClaimsOf(new) <=> (x \in ClaimsOf(m) \/ x = c)
  <2>1. \A x : x \in ClaimsOf(new)
                  <=> \E j \in DOMAIN new : x = [base |-> new[j].base, size |-> new[j].size]
    BY DEF ClaimsOf
  <2>2. \A x : x \in ClaimsOf(m)
                  <=> \E j \in DOMAIN m : x = [base |-> m[j].base, size |-> m[j].size]
    BY DEF ClaimsOf
  <2>3. c = [base |-> r.base, size |-> r.size]
    BY <1>1
  <2> HIDE DEF c
  <2>4. ASSUME NEW x \in ClaimsOf(new) PROVE x \in ClaimsOf(m) \/ x = c
    <3>1. PICK j \in DOMAIN new : x = [base |-> new[j].base, size |-> new[j].size]
      BY <2>1, <2>4
    <3> QED BY <1>4, <2>2, <2>3, <3>1
  <2>5. ASSUME NEW x \in ClaimsOf(m) PROVE x \in ClaimsOf(new)
    <3>1. PICK i \in DOMAIN m : x = [base |-> m[i].base, size |-> m[i].size]
      BY <2>2, <2>5
    <3>2. PICK j \in DOMAIN new : new[j] = m[i]
      BY <1>4
    <3> QED BY <2>1, <3>1, <3>2
  <2>6. c \in ClaimsOf(new)
    BY <1>4, <2>1, <2>3
  <2> QED BY <2>4, <2>5, <2>6
<1>6. ClaimsOf(new) = ClaimsOf(m) \cup {c}
  BY <1>5
<1> QED BY <1>4, <1>6 DEF new

(* What a mapped region does to the list and the engine. *)
LEMMA RegionIsAdded ==
    ASSUME regions \in Seq(Listed), DOMAIN engine \subseteq Addresses, EngineIsRegions,
           stage # "failed",
           NEW base \in Addresses, NEW size \in Addresses, NEW rights, NEW contents,
           RegionIsMapped(base, size, rights, contents),
           DOMAIN contents = DOMAIN engine \cup Cells(base, size)
    PROVE  /\ size # 0
           /\ regions' \in Seq(Listed)
           /\ ListedOf(regions') = ListedOf(regions) \cup {[base |-> base, size |-> size]}
           /\ DOMAIN engine' \subseteq Addresses
           /\ EngineIsRegions'
<1> DEFINE r == [base |-> base, size |-> size]
<1>1. base \in Nat /\ size \in Nat /\ Space \in Nat
  BY RegionsAssumption DEF Addresses
<1>2. /\ size > 0 /\ base + size <= Space /\ Cells(base, size) \cap DOMAIN engine = {}
      /\ DOMAIN engine' = DOMAIN engine \cup Cells(base, size)
      /\ regions' = Append(regions, r)
  BY DEF RegionIsMapped, EngineMaps, MemMapFits, MemMap
<1>3. r \in Listed /\ r.base = base /\ r.size = size
  BY <1>1, <1>2 DEF Listed
<1> HIDE DEF r
<1>4. /\ regions' \in Seq(Listed) /\ Len(regions) \in Nat
      /\ DOMAIN regions = 1 .. Len(regions)
      /\ DOMAIN regions' = 1 .. Len(regions) + 1
      /\ \A i \in DOMAIN regions : regions'[i] = regions[i]
      /\ regions'[Len(regions) + 1] = r
  BY <1>2, <1>3
<1>5. \A i \in DOMAIN regions' : i \in DOMAIN regions \/ i = Len(regions) + 1
  BY <1>4
<1>6. ListedOf(regions') = ListedOf(regions) \cup {r}
  <2>1. \A x : x \in ListedOf(regions') <=> (x \in ListedOf(regions) \/ x = r)
    <3>1. ASSUME NEW x \in ListedOf(regions') PROVE x \in ListedOf(regions) \/ x = r
      BY <1>4, <1>5, <3>1 DEF ListedOf
    <3>2. ASSUME NEW x \in ListedOf(regions) PROVE x \in ListedOf(regions')
      <4>1. PICK i \in DOMAIN regions : x = regions[i]
        BY <3>2 DEF ListedOf
      <4>2. i \in DOMAIN regions' /\ regions'[i] = x
        BY <1>4, <4>1
      <4> QED BY <4>2 DEF ListedOf
    <3>3. r \in ListedOf(regions')
      <4>1. Len(regions) + 1 \in DOMAIN regions'
        BY <1>4
      <4> QED BY <1>4, <4>1 DEF ListedOf
    <3> QED BY <3>1, <3>2, <3>3
  <2> QED BY <2>1
<1>7. DOMAIN engine' \subseteq Addresses
  BY <1>1, <1>2 DEF Cells, Addresses
<1>8. EngineIsRegions'
  <2> DEFINE of(x) == Cells(x.base, x.size)
  <2>1. /\ DOMAIN engine = UNION {of(regions[i]) : i \in DOMAIN regions}
        /\ \A i, j \in DOMAIN regions : i < j => of(regions[i]) \cap of(regions[j]) = {}
    BY DEF EngineIsRegions
  <2>2. of(r) = Cells(base, size)
    BY <1>3
  <2> HIDE DEF of
  <2>3. DOMAIN engine' = UNION {of(regions'[i]) : i \in DOMAIN regions'}
    <3>1. ASSUME NEW a PROVE a \in DOMAIN engine'
                                 <=> \E i \in DOMAIN regions' : a \in of(regions'[i])
      <4>1. a \in DOMAIN engine <=> \E i \in DOMAIN regions : a \in of(regions[i])
        BY <2>1
      <4>2. Len(regions) + 1 \in DOMAIN regions' /\ DOMAIN regions \subseteq DOMAIN regions'
        BY <1>4
      <4> QED BY <1>2, <1>4, <1>5, <2>2, <4>1, <4>2
    <3> QED BY <3>1
  <2>4. ASSUME NEW i \in DOMAIN regions', NEW j \in DOMAIN regions', i < j
        PROVE  of(regions'[i]) \cap of(regions'[j]) = {}
    <3>1. i \in DOMAIN regions
      BY <1>4, <2>4
    <3>2. CASE j \in DOMAIN regions
      BY <1>4, <2>1, <2>4, <3>1, <3>2
    <3>3. CASE j = Len(regions) + 1
      <4>1. of(regions[i]) \subseteq DOMAIN engine
        BY <2>1, <3>1
      <4> QED BY <1>2, <1>4, <2>2, <3>1, <3>3, <4>1
    <3> QED BY <1>5, <3>2, <3>3
  <2> QED BY <2>3, <2>4 DEF EngineIsRegions, of
<1> QED BY <1>1, <1>2, <1>4, <1>6, <1>7, <1>8 DEF r

(* The accounts agree, but for claims that are not listed. *)
Accounts ==
    /\ map \in Seq(Claim) /\ regions \in Seq(Listed)
    /\ DOMAIN engine \subseteq Addresses
    /\ EngineIsRegions
    /\ ListedOf(regions) \subseteq ClaimsOf(map)

Unlisted == ClaimsOf(map) \ ListedOf(regions)

(* A region that is mapped adds no unlisted claim. *)
LEMMA MappedAccounts ==
    ASSUME Accounts, stage # "failed", NEW base \in Addresses, NEW size \in Addresses,
           NEW prot \in 0 .. 7, NEW rights, NEW contents,
           RegionIsMapped(base, size, rights, contents),
           DOMAIN contents = DOMAIN engine \cup Cells(base, size),
           map' = Inserted(map, base, size, prot)
    PROVE  Accounts' /\ Unlisted' \subseteq Unlisted
<1>1. /\ size # 0 /\ regions' \in Seq(Listed)
      /\ ListedOf(regions') = ListedOf(regions) \cup {[base |-> base, size |-> size]}
      /\ DOMAIN engine' \subseteq Addresses /\ EngineIsRegions'
  BY RegionIsAdded DEF Accounts
<1>2. /\ map' \in Seq(Claim)
      /\ ClaimsOf(map') = ClaimsOf(map) \cup {[base |-> base, size |-> size]}
  <2>1. PICK m : m = map
    OBVIOUS
  <2> DEFINE new == Inserted(m, base, size, prot)
  <2>2. m \in Seq(Claim)
    BY <2>1 DEF Accounts
  <2>3. /\ new \in Seq(Claim)
        /\ ClaimsOf(new) = ClaimsOf(m) \cup {[base |-> base, size |-> size]}
    BY <1>1, <2>2, InsertedClaims
  <2> QED BY <2>1, <2>3
<1> QED BY <1>1, <1>2 DEF Accounts, Unlisted

(* A claim more, or none. *)
LEMMA ClaimedOrNot ==
    ASSUME Accounts, NEW base \in Addresses, NEW size \in Addresses,
           NEW prot \in 0 .. 7,
           map' = map \/ map' = Inserted(map, base, size, prot)
    PROVE  /\ map' \in Seq(Claim)
           /\ \/ ClaimsOf(map') = ClaimsOf(map)
              \/ ClaimsOf(map') = ClaimsOf(map) \cup {[base |-> base, size |-> size]}
<1> DEFINE c == [base |-> base, size |-> size]
<1>1. /\ map' \in Seq(Claim)
      /\ \/ ClaimsOf(map') = ClaimsOf(map)
         \/ ClaimsOf(map') = ClaimsOf(map) \cup {c}
  <2>1. PICK m : m = map
    OBVIOUS
  <2> DEFINE new == Inserted(m, base, size, prot)
  <2>2. m \in Seq(Claim)
    BY <2>1 DEF Accounts
  <2>3. /\ new \in Seq(Claim)
        /\ \/ ClaimsOf(new) = ClaimsOf(m)
           \/ ClaimsOf(new) = ClaimsOf(m) \cup {c}
    <3>1. CASE size = 0
      BY <2>2, <3>1 DEF Inserted
    <3>2. CASE size # 0
      BY <2>2, <3>2, InsertedClaims
    <3> QED BY <3>1, <3>2
  <2> QED BY <2>1, <2>2, <2>3
<1> QED BY <1>1

(* A mapping that fails before the engine has mapped leaves at most its     *)
(* claim.                                                                   *)
LEMMA FailedAccounts ==
    ASSUME Accounts, stage # "failed", NEW base \in Addresses, NEW size \in Addresses,
           NEW prot \in 0 .. 7, UNCHANGED <<regions, engine>>,
           map' = map \/ map' = Inserted(map, base, size, prot)
    PROVE  Accounts' /\ Unlisted' \subseteq Unlisted \cup {[base |-> base, size |-> size]}
<1> DEFINE c == [base |-> base, size |-> size]
<1>1. /\ map' \in Seq(Claim)
      /\ \/ ClaimsOf(map') = ClaimsOf(map)
         \/ ClaimsOf(map') = ClaimsOf(map) \cup {c}
  BY ClaimedOrNot
<1> HIDE DEF c
<1>2. EngineIsRegions'
  BY DEF Accounts, EngineIsRegions
<1>3. Accounts' /\ Unlisted' \subseteq Unlisted \cup {c}
  BY <1>1, <1>2 DEF Accounts, Unlisted
<1> QED BY <1>3 DEF c

(* A copy that fails leaves its claim and its pages, and no region.         *)
LEMMA TornAccounts ==
    ASSUME Accounts, LoaderInv, stage # "failed", stage' = "failed",
           seg \in Nat, seg <= Len(segments), seg' = seg, UNCHANGED loaderVars,
           NEW p \in PhdrType, p = segments[seg], SoundSegment(p), SegmentIsTorn(p),
           map' = Inserted(map, PageStart(p), PageSpan(p), p.flags)
    PROVE  /\ Accounts'
           /\ Unlisted' \subseteq
                  Unlisted \cup {[base |-> PageStart(p), size |-> PageSpan(p)]}
<1> DEFINE base == PageStart(p)
           size == PageSpan(p)
           c == [base |-> base, size |-> size]
           spanned == UNION {Cells(regions[i].base, regions[i].size) : i \in DOMAIN regions}
<1>1. PICK some : /\ DOMAIN some = DOMAIN engine \cup Pages(p)
                  /\ EngineMaps(base, size, RightsOf(p.flags), some)
  BY TornIsShorter, ContentsDomain DEF Pages
<1>2. /\ base \in Addresses /\ size \in Addresses
      /\ base \in Nat /\ size \in Nat /\ Space \in Nat /\ p.flags \in 0 .. 7
  BY PagesType, PhdrFacts, RegionsAssumption DEF Addresses
<1>3. /\ size > 0 /\ base + size <= Space /\ Pages(p) \cap DOMAIN engine = {}
      /\ DOMAIN engine' = DOMAIN engine \cup Pages(p)
  BY <1>1 DEF EngineMaps, MemMapFits, MemMap, Pages
<1>4. size # 0
  BY <1>2, <1>3
<1>5. map \in Seq(Claim)
  BY DEF Accounts
<1>6. /\ map' \in Seq(Claim) /\ ClaimsOf(map') = ClaimsOf(map) \cup {c}
  <2>1. PICK m : m = map
    OBVIOUS
  <2>2. PICK prot \in 0 .. 7 : prot = p.flags
    BY <1>2
  <2>3. map' = Inserted(m, base, size, prot) /\ m \in Seq(Claim)
    BY <1>5, <2>1, <2>2
  <2> HIDE DEF base, size
  <2>4. /\ Inserted(m, base, size, prot) \in Seq(Claim)
        /\ ClaimsOf(Inserted(m, base, size, prot)) = ClaimsOf(m) \cup {c}
    BY <1>2, <1>4, <2>3, InsertedClaims
  <2> QED BY <2>1, <2>3, <2>4
<1>7. \E i \in DOMAIN map' : map'[i].base = base /\ map'[i].size = size
  <2>1. c \in ClaimsOf(map')
    BY <1>6
  <2>2. PICK i \in DOMAIN map' : c = [base |-> map'[i].base, size |-> map'[i].size]
    BY <2>1 DEF ClaimsOf
  <2>3. c.base = base /\ c.size = size
    OBVIOUS
  <2> QED BY <2>2, <2>3
<1>8. DOMAIN engine' \subseteq Addresses
  BY <1>2, <1>3 DEF Cells, Addresses, Accounts, Pages
<1>9. /\ DOMAIN engine = spanned /\ regions' = regions /\ failure' = "engine"
      /\ segments' = segments
  BY DEF Accounts, EngineIsRegions, SegmentIsTorn, loaderVars
<1>10. EngineIsRegions'
  <2>1. \A i, j \in DOMAIN regions' : i < j =>
            Cells(regions'[i].base, regions'[i].size)
                \cap Cells(regions'[j].base, regions'[j].size) = {}
    BY <1>9 DEF Accounts, EngineIsRegions
  <2>2. DOMAIN engine' = spanned' \cup Pages(p) /\ spanned' \cap Pages(p) = {}
    BY <1>3, <1>9
  <2>3. segments'[seg'] = p /\ seg' <= Len(segments')
    BY <1>9
  <2> QED BY <1>7, <1>9, <2>1, <2>2, <2>3 DEF EngineIsRegions, Pages
<1>11. ListedOf(regions') = ListedOf(regions) /\ regions' \in Seq(Listed)
  BY <1>9 DEF Accounts
<1> HIDE DEF c, base, size, spanned
<1>12. Accounts' /\ Unlisted' \subseteq Unlisted \cup {c}
  BY <1>6, <1>8, <1>10, <1>11 DEF Accounts, Unlisted
<1> QED BY <1>12 DEF c, base, size

(* Counting them. *)
LEMMA FewerUnlisted ==
    ASSUME IsFiniteSet(Unlisted), Unlisted' \subseteq Unlisted
    PROVE  /\ IsFiniteSet(Unlisted')
           /\ Cardinality(Unlisted') <= Cardinality(Unlisted)
           /\ Cardinality(Unlisted) \in Nat /\ Cardinality(Unlisted') \in Nat
<1>1. /\ IsFiniteSet(Unlisted')
      /\ Cardinality(Unlisted') <= Cardinality(Unlisted)
  BY FS_Subset
<1>2. Cardinality(Unlisted) \in Nat /\ Cardinality(Unlisted') \in Nat
  BY <1>1, FS_CardinalityType
<1> QED BY <1>1, <1>2

LEMMA OneMoreUnlisted ==
    ASSUME IsFiniteSet(Unlisted), NEW c, Unlisted' \subseteq Unlisted \cup {c}
    PROVE  /\ IsFiniteSet(Unlisted')
           /\ Cardinality(Unlisted') <= Cardinality(Unlisted) + 1
           /\ Cardinality(Unlisted) \in Nat /\ Cardinality(Unlisted') \in Nat
<1>1. /\ IsFiniteSet(Unlisted \cup {c})
      /\ Cardinality(Unlisted \cup {c}) <= Cardinality(Unlisted) + 1
      /\ Cardinality(Unlisted) \in Nat
  <2>1. /\ IsFiniteSet(Unlisted \cup {c})
        /\ Cardinality(Unlisted \cup {c}) = IF c \in Unlisted THEN Cardinality(Unlisted)
                                            ELSE Cardinality(Unlisted) + 1
    BY FS_AddElement
  <2>2. Cardinality(Unlisted) \in Nat
    BY FS_CardinalityType
  <2> QED BY <2>1, <2>2
<1>2. /\ IsFiniteSet(Unlisted')
      /\ Cardinality(Unlisted') <= Cardinality(Unlisted \cup {c})
  BY <1>1, FS_Subset
<1>3. Cardinality(Unlisted') \in Nat /\ Cardinality(Unlisted \cup {c}) \in Nat
  BY <1>1, <1>2, FS_CardinalityType
<1> QED BY <1>1, <1>2, <1>3

(* How many claims may be unlisted: none before a call has failed, one when *)
(* that ended the set-up, and one for each call of the owner.               *)
Allowance == IF stage = "failed" THEN 1 ELSE IF stage = "ready" THEN extra ELSE 0

SpaceInv ==
    /\ LayoutInv
    /\ Accounts
    /\ IsFiniteSet(Unlisted) /\ Cardinality(Unlisted) <= Allowance
    /\ extra \in Nat

(* The regions the mapper asks for. *)
LEMMA AskedType ==
    /\ \A p \in PhdrType : /\ PageStart(p) \in Addresses /\ PageSpan(p) \in Addresses
                           /\ p.flags \in 0 .. 7
    /\ StackBase \in Addresses /\ StackSize \in Addresses
    /\ 0 \in 0 .. 7
<1>1. StackBase \in Addresses /\ StackSize \in Addresses
  BY RegionsAssumption, AddressSpaceAssumption DEF Addresses
<1> QED BY <1>1, PagesType, PhdrFacts

(* A step that maps nothing. *)
LEMMA QuietAccounts ==
    ASSUME SpaceInv, stage # "failed", UNCHANGED <<map, regions>>, DOMAIN engine' = DOMAIN engine
    PROVE  Accounts' /\ Unlisted' = Unlisted
BY DEF SpaceInv, Accounts, EngineIsRegions, Unlisted

(* What a step does to the accounts, whatever it is. *)
LEMMA AccountsStep ==
    ASSUME SpaceInv, [SpaceNext]_spaceVars
    PROVE  /\ Accounts'
           /\ \/ Unlisted' \subseteq Unlisted /\ Allowance <= Allowance'
              \/ /\ Allowance + 1 <= Allowance'
                 /\ \E c : Unlisted' \subseteq Unlisted \cup {c}
           /\ extra' \in Nat /\ Allowance \in Nat /\ Allowance' \in Nat
<1>1. /\ Allowance \in Nat /\ extra \in Nat
      /\ stage \notin {"failed", "ready"} => Allowance = 0
      /\ stage = "ready" => Allowance = extra
      /\ stage' = "failed" => Allowance' = 1
      /\ stage' = "ready" => Allowance' = extra'
      /\ stage' \notin {"failed", "ready"} => Allowance' = 0
  BY DEF SpaceInv, Allowance
<1>2. CASE Load \/ NewVcpu \/ SegmentsMapped
  <2>1. stage \notin {"failed", "ready"} /\ extra' = extra /\ UNCHANGED mapVars
    BY <1>2 DEF Load, NewVcpu, SegmentsMapped
  <2>2. Accounts' /\ Unlisted' = Unlisted
    BY <2>1, QuietAccounts DEF mapVars, memory
  <2> QED BY <1>1, <2>1, <2>2
<1>3. CASE MapSegment
  <2>1. PICK p : p = segments[seg]
    OBVIOUS
  <2>2. /\ stage = "segments" /\ extra' = extra
        /\ p \in PhdrType
        /\ \/ /\ stage' = "segments"
              /\ RegionIsMapped(PageStart(p), PageSpan(p), RightsOf(p.flags),
                                SegmentContents(p))
              /\ map' = Inserted(map, PageStart(p), PageSpan(p), p.flags)
           \/ /\ stage' = "failed" /\ seg' = seg
              /\ SegmentIsTorn(p)
              /\ map' = Inserted(map, PageStart(p), PageSpan(p), p.flags)
           \/ /\ stage' = "failed" /\ UNCHANGED <<regions, engine>>
              /\ \/ map' = map
                 \/ map' = Inserted(map, PageStart(p), PageSpan(p), p.flags)
        /\ SoundSegment(p) /\ LoaderInv /\ seg \in Nat /\ seg <= Len(segments)
        /\ UNCHANGED loaderVars
    <3>1. /\ seg <= Len(segments) => p \in PhdrType /\ SoundSegment(p)
          /\ LoaderInv /\ seg \in Nat
      BY <2>1, MappedSegments DEF SpaceInv, LayoutInv
    <3> QED BY <1>3, <2>1, <3>1, SegmentOutcomes
  <2>3. CASE stage' = "segments"
    <3>1. Accounts' /\ Unlisted' \subseteq Unlisted
      BY <2>2, <2>3, AskedType, ContentsDomain, MappedAccounts DEF SpaceInv
    <3> QED BY <1>1, <2>2, <2>3, <3>1
  <2>4. CASE stage' = "failed"
    <3>1. ASSUME seg' = seg, SegmentIsTorn(p),
                 map' = Inserted(map, PageStart(p), PageSpan(p), p.flags)
          PROVE  Accounts' /\ \E c : Unlisted' \subseteq Unlisted \cup {c}
      <4>1. Accounts /\ stage # "failed"
        BY <2>2 DEF SpaceInv
      <4>2. /\ Accounts'
            /\ Unlisted' \subseteq
                   Unlisted \cup {[base |-> PageStart(p), size |-> PageSpan(p)]}
        BY <2>1, <2>2, <2>4, <3>1, <4>1, TornAccounts
      <4> QED BY <4>2
    <3>2. ASSUME UNCHANGED <<regions, engine>>,
                 \/ map' = map
                 \/ map' = Inserted(map, PageStart(p), PageSpan(p), p.flags)
          PROVE  Accounts' /\ \E c : Unlisted' \subseteq Unlisted \cup {c}
      BY <2>2, <2>4, <3>2, AskedType, FailedAccounts DEF SpaceInv
    <3>3. Accounts' /\ \E c : Unlisted' \subseteq Unlisted \cup {c}
      BY <2>2, <2>4, <3>1, <3>2
    <3> QED BY <1>1, <2>2, <2>4, <3>3
  <2> QED BY <2>2, <2>3, <2>4
<1>4. CASE MapStack
  <2>1. /\ stage = "stack" /\ extra' = extra
        /\ \/ /\ stage' = "frame"
              /\ RegionIsMapped(StackBase, StackSize, {"r", "w"},
                                Zeroed(StackBase, StackSize))
              /\ map' = Inserted(map, StackBase, StackSize, 0)
           \/ /\ stage' = "failed" /\ UNCHANGED <<regions, engine>>
              /\ map' = map \/ map' = Inserted(map, StackBase, StackSize, 0)
    BY <1>4, StackOutcomes
  <2>2. CASE stage' = "frame"
    <3>1. Accounts' /\ Unlisted' \subseteq Unlisted
      <4>1. DOMAIN Zeroed(StackBase, StackSize) = DOMAIN engine \cup Cells(StackBase, StackSize)
        BY ContentsDomain
      <4> QED BY <2>1, <2>2, <4>1, AskedType, MappedAccounts DEF SpaceInv
    <3> QED BY <1>1, <2>1, <2>2, <3>1
  <2>3. CASE stage' = "failed"
    <3>1. Accounts' /\ \E c : Unlisted' \subseteq Unlisted \cup {c}
      BY <2>1, <2>3, AskedType, FailedAccounts DEF SpaceInv
    <3> QED BY <1>1, <2>1, <2>3, <3>1
  <2> QED BY <2>1, <2>2, <2>3
<1>5. CASE SetupInitialState
  <2>1. /\ stage = "frame" /\ extra' = extra /\ UNCHANGED <<map, regions>>
        /\ DOMAIN engine' = DOMAIN engine /\ stage' \in {"ready", "failed"}
    BY <1>5 DEF SetupInitialState
  <2>2. Accounts' /\ Unlisted' = Unlisted
    BY <2>1, QuietAccounts
  <2> QED BY <1>1, <2>1, <2>2
<1>6. ASSUME NEW r \in ExtraMaps, MapMemory(r.base, r.size, r.rights)
      PROVE  /\ Accounts' /\ Allowance + 1 <= Allowance' /\ extra' \in Nat
             /\ \E c : Unlisted' \subseteq Unlisted \cup {c}
  <2>1. /\ stage = "ready" /\ stage' = "ready" /\ extra' = extra + 1
        /\ \/ /\ RegionIsMapped(r.base, r.size, r.rights, Zeroed(r.base, r.size))
              /\ map' = Inserted(map, r.base, r.size, 0)
           \/ /\ UNCHANGED <<regions, engine>>
              /\ map' = map \/ map' = Inserted(map, r.base, r.size, 0)
    BY <1>6, ExtraOutcomes
  <2>2. Accounts' /\ \E c : Unlisted' \subseteq Unlisted \cup {c}
    <3>1. CASE /\ RegionIsMapped(r.base, r.size, r.rights, Zeroed(r.base, r.size))
               /\ map' = Inserted(map, r.base, r.size, 0)
      <4>1. DOMAIN Zeroed(r.base, r.size) = DOMAIN engine \cup Cells(r.base, r.size)
        BY ContentsDomain
      <4>2. Accounts' /\ Unlisted' \subseteq Unlisted
        BY <2>1, <3>1, <4>1, AskedType, ExtraMapsType, MappedAccounts DEF SpaceInv
      <4> QED BY <4>2
    <3>2. CASE UNCHANGED <<regions, engine>>
      BY <2>1, <3>1, <3>2, ExtraMapsType, FailedAccounts DEF SpaceInv
    <3> QED BY <2>1, <3>1, <3>2
  <2> QED BY <1>1, <2>1, <2>2
<1>7. ASSUME NEW reg, NEW value, SetReg(reg, value)
      PROVE  /\ Accounts' /\ Unlisted' = Unlisted
             /\ Allowance <= Allowance' /\ extra' \in Nat /\ Allowance' \in Nat
  <2>1. stage = "ready" /\ stage' = "ready" /\ extra' = extra + 1 /\ UNCHANGED mapVars
    BY <1>7 DEF SetReg
  <2>2. Accounts' /\ Unlisted' = Unlisted
    BY <2>1, QuietAccounts DEF mapVars, memory
  <2> QED BY <1>1, <2>1, <2>2
<1>8. CASE UNCHANGED spaceVars
  <2>1. /\ stage' = stage /\ extra' = extra /\ map' = map /\ regions' = regions
        /\ engine' = engine /\ seg' = seg /\ failure' = failure /\ segments' = segments
    BY <1>8 DEF spaceVars, loaderVars, mapVars, memory
  <2>2. Accounts' /\ Unlisted' = Unlisted
    <3>1. ClaimsOf(map') = ClaimsOf(map) /\ ListedOf(regions') = ListedOf(regions)
      BY <2>1
    <3>2. EngineIsRegions'
      <4> DEFINE spanned == UNION {Cells(regions[i].base, regions[i].size) :
                                       i \in DOMAIN regions}
      <4>1. EngineIsRegions
        BY DEF SpaceInv, Accounts
      <4>2. /\ spanned' = spanned /\ PageStart(segments[seg])' = PageStart(segments[seg])
            /\ PageSpan(segments[seg])' = PageSpan(segments[seg])
            /\ \A i, j \in DOMAIN regions' : i < j =>
                  Cells(regions'[i].base, regions'[i].size)
                      \cap Cells(regions'[j].base, regions'[j].size) = {}
        BY <2>1, <4>1 DEF EngineIsRegions
      <4>3. CASE DOMAIN engine = spanned
        <5>1. DOMAIN engine' = spanned'
          BY <2>1, <4>2, <4>3
        <5> QED BY <4>2, <5>1 DEF EngineIsRegions
      <4>4. CASE DOMAIN engine # spanned
        <5> DEFINE torn == Cells(PageStart(segments[seg]), PageSpan(segments[seg]))
        <5>1. /\ stage = "failed" /\ failure = "engine" /\ seg <= Len(segments)
              /\ DOMAIN engine = spanned \cup torn /\ spanned \cap torn = {}
              /\ \E i \in DOMAIN map : /\ map[i].base = PageStart(segments[seg])
                                      /\ map[i].size = PageSpan(segments[seg])
          BY <4>1, <4>4 DEF EngineIsRegions
        <5>2. torn' = torn
          BY <2>1
        <5>3. DOMAIN engine' = spanned' \cup torn' /\ spanned' \cap torn' = {}
          BY <2>1, <4>2, <5>1, <5>2
        <5>4. \E i \in DOMAIN map' : /\ map'[i].base = PageStart(segments[seg])'
                                    /\ map'[i].size = PageSpan(segments[seg])'
          BY <2>1, <4>2, <5>1
        <5> QED BY <2>1, <4>2, <5>1, <5>3, <5>4 DEF EngineIsRegions
      <4> QED BY <4>3, <4>4
    <3> QED BY <2>1, <3>1, <3>2 DEF SpaceInv, Accounts, Unlisted
  <2>3. Allowance' = Allowance
    BY <2>1 DEF Allowance
  <2> QED BY <1>1, <2>1, <2>2, <2>3
<1>9. Allowance' \in Nat
  <2>1. extra' \in Nat
    BY <1>1, <1>2, <1>3, <1>4, <1>5, <1>6, <1>7, <1>8 DEF SpaceNext
  <2> QED BY <2>1 DEF Allowance
<1> QED BY <1>1, <1>2, <1>3, <1>4, <1>5, <1>6, <1>7, <1>8, <1>9 DEF SpaceNext

LEMMA SpaceInvariant == SpaceSpec => []SpaceInv
<1>1. SpaceInit => SpaceInv
  <2> SUFFICES ASSUME SpaceInit PROVE SpaceInv
    OBVIOUS
  <2>1. /\ map = << >> /\ regions = << >> /\ DOMAIN engine = {} /\ extra = 0
        /\ stage = "loading"
    BY DEF SpaceInit
  <2>2. ClaimsOf(map) = {} /\ ListedOf(regions) = {} /\ Unlisted = {}
    BY <2>1 DEF ClaimsOf, ListedOf, Unlisted
  <2>3. Accounts
    BY <2>1, <2>2 DEF Accounts, EngineIsRegions
  <2>4. IsFiniteSet(Unlisted) /\ Cardinality(Unlisted) = 0 /\ Allowance = 0
    BY <2>1, <2>2, FS_EmptySet DEF Allowance
  <2> QED BY <2>1, <2>3, <2>4, LayoutStart DEF SpaceInv
<1>2. SpaceInv /\ [SpaceNext]_spaceVars => SpaceInv'
  <2> SUFFICES ASSUME SpaceInv, [SpaceNext]_spaceVars PROVE SpaceInv'
    OBVIOUS
  <2>1. LayoutInv'
    BY LayoutStep DEF SpaceInv
  <2>2. /\ Accounts' /\ extra' \in Nat /\ Allowance \in Nat /\ Allowance' \in Nat
        /\ \/ Unlisted' \subseteq Unlisted /\ Allowance <= Allowance'
           \/ /\ Allowance + 1 <= Allowance'
              /\ \E c : Unlisted' \subseteq Unlisted \cup {c}
    BY AccountsStep
  <2>3. IsFiniteSet(Unlisted) /\ Cardinality(Unlisted) <= Allowance
    BY DEF SpaceInv
  <2>4. IsFiniteSet(Unlisted') /\ Cardinality(Unlisted') <= Allowance'
    <3>1. CASE Unlisted' \subseteq Unlisted /\ Allowance <= Allowance'
      BY <2>2, <2>3, <3>1, FewerUnlisted
    <3>2. ASSUME Allowance + 1 <= Allowance', NEW c, Unlisted' \subseteq Unlisted \cup {c}
          PROVE  IsFiniteSet(Unlisted') /\ Cardinality(Unlisted') <= Allowance'
      BY <2>2, <2>3, <3>2, OneMoreUnlisted
    <3> QED BY <2>2, <3>1, <3>2
  <2> QED BY <2>1, <2>2, <2>4 DEF SpaceInv
<1> QED BY <1>1, <1>2, PTL DEF SpaceSpec

(* The regions a Vcpu lists are mapped in Unicorn, no two of them share an  *)
(* address, and Unicorn has mapped nothing else, whatever has failed: but   *)
(* for the claimed pages of the one segment whose copy has failed, on a     *)
(* Vcpu whose set-up ended there.                                           *)
THEOREM EngineHoldsTheRegions == SpaceSpec => []EngineIsRegions
<1>1. SpaceInv => EngineIsRegions
  BY DEF SpaceInv, Accounts
<1> QED BY <1>1, SpaceInvariant, PTL

(* Every listed region is claimed, and what is claimed without being listed *)
(* is what mappings that failed have left: nothing while none has failed,   *)
(* one after a failed set-up, one for each later call.                      *)
THEOREM RegionsAreClaimed == SpaceSpec => []ListedIsClaimed
<1>1. SpaceInv => ListedIsClaimed
  <2> SUFFICES ASSUME SpaceInv PROVE ListedIsClaimed
    OBVIOUS
  <2>1. /\ ListedOf(regions) \subseteq ClaimsOf(map)
        /\ IsFiniteSet(Unlisted) /\ Cardinality(Unlisted) <= Allowance
        /\ Unlisted = ClaimsOf(map) \ ListedOf(regions) /\ extra \in Nat
    BY DEF SpaceInv, Accounts, Unlisted
  <2>2. Cardinality(Unlisted) \in Nat
    BY <2>1, FS_CardinalityType
  <2>3. stage \notin {"failed", "ready"} => ListedOf(regions) = ClaimsOf(map)
    <3>1. stage \notin {"failed", "ready"} => Cardinality(Unlisted) = 0
      BY <2>1, <2>2 DEF Allowance
    <3>2. Cardinality(Unlisted) = 0 => Unlisted = {}
      BY <2>1, FS_EmptySet
    <3> QED BY <2>1, <3>1, <3>2
  <2>4. /\ stage = "failed" => Cardinality(ClaimsOf(map) \ ListedOf(regions)) <= 1
        /\ stage = "ready" => Cardinality(ClaimsOf(map) \ ListedOf(regions)) <= extra
    BY <2>1 DEF Allowance
  <2> QED BY <2>1, <2>3, <2>4 DEF ListedIsClaimed, ClaimsOf, ListedOf
<1> QED BY <1>1, SpaceInvariant, PTL

-----------------------------------------------------------------------------
(* The rest of the type. *)

Stages   == {"loading", "engine", "segments", "stack", "frame", "ready", "failed"}
Failures == {"none", "init", "overlap", "engine", "regop", "panic"}

CellsAreU64 == \A a \in DOMAIN engine : engine[a] \in Addresses

RestOK ==
    /\ stage \in Stages
    /\ CellsAreU64
    /\ rip \in Addresses /\ rsp \in Addresses
    /\ failure \in Failures
    /\ extra \in 0 .. MaxExtra

LEMMA ContentsType ==
    ASSUME CellsAreU64
    PROVE  /\ \A base, size : \A a \in DOMAIN Zeroed(base, size) :
                 Zeroed(base, size)[a] \in Addresses
           /\ \A p \in PhdrType : LoaderInv /\ SoundSegment(p) =>
                 \A a \in DOMAIN SegmentContents(p) : SegmentContents(p)[a] \in Addresses
<1>1. 0 \in Addresses
  BY RegionsAssumption DEF Addresses
<1>2. ASSUME NEW base, NEW size, NEW a \in DOMAIN Zeroed(base, size)
      PROVE  Zeroed(base, size)[a] \in Addresses
  BY <1>1, <1>2 DEF Zeroed, CellsAreU64
<1>3. ASSUME NEW p \in PhdrType, LoaderInv, SoundSegment(p),
             NEW a \in DOMAIN SegmentContents(p)
      PROVE  SegmentContents(p)[a] \in Addresses
  <2>1. /\ a \in DOMAIN Zeroed(PageStart(p), PageSpan(p))
        /\ SegmentContents(p)[a]
              = IF a \in Cells(p.vaddr, p.filesz) THEN p.offset + (a - p.vaddr) + 1
                ELSE Zeroed(PageStart(p), PageSpan(p))[a]
    BY <1>3 DEF SegmentContents, Written
  <2>2. CASE a \in Cells(p.vaddr, p.filesz)
    <3>1. /\ p.vaddr \in Nat /\ p.offset \in Nat /\ p.filesz \in Nat
          /\ p.offset + p.filesz <= image.len
          /\ image.len \in Nat /\ image.len < Space /\ Space \in Nat
      BY <1>3, PhdrFacts, RegionsAssumption
         DEF SoundSegment, LoaderInv, LoaderTypeOK, ImageType, Addresses
    <3>2. p.offset + (a - p.vaddr) + 1 \in Addresses
      BY <2>2, <3>1 DEF Cells, Addresses
    <3> QED BY <2>1, <2>2, <3>2
  <2>3. CASE a \notin Cells(p.vaddr, p.filesz)
    BY <1>2, <2>1, <2>3
  <2> QED BY <2>2, <2>3
<1> QED BY <1>2, <1>3

LEMMA RestStep == LayoutInv /\ RestOK /\ [SpaceNext]_spaceVars => RestOK'
<1> SUFFICES ASSUME LayoutInv, RestOK, [SpaceNext]_spaceVars PROVE RestOK'
  OBVIOUS
<1> USE DEF Stages, Failures
<1>1. CASE Load
  BY <1>1 DEF Load, RestOK, mapVars, memory, CellsAreU64
<1>2. CASE NewVcpu
  BY <1>2 DEF NewVcpu, RestOK, mapVars, memory, CellsAreU64
<1>3. CASE SegmentsMapped
  BY <1>3 DEF SegmentsMapped, RestOK, mapVars, memory, CellsAreU64
<1>4. CASE MapSegment
  <2>1. PICK p : p = segments[seg]
    OBVIOUS
  <2>2. /\ UNCHANGED <<rip, rsp, extra>> /\ stage' \in Stages
        /\ p \in PhdrType /\ SoundSegment(p)
        /\ \/ /\ RegionIsMapped(PageStart(p), PageSpan(p), RightsOf(p.flags),
                                SegmentContents(p))
           \/ SegmentIsTorn(p)
           \/ engine' = engine /\ failure' \in Failures
    <3>1. seg <= Len(segments) => p \in PhdrType /\ SoundSegment(p)
      BY <2>1, MappedSegments DEF LayoutInv
    <3> QED BY <1>4, <2>1, <3>1, SegmentOutcomes
  <2>3. engine' = SegmentContents(p) => CellsAreU64'
    BY <2>2, ContentsType DEF RestOK, LayoutInv, CellsAreU64
  <2>4. SegmentIsTorn(p) => CellsAreU64' /\ failure' \in Failures
    <3> SUFFICES ASSUME SegmentIsTorn(p) PROVE CellsAreU64' /\ failure' \in Failures
      OBVIOUS
    <3>1. PICK q \in PhdrType :
             /\ SoundSegment(q)
             /\ EngineMaps(PageStart(p), PageSpan(p), RightsOf(p.flags),
                           SegmentContents(q))
      BY <2>2, TornIsShorter DEF LayoutInv
    <3>2. engine' = SegmentContents(q)
      BY <3>1 DEF EngineMaps, MemMap
    <3>3. CellsAreU64'
      BY <3>1, <3>2, ContentsType DEF RestOK, LayoutInv, CellsAreU64
    <3> QED BY <3>3 DEF SegmentIsTorn
  <2>5. CellsAreU64' /\ failure' \in Failures
    BY <2>2, <2>3, <2>4 DEF RegionIsMapped, EngineMaps, MemMap, RestOK, CellsAreU64
  <2> QED BY <2>2, <2>5 DEF RestOK
<1>5. CASE MapStack
  <2>1. /\ UNCHANGED <<rip, rsp, extra>> /\ stage' \in Stages
        /\ \/ RegionIsMapped(StackBase, StackSize, {"r", "w"}, Zeroed(StackBase, StackSize))
           \/ engine' = engine /\ failure' \in Failures
    BY <1>5, StackOutcomes
  <2>2. engine' = Zeroed(StackBase, StackSize) => CellsAreU64'
    BY ContentsType DEF RestOK, CellsAreU64
  <2>3. CellsAreU64' /\ failure' \in Failures
    BY <2>1, <2>2 DEF RegionIsMapped, EngineMaps, MemMap, RestOK, CellsAreU64
  <2> QED BY <2>1, <2>3 DEF RestOK
<1>6. CASE SetupInitialState
  <2>1. /\ StackBase + StackSize - FrameSize \in Addresses /\ 0 \in Addresses
    BY RegionsAssumption, AddressSpaceAssumption DEF Addresses
  <2>2. image.entry \in Addresses
    BY DEF LayoutInv, LoaderInv, LoaderTypeOK, ImageType
  <2> QED BY <1>6, <2>1, <2>2 DEF SetupInitialState, RestOK, CellsAreU64
<1>7. ASSUME NEW r \in ExtraMaps, MapMemory(r.base, r.size, r.rights)
      PROVE  RestOK'
  <2>1. /\ UNCHANGED <<rip, rsp, stage>> /\ extra' = extra + 1 /\ extra < MaxExtra
        /\ \/ RegionIsMapped(r.base, r.size, r.rights, Zeroed(r.base, r.size))
           \/ engine' = engine /\ failure' \in Failures
    BY <1>7, ExtraOutcomes
  <2>2. engine' = Zeroed(r.base, r.size) => CellsAreU64'
    BY ContentsType DEF RestOK, CellsAreU64
  <2>3. CellsAreU64' /\ failure' \in Failures
    BY <2>1, <2>2 DEF RegionIsMapped, EngineMaps, MemMap, RestOK, CellsAreU64
  <2> QED BY <2>1, <2>3, AddressSpaceAssumption DEF RestOK
<1>8. ASSUME NEW reg, NEW value \in RegValues, SetReg(reg, value)
      PROVE  RestOK'
  BY <1>8, AddressSpaceAssumption DEF SetReg, RestOK, mapVars, memory, CellsAreU64
<1>9. CASE UNCHANGED spaceVars
  BY <1>9 DEF spaceVars, mapVars, memory, RestOK, CellsAreU64
<1> QED BY <1>1, <1>2, <1>3, <1>4, <1>5, <1>6, <1>7, <1>8, <1>9 DEF SpaceNext

(* Every variable of the mapper keeps its type, the words the engine holds  *)
(* and the registers among them.                                            *)
THEOREM SpaceTypeCorrect == SpaceSpec => []SpaceTypeOK
<1>1. SpaceInit => RestOK
  <2>1. 0 \in Addresses /\ 0 \in 0 .. MaxExtra
    BY RegionsAssumption, AddressSpaceAssumption DEF Addresses
  <2> QED BY <2>1 DEF SpaceInit, RestOK, Stages, Failures, CellsAreU64
<1>2. SpaceInv /\ RestOK /\ [SpaceNext]_spaceVars => RestOK'
  BY RestStep DEF SpaceInv
<1>3. SpaceInv /\ RestOK => SpaceTypeOK
  BY DEF SpaceInv, LayoutInv, Accounts, RestOK, CellsAreU64, SpaceTypeOK, Stages, Failures
<1> QED BY <1>1, <1>2, <1>3, SpaceInvariant, PTL DEF SpaceSpec
=============================================================================
