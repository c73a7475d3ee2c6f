-------------------------- MODULE ElfLoaderProofs --------------------------
(***************************************************************************)
(* Proofs about ElfLoader, for every image, every address space and both   *)
(* kinds of build.                                                         *)
(***************************************************************************)
EXTENDS ElfLoaderProperties, RegionsProofs, FiniteSetTheorems

(* The map of the loop is the only witness of the segments read so far: it  *)
(* holds a region for each that is not empty, and no end in it wraps.       *)
ClaimsInside ==
    \A k \in DOMAIN claimed : claimed[k].base + claimed[k].size < Space

SegmentsAreClaimed ==
    \A i \in DOMAIN segments : segments[i].memsz # 0 =>
        \E k \in DOMAIN claimed : /\ claimed[k].base = segments[i].vaddr
                                  /\ claimed[k].size = segments[i].memsz

LoaderInv ==
    /\ LoaderTypeOK
    /\ ClaimsInside
    /\ SegmentsAreClaimed
    /\ SegmentsAreSound

-----------------------------------------------------------------------------
(* Insert comes to one of three things. *)
LEMMA InsertOutcomes ==
    \A regions, base, size :
        InsertOutcome(regions, base, size) \in {"ok", "overlap", "panic"}
BY DEF InsertOutcome

(* The numbers in a program header. *)
LEMMA PhdrFacts ==
    ASSUME NEW p \in PhdrType
    PROVE  /\ p.vaddr \in Nat /\ p.memsz \in Nat /\ p.memsz < Space
           /\ p.offset \in Nat /\ p.filesz \in Nat
           /\ p.vaddr \in Addresses /\ p.memsz \in Addresses /\ p.flags \in 0 .. 7
BY RegionsAssumption DEF PhdrType, Addresses

(* The numbers in a claimed region. *)
LEMMA ClaimFacts ==
    ASSUME LoaderTypeOK, NEW k \in DOMAIN claimed
    PROVE  /\ claimed[k] \in Region
           /\ claimed[k].base \in Nat /\ claimed[k].size \in Nat
<1>1. claimed[k] \in Region
  BY DEF LoaderTypeOK
<1> QED BY <1>1, RegionsAssumption DEF Region, Addresses

(* A header that passes the checks is sound. *)
LEMMA CheckedIsSound ==
    ASSUME LoaderTypeOK, NEW p \in PhdrType, PhdrError(p) = "none"
    PROVE  /\ SoundSegment(p)
           /\ InsertOutcome(claimed, p.vaddr, p.memsz) = "ok"
<1>1. /\ image.len \in Nat
  BY RegionsAssumption DEF LoaderTypeOK, ImageType, Addresses
<1>2. /\ ~Overflows(p.vaddr, p.memsz)
      /\ InsertOutcome(claimed, p.vaddr, p.memsz) \notin {"overlap", "panic"}
      /\ ~(p.offset + p.filesz > image.len)
      /\ ~(p.filesz > p.memsz)
  BY DEF PhdrError, CopyError
<1> QED BY <1>1, <1>2, PhdrFacts, InsertOutcomes, RegionsAssumption
        DEF SoundSegment, Overflows

(* A header that passes the checks meets no segment already read. *)
LEMMA CheckedMeetsNone ==
    ASSUME LoaderInv, NEW p \in PhdrType, PhdrError(p) = "none",
           NEW i \in DOMAIN segments
    PROVE  ~Meet(segments[i], p)
<1> SUFFICES ASSUME Meet(segments[i], p) PROVE FALSE
  OBVIOUS
<1>1. segments[i] \in PhdrType /\ segments[i].memsz # 0 /\ p.memsz # 0
  <2>1. segments[i] \in PhdrType
    BY DEF LoaderInv, LoaderTypeOK
  <2> QED BY <2>1, PhdrFacts DEF Meet
<1>2. PICK k \in DOMAIN claimed : /\ claimed[k].base = segments[i].vaddr
                                  /\ claimed[k].size = segments[i].memsz
  BY <1>1 DEF LoaderInv, SegmentsAreClaimed
<1>3. p.vaddr + p.memsz < Space
  BY CheckedIsSound DEF LoaderInv, SoundSegment
<1>4. ~Overlaps(claimed[k], p.vaddr, p.memsz)
  <2>1. InsertOutcome(claimed, p.vaddr, p.memsz) = "ok"
    BY CheckedIsSound DEF LoaderInv
  <2> QED BY <1>1, <2>1 DEF InsertOutcome
<1>5. /\ claimed[k].base \in Nat /\ claimed[k].size \in Nat
      /\ claimed[k].base + claimed[k].size < Space
  BY ClaimFacts DEF LoaderInv, ClaimsInside
<1>6. \/ p.vaddr + p.memsz <= claimed[k].base
      \/ claimed[k].base + claimed[k].size <= p.vaddr
  BY <1>3, <1>4, <1>5, PhdrFacts, NoOverlapSeparates
<1> QED BY <1>1, <1>2, <1>6, PhdrFacts DEF Meet

-----------------------------------------------------------------------------
(* What the insert of an accepted header does to the map. *)
LEMMA ClaimKeeps ==
    ASSUME LoaderInv, NEW p \in PhdrType, PhdrError(p) = "none",
           NEW new, new = Inserted(claimed, p.vaddr, p.memsz, p.flags)
    PROVE  /\ new \in Seq(Region)
           /\ \A k \in DOMAIN new : new[k].base + new[k].size < Space
           /\ \A k \in DOMAIN claimed : \E j \in DOMAIN new : new[j] = claimed[k]
           /\ p.memsz # 0 => \E j \in DOMAIN new : /\ new[j].base = p.vaddr
                                                   /\ new[j].size = p.memsz
<1>1. claimed \in Seq(Region)
  BY DEF LoaderInv, LoaderTypeOK
<1>2. CASE p.memsz = 0
  BY <1>1, <1>2 DEF Inserted, LoaderInv, ClaimsInside
<1>3. CASE p.memsz # 0
  <2> DEFINE r == [base |-> p.vaddr, size |-> p.memsz, prot |-> p.flags]
             place == Place(claimed, p.vaddr)
  <2>1. r \in Region /\ r.base = p.vaddr /\ r.size = p.memsz
    BY <1>3, PhdrFacts DEF Region
  <2>2. new = InsertAt(claimed, place, r)
    BY <1>3 DEF Inserted
  <2>3. place \in 0 .. Len(claimed)
    BY <1>1, ClaimFacts, PhdrFacts, PlaceIsBehindTheLast DEF LoaderInv
  <2> HIDE DEF r, place
  <2>4. /\ new \in Seq(Region)
        /\ \E j \in DOMAIN new : new[j] = r
        /\ \A k \in DOMAIN claimed : \E j \in DOMAIN new : new[j] = claimed[k]
        /\ \A j \in DOMAIN new : new[j] = r \/ \E k \in DOMAIN claimed : new[j] = claimed[k]
    BY <1>1, <2>1, <2>2, <2>3, InsertAtElements
  <2>5. r.base + r.size < Space
    BY <2>1, CheckedIsSound DEF LoaderInv, SoundSegment
  <2>6. \A j \in DOMAIN new : new[j].base + new[j].size < Space
    BY <2>4, <2>5 DEF LoaderInv, ClaimsInside
  <2> QED BY <2>1, <2>4, <2>6
<1> QED BY <1>2, <1>3

(* A header that is read keeps the invariant. *)
LEMMA LoadPhdrKeeps ==
    ASSUME LoaderInv, LoadPhdr, image.phdrs[next] \in PhdrType,
           PhdrError(image.phdrs[next]) = "none"
    PROVE  LoaderInv'
<1> DEFINE p == image.phdrs[next]
<1>1. /\ p \in PhdrType
      /\ next <= Len(image.phdrs)
      /\ claimed' = Inserted(claimed, p.vaddr, p.memsz, p.flags)
      /\ segments' = Append(segments, p)
      /\ next' = next + 1
      /\ UNCHANGED <<image, phase, error>>
  BY DEF LoadPhdr
<1>2. image.phdrs \in Seq(PhdrType) /\ next \in Nat \ {0}
  BY DEF LoaderInv, LoaderTypeOK, ImageType
<1>3. PhdrError(p) = "none"
  OBVIOUS
<1> HIDE DEF p
<1>4. /\ segments \in Seq(PhdrType) /\ segments' \in Seq(PhdrType)
      /\ Len(segments) \in Nat
      /\ DOMAIN segments = 1 .. Len(segments)
      /\ DOMAIN segments' = 1 .. Len(segments) + 1
      /\ \A i \in DOMAIN segments : segments'[i] = segments[i]
      /\ segments'[Len(segments) + 1] = p
  BY <1>1 DEF LoaderInv, LoaderTypeOK
<1>5. /\ claimed' \in Seq(Region)
      /\ ClaimsInside'
      /\ \A k \in DOMAIN claimed : \E j \in DOMAIN claimed' : claimed'[j] = claimed[k]
      /\ p.memsz # 0 => \E j \in DOMAIN claimed' : /\ claimed'[j].base = p.vaddr
                                                   /\ claimed'[j].size = p.memsz
  <2> DEFINE new == Inserted(claimed, p.vaddr, p.memsz, p.flags)
  <2>1. /\ new \in Seq(Region)
        /\ \A k \in DOMAIN new : new[k].base + new[k].size < Space
        /\ \A k \in DOMAIN claimed : \E j \in DOMAIN new : new[j] = claimed[k]
        /\ p.memsz # 0 => \E j \in DOMAIN new : /\ new[j].base = p.vaddr
                                                 /\ new[j].size = p.memsz
    BY <1>1, <1>3, ClaimKeeps
  <2>2. claimed' = new
    BY <1>1
  <2> HIDE DEF new
  <2> QED BY <2>1, <2>2 DEF ClaimsInside
<1>6. LoaderTypeOK'
  BY <1>1, <1>2, <1>4, <1>5 DEF LoaderInv, LoaderTypeOK
<1>7. \A i \in DOMAIN segments' : i \in DOMAIN segments \/ i = Len(segments) + 1
  BY <1>4
<1>8. SegmentsAreClaimed'
  <2> SUFFICES ASSUME NEW i \in DOMAIN segments', segments'[i].memsz # 0
               PROVE  \E j \in DOMAIN claimed' :
                         /\ claimed'[j].base = segments'[i].vaddr
                         /\ claimed'[j].size = segments'[i].memsz
    BY DEF SegmentsAreClaimed
  <2>1. CASE i \in DOMAIN segments
    <3>1. PICK k \in DOMAIN claimed : /\ claimed[k].base = segments[i].vaddr
                                      /\ claimed[k].size = segments[i].memsz
      BY <1>4, <2>1 DEF LoaderInv, SegmentsAreClaimed
    <3>2. PICK j \in DOMAIN claimed' : claimed'[j] = claimed[k]
      BY <1>5
    <3> QED BY <1>4, <2>1, <3>1, <3>2
  <2>2. CASE i = Len(segments) + 1
    BY <1>4, <1>5, <2>2
  <2> QED BY <1>7, <2>1, <2>2
<1>9. SegmentsAreSound'
  <2>1. ASSUME NEW i \in DOMAIN segments'
        PROVE  SoundSegment(segments'[i])
    <3>1. SoundSegment(p)
      BY <1>1, <1>3, CheckedIsSound DEF LoaderInv
    <3> QED BY <1>4, <1>7, <3>1 DEF LoaderInv, SegmentsAreSound
  <2>2. ASSUME NEW i \in DOMAIN segments', NEW j \in DOMAIN segments', i < j
        PROVE  ~Meet(segments'[i], segments'[j])
    <3>1. i \in DOMAIN segments
      BY <1>4, <2>2
    <3>2. CASE j \in DOMAIN segments
      BY <1>4, <2>2, <3>1, <3>2 DEF LoaderInv, SegmentsAreSound
    <3>3. CASE j = Len(segments) + 1
      BY <1>1, <1>3, <1>4, <3>1, <3>3, CheckedMeetsNone
    <3> QED BY <1>7, <3>2, <3>3
  <2>3. \A i \in DOMAIN segments' : SoundSegment(segments'[i])
    BY <2>1
  <2>4. \A i, j \in DOMAIN segments' : i < j => ~Meet(segments'[i], segments'[j])
    BY <2>2
  <2>5. image' = image
    BY <1>1
  <2> QED BY <2>3, <2>4, <2>5 DEF SegmentsAreSound, SoundSegment, Meet
<1> QED BY <1>5, <1>6, <1>8, <1>9 DEF LoaderInv

(* The codes a header may be refused with. *)
LEMMA CodesType ==
    /\ \A i \in DOMAIN HeaderChecks : HeaderChecks[i] \in Codes
    /\ \A p : PhdrError(p) \in Codes
BY DEF HeaderChecks, PhdrError, CopyError, Codes

(* Every step keeps the invariant. *)
LEMMA LoaderStep == LoaderInv /\ [LoaderNext]_loaderVars => LoaderInv'
<1> SUFFICES ASSUME LoaderInv, [LoaderNext]_loaderVars PROVE LoaderInv'
  OBVIOUS
<1> DEFINE Kept == UNCHANGED <<image, claimed, segments>>
<1>1. ASSUME Kept, LoaderTypeOK' PROVE LoaderInv'
  BY <1>1 DEF LoaderInv, ClaimsInside, SegmentsAreClaimed, SegmentsAreSound,
              SoundSegment, Meet
<1>2. ASSUME NEW code \in Codes, Refuse(code) PROVE LoaderInv'
  BY <1>1, <1>2 DEF Refuse, LoaderInv, LoaderTypeOK
<1>3. CASE CheckHeader
  <2> DEFINE failed == {i \in DOMAIN HeaderChecks : HeaderChecks[i] \in image.defects}
  <2>1. CASE failed # {}
    <3>1. failed \in SUBSET Nat
      BY DEF HeaderChecks
    <3>2. Min(failed) \in DOMAIN HeaderChecks
      BY <2>1, <3>1, MinIsLeast
    <3>3. HeaderChecks[Min(failed)] \in Codes
      BY <3>2, CodesType
    <3> QED BY <1>2, <1>3, <2>1, <3>3 DEF CheckHeader
  <2>2. CASE failed = {}
    BY <1>1, <1>3, <2>2 DEF CheckHeader, LoaderInv, LoaderTypeOK
  <2> QED BY <2>1, <2>2
<1>4. CASE SkipPhdr
  <2>1. LoaderTypeOK'
    BY <1>4 DEF SkipPhdr, LoaderInv, LoaderTypeOK, ImageType
  <2> QED BY <1>1, <1>4, <2>1 DEF SkipPhdr
<1>5. CASE LoadPhdr
  <2>1. image.phdrs[next] \in PhdrType
    BY <1>5 DEF LoadPhdr, LoaderInv, LoaderTypeOK, ImageType
  <2>2. CASE PhdrError(image.phdrs[next]) = "none"
    BY <1>5, <2>1, <2>2, LoadPhdrKeeps
  <2>3. CASE PhdrError(image.phdrs[next]) # "none"
    BY <1>2, <1>5, <2>3, CodesType DEF LoadPhdr
  <2> QED BY <2>2, <2>3
<1>6. CASE Finish
  <2>1. CASE segments = << >>
    BY <1>2, <1>6, <2>1 DEF Finish, Codes
  <2>2. CASE segments # << >>
    BY <1>1, <1>6, <2>2 DEF Finish, LoaderInv, LoaderTypeOK
  <2> QED BY <2>1, <2>2
<1>7. CASE UNCHANGED loaderVars
  BY <1>1, <1>7 DEF loaderVars, LoaderInv, LoaderTypeOK
<1> QED BY <1>3, <1>4, <1>5, <1>6, <1>7 DEF LoaderNext

(* The invariant holds initially. *)
LEMMA LoaderStart == LoaderInit => LoaderInv
<1> SUFFICES ASSUME LoaderInit PROVE LoaderInv
  OBVIOUS
<1>1. image \in ImageType /\ Len(image.phdrs) \in Nat
  BY ElfLoaderAssumption DEF LoaderInit, ImageType
<1> QED BY <1>1 DEF LoaderInit, LoaderInv, LoaderTypeOK, Codes, ClaimsInside,
                    SegmentsAreClaimed, SegmentsAreSound

(* The invariant is inductive. *)
LEMMA LoaderInvariant == LoaderSpec => []LoaderInv
BY LoaderStart, LoaderStep, PTL DEF LoaderSpec

(* Whatever the image says, the segments load_elf hands on lie in the file  *)
(* and in the address space, and no two of them meet.                       *)
THEOREM LoaderIsSound == LoaderSpec => []SegmentsAreSound
<1>1. LoaderInv => SegmentsAreSound
  BY DEF LoaderInv
<1> QED BY <1>1, LoaderInvariant, PTL

(* Every variable holds a value of its type, for every image.               *)
THEOREM LoaderTypeCorrect == LoaderSpec => []LoaderTypeOK
<1>1. LoaderInv => LoaderTypeOK
  BY DEF LoaderInv
<1> QED BY <1>1, LoaderInvariant, PTL

-----------------------------------------------------------------------------
(* The verdict.  The map must not claim what no segment has, nor the Vec    *)
(* hold what is no header: only then does a refusal come from the image.    *)

ClaimsAreSegments ==
    \A k \in DOMAIN claimed :
        \E i \in DOMAIN segments : /\ segments[i].vaddr = claimed[k].base
                                   /\ segments[i].memsz = claimed[k].size

(* The headers to load that the loop has read. *)
ReadHeaders == {i \in Loads : i < next}

PlaceOf(i) == Cardinality({j \in Loads : j <= i})

HeadersAreSegments ==
    /\ Len(segments) = Cardinality(ReadHeaders)
    /\ \A i \in ReadHeaders : /\ PlaceOf(i) \in DOMAIN segments
                              /\ segments[PlaceOf(i)] = image.phdrs[i]
    /\ \A k \in DOMAIN segments :
          \E i \in ReadHeaders : segments[k] = image.phdrs[i]

HeadersAreSound ==
    /\ \A i \in ReadHeaders : image.phdrs[i].memsz <= MaxVec
    /\ \A i, j \in ReadHeaders : i < j => ~Meet(image.phdrs[i], image.phdrs[j])

VerdictInv ==
    /\ LoaderInv
    /\ ClaimsAreSegments /\ HeadersAreSegments /\ HeadersAreSound
    /\ phase \in {"phdrs", "loaded"} => image.defects = {}
    /\ phase # "refused" => error = "none"

(* The headers to load are finitely many numbers. *)
LEMMA LoadsFacts ==
    ASSUME LoaderTypeOK
    PROVE  /\ image.phdrs \in Seq(PhdrType) /\ Len(image.phdrs) \in Nat
           /\ next \in Nat
           /\ Loads \in SUBSET (1 .. Len(image.phdrs))
           /\ IsFiniteSet(Loads) /\ IsFiniteSet(ReadHeaders)
           /\ Cardinality(ReadHeaders) \in Nat
           /\ \A i \in Loads : image.phdrs[i] \in PhdrType
<1>1. /\ image.phdrs \in Seq(PhdrType) /\ Len(image.phdrs) \in Nat
      /\ next \in Nat
  BY DEF LoaderTypeOK, ImageType
<1>2. Loads \in SUBSET (1 .. Len(image.phdrs))
  BY <1>1 DEF Loads
<1>3. \A i \in Loads : image.phdrs[i] \in PhdrType
  BY <1>1 DEF Loads
<1>4. IsFiniteSet(1 .. Len(image.phdrs))
  BY <1>1, FS_Interval
<1>5. IsFiniteSet(Loads)
  BY <1>2, <1>4, FS_Subset
<1>6. ReadHeaders \in SUBSET Loads
  BY DEF ReadHeaders
<1>7. IsFiniteSet(ReadHeaders) /\ Cardinality(ReadHeaders) \in Nat
  BY <1>5, <1>6, FS_Subset, FS_CardinalityType
<1> QED BY <1>1, <1>2, <1>3, <1>5, <1>7

(* Every segment in the Vec is the one of a header. *)
LEMMA SegmentFacts ==
    ASSUME LoaderTypeOK, NEW i \in DOMAIN segments
    PROVE  segments[i] \in PhdrType
BY DEF LoaderTypeOK

(* Neither a claim of the map nor a checked header has an end that wraps:   *)
(* the overlap test finds just what meets.                                  *)
LEMMA OverlapIsMeet ==
    ASSUME VerdictInv, NEW p \in PhdrType, ~Overflows(p.vaddr, p.memsz)
    PROVE  /\ InsertOutcome(claimed, p.vaddr, p.memsz) # "panic"
           /\ InsertOutcome(claimed, p.vaddr, p.memsz) = "overlap" =>
                  \E i \in DOMAIN segments : Meet(p, segments[i])
<1> USE RegionsAssumption
<1>1. p.vaddr + p.memsz < Space /\ Plus(p.vaddr, p.memsz) = p.vaddr + p.memsz
  BY PhdrFacts DEF Overflows, Plus
<1>2. ASSUME NEW k \in DOMAIN claimed
      PROVE  /\ claimed[k].base \in Nat /\ claimed[k].size \in Nat
             /\ claimed[k].size # 0
             /\ ~Overflows(claimed[k].base, claimed[k].size)
             /\ End(claimed[k]) = claimed[k].base + claimed[k].size
  <2>1. /\ claimed[k].base \in Nat /\ claimed[k].size \in Nat
        /\ claimed[k].size # 0
    BY ClaimFacts DEF VerdictInv, LoaderInv, Region
  <2>2. claimed[k].base + claimed[k].size < Space
    BY DEF VerdictInv, LoaderInv, ClaimsInside
  <2> QED BY <2>1, <2>2 DEF Overflows, End, Plus
<1>3. \A k \in DOMAIN claimed : ~OverlapsPanics(claimed[k], p.vaddr, p.memsz)
  BY <1>2 DEF OverlapsPanics
<1> DEFINE deciding == {k \in DOMAIN claimed :
                           \/ OverlapsPanics(claimed[k], p.vaddr, p.memsz)
                           \/ Overlaps(claimed[k], p.vaddr, p.memsz)}
<1>4. deciding # {} => Min(deciding) \in deciding
  <2>1. deciding \in SUBSET Nat
    BY DEF VerdictInv, LoaderInv, LoaderTypeOK
  <2> HIDE DEF deciding
  <2> QED BY <2>1, MinIsLeast
<1>5. InsertOutcome(claimed, p.vaddr, p.memsz) # "panic"
  BY <1>3, <1>4 DEF InsertOutcome
<1>6. ASSUME InsertOutcome(claimed, p.vaddr, p.memsz) = "overlap"
      PROVE  \E i \in DOMAIN segments : Meet(p, segments[i])
  <2>1. p.memsz # 0 /\ deciding # {}
    BY <1>6 DEF InsertOutcome
  <2>2. PICK k \in DOMAIN claimed : Overlaps(claimed[k], p.vaddr, p.memsz)
    BY <1>3, <2>1
  <2>3. PICK i \in DOMAIN segments : /\ segments[i].vaddr = claimed[k].base
                                     /\ segments[i].memsz = claimed[k].size
    BY DEF VerdictInv, ClaimsAreSegments
  <2>4. /\ claimed[k].base < p.vaddr + p.memsz
        /\ p.vaddr < claimed[k].base + claimed[k].size
    BY <1>1, <1>2, <2>2 DEF Overlaps
  <2> QED BY <1>2, <2>1, <2>3, <2>4, PhdrFacts DEF Meet
<1> QED BY <1>5, <1>6

(* The map after an insert holds the new region and the old ones only. *)
LEMMA InsertedElements ==
    ASSUME LoaderTypeOK, NEW p \in PhdrType,
           NEW new, new = Inserted(claimed, p.vaddr, p.memsz, p.flags)
    PROVE  \A k \in DOMAIN new :
              \/ new[k].base = p.vaddr /\ new[k].size = p.memsz
              \/ \E j \in DOMAIN claimed : new[k] = claimed[j]
<1>1. CASE p.memsz = 0
  BY <1>1 DEF Inserted
<1>2. CASE p.memsz # 0
  <2> DEFINE r == [base |-> p.vaddr, size |-> p.memsz, prot |-> p.flags]
             place == Place(claimed, p.vaddr)
  <2>1. claimed \in Seq(Region) /\ r \in Region /\ r.base = p.vaddr /\ r.size = p.memsz
    BY <1>2, PhdrFacts DEF Region, LoaderTypeOK
  <2>2. new = InsertAt(claimed, place, r)
    BY <1>2 DEF Inserted
  <2>3. place \in 0 .. Len(claimed)
    BY <2>1, ClaimFacts, PhdrFacts, PlaceIsBehindTheLast
  <2> HIDE DEF r, place
  <2>4. \A k \in DOMAIN new : new[k] = r \/ \E j \in DOMAIN claimed : new[k] = claimed[j]
    BY <2>1, <2>2, <2>3, InsertAtElements
  <2> QED BY <2>1, <2>4
<1> QED BY <1>1, <1>2

(* A header that fails the checks makes the image unacceptable. *)
LEMMA RefusedIsUnacceptable ==
    ASSUME VerdictInv, next \in Loads, PhdrError(image.phdrs[next]) # "none"
    PROVE  ~Acceptable
<1> DEFINE p == image.phdrs[next]
<1> SUFFICES ASSUME Acceptable PROVE FALSE
  OBVIOUS
<1>1. p \in PhdrType /\ next \in Nat
  BY LoadsFacts DEF VerdictInv, LoaderInv
<1>2. SoundSegment(p) /\ p.memsz <= MaxVec
  BY DEF Acceptable
<1>3. PhdrError(p) # "none"
  OBVIOUS
<1>4. \A h \in ReadHeaders : ~Meet(image.phdrs[h], p)
  BY DEF Acceptable, ReadHeaders
<1>5. image.len \in Nat
  BY RegionsAssumption DEF VerdictInv, LoaderInv, LoaderTypeOK, ImageType, Addresses
<1> HIDE DEF p
<1>6. /\ ~Overflows(p.vaddr, p.memsz)
      /\ ~(p.offset + p.filesz > image.len)
      /\ ~Overflows(p.offset, p.filesz)
      /\ ~(p.memsz > MaxVec) /\ ~(p.filesz > p.memsz)
  <2>1. image.len < Space
    BY RegionsAssumption DEF VerdictInv, LoaderInv, LoaderTypeOK, ImageType, Addresses
  <2> QED BY <1>1, <1>2, <1>5, <2>1, PhdrFacts, RegionsAssumption, ElfLoaderAssumption
          DEF SoundSegment, Overflows
<1>7. InsertOutcome(claimed, p.vaddr, p.memsz) = "overlap"
  <2>1. CopyError(p) = "none"
    <3>1. MaxVec \in Int /\ MaxVec < Space \div 2
      BY RegionsAssumption, ElfLoaderAssumption
    <3>2. ~(p.memsz >= Space \div 2)
      BY <1>1, <1>2, <3>1, PhdrFacts, RegionsAssumption
    <3> QED BY <1>6, <3>2 DEF CopyError
  <2> QED BY <1>1, <1>3, <1>6, <2>1, OverlapIsMeet DEF PhdrError
<1>8. PICK i \in DOMAIN segments : Meet(p, segments[i])
  BY <1>1, <1>6, <1>7, OverlapIsMeet
<1>9. PICK h \in ReadHeaders : segments[i] = image.phdrs[h]
  BY DEF VerdictInv, HeadersAreSegments
<1> QED BY <1>4, <1>8, <1>9 DEF Meet

(* Reading a header to load gives it the next place. *)
LEMMA ReadIsNext ==
    ASSUME VerdictInv, next \in Loads
    PROVE  /\ \A i \in Loads : i < next + 1 <=> i \in ReadHeaders \/ i = next
           /\ Cardinality({i \in Loads : i < next + 1}) = Len(segments) + 1
           /\ PlaceOf(next) = Len(segments) + 1
<1>1. /\ next \in Nat /\ Loads \in SUBSET Nat
      /\ IsFiniteSet(ReadHeaders)
  BY LoadsFacts DEF VerdictInv, LoaderInv
<1>2. /\ {i \in Loads : i < next + 1} = ReadHeaders \cup {next}
      /\ {i \in Loads : i <= next} = ReadHeaders \cup {next}
      /\ next \notin ReadHeaders
  <2>1. \A i \in Loads : i < next + 1 <=> i \in ReadHeaders \cup {next}
    BY <1>1 DEF ReadHeaders
  <2>2. \A i \in Loads : i <= next <=> i \in ReadHeaders \cup {next}
    BY <1>1 DEF ReadHeaders
  <2>3. ReadHeaders \cup {next} \subseteq Loads /\ next \notin ReadHeaders
    BY <1>1 DEF ReadHeaders
  <2> HIDE DEF ReadHeaders
  <2> QED BY <2>1, <2>2, <2>3
<1>3. Cardinality(ReadHeaders \cup {next}) = Len(segments) + 1
  BY <1>1, <1>2, FS_AddElement DEF VerdictInv, HeadersAreSegments
<1>4. \A i \in Loads : i < next + 1 <=> i \in ReadHeaders \/ i = next
  BY <1>1 DEF ReadHeaders
<1> QED BY <1>2, <1>3, <1>4 DEF PlaceOf

(* A header that is read keeps map, Vec and headers in step. *)
LEMMA LoadKeepsVerdict ==
    ASSUME VerdictInv, LoadPhdr, next \in Loads,
           PhdrError(image.phdrs[next]) = "none"
    PROVE  VerdictInv'
<1> DEFINE p == image.phdrs[next]
<1>1. /\ p \in PhdrType /\ next \in Nat
      /\ IsFiniteSet(ReadHeaders)
  BY LoadsFacts DEF VerdictInv, LoaderInv
<1>2. /\ claimed' = Inserted(claimed, p.vaddr, p.memsz, p.flags)
      /\ segments' = Append(segments, p)
      /\ next' = next + 1
      /\ UNCHANGED <<image, phase, error>>
      /\ phase = "phdrs"
  BY DEF LoadPhdr
<1>3. PhdrError(p) = "none" /\ p = image.phdrs[next]
  OBVIOUS
<1>4. LoaderInv'
  BY <1>1, <1>3, LoadPhdrKeeps DEF VerdictInv
<1> HIDE DEF p
<1>5. /\ Len(segments) \in Nat
      /\ DOMAIN segments = 1 .. Len(segments)
      /\ DOMAIN segments' = 1 .. Len(segments) + 1
      /\ Len(segments') = Len(segments) + 1
      /\ \A i \in DOMAIN segments : i \in DOMAIN segments' /\ segments'[i] = segments[i]
      /\ segments'[Len(segments) + 1] = p
  <2>1. segments \in Seq(PhdrType)
    BY DEF VerdictInv, LoaderInv, LoaderTypeOK
  <2> QED BY <1>1, <1>2, <2>1
<1>6. \A i \in DOMAIN segments' : i \in DOMAIN segments \/ i = Len(segments) + 1
  BY <1>5
<1>7. /\ Loads' = Loads
      /\ \A i : PlaceOf(i)' = PlaceOf(i)
      /\ \A i \in ReadHeaders' : i \in ReadHeaders \/ i = next
      /\ ReadHeaders' = {i \in Loads : i < next + 1}
      /\ next \in ReadHeaders'
      /\ \A i \in ReadHeaders : i \in ReadHeaders' /\ i < next
  <2>1. Loads' = Loads
    BY <1>2 DEF Loads
  <2>2. ReadHeaders' = {i \in Loads : i < next + 1}
    BY <1>2, <2>1 DEF ReadHeaders
  <2>3. \A i \in ReadHeaders : i \in Loads /\ i < next
    BY DEF ReadHeaders
  <2> QED BY <1>1, <2>1, <2>2, <2>3, ReadIsNext DEF PlaceOf
<1>8. HeadersAreSegments'
  <2>1. Len(segments') = Cardinality(ReadHeaders')
    BY <1>5, <1>7, ReadIsNext
  <2>2. ASSUME NEW i \in ReadHeaders'
        PROVE  PlaceOf(i)' \in DOMAIN segments' /\ segments'[PlaceOf(i)'] = image'.phdrs[i]
    <3>1. CASE i \in ReadHeaders
      <4>1. PlaceOf(i) \in DOMAIN segments /\ segments[PlaceOf(i)] = image.phdrs[i]
        BY <3>1 DEF VerdictInv, HeadersAreSegments
      <4> QED BY <1>2, <1>5, <1>7, <4>1
    <3>2. CASE i = next
      BY <1>2, <1>3, <1>5, <1>7, <3>2, ReadIsNext
    <3> QED BY <1>7, <3>1, <3>2
  <2>3. ASSUME NEW k \in DOMAIN segments'
        PROVE  \E i \in ReadHeaders' : segments'[k] = image'.phdrs[i]
    <3>1. CASE k \in DOMAIN segments
      <4>1. PICK i \in ReadHeaders : segments[k] = image.phdrs[i]
        BY <3>1 DEF VerdictInv, HeadersAreSegments
      <4> QED BY <1>2, <1>5, <1>7, <3>1, <4>1
    <3>2. CASE k = Len(segments) + 1
      BY <1>2, <1>3, <1>5, <1>7, <3>2
    <3> QED BY <1>6, <3>1, <3>2
  <2> QED BY <2>1, <2>2, <2>3 DEF HeadersAreSegments
<1>9. HeadersAreSound'
  <2>1. p.memsz <= MaxVec
    BY <1>1, <1>3, PhdrFacts, ElfLoaderAssumption DEF PhdrError, CopyError
  <2>2. \A i \in ReadHeaders : image.phdrs[i].memsz <= MaxVec
    BY DEF VerdictInv, HeadersAreSound
  <2>3. ASSUME NEW i \in ReadHeaders
        PROVE  ~Meet(image.phdrs[i], p)
    <3>1. PlaceOf(i) \in DOMAIN segments /\ segments[PlaceOf(i)] = image.phdrs[i]
      BY DEF VerdictInv, HeadersAreSegments
    <3> QED BY <1>1, <1>3, <3>1, CheckedMeetsNone DEF VerdictInv
  <2>4. \A i \in ReadHeaders' : image.phdrs[i].memsz <= MaxVec
    BY <1>3, <1>7, <2>1, <2>2
  <2>5. ASSUME NEW i \in ReadHeaders', NEW j \in ReadHeaders', i < j
        PROVE  ~Meet(image.phdrs[i], image.phdrs[j])
    <3>1. i \in ReadHeaders
      BY <1>1, <1>7, <2>5 DEF ReadHeaders
    <3>2. CASE j \in ReadHeaders
      BY <2>5, <3>1, <3>2 DEF VerdictInv, HeadersAreSound
    <3>3. CASE j = next
      BY <1>3, <2>3, <3>1, <3>3
    <3> QED BY <1>7, <3>2, <3>3
  <2>6. image' = image
    BY <1>2
  <2>7. /\ \A i \in ReadHeaders' : image'.phdrs[i].memsz <= MaxVec
        /\ \A i, j \in ReadHeaders' : i < j => ~Meet(image'.phdrs[i], image'.phdrs[j])
    BY <2>4, <2>5, <2>6
  <2> QED BY <2>7 DEF HeadersAreSound
<1>10. ClaimsAreSegments'
  <2> SUFFICES ASSUME NEW k \in DOMAIN claimed'
               PROVE  \E i \in DOMAIN segments' : /\ segments'[i].vaddr = claimed'[k].base
                                                  /\ segments'[i].memsz = claimed'[k].size
    BY DEF ClaimsAreSegments
  <2>1. \/ claimed'[k].base = p.vaddr /\ claimed'[k].size = p.memsz
        \/ \E j \in DOMAIN claimed : claimed'[k] = claimed[j]
    BY <1>1, <1>2, InsertedElements DEF VerdictInv, LoaderInv
  <2>2. CASE claimed'[k].base = p.vaddr /\ claimed'[k].size = p.memsz
    BY <1>5, <2>2
  <2>3. CASE \E j \in DOMAIN claimed : claimed'[k] = claimed[j]
    <3>1. PICK j \in DOMAIN claimed : claimed'[k] = claimed[j]
      BY <2>3
    <3>2. PICK i \in DOMAIN segments : /\ segments[i].vaddr = claimed[j].base
                                       /\ segments[i].memsz = claimed[j].size
      BY DEF VerdictInv, ClaimsAreSegments
    <3> QED BY <1>5, <3>1, <3>2
  <2> QED BY <2>1, <2>2, <2>3
<1> QED BY <1>2, <1>4, <1>8, <1>9, <1>10 DEF VerdictInv

(* Steps that leave segments, map and the headers read as they were. *)
LEMMA VerdictIsKept ==
    ASSUME VerdictInv, LoaderInv', UNCHANGED <<image, claimed, segments>>,
           ReadHeaders' = ReadHeaders,
           phase' \in {"phdrs", "loaded"} => image.defects = {},
           phase' # "refused" => error' = "none"
    PROVE  VerdictInv'
<1>1. \A i : PlaceOf(i)' = PlaceOf(i)
  BY DEF PlaceOf, Loads
<1>2. ClaimsAreSegments' /\ HeadersAreSound'
  BY DEF VerdictInv, ClaimsAreSegments, HeadersAreSound
<1>3. HeadersAreSegments'
  BY <1>1 DEF VerdictInv, HeadersAreSegments
<1> QED BY <1>2, <1>3 DEF VerdictInv

LEMMA VerdictStep == VerdictInv /\ [LoaderNext]_loaderVars => VerdictInv'
<1> SUFFICES ASSUME VerdictInv, [LoaderNext]_loaderVars PROVE VerdictInv'
  OBVIOUS
<1>1. LoaderInv'
  BY LoaderStep DEF VerdictInv
<1>2. ASSUME UNCHANGED <<image, next, claimed, segments>>,
             phase' \in {"phdrs", "loaded"} => image.defects = {},
             phase' # "refused" => error' = "none"
      PROVE  VerdictInv'
  <2>1. ReadHeaders' = ReadHeaders
    BY <1>2 DEF ReadHeaders, Loads
  <2> QED BY <1>1, <1>2, <2>1, VerdictIsKept
<1>3. ASSUME NEW code, Refuse(code) PROVE VerdictInv'
  BY <1>2, <1>3 DEF Refuse
<1>4. CASE CheckHeader
  <2> DEFINE failed == {i \in DOMAIN HeaderChecks : HeaderChecks[i] \in image.defects}
  <2>1. CASE failed # {}
    BY <1>3, <1>4, <2>1 DEF CheckHeader
  <2>2. CASE failed = {}
    <3>1. image.defects = {}
      BY <2>2 DEF VerdictInv, LoaderInv, LoaderTypeOK, ImageType
    <3> QED BY <1>2, <1>4, <2>2, <3>1 DEF CheckHeader, VerdictInv
  <2> QED BY <2>1, <2>2
<1>5. CASE SkipPhdr
  <2>1. /\ next \in Nat /\ Loads \in SUBSET Nat /\ next \notin Loads
        /\ next' = next + 1 /\ UNCHANGED <<image, phase, claimed, segments, error>>
    BY <1>5, LoadsFacts DEF SkipPhdr, Loads, VerdictInv, LoaderInv
  <2>2. Loads' = Loads
    BY <2>1 DEF Loads
  <2>3. \A i \in Loads : i < next' <=> i < next
    BY <2>1
  <2>4. ReadHeaders' = ReadHeaders
    <3> HIDE DEF Loads
    <3> QED BY <2>2, <2>3 DEF ReadHeaders
  <2> QED BY <1>1, <2>1, <2>4, VerdictIsKept DEF VerdictInv
<1>6. CASE LoadPhdr
  <2>1. next \in Loads
    BY <1>6, LoadsFacts DEF LoadPhdr, Loads, VerdictInv, LoaderInv, LoaderTypeOK
  <2>2. CASE PhdrError(image.phdrs[next]) = "none"
    BY <1>6, <2>1, <2>2, LoadKeepsVerdict
  <2>3. CASE PhdrError(image.phdrs[next]) # "none"
    BY <1>3, <1>6, <2>3 DEF LoadPhdr
  <2> QED BY <2>2, <2>3
<1>7. CASE Finish
  <2>1. CASE segments = << >>
    BY <1>3, <1>7, <2>1 DEF Finish
  <2>2. CASE segments # << >>
    BY <1>2, <1>7, <2>2 DEF Finish, VerdictInv
  <2> QED BY <2>1, <2>2
<1>8. CASE UNCHANGED loaderVars
  BY <1>2, <1>8 DEF loaderVars, VerdictInv
<1> QED BY <1>4, <1>5, <1>6, <1>7, <1>8 DEF LoaderNext

LEMMA VerdictStart == LoaderInit => VerdictInv
<1> SUFFICES ASSUME LoaderInit PROVE VerdictInv
  OBVIOUS
<1>1. LoaderInv
  BY LoaderStart
<1>2. ReadHeaders = {}
  <2>1. next = 1 /\ Loads \in SUBSET (1 .. Len(image.phdrs))
    BY <1>1, LoadsFacts DEF LoaderInit, LoaderInv
  <2>2. \A i \in Loads : ~(i < next)
    BY <2>1
  <2> QED BY <2>2 DEF ReadHeaders
<1>3. segments = << >> /\ claimed = << >> /\ phase = "header" /\ error = "none"
  BY DEF LoaderInit
<1>4. Cardinality(ReadHeaders) = 0
  BY <1>2, FS_EmptySet
<1> QED BY <1>1, <1>2, <1>3, <1>4
        DEF VerdictInv, ClaimsAreSegments, HeadersAreSegments, HeadersAreSound

LEMMA VerdictInvariant == LoaderSpec => []VerdictInv
BY VerdictStart, VerdictStep, PTL DEF LoaderSpec

(* What is accepted is acceptable, and handed on in the file's order. *)
LEMMA LoadedIsAcceptable ==
    ASSUME VerdictInv, next > Len(image.phdrs), segments # << >>,
           image.defects = {}
    PROVE  /\ Acceptable
           /\ Len(segments) = Cardinality(Loads)
           /\ \A i \in Loads : segments[PlaceOf(i)] = image.phdrs[i]
<1>1. ReadHeaders = Loads
  BY LoadsFacts DEF ReadHeaders, VerdictInv, LoaderInv
<1>2. Loads # {}
  <2>1. 1 \in DOMAIN segments
    <3>1. segments \in Seq(PhdrType)
      BY DEF VerdictInv, LoaderInv, LoaderTypeOK
    <3> QED BY <3>1
  <2> QED BY <1>1, <2>1 DEF VerdictInv, HeadersAreSegments
<1>3. \A i \in Loads : SoundSegment(image.phdrs[i])
  <2> TAKE i \in Loads
  <2>1. PlaceOf(i) \in DOMAIN segments /\ segments[PlaceOf(i)] = image.phdrs[i]
    BY <1>1 DEF VerdictInv, HeadersAreSegments
  <2> QED BY <2>1 DEF VerdictInv, LoaderInv, SegmentsAreSound
<1>4. Acceptable
  BY <1>1, <1>2, <1>3 DEF Acceptable, VerdictInv, HeadersAreSound
<1> QED BY <1>1, <1>4 DEF VerdictInv, HeadersAreSegments

(* load_elf accepts an image when, and only when, it is acceptable: every   *)
(* loadable header is sound, can be allocated and meets no other; and it    *)
(* hands on all of them in the order of the file.                           *)
THEOREM LoaderAcceptsExactly == LoaderSpec => []AcceptsExactly
<1>1. LoaderInit => AcceptsExactly
  BY DEF LoaderInit, AcceptsExactly
<1>2. VerdictInv /\ AcceptsExactly /\ [LoaderNext]_loaderVars => AcceptsExactly'
  <2> SUFFICES ASSUME VerdictInv, AcceptsExactly, [LoaderNext]_loaderVars
               PROVE  AcceptsExactly'
    OBVIOUS
  <2>1. ASSUME image' = image
        PROVE  (Acceptable' <=> Acceptable) /\ Loads' = Loads
    BY <2>1 DEF Acceptable, Loads, SoundSegment, Meet
  <2>2. ASSUME NEW code, Refuse(code), ~Acceptable PROVE AcceptsExactly'
    BY <2>1, <2>2 DEF Refuse, AcceptsExactly
  <2>3. ASSUME phase' \notin {"loaded", "refused"} PROVE AcceptsExactly'
    BY <2>3 DEF AcceptsExactly
  <2>4. CASE CheckHeader
    <3> DEFINE failed == {i \in DOMAIN HeaderChecks : HeaderChecks[i] \in image.defects}
    <3>1. CASE failed # {}
      <4>1. ~Acceptable
        BY <3>1 DEF Acceptable
      <4> QED BY <2>2, <2>4, <3>1, <4>1 DEF CheckHeader
    <3>2. CASE failed = {}
      BY <2>3, <2>4, <3>2 DEF CheckHeader
    <3> QED BY <3>1, <3>2
  <2>5. CASE SkipPhdr
    BY <2>3, <2>5 DEF SkipPhdr
  <2>6. CASE LoadPhdr
    <3>1. next \in Loads
      BY <2>6, LoadsFacts DEF LoadPhdr, Loads, VerdictInv, LoaderInv, LoaderTypeOK
    <3>2. CASE PhdrError(image.phdrs[next]) = "none"
      BY <2>3, <2>6, <3>2 DEF LoadPhdr
    <3>3. CASE PhdrError(image.phdrs[next]) # "none"
      BY <2>2, <2>6, <3>1, <3>3, RefusedIsUnacceptable DEF LoadPhdr
    <3> QED BY <3>2, <3>3
  <2>7. CASE Finish
    <3>1. CASE segments = << >>
      <4>1. ReadHeaders = Loads
        BY <2>7, LoadsFacts DEF Finish, ReadHeaders, VerdictInv, LoaderInv
      <4>2. Loads = {}
        BY <3>1, <4>1 DEF VerdictInv, HeadersAreSegments
      <4>3. ~Acceptable
        BY <4>2 DEF Acceptable
      <4> QED BY <2>2, <2>7, <3>1, <4>3 DEF Finish
    <3>2. CASE segments # << >>
      <4>1. /\ Acceptable
            /\ Len(segments) = Cardinality(Loads)
            /\ \A i \in Loads : segments[PlaceOf(i)] = image.phdrs[i]
        BY <2>7, <3>2, LoadedIsAcceptable DEF Finish, VerdictInv
      <4>2. phase' = "loaded" /\ image' = image /\ segments' = segments
        BY <2>7, <3>2 DEF Finish
      <4> QED BY <2>1, <4>1, <4>2 DEF AcceptsExactly, PlaceOf
    <3> QED BY <3>1, <3>2
  <2>8. CASE UNCHANGED loaderVars
    BY <2>1, <2>8 DEF loaderVars, AcceptsExactly
  <2> QED BY <2>4, <2>5, <2>6, <2>7, <2>8 DEF LoaderNext
<1> QED BY <1>1, <1>2, VerdictInvariant, PTL DEF LoaderSpec

-----------------------------------------------------------------------------
(* The blame. *)

(* Where the overlap test finds a region, the segment it is blamed on is    *)
(* met, and holds the first address of the header if any that is met does.  *)
LEMMA BlameIsMet ==
    ASSUME VerdictInv, NEW p \in PhdrType, PhdrError(p) = "E007"
    PROVE  LET met == {i \in DOMAIN segments : Meet(p, segments[i])}
               holding == {i \in met : segments[i].vaddr <= p.vaddr}
           IN  /\ met # {}
               /\ IF holding = {} THEN OverlapOther(p) = 0
                  ELSE \E i \in holding : OverlapOther(p) = segments[i].vaddr
<1> DEFINE met == {i \in DOMAIN segments : Meet(p, segments[i])}
           holding == {i \in met : segments[i].vaddr <= p.vaddr}
           hits == {k \in DOMAIN claimed :
                       Contains(claimed[k], p.vaddr) \/ p.vaddr = claimed[k].base}
<1>1. /\ ~Overflows(p.vaddr, p.memsz)
      /\ InsertOutcome(claimed, p.vaddr, p.memsz) = "overlap"
  BY DEF PhdrError, CopyError
<1>2. met # {}
  BY <1>1, OverlapIsMeet
<1>3. p.memsz # 0
  BY <1>1 DEF InsertOutcome
<1>4. ASSUME NEW k \in hits
      PROVE  \E i \in holding : segments[i].vaddr = claimed[k].base
  <2>1. PICK i \in DOMAIN segments : /\ segments[i].vaddr = claimed[k].base
                                     /\ segments[i].memsz = claimed[k].size
    BY DEF VerdictInv, ClaimsAreSegments
  <2>2. /\ claimed[k].base \in Nat /\ claimed[k].size \in Nat
        /\ claimed[k].size # 0
        /\ End(claimed[k]) = claimed[k].base + claimed[k].size
    <3>1. /\ claimed[k].base \in Nat /\ claimed[k].size \in Nat
          /\ claimed[k].size # 0
      BY ClaimFacts DEF VerdictInv, LoaderInv, Region
    <3>2. claimed[k].base + claimed[k].size < Space
      BY DEF VerdictInv, LoaderInv, ClaimsInside
    <3> QED BY <3>1, <3>2, RegionsAssumption DEF End, Plus
  <2>3. /\ claimed[k].base <= p.vaddr
        /\ p.vaddr < claimed[k].base + claimed[k].size
    BY <2>2, PhdrFacts DEF Contains
  <2>4. Meet(p, segments[i])
    BY <1>3, <2>1, <2>2, <2>3, PhdrFacts DEF Meet
  <2> QED BY <2>1, <2>3, <2>4
<1>5. ASSUME NEW i \in holding
      PROVE  hits # {}
  <2>1. /\ segments[i].memsz > 0 /\ segments[i].vaddr <= p.vaddr
        /\ p.vaddr < segments[i].vaddr + segments[i].memsz
    BY DEF Meet
  <2>2. segments[i] \in PhdrType
    BY SegmentFacts DEF VerdictInv, LoaderInv
  <2>3. PICK k \in DOMAIN claimed : /\ claimed[k].base = segments[i].vaddr
                                    /\ claimed[k].size = segments[i].memsz
    BY <2>1, <2>2, PhdrFacts DEF VerdictInv, LoaderInv, SegmentsAreClaimed
  <2>4. claimed[k].base + claimed[k].size < Space
    BY DEF VerdictInv, LoaderInv, ClaimsInside
  <2>5. End(claimed[k]) = claimed[k].base + claimed[k].size
    BY <2>2, <2>3, <2>4, PhdrFacts, RegionsAssumption DEF End, Plus
  <2>6. Contains(claimed[k], p.vaddr)
    BY <2>1, <2>3, <2>5 DEF Contains
  <2> QED BY <2>6
<1>6. hits # {} => Min(hits) \in hits
  <2>1. hits \in SUBSET Nat
    BY DEF VerdictInv, LoaderInv, LoaderTypeOK
  <2> HIDE DEF hits
  <2> QED BY <2>1, MinIsLeast
<1>7. OverlapOther(p) = IF hits = {} THEN 0 ELSE claimed[Min(hits)].base
  BY DEF OverlapOther
<1> HIDE DEF hits
<1>8. CASE hits = {}
  <2>1. holding = {}
    BY <1>5, <1>8
  <2> QED BY <1>2, <1>7, <1>8, <2>1
<1>9. CASE hits # {}
  <2>1. PICK i \in holding : segments[i].vaddr = claimed[Min(hits)].base
    BY <1>4, <1>6, <1>9
  <2> QED BY <1>2, <1>7, <1>9, <2>1
<1> QED BY <1>8, <1>9

(* E007 is reported only where segments meet, and the segment it blames is  *)
(* one of those met that hold the header's first address; where none does   *)
(* it blames address 0.                                                     *)
THEOREM BlamedIsMet == LoaderSpec => []CulpritIsMet
<1>1. LoaderInit => CulpritIsMet
  BY DEF LoaderInit, CulpritIsMet
<1>2. VerdictInv /\ CulpritIsMet /\ [LoaderNext]_loaderVars => CulpritIsMet'
  <2> SUFFICES ASSUME VerdictInv, CulpritIsMet, [LoaderNext]_loaderVars
               PROVE  CulpritIsMet'
    OBVIOUS
  <2>1. ASSUME error' # "E007" PROVE CulpritIsMet'
    BY <2>1 DEF CulpritIsMet
  <2>2. ASSUME NEW code, code # "E007", Refuse(code) PROVE CulpritIsMet'
    BY <2>1, <2>2 DEF Refuse
  <2>3. CASE CheckHeader
    <3> DEFINE failed == {i \in DOMAIN HeaderChecks : HeaderChecks[i] \in image.defects}
    <3>1. CASE failed # {}
      <4>1. failed \in SUBSET Nat
        BY DEF HeaderChecks
      <4>2. Min(failed) \in DOMAIN HeaderChecks
        BY <3>1, <4>1, MinIsLeast
      <4>3. HeaderChecks[Min(failed)] # "E007"
        BY <4>2 DEF HeaderChecks
      <4> QED BY <2>2, <2>3, <3>1, <4>3 DEF CheckHeader
    <3>2. CASE failed = {}
      BY <2>1, <2>3, <3>2 DEF CheckHeader, VerdictInv
    <3> QED BY <3>1, <3>2
  <2>4. CASE SkipPhdr
    BY <2>1, <2>4 DEF SkipPhdr, VerdictInv
  <2>5. CASE LoadPhdr
    <3> DEFINE p == image.phdrs[next]
    <3>1. p \in PhdrType
      BY <2>5, LoadsFacts DEF LoadPhdr, VerdictInv, LoaderInv, LoaderTypeOK
    <3>2. CASE PhdrError(p) = "none"
      BY <2>1, <2>5, <3>2 DEF LoadPhdr, VerdictInv
    <3>3. CASE PhdrError(p) \notin {"none", "E007"}
      BY <2>2, <2>5, <3>3 DEF LoadPhdr
    <3>4. CASE PhdrError(p) = "E007"
      <4>1. UNCHANGED <<image, next, claimed, segments>>
        BY <2>5, <3>4 DEF LoadPhdr, Refuse
      <4>2. OverlapOther(p)' = OverlapOther(p)
        BY <4>1 DEF OverlapOther
      <4> QED BY <3>1, <3>4, <4>1, <4>2, BlameIsMet DEF CulpritIsMet
    <3> QED BY <3>2, <3>3, <3>4
  <2>6. CASE Finish
    BY <2>1, <2>2, <2>6 DEF Finish, VerdictInv
  <2>7. CASE UNCHANGED loaderVars
    BY <2>7 DEF loaderVars, CulpritIsMet, OverlapOther
  <2> QED BY <2>3, <2>4, <2>5, <2>6, <2>7 DEF LoaderNext
<1> QED BY <1>1, <1>2, VerdictInvariant, PTL DEF LoaderSpec
=============================================================================
