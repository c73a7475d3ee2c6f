---------------------------- MODULE AddressSpace ----------------------------
(***************************************************************************)
(* From an image to a Vcpu that is ready to run, as python.rs drives it:   *)
(* load_elf (ElfLoader), Vcpu::new, map_elf, map_stack and                 *)
(* setup_initial_state; on a ready Vcpu the owner may still call           *)
(* map_memory and set_reg.                                                 *)
(*                                                                         *)
(* Three accounts are kept of the guest's memory: the MemoryMap `map', the *)
(* list `regions', and the memory of the engine, which is Unicorn's and    *)
(* modelled from its use: mem_map takes whole, free pages or fails, and    *)
(* may fail for want of memory; mem_write fails on an unmapped address, may*)
(* fail on a mapped one with a part of the bytes written, and ignores      *)
(* permissions; reg_write may fail.  The byte of the file at offset o is   *)
(* written o + 1.  Of the registers only rip and rsp are kept.             *)
(***************************************************************************)
EXTENDS ElfLoader

CONSTANTS
    PageSize,     \* PAGE_SIZE
    StackBase,    \* STACK_BASE
    StackSize,    \* STACK_SIZE
    FrameSize,    \* the 0x20 bytes setup_initial_state writes
    ExtraMaps,    \* arguments of the owner's map_memory: [base, size, rights]
    RegValues,    \* values of the owner's set_reg
    MaxExtra      \* bound: calls of map_memory and set_reg by the owner

ASSUME AddressSpaceAssumption ==
    /\ PageSize \in Nat \ {0} /\ Space % PageSize = 0
    /\ StackBase \in Nat /\ StackSize \in Nat /\ FrameSize \in 1 .. StackSize
    /\ StackBase + StackSize < Space
    /\ ExtraMaps \subseteq
           [base : Addresses, size : Addresses, rights : SUBSET {"r", "w", "x"}]
    /\ RegValues \subseteq Addresses
    /\ MaxExtra \in Nat

VARIABLES
    stage,     \* "loading", "engine", "segments", "stack", "frame", "ready",
               \* "failed"
    seg,       \* the segment the loop of map_elf has come to
    map,       \* Vcpu.map
    regions,   \* Vcpu.regions, [base, size]
    engine,    \* the engine's memory, from the mapped addresses to bytes
    access,    \* what the guest may do at each of them: of "r", "w", "x"
    rip, rsp,  \* two registers of the engine
    failure,   \* the last call's error: "none", "init" (E501), "overlap" and
               \* "engine" (E502), "regop" (E503), "panic"
    extra      \* calls of map_memory and set_reg by the owner

memory == <<engine, access>>
mapVars == <<map, regions, memory>>
spaceVars == <<loaderVars, stage, seg, mapVars, rip, rsp, failure, extra>>

SpaceInit ==
    /\ LoaderInit
    /\ stage = "loading" /\ seg = 1
    /\ map = << >> /\ regions = << >>
    /\ engine = [a \in {} |-> 0] /\ access = [a \in {} |-> {}]
    /\ rip = 0 /\ rsp = 0
    /\ failure = "none" /\ extra = 0

-----------------------------------------------------------------------------
(* Unicorn's memory. *)
Cells(base, size) == base .. base + size - 1

MemMapFits(base, size) ==
    /\ size > 0 /\ base % PageSize = 0 /\ size % PageSize = 0
    /\ base + size <= Space
    /\ Cells(base, size) \cap DOMAIN engine = {}

Zeroed(base, size) ==
    [a \in DOMAIN engine \cup Cells(base, size) |->
        IF a \in DOMAIN engine THEN engine[a] ELSE 0]

(* Memory with the file bytes of a segment at an address. *)
Written(cells, addr, p) ==
    [a \in DOMAIN cells |->
        IF a \in Cells(addr, p.filesz) THEN p.offset + (a - addr) + 1
        ELSE cells[a]]

(* mem_map with its rights, and what is written behind it. *)
MemMap(base, size, rights, contents) ==
    /\ engine' = contents
    /\ access' = [a \in DOMAIN contents |->
                     IF a \in Cells(base, size) THEN rights ELSE access[a]]

-----------------------------------------------------------------------------
(* Claimed in the map, mapped in the engine, copied and listed. *)
MapSucceeds(base, size, rights, contents) ==
    /\ failure' = "none"
    /\ MemMapFits(base, size)
    /\ MemMap(base, size, rights, contents)
    /\ regions' = Append(regions, [base |-> base, size |-> size])

(* The copy behind mem_map fails: the pages stay mapped and nothing lists   *)
(* them; `torn' are the contents the engine may be left with.               *)
CopyFails(base, size, rights, torn) ==
    /\ failure' = "engine"
    /\ MemMapFits(base, size)
    /\ \E contents \in torn : MemMap(base, size, rights, contents)
    /\ UNCHANGED regions

(* The common part without the claim. *)
MapRegion_NoClaim(base, size, prot, rights, contents, torn) ==
    /\ \/ MapSucceeds(base, size, rights, contents)
       \/ CopyFails(base, size, rights, torn)
       \/ failure' = "engine" /\ UNCHANGED <<regions, memory>>
    /\ UNCHANGED map

(* The common part with the region listed before the engine is asked. *)
MapRegion_ListFirst(base, size, prot, rights, contents, torn) ==
    /\ InsertOutcome(map, base, size) = "ok"
    /\ map' = Inserted(map, base, size, prot)
    /\ regions' = Append(regions, [base |-> base, size |-> size])
    /\ \/ /\ MemMapFits(base, size)
          /\ failure' = "none" /\ MemMap(base, size, rights, contents)
       \/ failure' = "engine" /\ UNCHANGED memory

(* The common part of map_elf and map_memory: claim in the map, map in the  *)
(* engine, copy (map_elf only: for map_memory `torn' is empty), list.  What *)
(* was done before a step that fails is not taken back.  `contents' is what *)
(* the engine holds afterwards.                                             *)
MapRegion(base, size, prot, rights, contents, torn) ==
    LET answer == InsertOutcome(map, base, size)
    IN  \/ answer # "ok" /\ failure' = answer /\ UNCHANGED mapVars
        \/ /\ answer = "ok"
           /\ map' = Inserted(map, base, size, prot)
           /\ \/ MapSucceeds(base, size, rights, contents)
              \/ CopyFails(base, size, rights, torn)
              \/ failure' = "engine" /\ UNCHANGED <<regions, memory>>

(* p_flags as the loader hands them on, with the bits of W and X swapped.   *)
RightsOf_Swapped(flags) ==
    {r \in {"r", "w", "x"} :
        (flags \div [r |-> 4, w |-> 1, x |-> 2][r]) % 2 = 1}

(* The engine's permissions for a segment's p_flags. *)
RightsOf(flags) ==
    {r \in {"r", "w", "x"} :
        (flags \div [r |-> 4, w |-> 2, x |-> 1][r]) % 2 = 1}

PageOf(addr) == addr - (addr % PageSize)

(* The pages of a segment: [start, size], sizes computed in u64. *)
PageStart(p) == PageOf(p.vaddr)
SegmentEnd(p) == IF p.filesz > p.memsz THEN Plus(p.vaddr, p.filesz)
                 ELSE Plus(p.vaddr, p.memsz)

PageSpan(p) ==
    (PageOf(Plus(SegmentEnd(p), PageSize - 1)) - PageStart(p)) % Space

RoundingPanics(p) == OverflowChecks /\ Overflows(SegmentEnd(p), PageSize - 1)

(* The file bytes of the segment, were they written at its first page. *)
SegmentContents_AtPage(p) ==
    Written(Zeroed(PageStart(p), PageSpan(p)), PageStart(p), p)

(* What the engine holds after mem_map and mem_write of a segment. *)
SegmentContents(p) == Written(Zeroed(PageStart(p), PageSpan(p)), p.vaddr, p)

(* What it may hold where mem_write has failed: less than all of the bytes. *)
SegmentTorn(p) ==
    {SegmentContents([p EXCEPT !.filesz = n]) : n \in 0 .. p.filesz - 1}

-----------------------------------------------------------------------------
(* load_elf, to its end. *)
Load ==
    /\ stage = "loading"
    /\ LoaderNext
    /\ stage' = CASE phase' = "loaded"  -> "engine"
                  [] phase' = "refused" -> "failed"
                  [] OTHER              -> "loading"
    /\ UNCHANGED <<seg, mapVars, rip, rsp, failure, extra>>

(* Vcpu::new: the engine or its hook may be refused. *)
NewVcpu ==
    /\ stage = "engine"
    /\ \/ stage' = "segments" /\ UNCHANGED failure
       \/ stage' = "failed" /\ failure' = "init"
    /\ UNCHANGED <<loaderVars, seg, mapVars, rip, rsp, extra>>

(* One turn of the loop of map_elf; an error leaves it. *)
MapSegment ==
    /\ stage = "segments" /\ seg <= Len(segments)
    /\ LET p == segments[seg]
       IN  IF RoundingPanics(p)
             THEN failure' = "panic" /\ UNCHANGED mapVars
             ELSE MapRegion(PageStart(p), PageSpan(p), p.flags,
                            RightsOf(p.flags), SegmentContents(p), SegmentTorn(p))
    /\ IF failure' = "none" THEN seg' = seg + 1 /\ UNCHANGED stage
       ELSE stage' = "failed" /\ UNCHANGED seg
    /\ UNCHANGED <<loaderVars, rip, rsp, extra>>

SegmentsMapped ==
    /\ stage = "segments" /\ seg > Len(segments)
    /\ stage' = "stack"
    /\ UNCHANGED <<loaderVars, seg, mapVars, rip, rsp, failure, extra>>

(* Vcpu::map_stack *)
MapStack ==
    /\ stage = "stack"
    /\ MapRegion(StackBase, StackSize, 0, {"r", "w"}, Zeroed(StackBase, StackSize), {})
    /\ stage' = IF failure' = "none" THEN "frame" ELSE "failed"
    /\ UNCHANGED <<loaderVars, seg, rip, rsp, extra>>

(* Vcpu::setup_initial_state: the frame at the top of the stack, then rsp,  *)
(* then rip; each write may fail.  The frame is zeros and so is the stack   *)
(* it goes to, so that it does not show how much of it was written.         *)
SetupInitialState ==
    LET argc_addr == StackBase + StackSize - FrameSize
        frame == Cells(argc_addr, FrameSize)
        cleared == [a \in DOMAIN engine |-> IF a \in frame THEN 0 ELSE engine[a]]
    IN  /\ stage = "frame"
        /\ \/ /\ stage' = "failed" /\ failure' = "regop"
              /\ \/ UNCHANGED <<engine, rsp>>
                 \/ /\ frame \subseteq DOMAIN engine
                    /\ engine' = cleared /\ rsp' \in {rsp, argc_addr}
              /\ UNCHANGED rip
           \/ /\ frame \subseteq DOMAIN engine
              /\ stage' = "ready" /\ UNCHANGED failure
              /\ engine' = cleared
              /\ rsp' = argc_addr /\ rip' = image.entry
        /\ UNCHANGED <<loaderVars, seg, map, regions, access, extra>>

(* Vcpu::map_memory, called by the owner of a ready Vcpu. *)
MapMemory(base, size, rights) ==
    /\ stage = "ready" /\ failure # "panic" /\ extra < MaxExtra
    /\ MapRegion(base, size, 0, rights, Zeroed(base, size), {})
    /\ extra' = extra + 1
    /\ UNCHANGED <<loaderVars, stage, seg, rip, rsp>>

(* Vcpu::set_reg, of the registers kept here. *)
SetReg(reg, value) ==
    /\ stage = "ready" /\ failure # "panic" /\ extra < MaxExtra
    /\ \/ reg = "rip" /\ rip' = value /\ UNCHANGED rsp /\ failure' = "none"
       \/ reg = "rsp" /\ rsp' = value /\ UNCHANGED rip /\ failure' = "none"
       \/ UNCHANGED <<rip, rsp>> /\ failure' = "regop"
    /\ extra' = extra + 1
    /\ UNCHANGED <<loaderVars, stage, seg, mapVars>>

SpaceNext ==
    \/ Load \/ NewVcpu \/ MapSegment \/ SegmentsMapped \/ MapStack
    \/ SetupInitialState
    \/ \E r \in ExtraMaps : MapMemory(r.base, r.size, r.rights)
    \/ \E reg \in {"rip", "rsp"}, value \in RegValues : SetReg(reg, value)

SpaceSpec == SpaceInit /\ [][SpaceNext]_spaceVars
=============================================================================
