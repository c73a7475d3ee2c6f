------------------------ MODULE InMemGuestProperties ------------------------
(***************************************************************************)
(* What is asked of InMemGuest: that while its regions are kept apart it is *)
(* the byte memory the trait promises, and what holds where they are not.  *)
(***************************************************************************)
EXTENDS InMemGuest

(* Every variable holds a value of its type: a region is a buffer that      *)
(* could be allocated, and read's Result is bytes or an error, never both.  *)
TypeOK ==
    /\ DOMAIN bytes \subseteq Addresses
    /\ \A b \in DOMAIN bytes : /\ bytes[b] \in Seq(Nat)
                               /\ Len(bytes[b]) <= MaxBuffer
    /\ answer \in {"none", "ok", "fault", "panic"}
    /\ out \in Seq(Nat)
    /\ answer # "ok" => out = << >>

-----------------------------------------------------------------------------
(* The byte at each address of a region. *)
CellsOf(regions) ==
    LET covers(b, a) == b <= a /\ a < b + Len(regions[b])
    IN  [a \in {x \in Addresses : \E b \in DOMAIN regions : covers(b, x)} |->
            LET b == CHOOSE b \in DOMAIN regions : covers(b, a)
            IN  regions[b][a - b + 1]]

Memory == INSTANCE ByteMemory WITH cells <- CellsOf(bytes)

(* No region is empty, reaches into another, or to the last address.        *)
Apart(regions) ==
    /\ \A b \in DOMAIN regions :
          regions[b] # << >> /\ b + Len(regions[b]) < Space
    /\ \A b, c \in DOMAIN regions : b < c => b + Len(regions[b]) <= c

(* A length a buffer can have; an empty region holds no byte of the byte    *)
(* memory, but its base all the same.                                       *)
Fits(len) == len \in 1 .. MaxBuffer

(* The refinement, while regions are kept apart and end below the last      *)
(* address (behind it a range goes on at 0): no byte is lost or misplaced   *)
(* where a range crosses from one region into the next, and a range with a  *)
(* hole is refused.  Said of each call and the one it stands for.           *)
ImplementsByteMemory ==
    /\ Memory!Init
    /\ [][Apart(bytes) /\ Apart(bytes') =>
            /\ \A m \in Maps :
                  MapAnon(m.addr, m.len) /\ Fits(m.len) => Memory!MapAnon(m.addr, m.len)
            /\ \A r \in Reads :
                  Read(r.addr, r.len) /\ r.len <= MaxBuffer => Memory!Read(r.addr, r.len)
            /\ \A w \in Writes :
                  Write(w.addr, w.data) => Memory!Write(w.addr, w.data)]_guestVars

(* Whatever the layout, regions inside others and ranges that wrap behind   *)
(* the last address included: what an ok write was given is what a read of  *)
(* the same range then returns, and a byte that can be read elsewhere is    *)
(* what it was.                                                             *)
WrittenIsRead ==
    [][\A w \in Writes : answer' = "ok" /\ Write(w.addr, w.data) =>
          LET range == {Plus(w.addr, i - 1) : i \in DOMAIN w.data}
              got   == Served(w.addr, Len(w.data))
          IN  /\ got.answer = "ok" /\ Fetched(got.cells)' = w.data
              /\ \A a \in Addresses \ range :
                    LET cells == Served(a, 1).cells
                    IN  Fetched(cells)' = Fetched(cells)]_guestVars

(* map_anon refuses no more than an equal base, so a new region may hide    *)
(* bytes of an older one; it hides only those behind its base in a region   *)
(* that began in front of it, and every other byte is read as before.       *)
MapHidesOnlyInside ==
    [][\A m \in Maps : MapAnon(m.addr, m.len) =>
          \A a \in Addresses : \A b \in Holder(Extents, a) :
              \/ b < m.addr /\ m.addr <= a
              \/ Holder(Extents, a)' = {b} /\ bytes'[b] = bytes[b]]_guestVars
=============================================================================
