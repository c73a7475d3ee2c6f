----------------------------- MODULE InMemGuest -----------------------------
(***************************************************************************)
(* vkernel/mem.rs, the in-memory backend of GuestMemory: a BTreeMap from   *)
(* the bases of the regions to their bytes.  read and write walk their     *)
(* range region by region; both loops have the same control, Served here.  *)
(* A region's last address is base + length - 1, and nothing keeps regions *)
(* from reaching into one another.  u64 sums are those of Regions.         *)
(***************************************************************************)
EXTENDS Regions

CONSTANTS
    Maps,       \* arguments of map_anon: [addr, len]
    Reads,      \* arguments of read: [addr, len]
    Writes,     \* arguments of write: [addr, data]
    MaxBuffer   \* the longest buffer that can be allocated

ASSUME InMemGuestAssumption ==
    /\ Maps \subseteq [addr : Addresses, len : Addresses]
    /\ Reads \subseteq [addr : Addresses, len : Addresses]
    /\ Writes \subseteq [addr : Addresses, data : Seq(Nat)]
    /\ \A w \in Writes : Len(w.data) < Space
    /\ MaxBuffer \in Nat

VARIABLES
    bytes,    \* InMemGuest.bytes
    answer,   \* the last call's: "none", "ok", "fault", "panic"
    out       \* the bytes the last read returned

guestVars == <<bytes, answer, out>>

GuestInit == bytes = [b \in {} |-> << >>] /\ answer = "none" /\ out = << >>

-----------------------------------------------------------------------------
(* How many bytes each region holds: all that a lookup goes by. *)
Extents == [b \in DOMAIN bytes |-> Len(bytes[b])]

(* region and region_mut: the region with the largest base at or below the  *)
(* address, if it reaches that far.  At most one base.                      *)
Holder(lens, addr) ==
    LET below == {b \in DOMAIN lens : b <= addr}
    IN  {b \in below : /\ \A c \in below : c <= b
                       /\ addr - b < lens[b]}

(* One turn of the loop, d bytes served: the lookup serves as many bytes as *)
(* its region still holds, the cursor is advanced, on the last turn too,    *)
(* and `later' is what the turns from there on come to.                     *)
Turn(lens, addr, n, d, later) ==
    LET cursor == Plus(addr, d)
        base == CHOOSE b \in Holder(lens, cursor) : TRUE
        take == Min({n - d, lens[base] - (cursor - base)})
        here == [i \in 1 .. take |-> <<base, cursor - base + i>>]
        rest == later[d + take]
    IN  IF d = n THEN [cells |-> << >>, answer |-> "ok"]
        ELSE IF Holder(lens, cursor) = {} THEN [cells |-> << >>, answer |-> "fault"]
        ELSE IF OverflowChecks /\ Overflows(cursor, take)
          THEN [cells |-> here, answer |-> "panic"]
        ELSE [cells |-> here \o rest.cells, answer |-> rest.answer]

(* The regions and indices the n bytes from addr are found at, up to the    *)
(* first lookup that fails.                                                 *)
Served(addr, n) ==
    LET turn[d \in 0 .. n] == Turn(Extents, addr, n, d, turn) IN turn[0]

-----------------------------------------------------------------------------
(* InMemGuest::map_anon without its test: BTreeMap::insert replaces.         *)
MapAnon_Replacing(addr, len) ==
    /\ answer # "panic"
    /\ out' = << >>
    /\ answer' = IF len > MaxBuffer THEN "panic" ELSE "ok"
    /\ bytes' = IF answer' # "ok" THEN bytes
                ELSE [b \in DOMAIN bytes \cup {addr} |->
                         IF b = addr THEN [i \in 1 .. len |-> 0] ELSE bytes[b]]

(* InMemGuest::map_anon *)
MapAnon(addr, len) ==
    /\ answer # "panic"
    /\ out' = << >>
    /\ answer' = IF addr \in DOMAIN bytes THEN "fault"
                 ELSE IF len > MaxBuffer THEN "panic" ELSE "ok"
    /\ bytes' = IF answer' # "ok" THEN bytes
                ELSE [b \in DOMAIN bytes \cup {addr} |->
                         IF b = addr THEN [i \in 1 .. len |-> 0] ELSE bytes[b]]

(* The bytes found in the cells. *)
Fetched(cells) == [i \in DOMAIN cells |-> bytes[cells[i][1]][cells[i][2]]]

(* read where a failure hands out what was read before it. *)
Read_Partial(addr, len) ==
    LET got == Served(addr, len)
    IN  /\ answer # "panic"
        /\ answer' = IF len > MaxBuffer THEN "panic" ELSE got.answer
        /\ out' = Fetched(got.cells)
        /\ UNCHANGED bytes

(* InMemGuest::read *)
Read(addr, len) ==
    LET got == Served(addr, len)
    IN  /\ answer # "panic"
        /\ answer' = IF len > MaxBuffer THEN "panic" ELSE got.answer
        /\ out' = IF answer' # "ok" THEN << >>
                  ELSE Fetched(got.cells)
        /\ UNCHANGED bytes

(* Storing with data taken from its start again in every region. *)
Stored_Restarting(cells, data) ==
    [b \in DOMAIN bytes |->
        [k \in DOMAIN bytes[b] |->
            IF \E i \in DOMAIN cells : cells[i] = <<b, k>>
              THEN data[1 + Cardinality({i \in DOMAIN cells :
                                    cells[i][1] = b /\ cells[i][2] < k})]
              ELSE bytes[b][k]]]

(* The bytes with each of the cells set to its byte of data. *)
Stored(cells, data) ==
    [b \in DOMAIN bytes |->
        [k \in DOMAIN bytes[b] |->
            IF \E i \in DOMAIN cells : cells[i] = <<b, k>>
              THEN data[CHOOSE i \in DOMAIN cells : cells[i] = <<b, k>>]
              ELSE bytes[b][k]]]

(* InMemGuest::write: what was written before a failure stays written. *)
Write(addr, data) ==
    LET got == Served(addr, Len(data))
    IN  /\ answer # "panic"
        /\ answer' = got.answer
        /\ bytes' = Stored(got.cells, data)
        /\ out' = << >>

GuestNext ==
    \/ \E m \in Maps   : MapAnon(m.addr, m.len)
    \/ \E r \in Reads  : Read(r.addr, r.len)
    \/ \E w \in Writes : Write(w.addr, w.data)

GuestSpec == GuestInit /\ [][GuestNext]_guestVars
=============================================================================
