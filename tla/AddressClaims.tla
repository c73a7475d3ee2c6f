--------------------------- MODULE AddressClaims ---------------------------
(***************************************************************************)
(* What a memory map promises: it keeps the set of addresses claimed so    *)
(* far; a request is granted when none of its addresses is claimed and     *)
(* refused when one is, and nothing is ever given up.  Where an address is *)
(* past the limit, the claims' or the request's, the map may abort.        *)
(***************************************************************************)
EXTENDS Naturals

CONSTANTS
    Requests,   \* sets of addresses
    Limit       \* the last address

VARIABLES claimed, answer

vars == <<claimed, answer>>

Init == claimed = {} /\ answer = "none"

Grant(addrs) ==
    /\ addrs \cap claimed = {}
    /\ claimed' = claimed \cup addrs
    /\ answer' = "ok"

Refuse(addrs) ==
    /\ addrs \cap claimed # {}
    /\ answer' = "overlap"
    /\ UNCHANGED claimed

Abort(addrs) ==
    /\ \E a \in addrs \cup claimed : a >= Limit
    /\ answer' = "abort"
    /\ UNCHANGED claimed

Request(addrs) == Grant(addrs) \/ Refuse(addrs) \/ Abort(addrs)

Next == \E addrs \in Requests : Request(addrs)

Spec == Init /\ [][Next]_vars
=============================================================================
