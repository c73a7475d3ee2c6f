---------------------------- MODULE MCInMemGuest ----------------------------
(***************************************************************************)
(* Neighbours, a gap, two regions of one base, a region inside another, an *)
(* empty one and one at the last of eight addresses, and ranges that start *)
(* before, in and behind them, cross up to three, or wrap to address 0.    *)
(***************************************************************************)
EXTENDS InMemGuestProperties

Map(b, n)   == [addr |-> b, len |-> n]
MCMaps   == {Map(0, 2), Map(2, 1), Map(2, 2), Map(3, 1), Map(7, 1), Map(1, 0)}
MCReads  == [addr : {0, 1, 3, 7}, len : {1, 3}] \cup {Map(1, 0), Map(0, 4)}

Store(a, d) == [addr |-> a, data |-> d]
MCWrites == {Store(0, <<1, 2, 1>>), Store(1, <<1>>), Store(1, <<1, 2, 1>>),
             Store(3, <<2>>), Store(7, <<1, 2>>)}
=============================================================================
