------------------------------ MODULE TraceLog ------------------------------
(***************************************************************************)
(* What a trace sink promises: one log for all threads, to which the n-th  *)
(* call of a thread is appended once, in an order that keeps each thread's *)
(* own; and readers that between them take every entry once, oldest first. *)
(***************************************************************************)
EXTENDS Naturals, Sequences, FiniteSets

CONSTANT Recorders

VARIABLES
    log,    \* every entry ever made
    taken   \* how many of them readers have taken

vars == <<log, taken>>

Init == log = << >> /\ taken = 0

(* The calls of a thread are numbered from 1. *)
NextCall(t) == 1 + Cardinality({i \in DOMAIN log : log[i].by = t})

Enter(t) ==
    /\ log' = Append(log, [by |-> t, call |-> NextCall(t)])
    /\ UNCHANGED taken

Take ==
    /\ taken' = Len(log)
    /\ UNCHANGED log

Next == Take \/ \E t \in Recorders : Enter(t)

Spec == Init /\ [][Next]_vars
=============================================================================
