--------------------------- MODULE RequestService ---------------------------
(***************************************************************************)
(* What the subscribe and unsubscribe endpoints do for a client: it asks,  *)
(* and is answered once, either with an error for the whole request or     *)
(* with an outcome for each of its elements.  Startup, deferral, notifiers *)
(* and threads do not show.  Module Requests implements this.              *)
(***************************************************************************)
EXTENDS Integers, Sequences

CONSTANTS Requests, MaxSize, Codes

VARIABLES
    asked,    \* requests that have arrived
    answers   \* of each request: none or one

vars == <<asked, answers>>

Answer ==
    [error : {"BAD_INPUT", "INTERNAL_ERROR"}, results : {<<>>}] \cup
    [error : {"none"}, results : UNION {[1..n -> Codes] : n \in 1..MaxSize}]

Init ==
    /\ asked = {}
    /\ answers = [r \in Requests |-> <<>>]

Ask(r) ==
    /\ r \notin asked
    /\ asked' = asked \cup {r}
    /\ UNCHANGED answers

Reply(r) ==
    /\ r \in asked /\ answers[r] = <<>>
    /\ \E a \in Answer : answers' = [answers EXCEPT ![r] = <<a>>]
    /\ UNCHANGED asked

Next == \E r \in Requests : Ask(r) \/ Reply(r)

SafeSpec == Init /\ [][Next]_vars
=============================================================================
