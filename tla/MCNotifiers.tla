---------------------------- MODULE MCNotifiers ----------------------------
(* A small instance of Notifiers for TLC. *)
EXTENDS Notifiers

CONSTANTS a1, h1, h2, r1, r2

ServiceOfPush == [p \in Pushes |-> IF p = a1 THEN "apns" ELSE "huawei"]
=============================================================================
