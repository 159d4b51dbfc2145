----------------------------- MODULE MCWorkers -----------------------------
(* Loads of the worker threads for TLC. *)
EXTENDS Workers, TLC

MixedLoad == "request" :> 4 @@ "command" :> 3 @@ "reply" :> 2 @@ "refresh" :> 1

(* Four QUIC requests while the service nodes are refreshed. *)
QuicLoad == "request" :> 4 @@ "command" :> 0 @@ "reply" :> 0 @@ "refresh" :> 1
=============================================================================
