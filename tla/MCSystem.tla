------------------------------ MODULE MCSystem ------------------------------
(* Instances of System for TLC. *)
EXTENDS System, TLC

CONSTANTS n1, c1, c2, t1

MCConns   == {c1, c2}
MCConnsOf == n1 :> {c1, c2}
MCRole    == c1 :> "Worker" @@ c2 :> "Worker"
MCKind    == t1 :> "HttpRequest"
=============================================================================
