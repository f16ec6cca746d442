----------------------------- MODULE MCMasters -----------------------------
(* An instance of Masters for TLC: one node in each life of this master, one
   node of the peer's, a task of this master's and one of the peer's. *)
EXTENDS Masters, TLC

CONSTANTS c1, c2, p1, t1, t2, s1, s2

MCKinds == t1 :> "HttpRequest" @@ t2 :> "HttpRequest"
MCRoles == c1 :> "Worker" @@ c2 :> "Worker" @@ p1 :> "Worker"
MCLives == c1 :> 1 @@ c2 :> 2 @@ p1 :> 0
Story(l, out, in, ts, ss, b, f) ==
    [lives |-> l, calls |-> out, peerCalls |-> in, tasks |-> ts,
     savers |-> ss, late |-> b, failing |-> f]

\* A restart with two saves at once; a late node, and a restart, with one save
\* that may fail; exchanges begun by either side, or by both, the first also with
\* a save.
MCBounds == {Story(2, 0, 0, {t1},     {s1, s2}, FALSE, FALSE),
             Story(2, 0, 0, {t1},     {s1},     FALSE, TRUE),
             Story(1, 0, 0, {t1},     {s1},     TRUE,  TRUE),
             Story(1, 1, 0, {t2},     {s1},     FALSE, FALSE),
             Story(1, 1, 0, {t1, t2}, {},       FALSE, FALSE),
             Story(1, 0, 1, {t1, t2}, {},       FALSE, FALSE),
             Story(1, 1, 1, {t2},     {},       FALSE, FALSE)}

MCSym   == Permutations({s1, s2})
=============================================================================
