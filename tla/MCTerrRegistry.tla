---------------------------- MODULE MCTerrRegistry ----------------------------
(***************************************************************************)
(* Terr t1 has a direct tool and two servers, Terr t2 only a direct tool;  *)
(* client c3 is added on its own.  A server of t1 offers a name of t2, too.*)
(***************************************************************************)
EXTENDS TerrRegistry, TLC

CONSTANTS a, b, t1, t2, c1, c2, c3, here

TwoJobs   == {a, b}
TwoTerrs  == {t1, t2}
Servers   == {c1, c2, c3}
Tools_    == {"direct", "bridged", "bridged2", "plain", "other"}
MC_Mcps   == (t1 :> <<c1, c2>>) @@ (t2 :> <<>>)
MC_Own    == (t1 :> {"direct"}) @@ (t2 :> {"plain"})
MC_Serves == (c1 :> {"bridged"}) @@ (c2 :> {"bridged2", "plain"}) @@ (c3 :> {"other"})
===============================================================================
