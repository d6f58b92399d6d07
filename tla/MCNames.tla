------------------------------- MODULE MCNames -------------------------------
(***************************************************************************)
(* Two migrations, with names and targets that differ or collide.          *)
(***************************************************************************)
EXTENDS Names

Two == {"web", "db"}

Apart      == [m \in Two |-> m]
Same       == [m \in Two |-> "prefix"]
OneTarget  == [m \in Two |-> <<m>>]
TwoTargets == [web |-> <<"web1", "web2">>, db |-> <<"db1", "db2">>]

=============================================================================
