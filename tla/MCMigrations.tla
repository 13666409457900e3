--------------------------- MODULE MCMigrations ---------------------------
(* Migrations.tla with a server of an older build beside newer ones. *)
EXTENDS Migrations

CONSTANT old

MCKnows == [s \in Servers |-> IF s = old THEN 1..2 ELSE 1..3]
=============================================================================
