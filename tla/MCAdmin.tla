------------------------------- MODULE MCAdmin -------------------------------
(* A small instance of Admin for TLC: a configured vendor with two faces, a    *)
(* relay station with one face of its own name (Multi: with two), a key each.  *)
EXTENDS Admin, TLC

Registered == [d |-> {"d", "da"}, s |-> {"s"}]
Multi == [d |-> {"d"}, s |-> {"sa", "sb"}]
TheStation == {"s"}
TheKeys == {"kd", "ks"}
Owner == [kd |-> "d", ks |-> "s"]

All == Operations
Repair == {"reload"}

Symmetric == Permutations(Handlers \ {Last})
=============================================================================
