-------------------------- MODULE MCCustomerVaults --------------------------
(* A small instance of CustomerVaults for TLC: one name is a prefix of the other. *)
EXTENDS CustomerVaults

CONSTANTS r1, r2, r3, short, long

Alike1 == {<<n, n>> : n \in {short, long}} \cup {<<short, long>>, <<long, short>>}
=============================================================================
