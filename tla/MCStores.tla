------------------------------ MODULE MCStores ------------------------------
(* An instance of Stores for TLC: two writers in each of the backends.       *)
EXTENDS Stores

CONSTANTS w1, w2

TwoWriters == {w1, w2}
AllBackends == {"inmemory", "sqlite", "redis", "vector", "hybrid"}
=============================================================================
