---------------------------- MODULE MCIntrospection ---------------------------
(* Two ways to ask for one scope, and a list of two; tokens granted expired, *)
(* below the margin and above it.                                             *)
EXTENDS ServiceTokens, TLC

CONSTANTS c1, c2, t1, t2, t3

ThreeTokens == Permutations({c1, c2}) \cup Permutations({t1, t2, t3})
Plain(name) == [name |-> name, padded |-> FALSE]
Padded(name) == [name |-> name, padded |-> TRUE]
Asked == {<<Plain("read")>>,
          <<Padded(""), Padded("read"), Plain("read")>>,
          <<Plain("write"), Padded("read")>>}
===============================================================================
