-------------------------- MODULE MCConfiguration --------------------------
EXTENDS Configuration, TLC

CONSTANTS w, x, zero, one

\* A node may be called "0" or "1", which is also an index.
SmallNumeral == (zero :> 0) @@ (one :> 1)

Order == <<w, x, zero, one>>

\* Any number of links between each two of the nodes, in one order of these.
Pair(p) == <<Order[(p \div 4) + 1], Order[(p % 4) + 1]>>
LinkLists(k) ==
  {[i \in 1..k |-> Pair(f[i])] :
     f \in {g \in [1..k -> 0..15] : \A i \in 1..(k - 1) : g[i] <= g[i + 1]}}

\* k nodes, of which the first s are sources, the last possibly once more.
NodeLists(k, s) ==
  LET all == [i \in 1..k |-> [name |-> Order[i], type |-> IF i <= s THEN "source" ELSE "other"]]
  IN {all, Append(all, [name |-> Order[k], type |-> "source"])}

\* Four nodes with up to four links, and three nodes with links that may lead
\* to a fourth.
SmallFiles ==
  {[nodes |-> [i \in 1..4 |-> [name |-> Order[i], type |-> IF i <= s THEN "source" ELSE "other"]],
    links |-> ls] : s \in {1, 2}, ls \in UNION {LinkLists(k) : k \in 0..4}}
  \cup
  {[nodes |-> ns, links |-> ls] :
     ns \in UNION {NodeLists(3, s) : s \in 1..2},
     ls \in UNION {LinkLists(k) : k \in 0..2}}
=============================================================================
