------------------------------ MODULE LogTally ------------------------------
(***************************************************************************)
(* Counting in a source's log.  A log is a sequence of rollup keys, one    *)
(* entry per DNS query: the key stands for (client_key, domain,            *)
(* bucket_hour), the primary key of query_rollups within one source.       *)
(***************************************************************************)
EXTENDS Integers, Sequences, FiniteSets

\* The positions a+1 .. b of log l that hold key k.
Hits(l, a, b, k) == {i \in (a + 1) .. b : l[i] = k}

\* How many of the entries a+1 .. b of log l carry key k: what apply_batch's
\* in-memory aggregation yields for k over that slice of events.
Tally(l, a, b, k) == Cardinality(Hits(l, a, b, k))
=============================================================================
