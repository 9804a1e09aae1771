---------------------------- MODULE MCIngestLoop -----------------------------
(* IngestLoop on a small instance: a source with more queries than a page   *)
(* holds and one with a single query, all of one rollup key.                *)
EXTENDS IngestLoop, TLC

CONSTANTS s1, s2, k1, c1, d1

MCClientOf == k1 :> c1
MCDomainOf == k1 :> d1
MCMaxLog == s1 :> 3 @@ s2 :> 1
=============================================================================
