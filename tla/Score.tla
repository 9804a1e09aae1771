-------------------------------- MODULE Score --------------------------------
(***************************************************************************)
(* The privacy score (core/src/score.rs) in fixed point: a component is a  *)
(* number of Units of 1/Unit where the code has a float in 0 .. 1, and     *)
(* the weights are percentages.  The logarithm is a table, Chattiness[n]   *)
(* for log10(n + 1) / log10(5001), that never falls and saturates.         *)
(***************************************************************************)
EXTENDS Integers

CONSTANTS Chattiness,    \* Chattiness[n], in Units, for n queries
          ChattinessCap, \* queries beyond which the component is saturated
          EntityCap,     \* tracker entities that saturate their component
          CountryCap     \* countries that saturate their component

Unit == 10000

ASSUME ChattinessAssumption ==
    /\ ChattinessCap \in Nat
    /\ Chattiness \in [0 .. ChattinessCap -> 0 .. Unit]
    /\ \A n, k \in 0 .. ChattinessCap : n <= k => Chattiness[n] <= Chattiness[k]
ASSUME CapAssumption == {EntityCap, CountryCap} \subseteq Nat \ {0}

\* (x / cap).min(1.0)
Capped(x, cap) == IF x >= cap THEN Unit ELSE (x * Unit) \div cap

\* (log10(n + 1) / log10(cap + 1)).min(1.0)
Chatty(n) == IF n <= ChattinessCap THEN Chattiness[n] ELSE Unit

\* pct: round to a whole percentage.
Pct(x) == (x * 100 + Unit \div 2) \div Unit

\* Mutant of ScoreOf: the spread of entities is taken per query.
ScoreOfSpreadPerQuery(in) ==
    IF in.total = 0 THEN 0
    ELSE Pct((45 * Capped(in.trackerQueries, in.total)
              + 25 * Capped(in.entities, in.total)
              + 15 * Capped(in.countries, CountryCap)
              + 15 * Chatty(in.total)) \div 100)

\* score: the share of tracker queries, the spread over entities and over
\* countries, and the volume, blended; no traffic scores 0.
ScoreOf(in) ==
    IF in.total = 0 THEN 0
    ELSE Pct((45 * Capped(in.trackerQueries, in.total)
              + 25 * Capped(in.entities, EntityCap)
              + 15 * Capped(in.countries, CountryCap)
              + 15 * Chatty(in.total)) \div 100)
=============================================================================
