----------------------------- MODULE Enrichment ------------------------------
(***************************************************************************)
(* enrich (core/src/enrich.rs): what a destination's name says about it,   *)
(* looked up in two tables that are compiled into a release of the daemon: *)
(* the entities by suffix, and the blocklist.                              *)
(*                                                                         *)
(* A name is the sequence of its labels, <<"ads", "tv", "com">>, once it   *)
(* is trimmed, in lower case and without trailing dots; a suffix of a name *)
(* ends it at a dot.  An entry's category is reduced to whether it is a    *)
(* tracking one (Category::is_tracking).                                   *)
(***************************************************************************)
EXTENDS Naturals, SequencesExt

CONSTANTS Releases,  \* the releases of the daemon
          Entities,  \* Entities[r]: entries [suffix, name, country, tracking]
          Blocklist  \* Blocklist[r]: the names on the blocklist

NoEntity == "no entity"
NoCountry == "no country"

ASSUME NameAssumption ==
    \A r \in Releases : /\ Blocklist[r] \subseteq Seq(STRING)
                        /\ \A e \in Entities[r] : e.suffix \in Seq(STRING)
\* max_by_key has one longest match: a table lists no suffix twice.
ASSUME SuffixAssumption ==
    \A r \in Releases : \A e, f \in Entities[r] : e.suffix = f.suffix => e = f

\* The last n labels of a name.
Parent(name, n) == SubSeq(name, Len(name) - n + 1, Len(name))

\* Mutant of OnBlocklist: the walk stops before it tries the last two labels.
OnBlocklistTooShort(r, name) ==
    LET walk[n \in 0 .. Len(name)] ==
            Parent(name, n) \in Blocklist[r] \/ (n > 3 /\ walk[n - 1])
    IN walk[Len(name)]

\* The name itself, then its parents while they have two labels.
OnBlocklist(r, name) ==
    LET walk[n \in 0 .. Len(name)] ==
            Parent(name, n) \in Blocklist[r] \/ (n > 2 /\ walk[n - 1])
    IN walk[Len(name)]

\* suffix_matches for every entry.
Matching(r, name) == {e \in Entities[r] : IsSuffix(e.suffix, name)}

\* Mutant of Best: the shortest suffix wins.
BestShortest(matching) ==
    CHOOSE e \in matching : \A f \in matching : Len(e.suffix) <= Len(f.suffix)

\* The longest suffix wins.
Best(matching) == CHOOSE e \in matching : \A f \in matching : Len(f.suffix) <= Len(e.suffix)

\* The row of a destination that is in no table.
Unknown == [entity |-> NoEntity, country |-> NoCountry, tracker |-> FALSE]

Enrich(r, name) ==
    IF Matching(r, name) = {}
    THEN [Unknown EXCEPT !.tracker = OnBlocklist(r, name)]
    ELSE LET best == Best(Matching(r, name))
         IN [entity |-> best.name, country |-> best.country,
             tracker |-> best.tracking \/ OnBlocklist(r, name)]
-----------------------------------------------------------------------------
\* The names whose enrichment is examined: those in the tables and what is
\* one label below them.
Examined ==
    LET listed == UNION {Blocklist[r] \cup {e.suffix : e \in Entities[r]} : r \in Releases}
        labels == UNION {ToSet(name) : name \in listed}
    IN listed \cup UNION {{<<l>> \o name : name \in listed} : l \in labels}

\* A subdomain is enriched like its parent, unless the table has an entry that
\* matches the subdomain alone, and then like that; and no subdomain of a
\* blocked domain (of two labels or more) escapes the blocklist.
Inherits(r, name) ==
    LET parent == Tail(name)
        own == {e \in Entities[r] : e.suffix = name}
        row == Enrich(r, name)
        source == IF own = {} THEN Enrich(r, parent)
                  ELSE LET e == CHOOSE e \in own : TRUE
                       IN [entity |-> e.name, country |-> e.country]
    IN /\ row.entity = source.entity
       /\ row.country = source.country
       /\ name \in Blocklist[r] => row.tracker
       /\ Len(parent) > 1 /\ OnBlocklist(r, parent) => row.tracker
=============================================================================
