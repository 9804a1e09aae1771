----------------------------- MODULE ExactlyOnce -----------------------------
(***************************************************************************)
(* What ingestion promises (core/src/ingest.rs:5-13, ARCHITECTURE section  *)
(* 2.1): the tallies kept for a source are always those of a prefix of its *)
(* log.  The prefix grows by whole batches, never splits or repeats an     *)
(* entry, and can only shrink by falling back to a prefix that was saved   *)
(* earlier, in which case the tallies fall back with it.                   *)
(***************************************************************************)
EXTENDS Integers, Sequences

CONSTANTS Sources,  \* ids of the configured sources
          Keys,     \* rollup keys: (client, domain, hour)
          Tally(_, _, _, _)  \* Tally(l, a, b, k): how many of the entries
                             \* a+1 .. b of log l carry key k

VARIABLES log,    \* log[s]: the queries source s has logged, in order
          done,   \* done[s]: length of the prefix that has been counted
          tally,  \* tally[s][k]: queries counted for key k of source s
          saved   \* saved[s]: length of the prefix that survives a power loss

vars == <<log, done, tally, saved>>

TallyOf(l, n) == [k \in Keys |-> Tally(l, 0, n, k)]

Init == /\ log = [s \in Sources |-> <<>>]
        /\ done = [s \in Sources |-> 0]
        /\ tally = [s \in Sources |-> [k \in Keys |-> 0]]
        /\ saved = [s \in Sources |-> 0]

Query(s, k) == /\ log' = [log EXCEPT ![s] = Append(@, k)]
               /\ UNCHANGED <<done, tally, saved>>

\* A batch is counted: the prefix grows by at least one entry, at once.
Count(s) == /\ \E n \in (done[s] + 1) .. Len(log[s]) :
                 /\ done' = [done EXCEPT ![s] = n]
                 /\ tally' = [tally EXCEPT ![s] = TallyOf(log[s], n)]
            /\ UNCHANGED <<log, saved>>

\* The counted prefix of every source becomes the saved one.
Save == /\ saved' = done
        /\ UNCHANGED <<log, done, tally>>

\* Everything counted since the last save is undone, for all sources at once.
FallBack == /\ done' = saved
            /\ tally' = [s \in Sources |-> TallyOf(log[s], saved[s])]
            /\ UNCHANGED <<log, saved>>

Next == \/ \E s \in Sources : Count(s) \/ \E k \in Keys : Query(s, k)
        \/ Save
        \/ FallBack

Spec == Init /\ [][Next]_vars
=============================================================================
