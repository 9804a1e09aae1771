-------------------------------- MODULE Setup --------------------------------
(***************************************************************************)
(* The first-run setup: the wizard's form (ui/src/components/              *)
(* SetupWizard.tsx, setup.ts), the endpoints behind it (test_source,       *)
(* create_source and config of daemon/src/main.rs) and the rows they write *)
(* (save_source_config, set_home and get_home of store.rs), beside other   *)
(* clients of the same endpoints, lost answers and kills.                  *)
(*                                                                         *)
(* A form or a body is reduced to the server it names, credentials         *)
(* included, and a home to two coordinates.  Which id a saved source gets  *)
(* and how its loop starts is the matter of SourceRegistry.  A killed      *)
(* daemon is started again in the same step.                               *)
(***************************************************************************)
EXTENDS Naturals, Sequences

CONSTANTS Servers,         \* servers a form can name
          Valid,           \* those that accept the credentials given
          Coordinates,     \* coordinates in range
          Pairs,           \* pairs that are typed or posted
          MaxSubmissions   \* bound: POSTs to /api/sources

Blank == "blank"           \* a form that validateSource rejects
OutOfRange == "out of range"
Missing == "missing"       \* no such number in the body, no such row in meta
NoPair == <<Missing, Missing>>

ASSUME ServerAssumption == Valid \subseteq Servers /\ Blank \notin Servers
ASSUME PairAssumption ==
    /\ Coordinates \cap {OutOfRange, Missing} = {}
    /\ NoPair \in Pairs
    /\ Pairs \subseteq (Coordinates \cup {OutOfRange, Missing})
                          \X (Coordinates \cup {OutOfRange, Missing})

VARIABLES view,        \* what App renders: "app" or "wizard"
          reading,     \* GET /api/config of the page is under way
          form,        \* the form's server, or Blank
          test,        \* TestState: "idle", "testing", "ok" or "error"
          tests,       \* servers of the tests under way
          saving,      \* a submission of the form is under way
          submissions, \* the POSTs so far: [server, pair, page, pc, told]
          configs,     \* the submissions with a row in source_config
          homeRow,     \* <<home_lat, home_lon>> in meta
          cut          \* a set_home was cut short after its first statement

pageVars == <<view, reading, form, test, tests, saving>>
rows == <<configs, homeRow, cut>>
vars == <<pageVars, submissions, rows>>

Numbers == DOMAIN submissions

TypeOK ==
    /\ view \in {"app", "wizard"}
    /\ {reading, saving, cut} \subseteq BOOLEAN
    /\ form \in Servers \cup {Blank}
    /\ test \in {"idle", "testing", "ok", "error"}
    /\ tests \subseteq Servers
    /\ submissions \in Seq([server : Servers \cup {Blank}, pair : Pairs, page : BOOLEAN,
                            pc : {"probe", "save", "home", "answer", "done"},
                            told : {"waiting", "created", "failed", "lost"}])
    /\ configs \subseteq Numbers
    /\ homeRow \in (Coordinates \cup {Missing}) \X (Coordinates \cup {Missing})
-----------------------------------------------------------------------------
\* A fresh install, and a page that has just been opened.
Init ==
    /\ view = "app" /\ reading = TRUE
    /\ form = Blank /\ test = "idle" /\ tests = {} /\ saving = FALSE
    /\ submissions = <<>>
    /\ configs = {}
    /\ homeRow = NoPair
    /\ cut = FALSE

\* config: needs_setup counts the rows; no env source is set.
ConfigRead ==
    /\ reading
    /\ reading' = FALSE
    /\ view' = IF configs = {} THEN "wizard" ELSE "app"
    /\ UNCHANGED <<form, test, tests, saving, submissions, rows>>

\* The failure is ignored: what was rendered stays.
ConfigFails ==
    /\ reading
    /\ reading' = FALSE
    /\ UNCHANGED <<view, form, test, tests, saving, submissions, rows>>

\* An input changes, and dirty() resets the test; no input is ever disabled.
Edit(server) ==
    /\ view = "wizard"
    /\ form' = server
    /\ test' = "idle"
    /\ UNCHANGED <<view, reading, tests, saving, submissions, rows>>

RunTest ==
    /\ view = "wizard"
    /\ form # Blank /\ test # "testing"
    /\ test' = "testing"
    /\ tests' = tests \cup {form}
    /\ UNCHANGED <<view, reading, form, saving, submissions, rows>>

\* test_source answers, or cannot be reached; the form may have changed since.
TestAnswered(server) ==
    /\ server \in tests
    /\ tests' = tests \ {server}
    /\ \/ test' = "ok" /\ server \in Valid
       \/ test' = "error"
    /\ UNCHANGED <<view, reading, form, saving, submissions, rows>>

\* POST /api/sources.
Arrive(server, pair, page) ==
    /\ Len(submissions) < MaxSubmissions
    /\ submissions' = Append(submissions, [server |-> server, pair |-> pair, page |-> page,
                                           pc |-> "probe", told |-> "waiting"])

\* buildSourceBody: a home only when both coordinates are in range.
Sent(pair) == IF pair \in Coordinates \X Coordinates THEN pair ELSE NoPair

\* "Start" is pressed, with whatever the form holds now.
Submit(pair) ==
    /\ view = "wizard"
    /\ test = "ok" /\ ~saving
    /\ saving' = TRUE
    /\ Arrive(form, Sent(pair), TRUE)
    /\ UNCHANGED <<view, reading, form, test, tests, rows>>

\* Another page or a script posts a body of its own.
Post(server, pair) ==
    /\ Arrive(server, pair, FALSE)
    /\ UNCHANGED <<pageVars, rows>>
-----------------------------------------------------------------------------
\* Mutant of NotWaiting: saving is reset after an answer only.
NotWaitingIfAnswered(i, what) ==
    saving' = IF submissions[i].page /\ what # "lost" THEN FALSE ELSE saving

\* submit's finally block.
NotWaiting(i, what) == saving' = IF submissions[i].page THEN FALSE ELSE saving

\* The handler of a submission ends with an answer, if anyone waits for it.
Answer(i, what) ==
    /\ submissions' = [submissions EXCEPT
          ![i].pc = "done", ![i].told = IF @ = "waiting" THEN what ELSE @]
    /\ IF submissions[i].told = "waiting" THEN NotWaiting(i, what) ELSE UNCHANGED saving

\* The handler goes on, unless it was dropped while its job ran.
Continue(i, pc) ==
    /\ submissions' = [submissions EXCEPT
          ![i].pc = IF submissions[i].told = "waiting" THEN pc ELSE "done"]
    /\ UNCHANGED saving

\* Mutant of Probed: a source that the wizard has tested is not probed again.
ProbedByWizard(i) == submissions[i].page \/ submissions[i].server \in Valid

\* probe_source succeeds.
Probed(i) == submissions[i].server \in Valid

Probe(i) ==
    /\ submissions[i].pc = "probe"
    /\ \/ Probed(i) /\ Continue(i, "save")
       \/ Answer(i, "failed")
    /\ UNCHANGED <<view, reading, form, test, tests, rows>>

\* Mutant of Storable: the pair is stored as it comes.
StorableIfGiven(pair) == Missing \notin {pair[1], pair[2]}

\* "An out-of-range pair is ignored, not an error."
Storable(pair) == pair \in Coordinates \X Coordinates

\* save_source_config
Save(i) ==
    /\ submissions[i].pc = "save"
    /\ configs' = configs \cup {i}
    /\ Continue(i, IF Storable(submissions[i].pair) THEN "home" ELSE "answer")
    /\ UNCHANGED <<view, reading, form, test, tests, homeRow, cut>>

SaveFails(i) ==
    /\ submissions[i].pc = "save"
    /\ Answer(i, "failed")
    /\ UNCHANGED <<view, reading, form, test, tests, rows>>

\* Mutant of Written: the second statement repeats the first one's parameter.
WrittenTwice(pair) == <<pair[1], pair[1]>>

\* set_home: two statements under the mutex, each committed on its own.
Written(pair) == pair

SetHome(i) ==
    /\ submissions[i].pc = "home"
    /\ homeRow' = Written(submissions[i].pair)
    /\ cut' = FALSE
    /\ Continue(i, "answer")
    /\ UNCHANGED <<view, reading, form, test, tests, configs>>

\* The first statement alone, or none, took effect.
CutShort(i) ==
    \/ homeRow' = <<submissions[i].pair[1], homeRow[2]>> /\ cut' = TRUE
    \/ UNCHANGED <<homeRow, cut>>

\* Mutant of AfterHomeFails: the error is answered like the others.
AnswerHomeFailed(i) == Answer(i, "failed")

\* "persist home failed" is logged, no more.
AfterHomeFails(i) == Continue(i, "answer")

HomeFails(i) ==
    /\ submissions[i].pc = "home"
    /\ CutShort(i)
    /\ AfterHomeFails(i)
    /\ UNCHANGED <<view, reading, form, test, tests, configs>>

\* spawn_source, then 201; on it the wizard asks for the configuration again.
Created(i) ==
    /\ submissions[i].pc = "answer"
    /\ Answer(i, "created")
    /\ reading' = (reading \/ submissions[i].page)
    /\ UNCHANGED <<view, form, test, tests, rows>>

\* Where a handler is dropped: a job it has handed over still runs.
Dropped(pc) == IF pc \in {"save", "home"} THEN pc ELSE "done"

\* The connection breaks: the handler is dropped at its await.
Disconnect(i) ==
    /\ submissions[i].told = "waiting"
    /\ submissions' = [submissions EXCEPT ![i].told = "lost", ![i].pc = Dropped(@)]
    /\ NotWaiting(i, "lost")
    /\ UNCHANGED <<view, reading, form, test, tests, rows>>

\* The page is opened anew.
Reload ==
    /\ view' = "app" /\ reading' = TRUE
    /\ form' = Blank /\ test' = "idle" /\ tests' = {} /\ saving' = FALSE
    /\ submissions' = [i \in Numbers |->
          IF submissions[i].page /\ submissions[i].told = "waiting"
          THEN [submissions[i] EXCEPT !.told = "lost", !.pc = Dropped(@)]
          ELSE submissions[i]]
    /\ UNCHANGED rows

\* The daemon is killed, perhaps between the two statements of a set_home.
Restart ==
    /\ \/ \E i \in Numbers : submissions[i].pc = "home" /\ CutShort(i)
       \/ UNCHANGED <<homeRow, cut>>
    /\ submissions' = [i \in Numbers |->
          [submissions[i] EXCEPT !.pc = "done", !.told = IF @ = "waiting" THEN "lost" ELSE @]]
    /\ saving' = FALSE
    /\ UNCHANGED <<view, reading, form, test, tests, configs>>

Handle(i) == \/ Probe(i)
             \/ Save(i) \/ SaveFails(i)
             \/ SetHome(i) \/ HomeFails(i)
             \/ Created(i)

Next == \/ ConfigRead \/ ConfigFails
        \/ \E server \in Servers \cup {Blank} : Edit(server)
        \/ RunTest
        \/ \E server \in Servers : TestAnswered(server)
        \/ \E pair \in Pairs : Submit(pair)
        \/ \E server \in Servers, pair \in Pairs : Post(server, pair)
        \/ \E i \in Numbers : Handle(i) \/ Disconnect(i)
        \/ Reload
        \/ Restart

Spec == Init /\ [][Next]_vars

\* Every request to a source times out, so tests and handlers end.
FairSpec == /\ Spec
            /\ \A server \in Servers : WF_vars(TestAnswered(server))
            /\ \A i \in 1 .. MaxSubmissions : WF_vars(i \in Numbers /\ Handle(i))
-----------------------------------------------------------------------------
\* get_home: what is persisted, if it is complete and in range.
Persisted(row) == IF row \in Coordinates \X Coordinates THEN row ELSE NoPair

\* "Never persist a source we can't reach": whatever the form was green for,
\* every saved source has accepted its own credentials.
OnlyReachedIsSaved == \A i \in configs : submissions[i].server \in Valid

\* The home is a place somebody asked for: unless its last write was cut
\* short (which `cut` records), both coordinates come from one submission that
\* was saved, and none comes from a pair that was out of range or half-filled.
HomeIsOnePair ==
    ~cut /\ homeRow # NoPair =>
        \E i \in configs : submissions[i].pair = homeRow /\ Storable(homeRow)

\* Once a home is set, the origin never falls back to the environment's, not
\* even after a write that was cut short or a body that was out of range.
HomeStaysSet ==
    [][Persisted(homeRow) # NoPair => Persisted(homeRow') # NoPair]_vars

\* An error that the daemon answers with means that nothing was saved: it
\* answers 201 once the row is there, also when the home could not be stored.
\* So pressing "Start" again after an answered error saves no second source; an
\* answer that was lost also shows an error and may have saved the row.
FailedSavedNothing ==
    \A i \in Numbers : submissions[i].told = "failed" => i \notin configs

\* The form never hangs: a test and a submission come to an end, through
\* edits, lost answers and kills.
SpinnersEnd == /\ saving ~> ~saving
               /\ test = "testing" ~> test # "testing"
=============================================================================
