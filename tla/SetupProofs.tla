----------------------------- MODULE SetupProofs ------------------------------
(***************************************************************************)
(* Theorems about Setup, for every set of servers, coordinates and pairs   *)
(* and any number of submissions: type correctness, what a saved source    *)
(* and a stored home go back to, what a failed submission leaves, and that *)
(* the form never waits for nothing.                                       *)
(***************************************************************************)
EXTENDS Setup, TLAPS

Submissions == [server : Servers \cup {Blank}, pair : Pairs, page : BOOLEAN,
                pc : {"probe", "save", "home", "answer", "done"},
                told : {"waiting", "created", "failed", "lost"}]

\* What a submission has achieved where its handler stands.
Progress(i) ==
    /\ submissions[i].pc = "save" => submissions[i].server \in Valid
    /\ submissions[i].pc = "home" => Storable(submissions[i].pair)
    /\ submissions[i].pc \in {"home", "answer"} => i \in configs
    /\ submissions[i].pc \in {"probe", "save"} => i \notin configs
    /\ submissions[i].told = "failed" => submissions[i].pc = "done" /\ i \notin configs

IInv == /\ TypeOK
        /\ \A i \in Numbers : Progress(i)
        /\ OnlyReachedIsSaved
        /\ HomeIsOnePair

\* A submission answers to the number it was given, and is a record.
LEMMA SubmissionType ==
    ASSUME TypeOK, NEW i \in Numbers
    PROVE  /\ submissions[i] \in Submissions
           /\ submissions \in Seq(Submissions)
<1>1. submissions \in Seq(Submissions)  BY DEF TypeOK, Submissions
<1> QED  BY <1>1 DEF Numbers

\* The initial state satisfies the inductive invariant.
LEMMA InitIInv == Init => IInv
<1> SUFFICES ASSUME Init PROVE IInv  OBVIOUS
<1> USE DEF Init
<1>1. Numbers = {}  BY DEF Numbers
<1>2. TypeOK
  <2>1. submissions \in Seq(Submissions)  OBVIOUS
  <2>2. homeRow \in (Coordinates \cup {Missing}) \X (Coordinates \cup {Missing})
    BY DEF NoPair
  <2>3. {reading, saving, cut} \subseteq BOOLEAN  OBVIOUS
  <2> QED  BY <2>1, <2>2, <2>3 DEF TypeOK, Submissions
<1>3. OnlyReachedIsSaved  BY DEF OnlyReachedIsSaved
<1>4. HomeIsOnePair  BY DEF HomeIsOnePair
<1> QED  BY <1>1, <1>2, <1>3, <1>4 DEF IInv
-----------------------------------------------------------------------------
\* One submission moves on to pc and told; nothing else of it changes.
Moved(i, pc, told) ==
    submissions' = [submissions EXCEPT ![i] =
        [server |-> submissions[i].server, pair |-> submissions[i].pair,
         page |-> submissions[i].page, pc |-> pc, told |-> told]]

\* No submission is forgotten, and each still asks for what it asked for.
Kept ==
    /\ submissions' \in Seq(Submissions)
    /\ Numbers \subseteq Numbers'
    /\ \A j \in Numbers : /\ submissions'[j].server = submissions[j].server
                          /\ submissions'[j].pair = submissions[j].pair

LEMMA MovedKeeps ==
    ASSUME TypeOK, NEW i \in Numbers,
           NEW pc \in {"probe", "save", "home", "answer", "done"},
           NEW told \in {"waiting", "created", "failed", "lost"},
           Moved(i, pc, told)
    PROVE  /\ Kept
           /\ Numbers' = Numbers
           /\ \A j \in Numbers \ {i} : submissions'[j] = submissions[j]
           /\ submissions'[i].pc = pc /\ submissions'[i].told = told
           /\ submissions'[i].page = submissions[i].page
<1> DEFINE s == [server |-> submissions[i].server, pair |-> submissions[i].pair,
                 page |-> submissions[i].page, pc |-> pc, told |-> told]
<1>1. submissions \in Seq(Submissions) /\ submissions[i] \in Submissions
  BY SubmissionType
<1>2. s \in Submissions  BY <1>1 DEF Submissions
<1>3. submissions' = [submissions EXCEPT ![i] = s]  BY DEF Moved
<1> HIDE DEF s
<1>4. submissions' \in Seq(Submissions) /\ Numbers' = Numbers
  BY <1>1, <1>2, <1>3 DEF Numbers
<1>5. \A j \in Numbers \ {i} : submissions'[j] = submissions[j]
  BY <1>1, <1>3 DEF Numbers
<1>6. submissions'[i] = s  BY <1>1, <1>3 DEF Numbers
<1>7. /\ submissions'[i].server = submissions[i].server
      /\ submissions'[i].pair = submissions[i].pair
      /\ submissions'[i].pc = pc /\ submissions'[i].told = told
      /\ submissions'[i].page = submissions[i].page
  BY <1>6 DEF s
<1> QED  BY <1>4, <1>5, <1>7 DEF Kept

\* An answered submission is done; whoever had gone away stays told so.
LEMMA AnswerMoves ==
    ASSUME TypeOK, NEW i \in Numbers, NEW what, Answer(i, what)
    PROVE  /\ Moved(i, "done", IF submissions[i].told = "waiting" THEN what
                               ELSE submissions[i].told)
           /\ saving' \in BOOLEAN
<1>1. submissions \in Seq(Submissions) /\ submissions[i] \in Submissions
  BY SubmissionType
<1>2. submissions' = [submissions EXCEPT
          ![i].pc = "done", ![i].told = IF @ = "waiting" THEN what ELSE @]
  BY DEF Answer
<1> DEFINE told == IF submissions[i].told = "waiting" THEN what ELSE submissions[i].told
<1> HIDE DEF told
<1>3. submissions' = [submissions EXCEPT ![i] = [submissions[i] EXCEPT !.pc = "done", !.told = told]]
  BY <1>1, <1>2 DEF told, Submissions
<1>4. [submissions[i] EXCEPT !.pc = "done", !.told = told]
        = [server |-> submissions[i].server, pair |-> submissions[i].pair,
           page |-> submissions[i].page, pc |-> "done", told |-> told]
  <2>1. [submissions[i] EXCEPT !.pc = "done"]
          = [server |-> submissions[i].server, pair |-> submissions[i].pair,
             page |-> submissions[i].page, pc |-> "done", told |-> submissions[i].told]
    BY <1>1 DEF Submissions
  <2>2. [submissions[i] EXCEPT !.pc = "done", !.told = told]
          = [[submissions[i] EXCEPT !.pc = "done"] EXCEPT !.told = told]
    OBVIOUS
  <2>3. [[server |-> submissions[i].server, pair |-> submissions[i].pair,
          page |-> submissions[i].page, pc |-> "done", told |-> submissions[i].told]
            EXCEPT !.told = told]
          = [server |-> submissions[i].server, pair |-> submissions[i].pair,
             page |-> submissions[i].page, pc |-> "done", told |-> told]
    OBVIOUS
  <2> QED  BY <2>1, <2>2, <2>3, Zenon
<1>5. Moved(i, "done", told)
  BY <1>3, <1>4 DEF Moved
<1>6. saving' \in BOOLEAN  BY DEF Answer, NotWaiting, TypeOK
<1> QED  BY <1>5, <1>6 DEF told

\* A submission goes on as far as someone waits for it.
LEMMA ContinueMoves ==
    ASSUME TypeOK, NEW i \in Numbers, NEW pc, Continue(i, pc)
    PROVE  /\ Moved(i, IF submissions[i].told = "waiting" THEN pc ELSE "done",
                    submissions[i].told)
           /\ saving' = saving
<1>1. submissions \in Seq(Submissions) /\ submissions[i] \in Submissions
  BY SubmissionType
<1>2. submissions' = [submissions EXCEPT
          ![i].pc = IF submissions[i].told = "waiting" THEN pc ELSE "done"]
  BY DEF Continue
<1> DEFINE at == IF submissions[i].told = "waiting" THEN pc ELSE "done"
<1> HIDE DEF at
<1>3. submissions' = [submissions EXCEPT ![i] = [submissions[i] EXCEPT !.pc = at]]
  BY <1>1, <1>2 DEF at, Submissions
<1>4. [submissions[i] EXCEPT !.pc = at]
        = [server |-> submissions[i].server, pair |-> submissions[i].pair,
           page |-> submissions[i].page, pc |-> at, told |-> submissions[i].told]
  BY <1>1 DEF Submissions
<1>5. Moved(i, at, submissions[i].told)  BY <1>3, <1>4 DEF Moved
<1> QED  BY <1>5 DEF at, Continue

\* A dropped handler moves to where its job, if it has one, goes on.
LEMMA DisconnectMoves ==
    ASSUME TypeOK, NEW i \in Numbers, Disconnect(i)
    PROVE  /\ Moved(i, Dropped(submissions[i].pc), "lost")
           /\ saving' \in BOOLEAN
<1>1. submissions \in Seq(Submissions) /\ submissions[i] \in Submissions
  BY SubmissionType
<1> DEFINE at == Dropped(submissions[i].pc)
<1>2. submissions' = [submissions EXCEPT ![i].told = "lost", ![i].pc = at]
  BY <1>1 DEF Disconnect, Submissions
<1> HIDE DEF at
<1>3. submissions' = [submissions EXCEPT ![i] = [submissions[i] EXCEPT !.told = "lost", !.pc = at]]
  BY <1>1, <1>2 DEF Submissions
<1>4. [submissions[i] EXCEPT !.told = "lost", !.pc = at]
        = [server |-> submissions[i].server, pair |-> submissions[i].pair,
           page |-> submissions[i].page, pc |-> at, told |-> "lost"]
  <2>1. [submissions[i] EXCEPT !.told = "lost"]
          = [server |-> submissions[i].server, pair |-> submissions[i].pair,
             page |-> submissions[i].page, pc |-> submissions[i].pc, told |-> "lost"]
    BY <1>1 DEF Submissions
  <2>2. [submissions[i] EXCEPT !.told = "lost", !.pc = at]
          = [[submissions[i] EXCEPT !.told = "lost"] EXCEPT !.pc = at]
    OBVIOUS
  <2>3. [[server |-> submissions[i].server, pair |-> submissions[i].pair,
          page |-> submissions[i].page, pc |-> submissions[i].pc, told |-> "lost"]
            EXCEPT !.pc = at]
          = [server |-> submissions[i].server, pair |-> submissions[i].pair,
             page |-> submissions[i].page, pc |-> at, told |-> "lost"]
    OBVIOUS
  <2> QED  BY <2>1, <2>2, <2>3, Zenon
<1>5. saving' \in BOOLEAN  BY DEF Disconnect, NotWaiting, TypeOK
<1> QED  BY <1>3, <1>4, <1>5 DEF at, Moved
-----------------------------------------------------------------------------
\* A home of one saved submission stays one as long as rows are only added.
LEMMA HomeKept ==
    ASSUME IInv, Kept, configs \subseteq configs',
           \/ homeRow' = homeRow /\ cut' = cut
           \/ cut' = TRUE
           \/ \E i \in configs : homeRow' = submissions[i].pair /\ Storable(homeRow')
    PROVE  HomeIsOnePair'
<1>1. configs \subseteq Numbers  BY DEF IInv, TypeOK
<1>2. SUFFICES ASSUME ~cut', homeRow' # NoPair
               PROVE  \E i \in configs' : submissions'[i].pair = homeRow' /\ Storable(homeRow')
  BY DEF HomeIsOnePair, Storable
<1>3. \E i \in configs : submissions[i].pair = homeRow' /\ Storable(homeRow')
  BY <1>2 DEF IInv, HomeIsOnePair
<1> QED  BY <1>1, <1>3 DEF Kept

\* The statements of set_home that took effect leave a well-typed row, which
\* is the old one, the new one or known to be cut short.
LEMMA CutShortHome ==
    ASSUME TypeOK, NEW i \in Numbers, Storable(submissions[i].pair), CutShort(i)
    PROVE  /\ homeRow' \in (Coordinates \cup {Missing}) \X (Coordinates \cup {Missing})
           /\ cut' \in BOOLEAN
           /\ (homeRow' = homeRow /\ cut' = cut) \/ cut' = TRUE
           /\ homeRow \in Coordinates \X Coordinates => homeRow' \in Coordinates \X Coordinates
<1>1. cut \in BOOLEAN  BY DEF TypeOK
<1>2. homeRow \in (Coordinates \cup {Missing}) \X (Coordinates \cup {Missing})
  BY DEF TypeOK
<1>3. submissions[i].pair \in Coordinates \X Coordinates  BY DEF Storable
<1>4. CASE homeRow' = <<submissions[i].pair[1], homeRow[2]>> /\ cut' = TRUE
  BY <1>2, <1>3, <1>4
<1>5. CASE UNCHANGED <<homeRow, cut>>  BY <1>1, <1>2, <1>5
<1> QED  BY <1>4, <1>5 DEF CutShort

\* When one submission moves on, the progress of all and the rows saved so
\* far are sound, if its own are.
LEMMA MovedSafely ==
    ASSUME IInv, NEW i \in Numbers,
           NEW pc \in {"probe", "save", "home", "answer", "done"},
           NEW told \in {"waiting", "created", "failed", "lost"},
           Moved(i, pc, told),
           configs' \in {configs, configs \cup {i}},
           i \in configs' => submissions[i].server \in Valid,
           Progress(i)'
    PROVE  /\ Kept
           /\ configs \subseteq configs' /\ configs' \subseteq Numbers'
           /\ \A j \in Numbers' : Progress(j)'
           /\ OnlyReachedIsSaved'
<1>1. /\ Kept
      /\ Numbers' = Numbers
      /\ \A j \in Numbers \ {i} : submissions'[j] = submissions[j]
  BY MovedKeeps DEF IInv
<1>2. configs \subseteq Numbers  BY DEF IInv, TypeOK
<1>3. ASSUME NEW j \in Numbers \ {i} PROVE Progress(j)'
  <2>1. Progress(j)  BY DEF IInv
  <2>2. submissions'[j] = submissions[j] /\ (j \in configs' <=> j \in configs)
    BY <1>1
  <2> QED  BY <2>1, <2>2 DEF Progress, Storable
<1>4. OnlyReachedIsSaved'
  BY <1>1, <1>2 DEF IInv, OnlyReachedIsSaved, Kept
<1> QED  BY <1>1, <1>2, <1>3, <1>4
-----------------------------------------------------------------------------
\* The steps of a handler, and its end when the connection breaks.
LEMMA HandlerIInv ==
    ASSUME IInv, NEW i \in Numbers, Handle(i) \/ Disconnect(i)
    PROVE  IInv'
<1> USE DEF IInv
<1>1. /\ submissions[i] \in Submissions
      /\ Progress(i)
      /\ configs \subseteq Numbers
  BY SubmissionType DEF TypeOK
<1> DEFINE told(what) == IF submissions[i].told = "waiting" THEN what ELSE submissions[i].told
           at(pc) == IF submissions[i].told = "waiting" THEN pc ELSE "done"
<1>2. /\ at("save") \in {"save", "done"}
      /\ at("home") \in {"home", "done"}
      /\ at("answer") \in {"answer", "done"}
      /\ told("failed") \in {"waiting", "created", "failed", "lost"}
      /\ told("created") \in {"waiting", "created", "failed", "lost"}
      /\ submissions[i].told \in {"waiting", "created", "failed", "lost"}
  BY <1>1 DEF Submissions
\* It is enough to place i and to keep the home; the page is typed.
<1>3. ASSUME NEW pc \in {"probe", "save", "home", "answer", "done"},
             NEW t \in {"waiting", "created", "failed", "lost"},
             Moved(i, pc, t),
             configs' \in {configs, configs \cup {i}},
             i \in configs' => submissions[i].server \in Valid,
             Progress(i)',
             saving' \in BOOLEAN, reading' \in BOOLEAN,
             UNCHANGED <<view, form, test, tests>>,
             homeRow' \in (Coordinates \cup {Missing}) \X (Coordinates \cup {Missing}),
             cut' \in BOOLEAN,
             \/ homeRow' = homeRow /\ cut' = cut
             \/ cut' = TRUE
             \/ \E j \in configs : homeRow' = submissions[j].pair /\ Storable(homeRow')
      PROVE  IInv'
  <2>1. /\ Kept
        /\ configs \subseteq configs' /\ configs' \subseteq Numbers'
        /\ \A j \in Numbers' : Progress(j)'
        /\ OnlyReachedIsSaved'
    BY <1>3, MovedSafely
  <2>2. HomeIsOnePair'  BY <1>3, <2>1, HomeKept
  <2>3. TypeOK'
    <3>1. view' = view /\ form' = form /\ test' = test /\ tests' = tests  BY <1>3
    <3>2. {reading', saving', cut'} \subseteq BOOLEAN  BY <1>3
    <3> QED  BY <1>3, <2>1, <3>1, <3>2 DEF TypeOK, Kept, Submissions
  <2> QED  BY <2>1, <2>2, <2>3
<1>4. ASSUME UNCHANGED <<homeRow, cut>>
      PROVE  /\ homeRow' \in (Coordinates \cup {Missing}) \X (Coordinates \cup {Missing})
             /\ cut' \in BOOLEAN /\ homeRow' = homeRow /\ cut' = cut
  BY <1>4 DEF TypeOK
<1>5. saving \in BOOLEAN /\ reading \in BOOLEAN  BY DEF TypeOK
<1>6. i \in configs => submissions[i].server \in Valid  BY DEF OnlyReachedIsSaved
<1> HIDE DEF IInv, told, at
<1>7. CASE Probe(i)
  <2>1. CASE Probed(i) /\ Continue(i, "save")
    <3>1. Moved(i, at("save"), submissions[i].told) /\ saving' = saving
      BY <2>1, ContinueMoves DEF at, IInv
    <3>2. submissions'[i].pc = at("save") /\ submissions'[i].told = submissions[i].told
          /\ submissions'[i].server = submissions[i].server
      BY <1>2, <3>1, MovedKeeps DEF IInv, Kept
    <3>3. Progress(i)'
      BY <1>1, <1>2, <1>7, <2>1, <3>2 DEF Probe, Probed, Progress, rows
    <3> QED  BY <1>2, <1>3, <1>4, <1>5, <1>6, <1>7, <3>1, <3>3 DEF Probe, rows
  <2>2. CASE Answer(i, "failed")
    <3>1. Moved(i, "done", told("failed")) /\ saving' \in BOOLEAN
      BY <2>2, AnswerMoves DEF told, IInv
    <3>2. submissions'[i].pc = "done"
      BY <1>2, <3>1, MovedKeeps DEF IInv
    <3>3. Progress(i)'  BY <1>1, <1>7, <3>2 DEF Probe, Progress, rows
    <3> QED  BY <1>2, <1>3, <1>4, <1>5, <1>6, <1>7, <3>1, <3>3 DEF Probe, rows
  <2> QED  BY <1>7, <2>1, <2>2 DEF Probe
<1>8. CASE Save(i)
  <2> DEFINE pc == IF Storable(submissions[i].pair) THEN "home" ELSE "answer"
  <2>1. Moved(i, at(pc), submissions[i].told) /\ saving' = saving
    BY <1>8, ContinueMoves DEF Save, at, IInv
  <2>2. at(pc) \in {"home", "answer", "done"}  BY <1>2 DEF at
  <2>3. /\ submissions'[i].pc = at(pc) /\ submissions'[i].told = submissions[i].told
        /\ submissions'[i].server = submissions[i].server
        /\ submissions'[i].pair = submissions[i].pair
    BY <1>2, <2>1, <2>2, MovedKeeps DEF IInv, Kept
  <2>4. submissions[i].server \in Valid /\ submissions[i].told # "failed" /\ configs' = configs \cup {i}
    BY <1>1, <1>8 DEF Save, Progress
  <2>5. Progress(i)'
    BY <2>2, <2>3, <2>4 DEF Progress, at, Storable
  <2> HIDE DEF pc
  <2> QED  BY <1>2, <1>3, <1>4, <1>5, <1>8, <2>1, <2>2, <2>4, <2>5 DEF Save
<1>9. CASE SaveFails(i)
  <2>1. Moved(i, "done", told("failed")) /\ saving' \in BOOLEAN
    BY <1>9, AnswerMoves DEF SaveFails, told, IInv
  <2>2. submissions'[i].pc = "done"
    BY <1>2, <2>1, MovedKeeps DEF IInv
  <2>3. Progress(i)'  BY <1>1, <1>9, <2>2 DEF SaveFails, Progress, rows
  <2> QED  BY <1>2, <1>3, <1>4, <1>5, <1>6, <1>9, <2>1, <2>3 DEF SaveFails, rows
<1>10. CASE SetHome(i) \/ HomeFails(i)
  <2>1. Moved(i, at("answer"), submissions[i].told) /\ saving' = saving
    BY <1>10, ContinueMoves DEF SetHome, HomeFails, AfterHomeFails, at, IInv
  <2>2. submissions'[i].pc = at("answer") /\ submissions'[i].told = submissions[i].told
    BY <1>2, <2>1, MovedKeeps DEF IInv
  <2>3. /\ i \in configs /\ Storable(submissions[i].pair) /\ submissions[i].told # "failed"
        /\ configs' = configs
    BY <1>1, <1>10 DEF SetHome, HomeFails, Progress
  <2>4. Progress(i)'  BY <1>2, <2>2, <2>3 DEF Progress
  <2>5. /\ homeRow' \in (Coordinates \cup {Missing}) \X (Coordinates \cup {Missing})
        /\ cut' \in BOOLEAN
        /\ \/ homeRow' = homeRow /\ cut' = cut
           \/ cut' = TRUE
           \/ \E j \in configs : homeRow' = submissions[j].pair /\ Storable(homeRow')
    <3>1. CASE SetHome(i)
      <4>1. homeRow' = submissions[i].pair /\ cut' = FALSE  BY <3>1 DEF SetHome, Written
      <4>2. Storable(homeRow')  BY <2>3, <4>1 DEF Storable
      <4> QED  BY <2>3, <4>1, <4>2 DEF Storable
    <3>2. CASE HomeFails(i)  BY <2>3, <3>2, CutShortHome DEF HomeFails, IInv
    <3> QED  BY <1>10, <3>1, <3>2
  <2> QED  BY <1>2, <1>3, <1>5, <1>6, <1>10, <2>1, <2>3, <2>4, <2>5 DEF SetHome, HomeFails
<1>11. CASE Created(i)
  <2>1. Moved(i, "done", told("created")) /\ saving' \in BOOLEAN
    BY <1>11, AnswerMoves DEF Created, told, IInv
  <2>2. submissions'[i].pc = "done" /\ submissions'[i].told = told("created")
    BY <1>2, <2>1, MovedKeeps DEF IInv
  <2>3. Progress(i)'  BY <1>1, <1>11, <2>2 DEF Created, Progress, rows, told
  <2>4. reading' \in BOOLEAN  BY <1>5, <1>11 DEF Created
  <2> QED  BY <1>2, <1>3, <1>4, <1>6, <1>11, <2>1, <2>3, <2>4 DEF Created, rows
<1>12. CASE Disconnect(i)
  <2>1. Dropped(submissions[i].pc) \in {"save", "home", "done"}  BY DEF Dropped
  <2>2. Moved(i, Dropped(submissions[i].pc), "lost") /\ saving' \in BOOLEAN
    BY <1>5, <1>12, DisconnectMoves DEF IInv
  <2>3. /\ submissions'[i].pc = Dropped(submissions[i].pc) /\ submissions'[i].told = "lost"
        /\ submissions'[i].server = submissions[i].server
        /\ submissions'[i].pair = submissions[i].pair
    BY <2>1, <2>2, MovedKeeps DEF IInv, Kept
  <2>4. Progress(i)'
    BY <1>1, <1>12, <2>3 DEF Disconnect, Progress, rows, Dropped, Storable
  <2> QED  BY <1>3, <1>4, <1>5, <1>6, <1>12, <2>1, <2>2, <2>4 DEF Disconnect, rows
<1> QED  BY <1>7, <1>8, <1>9, <1>10, <1>11, <1>12 DEF Handle
-----------------------------------------------------------------------------
\* A submission is added, at its probe.
LEMMA ArriveIInv ==
    ASSUME IInv, NEW server \in Servers \cup {Blank}, NEW pair \in Pairs, NEW page \in BOOLEAN,
           Arrive(server, pair, page), UNCHANGED rows,
           saving' \in BOOLEAN, UNCHANGED <<view, reading, form, test, tests>>
    PROVE  IInv'
<1> DEFINE new == [server |-> server, pair |-> pair, page |-> page,
                   pc |-> "probe", told |-> "waiting"]
<1>1. submissions \in Seq(Submissions) /\ configs \subseteq Numbers
  BY DEF IInv, TypeOK, Submissions
<1>2. new \in Submissions  BY DEF Submissions
<1>3. submissions' = Append(submissions, new)  BY DEF Arrive
<1>4. new.pc = "probe" /\ new.told = "waiting"  OBVIOUS
<1> HIDE DEF new
<1>5. /\ submissions' \in Seq(Submissions)
      /\ Numbers' = 1 .. Len(submissions) + 1
      /\ Numbers = 1 .. Len(submissions)
      /\ \A j \in Numbers : submissions'[j] = submissions[j]
      /\ submissions'[Len(submissions) + 1] = new
      /\ Len(submissions) \in Nat
  BY <1>1, <1>2, <1>3 DEF Numbers
<1>6. Kept  BY <1>5 DEF Kept
<1>7. configs' = configs /\ homeRow' = homeRow /\ cut' = cut  BY DEF rows
<1>8. ASSUME NEW j \in Numbers' PROVE Progress(j)'
  <2>1. CASE j \in Numbers
    <3>1. Progress(j) /\ submissions'[j] = submissions[j]  BY <1>5, <2>1 DEF IInv
    <3> QED  BY <1>7, <3>1 DEF Progress, Storable
  <2>2. CASE j = Len(submissions) + 1
    <3>1. j \notin configs  BY <1>1, <1>5, <2>2
    <3> QED  BY <1>4, <1>5, <1>7, <2>2, <3>1 DEF Progress
  <2> QED  BY <1>5, <1>8, <2>1, <2>2
<1>9. OnlyReachedIsSaved'
  BY <1>1, <1>6, <1>7 DEF IInv, OnlyReachedIsSaved, Kept
<1>10. HomeIsOnePair'  BY <1>6, <1>7, HomeKept
<1>11. TypeOK'
  <2>1. {reading', saving', cut'} \subseteq BOOLEAN  BY <1>7 DEF IInv, TypeOK
  <2> QED  BY <1>1, <1>5, <1>7, <2>1 DEF IInv, TypeOK, Submissions
<1> QED  BY <1>8, <1>9, <1>10, <1>11 DEF IInv

\* Handlers are dropped: a submission stays, goes back to its job or is done.
LEMMA DroppedIInv ==
    ASSUME IInv,
           submissions' \in Seq(Submissions), Numbers' = Numbers,
           \A j \in Numbers :
              /\ submissions'[j].server = submissions[j].server
              /\ submissions'[j].pair = submissions[j].pair
              /\ submissions'[j].pc \in {submissions[j].pc, "done"}
              /\ submissions'[j].told \in {submissions[j].told, "lost"}
              /\ submissions[j].told = "failed" => submissions'[j].pc = "done",
           configs' = configs,
           homeRow' \in (Coordinates \cup {Missing}) \X (Coordinates \cup {Missing}),
           cut' \in BOOLEAN,
           (homeRow' = homeRow /\ cut' = cut) \/ cut' = TRUE,
           view' \in {"app", "wizard"}, reading' \in BOOLEAN, saving' \in BOOLEAN,
           form' \in Servers \cup {Blank}, test' \in {"idle", "testing", "ok", "error"},
           tests' \subseteq Servers
    PROVE  IInv'
<1>1. Kept  BY DEF Kept
<1>2. configs \subseteq Numbers  BY DEF IInv, TypeOK
<1>3. ASSUME NEW j \in Numbers PROVE Progress(j)'
  BY <1>3 DEF IInv, Progress, Storable
<1>4. OnlyReachedIsSaved'  BY <1>2 DEF IInv, OnlyReachedIsSaved
<1>5. HomeIsOnePair'  BY <1>1, HomeKept
<1>6. TypeOK'
  <2>1. {reading', saving', cut'} \subseteq BOOLEAN  OBVIOUS
  <2> QED  BY <1>2, <2>1 DEF TypeOK, Submissions
<1> QED  BY <1>3, <1>4, <1>5, <1>6 DEF IInv

\* The steps of the page alone.
LEMMA PageIInv ==
    ASSUME IInv, UNCHANGED <<submissions, rows>>,
           view' \in {"app", "wizard"}, reading' \in BOOLEAN, saving' \in BOOLEAN,
           form' \in Servers \cup {Blank}, test' \in {"idle", "testing", "ok", "error"},
           tests' \subseteq Servers
    PROVE  IInv'
<1>1. submissions \in Seq(Submissions)  BY DEF IInv, TypeOK, Submissions
<1>2. Numbers' = Numbers  BY DEF Numbers
<1>3. \A j \in Numbers : submissions[j].told = "failed" => submissions[j].pc = "done"
  BY DEF IInv, Progress
<1>4. /\ homeRow \in (Coordinates \cup {Missing}) \X (Coordinates \cup {Missing})
      /\ cut \in BOOLEAN
  BY DEF IInv, TypeOK
<1>5. configs' = configs /\ homeRow' = homeRow /\ cut' = cut  BY DEF rows
<1> QED  BY <1>1, <1>2, <1>3, <1>4, <1>5, DroppedIInv

\* A function on the places of a sequence is one of as many places.
LEMMA MapType ==
    ASSUME NEW S, NEW q \in Seq(S), NEW r \in [DOMAIN q -> S]
    PROVE  r \in Seq(S) /\ DOMAIN r = DOMAIN q
<1>1. Len(q) \in Nat /\ DOMAIN q = 1 .. Len(q)  OBVIOUS
<1> QED  BY <1>1
-----------------------------------------------------------------------------
\* Every step preserves the inductive invariant.
LEMMA NextIInv == IInv /\ [Next]_vars => IInv'
<1> SUFFICES ASSUME IInv, [Next]_vars PROVE IInv'  OBVIOUS
<1>1. /\ view \in {"app", "wizard"} /\ reading \in BOOLEAN /\ saving \in BOOLEAN
      /\ form \in Servers \cup {Blank} /\ test \in {"idle", "testing", "ok", "error"}
      /\ tests \subseteq Servers
      /\ homeRow \in (Coordinates \cup {Missing}) \X (Coordinates \cup {Missing})
      /\ cut \in BOOLEAN
  BY DEF IInv, TypeOK
<1>2. submissions \in Seq(Submissions)  BY DEF IInv, TypeOK, Submissions
<1>3. CASE ConfigRead  BY <1>1, <1>3, PageIInv DEF ConfigRead
<1>4. CASE ConfigFails  BY <1>1, <1>4, PageIInv DEF ConfigFails
<1>5. ASSUME NEW server \in Servers \cup {Blank}, Edit(server) PROVE IInv'
  BY <1>1, <1>5, PageIInv DEF Edit
<1>6. CASE RunTest
  <2>1. form \in Servers  BY <1>1, <1>6 DEF RunTest
  <2> QED  BY <1>1, <1>6, <2>1, PageIInv DEF RunTest
<1>7. ASSUME NEW server \in Servers, TestAnswered(server) PROVE IInv'
  BY <1>1, <1>7, PageIInv DEF TestAnswered
<1>8. ASSUME NEW pair \in Pairs, Submit(pair) PROVE IInv'
  <2>1. Sent(pair) \in Pairs  BY PairAssumption DEF Sent
  <2> QED  BY <1>1, <1>8, <2>1, ArriveIInv DEF Submit
<1>9. ASSUME NEW server \in Servers, NEW pair \in Pairs, Post(server, pair) PROVE IInv'
  BY <1>1, <1>9, ArriveIInv DEF Post, pageVars
<1>10. ASSUME NEW i \in Numbers, Handle(i) \/ Disconnect(i) PROVE IInv'
  BY <1>10, HandlerIInv
<1>11. CASE Reload
  <2>1. configs' = configs /\ homeRow' = homeRow /\ cut' = cut  BY <1>11 DEF Reload, rows
  <2> DEFINE after(i) == IF submissions[i].page /\ submissions[i].told = "waiting"
                         THEN [submissions[i] EXCEPT !.told = "lost", !.pc = Dropped(@)]
                         ELSE submissions[i]
  <2>2. submissions' = [i \in Numbers |-> after(i)]  BY <1>11 DEF Reload
  <2>3. ASSUME NEW i \in Numbers
        PROVE  /\ after(i) \in Submissions
               /\ after(i).server = submissions[i].server
               /\ after(i).pair = submissions[i].pair
               /\ after(i).pc \in {submissions[i].pc, "done"}
               /\ after(i).told \in {submissions[i].told, "lost"}
               /\ submissions[i].told = "failed" => after(i).pc = "done"
    <3>1. submissions[i] \in Submissions /\ Progress(i)  BY SubmissionType DEF IInv
    <3> QED  BY <3>1 DEF Submissions, Dropped, Progress
  <2> HIDE DEF after
  <2>4. submissions' \in Seq(Submissions) /\ Numbers' = Numbers
    <3>1. submissions' \in [Numbers -> Submissions]  BY <2>2, <2>3
    <3> QED  BY <1>2, <3>1, MapType DEF Numbers
  <2>5. \A i \in Numbers : submissions'[i] = after(i)  BY <2>2
  <2>6. /\ view' \in {"app", "wizard"} /\ reading' \in BOOLEAN /\ saving' \in BOOLEAN
        /\ form' \in Servers \cup {Blank} /\ test' \in {"idle", "testing", "ok", "error"}
        /\ tests' \subseteq Servers
    BY <1>11 DEF Reload
  <2> QED  BY <1>1, <2>1, <2>3, <2>4, <2>5, <2>6, DroppedIInv
<1>12. CASE Restart
  <2> DEFINE after(i) ==
        [submissions[i] EXCEPT !.pc = "done", !.told = IF @ = "waiting" THEN "lost" ELSE @]
  <2>1. submissions' = [i \in Numbers |-> after(i)]  BY <1>12 DEF Restart
  <2>2. ASSUME NEW i \in Numbers
        PROVE  /\ after(i) \in Submissions
               /\ after(i).server = submissions[i].server
               /\ after(i).pair = submissions[i].pair
               /\ after(i).pc = "done"
               /\ after(i).told \in {submissions[i].told, "lost"}
    <3>1. submissions[i] \in Submissions  BY SubmissionType DEF IInv
    <3> QED  BY <3>1 DEF Submissions
  <2> HIDE DEF after
  <2>3. submissions' \in Seq(Submissions) /\ Numbers' = Numbers
    <3>1. submissions' \in [Numbers -> Submissions]  BY <2>1, <2>2
    <3> QED  BY <1>2, <3>1, MapType DEF Numbers
  <2>4. \A i \in Numbers : submissions'[i] = after(i)  BY <2>1
  <2>5. /\ homeRow' \in (Coordinates \cup {Missing}) \X (Coordinates \cup {Missing})
        /\ cut' \in BOOLEAN
        /\ (homeRow' = homeRow /\ cut' = cut) \/ cut' = TRUE
    <3>1. ASSUME NEW i \in Numbers, submissions[i].pc = "home", CutShort(i)
          PROVE  /\ homeRow' \in (Coordinates \cup {Missing}) \X (Coordinates \cup {Missing})
                 /\ cut' \in BOOLEAN
                 /\ (homeRow' = homeRow /\ cut' = cut) \/ cut' = TRUE
      BY <3>1, CutShortHome DEF IInv, Progress
    <3> QED  BY <1>1, <1>12, <3>1 DEF Restart
  <2>6. /\ view' = view /\ reading' = reading /\ saving' = FALSE /\ form' = form
        /\ test' = test /\ tests' = tests /\ configs' = configs
    BY <1>12 DEF Restart
  <2> QED  BY <1>1, <2>2, <2>3, <2>4, <2>5, <2>6, DroppedIInv
<1>13. CASE UNCHANGED vars
  BY <1>1, <1>13, PageIInv DEF vars, pageVars
<1> QED
  BY <1>3, <1>4, <1>5, <1>6, <1>7, <1>8, <1>9, <1>10, <1>11, <1>12, <1>13 DEF Next
-----------------------------------------------------------------------------
\* The inductive invariant holds in every reachable state.
THEOREM InvariantHolds == Spec => []IInv
<1>1. Init => IInv  BY InitIInv
<1>2. IInv /\ [Next]_vars => IInv'  BY NextIInv
<1> QED  BY <1>1, <1>2, PTL DEF Spec

\* The variables keep their types, whatever is typed, posted, lost or killed.
THEOREM TypeCorrect == Spec => []TypeOK
<1>1. IInv => TypeOK  BY DEF IInv
<1> QED  BY <1>1, InvariantHolds, PTL

\* "Never persist a source we can't reach": every saved source has accepted
\* its own credentials, whatever the form was green for.
THEOREM OnlyReachedSources == Spec => []OnlyReachedIsSaved
<1>1. IInv => OnlyReachedIsSaved  BY DEF IInv
<1> QED  BY <1>1, InvariantHolds, PTL

\* The stored home is the pair of one saved submission, and in range, unless
\* its last write was cut short.
THEOREM HomeOfOneSubmission == Spec => []HomeIsOnePair
<1>1. IInv => HomeIsOnePair  BY DEF IInv
<1> QED  BY <1>1, InvariantHolds, PTL

\* A submission that was answered with an error has saved nothing; of one whose
\* answer was lost nothing is said.
THEOREM FailureSavesNothing == Spec => []FailedSavedNothing
<1>1. IInv => FailedSavedNothing  BY DEF IInv, Progress, FailedSavedNothing
<1> QED  BY <1>1, InvariantHolds, PTL

\* A home that is set stays set, through writes cut short and bad bodies.
THEOREM SetHomeStaysSet == Spec => HomeStaysSet
<1>1. ASSUME IInv, [Next]_vars, Persisted(homeRow) # NoPair
      PROVE  Persisted(homeRow') # NoPair
  <2>1. homeRow \in Coordinates \X Coordinates  BY <1>1 DEF Persisted
  <2>2. homeRow' \in Coordinates \X Coordinates
    <3>1. CASE UNCHANGED homeRow  BY <2>1, <3>1
    <3>2. ASSUME NEW i \in Numbers, submissions[i].pc = "home", CutShort(i)
          PROVE  homeRow' \in Coordinates \X Coordinates
      BY <1>1, <2>1, <3>2, CutShortHome DEF IInv, Progress
    <3>3. ASSUME NEW i \in Numbers, SetHome(i)
          PROVE  homeRow' \in Coordinates \X Coordinates
      BY <1>1, <3>3 DEF IInv, Progress, SetHome, Written, Storable
    <3>4. ASSUME NEW i \in Numbers, HomeFails(i)
          PROVE  homeRow' \in Coordinates \X Coordinates
      BY <3>2, <3>4 DEF HomeFails
    <3>5. CASE Restart  BY <3>1, <3>2, <3>5 DEF Restart
    <3>6. ASSUME NEW i \in Numbers, Handle(i) \/ Disconnect(i)
          PROVE  homeRow' \in Coordinates \X Coordinates
      <4>1. CASE Probe(i) \/ SaveFails(i) \/ Created(i) \/ Disconnect(i)
        BY <3>1, <4>1 DEF Probe, SaveFails, Created, Disconnect, rows
      <4>2. CASE Save(i)  BY <3>1, <4>2 DEF Save
      <4> QED  BY <3>3, <3>4, <3>6, <4>1, <4>2 DEF Handle
    <3>7. CASE ConfigRead \/ ConfigFails \/ RunTest \/ Reload \/ UNCHANGED vars
      BY <3>1, <3>7 DEF ConfigRead, ConfigFails, RunTest, Reload, vars, rows
    <3>8. ASSUME NEW server, Edit(server) \/ TestAnswered(server)
          PROVE  homeRow' \in Coordinates \X Coordinates
      BY <3>1, <3>8 DEF Edit, TestAnswered, rows
    <3>9. ASSUME NEW server, NEW pair, Submit(pair) \/ Post(server, pair)
          PROVE  homeRow' \in Coordinates \X Coordinates
      BY <3>1, <3>9 DEF Submit, Post, rows
    <3> QED  BY <1>1, <3>5, <3>6, <3>7, <3>8, <3>9 DEF Next
  <2>3. homeRow' # NoPair  BY <2>2, PairAssumption DEF NoPair
  <2> QED  BY <2>2, <2>3 DEF Persisted
<1>2. IInv /\ [Next]_vars
        => [Persisted(homeRow) # NoPair => Persisted(homeRow') # NoPair]_vars
  BY <1>1
<1> QED  BY <1>2, InvariantHolds, PTL DEF Spec, HomeStaysSet
-----------------------------------------------------------------------------
Waiting(i) == submissions[i].told = "waiting"

\* The form shows a spinner only while something is under way that ends it: a
\* test, or one submission of the page, never two, whose handler is not done.
SpinnersHaveCause ==
    /\ test = "testing" => tests # {}
    /\ saving <=> \E i \in Numbers : submissions[i].page /\ Waiting(i)
    /\ \A i, j \in Numbers : /\ submissions[i].page /\ Waiting(i)
                             /\ submissions[j].page /\ Waiting(j)
                             => i = j
    /\ \A i \in Numbers : Waiting(i) => submissions[i].pc # "done"

\* A handler that moves on, answers or is dropped.
LEMMA MovedSpinners ==
    ASSUME TypeOK, SpinnersHaveCause, NEW i \in Numbers,
           NEW pc \in {"probe", "save", "home", "answer", "done"},
           NEW told \in {"waiting", "created", "failed", "lost"},
           Moved(i, pc, told),
           told = "waiting" => Waiting(i) /\ pc # "done",
           saving' = IF submissions[i].page /\ Waiting(i) /\ told # "waiting"
                     THEN FALSE ELSE saving,
           UNCHANGED <<test, tests>>
    PROVE  SpinnersHaveCause'
<1>1. /\ Numbers' = Numbers
      /\ \A j \in Numbers \ {i} : submissions'[j] = submissions[j]
      /\ submissions'[i].pc = pc /\ submissions'[i].told = told
      /\ submissions'[i].page = submissions[i].page
  BY MovedKeeps
<1>2. \A j \in Numbers : /\ submissions'[j].page = submissions[j].page
                         /\ Waiting(j)' => Waiting(j)
                         /\ j # i => (Waiting(j)' <=> Waiting(j))
                         /\ Waiting(j)' => submissions'[j].pc # "done"
  BY <1>1 DEF Waiting, SpinnersHaveCause
<1>3. Waiting(i)' <=> told = "waiting"  BY <1>1 DEF Waiting
<1>4. saving' <=> \E j \in Numbers : submissions'[j].page /\ Waiting(j)'
  <2>1. CASE submissions[i].page /\ Waiting(i) /\ told # "waiting"
    BY <1>2, <1>3, <2>1 DEF SpinnersHaveCause
  <2>2. CASE ~(submissions[i].page /\ Waiting(i) /\ told # "waiting")
    BY <1>2, <1>3, <2>2 DEF SpinnersHaveCause
  <2> QED  BY <2>1, <2>2
<1> QED  BY <1>1, <1>2, <1>4 DEF SpinnersHaveCause

\* A step of a handler, or its loss.
LEMMA HandlerSpinners ==
    ASSUME TypeOK, SpinnersHaveCause, NEW i \in Numbers, Handle(i) \/ Disconnect(i)
    PROVE  SpinnersHaveCause'
<1>1. submissions[i] \in Submissions  BY SubmissionType
<1>2. /\ submissions[i].pc \in {"probe", "save", "home", "answer", "done"}
      /\ submissions[i].told \in {"waiting", "created", "failed", "lost"}
      /\ submissions[i].page \in BOOLEAN
  BY <1>1 DEF Submissions
<1>3. UNCHANGED <<test, tests>>
  BY DEF Handle, Probe, Save, SaveFails, SetHome, HomeFails, Created, Disconnect
<1>4. ASSUME NEW what \in {"created", "failed"}, Answer(i, what)
      PROVE  SpinnersHaveCause'
  <2> DEFINE told == IF Waiting(i) THEN what ELSE submissions[i].told
  <2>1. Moved(i, "done", told)  BY <1>4, AnswerMoves DEF Waiting
  <2>2. told \in {"created", "failed", "lost"} \cup {submissions[i].told}
        /\ told # "waiting"
    BY <1>2 DEF Waiting
  <2>3. saving' = IF submissions[i].page /\ Waiting(i) /\ told # "waiting"
                  THEN FALSE ELSE saving
    BY <1>4, <2>2 DEF Answer, NotWaiting, Waiting
  <2> HIDE DEF told
  <2> QED  BY <1>2, <1>3, <2>1, <2>2, <2>3, MovedSpinners
<1>5. ASSUME NEW pc \in {"save", "home", "answer"}, Continue(i, pc)
      PROVE  SpinnersHaveCause'
  <2> DEFINE to == IF Waiting(i) THEN pc ELSE "done"
             told == submissions[i].told
  <2>1. Moved(i, to, told) /\ saving' = saving  BY <1>5, ContinueMoves DEF Waiting
  <2>2. told = "waiting" => Waiting(i) /\ to # "done"  BY DEF Waiting
  <2>3. to \in {"probe", "save", "home", "answer", "done"}  OBVIOUS
  <2>4. ~(submissions[i].page /\ Waiting(i) /\ told # "waiting")  BY DEF Waiting
  <2>5. told \in {"waiting", "created", "failed", "lost"}  BY <1>2
  <2> HIDE DEF to, told
  <2> QED  BY <1>3, <2>1, <2>2, <2>3, <2>4, <2>5, MovedSpinners
<1>6. CASE Disconnect(i)
  <2>1. Moved(i, Dropped(submissions[i].pc), "lost")  BY <1>6, DisconnectMoves
  <2>2. Dropped(submissions[i].pc) \in {"save", "home", "done"}  BY DEF Dropped
  <2>3. saving' = IF submissions[i].page /\ Waiting(i) THEN FALSE ELSE saving
    BY <1>6 DEF Disconnect, NotWaiting, Waiting
  <2> QED  BY <1>3, <2>1, <2>2, <2>3, MovedSpinners
<1>7. CASE Handle(i)
  <2>1. CASE Probe(i)  BY <1>4, <1>5, <2>1 DEF Probe
  <2>2. CASE Save(i)  BY <1>5, <2>2 DEF Save
  <2>3. CASE SaveFails(i)  BY <1>4, <2>3 DEF SaveFails
  <2>4. CASE SetHome(i)  BY <1>5, <2>4 DEF SetHome
  <2>5. CASE HomeFails(i)  BY <1>5, <2>5 DEF HomeFails, AfterHomeFails
  <2>6. CASE Created(i)  BY <1>4, <2>6 DEF Created
  <2> QED  BY <1>7, <2>1, <2>2, <2>3, <2>4, <2>5, <2>6 DEF Handle
<1> QED  BY <1>6, <1>7

\* A submission arrives: the page's only while it awaits no other.
LEMMA ArriveSpinners ==
    ASSUME TypeOK, SpinnersHaveCause,
           NEW server, NEW pair, NEW page \in BOOLEAN, Arrive(server, pair, page),
           IF page THEN saving = FALSE /\ saving' = TRUE ELSE saving' = saving,
           UNCHANGED <<test, tests>>
    PROVE  SpinnersHaveCause'
<1> DEFINE new == [server |-> server, pair |-> pair, page |-> page,
                   pc |-> "probe", told |-> "waiting"]
<1>1. submissions \in Seq(Submissions) /\ submissions' = Append(submissions, new)
  BY DEF Arrive, TypeOK, Submissions
<1>2. new.page = page /\ new.pc = "probe" /\ new.told = "waiting"  OBVIOUS
<1> HIDE DEF new
<1>3. PICK n :
      /\ Len(submissions) \in Nat /\ Numbers = 1 .. Len(submissions)
      /\ n = Len(submissions) + 1
      /\ Numbers' = Numbers \cup {n} /\ n \notin Numbers
      /\ \A j \in Numbers : submissions'[j] = submissions[j]
      /\ submissions'[n] = new
  BY <1>1 DEF Numbers
<1>4. /\ \A j \in Numbers : (Waiting(j)' <=> Waiting(j))
      /\ Waiting(n)' /\ submissions'[n].page = page /\ submissions'[n].pc # "done"
  BY <1>2, <1>3 DEF Waiting
<1>5. saving' <=> \E j \in Numbers' : submissions'[j].page /\ Waiting(j)'
  BY <1>3, <1>4 DEF SpinnersHaveCause
<1>6. \A j, k \in Numbers' : /\ submissions'[j].page /\ Waiting(j)'
                             /\ submissions'[k].page /\ Waiting(k)'
                             => j = k
  BY <1>3, <1>4 DEF SpinnersHaveCause
<1> QED  BY <1>3, <1>4, <1>5, <1>6 DEF SpinnersHaveCause

\* Every step keeps a cause for every spinner.
LEMMA NextSpinners ==
    ASSUME TypeOK, SpinnersHaveCause, [Next]_vars
    PROVE  SpinnersHaveCause'
<1>1. CASE ConfigRead \/ ConfigFails \/ UNCHANGED vars
  <2>1. UNCHANGED <<test, tests, saving, submissions>>
    BY <1>1 DEF ConfigRead, ConfigFails, vars, pageVars
  <2> QED  BY <2>1 DEF SpinnersHaveCause, Waiting, Numbers
<1>2. ASSUME NEW server, Edit(server) PROVE SpinnersHaveCause'
  <2>1. test' = "idle" /\ UNCHANGED <<tests, saving, submissions>>  BY <1>2 DEF Edit
  <2> QED  BY <2>1 DEF SpinnersHaveCause, Waiting, Numbers
<1>3. CASE RunTest
  <2>1. tests' # {} /\ UNCHANGED <<saving, submissions>>  BY <1>3 DEF RunTest
  <2> QED  BY <2>1 DEF SpinnersHaveCause, Waiting, Numbers
<1>4. ASSUME NEW server, TestAnswered(server) PROVE SpinnersHaveCause'
  <2>1. test' # "testing" /\ UNCHANGED <<saving, submissions>>  BY <1>4 DEF TestAnswered
  <2> QED  BY <2>1 DEF SpinnersHaveCause, Waiting, Numbers
<1>5. ASSUME NEW pair, Submit(pair) PROVE SpinnersHaveCause'
  <2>1. /\ Arrive(form, Sent(pair), TRUE) /\ saving' = TRUE /\ ~saving
        /\ UNCHANGED <<test, tests>> /\ saving \in BOOLEAN
    BY <1>5 DEF Submit, TypeOK
  <2> QED  BY <2>1, ArriveSpinners
<1>6. ASSUME NEW server, NEW pair, Post(server, pair) PROVE SpinnersHaveCause'
  <2>1. /\ Arrive(server, pair, FALSE) /\ saving' = saving
        /\ UNCHANGED <<test, tests>>
    BY <1>6 DEF Post, pageVars
  <2> QED  BY <2>1, ArriveSpinners
<1>7. CASE Reload \/ Restart
  <2>1. saving' = FALSE /\ (test' = "testing" => tests' # {})
    BY <1>7 DEF Reload, Restart, SpinnersHaveCause
  <2>2. Numbers' = Numbers
        /\ \A i \in Numbers : /\ Waiting(i)' => Waiting(i) /\ submissions'[i] = submissions[i]
                              /\ ~(Waiting(i)' /\ submissions'[i].page)
    <3> DEFINE reload(i) == IF submissions[i].page /\ submissions[i].told = "waiting"
                            THEN [submissions[i] EXCEPT !.told = "lost", !.pc = Dropped(@)]
                            ELSE submissions[i]
               restart(i) == [submissions[i] EXCEPT !.pc = "done",
                                                    !.told = IF @ = "waiting" THEN "lost" ELSE @]
    <3>1. \A i \in Numbers : submissions[i] \in Submissions  BY SubmissionType
    <3>2. \A i \in Numbers : /\ reload(i) \in Submissions
                             /\ reload(i).told = "waiting" =>
                                  reload(i) = submissions[i] /\ ~reload(i).page
      BY <3>1 DEF Submissions, Dropped
    <3>3. \A i \in Numbers : restart(i) \in Submissions /\ restart(i).told # "waiting"
      BY <3>1 DEF Submissions
    <3>4. submissions' = [i \in Numbers |-> reload(i)] \/ submissions' = [i \in Numbers |-> restart(i)]
      BY <1>7 DEF Reload, Restart
    <3> HIDE DEF reload, restart
    <3>5. submissions' \in [Numbers -> Submissions]  BY <3>2, <3>3, <3>4
    <3>6. Numbers' = Numbers
      <4>1. submissions \in Seq(Submissions) /\ Numbers = DOMAIN submissions
        BY DEF TypeOK, Submissions, Numbers
      <4> QED  BY <3>5, <4>1, MapType DEF Numbers
    <3> QED  BY <3>2, <3>3, <3>4, <3>6 DEF Waiting
  <2> QED  BY <2>1, <2>2 DEF SpinnersHaveCause
<1> QED
  BY <1>1, <1>2, <1>3, <1>4, <1>5, <1>6, <1>7, HandlerSpinners DEF Next

\* The form never waits for nothing: what SpinnersEnd promises is only up to
\* the tests and handlers that are under way.
THEOREM SpinnersHaveCauseHolds == Spec => []SpinnersHaveCause
<1>1. Init => SpinnersHaveCause
  <2> SUFFICES ASSUME Init PROVE SpinnersHaveCause  OBVIOUS
  <2>1. Numbers = {}  BY DEF Init, Numbers
  <2> QED  BY <2>1 DEF Init, SpinnersHaveCause
<1>2. TypeOK /\ SpinnersHaveCause /\ [Next]_vars => SpinnersHaveCause'  BY NextSpinners
<1> QED  BY <1>1, <1>2, TypeCorrect, PTL DEF Spec
=============================================================================
