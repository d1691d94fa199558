-------------------------- MODULE OrchestratorProofs --------------------------
(***************************************************************************)
(* Proofs about Orchestrator for any number of runs and handlers, any cap  *)
(* on rounds and any number of answers of the PM.                          *)
(***************************************************************************)
EXTENDS Orchestrator, TLAPS

-----------------------------------------------------------------------------
(* The moves of a run.                                                     *)

\* The transition table, event by event: from which state it is allowed and
\* what it changes.
LEMMA Moves ==
    ASSUME NEW run \in Runs
    PROVE  /\ may(run, "ASK") =>
                 /\ run.state \in {"PM_ANALYSIS", "QUESTIONNAIRE"}
                 /\ moved(run, "ASK") = [run EXCEPT !.state = "QUESTIONNAIRE"]
           /\ may(run, "PROPOSE") =>
                 moved(run, "PROPOSE") = [run EXCEPT !.state = "PLAN_REVIEW"]
           /\ may(run, "APPROVE") =>
                 /\ run.state = "PLAN_REVIEW"
                 /\ moved(run, "APPROVE") = [run EXCEPT !.state = "PLAN_APPROVED"]
           /\ may(run, "GENERATE") =>
                 /\ run.state = "PLAN_APPROVED"
                 /\ moved(run, "GENERATE")
                      = [run EXCEPT !.state = "BACKEND_GENERATION"]
           /\ run.state = "BACKEND_GENERATION" =>
                 /\ moved(run, "DELIVER") = [run EXCEPT !.state = "ZIP_READY"]
                 /\ moved(run, "FAIL") = [run EXCEPT !.state = "FAILED"]
           /\ run.state = "PM_ANALYSIS" =>
                 moved(run, "ASK") = [run EXCEPT !.state = "QUESTIONNAIRE"]
           /\ run.state = "IDEA" =>
                 moved(run, "DESCRIBE") = [run EXCEPT !.state = "PM_ANALYSIS"]
           /\ may(run, "REJECT") =>
                 /\ rejected(run) = [run EXCEPT !.state = "PLAN_REJECTED"]
                 /\ revising(rejected(run)) = [run EXCEPT !.state = "PM_REVISION"]
<1> USE DEF PlanningRows, ReviewRows, FinalRows
<1>1. DOMAIN PlanningRows = {"IDEA", "PM_ANALYSIS", "QUESTIONNAIRE"}
  OBVIOUS
<1>2. DOMAIN ReviewRows = {"PLAN_REVIEW", "PLAN_REJECTED", "PM_REVISION",
                           "PLAN_APPROVED", "BACKEND_GENERATION"}
  OBVIOUS
<1> USE <1>1, <1>2 DEF Runs, RunState, TRANSITIONS, may, moved
<1>3. may(run, "ASK") =>
        /\ run.state \in {"PM_ANALYSIS", "QUESTIONNAIRE"}
        /\ moved(run, "ASK") = [run EXCEPT !.state = "QUESTIONNAIRE"]
  OBVIOUS
<1>4. may(run, "PROPOSE") =>
        moved(run, "PROPOSE") = [run EXCEPT !.state = "PLAN_REVIEW"]
  OBVIOUS
<1>5. may(run, "APPROVE") =>
        /\ run.state = "PLAN_REVIEW"
        /\ moved(run, "APPROVE") = [run EXCEPT !.state = "PLAN_APPROVED"]
  OBVIOUS
<1>6. may(run, "GENERATE") =>
        /\ run.state = "PLAN_APPROVED"
        /\ moved(run, "GENERATE") = [run EXCEPT !.state = "BACKEND_GENERATION"]
  OBVIOUS
<1>7. run.state = "BACKEND_GENERATION" =>
        /\ moved(run, "DELIVER") = [run EXCEPT !.state = "ZIP_READY"]
        /\ moved(run, "FAIL") = [run EXCEPT !.state = "FAILED"]
  OBVIOUS
<1>8. run.state = "PM_ANALYSIS" =>
        moved(run, "ASK") = [run EXCEPT !.state = "QUESTIONNAIRE"]
  OBVIOUS
<1>9. run.state = "IDEA" =>
        moved(run, "DESCRIBE") = [run EXCEPT !.state = "PM_ANALYSIS"]
  OBVIOUS
<1>10. may(run, "REJECT") =>
        /\ rejected(run) = [run EXCEPT !.state = "PLAN_REJECTED"]
        /\ revising(rejected(run)) = [run EXCEPT !.state = "PM_REVISION"]
  <2> SUFFICES ASSUME may(run, "REJECT")
               PROVE  /\ rejected(run) = [run EXCEPT !.state = "PLAN_REJECTED"]
                      /\ revising(rejected(run))
                           = [run EXCEPT !.state = "PM_REVISION"]
    OBVIOUS
  <2>1. rejected(run) = [run EXCEPT !.state = "PLAN_REJECTED"]
    BY DEF rejected
  <2>2. revising([run EXCEPT !.state = "PLAN_REJECTED"])
          = [run EXCEPT !.state = "PM_REVISION"]
    BY DEF revising
  <2> QED
    BY <2>1, <2>2
<1> QED
  BY <1>3, <1>4, <1>5, <1>6, <1>7, <1>8, <1>9, <1>10

\* What the methods of a run return, where the orchestrator calls them.
LEMMA Methods ==
    ASSUME NEW run \in Runs
    PROVE  /\ may(run, "ASK") /\ run.rounds < MAX_ROUNDS =>
                 asked(run) \in Runs /\ asked(run).state = "QUESTIONNAIRE"
           /\ \A plan \in Plans : may(run, "PROPOSE") =>
                 /\ proposed(run, plan) \in Runs
                 /\ proposed(run, plan).state = "PLAN_REVIEW"
                 /\ proposed(run, plan).plan = plan
           /\ \A ids \in SUBSET Questions : answering(run, ids) \in Runs
           /\ may(run, "REJECT") => revising(rejected(run)) \in Runs
           /\ may(run, "APPROVE") =>
                 /\ run.state = "PLAN_REVIEW"
                 /\ approved(run) \in Runs
                 /\ approved(run).state = "PLAN_APPROVED"
                 /\ approved(run).plan = run.plan
           /\ may(run, "GENERATE") =>
                 /\ run.state = "PLAN_APPROVED"
                 /\ generating(run) \in Runs
                 /\ generating(run).state = "BACKEND_GENERATION"
                 /\ generating(run).plan = run.plan
           /\ run.state = "BACKEND_GENERATION" =>
                 /\ failed(run) \in Runs /\ failed(run).state = "FAILED"
                 /\ delivered(run) \in Runs
                 /\ delivered(run).state = "ZIP_READY"
                 /\ delivered(run).plan = run.plan
           /\ billed(run) \in Runs /\ billed(run).state = run.state
<1> USE Moves
<1>1. may(run, "ASK") /\ run.rounds < MAX_ROUNDS =>
        asked(run) \in Runs /\ asked(run).state = "QUESTIONNAIRE"
  <2> SUFFICES ASSUME may(run, "ASK"), run.rounds < MAX_ROUNDS
               PROVE  asked(run) \in Runs /\ asked(run).state = "QUESTIONNAIRE"
    OBVIOUS
  <2>1. moved(run, "ASK") = [run EXCEPT !.state = "QUESTIONNAIRE"]
    OBVIOUS
  <2>2. run.rounds + 1 \in 0..MAX_ROUNDS
    BY RunAssumption DEF Runs
  <2> QED
    BY <2>1, <2>2 DEF asked, Runs, RunState
<1>2. ASSUME NEW plan \in Plans, may(run, "PROPOSE")
      PROVE  /\ proposed(run, plan) \in Runs
             /\ proposed(run, plan).state = "PLAN_REVIEW"
             /\ proposed(run, plan).plan = plan
  <2>1. moved(run, "PROPOSE") = [run EXCEPT !.state = "PLAN_REVIEW"]
    BY <1>2
  <2> QED
    BY <2>1 DEF proposed, Runs, RunState
<1>3. ASSUME NEW ids \in SUBSET Questions
      PROVE  answering(run, ids) \in Runs
  BY DEF answering, Runs
<1>4. may(run, "REJECT") => revising(rejected(run)) \in Runs
  BY DEF Runs, RunState
<1>5. may(run, "APPROVE") =>
        /\ run.state = "PLAN_REVIEW"
        /\ approved(run) \in Runs
        /\ approved(run).state = "PLAN_APPROVED"
        /\ approved(run).plan = run.plan
  BY DEF approved, Runs, RunState
<1>6. may(run, "GENERATE") =>
        /\ run.state = "PLAN_APPROVED"
        /\ generating(run) \in Runs
        /\ generating(run).state = "BACKEND_GENERATION"
        /\ generating(run).plan = run.plan
  BY DEF generating, Runs, RunState
<1>7. run.state = "BACKEND_GENERATION" =>
        /\ failed(run) \in Runs /\ failed(run).state = "FAILED"
        /\ delivered(run) \in Runs
        /\ delivered(run).state = "ZIP_READY"
        /\ delivered(run).plan = run.plan
  <2> SUFFICES ASSUME run.state = "BACKEND_GENERATION"
               PROVE  /\ failed(run) \in Runs /\ failed(run).state = "FAILED"
                      /\ delivered(run) \in Runs
                      /\ delivered(run).state = "ZIP_READY"
                      /\ delivered(run).plan = run.plan
    OBVIOUS
  <2>1. /\ moved(run, "DELIVER") = [run EXCEPT !.state = "ZIP_READY"]
        /\ moved(run, "FAIL") = [run EXCEPT !.state = "FAILED"]
    OBVIOUS
  <2> QED
    BY <2>1 DEF failed, delivered, Runs, RunState
<1>8. billed(run) \in Runs /\ billed(run).state = run.state
  BY DEF billed, Runs
<1> QED
  BY <1>1, <1>2, <1>3, <1>4, <1>5, <1>6, <1>7, <1>8

\* A new run, and the copy start works on.
LEMMA Beginnings ==
    /\ NewRun \in Runs
    /\ describing(NewRun) \in Runs
    /\ describing(NewRun).state = "PM_ANALYSIS"
    /\ describing(NewRun).rounds = 0
<1>1. NewRun \in Runs /\ NewRun.state = "IDEA" /\ NewRun.rounds = 0
  BY RunAssumption DEF NewRun, Runs, RunState
<1>2. moved(NewRun, "DESCRIBE") = [NewRun EXCEPT !.state = "PM_ANALYSIS"]
  BY <1>1, Moves
<1> QED
  BY <1>1, <1>2 DEF describing, Runs, RunState

\* A run that may be planned out of the analysis.
LEMMA AnalysisMayAsk ==
    ASSUME NEW run \in Runs, run.state = "PM_ANALYSIS"
    PROVE  may(run, "ASK")
<1>1. DOMAIN PlanningRows = {"IDEA", "PM_ANALYSIS", "QUESTIONNAIRE"}
  BY DEF PlanningRows
<1> QED
  BY <1>1 DEF Runs, RunState, TRANSITIONS, PlanningRows, may

-----------------------------------------------------------------------------
(* The handlers.                                                           *)

\* Suspending or ending one handler leaves the others alone.
LEMMA Handling ==
    ASSUME NEW h \in Handlers, calls \in [Handlers -> Calls]
    PROVE  /\ End(h) =>
                 /\ calls' \in [Handlers -> Calls]
                 /\ calls'[h].at = "idle" /\ calls'[h].id = calls[h].id
                 /\ \A g \in Handlers \ {h} : calls'[g] = calls[g]
           /\ \A p \in Places, i \in RunIds, run \in Runs :
                 Suspend(h, p, i, run) =>
                   /\ calls' \in [Handlers -> Calls]
                   /\ calls'[h].at = p
                   /\ calls'[h].id = i
                   /\ calls'[h].run = run
                   /\ \A g \in Handlers \ {h} : calls'[g] = calls[g]
<1>1. ASSUME End(h)
      PROVE  /\ calls' \in [Handlers -> Calls]
             /\ calls'[h].at = "idle" /\ calls'[h].id = calls[h].id
             /\ \A g \in Handlers \ {h} : calls'[g] = calls[g]
  <2> DEFINE c == [calls[h] EXCEPT !.at = "idle", !.chunk = FALSE,
                                   !.scan = FALSE, !.run = NewRun]
  <2>1. calls' = [calls EXCEPT ![h] = c]
    BY <1>1 DEF End
  <2>2. c \in Calls /\ c.at = "idle" /\ c.id = calls[h].id
    BY Beginnings DEF Calls, Places
  <2> HIDE DEF c
  <2> QED
    BY <2>1, <2>2
<1>2. ASSUME NEW p \in Places, NEW i \in RunIds, NEW run \in Runs,
             Suspend(h, p, i, run)
      PROVE  /\ calls' \in [Handlers -> Calls]
             /\ calls'[h].at = p
             /\ calls'[h].id = i
             /\ calls'[h].run = run
             /\ \A g \in Handlers \ {h} : calls'[g] = calls[g]
  BY <1>2 DEF Suspend, Calls
<1> QED
  BY <1>1, <1>2

-----------------------------------------------------------------------------
(* The inductive invariant.  A copy's state is fixed by where its coroutine *)
(* is suspended; plans are numbered by the PM's answers, so that a plan put *)
(* under review is one nobody has approved, and approving it is the only    *)
(* way to a stored PLAN_APPROVED.  That is what survives the overtaking:    *)
(* a copy put back late may undo an approval, but it cannot repeat one.     *)

CopyInv(h) ==
    LET c == calls[h]
    IN  /\ c.at = "analyze" => c.run.state = "PM_ANALYSIS" /\ c.run.rounds = 0
        /\ c.at \in {"open", "stream", "yield"}
             => c.run.state = "BACKEND_GENERATION"
        /\ c.at = "charge" => c.run.state = "ZIP_READY"
        /\ c.at \in Generating => c.run.plan \in history[c.id].generated

PlanInv(i) ==
    /\ history[i].served <= pm
    /\ history[i].approved \subseteq 1..pm
    /\ history[i].generated \subseteq history[i].approved
    /\ store[i].state = "PLAN_REVIEW"
         => store[i].plan \in (1..pm) \ history[i].approved
    /\ store[i].state = "PLAN_APPROVED"
         => store[i].plan \in history[i].approved \ history[i].generated

OrchestratorInv ==
    /\ TypeOK
    /\ \A h \in Handlers : CopyInv(h)
    /\ \A i \in RunIds : PlanInv(i)
    /\ OneGenerationPerPlan
    /\ ReadersLetGo

\* The initial states satisfy the invariant.
LEMMA InvInit == Init => OrchestratorInv
<1> SUFFICES ASSUME Init
             PROVE  OrchestratorInv
  OBVIOUS
<1>1. TypeOK
  BY Beginnings, RunAssumption DEF Init, TypeOK, Calls, Places, Plans
<1>2. /\ \A h \in Handlers : calls[h].at = "idle"
      /\ \A i \in RunIds : /\ store[i].state = "ABSENT"
                           /\ log[i] = "none"
                           /\ history[i] = [approved |-> {}, generated |-> {},
                                            served |-> 0]
  BY DEF Init, Absent
<1>3. pm = 0
  BY DEF Init
<1> QED
  BY <1>1, <1>2, <1>3
     DEF OrchestratorInv, CopyInv, PlanInv, OneGenerationPerPlan, ReadersLetGo,
         Generating

\* What a step does to the marks: it only adds to them.
LEMMA MarksKept ==
    ASSUME TypeOK, [Next]_vars
    PROVE  /\ crossed' \subseteq RunIds
           /\ abandoned \subseteq abandoned' /\ abandoned' \subseteq RunIds
<1>1. \A h \in Handlers : calls[h].id \in RunIds
  BY DEF TypeOK, Calls
<1>2. CASE UNCHANGED marks
  BY <1>2 DEF TypeOK, marks
<1>3. ASSUME NEW i \in RunIds, Meet(i)
      PROVE  /\ crossed' \subseteq RunIds
             /\ abandoned \subseteq abandoned' /\ abandoned' \subseteq RunIds
  BY <1>3 DEF TypeOK, Meet
<1>4. ASSUME NEW h \in Handlers, Abandon(h)
      PROVE  /\ crossed' \subseteq RunIds
             /\ abandoned \subseteq abandoned' /\ abandoned' \subseteq RunIds
  BY <1>1, <1>4 DEF TypeOK, Abandon
<1>5. \/ UNCHANGED marks
      \/ \E i \in RunIds : Meet(i)
      \/ \E h \in Handlers : Abandon(h)
  BY DEF Next, vars, marks, Start, Answer, Reject, Approve, Generate, Forget,
         PMAnswers, AnalysisAsks, AnalysisAsksNothing, PlanAsks, Propose, PMFails,
         AgentAnswers, Opened, OpenFails, Chunk, Resume, Break, Finish, Charge,
         Leave, ChargeCancelled
<1> QED
  BY <1>2, <1>3, <1>4, <1>5

\* Every step preserves it.
LEMMA InvNext == OrchestratorInv /\ [Next]_vars => OrchestratorInv'
<1> SUFFICES ASSUME OrchestratorInv, [Next]_vars
             PROVE  OrchestratorInv'
  OBVIOUS
<1> USE DEF Generating
<1>a. /\ TypeOK
      /\ \A h \in Handlers : CopyInv(h)
      /\ \A i \in RunIds : PlanInv(i)
      /\ OneGenerationPerPlan
      /\ ReadersLetGo
  BY DEF OrchestratorInv
<1>b. /\ calls \in [Handlers -> Calls]
      /\ \A h \in Handlers : calls[h].run \in Runs /\ calls[h].id \in RunIds
  BY <1>a DEF TypeOK, Calls
<1>c. \A i \in RunIds : Stored(i) => store[i] \in Runs
  BY <1>a DEF TypeOK, Stored
<1>d. /\ crossed' \subseteq RunIds
      /\ abandoned \subseteq abandoned' /\ abandoned' \subseteq RunIds
  BY <1>b, MarksKept DEF OrchestratorInv
<1>1. ASSUME NEW h \in Handlers, NEW i \in RunIds, Start(h, i)
      PROVE  OrchestratorInv'
  <2>1. /\ calls' \in [Handlers -> Calls]
        /\ calls'[h].at = "analyze"
        /\ calls'[h].run = describing(NewRun)
        /\ \A g \in Handlers \ {h} : calls'[g] = calls[g]
    BY <1>b, <1>1, Handling, Beginnings DEF Start, Places
  <2>2. calls[h].at = "idle" /\ UNCHANGED <<store, pm, debited, log, history>>
    BY <1>1 DEF Start
  <2>3. TypeOK'
    BY <1>a, <1>d, <1>1, <2>1, <2>2 DEF TypeOK, Start
  <2> QED
    BY <1>a, <2>1, <2>2, <2>3, Beginnings
       DEF OrchestratorInv, CopyInv, PlanInv, OneGenerationPerPlan, ReadersLetGo
<1>2. ASSUME NEW h \in Handlers, AnalysisAsks(h) \/ PlanAsks(h)
      PROVE  OrchestratorInv'
  <2> DEFINE c == calls[h]
  <2>1. /\ c.at \in {"analyze", "plan"} /\ pm < MaxAnswers /\ pm' = pm + 1
        /\ put(c.id, asked(c.run))
        /\ history' = [history EXCEPT ![c.id].served = @ + 1]
        /\ End(h)
        /\ UNCHANGED <<known, debited, log>>
    BY <1>2 DEF AnalysisAsks, PlanAsks
  <2>2. may(c.run, "ASK") /\ c.run.rounds < MAX_ROUNDS
    <3>1. CASE AnalysisAsks(h)
      <4>1. c.run.state = "PM_ANALYSIS" /\ c.run.rounds = 0
        BY <1>a, <3>1 DEF AnalysisAsks, CopyInv
      <4> QED
        BY <1>b, <4>1, AnalysisMayAsk, RunAssumption
    <3>2. CASE PlanAsks(h)
      <4>1. may(c.run, "ASK") /\ rounds_left(c.run) > 0
        BY <3>2 DEF PlanAsks
      <4> QED
        BY <4>1 DEF rounds_left
    <3> QED
      BY <1>2, <3>1, <3>2
  <2>3. asked(c.run) \in Runs /\ asked(c.run).state = "QUESTIONNAIRE"
    BY <1>b, <2>2, Methods
  <2>4. /\ calls' \in [Handlers -> Calls]
        /\ calls'[h].at = "idle"
        /\ \A g \in Handlers \ {h} : calls'[g] = calls[g]
    BY <1>b, <2>1, Handling
  <2>5. /\ store' = [store EXCEPT ![c.id] = asked(c.run)]
        /\ store' \in [RunIds -> Runs \cup {Absent}]
    BY <1>a, <1>b, <2>1, <2>3 DEF put, TypeOK
  <2>6. \A i \in RunIds : /\ history'[i].approved = history[i].approved
                          /\ history'[i].generated = history[i].generated
                          /\ history'[i].served \in 0..(pm + 1)
    BY <1>a, <2>1 DEF TypeOK, PlanInv
  <2>7. pm \in Nat /\ pm + 1 \in 0..MaxAnswers
    BY <1>a, <2>1, RunAssumption DEF TypeOK
  <2>8. history' \in [RunIds -> [approved  : SUBSET Plans,
                                 generated : SUBSET Plans,
                                 served    : 0..MaxAnswers]]
    <3>1. history[c.id].served + 1 \in 0..MaxAnswers
      <4>1. c.id \in RunIds /\ PlanInv(c.id) /\ history[c.id].served \in Nat
        BY <1>a, <1>b DEF TypeOK
      <4>2. history[c.id].served <= pm
        BY <4>1 DEF PlanInv
      <4> QED
        BY <2>7, <4>1, <4>2, RunAssumption
    <3> QED
      BY <1>a, <1>b, <2>1, <3>1 DEF TypeOK
  <2>9. TypeOK'
    BY <1>a, <1>d, <2>1, <2>4, <2>5, <2>7, <2>8 DEF TypeOK
  <2>10. \A i \in RunIds : PlanInv(i)'
    BY <1>a, <2>1, <2>3, <2>5, <2>6, <2>7 DEF PlanInv, TypeOK
  <2>11. \A g \in Handlers : CopyInv(g)'
    BY <1>a, <1>b, <2>4, <2>6 DEF CopyInv
  <2> QED
    BY <1>a, <2>1, <2>4, <2>9, <2>10, <2>11
       DEF OrchestratorInv, OneGenerationPerPlan, ReadersLetGo
<1>3. ASSUME NEW h \in Handlers, AnalysisAsksNothing(h)
      PROVE  OrchestratorInv'
  <2> DEFINE c == calls[h]
  <2>1. c.run.state = "PM_ANALYSIS" /\ c.run.rounds = 0 /\ c.at = "analyze"
    BY <1>a, <1>3 DEF AnalysisAsksNothing, CopyInv
  <2>2. asked(c.run) \in Runs
    BY <1>b, <2>1, AnalysisMayAsk, Methods, RunAssumption
  <2>3. /\ calls' \in [Handlers -> Calls]
        /\ calls'[h].at = "plan"
        /\ \A g \in Handlers \ {h} : calls'[g] = calls[g]
    BY <1>b, <1>3, <2>2, Handling DEF AnalysisAsksNothing, Places
  <2>4. UNCHANGED <<store, pm, known, debited, log, history>>
    BY <1>3 DEF AnalysisAsksNothing
  <2>5. TypeOK'
    BY <1>a, <1>d, <2>3, <2>4 DEF TypeOK
  <2> QED
    BY <1>a, <2>1, <2>3, <2>4, <2>5
       DEF OrchestratorInv, CopyInv, PlanInv, OneGenerationPerPlan, ReadersLetGo
<1>4. ASSUME NEW h \in Handlers, NEW i \in RunIds, NEW ids \in SUBSET Questions,
             Answer(h, i, ids) \/ Reject(h, i)
      PROVE  OrchestratorInv'
  <2>1. \E p \in {"plan", "revise"}, run \in Runs : Suspend(h, p, i, run)
    <3>1. CASE Answer(h, i, ids)
      BY <1>c, <3>1, Methods DEF Answer
    <3>2. CASE Reject(h, i)
      BY <1>c, <3>2, Methods DEF Reject
    <3> QED
      BY <1>4, <3>1, <3>2
  <2>2. /\ calls' \in [Handlers -> Calls]
        /\ calls'[h].at \in {"plan", "revise"}
        /\ \A g \in Handlers \ {h} : calls'[g] = calls[g]
    BY <1>b, <2>1, Handling DEF Places
  <2>3. /\ calls[h].at = "idle"
        /\ UNCHANGED <<store, pm, known, debited, log, history>>
    BY <1>4 DEF Answer, Reject
  <2>4. TypeOK'
    BY <1>a, <1>d, <2>2, <2>3 DEF TypeOK
  <2> QED
    BY <1>a, <2>2, <2>3, <2>4
       DEF OrchestratorInv, CopyInv, PlanInv, OneGenerationPerPlan, ReadersLetGo
<1>5. ASSUME NEW h \in Handlers, Propose(h)
      PROVE  OrchestratorInv'
  <2> DEFINE c == calls[h]
             new == proposed(c.run, pm + 1)
  <2>1. /\ c.at \in {"plan", "revise"} /\ pm < MaxAnswers /\ pm' = pm + 1
        /\ may(c.run, "PROPOSE")
        /\ put(c.id, new)
        /\ End(h)
        /\ UNCHANGED <<known, debited, log, history>>
    BY <1>5 DEF Propose
  <2>2. pm \in Nat /\ pm + 1 \in 0..MaxAnswers /\ pm + 1 \in Plans
    BY <1>a, <2>1, RunAssumption DEF TypeOK, Plans
  <2>3. new \in Runs /\ new.state = "PLAN_REVIEW" /\ new.plan = pm + 1
    BY <1>b, <2>1, <2>2, Methods
  <2> HIDE DEF new
  <2>4. /\ calls' \in [Handlers -> Calls]
        /\ calls'[h].at = "idle"
        /\ \A g \in Handlers \ {h} : calls'[g] = calls[g]
    BY <1>b, <2>1, Handling
  <2>5. /\ store' = [store EXCEPT ![c.id] = new]
        /\ store' \in [RunIds -> Runs \cup {Absent}]
    BY <1>a, <1>b, <2>1, <2>3 DEF put, TypeOK
  <2>6. TypeOK'
    BY <1>a, <1>d, <2>1, <2>2, <2>4, <2>5 DEF TypeOK
  <2>7. \A i \in RunIds : PlanInv(i)'
    <3> SUFFICES ASSUME NEW i \in RunIds
                 PROVE  PlanInv(i)'
      OBVIOUS
    <3>1. /\ PlanInv(i) /\ history' = history
          /\ history[i].served \in Nat
      BY <1>a, <2>1 DEF TypeOK
    <3>2. CASE i = c.id
      BY <1>a, <2>1, <2>2, <2>3, <2>5, <3>1, <3>2 DEF PlanInv, TypeOK
    <3>3. CASE i # c.id
      BY <1>a, <2>1, <2>2, <2>5, <3>1, <3>3 DEF PlanInv, TypeOK
    <3> QED
      BY <3>2, <3>3
  <2> QED
    BY <1>a, <2>1, <2>4, <2>6, <2>7
       DEF OrchestratorInv, CopyInv, OneGenerationPerPlan, ReadersLetGo
<1>6. ASSUME NEW h \in Handlers, PMFails(h) \/ OpenFails(h)
      PROVE  OrchestratorInv'
  <2>1. /\ End(h)
        /\ calls[h].at \notin {"stream", "yield"}
        /\ UNCHANGED <<store, pm, known, debited, log, history>>
    BY <1>6 DEF PMFails, OpenFails
  <2>2. /\ calls' \in [Handlers -> Calls]
        /\ calls'[h].at = "idle"
        /\ \A g \in Handlers \ {h} : calls'[g] = calls[g]
    BY <1>b, <2>1, Handling
  <2>3. TypeOK'
    BY <1>a, <1>d, <2>1, <2>2 DEF TypeOK
  <2> QED
    BY <1>a, <2>1, <2>2, <2>3
       DEF OrchestratorInv, CopyInv, PlanInv, OneGenerationPerPlan, ReadersLetGo
<1>7. ASSUME NEW h \in Handlers, NEW i \in RunIds, Approve(h, i)
      PROVE  OrchestratorInv'
  <2> DEFINE new == approved(store[i])
             p == store[i].plan
  <2>1. /\ store[i] \in Runs /\ may(store[i], "APPROVE")
        /\ store' = [store EXCEPT ![i] = new]
        /\ history' = [history EXCEPT ![i].approved = @ \cup {p}]
        /\ UNCHANGED <<calls, pm, known, debited, log>>
    BY <1>c, <1>7 DEF Approve, put
  <2>2. /\ store[i].state = "PLAN_REVIEW" /\ new \in Runs
        /\ new.state = "PLAN_APPROVED" /\ new.plan = p
    BY <2>1, Methods
  <2>3. p \in (1..pm) \ history[i].approved /\ p \in Plans
    BY <1>a, <2>2, RunAssumption DEF PlanInv, TypeOK, Plans
  <2> HIDE DEF new
  <2>4. TypeOK'
    BY <1>a, <1>d, <2>1, <2>2, <2>3 DEF TypeOK
  <2>5. /\ history'[i].approved = history[i].approved \cup {p}
        /\ \A j \in RunIds : /\ history'[j].generated = history[j].generated
                             /\ history'[j].served = history[j].served
                             /\ j # i => history'[j] = history[j]
    BY <1>a, <2>1 DEF TypeOK
  <2>6. \A j \in RunIds : PlanInv(j)'
    <3> SUFFICES ASSUME NEW j \in RunIds
                 PROVE  PlanInv(j)'
      OBVIOUS
    <3>1. CASE j = i
      <4>1. store'[j] = new /\ pm' = pm
        BY <1>a, <2>1, <3>1 DEF TypeOK
      <4> QED
        BY <1>a, <2>2, <2>3, <2>5, <3>1, <4>1 DEF PlanInv
    <3>2. CASE j # i
      <4>1. store'[j] = store[j] /\ pm' = pm /\ history'[j] = history[j]
        BY <1>a, <2>1, <2>5, <3>2 DEF TypeOK
      <4> QED
        BY <1>a, <4>1 DEF PlanInv
    <3> QED
      BY <3>1, <3>2
  <2>7. \A g \in Handlers : CopyInv(g)'
    BY <1>a, <1>b, <2>1, <2>5 DEF CopyInv
  <2> QED
    BY <1>a, <2>1, <2>4, <2>6, <2>7
       DEF OrchestratorInv, OneGenerationPerPlan, ReadersLetGo
<1>8. ASSUME NEW h \in Handlers, NEW i \in RunIds, Generate(h, i)
      PROVE  OrchestratorInv'
  <2> DEFINE new == generating(store[i])
             p == store[i].plan
  <2>1. /\ store[i] \in Runs /\ may(store[i], "GENERATE")
        /\ calls[h].at = "idle"
        /\ store' = [store EXCEPT ![i] = new]
        /\ Suspend(h, "open", i, new)
        /\ history' = [history EXCEPT ![i].generated = @ \cup {p}]
        /\ UNCHANGED <<pm, known, debited, log>>
    BY <1>c, <1>8 DEF Generate, put
  <2>2. /\ store[i].state = "PLAN_APPROVED" /\ new \in Runs
        /\ new.state = "BACKEND_GENERATION" /\ new.plan = p
    BY <2>1, Methods
  <2>3. p \in history[i].approved \ history[i].generated
    BY <1>a, <2>2 DEF PlanInv
  <2> HIDE DEF new
  <2>4. /\ calls' \in [Handlers -> Calls]
        /\ calls'[h].at = "open" /\ calls'[h].id = i /\ calls'[h].run = new
        /\ \A g \in Handlers \ {h} : calls'[g] = calls[g]
    BY <1>b, <2>1, <2>2, Handling DEF Places
  <2>5. TypeOK'
    <3>1. p \in Plans
      BY <1>a, <2>3 DEF TypeOK
    <3> QED
      BY <1>a, <1>d, <2>1, <2>2, <2>4, <3>1 DEF TypeOK
  <2>6. /\ history'[i].generated = history[i].generated \cup {p}
        /\ \A j \in RunIds : /\ history'[j].approved = history[j].approved
                             /\ history'[j].served = history[j].served
                             /\ j # i => history'[j] = history[j]
    BY <1>a, <2>1 DEF TypeOK
  <2>7. \A j \in RunIds : PlanInv(j)'
    <3> SUFFICES ASSUME NEW j \in RunIds
                 PROVE  PlanInv(j)'
      OBVIOUS
    <3>1. CASE j = i
      <4>1. store'[j] = new /\ pm' = pm
        BY <1>a, <2>1, <3>1 DEF TypeOK
      <4> QED
        BY <1>a, <2>2, <2>3, <2>6, <3>1, <4>1 DEF PlanInv
    <3>2. CASE j # i
      <4>1. store'[j] = store[j] /\ pm' = pm /\ history'[j] = history[j]
        BY <1>a, <2>1, <2>6, <3>2 DEF TypeOK
      <4> QED
        BY <1>a, <4>1 DEF PlanInv
    <3> QED
      BY <3>1, <3>2
  <2>8. \A g \in Handlers : CopyInv(g)'
    <3> SUFFICES ASSUME NEW g \in Handlers
                 PROVE  CopyInv(g)'
      OBVIOUS
    <3>1. CASE g = h
      BY <2>2, <2>4, <2>6, <3>1 DEF CopyInv
    <3>2. CASE g # h
      BY <1>a, <1>b, <2>4, <2>6, <3>2 DEF CopyInv
    <3> QED
      BY <3>1, <3>2
  <2>9. OneGenerationPerPlan'
    <3>1. \A g \in Handlers \ {h} :
            calls[g].at \in Generating /\ calls[g].id = i
              => calls[g].run.plan # p
      BY <1>a, <2>3 DEF CopyInv
    <3> QED
      BY <1>a, <2>2, <2>4, <3>1 DEF OneGenerationPerPlan
  <2>10. ReadersLetGo'
    BY <1>a, <2>1, <2>4 DEF ReadersLetGo
  <2> QED
    BY <2>5, <2>7, <2>8, <2>9, <2>10 DEF OrchestratorInv
<1>9. ASSUME NEW h \in Handlers,
             Opened(h) \/ Resume(h) \/ \E artifact \in BOOLEAN : Chunk(h, artifact)
      PROVE  OrchestratorInv'
  <2> DEFINE c == calls[h]
  <2>1. PICK d \in Calls :
          /\ calls' = [calls EXCEPT ![h] = d]
          /\ d.at \in {"stream", "yield"} /\ d.id = c.id /\ d.run = c.run
    <3>1. CASE Opened(h)
      <4> DEFINE d == [c EXCEPT !.at = "stream"]
      <4>1. calls' = [calls EXCEPT ![h] = d]
        BY <1>b, <3>1 DEF Opened
      <4>2. d \in Calls /\ d.at = "stream" /\ d.id = c.id /\ d.run = c.run
        BY <1>b DEF Calls, Places
      <4> QED
        BY <4>1, <4>2
    <3>2. CASE Resume(h)
      <4> DEFINE d == [c EXCEPT !.at = "stream", !.chunk = FALSE,
                                !.scan = @ \/ c.chunk]
      <4>1. calls' = [calls EXCEPT ![h] = d]
        BY <1>b, <3>2 DEF Resume
      <4>2. (c.scan \/ c.chunk) \in BOOLEAN
        OBVIOUS
      <4>3. d \in Calls /\ d.at = "stream" /\ d.id = c.id /\ d.run = c.run
        BY <1>b, <4>2 DEF Calls, Places
      <4> QED
        BY <4>1, <4>3
    <3>3. ASSUME NEW artifact \in BOOLEAN, Chunk(h, artifact)
          PROVE  \E d \in Calls :
                   /\ calls' = [calls EXCEPT ![h] = d]
                   /\ d.at \in {"stream", "yield"} /\ d.id = c.id /\ d.run = c.run
      <4> DEFINE d == [c EXCEPT !.at = "yield", !.chunk = artifact]
      <4>1. calls' = [calls EXCEPT ![h] = d]
        BY <1>b, <3>3 DEF Chunk
      <4>2. d \in Calls /\ d.at = "yield" /\ d.id = c.id /\ d.run = c.run
        BY <1>b DEF Calls, Places
      <4> QED
        BY <4>1, <4>2
    <3> QED
      BY <1>9, <3>1, <3>2, <3>3
  <2>2. /\ c.at \in {"open", "stream", "yield"}
        /\ UNCHANGED <<store, pm, known, debited, history>>
        /\ log' \in [RunIds -> {"none", "open", "ended"}]
        /\ \A i \in RunIds : i # c.id => log'[i] = log[i]
    BY <1>a, <1>9 DEF Opened, Resume, Chunk, TypeOK
  <2>3. TypeOK'
    BY <1>a, <1>d, <2>1, <2>2 DEF TypeOK
  <2>4. /\ calls'[h] = d
        /\ \A g \in Handlers \ {h} : calls'[g] = calls[g]
    BY <1>b, <2>1
  <2>5. \A g \in Handlers : CopyInv(g)'
    BY <1>a, <2>1, <2>2, <2>4 DEF CopyInv
  <2>6. OneGenerationPerPlan'
    BY <1>a, <2>1, <2>2, <2>4 DEF OneGenerationPerPlan
  <2>7. ReadersLetGo'
    BY <1>a, <2>1, <2>2, <2>4 DEF ReadersLetGo
  <2> QED
    BY <1>a, <2>2, <2>3, <2>5, <2>6, <2>7 DEF OrchestratorInv, PlanInv
<1>10. ASSUME NEW h \in Handlers, Leave(h) \/ ChargeCancelled(h)
       PROVE  OrchestratorInv'
  <2>1. /\ End(h)
        /\ UNCHANGED <<store, pm, known, history>>
        /\ debited' \subseteq RunIds
        /\ \/ log' = [log EXCEPT ![calls[h].id] = "ended"]
           \/ log' = log /\ calls[h].at = "charge"
    BY <1>a, <1>b, <1>10 DEF Leave, ChargeCancelled, TypeOK
  <2>2. /\ calls' \in [Handlers -> Calls]
        /\ calls'[h].at = "idle"
        /\ \A g \in Handlers \ {h} : calls'[g] = calls[g]
    BY <1>b, <2>1, Handling
  <2>3. TypeOK'
    BY <1>a, <1>d, <2>1, <2>2 DEF TypeOK
  <2>4. ReadersLetGo'
    BY <1>a, <2>1, <2>2 DEF ReadersLetGo, TypeOK
  <2> QED
    BY <1>a, <2>1, <2>2, <2>3, <2>4
       DEF OrchestratorInv, CopyInv, PlanInv, OneGenerationPerPlan
<1>11. ASSUME NEW h \in Handlers, NEW run \in Runs,
              put(calls[h].id, run), End(h), UNCHANGED <<pm, known, history>>,
              run.state \in {"FAILED", "ZIP_READY"},
              debited' \subseteq RunIds,
              \/ log' = [log EXCEPT ![calls[h].id] = "ended"]
              \/ log' = log /\ calls[h].at = "charge"
       PROVE  OrchestratorInv'
  <2>1. /\ calls' \in [Handlers -> Calls]
        /\ calls'[h].at = "idle"
        /\ \A g \in Handlers \ {h} : calls'[g] = calls[g]
    BY <1>b, <1>11, Handling
  <2>2. store' = [store EXCEPT ![calls[h].id] = run]
    BY <1>11 DEF put
  <2>3. TypeOK'
    BY <1>a, <1>d, <1>b, <1>11, <2>1, <2>2 DEF TypeOK
  <2>4. ReadersLetGo'
    BY <1>a, <1>11, <2>1 DEF ReadersLetGo, TypeOK
  <2>5. \A i \in RunIds : PlanInv(i)'
    BY <1>a, <1>11, <2>2 DEF PlanInv, TypeOK
  <2> QED
    BY <1>a, <1>11, <2>1, <2>3, <2>4, <2>5
       DEF OrchestratorInv, CopyInv, OneGenerationPerPlan
<1>12. ASSUME NEW h \in Handlers, Break(h)
       PROVE  OrchestratorInv'
  <2>1. calls[h].run.state = "BACKEND_GENERATION"
    BY <1>a, <1>12 DEF Break, CopyInv
  <2>2. failed(calls[h].run) \in Runs /\ failed(calls[h].run).state = "FAILED"
    BY <1>b, <2>1, Methods
  <2> QED
    BY <1>a, <1>11, <1>12, <2>2 DEF Break, TypeOK
<1>13. ASSUME NEW h \in Handlers, Finish(h)
       PROVE  OrchestratorInv'
  <2> DEFINE c == calls[h]
  <2>1. c.at = "stream" /\ c.run.state = "BACKEND_GENERATION"
    BY <1>a, <1>13 DEF Finish, CopyInv
  <2>2. /\ failed(c.run) \in Runs /\ failed(c.run).state = "FAILED"
        /\ delivered(c.run) \in Runs /\ delivered(c.run).state = "ZIP_READY"
        /\ delivered(c.run).plan = c.run.plan
    BY <1>b, <2>1, Methods
  <2>3. CASE ~c.scan
    BY <1>a, <1>11, <1>13, <2>2, <2>3 DEF Finish, TypeOK
  <2>4. CASE c.scan
    <3>1. /\ Suspend(h, "charge", c.id, delivered(c.run))
          /\ log' = [log EXCEPT ![c.id] = "ended"]
          /\ UNCHANGED <<store, pm, known, debited, history>>
      BY <1>13, <2>4 DEF Finish
    <3>2. /\ calls' \in [Handlers -> Calls]
          /\ calls'[h].at = "charge" /\ calls'[h].id = c.id
          /\ calls'[h].run = delivered(c.run)
          /\ \A g \in Handlers \ {h} : calls'[g] = calls[g]
      BY <1>b, <2>2, <3>1, Handling DEF Places
    <3>3. TypeOK'
      BY <1>a, <1>d, <3>1, <3>2 DEF TypeOK
    <3>4. \A g \in Handlers : CopyInv(g)'
      BY <1>a, <2>1, <2>2, <3>1, <3>2 DEF CopyInv
    <3>5. OneGenerationPerPlan'
      BY <1>a, <2>1, <2>2, <3>2 DEF OneGenerationPerPlan
    <3>6. ReadersLetGo'
      BY <1>a, <3>1, <3>2 DEF ReadersLetGo, TypeOK
    <3> QED
      BY <1>a, <3>1, <3>3, <3>4, <3>5, <3>6 DEF OrchestratorInv, PlanInv
  <2> QED
    BY <2>3, <2>4
<1>14. ASSUME NEW h \in Handlers, Charge(h)
       PROVE  OrchestratorInv'
  <2>1. calls[h].run \in Runs /\ calls[h].run.state = "ZIP_READY"
    BY <1>a, <1>b, <1>14 DEF Charge, CopyInv
  <2>2. billed(calls[h].run) \in Runs /\ billed(calls[h].run).state = "ZIP_READY"
    BY <2>1, Methods
  <2>3. /\ calls[h].at = "charge" /\ End(h) /\ UNCHANGED <<pm, known, log, history>>
        /\ debited' \subseteq RunIds
        /\ \/ put(calls[h].id, billed(calls[h].run))
           \/ put(calls[h].id, calls[h].run)
    BY <1>a, <1>d, <1>b, <1>14 DEF Charge, TypeOK
  <2> QED
    BY <1>11, <2>1, <2>2, <2>3
<1>15. ASSUME NEW i \in RunIds, Forget(i)
       PROVE  OrchestratorInv'
  <2>1. TypeOK'
    BY <1>a, <1>d, <1>15 DEF Forget, TypeOK
  <2>2. \A j \in RunIds : PlanInv(j)'
    BY <1>a, <1>15 DEF Forget, PlanInv, TypeOK, Absent
  <2> QED
    BY <1>a, <1>15, <2>1, <2>2
       DEF Forget, OrchestratorInv, CopyInv, OneGenerationPerPlan, ReadersLetGo
<1>16. CASE UNCHANGED vars
  BY <1>a, <1>16
     DEF vars, OrchestratorInv, TypeOK, CopyInv, PlanInv, OneGenerationPerPlan,
         ReadersLetGo
<1> QED
  BY <1>1, <1>2, <1>3, <1>4, <1>5, <1>6, <1>7, <1>8, <1>9, <1>10, <1>12,
     <1>13, <1>14, <1>15, <1>16
     DEF Next, PMAnswers, AgentAnswers

\* In every behaviour, however requests interleave, fail and are abandoned:
\* the state is well-formed (no copy ever exceeds its rounds), a generation
\* starts only on an approved plan and once per approval, no plan is being
\* generated twice, and no reader is left on a log nobody writes.
THEOREM Safety ==
    Spec => [](TypeOK /\ Gated /\ ReadersLetGo)
<1>1. OrchestratorInv => TypeOK /\ Gated /\ ReadersLetGo
  BY DEF OrchestratorInv, GateHolds, PlanInv, Gated
<1> QED
  BY <1>1, InvInit, InvNext, PTL DEF Spec

\* Readers of a run's log are let go however its generation ended: an open log
\* has a generation behind it that is still streaming.
THEOREM ReadersReleased == Spec => []ReadersLetGo
BY Safety, PTL

\* A run stored as generating has a generation in flight, unless a client hung
\* up on it or its agent's stream did not open: every other way out of the
\* stream stores another state.
THEOREM GenerationTracked == Spec => []GeneratingIsTended
<1>1. Init => GeneratingIsTended
  BY DEF Init, GeneratingIsTended, Absent
<1>2. OrchestratorInv /\ GeneratingIsTended /\ [Next]_vars
        => GeneratingIsTended'
  <2> SUFFICES ASSUME OrchestratorInv, GeneratingIsTended, [Next]_vars
               PROVE  GeneratingIsTended'
    OBVIOUS
  <2> USE DEF GeneratingIsTended, Tended, Generating
  <2>a. /\ calls \in [Handlers -> Calls]
        /\ store \in [RunIds -> Runs \cup {Absent}]
        /\ \A h \in Handlers : /\ CopyInv(h)
                               /\ calls[h].run \in Runs /\ calls[h].id \in RunIds
        /\ \A i \in RunIds : Stored(i) => store[i] \in Runs
    BY DEF OrchestratorInv, TypeOK, Calls, Stored
  <2>d. abandoned \subseteq abandoned'
    BY MarksKept DEF OrchestratorInv
  <2>b. ASSUME NEW h \in Handlers, NEW run, End(h), put(calls[h].id, run),
               run.state # "BACKEND_GENERATION"
        PROVE  GeneratingIsTended'
    BY <2>a, <2>b, <2>d, Handling DEF put
  <2>c. ASSUME NEW h \in Handlers, store' = store,
               calls[h].at \notin Generating \/ calls[h].id \in abandoned',
               \A g \in Handlers \ {h} : calls'[g] = calls[g]
        PROVE  GeneratingIsTended'
    BY <2>c, <2>d
  <2>1. ASSUME NEW h \in Handlers, NEW i \in RunIds,
               NEW ids \in SUBSET Questions,
               Start(h, i) \/ Answer(h, i, ids) \/ Reject(h, i)
        PROVE  GeneratingIsTended'
    BY <2>a, <2>c, <2>1 DEF Start, Answer, Reject, Suspend
  <2>2. ASSUME NEW h \in Handlers, AnalysisAsksNothing(h) \/ PMFails(h)
        PROVE  GeneratingIsTended'
    BY <2>a, <2>c, <2>2 DEF AnalysisAsksNothing, PMFails, Suspend, End
  <2>3. ASSUME NEW h \in Handlers, AnalysisAsks(h) \/ PlanAsks(h)
        PROVE  GeneratingIsTended'
    <3>1. may(calls[h].run, "ASK")
      BY <2>a, <2>3, AnalysisMayAsk DEF AnalysisAsks, PlanAsks, CopyInv
    <3>2. moved(calls[h].run, "ASK")
            = [calls[h].run EXCEPT !.state = "QUESTIONNAIRE"]
      BY <2>a, <3>1, Moves
    <3>3. asked(calls[h].run).state = "QUESTIONNAIRE"
      BY <2>a, <3>2 DEF asked, Runs
    <3> QED
      BY <2>b, <2>3, <3>3 DEF AnalysisAsks, PlanAsks
  <2>4. ASSUME NEW h \in Handlers, Propose(h)
        PROVE  GeneratingIsTended'
    <3>1. moved(calls[h].run, "PROPOSE")
            = [calls[h].run EXCEPT !.state = "PLAN_REVIEW"]
      BY <2>a, <2>4, Moves DEF Propose
    <3>2. proposed(calls[h].run, pm + 1).state = "PLAN_REVIEW"
      BY <2>a, <3>1 DEF proposed, Runs
    <3> QED
      BY <2>b, <2>4, <3>2 DEF Propose
  <2>5. ASSUME NEW h \in Handlers, NEW i \in RunIds, Approve(h, i)
        PROVE  GeneratingIsTended'
    <3>1. approved(store[i]).state = "PLAN_APPROVED"
      BY <2>a, <2>5, Methods DEF Approve
    <3> QED
      BY <2>a, <2>d, <2>5, <3>1 DEF Approve, put
  <2>6. ASSUME NEW h \in Handlers, NEW i \in RunIds, Generate(h, i)
        PROVE  GeneratingIsTended'
    <3>1. generating(store[i]) \in Runs
      BY <2>a, <2>6, Methods DEF Generate
    <3>2. /\ calls'[h].at = "open" /\ calls'[h].id = i
          /\ \A g \in Handlers \ {h} : calls'[g] = calls[g]
      BY <2>a, <2>6, <3>1, Handling DEF Generate, Places
    <3> QED
      BY <2>a, <2>d, <2>6, <3>2 DEF Generate, put
  <2>7. ASSUME NEW h \in Handlers,
               Opened(h) \/ Resume(h) \/ \E artifact \in BOOLEAN : Chunk(h, artifact)
        PROVE  GeneratingIsTended'
    <3>1. /\ store' = store
          /\ calls'[h].at \in {"stream", "yield"} /\ calls'[h].id = calls[h].id
          /\ \A g \in Handlers \ {h} : calls'[g] = calls[g]
      BY <2>a, <2>7 DEF Opened, Resume, Chunk, Calls
    <3> QED
      BY <2>d, <3>1
  <2>8. ASSUME NEW h \in Handlers, Break(h) \/ Finish(h) \/ Charge(h)
        PROVE  GeneratingIsTended'
    <3>1. CASE Break(h)
      BY <2>a, <2>b, <3>1, Methods DEF Break, CopyInv
    <3>2. CASE Finish(h)
      <4>1. CASE ~calls[h].scan
        BY <2>a, <2>b, <3>2, <4>1, Methods DEF Finish, CopyInv
      <4>2. CASE calls[h].scan
        <5>1. delivered(calls[h].run) \in Runs
          BY <2>a, <3>2, Methods DEF Finish, CopyInv
        <5>2. /\ store' = store
              /\ calls'[h].at = "charge" /\ calls'[h].id = calls[h].id
              /\ \A g \in Handlers \ {h} : calls'[g] = calls[g]
          BY <2>a, <3>2, <4>2, <5>1, Handling DEF Finish, Places
        <5> QED
          BY <2>d, <5>2
      <4> QED
        BY <4>1, <4>2
    <3>3. CASE Charge(h)
      <4>1. /\ calls[h].run.state = "ZIP_READY"
            /\ billed(calls[h].run).state = "ZIP_READY"
        BY <2>a, <3>3, Methods DEF Charge, CopyInv
      <4> QED
        BY <2>b, <3>3, <4>1 DEF Charge
    <3> QED
      BY <2>8, <3>1, <3>2, <3>3
  <2>9. ASSUME NEW i \in RunIds, Forget(i)
        PROVE  GeneratingIsTended'
    BY <2>a, <2>d, <2>9 DEF Forget, Absent
  <2>10. CASE UNCHANGED vars
    BY <2>10 DEF vars
  <2>11. ASSUME NEW h \in Handlers, OpenFails(h) \/ Leave(h) \/ ChargeCancelled(h)
         PROVE  GeneratingIsTended'
    BY <2>a, <2>c, <2>11 DEF OpenFails, Leave, ChargeCancelled, Abandon, End
  <2> QED
    BY <2>1, <2>2, <2>3, <2>4, <2>5, <2>6, <2>7, <2>8, <2>9, <2>10, <2>11
       DEF Next, PMAnswers, AgentAnswers
<1> QED
  BY <1>1, <1>2, InvInit, InvNext, PTL DEF Spec

-----------------------------------------------------------------------------
(* The runs whose requests do not cross.  Such a run has at most one        *)
(* handler at it, and what the store shows of it is what that handler's     *)
(* copy was taken from, or nothing when the store has dropped it since.     *)

Working(h, i) == calls[h].id = i /\ calls[h].at # "idle"

\* The states a stored run can be in.
Shown == {"QUESTIONNAIRE", "PLAN_REVIEW", "PLAN_APPROVED",
          "BACKEND_GENERATION", "ZIP_READY", "FAILED"}

\* An id that was never drawn has left no trace.
DrawnInv(i) ==
    \/ i \in known
    \/ /\ ~Stored(i) /\ i \notin debited /\ history[i].served = 0
       /\ \A h \in Handlers : ~Working(h, i)

Lone(i) == \A g, h \in Handlers : Working(g, i) /\ Working(h, i) => g = h

ShownInv(i) ==
    Stored(i) =>
        /\ store[i].state \in Shown
        /\ store[i].plan <= pm
        /\ store[i].state = "QUESTIONNAIRE" => store[i].plan = NoPlan
        /\ history[i].served <= store[i].rounds

\* The copy c of run i, by itself and beside the stored run.
CopyOf(c, i) ==
    /\ history[i].served <= c.run.rounds
    /\ c.run.plan <= pm
    /\ c.run.state \in {"PM_ANALYSIS", "QUESTIONNAIRE"} => c.run.plan = NoPlan
    /\ c.at = "plan" => c.run.state \in Shown
    /\ c.at = "revise" => c.run.state = "PM_REVISION"
    /\ c.at = "charge" => c.run.artifact

BesideStored(c, i) ==
    Stored(i) =>
        /\ c.at # "analyze"
        /\ store[i].plan = c.run.plan
        /\ store[i].answers \subseteq c.run.answers
        /\ c.at \in {"plan", "open", "stream", "yield"}
             => store[i].state = c.run.state
        /\ c.at = "revise" => store[i].state = "PLAN_REVIEW"
        /\ c.at = "charge" => store[i].state = "BACKEND_GENERATION"
        /\ c.at \in Generating => store[i].answers = c.run.answers

\* A run in the ledger has been delivered, and nothing can be done to a
\* delivered run but answer it in vain.
DebitedInv(i) ==
    i \in debited \ abandoned =>
        /\ Stored(i) => store[i].state = "ZIP_READY" /\ store[i].artifact
        /\ \A h \in Handlers :
             Working(h, i) =>
                 calls[h].at = "plan" /\ calls[h].run.state = "ZIP_READY"

LoneInv(i) ==
    /\ Lone(i)
    /\ history[i].served <= MAX_ROUNDS
    /\ ShownInv(i)
    /\ \A h \in Handlers :
         Working(h, i) => CopyOf(calls[h], i) /\ BesideStored(calls[h], i)
    /\ DebitedInv(i)

LifeInv == \A i \in RunIds : DrawnInv(i) /\ (i \notin crossed => LoneInv(i))

\* What the methods of a run leave as it was.
LEMMA Kept ==
    ASSUME NEW run \in Runs
    PROVE  /\ may(run, "ASK") =>
                 /\ asked(run).rounds = run.rounds + 1
                 /\ asked(run).plan = run.plan
                 /\ asked(run).answers = run.answers
           /\ may(run, "PROPOSE") =>
                 /\ run.state \in {"PM_ANALYSIS", "QUESTIONNAIRE", "PM_REVISION"}
                 /\ \A plan \in Plans :
                      /\ proposed(run, plan).rounds = run.rounds
                      /\ proposed(run, plan).answers = run.answers
           /\ \A ids \in SUBSET Questions :
                 /\ answering(run, ids).state = run.state
                 /\ answering(run, ids).rounds = run.rounds
                 /\ answering(run, ids).plan = run.plan
                 /\ run.answers \subseteq answering(run, ids).answers
           /\ may(run, "REJECT") =>
                 /\ run.state = "PLAN_REVIEW"
                 /\ revising(rejected(run)).state = "PM_REVISION"
                 /\ revising(rejected(run)).rounds = run.rounds
                 /\ revising(rejected(run)).plan = run.plan
                 /\ revising(rejected(run)).answers = run.answers
           /\ may(run, "APPROVE") =>
                 /\ approved(run).rounds = run.rounds
                 /\ approved(run).answers = run.answers
           /\ may(run, "GENERATE") =>
                 /\ generating(run).rounds = run.rounds
                 /\ generating(run).answers = run.answers
           /\ run.state = "BACKEND_GENERATION" =>
                 /\ failed(run).rounds = run.rounds
                 /\ failed(run).plan = run.plan
                 /\ failed(run).answers = run.answers
                 /\ delivered(run).rounds = run.rounds
                 /\ delivered(run).answers = run.answers
                 /\ delivered(run).artifact
           /\ billed(run).rounds = run.rounds /\ billed(run).plan = run.plan
           /\ billed(run).answers = run.answers
           /\ billed(run).artifact = run.artifact
<1> USE Moves DEF Runs
<1>1. may(run, "ASK") =>
        /\ asked(run).rounds = run.rounds + 1
        /\ asked(run).plan = run.plan
        /\ asked(run).answers = run.answers
  <2>1. may(run, "ASK") => moved(run, "ASK") = [run EXCEPT !.state = "QUESTIONNAIRE"]
    OBVIOUS
  <2> QED
    BY <2>1 DEF asked
<1>2. may(run, "PROPOSE") =>
        /\ run.state \in {"PM_ANALYSIS", "QUESTIONNAIRE", "PM_REVISION"}
        /\ \A plan \in Plans :
             /\ proposed(run, plan).rounds = run.rounds
             /\ proposed(run, plan).answers = run.answers
  <2>1. DOMAIN PlanningRows = {"IDEA", "PM_ANALYSIS", "QUESTIONNAIRE"}
    BY DEF PlanningRows
  <2>2. DOMAIN ReviewRows = {"PLAN_REVIEW", "PLAN_REJECTED", "PM_REVISION",
                             "PLAN_APPROVED", "BACKEND_GENERATION"}
    BY DEF ReviewRows
  <2>3. may(run, "PROPOSE") =>
          run.state \in {"PM_ANALYSIS", "QUESTIONNAIRE", "PM_REVISION"}
    BY <2>1, <2>2 DEF RunState, TRANSITIONS, may, PlanningRows, ReviewRows, FinalRows
  <2>4. may(run, "PROPOSE") =>
          moved(run, "PROPOSE") = [run EXCEPT !.state = "PLAN_REVIEW"]
    OBVIOUS
  <2> QED
    BY <2>3, <2>4 DEF proposed
<1>3. \A ids \in SUBSET Questions :
        /\ answering(run, ids).state = run.state
        /\ answering(run, ids).rounds = run.rounds
        /\ answering(run, ids).plan = run.plan
        /\ run.answers \subseteq answering(run, ids).answers
  BY DEF answering
<1>4. may(run, "REJECT") =>
        /\ run.state = "PLAN_REVIEW"
        /\ revising(rejected(run)).state = "PM_REVISION"
        /\ revising(rejected(run)).rounds = run.rounds
        /\ revising(rejected(run)).plan = run.plan
        /\ revising(rejected(run)).answers = run.answers
  <2>1. DOMAIN PlanningRows = {"IDEA", "PM_ANALYSIS", "QUESTIONNAIRE"}
    BY DEF PlanningRows
  <2>2. DOMAIN ReviewRows = {"PLAN_REVIEW", "PLAN_REJECTED", "PM_REVISION",
                             "PLAN_APPROVED", "BACKEND_GENERATION"}
    BY DEF ReviewRows
  <2>3. may(run, "REJECT") => run.state = "PLAN_REVIEW"
    BY <2>1, <2>2 DEF RunState, TRANSITIONS, may, PlanningRows, ReviewRows, FinalRows
  <2> QED
    BY <2>3 DEF RunState
<1>5. may(run, "APPROVE") =>
        /\ approved(run).rounds = run.rounds
        /\ approved(run).answers = run.answers
  BY DEF approved
<1>6. may(run, "GENERATE") =>
        /\ generating(run).rounds = run.rounds
        /\ generating(run).answers = run.answers
  BY DEF generating
<1>7. run.state = "BACKEND_GENERATION" =>
        /\ failed(run).rounds = run.rounds
        /\ failed(run).plan = run.plan
        /\ failed(run).answers = run.answers
        /\ delivered(run).rounds = run.rounds
        /\ delivered(run).answers = run.answers
        /\ delivered(run).artifact
  <2>1. run.state = "BACKEND_GENERATION" =>
          /\ moved(run, "DELIVER") = [run EXCEPT !.state = "ZIP_READY"]
          /\ moved(run, "FAIL") = [run EXCEPT !.state = "FAILED"]
    OBVIOUS
  <2> QED
    BY <2>1 DEF failed, delivered
<1>8. /\ billed(run).rounds = run.rounds /\ billed(run).plan = run.plan
      /\ billed(run).answers = run.answers /\ billed(run).artifact = run.artifact
  BY DEF billed
<1> QED
  BY <1>1, <1>2, <1>3, <1>4, <1>5, <1>6, <1>7, <1>8

\* A step that does not touch run j.
Aside(j) ==
    /\ store'[j] = store[j] /\ history'[j] = history[j]
    /\ j \in crossed' <=> j \in crossed
    /\ j \in abandoned' <=> j \in abandoned
    /\ j \in debited' <=> j \in debited
    /\ \A h \in Handlers :
         \/ calls'[h] = calls[h]
         \/ /\ calls[h].at = "idle" \/ calls[h].id # j
            /\ calls'[h].at = "idle" \/ calls'[h].id # j

LifeInvOf(i) == DrawnInv(i) /\ (i \notin crossed => LoneInv(i))

\* Such a step leaves the invariant and the life of run j alone.
LEMMA Elsewhere ==
    ASSUME OrchestratorInv, OrchestratorInv', NEW j \in RunIds, LifeInvOf(j),
           Aside(j), known \subseteq known', pm <= pm'
    PROVE  LifeInvOf(j)' /\ LifeOf(j)' = LifeOf(j)
<1>1. /\ Stored(j)' <=> Stored(j)
      /\ \A h \in Handlers : Working(h, j)' <=> Working(h, j)
      /\ \A h \in Handlers : Working(h, j) => calls'[h] = calls[h]
  BY DEF Aside, Stored, Working
<1>2. DrawnInv(j)'
  BY <1>1 DEF LifeInvOf, DrawnInv, Aside
<1>3. ASSUME j \notin crossed'
      PROVE  LoneInv(j)'
  <2>1. LoneInv(j) /\ store'[j] = store[j] /\ history'[j] = history[j]
    BY <1>3 DEF LifeInvOf, Aside
  <2>2. Lone(j)'
    BY <1>1, <2>1 DEF LoneInv, Lone
  <2>3. /\ pm \in Nat /\ pm' \in Nat
        /\ Stored(j) => store[j].plan \in Nat
        /\ \A h \in Handlers : calls[h].run.plan \in Nat
    BY RunAssumption
       DEF OrchestratorInv, TypeOK, Calls, Runs, Stored, NoPlan, Plans
  <2>4. ShownInv(j)'
    BY <1>1, <2>1, <2>3 DEF LoneInv, ShownInv
  <2>5. ASSUME NEW h \in Handlers, Working(h, j)'
        PROVE  CopyOf(calls[h], j)' /\ BesideStored(calls[h], j)'
    <3>1. /\ CopyOf(calls[h], j) /\ BesideStored(calls[h], j)
          /\ calls'[h] = calls[h]
      BY <1>1, <2>1, <2>5 DEF LoneInv
    <3>2. CopyOf(calls[h], j)'
      BY <2>1, <2>3, <3>1 DEF CopyOf
    <3>3. BesideStored(calls[h], j)'
      BY <1>1, <2>1, <3>1 DEF BesideStored
    <3> QED
      BY <3>2, <3>3
  <2>6. DebitedInv(j)'
    BY <1>1, <2>1 DEF LoneInv, DebitedInv, Aside
  <2> QED
    BY <2>1, <2>2, <2>4, <2>5, <2>6 DEF LoneInv
<1>4. LifeOf(j)' = LifeOf(j)
  BY <1>1 DEF LifeOf, Aside
<1> QED
  BY <1>2, <1>3, <1>4 DEF LifeInvOf

\* What a reader sees of run i does not change, or changes as RunLife allows.
Goes(i) ==
    \/ LifeOf(i)' = LifeOf(i)
    \/ LifeOf(i).stage # "wild" /\ RL!Move(LifeOf(i), LifeOf(i)')

\* A step on run i: its invariant and its life, and every other run as it was.
Touches(i) ==
    /\ LifeInvOf(i)' /\ Goes(i)
    /\ \A j \in RunIds \ {i} : Aside(j)
    /\ known \subseteq known' /\ pm <= pm'

\* The stage each stored state is shown as.
LEMMA StageTable ==
    /\ StageOf("ABSENT") = "none"
    /\ StageOf("QUESTIONNAIRE") = "asking"
    /\ StageOf("PLAN_REVIEW") = "review"
    /\ StageOf("PLAN_APPROVED") = "approved"
    /\ StageOf("BACKEND_GENERATION") = "generating"
    /\ StageOf("ZIP_READY") = "ready"
    /\ StageOf("FAILED") = "failed"
BY DEF StageOf

\* The life of a run before a step and after it.
LEMMA Seen ==
    ASSUME NEW i \in RunIds
    PROVE  /\ i \notin crossed =>
                LifeOf(i) =
                  [stage   |-> StageOf(store[i].state),
                   plan    |-> IF Stored(i) THEN store[i].plan ELSE 0,
                   answers |-> IF Stored(i) THEN store[i].answers ELSE {},
                   asked   |-> history[i].served]
           /\ i \notin crossed' =>
                LifeOf(i)' =
                  [stage   |-> StageOf(store'[i].state),
                   plan    |-> IF Stored(i)' THEN store'[i].plan ELSE 0,
                   answers |-> IF Stored(i)' THEN store'[i].answers ELSE {},
                   asked   |-> history'[i].served]
BY DEF LifeOf

\* Two lives that differ in their stage only.
LEMMA Freezing ==
    ASSUME NEW s, NEW t, NEW plan, NEW answers, NEW n
    PROVE  RL!Frozen([stage |-> s, plan |-> plan, answers |-> answers, asked |-> n],
                     [stage |-> t, plan |-> plan, answers |-> answers, asked |-> n])
BY DEF RL!Frozen

\* A run whose requests meet is wild from then on.
LEMMA Crossing ==
    ASSUME NEW i \in RunIds, LifeInvOf(i), i \in crossed'
    PROVE  /\ DrawnInv(i)' => LifeInvOf(i)'
           /\ Goes(i)
<1>1. DrawnInv(i)' => LifeInvOf(i)'
  BY DEF LifeInvOf
<1>2. LifeOf(i)' = [stage |-> "wild", plan |-> 0, answers |-> {}, asked |-> 0]
  BY DEF LifeOf
<1>3. CASE i \in crossed
  BY <1>1, <1>2, <1>3 DEF Goes, LifeOf
<1>4. CASE i \notin crossed
  <2>1. StageOf(store[i].state) # "wild"
    BY <1>4, StageTable
       DEF LifeInvOf, LoneInv, ShownInv, Shown, Stored, Absent
  <2>2. LifeOf(i).stage # "wild"
    BY <1>4, <2>1, Seen
  <2>3. RL!Cross(LifeOf(i), LifeOf(i)')
    BY <1>2 DEF RL!Cross, RL!Unborn
  <2> QED
    BY <1>1, <2>2, <2>3 DEF Goes, RL!Move
<1> QED
  BY <1>3, <1>4

\* Of an uncrossed run only the handler that acts can be at work.
LEMMA Sole ==
    ASSUME NEW h \in Handlers, NEW i \in RunIds, Lone(i),
           Working(h, i) \/ ~Busy(i),
           \A g \in Handlers \ {h} : calls'[g] = calls[g]
    PROVE  Lone(i)' /\ \A g \in Handlers : Working(g, i)' => g = h
BY DEF Lone, Working, Busy

\* A step on run i that changes nothing a reader of the store can see.
LEMMA QuietStep ==
    ASSUME OrchestratorInv, OrchestratorInv',
           NEW h \in Handlers, NEW i \in RunIds, LifeInvOf(i), i \in known',
           UNCHANGED <<store, history, pm>>,
           \A g \in Handlers \ {h} : calls'[g] = calls[g],
           i \notin crossed' =>
             /\ i \notin crossed
             /\ Working(h, i) \/ ~Busy(i)
             /\ Working(h, i)' =>
                  CopyOf(calls[h], i)' /\ BesideStored(calls[h], i)'
             /\ i \in debited' \ abandoned' =>
                  /\ i \in debited \ abandoned
                  /\ Working(h, i)' => /\ calls'[h].at = "plan"
                                       /\ calls'[h].run.state = "ZIP_READY"
    PROVE  LifeInvOf(i)' /\ Goes(i)
<1>1. DrawnInv(i)'
  BY DEF DrawnInv
<1>2. CASE i \in crossed'
  BY <1>1, <1>2, Crossing
<1>3. CASE i \notin crossed'
  <2>1. LoneInv(i) /\ (Stored(i)' <=> Stored(i))
    BY <1>3 DEF LifeInvOf, Stored
  <2>2. Lone(i)' /\ \A g \in Handlers : Working(g, i)' => g = h
    BY <1>3, <2>1, Sole DEF LoneInv
  <2>3. ShownInv(i)' /\ history'[i].served <= MAX_ROUNDS
    BY <2>1 DEF LoneInv, ShownInv
  <2>4. \A g \in Handlers :
          Working(g, i)' => CopyOf(calls[g], i)' /\ BesideStored(calls[g], i)'
    BY <1>3, <2>2
  <2>5. DebitedInv(i)'
    BY <1>3, <2>1, <2>2 DEF LoneInv, DebitedInv
  <2>6. LifeOf(i)' = LifeOf(i)
    BY <1>3, <2>1, Seen
  <2> QED
    BY <1>1, <2>2, <2>3, <2>4, <2>5, <2>6 DEF LifeInvOf, LoneInv, Goes
<1> QED
  BY <1>2, <1>3

\* A handler at run i puts its result in the store and is done.
LEMMA PutStep ==
    ASSUME OrchestratorInv, OrchestratorInv',
           NEW h \in Handlers, NEW i \in RunIds, NEW run \in Runs,
           LifeInvOf(i), Working(h, i), put(i, run), End(h),
           known' = known, crossed' = crossed,
           i \notin crossed =>
             /\ run.state \in Shown /\ run.plan <= pm'
             /\ run.state = "QUESTIONNAIRE" => run.plan = NoPlan
             /\ history'[i].served <= run.rounds
             /\ i \in debited' \ abandoned' =>
                  run.state = "ZIP_READY" /\ run.artifact
             /\ RL!Move(LifeOf(i), LifeOf(i)')
    PROVE  LifeInvOf(i)' /\ Goes(i)
<1>1. i \in known /\ DrawnInv(i)'
  BY DEF LifeInvOf, DrawnInv
<1>2. CASE i \in crossed'
  BY <1>1, <1>2, Crossing
<1>3. CASE i \notin crossed'
  <2>1. LoneInv(i)
    BY <1>3 DEF LifeInvOf
  <2>2. /\ calls'[h].at = "idle"
        /\ \A g \in Handlers \ {h} : calls'[g] = calls[g]
    BY Handling DEF OrchestratorInv, TypeOK
  <2>3. \A g \in Handlers : ~Working(g, i)'
    BY <2>1, <2>2, Sole DEF LoneInv, Working
  <2>4. store'[i] = run
    BY DEF put, OrchestratorInv, TypeOK
  <2>5. /\ Stored(i)' /\ ShownInv(i)' /\ DebitedInv(i)'
        /\ history'[i].served <= MAX_ROUNDS
    <3>1. Stored(i)'
      BY <1>3, <2>4 DEF Stored, Absent, Runs, RunState
    <3>2. run.rounds \in Nat /\ run.rounds <= MAX_ROUNDS
      BY RunAssumption DEF Runs
    <3>3. history'[i].served \in Nat
      BY RunAssumption DEF OrchestratorInv, TypeOK
    <3>4. history'[i].served <= MAX_ROUNDS
      BY <1>3, <3>2, <3>3, RunAssumption
    <3> QED
      BY <1>3, <2>3, <2>4, <3>1, <3>4 DEF ShownInv, DebitedInv
  <2>6. LoneInv(i)'
    BY <2>3, <2>5 DEF LoneInv, Lone
  <2>7. LifeOf(i).stage # "wild"
    <3>1. StageOf(store[i].state) # "wild"
      BY <2>1, StageTable
         DEF LoneInv, ShownInv, Shown, Stored, Absent
    <3> QED
      BY <1>3, <3>1, Seen
  <2> QED
    BY <1>1, <1>3, <2>6, <2>7 DEF LifeInvOf, Goes
<1> QED
  BY <1>2, <1>3

\* Every step that does anything is a step on one run.
LEMMA LifeStep ==
    ASSUME OrchestratorInv, OrchestratorInv', LifeInv, [Next]_vars
    PROVE  UNCHANGED vars \/ \E i \in RunIds : Touches(i)
<1> USE DEF Generating
<1>a. /\ TypeOK
      /\ \A h \in Handlers : CopyInv(h)
      /\ \A i \in RunIds : PlanInv(i)
      /\ calls \in [Handlers -> Calls]
      /\ \A h \in Handlers : calls[h].run \in Runs /\ calls[h].id \in RunIds
      /\ \A i \in RunIds : LifeInvOf(i)
  BY DEF OrchestratorInv, TypeOK, Calls, LifeInv, LifeInvOf
<1>b. \A i \in RunIds : Stored(i) => store[i] \in Runs
  BY <1>a DEF TypeOK, Stored
<1>c. /\ pm \in Nat
      /\ \A run \in Runs : run.plan \in Nat /\ run.rounds \in Nat
      /\ \A i \in RunIds : history[i].served \in Nat
  BY <1>a, RunAssumption DEF TypeOK, Runs, NoPlan, Plans
<1>d. ASSUME NEW h \in Handlers, calls[h].at # "idle"
      PROVE  /\ Working(h, calls[h].id) /\ calls[h].id \in known
             /\ calls[h].id \notin crossed =>
                  /\ LoneInv(calls[h].id)
                  /\ CopyOf(calls[h], calls[h].id)
                  /\ BesideStored(calls[h], calls[h].id)
                  /\ calls[h].id \in debited \ abandoned =>
                       /\ calls[h].at = "plan"
                       /\ calls[h].run.state = "ZIP_READY"
  <2>1. Working(h, calls[h].id) /\ calls[h].id \in RunIds
    BY <1>a, <1>d DEF Working
  <2> QED
    BY <1>a, <2>1 DEF LifeInvOf, DrawnInv, LoneInv, DebitedInv
\* The handlers that suspend or wait.
<1>1. ASSUME NEW h \in Handlers, NEW i \in RunIds, Start(h, i)
      PROVE  \E j \in RunIds : Touches(j)
  <2>1. /\ calls'[h].at = "analyze" /\ calls'[h].id = i
        /\ calls'[h].run = describing(NewRun)
        /\ \A g \in Handlers \ {h} : calls'[g] = calls[g]
    BY <1>a, <1>1, Handling, Beginnings DEF Start, Places
  <2>2. /\ calls[h].at = "idle" /\ known' = known \cup {i}
        /\ UNCHANGED <<store, pm, debited, log, history, crossed, abandoned>>
    BY <1>1 DEF Start, marks
  <2>3. /\ ~Stored(i) /\ i \notin debited /\ history[i].served = 0
        /\ \A g \in Handlers : ~Working(g, i)
    BY <1>1, <1>a DEF Start, LifeInvOf, DrawnInv
  <2>4. /\ describing(NewRun).plan = NoPlan /\ describing(NewRun).rounds = 0
        /\ describing(NewRun).state = "PM_ANALYSIS"
    <3>1. NewRun \in Runs /\ NewRun.state = "IDEA" /\ NewRun.plan = NoPlan
      BY Beginnings DEF NewRun
    <3>2. moved(NewRun, "DESCRIBE") = [NewRun EXCEPT !.state = "PM_ANALYSIS"]
      BY <3>1, Moves
    <3> QED
      BY <3>1, <3>2, Beginnings DEF describing, Runs
  <2>5. CopyOf(calls[h], i)'
    BY <1>c, <2>1, <2>2, <2>3, <2>4 DEF CopyOf, NoPlan
  <2>6. BesideStored(calls[h], i)' /\ ~Busy(i)
    BY <2>2, <2>3 DEF BesideStored, Stored, Busy, Working
  <2>7. LifeInvOf(i)' /\ Goes(i)
    BY <1>a, <2>1, <2>2, <2>3, <2>5, <2>6, QuietStep
  <2>8. \A j \in RunIds \ {i} : Aside(j)
    BY <2>1, <2>2 DEF Aside
  <2> QED
    BY <1>c, <2>2, <2>7, <2>8 DEF Touches
<1>2. ASSUME NEW h \in Handlers, NEW i \in RunIds, NEW run \in Runs,
             NEW p \in {"plan", "revise"}, calls[h].at = "idle",
             Stored(i), Suspend(h, p, i, run), Meet(i),
             UNCHANGED <<store, pm, known, debited, log, history>>,
             run.rounds = store[i].rounds, run.plan = store[i].plan,
             store[i].answers \subseteq run.answers,
             \/ p = "plan" /\ run.state = store[i].state
             \/ /\ p = "revise" /\ run.state = "PM_REVISION"
                /\ store[i].state = "PLAN_REVIEW"
      PROVE  \E j \in RunIds : Touches(j)
  <2>1. /\ calls'[h].at = p /\ calls'[h].id = i /\ calls'[h].run = run
        /\ \A g \in Handlers \ {h} : calls'[g] = calls[g]
    BY <1>a, <1>2, Handling DEF Places
  <2>2. /\ abandoned' = abandoned
        /\ \A j \in RunIds \ {i} : j \in crossed' <=> j \in crossed
        /\ i \notin crossed' => i \notin crossed /\ ~Busy(i)
    BY <1>2 DEF Meet
  <2>3. ASSUME i \notin crossed'
        PROVE  /\ CopyOf(calls[h], i)' /\ BesideStored(calls[h], i)'
               /\ i \in debited' \ abandoned' =>
                    /\ i \in debited \ abandoned
                    /\ calls'[h].at = "plan"
                    /\ calls'[h].run.state = "ZIP_READY"
    <3>1. ShownInv(i) /\ DebitedInv(i)
      BY <1>a, <2>2, <2>3 DEF LifeInvOf, LoneInv
    <3>2. CopyOf(calls[h], i)'
      BY <1>2, <1>c, <2>1, <3>1 DEF CopyOf, ShownInv, Shown
    <3>3. BesideStored(calls[h], i)'
      BY <1>2, <2>1 DEF BesideStored
    <3> QED
      BY <1>2, <2>1, <2>2, <3>1, <3>2, <3>3 DEF DebitedInv
  <2>4. i \in known
    BY <1>a, <1>2 DEF LifeInvOf, DrawnInv
  <2>5. LifeInvOf(i)' /\ Goes(i)
    BY <1>a, <1>2, <2>1, <2>2, <2>3, <2>4, QuietStep
  <2>6. \A j \in RunIds \ {i} : Aside(j)
    BY <1>2, <2>1, <2>2 DEF Aside
  <2> QED
    BY <1>c, <1>2, <2>5, <2>6 DEF Touches
<1>3. ASSUME NEW h \in Handlers, NEW i \in RunIds,
             NEW ids \in SUBSET Questions, Answer(h, i, ids)
      PROVE  \E j \in RunIds : Touches(j)
  <2>1. store[i] \in Runs
    BY <1>b, <1>3 DEF Answer
  <2> QED
    BY <1>2, <1>3, <2>1, Methods, Kept DEF Answer
<1>4. ASSUME NEW h \in Handlers, NEW i \in RunIds, Reject(h, i)
      PROVE  \E j \in RunIds : Touches(j)
  <2>1. store[i] \in Runs
    BY <1>b, <1>4 DEF Reject
  <2> QED
    BY <1>2, <1>4, <2>1, Methods, Kept DEF Reject
<1>5. ASSUME NEW h \in Handlers, AnalysisAsksNothing(h)
      PROVE  \E j \in RunIds : Touches(j)
  <2> DEFINE c == calls[h]
  <2>0. PICK i \in RunIds : i = c.id
    BY <1>a
  <2>1. /\ c.at = "analyze" /\ Suspend(h, "plan", i, asked(c.run))
        /\ UNCHANGED <<store, pm, known, debited, log, history, crossed, abandoned>>
    BY <1>5, <2>0 DEF AnalysisAsksNothing, marks
  <2>2. /\ c.run \in Runs /\ i \in RunIds
        /\ c.run.state = "PM_ANALYSIS" /\ c.run.rounds = 0
    BY <1>a, <2>0, <2>1 DEF CopyInv
  <2>3. may(c.run, "ASK") /\ c.run.rounds < MAX_ROUNDS
    BY <2>2, AnalysisMayAsk, RunAssumption
  <2>4. /\ asked(c.run) \in Runs /\ asked(c.run).state = "QUESTIONNAIRE"
        /\ asked(c.run).rounds = c.run.rounds + 1
        /\ asked(c.run).plan = c.run.plan
    BY <2>2, <2>3, Methods, Kept
  <2>5. /\ calls'[h].at = "plan" /\ calls'[h].id = i
        /\ calls'[h].run = asked(c.run)
        /\ \A g \in Handlers \ {h} : calls'[g] = calls[g]
    BY <1>a, <2>0, <2>1, <2>4, Handling DEF Places
  <2>6. Working(h, i) /\ i \in known
    BY <1>d, <2>0, <2>1
  <2>7. ASSUME i \notin crossed
        PROVE  /\ CopyOf(calls[h], i)' /\ BesideStored(calls[h], i)'
               /\ i \notin debited' \ abandoned'
    <3>1. /\ CopyOf(c, i) /\ BesideStored(c, i)
          /\ i \notin debited \ abandoned
      BY <1>d, <2>0, <2>1, <2>7
    <3>2. CopyOf(calls[h], i)'
      BY <1>c, <2>0, <2>1, <2>2, <2>4, <2>5, <3>1 DEF CopyOf, Shown
    <3>3. ~Stored(i)
      BY <2>0, <2>1, <3>1 DEF BesideStored
    <3>4. BesideStored(calls[h], i)'
      BY <2>0, <2>1, <3>3 DEF BesideStored, Stored
    <3> QED
      BY <2>0, <2>1, <3>1, <3>2, <3>4
  <2>8. LifeInvOf(i)' /\ Goes(i)
    BY <1>a, <2>0, <2>1, <2>2, <2>5, <2>6, <2>7, QuietStep
  <2>9. \A j \in RunIds \ {i} : Aside(j)
    BY <2>0, <2>1, <2>5 DEF Aside
  <2> QED
    BY <1>c, <2>0, <2>1, <2>2, <2>8, <2>9 DEF Touches
<1>6. ASSUME NEW h \in Handlers,
             PMFails(h) \/ OpenFails(h) \/ Leave(h) \/ ChargeCancelled(h)
      PROVE  \E j \in RunIds : Touches(j)
  <2>0. PICK i \in RunIds : i = calls[h].id
    BY <1>a
  <2>1. /\ calls[h].at # "idle" /\ End(h)
        /\ UNCHANGED <<store, pm, known, history, crossed>>
        /\ i \in abandoned' \/ debited' = debited
        /\ \A j \in RunIds \ {i} : /\ j \in abandoned' <=> j \in abandoned
                                   /\ j \in debited' <=> j \in debited
        /\ abandoned \subseteq abandoned'
    BY <1>6, <2>0 DEF PMFails, OpenFails, Leave, ChargeCancelled, Abandon, marks
  <2>2. /\ calls'[h].at = "idle"
        /\ \A g \in Handlers \ {h} : calls'[g] = calls[g]
    BY <1>a, <2>0, <2>1, Handling
  <2>3. i \in RunIds /\ Working(h, i) /\ i \in known /\ ~Working(h, i)'
    BY <1>a, <1>d, <2>0, <2>1, <2>2 DEF Working
  <2>4. LifeInvOf(i)' /\ Goes(i)
    BY <1>a, <2>0, <2>1, <2>2, <2>3, QuietStep
  <2>5. \A j \in RunIds \ {i} : Aside(j)
    BY <2>0, <2>1, <2>2 DEF Aside
  <2> QED
    BY <1>c, <2>0, <2>1, <2>3, <2>4, <2>5 DEF Touches
<1>7. ASSUME NEW h \in Handlers, NEW p \in {"stream", "yield", "charge"},
             NEW run \in Runs,
             calls[h].at \in {"open", "stream", "yield"},
             calls'[h].at = p, calls'[h].id = calls[h].id, calls'[h].run = run,
             \A g \in Handlers \ {h} : calls'[g] = calls[g],
             UNCHANGED <<store, pm, known, debited, history, crossed, abandoned>>,
             run.rounds = calls[h].run.rounds, run.plan = calls[h].run.plan,
             run.answers = calls[h].run.answers,
             \/ p # "charge" /\ run.state = calls[h].run.state
             \/ p = "charge" /\ run.state = "ZIP_READY" /\ run.artifact
      PROVE  \E j \in RunIds : Touches(j)
  <2>0. PICK i \in RunIds : i = calls[h].id
    BY <1>a
  <2>1. /\ i \in RunIds /\ Working(h, i) /\ i \in known
        /\ calls[h].run.state = "BACKEND_GENERATION"
    BY <1>a, <1>d, <1>7, <2>0 DEF CopyInv
  <2>2. ASSUME i \notin crossed
        PROVE  /\ CopyOf(calls[h], i)' /\ BesideStored(calls[h], i)'
               /\ i \notin debited' \ abandoned'
    <3>1. /\ CopyOf(calls[h], i) /\ BesideStored(calls[h], i)
          /\ i \notin debited \ abandoned
      BY <1>d, <1>7, <2>0, <2>2
    <3>2. CopyOf(calls[h], i)'
      BY <1>7, <2>0, <2>1, <3>1 DEF CopyOf
    <3>3. BesideStored(calls[h], i)'
      BY <1>7, <2>0, <2>1, <3>1 DEF BesideStored, Stored
    <3> QED
      BY <1>7, <3>1, <3>2, <3>3
  <2>3. LifeInvOf(i)' /\ Goes(i)
    BY <1>a, <1>7, <2>0, <2>1, <2>2, QuietStep
  <2>4. \A j \in RunIds \ {i} : Aside(j)
    BY <1>7, <2>0 DEF Aside
  <2> QED
    BY <1>c, <1>7, <2>0, <2>1, <2>3, <2>4 DEF Touches
<1>8. ASSUME NEW h \in Handlers,
             Opened(h) \/ Resume(h) \/ \E artifact \in BOOLEAN : Chunk(h, artifact)
      PROVE  \E j \in RunIds : Touches(j)
  <2>1. /\ calls[h].at \in {"open", "stream", "yield"}
        /\ calls'[h].at \in {"stream", "yield"}
        /\ calls'[h].id = calls[h].id /\ calls'[h].run = calls[h].run
        /\ \A g \in Handlers \ {h} : calls'[g] = calls[g]
        /\ UNCHANGED <<store, pm, known, debited, history, crossed, abandoned>>
    BY <1>a, <1>8 DEF Opened, Resume, Chunk, Calls, marks
  <2> QED
    BY <1>a, <1>7, <2>1
\* The handlers that put a run in the store.
<1>9. ASSUME NEW h \in Handlers, NEW i \in RunIds, NEW run \in Runs,
             calls[h].at # "idle", calls[h].id = i,
             put(i, run), End(h),
             UNCHANGED <<known, crossed, abandoned>>, pm <= pm',
             \A j \in RunIds \ {i} :
                 /\ history'[j] = history[j]
                 /\ j \in debited' <=> j \in debited,
             i \notin crossed =>
               /\ run.state \in Shown /\ run.plan <= pm'
               /\ run.state = "QUESTIONNAIRE" => run.plan = NoPlan
               /\ history'[i].served <= run.rounds
               /\ i \in debited' \ abandoned' =>
                    run.state = "ZIP_READY" /\ run.artifact
               /\ RL!Move(LifeOf(i), LifeOf(i)')
      PROVE  \E j \in RunIds : Touches(j)
  <2>1. i \in RunIds /\ Working(h, i)
    BY <1>d, <1>9
  <2>2. LifeInvOf(i)' /\ Goes(i)
    BY <1>a, <1>9, <2>1, PutStep
  <2>3. \A g \in Handlers \ {h} : calls'[g] = calls[g]
    BY <1>a, <1>9, Handling
  <2>4. calls'[h].at = "idle"
    BY <1>a, <1>9, Handling
  <2>5. \A j \in RunIds \ {i} : Aside(j)
    BY <1>a, <1>9, <2>3, <2>4 DEF Aside, put, TypeOK
  <2> QED
    BY <1>9, <2>1, <2>2, <2>5 DEF Touches
<1>10. ASSUME NEW h \in Handlers, AnalysisAsks(h) \/ PlanAsks(h)
       PROVE  \E j \in RunIds : Touches(j)
  <2> DEFINE c == calls[h]
             run == asked(c.run)
  <2>0. PICK i \in RunIds : i = c.id
    BY <1>a
  <2>1. /\ c.at \in {"analyze", "plan"} /\ pm' = pm + 1
        /\ put(i, run) /\ End(h)
        /\ history' = [history EXCEPT ![i].served = @ + 1]
        /\ UNCHANGED <<known, debited, log, crossed, abandoned>>
    BY <1>10, <2>0 DEF AnalysisAsks, PlanAsks, marks
  <2>2. c.run \in Runs /\ may(c.run, "ASK") /\ c.run.rounds < MAX_ROUNDS
    <3>1. CASE AnalysisAsks(h)
      <4>1. c.run.state = "PM_ANALYSIS" /\ c.run.rounds = 0
        BY <1>a, <3>1 DEF AnalysisAsks, CopyInv
      <4> QED
        BY <1>a, <4>1, AnalysisMayAsk, RunAssumption
    <3>2. CASE PlanAsks(h)
      <4>1. may(c.run, "ASK") /\ rounds_left(c.run) > 0
        BY <3>2 DEF PlanAsks
      <4> QED
        BY <1>a, <4>1 DEF rounds_left
    <3> QED
      BY <1>10, <3>1, <3>2
  <2>3. /\ run \in Runs /\ run.state = "QUESTIONNAIRE"
        /\ run.rounds = c.run.rounds + 1 /\ run.plan = c.run.plan
        /\ run.answers = c.run.answers
        /\ c.run.state \in {"PM_ANALYSIS", "QUESTIONNAIRE"}
    BY <2>2, Methods, Kept, Moves
  <2>4. /\ history'[i].served = history[i].served + 1
        /\ \A j \in RunIds \ {i} : history'[j] = history[j]
        /\ store'[i] = run
    BY <1>a, <2>1 DEF TypeOK, put
  <2> HIDE DEF run
  <2>5. ASSUME i \notin crossed
        PROVE  /\ run.state \in Shown /\ run.plan <= pm'
               /\ run.plan = NoPlan
               /\ history'[i].served <= run.rounds
               /\ i \notin debited' \ abandoned'
               /\ RL!Move(LifeOf(i), LifeOf(i)')
    <3>1. /\ CopyOf(c, i) /\ BesideStored(c, i)
          /\ i \notin debited \ abandoned
      BY <1>d, <2>0, <2>1, <2>3, <2>5
    <3>2. c.run.plan = NoPlan /\ history[i].served <= c.run.rounds
      BY <2>3, <3>1 DEF CopyOf
    <3>3. history[i].served < MAX_ROUNDS
      BY <1>c, <2>2, <3>2, RunAssumption
    <3>4. Stored(i) => store[i].state = "QUESTIONNAIRE"
      <4>1. ASSUME Stored(i)
            PROVE  store[i].state = "QUESTIONNAIRE"
        <5>1. c.at = "plan" /\ store[i].state = c.run.state
          BY <2>1, <3>1, <4>1 DEF BesideStored
        <5> QED
          BY <2>3, <3>1, <5>1 DEF CopyOf, Shown
      <4> QED
        BY <4>1
    <3>5. Stored(i)'
      BY <2>3, <2>4 DEF Stored, Absent, Runs, RunState
    <3>6. LifeOf(i)' = [stage |-> "asking", plan |-> 0, answers |-> run.answers,
                        asked |-> history[i].served + 1]
      BY <2>1, <2>3, <2>4, <2>5, <3>2, <3>5, Seen, StageTable DEF NoPlan
    <3>7. /\ LifeOf(i).stage \in {"none", "asking"}
          /\ LifeOf(i).asked = history[i].served
          /\ LifeOf(i).stage # "none" => LifeOf(i).answers \subseteq run.answers
      <4>1. CASE Stored(i)
        BY <2>3, <2>5, <3>1, <3>4, <4>1, Seen, StageTable DEF BesideStored
      <4>2. CASE ~Stored(i)
        BY <2>5, <4>2, Seen, StageTable DEF Stored, Absent
      <4> QED
        BY <4>1, <4>2
    <3>8. RL!Ask(LifeOf(i), LifeOf(i)')
      BY <3>3, <3>6, <3>7 DEF RL!Ask, RL!Keeps
    <3> QED
      BY <1>c, <2>1, <2>2, <2>3, <2>4, <3>1, <3>2, <3>8 DEF RL!Move, Shown, NoPlan
  <2> QED
    BY <1>9, <1>c, <2>0, <2>1, <2>3, <2>4, <2>5
<1>11. ASSUME NEW h \in Handlers, Propose(h)
       PROVE  \E j \in RunIds : Touches(j)
  <2> DEFINE c == calls[h]
             run == proposed(c.run, pm + 1)
  <2>0. PICK i \in RunIds : i = c.id
    BY <1>a
  <2>1. /\ c.at \in {"plan", "revise"} /\ pm' = pm + 1 /\ pm < MaxAnswers
        /\ may(c.run, "PROPOSE")
        /\ put(i, run) /\ End(h)
        /\ UNCHANGED <<known, debited, log, history, crossed, abandoned>>
    BY <1>11, <2>0 DEF Propose, marks
  <2>2. pm + 1 \in Plans /\ c.run \in Runs
    BY <1>a, <1>c, <2>1, RunAssumption DEF Plans
  <2>3. /\ run \in Runs /\ run.state = "PLAN_REVIEW" /\ run.plan = pm + 1
        /\ run.rounds = c.run.rounds /\ run.answers = c.run.answers
        /\ c.run.state \in {"PM_ANALYSIS", "QUESTIONNAIRE", "PM_REVISION"}
    BY <2>1, <2>2, Methods, Kept
  <2>4. store'[i] = run
    BY <1>a, <2>1 DEF TypeOK, put
  <2> HIDE DEF run
  <2>5. ASSUME i \notin crossed
        PROVE  /\ run.state \in Shown
               /\ history'[i].served <= run.rounds
               /\ i \notin debited' \ abandoned'
               /\ RL!Move(LifeOf(i), LifeOf(i)')
    <3>1. /\ CopyOf(c, i) /\ BesideStored(c, i)
          /\ i \notin debited \ abandoned
      BY <1>d, <2>0, <2>1, <2>3, <2>5
    <3>2. c.run.plan <= pm /\ history[i].served <= c.run.rounds
      BY <3>1 DEF CopyOf
    <3>3. Stored(i) => store[i].state \in {"QUESTIONNAIRE", "PLAN_REVIEW"}
      BY <2>1, <2>3, <3>1 DEF BesideStored, CopyOf, Shown
    <3>4. Stored(i)'
      BY <2>3, <2>4 DEF Stored, Absent, Runs, RunState
    <3>5. LifeOf(i)' = [stage |-> "review", plan |-> pm + 1,
                        answers |-> run.answers, asked |-> history[i].served]
      BY <2>1, <2>3, <2>4, <2>5, <3>4, Seen, StageTable
    <3>6. /\ LifeOf(i).stage \in {"none", "asking", "review"}
          /\ LifeOf(i).asked = history[i].served
          /\ pm + 1 > LifeOf(i).plan
          /\ LifeOf(i).stage # "none" => LifeOf(i).answers \subseteq run.answers
      <4>1. CASE Stored(i)
        <5>1. store[i].plan = c.run.plan /\ store[i].answers \subseteq run.answers
          BY <2>3, <3>1, <4>1 DEF BesideStored
        <5>2. pm + 1 > store[i].plan
          BY <1>c, <2>2, <3>2, <5>1
        <5> QED
          BY <2>5, <3>3, <4>1, <5>1, <5>2, Seen, StageTable
      <4>2. CASE ~Stored(i)
        BY <1>c, <2>5, <4>2, Seen, StageTable DEF Stored, Absent
      <4> QED
        BY <4>1, <4>2
    <3>7. RL!Propose(LifeOf(i), LifeOf(i)')
      BY <3>5, <3>6 DEF RL!Propose, RL!Keeps
    <3> QED
      BY <2>1, <2>3, <3>1, <3>2, <3>7 DEF RL!Move, Shown
  <2> QED
    BY <1>9, <1>c, <2>0, <2>1, <2>3, <2>5
<1>12. ASSUME NEW h \in Handlers, NEW i \in RunIds, NEW run \in Runs,
              calls[h].at \in {"stream", "charge"}, calls[h].id = i,
              put(i, run), End(h),
              UNCHANGED <<pm, known, history, crossed, abandoned>>,
              \A j \in RunIds \ {i} : j \in debited' <=> j \in debited,
              run.state \in {"ZIP_READY", "FAILED"},
              run.rounds = calls[h].run.rounds, run.plan = calls[h].run.plan,
              run.answers = calls[h].run.answers,
              \/ debited' = debited
              \/ run.state = "ZIP_READY" /\ run.artifact
       PROVE  \E j \in RunIds : Touches(j)
  <2> DEFINE c == calls[h]
  <2>1. store'[i] = run
    BY <1>a, <1>12 DEF TypeOK, put
  <2>2. ASSUME i \notin crossed
        PROVE  /\ run.plan <= pm
               /\ history[i].served <= run.rounds
               /\ i \in debited' \ abandoned' =>
                    run.state = "ZIP_READY" /\ run.artifact
               /\ RL!Move(LifeOf(i), LifeOf(i)')
    <3>1. /\ CopyOf(c, i) /\ BesideStored(c, i)
          /\ i \notin debited \ abandoned
      BY <1>d, <1>12, <2>2
    <3>2. run.plan <= pm /\ history[i].served <= run.rounds
      BY <1>12, <3>1 DEF CopyOf
    <3>3. run.plan \in 1..pm
      BY <1>a, <1>12 DEF CopyInv, PlanInv
    <3>4. Stored(i)'
      BY <1>12, <2>1 DEF Stored, Absent, Runs, RunState
    <3>5. LifeOf(i)' = [stage |-> StageOf(run.state), plan |-> run.plan,
                        answers |-> run.answers, asked |-> history[i].served]
      BY <1>12, <2>1, <2>2, <3>4, Seen
    <3>6. StageOf(run.state) \in {"ready", "failed"}
      BY <1>12, StageTable
    <3>7. CASE Stored(i)
      <4>1. /\ store[i].state = "BACKEND_GENERATION"
            /\ store[i].plan = run.plan /\ store[i].answers = run.answers
        BY <1>a, <1>12, <3>1, <3>7 DEF BesideStored, CopyInv
      <4>2. LifeOf(i) = [stage |-> "generating", plan |-> run.plan,
                         answers |-> run.answers, asked |-> history[i].served]
        BY <2>2, <3>7, <4>1, Seen, StageTable
      <4>3. RL!Frozen(LifeOf(i), LifeOf(i)')
        BY <3>5, <4>2, Freezing
      <4>4. RL!Settle(LifeOf(i), LifeOf(i)')
        BY <3>5, <3>6, <4>2, <4>3 DEF RL!Settle
      <4> QED
        BY <1>12, <3>1, <3>2, <4>4 DEF RL!Move
    <3>8. CASE ~Stored(i)
      <4>1. LifeOf(i).stage = "none" /\ LifeOf(i).asked = history[i].served
        BY <2>2, <3>8, Seen, StageTable DEF Stored, Absent
      <4>2. RL!Outlive(LifeOf(i), LifeOf(i)')
        BY <1>c, <3>3, <3>5, <3>6, <4>1 DEF RL!Outlive
      <4> QED
        BY <1>12, <3>1, <3>2, <4>2 DEF RL!Move
    <3> QED
      BY <3>7, <3>8
  <2> QED
    BY <1>9, <1>c, <1>12, <2>2 DEF Shown
<1>13. ASSUME NEW h \in Handlers, Break(h) \/ Finish(h) \/ Charge(h)
       PROVE  \E j \in RunIds : Touches(j)
  <2> DEFINE c == calls[h]
  <2>0. PICK i \in RunIds : i = c.id
    BY <1>a
  <2>1. c.run \in Runs /\ c.at \in {"stream", "charge"}
    BY <1>a, <1>13 DEF Break, Finish, Charge
  <2>2. /\ c.at = "stream" => c.run.state = "BACKEND_GENERATION"
        /\ c.at = "charge" => c.run.state = "ZIP_READY"
    BY <1>a DEF CopyInv
  <2>3. CASE Break(h) \/ (Finish(h) /\ ~c.scan)
    <3>1. /\ c.at = "stream" /\ put(i, failed(c.run)) /\ End(h)
          /\ UNCHANGED <<pm, known, debited, history, crossed, abandoned>>
      BY <2>0, <2>3 DEF Break, Finish, marks
    <3>2. /\ failed(c.run) \in Runs /\ failed(c.run).state = "FAILED"
          /\ failed(c.run).rounds = c.run.rounds
          /\ failed(c.run).plan = c.run.plan
          /\ failed(c.run).answers = c.run.answers
      BY <2>1, <2>2, <3>1, Methods, Kept
    <3> QED
      BY <1>12, <2>0, <3>1, <3>2
  <2>4. CASE Finish(h) /\ c.scan
    <3>1. /\ c.at = "stream" /\ Suspend(h, "charge", c.id, delivered(c.run))
          /\ UNCHANGED <<store, pm, known, debited, history, crossed, abandoned>>
      BY <2>4 DEF Finish, marks
    <3>2. /\ delivered(c.run) \in Runs /\ delivered(c.run).state = "ZIP_READY"
          /\ delivered(c.run).rounds = c.run.rounds
          /\ delivered(c.run).plan = c.run.plan
          /\ delivered(c.run).answers = c.run.answers
          /\ delivered(c.run).artifact
      BY <2>1, <2>2, <3>1, Methods, Kept
    <3>3. /\ calls'[h].at = "charge" /\ calls'[h].id = c.id
          /\ calls'[h].run = delivered(c.run)
          /\ \A g \in Handlers \ {h} : calls'[g] = calls[g]
      BY <1>a, <3>1, <3>2, Handling DEF Places
    <3> QED
      BY <1>7, <3>1, <3>2, <3>3
  <2>5. CASE Charge(h)
    <3>1. /\ c.at = "charge" /\ End(h)
          /\ \/ put(i, billed(c.run)) /\ debited' = debited \cup {i}
             \/ put(i, c.run) /\ debited' = debited
          /\ UNCHANGED <<pm, known, history, crossed, abandoned>>
      BY <2>0, <2>5 DEF Charge, marks
    <3>2. /\ billed(c.run) \in Runs /\ billed(c.run).state = "ZIP_READY"
          /\ billed(c.run).rounds = c.run.rounds
          /\ billed(c.run).plan = c.run.plan
          /\ billed(c.run).answers = c.run.answers
          /\ billed(c.run).artifact = c.run.artifact
      BY <2>1, <2>2, <3>1, Methods, Kept
    <3>3. CASE put(i, c.run) /\ debited' = debited
      BY <1>12, <2>0, <2>1, <2>2, <3>1, <3>3
    <3>4. CASE put(i, billed(c.run)) /\ debited' = debited \cup {i}
      <4>1. CASE i \in crossed
        BY <1>9, <1>c, <2>0, <3>1, <3>2, <3>4, <4>1
      <4>2. CASE i \notin crossed
        <5>1. c.run.artifact
          BY <1>d, <2>0, <3>1, <4>2 DEF CopyOf
        <5> QED
          BY <1>12, <2>0, <3>1, <3>2, <3>4, <5>1
      <4> QED
        BY <4>1, <4>2
    <3> QED
      BY <3>1, <3>3, <3>4
  <2> QED
    BY <1>13, <2>3, <2>4, <2>5
<1>14. ASSUME NEW h \in Handlers, NEW i \in RunIds, Approve(h, i)
       PROVE  \E j \in RunIds : Touches(j)
  <2> DEFINE run == approved(store[i])
  <2>1. /\ Stored(i) /\ may(store[i], "APPROVE") /\ put(i, run) /\ Meet(i)
        /\ history' = [history EXCEPT ![i].approved = @ \cup {store[i].plan}]
        /\ UNCHANGED <<calls, pm, known, debited, log>>
    BY <1>14 DEF Approve
  <2>2. /\ run \in Runs /\ run.state = "PLAN_APPROVED"
        /\ run.plan = store[i].plan /\ run.rounds = store[i].rounds
        /\ run.answers = store[i].answers /\ store[i].state = "PLAN_REVIEW"
    BY <1>b, <2>1, Methods, Kept
  <2>3. /\ store'[i] = run /\ \A j \in RunIds \ {i} : store'[j] = store[j]
        /\ history'[i].served = history[i].served
        /\ \A j \in RunIds \ {i} : history'[j] = history[j]
    BY <1>a, <2>1 DEF TypeOK, put
  <2>4. /\ abandoned' = abandoned
        /\ \A j \in RunIds \ {i} : j \in crossed' <=> j \in crossed
        /\ i \notin crossed' => i \notin crossed /\ ~Busy(i)
    BY <2>1 DEF Meet
  <2> HIDE DEF run
  <2>5. Stored(i)' /\ i \in known /\ DrawnInv(i)'
    BY <1>a, <2>1, <2>2, <2>3
       DEF Stored, Absent, Runs, RunState, LifeInvOf, DrawnInv
  <2>6. LifeInvOf(i)' /\ Goes(i)
    <3>1. CASE i \in crossed'
      BY <1>a, <2>5, <3>1, Crossing
    <3>2. CASE i \notin crossed'
      <4>1. LoneInv(i) /\ \A g \in Handlers : ~Working(g, i)'
        BY <1>a, <2>1, <2>4, <3>2 DEF LifeInvOf, Busy, Working
      <4>2. i \notin debited' \ abandoned'
        BY <2>1, <2>2, <2>4, <4>1 DEF LoneInv, DebitedInv
      <4>3. LoneInv(i)'
        BY <2>1, <2>2, <2>3, <2>5, <4>1, <4>2
           DEF LoneInv, Lone, ShownInv, Shown, DebitedInv
      <4>4. LifeOf(i) = [stage |-> "review", plan |-> run.plan,
                         answers |-> run.answers, asked |-> history[i].served]
        BY <2>1, <2>2, <2>4, <3>2, Seen, StageTable
      <4>5. LifeOf(i)' = [stage |-> "approved", plan |-> run.plan,
                          answers |-> run.answers, asked |-> history[i].served]
        BY <2>2, <2>3, <2>5, <3>2, Seen, StageTable
      <4>6. RL!Approve(LifeOf(i), LifeOf(i)')
        BY <4>4, <4>5, Freezing DEF RL!Approve
      <4> QED
        BY <2>5, <4>3, <4>4, <4>6 DEF LifeInvOf, Goes, RL!Move
    <3> QED
      BY <3>1, <3>2
  <2>7. \A j \in RunIds \ {i} : Aside(j)
    BY <2>1, <2>3, <2>4 DEF Aside
  <2> QED
    BY <1>c, <2>1, <2>6, <2>7 DEF Touches
<1>15. ASSUME NEW h \in Handlers, NEW i \in RunIds, Generate(h, i)
       PROVE  \E j \in RunIds : Touches(j)
  <2> DEFINE run == generating(store[i])
  <2>1. /\ calls[h].at = "idle" /\ Stored(i) /\ may(store[i], "GENERATE")
        /\ put(i, run) /\ Suspend(h, "open", i, run) /\ Meet(i)
        /\ history' = [history EXCEPT ![i].generated = @ \cup {store[i].plan}]
        /\ UNCHANGED <<pm, known, debited, log>>
    BY <1>15 DEF Generate
  <2>2. /\ run \in Runs /\ run.state = "BACKEND_GENERATION"
        /\ run.plan = store[i].plan /\ run.rounds = store[i].rounds
        /\ run.answers = store[i].answers /\ store[i].state = "PLAN_APPROVED"
    BY <1>b, <2>1, Methods, Kept
  <2>3. /\ store'[i] = run /\ \A j \in RunIds \ {i} : store'[j] = store[j]
        /\ history'[i].served = history[i].served
        /\ \A j \in RunIds \ {i} : history'[j] = history[j]
    BY <1>a, <2>1 DEF TypeOK, put
  <2>4. /\ abandoned' = abandoned
        /\ \A j \in RunIds \ {i} : j \in crossed' <=> j \in crossed
        /\ i \notin crossed' => i \notin crossed /\ ~Busy(i)
    BY <2>1 DEF Meet
  <2> HIDE DEF run
  <2>5. Stored(i)' /\ i \in known /\ DrawnInv(i)'
    BY <1>a, <2>1, <2>2, <2>3
       DEF Stored, Absent, Runs, RunState, LifeInvOf, DrawnInv
  <2>8. /\ calls'[h].at = "open" /\ calls'[h].id = i /\ calls'[h].run = run
        /\ \A g \in Handlers \ {h} : calls'[g] = calls[g]
    BY <1>a, <2>1, <2>2, Handling DEF Places
  <2>6. LifeInvOf(i)' /\ Goes(i)
    <3>1. CASE i \in crossed'
      BY <1>a, <2>5, <3>1, Crossing
    <3>2. CASE i \notin crossed'
      <4>1. LoneInv(i)
        BY <1>a, <2>4, <3>2 DEF LifeInvOf
      <4>2. i \notin debited' \ abandoned'
        BY <2>1, <2>2, <2>4, <4>1 DEF LoneInv, DebitedInv
      <4>3. Lone(i)' /\ \A g \in Handlers : Working(g, i)' => g = h
        BY <2>4, <2>8, <3>2, <4>1, Sole DEF LoneInv
      <4>4. ShownInv(i)' /\ history'[i].served <= MAX_ROUNDS
        BY <2>1, <2>2, <2>3, <4>1 DEF LoneInv, ShownInv, Shown
      <4>5. CopyOf(calls[h], i)'
        BY <2>1, <2>2, <2>3, <2>8, <4>1 DEF LoneInv, ShownInv, CopyOf
      <4>6. BesideStored(calls[h], i)'
        BY <2>2, <2>3, <2>8 DEF BesideStored
      <4>7. LoneInv(i)'
        BY <4>2, <4>3, <4>4, <4>5, <4>6 DEF LoneInv, DebitedInv
      <4>8. LifeOf(i) = [stage |-> "approved", plan |-> run.plan,
                         answers |-> run.answers, asked |-> history[i].served]
        BY <2>1, <2>2, <2>4, <3>2, Seen, StageTable
      <4>9. LifeOf(i)' = [stage |-> "generating", plan |-> run.plan,
                          answers |-> run.answers, asked |-> history[i].served]
        BY <2>2, <2>3, <2>5, <3>2, Seen, StageTable
      <4>10. RL!Generate(LifeOf(i), LifeOf(i)')
        BY <4>8, <4>9, Freezing DEF RL!Generate
      <4> QED
        BY <2>5, <4>7, <4>8, <4>10 DEF LifeInvOf, Goes, RL!Move
    <3> QED
      BY <3>1, <3>2
  <2>7. \A j \in RunIds \ {i} : Aside(j)
    BY <2>1, <2>3, <2>4, <2>8 DEF Aside
  <2> QED
    BY <1>c, <2>1, <2>6, <2>7 DEF Touches
<1>16. ASSUME NEW i \in RunIds, Forget(i)
       PROVE  \E j \in RunIds : Touches(j)
  <2>1. /\ Stored(i) /\ store' = [store EXCEPT ![i] = Absent]
        /\ UNCHANGED <<calls, pm, known, debited, log, history, crossed, abandoned>>
    BY <1>16 DEF Forget, marks
  <2>2. /\ store'[i] = Absent /\ ~Stored(i)'
        /\ \A j \in RunIds \ {i} : store'[j] = store[j]
    BY <1>a, <2>1 DEF TypeOK, Stored
  <2>3. i \in known /\ DrawnInv(i)'
    BY <1>a, <2>1 DEF LifeInvOf, DrawnInv
  <2>4. LifeInvOf(i)' /\ Goes(i)
    <3>1. CASE i \in crossed'
      BY <1>a, <2>3, <3>1, Crossing
    <3>2. CASE i \notin crossed'
      <4>1. LoneInv(i) /\ \A g \in Handlers : Working(g, i)' <=> Working(g, i)
        BY <1>a, <2>1, <3>2 DEF LifeInvOf, Working
      <4>2. \A g \in Handlers :
              Working(g, i)' => CopyOf(calls[g], i)' /\ BesideStored(calls[g], i)'
        BY <2>1, <2>2, <4>1 DEF LoneInv, CopyOf, BesideStored
      <4>3. LoneInv(i)'
        BY <2>1, <2>2, <4>1, <4>2 DEF LoneInv, Lone, ShownInv, DebitedInv
      <4>4. LifeOf(i)' = [stage |-> "none", plan |-> 0, answers |-> {},
                          asked |-> history[i].served]
        BY <2>1, <2>2, <3>2, Seen, StageTable DEF Absent
      <4>5. /\ LifeOf(i).stage \notin {"none", "wild"}
            /\ LifeOf(i).asked = history[i].served
        <5>1. store[i].state \in Shown
          BY <2>1, <4>1 DEF LoneInv, ShownInv
        <5>2. StageOf(store[i].state) \notin {"none", "wild"}
          BY <5>1, StageTable DEF Shown
        <5> QED
          BY <2>1, <3>2, <5>2, Seen
      <4>6. RL!Vanish(LifeOf(i), LifeOf(i)')
        BY <4>4, <4>5 DEF RL!Vanish, RL!Unborn
      <4> QED
        BY <2>3, <4>3, <4>5, <4>6 DEF LifeInvOf, Goes, RL!Move
    <3> QED
      BY <3>1, <3>2
  <2>5. \A j \in RunIds \ {i} : Aside(j)
    BY <2>1, <2>2 DEF Aside
  <2> QED
    BY <1>c, <2>1, <2>4, <2>5 DEF Touches
<1> QED
  BY <1>1, <1>3, <1>4, <1>5, <1>6, <1>8, <1>10, <1>11, <1>13, <1>14, <1>15, <1>16
     DEF Next, PMAnswers, AgentAnswers

\* The invariant of the runs' lives holds from the start and is kept.
LEMMA LifeInit == Init => LifeInv
<1> SUFFICES ASSUME Init, NEW i \in RunIds
             PROVE  DrawnInv(i) /\ LoneInv(i)
  BY DEF LifeInv
<1>1. /\ store[i] = Absent /\ history[i].served = 0 /\ debited = {}
      /\ \A h \in Handlers : calls[h].at = "idle"
  BY DEF Init
<1> QED
  BY <1>1, RunAssumption
     DEF DrawnInv, LoneInv, Lone, ShownInv, DebitedInv, Stored, Working

\* A step touches one run and leaves the others aside.
LEMMA LifeNext ==
    OrchestratorInv /\ OrchestratorInv' /\ LifeInv /\ [Next]_vars => LifeInv'
<1> SUFFICES ASSUME OrchestratorInv, OrchestratorInv', LifeInv, [Next]_vars
             PROVE  LifeInv'
  OBVIOUS
<1>1. \A i \in RunIds : LifeInvOf(i)
  BY DEF LifeInv, LifeInvOf
<1>2. CASE UNCHANGED vars
  <2>1. pm <= pm' /\ known \subseteq known' /\ \A i \in RunIds : Aside(i)
    BY <1>2, RunAssumption DEF vars, Aside, OrchestratorInv, TypeOK
  <2> QED
    BY <1>1, <2>1, Elsewhere DEF LifeInv, LifeInvOf
<1>3. ASSUME NEW i \in RunIds, Touches(i)
      PROVE  LifeInv'
  <2>1. \A j \in RunIds \ {i} : LifeInvOf(j)'
    BY <1>1, <1>3, Elsewhere DEF Touches
  <2> QED
    BY <1>3, <2>1 DEF Touches, LifeInv, LifeInvOf
<1> QED
  BY <1>2, <1>3, LifeStep

\* A run in the ledger was delivered: once no request is at it, the stored run
\* names its artifact, unless its client hung up or two of its requests were
\* served at once.
THEOREM DebitedIsDelivered == Spec => []PaidMeansDelivered
<1>1. OrchestratorInv /\ LifeInv => PaidMeansDelivered
  <2> SUFFICES ASSUME OrchestratorInv, LifeInv,
                      NEW i \in debited \ (crossed \cup abandoned),
                      Stored(i), ~Busy(i)
               PROVE  store[i].artifact
    BY DEF PaidMeansDelivered
  <2> QED
    BY DEF OrchestratorInv, TypeOK, LifeInv, LoneInv, DebitedInv
<1> QED
  BY <1>1, LifeInit, LifeNext, InvInit, InvNext, PTL DEF Spec

\* The invariant makes what a reader sees a life of RunLife's.
LEMMA LifeTyped ==
    ASSUME OrchestratorInv', LifeInv', NEW i \in RunIds
    PROVE  LifeOf(i)' \in RL!Lives
<1>1. CASE i \in crossed'
  <2>1. LifeOf(i)' = [stage |-> "wild", plan |-> 0, answers |-> {}, asked |-> 0]
    BY <1>1 DEF LifeOf
  <2> QED
    BY <2>1, RunAssumption DEF RL!Lives, RL!Stages
<1>2. CASE i \notin crossed'
  <2>1. LoneInv(i)'
    BY <1>2 DEF LifeInv
  <2>2. history'[i].served \in 0..MAX_ROUNDS
    BY <2>1, RunAssumption DEF LoneInv, OrchestratorInv, TypeOK
  <2>3. CASE Stored(i)'
    <3>1. store'[i] \in Runs /\ store'[i].state \in Shown
      BY <2>1, <2>3 DEF LoneInv, ShownInv, OrchestratorInv, TypeOK, Stored
    <3>2. StageOf(store'[i].state) \in RL!Stages
      BY <3>1, StageTable DEF Shown, RL!Stages
    <3>3. store'[i].plan \in Nat /\ store'[i].answers \in SUBSET Questions
      BY <3>1, RunAssumption DEF Runs, NoPlan, Plans
    <3> QED
      BY <1>2, <2>2, <2>3, <3>2, <3>3, Seen DEF RL!Lives
  <2>4. CASE ~Stored(i)'
    <3>1. StageOf(store'[i].state) \in RL!Stages
      BY <2>4, StageTable DEF Stored, Absent, RL!Stages
    <3> QED
      BY <1>2, <2>2, <2>4, <3>1, Seen DEF RL!Lives
  <2> QED
    BY <2>3, <2>4
<1> QED
  BY <1>1, <1>2

\* Orchestrator implements RunLife: whatever a reader of the store sees of a
\* run whose requests do not cross - nothing answered is lost, plans only get
\* newer, at most MAX_ROUNDS questionnaires, nothing but the stage changes from
\* approval on - for any number of runs and handlers.
THEOREM Implements == Spec => LivesAsPromised
<1>1. Init => RL!Init
  <2> SUFFICES ASSUME Init
               PROVE  RL!Init
    OBVIOUS
  <2>1. ASSUME NEW i \in RunIds
        PROVE  LifeOf(i) = RL!Unborn
    <3>1. i \notin crossed /\ store[i] = Absent /\ history[i].served = 0
      BY DEF Init
    <3> QED
      BY <3>1, Seen, StageTable DEF RL!Unborn, Stored, Absent
  <2> QED
    BY <2>1 DEF RL!Init
<1>2. OrchestratorInv /\ OrchestratorInv' /\ LifeInv /\ LifeInv' /\ [Next]_vars
        => [RL!Next]_([i \in RunIds |-> LifeOf(i)])
  <2> SUFFICES ASSUME OrchestratorInv, OrchestratorInv', LifeInv, LifeInv',
                      [Next]_vars
               PROVE  \/ RL!Next
                      \/ UNCHANGED [i \in RunIds |-> LifeOf(i)]
    OBVIOUS
  <2>1. CASE UNCHANGED vars
    BY <2>1 DEF vars, LifeOf, Stored
  <2>2. ASSUME NEW i \in RunIds, Touches(i)
        PROVE  \/ RL!Next
               \/ UNCHANGED [j \in RunIds |-> LifeOf(j)]
    <3>1. \A j \in RunIds \ {i} : LifeOf(j)' = LifeOf(j)
      BY <2>2, Elsewhere DEF Touches, LifeInv, LifeInvOf
    <3>2. CASE LifeOf(i)' = LifeOf(i)
      BY <3>1, <3>2
    <3>3. CASE LifeOf(i).stage # "wild" /\ RL!Move(LifeOf(i), LifeOf(i)')
      <4>1. \A j \in RunIds : LifeOf(j)' \in RL!Lives
        BY LifeTyped
      <4> HIDE DEF LifeOf
      <4> QED
        BY <3>1, <3>3, <4>1 DEF RL!Next
    <3> QED
      BY <2>2, <3>2, <3>3 DEF Touches, Goes
  <2> QED
    BY <2>1, <2>2, LifeStep
<1> QED
  BY <1>1, <1>2, LifeInit, LifeNext, InvInit, InvNext, PTL
     DEF Spec, LivesAsPromised, RL!Spec

=============================================================================
