--------------------------------- MODULE Run ---------------------------------
(***************************************************************************)
(* src/gateway/domain/runs.py: the run, an immutable value, and the moves  *)
(* its state allows.  Each method is a function from the run before to the *)
(* run after; may(run, event) is the guard whose failure is                *)
(* IllegalTransitionError.                                                 *)
(*                                                                         *)
(* Of a run's data the properties tell apart which plan it holds, which    *)
(* questions have been answered, and whether it has an artifact and a      *)
(* charge.  A plan is the number of the PM's answer that carried it.       *)
(***************************************************************************)
EXTENDS Naturals

CONSTANTS
    MAX_ROUNDS,   \* questionnaires a run may serve
    Questions,    \* ids of the questions a questionnaire may hold
    MaxAnswers    \* bound: usable answers the PM gives, over all runs

ASSUME RunAssumption ==
    /\ MAX_ROUNDS \in Nat \ {0}
    /\ MaxAnswers \in Nat

NoPlan == 0
Plans  == 1..MaxAnswers

RunState == {"IDEA", "PM_ANALYSIS", "QUESTIONNAIRE", "PLAN_REVIEW",
             "PLAN_REJECTED", "PM_REVISION", "PLAN_APPROVED",
             "BACKEND_GENERATION", "ZIP_READY", "FAILED"}

RunEvent == {"DESCRIBE", "ASK", "PROPOSE", "REJECT", "REVISE", "APPROVE",
             "GENERATE", "DELIVER", "FAIL", "RESET"}

Runs == [state    : RunState,
         rounds   : 0..MAX_ROUNDS,
         answers  : SUBSET Questions,
         plan     : {NoPlan} \cup Plans,
         artifact : BOOLEAN,
         charged  : BOOLEAN]

-----------------------------------------------------------------------------
(* Plausible bugs of the definitions below, used to test the properties.   *)

\* A table in which a plan under review may be generated.
RowsWithGateAjar ==
    [PLAN_REVIEW        |-> [REJECT |-> "PLAN_REJECTED",
                             APPROVE |-> "PLAN_APPROVED",
                             GENERATE |-> "BACKEND_GENERATION"],
     PLAN_REJECTED      |-> [REVISE |-> "PM_REVISION"],
     PM_REVISION        |-> [PROPOSE |-> "PLAN_REVIEW"],
     PLAN_APPROVED      |-> [GENERATE |-> "BACKEND_GENERATION"],
     BACKEND_GENERATION |-> [DELIVER |-> "ZIP_READY"]]

\* A table in which an approved plan may still be rejected.
RowsWithWayBack ==
    [PLAN_REVIEW        |-> [REJECT |-> "PLAN_REJECTED",
                             APPROVE |-> "PLAN_APPROVED"],
     PLAN_REJECTED      |-> [REVISE |-> "PM_REVISION"],
     PM_REVISION        |-> [PROPOSE |-> "PLAN_REVIEW"],
     PLAN_APPROVED      |-> [GENERATE |-> "BACKEND_GENERATION",
                             REJECT |-> "PLAN_REJECTED"],
     BACKEND_GENERATION |-> [DELIVER |-> "ZIP_READY"]]

\* Each round's answers replace the last round's.
AnswersReplaced(run, ids) == [run EXCEPT !.answers = ids]

-----------------------------------------------------------------------------

\* TRANSITIONS, row by row: the rows up to the plan, the rows after it, and
\* the two final states.
PlanningRows ==
    [IDEA               |-> [DESCRIBE |-> "PM_ANALYSIS"],
     PM_ANALYSIS        |-> [ASK |-> "QUESTIONNAIRE", PROPOSE |-> "PLAN_REVIEW"],
     QUESTIONNAIRE      |-> [DESCRIBE |-> "PM_ANALYSIS", ASK |-> "QUESTIONNAIRE",
                             PROPOSE |-> "PLAN_REVIEW"]]

ReviewRows ==
    [PLAN_REVIEW        |-> [REJECT |-> "PLAN_REJECTED",
                             APPROVE |-> "PLAN_APPROVED"],
     PLAN_REJECTED      |-> [REVISE |-> "PM_REVISION"],
     PM_REVISION        |-> [PROPOSE |-> "PLAN_REVIEW"],
     PLAN_APPROVED      |-> [GENERATE |-> "BACKEND_GENERATION"],
     BACKEND_GENERATION |-> [DELIVER |-> "ZIP_READY"]]

FinalRows ==
    [ZIP_READY          |-> [RESET |-> "IDEA"],
     FAILED             |-> [RESET |-> "IDEA"]]

TRANSITIONS ==
    [s \in RunState |->
        IF s \in DOMAIN PlanningRows THEN PlanningRows[s]
        ELSE IF s \in DOMAIN ReviewRows THEN ReviewRows[s]
        ELSE FinalRows[s]]

FAILABLE == RunState \ {"ZIP_READY", "FAILED"}

may(run, event) ==
    IF event = "FAIL" THEN run.state \in FAILABLE
                      ELSE event \in DOMAIN TRANSITIONS[run.state]

\* _moved: meaningful only where may(run, event).
moved(run, event) ==
    [run EXCEPT !.state = IF event = "FAIL" THEN "FAILED"
                                            ELSE TRANSITIONS[@][event]]

\* Run.start
NewRun == [state |-> "IDEA", rounds |-> 0, answers |-> {}, plan |-> NoPlan,
           artifact |-> FALSE, charged |-> FALSE]

describing(run)     == moved(run, "DESCRIBE")
asked(run)          == [moved(run, "ASK") EXCEPT !.rounds = @ + 1]
answering(run, ids) == [run EXCEPT !.answers = @ \cup ids]
proposed(run, plan) == [moved(run, "PROPOSE") EXCEPT !.plan = plan]
rejected(run)       == moved(run, "REJECT")
revising(run)       == moved(run, "REVISE")
approved(run)       == moved(run, "APPROVE")
generating(run)     == moved(run, "GENERATE")
delivered(run)      == [moved(run, "DELIVER") EXCEPT !.artifact = TRUE]
failed(run)         == moved(run, "FAIL")
billed(run)         == [run EXCEPT !.charged = TRUE]

rounds_left(run) == IF run.rounds < MAX_ROUNDS THEN MAX_ROUNDS - run.rounds ELSE 0

=============================================================================
