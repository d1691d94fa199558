----------------------------- MODULE Orchestrator -----------------------------
(***************************************************************************)
(* RunOrchestrator of src/gateway/application/orchestration.py, with the   *)
(* run store (src/gateway/infrastructure/runs.py) it keeps runs in and the *)
(* two agents and the ledger as its environment.                           *)
(*                                                                         *)
(* An operation is a coroutine.  The store's lock is never held across a   *)
(* suspension, so get, a transition of the copy, and put form one step     *)
(* unless a call to an agent or to the ledger lies between them; then the  *)
(* operation works on a copy that other operations may have overtaken by   *)
(* the time it is put back.  put replaces whatever is stored.              *)
(***************************************************************************)
EXTENDS Run

CONSTANTS
    RunIds,        \* ids Run.start may draw
    Handlers       \* requests being served concurrently

VARIABLES
    store,      \* InMemoryRunStore._runs; Absent when not there
    calls,      \* what each handler's coroutine holds
    pm,         \* number of usable answers the PM has given; numbers plans
    known,      \* ids drawn so far
    debited,    \* ledger: runs with a usage entry (keyed by run id)
    log,        \* RunLog, reduced to: never started, open, or ended
    history,    \* per run: plans approved, plans generated, questionnaires
    crossed,    \* history: runs two of whose requests were served at once
    abandoned   \* history: runs whose client hung up on a generation, or
                \* whose agent refused one

marks == <<crossed, abandoned>>
vars == <<store, calls, pm, known, debited, log, history, crossed, abandoned>>

Absent == [state |-> "ABSENT"]

(* at    where the coroutine is suspended: asking the PM (analyze, plan,    *)
(*       revise), opening the agent's stream, waiting for a chunk, at the   *)
(*       yield with a chunk the scan has not read, charging                 *)
(* run   its copy                                                           *)
(* chunk the chunk at the yield names the artifact                          *)
(* scan  what StreamScan has read: an artifact or nothing                   *)
Places == {"idle", "analyze", "plan", "revise", "open", "stream", "yield",
           "charge"}

Calls == [at : Places, id : RunIds, run : Runs, chunk : BOOLEAN, scan : BOOLEAN]

Generating == {"open", "stream", "yield", "charge"}

TypeOK ==
    /\ store \in [RunIds -> Runs \cup {Absent}]
    /\ calls \in [Handlers -> Calls]
    /\ pm \in 0..MaxAnswers
    /\ known \subseteq RunIds
    /\ debited \subseteq RunIds
    /\ log \in [RunIds -> {"none", "open", "ended"}]
    /\ history \in [RunIds -> [approved  : SUBSET Plans,
                               generated : SUBSET Plans,
                               served    : 0..MaxAnswers]]
    /\ crossed \subseteq RunIds /\ abandoned \subseteq RunIds

Init ==
    /\ store = [i \in RunIds |-> Absent]
    /\ \E i \in RunIds :
         calls = [h \in Handlers |-> [at |-> "idle", id |-> i, run |-> NewRun,
                                      chunk |-> FALSE, scan |-> FALSE]]
    /\ pm = 0
    /\ known = {}
    /\ debited = {}
    /\ log = [i \in RunIds |-> "none"]
    /\ history = [i \in RunIds |-> [approved |-> {}, generated |-> {},
                                    served |-> 0]]
    /\ crossed = {} /\ abandoned = {}

-----------------------------------------------------------------------------
Stored(i) == store[i] # Absent

\* The handler suspends at p, holding this copy of run i.
Suspend(h, p, i, run) ==
    calls' = [calls EXCEPT ![h] = [at |-> p, id |-> i, run |-> run,
                                   chunk |-> FALSE, scan |-> FALSE]]

\* The handler's request is over, by returning or by raising.
End(h) == calls' = [calls EXCEPT ![h].at = "idle", ![h].chunk = FALSE,
                                 ![h].scan = FALSE, ![h].run = NewRun]

Busy(i) == \E h \in Handlers : calls[h].id = i /\ calls[h].at # "idle"

\* A request on run i begins, while another is being served or not.
Meet(i) == /\ crossed' = IF Busy(i) THEN crossed \cup {i} ELSE crossed
           /\ UNCHANGED abandoned

\* A generation is given up on: its client is gone, or its agent refused it.
Abandon(h) == /\ abandoned' = abandoned \cup {calls[h].id}
              /\ UNCHANGED crossed

\* RunStore.put.
put(i, run) == store' = [store EXCEPT ![i] = run]

-----------------------------------------------------------------------------
(* Plausible bugs of the definitions below, used to test the properties.   *)

\* generate that does not store the run as generating before it opens the
\* agent's stream.
GenerateWithoutPut(h, i) ==
    /\ calls[h].at = "idle"
    /\ Stored(i) /\ may(store[i], "GENERATE")
    /\ Suspend(h, "open", i, generating(store[i]))
    /\ history' = [history EXCEPT ![i].generated = @ \cup {store[i].plan}]
    /\ Meet(i)
    /\ UNCHANGED <<store, pm, known, debited, log>>

\* The stream's failure is raised without storing the run as failed.
BreakWithoutPut(h) ==
    /\ calls[h].at = "stream"
    /\ log' = [log EXCEPT ![calls[h].id] = "ended"]
    /\ End(h)
    /\ UNCHANGED <<store, pm, known, debited, history, marks>>

\* A client that leaves at the yield takes the log's end with it.
LeaveWithoutEnd(h) ==
    /\ calls[h].at = "yield"
    /\ End(h)
    /\ Abandon(h)
    /\ UNCHANGED <<store, pm, known, debited, log, history>>

\* The debit is written and the delivered run is not put back.
ChargeWithoutPut(h) ==
    /\ calls[h].at = "charge"
    /\ debited' = debited \cup {calls[h].id}
    /\ End(h)
    /\ UNCHANGED <<store, pm, known, log, history, marks>>

\* A third questionnaire is served when the PM insists.
AskWithoutCap(h) ==
    LET c == calls[h]
    IN  /\ c.at = "plan" /\ pm < MaxAnswers /\ may(c.run, "ASK")
        /\ pm' = pm + 1
        /\ put(c.id, asked(c.run))
        /\ history' = [history EXCEPT ![c.id].served = @ + 1]
        /\ End(h)
        /\ UNCHANGED <<known, debited, log, marks>>

-----------------------------------------------------------------------------
(* The conversation with the PM                                            *)

\* start, up to the analysis.  The id is random: one not drawn before.
Start(h, i) ==
    /\ calls[h].at = "idle"
    /\ i \notin known
    /\ known' = known \cup {i}
    /\ Suspend(h, "analyze", i, describing(NewRun))
    /\ UNCHANGED <<store, pm, debited, log, history, marks>>

\* The analysis came with questions: they are served.
AnalysisAsks(h) ==
    LET c == calls[h]
    IN  /\ c.at = "analyze" /\ pm < MaxAnswers
        /\ pm' = pm + 1
        /\ put(c.id, asked(c.run))
        /\ history' = [history EXCEPT ![c.id].served = @ + 1]
        /\ End(h)
        /\ UNCHANGED <<known, debited, log, marks>>

\* It came without: the run is planned at once, its first round spent on an
\* empty questionnaire nobody sees.
AnalysisAsksNothing(h) ==
    LET c == calls[h]
    IN  /\ c.at = "analyze"
        /\ Suspend(h, "plan", c.id, asked(c.run))
        /\ UNCHANGED <<store, pm, known, debited, log, history, marks>>

\* answer: the copy gets the answers, whatever state the run is in, and the
\* PM is asked to plan.
Answer(h, i, ids) ==
    /\ calls[h].at = "idle"
    /\ Stored(i)
    /\ Suspend(h, "plan", i, answering(store[i], ids))
    /\ Meet(i)
    /\ UNCHANGED <<store, pm, known, debited, log, history>>

\* _plan: the PM asks again.  Refused when no round is left, or when the copy
\* was taken in a state that does not allow it (PMFails).
PlanAsks(h) ==
    LET c == calls[h]
    IN  /\ c.at = "plan" /\ pm < MaxAnswers
        /\ rounds_left(c.run) > 0 /\ may(c.run, "ASK")
        /\ pm' = pm + 1
        /\ put(c.id, asked(c.run))
        /\ history' = [history EXCEPT ![c.id].served = @ + 1]
        /\ End(h)
        /\ UNCHANGED <<known, debited, log, marks>>

\* _plan and reject: the PM proposes a plan.
Propose(h) ==
    LET c == calls[h]
    IN  /\ c.at \in {"plan", "revise"} /\ pm < MaxAnswers
        /\ may(c.run, "PROPOSE")
        /\ pm' = pm + 1
        /\ put(c.id, proposed(c.run, pm + 1))
        /\ End(h)
        /\ UNCHANGED <<known, debited, log, history, marks>>

\* The PM cannot be reached or says nothing usable, the transition is
\* refused, or the caller is gone: nothing is stored.
PMFails(h) ==
    /\ calls[h].at \in {"analyze", "plan", "revise"}
    /\ End(h)
    /\ UNCHANGED <<store, pm, known, debited, log, history, marks>>

Reject(h, i) ==
    /\ calls[h].at = "idle"
    /\ Stored(i) /\ may(store[i], "REJECT")
    /\ Suspend(h, "revise", i, revising(rejected(store[i])))
    /\ Meet(i)
    /\ UNCHANGED <<store, pm, known, debited, log, history>>

\* approve never suspends between its get and its put.
Approve(h, i) ==
    /\ calls[h].at = "idle"
    /\ Stored(i) /\ may(store[i], "APPROVE")
    /\ put(i, approved(store[i]))
    /\ history' = [history EXCEPT ![i].approved = @ \cup {store[i].plan}]
    /\ Meet(i)
    /\ UNCHANGED <<calls, pm, known, debited, log>>

-----------------------------------------------------------------------------
(* The generation                                                          *)

\* generate, up to "await self._proxy.stream(...)".
Generate(h, i) ==
    /\ calls[h].at = "idle"
    /\ Stored(i) /\ may(store[i], "GENERATE")
    /\ put(i, generating(store[i]))
    /\ Suspend(h, "open", i, generating(store[i]))
    /\ history' = [history EXCEPT ![i].generated = @ \cup {store[i].plan}]
    /\ Meet(i)
    /\ UNCHANGED <<pm, known, debited, log>>

\* The stream opens; the log is started.
Opened(h) ==
    /\ calls[h].at = "open"
    /\ calls' = [calls EXCEPT ![h].at = "stream"]
    /\ log' = [log EXCEPT ![calls[h].id] = "open"]
    /\ UNCHANGED <<store, pm, known, debited, history, marks>>

\* Opening it raises (an open circuit, a refused connection, a cancelled
\* request): this await is outside the try, so nothing is stored.
OpenFails(h) ==
    /\ calls[h].at = "open"
    /\ End(h)
    /\ Abandon(h)
    /\ UNCHANGED <<store, pm, known, debited, log, history>>

\* A chunk arrives, is appended to the log and yielded.
Chunk(h, artifact) ==
    /\ calls[h].at = "stream"
    /\ calls' = [calls EXCEPT ![h].at = "yield", ![h].chunk = artifact]
    /\ log' = [log EXCEPT ![calls[h].id] = IF @ = "none" THEN "open" ELSE @]
    /\ UNCHANGED <<store, pm, known, debited, history, marks>>

\* The caller comes back for more; only now does the scan read the chunk.
Resume(h) ==
    /\ calls[h].at = "yield"
    /\ calls' = [calls EXCEPT ![h].at = "stream", ![h].chunk = FALSE,
                              ![h].scan = @ \/ calls[h].chunk]
    /\ UNCHANGED <<store, pm, known, debited, log, history, marks>>

\* The client hangs up while the generator is suspended at its yield: it is
\* closed there with GeneratorExit, which neither except clause catches.
Leave(h) ==
    /\ calls[h].at = "yield"
    /\ log' = [log EXCEPT ![calls[h].id] = "ended"]
    /\ End(h)
    /\ Abandon(h)
    /\ UNCHANGED <<store, pm, known, debited, history>>

\* The stream raises, or the task is cancelled while it waits for a chunk:
\* both except clauses store the copy as failed.
Break(h) ==
    LET c == calls[h]
    IN  /\ c.at = "stream"
        /\ put(c.id, failed(c.run))
        /\ log' = [log EXCEPT ![c.id] = "ended"]
        /\ End(h)
        /\ UNCHANGED <<pm, known, debited, history, marks>>

\* The stream ends.  No artifact, no delivery; else the charge comes next.
Finish(h) ==
    LET c == calls[h]
    IN  /\ c.at = "stream"
        /\ log' = [log EXCEPT ![c.id] = "ended"]
        /\ IF c.scan
           THEN Suspend(h, "charge", c.id, delivered(c.run)) /\ UNCHANGED store
           ELSE put(c.id, failed(c.run)) /\ End(h)
        /\ UNCHANGED <<pm, known, debited, history, marks>>

\* _charge: the ledger takes the entry (once per run id), or there is nothing
\* to charge, or it cannot be written, and either way the run is delivered.
Charge(h) ==
    LET c == calls[h]
    IN  /\ c.at = "charge"
        /\ \/ put(c.id, billed(c.run)) /\ debited' = debited \cup {c.id}
           \/ put(c.id, c.run) /\ UNCHANGED debited
        /\ End(h)
        /\ UNCHANGED <<pm, known, log, history, marks>>

\* The task is cancelled while the ledger's thread is writing: the write
\* completes, the coroutine does not.
ChargeCancelled(h) ==
    /\ calls[h].at = "charge"
    /\ debited' = debited \cup {calls[h].id}
    /\ End(h)
    /\ Abandon(h)
    /\ UNCHANGED <<store, pm, known, log, history>>

\* The store drops a run: its hour is over, or the store is full and it is
\* the oldest.
Forget(i) ==
    /\ Stored(i)
    /\ store' = [store EXCEPT ![i] = Absent]
    /\ UNCHANGED <<calls, pm, known, debited, log, history, marks>>

PMAnswers(h) == AnalysisAsks(h) \/ AnalysisAsksNothing(h) \/ PlanAsks(h)
                  \/ Propose(h) \/ PMFails(h)

AgentAnswers(h) ==
    \/ Opened(h) \/ OpenFails(h)
    \/ \E artifact \in BOOLEAN : Chunk(h, artifact)
    \/ Resume(h) \/ Break(h) \/ Finish(h)
    \/ Charge(h)

Next ==
    \/ \E h \in Handlers, i \in RunIds :
         \/ Start(h, i) \/ Reject(h, i) \/ Approve(h, i) \/ Generate(h, i)
         \/ \E ids \in SUBSET Questions : Answer(h, i, ids)
    \/ \E i \in RunIds : Forget(i)
    \/ \E h \in Handlers :
         \/ PMAnswers(h) \/ AgentAnswers(h)
         \/ Leave(h) \/ ChargeCancelled(h)

Spec == Init /\ [][Next]_vars

\* Agents answer or time out, the stream of a generation ends, and a task
\* that is ready runs.  Whether anybody calls is up to the clients.
Fairness ==
    \A h \in Handlers :
        /\ WF_vars(PMAnswers(h))
        /\ WF_vars(AgentAnswers(h))
        /\ SF_vars(Break(h) \/ Finish(h))

FairSpec == Spec /\ Fairness

-----------------------------------------------------------------------------
(* Properties.                                                             *)

\* The gate.  Whatever overtakes whatever, a generation is only ever started
\* on a plan that was approved, and one approval starts at most one: a stored
\* run that may be generated holds an approved plan no generation has used.
GateHolds ==
    \A i \in RunIds :
        /\ history[i].generated \subseteq history[i].approved
        /\ store[i].state = "PLAN_APPROVED"
             => store[i].plan \in history[i].approved \ history[i].generated

\* No two generations in flight work on the same plan of the same run.
OneGenerationPerPlan ==
    \A g, h \in Handlers :
        /\ g # h
        /\ calls[g].at \in Generating /\ calls[h].at \in Generating
        /\ calls[g].id = calls[h].id
        => calls[g].run.plan # calls[h].run.plan

\* Both: no generation without an approval of its plan, and none beside another
\* for the same approval.
Gated == GateHolds /\ OneGenerationPerPlan

\* "However it ended - delivered, failed, or the client walking away - the
\* readers following this log have to be let go": an open log has a generation
\* behind it that is still streaming.
ReadersLetGo ==
    \A i \in RunIds :
        log[i] = "open" =>
            \E h \in Handlers : calls[h].id = i /\ calls[h].at \in {"stream", "yield"}

(* The life of a run as RunLife promises it, for runs whose requests do not *)
(* cross.                                                                  *)
StageOf(state) ==
    CASE state = "ABSENT"             -> "none"
      [] state = "QUESTIONNAIRE"      -> "asking"
      [] state = "PLAN_REVIEW"        -> "review"
      [] state = "PLAN_APPROVED"      -> "approved"
      [] state = "BACKEND_GENERATION" -> "generating"
      [] state = "ZIP_READY"          -> "ready"
      [] state = "FAILED"             -> "failed"

LifeOf(i) ==
    IF i \in crossed
    THEN [stage |-> "wild", plan |-> 0, answers |-> {}, asked |-> 0]
    ELSE [stage   |-> StageOf(store[i].state),
          plan    |-> IF Stored(i) THEN store[i].plan ELSE 0,
          answers |-> IF Stored(i) THEN store[i].answers ELSE {},
          asked   |-> history[i].served]

RL == INSTANCE RunLife WITH Ids <- RunIds, Cap <- MAX_ROUNDS,
                            life <- [i \in RunIds |-> LifeOf(i)]

\* What a reader of the store sees of a run is a life RunLife allows: "No way
\* back. Once approved the plan is frozen for this run", "Answers are MERGED
\* by question id, never replaced", and the cap on "Questionnaires a run may
\* serve before the plan has to be written".  Only a run two of whose requests
\* were served at once is excepted: answer and reject put back the copy they
\* took before they asked the PM.
LivesAsPromised == RL!Spec

\* Whoever was charged has the project: once nothing is in flight for a run in
\* the ledger, the stored run names its artifact, unless its client hung up
\* during the charge or another request put an older copy back.
PaidMeansDelivered ==
    \A i \in debited \ (crossed \cup abandoned) :
        Stored(i) /\ ~Busy(i) => store[i].artifact

Tended(i) == \E h \in Handlers : calls[h].id = i /\ calls[h].at \in Generating

\* A run that says it is generating is being generated: FAILED exists so that
\* a run that died can be told from one still thinking.
GeneratingMeansInFlight ==
    \A i \in RunIds : store[i].state = "BACKEND_GENERATION" => Tended(i)

\* The same, of the runs whose client stays and whose agent accepts, however
\* their requests cross.
GeneratingIsTended ==
    \A i \in RunIds \ abandoned : store[i].state = "BACKEND_GENERATION" => Tended(i)

\* A generation that began comes to an end a reader of the run can see, unless
\* it is abandoned.
GenerationSettles ==
    \A i \in RunIds : store[i].state = "BACKEND_GENERATION"
                         ~> store[i].state # "BACKEND_GENERATION" \/ i \in abandoned

=============================================================================
