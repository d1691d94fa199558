------------------------------ MODULE Delivery ------------------------------
(***************************************************************************)
(* A project from the agent's stream to whoever comes for it: the scan of   *)
(* the stream (StreamScan), the store the run waits in (RunStore), the      *)
(* agent instances that hold the files, and the operations that reach them  *)
(* by run: read, open_download and open_console of                          *)
(* src/gateway/application/orchestration.py.                                *)
(*                                                                          *)
(* One run is generated; the others are there because they fill the store.  *)
(* Up to its approval a run is only something that is put from time to      *)
(* time, and what concurrent requests do to each other's copies is          *)
(* Orchestrator's subject.  A generation suspends while it opens the stream *)
(* and between chunks, and while it charges.                                *)
(***************************************************************************)
EXTENDS StreamScan, RunStore, FiniteSets

CONSTANTS Ids,        \* runs
          Project,    \* the one that is generated
          Instances,  \* of the backend agent
          Console     \* settings.console

ASSUME DeliveryAssumption == Project \in Ids /\ Console \in BOOLEAN

VARIABLES
    store,       \* InMemoryRunStore._runs
    generation,  \* where generate is, and the age of the copy it holds
    maker,       \* the instance the generation's stream was opened at
    keeper,      \* the instance that has the project in its memory
    visit,       \* the instance a download or a command was sent to
    told,        \* what the last step answered a client, if it did
    since        \* history, per run: age at its last put, runs put after it

scan == <<lines, fed, tail, artifact, usage>>
deliveryVars == <<scan, store, generation, maker, keeper, visit, told, since>>

None == "none"
At(place) == [at |-> place, age |-> 0]
Told(r, code) == told' = {[run |-> r, code |-> code]}
Quiet == told' = {}

States == {"open", "approved", "generating", "ready", "failed"}

\* Older than the TTL is old enough.
Ages == 0..TTL + 1

Entries == [id : Ids, age : Ages, state : States]

DeliveryTypeOK ==
    /\ lines = <<>> \/ TypeOK
    /\ store \in Seq(Entries)
    /\ generation \in [at : {"idle", "open", "stream", "charge", "delivered", "over"},
                       age : Ages]
    /\ {maker, keeper, visit} \subseteq Instances \cup {None}
    /\ since \in [Ids -> [put : BOOLEAN, age : Ages, others : SUBSET Ids]]

NoScan == lines = <<>> /\ fed = 0 /\ tail = <<>> /\ artifact = Nothing /\ usage = Nothing

DeliveryInit ==
    /\ NoScan
    /\ store = <<>> /\ generation = At("idle")
    /\ maker = None /\ keeper = None /\ visit = None /\ told = {}
    /\ since = [r \in Ids |-> [put |-> FALSE, age |-> 0, others |-> {}]]

-----------------------------------------------------------------------------
\* The run is put in state s, its updated_at being age ago; every other run has then one
\* more put after it.
Put(r, s, age) ==
    /\ store' = put(store, [id |-> r, age |-> age, state |-> s])
    /\ since' = [q \in Ids |->
                    IF q = r THEN [put |-> TRUE, age |-> age, others |-> {}]
                    ELSE [since[q] EXCEPT !.others = IF since[q].put THEN @ \cup {r} ELSE @]]

\* get sweeps and changes nothing else.
Get == store' = swept(store) /\ UNCHANGED since

Found(r) == has(swept(store), r)
StateOf(r) == get(swept(store), r).state

-----------------------------------------------------------------------------
(* Mutants. *)

\* generate, putting the run it charged for as it was before the charge
ChargeForgetsDelivery ==
    /\ generation.at = "charge"
    /\ Put(Project, "generating", generation.age)
    /\ generation' = At("delivered")
    /\ Quiet /\ UNCHANGED <<scan, maker, keeper, visit>>

\* _open, reading every refusal as the project being gone
GoneWhateverIsRefused(answer) == IF answer = "ok" THEN "project" ELSE "gone"

-----------------------------------------------------------------------------
(* The conversation, reduced to what it puts. *)

\* start, answer, reject, approve: a run that has not been generated is put, whether or
\* not the store still has what the operation read before it asked the PM.
Converse(r, s) ==
    /\ s \in {"open", "approved"} /\ (s = "approved" => r = Project)
    /\ r = Project => generation.at = "idle" /\ (Found(r) => StateOf(r) = "open")
    /\ Put(r, s, 0)
    /\ Quiet /\ UNCHANGED <<scan, generation, maker, keeper, visit>>

-----------------------------------------------------------------------------
(* generate *)

Generate ==
    /\ generation.at = "idle"
    /\ Found(Project) /\ StateOf(Project) = "approved"
    /\ Put(Project, "generating", 0)
    /\ generation' = At("open")
    /\ Quiet /\ UNCHANGED <<scan, maker, keeper, visit>>

\* The balancer finds an instance that takes it, and the agent will say this much.
Opened(i, text) ==
    /\ generation.at = "open"
    /\ generation' = At("stream")
    /\ maker' = i /\ lines' = text
    /\ Quiet /\ UNCHANGED <<fed, tail, artifact, usage, store, keeper, visit, since>>

\* A chunk is logged, yielded and scanned.
Passes(n) ==
    /\ generation.at = "stream"
    /\ Chunk(n)
    /\ Quiet /\ UNCHANGED <<store, generation, maker, keeper, visit, since>>

ScanIsDropped == lines' = <<>> /\ fed' = 0 /\ tail' = <<>> /\ artifact' = Nothing /\ usage' = Nothing

\* The stream ends.  With an artifact the run is delivered, and charged before it is put.
Finish ==
    /\ generation.at = "stream" /\ fed = Len(Text)
    /\ IF artifact # Nothing
       THEN /\ generation' = At("charge")
            /\ keeper' = maker
            /\ UNCHANGED <<store, since>>
       ELSE /\ Put(Project, "failed", 0)
            /\ generation' = At("over")
            /\ UNCHANGED keeper
    /\ ScanIsDropped
    /\ Quiet /\ UNCHANGED <<maker, visit>>

\* The stream raises, or the task is cancelled while it waits for a chunk.
Break ==
    /\ generation.at = "stream"
    /\ Put(Project, "failed", 0)
    /\ generation' = At("over")
    /\ ScanIsDropped
    /\ Quiet /\ UNCHANGED <<maker, keeper, visit>>

\* _charge returns: billed renews updated_at, a run that was not charged keeps the
\* delivery's.
Charge ==
    /\ generation.at = "charge"
    /\ \E age \in {0, generation.age} : Put(Project, "ready", age)
    /\ generation' = At("delivered")
    /\ Quiet /\ UNCHANGED <<scan, maker, keeper, visit>>

\* Opening raises, the client leaves at a yield, or the task is cancelled in the charge:
\* nothing is put.
Die ==
    /\ generation.at \in {"open", "stream", "charge"}
    /\ generation' = At("over")
    /\ ScanIsDropped
    /\ Quiet /\ UNCHANGED <<store, maker, keeper, visit, since>>

-----------------------------------------------------------------------------
(* Whoever comes back. *)

\* GET /runs/{id}, and the lookup of /events.
Read(r) ==
    /\ Get
    /\ Told(r, IF Found(r) THEN "found" ELSE "run_not_found")
    /\ UNCHANGED <<scan, generation, maker, keeper, visit>>

\* open_console behind its switch; open_download has none.
ConsoleOff(r) ==
    /\ ~Console
    /\ Told(r, "console_disabled")
    /\ UNCHANGED <<scan, store, generation, maker, keeper, visit, since>>

\* _artifact_of refuses.
Refuse(r) ==
    /\ Found(r) => StateOf(r) # "ready"
    /\ Get
    /\ Told(r, IF Found(r) THEN "no_project" ELSE "run_not_found")
    /\ UNCHANGED <<scan, generation, maker, keeper, visit>>

\* open_download, open_console: the request goes to the service, and so to any instance.
Open(i) ==
    /\ visit = None
    /\ Found(Project) /\ StateOf(Project) = "ready"
    /\ Get
    /\ visit' = i
    /\ Quiet /\ UNCHANGED <<scan, generation, maker, keeper>>

\* _open: what an answer of the agent becomes.
outcome(answer) == CASE answer = "ok"   -> "project"
                     [] answer = "gone" -> "gone"
                     [] OTHER           -> "upstream_failed"

\* The instance answers with the project, that it is gone, or an error of its own.
Answer ==
    /\ visit # None
    /\ \E answer \in {IF visit = keeper THEN "ok" ELSE "gone", "error"} :
          Told(Project, outcome(answer))
    /\ visit' = None
    /\ UNCHANGED <<scan, store, generation, maker, keeper, since>>

\* The project is an hour old, one too many, or its instance restarted.
Forget ==
    /\ keeper # None
    /\ keeper' = None
    /\ Quiet /\ UNCHANGED <<scan, store, generation, maker, visit, since>>

older(age) == IF age > TTL THEN age ELSE age + 1

Tick ==
    /\ store' = [k \in DOMAIN store |-> [store[k] EXCEPT !.age = older(@)]]
    /\ since' = [r \in Ids |->
                    [since[r] EXCEPT !.age = IF since[r].put THEN older(@) ELSE @]]
    /\ generation' = IF generation.at = "charge"
                     THEN [generation EXCEPT !.age = older(@)] ELSE generation
    /\ Quiet /\ UNCHANGED <<scan, maker, keeper, visit>>

\* The runs that are only there to fill the store are alike, and so are the instances.
Alike == Permutations(Ids \ {Project}) \cup Permutations(Instances)

Texts == UNION {[1..n -> Lines] : n \in 1..MaxLines}

DeliveryNext ==
    \/ \E r \in Ids : Read(r) \/ ConsoleOff(r) \/ Refuse(r) \/ \E s \in States : Converse(r, s)
    \/ Generate \/ \E i \in Instances, text \in Texts : Opened(i, text)
    \/ \E n \in 1..MaxChunk : Passes(n)
    \/ Finish \/ Break \/ Charge \/ Die
    \/ \E i \in Instances : Open(i)
    \/ Answer \/ Forget \/ Tick

DeliverySpec == DeliveryInit /\ [][DeliveryNext]_deliveryVars

-----------------------------------------------------------------------------
(* Properties. *)

\* An hour of silence, or a full store of runs that were put later.
Overdue(r) == since[r].age > TTL \/ Cardinality(since[r].others) >= MaxRuns

\* "eviction takes the oldest first and never the newest" (runs.py:25), "a long, healthy run
\* would be evicted before a short abandoned one" (runs.py:47): whatever is put, read and
\* generated in between, a run is only missing when its hour is over or MAX_RUNS others were
\* put after it, and the store never holds more.
KeptWhileDue ==
    /\ \A r \in Ids : since[r].put /\ ~Overdue(r) => has(store, r)
    /\ Len(store) <= MaxRuns
    /\ \A j, k \in 1..Len(store) : store[j].id = store[k].id => j = k

Delivered == generation.at = "delivered"

\* What a client is told of a run and its project is so.  Not found: it was never put, or
\* it was due to go.  Found: its hour is not over.  No project: no generation of it has come
\* to its end, which is only after the charge.  Gone: the instance that made the project no
\* longer has it, or the request was sent to another one.  The project: it is the run's own.
AnswersAreTrue ==
    [][\A t \in told' :
         LET r == t.run IN
         CASE t.code = "run_not_found" -> since[r].put => Overdue(r)
           [] t.code = "found"         -> since[r].put /\ since[r].age <= TTL
           [] t.code = "no_project"    -> r = Project => ~Delivered
           [] t.code = "gone"          -> Delivered /\ (keeper = None \/ visit # maker)
           [] t.code = "project"       -> Delivered /\ visit = maker
           [] OTHER                    -> TRUE]_deliveryVars

=============================================================================
