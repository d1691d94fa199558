------------------------------- MODULE RunLife -------------------------------
(***************************************************************************)
(* What the life of a run promises a reader of the run, whatever copies    *)
(* the requests being served hold and however they are interleaved: the    *)
(* docstring of src/gateway/domain/runs.py and the table of its states.    *)
(* Orchestrator is shown to implement it.                                  *)
(*                                                                         *)
(* A run is as the store shows it.  It may vanish from the store at any    *)
(* time, and an operation that is still at it may put it back; it never    *)
(* comes back approved or generating.  A run two of whose requests were    *)
(* served at once is wild: nothing is promised of it from then on.         *)
(***************************************************************************)
EXTENDS Naturals

CONSTANTS Ids, Questions, Cap

VARIABLE life

Stages == {"none", "asking", "review", "approved", "generating", "ready",
           "failed", "wild"}

Lives == [stage : Stages, plan : Nat, answers : SUBSET Questions, asked : 0..Cap]

Unborn == [stage |-> "none", plan |-> 0, answers |-> {}, asked |-> 0]

Init == life = [i \in Ids |-> Unborn]

-----------------------------------------------------------------------------
(* The moves, each from a life l to a life m.                              *)

\* Nothing that was answered is lost.
Keeps(l, m) == l.stage # "none" => l.answers \subseteq m.answers

\* A questionnaire is served, one of at most Cap.
Ask(l, m) ==
    /\ l.stage \in {"none", "asking"} /\ m.stage = "asking"
    /\ l.asked < Cap /\ m.asked = l.asked + 1
    /\ m.plan = 0 /\ Keeps(l, m)

\* A plan nobody has seen before is put to the client.
Propose(l, m) ==
    /\ l.stage \in {"none", "asking", "review"} /\ m.stage = "review"
    /\ m.plan > l.plan /\ Keeps(l, m)
    /\ m.asked = l.asked

\* From here on everything but the stage is frozen.
Frozen(l, m) == m = [l EXCEPT !.stage = m.stage]

Approve(l, m)  == l.stage = "review" /\ m.stage = "approved" /\ Frozen(l, m)
Generate(l, m) == l.stage = "approved" /\ m.stage = "generating" /\ Frozen(l, m)
Settle(l, m)   == /\ l.stage = "generating" /\ m.stage \in {"ready", "failed"}
                  /\ Frozen(l, m)

\* The store drops the run; a generation that outlives its run in the store
\* brings it back with its end.
Vanish(l, m)   == l.stage # "none" /\ m = [Unborn EXCEPT !.asked = l.asked]
Outlive(l, m)  == /\ l.stage = "none" /\ m.stage \in {"ready", "failed"}
                  /\ m.plan > 0 /\ m.asked = l.asked

\* Two of its requests are served at once.
Cross(l, m)    == m = [Unborn EXCEPT !.stage = "wild"]

Move(l, m) == \/ Ask(l, m) \/ Propose(l, m) \/ Approve(l, m) \/ Generate(l, m)
              \/ Settle(l, m) \/ Vanish(l, m) \/ Outlive(l, m) \/ Cross(l, m)

Next ==
    /\ life' \in [Ids -> Lives]
    /\ \E i \in Ids : /\ life[i].stage # "wild"
                      /\ Move(life[i], life'[i])
                      /\ \A j \in Ids \ {i} : life'[j] = life[j]

Spec == Init /\ [][Next]_life

=============================================================================
