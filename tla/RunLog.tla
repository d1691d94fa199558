------------------------------- MODULE RunLog -------------------------------
(***************************************************************************)
(* InMemoryRunLog of infrastructure/run_log.py: what each run's generation  *)
(* has streamed, kept so that a tab that reconnects replays it and then     *)
(* follows it.  Generations write (start, append, end: plain calls, one     *)
(* atomic step each) while followers read.  follow() is an async generator: *)
(* it gives up the event loop at every yield and at waiter.wait(), and      *)
(* between two of those points it runs in one step.                         *)
(*                                                                          *)
(* The dict of chunks is log.order (a dict iterates in insertion order, and *)
(* setting a key it already has does not move it) with log.chunks.  The     *)
(* asyncio.Event a follower waits on is modelled by what can happen to it:  *)
(* it is still the run's own ("waiting"), it was set ("woken"), or start()  *)
(* replaced it without setting it ("lost").                                 *)
(***************************************************************************)
EXTENDS Integers, FiniteSets, SequencesExt

CONSTANTS RunIds, Generations, Followers,
          MaxLogs,      \* MAX_RUNS
          MaxBytes,     \* MAX_BYTES
          Sizes,        \* len(chunk), in the unit of MaxBytes
          MaxChunks     \* bound: chunks one generation streams

ASSUME RunLogAssumption ==
    /\ MaxLogs \in Nat \ {0}
    /\ MaxBytes \in Nat \ {0}
    /\ MaxChunks \in Nat \ {0}
    /\ Sizes \subseteq Nat \ {0}

VARIABLES log,          \* the dicts: [order, chunks, ended]
          readers,      \* follow(), per follower
          streams,      \* what each generation is doing
          given,        \* history: the chunks each follower was given, in order
          doubled,      \* history: runs that two generations streamed into at once
          disturbed     \* history: followers whose list changed under them

logVars == <<log, readers, streams, given, doubled, disturbed>>

Chunks == [by : Generations, n : 1..MaxChunks, size : Sizes]

NoRun   == "no run"
Places  == {"new", "yield", "waiting", "woken", "lost", "ended", "left"}

\* `rest`: what the slice being iterated has left; `frozen`: the length of the list
\* the follower holds once that list is no longer the run's own, 0 while it is.
Readers == [at : Places, run : RunIds \cup {NoRun}, cursor : Nat,
            rest : Seq(Chunks), frozen : Nat]

Streams == [at : {"new", "open", "over"}, run : RunIds \cup {NoRun}, said : 0..MaxChunks]

Logs == [order : Seq(RunIds), chunks : [RunIds -> Seq(Chunks)], ended : [RunIds -> BOOLEAN]]

Kept(l) == ToSet(l.order)

\* What _sizes holds of a run: the bytes of its chunks.
bytes(s) == FoldSeq(LAMBDA c, n : c.size + n, 0, s)

LogTypeOK ==
    /\ log \in Logs /\ Len(log.order) <= MaxLogs
    /\ \A r \in RunIds \ Kept(log) : log.chunks[r] = <<>> /\ log.ended[r]
    /\ readers \in [Followers -> Readers]
    /\ streams \in [Generations -> Streams]
    /\ given \in [Followers -> Seq(Chunks)]
    /\ doubled \subseteq RunIds /\ disturbed \subseteq Followers

\* __init__.  A run with no log reads as ended: _ended.get(run_id, True).
LogInit ==
    /\ log = [order |-> <<>>, chunks |-> [r \in RunIds |-> <<>>],
              ended |-> [r \in RunIds |-> TRUE]]
    /\ readers = [f \in Followers |-> [at |-> "new", run |-> NoRun, cursor |-> 0,
                                       rest |-> <<>>, frozen |-> 0]]
    /\ streams = [g \in Generations |-> [at |-> "new", run |-> NoRun, said |-> 0]]
    /\ given = [f \in Followers |-> <<>>]
    /\ doubled = {} /\ disturbed = {}

-----------------------------------------------------------------------------
(* Mutants. *)

\* append, with pop() for pop(0)
TrimsTheNewest(s) ==
    SubSeq(s, 1, Max({k \in 1..Len(s) :
        k = 1 \/ bytes(SubSeq(s, 1, k)) <= MaxBytes}))

\* append, with `if` for `while`
TrimsOnce(s) ==
    IF Len(s) > 1 /\ bytes(s) > MaxBytes THEN Tail(s) ELSE s

\* _forget, without waiter.set()
ForgetsInSilence(rs, l, S) ==
    [f \in Followers |->
        IF rs[f].run \in S /\ rs[f].at = "yield" /\ rs[f].frozen = 0
        THEN [rs[f] EXCEPT !.frozen = Len(l.chunks[rs[f].run])]
        ELSE rs[f]]

\* follow, with _ended asked before the chunks
StopsBeforeDraining(l, r, cursor) ==
    IF r \notin Kept(l) \/ l.ended[r]        THEN "ended"
    ELSE IF cursor < Len(l.chunks[r])        THEN "yield"
    ELSE "waiting"

\* follow, without `cursor = len(chunks)`
KeepsCursor(rd, l) == rd.cursor

-----------------------------------------------------------------------------
(* Housekeeping. *)

\* _evict: the oldest key goes while there are MAX_RUNS of them.
evict(l) == IF Len(l.order) < MaxLogs THEN {} ELSE {Head(l.order)}

\* _forget, as the followers of the runs S see it: the list they iterate over stops
\* being the run's own, and the Event they wait on is set.
forget(rs, l, S) ==
    [f \in Followers |->
        CASE rs[f].run \in S /\ rs[f].at = "yield" /\ rs[f].frozen = 0 ->
               [rs[f] EXCEPT !.frozen = Len(l.chunks[rs[f].run])]
          [] rs[f].run \in S /\ rs[f].at = "waiting" -> [rs[f] EXCEPT !.at = "woken"]
          [] OTHER -> rs[f]]

\* start puts a new list and a new Event in the run's place; nobody sets the old one.
replace(rs, l, r) ==
    [f \in Followers |->
        CASE rs[f].run = r /\ rs[f].at = "yield" /\ rs[f].frozen = 0 ->
               [rs[f] EXCEPT !.frozen = Len(l.chunks[r])]
          [] rs[f].run = r /\ rs[f].at = "waiting" -> [rs[f] EXCEPT !.at = "lost"]
          [] OTHER -> rs[f]]

\* _wake
wake(rs, r) ==
    [f \in Followers |-> IF rs[f].run = r /\ rs[f].at = "waiting"
                         THEN [rs[f] EXCEPT !.at = "woken"] ELSE rs[f]]

-----------------------------------------------------------------------------
(* The writing side. *)

\* start, on the dicts
start(l, r) ==
    LET gone == evict(l)
        left == IF gone = {} THEN l.order ELSE Tail(l.order)
    IN  [order  |-> IF r \in ToSet(left) THEN left ELSE Append(left, r),
         chunks |-> [q \in RunIds |-> IF q \in gone \cup {r} THEN <<>> ELSE l.chunks[q]],
         ended  |-> [q \in RunIds |-> q # r /\ (q \in gone \/ l.ended[q])]]

\* start, on the followers
restart(rs, l, r) == LET gone == evict(l) IN replace(forget(rs, l, gone), l, r)

\* The chunks append keeps: the oldest go while the run is over MAX_BYTES, never the last.
trim(s) ==
    SubSeq(s, Min({k \in 1..Len(s) :
        k = Len(s) \/ bytes(SubSeq(s, k, Len(s))) <= MaxBytes}), Len(s))

\* The followers whose list changed while they were given a chunk, or otherwise than
\* by growing at its end.
Disturb ==
    disturbed' = disturbed \cup {f \in Followers :
        /\ readers[f].at \in {"yield", "waiting", "woken"}
        /\ LET old == log.chunks[readers[f].run]
               new == log'.chunks[readers[f].run]
           IN  old # new /\ (readers[f].at = "yield" \/ ~IsPrefix(old, new))}

\* generate reaches self._log.start: the agent's stream is open.
Start(g, r) ==
    /\ streams[g].at = "new"
    /\ streams' = [streams EXCEPT ![g].at = "open", ![g].run = r]
    /\ log' = start(log, r)
    /\ readers' = restart(readers, log, r)
    /\ doubled' = IF \E h \in Generations : streams[h].run = r /\ streams[h].at = "open"
                  THEN doubled \cup {r} ELSE doubled
    /\ Disturb
    /\ UNCHANGED given

\* append: a run whose log was evicted gets a new one.
AppendChunk(g, size) ==
    LET r     == streams[g].run
        fresh == r \notin Kept(log)
        l     == IF fresh THEN start(log, r) ELSE log
        rs    == IF fresh THEN restart(readers, log, r) ELSE readers
        chunk == [by |-> g, n |-> streams[g].said + 1, size |-> size]
    IN  /\ streams[g].at = "open"
        /\ streams[g].said < MaxChunks
        /\ streams' = [streams EXCEPT ![g].said = @ + 1]
        /\ log' = [l EXCEPT !.chunks[r] = trim(Append(@, chunk))]
        /\ readers' = wake(rs, r)
        /\ Disturb
        /\ UNCHANGED <<given, doubled>>

\* end, from generate's finally
End(g) ==
    LET r == streams[g].run
    IN  /\ streams[g].at = "open"
        /\ streams' = [streams EXCEPT ![g].at = "over"]
        /\ log' = [log EXCEPT !.ended[r] = TRUE]
        /\ readers' = wake(readers, r)
        /\ UNCHANGED <<given, doubled, disturbed>>

-----------------------------------------------------------------------------
(* The reading side. *)

\* What the loop of follow comes to, with the cursor it holds.
looks(l, r, cursor) ==
    IF r \notin Kept(l)               THEN "ended"
    ELSE IF cursor < Len(l.chunks[r]) THEN "yield"
    ELSE IF l.ended[r]                THEN "ended"
    ELSE "waiting"

\* `cursor = len(chunks)`, once the slice is done: the length of the list it holds NOW.
caught(rd, l) == IF rd.frozen # 0 THEN rd.frozen ELSE Len(l.chunks[rd.run])

\* The loop, from its top to the next yield or await.
Loop(f, r, cursor) ==
    LET to    == looks(log, r, cursor)
        slice == SubSeq(log.chunks[r], cursor + 1, Len(log.chunks[r]))
    IN  /\ readers' = [readers EXCEPT ![f] =
                          [at |-> to, run |-> r, cursor |-> cursor,
                           rest |-> IF to = "yield" THEN Tail(slice) ELSE <<>>, frozen |-> 0]]
        /\ given' = IF to = "yield" THEN [given EXCEPT ![f] = Append(@, Head(slice))]
                                    ELSE given
        /\ UNCHANGED <<log, streams, doubled, disturbed>>

\* A tab asks for the run's events.
Follow(f, r) == readers[f].at = "new" /\ Loop(f, r, 0)

\* The response has taken the chunk it was given.
Resume(f) ==
    /\ readers[f].at = "yield"
    /\ IF readers[f].rest # <<>>
       THEN /\ readers' = [readers EXCEPT ![f].rest = Tail(@)]
            /\ given' = [given EXCEPT ![f] = Append(@, Head(readers[f].rest))]
            /\ UNCHANGED <<log, streams, doubled, disturbed>>
       ELSE Loop(f, readers[f].run, caught(readers[f], log))

\* `await waiter.wait()` returns.
Wakes(f) == readers[f].at = "woken" /\ Loop(f, readers[f].run, readers[f].cursor)

\* The tab goes away.
Leave(f) ==
    /\ readers[f].at \in {"yield", "waiting", "woken", "lost"}
    /\ readers' = [readers EXCEPT ![f].at = "left"]
    /\ UNCHANGED <<log, streams, given, doubled, disturbed>>

Reads(f) == Resume(f) \/ Wakes(f)

LogNext ==
    \/ \E g \in Generations : \/ \E r \in RunIds : Start(g, r)
                              \/ \E size \in Sizes : AppendChunk(g, size)
                              \/ End(g)
    \/ \E f \in Followers : \/ \E r \in RunIds : Follow(f, r)
                            \/ Reads(f)
                            \/ Leave(f)

LogSpec == LogInit /\ [][LogNext]_logVars

\* The event loop runs a follower that can run (a tab that stops taking what it is given is
\* one that leaves: the server closes its response), and the agent's stream ends: its read
\* timeout ends it if the agent does not.
Fairness == /\ \A f \in Followers : WF_logVars(Reads(f))
            /\ \A g \in Generations : WF_logVars(End(g))

FairSpec == LogSpec /\ Fairness

-----------------------------------------------------------------------------
(* Properties. *)

\* No follower is given a chunk twice or the chunks of a generation out of order, across
\* trims, evictions, restarts and wake-ups: what follow's cursor is for.
InOrder ==
    \A f \in Followers : \A i, j \in 1..Len(given[f]) :
        i < j /\ given[f][i].by = given[f][j].by => given[f][i].n < given[f][j].n

\* MAX_RUNS and MAX_BYTES bound what is held, but for a last chunk larger than the budget.
Bounded ==
    /\ Cardinality(Kept(log)) <= MaxLogs
    /\ \A r \in RunIds : LET s == log.chunks[r] IN
           Len(s) > 1 => bytes(s) <= MaxBytes

\* Past MAX_BYTES "the OLDEST chunks go" (run_log.py:27): the log stays within its limits,
\* and unless two generations streamed into it at once it is the unbroken end of what its
\* generation has streamed so far.
KeepsNewest ==
    /\ Bounded
    /\ \A r \in RunIds \ doubled : LET s == log.chunks[r] IN s # <<>> =>
         /\ Last(s).n = streams[Last(s).by].said
         /\ \A i \in 1..Len(s) : s[i].by = Last(s).by /\ s[i].n = Last(s).n - (Len(s) - i)

\* "Everything said so far, then everything said next" (run_log.py:87): a follower that
\* goes to wait, or is told the run ended, was given all that the log holds, unless the
\* list was trimmed or replaced under it, or grew while it was being given a chunk: its
\* cursor then skips what it has not seen.
CaughtUp ==
    [][\A f \in Followers \ disturbed :
          readers'[f] # readers[f] /\ readers'[f].at \in {"waiting", "ended"}
          => ToSet(log.chunks[readers'[f].run]) \subseteq ToSet(given'[f])]_logVars

\* "Readers stop after draining" (run_log.py:73) and "nobody should be left waiting on a
\* log that no longer exists" (run_log.py:134): every follower is let go in the end, but
\* for one whose Event a second generation of the run has replaced.
FollowersLetGo ==
    \A f \in Followers :
        readers[f].at \in {"yield", "waiting", "woken"}
        ~> readers[f].at \in {"ended", "left"} \/ readers[f].run \in doubled

=============================================================================
