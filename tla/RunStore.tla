------------------------------ MODULE RunStore ------------------------------
(***************************************************************************)
(* InMemoryRunStore of src/gateway/infrastructure/runs.py.  The dictionary  *)
(* is the sequence of its entries in the order a dict iterates them; every  *)
(* access holds the lock throughout and sweeps first, so put and get are    *)
(* functions of the store.  An entry's age is the time since updated_at.    *)
(***************************************************************************)
EXTENDS Naturals, Sequences, FiniteSets

CONSTANTS TTL,        \* RUN_TTL_SECONDS
          MaxRuns     \* MAX_RUNS

ASSUME RunStoreAssumption == TTL \in Nat /\ MaxRuns \in Nat \ {0}

-----------------------------------------------------------------------------
(* Mutants. *)

\* put, without the pop that moves a run to the end
PutInPlace(s, e) ==
    IF \E k \in 1..Len(s) : s[k].id = e.id
    THEN [k \in 1..Len(s) |-> IF s[k].id = e.id THEN e ELSE s[k]]
    ELSE Append(s, e)

\* put, popping the last item
EvictsTheNewest(s) == IF Len(s) > MaxRuns THEN SubSeq(s, 1, MaxRuns) ELSE s

-----------------------------------------------------------------------------
\* What s has at the places K, in its order: what a dict keeps when the others are deleted.
only(s, K) ==
    [i \in 1..Cardinality(K) |-> s[CHOOSE k \in K : Cardinality({j \in K : j <= k}) = i]]

\* _sweep
swept(s) == only(s, {k \in 1..Len(s) : s[k].age <= TTL})

\* `self._runs[run.id] = self._runs.pop(run.id)`
moved_to_end(s, e) == Append(only(s, {k \in 1..Len(s) : s[k].id # e.id}), e)

\* `while len(self._runs) > self._max`
evicted(s) == IF Len(s) > MaxRuns THEN SubSeq(s, Len(s) - MaxRuns + 1, Len(s)) ELSE s

put(s, e) == evicted(moved_to_end(swept(s), e))

\* get, of a store that has been swept: an entry, or RunNotFoundError.
has(s, r) == \E k \in 1..Len(s) : s[k].id = r
get(s, r) == s[CHOOSE k \in 1..Len(s) : s[k].id = r]

=============================================================================
