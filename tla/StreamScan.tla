----------------------------- MODULE StreamScan -----------------------------
(***************************************************************************)
(* StreamScan of src/gateway/application/orchestration.py: it reads the     *)
(* agent's event stream as it goes past, for the artifact and the usage.    *)
(* The stream is lines; the network cuts it into chunks wherever it likes,  *)
(* and feed is given one chunk at a time.                                   *)
(*                                                                          *)
(* A byte is the line it belongs to and its place there; the newline is the *)
(* place after the last.  The artifact and the usage a line carries are     *)
(* named by the line.  Only its first bytes make a line an event            *)
(* ("data: "), so a line whose beginning was cut off is none.               *)
(***************************************************************************)
EXTENDS Integers, SequencesExt

CONSTANTS MaxTail,    \* MAX_TAIL
          MaxLines,   \* bound on the lines of a stream
          MaxChunk,   \* bound on the bytes of a chunk
          Lengths     \* lengths of lines, shorter and longer than MaxTail

\* What feed tells apart: a done event with a project, a cost or both, the artifact step,
\* and anything else (other events, comments, what is no JSON).
Kinds == {"done project", "done cost", "done", "artifact", "noise"}

ASSUME StreamScanAssumption ==
    /\ MaxTail \in Nat \ {0} /\ MaxLines \in Nat \ {0} /\ MaxChunk \in Nat \ {0}
    /\ Lengths \subseteq Nat \ {0}

Nothing == 0

VARIABLES lines,      \* what the agent sends
          fed,        \* how many of its bytes have been fed
          tail,       \* _tail
          artifact,   \* the line the artifact id was taken from
          usage       \* the line the usage was taken from

vars == <<lines, fed, tail, artifact, usage>>

Lines == [kind : Kinds, len : Lengths]

Bytes == [line : 1..MaxLines, at : Nat \ {0}]

TypeOK ==
    /\ lines \in Seq(Lines) /\ Len(lines) <= MaxLines
    /\ fed \in Nat
    /\ tail \in Seq(Bytes) /\ Len(tail) <= MaxTail
    /\ artifact \in 0..Len(lines) /\ usage \in 0..Len(lines)

Init ==
    /\ lines \in UNION {[1..n -> Lines] : n \in 1..MaxLines}
    /\ fed = 0 /\ tail = <<>>
    /\ artifact = Nothing /\ usage = Nothing

-----------------------------------------------------------------------------
(* Mutants. *)

\* feed, with the chunk split by itself
SplitsTheChunk(chunk) == chunk

\* _read, with the artifact step never yielding to done
FirstArtifact(got, k) ==
    LET kind == lines[k].kind
    IN  [a |-> IF kind \in {"done project", "done", "artifact"} /\ got.a = Nothing
               THEN k ELSE got.a,
         u |-> IF kind \in {"done cost", "done"} THEN k ELSE got.u]

-----------------------------------------------------------------------------

\* The bytes of the stream, newlines included.
BytesOf(k) == [i \in 1..lines[k].len + 1 |-> [line |-> k, at |-> i]]
Text == FlattenSeq([k \in 1..Len(lines) |-> BytesOf(k)])

IsNewline(b) == b.at = lines[b.line].len + 1

\* The lines whose newline, and the lines whose first byte, a buffer has.
EndedIn(buffer) == {b.line : b \in {c \in ToSet(buffer) : IsNewline(c)}}
BegunIn(buffer) == {b.line : b \in {c \in ToSet(buffer) : c.at = 1}}

\* _read of an event: done is believed over anything before it, the artifact step only
\* when there is nothing yet.
read(got, k) ==
    LET kind == lines[k].kind
    IN  [a |-> IF \/ kind \in {"done project", "done"}
                  \/ kind = "artifact" /\ got.a = Nothing
               THEN k ELSE got.a,
         u |-> IF kind \in {"done cost", "done"} THEN k ELSE got.u]

\* `self._tail + chunk`
buffered(chunk) == tail \o chunk

\* `[-MAX_TAIL:]`
capped(s) == SubSeq(s, Max({1, Len(s) - MaxTail + 1}), Len(s))

\* feed: every line that ends in the buffer is read, in order, and what comes after the
\* last newline is kept.
feed(chunk) ==
    LET buffer == buffered(chunk)
        ended  == EndedIn(buffer)
        events == SetToSortSeq(ended \cap BegunIn(buffer), <)
        got    == FoldLeft(read, [a |-> artifact, u |-> usage], events)
    IN  /\ tail' = capped(SelectSeq(buffer, LAMBDA b : b.line \notin ended))
        /\ artifact' = got.a
        /\ usage' = got.u

\* The network hands over the next n bytes.
Chunk(n) ==
    /\ fed + n <= Len(Text)
    /\ feed(SubSeq(Text, fed + 1, fed + n))
    /\ fed' = fed + n
    /\ UNCHANGED lines

Next == \E n \in 1..MaxChunk : Chunk(n)

Spec == Init /\ [][Next]_vars

-----------------------------------------------------------------------------
(* Properties. *)

\* The lines the stream has finished so far.
Finished == {b.line : b \in {c \in ToSet(SubSeq(Text, 1, fed)) : IsNewline(c)}}

Of(kinds) == {k \in Finished : lines[k].kind \in kinds}

\* "An SSE event is routinely split across two" chunks (orchestration.py:499), and "what
\* was produced" and "what it consumed" outlive the stream (474-477): wherever the stream
\* was cut, the artifact is that of the last done event with a project, or else of the
\* first artifact step, and the usage that of the last done event with a cost, unless
\* one of these is longer than MAX_TAIL: its beginning may be gone when its end comes.
ReadsAlong ==
    Of(Kinds \ {"noise"}) \subseteq {k \in Finished : lines[k].len <= MaxTail} =>
    /\ artifact = IF Of({"done project", "done"}) # {} THEN Max(Of({"done project", "done"}))
                  ELSE IF Of({"artifact"}) # {} THEN Min(Of({"artifact"}))
                  ELSE Nothing
    /\ usage = Max(Of({"done cost", "done"}) \cup {Nothing})

=============================================================================
