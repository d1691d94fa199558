--------------------------- MODULE DeliveryProofs ---------------------------
(***************************************************************************)
(* Proofs about what a client that comes back for a run is given.          *)
(*                                                                         *)
(* Of its log (RunLog), for any number of runs, generations, followers and *)
(* chunks: no follower is given a chunk twice or out of order, the log is  *)
(* the unbroken end of what was said, and a follower that is let go        *)
(* without its list having changed under it has had everything.            *)
(*                                                                         *)
(* Of the run and its project (Delivery), whatever the limits and however  *)
(* many runs and instances there are: no run is missing before it is due,  *)
(* and what a client is told of it is so.                                  *)
(***************************************************************************)
EXTENDS RunLog, Delivery, TLAPS, FiniteSetTheorems, SequenceTheorems,
        WellFoundedInduction, NaturalsInduction

-----------------------------------------------------------------------------
(* The inductive invariants of the log.                                    *)

\* Of the chunks of one generation, c was said before d.
Older(c, d) == c.by = d.by => c.n < d.n

Increasing(s) == \A i, j \in 1..Len(s) : i < j => Older(s[i], s[j])

\* All of s is older than what t has after its first k chunks.
Before(s, t, k) == \A i \in 1..Len(s), j \in 1..Len(t) : j > k => Older(s[i], t[j])

\* Nothing in s is still to be said.
Said(s, st) == \A i \in 1..Len(s) : s[i].n <= st[s[i].by].said

\* What a reader has been given is older than what it will be given: the rest of
\* its slice, and what it finds after its cursor when it looks again.
ReaderInv(rd, g, l, st) ==
    /\ Increasing(g) /\ Increasing(rd.rest) /\ Before(g, rd.rest, 0)
    /\ Said(g, st) /\ Said(rd.rest, st)
    /\ rd.at = "new" => g = <<>>
    /\ rd.at \notin {"new", "left"} => rd.run \in RunIds
    /\ rd.at \in {"waiting", "woken"} => Before(g, l.chunks[rd.run], rd.cursor)
    /\ rd.at = "yield" /\ rd.frozen = 0 => l.chunks[rd.run] # <<>>
    /\ rd.at = "yield" /\ rd.frozen # 0 =>
         Before(g, l.chunks[rd.run], 0) /\ Before(rd.rest, l.chunks[rd.run], 0)

RunInv(s, st) == Increasing(s) /\ Said(s, st)

OrderInv ==
    /\ LogTypeOK
    /\ \A g \in Generations : streams[g].at # "new" => streams[g].run \in RunIds
    /\ \A r \in RunIds : RunInv(log.chunks[r], streams)
    /\ \A f \in Followers : ReaderInv(readers[f], given[f], log, streams)

\* The list s of run r is within the budget, and its chunks are those of generations
\* of the run.
Newest(r, s, st) ==
    /\ Len(s) > 1 => bytes(s) <= MaxBytes
    /\ \A i \in 1..Len(s) : st[s[i].by].at # "new" /\ st[s[i].by].run = r

Streaming(r, st) == {g \in Generations : st[g].at = "open" /\ st[g].run = r}

\* They are the last that one generation has said, without a gap: the one that is
\* open, when one is, and no more than one is.
Unbroken(r, s, st) ==
    /\ \A i \in 1..Len(s) :
          /\ s[i].by = s[Len(s)].by
          /\ s[i].n = s[Len(s)].n - (Len(s) - i)
          /\ s[Len(s)].n = st[s[Len(s)].by].said
    /\ \A g, h \in Streaming(r, st) : g = h
    /\ \A g \in Streaming(r, st) : \A i \in 1..Len(s) : s[i].by = g

NewestInv ==
    /\ OrderInv
    /\ \A r \in RunIds : Newest(r, log.chunks[r], streams)
    /\ \A r \in RunIds \ doubled : Unbroken(r, log.chunks[r], streams)

\* What a follower has had of a list that only ever grew, and never while it was given
\* a chunk: all of it, with what is left of its slice, or all of it up to its cursor.
Had(rd, g, s) ==
    /\ rd.at = "yield" => /\ rd.frozen = 0
                          /\ ToSet(s) \subseteq ToSet(g) \cup ToSet(rd.rest)
    /\ rd.at \in {"waiting", "woken"} =>
         /\ rd.cursor <= Len(s)
         /\ \A j \in 1..Len(s) : j <= rd.cursor => s[j] \in ToSet(g)

HadInv ==
    /\ OrderInv
    /\ \A f \in Followers \ disturbed :
          Had(readers[f], given[f], log.chunks[readers[f].run])

-----------------------------------------------------------------------------
(* Sequences.                                                              *)

\* A set of numbers that is not empty has a least one, and Min is it.
LEMMA Least ==
    ASSUME NEW T, T \subseteq Nat, T # {}
    PROVE  Min(T) \in T /\ \A y \in T : Min(T) <= y
<1>1. \E x \in T : \A y \in T : ~ (<<y, x>> \in OpToRel(<, Nat))
  BY NatLessThanWellFounded, WFMin, Zenon
<1>2. \E x \in T : \A y \in T : x <= y
  <2>1. PICK x \in T : \A y \in T : ~ (<<y, x>> \in OpToRel(<, Nat))
    BY <1>1, Zenon
  <2>2. \A y \in T : ~ (y < x)
    BY <2>1, Zenon DEF OpToRel
  <2> QED
    BY <2>2
<1> QED
  BY <1>2 DEF Min

\* The members of a sequence are what it has at its places.
LEMMA Members ==
    ASSUME NEW S, NEW s \in Seq(S)
    PROVE  /\ Len(s) \in Nat
           /\ \A x : x \in ToSet(s) <=> \E i \in 1..Len(s) : x = s[i]
           /\ ToSet(s) \subseteq S
           /\ s = <<>> <=> Len(s) = 0
<1>1. Len(s) \in Nat /\ DOMAIN s = 1..Len(s) /\ \A i \in 1..Len(s) : s[i] \in S
  BY LenProperties, ElementOfSeq
<1>2. s = <<>> <=> Len(s) = 0
  BY EmptySeq
<1> QED
  BY <1>1, <1>2 DEF ToSet

\* The end of a sequence, from place k on.
LEMMA Suffix ==
    ASSUME NEW S, NEW s \in Seq(S), NEW k \in 1..(Len(s) + 1)
    PROVE  /\ SubSeq(s, k, Len(s)) \in Seq(S)
           /\ Len(SubSeq(s, k, Len(s))) = Len(s) - k + 1
           /\ \A j \in 1..(Len(s) - k + 1) : SubSeq(s, k, Len(s))[j] = s[j + k - 1]
<1>1. Len(s) \in Nat
  BY LenProperties
<1>2. \A i \in k..Len(s) : s[i] \in S
  BY <1>1, ElementOfSeq
<1>3. k \in Int /\ Len(s) \in Int
  BY <1>1
<1>4. /\ SubSeq(s, k, Len(s)) \in Seq(S)
      /\ Len(SubSeq(s, k, Len(s))) = IF k <= Len(s) THEN Len(s) - k + 1 ELSE 0
      /\ \A i \in 1..(Len(s) - k + 1) : SubSeq(s, k, Len(s))[i] = s[k + i - 1]
  BY <1>2, <1>3, SubSeqProperties
<1> QED
  BY <1>1, <1>4

\* What append leaves of a list is an end of it with the new chunk in it, and
\* within the budget unless it is that chunk alone.
LEMMA TrimSuffix ==
    ASSUME NEW s \in Seq(Chunks), s # <<>>
    PROVE  \E k \in 1..Len(s) : /\ trim(s) = SubSeq(s, k, Len(s))
                                /\ k = Len(s) \/ bytes(trim(s)) <= MaxBytes
<1> DEFINE T == {k \in 1..Len(s) : k = Len(s) \/ bytes(SubSeq(s, k, Len(s))) <= MaxBytes}
<1>1. Len(s) \in Nat /\ Len(s) # 0
  BY Members
<1>2. T \subseteq Nat /\ Len(s) \in T
  BY <1>1
<1>3. Min(T) \in T
  <2> HIDE DEF T
  <2> QED
    BY <1>2, Least
<1>4. trim(s) = SubSeq(s, Min(T), Len(s))
  BY DEF trim
<1> QED
  BY <1>3, <1>4

-----------------------------------------------------------------------------
(* What writing does to a list, and to those who read it.                   *)

\* t is s after a write: as it was, emptied, or an end of s with a chunk after it
\* that its generation had not said before.
Grown(s, t, c) ==
    \E k \in 1..(Len(s) + 1) : t = SubSeq(Append(s, c), k, Len(s) + 1)

Written(s, t, st, su) ==
    \/ t = s
    \/ t = <<>>
    \/ \E c \in Chunks : Grown(s, t, c) /\ c.n > st[c.by].said /\ c.n <= su[c.by].said

\* A list that grew: its last chunk is the new one, the others were in the old.
LEMMA GrownPlaces ==
    ASSUME NEW s \in Seq(Chunks), NEW c \in Chunks, NEW t, Grown(s, t, c)
    PROVE  /\ t \in Seq(Chunks) /\ t # <<>> /\ Len(t) \in 1..(Len(s) + 1)
           /\ t[Len(t)] = c
           /\ \A j \in 1..(Len(t) - 1) : /\ j + (Len(s) + 1 - Len(t)) \in 1..Len(s)
                                         /\ t[j] = s[j + (Len(s) + 1 - Len(t))]
<1>1. Len(s) \in Nat
  BY Members
<1>2. PICK a \in Seq(Chunks) : a = Append(s, c)
  BY AppendProperties
<1>3. Len(a) = Len(s) + 1 /\ a[Len(s) + 1] = c /\ \A i \in 1..Len(s) : a[i] = s[i]
  BY <1>2, AppendProperties
<1>4. PICK k \in 1..(Len(s) + 1) : t = SubSeq(a, k, Len(a))
  BY <1>2, <1>3 DEF Grown
<1>5. k \in 1..(Len(a) + 1)
  BY <1>1, <1>3, <1>4
<1>6. /\ t \in Seq(Chunks) /\ Len(t) = Len(a) - k + 1
      /\ \A j \in 1..(Len(a) - k + 1) : t[j] = a[j + k - 1]
  BY <1>4, <1>5, Suffix
<1>7. Len(t) \in 1..(Len(s) + 1) /\ k = Len(s) + 2 - Len(t)
  BY <1>1, <1>3, <1>4, <1>6
<1>8. t # <<>>
  BY <1>6, <1>7, Members
<1>9. t[Len(t)] = c
  BY <1>1, <1>3, <1>6, <1>7
<1>10. ASSUME NEW j \in 1..(Len(t) - 1)
       PROVE  /\ j + (Len(s) + 1 - Len(t)) \in 1..Len(s)
              /\ t[j] = s[j + (Len(s) + 1 - Len(t))]
  <2>1. j + (Len(s) + 1 - Len(t)) \in 1..Len(s)
    BY <1>1, <1>7
  <2>2. j + k - 1 = j + (Len(s) + 1 - Len(t))
    BY <1>1, <1>7
  <2>3. t[j] = a[j + k - 1]
    BY <1>1, <1>3, <1>6, <1>7
  <2> QED
    BY <1>3, <2>1, <2>2, <2>3
<1> QED
  BY <1>6, <1>7, <1>8, <1>9, <1>10

\* The number and the generation of a chunk.
LEMMA ChunkFields ==
    ASSUME NEW c \in Chunks
    PROVE  c.n \in Nat /\ c.by \in Generations
  BY RunLogAssumption DEF Chunks

\* A write leaves what was said in order, and adds only what is newer.
LEMMA RunWritten ==
    ASSUME NEW s \in Seq(Chunks), NEW t \in Seq(Chunks),
           NEW st \in [Generations -> Streams], NEW su \in [Generations -> Streams],
           \A h \in Generations : st[h].said <= su[h].said,
           RunInv(s, st), Written(s, t, st, su)
    PROVE  RunInv(t, su)
<1>0. /\ Len(s) \in Nat /\ Len(t) \in Nat
      /\ \A i \in 1..Len(s) : s[i] \in Chunks
      /\ \A h \in Generations : st[h].said \in Nat /\ su[h].said \in Nat
  BY Members, ElementOfSeq, RunLogAssumption DEF Streams
<1>1. CASE t = s
  <2>1. ASSUME NEW i \in 1..Len(s)
        PROVE  s[i].n <= su[s[i].by].said
    <3>1. s[i].n \in Nat /\ s[i].by \in Generations
      BY <1>0, ChunkFields
    <3>2. s[i].n <= st[s[i].by].said
      BY DEF RunInv, Said
    <3>3. /\ st[s[i].by].said <= su[s[i].by].said
          /\ st[s[i].by].said \in Nat /\ su[s[i].by].said \in Nat
      BY <1>0, <3>1
    <3> QED
      BY <3>1, <3>2, <3>3
  <2> QED
    BY <1>1, <2>1 DEF RunInv, Said
<1>2. CASE t = <<>>
  <2>1. Len(t) = 0
    BY <1>2, Members
  <2> QED
    BY <2>1 DEF RunInv, Increasing, Said
<1>3. ASSUME NEW c \in Chunks, Grown(s, t, c), c.n > st[c.by].said, c.n <= su[c.by].said
      PROVE  RunInv(t, su)
  <2>1. /\ Len(t) \in 1..(Len(s) + 1) /\ t[Len(t)] = c
        /\ \A j \in 1..(Len(t) - 1) : /\ j + (Len(s) + 1 - Len(t)) \in 1..Len(s)
                                      /\ t[j] = s[j + (Len(s) + 1 - Len(t))]
    BY <1>3, GrownPlaces
  <2>2. ASSUME NEW j \in 1..Len(t)
        PROVE  t[j].n <= su[t[j].by].said
    <3>1. CASE j = Len(t)
      BY <1>3, <2>1, <3>1
    <3>2. CASE j # Len(t)
      <4>0. j \in 1..(Len(t) - 1)
        BY <1>0, <3>2
      <4>1. PICK i \in 1..Len(s) : t[j] = s[i]
        BY <2>1, <4>0
      <4>2. s[i].n \in Nat /\ s[i].by \in Generations
        BY <1>0, ChunkFields
      <4>3. s[i].n <= st[s[i].by].said
        BY DEF RunInv, Said
      <4>4. /\ st[s[i].by].said <= su[s[i].by].said
            /\ st[s[i].by].said \in Nat /\ su[s[i].by].said \in Nat
        BY <1>0, <4>2
      <4>5. s[i].n <= su[s[i].by].said
        BY <4>2, <4>3, <4>4
      <4> QED
        BY <4>1, <4>5
    <3> QED
      BY <3>1, <3>2
  <2>3. ASSUME NEW i \in 1..Len(t), NEW j \in 1..Len(t), i < j
        PROVE  Older(t[i], t[j])
    <3>1. PICK m \in 1..Len(s) : t[i] = s[m] /\ m = i + (Len(s) + 1 - Len(t))
      BY <1>0, <2>1, <2>3
    <3>2. CASE j = Len(t)
      <4>1. s[m].n <= st[s[m].by].said
        BY DEF RunInv, Said
      <4>2. s[m].n \in Nat /\ s[m].by \in Generations /\ c.n \in Nat
        BY <1>0, ChunkFields
      <4>3. s[m].by = c.by => s[m].n < c.n
        BY <1>0, <1>3, <4>1, <4>2
      <4> QED
        BY <2>1, <3>1, <3>2, <4>3 DEF Older
    <3>3. CASE j # Len(t)
      <4>0. j \in 1..(Len(t) - 1)
        BY <1>0, <3>3
      <4>1. PICK n \in 1..Len(s) : t[j] = s[n] /\ n = j + (Len(s) + 1 - Len(t))
        BY <2>1, <4>0
      <4>2. m < n
        BY <1>0, <2>3, <3>1, <4>1
      <4> QED
        BY <3>1, <4>1, <4>2 DEF RunInv, Increasing
    <3> QED
      BY <3>2, <3>3
  <2> QED
    BY <2>2, <2>3 DEF RunInv, Increasing, Said
<1> QED
  BY <1>1, <1>2, <1>3 DEF Written

\* What was older than the end of a list is older than its end after a write.
LEMMA BeforeWritten ==
    ASSUME NEW g \in Seq(Chunks), NEW s \in Seq(Chunks), NEW t \in Seq(Chunks), NEW k \in Nat,
           NEW st \in [Generations -> Streams], NEW su,
           Said(g, st), Before(g, s, k), Written(s, t, st, su)
    PROVE  Before(g, t, k)
<1>0. /\ Len(s) \in Nat /\ Len(t) \in Nat /\ Len(g) \in Nat
      /\ \A i \in 1..Len(g) : g[i] \in Chunks
      /\ \A h \in Generations : st[h].said \in Nat
  BY Members, ElementOfSeq, RunLogAssumption DEF Streams
<1>1. CASE t = s
  BY <1>1
<1>2. CASE t = <<>>
  <2>1. Len(t) = 0
    BY <1>2, Members
  <2> QED
    BY <2>1 DEF Before
<1>3. ASSUME NEW c \in Chunks, Grown(s, t, c), c.n > st[c.by].said
      PROVE  Before(g, t, k)
  <2>1. /\ Len(t) \in 1..(Len(s) + 1) /\ t[Len(t)] = c
        /\ \A j \in 1..(Len(t) - 1) : /\ j + (Len(s) + 1 - Len(t)) \in 1..Len(s)
                                      /\ t[j] = s[j + (Len(s) + 1 - Len(t))]
    BY <1>3, GrownPlaces
  <2>2. ASSUME NEW i \in 1..Len(g), NEW j \in 1..Len(t), j > k
        PROVE  Older(g[i], t[j])
    <3>1. CASE j = Len(t)
      <4>1. g[i].n <= st[g[i].by].said
        BY DEF Said
      <4> QED
        BY <1>0, <1>3, <2>1, <3>1, <4>1 DEF Older, Chunks
    <3>2. CASE j # Len(t)
      <4>1. PICK n \in 1..Len(s) : t[j] = s[n] /\ n = j + (Len(s) + 1 - Len(t))
        BY <1>0, <2>1, <3>2
      <4>2. n > k
        BY <1>0, <2>1, <2>2, <4>1
      <4> QED
        BY <4>1, <4>2 DEF Before
    <3> QED
      BY <3>1, <3>2
  <2> QED
    BY <2>2 DEF Before
<1> QED
  BY <1>1, <1>2, <1>3 DEF Written

\* What was said stays said.
LEMMA StaysSaid ==
    ASSUME NEW s \in Seq(Chunks), NEW st \in [Generations -> Streams],
           NEW su \in [Generations -> Streams],
           \A h \in Generations : st[h].said <= su[h].said, Said(s, st)
    PROVE  Said(s, su)
<1>1. /\ \A i \in 1..Len(s) : s[i] \in Chunks
      /\ \A h \in Generations : st[h].said \in Nat /\ su[h].said \in Nat
  BY ElementOfSeq, RunLogAssumption DEF Streams
<1> QED
  BY <1>1 DEF Said, Chunks

\* What a write does to a reader that it finds: the Event it waits on is set or
\* replaced, or its list is no longer the run's own, which is then empty.
Stirred(rd, e, t) ==
    /\ e.run = rd.run /\ e.cursor = rd.cursor /\ e.rest = rd.rest
    /\ e.at = rd.at \/ (rd.at = "waiting" /\ e.at \in {"woken", "lost"})
    /\ rd.at # "yield" \/ rd.frozen # 0 => e.frozen = rd.frozen
    /\ rd.at = "yield" /\ rd.frozen = 0 /\ e.frozen = 0 => t # <<>>
    /\ rd.at = "yield" /\ rd.frozen = 0 /\ e.frozen # 0 => t = <<>>

\* A write leaves every reader's past older than its future.
LEMMA ReaderWritten ==
    ASSUME NEW rd \in Readers, NEW e \in Readers, NEW g \in Seq(Chunks),
           NEW l \in Logs, NEW m \in Logs,
           NEW st \in [Generations -> Streams], NEW su \in [Generations -> Streams],
           \A h \in Generations : st[h].said <= su[h].said,
           ReaderInv(rd, g, l, st),
           rd.at \notin {"new", "left"} =>
             /\ Written(l.chunks[rd.run], m.chunks[rd.run], st, su)
             /\ Stirred(rd, e, m.chunks[rd.run]),
           rd.at \in {"new", "left"} => e = rd
    PROVE  ReaderInv(e, g, m, su)
<1>1. rd.rest \in Seq(Chunks) /\ rd.cursor \in Nat /\ rd.at \in Places /\ e.at \in Places
  BY DEF Readers
<1>2. Said(g, st) /\ Said(rd.rest, st) /\ Said(g, su) /\ Said(rd.rest, su)
  BY <1>1, StaysSaid DEF ReaderInv
<1>3. Increasing(g) /\ Increasing(rd.rest) /\ Before(g, rd.rest, 0)
  BY DEF ReaderInv
<1>4. CASE rd.at \in {"new", "left"}
  BY <1>2, <1>3, <1>4 DEF ReaderInv
<1>5. CASE rd.at \notin {"new", "left"}
  <2>1. rd.run \in RunIds
    BY <1>5 DEF ReaderInv
  <2>2. PICK s \in Seq(Chunks), t \in Seq(Chunks) : s = l.chunks[rd.run] /\ t = m.chunks[rd.run]
    BY <2>1 DEF Logs
  <2>3. Written(s, t, st, su) /\ Stirred(rd, e, t)
    BY <1>5, <2>2
  <2>4. /\ e.run = rd.run /\ e.cursor = rd.cursor /\ e.rest = rd.rest
        /\ e.at # "new"
        /\ e.at \in {"waiting", "woken"} => rd.at \in {"waiting", "woken"}
        /\ e.at = "yield" => rd.at = "yield"
    BY <1>1, <1>5, <2>3 DEF Stirred
  <2>5. e.at \in {"waiting", "woken"} => Before(g, t, e.cursor)
    <3>1. rd.at \in {"waiting", "woken"} => Before(g, s, rd.cursor)
      BY <2>2 DEF ReaderInv
    <3> QED
      BY <1>1, <1>2, <2>3, <2>4, <3>1, BeforeWritten
  <2>6. e.at = "yield" /\ e.frozen = 0 => t # <<>>
    BY <2>3, <2>4 DEF Stirred
  <2>7. e.at = "yield" /\ e.frozen # 0 => Before(g, t, 0) /\ Before(e.rest, t, 0)
    <3>1. CASE e.at = "yield" /\ e.frozen # 0 /\ rd.frozen = 0
      <4>1. t = <<>>
        BY <2>3, <2>4, <3>1 DEF Stirred
      <4>2. Len(t) = 0
        BY <4>1, Members
      <4> QED
        BY <4>2 DEF Before
    <3>2. CASE e.at = "yield" /\ e.frozen # 0 /\ rd.frozen # 0
      <4>1. Before(g, s, 0) /\ Before(rd.rest, s, 0)
        BY <2>2, <2>4, <3>2 DEF ReaderInv
      <4> QED
        BY <1>1, <1>2, <2>3, <2>4, <4>1, BeforeWritten
    <3> QED
      BY <3>1, <3>2
  <2> QED
    BY <1>2, <1>3, <2>1, <2>2, <2>4, <2>5, <2>6, <2>7 DEF ReaderInv
<1> QED
  BY <1>4, <1>5

-----------------------------------------------------------------------------
(* The writing side.                                                       *)

\* The logs of LogTypeOK: within MAX_RUNS, and a run without one reads as ended.
GoodLog(l) ==
    /\ l \in Logs /\ Len(l.order) <= MaxLogs
    /\ \A r \in RunIds \ Kept(l) : l.chunks[r] = <<>> /\ l.ended[r]

\* start gives the run an empty list and empties at most that of the oldest run.
LEMMA StartsLog ==
    ASSUME NEW l, GoodLog(l), NEW r \in RunIds
    PROVE  /\ GoodLog(start(l, r))
           /\ r \in Kept(start(l, r))
           /\ start(l, r).chunks[r] = <<>>
           /\ \A q \in RunIds \ {r} : start(l, r).chunks[q] =
                                        IF q \in evict(l) THEN <<>> ELSE l.chunks[q]
           /\ evict(l) \subseteq Kept(l)
<1> DEFINE left == IF evict(l) = {} THEN l.order ELSE Tail(l.order)
           m    == start(l, r)
<1>0. /\ l.order \in Seq(RunIds) /\ l.chunks \in [RunIds -> Seq(Chunks)]
      /\ l.ended \in [RunIds -> BOOLEAN] /\ Len(l.order) \in Nat /\ Len(l.order) <= MaxLogs
      /\ MaxLogs \in Nat \ {0}
  BY RunLogAssumption, Members DEF GoodLog, Logs
<1>1. m = [order  |-> IF r \in ToSet(left) THEN left ELSE Append(left, r),
           chunks |-> [q \in RunIds |-> IF q \in evict(l) \cup {r} THEN <<>> ELSE l.chunks[q]],
           ended  |-> [q \in RunIds |-> q # r /\ (q \in evict(l) \/ l.ended[q])]]
  BY DEF start
<1>2. /\ left \in Seq(RunIds) /\ Len(left) \in Nat /\ Len(left) + 1 <= MaxLogs
      /\ \A q \in ToSet(l.order) : q \in ToSet(left) \/ q \in evict(l)
      /\ evict(l) \subseteq Kept(l)
  <2>1. CASE Len(l.order) < MaxLogs
    BY <1>0, <2>1 DEF evict
  <2>2. CASE ~(Len(l.order) < MaxLogs)
    <3>1. l.order # <<>> /\ evict(l) = {Head(l.order)} /\ left = Tail(l.order)
      <4>1. Len(l.order) # 0
        BY <1>0, <2>2
      <4>2. l.order # <<>>
        BY <1>0, <4>1, Members
      <4>3. evict(l) = {Head(l.order)}
        BY <2>2 DEF evict
      <4>4. evict(l) # {}
        BY <4>3
      <4> QED
        BY <4>2, <4>3, <4>4
    <3>2. /\ left \in Seq(RunIds) /\ Len(left) = Len(l.order) - 1
          /\ \A i \in 1..Len(left) : left[i] = l.order[i + 1]
      BY <1>0, <3>1, HeadTailProperties
    <3>3. Head(l.order) = l.order[1]
      BY <1>0, <3>1
    <3>4. ASSUME NEW q \in ToSet(l.order)
          PROVE  q \in ToSet(left) \/ q \in evict(l)
      <4>1. PICK i \in 1..Len(l.order) : q = l.order[i]
        BY <1>0, Members
      <4>2. CASE i = 1
        BY <3>1, <3>3, <4>1, <4>2
      <4>3. CASE i # 1
        <5>1. i - 1 \in 1..Len(left) /\ (i - 1) + 1 = i
          BY <1>0, <3>2, <4>3
        <5>2. q = left[i - 1]
          BY <3>2, <4>1, <5>1
        <5> QED
          BY <3>2, <5>1, <5>2, Members
      <4> QED
        BY <4>2, <4>3
    <3>5. Head(l.order) \in Kept(l)
      <4>1. 1 \in 1..Len(l.order)
        BY <1>0, <2>2
      <4> QED
        BY <1>0, <3>3, <4>1, Members DEF Kept
    <3>6. Len(left) \in Nat /\ Len(left) + 1 <= MaxLogs
      BY <1>0, <2>2, <3>2
    <3> QED
      BY <3>1, <3>2, <3>4, <3>5, <3>6
  <2> QED
    BY <2>1, <2>2
<1> HIDE DEF left, m
<1>3. /\ m.chunks = [q \in RunIds |-> IF q \in evict(l) \cup {r} THEN <<>> ELSE l.chunks[q]]
      /\ m.ended = [q \in RunIds |-> q # r /\ (q \in evict(l) \/ l.ended[q])]
      /\ m.order = IF r \in ToSet(left) THEN left ELSE Append(left, r)
  BY <1>1
<1>4. /\ m.order \in Seq(RunIds) /\ Len(m.order) <= MaxLogs
      /\ ToSet(m.order) = ToSet(left) \cup {r}
  <2>1. CASE r \in ToSet(left)
    BY <1>0, <1>2, <1>3, <2>1
  <2>2. CASE r \notin ToSet(left)
    <3>1. PICK a : a = Append(left, r)
      OBVIOUS
    <3>2. /\ a \in Seq(RunIds) /\ Len(a) = Len(left) + 1
          /\ \A i \in 1..Len(left) : a[i] = left[i]
          /\ a[Len(left) + 1] = r
      BY <1>2, <3>1, AppendProperties
    <3>3. ToSet(a) = ToSet(left) \cup {r}
      <4>1. ASSUME NEW x \in ToSet(a)
            PROVE  x \in ToSet(left) \cup {r}
        <5>1. PICK i \in 1..Len(a) : x = a[i]
          BY <3>2, Members
        <5>2. i = Len(left) + 1 \/ i \in 1..Len(left)
          BY <1>2, <3>2
        <5> QED
          BY <1>2, <3>2, <5>1, <5>2, Members
      <4>2. ASSUME NEW x \in ToSet(left)
            PROVE  x \in ToSet(a)
        <5>1. PICK i \in 1..Len(left) : x = left[i]
          BY <1>2, Members
        <5>2. i \in 1..Len(a) /\ x = a[i]
          BY <1>2, <3>2, <5>1
        <5> QED
          BY <3>2, <5>2, Members
      <4>3. r \in ToSet(a)
        <5>1. Len(a) \in 1..Len(a) /\ r = a[Len(a)]
          BY <1>2, <3>2
        <5> QED
          BY <3>2, <5>1, Members
      <4> QED
        BY <4>1, <4>2, <4>3
    <3>4. m.order = a
      BY <1>3, <2>2, <3>1
    <3> QED
      BY <1>2, <3>2, <3>3, <3>4
  <2> QED
    BY <2>1, <2>2
<1>5. m \in Logs
  <2>1. m.chunks \in [RunIds -> Seq(Chunks)]
    BY <1>0, <1>3, EmptySeq
  <2>2. m.ended \in [RunIds -> BOOLEAN]
    BY <1>3
  <2>3. m = [order |-> m.order, chunks |-> m.chunks, ended |-> m.ended]
    BY <1>1
  <2> QED
    BY <1>4, <2>1, <2>2, <2>3 DEF Logs
<1>6. \A q \in RunIds \ Kept(m) : m.chunks[q] = <<>> /\ m.ended[q]
  <2> SUFFICES ASSUME NEW q \in RunIds \ Kept(m)
               PROVE  m.chunks[q] = <<>> /\ m.ended[q]
    OBVIOUS
  <2>1. q # r /\ q \notin ToSet(left)
    BY <1>4 DEF Kept
  <2>2. q \in evict(l) \/ q \notin Kept(l)
    BY <1>2, <2>1 DEF Kept
  <2>3. q \in evict(l) \/ (l.chunks[q] = <<>> /\ l.ended[q])
    BY <2>2 DEF GoodLog
  <2> QED
    BY <1>3, <2>1, <2>3
<1>7. /\ m.chunks[r] = <<>>
      /\ \A q \in RunIds \ {r} : m.chunks[q] = IF q \in evict(l) THEN <<>> ELSE l.chunks[q]
  BY <1>3
<1> QED
  BY <1>2, <1>4, <1>5, <1>6, <1>7 DEF GoodLog, Kept, m

\* start finds a reader of the run, or of the one it evicts, and no other.
LEMMA Restarts ==
    ASSUME NEW rs \in [Followers -> Readers], NEW l \in Logs, NEW r \in RunIds,
           NEW f \in Followers,
           rs[f].at \in {"yield", "waiting"} => rs[f].run \in RunIds
    PROVE  LET rd == rs[f]
               e  == restart(rs, l, r)[f]
           IN  /\ e \in Readers
               /\ e.run = rd.run /\ e.cursor = rd.cursor /\ e.rest = rd.rest
               /\ e.at = rd.at \/ (rd.at = "waiting" /\ e.at \in {"woken", "lost"})
               /\ rd.run \in evict(l) \cup {r} /\ rd.at = "yield" /\ rd.frozen = 0
                    => e.frozen = Len(l.chunks[rd.run])
               /\ ~(rd.run \in evict(l) \cup {r} /\ rd.at = "yield" /\ rd.frozen = 0)
                    => e.frozen = rd.frozen
               /\ rd.at \notin {"yield", "waiting"} => e = rd
<1> DEFINE rd == rs[f]
           d  == forget(rs, l, evict(l))[f]
           e  == restart(rs, l, r)[f]
<1>1. PICK n \in Nat : rd.at \in {"yield", "waiting"} => n = Len(l.chunks[rd.run])
  <2>1. rd.at \in {"yield", "waiting"} => Len(l.chunks[rd.run]) \in Nat
    BY Members DEF Logs
  <2> QED
    BY <2>1
<1>2. rd \in Readers
  OBVIOUS
<1>3. d = CASE rd.run \in evict(l) /\ rd.at = "yield" /\ rd.frozen = 0 ->
                 [rd EXCEPT !.frozen = Len(l.chunks[rd.run])]
            [] rd.run \in evict(l) /\ rd.at = "waiting" -> [rd EXCEPT !.at = "woken"]
            [] OTHER -> rd
  BY DEF forget
<1>4. e = CASE d.run = r /\ d.at = "yield" /\ d.frozen = 0 ->
                 [d EXCEPT !.frozen = Len(l.chunks[r])]
            [] d.run = r /\ d.at = "waiting" -> [d EXCEPT !.at = "lost"]
            [] OTHER -> d
  BY DEF restart, replace
<1> HIDE DEF rd, d, e
<1>5. /\ d \in Readers
      /\ d.run = rd.run /\ d.cursor = rd.cursor /\ d.rest = rd.rest
      /\ d.at = rd.at \/ (rd.at = "waiting" /\ d.at = "woken")
      /\ d.frozen = IF rd.run \in evict(l) /\ rd.at = "yield" /\ rd.frozen = 0 THEN n ELSE rd.frozen
      /\ rd.at \notin {"yield", "waiting"} => d = rd
  <2>1. CASE rd.run \in evict(l) /\ rd.at = "yield" /\ rd.frozen = 0
    <3>1. d = [rd EXCEPT !.frozen = n]
      BY <1>1, <1>3, <2>1
    <3> QED
      BY <1>2, <2>1, <3>1 DEF Readers, Places
  <2>2. CASE rd.run \in evict(l) /\ rd.at = "waiting"
    <3>1. d = [rd EXCEPT !.at = "woken"]
      BY <1>3, <2>2
    <3> QED
      BY <1>2, <2>2, <3>1 DEF Readers, Places
  <2>3. CASE /\ ~(rd.run \in evict(l) /\ rd.at = "yield" /\ rd.frozen = 0)
             /\ ~(rd.run \in evict(l) /\ rd.at = "waiting")
    <3>1. d = rd
      BY <1>3, <2>3
    <3> QED
      BY <1>2, <2>3, <3>1
  <2> QED
    BY <2>1, <2>2, <2>3
<1>6. /\ e \in Readers
      /\ e.run = d.run /\ e.cursor = d.cursor /\ e.rest = d.rest
      /\ e.at = d.at \/ (d.at = "waiting" /\ e.at = "lost")
      /\ e.frozen = IF d.run = r /\ d.at = "yield" /\ d.frozen = 0 THEN n ELSE d.frozen
      /\ rd.at \notin {"yield", "waiting"} => e = d
  <2>1. CASE d.run = r /\ d.at = "yield" /\ d.frozen = 0
    <3>0. rd.at = "yield" /\ rd.run = r
      BY <1>5, <2>1
    <3>1. e = [d EXCEPT !.frozen = n]
      BY <1>1, <1>4, <2>1, <3>0
    <3> QED
      BY <1>5, <2>1, <3>0, <3>1 DEF Readers, Places
  <2>2. CASE d.run = r /\ d.at = "waiting"
    <3>0. rd.at = "waiting"
      BY <1>5, <2>2
    <3>1. e = [d EXCEPT !.at = "lost"]
      BY <1>4, <2>2
    <3> QED
      BY <1>5, <2>2, <3>0, <3>1 DEF Readers, Places
  <2>3. CASE ~(d.run = r /\ d.at = "yield" /\ d.frozen = 0) /\ ~(d.run = r /\ d.at = "waiting")
    <3>1. e = d
      BY <1>4, <2>3
    <3> QED
      BY <1>5, <2>3, <3>1
  <2> QED
    BY <2>1, <2>2, <2>3
<1>7. rd.at = "yield" => d.at = "yield" /\ n = Len(l.chunks[rd.run])
  BY <1>1, <1>5
<1>8. e.at = rd.at \/ (rd.at = "waiting" /\ e.at \in {"woken", "lost"})
  BY <1>5, <1>6
<1>9. /\ rd.run \in evict(l) \cup {r} /\ rd.at = "yield" /\ rd.frozen = 0
                    => e.frozen = Len(l.chunks[rd.run])
      /\ ~(rd.run \in evict(l) \cup {r} /\ rd.at = "yield" /\ rd.frozen = 0)
                    => e.frozen = rd.frozen
  BY <1>5, <1>6, <1>7
<1> QED
  BY <1>5, <1>6, <1>8, <1>9 DEF rd, e

\* _wake sets the Event of the run's readers and changes nothing else.
LEMMA WakesReaders ==
    ASSUME NEW rs, NEW r, NEW f \in Followers, rs[f] \in Readers
    PROVE  LET rd == rs[f]
               e  == wake(rs, r)[f]
           IN  /\ e \in Readers
               /\ e.run = rd.run /\ e.cursor = rd.cursor /\ e.rest = rd.rest
               /\ e.frozen = rd.frozen
               /\ e.at = rd.at \/ (rd.at = "waiting" /\ e.at = "woken")
               /\ rd.at # "waiting" => e = rd
<1>1. wake(rs, r)[f] = IF rs[f].run = r /\ rs[f].at = "waiting"
                       THEN [rs[f] EXCEPT !.at = "woken"] ELSE rs[f]
  BY DEF wake
<1>2. CASE rs[f].run = r /\ rs[f].at = "waiting"
  <2>1. wake(rs, r)[f] = [rs[f] EXCEPT !.at = "woken"]
    BY <1>1, <1>2
  <2> QED
    BY <1>2, <2>1 DEF Readers, Places
<1>3. CASE ~(rs[f].run = r /\ rs[f].at = "waiting")
  BY <1>1, <1>3
<1> QED
  BY <1>2, <1>3

\* A list that is not the run's own any more, or never was, is as it was or empty.
Kept_or_emptied(s, t) == t = s \/ t = <<>>

\* A generation opens its stream.
LEMMA StartStep ==
    ASSUME OrderInv, NEW g \in Generations, NEW r \in RunIds, Start(g, r)
    PROVE  /\ GoodLog(log') /\ log'.chunks[r] = <<>>
           /\ \A q \in RunIds : Kept_or_emptied(log.chunks[q], log'.chunks[q])
           /\ streams' \in [Generations -> Streams]
           /\ streams[g].at = "new"
           /\ streams'[g].at = "open" /\ streams'[g].run = r /\ streams'[g].said = streams[g].said
           /\ \A h \in Generations \ {g} : streams'[h] = streams[h]
           /\ readers' \in [Followers -> Readers]
           /\ \A f \in Followers :
                /\ readers[f].at \in {"new", "left"} => readers'[f] = readers[f]
                /\ readers[f].at \notin {"new", "left"} =>
                     Stirred(readers[f], readers'[f], log'.chunks[readers[f].run])
<1>1. /\ GoodLog(log) /\ log \in Logs /\ readers \in [Followers -> Readers]
      /\ streams \in [Generations -> Streams]
  BY DEF OrderInv, LogTypeOK, GoodLog
<1>2. log' = start(log, r) /\ readers' = restart(readers, log, r) /\ streams[g].at = "new"
  BY DEF Start
<1>3. /\ GoodLog(log') /\ log'.chunks[r] = <<>>
      /\ \A q \in RunIds \ {r} : log'.chunks[q] = IF q \in evict(log) THEN <<>> ELSE log.chunks[q]
  BY <1>1, <1>2, StartsLog
<1>4. \A q \in RunIds : Kept_or_emptied(log.chunks[q], log'.chunks[q])
  BY <1>3 DEF Kept_or_emptied
<1>5. /\ streams' \in [Generations -> Streams]
      /\ streams'[g].at = "open" /\ streams'[g].run = r /\ streams'[g].said = streams[g].said
      /\ \A h \in Generations \ {g} : streams'[h] = streams[h]
  <2>1. streams' = [streams EXCEPT ![g].at = "open", ![g].run = r]
    BY DEF Start
  <2> QED
    BY <1>1, <2>1 DEF Streams
<1>6. ASSUME NEW f \in Followers
      PROVE  /\ readers'[f] \in Readers
             /\ readers[f].at \in {"new", "left"} => readers'[f] = readers[f]
             /\ readers[f].at \notin {"new", "left"} =>
                  Stirred(readers[f], readers'[f], log'.chunks[readers[f].run])
  <2>1. PICK rd \in Readers : rd = readers[f]
    BY <1>1
  <2>2. PICK e : e = readers'[f]
    OBVIOUS
  <2>3. /\ rd.at \notin {"new", "left"} => rd.run \in RunIds
        /\ rd.at = "yield" /\ rd.frozen = 0 => log.chunks[rd.run] # <<>>
    BY <2>1 DEF OrderInv, ReaderInv
  <2>4. /\ e \in Readers
        /\ e.run = rd.run /\ e.cursor = rd.cursor /\ e.rest = rd.rest
        /\ e.at = rd.at \/ (rd.at = "waiting" /\ e.at \in {"woken", "lost"})
        /\ rd.run \in evict(log) \cup {r} /\ rd.at = "yield" /\ rd.frozen = 0
             => e.frozen = Len(log.chunks[rd.run])
        /\ ~(rd.run \in evict(log) \cup {r} /\ rd.at = "yield" /\ rd.frozen = 0)
             => e.frozen = rd.frozen
        /\ rd.at \notin {"yield", "waiting"} => e = rd
    BY <1>1, <1>2, <2>1, <2>2, <2>3, Restarts
  <2>5. rd.at \notin {"new", "left"} => Stirred(rd, e, log'.chunks[rd.run])
    <3> SUFFICES ASSUME rd.at \notin {"new", "left"}
                 PROVE  Stirred(rd, e, log'.chunks[rd.run])
      OBVIOUS
    <3>1. rd.run \in RunIds
      BY <2>3
    <3>2. log.chunks[rd.run] # <<>> => Len(log.chunks[rd.run]) # 0
      BY <1>1, <3>1, Members DEF Logs
    <3>3. CASE rd.run \in evict(log) \cup {r}
      <4>1. log'.chunks[rd.run] = <<>>
        BY <1>3, <3>1, <3>3
      <4> QED
        BY <2>3, <2>4, <3>2, <3>3, <4>1 DEF Stirred
    <3>4. CASE rd.run \notin evict(log) \cup {r}
      <4>1. log'.chunks[rd.run] = log.chunks[rd.run]
        BY <1>3, <3>1, <3>4
      <4> QED
        BY <2>3, <2>4, <3>4, <4>1 DEF Stirred
    <3> QED
      BY <3>3, <3>4
  <2> QED
    BY <2>1, <2>2, <2>4, <2>5
<1>7. readers' \in [Followers -> Readers]
  <2>1. readers' = [f \in Followers |-> readers'[f]]
    BY <1>2 DEF restart, replace
  <2> QED
    BY <1>6, <2>1
<1> QED
  BY <1>2, <1>3, <1>4, <1>5, <1>6, <1>7

\* A generation says one more chunk: the run's list grows by it, whether or not the
\* run still had one.
LEMMA AppendStep ==
    ASSUME OrderInv, NEW g \in Generations, NEW size \in Sizes, AppendChunk(g, size)
    PROVE  \E r \in RunIds, c \in Chunks :
           /\ streams[g].at = "open" /\ streams[g].run = r
           /\ c.by = g /\ c.n = streams[g].said + 1
           /\ GoodLog(log') /\ Grown(log.chunks[r], log'.chunks[r], c)
           /\ Len(log'.chunks[r]) > 1 => bytes(log'.chunks[r]) <= MaxBytes
           /\ \A q \in RunIds \ {r} : Kept_or_emptied(log.chunks[q], log'.chunks[q])
           /\ streams' \in [Generations -> Streams]
           /\ streams'[g].at = "open" /\ streams'[g].run = r
           /\ streams'[g].said = streams[g].said + 1
           /\ \A h \in Generations \ {g} : streams'[h] = streams[h]
           /\ readers' \in [Followers -> Readers]
           /\ \A f \in Followers :
                /\ readers[f].at \in {"new", "left"} => readers'[f] = readers[f]
                /\ readers[f].at \notin {"new", "left"} =>
                     Stirred(readers[f], readers'[f], log'.chunks[readers[f].run])
<1>1. /\ GoodLog(log) /\ log \in Logs /\ readers \in [Followers -> Readers]
      /\ streams \in [Generations -> Streams]
  BY DEF OrderInv, LogTypeOK, GoodLog
<1>2. streams[g].at = "open" /\ streams[g].said < MaxChunks
  BY DEF AppendChunk
<1>3. PICK r \in RunIds : r = streams[g].run
  BY <1>2 DEF OrderInv
<1>4. PICK c : c = [by |-> g, n |-> streams[g].said + 1, size |-> size]
  OBVIOUS
<1>5. c \in Chunks /\ c.by = g /\ c.n = streams[g].said + 1
  <2>1. streams[g].said \in 0..MaxChunks
    BY <1>1 DEF Streams
  <2>2. streams[g].said + 1 \in 1..MaxChunks
    BY <1>2, <2>1, RunLogAssumption
  <2> QED
    BY <1>4, <2>2 DEF Chunks
<1>6. PICK l : l = IF r \notin Kept(log) THEN start(log, r) ELSE log
  OBVIOUS
<1>7. PICK rs : rs = IF r \notin Kept(log) THEN restart(readers, log, r) ELSE readers
  OBVIOUS
<1>8. /\ log' = [l EXCEPT !.chunks[r] = trim(Append(@, c))]
      /\ readers' = wake(rs, r)
      /\ streams' = [streams EXCEPT ![g].said = @ + 1]
  BY <1>3, <1>4, <1>6, <1>7 DEF AppendChunk
<1>9. /\ GoodLog(l) /\ l.chunks[r] = log.chunks[r] /\ r \in Kept(l)
      /\ \A q \in RunIds \ {r} : Kept_or_emptied(log.chunks[q], l.chunks[q])
  <2>1. CASE r \in Kept(log)
    BY <1>1, <1>6, <2>1 DEF Kept_or_emptied
  <2>2. CASE r \notin Kept(log)
    <3>1. l = start(log, r) /\ log.chunks[r] = <<>>
      BY <1>1, <1>6, <2>2 DEF GoodLog
    <3> QED
      BY <1>1, <3>1, StartsLog DEF Kept_or_emptied
  <2> QED
    BY <2>1, <2>2
<1>10. PICK s \in Seq(Chunks) : s = log.chunks[r]
  BY <1>1 DEF Logs
<1>11. PICK t : t = trim(Append(s, c))
  OBVIOUS
<1>12. /\ Grown(s, t, c)
       /\ Len(t) > 1 => bytes(t) <= MaxBytes
  <2>1. PICK a : a = Append(s, c)
    OBVIOUS
  <2>2. a \in Seq(Chunks) /\ a # <<>> /\ Len(a) = Len(s) + 1 /\ Len(s) \in Nat
    BY <1>5, <2>1, AppendProperties, Members
  <2>3. PICK k \in 1..Len(a) : t = SubSeq(a, k, Len(a)) /\ (k = Len(a) \/ bytes(t) <= MaxBytes)
    BY <1>11, <2>1, <2>2, TrimSuffix
  <2>4. Len(t) = Len(a) - k + 1
    <3>1. k \in 1..(Len(a) + 1)
      BY <2>2, <2>3
    <3> QED
      BY <2>2, <2>3, <3>1, Suffix
  <2>5. Len(t) > 1 => k # Len(a)
    BY <2>2, <2>4
  <2> QED
    BY <2>1, <2>2, <2>3, <2>5 DEF Grown
<1>13. t \in Seq(Chunks) /\ t # <<>>
  BY <1>5, <1>12, GrownPlaces
<1>14. /\ GoodLog(log') /\ log'.chunks[r] = t
       /\ \A q \in RunIds \ {r} : log'.chunks[q] = l.chunks[q]
  <2>1. /\ l \in Logs /\ Len(l.order) <= MaxLogs
        /\ \A q \in RunIds \ Kept(l) : l.chunks[q] = <<>> /\ l.ended[q]
    BY <1>9 DEF GoodLog
  <2>2. log' = [l EXCEPT !.chunks[r] = t]
    BY <1>8, <1>9, <1>10, <1>11
  <2>3. /\ log' \in Logs /\ log'.order = l.order /\ log'.ended = l.ended
        /\ log'.chunks[r] = t /\ \A q \in RunIds \ {r} : log'.chunks[q] = l.chunks[q]
    BY <1>13, <2>1, <2>2 DEF Logs
  <2>4. Kept(log') = Kept(l)
    BY <2>3 DEF Kept
  <2> QED
    BY <1>9, <2>1, <2>3, <2>4 DEF GoodLog
<1>15. /\ streams' \in [Generations -> Streams]
       /\ streams'[g].at = "open" /\ streams'[g].run = r
       /\ streams'[g].said = streams[g].said + 1
       /\ \A h \in Generations \ {g} : streams'[h] = streams[h]
  <2>1. streams[g].said + 1 \in 0..MaxChunks
    BY <1>1, <1>2, RunLogAssumption DEF Streams
  <2> QED
    BY <1>1, <1>2, <1>3, <1>8, <2>1 DEF Streams
<1>16. ASSUME NEW f \in Followers
       PROVE  /\ readers'[f] \in Readers
              /\ readers[f].at \in {"new", "left"} => readers'[f] = readers[f]
              /\ readers[f].at \notin {"new", "left"} =>
                   Stirred(readers[f], readers'[f], log'.chunks[readers[f].run])
  <2>1. PICK rd \in Readers : rd = readers[f]
    BY <1>1
  <2>2. PICK d, e : d = rs[f] /\ e = readers'[f]
    OBVIOUS
  <2>3. /\ rd.at \notin {"new", "left"} => rd.run \in RunIds
        /\ rd.at = "yield" /\ rd.frozen = 0 => log.chunks[rd.run] # <<>>
    BY <2>1 DEF OrderInv, ReaderInv
  <2>4. /\ d \in Readers
        /\ d.run = rd.run /\ d.cursor = rd.cursor /\ d.rest = rd.rest
        /\ d.at = rd.at \/ (rd.at = "waiting" /\ d.at \in {"woken", "lost"})
        /\ rd.at \notin {"yield", "waiting"} => d = rd
        /\ rd.at # "yield" \/ rd.frozen # 0 => d.frozen = rd.frozen
        /\ rd.at = "yield" /\ rd.frozen = 0 /\ d.frozen = 0 => log'.chunks[rd.run] # <<>>
        /\ rd.at = "yield" /\ rd.frozen = 0 /\ d.frozen # 0 => log'.chunks[rd.run] = <<>>
    <3>1. CASE r \in Kept(log)
      <4>1. d = rd /\ l = log
        BY <1>6, <1>7, <2>1, <2>2, <3>1
      <4> QED
        BY <1>13, <1>14, <2>3, <4>1
    <3>2. CASE r \notin Kept(log)
      <4>1. rs = restart(readers, log, r) /\ l = start(log, r) /\ log.chunks[r] = <<>>
        BY <1>1, <1>6, <1>7, <3>2 DEF GoodLog
      <4>2. /\ d \in Readers
            /\ d.run = rd.run /\ d.cursor = rd.cursor /\ d.rest = rd.rest
            /\ d.at = rd.at \/ (rd.at = "waiting" /\ d.at \in {"woken", "lost"})
            /\ rd.run \in evict(log) \cup {r} /\ rd.at = "yield" /\ rd.frozen = 0
                 => d.frozen = Len(log.chunks[rd.run])
            /\ ~(rd.run \in evict(log) \cup {r} /\ rd.at = "yield" /\ rd.frozen = 0)
                 => d.frozen = rd.frozen
            /\ rd.at \notin {"yield", "waiting"} => d = rd
        BY <1>1, <2>1, <2>2, <2>3, <4>1, Restarts
      <4>3. CASE rd.at = "yield" /\ rd.frozen = 0
        <5>1. rd.run \in RunIds /\ rd.run # r
          BY <2>3, <4>1, <4>3
        <5>2. log'.chunks[rd.run] = IF rd.run \in evict(log) THEN <<>> ELSE log.chunks[rd.run]
          BY <1>1, <1>14, <4>1, <5>1, StartsLog
        <5>3. Len(log.chunks[rd.run]) # 0
          BY <1>1, <2>3, <4>3, <5>1, Members DEF Logs
        <5> QED
          BY <2>3, <4>2, <4>3, <5>1, <5>2, <5>3
      <4>4. CASE ~(rd.at = "yield" /\ rd.frozen = 0)
        BY <4>2, <4>4
      <4> QED
        BY <4>3, <4>4
    <3> QED
      BY <3>1, <3>2
  <2>5. /\ e \in Readers
        /\ e.run = d.run /\ e.cursor = d.cursor /\ e.rest = d.rest
        /\ e.frozen = d.frozen
        /\ e.at = d.at \/ (d.at = "waiting" /\ e.at = "woken")
        /\ d.at # "waiting" => e = d
    BY <1>8, <2>2, <2>4, WakesReaders
  <2>6. rd.at \in {"new", "left"} => e = rd
    BY <2>4, <2>5
  <2>7. rd.at \notin {"new", "left"} => Stirred(rd, e, log'.chunks[rd.run])
    BY <2>4, <2>5 DEF Stirred
  <2> QED
    BY <2>1, <2>2, <2>5, <2>6, <2>7
<1>17. readers' \in [Followers -> Readers]
  <2>1. readers' = [f \in Followers |-> readers'[f]]
    BY <1>8 DEF wake
  <2> QED
    BY <1>16, <2>1
<1>18. \A q \in RunIds \ {r} : Kept_or_emptied(log.chunks[q], log'.chunks[q])
  BY <1>9, <1>14
<1>19. /\ Grown(log.chunks[r], log'.chunks[r], c)
       /\ Len(log'.chunks[r]) > 1 => bytes(log'.chunks[r]) <= MaxBytes
  BY <1>10, <1>12, <1>14
<1>20. streams[g].run = r
  BY <1>3
<1> QED
  BY <1>2, <1>5, <1>14, <1>15, <1>16, <1>17, <1>18, <1>19, <1>20

-----------------------------------------------------------------------------
(* The reading side.                                                       *)

\* The empty slice is in order.
LEMMA NothingLeft ==
    /\ <<>> \in Seq(Chunks) /\ Increasing(<<>>)
    /\ \A g, k : Before(g, <<>>, k) /\ Before(<<>>, g, k)
    /\ \A st : Said(<<>>, st)
<1>1. <<>> \in Seq(Chunks) /\ Len(<<>>) = 0
  BY EmptySeq
<1> QED
  BY <1>1 DEF Increasing, Before, Said

\* A reader is given the first chunk of its slice.
LEMMA Gives ==
    ASSUME NEW g \in Seq(Chunks), NEW s \in Seq(Chunks), s # <<>>,
           Increasing(g), Increasing(s), Before(g, s, 0)
    PROVE  /\ Append(g, Head(s)) \in Seq(Chunks) /\ Tail(s) \in Seq(Chunks)
           /\ Increasing(Append(g, Head(s))) /\ Increasing(Tail(s))
           /\ Before(Append(g, Head(s)), Tail(s), 0)
           /\ \A st : Said(g, st) /\ Said(s, st)
                        => Said(Append(g, Head(s)), st) /\ Said(Tail(s), st)
           /\ \A t : Before(g, t, 0) /\ Before(s, t, 0)
                        => Before(Append(g, Head(s)), t, 0) /\ Before(Tail(s), t, 0)
<1>1. Len(g) \in Nat /\ Len(s) \in Nat /\ Len(s) >= 1 /\ Head(s) = s[1] /\ s[1] \in Chunks
  <2>1. Len(g) \in Nat /\ Len(s) \in Nat /\ Len(s) # 0
    BY Members
  <2>2. Head(s) = s[1] /\ Head(s) \in Chunks
    BY HeadTailProperties
  <2> QED
    BY <2>1, <2>2
<1>2. PICK a : a = Append(g, Head(s))
  OBVIOUS
<1>3. PICK u : u = Tail(s)
  OBVIOUS
<1>4. /\ a \in Seq(Chunks) /\ Len(a) = Len(g) + 1
      /\ \A i \in 1..Len(g) : a[i] = g[i]
      /\ a[Len(g) + 1] = s[1]
  BY <1>1, <1>2, AppendProperties
<1>5. /\ u \in Seq(Chunks) /\ Len(u) = Len(s) - 1
      /\ \A i \in 1..Len(u) : u[i] = s[i + 1]
  BY <1>3, HeadTailProperties
<1>6. \A i \in 1..Len(a) : i = Len(g) + 1 \/ i \in 1..Len(g)
  BY <1>1, <1>4
<1>7. \A i \in 1..Len(u) : i + 1 \in 1..Len(s) /\ i + 1 > 1
  BY <1>1, <1>5
<1>8. 1 \in 1..Len(s)
  BY <1>1
<1>9. Increasing(a)
  <2> SUFFICES ASSUME NEW i \in 1..Len(a), NEW j \in 1..Len(a), i < j
               PROVE  Older(a[i], a[j])
    BY DEF Increasing
  <2>1. i \in 1..Len(g) /\ a[i] = g[i]
    BY <1>1, <1>4
  <2>2. CASE j = Len(g) + 1
    <3>1. a[j] = s[1]
      BY <1>4, <2>2
    <3>2. Older(g[i], s[1])
      BY <1>8, <2>1 DEF Before
    <3> QED
      BY <2>1, <3>1, <3>2
  <2>3. CASE j \in 1..Len(g)
    BY <1>4, <2>1, <2>3 DEF Increasing
  <2> QED
    BY <1>6, <2>2, <2>3
<1>10. Increasing(u)
  <2> SUFFICES ASSUME NEW i \in 1..Len(u), NEW j \in 1..Len(u), i < j
               PROVE  Older(u[i], u[j])
    BY DEF Increasing
  <2>1. i + 1 \in 1..Len(s) /\ j + 1 \in 1..Len(s) /\ i + 1 < j + 1
    BY <1>7, <1>5, <1>1
  <2> QED
    BY <1>5, <2>1 DEF Increasing
<1>11. Before(a, u, 0)
  <2> SUFFICES ASSUME NEW i \in 1..Len(a), NEW j \in 1..Len(u)
               PROVE  Older(a[i], u[j])
    BY DEF Before
  <2>1. j + 1 \in 1..Len(s) /\ j + 1 > 1 /\ j + 1 > 0 /\ u[j] = s[j + 1]
    BY <1>5, <1>7
  <2>2. CASE i = Len(g) + 1
    <3>1. a[i] = s[1]
      BY <1>4, <2>2
    <3>2. Older(s[1], s[j + 1])
      BY <1>8, <2>1 DEF Increasing
    <3> QED
      BY <2>1, <3>1, <3>2
  <2>3. CASE i \in 1..Len(g)
    <3>1. a[i] = g[i]
      BY <1>4, <2>3
    <3>2. Older(g[i], s[j + 1])
      BY <2>1, <2>3 DEF Before
    <3> QED
      BY <2>1, <3>1, <3>2
  <2> QED
    BY <1>6, <2>2, <2>3
<1>12. ASSUME NEW st, Said(g, st), Said(s, st)
       PROVE  Said(a, st) /\ Said(u, st)
  <2>1. Said(a, st)
    BY <1>4, <1>6, <1>8, <1>12 DEF Said
  <2>2. Said(u, st)
    BY <1>5, <1>7, <1>12 DEF Said
  <2> QED
    BY <2>1, <2>2
<1>13. ASSUME NEW t, Before(g, t, 0), Before(s, t, 0)
       PROVE  Before(a, t, 0) /\ Before(u, t, 0)
  <2>1. Before(a, t, 0)
    BY <1>4, <1>6, <1>8, <1>13 DEF Before
  <2>2. Before(u, t, 0)
    BY <1>5, <1>7, <1>13 DEF Before
  <2> QED
    BY <2>1, <2>2
<1> QED
  BY <1>2, <1>3, <1>4, <1>5, <1>9, <1>10, <1>11, <1>12, <1>13

\* The slice after the cursor is in order, and newer than what was given.
LEMMA Slice ==
    ASSUME NEW s \in Seq(Chunks), NEW k \in Nat, k < Len(s), NEW g, NEW st,
           RunInv(s, st), Before(g, s, k)
    PROVE  LET u == SubSeq(s, k + 1, Len(s)) IN
           /\ u \in Seq(Chunks) /\ u # <<>> /\ Len(u) = Len(s) - k
           /\ \A j \in 1..Len(u) : j + k \in 1..Len(s) /\ u[j] = s[j + k]
           /\ Increasing(u) /\ Said(u, st) /\ Before(g, u, 0)
<1>1. PICK u : u = SubSeq(s, k + 1, Len(s))
  OBVIOUS
<1>2. Len(s) \in Nat /\ k + 1 \in 1..(Len(s) + 1)
  BY Members
<1>3. /\ u \in Seq(Chunks) /\ Len(u) = Len(s) - (k + 1) + 1
      /\ \A j \in 1..(Len(s) - (k + 1) + 1) : u[j] = s[j + (k + 1) - 1]
  BY <1>1, <1>2, Suffix
<1>4. Len(u) = Len(s) - k /\ Len(u) # 0
  BY <1>2, <1>3
<1>5. u # <<>>
  BY <1>3, <1>4, Members
<1>6. ASSUME NEW j \in 1..Len(u)
      PROVE  j + k \in 1..Len(s) /\ u[j] = s[j + k]
  <2>1. j + k \in 1..Len(s) /\ j + (k + 1) - 1 = j + k
    BY <1>2, <1>4
  <2>2. u[j] = s[j + (k + 1) - 1]
    BY <1>3
  <2> QED
    BY <2>1, <2>2
<1>7. Increasing(u)
  <2> SUFFICES ASSUME NEW i \in 1..Len(u), NEW j \in 1..Len(u), i < j
               PROVE  Older(u[i], u[j])
    BY DEF Increasing
  <2>1. i + k < j + k
    BY <1>2, <1>4
  <2> QED
    BY <1>6, <2>1 DEF RunInv, Increasing
<1>8. Said(u, st)
  BY <1>6 DEF RunInv, Said
<1>9. Before(g, u, 0)
  <2> SUFFICES ASSUME NEW i \in 1..Len(g), NEW j \in 1..Len(u)
               PROVE  Older(g[i], u[j])
    BY DEF Before
  <2>1. j + k > k
    BY <1>2, <1>4
  <2> QED
    BY <1>6, <2>1 DEF Before
<1> QED
  BY <1>1, <1>3, <1>4, <1>5, <1>6, <1>7, <1>8, <1>9

\* A step that only changes one reader, and what it was given, keeps the rest.
LEMMA ReaderStep ==
    ASSUME OrderInv, NEW f \in Followers, NEW e \in Readers, NEW a \in Seq(Chunks),
           readers' = [readers EXCEPT ![f] = e],
           given' = [given EXCEPT ![f] = a],
           UNCHANGED <<log, streams, doubled, disturbed>>,
           ReaderInv(e, a, log, streams)
    PROVE  OrderInv'
<1>1. readers \in [Followers -> Readers] /\ given \in [Followers -> Seq(Chunks)]
  BY DEF OrderInv, LogTypeOK
<1>2. /\ readers' \in [Followers -> Readers] /\ given' \in [Followers -> Seq(Chunks)]
      /\ readers'[f] = e /\ given'[f] = a
      /\ \A h \in Followers \ {f} : readers'[h] = readers[h] /\ given'[h] = given[h]
  BY <1>1
<1>3. LogTypeOK'
  BY <1>2 DEF OrderInv, LogTypeOK, Kept
<1>4. ASSUME NEW h \in Followers
      PROVE  ReaderInv(readers'[h], given'[h], log', streams')
  BY <1>2 DEF OrderInv
<1> QED
  BY <1>3, <1>4 DEF OrderInv

\* The loop of follow, from a cursor after which the list is newer than what was given.
LEMMA LoopStep ==
    ASSUME OrderInv, NEW f \in Followers, NEW r \in RunIds, NEW k \in Nat,
           Before(given[f], log.chunks[r], k), Loop(f, r, k)
    PROVE  OrderInv'
<1>1. /\ log \in Logs /\ given \in [Followers -> Seq(Chunks)]
      /\ \A q \in RunIds : RunInv(log.chunks[q], streams)
      /\ Increasing(given[f]) /\ Said(given[f], streams)
  BY DEF OrderInv, LogTypeOK, ReaderInv
<1>2. PICK s \in Seq(Chunks), g \in Seq(Chunks) : s = log.chunks[r] /\ g = given[f]
  BY <1>1 DEF Logs
<1>3. PICK to : to = looks(log, r, k)
  OBVIOUS
<1>4. to \in {"ended", "waiting", "yield"} /\ (to = "yield" => k < Len(s))
  BY <1>2, <1>3 DEF looks
<1>5. PICK u : u = SubSeq(s, k + 1, Len(s))
  OBVIOUS
<1>6. PICK e : e = [at |-> to, run |-> r, cursor |-> k,
                    rest |-> IF to = "yield" THEN Tail(u) ELSE <<>>, frozen |-> 0]
  OBVIOUS
<1>7. /\ readers' = [readers EXCEPT ![f] = e]
      /\ given' = IF to = "yield" THEN [given EXCEPT ![f] = Append(g, Head(u))] ELSE given
      /\ UNCHANGED <<log, streams, doubled, disturbed>>
  BY <1>1, <1>2, <1>3, <1>5, <1>6 DEF Loop
<1>8. /\ e.at = to /\ e.run = r /\ e.cursor = k /\ e.frozen = 0
      /\ e.rest = IF to = "yield" THEN Tail(u) ELSE <<>>
      /\ e.rest \in Seq(Chunks) => e \in Readers
  BY <1>4, <1>6 DEF Readers, Places
<1>9. CASE to = "yield"
  <2>1. /\ u \in Seq(Chunks) /\ u # <<>>
        /\ Increasing(u) /\ Said(u, streams) /\ Before(g, u, 0)
    BY <1>1, <1>2, <1>4, <1>5, <1>9, Slice
  <2>2. PICK a, v : a = Append(g, Head(u)) /\ v = Tail(u)
    OBVIOUS
  <2>3. /\ a \in Seq(Chunks) /\ v \in Seq(Chunks) /\ Increasing(a) /\ Increasing(v)
        /\ Before(a, v, 0) /\ Said(a, streams) /\ Said(v, streams)
    BY <1>1, <1>2, <2>1, <2>2, Gives
  <2>4. s # <<>>
    BY <1>4, <1>9, Members
  <2>5. e \in Readers /\ e.rest = v
    BY <1>8, <1>9, <2>2, <2>3
  <2>6. ReaderInv(e, a, log, streams)
    BY <1>2, <1>8, <1>9, <2>3, <2>4, <2>5 DEF ReaderInv
  <2> QED
    BY <1>7, <1>9, <2>2, <2>3, <2>5, <2>6, ReaderStep
<1>10. CASE to # "yield"
  <2>1. e.rest = <<>> /\ e \in Readers
    BY <1>8, <1>10, NothingLeft
  <2>2. ReaderInv(e, g, log, streams)
    BY <1>1, <1>2, <1>4, <1>8, <1>10, <2>1, NothingLeft DEF ReaderInv
  <2>3. given' = [given EXCEPT ![f] = g]
    BY <1>1, <1>2, <1>7, <1>10
  <2> QED
    BY <1>7, <2>1, <2>2, <2>3, ReaderStep
<1> QED
  BY <1>9, <1>10

-----------------------------------------------------------------------------
(* No follower is given a chunk twice or out of order.                     *)

\* A write keeps the order of what is kept, and of what every reader has had and
\* will have.
LEMMA WriteStep ==
    ASSUME OrderInv, NEW g \in Generations,
           \/ \E r \in RunIds : Start(g, r)
           \/ \E size \in Sizes : AppendChunk(g, size)
    PROVE  /\ OrderInv'
           /\ \A h \in Generations : streams[h].said <= streams'[h].said
<1>0. /\ log \in Logs /\ readers \in [Followers -> Readers]
      /\ streams \in [Generations -> Streams] /\ given \in [Followers -> Seq(Chunks)]
      /\ doubled \subseteq RunIds /\ disturbed \subseteq Followers
      /\ \A h \in Generations : streams[h].said \in Nat
      /\ \A h \in Generations : streams[h].at # "new" => streams[h].run \in RunIds
      /\ \A q \in RunIds : RunInv(log.chunks[q], streams)
      /\ \A f \in Followers : ReaderInv(readers[f], given[f], log, streams)
  BY RunLogAssumption DEF OrderInv, LogTypeOK, Streams
<1>1. /\ GoodLog(log') /\ readers' \in [Followers -> Readers]
      /\ streams' \in [Generations -> Streams]
      /\ \A h \in Generations : streams[h].said <= streams'[h].said
      /\ \A h \in Generations : streams'[h].at # "new" => streams'[h].run \in RunIds
      /\ \A q \in RunIds : Written(log.chunks[q], log'.chunks[q], streams, streams')
      /\ \A f \in Followers :
           /\ readers[f].at \in {"new", "left"} => readers'[f] = readers[f]
           /\ readers[f].at \notin {"new", "left"} =>
                Stirred(readers[f], readers'[f], log'.chunks[readers[f].run])
  <2>1. ASSUME NEW r \in RunIds, Start(g, r)
        PROVE  <1>1!:
    <3>1. /\ GoodLog(log')
          /\ \A q \in RunIds : Kept_or_emptied(log.chunks[q], log'.chunks[q])
          /\ streams' \in [Generations -> Streams]
          /\ streams'[g].at = "open" /\ streams'[g].run = r /\ streams'[g].said = streams[g].said
          /\ \A h \in Generations \ {g} : streams'[h] = streams[h]
          /\ readers' \in [Followers -> Readers]
          /\ \A f \in Followers :
               /\ readers[f].at \in {"new", "left"} => readers'[f] = readers[f]
               /\ readers[f].at \notin {"new", "left"} =>
                    Stirred(readers[f], readers'[f], log'.chunks[readers[f].run])
      BY <2>1, StartStep
    <3>2. \A h \in Generations : streams[h].said <= streams'[h].said
      BY <1>0, <3>1
    <3>3. \A h \in Generations : streams'[h].at # "new" => streams'[h].run \in RunIds
      BY <1>0, <3>1
    <3>4. \A q \in RunIds : Written(log.chunks[q], log'.chunks[q], streams, streams')
      BY <3>1 DEF Kept_or_emptied, Written
    <3> QED
      BY <3>1, <3>2, <3>3, <3>4
  <2>2. ASSUME NEW size \in Sizes, AppendChunk(g, size)
        PROVE  <1>1!:
    <3>1. PICK r \in RunIds, c \in Chunks :
            /\ c.by = g /\ c.n = streams[g].said + 1
            /\ GoodLog(log') /\ Grown(log.chunks[r], log'.chunks[r], c)
            /\ \A q \in RunIds \ {r} : Kept_or_emptied(log.chunks[q], log'.chunks[q])
            /\ streams' \in [Generations -> Streams]
            /\ streams'[g].at = "open" /\ streams'[g].run = r
            /\ streams'[g].said = streams[g].said + 1
            /\ \A h \in Generations \ {g} : streams'[h] = streams[h]
            /\ readers' \in [Followers -> Readers]
            /\ \A f \in Followers :
                 /\ readers[f].at \in {"new", "left"} => readers'[f] = readers[f]
                 /\ readers[f].at \notin {"new", "left"} =>
                      Stirred(readers[f], readers'[f], log'.chunks[readers[f].run])
      BY <2>2, AppendStep
    <3>2. ASSUME NEW h \in Generations
          PROVE  streams[h].said <= streams'[h].said
      <4>1. streams[h].said \in Nat
        BY <1>0
      <4>2. streams'[h].said = streams[h].said + 1 \/ streams'[h].said = streams[h].said
        BY <3>1
      <4> QED
        BY <4>1, <4>2
    <3>3. \A h \in Generations : streams'[h].at # "new" => streams'[h].run \in RunIds
      BY <1>0, <3>1
    <3>4. c.n > streams[c.by].said /\ c.n <= streams'[c.by].said
      BY <1>0, <3>1
    <3>5. \A q \in RunIds : Written(log.chunks[q], log'.chunks[q], streams, streams')
      BY <3>1, <3>4 DEF Kept_or_emptied, Written
    <3> QED
      BY <3>1, <3>2, <3>3, <3>5
  <2> QED
    BY <2>1, <2>2
<1>2. log' \in Logs /\ \A q \in RunIds : log.chunks[q] \in Seq(Chunks) /\ log'.chunks[q] \in Seq(Chunks)
  BY <1>0, <1>1 DEF GoodLog, Logs
<1>3. given' = given /\ doubled' \subseteq RunIds /\ disturbed' \subseteq Followers
  BY <1>0 DEF Start, AppendChunk, Disturb
<1>4. LogTypeOK'
  BY <1>0, <1>1, <1>3 DEF LogTypeOK, GoodLog
<1>5. \A q \in RunIds : RunInv(log'.chunks[q], streams')
  <2> SUFFICES ASSUME NEW q \in RunIds
               PROVE  RunInv(log'.chunks[q], streams')
    OBVIOUS
  <2>1. PICK s \in Seq(Chunks), t \in Seq(Chunks) : s = log.chunks[q] /\ t = log'.chunks[q]
    BY <1>2
  <2>2. PICK su \in [Generations -> Streams] : su = streams'
    BY <1>1
  <2>3. /\ \A h \in Generations : streams[h].said <= su[h].said
        /\ RunInv(s, streams) /\ Written(s, t, streams, su)
    BY <1>0, <1>1, <2>1, <2>2
  <2>4. RunInv(t, su)
    BY <1>0, <2>3, RunWritten
  <2> QED
    BY <2>1, <2>2, <2>4
<1>6. ASSUME NEW f \in Followers
      PROVE  ReaderInv(readers'[f], given'[f], log', streams')
  <2>1. PICK rd \in Readers, e \in Readers : rd = readers[f] /\ e = readers'[f]
    BY <1>0, <1>1
  <2>2. PICK a \in Seq(Chunks) : a = given[f] /\ a = given'[f]
    BY <1>0, <1>3
  <2>3. PICK m \in Logs, su \in [Generations -> Streams] : m = log' /\ su = streams'
    BY <1>1, <1>2
  <2>4. ReaderInv(rd, a, log, streams)
    BY <1>0, <2>1, <2>2
  <2>5. rd.at \notin {"new", "left"} => rd.run \in RunIds
    BY <2>4 DEF ReaderInv
  <2>6. /\ rd.at \notin {"new", "left"} => /\ Written(log.chunks[rd.run], m.chunks[rd.run], streams, su)
                                           /\ Stirred(rd, e, m.chunks[rd.run])
        /\ rd.at \in {"new", "left"} => e = rd
        /\ \A h \in Generations : streams[h].said <= su[h].said
    BY <1>1, <2>1, <2>3, <2>5
  <2>7. ReaderInv(e, a, m, su)
    BY <1>0, <2>4, <2>6, ReaderWritten
  <2> QED
    BY <2>1, <2>2, <2>3, <2>7
<1> QED
  BY <1>1, <1>4, <1>5, <1>6 DEF OrderInv

\* A generation's stream ends.
LEMMA EndStep ==
    ASSUME OrderInv, NEW g \in Generations, End(g)
    PROVE  /\ OrderInv'
           /\ log'.chunks = log.chunks /\ log'.order = log.order
           /\ streams' \in [Generations -> Streams]
           /\ streams'[g].at = "over" /\ streams'[g].run = streams[g].run
           /\ streams'[g].said = streams[g].said
           /\ \A h \in Generations \ {g} : streams'[h] = streams[h]
           /\ \A f \in Followers :
                /\ readers'[f].run = readers[f].run /\ readers'[f].cursor = readers[f].cursor
                /\ readers'[f].rest = readers[f].rest /\ readers'[f].frozen = readers[f].frozen
                /\ \/ readers'[f].at = readers[f].at
                   \/ readers[f].at = "waiting" /\ readers'[f].at = "woken"
<1>0. /\ GoodLog(log) /\ log \in Logs /\ readers \in [Followers -> Readers]
      /\ streams \in [Generations -> Streams] /\ given \in [Followers -> Seq(Chunks)]
      /\ doubled \subseteq RunIds /\ disturbed \subseteq Followers
      /\ \A h \in Generations : streams[h].at # "new" => streams[h].run \in RunIds
      /\ \A q \in RunIds : RunInv(log.chunks[q], streams)
      /\ \A f \in Followers : ReaderInv(readers[f], given[f], log, streams)
  BY DEF OrderInv, LogTypeOK, GoodLog
<1>1. PICK r \in RunIds : r = streams[g].run
  BY <1>0 DEF End
<1>2. /\ streams' = [streams EXCEPT ![g].at = "over"]
      /\ log' = [log EXCEPT !.ended[r] = TRUE]
      /\ readers' = wake(readers, r)
      /\ given' = given /\ doubled' = doubled /\ disturbed' = disturbed
      /\ streams[g].at = "open"
  BY <1>1 DEF End
<1>3. /\ log' \in Logs /\ log'.chunks = log.chunks /\ log'.order = log.order
      /\ \A q \in RunIds : log.ended[q] => log'.ended[q]
  BY <1>0, <1>2 DEF Logs
<1>4. Kept(log') = Kept(log)
  BY <1>3 DEF Kept
<1>5. /\ streams' \in [Generations -> Streams]
      /\ streams'[g].at = "over" /\ streams'[g].run = streams[g].run
      /\ streams'[g].said = streams[g].said
      /\ \A h \in Generations \ {g} : streams'[h] = streams[h]
  BY <1>0, <1>2 DEF Streams
<1>6. \A h \in Generations : streams'[h].said = streams[h].said
  BY <1>5
<1>7. ASSUME NEW f \in Followers
      PROVE  /\ readers'[f] \in Readers
             /\ readers'[f].run = readers[f].run /\ readers'[f].cursor = readers[f].cursor
             /\ readers'[f].rest = readers[f].rest /\ readers'[f].frozen = readers[f].frozen
             /\ \/ readers'[f].at = readers[f].at
                \/ readers[f].at = "waiting" /\ readers'[f].at = "woken"
  <2>1. PICK rd, e : rd = readers[f] /\ e = wake(readers, r)[f]
    OBVIOUS
  <2>2. rd \in Readers
    BY <1>0, <2>1
  <2>3. /\ e \in Readers
        /\ e.run = rd.run /\ e.cursor = rd.cursor /\ e.rest = rd.rest
        /\ e.frozen = rd.frozen
        /\ e.at = rd.at \/ (rd.at = "waiting" /\ e.at = "woken")
    BY <2>1, <2>2, WakesReaders
  <2> QED
    BY <1>2, <2>1, <2>3
<1>8. readers' \in [Followers -> Readers]
  <2>1. readers' = [f \in Followers |-> readers'[f]]
    BY <1>2 DEF wake
  <2> QED
    BY <1>7, <2>1
<1>9. LogTypeOK'
  BY <1>0, <1>2, <1>3, <1>4, <1>5, <1>8 DEF LogTypeOK, GoodLog
<1>10. ASSUME NEW s \in Seq(Chunks), Said(s, streams)
       PROVE  Said(s, streams')
  <2>0. \A i \in 1..Len(s) : s[i] \in Chunks
    BY ElementOfSeq
  <2>1. \A i \in 1..Len(s) : s[i].by \in Generations
    BY <2>0 DEF Chunks
  <2> QED
    BY <1>6, <1>10, <2>1 DEF Said
<1>11. \A q \in RunIds : RunInv(log'.chunks[q], streams')
  <2>1. \A q \in RunIds : log.chunks[q] \in Seq(Chunks)
    BY <1>0 DEF Logs
  <2> QED
    BY <1>0, <1>3, <1>10, <2>1 DEF RunInv
<1>12. ASSUME NEW f \in Followers
       PROVE  ReaderInv(readers'[f], given'[f], log', streams')
  <2>1. given[f] \in Seq(Chunks) /\ readers[f].rest \in Seq(Chunks)
    BY <1>0 DEF Readers
  <2>2. Said(given[f], streams') /\ Said(readers[f].rest, streams')
    BY <1>0, <1>10, <2>1 DEF ReaderInv
  <2>3. PICK rd, e, a, m, su : /\ rd = readers[f] /\ e = readers'[f] /\ a = given[f]
                               /\ a = given'[f] /\ m = log' /\ su = streams'
    BY <1>2
  <2>4. /\ ReaderInv(rd, a, log, streams) /\ Said(a, su) /\ Said(rd.rest, su)
        /\ m.chunks = log.chunks
        /\ e.run = rd.run /\ e.cursor = rd.cursor /\ e.rest = rd.rest /\ e.frozen = rd.frozen
        /\ e.at = rd.at \/ (rd.at = "waiting" /\ e.at = "woken")
    BY <1>0, <1>3, <1>7, <2>2, <2>3
  <2>5. ReaderInv(e, a, m, su)
    BY <2>4 DEF ReaderInv
  <2> QED
    BY <2>3, <2>5
<1>13. \A h \in Generations : streams'[h].at # "new" => streams'[h].run \in RunIds
  BY <1>0, <1>2, <1>5
<1> QED
  BY <1>3, <1>5, <1>7, <1>9, <1>11, <1>12, <1>13 DEF OrderInv

\* A reader takes what it was given.
LEMMA ResumeStep ==
    ASSUME OrderInv, NEW f \in Followers, Resume(f)
    PROVE  OrderInv'
<1>0. /\ log \in Logs /\ readers \in [Followers -> Readers]
      /\ given \in [Followers -> Seq(Chunks)]
  BY DEF OrderInv, LogTypeOK
<1>1. PICK rd \in Readers : rd = readers[f]
  BY <1>0
<1>2. PICK g \in Seq(Chunks) : g = given[f]
  BY <1>0
<1>3. ReaderInv(rd, g, log, streams) /\ rd.at = "yield" /\ rd.rest \in Seq(Chunks)
  BY <1>1, <1>2 DEF OrderInv, Resume, Readers
<1>4. PICK r \in RunIds : r = rd.run
  BY <1>3 DEF ReaderInv
<1>5. PICK s \in Seq(Chunks) : s = log.chunks[r]
  BY <1>0 DEF Logs
<1>6. CASE rd.rest # <<>>
  <2>1. PICK a, v : a = Append(g, Head(rd.rest)) /\ v = Tail(rd.rest)
    OBVIOUS
  <2>2. Increasing(g) /\ Increasing(rd.rest) /\ Before(g, rd.rest, 0)
    BY <1>3 DEF ReaderInv
  <2>3. /\ a \in Seq(Chunks) /\ v \in Seq(Chunks) /\ Increasing(a) /\ Increasing(v)
        /\ Before(a, v, 0)
        /\ Said(a, streams) /\ Said(v, streams)
        /\ Before(g, s, 0) /\ Before(rd.rest, s, 0) => Before(a, s, 0) /\ Before(v, s, 0)
    BY <1>3, <1>6, <2>1, <2>2, Gives DEF ReaderInv
  <2>4. PICK e : e = [rd EXCEPT !.rest = v]
    OBVIOUS
  <2>5. /\ e \in Readers /\ e.at = rd.at /\ e.run = rd.run /\ e.cursor = rd.cursor
        /\ e.rest = v /\ e.frozen = rd.frozen
    BY <2>3, <2>4 DEF Readers
  <2>6. /\ readers' = [readers EXCEPT ![f] = e]
        /\ given' = [given EXCEPT ![f] = a]
        /\ UNCHANGED <<log, streams, doubled, disturbed>>
    BY <1>0, <1>1, <1>2, <1>6, <2>1, <2>4 DEF Resume
  <2>7. ReaderInv(e, a, log, streams)
    BY <1>3, <1>4, <1>5, <2>3, <2>5 DEF ReaderInv
  <2> QED
    BY <2>3, <2>5, <2>6, <2>7, ReaderStep
<1>7. CASE rd.rest = <<>>
  <2>1. PICK k : k = caught(rd, log)
    OBVIOUS
  <2>2. Loop(f, r, k)
    BY <1>1, <1>4, <1>7, <2>1 DEF Resume
  <2>3. k \in Nat /\ Before(g, s, k)
    <3>1. Len(s) \in Nat /\ rd.frozen \in Nat
      BY Members DEF Readers
    <3>2. CASE rd.frozen = 0
      <4>1. k = Len(s)
        BY <1>4, <1>5, <2>1, <3>2 DEF caught
      <4> QED
        BY <3>1, <4>1 DEF Before
    <3>3. CASE rd.frozen # 0
      <4>1. k = rd.frozen
        BY <2>1, <3>3 DEF caught
      <4>2. Before(g, s, 0)
        BY <1>3, <1>4, <1>5, <3>3 DEF ReaderInv
      <4> QED
        BY <3>1, <4>1, <4>2 DEF Before
    <3> QED
      BY <3>2, <3>3
  <2> QED
    BY <1>2, <1>5, <2>2, <2>3, LoopStep
<1> QED
  BY <1>6, <1>7

\* A reader comes, wakes up or leaves.
LEMMA ComesAndGoes ==
    ASSUME OrderInv, NEW f \in Followers,
           (\E r \in RunIds : Follow(f, r)) \/ Wakes(f) \/ Leave(f)
    PROVE  OrderInv'
<1>0. /\ log \in Logs /\ readers \in [Followers -> Readers]
      /\ given \in [Followers -> Seq(Chunks)]
      /\ ReaderInv(readers[f], given[f], log, streams)
  BY DEF OrderInv, LogTypeOK
<1>1. ASSUME NEW r \in RunIds, Follow(f, r)
      PROVE  OrderInv'
  <2>1. given[f] = <<>> /\ Loop(f, r, 0)
    BY <1>0, <1>1 DEF Follow, ReaderInv
  <2>2. Before(given[f], log.chunks[r], 0)
    BY <2>1, NothingLeft
  <2> QED
    BY <2>1, <2>2, LoopStep
<1>2. CASE Wakes(f)
  <2>1. /\ readers[f].run \in RunIds /\ readers[f].cursor \in Nat
        /\ Before(given[f], log.chunks[readers[f].run], readers[f].cursor)
        /\ Loop(f, readers[f].run, readers[f].cursor)
    BY <1>0, <1>2 DEF Wakes, ReaderInv, Readers
  <2> QED
    BY <2>1, LoopStep
<1>3. CASE Leave(f)
  <2>1. PICK e : e = [readers[f] EXCEPT !.at = "left"]
    OBVIOUS
  <2>2. e \in Readers /\ e.at = "left" /\ e.rest = readers[f].rest
    BY <1>0, <2>1 DEF Readers, Places
  <2>3. /\ readers' = [readers EXCEPT ![f] = e] /\ given' = given
        /\ UNCHANGED <<log, streams, doubled, disturbed>>
    BY <1>3, <2>1 DEF Leave
  <2>4. given' = [given EXCEPT ![f] = given[f]] /\ given[f] \in Seq(Chunks)
    BY <1>0, <2>3
  <2>5. ReaderInv(e, given[f], log, streams)
    BY <1>0, <2>2 DEF ReaderInv
  <2> QED
    BY <2>2, <2>3, <2>4, <2>5, ReaderStep
<1> QED
  BY <1>1, <1>2, <1>3

\* The invariant holds in every state the log and its readers reach.
THEOREM OrderInvariant == LogSpec => []OrderInv
<1>1. LogInit => OrderInv
  <2> SUFFICES ASSUME LogInit
               PROVE  OrderInv
    OBVIOUS
  <2>1. LogTypeOK
    <3>1. log.order = <<>> /\ log \in Logs
      BY EmptySeq DEF LogInit, Logs
    <3>2. Len(log.order) <= MaxLogs
      BY <3>1, EmptySeq, RunLogAssumption
    <3>3. \A r \in RunIds : log.chunks[r] = <<>> /\ log.ended[r]
      BY DEF LogInit
    <3>4. readers \in [Followers -> Readers] /\ given \in [Followers -> Seq(Chunks)]
      BY EmptySeq DEF LogInit, Readers, Places
    <3>5. streams \in [Generations -> Streams]
      BY RunLogAssumption DEF LogInit, Streams
    <3> QED
      BY <3>1, <3>2, <3>3, <3>4, <3>5 DEF LogTypeOK, LogInit
  <2>2. \A r \in RunIds : RunInv(log.chunks[r], streams)
    BY NothingLeft DEF LogInit, RunInv
  <2>3. ASSUME NEW f \in Followers
        PROVE  ReaderInv(readers[f], given[f], log, streams)
    <3>1. readers[f].at = "new" /\ readers[f].rest = <<>> /\ given[f] = <<>>
      BY DEF LogInit
    <3> QED
      BY <3>1, NothingLeft DEF ReaderInv
  <2>4. \A g \in Generations : streams[g].at # "new" => streams[g].run \in RunIds
    BY DEF LogInit
  <2> QED
    BY <2>1, <2>2, <2>3, <2>4 DEF OrderInv
<1>2. OrderInv /\ [LogNext]_logVars => OrderInv'
  <2> SUFFICES ASSUME OrderInv, [LogNext]_logVars
               PROVE  OrderInv'
    OBVIOUS
  <2>1. ASSUME NEW g \in Generations, \/ \E r \in RunIds : Start(g, r)
                                      \/ \E size \in Sizes : AppendChunk(g, size)
        PROVE  OrderInv'
    BY <2>1, WriteStep
  <2>2. ASSUME NEW g \in Generations, End(g)
        PROVE  OrderInv'
    BY <2>2, EndStep
  <2>3. ASSUME NEW f \in Followers, Resume(f)
        PROVE  OrderInv'
    BY <2>3, ResumeStep
  <2>4. ASSUME NEW f \in Followers, (\E r \in RunIds : Follow(f, r)) \/ Wakes(f) \/ Leave(f)
        PROVE  OrderInv'
    BY <2>4, ComesAndGoes
  <2>5. CASE UNCHANGED logVars
    BY <2>5 DEF logVars, OrderInv, LogTypeOK
  <2> QED
    BY <2>1, <2>2, <2>3, <2>4, <2>5 DEF LogNext, Reads
<1> QED
  BY <1>1, <1>2, PTL DEF LogSpec

\* No follower is given a chunk twice or the chunks of a generation out of order, across
\* trims, evictions, restarts and wake-ups, whatever the limits and however many there are.
THEOREM GivenInOrder == LogSpec => []InOrder
<1>1. OrderInv => InOrder
  <2> SUFFICES ASSUME OrderInv, NEW f \in Followers,
                      NEW i \in 1..Len(given[f]), NEW j \in 1..Len(given[f]),
                      i < j, given[f][i].by = given[f][j].by
               PROVE  given[f][i].n < given[f][j].n
    BY DEF InOrder
  <2>1. Increasing(given[f])
    BY DEF OrderInv, ReaderInv
  <2> QED
    BY <2>1 DEF Increasing, Older
<1> QED
  BY <1>1, OrderInvariant, PTL

-----------------------------------------------------------------------------
(* The log is the unbroken end of what was said.                           *)

\* A sequence has no more members than places.
LEMMA FewMembers ==
    ASSUME NEW S, NEW s \in Seq(S)
    PROVE  Cardinality(ToSet(s)) \in Nat /\ Cardinality(ToSet(s)) <= Len(s)
<1> DEFINE I == 1..Len(s)
           M == ToSet(s)
<1>1. Len(s) \in Nat /\ \A x : x \in M <=> \E i \in I : x = s[i]
  BY Members
<1>2. s \in [I -> S]
  BY LenProperties
<1>3. IsFiniteSet(I) /\ Cardinality(I) = Len(s)
  <2>1. 1 \in Int /\ Len(s) \in Int
    BY <1>1
  <2>2. Cardinality(1..Len(s)) = IF 1 > Len(s) THEN 0 ELSE Len(s) - 1 + 1
    BY <2>1, FS_Interval
  <2> QED
    BY <1>1, <2>1, <2>2, FS_Interval
<1> HIDE DEF M
<1>4. s \in Surjection(I, M)
  <2>1. s \in [I -> M]
    BY <1>1, <1>2
  <2> QED
    BY <1>1, <2>1 DEF Surjection
<1>5. IsFiniteSet(M) /\ Cardinality(M) <= Cardinality(I)
  <2> HIDE DEF I
  <2> QED
    BY <1>3, <1>4, FS_Surjection
<1>6. Cardinality(M) \in Nat
  BY <1>5, FS_CardinalityType
<1> QED
  BY <1>3, <1>5, <1>6 DEF M

\* An empty list is newest, and unbroken where no more than one generation is open.
LEMMA EmptyNewest ==
    ASSUME NEW r, NEW st
    PROVE  /\ Newest(r, <<>>, st)
           /\ (\A g, h \in Streaming(r, st) : g = h) => Unbroken(r, <<>>, st)
<1>1. Len(<<>>) = 0
  BY EmptySeq
<1> QED
  BY <1>1 DEF Newest, Unbroken

\* A list that a step leaves alone stays newest and unbroken, when the generations it
\* has chunks of stay as they were and no other opens on its run.
LEMMA NewestKept ==
    ASSUME NEW r, NEW s \in Seq(Chunks), NEW st, NEW su, Newest(r, s, st),
           \A h \in Generations : st[h].at # "new" /\ st[h].run = r =>
              su[h].at # "new" /\ su[h].run = r /\ su[h].said = st[h].said,
           Streaming(r, su) \subseteq Streaming(r, st)
    PROVE  /\ Newest(r, s, su)
           /\ Unbroken(r, s, st) => Unbroken(r, s, su)
<1>1. Len(s) \in Nat /\ \A i \in 1..Len(s) : s[i] \in Chunks
  BY Members, ElementOfSeq
<1>2. \A i \in 1..Len(s) : s[i].by \in Generations
  BY <1>1 DEF Chunks
<1>3. \A i \in 1..Len(s) : /\ su[s[i].by].at # "new" /\ su[s[i].by].run = r
                           /\ su[s[i].by].said = st[s[i].by].said
  BY <1>2 DEF Newest
<1>4. \A i \in 1..Len(s) : Len(s) \in 1..Len(s)
  BY <1>1
<1>5. Newest(r, s, su)
  BY <1>3 DEF Newest
<1>6. Unbroken(r, s, st) => Unbroken(r, s, su)
  BY <1>3, <1>4 DEF Unbroken
<1> QED
  BY <1>5, <1>6

\* What a stream's opening does to the logs.
LEMMA NewestStart ==
    ASSUME NewestInv, NEW g \in Generations, NEW r \in RunIds, Start(g, r)
    PROVE  NewestInv'
<1>0. /\ OrderInv /\ OrderInv' /\ log \in Logs
      /\ \A q \in RunIds : Newest(q, log.chunks[q], streams)
      /\ \A q \in RunIds \ doubled : Unbroken(q, log.chunks[q], streams)
  BY WriteStep DEF NewestInv, OrderInv, LogTypeOK
<1>1. /\ log'.chunks[r] = <<>>
      /\ \A q \in RunIds : Kept_or_emptied(log.chunks[q], log'.chunks[q])
      /\ streams[g].at = "new"
      /\ streams'[g].at = "open" /\ streams'[g].run = r
      /\ \A h \in Generations \ {g} : streams'[h] = streams[h]
  BY <1>0, StartStep
<1>2. doubled' = IF \E h \in Generations : streams[h].run = r /\ streams[h].at = "open"
                 THEN doubled \cup {r} ELSE doubled
  BY DEF Start
<1>3. PICK su, m : su = streams' /\ m = log'.chunks
  OBVIOUS
<1>4. ASSUME NEW q \in RunIds
      PROVE  /\ Newest(q, m[q], su)
             /\ q \notin doubled' => Unbroken(q, m[q], su)
  <2>1. CASE q = r
    <3>1. m[q] = <<>>
      BY <1>1, <1>3, <2>1
    <3>2. q \notin doubled' => \A h, k \in Streaming(q, su) : h = k
      BY <1>1, <1>2, <1>3, <2>1 DEF Streaming
    <3> QED
      BY <3>1, <3>2, EmptyNewest
  <2>2. CASE q # r
    <3>1. Streaming(q, su) \subseteq Streaming(q, streams)
      BY <1>1, <1>3, <2>2 DEF Streaming
    <3>2. \A h \in Generations : streams[h].at # "new" /\ streams[h].run = q =>
              su[h].at # "new" /\ su[h].run = q /\ su[h].said = streams[h].said
      BY <1>1, <1>3
    <3>3. Newest(q, log.chunks[q], streams) /\ (q \notin doubled' => Unbroken(q, log.chunks[q], streams))
      BY <1>0, <1>2
    <3>4. log.chunks[q] \in Seq(Chunks)
      BY <1>0 DEF Logs
    <3>5. CASE m[q] = log.chunks[q]
      BY <3>1, <3>2, <3>3, <3>4, <3>5, NewestKept
    <3>6. CASE m[q] = <<>>
      <4>1. q \notin doubled' => \A h, k \in Streaming(q, su) : h = k
        BY <3>1, <3>3 DEF Unbroken
      <4> QED
        BY <3>6, <4>1, EmptyNewest
    <3> QED
      BY <1>1, <1>3, <3>5, <3>6 DEF Kept_or_emptied
  <2> QED
    BY <2>1, <2>2
<1> QED
  BY <1>0, <1>3, <1>4 DEF NewestInv

\* A list that grew by the next chunk of the one generation that is open on its run.
LEMMA NewestGrown ==
    ASSUME NEW r, NEW s \in Seq(Chunks), NEW t, NEW c \in Chunks, Grown(s, t, c),
           NEW st \in [Generations -> Streams], NEW su \in [Generations -> Streams],
           NEW g \in Generations, c.by = g, c.n = st[g].said + 1, su[g].said = st[g].said + 1,
           g \in Streaming(r, st), Streaming(r, su) = Streaming(r, st),
           Unbroken(r, s, st)
    PROVE  Unbroken(r, t, su)
<1>1. /\ t \in Seq(Chunks) /\ Len(t) \in 1..(Len(s) + 1) /\ t[Len(t)] = c
      /\ \A j \in 1..(Len(t) - 1) : /\ j + (Len(s) + 1 - Len(t)) \in 1..Len(s)
                                    /\ t[j] = s[j + (Len(s) + 1 - Len(t))]
  BY GrownPlaces
<1>2. Len(s) \in Nat /\ Len(t) \in Nat /\ st[g].said \in Int
  BY <1>1, Members, RunLogAssumption DEF Streams
<1>3. ASSUME NEW j \in 1..Len(t)
      PROVE  t[j].by = g /\ t[j].n = c.n - (Len(t) - j)
  <2>1. CASE j = Len(t)
    BY <1>1, <1>2, <2>1
  <2>2. CASE j # Len(t)
    <3>0. j \in 1..(Len(t) - 1)
      BY <1>2, <2>2
    <3>1. PICK m \in 1..Len(s) : m = j + (Len(s) + 1 - Len(t)) /\ t[j] = s[m]
      BY <1>1, <3>0
    <3>2. /\ s[m].by = g /\ s[Len(s)].by = g
          /\ s[m].n = s[Len(s)].n - (Len(s) - m)
          /\ s[Len(s)].n = st[s[Len(s)].by].said
      <4>1. Len(s) \in 1..Len(s)
        BY <1>2, <3>1
      <4> QED
        BY <3>1, <4>1 DEF Unbroken
    <3>3. s[m].n = st[g].said - (Len(s) - m)
      BY <3>2
    <3>4. st[g].said - (Len(s) - m) = c.n - (Len(t) - j)
      BY <1>2, <3>1
    <3> QED
      BY <3>1, <3>2, <3>3, <3>4
  <2> QED
    BY <2>1, <2>2
<1>4. c.n = su[c.by].said
  OBVIOUS
<1>5. \A h \in Streaming(r, su) : h = g
  BY DEF Unbroken
<1> QED
  BY <1>1, <1>3, <1>4, <1>5 DEF Unbroken

\* What a chunk does to the logs.
LEMMA NewestAppend ==
    ASSUME NewestInv, NEW g \in Generations, NEW size \in Sizes, AppendChunk(g, size)
    PROVE  NewestInv'
<1>0. /\ OrderInv /\ OrderInv' /\ log \in Logs /\ streams \in [Generations -> Streams]
      /\ \A q \in RunIds : Newest(q, log.chunks[q], streams)
      /\ \A q \in RunIds \ doubled : Unbroken(q, log.chunks[q], streams)
      /\ doubled' = doubled
  BY WriteStep DEF NewestInv, OrderInv, LogTypeOK, AppendChunk
<1>1. PICK r \in RunIds, c \in Chunks :
        /\ streams[g].at = "open" /\ streams[g].run = r
        /\ c.by = g /\ c.n = streams[g].said + 1
        /\ Grown(log.chunks[r], log'.chunks[r], c)
        /\ Len(log'.chunks[r]) > 1 => bytes(log'.chunks[r]) <= MaxBytes
        /\ \A q \in RunIds \ {r} : Kept_or_emptied(log.chunks[q], log'.chunks[q])
        /\ streams' \in [Generations -> Streams]
        /\ streams'[g].at = "open" /\ streams'[g].run = r
        /\ streams'[g].said = streams[g].said + 1
        /\ \A h \in Generations \ {g} : streams'[h] = streams[h]
  BY <1>0, AppendStep
<1>2. PICK su, m : su = streams' /\ m = log'.chunks
  OBVIOUS
<1>3. \A q : Streaming(q, su) = Streaming(q, streams)
  BY <1>1, <1>2 DEF Streaming
<1>4. \A h \in Generations : su[h].at = streams[h].at /\ su[h].run = streams[h].run
  BY <1>1, <1>2
<1>5. ASSUME NEW q \in RunIds
      PROVE  /\ Newest(q, m[q], su)
             /\ q \notin doubled => Unbroken(q, m[q], su)
  <2>0. log.chunks[q] \in Seq(Chunks) /\ Newest(q, log.chunks[q], streams)
    BY <1>0 DEF Logs
  <2>1. CASE q = r
    <3>0. PICK s \in Seq(Chunks) : s = log.chunks[q]
      BY <2>0
    <3>1. PICK t : s = log.chunks[q] /\ t = m[q]
      BY <3>0
    <3>2. Grown(s, t, c) /\ (Len(t) > 1 => bytes(t) <= MaxBytes) /\ Newest(q, s, streams)
      BY <1>1, <1>2, <2>0, <2>1, <3>1
    <3>3. /\ t \in Seq(Chunks) /\ Len(t) \in 1..(Len(s) + 1) /\ t[Len(t)] = c
          /\ \A j \in 1..(Len(t) - 1) : /\ j + (Len(s) + 1 - Len(t)) \in 1..Len(s)
                                        /\ t[j] = s[j + (Len(s) + 1 - Len(t))]
      BY <3>2, GrownPlaces
    <3>4. Len(s) \in Nat /\ Len(t) \in Nat /\ \A i \in 1..Len(s) : s[i] \in Chunks
      BY <3>3, Members, ElementOfSeq
    <3>5. ASSUME NEW j \in 1..Len(t)
          PROVE  su[t[j].by].at # "new" /\ su[t[j].by].run = q
      <4>1. CASE j = Len(t)
        BY <1>1, <1>2, <2>1, <3>3, <4>1
      <4>2. CASE j # Len(t)
        <5>0. j \in 1..(Len(t) - 1)
          BY <3>4, <4>2
        <5>1. PICK i \in 1..Len(s) : t[j] = s[i]
          BY <3>3, <5>0
        <5>2. s[i].by \in Generations
          BY <3>4 DEF Chunks
        <5>3. streams[s[i].by].at # "new" /\ streams[s[i].by].run = q
          BY <3>2 DEF Newest
        <5> QED
          BY <1>4, <5>1, <5>2, <5>3
      <4> QED
        BY <4>1, <4>2
    <3>6. Newest(q, t, su)
      BY <3>2, <3>5 DEF Newest
    <3>7. q \notin doubled => Unbroken(q, t, su)
      <4>1. g \in Streaming(q, streams)
        BY <1>1, <2>1 DEF Streaming
      <4>2. q \notin doubled => Unbroken(q, s, streams)
        BY <1>0, <3>1
      <4>3. su \in [Generations -> Streams] /\ su[g].said = streams[g].said + 1
        BY <1>1, <1>2
      <4> QED
        BY <1>0, <1>1, <1>3, <3>2, <4>1, <4>2, <4>3, NewestGrown
    <3> QED
      BY <3>1, <3>6, <3>7
  <2>2. CASE q # r
    <3>1. \A h \in Generations : streams[h].at # "new" /\ streams[h].run = q =>
              su[h].at # "new" /\ su[h].run = q /\ su[h].said = streams[h].said
      BY <1>1, <1>2, <2>2
    <3>2. q \notin doubled => Unbroken(q, log.chunks[q], streams)
      BY <1>0
    <3>3. Streaming(q, su) \subseteq Streaming(q, streams)
      BY <1>3
    <3>4. CASE m[q] = log.chunks[q]
      BY <2>0, <3>1, <3>2, <3>3, <3>4, NewestKept
    <3>5. CASE m[q] = <<>>
      <4>1. q \notin doubled => \A h, k \in Streaming(q, su) : h = k
        BY <3>2, <3>3 DEF Unbroken
      <4> QED
        BY <3>5, <4>1, EmptyNewest
    <3> QED
      BY <1>1, <1>2, <2>2, <3>4, <3>5 DEF Kept_or_emptied
  <2> QED
    BY <2>1, <2>2
<1> QED
  BY <1>0, <1>2, <1>5 DEF NewestInv

\* What the end of a stream does to the logs.
LEMMA NewestEnd ==
    ASSUME NewestInv, NEW g \in Generations, End(g)
    PROVE  NewestInv'
<1>0. /\ OrderInv /\ log \in Logs
      /\ \A q \in RunIds : Newest(q, log.chunks[q], streams)
      /\ \A q \in RunIds \ doubled : Unbroken(q, log.chunks[q], streams)
      /\ doubled' = doubled
  BY DEF NewestInv, OrderInv, LogTypeOK, End
<1>1. /\ OrderInv' /\ log'.chunks = log.chunks
      /\ streams'[g].at = "over" /\ streams'[g].run = streams[g].run
      /\ streams'[g].said = streams[g].said
      /\ \A h \in Generations \ {g} : streams'[h] = streams[h]
  BY <1>0, EndStep
<1>2. PICK su, m : su = streams' /\ m = log'.chunks
  OBVIOUS
<1>3. ASSUME NEW q \in RunIds
      PROVE  /\ Newest(q, m[q], su)
             /\ q \notin doubled => Unbroken(q, m[q], su)
  <2>1. Streaming(q, su) \subseteq Streaming(q, streams)
    BY <1>1, <1>2 DEF Streaming
  <2>2. \A h \in Generations : streams[h].at # "new" /\ streams[h].run = q =>
            su[h].at # "new" /\ su[h].run = q /\ su[h].said = streams[h].said
    BY <1>1, <1>2
  <2>3. m[q] = log.chunks[q] /\ log.chunks[q] \in Seq(Chunks)
    BY <1>0, <1>1, <1>2 DEF Logs
  <2> QED
    BY <1>0, <2>1, <2>2, <2>3, NewestKept
<1> QED
  BY <1>0, <1>1, <1>2, <1>3 DEF NewestInv

\* MAX_RUNS and MAX_BYTES bound what is held, and unless two generations streamed into it
\* at once a log is the unbroken end of what its generation has streamed so far.
THEOREM KeepsTheNewest == LogSpec => []KeepsNewest
<1>1. LogInit /\ OrderInv => NewestInv
  <2> SUFFICES ASSUME LogInit, OrderInv
               PROVE  NewestInv
    OBVIOUS
  <2>1. \A r \in RunIds : log.chunks[r] = <<>> /\ Streaming(r, streams) = {}
    BY DEF LogInit, Streaming
  <2> QED
    BY <2>1, EmptyNewest DEF NewestInv
<1>2. NewestInv /\ OrderInv' /\ [LogNext]_logVars => NewestInv'
  <2> SUFFICES ASSUME NewestInv, OrderInv', [LogNext]_logVars
               PROVE  NewestInv'
    OBVIOUS
  <2>1. ASSUME NEW g \in Generations, NEW r \in RunIds, Start(g, r)
        PROVE  NewestInv'
    BY <2>1, NewestStart
  <2>2. ASSUME NEW g \in Generations, NEW size \in Sizes, AppendChunk(g, size)
        PROVE  NewestInv'
    BY <2>2, NewestAppend
  <2>3. ASSUME NEW g \in Generations, End(g)
        PROVE  NewestInv'
    BY <2>3, NewestEnd
  <2>4. CASE UNCHANGED <<log, streams, doubled>>
    BY <2>4 DEF NewestInv
  <2>5. ASSUME NEW f \in Followers, (\E r \in RunIds : Follow(f, r)) \/ Reads(f) \/ Leave(f)
        PROVE  NewestInv'
    BY <2>4, <2>5 DEF Follow, Reads, Resume, Wakes, Leave, Loop
  <2>6. CASE UNCHANGED logVars
    BY <2>4, <2>6 DEF logVars
  <2> QED
    BY <2>1, <2>2, <2>3, <2>5, <2>6 DEF LogNext
<1>3. NewestInv => KeepsNewest
  <2> SUFFICES ASSUME NewestInv
               PROVE  KeepsNewest
    OBVIOUS
  <2>0. log \in Logs /\ Len(log.order) <= MaxLogs
    BY DEF NewestInv, OrderInv, LogTypeOK
  <2>1. Cardinality(Kept(log)) <= MaxLogs
    <3>1. log.order \in Seq(RunIds)
      BY <2>0 DEF Logs
    <3>2. Cardinality(Kept(log)) \in Nat /\ Cardinality(Kept(log)) <= Len(log.order)
      BY <3>1, FewMembers DEF Kept
    <3>3. Len(log.order) \in Nat /\ MaxLogs \in Nat
      BY <3>1, Members, RunLogAssumption
    <3> QED
      BY <2>0, <3>2, <3>3
  <2>2. \A r \in RunIds : Len(log.chunks[r]) > 1 => bytes(log.chunks[r]) <= MaxBytes
    BY DEF NewestInv, Newest
  <2>3. ASSUME NEW r \in RunIds \ doubled, log.chunks[r] # <<>>
        PROVE  LET s == log.chunks[r] IN
                 /\ Last(s).n = streams[Last(s).by].said
                 /\ \A i \in 1..Len(s) : s[i].by = Last(s).by /\ s[i].n = Last(s).n - (Len(s) - i)
    <3>1. PICK s \in Seq(Chunks) : s = log.chunks[r]
      BY <2>0 DEF Logs
    <3>2. Len(s) \in 1..Len(s)
      <4>1. Len(s) \in Nat /\ Len(s) # 0
        BY <2>3, <3>1, Members
      <4> QED
        BY <4>1
    <3>3. Unbroken(r, s, streams)
      BY <3>1 DEF NewestInv
    <3> QED
      BY <3>1, <3>2, <3>3 DEF Unbroken, Last
  <2> QED
    BY <2>1, <2>2, <2>3 DEF KeepsNewest, Bounded
<1> QED
  BY <1>1, <1>2, <1>3, OrderInvariant, PTL DEF LogSpec

-----------------------------------------------------------------------------
(* A follower that is let go has had everything.                           *)

\* Being given a chunk moves it from what is left to what was had.
LEMMA GivesAll ==
    ASSUME NEW g \in Seq(Chunks), NEW s \in Seq(Chunks), s # <<>>
    PROVE  ToSet(g) \cup ToSet(s) \subseteq ToSet(Append(g, Head(s))) \cup ToSet(Tail(s))
<1>1. Len(g) \in Nat /\ Len(s) \in Nat /\ Head(s) = s[1] /\ Head(s) \in Chunks
  BY Members, HeadTailProperties
<1>2. PICK a : a = Append(g, Head(s))
  OBVIOUS
<1>3. PICK u : u = Tail(s)
  OBVIOUS
<1>4. /\ a \in Seq(Chunks) /\ Len(a) = Len(g) + 1
      /\ \A i \in 1..Len(g) : a[i] = g[i]
      /\ a[Len(g) + 1] = s[1]
  BY <1>1, <1>2, AppendProperties
<1>5. /\ u \in Seq(Chunks) /\ Len(u) = Len(s) - 1
      /\ \A i \in 1..Len(u) : u[i] = s[i + 1]
  BY <1>3, HeadTailProperties
<1>6. ASSUME NEW x \in ToSet(g)
      PROVE  x \in ToSet(a)
  <2>1. PICK i \in 1..Len(g) : x = g[i]
    BY Members
  <2>2. i \in 1..Len(a) /\ x = a[i]
    BY <1>1, <1>4, <2>1
  <2> QED
    BY <1>4, <2>2, Members
<1>7. ASSUME NEW x \in ToSet(s)
      PROVE  x \in ToSet(a) \cup ToSet(u)
  <2>1. PICK i \in 1..Len(s) : x = s[i]
    BY Members
  <2>2. CASE i = 1
    <3>1. Len(a) \in 1..Len(a) /\ x = a[Len(a)]
      BY <1>1, <1>4, <2>1, <2>2
    <3> QED
      BY <1>4, <3>1, Members
  <2>3. CASE i # 1
    <3>1. i - 1 \in 1..Len(u) /\ (i - 1) + 1 = i
      BY <1>1, <1>5, <2>3
    <3>2. x = u[i - 1]
      BY <1>5, <2>1, <3>1
    <3> QED
      BY <1>5, <3>1, <3>2, Members
  <2> QED
    BY <2>2, <2>3
<1> QED
  BY <1>2, <1>3, <1>6, <1>7

\* The loop of follow, for a follower that was given the list up to its cursor: it has
\* the rest in its slice or, when it is let go or goes to wait, has had it all.
LEMMA HadLoop ==
    ASSUME OrderInv, NEW f \in Followers, NEW r \in RunIds, NEW k \in Nat, Loop(f, r, k),
           k <= Len(log.chunks[r]),
           \A j \in 1..Len(log.chunks[r]) : j <= k => log.chunks[r][j] \in ToSet(given[f])
    PROVE  /\ Had(readers'[f], given'[f], log.chunks[r])
           /\ readers'[f].run = r
           /\ readers'[f].at \in {"waiting", "ended"}
                => ToSet(log.chunks[r]) \subseteq ToSet(given'[f])
<1>1. /\ log \in Logs /\ readers \in [Followers -> Readers]
      /\ given \in [Followers -> Seq(Chunks)]
      /\ \A q \in RunIds \ Kept(log) : log.chunks[q] = <<>>
  BY DEF OrderInv, LogTypeOK
<1>2. PICK s \in Seq(Chunks), g \in Seq(Chunks) : s = log.chunks[r] /\ g = given[f]
  BY <1>1 DEF Logs
<1>3. PICK to : to = looks(log, r, k)
  OBVIOUS
<1>4. PICK u : u = SubSeq(s, k + 1, Len(s))
  OBVIOUS
<1>5. Len(s) \in Nat /\ k <= Len(s) /\ \A j \in 1..Len(s) : j <= k => s[j] \in ToSet(g)
  BY <1>2, Members
<1>6. /\ to \in {"ended", "waiting", "yield"} /\ (to = "yield" => k < Len(s))
      /\ to \in {"ended", "waiting"} => s = <<>> \/ ~(k < Len(s))
  BY <1>1, <1>2, <1>3 DEF looks
<1>7. PICK e : e = [at |-> to, run |-> r, cursor |-> k,
                    rest |-> IF to = "yield" THEN Tail(u) ELSE <<>>, frozen |-> 0]
  OBVIOUS
<1>8. /\ readers' = [readers EXCEPT ![f] = e]
      /\ given' = IF to = "yield" THEN [given EXCEPT ![f] = Append(g, Head(u))] ELSE given
  BY <1>1, <1>2, <1>3, <1>4, <1>7 DEF Loop
<1>9. /\ readers'[f] = e
      /\ given'[f] = IF to = "yield" THEN Append(g, Head(u)) ELSE g
      /\ e.at = to /\ e.run = r /\ e.cursor = k /\ e.frozen = 0
      /\ e.rest = IF to = "yield" THEN Tail(u) ELSE <<>>
  BY <1>1, <1>2, <1>7, <1>8
<1>10. CASE to = "yield"
  <2>1. k + 1 \in 1..(Len(s) + 1) /\ k < Len(s)
    BY <1>5, <1>6, <1>10
  <2>2. /\ u \in Seq(Chunks) /\ Len(u) = Len(s) - (k + 1) + 1
        /\ \A j \in 1..(Len(s) - (k + 1) + 1) : u[j] = s[j + (k + 1) - 1]
    BY <1>4, <2>1, Suffix
  <2>3. u # <<>>
    <3>1. Len(u) # 0
      BY <1>5, <2>1, <2>2
    <3> QED
      BY <2>2, <3>1, Members
  <2>4. ToSet(s) \subseteq ToSet(g) \cup ToSet(u)
    <3> SUFFICES ASSUME NEW x \in ToSet(s)
                 PROVE  x \in ToSet(g) \cup ToSet(u)
      OBVIOUS
    <3>1. PICK j \in 1..Len(s) : x = s[j]
      BY Members
    <3>2. CASE j <= k
      BY <1>5, <3>1, <3>2
    <3>3. CASE ~(j <= k)
      <4>1. j - k \in 1..Len(u) /\ j - k \in 1..(Len(s) - (k + 1) + 1) /\ (j - k) + (k + 1) - 1 = j
        BY <1>5, <2>2, <3>3
      <4>2. x = u[j - k]
        BY <2>2, <3>1, <4>1
      <4> QED
        BY <2>2, <4>1, <4>2, Members
    <3> QED
      BY <3>2, <3>3
  <2>5. ToSet(s) \subseteq ToSet(Append(g, Head(u))) \cup ToSet(Tail(u))
    BY <2>2, <2>3, <2>4, GivesAll
  <2> QED
    BY <1>2, <1>9, <1>10, <2>5 DEF Had
<1>11. CASE to # "yield"
  <2>1. to \in {"ended", "waiting"} /\ given'[f] = g
    BY <1>6, <1>9, <1>11
  <2>2. Len(s) <= k
    <3>1. s = <<>> => Len(s) = 0
      BY Members
    <3> QED
      BY <1>5, <1>6, <2>1, <3>1
  <2>3. ToSet(s) \subseteq ToSet(g)
    <3> SUFFICES ASSUME NEW x \in ToSet(s)
                 PROVE  x \in ToSet(g)
      OBVIOUS
    <3>1. PICK j \in 1..Len(s) : x = s[j]
      BY Members
    <3>2. j <= k
      BY <1>5, <2>2
    <3> QED
      BY <1>5, <3>1, <3>2
  <2>4. Had(e, g, s)
    BY <1>5, <1>9, <1>11 DEF Had
  <2> QED
    BY <1>2, <1>9, <2>1, <2>3, <2>4
<1> QED
  BY <1>10, <1>11

\* What a follower's own step gives it.
LEMMA HadRead ==
    ASSUME HadInv, NEW f \in Followers \ disturbed,
           (\E r \in RunIds : Follow(f, r)) \/ Reads(f)
    PROVE  /\ Had(readers'[f], given'[f], log.chunks[readers'[f].run])
           /\ readers'[f].at \in {"waiting", "ended"}
                => ToSet(log.chunks[readers'[f].run]) \subseteq ToSet(given'[f])
<1> DEFINE Goal == /\ Had(readers'[f], given'[f], log.chunks[readers'[f].run])
                   /\ readers'[f].at \in {"waiting", "ended"}
                        => ToSet(log.chunks[readers'[f].run]) \subseteq ToSet(given'[f])
<1>0. /\ OrderInv /\ log \in Logs /\ readers \in [Followers -> Readers]
      /\ given \in [Followers -> Seq(Chunks)]
      /\ ReaderInv(readers[f], given[f], log, streams)
      /\ Had(readers[f], given[f], log.chunks[readers[f].run])
  BY DEF HadInv, OrderInv, LogTypeOK
<1>1. ASSUME NEW r \in RunIds, Follow(f, r)
      PROVE  Goal
  <2>1. Loop(f, r, 0) /\ log.chunks[r] \in Seq(Chunks)
    BY <1>0, <1>1 DEF Follow, Logs
  <2>2. Len(log.chunks[r]) \in Nat
    BY <2>1, Members
  <2>3. 0 <= Len(log.chunks[r]) /\ \A j \in 1..Len(log.chunks[r]) : ~(j <= 0)
    BY <2>2
  <2>4. /\ Had(readers'[f], given'[f], log.chunks[r])
        /\ readers'[f].run = r
        /\ readers'[f].at \in {"waiting", "ended"}
             => ToSet(log.chunks[r]) \subseteq ToSet(given'[f])
    BY <1>0, <2>1, <2>3, HadLoop
  <2> QED
    BY <2>4
<1>2. PICK rd \in Readers, g \in Seq(Chunks) : rd = readers[f] /\ g = given[f]
  BY <1>0
<1>3. CASE Wakes(f)
  <2>1. /\ rd.at = "woken" /\ rd.run \in RunIds /\ rd.cursor \in Nat
        /\ Loop(f, rd.run, rd.cursor)
    BY <1>0, <1>2, <1>3 DEF Wakes, ReaderInv, Readers
  <2>2. PICK r \in RunIds, k \in Nat : r = rd.run /\ k = rd.cursor
    BY <2>1
  <2>3. /\ k <= Len(log.chunks[r])
        /\ \A j \in 1..Len(log.chunks[r]) : j <= k => log.chunks[r][j] \in ToSet(given[f])
    BY <1>0, <1>2, <2>1, <2>2 DEF Had
  <2>4. /\ Had(readers'[f], given'[f], log.chunks[r])
        /\ readers'[f].run = r
        /\ readers'[f].at \in {"waiting", "ended"}
             => ToSet(log.chunks[r]) \subseteq ToSet(given'[f])
    BY <1>0, <2>1, <2>2, <2>3, HadLoop
  <2> QED
    BY <2>4
<1>4. CASE Resume(f)
  <2>1. rd.at = "yield" /\ rd.run \in RunIds /\ rd.rest \in Seq(Chunks)
    BY <1>0, <1>2, <1>4 DEF Resume, ReaderInv, Readers
  <2>2. PICK r \in RunIds, s \in Seq(Chunks) : r = rd.run /\ s = log.chunks[r]
    BY <1>0, <2>1 DEF Logs
  <2>3. rd.frozen = 0 /\ ToSet(s) \subseteq ToSet(g) \cup ToSet(rd.rest)
    BY <1>0, <1>2, <2>1, <2>2 DEF Had
  <2>4. CASE rd.rest # <<>>
    <3>1. PICK e, a, v : /\ a = Append(g, Head(rd.rest)) /\ v = Tail(rd.rest)
                         /\ e = [rd EXCEPT !.rest = v]
      OBVIOUS
    <3>2. e.at = "yield" /\ e.run = r /\ e.rest = v /\ e.frozen = 0
      BY <2>1, <2>2, <2>3, <3>1 DEF Readers
    <3>3. readers'[f] = e /\ given'[f] = a
      BY <1>0, <1>2, <1>4, <2>4, <3>1 DEF Resume
    <3>4. ToSet(s) \subseteq ToSet(a) \cup ToSet(v)
      BY <2>1, <2>3, <2>4, <3>1, GivesAll
    <3>5. Had(e, a, s)
      BY <3>2, <3>4 DEF Had
    <3> QED
      BY <2>2, <3>2, <3>3, <3>5
  <2>5. CASE rd.rest = <<>>
    <3>1. PICK k \in Nat : k = Len(s)
      BY Members
    <3>2. Loop(f, r, k)
      BY <1>2, <1>4, <2>2, <2>3, <2>5, <3>1 DEF Resume, caught
    <3>3. ToSet(rd.rest) = {}
      <4>1. Len(rd.rest) = 0
        BY <2>1, <2>5, Members
      <4>2. \A x : x \notin ToSet(rd.rest)
        BY <2>1, <4>1, Members
      <4> QED
        BY <4>2
    <3>4. ASSUME NEW j \in 1..Len(s)
          PROVE  s[j] \in ToSet(g)
      BY <2>3, <3>3, Members
    <3>5. /\ k <= Len(log.chunks[r])
          /\ \A j \in 1..Len(log.chunks[r]) : j <= k => log.chunks[r][j] \in ToSet(given[f])
      BY <1>2, <2>2, <3>1, <3>4
    <3>6. /\ Had(readers'[f], given'[f], log.chunks[r])
          /\ readers'[f].run = r
          /\ readers'[f].at \in {"waiting", "ended"}
               => ToSet(log.chunks[r]) \subseteq ToSet(given'[f])
      BY <1>0, <3>2, <3>5, HadLoop
    <3> QED
      BY <3>6
  <2> QED
    BY <2>4, <2>5
<1> QED
  BY <1>1, <1>3, <1>4 DEF Reads

\* A write that does not disturb a follower leaves it what it has had.
LEMMA HadWritten ==
    ASSUME NEW rd \in Readers, NEW e \in Readers, NEW g \in Seq(Chunks),
           NEW s \in Seq(Chunks), NEW t \in Seq(Chunks),
           Had(rd, g, s), Stirred(rd, e, t), rd.at = "yield" => s # <<>>,
           rd.at \in {"yield", "waiting", "woken"}
             => t = s \/ (rd.at # "yield" /\ IsPrefix(s, t))
    PROVE  Had(e, g, t)
<1>1. /\ e.at = rd.at \/ (rd.at = "waiting" /\ e.at \in {"woken", "lost"})
      /\ e.cursor = rd.cursor /\ e.rest = rd.rest
  BY DEF Stirred
<1>2. CASE e.at = "yield"
  <2>1. rd.at = "yield" /\ t = s /\ rd.frozen = 0
    BY <1>1, <1>2 DEF Had
  <2>2. e.frozen = 0
    BY <2>1 DEF Stirred
  <2> QED
    BY <1>1, <1>2, <2>1, <2>2 DEF Had
<1>3. CASE e.at \in {"waiting", "woken"}
  <2>1. rd.at \in {"waiting", "woken"} /\ (t = s \/ IsPrefix(s, t))
    BY <1>1, <1>3
  <2>2. /\ rd.cursor <= Len(s) /\ rd.cursor \in Nat
        /\ \A j \in 1..Len(s) : j <= rd.cursor => s[j] \in ToSet(g)
    BY <2>1 DEF Had, Readers
  <2>3. Len(s) \in Nat /\ Len(t) \in Nat
    BY Members
  <2>4. Len(s) <= Len(t) /\ \A j \in 1..Len(s) : t[j] = s[j]
    <3>1. CASE t = s
      BY <2>3, <3>1
    <3>2. CASE IsPrefix(s, t)
      <4>1. Len(s) <= Len(t) /\ SubSeq(s, 1, Len(s)) = SubSeq(t, 1, Len(s))
        BY <3>2 DEF IsPrefix
      <4>2. ASSUME NEW j \in 1..Len(s)
            PROVE  t[j] = s[j]
        <5>1. \A i \in 1..Len(s) : s[i] \in Chunks /\ t[i] \in Chunks
          BY <2>3, <4>1, ElementOfSeq
        <5>2. 1 \in Int /\ Len(s) \in Int /\ j \in 1..(Len(s) - 1 + 1) /\ 1 + j - 1 = j
          BY <2>3
        <5>3. SubSeq(s, 1, Len(s))[j] = s[j]
          BY <5>1, <5>2, SubSeqProperties
        <5>4. SubSeq(t, 1, Len(s))[j] = t[j]
          BY <5>1, <5>2, SubSeqProperties
        <5> QED
          BY <4>1, <5>3, <5>4
      <4> QED
        BY <4>1, <4>2
    <3> QED
      BY <2>1, <3>1, <3>2
  <2>5. rd.cursor <= Len(t)
    BY <2>2, <2>3, <2>4
  <2>6. ASSUME NEW j \in 1..Len(t), j <= rd.cursor
        PROVE  t[j] \in ToSet(g)
    <3>1. j \in 1..Len(s)
      BY <2>2, <2>3, <2>6
    <3> QED
      BY <2>2, <2>4, <2>6, <3>1
  <2> QED
    BY <1>1, <1>3, <2>5, <2>6 DEF Had
<1>4. CASE e.at \notin {"yield", "waiting", "woken"}
  BY <1>4 DEF Had
<1> QED
  BY <1>2, <1>3, <1>4

\* A reader that is as it was but for a flag no one changed.
LEMMA SameReader ==
    ASSUME NEW rd \in Readers, NEW e \in Readers, e.at = rd.at, e.run = rd.run,
           e.cursor = rd.cursor, e.rest = rd.rest, e.frozen = rd.frozen
    PROVE  e = rd
  BY DEF Readers

\* A write tells no follower that the run ended and sends none to wait, and one that
\* it does not disturb keeps what it has had.
LEMMA HadWrite ==
    ASSUME HadInv, NEW g \in Generations,
           \/ \E r \in RunIds : Start(g, r)
           \/ \E size \in Sizes : AppendChunk(g, size)
    PROVE  /\ HadInv'
           /\ \A f \in Followers :
                readers'[f].at \in {"waiting", "ended"} => readers'[f] = readers[f]
<1>0. /\ OrderInv /\ log \in Logs /\ readers \in [Followers -> Readers]
      /\ given \in [Followers -> Seq(Chunks)]
      /\ \A f \in Followers : ReaderInv(readers[f], given[f], log, streams)
  BY DEF HadInv, OrderInv, LogTypeOK
<1>1. OrderInv' /\ log' \in Logs /\ readers' \in [Followers -> Readers]
  BY <1>0, WriteStep DEF OrderInv, LogTypeOK
<1>2. given' = given /\ Disturb
  BY DEF Start, AppendChunk
<1>3. \A f \in Followers :
        /\ readers[f].at \in {"new", "left"} => readers'[f] = readers[f]
        /\ readers[f].at \notin {"new", "left"} =>
             Stirred(readers[f], readers'[f], log'.chunks[readers[f].run])
  <2>1. ASSUME NEW r \in RunIds, Start(g, r)
        PROVE  <1>3!:
    BY <1>0, <2>1, StartStep
  <2>2. ASSUME NEW size \in Sizes, AppendChunk(g, size)
        PROVE  <1>3!:
    BY <1>0, <2>2, AppendStep
  <2> QED
    BY <2>1, <2>2
<1>4. ASSUME NEW f \in Followers, readers'[f].at \in {"waiting", "ended"}
      PROVE  readers'[f] = readers[f]
  <2>1. PICK rd \in Readers, e \in Readers : rd = readers[f] /\ e = readers'[f]
    BY <1>0, <1>1
  <2>2. CASE rd.at \in {"new", "left"}
    BY <1>3, <2>1, <2>2
  <2>3. CASE rd.at \notin {"new", "left"}
    <3>1. Stirred(rd, e, log'.chunks[rd.run])
      BY <1>3, <2>1, <2>3
    <3>2. /\ e.run = rd.run /\ e.cursor = rd.cursor /\ e.rest = rd.rest
          /\ e.at = rd.at /\ e.frozen = rd.frozen
      BY <1>4, <2>1, <3>1 DEF Stirred
    <3> QED
      BY <2>1, <3>2, SameReader
  <2> QED
    BY <2>2, <2>3
<1>5. ASSUME NEW f \in Followers \ disturbed'
      PROVE  Had(readers'[f], given'[f], log'.chunks[readers'[f].run])
  <2>1. PICK rd \in Readers, e \in Readers, d \in Seq(Chunks) :
           rd = readers[f] /\ e = readers'[f] /\ d = given[f]
    BY <1>0, <1>1
  <2>2. f \notin disturbed
    BY <1>2 DEF Disturb
  <2>3. Had(rd, d, log.chunks[rd.run]) /\ ReaderInv(rd, d, log, streams)
    BY <1>0, <2>1, <2>2 DEF HadInv
  <2>4. CASE rd.at \in {"new", "left"}
    <3>1. e = rd
      BY <1>3, <2>1, <2>4
    <3> QED
      BY <1>2, <2>1, <2>4, <3>1 DEF Had
  <2>5. CASE rd.at \notin {"new", "left"}
    <3>1. PICK r \in RunIds, s \in Seq(Chunks), t \in Seq(Chunks) :
             r = rd.run /\ s = log.chunks[r] /\ t = log'.chunks[r]
      BY <1>0, <1>1, <2>3, <2>5 DEF ReaderInv, Logs
    <3>2. Stirred(rd, e, t)
      BY <1>3, <2>1, <2>5, <3>1
    <3>3. Had(rd, d, s) /\ (rd.at = "yield" => s # <<>>)
      BY <2>3, <3>1 DEF Had, ReaderInv
    <3>4. rd.at \in {"yield", "waiting", "woken"}
            => t = s \/ (rd.at # "yield" /\ IsPrefix(s, t))
      BY <1>2, <2>1, <3>1 DEF Disturb
    <3>5. Had(e, d, t)
      BY <3>2, <3>3, <3>4, HadWritten
    <3>6. e.run = r
      BY <3>1, <3>2 DEF Stirred
    <3> QED
      BY <1>2, <2>1, <3>1, <3>5, <3>6
  <2> QED
    BY <2>4, <2>5
<1> QED
  BY <1>1, <1>4, <1>5 DEF HadInv

\* The end of a stream changes no list, tells no follower that the run ended and sends
\* none to wait.
LEMMA HadEnd ==
    ASSUME HadInv, NEW g \in Generations, End(g)
    PROVE  /\ HadInv'
           /\ \A f \in Followers :
                readers'[f].at \in {"waiting", "ended"} => readers'[f] = readers[f]
<1>0. OrderInv /\ readers \in [Followers -> Readers]
  BY DEF HadInv, OrderInv, LogTypeOK
<1>1. /\ OrderInv' /\ log'.chunks = log.chunks
      /\ \A f \in Followers :
           /\ readers'[f].run = readers[f].run /\ readers'[f].cursor = readers[f].cursor
           /\ readers'[f].rest = readers[f].rest /\ readers'[f].frozen = readers[f].frozen
           /\ \/ readers'[f].at = readers[f].at
              \/ readers[f].at = "waiting" /\ readers'[f].at = "woken"
  BY <1>0, EndStep
<1>2. readers' \in [Followers -> Readers]
  BY <1>1 DEF OrderInv, LogTypeOK
<1>3. given' = given /\ disturbed' = disturbed
  BY DEF End
<1>4. ASSUME NEW f \in Followers, readers'[f].at \in {"waiting", "ended"}
      PROVE  readers'[f] = readers[f]
  <2>1. PICK rd \in Readers, e \in Readers : rd = readers[f] /\ e = readers'[f]
    BY <1>0, <1>2
  <2>2. /\ e.run = rd.run /\ e.cursor = rd.cursor /\ e.rest = rd.rest
        /\ e.at = rd.at /\ e.frozen = rd.frozen
    BY <1>1, <1>4, <2>1
  <2> QED
    BY <2>1, <2>2, SameReader
<1>5. ASSUME NEW f \in Followers \ disturbed'
      PROVE  Had(readers'[f], given'[f], log'.chunks[readers'[f].run])
  <2>1. Had(readers[f], given[f], log.chunks[readers[f].run])
    BY <1>3 DEF HadInv
  <2>2. PICK rd, e, d, s : /\ rd = readers[f] /\ e = readers'[f] /\ d = given[f]
                           /\ s = log.chunks[readers[f].run]
    OBVIOUS
  <2>3. /\ e.cursor = rd.cursor /\ e.rest = rd.rest /\ e.frozen = rd.frozen
        /\ e.at = rd.at \/ (rd.at = "waiting" /\ e.at = "woken")
    BY <1>1, <2>2
  <2>4. Had(e, d, s)
    BY <2>1, <2>2, <2>3 DEF Had
  <2> QED
    BY <1>1, <1>3, <2>2, <2>4
<1> QED
  BY <1>1, <1>4, <1>5 DEF HadInv

\* A step of one reader leaves the others alone.
LEMMA ReadsAlone ==
    ASSUME OrderInv, NEW f \in Followers,
           (\E r \in RunIds : Follow(f, r)) \/ Reads(f) \/ Leave(f)
    PROVE  /\ log' = log /\ disturbed' = disturbed
           /\ \A h \in Followers \ {f} : readers'[h] = readers[h] /\ given'[h] = given[h]
<1>1. readers \in [Followers -> Readers] /\ given \in [Followers -> Seq(Chunks)]
  BY DEF OrderInv, LogTypeOK
<1>2. log' = log /\ disturbed' = disturbed
  BY DEF Follow, Reads, Resume, Wakes, Leave, Loop
<1>3. \E e, a : readers' = [readers EXCEPT ![f] = e] /\ (given' = [given EXCEPT ![f] = a] \/ given' = given)
  <2>1. ASSUME NEW r, NEW k, Loop(f, r, k)
        PROVE  <1>3!:
    BY <2>1 DEF Loop
  <2>2. CASE Resume(f)
    <3>1. CASE readers[f].rest # <<>>
      BY <2>2, <3>1 DEF Resume
    <3>2. CASE readers[f].rest = <<>>
      BY <2>1, <2>2, <3>2 DEF Resume
    <3> QED
      BY <3>1, <3>2
  <2>3. CASE Leave(f)
    BY <2>3 DEF Leave
  <2> QED
    BY <2>1, <2>2, <2>3 DEF Follow, Reads, Wakes
<1> QED
  BY <1>1, <1>2, <1>3

\* The invariant is inductive, and the steps that keep it let no one go early.
LEMMA HadStep ==
    ASSUME HadInv, OrderInv', [LogNext]_logVars
    PROVE  /\ HadInv'
           /\ \A f \in Followers \ disturbed :
                readers'[f] # readers[f] /\ readers'[f].at \in {"waiting", "ended"}
                => ToSet(log.chunks[readers'[f].run]) \subseteq ToSet(given'[f])
<1> DEFINE Goal ==
             /\ HadInv'
             /\ \A f \in Followers \ disturbed :
                  readers'[f] # readers[f] /\ readers'[f].at \in {"waiting", "ended"}
                  => ToSet(log.chunks[readers'[f].run]) \subseteq ToSet(given'[f])
<1>0. OrderInv /\ readers \in [Followers -> Readers]
  BY DEF HadInv, OrderInv, LogTypeOK
<1>1. ASSUME NEW g \in Generations, \/ \E r \in RunIds : Start(g, r)
                                    \/ \E size \in Sizes : AppendChunk(g, size)
      PROVE  Goal
  BY <1>1, HadWrite
<1>2. ASSUME NEW g \in Generations, End(g)
      PROVE  Goal
  BY <1>2, HadEnd
<1>3. ASSUME NEW f \in Followers, (\E r \in RunIds : Follow(f, r)) \/ Reads(f)
      PROVE  Goal
  <2>1. /\ log' = log /\ disturbed' = disturbed
        /\ \A h \in Followers \ {f} : readers'[h] = readers[h] /\ given'[h] = given[h]
    BY <1>0, <1>3, ReadsAlone
  <2>2. f \notin disturbed =>
          /\ Had(readers'[f], given'[f], log.chunks[readers'[f].run])
          /\ readers'[f].at \in {"waiting", "ended"}
               => ToSet(log.chunks[readers'[f].run]) \subseteq ToSet(given'[f])
    BY <1>3, HadRead
  <2>3. ASSUME NEW h \in Followers \ disturbed'
        PROVE  Had(readers'[h], given'[h], log'.chunks[readers'[h].run])
    <3>1. CASE h = f
      BY <2>1, <2>2, <3>1
    <3>2. CASE h # f
      BY <2>1, <3>2 DEF HadInv
    <3> QED
      BY <3>1, <3>2
  <2> QED
    BY <2>1, <2>2, <2>3 DEF HadInv
<1>4. ASSUME NEW f \in Followers, Leave(f)
      PROVE  Goal
  <2>1. /\ log' = log /\ disturbed' = disturbed
        /\ \A h \in Followers \ {f} : readers'[h] = readers[h] /\ given'[h] = given[h]
    BY <1>0, <1>4, ReadsAlone
  <2>2. readers'[f].at = "left"
    BY <1>0, <1>4 DEF Leave, Readers
  <2>3. ASSUME NEW h \in Followers \ disturbed'
        PROVE  Had(readers'[h], given'[h], log'.chunks[readers'[h].run])
    <3>1. CASE h = f
      BY <2>2, <3>1 DEF Had
    <3>2. CASE h # f
      BY <2>1, <3>2 DEF HadInv
    <3> QED
      BY <3>1, <3>2
  <2> QED
    BY <2>1, <2>2, <2>3 DEF HadInv
<1>5. CASE UNCHANGED logVars
  <2>1. log' = log /\ disturbed' = disturbed /\ readers' = readers /\ given' = given
    BY <1>5 DEF logVars
  <2> QED
    BY <2>1 DEF HadInv
<1> QED
  BY <1>1, <1>2, <1>3, <1>4, <1>5 DEF LogNext

\* A follower that goes to wait, or is told the run ended, was given all that the log
\* holds, unless its list was trimmed or replaced under it or grew while it was given a
\* chunk.
THEOREM CatchesUp == LogSpec => CaughtUp
<1>1. LogInit /\ OrderInv => HadInv
  BY DEF LogInit, HadInv, Had
<1>2. HadInv /\ OrderInv' /\ [LogNext]_logVars => HadInv'
  BY HadStep
<1>3. HadInv /\ OrderInv' /\ [LogNext]_logVars =>
        [\A f \in Followers \ disturbed :
            readers'[f] # readers[f] /\ readers'[f].at \in {"waiting", "ended"}
            => ToSet(log.chunks[readers'[f].run]) \subseteq ToSet(given'[f])]_logVars
  BY HadStep
<1> QED
  BY <1>1, <1>2, <1>3, OrderInvariant, PTL DEF LogSpec, CaughtUp

-----------------------------------------------------------------------------
(* The run store.                                                          *)

\* The entries s are of different runs, with the age of their last put, each before
\* those that were put after it.
Ordered(s, sn) ==
    /\ \A j, k \in 1..Len(s) : s[j].id = s[k].id => j = k
    /\ \A k \in 1..Len(s) : sn[s[k].id].put /\ sn[s[k].id].age = s[k].age
    /\ \A j, k \in 1..Len(s) : j < k => s[k].id \in sn[s[j].id].others

\* No run is missing from s before it is due.
Due(s, sn) ==
    \A r \in Ids : sn[r].put /\ ~(sn[r].age > TTL) /\ ~(Cardinality(sn[r].others) >= MaxRuns)
                   => has(s, r)

Histories == [Ids -> [put : BOOLEAN, age : Ages, others : SUBSET Ids]]

Turns == [at : {"idle", "open", "stream", "charge", "delivered", "over"}, age : Ages]

StoreInv ==
    /\ store \in Seq(Entries) /\ Len(store) <= MaxRuns
    /\ since \in Histories /\ \A r \in Ids : IsFiniteSet(since[r].others)
    /\ generation \in Turns
    /\ Ordered(store, since) /\ Due(store, since)

\* The generated run is kept as ready once it is delivered and not before.
ReadyInv ==
    \A k \in 1..Len(store) : store[k].id = Project => (store[k].state = "ready" <=> Delivered)

\* Requests are only sent for a project that was delivered, and whoever has it made it.
VisitInv ==
    /\ visit # None => Delivered
    /\ keeper # None => keeper = maker
    /\ generation.at \in {"idle", "open", "stream"} => keeper = None

DeliveryInv == StoreInv /\ ReadyInv /\ VisitInv

\* The set of the first numbers has as many members.
LEMMA FirstNumbers ==
    ASSUME NEW n \in Nat
    PROVE  IsFiniteSet(1..n) /\ Cardinality(1..n) = n
<1>1. 1 \in Int /\ n \in Int
  OBVIOUS
<1>2. IsFiniteSet(1..n) /\ Cardinality(1..n) = IF 1 > n THEN 0 ELSE n - 1 + 1
  BY <1>1, FS_Interval
<1> QED
  BY <1>2

\* How many of the places K come up to k.
Upto(K, k) == Cardinality({j \in K : j <= k})

\* One more at a place of K, and no more elsewhere.
LEMMA Counted ==
    ASSUME NEW n \in Nat, NEW K, K \subseteq 1..n
    PROVE  /\ Cardinality(K) \in Nat /\ Cardinality(K) <= n
           /\ \A k \in 0..n : Upto(K, k) \in Nat
           /\ Upto(K, 0) = 0 /\ Upto(K, n) = Cardinality(K)
           /\ \A k \in 1..n : Upto(K, k) = IF k \in K THEN Upto(K, k - 1) + 1 ELSE Upto(K, k - 1)
           /\ \A k, l \in 0..n : k <= l => Upto(K, k) <= Upto(K, l)
<1>0. \A j \in K : j \in Nat /\ 1 <= j /\ j <= n
  OBVIOUS
<1>1. IsFiniteSet(K) /\ Cardinality(K) <= n /\ Cardinality(K) \in Nat
  <2>1. IsFiniteSet(1..n) /\ Cardinality(1..n) = n /\ K \in SUBSET (1..n)
    BY FirstNumbers
  <2> QED
    BY <2>1, FS_Subset, FS_CardinalityType
<1>2. ASSUME NEW k \in 0..n
      PROVE  IsFiniteSet({j \in K : j <= k}) /\ Upto(K, k) \in Nat
  <2>1. {j \in K : j <= k} \in SUBSET K
    OBVIOUS
  <2>2. IsFiniteSet({j \in K : j <= k})
    BY <1>1, <2>1, FS_Subset
  <2> QED
    BY <2>2, FS_CardinalityType DEF Upto
<1>3. Upto(K, 0) = 0
  <2>1. PICK A : A = {j \in K : j <= 0}
    OBVIOUS
  <2>2. Upto(K, 0) = Cardinality(A)
    BY <2>1 DEF Upto
  <2>3. ASSUME NEW j \in A
        PROVE  FALSE
    <3>1. j \in K /\ j <= 0
      BY <2>1
    <3> QED
      BY <1>0, <3>1
  <2> QED
    BY <2>2, <2>3, FS_EmptySet
<1>4. Upto(K, n) = Cardinality(K)
  <2>1. PICK A : A = {j \in K : j <= n}
    OBVIOUS
  <2>2. Upto(K, n) = Cardinality(A)
    BY <2>1 DEF Upto
  <2>3. \A j : j \in A <=> j \in K
    BY <1>0, <2>1
  <2>4. A = K
    BY <2>3
  <2> QED
    BY <2>2, <2>4
<1>5. ASSUME NEW k \in 1..n
      PROVE  Upto(K, k) = IF k \in K THEN Upto(K, k - 1) + 1 ELSE Upto(K, k - 1)
  <2>1. k \in 0..n /\ k - 1 \in 0..n
    OBVIOUS
  <2>2. PICK A, B : A = {j \in K : j <= k - 1} /\ B = {j \in K : j <= k}
    OBVIOUS
  <2>3. IsFiniteSet(A) /\ Upto(K, k - 1) = Cardinality(A) /\ Upto(K, k) = Cardinality(B)
    BY <1>2, <2>1, <2>2 DEF Upto
  <2>4. k \notin A /\ B = IF k \in K THEN A \cup {k} ELSE A
    <3>1. ~(k <= k - 1) /\ \A j \in K : j <= k <=> j <= k - 1 \/ j = k
      BY <1>0
    <3>2. k \notin A
      BY <2>2, <3>1
    <3>3. \A j : j \in B <=> j \in A \/ (j \in K /\ j = k)
      BY <2>1, <2>2, <3>1
    <3> QED
      BY <3>2, <3>3
  <2>5. Cardinality(A \cup {k}) = Cardinality(A) + 1
    BY <2>3, <2>4, FS_AddElement
  <2> QED
    BY <2>3, <2>4, <2>5
<1>6. ASSUME NEW k \in 0..n, NEW l \in 0..n, k <= l
      PROVE  Upto(K, k) <= Upto(K, l)
  <2>1. PICK A, B : A = {j \in K : j <= k} /\ B = {j \in K : j <= l}
    OBVIOUS
  <2>2. A \in SUBSET B
    <3>1. \A j \in K : j <= k => j <= l
      BY <1>0, <1>6
    <3> QED
      BY <2>1, <3>1
  <2>3. IsFiniteSet(B) /\ Upto(K, k) = Cardinality(A) /\ Upto(K, l) = Cardinality(B)
    BY <1>2, <2>1 DEF Upto
  <2> QED
    BY <2>2, <2>3, FS_Subset
<1> QED
  BY <1>1, <1>2, <1>3, <1>4, <1>5, <1>6

\* nth takes the places of t to the places K of s, in their order.
Picks(s, t, K, nth) ==
    /\ nth \in [1..Len(t) -> 1..Len(s)]
    /\ \A i \in 1..Len(t) : nth[i] \in K /\ t[i] = s[nth[i]]
    /\ \A i, j \in 1..Len(t) : i < j => nth[i] < nth[j]
    /\ \A k \in K : \E i \in 1..Len(t) : nth[i] = k

\* t has what s has at the places K, and nothing else.
Took(s, t, K) ==
    /\ \A i \in 1..Len(t) : \E k \in K : t[i] = s[k]
    /\ \A k \in K : \E i \in 1..Len(t) : t[i] = s[k]

\* only keeps what is at the places K, and its order.
LEMMA OnlyPlaces ==
    ASSUME NEW S, NEW s \in Seq(S), NEW K, K \subseteq 1..Len(s), NEW t, t = only(s, K)
    PROVE  /\ t \in Seq(S) /\ Len(t) <= Len(s)
           /\ \E nth : Picks(s, t, K, nth)
<1>1. PICK n \in Nat : n = Len(s)
  BY Members
<1>3. PICK m : m = Cardinality(K)
  OBVIOUS
<1>4. /\ m \in Nat /\ m <= n
      /\ \A k \in 0..n : Upto(K, k) \in Nat
      /\ Upto(K, 0) = 0 /\ Upto(K, n) = m
      /\ \A k \in 1..n : Upto(K, k) = IF k \in K THEN Upto(K, k - 1) + 1 ELSE Upto(K, k - 1)
      /\ \A k, l \in 0..n : k <= l => Upto(K, k) <= Upto(K, l)
  <2>1. K \subseteq 1..n
    BY <1>1
  <2>2. /\ Cardinality(K) \in Nat /\ Cardinality(K) <= n
        /\ \A k \in 0..n : Upto(K, k) \in Nat
        /\ Upto(K, 0) = 0 /\ Upto(K, n) = Cardinality(K)
        /\ \A k \in 1..n : Upto(K, k) = IF k \in K THEN Upto(K, k - 1) + 1 ELSE Upto(K, k - 1)
        /\ \A k, l \in 0..n : k <= l => Upto(K, k) <= Upto(K, l)
    BY <2>1, Counted
  <2> QED
    BY <1>3, <2>2
<1>5. \A k \in K : k \in 1..n /\ k \in 0..n /\ k - 1 \in 0..n
  BY <1>1
<1>6. ASSUME NEW k \in K
      PROVE  Upto(K, k) \in 1..m
  <2>1. Upto(K, k) = Upto(K, k - 1) + 1 /\ Upto(K, k - 1) \in Nat /\ k <= n /\ n \in 0..n
    BY <1>4, <1>5
  <2>2. Upto(K, k) <= m
    BY <1>4, <1>5, <2>1
  <2> QED
    BY <1>4, <2>1, <2>2
<1>7. ASSUME NEW k \in K, NEW l \in K, k < l
      PROVE  Upto(K, k) < Upto(K, l)
  <2>1. Upto(K, l) = Upto(K, l - 1) + 1 /\ k <= l - 1 /\ Upto(K, l - 1) \in Nat /\ Upto(K, k) \in Nat
    BY <1>4, <1>5, <1>7
  <2>2. Upto(K, k) <= Upto(K, l - 1)
    BY <1>4, <1>5, <2>1
  <2> QED
    BY <2>1, <2>2
<1>8. ASSUME NEW i \in 1..m
      PROVE  \E k \in K : Upto(K, k) = i
  <2>1. PICK T : T = {k \in 0..n : Upto(K, k) >= i}
    OBVIOUS
  <2>2. T \subseteq Nat /\ n \in T
    BY <1>4, <2>1
  <2>3. PICK k \in T : \A y \in T : k <= y
    BY <2>2, Least
  <2>4. k \in 1..n /\ k - 1 \in 0..n /\ Upto(K, k) >= i
    BY <1>4, <2>1, <2>3
  <2>5. k - 1 \notin T
    BY <2>3, <2>4
  <2>6. Upto(K, k - 1) < i /\ Upto(K, k - 1) \in Nat
    BY <1>4, <2>1, <2>4, <2>5
  <2>7. k \in K /\ Upto(K, k) = Upto(K, k - 1) + 1
    BY <1>4, <2>4, <2>6
  <2> QED
    BY <2>4, <2>6, <2>7
<1>9. PICK nth : nth = [i \in 1..m |-> CHOOSE k \in K : Upto(K, k) = i]
  OBVIOUS
<1>10. ASSUME NEW i \in 1..m
       PROVE  nth[i] \in K /\ Upto(K, nth[i]) = i
  <2>1. \E k \in K : Upto(K, k) = i
    BY <1>8
  <2> QED
    BY <1>9, <2>1
<1>11. t = [i \in 1..m |-> s[nth[i]]]
  BY <1>3, <1>9 DEF only, Upto
<1>12. \A i \in 1..m : nth[i] \in 1..n /\ s[nth[i]] \in S
  BY <1>1, <1>5, <1>10, ElementOfSeq
<1>13. t \in Seq(S) /\ Len(t) = m
  BY <1>4, <1>11, <1>12
<1>14. \A i, j \in 1..m : i < j => nth[i] < nth[j]
  <2> SUFFICES ASSUME NEW i \in 1..m, NEW j \in 1..m, i < j, ~(nth[i] < nth[j])
               PROVE  FALSE
    OBVIOUS
  <2>1. PICK k \in K, l \in K : k = nth[i] /\ l = nth[j] /\ Upto(K, k) = i /\ Upto(K, l) = j
    BY <1>10
  <2>2. l <= k /\ k \in 0..n /\ l \in 0..n
    BY <1>5, <2>1
  <2>3. Upto(K, l) <= Upto(K, k)
    BY <1>4, <2>2
  <2> QED
    BY <2>1, <2>3
<1>15. ASSUME NEW k \in K
       PROVE  Upto(K, k) \in 1..m /\ nth[Upto(K, k)] = k
  <2>1. PICK i \in 1..m : i = Upto(K, k)
    BY <1>6
  <2>2. PICK l \in K : l = nth[i] /\ Upto(K, l) = Upto(K, k)
    BY <1>10, <2>1
  <2>3. ~(l < k) /\ ~(k < l)
    <3>1. Upto(K, k) \in Nat /\ ~(Upto(K, k) < Upto(K, k))
      BY <1>4, <1>5
    <3> QED
      BY <1>7, <2>2, <3>1
  <2>4. l = k
    BY <1>5, <2>3
  <2> QED
    BY <2>1, <2>2, <2>4
<1>16. nth \in [1..m -> 1..n]
  BY <1>9, <1>12
<1>17. \A k \in K : \E i \in 1..m : nth[i] = k
  BY <1>15
<1>18. Picks(s, t, K, nth)
  BY <1>1, <1>10, <1>11, <1>13, <1>14, <1>16, <1>17 DEF Picks
<1> QED
  BY <1>1, <1>4, <1>13, <1>18

\* A sequence that has some of the entries, in their order, is ordered as they are.
LEMMA PickedOrder ==
    ASSUME NEW s \in Seq(Entries), NEW t \in Seq(Entries), NEW sn,
           NEW nth \in [1..Len(t) -> 1..Len(s)],
           \A i \in 1..Len(t) : t[i] = s[nth[i]],
           \A i, j \in 1..Len(t) : i < j => nth[i] < nth[j],
           Ordered(s, sn)
    PROVE  Ordered(t, sn)
<1>1. Len(s) \in Nat /\ Len(t) \in Nat
  BY Members
<1>2. ASSUME NEW i \in 1..Len(t), NEW j \in 1..Len(t), t[i].id = t[j].id
      PROVE  i = j
  <2>1. PICK k \in 1..Len(s), l \in 1..Len(s) : k = nth[i] /\ l = nth[j]
    OBVIOUS
  <2>2. k = l
    BY <1>2, <2>1 DEF Ordered
  <2>3. ~(k < l) /\ ~(l < k)
    BY <1>1, <2>2
  <2>4. ~(i < j) /\ ~(j < i)
    BY <2>1, <2>3
  <2> QED
    BY <1>1, <2>4
<1>3. ASSUME NEW i \in 1..Len(t)
      PROVE  sn[t[i].id].put /\ sn[t[i].id].age = t[i].age
  BY DEF Ordered
<1>4. ASSUME NEW i \in 1..Len(t), NEW j \in 1..Len(t), i < j
      PROVE  t[j].id \in sn[t[i].id].others
  <2>1. PICK k \in 1..Len(s), l \in 1..Len(s) : k = nth[i] /\ l = nth[j] /\ k < l
    BY <1>4
  <2> QED
    BY <2>1 DEF Ordered
<1> QED
  BY <1>2, <1>3, <1>4 DEF Ordered

\* What is left of a store when some of its entries are deleted.
LEMMA OnlyOrdered ==
    ASSUME NEW s \in Seq(Entries), NEW sn, Ordered(s, sn),
           NEW K, K \subseteq 1..Len(s), NEW t, t = only(s, K)
    PROVE  /\ t \in Seq(Entries) /\ Len(t) <= Len(s) /\ Ordered(t, sn)
           /\ Took(s, t, K)
<1>1. t \in Seq(Entries) /\ Len(t) <= Len(s)
  BY OnlyPlaces, Zenon
<1>2. PICK nth : Picks(s, t, K, nth)
  BY OnlyPlaces, Zenon
<1>3. Ordered(t, sn)
  <2>1. /\ nth \in [1..Len(t) -> 1..Len(s)]
        /\ \A i \in 1..Len(t) : t[i] = s[nth[i]]
        /\ \A i, j \in 1..Len(t) : i < j => nth[i] < nth[j]
    BY <1>2 DEF Picks
  <2> QED
    BY <1>1, <2>1, PickedOrder
<1>4. ASSUME NEW i \in 1..Len(t)
      PROVE  \E k \in K : t[i] = s[k]
  BY <1>2 DEF Picks
<1>5. ASSUME NEW k \in K
      PROVE  \E i \in 1..Len(t) : t[i] = s[k]
  <2>1. PICK i \in 1..Len(t) : nth[i] = k
    BY <1>2 DEF Picks
  <2> QED
    BY <1>2, <2>1 DEF Picks
<1> QED
  BY <1>1, <1>3, <1>4, <1>5 DEF Took

\* _sweep deletes what is older than the TTL and nothing else.
LEMMA Sweeps ==
    ASSUME NEW s \in Seq(Entries), NEW sn, Ordered(s, sn), NEW t, t = swept(s)
    PROVE  /\ t \in Seq(Entries) /\ Len(t) <= Len(s) /\ Ordered(t, sn)
           /\ \A i \in 1..Len(t) : t[i].age <= TTL /\ \E k \in 1..Len(s) : t[i] = s[k]
           /\ \A k \in 1..Len(s) : s[k].age <= TTL => \E i \in 1..Len(t) : t[i] = s[k]
<1>1. PICK K : K = {k \in 1..Len(s) : s[k].age <= TTL}
  OBVIOUS
<1>2. K \subseteq 1..Len(s) /\ t = only(s, K)
  BY <1>1 DEF swept
<1>3. t \in Seq(Entries) /\ Len(t) <= Len(s) /\ Ordered(t, sn) /\ Took(s, t, K)
  BY <1>2, OnlyOrdered, Zenon
<1> QED
  BY <1>1, <1>3 DEF Took

\* A sweep takes no run before it is due.
LEMMA SweepsDue ==
    ASSUME NEW s \in Seq(Entries), NEW sn \in Histories, Ordered(s, sn), Due(s, sn)
    PROVE  Due(swept(s), sn)
<1>1. PICK t : t = swept(s)
  OBVIOUS
<1>2. ASSUME NEW r \in Ids, sn[r].put, ~(sn[r].age > TTL),
             ~(Cardinality(sn[r].others) >= MaxRuns)
      PROVE  has(t, r)
  <2>1. PICK k \in 1..Len(s) : s[k].id = r
    BY <1>2 DEF Due, has
  <2>2. s[k].age = sn[r].age
    BY <2>1 DEF Ordered
  <2>3. sn[r].age \in Int /\ TTL \in Int
    BY RunStoreAssumption DEF Histories, Ages
  <2>4. s[k].age <= TTL
    BY <1>2, <2>2, <2>3
  <2>5. PICK i \in 1..Len(t) : t[i] = s[k]
    BY <1>1, <2>4, Sweeps
  <2> QED
    BY <2>1, <2>5 DEF has
<1> QED
  BY <1>1, <1>2 DEF Due

\* What since becomes with a put of the run r.
Later(sn, r, age) ==
    [q \in Ids |->
        IF q = r THEN [put |-> TRUE, age |-> age, others |-> {}]
        ELSE [sn[q] EXCEPT !.others = IF sn[q].put THEN @ \cup {r} ELSE @]]

\* A put leaves every other run its age, and one more run put after it.
LEMMA LaterRuns ==
    ASSUME NEW sn \in Histories, \A q \in Ids : IsFiniteSet(sn[q].others),
           NEW r \in Ids, NEW age \in Ages, NEW su, su = Later(sn, r, age)
    PROVE  /\ su \in Histories /\ \A q \in Ids : IsFiniteSet(su[q].others)
           /\ su[r].put /\ su[r].age = age
           /\ \A q \in Ids \ {r} :
                /\ su[q].put = sn[q].put /\ su[q].age = sn[q].age
                /\ sn[q].others \subseteq su[q].others
                /\ sn[q].put => r \in su[q].others
                /\ Cardinality(sn[q].others) \in Nat /\ Cardinality(su[q].others) \in Nat
                /\ Cardinality(sn[q].others) <= Cardinality(su[q].others)
<1>1. su[r] = [put |-> TRUE, age |-> age, others |-> {}]
  BY DEF Later
<1>2. ASSUME NEW q \in Ids \ {r}
      PROVE  /\ su[q] \in [put : BOOLEAN, age : Ages, others : SUBSET Ids]
             /\ su[q].put = sn[q].put /\ su[q].age = sn[q].age
             /\ su[q].others = IF sn[q].put THEN sn[q].others \cup {r} ELSE sn[q].others
  <2>1. PICK h \in [put : BOOLEAN, age : Ages, others : SUBSET Ids] : h = sn[q]
    BY DEF Histories
  <2>2. su[q] = [h EXCEPT !.others = IF h.put THEN h.others \cup {r} ELSE h.others]
    BY <2>1 DEF Later
  <2> QED
    BY <2>1, <2>2
<1>3. ASSUME NEW q \in Ids \ {r}
      PROVE  /\ IsFiniteSet(su[q].others)
             /\ sn[q].others \subseteq su[q].others
             /\ Cardinality(sn[q].others) \in Nat /\ Cardinality(su[q].others) \in Nat
             /\ Cardinality(sn[q].others) <= Cardinality(su[q].others)
  <2>1. PICK A, B : A = sn[q].others /\ B = su[q].others
    OBVIOUS
  <2>2. IsFiniteSet(A) /\ (B = A \cup {r} \/ B = A)
    BY <1>2, <2>1
  <2>3. IsFiniteSet(B) /\ A \in SUBSET B
    BY <2>2, FS_AddElement
  <2>4. Cardinality(A) <= Cardinality(B) /\ Cardinality(A) \in Nat /\ Cardinality(B) \in Nat
    BY <2>2, <2>3, FS_Subset, FS_CardinalityType
  <2> QED
    BY <2>1, <2>3, <2>4
<1>4. su[r] \in [put : BOOLEAN, age : Ages, others : SUBSET Ids] /\ IsFiniteSet(su[r].others)
  BY <1>1, FS_EmptySet
<1>5. ASSUME NEW q \in Ids
      PROVE  su[q] \in [put : BOOLEAN, age : Ages, others : SUBSET Ids] /\ IsFiniteSet(su[q].others)
  BY <1>2, <1>3, <1>4
<1>6. su \in Histories
  <2>1. su = [q \in Ids |-> su[q]]
    BY DEF Later
  <2> QED
    BY <1>5, <2>1 DEF Histories
<1>7. ASSUME NEW q \in Ids \ {r}
      PROVE  /\ su[q].put = sn[q].put /\ su[q].age = sn[q].age
             /\ sn[q].put => r \in su[q].others
  BY <1>2
<1>8. su[r].put /\ su[r].age = age
  BY <1>1
<1> QED
  BY <1>3, <1>5, <1>6, <1>7, <1>8, Zenon

\* A store over its limit drops the oldest: what is left is ordered, and what went has
\* MaxRuns runs after it.
LEMMA Evicts ==
    ASSUME NEW w \in Seq(Entries), NEW su \in Histories, Ordered(w, su),
           \A q \in Ids : IsFiniteSet(su[q].others), Due(w, su),
           NEW t, t = evicted(w)
    PROVE  /\ t \in Seq(Entries) /\ Len(t) <= MaxRuns
           /\ Ordered(t, su) /\ Due(t, su)
           /\ \A i \in 1..Len(t) : \E k \in 1..Len(w) : t[i] = w[k]
<1>1. Len(w) \in Nat /\ MaxRuns \in Nat \ {0}
  BY Members, RunStoreAssumption
<1>2. CASE ~(Len(w) > MaxRuns)
  <2>1. t = w
    BY <1>2 DEF evicted
  <2> QED
    BY <1>1, <1>2, <2>1
<1>3. CASE Len(w) > MaxRuns
  <2>1. PICK d \in Nat \ {0} : d = Len(w) - MaxRuns
    BY <1>1, <1>3
  <2>2. d + 1 \in 1..(Len(w) + 1) /\ t = SubSeq(w, d + 1, Len(w)) /\ Len(w) - (d + 1) + 1 = MaxRuns
    BY <1>1, <1>3, <2>1 DEF evicted
  <2>3. /\ t \in Seq(Entries) /\ Len(t) = MaxRuns
        /\ \A i \in 1..MaxRuns : t[i] = w[i + (d + 1) - 1]
    BY <2>2, Suffix
  <2>4. PICK nth : nth = [i \in 1..MaxRuns |-> i + d]
    OBVIOUS
  <2>5. /\ nth \in [1..Len(t) -> 1..Len(w)]
        /\ \A i \in 1..Len(t) : nth[i] = i + d
    BY <1>1, <2>1, <2>3, <2>4
  <2>6. ASSUME NEW i \in 1..Len(t)
        PROVE  t[i] = w[nth[i]]
    <3>1. i \in 1..MaxRuns /\ i + (d + 1) - 1 = nth[i]
      BY <1>1, <2>3, <2>5
    <3> QED
      BY <2>3, <3>1
  <2>7. \A i, j \in 1..Len(t) : i < j => nth[i] < nth[j]
    BY <1>1, <2>3, <2>5
  <2>8. Ordered(t, su)
    BY <2>3, <2>5, <2>6, <2>7, PickedOrder
  <2>9. ASSUME NEW r \in Ids, su[r].put, ~(su[r].age > TTL),
               ~(Cardinality(su[r].others) >= MaxRuns)
        PROVE  has(t, r)
    <3>1. PICK k \in 1..Len(w) : w[k].id = r
      BY <2>9 DEF Due, has
    <3>2. CASE k > d
      <4>1. k - d \in 1..Len(t) /\ (k - d) + d = k
        BY <1>1, <2>1, <2>3, <3>2
      <4>2. t[k - d] = w[k]
        BY <2>5, <2>6, <4>1
      <4> QED
        BY <3>1, <4>1, <4>2 DEF has
    <3>3. CASE ~(k > d)
      <4>1. PICK O : O = su[r].others
        OBVIOUS
      <4>2. PICK I : I = 1..MaxRuns
        OBVIOUS
      <4>3. PICK f : f = [i \in I |-> t[i].id]
        OBVIOUS
      <4>4. ASSUME NEW i \in I
            PROVE  f[i] \in O
        <5>1. i \in 1..Len(t) /\ nth[i] \in 1..Len(w) /\ k < nth[i]
          BY <1>1, <2>1, <2>3, <2>5, <3>3, <4>2
        <5>2. w[nth[i]].id \in su[w[k].id].others
          BY <5>1 DEF Ordered
        <5> QED
          BY <2>6, <3>1, <4>1, <4>3, <5>1, <5>2
      <4>5. ASSUME NEW i \in I, NEW j \in I, f[i] = f[j]
            PROVE  i = j
        BY <2>3, <2>8, <4>2, <4>3, <4>5 DEF Ordered
      <4>6. f \in Injection(I, O)
        <5>1. f \in [I -> O]
          BY <4>3, <4>4
        <5> QED
          BY <4>5, <5>1 DEF Injection, IsInjective
      <4>7. IsFiniteSet(O) /\ Cardinality(O) \in Nat
        BY <4>1, FS_CardinalityType
      <4>8. Cardinality(I) <= Cardinality(O)
        BY <4>6, <4>7, FS_Injection
      <4>9. Cardinality(I) = MaxRuns
        BY <1>1, <4>2, FirstNumbers
      <4> QED
        BY <1>1, <2>9, <4>1, <4>7, <4>8, <4>9
    <3> QED
      BY <1>1, <2>1, <3>2, <3>3
  <2>10. \A i \in 1..Len(t) : \E k \in 1..Len(w) : t[i] = w[k]
    BY <2>5, <2>6
  <2>11. Due(t, su)
    BY <2>9 DEF Due
  <2> QED
    BY <1>1, <2>3, <2>8, <2>10, <2>11
<1> QED
  BY <1>2, <1>3

\* put takes no run before it is due, and keeps of the store what it had of other runs.
LEMMA Puts ==
    ASSUME NEW s \in Seq(Entries), NEW sn \in Histories,
           \A q \in Ids : IsFiniteSet(sn[q].others),
           Ordered(s, sn), Due(s, sn), NEW e \in Entries,
           NEW su, su = Later(sn, e.id, e.age), NEW t, t = put(s, e)
    PROVE  /\ t \in Seq(Entries) /\ Len(t) <= MaxRuns
           /\ su \in Histories /\ \A q \in Ids : IsFiniteSet(su[q].others)
           /\ Ordered(t, su) /\ Due(t, su)
           /\ \A i \in 1..Len(t) :
                t[i] = e \/ (t[i].id # e.id /\ \E k \in 1..Len(s) : t[i] = s[k])
<1>1. PICK r \in Ids, age \in Ages : r = e.id /\ age = e.age
  BY DEF Entries
<1>2. PICK u : u = swept(s)
  OBVIOUS
<1>3. /\ u \in Seq(Entries) /\ Ordered(u, sn)
      /\ \A i \in 1..Len(u) : \E k \in 1..Len(s) : u[i] = s[k]
  BY <1>2, Sweeps
<1>4. Due(u, sn)
  BY <1>2, SweepsDue
<1>5. PICK K : K = {k \in 1..Len(u) : u[k].id # r}
  OBVIOUS
<1>6. PICK v : v = only(u, K)
  OBVIOUS
<1>7. v \in Seq(Entries) /\ Ordered(v, sn) /\ Took(u, v, K)
  <2>1. K \subseteq 1..Len(u)
    BY <1>5
  <2> QED
    BY <1>3, <1>6, <2>1, OnlyOrdered, Zenon
<1>8. PICK w : w = Append(v, e)
  OBVIOUS
<1>9. t = evicted(w)
  BY <1>1, <1>2, <1>5, <1>6, <1>8 DEF put, moved_to_end
<1>10. PICK n \in Nat : n = Len(v)
  BY <1>7, Members
<1>11. /\ w \in Seq(Entries) /\ Len(w) = n + 1 /\ w[n + 1] = e
       /\ \A i \in 1..n : w[i] = v[i]
  BY <1>7, <1>8, <1>10, AppendProperties
<1>12. /\ su \in Histories /\ \A q \in Ids : IsFiniteSet(su[q].others)
       /\ su[r].put /\ su[r].age = age
       /\ \A q \in Ids \ {r} :
            /\ su[q].put = sn[q].put /\ su[q].age = sn[q].age
            /\ sn[q].others \subseteq su[q].others
            /\ sn[q].put => r \in su[q].others
            /\ Cardinality(sn[q].others) \in Nat /\ Cardinality(su[q].others) \in Nat
            /\ Cardinality(sn[q].others) <= Cardinality(su[q].others)
  <2>1. su = Later(sn, r, age)
    BY <1>1
  <2> QED
    BY <2>1, LaterRuns
<1>13. \A i \in 1..n : v[i] \in Entries /\ v[i].id \in Ids \ {r} /\ \E k \in 1..Len(s) : v[i] = s[k]
  <2> SUFFICES ASSUME NEW i \in 1..n
               PROVE  v[i] \in Entries /\ v[i].id \in Ids \ {r} /\ \E k \in 1..Len(s) : v[i] = s[k]
    OBVIOUS
  <2>1. v[i] \in Entries /\ v[i].id \in Ids
    <3>1. v[i] \in Entries
      BY <1>7, <1>10, ElementOfSeq
    <3> QED
      BY <3>1 DEF Entries
  <2>2. PICK k \in K : v[i] = u[k]
    BY <1>7, <1>10 DEF Took
  <2>3. k \in 1..Len(u) /\ u[k].id # r
    BY <1>5
  <2> QED
    BY <1>3, <2>1, <2>2, <2>3
<1>14. Ordered(w, su)
  <2>1. ASSUME NEW i \in 1..Len(w)
        PROVE  (i \in 1..n /\ w[i] = v[i]) \/ (i = n + 1 /\ w[i] = e)
    BY <1>11
  <2>2. ASSUME NEW i \in 1..Len(w), NEW j \in 1..Len(w), w[i].id = w[j].id
        PROVE  i = j
    <3>1. CASE i \in 1..n /\ j \in 1..n
      BY <1>7, <1>10, <1>11, <2>2, <3>1 DEF Ordered
    <3>2. CASE i = n + 1 /\ j = n + 1
      BY <3>2
    <3>3. CASE i \in 1..n /\ j = n + 1
      BY <1>1, <1>11, <1>13, <2>2, <3>3
    <3>4. CASE i = n + 1 /\ j \in 1..n
      BY <1>1, <1>11, <1>13, <2>2, <3>4
    <3> QED
      BY <2>1, <3>1, <3>2, <3>3, <3>4
  <2>3. ASSUME NEW i \in 1..Len(w)
        PROVE  su[w[i].id].put /\ su[w[i].id].age = w[i].age
    <3>1. CASE i \in 1..n
      <4>1. w[i] = v[i] /\ v[i].id \in Ids \ {r}
        BY <1>11, <1>13, <3>1
      <4>2. sn[v[i].id].put /\ sn[v[i].id].age = v[i].age
        BY <1>7, <1>10, <3>1 DEF Ordered
      <4> QED
        BY <1>12, <4>1, <4>2
    <3>2. CASE i = n + 1
      BY <1>1, <1>11, <1>12, <3>2
    <3> QED
      BY <2>1, <3>1, <3>2
  <2>4. ASSUME NEW i \in 1..Len(w), NEW j \in 1..Len(w), i < j
        PROVE  w[j].id \in su[w[i].id].others
    <3>1. i \in 1..n
      BY <1>11, <2>4
    <3>2. PICK q \in Ids \ {r} : q = w[i].id /\ q = v[i].id /\ sn[q].put
      BY <1>7, <1>10, <1>11, <1>13, <3>1 DEF Ordered
    <3>3. CASE j \in 1..n
      <4>1. v[j].id \in sn[q].others
        BY <1>7, <1>10, <2>4, <3>1, <3>2, <3>3 DEF Ordered
      <4> QED
        BY <1>11, <1>12, <3>2, <3>3, <4>1
    <3>4. CASE j = n + 1
      BY <1>1, <1>11, <1>12, <3>2, <3>4
    <3> QED
      BY <2>1, <3>3, <3>4
  <2> QED
    BY <2>2, <2>3, <2>4 DEF Ordered
<1>15. Due(w, su)
  <2> SUFFICES ASSUME NEW q \in Ids, su[q].put, ~(su[q].age > TTL),
                      ~(Cardinality(su[q].others) >= MaxRuns)
               PROVE  has(w, q)
    BY DEF Due
  <2>1. CASE q = r
    <3>1. n + 1 \in 1..Len(w) /\ w[n + 1].id = q
      BY <1>1, <1>11, <2>1
    <3> QED
      BY <3>1 DEF has
  <2>2. CASE q # r
    <3>1. /\ q \in Ids \ {r} /\ su[q].put = sn[q].put /\ su[q].age = sn[q].age
          /\ Cardinality(sn[q].others) \in Nat /\ Cardinality(su[q].others) \in Nat
          /\ Cardinality(sn[q].others) <= Cardinality(su[q].others)
      BY <1>12, <2>2
    <3>2. ~(Cardinality(sn[q].others) >= MaxRuns)
      BY <3>1, RunStoreAssumption
    <3>3. sn[q].put /\ ~(sn[q].age > TTL)
      BY <3>1
    <3>4. PICK k \in 1..Len(u) : u[k].id = q
      BY <1>4, <3>2, <3>3 DEF Due, has
    <3>5. k \in K
      BY <1>5, <2>2, <3>4
    <3>6. PICK i \in 1..n : v[i] = u[k]
      BY <1>7, <1>10, <3>5 DEF Took
    <3>7. i \in 1..Len(w) /\ w[i].id = q
      BY <1>11, <3>4, <3>6
    <3> QED
      BY <3>7 DEF has
  <2> QED
    BY <2>1, <2>2
<1>16. /\ t \in Seq(Entries) /\ Len(t) <= MaxRuns
       /\ Ordered(t, su) /\ Due(t, su)
       /\ \A i \in 1..Len(t) : \E k \in 1..Len(w) : t[i] = w[k]
  BY <1>9, <1>11, <1>12, <1>14, <1>15, Evicts
<1>17. ASSUME NEW i \in 1..Len(t)
       PROVE  t[i] = e \/ (t[i].id # e.id /\ \E k \in 1..Len(s) : t[i] = s[k])
  <2>1. PICK k \in 1..Len(w) : t[i] = w[k]
    BY <1>16
  <2>2. CASE k = n + 1
    BY <1>11, <2>1, <2>2
  <2>3. CASE k # n + 1
    <3>1. k \in 1..n /\ w[k] = v[k]
      BY <1>11, <2>3
    <3> QED
      BY <1>1, <1>13, <2>1, <3>1
  <2> QED
    BY <2>2, <2>3
<1> QED
  BY <1>12, <1>16, <1>17, Zenon

\* A step that puts a run keeps the store in order.
LEMMA PutStep ==
    ASSUME StoreInv, NEW r \in Ids, NEW st \in States, NEW age \in Ages, Put(r, st, age),
           generation' \in Turns
    PROVE  /\ StoreInv'
           /\ \A i \in 1..Len(store') :
                \/ store'[i].id = r /\ store'[i].state = st
                \/ store'[i].id # r /\ \E k \in 1..Len(store) : store'[i] = store[k]
<1>1. PICK e \in Entries : e = [id |-> r, age |-> age, state |-> st]
  BY DEF Entries
<1>2. e.id = r /\ e.age = age /\ e.state = st
  BY <1>1
<1>3. PICK t : t = store'
  OBVIOUS
<1>4. PICK su : su = since'
  OBVIOUS
<1>5. t = put(store, e)
  BY <1>1, <1>3 DEF Put
<1>6. su = Later(since, e.id, e.age)
  BY <1>2, <1>4 DEF Put, Later
<1>7. /\ store \in Seq(Entries) /\ since \in Histories
      /\ \A q \in Ids : IsFiniteSet(since[q].others)
      /\ Ordered(store, since) /\ Due(store, since)
  BY DEF StoreInv
<1>8. /\ t \in Seq(Entries) /\ Len(t) <= MaxRuns
      /\ su \in Histories /\ \A q \in Ids : IsFiniteSet(su[q].others)
      /\ Ordered(t, su) /\ Due(t, su)
      /\ \A i \in 1..Len(t) :
           t[i] = e \/ (t[i].id # e.id /\ \E k \in 1..Len(store) : t[i] = store[k])
  BY <1>5, <1>6, <1>7, Puts
<1>9. StoreInv'
  BY <1>3, <1>4, <1>8 DEF StoreInv
<1>10. ASSUME NEW i \in 1..Len(t)
       PROVE  \/ t[i].id = r /\ t[i].state = st
              \/ t[i].id # r /\ \E k \in 1..Len(store) : t[i] = store[k]
  BY <1>2, <1>8
<1> QED
  BY <1>3, <1>9, <1>10

\* So does one that only looks.
LEMMA GetStep ==
    ASSUME StoreInv, Get, generation' = generation
    PROVE  /\ StoreInv'
           /\ \A i \in 1..Len(store') : \E k \in 1..Len(store) : store'[i] = store[k]
<1>1. /\ store \in Seq(Entries) /\ Len(store) <= MaxRuns /\ since \in Histories
      /\ Ordered(store, since) /\ Due(store, since)
  BY DEF StoreInv
<1>2. PICK t : t = store'
  OBVIOUS
<1>3. t = swept(store) /\ since' = since
  BY <1>2 DEF Get
<1>4. /\ t \in Seq(Entries) /\ Len(t) <= Len(store) /\ Ordered(t, since)
      /\ \A i \in 1..Len(t) : \E k \in 1..Len(store) : t[i] = store[k]
  BY <1>1, <1>3, Sweeps
<1>5. Due(t, since)
  BY <1>1, <1>3, SweepsDue
<1>6. Len(t) <= MaxRuns
  <2>1. Len(t) \in Nat /\ Len(store) \in Nat /\ MaxRuns \in Nat
    BY <1>1, <1>4, Members, RunStoreAssumption
  <2> QED
    BY <1>1, <1>4, <2>1
<1>7. StoreInv'
  BY <1>2, <1>3, <1>4, <1>5, <1>6 DEF StoreInv
<1> QED
  BY <1>2, <1>4, <1>7

\* Time passes for the store as it does for the runs.
LEMMA TickStep ==
    ASSUME StoreInv, Tick
    PROVE  /\ StoreInv'
           /\ generation'.at = generation.at
           /\ Len(store') = Len(store)
           /\ \A k \in 1..Len(store) : /\ store'[k].id = store[k].id
                                       /\ store'[k].state = store[k].state
<1>1. /\ store \in Seq(Entries) /\ Len(store) <= MaxRuns /\ since \in Histories
      /\ Ordered(store, since) /\ Due(store, since) /\ generation \in Turns
      /\ \A q \in Ids : IsFiniteSet(since[q].others)
  BY DEF StoreInv
<1>2. \A age \in Ages : older(age) \in Ages /\ (age > TTL => older(age) > TTL)
  BY RunStoreAssumption DEF older, Ages
<1>3. PICK t : t = store'
  OBVIOUS
<1>4. PICK su : su = since'
  OBVIOUS
<1>5. Len(store) \in Nat /\ DOMAIN store = 1..Len(store) /\ \A k \in 1..Len(store) : store[k] \in Entries
  BY <1>1, LenProperties, ElementOfSeq
<1>6. t = [k \in 1..Len(store) |-> [store[k] EXCEPT !.age = older(@)]]
  BY <1>3, <1>5 DEF Tick
<1>7. ASSUME NEW k \in 1..Len(store)
      PROVE  /\ t[k] \in Entries /\ t[k].id = store[k].id
             /\ t[k].state = store[k].state /\ t[k].age = older(store[k].age)
  <2>1. PICK e \in Entries : e = store[k]
    BY <1>5
  <2>2. t[k] = [e EXCEPT !.age = older(e.age)]
    BY <1>6, <2>1
  <2>3. older(e.age) \in Ages
    BY <1>2 DEF Entries
  <2> QED
    BY <2>1, <2>2, <2>3 DEF Entries
<1>8. t \in Seq(Entries) /\ Len(t) = Len(store)
  <2>1. PICK n \in Nat : n = Len(store)
    BY <1>5
  <2>2. DOMAIN t = 1..n /\ t = [k \in 1..n |-> t[k]]
    BY <1>6, <2>1
  <2>3. \A k \in 1..n : t[k] \in Entries
    BY <1>7, <2>1
  <2> QED
    BY <2>1, <2>2, <2>3
<1>9. ASSUME NEW q \in Ids
      PROVE  /\ su[q] \in [put : BOOLEAN, age : Ages, others : SUBSET Ids]
             /\ su[q].put = since[q].put /\ su[q].others = since[q].others
             /\ su[q].age = IF since[q].put THEN older(since[q].age) ELSE since[q].age
  <2>1. PICK h \in [put : BOOLEAN, age : Ages, others : SUBSET Ids] : h = since[q]
    BY <1>1 DEF Histories
  <2>2. PICK a \in Ages : a = IF h.put THEN older(h.age) ELSE h.age
    BY <1>2
  <2>3. su[q] = [h EXCEPT !.age = a]
    BY <1>4, <2>1, <2>2 DEF Tick
  <2> QED
    BY <2>1, <2>2, <2>3
<1>10. su \in Histories
  <2>1. su = [q \in Ids |-> su[q]]
    BY <1>4 DEF Tick
  <2> QED
    BY <1>9, <2>1 DEF Histories
<1>11. \A q \in Ids : IsFiniteSet(su[q].others)
  BY <1>1, <1>9
<1>12. Ordered(t, su)
  <2>1. \A k \in 1..Len(store) : store[k].id \in Ids
    BY <1>5 DEF Entries
  <2>2. ASSUME NEW j \in 1..Len(t), NEW k \in 1..Len(t), t[j].id = t[k].id
        PROVE  j = k
    BY <1>1, <1>7, <1>8, <2>2 DEF Ordered
  <2>3. ASSUME NEW k \in 1..Len(t)
        PROVE  su[t[k].id].put /\ su[t[k].id].age = t[k].age
    <3>1. since[store[k].id].put /\ since[store[k].id].age = store[k].age /\ store[k].id \in Ids
      BY <1>1, <1>8, <2>1 DEF Ordered
    <3> QED
      BY <1>7, <1>8, <1>9, <3>1
  <2>4. ASSUME NEW j \in 1..Len(t), NEW k \in 1..Len(t), j < k
        PROVE  t[k].id \in su[t[j].id].others
    <3>1. store[k].id \in since[store[j].id].others /\ store[j].id \in Ids
      BY <1>1, <1>8, <2>1, <2>4 DEF Ordered
    <3> QED
      BY <1>7, <1>8, <1>9, <3>1
  <2> QED
    BY <2>2, <2>3, <2>4 DEF Ordered
<1>13. Due(t, su)
  <2> SUFFICES ASSUME NEW q \in Ids, su[q].put, ~(su[q].age > TTL),
                      ~(Cardinality(su[q].others) >= MaxRuns)
               PROVE  has(t, q)
    BY DEF Due
  <2>1. since[q].put /\ su[q].age = older(since[q].age) /\ since[q].age \in Ages
    BY <1>1, <1>9 DEF Histories
  <2>2. ~(since[q].age > TTL) /\ ~(Cardinality(since[q].others) >= MaxRuns)
    BY <1>2, <1>9, <2>1
  <2>3. PICK k \in 1..Len(store) : store[k].id = q
    BY <1>1, <2>1, <2>2 DEF Due, has
  <2> QED
    BY <1>7, <1>8, <2>3 DEF has
<1>14. generation' \in Turns /\ generation'.at = generation.at
  <2>1. CASE generation.at = "charge"
    <3>1. generation' = [generation EXCEPT !.age = older(@)]
      BY <2>1 DEF Tick
    <3>2. older(generation.age) \in Ages
      BY <1>1, <1>2 DEF Turns
    <3> QED
      BY <1>1, <3>1, <3>2 DEF Turns
  <2>2. CASE generation.at # "charge"
    BY <1>1, <2>2 DEF Tick
  <2> QED
    BY <2>1, <2>2
<1>15. StoreInv'
  BY <1>1, <1>3, <1>4, <1>8, <1>10, <1>11, <1>12, <1>13, <1>14 DEF StoreInv
<1> QED
  BY <1>3, <1>7, <1>8, <1>14, <1>15

-----------------------------------------------------------------------------
(* What a client is told.                                                  *)

\* The entry get returns is one of the store's, and younger than the TTL.
LEMMA Looked ==
    ASSUME StoreInv, NEW r \in Ids, Found(r)
    PROVE  /\ \E k \in 1..Len(store) : store[k].id = r /\ store[k].state = StateOf(r)
           /\ since[r].put /\ since[r].age <= TTL
<1>1. store \in Seq(Entries) /\ Ordered(store, since)
  BY DEF StoreInv
<1>2. PICK t : t = swept(store)
  OBVIOUS
<1>3. /\ Ordered(t, since)
      /\ \A i \in 1..Len(t) : t[i].age <= TTL /\ \E k \in 1..Len(store) : t[i] = store[k]
  BY <1>1, <1>2, Sweeps
<1>4. \E i \in 1..Len(t) : t[i].id = r
  BY <1>2 DEF Found, has
<1>5. PICK i : i = CHOOSE j \in 1..Len(t) : t[j].id = r
  OBVIOUS
<1>6. i \in 1..Len(t) /\ t[i].id = r
  BY <1>4, <1>5
<1>7. StateOf(r) = t[i].state
  BY <1>2, <1>5 DEF StateOf, get
<1>8. since[r].put /\ since[r].age = t[i].age /\ t[i].age <= TTL
  BY <1>3, <1>6 DEF Ordered
<1>9. PICK k \in 1..Len(store) : t[i] = store[k]
  BY <1>3, <1>6
<1> QED
  BY <1>6, <1>7, <1>8, <1>9

\* A run the store does not find was never put, or it was due to go.
LEMMA NotFound ==
    ASSUME StoreInv, NEW r \in Ids, ~Found(r), since[r].put
    PROVE  Overdue(r)
<1>1. /\ store \in Seq(Entries) /\ since \in Histories
      /\ Ordered(store, since) /\ Due(store, since)
  BY DEF StoreInv
<1>2. Due(swept(store), since)
  BY <1>1, SweepsDue
<1> QED
  BY <1>2 DEF Due, Found, Overdue

\* A generation at a place.
LEMMA Places_of_generate ==
    /\ 0 \in Ages
    /\ \A p \in {"idle", "open", "stream", "charge", "delivered", "over"} :
         At(p) \in Turns /\ At(p).at = p
<1>1. 0 \in Ages
  BY RunStoreAssumption DEF Ages
<1> QED
  BY <1>1 DEF At, Turns

\* The generated run is put, in the state its generation has come to.
LEMMA ProjectPut ==
    ASSUME StoreInv, NEW st \in States, NEW age \in Ages, Put(Project, st, age),
           generation' \in Turns, st = "ready" <=> generation'.at = "delivered"
    PROVE  StoreInv' /\ ReadyInv'
<1>1. Project \in Ids
  BY DeliveryAssumption
<1>2. /\ StoreInv'
      /\ \A i \in 1..Len(store') :
           \/ store'[i].id = Project /\ store'[i].state = st
           \/ store'[i].id # Project /\ \E k \in 1..Len(store) : store'[i] = store[k]
  BY <1>1, PutStep
<1>3. PICK t : t = store'
  OBVIOUS
<1>4. ASSUME NEW i \in 1..Len(t), t[i].id = Project
      PROVE  t[i].state = "ready" <=> generation'.at = "delivered"
  BY <1>2, <1>3, <1>4
<1> QED
  BY <1>2, <1>3, <1>4 DEF ReadyInv, Delivered

\* What is kept of the generated run stays as it is while its generation does.
LEMMA ReadyKept ==
    ASSUME ReadyInv, generation'.at = generation.at,
           \A i \in 1..Len(store') :
              store'[i].id = Project => \E k \in 1..Len(store) : /\ store[k].id = Project
                                                                 /\ store'[i].state = store[k].state
    PROVE  ReadyInv'
<1>1. PICK t : t = store'
  OBVIOUS
<1>2. ASSUME NEW i \in 1..Len(t), t[i].id = Project
      PROVE  t[i].state = "ready" <=> generation'.at = "delivered"
  <2>1. PICK k \in 1..Len(store) : store[k].id = Project /\ t[i].state = store[k].state
    BY <1>1, <1>2
  <2>2. store[k].state = "ready" <=> generation.at = "delivered"
    BY <2>1 DEF ReadyInv, Delivered
  <2> QED
    BY <2>1, <2>2
<1> QED
  BY <1>1, <1>2 DEF ReadyInv, Delivered

\* Looking changes nothing that counts.
LEMMA Looks ==
    ASSUME StoreInv, ReadyInv, Get, generation' = generation
    PROVE  StoreInv' /\ ReadyInv'
<1>1. /\ StoreInv'
      /\ \A i \in 1..Len(store') : \E k \in 1..Len(store) : store'[i] = store[k]
  BY GetStep
<1>2. \A i \in 1..Len(store') :
         store'[i].id = Project => \E k \in 1..Len(store) : /\ store[k].id = Project
                                                            /\ store'[i].state = store[k].state
  BY <1>1
<1> QED
  BY <1>1, <1>2, ReadyKept

\* The conversation and the generation.
LEMMA Generates ==
    ASSUME DeliveryInv,
           \/ \E r \in Ids, s \in States : Converse(r, s)
           \/ Generate \/ (\E i \in Instances, text \in Texts : Opened(i, text))
           \/ (\E n \in 1..MaxChunk : Passes(n))
           \/ Finish \/ Break \/ Charge \/ Die
    PROVE  DeliveryInv' /\ told' = {}
<1>0. /\ StoreInv /\ ReadyInv /\ VisitInv /\ Project \in Ids
      /\ generation \in Turns /\ store \in Seq(Entries)
  BY DeliveryAssumption DEF DeliveryInv, StoreInv
<1>1. ASSUME NEW r \in Ids, NEW s \in States, Converse(r, s)
      PROVE  DeliveryInv' /\ told' = {}
  <2>1. /\ s \in {"open", "approved"} /\ (r = Project => generation.at = "idle")
        /\ Put(r, s, 0) /\ told' = {}
        /\ generation' = generation /\ maker' = maker /\ keeper' = keeper /\ visit' = visit
    BY <1>1 DEF Converse, Quiet
  <2>2. VisitInv'
    BY <1>0, <2>1 DEF VisitInv, Delivered
  <2>3. CASE r = Project
    <3>1. s = "ready" <=> generation'.at = "delivered"
      BY <2>1, <2>3
    <3>2. StoreInv' /\ ReadyInv'
      BY <1>0, <2>1, <2>3, <3>1, ProjectPut, Places_of_generate
    <3> QED
      BY <2>1, <2>2, <3>2 DEF DeliveryInv
  <2>4. CASE r # Project
    <3>1. /\ StoreInv'
          /\ \A i \in 1..Len(store') :
               \/ store'[i].id = r /\ store'[i].state = s
               \/ store'[i].id # r /\ \E k \in 1..Len(store) : store'[i] = store[k]
      BY <1>0, <2>1, PutStep, Places_of_generate
    <3>2. \A i \in 1..Len(store') :
             store'[i].id = Project => \E k \in 1..Len(store) : /\ store[k].id = Project
                                                                /\ store'[i].state = store[k].state
      BY <2>4, <3>1
    <3>3. ReadyInv'
      BY <1>0, <2>1, <3>2, ReadyKept
    <3> QED
      BY <2>1, <2>2, <3>1, <3>3 DEF DeliveryInv
  <2> QED
    BY <2>3, <2>4
<1>2. CASE Generate
  <2>1. /\ generation.at = "idle" /\ Put(Project, "generating", 0) /\ generation' = At("open")
        /\ told' = {} /\ maker' = maker /\ keeper' = keeper /\ visit' = visit
    BY <1>2 DEF Generate, Quiet
  <2>2. generation' \in Turns /\ generation'.at = "open" /\ "generating" \in States
    BY <2>1, Places_of_generate DEF States
  <2>3. StoreInv' /\ ReadyInv'
    BY <1>0, <2>1, <2>2, ProjectPut, Places_of_generate
  <2>4. VisitInv'
    BY <1>0, <2>1, <2>2 DEF VisitInv, Delivered
  <2> QED
    BY <2>1, <2>3, <2>4 DEF DeliveryInv
<1>3. ASSUME NEW i \in Instances, NEW text \in Texts, Opened(i, text)
      PROVE  DeliveryInv' /\ told' = {}
  <2>1. /\ generation.at = "open" /\ generation' = At("stream") /\ told' = {}
        /\ store' = store /\ since' = since /\ keeper' = keeper /\ visit' = visit
    BY <1>3 DEF Opened, Quiet
  <2>2. generation' \in Turns /\ generation'.at = "stream"
    BY <2>1, Places_of_generate
  <2>3. StoreInv'
    BY <1>0, <2>1, <2>2 DEF StoreInv
  <2>4. ReadyInv' /\ VisitInv'
    BY <1>0, <2>1, <2>2 DEF ReadyInv, VisitInv, Delivered
  <2> QED
    BY <2>1, <2>3, <2>4 DEF DeliveryInv
<1>4. ASSUME NEW n \in 1..MaxChunk, Passes(n)
      PROVE  DeliveryInv' /\ told' = {}
  <2>1. /\ generation' = generation /\ told' = {} /\ maker' = maker
        /\ store' = store /\ since' = since /\ keeper' = keeper /\ visit' = visit
    BY <1>4 DEF Passes, Quiet
  <2> QED
    BY <2>1 DEF DeliveryInv, StoreInv, ReadyInv, VisitInv, Delivered
<1>5. CASE Finish /\ artifact # Nothing
  <2>1. /\ generation.at = "stream" /\ generation' = At("charge") /\ told' = {}
        /\ store' = store /\ since' = since /\ keeper' = maker /\ maker' = maker /\ visit' = visit
    BY <1>5 DEF Finish, Quiet
  <2>2. generation' \in Turns /\ generation'.at = "charge"
    BY <2>1, Places_of_generate
  <2>3. StoreInv'
    BY <1>0, <2>1, <2>2 DEF StoreInv
  <2>4. ReadyInv' /\ VisitInv'
    BY <1>0, <2>1, <2>2 DEF ReadyInv, VisitInv, Delivered
  <2> QED
    BY <2>1, <2>3, <2>4 DEF DeliveryInv
<1>6. CASE (Finish /\ artifact = Nothing) \/ Break
  <2>1. /\ generation.at = "stream" /\ generation' = At("over") /\ told' = {}
        /\ Put(Project, "failed", 0)
        /\ keeper' = keeper /\ maker' = maker /\ visit' = visit
    BY <1>6 DEF Finish, Break, Quiet
  <2>2. generation' \in Turns /\ generation'.at = "over" /\ "failed" \in States
    BY <2>1, Places_of_generate DEF States
  <2>3. StoreInv' /\ ReadyInv'
    BY <1>0, <2>1, <2>2, ProjectPut, Places_of_generate
  <2>4. VisitInv'
    BY <1>0, <2>1, <2>2 DEF VisitInv, Delivered
  <2> QED
    BY <2>1, <2>3, <2>4 DEF DeliveryInv
<1>7. CASE Charge
  <2>1. /\ generation.at = "charge" /\ generation' = At("delivered") /\ told' = {}
        /\ keeper' = keeper /\ maker' = maker /\ visit' = visit
    BY <1>7 DEF Charge, Quiet
  <2>2. PICK age \in {0, generation.age} : Put(Project, "ready", age)
    BY <1>7 DEF Charge
  <2>3. generation' \in Turns /\ generation'.at = "delivered" /\ "ready" \in States /\ age \in Ages
    BY <1>0, <2>1, Places_of_generate DEF States, Turns
  <2>4. StoreInv' /\ ReadyInv'
    BY <1>0, <2>2, <2>3, ProjectPut
  <2>5. VisitInv'
    BY <1>0, <2>1, <2>3 DEF VisitInv, Delivered
  <2> QED
    BY <2>1, <2>4, <2>5 DEF DeliveryInv
<1>8. CASE Die
  <2>1. /\ generation.at \in {"open", "stream", "charge"} /\ generation' = At("over") /\ told' = {}
        /\ store' = store /\ since' = since
        /\ keeper' = keeper /\ maker' = maker /\ visit' = visit
    BY <1>8 DEF Die, Quiet
  <2>2. generation' \in Turns /\ generation'.at = "over"
    BY <2>1, Places_of_generate
  <2>3. StoreInv'
    BY <1>0, <2>1, <2>2 DEF StoreInv
  <2>4. ReadyInv' /\ VisitInv'
    BY <1>0, <2>1, <2>2 DEF ReadyInv, VisitInv, Delivered
  <2> QED
    BY <2>1, <2>3, <2>4 DEF DeliveryInv
<1> QED
  BY <1>1, <1>2, <1>3, <1>4, <1>5, <1>6, <1>7, <1>8

\* What is true of something a client is told, in the state it was found in.
IsSo(t) ==
    LET r == t.run IN
    CASE t.code = "run_not_found" -> since[r].put => Overdue(r)
      [] t.code = "found"         -> since[r].put /\ since[r].age <= TTL
      [] t.code = "no_project"    -> r = Project => ~Delivered
      [] t.code = "gone"          -> Delivered /\ (keeper = None \/ visit # maker)
      [] t.code = "project"       -> Delivered /\ visit = maker
      [] OTHER                    -> TRUE

\* Whoever comes back is told what is so, and changes nothing that counts.
LEMMA ComesBack ==
    ASSUME DeliveryInv,
           \/ \E r \in Ids : Read(r) \/ ConsoleOff(r) \/ Refuse(r)
           \/ (\E i \in Instances : Open(i)) \/ Answer \/ Forget \/ Tick
    PROVE  DeliveryInv' /\ \A t \in told' : IsSo(t)
<1>0. /\ StoreInv /\ ReadyInv /\ VisitInv /\ Project \in Ids
      /\ generation \in Turns /\ store \in Seq(Entries)
  BY DeliveryAssumption DEF DeliveryInv, StoreInv
<1>1. ASSUME NEW r \in Ids, Read(r)
      PROVE  DeliveryInv' /\ \A t \in told' : IsSo(t)
  <2>1. /\ Get /\ generation' = generation /\ maker' = maker /\ keeper' = keeper /\ visit' = visit
        /\ told' = {[run |-> r, code |-> IF Found(r) THEN "found" ELSE "run_not_found"]}
    BY <1>1 DEF Read, Told
  <2>2. StoreInv' /\ ReadyInv'
    BY <1>0, <2>1, Looks
  <2>3. VisitInv'
    BY <1>0, <2>1 DEF VisitInv, Delivered
  <2>4. ASSUME NEW t \in told'
        PROVE  IsSo(t)
    <3>1. t.run = r /\ t.code = IF Found(r) THEN "found" ELSE "run_not_found"
      BY <2>1
    <3>2. CASE Found(r)
      <4>1. t.code = "found" /\ since[r].put /\ since[r].age <= TTL
        BY <1>0, <3>1, <3>2, Looked
      <4> QED
        BY <3>1, <4>1 DEF IsSo
    <3>3. CASE ~Found(r)
      <4>1. t.code = "run_not_found" /\ (since[r].put => Overdue(r))
        BY <1>0, <3>1, <3>3, NotFound
      <4> QED
        BY <3>1, <4>1 DEF IsSo
    <3> QED
      BY <3>2, <3>3
  <2> QED
    BY <2>2, <2>3, <2>4 DEF DeliveryInv
<1>2. ASSUME NEW r \in Ids, ConsoleOff(r)
      PROVE  DeliveryInv' /\ \A t \in told' : IsSo(t)
  <2>1. /\ UNCHANGED <<store, generation, maker, keeper, visit, since>>
        /\ told' = {[run |-> r, code |-> "console_disabled"]}
    BY <1>2 DEF ConsoleOff, Told
  <2>2. DeliveryInv'
    BY <2>1 DEF DeliveryInv, StoreInv, ReadyInv, VisitInv, Delivered
  <2>3. ASSUME NEW t \in told'
        PROVE  IsSo(t)
    <3>1. t.code = "console_disabled"
      BY <2>1
    <3> QED
      BY <3>1 DEF IsSo
  <2> QED
    BY <2>2, <2>3
<1>3. ASSUME NEW r \in Ids, Refuse(r)
      PROVE  DeliveryInv' /\ \A t \in told' : IsSo(t)
  <2>1. /\ Get /\ generation' = generation /\ maker' = maker /\ keeper' = keeper /\ visit' = visit
        /\ told' = {[run |-> r, code |-> IF Found(r) THEN "no_project" ELSE "run_not_found"]}
        /\ Found(r) => StateOf(r) # "ready"
    BY <1>3 DEF Refuse, Told
  <2>2. StoreInv' /\ ReadyInv'
    BY <1>0, <2>1, Looks
  <2>3. VisitInv'
    BY <1>0, <2>1 DEF VisitInv, Delivered
  <2>4. ASSUME NEW t \in told'
        PROVE  IsSo(t)
    <3>1. t.run = r /\ t.code = IF Found(r) THEN "no_project" ELSE "run_not_found"
      BY <2>1
    <3>2. CASE Found(r)
      <4>1. PICK k \in 1..Len(store) : store[k].id = r /\ store[k].state = StateOf(r)
        BY <1>0, <3>2, Looked
      <4>2. t.code = "no_project" /\ (r = Project => ~Delivered)
        BY <1>0, <2>1, <3>1, <3>2, <4>1 DEF ReadyInv
      <4> QED
        BY <3>1, <4>2 DEF IsSo
    <3>3. CASE ~Found(r)
      <4>1. t.code = "run_not_found" /\ (since[r].put => Overdue(r))
        BY <1>0, <3>1, <3>3, NotFound
      <4> QED
        BY <3>1, <4>1 DEF IsSo
    <3> QED
      BY <3>2, <3>3
  <2> QED
    BY <2>2, <2>3, <2>4 DEF DeliveryInv
<1>4. ASSUME NEW i \in Instances, Open(i)
      PROVE  DeliveryInv' /\ \A t \in told' : IsSo(t)
  <2>1. /\ Get /\ generation' = generation /\ maker' = maker /\ keeper' = keeper
        /\ told' = {} /\ Found(Project) /\ StateOf(Project) = "ready"
    BY <1>4 DEF Open, Quiet
  <2>2. StoreInv' /\ ReadyInv'
    BY <1>0, <2>1, Looks
  <2>3. PICK k \in 1..Len(store) : store[k].id = Project /\ store[k].state = StateOf(Project)
    BY <1>0, <2>1, Looked
  <2>4. Delivered
    BY <1>0, <2>1, <2>3 DEF ReadyInv
  <2>5. VisitInv'
    BY <1>0, <2>1, <2>4 DEF VisitInv, Delivered
  <2> QED
    BY <2>1, <2>2, <2>5 DEF DeliveryInv
<1>5. CASE Answer
  <2>1. /\ visit # None /\ visit' = None
        /\ UNCHANGED <<store, generation, maker, keeper, since>>
    BY <1>5 DEF Answer
  <2>2. PICK answer \in {IF visit = keeper THEN "ok" ELSE "gone", "error"} :
           told' = {[run |-> Project, code |-> outcome(answer)]}
    BY <1>5 DEF Answer, Told
  <2>3. DeliveryInv'
    <3>1. StoreInv' /\ ReadyInv'
      BY <1>0, <2>1 DEF StoreInv, ReadyInv, Delivered
    <3>2. VisitInv'
      BY <1>0, <2>1 DEF VisitInv, Delivered
    <3> QED
      BY <3>1, <3>2 DEF DeliveryInv
  <2>4. ASSUME NEW t \in told'
        PROVE  IsSo(t)
    <3>1. t.code = outcome(answer) /\ Delivered
      BY <1>0, <2>1, <2>2 DEF VisitInv
    <3>2. CASE answer = "ok"
      <4>1. visit = keeper /\ keeper = maker
        BY <1>0, <2>1, <2>2, <3>2 DEF VisitInv
      <4>2. t.code = "project"
        BY <3>1, <3>2 DEF outcome
      <4> QED
        BY <3>1, <4>1, <4>2 DEF IsSo
    <3>3. CASE answer = "gone"
      <4>1. visit # keeper
        BY <2>2, <3>3
      <4>2. keeper = None \/ visit # maker
        BY <1>0, <4>1 DEF VisitInv
      <4>3. t.code = "gone"
        BY <3>1, <3>3 DEF outcome
      <4> QED
        BY <3>1, <4>2, <4>3 DEF IsSo
    <3>4. CASE answer = "error"
      <4>1. t.code = "upstream_failed"
        BY <3>1, <3>4 DEF outcome
      <4> QED
        BY <4>1 DEF IsSo
    <3> QED
      BY <2>2, <3>2, <3>3, <3>4
  <2> QED
    BY <2>3, <2>4
<1>6. CASE Forget
  <2>1. /\ keeper' = None /\ told' = {}
        /\ UNCHANGED <<store, generation, maker, visit, since>>
    BY <1>6 DEF Forget, Quiet
  <2>2. StoreInv' /\ ReadyInv'
    BY <1>0, <2>1 DEF StoreInv, ReadyInv, Delivered
  <2>3. VisitInv'
    BY <1>0, <2>1 DEF VisitInv, Delivered
  <2> QED
    BY <2>1, <2>2, <2>3 DEF DeliveryInv
<1>7. CASE Tick
  <2>1. told' = {} /\ maker' = maker /\ keeper' = keeper /\ visit' = visit
    BY <1>7 DEF Tick, Quiet
  <2>2. /\ StoreInv' /\ generation'.at = generation.at
        /\ Len(store') = Len(store)
        /\ \A k \in 1..Len(store) : /\ store'[k].id = store[k].id
                                    /\ store'[k].state = store[k].state
    BY <1>0, <1>7, TickStep
  <2>3. \A i \in 1..Len(store') :
           store'[i].id = Project => \E k \in 1..Len(store) : /\ store[k].id = Project
                                                              /\ store'[i].state = store[k].state
    <3>1. PICK t : t = store'
      OBVIOUS
    <3>2. ASSUME NEW i \in 1..Len(t), t[i].id = Project
          PROVE  i \in 1..Len(store) /\ store[i].id = Project /\ t[i].state = store[i].state
      BY <2>2, <3>1, <3>2
    <3> QED
      BY <3>1, <3>2
  <2>4. ReadyInv'
    BY <1>0, <2>2, <2>3, ReadyKept
  <2>5. VisitInv'
    BY <1>0, <2>1, <2>2 DEF VisitInv, Delivered
  <2> QED
    BY <2>1, <2>2, <2>4, <2>5 DEF DeliveryInv
<1> QED
  BY <1>1, <1>2, <1>3, <1>4, <1>5, <1>6, <1>7

\* The invariant is inductive, and no step tells a client what is not so.
LEMMA DeliveryStep ==
    ASSUME DeliveryInv, [DeliveryNext]_deliveryVars
    PROVE  DeliveryInv' /\ (DeliveryNext => \A t \in told' : IsSo(t))
<1>1. ASSUME \/ \E r \in Ids : Read(r) \/ ConsoleOff(r) \/ Refuse(r)
             \/ (\E i \in Instances : Open(i)) \/ Answer \/ Forget \/ Tick
      PROVE  DeliveryInv' /\ \A t \in told' : IsSo(t)
  BY <1>1, ComesBack
<1>2. ASSUME \/ \E r \in Ids, s \in States : Converse(r, s)
             \/ Generate \/ (\E i \in Instances, text \in Texts : Opened(i, text))
             \/ (\E n \in 1..MaxChunk : Passes(n))
             \/ Finish \/ Break \/ Charge \/ Die
      PROVE  DeliveryInv' /\ \A t \in told' : IsSo(t)
  BY <1>2, Generates
<1>3. CASE DeliveryNext
  BY <1>1, <1>2, <1>3 DEF DeliveryNext
<1>4. CASE ~DeliveryNext /\ UNCHANGED deliveryVars
  <2>1. UNCHANGED <<store, generation, maker, keeper, visit, since>>
    BY <1>4 DEF deliveryVars
  <2> QED
    BY <1>4, <2>1 DEF DeliveryInv, StoreInv, ReadyInv, VisitInv, Delivered
<1> QED
  BY <1>3, <1>4

\* The invariant holds in every state the store and the generation reach.
THEOREM DeliveryInvariant == DeliverySpec => []DeliveryInv
<1>1. DeliveryInit => DeliveryInv
  <2> SUFFICES ASSUME DeliveryInit
               PROVE  DeliveryInv
    OBVIOUS
  <2>1. /\ store = <<>> /\ generation = At("idle")
        /\ keeper = None /\ visit = None
        /\ since = [r \in Ids |-> [put |-> FALSE, age |-> 0, others |-> {}]]
    BY DEF DeliveryInit
  <2>2. generation \in Turns /\ 0 \in Ages
    BY <2>1, Places_of_generate
  <2>3. store \in Seq(Entries) /\ Len(store) = 0 /\ Len(store) <= MaxRuns
    BY <2>1, EmptySeq, RunStoreAssumption
  <2>4. since \in Histories /\ \A r \in Ids : IsFiniteSet(since[r].others) /\ ~since[r].put
    BY <2>1, <2>2, FS_EmptySet DEF Histories
  <2>5. Ordered(store, since) /\ Due(store, since)
    BY <2>3, <2>4 DEF Ordered, Due
  <2>6. ReadyInv /\ VisitInv
    BY <2>1, <2>3 DEF ReadyInv, VisitInv
  <2> QED
    BY <2>2, <2>3, <2>4, <2>5, <2>6 DEF DeliveryInv, StoreInv
<1>2. DeliveryInv /\ [DeliveryNext]_deliveryVars => DeliveryInv'
  BY DeliveryStep
<1> QED
  BY <1>1, <1>2, PTL DEF DeliverySpec

\* A run is only missing from the store when its hour is over or MAX_RUNS others were put
\* after it, whatever is put, read and generated in between, and the store never holds more
\* than MAX_RUNS, nor a run twice.
THEOREM Keeps == DeliverySpec => []KeptWhileDue
<1>1. DeliveryInv => KeptWhileDue
  BY DEF DeliveryInv, StoreInv, Ordered, Due, KeptWhileDue, Overdue
<1> QED
  BY <1>1, DeliveryInvariant, PTL

\* What read, open_download and open_console tell a client of a run and its project is so.
THEOREM Answers == DeliverySpec => AnswersAreTrue
<1>1. DeliveryInv /\ [DeliveryNext]_deliveryVars =>
        [\A t \in told' :
           LET r == t.run IN
           CASE t.code = "run_not_found" -> since[r].put => Overdue(r)
             [] t.code = "found"         -> since[r].put /\ since[r].age <= TTL
             [] t.code = "no_project"    -> r = Project => ~Delivered
             [] t.code = "gone"          -> Delivered /\ (keeper = None \/ visit # maker)
             [] t.code = "project"       -> Delivered /\ visit = maker
             [] OTHER                    -> TRUE]_deliveryVars
  <2> SUFFICES ASSUME DeliveryInv, DeliveryNext
               PROVE  \A t \in told' : IsSo(t)
    BY DEF IsSo
  <2> QED
    BY DeliveryStep
<1> QED
  BY <1>1, DeliveryInvariant, PTL DEF DeliverySpec, AnswersAreTrue

=============================================================================
