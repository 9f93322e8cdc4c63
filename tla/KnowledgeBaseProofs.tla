-------------------------- MODULE KnowledgeBaseProofs --------------------------
(***************************************************************************)
(* What a run of the script reports as indexed is stored whole, for any    *)
(* number of files, lengths and runs that overlap, and what a query found  *)
(* is answered, for any number of queries.  A run's rows are its own: what *)
(* is stored of the file at hand is what the run has gone through of the   *)
(* file's chunks, nothing is stored of a file still to do, and a file that *)
(* is indexed is not touched again.  Rows are never taken away.            *)
(***************************************************************************)
EXTENDS KnowledgeBase, FiniteSetTheorems, SequenceTheorems, TLAPS

\* Pieces cut one after the other from a text, none of them empty.
Chunked(c, f, size) ==
    /\ c \in Seq(Piece)
    /\ \A i \in 1..Len(c) : c[i][2] - c[i][1] \in 1..size /\ c[i][2] <= Length[f]
    /\ c # <<>> => c[1][1] = 0
    /\ \A i \in 2..Len(c) : c[i][1] = c[i - 1][2] - Overlap /\ c[i - 1][2] < Length[f]

\* Pieces that reach the end.
Whole(c, f, size) == Chunked(c, f, size) /\ c # <<>> /\ c[Len(c)][2] = Length[f]

RowOf(s, f, c, i) == [run |-> s, file |-> f, chunk |-> i, piece |-> c[i]]

\* The rows of the first n chunks.
RowsOf(s, f, c, n) == {RowOf(s, f, c, i) : i \in 1..n}

Running == {"files", "chunk", "store"}

\* Where run s is and what it has stored.
Reading(s) ==
    /\ At(s, "idle") => script[s].indexed = {} /\ \A f \in Files : Stored(s, f) = {}
    /\ script[s].pc \in Running =>
          /\ script[s].size \in ChunkSizes /\ script[s].todo \cap script[s].indexed = {}
          /\ \A f \in script[s].todo : Stored(s, f) = {}
    /\ script[s].pc \in {"idle", "files"} =>
          script[s].start = 0 /\ script[s].chunks = <<>> /\ script[s].next = 1
    /\ script[s].pc \in {"chunk", "store"} =>
          script[s].file \in Files \ (script[s].todo \cup script[s].indexed)

Chunking(s) ==
    LET c == script[s].chunks
        f == script[s].file
    IN  At(s, "chunk") =>
          /\ Stored(s, f) = {} /\ script[s].next = 1
          /\ Chunked(c, f, script[s].size) /\ script[s].size < Length[f]
          /\ script[s].start = IF c = <<>> THEN 0 ELSE c[Len(c)][2] - Overlap
          /\ c # <<>> => c[Len(c)][2] < Length[f]

Storing(s) ==
    LET c == script[s].chunks
        f == script[s].file
    IN  At(s, "store") =>
          /\ Whole(c, f, script[s].size) /\ script[s].next \in 1..Len(c)
          /\ Stored(s, f) = RowsOf(s, f, c, script[s].next - 1)

StoredWhole(s, f) ==
    \E c \in Seq(Piece) :
        Whole(c, f, script[s].size) /\ Stored(s, f) = RowsOf(s, f, c, Len(c))

Indexed(s) == \A f \in script[s].indexed : StoredWhole(s, f)

ScriptInv(s) == Reading(s) /\ Chunking(s) /\ Storing(s) /\ Indexed(s)

QueryInv(q) ==
    /\ query[q].pc \in {"idle", "retrieve"} => query[q].answer = 0
    /\ query[q].pc = "grade" => query[q].answer + query[q].left <= query[q].found
    /\ query[q].found > 0 => rows # {}
    /\ query[q].pc = "done" /\ query[q].found > 0 => query[q].answer > 0

IInv ==
    /\ TypeOK
    /\ IsFiniteSet(rows)
    /\ \A s \in Runs : ScriptInv(s)
    /\ \A q \in Queries : QueryInv(q)
-----------------------------------------------------------------------------
LEMMA InitIInv == Init => IInv
  <1> SUFFICES ASSUME Init PROVE IInv
    OBVIOUS
  <1> USE DEF Init
  <1>1. NotStarted \in Scripts /\ NotAsked \in Calls
    BY BoundAssumption DEF NotStarted, NotAsked, Scripts, Calls
  <1>2. TypeOK
    <2>1. \A s \in Runs : script[s] = NotStarted
      OBVIOUS
    <2> QED BY <1>1, <2>1 DEF TypeOK, NotStarted, NotAsked
  <1>3. IsFiniteSet(rows)
    BY FS_EmptySet
  <1>4. ASSUME NEW s \in Runs PROVE ScriptInv(s)
    <2>1. script[s] = NotStarted
      OBVIOUS
    <2>2. \A f : Stored(s, f) = {}
      BY DEF Stored
    <2> QED BY <2>1, <2>2
        DEF ScriptInv, Reading, Chunking, Storing, Indexed, NotStarted, Running, At
  <1>5. ASSUME NEW q \in Queries PROVE QueryInv(q)
    BY DEF QueryInv, NotAsked
  <1> QED BY <1>2, <1>3, <1>4, <1>5 DEF IInv

\* Files that are indexed stay so.
LEMMA IndexedKeep ==
    ASSUME IInv, NEW s \in Runs, NEW f \in script[s].indexed, Stored(s, f)' = Stored(s, f),
           script'[s].size = script[s].size
    PROVE  StoredWhole(s, f)'
  BY DEF IInv, ScriptInv, Indexed, StoredWhole, Whole, Chunked, RowsOf, RowOf

\* What other runs have stored is theirs.
LEMMA OthersKeep ==
    ASSUME IInv, NEW s \in Runs, NEW t \in Runs, script'[t] = script[t],
           \A f \in Files : Stored(t, f)' = Stored(t, f)
    PROVE  ScriptInv(t)'
  <1>1. ScriptInv(t) /\ script[t] \in Scripts
    BY DEF IInv, TypeOK
  <1>2. Reading(t)'
    BY <1>1 DEF ScriptInv, Reading, At, Scripts, Running
  <1>3. Chunking(t)'
    BY <1>1 DEF ScriptInv, Reading, Chunking, At, Chunked
  <1>4. Storing(t)'
    BY <1>1 DEF ScriptInv, Reading, Storing, At, Whole, Chunked, RowsOf, RowOf
  <1>5. Indexed(t)'
    BY <1>1, IndexedKeep DEF Indexed, Scripts
  <1> QED BY <1>2, <1>3, <1>4, <1>5 DEF ScriptInv

\* The row a run adds is of its file.
LEMMA AddedRow ==
    ASSUME IInv, NEW s \in Runs, At(s, "store"), rows' = rows \cup {Row(s)}
    PROVE  /\ Row(s) \in Rows
           /\ \A t, f : t # s \/ f # script[s].file => Stored(t, f)' = Stored(t, f)
           /\ \A f : f = script[s].file => Stored(s, f)' = Stored(s, f) \cup {Row(s)}
  <1>1. Row(s) \in Rows
    <2>1. script[s] \in Scripts /\ script[s].next \in DOMAIN script[s].chunks
      BY DEF IInv, TypeOK, At
    <2>2. script[s].file \in Files
      BY DEF IInv, ScriptInv, Reading, At
    <2>3. script[s].chunks[script[s].next] \in Piece
      BY <2>1 DEF Scripts
    <2> QED BY <2>1, <2>2, <2>3 DEF Row, Rows, Scripts
  <1>2. Row(s).run = s /\ Row(s).file = script[s].file
    BY DEF Row
  <1>3. ASSUME NEW t, NEW f, t # s \/ f # script[s].file
        PROVE  Stored(t, f)' = Stored(t, f)
    BY <1>2, <1>3 DEF Stored
  <1>4. ASSUME NEW f, f = script[s].file
        PROVE  Stored(s, f)' = Stored(s, f) \cup {Row(s)}
    BY <1>2, <1>4 DEF Stored
  <1> QED BY <1>1, <1>3, <1>4

\* A step of a run disturbs no other run and no query.
LEMMA RunStep ==
    ASSUME IInv, NEW s \in Runs, NEW new \in Scripts, Set(s, new), query' = query,
           \/ rows' = rows
           \/ At(s, "store") /\ rows' = rows \cup {Row(s)},
           ScriptInv(s)'
    PROVE  IInv'
  <1>1. script' \in [Runs -> Scripts] /\ script'[s] = new /\ \A t \in Runs \ {s} : script'[t] = script[t]
    BY DEF IInv, TypeOK, Set
  <1>2. rows \subseteq rows' /\ rows' \subseteq Rows /\ IsFiniteSet(rows')
    BY AddedRow, FS_AddElement DEF IInv, TypeOK
  <1>3. ASSUME NEW t \in Runs \ {s} PROVE ScriptInv(t)'
    <2>1. \A f \in Files : Stored(t, f)' = Stored(t, f)
      <3>1. CASE rows' = rows
        BY <3>1 DEF Stored
      <3>2. CASE At(s, "store") /\ rows' = rows \cup {Row(s)}
        BY <3>2, AddedRow
      <3> QED BY <3>1, <3>2
    <2> QED BY <1>1, <2>1, OthersKeep
  <1>4. \A t \in Runs : ScriptInv(t)'
    BY <1>3
  <1>5. TypeOK'
    <2>1. ASSUME NEW t \in Runs, script'[t].pc = "store"
          PROVE  script'[t].next \in DOMAIN script'[t].chunks
      BY <1>4, <2>1 DEF ScriptInv, Storing, At, Whole, Chunked
    <2> QED BY <1>1, <1>2, <2>1 DEF IInv, TypeOK
  <1>6. ASSUME NEW q \in Queries PROVE QueryInv(q)'
    BY <1>2 DEF IInv, QueryInv
  <1> QED BY <1>2, <1>4, <1>5, <1>6 DEF IInv

-----------------------------------------------------------------------------
(* The script.                                                             *)

\* What a run's script is, as the lemmas on its steps use it.
LEMMA Facts ==
    ASSUME IInv, NEW s \in Runs
    PROVE  script[s] \in Scripts /\ Reading(s) /\ Chunking(s) /\ Storing(s) /\ Indexed(s)
  BY DEF IInv, TypeOK, ScriptInv

LEMMA BeginIInv ==
    ASSUME IInv, NEW s \in Runs, NEW size \in ChunkSizes, Begin(s, size)
    PROVE  IInv'
  <1> DEFINE new == [script[s] EXCEPT !.pc = "files", !.size = size, !.todo = Files]
  <1>1. At(s, "idle") /\ Set(s, new) /\ rows' = rows /\ query' = query
    BY DEF Begin
  <1>2. script[s] \in Scripts /\ Reading(s)
    BY Facts
  <1>3. new \in Scripts
    BY <1>2 DEF Scripts
  <1>4. script'[s] = new
    BY <1>1 DEF Set, IInv, TypeOK
  <1>5. \A f : Stored(s, f)' = Stored(s, f)
    BY <1>1 DEF Stored
  <1>6. ScriptInv(s)'
    BY <1>1, <1>2, <1>4, <1>5
    DEF ScriptInv, Reading, Chunking, Storing, Indexed, At, Running, Scripts
  <1> QED BY <1>1, <1>3, <1>6, RunStep

LEMMA SkipFileIInv ==
    ASSUME IInv, NEW s \in Runs, NEW f \in Files, SkipFile(s, f)
    PROVE  IInv'
  <1> DEFINE new == [script[s] EXCEPT !.todo = @ \ {f}]
  <1>1. At(s, "files") /\ Set(s, new) /\ rows' = rows /\ query' = query
    BY DEF SkipFile
  <1>2. script[s] \in Scripts /\ Reading(s)
    BY Facts
  <1>3. new \in Scripts
    BY <1>2 DEF Scripts
  <1>4. script'[s] = new
    BY <1>1 DEF Set, IInv, TypeOK
  <1>5. \A g : Stored(s, g)' = Stored(s, g)
    BY <1>1 DEF Stored
  <1>6. Reading(s)' /\ Chunking(s)' /\ Storing(s)'
    BY <1>1, <1>2, <1>4, <1>5 DEF Reading, Chunking, Storing, At, Running, Scripts
  <1>7. Indexed(s)'
    BY <1>2, <1>4, <1>5, IndexedKeep DEF Indexed, Scripts
  <1> QED BY <1>1, <1>3, <1>6, <1>7, RunStep DEF ScriptInv

LEMMA FinishIInv ==
    ASSUME IInv, NEW s \in Runs, Finish(s)
    PROVE  IInv'
  <1> DEFINE new == [script[s] EXCEPT !.pc = "done"]
  <1>1. At(s, "files") /\ Set(s, new) /\ rows' = rows /\ query' = query
    BY DEF Finish
  <1>2. script[s] \in Scripts /\ Reading(s)
    BY Facts
  <1>3. new \in Scripts
    BY <1>2 DEF Scripts
  <1>4. script'[s] = new
    BY <1>1 DEF Set, IInv, TypeOK
  <1>5. \A g : Stored(s, g)' = Stored(s, g)
    BY <1>1 DEF Stored
  <1>6. Reading(s)' /\ Chunking(s)' /\ Storing(s)'
    BY <1>1, <1>2, <1>4, <1>5 DEF Reading, Chunking, Storing, At, Running, Scripts
  <1>7. Indexed(s)'
    BY <1>2, <1>4, <1>5, IndexedKeep DEF Indexed, Scripts
  <1> QED BY <1>1, <1>3, <1>6, <1>7, RunStep DEF ScriptInv

LEMMA KillIInv ==
    ASSUME IInv, NEW s \in Runs, Kill(s)
    PROVE  IInv'
  <1> DEFINE new == [NotStarted EXCEPT !.pc = "killed"]
  <1>1. Set(s, new) /\ rows' = rows /\ query' = query
    BY DEF Kill
  <1>2. new \in Scripts
    <2>1. NotStarted \in Scripts
      BY DEF Scripts, NotStarted
    <2> QED BY <2>1 DEF Scripts
  <1>3. script'[s] = new
    BY <1>1 DEF Set, IInv, TypeOK
  <1>4. ScriptInv(s)'
    BY <1>3 DEF ScriptInv, Reading, Chunking, Storing, Indexed, NotStarted, At, Running
  <1> QED BY <1>1, <1>2, <1>4, RunStep

LEMMA SizeIsNat ==
    ASSUME NEW size \in ChunkSizes
    PROVE  size \in Nat /\ size > 0 /\ size >= Overlap /\ Overlap \in Nat
  BY SizeAssumption

LEMMA ReadFileIInv ==
    ASSUME IInv, NEW s \in Runs, NEW f \in Files, ReadFile(s, f)
    PROVE  IInv'
  <1>1. /\ At(s, "files") /\ f \in script[s].todo /\ Length[f] > 0 /\ rows' = rows /\ query' = query
        /\ Length[f] \in Nat
    BY FileAssumption DEF ReadFile
  <1>2. script[s] \in Scripts /\ Reading(s) /\ script[s].size \in ChunkSizes
    BY <1>1, Facts DEF Reading, Running, At
  <1>3. \A g : Stored(s, g)' = Stored(s, g)
    BY <1>1 DEF Stored
  <1>4. Stored(s, f) = {} /\ f \notin script[s].indexed /\ f \notin script[s].todo \ {f}
        /\ script[s].chunks = <<>> /\ script[s].start = 0 /\ script[s].next = 1
    BY <1>1, <1>2 DEF Reading, Running, At
  <1>5. ASSUME NEW new \in Scripts, Set(s, new), new.pc \in {"chunk", "store"}, new.file = f,
               new.todo = script[s].todo \ {f}, new.size = script[s].size,
               new.indexed = script[s].indexed, Chunking(s)', Storing(s)'
        PROVE  IInv'
    <2>1. script'[s] = new
      BY <1>5 DEF Set, IInv, TypeOK
    <2>2. Reading(s)'
      BY <1>1, <1>2, <1>3, <1>4, <1>5, <2>1 DEF Reading, Running, At
    <2>3. Indexed(s)'
      BY <1>2, <1>3, <1>5, <2>1, IndexedKeep DEF Indexed, Scripts
    <2> QED BY <1>1, <1>5, <2>2, <2>3, RunStep DEF ScriptInv
  <1>6. CASE Length[f] <= script[s].size
    <2> DEFINE c == << <<0, Length[f]>> >>
               new == [script[s] EXCEPT !.pc = "store", !.file = f, !.todo = @ \ {f}, !.chunks = c]
    <2>1. Set(s, new)
      BY <1>6 DEF ReadFile
    <2>2. c \in Seq(Piece) /\ Len(c) = 1 /\ c[1] = <<0, Length[f]>> /\ c # <<>>
      BY <1>1 DEF Piece
    <2>3. Whole(c, f, script[s].size)
      BY <1>1, <1>2, <1>6, <2>2, SizeIsNat DEF Whole, Chunked
    <2> HIDE DEF c
    <2>4. new \in Scripts
      BY <1>2, <2>2 DEF Scripts
    <2>5. script'[s] = new
      BY <2>1 DEF Set, IInv, TypeOK
    <2>6. Storing(s)' /\ Chunking(s)'
      <3>1. RowsOf(s, f, c, 0) = {}
        BY DEF RowsOf
      <3>2. /\ script'[s].pc = "store" /\ script'[s].file = f /\ script'[s].chunks = c
            /\ script'[s].size = script[s].size /\ script'[s].next = 1
        BY <1>2, <1>4, <2>5 DEF Scripts
      <3>3. 1 \in 1..Len(c) /\ script'[s].next - 1 = 0
        BY <2>2, <3>2
      <3>4. Stored(s, f)' = RowsOf(s, f, c, 0)
        BY <1>3, <1>4, <3>1
      <3>5. Storing(s)'
        BY <2>3, <3>2, <3>3, <3>4 DEF Storing
      <3> QED BY <3>2, <3>5 DEF Chunking, At
    <2> QED BY <1>2, <1>5, <2>1, <2>4, <2>6 DEF Scripts
  <1>7. CASE Length[f] > script[s].size
    <2> DEFINE new == [script[s] EXCEPT !.pc = "chunk", !.file = f, !.todo = @ \ {f}]
    <2>1. Set(s, new)
      BY <1>1, <1>2, <1>7, SizeIsNat DEF ReadFile
    <2>2. new \in Scripts
      BY <1>2 DEF Scripts
    <2>3. script'[s] = new
      BY <2>1 DEF Set, IInv, TypeOK
    <2>4. Chunked(<<>>, f, script[s].size)
      BY DEF Chunked
    <2>5. Storing(s)' /\ Chunking(s)'
      BY <1>2, <1>3, <1>4, <1>7, <2>3, <2>4 DEF Storing, Chunking, At, Scripts
    <2> QED BY <1>2, <1>5, <2>1, <2>2, <2>5 DEF Scripts
  <1>8. script[s].size \in Nat
    BY <1>2, SizeIsNat
  <1> QED BY <1>1, <1>6, <1>7, <1>8

\* One piece more.
LEMMA ChunkedAppend ==
    ASSUME NEW c, NEW f, NEW size, Chunked(c, f, size), NEW from \in Nat, NEW to \in Nat,
           to - from \in 1..size, to <= Length[f],
           IF c = <<>> THEN from = 0
                       ELSE from = c[Len(c)][2] - Overlap /\ c[Len(c)][2] < Length[f]
    PROVE  /\ Chunked(Append(c, <<from, to>>), f, size)
           /\ Append(c, <<from, to>>) # <<>>
           /\ Append(c, <<from, to>>)[Len(Append(c, <<from, to>>))] = <<from, to>>
  <1> DEFINE p == <<from, to>>
             d == Append(c, p)
  <1>1. c \in Seq(Piece) /\ p \in Piece /\ p[1] = from /\ p[2] = to
    BY DEF Chunked, Piece
  <1> HIDE DEF p
  <1>2. /\ d \in Seq(Piece) /\ Len(d) = Len(c) + 1 /\ d[Len(c) + 1] = p /\ d # <<>>
        /\ \A i \in 1..Len(c) : d[i] = c[i]
    BY <1>1, AppendProperties
  <1> HIDE DEF d
  <1>3. Len(c) \in Nat /\ (c = <<>> <=> Len(c) = 0)
    BY <1>1
  <1>4. ASSUME NEW i \in 1..Len(d)
        PROVE  d[i][2] - d[i][1] \in 1..size /\ d[i][2] <= Length[f]
    <2>1. CASE i = Len(c) + 1
      BY <1>1, <1>2, <2>1
    <2>2. CASE i \in 1..Len(c)
      BY <1>2, <2>2 DEF Chunked
    <2> QED BY <1>2, <1>3, <2>1, <2>2
  <1>5. d[1][1] = 0
    <2>1. CASE c = <<>>
      BY <1>1, <1>2, <1>3, <2>1
    <2>2. CASE c # <<>>
      BY <1>2, <1>3, <2>2 DEF Chunked
    <2> QED BY <2>1, <2>2
  <1>6. ASSUME NEW i \in 2..Len(d)
        PROVE  d[i][1] = d[i - 1][2] - Overlap /\ d[i - 1][2] < Length[f]
    <2>1. CASE i = Len(c) + 1
      BY <1>1, <1>2, <1>3, <2>1
    <2>2. CASE i \in 2..Len(c)
      <3>1. i \in 1..Len(c) /\ i - 1 \in 1..Len(c)
        BY <1>3, <2>2
      <3>2. d[i] = c[i] /\ d[i - 1] = c[i - 1]
        BY <1>2, <3>1
      <3> QED BY <2>2, <3>2 DEF Chunked
    <2> QED BY <1>2, <1>3, <2>1, <2>2
  <1> QED BY <1>2, <1>4, <1>5, <1>6 DEF Chunked, d, p

LEMMA NextChunkIInv ==
    ASSUME IInv, NEW s \in Runs, NextChunk(s)
    PROVE  IInv'
  <1> DEFINE f == script[s].file
             size == script[s].size
             start == script[s].start
             end == IF start + size < Length[f] THEN start + size ELSE Length[f]
             c == script[s].chunks
             d == Append(c, <<start, end>>)
  <1>1. /\ At(s, "chunk") /\ rows' = rows /\ query' = query
        /\ IF end = Length[f]
           THEN Set(s, [script[s] EXCEPT !.chunks = d, !.pc = "store"])
           ELSE Set(s, [script[s] EXCEPT !.chunks = d, !.start = start + (size - Overlap)])
    BY DEF NextChunk, Round
  <1>2. script[s] \in Scripts /\ Reading(s) /\ size \in ChunkSizes /\ f \in Files
    BY <1>1, Facts DEF Reading, Running, At
  <1>3. /\ Stored(s, f) = {} /\ script[s].next = 1 /\ Chunked(c, f, size) /\ size < Length[f]
        /\ start = IF c = <<>> THEN 0 ELSE c[Len(c)][2] - Overlap
        /\ c # <<>> => c[Len(c)][2] < Length[f]
    BY <1>1, Facts DEF Chunking
  <1>4. size \in Nat /\ size > 0 /\ size >= Overlap /\ Overlap \in Nat /\ start \in Nat
        /\ Length[f] \in Nat
    BY <1>2, SizeIsNat, FileAssumption DEF Scripts
  <1>5. start < Length[f]
    <2>1. CASE c = <<>>
      BY <1>3, <1>4, <2>1
    <2>2. CASE c # <<>>
      <3>1. c[Len(c)][2] \in Nat
        BY <1>2, <2>2 DEF Scripts, Piece
      <3> QED BY <1>3, <1>4, <2>2, <3>1
    <2> QED BY <2>1, <2>2
  <1>6. end \in Nat /\ end - start \in 1..size /\ end <= Length[f]
    BY <1>4, <1>5
  <1>7. Chunked(d, f, size) /\ d # <<>> /\ d[Len(d)] = <<start, end>>
    <2> HIDE DEF end
    <2>1. IF c = <<>> THEN start = 0
                      ELSE start = c[Len(c)][2] - Overlap /\ c[Len(c)][2] < Length[f]
      BY <1>3
    <2> QED BY <1>3, <1>4, <1>6, <2>1, ChunkedAppend
  <1>8. d \in Seq(Piece) /\ d[Len(d)][2] = end /\ Len(d) \in Nat \ {0} /\ 1 \in 1..Len(d)
    BY <1>7 DEF Chunked
  <1>9. \A g : Stored(s, g)' = Stored(s, g)
    BY <1>1 DEF Stored
  <1> HIDE DEF d
  <1>10. ASSUME NEW new \in Scripts, Set(s, new), new.pc \in {"chunk", "store"}, new.file = f,
                new.todo = script[s].todo, new.size = size, new.indexed = script[s].indexed,
                Chunking(s)', Storing(s)'
         PROVE  IInv'
    <2>1. script'[s] = new
      BY <1>10 DEF Set, IInv, TypeOK
    <2>2. Reading(s)'
      BY <1>1, <1>2, <1>9, <1>10, <2>1 DEF Reading, Running, At
    <2>3. Indexed(s)'
      BY <1>2, <1>9, <1>10, <2>1, IndexedKeep DEF Indexed, Scripts
    <2> QED BY <1>1, <1>10, <2>2, <2>3, RunStep DEF ScriptInv
  <1>11. CASE end = Length[f]
    <2> DEFINE new == [script[s] EXCEPT !.chunks = d, !.pc = "store"]
    <2>1. Set(s, new) /\ new \in Scripts
      BY <1>1, <1>2, <1>8, <1>11 DEF Scripts
    <2>2. script'[s] = new
      BY <2>1 DEF Set, IInv, TypeOK
    <2>3. Whole(d, f, size)
      BY <1>7, <1>8, <1>11 DEF Whole
    <2>4. RowsOf(s, f, d, 0) = {}
      BY DEF RowsOf
    <2>5. Storing(s)' /\ Chunking(s)'
      <3>1. /\ script'[s].pc = "store" /\ script'[s].file = f /\ script'[s].chunks = d
            /\ script'[s].size = size /\ script'[s].next = 1
        BY <1>2, <1>3, <2>2 DEF Scripts
      <3>2. 1 \in 1..Len(d) /\ script'[s].next - 1 = 0
        BY <1>8, <3>1
      <3>3. Stored(s, f)' = RowsOf(s, f, d, 0)
        <4>1. ASSUME NEW g, g = f PROVE Stored(s, g)' = RowsOf(s, g, d, 0)
          BY <1>3, <1>9, <2>4, <4>1
        <4> QED BY <3>1, <4>1
      <3>4. Storing(s)'
        BY <2>3, <3>1, <3>2, <3>3 DEF Storing
      <3> QED BY <3>1, <3>4 DEF Chunking, At
    <2> QED BY <1>2, <1>10, <2>1, <2>5 DEF Scripts
  <1>12. CASE end # Length[f]
    <2> DEFINE new == [script[s] EXCEPT !.chunks = d, !.start = start + (size - Overlap)]
    <2>1. Set(s, new) /\ new \in Scripts
      <3>1. start + (size - Overlap) \in Nat
        BY <1>4
      <3> QED BY <1>1, <1>2, <1>8, <1>12, <3>1 DEF Scripts
    <2>2. script'[s] = new
      BY <2>1 DEF Set, IInv, TypeOK
    <2>3. end = start + size /\ end < Length[f]
      BY <1>4, <1>12
    <2>4. start + (size - Overlap) = end - Overlap
      BY <1>4, <2>3
    <2>5. Storing(s)' /\ Chunking(s)'
      BY <1>1, <1>2, <1>3, <1>7, <1>8, <1>9, <2>2, <2>3, <2>4 DEF Storing, Chunking, At, Scripts
    <2> QED BY <1>1, <1>2, <1>10, <2>1, <2>5 DEF Scripts, At
  <1> QED BY <1>11, <1>12

\* The row of the next chunk is the next row.
LEMMA StoredNext ==
    ASSUME IInv, NEW s \in Runs, At(s, "store"), rows' = rows \cup {Row(s)},
           NEW f, f = script[s].file
    PROVE  Stored(s, f)' = RowsOf(s, f, script[s].chunks, script[s].next)
  <1> DEFINE c == script[s].chunks
             n == script[s].next
  <1>1. n \in Nat \ {0} /\ Stored(s, f) = RowsOf(s, f, c, n - 1)
    BY Facts DEF Storing, Scripts
  <1>2. Row(s) = RowOf(s, f, c, n)
    BY DEF Row, RowOf
  <1>3. 1..n = 1..(n - 1) \cup {n}
    BY <1>1
  <1>4. RowsOf(s, f, c, n) = RowsOf(s, f, c, n - 1) \cup {RowOf(s, f, c, n)}
    BY <1>3 DEF RowsOf
  <1> QED BY <1>1, <1>2, <1>4, AddedRow

\* The next file: what was indexed is, and so is this one if it is done.
LEMMA NextFileIInv ==
    ASSUME IInv, NEW s \in Runs, NEW done, done \subseteq Files, At(s, "store"), query' = query,
           NextFile(s, done), rows' \in {rows, rows \cup {Row(s)}},
           \A f \in done : f = script[s].file /\ StoredWhole(s, f)'
    PROVE  IInv'
  <1> DEFINE new == [script[s] EXCEPT !.pc = "files", !.file = NoFile, !.start = 0, !.chunks = <<>>,
                                      !.next = 1, !.indexed = @ \cup done]
  <1>1. Set(s, new)
    BY DEF NextFile
  <1>2. script[s] \in Scripts /\ Reading(s)
    BY Facts
  <1>3. new \in Scripts
    <2> DEFINE empty == <<>>
               all == script[s].indexed \cup done
               mid == [script[s] EXCEPT !.pc = "files", !.file = NoFile, !.start = 0, !.chunks = empty]
    <2>1. all \in SUBSET Files /\ empty \in Seq(Piece)
      BY <1>2 DEF Scripts
    <2> HIDE DEF empty, all
    <2>2. mid \in Scripts
      BY <1>2, <2>1 DEF Scripts
    <2>3. new = [mid EXCEPT !.next = 1, !.indexed = all]
      BY DEF empty, all
    <2> HIDE DEF mid, new
    <2>4. [mid EXCEPT !.next = 1] \in Scripts
      BY <2>2 DEF Scripts
    <2>5. [mid EXCEPT !.next = 1, !.indexed = all] \in Scripts
      BY <2>1, <2>4 DEF Scripts
    <2> QED BY <2>3, <2>5
  <1>4. script'[s] = new
    BY <1>1 DEF Set, IInv, TypeOK
  <1>5. \A f : f # script[s].file => Stored(s, f)' = Stored(s, f)
    BY AddedRow DEF Stored
  <1>6. script[s].file \notin script[s].todo \cup script[s].indexed
    BY <1>2 DEF Reading, At
  <1>7. /\ script'[s].pc = "files" /\ script'[s].start = 0 /\ script'[s].chunks = <<>>
        /\ script'[s].next = 1 /\ script'[s].indexed = script[s].indexed \cup done
        /\ script'[s].todo = script[s].todo /\ script'[s].size = script[s].size
    BY <1>2, <1>4 DEF Scripts
  <1>8. Reading(s)'
    <2>1. script[s].size \in ChunkSizes /\ script[s].todo \cap script[s].indexed = {}
          /\ \A f \in script[s].todo : Stored(s, f) = {}
      BY <1>2 DEF Reading, At, Running
    <2> QED BY <1>5, <1>6, <1>7, <2>1 DEF Reading, At, Running
  <1>9. Chunking(s)' /\ Storing(s)'
    BY <1>7 DEF Chunking, Storing, At
  <1>10. Indexed(s)'
    <2>1. ASSUME NEW f \in script[s].indexed PROVE StoredWhole(s, f)'
      BY <1>5, <1>6, <1>7, IndexedKeep
    <2> QED BY <1>7, <2>1 DEF Indexed
  <1> QED BY <1>1, <1>3, <1>8, <1>9, <1>10, RunStep DEF ScriptInv

LEMMA StoreIInv ==
    ASSUME IInv, NEW s \in Runs, Store(s)
    PROVE  IInv'
  <1> DEFINE c == script[s].chunks
             n == script[s].next
             file == script[s].file
             size == script[s].size
  <1>1. At(s, "store") /\ rows' = rows \cup {Row(s)} /\ query' = query
    BY DEF Store
  <1>2. /\ script[s] \in Scripts /\ Reading(s) /\ Whole(c, file, size) /\ n \in 1..Len(c)
        /\ file \in Files \ (script[s].todo \cup script[s].indexed)
    BY <1>1, Facts DEF Storing, Reading, At
  <1>3. ASSUME NEW f, f = file PROVE Stored(s, f)' = RowsOf(s, f, c, n)
    BY <1>1, <1>3, StoredNext
  <1>4. CASE n = Len(c)
    <2>1. NextFile(s, {file})
      BY <1>4 DEF Store
    <2>2. script'[s].size = size
      BY <1>2, <2>1 DEF NextFile, Set, Scripts, IInv, TypeOK
    <2>3. ASSUME NEW f, f = file PROVE StoredWhole(s, f)'
      <3>1. c \in Seq(Piece) /\ Whole(c, f, size) /\ Stored(s, f)' = RowsOf(s, f, c, Len(c))
        BY <1>2, <1>3, <1>4, <2>3 DEF Scripts
      <3> QED BY <2>2, <3>1 DEF StoredWhole, Whole, Chunked, RowsOf, RowOf
    <2> QED BY <1>1, <1>2, <2>1, <2>3, NextFileIInv
  <1>5. CASE n # Len(c)
    <2> DEFINE new == [script[s] EXCEPT !.next = @ + 1]
    <2>1. Set(s, new)
      BY <1>5 DEF Store
    <2>2. new \in Scripts
      <3>1. n + 1 \in Nat \ {0}
        BY <1>2 DEF Scripts
      <3> QED BY <1>2, <3>1 DEF Scripts
    <2>3. script'[s] = new
      BY <2>1 DEF Set, IInv, TypeOK
    <2>4. /\ script'[s].pc = "store" /\ script'[s].file = file /\ script'[s].chunks = c
          /\ script'[s].size = size /\ script'[s].next = n + 1 /\ script'[s].todo = script[s].todo
          /\ script'[s].indexed = script[s].indexed
      BY <1>1, <1>2, <2>3 DEF Scripts, At
    <2>5. \A f : f # file => Stored(s, f)' = Stored(s, f)
      BY <1>1, AddedRow
    <2>6. Reading(s)'
      <3>1. size \in ChunkSizes /\ script[s].todo \cap script[s].indexed = {}
            /\ \A f \in script[s].todo : Stored(s, f) = {}
        BY <1>1, <1>2 DEF Reading, At, Running
      <3> QED BY <1>2, <2>4, <2>5, <3>1 DEF Reading, At, Running
    <2>7. Storing(s)'
      <3>1. n + 1 \in 1..Len(c) /\ (n + 1) - 1 = n
        <4>1. Len(c) \in Nat
          BY <1>2 DEF Scripts
        <4> QED BY <1>2, <1>5, <4>1
      <3>2. ASSUME NEW f, f = file PROVE Stored(s, f)' = RowsOf(s, f, c, (n + 1) - 1)
        BY <1>3, <3>1, <3>2
      <3>3. ASSUME NEW f, f = file PROVE Whole(c, f, size)
        BY <1>2, <3>3
      <3> HIDE DEF c, n, file, size
      <3> QED BY <2>4, <3>1, <3>2, <3>3 DEF Storing
    <2>8. Chunking(s)'
      BY <2>4 DEF Chunking, At
    <2>9. Indexed(s)'
      <3>1. ASSUME NEW f \in script[s].indexed PROVE StoredWhole(s, f)'
        BY <1>2, <2>4, <2>5, IndexedKeep
      <3> QED BY <2>4, <3>1 DEF Indexed
    <2> QED BY <1>1, <2>1, <2>2, <2>6, <2>7, <2>8, <2>9, RunStep DEF ScriptInv
  <1> QED BY <1>4, <1>5

LEMMA StoreFailsIInv ==
    ASSUME IInv, NEW s \in Runs, StoreFails(s)
    PROVE  IInv'
  BY NextFileIInv DEF StoreFails

-----------------------------------------------------------------------------
(* Queries.                                                                *)

\* A step of a query disturbs no script and no other query.
LEMMA CallStep ==
    ASSUME IInv, NEW q \in Queries, NEW new \in Calls, Turn(q, new),
           new.left <= new.found, QueryInv(q)'
    PROVE  IInv'
  <1>1. /\ rows' = rows /\ script' = script /\ query' \in [Queries -> Calls] /\ query'[q] = new
        /\ \A p \in Queries \ {q} : query'[p] = query[p]
    BY DEF Turn, IInv, TypeOK
  <1>2. TypeOK'
    BY <1>1 DEF IInv, TypeOK
  <1>3. ASSUME NEW s \in Runs PROVE ScriptInv(s)'
    BY <1>1, <1>3, OthersKeep DEF Stored
  <1>4. ASSUME NEW p \in Queries PROVE QueryInv(p)'
    BY <1>1 DEF IInv, QueryInv
  <1> QED BY <1>1, <1>2, <1>3, <1>4 DEF IInv

LEMMA NearestIsSome == ASSUME IInv PROVE Nearest \in 0..K /\ (rows # {} => Nearest > 0)
  <1>1. Cardinality(rows) \in Nat /\ (rows # {} => Cardinality(rows) > 0)
    BY FS_CardinalityType, FS_EmptySet DEF IInv
  <1> QED BY <1>1, BoundAssumption DEF Nearest

LEMMA QueryStepIInv ==
    ASSUME IInv, NEW q \in Queries, Ask(q) \/ QueryStep(q)
    PROVE  IInv'
  <1>1. /\ query[q] \in Calls /\ QueryInv(q) /\ query[q].left <= query[q].found
        /\ rows' = rows /\ query \in [Queries -> Calls]
    BY DEF IInv, TypeOK, Ask, QueryStep, Retrieve, Grade, Graded, Rewrite, RetrieveAgain, QueryFails,
           Turn
  <1>2. ASSUME NEW pc \in {"retrieve", "again", "failed"}, Turn(q, [query[q] EXCEPT !.pc = pc]),
               pc = "retrieve" => query[q].pc = "idle"
        PROVE  IInv'
    <2> DEFINE new == [query[q] EXCEPT !.pc = pc]
    <2>1. new \in Calls /\ new.left <= new.found /\ query'[q] = new
      BY <1>1, <1>2 DEF Calls, Turn
    <2>2. QueryInv(q)'
      BY <1>1, <1>2, <2>1 DEF QueryInv, Calls
    <2> QED BY <1>2, <2>1, <2>2, CallStep
  <1>3. CASE Ask(q) \/ Rewrite(q) \/ QueryFails(q)
    BY <1>2, <1>3 DEF Ask, Rewrite, QueryFails
  <1>4. CASE Retrieve(q)
    <2> DEFINE new == [query[q] EXCEPT !.pc = "grade", !.found = Nearest, !.left = Nearest]
    <2>1. Nearest \in 0..K /\ (Nearest > 0 => rows # {})
      BY NearestIsSome, FS_EmptySet DEF Nearest
    <2>2. new \in Calls /\ new.left <= new.found /\ query'[q] = new
      <3>1. new \in Calls /\ new.left = Nearest /\ new.found = Nearest
        BY <1>1, <2>1 DEF Calls
      <3> HIDE DEF new
      <3> QED BY <1>1, <1>4, <2>1, <3>1 DEF Turn, Retrieve, new
    <2>3. QueryInv(q)'
      BY <1>1, <1>4, <2>1, <2>2 DEF QueryInv, Calls, Retrieve
    <2> QED BY <1>4, <2>2, <2>3, CallStep DEF Retrieve
  <1>5. CASE Grade(q)
    <2>1. PICK passing \in {0, 1} :
            Turn(q, [query[q] EXCEPT !.left = @ - 1, !.answer = @ + passing])
      BY <1>5 DEF Grade
    <2> DEFINE new == [query[q] EXCEPT !.left = @ - 1, !.answer = @ + passing]
    <2>2. /\ query[q].pc = "grade" /\ query[q].left \in 0..K /\ query[q].left > 0
          /\ query[q].found \in 0..K /\ query[q].answer \in 0..K
          /\ query[q].answer + query[q].left <= query[q].found
      BY <1>1, <1>5 DEF Grade, QueryInv, Calls
    <2>3. query[q].left - 1 \in 0..K /\ query[q].answer + passing \in 0..K
      BY <2>2, BoundAssumption
    <2>4. new \in Calls /\ query'[q] = new
      BY <1>1, <2>1, <2>3 DEF Calls, Turn
    <2>5. new.left <= new.found
      BY <1>1, <2>2 DEF Calls
    <2>6. QueryInv(q)'
      BY <1>1, <2>2, <2>4, BoundAssumption DEF QueryInv, Calls
    <2> QED BY <2>1, <2>4, <2>5, <2>6, CallStep
  <1>6. CASE Graded(q)
    <2> DEFINE new == [query[q] EXCEPT !.pc = IF query[q].answer = 0 THEN "rewrite" ELSE "done"]
    <2>1. new \in Calls /\ new.left <= new.found /\ query'[q] = new
      BY <1>1, <1>6 DEF Calls, Turn, Graded
    <2>2. QueryInv(q)'
      BY <1>1, <1>6, <2>1 DEF QueryInv, Calls, Graded
    <2> QED BY <1>6, <2>1, <2>2, CallStep DEF Graded
  <1>7. CASE RetrieveAgain(q)
    <2> DEFINE new == [query[q] EXCEPT !.pc = "done", !.answer = Nearest]
    <2>1. new \in Calls /\ new.left <= new.found /\ query'[q] = new
      BY <1>1, <1>7, NearestIsSome DEF Calls, Turn, RetrieveAgain
    <2>2. QueryInv(q)'
      BY <1>1, <2>1, NearestIsSome DEF QueryInv, Calls
    <2> QED BY <1>7, <2>1, <2>2, CallStep DEF RetrieveAgain
  <1> QED BY <1>3, <1>4, <1>5, <1>6, <1>7 DEF QueryStep

-----------------------------------------------------------------------------
LEMMA StutterIInv == ASSUME IInv, UNCHANGED vars PROVE IInv'
  <1> USE DEF vars
  <1>1. TypeOK'
    BY DEF IInv, TypeOK
  <1>2. ASSUME NEW s \in Runs PROVE ScriptInv(s)'
    BY <1>2, OthersKeep DEF Stored
  <1>3. ASSUME NEW q \in Queries PROVE QueryInv(q)'
    BY DEF IInv, QueryInv
  <1> QED BY <1>1, <1>2, <1>3 DEF IInv

LEMMA NextIInv == IInv /\ [Next]_vars => IInv'
  BY BeginIInv, SkipFileIInv, ReadFileIInv, NextChunkIInv, StoreIInv, StoreFailsIInv, FinishIInv,
     KillIInv, QueryStepIInv, StutterIInv
  DEF Next, ScriptStep

LEMMA Invariance == Spec => []IInv
  BY InitIInv, NextIInv, PTL DEF Spec

\* Rows, runs and queries have their types, and a run that stores has a chunk
\* to store (index_knowledge_base.py:65, long_term.py:33).
THEOREM TypeCorrect == Spec => []TypeOK
  <1>1. IInv => TypeOK
    BY DEF IInv
  <1> QED BY <1>1, Invariance, PTL

\* The rows of the chunks of a text are as many as the chunks, and the row of
\* each is found by its number.
LEMMA RowsOfWhole ==
    ASSUME NEW s, NEW f, NEW c \in Seq(Piece), NEW stored, stored = RowsOf(s, f, c, Len(c))
    PROVE  /\ Cardinality(stored) = Len(c)
           /\ {row.chunk : row \in stored} = 1..Len(c)
           /\ \A i \in 1..Len(c) : (CHOOSE row \in stored : row.chunk = i).piece = c[i]
  <1> DEFINE n == Len(c)
             row(i) == RowOf(s, f, c, i)
             g == [i \in 1..n |-> row(i)]
  <1>1. n \in Nat
    OBVIOUS
  <1>2. \A i : row(i).chunk = i /\ row(i).piece = c[i]
    BY DEF RowOf
  <1>3. stored = {row(i) : i \in 1..n}
    BY DEF RowsOf
  <1> HIDE DEF row, n
  <1>4. Cardinality(stored) = n
    <2>1. g \in Bijection(1..n, stored)
      <3>1. g \in [1..n -> stored]
        BY <1>3
      <3>2. \A i, j \in 1..n : g[i] = g[j] => i = j
        BY <1>2
      <3>3. \A r \in stored : \E i \in 1..n : g[i] = r
        BY <1>3
      <3> QED BY <3>1, <3>2, <3>3 DEF Bijection, Injection, Surjection, IsInjective
    <2>2. ExistsBijection(1..n, stored)
      BY <2>1 DEF ExistsBijection
    <2> QED BY <1>1, <2>2, FS_CountingElements
  <1>5. {r.chunk : r \in stored} = 1..n
    BY <1>2, <1>3
  <1>6. ASSUME NEW i \in 1..n
        PROVE  (CHOOSE r \in stored : r.chunk = i).piece = c[i]
    <2>1. row(i) \in stored /\ row(i).chunk = i
      BY <1>2, <1>3
    <2>2. \A r \in stored : r.chunk = i => r = row(i)
      BY <1>2, <1>3
    <2>3. (CHOOSE r \in stored : r.chunk = i) = row(i)
      BY <2>1, <2>2
    <2> QED BY <1>2, <2>3
  <1> QED BY <1>4, <1>5, <1>6 DEF n

\* What a run reports as indexed is stored whole, chunk by chunk, whatever
\* failed, was killed or ran beside it (index_knowledge_base.py:20-77).
THEOREM IndexedIsWholeCorrect == Spec => []IndexedIsWhole
  <1>1. IInv => IndexedIsWhole
    <2> SUFFICES ASSUME IInv, NEW s \in Runs, NEW f \in script[s].indexed
                 PROVE  LET stored == Stored(s, f)
                            last == Cardinality(stored)
                            piece(i) == (CHOOSE row \in stored : row.chunk = i).piece
                        IN  /\ stored # {} /\ {row.chunk : row \in stored} = 1..last
                            /\ piece(1)[1] = 0 /\ piece(last)[2] = Length[f]
                            /\ \A i \in 1..last : piece(i)[2] - piece(i)[1] \in 1..script[s].size
                            /\ \A i \in 2..last : /\ piece(i)[1] = piece(i - 1)[2] - Overlap
                                                  /\ piece(i - 1)[2] < Length[f]
      BY DEF IndexedIsWhole
    <2> DEFINE stored == Stored(s, f)
               last == Cardinality(stored)
               piece(i) == (CHOOSE row \in stored : row.chunk = i).piece
    <2>1. PICK c \in Seq(Piece) : Whole(c, f, script[s].size) /\ stored = RowsOf(s, f, c, Len(c))
      BY Facts DEF Indexed, StoredWhole
    <2>2. /\ last = Len(c) /\ {row.chunk : row \in stored} = 1..Len(c)
          /\ \A i \in 1..Len(c) : piece(i) = c[i]
      BY <2>1, RowsOfWhole
    <2>3. Len(c) \in Nat \ {0} /\ 1 \in 1..Len(c) /\ Len(c) \in 1..Len(c)
      BY <2>1 DEF Whole
    <2>4. stored # {}
      BY <2>1, <2>3 DEF RowsOf
    <2> HIDE DEF stored, last, piece
    <2>5. piece(1)[1] = 0 /\ piece(last)[2] = Length[f]
      BY <2>1, <2>2, <2>3 DEF Whole, Chunked
    <2>6. \A i \in 1..last : piece(i)[2] - piece(i)[1] \in 1..script[s].size
      BY <2>1, <2>2 DEF Whole, Chunked
    <2>7. ASSUME NEW i \in 2..last
          PROVE  piece(i)[1] = piece(i - 1)[2] - Overlap /\ piece(i - 1)[2] < Length[f]
      <3>1. i \in 1..Len(c) /\ i - 1 \in 1..Len(c)
        BY <2>2, <2>3
      <3> QED BY <2>1, <2>2, <3>1 DEF Whole, Chunked
    <2> QED BY <2>2, <2>4, <2>5, <2>6, <2>7 DEF stored, last, piece
  <1> QED BY <1>1, Invariance, PTL

\* A query that found a row is answered with one: rows are not taken away, so
\* the search after the rewriting finds one again (long_term.py:97-113).
THEOREM FoundIsAnsweredCorrect == Spec => []FoundIsAnswered
  <1>1. IInv => FoundIsAnswered
    BY DEF IInv, QueryInv, FoundIsAnswered
  <1> QED BY <1>1, Invariance, PTL
=============================================================================
