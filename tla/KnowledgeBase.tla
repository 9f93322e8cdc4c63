----------------------------- MODULE KnowledgeBase -----------------------------
(***************************************************************************)
(* The personal knowledge base: the script that fills the documents table  *)
(* from files, chunk by chunk, and the corrective RAG of LongTermMemory    *)
(* that reads it meanwhile.  Every run of the script adds rows of its own; *)
(* nothing updates or deletes any.  Which rows are nearest to a query, and *)
(* what the model says of one, is anybody's choice, so that documents are  *)
(* only counted.                                                           *)
(***************************************************************************)
EXTENDS Integers, FiniteSets, Sequences

CONSTANTS
    Files,
    Length,         \* Length[f]: characters of f, stripped
    Runs,           \* runs of the script, which may overlap
    ChunkSizes,     \* what --chunk-size may be
    Overlap,
    Queries,        \* calls of corrective_rag
    K,              \* documents it asks for
    MaxChunks,      \* bound: chunks of a loop that does not advance
    NoFile

ASSUME FileAssumption == Length \in [Files -> Nat] /\ NoFile \notin Files

\* A size below the overlap makes the loop go backwards: it does not end either.
ASSUME SizeAssumption ==
    /\ Overlap \in Nat
    /\ ChunkSizes \subseteq {z \in Nat \ {0} : z >= Overlap}
ASSUME BoundAssumption == K \in Nat \ {0} /\ MaxChunks \in Nat

VARIABLES
    rows,       \* documents: who stored which piece of which file
    script,     \* script[s]: run s of the script
    query       \* query[q]: a call of corrective_rag

vars == <<rows, script, query>>

NotStarted == [pc |-> "idle", size |-> 0, todo |-> {}, file |-> NoFile, start |-> 0,
               chunks |-> <<>>, next |-> 1, indexed |-> {}]
NotAsked == [pc |-> "idle", found |-> 0, left |-> 0, answer |-> 0]

Piece == {p \in Nat \X Nat : p[1] <= p[2]}

Rows == [run : Runs, file : Files, chunk : Nat \ {0}, piece : Piece]

Scripts ==
    [pc : {"idle", "files", "chunk", "store", "done", "killed"}, size : ChunkSizes \cup {0},
     todo : SUBSET Files, file : Files \cup {NoFile}, start : Nat, chunks : Seq(Piece),
     next : Nat \ {0}, indexed : SUBSET Files]

Calls ==
    [pc : {"idle", "retrieve", "grade", "rewrite", "again", "done", "failed"},
     found : 0..K, left : 0..K, answer : 0..K]

TypeOK ==
    /\ rows \subseteq Rows
    /\ script \in [Runs -> Scripts]
    /\ \A s \in Runs : script[s].pc = "store" => script[s].next \in DOMAIN script[s].chunks
    /\ query \in [Queries -> Calls]
    /\ \A q \in Queries : query[q].left <= query[q].found

Init ==
    /\ rows = {}
    /\ script = [s \in Runs |-> NotStarted]
    /\ query = [q \in Queries |-> NotAsked]

-----------------------------------------------------------------------------
(* The script.                                                             *)

Set(s, changed) == script' = [script EXCEPT ![s] = changed]
At(s, pc) == script[s].pc = pc

Begin(s, size) ==
    /\ At(s, "idle")
    /\ Set(s, [script[s] EXCEPT !.pc = "files", !.size = size, !.todo = Files])
    /\ UNCHANGED <<rows, query>>

\* The file is through, for better or worse; the next one is read.
NextFile(s, done) ==
    Set(s, [script[s] EXCEPT !.pc = "files", !.file = NoFile, !.start = 0, !.chunks = <<>>,
                             !.next = 1, !.indexed = @ \cup done])

\* An empty file is passed over, and so is one that cannot be read.
SkipFile(s, f) ==
    /\ At(s, "files") /\ f \in script[s].todo
    /\ Set(s, [script[s] EXCEPT !.todo = @ \ {f}])
    /\ UNCHANGED <<rows, query>>

\* A text that fits in one chunk is one.
ReadFile(s, f) ==
    /\ At(s, "files") /\ f \in script[s].todo /\ Length[f] > 0
    /\ IF Length[f] <= script[s].size
       THEN Set(s, [script[s] EXCEPT !.pc = "store", !.file = f, !.todo = @ \ {f},
                                     !.chunks = << <<0, Length[f]>> >>])
       ELSE Set(s, [script[s] EXCEPT !.pc = "chunk", !.file = f, !.todo = @ \ {f}])
    /\ UNCHANGED <<rows, query>>

\* One round of _chunk_text's loop, which advances by what is left of the
\* size when the overlap is taken off, or for ever not at all.
Round(s, advance) ==
    LET start == script[s].start
        text == Length[script[s].file]
        end == IF start + script[s].size < text THEN start + script[s].size ELSE text
        chunks == Append(script[s].chunks, <<start, end>>)
    IN  /\ At(s, "chunk") /\ Len(script[s].chunks) < MaxChunks
        /\ IF end = text
           THEN Set(s, [script[s] EXCEPT !.chunks = chunks, !.pc = "store"])
           ELSE Set(s, [script[s] EXCEPT !.chunks = chunks, !.start = start + advance])
        /\ UNCHANGED <<rows, query>>

\* Variant: the overlap is taken off twice.
NextChunkTwice(s) == Round(s, script[s].size - 2 * Overlap)

NextChunk(s) == Round(s, script[s].size - Overlap)

Row(s) == [run |-> s, file |-> script[s].file, chunk |-> script[s].next,
           piece |-> script[s].chunks[script[s].next]]

\* Variant: the end of the chunks is looked for one too late.
StorePast(s) ==
    /\ At(s, "store")
    /\ rows' = rows \cup {Row(s)}
    /\ IF script[s].next > Len(script[s].chunks)
       THEN NextFile(s, {script[s].file})
       ELSE Set(s, [script[s] EXCEPT !.next = @ + 1])
    /\ UNCHANGED query

\* embed_and_store: one transaction for each chunk.
Store(s) ==
    /\ At(s, "store")
    /\ rows' = rows \cup {Row(s)}
    /\ IF script[s].next = Len(script[s].chunks)
       THEN NextFile(s, {script[s].file})
       ELSE Set(s, [script[s] EXCEPT !.next = @ + 1])
    /\ UNCHANGED query

\* Variant: a chunk that cannot be stored is passed over.
StoreFailsOn(s) ==
    /\ At(s, "store")
    /\ UNCHANGED rows
    /\ IF script[s].next = Len(script[s].chunks)
       THEN NextFile(s, {script[s].file})
       ELSE Set(s, [script[s] EXCEPT !.next = @ + 1])
    /\ UNCHANGED query

\* The embedding or the insert fails, or its commit's answer is lost: the file
\* is given up with what is stored of it.
StoreFails(s) ==
    /\ At(s, "store")
    /\ rows' \in {rows, rows \cup {Row(s)}}
    /\ NextFile(s, {})
    /\ UNCHANGED query

Finish(s) ==
    /\ At(s, "files") /\ script[s].todo = {}
    /\ Set(s, [script[s] EXCEPT !.pc = "done"])
    /\ UNCHANGED <<rows, query>>

Kill(s) ==
    /\ script[s].pc \in {"files", "chunk", "store"}
    /\ Set(s, [NotStarted EXCEPT !.pc = "killed"])
    /\ UNCHANGED <<rows, query>>

-----------------------------------------------------------------------------
(* corrective_rag.                                                         *)

Turn(q, changed) ==
    /\ query' = [query EXCEPT ![q] = changed]
    /\ UNCHANGED <<rows, script>>

\* retrieve: there is no threshold and no filter, only ORDER BY and LIMIT.
Nearest == IF Cardinality(rows) < K THEN Cardinality(rows) ELSE K

Ask(q) == query[q].pc = "idle" /\ Turn(q, [query[q] EXCEPT !.pc = "retrieve"])

Retrieve(q) ==
    /\ query[q].pc = "retrieve"
    /\ Turn(q, [query[q] EXCEPT !.pc = "grade", !.found = Nearest, !.left = Nearest])

\* The model is asked about one document after the other; what is no number
\* counts as 0.
Grade(q) ==
    /\ query[q].pc = "grade" /\ query[q].left > 0
    /\ \E passing \in {0, 1} :
          Turn(q, [query[q] EXCEPT !.left = @ - 1, !.answer = @ + passing])

Graded(q) ==
    /\ query[q].pc = "grade" /\ query[q].left = 0
    /\ Turn(q, [query[q] EXCEPT !.pc = IF query[q].answer = 0 THEN "rewrite" ELSE "done"])

Rewrite(q) == query[q].pc = "rewrite" /\ Turn(q, [query[q] EXCEPT !.pc = "again"])

\* Variant: what the rewritten query finds is graded as well.
RetrieveAgainGraded(q) ==
    /\ query[q].pc = "again"
    /\ \E passing \in 0..Nearest : Turn(q, [query[q] EXCEPT !.pc = "done", !.answer = passing])

\* What the rewritten query finds is returned as it is.
RetrieveAgain(q) ==
    /\ query[q].pc = "again"
    /\ Turn(q, [query[q] EXCEPT !.pc = "done", !.answer = Nearest])

QueryFails(q) ==
    /\ query[q].pc \in {"retrieve", "grade", "rewrite", "again"}
    /\ Turn(q, [query[q] EXCEPT !.pc = "failed"])

-----------------------------------------------------------------------------
ScriptStep(s) ==
    \/ \E f \in Files : SkipFile(s, f) \/ ReadFile(s, f)
    \/ NextChunk(s) \/ Store(s) \/ StoreFails(s) \/ Finish(s)

QueryStep(q) ==
    Retrieve(q) \/ Grade(q) \/ Graded(q) \/ Rewrite(q) \/ RetrieveAgain(q) \/ QueryFails(q)

Next ==
    \/ \E s \in Runs : ScriptStep(s) \/ Kill(s)
    \/ \E s \in Runs, size \in ChunkSizes : Begin(s, size)
    \/ \E q \in Queries : Ask(q) \/ QueryStep(q)

Spec == Init /\ [][Next]_vars

\* Embeddings, models and the database answer or fail.
FairSpec ==
    /\ Spec
    /\ \A s \in Runs : WF_vars(ScriptStep(s))
    /\ \A q \in Queries : WF_vars(QueryStep(q))

-----------------------------------------------------------------------------
(* Properties.                                                             *)

Stored(s, f) == {row \in rows : row.run = s /\ row.file = f}

\* What a run reports as indexed (index_knowledge_base.py:73) is stored whole,
\* whatever failed at other files: its chunks leave no character out, are no
\* longer than asked, share the overlap with the one before, and only the last
\* reaches the end.
IndexedIsWhole ==
    \A s \in Runs : \A f \in script[s].indexed :
        LET stored == Stored(s, f)
            last == Cardinality(stored)
            piece(i) == (CHOOSE row \in stored : row.chunk = i).piece
        IN  /\ stored # {} /\ {row.chunk : row \in stored} = 1..last
            /\ piece(1)[1] = 0 /\ piece(last)[2] = Length[f]
            /\ \A i \in 1..last : piece(i)[2] - piece(i)[1] \in 1..script[s].size
            /\ \A i \in 2..last : /\ piece(i)[1] = piece(i - 1)[2] - Overlap
                                  /\ piece(i - 1)[2] < Length[f]

\* A query that found something comes back with something, however the model
\* grades and rewrites and whatever is stored meanwhile (long_term.py:97-113).
FoundIsAnswered ==
    \A q \in Queries : query[q].pc = "done" /\ query[q].found > 0 => query[q].answer > 0

Advances(s) == script[s].size > Overlap \/ \A f \in Files : Length[f] <= script[s].size

\* The script ends (index_knowledge_base.py:26-31) if the size it is given
\* exceeds the overlap or no file is longer than the size, whatever fails.
ScriptEnds ==
    \A s \in Runs : At(s, "files") /\ Advances(s) ~> script[s].pc \in {"done", "killed"}
=============================================================================
