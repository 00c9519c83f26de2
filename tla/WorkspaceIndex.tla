---------------------------- MODULE WorkspaceIndex ----------------------------
(***************************************************************************)
(* Indexing of workspace files for semantic search.  A request indexes     *)
(* within its call or as a job: a row, and an asyncio task that reads the  *)
(* files in a thread, cuts them into overlapping pieces and upserts these  *)
(* in batches.  Jobs share nothing but the index, and run concurrently; a  *)
(* restart loses the tasks and keeps the rows.                             *)
(***************************************************************************)
EXTENDS Naturals, Sequences, SequencesExt, FiniteSets

CONSTANTS
  Jobs,               \* indexing jobs
  WithinCall,         \* those of them that a request makes itself
  Workspaces,
  Listing,            \* the files of the workspace's directory, sorted
  Directory,          \* the path of that directory
  PathLists,          \* bound: the paths that are asked for
  Texts,              \* what a file may contain: sequences of letters
  Contents,           \* bound: what the files contain at first
  Size, Overlap,      \* chunk_text: length of a window, letters shared with the next
  BatchSize,          \* index_embed_batch_size
  MaxMishaps,         \* bound: failures, restarts and edits of a behaviour
  None

ASSUME WindowAssumption == Size \in Nat \ {0} /\ Overlap \in 0 .. Size - 1
ASSUME BatchAssumption == BatchSize \in Nat \ {0}
ASSUME MishapAssumption == MaxMishaps \in Nat

VARIABLES
  files,              \* the workspace's files
  job,                \* index_jobs, or the answer to a request without a row
  work,               \* the task and thread of a job: locals of index()
  index,              \* workspace_chunks in Qdrant, by chunk id
  last,               \* history: the job that read a file last
  mixed,              \* history: files that an earlier reader wrote after the last
  mishaps

indexVars == <<files, job, work, index, last, mixed, mishaps>>

Paths == Range(Listing)
Spots == Workspaces \X Paths
Present == {path \in Paths : files[path] # None}

ASSUME TextAssumption == None \notin Texts /\ \A text \in Texts : text \in Seq(Range(text))
ASSUME ContentsAssumption == Contents \subseteq [Paths -> Texts \cup {None}]
ASSUME JobAssumption == None \notin Jobs

\* A directory lists a file once.
ASSUME ListingAssumption ==
  /\ Listing \in Seq(Paths)
  /\ \A i, k \in 1 .. Len(Listing) : Listing[i] = Listing[k] => i = k
  /\ {Directory, None} \cap Paths = {} /\ Directory # None
ASSUME PathListsAssumption == PathLists \subseteq Seq(Paths \cup {Directory})

-----------------------------------------------------------------------------
(* chunk_text.                                                              *)

\* A window begins where the one before ends, less the shared letters; the last
\* one is the first to reach the end.
Start(i) == (i - 1) * (Size - Overlap)

Windows(text) ==
  IF text = <<>> THEN 0 ELSE Min({i \in 1 .. Len(text) : Start(i) + Size >= Len(text)})

ChunkText(text) ==
  [i \in 1 .. Windows(text) |-> SubSeq(text, Start(i) + 1, Min({Start(i) + Size, Len(text)}))]

\* What the windows say: each letter as one of those that have it.
Reassembled(pieces) ==
  LET n == Len(pieces)
      Window(k) == CHOOSE i \in 1 .. n : Start(i) < k /\ k <= Start(i) + Len(pieces[i])
  IN [k \in 1 .. IF n = 0 THEN 0 ELSE Start(n) + Len(pieces[n]) |->
        pieces[Window(k)][k - Start(Window(k))]]

ChunkIds == Workspaces \X Paths \X (Nat \ {0})

ChunkRecords == [id : ChunkIds, text : UNION {Range(ChunkText(text)) : text \in Texts}, by : Jobs]

Chunks(j, path, text) ==
  [i \in 1 .. Len(ChunkText(text)) |->
     [id |-> <<job[j].workspace, path, i>>, text |-> ChunkText(text)[i], by |-> j]]

-----------------------------------------------------------------------------

Rows == {"none", "pending", "running", "completed", "failed"}

NoWork == [at |-> "none", todo |-> <<>>, batch |-> <<>>, read |-> [p \in Paths |-> None],
           indexed |-> 0, upserted |-> 0, missing |-> FALSE, error |-> FALSE]

JobRecords == [row : Rows, workspace : Workspaces \cup {None}, paths : PathLists \cup {<<>>},
               upserted : Nat \cup {None}, hit : BOOLEAN]

WorkRecords == [at : {"none", "queued", "indexing", "ending", "gone"},
                todo : Seq(Paths \cup {Directory, None}), batch : Seq(ChunkRecords),
                read : [Paths -> Texts \cup {None}], indexed : Nat, upserted : Nat,
                missing : BOOLEAN, error : BOOLEAN]

IndexTypeOK ==
  /\ files \in [Paths -> Texts \cup {None}]
  /\ mishaps \in 0 .. MaxMishaps
  /\ last \in [Spots -> Jobs \cup {None}] /\ mixed \subseteq Spots
  /\ job \in [Jobs -> JobRecords] /\ work \in [Jobs -> WorkRecords]
  /\ \A j \in Jobs : job[j].row = "completed" => job[j].upserted \in Nat
  /\ DOMAIN index \subseteq ChunkIds /\ index \in [DOMAIN index -> ChunkRecords]
  /\ \A id \in DOMAIN index : index[id].id = id

IndexInit ==
  /\ files \in Contents
  /\ job = [j \in Jobs |-> [row |-> "none", workspace |-> None,
                            paths |-> <<>>, upserted |-> None, hit |-> FALSE]]
  /\ work = [j \in Jobs |-> NoWork]
  /\ index = <<>>
  /\ last = [spot \in Spots |-> None]
  /\ mixed = {}
  /\ mishaps = 0

Mishap == mishaps < MaxMishaps /\ mishaps' = mishaps + 1

-----------------------------------------------------------------------------

Sync(j) == j \in WithinCall

\* A few paths are indexed within the request; for many, or if it asks so, the
\* row is committed and a task is created.
Ask(j, w, paths) ==
  /\ job[j].row = "none"
  /\ job' = [job EXCEPT ![j].row = IF Sync(j) THEN "running" ELSE "pending",
                        ![j].workspace = w, ![j].paths = paths]
  /\ work' = [work EXCEPT ![j].at = IF Sync(j) THEN "indexing" ELSE "queued", ![j].todo = paths]
  /\ UNCHANGED <<files, index, last, mixed, mishaps>>

\* The first write of the row is not guarded: if it fails the task is over.
StartJob(j) ==
  /\ work[j].at = "queued"
  /\ \/ /\ job' = [job EXCEPT ![j].row = "running"]
        /\ work' = [work EXCEPT ![j].at = "indexing"]
        /\ UNCHANGED mishaps
     \/ /\ Mishap
        /\ \E row \in {"pending", "running"} :
             job' = [job EXCEPT ![j].row = row, ![j].hit = TRUE]
        /\ work' = [work EXCEPT ![j].at = "gone"]
  /\ UNCHANGED <<files, index, last, mixed>>

Indexing(j) == work[j].at = "indexing"
BatchIsFull(j) == Len(work[j].batch) >= BatchSize
Raises(j) == work' = [work EXCEPT ![j].at = "ending", ![j].error = TRUE]

\* The files of the directory in their order, None where one is not there.
Listed == [i \in 1 .. Len(Listing) |-> IF Listing[i] \in Present THEN Listing[i] ELSE None]

\* The next path: a directory is listed; a path that was asked for and is not
\* there is missing; what was not listed, or went since, is passed over.
Visit(j) ==
  /\ Indexing(j) /\ ~BatchIsFull(j) /\ work[j].todo # <<>>
  /\ LET path == Head(work[j].todo)
     IN /\ path \notin Present
        /\ work' = [work EXCEPT
             ![j].todo = (IF path = Directory THEN Listed ELSE <<>>) \o Tail(@),
             ![j].missing = @ \/ (path # Directory /\ path \in Range(job[j].paths))]
  /\ UNCHANGED <<files, job, index, last, mixed, mishaps>>

\* _index_file: a file is read, stored as a blob, cut and embedded; an empty one
\* counts for nothing.  One that cannot be read is passed over, one that cannot be
\* stored or embedded ends it all.
IndexFile(j) ==
  /\ Indexing(j) /\ ~BatchIsFull(j) /\ work[j].todo # <<>>
  /\ LET path == Head(work[j].todo)
         text == files[path]
         spot == <<job[j].workspace, path>>
     IN /\ path \in Present
        /\ \/ /\ work' = [work EXCEPT ![j].todo = Tail(@), ![j].read[path] = text,
                                      ![j].batch = @ \o Chunks(j, path, text),
                                      ![j].indexed = IF text = <<>> THEN @ ELSE @ + 1]
              /\ last' = [last EXCEPT ![spot] = j]
              /\ mixed' = mixed \ {spot}
              /\ UNCHANGED mishaps
           \/ Mishap /\ work' = [work EXCEPT ![j].todo = Tail(@)] /\ UNCHANGED <<last, mixed>>
           \/ Mishap /\ Raises(j) /\ UNCHANGED <<last, mixed>>
  /\ UNCHANGED <<files, job, index>>

Own(chunks, id) == {i \in 1 .. Len(chunks) : chunks[i].id = id}

Ids(chunks) == {chunks[i].id : i \in 1 .. Len(chunks)}

Upserted_KeepsFirst(chunks) ==
  [id \in DOMAIN index \cup Ids(chunks) |->
     IF id \in DOMAIN index THEN index[id] ELSE chunks[Max(Own(chunks, id))]]

\* upsert_chunks: a chunk replaces the one of the same id.
Upserted(chunks) ==
  [id \in DOMAIN index \cup Ids(chunks) |->
     IF id \in Ids(chunks) THEN chunks[Max(Own(chunks, id))] ELSE index[id]]

\* flush: a full batch, or at the end what is left; an upsert that fails may yet
\* have been made.
Flush(j) ==
  /\ Indexing(j)
  /\ BatchIsFull(j) \/ (work[j].todo = <<>> /\ work[j].batch # <<>>)
  /\ LET batch == SubSeq(work[j].batch, 1, Min({BatchSize, Len(work[j].batch)}))
     IN /\ \/ /\ index' = Upserted(batch)
              /\ work' = [work EXCEPT ![j].batch = SubSeq(@, Len(batch) + 1, Len(@)),
                                      ![j].upserted = @ + Len(batch)]
              /\ UNCHANGED mishaps
           \/ Mishap /\ index' \in {index, Upserted(batch)} /\ Raises(j)
        /\ mixed' = mixed \cup
             {spot \in Spots : /\ last[spot] # j
                               /\ \E id \in Ids(batch) : <<id[1], id[2]>> = spot}
  /\ UNCHANGED <<files, job, last>>

FinishIndex_Unflushed(j) ==
  /\ Indexing(j) /\ ~BatchIsFull(j) /\ work[j].todo = <<>>
  /\ work' = [work EXCEPT ![j].at = "ending",
                          ![j].error = work[j].missing /\ work[j].indexed = 0]
  /\ UNCHANGED <<files, job, index, last, mixed, mishaps>>

\* Missing paths are an error only if nothing was indexed.
FinishIndex(j) ==
  /\ Indexing(j) /\ work[j].todo = <<>> /\ work[j].batch = <<>>
  /\ work' = [work EXCEPT ![j].at = "ending",
                          ![j].error = work[j].missing /\ work[j].indexed = 0]
  /\ UNCHANGED <<files, job, index, last, mixed, mishaps>>

-----------------------------------------------------------------------------
(* The end of a job: the answer of a request, or the row.                   *)

Row(j, row, upserted, hit) ==
  job' = [job EXCEPT ![j].row = row, ![j].upserted = upserted, ![j].hit = hit]

Complete_WithoutResult(j) == Row(j, "completed", None, FALSE)

Complete(j) == Row(j, "completed", work[j].upserted, FALSE)

\* Writing "failed" is not guarded either.
MarkFailed(j, upserted, before) ==
  \/ Row(j, "failed", upserted, FALSE) /\ UNCHANGED mishaps
  \/ Mishap /\ Row(j, before, upserted, TRUE)

\* If "completed" cannot be committed the job is marked as failed, and keeps the
\* result when the commit was made after all; the mishap may hit that write too.
EndJob_Unguarded(j) ==
  /\ work[j].at = "ending"
  /\ work' = [work EXCEPT ![j].at = "gone"]
  /\ IF work[j].error THEN job' = job /\ UNCHANGED mishaps
     ELSE Complete(j) /\ UNCHANGED mishaps
  /\ UNCHANGED <<files, index, last, mixed>>

EndJob(j) ==
  /\ work[j].at = "ending"
  /\ work' = [work EXCEPT ![j].at = "gone"]
  /\ IF work[j].error
     THEN IF Sync(j) THEN Row(j, "failed", None, FALSE) /\ UNCHANGED mishaps
          ELSE MarkFailed(j, None, "running")
     ELSE \/ Complete(j) /\ UNCHANGED mishaps
          \/ /\ ~Sync(j) /\ Mishap
             /\ \/ \E upserted \in {None, work[j].upserted} : Row(j, "failed", upserted, FALSE)
                \/ Row(j, "completed", work[j].upserted, TRUE)
                \/ Row(j, "running", None, TRUE)
  /\ UNCHANGED <<files, index, last, mixed>>

\* Tasks and threads are gone; a caller that waits gets no answer.
RestartIndex ==
  /\ Mishap
  /\ work' = [j \in Jobs |-> IF work[j].at \in {"none", "gone"} THEN work[j]
                             ELSE [work[j] EXCEPT !.at = "gone"]]
  /\ job' = [j \in Jobs |-> IF work[j].at \in {"none", "gone"} THEN job[j]
                            ELSE [job[j] EXCEPT !.hit = TRUE]]
  /\ UNCHANGED <<files, index, last, mixed>>

EditFiles ==
  /\ Mishap
  /\ \E path \in Paths, text \in Texts \cup {None} : files' = [files EXCEPT ![path] = text]
  /\ UNCHANGED <<job, work, index, last, mixed>>

JobStep(j) ==
  StartJob(j) \/ Visit(j) \/ IndexFile(j) \/ Flush(j) \/ FinishIndex(j) \/ EndJob(j)

IndexNext ==
  \/ \E j \in Jobs, w \in Workspaces, paths \in PathLists : Ask(j, w, paths)
  \/ \E j \in Jobs : JobStep(j)
  \/ RestartIndex \/ EditFiles

IndexSpec == IndexInit /\ [][IndexNext]_indexVars

-----------------------------------------------------------------------------
(* Search: the index, and the files themselves if it has few hits.          *)

VectorHits(w) == {id \in DOMAIN index : id[1] = w}

GrepHits(w) == {<<w, p, 1>> : p \in {q \in Present : files[q] # <<>>}}

Search(w) ==
  IF Cardinality(VectorHits(w)) >= 3 THEN VectorHits(w) ELSE VectorHits(w) \cup GrepHits(w)

\* A job that names no file twice.
Once(j) ==
  \A i, k \in 1 .. Len(job[j].paths) :
    i # k => job[j].paths[i] # job[j].paths[k] /\ job[j].paths[i] # Directory

\* The pieces of what a job has read, of each path what it read last.
PiecesOf(j, path) == IF work[j].read[path] = None THEN <<>> ELSE ChunkText(work[j].read[path])

ReadIds(j) ==
  UNION {{<<job[j].workspace, path, i>> : i \in 1 .. Len(PiecesOf(j, path))} : path \in Paths}

(* What a completed job says is in the index.  Every text that it read is   *)
(* there in pieces that put together give the text again, though another    *)
(* job may have replaced some of them; the result counts the pieces, unless *)
(* a file was named twice; and a search of the workspace finds each file.   *)
CompletedIsIndexed ==
  \A j \in Jobs : job[j].row = "completed" =>
    /\ ReadIds(j) \subseteq DOMAIN index
    /\ \A path \in Paths :
         LET w == job[j].workspace
             InIndex == [i \in 1 .. Len(PiecesOf(j, path)) |-> index[<<w, path, i>>]]
         IN work[j].read[path] # None =>
              /\ (\A i \in 1 .. Len(InIndex) : InIndex[i].by = j) =>
                   Reassembled([i \in 1 .. Len(InIndex) |-> InIndex[i].text]) = work[j].read[path]
              /\ work[j].read[path] # <<>> => \E id \in Search(w) : id[2] = path
    /\ Once(j) => job[j].upserted = Cardinality(ReadIds(j))

(* The last reader of a file wins.  If it completed, and no earlier reader  *)
(* wrote after it, the index has its text; what else the index has of the   *)
(* file is the tail of a longer text that another job read before, or that  *)
(* a job read which names the file twice, and which nothing ever deletes.   *)
LastReaderWins ==
  \A w \in Workspaces, path \in Paths :
    LET j == last[<<w, path>>]
    IN j # None /\ <<w, path>> \notin mixed /\ job[j].row = "completed" =>
         /\ \A i \in 1 .. Len(PiecesOf(j, path)) :
              index[<<w, path, i>>].by = j /\ index[<<w, path, i>>].text = PiecesOf(j, path)[i]
         /\ \A id \in DOMAIN index :
              LET by == index[id].by
              IN <<id[1], id[2]>> = <<w, path>> /\ id[3] > Len(PiecesOf(j, path)) /\ Once(by) =>
                   by # j /\ id[3] <= Len(PiecesOf(by, path))

(* A job ends.  Its row becomes "completed" or "failed", whatever happens   *)
(* to its files and its index, unless a restart or a failing write of the   *)
(* row itself hits it: then nothing takes the row up again.                 *)
JobsEnd ==
  \A j \in Jobs : job[j].row \in {"pending", "running"}
                    ~> (job[j].row \in {"completed", "failed"} \/ job[j].hit)
=============================================================================
