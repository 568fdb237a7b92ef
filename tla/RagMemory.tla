-------------------------------- MODULE RagMemory --------------------------------
(***************************************************************************)
(* The strategic memory of the audit: one row per memory in DuckDB and the *)
(* chunks of its text in the Chroma index (01_engine/lib/rag_refresher.py),*)
(* the gate of the reader (02_brain/lib/rag_pipeline.py) and the tool that *)
(* condemns memories (tools/quarantine_rag_weak_rps.py).                   *)
(*                                                                         *)
(* One process writes at a time: the refresh of 01:00, the nightly         *)
(* backfill after it, the weekly backfill of deferred rows, or the tool,   *)
(* which wants the daemon stopped.  It may be killed between any two       *)
(* calls.  The two stores have no transaction in common.  A reader asks    *)
(* the index first and the database afterwards, at any time.               *)
(*                                                                         *)
(* A text stands for narrative and tags together.  The three marks of a    *)
(* condemned row (status, embedding status, error) are always set          *)
(* together and are one here.  The optional polish by a model during the   *)
(* refresh (off by default) is left out.                                   *)
(***************************************************************************)
EXTENDS Naturals, FiniteSets

CONSTANTS
    Rows,        \* memories, by symbol, date and source
    Audits,      \* those of the source "audit"
    Echoes,      \* those of the source "echo", which has no template
    Rejected,    \* outcomes and executions whose narrative is rejected as a template
    Good, Poor,  \* texts that pass narrative_quality_issue, and others
    Chunks,      \* chunks a text is cut into
    Retry,       \* RAG_BACKFILL_MAX_ATTEMPTS
    LastRetry,   \* RAG_BACKFILL_DEFERRED_MAX_ATTEMPTS
    MaxFaults,   \* bound on crashes, failed calls and losses
    None

Texts == Good \union Poor
\* Memories whose records have no template that passes.  The wording of its source
\* decides, so it is the same at every extraction.
Bare  == Echoes \union Rejected

ASSUME RagAssumption ==
    /\ Audits \union Bare \subseteq Rows /\ Audits \intersect Bare = {}
    /\ Good \intersect Poor = {} /\ Poor # {} /\ None \notin Texts
    /\ Chunks \in [Texts -> Nat \ {0}]
    /\ Retry \in Nat \ {0} /\ LastRetry \in Nat /\ LastRetry >= Retry /\ MaxFaults \in Nat

Places == UNION {1..Chunks[t] : t \in Texts}
Empty  == [i \in Places |-> None]

VARIABLES
    row,      \* fact_strategic_memory
    index,    \* the Chroma collection: text of each chunk id of a row
    leftover, \* rows whose last deletion from it failed (history)
    fresh,    \* rows of the latest date of fact_daily
    job,      \* what the writing process is, or was when it ended well
    pc,       \* where it is
    loop,     \* the loop it returns to
    todo,     \* rows this loop has before it
    cur,      \* row and
    text,     \*   text being embedded
    usable,   \* Chroma is there and memory below the threshold
    hit,      \* the chunk the reader holds
    told,     \* the chunk its gate has let through
    faults

db     == <<row, fresh>>
chroma == <<index, leftover>>
embed  == <<cur, text>>
reader == <<hit, told>>
vars   == <<db, chroma, job, pc, loop, todo, embed, usable, reader, faults>>

Indexable == {"ENRICHED", "TEMPLATE_READY"}
Absent    == [text |-> None, st |-> "none", tries |-> 0, emb |-> "pending"]
Legacy(t, s, e) == [text |-> t, st |-> s, tries |-> 0, emb |-> e]

\* Memories of earlier versions: polished and indexed ones, poor ones among them,
\* and rows that were never enriched.
Inherited ==
    {Legacy(t, "ENRICHED", "embedded") : t \in Texts}
        \union {Legacy(t, "RAW_SYNC", "pending") : t \in Texts}

Whole(t) == [i \in Places |-> IF i <= Chunks[t] THEN t ELSE None]

Init ==
    /\ row \in [Rows -> {Absent} \union Inherited]
    /\ index = [r \in Rows |-> IF row[r].emb = "embedded" THEN Whole(row[r].text) ELSE Empty]
    /\ leftover = {}
    /\ fresh = {r \in Rows : row[r] = Absent}
    /\ job = "none" /\ pc = "idle" /\ loop = "none" /\ todo = {} /\ usable = TRUE
    /\ cur = None /\ text = None /\ hit = None /\ told = None /\ faults = 0

MayFail == faults < MaxFaults
Failed  == MayFail /\ faults' = faults + 1
Goes    == UNCHANGED faults

Condemned(r) == row[r].emb = "quarantined"

-------------------------------------------------------------------------------
(* The start of a process.                                                   *)

\* ensure_strategic_memory_table: an audit row of an earlier version that has a text
\* of its own counts as enriched.
Promoted(r) ==
    IF r \in Audits /\ row[r].st = "RAW_SYNC" /\ row[r].text \in Good
    THEN [row[r] EXCEPT !.st = "ENRICHED"] ELSE row[r]

\* _fetch_backfill_candidates.
Candidates(rows, j) ==
    {r \in Rows :
        /\ rows[r].emb # "quarantined"
        /\ \/ j = "nightly" /\ rows[r].st = "RAW_SYNC" /\ rows[r].tries < Retry
           \/ j = "weekly" /\ rows[r].st = "ENRICH_DEFERRED" /\ rows[r].tries < LastRetry}

\* The nightly backfill follows a refresh that ended well, and nothing else does.
Start(j) ==
    /\ pc = "idle" /\ (j = "nightly" <=> job = "refresh")
    /\ job' = j
    /\ usable' \in BOOLEAN /\ IF usable' THEN Goes ELSE Failed
    /\ row' = [r \in Rows |-> Promoted(r)]
    /\ IF j = "refresh"
       THEN pc' = "sift" /\ todo' = {}
       ELSE /\ todo' = Candidates(row', j)
            /\ pc' = IF todo' = {} THEN "idle" ELSE "attempt"
    /\ UNCHANGED <<fresh, chroma, loop, embed, reader>>

-------------------------------------------------------------------------------
(* refresh: what is poor goes out first.                                     *)

Sift ==
    /\ pc = "sift"
    /\ LET weak == {r \in Rows : row[r].st = "ENRICHED" /\ row[r].text \in Poor} IN
       /\ row' = [r \in Rows |-> IF r \in weak
                    THEN [row[r] EXCEPT !.st = "ENRICH_DEFERRED", !.emb = "quarantined"]
                    ELSE row[r]]
       /\ todo' = IF usable THEN weak ELSE {}
    /\ pc' = "clean"
    /\ Goes /\ UNCHANGED <<fresh, chroma, job, loop, embed, usable, reader>>

\* A deletion of the chunks of a row may fail; nobody tries it again.
Remove(r) ==
    \/ Goes /\ index' = [index EXCEPT ![r] = Empty] /\ leftover' = leftover \ {r}
    \/ Failed /\ UNCHANGED index /\ leftover' = leftover \union {r}

Clean(r) ==
    /\ pc = "clean" /\ r \in todo
    /\ Remove(r)
    /\ todo' = todo \ {r}
    /\ UNCHANGED <<db, job, pc, loop, embed, usable, reader>>

\* extract_daily_logs: some or all records of the latest date.
Extract ==
    /\ pc = "clean" /\ todo = {}
    /\ todo' \in SUBSET fresh
    /\ pc' = "store"
    /\ Goes /\ UNCHANGED <<db, chroma, job, loop, embed, usable, reader>>

\* embed_to_chroma begins, if it does, and returns to the loop.
Embed(r, t, back) ==
    /\ loop' = back
    /\ IF usable /\ t \in Good
       THEN pc' = "delete" /\ cur' = r /\ text' = t
       ELSE pc' = back /\ UNCHANGED embed

\* store_memory: a condemned row is immutable, what is enriched or templated outlives
\* a lesser version, anything else is replaced and has to be embedded anew.
Kept(r, s) ==
    \/ row[r].st = "ENRICHED"
    \/ row[r].st = "TEMPLATE_READY" /\ s = "RAW_SYNC"
ImmutableByStatus(r) == row[r].st = "ENRICH_DEFERRED" /\ Condemned(r)
Immutable(r) == Condemned(r)
Stored(r, t, s) ==
    IF Kept(r, s) THEN row[r]
    ELSE [row[r] EXCEPT !.text = t, !.st = s, !.emb = "pending"]

\* A row that could not be stored, or may not be, is not embedded.  A record without a
\* template keeps its raw text, which is the rejected one or shorter.
Store(r) ==
    /\ pc = "store" /\ r \in todo
    /\ todo' = todo \ {r}
    /\ \/ /\ IF Immutable(r) THEN Goes ELSE Failed
          /\ UNCHANGED <<row, pc, loop, embed>>
       \/ /\ ~Immutable(r) /\ r \in Bare /\ Goes
          /\ \E t \in Poor : row' = [row EXCEPT ![r] = Stored(r, t, "RAW_SYNC")]
          /\ UNCHANGED <<pc, loop, embed>>
       \/ /\ ~Immutable(r) /\ r \notin Bare /\ Goes
          /\ \E t \in Good :
                /\ row' = [row EXCEPT ![r] = Stored(r, t, "TEMPLATE_READY")]
                /\ Embed(r, t, "store")
    /\ UNCHANGED <<fresh, chroma, job, usable, reader>>

\* _fetch_pending_embeddings.
PendingOnly(rows) ==
    {r \in Rows : rows[r].st \in Indexable /\ rows[r].emb = "pending"}
Pending(rows) ==
    {r \in Rows : rows[r].st \in Indexable /\ rows[r].text \in Good
                    /\ rows[r].emb \notin {"embedded", "quarantined"}}

\* reconcile_embedding_inventory puts back rows without any chunk in the index; then
\* both kinds of run embed what is pending.
Requeued ==
    [r \in Rows |-> IF row[r].st \in Indexable /\ row[r].emb = "embedded" /\ index[r] = Empty
                    THEN [row[r] EXCEPT !.emb = "pending"] ELSE row[r]]
Backfill ==
    /\ pc \in {"store", "attempt"} /\ todo = {}
    /\ row' = IF usable /\ pc = "store" THEN Requeued ELSE row
    /\ todo' = IF usable THEN Pending(row') ELSE {}
    /\ pc' = "pending"
    /\ Goes /\ UNCHANGED <<fresh, chroma, job, loop, embed, usable, reader>>

EmbedPending(r) ==
    /\ pc = "pending" /\ r \in todo
    /\ todo' = todo \ {r}
    /\ Embed(r, row[r].text, "pending")
    /\ Goes /\ UNCHANGED <<db, chroma, job, usable, reader>>

Finish ==
    /\ pc = "pending" /\ todo = {}
    /\ pc' = "idle"
    /\ Goes /\ UNCHANGED <<db, chroma, job, loop, todo, embed, usable, reader>>

-------------------------------------------------------------------------------
(* backfill_raw_sync_enrichment: one candidate after the other, until a      *)
(* deadline or the guard of the model ends the loop after any of them.       *)

\* update_template_memory, update_enriched_memory and mark_backfill_failed.
Templated(r, t) ==
    [row[r] EXCEPT !.text = t, !.st = "TEMPLATE_READY", !.emb = "pending"]
Enriched(r, t) ==
    [row[r] EXCEPT !.text = t, !.st = "ENRICHED", !.emb = "pending", !.tries = @ + 1]
Exhausted(r) == row[r].st = "RAW_SYNC" /\ row[r].tries + 1 >= Retry
Deferred(r) ==
    [row[r] EXCEPT !.tries = @ + 1, !.st = IF Exhausted(r) THEN "ENRICH_DEFERRED" ELSE @]

\* The updates ask again what Candidates asked; with one writer nothing is refused.
Updatable(r) == row[r].st \in {"RAW_SYNC", "ENRICH_DEFERRED"} /\ ~Condemned(r)

Attempt(r) ==
    /\ pc = "attempt" /\ r \in todo /\ Updatable(r)
    /\ todo' \in {todo \ {r}, {}}
    /\ \/ /\ Failed /\ UNCHANGED <<row, pc, loop, embed>>
       \/ /\ r \notin Bare /\ Goes
          /\ \E t \in Good :
                /\ row' = [row EXCEPT ![r] = Templated(r, t)]
                /\ Embed(r, t, "attempt")
       \/ /\ r \in Bare /\ Goes
          /\ \E t \in Good :
                /\ row' = [row EXCEPT ![r] = Enriched(r, t)]
                /\ Embed(r, t, "attempt")
       \/ /\ r \in Bare /\ Goes
          /\ row' = [row EXCEPT ![r] = Deferred(r)]
          /\ UNCHANGED <<pc, loop, embed>>
    /\ UNCHANGED <<fresh, chroma, job, usable, reader>>

-------------------------------------------------------------------------------
(* embed_to_chroma, one call after the other.                                *)

DeleteSkipped ==
    /\ pc = "delete" /\ pc' = "upsert"
    /\ Goes /\ UNCHANGED <<db, chroma, job, loop, todo, embed, usable, reader>>
\* What an earlier, longer text left there goes first, unless the deletion fails.
Delete ==
    /\ pc = "delete" /\ pc' = "upsert"
    /\ Remove(cur)
    /\ UNCHANGED <<db, job, loop, todo, embed, usable, reader>>

\* The vectors of all chunks are computed before the first is written.
Upsert ==
    /\ pc = "upsert"
    /\ \/ /\ Goes /\ pc' = "mark"
          /\ index' = [index EXCEPT ![cur] =
                        [i \in Places |-> IF i <= Chunks[text] THEN text ELSE @[i]]]
       \/ Failed /\ pc' = "degrade" /\ UNCHANGED index
    /\ UNCHANGED <<db, leftover, job, loop, todo, embed, usable, reader>>

\* _mark_embedding_status leaves condemned rows alone.
Marked(r, s) == IF Condemned(r) THEN row[r] ELSE [row[r] EXCEPT !.emb = s]
Mark ==
    /\ pc = "mark"
    /\ \/ Goes /\ row' = [row EXCEPT ![cur] = Marked(cur, "embedded")] /\ pc' = loop
       \/ Failed /\ pc' = "degrade" /\ UNCHANGED row
    /\ UNCHANGED <<fresh, chroma, job, loop, todo, embed, usable, reader>>

Degrade ==
    /\ pc = "degrade" /\ pc' = loop
    /\ \/ Goes /\ row' = [row EXCEPT ![cur] = Marked(cur, "degraded")]
       \/ Failed /\ UNCHANGED row
    /\ UNCHANGED <<fresh, chroma, job, loop, todo, embed, usable, reader>>

WriterStep ==
    \/ Sift \/ Extract \/ Backfill \/ Finish \/ Delete \/ Upsert \/ Mark \/ Degrade
    \/ \E r \in Rows : Clean(r) \/ Store(r) \/ EmbedPending(r) \/ Attempt(r)

-------------------------------------------------------------------------------
(* The tool, the reader and the world.                                       *)

\* apply_manifest condemns a row whatever its status, then deletes its chunks.  An
\* echo has no decision tags to be wrong about.
Condemn(r) ==
    /\ pc = "idle" /\ job # "refresh" /\ r \notin Echoes /\ row[r].st # "none"
    /\ row' = [row EXCEPT ![r] = [row[r] EXCEPT !.st = "QUARANTINED",
                                                !.emb = "quarantined"]]
    /\ job' = "tool" /\ pc' = "purge" /\ cur' = r
    /\ Goes /\ UNCHANGED <<fresh, chroma, loop, todo, text, usable, reader>>

Purge ==
    /\ pc = "purge" /\ pc' = "idle"
    /\ Remove(cur)
    /\ UNCHANGED <<db, job, loop, todo, embed, usable, reader>>

\* _semantic_search, then _validate_semantic_hits against the row of that moment.
Query(r, i) ==
    /\ hit = None /\ index[r][i] # None
    /\ hit' = [row |-> r, text |-> index[r][i]] /\ told' = None
    /\ Goes /\ UNCHANGED <<db, chroma, job, pc, loop, todo, embed, usable>>

Valid(h) ==
    /\ row[h.row].st \in Indexable /\ row[h.row].emb = "embedded"
    /\ h.text = row[h.row].text
Gate ==
    /\ hit # None /\ hit' = None
    /\ told' = IF Valid(hit) THEN hit ELSE None
    /\ Goes /\ UNCHANGED <<db, chroma, job, pc, loop, todo, embed, usable>>

\* The next trading date: what is stored belongs to an earlier one.
NextDate ==
    /\ fresh # {r \in Rows : row[r].st = "none"}
    /\ fresh' = {r \in Rows : row[r].st = "none"}
    /\ Goes /\ UNCHANGED <<row, chroma, job, pc, loop, todo, embed, usable, reader>>

\* The process is killed, or the daemon before it starts the backfill.
Crash ==
    /\ pc # "idle" \/ job = "refresh"
    /\ pc' = "idle" /\ job' = "none" /\ todo' = {}
    /\ Failed /\ UNCHANGED <<db, chroma, loop, embed, usable, reader>>

\* The directory of the index is lost.
Lose ==
    /\ pc = "idle"
    /\ index' = [r \in Rows |-> Empty] /\ leftover' = {}
    /\ Failed /\ UNCHANGED <<db, job, pc, loop, todo, embed, usable, reader>>

Next ==
    \/ \E j \in {"refresh", "nightly", "weekly"} : Start(j)
    \/ WriterStep \/ Purge \/ Gate \/ NextDate \/ Crash \/ Lose
    \/ \E r \in Rows : Condemn(r) \/ \E i \in Places : Query(r, i)

Spec == Init /\ [][Next]_vars

\* The daemon starts its jobs night after night and week after week, and a process
\* goes on; dates pass.
LiveSpec ==
    /\ Spec
    /\ WF_vars(WriterStep \/ Purge) /\ WF_vars(NextDate) /\ WF_vars(Start("nightly"))
    /\ SF_vars(Start("refresh")) /\ SF_vars(Start("weekly"))

-------------------------------------------------------------------------------
(* Properties. *)

Statuses == {"none", "RAW_SYNC", "TEMPLATE_READY", "ENRICHED", "ENRICH_DEFERRED", "QUARANTINED"}
Marks    == {"pending", "embedded", "degraded", "quarantined"}
Memories == [text : Texts \union {None}, st : Statuses, tries : Nat, emb : Marks]
Chunked  == [Places -> Texts \union {None}]
Hits     == [row : Rows, text : Texts]
EmbedSteps == {"delete", "upsert", "mark", "degrade"}

StoresTyped ==
    /\ row \in [Rows -> Memories] /\ index \in [Rows -> Chunked]
    /\ fresh \subseteq Rows /\ leftover \subseteq Rows
WriterTyped ==
    /\ job \in {"none", "refresh", "nightly", "weekly", "tool"}
    /\ pc \in {"idle", "sift", "clean", "store", "attempt", "pending", "purge"} \union EmbedSteps
    /\ loop \in {"none", "store", "attempt", "pending"}
    /\ todo \subseteq Rows /\ usable \in BOOLEAN
    /\ pc \in EmbedSteps => loop # "none" /\ cur \in Rows /\ text \in Good
    /\ pc = "purge" => cur \in Rows
ReaderTyped == hit \in Hits \union {None} /\ told \in Hits \union {None}

\* Type invariant of the two stores, the writing process and the reader.
TypeOK == StoresTyped /\ WriterTyped /\ ReaderTyped /\ faults \in 0..MaxFaults

Complete(r) == \A i \in 1..Chunks[row[r].text] : index[r][i] = row[r].text

\* A row that says embedded is found under its present text, chunk by chunk, or it has
\* lost all its chunks at once, which the reconciliation notices.  No crash between
\* deletion, insertion and mark leaves chunks of another text beside them; only a
\* deletion of this very row that failed does, until the next one succeeds.
IndexAgrees ==
    \A r \in Rows : row[r].emb = "embedded" =>
        /\ row[r].st \in Indexable
        /\ \/ index[r] \in {Empty, Whole(row[r].text)}
           \/ r \in leftover /\ Complete(r)

\* Once condemned, by the quality check or by the tool, a memory stays condemned with
\* the text it has and is never told again, whatever chunks of it the index keeps that
\* could not be cleaned; what is told is the present text of its row.
CondemnedForGood ==
    [][\A r \in Rows :
        /\ Condemned(r) => row'[r].emb = "quarantined" /\ row'[r].text = row[r].text
        /\ told' # told /\ told' # None /\ told'.row = r =>
              ~Condemned(r) /\ told'.text = row[r].text]_<<row, told>>

\* No job takes the row any more.
GivenUp(r) ==
    \/ row[r].st = "RAW_SYNC" /\ row[r].tries >= Retry
    \/ row[r].st = "ENRICH_DEFERRED" /\ row[r].tries >= LastRetry

Recallable(r) == row[r].st \in Indexable /\ row[r].emb = "embedded" /\ Complete(r)

\* Every memory is in the end indexed, condemned or given up after all its attempts,
\* and stays so: failed calls, crashes and a lost index are made good.
SettledForGood ==
    \A r \in Rows :
        <>[](row[r].st = "none" \/ Condemned(r) \/ GivenUp(r) \/ Recallable(r))
===============================================================================
