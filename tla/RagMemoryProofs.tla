----------------------------- MODULE RagMemoryProofs -----------------------------
(***************************************************************************)
(* Proofs about RagMemory for every set of rows and texts, any bounds on   *)
(* attempts and faults: the type invariant, the agreement of the index     *)
(* with the rows, and that a condemned memory stays condemned.             *)
(***************************************************************************)
EXTENDS RagMemory, TLAPS

-------------------------------------------------------------------------------
(* Types. *)

\* The updates of a memory the model makes give memories.
LEMMA UpdateTyped ==
    ASSUME NEW m \in Memories
    PROVE  /\ \A s \in Statuses : [m EXCEPT !.st = s] \in Memories
           /\ \A e \in Marks : [m EXCEPT !.emb = e] \in Memories
           /\ \A s \in Statuses, e \in Marks : [m EXCEPT !.st = s, !.emb = e] \in Memories
           /\ \A t \in Texts, s \in Statuses, e \in Marks :
                [m EXCEPT !.text = t, !.st = s, !.emb = e] \in Memories
           /\ \A t \in Texts, s \in Statuses, e \in Marks :
                [m EXCEPT !.text = t, !.st = s, !.emb = e, !.tries = @ + 1] \in Memories
           /\ \A n \in Nat, s \in Statuses : [m EXCEPT !.tries = n, !.st = s] \in Memories
<1>0. m = [text |-> m.text, st |-> m.st, tries |-> m.tries, emb |-> m.emb]
      /\ m.text \in Texts \union {None} /\ m.st \in Statuses /\ m.tries \in Nat /\ m.emb \in Marks
    BY DEF Memories
<1>1. \A s \in Statuses : [m EXCEPT !.st = s] \in Memories
    BY DEF Memories
<1>2. \A e \in Marks : [m EXCEPT !.emb = e] \in Memories
    BY DEF Memories
<1>3. \A s \in Statuses, e \in Marks : [m EXCEPT !.st = s, !.emb = e] \in Memories
    BY DEF Memories
<1>4. \A t \in Texts, s \in Statuses, e \in Marks :
        [m EXCEPT !.text = t, !.st = s, !.emb = e] \in Memories
    BY DEF Memories
<1>5. \A t \in Texts, s \in Statuses, e \in Marks :
        [m EXCEPT !.text = t, !.st = s, !.emb = e, !.tries = @ + 1] \in Memories
    <2>1. m.tries + 1 \in Nat
        BY <1>0
    <2> QED BY <2>1 DEF Memories
<1>6. \A n \in Nat, s \in Statuses : [m EXCEPT !.tries = n, !.st = s] \in Memories
    BY DEF Memories
<1> QED BY <1>1, <1>2, <1>3, <1>4, <1>5, <1>6

LEMMA EmptyTyped == Empty \in Chunked
BY DEF Empty, Chunked

LEMMA InitTyped == Init => TypeOK
<1> SUFFICES ASSUME Init PROVE TypeOK
    OBVIOUS
<1> USE DEF Init
<1>1. \A r \in Rows : row[r] = Absent \/ row[r] \in Inherited
    OBVIOUS
<1>2. row \in [Rows -> Memories]
    <2>1. Absent \in Memories
        BY DEF Absent, Statuses, Marks, Memories
    <2>2. Inherited \subseteq Memories
        BY DEF Inherited, Legacy, Statuses, Marks, Memories
    <2> QED BY <2>1, <2>2
<1>3. index \in [Rows -> Chunked] /\ leftover = {}
    <2>1. \A r \in Rows : row[r].emb = "embedded" => row[r].text \in Texts
        BY <1>1 DEF Absent, Inherited, Legacy
    <2>2. \A t \in Texts : Whole(t) \in Chunked
        BY DEF Whole, Chunked
    <2> QED BY <2>1, <2>2, EmptyTyped
<1> QED BY <1>2, <1>3, RagAssumption
        DEF TypeOK, StoresTyped, WriterTyped, ReaderTyped, EmbedSteps

\* What the writer's calls do to the rows.
LEMMA RowsTyped == TypeOK /\ [Next]_vars => row' \in [Rows -> Memories]
<1> SUFFICES ASSUME TypeOK, [Next]_vars PROVE row' \in [Rows -> Memories]
    OBVIOUS
<1> USE DEF db
<1>0. row \in [Rows -> Memories] /\ Rows = DOMAIN row /\ \A r \in Rows : row[r] \in Memories
    BY DEF TypeOK, StoresTyped
<1>s. Statuses = {"none", "RAW_SYNC", "TEMPLATE_READY", "ENRICHED", "ENRICH_DEFERRED",
                  "QUARANTINED"}
      /\ Marks = {"pending", "embedded", "degraded", "quarantined"}
    BY DEF Statuses, Marks
<1>u. \A r \in Rows : \A m \in Memories : [row EXCEPT ![r] = m] \in [Rows -> Memories]
    BY <1>0
<1>1. ASSUME NEW j \in {"refresh", "nightly", "weekly"}, Start(j)
      PROVE  row' \in [Rows -> Memories]
    <2>1. \A r \in Rows : Promoted(r) \in Memories
        BY <1>0, <1>s, UpdateTyped DEF Promoted
    <2> QED BY <1>1, <2>1 DEF Start
<1>2. CASE Sift
    <2>1. \A r \in Rows : [row[r] EXCEPT !.st = "ENRICH_DEFERRED", !.emb = "quarantined"]
                            \in Memories
        BY <1>0, <1>s, UpdateTyped
    <2> QED BY <1>0, <1>2, <2>1 DEF Sift
<1>3. ASSUME NEW r \in Rows, Store(r) PROVE row' \in [Rows -> Memories]
    <2>1. \A t \in Texts : \A s \in Statuses : Stored(r, t, s) \in Memories
        BY <1>0, <1>s, UpdateTyped DEF Stored
    <2>2. CASE UNCHANGED row
        BY <1>0, <2>2
    <2>3. CASE \E t \in Poor : row' = [row EXCEPT ![r] = Stored(r, t, "RAW_SYNC")]
        BY <1>s, <1>u, <2>1, <2>3 DEF Texts
    <2>4. CASE \E t \in Good : row' = [row EXCEPT ![r] = Stored(r, t, "TEMPLATE_READY")]
        BY <1>s, <1>u, <2>1, <2>4 DEF Texts
    <2> QED BY <1>3, <2>2, <2>3, <2>4 DEF Store
<1>4. CASE Backfill
    <2>1. Requeued \in [Rows -> Memories]
        BY <1>0, <1>s, UpdateTyped DEF Requeued
    <2> QED BY <1>0, <1>4, <2>1 DEF Backfill
<1>5. ASSUME NEW r \in Rows, Attempt(r) PROVE row' \in [Rows -> Memories]
    <2>1. Deferred(r) \in Memories
        <3>1. row[r].tries \in Nat /\ row[r].st \in Statuses
            BY <1>0 DEF Memories
        <3>2. (IF Exhausted(r) THEN "ENRICH_DEFERRED" ELSE row[r].st) \in Statuses
            BY <1>s, <3>1
        <3>3. row[r].tries + 1 \in Nat
            BY <3>1
        <3> QED BY <1>0, <3>2, <3>3, UpdateTyped DEF Deferred
    <2>2. \A t \in Good : Templated(r, t) \in Memories /\ Enriched(r, t) \in Memories
        BY <1>0, <1>s, UpdateTyped DEF Texts, Templated, Enriched
    <2>3. CASE UNCHANGED row
        BY <1>0, <2>3
    <2>4. CASE row' = [row EXCEPT ![r] = Deferred(r)]
        BY <1>u, <2>1, <2>4
    <2>5. CASE \E t \in Good : \/ row' = [row EXCEPT ![r] = Templated(r, t)]
                              \/ row' = [row EXCEPT ![r] = Enriched(r, t)]
        BY <1>u, <2>2, <2>5
    <2> QED BY <1>5, <2>3, <2>4, <2>5 DEF Attempt
<1>6. CASE Mark \/ Degrade
    <2>1. cur \in Rows
        BY <1>6 DEF Mark, Degrade, TypeOK, WriterTyped, EmbedSteps
    <2>2. \A e \in Marks : Marked(cur, e) \in Memories
        BY <1>0, <2>1, UpdateTyped DEF Marked
    <2>3. UNCHANGED row \/ \E e \in Marks : row' = [row EXCEPT ![cur] = Marked(cur, e)]
        BY <1>6, <1>s DEF Mark, Degrade
    <2> QED BY <1>0, <1>u, <2>1, <2>2, <2>3
<1>7. ASSUME NEW r \in Rows, Condemn(r) PROVE row' \in [Rows -> Memories]
    <2>1. [row[r] EXCEPT !.st = "QUARANTINED", !.emb = "quarantined"] \in Memories
        BY <1>0, <1>s, UpdateTyped
    <2> QED BY <1>0, <1>7, <1>u, <2>1 DEF Condemn
<1>8. CASE \/ Extract \/ Finish \/ Delete \/ Upsert \/ Purge \/ Gate \/ NextDate \/ Crash
           \/ Lose \/ UNCHANGED vars
    BY <1>0, <1>8 DEF Extract, Finish, Delete, Upsert, Purge, Gate, NextDate, Crash, Lose, vars
<1>9. ASSUME NEW r \in Rows,
             Clean(r) \/ EmbedPending(r) \/ \E i \in Places : Query(r, i)
      PROVE  row' \in [Rows -> Memories]
    BY <1>0, <1>9 DEF Clean, EmbedPending, Query
<1> QED
    BY <1>1, <1>2, <1>3, <1>4, <1>5, <1>6, <1>7, <1>8, <1>9 DEF Next, WriterStep

\* Deletions, insertions and a lost index leave chunks of texts.
LEMMA IndexTyped ==
    TypeOK /\ [Next]_vars => index' \in [Rows -> Chunked] /\ leftover' \subseteq Rows
<1> SUFFICES ASSUME TypeOK, [Next]_vars
             PROVE  index' \in [Rows -> Chunked] /\ leftover' \subseteq Rows
    OBVIOUS
<1> USE DEF chroma
<1>0. /\ index \in [Rows -> Chunked] /\ \A r \in Rows : index[r] \in Chunked
      /\ leftover \subseteq Rows
    BY DEF TypeOK, StoresTyped
<1>u. \A r \in Rows : \A m \in Chunked : [index EXCEPT ![r] = m] \in [Rows -> Chunked]
    BY <1>0
<1>1. CASE Delete \/ Upsert \/ Purge
    <2>0. leftover' = leftover \ {cur} \/ leftover' = leftover \union {cur} \/ UNCHANGED leftover
        BY <1>1 DEF Delete, Upsert, Purge, Remove
    <2>1. cur \in Rows
        BY <1>1 DEF Delete, Upsert, Purge, TypeOK, WriterTyped, EmbedSteps
    <2>2. index' \in [Rows -> Chunked]
        <3>1. CASE UNCHANGED index
            BY <1>0, <3>1
        <3>2. CASE index' = [index EXCEPT ![cur] = Empty]
            BY <1>u, <2>1, <3>2, EmptyTyped
        <3>3. CASE /\ pc = "upsert"
                   /\ index' = [index EXCEPT ![cur] =
                                  [i \in Places |-> IF i <= Chunks[text] THEN text ELSE @[i]]]
            <4>1. text \in Texts
                BY <3>3 DEF TypeOK, WriterTyped, EmbedSteps, Texts
            <4>2. [i \in Places |-> IF i <= Chunks[text] THEN text ELSE index[cur][i]]
                    \in Chunked
                BY <1>0, <2>1, <4>1 DEF Chunked
            <4> QED BY <1>u, <2>1, <3>3, <4>2
        <3> QED BY <1>1, <3>1, <3>2, <3>3 DEF Delete, Upsert, Purge, Remove
    <2> QED BY <1>0, <2>0, <2>1, <2>2
<1>2. ASSUME NEW r \in Rows, Clean(r)
      PROVE  index' \in [Rows -> Chunked] /\ leftover' \subseteq Rows
    BY <1>0, <1>2, <1>u, EmptyTyped DEF Clean, Remove
<1>3. CASE Lose
    BY <1>3, EmptyTyped DEF Lose
<1>4. CASE \/ Sift \/ Extract \/ Backfill \/ Finish \/ Mark \/ Degrade \/ Gate \/ NextDate
           \/ Crash \/ UNCHANGED vars
    BY <1>0, <1>4 DEF Sift, Extract, Backfill, Finish, Mark, Degrade, Gate, NextDate, Crash,
                      db, vars
<1>5. ASSUME NEW r \in Rows,
             \/ Store(r) \/ EmbedPending(r) \/ Attempt(r) \/ Condemn(r)
             \/ \E i \in Places : Query(r, i)
      PROVE  index' \in [Rows -> Chunked] /\ leftover' \subseteq Rows
    BY <1>0, <1>5 DEF Store, EmbedPending, Attempt, Condemn, Query
<1>6. ASSUME NEW j \in {"refresh", "nightly", "weekly"}, Start(j)
      PROVE  index' \in [Rows -> Chunked] /\ leftover' \subseteq Rows
    BY <1>0, <1>6 DEF Start
<1> QED BY <1>1, <1>2, <1>3, <1>4, <1>5, <1>6 DEF Next, WriterStep

\* Whoever begins to embed knows the row, the text and the loop to return to.
LEMMA EmbedTyped ==
    ASSUME WriterTyped, NEW r \in Rows, NEW t, NEW back \in {"store", "attempt", "pending"},
           Embed(r, t, back), todo' \subseteq Rows, job' = job, usable' = usable
    PROVE  WriterTyped'
BY DEF Embed, WriterTyped, EmbedSteps, embed

\* The writing process is always at a call of one of its jobs.
LEMMA ProcessTyped == TypeOK /\ [Next]_vars => WriterTyped'
<1> SUFFICES ASSUME TypeOK, [Next]_vars PROVE WriterTyped'
    OBVIOUS
<1>0. WriterTyped /\ fresh \subseteq Rows
    BY DEF TypeOK, StoresTyped
<1> USE DEF WriterTyped, EmbedSteps, embed
<1>1. ASSUME NEW j \in {"refresh", "nightly", "weekly"}, Start(j) PROVE WriterTyped'
    BY <1>0, <1>1 DEF Start, Candidates
<1>2. CASE Sift
    BY <1>0, <1>2 DEF Sift
<1>3. ASSUME NEW r \in Rows, Clean(r) PROVE WriterTyped'
    BY <1>0, <1>3 DEF Clean
<1>4. CASE Extract
    BY <1>0, <1>4 DEF Extract
<1>5. ASSUME NEW r \in Rows, Store(r) PROVE WriterTyped'
    <2>1. CASE UNCHANGED <<pc, loop, embed>>
        BY <1>0, <1>5, <2>1 DEF Store
    <2>2. CASE \E t \in Good : Embed(r, t, "store")
        BY <1>0, <1>5, <2>2, EmbedTyped DEF Store
    <2> QED BY <1>5, <2>1, <2>2 DEF Store
<1>6. CASE Backfill
    BY <1>0, <1>6 DEF Backfill, Pending
<1>7. ASSUME NEW r \in Rows, EmbedPending(r) PROVE WriterTyped'
    BY <1>0, <1>7, EmbedTyped DEF EmbedPending
<1>8. CASE Finish
    BY <1>0, <1>8 DEF Finish
<1>9. ASSUME NEW r \in Rows, Attempt(r) PROVE WriterTyped'
    <2>1. CASE UNCHANGED <<pc, loop, embed>>
        BY <1>0, <1>9, <2>1 DEF Attempt
    <2>2. CASE \E t \in Good : Embed(r, t, "attempt")
        BY <1>0, <1>9, <2>2, EmbedTyped DEF Attempt
    <2> QED BY <1>9, <2>1, <2>2 DEF Attempt
<1>10. CASE Delete \/ Upsert
    BY <1>0, <1>10 DEF Delete, Upsert
<1>11. CASE Mark \/ Degrade
    BY <1>0, <1>11 DEF Mark, Degrade
<1>12. ASSUME NEW r \in Rows, Condemn(r) PROVE WriterTyped'
    BY <1>0, <1>12 DEF Condemn
<1>13. CASE Purge
    BY <1>0, <1>13 DEF Purge
<1>14. CASE Gate \/ NextDate \/ Lose \/ UNCHANGED vars
    BY <1>0, <1>14 DEF Gate, NextDate, Lose, vars
<1>15. ASSUME NEW r \in Rows, \E i \in Places : Query(r, i) PROVE WriterTyped'
    BY <1>0, <1>15 DEF Query
<1>16. CASE Crash
    BY <1>0, <1>16 DEF Crash
<1> QED
    BY <1>1, <1>2, <1>3, <1>4, <1>5, <1>6, <1>7, <1>8, <1>9, <1>10, <1>11, <1>12, <1>13,
       <1>14, <1>15, <1>16 DEF Next, WriterStep

\* The reader holds chunks the index had; dates and faults are bounded.
LEMMA RestTyped ==
    TypeOK /\ [Next]_vars => fresh' \subseteq Rows /\ ReaderTyped' /\ faults' \in 0..MaxFaults
<1> SUFFICES ASSUME TypeOK, [Next]_vars
             PROVE  fresh' \subseteq Rows /\ ReaderTyped' /\ faults' \in 0..MaxFaults
    OBVIOUS
<1>0. fresh \subseteq Rows /\ ReaderTyped /\ faults \in 0..MaxFaults
    BY DEF TypeOK, StoresTyped
<1>1. faults' \in 0..MaxFaults
    <2>1. Goes \/ Failed => faults' \in 0..MaxFaults
        BY <1>0, RagAssumption DEF Goes, Failed, MayFail
    <2>2. UNCHANGED vars => faults' = faults
        BY DEF vars
    <2>3. Next => Goes \/ Failed
        BY DEF Next, WriterStep, Start, Sift, Clean, Extract, Store, Backfill, EmbedPending,
               Finish, Attempt, Delete, Upsert, Mark, Degrade, Condemn, Purge, Query, Gate,
               NextDate, Crash, Lose, Remove
    <2> QED BY <1>0, <2>1, <2>2, <2>3
<1>2. fresh' \subseteq Rows
    <2>1. Next /\ ~NextDate => fresh' = fresh
        BY DEF Next, WriterStep, Start, Sift, Clean, Extract, Store, Backfill, EmbedPending,
               Finish, Attempt, Delete, Upsert, Mark, Degrade, Condemn, Purge, Query, Gate,
               Crash, Lose, db
    <2> QED BY <1>0, <2>1 DEF NextDate, vars, db
<1>3. ReaderTyped'
    <2>1. ASSUME NEW r \in Rows, NEW i \in Places, Query(r, i) PROVE ReaderTyped'
        <3>1. index[r][i] \in Texts
            BY <2>1 DEF Query, TypeOK, StoresTyped, Chunked
        <3> QED BY <2>1, <3>1 DEF Query, ReaderTyped, Hits
    <2>2. Gate => ReaderTyped'
        BY <1>0 DEF Gate, ReaderTyped
    <2>3. UNCHANGED reader => ReaderTyped'
        BY <1>0 DEF ReaderTyped, reader
    <2>4. Next => \/ UNCHANGED reader \/ Gate
                  \/ \E r \in Rows : \E i \in Places : Query(r, i)
        BY DEF Next, WriterStep, Start, Sift, Clean, Extract, Store, Backfill, EmbedPending,
               Finish, Attempt, Delete, Upsert, Mark, Degrade, Condemn, Purge, NextDate, Crash,
               Lose
    <2> QED BY <2>1, <2>2, <2>3, <2>4 DEF vars
<1> QED BY <1>1, <1>2, <1>3

\* The two stores, the writing process and the reader keep their types
\* (rag_refresher.py, rag_pipeline.py, quarantine_rag_weak_rps.py).
THEOREM TypeCorrect == Spec => []TypeOK
<1>1. Init => TypeOK
    BY InitTyped
<1>2. TypeOK /\ [Next]_vars => TypeOK'
    BY RowsTyped, IndexTyped, ProcessTyped, RestTyped DEF TypeOK, StoresTyped
<1> QED BY <1>1, <1>2, PTL DEF Spec

-------------------------------------------------------------------------------
(* A condemned memory stays condemned. *)

\* One call of the writer, the tool or the reader never takes the mark away.
LEMMA MarkKept ==
    TypeOK /\ [Next]_vars =>
        \A r \in Rows : Condemned(r) => row'[r].emb = "quarantined" /\ row'[r].text = row[r].text
<1> SUFFICES ASSUME TypeOK, [Next]_vars, NEW r \in Rows, Condemned(r)
             PROVE  row'[r].emb = "quarantined" /\ row'[r].text = row[r].text
    OBVIOUS
<1>0. /\ row \in [Rows -> Memories] /\ row[r] \in Memories /\ row[r].emb = "quarantined"
    BY DEF TypeOK, StoresTyped, Condemned
<1> DEFINE Keeps(m) == m.emb = "quarantined" /\ m.text = row[r].text
<1>k. /\ Keeps(row[r])
      /\ \A s \in Statuses : /\ Keeps([row[r] EXCEPT !.st = s])
                             /\ Keeps([row[r] EXCEPT !.st = s, !.emb = "quarantined"])
    BY <1>0 DEF Memories
<1>o. \A q \in Rows : q # r => \A m : [row EXCEPT ![q] = m][r] = row[r]
    BY <1>0
<1>1. ASSUME NEW j \in {"refresh", "nightly", "weekly"}, Start(j) PROVE Keeps(row'[r])
    BY <1>1, <1>k, <1>o DEF Start, Promoted, Statuses
<1>2. CASE Sift
    BY <1>2, <1>k, <1>o DEF Sift, Statuses
<1>3. ASSUME NEW q \in Rows, Store(q) PROVE Keeps(row'[r])
    BY <1>0, <1>3, <1>k, <1>o DEF Store, Immutable, Condemned
<1>4. CASE Backfill
    BY <1>0, <1>4, <1>k, <1>o DEF Backfill, Requeued
<1>5. ASSUME NEW q \in Rows, Attempt(q) PROVE Keeps(row'[r])
    BY <1>0, <1>5, <1>k, <1>o DEF Attempt, Updatable, Condemned
<1>6. CASE Mark \/ Degrade
    BY <1>0, <1>6, <1>k, <1>o DEF Mark, Degrade, Marked, Condemned, TypeOK, WriterTyped, EmbedSteps
<1>7. ASSUME NEW q \in Rows, Condemn(q) PROVE Keeps(row'[r])
    BY <1>0, <1>7, <1>k, <1>o DEF Condemn, Statuses
<1>8. CASE UNCHANGED row
    BY <1>8, <1>k, <1>o
<1>9. Next => \/ UNCHANGED row \/ Sift \/ Backfill \/ Mark \/ Degrade
              \/ \E j \in {"refresh", "nightly", "weekly"} : Start(j)
              \/ \E q \in Rows : Store(q) \/ Attempt(q) \/ Condemn(q)
    BY DEF Next, WriterStep, Clean, Extract, EmbedPending, Finish, Delete, Upsert, Purge,
           Query, Gate, NextDate, Crash, Lose, db
<1> QED BY <1>1, <1>2, <1>3, <1>4, <1>5, <1>6, <1>7, <1>8, <1>9 DEF vars, db

\* What the gate lets through is the present text of a row that is not condemned.
LEMMA ToldIsPresent ==
    [Next]_vars => \A r \in Rows :
        told' # told /\ told' # None /\ told'.row = r => ~Condemned(r) /\ told'.text = row[r].text
<1>1. [Next]_vars => told' = told \/ told' = None \/ Gate
    BY DEF Next, WriterStep, Start, Sift, Clean, Extract, Store, Backfill, EmbedPending,
           Finish, Attempt, Delete, Upsert, Mark, Degrade, Condemn, Purge, Query, NextDate,
           Crash, Lose, reader, vars
<1> QED BY <1>1 DEF Gate, Valid, Condemned

\* CondemnedForGood: a condemned memory keeps its mark and its text and is never told
\* (store_memory, update_template_memory and update_enriched_memory refuse it,
\* _mark_embedding_status passes it over, _validate_semantic_hits drops its chunks).
THEOREM CondemnedStays == Spec => CondemnedForGood
<1>1. TypeOK /\ [Next]_vars =>
        [\A r \in Rows :
          /\ Condemned(r) => row'[r].emb = "quarantined" /\ row'[r].text = row[r].text
          /\ told' # told /\ told' # None /\ told'.row = r =>
                ~Condemned(r) /\ told'.text = row[r].text]_<<row, told>>
    BY MarkKept, ToldIsPresent
<1> QED BY <1>1, TypeCorrect, PTL DEF Spec, CondemnedForGood

-------------------------------------------------------------------------------
(* The index agrees with the rows. *)

Storable == {"none", "TEMPLATE_READY", "QUARANTINED"}
Phase    == IF pc \in EmbedSteps THEN loop ELSE pc

\* Rows of the latest date were never polished, so the refresh replaces what it finds.
FreshRows   == \A r \in fresh \ Bare : row[r].st \in Storable
StoreTodo   == Phase = "store" => \A r \in todo \ Bare : row[r].st \in Storable
\* What waits in the loop over pending rows is pending still.
PendingTodo == Phase = "pending" => todo \subseteq Pending(row)
\* A row whose chunks change is not marked as embedded, and its text is in hand.
InHand == pc \in {"delete", "upsert", "mark"} =>
    /\ row[cur].text = text /\ row[cur].st \in Indexable /\ row[cur].emb # "embedded"
    /\ cur \notin todo
\* Nothing is beside the chunks being written unless the deletion before it failed.
Written ==
    /\ pc = "upsert" => index[cur] = Empty \/ cur \in leftover
    /\ pc = "mark" => /\ \A i \in 1..Chunks[text] : index[cur][i] = text
                      /\ index[cur] = Whole(text) \/ cur \in leftover

IInv == TypeOK /\ IndexAgrees /\ FreshRows /\ StoreTodo /\ PendingTodo /\ InHand /\ Written

\* What IndexAgrees says of one row with one list of chunks, L being the leftovers.
Agrees(m, c, r, L) ==
    m.emb = "embedded" =>
        /\ m.st \in Indexable
        /\ \/ c \in {Empty, Whole(m.text)}
           \/ r \in L /\ \A i \in 1..Chunks[m.text] : c[i] = m.text

LEMMA AgreesByRow ==
    IndexAgrees <=> \A r \in Rows : Agrees(row[r], index[r], r, leftover)
BY DEF IndexAgrees, Complete, Agrees

LEMMA InitAgrees == Init => IInv
<1> SUFFICES ASSUME Init PROVE IInv
    OBVIOUS
<1>1. TypeOK
    BY InitTyped
<1>2. \A r \in Rows : row[r] = Absent \/ row[r] \in Inherited
    BY DEF Init
<1>3. IndexAgrees
    <2> SUFFICES ASSUME NEW r \in Rows, row[r].emb = "embedded"
                 PROVE  row[r].st \in Indexable /\ index[r] = Whole(row[r].text)
        BY DEF IndexAgrees
    <2>1. row[r].st = "ENRICHED"
        BY <1>2 DEF Absent, Inherited, Legacy
    <2> QED BY <2>1 DEF Init, Indexable
<1>4. FreshRows
    BY DEF Init, FreshRows, Storable, Absent
<1> QED BY <1>1, <1>3, <1>4
        DEF Init, IInv, StoreTodo, PendingTodo, InHand, Written, Phase, EmbedSteps

\* Chunks of an embedded row change only by being deleted all together, and a row is
\* marked as embedded after its chunks were written.
LEMMA AgreesKept == IInv /\ [Next]_vars => IndexAgrees'
<1> SUFFICES ASSUME IInv, [Next]_vars, NEW r \in Rows PROVE Agrees(row'[r], index'[r], r, leftover')
    BY DEF IndexAgrees, Complete, Agrees
<1>0. /\ Agrees(row[r], index[r], r, leftover) /\ row \in [Rows -> Memories] /\ row[r] \in Memories
      /\ index \in [Rows -> Chunked] /\ WriterTyped
    BY AgreesByRow DEF IInv, TypeOK, StoresTyped
<1> USE DEF chroma
<1>m. /\ \A m, c, L : m.emb # "embedded" => Agrees(m, c, r, L)
      /\ \A m, c, L, K : Agrees(m, c, r, L) => Agrees(m, Empty, r, K)
      /\ \A m, c, L, K : Agrees(m, c, r, L) /\ (r \in L => r \in K) => Agrees(m, c, r, K)
    BY DEF Agrees
<1>p. \A s \in Statuses, e \in Marks, t \in Texts :
        /\ [row[r] EXCEPT !.emb = e].emb = e
        /\ [row[r] EXCEPT !.st = s, !.emb = e].emb = e
        /\ [row[r] EXCEPT !.text = t, !.st = s, !.emb = e].emb = e
    BY <1>0 DEF Memories
<1>s. /\ Marks = {"pending", "embedded", "degraded", "quarantined"}
      /\ {"TEMPLATE_READY", "RAW_SYNC", "ENRICH_DEFERRED", "QUARANTINED"} \subseteq Statuses
    BY DEF Marks, Statuses
<1>1. ASSUME NEW j \in {"refresh", "nightly", "weekly"}, Start(j)
      PROVE  Agrees(row'[r], index'[r], r, leftover')
    <2>1. CASE row[r].emb = "embedded"
        <3>1. Promoted(r) = row[r]
            BY <1>0, <2>1 DEF Promoted, Agrees, Indexable
        <3> QED BY <1>0, <1>1, <3>1 DEF Start
    <2>2. CASE row[r].emb # "embedded"
        <3>1. Promoted(r).emb = row[r].emb
            BY <1>0 DEF Promoted, Memories
        <3> QED BY <1>1, <1>m, <2>2, <3>1 DEF Start
    <2> QED BY <2>1, <2>2
<1>2. CASE Sift
    <2>1. [row[r] EXCEPT !.st = "ENRICH_DEFERRED", !.emb = "quarantined"].emb = "quarantined"
        BY <1>p, <1>s
    <2>2. \/ row'[r] = row[r]
          \/ row'[r] = [row[r] EXCEPT !.st = "ENRICH_DEFERRED", !.emb = "quarantined"]
        BY <1>2 DEF Sift
    <2> QED BY <1>0, <1>2, <1>m, <2>1, <2>2 DEF Sift
<1>3. ASSUME NEW q \in Rows, Clean(q) \/ (Purge /\ q = cur)
      PROVE  Agrees(row'[r], index'[r], r, leftover')
    <2>1. row' = row /\ Remove(q)
        BY <1>3 DEF Clean, Purge, db
    <2>2. \/ index'[r] = Empty
          \/ index'[r] = index[r] /\ (r \in leftover => r \in leftover')
        BY <1>0, <2>1 DEF Remove
    <2> QED BY <1>0, <1>m, <2>1, <2>2
<1>4. ASSUME NEW q \in Rows, Store(q) PROVE Agrees(row'[r], index'[r], r, leftover')
    <2>1. \A t \in Texts, s \in {"RAW_SYNC", "TEMPLATE_READY"} :
            Stored(r, t, s) = row[r] \/ Stored(r, t, s).emb = "pending"
        BY <1>p, <1>s DEF Stored
    <2>2. \/ UNCHANGED row
          \/ \E t \in Texts, s \in {"RAW_SYNC", "TEMPLATE_READY"} :
                row' = [row EXCEPT ![q] = Stored(q, t, s)]
        BY <1>4, Zenon DEF Store, Texts
    <2>3. row'[r] = row[r] \/ row'[r].emb = "pending"
        BY <1>0, <2>1, <2>2
    <2> QED BY <1>0, <1>4, <1>m, <2>3 DEF Store
<1>5. CASE Backfill
    <2>1. Requeued[r] = row[r] \/ Requeued[r].emb = "pending"
        BY <1>p, <1>s DEF Requeued
    <2>2. row'[r] = row[r] \/ row'[r].emb = "pending"
        BY <1>5, <2>1 DEF Backfill
    <2> QED BY <1>0, <1>5, <1>m, <2>2 DEF Backfill
<1>6. ASSUME NEW q \in Rows, Attempt(q) PROVE Agrees(row'[r], index'[r], r, leftover')
    <2>1. CASE r # q \/ UNCHANGED row
        BY <1>0, <1>6, <2>1 DEF Attempt
    <2>2. CASE r = q /\ row' = [row EXCEPT ![q] = Deferred(q)]
        <3>1. Deferred(r).emb = row[r].emb
            BY <1>0 DEF Deferred, Memories
        <3>2. row[r].emb # "embedded"
            BY <1>0, <1>6, <2>2 DEF Attempt, Updatable, Agrees, Indexable
        <3> QED BY <1>0, <1>m, <2>2, <3>1, <3>2
    <2>3. CASE r = q /\ \E t \in Good : \/ row' = [row EXCEPT ![q] = Templated(q, t)]
                                       \/ row' = [row EXCEPT ![q] = Enriched(q, t)]
        <3>1. \A t \in Good : Templated(r, t).emb = "pending" /\ Enriched(r, t).emb = "pending"
            BY <1>0 DEF Templated, Enriched, Memories
        <3>2. row'[r].emb = "pending"
            BY <1>0, <2>3, <3>1
        <3> QED BY <1>m, <3>2
    <2> QED BY <1>6, <2>1, <2>2, <2>3 DEF Attempt
<1>7. CASE Delete \/ Upsert
    <2>1. CASE r = cur
        <3>1. row[r].emb # "embedded"
            BY <1>7, <2>1 DEF Delete, Upsert, IInv, InHand
        <3> QED BY <1>7, <1>m, <3>1 DEF Delete, Upsert, db
    <2>2. CASE r # cur
        <3>1. row' = row /\ index'[r] = index[r] /\ (r \in leftover => r \in leftover')
            BY <1>0, <1>7, <2>2 DEF Delete, Upsert, Remove, db
        <3> QED BY <1>0, <1>m, <3>1
    <2> QED BY <2>1, <2>2
<1>8. CASE Mark
    <2>1. CASE r = cur /\ row' = [row EXCEPT ![cur] = Marked(cur, "embedded")]
        <3>1. CASE Condemned(r)
            BY <1>0, <1>8, <2>1, <3>1 DEF Mark, Marked
        <3>2. CASE ~Condemned(r)
            <4>1. row'[r] = [row[r] EXCEPT !.emb = "embedded"]
                BY <1>0, <2>1, <3>2 DEF Marked
            <4>2. row'[r].text = row[r].text /\ row'[r].st = row[r].st
                BY <1>0, <4>1 DEF Memories
            <4>3. /\ index'[r] = index[r] /\ row[r].text = text /\ row[r].st \in Indexable
                  /\ \A i \in 1..Chunks[text] : index[r][i] = text
                  /\ index[r] = Whole(text) \/ r \in leftover'
                BY <1>8, <2>1 DEF Mark, IInv, InHand, Written
            <4> QED BY <4>2, <4>3 DEF Agrees
        <3> QED BY <3>1, <3>2
    <2>2. CASE r # cur \/ UNCHANGED row
        BY <1>0, <1>8, <2>2 DEF Mark
    <2> QED BY <1>8, <2>1, <2>2 DEF Mark
<1>9. CASE Degrade
    <2>1. Marked(r, "degraded") = row[r] \/ Marked(r, "degraded").emb # "embedded"
        BY <1>p, <1>s DEF Marked
    <2>2. row'[r] = row[r] \/ row'[r] = Marked(r, "degraded")
        BY <1>0, <1>9 DEF Degrade
    <2> QED BY <1>0, <1>9, <1>m, <2>1, <2>2 DEF Degrade
<1>10. ASSUME NEW q \in Rows, Condemn(q) PROVE Agrees(row'[r], index'[r], r, leftover')
    <2>1. row'[r] = row[r] \/ row'[r].emb = "quarantined"
        BY <1>0, <1>10, <1>p, <1>s DEF Condemn
    <2> QED BY <1>0, <1>10, <1>m, <2>1 DEF Condemn
<1>11. CASE Purge
    BY <1>3, <1>11 DEF Purge, IInv, TypeOK, WriterTyped
<1>12. CASE Lose
    BY <1>0, <1>12, <1>m DEF Lose, db
<1>13. CASE UNCHANGED <<row, chroma>>
    BY <1>0, <1>13
<1>14. Next => \/ UNCHANGED <<row, chroma>>
               \/ Sift \/ Backfill \/ Delete \/ Upsert \/ Mark \/ Degrade \/ Purge \/ Lose
               \/ \E j \in {"refresh", "nightly", "weekly"} : Start(j)
               \/ \E q \in Rows : Clean(q) \/ Store(q) \/ Attempt(q) \/ Condemn(q)
    BY DEF Next, WriterStep, Extract, EmbedPending, Finish, Query, Gate, NextDate, Crash, db
<1> QED BY <1>1, <1>2, <1>3, <1>4, <1>5, <1>6, <1>7, <1>8, <1>9, <1>10, <1>11, <1>12, <1>13,
           <1>14 DEF vars, db

\* A row of the latest date is replaced by the refresh only.
LEMMA FreshKept == IInv /\ [Next]_vars => FreshRows'
<1> SUFFICES ASSUME IInv, [Next]_vars, NEW r \in fresh' \ Bare PROVE row'[r].st \in Storable
    BY DEF FreshRows
<1>0. /\ row \in [Rows -> Memories] /\ WriterTyped /\ fresh \subseteq Rows
      /\ FreshRows /\ StoreTodo
    BY DEF IInv, TypeOK, StoresTyped
<1>1. CASE NextDate
    BY <1>1 DEF NextDate, Storable
<1>2. ASSUME ~NextDate PROVE r \in Rows /\ row[r] \in Memories /\ row[r].st \in Storable
    <2>1. fresh' = fresh
        BY <1>2 DEF Next, WriterStep, Start, Sift, Clean, Extract, Store, Backfill,
               EmbedPending, Finish, Attempt, Delete, Upsert, Mark, Degrade, Condemn, Purge,
               Query, Gate, Crash, Lose, db, vars
    <2> QED BY <1>0, <2>1 DEF FreshRows
<1> SUFFICES ASSUME ~NextDate PROVE row'[r].st \in Storable
    BY <1>1
<1>3. ASSUME NEW j \in {"refresh", "nightly", "weekly"}, Start(j) PROVE row'[r].st \in Storable
    BY <1>2, <1>3 DEF Start, Promoted, Storable
<1>4. CASE Sift
    BY <1>2, <1>4 DEF Sift, Storable
<1>5. ASSUME NEW q \in Rows, Store(q) PROVE row'[r].st \in Storable
    <2>1. \A t : Stored(r, t, "TEMPLATE_READY") = row[r]
                 \/ Stored(r, t, "TEMPLATE_READY").st = "TEMPLATE_READY"
        BY <1>2 DEF Stored, Memories
    <2>2. CASE UNCHANGED row \/ r # q
        BY <1>0, <1>2, <1>5, <2>2 DEF Store
    <2>3. CASE r = q /\ \E t \in Good : row' = [row EXCEPT ![q] = Stored(q, t, "TEMPLATE_READY")]
        BY <1>0, <1>2, <2>1, <2>3 DEF Storable
    <2> QED BY <1>5, <2>2, <2>3 DEF Store
<1>6. CASE Backfill
    <2>1. Requeued[r].st = row[r].st
        BY <1>2 DEF Requeued, Memories
    <2> QED BY <1>2, <1>6, <2>1 DEF Backfill
<1>7. ASSUME NEW q \in Rows, Attempt(q) PROVE row'[r].st \in Storable
    <2>1. r # q
        BY <1>2, <1>7 DEF Attempt, Updatable, Storable
    <2> QED BY <1>0, <1>2, <1>7, <2>1 DEF Attempt
<1>8. CASE Mark \/ Degrade
    <2>1. \A e : Marked(r, e).st = row[r].st
        BY <1>2 DEF Marked, Memories
    <2>2. row'[r] = row[r] \/ \E e : row'[r] = Marked(r, e)
        BY <1>0, <1>2, <1>8 DEF Mark, Degrade
    <2> QED BY <1>2, <2>1, <2>2
<1>9. ASSUME NEW q \in Rows, Condemn(q) PROVE row'[r].st \in Storable
    <2>1. [row[r] EXCEPT !.st = "QUARANTINED", !.emb = "quarantined"].st = "QUARANTINED"
        BY <1>2 DEF Memories
    <2> QED BY <1>0, <1>2, <1>9, <2>1 DEF Condemn, Storable
<1>10. CASE UNCHANGED row
    BY <1>2, <1>10
<1>11. Next => \/ UNCHANGED row \/ Sift \/ Backfill \/ Mark \/ Degrade
               \/ \E j \in {"refresh", "nightly", "weekly"} : Start(j)
               \/ \E q \in Rows : Store(q) \/ Attempt(q) \/ Condemn(q)
    BY DEF Next, WriterStep, Clean, Extract, EmbedPending, Finish, Delete, Upsert, Purge,
           Query, Gate, NextDate, Crash, Lose, db
<1> QED BY <1>3, <1>4, <1>5, <1>6, <1>7, <1>8, <1>9, <1>10, <1>11 DEF vars, db

\* A text that is embedded was written to its row by the same loop, or read from it.
LEMMA EmbedInHand ==
    ASSUME IInv, NEW r \in Rows, NEW t, NEW back, Embed(r, t, back),
           row'[r].text = t, row'[r].st \in Indexable, row'[r].emb # "embedded",
           r \notin todo', back \in {"store", "attempt", "pending"}
    PROVE  InHand' /\ Written'
BY DEF Embed, InHand, Written, EmbedSteps

\* What is in hand stays in hand from the deletion to the mark.
LEMMA HandKept == IInv /\ [Next]_vars => InHand' /\ Written'
<1> SUFFICES ASSUME IInv, [Next]_vars PROVE InHand' /\ Written'
    OBVIOUS
<1>0. row \in [Rows -> Memories] /\ index \in [Rows -> Chunked] /\ WriterTyped /\ InHand
      /\ Written /\ StoreTodo /\ PendingTodo
    BY DEF IInv, TypeOK, StoresTyped
<1>1. ASSUME NEW r \in Rows, Store(r) PROVE InHand' /\ Written'
    <2>1. CASE pc' = "store"
        BY <2>1 DEF InHand, Written
    <2>2. CASE /\ r \notin Bare /\ ~Immutable(r)
               /\ \E t \in Good : /\ row' = [row EXCEPT ![r] = Stored(r, t, "TEMPLATE_READY")]
                                  /\ Embed(r, t, "store")
        <3>1. PICK t \in Good : /\ row' = [row EXCEPT ![r] = Stored(r, t, "TEMPLATE_READY")]
                                /\ Embed(r, t, "store")
            BY <2>2
        <3>2. row[r].st \in Storable
            BY <1>0, <1>1, <2>2 DEF Store, StoreTodo, Phase, EmbedSteps
        <3>3. row'[r] = [row[r] EXCEPT !.text = t, !.st = "TEMPLATE_READY", !.emb = "pending"]
            BY <1>0, <3>1, <3>2 DEF Stored, Kept, Storable
        <3>4. /\ row'[r].text = t /\ row'[r].st = "TEMPLATE_READY" /\ row'[r].emb = "pending"
            BY <1>0, <3>3 DEF Memories
        <3>5. r \notin todo'
            BY <1>1 DEF Store
        <3> QED BY <3>1, <3>4, <3>5, EmbedInHand DEF Indexable
    <2> QED BY <1>1, <2>1, <2>2 DEF Store
<1>2. ASSUME NEW r \in Rows, EmbedPending(r) PROVE InHand' /\ Written'
    <2>1. r \in Pending(row)
        BY <1>0, <1>2 DEF EmbedPending, PendingTodo, Phase, EmbedSteps
    <2>2. row[r].st \in Indexable /\ row[r].emb # "embedded"
        BY <2>1 DEF Pending
    <2> QED BY <1>2, <2>2, EmbedInHand DEF EmbedPending, db
<1>3. ASSUME NEW r \in Rows, Attempt(r) PROVE InHand' /\ Written'
    <2>1. r \notin todo'
        BY <1>3 DEF Attempt
    <2>2. CASE pc' = "attempt"
        BY <2>2 DEF InHand, Written
    <2>3. CASE \E t \in Good : /\ \/ row' = [row EXCEPT ![r] = Templated(r, t)]
                                  \/ row' = [row EXCEPT ![r] = Enriched(r, t)]
                               /\ Embed(r, t, "attempt")
        <3>1. PICK t \in Good : /\ \/ row' = [row EXCEPT ![r] = Templated(r, t)]
                                   \/ row' = [row EXCEPT ![r] = Enriched(r, t)]
                                /\ Embed(r, t, "attempt")
            BY <2>3
        <3>2. /\ Templated(r, t).text = t /\ Templated(r, t).st = "TEMPLATE_READY"
              /\ Templated(r, t).emb = "pending"
              /\ Enriched(r, t).text = t /\ Enriched(r, t).st = "ENRICHED"
              /\ Enriched(r, t).emb = "pending"
            BY <1>0 DEF Templated, Enriched, Memories
        <3>3. row'[r] = Templated(r, t) \/ row'[r] = Enriched(r, t)
            BY <1>0, <3>1
        <3> QED BY <2>1, <3>1, <3>2, <3>3, EmbedInHand DEF Indexable
    <2> QED BY <1>3, <2>2, <2>3 DEF Attempt
<1>4. CASE Delete
    <2>1. InHand'
        BY <1>0, <1>4 DEF Delete, InHand, db, embed
    <2>2. cur \in Rows
        BY <1>0, <1>4 DEF Delete, WriterTyped, EmbedSteps
    <2>3. index'[cur] = Empty \/ cur \in leftover'
        BY <1>0, <1>4, <2>2 DEF Delete, Remove
    <2> QED BY <1>4, <2>1, <2>3 DEF Delete, Written, embed
<1>5. CASE Upsert
    <2>1. InHand'
        BY <1>0, <1>5 DEF Upsert, InHand, db, embed
    <2>2. CASE pc' = "mark"
        <3>1. cur \in Rows /\ text \in Texts
            BY <1>0, <1>5 DEF Upsert, WriterTyped, EmbedSteps, Texts
        <3>2. \A i \in 1..Chunks[text] : i \in Places /\ i <= Chunks[text]
            BY <3>1, RagAssumption DEF Places
        <3>3. \A i \in Places : i <= Chunks[text] => index'[cur][i] = text
            BY <1>0, <1>5, <2>2, <3>1 DEF Upsert
        <3>4. index'[cur] = Whole(text) \/ cur \in leftover'
            <4>1. CASE index[cur] = Empty
                <5>1. index'[cur] = [i \in Places |-> IF i <= Chunks[text] THEN text
                                                      ELSE Empty[i]]
                    BY <1>0, <1>5, <2>2, <3>1, <4>1 DEF Upsert
                <5>2. \A i \in Places : Empty[i] = None
                    BY DEF Empty
                <5> QED BY <5>1, <5>2 DEF Whole
            <4>2. CASE cur \in leftover
                BY <1>5, <4>2 DEF Upsert
            <4> QED BY <1>0, <1>5, <4>1, <4>2 DEF Upsert, Written
        <3> QED BY <1>5, <2>1, <2>2, <3>2, <3>3, <3>4 DEF Upsert, Written, embed
    <2>3. CASE pc' # "mark"
        BY <1>5, <2>1, <2>3 DEF Upsert, Written
    <2> QED BY <2>2, <2>3
<1>6. CASE Mark \/ Degrade
    BY <1>0, <1>6 DEF Mark, Degrade, WriterTyped, EmbedSteps, InHand, Written
<1>7. CASE Gate \/ NextDate \/ UNCHANGED vars \/ \E r \in Rows, i \in Places : Query(r, i)
    BY <1>0, <1>7 DEF Gate, NextDate, Query, InHand, Written, vars, db, chroma, embed
<1>8. CASE \/ Sift \/ Extract \/ Backfill \/ Finish \/ Purge \/ Crash
           \/ \E j \in {"refresh", "nightly", "weekly"} : Start(j)
           \/ \E r \in Rows : Clean(r) \/ Condemn(r)
    BY <1>8 DEF Sift, Extract, Backfill, Finish, Purge, Crash, Start, Clean, Condemn, InHand,
                Written
<1>9. CASE Lose
    BY <1>9 DEF Lose, InHand, Written
<1> QED
    BY <1>1, <1>2, <1>3, <1>4, <1>5, <1>6, <1>7, <1>8, <1>9 DEF Next, WriterStep

\* The rows a loop has before it keep what they were chosen for: the loop changes the
\* row in hand only, which it has taken off.
LEMMA TodoKept == IInv /\ [Next]_vars => StoreTodo' /\ PendingTodo'
<1> SUFFICES ASSUME IInv, [Next]_vars PROVE StoreTodo' /\ PendingTodo'
    OBVIOUS
<1>0. /\ row \in [Rows -> Memories] /\ WriterTyped /\ fresh \subseteq Rows
      /\ StoreTodo /\ PendingTodo /\ InHand /\ FreshRows
    BY DEF IInv, TypeOK, StoresTyped
<1> USE DEF StoreTodo, PendingTodo, Phase, EmbedSteps
<1>1. ASSUME NEW r \in Rows, Store(r) PROVE StoreTodo' /\ PendingTodo'
    <2>1. \A q \in todo' : q \in todo /\ q # r /\ row'[q] = row[q]
        BY <1>0, <1>1 DEF Store, WriterTyped
    <2>2. Phase = "store" /\ Phase' = "store"
        BY <1>0, <1>1 DEF Store, Embed, WriterTyped
    <2> QED BY <1>0, <2>1, <2>2
<1>2. ASSUME NEW r \in Rows, EmbedPending(r) PROVE StoreTodo' /\ PendingTodo'
    <2>1. todo' \subseteq todo /\ row' = row /\ Phase = "pending" /\ Phase' = "pending"
        BY <1>0, <1>2 DEF EmbedPending, Embed, WriterTyped, db
    <2> QED BY <1>0, <2>1 DEF Pending
<1>3. ASSUME NEW r \in Rows, Attempt(r) PROVE StoreTodo' /\ PendingTodo'
    <2>1. Phase' = "attempt"
        BY <1>0, <1>3 DEF Attempt, Embed, WriterTyped
    <2> QED BY <2>1
<1>4. CASE Extract
    BY <1>0, <1>4 DEF Extract, FreshRows, db
<1>5. CASE Backfill
    BY <1>0, <1>5 DEF Backfill
<1>6. CASE Delete \/ Upsert
    <2>1. todo' = todo /\ row' = row /\ Phase' = Phase
        BY <1>6 DEF Delete, Upsert, db
    <2> QED BY <1>0, <2>1 DEF Pending
<1>7. CASE Mark \/ Degrade
    <2>1. todo' = todo /\ Phase' = Phase /\ cur \in Rows
        BY <1>0, <1>7 DEF Mark, Degrade, WriterTyped
    <2>2. \A q \in Rows : q # cur => row'[q] = row[q]
        BY <1>0, <1>7 DEF Mark, Degrade
    <2>3. \A e \in Marks : Marked(cur, e).st = row[cur].st /\ Marked(cur, e).text = row[cur].text
        BY <1>0, <2>1 DEF Marked, Memories
    <2>4. Marked(cur, "degraded").emb \in {"quarantined", "degraded"}
        BY <1>0, <2>1 DEF Marked, Condemned, Memories
    <2>5. row'[cur].st = row[cur].st /\ row'[cur].text = row[cur].text
        BY <1>0, <1>7, <2>1, <2>3 DEF Mark, Degrade, Marks
    <2>6. CASE Phase = "store"
        BY <1>0, <2>1, <2>2, <2>5, <2>6 DEF WriterTyped
    <2>7. CASE Phase = "pending"
        <3>1. \A q \in todo : q \in Pending(row)
            BY <1>0, <2>7
        <3>2. ASSUME NEW q \in todo PROVE q \in Pending(row')
            <4>1. CASE q # cur
                BY <2>2, <3>1, <4>1 DEF Pending
            <4>2. CASE q = cur
                <5>1. pc = "degrade"
                    BY <1>0, <1>7, <4>2 DEF Mark, Degrade, InHand
                <5>2. row'[cur] = row[cur] \/ row'[cur] = Marked(cur, "degraded")
                    BY <1>0, <1>7, <2>1, <5>1 DEF Mark, Degrade
                <5>3. row[cur].emb \notin {"embedded", "quarantined"}
                    BY <3>1, <4>2 DEF Pending
                <5>4. row'[cur].emb \notin {"embedded", "quarantined"}
                    BY <1>0, <2>1, <5>2, <5>3 DEF Marked, Condemned, Memories
                <5> QED BY <2>1, <2>5, <3>1, <4>2, <5>4 DEF Pending
            <4> QED BY <4>1, <4>2
        <3> QED BY <2>1, <2>7, <3>2
    <2>8. CASE Phase \notin {"store", "pending"}
        BY <2>1, <2>8
    <2> QED BY <2>6, <2>7, <2>8
<1>8. CASE Gate \/ NextDate \/ UNCHANGED vars \/ \E r \in Rows, i \in Places : Query(r, i)
    <2>1. todo' = todo /\ row' = row /\ Phase' = Phase
        BY <1>8 DEF Gate, NextDate, Query, vars, db
    <2> QED BY <1>0, <2>1 DEF Pending
<1>9. CASE \/ Sift \/ Finish \/ Purge \/ Crash \/ Lose
           \/ \E j \in {"refresh", "nightly", "weekly"} : Start(j)
           \/ \E r \in Rows : Clean(r) \/ Condemn(r)
    <2>1. Phase' \notin {"store", "pending"}
        BY <1>9 DEF Sift, Finish, Purge, Crash, Lose, Start, Clean, Condemn
    <2> QED BY <2>1
<1> QED
    BY <1>1, <1>2, <1>3, <1>4, <1>5, <1>6, <1>7, <1>8, <1>9 DEF Next, WriterStep

\* IndexAgrees: a row marked as embedded is found under its present text or not at all
\* (embed_to_chroma, _mark_embedding_status, reconcile_embedding_inventory), whatever
\* crashes and failed calls there were.
THEOREM IndexFollowsRows == Spec => []IndexAgrees
<1>1. Init => IInv
    BY InitAgrees
<1>2. IInv /\ [Next]_vars => IInv'
    BY RowsTyped, IndexTyped, ProcessTyped, RestTyped, AgreesKept, FreshKept, HandKept,
       TodoKept DEF IInv, TypeOK, StoresTyped
<1>3. IInv => IndexAgrees
    BY DEF IInv
<1> QED BY <1>1, <1>2, <1>3, PTL DEF Spec
===============================================================================
