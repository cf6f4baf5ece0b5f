--------------------------- MODULE KnowledgeFiles ---------------------------
(***************************************************************************)
(* The life of one file of a knowledge base: added, parsed to Markdown,    *)
(* indexed into PostgreSQL and Milvus, brought up to date by kb_sync and   *)
(* deleted.                                                                *)
(*                                                                         *)
(* The API process and the ARQ worker each keep a copy of the file's       *)
(* metadata (files_meta); all decisions are made on that copy.  The row    *)
(* of knowledge_files is written from it with a snapshot that is taken     *)
(* when the copy changes and arrives later, and is read again only at the  *)
(* start of a process and by kb_sync.                                      *)
(*                                                                         *)
(* Contents are version numbers.  The Markdown is one object per file, and *)
(* chunk ids are made of the file's id, so the chunks of two versions may  *)
(* share ids.  Counters, folders and graphs are left out.                  *)
(***************************************************************************)
EXTENDS Naturals, Sequences, FiniteSets

CONSTANTS
    Tasks,          \* calls: Tasker coroutines, delete requests, kb_sync jobs
    Processes,      \* the processes with a copy of the metadata
    ProcessOf,      \* the process a call runs in
    Jobs,           \* the calls a task may be
    Api,            \* the process of the HTTP server and its Tasker
    MaxVersions,    \* bound: versions of the source document
    MaxMishaps      \* bound: calls of a store, a parser or a model that raise,
                    \* restarts, and jobs cancelled by ARQ

ASSUME ProcessAssumption == ProcessOf \in [Tasks -> Processes] /\ Api \in Processes
ASSUME BoundsAssumption == MaxVersions \in Nat \ {0} /\ MaxMishaps \in Nat

VARIABLES
    row,        \* the row of knowledge_files
    fresh,      \* history: the processes whose copy is as new as the row
    mem,        \* files_meta of each process
    queue,      \* whether the file is in a process's _processing_files
    lock,       \* _metadata_lock of each process
    obj,        \* the version in the Markdown object, 0 for none
    pg, mv,     \* the versions with chunks in PostgreSQL and in Milvus
    task,       \* each call: its stages left, its place, its locals
    deleted,    \* history: "no", "begun" or "done"
    marks,      \* history: what disturbed the file, see Disturbed
    mishaps

copies  == <<mem, queue, lock>>
stores  == <<obj, pg, mv>>
history == <<deleted, marks>>
vars == <<row, fresh, copies, stores, task, history, mishaps>>

NoFile == [status |-> "none", hash |-> 0, md |-> FALSE]
File(s, h, m) == [status |-> s, hash |-> h, md |-> m]

(* The calls, as the stages they go through: run_ingest, run_parse,         *)
(* run_index (with new parameters), the delete routes; and kb_sync.        *)
Ingest   == <<"add", "parse", "params", "index">>
Parsing  == <<"parse">>
Indexing == <<"params", "index">>
Deletion == <<"delete">>
Sync     == <<"load", "fetch", "parse", "index">>

(* A sync reloads the whole copy of its process; the worker runs no other  *)
(* call of these, and two syncs at once are left out.                      *)
ASSUME JobsAssumption ==
    /\ Jobs \in [Tasks -> SUBSET {Ingest, Parsing, Indexing, Deletion, Sync}]
    /\ \A t, u \in Tasks :
           Sync \in Jobs[t] /\ ProcessOf[t] = ProcessOf[u] => t = u

NewTask == [todo |-> <<>>, at |-> "new", snap |-> NoFile, ver |-> 0]

(* A file that is not there yet, or one that was indexed before. *)
Init ==
    /\ row \in {NoFile, File("indexed", 1, TRUE)}
    /\ fresh = Processes
    /\ mem = [p \in Processes |-> row]
    /\ queue = [p \in Processes |-> FALSE] /\ lock = [p \in Processes |-> FALSE]
    /\ obj = row.hash /\ pg = {row.hash} \ {0} /\ mv = pg
    /\ task = [t \in Tasks |-> NewTask]
    /\ deleted = "no" /\ marks = {} /\ mishaps = 0

-----------------------------------------------------------------------------
(* Places, stages and copies. *)

At(t, place) == task[t].at = place
Stage(t)     == Head(task[t].todo)
Starts(t, stage) == At(t, "start") /\ Stage(t) = stage
Meta(t)      == mem[ProcessOf[t]]
Known(t)     == Meta(t) # NoFile

Goes(t, place) == task' = [task EXCEPT ![t].at = place, ![t].snap = NoFile]

(* A stage is done; the call goes on to the next one. *)
Finish(t) == task' = [task EXCEPT ![t] =
    [NewTask EXCEPT !.todo = Tail(task[t].todo),
                    !.at = IF Len(task[t].todo) = 1 THEN "over" ELSE "start"]]

(* A stage raised: the call gives up this file. *)
GiveUp(t) == task' = [task EXCEPT ![t] = [NewTask EXCEPT !.at = "over"]]

(* The copy changes and _persist_file takes its snapshot, before any await. *)
Sets(t, new, place) ==
    /\ mem' = [mem EXCEPT ![ProcessOf[t]] = new]
    /\ task' = [task EXCEPT ![t].at = place, ![t].snap = new]

MarkQueue(t)   == queue' = [queue EXCEPT ![ProcessOf[t]] = TRUE]
UnmarkQueueKept(t) == UNCHANGED queue
UnmarkQueue(t) == queue' = [queue EXCEPT ![ProcessOf[t]] = FALSE]
Locks(t)       == ~lock[ProcessOf[t]] /\ lock' = [lock EXCEPT ![ProcessOf[t]] = TRUE]
LockIsFree(t)  == ~lock[ProcessOf[t]]
Unlocks(t)     == lock' = [lock EXCEPT ![ProcessOf[t]] = FALSE]

Live(t) == task[t].at \notin {"new", "over"}

(* A stage starts while a call of the other process is under way, or while  *)
(* the file is being deleted.                                              *)
Clash(t) == \E u \in Tasks \ {t} : Live(u) /\
    \/ ProcessOf[u] # ProcessOf[t]
    \/ ~At(u, "start") /\ "delete" \in {Stage(u), Stage(t)}
Begins(t) == marks' = marks \cup {m \in {"exposed"} : Clash(t)}

(* KnowledgeFileRepository.upsert: the snapshot arrives.  It is stale if    *)
(* the other process has written since this copy was read, or if the copy  *)
(* has changed meanwhile.                                                  *)
Persist(t) ==
    /\ row' = task[t].snap
    /\ fresh' = {ProcessOf[t]}
    /\ marks' = marks \cup {m \in {"exposed"} :
                    ProcessOf[t] \notin fresh \/ task[t].snap # Meta(t)}

(* A call has set "parsing" or "indexing" and is not done with it. *)
Working(t) ==
    \/ task[t].at \in {"parseSave", "parse", "indexSave", "read", "store", "stored",
                       "indexError"}
    \/ task[t].at \in {"clearPg", "clearMv", "countSave"} /\ Stage(t) = "index"

(* A call holds _metadata_lock. *)
InLock(t) == task[t].at \in {"indexSave", "unparsedSave", "indexedSave", "indexErrorSave",
                              "removeRow"}

(* A call is in the try statement whose finally clause takes its mark away. *)
InTry(t) == \/ Working(t) /\ task[t].at \notin {"parseSave", "indexSave"}
            \/ task[t].at \in {"parsedSave", "parseErrorSave", "indexUndo", "indexedSave",
                                "indexErrorSave"}

(* The handler of a failed write of "parsed" or "indexed" sets an error     *)
(* status, though the status was visible and another call may work on it.  *)
Undoes(t) == marks' = marks \cup {m \in {"repaired"} :
    \E u \in Tasks \ {t} : ProcessOf[u] = ProcessOf[t] /\ Working(u)}

(* A call raises, a process stops, a job is cancelled. *)
Mishap == mishaps < MaxMishaps /\ mishaps' = mishaps + 1

Submit(t, job) ==
    /\ At(t, "new") /\ job \in Jobs[t]
    /\ job = Ingest => row = NoFile /\ deleted = "no" /\ \A u \in Tasks : At(u, "new")
    /\ task' = [task EXCEPT ![t].todo = job, ![t].at = "start"]
    /\ UNCHANGED <<row, fresh, copies, stores, history, mishaps>>

-----------------------------------------------------------------------------
(* add_file_record and update_file_params. *)

AddRecord(t) ==
    /\ Starts(t, "add")
    /\ Sets(t, File("uploaded", 1, FALSE), "addSave")
    /\ Begins(t)
    /\ UNCHANGED <<row, fresh, queue, lock, stores, deleted, mishaps>>

ParamsUpdate(t) ==
    /\ Starts(t, "params")
    /\ IF Known(t) THEN Sets(t, Meta(t), "paramsSave") ELSE GiveUp(t) /\ UNCHANGED mem
    /\ Begins(t)
    /\ UNCHANGED <<row, fresh, queue, lock, stores, deleted, mishaps>>

RecordSaved(t) ==
    /\ task[t].at \in {"addSave", "paramsSave", "syncSave"}
    /\ Persist(t) /\ Finish(t)
    /\ UNCHANGED <<copies, stores, deleted, mishaps>>

RecordRaises(t) ==
    /\ task[t].at \in {"addSave", "paramsSave", "syncSave"}
    /\ Mishap /\ GiveUp(t)
    /\ UNCHANGED <<row, fresh, copies, stores, history>>

-----------------------------------------------------------------------------
(* parse_file. *)

MayParse(s) == s \in {"uploaded", "error_parsing"}

ParseBegins(t) ==
    /\ Starts(t, "parse")
    /\ IF Known(t) /\ MayParse(Meta(t).status)
       THEN /\ mem' = [mem EXCEPT ![ProcessOf[t]].status = "parsing"]
            /\ task' = [task EXCEPT ![t].at = "parseSave", ![t].ver = Meta(t).hash,
                                    ![t].snap = mem'[ProcessOf[t]]]
       ELSE GiveUp(t) /\ UNCHANGED mem
    /\ Begins(t)
    /\ UNCHANGED <<row, fresh, queue, lock, stores, deleted, mishaps>>

(* Only now is the file in the set of files being processed. *)
ParseSaved(t) ==
    /\ At(t, "parseSave")
    /\ Persist(t) /\ MarkQueue(t) /\ Goes(t, "parse")
    /\ UNCHANGED <<mem, lock, stores, deleted, mishaps>>

(* That write is outside the try: the copy stays "parsing", unqueued. *)
ParseSaveRaises(t) ==
    /\ At(t, "parseSave")
    /\ Mishap /\ GiveUp(t)
    /\ UNCHANGED <<row, fresh, copies, stores, history>>

(* The Markdown is stored; a file deleted meanwhile is a KeyError, which    *)
(* the except clause runs into a second time.                              *)
ParseDone(t) ==
    /\ At(t, "parse")
    /\ obj' = task[t].ver
    /\ IF Known(t)
       THEN Sets(t, File("parsed", Meta(t).hash, TRUE), "parsedSave") /\ UNCHANGED queue
       ELSE GiveUp(t) /\ UnmarkQueue(t) /\ UNCHANGED mem
    /\ UNCHANGED <<row, fresh, lock, pg, mv, history, mishaps>>

(* The parser, the object store, or the write of "parsed" raises. *)
ParseFails(t) ==
    /\ task[t].at \in {"parse", "parsedSave"}
    /\ Mishap
    /\ IF At(t, "parsedSave") THEN Undoes(t) ELSE UNCHANGED marks
    /\ IF Known(t)
       THEN Sets(t, [Meta(t) EXCEPT !.status = "error_parsing"], "parseErrorSave")
            /\ UNCHANGED queue
       ELSE GiveUp(t) /\ UnmarkQueue(t) /\ UNCHANGED mem
    /\ UNCHANGED <<row, fresh, lock, stores, deleted>>

ParseEnds(t) ==
    /\ task[t].at \in {"parsedSave", "parseErrorSave"}
    /\ Persist(t) /\ UnmarkQueue(t)
    /\ IF At(t, "parsedSave") THEN Finish(t) ELSE GiveUp(t)
    /\ UNCHANGED <<mem, lock, stores, deleted, mishaps>>

-----------------------------------------------------------------------------
(* index_file; the status is tested and set under _metadata_lock. *)

MayIndexAnyway(s) == s # "uploaded"
MayIndex(s) == s \in {"parsed", "error_indexing", "indexed"}

IndexBegins(t) ==
    /\ Starts(t, "index")
    /\ LockIsFree(t)
    /\ IF Known(t) /\ MayIndex(Meta(t).status)
       THEN /\ Locks(t)
            /\ IF Meta(t).md
               THEN Sets(t, [Meta(t) EXCEPT !.status = "indexing"], "indexSave")
               ELSE Sets(t, File("uploaded", Meta(t).hash, FALSE), "unparsedSave")
       ELSE GiveUp(t) /\ UNCHANGED <<mem, lock>>
    /\ Begins(t)
    /\ UNCHANGED <<row, fresh, queue, stores, deleted, mishaps>>

IndexSaved(t) ==
    /\ task[t].at \in {"indexSave", "unparsedSave"}
    /\ Persist(t) /\ Unlocks(t)
    /\ IF At(t, "indexSave") THEN MarkQueue(t) /\ Goes(t, "read")
                             ELSE GiveUp(t) /\ UNCHANGED queue
    /\ UNCHANGED <<mem, stores, deleted, mishaps>>

IndexSaveRaises(t) ==
    /\ task[t].at \in {"indexSave", "unparsedSave"}
    /\ Mishap /\ Unlocks(t) /\ GiveUp(t)
    /\ UNCHANGED <<row, fresh, mem, queue, stores, history>>

(* The Markdown is read; without an object the read raises. *)
IndexReads(t) ==
    /\ At(t, "read")
    /\ task' = [task EXCEPT ![t].ver = obj, ![t].at = IF obj = 0 THEN "indexError" ELSE "clearPg"]
    /\ UNCHANGED <<row, fresh, copies, stores, history, mishaps>>

(* Chunks are embedded and written to both stores.  PostgreSQL upserts      *)
(* them by id, so those of another version may be replaced or left.        *)
IndexStores(t) ==
    /\ At(t, "store")
    /\ \E kept \in {{}, pg} : pg' = kept \cup {task[t].ver}
    /\ mv' = mv \cup {task[t].ver}
    /\ Goes(t, "stored")
    /\ UNCHANGED <<row, fresh, copies, obj, history, mishaps>>

(* One store fails and both are rolled back, or the model fails between     *)
(* two batches and nothing is.                                             *)
IndexStoreRaises(t) ==
    /\ At(t, "store")
    /\ Mishap
    /\ pg' \in {{}, pg \cup {task[t].ver}}
    /\ mv' \in {{}, mv \cup {task[t].ver}}
    /\ Goes(t, "indexError")
    /\ UNCHANGED <<row, fresh, copies, obj, history>>

(* Under the lock: the status, or the KeyError of a file deleted meanwhile, *)
(* whose handler meets it again.                                           *)
SetIndexed(t) ==
    /\ task[t].at \in {"stored", "indexError", "indexUndo"}
    /\ LockIsFree(t)
    /\ IF At(t, "indexUndo") THEN Undoes(t) ELSE UNCHANGED marks
    /\ IF Known(t)
       THEN /\ Locks(t) /\ UNCHANGED queue
            /\ IF At(t, "stored")
               THEN Sets(t, [Meta(t) EXCEPT !.status = "indexed"], "indexedSave")
               ELSE Sets(t, [Meta(t) EXCEPT !.status = "error_indexing"], "indexErrorSave")
       ELSE GiveUp(t) /\ UnmarkQueue(t) /\ UNCHANGED <<mem, lock>>
    /\ UNCHANGED <<row, fresh, stores, deleted, mishaps>>

IndexEnds(t) ==
    /\ task[t].at \in {"indexedSave", "indexErrorSave"}
    /\ Persist(t) /\ Unlocks(t) /\ UnmarkQueue(t)
    /\ IF At(t, "indexedSave") THEN Finish(t) ELSE GiveUp(t)
    /\ UNCHANGED <<mem, stores, deleted, mishaps>>

(* A read, a deletion of chunks in PostgreSQL or a write of the row inside  *)
(* the try raises.                                                         *)
IndexFails(t) ==
    /\ \/ At(t, "read") /\ Goes(t, "indexError") /\ UNCHANGED lock
       \/ /\ task[t].at \in {"clearPg", "countSave"} /\ Stage(t) = "index"
          /\ Goes(t, "indexError") /\ UNCHANGED lock
       \/ At(t, "indexedSave") /\ Goes(t, "indexUndo") /\ Unlocks(t)
    /\ Mishap
    /\ UNCHANGED <<row, fresh, mem, queue, stores, history>>

(* The write of an error status raises too: only the finally clause runs. *)
ErrorSaveRaises(t) ==
    /\ \/ At(t, "parseErrorSave") /\ UNCHANGED lock
       \/ At(t, "indexErrorSave") /\ Unlocks(t)
    /\ Mishap /\ UnmarkQueue(t) /\ GiveUp(t)
    /\ UNCHANGED <<row, fresh, mem, stores, history>>

-----------------------------------------------------------------------------
(* delete_file_chunks_only, for re-indexing and for deletion. *)

AfterClear(t) == IF Stage(t) = "index" THEN "store" ELSE "remove"

ClearsPg(t) ==
    /\ At(t, "clearPg")
    /\ pg' = {} /\ Goes(t, "clearMv")
    /\ UNCHANGED <<row, fresh, copies, obj, mv, history, mishaps>>

EmptyMilvusKept == mv
EmptyMilvus == {}

(* Errors of Milvus are logged and swallowed.  The counts are written if    *)
(* the file is still known.                                                *)
ClearsMilvus(t) ==
    /\ At(t, "clearMv")
    /\ \/ mv' = EmptyMilvus /\ UNCHANGED <<marks, mishaps>>
       \/ Mishap /\ marks' = marks \cup {"exposed"} /\ UNCHANGED mv
    /\ IF Known(t) THEN Sets(t, Meta(t), "countSave")
                   ELSE Goes(t, AfterClear(t)) /\ UNCHANGED mem
    /\ UNCHANGED <<row, fresh, queue, lock, obj, pg, deleted>>

CountSaved(t) ==
    /\ At(t, "countSave")
    /\ Persist(t) /\ Goes(t, AfterClear(t))
    /\ UNCHANGED <<copies, stores, deleted, mishaps>>

-----------------------------------------------------------------------------
(* The delete routes: objects, chunks, then the copy and the row. *)

DeleteBegins(t) ==
    /\ Starts(t, "delete")
    /\ IF Known(t) THEN obj' = 0 /\ Goes(t, "clearPg") /\ deleted' = "begun"
                   ELSE GiveUp(t) /\ UNCHANGED <<obj, deleted>>
    /\ Begins(t)
    /\ UNCHANGED <<row, fresh, copies, pg, mv, mishaps>>

DeleteRemoves(t) ==
    /\ At(t, "remove")
    /\ LockIsFree(t)
    /\ IF Known(t)
       THEN Locks(t) /\ mem' = [mem EXCEPT ![ProcessOf[t]] = NoFile] /\ Goes(t, "removeRow")
       ELSE GiveUp(t) /\ UNCHANGED <<mem, lock>>
    /\ UNCHANGED <<row, fresh, queue, stores, history, mishaps>>

DeleteEnds(t) ==
    /\ At(t, "removeRow")
    /\ row' = NoFile /\ fresh' = {ProcessOf[t]} /\ deleted' = "done"
    /\ Unlocks(t) /\ Finish(t)
    /\ UNCHANGED <<mem, queue, stores, marks, mishaps>>

(* PostgreSQL raises: the route answers 400. *)
DeleteRaises(t) ==
    /\ \/ task[t].at \in {"clearPg", "countSave"} /\ Stage(t) = "delete" /\ UNCHANGED lock
       \/ At(t, "removeRow") /\ Unlocks(t)
    /\ Mishap /\ GiveUp(t)
    /\ UNCHANGED <<row, fresh, mem, queue, stores, history>>

-----------------------------------------------------------------------------
(* kb_sync in the worker. *)

(* _load_metadata: the copy is read from the rows. *)
SyncLoads(t) ==
    /\ Starts(t, "load")
    /\ mem' = [mem EXCEPT ![ProcessOf[t]] = row]
    /\ fresh' = fresh \cup {ProcessOf[t]}
    /\ IF row = NoFile THEN GiveUp(t) ELSE Finish(t)
    /\ Begins(t)
    /\ UNCHANGED <<row, queue, lock, stores, deleted, mishaps>>

(* The document is fetched; if it has changed the record starts over.  The  *)
(* statuses of other calls are not looked at.                              *)
SyncRecordKept(v) == File("indexed", v, TRUE)
SyncRecord(v) == File("uploaded", v, FALSE)

SyncFetches(t) ==
    /\ Starts(t, "fetch")
    /\ \/ /\ Known(t)
          /\ \E v \in Meta(t).hash + 1 .. MaxVersions :
                Sets(t, SyncRecord(v), "syncSave")
       \/ GiveUp(t) /\ UNCHANGED mem
    /\ Begins(t)
    /\ UNCHANGED <<row, fresh, queue, lock, stores, deleted, mishaps>>

-----------------------------------------------------------------------------
(* Repairs, restarts and cancelled jobs. *)

Broken == [parsing |-> "error_parsing", indexing |-> "error_indexing"]

(* _check_and_fix_processing_status, whenever the knowledge base is looked  *)
(* at: in memory only, the row is not written.                             *)
Repair(p) ==
    /\ mem[p].status \in DOMAIN Broken /\ ~queue[p]
    /\ mem' = [mem EXCEPT ![p].status = Broken[@]]
    /\ marks' = marks \cup {m \in {"repaired"} :
                    \E t \in Tasks : ProcessOf[t] = p /\ Working(t)}
    /\ UNCHANGED <<row, fresh, queue, lock, stores, task, deleted, mishaps>>

Restart(p) ==
    /\ Mishap
    /\ mem' = [mem EXCEPT ![p] = row]
    /\ fresh' = fresh \cup {p}
    /\ queue' = [queue EXCEPT ![p] = FALSE] /\ lock' = [lock EXCEPT ![p] = FALSE]
    /\ task' = [t \in Tasks |-> IF ProcessOf[t] = p /\ Live(t)
                                THEN [NewTask EXCEPT !.at = "over"] ELSE task[t]]
    /\ UNCHANGED <<row, stores, history>>

(* ARQ cancels the job (job_timeout): CancelledError is no Exception, so    *)
(* of the handlers only the finally clause runs.                           *)
SyncCancelled(t) ==
    /\ ProcessOf[t] # Api /\ Live(t)
    /\ Mishap /\ GiveUp(t)
    /\ IF InTry(t) THEN UnmarkQueue(t) ELSE UNCHANGED queue
    /\ IF InLock(t) THEN Unlocks(t) ELSE UNCHANGED lock
    /\ UNCHANGED <<row, fresh, mem, stores, history>>

-----------------------------------------------------------------------------
Steps(t) ==
    \/ AddRecord(t) \/ ParamsUpdate(t) \/ RecordSaved(t)
    \/ ParseBegins(t) \/ ParseSaved(t) \/ ParseDone(t) \/ ParseEnds(t)
    \/ IndexBegins(t) \/ IndexSaved(t) \/ IndexReads(t) \/ IndexStores(t)
    \/ SetIndexed(t) \/ IndexEnds(t)
    \/ ClearsPg(t) \/ ClearsMilvus(t) \/ CountSaved(t)
    \/ DeleteBegins(t) \/ DeleteRemoves(t) \/ DeleteEnds(t)
    \/ SyncLoads(t) \/ SyncFetches(t)

Failures(t) ==
    \/ RecordRaises(t) \/ ParseSaveRaises(t) \/ ParseFails(t)
    \/ IndexSaveRaises(t) \/ IndexStoreRaises(t) \/ IndexFails(t) \/ ErrorSaveRaises(t)
    \/ DeleteRaises(t) \/ SyncCancelled(t)

Next ==
    \/ \E t \in Tasks : Steps(t) \/ Failures(t) \/ \E job \in Jobs[t] : Submit(t, job)
    \/ \E p \in Processes : Repair(p) \/ Restart(p)

Spec == Init /\ [][Next]_vars

-----------------------------------------------------------------------------
(* Properties. *)

(* At most one call of a process works on the file: the status is tested    *)
(* and set without an await in between.  The exceptions are a file that was *)
(* repaired under its call, which is not in the set of files being          *)
(* processed yet (its mark is made after the row is written), or no longer  *)
(* (the set has one mark for the two calls that overlap at a hand-over),    *)
(* and a final status that was taken back after another call had built on   *)
(* it.                                                                     *)
OneAtATime ==
    \A t, u \in Tasks :
        t # u /\ ProcessOf[t] = ProcessOf[u] /\ Working(t) /\ Working(u)
            => "repaired" \in marks

(* What the code does not protect a file from: "exposed", by calls of both  *)
(* processes, a deletion beside another call, a row written from an old    *)
(* copy, or an error of Milvus that was swallowed; and "repaired", by a     *)
(* repair or a handler that set its status under a call at work.           *)
Disturbed == marks # {}

(* An "indexed" row of an undisturbed file is searched by what it says:     *)
(* both stores hold the chunks of the Markdown object and no others, and    *)
(* the Markdown is of the version the row records, through re-indexing,     *)
(* kb_sync, raising calls, cancelled jobs and restarts.                    *)
IndexedIsSearchable ==
    row.status = "indexed" /\ deleted = "no" /\ ~Disturbed =>
        obj = row.hash /\ pg = {obj} /\ mv = {obj}

(* A deleted file leaves nothing behind and does not come back: no row, no  *)
(* object, no chunks.                                                      *)
DeletedIsGone ==
    deleted = "done" /\ ~Disturbed => row = NoFile /\ obj = 0 /\ pg = {} /\ mv = {}

(* The set of files being processed and the lock are left to nobody: the    *)
(* file is in the set only while a call is in its try statement, so that    *)
(* one that a raising, cancelled or restarted call left "parsing" or        *)
(* "indexing" can be repaired, and the lock is held by one call.            *)
NothingIsLeftHeld == \A p \in Processes :
    /\ queue[p] => \E t \in Tasks : ProcessOf[t] = p /\ InTry(t)
    /\ lock[p] => \E t \in Tasks : ProcessOf[t] = p /\ InLock(t)
    /\ \A t, u \in Tasks : t # u /\ ProcessOf[t] = ProcessOf[u] => ~(InLock(t) /\ InLock(u))
=============================================================================
