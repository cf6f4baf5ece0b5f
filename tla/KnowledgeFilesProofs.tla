------------------------ MODULE KnowledgeFilesProofs ------------------------
(* Proofs about KnowledgeFiles for any number of calls and processes, and  *)
(* for every value of the bounds.                                          *)
EXTENDS KnowledgeFiles, TLAPS

-----------------------------------------------------------------------------
(* Types, and what is left of a call                                       *)

(* The stages a call can have left. *)
Rests == {<<>>, Ingest, <<"parse", "params", "index">>, Indexing, <<"index">>, Parsing,
          Deletion, Sync, <<"fetch", "parse", "index">>, <<"parse", "index">>}

(* The statuses of a file, and the places of a call. *)
Statuses == {"none", "uploaded", "parsing", "parsed", "error_parsing", "indexing",
             "indexed", "error_indexing"}
Files == [status : Statuses, hash : Nat, md : BOOLEAN]

Places == {"new", "start", "over", "addSave", "paramsSave", "syncSave", "parseSave", "parse",
           "parsedSave", "parseErrorSave", "indexSave", "unparsedSave", "read", "clearPg",
           "clearMv", "countSave", "store", "stored", "indexError", "indexUndo",
           "indexedSave", "indexErrorSave", "remove", "removeRow"}
Calls == [todo : Rests, at : Places, snap : Files, ver : Nat]

(* What comes after a stage; only a sync fetches, and loads first. *)
Left(todo) ==
    /\ Tail(todo) \in Rests
    /\ Len(todo) # 1 => /\ Tail(todo) # <<>>
                        /\ Head(Tail(todo)) \notin {"add", "load"}
                        /\ Head(Tail(todo)) = "fetch" => Head(todo) = "load"

(* By the list of calls. *)
LEMMA RestOfCall ==
    ASSUME NEW todo \in Rests, todo # <<>>
    PROVE  Left(todo)
<1> USE DEF Left, Ingest, Parsing, Indexing, Deletion, Sync
<1>1. CASE todo = Ingest
  <2>1. Tail(todo) = <<"parse", "params", "index">>
    BY <1>1
  <2> QED
    BY <2>1 DEF Rests
<1>2. CASE todo = <<"parse", "params", "index">>
  <2>1. Tail(todo) = Indexing
    BY <1>2
  <2> QED
    BY <2>1 DEF Rests
<1>3. CASE todo = Indexing
  <2>1. Tail(todo) = <<"index">>
    BY <1>3
  <2> QED
    BY <2>1 DEF Rests
<1>4. CASE todo = Sync
  <2>1. Tail(todo) = <<"fetch", "parse", "index">>
    BY <1>4
  <2> QED
    BY <2>1 DEF Rests
<1>5. CASE todo = <<"fetch", "parse", "index">>
  <2>1. Tail(todo) = <<"parse", "index">>
    BY <1>5
  <2> QED
    BY <2>1 DEF Rests
<1>6. CASE todo = <<"parse", "index">>
  <2>1. Tail(todo) = <<"index">>
    BY <1>6
  <2> QED
    BY <2>1 DEF Rests
<1>7. CASE todo = <<"index">>
  <2>1. Len(todo) = 1 /\ Tail(todo) = <<>>
    BY <1>7
  <2> QED
    BY <2>1 DEF Rests
<1>8. CASE todo = Parsing
  <2>1. Len(todo) = 1 /\ Tail(todo) = <<>>
    BY <1>8
  <2> QED
    BY <2>1 DEF Rests
<1>9. CASE todo = Deletion
  <2>1. Len(todo) = 1 /\ Tail(todo) = <<>>
    BY <1>9
  <2> QED
    BY <2>1 DEF Rests
<1> QED
  BY <1>1, <1>2, <1>3, <1>4, <1>5, <1>6, <1>7, <1>8, <1>9 DEF Rests

(* The stage after this one. *)
LEMMA NextStage ==
    ASSUME NEW todo \in Rests, todo # <<>>, Len(todo) # 1
    PROVE  /\ Tail(todo) # <<>> /\ Head(Tail(todo)) \notin {"add", "load"}
           /\ Head(Tail(todo)) = "fetch" => Head(todo) = "load"
  BY RestOfCall DEF Left

(* The first stage tells ingestion and kb_sync from the other calls. *)
LEMMA JobRest ==
    ASSUME NEW job \in {Ingest, Parsing, Indexing, Deletion, Sync}
    PROVE  /\ job \in Rests /\ job # <<>>
           /\ Head(job) = "add" => job = Ingest
           /\ Head(job) \in {"load", "fetch"} => job = Sync
  BY DEF Rests, Ingest, Parsing, Indexing, Deletion, Sync

(* A step of t changes no other call, and takes t to a place. *)
OthersKept(t) == \A u \in Tasks \ {t} : task'[u] = task[u]
Moved(t, place) ==
    /\ task' \in [Tasks -> Calls]
    /\ task'[t].at = place /\ task'[t].todo = task[t].todo /\ Stage(t)' = Stage(t)
    /\ OthersKept(t)

(* A file that is not there has the type of a file. *)
LEMMA NoFileType == NoFile \in Files
  BY DEF NoFile, Files, Statuses

(* What Goes, Sets, GiveUp and Finish do. *)
LEMMA Going ==
    ASSUME NEW t \in Tasks, task \in [Tasks -> Calls], NEW place \in Places, Goes(t, place)
    PROVE  Moved(t, place)
  BY NoFileType DEF Goes, Moved, OthersKept, Calls, Stage

(* The copy and the place. *)
LEMMA Setting ==
    ASSUME NEW t \in Tasks, task \in [Tasks -> Calls], mem \in [Processes -> Files],
           NEW new \in Files, NEW place \in Places, Sets(t, new, place)
    PROVE  /\ Moved(t, place)
           /\ mem' \in [Processes -> Files]
           /\ Meta(t)' = new
           /\ \A p \in Processes : p # ProcessOf[t] => mem'[p] = mem[p]
  BY ProcessAssumption DEF Sets, Moved, OthersKept, Calls, Meta, Stage

(* The call is over. *)
LEMMA GivingUp ==
    ASSUME NEW t \in Tasks, task \in [Tasks -> Calls], GiveUp(t)
    PROVE  task' \in [Tasks -> Calls] /\ task'[t].at = "over" /\ OthersKept(t)
<1>1. [NewTask EXCEPT !.at = "over"] \in Calls
  BY NoFileType DEF NewTask, Calls, Rests, Places
<1> QED
  BY <1>1 DEF GiveUp, OthersKept, NewTask

(* The call goes on with its next stage, or is over. *)
LEMMA Finishing ==
    ASSUME NEW t \in Tasks, task \in [Tasks -> Calls], task[t].todo # <<>>, Finish(t)
    PROVE  /\ task' \in [Tasks -> Calls] /\ OthersKept(t)
           /\ task'[t].at \in {"over", "start"}
           /\ task'[t].at = "start" => /\ task'[t].todo # <<>>
                                       /\ Stage(t)' \notin {"add", "load"}
                                       /\ Stage(t)' = "fetch" => Stage(t) = "load"
<1> DEFINE todo == task[t].todo
           place == IF Len(todo) = 1 THEN "over" ELSE "start"
           next == [NewTask EXCEPT !.todo = Tail(todo), !.at = place]
<1>1. todo \in Rests
  BY DEF Calls
<1>2. Left(todo)
  BY <1>1, RestOfCall
<1>3. next \in Calls /\ next.todo = Tail(todo) /\ next.at = place
  BY <1>2, NoFileType DEF NewTask, Calls, Left, Places
<1>4. task' = [task EXCEPT ![t] = next]
  BY DEF Finish
<1>5. task' \in [Tasks -> Calls] /\ task'[t] = next /\ OthersKept(t)
  BY <1>3, <1>4 DEF OthersKept
<1>6. ASSUME place = "start"
      PROVE  /\ Tail(todo) # <<>> /\ Head(Tail(todo)) \notin {"add", "load"}
             /\ Head(Tail(todo)) = "fetch" => Head(todo) = "load"
  BY <1>1, <1>6, NextStage
<1> QED
  BY <1>3, <1>5, <1>6 DEF Stage

(* A copy keeps its type, and the rest of it its value, when its status is *)
(* set.                                                                    *)
LEMMA StatusSet ==
    ASSUME NEW f \in Files, NEW s \in Statuses
    PROVE  /\ [f EXCEPT !.status = s] \in Files
           /\ [f EXCEPT !.status = s].status = s
  BY DEF Files

(* A new record has its type. *)
LEMMA FileMade ==
    ASSUME NEW s \in Statuses, NEW h \in Nat, NEW m \in BOOLEAN
    PROVE  File(s, h, m) \in Files /\ File(s, h, m).status = s
  BY DEF File, Files

(* The parts of a record. *)
LEMMA FileParts ==
    ASSUME NEW f \in Files
    PROVE  f.status \in Statuses /\ f.hash \in Nat /\ f.md \in BOOLEAN
  BY DEF Files

(* The parts of a call. *)
LEMMA CallParts ==
    ASSUME NEW c \in Calls
    PROVE  c.snap \in Files /\ c.ver \in Nat /\ c.todo \in Rests /\ c.at \in Places
  BY DEF Calls

(* The type invariant; a call that is not over has a stage left. *)
TypeOK ==
    /\ row \in Files
    /\ mem \in [Processes -> Files]
    /\ queue \in [Processes -> BOOLEAN] /\ lock \in [Processes -> BOOLEAN]
    /\ obj \in Nat
    /\ task \in [Tasks -> Calls]
    /\ \A t \in Tasks : ~At(t, "new") /\ ~At(t, "over") => task[t].todo # <<>>

USE DEF copies, stores, history, Mishap

(* What the steps that use none of these helpers do to a call and a copy. *)
LEMMA StartingToParse ==
    ASSUME TypeOK, NEW t \in Tasks, ParseBegins(t), Known(t), MayParse(Meta(t).status)
    PROVE  /\ Moved(t, "parseSave")
           /\ mem' \in [Processes -> Files]
           /\ Meta(t)' = [Meta(t) EXCEPT !.status = "parsing"]
           /\ \A p \in Processes : p # ProcessOf[t] => mem'[p] = mem[p]
<1> DEFINE p == ProcessOf[t]
           new == [Meta(t) EXCEPT !.status = "parsing"]
<1> USE DEF TypeOK
<1>1. p \in Processes /\ Meta(t) \in Files
  BY ProcessAssumption DEF Meta
<1>2. new \in Files
  BY <1>1, StatusSet DEF Statuses
<1>3. mem' = [mem EXCEPT ![p] = new]
  BY DEF ParseBegins, Meta
<1>4. mem'[p] = new /\ mem' \in [Processes -> Files]
  BY <1>1, <1>2, <1>3
<1>5. Meta(t).hash \in Nat
  BY <1>1, FileParts
<1>6. task' = [task EXCEPT ![t].at = "parseSave", ![t].ver = Meta(t).hash, ![t].snap = new]
  BY <1>4 DEF ParseBegins
<1>7. Moved(t, "parseSave")
  BY <1>2, <1>5, <1>6 DEF Moved, OthersKept, Calls, Places, Stage
<1> QED
  BY <1>1, <1>3, <1>4, <1>7 DEF Meta

(* The read of the Markdown. *)
LEMMA Reading ==
    ASSUME TypeOK, NEW t \in Tasks, IndexReads(t)
    PROVE  Moved(t, IF obj = 0 THEN "indexError" ELSE "clearPg")
  BY DEF TypeOK, IndexReads, Moved, OthersKept, Calls, Places, Stage

(* A call starts. *)
LEMMA Submitting ==
    ASSUME TypeOK, NEW t \in Tasks, NEW job \in Jobs[t], Submit(t, job)
    PROVE  /\ task' \in [Tasks -> Calls] /\ OthersKept(t)
           /\ task'[t].at = "start" /\ task'[t].todo = job
<1>1. job \in Rests
  BY JobsAssumption, JobRest
<1> QED
  BY <1>1 DEF TypeOK, Submit, OthersKept, Calls, Places

(* A repair changes one copy. *)
LEMMA Repairing ==
    ASSUME TypeOK, NEW p \in Processes, Repair(p)
    PROVE  /\ mem' \in [Processes -> Files]
           /\ \A q \in Processes : q # p => mem'[q] = mem[q]
<1> DEFINE f == mem[p]
           s == f.status
<1>1. f \in Files /\ s \in {"parsing", "indexing"}
  BY DEF TypeOK, Repair, Broken
<1>2. Broken[s] \in Statuses
  BY <1>1 DEF Broken, Statuses
<1>3. [f EXCEPT !.status = Broken[s]] \in Files
  BY <1>1, <1>2, StatusSet
<1>4. mem' = [mem EXCEPT ![p] = [f EXCEPT !.status = Broken[s]]]
  BY DEF Repair
<1> QED
  BY <1>3, <1>4 DEF TypeOK

(* A call stopped by a restart. *)
Stopped == [NewTask EXCEPT !.at = "over"]

(* A restart stops the calls of its process. *)
LEMMA Restarting ==
    ASSUME TypeOK, NEW p \in Processes, Restart(p)
    PROVE  /\ task' \in [Tasks -> Calls]
           /\ \A t \in Tasks : task'[t] = IF ProcessOf[t] = p /\ Live(t) THEN Stopped ELSE task[t]
           /\ Stopped.at = "over"
<1>1. Stopped \in Calls /\ Stopped.at = "over"
  BY NoFileType DEF Stopped, NewTask, Calls, Rests, Places
<1>2. task' = [t \in Tasks |-> IF ProcessOf[t] = p /\ Live(t) THEN Stopped ELSE task[t]]
  BY DEF Restart, Stopped
<1> QED
  BY <1>1, <1>2 DEF TypeOK

(* Every step keeps the types. *)
LEMMA TypeStep == TypeOK /\ [Next]_vars => TypeOK'
<1> SUFFICES ASSUME TypeOK, [Next]_vars PROVE TypeOK'
  OBVIOUS
<1> USE ProcessAssumption DEF TypeOK, At, Starts, Places, Meta
<1>1. ASSUME NEW t \in Tasks, AddRecord(t) PROVE TypeOK'
  <2>1. File("uploaded", 1, FALSE) \in Files
    BY FileMade DEF Statuses
  <2> QED
    <3>1. Moved(t, "addSave") /\ mem' \in [Processes -> Files]
      BY <1>1, <2>1, Setting DEF AddRecord
    <3> QED
      BY <1>1, <3>1 DEF AddRecord, Moved, OthersKept
<1>2. ASSUME NEW t \in Tasks, ParamsUpdate(t) PROVE TypeOK'
  BY <1>2, Setting, GivingUp DEF ParamsUpdate, Begins, Moved, OthersKept
<1>3. ASSUME NEW t \in Tasks, RecordSaved(t) PROVE TypeOK'
  BY <1>3, Finishing, CallParts DEF RecordSaved, Persist, Moved, OthersKept
<1>4. ASSUME NEW t \in Tasks, ParseBegins(t) PROVE TypeOK'
  <2>1. CASE Known(t) /\ MayParse(Meta(t).status)
    <3>1. Moved(t, "parseSave") /\ mem' \in [Processes -> Files]
      BY <1>4, <2>1, StartingToParse
    <3> QED
      BY <1>4, <3>1 DEF ParseBegins, Moved, OthersKept
  <2>2. CASE ~(Known(t) /\ MayParse(Meta(t).status))
    BY <1>4, <2>2, GivingUp DEF ParseBegins, Moved, OthersKept
  <2> QED
    BY <2>1, <2>2
<1>5. ASSUME NEW t \in Tasks, ParseSaved(t) PROVE TypeOK'
  <2>1. Moved(t, "parse")
    BY <1>5, Going DEF ParseSaved
  <2> QED
    BY <1>5, <2>1, CallParts DEF ParseSaved, Persist, MarkQueue, Moved, OthersKept
<1>6. ASSUME NEW t \in Tasks, ParseDone(t) PROVE TypeOK'
  <2>1. CASE Known(t)
    <3>1. Meta(t) \in Files /\ Meta(t).hash \in Nat
      BY FileParts
    <3>2. File("parsed", Meta(t).hash, TRUE) \in Files
      BY <3>1, FileMade DEF Statuses
    <3>3. Moved(t, "parsedSave") /\ mem' \in [Processes -> Files]
      BY <1>6, <2>1, <3>2, Setting DEF ParseDone
    <3> QED
      BY <1>6, <2>1, <3>3, CallParts DEF ParseDone, Moved, OthersKept
  <2>2. CASE ~Known(t)
    BY <1>6, <2>2, GivingUp, CallParts DEF ParseDone, UnmarkQueue, Moved, OthersKept
  <2> QED
    BY <2>1, <2>2
<1>7. ASSUME NEW t \in Tasks, ParseEnds(t) PROVE TypeOK'
  BY <1>7, Finishing, GivingUp, CallParts DEF ParseEnds, Persist, UnmarkQueue, Moved, OthersKept
<1>8. ASSUME NEW t \in Tasks, IndexBegins(t) PROVE TypeOK'
  <2> DEFINE f == Meta(t)
  <2>1. f \in Files
    OBVIOUS
  <2>2. [f EXCEPT !.status = "indexing"] \in Files
    BY <2>1, StatusSet DEF Statuses
  <2>3. File("uploaded", f.hash, FALSE) \in Files
    BY <2>1, FileMade, FileParts DEF Statuses
  <2>4. CASE Known(t) /\ MayIndex(f.status) /\ f.md
    <3>1. Moved(t, "indexSave") /\ mem' \in [Processes -> Files]
      BY <1>8, <2>4, <2>2, Setting DEF IndexBegins, Moved, OthersKept
    <3> QED
      <4>1. lock' \in [Processes -> BOOLEAN]
        BY <1>8, <2>4 DEF IndexBegins, Locks
      <4>2. UNCHANGED <<row, queue, obj>> /\ task[t].todo # <<>>
        BY <1>8 DEF IndexBegins
      <4> QED
        BY <3>1, <4>1, <4>2 DEF Moved, OthersKept
  <2>5. CASE Known(t) /\ MayIndex(f.status) /\ ~f.md
    <3>1. Moved(t, "unparsedSave") /\ mem' \in [Processes -> Files]
      BY <1>8, <2>5, <2>3, Setting DEF IndexBegins, Moved, OthersKept
    <3> QED
      BY <1>8, <2>5, <3>1 DEF IndexBegins, Locks, Moved, OthersKept
  <2>6. CASE ~(Known(t) /\ MayIndex(f.status))
    BY <1>8, <2>6, GivingUp DEF IndexBegins, Moved, OthersKept
  <2> QED
    BY <2>4, <2>5, <2>6
<1>9. ASSUME NEW t \in Tasks, IndexSaved(t) PROVE TypeOK'
  <2>1. CASE At(t, "indexSave")
    <3>1. Moved(t, "read")
      BY <1>9, <2>1, Going DEF IndexSaved
    <3> QED
      BY <1>9, <2>1, <3>1, CallParts DEF IndexSaved, Persist, Unlocks, MarkQueue, Moved,
         OthersKept
  <2>2. CASE ~At(t, "indexSave")
    BY <1>9, <2>2, GivingUp, CallParts DEF IndexSaved, Persist, Unlocks, Moved, OthersKept
  <2> QED
    BY <2>1, <2>2
<1>10. ASSUME NEW t \in Tasks, IndexReads(t) PROVE TypeOK'
  BY <1>10, Reading DEF IndexReads, Moved, OthersKept
<1>11. ASSUME NEW t \in Tasks, IndexStores(t) PROVE TypeOK'
  BY <1>11, Going DEF IndexStores, Moved, OthersKept
<1>12. ASSUME NEW t \in Tasks, SetIndexed(t) PROVE TypeOK'
  <2> DEFINE f == Meta(t)
  <2>1. [f EXCEPT !.status = "indexed"] \in Files
        /\ [f EXCEPT !.status = "error_indexing"] \in Files
    BY StatusSet DEF Statuses
  <2>2. CASE Known(t) /\ At(t, "stored")
    <3>1. Moved(t, "indexedSave") /\ mem' \in [Processes -> Files]
      BY <1>12, <2>1, <2>2, Setting DEF SetIndexed
    <3> QED
      BY <1>12, <2>2, <3>1 DEF SetIndexed, Locks, Moved, OthersKept
  <2>3. CASE Known(t) /\ ~At(t, "stored")
    <3>1. Moved(t, "indexErrorSave") /\ mem' \in [Processes -> Files]
      BY <1>12, <2>1, <2>3, Setting DEF SetIndexed
    <3> QED
      BY <1>12, <2>3, <3>1 DEF SetIndexed, Locks, Moved, OthersKept
  <2>4. CASE ~Known(t)
    BY <1>12, <2>4, GivingUp DEF SetIndexed, UnmarkQueue, Moved, OthersKept
  <2> QED
    BY <2>2, <2>3, <2>4
<1>13. ASSUME NEW t \in Tasks, IndexEnds(t) PROVE TypeOK'
  BY <1>13, Finishing, GivingUp, CallParts DEF IndexEnds, Persist, Unlocks, UnmarkQueue,
     Moved, OthersKept
<1>14. ASSUME NEW t \in Tasks, ClearsPg(t) PROVE TypeOK'
  BY <1>14, Going DEF ClearsPg, Moved, OthersKept
<1>15. ASSUME NEW t \in Tasks, ClearsMilvus(t) PROVE TypeOK'
  BY <1>15, Going, Setting DEF ClearsMilvus, AfterClear, Moved, OthersKept
<1>16. ASSUME NEW t \in Tasks, CountSaved(t) PROVE TypeOK'
  BY <1>16, Going, CallParts DEF CountSaved, Persist, AfterClear, Moved, OthersKept
<1>17. ASSUME NEW t \in Tasks, DeleteBegins(t) PROVE TypeOK'
  BY <1>17, Going, GivingUp DEF DeleteBegins, Begins, Moved, OthersKept
<1>18. ASSUME NEW t \in Tasks, DeleteRemoves(t) PROVE TypeOK'
  <2>1. CASE Known(t)
    <3>1. Moved(t, "removeRow")
      BY <1>18, <2>1, Going DEF DeleteRemoves, Moved, OthersKept
    <3> QED
      BY <1>18, <2>1, <3>1, NoFileType DEF DeleteRemoves, Locks, Moved, OthersKept
  <2>2. CASE ~Known(t)
    BY <1>18, <2>2, GivingUp DEF DeleteRemoves, Moved, OthersKept
  <2> QED
    BY <2>1, <2>2
<1>19. ASSUME NEW t \in Tasks, DeleteEnds(t) PROVE TypeOK'
  BY <1>19, Finishing, NoFileType DEF DeleteEnds, Unlocks, Moved, OthersKept
<1>20. ASSUME NEW t \in Tasks, SyncLoads(t) PROVE TypeOK'
  BY <1>20, Finishing, GivingUp DEF SyncLoads, Begins, Moved, OthersKept
<1>21. ASSUME NEW t \in Tasks, SyncFetches(t) PROVE TypeOK'
  <2>1. CASE GiveUp(t) /\ UNCHANGED mem
    BY <1>21, <2>1, GivingUp DEF SyncFetches, Moved, OthersKept
  <2>2. ASSUME NEW v \in Meta(t).hash + 1 .. MaxVersions, Sets(t, SyncRecord(v), "syncSave")
        PROVE  TypeOK'
    <3>1. v \in Nat
      BY FileParts, BoundsAssumption
    <3>2. SyncRecord(v) \in Files
      BY <3>1, FileMade DEF SyncRecord, Statuses
    <3> QED
      BY <1>21, <2>2, <3>2, Setting DEF SyncFetches, Moved, OthersKept
  <2> QED
    BY <1>21, <2>1, <2>2 DEF SyncFetches, Moved, OthersKept
<1>22. ASSUME NEW t \in Tasks, RecordRaises(t) PROVE TypeOK'
  BY <1>22, GivingUp DEF RecordRaises, Moved, OthersKept
<1>23. ASSUME NEW t \in Tasks, ParseSaveRaises(t) PROVE TypeOK'
  BY <1>23, GivingUp DEF ParseSaveRaises, Moved, OthersKept
<1>24. ASSUME NEW t \in Tasks, ParseFails(t) PROVE TypeOK'
  <2>1. CASE Known(t)
    <3>1. [Meta(t) EXCEPT !.status = "error_parsing"] \in Files
      BY StatusSet DEF Statuses
    <3> QED
      BY <1>24, <2>1, <3>1, Setting DEF ParseFails, Moved, OthersKept
  <2>2. CASE ~Known(t)
    BY <1>24, <2>2, GivingUp DEF ParseFails, UnmarkQueue, Moved, OthersKept
  <2> QED
    BY <2>1, <2>2
<1>25. ASSUME NEW t \in Tasks, IndexSaveRaises(t) PROVE TypeOK'
  BY <1>25, GivingUp DEF IndexSaveRaises, Unlocks, Moved, OthersKept
<1>26. ASSUME NEW t \in Tasks, IndexStoreRaises(t) PROVE TypeOK'
  BY <1>26, Going DEF IndexStoreRaises, Moved, OthersKept
<1>27. ASSUME NEW t \in Tasks, IndexFails(t) PROVE TypeOK'
  <2>1. CASE Goes(t, "indexError")
    <3>1. Moved(t, "indexError")
      BY <2>1, Going
    <3> QED
      BY <1>27, <3>1 DEF IndexFails, Unlocks, Moved, OthersKept
  <2>2. CASE Goes(t, "indexUndo")
    <3>1. Moved(t, "indexUndo")
      BY <2>2, Going
    <3> QED
      BY <1>27, <3>1 DEF IndexFails, Unlocks, Moved, OthersKept
  <2> QED
    BY <1>27, <2>1, <2>2 DEF IndexFails
<1>28. ASSUME NEW t \in Tasks, ErrorSaveRaises(t) PROVE TypeOK'
  BY <1>28, GivingUp DEF ErrorSaveRaises, Unlocks, UnmarkQueue, Moved, OthersKept
<1>29. ASSUME NEW t \in Tasks, DeleteRaises(t) PROVE TypeOK'
  BY <1>29, GivingUp DEF DeleteRaises, Unlocks, Moved, OthersKept
<1>30. ASSUME NEW t \in Tasks, SyncCancelled(t) PROVE TypeOK'
  BY <1>30, GivingUp DEF SyncCancelled, Unlocks, UnmarkQueue, Moved, OthersKept
<1>31. ASSUME NEW t \in Tasks, NEW job \in Jobs[t], Submit(t, job) PROVE TypeOK'
  <2>1. job # <<>>
    BY JobsAssumption, JobRest
  <2> QED
    BY <1>31, <2>1, Submitting DEF Submit, OthersKept
<1>32. ASSUME NEW p \in Processes, Repair(p) PROVE TypeOK'
  BY <1>32, Repairing DEF Repair, Moved, OthersKept
<1>33. ASSUME NEW p \in Processes, Restart(p) PROVE TypeOK'
  BY <1>33, Restarting DEF Restart, Moved, OthersKept
<1>34. CASE UNCHANGED vars
  BY <1>34 DEF vars, Moved, OthersKept
<1> QED
    BY <1>1, <1>2, <1>3, <1>4, <1>5, <1>6, <1>7, <1>8, <1>9, <1>10, <1>11, <1>12, <1>13, <1>14,
     <1>15, <1>16, <1>17, <1>18, <1>19, <1>20, <1>21, <1>22, <1>23, <1>24, <1>25, <1>26, <1>27,
     <1>28, <1>29, <1>30, <1>31, <1>32, <1>33, <1>34 DEF Next, Steps, Failures

-----------------------------------------------------------------------------
(* The set of files being processed and the lock                           *)

(* Indexing: what is read is stored, so that the mark is taken away later. *)
Indexes(t) == task[t].at \in {"indexSave", "read"} => Stage(t) = "index"

Held ==
    /\ NothingIsLeftHeld
    /\ \A t \in Tasks : Indexes(t)
    /\ \A t \in Tasks : InLock(t) => lock[ProcessOf[t]]

(* A step of t touches the marks of its own process only; it leaves a mark *)
(* or a lock behind only as long as it is in the place that goes with it.  *)
Tidy(t) ==
    LET p == ProcessOf[t] IN
    /\ OthersKept(t)
    /\ \A q \in Processes : q # p => queue'[q] = queue[q] /\ lock'[q] = lock[q]
    /\ Indexes(t)'
    /\ queue'[p] => InTry(t)' \/ (queue[p] /\ ~InTry(t))
    /\ \/ lock'[p] = lock[p] /\ (InLock(t)' <=> InLock(t))
       \/ ~lock[p] /\ lock'[p] /\ InLock(t)'
       \/ InLock(t) /\ ~lock'[p] /\ ~InLock(t)'

(* What a step of t leaves to the others. *)
LEMMA Elsewhere ==
    ASSUME NEW t \in Tasks, OthersKept(t), NEW u \in Tasks, u # t
    PROVE  /\ (InTry(u)' <=> InTry(u)) /\ (InLock(u)' <=> InLock(u))
           /\ (Working(u)' <=> Working(u))
           /\ (Indexes(u)' <=> Indexes(u))
           /\ (Starts(u, "add")' <=> Starts(u, "add"))
           /\ Stage(u)' = Stage(u) /\ task'[u] = task[u]
<1>1. task'[u] = task[u] /\ Stage(u)' = Stage(u)
  BY DEF OthersKept, Stage
<1> QED
  BY <1>1 DEF InTry, InLock, Working, Starts, At, Indexes

(* The helpers again, without the types. *)
Placed(t, place) ==
    OthersKept(t) /\ At(t, place)' /\ Stage(t)' = Stage(t)

(* Goes. *)
LEMMA GoingTo ==
    ASSUME TypeOK, NEW t \in Tasks, NEW place, Goes(t, place)
    PROVE  Placed(t, place)
  BY DEF TypeOK, Goes, Placed, OthersKept, At, Stage, Calls

(* Sets. *)
LEMMA SettingTo ==
    ASSUME TypeOK, NEW t \in Tasks, NEW new, NEW place, Sets(t, new, place)
    PROVE  /\ Placed(t, place) /\ Meta(t)' = new
           /\ \A p \in Processes : p # ProcessOf[t] => mem'[p] = mem[p]
  BY ProcessAssumption DEF TypeOK, Sets, Placed, OthersKept, At, Stage, Calls, Meta

(* A tidy step keeps the marks and the locks accounted for. *)
LEMMA TidyKeepsHeld ==
    ASSUME TypeOK, TypeOK', Held, NEW t \in Tasks, Tidy(t)
    PROVE  Held'
<1> DEFINE p == ProcessOf[t]
<1>0. p \in Processes /\ \A u \in Tasks : ProcessOf[u] \in Processes
  BY ProcessAssumption
<1>1. \A u \in Tasks \ {t} : (InTry(u)' <=> InTry(u)) /\ (InLock(u)' <=> InLock(u))
  BY Elsewhere DEF Tidy
<1>2. ASSUME NEW q \in Processes, queue'[q]
      PROVE  \E u \in Tasks : ProcessOf[u] = q /\ InTry(u)'
  <2>1. CASE q = p /\ InTry(t)'
    BY <2>1
  <2>2. CASE ~(q = p /\ InTry(t)')
    <3>1. queue[q] /\ ~(q = p /\ InTry(t))
      BY <1>2, <2>2 DEF Tidy
    <3>2. PICK u \in Tasks : ProcessOf[u] = q /\ InTry(u)
      BY <3>1 DEF Held, NothingIsLeftHeld
    <3>3. u # t
      BY <3>1, <3>2
    <3> QED
      BY <3>2, <3>3, <1>1
  <2> QED
    BY <2>1, <2>2
<1>3. ASSUME NEW u \in Tasks, InLock(u)' PROVE lock'[ProcessOf[u]]
  BY <1>0, <1>1, <1>3 DEF Tidy, Held, NothingIsLeftHeld
<1>4. ASSUME NEW u \in Tasks, NEW v \in Tasks, u # v, ProcessOf[u] = ProcessOf[v]
      PROVE  ~(InLock(u)' /\ InLock(v)')
  BY <1>0, <1>1, <1>4 DEF Tidy, Held, NothingIsLeftHeld
<1>5. ASSUME NEW q \in Processes, lock'[q]
      PROVE  \E u \in Tasks : ProcessOf[u] = q /\ InLock(u)'
  <2>1. CASE q = p /\ InLock(t)'
    BY <2>1
  <2>2. CASE ~(q = p /\ InLock(t)')
    <3>1. lock[q] /\ ~(q = p /\ InLock(t))
      BY <1>5, <2>2 DEF Tidy
    <3>2. PICK u \in Tasks : ProcessOf[u] = q /\ InLock(u)
      BY <3>1 DEF Held, NothingIsLeftHeld
    <3>3. u # t
      BY <3>1, <3>2
    <3> QED
      BY <3>2, <3>3, <1>1
  <2> QED
    BY <2>1, <2>2
<1>6. \A u \in Tasks : Indexes(u)'
  BY Elsewhere DEF Tidy, Held
<1> QED
  BY <1>2, <1>3, <1>4, <1>5, <1>6 DEF Held, NothingIsLeftHeld

-----------------------------------------------------------------------------
(* One call at a time                                                      *)

Quiet(t) == task[t].at \in {"new", "start", "over"}
Fixed == {"parsing", "indexing"}

(* Until its call has started, nothing happens to a file that is ingested. *)
Early ==
    /\ (\A t \in Tasks : At(t, "new")) =>
           \A p \in Processes : mem[p] = row /\ row.status \notin Fixed
    /\ \A t \in Tasks : Starts(t, "add") =>
           /\ row = NoFile /\ \A p \in Processes : mem[p] = NoFile
           /\ \A u \in Tasks : Quiet(u) /\ (u # t => ~Starts(u, "add"))

(* The status a working call has set is the one its process sees.          *)
StatusStays ==
    \A t \in Tasks : Working(t) => ~Known(t) \/ Meta(t).status \in Fixed

Syncs(t) == Live(t) /\ Stage(t) \in {"load", "fetch"} => Sync \in Jobs[t]

Busy ==
    /\ Early
    /\ \A t \in Tasks : Syncs(t)
    /\ OneAtATime
    /\ "repaired" \notin marks => StatusStays

Alone(t) == \A u \in Tasks \ {t} : ProcessOf[u] = ProcessOf[t] => ~Working(u)

(* Why no other call of the process is at work: t is at work itself, or    *)
(* the status is not one that a call at work has set, or t is a sync, or   *)
(* the file is not there yet.                                              *)
LEMMA WorkingAlone ==
    ASSUME Busy, "repaired" \notin marks, NEW t \in Tasks, Working(t)
    PROVE  Alone(t)
  BY DEF Busy, OneAtATime, Alone

(* By the status. *)
LEMMA StatusAlone ==
    ASSUME Busy, "repaired" \notin marks, NEW t \in Tasks, Known(t),
           Meta(t).status \notin Fixed
    PROVE  Alone(t)
  BY DEF Busy, StatusStays, Alone, Meta, Known

(* By the calls a process runs. *)
LEMMA SyncAlone ==
    ASSUME NEW t \in Tasks, Sync \in Jobs[t]
    PROVE  Alone(t)
  BY JobsAssumption DEF Alone

(* By the beginning. *)
LEMMA EarlyAlone ==
    ASSUME Busy, NEW t \in Tasks, Starts(t, "add")
    PROVE  Alone(t)
<1>1. \A u \in Tasks : Quiet(u)
  BY DEF Busy, Early
<1>2. \A u \in Tasks : Quiet(u) => ~Working(u)
  BY DEF Quiet, Working
<1> QED
  BY <1>1, <1>2 DEF Alone

(* A step of t changes its process's copy, or starts to work, only when no *)
(* other call of the process is at work, or marks the file as repaired.    *)
Calm(t) ==
    /\ OthersKept(t)
    /\ \A q \in Processes : q # ProcessOf[t] => mem'[q] = mem[q]
    /\ Syncs(t)'
    /\ "repaired" \in marks => "repaired" \in marks'
    /\ "repaired" \notin marks' =>
           /\ Meta(t)' = Meta(t) \/ ~Known(t)' \/ Alone(t)
           /\ Working(t)' => \/ Working(t) /\ Meta(t)' = Meta(t)
                             \/ Alone(t) /\ Meta(t)'.status \in Fixed

(* Before a file is ingested, a step of another call ends that call.       *)
Waits(t) == \E s \in Tasks \ {t} : Starts(s, "add")
First(t) ==
    /\ ~At(t, "new")' /\ ~Starts(t, "add")'
    /\ Waits(t) => At(t, "over")' /\ row' = NoFile /\ \A p \in Processes : mem'[p] = NoFile

(* What it finds before that. *)
LEMMA WaitsMeans ==
    ASSUME Busy, NEW t \in Tasks, Waits(t)
    PROVE  /\ row = NoFile /\ Meta(t) = NoFile /\ ~Known(t) /\ Quiet(t) /\ ~Starts(t, "add")
           /\ \A p \in Processes : mem[p] = NoFile
  BY ProcessAssumption DEF Busy, Early, Waits, Meta, Known

(* Such steps keep one call at a time. *)
LEMMA CalmAndFirstKeepBusy ==
    ASSUME TypeOK, Busy, NEW t \in Tasks, Calm(t), First(t)
    PROVE  Busy'
<1>1. OthersKept(t)
  BY DEF Calm
<1>2. \A u \in Tasks \ {t} : /\ (Working(u)' <=> Working(u)) /\ task'[u] = task[u]
                              /\ Stage(u)' = Stage(u)
                              /\ (Starts(u, "add")' <=> Starts(u, "add"))
  BY <1>1, Elsewhere
<1>3. Early'
  <2>1. ~(\A u \in Tasks : At(u, "new"))'
    BY DEF First
  <2>2. ASSUME NEW s \in Tasks, Starts(s, "add")'
        PROVE  /\ (row = NoFile)' /\ (\A p \in Processes : mem[p] = NoFile)'
               /\ \A u \in Tasks : Quiet(u)' /\ (u # s => ~Starts(u, "add")')
    <3>1. s # t /\ Starts(s, "add") /\ Waits(t)
      BY <1>2, <2>2 DEF First, Waits
    <3>2. At(t, "over")' /\ row' = NoFile /\ \A p \in Processes : mem'[p] = NoFile
      BY <3>1 DEF First
    <3>3. \A u \in Tasks : Quiet(u) /\ (u # s => ~Starts(u, "add"))
      BY <3>1 DEF Busy, Early
    <3>4. \A u \in Tasks \ {t} : Quiet(u)'
      BY <3>3, <1>2 DEF Quiet
    <3>5. Quiet(t)' /\ ~Starts(t, "add")'
      BY <3>2 DEF Quiet, At, First
    <3> QED
      BY <3>2, <3>3, <3>4, <3>5, <1>2
  <2> QED
    BY <2>1, <2>2 DEF Early
<1>4. \A u \in Tasks : Syncs(u)'
  BY <1>2 DEF Calm, Busy, Syncs, Live
<1>5. ASSUME "repaired" \notin marks' PROVE OneAtATime' /\ StatusStays'
  <2>1. "repaired" \notin marks /\ StatusStays
    BY <1>5 DEF Calm, Busy
  <2>2. Working(t)' => Alone(t)
    BY <1>5, <2>1, WorkingAlone DEF Calm
  <2>3. OneAtATime'
    BY <1>2, <2>1, <2>2 DEF OneAtATime, Alone, Busy
  <2>4. ASSUME NEW u \in Tasks, Working(u)' PROVE (~Known(u) \/ Meta(u).status \in Fixed)'
    <3>1. CASE u = t
      BY <1>5, <2>1, <2>4, <3>1 DEF Calm, StatusStays, Known
    <3>2. CASE u # t /\ ProcessOf[u] = ProcessOf[t]
      <4>1. Working(u) /\ ~Alone(t)
        BY <1>2, <2>4, <3>2 DEF Alone
      <4>2. Meta(t)' = Meta(t) \/ ~Known(t)'
        BY <1>5, <4>1 DEF Calm
      <4>3. Meta(u) = Meta(t) /\ Meta(u)' = Meta(t)'
        BY <3>2 DEF Meta
      <4> QED
        BY <2>1, <4>1, <4>2, <4>3 DEF StatusStays, Known
    <3>3. CASE ProcessOf[u] # ProcessOf[t]
      <4>1. Meta(u)' = Meta(u)
        BY <3>3, ProcessAssumption DEF Calm, Meta
      <4> QED
        BY <1>2, <2>1, <2>4, <3>3, <4>1 DEF StatusStays, Known
    <3> QED
      BY <3>1, <3>2, <3>3
  <2> QED
    BY <2>3, <2>4 DEF StatusStays
<1>6. OneAtATime'
  <2>1. CASE "repaired" \in marks'
    BY <2>1 DEF OneAtATime
  <2> QED
    BY <1>5, <2>1
<1> QED
  BY <1>3, <1>4, <1>5, <1>6 DEF Busy

(* A step of t sets the copy of its own process; a stage is finished. *)
OtherCopies(t) == \A q \in Processes : q # ProcessOf[t] => mem'[q] = mem[q]
Finished(t) ==
    /\ OthersKept(t) /\ task'[t].at \in {"over", "start"}
    /\ At(t, "start")' => /\ Stage(t)' \notin {"add", "load"}
                          /\ Stage(t)' = "fetch" => Stage(t) = "load"

Orderly(t) == Tidy(t) /\ Calm(t) /\ First(t)

(* Action by action, first where the call goes and what its process sees.  *)
LEMMA StepsAreOrderly ==
    ASSUME TypeOK, Busy, NEW t \in Tasks, Indexes(t), Steps(t) \/ Failures(t)
    PROVE  Orderly(t)
<1>s. Syncs(t)
  BY DEF Busy
<1>f. Waits(t) => /\ row = NoFile /\ ~Known(t) /\ Quiet(t) /\ ~Starts(t, "add")
                  /\ \A p \in Processes : mem[p] = NoFile
  BY WaitsMeans
<1> USE ProcessAssumption
<1>1. ASSUME AddRecord(t) PROVE Orderly(t)
  <2>1. Placed(t, "addSave") /\ OtherCopies(t)
    BY <1>1, SettingTo DEF AddRecord, OtherCopies
  <2>2. Alone(t)
    BY <1>1, EarlyAlone DEF AddRecord
  <2>3. Tidy(t)
    BY <1>1, <2>1, <1>s DEF AddRecord, Begins, File, TypeOK, Tidy, At, Starts, InTry,
       InLock, Working, Indexes, Placed
  <2>4. Calm(t)
    BY <1>1, <2>1, <1>s, <2>2 DEF AddRecord, Begins, Calm, Syncs, Live, Working, At, Starts,
       Meta, Placed, OtherCopies
  <2>5. First(t)
    BY <1>1, <2>1, <1>f DEF AddRecord, First, Quiet, At, Starts, Placed
  <2> QED
    BY <2>3, <2>4, <2>5 DEF Orderly
<1>2. ASSUME ParamsUpdate(t) PROVE Orderly(t)
  <2>1. CASE Known(t)
    <3>1. Placed(t, "paramsSave") /\ Meta(t)' = Meta(t) /\ OtherCopies(t)
      BY <1>2, <2>1, SettingTo DEF ParamsUpdate, OtherCopies
    <3>2. Tidy(t)
      BY <1>2, <2>1, <3>1, <1>s DEF ParamsUpdate, Begins, TypeOK, Tidy, At, Starts, InTry,
         InLock, Working, Indexes, Placed
    <3>3. Calm(t)
      BY <1>2, <2>1, <3>1, <1>s DEF ParamsUpdate, Begins, Calm, Syncs, Live, Working, At,
         Starts, Meta, Placed, OtherCopies
    <3>4. First(t)
      BY <1>2, <2>1, <3>1, <1>f DEF ParamsUpdate, First, Quiet, At, Starts, Placed
    <3> QED
      BY <3>2, <3>3, <3>4 DEF Orderly
  <2>2. CASE ~Known(t)
    <3>1. OthersKept(t) /\ At(t, "over")'
      BY <1>2, <2>2, GivingUp DEF ParamsUpdate, At, TypeOK
    <3>2. Tidy(t)
      BY <1>2, <2>2, <3>1, <1>s DEF ParamsUpdate, Begins, TypeOK, Tidy, At, Starts, InTry,
         InLock, Working, Indexes
    <3>3. Calm(t)
      BY <1>2, <2>2, <3>1, <1>s DEF ParamsUpdate, Begins, Calm, Syncs, Live, Working, At,
         Starts, Meta
    <3>4. First(t)
      BY <1>2, <2>2, <3>1, <1>f DEF ParamsUpdate, First, Quiet, At, Starts
    <3> QED
      BY <3>2, <3>3, <3>4 DEF Orderly
  <2> QED
    BY <2>1, <2>2
<1>3. ASSUME RecordSaved(t) PROVE Orderly(t)
  <2>1. Finished(t)
    BY <1>3, Finishing DEF RecordSaved, At, Starts, TypeOK, Finished
  <2>2. Tidy(t)
    BY <1>3, <2>1, <1>s DEF RecordSaved, Persist, TypeOK, Tidy, At, Starts, InTry, InLock,
       Working, Indexes, Finished
  <2>3. Calm(t)
    BY <1>3, <2>1, <1>s DEF RecordSaved, Persist, Calm, Syncs, Live, Working, At, Starts,
       Meta, Finished
  <2>4. First(t)
    BY <1>3, <2>1, <1>f DEF RecordSaved, First, Quiet, At, Starts, Finished
  <2> QED
    BY <2>2, <2>3, <2>4 DEF Orderly
<1>4. ASSUME ParseBegins(t) PROVE Orderly(t)
  <2>1. CASE Known(t) /\ MayParse(Meta(t).status)
    <3>1. Placed(t, "parseSave") /\ Meta(t)' = [Meta(t) EXCEPT !.status = "parsing"] /\ OtherCopies(t)
      BY <1>4, <2>1, StartingToParse DEF ParseBegins, TypeOK, Moved, Placed, At, OtherCopies
    <3>2. "repaired" \notin marks => Alone(t)
      BY <1>4, <2>1, StatusAlone DEF MayParse, Fixed
    <3>3. Tidy(t)
      BY <1>4, <2>1, <3>1, <1>s DEF ParseBegins, Begins, MayParse, TypeOK, Tidy, At, Starts,
         InTry, InLock, Working, Indexes, Placed
    <3>4. Calm(t)
      BY <1>4, <2>1, <3>1, <1>s, <3>2, StatusSet DEF ParseBegins, Begins, Calm, Syncs, Live,
         Working, At, Starts, Meta, Placed, OtherCopies, Fixed, Statuses
    <3>5. First(t)
      BY <1>4, <2>1, <3>1, <1>f DEF ParseBegins, First, Quiet, At, Starts, Placed
    <3> QED
      BY <3>3, <3>4, <3>5 DEF Orderly
  <2>2. CASE ~(Known(t) /\ MayParse(Meta(t).status))
    <3>1. OthersKept(t) /\ At(t, "over")'
      BY <1>4, <2>2, GivingUp DEF ParseBegins, At, TypeOK
    <3>2. Tidy(t)
      BY <1>4, <2>2, <3>1, <1>s DEF ParseBegins, Begins, MayParse, TypeOK, Tidy, At, Starts,
         InTry, InLock, Working, Indexes
    <3>3. Calm(t)
      BY <1>4, <2>2, <3>1, <1>s, StatusSet DEF ParseBegins, Begins, Calm, Syncs, Live,
         Working, At, Starts, Meta, Fixed, Statuses
    <3>4. First(t)
      BY <1>4, <2>2, <3>1, <1>f DEF ParseBegins, First, Quiet, At, Starts
    <3> QED
      BY <3>2, <3>3, <3>4 DEF Orderly
  <2> QED
    BY <2>1, <2>2
<1>5. ASSUME ParseSaved(t) PROVE Orderly(t)
  <2>1. Placed(t, "parse")
    BY <1>5, GoingTo DEF ParseSaved
  <2>2. Tidy(t)
    BY <1>5, <2>1, <1>s DEF ParseSaved, Persist, MarkQueue, TypeOK, Tidy, At, Starts, InTry,
       InLock, Working, Indexes, Placed
  <2>3. Calm(t)
    BY <1>5, <2>1, <1>s DEF ParseSaved, Persist, Calm, Syncs, Live, Working, At, Starts,
       Meta, Placed
  <2>4. First(t)
    BY <1>5, <2>1, <1>f DEF ParseSaved, First, Quiet, At, Starts, Placed
  <2> QED
    BY <2>2, <2>3, <2>4 DEF Orderly
<1>6. ASSUME ParseDone(t) PROVE Orderly(t)
  <2>1. CASE Known(t)
    <3>1. Placed(t, "parsedSave") /\ OtherCopies(t)
      BY <1>6, <2>1, SettingTo DEF ParseDone, OtherCopies
    <3>2. "repaired" \notin marks => Alone(t)
      BY <1>6, <2>1, WorkingAlone DEF ParseDone, Working, At
    <3>3. Tidy(t)
      BY <1>6, <2>1, <3>1, <1>s DEF ParseDone, UnmarkQueue, File, TypeOK, Tidy, At, Starts,
         InTry, InLock, Working, Indexes, Placed
    <3>4. Calm(t)
      BY <1>6, <2>1, <3>1, <1>s, <3>2 DEF ParseDone, Calm, Syncs, Live, Working, At, Starts,
         Meta, Placed, OtherCopies
    <3>5. First(t)
      BY <1>6, <2>1, <3>1, <1>f DEF ParseDone, First, Quiet, At, Starts, Placed
    <3> QED
      BY <3>3, <3>4, <3>5 DEF Orderly
  <2>2. CASE ~Known(t)
    <3>1. OthersKept(t) /\ At(t, "over")'
      BY <1>6, <2>2, GivingUp DEF ParseDone, At, TypeOK
    <3>2. Tidy(t)
      BY <1>6, <2>2, <3>1, <1>s DEF ParseDone, UnmarkQueue, File, TypeOK, Tidy, At, Starts,
         InTry, InLock, Working, Indexes
    <3>3. Calm(t)
      BY <1>6, <2>2, <3>1, <1>s DEF ParseDone, Calm, Syncs, Live, Working, At, Starts, Meta
    <3>4. First(t)
      BY <1>6, <2>2, <3>1, <1>f DEF ParseDone, First, Quiet, At, Starts
    <3> QED
      BY <3>2, <3>3, <3>4 DEF Orderly
  <2> QED
    BY <2>1, <2>2
<1>7. ASSUME ParseEnds(t) PROVE Orderly(t)
  <2>1. CASE At(t, "parsedSave")
    <3>1. Finished(t)
      BY <1>7, <2>1, Finishing DEF ParseEnds, At, Starts, TypeOK, Finished
    <3>2. Tidy(t)
      BY <1>7, <2>1, <3>1, <1>s DEF ParseEnds, Persist, UnmarkQueue, TypeOK, Tidy, At,
         Starts, InTry, InLock, Working, Indexes, Finished
    <3>3. Calm(t)
      BY <1>7, <2>1, <3>1, <1>s DEF ParseEnds, Persist, Calm, Syncs, Live, Working, At,
         Starts, Meta, Finished
    <3>4. First(t)
      BY <1>7, <2>1, <3>1, <1>f DEF ParseEnds, First, Quiet, At, Starts, Finished
    <3> QED
      BY <3>2, <3>3, <3>4 DEF Orderly
  <2>2. CASE ~At(t, "parsedSave")
    <3>1. OthersKept(t) /\ At(t, "over")'
      BY <1>7, <2>2, GivingUp DEF ParseEnds, At, TypeOK
    <3>2. Tidy(t)
      BY <1>7, <2>2, <3>1, <1>s DEF ParseEnds, Persist, UnmarkQueue, TypeOK, Tidy, At,
         Starts, InTry, InLock, Working, Indexes
    <3>3. Calm(t)
      BY <1>7, <2>2, <3>1, <1>s DEF ParseEnds, Persist, Calm, Syncs, Live, Working, At,
         Starts, Meta
    <3>4. First(t)
      BY <1>7, <2>2, <3>1, <1>f DEF ParseEnds, First, Quiet, At, Starts
    <3> QED
      BY <3>2, <3>3, <3>4 DEF Orderly
  <2> QED
    BY <2>1, <2>2
<1>8. ASSUME IndexBegins(t) PROVE Orderly(t)
  <2>1. CASE Known(t) /\ MayIndex(Meta(t).status) /\ Meta(t).md
    <3>1. Placed(t, "indexSave") /\ Meta(t)' = [Meta(t) EXCEPT !.status = "indexing"] /\ OtherCopies(t)
      BY <1>8, <2>1, SettingTo DEF IndexBegins, OtherCopies
    <3>2. "repaired" \notin marks => Alone(t)
      BY <1>8, <2>1, StatusAlone DEF MayIndex, Fixed
    <3>3. Tidy(t)
      BY <1>8, <2>1, <3>1, <1>s DEF IndexBegins, Begins, MayIndex, Locks, LockIsFree, File,
         TypeOK, Tidy, At, Starts, InTry, InLock, Working, Indexes, Placed
    <3>4. Calm(t)
      BY <1>8, <2>1, <3>1, <1>s, <3>2, StatusSet DEF IndexBegins, Begins, Calm, Syncs, Live,
         Working, At, Starts, Meta, Placed, OtherCopies, Fixed, Statuses
    <3>5. First(t)
      BY <1>8, <2>1, <3>1, <1>f DEF IndexBegins, First, Quiet, At, Starts, Placed
    <3> QED
      BY <3>3, <3>4, <3>5 DEF Orderly
  <2>2. CASE Known(t) /\ MayIndex(Meta(t).status) /\ ~Meta(t).md
    <3>1. Placed(t, "unparsedSave") /\ OtherCopies(t)
      BY <1>8, <2>2, SettingTo DEF IndexBegins, OtherCopies
    <3>2. "repaired" \notin marks => Alone(t)
      BY <1>8, <2>2, StatusAlone DEF MayIndex, Fixed
    <3>3. Tidy(t)
      BY <1>8, <2>2, <3>1, <1>s DEF IndexBegins, Begins, MayIndex, Locks, LockIsFree, File,
         TypeOK, Tidy, At, Starts, InTry, InLock, Working, Indexes, Placed
    <3>4. Calm(t)
      BY <1>8, <2>2, <3>1, <1>s, <3>2, StatusSet DEF IndexBegins, Begins, Calm, Syncs, Live,
         Working, At, Starts, Meta, Placed, OtherCopies, Fixed, Statuses
    <3>5. First(t)
      BY <1>8, <2>2, <3>1, <1>f DEF IndexBegins, First, Quiet, At, Starts, Placed
    <3> QED
      BY <3>3, <3>4, <3>5 DEF Orderly
  <2>3. CASE ~(Known(t) /\ MayIndex(Meta(t).status))
    <3>1. OthersKept(t) /\ At(t, "over")'
      BY <1>8, <2>3, GivingUp DEF IndexBegins, At, TypeOK
    <3>2. Tidy(t)
      BY <1>8, <2>3, <3>1, <1>s DEF IndexBegins, Begins, MayIndex, Locks, LockIsFree, File,
         TypeOK, Tidy, At, Starts, InTry, InLock, Working, Indexes
    <3>3. Calm(t)
      BY <1>8, <2>3, <3>1, <1>s, StatusSet DEF IndexBegins, Begins, Calm, Syncs, Live,
         Working, At, Starts, Meta, Fixed, Statuses
    <3>4. First(t)
      BY <1>8, <2>3, <3>1, <1>f DEF IndexBegins, First, Quiet, At, Starts
    <3> QED
      BY <3>2, <3>3, <3>4 DEF Orderly
  <2> QED
    BY <2>1, <2>2, <2>3
<1>9. ASSUME IndexSaved(t) PROVE Orderly(t)
  <2>1. CASE At(t, "indexSave")
    <3>1. Placed(t, "read")
      BY <1>9, <2>1, GoingTo DEF IndexSaved
    <3>2. Tidy(t)
      BY <1>9, <2>1, <3>1, <1>s DEF IndexSaved, Persist, Unlocks, MarkQueue, TypeOK, Tidy,
         At, Starts, InTry, InLock, Working, Indexes, Placed
    <3>3. Calm(t)
      BY <1>9, <2>1, <3>1, <1>s DEF IndexSaved, Persist, Calm, Syncs, Live, Working, At,
         Starts, Meta, Placed
    <3>4. First(t)
      BY <1>9, <2>1, <3>1, <1>f DEF IndexSaved, First, Quiet, At, Starts, Placed
    <3> QED
      BY <3>2, <3>3, <3>4 DEF Orderly
  <2>2. CASE ~At(t, "indexSave")
    <3>1. OthersKept(t) /\ At(t, "over")'
      BY <1>9, <2>2, GivingUp DEF IndexSaved, At, TypeOK
    <3>2. Tidy(t)
      BY <1>9, <2>2, <3>1, <1>s DEF IndexSaved, Persist, Unlocks, MarkQueue, TypeOK, Tidy,
         At, Starts, InTry, InLock, Working, Indexes
    <3>3. Calm(t)
      BY <1>9, <2>2, <3>1, <1>s DEF IndexSaved, Persist, Calm, Syncs, Live, Working, At,
         Starts, Meta
    <3>4. First(t)
      BY <1>9, <2>2, <3>1, <1>f DEF IndexSaved, First, Quiet, At, Starts
    <3> QED
      BY <3>2, <3>3, <3>4 DEF Orderly
  <2> QED
    BY <2>1, <2>2
<1>10. ASSUME IndexReads(t) PROVE Orderly(t)
  <2>1. CASE obj = 0
    <3>1. Placed(t, "indexError")
      BY <1>10, <2>1, Reading DEF IndexReads, TypeOK, Moved, Placed, At
    <3>2. Tidy(t)
      BY <1>10, <2>1, <3>1, <1>s DEF IndexReads, TypeOK, Tidy, At, Starts, InTry, InLock,
         Working, Indexes, Placed
    <3>3. Calm(t)
      BY <1>10, <2>1, <3>1, <1>s DEF IndexReads, Calm, Syncs, Live, Working, At, Starts,
         Meta, Placed
    <3>4. First(t)
      BY <1>10, <2>1, <3>1, <1>f DEF IndexReads, First, Quiet, At, Starts, Placed
    <3> QED
      BY <3>2, <3>3, <3>4 DEF Orderly
  <2>2. CASE obj # 0
    <3>1. Placed(t, "clearPg")
      BY <1>10, <2>2, Reading DEF IndexReads, TypeOK, Moved, Placed, At
    <3>2. InTry(t)'
      BY <1>10, <2>2, <3>1, <1>s DEF IndexReads, Placed, At, InTry, Working, Indexes
    <3>3. ~InLock(t) /\ ~InLock(t)'
      BY <1>10, <2>2, <3>1 DEF IndexReads, Placed, At, InLock
    <3>4. Tidy(t)
      BY <1>10, <2>2, <3>1, <3>2, <3>3 DEF IndexReads, TypeOK, Placed, Tidy, At, Indexes
    <3>5. Calm(t)
      BY <1>10, <2>2, <3>1, <1>s DEF IndexReads, Calm, Syncs, Live, Working, At, Starts,
         Meta, Placed
    <3>6. First(t)
      BY <1>10, <2>2, <3>1, <1>f DEF IndexReads, First, Quiet, At, Starts, Placed
    <3> QED
      BY <3>4, <3>5, <3>6 DEF Orderly
  <2> QED
    BY <2>1, <2>2
<1>11. ASSUME IndexStores(t) PROVE Orderly(t)
  <2>1. Placed(t, "stored")
    BY <1>11, GoingTo DEF IndexStores
  <2>2. Tidy(t)
    BY <1>11, <2>1, <1>s DEF IndexStores, TypeOK, Tidy, At, Starts, InTry, InLock, Working,
       Indexes, Placed
  <2>3. Calm(t)
    BY <1>11, <2>1, <1>s DEF IndexStores, Calm, Syncs, Live, Working, At, Starts, Meta,
       Placed
  <2>4. First(t)
    BY <1>11, <2>1, <1>f DEF IndexStores, First, Quiet, At, Starts, Placed
  <2> QED
    BY <2>2, <2>3, <2>4 DEF Orderly
<1>12. ASSUME SetIndexed(t) PROVE Orderly(t)
  <2>1. CASE Known(t) /\ At(t, "stored")
    <3>1. Placed(t, "indexedSave") /\ OtherCopies(t)
      BY <1>12, <2>1, SettingTo DEF SetIndexed, OtherCopies
    <3>2. "repaired" \notin marks => Alone(t)
      BY <1>12, <2>1, WorkingAlone DEF SetIndexed, Working, At
    <3>3. Tidy(t)
      BY <1>12, <2>1, <3>1, <1>s DEF SetIndexed, Undoes, Locks, LockIsFree, UnmarkQueue,
         TypeOK, Tidy, At, Starts, InTry, InLock, Working, Indexes, Placed
    <3>4. Calm(t)
      BY <1>12, <2>1, <3>1, <1>s, <3>2 DEF SetIndexed, Undoes, Calm, Syncs, Live, Working,
         At, Starts, Meta, Placed, OtherCopies
    <3>5. First(t)
      BY <1>12, <2>1, <3>1, <1>f DEF SetIndexed, First, Quiet, At, Starts, Placed
    <3> QED
      BY <3>3, <3>4, <3>5 DEF Orderly
  <2>2. CASE Known(t) /\ ~At(t, "stored")
    <3>1. Placed(t, "indexErrorSave") /\ OtherCopies(t)
      BY <1>12, <2>2, SettingTo DEF SetIndexed, OtherCopies
    <3>2. "repaired" \notin marks' => Alone(t)
      BY <1>12, <2>2, WorkingAlone DEF SetIndexed, Undoes, Working, At, Alone
    <3>3. Tidy(t)
      BY <1>12, <2>2, <3>1, <1>s DEF SetIndexed, Undoes, Locks, LockIsFree, UnmarkQueue,
         TypeOK, Tidy, At, Starts, InTry, InLock, Working, Indexes, Placed
    <3>4. Calm(t)
      BY <1>12, <2>2, <3>1, <1>s, <3>2 DEF SetIndexed, Undoes, Calm, Syncs, Live, Working,
         At, Starts, Meta, Placed, OtherCopies
    <3>5. First(t)
      BY <1>12, <2>2, <3>1, <1>f DEF SetIndexed, First, Quiet, At, Starts, Placed
    <3> QED
      BY <3>3, <3>4, <3>5 DEF Orderly
  <2>3. CASE ~Known(t)
    <3>1. OthersKept(t) /\ At(t, "over")'
      BY <1>12, <2>3, GivingUp DEF SetIndexed, At, TypeOK
    <3>2. Tidy(t)
      BY <1>12, <2>3, <3>1, <1>s DEF SetIndexed, Undoes, Locks, LockIsFree, UnmarkQueue,
         TypeOK, Tidy, At, Starts, InTry, InLock, Working, Indexes
    <3>3. Calm(t)
      BY <1>12, <2>3, <3>1, <1>s DEF SetIndexed, Undoes, Calm, Syncs, Live, Working, At,
         Starts, Meta
    <3>4. First(t)
      BY <1>12, <2>3, <3>1, <1>f DEF SetIndexed, First, Quiet, At, Starts
    <3> QED
      BY <3>2, <3>3, <3>4 DEF Orderly
  <2> QED
    BY <2>1, <2>2, <2>3
<1>13. ASSUME IndexEnds(t) PROVE Orderly(t)
  <2>1. CASE At(t, "indexedSave")
    <3>1. Finished(t)
      BY <1>13, <2>1, Finishing DEF IndexEnds, At, Starts, TypeOK, Finished
    <3>2. Tidy(t)
      BY <1>13, <2>1, <3>1, <1>s DEF IndexEnds, Persist, Unlocks, UnmarkQueue, TypeOK, Tidy,
         At, Starts, InTry, InLock, Working, Indexes, Finished
    <3>3. Calm(t)
      BY <1>13, <2>1, <3>1, <1>s DEF IndexEnds, Persist, Calm, Syncs, Live, Working, At,
         Starts, Meta, Finished
    <3>4. First(t)
      BY <1>13, <2>1, <3>1, <1>f DEF IndexEnds, First, Quiet, At, Starts, Finished
    <3> QED
      BY <3>2, <3>3, <3>4 DEF Orderly
  <2>2. CASE ~At(t, "indexedSave")
    <3>1. OthersKept(t) /\ At(t, "over")'
      BY <1>13, <2>2, GivingUp DEF IndexEnds, At, TypeOK
    <3>2. Tidy(t)
      BY <1>13, <2>2, <3>1, <1>s DEF IndexEnds, Persist, Unlocks, UnmarkQueue, TypeOK, Tidy,
         At, Starts, InTry, InLock, Working, Indexes
    <3>3. Calm(t)
      BY <1>13, <2>2, <3>1, <1>s DEF IndexEnds, Persist, Calm, Syncs, Live, Working, At,
         Starts, Meta
    <3>4. First(t)
      BY <1>13, <2>2, <3>1, <1>f DEF IndexEnds, First, Quiet, At, Starts
    <3> QED
      BY <3>2, <3>3, <3>4 DEF Orderly
  <2> QED
    BY <2>1, <2>2
<1>14. ASSUME ClearsPg(t) PROVE Orderly(t)
  <2>1. Placed(t, "clearMv")
    BY <1>14, GoingTo DEF ClearsPg
  <2>2. Tidy(t)
    BY <1>14, <2>1, <1>s DEF ClearsPg, TypeOK, Tidy, At, Starts, InTry, InLock, Working,
       Indexes, Placed
  <2>3. Calm(t)
    BY <1>14, <2>1, <1>s DEF ClearsPg, Calm, Syncs, Live, Working, At, Starts, Meta, Placed
  <2>4. First(t)
    BY <1>14, <2>1, <1>f DEF ClearsPg, First, Quiet, At, Starts, Placed
  <2> QED
    BY <2>2, <2>3, <2>4 DEF Orderly
<1>15. ASSUME ClearsMilvus(t) PROVE Orderly(t)
  <2>1. CASE Known(t)
    <3>1. Placed(t, "countSave") /\ Meta(t)' = Meta(t) /\ OtherCopies(t)
      BY <1>15, <2>1, SettingTo DEF ClearsMilvus, OtherCopies
    <3>2. Tidy(t)
      BY <1>15, <2>1, <3>1, <1>s DEF ClearsMilvus, AfterClear, TypeOK, Tidy, At, Starts,
         InTry, InLock, Working, Indexes, Placed
    <3>3. Calm(t)
      BY <1>15, <2>1, <3>1, <1>s DEF ClearsMilvus, Calm, Syncs, Live, Working, At, Starts,
         Meta, Placed, OtherCopies
    <3>4. First(t)
      BY <1>15, <2>1, <3>1, <1>f DEF ClearsMilvus, First, Quiet, At, Starts, Placed
    <3> QED
      BY <3>2, <3>3, <3>4 DEF Orderly
  <2>2. CASE ~Known(t)
    <3>1. Placed(t, AfterClear(t))
      BY <1>15, <2>2, GoingTo DEF ClearsMilvus
    <3>2. Tidy(t)
      BY <1>15, <2>2, <3>1, <1>s DEF ClearsMilvus, AfterClear, TypeOK, Tidy, At, Starts,
         InTry, InLock, Working, Indexes, Placed
    <3>3. Calm(t)
      BY <1>15, <2>2, <3>1, <1>s DEF ClearsMilvus, AfterClear, Calm, Syncs, Live, Working,
         At, Starts, Meta, Placed
    <3>4. First(t)
      BY <1>15, <2>2, <3>1, <1>f DEF ClearsMilvus, AfterClear, First, Quiet, At, Starts,
         Placed
    <3> QED
      BY <3>2, <3>3, <3>4 DEF Orderly
  <2> QED
    BY <2>1, <2>2
<1>16. ASSUME CountSaved(t) PROVE Orderly(t)
  <2>1. Placed(t, AfterClear(t))
    BY <1>16, GoingTo DEF CountSaved
  <2>2. Tidy(t)
    BY <1>16, <2>1, <1>s DEF CountSaved, Persist, AfterClear, TypeOK, Tidy, At, Starts,
       InTry, InLock, Working, Indexes, Placed
  <2>3. Calm(t)
    BY <1>16, <2>1, <1>s DEF CountSaved, AfterClear, Persist, Calm, Syncs, Live, Working,
       At, Starts, Meta, Placed
  <2>4. First(t)
    BY <1>16, <2>1, <1>f DEF CountSaved, AfterClear, First, Quiet, At, Starts, Placed
  <2> QED
    BY <2>2, <2>3, <2>4 DEF Orderly
<1>17. ASSUME DeleteBegins(t) PROVE Orderly(t)
  <2>1. CASE Known(t)
    <3>1. Placed(t, "clearPg")
      BY <1>17, <2>1, GoingTo DEF DeleteBegins
    <3>2. Tidy(t)
      BY <1>17, <2>1, <3>1, <1>s DEF DeleteBegins, Begins, TypeOK, Tidy, At, Starts, InTry,
         InLock, Working, Indexes, Placed
    <3>3. Calm(t)
      BY <1>17, <2>1, <3>1, <1>s DEF DeleteBegins, Begins, Calm, Syncs, Live, Working, At,
         Starts, Meta, Placed
    <3>4. First(t)
      BY <1>17, <2>1, <3>1, <1>f DEF DeleteBegins, First, Quiet, At, Starts, Placed
    <3> QED
      BY <3>2, <3>3, <3>4 DEF Orderly
  <2>2. CASE ~Known(t)
    <3>1. OthersKept(t) /\ At(t, "over")'
      BY <1>17, <2>2, GivingUp DEF DeleteBegins, At, TypeOK
    <3>2. Tidy(t)
      BY <1>17, <2>2, <3>1, <1>s DEF DeleteBegins, Begins, TypeOK, Tidy, At, Starts, InTry,
         InLock, Working, Indexes
    <3>3. Calm(t)
      BY <1>17, <2>2, <3>1, <1>s DEF DeleteBegins, Begins, Calm, Syncs, Live, Working, At,
         Starts, Meta
    <3>4. First(t)
      BY <1>17, <2>2, <3>1, <1>f DEF DeleteBegins, First, Quiet, At, Starts
    <3> QED
      BY <3>2, <3>3, <3>4 DEF Orderly
  <2> QED
    BY <2>1, <2>2
<1>18. ASSUME DeleteRemoves(t) PROVE Orderly(t)
  <2>1. CASE Known(t)
    <3>1. Placed(t, "removeRow")
      BY <1>18, <2>1, GoingTo DEF DeleteRemoves
    <3>2. Tidy(t)
      BY <1>18, <2>1, <3>1, <1>s DEF DeleteRemoves, Locks, LockIsFree, TypeOK, Tidy, At,
         Starts, InTry, InLock, Working, Indexes, Placed
    <3>3. Calm(t)
      BY <1>18, <2>1, <3>1, <1>s DEF DeleteRemoves, Calm, Syncs, Live, Working, At, Starts,
         Meta, Placed, Known, TypeOK
    <3>4. First(t)
      BY <1>18, <2>1, <3>1, <1>f DEF DeleteRemoves, First, Quiet, At, Starts, Placed
    <3> QED
      BY <3>2, <3>3, <3>4 DEF Orderly
  <2>2. CASE ~Known(t)
    <3>1. OthersKept(t) /\ At(t, "over")'
      BY <1>18, <2>2, GivingUp DEF DeleteRemoves, At, TypeOK
    <3>2. Tidy(t)
      BY <1>18, <2>2, <3>1, <1>s DEF DeleteRemoves, Locks, LockIsFree, TypeOK, Tidy, At,
         Starts, InTry, InLock, Working, Indexes
    <3>3. Calm(t)
      BY <1>18, <2>2, <3>1, <1>s DEF DeleteRemoves, Calm, Syncs, Live, Working, At, Starts,
         Meta, Known, TypeOK
    <3>4. First(t)
      BY <1>18, <2>2, <3>1, <1>f DEF DeleteRemoves, First, Quiet, At, Starts
    <3> QED
      BY <3>2, <3>3, <3>4 DEF Orderly
  <2> QED
    BY <2>1, <2>2
<1>19. ASSUME DeleteEnds(t) PROVE Orderly(t)
  <2>1. Finished(t)
    BY <1>19, Finishing DEF DeleteEnds, At, Starts, TypeOK, Finished
  <2>2. Tidy(t)
    BY <1>19, <2>1, <1>s DEF DeleteEnds, Unlocks, TypeOK, Tidy, At, Starts, InTry, InLock,
       Working, Indexes, Finished
  <2>3. Calm(t)
    BY <1>19, <2>1, <1>s DEF DeleteEnds, Calm, Syncs, Live, Working, At, Starts, Meta,
       Finished
  <2>4. First(t)
    BY <1>19, <2>1, <1>f DEF DeleteEnds, First, Quiet, At, Starts, Finished
  <2> QED
    BY <2>2, <2>3, <2>4 DEF Orderly
<1>20. ASSUME SyncLoads(t) PROVE Orderly(t)
  <2>1. CASE row = NoFile
    <3>1. OthersKept(t) /\ At(t, "over")'
      BY <1>20, <2>1, GivingUp DEF SyncLoads, At, TypeOK
    <3>2. Alone(t)
      BY <1>20, <2>1, <1>s, SyncAlone DEF SyncLoads, Syncs, Starts, Live, At
    <3>3. Tidy(t)
      BY <1>20, <2>1, <3>1, <1>s DEF SyncLoads, Begins, TypeOK, Tidy, At, Starts, InTry,
         InLock, Working, Indexes
    <3>4. Calm(t)
      BY <1>20, <2>1, <3>1, <1>s, <3>2 DEF SyncLoads, Begins, Calm, Syncs, Live, Working,
         At, Starts, Meta
    <3>5. First(t)
      BY <1>20, <2>1, <3>1, <1>f DEF SyncLoads, First, Quiet, At, Starts, TypeOK
    <3> QED
      BY <3>3, <3>4, <3>5 DEF Orderly
  <2>2. CASE row # NoFile
    <3>1. Finished(t)
      BY <1>20, <2>2, Finishing DEF SyncLoads, At, Starts, TypeOK, Finished
    <3>2. Alone(t)
      BY <1>20, <2>2, <1>s, SyncAlone DEF SyncLoads, Syncs, Starts, Live, At
    <3>3. Tidy(t)
      BY <1>20, <2>2, <3>1, <1>s DEF SyncLoads, Begins, TypeOK, Tidy, At, Starts, InTry,
         InLock, Working, Indexes, Finished
    <3>4. Calm(t)
      BY <1>20, <2>2, <3>1, <1>s, <3>2 DEF SyncLoads, Begins, Calm, Syncs, Live, Working,
         At, Starts, Meta, Finished
    <3>5. First(t)
      BY <1>20, <2>2, <3>1, <1>f DEF SyncLoads, First, Quiet, At, Starts, TypeOK, Finished
    <3> QED
      BY <3>3, <3>4, <3>5 DEF Orderly
  <2> QED
    BY <2>1, <2>2
<1>21. ASSUME SyncFetches(t) PROVE Orderly(t)
  <2>1. CASE ~(GiveUp(t) /\ UNCHANGED mem)
    <3>1. Placed(t, "syncSave") /\ OtherCopies(t)
      BY <1>21, <2>1, SettingTo DEF SyncFetches, SyncRecord, OtherCopies
    <3>2. Alone(t)
      BY <1>21, <2>1, <1>s, SyncAlone DEF SyncFetches, Syncs, Starts, Live, At
    <3>3. Tidy(t)
      BY <1>21, <2>1, <3>1, <1>s DEF SyncFetches, Begins, SyncRecord, File, TypeOK, Tidy,
         At, Starts, InTry, InLock, Working, Indexes, Placed
    <3>4. Calm(t)
      BY <1>21, <2>1, <3>1, <1>s, <3>2 DEF SyncFetches, Begins, Calm, Syncs, Live, Working,
         At, Starts, Meta, Placed, OtherCopies
    <3>5. First(t)
      BY <1>21, <2>1, <3>1, <1>f DEF SyncFetches, First, Quiet, At, Starts, Placed
    <3> QED
      BY <3>3, <3>4, <3>5 DEF Orderly
  <2>2. CASE GiveUp(t) /\ UNCHANGED mem
    <3>1. OthersKept(t) /\ At(t, "over")'
      BY <1>21, <2>2, GivingUp DEF SyncFetches, SyncRecord, At, TypeOK
    <3>2. Alone(t)
      BY <1>21, <2>2, <1>s, SyncAlone DEF SyncFetches, Syncs, Starts, Live, At
    <3>3. Tidy(t)
      BY <1>21, <2>2, <3>1, <1>s DEF SyncFetches, Begins, SyncRecord, File, TypeOK, Tidy,
         At, Starts, InTry, InLock, Working, Indexes
    <3>4. Calm(t)
      BY <1>21, <2>2, <3>1, <1>s, <3>2 DEF SyncFetches, Begins, Calm, Syncs, Live, Working,
         At, Starts, Meta
    <3>5. First(t)
      BY <1>21, <2>2, <3>1, <1>f DEF SyncFetches, First, Quiet, At, Starts
    <3> QED
      BY <3>3, <3>4, <3>5 DEF Orderly
  <2> QED
    BY <2>1, <2>2
<1>22. ASSUME RecordRaises(t) PROVE Orderly(t)
  <2>1. OthersKept(t) /\ At(t, "over")'
    BY <1>22, GivingUp DEF RecordRaises, At, TypeOK
  <2>2. Tidy(t)
    BY <1>22, <2>1, <1>s DEF RecordRaises, TypeOK, Tidy, At, Starts, InTry, InLock, Working,
       Indexes
  <2>3. Calm(t)
    BY <1>22, <2>1, <1>s DEF RecordRaises, Calm, Syncs, Live, Working, At, Starts, Meta
  <2>4. First(t)
    BY <1>22, <2>1, <1>f DEF RecordRaises, First, Quiet, At, Starts
  <2> QED
    BY <2>2, <2>3, <2>4 DEF Orderly
<1>23. ASSUME ParseSaveRaises(t) PROVE Orderly(t)
  <2>1. OthersKept(t) /\ At(t, "over")'
    BY <1>23, GivingUp DEF ParseSaveRaises, At, TypeOK
  <2>2. Tidy(t)
    BY <1>23, <2>1, <1>s DEF ParseSaveRaises, TypeOK, Tidy, At, Starts, InTry, InLock,
       Working, Indexes
  <2>3. Calm(t)
    BY <1>23, <2>1, <1>s DEF ParseSaveRaises, Calm, Syncs, Live, Working, At, Starts, Meta
  <2>4. First(t)
    BY <1>23, <2>1, <1>f DEF ParseSaveRaises, First, Quiet, At, Starts
  <2> QED
    BY <2>2, <2>3, <2>4 DEF Orderly
<1>24. ASSUME ParseFails(t) PROVE Orderly(t)
  <2>1. CASE Known(t)
    <3>1. Placed(t, "parseErrorSave") /\ OtherCopies(t)
      BY <1>24, <2>1, SettingTo DEF ParseFails, OtherCopies
    <3>2. "repaired" \notin marks' => Alone(t)
      BY <1>24, <2>1, WorkingAlone DEF ParseFails, Undoes, Working, At, Alone
    <3>3. Tidy(t)
      BY <1>24, <2>1, <3>1, <1>s DEF ParseFails, Undoes, UnmarkQueue, TypeOK, Tidy, At,
         Starts, InTry, InLock, Working, Indexes, Placed
    <3>4. Calm(t)
      BY <1>24, <2>1, <3>1, <1>s, <3>2 DEF ParseFails, Undoes, Calm, Syncs, Live, Working,
         At, Starts, Meta, Placed, OtherCopies
    <3>5. First(t)
      BY <1>24, <2>1, <3>1, <1>f DEF ParseFails, First, Quiet, At, Starts, Placed
    <3> QED
      BY <3>3, <3>4, <3>5 DEF Orderly
  <2>2. CASE ~Known(t)
    <3>1. OthersKept(t) /\ At(t, "over")'
      BY <1>24, <2>2, GivingUp DEF ParseFails, At, TypeOK
    <3>2. Tidy(t)
      BY <1>24, <2>2, <3>1, <1>s DEF ParseFails, Undoes, UnmarkQueue, TypeOK, Tidy, At,
         Starts, InTry, InLock, Working, Indexes
    <3>3. Calm(t)
      BY <1>24, <2>2, <3>1, <1>s DEF ParseFails, Undoes, Calm, Syncs, Live, Working, At,
         Starts, Meta
    <3>4. First(t)
      BY <1>24, <2>2, <3>1, <1>f DEF ParseFails, First, Quiet, At, Starts
    <3> QED
      BY <3>2, <3>3, <3>4 DEF Orderly
  <2> QED
    BY <2>1, <2>2
<1>25. ASSUME IndexSaveRaises(t) PROVE Orderly(t)
  <2>1. OthersKept(t) /\ At(t, "over")'
    BY <1>25, GivingUp DEF IndexSaveRaises, At, TypeOK
  <2>2. Tidy(t)
    BY <1>25, <2>1, <1>s DEF IndexSaveRaises, Unlocks, TypeOK, Tidy, At, Starts, InTry,
       InLock, Working, Indexes
  <2>3. Calm(t)
    BY <1>25, <2>1, <1>s DEF IndexSaveRaises, Calm, Syncs, Live, Working, At, Starts, Meta
  <2>4. First(t)
    BY <1>25, <2>1, <1>f DEF IndexSaveRaises, First, Quiet, At, Starts
  <2> QED
    BY <2>2, <2>3, <2>4 DEF Orderly
<1>26. ASSUME IndexStoreRaises(t) PROVE Orderly(t)
  <2>1. Placed(t, "indexError")
    BY <1>26, GoingTo DEF IndexStoreRaises
  <2>2. Tidy(t)
    BY <1>26, <2>1, <1>s DEF IndexStoreRaises, TypeOK, Tidy, At, Starts, InTry, InLock,
       Working, Indexes, Placed
  <2>3. Calm(t)
    BY <1>26, <2>1, <1>s DEF IndexStoreRaises, Calm, Syncs, Live, Working, At, Starts, Meta,
       Placed
  <2>4. First(t)
    BY <1>26, <2>1, <1>f DEF IndexStoreRaises, First, Quiet, At, Starts, Placed
  <2> QED
    BY <2>2, <2>3, <2>4 DEF Orderly
<1>27. ASSUME IndexFails(t) PROVE Orderly(t)
  <2>1. CASE ~At(t, "indexedSave")
    <3>1. Placed(t, "indexError")
      BY <1>27, <2>1, GoingTo DEF IndexFails, At
    <3>2. Tidy(t)
      BY <1>27, <2>1, <3>1, <1>s DEF IndexFails, Unlocks, TypeOK, Tidy, At, Starts, InTry,
         InLock, Working, Indexes, Placed
    <3>3. Calm(t)
      BY <1>27, <2>1, <3>1, <1>s DEF IndexFails, Calm, Syncs, Live, Working, At, Starts,
         Meta, Placed
    <3>4. First(t)
      BY <1>27, <2>1, <3>1, <1>f DEF IndexFails, First, Quiet, At, Starts, Placed
    <3> QED
      BY <3>2, <3>3, <3>4 DEF Orderly
  <2>2. CASE At(t, "indexedSave")
    <3>1. Placed(t, "indexUndo")
      BY <1>27, <2>2, GoingTo DEF IndexFails, At
    <3>2. Tidy(t)
      BY <1>27, <2>2, <3>1, <1>s DEF IndexFails, Unlocks, TypeOK, Tidy, At, Starts, InTry,
         InLock, Working, Indexes, Placed
    <3>3. Calm(t)
      BY <1>27, <2>2, <3>1, <1>s DEF IndexFails, Calm, Syncs, Live, Working, At, Starts,
         Meta, Placed
    <3>4. First(t)
      BY <1>27, <2>2, <3>1, <1>f DEF IndexFails, First, Quiet, At, Starts, Placed
    <3> QED
      BY <3>2, <3>3, <3>4 DEF Orderly
  <2> QED
    BY <2>1, <2>2
<1>28. ASSUME ErrorSaveRaises(t) PROVE Orderly(t)
  <2>1. OthersKept(t) /\ At(t, "over")'
    BY <1>28, GivingUp DEF ErrorSaveRaises, At, TypeOK
  <2>2. Tidy(t)
    BY <1>28, <2>1, <1>s DEF ErrorSaveRaises, Unlocks, UnmarkQueue, TypeOK, Tidy, At,
       Starts, InTry, InLock, Working, Indexes
  <2>3. Calm(t)
    BY <1>28, <2>1, <1>s DEF ErrorSaveRaises, Calm, Syncs, Live, Working, At, Starts, Meta
  <2>4. First(t)
    BY <1>28, <2>1, <1>f DEF ErrorSaveRaises, First, Quiet, At, Starts
  <2> QED
    BY <2>2, <2>3, <2>4 DEF Orderly
<1>29. ASSUME DeleteRaises(t) PROVE Orderly(t)
  <2>1. OthersKept(t) /\ At(t, "over")'
    BY <1>29, GivingUp DEF DeleteRaises, At, TypeOK
  <2>2. Tidy(t)
    BY <1>29, <2>1, <1>s DEF DeleteRaises, Unlocks, TypeOK, Tidy, At, Starts, InTry, InLock,
       Working, Indexes
  <2>3. Calm(t)
    BY <1>29, <2>1, <1>s DEF DeleteRaises, Calm, Syncs, Live, Working, At, Starts, Meta
  <2>4. First(t)
    BY <1>29, <2>1, <1>f DEF DeleteRaises, First, Quiet, At, Starts
  <2> QED
    BY <2>2, <2>3, <2>4 DEF Orderly
<1>30. ASSUME SyncCancelled(t) PROVE Orderly(t)
  <2>1. OthersKept(t) /\ At(t, "over")'
    BY <1>30, GivingUp DEF SyncCancelled, At, TypeOK
  <2>2. Tidy(t)
    BY <1>30, <2>1, <1>s DEF SyncCancelled, Unlocks, UnmarkQueue, TypeOK, Tidy, At, Starts,
       InTry, InLock, Working, Indexes
  <2>3. Calm(t)
    BY <1>30, <2>1, <1>s DEF SyncCancelled, Calm, Syncs, Live, Working, At, Starts, Meta
  <2>4. First(t)
    BY <1>30, <2>1, <1>f DEF SyncCancelled, First, Quiet, At, Starts
  <2> QED
    BY <2>2, <2>3, <2>4 DEF Orderly
<1> QED
  BY <1>1, <1>2, <1>3, <1>4, <1>5, <1>6, <1>7, <1>8, <1>9, <1>10, <1>11, <1>12, <1>13,
     <1>14, <1>15, <1>16, <1>17, <1>18, <1>19, <1>20, <1>21, <1>22, <1>23, <1>24, <1>25,
     <1>26, <1>27, <1>28, <1>29, <1>30 DEF Steps, Failures

(* Every step keeps the marks and the locks accounted for. *)
LEMMA HeldStep == TypeOK /\ TypeOK' /\ Held /\ Busy /\ [Next]_vars => Held'
<1> SUFFICES ASSUME TypeOK, TypeOK', Held, Busy, [Next]_vars PROVE Held'
  OBVIOUS
<1>1. ASSUME NEW t \in Tasks, Steps(t) \/ Failures(t) PROVE Held'
  BY <1>1, StepsAreOrderly, TidyKeepsHeld DEF Held, Orderly
<1>2. ASSUME NEW t \in Tasks, NEW job \in Jobs[t], Submit(t, job) PROVE Held'
  <2>1. OthersKept(t) /\ At(t, "new") /\ At(t, "start")'
    BY <1>2, Submitting DEF Submit, At
  <2>2. ~InTry(t) /\ ~InLock(t) /\ ~InLock(t)' /\ Indexes(t)'
    BY <2>1 DEF InTry, InLock, Working, At, Indexes
  <2>3. Tidy(t)
    BY <1>2, <2>1, <2>2 DEF Tidy, Submit
  <2> QED
    BY <2>3, TidyKeepsHeld
<1>3. ASSUME NEW p \in Processes, Repair(p) PROVE Held'
  BY <1>3 DEF Repair, Held, NothingIsLeftHeld, InTry, InLock, Working, At, Stage, Indexes
<1>4. ASSUME NEW p \in Processes, Restart(p) PROVE Held'
  <2> DEFINE Stays(t) == task'[t] = task[t]
  <2>1. \A t \in Tasks : IF ProcessOf[t] = p THEN Stays(t) \/ At(t, "over")' ELSE Stays(t)
    BY <1>4, Restarting DEF At
  <2>2. \A t \in Tasks : Stays(t) => /\ (InTry(t)' <=> InTry(t)) /\ (InLock(t)' <=> InLock(t))
                                /\ (Indexes(t)' <=> Indexes(t))
    BY DEF InTry, InLock, Working, At, Stage, Indexes
  <2>3. \A t \in Tasks : At(t, "over")' => ~InLock(t)' /\ Indexes(t)'
    BY DEF InLock, At, Indexes
  <2>4. \A t \in Tasks : ProcessOf[t] = p => ~InLock(t)'
    <3> SUFFICES ASSUME NEW t \in Tasks, ProcessOf[t] = p, Stays(t) PROVE ~InLock(t)'
      BY <2>1, <2>3
    <3>1. ~Live(t) \/ At(t, "over")
      BY <1>4, Restarting DEF Live, At
    <3> QED
      BY <3>1, <2>2 DEF InLock, Live, At
  <2>5. /\ ~queue'[p] /\ ~lock'[p]
        /\ \A q \in Processes : q # p => queue'[q] = queue[q] /\ lock'[q] = lock[q]
    BY <1>4 DEF Restart, TypeOK
  <2> HIDE DEF Stays
  <2> QED
    BY <2>1, <2>2, <2>3, <2>4, <2>5, ProcessAssumption DEF Held, NothingIsLeftHeld
<1>5. CASE UNCHANGED vars
  BY <1>5 DEF vars, Held, NothingIsLeftHeld, InTry, InLock, Working, At, Stage, Indexes
<1> QED
  BY <1>1, <1>2, <1>3, <1>4, <1>5 DEF Next

(* Every step keeps one call at a time. *)
LEMMA BusyStep == TypeOK /\ Held /\ Busy /\ [Next]_vars => Busy'
<1> SUFFICES ASSUME TypeOK, Held, Busy, [Next]_vars PROVE Busy'
  OBVIOUS
<1>1. ASSUME NEW t \in Tasks, Steps(t) \/ Failures(t) PROVE Busy'
  BY <1>1, StepsAreOrderly, CalmAndFirstKeepBusy DEF Held, Orderly
<1>2. ASSUME NEW t \in Tasks, NEW job \in Jobs[t], Submit(t, job) PROVE Busy'
  <2>1. /\ OthersKept(t) /\ At(t, "new") /\ At(t, "start")' /\ Stage(t)' = Head(job)
        /\ UNCHANGED <<row, mem, marks>>
    BY <1>2, Submitting DEF Submit, At, Stage
  <2>2. /\ Head(job) = "add" => job = Ingest
        /\ Head(job) \in {"load", "fetch"} => job = Sync
    BY JobRest, JobsAssumption
  <2>3. \A u \in Tasks \ {t} : /\ (Working(u)' <=> Working(u)) /\ task'[u] = task[u]
                                /\ Stage(u)' = Stage(u)
                                /\ (Starts(u, "add")' <=> Starts(u, "add"))
    BY <2>1, Elsewhere
  <2>4. ~Working(t) /\ ~Working(t)'
    BY <2>1 DEF Working, At
  <2>5. Early'
    <3>1. ASSUME Starts(t, "add")'
          PROVE  /\ row = NoFile /\ \A p \in Processes : mem[p] = NoFile
                 /\ \A u \in Tasks : At(u, "new")
      <4>1. job = Ingest
        BY <3>1, <2>1, <2>2 DEF Starts
      <4> QED
        BY <1>2, <4>1 DEF Submit, Busy, Early
    <3>2. CASE Starts(t, "add")'
      <4>1. \A u \in Tasks : Quiet(u)' /\ (u # t => ~Starts(u, "add")')
        BY <3>1, <3>2, <2>1, <2>3 DEF Quiet, At, Starts
      <4> QED
        BY <3>1, <3>2, <4>1, <2>1 DEF Early, At
    <3>3. CASE ~Starts(t, "add")'
      <4>1. Quiet(t)' /\ ~At(t, "new")'
        BY <2>1 DEF Quiet, At
      <4>2. \A u \in Tasks \ {t} : Quiet(u)' <=> Quiet(u)
        BY <2>3 DEF Quiet
      <4> QED
        BY <3>3, <4>1, <4>2, <2>1, <2>3 DEF Busy, Early
    <3> QED
      BY <3>2, <3>3
  <2>6. \A u \in Tasks : Syncs(u)'
    BY <1>2, <2>1, <2>2, <2>3 DEF Busy, Syncs, Live, Submit
  <2>7. OneAtATime' /\ (StatusStays => StatusStays')
    BY <2>1, <2>3, <2>4 DEF Busy, OneAtATime, StatusStays, Known, Meta
  <2> QED
    BY <2>1, <2>5, <2>6, <2>7 DEF Busy
<1>3. ASSUME NEW p \in Processes, Repair(p) PROVE Busy'
  <2>1. /\ UNCHANGED <<task, row>> /\ mem[p].status \in Fixed
        /\ \A q \in Processes : q # p => mem'[q] = mem[q]
        /\ "repaired" \in marks => "repaired" \in marks'
        /\ "repaired" \notin marks' => \A t \in Tasks : ProcessOf[t] = p => ~Working(t)
    BY <1>3, Repairing DEF Repair, Broken, Fixed
  <2>2. mem[p] # NoFile
    BY <2>1 DEF NoFile, Fixed
  <2>3. Early'
    <3>1. ~(\A t \in Tasks : At(t, "new"))
      BY <2>1 DEF Busy, Early
    <3>2. \A t \in Tasks : ~Starts(t, "add")
      BY <2>2 DEF Busy, Early
    <3> QED
      BY <3>1, <3>2, <2>1 DEF Early, At, Starts, Stage
  <2>4. \A t \in Tasks : (Working(t)' <=> Working(t)) /\ Syncs(t)'
    BY <2>1 DEF Busy, Syncs, Live, Working, At, Stage
  <2>5. ASSUME "repaired" \notin marks', StatusStays PROVE StatusStays'
    BY <2>1, <2>4, <2>5, ProcessAssumption DEF StatusStays, Known, Meta
  <2> QED
    BY <2>1, <2>3, <2>4, <2>5 DEF Busy, OneAtATime
<1>4. ASSUME NEW p \in Processes, Restart(p) PROVE Busy'
  <2>1. \A t \in Tasks :
           IF ProcessOf[t] = p /\ Live(t) THEN At(t, "over")' ELSE task'[t] = task[t]
    BY <1>4, Restarting DEF At
  <2>2. /\ UNCHANGED <<row, marks>> /\ mem'[p] = row
        /\ \A q \in Processes : q # p => mem'[q] = mem[q]
    BY <1>4 DEF Restart, TypeOK
  <2>3. \A t \in Tasks : At(t, "over")' => Quiet(t)' /\ ~Starts(t, "add")' /\ ~Working(t)' /\ Syncs(t)'
    BY DEF At, Quiet, Starts, Working, Syncs, Live
  <2>4. \A t \in Tasks : task'[t] = task[t] =>
           /\ (Quiet(t)' <=> Quiet(t)) /\ (Starts(t, "add")' <=> Starts(t, "add"))
           /\ (Working(t)' <=> Working(t)) /\ (Syncs(t)' <=> Syncs(t))
           /\ (At(t, "new")' <=> At(t, "new"))
    BY DEF At, Quiet, Starts, Working, Syncs, Live, Stage
  <2>5. \A t \in Tasks : At(t, "over")' => ~At(t, "new")'
    BY DEF At
  <2>6. Early'
    BY <2>1, <2>2, <2>3, <2>4, <2>5 DEF Busy, Early
  <2>7. \A t \in Tasks : Working(t)' => Working(t) /\ (ProcessOf[t] # p)
    <3>1. \A t \in Tasks : Working(t) => Live(t)
      BY DEF Working, Live
    <3> QED
      BY <3>1, <2>1, <2>3, <2>4
  <2>8. StatusStays => StatusStays'
    BY <2>2, <2>7, ProcessAssumption DEF StatusStays, Known, Meta
  <2>9. OneAtATime'
    BY <2>2, <2>7 DEF Busy, OneAtATime
  <2>10. \A t \in Tasks : Syncs(t)'
    BY <2>1, <2>3, <2>4 DEF Busy
  <2> QED
    BY <2>2, <2>6, <2>8, <2>9, <2>10 DEF Busy
<1>5. CASE UNCHANGED vars
  <2>1. \A t \in Tasks :
           /\ (Quiet(t)' <=> Quiet(t)) /\ (Starts(t, "add")' <=> Starts(t, "add"))
           /\ (Working(t)' <=> Working(t)) /\ (Syncs(t)' <=> Syncs(t))
           /\ (At(t, "new")' <=> At(t, "new")) /\ (Known(t)' <=> Known(t)) /\ Meta(t)' = Meta(t)
    BY <1>5 DEF vars, At, Quiet, Starts, Working, Syncs, Live, Stage, Known, Meta
  <2> QED
    BY <1>5, <2>1 DEF vars, Busy, Early, OneAtATime, StatusStays
<1> QED
  BY <1>1, <1>2, <1>3, <1>4, <1>5 DEF Next

-----------------------------------------------------------------------------
(* The inductive invariant *)

FilesInvariant == TypeOK /\ Held /\ Busy

(* It holds at first. *)
LEMMA InvariantAtFirst == Init => FilesInvariant
<1> SUFFICES ASSUME Init PROVE FilesInvariant
  OBVIOUS
<1>1. NewTask \in Calls /\ NewTask.at = "new"
  BY NoFileType DEF NewTask, Calls, Rests, Places
<1>2. /\ row \in Files /\ row.status \in {"none", "indexed"} /\ row.hash \in Nat
  <2>1. CASE row = NoFile
    BY <2>1, NoFileType DEF NoFile
  <2>2. CASE row = File("indexed", 1, TRUE)
    <3>1. row \in Files /\ row.status = "indexed"
      BY <2>2, FileMade DEF Statuses
    <3> QED
      BY <3>1, FileParts
  <2> QED
    BY <2>1, <2>2 DEF Init
<1>3. \A t \in Tasks : task[t] = NewTask /\ At(t, "new")
  BY <1>1 DEF Init, At
<1>4. TypeOK
  BY <1>1, <1>2, <1>3 DEF Init, TypeOK
<1>5. \A t \in Tasks : /\ ~InTry(t) /\ ~InLock(t) /\ Indexes(t) /\ ~Working(t) /\ Syncs(t)
                       /\ ~Starts(t, "add")
  BY <1>1, <1>3 DEF InTry, InLock, Indexes, Working, Syncs, Live, Starts, At
<1>6. Held
  BY <1>5 DEF Init, Held, NothingIsLeftHeld
<1>7. Busy
  BY <1>2, <1>5 DEF Init, Busy, Early, Fixed, OneAtATime, StatusStays
<1> QED
  BY <1>4, <1>6, <1>7 DEF FilesInvariant

(* In every behaviour, whatever the calls, the processes and the bounds,   *)
(* the variables keep their types and the three parts of the invariant.    *)
THEOREM FilesInvariantHolds == Spec => []FilesInvariant
<1>1. FilesInvariant /\ [Next]_vars => FilesInvariant'
  BY TypeStep, HeldStep, BusyStep DEF FilesInvariant
<1> QED
  BY <1>1, InvariantAtFirst, PTL DEF Spec

(* The set of files being processed holds the file only while a call is in *)
(* the try statement whose finally clause takes it out, and the lock is    *)
(* held by one call: no raising, cancelled or restarted call leaves them.  *)
THEOREM NothingStaysHeld == Spec => []NothingIsLeftHeld
<1>1. FilesInvariant => NothingIsLeftHeld
  BY DEF FilesInvariant, Held
<1> QED
  BY <1>1, FilesInvariantHolds, PTL

(* Two calls of a process work on one file only if it was repaired under   *)
(* the first, or its final status was taken back.                          *)
THEOREM WorksOneAtATime == Spec => []OneAtATime
<1>1. FilesInvariant => OneAtATime
  BY DEF FilesInvariant, Busy
<1> QED
  BY <1>1, FilesInvariantHolds, PTL

-----------------------------------------------------------------------------
(* What the stores hold, of a file that nothing has disturbed              *)

(* A call has begun a stage, or has read the rows; it has written the row   *)
(* for what it is working on; it is deleting the file.                     *)
Begun(t) == ~Quiet(t) \/ Starts(t, "fetch")
Saved(t) == Working(t) /\ task[t].at \notin {"parseSave", "indexSave"}
Deletes(t) == ~Quiet(t) /\ Stage(t) = "delete"

(* The stores hold the chunks of the Markdown object, which is version v.   *)
Searchable(v) == obj = v /\ pg = {v} /\ mv = {v}

(* What a record says of the stores is so.                                 *)
Truthful(f) ==
    /\ f.md => obj = f.hash
    /\ f.status = "indexed" => Searchable(f.hash)

(* While nobody deletes the file, the row and the copies as new as the row *)
(* say what is so.                                                         *)
TellsTheTruth ==
    deleted = "no" => /\ Truthful(row)
                      /\ \A q \in Processes : q \in fresh => Truthful(mem[q])

(* The calls under way are of one process, and a deletion is by itself.     *)
OneProcess == \A t, u \in Tasks : t # u =>
    /\ Begun(t) /\ Begun(u) => ProcessOf[t] = ProcessOf[u]
    /\ Deletes(t) => Quiet(u)

(* The stages that go with a place. *)
Staged(t) ==
    /\ task[t].at \in {"clearPg", "clearMv", "countSave"} => Stage(t) \in {"index", "delete"}
    /\ task[t].at \in {"remove", "removeRow"} => Stage(t) = "delete"
    /\ Deletes(t) => task[t].at \in {"clearPg", "clearMv", "countSave", "remove", "removeRow"}

(* While a call is at work the copy says so, and once it has written the    *)
(* row no copy as new as the row says that the file is indexed.            *)
RowAtWork(t) ==
    /\ Working(t) => Meta(t).status \in Fixed
    /\ Saved(t) =>
        /\ ProcessOf[t] \in fresh /\ row.hash = Meta(t).hash /\ row.status \in Fixed
        /\ \A q \in Processes : q \in fresh =>
              mem[q].hash = row.hash /\ mem[q].status # "indexed"

(* The version a call works on, and how far it has come with the stores.    *)
Versions(t) ==
    /\ task[t].at \in {"parseSave", "parse"} => task[t].ver = Meta(t).hash
    /\ task[t].at \in {"indexSave", "read"} => Meta(t).md
Clearing(t) == deleted = "no" =>
    /\ Working(t) /\ task[t].at \in {"clearPg", "clearMv", "countSave", "store"}
           => task[t].ver = obj /\ obj = Meta(t).hash
    /\ task[t].at \in {"clearMv", "countSave", "store"} => pg = {}
    /\ task[t].at \in {"countSave", "store"} => mv = {}
    /\ At(t, "stored") => Searchable(Meta(t).hash)

(* How far a deletion has come. *)
Emptying(t) == Deletes(t) =>
    /\ deleted = "begun" /\ obj = 0
    /\ ~At(t, "clearPg") => pg = {}
    /\ task[t].at \notin {"clearPg", "clearMv"} => mv = {}
    /\ At(t, "removeRow") => Meta(t) = NoFile

(* After it only a process with an old copy knows the file, which is found  *)
(* out when a call of that process writes the row.                         *)
Gone ==
    deleted = "done" =>
        /\ row = NoFile /\ obj = 0 /\ pg = {} /\ mv = {}
        /\ \A q \in Processes : q \in fresh => mem[q] = NoFile
Outlives(t) ==
    /\ deleted # "no" => ~Starts(t, "add")
    /\ deleted = "done" =>
        /\ ~Starts(t, "fetch")
        /\ ~Quiet(t) => /\ ProcessOf[t] \notin fresh
                        /\ task[t].at \in {"parseSave", "indexSave", "unparsedSave", "paramsSave"}

Sound(t) ==
    Staged(t) /\ RowAtWork(t) /\ Versions(t) /\ Clearing(t) /\ Emptying(t) /\ Outlives(t)

StoresAgree == OneProcess /\ TellsTheTruth /\ Gone /\ \A t \in Tasks : Sound(t)
StoresInvariant == ~Disturbed => StoresAgree

-----------------------------------------------------------------------------
(* What a step does to its own call                                        *)

(* A call that is in the middle of a stage stays in it or ends it.         *)
Continues(t) ==
    /\ OthersKept(t)
    /\ Quiet(t)' \/ (Stage(t)' = Stage(t) /\ (~Quiet(t) \/ Begins(t)))
    /\ Begun(t)' => ~Quiet(t) \/ Begins(t)

(* Action by action. *)
LEMMA CallContinues ==
    ASSUME TypeOK, NEW t \in Tasks, Steps(t) \/ Failures(t)
    PROVE  Continues(t)
<1> DEFINE Ended == OthersKept(t) /\ task'[t].at = "over"
           Went == OthersKept(t) /\ Stage(t)' = Stage(t) /\ (~Quiet(t) \/ Begins(t))
           Rested == OthersKept(t) /\ Quiet(t)' /\ (~Quiet(t) \/ Begins(t))
<1>e. Ended => Continues(t)
  BY DEF Continues, Quiet, Begun, Starts, At
<1>w. Went \/ Rested => Continues(t)
  BY DEF Continues
<1>g. ASSUME NEW place, Goes(t, place) PROVE OthersKept(t) /\ Stage(t)' = Stage(t)
  BY <1>g, GoingTo DEF Placed
<1>s. ASSUME NEW new, NEW place, Sets(t, new, place) PROVE OthersKept(t) /\ Stage(t)' = Stage(t)
  BY <1>s, SettingTo DEF Placed
<1>u. GiveUp(t) => Ended
  BY GivingUp DEF TypeOK
<1>f. Finish(t) /\ task[t].todo # <<>> => OthersKept(t) /\ Quiet(t)'
  BY Finishing DEF TypeOK, Quiet
<1>l. ~At(t, "new") /\ ~At(t, "over") => task[t].todo # <<>>
  BY DEF TypeOK
<1> HIDE DEF Continues
<1>1. ASSUME AddRecord(t) PROVE Ended \/ Went \/ Rested
  BY <1>1, <1>s DEF AddRecord, At, Starts, Quiet
<1>2. ASSUME ParamsUpdate(t) PROVE Ended \/ Went \/ Rested
  BY <1>2, <1>s, <1>u DEF ParamsUpdate, At, Starts, Quiet
<1>3. ASSUME RecordSaved(t) PROVE Ended \/ Went \/ Rested
  BY <1>3, <1>f, <1>l DEF RecordSaved, At, Starts, Quiet
<1>4. ASSUME ParseBegins(t) PROVE Ended \/ Went \/ Rested
  BY <1>4, <1>u, StartingToParse DEF ParseBegins, At, Starts, Quiet, Moved
<1>5. ASSUME ParseSaved(t) PROVE Ended \/ Went \/ Rested
  BY <1>5, <1>g DEF ParseSaved, At, Starts, Quiet
<1>6. ASSUME ParseDone(t) PROVE Ended \/ Went \/ Rested
  BY <1>6, <1>s, <1>u DEF ParseDone, At, Starts, Quiet
<1>7. ASSUME ParseEnds(t) PROVE Ended \/ Went \/ Rested
  BY <1>7, <1>f, <1>u, <1>l DEF ParseEnds, At, Starts, Quiet
<1>8. ASSUME IndexBegins(t) PROVE Ended \/ Went \/ Rested
  BY <1>8, <1>s, <1>u DEF IndexBegins, At, Starts, Quiet
<1>9. ASSUME IndexSaved(t) PROVE Ended \/ Went \/ Rested
  BY <1>9, <1>g, <1>u DEF IndexSaved, At, Starts, Quiet
<1>10. ASSUME IndexReads(t) PROVE Ended \/ Went \/ Rested
  BY <1>10, Reading DEF IndexReads, At, Starts, Quiet, Moved
<1>11. ASSUME IndexStores(t) PROVE Ended \/ Went \/ Rested
  BY <1>11, <1>g DEF IndexStores, At, Starts, Quiet
<1>12. ASSUME SetIndexed(t) PROVE Ended \/ Went \/ Rested
  BY <1>12, <1>s, <1>u DEF SetIndexed, At, Starts, Quiet
<1>13. ASSUME IndexEnds(t) PROVE Ended \/ Went \/ Rested
  BY <1>13, <1>f, <1>u, <1>l DEF IndexEnds, At, Starts, Quiet
<1>14. ASSUME ClearsPg(t) PROVE Ended \/ Went \/ Rested
  BY <1>14, <1>g DEF ClearsPg, At, Starts, Quiet
<1>15. ASSUME ClearsMilvus(t) PROVE Ended \/ Went \/ Rested
  BY <1>15, <1>s, <1>g DEF ClearsMilvus, At, Starts, Quiet
<1>16. ASSUME CountSaved(t) PROVE Ended \/ Went \/ Rested
  BY <1>16, <1>g DEF CountSaved, At, Starts, Quiet
<1>17. ASSUME DeleteBegins(t) PROVE Ended \/ Went \/ Rested
  BY <1>17, <1>g, <1>u DEF DeleteBegins, At, Starts, Quiet
<1>18. ASSUME DeleteRemoves(t) PROVE Ended \/ Went \/ Rested
  BY <1>18, <1>g, <1>u DEF DeleteRemoves, At, Starts, Quiet
<1>19. ASSUME DeleteEnds(t) PROVE Ended \/ Went \/ Rested
  BY <1>19, <1>f, <1>l DEF DeleteEnds, At, Starts, Quiet
<1>20. ASSUME SyncLoads(t) PROVE Ended \/ Went \/ Rested
  BY <1>20, <1>f, <1>u, <1>l DEF SyncLoads, At, Starts, Quiet
<1>21. ASSUME SyncFetches(t) PROVE Ended \/ Went \/ Rested
  BY <1>21, <1>s, <1>u DEF SyncFetches, At, Starts, Quiet
<1>22. ASSUME RecordRaises(t) PROVE Ended \/ Went \/ Rested
  BY <1>22, <1>u DEF RecordRaises, At, Starts, Quiet
<1>23. ASSUME ParseSaveRaises(t) PROVE Ended \/ Went \/ Rested
  BY <1>23, <1>u DEF ParseSaveRaises, At, Starts, Quiet
<1>24. ASSUME ParseFails(t) PROVE Ended \/ Went \/ Rested
  BY <1>24, <1>s, <1>u DEF ParseFails, At, Starts, Quiet
<1>25. ASSUME IndexSaveRaises(t) PROVE Ended \/ Went \/ Rested
  BY <1>25, <1>u DEF IndexSaveRaises, At, Starts, Quiet
<1>26. ASSUME IndexStoreRaises(t) PROVE Ended \/ Went \/ Rested
  BY <1>26, <1>g DEF IndexStoreRaises, At, Starts, Quiet
<1>27. ASSUME IndexFails(t) PROVE Ended \/ Went \/ Rested
  BY <1>27, <1>g DEF IndexFails, At, Starts, Quiet
<1>28. ASSUME ErrorSaveRaises(t) PROVE Ended \/ Went \/ Rested
  BY <1>28, <1>u DEF ErrorSaveRaises, At, Starts, Quiet
<1>29. ASSUME DeleteRaises(t) PROVE Ended \/ Went \/ Rested
  BY <1>29, <1>u DEF DeleteRaises, At, Starts, Quiet
<1>30. ASSUME SyncCancelled(t) PROVE Ended \/ Went \/ Rested
  BY <1>30, <1>u DEF SyncCancelled, At, Starts, Quiet
<1> QED
    BY <1>e, <1>w, <1>1, <1>2, <1>3, <1>4, <1>5, <1>6, <1>7, <1>8, <1>9, <1>10, <1>11, <1>12,
     <1>13, <1>14, <1>15, <1>16, <1>17, <1>18, <1>19, <1>20, <1>21, <1>22, <1>23, <1>24, <1>25,
     <1>26, <1>27, <1>28, <1>29, <1>30 DEF Steps, Failures

-----------------------------------------------------------------------------
(* What a step leaves to the other calls                                   *)

(* Nothing takes a mark away. *)
LEMMA MarksStay ==
    ASSUME [Next]_vars, ~Disturbed'
    PROVE  ~Disturbed
<1> USE DEF Disturbed
<1>1. ASSUME NEW t \in Tasks, Steps(t) PROVE ~Disturbed
  BY <1>1 DEF Steps, AddRecord, ParamsUpdate, RecordSaved, ParseBegins, ParseSaved, ParseDone,
     ParseEnds, IndexBegins, IndexSaved, IndexReads, IndexStores, SetIndexed, IndexEnds,
     ClearsPg, ClearsMilvus, CountSaved, DeleteBegins, DeleteRemoves, DeleteEnds, SyncLoads,
     SyncFetches, Persist, Begins, Undoes
<1>2. ASSUME NEW t \in Tasks, Failures(t) PROVE ~Disturbed
  BY <1>2 DEF Failures, RecordRaises, ParseSaveRaises, ParseFails, IndexSaveRaises,
     IndexStoreRaises, IndexFails, ErrorSaveRaises, DeleteRaises, SyncCancelled, Undoes
<1>3. ASSUME NEW t \in Tasks, NEW job \in Jobs[t], Submit(t, job) PROVE ~Disturbed
  BY <1>3 DEF Submit
<1>4. ASSUME NEW p \in Processes, Repair(p) \/ Restart(p) PROVE ~Disturbed
  BY <1>4 DEF Repair, Restart
<1>5. CASE UNCHANGED vars
  BY <1>5 DEF vars
<1> QED
  BY <1>1, <1>2, <1>3, <1>4, <1>5 DEF Next

(* A stage that starts meets no call of another process, and is or meets a *)
(* deletion by itself.                                                     *)
LEMMA StartsApart ==
    ASSUME NEW t \in Tasks, Begins(t), ~Disturbed',
           NEW u \in Tasks, u # t
    PROVE  /\ Begun(u) => ProcessOf[u] = ProcessOf[t]
           /\ ~Quiet(u) => Stage(u) # "delete" /\ Stage(t) # "delete"
<1>1. ~Clash(t)
  BY DEF Begins, Disturbed
<1>2. Begun(u) => Live(u)
  BY DEF Begun, Quiet, Live, Starts, At
<1>3. ~Quiet(u) => Live(u) /\ ~At(u, "start")
  BY DEF Quiet, Live, At
<1> QED
  BY <1>1, <1>2, <1>3 DEF Clash

(* The snapshot that arrives is of a copy as new as the row. *)
LEMMA ArrivesInOrder ==
    ASSUME NEW t \in Tasks, Persist(t), ~Disturbed'
    PROVE  row' = Meta(t) /\ fresh' = {ProcessOf[t]} /\ ProcessOf[t] \in fresh
  BY DEF Persist, Disturbed

(* Nobody's status is set under a call at work. *)
LEMMA UndoesAlone ==
    ASSUME NEW t \in Tasks, Undoes(t), ~Disturbed'
    PROVE  Alone(t)
  BY DEF Undoes, Disturbed, Alone

(* The places of a call that is neither at work nor deletes. *)
Asides == {"addSave", "paramsSave", "syncSave", "parsedSave", "parseErrorSave", "unparsedSave",
           "indexUndo", "indexedSave", "indexErrorSave"}

(* By the list of places. *)
LEMMA PlacesAside ==
    ASSUME TypeOK, NEW t \in Tasks, Staged(t), ~Working(t), ~Deletes(t), ~Quiet(t)
    PROVE  task[t].at \in Asides
<1>1. task[t].at \in Places
  BY CallParts DEF TypeOK
<1> QED
  BY <1>1 DEF Staged, Working, Deletes, Quiet, Asides, Places

(* A step of t leaves the stores to a call u at work, and what its process *)
(* knows of the file; it may write that down.                              *)
Spared(u) ==
    /\ UNCHANGED <<stores, deleted>>
    /\ Meta(u)' = Meta(u)
    /\ \/ UNCHANGED <<row, fresh>> /\ \A q \in Processes : mem'[q] = mem[q]
       \/ row' = Meta(u) /\ fresh' = {ProcessOf[u]} /\ ProcessOf[u] \in fresh

(* Action by action: t works itself, which u excludes, or it deletes, which *)
(* excludes u, or it starts beside u, or is done with its work.            *)
LEMMA WorkIsSpared ==
    ASSUME TypeOK, Busy, StoresAgree, ~Disturbed, ~Disturbed',
           NEW t \in Tasks, Steps(t) \/ Failures(t), NEW u \in Tasks, u # t, Working(u)
    PROVE  Spared(u) /\ ~Deletes(t)'
<1>a. ~Quiet(u) /\ Begun(u)
  BY DEF Working, Quiet, Begun
<1>b. ~Deletes(t)
  BY <1>a DEF StoresAgree, OneProcess
<1>c. Begun(t) => ProcessOf[t] = ProcessOf[u]
  BY <1>a DEF StoresAgree, OneProcess
<1>d. ProcessOf[t] = ProcessOf[u] => /\ ~Alone(t) /\ ~Working(t) /\ Meta(t) = Meta(u)
                                     /\ Sync \notin Jobs[t]
  BY SyncAlone DEF Alone, Busy, OneAtATime, Disturbed, Meta
<1>e. ~Quiet(t) => /\ task[t].at \in Asides /\ ProcessOf[t] = ProcessOf[u] /\ Stage(t) # "delete"
  BY <1>b, <1>c, <1>d, PlacesAside DEF Begun, Deletes, StoresAgree, Sound
<1>f. Begins(t) => ProcessOf[t] = ProcessOf[u] /\ Stage(t) # "delete"
  BY <1>a, StartsApart
<1>g. Syncs(t) /\ "repaired" \notin marks
  BY DEF Busy, Disturbed
<1>h. Persist(t) => row' = Meta(t) /\ fresh' = {ProcessOf[t]} /\ ProcessOf[t] \in fresh
  BY ArrivesInOrder
<1>k. Undoes(t) => Alone(t)
  BY UndoesAlone
<1>m. ASSUME UNCHANGED mem PROVE Meta(u)' = Meta(u) /\ \A q \in Processes : mem'[q] = mem[q]
  BY <1>m DEF Meta
<1>n. ~Deletes(t)'
  <2>1. Continues(t)
    BY CallContinues
  <2> QED
    BY <2>1, <1>b, <1>f DEF Continues, Deletes
<1> DEFINE p == ProcessOf[t]
<1> SUFFICES Spared(u)
  BY <1>n
<1>1. ASSUME AddRecord(t) PROVE Spared(u)
  BY <1>1, <1>d, <1>f, EarlyAlone DEF AddRecord
<1>2. ASSUME ParamsUpdate(t) PROVE Spared(u)
  <2>1. CASE Known(t)
    <3>1. Meta(t)' = Meta(t) /\ \A q \in Processes : q # p => mem'[q] = mem[q]
      BY <1>2, <2>1, SettingTo DEF ParamsUpdate
    <3> QED
      BY <1>2, <3>1, <1>d, <1>f, ProcessAssumption DEF ParamsUpdate, Spared, Meta
  <2>2. CASE ~Known(t)
    BY <1>2, <2>2, <1>m DEF ParamsUpdate, Spared
  <2> QED
    BY <2>1, <2>2
<1>3. ASSUME RecordSaved(t) PROVE Spared(u)
  BY <1>3, <1>d, <1>e, <1>h, <1>m DEF RecordSaved, At, Quiet, Spared
<1>4. ASSUME ParseBegins(t) PROVE Spared(u)
  <2>1. ~(Known(t) /\ MayParse(Meta(t).status))
    BY <1>4, <1>d, <1>f, <1>g, StatusAlone DEF ParseBegins, MayParse, Fixed
  <2> QED
    BY <1>4, <2>1, <1>m DEF ParseBegins, Spared
<1>5. ASSUME ParseSaved(t) PROVE Spared(u)
  BY <1>5, <1>e DEF ParseSaved, At, Quiet, Asides
<1>6. ASSUME ParseDone(t) PROVE Spared(u)
  BY <1>6, <1>e DEF ParseDone, At, Quiet, Asides
<1>7. ASSUME ParseEnds(t) PROVE Spared(u)
  BY <1>7, <1>d, <1>e, <1>h, <1>m DEF ParseEnds, At, Quiet, Spared
<1>8. ASSUME IndexBegins(t) PROVE Spared(u)
  <2>1. ~(Known(t) /\ MayIndex(Meta(t).status))
    BY <1>8, <1>d, <1>f, <1>g, StatusAlone DEF IndexBegins, MayIndex, Fixed
  <2> QED
    BY <1>8, <2>1, <1>m DEF IndexBegins, Spared
<1>9. ASSUME IndexSaved(t) PROVE Spared(u)
  BY <1>9, <1>d, <1>e, <1>h, <1>m DEF IndexSaved, At, Quiet, Spared
<1>10. ASSUME IndexReads(t) PROVE Spared(u)
  BY <1>10, <1>e DEF IndexReads, At, Quiet, Asides
<1>11. ASSUME IndexStores(t) PROVE Spared(u)
  BY <1>11, <1>e DEF IndexStores, At, Quiet, Asides
<1>12. ASSUME SetIndexed(t) PROVE Spared(u)
  BY <1>12, <1>d, <1>e, <1>k, <1>m DEF SetIndexed, At, Quiet, Asides, Spared
<1>13. ASSUME IndexEnds(t) PROVE Spared(u)
  BY <1>13, <1>d, <1>e, <1>h, <1>m DEF IndexEnds, At, Quiet, Spared
<1>14. ASSUME ClearsPg(t) PROVE Spared(u)
  BY <1>14, <1>e DEF ClearsPg, At, Quiet, Asides
<1>15. ASSUME ClearsMilvus(t) PROVE Spared(u)
  BY <1>15, <1>e DEF ClearsMilvus, At, Quiet, Asides
<1>16. ASSUME CountSaved(t) PROVE Spared(u)
  BY <1>16, <1>e DEF CountSaved, At, Quiet, Asides
<1>17. ASSUME DeleteBegins(t) PROVE Spared(u)
  BY <1>17, <1>f DEF DeleteBegins, Starts
<1>18. ASSUME DeleteRemoves(t) PROVE Spared(u)
  BY <1>18, <1>e DEF DeleteRemoves, At, Quiet, Asides
<1>19. ASSUME DeleteEnds(t) PROVE Spared(u)
  BY <1>19, <1>e DEF DeleteEnds, At, Quiet, Asides
<1>20. ASSUME SyncLoads(t) PROVE Spared(u)
  BY <1>20, <1>d, <1>f, <1>g DEF SyncLoads, Starts, Syncs, Live, At
<1>21. ASSUME SyncFetches(t) PROVE Spared(u)
  BY <1>21, <1>d, <1>f, <1>g DEF SyncFetches, Starts, Syncs, Live, At
<1>22. ASSUME RecordRaises(t) PROVE Spared(u)
  BY <1>22, <1>m DEF RecordRaises, Spared
<1>23. ASSUME ParseSaveRaises(t) PROVE Spared(u)
  BY <1>23, <1>e DEF ParseSaveRaises, At, Quiet, Asides
<1>24. ASSUME ParseFails(t) PROVE Spared(u)
  BY <1>24, <1>d, <1>e, <1>k, <1>m DEF ParseFails, At, Quiet, Asides, Spared
<1>25. ASSUME IndexSaveRaises(t) PROVE Spared(u)
  BY <1>25, <1>m DEF IndexSaveRaises, Spared
<1>26. ASSUME IndexStoreRaises(t) PROVE Spared(u)
  BY <1>26, <1>e DEF IndexStoreRaises, At, Quiet, Asides
<1>27. ASSUME IndexFails(t) PROVE Spared(u)
  BY <1>27, <1>m DEF IndexFails, Spared
<1>28. ASSUME ErrorSaveRaises(t) PROVE Spared(u)
  BY <1>28, <1>m DEF ErrorSaveRaises, Spared
<1>29. ASSUME DeleteRaises(t) PROVE Spared(u)
  BY <1>29, <1>e DEF DeleteRaises, At, Quiet, Asides
<1>30. ASSUME SyncCancelled(t) PROVE Spared(u)
  BY <1>30, <1>m DEF SyncCancelled, Spared
<1> QED
  BY <1>1, <1>2, <1>3, <1>4, <1>5, <1>6, <1>7, <1>8, <1>9, <1>10, <1>11, <1>12, <1>13,
     <1>14, <1>15, <1>16, <1>17, <1>18, <1>19, <1>20, <1>21, <1>22, <1>23, <1>24, <1>25,
     <1>26, <1>27, <1>28, <1>29, <1>30 DEF Steps, Failures

(* The steps that write the row, and those that delete. *)
LEMMA WhoWrites ==
    ASSUME NEW t \in Tasks, Steps(t) \/ Failures(t)
    PROVE  /\ deleted' = deleted \/ (DeleteBegins(t) /\ Known(t)) \/ DeleteEnds(t)
           /\ fresh' = fresh \/ (Persist(t) /\ ~Quiet(t)) \/ SyncLoads(t) \/ DeleteEnds(t)
           /\ ~Quiet(t) \/ Begins(t) \/ SyncCancelled(t)
<1>1. CASE Failures(t)
  BY <1>1 DEF Failures, RecordRaises, ParseSaveRaises, ParseFails, IndexSaveRaises,
     IndexStoreRaises, IndexFails, ErrorSaveRaises, DeleteRaises, SyncCancelled, At, Quiet
<1>2. CASE Steps(t)
  BY <1>2 DEF Steps, AddRecord, ParamsUpdate, RecordSaved, ParseBegins, ParseSaved, ParseDone,
     ParseEnds, IndexBegins, IndexSaved, IndexReads, IndexStores, SetIndexed, IndexEnds,
     ClearsPg, ClearsMilvus, CountSaved, DeleteBegins, DeleteRemoves, DeleteEnds, SyncLoads,
     SyncFetches, At, Quiet
<1> QED
  BY <1>1, <1>2

(* A deletion is by itself: the others do not even start. *)
LEMMA DeletionIsSpared ==
    ASSUME TypeOK, StoresAgree, ~Disturbed',
           NEW t \in Tasks, Steps(t) \/ Failures(t), NEW u \in Tasks, u # t, Deletes(u)
    PROVE  UNCHANGED <<row, fresh, mem, stores, deleted>> /\ Quiet(t)'
<1>1. Quiet(t) /\ ~Quiet(u)
  BY DEF StoresAgree, OneProcess, Deletes
<1>2. ~Begins(t)
  BY <1>1, StartsApart DEF Deletes
<1>3. SyncCancelled(t)
  BY <1>1, <1>2, WhoWrites
<1>4. Quiet(t)'
  BY <1>3, GivingUp DEF SyncCancelled, TypeOK, Quiet
<1> QED
  BY <1>3, <1>4 DEF SyncCancelled

(* The end of a deletion finds the others quiet, and no sync under way. *)
LEMMA DeletionEnds ==
    ASSUME TypeOK, Busy, StoresAgree, NEW t \in Tasks, DeleteEnds(t), NEW u \in Tasks, u # t
    PROVE  Quiet(u) /\ ~Starts(u, "fetch") /\ ~Starts(u, "add") /\ deleted = "begun"
<1>1. Deletes(t) /\ Begun(t)
  <2>1. Staged(t) /\ task[t].at = "removeRow"
    BY DEF StoresAgree, Sound, DeleteEnds, At
  <2> QED
    BY <2>1 DEF Staged, Deletes, Quiet, Begun
<1>2. Quiet(u) /\ deleted = "begun"
  BY <1>1 DEF StoresAgree, OneProcess, Sound, Emptying
<1>3. ~Starts(u, "fetch")
  <2> SUFFICES ASSUME Starts(u, "fetch") PROVE FALSE
    OBVIOUS
  <2>1. ProcessOf[u] = ProcessOf[t]
    BY <1>1 DEF StoresAgree, OneProcess, Begun
  <2>2. Sync \in Jobs[u]
    BY DEF Busy, Syncs, Starts, Live, At
  <2> QED
    BY <2>1, <2>2, JobsAssumption
<1>4. ~Starts(u, "add")
  BY <1>2 DEF StoresAgree, Sound, Outlives
<1> QED
  BY <1>2, <1>3, <1>4

(* What the invariant says of a call stays true when another takes a step. *)
LEMMA OthersStaySound ==
    ASSUME TypeOK, Busy, StoresAgree, ~Disturbed, ~Disturbed',
           NEW t \in Tasks, Steps(t) \/ Failures(t), NEW u \in Tasks, u # t
    PROVE  Sound(u)'
<1>a. task'[u] = task[u] /\ Stage(u)' = Stage(u)
  BY CallContinues, Elsewhere DEF Continues
<1>b. /\ (Quiet(u)' <=> Quiet(u)) /\ (Working(u)' <=> Working(u))
      /\ (Deletes(u)' <=> Deletes(u)) /\ (Saved(u)' <=> Saved(u))
      /\ \A place : At(u, place)' <=> At(u, place)
      /\ \A stage : Starts(u, stage)' <=> Starts(u, stage)
  BY <1>a DEF Quiet, Working, Deletes, Saved, At, Starts
<1>s. Sound(u)
  BY DEF StoresAgree
<1>1. Staged(u)'
  BY <1>a, <1>b, <1>s DEF Sound, Staged
<1>2. ASSUME deleted' # "no" PROVE ~Starts(u, "add")'
  <2>1. CASE deleted # "no"
    BY <1>b, <1>s, <2>1 DEF Sound, Outlives
  <2>2. CASE DeleteEnds(t)
    BY <1>b, <2>2, DeletionEnds
  <2>3. CASE Known(t)
    BY <1>b, <2>3, WaitsMeans DEF Waits
  <2> QED
    BY <1>2, <2>1, <2>2, <2>3, WhoWrites
<1>3. ASSUME deleted' = "done"
      PROVE  /\ ~Starts(u, "fetch")'
             /\ ~Quiet(u)' => deleted = "done" /\ fresh' = fresh
  <2>1. CASE DeleteEnds(t)
    BY <1>b, <2>1, DeletionEnds
  <2>2. CASE ~DeleteEnds(t)
    <3>1. deleted = "done" \/ DeleteBegins(t)
      BY <1>3, <2>2, WhoWrites
    <3>2. deleted = "done"
      BY <1>3, <3>1 DEF DeleteBegins
    <3>3. ~Starts(u, "fetch")'
      BY <1>b, <1>s, <3>2 DEF Sound, Outlives
    <3>4. ~(Persist(t) /\ ~Quiet(t))
      BY <3>2, ArrivesInOrder DEF StoresAgree, Sound, Outlives
    <3>5. ASSUME SyncLoads(t), ~Quiet(u) PROVE FALSE
      <4>1. ProcessOf[u] = ProcessOf[t]
        BY <3>5, StartsApart DEF SyncLoads, Begun
      <4>2. Sync \in Jobs[t]
        BY <3>5 DEF Busy, Syncs, SyncLoads, Starts, Live, At
      <4> QED
        BY <4>1, <4>2, JobsAssumption
    <3> QED
      BY <1>b, <2>2, <3>2, <3>3, <3>4, <3>5, WhoWrites
  <2> QED
    BY <2>1, <2>2
<1>4. Outlives(u)'
  BY <1>a, <1>b, <1>s, <1>2, <1>3 DEF Sound, Outlives
<1>5. CASE Working(u)
  <2>1. Spared(u) /\ ~Deletes(u)
    BY <1>5, WorkIsSpared, <1>s DEF Working, Deletes, Sound, Staged
  <2>2. RowAtWork(u)'
    BY <1>b, <1>s, <1>5, <2>1, ProcessAssumption DEF Sound, RowAtWork, Spared, Meta
  <2>3. Versions(u)' /\ Clearing(u)'
    BY <1>a, <1>b, <1>s, <1>5, <2>1 DEF Sound, Versions, Clearing, Spared, Searchable
  <2> QED
    BY <1>b, <1>1, <1>4, <2>1, <2>2, <2>3 DEF Sound, Emptying
<1>6. CASE Deletes(u)
  <2>1. UNCHANGED <<row, fresh, mem, stores, deleted>> /\ Meta(u)' = Meta(u)
    BY <1>6, DeletionIsSpared DEF Meta
  <2>2. ~Working(u)
    BY <1>6, <1>s DEF Working, Deletes, Sound, Staged
  <2>3. task[u].at \in {"clearPg", "clearMv", "countSave", "remove", "removeRow"}
    BY <1>6, <1>s DEF Sound, Staged
  <2>4. RowAtWork(u)' /\ Versions(u)'
    BY <1>a, <1>b, <2>2, <2>3 DEF RowAtWork, Saved, Versions
  <2>5. Emptying(u)'
    BY <1>b, <1>6, <1>a, <1>s, <2>1 DEF Sound, Emptying
  <2>6. Clearing(u)'
    BY <1>6, <1>s, <2>1 DEF Sound, Emptying, Clearing
  <2> QED
    BY <1>1, <1>4, <2>4, <2>5, <2>6 DEF Sound
<1>7. CASE ~Working(u) /\ ~Deletes(u)
  <2>1. task[u].at \in Asides \/ Quiet(u)
    BY <1>7, <1>s, PlacesAside DEF Sound
  <2>2. RowAtWork(u)' /\ Emptying(u)'
    BY <1>b, <1>7 DEF RowAtWork, Saved, Emptying
  <2>3. Versions(u)' /\ Clearing(u)'
    BY <1>a, <1>b, <1>7, <2>1 DEF Versions, Clearing, Asides, Quiet, At
  <2> QED
    BY <1>1, <1>4, <2>2, <2>3 DEF Sound
<1> QED
  BY <1>5, <1>6, <1>7

(* The calls under way stay together, and a deletion by itself. *)
LEMMA StillTogether ==
    ASSUME TypeOK, StoresAgree, ~Disturbed', NEW t \in Tasks, Steps(t) \/ Failures(t)
    PROVE  OneProcess'
<1>a. Continues(t)
  BY CallContinues
<1>b. \A u \in Tasks \ {t} : /\ (Begun(u)' <=> Begun(u)) /\ (Deletes(u)' <=> Deletes(u))
                              /\ (Quiet(u)' <=> Quiet(u))
  BY <1>a, Elsewhere DEF Continues, Begun, Deletes, Quiet, Starts, At
<1>1. ASSUME NEW u \in Tasks, u # t, Begun(t)', Begun(u)
      PROVE  ProcessOf[t] = ProcessOf[u]
  <2>1. CASE Begins(t)
    BY <1>1, <2>1, StartsApart
  <2>2. CASE ~Quiet(t)
    BY <1>1, <2>2 DEF StoresAgree, OneProcess, Begun
  <2> QED
    BY <1>1, <1>a, <2>1, <2>2 DEF Continues
<1>2. ASSUME NEW u \in Tasks, u # t, Deletes(t)'
      PROVE  Quiet(u)
  <2>1. Stage(t) = "delete" /\ (~Quiet(t) \/ Begins(t))
    BY <1>2, <1>a DEF Continues, Deletes
  <2>2. CASE Begins(t)
    BY <1>2, <2>1, <2>2, StartsApart
  <2>3. CASE ~Quiet(t)
    BY <1>2, <2>1, <2>3 DEF StoresAgree, OneProcess, Deletes
  <2> QED
    BY <2>1, <2>2, <2>3
<1>3. ASSUME NEW u \in Tasks, u # t, Deletes(u)
      PROVE  Quiet(t)'
  BY <1>3, DeletionIsSpared
<1>4. ASSUME NEW u \in Tasks, NEW v \in Tasks, u # v
      PROVE  /\ Begun(u)' /\ Begun(v)' => ProcessOf[u] = ProcessOf[v]
             /\ Deletes(u)' => Quiet(v)'
  <2>1. CASE u = t
    BY <1>b, <1>1, <1>2, <1>4, <2>1
  <2>2. CASE v = t
    BY <1>b, <1>1, <1>3, <1>4, <2>2
  <2>3. CASE u # t /\ v # t
    BY <1>b, <1>4, <2>3 DEF StoresAgree, OneProcess
  <2> QED
    BY <2>1, <2>2, <2>3
<1> QED
  BY <1>4 DEF OneProcess

-----------------------------------------------------------------------------
(* What a step does to its own call and to the file                        *)

(* What is left to say of a call that is quiet, or beside the work. *)
LEMMA QuietIsSound ==
    ASSUME NEW t \in Tasks, Quiet(t)', ~Starts(t, "add")',
           Starts(t, "fetch")' => deleted' # "done"
    PROVE  Sound(t)'
  BY DEF Quiet, Sound, Staged, RowAtWork, Versions, Clearing, Emptying, Outlives, Deletes, Saved,
     Working, At

(* Beside the work there is a record to write. *)
LEMMA AsideIsSound ==
    ASSUME NEW t \in Tasks, task'[t].at \in Asides, Stage(t)' # "delete",
           deleted' = "done" => /\ ProcessOf[t] \notin fresh'
                                /\ task'[t].at \in {"unparsedSave", "paramsSave"}
    PROVE  Sound(t)'
  BY DEF Asides, Sound, Staged, RowAtWork, Versions, Clearing, Emptying, Outlives, Deletes, Saved,
     Working, At, Quiet, Starts

(* A step that changes neither the records nor the stores. *)
LEMMA NothingNew ==
    ASSUME StoresAgree, UNCHANGED <<row, fresh, mem, stores, deleted>>
    PROVE  TellsTheTruth' /\ Gone'
  BY DEF StoresAgree, TellsTheTruth, Truthful, Searchable, Gone

(* A step that changes the copy of a process. *)
LEMMA CopyChanges ==
    ASSUME StoresAgree, UNCHANGED <<row, fresh, stores, deleted>>,
           NEW t \in Tasks, OtherCopies(t),
           deleted = "no" /\ ProcessOf[t] \in fresh => Truthful(Meta(t)'),
           deleted = "done" => ProcessOf[t] \notin fresh
    PROVE  TellsTheTruth' /\ Gone'
<1>1. \A f : Truthful(f)' <=> Truthful(f)
  BY DEF Truthful, Searchable
<1> QED
  BY <1>1 DEF StoresAgree, OtherCopies, TellsTheTruth, Gone, Meta

(* A step that writes the row. *)
LEMMA RowWritten ==
    ASSUME StoresAgree, UNCHANGED <<mem, stores, deleted>>, ~Disturbed',
           NEW t \in Tasks, ~Quiet(t), Persist(t)
    PROVE  /\ TellsTheTruth' /\ Gone' /\ deleted # "done"
           /\ row' = Meta(t) /\ Meta(t)' = Meta(t) /\ fresh' = {ProcessOf[t]}
<1>1. row' = Meta(t) /\ fresh' = {ProcessOf[t]} /\ ProcessOf[t] \in fresh
  BY ArrivesInOrder
<1>2. deleted # "done" /\ Meta(t)' = Meta(t)
  BY <1>1 DEF StoresAgree, Sound, Outlives, Meta
<1>3. \A f : Truthful(f)' <=> Truthful(f)
  BY DEF Truthful, Searchable
<1> QED
  BY <1>1, <1>2, <1>3, ProcessAssumption DEF StoresAgree, TellsTheTruth, Gone, Meta

(* The version is kept on the way. *)
LEMMA VersionKept ==
    ASSUME TypeOK, NEW t \in Tasks, NEW new, NEW place, Goes(t, place) \/ Sets(t, new, place)
    PROVE  task'[t].ver = task[t].ver
<1>1. CASE Goes(t, place)
  BY <1>1 DEF Goes, TypeOK, Calls
<1>2. CASE Sets(t, new, place)
  BY <1>2 DEF Sets, TypeOK, Calls
<1> QED
  BY <1>1, <1>2

(* A status does not change the rest of a record. *)
LEMMA RestOfRecord ==
    ASSUME NEW f \in Files, NEW s
    PROVE  /\ [f EXCEPT !.status = s].status = s
           /\ [f EXCEPT !.status = s].hash = f.hash /\ [f EXCEPT !.status = s].md = f.md
  BY DEF Files

(* A status other than "indexed" says nothing new. *)
LEMMA SaysNoMore ==
    ASSUME NEW f, NEW g, Truthful(f), g.hash = f.hash, g.md = f.md, g.status # "indexed"
    PROVE  Truthful(g)
  BY DEF Truthful

Own(t) == Sound(t)' /\ TellsTheTruth' /\ Gone'

(* A call that ends without a word. *)
LEMMA EndsQuietly ==
    ASSUME TypeOK, Busy, StoresAgree, NEW t \in Tasks, Steps(t) \/ Failures(t),
           GiveUp(t), UNCHANGED <<row, fresh, mem, stores, deleted>>
    PROVE  Own(t)
<1>1. Quiet(t)' /\ ~Starts(t, "add")' /\ ~Starts(t, "fetch")'
  BY GivingUp DEF TypeOK, Quiet, Starts, At
<1> QED
  BY <1>1, QuietIsSound, NothingNew DEF Own

(* Action by action. *)
LEMMA OwnStep ==
    ASSUME TypeOK, Held, Busy, StoresAgree, ~Disturbed', ~Disturbed,
           NEW t \in Tasks, Steps(t) \/ Failures(t)
    PROVE  Own(t)
<1> DEFINE p == ProcessOf[t]
           f == Meta(t)
<1>s. /\ Staged(t) /\ RowAtWork(t) /\ Versions(t) /\ Clearing(t) /\ Emptying(t) /\ Outlives(t)
      /\ Indexes(t)
  BY DEF StoresAgree, Sound, Held
<1>t. /\ f \in Files /\ p \in Processes /\ task[t] \in Calls /\ task \in [Tasks -> Calls]
      /\ mem \in [Processes -> Files]
      /\ ~At(t, "new") /\ ~At(t, "over") => task[t].todo # <<>>
  BY ProcessAssumption DEF TypeOK, Meta
<1>a. ~Starts(t, "add")' /\ Continues(t)
  BY StepsAreOrderly, CallContinues DEF Orderly, First, Held
<1>c. deleted = "no" /\ p \in fresh => Truthful(f)
  BY <1>t DEF StoresAgree, TellsTheTruth, Meta
<1>g. deleted = "done" /\ p \in fresh => f = NoFile
  BY <1>t DEF StoresAgree, Gone, Meta
<1>k. Working(t) => Known(t)
  BY <1>s DEF RowAtWork, Known, Fixed, NoFile
<1>q. ASSUME Finish(t), task[t].todo # <<>>, deleted' = "done" => Stage(t) # "load"
      PROVE  Sound(t)'
  BY <1>q, <1>t, <1>a, Finishing, QuietIsSound DEF Quiet, Starts, At
<1>o. ASSUME GiveUp(t) PROVE Sound(t)' /\ Quiet(t)'
  <2>1. Quiet(t)' /\ ~Starts(t, "fetch")'
    BY <1>o, <1>t, GivingUp DEF Quiet, Starts, At
  <2> QED
    BY <2>1, <1>a, QuietIsSound
<1> USE DEF Own
<1>1. ASSUME AddRecord(t) PROVE Own(t)
  <2>1. Placed(t, "addSave") /\ OtherCopies(t) /\ f' = File("uploaded", 1, FALSE)
    BY <1>1, SettingTo DEF AddRecord, OtherCopies
  <2>2. deleted = "no" /\ Truthful(f')
    BY <1>1, <1>s, <2>1 DEF AddRecord, Outlives, Truthful, File
  <2>3. Sound(t)'
    BY <1>1, <2>1, <2>2, AsideIsSound DEF AddRecord, Placed, At, Starts, Asides
  <2> QED
    BY <1>1, <2>1, <2>2, <2>3, CopyChanges DEF AddRecord
<1>2. ASSUME ParamsUpdate(t) PROVE Own(t)
  <2>1. CASE Known(t)
    <3>1. Placed(t, "paramsSave") /\ OtherCopies(t) /\ f' = f
      BY <1>2, <2>1, SettingTo DEF ParamsUpdate, OtherCopies
    <3>2. deleted = "done" => p \notin fresh
      BY <2>1, <1>g DEF Known
    <3>3. Sound(t)'
      BY <1>2, <3>1, <3>2, AsideIsSound DEF ParamsUpdate, Placed, At, Starts, Asides
    <3> QED
      BY <1>2, <1>c, <3>1, <3>2, <3>3, CopyChanges DEF ParamsUpdate
  <2>2. CASE ~Known(t)
    BY <1>2, <2>2, EndsQuietly DEF ParamsUpdate
  <2> QED
    BY <2>1, <2>2
<1>3. ASSUME RecordSaved(t) PROVE Own(t)
  <2>1. ~Quiet(t) /\ task[t].todo # <<>>
    BY <1>3, <1>t DEF RecordSaved, Quiet, At
  <2>2. TellsTheTruth' /\ Gone' /\ deleted' # "done"
    BY <1>3, <2>1, RowWritten DEF RecordSaved
  <2> QED
    BY <1>3, <1>q, <2>1, <2>2 DEF RecordSaved
<1>4. ASSUME ParseBegins(t) PROVE Own(t)
  <2>1. CASE Known(t) /\ MayParse(f.status)
    <3>1. /\ Placed(t, "parseSave") /\ OtherCopies(t)
          /\ f' = [f EXCEPT !.status = "parsing"]
      BY <1>4, <2>1, StartingToParse DEF Moved, Placed, At, OtherCopies
    <3>2. f'.status = "parsing" /\ f'.hash = f.hash /\ f'.md = f.md
      BY <1>t, <3>1, RestOfRecord
    <3>3. task'[t].ver = f.hash
      BY <1>4, <2>1, <1>t DEF ParseBegins, Calls
    <3>4. deleted = "done" => p \notin fresh
      BY <2>1, <1>g DEF Known
    <3>5. Sound(t)'
      BY <1>4, <3>1, <3>2, <3>3, <3>4 DEF ParseBegins, Placed, At, Starts, Quiet, Sound, Staged,
         RowAtWork, Versions, Clearing, Emptying, Outlives, Deletes, Saved, Working, Fixed
    <3>6. deleted = "no" /\ p \in fresh => Truthful(f')
      BY <1>c, <3>2, SaysNoMore
    <3> QED
      BY <1>4, <3>1, <3>4, <3>5, <3>6, CopyChanges DEF ParseBegins
  <2>2. CASE ~(Known(t) /\ MayParse(f.status))
    BY <1>4, <2>2, EndsQuietly DEF ParseBegins
  <2> QED
    BY <2>1, <2>2
<1>5. ASSUME ParseSaved(t) PROVE Own(t)
  <2>1. Placed(t, "parse") /\ task'[t].ver = task[t].ver
    BY <1>5, GoingTo, VersionKept DEF ParseSaved
  <2>2. ~Quiet(t) /\ Working(t)
    BY <1>5 DEF ParseSaved, Quiet, Working, At
  <2>3. /\ TellsTheTruth' /\ Gone' /\ deleted' # "done"
        /\ row' = f /\ f' = f /\ fresh' = {p} /\ mem' = mem
    BY <1>5, <2>2, RowWritten DEF ParseSaved
  <2>4. RowAtWork(t)'
    BY <1>s, <1>t, <2>2, <2>3 DEF RowAtWork, Fixed, Meta
  <2>5. Stage(t) # "delete"
    BY <1>5, <1>s DEF ParseSaved, Staged, Deletes, At, Quiet
  <2> QED
    BY <1>5, <1>s, <2>1, <2>3, <2>4, <2>5 DEF ParseSaved, Placed, At, Starts, Quiet, Sound, Staged,
       Versions, Clearing, Emptying, Outlives, Deletes
<1>6. ASSUME ParseDone(t) PROVE Own(t)
  <2>1. Working(t) /\ Saved(t) /\ ~Quiet(t) /\ Known(t)
    BY <1>6, <1>k DEF ParseDone, At, Working, Saved, Quiet
  <2>2. Placed(t, "parsedSave") /\ OtherCopies(t) /\ f' = File("parsed", f.hash, TRUE)
    BY <1>6, <2>1, SettingTo DEF ParseDone, OtherCopies
  <2>3. obj' = f.hash /\ deleted # "done" /\ Stage(t) # "delete"
    BY <1>6, <1>s DEF ParseDone, At, Versions, Outlives, Quiet, Staged, Deletes
  <2>4. Sound(t)'
    BY <1>6, <2>2, <2>3, AsideIsSound DEF ParseDone, Placed, At, Asides
  <2>5. f'.hash = f.hash /\ f'.status = "parsed"
    BY <2>2 DEF File
  <2>6. \A q \in Processes : q \in fresh => mem'[q].hash = obj' /\ mem'[q].status # "indexed"
    BY <1>s, <2>1, <2>2, <2>3, <2>5, <1>t DEF RowAtWork, OtherCopies, Meta
  <2>7. row.hash = obj' /\ row.status # "indexed"
    BY <1>s, <2>1, <2>3 DEF RowAtWork, Fixed
  <2>8. TellsTheTruth'
    BY <1>6, <2>6, <2>7 DEF ParseDone, TellsTheTruth, Truthful
  <2>9. Gone'
    BY <1>6, <2>3 DEF ParseDone, Gone
  <2> QED
    BY <2>4, <2>8, <2>9
<1>7. ASSUME ParseEnds(t) PROVE Own(t)
  <2>1. ~Quiet(t) /\ task[t].todo # <<>>
    BY <1>7, <1>t DEF ParseEnds, Quiet, At
  <2>2. TellsTheTruth' /\ Gone' /\ deleted' # "done"
    BY <1>7, <2>1, RowWritten DEF ParseEnds
  <2> QED
    BY <1>7, <1>q, <1>o, <2>1, <2>2 DEF ParseEnds
<1>8. ASSUME IndexBegins(t) PROVE Own(t)
  <2>1. CASE Known(t) /\ MayIndex(f.status) /\ f.md
    <3>1. /\ Placed(t, "indexSave") /\ OtherCopies(t)
          /\ f' = [f EXCEPT !.status = "indexing"]
      BY <1>8, <2>1, SettingTo DEF IndexBegins, OtherCopies
    <3>2. f'.status = "indexing" /\ f'.hash = f.hash /\ f'.md = f.md
      BY <1>t, <3>1, RestOfRecord
    <3>3. deleted = "done" => p \notin fresh
      BY <2>1, <1>g DEF Known
    <3>4. Sound(t)'
      BY <1>8, <2>1, <3>1, <3>2, <3>3 DEF IndexBegins, Placed, At, Starts, Quiet, Sound, Staged,
         RowAtWork, Versions, Clearing, Emptying, Outlives, Deletes, Saved, Working, Fixed
    <3>5. deleted = "no" /\ p \in fresh => Truthful(f')
      BY <1>c, <3>2, SaysNoMore
    <3> QED
      BY <1>8, <3>1, <3>3, <3>4, <3>5, CopyChanges DEF IndexBegins
  <2>2. CASE Known(t) /\ MayIndex(f.status) /\ ~f.md
    <3>1. /\ Placed(t, "unparsedSave") /\ OtherCopies(t)
          /\ f' = File("uploaded", f.hash, FALSE)
      BY <1>8, <2>2, SettingTo DEF IndexBegins, OtherCopies
    <3>2. Truthful(f')
      BY <3>1 DEF Truthful, File
    <3>3. deleted = "done" => p \notin fresh
      BY <2>2, <1>g DEF Known
    <3>4. Sound(t)'
      BY <1>8, <3>1, <3>3, AsideIsSound DEF IndexBegins, Placed, At, Starts, Asides
    <3> QED
      BY <1>8, <3>1, <3>2, <3>3, <3>4, CopyChanges DEF IndexBegins
  <2>3. CASE ~(Known(t) /\ MayIndex(f.status))
    BY <1>8, <2>3, EndsQuietly DEF IndexBegins
  <2> QED
    BY <2>1, <2>2, <2>3
<1>9. ASSUME IndexSaved(t) PROVE Own(t)
  <2>1. ~Quiet(t)
    BY <1>9 DEF IndexSaved, Quiet
  <2>2. /\ TellsTheTruth' /\ Gone' /\ deleted' # "done"
        /\ row' = f /\ f' = f /\ fresh' = {p} /\ mem' = mem
    BY <1>9, <2>1, RowWritten DEF IndexSaved
  <2>3. CASE At(t, "indexSave")
    <3>1. Placed(t, "read") /\ Working(t)
      BY <1>9, <2>3, GoingTo DEF IndexSaved, Working, At
    <3>2. RowAtWork(t)'
      BY <1>s, <1>t, <2>2, <3>1 DEF RowAtWork, Fixed, Meta
    <3>3. Stage(t) # "delete" /\ f.md
      BY <2>3, <1>s DEF Staged, Deletes, At, Quiet, Versions
    <3>4. Sound(t)'
      BY <2>2, <3>1, <3>2, <3>3 DEF Placed, At, Starts, Quiet, Sound, Staged,
         Versions, Clearing, Emptying, Outlives, Deletes
    <3> QED
      BY <2>2, <3>4
  <2>4. CASE ~At(t, "indexSave")
    BY <1>9, <1>o, <2>2, <2>4 DEF IndexSaved
  <2> QED
    BY <2>3, <2>4
<1>10. ASSUME IndexReads(t) PROVE Own(t)
  <2>1. /\ Placed(t, IF obj = 0 THEN "indexError" ELSE "clearPg")
        /\ task'[t].ver = obj
    BY <1>10, <1>t, Reading DEF IndexReads, Moved, Placed, At, Calls
  <2>2. TellsTheTruth' /\ Gone' /\ f' = f
    BY <1>10, NothingNew DEF IndexReads, Meta
  <2>3. Saved(t) /\ Working(t) /\ Stage(t) = "index" /\ deleted # "done" /\ f.md
    BY <1>10, <1>s DEF IndexReads, Saved, Working, At, Indexes, Outlives, Quiet, Versions
  <2>4. deleted = "no" => obj = f.hash
    BY <1>c, <1>s, <2>3 DEF RowAtWork, Truthful
  <2>5. RowAtWork(t)'
    BY <1>10, <1>s, <2>2, <2>3 DEF IndexReads, RowAtWork
  <2>6. Sound(t)'
    BY <1>10, <2>1, <2>2, <2>3, <2>4, <2>5 DEF IndexReads, Placed, At, Starts, Quiet, Sound,
       Staged, Versions, Clearing, Emptying, Outlives, Deletes
  <2> QED
    BY <2>2, <2>6
<1>w. ASSUME UNCHANGED <<row, fresh, mem, deleted, obj>>, Saved(t), Working(t), deleted # "done"
      PROVE  TellsTheTruth' /\ Gone' /\ f' = f /\ RowAtWork(t)'
  <2>1. row.status # "indexed" /\ \A q \in Processes : q \in fresh => mem[q].status # "indexed"
    BY <1>w, <1>s DEF RowAtWork, Fixed
  <2>2. TellsTheTruth'
    BY <1>w, <2>1 DEF StoresAgree, TellsTheTruth, Truthful
  <2>3. RowAtWork(t)'
    BY <1>w, <1>s DEF RowAtWork, Meta
  <2> QED
    BY <1>w, <2>2, <2>3 DEF Gone, Meta
<1>11. ASSUME IndexStores(t) PROVE Own(t)
  <2>1. Placed(t, "stored")
    BY <1>11, GoingTo DEF IndexStores
  <2>2. Saved(t) /\ Working(t) /\ deleted # "done" /\ Stage(t) # "delete"
    BY <1>11, <1>s DEF IndexStores, Saved, Working, At, Outlives, Quiet, Staged, Deletes
  <2>3. TellsTheTruth' /\ Gone' /\ f' = f /\ RowAtWork(t)'
    BY <1>11, <1>w, <2>2 DEF IndexStores
  <2>4. deleted = "no" => pg' = {f.hash} /\ mv' = {f.hash} /\ obj = f.hash
    BY <1>11, <1>s, <2>2 DEF IndexStores, Clearing, At
  <2>5. Sound(t)'
    BY <1>11, <2>1, <2>2, <2>3, <2>4 DEF IndexStores, Placed, At, Starts, Quiet, Sound,
       Staged, Versions, Clearing, Searchable, Emptying, Outlives, Deletes
  <2> QED
    BY <2>3, <2>5
<1>12. ASSUME SetIndexed(t) PROVE Own(t)
  <2>1. CASE Known(t) /\ At(t, "stored")
    <3>1. /\ Placed(t, "indexedSave") /\ OtherCopies(t)
          /\ f' = [f EXCEPT !.status = "indexed"]
      BY <1>12, <2>1, SettingTo DEF SetIndexed, OtherCopies
    <3>2. f'.hash = f.hash /\ f'.md = f.md
      BY <1>t, <3>1, RestOfRecord
    <3>3. deleted # "done" /\ Stage(t) # "delete"
      BY <2>1, <1>s DEF At, Outlives, Quiet, Staged, Deletes
    <3>4. Sound(t)'
      BY <1>12, <3>1, <3>3, AsideIsSound DEF SetIndexed, Placed, At, Asides
    <3>5. deleted = "no" => Truthful(f')
      BY <1>s, <2>1, <3>2 DEF Clearing, Truthful, Searchable
    <3> QED
      BY <1>12, <3>1, <3>3, <3>4, <3>5, CopyChanges DEF SetIndexed
  <2>2. CASE Known(t) /\ ~At(t, "stored")
    <3>1. /\ Placed(t, "indexErrorSave") /\ OtherCopies(t)
          /\ f' = [f EXCEPT !.status = "error_indexing"]
      BY <1>12, <2>2, SettingTo DEF SetIndexed, OtherCopies
    <3>2. f'.hash = f.hash /\ f'.md = f.md /\ f'.status # "indexed"
      BY <1>t, <3>1, RestOfRecord
    <3>3. deleted # "done" /\ Stage(t) # "delete"
      BY <1>12, <1>s DEF SetIndexed, At, Outlives, Quiet, Staged, Deletes
    <3>4. Sound(t)'
      BY <1>12, <3>1, <3>3, AsideIsSound DEF SetIndexed, Placed, At, Asides
    <3>5. deleted = "no" /\ p \in fresh => Truthful(f')
      BY <1>c, <3>2, SaysNoMore
    <3> QED
      BY <1>12, <3>1, <3>3, <3>4, <3>5, CopyChanges DEF SetIndexed
  <2>3. CASE ~Known(t)
    BY <1>12, <2>3, EndsQuietly DEF SetIndexed
  <2> QED
    BY <2>1, <2>2, <2>3
<1>13. ASSUME IndexEnds(t) PROVE Own(t)
  <2>1. ~Quiet(t) /\ task[t].todo # <<>>
    BY <1>13, <1>t DEF IndexEnds, Quiet, At
  <2>2. TellsTheTruth' /\ Gone' /\ deleted' # "done"
    BY <1>13, <2>1, RowWritten DEF IndexEnds
  <2> QED
    BY <1>13, <1>q, <1>o, <2>1, <2>2 DEF IndexEnds
<1>14. ASSUME ClearsPg(t) PROVE Own(t)
  <2>1. Placed(t, "clearMv") /\ task'[t].ver = task[t].ver
    BY <1>14, GoingTo, VersionKept DEF ClearsPg
  <2>2. deleted # "done" /\ Stage(t) \in {"index", "delete"}
    BY <1>14, <1>s DEF ClearsPg, At, Outlives, Quiet, Staged
  <2>3. CASE Stage(t) = "index"
    <3>1. Saved(t) /\ Working(t)
      BY <1>14, <2>3 DEF ClearsPg, At, Saved, Working
    <3>2. TellsTheTruth' /\ Gone' /\ f' = f /\ RowAtWork(t)'
      BY <1>14, <1>w, <2>2, <3>1 DEF ClearsPg
    <3>3. Sound(t)'
      BY <1>14, <1>s, <2>1, <2>2, <2>3, <3>1, <3>2 DEF ClearsPg, Placed, At, Starts, Quiet, Sound,
         Staged, Versions, Clearing, Searchable, Emptying, Outlives, Deletes
    <3> QED
      BY <3>2, <3>3
  <2>4. CASE Stage(t) = "delete"
    <3>1. deleted = "begun" /\ obj = 0
      BY <1>14, <1>s, <2>4 DEF ClearsPg, At, Emptying, Deletes, Quiet
    <3>2. Sound(t)'
      BY <1>14, <2>1, <2>4, <3>1 DEF ClearsPg, Placed, At, Starts, Quiet, Sound, Staged,
         RowAtWork, Saved, Working, Versions, Clearing, Emptying, Outlives, Deletes
    <3> QED
      BY <1>14, <3>1, <3>2 DEF ClearsPg, TellsTheTruth, Gone
  <2> QED
    BY <2>2, <2>3, <2>4
<1>15. ASSUME ClearsMilvus(t) PROVE Own(t)
  <2>1. mv' = {} /\ deleted # "done" /\ Stage(t) \in {"index", "delete"}
    BY <1>15, <1>s DEF ClearsMilvus, EmptyMilvus, Disturbed, At, Outlives, Quiet, Staged
  <2>2. /\ Placed(t, IF Known(t) THEN "countSave" ELSE AfterClear(t))
        /\ f' = f /\ OtherCopies(t) /\ task'[t].ver = task[t].ver
    <3>1. CASE Known(t)
      BY <1>15, <3>1, SettingTo, VersionKept DEF ClearsMilvus, OtherCopies
    <3>2. CASE ~Known(t)
      <4>1. Goes(t, AfterClear(t)) /\ mem' = mem
        BY <1>15, <3>2 DEF ClearsMilvus
      <4> QED
        BY <3>2, <4>1, GoingTo, VersionKept DEF OtherCopies, Meta
    <3> QED
      BY <3>1, <3>2
  <2>3. CASE Stage(t) = "index"
    <3>1. Saved(t) /\ Working(t) /\ Known(t)
      BY <1>15, <1>k, <2>3 DEF ClearsMilvus, At, Saved, Working
    <3>2. UNCHANGED <<row, fresh, mem, deleted, obj>>
      BY <1>15, <1>t, <3>1 DEF ClearsMilvus, Sets, Meta
    <3>3. TellsTheTruth' /\ Gone' /\ RowAtWork(t)'
      BY <1>w, <2>1, <3>1, <3>2
    <3>4. Placed(t, "countSave") /\ UNCHANGED pg /\ At(t, "clearMv")
      BY <1>15, <2>2, <3>1 DEF ClearsMilvus
    <3>5. Clearing(t)'
      BY <1>s, <2>1, <2>2, <2>3, <3>1, <3>2, <3>4 DEF Placed, At, Clearing, Working
    <3>6. Sound(t)'
      BY <2>1, <2>3, <3>3, <3>4, <3>5, <3>2 DEF Placed, At, Starts, Quiet, Sound, Staged, Versions,
         Emptying, Outlives, Deletes
    <3> QED
      BY <3>3, <3>6
  <2>4. CASE Stage(t) = "delete"
    <3>1. deleted = "begun" /\ obj = 0 /\ pg = {}
      BY <1>15, <1>s, <2>4 DEF ClearsMilvus, At, Emptying, Deletes, Quiet
    <3>2. At(t, "countSave")' \/ At(t, "remove")'
      BY <2>2, <2>4 DEF Placed, AfterClear
    <3>3. Sound(t)'
      BY <1>15, <2>1, <2>2, <2>4, <3>1, <3>2 DEF ClearsMilvus, Placed, At, Starts, Quiet, Sound,
         Staged, RowAtWork, Saved, Working, Versions, Clearing, Emptying, Outlives, Deletes
    <3> QED
      BY <1>15, <3>1, <3>3 DEF ClearsMilvus, TellsTheTruth, Gone
  <2> QED
    BY <2>1, <2>3, <2>4
<1>16. ASSUME CountSaved(t) PROVE Own(t)
  <2>1. Placed(t, AfterClear(t)) /\ task'[t].ver = task[t].ver
    BY <1>16, GoingTo, VersionKept DEF CountSaved
  <2>2. /\ TellsTheTruth' /\ Gone' /\ deleted' # "done"
        /\ row' = f /\ f' = f /\ fresh' = {p} /\ mem' = mem
    BY <1>16, RowWritten DEF CountSaved, Quiet, At
  <2>3. Stage(t) \in {"index", "delete"}
    BY <1>16, <1>s DEF CountSaved, Staged, At
  <2>4. CASE Stage(t) = "index"
    <3>1. Working(t) /\ At(t, "store")'
      BY <1>16, <2>1, <2>4 DEF CountSaved, At, Working, Placed, AfterClear
    <3>2. RowAtWork(t)'
      BY <1>s, <1>t, <2>2, <3>1 DEF RowAtWork, Fixed, Meta
    <3>3. Sound(t)'
      BY <1>16, <1>s, <2>1, <2>2, <2>4, <3>1, <3>2 DEF CountSaved, Placed, At, Starts, Quiet,
         Sound, Staged, Versions, Clearing, Searchable, Emptying, Outlives, Deletes
    <3> QED
      BY <2>2, <3>3
  <2>5. CASE Stage(t) = "delete"
    <3>1. At(t, "remove")'
      BY <2>1, <2>5 DEF Placed, AfterClear
    <3>2. deleted = "begun" /\ obj = 0 /\ pg = {} /\ mv = {}
      BY <1>16, <1>s, <2>5 DEF CountSaved, At, Emptying, Deletes, Quiet
    <3>3. Sound(t)'
      BY <1>16, <2>1, <2>5, <3>1, <3>2 DEF CountSaved, Placed, At, Starts, Quiet, Sound,
         Staged, RowAtWork, Saved, Working, Versions, Clearing, Emptying, Outlives, Deletes
    <3> QED
      BY <2>2, <3>3
  <2> QED
    BY <2>3, <2>4, <2>5
<1>17. ASSUME DeleteBegins(t) PROVE Own(t)
  <2>1. CASE Known(t)
    <3>1. Placed(t, "clearPg")
      BY <1>17, <2>1, GoingTo DEF DeleteBegins
    <3>2. Sound(t)'
      BY <1>17, <2>1, <3>1 DEF DeleteBegins, Placed, At, Starts, Quiet, Sound, Staged,
         RowAtWork, Saved, Working, Versions, Clearing, Emptying, Outlives, Deletes
    <3> QED
      BY <1>17, <2>1, <3>2 DEF DeleteBegins, TellsTheTruth, Gone
  <2>2. CASE ~Known(t)
    BY <1>17, <2>2, EndsQuietly DEF DeleteBegins
  <2> QED
    BY <2>1, <2>2
<1>18. ASSUME DeleteRemoves(t) PROVE Own(t)
  <2>1. Stage(t) = "delete" /\ deleted = "begun" /\ obj = 0 /\ pg = {} /\ mv = {}
    BY <1>18, <1>s DEF DeleteRemoves, At, Staged, Emptying, Deletes, Quiet
  <2>2. CASE Known(t)
    <3>1. Placed(t, "removeRow") /\ f' = NoFile
      BY <1>18, <1>t, <2>2, GoingTo DEF DeleteRemoves, Meta
    <3>2. Sound(t)'
      BY <1>18, <2>1, <3>1 DEF DeleteRemoves, Placed, At, Starts, Quiet, Sound, Staged,
         RowAtWork, Saved, Working, Versions, Clearing, Emptying, Outlives, Deletes
    <3> QED
      BY <1>18, <2>1, <3>2 DEF DeleteRemoves, TellsTheTruth, Gone
  <2>3. CASE ~Known(t)
    BY <1>18, <2>3, EndsQuietly DEF DeleteRemoves
  <2> QED
    BY <2>2, <2>3
<1>19. ASSUME DeleteEnds(t) PROVE Own(t)
  <2>1. /\ Stage(t) = "delete" /\ obj = 0 /\ pg = {} /\ mv = {} /\ f = NoFile
        /\ task[t].todo # <<>>
    BY <1>19, <1>s, <1>t DEF DeleteEnds, At, Staged, Emptying, Deletes, Quiet
  <2>2. Gone' /\ TellsTheTruth'
    BY <1>19, <2>1 DEF DeleteEnds, Gone, TellsTheTruth, Meta
  <2> QED
    BY <1>19, <1>q, <2>1, <2>2 DEF DeleteEnds
<1>20. ASSUME SyncLoads(t) PROVE Own(t)
  <2>1. mem' = [mem EXCEPT ![p] = row] /\ fresh' = fresh \cup {p} /\ row' = row
    BY <1>20 DEF SyncLoads
  <2>2. \A q \in Processes : q \in fresh' => mem'[q] = row \/ (q \in fresh /\ mem'[q] = mem[q])
    BY <1>t, <2>1
  <2>3. TellsTheTruth' /\ Gone'
    BY <1>20, <2>1, <2>2 DEF SyncLoads, StoresAgree, TellsTheTruth, Truthful, Searchable, Gone
  <2>4. CASE row = NoFile
    BY <1>20, <1>o, <2>3, <2>4 DEF SyncLoads
  <2>5. CASE row # NoFile
    <3>1. deleted' # "done"
      BY <1>20, <2>5 DEF SyncLoads, StoresAgree, Gone
    <3>2. task[t].todo # <<>>
      BY <1>20, <1>t DEF SyncLoads, Starts, At
    <3> QED
      BY <1>20, <1>q, <2>3, <2>5, <3>1, <3>2 DEF SyncLoads
  <2> QED
    BY <2>4, <2>5
<1>21. ASSUME SyncFetches(t) PROVE Own(t)
  <2>1. ASSUME NEW v, Sets(t, SyncRecord(v), "syncSave") PROVE Own(t)
    <3>1. Placed(t, "syncSave") /\ OtherCopies(t) /\ f' = SyncRecord(v)
      BY <2>1, SettingTo DEF OtherCopies
    <3>2. Truthful(f')
      BY <3>1 DEF Truthful, SyncRecord, File
    <3>3. deleted # "done"
      BY <1>21, <1>s DEF SyncFetches, Outlives
    <3>4. Sound(t)'
      BY <1>21, <3>1, <3>3, AsideIsSound DEF SyncFetches, Placed, At, Starts, Asides
    <3> QED
      BY <1>21, <3>1, <3>2, <3>3, <3>4, CopyChanges DEF SyncFetches
  <2>2. CASE GiveUp(t) /\ UNCHANGED mem
    BY <1>21, <2>2, EndsQuietly DEF SyncFetches
  <2> QED
    BY <1>21, <2>1, <2>2 DEF SyncFetches
<1>22. ASSUME RecordRaises(t) PROVE Own(t)
  BY <1>22, EndsQuietly DEF RecordRaises
<1>23. ASSUME ParseSaveRaises(t) PROVE Own(t)
  BY <1>23, EndsQuietly DEF ParseSaveRaises
<1>24. ASSUME ParseFails(t) PROVE Own(t)
  <2>1. CASE Known(t)
    <3>1. /\ Placed(t, "parseErrorSave") /\ OtherCopies(t)
          /\ f' = [f EXCEPT !.status = "error_parsing"]
      BY <1>24, <2>1, SettingTo DEF ParseFails, OtherCopies
    <3>2. f'.hash = f.hash /\ f'.md = f.md /\ f'.status # "indexed"
      BY <1>t, <3>1, RestOfRecord
    <3>3. deleted # "done" /\ Stage(t) # "delete"
      BY <1>24, <1>s DEF ParseFails, At, Outlives, Quiet, Staged, Deletes
    <3>4. Sound(t)'
      BY <1>24, <3>1, <3>3, AsideIsSound DEF ParseFails, Placed, At, Asides
    <3>5. deleted = "no" /\ p \in fresh => Truthful(f')
      BY <1>c, <3>2, SaysNoMore
    <3> QED
      BY <1>24, <3>1, <3>3, <3>4, <3>5, CopyChanges DEF ParseFails
  <2>2. CASE ~Known(t)
    BY <1>24, <2>2, EndsQuietly DEF ParseFails
  <2> QED
    BY <2>1, <2>2
<1>25. ASSUME IndexSaveRaises(t) PROVE Own(t)
  BY <1>25, EndsQuietly DEF IndexSaveRaises
<1>26. ASSUME IndexStoreRaises(t) PROVE Own(t)
  <2>1. Placed(t, "indexError")
    BY <1>26, GoingTo DEF IndexStoreRaises
  <2>2. Saved(t) /\ Working(t) /\ deleted # "done" /\ Stage(t) # "delete"
    BY <1>26, <1>s DEF IndexStoreRaises, Saved, Working, At, Outlives, Quiet, Staged, Deletes
  <2>3. TellsTheTruth' /\ Gone' /\ f' = f /\ RowAtWork(t)'
    BY <1>26, <1>w, <2>2 DEF IndexStoreRaises
  <2>4. Sound(t)'
    BY <1>26, <2>1, <2>2, <2>3 DEF IndexStoreRaises, Placed, At, Starts, Quiet, Sound,
       Staged, Versions, Clearing, Emptying, Outlives, Deletes
  <2> QED
    BY <2>3, <2>4
<1>27. ASSUME IndexFails(t) PROVE Own(t)
  <2>1. deleted # "done" /\ Stage(t) # "delete"
    BY <1>27, <1>s DEF IndexFails, At, Outlives, Quiet, Staged, Deletes
  <2>2. TellsTheTruth' /\ Gone' /\ f' = f
    BY <1>27, NothingNew DEF IndexFails, Meta
  <2>3. CASE ~At(t, "indexedSave")
    <3>1. Placed(t, "indexError") /\ Saved(t) /\ Working(t)
      BY <1>27, <2>3, GoingTo DEF IndexFails, Saved, Working, At
    <3>2. RowAtWork(t)'
      BY <1>27, <1>s, <2>2, <3>1 DEF IndexFails, RowAtWork
    <3>3. Sound(t)'
      BY <1>27, <2>1, <2>2, <3>1, <3>2 DEF IndexFails, Placed, At, Starts, Quiet, Sound,
         Staged, Versions, Clearing, Emptying, Outlives, Deletes
    <3> QED
      BY <2>2, <3>3
  <2>4. CASE At(t, "indexedSave")
    <3>1. Placed(t, "indexUndo")
      BY <1>27, <2>4, GoingTo DEF IndexFails, At
    <3>2. Sound(t)'
      BY <1>27, <2>1, <3>1, AsideIsSound DEF IndexFails, Placed, At, Asides
    <3> QED
      BY <2>2, <3>2
  <2> QED
    BY <2>3, <2>4
<1>28. ASSUME ErrorSaveRaises(t) PROVE Own(t)
  BY <1>28, EndsQuietly DEF ErrorSaveRaises
<1>29. ASSUME DeleteRaises(t) PROVE Own(t)
  BY <1>29, EndsQuietly DEF DeleteRaises
<1>30. ASSUME SyncCancelled(t) PROVE Own(t)
  BY <1>30, EndsQuietly DEF SyncCancelled
<1> QED
  BY <1>1, <1>2, <1>3, <1>4, <1>5, <1>6, <1>7, <1>8, <1>9, <1>10, <1>11, <1>12, <1>13, <1>14,
     <1>15, <1>16, <1>17, <1>18, <1>19, <1>20, <1>21, <1>22, <1>23, <1>24, <1>25, <1>26, <1>27,
     <1>28, <1>29, <1>30 DEF Steps, Failures

-----------------------------------------------------------------------------
(* The stores agree with the records                                       *)

(* Every step of an undisturbed file keeps the stores and the records in    *)
(* agreement.                                                              *)
LEMMA StoresStep ==
    TypeOK /\ Held /\ Busy /\ StoresInvariant /\ [Next]_vars => StoresInvariant'
<1> SUFFICES ASSUME TypeOK, Held, Busy, StoresInvariant, [Next]_vars, ~Disturbed'
             PROVE  StoresAgree'
  BY DEF StoresInvariant
<1>a. ~Disturbed /\ StoresAgree
  BY MarksStay DEF StoresInvariant
<1>1. ASSUME NEW t \in Tasks, Steps(t) \/ Failures(t) PROVE StoresAgree'
  <2>1. Own(t) /\ OneProcess'
    BY <1>1, <1>a, OwnStep, StillTogether
  <2>2. \A u \in Tasks \ {t} : Sound(u)'
    BY <1>1, <1>a, OthersStaySound
  <2> QED
    BY <2>1, <2>2 DEF Own, StoresAgree
<1>2. ASSUME NEW t \in Tasks, NEW job \in Jobs[t], Submit(t, job) PROVE StoresAgree'
  <2>1. /\ OthersKept(t) /\ At(t, "new") /\ At(t, "start")' /\ Stage(t)' = Head(job)
        /\ UNCHANGED <<row, fresh, mem, stores, deleted>>
    BY <1>2, Submitting DEF Submit, At, Stage
  <2>2. /\ Head(job) = "add" => job = Ingest
        /\ Head(job) \in {"load", "fetch"} => job = Sync
    BY JobRest, JobsAssumption
  <2>3. Head(job) # "fetch"
    BY <2>2 DEF Sync
  <2>4. Sound(t)'
    <3>1. ~Starts(t, "fetch")' /\ Quiet(t)'
      BY <2>1, <2>3 DEF Starts, Quiet, At
    <3>2. CASE ~Starts(t, "add")'
      BY <3>1, <3>2, QuietIsSound
    <3>3. CASE Starts(t, "add")'
      <4>1. deleted' = "no"
        BY <1>2, <2>1, <2>2, <3>3 DEF Starts, Submit
      <4> QED
        BY <4>1, <3>1 DEF Quiet, Sound, Staged, RowAtWork, Versions, Clearing, Emptying, Outlives,
           Deletes, Saved, Working, At
    <3> QED
      BY <3>2, <3>3
  <2>5. \A u \in Tasks \ {t} : task'[u] = task[u] /\ Stage(u)' = Stage(u) /\ Meta(u)' = Meta(u)
    BY <2>1, Elsewhere DEF Meta
  <2>6. \A u \in Tasks \ {t} : Sound(u)'
    BY <2>1, <2>5, <1>a DEF StoresAgree, Sound, Staged, RowAtWork, Versions, Clearing, Searchable,
       Emptying, Outlives, Deletes, Saved, Working, At, Quiet, Starts
  <2>7. OneProcess'
    <3>1. ~Begun(t)' /\ Quiet(t)' /\ ~Deletes(t)'
      BY <2>1, <2>3 DEF Begun, Deletes, Quiet, Starts, At
    <3>2. \A u \in Tasks \ {t} : /\ (Begun(u)' <=> Begun(u)) /\ (Deletes(u)' <=> Deletes(u))
                                  /\ (Quiet(u)' <=> Quiet(u))
      BY <2>5 DEF Begun, Deletes, Quiet, Starts, At
    <3> QED
      BY <3>1, <3>2, <1>a DEF StoresAgree, OneProcess
  <2>8. TellsTheTruth' /\ Gone'
    BY <1>a, <2>1, NothingNew
  <2> QED
    BY <2>4, <2>6, <2>7, <2>8 DEF StoresAgree
<1>3. ASSUME NEW p \in Processes, Repair(p) PROVE StoresAgree'
  <2>1. /\ UNCHANGED <<task, row, fresh, stores, deleted>>
        /\ mem[p].status \in Fixed
        /\ \A t \in Tasks : ProcessOf[t] = p => ~Working(t)
    BY <1>3 DEF Repair, Broken, Fixed, Disturbed
  <2>2. /\ mem'[p].status # "indexed"
        /\ mem'[p].hash = mem[p].hash /\ mem'[p].md = mem[p].md
    BY <1>3, RestOfRecord DEF Repair, Broken, TypeOK
  <2>3. \A q \in Processes : q # p => mem'[q] = mem[q]
    BY <1>3, Repairing
  <2>4. mem[p] # NoFile
    BY <2>1 DEF NoFile, Fixed
  <2>5. OneProcess'
    BY <1>a, <2>1 DEF StoresAgree, OneProcess, Begun, Deletes, Quiet, Starts, At, Stage
  <2>6. TellsTheTruth' /\ Gone'
    BY <1>a, <2>1, <2>2, <2>3, <2>4 DEF StoresAgree, TellsTheTruth, Truthful, Searchable, Gone
  <2>7. ASSUME NEW u \in Tasks PROVE Sound(u)'
    <3>a. Sound(u)
      BY <1>a DEF StoresAgree
    <3>b. /\ (Quiet(u)' <=> Quiet(u)) /\ (Working(u)' <=> Working(u))
          /\ (Deletes(u)' <=> Deletes(u)) /\ (Saved(u)' <=> Saved(u))
          /\ \A place : At(u, place)' <=> At(u, place)
          /\ \A stage : Starts(u, stage)' <=> Starts(u, stage)
          /\ Stage(u)' = Stage(u)
      BY <2>1 DEF Quiet, Working, Deletes, Saved, At, Starts, Stage
    <3>1. Staged(u)' /\ Outlives(u)'
      BY <2>1, <3>a, <3>b DEF Sound, Staged, Outlives
    <3>3. Working(u) => Meta(u)' = Meta(u)
      BY <2>1, <2>3, ProcessAssumption DEF Meta
    <3>4. RowAtWork(u)'
      BY <2>1, <2>2, <2>3, <3>a, <3>b, <3>3 DEF Sound, RowAtWork, Saved
    <3>5. Versions(u)' /\ Clearing(u)'
      <4>1. CASE Working(u)
        BY <2>1, <3>a, <3>b, <3>3, <4>1 DEF Sound, Versions, Clearing, Searchable
      <4>2. CASE ~Working(u)
        BY <2>1, <3>a, <3>b, <4>2 DEF Sound, Versions, Clearing, Working, At, Staged, Emptying,
           Deletes, Quiet
      <4> QED
        BY <4>1, <4>2
    <3>6. Emptying(u)'
      <4>1. Meta(u) = NoFile => Meta(u)' = NoFile
        BY <2>3, <2>4, ProcessAssumption DEF Meta
      <4> QED
        BY <2>1, <3>a, <3>b, <4>1 DEF Sound, Emptying
    <3> QED
      BY <3>1, <3>4, <3>5, <3>6 DEF Sound
  <2> QED
    BY <2>5, <2>6, <2>7 DEF StoresAgree
<1>4. ASSUME NEW p \in Processes, Restart(p) PROVE StoresAgree'
  <2>1. \A t \in Tasks :
           IF ProcessOf[t] = p /\ Live(t) THEN At(t, "over")' ELSE task'[t] = task[t]
    BY <1>4, Restarting DEF At
  <2>2. /\ UNCHANGED <<row, stores, deleted>> /\ mem'[p] = row /\ fresh' = fresh \cup {p}
        /\ \A q \in Processes : q # p => mem'[q] = mem[q]
    BY <1>4 DEF Restart, TypeOK
  <2>3. TellsTheTruth' /\ Gone'
    BY <1>a, <2>2 DEF StoresAgree, TellsTheTruth, Truthful, Searchable, Gone
  <2>4. ASSUME NEW u \in Tasks, At(u, "over")'
        PROVE  Sound(u)' /\ ~Begun(u)' /\ ~Deletes(u)' /\ Quiet(u)'
    <3>1. Quiet(u)' /\ ~Starts(u, "add")' /\ ~Starts(u, "fetch")'
      BY <2>4 DEF Quiet, Starts, At
    <3> QED
      BY <3>1, QuietIsSound DEF Begun, Deletes
  <2>5. ASSUME NEW u \in Tasks, task'[u] = task[u]
        PROVE  /\ (Quiet(u)' <=> Quiet(u)) /\ (Working(u)' <=> Working(u))
               /\ (Begun(u)' <=> Begun(u))
               /\ (Deletes(u)' <=> Deletes(u)) /\ (Saved(u)' <=> Saved(u))
               /\ \A place : At(u, place)' <=> At(u, place)
               /\ \A stage : Starts(u, stage)' <=> Starts(u, stage)
               /\ Stage(u)' = Stage(u)
    BY <2>5 DEF Quiet, Begun, Working, Deletes, Saved, At, Starts, Stage
  <2>6. OneProcess'
    BY <1>a, <2>1, <2>4, <2>5 DEF StoresAgree, OneProcess
  <2>7. ASSUME NEW u \in Tasks, task'[u] = task[u] PROVE Sound(u)'
    <3>a. Sound(u)
      BY <1>a DEF StoresAgree
    <3>b. /\ (Quiet(u)' <=> Quiet(u)) /\ (Working(u)' <=> Working(u))
          /\ (Deletes(u)' <=> Deletes(u)) /\ (Saved(u)' <=> Saved(u))
          /\ \A place : At(u, place)' <=> At(u, place)
          /\ \A stage : Starts(u, stage)' <=> Starts(u, stage)
          /\ Stage(u)' = Stage(u)
      BY <2>5, <2>7
    <3>1. CASE Quiet(u)
      BY <3>1, <3>a, <3>b, <2>2 DEF Quiet, Sound, Staged, RowAtWork, Versions, Clearing, Emptying,
         Outlives, Deletes, Saved, Working, At
    <3>2. CASE ~Quiet(u)
      <4>1. ProcessOf[u] # p
        <5>1. Live(u)
          BY <3>2 DEF Live, Quiet
        <5>2. ~At(u, "over")'
          BY <2>7, <3>2 DEF Quiet, At
        <5> QED
          BY <2>1, <5>1, <5>2
      <4>2. Meta(u)' = Meta(u)
        BY <2>2, <4>1, ProcessAssumption DEF Meta
      <4>3. RowAtWork(u)'
        BY <2>2, <3>a, <3>b, <4>2 DEF Sound, RowAtWork, Fixed
      <4>4. Staged(u)' /\ Outlives(u)'
        BY <2>2, <2>7, <3>a, <3>b, <4>1 DEF Sound, Staged, Outlives
      <4>5. Versions(u)' /\ Clearing(u)' /\ Emptying(u)'
        BY <2>2, <2>7, <3>a, <3>b, <4>2 DEF Sound, Versions, Clearing, Searchable, Emptying
      <4> QED
        BY <4>3, <4>4, <4>5 DEF Sound
    <3> QED
      BY <3>1, <3>2
  <2> QED
    BY <2>1, <2>3, <2>4, <2>6, <2>7 DEF StoresAgree
<1>5. CASE UNCHANGED vars
  <2>1. UNCHANGED <<row, fresh, mem, stores, deleted, task>>
    BY <1>5 DEF vars
  <2>2. TellsTheTruth' /\ Gone' /\ OneProcess'
    BY <1>a, <2>1, NothingNew DEF StoresAgree, OneProcess, Begun, Deletes, Quiet, Starts, At, Stage
  <2>3. \A u \in Tasks : Sound(u)'
    BY <1>a, <2>1 DEF StoresAgree, Sound, Staged, RowAtWork, Versions, Clearing, Searchable,
       Emptying, Outlives, Deletes, Saved, Working, At, Quiet, Starts, Stage, Meta
  <2> QED
    BY <2>2, <2>3 DEF StoresAgree
<1> QED
  BY <1>1, <1>2, <1>3, <1>4, <1>5 DEF Next

(* At first the stores hold what the row says. *)
LEMMA StoresAtFirst == Init => StoresInvariant
<1> SUFFICES ASSUME Init PROVE StoresAgree
  BY DEF StoresInvariant
<1>1. \A t \in Tasks : task[t].at = "new"
  BY DEF Init, NewTask
<1>2. \A t \in Tasks : Sound(t) /\ ~Begun(t) /\ ~Deletes(t)
  BY <1>1 DEF Sound, Staged, RowAtWork, Versions, Clearing, Emptying, Outlives, Deletes, Saved,
     Working, At, Quiet, Starts, Begun
<1>3. Truthful(row)
  <2>1. CASE row = NoFile
    BY <2>1 DEF Truthful, NoFile
  <2>2. CASE row = File("indexed", 1, TRUE)
    <3>1. row.hash = 1
      BY <2>2 DEF File
    <3> QED
      BY <3>1 DEF Init, Truthful, Searchable
  <2> QED
    BY <2>1, <2>2 DEF Init
<1>4. TellsTheTruth /\ Gone /\ OneProcess
  BY <1>2, <1>3 DEF Init, TellsTheTruth, Gone, OneProcess
<1> QED
  BY <1>2, <1>4 DEF StoresAgree

(* In every behaviour the records of a file that nothing has disturbed      *)
(* agree with the stores, through every call, failure and restart.         *)
THEOREM StoresInvariantHolds == Spec => []StoresInvariant
<1>1. FilesInvariant /\ StoresInvariant /\ [Next]_vars => StoresInvariant'
  BY StoresStep DEF FilesInvariant
<1> QED
  BY <1>1, StoresAtFirst, FilesInvariantHolds, PTL DEF Spec

(* Whatever the calls, the processes and the bounds: an "indexed" row of    *)
(* an undisturbed file is searched by what it says.                        *)
THEOREM IndexedCorrect == Spec => []IndexedIsSearchable
<1>1. StoresInvariant => IndexedIsSearchable
  BY DEF StoresInvariant, StoresAgree, TellsTheTruth, Truthful, Searchable, IndexedIsSearchable
<1> QED
  BY <1>1, StoresInvariantHolds, PTL

(* An undisturbed file that has been deleted leaves nothing behind and does *)
(* not come back.                                                          *)
THEOREM DeletedCorrect == Spec => []DeletedIsGone
<1>1. StoresInvariant => DeletedIsGone
  BY DEF StoresInvariant, StoresAgree, Gone, DeletedIsGone
<1> QED
  BY <1>1, StoresInvariantHolds, PTL
=============================================================================
