-------------------------- MODULE MCKnowledgeFiles --------------------------
(* KnowledgeFiles with two calls of the API process and one kb_sync.       *)
EXTENDS KnowledgeFiles, TLC

CONSTANTS api, worker, a1, a2, w1

MCProcessOf == a1 :> api @@ a2 :> api @@ w1 :> worker
MCJobs == a1 :> {Ingest, Indexing} @@ a2 :> {Parsing, Indexing, Deletion} @@ w1 :> {Sync}
=============================================================================
