---------------------------- MODULE SemanticCache ----------------------------
(***************************************************************************)
(* apps/data-plane/semantic-cache-service/src/cache_manager.py: the cache  *)
(* of one tenant in Redis, with requests that run together.  store and     *)
(* delete are pipelines (transactions); retrieve reads the set of keys,    *)
(* the embeddings one by one, the entry and its time to live, and writes   *)
(* the entry back with one more hit.                                       *)
(*                                                                         *)
(* The embedding of a text is the text; a query is similar to the content  *)
(* equal to it and to no other.  Redis is external.  A time to live is in  *)
(* ticks of CacheTick, and 0 is a key that is not there.                   *)
(***************************************************************************)
EXTENDS Integers, FiniteSets

CONSTANTS CacheKeys, Contents, Retrievals, MaxTtl, NoEntry

ASSUME CacheAssumptions ==
  MaxTtl \in Nat \ {0} /\ NoEntry \notin CacheKeys /\ NoEntry \notin Contents

VARIABLES
  entry, entryTtl,         \* semantic_cache:tenant:key
  embedding, embeddingTtl, \* semantic_embeddings:tenant:key
  tenantKeys, keysTtl,     \* tenant_keys:tenant
  retrieval,               \* what a call of retrieve knows
  overtaken                \* history: keys stored or deleted between a retrieval's
                           \* reading of the entry and its writing it back

storage == <<entry, entryTtl, embedding, embeddingTtl, tenantKeys, keysTtl>>
cacheVars == <<storage, retrieval, overtaken>>

\* todo: keys left to compare; best: best_match; changed: keys stored or deleted
\* since the search began
Fresh == [pc |-> "idle", query |-> NoEntry, todo |-> {}, best |-> NoEntry,
          found |-> NoEntry, ttl |-> 0, changed |-> {}]

CacheInit ==
  /\ entry = [k \in CacheKeys |-> NoEntry] /\ entryTtl = [k \in CacheKeys |-> 0]
  /\ embedding = [k \in CacheKeys |-> NoEntry] /\ embeddingTtl = [k \in CacheKeys |-> 0]
  /\ tenantKeys = {} /\ keysTtl = 0
  /\ retrieval = [r \in Retrievals |-> Fresh]
  /\ overtaken = {}

\* every retrieval that is not yet forgotten notes that k has changed
Noted(k) ==
  [r \in Retrievals |->
     IF retrieval[r].pc = "idle" THEN retrieval[r]
     ELSE [retrieval[r] EXCEPT !.changed = @ \cup {k}]]

(* store: the pipeline; the set of keys gets the time to live of this entry *)
StoreContent(k, c, ttl) ==
  /\ entry' = [entry EXCEPT ![k] = c] /\ entryTtl' = [entryTtl EXCEPT ![k] = ttl]
  /\ embedding' = [embedding EXCEPT ![k] = c]
  /\ embeddingTtl' = [embeddingTtl EXCEPT ![k] = ttl]
  /\ tenantKeys' = tenantKeys \cup {k} /\ keysTtl' = ttl
  /\ retrieval' = Noted(k)
  /\ overtaken' = overtaken \ {k}

\* Seeded fault: delete leaves the embedding.
Embeddings_Kept(k) == embedding

\* pipe.delete(embedding_redis_key)
EmbeddingsWithout(k) == [embedding EXCEPT ![k] = NoEntry]

(* delete: the pipeline *)
DeleteKey(k) ==
  /\ k \in tenantKeys \/ entry[k] # NoEntry
  /\ entry' = [entry EXCEPT ![k] = NoEntry] /\ entryTtl' = [entryTtl EXCEPT ![k] = 0]
  /\ embedding' = EmbeddingsWithout(k)
  /\ embeddingTtl' = [embeddingTtl EXCEPT ![k] = IF embedding'[k] = NoEntry THEN 0 ELSE @]
  /\ tenantKeys' = tenantKeys \ {k}
  /\ keysTtl' = IF tenantKeys' = {} THEN 0 ELSE keysTtl
  /\ retrieval' = Noted(k)
  /\ overtaken' = overtaken \ {k}

Less(n) == IF n = 0 THEN 0 ELSE n - 1

(* time passes, and Redis drops what has expired *)
CacheTick ==
  /\ \E k \in CacheKeys : entryTtl[k] > 0 \/ embeddingTtl[k] > 0
  /\ entryTtl' = [k \in CacheKeys |-> Less(entryTtl[k])]
  /\ embeddingTtl' = [k \in CacheKeys |-> Less(embeddingTtl[k])]
  /\ keysTtl' = Less(keysTtl)
  /\ entry' = [k \in CacheKeys |-> IF entryTtl'[k] = 0 THEN NoEntry ELSE entry[k]]
  /\ embedding' = [k \in CacheKeys |-> IF embeddingTtl'[k] = 0 THEN NoEntry ELSE embedding[k]]
  /\ tenantKeys' = IF keysTtl' = 0 THEN {} ELSE tenantKeys
  /\ UNCHANGED <<retrieval, overtaken>>

(* retrieve: smembers *)
Search(r, q) ==
  /\ retrieval[r].pc = "idle"
  /\ retrieval' = [retrieval EXCEPT ![r] =
       [@ EXCEPT !.pc = IF tenantKeys = {} THEN "answered" ELSE "compare",
                 !.query = q, !.todo = tenantKeys]]
  /\ UNCHANGED <<storage, overtaken>>

(* ... one round of the loop over the keys, in any order *)
Compare(r, k) ==
  /\ retrieval[r].pc = "compare" /\ k \in retrieval[r].todo
  /\ LET v == retrieval[r]
         taken == embedding[k] = v.query /\ v.best = NoEntry
     IN  retrieval' = [retrieval EXCEPT ![r] =
           [v EXCEPT !.todo = v.todo \ {k}, !.best = IF taken THEN k ELSE v.best]]
  /\ UNCHANGED <<storage, overtaken>>

(* ... the best match's entry *)
ReadEntry(r) ==
  /\ retrieval[r].pc = "compare" /\ retrieval[r].todo = {}
  /\ LET k == retrieval[r].best
     IN  IF k = NoEntry \/ (k # NoEntry /\ entry[k] = NoEntry)
         THEN retrieval' = [retrieval EXCEPT ![r].pc = "answered"]
         ELSE retrieval' = [retrieval EXCEPT ![r].pc = "ttl", ![r].found = entry[k]]
  /\ UNCHANGED <<storage, overtaken>>

(* ... its time to live *)
ReadTtl(r) ==
  /\ retrieval[r].pc = "ttl"
  /\ LET t == entryTtl[retrieval[r].best]
     IN  retrieval' = [retrieval EXCEPT ![r].ttl = t,
                                        ![r].pc = IF t > 0 THEN "write" ELSE "answered"]
  /\ UNCHANGED <<storage, overtaken>>

(* ... setex with the hit counted, and the answer *)
WriteBack(r) ==
  /\ retrieval[r].pc = "write"
  /\ LET k == retrieval[r].best
     IN  /\ entry' = [entry EXCEPT ![k] = retrieval[r].found]
         /\ entryTtl' = [entryTtl EXCEPT ![k] = retrieval[r].ttl]
         /\ overtaken' = IF k \in retrieval[r].changed THEN overtaken \cup {k} ELSE overtaken
  /\ retrieval' = [retrieval EXCEPT ![r].pc = "answered"]
  /\ UNCHANGED <<embedding, embeddingTtl, tenantKeys, keysTtl>>

(* the next request *)
Again(r) ==
  /\ retrieval[r].pc = "answered"
  /\ retrieval' = [retrieval EXCEPT ![r] = Fresh]
  /\ UNCHANGED <<storage, overtaken>>

CacheNext ==
  \/ \E k \in CacheKeys :
       \/ \E c \in Contents, ttl \in 1 .. MaxTtl : StoreContent(k, c, ttl)
       \/ DeleteKey(k)
  \/ CacheTick
  \/ \E r \in Retrievals :
       \/ \E q \in Contents : Search(r, q)
       \/ \E k \in CacheKeys : Compare(r, k)
       \/ ReadEntry(r) \/ ReadTtl(r) \/ WriteBack(r) \/ Again(r)

-----------------------------------------------------------------------------
(* Every embedding has its entry, and retrieve answers with the content that is
   similar to the query, except for a key that was stored or deleted under a
   retrieval's hands: its write-back brings the old entry back next to the new
   embedding, and goes on answering queries about the new content with the old. *)
AnswersMatch ==
  /\ \A k \in CacheKeys \ overtaken :
       embedding[k] # NoEntry => entry[k] = embedding[k]
  /\ \A r \in Retrievals :
       retrieval[r].pc = "answered" /\ retrieval[r].found # NoEntry =>
         \/ retrieval[r].found = retrieval[r].query
         \/ retrieval[r].best \in retrieval[r].changed \cup overtaken
=============================================================================
