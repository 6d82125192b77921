---------------------------- MODULE ServiceLemmas ----------------------------
(***************************************************************************)
(* Invariants of the semantic cache and the model gateway, and of what     *)
(* brings services up, for any constants: the developer scripts, the       *)
(* workflow loaders, the deployment scripts and the merging of legacy      *)
(* files.  PlatformProofs puts them together.                              *)
(***************************************************************************)
EXTENDS SemanticCache, ModelGateway, LocalStack, WorkflowLoader, Deployment, ServiceTree,
        DataInduction, SequenceTheorems, FiniteSetTheorems, TLAPS
-----------------------------------------------------------------------------
(* The semantic cache.                                                       *)

RetrievalRecords ==
  [pc : {"idle", "compare", "ttl", "write", "answered"}, query : Contents \cup {NoEntry},
   todo : SUBSET CacheKeys, best : CacheKeys \cup {NoEntry}, found : Contents \cup {NoEntry},
   ttl : Nat, changed : SUBSET CacheKeys]

CacheTypes ==
  /\ entry \in [CacheKeys -> Contents \cup {NoEntry}] /\ entryTtl \in [CacheKeys -> Nat]
  /\ embedding \in [CacheKeys -> Contents \cup {NoEntry}]
  /\ embeddingTtl \in [CacheKeys -> Nat]
  /\ tenantKeys \in SUBSET CacheKeys /\ keysTtl \in Nat
  /\ retrieval \in [Retrievals -> RetrievalRecords]
  /\ overtaken \in SUBSET CacheKeys

\* The entry of a key that no write-back has overtaken is there as long as its embedding
KeysAgree ==
  \A k \in CacheKeys :
    /\ embedding[k] = NoEntry => embeddingTtl[k] = 0
    /\ embedding[k] # NoEntry /\ k \notin overtaken =>
         entry[k] = embedding[k] /\ entryTtl[k] >= embeddingTtl[k]

\* v has found its best match and nothing has been done to that key since
KeyIntact(v, o) ==
  /\ v.pc \in {"compare", "ttl", "write"} /\ v.best # NoEntry
  /\ v.best \notin v.changed /\ v.best \notin o

\* What a retrieval v may rely on, over the entries e, the embeddings m and their lives mt
RetrievalOk(v, e, m, mt, o) ==
  /\ v.pc = "idle" => v.best = NoEntry
  /\ v.pc \in {"idle", "compare"} => v.found = NoEntry
  /\ v.pc # "idle" => v.query \in Contents
  /\ v.pc \in {"ttl", "write"} => v.best # NoEntry
  /\ KeyIntact(v, o) =>
       /\ e[v.best] = NoEntry \/ e[v.best] = v.query
       /\ m[v.best] = NoEntry \/ m[v.best] = v.query
       /\ v.pc \in {"ttl", "write"} => v.found = v.query
       /\ v.pc = "write" => v.ttl >= mt[v.best]
  /\ v.pc = "answered" /\ v.found # NoEntry =>
       v.found = v.query \/ v.best \in v.changed \/ v.best \in o

\* Two undisturbed retrievals with the same best match have the same query
SameQuery(v, w, o) == KeyIntact(v, o) /\ KeyIntact(w, o) /\ v.best = w.best => v.query = w.query

RetrievalsOk ==
  /\ \A r \in Retrievals : RetrievalOk(retrieval[r], entry, embedding, embeddingTtl, overtaken)
  /\ \A r, s \in Retrievals : SameQuery(retrieval[r], retrieval[s], overtaken)

CacheInv == CacheTypes /\ KeysAgree /\ RetrievalsOk

(* The empty cache satisfies its invariant. *)
LEMMA CacheStarts == CacheInit => CacheInv
<1> SUFFICES ASSUME CacheInit PROVE CacheInv
  OBVIOUS
<1>1. Fresh \in RetrievalRecords
  BY DEF Fresh, RetrievalRecords
<1>2. CacheTypes
  BY <1>1 DEF CacheInit, CacheTypes
<1>3. KeysAgree
  BY DEF CacheInit, KeysAgree
<1>4. ~KeyIntact(Fresh, overtaken)
  BY DEF KeyIntact, Fresh
<1>5. RetrievalOk(Fresh, entry, embedding, embeddingTtl, overtaken)
  BY <1>4 DEF RetrievalOk, Fresh
<1>6. \A r \in Retrievals : retrieval[r] = Fresh
  BY DEF CacheInit
<1>7. RetrievalsOk
  BY <1>4, <1>5, <1>6 DEF RetrievalsOk, SameQuery
<1> QED
  BY <1>2, <1>3, <1>7 DEF CacheInv

(* A step that changes only what one retrieval knows keeps the invariant when the
   retrieval may rely on what it knows now. *)
LEMMA OneRetrieval ==
  ASSUME CacheInv, NEW r \in Retrievals, NEW v \in RetrievalRecords,
         retrieval' = [retrieval EXCEPT ![r] = v], UNCHANGED <<storage, overtaken>>,
         RetrievalOk(v, entry, embedding, embeddingTtl, overtaken),
         \A s \in Retrievals : SameQuery(v, retrieval[s], overtaken)
  PROVE  CacheInv'
<1>1. /\ entry' = entry /\ entryTtl' = entryTtl /\ embedding' = embedding
      /\ embeddingTtl' = embeddingTtl /\ tenantKeys' = tenantKeys /\ keysTtl' = keysTtl
      /\ overtaken' = overtaken
  BY DEF storage
<1>2. CacheTypes'
  BY <1>1 DEF CacheInv, CacheTypes
<1>3. KeysAgree'
  BY <1>1 DEF CacheInv, KeysAgree
<1>4. \A s \in Retrievals : retrieval'[s] = IF s = r THEN v ELSE retrieval[s]
  BY DEF CacheInv, CacheTypes
<1>5. \A s \in Retrievals :
        RetrievalOk(retrieval'[s], entry', embedding', embeddingTtl', overtaken')
  BY <1>1, <1>4 DEF CacheInv, RetrievalsOk
<1>6. \A s \in Retrievals : SameQuery(retrieval[s], v, overtaken)
  BY DEF SameQuery
<1>7. \A s, t \in Retrievals : SameQuery(retrieval'[s], retrieval'[t], overtaken')
  BY <1>1, <1>4, <1>6, SameQuery(v, v, overtaken) DEF CacheInv, RetrievalsOk, SameQuery
<1>8. RetrievalsOk'
  BY <1>5, <1>7 DEF RetrievalsOk
<1> QED
  BY <1>2, <1>3, <1>8 DEF CacheInv

(* retrieve reads the set of keys. *)
LEMMA SearchKeeps ==
  ASSUME CacheInv, NEW r \in Retrievals, NEW q \in Contents, Search(r, q)
  PROVE  CacheInv'
<1> DEFINE old == retrieval[r]
           v == [old EXCEPT !.pc = IF tenantKeys = {} THEN "answered" ELSE "compare",
                            !.query = q, !.todo = tenantKeys]
<1>1. old \in RetrievalRecords /\ tenantKeys \in SUBSET CacheKeys
  BY DEF CacheInv, CacheTypes
<1>2. v \in RetrievalRecords
  BY <1>1 DEF RetrievalRecords
<1>3. retrieval' = [retrieval EXCEPT ![r] = v]
  BY DEF Search
<1>4. old.best = NoEntry /\ old.found = NoEntry
  BY DEF CacheInv, RetrievalsOk, RetrievalOk, Search
<1>5. v.best = NoEntry /\ v.found = NoEntry /\ v.query = q /\ v.pc \in {"answered", "compare"}
  BY <1>1, <1>4 DEF RetrievalRecords
<1> HIDE DEF v, old
<1>6. ~KeyIntact(v, overtaken)
  BY <1>5 DEF KeyIntact
<1>7. RetrievalOk(v, entry, embedding, embeddingTtl, overtaken)
  BY <1>5, <1>6 DEF RetrievalOk
<1>8. \A s \in Retrievals : SameQuery(v, retrieval[s], overtaken)
  BY <1>6 DEF SameQuery
<1>9. UNCHANGED <<storage, overtaken>>
  BY DEF Search
<1> QED
  BY <1>2, <1>3, <1>7, <1>8, <1>9, OneRetrieval

(* The loop takes k as the best match only if its embedding is similar to the query: what
   is stored under k is then the query's content, or a write-back has overtaken k. *)
LEMMA CompareKeeps ==
  ASSUME CacheInv, NEW r \in Retrievals, NEW k \in CacheKeys, Compare(r, k)
  PROVE  CacheInv'
<1> DEFINE old == retrieval[r]
           taken == embedding[k] = old.query /\ old.best = NoEntry
           v == [old EXCEPT !.todo = old.todo \ {k}, !.best = IF taken THEN k ELSE old.best]
<1>1. old \in RetrievalRecords
  BY DEF CacheInv, CacheTypes
<1>2. v \in RetrievalRecords
  BY <1>1 DEF RetrievalRecords
<1>3. retrieval' = [retrieval EXCEPT ![r] = v]
  BY DEF Compare
<1>4. /\ RetrievalOk(old, entry, embedding, embeddingTtl, overtaken)
      /\ \A s \in Retrievals : SameQuery(old, retrieval[s], overtaken)
  BY DEF CacheInv, RetrievalsOk
<1>5. old.pc = "compare" /\ old.found = NoEntry /\ old.query \in Contents
  BY <1>4 DEF Compare, RetrievalOk
<1>6. /\ v.pc = "compare" /\ v.found = NoEntry /\ v.query = old.query
      /\ v.best = (IF taken THEN k ELSE old.best) /\ v.changed = old.changed
  BY <1>1, <1>5 DEF RetrievalRecords
<1>7. CASE ~taken
  <2> v.best = old.best
    BY <1>6, <1>7
  <2> HIDE DEF v, old, taken
  <2>1. RetrievalOk(v, entry, embedding, embeddingTtl, overtaken)
    BY <1>4, <1>5, <1>6 DEF RetrievalOk, KeyIntact
  <2>2. \A s \in Retrievals : SameQuery(v, retrieval[s], overtaken)
    BY <1>4, <1>5, <1>6 DEF SameQuery, KeyIntact
  <2>3. UNCHANGED <<storage, overtaken>>
    BY DEF Compare
  <2> QED
    BY <1>2, <1>3, <2>1, <2>2, <2>3, OneRetrieval
<1>8. CASE taken
  <2>1. v.best = k /\ embedding[k] = v.query /\ embedding[k] # NoEntry
    BY <1>5, <1>6, <1>8, CacheAssumptions
  <2>2. KeyIntact(v, overtaken) => entry[k] = v.query
    BY <2>1 DEF CacheInv, KeysAgree, KeyIntact
  <2>3. \A s \in Retrievals :
          KeyIntact(v, overtaken) /\ KeyIntact(retrieval[s], overtaken) /\ v.best = retrieval[s].best
            => v.query = retrieval[s].query
    BY <2>1 DEF CacheInv, RetrievalsOk, RetrievalOk
  <2> HIDE DEF v, old, taken
  <2>4. RetrievalOk(v, entry, embedding, embeddingTtl, overtaken)
    BY <1>5, <1>6, <2>1, <2>2 DEF RetrievalOk
  <2>5. \A s \in Retrievals : SameQuery(v, retrieval[s], overtaken)
    BY <2>3 DEF SameQuery
  <2>6. UNCHANGED <<storage, overtaken>>
    BY DEF Compare
  <2> QED
    BY <1>2, <1>3, <2>4, <2>5, <2>6, OneRetrieval
<1> QED
  BY <1>7, <1>8

(* The entry of an undisturbed best match is the one the query asks for, if it is there. *)
LEMMA ReadEntryKeeps ==
  ASSUME CacheInv, NEW r \in Retrievals, ReadEntry(r)
  PROVE  CacheInv'
<1> DEFINE old == retrieval[r]
           gone == old.best = NoEntry \/ (old.best # NoEntry /\ entry[old.best] = NoEntry)
           v == [pc |-> IF gone THEN "answered" ELSE "ttl", query |-> old.query,
                 todo |-> old.todo, best |-> old.best,
                 found |-> IF gone THEN old.found ELSE entry[old.best], ttl |-> old.ttl,
                 changed |-> old.changed]
<1>1. old \in RetrievalRecords
  BY DEF CacheInv, CacheTypes
<1>2. v \in RetrievalRecords
  BY <1>1 DEF RetrievalRecords, CacheInv, CacheTypes
<1>3. retrieval' = [retrieval EXCEPT ![r] = v]
  <2>1. CASE gone
    BY <1>1, <2>1 DEF ReadEntry, RetrievalRecords, CacheInv, CacheTypes
  <2>2. CASE ~gone
    BY <1>1, <2>2 DEF ReadEntry, RetrievalRecords, CacheInv, CacheTypes
  <2> QED
    BY <2>1, <2>2
<1>4. /\ RetrievalOk(old, entry, embedding, embeddingTtl, overtaken)
      /\ \A s \in Retrievals : SameQuery(old, retrieval[s], overtaken)
  BY DEF CacheInv, RetrievalsOk
<1>5. old.pc = "compare" /\ old.found = NoEntry /\ old.query \in Contents
  BY <1>4 DEF ReadEntry, RetrievalOk
<1>6. /\ v.pc = (IF gone THEN "answered" ELSE "ttl") /\ v.query = old.query
      /\ v.found = (IF gone THEN NoEntry ELSE entry[old.best])
      /\ v.best = old.best /\ v.changed = old.changed
  BY <1>5
<1>7. KeyIntact(v, overtaken) => ~gone /\ KeyIntact(old, overtaken)
  BY <1>5, <1>6 DEF KeyIntact
<1>8. ~gone => old.best # NoEntry /\ entry[old.best] # NoEntry
  OBVIOUS
<1> HIDE DEF v, old, gone
<1>9. RetrievalOk(v, entry, embedding, embeddingTtl, overtaken)
  BY <1>4, <1>5, <1>6, <1>7, <1>8 DEF RetrievalOk
<1>10. \A s \in Retrievals : SameQuery(v, retrieval[s], overtaken)
  BY <1>4, <1>6, <1>7 DEF SameQuery
<1>11. UNCHANGED <<storage, overtaken>>
  BY DEF ReadEntry
<1> QED
  BY <1>2, <1>3, <1>9, <1>10, <1>11, OneRetrieval

(* The time to live of an undisturbed best match is at least its embedding's. *)
LEMMA ReadTtlKeeps ==
  ASSUME CacheInv, NEW r \in Retrievals, ReadTtl(r)
  PROVE  CacheInv'
<1> DEFINE old == retrieval[r]
           t == entryTtl[old.best]
           v == [pc |-> IF t > 0 THEN "write" ELSE "answered", query |-> old.query,
                 todo |-> old.todo, best |-> old.best, found |-> old.found, ttl |-> t,
                 changed |-> old.changed]
<1>1. old \in RetrievalRecords
  BY DEF CacheInv, CacheTypes
<1>2. /\ RetrievalOk(old, entry, embedding, embeddingTtl, overtaken)
      /\ \A s \in Retrievals : SameQuery(old, retrieval[s], overtaken)
  BY DEF CacheInv, RetrievalsOk
<1>3. old.pc = "ttl" /\ old.best \in CacheKeys /\ old.query \in Contents
  BY <1>1, <1>2 DEF ReadTtl, RetrievalOk, RetrievalRecords
<1>4. t \in Nat
  BY <1>3 DEF CacheInv, CacheTypes
<1>5. v \in RetrievalRecords
  BY <1>1, <1>4 DEF RetrievalRecords
<1>6. retrieval' = [retrieval EXCEPT ![r] = v]
  BY <1>1 DEF ReadTtl, RetrievalRecords, CacheInv, CacheTypes
<1>7. /\ v.pc \in {"write", "answered"} /\ v.query = old.query /\ v.found = old.found
      /\ v.best = old.best /\ v.changed = old.changed /\ v.ttl = t
  OBVIOUS
<1>8. KeyIntact(v, overtaken) => KeyIntact(old, overtaken)
  BY <1>3, <1>7 DEF KeyIntact
<1>9. old.best \notin overtaken => t >= embeddingTtl[old.best]
  BY <1>3, <1>4 DEF CacheInv, KeysAgree, CacheTypes
<1>10. old.found = old.query \/ old.best \in old.changed \/ old.best \in overtaken
  BY <1>2, <1>3, CacheAssumptions DEF RetrievalOk, KeyIntact, RetrievalRecords
<1> HIDE DEF v, old, t
<1>11. RetrievalOk(v, entry, embedding, embeddingTtl, overtaken)
  BY <1>2, <1>3, <1>7, <1>8, <1>9, <1>10, CacheAssumptions DEF RetrievalOk, KeyIntact
<1>12. \A s \in Retrievals : SameQuery(v, retrieval[s], overtaken)
  BY <1>2, <1>7, <1>8 DEF SameQuery
<1>13. UNCHANGED <<storage, overtaken>>
  BY DEF ReadTtl
<1> QED
  BY <1>5, <1>6, <1>11, <1>12, <1>13, OneRetrieval

(* The next request knows nothing. *)
LEMMA AgainKeeps ==
  ASSUME CacheInv, NEW r \in Retrievals, Again(r)
  PROVE  CacheInv'
<1>1. Fresh \in RetrievalRecords
  BY DEF Fresh, RetrievalRecords
<1>2. ~KeyIntact(Fresh, overtaken)
  BY DEF KeyIntact, Fresh
<1>3. RetrievalOk(Fresh, entry, embedding, embeddingTtl, overtaken)
  BY <1>2 DEF RetrievalOk, Fresh
<1>4. \A s \in Retrievals : SameQuery(Fresh, retrieval[s], overtaken)
  BY <1>2 DEF SameQuery
<1> QED
  BY <1>1, <1>3, <1>4, OneRetrieval DEF Again

(* Noting that k has changed leaves everything else a retrieval knows. *)
LEMMA NotedFields ==
  ASSUME CacheTypes, NEW k \in CacheKeys
  PROVE  /\ Noted(k) \in [Retrievals -> RetrievalRecords]
         /\ \A s \in Retrievals :
              /\ Noted(k)[s].pc = retrieval[s].pc /\ Noted(k)[s].query = retrieval[s].query
              /\ Noted(k)[s].best = retrieval[s].best /\ Noted(k)[s].found = retrieval[s].found
              /\ Noted(k)[s].ttl = retrieval[s].ttl
              /\ Noted(k)[s].changed =
                   IF retrieval[s].pc = "idle" THEN retrieval[s].changed
                   ELSE retrieval[s].changed \cup {k}
<1> SUFFICES ASSUME NEW s \in Retrievals
             PROVE  /\ Noted(k)[s] \in RetrievalRecords
                    /\ Noted(k)[s].pc = retrieval[s].pc /\ Noted(k)[s].query = retrieval[s].query
                    /\ Noted(k)[s].best = retrieval[s].best /\ Noted(k)[s].found = retrieval[s].found
                    /\ Noted(k)[s].ttl = retrieval[s].ttl
                    /\ Noted(k)[s].changed =
                         IF retrieval[s].pc = "idle" THEN retrieval[s].changed
                         ELSE retrieval[s].changed \cup {k}
  BY DEF Noted
<1>1. retrieval[s] \in RetrievalRecords
  BY DEF CacheTypes
<1>2. CASE retrieval[s].pc = "idle"
  BY <1>1, <1>2 DEF Noted
<1>3. CASE retrieval[s].pc # "idle"
  <2>1. Noted(k)[s] = [retrieval[s] EXCEPT !.changed = retrieval[s].changed \cup {k}]
    BY <1>3 DEF Noted
  <2> QED
    BY <1>1, <1>3, <2>1 DEF RetrievalRecords
<1> QED
  BY <1>2, <1>3

(* Whoever was relying on k when it is stored or deleted is disturbed from then on; the
   others do not see a difference. *)
LEMMA ChangeKeeps ==
  ASSUME CacheInv, NEW k \in CacheKeys, retrieval' = Noted(k), overtaken' = overtaken \ {k},
         \A j \in CacheKeys : j # k => /\ entry'[j] = entry[j] /\ embedding'[j] = embedding[j]
                                       /\ embeddingTtl'[j] = embeddingTtl[j]
  PROVE  RetrievalsOk'
<1>1. \A s \in Retrievals :
        /\ retrieval[s] \in RetrievalRecords /\ retrieval'[s].pc = retrieval[s].pc
        /\ retrieval'[s].query = retrieval[s].query /\ retrieval'[s].best = retrieval[s].best
        /\ retrieval'[s].found = retrieval[s].found /\ retrieval'[s].ttl = retrieval[s].ttl
        /\ retrieval'[s].changed = IF retrieval[s].pc = "idle" THEN retrieval[s].changed
                                   ELSE retrieval[s].changed \cup {k}
  BY NotedFields DEF CacheInv, CacheTypes
<1>2. \A s \in Retrievals :
        KeyIntact(retrieval'[s], overtaken') =>
          retrieval[s].best # k /\ retrieval[s].best \in CacheKeys /\ KeyIntact(retrieval[s], overtaken)
  <2> SUFFICES ASSUME NEW s \in Retrievals, KeyIntact(retrieval'[s], overtaken')
               PROVE  /\ retrieval[s].best # k /\ retrieval[s].best \in CacheKeys
                      /\ KeyIntact(retrieval[s], overtaken)
    OBVIOUS
  <2>1. /\ retrieval[s].pc \in {"compare", "ttl", "write"} /\ retrieval[s].best # NoEntry
        /\ retrieval[s].best \notin retrieval'[s].changed /\ retrieval[s].best \notin overtaken'
    BY <1>1 DEF KeyIntact
  <2>2. retrieval'[s].changed = retrieval[s].changed \cup {k}
    BY <1>1, <2>1
  <2>3. retrieval[s].best \in CacheKeys
    BY <1>1, <2>1 DEF RetrievalRecords
  <2> QED
    BY <2>1, <2>2, <2>3 DEF KeyIntact
<1>3. ASSUME NEW s \in Retrievals
      PROVE  RetrievalOk(retrieval'[s], entry', embedding', embeddingTtl', overtaken')
  <2>1. RetrievalOk(retrieval[s], entry, embedding, embeddingTtl, overtaken)
    BY DEF CacheInv, RetrievalsOk
  <2>2. KeyIntact(retrieval'[s], overtaken') =>
          /\ entry'[retrieval[s].best] = entry[retrieval[s].best]
          /\ embedding'[retrieval[s].best] = embedding[retrieval[s].best]
          /\ embeddingTtl'[retrieval[s].best] = embeddingTtl[retrieval[s].best]
    BY <1>2
  <2>3. retrieval[s].pc = "answered" /\ retrieval[s].found # NoEntry =>
          \/ retrieval'[s].found = retrieval'[s].query \/ retrieval'[s].best \in retrieval'[s].changed
          \/ retrieval'[s].best \in overtaken'
    BY <1>1, <2>1 DEF RetrievalOk
  <2> QED
    BY <1>1, <1>2, <2>1, <2>2, <2>3 DEF RetrievalOk
<1>4. \A s, t \in Retrievals : SameQuery(retrieval'[s], retrieval'[t], overtaken')
  <2> SUFFICES ASSUME NEW s \in Retrievals, NEW t \in Retrievals,
                      KeyIntact(retrieval'[s], overtaken'), KeyIntact(retrieval'[t], overtaken'),
                      retrieval'[s].best = retrieval'[t].best
               PROVE  retrieval'[s].query = retrieval'[t].query
    BY DEF SameQuery
  <2>1. KeyIntact(retrieval[s], overtaken) /\ KeyIntact(retrieval[t], overtaken)
    BY <1>2
  <2>2. SameQuery(retrieval[s], retrieval[t], overtaken)
    BY DEF CacheInv, RetrievalsOk
  <2>3. retrieval[s].best = retrieval[t].best
    BY <1>1
  <2>4. retrieval[s].query = retrieval[t].query
    BY <2>1, <2>2, <2>3 DEF SameQuery
  <2> QED
    BY <1>1, <2>4
<1> QED
  BY <1>3, <1>4 DEF RetrievalsOk

(* store writes the entry and the embedding together. *)
LEMMA StoreKeeps ==
  ASSUME CacheInv, NEW k \in CacheKeys, NEW c \in Contents, NEW ttl \in 1 .. MaxTtl,
         StoreContent(k, c, ttl)
  PROVE  CacheInv'
<1>1. ttl \in Nat /\ c # NoEntry
  BY CacheAssumptions
<1>2. CacheTypes'
  BY <1>1, NotedFields DEF CacheInv, CacheTypes, StoreContent
<1>3. KeysAgree'
  BY <1>1 DEF CacheInv, CacheTypes, KeysAgree, StoreContent
<1>4. RetrievalsOk'
  BY ChangeKeeps DEF StoreContent, CacheInv, CacheTypes
<1> QED
  BY <1>2, <1>3, <1>4 DEF CacheInv

(* delete takes both away. *)
LEMMA DeleteKeeps ==
  ASSUME CacheInv, NEW k \in CacheKeys, DeleteKey(k)
  PROVE  CacheInv'
<1>1. /\ entry' = [entry EXCEPT ![k] = NoEntry] /\ entryTtl' = [entryTtl EXCEPT ![k] = 0]
      /\ embedding' = [embedding EXCEPT ![k] = NoEntry]
      /\ embeddingTtl' = [embeddingTtl EXCEPT ![k] = 0]
      /\ tenantKeys' = tenantKeys \ {k} /\ keysTtl' = (IF tenantKeys' = {} THEN 0 ELSE keysTtl)
      /\ retrieval' = Noted(k) /\ overtaken' = overtaken \ {k}
  BY DEF DeleteKey, EmbeddingsWithout, CacheInv, CacheTypes
<1>2. CacheTypes'
  BY <1>1, NotedFields DEF CacheInv, CacheTypes
<1>3. KeysAgree'
  BY <1>1 DEF CacheInv, CacheTypes, KeysAgree
<1>4. RetrievalsOk'
  BY <1>1, ChangeKeeps DEF CacheInv, CacheTypes
<1> QED
  BY <1>2, <1>3, <1>4 DEF CacheInv

(* Time takes an embedding away no later than the entry it agrees with. *)
LEMMA CacheTickKeeps == ASSUME CacheInv, CacheTick PROVE CacheInv'
<1>1. \A k \in CacheKeys :
        /\ entryTtl[k] \in Nat /\ embeddingTtl[k] \in Nat
        /\ entryTtl'[k] = Less(entryTtl[k]) /\ embeddingTtl'[k] = Less(embeddingTtl[k])
        /\ entry'[k] = (IF entryTtl'[k] = 0 THEN NoEntry ELSE entry[k])
        /\ embedding'[k] = (IF embeddingTtl'[k] = 0 THEN NoEntry ELSE embedding[k])
  BY DEF CacheTick, CacheInv, CacheTypes
<1>2. \A n \in Nat : Less(n) \in Nat /\ Less(n) <= n
  BY DEF Less
<1>3. CacheTypes'
  BY <1>2 DEF CacheTick, CacheInv, CacheTypes
<1>4. KeysAgree'
  BY <1>1 DEF CacheTick, CacheInv, KeysAgree, Less
<1>5. retrieval' = retrieval /\ overtaken' = overtaken
  BY DEF CacheTick
<1>6. ASSUME NEW s \in Retrievals
      PROVE  RetrievalOk(retrieval[s], entry', embedding', embeddingTtl', overtaken)
  <2>1. RetrievalOk(retrieval[s], entry, embedding, embeddingTtl, overtaken)
    BY DEF CacheInv, RetrievalsOk
  <2>2. KeyIntact(retrieval[s], overtaken) => retrieval[s].best \in CacheKeys
    BY DEF KeyIntact, CacheInv, CacheTypes, RetrievalRecords
  <2>3. retrieval[s].ttl \in Nat
    BY DEF CacheInv, CacheTypes, RetrievalRecords
  <2> DEFINE b == retrieval[s].best
  <2>4. b \in CacheKeys =>
          /\ entry'[b] = NoEntry \/ entry'[b] = entry[b]
          /\ embedding'[b] = NoEntry \/ embedding'[b] = embedding[b]
          /\ retrieval[s].ttl >= embeddingTtl[b] => retrieval[s].ttl >= embeddingTtl'[b]
    BY <1>1, <1>2, <2>3
  <2> QED
    BY <2>1, <2>2, <2>4 DEF RetrievalOk
<1>7. RetrievalsOk'
  BY <1>5, <1>6 DEF CacheInv, RetrievalsOk
<1> QED
  BY <1>3, <1>4, <1>7 DEF CacheInv

(* A write-back over a key that has changed since it was read makes the key overtaken;
   over any other it writes what was there, for no shorter a time than the embedding has. *)
LEMMA WriteBackKeeps ==
  ASSUME CacheInv, NEW r \in Retrievals, WriteBack(r)
  PROVE  CacheInv'
<1> DEFINE old == retrieval[r]
           k == old.best
           v == [old EXCEPT !.pc = "answered"]
<1>1. old \in RetrievalRecords /\ old.pc = "write"
  BY DEF CacheInv, CacheTypes, WriteBack
<1>2. /\ RetrievalOk(old, entry, embedding, embeddingTtl, overtaken)
      /\ \A s \in Retrievals : SameQuery(old, retrieval[s], overtaken)
  BY DEF CacheInv, RetrievalsOk
<1>3. k \in CacheKeys /\ old.query \in Contents /\ old.ttl \in Nat /\ old.found \in Contents \cup {NoEntry}
  BY <1>1, <1>2 DEF RetrievalOk, RetrievalRecords
<1>4. /\ v \in RetrievalRecords /\ v.pc = "answered" /\ v.query = old.query /\ v.best = k
      /\ v.found = old.found /\ v.changed = old.changed
  BY <1>1 DEF RetrievalRecords
<1>5. /\ entry' = [entry EXCEPT ![k] = old.found] /\ entryTtl' = [entryTtl EXCEPT ![k] = old.ttl]
      /\ overtaken' = (IF k \in old.changed THEN overtaken \cup {k} ELSE overtaken)
      /\ retrieval' = [retrieval EXCEPT ![r] = v]
      /\ embedding' = embedding /\ embeddingTtl' = embeddingTtl
      /\ tenantKeys' = tenantKeys /\ keysTtl' = keysTtl
  BY DEF WriteBack
<1> HIDE DEF v
<1>6. CacheTypes'
  BY <1>3, <1>4, <1>5 DEF CacheInv, CacheTypes
<1>7. k \notin overtaken' => KeyIntact(old, overtaken)
  BY <1>1, <1>3, <1>5, CacheAssumptions DEF KeyIntact
<1>8. k \notin overtaken' =>
        /\ old.found = old.query /\ old.ttl >= embeddingTtl[k]
        /\ embedding[k] = NoEntry \/ embedding[k] = old.query
  BY <1>1, <1>2, <1>7 DEF RetrievalOk
<1>9. KeysAgree'
  BY <1>3, <1>5, <1>8 DEF CacheInv, CacheTypes, KeysAgree
<1>10. ~KeyIntact(v, overtaken')
  BY <1>4 DEF KeyIntact
<1>11. \A s \in Retrievals : KeyIntact(retrieval[s], overtaken') => KeyIntact(retrieval[s], overtaken)
  BY <1>5 DEF KeyIntact
<1>12. ASSUME NEW s \in Retrievals
       PROVE  RetrievalOk(retrieval[s], entry', embedding', embeddingTtl', overtaken')
  <2>1. RetrievalOk(retrieval[s], entry, embedding, embeddingTtl, overtaken)
    BY DEF CacheInv, RetrievalsOk
  <2>2. KeyIntact(retrieval[s], overtaken') /\ retrieval[s].best = k => entry'[k] = retrieval[s].query
    BY <1>2, <1>3, <1>5, <1>7, <1>8, <1>11 DEF SameQuery, KeyIntact, CacheInv, CacheTypes
  <2>3. KeyIntact(retrieval[s], overtaken') /\ retrieval[s].best # k =>
          entry'[retrieval[s].best] = entry[retrieval[s].best]
    BY <1>5 DEF KeyIntact, CacheInv, CacheTypes, RetrievalRecords
  <2>4. overtaken \subseteq overtaken'
    BY <1>5
  <2> QED
    BY <1>5, <1>11, <2>1, <2>2, <2>3, <2>4 DEF RetrievalOk
<1>13. RetrievalOk(v, entry', embedding', embeddingTtl', overtaken')
  BY <1>1, <1>2, <1>3, <1>4, <1>7, <1>8, <1>10 DEF RetrievalOk
<1>14. \A s \in Retrievals : retrieval'[s] = IF s = r THEN v ELSE retrieval[s]
  BY <1>5 DEF CacheInv, CacheTypes
<1>15. \A s, t \in Retrievals : SameQuery(retrieval'[s], retrieval'[t], overtaken')
  BY <1>10, <1>11, <1>14 DEF CacheInv, RetrievalsOk, SameQuery
<1>16. RetrievalsOk'
  BY <1>12, <1>13, <1>14, <1>15 DEF RetrievalsOk
<1> QED
  BY <1>6, <1>9, <1>16 DEF CacheInv

(* Every step of the cache keeps its invariant. *)
LEMMA CacheSteps == CacheInv /\ [CacheNext]_cacheVars => CacheInv'
<1> SUFFICES ASSUME CacheInv, [CacheNext]_cacheVars PROVE CacheInv'
  OBVIOUS
<1>1. CASE UNCHANGED cacheVars
  BY <1>1 DEF cacheVars, storage, CacheInv, CacheTypes, KeysAgree, RetrievalsOk
<1>2. CASE CacheNext
  BY <1>2, StoreKeeps, DeleteKeeps, CacheTickKeeps, SearchKeeps, CompareKeeps, ReadEntryKeeps,
     ReadTtlKeeps, WriteBackKeeps, AgainKeeps DEF CacheNext
<1> QED
  BY <1>1, <1>2

(* The invariant says that retrieve answers with what is similar to the query. *)
LEMMA CacheAnswers == CacheInv => AnswersMatch
BY DEF CacheInv, KeysAgree, RetrievalsOk, RetrievalOk, AnswersMatch
-----------------------------------------------------------------------------
(* The model gateway.                                                        *)

\* Grants of the chats cs after y, and those in the WindowSize ticks up to x, under g
GrantsAfter(cs, g, y) == {c \in cs : g[c] >= 0 /\ g[c] > y}
GrantsIn(cs, g, x) == {c \in cs : g[c] >= 0 /\ g[c] > x - WindowSize /\ g[c] <= x}

\* The window w of a limiter has an entry for every grant of cs that counts, in order:
\* k entries at or before y leave room for at most Len(w) - k grants after y
WindowOk(w, cs, limit, g, now) ==
  /\ w \in Seq(Int) /\ Len(w) <= limit
  /\ \A y \in Int : y >= now - WindowSize =>
       /\ Cardinality(GrantsAfter(cs, g, y)) <= Len(w)
       /\ \A k \in 1 .. Len(w) : w[k] <= y => Cardinality(GrantsAfter(cs, g, y)) <= Len(w) - k

\* In no WindowSize ticks so far has there been a grant too many
PastOk(cs, limit, g, now) == \A x \in 0 .. now : Cardinality(GrantsIn(cs, g, x)) <= limit

ChatsOf(t) == {c \in Chats : ChatTenant[c] = t}
GrantedOf(t, g) == {c \in ChatsOf(t) : g[c] >= 0}

BucketOk(b, n, now) ==
  /\ b.last <= now
  /\ b.tokens + TokenCost * n <= TokensMax + b.last * RefillRate

GatewayTypes ==
  /\ gwClock \in Nat
  /\ granted \in [Chats -> Int] /\ \A c \in Chats : granted[c] <= gwClock
  /\ tenantWindow \in [GwTenants -> Seq(Int)]
  /\ gwBucket \in [GwTenants -> [tokens : Nat, last : Nat]]
  /\ gwBreaker \in [state : {"closed", "open", "half_open"}, failures : Nat, last : Nat]
  /\ lateSuccess \in BOOLEAN

BreakerOk ==
  /\ gwBreaker.state = "closed" => gwBreaker.failures < GwThreshold
  /\ gwBreaker.state # "closed" /\ ~lateSuccess => gwBreaker.failures >= GwThreshold

LimitersOk ==
  /\ WindowOk(globalWindow, Chats, GlobalRequests, granted, gwClock)
  /\ PastOk(Chats, GlobalRequests, granted, gwClock)
  /\ \A t \in GwTenants :
       /\ WindowOk(tenantWindow[t], ChatsOf(t), TenantRequests, granted, gwClock)
       /\ PastOk(ChatsOf(t), TenantRequests, granted, gwClock)
       /\ BucketOk(gwBucket[t], Cardinality(GrantedOf(t, granted)), gwClock)

GatewayInv == GatewayTypes /\ LimitersOk /\ BreakerOk

(* The constants, one by one. *)
LEMMA GatewayConstants ==
  /\ WindowSize \in Nat \ {0} /\ TenantRequests \in Nat \ {0} /\ GlobalRequests \in Nat \ {0}
  /\ TokensMax \in Nat \ {0} /\ TokenCost \in Nat \ {0} /\ GwThreshold \in Nat \ {0}
  /\ RefillRate \in Nat /\ Recovery \in Nat /\ LastTick \in Nat
  /\ IsFiniteSet(Chats) /\ \A c \in Chats : ChatTenant[c] \in GwTenants
BY GatewayAssumptions DEF GwTenants, Range

(* Sets of chats are finite. *)
LEMMA ChatSets ==
  ASSUME NEW cs \in SUBSET Chats
  PROVE  IsFiniteSet(cs) /\ Cardinality(cs) \in Nat
BY GatewayConstants, FS_Subset, FS_CardinalityType

(* The popleft loop drops a prefix of requests that have all left the window. *)
LEMMA LiveIsSuffix ==
  ASSUME NEW w \in Seq(Int), NEW cutoff \in Int
  PROVE  \E p \in 0 .. Len(w) :
           /\ LiveAfter(w, cutoff) = SubSeq(w, p + 1, Len(w))
           /\ p > 0 => w[p] <= cutoff
<1> DEFINE popped == {i \in DOMAIN w : \A j \in 1 .. i : w[j] <= cutoff}
           p == Cardinality(popped)
<1>1. Len(w) \in Nat /\ DOMAIN w = 1 .. Len(w)
  BY LenProperties
<1>2. IsFiniteSet(1 .. Len(w)) /\ Cardinality(1 .. Len(w)) = Len(w)
  BY <1>1, FS_Interval
<1>3. IsFiniteSet(popped) /\ p \in Nat /\ p <= Len(w)
  BY <1>1, <1>2, FS_Subset, FS_CardinalityType
<1>4. \A i \in popped : i \in 1 .. Len(w) /\ \A j \in 1 .. i : j \in popped
  <2> SUFFICES ASSUME NEW i \in popped, NEW j \in 1 .. i PROVE i \in 1 .. Len(w) /\ j \in popped
    BY <1>1
  <2>1. i \in 1 .. Len(w) /\ j \in 1 .. Len(w)
    BY <1>1
  <2>2. \A l \in 1 .. j : l \in 1 .. i
    BY <2>1
  <2> QED
    BY <1>1, <2>1, <2>2
<1>5. \A i \in popped : w[i] <= cutoff
  BY <1>1
<1>6. LiveAfter(w, cutoff) = SubSeq(w, p + 1, Len(w))
  BY DEF LiveAfter
<1> HIDE DEF popped
<1>7. ASSUME p > 0, p \notin popped PROVE FALSE
  <2>1. \A i \in popped : i \in 1 .. (p - 1)
    BY <1>1, <1>3, <1>4, <1>7
  <2>2. p - 1 \in Nat
    BY <1>3, <1>7
  <2>3. IsFiniteSet(1 .. (p - 1)) /\ Cardinality(1 .. (p - 1)) = p - 1
    <3> DEFINE m == p - 1
    <3> HIDE DEF m
    <3>1. IsFiniteSet(1 .. m) /\ Cardinality(1 .. m) = m
      BY <2>2, FS_Interval DEF m
    <3> QED
      BY <3>1 DEF m
  <2>4. Cardinality(popped) <= p - 1
    BY <2>1, <2>3, FS_Subset
  <2> QED
    BY <1>3, <2>4
<1>8. p \in 0 .. Len(w) /\ (p > 0 => w[p] <= cutoff)
  BY <1>1, <1>3, <1>5, <1>7
<1> QED
  BY <1>6, <1>8

(* What is left of a window after the loop is still a window. *)
LEMMA LiveKeeps ==
  ASSUME NEW w, NEW cs \in SUBSET Chats, NEW limit \in Nat, NEW g, gwClock \in Nat,
         WindowOk(w, cs, limit, g, gwClock)
  PROVE  WindowOk(Live(w), cs, limit, g, gwClock)
<1>1. w \in Seq(Int) /\ Len(w) \in Nat /\ Len(w) <= limit
  BY LenProperties DEF WindowOk
<1>2. gwClock - WindowSize \in Int
  BY GatewayConstants
<1>3. PICK p \in 0 .. Len(w) : /\ Live(w) = SubSeq(w, p + 1, Len(w))
                               /\ p > 0 => w[p] <= gwClock - WindowSize
  BY <1>1, <1>2, LiveIsSuffix DEF Live
<1> DEFINE u == Live(w)
<1>4. u \in Seq(Int) /\ Len(u) = Len(w) - p /\ \A k \in 1 .. Len(u) : u[k] = w[p + k]
  <2>1. SubSeq(w, p + 1, Len(w)) \in Seq(Int)
    BY <1>1, SubSeqProperties
  <2>2. Len(SubSeq(w, p + 1, Len(w))) = Len(w) - p
    BY <1>1, SubSeqProperties
  <2>3. \A k \in 1 .. Len(w) - p : SubSeq(w, p + 1, Len(w))[k] = w[p + k]
    BY <1>1, SubSeqProperties
  <2> QED
    BY <1>3, <2>1, <2>2, <2>3
<1>5. ASSUME NEW y \in Int, y >= gwClock - WindowSize
      PROVE  /\ Cardinality(GrantsAfter(cs, g, y)) <= Len(u)
             /\ \A k \in 1 .. Len(u) : u[k] <= y =>
                  Cardinality(GrantsAfter(cs, g, y)) <= Len(u) - k
  <2> DEFINE n == Cardinality(GrantsAfter(cs, g, y))
  <2>1. n \in Nat
    BY ChatSets DEF GrantsAfter
  <2>2. n <= Len(w) /\ \A k \in 1 .. Len(w) : w[k] <= y => n <= Len(w) - k
    BY <1>5 DEF WindowOk
  <2>3. \A k \in 1 .. Len(w) : w[k] \in Int
    BY <1>1, ElementOfSeq
  <2> HIDE DEF n, u
  <2>4. p > 0 => n <= Len(w) - p
    BY <1>1, <1>2, <1>3, <1>5, <2>2, <2>3
  <2>5. n <= Len(u)
    BY <1>1, <1>4, <2>1, <2>2, <2>4
  <2>6. ASSUME NEW k \in 1 .. Len(u), u[k] <= y PROVE n <= Len(u) - k
    <3>1. p + k \in 1 .. Len(w) /\ w[p + k] <= y
      <4>1. Len(u) \in Nat /\ Len(u) = Len(w) - p /\ k \in Nat
        BY <1>1, <1>4
      <4>2. p + k \in 1 .. Len(w)
        BY <1>1, <2>6, <4>1
      <4>3. u[k] = w[p + k]
        BY <1>4, <2>6
      <4> QED
        BY <2>6, <4>2, <4>3
    <3>2. n <= Len(w) - (p + k)
      BY <2>2, <3>1
    <3> QED
      BY <1>1, <1>4, <2>1, <2>6, <3>2
  <2> QED
    BY <2>5, <2>6 DEF n
<1> HIDE DEF u
<1>6. u \in Seq(Int) /\ Len(u) <= limit
  BY <1>1, <1>4
<1>7. WindowOk(u, cs, limit, g, gwClock)
  BY <1>5, <1>6 DEF WindowOk
<1> QED
  BY <1>7 DEF u

(* An allowed request is an entry of its own, whether or not the later tests grant it. *)
LEMMA AppendKeeps ==
  ASSUME NEW w, NEW cs \in SUBSET Chats, NEW limit \in Nat, NEW now \in Nat,
         NEW g \in [Chats -> Int], NEW h \in [Chats -> Int], NEW c \in Chats,
         WindowOk(w, cs, limit, g, now), Len(w) < limit,
         \A d \in Chats : h[d] <= now /\ (d # c => h[d] = g[d])
  PROVE  WindowOk(Append(w, now), cs, limit, h, now)
<1> DEFINE u == Append(w, now)
<1>1. w \in Seq(Int) /\ Len(w) \in Nat /\ now \in Int
  BY LenProperties DEF WindowOk
<1>2. /\ u \in Seq(Int) /\ Len(u) = Len(w) + 1 /\ u[Len(w) + 1] = now
      /\ \A k \in 1 .. Len(w) : u[k] = w[k]
  BY <1>1, AppendProperties
<1> HIDE DEF u
<1>3. ASSUME NEW y \in Int, y >= now - WindowSize
      PROVE  /\ Cardinality(GrantsAfter(cs, h, y)) <= Len(u)
             /\ \A k \in 1 .. Len(u) : u[k] <= y =>
                  Cardinality(GrantsAfter(cs, h, y)) <= Len(u) - k
  <2> DEFINE n == Cardinality(GrantsAfter(cs, g, y))
             m == Cardinality(GrantsAfter(cs, h, y))
  <2>1. /\ IsFiniteSet(GrantsAfter(cs, g, y)) /\ n \in Nat
        /\ IsFiniteSet(GrantsAfter(cs, h, y)) /\ m \in Nat
    BY ChatSets DEF GrantsAfter
  <2>2. m <= n + 1
    <3>1. GrantsAfter(cs, h, y) \subseteq GrantsAfter(cs, g, y) \cup {c}
      BY DEF GrantsAfter
    <3>2. /\ IsFiniteSet(GrantsAfter(cs, g, y) \cup {c})
          /\ Cardinality(GrantsAfter(cs, g, y) \cup {c}) = n
             \/ Cardinality(GrantsAfter(cs, g, y) \cup {c}) = n + 1
      BY <2>1, FS_AddElement
    <3>3. m <= Cardinality(GrantsAfter(cs, g, y) \cup {c})
      BY <3>1, <3>2, FS_Subset
    <3> QED
      BY <2>1, <3>2, <3>3
  <2>3. now <= y => m = 0
    <3>1. now <= y => GrantsAfter(cs, h, y) = {}
      BY DEF GrantsAfter
    <3> QED
      BY <3>1, FS_EmptySet
  <2>4. n <= Len(w) /\ \A k \in 1 .. Len(w) : w[k] <= y => n <= Len(w) - k
    BY <1>3 DEF WindowOk
  <2> HIDE DEF n, m
  <2>5. m <= Len(u)
    BY <1>1, <1>2, <2>1, <2>2, <2>4
  <2>6. ASSUME NEW k \in 1 .. Len(u), u[k] <= y PROVE m <= Len(u) - k
    <3>1. CASE k = Len(w) + 1
      BY <1>1, <1>2, <2>3, <2>6, <3>1
    <3>2. CASE k # Len(w) + 1
      <4>1. k \in 1 .. Len(w) /\ w[k] <= y
        BY <1>1, <1>2, <2>6, <3>2
      <4>2. n <= Len(w) - k
        BY <2>4, <4>1
      <4> QED
        BY <1>1, <1>2, <2>1, <2>2, <4>1, <4>2
    <3> QED
      BY <3>1, <3>2
  <2> QED
    BY <2>5, <2>6 DEF m
<1>4. Len(u) <= limit
  BY <1>1, <1>2
<1>5. WindowOk(u, cs, limit, h, now)
  BY <1>2, <1>3, <1>4 DEF WindowOk
<1> QED
  BY <1>5 DEF u

(* is_allowed keeps the window, and lets through no more than the limit. *)
LEMMA CountedKeeps ==
  ASSUME NEW w, NEW cs \in SUBSET Chats, NEW limit \in Nat, gwClock \in Nat,
         NEW g \in [Chats -> Int], NEW h \in [Chats -> Int], NEW c \in Chats,
         WindowOk(w, cs, limit, g, gwClock),
         \A d \in Chats : h[d] <= gwClock /\ (d # c => h[d] = g[d]),
         ~HasRoom(w, limit) => h = g
  PROVE  WindowOk(Counted(w, limit), cs, limit, h, gwClock)
<1>1. WindowOk(Live(w), cs, limit, g, gwClock)
  BY LiveKeeps
<1>2. CASE HasRoom(w, limit)
  <2>1. Len(Live(w)) < limit
    BY <1>2 DEF HasRoom
  <2>2. WindowOk(Append(Live(w), gwClock), cs, limit, h, gwClock)
    BY <1>1, <2>1, AppendKeeps
  <2> QED
    BY <1>2, <2>2 DEF Counted
<1>3. CASE ~HasRoom(w, limit)
  BY <1>1, <1>3 DEF Counted
<1> QED
  BY <1>2, <1>3

(* A window bounds the grants of the WindowSize ticks that end now. *)
LEMMA WindowBounds ==
  ASSUME NEW w, NEW cs \in SUBSET Chats, NEW limit \in Nat, NEW g, NEW now \in Nat,
         WindowOk(w, cs, limit, g, now)
  PROVE  Cardinality(GrantsIn(cs, g, now)) <= limit
<1>1. w \in Seq(Int) /\ Len(w) \in Nat /\ Len(w) <= limit
  BY LenProperties DEF WindowOk
<1>2. now - WindowSize \in Int
  BY GatewayConstants
<1>3. Cardinality(GrantsAfter(cs, g, now - WindowSize)) <= Len(w)
  BY <1>2 DEF WindowOk
<1>4. GrantsIn(cs, g, now) \subseteq GrantsAfter(cs, g, now - WindowSize)
  BY DEF GrantsIn, GrantsAfter
<1>5. /\ IsFiniteSet(GrantsAfter(cs, g, now - WindowSize))
      /\ Cardinality(GrantsAfter(cs, g, now - WindowSize)) \in Nat
      /\ Cardinality(GrantsIn(cs, g, now)) \in Nat
  BY ChatSets DEF GrantsAfter, GrantsIn
<1>6. Cardinality(GrantsIn(cs, g, now)) <= Cardinality(GrantsAfter(cs, g, now - WindowSize))
  BY <1>4, <1>5, FS_Subset
<1> QED
  BY <1>1, <1>3, <1>5, <1>6

(* A grant does not count in any WindowSize ticks that have ended. *)
LEMMA GrantKeepsPast ==
  ASSUME NEW w, NEW cs \in SUBSET Chats, NEW limit \in Nat, NEW now \in Nat,
         NEW g \in [Chats -> Int], NEW h \in [Chats -> Int],
         \A d \in Chats : h[d] = g[d] \/ h[d] = now,
         PastOk(cs, limit, g, now), WindowOk(w, cs, limit, h, now)
  PROVE  PastOk(cs, limit, h, now)
<1> SUFFICES ASSUME NEW x \in 0 .. now PROVE Cardinality(GrantsIn(cs, h, x)) <= limit
  BY DEF PastOk
<1>1. CASE x = now
  BY <1>1, WindowBounds
<1>2. CASE x # now
  <2>1. GrantsIn(cs, h, x) \subseteq GrantsIn(cs, g, x)
    BY <1>2 DEF GrantsIn
  <2>2. /\ IsFiniteSet(GrantsIn(cs, g, x)) /\ Cardinality(GrantsIn(cs, g, x)) \in Nat
        /\ Cardinality(GrantsIn(cs, h, x)) \in Nat
    BY ChatSets DEF GrantsIn
  <2>3. Cardinality(GrantsIn(cs, h, x)) <= Cardinality(GrantsIn(cs, g, x))
    BY <2>1, <2>2, FS_Subset
  <2>4. Cardinality(GrantsIn(cs, g, x)) <= limit
    BY DEF PastOk
  <2> QED
    BY <2>2, <2>3, <2>4
<1> QED
  BY <1>1, <1>2

(* A tick only moves the window on. *)
LEMMA WindowTicks ==
  ASSUME NEW w, NEW cs \in SUBSET Chats, NEW limit \in Nat, NEW g, NEW now \in Nat,
         WindowOk(w, cs, limit, g, now), PastOk(cs, limit, g, now)
  PROVE  WindowOk(w, cs, limit, g, now + 1) /\ PastOk(cs, limit, g, now + 1)
<1>1. \A y \in Int : y >= (now + 1) - WindowSize => y >= now - WindowSize
  BY GatewayConstants
<1>2. WindowOk(w, cs, limit, g, now + 1)
  BY <1>1 DEF WindowOk
<1>3. Cardinality(GrantsIn(cs, g, now + 1)) <= limit
  BY <1>2, WindowBounds
<1>4. \A x \in 0 .. (now + 1) : x \in 0 .. now \/ x = now + 1
  OBVIOUS
<1> QED
  BY <1>2, <1>3, <1>4 DEF PastOk

(* Products that the buckets' arithmetic needs. *)
LEMMA Products ==
  /\ \A a, b, q \in Nat : a <= b => /\ (b - a) * q \in Nat /\ a * q \in Nat
                                    /\ (b - a) * q + a * q = b * q /\ a * q <= b * q
  /\ \A q, n, m \in Nat : m <= n + 1 => q * m \in Nat /\ q * n \in Nat /\ q * m <= q * n + q
  /\ \A q, n, m \in Nat : m <= n => q * m <= q * n
<1>1. \A a, b, q \in Nat : a <= b => /\ (b - a) * q \in Nat /\ a * q \in Nat
                                    /\ (b - a) * q + a * q = b * q /\ a * q <= b * q
  <2> SUFFICES ASSUME NEW a \in Nat, NEW b \in Nat, NEW q \in Nat, a <= b
               PROVE  /\ (b - a) * q \in Nat /\ a * q \in Nat
                      /\ (b - a) * q + a * q = b * q /\ a * q <= b * q
    OBVIOUS
  <2>1. b - a \in Nat /\ (b - a) * q \in Nat /\ a * q \in Nat /\ b * q \in Nat
    BY SMT
  <2>2. (b - a) * q + a * q = b * q
    BY SMT
  <2> QED
    BY <2>1, <2>2
<1>2. \A q, n, m \in Nat : m <= n => q * m <= q * n
  <2> SUFFICES ASSUME NEW q \in Nat, NEW n \in Nat, NEW m \in Nat, m <= n PROVE q * m <= q * n
    OBVIOUS
  <2>1. n - m \in Nat /\ q * (n - m) \in Nat /\ q * m \in Nat /\ q * n \in Nat
    BY SMT
  <2>2. q * (n - m) + q * m = q * n
    BY SMT
  <2> QED
    BY <2>1, <2>2
<1>3. \A q, n, m \in Nat : m <= n + 1 => q * m \in Nat /\ q * n \in Nat /\ q * m <= q * n + q
  <2> SUFFICES ASSUME NEW q \in Nat, NEW n \in Nat, NEW m \in Nat, m <= n + 1
               PROVE  q * m \in Nat /\ q * n \in Nat /\ q * m <= q * n + q
    OBVIOUS
  <2>1. q * m \in Nat /\ q * n \in Nat /\ n + 1 \in Nat
    BY SMT
  <2>2. q * m <= q * (n + 1)
    BY <1>2, <2>1
  <2>3. q * (n + 1) = q * n + q
    BY SMT
  <2> QED
    BY <2>1, <2>2, <2>3
<1> QED
  BY <1>1, <1>2, <1>3

(* Refilling a bucket up to now keeps what it holds and has given within what it can have
   held, and so does taking the cost of one more grant. *)
LEMMA RefillKeeps ==
  ASSUME NEW b \in [tokens : Nat, last : Nat], NEW n \in Nat, NEW m \in Nat, NEW take \in {0, TokenCost},
         gwClock \in Nat, BucketOk(b, n, gwClock), take <= Refill(b),
         m <= n \/ (take = TokenCost /\ m <= n + 1)
  PROVE  /\ Refill(b) - take \in Nat
         /\ BucketOk([tokens |-> Refill(b) - take, last |-> gwClock], m, gwClock)
<1> DEFINE gained == (gwClock - b.last) * RefillRate
           before == b.last * RefillRate
           total == gwClock * RefillRate
           paid == TokenCost * n
           pays == TokenCost * m
           r == Refill(b)
<1>1. /\ b.tokens \in Nat /\ b.last \in Nat /\ b.last <= gwClock
      /\ b.tokens + paid <= TokensMax + before
  BY DEF BucketOk
<1>2. TokensMax \in Nat /\ TokenCost \in Nat /\ RefillRate \in Nat /\ take \in Nat
  BY GatewayConstants
<1>3. gained \in Nat /\ before \in Nat /\ gained + before = total /\ before <= total
  BY <1>1, <1>2, Products
<1>4. paid \in Nat /\ pays \in Nat /\ pays <= paid + take
  <2>1. CASE m <= n
    BY <1>2, <2>1, Products
  <2>2. CASE take = TokenCost /\ m <= n + 1
    BY <1>2, <2>2, Products
  <2> QED
    BY <2>1, <2>2
<1>5. r = IF b.tokens + gained > TokensMax THEN TokensMax ELSE b.tokens + gained
  BY DEF Refill
<1> HIDE DEF gained, before, total, paid, pays, r
<1>6. r \in Nat /\ r <= b.tokens + gained
  BY <1>1, <1>2, <1>3, <1>5
<1>7. r - take \in Nat
  BY <1>2, <1>6 DEF r
<1>8. (r - take) + pays <= TokensMax + total
  BY <1>1, <1>2, <1>3, <1>4, <1>6, <1>7
<1>9. BucketOk([tokens |-> r - take, last |-> gwClock], m, gwClock)
  BY <1>8 DEF BucketOk, total, pays
<1> QED
  BY <1>7, <1>9 DEF r

(* The gateway that has seen no request satisfies its invariant. *)
LEMMA GatewayStarts == GatewayInit => GatewayInv
<1> SUFFICES ASSUME GatewayInit PROVE GatewayInv
  OBVIOUS
<1>1. GatewayTypes
  <2>1. gwClock \in Nat /\ granted \in [Chats -> Int] /\ \A c \in Chats : granted[c] <= gwClock
    BY DEF GatewayInit
  <2>2. tenantWindow \in [GwTenants -> Seq(Int)]
    BY DEF GatewayInit
  <2>3. gwBucket \in [GwTenants -> [tokens : Nat, last : Nat]]
    BY GatewayConstants DEF GatewayInit
  <2>4. /\ gwBreaker \in [state : {"closed", "open", "half_open"}, failures : Nat, last : Nat]
        /\ lateSuccess \in BOOLEAN
    BY DEF GatewayInit
  <2> QED
    BY <2>1, <2>2, <2>3, <2>4 DEF GatewayTypes
<1>2. ASSUME NEW cs \in SUBSET Chats, NEW y \in Int
      PROVE  Cardinality(GrantsAfter(cs, granted, y)) = 0 /\ Cardinality(GrantsIn(cs, granted, y)) = 0
  <2>1. GrantsAfter(cs, granted, y) = {} /\ GrantsIn(cs, granted, y) = {}
    BY DEF GatewayInit, GrantsAfter, GrantsIn
  <2> QED
    BY <2>1, FS_EmptySet
<1>3. ASSUME NEW cs \in SUBSET Chats, NEW limit \in Nat
      PROVE  WindowOk(<<>>, cs, limit, granted, gwClock) /\ PastOk(cs, limit, granted, gwClock)
  <2>1. <<>> \in Seq(Int) /\ Len(<<>>) = 0
    OBVIOUS
  <2>2. WindowOk(<<>>, cs, limit, granted, gwClock)
    BY <1>2, <2>1 DEF WindowOk
  <2>3. PastOk(cs, limit, granted, gwClock)
    BY <1>2 DEF PastOk
  <2> QED
    BY <2>2, <2>3
<1>4. ASSUME NEW t \in GwTenants
      PROVE  BucketOk(gwBucket[t], Cardinality(GrantedOf(t, granted)), gwClock)
  <2>1. GrantedOf(t, granted) = {}
    BY DEF GatewayInit, GrantedOf, ChatsOf
  <2>2. Cardinality(GrantedOf(t, granted)) = 0
    BY <2>1, FS_EmptySet
  <2>3. gwBucket[t] = [tokens |-> TokensMax, last |-> 0] /\ gwClock = 0
    BY DEF GatewayInit
  <2> QED
    BY <2>2, <2>3, GatewayConstants DEF BucketOk
<1>5. \A t \in GwTenants : ChatsOf(t) \in SUBSET Chats
  BY DEF ChatsOf
<1>6. LimitersOk
  BY <1>3, <1>4, <1>5, GatewayConstants DEF GatewayInit, LimitersOk
<1>7. BreakerOk
  BY GatewayConstants DEF GatewayInit, BreakerOk
<1> QED
  BY <1>1, <1>6, <1>7 DEF GatewayInv

(* Grants to the chats of other tenants change nothing for cs. *)
LEMMA SameGrants ==
  ASSUME NEW cs \in SUBSET Chats, NEW limit, NEW w, NEW now, NEW g, NEW h,
         \A d \in cs : h[d] = g[d]
  PROVE  /\ WindowOk(w, cs, limit, g, now) => WindowOk(w, cs, limit, h, now)
         /\ PastOk(cs, limit, g, now) => PastOk(cs, limit, h, now)
<1>1. \A y : GrantsAfter(cs, h, y) = GrantsAfter(cs, g, y) /\ GrantsIn(cs, h, y) = GrantsIn(cs, g, y)
  BY DEF GrantsAfter, GrantsIn
<1> QED
  BY <1>1 DEF WindowOk, PastOk

(* A request is counted by every limiter it passes, and granted only by all of them. *)
LEMMA RequestKeepsLimiters ==
  ASSUME GatewayTypes, LimitersOk, NEW c \in Chats, Request(c)
  PROVE  /\ LimitersOk'
         /\ granted' \in [Chats -> Int] /\ \A d \in Chats : granted'[d] <= gwClock
         /\ tenantWindow' \in [GwTenants -> Seq(Int)]
         /\ gwBucket' \in [GwTenants -> [tokens : Nat, last : Nat]]
<1> DEFINE t == ChatTenant[c]
           roomy == HasRoom(globalWindow, GlobalRequests)
           tenantRoom == roomy /\ HasRoom(tenantWindow[t], TenantRequests)
           enough == tenantRoom /\ Refill(gwBucket[t]) >= TokenCost
           take == IF enough THEN TokenCost ELSE 0
<1>1. /\ globalWindow' = Counted(globalWindow, GlobalRequests)
      /\ tenantWindow' = (IF roomy THEN [tenantWindow EXCEPT ![t] = Counted(tenantWindow[t], TenantRequests)]
                          ELSE tenantWindow)
      /\ gwBucket' = (IF tenantRoom
                      THEN [gwBucket EXCEPT ![t] = [tokens |-> Refill(gwBucket[t]) - take,
                                                    last |-> gwClock]]
                      ELSE gwBucket)
      /\ granted' = (IF enough THEN [granted EXCEPT ![c] = gwClock] ELSE granted)
      /\ gwClock' = gwClock
  BY DEF Request
<1>2. /\ t \in GwTenants /\ gwClock \in Nat /\ granted \in [Chats -> Int]
      /\ \A d \in Chats : granted[d] <= gwClock
      /\ tenantWindow \in [GwTenants -> Seq(Int)]
      /\ gwBucket \in [GwTenants -> [tokens : Nat, last : Nat]]
  BY GatewayConstants DEF GatewayTypes
<1>3. GlobalRequests \in Nat /\ TenantRequests \in Nat /\ TokenCost \in Nat
  BY GatewayConstants
<1>4. /\ ~roomy => ~tenantRoom /\ ~enough
      /\ ~tenantRoom => ~enough
      /\ ~HasRoom(tenantWindow[t], TenantRequests) => ~enough
      /\ ~HasRoom(globalWindow, GlobalRequests) => ~roomy
      /\ enough => Refill(gwBucket[t]) >= TokenCost
      /\ take \in {0, TokenCost} /\ (enough => take = TokenCost) /\ (~enough => take = 0)
  OBVIOUS
<1> HIDE DEF roomy, tenantRoom, enough, take, t
<1>5. /\ granted' \in [Chats -> Int]
      /\ \A d \in Chats : /\ granted'[d] <= gwClock /\ (d # c => granted'[d] = granted[d])
                          /\ granted'[d] = granted[d] \/ granted'[d] = gwClock
      /\ ~enough => granted' = granted
  BY <1>1, <1>2
<1>6. /\ WindowOk(globalWindow', Chats, GlobalRequests, granted', gwClock)
      /\ PastOk(Chats, GlobalRequests, granted', gwClock)
  <2>1. /\ WindowOk(globalWindow, Chats, GlobalRequests, granted, gwClock)
        /\ PastOk(Chats, GlobalRequests, granted, gwClock)
    BY DEF LimitersOk
  <2>2. ~HasRoom(globalWindow, GlobalRequests) => granted' = granted
    BY <1>4, <1>5
  <2>3. WindowOk(Counted(globalWindow, GlobalRequests), Chats, GlobalRequests, granted', gwClock)
    BY <1>2, <1>3, <1>5, <2>1, <2>2, CountedKeeps
  <2>4. WindowOk(globalWindow', Chats, GlobalRequests, granted', gwClock)
    BY <1>1, <2>3
  <2> QED
    BY <1>2, <1>3, <1>5, <2>1, <2>4, GrantKeepsPast
<1>7. ASSUME NEW s \in GwTenants
      PROVE  /\ WindowOk(tenantWindow'[s], ChatsOf(s), TenantRequests, granted', gwClock)
             /\ PastOk(ChatsOf(s), TenantRequests, granted', gwClock)
             /\ BucketOk(gwBucket'[s], Cardinality(GrantedOf(s, granted')), gwClock)
             /\ tenantWindow'[s] \in Seq(Int) /\ gwBucket'[s] \in [tokens : Nat, last : Nat]
  <2>1. /\ WindowOk(tenantWindow[s], ChatsOf(s), TenantRequests, granted, gwClock)
        /\ PastOk(ChatsOf(s), TenantRequests, granted, gwClock)
        /\ BucketOk(gwBucket[s], Cardinality(GrantedOf(s, granted)), gwClock)
    BY DEF LimitersOk
  <2>2. ChatsOf(s) \in SUBSET Chats
    BY DEF ChatsOf
  <2>3. CASE s # t
    <3>1. \A d \in ChatsOf(s) : granted'[d] = granted[d]
      BY <1>5, <2>3 DEF ChatsOf, t
    <3>2. tenantWindow'[s] = tenantWindow[s] /\ gwBucket'[s] = gwBucket[s]
      BY <1>1, <1>2, <2>3
    <3>3. GrantedOf(s, granted') = GrantedOf(s, granted)
      BY <3>1 DEF GrantedOf
    <3>4. /\ WindowOk(tenantWindow[s], ChatsOf(s), TenantRequests, granted', gwClock)
          /\ PastOk(ChatsOf(s), TenantRequests, granted', gwClock)
      BY <2>1, <2>2, <3>1, SameGrants
    <3> QED
      BY <1>2, <2>1, <3>2, <3>3, <3>4
  <2>4. CASE s = t
    <3>1. /\ WindowOk(tenantWindow'[s], ChatsOf(s), TenantRequests, granted', gwClock)
      <4>1. CASE roomy
        <5>1. tenantWindow'[s] = Counted(tenantWindow[s], TenantRequests)
          BY <1>1, <1>2, <2>4, <4>1
        <5>2. ~HasRoom(tenantWindow[s], TenantRequests) => granted' = granted
          BY <1>4, <1>5, <2>4
        <5>3. WindowOk(Counted(tenantWindow[s], TenantRequests), ChatsOf(s), TenantRequests, granted', gwClock)
          BY <1>2, <1>3, <1>5, <2>1, <2>2, <5>2, CountedKeeps
        <5> QED
          BY <5>1, <5>3
      <4>2. CASE ~roomy
        BY <1>1, <1>4, <1>5, <2>1, <4>2
      <4> QED
        BY <4>1, <4>2
    <3>2. PastOk(ChatsOf(s), TenantRequests, granted', gwClock)
      BY <1>2, <1>3, <1>5, <2>1, <2>2, <3>1, GrantKeepsPast
    <3>3. /\ BucketOk(gwBucket'[s], Cardinality(GrantedOf(s, granted')), gwClock)
          /\ gwBucket'[s] \in [tokens : Nat, last : Nat]
      <4>1. CASE ~tenantRoom
        BY <1>1, <1>2, <1>4, <1>5, <2>1, <4>1
      <4>2. CASE tenantRoom
        <5> DEFINE n == Cardinality(GrantedOf(s, granted))
                   m == Cardinality(GrantedOf(s, granted'))
        <5>1. IsFiniteSet(GrantedOf(s, granted)) /\ n \in Nat /\ m \in Nat
          BY ChatSets DEF GrantedOf, ChatsOf
        <5>2. m <= n + 1
          <6>1. GrantedOf(s, granted') \subseteq GrantedOf(s, granted) \cup {c}
            BY <1>5 DEF GrantedOf, ChatsOf
          <6>2. /\ IsFiniteSet(GrantedOf(s, granted) \cup {c})
                /\ Cardinality(GrantedOf(s, granted) \cup {c}) = n
                   \/ Cardinality(GrantedOf(s, granted) \cup {c}) = n + 1
            BY <5>1, FS_AddElement
          <6>3. m <= Cardinality(GrantedOf(s, granted) \cup {c})
            BY <6>1, <6>2, FS_Subset
          <6> QED
            BY <5>1, <6>2, <6>3
        <5>3. ~enough => m <= n
          BY <1>5, <5>1
        <5>4. m <= n \/ (take = TokenCost /\ m <= n + 1)
          BY <1>4, <5>2, <5>3
        <5>5. gwBucket[s] \in [tokens : Nat, last : Nat]
          BY <1>2
        <5>6. Refill(gwBucket[s]) \in Nat
          <6>1. BucketOk(gwBucket[s], n, gwClock) /\ gwBucket[s].last \in Nat /\ gwBucket[s].tokens \in Nat
            BY <2>1, <5>5
          <6>2. gwBucket[s].last <= gwClock /\ RefillRate \in Nat /\ TokensMax \in Nat
            BY <6>1, GatewayConstants DEF BucketOk
          <6>3. (gwClock - gwBucket[s].last) * RefillRate \in Nat
            BY <1>2, <6>1, <6>2, Products
          <6> QED
            BY <6>1, <6>2, <6>3 DEF Refill
        <5>7. take <= Refill(gwBucket[s])
          BY <1>3, <1>4, <2>4, <5>6
        <5> HIDE DEF n, m
        <5>8. /\ Refill(gwBucket[s]) - take \in Nat
              /\ BucketOk([tokens |-> Refill(gwBucket[s]) - take, last |-> gwClock], m, gwClock)
          BY <1>2, <1>4, <2>1, <5>1, <5>4, <5>5, <5>7, RefillKeeps DEF n
        <5>9. gwBucket'[s] = [tokens |-> Refill(gwBucket[s]) - take, last |-> gwClock]
          BY <1>1, <1>2, <2>4, <4>2
        <5> QED
          BY <1>2, <5>8, <5>9 DEF m
      <4> QED
        BY <4>1, <4>2
    <3>4. tenantWindow'[s] \in Seq(Int)
      BY <3>1 DEF WindowOk
    <3> QED
      BY <3>1, <3>2, <3>3, <3>4
  <2> QED
    BY <2>3, <2>4
<1>8. LimitersOk'
  BY <1>1, <1>6, <1>7 DEF LimitersOk
<1>9. tenantWindow' \in [GwTenants -> Seq(Int)]
  <2>1. tenantWindow' = [s \in GwTenants |-> tenantWindow'[s]]
    BY <1>1, <1>2
  <2> QED
    BY <1>7, <2>1
<1>10. gwBucket' \in [GwTenants -> [tokens : Nat, last : Nat]]
  <2>1. gwBucket' = [s \in GwTenants |-> gwBucket'[s]]
    BY <1>1, <1>2
  <2> QED
    BY <1>7, <2>1
<1> QED
  BY <1>5, <1>8, <1>9, <1>10

(* Time passing keeps the limiters. *)
LEMMA TickKeepsLimiters ==
  ASSUME GatewayTypes, LimitersOk, GatewayTick
  PROVE  LimitersOk'
<1>1. /\ gwClock \in Nat /\ gwClock' = gwClock + 1 /\ granted' = granted
      /\ globalWindow' = globalWindow /\ tenantWindow' = tenantWindow /\ gwBucket' = gwBucket
  BY DEF GatewayTypes, GatewayTick
<1>2. GlobalRequests \in Nat /\ TenantRequests \in Nat
  BY GatewayConstants
<1>3. /\ WindowOk(globalWindow, Chats, GlobalRequests, granted, gwClock + 1)
      /\ PastOk(Chats, GlobalRequests, granted, gwClock + 1)
  BY <1>1, <1>2, WindowTicks DEF LimitersOk
<1>4. ASSUME NEW s \in GwTenants
      PROVE  /\ WindowOk(tenantWindow[s], ChatsOf(s), TenantRequests, granted, gwClock + 1)
             /\ PastOk(ChatsOf(s), TenantRequests, granted, gwClock + 1)
             /\ BucketOk(gwBucket[s], Cardinality(GrantedOf(s, granted)), gwClock + 1)
  <2>1. ChatsOf(s) \in SUBSET Chats
    BY DEF ChatsOf
  <2>2. /\ WindowOk(tenantWindow[s], ChatsOf(s), TenantRequests, granted, gwClock)
        /\ PastOk(ChatsOf(s), TenantRequests, granted, gwClock)
        /\ BucketOk(gwBucket[s], Cardinality(GrantedOf(s, granted)), gwClock)
    BY DEF LimitersOk
  <2>3. gwBucket[s].last \in Nat
    BY DEF GatewayTypes
  <2>4. BucketOk(gwBucket[s], Cardinality(GrantedOf(s, granted)), gwClock + 1)
    BY <1>1, <2>2, <2>3 DEF BucketOk
  <2> QED
    BY <1>1, <1>2, <2>1, <2>2, <2>4, WindowTicks
<1> QED
  BY <1>1, <1>3, <1>4 DEF LimitersOk

(* Every step of the gateway keeps the invariant. *)
LEMMA GatewaySteps == GatewayInv /\ [GatewayNext]_gatewayVars => GatewayInv'
<1> SUFFICES ASSUME GatewayInv, [GatewayNext]_gatewayVars PROVE GatewayInv'
  OBVIOUS
<1> DEFINE B == [state : {"closed", "open", "half_open"}, failures : Nat, last : Nat]
<1>1. GatewayTypes /\ LimitersOk /\ BreakerOk /\ gwBreaker \in B /\ lateSuccess \in BOOLEAN
      /\ gwClock \in Nat
  BY DEF GatewayInv, GatewayTypes
<1>2. GwThreshold \in Nat \ {0}
  BY GatewayConstants
<1>3. ASSUME NEW c \in Chats, Request(c) PROVE GatewayInv'
  <2>1. gwBreaker' = gwBreaker \/
        (gwBreaker.state = "open" /\ gwBreaker' = [gwBreaker EXCEPT !.state = "half_open"])
    <3>1. \/ gwBreaker' = gwBreaker
          \/ gwBreaker' = [gwBreaker EXCEPT !.state = IF gwBreaker.state = "open" THEN "half_open"
                                                      ELSE gwBreaker.state]
      BY <1>3 DEF Request
    <3>2. CASE gwBreaker.state = "open"
      BY <3>1, <3>2
    <3>3. CASE gwBreaker.state # "open"
      BY <1>1, <3>1, <3>3
    <3> QED
      BY <3>2, <3>3
  <2>2. gwClock' = gwClock /\ lateSuccess' = lateSuccess
    BY <1>3 DEF Request
  <2>3. gwBreaker' \in B /\ BreakerOk'
    BY <1>1, <2>1, <2>2 DEF BreakerOk
  <2>4. /\ LimitersOk' /\ granted' \in [Chats -> Int] /\ \A d \in Chats : granted'[d] <= gwClock
        /\ tenantWindow' \in [GwTenants -> Seq(Int)]
        /\ gwBucket' \in [GwTenants -> [tokens : Nat, last : Nat]]
    BY <1>1, <1>3, RequestKeepsLimiters
  <2>5. GatewayTypes'
    BY <1>1, <2>2, <2>3, <2>4 DEF GatewayTypes
  <2> QED
    BY <2>3, <2>4, <2>5 DEF GatewayInv
<1>4. ASSUME UNCHANGED <<gwClock, globalWindow, tenantWindow, gwBucket, granted>>
      PROVE  LimitersOk' /\ (gwBreaker' \in B /\ lateSuccess' \in BOOLEAN => GatewayTypes')
  BY <1>1, <1>4 DEF LimitersOk, GatewayTypes
<1>5. ASSUME NEW c \in Chats, Completes(c) PROVE GatewayInv'
  <2> DEFINE st == IF gwBreaker.state = "half_open" THEN "closed" ELSE gwBreaker.state
  <2>1. /\ gwBreaker' = [gwBreaker EXCEPT !.failures = 0, !.state = st]
        /\ lateSuccess' = (gwBreaker'.state = "open")
    BY <1>5 DEF Completes
  <2>2. st \in {"closed", "open"}
    BY <1>1
  <2> HIDE DEF st
  <2>3. gwBreaker' \in B /\ gwBreaker'.state = st /\ gwBreaker'.failures = 0
    BY <1>1, <2>1, <2>2
  <2>4. lateSuccess' \in BOOLEAN /\ (gwBreaker'.state = "open" => lateSuccess')
    BY <2>1
  <2>5. BreakerOk'
    BY <1>2, <2>2, <2>3, <2>4 DEF BreakerOk
  <2> QED
    BY <1>4, <1>5, <2>3, <2>4, <2>5 DEF Completes, GatewayInv
<1>6. ASSUME NEW c \in Chats, Fails(c) PROVE GatewayInv'
  <2> DEFINE n == gwBreaker.failures + 1
  <2>1. /\ gwBreaker' = [state |-> IF n >= GwThreshold THEN "open" ELSE gwBreaker.state,
                         failures |-> n, last |-> gwClock]
        /\ lateSuccess' = (lateSuccess /\ n < GwThreshold)
    BY <1>6 DEF Fails
  <2>2. n \in Nat /\ gwBreaker.failures \in Nat /\ gwBreaker.state \in {"closed", "open", "half_open"}
    BY <1>1
  <2>3. gwBreaker' \in B
    BY <1>1, <2>1, <2>2
  <2>4. lateSuccess' \in BOOLEAN
    BY <2>1
  <2>5. BreakerOk'
    <3>1. CASE n >= GwThreshold
      <4>1. gwBreaker'.state = "open" /\ gwBreaker'.failures = n
        BY <2>1, <3>1
      <4> QED
        BY <3>1, <4>1 DEF BreakerOk
    <3>2. CASE ~(n >= GwThreshold)
      <4>1. gwBreaker'.state = gwBreaker.state /\ gwBreaker'.failures = n
        BY <2>1, <3>2
      <4>2. n < GwThreshold
        BY <1>2, <2>2, <3>2
      <4>3. lateSuccess' = lateSuccess
        BY <1>1, <2>1, <4>2
      <4>4. gwBreaker.failures < GwThreshold
        BY <1>2, <2>2, <4>2
      <4>5. ~(gwBreaker.failures >= GwThreshold)
        BY <1>2, <2>2, <4>4
      <4> QED
        BY <1>1, <4>1, <4>2, <4>3, <4>5 DEF BreakerOk
    <3> QED
      BY <3>1, <3>2
  <2> QED
    BY <1>4, <1>6, <2>3, <2>4, <2>5 DEF Fails, GatewayInv
<1>7. ASSUME NEW c \in Chats, ChatTimesOut(c) \/ \E ok \in BOOLEAN : SendReply(c, ok)
      PROVE  GatewayInv'
  <2>1. UNCHANGED <<gwClock, globalWindow, tenantWindow, gwBucket, gwBreaker, granted, lateSuccess>>
    BY <1>7 DEF ChatTimesOut, SendReply
  <2> QED
    BY <1>1, <1>4, <2>1 DEF GatewayInv, BreakerOk
<1>8. CASE GatewayTick
  <2>1. LimitersOk'
    BY <1>1, <1>8, TickKeepsLimiters
  <2>2. GatewayTypes'
    BY <1>1, <1>8 DEF GatewayTypes, GatewayTick
  <2> QED
    BY <1>1, <1>8, <2>1, <2>2 DEF GatewayInv, BreakerOk, GatewayTick
<1>9. CASE UNCHANGED gatewayVars
  BY <1>1, <1>4, <1>9 DEF gatewayVars, GatewayInv, BreakerOk
<1> QED
  BY <1>3, <1>5, <1>6, <1>7, <1>8, <1>9 DEF GatewayNext

(* The invariant bounds the grants of any WindowSize ticks and of each bucket. *)
LEMMA GatewayBounds == GatewayInv => GatewayHolds
<1> SUFFICES ASSUME GatewayInv PROVE GatewayHolds
  OBVIOUS
<1>1. ASSUME NEW x \in 0 .. gwClock
      PROVE  /\ Within({c \in Chats : granted[c] >= 0}, x) <= GlobalRequests
             /\ \A t \in GwTenants :
                  Within({c \in Chats : granted[c] >= 0 /\ ChatTenant[c] = t}, x) <= TenantRequests
  <2>1. {c \in {d \in Chats : granted[d] >= 0} : granted[c] > x - WindowSize /\ granted[c] <= x}
          = GrantsIn(Chats, granted, x)
    BY DEF GrantsIn
  <2>2. \A t \in GwTenants :
          {c \in {d \in Chats : granted[d] >= 0 /\ ChatTenant[d] = t} :
             granted[c] > x - WindowSize /\ granted[c] <= x} = GrantsIn(ChatsOf(t), granted, x)
    BY DEF GrantsIn, ChatsOf
  <2> QED
    BY <2>1, <2>2 DEF Within, GatewayInv, LimitersOk, PastOk
<1>2. ASSUME NEW t \in GwTenants
      PROVE  TokenCost * Cardinality({c \in Chats : granted[c] >= 0 /\ ChatTenant[c] = t})
               <= TokensMax + gwClock * RefillRate
  <2> DEFINE n == Cardinality(GrantedOf(t, granted))
             b == gwBucket[t]
  <2>1. {c \in Chats : granted[c] >= 0 /\ ChatTenant[c] = t} = GrantedOf(t, granted)
    BY DEF GrantedOf, ChatsOf
  <2>2. n \in Nat
    BY ChatSets DEF GrantedOf, ChatsOf
  <2>3. b.last <= gwClock /\ b.tokens + TokenCost * n <= TokensMax + b.last * RefillRate
    BY DEF GatewayInv, LimitersOk, BucketOk
  <2>4. b.tokens \in Nat /\ b.last \in Nat /\ gwClock \in Nat
    BY DEF GatewayInv, GatewayTypes
  <2>5. TokenCost \in Nat /\ TokensMax \in Nat /\ RefillRate \in Nat
    BY GatewayConstants
  <2> HIDE DEF b, n
  <2>6. b.last * RefillRate <= gwClock * RefillRate /\ b.last * RefillRate \in Nat
        /\ gwClock * RefillRate \in Nat
    BY <2>3, <2>4, <2>5, Products
  <2>7. TokenCost * n \in Nat
    BY <2>2, <2>5, Products
  <2>8. TokenCost * n <= TokensMax + gwClock * RefillRate
    BY <2>3, <2>4, <2>5, <2>6, <2>7
  <2> QED
    BY <2>1, <2>8 DEF n
<1> QED
  BY <1>1, <1>2 DEF GatewayHolds, GatewayInv, BreakerOk
-----------------------------------------------------------------------------
(* The developer scripts.                                                    *)

StackTypes ==
  /\ process \in [StackPids -> StackServices \cup {"none", "other"}]
  /\ pidFile \in [StackServices -> StackPids \cup {0}]
  /\ script \in [name : {"none", "start", "stop"}, at : Nat, stage : {"next", "alive", "signalled"}]
  /\ lastScript \in {"none", "start", "stop"}

\* A process of the stack is named by its service's pid file, or is lost
FilesName ==
  \A p \in StackPids : process[p] \in StackServices => p \in untracked \/ pidFile[process[p]] = p

\* stop-local-dev.sh has taken away the files of the services it is past
StopIsPast ==
  script.name = "stop" => \A k \in 1 .. 3 : k < script.at => pidFile[Stack[4 - k]] = 0

\* Where a script is, and what has been left when stop-local-dev.sh has ended
ScriptIsAt ==
  /\ script.name # "none" => script.at >= 1
  /\ script.stage # "next" =>
       script.name = "stop" /\ script.at <= 3 /\ pidFile[Turn] \in StackPids
  /\ lastScript = "stop" => script.name = "none" /\ \A s \in StackServices : pidFile[s] = 0

StackInv == StackTypes /\ FilesName /\ StopIsPast /\ ScriptIsAt /\ pidFile["app"] = 0

(* The three services, and the one the running script has come to. *)
LEMMA StackTurns ==
  /\ Len(Stack) = 3 /\ Stack[1] = "nats" /\ Stack[2] = "app" /\ Stack[3] = "web"
  /\ \A k \in 1 .. 3 : Stack[k] \in StackServices
  /\ \A s \in StackServices : \E k \in 1 .. 3 : s = Stack[4 - k]
  /\ \A k, j \in 1 .. 3 : k # j => Stack[4 - k] # Stack[4 - j]
<1>1. Len(Stack) = 3 /\ Stack[1] = "nats" /\ Stack[2] = "app" /\ Stack[3] = "web"
  BY DEF Stack
<1>2. \A k \in 1 .. 3 : k = 1 \/ k = 2 \/ k = 3
  OBVIOUS
<1>3. 4 - 1 = 3 /\ 4 - 2 = 2 /\ 4 - 3 = 1
  OBVIOUS
<1> QED
  BY <1>1, <1>2, <1>3 DEF StackServices

(* Where a script is at a service, the service is the one of its position. *)
LEMMA TurnOf ==
  ASSUME StackTypes, ScriptIsAt, script.name # "none", script.at <= 3
  PROVE  /\ script.at \in 1 .. 3 /\ Turn \in StackServices
         /\ script.name = "stop" => Turn = Stack[4 - script.at]
<1>1. script.at \in 1 .. 3
  BY DEF StackTypes, ScriptIsAt
<1>2. script.name = "stop" => Turn = Stack[4 - script.at]
  <2>1. Len(Stack) + 1 - script.at = 4 - script.at
    BY <1>1, StackTurns
  <2> QED
    BY <2>1 DEF Turn
<1>3. script.name = "start" => Turn = Stack[script.at]
  BY DEF Turn
<1>4. 4 - script.at \in 1 .. 3
  BY <1>1
<1> QED
  BY <1>1, <1>2, <1>3, <1>4, StackTurns DEF StackTypes

(* A machine without the stack satisfies the invariant. *)
LEMMA StackStarts == StackInit => StackInv
BY DEF StackInit, StackInv, StackTypes, FilesName, StopIsPast, ScriptIsAt, StackServices, NoScript

(* A script that goes on to the next service, or ends. *)
LEMMA NextTurnFields ==
  ASSUME StackTypes
  PROVE  /\ NextTurn \in [name : {"none", "start", "stop"}, at : Nat, stage : {"next", "alive", "signalled"}]
         /\ NextTurn.name = script.name /\ NextTurn.at = script.at + 1 /\ NextTurn.stage = "next"
         /\ NoScript \in [name : {"none", "start", "stop"}, at : Nat, stage : {"next", "alive", "signalled"}]
         /\ NoScript.name = "none" /\ NoScript.stage = "next"
<1> DEFINE R == [name : {"none", "start", "stop"}, at : Nat, stage : {"next", "alive", "signalled"}]
<1>1. script \in R /\ script.at + 1 \in Nat
  BY DEF StackTypes
<1>2. NextTurn = [script EXCEPT !.at = script.at + 1, !.stage = "next"]
  BY DEF NextTurn
<1>3. NextTurn \in R
  BY <1>1, <1>2
<1>4. NextTurn.name = script.name /\ NextTurn.at = script.at + 1 /\ NextTurn.stage = "next"
  BY <1>1, <1>2
<1>5. NoScript \in R /\ NoScript.name = "none" /\ NoScript.stage = "next"
  BY DEF NoScript
<1> QED
  BY <1>3, <1>4, <1>5

(* The processes may end, bind or begin under the scripts' hands: no file changes. *)
LEMMA ProcessesKeep ==
  ASSUME StackInv, NEW p \in StackPids, pidFile' = pidFile, script' = script, lastScript' = lastScript,
         \/ process' = [process EXCEPT ![p] = "none"] /\ untracked' = untracked \ {p}
         \/ process' = [process EXCEPT ![p] = "other"] /\ process[p] = "none" /\ untracked' = untracked
         \/ process' = process /\ untracked' = untracked
  PROVE  StackInv'
<1>1. StackTypes'
  BY DEF StackInv, StackTypes
<1>2. FilesName'
  BY DEF StackInv, StackTypes, FilesName, StackServices
<1>3. Turn' = Turn
  BY DEF Turn
<1>4. StopIsPast' /\ ScriptIsAt'
  BY <1>3 DEF StackInv, StopIsPast, ScriptIsAt
<1> QED
  BY <1>1, <1>2, <1>4 DEF StackInv

(* A script begins. *)
LEMMA RunScriptKeeps ==
  ASSUME StackInv, NEW name \in {"start", "stop"}, RunScript(name)
  PROVE  StackInv'
<1>1. /\ process' = process /\ pidFile' = pidFile /\ untracked' = untracked /\ lastScript' = "none"
      /\ script' = [name |-> name, at |-> 1, stage |-> "next"]
  BY DEF RunScript
<1>2. script'.name = name /\ script'.at = 1 /\ script'.stage = "next"
  BY <1>1
<1>3. StackTypes'
  BY <1>1 DEF StackInv, StackTypes
<1>4. FilesName' /\ StopIsPast' /\ ScriptIsAt'
  BY <1>1, <1>2 DEF StackInv, FilesName, StopIsPast, ScriptIsAt
<1> QED
  BY <1>1, <1>3, <1>4 DEF StackInv

(* start-local-dev.sh writes a file over another only when it makes a process lost. *)
LEMMA LaunchKeeps ==
  ASSUME StackInv, NEW p \in StackPids, LaunchService(p)
  PROVE  StackInv'
<1>1. script.name = "start" /\ script.at <= 3 /\ script.stage = "next"
  BY StackTurns DEF LaunchService, AtNext
<1>2. Turn \in StackServices
  BY <1>1, TurnOf DEF StackInv
<1>3. /\ process[p] = "none" /\ process' = [process EXCEPT ![p] = Turn]
      /\ pidFile' = (IF Turn = "app" THEN pidFile ELSE [pidFile EXCEPT ![Turn] = p])
      /\ untracked' = untracked \cup (IF Turn = "app" THEN {p}
                                      ELSE {pidFile[Turn]} \cap {q \in StackPids : process[q] = Turn})
      /\ script' = NextTurn /\ lastScript' = lastScript
  BY DEF LaunchService, Recorded, NowLost
<1>4. script'.name = "start" /\ script'.stage = "next" /\ script'.at >= 1
  BY <1>1, <1>3, NextTurnFields DEF StackInv, StackTypes
<1>5. StackTypes'
  BY <1>2, <1>3, NextTurnFields DEF StackInv, StackTypes
<1>6. FilesName'
  <2> SUFFICES ASSUME NEW q \in StackPids, process'[q] \in StackServices
               PROVE  q \in untracked' \/ pidFile'[process'[q]] = q
    BY DEF FilesName
  <2>1. CASE q = p
    BY <1>2, <1>3, <2>1 DEF StackInv, StackTypes
  <2>2. CASE q # p
    <3>1. process'[q] = process[q] /\ (q \in untracked \/ pidFile[process[q]] = q)
      BY <1>3, <2>2 DEF StackInv, StackTypes, FilesName
    <3>2. CASE process[q] = Turn
      BY <1>3, <3>1, <3>2
    <3>3. CASE process[q] # Turn
      BY <1>3, <3>1, <3>3 DEF StackInv, StackTypes
    <3> QED
      BY <3>2, <3>3
  <2> QED
    BY <2>1, <2>2
<1>7. pidFile'["app"] = 0
  BY <1>3 DEF StackInv, StackTypes, StackServices
<1>8. StopIsPast' /\ ScriptIsAt'
  BY <1>1, <1>3, <1>4 DEF StackInv, StopIsPast, ScriptIsAt
<1> QED
  BY <1>5, <1>6, <1>7, <1>8 DEF StackInv

(* Moving on without touching a process: past a service whose port is in use, or ending
   before the end. *)
LEMMA MoveKeeps ==
  ASSUME StackInv, process' = process, untracked' = untracked, lastScript' = lastScript,
         pidFile' = pidFile,
         script' = NoScript \/ (script.name = "start" /\ script' = NextTurn)
  PROVE  StackInv'
<1>1. StackTypes'
  BY NextTurnFields DEF StackInv, StackTypes
<1>2. /\ script'.name \in {"none", "start"} /\ script'.stage = "next"
      /\ script'.name = "start" => script.name = "start" /\ script'.at = script.at + 1
  BY NextTurnFields DEF StackInv
<1>3. FilesName' /\ StopIsPast'
  BY <1>2 DEF StackInv, FilesName, StopIsPast
<1>4. script'.name # "none" => script'.at >= 1
  BY <1>2 DEF StackInv, StackTypes
<1>5. lastScript' = "stop" => script'.name = "none" /\ \A s \in StackServices : pidFile'[s] = 0
  BY <1>2 DEF StackInv, ScriptIsAt
<1>6. ScriptIsAt'
  BY <1>2, <1>4, <1>5 DEF ScriptIsAt
<1> QED
  BY <1>1, <1>3, <1>6 DEF StackInv

(* stop_service drops the file of a service when nothing runs under the pid. *)
LEMMA DropKeeps ==
  ASSUME StackInv, script.name = "stop", script.at <= 3, lastScript' = lastScript,
         pidFile' = [pidFile EXCEPT ![Turn] = 0], script' = NextTurn,
         \/ process' = process /\ untracked' = untracked
         \/ /\ pidFile[Turn] \in StackPids
            /\ process' = [process EXCEPT ![pidFile[Turn]] = "none"]
            /\ untracked' = untracked \ {pidFile[Turn]},
         pidFile[Turn] # 0 => process'[pidFile[Turn]] = "none"
  PROVE  StackInv'
<1>1. /\ script.at \in 1 .. 3 /\ Turn \in StackServices /\ Turn = Stack[4 - script.at]
      /\ StackTypes /\ FilesName /\ StopIsPast
  BY TurnOf DEF StackInv
<1>2. script'.name = "stop" /\ script'.at = script.at + 1 /\ script'.stage = "next"
  BY NextTurnFields DEF StackInv
<1>3. StackTypes'
  BY <1>1, NextTurnFields DEF StackTypes
<1>4. FilesName'
  <2> SUFFICES ASSUME NEW q \in StackPids, process'[q] \in StackServices
               PROVE  q \in untracked' \/ pidFile'[process'[q]] = q
    BY DEF FilesName
  <2>1. process'[q] = process[q] /\ (q \in untracked => q \in untracked')
    BY <1>1 DEF StackTypes, StackServices
  <2>2. q \in untracked \/ pidFile[process[q]] = q
    BY <1>1, <2>1 DEF FilesName
  <2>3. q # 0 /\ process'[q] # "none"
    BY StackAssumptions DEF StackServices
  <2>4. pidFile[Turn] # q
    BY <2>3
  <2> QED
    BY <1>1, <2>1, <2>2, <2>4 DEF StackTypes
<1>5. StopIsPast'
  <2> SUFFICES ASSUME NEW k \in 1 .. 3, k < script.at + 1 PROVE pidFile'[Stack[4 - k]] = 0
    BY <1>2 DEF StopIsPast
  <2>1. Stack[4 - k] \in StackServices
    BY StackTurns
  <2>2. CASE k = script.at
    BY <1>1, <2>1, <2>2 DEF StackTypes
  <2>3. CASE k < script.at
    <3>1. pidFile[Stack[4 - k]] = 0
      BY <1>1, <2>3 DEF StopIsPast
    <3> QED
      BY <1>1, <2>1, <3>1 DEF StackTypes
  <2> QED
    BY <1>1, <2>2, <2>3
<1>6. ScriptIsAt'
  <2>1. lastScript' # "stop"
    BY DEF StackInv, ScriptIsAt
  <2> QED
    BY <1>1, <1>2, <2>1 DEF ScriptIsAt
<1>7. pidFile'["app"] = 0
  BY <1>1 DEF StackInv, StackTypes
<1> QED
  BY <1>3, <1>4, <1>5, <1>6, <1>7 DEF StackInv

(* stop_service goes from one look at a process to the next. *)
LEMMA StageKeeps ==
  ASSUME StackInv, script.name = "stop", script.at <= 3, lastScript' = lastScript,
         pidFile' = pidFile, pidFile[Turn] \in StackPids,
         NEW stage \in {"alive", "signalled"}, script' = [script EXCEPT !.stage = stage],
         \/ process' = process /\ untracked' = untracked
         \/ /\ process' = [process EXCEPT ![pidFile[Turn]] = "none"]
            /\ untracked' = untracked \ {pidFile[Turn]}
  PROVE  StackInv'
<1>1. StackTypes /\ FilesName
  BY DEF StackInv
<1>2. script'.name = "stop" /\ script'.at = script.at /\ script'.stage = stage
  BY <1>1 DEF StackTypes
<1>3. StackTypes'
  BY <1>1 DEF StackTypes
<1>4. FilesName'
  BY <1>1 DEF StackTypes, FilesName, StackServices
<1>5. Turn' = Turn
  BY <1>2 DEF Turn
<1>6. StopIsPast' /\ ScriptIsAt'
  BY <1>2, <1>5 DEF StackInv, StopIsPast, ScriptIsAt
<1> QED
  BY <1>3, <1>4, <1>6 DEF StackInv

(* The end of stop-local-dev.sh leaves no file. *)
LEMMA ScriptEndKeeps ==
  ASSUME StackInv, NEW remove \in BOOLEAN, ScriptEnds(remove)
  PROVE  StackInv'
<1>1. /\ StackTypes /\ FilesName /\ script.at > 3 /\ script.name # "none"
      /\ process' = process /\ untracked' = untracked /\ script' = NoScript /\ lastScript' = script.name
  BY StackTurns DEF StackInv, ScriptEnds
<1>2. script.name = "stop" => \A s \in StackServices : pidFile[s] = 0
  BY <1>1, StackTurns DEF StackInv, StopIsPast, StackTypes
<1>3. pidFile' = pidFile
  <2>1. CASE remove /\ script.name = "stop"
    <3>1. pidFile' = [s \in StackServices |-> 0]
      BY <2>1 DEF ScriptEnds
    <3> QED
      BY <1>1, <1>2, <2>1, <3>1 DEF StackTypes
  <2>2. CASE ~(remove /\ script.name = "stop")
    BY <2>2 DEF ScriptEnds
  <2> QED
    BY <2>1, <2>2
<1>4. script'.name = "none" /\ script'.stage = "next" /\ StackTypes'
  BY <1>1, <1>3, NextTurnFields DEF StackTypes
<1>5. FilesName' /\ StopIsPast' /\ ScriptIsAt'
  BY <1>1, <1>2, <1>3, <1>4 DEF FilesName, StopIsPast, ScriptIsAt
<1> QED
  BY <1>3, <1>4, <1>5 DEF StackInv

(* Every step of the machine keeps the invariant. *)
LEMMA StackSteps == StackInv /\ [StackNext]_stackVars => StackInv'
<1> SUFFICES ASSUME StackInv, [StackNext]_stackVars PROVE StackInv'
  OBVIOUS
<1>1. StackTypes /\ ScriptIsAt /\ pidFile \in [StackServices -> StackPids \cup {0}]
  BY DEF StackInv, StackTypes
<1>2. CASE UNCHANGED stackVars
  BY <1>2 DEF stackVars, StackInv, StackTypes, FilesName, StopIsPast, ScriptIsAt, Turn
<1>3. CASE \E name \in {"start", "stop"} : RunScript(name)
  BY <1>3, RunScriptKeeps
<1>4. CASE SkipService \/ LaunchFails
  BY <1>4, MoveKeeps DEF SkipService, LaunchFails, AtNext
<1>5. CASE CheckRecorded
  <2>1. script.name = "stop" /\ script.at <= 3
    BY <1>5, StackTurns DEF CheckRecorded, AtNext
  <2>2. Turn \in StackServices
    BY <1>1, <2>1, TurnOf
  <2>3. CASE pidFile[Turn] # 0 /\ process[pidFile[Turn]] # "none"
    BY <1>1, <1>5, <2>1, <2>2, <2>3, StageKeeps DEF CheckRecorded
  <2>4. CASE ~(pidFile[Turn] # 0 /\ process[pidFile[Turn]] # "none")
    BY <1>1, <1>5, <2>1, <2>2, <2>4, DropKeeps DEF CheckRecorded
  <2> QED
    BY <2>3, <2>4
<1>6. CASE \E b \in BOOLEAN : TermSent(b)
  <2>1. /\ script.name = "stop" /\ script.at <= 3 /\ pidFile[Turn] \in StackPids
        /\ pidFile' = pidFile /\ lastScript' = lastScript
    BY <1>1, <1>6 DEF TermSent, ScriptIsAt
  <2>2. CASE process[pidFile[Turn]] = "none"
    BY <1>6, <2>1, <2>2, MoveKeeps DEF TermSent
  <2>3. CASE process[pidFile[Turn]] # "none"
    <3>1. script' = [script EXCEPT !.stage = "signalled"]
      BY <1>6, <2>3 DEF TermSent
    <3>2. \/ process' = process /\ untracked' = untracked
          \/ /\ process' = [process EXCEPT ![pidFile[Turn]] = "none"]
             /\ untracked' = untracked \ {pidFile[Turn]}
      BY <1>6 DEF TermSent, Without
    <3> QED
      BY <2>1, <3>1, <3>2, StageKeeps
  <2> QED
    BY <2>2, <2>3
<1>7. CASE StopEnds
  <2>1. /\ script.name = "stop" /\ script.at <= 3 /\ pidFile[Turn] \in StackPids
        /\ pidFile' = [pidFile EXCEPT ![Turn] = 0] /\ script' = NextTurn /\ lastScript' = lastScript
    BY <1>1, <1>7 DEF StopEnds, ScriptIsAt
  <2>2. CASE process[pidFile[Turn]] = "none"
    <3>1. process' = process /\ untracked' = untracked
      BY <1>7, <2>2 DEF StopEnds
    <3> QED
      BY <2>1, <2>2, <3>1, DropKeeps
  <2>3. CASE process[pidFile[Turn]] # "none"
    <3>1. /\ process' = [process EXCEPT ![pidFile[Turn]] = "none"]
          /\ untracked' = untracked \ {pidFile[Turn]}
      BY <1>7, <2>3 DEF StopEnds, Forced, Without
    <3>2. process'[pidFile[Turn]] = "none"
      BY <1>1, <2>1, <3>1 DEF StackTypes
    <3> QED
      BY <2>1, <3>1, <3>2, DropKeeps
  <2> QED
    BY <2>2, <2>3
<1>8. CASE ChildEnds
  BY <1>8 DEF ChildEnds, StackInv, StackTypes, FilesName, StopIsPast, ScriptIsAt, Turn
<1>9. CASE \E p \in StackPids : LaunchService(p)
  BY <1>9, LaunchKeeps
<1>10. CASE \E p \in StackPids : Binds(p) \/ EndsByItself(p) \/ OtherBegins(p)
  BY <1>10, ProcessesKeep DEF Binds, EndsByItself, OtherBegins, Without
<1>11. CASE \E b \in BOOLEAN : ScriptEnds(b)
  BY <1>11, ScriptEndKeeps
<1> QED
  BY <1>2, <1>3, <1>4, <1>5, <1>6, <1>7, <1>8, <1>9, <1>10, <1>11 DEF StackNext

(* The invariant says what stop-local-dev.sh leaves and what check_service shows. *)
LEMMA StackLeaves == StackInv => StopLeavesOnlyLost /\ AppsLookStopped
<1> SUFFICES ASSUME StackInv PROVE StopLeavesOnlyLost /\ AppsLookStopped
  OBVIOUS
<1>1. \A p \in StackPids : p # 0
  BY StackAssumptions
<1>2. StopLeavesOnlyLost
  BY <1>1 DEF StackInv, FilesName, ScriptIsAt, StopLeavesOnlyLost
<1>3. AppsLookStopped
  BY DEF StackInv, AppsLookStopped, StackStatus
<1> QED
  BY <1>2, <1>3

\* Steps that take a container away come first in a script, before it has waited for any
Taking == {"down", "restart", "stop"}
ScriptSteps == (Taking \cup {"up", "wait", "check"}) \X ContainerNames
WellOrdered(todo) == \A k \in DOMAIN todo : k > 1 => todo[k][1] \notin Taking

ComposeTypes ==
  /\ container \in [ContainerNames -> {"absent", "starting", "ready", "exited"}]
  /\ terminal \in [Terminals -> [todo : Seq(ScriptSteps), waited : SUBSET ContainerNames, told : BOOLEAN]]
  /\ upset \in SUBSET Terminals

\* What script v of a terminal may still do, and what it has heard that still holds in con
TerminalOk(v, calm, con) ==
  /\ WellOrdered(v.todo)
  /\ v.todo # <<>> /\ v.waited # {} => v.todo[1][1] \notin Taking
  /\ calm => \A c \in v.waited : con[c] = "ready"

ComposeInv ==
  ComposeTypes /\ \A t \in Terminals : TerminalOk(terminal[t], t \notin upset, container)

(* Each script takes containers away first, if at all. *)
LEMMA ScriptsAreOrdered ==
  ASSUME NEW name \in DOMAIN ComposeSteps
  PROVE  ComposeSteps[name] \in Seq(ScriptSteps) /\ WellOrdered(ComposeSteps[name])
<1> USE DEF ScriptSteps, Taking, ContainerNames, WellOrdered
<1>1. DOMAIN ComposeSteps = {"infrastructure", "backend", "frontend", "local", "restartGateway", "stopGateway"}
  BY DEF ComposeSteps
<1>2. CASE name = "infrastructure"
  <2>1. ComposeSteps[name] = <<<<"up", "infra">>, <<"wait", "infra">>>>
    BY <1>2 DEF ComposeSteps
  <2> QED
    BY <2>1
<1>3. CASE name = "backend"
  <2>1. ComposeSteps[name] = <<<<"check", "infra">>, <<"up", "gateway">>, <<"wait", "gateway">>>>
    BY <1>3 DEF ComposeSteps
  <2> QED
    BY <2>1
<1>4. CASE name = "frontend"
  <2>1. ComposeSteps[name] = <<<<"check", "gateway">>, <<"up", "front">>, <<"wait", "front">>>>
    BY <1>4 DEF ComposeSteps
  <2> QED
    BY <2>1
<1>5. CASE name = "local"
  <2>1. ComposeSteps[name] = <<<<"down", "infra">>, <<"up", "infra">>, <<"wait", "infra">>,
              <<"up", "gateway">>, <<"wait", "gateway">>, <<"up", "front">>, <<"wait", "front">>>>
    BY <1>5 DEF ComposeSteps
  <2> QED
    BY <2>1
<1>6. CASE name = "restartGateway"
  <2>1. ComposeSteps[name] = <<<<"restart", "gateway">>, <<"wait", "gateway">>>>
    BY <1>6 DEF ComposeSteps
  <2> QED
    BY <2>1
<1>7. CASE name = "stopGateway"
  <2>1. ComposeSteps[name] = <<<<"stop", "gateway">>>>
    BY <1>7 DEF ComposeSteps
  <2> QED
    BY <2>1
<1> QED
  BY <1>1, <1>2, <1>3, <1>4, <1>5, <1>6, <1>7

(* Nothing runs in a terminal, nothing has been waited for. *)
LEMMA QuietIsOk ==
  ASSUME NEW calm, NEW con
  PROVE  /\ Quiet \in [todo : Seq(ScriptSteps), waited : SUBSET ContainerNames, told : BOOLEAN]
         /\ TerminalOk(Quiet, calm, con)
<1>1. Quiet.todo = <<>> /\ Quiet.waited = {} /\ Quiet.told = FALSE
  BY DEF Quiet
<1>2. <<>> \in Seq(ScriptSteps) /\ WellOrdered(<<>>)
  BY DEF WellOrdered
<1> QED
  BY <1>1, <1>2 DEF TerminalOk, Quiet

(* The machine without containers satisfies the invariant. *)
LEMMA ComposeStarts == ComposeInit => ComposeInv
BY QuietIsOk DEF ComposeInit, ComposeInv, ComposeTypes

(* What a terminal's script has done and has to do, one step later. *)
LEMMA Proceeded ==
  ASSUME ComposeInv, NEW t \in Terminals, terminal[t].todo # <<>>, NEW heard \in SUBSET ContainerNames,
         Proceed(t, heard), NEW con, NEW calm,
         calm => \A c \in terminal[t].waited \cup heard : con[c] = "ready"
  PROVE  /\ terminal' \in [Terminals -> [todo : Seq(ScriptSteps), waited : SUBSET ContainerNames, told : BOOLEAN]]
         /\ \A s \in Terminals : s # t => terminal'[s] = terminal[s]
         /\ TerminalOk(terminal'[t], calm, con)
<1> DEFINE todo == terminal[t].todo
           rest == Tail(todo)
           v == [todo |-> rest, waited |-> terminal[t].waited \cup heard, told |-> rest = <<>>]
<1>1. todo \in Seq(ScriptSteps) /\ terminal[t].waited \in SUBSET ContainerNames /\ WellOrdered(todo)
  BY DEF ComposeInv, ComposeTypes, TerminalOk
<1>2. terminal' = [terminal EXCEPT ![t] = v]
  BY DEF Proceed
<1>3. /\ rest \in Seq(ScriptSteps) /\ Len(rest) = Len(todo) - 1 /\ Len(todo) \in Nat /\ Len(rest) \in Nat
      /\ \A k \in 1 .. Len(rest) : rest[k] = todo[k + 1]
  BY <1>1, HeadTailProperties, LenProperties
<1>4. DOMAIN rest = 1 .. Len(rest) /\ DOMAIN todo = 1 .. Len(todo) /\ (rest # <<>> => Len(rest) >= 1)
  BY <1>1, <1>3, LenProperties, EmptySeq
<1> HIDE DEF rest, todo
<1>5. \A k \in DOMAIN rest : rest[k][1] \notin Taking
  BY <1>1, <1>3, <1>4 DEF WellOrdered
<1>6. WellOrdered(rest) /\ (rest # <<>> => rest[1][1] \notin Taking)
  BY <1>3, <1>4, <1>5 DEF WellOrdered
<1>7. v \in [todo : Seq(ScriptSteps), waited : SUBSET ContainerNames, told : BOOLEAN]
  BY <1>1, <1>3
<1>8. TerminalOk(v, calm, con)
  BY <1>6 DEF TerminalOk
<1> HIDE DEF v
<1> QED
  BY <1>2, <1>7, <1>8 DEF ComposeInv, ComposeTypes

(* A step that takes a container away is the first of its script, and disturbs the
   scripts of the other terminals. *)
LEMMA TakingKeeps ==
  ASSUME ComposeInv, NEW t \in Terminals, terminal[t].todo # <<>>, Head(terminal[t].todo)[1] \in Taking,
         Proceed(t, {}), upset' = Disturbed(t),
         container' \in [ContainerNames -> {"absent", "starting", "ready", "exited"}]
  PROVE  ComposeInv'
<1>1. terminal[t].waited = {}
  <2>1. terminal[t].todo \in Seq(ScriptSteps) /\ TerminalOk(terminal[t], t \notin upset, container)
    BY DEF ComposeInv, ComposeTypes
  <2>2. Head(terminal[t].todo) = terminal[t].todo[1]
    BY <2>1, HeadTailProperties
  <2> QED
    BY <2>1, <2>2 DEF TerminalOk
<1>2. /\ terminal' \in [Terminals -> [todo : Seq(ScriptSteps), waited : SUBSET ContainerNames, told : BOOLEAN]]
      /\ \A s \in Terminals : s # t => terminal'[s] = terminal[s]
      /\ TerminalOk(terminal'[t], t \notin upset', container')
  BY <1>1, Proceeded
<1>3. upset' \in SUBSET Terminals /\ \A s \in Terminals : s # t => s \in upset'
  BY DEF Disturbed, ComposeInv, ComposeTypes
<1>4. \A s \in Terminals : s # t => TerminalOk(terminal'[s], s \notin upset', container')
  BY <1>2, <1>3 DEF ComposeInv, TerminalOk
<1>5. ComposeTypes'
  BY <1>2, <1>3 DEF ComposeTypes
<1> QED
  BY <1>2, <1>4, <1>5 DEF ComposeInv

(* A step that leaves what is ready as it is keeps what the other scripts have heard. *)
LEMMA HearingKeeps ==
  ASSUME ComposeInv, NEW t \in Terminals, terminal[t].todo # <<>>, NEW heard \in SUBSET ContainerNames,
         Proceed(t, heard), upset' = upset, \A c \in heard : container'[c] = "ready",
         container' \in [ContainerNames -> {"absent", "starting", "ready", "exited"}],
         \A c \in ContainerNames : container[c] = "ready" => container'[c] = "ready"
  PROVE  ComposeInv'
<1>1. \A s \in Terminals : s \notin upset => \A c \in terminal[s].waited : container'[c] = "ready"
  BY DEF ComposeInv, ComposeTypes, TerminalOk
<1>2. t \notin upset => \A c \in terminal[t].waited \cup heard : container'[c] = "ready"
  BY <1>1
<1>3. /\ terminal' \in [Terminals -> [todo : Seq(ScriptSteps), waited : SUBSET ContainerNames, told : BOOLEAN]]
      /\ \A s \in Terminals : s # t => terminal'[s] = terminal[s]
      /\ TerminalOk(terminal'[t], t \notin upset, container')
  BY <1>2, Proceeded
<1>4. \A s \in Terminals : s # t => TerminalOk(terminal'[s], s \notin upset', container')
  BY <1>1, <1>3 DEF ComposeInv, TerminalOk
<1>5. ComposeTypes'
  BY <1>3 DEF ComposeInv, ComposeTypes
<1> QED
  BY <1>3, <1>4, <1>5 DEF ComposeInv

(* A script that starts or gives up has heard nothing. *)
LEMMA AnewKeeps ==
  ASSUME ComposeInv, NEW t \in Terminals, NEW v, terminal' = [terminal EXCEPT ![t] = v],
         v \in [todo : Seq(ScriptSteps), waited : SUBSET ContainerNames, told : BOOLEAN],
         TerminalOk(v, TRUE, container), container' = container, upset' = upset \/ upset' = upset \ {t}
  PROVE  ComposeInv'
<1>1. \A s \in Terminals : s # t => (s \in upset' <=> s \in upset) /\ terminal'[s] = terminal[s]
  BY DEF ComposeInv, ComposeTypes
<1>2. terminal'[t] = v
  BY DEF ComposeInv, ComposeTypes
<1>3. ComposeTypes'
  BY DEF ComposeInv, ComposeTypes
<1>4. ASSUME NEW s \in Terminals PROVE TerminalOk(terminal'[s], s \notin upset', container')
  <2>1. CASE s = t
    BY <1>2, <2>1 DEF TerminalOk
  <2>2. CASE s # t
    <3>1. TerminalOk(terminal[s], s \notin upset, container)
      BY DEF ComposeInv
    <3> QED
      BY <1>1, <2>2, <3>1 DEF TerminalOk
  <2> QED
    BY <2>1, <2>2
<1> QED
  BY <1>3, <1>4 DEF ComposeInv

(* Every step of the container scripts keeps the invariant. *)
LEMMA ComposeKeeps == ComposeInv /\ [ComposeNext]_composeVars => ComposeInv'
<1> SUFFICES ASSUME ComposeInv, [ComposeNext]_composeVars PROVE ComposeInv'
  OBVIOUS
<1>1. container \in [ContainerNames -> {"absent", "starting", "ready", "exited"}]
  BY DEF ComposeInv, ComposeTypes
<1>2. \A t \in Terminals : terminal[t].todo # <<>> => Of(t) \in ContainerNames
  <2> SUFFICES ASSUME NEW t \in Terminals, terminal[t].todo # <<>> PROVE Of(t) \in ContainerNames
    OBVIOUS
  <2>1. terminal[t].todo \in Seq(ScriptSteps)
    BY DEF ComposeInv, ComposeTypes
  <2>2. Head(terminal[t].todo) \in ScriptSteps
    BY <2>1, HeadTailProperties
  <2> QED
    BY <2>2 DEF Of, ScriptSteps
<1>3. CASE UNCHANGED composeVars
  BY <1>3 DEF composeVars, ComposeInv, ComposeTypes, TerminalOk
<1>4. ASSUME NEW t \in Terminals, NEW name \in DOMAIN ComposeSteps, RunCompose(t, name)
      PROVE  ComposeInv'
  <2> DEFINE v == [todo |-> ComposeSteps[name], waited |-> {}, told |-> FALSE]
  <2>1. v \in [todo : Seq(ScriptSteps), waited : SUBSET ContainerNames, told : BOOLEAN]
    BY ScriptsAreOrdered
  <2>2. TerminalOk(v, TRUE, container)
    BY ScriptsAreOrdered DEF TerminalOk
  <2>3. terminal' = [terminal EXCEPT ![t] = v] /\ container' = container /\ upset' = upset \ {t}
    BY <1>4 DEF RunCompose
  <2> HIDE DEF v
  <2> QED
    BY <2>1, <2>2, <2>3, AnewKeeps
<1>5. ASSUME NEW t \in Terminals, GiveUp(t), container' = container, upset' = upset PROVE ComposeInv'
  BY <1>5, QuietIsOk, AnewKeeps DEF GiveUp
<1>6. ASSUME NEW t \in Terminals, ComposeUp(t) PROVE ComposeInv'
  <2>1. terminal[t].todo # <<>> /\ Proceed(t, {}) /\ upset' = upset
    BY <1>6 DEF ComposeUp, Doing
  <2>2. PICK opened : /\ \A c \in opened : container[c] \notin {"starting", "ready"}
                     /\ container' = [c \in ContainerNames |-> IF c \in opened THEN "starting" ELSE container[c]]
    BY <1>6 DEF ComposeUp
  <2>3. /\ container' \in [ContainerNames -> {"absent", "starting", "ready", "exited"}]
        /\ \A c \in ContainerNames : container[c] = "ready" => container'[c] = "ready"
    BY <1>1, <2>2
  <2> QED
    BY <2>1, <2>3, HearingKeeps
<1>7. ASSUME NEW t \in Terminals, ComposeFails(t) PROVE ComposeInv'
  BY <1>5, <1>7 DEF ComposeFails
<1>8. ASSUME NEW t \in Terminals, ComposeDown(t) \/ ComposeRestart(t) \/ ComposeStop(t) PROVE ComposeInv'
  <2>1. /\ terminal[t].todo # <<>> /\ Head(terminal[t].todo)[1] \in Taking /\ Proceed(t, {})
        /\ upset' = Disturbed(t)
    BY <1>8 DEF ComposeDown, ComposeRestart, ComposeStop, Doing, Taking
  <2>2. container' \in [ContainerNames -> {"absent", "starting", "ready", "exited"}]
    BY <1>1, <1>8 DEF ComposeDown, ComposeRestart, ComposeStop
  <2> QED
    BY <2>1, <2>2, TakingKeeps
<1>9. ASSUME NEW t \in Terminals, ComposeCheck(t) PROVE ComposeInv'
  <2>1. terminal[t].todo # <<>> /\ upset' = upset /\ container' = container
    BY <1>9 DEF ComposeCheck, Doing
  <2>2. CASE container[Of(t)] = "ready"
    BY <1>1, <1>2, <1>9, <2>1, <2>2, HearingKeeps DEF ComposeCheck
  <2>3. CASE container[Of(t)] # "ready"
    BY <1>5, <1>9, <2>1, <2>3 DEF ComposeCheck
  <2> QED
    BY <2>2, <2>3
<1>10. ASSUME NEW t \in Terminals, ComposeWait(t) PROVE ComposeInv'
  <2>1. /\ terminal[t].todo # <<>> /\ upset' = upset /\ container' = container
        /\ container[Of(t)] = "ready" /\ Proceed(t, {Of(t)})
    BY <1>10 DEF ComposeWait, Doing, Answering
  <2> QED
    BY <1>1, <1>2, <2>1, HearingKeeps
<1>11. ASSUME NEW c \in ContainerNames, ContainerReady(c) \/ ContainerExits(c) PROVE ComposeInv'
  <2>1. terminal' = terminal /\ container' \in [ContainerNames -> {"absent", "starting", "ready", "exited"}]
    BY <1>1, <1>11 DEF ContainerReady, ContainerExits
  <2>2. CASE ContainerReady(c)
    <3>1. upset' = upset /\ \A d \in ContainerNames : container[d] = "ready" => container'[d] = "ready"
      BY <1>1, <2>2 DEF ContainerReady
    <3>2. \A s \in Terminals : terminal[s].waited \in SUBSET ContainerNames
      BY DEF ComposeInv, ComposeTypes
    <3>3. \A s \in Terminals : TerminalOk(terminal[s], s \notin upset, container')
      BY <3>1, <3>2 DEF ComposeInv, TerminalOk
    <3> QED
      BY <2>1, <3>1, <3>3 DEF ComposeInv, ComposeTypes
  <2>3. CASE ContainerExits(c)
    <3>1. upset' = Terminals
      BY <2>3 DEF ContainerExits
    <3>2. \A s \in Terminals : TerminalOk(terminal[s], s \notin upset', container')
      BY <3>1 DEF ComposeInv, TerminalOk
    <3> QED
      BY <2>1, <3>1, <3>2 DEF ComposeInv, ComposeTypes
  <2> QED
    BY <1>11, <2>2, <2>3
<1> QED
  BY <1>3, <1>4, <1>6, <1>7, <1>8, <1>9, <1>10, <1>11 DEF ComposeNext

(* The invariant says that a report is true. *)
LEMMA ComposeReports == ComposeInv => ReportIsTrue
BY DEF ComposeInv, TerminalOk, ReportIsTrue
-----------------------------------------------------------------------------
(* The workflow loader: the search for cycles.                               *)

\* What an edge may lead to; frames f and visited nodes v of a search
Ids(d) == ToSet(d.nodes) \cup {EndNode}
FramesOf(d) == [node : Ids(d), todo : SUBSET Ids(d)]
FrameIn(d, n) == [node |-> n, todo |-> {e[2] : e \in {x \in d.edges : x[1] = n}}]
OnStack(f) == {f[i].node : i \in DOMAIN f}
Finished(f, v) == v \ OnStack(f)
Leads(d, n, m) == \E e \in d.edges : e[1] = n /\ e[2] = m

\* The frames are a path of visited nodes, each with neighbors left to look at
PathOk(f, v, d) ==
  /\ f \in Seq(FramesOf(d))
  /\ \A i, j \in DOMAIN f : f[i].node = f[j].node => i = j
  /\ \A i \in DOMAIN f : f[i].node \in v /\ \A m \in f[i].todo : Leads(d, f[i].node, m)
  /\ \A i \in DOMAIN f : i < Len(f) => Leads(d, f[i].node, f[i + 1].node)

\* Every edge from the path leads to a node to look at, to one that is finished or to the
\* next of the path; the last frame may have one more neighbor, in extra
EdgesAccounted(f, v, d, extra) ==
  \A i \in DOMAIN f : \A m : Leads(d, f[i].node, m) =>
    \/ m \in f[i].todo \/ m \in Finished(f, v)
    \/ i < Len(f) /\ m = f[i + 1].node
    \/ i = Len(f) /\ m \in extra

\* Finished nodes lead to finished nodes only, and in any set of them one leads out of it
ClosedUnder(fin, d) == \A n \in fin : \A m : Leads(d, n, m) => m \in fin
WithoutCycle(fin, d) ==
  \A S \in (SUBSET fin) \ {{}} : \E n \in S : \A m \in S : ~Leads(d, n, m)

SearchOk(f, v, d) ==
  /\ PathOk(f, v, d) /\ EdgesAccounted(f, v, d, {})
  /\ ClosedUnder(Finished(f, v), d) /\ WithoutCycle(Finished(f, v), d)

LoaderInv ==
  /\ loads \in Nat
  /\ loads = 0 => outcome = "none"
  /\ outcome \in {"searching", "loaded"} => UniqueIds(document) /\ KnownEdges(document)
  /\ outcome = "searching" => SearchOk(search.frames, search.visited, document)
  /\ outcome = "loaded" => ~HasCycle(document)
  /\ outcome = "circular" => HasCycle(document)

(* What the frame of a node looks at is what the node leads to. *)
LEMMA FrameFields ==
  ASSUME NEW d, KnownEdges(d), NEW n \in Ids(d)
  PROVE  /\ FrameIn(d, n) \in FramesOf(d) /\ FrameIn(d, n).node = n
         /\ \A m : m \in FrameIn(d, n).todo <=> Leads(d, n, m)
<1>1. \A e \in d.edges : e[2] \in Ids(d)
  BY DEF KnownEdges, Ids
<1>2. {e[2] : e \in {x \in d.edges : x[1] = n}} \in SUBSET Ids(d)
  BY <1>1
<1> QED
  BY <1>2 DEF FrameIn, FramesOf, Leads

(* A search that has not begun. *)
LEMMA EmptySearch ==
  ASSUME NEW d
  PROVE  SearchOk(<<>>, {}, d)
<1>1. <<>> \in Seq(FramesOf(d)) /\ DOMAIN <<>> = {} /\ Len(<<>>) = 0
  OBVIOUS
<1>2. Finished(<<>>, {}) = {}
  BY DEF Finished
<1> QED
  BY <1>1, <1>2 DEF SearchOk, PathOk, EdgesAccounted, ClosedUnder, WithoutCycle

(* A node that was not visited is put on the path, behind the one that leads to it. *)
LEMMA EnterKeepsSearch ==
  ASSUME NEW d, KnownEdges(d), NEW f, NEW v, NEW n \in Ids(d), n \notin v,
         PathOk(f, v, d), EdgesAccounted(f, v, d, {n}),
         f # <<>> => Leads(d, f[Len(f)].node, n),
         ClosedUnder(Finished(f, v), d), WithoutCycle(Finished(f, v), d)
  PROVE  SearchOk(Append(f, FrameIn(d, n)), v \cup {n}, d)
<1> DEFINE x == FrameIn(d, n)
           g == Append(f, x)
           L == Len(f)
<1>1. /\ x \in FramesOf(d) /\ x.node = n /\ \A m : m \in x.todo <=> Leads(d, n, m)
  BY FrameFields
<1>2. f \in Seq(FramesOf(d)) /\ L \in Nat /\ DOMAIN f = 1 .. L
  BY LenProperties DEF PathOk
<1> HIDE DEF x
<1>3. /\ g \in Seq(FramesOf(d)) /\ Len(g) = L + 1 /\ DOMAIN g = 1 .. (L + 1)
      /\ \A i \in 1 .. L : g[i] = f[i]
      /\ g[L + 1] = x
  BY <1>1, <1>2, AppendProperties, LenProperties
<1>4. f # <<>> => L >= 1
  BY <1>2, EmptySeq
<1> HIDE DEF g, L
<1>5. OnStack(g) = OnStack(f) \cup {n}
  <2>1. \A i \in DOMAIN g : g[i].node \in OnStack(f) \cup {n}
    BY <1>1, <1>2, <1>3 DEF OnStack
  <2>2. n \in OnStack(g)
    BY <1>1, <1>2, <1>3 DEF OnStack
  <2>3. \A i \in DOMAIN f : f[i].node \in OnStack(g)
    BY <1>2, <1>3 DEF OnStack
  <2> QED
    BY <2>1, <2>2, <2>3 DEF OnStack
<1>6. Finished(g, v \cup {n}) = Finished(f, v)
  BY <1>5 DEF Finished
<1>7. \A i \in DOMAIN f : f[i].node \in v
  BY DEF PathOk
<1>8. PathOk(g, v \cup {n}, d)
  <2>1. \A i, j \in DOMAIN g : g[i].node = g[j].node => i = j
    <3> SUFFICES ASSUME NEW i \in DOMAIN g, NEW j \in DOMAIN g, g[i].node = g[j].node PROVE i = j
      OBVIOUS
    <3>1. (i \in DOMAIN f \/ i = L + 1) /\ (j \in DOMAIN f \/ j = L + 1)
      BY <1>2, <1>3
    <3>2. \A k \in DOMAIN f : g[k] = f[k] /\ f[k].node # n
      BY <1>2, <1>3, <1>7
    <3>3. g[L + 1].node = n
      BY <1>1, <1>3
    <3> QED
      BY <3>1, <3>2, <3>3 DEF PathOk
  <2>2. \A i \in DOMAIN g : g[i].node \in v \cup {n} /\ \A m \in g[i].todo : Leads(d, g[i].node, m)
    BY <1>1, <1>2, <1>3 DEF PathOk
  <2>3. \A i \in DOMAIN g : i < Len(g) => Leads(d, g[i].node, g[i + 1].node)
    <3> SUFFICES ASSUME NEW i \in DOMAIN g, i < L + 1 PROVE Leads(d, g[i].node, g[i + 1].node)
      BY <1>3
    <3>1. i \in DOMAIN f /\ g[i] = f[i]
      BY <1>2, <1>3
    <3>2. CASE i = L
      <4>1. f # <<>>
        BY <1>2, <3>1
      <4> QED
        BY <1>1, <1>3, <3>1, <3>2, <4>1 DEF L
    <3>3. CASE i # L
      <4>1. i < L /\ g[i + 1] = f[i + 1]
        BY <1>2, <1>3, <3>1, <3>3
      <4> QED
        BY <3>1, <4>1 DEF PathOk, L
    <3> QED
      BY <3>2, <3>3
  <2> QED
    BY <1>3, <2>1, <2>2, <2>3 DEF PathOk
<1>9. EdgesAccounted(g, v \cup {n}, d, {})
  <2> SUFFICES ASSUME NEW i \in DOMAIN g, NEW m, Leads(d, g[i].node, m)
               PROVE  \/ m \in g[i].todo \/ m \in Finished(g, v \cup {n})
                      \/ i < Len(g) /\ m = g[i + 1].node
    BY DEF EdgesAccounted
  <2>1. CASE i = L + 1
    BY <1>1, <1>3, <2>1
  <2>2. CASE i # L + 1
    <3>1. i \in DOMAIN f /\ g[i] = f[i] /\ i <= L
      BY <1>2, <1>3, <2>2
    <3>2. \/ m \in f[i].todo \/ m \in Finished(f, v)
          \/ i < L /\ m = f[i + 1].node
          \/ i = L /\ m = n
      BY <3>1 DEF EdgesAccounted, L
    <3>3. i < L => g[i + 1] = f[i + 1]
      BY <1>2, <1>3, <3>1
    <3>4. i < Len(g)
      BY <1>2, <1>3, <3>1
    <3>5. i = L => g[i + 1].node = n
      BY <1>1, <1>3
    <3> QED
      BY <1>6, <3>1, <3>2, <3>3, <3>4, <3>5
  <2> QED
    BY <2>1, <2>2
<1> QED
  BY <1>6, <1>8, <1>9 DEF SearchOk, g, x

(* Taking a neighbor n off the list of the last frame leaves the path, and one edge to
   account for. *)
LEMMA LookKeepsPath ==
  ASSUME NEW d, NEW f, NEW v, f # <<>>, SearchOk(f, v, d), NEW n, n \in f[Len(f)].todo, NEW g,
         g = [f EXCEPT ![Len(f)].todo = @ \ {n}]
  PROVE  /\ PathOk(g, v, d) /\ EdgesAccounted(g, v, d, {n}) /\ g # <<>> /\ Len(g) = Len(f)
         /\ OnStack(g) = OnStack(f) /\ Leads(d, g[Len(g)].node, n) /\ n \in Ids(d)
<1> DEFINE L == Len(f)
<1>1. f \in Seq(FramesOf(d)) /\ L \in Nat /\ DOMAIN f = 1 .. L /\ L >= 1
  BY LenProperties, EmptySeq DEF SearchOk, PathOk
<1>2. L \in DOMAIN f /\ f[L] \in FramesOf(d)
  BY <1>1, ElementOfSeq
<1> DEFINE last == [f[L] EXCEPT !.todo = f[L].todo \ {n}]
<1>3. /\ last \in FramesOf(d) /\ last.node = f[L].node /\ last.todo = f[L].todo \ {n}
  BY <1>2 DEF FramesOf
<1>4. g = [f EXCEPT ![L] = last]
  BY <1>2
<1> HIDE DEF last
<1>5. DOMAIN g = 1 .. L /\ g[L] = last /\ \A i \in 1 .. L : i # L => g[i] = f[i]
  BY <1>1, <1>2, <1>4
<1>6. g \in Seq(FramesOf(d)) /\ Len(g) = L
  <2>1. L \in 1 .. Len(f)
    BY <1>1
  <2> HIDE DEF L
  <2>2. [f EXCEPT ![L] = last] \in Seq(FramesOf(d)) /\ Len([f EXCEPT ![L] = last]) = Len(f)
    BY <1>1, <1>3, <2>1, ExceptSeq
  <2> QED
    BY <1>4, <2>2 DEF L
<1>7. g # <<>>
  BY <1>1, <1>6, EmptySeq
<1>8. \A i \in 1 .. L : /\ g[i].node = f[i].node /\ g[i].todo \subseteq f[i].todo
                        /\ \A m \in f[i].todo : m \in g[i].todo \/ (i = L /\ m = n)
  BY <1>1, <1>3, <1>5
<1>9. OnStack(g) = OnStack(f)
  BY <1>1, <1>5, <1>8 DEF OnStack
<1> HIDE DEF L
<1>10. PathOk(g, v, d)
  <2>1. \A i, j \in DOMAIN g : g[i].node = g[j].node => i = j
    BY <1>1, <1>5, <1>8 DEF SearchOk, PathOk
  <2>2. \A i \in DOMAIN g : g[i].node \in v /\ \A m \in g[i].todo : Leads(d, g[i].node, m)
    BY <1>1, <1>5, <1>8 DEF SearchOk, PathOk
  <2>3. \A i \in DOMAIN g : i < Len(g) => Leads(d, g[i].node, g[i + 1].node)
    <3> SUFFICES ASSUME NEW i \in 1 .. L, i < L PROVE Leads(d, g[i].node, g[i + 1].node)
      BY <1>5, <1>6
    <3>1. i + 1 \in 1 .. L
      BY <1>1
    <3> QED
      BY <1>1, <1>8, <3>1 DEF SearchOk, PathOk, L
  <2> QED
    BY <1>6, <2>1, <2>2, <2>3 DEF PathOk
<1>11. EdgesAccounted(g, v, d, {n})
  <2> SUFFICES ASSUME NEW i \in 1 .. L, NEW m, Leads(d, g[i].node, m)
               PROVE  \/ m \in g[i].todo \/ m \in Finished(g, v)
                      \/ i < L /\ m = g[i + 1].node
                      \/ i = L /\ m = n
    BY <1>5, <1>6 DEF EdgesAccounted
  <2>1. \/ m \in f[i].todo \/ m \in Finished(f, v)
        \/ i < L /\ m = f[i + 1].node
    BY <1>1, <1>8 DEF SearchOk, EdgesAccounted, L
  <2>2. Finished(g, v) = Finished(f, v)
    BY <1>9 DEF Finished
  <2>3. i < L => g[i + 1].node = f[i + 1].node
    BY <1>1, <1>8
  <2> QED
    BY <1>8, <2>1, <2>2, <2>3
<1>12. Leads(d, g[L].node, n)
  <2>1. f[L].node = g[L].node /\ Leads(d, f[L].node, n)
    BY <1>1, <1>2, <1>8 DEF SearchOk, PathOk, L
  <2> QED
    BY <2>1
<1>13. n \in Ids(d)
  BY <1>2 DEF FramesOf, L
<1> QED
  BY <1>6, <1>7, <1>9, <1>10, <1>11, <1>12, <1>13 DEF L

(* A neighbor that is finished accounts for its edge. *)
LEMMA LookAtFinished ==
  ASSUME NEW d, NEW g, NEW v, NEW n, PathOk(g, v, d), EdgesAccounted(g, v, d, {n}),
         n \in Finished(g, v), ClosedUnder(Finished(g, v), d), WithoutCycle(Finished(g, v), d)
  PROVE  SearchOk(g, v, d)
<1>1. EdgesAccounted(g, v, d, {})
  BY DEF EdgesAccounted
<1> QED
  BY <1>1 DEF SearchOk

(* A neighbor on the path closes a cycle: the path from it on. *)
LEMMA LookAtPath ==
  ASSUME NEW d, KnownEdges(d), NEW f, NEW v, f # <<>>, PathOk(f, v, d), NEW n,
         Leads(d, f[Len(f)].node, n), n \in OnStack(f)
  PROVE  HasCycle(d)
<1> DEFINE L == Len(f)
<1>1. f \in Seq(FramesOf(d)) /\ L \in Nat /\ DOMAIN f = 1 .. L
  BY LenProperties DEF PathOk
<1>2. PICK i \in 1 .. L : f[i].node = n
  BY <1>1 DEF OnStack
<1> DEFINE S == {f[k].node : k \in i .. L}
<1> HIDE DEF L
<1>3. \A k \in i .. L : \E m \in S : Leads(d, f[k].node, m)
  <2> SUFFICES ASSUME NEW k \in i .. L PROVE \E m \in S : Leads(d, f[k].node, m)
    OBVIOUS
  <2>1. CASE k = L
    <3>1. n \in S
      BY <1>1, <1>2
    <3> QED
      BY <2>1, <3>1 DEF L
  <2>2. CASE k # L
    <3>1. k \in DOMAIN f /\ k < L /\ k + 1 \in i .. L
      BY <1>1, <1>2, <2>2
    <3>2. Leads(d, f[k].node, f[k + 1].node)
      BY <3>1 DEF PathOk, L
    <3>3. f[k + 1].node \in S
      BY <3>1
    <3> QED
      BY <3>2, <3>3
  <2> QED
    BY <2>1, <2>2
<1>4. \A s \in S : \E e \in d.edges : e[1] = s /\ e[2] \in S
  BY <1>3 DEF Leads
<1>5. S # {}
  <2>1. i \in i .. L
    BY <1>1, <1>2
  <2> QED
    BY <2>1
<1> HIDE DEF S
<1>6. S \in SUBSET ToSet(d.nodes)
  BY <1>4 DEF KnownEdges
<1> QED
  BY <1>4, <1>5, <1>6 DEF HasCycle

(* A node all of whose neighbors are finished becomes finished, and closes no cycle. *)
LEMMA BacktrackKeeps ==
  ASSUME NEW d, NEW f, NEW v, f # <<>>, SearchOk(f, v, d), f[Len(f)].todo = {}
  PROVE  SearchOk(Front(f), v, d)
<1> DEFINE L == Len(f)
           x == f[L].node
           g == Front(f)
           old == Finished(f, v)
           new == Finished(g, v)
<1>1. f \in Seq(FramesOf(d)) /\ L \in Nat /\ DOMAIN f = 1 .. L /\ L >= 1 /\ L - 1 \in Nat
  BY LenProperties, EmptySeq DEF SearchOk, PathOk
<1>2. g = SubSeq(f, 1, L - 1)
  BY DEF Front
<1>3. g \in Seq(FramesOf(d)) /\ Len(g) = L - 1 /\ \A i \in 1 .. (L - 1) : g[i] = f[i]
  BY <1>1, <1>2, SubSeqProperties
<1>4. DOMAIN g = 1 .. (L - 1)
  BY <1>3, LenProperties
<1> HIDE DEF g, L
<1>5. PathOk(f, v, d) /\ x \in v
  BY <1>1 DEF SearchOk, PathOk
<1>6. OnStack(g) = OnStack(f) \ {x}
  <2>1. \A i \in 1 .. (L - 1) : i \in DOMAIN f /\ L \in DOMAIN f /\ i # L
    BY <1>1
  <2>2. \A i \in 1 .. (L - 1) : f[i].node # x
    BY <1>5, <2>1 DEF PathOk
  <2>3. \A i \in DOMAIN g : g[i].node \in OnStack(f) /\ g[i].node # x
    BY <1>3, <1>4, <2>1, <2>2 DEF OnStack
  <2>4. \A i \in DOMAIN f : i # L => f[i].node \in OnStack(g)
    BY <1>1, <1>3, <1>4 DEF OnStack
  <2> QED
    BY <2>3, <2>4 DEF OnStack
<1>7. x \in OnStack(f)
  BY <1>1 DEF OnStack
<1>8. new = old \cup {x} /\ x \notin old
  BY <1>5, <1>6, <1>7 DEF Finished
<1>9. \A m : Leads(d, x, m) => m \in old
  BY <1>1 DEF SearchOk, EdgesAccounted, L
<1>10. ClosedUnder(old, d) /\ WithoutCycle(old, d)
  BY DEF SearchOk
<1> HIDE DEF old, new, x
<1>11. ClosedUnder(new, d)
  BY <1>8, <1>9, <1>10 DEF ClosedUnder
<1>12. WithoutCycle(new, d)
  <2> SUFFICES ASSUME NEW S \in (SUBSET new) \ {{}} PROVE \E n \in S : \A m \in S : ~Leads(d, n, m)
    BY DEF WithoutCycle
  <2>1. CASE S \subseteq old
    BY <1>10, <2>1 DEF WithoutCycle
  <2>2. CASE S = {x}
    BY <1>8, <1>9, <2>2
  <2>3. CASE ~(S \subseteq old) /\ S # {x}
    <3>1. S \ {x} \in (SUBSET old) \ {{}}
      BY <1>8, <2>3
    <3>2. PICK n \in S \ {x} : \A m \in S \ {x} : ~Leads(d, n, m)
      BY <1>10, <3>1 DEF WithoutCycle
    <3>3. ~Leads(d, n, x)
      BY <1>8, <1>10, <3>1, <3>2 DEF ClosedUnder
    <3> QED
      BY <3>2, <3>3
  <2> QED
    BY <2>1, <2>2, <2>3
<1>13. PathOk(g, v, d)
  <2>1. \A i \in DOMAIN g : i \in DOMAIN f /\ g[i] = f[i] /\ i < L
    BY <1>1, <1>3, <1>4
  <2>2. \A i \in DOMAIN g : i < Len(g) => g[i + 1] = f[i + 1]
    BY <1>1, <1>3, <1>4
  <2> QED
    BY <1>3, <1>5, <2>1, <2>2 DEF PathOk, L
<1>14. EdgesAccounted(g, v, d, {})
  <2> SUFFICES ASSUME NEW i \in DOMAIN g, NEW m, Leads(d, g[i].node, m)
               PROVE  \/ m \in g[i].todo \/ m \in new
                      \/ i < Len(g) /\ m = g[i + 1].node
    BY DEF EdgesAccounted, new
  <2>1. i \in DOMAIN f /\ g[i] = f[i] /\ i < L
    BY <1>1, <1>3, <1>4
  <2>2. \/ m \in f[i].todo \/ m \in old
        \/ m = f[i + 1].node
    BY <2>1 DEF SearchOk, EdgesAccounted, old, L
  <2>3. CASE i = L - 1
    BY <1>1, <1>8, <2>1, <2>2, <2>3 DEF x
  <2>4. CASE i # L - 1
    <3>1. i < Len(g) /\ g[i + 1] = f[i + 1]
      BY <1>1, <1>3, <1>4, <2>1, <2>4
    <3> QED
      BY <1>8, <2>1, <2>2, <3>1
  <2> QED
    BY <2>3, <2>4
<1> QED
  BY <1>11, <1>12, <1>13, <1>14 DEF SearchOk, new, g
(* Nothing has been loaded. *)
LEMMA LoaderStarts ==
  ASSUME LoaderInit
  PROVE  LoaderInv
BY DEF LoaderInit, LoaderInv

(* A load begins with an empty search, of a document that passed the first checks. *)
LEMMA LoadBegins ==
  ASSUME LoaderInv, LoadFromData
  PROVE  LoaderInv'
<1>1. outcome' \in {"duplicate", "unknown", "searching"} /\ loads' \in Nat /\ loads' # 0
  BY DEF LoaderInv, LoadFromData
<1>2. outcome' = "searching" => UniqueIds(document') /\ KnownEdges(document')
  BY DEF LoadFromData
<1>3. search'.frames = <<>> /\ search'.visited = {}
  BY DEF LoadFromData, NoSearch
<1>4. SearchOk(search'.frames, search'.visited, document')
  BY <1>3, EmptySearch
<1> HIDE DEF UniqueIds, KnownEdges
<1> QED
  BY <1>1, <1>2, <1>4 DEF LoaderInv

(* The search looks at a neighbor: it is entered, finished already, or closes a cycle. *)
LEMMA LookKeepsLoader ==
  ASSUME LoaderInv, NEW n, LookAt(n)
  PROVE  LoaderInv'
<1> DEFINE f == search.frames
           v == search.visited
           d == document
           g == [f EXCEPT ![Len(f)].todo = @ \ {n}]
<1>1. /\ outcome = "searching" /\ f # <<>> /\ n \in f[Len(f)].todo
      /\ document' = d /\ loads' = loads
      /\ n \notin v => search' = Enter(n, g) /\ outcome' = outcome
      /\ n \in v => /\ search' = [visited |-> v, frames |-> g]
                    /\ outcome' = IF n \in RecStack THEN "circular" ELSE outcome
  BY DEF LookAt, Top
<1>2. loads \in Nat /\ loads # 0 /\ UniqueIds(d) /\ KnownEdges(d) /\ SearchOk(f, v, d)
  BY <1>1 DEF LoaderInv
<1>3. /\ PathOk(g, v, d) /\ EdgesAccounted(g, v, d, {n}) /\ g # <<>> /\ Len(g) = Len(f)
      /\ OnStack(g) = OnStack(f) /\ Leads(d, g[Len(g)].node, n) /\ n \in Ids(d)
  <2> HIDE DEF f, v, d, g
  <2> QED
    BY <1>1, <1>2, LookKeepsPath DEF g
<1>4. ClosedUnder(Finished(g, v), d) /\ WithoutCycle(Finished(g, v), d)
  BY <1>2, <1>3 DEF SearchOk, Finished
<1>5. RecStack = OnStack(f)
  BY DEF RecStack, OnStack
<1>6. CASE n \notin v
  <2>1. SearchOk(Append(g, FrameIn(d, n)), v \cup {n}, d)
    <3> HIDE DEF f, v, d, g
    <3> QED
      BY <1>2, <1>3, <1>4, <1>6, EnterKeepsSearch
  <2>2. search'.visited = v \cup {n} /\ search'.frames = Append(g, FrameIn(d, n))
    <3> HIDE DEF g
    <3>1. search' = Enter(n, g)
      BY <1>1, <1>6
    <3> QED
      BY <3>1 DEF Enter, Frame, FrameIn
  <2> HIDE DEF f, v, d, g
  <2> QED
    BY <1>1, <1>2, <1>6, <2>1, <2>2 DEF LoaderInv
<1>7. CASE n \in v /\ n \in RecStack
  <2>1. HasCycle(d)
    <3> HIDE DEF f, v, d, g
    <3> QED
      BY <1>2, <1>3, <1>5, <1>7, LookAtPath
  <2>2. outcome' = "circular"
    BY <1>1, <1>7
  <2> HIDE DEF f, v, d, g
  <2> QED
    BY <1>1, <1>2, <2>1, <2>2 DEF LoaderInv
<1>8. CASE n \in v /\ n \notin RecStack
  <2>1. SearchOk(g, v, d)
    <3>1. n \in Finished(g, v)
      BY <1>3, <1>5, <1>8 DEF Finished
    <3> HIDE DEF f, v, d, g
    <3> QED
      BY <1>3, <1>4, <3>1, LookAtFinished
  <2>2. search'.visited = v /\ search'.frames = g /\ outcome' = outcome
    BY <1>1, <1>8
  <2> HIDE DEF f, v, d, g
  <2> QED
    BY <1>1, <1>2, <2>1, <2>2 DEF LoaderInv
<1> QED
  BY <1>6, <1>7, <1>8

(* A search that has visited every node and has no frame left found no cycle. *)
LEMMA NothingLeft ==
  ASSUME NEW d, NEW v, SearchOk(<<>>, v, d), ToSet(d.nodes) \subseteq v
  PROVE  ~HasCycle(d)
<1>1. Finished(<<>>, v) = v
  BY DEF Finished, OnStack
<1>2. WithoutCycle(v, d)
  BY <1>1 DEF SearchOk
<1> QED
  BY <1>2 DEF WithoutCycle, HasCycle, Leads

(* The step from a node of the list that was not visited. *)
LEMMA FromKeepsLoader ==
  ASSUME LoaderInv, NEW i \in DOMAIN document.nodes, SearchFrom(i)
  PROVE  LoaderInv'
<1> DEFINE n == document.nodes[i]
           v == search.visited
           d == document
<1>1. /\ outcome = "searching" /\ search.frames = <<>> /\ n \notin v
      /\ document' = d /\ loads' = loads /\ outcome' = outcome
      /\ search' = Enter(n, <<>>)
  BY DEF SearchFrom
<1>2. loads \in Nat /\ loads # 0 /\ UniqueIds(d) /\ KnownEdges(d) /\ SearchOk(<<>>, v, d)
  BY <1>1 DEF LoaderInv
<1>3. n \in Ids(d)
  BY DEF Ids, ToSet
<1>4. PathOk(<<>>, v, d) /\ EdgesAccounted(<<>>, v, d, {n})
  BY <1>2 DEF SearchOk, EdgesAccounted
<1>5. ClosedUnder(Finished(<<>>, v), d) /\ WithoutCycle(Finished(<<>>, v), d)
  BY <1>2 DEF SearchOk
<1>6. SearchOk(Append(<<>>, FrameIn(d, n)), v \cup {n}, d)
  <2> HIDE DEF n, v, d
  <2> QED
    BY <1>1, <1>2, <1>3, <1>4, <1>5, EnterKeepsSearch
<1>7. search'.visited = v \cup {n} /\ search'.frames = Append(<<>>, FrameIn(d, n))
  BY <1>1 DEF Enter, Frame, FrameIn
<1> HIDE DEF n, v, d
<1> QED
  BY <1>1, <1>2, <1>6, <1>7 DEF LoaderInv

(* Every step of a load. *)
LEMMA LoaderSteps ==
  ASSUME LoaderInv, LoaderNext \/ UNCHANGED workflowVars
  PROVE  LoaderInv'
<1>1. CASE UNCHANGED workflowVars
  BY <1>1 DEF workflowVars, LoaderInv, UniqueIds, KnownEdges, HasCycle
<1>2. ASSUME NEW ns, NEW es, NEW ins, GiveDocument(ns, es, ins) PROVE LoaderInv'
  BY <1>2 DEF GiveDocument, LoaderInv
<1>3. CASE LoadFromData
  BY <1>3, LoadBegins
<1>4. CASE Backtrack
  <2>1. /\ outcome = "searching" /\ search.frames # <<>> /\ Top.todo = {}
        /\ search'.visited = search.visited /\ search'.frames = Front(search.frames)
        /\ UNCHANGED <<document, loads, outcome>>
    BY <1>4 DEF Backtrack, Left
  <2>2. SearchOk(search'.frames, search'.visited, document)
    BY <2>1, BacktrackKeeps DEF LoaderInv, Top
  <2> HIDE DEF UniqueIds, KnownEdges
  <2> QED
    BY <2>1, <2>2 DEF LoaderInv
<1>5. ASSUME NEW ok, SearchEnds(ok) PROVE LoaderInv'
  <2>1. /\ outcome = "searching" /\ search.frames = <<>> /\ ToSet(document.nodes) \subseteq search.visited
        /\ outcome' \in {"loaded", "invalidStep"}
        /\ UNCHANGED <<document, loads>>
    BY <1>5 DEF SearchEnds
  <2>2. ~HasCycle(document)
    BY <2>1, NothingLeft DEF LoaderInv
  <2> QED
    BY <2>1, <2>2 DEF LoaderInv
<1> QED
  BY <1>1, <1>2, <1>3, <1>4, <1>5, LookKeepsLoader, FromKeepsLoader DEF LoaderNext

(* What the invariant says of a load that ended. *)
LEMMA LoaderFinds ==
  ASSUME LoaderInv
  PROVE  CyclesAreFound
<1>1. ASSUME outcome = "loaded", {e \in document.edges : e[2] = EndNode} = {}
      PROVE  ValidateWorkflow(document, TRUE)
  BY <1>1 DEF LoaderInv, ValidateWorkflow, KnownEdges
<1> QED
  BY <1>1 DEF LoaderInv, CyclesAreFound
-----------------------------------------------------------------------------
(* What insert_after makes of a document. *)

(* A sequence over a set is one over any larger set. *)
LEMMA WiderSeq ==
  ASSUME NEW S, NEW T, S \subseteq T, NEW s \in Seq(S)
  PROVE  s \in Seq(T)
<1>1. s \in [1 .. Len(s) -> S] /\ Len(s) \in Nat
  BY LenProperties
<1>2. s \in [1 .. Len(s) -> T]
  BY <1>1
<1> QED BY <1>1, <1>2

Spliced(s, p, w) == SubSeq(s, 1, p) \o w \o SubSeq(s, p + 1, Len(s))

SpliceOf(r, s, p, w) ==
  /\ Len(r) = Len(s) + Len(w)
  /\ \A i \in 1 .. Len(s) + Len(w) :
       r[i] = IF i <= p THEN s[i] ELSE IF i <= p + Len(w) THEN w[i - p] ELSE s[i - Len(w)]

(* A sequence behind the p-th element of another one. *)
LEMMA SplicedElements ==
  ASSUME NEW T, NEW s \in Seq(T), NEW w \in Seq(T), NEW p \in 0 .. Len(s)
  PROVE  Spliced(s, p, w) \in Seq(T) /\ SpliceOf(Spliced(s, p, w), s, p, w)
<1> DEFINE n == Len(s)  m == Len(w)
           a == SubSeq(s, 1, p)  b == SubSeq(s, p + 1, n)  aw == a \o w  r == aw \o b
<1>1. n \in Nat /\ m \in Nat /\ p \in Nat /\ p <= n
  BY LenProperties
<1>2. \A i \in 1 .. n : s[i] \in T
  BY ElementOfSeq
<1>3. a \in Seq(T) /\ Len(a) = p /\ \A i \in 1 .. p : a[i] = s[i]
  <2>1. \A i \in 1 .. p : s[i] \in T
    BY <1>1, <1>2
  <2>2. /\ a \in Seq(T) /\ Len(a) = IF 1 <= p THEN p - 1 + 1 ELSE 0
        /\ \A i \in 1 .. p - 1 + 1 : a[i] = s[1 + i - 1]
    BY <1>1, <2>1, SubSeqProperties
  <2> QED BY <1>1, <2>2
<1>4. b \in Seq(T) /\ Len(b) = n - p /\ \A i \in 1 .. n - p : b[i] = s[p + i]
  <2>1. \A i \in p + 1 .. n : s[i] \in T
    BY <1>1, <1>2
  <2>2. /\ b \in Seq(T) /\ Len(b) = IF p + 1 <= n THEN n - (p + 1) + 1 ELSE 0
        /\ \A i \in 1 .. n - (p + 1) + 1 : b[i] = s[(p + 1) + i - 1]
    BY <1>1, <2>1, SubSeqProperties
  <2>3. n - (p + 1) + 1 = n - p
    BY <1>1
  <2>4. ASSUME NEW i \in 1 .. n - p PROVE b[i] = s[p + i]
    <3>1. (p + 1) + i - 1 = p + i
      BY <1>1
    <3> QED BY <2>2, <2>3, <3>1
  <2>5. (IF p + 1 <= n THEN n - (p + 1) + 1 ELSE 0) = n - p
    BY <1>1
  <2> HIDE DEF b
  <2> QED BY <2>2, <2>4, <2>5
<1> HIDE DEF a, b
<1>5. /\ aw \in Seq(T) /\ Len(aw) = p + m
      /\ \A i \in 1 .. p + m : aw[i] = IF i <= p THEN s[i] ELSE w[i - p]
  <2>1. /\ aw \in Seq(T) /\ Len(aw) = Len(a) + Len(w)
        /\ \A i \in 1 .. Len(a) + Len(w) : aw[i] = IF i <= Len(a) THEN a[i] ELSE w[i - Len(a)]
    BY <1>3, ConcatProperties
  <2> HIDE DEF aw
  <2> QED BY <1>1, <1>3, <2>1
<1> HIDE DEF aw
<1>6. /\ r \in Seq(T) /\ Len(r) = n + m
      /\ \A i \in 1 .. n + m : r[i] = IF i <= p + m THEN aw[i] ELSE b[i - (p + m)]
  <2>1. /\ r \in Seq(T) /\ Len(r) = Len(aw) + Len(b)
        /\ \A i \in 1 .. Len(aw) + Len(b) : r[i] = IF i <= Len(aw) THEN aw[i] ELSE b[i - Len(aw)]
    BY <1>4, <1>5, ConcatProperties
  <2> HIDE DEF r
  <2> QED BY <1>1, <1>4, <1>5, <2>1
<1>7. r = Spliced(s, p, w)
  BY DEF Spliced, a, b, aw
<1> HIDE DEF r
<1>8. ASSUME NEW i \in 1 .. n + m
      PROVE  r[i] = IF i <= p THEN s[i] ELSE IF i <= p + m THEN w[i - p] ELSE s[i - m]
  <2>1. CASE i <= p + m
    BY <1>1, <1>5, <1>6, <2>1
  <2>2. CASE i > p + m
    <3>1. i - (p + m) \in 1 .. n - p /\ p + (i - (p + m)) = i - m
      BY <1>1, <2>2
    <3>2. r[i] = b[i - (p + m)]
      BY <1>1, <1>6, <2>2
    <3>3. b[i - (p + m)] = s[p + (i - (p + m))]
      BY <1>4, <3>1
    <3> QED BY <1>1, <2>2, <3>1, <3>2, <3>3
  <2> QED BY <1>1, <2>1, <2>2
<1>9. SpliceOf(r, s, p, w)
  BY <1>6, <1>8 DEF SpliceOf
<1> QED BY <1>6, <1>7, <1>9

(* The first elements of a sequence. *)
LEMMA Beginnings ==
  ASSUME NEW T, NEW w \in Seq(T), NEW j \in 0 .. Len(w)
  PROVE  /\ SubSeq(w, 1, j) \in Seq(T) /\ Len(SubSeq(w, 1, j)) = j
         /\ \A i \in 1 .. j : SubSeq(w, 1, j)[i] = w[i]
<1>1. j \in Nat /\ j <= Len(w) /\ Len(w) \in Nat
  BY LenProperties
<1>2. \A i \in 1 .. j : w[i] \in T
  BY <1>1, ElementOfSeq
<1>3. /\ SubSeq(w, 1, j) \in Seq(T) /\ Len(SubSeq(w, 1, j)) = IF 1 <= j THEN j - 1 + 1 ELSE 0
      /\ \A i \in 1 .. j - 1 + 1 : SubSeq(w, 1, j)[i] = w[1 + i - 1]
  BY <1>1, <1>2, SubSeqProperties
<1> QED BY <1>1, <1>3

(* One more element goes behind those that were put there before. *)
LEMMA SplicedOneMore ==
  ASSUME NEW T, NEW s \in Seq(T), NEW w \in Seq(T), NEW p \in 0 .. Len(s), NEW j \in 1 .. Len(w)
  PROVE  InsertAt(Spliced(s, p, SubSeq(w, 1, j - 1)), p + j, w[j]) = Spliced(s, p, SubSeq(w, 1, j))
<1> DEFINE n == Len(s)  before == SubSeq(w, 1, j - 1)  after == SubSeq(w, 1, j)
           x == Spliced(s, p, before)  y == Spliced(s, p, after)  e == <<w[j]>>
<1>1. n \in Nat /\ p \in Nat /\ p <= n /\ j \in Nat /\ j >= 1 /\ j <= Len(w) /\ Len(w) \in Nat
      /\ j - 1 \in 0 .. Len(w) /\ j \in 0 .. Len(w) /\ w[j] \in T
  BY LenProperties, ElementOfSeq
<1>2. /\ before \in Seq(T) /\ Len(before) = j - 1 /\ \A i \in 1 .. j - 1 : before[i] = w[i]
      /\ after \in Seq(T) /\ Len(after) = j /\ \A i \in 1 .. j : after[i] = w[i]
  BY <1>1, Beginnings
<1> HIDE DEF before, after
<1>3. /\ x \in Seq(T) /\ Len(x) = n + (j - 1)
      /\ \A i \in 1 .. n + (j - 1) :
           x[i] = IF i <= p THEN s[i] ELSE IF i <= p + (j - 1) THEN before[i - p] ELSE s[i - (j - 1)]
  <2>1. x \in Seq(T) /\ SpliceOf(x, s, p, before)
    BY <1>2, SplicedElements
  <2> HIDE DEF x
  <2> QED BY <1>2, <2>1 DEF SpliceOf
<1>4. /\ y \in Seq(T) /\ Len(y) = n + j
      /\ \A i \in 1 .. n + j :
           y[i] = IF i <= p THEN s[i] ELSE IF i <= p + j THEN after[i - p] ELSE s[i - j]
  <2>1. y \in Seq(T) /\ SpliceOf(y, s, p, after)
    BY <1>2, SplicedElements
  <2> HIDE DEF y
  <2> QED BY <1>2, <2>1 DEF SpliceOf
<1> DEFINE q == p + j - 1  z == Spliced(x, q, e)
<1>5. e \in Seq(T) /\ Len(e) = 1 /\ e[1] = w[j]
  BY <1>1
<1> HIDE DEF x, y, e
<1>6. q \in 0 .. Len(x) /\ q \in Nat /\ q + 1 = p + j /\ (p + j) - 1 = q
  <2>1. Len(x) = n + (j - 1)
    BY <1>3
  <2> QED BY <1>1, <2>1
<1>7. InsertAt(x, p + j, w[j]) = z
  BY <1>6 DEF InsertAt, Spliced, e
<1> HIDE DEF q
<1>8. /\ z \in Seq(T) /\ Len(z) = n + j
      /\ \A i \in 1 .. n + j : z[i] = IF i <= q THEN x[i] ELSE IF i <= q + 1 THEN e[i - q] ELSE x[i - 1]
  <2>1. z \in Seq(T) /\ SpliceOf(z, x, q, e)
    BY <1>3, <1>5, <1>6, SplicedElements
  <2>2. Len(x) + Len(e) = n + j
    BY <1>1, <1>3, <1>5
  <2> HIDE DEF z
  <2> QED BY <1>5, <2>1, <2>2 DEF SpliceOf
<1> HIDE DEF z
<1>9. ASSUME NEW i \in 1 .. n + j PROVE z[i] = y[i]
  <2>1. CASE i <= p
    <3>1. i <= q /\ i \in 1 .. n + (j - 1)
      BY <1>1, <1>6, <2>1
    <3> QED BY <1>3, <1>4, <1>8, <2>1, <3>1
  <2>2. CASE p < i /\ i <= q
    <3>1. i \in 1 .. n + (j - 1) /\ i <= p + (j - 1) /\ i - p \in 1 .. j - 1 /\ i - p \in 1 .. j
          /\ ~(i <= p) /\ i <= p + j
      BY <1>1, <1>6, <2>2
    <3>2. z[i] = w[i - p]
      BY <1>2, <1>3, <1>8, <2>2, <3>1
    <3>3. y[i] = w[i - p]
      BY <1>2, <1>4, <3>1
    <3> QED BY <3>2, <3>3
  <2>3. CASE i = p + j
    <3>1. ~(i <= q) /\ i <= q + 1 /\ i - q = 1 /\ ~(i <= p) /\ i - p = j /\ j \in 1 .. j
      BY <1>1, <1>6, <2>3
    <3>2. z[i] = w[j]
      BY <1>5, <1>8, <3>1
    <3>3. y[i] = w[j]
      BY <1>2, <1>4, <2>3, <3>1
    <3> QED BY <3>2, <3>3
  <2>4. CASE i > p + j
    <3>1. /\ ~(i <= q) /\ ~(i <= q + 1) /\ i - 1 \in 1 .. n + (j - 1)
          /\ ~(i - 1 <= p) /\ ~(i - 1 <= p + (j - 1)) /\ (i - 1) - (j - 1) = i - j
          /\ ~(i <= p) /\ ~(i <= p + j)
      BY <1>1, <1>6, <2>4
    <3>2. z[i] = x[i - 1]
      BY <1>8, <3>1
    <3>3. x[i - 1] = s[(i - 1) - (j - 1)]
      BY <1>3, <3>1
    <3>4. y[i] = s[i - j]
      BY <1>4, <3>1
    <3> QED BY <3>1, <3>2, <3>3, <3>4
  <2> QED BY <1>1, <1>6, <2>1, <2>2, <2>3, <2>4
<1>10. z = y
  BY <1>4, <1>8, <1>9, SeqEqual
<1> QED BY <1>7, <1>10 DEF x, y, before, after

Distinct(s) == \A i, j \in 1 .. Len(s) : s[i] = s[j] => i = j

(* The number of elements of a sequence is its length when no two are the same. *)
LEMMA UniqueIsInjective ==
  ASSUME NEW T, NEW s \in Seq(T)
  PROVE  Cardinality(ToSet(s)) = Len(s) <=> Distinct(s)
<1> DEFINE n == Len(s)
<1>1. n \in Nat /\ DOMAIN s = 1 .. n /\ s \in [1 .. n -> T]
  BY LenProperties
<1>2. s \in Surjection(1 .. n, ToSet(s))
  BY <1>1 DEF Surjection, ToSet
<1>3. IsFiniteSet(1 .. n) /\ Cardinality(1 .. n) = n
  BY <1>1, FS_Interval
<1>4. Cardinality(ToSet(s)) = n <=> s \in Injection(1 .. n, ToSet(s))
  BY <1>2, <1>3, FS_Surjection
<1>5. s \in Injection(1 .. n, ToSet(s)) <=> \A i, j \in 1 .. n : s[i] = s[j] => i = j
  BY <1>1, <1>2 DEF Injection, Surjection, IsInjective
<1> QED BY <1>4, <1>5 DEF Distinct

IsDocument(d) == d = [nodes |-> d.nodes, edges |-> d.edges, insert |-> d.insert]
ArePairs(es) == \A e \in es : e = <<e[1], e[2]>>

\* The document d after j of the nodes of w went behind its p-th.
Grown(d, p, w, j) ==
  [nodes |-> Spliced(d.nodes, p, SubSeq(w, 1, j)),
   edges |-> d.edges \cup {<<d.nodes[p], w[k]>> : k \in 1 .. j}
               \cup (IF p < Len(d.nodes) THEN {<<w[k], d.nodes[p + 1]>> : k \in 1 .. j} ELSE {}),
   insert |-> d.insert]

\* No node has been inserted yet.
LEMMA NothingGrown ==
  ASSUME NEW T, NEW d, IsDocument(d), d.nodes \in Seq(T), NEW p \in 1 .. Len(d.nodes), NEW w \in Seq(T)
  PROVE  Grown(d, p, w, 0) = d
<1>0. PICK s \in Seq(T) : s = d.nodes
  OBVIOUS
<1> DEFINE none == SubSeq(w, 1, 0)
<1>1. Len(s) \in Nat /\ Len(w) \in Nat /\ p \in 0 .. Len(s) /\ 0 \in 0 .. Len(w)
  BY <1>0, LenProperties
<1>2. none \in Seq(T) /\ Len(none) = 0
  BY <1>1, Beginnings
<1> HIDE DEF none
<1>3. Spliced(s, p, none) \in Seq(T) /\ SpliceOf(Spliced(s, p, none), s, p, none)
  <2>1. p \in 0 .. Len(s)
    BY <1>1
  <2> QED BY <1>2, <2>1, SplicedElements
<1>4. Len(Spliced(s, p, none)) = Len(s) /\ \A i \in 1 .. Len(s) : Spliced(s, p, none)[i] = s[i]
  <2> DEFINE r == Spliced(s, p, none)
  <2> HIDE DEF r
  <2>1. SpliceOf(r, s, p, none)
    BY <1>3 DEF r
  <2>2. Len(r) = Len(s) /\ \A i \in 1 .. Len(s) : r[i] = s[i]
    BY <1>1, <1>2, <2>1 DEF SpliceOf
  <2> QED BY <2>2 DEF r
<1>5. Spliced(s, p, none) = s
  BY <1>3, <1>4, SeqEqual
<1>6. Grown(d, p, w, 0) = [nodes |-> s, edges |-> d.edges, insert |-> d.insert]
  <2>1. 1 .. 0 = {}
    OBVIOUS
  <2>2. {<<s[p], w[k]>> : k \in 1 .. 0} = {} /\ {<<w[k], s[p + 1]>> : k \in 1 .. 0} = {}
    BY <2>1
  <2> HIDE DEF none
  <2>3. Spliced(d.nodes, p, SubSeq(w, 1, 0)) = s
    BY <1>0, <1>5 DEF none
  <2>4. /\ {<<d.nodes[p], w[k]>> : k \in 1 .. 0} = {}
        /\ {<<w[k], d.nodes[p + 1]>> : k \in 1 .. 0} = {}
    BY <1>0, <2>2
  <2> QED BY <2>3, <2>4 DEF Grown
<1> QED BY <1>0, <1>6 DEF IsDocument

\* InsertOne inserts one more.
LEMMA OneMoreGrown ==
  ASSUME NEW T, NEW d, d.nodes \in Seq(T), NEW p \in 1 .. Len(d.nodes), NEW w \in Seq(T),
         NEW j \in 1 .. Len(w)
  PROVE  InsertOne(Grown(d, p, w, j - 1), p, j, w[j]) = Grown(d, p, w, j)
<1>0. PICK s \in Seq(T) : s = d.nodes
  OBVIOUS
<1> DEFINE n == Len(s)
           a == Spliced(s, p, SubSeq(w, 1, j - 1))  b == Spliced(s, p, SubSeq(w, 1, j))
<1>1. n \in Nat /\ p \in 0 .. n /\ p \in Nat /\ p >= 1 /\ p <= n /\ j \in Nat /\ j >= 1
      /\ Len(w) \in Nat /\ j - 1 \in 0 .. Len(w) /\ j \in 0 .. Len(w)
  BY <1>0, LenProperties
<1>2. InsertAt(a, p + j, w[j]) = b
  BY <1>1, SplicedOneMore
<1>3. Len(b) = n + j /\ a[p] = s[p] /\ (p < n => b[p + j + 1] = s[p + 1])
  <2> DEFINE one == SubSeq(w, 1, j - 1)  two == SubSeq(w, 1, j)
  <2>1. one \in Seq(T) /\ Len(one) = j - 1 /\ two \in Seq(T) /\ Len(two) = j
    BY <1>1, Beginnings
  <2> HIDE DEF one, two
  <2>0. p \in 0 .. Len(s)
    BY <1>1
  <2>2. SpliceOf(b, s, p, two)
    BY <2>0, <2>1, SplicedElements DEF two
  <2>3. SpliceOf(a, s, p, one)
    BY <2>0, <2>1, SplicedElements DEF one
  <2> HIDE DEF a, b
  <2>4. a[p] = s[p]
    BY <1>1, <2>1, <2>3 DEF SpliceOf
  <2>5. ASSUME p < n PROVE b[p + j + 1] = s[p + 1]
    <3>1. p + j + 1 \in 1 .. n + j /\ ~(p + j + 1 <= p) /\ ~(p + j + 1 <= p + j)
          /\ (p + j + 1) - j = p + 1
      BY <1>1, <2>5
    <3> QED BY <2>1, <2>2, <3>1 DEF SpliceOf
  <2> QED BY <2>1, <2>2, <2>4, <2>5 DEF SpliceOf
<1> HIDE DEF a, b
<1>4. \A S, x : {x} \cup S = S \cup {x}
  OBVIOUS
<1>5. /\ {<<s[p], w[k]>> : k \in 1 .. j} = {<<s[p], w[k]>> : k \in 1 .. j - 1} \cup {<<s[p], w[j]>>}
      /\ {<<w[k], s[p + 1]>> : k \in 1 .. j} = {<<w[k], s[p + 1]>> : k \in 1 .. j - 1} \cup {<<w[j], s[p + 1]>>}
  <2>1. 1 .. j = (1 .. j - 1) \cup {j}
    BY <1>1
  <2> QED BY <2>1
<1>6. p + j < Len(b) <=> p < n
  BY <1>1, <1>3
<1> DEFINE g == Grown(d, p, w, j - 1)
<1>7. /\ g.nodes = a /\ g.insert = d.insert
      /\ g.edges = d.edges \cup {<<s[p], w[k]>> : k \in 1 .. j - 1}
                    \cup (IF p < n THEN {<<w[k], s[p + 1]>> : k \in 1 .. j - 1} ELSE {})
  BY <1>0 DEF Grown, a
<1> HIDE DEF g
<1> DEFINE two == g.edges \cup {<<s[p], w[j]>>}
                      \cup (IF p + j < Len(b) THEN {<<w[j], b[p + j + 1]>>} ELSE {})
           all == d.edges \cup {<<s[p], w[k]>> : k \in 1 .. j}
                      \cup (IF p < n THEN {<<w[k], s[p + 1]>> : k \in 1 .. j} ELSE {})
<1>8. InsertOne(g, p, j, w[j]) = [nodes |-> b, edges |-> two, insert |-> d.insert]
  BY <1>2, <1>3, <1>7 DEF InsertOne
<1>9. two = all
  <2>1. CASE p < n
    BY <1>3, <1>5, <1>6, <1>7, <2>1
  <2>2. CASE ~(p < n)
    BY <1>3, <1>5, <1>6, <1>7, <2>2
  <2> QED BY <2>1, <2>2
<1>10. Grown(d, p, w, j) = [nodes |-> b, edges |-> all, insert |-> d.insert]
  BY <1>0 DEF Grown, b
<1> HIDE DEF two, all
<1> QED BY <1>8, <1>9, <1>10 DEF g

(* _apply_insert_after puts the new nodes behind the first node with the id. *)
LEMMA InsertedIsGrown ==
  ASSUME NEW T, NEW d, IsDocument(d), d.nodes \in Seq(T), d.insert # <<>>,
         d.insert[1] \in ToSet(d.nodes), d.insert[2] \in Seq(T)
  PROVE  \E p \in 1 .. Len(d.nodes) :
           /\ d.nodes[p] = d.insert[1]
           /\ Inserted(d) = Grown(d, p, d.insert[2], Len(d.insert[2]))
<1> DEFINE s == d.nodes  x == d.insert[1]  w == d.insert[2]  m == Len(w)
           p == CHOOSE i \in DOMAIN s : s[i] = x /\ \A h \in 1 .. i - 1 : s[h] # x
<1>0. DOMAIN s = 1 .. Len(s) /\ Len(s) \in Nat /\ m \in Nat
  BY LenProperties
<1>1. p \in 1 .. Len(s) /\ s[p] = x
  <2> DEFINE Q == {i \in 1 .. Len(s) : s[i] = x}
  <2>1. Q \in SUBSET Nat /\ Q # {}
    BY <1>0 DEF ToSet
  <2>2. PICK i \in Q : \A k \in Q : i <= k
    BY <2>1, FirstFailure
  <2>3. \A h \in 1 .. i - 1 : h \in 1 .. Len(s) /\ ~(i <= h)
    BY <1>0
  <2>4. \A h \in 1 .. i - 1 : s[h] # x
    BY <2>2, <2>3
  <2>5. \E k \in DOMAIN s : s[k] = x /\ \A h \in 1 .. k - 1 : s[h] # x
    BY <1>0, <2>4
  <2> QED BY <1>0, <2>5
<1> DEFINE Is(g) == g = [j \in 0 .. m |-> IF j = 0 THEN d ELSE InsertOne(g[j - 1], p, j, w[j])]
           grown == CHOOSE g : Is(g)
           h == [j \in 0 .. m |-> Grown(d, p, w, j)]
<1>2. Inserted(d) = grown[m]
  BY DEF Inserted
<1> HIDE DEF p
<1>3. Is(h)
  <2> SUFFICES ASSUME NEW j \in 0 .. m
               PROVE  h[j] = IF j = 0 THEN d ELSE InsertOne(h[j - 1], p, j, w[j])
    OBVIOUS
  <2>1. CASE j = 0
    BY <1>1, <2>1, NothingGrown
  <2>2. CASE j # 0
    <3>1. j \in 1 .. m /\ j - 1 \in 0 .. m
      BY <1>0, <2>2
    <3>2. InsertOne(Grown(d, p, w, j - 1), p, j, w[j]) = Grown(d, p, w, j)
      BY <1>1, <3>1, OneMoreGrown
    <3> QED BY <2>2, <3>1, <3>2
  <2> QED BY <2>1, <2>2
<1>4. Is(grown)
  BY <1>3
<1> HIDE DEF grown
<1>5. grown[m] = h[m]
  <2> DEFINE P == {j \in Nat : j <= m => grown[j] = h[j]}
  <2>1. 0 \in P
    <3>1. grown[0] = d
      BY <1>0, <1>4
    <3>2. h[0] = d
      <4> HIDE DEF h
      <4> QED BY <1>0, <1>3
    <3> QED BY <3>1, <3>2
  <2>2. ASSUME NEW j \in P PROVE j + 1 \in P
    <3>1. CASE j + 1 <= m
      <4>1. j + 1 \in 0 .. m /\ j + 1 # 0 /\ (j + 1) - 1 = j /\ j <= m
        BY <1>0, <3>1
      <4>2. grown[j + 1] = InsertOne(grown[j], p, j + 1, w[j + 1])
        BY <1>4, <4>1
      <4>3. h[j + 1] = InsertOne(h[j], p, j + 1, w[j + 1])
        <5> HIDE DEF h
        <5> QED BY <1>3, <4>1
      <4> QED BY <4>1, <4>2, <4>3
    <3> QED BY <3>1
  <2>3. P = Nat
    <3> HIDE DEF P
    <3>1. P \in SUBSET Nat
      BY DEF P
    <3> QED BY <2>1, <2>2, <3>1, AllNumbers
  <2>4. m \in P
    BY <1>0, <2>3
  <2> HIDE DEF h
  <2> QED BY <1>0, <2>4
<1>6. h[m] = Grown(d, p, w, m)
  BY <1>0
<1> QED BY <1>1, <1>2, <1>5, <1>6

\* The nodes after all of w have been inserted.
LEMMA GrownNodes ==
  ASSUME NEW T, NEW d, d.nodes \in Seq(T), NEW p \in 1 .. Len(d.nodes), NEW w \in Seq(T)
  PROVE  LET r == Grown(d, p, w, Len(w)).nodes
         IN  r = Spliced(d.nodes, p, w) /\ r \in Seq(T) /\ SpliceOf(r, d.nodes, p, w)
<1>1. Len(w) \in Nat /\ Len(w) \in 0 .. Len(w) /\ Len(d.nodes) \in Nat
  BY LenProperties
<1> DEFINE whole == SubSeq(w, 1, Len(w))
<1>2. whole \in Seq(T) /\ Len(whole) = Len(w) /\ \A i \in 1 .. Len(w) : whole[i] = w[i]
  BY <1>1, Beginnings
<1> HIDE DEF whole
<1>3. whole = w
  BY <1>2, SeqEqual
<1>4. p \in 0 .. Len(d.nodes)
  BY <1>1
<1>5. Spliced(d.nodes, p, w) \in Seq(T) /\ SpliceOf(Spliced(d.nodes, p, w), d.nodes, p, w)
  BY <1>4, SplicedElements
<1>6. Grown(d, p, w, Len(w)).nodes = Spliced(d.nodes, p, w)
  BY <1>3 DEF Grown, whole
<1> QED BY <1>5, <1>6

Placed(r, s, p, w) ==
  /\ \A i \in 1 .. Len(s) :
       LET at == IF i <= p THEN i ELSE i + Len(w) IN at \in 1 .. Len(r) /\ r[at] = s[i]
  /\ \A k \in 1 .. Len(w) : p + k \in 1 .. Len(r) /\ r[p + k] = w[k]
  /\ \A a \in 1 .. Len(r) :
       \/ \E i \in 1 .. Len(s) : a = (IF i <= p THEN i ELSE i + Len(w)) /\ r[a] = s[i]
       \/ \E k \in 1 .. Len(w) : a = p + k /\ r[a] = w[k]

(* Where the elements of both sequences are. *)
LEMMA SplicePlaces ==
  ASSUME NEW T, NEW s \in Seq(T), NEW w \in Seq(T), NEW p \in 0 .. Len(s), NEW r \in Seq(T),
         SpliceOf(r, s, p, w)
  PROVE  Placed(r, s, p, w)
<1> DEFINE n == Len(s)  m == Len(w)
<1>1. n \in Nat /\ m \in Nat /\ p \in Nat /\ p <= n /\ Len(r) = n + m
  BY LenProperties DEF SpliceOf
<1>2. \A i \in 1 .. n + m :
        r[i] = IF i <= p THEN s[i] ELSE IF i <= p + m THEN w[i - p] ELSE s[i - m]
  BY DEF SpliceOf
<1>3. ASSUME NEW i \in 1 .. n
      PROVE  LET at == IF i <= p THEN i ELSE i + m IN at \in 1 .. n + m /\ r[at] = s[i]
  <2>1. CASE i <= p
    BY <1>1, <1>2, <2>1
  <2>2. CASE ~(i <= p)
    <3>1. i + m \in 1 .. n + m /\ ~(i + m <= p) /\ ~(i + m <= p + m) /\ (i + m) - m = i
      BY <1>1, <2>2
    <3> QED BY <1>2, <2>2, <3>1
  <2> QED BY <2>1, <2>2
<1>4. ASSUME NEW k \in 1 .. m PROVE p + k \in 1 .. n + m /\ r[p + k] = w[k]
  <2>1. p + k \in 1 .. n + m /\ ~(p + k <= p) /\ p + k <= p + m /\ (p + k) - p = k
    BY <1>1
  <2> QED BY <1>2, <2>1
<1>5. ASSUME NEW a \in 1 .. n + m
      PROVE  \/ \E i \in 1 .. n : a = (IF i <= p THEN i ELSE i + m) /\ r[a] = s[i]
             \/ \E k \in 1 .. m : a = p + k /\ r[a] = w[k]
  <2>1. CASE a <= p
    BY <1>1, <1>2, <2>1
  <2>2. CASE p < a /\ a <= p + m
    <3>1. a - p \in 1 .. m /\ a = p + (a - p) /\ ~(a <= p)
      BY <1>1, <2>2
    <3> QED BY <1>2, <2>2, <3>1
  <2>3. CASE a > p + m
    <3>1. a - m \in 1 .. n /\ ~(a - m <= p) /\ a = (a - m) + m /\ ~(a <= p) /\ ~(a <= p + m)
      BY <1>1, <2>3
    <3> QED BY <1>2, <3>1
  <2> QED BY <1>1, <2>1, <2>2, <2>3
<1> QED BY <1>1, <1>3, <1>4, <1>5 DEF Placed

(* It has the elements of both sequences, and no others. *)
LEMMA SplicedContents ==
  ASSUME NEW T, NEW s \in Seq(T), NEW w \in Seq(T), NEW p \in 0 .. Len(s), NEW r \in Seq(T),
         SpliceOf(r, s, p, w)
  PROVE  ToSet(r) = ToSet(s) \cup ToSet(w)
<1> DEFINE n == Len(s)  m == Len(w)
<1>1. n \in Nat /\ m \in Nat /\ p \in Nat /\ p <= n /\ DOMAIN s = 1 .. n /\ DOMAIN w = 1 .. m
      /\ DOMAIN r = 1 .. Len(r)
  BY LenProperties
<1>2. /\ \A i \in 1 .. n :
           LET at == IF i <= p THEN i ELSE i + m IN at \in 1 .. Len(r) /\ r[at] = s[i]
      /\ \A k \in 1 .. m : p + k \in 1 .. Len(r) /\ r[p + k] = w[k]
      /\ \A a \in 1 .. Len(r) :
           \/ \E i \in 1 .. n : a = (IF i <= p THEN i ELSE i + m) /\ r[a] = s[i]
           \/ \E k \in 1 .. m : a = p + k /\ r[a] = w[k]
  <2>1. Placed(r, s, p, w)
    BY SplicePlaces
  <2> QED BY <2>1 DEF Placed
<1>m. /\ \A v : v \in ToSet(s) <=> \E i \in 1 .. n : v = s[i]
      /\ \A v : v \in ToSet(w) <=> \E k \in 1 .. m : v = w[k]
      /\ \A v : v \in ToSet(r) <=> \E a \in 1 .. Len(r) : v = r[a]
  <2>1. ToSet(s) = {s[i] : i \in 1 .. n} /\ ToSet(w) = {w[k] : k \in 1 .. m}
        /\ ToSet(r) = {r[a] : a \in 1 .. Len(r)}
    BY <1>1 DEF ToSet
  <2> QED BY <2>1
<1>3. ToSet(r) = ToSet(s) \cup ToSet(w)
  <2>1. ASSUME NEW v, v \in ToSet(r) PROVE v \in ToSet(s) \cup ToSet(w)
    <3>1. PICK a \in 1 .. Len(r) : v = r[a]
      BY <1>m, <2>1
    <3>2. (\E i \in 1 .. n : r[a] = s[i]) \/ (\E k \in 1 .. m : r[a] = w[k])
      BY <1>2
    <3> QED BY <1>m, <3>1, <3>2
  <2>2. ASSUME NEW v, v \in ToSet(s) PROVE v \in ToSet(r)
    <3>1. PICK i \in 1 .. n : v = s[i]
      BY <1>m, <2>2
    <3>2. \E a \in 1 .. Len(r) : r[a] = s[i]
      BY <1>2
    <3> QED BY <1>m, <3>1, <3>2
  <2>3. ASSUME NEW v, v \in ToSet(w) PROVE v \in ToSet(r)
    <3>1. PICK k \in 1 .. m : v = w[k]
      BY <1>m, <2>3
    <3>2. \E a \in 1 .. Len(r) : r[a] = w[k]
      BY <1>2
    <3> QED BY <1>m, <3>1, <3>2
  <2> HIDE DEF n, m
  <2> QED BY <2>1, <2>2, <2>3
<1> QED BY <1>3

(* The insertion of distinct elements keeps the elements distinct. *)
LEMMA SplicedDistinct ==
  ASSUME NEW T, NEW s \in Seq(T), NEW w \in Seq(T), NEW p \in 0 .. Len(s), NEW r \in Seq(T),
         SpliceOf(r, s, p, w), Distinct(s), Distinct(w), ToSet(s) \cap ToSet(w) = {}
  PROVE  Distinct(r)
<1> DEFINE n == Len(s)  m == Len(w)
<1>1. n \in Nat /\ m \in Nat /\ p \in Nat /\ p <= n /\ DOMAIN s = 1 .. n /\ DOMAIN w = 1 .. m
      /\ DOMAIN r = 1 .. Len(r)
  BY LenProperties
<1>2. /\ \A i \in 1 .. n :
           LET at == IF i <= p THEN i ELSE i + m IN at \in 1 .. Len(r) /\ r[at] = s[i]
      /\ \A k \in 1 .. m : p + k \in 1 .. Len(r) /\ r[p + k] = w[k]
      /\ \A a \in 1 .. Len(r) :
           \/ \E i \in 1 .. n : a = (IF i <= p THEN i ELSE i + m) /\ r[a] = s[i]
           \/ \E k \in 1 .. m : a = p + k /\ r[a] = w[k]
  <2>1. Placed(r, s, p, w)
    BY SplicePlaces
  <2> QED BY <2>1 DEF Placed
<1>m. /\ \A v : v \in ToSet(s) <=> \E i \in 1 .. n : v = s[i]
      /\ \A v : v \in ToSet(w) <=> \E k \in 1 .. m : v = w[k]
      /\ \A v : v \in ToSet(r) <=> \E a \in 1 .. Len(r) : v = r[a]
  <2>1. ToSet(s) = {s[i] : i \in 1 .. n} /\ ToSet(w) = {w[k] : k \in 1 .. m}
        /\ ToSet(r) = {r[a] : a \in 1 .. Len(r)}
    BY <1>1 DEF ToSet
  <2> QED BY <2>1
<1>3. /\ ToSet(s) \cap ToSet(w) = {} /\ \A i, j \in 1 .. n : s[i] = s[j] => i = j
      /\ \A i, j \in 1 .. m : w[i] = w[j] => i = j
  BY DEF Distinct
<1>4. ASSUME NEW a \in 1 .. Len(r), NEW b \in 1 .. Len(r), r[a] = r[b]
      PROVE  a = b
  <2>1. \A i \in 1 .. n, k \in 1 .. m : s[i] # w[k]
    <3> SUFFICES ASSUME NEW i \in 1 .. n, NEW k \in 1 .. m, s[i] = w[k] PROVE FALSE
      OBVIOUS
    <3>1. s[i] \in ToSet(s) /\ w[k] \in ToSet(w)
      BY <1>m
    <3> QED BY <1>3, <3>1
  <2>2. CASE \E i \in 1 .. n : a = (IF i <= p THEN i ELSE i + m) /\ r[a] = s[i]
    <3>1. PICK i \in 1 .. n : a = (IF i <= p THEN i ELSE i + m) /\ r[a] = s[i]
      BY <2>2
    <3>2. PICK j \in 1 .. n : b = (IF j <= p THEN j ELSE j + m) /\ r[b] = s[j]
      <4>1. ~ \E k \in 1 .. m : r[b] = w[k]
        BY <1>4, <2>1, <3>1
      <4> QED BY <1>2, <4>1
    <3>3. i = j
      BY <1>3, <1>4, <3>1, <3>2
    <3> QED BY <3>1, <3>2, <3>3
  <2>3. CASE \E k \in 1 .. m : a = p + k /\ r[a] = w[k]
    <3>1. PICK k \in 1 .. m : a = p + k /\ r[a] = w[k]
      BY <2>3
    <3>2. PICK l \in 1 .. m : b = p + l /\ r[b] = w[l]
      <4>1. ~ \E j \in 1 .. n : r[b] = s[j]
        BY <1>4, <2>1, <3>1
      <4> QED BY <1>2, <4>1
    <3>3. w[k] = w[l]
      BY <1>3, <1>4, <3>1, <3>2
    <3>4. k = l
      BY <1>3, <3>3
    <3> QED BY <3>1, <3>2, <3>4
  <2> QED BY <1>2, <2>2, <2>3
<1> QED BY <1>4 DEF Distinct

(* The same elements inserted again are there twice. *)
LEMMA SplicedTwice ==
  ASSUME NEW T, NEW s \in Seq(T), NEW w \in Seq(T), NEW p \in 0 .. Len(s), NEW r \in Seq(T),
         SpliceOf(r, s, p, w), w # <<>>, w[1] \in ToSet(s)
  PROVE  ~Distinct(r)
<1> DEFINE n == Len(s)  m == Len(w)
<1>1. n \in Nat /\ m \in Nat /\ p \in Nat /\ p <= n /\ DOMAIN s = 1 .. n /\ DOMAIN w = 1 .. m
      /\ DOMAIN r = 1 .. Len(r)
  BY LenProperties
<1>2. /\ \A i \in 1 .. n :
           LET at == IF i <= p THEN i ELSE i + m IN at \in 1 .. Len(r) /\ r[at] = s[i]
      /\ \A k \in 1 .. m : p + k \in 1 .. Len(r) /\ r[p + k] = w[k]
      /\ \A a \in 1 .. Len(r) :
           \/ \E i \in 1 .. n : a = (IF i <= p THEN i ELSE i + m) /\ r[a] = s[i]
           \/ \E k \in 1 .. m : a = p + k /\ r[a] = w[k]
  <2>1. Placed(r, s, p, w)
    BY SplicePlaces
  <2> QED BY <2>1 DEF Placed
<1>m. /\ \A v : v \in ToSet(s) <=> \E i \in 1 .. n : v = s[i]
      /\ \A v : v \in ToSet(w) <=> \E k \in 1 .. m : v = w[k]
      /\ \A v : v \in ToSet(r) <=> \E a \in 1 .. Len(r) : v = r[a]
  <2>1. ToSet(s) = {s[i] : i \in 1 .. n} /\ ToSet(w) = {w[k] : k \in 1 .. m}
        /\ ToSet(r) = {r[a] : a \in 1 .. Len(r)}
    BY <1>1 DEF ToSet
  <2> QED BY <2>1
<1>5. \E a, b \in 1 .. Len(r) : r[a] = r[b] /\ a # b
  <2>1. m # 0 /\ 1 \in 1 .. m
    BY <1>1, EmptySeq
  <2>2. PICK i \in 1 .. n : s[i] = w[1]
    BY <1>m
  <2> DEFINE a == IF i <= p THEN i ELSE i + m
  <2>3. a \in 1 .. Len(r) /\ r[a] = s[i] /\ p + 1 \in 1 .. Len(r) /\ r[p + 1] = w[1]
    BY <1>2, <2>1
  <2>4. a # p + 1
    BY <1>1, <2>1
  <2> HIDE DEF a
  <2> QED BY <2>2, <2>3, <2>4
<1> QED BY <1>5 DEF Distinct

(* The nodes and edges of the document after the insertion. *)
LEMMA GrownEdges ==
  ASSUME NEW d, NEW p, NEW w, NEW e
  PROVE  e \in Grown(d, p, w, Len(w)).edges =>
           \/ e \in d.edges
           \/ \E k \in 1 .. Len(w) : e = <<d.nodes[p], w[k]>>
           \/ p < Len(d.nodes) /\ \E k \in 1 .. Len(w) : e = <<w[k], d.nodes[p + 1]>>
BY DEF Grown

(* An insertion keeps edges pairs, between nodes or to the end. *)
LEMMA GrownIsKnown ==
  ASSUME NEW T, NEW d, d.nodes \in Seq(T), NEW p \in 1 .. Len(d.nodes), NEW w \in Seq(T),
         ArePairs(d.edges)
  PROVE  LET r == Grown(d, p, w, Len(w))
         IN  ArePairs(r.edges) /\ (KnownEdges(d) => KnownEdges(r))
<1>0. PICK s \in Seq(T) : s = d.nodes
  OBVIOUS
<1> DEFINE r == Grown(d, p, w, Len(w))
<1>1. /\ Len(s) \in Nat /\ Len(w) \in Nat /\ DOMAIN s = 1 .. Len(s) /\ DOMAIN w = 1 .. Len(w)
      /\ p \in 1 .. Len(s) /\ p \in Nat
  BY <1>0, LenProperties
<1>2. \A e \in r.edges :
           \/ e \in d.edges
           \/ \E k \in 1 .. Len(w) : e = <<s[p], w[k]>>
           \/ p < Len(s) /\ \E k \in 1 .. Len(w) : e = <<w[k], s[p + 1]>>
  BY <1>0, GrownEdges
<1>3. ArePairs(r.edges)
  <2> HIDE DEF r
  <2> SUFFICES ASSUME NEW e \in r.edges PROVE e = <<e[1], e[2]>>
    BY DEF ArePairs
  <2> QED BY <1>2 DEF ArePairs
<1>4. \A v \in ToSet(s) \cup ToSet(w) : v \in ToSet(r.nodes)
  <2>1. p \in 0 .. Len(s)
    BY <1>1
  <2>2. r.nodes = Spliced(s, p, w)
    <3>1. r.nodes = Spliced(s, p, w) /\ r.nodes \in Seq(T)
      BY <1>0, GrownNodes
    <3> QED BY <3>1
  <2> DEFINE x == Spliced(s, p, w)
  <2>3. x \in Seq(T) /\ SpliceOf(x, s, p, w)
    BY <2>1, SplicedElements
  <2> HIDE DEF x, r
  <2>4. x = r.nodes
    BY <2>2 DEF x
  <2>5. ToSet(s) \cup ToSet(w) \subseteq ToSet(x)
    BY <2>1, <2>3, SplicedContents
  <2> QED BY <2>4, <2>5
<1>5. ASSUME KnownEdges(d), NEW e \in r.edges
      PROVE  e[1] \in ToSet(r.nodes) /\ e[2] \in ToSet(r.nodes) \cup {EndNode}
  <2> HIDE DEF r
  <2>1. CASE e \in d.edges
    BY <1>0, <1>4, <1>5, <2>1 DEF KnownEdges
  <2>2. CASE \E k \in 1 .. Len(w) : e = <<s[p], w[k]>>
    <3>1. PICK k \in 1 .. Len(w) : e = <<s[p], w[k]>>
      BY <2>2
    <3>2. s[p] \in ToSet(s) /\ w[k] \in ToSet(w)
      BY <1>1 DEF ToSet
    <3> QED BY <1>4, <3>1, <3>2
  <2>3. CASE p < Len(s) /\ \E k \in 1 .. Len(w) : e = <<w[k], s[p + 1]>>
    <3>1. PICK k \in 1 .. Len(w) : e = <<w[k], s[p + 1]>>
      BY <2>3
    <3>0. p + 1 \in 1 .. Len(s)
      BY <1>1, <2>3
    <3>2. s[p + 1] \in ToSet(s) /\ w[k] \in ToSet(w)
      BY <1>1, <3>0 DEF ToSet
    <3> QED BY <1>4, <3>1, <3>2
  <2> QED BY <1>2, <2>1, <2>2, <2>3
<1>6. KnownEdges(d) => KnownEdges(r)
  <2> HIDE DEF r
  <2> QED BY <1>5 DEF KnownEdges
<1> QED BY <1>3, <1>6

(* Edges that lead forward still do after the insertion, and so do the new ones. *)
LEMMA GrownIsForward ==
  ASSUME NEW T, NEW d, d.nodes \in Seq(T), NEW p \in 1 .. Len(d.nodes), NEW w \in Seq(T),
         KnownEdges(d), ArePairs(d.edges), Forward(d), UniqueIds(d),
         Distinct(w),
         ToSet(d.nodes) \cap ToSet(w) = {}, EndNode \notin ToSet(w)
  PROVE  LET r == Grown(d, p, w, Len(w)) IN UniqueIds(r) /\ Forward(r)
<1>0. PICK s \in Seq(T) : s = d.nodes
  OBVIOUS
<1> DEFINE n == Len(s)  m == Len(w)  r == Grown(d, p, w, m)  x == Spliced(s, p, w)
<1>1. /\ n \in Nat /\ m \in Nat /\ p \in Nat /\ 1 <= p /\ p <= n /\ p \in 0 .. n /\ p \in 1 .. n
      /\ DOMAIN s = 1 .. n /\ DOMAIN w = 1 .. m
  BY <1>0, LenProperties
<1>2. r.nodes = x /\ x \in Seq(T) /\ SpliceOf(x, s, p, w)
  <2>1. r.nodes = Spliced(d.nodes, p, w) /\ r.nodes \in Seq(T) /\ SpliceOf(r.nodes, d.nodes, p, w)
    BY GrownNodes
  <2> QED BY <1>0, <2>1
<1>3. \A e \in r.edges :
           \/ e \in d.edges
           \/ \E k \in 1 .. m : e = <<s[p], w[k]>>
           \/ p < n /\ \E k \in 1 .. m : e = <<w[k], s[p + 1]>>
  BY <1>0, GrownEdges
<1>4. Distinct(s)
  <2>1. Cardinality(ToSet(s)) = n
    BY <1>0 DEF UniqueIds
  <2> QED BY <2>1, UniqueIsInjective
<1>5. ToSet(s) \cap ToSet(w) = {} /\ \A i, j \in 1 .. n : <<s[i], s[j]>> \in d.edges => i < j
  BY <1>0, <1>1 DEF Forward
<1>6. \A e \in d.edges : e[1] \in ToSet(s) /\ e[2] \notin ToSet(w)
  BY <1>0, <1>5 DEF KnownEdges
<1> HIDE DEF r, x
<1>p. p \in 0 .. Len(s)
  BY <1>1
<1>7. /\ \A i \in 1 .. n :
           LET at == IF i <= p THEN i ELSE i + m IN at \in 1 .. Len(x) /\ x[at] = s[i]
      /\ \A k \in 1 .. m : p + k \in 1 .. Len(x) /\ x[p + k] = w[k]
      /\ \A a \in 1 .. Len(x) :
           \/ \E i \in 1 .. n : a = (IF i <= p THEN i ELSE i + m) /\ x[a] = s[i]
           \/ \E k \in 1 .. m : a = p + k /\ x[a] = w[k]
  <2>1. Placed(x, s, p, w)
    BY <1>2, <1>p, SplicePlaces
  <2> QED BY <2>1 DEF Placed
<1>8. Distinct(x) /\ \A a, b \in 1 .. Len(x) : x[a] = x[b] => a = b
  <2>1. SpliceOf(x, s, p, w) /\ x \in Seq(T) /\ ToSet(s) \cap ToSet(w) = {}
    BY <1>2, <1>5
  <2>2. Distinct(x)
    BY <1>p, <1>4, <2>1, SplicedDistinct
  <2> QED BY <2>2 DEF Distinct
<1>9. Len(x) \in Nat /\ DOMAIN x = 1 .. Len(x)
  BY <1>2, LenProperties
<1>10. \A i \in 1 .. n : s[i] \in ToSet(s)
  BY <1>1 DEF ToSet
<1>11. \A k \in 1 .. m : w[k] \in ToSet(w)
  BY <1>1 DEF ToSet
<1>12. ASSUME NEW a \in 1 .. Len(x), NEW b \in 1 .. Len(x), <<x[a], x[b]>> \in r.edges
       PROVE  a < b
  <2>1. CASE <<x[a], x[b]>> \in d.edges
    <3>1. x[a] \in ToSet(s) /\ x[b] \notin ToSet(w)
      <4> DEFINE e == <<x[a], x[b]>>
      <4>1. e[1] \in ToSet(s) /\ e[2] \notin ToSet(w)
        BY <1>6, <2>1
      <4> QED BY <4>1
    <3>2. PICK i \in 1 .. n : a = (IF i <= p THEN i ELSE i + m) /\ x[a] = s[i]
      <4>1. ~ \E k \in 1 .. m : x[a] = w[k]
        BY <1>5, <1>11, <3>1
      <4> QED BY <1>7, <4>1
    <3>3. PICK j \in 1 .. n : b = (IF j <= p THEN j ELSE j + m) /\ x[b] = s[j]
      <4>1. ~ \E k \in 1 .. m : x[b] = w[k]
        BY <1>11, <3>1
      <4> QED BY <1>7, <4>1
    <3>4. i < j
      BY <1>5, <2>1, <3>2, <3>3
    <3> QED BY <1>1, <3>2, <3>3, <3>4
  <2>2. CASE \E k \in 1 .. m : <<x[a], x[b]>> = <<s[p], w[k]>>
    <3>1. PICK k \in 1 .. m : x[a] = s[p] /\ x[b] = w[k]
      BY <2>2
    <3>2. p \in 1 .. Len(x) /\ x[p] = s[p] /\ p + k \in 1 .. Len(x) /\ x[p + k] = w[k]
      BY <1>1, <1>7
    <3>3. a = p /\ b = p + k
      BY <1>8, <3>1, <3>2
    <3> QED BY <1>1, <3>3
  <2>3. CASE p < n /\ \E k \in 1 .. m : <<x[a], x[b]>> = <<w[k], s[p + 1]>>
    <3>1. PICK k \in 1 .. m : x[a] = w[k] /\ x[b] = s[p + 1]
      BY <2>3
    <3>2. p + 1 \in 1 .. n /\ ~(p + 1 <= p)
      BY <1>1, <2>3
    <3>3. (p + 1) + m \in 1 .. Len(x) /\ x[(p + 1) + m] = s[p + 1]
          /\ p + k \in 1 .. Len(x) /\ x[p + k] = w[k]
      BY <1>7, <3>2
    <3>4. a = p + k /\ b = (p + 1) + m
      BY <1>8, <3>1, <3>3
    <3> QED BY <1>1, <3>4
  <2> QED BY <1>3, <1>12, <2>1, <2>2, <2>3
<1>13. UniqueIds(r)
  <2>1. Cardinality(ToSet(x)) = Len(x)
    BY <1>2, <1>8, UniqueIsInjective
  <2> QED BY <1>2, <2>1 DEF UniqueIds
<1>14. Forward(r)
  BY <1>2, <1>9, <1>12 DEF Forward
<1> QED BY <1>13, <1>14 DEF r

(* Edges that only lead forward make no cycle: the last node of one would lead to a later. *)
LEMMA ForwardHasNoCycle ==
  ASSUME NEW T, NEW d, d.nodes \in Seq(T), ArePairs(d.edges), Forward(d)
  PROVE  ~HasCycle(d)
<1>0. PICK s \in Seq(T) : s = d.nodes
  OBVIOUS
<1> SUFFICES ASSUME HasCycle(d) PROVE FALSE
  OBVIOUS
<1>1. PICK S \in (SUBSET ToSet(s)) \ {{}} : \A v \in S : \E e \in d.edges : e[1] = v /\ e[2] \in S
  BY <1>0 DEF HasCycle
<1>z. Len(s) \in Nat /\ DOMAIN s = 1 .. Len(s)
  BY LenProperties
<1>2. ToSet(s) = {s[i] : i \in 1 .. Len(s)}
  BY <1>z DEF ToSet
<1> DEFINE Q == {k \in Nat : \E i \in 1 .. Len(s) : k = Len(s) - i /\ s[i] \in S}
<1>3. Q \in SUBSET Nat /\ Q # {}
  <2>1. PICK i \in 1 .. Len(s) : s[i] \in S
    BY <1>1, <1>2
  <2>2. Len(s) - i \in Nat
    BY <1>z
  <2>3. Len(s) - i \in Q
    BY <2>1, <2>2
  <2> QED BY <2>3
<1>4. PICK k \in Q : \A l \in Q : k <= l
  BY <1>3, FirstFailure
<1>5. PICK i \in 1 .. Len(s) : k = Len(s) - i /\ s[i] \in S
  BY <1>4
<1>6. PICK e \in d.edges : e[1] = s[i] /\ e[2] \in S
  BY <1>1, <1>5
<1>7. PICK j \in 1 .. Len(s) : s[j] = e[2]
  BY <1>1, <1>2, <1>6
<1>8. e = <<s[i], s[j]>>
  BY <1>6, <1>7 DEF ArePairs
<1>9. i < j
  BY <1>0, <1>z, <1>6, <1>8 DEF Forward
<1> HIDE DEF Q
<1>10. Len(s) - j \in Q
  <2>1. Len(s) - j \in Nat
    BY <1>z
  <2> QED BY <1>6, <1>7, <2>1 DEF Q
<1>11. k <= Len(s) - j
  BY <1>4, <1>10
<1> QED BY <1>z, <1>5, <1>9, <1>11

GoodDocument(d) == IsDocument(d) /\ ArePairs(d.edges) /\ d.nodes \in Seq(ToSet(d.nodes))

\* What an insertion into the document d makes of it.
InsertedInto(r, d) ==
  /\ GoodDocument(r) /\ r.insert = d.insert
  /\ ToSet(r.nodes) = ToSet(d.nodes) \cup ToSet(NewNodes)
  /\ NewNodes = <<>> => r = d
  /\ KnownEdges(d) => KnownEdges(r)
  /\ KnownEdges(d) /\ Forward(d) /\ UniqueIds(d) /\ NewIds(d) =>
       UniqueIds(r) /\ Forward(r)
  /\ NewNodes # <<>> /\ NewNodes[1] \in ToSet(d.nodes) => ~UniqueIds(r)
  /\ \E p \in DOMAIN d.nodes : d.nodes[p] = d.insert[1] /\ r.nodes = Spliced(d.nodes, p, NewNodes)

(* A load of a document with an insertion. *)
LEMMA InsertedIs ==
  ASSUME NEW d, GoodDocument(d), NEW x \in ToSet(d.nodes), d.insert = <<x, NewNodes>>
  PROVE  InsertedInto(Inserted(d), d)
<1> DEFINE T == ToSet(d.nodes) \cup ToSet(NewNodes)
<1>0. PICK w \in Seq(ToSet(NewNodes)) : w = NewNodes
  BY WorkflowAssumptions
<1>1. /\ IsDocument(d) /\ ArePairs(d.edges) /\ d.nodes \in Seq(ToSet(d.nodes))
      /\ d.insert # <<>> /\ d.insert[1] = x /\ d.insert[2] = w
  BY <1>0 DEF GoodDocument
<1>2. d.nodes \in Seq(T) /\ w \in Seq(T)
  <2>1. ToSet(d.nodes) \subseteq T /\ ToSet(NewNodes) \subseteq T
    OBVIOUS
  <2> HIDE DEF T
  <2> QED BY <1>1, <2>1, WiderSeq
<1> HIDE DEF T
<1>p. \E p \in 1 .. Len(d.nodes) :
        /\ d.nodes[p] = d.insert[1]
        /\ Inserted(d) = Grown(d, p, d.insert[2], Len(d.insert[2]))
  <2>1. d.insert[1] \in ToSet(d.nodes) /\ d.insert[2] \in Seq(T)
    BY <1>1, <1>2
  <2> QED BY <1>1, <1>2, <2>1, InsertedIsGrown
<1>3. PICK p \in 1 .. Len(d.nodes) : d.nodes[p] = x /\ Inserted(d) = Grown(d, p, w, Len(w))
  BY <1>1, <1>p
<1> DEFINE r == Grown(d, p, w, Len(w))
<1>4. r.nodes = Spliced(d.nodes, p, w) /\ r.nodes \in Seq(T) /\ SpliceOf(r.nodes, d.nodes, p, w)
  BY <1>2, GrownNodes
<1>5. IsDocument(r) /\ r.insert = d.insert
  BY DEF IsDocument, Grown
<1>6. ArePairs(r.edges) /\ (KnownEdges(d) => KnownEdges(r))
  BY <1>1, <1>2, GrownIsKnown
<1>s. PICK s \in Seq(T) : s = d.nodes
  BY <1>2
<1>t. p \in 0 .. Len(s) /\ DOMAIN s = 1 .. Len(s) /\ Len(s) \in Nat /\ Len(w) \in Nat
  <2>1. Len(s) \in Nat /\ Len(w) \in Nat /\ DOMAIN s = 1 .. Len(s) /\ p \in 1 .. Len(s)
    BY <1>s, LenProperties
  <2> QED BY <2>1
<1>u. PICK y \in Seq(T) : y = r.nodes
  BY <1>4
<1>v. SpliceOf(y, s, p, w)
  BY <1>4, <1>s, <1>u
<1>7. ToSet(y) = ToSet(s) \cup ToSet(w)
  BY <1>2, <1>t, <1>v, SplicedContents
<1>8. NewNodes = <<>> => r = d
  <2> SUFFICES ASSUME NewNodes = <<>> PROVE r = d
    OBVIOUS
  <2>1. Len(w) = 0
    BY <1>0
  <2>2. Grown(d, p, w, 0) = d
    BY <1>1, <1>2, NothingGrown
  <2> QED BY <2>1, <2>2
<1>9. ASSUME KnownEdges(d), Forward(d), UniqueIds(d), NewIds(d)
      PROVE  UniqueIds(r) /\ Forward(r)
  <2>1. IsInjective(w) /\ ToSet(d.nodes) \cap ToSet(w) = {} /\ EndNode \notin ToSet(w)
    BY <1>0, <1>9 DEF NewIds
  <2>2. DOMAIN w = 1 .. Len(w)
    BY <1>2, LenProperties
  <2>3. Distinct(w)
    BY <2>1, <2>2 DEF IsInjective, Distinct
  <2> QED BY <1>1, <1>2, <1>9, <2>1, <2>3, GrownIsForward
<1>10. ASSUME NewNodes # <<>>, NewNodes[1] \in ToSet(d.nodes) PROVE ~UniqueIds(r)
  <2>1. w # <<>> /\ w[1] \in ToSet(s)
    BY <1>0, <1>s, <1>10
  <2>2. ~Distinct(y)
    BY <1>2, <1>t, <1>v, <2>1, SplicedTwice
  <2>3. Cardinality(ToSet(y)) # Len(y)
    BY <2>2, UniqueIsInjective
  <2> HIDE DEF r
  <2> QED BY <1>u, <2>3 DEF UniqueIds
<1>11. r.nodes \in Seq(ToSet(r.nodes))
  <2>1. y \in Seq(ToSet(y))
    <3>1. y \in [1 .. Len(y) -> T] /\ Len(y) \in Nat
      BY LenProperties
    <3>2. \A i \in 1 .. Len(y) : y[i] \in ToSet(y)
      BY <3>1 DEF ToSet
    <3>3. y \in [1 .. Len(y) -> ToSet(y)]
      BY <3>1, <3>2
    <3> QED BY <3>1, <3>3
  <2> HIDE DEF r
  <2> QED BY <1>u, <2>1
<1>12. ToSet(r.nodes) = ToSet(d.nodes) \cup ToSet(NewNodes)
  <2> HIDE DEF r
  <2> QED BY <1>0, <1>7, <1>s, <1>u
<1>13. \E q \in DOMAIN d.nodes : d.nodes[q] = d.insert[1] /\ r.nodes = Spliced(d.nodes, q, NewNodes)
  <2>1. p \in DOMAIN d.nodes
    BY <1>s, <1>t, <1>3
  <2> HIDE DEF r
  <2> QED BY <1>0, <1>1, <1>3, <1>4, <2>1
<1> HIDE DEF r
<1>14. InsertedInto(r, d)
  BY <1>5, <1>6, <1>8, <1>9, <1>10, <1>11, <1>12, <1>13 DEF InsertedInto, GoodDocument
<1> QED BY <1>3, <1>14 DEF r

TookPlace == original.insert # <<>> /\ NewNodes # <<>>

\* What becomes of the document with the loads of it.
DocumentInv ==
  /\ loads \in Nat /\ GoodDocument(original) /\ GoodDocument(document)
  /\ original.insert = <<>> \/ \E x \in ToSet(original.nodes) : original.insert = <<x, NewNodes>>
  /\ document = NoDocument => original = NoDocument
  /\ ToSet(original.nodes) \subseteq ToSet(document.nodes) /\ document.insert = original.insert
  /\ loads = 0 \/ ~TookPlace => document = original
  /\ loads = 1 /\ TookPlace => document = Inserted(original)
  /\ loads > 0 /\ TookPlace => NewNodes[1] \in ToSet(document.nodes)
  /\ loads > 1 /\ TookPlace => outcome = "duplicate"
  /\ loads > 0 =>
       outcome \in {"searching", "loaded", "invalidStep", "circular", "duplicate", "unknown"}
  /\ outcome = "duplicate" => ~UniqueIds(document)
  /\ outcome = "unknown" => ~KnownEdges(document)

(* Before a document is given. *)
LEMMA DocumentStarts ==
  ASSUME LoaderInit
  PROVE  DocumentInv
<1>1. ToSet(<<>>) = {} /\ <<>> \in Seq({})
  BY DEF ToSet
<1>2. NoDocument.nodes = <<>> /\ NoDocument.edges = {} /\ NoDocument.insert = <<>>
  BY DEF NoDocument
<1>3. GoodDocument(NoDocument)
  BY <1>1, <1>2 DEF GoodDocument, IsDocument, ArePairs, NoDocument
<1>4. document = NoDocument /\ original = NoDocument /\ loads = 0 /\ outcome = "none"
  BY DEF LoaderInit
<1> QED BY <1>1, <1>2, <1>3, <1>4 DEF DocumentInv

(* The caller gives a document. *)
LEMMA DocumentIsGiven ==
  ASSUME DocumentInv, NEW ns \in NodeLists, NEW es, NEW ins,
         es \in kSubset(MaxEdges, ToSet(ns) \X (ToSet(ns) \cup {EndNode, Stranger})),
         ins \in {<<>>} \cup (ToSet(ns) \X {NewNodes}), GiveDocument(ns, es, ins),
         loads = 0 => outcome = "none"
  PROVE  DocumentInv'
<1> DEFINE d == [nodes |-> ns, edges |-> es, insert |-> ins]
<1>1. /\ document' = d /\ original' = d /\ loads' = 0 /\ loads = 0 /\ outcome' = "none"
  BY DEF GiveDocument
<1>2. d.nodes = ns /\ d.edges = es /\ d.insert = ins
  OBVIOUS
<1>3. ns \in Seq(ToSet(ns))
  BY WorkflowAssumptions
<1>4. es \subseteq ToSet(ns) \X (ToSet(ns) \cup {EndNode, Stranger})
  BY DEF kSubset
<1>5. ArePairs(es)
  BY <1>4 DEF ArePairs
<1>6. GoodDocument(d)
  BY <1>2, <1>3, <1>5 DEF GoodDocument, IsDocument
<1>7. ins = <<>> \/ \E x \in ToSet(ns) : ins = <<x, NewNodes>>
  OBVIOUS
<1>8. d = NoDocument => d = NoDocument
  OBVIOUS
<1> HIDE DEF d
<1> QED BY <1>1, <1>2, <1>3, <1>6, <1>7 DEF DocumentInv, TookPlace

(* A load inserts what is to be inserted. *)
LEMMA DocumentIsLoaded ==
  ASSUME DocumentInv, LoadFromData
  PROVE  DocumentInv'
<1>1. /\ loads \in Nat /\ loads' = loads + 1 /\ document' = Inserted(document)
      /\ original' = original /\ document # NoDocument
  BY DEF DocumentInv, LoadFromData
<1>2. /\ outcome' \in {"searching", "duplicate", "unknown"}
      /\ outcome' = "duplicate" <=> ~UniqueIds(document')
      /\ outcome' = "unknown" => ~KnownEdges(document')
  BY DEF LoadFromData
<1>3. /\ GoodDocument(document) /\ document.insert = original.insert
      /\ ToSet(original.nodes) \subseteq ToSet(document.nodes)
  BY DEF DocumentInv
<1>4. CASE original.insert = <<>>
  <2>1. document' = document
    BY <1>1, <1>3, <1>4 DEF Inserted
  <2>2. ~TookPlace /\ ~TookPlace' /\ document = original
    BY <1>1, <1>4 DEF TookPlace, DocumentInv
  <2> QED BY <1>1, <1>2, <1>3, <2>1, <2>2 DEF DocumentInv
<1>5. CASE original.insert # <<>>
  <2>1. PICK x \in ToSet(original.nodes) : original.insert = <<x, NewNodes>>
    BY <1>5 DEF DocumentInv
  <2>2. InsertedInto(document', document)
    <3>1. x \in ToSet(document.nodes) /\ document.insert = <<x, NewNodes>>
      BY <1>3, <2>1
    <3>2. InsertedInto(Inserted(document), document)
      BY <1>3, <3>1, InsertedIs
    <3> QED BY <1>1, <3>2
  <2>3. /\ GoodDocument(document') /\ document'.insert = original.insert
        /\ ToSet(document'.nodes) = ToSet(document.nodes) \cup ToSet(NewNodes)
        /\ NewNodes = <<>> => document' = document
        /\ NewNodes # <<>> /\ NewNodes[1] \in ToSet(document.nodes) => ~UniqueIds(document')
    BY <1>3, <2>2 DEF InsertedInto
  <2>4. CASE NewNodes = <<>>
    <3>1. ~TookPlace /\ ~TookPlace' /\ document = original /\ document' = document
      BY <1>1, <2>3, <2>4 DEF TookPlace, DocumentInv
    <3> QED BY <1>1, <1>2, <1>3, <3>1 DEF DocumentInv
  <2>5. CASE NewNodes # <<>>
    <3>1. TookPlace /\ (TookPlace)'
      BY <1>1, <1>5, <2>5 DEF TookPlace
    <3>2. NewNodes[1] \in ToSet(NewNodes)
      <4>1. PICK w \in Seq(ToSet(NewNodes)) : w = NewNodes
        BY WorkflowAssumptions
      <4>2. DOMAIN w = 1 .. Len(w) /\ Len(w) \in Nat /\ Len(w) # 0
        BY <2>5, <4>1, LenProperties, EmptySeq
      <4>3. w[1] \in ToSet(w)
        BY <4>2 DEF ToSet
      <4> QED BY <4>1, <4>3
    <3>3. loads = 0 => document' = Inserted(original)
      BY <1>1 DEF DocumentInv
    <3>4. loads > 0 => outcome' = "duplicate"
      BY <1>2, <2>3, <2>5, <3>1 DEF DocumentInv
    <3>5. /\ loads' \in Nat /\ loads' > 0 /\ (loads' = 1 => loads = 0) /\ (loads' > 1 => loads > 0)
      BY <1>1
    <3>6. GoodDocument(original)' /\ (\E y \in ToSet(original.nodes) : original.insert = <<y, NewNodes>>)'
      BY <1>1, <2>1 DEF DocumentInv
    <3>7. document' = NoDocument => original' = NoDocument
      <4>1. NoDocument.nodes = <<>>
        BY DEF NoDocument
      <4>2. ToSet(<<>>) = {}
        BY DEF ToSet
      <4> QED BY <1>3, <2>1, <2>3, <4>1, <4>2
    <3>8. ToSet(original.nodes)' \subseteq ToSet(document'.nodes)
      BY <1>1, <1>3, <2>3
    <3>9. NewNodes[1] \in ToSet(document'.nodes)
      BY <2>3, <3>2
    <3> QED BY <1>1, <1>2, <2>3, <3>1, <3>3, <3>4, <3>5, <3>6, <3>7, <3>8, <3>9 DEF DocumentInv
  <2> QED BY <2>4, <2>5
<1> QED BY <1>4, <1>5

(* Every step of the loader keeps what is said of the document. *)
LEMMA DocumentSteps ==
  ASSUME LoaderInv, DocumentInv, LoaderNext \/ UNCHANGED workflowVars
  PROVE  DocumentInv'
<1>0. loads = 0 => outcome = "none"
  BY DEF LoaderInv
<1>1. ASSUME UNCHANGED <<document, loads, original>>, outcome = "searching" \/ outcome' = outcome,
             outcome' \in {outcome, "searching", "circular", "loaded", "invalidStep"}
      PROVE  DocumentInv'
  <2>1. loads > 1 /\ TookPlace => outcome = "duplicate" /\ outcome' = outcome
    BY <1>1 DEF DocumentInv
  <2>2. loads > 0 => outcome' \in {"searching", "loaded", "invalidStep", "circular", "duplicate", "unknown"}
    BY <1>1 DEF DocumentInv
  <2>3. /\ outcome' = "duplicate" => ~UniqueIds(document)
        /\ outcome' = "unknown" => ~KnownEdges(document)
    BY <1>1 DEF DocumentInv
  <2>4. TookPlace' <=> TookPlace
    BY <1>1 DEF TookPlace
  <2>5. UniqueIds(document)' = UniqueIds(document) /\ KnownEdges(document)' = KnownEdges(document)
    BY <1>1
  <2> QED BY <1>1, <2>1, <2>2, <2>3, <2>4, <2>5 DEF DocumentInv
<1>2. CASE UNCHANGED workflowVars
  BY <1>1, <1>2 DEF workflowVars
<1>3. ASSUME NEW ns \in NodeLists, NEW es, NEW ins,
             es \in kSubset(MaxEdges, ToSet(ns) \X (ToSet(ns) \cup {EndNode, Stranger})),
             ins \in {<<>>} \cup (ToSet(ns) \X {NewNodes}), GiveDocument(ns, es, ins)
      PROVE  DocumentInv'
  BY <1>0, <1>3, DocumentIsGiven
<1>4. CASE LoadFromData
  BY <1>4, DocumentIsLoaded
<1>5. CASE Backtrack
  BY <1>1, <1>5 DEF Backtrack
<1>6. ASSUME NEW ok, SearchEnds(ok) PROVE DocumentInv'
  BY <1>1, <1>6 DEF SearchEnds
<1>7. ASSUME NEW i, SearchFrom(i) PROVE DocumentInv'
  BY <1>1, <1>7 DEF SearchFrom
<1>8. ASSUME NEW n, LookAt(n) PROVE DocumentInv'
  <2>1. UNCHANGED <<document, loads, original>> /\ outcome = "searching"
        /\ outcome' \in {outcome, "circular"}
    BY <1>8 DEF LookAt
  <2> QED BY <1>1, <2>1
<1> QED BY <1>2, <1>3, <1>4, <1>5, <1>6, <1>7, <1>8 DEF LoaderNext

(* A load of unique ids and known edges that lead forward is not refused for them. *)
LEMMA LoadIsAccepted ==
  ASSUME LoaderInv, DocumentInv, loads = 1, UniqueIds(document), KnownEdges(document),
         Forward(document)
  PROVE  outcome \in {"searching", "loaded", "invalidStep"}
<1>1. GoodDocument(document)
  BY DEF DocumentInv
<1>2. ~HasCycle(document)
  BY <1>1, ForwardHasNoCycle DEF GoodDocument
<1>3. outcome \in {"searching", "loaded", "invalidStep", "circular", "duplicate", "unknown"}
      /\ outcome # "duplicate" /\ outcome # "unknown"
  BY DEF DocumentInv
<1>4. outcome # "circular"
  BY <1>2 DEF LoaderInv
<1> QED BY <1>3, <1>4

(* The first load of a document with an insertion. *)
LEMMA FirstLoad ==
  ASSUME DocumentInv, loads = 1, original.insert # <<>>
  PROVE  InsertedInto(document, original)
<1>1. GoodDocument(original)
  BY DEF DocumentInv
<1>2. PICK x \in ToSet(original.nodes) : original.insert = <<x, NewNodes>>
  BY DEF DocumentInv
<1>3. InsertedInto(Inserted(original), original)
  BY <1>1, <1>2, InsertedIs
<1>4. document = Inserted(original)
  <2>1. CASE NewNodes = <<>>
    BY <1>3, <2>1 DEF InsertedInto, DocumentInv, TookPlace
  <2>2. CASE NewNodes # <<>>
    BY <2>2 DEF DocumentInv, TookPlace
  <2> QED BY <2>1, <2>2
<1> QED BY <1>3, <1>4

(* What the insertion leaves and what becomes of the loads is as it must be. *)
LEMMA InsertionsAreExact ==
  ASSUME LoaderInv, DocumentInv
  PROVE  InsertionIsExact
<1>1. ASSUME loads = 1
      PROVE  \/ /\ original.insert = <<>> \/ original.insert[1] \notin ToSet(original.nodes)
                /\ document = original
             \/ \E p \in DOMAIN original.nodes :
                  /\ original.nodes[p] = original.insert[1]
                  /\ document.nodes = Spliced(original.nodes, p, original.insert[2])
  <2>1. CASE original.insert = <<>>
    BY <2>1 DEF DocumentInv, TookPlace
  <2>2. CASE original.insert # <<>>
    <3>1. original.insert[2] = NewNodes
      BY <2>2 DEF DocumentInv
    <3>2. InsertedInto(document, original)
      BY <1>1, <2>2, FirstLoad
    <3> QED BY <3>1, <3>2 DEF InsertedInto
  <2> QED BY <2>1, <2>2
<1>3. ASSUME loads = 1, UniqueIds(original), KnownEdges(original), Forward(original),
             NewIds(original)
      PROVE  outcome \in {"searching", "loaded", "invalidStep"} /\ Forward(document)
  <2>1. UniqueIds(document) /\ KnownEdges(document) /\ Forward(document)
    <3>1. CASE original.insert = <<>>
      <4>1. document = original
        BY <3>1 DEF DocumentInv, TookPlace
      <4> QED BY <1>3, <4>1
    <3>2. CASE original.insert # <<>>
      <4>1. InsertedInto(document, original)
        BY <1>3, <3>2, FirstLoad
      <4> QED BY <1>3, <4>1 DEF InsertedInto
    <3> QED BY <3>1, <3>2
  <2> QED BY <1>3, <2>1, LoadIsAccepted
<1>4. loads = 1 =>
        \/ /\ original.insert = <<>> \/ original.insert[1] \notin ToSet(original.nodes)
           /\ document = original
        \/ LET old == original.nodes
           IN  \E p \in DOMAIN old :
                 /\ old[p] = original.insert[1]
                 /\ document.nodes =
                      SubSeq(old, 1, p) \o original.insert[2] \o SubSeq(old, p + 1, Len(old))
  BY <1>1 DEF Spliced
<1>5. loads = 1 /\ WellFormed(original) =>
        outcome \in {"searching", "loaded", "invalidStep"} /\ Forward(document)
  BY <1>3 DEF WellFormed
<1>6. loads > 1 /\ original # document => outcome = "duplicate"
  <2>1. loads \in Nat /\ (loads = 0 \/ ~TookPlace => document = original)
        /\ (loads > 1 /\ TookPlace => outcome = "duplicate")
    BY DEF DocumentInv
  <2> QED BY <2>1
<1> QED BY <1>4, <1>5, <1>6 DEF InsertionIsExact
-----------------------------------------------------------------------------
(* The workflow loader: loading by name, and the scan of the orchestrator's. *)

NamedInv ==
  /\ cached \in [Entries -> Revisions \cup {"none"}] /\ DOMAIN answered = Entries
  /\ OnlyValidIsKept

(* Nothing is kept. *)
LEMMA NamedStarts ==
  ASSUME NamedInit
  PROVE  NamedInv
BY DEF NamedInit, NamedInv, OnlyValidIsKept

(* A load fills the cache with what it answers, or answers what is in it. *)
LEMMA NamedSteps ==
  ASSUME NamedInv, NamedNext \/ UNCHANGED namedVars
  PROVE  NamedInv'
<1>1. CASE UNCHANGED namedVars
  BY <1>1 DEF namedVars, NamedInv, OnlyValidIsKept
<1>2. ASSUME NEW p, NEW c, EditFile(p, c) PROVE NamedInv'
  BY <1>2 DEF EditFile, NamedInv, OnlyValidIsKept
<1>3. CASE ClearCache
  BY <1>3 DEF ClearCache, NamedInv, OnlyValidIsKept
<1>4. ASSUME NEW e \in Entries, LoadByName(e) PROVE NamedInv'
  <2>1. CASE cached[e] # "none"
    BY <1>4, <2>1 DEF LoadByName, NamedInv, OnlyValidIsKept
  <2>2. CASE cached[e] = "none"
    <3> DEFINE raises == BaseSpec = "absent" \/ Overridden(e)
    <3>1. /\ cached' = IF raises THEN cached ELSE [cached EXCEPT ![e] = Kept(e)]
          /\ answered' = [answered EXCEPT ![e] =
                            IF raises \/ BaseSpec \notin Revisions THEN "raised" ELSE BaseSpec]
      BY <1>4, <2>2 DEF LoadByName
    <3>2. Kept(e) = IF BaseSpec \in Revisions THEN BaseSpec ELSE "none"
      BY <2>2 DEF Kept
    <3> HIDE DEF raises
    <3>3. CASE raises
      BY <2>2, <3>1, <3>3 DEF NamedInv, OnlyValidIsKept
    <3>4. CASE ~raises /\ BaseSpec \in Revisions
      BY <3>1, <3>2, <3>4 DEF NamedInv, OnlyValidIsKept
    <3>5. CASE ~raises /\ BaseSpec \notin Revisions
      BY <2>2, <3>1, <3>2, <3>5 DEF NamedInv, OnlyValidIsKept
    <3> QED
      BY <3>3, <3>4, <3>5
  <2> QED
    BY <2>1, <2>2
<1> QED
  BY <1>1, <1>2, <1>3, <1>4 DEF NamedNext

(* The directory was not read. *)
LEMMA ScanStarts ==
  ASSUME ScanInit
  PROVE  ReadyKnowsAll
BY DEF ScanInit, ReadyKnowsAll

(* Only initialize makes the loader ready, and it reads the whole directory. *)
LEMMA ScanSteps ==
  ASSUME ReadyKnowsAll, ScanNext \/ UNCHANGED scanVars
  PROVE  ReadyKnowsAll'
<1>1. CASE UNCHANGED <<workflows, loaderReady, readAt>>
  BY <1>1 DEF ReadyKnowsAll
<1>2. CASE InitializeLoader
  <2>1. CASE registry = "broken"
    BY <1>2, <2>1 DEF InitializeLoader, ReadyKnowsAll
  <2>2. CASE registry # "broken"
    BY <1>2, <2>2 DEF InitializeLoader, ReadyKnowsAll
  <2> QED
    BY <2>1, <2>2
<1>3. \/ UNCHANGED <<workflows, loaderReady, readAt>>
      \/ InitializeLoader
  BY DEF ScanNext, EditYaml, EditRegistry, scanVars
<1> QED
  BY <1>1, <1>2, <1>3
-----------------------------------------------------------------------------
(* Deployments.                                                              *)

\* Where each script builds, applies, waits, validates the services and opens traffic, and
\* its last step
BuildAt(name) == IF name = "py" THEN 2 ELSE 3
ApplyAt(name) == IF name = "py" THEN 3 ELSE 5
WaitAt(name) == IF name = "py" THEN 4 ELSE 6
TrafficAt(name) == IF name = "py" THEN 8 ELSE 10
TestsAt(name) == IF name = "py" THEN 7 ELSE 8
EndAt(name) == IF name = "py" THEN 9 ELSE 12

Verdicts == {"healthy", "unhealthy", "degraded", "unknown"}
DeploymentsOf ==
  [script : {"py", "sh"}, tag : DeployTags, missing : Missing, at : 1 .. 12, item : Nat,
   results : [Members -> Verdicts], warned : BOOLEAN, changed : SUBSET Members]

\* What a run has seen: nothing before the tests, a verdict of each service it has come
\* to, and all of them healthy once it has gone on
ResultsOk(d) ==
  /\ d.at < TestsAt(d.script) => \A i \in Members : d.results[i] = "unknown"
  /\ d.at = TestsAt(d.script) =>
       /\ d.item \in 0 .. LastService
       /\ \A i \in 1 .. d.item : d.results[i] # "unknown" /\ (d.script = "py" => d.results[i] = "healthy")
  /\ d.at > TestsAt(d.script) => \A i \in Members : d.results[i] = "healthy"

RunOk(d, monitor) ==
  /\ \/ d = NoDeployment
     \/ d \in DeploymentsOf /\ d.at <= EndAt(d.script) /\ ResultsOk(d)
  /\ monitor => d # NoDeployment /\ d.script = "sh"

ReleasesOf(c, m) == DOMAIN c = Members /\ \A i \in Members : c[i] \in {"none", "latest", m}

RunInv == RunOk(deployment, uxMonitor) /\ ReleasesOf(cluster, manifest)

(* The steps of the flows that the properties speak of. *)
LEMMA FlowSteps ==
  /\ Len(Flow["py"]) = 9 /\ Len(Flow["sh"]) = 12
  /\ \A k \in 1 .. 9 : /\ Flow["py"][k] = "build" <=> k = 2
                       /\ Flow["py"][k] # "rewrite"
                       /\ Flow["py"][k] = "apply" <=> k = 3
                       /\ Flow["py"][k] = "wait" <=> k = 4
                       /\ Flow["py"][k] = "tests" <=> k = 7
                       /\ Flow["py"][k] = "traffic" <=> k = 8
                       /\ Flow["py"][k] \in {"alerts", "report"} <=> k = 9
                       /\ Flow["py"][k] = "experience" <=> k = 6
  /\ \A k \in 1 .. 12 : /\ Flow["sh"][k] = "build" <=> k = 3
                        /\ Flow["sh"][k] = "rewrite" <=> k = 4
                        /\ Flow["sh"][k] = "apply" <=> k = 5
                        /\ Flow["sh"][k] = "wait" <=> k = 6
                        /\ Flow["sh"][k] = "tests" <=> k = 8
                        /\ Flow["sh"][k] = "traffic" <=> k = 10
                        /\ Flow["sh"][k] \in {"alerts", "report"} <=> k \in {11, 12}
                        /\ Flow["sh"][k] = "experience" <=> k = 9
<1>1. /\ Flow["py"] = <<"validate", "build", "apply", "wait", "monitoring", "experience", "tests",
                        "traffic", "alerts">>
      /\ Flow["sh"] = <<"validate", "secrets", "build", "rewrite", "apply", "wait", "monitoring",
                        "tests", "experience", "traffic", "alerts", "report">>
  BY DEF Flow
<1> QED
  BY <1>1

(* Where a run is, by the name of its step. *)
LEMMA AtSteps ==
  ASSUME RunInv, NEW step, At(step)
  PROVE  /\ deployment # NoDeployment
         /\ deployment \in DeploymentsOf /\ deployment.at <= EndAt(deployment.script)
         /\ ResultsOk(deployment)
         /\ Len(Flow[deployment.script]) = EndAt(deployment.script)
         /\ step = "build" <=> deployment.at = BuildAt(deployment.script)
         /\ step = "rewrite" => deployment.script = "sh" /\ deployment.at = 4
         /\ step = "apply" <=> deployment.at = ApplyAt(deployment.script)
         /\ step = "wait" <=> deployment.at = WaitAt(deployment.script)
         /\ step = "tests" <=> deployment.at = TestsAt(deployment.script)
         /\ step = "traffic" <=> deployment.at = TrafficAt(deployment.script)
         /\ step \in {"traffic", "alerts", "report"} => deployment.at > TestsAt(deployment.script)
         /\ step \in {"apply", "build"} => deployment.at < TestsAt(deployment.script)
         /\ step \in {"experience", "traffic"} => /\ deployment.at < EndAt(deployment.script)
                                                  /\ deployment.at # TestsAt(deployment.script)
<1>1. deployment # NoDeployment
  BY DEF At, NoDeployment
<1>2. /\ deployment \in DeploymentsOf /\ deployment.at <= EndAt(deployment.script)
      /\ ResultsOk(deployment)
  BY <1>1 DEF RunInv, RunOk
<1>3. deployment.script \in {"py", "sh"} /\ deployment.at \in 1 .. 12
  BY <1>2 DEF DeploymentsOf
<1>4. Flow[deployment.script][deployment.at] = step
  BY DEF At
<1>5. CASE deployment.script = "py"
  BY <1>1, <1>2, <1>3, <1>4, <1>5, FlowSteps DEF EndAt, TestsAt, BuildAt, ApplyAt, WaitAt, TrafficAt
<1>6. CASE deployment.script = "sh"
  BY <1>1, <1>2, <1>3, <1>4, <1>6, FlowSteps DEF EndAt, TestsAt, BuildAt, ApplyAt, WaitAt, TrafficAt
<1> QED
  BY <1>3, <1>5, <1>6

(* No run is under way. *)
LEMMA RunStarts ==
  ASSUME DeployInit
  PROVE  RunInv
BY DEF DeployInit, RunInv, RunOk, ReleasesOf

(* However a run ends early, its monitor ends with it. *)
LEMMA AbortKeeps ==
  ASSUME RunInv, NEW step, At(step), Abort
  PROVE  RunInv'
<1>1. deployment # NoDeployment /\ deployment \in DeploymentsOf
  BY AtSteps
<1>2. deployment' = NoDeployment /\ uxMonitor' = FALSE
  <2>1. deployment.script # "sh" => uxMonitor = FALSE \/ ~uxMonitor
    BY DEF RunInv, RunOk
  <2> QED
    BY <2>1 DEF Abort, Cleaned
<1>3. ReleasesOf(cluster', manifest')
  BY DEF Abort, RunInv, ReleasesOf
<1> QED
  BY <1>2, <1>3 DEF RunInv, RunOk

(* A step that is done: the tests only with every service healthy. *)
LEMMA OnwardKeeps ==
  ASSUME RunInv, NEW step, At(step), Onward,
         step = "tests" => \A i \in Members : deployment.results[i] = "healthy"
  PROVE  RunOk(deployment, uxMonitor)'
<1> DEFINE d == deployment
<1>1. /\ d # NoDeployment /\ d \in DeploymentsOf /\ d.at <= EndAt(d.script) /\ ResultsOk(d)
      /\ Len(Flow[d.script]) = EndAt(d.script)
      /\ step = "tests" <=> d.at = TestsAt(d.script)
  BY AtSteps
<1>2. uxMonitor => d.script = "sh"
  BY DEF RunInv, RunOk
<1>3. d.script \in {"py", "sh"} /\ d.at \in 1 .. 12
  BY <1>1 DEF DeploymentsOf
<1>4. CASE d.at = Len(Flow[d.script])
  <2>1. deployment' = NoDeployment /\ (uxMonitor' => uxMonitor /\ d.script # "sh")
    BY <1>4 DEF Onward, Cleaned
  <2> QED
    BY <1>2, <2>1 DEF RunOk
<1>5. CASE d.at # Len(Flow[d.script])
  <2> DEFINE e == [d EXCEPT !.at = d.at + 1, !.item = 0]
  <2>1. deployment' = e /\ uxMonitor' = uxMonitor
    BY <1>5 DEF Onward
  <2>2. d.at + 1 \in 1 .. 12 /\ d.at + 1 <= EndAt(d.script) /\ TestsAt(d.script) \in Nat
    BY <1>1, <1>3, <1>5 DEF EndAt, TestsAt
  <2>3. e \in DeploymentsOf /\ e.script = d.script /\ e.at = d.at + 1 /\ e.item = 0 /\ e.results = d.results
    BY <1>1, <2>2 DEF DeploymentsOf
  <2> HIDE DEF e, d
  <2>4. ResultsOk(e)
    <3>1. LastService \in Nat
      BY DeployAssumptions
    <3>2. e.at < TestsAt(e.script) => d.at < TestsAt(d.script)
      BY <1>3, <2>2, <2>3
    <3>3. e.at > TestsAt(e.script) => d.at > TestsAt(d.script) \/ step = "tests"
      BY <1>1, <1>3, <2>2, <2>3
    <3>4. \A i \in 1 .. e.item : FALSE
      BY <2>3
    <3>5. e.item \in 0 .. LastService
      BY <2>3, <3>1
    <3> QED
      BY <1>1, <2>3, <3>2, <3>3, <3>4, <3>5 DEF ResultsOk, d
  <2>5. e # NoDeployment
    BY <2>2, <2>3, <1>3 DEF NoDeployment
  <2> QED
    BY <1>2, <2>1, <2>2, <2>3, <2>4, <2>5 DEF RunOk, d
<1> QED
  BY <1>4, <1>5

(* An image is built or an object applied: nothing has been tested yet. *)
LEMMA ItemKeeps ==
  ASSUME RunInv, NEW step \in {"apply", "build"}, At(step), NEW e \in DeploymentsOf,
         e.script = deployment.script, e.at = deployment.at, e.results = deployment.results,
         deployment' = e, uxMonitor' = uxMonitor
  PROVE  RunOk(deployment, uxMonitor)'
<1> DEFINE d == deployment
<1>1. /\ d # NoDeployment /\ d \in DeploymentsOf /\ d.at <= EndAt(d.script) /\ ResultsOk(d)
      /\ d.at < TestsAt(d.script)
  BY AtSteps
<1>2. uxMonitor => d.script = "sh"
  BY DEF RunInv, RunOk
<1>3. d.at \in 1 .. 12 /\ TestsAt(d.script) \in Nat
  BY <1>1 DEF DeploymentsOf, TestsAt
<1>4. ResultsOk(e)
  BY <1>1, <1>3 DEF ResultsOk
<1>5. e # NoDeployment
  BY <1>3 DEF NoDeployment
<1> QED
  BY <1>1, <1>2, <1>4, <1>5 DEF RunOk

(* One step further, with no service to test there. *)
LEMMA NextKeeps ==
  ASSUME RunInv, NEW step \in {"experience", "traffic"}, At(step), NEW e \in DeploymentsOf,
         e.script = deployment.script, e.at = deployment.at + 1, e.item = 0,
         e.results = deployment.results, deployment' = e,
         uxMonitor' => uxMonitor \/ deployment.script = "sh"
  PROVE  RunOk(deployment, uxMonitor)'
<1> DEFINE d == deployment
<1>1. /\ d # NoDeployment /\ d \in DeploymentsOf /\ ResultsOk(d)
      /\ d.at < EndAt(d.script) /\ d.at # TestsAt(d.script)
  BY AtSteps
<1>2. d.at \in 1 .. 12 /\ e.at <= EndAt(e.script) /\ TestsAt(d.script) \in Nat
  BY <1>1 DEF DeploymentsOf, EndAt, TestsAt
<1>3. uxMonitor => d.script = "sh"
  BY DEF RunInv, RunOk
<1>4. ResultsOk(e)
  <2>1. e.at < TestsAt(e.script) => d.at < TestsAt(d.script)
    BY <1>2
  <2>2. e.at > TestsAt(e.script) => d.at > TestsAt(d.script)
    BY <1>1, <1>2
  <2>3. (\A k \in 1 .. e.item : FALSE) /\ e.item \in 0 .. LastService
    BY DeployAssumptions
  <2> QED
    BY <1>1, <2>1, <2>2, <2>3 DEF ResultsOk
<1>5. e # NoDeployment
  BY <1>2 DEF NoDeployment
<1> QED
  BY <1>2, <1>3, <1>4, <1>5 DEF RunOk

(* A service is tested; the result stands for it. *)
LEMMA CheckKeeps ==
  ASSUME RunInv, CheckService
  PROVE  RunInv'
<1> DEFINE d == deployment
           i == d.item + 1
<1>1. At("tests") /\ d.item < LastService /\ LastService \in Nat
  BY DeployAssumptions DEF CheckService
<1>2. /\ d # NoDeployment /\ d \in DeploymentsOf /\ d.at <= EndAt(d.script) /\ ResultsOk(d)
      /\ d.at = TestsAt(d.script)
  BY <1>1, AtSteps
<1>3. uxMonitor => d.script = "sh"
  BY DEF RunInv, RunOk
<1>4. d.at \in 1 .. 12 /\ d.item \in Nat /\ i \in Members /\ i \in Nat /\ d.script \in {"py", "sh"}
  BY <1>1, <1>2 DEF DeploymentsOf, Members
<1>5. ASSUME NEW w \in {"healthy", "unhealthy", "degraded"}, d.script = "py" => w = "healthy",
             deployment' = [deployment EXCEPT !.item = i, !.results[i] = w],
             uxMonitor' = uxMonitor, cluster' = cluster, manifest' = manifest
      PROVE  RunInv'
  <2> DEFINE r == [d.results EXCEPT ![i] = w]
             e == [d EXCEPT !.item = i, !.results = r]
  <2>1. deployment' = e
    BY <1>5
  <2>2. r \in [Members -> Verdicts] /\ r[i] = w /\ \A k \in Members : k # i => r[k] = d.results[k]
    BY <1>2, <1>4 DEF DeploymentsOf, Verdicts
  <2> HIDE DEF r
  <2>3. e \in DeploymentsOf /\ e.script = d.script /\ e.at = d.at /\ e.item = i /\ e.results = r
    BY <1>2, <1>4, <2>2 DEF DeploymentsOf
  <2> HIDE DEF e
  <2>4. ResultsOk(e)
    <3>1. e.at = TestsAt(e.script) /\ e.at \in Nat
      BY <1>2, <1>4, <2>3
    <3>2. e.item \in 0 .. LastService
      BY <1>1, <1>4, <2>3
    <3>3. \A k \in 1 .. e.item : r[k] # "unknown" /\ (d.script = "py" => r[k] = "healthy")
      <4> SUFFICES ASSUME NEW k \in 1 .. i PROVE r[k] # "unknown" /\ (d.script = "py" => r[k] = "healthy")
        BY <2>3
      <4>1. CASE k = i
        BY <1>5, <2>2, <4>1
      <4>2. CASE k # i
        <5>1. k \in 1 .. d.item /\ k \in Members
          BY <1>1, <1>4, <4>2 DEF Members
        <5> QED
          BY <1>2, <2>2, <4>2, <5>1 DEF ResultsOk
      <4> QED
        BY <4>1, <4>2
    <3> QED
      BY <2>3, <3>1, <3>2, <3>3 DEF ResultsOk
  <2>5. e # NoDeployment
    BY <1>4, <2>3 DEF NoDeployment
  <2> HIDE DEF d
  <2>6. RunOk(e, uxMonitor)
    BY <1>2, <1>3, <2>3, <2>4, <2>5 DEF RunOk
  <2> QED
    BY <1>5, <2>1, <2>6 DEF RunInv, ReleasesOf
<1>6. CASE Abort
  BY <1>1, <1>6, AbortKeeps
<1>7. \A c : ServiceStatus(c) \in {"healthy", "unhealthy", "degraded"}
  BY DEF ServiceStatus
<1> HIDE DEF i
<1>8. CASE /\ d.script = "py" /\ deployment' = [deployment EXCEPT !.item = i, !.results[i] = "healthy"]
           /\ UNCHANGED <<uxMonitor, cluster, manifest>>
  BY <1>5, <1>8
<1>9. ASSUME NEW c, d.script = "sh", deployment' = [deployment EXCEPT !.item = i, !.results[i] = ServiceStatus(c)],
             UNCHANGED <<uxMonitor, cluster, manifest>>
      PROVE  RunInv'
  <2> DEFINE w == ServiceStatus(c)
  <2>1. w \in {"healthy", "unhealthy", "degraded"}
    BY <1>7
  <2>2. deployment' = [deployment EXCEPT !.item = i, !.results[i] = w]
    BY <1>9
  <2> HIDE DEF w
  <2> QED
    BY <1>5, <1>9, <2>1, <2>2
<1> QED
  BY <1>6, <1>8, <1>9 DEF CheckService, Objects, i

(* The tests end well only when every service is healthy. *)
LEMMA TestsPass ==
  ASSUME RunInv, At("tests"), deployment.item = LastService,
         deployment.script = "sh" => OverallStatus = "healthy"
  PROVE  \A i \in Members : deployment.results[i] = "healthy"
<1> DEFINE d == deployment
           bad == {i \in Members : d.results[i] \notin {"healthy", "unknown"}}
<1>1. /\ d \in DeploymentsOf /\ ResultsOk(d) /\ d.at = TestsAt(d.script) /\ LastService \in Nat
  BY AtSteps, DeployAssumptions
<1>2. d.script \in {"py", "sh"} /\ d.results \in [Members -> Verdicts]
  BY <1>1 DEF DeploymentsOf
<1>3. \A i \in Members : d.results[i] # "unknown" /\ (d.script = "py" => d.results[i] = "healthy")
  BY <1>1 DEF ResultsOk, Members
<1>4. CASE d.script = "sh"
  <2>1. Cardinality(bad) = 0
    BY <1>4 DEF OverallStatus, UnhealthyServices
  <2>2. IsFiniteSet(Members) /\ bad \subseteq Members
    BY <1>1, FS_Interval DEF Members
  <2>3. bad = {}
    <3> HIDE DEF bad
    <3> QED
      BY <2>1, <2>2, FS_Subset, FS_EmptySet
  <2> QED
    BY <1>3, <2>3
<1> QED
  BY <1>2, <1>3, <1>4

(* Every step of a deployment. *)
LEMMA RunSteps ==
  ASSUME RunInv, DeployNext \/ UNCHANGED deployVars
  PROVE  RunInv'
<1> USE DEF Objects
<1>1. ReleasesOf(cluster, manifest) /\ LastService \in Nat
  BY DeployAssumptions DEF RunInv
<1>2. UNCHANGED <<cluster, manifest>> => ReleasesOf(cluster', manifest')
  BY <1>1
<1>3. RunOk(deployment', uxMonitor') /\ UNCHANGED <<cluster, manifest>> => RunInv'
  BY <1>2 DEF RunInv
<1>4. ASSUME NEW step, At(step), step # "tests", Onward, UNCHANGED <<cluster, manifest>>
      PROVE  RunInv'
  BY <1>3, <1>4, OnwardKeeps
<1>5. ASSUME NEW step, At(step), Abort PROVE RunInv'
  BY <1>5, AbortKeeps
<1>6. CASE UNCHANGED deployVars
  BY <1>6 DEF deployVars, RunInv, RunOk
<1>7. ASSUME NEW which \in {"py", "sh"}, NEW tag \in DeployTags, NEW missing \in Missing,
             StartDeployment(which, tag, missing)
      PROVE  RunInv'
  <2> DEFINE new == [script |-> which, tag |-> tag, missing |-> missing, at |-> 1, item |-> 0,
                     results |-> [i \in Members |-> "unknown"], warned |-> FALSE, changed |-> {}]
  <2>1. deployment' = new /\ uxMonitor' = uxMonitor /\ deployment = NoDeployment
        /\ UNCHANGED <<cluster, manifest>>
    BY <1>7 DEF StartDeployment
  <2>2. /\ new \in DeploymentsOf /\ new.at <= EndAt(new.script) /\ 1 < TestsAt(new.script)
        /\ new.at = 1 /\ \A i \in Members : new.results[i] = "unknown"
    BY <1>7 DEF DeploymentsOf, EndAt, TestsAt, Verdicts
  <2>3. ~uxMonitor
    BY <2>1 DEF RunInv, RunOk
  <2> HIDE DEF new
  <2>4. TestsAt(new.script) \in Nat
    BY DEF TestsAt
  <2>5. ResultsOk(new)
    BY <2>2, <2>4 DEF ResultsOk
  <2>6. RunOk(new, uxMonitor)
    BY <2>2, <2>3, <2>5 DEF RunOk
  <2> QED
    BY <1>3, <2>1, <2>6
<1>8. CASE ValidateEnvironment \/ SetupNamespace
  BY <1>4, <1>5, <1>8 DEF ValidateEnvironment, SetupNamespace
<1>9. CASE BuildAndPush
  <2>1. At("build")
    BY <1>9 DEF BuildAndPush
  <2>2. CASE Item(deployment.item + 1) /\ UNCHANGED <<cluster, manifest>>
    <3> DEFINE e == [deployment EXCEPT !.item = deployment.item + 1]
    <3>1. /\ e \in DeploymentsOf /\ e.script = deployment.script /\ e.at = deployment.at
          /\ e.results = deployment.results
      BY <2>1, AtSteps DEF DeploymentsOf
    <3>2. deployment' = e /\ uxMonitor' = uxMonitor
      BY <2>2 DEF Item
    <3> HIDE DEF e
    <3> QED
      BY <1>3, <2>1, <2>2, <3>1, <3>2, ItemKeeps
  <2>3. CASE Abort
    BY <1>5, <2>1, <2>3
  <2>4. CASE Onward /\ UNCHANGED <<cluster, manifest>>
    BY <1>4, <2>1, <2>4
  <2> QED
    BY <1>9, <2>2, <2>3, <2>4 DEF BuildAndPush
<1>10. CASE RewriteManifests
  <2>1. At("rewrite") /\ Onward /\ cluster' = cluster /\ manifest' = Rewritten
    BY <1>10 DEF RewriteManifests
  <2>2. RunOk(deployment', uxMonitor')
    BY <2>1, OnwardKeeps
  <2>3. ReleasesOf(cluster', manifest')
    BY <1>1, <2>1 DEF ReleasesOf, Rewritten
  <2> QED
    BY <2>2, <2>3 DEF RunInv
<1>11. CASE ApplyItem
  <2> DEFINE d == deployment
             i == d.item
             tag == AppliedTag(d.script)
             e == [d EXCEPT !.item = i + 1]
             f == [d EXCEPT !.item = i + 1, !.changed = d.changed \cup {i}]
  <2>1. /\ At("apply") /\ manifest' = manifest /\ uxMonitor' = uxMonitor
        /\ \/ cluster' = cluster /\ d' = e
           \/ i \in Members /\ cluster' = [cluster EXCEPT ![i] = tag] /\ d' = f
    BY <1>11 DEF ApplyItem
  <2>2. d \in DeploymentsOf /\ i \in Nat
    BY <2>1, AtSteps DEF DeploymentsOf
  <2>3. RunOk(deployment', uxMonitor')
    <3>1. e \in DeploymentsOf /\ e.script = d.script /\ e.at = d.at /\ e.results = d.results
      BY <2>2 DEF DeploymentsOf
    <3>2. i \in Members => f \in DeploymentsOf /\ f.script = d.script /\ f.at = d.at /\ f.results = d.results
      <4> DEFINE n == i + 1
                 more == d.changed \cup {i}
      <4>1. n \in Nat /\ (i \in Members => more \in SUBSET Members)
        BY <2>2 DEF DeploymentsOf
      <4> HIDE DEF n, more
      <4>2. i \in Members => LET g == [d EXCEPT !.item = n, !.changed = more]
            IN  g \in DeploymentsOf /\ g.script = d.script /\ g.at = d.at /\ g.results = d.results
        BY <2>2, <4>1 DEF DeploymentsOf
      <4> QED
        BY <4>2 DEF n, more
    <3> HIDE DEF e, f
    <3>3. CASE d' = e
      BY <2>1, <3>1, <3>3, ItemKeeps
    <3>4. CASE i \in Members /\ d' = f
      BY <2>1, <3>2, <3>4, ItemKeeps
    <3> QED
      BY <2>1, <3>3, <3>4
  <2>4. ReleasesOf(cluster', manifest')
    BY <1>1, <2>1 DEF ReleasesOf, AppliedTag
  <2> QED
    BY <2>3, <2>4 DEF RunInv
<1>12. CASE ApplyFails
  <2>1. At("apply")
    BY <1>12 DEF ApplyFails
  <2>2. CASE PassOver /\ UNCHANGED <<cluster, manifest, uxMonitor>>
    <3> DEFINE e == [deployment EXCEPT !.item = deployment.item + 1, !.warned = TRUE]
    <3>1. /\ e \in DeploymentsOf /\ e.script = deployment.script /\ e.at = deployment.at
          /\ e.results = deployment.results
      <4> DEFINE n == deployment.item + 1
      <4>1. deployment \in DeploymentsOf /\ n \in Nat
        BY <2>1, AtSteps DEF DeploymentsOf
      <4> HIDE DEF n
      <4>2. LET g == [deployment EXCEPT !.item = n, !.warned = TRUE]
            IN  /\ g \in DeploymentsOf /\ g.script = deployment.script /\ g.at = deployment.at
                /\ g.results = deployment.results
        BY <4>1 DEF DeploymentsOf
      <4> QED
        BY <4>2 DEF n
    <3>2. deployment' = e
      BY <2>2 DEF PassOver
    <3> HIDE DEF e
    <3> QED
      BY <1>3, <2>1, <2>2, <3>1, <3>2, ItemKeeps
  <2> QED
    BY <1>5, <1>12, <2>1, <2>2 DEF ApplyFails
<1>13. CASE ApplyDone \/ WaitForDeployments \/ SetupMonitoring \/ GenerateReport
  BY <1>4, <1>5, <1>13 DEF ApplyDone, WaitForDeployments, SetupMonitoring, GenerateReport
<1>14. CASE SetupUserExperience \/ EnableTraffic
  <2> DEFINE d == deployment
             e == [d EXCEPT !.at = d.at + 1, !.item = 0]
             f == [d EXCEPT !.at = d.at + 1, !.item = 0, !.warned = TRUE]
  <2>1. PICK step \in {"experience", "traffic"} : At(step)
    BY <1>14 DEF SetupUserExperience, EnableTraffic
  <2>2. d \in DeploymentsOf /\ d.at < EndAt(d.script)
    BY <2>1, AtSteps
  <2>3. d.at + 1 \in 1 .. 12
    BY <2>2 DEF DeploymentsOf, EndAt
  <2>4. /\ e \in DeploymentsOf /\ e.script = d.script /\ e.at = d.at + 1 /\ e.item = 0
        /\ e.results = d.results
    BY <2>2, <2>3 DEF DeploymentsOf
  <2>5. /\ f \in DeploymentsOf /\ f.script = d.script /\ f.at = d.at + 1 /\ f.item = 0
        /\ f.results = d.results
    BY <2>2, <2>3 DEF DeploymentsOf
  <2>6. CASE Abort
    BY <1>5, <2>1, <2>6
  <2>7. CASE Onward /\ UNCHANGED <<cluster, manifest>>
    BY <1>4, <2>1, <2>7
  <2>8. CASE deployment' = e /\ uxMonitor' = (uxMonitor \/ d.script = "sh") /\ UNCHANGED <<cluster, manifest>>
    <3> HIDE DEF e, f, d
    <3> QED
      BY <1>3, <2>1, <2>4, <2>8, NextKeeps DEF d
  <2>9. CASE deployment' = f /\ UNCHANGED <<uxMonitor, cluster, manifest>>
    <3> HIDE DEF e, f, d
    <3> QED
      BY <1>3, <2>1, <2>5, <2>9, NextKeeps DEF d
  <2> QED
    BY <1>14, <2>6, <2>7, <2>8, <2>9 DEF SetupUserExperience, EnableTraffic
<1>15. CASE CheckService
  BY <1>15, CheckKeeps
<1>16. CASE FinishTests
  <2>1. At("tests") /\ deployment.item = LastService
    BY <1>16 DEF FinishTests
  <2>2. CASE Abort
    BY <1>5, <2>1, <2>2
  <2>3. CASE (deployment.script = "sh" => OverallStatus = "healthy") /\ Onward /\ UNCHANGED <<cluster, manifest>>
    BY <1>3, <2>1, <2>3, TestsPass, OnwardKeeps
  <2> QED
    BY <1>16, <2>2, <2>3 DEF FinishTests
<1>17. ASSUME NEW i, PodsReady(i) \/ PodFails(i) PROVE RunInv'
  BY <1>17 DEF PodsReady, PodFails, RunInv, RunOk
<1> QED
  BY <1>6, <1>7, <1>8, <1>9, <1>10, <1>11, <1>12, <1>13, <1>14, <1>15, <1>16, <1>17 DEF DeployNext

(* The registry and the namespace, whatever a run is doing: only a rollback takes a
   Deployment away, and without one a service has neither pods nor a rollout. *)
ClusterOk ==
  /\ images \in [Members -> [DeployTags -> Nat]] /\ manifest \in DeployTags
  /\ cluster \in [Members -> DeployTags \cup {"none"}] /\ running \in [Members -> Nat]
  /\ rolling \subseteq Members /\ ingress \in {"none", "closed", "open"}
  /\ \A i \in Members : cluster[i] = "none" => running[i] = 0 /\ i \notin rolling
  /\ ingress = "open" => \A i \in Members : cluster[i] = "none" => i \in runs.removed
  /\ \A i \in runs.removed : i \in Members /\ cluster[i] = "none"

ReportsOf ==
  {NothingReported} \cup
  [script : {"py", "sh"}, tag : DeployTags, warned : BOOLEAN, changed : SUBSET Members]
RunsOk == runs \in [count : Nat, reported : ReportsOf, removed : SUBSET Members]

(* What a run has done when it is at a step: the images it pushed, what it applied, what
   serves where it changed a Deployment, and what its tests and its patch relied on. *)
Pushed(d) ==
  /\ d.at = BuildAt(d.script) => \A i \in 1 .. d.item : images[i][d.tag] = runs.count
  /\ d.at > BuildAt(d.script) => \A i \in Members : images[i][d.tag] = runs.count
Applied(d) ==
  /\ d.at < ApplyAt(d.script) => d.changed = {}
  /\ d.at = ApplyAt(d.script) /\ ~d.warned =>
       /\ \A i \in Members : i < d.item => cluster[i] = AppliedTag(d.script)
       /\ d.item > LastService + 1 => ingress # "none"
  /\ d.at > ApplyAt(d.script) /\ ~d.warned =>
       ingress # "none" /\ \A i \in Members : cluster[i] = AppliedTag(d.script)
  /\ d.script = "sh" => ~d.warned
Served(d) ==
  /\ d.at <= WaitAt(d.script) =>
       \A i \in d.changed : i \in rolling \/ running[i] = images[i][cluster[i]]
  /\ d.at > WaitAt(d.script) =>
       \A i \in d.changed : running[i] \in {0, images[i][cluster[i]]}
Seen(d) ==
  /\ \A i \in Members : d.results[i] = "healthy" => cluster[i] # "none" /\ ingress # "none"
  /\ d.at > TrafficAt(d.script) /\ ~d.warned => ingress = "open"
Work(d) == Pushed(d) /\ Applied(d) /\ Served(d) /\ Seen(d)

WorkInv ==
  /\ deployment # NoDeployment => Work(deployment) /\ runs.reported = NothingReported
  /\ runs.reported # NothingReported =>
       /\ SuccessIsServed
       /\ \A i \in Members : images[i][runs.reported.tag] = runs.count

DeployInv == RunInv /\ ClusterOk /\ RunsOk /\ WorkInv

(* "none" is no tag of an image. *)
LEMMA TagsAreReal ==
  "none" \notin DeployTags /\ "latest" \in DeployTags
BY DeployAssumptions DEF DeployTags

(* No run is under way and nothing is deployed. *)
LEMMA DeployStarts ==
  ASSUME DeployInit
  PROVE  DeployInv
<1>1. RunInv
  BY RunStarts
<1>2. ClusterOk
  BY TagsAreReal DEF DeployInit, ClusterOk
<1>3. RunsOk /\ WorkInv
  <2>1. runs = [count |-> 0, reported |-> NothingReported, removed |-> {}] /\ deployment = NoDeployment
    BY DEF DeployInit
  <2>2. RunsOk
    BY <2>1 DEF RunsOk, ReportsOf
  <2> QED
    BY <2>1, <2>2 DEF WorkInv
<1> QED
  BY <1>1, <1>2, <1>3 DEF DeployInv

(* However a run ends early. *)
LEMMA AbortLeaves ==
  ASSUME DeployInv, deployment # NoDeployment, Abort
  PROVE  (ClusterOk /\ RunsOk /\ WorkInv)'
<1>1. PICK gone \in SUBSET {i \in Members : cluster[i] # "none"} :
        /\ cluster' = [i \in Members |-> IF i \in gone THEN "none" ELSE cluster[i]]
        /\ running' = [i \in Members |-> IF i \in gone THEN 0 ELSE running[i]]
        /\ rolling' = rolling \ gone
        /\ runs' = [runs EXCEPT !.removed = runs.removed \cup gone]
  BY DEF Abort
<1>2. deployment' = NoDeployment /\ UNCHANGED <<images, manifest, ingress>>
  BY DEF Abort
<1>3. runs \in [count : Nat, reported : ReportsOf, removed : SUBSET Members]
  BY DEF DeployInv, RunsOk
<1>4. /\ runs' \in [count : Nat, reported : ReportsOf, removed : SUBSET Members]
      /\ runs'.removed = runs.removed \cup gone /\ runs'.reported = runs.reported
  <2> DEFINE more == runs.removed \cup gone
  <2>1. more \in SUBSET Members
    BY <1>3
  <2> HIDE DEF more
  <2>2. runs' = [runs EXCEPT !.removed = more]
    BY <1>1 DEF more
  <2> QED
    BY <1>3, <2>1, <2>2 DEF more
<1>5. ClusterOk'
  <2>1. ClusterOk
    BY DEF DeployInv
  <2>2. (cluster \in [Members -> DeployTags \cup {"none"}] /\ running \in [Members -> Nat])'
    BY <1>1, <2>1 DEF ClusterOk
  <2>3. \A i \in Members : cluster'[i] = "none" => running'[i] = 0 /\ i \notin rolling'
    BY <1>1, <2>1 DEF ClusterOk
  <2>4. ingress' = "open" => \A i \in Members : cluster'[i] = "none" => i \in runs'.removed
    BY <1>1, <1>2, <1>4, <2>1 DEF ClusterOk
  <2>5. \A i \in runs'.removed : i \in Members /\ cluster'[i] = "none"
    BY <1>1, <1>4, <2>1 DEF ClusterOk
  <2>6. rolling' \subseteq Members
    BY <1>1, <2>1 DEF ClusterOk
  <2> QED
    BY <1>2, <2>1, <2>2, <2>3, <2>4, <2>5, <2>6 DEF ClusterOk
<1>6. runs.reported = NothingReported
  BY DEF DeployInv, WorkInv
<1> QED
  BY <1>2, <1>4, <1>5, <1>6 DEF RunsOk, WorkInv

(* The order of the steps. *)
LEMMA StepsInOrder ==
  ASSUME NEW name \in {"py", "sh"}
  PROVE  /\ BuildAt(name) \in Nat /\ ApplyAt(name) \in Nat /\ WaitAt(name) \in Nat
         /\ TestsAt(name) \in Nat /\ TrafficAt(name) \in Nat /\ EndAt(name) \in Nat
         /\ 1 < BuildAt(name) /\ BuildAt(name) < ApplyAt(name) /\ ApplyAt(name) < WaitAt(name)
         /\ WaitAt(name) < TestsAt(name) /\ TestsAt(name) < TrafficAt(name)
         /\ TrafficAt(name) < EndAt(name) /\ EndAt(name) <= 12
         /\ name = "sh" => ApplyAt(name) = 5
BY DEF BuildAt, ApplyAt, WaitAt, TestsAt, TrafficAt, EndAt

(* One step further: what the step was for is done. *)
LEMMA WorkMoves ==
  ASSUME DeployInv, NEW step, At(step), NEW e \in DeploymentsOf, deployment' = e,
         e.script = deployment.script, e.tag = deployment.tag, e.at = deployment.at + 1,
         e.item = 0, e.results = deployment.results, e.changed = deployment.changed,
         deployment.warned => e.warned, e.script = "sh" => ~e.warned,
         step = "build" => deployment.item = LastService,
         step = "apply" => deployment.item = LastService + 2,
         step = "wait" => rolling = {},
         step = "traffic" => e.warned \/ ingress' = "open",
         UNCHANGED <<images, cluster, running, rolling, runs>>,
         ingress' = ingress \/ (step = "traffic" /\ ingress' = "open"),
         manifest' = manifest \/ step = "rewrite"
  PROVE  WorkInv'
<1> DEFINE d == deployment
           name == d.script
<1>1. /\ d # NoDeployment /\ d \in DeploymentsOf
      /\ step = "build" <=> d.at = BuildAt(name)
      /\ step = "rewrite" => name = "sh" /\ d.at = 4
      /\ step = "apply" <=> d.at = ApplyAt(name)
      /\ step = "wait" <=> d.at = WaitAt(name)
      /\ step = "traffic" <=> d.at = TrafficAt(name)
  BY AtSteps DEF DeployInv
<1>2. Work(d) /\ runs.reported = NothingReported
  BY <1>1 DEF DeployInv, WorkInv
<1>3. /\ name \in {"py", "sh"} /\ d.at \in Nat /\ e.at = d.at + 1 /\ e.script = name
      /\ LastService \in Nat
  BY <1>1, DeployAssumptions DEF DeploymentsOf
<1>4. /\ BuildAt(name) \in Nat /\ ApplyAt(name) \in Nat /\ WaitAt(name) \in Nat
      /\ TestsAt(name) \in Nat /\ TrafficAt(name) \in Nat
      /\ 1 < BuildAt(name) /\ BuildAt(name) < ApplyAt(name) /\ ApplyAt(name) < WaitAt(name)
      /\ WaitAt(name) < TestsAt(name) /\ TestsAt(name) < TrafficAt(name)
      /\ name = "sh" => ApplyAt(name) = 5
  BY <1>3, StepsInOrder
<1> HIDE DEF d, name
<1>5. Pushed(e)'
  <2>1. ASSUME e.at = BuildAt(name), NEW i \in 1 .. e.item PROVE FALSE
    BY <2>1
  <2>2. ASSUME e.at > BuildAt(name), NEW i \in Members PROVE images[i][d.tag] = runs.count
    <3>1. CASE d.at = BuildAt(name)
      BY <1>1, <1>2, <2>2, <3>1 DEF Work, Pushed, Members, d, name
    <3>2. CASE d.at > BuildAt(name)
      BY <1>2, <2>2, <3>2 DEF Work, Pushed, name
    <3> QED
      BY <1>3, <1>4, <2>2, <3>1, <3>2
  <2> QED
    BY <1>3, <2>1, <2>2 DEF Pushed, d
<1>6. Applied(e)'
  <2>1. e.at < ApplyAt(name) => e.changed = {}
    BY <1>2, <1>3, <1>4 DEF Work, Applied, d, name
  <2>2. ASSUME e.at = ApplyAt(name)
        PROVE  (\A i \in Members : ~(i < e.item)) /\ ~(e.item > LastService + 1)
    BY <1>3 DEF Members
  <2>3. ASSUME e.at > ApplyAt(name), ~e.warned
        PROVE  ingress' # "none" /\ \A i \in Members : cluster[i] = AppliedTag(e.script)'
    <3>1. step # "rewrite" /\ ~d.warned
      BY <1>1, <1>3, <1>4, <2>3 DEF d
    <3>2. AppliedTag(e.script)' = AppliedTag(name)
      BY <1>3, <3>1 DEF AppliedTag
    <3>3. ingress # "none" /\ \A i \in Members : cluster[i] = AppliedTag(name)
      <4>1. CASE d.at = ApplyAt(name)
        <5>1. d.item = LastService + 2
          BY <1>1, <4>1 DEF d
        <5>2. \A i \in Members : i < d.item
          BY <1>3, <5>1 DEF Members
        <5> QED
          BY <1>2, <1>3, <3>1, <4>1, <5>1, <5>2 DEF Work, Applied, name
      <4>2. CASE d.at > ApplyAt(name)
        BY <1>2, <3>1, <4>2 DEF Work, Applied, name
      <4> QED
        BY <1>3, <1>4, <2>3, <4>1, <4>2
    <3> QED
      BY <3>2, <3>3
  <2> QED
    BY <1>3, <2>1, <2>2, <2>3 DEF Applied
<1>7. Served(e)'
  <2>1. CASE e.at <= WaitAt(name)
    <3>1. \A i \in d.changed : i \in rolling \/ running[i] = images[i][cluster[i]]
      BY <1>2, <1>3, <1>4, <2>1 DEF Work, Served, name
    <3> QED
      BY <1>3, <1>4, <2>1, <3>1 DEF Served, d
  <2>2. CASE e.at > WaitAt(name)
    <3>1. \A i \in d.changed : running[i] \in {0, images[i][cluster[i]]}
      <4>1. CASE d.at = WaitAt(name)
        BY <1>1, <1>2, <1>3, <4>1 DEF Work, Served, name
      <4>2. CASE d.at > WaitAt(name)
        BY <1>2, <4>2 DEF Work, Served, name
      <4> QED
        BY <1>3, <1>4, <2>2, <4>1, <4>2
    <3> QED
      BY <1>3, <1>4, <2>2, <3>1 DEF Served, d
  <2> QED
    BY <1>3, <1>4, <2>1, <2>2
<1>8. Seen(e)'
  <2>1. \A i \in Members : e.results[i] = "healthy" => cluster[i] # "none" /\ ingress' # "none"
    BY <1>2 DEF Work, Seen, d
  <2>2. ASSUME e.at > TrafficAt(name), ~e.warned PROVE ingress' = "open"
    <3>1. CASE d.at = TrafficAt(name)
      BY <1>1, <2>2, <3>1
    <3>2. CASE d.at > TrafficAt(name)
      BY <1>1, <1>2, <1>3, <1>4, <2>2, <3>2 DEF Work, Seen, d, name
    <3> QED
      BY <1>3, <1>4, <2>2, <3>1, <3>2
  <2> QED
    BY <1>3, <2>1, <2>2 DEF Seen
<1> QED
  BY <1>2, <1>5, <1>6, <1>7, <1>8 DEF WorkInv, Work

(* The last step: what the run has done is what its report stands for. *)
LEMMA WorkEnds ==
  ASSUME DeployInv, NEW step, At(step), deployment.at = EndAt(deployment.script),
         deployment' = NoDeployment, runs' = [runs EXCEPT !.reported = Report(deployment)],
         UNCHANGED <<images, cluster, running, rolling, ingress, manifest>>
  PROVE  (RunsOk /\ WorkInv)'
<1> DEFINE d == deployment
           r == Report(d)
<1>1. d # NoDeployment /\ d \in DeploymentsOf /\ ResultsOk(d)
  BY AtSteps DEF DeployInv
<1>2. Work(d)
  BY <1>1 DEF DeployInv, WorkInv
<1>3. d.script \in {"py", "sh"} /\ d.at = EndAt(d.script) /\ LastService \in Nat \ {0}
  BY <1>1, DeployAssumptions DEF DeploymentsOf
<1>4. /\ r.script = d.script /\ r.tag = d.tag /\ r.warned = d.warned /\ r.changed = d.changed
      /\ r \in ReportsOf
  BY <1>1 DEF Report, ReportsOf, DeploymentsOf
<1>5. /\ runs' \in [count : Nat, reported : ReportsOf, removed : SUBSET Members]
      /\ runs'.reported = r /\ runs'.count = runs.count
  <2> HIDE DEF r
  <2>1. runs' = [runs EXCEPT !.reported = r] /\ runs \in [count : Nat, reported : ReportsOf, removed : SUBSET Members]
    BY DEF r, DeployInv, RunsOk
  <2> QED
    BY <1>4, <2>1
<1> HIDE DEF r
<1>6. /\ d.at > BuildAt(d.script) /\ d.at > ApplyAt(d.script) /\ d.at > WaitAt(d.script)
      /\ d.at > TestsAt(d.script) /\ d.at > TrafficAt(d.script)
      /\ ~(d.at <= WaitAt(d.script))
  BY <1>3, StepsInOrder
<1>7. \A i \in Members : images[i][d.tag] = runs.count
  BY <1>2, <1>6 DEF Work, Pushed
<1>8. ingress # "none" /\ \A i \in Members : cluster[i] # "none"
  <2>1. \A i \in Members : d.results[i] = "healthy"
    BY <1>1, <1>6 DEF ResultsOk
  <2>2. 1 \in Members
    BY <1>3 DEF Members
  <2> QED
    BY <1>2, <2>1, <2>2 DEF Work, Seen
<1>9. ~d.warned => ingress = "open" /\ \A i \in Members : cluster[i] = AppliedTag(d.script)
  BY <1>2, <1>6 DEF Work, Applied, Seen
<1>10. \A i \in d.changed : cluster[i] = d.tag => running[i] \in {0, runs.count}
  <2>1. d.changed \subseteq Members
    BY <1>1 DEF DeploymentsOf
  <2> QED
    BY <1>2, <1>6, <1>7, <2>1 DEF Work, Served
<1>11. d.script = "sh" => ~d.warned
  BY <1>2 DEF Work, Applied
<1>12. SuccessIsServed'
  BY <1>4, <1>5, <1>8, <1>9, <1>10, <1>11 DEF SuccessIsServed, AppliedTag
<1> QED
  BY <1>4, <1>5, <1>7, <1>12 DEF RunsOk, WorkInv

(* A step that is done. *)
LEMMA OnwardWorks ==
  ASSUME DeployInv, NEW step, At(step), Onward,
         step = "build" => deployment.item = LastService,
         step = "apply" => deployment.item = LastService + 2,
         step = "wait" => rolling = {},
         step = "traffic" => ingress' = "open",
         UNCHANGED <<images, cluster, running, rolling>>,
         ingress' = ingress \/ step = "traffic",
         manifest' = manifest \/ step = "rewrite"
  PROVE  (RunsOk /\ WorkInv)'
<1> DEFINE d == deployment
<1>1. /\ d # NoDeployment /\ d \in DeploymentsOf /\ d.at <= EndAt(d.script)
      /\ Len(Flow[d.script]) = EndAt(d.script)
      /\ step = "traffic" <=> d.at = TrafficAt(d.script)
      /\ step = "rewrite" => d.script = "sh" /\ d.at = 4
  BY AtSteps DEF DeployInv
<1>2. d.script \in {"py", "sh"} /\ d.at \in 1 .. 12
  BY <1>1 DEF DeploymentsOf
<1>3. /\ TrafficAt(d.script) \in Nat /\ EndAt(d.script) \in Nat /\ EndAt(d.script) <= 12
      /\ TrafficAt(d.script) < EndAt(d.script)
      /\ d.script = "sh" => EndAt(d.script) = 12
  BY <1>2, StepsInOrder DEF EndAt
<1>4. CASE d.at = EndAt(d.script)
  <2>1. step # "traffic" /\ step # "rewrite"
    BY <1>1, <1>2, <1>3, <1>4
  <2>2. deployment' = NoDeployment /\ runs' = [runs EXCEPT !.reported = Report(deployment)]
    BY <1>1, <1>4 DEF Onward
  <2> QED
    BY <1>4, <2>1, <2>2, WorkEnds
<1>5. CASE d.at # EndAt(d.script)
  <2> DEFINE e == [d EXCEPT !.at = d.at + 1, !.item = 0]
  <2>1. deployment' = e /\ UNCHANGED runs
    BY <1>1, <1>5 DEF Onward
  <2>2. d.at + 1 \in 1 .. 12
    BY <1>1, <1>2, <1>3, <1>5
  <2>3. /\ e \in DeploymentsOf /\ e.script = d.script /\ e.tag = d.tag /\ e.at = d.at + 1
        /\ e.item = 0 /\ e.results = d.results /\ e.changed = d.changed /\ e.warned = d.warned
    BY <1>1, <2>2 DEF DeploymentsOf
  <2>4. d.script = "sh" => ~d.warned
    BY <1>1 DEF DeployInv, WorkInv, Work, Applied
  <2>5. RunsOk'
    BY <2>1 DEF DeployInv, RunsOk
  <2> HIDE DEF e
  <2> QED
    BY <2>1, <2>3, <2>4, <2>5, WorkMoves
<1> QED
  BY <1>4, <1>5

(* The image of one more service. *)
LEMMA PushWorks ==
  ASSUME DeployInv, At("build"), deployment.item < LastService,
         images' = [images EXCEPT ![deployment.item + 1][deployment.tag] = runs.count],
         Item(deployment.item + 1),
         UNCHANGED <<manifest, cluster, running, rolling, ingress>>
  PROVE  (ClusterOk /\ RunsOk /\ WorkInv)'
<1> DEFINE d == deployment
           n == d.item + 1
<1>1. /\ d # NoDeployment /\ d \in DeploymentsOf /\ d.at = BuildAt(d.script)
      /\ d.at < TestsAt(d.script) /\ ResultsOk(d)
  BY AtSteps DEF DeployInv
<1>2. Work(d) /\ runs.reported = NothingReported
  BY <1>1 DEF DeployInv, WorkInv
<1>3. /\ d.script \in {"py", "sh"} /\ d.item \in Nat /\ n \in Members /\ d.tag \in DeployTags
      /\ LastService \in Nat /\ d.at \in Nat
  BY <1>1, DeployAssumptions DEF DeploymentsOf, Members
<1>4. /\ BuildAt(d.script) \in Nat /\ ApplyAt(d.script) \in Nat /\ WaitAt(d.script) \in Nat
      /\ TrafficAt(d.script) \in Nat /\ TestsAt(d.script) \in Nat
      /\ BuildAt(d.script) < ApplyAt(d.script) /\ ApplyAt(d.script) < WaitAt(d.script)
      /\ WaitAt(d.script) < TrafficAt(d.script)
  BY <1>3, StepsInOrder
<1>5. ClusterOk /\ RunsOk /\ runs.count \in Nat
  BY DEF DeployInv, RunsOk
<1>6. /\ images' \in [Members -> [DeployTags -> Nat]]
      /\ \A i \in Members : i # n => images'[i] = images[i]
      /\ images'[n][d.tag] = runs.count
  BY <1>3, <1>5 DEF ClusterOk
<1>7. deployment' = [d EXCEPT !.item = n] /\ UNCHANGED runs
  BY DEF Item
<1>8. PICK e : /\ deployment' = e
               /\ e.script = d.script /\ e.tag = d.tag /\ e.at = d.at /\ e.item = n
               /\ e.results = d.results /\ e.changed = d.changed /\ e.warned = d.warned
  BY <1>1, <1>7 DEF DeploymentsOf
<1> HIDE DEF d
<1>9. Pushed(e)'
  <2>1. ASSUME NEW i \in 1 .. e.item PROVE images'[i][d.tag] = runs.count
    <3>1. i \in Members
      BY <1>3, <1>8 DEF Members
    <3>2. CASE i # n
      <4>1. i \in 1 .. d.item
        BY <1>3, <1>8, <3>2
      <4> QED
        BY <1>1, <1>2, <1>6, <3>1, <3>2, <4>1 DEF Work, Pushed
    <3> QED
      BY <1>6, <3>2
  <2> QED
    BY <1>1, <1>4, <1>7, <1>8, <2>1 DEF Pushed
<1>10. d.changed = {} /\ (d.script = "sh" => ~d.warned)
  BY <1>1, <1>2, <1>4 DEF Work, Applied
<1>11. Applied(e)' /\ Served(e)'
  BY <1>1, <1>4, <1>8, <1>10 DEF Applied, Served
<1>12. Seen(e)'
  BY <1>1, <1>2, <1>4, <1>8 DEF Work, Seen
<1>13. WorkInv'
  BY <1>2, <1>7, <1>8, <1>9, <1>11, <1>12 DEF WorkInv, Work
<1> QED
  BY <1>5, <1>6, <1>7, <1>13 DEF ClusterOk, RunsOk

(* One more object of the manifests. *)
LEMMA ApplyWorks ==
  ASSUME DeployInv, ApplyItem
  PROVE  (ClusterOk /\ RunsOk /\ WorkInv)'
<1> DEFINE d == deployment
           i == d.item
           tag == AppliedTag(d.script)
           n == i + 1
           more == d.changed \cup {i}
           less == runs.removed \ {i}
<1>1. At("apply") /\ i <= LastService + 1
  BY DEF ApplyItem
<1>2. /\ d # NoDeployment /\ d \in DeploymentsOf /\ d.at = ApplyAt(d.script)
      /\ d.at < TestsAt(d.script) /\ ResultsOk(d)
  BY <1>1, AtSteps DEF DeployInv
<1>3. Work(d) /\ runs.reported = NothingReported
  BY <1>2 DEF DeployInv, WorkInv
<1>4. /\ d.script \in {"py", "sh"} /\ i \in Nat /\ d.changed \subseteq Members
      /\ LastService \in Nat /\ d.at \in Nat
  BY <1>2, DeployAssumptions DEF DeploymentsOf
<1>5. /\ BuildAt(d.script) \in Nat /\ ApplyAt(d.script) \in Nat /\ WaitAt(d.script) \in Nat
      /\ TrafficAt(d.script) \in Nat /\ TestsAt(d.script) \in Nat
      /\ BuildAt(d.script) < ApplyAt(d.script) /\ ApplyAt(d.script) < WaitAt(d.script)
      /\ ApplyAt(d.script) < TrafficAt(d.script)
  BY <1>4, StepsInOrder
<1>6. ClusterOk /\ RunsOk /\ tag \in DeployTags /\ tag # "none"
  BY TagsAreReal DEF DeployInv, ClusterOk, AppliedTag
<1>7. UNCHANGED <<images, manifest, running>>
  BY DEF ApplyItem
<1>8. /\ ingress' \in {"none", "closed", "open"} /\ (ingress' = "open" => ingress = "open")
      /\ ingress # "none" => ingress' # "none"
      /\ i = LastService + 1 => ingress' # "none"
  BY <1>6 DEF ApplyItem, ClusterOk
<1>9. \A k \in Members : d.results[k] = "unknown"
  BY <1>2 DEF ResultsOk
<1>10. ASSUME NEW e, e.script = d.script, e.tag = d.tag, e.at = d.at, e.item = n,
              e.results = d.results, e.warned = d.warned,
              \/ e.changed = d.changed /\ UNCHANGED cluster
              \/ e.changed = more /\ i \in rolling',
              runs'.count = runs.count,
              \A k \in Members : k # i => cluster'[k] = cluster[k],
              i \in Members => cluster'[i] = tag,
              rolling \subseteq rolling'
       PROVE  Work(e)'
  <2>1. AppliedTag(e.script)' = tag
    BY <1>7, <1>10 DEF AppliedTag
  <2>2. Pushed(e)'
    BY <1>2, <1>3, <1>5, <1>7, <1>10 DEF Work, Pushed
  <2>3. ASSUME ~d.warned, NEW k \in Members, k < n PROVE cluster'[k] = tag
    <3>1. CASE k # i
      <4>1. k < i /\ k \in Nat
        BY <1>4, <2>3, <3>1 DEF Members
      <4> QED
        BY <1>2, <1>3, <1>10, <2>3, <3>1, <4>1 DEF Work, Applied
    <3> QED
      BY <1>10, <3>1
  <2>4. n > LastService + 1 => ingress' # "none"
    BY <1>1, <1>4, <1>8
  <2>5. d.script = "sh" => ~d.warned
    BY <1>3 DEF Work, Applied
  <2>6. Applied(e)'
    BY <1>2, <1>5, <1>10, <2>1, <2>3, <2>4, <2>5 DEF Applied
  <2>7. ASSUME NEW k \in e.changed PROVE k \in rolling' \/ running[k] = images[k][cluster'[k]]
    <3>1. CASE k = i
      BY <1>2, <1>3, <1>4, <1>5, <1>10, <2>7, <3>1 DEF Work, Served
    <3>2. CASE k # i
      <4>1. k \in d.changed /\ k \in Members
        BY <1>4, <1>10, <2>7, <3>2
      <4> QED
        BY <1>2, <1>3, <1>5, <1>10, <3>2, <4>1 DEF Work, Served
    <3> QED
      BY <3>1, <3>2
  <2>8. Served(e)'
    BY <1>2, <1>5, <1>7, <1>10, <2>7 DEF Served
  <2>9. Seen(e)'
    BY <1>2, <1>5, <1>9, <1>10 DEF Seen
  <2> QED
    BY <2>2, <2>6, <2>8, <2>9 DEF Work
<1>11. CASE i \in Members /\ cluster[i] # tag
  <2>1. /\ cluster' = [cluster EXCEPT ![i] = tag] /\ rolling' = rolling \cup {i}
        /\ d' = [d EXCEPT !.item = n, !.changed = more]
        /\ runs' = [runs EXCEPT !.removed = less]
    BY <1>11 DEF ApplyItem
  <2>2. /\ runs' \in [count : Nat, reported : ReportsOf, removed : SUBSET Members]
        /\ runs'.count = runs.count /\ runs'.reported = runs.reported /\ runs'.removed = less
    <3>1. less \in SUBSET Members /\ runs \in [count : Nat, reported : ReportsOf, removed : SUBSET Members]
      BY <1>6 DEF RunsOk
    <3> HIDE DEF less
    <3> QED
      BY <2>1, <3>1
  <2>3. /\ cluster' \in [Members -> DeployTags \cup {"none"}] /\ cluster'[i] = tag
        /\ \A k \in Members : k # i => cluster'[k] = cluster[k]
    BY <1>6, <1>11, <2>1 DEF ClusterOk
  <2>4. ClusterOk'
    BY <1>6, <1>7, <1>8, <1>11, <2>1, <2>2, <2>3 DEF ClusterOk
  <2>5. PICK e : /\ d' = e
                 /\ e.script = d.script /\ e.tag = d.tag /\ e.at = d.at /\ e.item = n
                 /\ e.results = d.results /\ e.warned = d.warned /\ e.changed = more
    <3>1. n \in Nat /\ more \in SUBSET Members
      BY <1>4, <1>11
    <3> HIDE DEF more, n
    <3> DEFINE g == [d EXCEPT !.item = n, !.changed = more]
    <3>2. /\ g.script = d.script /\ g.tag = d.tag /\ g.at = d.at /\ g.item = n
          /\ g.results = d.results /\ g.warned = d.warned /\ g.changed = more
      BY <1>2, <3>1 DEF DeploymentsOf
    <3>3. d' = g
      BY <2>1
    <3> HIDE DEF g
    <3> QED
      BY <3>2, <3>3
  <2> HIDE DEF more, n, tag
  <2>6. Work(e)'
    BY <1>10, <2>1, <2>2, <2>3, <2>5
  <2> QED
    BY <1>3, <2>2, <2>4, <2>5, <2>6 DEF WorkInv, RunsOk
<1>12. CASE ~(i \in Members /\ cluster[i] # tag)
  <2>1. d' = [d EXCEPT !.item = n] /\ UNCHANGED <<cluster, rolling, runs>>
    BY <1>12 DEF ApplyItem
  <2>2. ClusterOk' /\ RunsOk'
    BY <1>6, <1>7, <1>8, <2>1 DEF ClusterOk, RunsOk
  <2>3. PICK e : /\ d' = e
                 /\ e.script = d.script /\ e.tag = d.tag /\ e.at = d.at /\ e.item = n
                 /\ e.results = d.results /\ e.warned = d.warned /\ e.changed = d.changed
    BY <1>2, <2>1 DEF DeploymentsOf
  <2> HIDE DEF n, tag
  <2>4. Work(e)'
    BY <1>10, <1>12, <2>1, <2>3
  <2> QED
    BY <1>3, <2>1, <2>2, <2>3, <2>4 DEF WorkInv
<1> QED
  BY <1>11, <1>12

(* A step that stays where the run is and changes nothing but what the run knows. *)
LEMMA StayWorks ==
  ASSUME DeployInv, deployment # NoDeployment, deployment \in DeploymentsOf,
         deployment.at > BuildAt(deployment.script),
         NEW e, deployment' = e,
         e.script = deployment.script, e.tag = deployment.tag, e.at = deployment.at,
         e.changed = deployment.changed, deployment.warned => e.warned,
         e.script = "sh" => ~e.warned,
         deployment.at = ApplyAt(deployment.script) => e.warned,
         deployment.at > TrafficAt(deployment.script) => e.warned = deployment.warned,
         \A i \in Members : e.results[i] = "healthy" => cluster[i] # "none" /\ ingress # "none",
         UNCHANGED <<runs, Objects>>
  PROVE  (ClusterOk /\ RunsOk /\ WorkInv)'
<1> DEFINE d == deployment
           name == d.script
<1>1. Work(d) /\ runs.reported = NothingReported /\ ClusterOk /\ RunsOk
  BY DEF DeployInv, WorkInv
<1>2. name \in {"py", "sh"} /\ d.at \in Nat /\ BuildAt(name) \in Nat
  BY StepsInOrder DEF DeploymentsOf
<1>3. UNCHANGED <<images, manifest, cluster, running, rolling, ingress, runs>>
  BY DEF Objects
<1> HIDE DEF d
<1>4. Pushed(e)'
  BY <1>1, <1>2, <1>3 DEF Work, Pushed, d
<1>5. Applied(e)'
  BY <1>1, <1>2, <1>3 DEF Work, Applied, AppliedTag, d
<1>6. Served(e)'
  BY <1>1, <1>3 DEF Work, Served, d
<1>7. Seen(e)'
  BY <1>1, <1>3 DEF Work, Seen, d
<1>8. WorkInv'
  BY <1>1, <1>3, <1>4, <1>5, <1>6, <1>7 DEF WorkInv, Work
<1> QED
  BY <1>1, <1>3, <1>8 DEF ClusterOk, RunsOk

(* "py" goes on after a failed apply, with a warning. *)
LEMMA PassOverWorks ==
  ASSUME DeployInv, At("apply"), deployment.script = "py", PassOver, UNCHANGED <<runs, Objects>>
  PROVE  (ClusterOk /\ RunsOk /\ WorkInv)'
<1> DEFINE d == deployment
           n == d.item + 1
           e == [d EXCEPT !.item = n, !.warned = TRUE]
<1>1. /\ d # NoDeployment /\ d \in DeploymentsOf /\ d.at = ApplyAt(d.script)
  BY AtSteps DEF DeployInv
<1>2. d.at > BuildAt(d.script) /\ ~(d.at > TrafficAt(d.script)) /\ n \in Nat
  BY <1>1, StepsInOrder DEF DeploymentsOf
<1>3. deployment' = e
  BY DEF PassOver
<1>4. /\ e.script = d.script /\ e.tag = d.tag /\ e.at = d.at /\ e.results = d.results
      /\ e.changed = d.changed /\ e.warned
  <2> HIDE DEF n
  <2> QED
    BY <1>1, <1>2 DEF DeploymentsOf
<1>5. \A i \in Members : d.results[i] = "healthy" => cluster[i] # "none" /\ ingress # "none"
  BY <1>1 DEF DeployInv, WorkInv, Work, Seen
<1> HIDE DEF e
<1> QED
  BY <1>1, <1>2, <1>3, <1>4, <1>5, StayWorks

(* A service is found healthy only while it has a Deployment behind an ingress. *)
LEMMA CheckWorks ==
  ASSUME DeployInv, CheckService
  PROVE  (ClusterOk /\ RunsOk /\ WorkInv)'
<1> DEFINE d == deployment
           i == d.item + 1
<1>1. At("tests") /\ d.item < LastService
  BY DEF CheckService
<1>2. /\ d # NoDeployment /\ d \in DeploymentsOf /\ d.at = TestsAt(d.script)
  BY <1>1, AtSteps DEF DeployInv
<1>3. /\ d.at > BuildAt(d.script) /\ d.at # ApplyAt(d.script) /\ ~(d.at > TrafficAt(d.script))
      /\ i \in Members /\ d.script \in {"py", "sh"}
  <2>1. d.script \in {"py", "sh"} /\ d.item \in Nat /\ LastService \in Nat
    BY <1>2, DeployAssumptions DEF DeploymentsOf
  <2>2. i \in Members
    BY <1>1, <2>1 DEF Members
  <2> QED
    BY <1>2, <2>1, <2>2, StepsInOrder
<1>4. ClusterOk /\ Work(d)
  BY <1>2 DEF DeployInv, WorkInv
<1>5. d.script = "sh" => ~d.warned
  BY <1>4 DEF Work, Applied
<1>6. \A k \in Members : d.results[k] = "healthy" => cluster[k] # "none" /\ ingress # "none"
  BY <1>4 DEF Work, Seen
<1>7. ASSUME NEW w \in Verdicts, w = "healthy" => cluster[i] # "none" /\ ingress # "none",
             deployment' = [deployment EXCEPT !.item = i, !.results[i] = w],
             UNCHANGED <<runs, Objects>>
      PROVE  (ClusterOk /\ RunsOk /\ WorkInv)'
  <2> DEFINE r == [d.results EXCEPT ![i] = w]
             e == [d EXCEPT !.item = i, !.results = r]
  <2>1. deployment' = e
    BY <1>7
  <2>2. r \in [Members -> Verdicts] /\ r[i] = w /\ \A k \in Members : k # i => r[k] = d.results[k]
    BY <1>2, <1>3, <1>7 DEF DeploymentsOf
  <2> HIDE DEF r
  <2>3. /\ e.script = d.script /\ e.tag = d.tag /\ e.at = d.at /\ e.results = r
        /\ e.changed = d.changed /\ e.warned = d.warned
    <3>1. i \in Nat
      BY <1>3 DEF Members
    <3> HIDE DEF i
    <3> QED
      BY <1>2, <2>2, <3>1 DEF DeploymentsOf
  <2> HIDE DEF e, i
  <2>4. \A k \in Members : e.results[k] = "healthy" => cluster[k] # "none" /\ ingress # "none"
    BY <1>6, <1>7, <2>2, <2>3
  <2> QED
    BY <1>2, <1>3, <1>5, <1>7, <2>1, <2>3, <2>4, StayWorks
<1>8. CASE Abort
  BY <1>2, <1>8, AbortLeaves
<1>9. Answers(i) => cluster[i] # "none" /\ ingress # "none"
  BY <1>3, <1>4 DEF Answers, ClusterOk
<1>10. ASSUME NEW c \in ChecksOf(i) 
       PROVE  /\ ServiceStatus(c) \in Verdicts
              /\ ServiceStatus(c) = "healthy" => cluster[i] # "none" /\ ingress # "none"
  <2>1. ServiceStatus(c) \in Verdicts
    BY DEF ServiceStatus, Verdicts
  <2>2. c.endpoint \in EndpointHealth(i)
    BY DEF ChecksOf
  <2>3. ServiceStatus(c) = "healthy" => c.endpoint \notin {"unhealthy", "error", "failed"}
    BY DEF ServiceStatus
  <2> HIDE DEF i
  <2> QED
    BY <1>9, <2>1, <2>2, <2>3 DEF EndpointHealth
<1> HIDE DEF i
<1>11. CASE /\ d.script = "py" /\ Answers(i) /\ UNCHANGED <<runs, Objects>>
            /\ deployment' = [deployment EXCEPT !.item = i, !.results[i] = "healthy"]
  BY <1>7, <1>9, <1>11 DEF Verdicts
<1>12. ASSUME NEW c \in ChecksOf(i), UNCHANGED <<runs, Objects>>,
              deployment' = [deployment EXCEPT !.item = i, !.results[i] = ServiceStatus(c)]
       PROVE  (ClusterOk /\ RunsOk /\ WorkInv)'
  <2> DEFINE w == ServiceStatus(c)
  <2>1. w \in Verdicts /\ (w = "healthy" => cluster[i] # "none" /\ ingress # "none")
    BY <1>10
  <2>2. deployment' = [deployment EXCEPT !.item = i, !.results[i] = w]
    BY <1>12
  <2> HIDE DEF w
  <2> QED
    BY <1>7, <1>12, <2>1, <2>2
<1> QED
  BY <1>8, <1>11, <1>12 DEF CheckService, Objects, i

(* Traffic is opened once every service has been found healthy: each then had a
   Deployment behind the ingress, and only a rollback takes one away. *)
LEMMA TrafficWorks ==
  ASSUME DeployInv, EnableTraffic
  PROVE  (ClusterOk /\ RunsOk /\ WorkInv)'
<1> DEFINE d == deployment
           e == [d EXCEPT !.at = d.at + 1, !.item = 0, !.warned = TRUE]
<1>1. At("traffic")
  BY DEF EnableTraffic
<1>2. /\ d # NoDeployment /\ d \in DeploymentsOf /\ ResultsOk(d) /\ d.at < EndAt(d.script)
      /\ d.at > TestsAt(d.script)
  BY <1>1, AtSteps DEF DeployInv
<1>3. ClusterOk /\ RunsOk /\ Work(d)
  BY <1>2 DEF DeployInv, WorkInv
<1>4. CASE Abort
  BY <1>2, <1>4, AbortLeaves
<1>5. CASE /\ ingress' = "open" /\ Onward
           /\ UNCHANGED <<images, manifest, cluster, running, rolling>>
  <2>1. (RunsOk /\ WorkInv)'
    <3>1. "traffic" # "build" /\ "traffic" # "apply" /\ "traffic" # "wait"
      OBVIOUS
    <3> QED
      BY <1>1, <1>5, <3>1, OnwardWorks
  <2>2. \A i \in Members : cluster[i] # "none"
    BY <1>2, <1>3 DEF ResultsOk, Work, Seen
  <2>3. runs'.removed = runs.removed
    <3>1. deployment.at # Len(Flow[deployment.script])
      BY <1>1, <1>2, AtSteps DEF DeployInv, DeploymentsOf, EndAt
    <3> QED
      BY <1>5, <3>1 DEF Onward
  <2>4. ClusterOk'
    BY <1>3, <1>5, <2>2, <2>3 DEF ClusterOk
  <2> QED
    BY <2>1, <2>4
<1>6. CASE d.script = "py" /\ deployment' = e /\ UNCHANGED <<runs, Objects>>
  <2>1. d.at + 1 \in 1 .. 12
    BY <1>2 DEF DeploymentsOf, EndAt
  <2>2. /\ e \in DeploymentsOf /\ e.script = d.script /\ e.tag = d.tag /\ e.at = d.at + 1
        /\ e.item = 0 /\ e.results = d.results /\ e.changed = d.changed /\ e.warned
    BY <1>2, <2>1 DEF DeploymentsOf
  <2> HIDE DEF e
  <2>3. UNCHANGED <<images, manifest, cluster, running, rolling, ingress, runs>>
    BY <1>6 DEF Objects
  <2>4. WorkInv'
    <3>1. "traffic" # "build" /\ "traffic" # "apply" /\ "traffic" # "wait" /\ e.script # "sh"
      BY <1>6, <2>2
    <3> QED
      BY <1>1, <1>6, <2>2, <2>3, <3>1, WorkMoves
  <2> QED
    BY <1>3, <2>3, <2>4 DEF ClusterOk, RunsOk
<1> QED
  BY <1>4, <1>5, <1>6 DEF EnableTraffic

(* The monitor is started, and the run goes on. *)
LEMMA ExperienceWorks ==
  ASSUME DeployInv, SetupUserExperience
  PROVE  (ClusterOk /\ RunsOk /\ WorkInv)'
<1> DEFINE d == deployment
           e == [d EXCEPT !.at = d.at + 1, !.item = 0]
<1>1. At("experience")
  BY DEF SetupUserExperience
<1>2. d # NoDeployment /\ d \in DeploymentsOf /\ d.at < EndAt(d.script)
  BY <1>1, AtSteps DEF DeployInv
<1>3. ClusterOk /\ RunsOk /\ Work(d)
  BY <1>2 DEF DeployInv, WorkInv
<1>4. CASE Abort
  BY <1>2, <1>4, AbortLeaves
<1>5. CASE deployment' = e /\ UNCHANGED <<runs, Objects>>
  <2>1. d.at + 1 \in 1 .. 12
    BY <1>2 DEF DeploymentsOf, EndAt
  <2>2. /\ e \in DeploymentsOf /\ e.script = d.script /\ e.tag = d.tag /\ e.at = d.at + 1
        /\ e.item = 0 /\ e.results = d.results /\ e.changed = d.changed /\ e.warned = d.warned
    BY <1>2, <2>1 DEF DeploymentsOf
  <2> HIDE DEF e
  <2>3. UNCHANGED <<images, manifest, cluster, running, rolling, ingress, runs>>
    BY <1>5 DEF Objects
  <2>4. d.script = "sh" => ~d.warned
    BY <1>3 DEF Work, Applied
  <2>5. WorkInv'
    <3>1. /\ "experience" # "build" /\ "experience" # "apply" /\ "experience" # "wait"
          /\ "experience" # "traffic"
      OBVIOUS
    <3> QED
      BY <1>1, <1>5, <2>2, <2>3, <2>4, <3>1, WorkMoves
  <2> QED
    BY <1>3, <2>3, <2>5 DEF ClusterOk, RunsOk
<1> QED
  BY <1>4, <1>5 DEF SetupUserExperience

(* A run starts with nothing done, and nothing reported. *)
LEMMA StartWorks ==
  ASSUME DeployInv, NEW which \in {"py", "sh"}, NEW tag \in DeployTags, NEW missing \in Missing,
         StartDeployment(which, tag, missing)
  PROVE  (ClusterOk /\ RunsOk /\ WorkInv)'
<1> DEFINE new == [script |-> which, tag |-> tag, missing |-> missing, at |-> 1, item |-> 0,
                   results |-> [i \in Members |-> "unknown"], warned |-> FALSE, changed |-> {}]
<1>1. /\ deployment' = new /\ runs' = [runs EXCEPT !.count = runs.count + 1, !.reported = NothingReported]
      /\ UNCHANGED <<images, manifest, cluster, running, rolling, ingress>>
  BY DEF StartDeployment
<1>2. /\ new.script = which /\ new.at = 1 /\ new.changed = {} /\ new.warned = FALSE
      /\ \A i \in Members : new.results[i] = "unknown"
  OBVIOUS
<1> HIDE DEF new
<1>3. ClusterOk /\ RunsOk
  BY DEF DeployInv
<1>4. /\ runs' \in [count : Nat, reported : ReportsOf, removed : SUBSET Members]
      /\ runs'.reported = NothingReported /\ runs'.removed = runs.removed
  <2> DEFINE n == runs.count + 1
             nothing == NothingReported
  <2>1. /\ runs \in [count : Nat, reported : ReportsOf, removed : SUBSET Members]
        /\ n \in Nat /\ nothing \in ReportsOf
    BY <1>3 DEF RunsOk, ReportsOf
  <2> HIDE DEF n, nothing
  <2>2. runs' = [runs EXCEPT !.count = n, !.reported = nothing]
    BY <1>1 DEF n, nothing
  <2>3. /\ runs' \in [count : Nat, reported : ReportsOf, removed : SUBSET Members]
        /\ runs'.reported = nothing /\ runs'.removed = runs.removed
    BY <2>1, <2>2
  <2> QED
    BY <2>3 DEF nothing
<1>5. /\ BuildAt(which) \in Nat /\ ApplyAt(which) \in Nat /\ WaitAt(which) \in Nat
      /\ TrafficAt(which) \in Nat /\ 1 < BuildAt(which) /\ 1 < ApplyAt(which)
      /\ 1 < WaitAt(which) /\ 1 < TrafficAt(which)
  BY StepsInOrder
<1>6. Pushed(new)' /\ Applied(new)' /\ Served(new)' /\ Seen(new)'
  BY <1>2, <1>5 DEF Pushed, Applied, Served, Seen
<1>7. WorkInv'
  BY <1>1, <1>4, <1>6 DEF WorkInv, Work
<1> QED
  BY <1>1, <1>3, <1>4, <1>7 DEF ClusterOk, RunsOk

(* Pods become ready with the image their tag has now, or fail: neither is a step of a run. *)
LEMMA PodsWork ==
  ASSUME DeployInv, NEW i \in Members, PodsReady(i) \/ PodFails(i)
  PROVE  (ClusterOk /\ RunsOk /\ WorkInv)'
<1>1. UNCHANGED <<images, manifest, cluster, ingress, deployment, runs>>
  BY DEF PodsReady, PodFails
<1>2. ClusterOk /\ RunsOk
  BY DEF DeployInv
<1>3. /\ running' \in [Members -> Nat]
      /\ \A k \in Members : k # i => running'[k] = running[k]
      /\ \/ i \in rolling /\ running'[i] = images[i][cluster[i]] /\ rolling' = rolling \ {i}
         \/ running[i] # 0 /\ running'[i] = 0 /\ rolling' = rolling \cup {i}
      /\ cluster[i] \in DeployTags
  <2>1. running \in [Members -> Nat] /\ cluster[i] \in DeployTags \cup {"none"}
        /\ images \in [Members -> [DeployTags -> Nat]]
    BY <1>2 DEF ClusterOk
  <2>2. cluster[i] # "none"
    BY <1>2 DEF ClusterOk, PodsReady, PodFails
  <2>3. images[i][cluster[i]] \in Nat
    BY <2>1, <2>2
  <2> QED
    BY <2>1, <2>2, <2>3 DEF PodsReady, PodFails
<1>4. ClusterOk'
  <2>1. cluster[i] # "none"
    BY <1>3, TagsAreReal
  <2> QED
    BY <1>1, <1>2, <1>3, <2>1 DEF ClusterOk
<1>5. RunsOk'
  BY <1>1, <1>2 DEF RunsOk
<1>6. ASSUME deployment # NoDeployment PROVE Work(deployment)'
  <2> DEFINE d == deployment
  <2>1. Work(d)
    BY <1>6 DEF DeployInv, WorkInv
  <2>2. d.changed \subseteq Members
    BY <1>6 DEF DeployInv, RunInv, RunOk, DeploymentsOf
  <2>3. Pushed(deployment)' /\ Applied(deployment)' /\ Seen(deployment)'
    BY <1>1, <2>1 DEF Work, Pushed, Applied, AppliedTag, Seen
  <2>4. Served(deployment)'
    BY <1>1, <1>3, <2>1, <2>2 DEF Work, Served
  <2> QED
    BY <2>3, <2>4 DEF Work
<1>7. ASSUME runs.reported # NothingReported
      PROVE  SuccessIsServed' /\ \A k \in Members : images[k][runs.reported.tag] = runs.count
  <2> DEFINE r == runs.reported
  <2>1. SuccessIsServed /\ \A k \in Members : images[k][r.tag] = runs.count
    BY <1>7 DEF DeployInv, WorkInv
  <2>2. r.changed \subseteq Members
    BY <1>2, <1>7 DEF RunsOk, ReportsOf
  <2>3. \A k \in r.changed : cluster[k] = r.tag => running'[k] \in {0, runs.count}
    BY <1>3, <1>7, <2>1, <2>2 DEF SuccessIsServed
  <2> QED
    BY <1>1, <1>7, <2>1, <2>3 DEF SuccessIsServed, AppliedTag
<1>8. WorkInv'
  BY <1>1, <1>6, <1>7 DEF DeployInv, WorkInv
<1> QED
  BY <1>4, <1>5, <1>8

(* Every step of a deployment, of the pods and of nothing. *)
LEMMA DeploySteps ==
  ASSUME DeployInv, DeployNext \/ UNCHANGED deployVars
  PROVE  DeployInv'
<1>1. RunInv'
  BY RunSteps DEF DeployInv
<1> SUFFICES (ClusterOk /\ RunsOk /\ WorkInv)'
  BY <1>1 DEF DeployInv
<1>2. RunInv /\ ClusterOk /\ RunsOk /\ (deployment # NoDeployment => Work(deployment))
  BY DEF DeployInv, WorkInv
<1>3. ASSUME NEW step, At(step), Abort PROVE (ClusterOk /\ RunsOk /\ WorkInv)'
  BY <1>2, <1>3, AtSteps, AbortLeaves
<1>4. ASSUME NEW step, At(step), Onward, UNCHANGED Objects, step # "traffic",
             step = "build" => deployment.item = LastService,
             step = "apply" => deployment.item = LastService + 2,
             step = "wait" => rolling = {}
      PROVE  (ClusterOk /\ RunsOk /\ WorkInv)'
  <2>1. UNCHANGED <<images, manifest, cluster, running, rolling, ingress>>
    BY <1>4 DEF Objects
  <2>2. (RunsOk /\ WorkInv)'
    BY <1>4, <2>1, OnwardWorks
  <2>3. runs'.removed = runs.removed
    BY <1>2, <1>4 DEF Onward, RunsOk
  <2> QED
    BY <1>2, <2>1, <2>2, <2>3 DEF ClusterOk
<1>5. CASE UNCHANGED deployVars
  <2>1. UNCHANGED <<images, manifest, cluster, running, rolling, ingress, deployment, runs>>
    BY <1>5 DEF deployVars
  <2>2. ClusterOk' /\ RunsOk'
    BY <1>2, <2>1 DEF ClusterOk, RunsOk
  <2>3. deployment # NoDeployment => Work(deployment)'
    BY <1>2, <2>1 DEF Work, Pushed, Applied, AppliedTag, Served, Seen
  <2>4. WorkInv'
    BY <2>1, <2>3 DEF DeployInv, WorkInv, SuccessIsServed, AppliedTag
  <2> QED
    BY <2>2, <2>4
<1>6. ASSUME NEW which \in {"py", "sh"}, NEW tag \in DeployTags, NEW missing \in Missing,
             StartDeployment(which, tag, missing)
      PROVE  (ClusterOk /\ RunsOk /\ WorkInv)'
  BY <1>6, StartWorks
<1>7. CASE ValidateEnvironment \/ SetupNamespace
  BY <1>3, <1>4, <1>7 DEF ValidateEnvironment, SetupNamespace
<1>8. CASE BuildAndPush
  BY <1>3, <1>4, <1>8, PushWorks DEF BuildAndPush
<1>9. CASE RewriteManifests
  <2>1. /\ At("rewrite") /\ Onward /\ manifest' = Rewritten
        /\ UNCHANGED <<images, cluster, running, rolling, ingress>>
    BY <1>9 DEF RewriteManifests
  <2>2. (RunsOk /\ WorkInv)'
    BY <2>1, OnwardWorks
  <2>3. manifest' \in DeployTags
    BY <1>2, <2>1, AtSteps DEF Rewritten, ClusterOk, DeploymentsOf
  <2>4. runs'.removed = runs.removed
    BY <1>2, <2>1 DEF Onward, RunsOk
  <2> QED
    BY <1>2, <2>1, <2>2, <2>3, <2>4 DEF ClusterOk
<1>10. CASE ApplyItem
  BY <1>10, ApplyWorks
<1>11. CASE ApplyFails
  BY <1>3, <1>11, PassOverWorks DEF ApplyFails
<1>12. CASE ApplyDone \/ WaitForDeployments \/ SetupMonitoring \/ GenerateReport
  BY <1>3, <1>4, <1>12
     DEF ApplyDone, WaitForDeployments, RolloutComplete, SetupMonitoring, GenerateReport
<1>13. CASE SetupUserExperience
  BY <1>13, ExperienceWorks
<1>14. CASE CheckService
  BY <1>14, CheckWorks
<1>15. CASE FinishTests
  BY <1>3, <1>4, <1>15 DEF FinishTests
<1>16. CASE EnableTraffic
  BY <1>16, TrafficWorks
<1>17. ASSUME NEW i \in Members, PodsReady(i) \/ PodFails(i) PROVE (ClusterOk /\ RunsOk /\ WorkInv)'
  BY <1>17, PodsWork
<1> QED
  BY <1>5, <1>6, <1>7, <1>8, <1>9, <1>10, <1>11, <1>12, <1>13, <1>14, <1>15, <1>16, <1>17 DEF DeployNext

(* What the invariant says of a run. *)
LEMMA DeployTells ==
  ASSUME DeployInv
  PROVE  DeploymentsAgree
<1>1. RunInv /\ ClusterOk /\ WorkInv
  BY DEF DeployInv
<1>2. SuccessIsServed
  <2>1. CASE runs.reported = NothingReported
    BY <2>1 DEF SuccessIsServed
  <2>2. CASE runs.reported # NothingReported
    BY <1>1, <2>2 DEF WorkInv
  <2> QED
    BY <2>1, <2>2
<1>3. TrafficHasServices
  <2>1. ASSUME NEW step \in {"traffic", "alerts", "report"}, At(step)
        PROVE  \A i \in Members : deployment.results[i] = "healthy"
    BY <1>1, <2>1, AtSteps DEF ResultsOk
  <2>2. \A i \in runs.removed : cluster[i] = "none" /\ running[i] = 0
    BY <1>1 DEF ClusterOk
  <2>3. ingress = "open" => \A i \in Members : cluster[i] = "none" => i \in runs.removed
    BY <1>1 DEF ClusterOk
  <2> QED
    BY <2>1, <2>2, <2>3 DEF TrafficHasServices
<1>4. \A i \in Members : cluster[i] \in {"none", "latest", manifest}
  BY <1>1 DEF RunInv, ReleasesOf
<1>5. uxMonitor => deployment # NoDeployment
  BY <1>1 DEF RunInv, RunOk
<1> QED
  BY <1>2, <1>3, <1>4, <1>5 DEF DeploymentsAgree
-----------------------------------------------------------------------------
(* Merging legacy files.                                                     *)

Texts == {NoText} \cup [headers : Nat, whole : BOOLEAN]
LegacyStates == [text : [headers : Nat, whole : BOOLEAN], suffixes : Nat]

\* The run under way has yet to visit file f
Pending(f) == merging.pc = "dockerfile" \/ f \in merging.left

MergeTypeOK ==
  /\ dockerfile \in [legacy : Texts, todo : Texts]
  /\ legacy \in [LegacyFiles -> LegacyStates]
  /\ merging \in [pc : {"idle", "dockerfile", "platform"}, left : SUBSET LegacyFiles,
                  done : SUBSET (LegacyFiles \cup {"dockerfile"})]
  /\ mergeLog \in [runs : 0 .. MaxMerges, faults : Nat]
  /\ merging.pc # "platform" => merging.left = {}

\* l is a legacy file's state, pending whether the run has yet to visit it
Traced(l, pending, log) ==
  /\ l.suffixes + (IF pending THEN 1 ELSE 0) <= log.runs
  /\ l.text.headers <= l.suffixes + log.faults
  /\ log.faults = 0 =>
       /\ l.text.whole /\ l.text.headers = l.suffixes
       /\ l.suffixes + (IF pending THEN 1 ELSE 0) = log.runs

MergeInv ==
  /\ MergeTypeOK
  /\ \A f \in LegacyFiles : Traced(legacy[f], Pending(f), mergeLog)
  /\ merging.pc = "platform" /\ mergeLog.faults = 0 => LegacyFiles \ merging.left \subseteq merging.done
  /\ merging.pc = "idle" /\ mergeLog.faults = 0 /\ mergeLog.runs > 0 => LegacyFiles \subseteq techDebt
  /\ "dockerfile" \in techDebt \cup merging.done => dockerfile.todo # NoText
  /\ mergeLog.faults = 0 =>
       /\ dockerfile.legacy # NoText => dockerfile.legacy.headers = 0
       /\ dockerfile.todo # NoText => dockerfile.todo.headers = 1

(* A text with a header more, and what is left of one when that fails. *)
LEMMA HeaderTexts ==
  ASSUME NEW t \in Texts, t # NoText
  PROVE  /\ t \in [headers : Nat, whole : BOOLEAN]
         /\ WithHeader(t) \in [headers : Nat, whole : BOOLEAN] /\ WithHeader(t) # NoText
         /\ WithHeader(t).headers = t.headers + 1 /\ WithHeader(t).whole = t.whole
         /\ \A u \in HeaderFails(t) : u \in [headers : Nat, whole : BOOLEAN] /\ u.headers <= t.headers
<1>1. t \in [headers : Nat, whole : BOOLEAN]
  BY DEF Texts
<1>2. /\ WithHeader(t) \in [headers : Nat, whole : BOOLEAN]
      /\ WithHeader(t).headers = t.headers + 1 /\ WithHeader(t).whole = t.whole
  BY <1>1 DEF WithHeader
<1>3. NoText.headers = -1
  BY DEF NoText
<1>4. WithHeader(t) # NoText
  BY <1>1, <1>2, <1>3
<1>5. \A u \in HeaderFails(t) : u \in [headers : Nat, whole : BOOLEAN] /\ u.headers <= t.headers
  <2>1. t.headers \in Nat
    BY <1>1
  <2> DEFINE none == [headers |-> 0, whole |-> FALSE]
  <2>2. none \in [headers : Nat, whole : BOOLEAN] /\ none.headers = 0
    OBVIOUS
  <2>3. \A u \in HeaderFails(t) : u = t \/ u = none
    BY DEF HeaderFails
  <2> HIDE DEF none
  <2> QED
    BY <1>1, <2>1, <2>2, <2>3
<1> QED
  BY <1>1, <1>2, <1>4, <1>5

(* No run has taken place. *)
LEMMA MergeStarts ==
  ASSUME MergeInit
  PROVE  MergeInv
<1>1. Text(0) \in [headers : Nat, whole : BOOLEAN] /\ Text(0).headers = 0 /\ Text(0).whole
  BY DEF Text
<1> DEFINE l == [text |-> Text(0), suffixes |-> 0]
<1>2. l \in LegacyStates /\ l.text = Text(0) /\ l.suffixes = 0
  BY <1>1 DEF LegacyStates
<1>3. /\ \A f \in LegacyFiles : legacy[f] = l
      /\ legacy = [f \in LegacyFiles |-> l]
      /\ dockerfile.legacy = Text(0) /\ dockerfile.todo = NoText
      /\ dockerfile \in [legacy : Texts, todo : Texts]
      /\ mergeLog.runs = 0 /\ mergeLog.faults = 0 /\ mergeLog \in [runs : 0 .. MaxMerges, faults : Nat]
      /\ merging.pc = "idle" /\ merging.left = {} /\ merging.done = {} /\ techDebt = {}
      /\ merging \in [pc : {"idle", "dockerfile", "platform"}, left : SUBSET LegacyFiles,
                      done : SUBSET (LegacyFiles \cup {"dockerfile"})]
  BY <1>1, TreeAssumptions DEF MergeInit, NoMerge, Texts
<1> HIDE DEF l
<1>4. MergeTypeOK
  BY <1>2, <1>3 DEF MergeTypeOK
<1>5. \A f \in LegacyFiles : Traced(legacy[f], Pending(f), mergeLog)
  BY <1>1, <1>2, <1>3 DEF Traced, Pending
<1> QED
  BY <1>1, <1>3, <1>4, <1>5 DEF MergeInv
MergingStates ==
  [pc : {"idle", "dockerfile", "platform"}, left : SUBSET LegacyFiles,
   done : SUBSET (LegacyFiles \cup {"dockerfile"})]
MergeLogs == [runs : 0 .. MaxMerges, faults : Nat]

(* A run begins: every file is to be visited. *)
LEMMA MergeBegins ==
  ASSUME MergeInv, BeginMerge
  PROVE  MergeInv'
<1> DEFINE log == [mergeLog EXCEPT !.runs = mergeLog.runs + 1]
           run == [NoMerge EXCEPT !.pc = "dockerfile"]
<1>1. /\ merging.pc = "idle" /\ mergeLog.runs < MaxMerges
      /\ merging' = run /\ mergeLog' = log /\ UNCHANGED <<dockerfile, legacy, techDebt>>
  BY DEF BeginMerge
<1>2. run \in MergingStates /\ run.pc = "dockerfile" /\ run.left = {} /\ run.done = {}
  BY DEF NoMerge, MergingStates
<1>3. /\ mergeLog.runs \in Nat /\ mergeLog.faults \in Nat /\ log \in MergeLogs
      /\ log.runs = mergeLog.runs + 1 /\ log.faults = mergeLog.faults
  BY <1>1, TreeAssumptions DEF MergeInv, MergeTypeOK, MergeLogs
<1> HIDE DEF log, run
<1>4. MergeTypeOK'
  BY <1>1, <1>2, <1>3 DEF MergeInv, MergeTypeOK, MergingStates, MergeLogs
<1>5. ASSUME NEW f \in LegacyFiles PROVE Traced(legacy'[f], Pending(f)', mergeLog')
  <2>1. Traced(legacy[f], Pending(f), mergeLog) /\ ~Pending(f) /\ Pending(f)'
    BY <1>1, <1>2 DEF MergeInv, MergeTypeOK, Pending
  <2>2. legacy[f].suffixes \in Nat /\ legacy[f].text.headers \in Nat
    BY <1>5 DEF MergeInv, MergeTypeOK, LegacyStates
  <2> QED
    BY <1>1, <1>3, <2>1, <2>2 DEF Traced
<1> QED
  BY <1>1, <1>2, <1>3, <1>4, <1>5 DEF MergeInv

(* The legacy Dockerfile is set aside, or not, and the platform's files come next. *)
LEMMA DockerfileMerges ==
  ASSUME MergeInv, MergeDockerfile
  PROVE  MergeInv'
<1> DEFINE old == dockerfile.legacy
           on(done) == [pc |-> "platform", left |-> LegacyFiles, done |-> done]
           log == [mergeLog EXCEPT !.faults = mergeLog.faults + 1]
<1>1. /\ merging.pc = "dockerfile" /\ UNCHANGED <<legacy, techDebt>>
      /\ old \in Texts /\ dockerfile.todo \in Texts
      /\ mergeLog.runs \in Nat /\ mergeLog.faults \in Nat
  BY DEF MergeDockerfile, MergeInv, MergeTypeOK
<1>2. /\ log \in MergeLogs /\ log.runs = mergeLog.runs /\ log.faults = mergeLog.faults + 1
      /\ log.faults # 0 /\ mergeLog \in MergeLogs
  BY <1>1 DEF MergeInv, MergeTypeOK, MergeLogs
<1>3. \A f \in LegacyFiles : legacy[f].suffixes \in Nat /\ legacy[f].text.headers \in Nat
  BY DEF MergeInv, MergeTypeOK, LegacyStates
<1>4. \A f \in LegacyFiles : Traced(legacy[f], TRUE, mergeLog)
  BY <1>1 DEF MergeInv, Pending, Traced
<1>5. \A f \in LegacyFiles, p \in BOOLEAN : Traced(legacy[f], p, log)
  <2> HIDE DEF log
  <2> QED
    BY <1>1, <1>2, <1>3, <1>4 DEF Traced
<1>6. \A done \in SUBSET {"dockerfile"} :
        /\ on(done) \in MergingStates /\ on(done).pc = "platform" /\ on(done).left = LegacyFiles
        /\ on(done).done = done
  BY DEF MergingStates
<1>7. NoMerge \in MergingStates /\ NoMerge.pc = "idle" /\ NoMerge.left = {} /\ NoMerge.done = {}
  BY DEF NoMerge, MergingStates
<1> HIDE DEF on, log
<1>8. CASE old = NoText /\ merging' = on({}) /\ UNCHANGED <<dockerfile, mergeLog>>
  BY <1>1, <1>2, <1>4, <1>6, <1>8 DEF MergeInv, MergeTypeOK, Pending, MergingStates, Traced
<1>9. CASE /\ old # NoText /\ dockerfile' = [legacy |-> NoText, todo |-> WithHeader(old)]
           /\ merging' = on({"dockerfile"}) /\ UNCHANGED mergeLog
  <2>1. WithHeader(old) \in Texts /\ WithHeader(old) # NoText /\ WithHeader(old).headers = old.headers + 1
    BY <1>1, <1>9, HeaderTexts DEF Texts
  <2>2. /\ dockerfile' \in [legacy : Texts, todo : Texts] /\ dockerfile'.legacy = NoText
        /\ dockerfile'.todo = WithHeader(old)
    BY <1>9, <2>1 DEF Texts
  <2>3. mergeLog.faults = 0 => old.headers = 0
    BY <1>9 DEF MergeInv
  <2> HIDE DEF old
  <2> QED
    BY <1>1, <1>2, <1>4, <1>6, <1>9, <2>1, <2>2, <2>3 DEF MergeInv, MergeTypeOK, Pending, MergingStates, Traced
<1>10. ASSUME NEW t \in Texts, dockerfile' = [dockerfile EXCEPT !.legacy = t], mergeLog' = log,
              merging' \in {on({}), NoMerge}
       PROVE  MergeInv'
  <2>1. /\ dockerfile' \in [legacy : Texts, todo : Texts] /\ dockerfile'.todo = dockerfile.todo
    BY <1>10 DEF MergeInv, MergeTypeOK
  <2>2. merging' \in MergingStates /\ merging'.done = {} /\ (merging'.pc # "platform" => merging'.left = {})
    BY <1>6, <1>7, <1>10
  <2>3. \A f \in LegacyFiles : Traced(legacy'[f], Pending(f)', mergeLog')
    <3>1. \A f \in LegacyFiles : Pending(f)' \in BOOLEAN
      BY DEF Pending
    <3> QED
      BY <1>1, <1>5, <1>10, <3>1
  <2> QED
    BY <1>1, <1>2, <1>10, <2>1, <2>2, <2>3 DEF MergeInv, MergeTypeOK, MergingStates, MergeLogs
<1>11. CASE /\ old # NoText /\ \E t \in HeaderFails(old) : dockerfile' = [dockerfile EXCEPT !.legacy = t]
            /\ merging' = on({}) /\ Faulty
  <2>1. \A t \in HeaderFails(old) : t \in Texts
    BY <1>1, <1>11, HeaderTexts DEF Texts
  <2> QED
    BY <1>10, <1>11, <2>1 DEF Faulty, log
<1>12. CASE /\ old # NoText /\ dockerfile' = [dockerfile EXCEPT !.legacy = WithHeader(old)]
            /\ merging' = NoMerge /\ Faulty
  <2>1. WithHeader(old) \in Texts
    BY <1>1, <1>12, HeaderTexts DEF Texts
  <2> QED
    BY <1>10, <1>12, <2>1 DEF Faulty, log
<1> QED
  BY <1>8, <1>9, <1>11, <1>12 DEF MergeDockerfile, on
(* A file of the platform is visited: the others stay as they are. *)
LEMMA PlatformFileMerges ==
  ASSUME MergeInv, NEW f \in LegacyFiles, MergePlatformFile(f)
  PROVE  MergeInv'
<1> DEFINE l == legacy[f]
           on(done) == [merging EXCEPT !.left = merging.left \ {f}, !.done = merging.done \cup done]
           log == [mergeLog EXCEPT !.faults = mergeLog.faults + 1]
<1>1. /\ merging.pc = "platform" /\ f \in merging.left /\ UNCHANGED <<dockerfile, techDebt>>
      /\ l \in LegacyStates /\ l.text \in Texts /\ l.text # NoText /\ l.suffixes \in Nat
      /\ l.text.headers \in Nat /\ l.text \in [headers : Nat, whole : BOOLEAN]
      /\ merging \in MergingStates /\ mergeLog.runs \in Nat /\ mergeLog.faults \in Nat
  <2>1. l \in LegacyStates
    BY DEF MergeInv, MergeTypeOK
  <2>2. l.text \in [headers : Nat, whole : BOOLEAN] /\ l.text.headers \in Nat /\ l.suffixes \in Nat
    BY <2>1 DEF LegacyStates
  <2>3. NoText.headers = -1
    BY DEF NoText
  <2>4. l.text # NoText
    BY <2>2, <2>3
  <2> QED
    BY <2>1, <2>2, <2>4 DEF MergePlatformFile, MergeInv, MergeTypeOK, MergingStates, Texts
<1>2. /\ log \in MergeLogs /\ log.runs = mergeLog.runs /\ log.faults = mergeLog.faults + 1
      /\ log.faults # 0 /\ mergeLog \in MergeLogs
  BY <1>1 DEF MergeInv, MergeTypeOK, MergeLogs
<1>3. \A done \in SUBSET LegacyFiles :
        /\ on(done) \in MergingStates /\ on(done).pc = "platform" /\ on(done).left = merging.left \ {f}
        /\ on(done).done = merging.done \cup done
  BY <1>1 DEF MergingStates
<1>4. NoMerge \in MergingStates /\ NoMerge.pc = "idle" /\ NoMerge.left = {} /\ NoMerge.done = {}
  BY DEF NoMerge, MergingStates
<1>5. /\ \A g \in LegacyFiles : Traced(legacy[g], g \in merging.left, mergeLog)
      /\ Traced(l, TRUE, mergeLog)
      /\ \A g \in LegacyFiles : legacy[g].suffixes \in Nat /\ legacy[g].text.headers \in Nat
  BY <1>1 DEF MergeInv, MergeTypeOK, Pending, LegacyStates, Traced
<1>6. WithHeader(l.text) \in [headers : Nat, whole : BOOLEAN]
      /\ WithHeader(l.text).headers = l.text.headers + 1 /\ WithHeader(l.text).whole = l.text.whole
      /\ \A u \in HeaderFails(l.text) : u \in [headers : Nat, whole : BOOLEAN] /\ u.headers <= l.text.headers
  BY <1>1, HeaderTexts
<1>7. "dockerfile" \notin LegacyFiles
  BY TreeAssumptions
<1>8. legacy \in [LegacyFiles -> LegacyStates]
  BY DEF MergeInv, MergeTypeOK
<1> HIDE DEF on, log, l
<1>9. ASSUME NEW m \in LegacyStates, m.text = WithHeader(l.text), m.suffixes = l.suffixes + 1,
             legacy' = [legacy EXCEPT ![f] = m], merging' = on({f}), UNCHANGED mergeLog
      PROVE  MergeInv'
  <2>1. /\ legacy' \in [LegacyFiles -> LegacyStates] /\ legacy'[f] = m
        /\ \A g \in LegacyFiles : g # f => legacy'[g] = legacy[g]
    BY <1>8, <1>9
  <2>2. /\ merging' \in MergingStates /\ merging'.pc = "platform" /\ merging'.left = merging.left \ {f}
        /\ merging'.done = merging.done \cup {f}
    BY <1>3, <1>9
  <2>3. MergeTypeOK'
    BY <1>1, <1>2, <1>9, <2>1, <2>2 DEF MergeInv, MergeTypeOK, MergingStates, MergeLogs
  <2>4. ASSUME NEW g \in LegacyFiles PROVE Traced(legacy'[g], Pending(g)', mergeLog')
    <3>1. Pending(g)' = (g \in merging.left /\ g # f)
      BY <2>2 DEF Pending
    <3>2. CASE g = f
      <4>1. Traced(m, FALSE, mergeLog)
        BY <1>1, <1>5, <1>6, <1>9 DEF Traced
      <4>2. Pending(g)' = FALSE
        BY <3>1, <3>2
      <4> QED
        BY <1>9, <2>1, <3>2, <4>1, <4>2
    <3>3. CASE g # f
      BY <1>5, <1>9, <2>1, <3>1, <3>3 DEF Traced
    <3> QED
      BY <3>2, <3>3
  <2> QED
    BY <1>1, <1>7, <1>9, <2>2, <2>3, <2>4 DEF MergeInv
<1>10. ASSUME NEW t \in [headers : Nat, whole : BOOLEAN], t.headers <= l.text.headers + 1,
              legacy' = [legacy EXCEPT ![f].text = t], mergeLog' = log, merging' \in {on({}), NoMerge}
       PROVE  MergeInv'
  <2> DEFINE m == [l EXCEPT !.text = t]
  <2>1. m \in LegacyStates /\ m.text = t /\ m.suffixes = l.suffixes
    BY <1>1 DEF LegacyStates
  <2>2. legacy' = [legacy EXCEPT ![f] = m]
    BY <1>10 DEF l
  <2> HIDE DEF m
  <2>3. /\ legacy' \in [LegacyFiles -> LegacyStates] /\ legacy'[f] = m
        /\ \A g \in LegacyFiles : g # f => legacy'[g] = legacy[g]
    BY <1>8, <2>1, <2>2
  <2>4. /\ merging' \in MergingStates /\ merging'.done \subseteq merging.done
        /\ merging'.pc # "dockerfile" /\ merging'.left \subseteq merging.left
        /\ (merging'.pc # "platform" => merging'.left = {}) /\ f \notin merging'.left
    BY <1>3, <1>4, <1>10
  <2>5. MergeTypeOK'
    BY <1>1, <1>2, <1>10, <2>3, <2>4 DEF MergeInv, MergeTypeOK, MergingStates, MergeLogs
  <2>6. ASSUME NEW g \in LegacyFiles PROVE Traced(legacy'[g], Pending(g)', mergeLog')
    <3>1. (g \notin merging'.left => Pending(g)' = FALSE) /\ (g \in merging'.left => Pending(g)' = TRUE)
      BY <2>4 DEF Pending
    <3>2. CASE g = f
      <4>1. t.headers \in Nat
        OBVIOUS
      <4>2. Traced(m, FALSE, log)
        BY <1>1, <1>2, <1>5, <1>10, <2>1, <4>1 DEF Traced
      <4>3. Pending(g)' = FALSE
        BY <2>4, <3>1, <3>2
      <4> QED
        BY <1>10, <2>3, <3>2, <4>2, <4>3
    <3>3. CASE g # f
      <4>1. Traced(legacy[g], TRUE, log) \/ (g \notin merging.left /\ Traced(legacy[g], FALSE, log))
        BY <1>1, <1>2, <1>5 DEF Traced
      <4>2. Traced(legacy[g], TRUE, log) => Traced(legacy[g], FALSE, log)
        BY <1>1, <1>2, <1>5 DEF Traced
      <4>3. g \in merging'.left => g \in merging.left
        BY <2>4
      <4>4. (Pending(g)' = TRUE /\ g \in merging.left) \/ Pending(g)' = FALSE
        BY <3>1, <4>3
      <4> QED
        BY <1>10, <2>3, <3>3, <4>1, <4>2, <4>4
    <3> QED
      BY <3>2, <3>3
  <2> QED
    BY <1>1, <1>2, <1>10, <2>4, <2>5, <2>6 DEF MergeInv
<1>11. CASE /\ legacy' = [legacy EXCEPT ![f] = [text |-> WithHeader(@.text), suffixes |-> @.suffixes + 1]]
            /\ merging' = on({f}) /\ UNCHANGED mergeLog
  <2> DEFINE m == [text |-> WithHeader(l.text), suffixes |-> l.suffixes + 1]
  <2>1. m \in LegacyStates /\ m.text = WithHeader(l.text) /\ m.suffixes = l.suffixes + 1
    BY <1>1, <1>6 DEF LegacyStates
  <2>2. legacy' = [legacy EXCEPT ![f] = m]
    BY <1>8, <1>11 DEF l
  <2> HIDE DEF m
  <2> QED
    BY <1>9, <1>11, <2>1, <2>2
<1>12. CASE /\ \E t \in HeaderFails(legacy[f].text) : legacy' = [legacy EXCEPT ![f].text = t]
            /\ merging' = on({}) /\ Faulty
  <2>1. PICK t \in HeaderFails(l.text) : legacy' = [legacy EXCEPT ![f].text = t]
    BY <1>12 DEF l
  <2>2. t \in [headers : Nat, whole : BOOLEAN] /\ t.headers <= l.text.headers
    BY <1>6
  <2>3. t.headers <= l.text.headers + 1
    BY <1>1, <2>2
  <2> QED
    BY <1>10, <1>12, <2>1, <2>2, <2>3 DEF Faulty, log
<1>13. CASE /\ legacy' = [legacy EXCEPT ![f].text = WithHeader(@)]
            /\ merging' = NoMerge /\ Faulty
  <2> DEFINE t == WithHeader(l.text)
  <2>1. legacy' = [legacy EXCEPT ![f].text = t]
    BY <1>8, <1>13 DEF l
  <2>2. t \in [headers : Nat, whole : BOOLEAN] /\ t.headers <= l.text.headers + 1
    BY <1>1, <1>6
  <2> HIDE DEF t
  <2> QED
    BY <1>10, <1>13, <2>1, <2>2 DEF Faulty, log
<1> QED
  BY <1>11, <1>12, <1>13 DEF MergePlatformFile, on

(* Every step of a run. *)
LEMMA MergeSteps ==
  ASSUME MergeInv, MergeNext \/ UNCHANGED mergeVars
  PROVE  MergeInv'
<1>1. CASE UNCHANGED mergeVars
  BY <1>1 DEF mergeVars, MergeInv, MergeTypeOK, Pending
<1>2. CASE WriteTechDebt
  <2>1. NoMerge \in MergingStates /\ NoMerge.pc = "idle" /\ NoMerge.left = {} /\ NoMerge.done = {}
    BY DEF NoMerge, MergingStates
  <2>2. /\ merging.pc = "platform" /\ merging.left = {} /\ techDebt' = merging.done /\ merging' = NoMerge
        /\ UNCHANGED <<dockerfile, legacy, mergeLog>>
    BY <1>2 DEF WriteTechDebt
  <2>3. \A f \in LegacyFiles : Pending(f)' = Pending(f)
    BY <2>1, <2>2 DEF Pending
  <2>4. MergeTypeOK'
    BY <2>1, <2>2 DEF MergeInv, MergeTypeOK, MergingStates
  <2>5. \A f \in LegacyFiles : Traced(legacy'[f], Pending(f)', mergeLog')
    BY <2>2, <2>3 DEF MergeInv
  <2> QED
    BY <2>1, <2>2, <2>4, <2>5 DEF MergeInv
<1>3. CASE BringBack
  <2>1. /\ dockerfile' = [dockerfile EXCEPT !.legacy = Text(0)]
        /\ UNCHANGED <<legacy, merging, techDebt, mergeLog>>
    BY <1>3 DEF BringBack
  <2>2. Text(0) \in Texts /\ Text(0).headers = 0
    BY DEF Text, Texts
  <2>3. /\ dockerfile' \in [legacy : Texts, todo : Texts] /\ dockerfile'.legacy = Text(0)
        /\ dockerfile'.todo = dockerfile.todo
    BY <2>1, <2>2 DEF MergeInv, MergeTypeOK
  <2>4. \A f \in LegacyFiles : Pending(f)' = Pending(f)
    BY <2>1 DEF Pending
  <2> QED
    BY <2>1, <2>2, <2>3, <2>4 DEF MergeInv, MergeTypeOK
<1> QED
  BY <1>1, <1>2, <1>3, MergeBegins, DockerfileMerges, PlatformFileMerges DEF MergeNext

(* What the invariant says of the legacy files. *)
LEMMA MergeTells ==
  ASSUME MergeInv
  PROVE  LegacyIsTraced
<1>1. mergeLog.runs \in 0 .. MaxMerges /\ mergeLog.faults \in Nat /\ MaxMerges \in Nat
  BY TreeAssumptions DEF MergeInv, MergeTypeOK
<1>2. ASSUME NEW f \in LegacyFiles
      PROVE  /\ legacy[f].suffixes <= mergeLog.runs
             /\ legacy[f].text.headers - legacy[f].suffixes \in -MaxMerges .. mergeLog.faults
             /\ mergeLog.faults = 0 =>
                  legacy[f].text.whole /\ legacy[f].text.headers = legacy[f].suffixes
  <2>1. legacy[f].suffixes \in Nat /\ legacy[f].text.headers \in Nat
    BY DEF MergeInv, MergeTypeOK, LegacyStates
  <2>2. Traced(legacy[f], Pending(f), mergeLog)
    BY DEF MergeInv
  <2> QED
    BY <1>1, <2>1, <2>2 DEF Traced
<1>3. ASSUME merging.pc = "idle", mergeLog.faults = 0, NEW f \in LegacyFiles
      PROVE  legacy[f].suffixes = mergeLog.runs
  <2>1. ~Pending(f) /\ Traced(legacy[f], Pending(f), mergeLog) /\ legacy[f].suffixes \in Nat
    BY <1>3 DEF MergeInv, MergeTypeOK, Pending, LegacyStates
  <2> QED
    BY <1>3, <2>1 DEF Traced
<1> QED
  BY <1>2, <1>3 DEF LegacyIsTraced, MergeInv
=============================================================================
