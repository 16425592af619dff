------------------------------ MODULE VectorStores ------------------------------
(******************************************************************************)
(* The two stores behind milvus-mcp, MemoryVectorStore and MilvusVectorStore, *)
(* given the same calls.  A vector is a model value; Sim is the cosine of two *)
(* of them, in hundredths.  Vectors of another dimension are in Misfits.      *)
(******************************************************************************)
EXTENDS Integers, Sequences, FiniteSets, FiniteSetsExt, SequencesExt

CONSTANTS
  Ids, Vectors, Misfits, Scopes,  \* a scope is what a metadata filter tells apart
  Sim,         \* on pairs of vectors
  MaxItems,    \* items of a batch
  Threshold,   \* of semantic_deduplicate
  Unfiltered,  \* the filter {}, which MilvusClient sends when it is given none
  NoFilter     \* None: no metadata_filter at all

VectorsAssumption ==
  /\ {Unfiltered, NoFilter} \cap Scopes = {} /\ Unfiltered # NoFilter
  /\ Sim \in [Vectors \X Vectors -> Int] /\ Threshold \in Int
  /\ \A v, w \in Vectors : Sim[<<v, w>>] = Sim[<<w, v>>]

VARIABLES
  items,       \* MemoryVectorStore.items: partial function of the ids
  collection,  \* Milvus: the entities of the collection
  reply,       \* the last call and what each store has answered
  swept        \* has a delete by id carried an empty filter?

vars == <<items, collection, reply, swept>>

Item    == [id : Ids, vector : Vectors \cup Misfits, scope : Scopes]
Filters == Scopes \cup {Unfiltered, NoFilter}
Empty   == [i \in {} |-> 0]

(* What a store answers: an error, or the ids that it names.                  *)
Refused   == [ok |-> FALSE, ids |-> {}]
Told(ids) == [ok |-> TRUE, ids |-> ids]
Quiet     == [call |-> "none", memory |-> Told({}), milvus |-> Told({})]

Init == items = Empty /\ collection = Empty /\ reply = Quiet /\ swept = FALSE

--------------------------------------------------------------------------------
(* prepare_item and _validate_vector.                                         *)
Valid(item) == item.vector \in Vectors

(* _matches_filter; an empty filter matches everything.                       *)
Matches(item, filter) == filter \in {Unfiltered, NoFilter} \/ item.scope = filter

Put(store, batch) ==
  LET last(i) == Max({n \in 1..Len(batch) : batch[n].id = i})
      new     == {item.id : item \in Range(batch)}
  IN [i \in DOMAIN store \cup new |-> IF i \in new THEN batch[last(i)] ELSE store[i]]

(* upsert_batch, and upsert as a batch of one: every item is prepared first.  *)
Upsert(batch) ==
  LET valid  == \A n \in 1..Len(batch) : Valid(batch[n])
      answer == IF valid THEN Told({batch[n].id : n \in 1..Len(batch)}) ELSE Refused
  IN /\ IF valid
        THEN items' = Put(items, batch) /\ collection' = Put(collection, batch)
        ELSE UNCHANGED <<items, collection>>
     /\ reply' = [call |-> "upsert", memory |-> answer, milvus |-> answer]
     /\ UNCHANGED swept

(* delete: what the memory store takes out, which is everything when there    *)
(* are ids and the filter is empty.                                           *)
Targets(ids, filter) ==
  {i \in DOMAIN items : i \in ids \/ (filter # NoFilter /\ Matches(items[i], filter))}

(* What client.delete takes out.  An empty filter becomes None on the way; a  *)
(* filter beside ids, which Milvus's client refuses, is left out here.        *)
Deleted(ids, filter) ==
  IF ids # {} THEN ids \cap DOMAIN collection
  ELSE {i \in DOMAIN collection : Matches(collection[i], filter)}

Drop(store, ids) == [i \in DOMAIN store \ ids |-> store[i]]

(* delete: the memory store names what it has taken out, MilvusVectorStore    *)
(* the ids it was given, which is none of those that a filter finds and some  *)
(* that were never stored. The counts beside them are left out: one is the    *)
(* number of the ids, the other Milvus's own.                                 *)
Delete(ids, filter) ==
  /\ IF ids = {} /\ filter \notin Scopes
     THEN /\ UNCHANGED <<items, collection>>
          /\ reply' = [call |-> "delete", memory |-> Refused, milvus |-> Refused]
          /\ UNCHANGED swept
     ELSE /\ ~(ids # {} /\ filter \in Scopes)
          /\ items' = Drop(items, Targets(ids, filter))
          /\ collection' = Drop(collection, Deleted(ids, filter))
          /\ reply' = [call |-> "delete", memory |-> Told(Targets(ids, filter)),
                       milvus |-> Told(ids)]
          /\ swept' = (swept \/ (ids # {} /\ filter = Unfiltered))

--------------------------------------------------------------------------------
(* search: the matches that reach the minimum, the best first, cut at limit.  *)
(* Milvus cuts first and then drops what is below the minimum.  The set of    *)
(* the scores is what both promise.                                           *)
Scope(store, filter) == {i \in DOMAIN store : Matches(store[i], filter)}
Score(store, v, i)   == Sim[<<v, store[i].vector>>]
Better(store, v, s, i) == {j \in s : Score(store, v, j) > Score(store, v, i)}
Best(store, v, s, limit) ==
  {i \in s : Cardinality(Better(store, v, s, i)) < limit}
Scores(store, v, s) == {Score(store, v, i) : i \in s}

MemoryHits(v, limit, filter, least) ==
  LET s == {i \in Scope(items, filter) : Score(items, v, i) >= least}
  IN Scores(items, v, Best(items, v, s, limit))
MilvusHitsSlip(v, limit, filter, least) ==
  LET s == Best(collection, v, DOMAIN collection, limit)
  IN {n \in Scores(collection, v, s \cap Scope(collection, filter)) : n >= least}
MilvusHits(v, limit, filter, least) ==
  LET s == Best(collection, v, Scope(collection, filter), limit)
  IN {n \in Scores(collection, v, s) : n >= least}

(* deduplicate, item after item: a duplicate of something in the store or of  *)
(* an earlier item of the batch that is unique.  found is where the items are *)
(* that have their like in the store.                                         *)
Near(v, vs) == \E w \in vs : Sim[<<v, w>>] >= Threshold
UniquesSlip(batch, found) ==
  LET Step(unique, n) == IF n \in found THEN unique ELSE Append(unique, batch[n])
  IN FoldLeftDomain(Step, <<>>, batch)
Uniques(batch, found) ==
  LET Step(unique, n) ==
        IF n \in found \/ Near(batch[n].vector, {u.vector : u \in Range(unique)})
        THEN unique ELSE Append(unique, batch[n])
  IN FoldLeftDomain(Step, <<>>, batch)

(* The memory store compares with all that the filter matches,                *)
(* MilvusVectorStore asks the collection for the one best hit.                *)
MemoryFound(batch, filter) ==
  {n \in DOMAIN batch :
     Near(batch[n].vector, {items[i].vector : i \in Scope(items, filter)})}
MilvusFound(batch, filter) ==
  {n \in DOMAIN batch : MilvusHits(batch[n].vector, 1, filter, Threshold) # {}}
MemoryUniques(batch, filter) == Uniques(batch, MemoryFound(batch, filter))
MilvusUniques(batch, filter) == Uniques(batch, MilvusFound(batch, filter))

Batches == UNION {[1..n -> Item] : n \in 1..MaxItems}

Next ==
  \/ \E batch \in Batches : Upsert(batch)
  \/ \E ids \in SUBSET Ids, filter \in {NoFilter, Unfiltered} : Delete(ids, filter)
  \/ \E filter \in Filters : Delete({}, filter)
Spec == Init /\ [][Next]_vars

--------------------------------------------------------------------------------
TypeOK ==
  \A store \in {items, collection} :
    /\ DOMAIN store \subseteq Ids
    /\ \A i \in DOMAIN store : store[i].id = i /\ store[i] \in Item /\ Valid(store[i])

(* What development with the store in memory sees is what Milvus would hold:  *)
(* the same calls leave the same items (the design of the memory providers:   *)
(* "Memory mode implements the same ... CRUD behavior").  A delete by id with *)
(* an empty filter, as MilvusClient sends it, breaks that: the memory store   *)
(* then holds less, but nothing that Milvus would not.                        *)
SameItems ==
  /\ \A i \in DOMAIN items : i \in DOMAIN collection /\ items[i] = collection[i]
  /\ swept \/ items = collection

(* And, until then, what the stores answer agrees. A call is refused by both  *)
(* or by none, and an upsert names the same ids. A delete does not, but what  *)
(* either store names is then in neither, and a delete by id names nothing in *)
(* memory that it does not name in Milvus: a caller that strikes the ids of   *)
(* the answer from a list of its own strikes nothing that is still stored.    *)
SameReplies ==
  /\ reply.memory.ok = reply.milvus.ok
  /\ reply.call = "upsert" => reply.memory = reply.milvus
  /\ reply.call = "delete" =>
       /\ (reply.memory.ids \cup reply.milvus.ids) \cap (DOMAIN items \cup DOMAIN collection) = {}
       /\ reply.milvus.ids = {} \/ reply.memory.ids \subseteq reply.milvus.ids

(* Whatever is asked of what is stored, the scores found and the items that   *)
(* are no duplicates are the same, although one store cuts, filters and       *)
(* compares in another order than the other.                                  *)
SameScores(limit, least) ==
  \A v \in Vectors, filter \in Filters :
    MemoryHits(v, limit, filter, least) = MilvusHits(v, limit, filter, least)
Comparable == {batch \in Batches : \A n \in 1..Len(batch) : Valid(batch[n])}
SameUniques ==
  \A batch \in Comparable, filter \in Filters :
    MemoryUniques(batch, filter) = MilvusUniques(batch, filter)
SameAnswers ==
  swept \/
  /\ SameReplies
  /\ \A limit \in 1..2, least \in {-1, Threshold} : SameScores(limit, least)
  /\ SameUniques

(* Deduplication keeps no two items that are alike, nor one that is like a    *)
(* stored one, whatever the order in which the batch brings them.             *)
UniqueApart ==
  \A batch \in Comparable, filter \in Filters :
    LET unique == MemoryUniques(batch, filter)
    IN \A n \in 1..Len(unique) :
         ~Near(unique[n].vector, {unique[m].vector : m \in 1..Len(unique) \ {n}}
                                   \cup {items[i].vector : i \in Scope(items, filter)})
================================================================================
