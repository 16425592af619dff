----------------------------- MODULE EmbeddingCache -----------------------------
(******************************************************************************)
(* OpenAIEmbeddingProvider of embedding-mcp: texts are looked up in a cache   *)
(* with a time to live and an order of use; the chunks of those that are not  *)
(* found go to the service in batches that cut across texts, and the vectors  *)
(* come back as one list, to be dealt out again.                              *)
(******************************************************************************)
EXTENDS Naturals, Sequences, FiniteSets, SequencesExt

CONSTANTS
  Texts,      \* normalised texts
  Length,     \* of a text, in chunks, before it is truncated
  MaxChunks, BatchSize, CacheSize,
  MaxTexts    \* texts of one call

EmbeddingAssumption ==
  /\ Length \in [Texts -> Nat \ {0}]
  /\ {MaxChunks, BatchSize} \subseteq Nat \ {0} /\ CacheSize \in Nat

VARIABLES
  cache,  \* _cache, the least recently used entry first
  reply   \* the texts of the last call and what it has returned

vars == <<cache, reply>>

(* A chunk's vector is represented by the chunk, a combined vector by what is *)
(* combined in it.                                                            *)
Chunks(t)    == [n \in 1..(IF Length[t] < MaxChunks THEN Length[t] ELSE MaxChunks) |-> <<t, n>>]
Entry(t, v)  == [text |-> t, vector |-> v, expired |-> FALSE]
Held(c)      == {entry.text : entry \in Range(c)}

Init == cache = <<>> /\ reply = [texts |-> <<>>, result |-> <<>>]

--------------------------------------------------------------------------------
(* _cache_get: an entry that has expired is deleted, another one becomes the  *)
(* most recently used.                                                        *)
Hits(c, t) == {entry \in Range(c) : entry.text = t /\ ~entry.expired}
Without(c, t) ==
  IF t \in Held(c) THEN RemoveAt(c, CHOOSE k \in DOMAIN c : c[k].text = t) ELSE c
Get(c, t) ==
  IF Hits(c, t) = {} THEN Without(c, t)
  ELSE Append(Without(c, t), CHOOSE entry \in Hits(c, t) : TRUE)

(* _cache_put; without a size, nothing is kept.                               *)
Put(c, t, v) ==
  LET longer == Append(Without(c, t), Entry(t, v))
  IN IF Len(longer) > CacheSize THEN Tail(longer) ELSE longer

(* The lookups of _embed_many, in the order of the texts: the cache after the *)
(* first n of them, what the n-th finds, and the chunks that it misses.       *)
LookedUp(texts, n) == FoldLeft(Get, cache, SubSeq(texts, 1, n))
Found(texts, n)    == Hits(LookedUp(texts, n - 1), texts[n])
Missed(texts) ==
  [n \in 1..Len(texts) |-> IF Found(texts, n) = {} THEN Chunks(texts[n]) ELSE <<>>]

(* _request_batch for each slice of the flat list of chunks.                  *)
Batches(flat) == (Len(flat) + BatchSize - 1) \div BatchSize
Batch(flat, b) ==
  SubSeq(flat, (b - 1) * BatchSize + 1,
         IF b * BatchSize < Len(flat) THEN b * BatchSize ELSE Len(flat))
Received(flat) == FlattenSeq([b \in 1..Batches(flat) |-> Batch(flat, b)])

(* The vectors of the n-th text's chunks, which the cursor has come to.       *)
CursorSlip(missed, n) == Cardinality({m \in 1..n - 1 : missed[m] # <<>>})
Cursor(missed, n) == Len(FlattenSeq(SubSeq(missed, 1, n - 1)))
Dealt(missed, n) ==
  SubSeq(Received(FlattenSeq(missed)), Cursor(missed, n) + 1, Cursor(missed, n) + Len(missed[n]))

Results(texts) ==
  [n \in 1..Len(texts) |->
     IF Found(texts, n) = {} THEN Dealt(Missed(texts), n)
     ELSE (CHOOSE entry \in Found(texts, n) : TRUE).vector]

Stored(texts) ==
  LET Step(c, n) ==
        IF Found(texts, n) = {} THEN Put(c, texts[n], Dealt(Missed(texts), n)) ELSE c
  IN FoldLeftDomain(Step, LookedUp(texts, Len(texts)), texts)

(* embed_text and embed_batch, answered by the service.                       *)
Embed(texts) ==
  /\ cache' = Stored(texts)
  /\ reply' = [texts |-> texts, result |-> Results(texts)]

(* A batch fails for good, or a vector has another dimension: the vectors of  *)
(* the batches before it are lost, the lookups are not undone.                *)
EmbedFails(texts) ==
  /\ \E n \in 1..Len(texts) : Found(texts, n) = {}
  /\ cache' = LookedUp(texts, Len(texts))
  /\ reply' = [texts |-> <<>>, result |-> <<>>]

(* cache_ttl_seconds pass.                                                    *)
Expire(i) ==
  /\ cache' = [cache EXCEPT ![i].expired = TRUE]
  /\ UNCHANGED reply

Next ==
  \/ \E n \in 1..MaxTexts : \E texts \in [1..n -> Texts] : Embed(texts) \/ EmbedFails(texts)
  \/ \E i \in 1..Len(cache) : Expire(i)
Spec == Init /\ [][Next]_vars

--------------------------------------------------------------------------------
(* Every text gets its own vector, all chunks of it and none of another's, in *)
(* its place, whatever was found in the cache, asked for twice, and wherever  *)
(* the batches were cut.                                                      *)
OwnVectors ==
  /\ Len(reply.result) = Len(reply.texts)
  /\ \A i \in 1..Len(reply.texts) : reply.result[i] = Chunks(reply.texts[i])

(* The cache stays within its size, holds a text once, and what it holds for  *)
(* a text is the text's vector.                                               *)
CacheSound ==
  /\ Len(cache) <= CacheSize
  /\ Cardinality(Held(cache)) = Len(cache)
  /\ \A entry \in Range(cache) : entry.vector = Chunks(entry.text)
================================================================================
