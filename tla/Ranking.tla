--------------------------------- MODULE Ranking ---------------------------------
(******************************************************************************)
(* RecommendationRanker.rank: every article of a batch gets a score out of    *)
(* nine dimensions, articles are kept or rejected, and the kept ones are put  *)
(* in an order that keeps topics and sources from crowding.  Dimensions are   *)
(* in tenths (0..100), scores in hundredths, weights of dimensions in tenths. *)
(******************************************************************************)
EXTENDS Integers, Sequences, SequencesExt, FiniteSetsExt

CONSTANTS
  Rankable,       \* sequences of articles to rank
  Profiles,       \* what is known of the user
  Settings,       \* of RecommendationSettings: minKeep, consecutive, window,
                  \*   topicRatio and sourceRatio in percent
  None

(* An article: id, title and text (the words found in them), tags, source,    *)
(* url, length of the text, half-lives since its publication (or None), what  *)
(* the MCP servers say: best match in the vector memory and topics of the     *)
(* interest graph, each None when there is no answer.                         *)
(* Every article has an id and a source.                                      *)
(* A profile: keywords, topics (weights in tenths), dislikes, seen (urls),    *)
(* titles (seen, none of them empty).                                         *)
Words(a) == a.title \cup a.text \cup a.tags

Article(a) ==
  /\ IsFiniteSet(Words(a)) /\ a.quality \in 0..100
  /\ a.match \in -100..100 \cup {None} /\ a.age \in Nat \cup {None}
Profile(p) ==
  /\ DOMAIN p = {"keywords", "topics", "dislikes", "seen", "titles"}
  /\ IsFiniteSet(p.keywords)
  /\ p.topics \in [DOMAIN p.topics -> Int]

(* RecommendationSettings.from_dict takes at least 1 for either.              *)
RankingAssumption ==
  /\ {Settings.window, Settings.consecutive} \subseteq Nat \ {0}
  /\ \A articles \in Rankable :
       articles \in Seq(Range(articles)) /\ \A a \in Range(articles) : Article(a)
  /\ \A p \in Profiles : Profile(p)
  /\ None \notin Int

VARIABLES batch, profile, selected, remaining

vars == <<batch, profile, selected, remaining>>

Capped(n) == Min({100, Max({0, n})})

--------------------------------------------------------------------------------
(* The dimensions; None is "not available".                                   *)
Keyword(a, p) ==
  Capped(SumFunction([w \in p.keywords |-> IF w \in a.title THEN 50 ELSE IF w \in a.tags THEN 25
                                            ELSE IF w \in a.text THEN 15 ELSE 0]))
Topic(a, p) ==
  IF DOMAIN p.topics = {} THEN None
  ELSE Capped(SumFunction([w \in Words(a) |->
         IF w \in DOMAIN p.topics THEN 10 * Min({10, Max({0, p.topics[w]})}) ELSE 0]))
Milvus(a) == IF a.match = None THEN None ELSE Capped(a.match)
(* The servers send weights where the ranker reads "score": 0.7 for each.     *)
Neo4j(a) ==
  IF a.graph = None THEN None
  ELSE Capped(SumFunction([w \in Words(a) |-> IF w \in a.graph THEN 70 ELSE 0]))
Freshness(a) ==
  IF a.age = None THEN 50 ELSE IF a.age > 6 THEN 0 ELSE <<100, 50, 25, 12, 6, 3, 1>>[a.age + 1]
Content(a) ==
  Capped((IF a.title # {} THEN 25 ELSE 0) + (IF a.url # None THEN 15 ELSE 0)
         + (CASE a.length = "long" -> 40 [] a.length = "enough" -> 25
              [] a.length = "short" -> 20 [] OTHER -> 0)
         + (IF a.tags # {} THEN 10 ELSE 0) - (IF a.fetched THEN 0 ELSE 30))
Duplicate(a, p) ==
  Max({0} \cup {100 : u \in {a.url} \cap p.seen} \cup {70 : t \in {a.title} \cap p.titles}
          \cup {80 : m \in {a.match} \cap 92..100})
NegativeSlip(a, p) ==
  Min({60, 20 * SumFunction([w \in Words(a) |-> IF w \in p.dislikes THEN -1 ELSE 0])})
Negative(a, p) ==
  Min({60, 20 * SumFunction([w \in Words(a) \cup {a.source} |->
                               IF w \in p.dislikes THEN 1 ELSE 0])})

(* _combine: positive dimensions that are available, averaged by weight, less *)
(* the average of the penalties.                                              *)
Weights ==
  [keyword |-> 10, topic |-> 12, milvus |-> 10, neo4j |-> 9, source |-> 8, freshness |-> 7,
   content |-> 11]
Values(a, p) ==
  [keyword |-> Keyword(a, p), topic |-> Topic(a, p), milvus |-> Milvus(a), neo4j |-> Neo4j(a),
   source |-> a.quality, freshness |-> Freshness(a), content |-> Content(a)]
Available(a, p) == LET values == Values(a, p) IN {d \in DOMAIN Weights : values[d] # None}
Total(a, p) ==
  LET values == Values(a, p)
      there  == Available(a, p)
  IN SumFunction([d \in DOMAIN Weights |-> IF d \in there THEN values[d] * Weights[d] ELSE 0])
Divisor(a, p) ==
  LET there == Available(a, p)
  IN SumFunction([d \in DOMAIN Weights |-> IF d \in there THEN Weights[d] ELSE 0])
Penalty(a, p) == 5 * (Duplicate(a, p) + Negative(a, p))
Score(a, p) ==
  Min({1000, Max({0, ((10 * Total(a, p)) \div Divisor(a, p)) - Penalty(a, p)})})

Rejections(a, p) ==
  {why \in {"title", "text", "seen", "disliked", "content"} :
     \/ why = "title" /\ a.title = {}
     \/ why = "text" /\ a.length = "none" /\ a.url = None
     \/ why = "seen" /\ Duplicate(a, p) >= 100
     \/ why = "disliked" /\ Negative(a, p) >= 100
     \/ why = "content" /\ Content(a) =< 0}
Keep(a, p) == Score(a, p) >= Settings.minKeep /\ Rejections(a, p) = {}

(* _primary_topic: the first tag, or the first evidence, in the order of the  *)
(* breakdown; a dimension that is not available gives its reason as evidence. *)
First(S) == CHOOSE x \in S : TRUE
PrimaryTopic(a, p) ==
  IF a.tags # {} THEN First(a.tags)
  ELSE IF p.keywords \cap Words(a) # {} THEN First(p.keywords \cap Words(a))
  ELSE IF DOMAIN p.topics = {} THEN "profile_topics_unavailable"
  ELSE IF DOMAIN p.topics \cap Words(a) # {} THEN First(DOMAIN p.topics \cap Words(a))
  ELSE IF a.graph = None THEN "neo4j_unavailable"
  ELSE IF a.graph \cap Words(a) # {} THEN First(a.graph \cap Words(a))
  ELSE a.source

--------------------------------------------------------------------------------
(* rank: the sort, then one iteration of _apply_diversity at a time.          *)
Before(a, b) ==
  \/ Score(a, profile) > Score(b, profile)
  \/ Score(a, profile) = Score(b, profile) /\ a.id < b.id
Kept == SelectSeq(batch, LAMBDA a : Keep(a, profile))

Init ==
  /\ batch \in Rankable /\ profile \in Profiles
  /\ selected = <<>>
  /\ remaining = Range(Kept)

(* The rules that an article would break as the next one.                     *)
Recent(s, n)      == SubSeq(s, Max({1, Len(s) - n + 1}), Len(s))
Count(s, Like(_)) == Cardinality({k \in DOMAIN s : Like(s[k])})
TopicOf(a)        == PrimaryTopic(a, profile)
Window(s)         == Recent(s, Settings.window)
InTopic(s, a)     == 1 + Count(Window(s), LAMBDA b : TopicOf(b) = TopicOf(a))
InSource(s, a)    == 1 + Count(Window(s), LAMBDA b : b.source = a.source)
RunsOn(s, a) ==
  LET recent == Recent(s, Settings.consecutive)
  IN Len(recent) = Settings.consecutive /\ \A k \in DOMAIN recent : TopicOf(recent[k]) = TopicOf(a)
Broken(s, a) ==
  {rule \in {"consecutive", "topic", "source"} :
     /\ s # <<>>
     /\ \/ rule = "consecutive" /\ RunsOn(s, a)
        \/ rule = "topic" /\ 100 * InTopic(s, a) > Settings.topicRatio * (Len(Window(s)) + 1)
        \/ rule = "source" /\ 100 * InSource(s, a) > Settings.sourceRatio * (Len(Window(s)) + 1)}
Violations(a) == Cardinality(Broken(selected, a))
Scarcity(a)   == IF selected = <<>> THEN 0 ELSE 2 * InTopic(selected, a) + InSource(selected, a)

PrecedesSlip(a, b) ==
  \/ Violations(a) < Violations(b)
  \/ /\ Violations(a) = Violations(b)
     /\ Scarcity(a) < Scarcity(b) \/ (Scarcity(a) = Scarcity(b) /\ a.id < b.id)
Precedes(a, b) ==
  \/ Violations(a) < Violations(b)
  \/ /\ Violations(a) = Violations(b)
     /\ Scarcity(a) < Scarcity(b) \/ (Scarcity(a) = Scarcity(b) /\ Before(a, b))

Select(a) ==
  /\ a \in remaining
  /\ \A b \in remaining \ {a} : Precedes(a, b)
  /\ selected' = Append(selected, a)
  /\ remaining' = remaining \ {a}
  /\ UNCHANGED <<batch, profile>>

Next == \E a \in remaining : Select(a)
Spec == Init /\ [][Next]_vars

--------------------------------------------------------------------------------
(* Diversity never turns around two articles of one topic and one source: the *)
(* better one comes first.                                                    *)
OrderKept ==
  \A m, n \in DOMAIN selected :
    m < n /\ TopicOf(selected[m]) = TopicOf(selected[n]) /\ selected[m].source = selected[n].source
      => Before(selected[m], selected[n])

(* What feedback does to the ranking: when a topic gains weight, an article   *)
(* about it is not overtaken by one that is not about it, has the same        *)
(* penalties and the same dimensions available; a dislike raises no score;    *)
(* and an article whose URL was seen is kept never.                           *)
Learnt(t) == [profile EXCEPT !.topics =
                [s \in DOMAIN @ \cup {t} |->
                   IF s \notin DOMAIN @ THEN 1 ELSE IF s = t THEN @[s] + 1 ELSE @[s]]]
LearningFavours ==
  \A a, b \in Range(batch) : \A t \in Words(a) \ Words(b) :
    /\ Penalty(a, profile) = Penalty(b, profile)
    /\ Available(a, profile) = Available(b, profile)
    /\ Score(a, profile) >= Score(b, profile)
    => Score(a, Learnt(t)) >= Score(b, Learnt(t))
DislikesLower ==
  \A a \in Range(batch) : \A w \in Words(a) :
    /\ Score(a, [profile EXCEPT !.dislikes = @ \cup {w}]) =< Score(a, profile)
    /\ a.url \in profile.seen => ~Keep(a, profile)
================================================================================
