------------------------------- MODULE ProfileMerge -------------------------------
(******************************************************************************)
(* How structured feedback changes the weights of a profile, as the program   *)
(* has it twice: MemoryAgent._merge_profile in the agent, feedback by         *)
(* feedback, and rebuildProfileFromFeedback in the backend, over the history. *)
(* Weights are in ten-thousandths, as both round them; a topic without a      *)
(* weight has no entry.  What a weight that lies between two of them becomes  *)
(* each program decides for itself.  Style preferences, where the last value  *)
(* stands in both, are left out.                                              *)
(******************************************************************************)
EXTENDS Integers, Sequences, SequencesExt

CONSTANTS
  Topics,
  Items,      \* items of structured feedback: [topic, evidence, delta], with
              \*   the topic, "general" or ""; the topics the evidence names;
              \*   weight_delta in ten-thousandths, or None
  MaxHistory, \* bound: feedbacks given
  None,
  AgentUp,    \* the ties that Python's round(x, 4) rounds up: pairs of a weight
  BackendUp   \*   and a signal; and those that Go's math.Round(x * 10000) does

ProfileAssumption ==
  /\ None \notin Int
  /\ \A i \in Items : i.delta \in Int \cup {None}

VARIABLES
  profile,  \* topics and negative_topics, as the agent merges them
  history   \* structured_feedback_json of the completed feedbacks, in order

vars == <<profile, history>>

Nothing == [t \in {} |-> 0]
Empty   == [topics |-> Nothing, negative |-> Nothing]

Explicit(i) == i.topic \in Topics

One          == 10000
Clamp(n)     == IF n < 0 THEN 0 ELSE IF n > One THEN One ELSE n
Abs(n)       == IF n < 0 THEN -n ELSE n
Signal(i, default) ==
  LET d == Clamp(Abs(IF i.delta = None THEN default ELSE i.delta))
  IN IF d > 1200 THEN 1200 ELSE d
Weight(w, t) == IF t \in DOMAIN w THEN w[t] ELSE 0
Set(w, t, n) == [s \in DOMAIN w \cup {t} |-> IF s = t THEN n ELSE w[s]]

(* A weight of which percent is kept and to which d is added, rounded. At a   *)
(* tie Python goes by the binary value of the sum and Go by that of the       *)
(* product with 10000: 0.0035 * 0.90 + 0.0035 is 0.0066 in one and 0.0067 in  *)
(* the other. Only 0.90 leads to ties, and elsewhere the two agree.           *)
Retain(n, percent, d, up) ==
  LET exact == n * percent + d * 100
  IN IF exact % 100 = 50 /\ <<n, d>> \notin up THEN exact \div 100
     ELSE (exact + 50) \div 100

Init == profile = Empty /\ history = <<>>

--------------------------------------------------------------------------------
(* What one item does to a topic.                                             *)
Positive(p, t, i, up) ==
  [topics   |-> Set(p.topics, t, Clamp(Retain(Weight(p.topics, t), 92, Signal(i, 800), up))),
   negative |-> p.negative]
Decayed(w, t, up) == IF t \in DOMAIN w THEN Set(w, t, Clamp(Retain(w[t], 90, 0, up))) ELSE w
Negative(p, t, i, up) ==
  [topics   |-> Decayed(p.topics, t, up),
   negative |-> Set(p.negative, t,
                    Clamp(Retain(Weight(p.negative, t), 90, Signal(i, 1000), up)))]

(* The agent: an unspecific topic gives way to a known one that the evidence  *)
(* names (the longest; a tie falls either way).                               *)
Known(p) == DOMAIN p.topics \cup DOMAIN p.negative
Resolve(p, i) ==
  IF Explicit(i) \/ i.evidence \cap Known(p) = {} THEN i.topic
  ELSE CHOOSE t \in i.evidence \cap Known(p) : TRUE
Merged(p, i, Kind(_, _, _, _)) ==
  LET t == Resolve(p, i) IN IF t = "" THEN p ELSE Kind(p, t, i, AgentUp)
MergeProfile(p, f) ==
  FoldLeft(LAMBDA q, i : Merged(q, i, Negative),
           FoldLeft(LAMBDA q, i : Merged(q, i, Positive), p, f.positive), f.negative)

(* The backend: the topic as it stands.                                       *)
RebuildNegativeSlip(p, i) ==
  IF i.topic = "" THEN p
  ELSE [Negative(p, i.topic, i, BackendUp) EXCEPT !.topics = p.topics]
RebuildNegative(p, i) == IF i.topic = "" THEN p ELSE Negative(p, i.topic, i, BackendUp)
RebuildPositive(p, i) == IF i.topic = "" THEN p ELSE Positive(p, i.topic, i, BackendUp)
Rebuild(base, feedbacks) ==
  FoldLeft(LAMBDA p, f : FoldLeft(RebuildNegative, FoldLeft(RebuildPositive, p, f.positive), f.negative),
           base, feedbacks)

ProcessFeedback(f) ==
  /\ Len(history) < MaxHistory
  /\ profile' = MergeProfile(profile, f)
  /\ history' = Append(history, f)

Feedbacks == {f \in [positive : {<<>>} \cup {<<i>> : i \in Items}, negative : {<<>>} \cup {<<i>> : i \in Items}] :
                f.positive # f.negative}
Next == \E f \in Feedbacks : ProcessFeedback(f)
Spec == Init /\ [][Next]_vars

--------------------------------------------------------------------------------
(* The two programs agree: the profile that feedback has built up is, but for *)
(* one ten-thousandth in a weight, the one that a rebuild over the history    *)
(* would give to a user who had none, if no item left its topic to the        *)
(* evidence. They round differently in every step, and a step works on what   *)
(* the last one has rounded; but the differences do not add up.               *)
Near(w, v) == DOMAIN w = DOMAIN v /\ \A t \in DOMAIN w : w[t] - v[t] \in -1..1
RebuildAgrees ==
  (\A k \in DOMAIN history : \A i \in Range(history[k].positive \o history[k].negative) : Explicit(i))
    => LET rebuilt == Rebuild(Empty, history)
       IN Near(profile.topics, rebuilt.topics) /\ Near(profile.negative, rebuilt.negative)
================================================================================
