------------------------------ MODULE Assessments ------------------------------
(* How the observations of an exact ensemble of hypotheses are combined     *)
(* into one assessment of a market point (src/assessments).  Everything here *)
(* is a pure function of its arguments; the numbers an observation was       *)
(* computed from are left out, only how it classified is kept.               *)
EXTENDS Integers, Sequences, FiniteSets, SequencesExt

ResearchStates == {"bullish", "bearish", "neutral", "insufficient_data"}
AssessmentStates == ResearchStates \cup {"conflicted"}

(* An identity names a hypothesis (its id and version) and pins its          *)
(* implementation with a fingerprint.                                        *)
Identity(name, fingerprint) == [name |-> name, fingerprint |-> fingerprint]

(* A policy pins an exact ensemble and how many of its members must have     *)
(* classified.  These are the policies that can be constructed.              *)
IsPolicy(policy) ==
    /\ policy.hypotheses # <<>>
    /\ IsInjective(policy.hypotheses)
    /\ policy.minimum \in 1 .. Len(policy.hypotheses)

(* The ensemble of the dashboard and of every scan: three hypotheses, two of *)
(* which must have classified.                                               *)
Ensemble == << "trend_alignment", "momentum_in_trend", "trend_crossover" >>
DashboardPolicy ==
    [hypotheses |-> [i \in DOMAIN Ensemble |-> Identity(Ensemble[i], "pinned")],
     minimum    |-> 2]
-----------------------------------------------------------------------------
(* An observation: who made it, about which point (symbol, interval, basis,  *)
(* bar), how it classified, and from when that could be known.               *)
Observation(who, point, state, evaluableFrom) ==
    [who |-> who, point |-> point, state |-> state, evaluableFrom |-> evaluableFrom]

(* What assess refuses.  Structural trouble never becomes a state.           *)
Misaligned(observations) ==
    \E i \in DOMAIN observations : observations[i].point # observations[1].point
Repeated(observations) ==
    ~IsInjective([i \in DOMAIN observations |-> observations[i].who])
Unexpected(observations, policy) ==
    {o.who : o \in ToSet(observations)} \ ToSet(policy.hypotheses)
Missing(observations, policy) ==
    ToSet(policy.hypotheses) \ {o.who : o \in ToSet(observations)}
(* The sharpest of them: a known hypothesis whose implementation changed.    *)
Reparameterised(observations, policy) ==
    {who \in Unexpected(observations, policy) :
        \E pinned \in ToSet(policy.hypotheses) : pinned.name = who.name}

Refuses(observations, policy) ==
    \/ observations = <<>>
    \/ Misaligned(observations)
    \/ Repeated(observations)
    \/ Unexpected(observations, policy) # {}
    \/ Missing(observations, policy) # {}
-----------------------------------------------------------------------------
Tally(observations) ==
    [state \in ResearchStates |->
        Cardinality({i \in DOMAIN observations : observations[i].state = state})]

(* A neutral observation classified; an insufficient one did not.            *)
Sufficient(counts) == counts["bullish"] + counts["bearish"] + counts["neutral"]

(* directional_presence_v1: a direction among abstentions is heard, and      *)
(* contradiction takes precedence over volume.                               *)
ReduceState(counts, policy) ==
    IF Sufficient(counts) < policy.minimum THEN "insufficient_data"
    ELSE IF counts["bullish"] > 0 /\ counts["bearish"] > 0 THEN "conflicted"
    ELSE IF counts["bullish"] > 0 THEN "bullish"
    ELSE IF counts["bearish"] > 0 THEN "bearish"
    ELSE "neutral"

Reasons(state, counts) ==
    {CASE state = "insufficient_data" -> "insufficient_evidence"
       [] state = "conflicted" -> "conflicting_directional_evidence"
       [] state = "neutral" -> "unanimous_neutral"
       [] state = "bullish" -> IF counts["neutral"] = 0 THEN "unanimous_bullish"
                               ELSE "directional_bullish_with_neutral"
       [] state = "bearish" -> IF counts["neutral"] = 0 THEN "unanimous_bearish"
                               ELSE "directional_bearish_with_neutral"}
    \cup {code \in {"insufficient_inputs_excluded"} : counts["insufficient_data"] > 0}

(* The combination cannot exist before every contribution could.             *)
AsOf(observations) ==
    CHOOSE t \in {o.evaluableFrom : o \in ToSet(observations)} :
        \A o \in ToSet(observations) : o.evaluableFrom <= t

Assess(observations, policy) ==
    LET counts == Tally(observations)
        state  == ReduceState(counts, policy)
    IN  [point   |-> observations[1].point,
         asOf    |-> AsOf(observations),
         state   |-> state,
         inputs  |-> {[who |-> o.who, state |-> o.state] : o \in ToSet(observations)},
         counts  |-> counts,
         reasons |-> Reasons(state, counts)]

(* The checks the record makes of itself when it is built, whoever builds it.*)
AcceptsItself(assessment) ==
    LET counts == assessment.counts
    IN  /\ \A s \in ResearchStates :
                counts[s] = Cardinality({i \in assessment.inputs : i.state = s})
        /\ assessment.reasons # {}
        /\ assessment.state = "conflicted"
              => counts["bullish"] > 0 /\ counts["bearish"] > 0
        /\ assessment.state = "bullish" => counts["bullish"] > 0 /\ counts["bearish"] = 0
        /\ assessment.state = "bearish" => counts["bearish"] > 0 /\ counts["bullish"] = 0
        /\ assessment.state = "neutral"
              => counts["bullish"] = 0 /\ counts["bearish"] = 0 /\ counts["neutral"] > 0
=============================================================================
