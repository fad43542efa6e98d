--------------------------- MODULE ResearchSnapshot ---------------------------
(* One research build (build_snapshot of src/application/snapshot.py): one   *)
(* fetch, then features, observations and the assessment, or a classified    *)
(* failure and nothing.  What the data source answers is an argument: an     *)
(* error it raises, or a series of settled bars, described by whose series   *)
(* it is, when its latest bar opened, and how the ensemble classifies it.    *)
EXTENDS Assessments

CONSTANTS NoBars, NoAssessment  \* an empty series has neither

(* What a data source, or the pipeline behind it, may raise.                 *)
RaisedErrors == {"ValidationError", "ProviderError", "ValueError",
                 "a subclass of ValueError", "another exception"}
RaisedAnswer(error) == [raises |-> error]
BarsAnswer(own, latest, states) == [own |-> own, latest |-> latest, states |-> states]
EmptyAnswer == [own |-> TRUE, latest |-> NoBars, states |-> <<>>]

(* Any of these, the ensemble classified member by member.                   *)
IsAnswer(answer) ==
    \/ DOMAIN answer = {"raises"} /\ answer.raises \in RaisedErrors
    \/ answer = EmptyAnswer
    \/ /\ DOMAIN answer = {"own", "latest", "states"}
       /\ answer.own \in BOOLEAN /\ answer.latest \in Nat
       /\ answer.states \in [DOMAIN Ensemble -> ResearchStates]

(* Which kind of failure an exception is reported as.                        *)
Classify(error) ==
    CASE error = "ValidationError" -> "data_quality"
      [] error = "ProviderError" -> "provider"
      [] error = "ValueError" -> "request"
      [] error = "a subclass of ValueError" -> "domain"
      [] error = "another exception" -> "unexpected"

(* A build fails when the symbol is blank, when anything raises, and when    *)
(* the series is not the one that was asked for: a mislabelled series is     *)
(* wrong research that reads as normal.                                      *)
Blank == "blank"
BuildFails(symbol, answer) ==
    \/ symbol = Blank
    \/ "raises" \in DOMAIN answer
    \/ ~answer.own
BuildFailure(symbol, answer) ==
    IF symbol = Blank THEN "request"
    ELSE IF "raises" \in DOMAIN answer THEN Classify(answer.raises)
    ELSE "domain"

(* The ensemble, each member once, at the last bar of the one series.        *)
Observe(symbol, interval, answer) ==
    [i \in DOMAIN answer.states |->
        Observation(DashboardPolicy.hypotheses[i], <<symbol, interval, answer.latest>>,
                    answer.states[i], answer.latest)]

(* Everything in a snapshot derives from that series; with no bars there is  *)
(* nothing to observe and nothing to assess, which is not a failure.         *)
BuiltSnapshot(symbol, interval, answer, builtAt) ==
    LET observations == Observe(symbol, interval, answer)
    IN  [symbol |-> symbol, interval |-> interval, builtAt |-> builtAt,
         latest |-> answer.latest, observations |-> observations,
         assessment |-> IF answer.latest = NoBars THEN NoAssessment
                        ELSE Assess(observations, DashboardPolicy)]
=============================================================================
