------------------------------- MODULE Reasoning -------------------------------
(* Explaining one research snapshot with a language model (src/reasoning,    *)
(* src/application/reasoning.py): the evidence a model is shown, what a      *)
(* provider may answer, and the one path on which an answer becomes trusted. *)
(* Pure definitions; DashboardSession runs them.                             *)
(*                                                                           *)
(* A text is one of a few kinds: plain prose, prose that uses the vocabulary *)
(* of trading in whatever spelling, prose with a line break in it, and       *)
(* nothing at all.  Evidence identifiers are tuples.                         *)
EXTENDS ResearchSnapshot

Texts == {"plain", "other plain", "trading", "line break", "empty"}

(* The packet: what leaves the machine, and the identifiers an answer may    *)
(* cite.  The builder refuses to assemble it before the research it          *)
(* describes was observed.                                                   *)
PolicyId == <<"policy">>
StateId == <<"fact", "assessment state">>
CountsId == <<"fact", "assessment counts">>
ReasonId(code) == <<"reason", code>>
ObservationId(observation) == <<"observation", observation.who.name>>
DatumId(observation) == <<"datum", observation.who.name>>

PacketRefused(snapshot, moment) == moment < snapshot.builtAt

(* Everything but the moment it was made; that moment is no evidence.        *)
Packet(snapshot) ==
    [symbol |-> snapshot.symbol, interval |-> snapshot.interval,
     cutoff |-> snapshot.builtAt, assessment |-> snapshot.assessment,
     observations |-> snapshot.observations]
HasAssessment(packet) == packet.assessment # NoAssessment
EvidenceIds(packet) ==
    UNION {{ObservationId(o), DatumId(o)} : o \in ToSet(packet.observations)}
    \cup {PolicyId}
    \cup (IF HasAssessment(packet)
          THEN {StateId, CountsId}
               \cup {ReasonId(code) : code \in packet.assessment.reasons}
          ELSE {})
-----------------------------------------------------------------------------
(* How a call may end without an answer, and the code it is reported with.   *)
VendorErrors == {"timeout", "connection", "rate limit", "authentication",
                 "permission", "bad request", "internal", "other"}
VendorFailure(error) ==
    CASE error \in {"timeout", "connection", "internal"} -> "provider_unavailable"
      [] error = "rate limit" -> "rate_limited"
      [] error \in {"authentication", "permission"} -> "authentication_failed"
      [] error = "bad request" -> "request_invalid"
      [] error = "other" -> "unexpected"

(* An answer that arrived.  Its envelope may be unreadable, which is the     *)
(* provider's failure; a body that is not an object of the agreed shape      *)
(* counts as an empty one.                                                   *)
Failed(error) == [error |-> error]
UnreadableReply(field) == [unreadable |-> field]
OffSchema == [shape |-> "another shape"]
Statement(text, cites) == [text |-> text, cites |-> cites]
Answered(summary, claims, uncertainties) ==
    [shape |-> "agreed", summary |-> summary, claims |-> claims,
     uncertainties |-> uncertainties]

(* Before validation: transport.                                             *)
GenerateFails(reply) == "error" \in DOMAIN reply \/ "unreadable" \in DOMAIN reply
GenerateFailure(reply) ==
    IF "error" \in DOMAIN reply THEN VendorFailure(reply.error) ELSE "unexpected"

Statements(reply) == <<reply.summary>> \o reply.claims
TextsOf(reply) ==
    {s.text : s \in ToSet(Statements(reply))} \cup ToSet(reply.uncertainties)

(* The strict schema: exactly the agreed keys, no empty text, at least one   *)
(* citation each and none twice.                                             *)
SchemaFails(reply) ==
    \/ reply.shape # "agreed"
    \/ "empty" \in TextsOf(reply)
    \/ \E s \in ToSet(Statements(reply)) : s.cites = <<>> \/ ~IsInjective(s.cites)
(* The vocabulary the answer must not contain, negations included.           *)
BoundaryFails(reply) == "trading" \in TextsOf(reply)
(* Every citation names evidence of this packet; one unknown fails it all.   *)
GroundingFails(reply, packet) ==
    \E s \in ToSet(Statements(reply)) : ~(ToSet(s.cites) \subseteq EvidenceIds(packet))
(* No claim is made twice, whatever the order of its citations.              *)
RepeatsClaim(reply) ==
    ~IsInjective([i \in DOMAIN reply.claims |->
        <<reply.claims[i].text, ToSet(reply.claims[i].cites)>>])
(* The trusted records refuse control characters, which validation passed.   *)
RecordRefuses(reply) == "line break" \in TextsOf(reply)

(* The first check that fails names the failure.                             *)
ValidationFails(reply, packet) ==
    SchemaFails(reply) \/ BoundaryFails(reply) \/ GroundingFails(reply, packet)
        \/ RepeatsClaim(reply)
ValidationFailure(reply) ==
    IF SchemaFails(reply) THEN "output_schema_failed"
    ELSE IF BoundaryFails(reply) THEN "boundary_violation"
    ELSE "grounding_failed"

(* The trusted explanation: its provenance comes from the request, and only  *)
(* the statements from the model.                                            *)
Explanation(packet, reply, moment) ==
    [symbol |-> packet.symbol, cutoff |-> packet.cutoff, evidence |-> packet,
     cited |-> UNION {ToSet(s.cites) : s \in ToSet(Statements(reply))},
     generatedAt |-> moment]

(* Seeded fault: an explanation of the same symbol is taken for current.     *)
ExplanationIsOfSymbol(explanation, snapshot) == explanation.symbol = snapshot.symbol

(* Whether a kept explanation is about the research on the screen.           *)
ExplanationIsCurrent(explanation, snapshot) ==
    /\ explanation.symbol = snapshot.symbol
    /\ explanation.cutoff = snapshot.builtAt

(* How a failure is shown; any other exception is no failure of reasoning.   *)
FailureView(kind, code) == [kind |-> kind, code |-> code]
-----------------------------------------------------------------------------
(* The feature is offered when both variables are set and the model name is  *)
(* usable.                                                                   *)
Settings == {"set", "missing", "unusable"}
IsConfigured(key, model) == key = "set" /\ model = "set"
=============================================================================
