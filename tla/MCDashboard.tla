----------------------------- MODULE MCDashboard -----------------------------
(* Instances of DashboardSession.  Each behaviour exercises one panel of the *)
(* dashboard; one presses nothing, and is a caller that uses the paper       *)
(* session directly and may submit any identifiers it ever held.             *)
EXTENDS DashboardSession

MCSymbolOrder == << "s1", "s2" >>

(* The market data raises, answers for another symbol or with nothing, or    *)
(* with bars that are classified in one of these ways.                       *)
Unanimous == BarsAnswer(TRUE, 1, << "bullish", "bullish", "bullish" >>)
Later == BarsAnswer(TRUE, 2, << "bullish", "bullish", "bullish" >>)
Directional == BarsAnswer(TRUE, 1, << "bullish", "neutral", "insufficient_data" >>)
Conflicted == BarsAnswer(TRUE, 1, << "bearish", "bullish", "neutral" >>)
Thin == BarsAnswer(TRUE, 1, << "neutral", "insufficient_data", "insufficient_data" >>)
Mislabelled == BarsAnswer(FALSE, 1, << "bullish", "bullish", "bullish" >>)

(* The provider fails, or answers well, with an unknown or a repeated        *)
(* citation, with forbidden words, with a line break, or out of shape.       *)
About(text, id) == Statement(text, << id >>)
MCReplies ==
    {Failed("timeout"), OffSchema,
     Answered(About("plain", StateId), <<>>, <<>>),
     Answered(About("plain", StateId),
              << Statement("other plain", << ReasonId("unanimous_bullish"), CountsId >>) >>,
              <<>>),
     Answered(About("plain", StateId), << About("plain", PolicyId), About("plain", PolicyId) >>,
              << "plain" >>),
     Answered(About("trading", StateId), <<>>, <<>>),
     Answered(About("line break", StateId), <<>>, <<>>)}

Entry(id, enabled, symbols) == [id |-> id, enabled |-> enabled, symbols |-> symbols]
Raw(name, spelling) == [name |-> name, spelling |-> spelling]
Both == << Raw("s2", "plain"), Raw("s1", "other case"), Raw("s2", "other case") >>
MCFiles ==
    {Absent, Unreadable,
     << Entry("u1", TRUE, Both) >>,
     << Entry("u1", FALSE, Both), Entry("u2", TRUE, << Raw("s1", "plain") >>) >>,
     << Entry("u1", TRUE, Both), Entry("u1", TRUE, Both) >>,
     << Entry("u1", TRUE, << Raw("s1", "unusable") >>) >>}

NoPresses == [button \in Buttons |-> 0]
Panel(presses, answers, replies, files) ==
    [presses |-> presses, answers |-> answers, replies |-> replies, files |-> files]
MCPanels ==
    [paperSession |-> Panel(NoPresses, {}, {}, {Absent}),
     paper |-> Panel([NoPresses EXCEPT !["open long"] = 2, !["close"] = 2], {}, {}, {Absent}),
     research |-> Panel([NoPresses EXCEPT !["type a symbol"] = 2, !["refresh"] = 2,
                                          !["explain"] = 2],
                        {RaisedAnswer("ProviderError"), Unanimous, Conflicted},
                        MCReplies, {Absent}),
     services |-> Panel([NoPresses EXCEPT !["type a symbol"] = 1, !["refresh news"] = 1,
                                          !["refresh feeds"] = 1], {}, {}, {Absent}),
     universes |-> Panel([NoPresses EXCEPT !["reload universes"] = 1, !["select universe"] = 1,
                                           !["scan"] = 2],
                         {RaisedAnswer("ProviderError"), Unanimous}, {}, MCFiles),
     scan |-> Panel([NoPresses EXCEPT !["scan"] = 1, !["open in research"] = 1],
                    {RaisedAnswer(error) : error \in RaisedErrors}
                    \cup {EmptyAnswer, Unanimous, Later, Directional, Conflicted, Thin,
                          Mislabelled},
                    {}, {<< Entry("u1", TRUE, Both) >>})]

(* The paper session without the dashboard.                                  *)
MaxCallIds == 8
Calls == panel = "paperSession" /\ PaperAction /\ sequence' <= MaxCallIds /\ UNCHANGED <<sessionVars, clockVars>>
MCSpec == Init /\ [][Next \/ Calls]_dashboardVars
=============================================================================
