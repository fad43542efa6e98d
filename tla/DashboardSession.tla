--------------------------- MODULE DashboardSession ---------------------------
(* One browser session of the dashboard (src/dashboard/app.py): a script     *)
(* that runs from top to bottom after every press of a button, reading and   *)
(* assigning the keys of the session state.  Whenever it touches the session *)
(* state the script may be abandoned, because another press started it anew. *)
(* A handler is therefore modelled as the assignments it makes, one by one   *)
(* and in the order of the code, between its long computations.              *)
(*                                                                           *)
(* The market data, the model provider, the news and feed services and the   *)
(* outcome ledger are outside: they answer or fail in every way the          *)
(* constants list.  The paper portfolio is that of PaperPortfolio.           *)
EXTENDS Scanner, Reasoning, PaperPortfolio

CONSTANTS
    Intervals,     \* the intervals research is offered for
    ScanInterval,  \* the one a scan uses
    SymbolOrder,   \* the symbols in alphabetical order
    Panels,        \* bounds: what a behaviour exercises (see DashboardAssumption)
    None           \* what a key of the session state holds at first

ASSUME DashboardAssumption ==
    /\ ScanInterval \in Intervals
    /\ SymbolOrder \in Seq(Symbols)
    /\ ToSet(SymbolOrder) = Symbols /\ IsInjective(SymbolOrder)
    /\ \A p \in DOMAIN Panels :
            \* how often each button is pressed, how the market data and the
            \* model provider may answer, what the universe file may hold
            /\ DOMAIN Panels[p] = {"presses", "answers", "replies", "files"}
            /\ \A answer \in Panels[p].answers : IsAnswer(answer)
            /\ \A file \in Panels[p].files : IsFile(file)

VARIABLES
    session,  \* the keys of the session state
    run,      \* the current run of the script
    panel,    \* which of the panels the behaviour exercises
    budget    \* presses left

sessionVars == <<session, run, panel, budget>>
dashboardVars == <<sessionVars, paperVars, clockVars>>

Buttons == {"refresh", "refresh news", "refresh feeds", "reload universes",
            "select universe", "scan", "open in research", "explain",
            "open long", "close", "type a symbol"}

(* No research on the screen: a record, and none that a build returns.       *)
NoSnapshot == [snapshot |-> "none"]
EmptySession ==
    [symbolInput |-> Blank, pendingSymbol |-> None,
     snapshot |-> NoSnapshot, failure |-> None,
     ledger |-> None, outcomeResult |-> None, outcomeFailure |-> None,
     newsService |-> None, newsSnapshot |-> None, newsFailure |-> None,
     feedService |-> None, feedSnapshot |-> None, feedFailure |-> None,
     universes |-> None, universeId |-> None,
     scanSnapshot |-> None, scanFailure |-> None,
     reasoningService |-> None, reasoningSnapshot |-> None, reasoningFailure |-> None,
     paperError |-> None]

NoScan == [universe |-> NoUniverse, rows |-> <<>>, startedAt |-> 0]
Idle == [pressed |-> None, at |-> "idle", todo |-> <<>>, scan |-> NoScan]

(* The script has assigned everything it was about to and is at a stage.     *)
At(stage) == run.at = stage /\ run.todo = <<>>
Pressed(button) == run.pressed = button
Becomes(key, value) == [key |-> key, value |-> value]

(* It goes on to the next stage, assigning these keys on the way.            *)
GoOn(stage, assignments) ==
    /\ run' = [run EXCEPT !.at = stage, !.todo = assignments]
    /\ UNCHANGED <<session, panel, budget>>
Leave(stage) == GoOn(stage, <<>>)

(* It ends, or starts over with no button pressed (st.rerun).                *)
EndRun == run' = Idle /\ UNCHANGED <<session, panel, budget>>
StartOver == run' = [Idle EXCEPT !.at = "handoff"]
-----------------------------------------------------------------------------
(* A person presses a button, or types a symbol into its box.                *)
Press(button) ==
    /\ run = Idle /\ budget[button] > 0
    /\ budget' = [budget EXCEPT ![button] = @ - 1]
    /\ run' = [Idle EXCEPT !.pressed = button, !.at = "handoff"]
    /\ \/ button # "type a symbol" /\ UNCHANGED session
       \/ /\ button = "type a symbol"
          /\ \E symbol \in Symbols \cup {Blank} :
                session' = [session EXCEPT !.symbolInput = symbol]
    /\ UNCHANGED panel

(* The next assignment happens, or the script is abandoned before it.        *)
Assign ==
    /\ run.todo # <<>>
    /\ session' = [session EXCEPT ![Head(run.todo).key] = Head(run.todo).value]
    /\ run' = [run EXCEPT !.todo = Tail(@)]
    /\ UNCHANGED <<panel, budget>>
Abandon == run.at # "idle" /\ EndRun

(* A symbol parked by the last run is applied before its box is built.       *)
Handoff ==
    /\ At("handoff")
    /\ GoOn("controls",
            IF session.pendingSymbol = None THEN <<>>
            ELSE << Becomes("symbolInput", session.pendingSymbol),
                    Becomes("pendingSymbol", None) >>)
-----------------------------------------------------------------------------
(* The sidebar.  A refresh first takes down the outcome status of the last   *)
(* one, so that a failed refresh cannot leave it beside a new failure.       *)
ClearedOutcome == << Becomes("outcomeResult", None), Becomes("outcomeFailure", None) >>
Controls ==
    /\ At("controls")
    /\ CASE Pressed("refresh") -> GoOn("build", ClearedOutcome)
         [] Pressed("refresh news") -> Leave("news")
         [] Pressed("refresh feeds") -> Leave("feeds")
         [] OTHER -> Leave("market")

(* One snapshot is built and published, or a failure is and nothing else.    *)
Build ==
    /\ At("build")
    /\ \E answer \in Panels[panel].answers, interval \in Intervals :
        LET symbol == session.symbolInput
        IN  IF BuildFails(symbol, answer)
            THEN GoOn("market", << Becomes("failure", BuildFailure(symbol, answer)) >>)
            ELSE GoOn("ledger",
                      << Becomes("snapshot", BuiltSnapshot(symbol, interval, answer, now)),
                         Becomes("failure", None),
                         Becomes("reasoningSnapshot", None),
                         Becomes("reasoningFailure", None) >>)
    /\ Passes

(* Then what it claimed is registered, with a ledger composed the first time.*)
ComposeLedger ==
    /\ At("ledger")
    /\ \/ session.ledger # None /\ Leave("track")
       \/ session.ledger = None /\ GoOn("track", << Becomes("ledger", "composed") >>)
       \/ session.ledger = None
          /\ GoOn("market", << Becomes("outcomeFailure", "could not start") >>)
Track ==
    /\ At("track")
    /\ \/ GoOn("market", << Becomes("outcomeFailure", "failed") >>)
       \/ GoOn("market",
               << Becomes("outcomeResult",
                          [symbol |-> session.snapshot.symbol,
                           interval |-> session.snapshot.interval,
                           now |-> session.snapshot.builtAt,
                           of |-> session.snapshot]) >>)

(* The news and the feeds: a service composed on the first refresh and kept, *)
(* a whole snapshot or a failure.                                            *)
RefreshService(stage, service, snapshot, failure, outcomes) ==
    /\ At(stage)
    /\ \E outcome \in outcomes :
        /\ outcome = "could not start" => session[service] = None
        /\ GoOn("market",
                (IF outcome \in {"published", "failed"} /\ session[service] = None
                 THEN << Becomes(service, "composed") >> ELSE <<>>)
                \o IF outcome = "published"
                   THEN << Becomes(snapshot, outcome), Becomes(failure, None) >>
                   ELSE << Becomes(failure, outcome) >>)
ServiceOutcomes == {"could not start", "failed", "published"}
RefreshNews ==
    RefreshService("news", "newsService", "newsSnapshot", "newsFailure",
                   IF session.symbolInput = Blank THEN {"no symbol"} ELSE ServiceOutcomes)
RefreshFeeds ==
    RefreshService("feeds", "feedService", "feedSnapshot", "feedFailure", ServiceOutcomes)
-----------------------------------------------------------------------------
(* Market Overview.  The universes are read the first time they are needed   *)
(* and on demand; a file that cannot be read keeps the last good ones.       *)
Load(next) ==
    \E file \in Panels[panel].files :
        GoOn(next, IF ConfigurationFails(file) THEN <<>>
                   ELSE << Becomes("universes", Configuration(SymbolOrder, file)) >>)
LoadUniverses ==
    /\ At("market")
    /\ IF session.universes = None THEN Load("reload") ELSE Leave("reload")
ReloadUniverses ==
    /\ At("reload")
    /\ IF Pressed("reload universes") THEN Load("select") ELSE Leave("select")

Universe ==
    IF session.universes = None THEN NoUniverse
    ELSE ChosenUniverse(session.universes, session.universeId)
SelectUniverse ==
    /\ At("select")
    /\ \/ /\ Universe = NoUniverse
          /\ GoOn("scan", IF session.universes = None THEN <<>>
                          ELSE << Becomes("universeId", None) >>)
       \/ /\ Universe # NoUniverse
          /\ \E chosen \in {session.universes[i] : i \in Enabled(session.universes)} :
                /\ Pressed("select universe") \/ chosen = Universe
                /\ GoOn("scan", << Becomes("universeId", chosen.id) >>)

(* A scan asks for one symbol after another and is published when it is      *)
(* complete.  The clock is read for every row.                               *)
BeginScan ==
    /\ At("scan")
    /\ \/ /\ ~Pressed("scan") \/ Universe = NoUniverse
          /\ Leave("candidates") /\ UNCHANGED clockVars
       \/ /\ Pressed("scan") /\ Universe # NoUniverse
          /\ run' = [run EXCEPT !.at = "scanning",
                        !.scan = [universe |-> Universe, rows |-> <<>>, startedAt |-> now]]
          /\ Passes
          /\ UNCHANGED <<session, panel, budget>>
Scanned == Len(run.scan.rows) = Len(run.scan.universe.symbols)
ScanSymbol ==
    /\ At("scanning") /\ ~Scanned
    /\ \E answer \in Panels[panel].answers :
        LET symbol == run.scan.universe.symbols[Len(run.scan.rows) + 1]
        IN  run' = [run EXCEPT !.scan.rows =
                        Append(@, ScanOne(symbol, ScanInterval, answer, now))]
    /\ Passes
    /\ UNCHANGED <<session, panel, budget>>
(* What raises outside the research of one symbol voids the scan: a progress *)
(* callback, or a clock that was set back to before the scan began.          *)
ScanFails ==
    /\ At("scanning")
    /\ run.scan.rows # <<>> \/ RefusesScan(run.scan.startedAt, now)
    /\ GoOn("candidates", << Becomes("scanFailure", "failed") >>)
PublishScan ==
    /\ At("scanning") /\ Scanned /\ ~RefusesScan(run.scan.startedAt, now)
    /\ GoOn("candidates",
            << Becomes("scanSnapshot", ScanSnapshot(run.scan.universe, run.scan.rows,
                                                    run.scan.startedAt, now)),
               Becomes("scanFailure", None) >>)

(* A row that was assessed may be taken to the research tab; its symbol is   *)
(* parked and the script starts over.                                        *)
Rows ==
    IF session.scanSnapshot = None THEN <<>> ELSE OrderedRows(session.scanSnapshot)
OpenInResearch ==
    /\ At("candidates") /\ Pressed("open in research")
    /\ \E row \in ToSet(Rows) :
            session' = [session EXCEPT !.pendingSymbol = row.symbol]
    /\ StartOver
    /\ UNCHANGED <<panel, budget>>
Candidates ==
    /\ At("candidates")
    /\ ~Pressed("open in research") \/ Rows = <<>>
    /\ Leave("research")
-----------------------------------------------------------------------------
(* Research.  The service is composed once it is configured; whether this    *)
(* snapshot can be explained is asked of the packet an explanation would see,*)
(* on every run, and an exception there ends the run.                        *)
ComposeReasoning ==
    /\ At("research")
    /\ \/ session.snapshot = NoSnapshot /\ Leave("paper")
       \/ session.snapshot # NoSnapshot /\ session.reasoningService # None /\ Leave("availability")
       \/ /\ session.snapshot # NoSnapshot /\ session.reasoningService = None
          /\ \E key \in {"set", "missing"}, model \in Settings :
                IF IsConfigured(key, model)
                THEN GoOn("availability", << Becomes("reasoningService", "composed") >>)
                ELSE Leave("paper")

(* Both earlier outcomes are taken down before the provider is asked.        *)
ClearedExplanation ==
    << Becomes("reasoningSnapshot", None), Becomes("reasoningFailure", None) >>
Availability ==
    /\ At("availability")
    /\ \/ PacketRefused(session.snapshot, now) /\ EndRun
       \/ /\ ~PacketRefused(session.snapshot, now)
          /\ IF Pressed("explain") /\ HasAssessment(Packet(session.snapshot))
             THEN GoOn("explain", ClearedExplanation)
             ELSE Leave("paper")

ShowFailure(kind, code) ==
    GoOn("explained", << Becomes("reasoningFailure", FailureView(kind, code)) >>)
Explain ==
    /\ At("explain")
    /\ LET packet == Packet(session.snapshot)
       IN  \/ PacketRefused(session.snapshot, now) /\ Leave("raised")
           \/ /\ ~PacketRefused(session.snapshot, now)
              /\ \E reply \in Panels[panel].replies :
                    IF GenerateFails(reply)
                    THEN ShowFailure("provider", GenerateFailure(reply))
                    ELSE IF ValidationFails(reply, packet)
                    THEN ShowFailure("validation", ValidationFailure(reply))
                    ELSE IF RecordRefuses(reply)
                    THEN Leave("raised")
                    ELSE GoOn("explained",
                              << Becomes("reasoningSnapshot",
                                         Explanation(packet, reply, now)) >>)
Explained == At("explained") /\ Leave("paper")

(* An exception nobody catches ends the run: the tabs after it stay empty.   *)
Raised == At("raised") /\ EndRun
-----------------------------------------------------------------------------
(* The paper tab.  The identifiers of the forms are minted before they are   *)
(* shown; a submission is applied last, in one call, and starts the script   *)
(* over.                                                                     *)
Mint ==
    /\ At("paper")
    /\ \/ MintForms
       \/ pendingOpen # NotYet /\ pendingClose # NotYet /\ UNCHANGED paperVars
    /\ Leave("submit")
SubmitOpen ==
    /\ At("submit") /\ Pressed("open long")
    /\ \E symbol \in Symbols, notional \in Amounts \cup {NoAmount} :
        \/ /\ OpenLong(pendingOpen, symbol, notional)
           /\ session' = [session EXCEPT !.paperError = None]
        \/ /\ notional = NoAmount
              \/ RefusesOpen(portfolio, pendingOpen.intent, pendingOpen.position)
           /\ session' = [session EXCEPT !.paperError = "refused"]
           /\ UNCHANGED paperVars
    /\ StartOver
    /\ UNCHANGED <<panel, budget>>
SubmitClose ==
    /\ At("submit") /\ Pressed("close")
    /\ \E i \in OpenIndices(portfolio) :
        LET target == portfolio.positions[i].id
        IN  \/ /\ ClosePosition(pendingClose, target)
               /\ session' = [session EXCEPT !.paperError = None]
            \/ /\ RefusesClose(portfolio, pendingClose, target, now)
               /\ session' = [session EXCEPT !.paperError = "refused"]
               /\ UNCHANGED paperVars
    /\ StartOver
    /\ UNCHANGED <<panel, budget>>
(* Nothing was submitted, or there was nothing to close: the run is over.    *)
Finish ==
    /\ At("submit") /\ ~Pressed("open long")
    /\ ~Pressed("close") \/ OpenIndices(portfolio) = {}
    /\ EndRun
-----------------------------------------------------------------------------
Init ==
    /\ session = EmptySession /\ run = Idle
    /\ panel \in DOMAIN Panels /\ budget = Panels[panel].presses
    /\ PaperInit

(* Steps that read no clock and touch no paper, steps that take time, and    *)
(* submissions.                                                              *)
Step ==
    \/ \E button \in Buttons : Press(button)
    \/ Assign \/ Abandon \/ Handoff \/ Controls
    \/ ComposeLedger \/ Track \/ RefreshNews \/ RefreshFeeds
    \/ LoadUniverses \/ ReloadUniverses \/ SelectUniverse
    \/ ScanFails \/ PublishScan \/ OpenInResearch \/ Candidates
    \/ ComposeReasoning \/ Availability \/ Explain \/ Explained \/ Raised
    \/ Finish

Next ==
    \/ Step /\ UNCHANGED <<paperVars, clockVars>>
    \/ (Build \/ BeginScan \/ ScanSymbol) /\ UNCHANGED paperVars
    \/ (Mint \/ SubmitOpen \/ SubmitClose) /\ UNCHANGED clockVars
    \/ (StepBack \/ (run = Idle /\ Tick)) /\ UNCHANGED <<sessionVars, paperVars>>

Spec == Init /\ [][Next]_dashboardVars
-----------------------------------------------------------------------------
(* What stands beside the research on the screen is about that research,     *)
(* wherever an earlier run was abandoned and whatever failed: the outcome    *)
(* status is of the refresh that built the snapshot, an explanation that is  *)
(* shown as current read exactly this evidence and cites nothing else, and   *)
(* no success stands beside a failure of the same thing (refresh and         *)
(* explain_with_ai of app.py, explanation_is_current of view_models.py).     *)
ShownBelongsToSnapshot ==
    /\ session.outcomeResult # None =>
            session.snapshot # NoSnapshot /\ session.outcomeResult.of = session.snapshot
    /\ session.reasoningSnapshot # None
            /\ ExplanationIsCurrent(session.reasoningSnapshot, session.snapshot) =>
            /\ session.reasoningSnapshot.evidence = Packet(session.snapshot)
            /\ session.reasoningSnapshot.cited \subseteq
                    EvidenceIds(Packet(session.snapshot))
    /\ None \in {session.outcomeResult, session.outcomeFailure}
    /\ None \in {session.reasoningSnapshot, session.reasoningFailure}

(* A published scan is a whole one, also when symbols failed, the clock was  *)
(* set back or an earlier scan was abandoned: one row for each symbol of its *)
(* universe, every row in exactly one count, and the candidates are exactly  *)
(* the assessable rows, in an order that leaves no tie (scan and ranked_rows *)
(* of application/scanner.py).                                               *)
IsComplete(scan) ==
    /\ Len(scan.results) = Len(scan.universe.symbols)
    /\ \A i \in DOMAIN scan.results :
            scan.results[i].symbol = scan.universe.symbols[i]
    /\ scan.startedAt <= scan.completedAt
    /\ scan.counters.total = scan.counters.eligible + scan.counters.no_data
            + scan.counters.insufficient + scan.counters.failed
IsRanked(scan) ==
    LET ranked == OrderedRows(scan)
    IN  /\ ToSet(ranked) = {row \in ToSet(scan.results) :
                                row.error = NoError /\ row.category # "not_assessable"}
        /\ \A i, j \in DOMAIN ranked :
                i < j => Precedes(RankKey(scan.universe, ranked[i]),
                                  RankKey(scan.universe, ranked[j]))
ScanIsWhole ==
    session.scanSnapshot # None =>
        IsComplete(session.scanSnapshot) /\ IsRanked(session.scanSnapshot)
=============================================================================
