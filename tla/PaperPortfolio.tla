---------------------------- MODULE PaperPortfolio ----------------------------
(* The paper portfolio of one dashboard session (src/portfolio and         *)
(* src/application/paper.py): hypothetical long positions that a person    *)
(* opens and closes under fixed risk limits.  The portfolio is a value;    *)
(* Apply computes a new one and a decision, or refuses.  The session keeps *)
(* the current value and the identifiers of the two forms, minted once and *)
(* held until an approved action consumes them.                            *)
(*                                                                         *)
(* Amounts are small integers: exact_add pins a decimal context in which   *)
(* sums are exact.  An amount no intent accepts (not a number, not         *)
(* positive, not finite) is NoAmount.  Symbols are already upper case.     *)
EXTENDS Integers, Sequences, FiniteSets, Folds, Functions

CONSTANTS
    Symbols,              \* what a position can be held in
    Amounts,              \* the notionals a person types
    MaxNotionalPerPosition, MaxTotalNotional, MaxOpenPositions,
    AllowDuplicateSymbol, \* the four limits of the risk policy
    MaxTime,              \* bound: ticks of the wall clock
    MaxClockSteps,        \* bound: steps of the wall clock backwards
    MaxMinted,            \* bound: identifiers a session mints
    NoAmount, NotYet      \* no amount at all, and what has not happened yet

IsRiskPolicy ==
    /\ Amounts \subseteq Nat \ {0}
    /\ MaxNotionalPerPosition \in Nat \ {0} /\ MaxTotalNotional \in Nat \ {0}
    /\ MaxOpenPositions \in Nat \ {0} /\ AllowDuplicateSymbol \in BOOLEAN
    /\ MaxTime \in Nat /\ MaxClockSteps \in 0 .. 1 /\ MaxMinted \in Nat
    /\ NotYet \notin Int

ASSUME PolicyAssumption == IsRiskPolicy

VARIABLES
    portfolio,     \* the current PaperPortfolio value
    lastDecision,  \* the last RiskDecision, or NotYet
    sequence,      \* how many identifiers were minted
    pendingOpen,   \* identifiers of the open form, or NotYet
    pendingClose,  \* identifier of the close form, or NotYet
    forms,         \* history: the identifiers either form was ever shown with
    now,           \* the wall clock
    clockSteps     \* how often it was set back

paperVars == <<portfolio, lastDecision, sequence, pendingOpen, pendingClose, forms>>
clockVars == <<now, clockSteps>>
-----------------------------------------------------------------------------
(* Identifiers are a prefix and a number: open-1, pos-2, close-3.           *)
Identifiers(prefix) == {prefix} \X (1 .. MaxMinted)
PositionIds == Identifiers("pos")

(* A position is open until it has a closing time.                          *)
IsOpen(position) == position.closedAt = NotYet
Closed(position, moment) == [position EXCEPT !.closedAt = moment]

EmptyPortfolio == [positions |-> <<>>, processed |-> <<>>]

OpenIndices(book) == {i \in DOMAIN book.positions : IsOpen(book.positions[i])}
OpenSymbols(book) == {book.positions[i].symbol : i \in OpenIndices(book)}
TotalOpenNotional(book) ==
    MapThenFoldSet(+, 0, LAMBDA i : book.positions[i].notional,
                   LAMBDA S : CHOOSE i \in S : TRUE, OpenIndices(book))
Indices(book, id) == {i \in DOMAIN book.positions : book.positions[i].id = id}
-----------------------------------------------------------------------------
(* Seeded fault: the exposure limit forgets what is about to be opened.     *)
EvaluateOpenBefore(book, symbol, notional) ==
    {code \in {"position_limit", "total_exposure_limit", "duplicate_symbol"} :
        \/ code = "position_limit" /\ notional > MaxNotionalPerPosition
        \/ code = "total_exposure_limit" /\ TotalOpenNotional(book) > MaxTotalNotional
        \/ code = "duplicate_symbol"
           /\ ~AllowDuplicateSymbol /\ symbol \in OpenSymbols(book)}

(* The rules of the policy that an opening would break, all of them; limits *)
(* are inclusive.                                                           *)
EvaluateOpen(book, symbol, notional) ==
    {code \in {"position_limit", "total_exposure_limit",
               "open_position_limit", "duplicate_symbol"} :
        \/ code = "position_limit" /\ notional > MaxNotionalPerPosition
        \/ code = "total_exposure_limit"
           /\ TotalOpenNotional(book) + notional > MaxTotalNotional
        \/ code = "open_position_limit"
           /\ Cardinality(OpenIndices(book)) + 1 > MaxOpenPositions
        \/ code = "duplicate_symbol"
           /\ ~AllowDuplicateSymbol /\ symbol \in OpenSymbols(book)}

(* A decision approves exactly when it names no reason.                     *)
Decision(intentId, reasons) == [intent |-> intentId, reasons |-> reasons]

(* Seeded fault: only the intent applied last is remembered.                *)
IsReplayOfLast(book, intentId) ==
    book.processed # <<>> /\ book.processed[Len(book.processed)] = intentId

(* An intent whose identifier was applied before is refused, whatever it    *)
(* asks for.                                                                *)
IsReplay(book, intentId) == intentId \in Range(book.processed)

(* An opening is refused outright when its position identifier was ever     *)
(* used, and a closing when its target is unknown, closed, or would close   *)
(* before it opened.                                                        *)
RefusesOpen(book, intentId, positionId) ==
    IsReplay(book, intentId) \/ Indices(book, positionId) # {}

(* Seeded fault: the time of a close is not compared with its opening.      *)
RefusesCloseUntimed(book, intentId, target, moment) ==
    \/ IsReplay(book, intentId)
    \/ ~\E i \in Indices(book, target) : IsOpen(book.positions[i])

RefusesClose(book, intentId, target, moment) ==
    \/ IsReplay(book, intentId)
    \/ ~\E i \in Indices(book, target) :
            IsOpen(book.positions[i]) /\ moment >= book.positions[i].openedAt

(* Approved, either one gives a new value and records the intent.           *)
WithOpened(book, intentId, positionId, symbol, notional, moment) ==
    [positions |-> Append(book.positions,
        [id |-> positionId, symbol |-> symbol, notional |-> notional,
         openedAt |-> moment, closedAt |-> NotYet]),
     processed |-> Append(book.processed, intentId)]
WithClosed(book, intentId, target, moment) ==
    [positions |-> [i \in DOMAIN book.positions |->
                        IF book.positions[i].id = target
                        THEN Closed(book.positions[i], moment)
                        ELSE book.positions[i]],
     processed |-> Append(book.processed, intentId)]
-----------------------------------------------------------------------------
(* Rendering the two forms mints whatever identifiers are missing and keeps *)
(* the others; the close form comes after the open one.                     *)
MintForms ==
    LET opens == IF pendingOpen = NotYet THEN 2 ELSE 0
    IN  /\ sequence + opens + 1 <= MaxMinted
        /\ \/ opens > 0 \/ pendingClose = NotYet
        /\ pendingOpen' = IF opens = 0 THEN pendingOpen
                          ELSE [intent |-> <<"open", sequence + 1>>,
                                position |-> <<"pos", sequence + 2>>]
        /\ pendingClose' = IF pendingClose # NotYet THEN pendingClose
                           ELSE <<"close", sequence + opens + 1>>
        /\ sequence' = sequence + opens + IF pendingClose = NotYet THEN 1 ELSE 0
        /\ forms' = [open |-> forms.open \cup {pendingOpen'},
                     close |-> forms.close \cup {pendingClose'}]
        /\ UNCHANGED <<portfolio, lastDecision>>

(* A person submits the open form.  A refusal and an amount no intent       *)
(* accepts leave everything alone; a rejection by the policy is remembered, *)
(* keeps the identifiers and may be retried; an approval consumes them.     *)
OpenLong(ids, symbol, notional) ==
    /\ notional # NoAmount
    /\ ~RefusesOpen(portfolio, ids.intent, ids.position)
    /\ LET reasons == EvaluateOpen(portfolio, symbol, notional) IN
        /\ lastDecision' = Decision(ids.intent, reasons)
        /\ \/ /\ reasons # {}
              /\ UNCHANGED <<portfolio, pendingOpen>>
           \/ /\ reasons = {}
              /\ portfolio' = WithOpened(portfolio, ids.intent, ids.position,
                                         symbol, notional, now)
              /\ pendingOpen' = NotYet
    /\ UNCHANGED <<sequence, pendingClose, forms>>

(* A person submits the close form.  A valid close is always approved.      *)
ClosePosition(intentId, target) ==
    /\ ~RefusesClose(portfolio, intentId, target, now)
    /\ portfolio' = WithClosed(portfolio, intentId, target, now)
    /\ lastDecision' = Decision(intentId, {})
    /\ pendingClose' = NotYet
    /\ UNCHANGED <<sequence, pendingOpen, forms>>

(* The wall clock moves on, or is set back once.  It counts microseconds,   *)
(* so no two readings agree: it advances by two and is set back by three.    *)
Passes == now' = now + 2 /\ UNCHANGED clockSteps
Tick == now < MaxTime /\ Passes
StepBack ==
    /\ clockSteps < MaxClockSteps /\ now >= 3
    /\ now' = now - 3
    /\ clockSteps' = clockSteps + 1
-----------------------------------------------------------------------------
PaperInit ==
    /\ portfolio = EmptyPortfolio /\ lastDecision = NotYet
    /\ sequence = 0 /\ pendingOpen = NotYet /\ pendingClose = NotYet
    /\ forms = [open |-> {}, close |-> {}]
    /\ now = 0 /\ clockSteps = 0

(* A caller that kept the identifiers of an earlier form may submit them    *)
(* again.                                                                   *)
PaperAction ==
    \/ MintForms
    \/ \E ids \in forms.open, symbol \in Symbols, notional \in Amounts :
            OpenLong(ids, symbol, notional)
    \/ \E intentId \in forms.close, target \in PositionIds :
            ClosePosition(intentId, target)

PaperNext ==
    \/ PaperAction /\ UNCHANGED clockVars
    \/ (Tick \/ StepBack) /\ UNCHANGED paperVars

PaperSpec == PaperInit /\ [][PaperNext]_<<paperVars, clockVars>>
-----------------------------------------------------------------------------
(* Whatever was opened, closed, rejected, retried and submitted again, the  *)
(* open positions keep every limit of the policy: application only ever     *)
(* happens on the value the rules were evaluated against (portfolio.py).    *)
LimitsHold ==
    /\ TotalOpenNotional(portfolio) <= MaxTotalNotional
    /\ Cardinality(OpenIndices(portfolio)) <= MaxOpenPositions
    /\ \A i \in OpenIndices(portfolio) :
            portfolio.positions[i].notional <= MaxNotionalPerPosition
    /\ AllowDuplicateSymbol
       \/ \A i, j \in OpenIndices(portfolio) :
            portfolio.positions[i].symbol = portfolio.positions[j].symbol => i = j

(* Every approved intent acted exactly once: as many intents are recorded   *)
(* as positions were opened and closed, none twice, and no position         *)
(* identifier was recycled.  A form that was submitted before, with the     *)
(* identifiers it carried then, never acts again (portfolio.py:152).        *)
EachIntentActsOnce ==
    /\ IsInjective(portfolio.processed)
    /\ \A i, j \in DOMAIN portfolio.positions :
            portfolio.positions[i].id = portfolio.positions[j].id => i = j
    /\ Len(portfolio.processed) =
            Len(portfolio.positions)
            + Cardinality(DOMAIN portfolio.positions \ OpenIndices(portfolio))

(* The history of the portfolio is only ever extended: a position keeps its *)
(* place and what it was opened with, a closed one never changes again, and *)
(* none closes before it opened, also when the clock was set back.          *)
HistoryIsKept ==
    [][\A i \in DOMAIN portfolio.positions :
        /\ i \in DOMAIN portfolio'.positions
        /\ LET before == portfolio.positions[i]
               after  == portfolio'.positions[i]
           IN  after = before
               \/ /\ IsOpen(before) /\ ~IsOpen(after)
                  /\ after = Closed(before, after.closedAt)
                  /\ after.closedAt >= before.openedAt]_<<paperVars, clockVars>>
=============================================================================
