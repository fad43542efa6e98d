-------------------------- MODULE MCFutureValidation --------------------------
(* A small instance of FutureValidation for TLC: one primary symbol, one   *)
(* secondary symbol and two hypotheses.  The states of the validated       *)
(* hypothesis' claims of the primary symbol are free, everything else      *)
(* takes one value: what is checked depends on which rows there are.       *)
EXTENDS FutureValidation

CONSTANTS r1, r2

MCReference == [s \in PrimarySymbols |-> [mean |-> -1, median |-> -1]]

MCStatesOf(symbol, hypothesis) ==
    IF symbol \in PrimarySymbols /\ hypothesis = Primary THEN {"bullish", "bearish"}
    ELSE {"bearish"}

MCValuesAt(symbol) == IF symbol \in PrimarySymbols THEN {1} ELSE {0}

(* Two bars to the year.                                                   *)
MCYearOf(bar) == bar \div 2

MCAnalyses ==
    { [view |-> "cell", symbols |-> SecondarySymbols, hypotheses |-> {Primary},
       horizons |-> {PrimaryHorizon}, states |-> {PrimaryState}],
      [view |-> "episode_start", symbols |-> PrimarySymbols, hypotheses |-> {Primary},
       horizons |-> {PrimaryHorizon}, states |-> {PrimaryState}],
      [view |-> "by_year", symbols |-> PrimarySymbols, hypotheses |-> {Primary},
       horizons |-> {PrimaryHorizon}, states |-> {PrimaryState}],
      [view |-> "coverage", symbols |-> Symbols, hypotheses |-> {Primary},
       horizons |-> {PrimaryHorizon}, states |-> {}] }

MCUniverse == <<"SPY", "TLT">>

MCProducers == <<"trend", "momentum">>

Bound(crew, silent, days, crashes, deaths, reruns, failures, foreign, edits) ==
    [crew |-> crew, silent |-> silent, days |-> days, crashes |-> crashes, deaths |-> deaths,
     reruns |-> reruns, failures |-> failures, foreign |-> foreign, edits |-> edits]

(* Two runs at once and a crash; or one at a time, with symbols that fail, *)
(* with a foreign row, with a file altered, or with a dying collector that *)
(* is run again the same day, one day of the five being without a run.     *)
MCBudgets == {Bound({r1, r2}, {}, 1 .. 3, 1, 0, 0, 0, 0, 0),
              Bound({r1}, {}, 1 .. 3, 0, 0, 0, 1, 0, 0),
              Bound({r1}, {"TLT"}, 1 .. 4, 0, 0, 0, 1, 0, 0),
              Bound({r1}, {"TLT"}, 1 .. 3, 0, 0, 0, 0, 1, 0),
              Bound({r1}, {"TLT"}, 1 .. 3, 0, 0, 0, 0, 0, 1),
              Bound({r1}, {"TLT"}, {1, 3, 4, 5}, 0, 1, 1, 0, 0, 0)}
=============================================================================
