--------------------------- MODULE MCOutcomeRefresh ---------------------------
(* Small instances of OutcomeRefresh for TLC.                              *)
EXTENDS OutcomeRefresh, TLC

(* One hypothesis and the policy.  The hypothesis needs one bar of history *)
(* before the last, and its state follows the content of that bar, so that *)
(* a restated bar can change a claim about the bar after it.  The policy   *)
(* always classifies, by the last bar.                                     *)
MCProducers == <<"hypothesis", "policy">>
MCHorizons == <<1, 2>>
MCOneHorizon == <<1>>

MCClassify(producer, bars) ==
    LET tail   == Latest(DOMAIN bars)
        before == {d \in DOMAIN bars : d < tail}
    IN  CASE DOMAIN bars = {}       -> Insufficient
          [] producer = "policy"    -> "classified"
          [] before = {}            -> Insufficient
          [] OTHER                  -> bars[Latest(before)]
(* What a bar contains is only ever compared. *)
ContentSymmetry == Permutations(Contents)
=============================================================================
