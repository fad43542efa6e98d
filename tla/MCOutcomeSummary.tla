--------------------------- MODULE MCOutcomeSummary ---------------------------
(* Two writers and a summary read while they run, for TLC.                 *)
EXTENDS OutcomeSummary, TLC

MCProducers == <<"policy">>
MCHorizons == <<1>>

(* The policy classifies by the content of the last bar.                   *)
MCClassify(producer, bars) ==
    IF DOMAIN bars = {} THEN Insufficient ELSE bars[Latest(DOMAIN bars)]

(* A writer's name is never looked at.                                      *)
WriterSymmetry == Permutations(Writers)
=============================================================================
