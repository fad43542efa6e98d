---------------------------- MODULE MCProspective ----------------------------
(* Small instances of ProspectiveCollection for TLC.                       *)
EXTENDS ProspectiveCollection, TLC

MCOneSymbol == <<"SPY">>

Environment(faults, foreign, steps, collectors, last) ==
    [faults |-> faults, foreign |-> foreign, steps |-> steps, collectors |-> collectors,
     last |-> last]

(* Two deaths; two collectors at once and a death, until the second window *)
(* closes; a foreign writer and a death; a clock that is stepped back; a   *)
(* death, a foreign write and a step until the second window closes.       *)
MCEnvironments == {Environment(2, 0, 0, 1, 7), Environment(1, 0, 0, 2, 5),
                   Environment(1, 1, 0, 1, 7), Environment(0, 0, 1, 1, 7),
                   Environment(1, 1, 1, 1, 5)}

(* Two deaths, for longer days.                                            *)
MCDeaths == {Environment(2, 0, 0, 1, 9)}

(* Collectors differ in nothing but their name.                            *)
MCSymmetry == Permutations(Collectors)

(* The window closes before the day does, and opens with the day or a tick *)
(* into it.                                                                *)
MCFirstTwoTicks == 0 .. 1
MCFourTicks == 1 .. 4
=============================================================================
