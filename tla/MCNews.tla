-------------------------------- MODULE MCNews --------------------------------
(* A small instance of NewsIngestion for TLC.                              *)
EXTENDS NewsIngestion, TLC

CONSTANTS A, B, c, d, i, j, p, q, x, y

MCSymbols     == {A, B}
MCRegistrants == {c, d}
MCIds         == {i, j}
MCUrls        == {p, q}
MCTexts       == {x, y}

(* Two symbols of two registrants; of one, as share classes are; the       *)
(* second's ticker not listed; and both reassigned.                        *)
MCApart    == {A :> c @@ B :> d}
MCTogether == {A :> c @@ B :> c}
MCTickerMaps == MCApart \cup MCTogether \cup {A :> c @@ B :> Unlisted, A :> d @@ B :> c}

Raw(id, url, text, stamp) == [id |-> id, url |-> url, text |-> text, stamp |-> stamp]

(* A filing; the same amended, without its time, with another after a row  *)
(* nobody can identify.                                                    *)
MCFilings ==
    {<<Raw(i, None, x, 0)>>,
     <<Raw(None, None, x, 0), Raw(i, None, y, NoTime), Raw(j, None, x, 1)>>}

(* An article; the same rewritten twice in one answer; and one whose link  *)
(* has moved, before one whose time cannot be true.                        *)
MCArticles ==
    {<<Raw(i, p, x, 1)>>,
     <<Raw(i, p, y, NoTime), Raw(j, p, x, 2), Raw(i, p, x, NoTime)>>,
     <<Raw(i, q, x, 1), Raw(j, q, y, 9)>>}

MCNothing == {<<>>}

Environment(maps, filings, articles, faults, changes, foreign) ==
    [maps |-> maps, answers |-> [edgar |-> filings, yahoo |-> articles],
     faults |-> faults, changes |-> changes, foreign |-> foreign]

MCEnvironments ==
    {Environment(MCTickerMaps, MCFilings, MCNothing, 0, 2, 0),
     Environment(MCTogether, MCFilings, MCNothing, 1, 0, 0),
     Environment(MCApart, MCNothing, MCArticles, 1, 0, 0),
     Environment(MCApart, {<<Raw(i, None, x, 0)>>}, {<<Raw(i, p, x, 1)>>}, 1, 0, 1)}
=============================================================================
