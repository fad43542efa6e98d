------------------------------- MODULE MCFeeds -------------------------------
(* Small instances of FeedIngestion for TLC.                               *)
EXTENDS FeedIngestion, TLC

(* Sessions differ in nothing but their name.                               *)
MCSymmetry == Permutations(Sessions)

MCEndpoints == {"e1", "e2"}
MCOneEndpoint == {"e1"}

Configured(endpoint, symbols) == [endpoint |-> endpoint, symbols |-> symbols, enabled |-> TRUE]

MCOneConfiguration == {Configured("e1", <<"AAPL">>)}
MCWidened == {Configured("e1", <<"AAPL">>), Configured("e1", <<"AAPL", "MSFT">>)}
MCConfigurations ==
    {Configured("e1", <<"AAPL">>), Configured("e2", <<"MSFT">>),
     [Configured("e1", <<>>) EXCEPT !.enabled = FALSE]}

E(id, host, text, stamp) ==
    [id |-> id, host |-> host, text |-> text, stamp |-> stamp, usable |-> TRUE]

(* One entry; the same rewritten, with another whose stamp lies ahead; the *)
(* first one's identifier on another host, between an entry nobody can     *)
(* identify and one past the bound; and a page that is no feed.            *)
MCDocuments == {"first", "rewritten", "moved", "page"}
MCMalformed == {"page"}
MCEntries ==
    "first"     :> <<E("a", "h", "x", 0)>> @@
    "rewritten" :> <<E("a", "h", "y", 0), E("b", "h", "x", 1)>> @@
    "moved"     :> <<[E("c", "h", "x", NoTime) EXCEPT !.usable = FALSE],
                     E("a", "g", "x", NoTime), E("b", "g", "x", NoTime)>> @@
    "page"      :> <<>>

MCNone == {}
MCTwoDocuments == {"first", "rewritten"}
MCTwoEntries ==
    "first"     :> <<E("a", "h", "x", 0)>> @@
    "rewritten" :> <<E("a", "h", "y", 0), E("b", "h", "x", 1)>>
=============================================================================
