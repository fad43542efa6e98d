------------------------------ MODULE ClaimBook ------------------------------
(***************************************************************************)
(* What the outcome ledger promises its reader, with no file, no refresh   *)
(* and no fault in sight: a book of claims and of what followed them.      *)
(*                                                                         *)
(*   - a claim is entered once, under its key, and never altered;          *)
(*   - a result is entered once, only for a claim already in the book, and *)
(*     only when it rests on bars after everything the claim had seen;     *)
(*   - a part of the book that has been spoilt is closed for good.  With   *)
(*     the claims spoilt, no result can be entered either.                 *)
(***************************************************************************)
EXTENDS Naturals

CONSTANTS Claims, Results    \* everything that could be entered

VARIABLES
    claims,      \* the claims in the book
    results,     \* the results in the book
    spoilt       \* the parts of the book that can no longer be read

vars == <<claims, results, spoilt>>

Parts == {"claims", "results"}

IsForward(result) ==
    /\ result.evaluated_at >= result.artifact.recorded_at
    /\ result.evaluated_at >= result.future
    /\ result.future > result.artifact.data_cutoff
    /\ \A d \in DOMAIN result.consumed : d > result.artifact.data_cutoff

Init == claims = {} /\ results = {} /\ spoilt = {}

EnterClaim(c) ==
    /\ "claims" \notin spoilt
    /\ \A other \in claims : other.key # c.key
    /\ claims' = claims \cup {c}
    /\ UNCHANGED <<results, spoilt>>

EnterResult(r) ==
    /\ spoilt = {}
    /\ r.artifact \in claims
    /\ IsForward(r)
    /\ \A other \in results : other.key # r.key
    /\ results' = results \cup {r}
    /\ UNCHANGED <<claims, spoilt>>

Spoil(part) ==
    /\ part \in Parts \ spoilt
    /\ spoilt' = spoilt \cup {part}
    /\ UNCHANGED <<claims, results>>

Next ==
    \/ \E c \in claims' \ claims : c \in Claims /\ EnterClaim(c)
    \/ \E r \in results' \ results : r \in Results /\ EnterResult(r)
    \/ \E part \in Parts : Spoil(part)

Spec == Init /\ [][Next]_vars
=============================================================================
