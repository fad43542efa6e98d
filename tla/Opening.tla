-------------------------------- MODULE Opening --------------------------------
(***************************************************************************)
(* What the future validation promises, with no file, no runner and no     *)
(* crash in sight: evidence that grows is opened once, when it is due, and *)
(* the question put to it is answered once, from what was opened.  Whoever *)
(* asks afterwards is told that answer.                                    *)
(***************************************************************************)
CONSTANTS
    IsDueNow(_),     \* whether that evidence is due for opening
    AnswerTo(_),     \* what an opening answers
    None             \* no opening, no answer

VARIABLES
    opening,     \* what was opened
    answer,      \* what was written down as the answer
    told         \* what the last completed run told its caller

vars == <<opening, answer, told>>

Init == opening = None /\ answer = None /\ told = None

Open ==
    /\ opening = None
    /\ opening' # None
    /\ IsDueNow(opening')
    /\ UNCHANGED <<answer, told>>

Answer ==
    /\ opening # None
    /\ answer = None
    /\ answer' = AnswerTo(opening)
    /\ UNCHANGED <<opening, told>>

Tell ==
    /\ answer # None
    /\ told' = answer
    /\ UNCHANGED <<opening, answer>>

Next == Open \/ Answer \/ Tell

Spec == Init /\ [][Next]_vars
=============================================================================
