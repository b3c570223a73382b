----------------------------- MODULE InputFocus -----------------------------
(***************************************************************************)
(* What the switcher promises about held input, without links, slots or    *)
(* subscriptions: at most one computer has the focus, only it can be made  *)
(* to hold a report, and a computer that loses the focus while holding one *)
(* is owed a release that nothing but the release itself discharges.       *)
(***************************************************************************)
CONSTANTS Host, Nobody, Report

VARIABLES
    focus,   \* the computer input goes to, or Nobody
    holding, \* pairs <<computer, report>>: the computer was told to hold it
    owed     \* pairs whose release the switcher still has to send

vars == <<focus, holding, owed>>

Of(h) == {h} \X Report

Init ==
    /\ focus \in Host \cup {Nobody}
    /\ holding = {}
    /\ owed \in SUBSET (Host \X Report)

\* Input presses something on the computer that has the focus.
Press(id) ==
    /\ focus \in Host
    /\ <<focus, id>> \notin owed
    /\ holding' = holding \cup {<<focus, id>>}
    /\ UNCHANGED <<focus, owed>>

\* Pairs are released (or their computers leave), debts are added, the
\* focus moves.  A pair that stays held stays owed, and all the computer
\* that loses the focus still holds becomes owed.
Settle ==
    /\ holding' \subseteq holding
    /\ owed' \subseteq Host \X Report
    /\ holding' \cap owed \subseteq owed'
    /\ focus' \in Host \cup {Nobody}
    /\ focus' # focus => holding' \cap Of(focus) \subseteq owed'

Next == Settle \/ \E id \in Report : Press(id)

Spec == Init /\ [][Next]_vars

=============================================================================
