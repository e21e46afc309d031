--------------------------- MODULE ReviewPromise ---------------------------
(***************************************************************************)
(* What the review of a code change promises its user, without files being *)
(* read or written one by one: files are touched only while an approved    *)
(* change is carried out, a change that ends in a conflict has touched     *)
(* none of them, and one that is applied has touched all of them.          *)
(***************************************************************************)
CONSTANTS Files

VARIABLES
    verdict,    \* where the review stands, "none" when there is no review
    denied,     \* whether the policy forbids the change
    change,     \* the files the change is about
    touched     \* those of them it has written

vars == <<verdict, denied, change, touched>>

Init ==
    /\ verdict = "none" /\ denied = FALSE
    /\ change = {} /\ touched = {}

\* A proposal opens a review, and takes the place of the one before.
Propose ==
    /\ verdict # "approved"
    /\ verdict' = "open"
    /\ denied' \in BOOLEAN
    /\ change' \in SUBSET Files
    /\ touched' = {}

Approve ==
    /\ verdict = "open" /\ ~denied
    /\ verdict' = "approved"
    /\ UNCHANGED <<denied, change, touched>>

\* Rejected, or sent back with feedback
Decline ==
    /\ verdict = "open"
    /\ verdict' \in {"rejected", "returned"}
    /\ UNCHANGED <<denied, change, touched>>

Touch ==
    /\ verdict = "approved"
    /\ \E f \in change : touched' = touched \union {f}
    /\ UNCHANGED <<verdict, denied, change>>

Refuse ==
    /\ verdict = "approved" /\ touched = {}
    /\ verdict' = "conflict"
    /\ UNCHANGED <<denied, change, touched>>

Complete ==
    /\ verdict = "approved" /\ touched = change
    /\ verdict' = "applied"
    /\ UNCHANGED <<denied, change, touched>>

\* The program ends, by an error or otherwise, and the review with it.
Forget ==
    /\ verdict' = "none" /\ denied' = FALSE
    /\ change' = {} /\ touched' = {}

Next ==
    \/ Propose \/ Approve \/ Decline
    \/ Touch \/ Refuse \/ Complete \/ Forget

Spec == Init /\ [][Next]_vars
=============================================================================
