------------------------------- MODULE Datum -------------------------------
(***************************************************************************)
(* What a set of coordinates promises its reader, whoever keeps it: the    *)
(* axes it offers as known are right.  The promise is suspended only while *)
(* a loss is on notice, and a notice is answered by offering nothing.      *)
(* HomeTrust implements this twice: the controller's own coordinates, and  *)
(* the anchor file with the kernel's counters, which other processes read. *)
(***************************************************************************)
CONSTANT Axes

VARIABLES
    known,      \* the axes whose coordinates are offered as known
    wrong,      \* the axes whose coordinates are not where the machine is
    notice      \* a loss has been noticed and not answered

Init ==
    /\ known = {}
    /\ wrong \in SUBSET Axes
    /\ notice \in BOOLEAN

(* What is offered is right, or on notice. *)
Kept == notice' \/ known' \cap wrong' = {}

(* Motion, and anything else that leaves the offer as it is. *)
Work == /\ known' = known /\ notice' = notice /\ wrong' \in SUBSET Axes

Establish(S) ==
    /\ known' = known \cup S /\ notice' = notice /\ wrong' \in SUBSET Axes

Forget(S) ==
    /\ known' = known \ S /\ notice' = notice /\ wrong' \in SUBSET Axes

Loss == /\ ~notice /\ notice' /\ known' = known /\ wrong' \in SUBSET Axes

(* The only way out of a notice: nothing is offered any more. *)
Answer ==
    /\ notice /\ ~notice'
    /\ known' = {} /\ wrong' \in SUBSET Axes

Next ==
    /\ Kept
    /\ \/ Work \/ Loss \/ Answer
       \/ \E S \in SUBSET Axes : Establish(S) \/ Forget(S)

Spec == Init /\ [][Next]_<<known, wrong, notice>>

=============================================================================
