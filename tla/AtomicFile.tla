----------------------------- MODULE AtomicFile -----------------------------
(***************************************************************************)
(* What the saved configuration promises to the next start of the program. *)
(* `durable' is the configuration a start would load now.  It changes only *)
(* while a save is under way, and then only to the configuration being     *)
(* saved or back to the default; a save that is given up changes nothing   *)
(* more, and a start changes nothing at all.                               *)
(***************************************************************************)
CONSTANTS
    Configuration,  \* the whole configurations
    Default,        \* the one of a fresh installation
    None            \* no save is under way

VARIABLES
    durable,  \* what the next start loads
    saving    \* the configuration being saved

Init == durable = Default /\ saving = None

Begin ==
    /\ saving = None
    /\ saving' \in Configuration
    /\ durable' = durable

(* The old file has been moved away and the new one is not there yet. *)
Expose ==
    /\ saving # None
    /\ durable' = Default
    /\ saving' = saving

Commit ==
    /\ saving # None
    /\ durable' = saving
    /\ saving' = None

(* The save failed, or the program was stopped. *)
Abandon ==
    /\ saving # None
    /\ saving' = None
    /\ durable' = durable

Next == Begin \/ Expose \/ Commit \/ Abandon

Spec == Init /\ [][Next]_<<durable, saving>>

=============================================================================
