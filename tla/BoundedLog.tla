----------------------------- MODULE BoundedLog -----------------------------
(***************************************************************************)
(* What the log promises: it holds the latest Max messages in the order    *)
(* they were added, and whoever looks at it is shown all of it as it was   *)
(* at one moment.                                                          *)
(***************************************************************************)
EXTENDS Integers, Sequences

CONSTANTS
    Message,
    Reader,
    Max

VARIABLES
    content,  \* the log
    shown     \* shown[r]: what reader r was shown last

Init == content = <<>> /\ shown = [r \in Reader |-> <<>>]

Add(m) ==
    /\ content' = IF Len(content) < Max THEN Append(content, m)
                  ELSE Append(Tail(content), m)
    /\ shown' = shown

Show(r) == shown' = [shown EXCEPT ![r] = content] /\ content' = content

Next == (\E m \in Message : Add(m)) \/ (\E r \in Reader : Show(r))

Spec == Init /\ [][Next]_<<content, shown>>

=============================================================================
