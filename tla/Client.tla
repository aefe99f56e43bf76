------------------------------- MODULE Client -------------------------------
(***************************************************************************)
(* Parts of the client: the workers with the capture queue                 *)
(* (NetfilterQueue), the clean-up of the firewall rules when the program   *)
(* ends (Capture), and the URL and the resources of a tunnel that is       *)
(* opened (TunnelOpen).  They share no state.                              *)
(***************************************************************************)
EXTENDS NetfilterQueue

CONSTANTS
    Platform, MaxSignal,                                       \* Capture
    Transports, UnsignedBits, UllBits, MaxNumber, DigitsMax,
    CKTP_MAX_ENCODINGS, MaxOpen                                \* TunnelOpen

ASSUME CaptureAssumption == Platform \subseteq {"linux", "freebsd"} /\ MaxSignal \in Nat

ASSUME OpeningAssumption == CKTP_MAX_ENCODINGS \in Nat \ {0} /\ MaxOpen \in Nat

VARIABLES
    part,                                                       \* the part that runs
    platform, pc, k, cmd, ret, suspended, lock, c_rules, undo, clean, registered, ends,
    failed,                                                     \* Capture
    o_pc, check, url, port, encodings, open_encodings, o_socket, rng, attempt, allocated,
    misused                                                     \* TunnelOpen

(* A signal or a request to quit, once the rules are issued; every command succeeds *)
End == INSTANCE Capture WITH MaxEnd <- 1, Early <- FALSE, Fails <- FALSE, rules <- c_rules

Open == INSTANCE TunnelOpen WITH Transport <- Transports, pc <- o_pc, socket <- o_socket

captureVars ==
    <<platform, pc, k, cmd, ret, suspended, lock, c_rules, undo, clean, registered, ends, failed>>
openVars ==
    <<o_pc, check, url, port, encodings, open_encodings, o_socket, rng, attempt, allocated, misused>>

-----------------------------------------------------------------------------
(* "The issued commands are cleaned up when this program exits."
   (linux/capture.c:25-26): when the process is gone no rule is left, except one
   whose own command failed, if it is not asked to end before the rules are issued. *)
CleanedUp == part = "end" => End!CleanedUp

(* Closing frees only what is allocated, wherever opening has failed
   (cktp_client.c:1250-1274). *)
FreesAllocated == Open!FreesAllocated

=============================================================================
