---------------------------- MODULE PacketChecks ---------------------------
(***************************************************************************)
(* What the client decides about a packet: whether it is a repeat          *)
(* (PacketTrack), and whether it is hidden (PacketFilter).  They share no  *)
(* state.                                                                  *)
(***************************************************************************)
EXTENDS Integers, FiniteSets

CONSTANTS
    Threads, Hashes, BucketSize, MAX_SEQ, RepMod, MaxPackets,  \* PacketTrack
    NatMethod                                                  \* PacketFilter

(* Zero is the hash of an entry that was never used. *)
ASSUME TrackAssumption ==
    /\ Hashes \subseteq Nat \ {0}
    /\ {BucketSize, RepMod} \subseteq Nat \ {0} /\ MAX_SEQ \in Nat

VARIABLES
    stage,                           \* the part that runs: the other ones rest
    bucket, seq, t_pc, local, seen,  \* PacketTrack
    options, f_config                \* PacketFilter

Track == INSTANCE PacketTrack WITH pc <- t_pc
Filter == INSTANCE PacketFilter WITH config <- f_config

trackVars == <<bucket, seq, t_pc, local, seen>>
filterVars == <<options, f_config>>

-----------------------------------------------------------------------------
(* A packet that was captured once is not taken for a repeat, whatever another thread does
   at the same time: "at worst, we get false negatives" (packet_track.c:48-49). *)
NoFalsePositive == stage = "track" => Track!NoFalsePositive

(* help-contents.html:246-259: "all" hides every TCP packet to port 80, the modes for data
   and URLs the ones that contain data and no other, "none" none at all. *)
HidesAsDescribed == stage = "filter" => Filter!HidesAsDescribed

=============================================================================
