----------------------------- MODULE Selection ------------------------------
(***************************************************************************)
(* Which tunnel the client takes for a packet (TunnelSelect), where the    *)
(* ids of tunnels are read and increased by one thread at a time.          *)
(***************************************************************************)
EXTENDS Integers

CONSTANTS
    Urls, HistHashes, HashMax, HistSize, IdMod, One, Least, MaxRepeat, MaxCreate

(* No id is given out twice. *)
ASSUME SelectAssumption ==
    /\ {HashMax, HistSize, One, Least, MaxCreate} \subseteq Nat /\ HistHashes \subseteq Nat
    /\ IdMod \in Nat \ {0} /\ MaxCreate <= IdMod

VARIABLES obj, s_active, id, created, reader, history, via, sel

Select == INSTANCE TunnelSelect WITH
    Hashes <- HistHashes, Together <- FALSE, active <- s_active

selectVars == <<obj, s_active, id, created, reader, history, via, sel>>

(* A packet that is repeated while the history still has it does not take the tunnel it
   took last, if two are active: "Pick a different tunnel (if possible)"
   (tunnel.c:660). *)
Avoids == Select!Avoids

=============================================================================
