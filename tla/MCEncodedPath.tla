---------------------------- MODULE MCEncodedPath ---------------------------
(***************************************************************************)
(* The path of packets through a tunnel, twice: one tunnel with every      *)
(* stack of up to two encodings, and two tunnels with different overheads, *)
(* whose sender must learn an MTU for both.                                *)
(***************************************************************************)
EXTENDS EncodedPath

Fixed(n) == [type |-> "fixed", min |-> n, max |-> n]
Random(m, n) == [type |-> "random", min |-> m, max |-> n]
Crypt == [type |-> "crypt", min |-> 2, max |-> 3]
Encodings == {Fixed(1), Random(0, 1), Crypt}

(* Every stack of up to two encodings *)
AllStacks ==
    {<<>>} \cup {<<e>> : e \in Encodings} \cup {<<d, e>> : d \in Encodings, e \in Encodings}

VARIABLE part  \* "one" or "two"

(* The packets of the sender fit its link. *)
Two == INSTANCE EncodedPath WITH
        Tunnel <- {"t1", "t2"}, Stacks <- {<<Crypt>>, <<Random(0, 1), Crypt>>},
        Mtus <- {11, 14}, IP_MSS <- 3, CKTP_MAX_PACKET_SIZE <- 14, MaxPacket <- 9,
        MaxChange <- 2, MaxLoss <- 1

MCInit == \/ part = "one" /\ Init
          \/ part = "two" /\ Two!Init

MCNext == \/ part = "one" /\ Next /\ UNCHANGED part
          \/ part = "two" /\ Two!Next /\ UNCHANGED part

(* Two!FairSpec *)
MCFairSpec ==
    /\ MCInit /\ [][MCNext]_<<part, vars>>
    /\ SF_vars(part = "two" /\ Two!PacketStep) /\ WF_vars(part = "two" /\ Two!Handle)

-----------------------------------------------------------------------------
(* The sender gets its packets through: it learns an MTU that is small enough, whatever
   tunnels are used and however the user changes the configuration, unless the MTU is
   too small for a tunnel (tunnel.c:575-597, cktp_client.c:1055-1102). *)
PacketsGetThrough == part = "two" => Two!GetsThrough

=============================================================================
