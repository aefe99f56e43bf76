----------------------------- MODULE MCPackets ------------------------------
(***************************************************************************)
(* The parts that decide about a packet of the client: whether it is a     *)
(* repeat and whether it is hidden (PacketChecks), which tunnel it takes   *)
(* (Selection), and how it is split and sent (PacketPath).  They share no  *)
(* state: in a behaviour one of them runs, and the others rest.            *)
(***************************************************************************)
EXTENDS PacketPath, PacketChecks, Selection, TLC

MCvars == <<stage, vars, trackVars, filterVars, selectVars>>

MCInit ==
    /\ stage \in {"select", "track", "filter", "path"}
    /\ Init /\ (stage # "path" => ~active)
    /\ Track!Init
    /\ Filter!Init
    /\ Select!Init

MCNext ==
    \/ /\ stage = "path" /\ Next
       /\ UNCHANGED <<stage, trackVars, filterVars, selectVars>>
    \/ /\ stage = "track" /\ Track!Next
       /\ UNCHANGED <<stage, vars, filterVars, selectVars>>
    \/ /\ stage = "filter" /\ Filter!Next
       /\ UNCHANGED <<stage, vars, trackVars, selectVars>>
    \/ /\ stage = "select" /\ Select!Next
       /\ UNCHANGED <<stage, vars, trackVars, filterVars>>

MCSpec == MCInit /\ [][MCNext]_MCvars

Symmetry == Permutations(Urls)

=============================================================================
