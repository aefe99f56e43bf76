------------------------------ MODULE MCServer ------------------------------
(***************************************************************************)
(* The parts of a server process (Server) and the commands that start and  *)
(* stop servers (Commands) on small instances.  They share no state: in a  *)
(* behaviour one of them runs, and the others rest.                        *)
(***************************************************************************)
EXTENDS Server, Commands, Sequences, TLC

(* Commands that run together have one URL, and there are fewer of them. *)
Fewer == count' < MaxCommand /\ \A c \in Command : Len(cmd'[c].args) < 2

QuotaRests ==
    /\ q_now = 0 /\ resettime = 0 /\ starttime = 0 /\ salt = 0 /\ counts = 0 /\ lock = 0 /\ pc = 0
    /\ local = 0 /\ requests = 0 /\ accepted = 0 /\ stale = 0

MCInit ==
    /\ part \in {"rotation", "loop", "quota", "commands"}
    /\ Init /\ (part # "rotation" => gen_idx = 0)
    /\ Loop!Init
    /\ IF part = "quota" THEN Limit!Init ELSE QuotaRests
    /\ Table!Init /\ (part # "commands" => alone /\ file = <<>>)

MCNext ==
    \/ part = "rotation" /\ Next /\ UNCHANGED <<part, loopVars, quotaVars, tableVars>>
    \/ part = "loop" /\ Loop!Next /\ UNCHANGED <<part, vars, quotaVars, tableVars>>
    \/ part = "quota" /\ Limit!Next /\ UNCHANGED <<part, vars, loopVars, tableVars>>
    \/ /\ part = "commands" /\ Table!Next /\ (alone \/ Fewer)
       /\ UNCHANGED <<part, vars, loopVars, quotaVars>>

MCSpec == MCInit /\ [][MCNext]_<<part, vars, loopVars, quotaVars, tableVars>>

(* Thread, Counters and Command have the same model values: only one part runs. *)
Symmetry == Permutations(Client) \cup Permutations(Thread)

=============================================================================
