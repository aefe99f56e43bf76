------------------------------ MODULE MCTunnel ------------------------------
(* Small instances of Tunnel for TLC. *)
EXTENDS Tunnel, TLC

Symmetry == Permutations(Tun) \cup Permutations(Thread) \cup Permutations(Url)

=============================================================================
