---------------------------- MODULE KeyAgreement ----------------------------
(***************************************************************************)
(* What the handshake of the crypt encoding promises.  The server issues   *)
(* session keys; a tunnel that opens adopts one of them, which no other    *)
(* tunnel has or ever gets, and keeps it until it is closed.               *)
(***************************************************************************)
CONSTANTS
    Tunnel,  \* tunnels of the client
    NoKey    \* a tunnel has no session key

VARIABLES
    issued,  \* session keys the server has made
    key      \* key[t]: the session key of tunnel t

Init == issued = {} /\ key = [t \in Tunnel |-> NoKey]

Issue ==
    /\ issued \subseteq issued'
    /\ key' = key

Adopt(t) ==
    /\ key[t] = NoKey
    /\ \E k \in issued :
         /\ \A u \in Tunnel : key[u] # k
         /\ key' = [key EXCEPT ![t] = k]
    /\ issued' = issued

Next == Issue \/ \E t \in Tunnel : Adopt(t)

Spec == Init /\ [][Next]_<<issued, key>>

=============================================================================
