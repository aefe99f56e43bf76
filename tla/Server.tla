------------------------------- MODULE Server -------------------------------
(***************************************************************************)
(* A server process: its key generators (CryptRotation), its listen        *)
(* threads (ServerLoop) and the quota of their key requests (Quota).  They *)
(* share no state: in a behaviour one of them runs, and the others rest.   *)
(***************************************************************************)
EXTENDS CryptRotation

CONSTANTS
    Thread,   \* listen threads
    Transport, NumEncodings, CryptIndex, MaxPackets,  \* their tunnel, and a bound
    Counters, \* counters of the quota
    Sec, rps, timemin, timemax, W, Garbage, QuotaTime, MaxCount,  \* its numbers, and bounds
    None

ASSUME LoopAssumption ==
    /\ NumEncodings \in Nat /\ MaxPackets \in Nat /\ CryptIndex \in 1 .. NumEncodings
    /\ None \notin Client \cup Nat

ASSUME QuotaAssumption ==
    /\ {Sec, rps, W} \subseteq Nat \ {0} /\ {timemin, timemax, QuotaTime, MaxCount} \subseteq Nat
    /\ Garbage \subseteq Nat /\ Counters # {}

VARIABLES
    part,                                         \* the part that runs
    received, thread, key, seq, sent, forwarded,  \* ServerLoop
    q_now, resettime, starttime, salt, counts, lock, pc, local, requests, accepted, stale  \* Quota

Loop == INSTANCE ServerLoop

(* One of the threads *)
Limit == INSTANCE Quota WITH
        Threads <- {"t"}, Addresses <- Client, MaxTime <- QuotaTime, now <- q_now

loopVars == <<received, thread, key, seq, sent, forwarded>>
quotaVars == <<q_now, resettime, starttime, salt, counts, lock, pc, local, requests, accepted, stale>>

-----------------------------------------------------------------------------
(* A reply is encoded with the key of the client it is sent to, whatever packets the other
   threads decode between the request and the reply (cktp_clone_tunnel). *)
ReplyUnderOwnKey == Loop!ReplyUnderOwnKey

(* No two packets of the server carry the same sequence number, over all threads
   ("Get next sequence number (thread safe)", crypt_next_seq). *)
SeqOnce == Loop!SeqOnce

(* On a UDP tunnel the reply never moves further from its place than the overhead of the
   tunnel, so that it stays in its buffer (cktp_server.c:504). *)
ReplyInBuffer == Loop!ReplyInBuffer

(* With one listen thread an address gets its rate between two resets, and no more than the
   requests of the first second and two more (quota.c:119-123). *)
RateHeld == part = "quota" => Limit!RateHeld

=============================================================================
