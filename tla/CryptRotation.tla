--------------------------- MODULE CryptRotation ---------------------------
(***************************************************************************)
(* Session keys of the crypt encoding (encodings/crypt.c).  The server is  *)
(* stateless: it derives a session key from the session identifier with    *)
(* one of two key generators, which a manager thread replaces in turn.  A  *)
(* key request tells the client when to ask for another key; the client    *)
(* must have done so before the generator of its key is replaced.          *)
(*                                                                         *)
(* Time is discrete.  The generators are numbered by how often they were   *)
(* replaced.  The listen loop that serves a request and the manager share  *)
(* the global state without a lock.                                        *)
(***************************************************************************)
EXTENDS Integers

CONSTANTS
    Client,              \* clients of the server
    CRYPT_TIMEOUT,       \* between two replacements of a generator
    CRYPT_TIMEOUT_BUFF,  \* margin at either end
    CRYPT_MIN_TIMEOUT,   \* shortest and
    CRYPT_MAX_TIMEOUT,   \* longest timeout a client accepts
    U64,                 \* modulus of uint64_t
    Oversleep,           \* how late sleeptime() may return
    Delay,               \* how late a reply may arrive (cktp_send_request)
    Linger,              \* how long a reconnect may take (tunnel_reconnect)
    Straddle,            \* may the manager run in the middle of a request?
    MaxTime              \* bound: the clock stops here

ASSUME TimingAssumption ==
    /\ {CRYPT_TIMEOUT, CRYPT_TIMEOUT_BUFF, CRYPT_MIN_TIMEOUT, CRYPT_MAX_TIMEOUT,
        U64, Oversleep, Delay, Linger, MaxTime} \subseteq Nat
    /\ CRYPT_TIMEOUT > CRYPT_MIN_TIMEOUT + 2 * CRYPT_TIMEOUT_BUFF
    /\ CRYPT_MAX_TIMEOUT >= 2 * CRYPT_TIMEOUT
    /\ U64 > CRYPT_MAX_TIMEOUT + Oversleep
    /\ Straddle \in BOOLEAN

VARIABLES
    now,          \* gettime(), the same for all
    gen_idx,      \* index of the current generator
    key_gen,      \* key_gen[i]: how often generator i was replaced
    gen_timeout,  \* when the current generator will become the old one
    manager,      \* crypt_timeout_manager: sleeping or between two assignments
    request,      \* request[c]: the key request of client c
    session       \* session[c]: the session of client c

vars == <<now, gen_idx, key_gen, gen_timeout, manager, request, session>>

-----------------------------------------------------------------------------
NoRequest == [pc |-> "idle", idx |-> 0, key |-> 0, timeout |-> 0, at |-> 0]

NoSession == [open |-> FALSE, idx |-> 0, key |-> 0, timeout |-> 0]

Init ==
    /\ now = 0
    /\ gen_idx \in {0, 1}
    /\ key_gen = [i \in {0, 1} |-> 0]
    /\ gen_timeout = CRYPT_TIMEOUT
    /\ manager = "sleep"
    /\ request = [c \in Client |-> NoRequest]
    /\ session = [c \in Client |-> NoSession]

(* uint64_t arithmetic, for results that wrap round at most once *)
Wrap(x) == IF x < 0 THEN x + U64 ELSE x

-----------------------------------------------------------------------------
(* Time.  What the code does without sleeping takes no time.  A client whose
   session timed out has replaced or closed it after Linger at the latest; a
   reply older than Delay is no longer waited for. *)
Tick ==
    /\ now < MaxTime /\ now' = now + 1
    /\ manager = "sleep" /\ now < gen_timeout + Oversleep
    /\ \A c \in Client :
         /\ request[c].pc # "id"
         /\ request[c].pc = "reply" => now < request[c].at + Delay
         /\ session[c].open => now < session[c].timeout + Linger
    /\ UNCHANGED <<gen_idx, key_gen, gen_timeout, manager, request, session>>

-----------------------------------------------------------------------------
(* crypt_timeout_manager: three assignments to the shared state *)

ManagerRuns == Straddle \/ \A c \in Client : request[c].pc # "id"

(* Mutant: the generator in use is replaced. *)
crypt_timeout_manager_clobber_Current ==
    /\ manager = "sleep" /\ now >= gen_timeout /\ ManagerRuns
    /\ key_gen' = [key_gen EXCEPT ![gen_idx] = @ + 1]
    /\ manager' = "flip"
    /\ UNCHANGED <<now, gen_idx, gen_timeout, request, session>>

crypt_timeout_manager_clobber ==
    /\ manager = "sleep" /\ now >= gen_timeout /\ ManagerRuns
    /\ key_gen' = [key_gen EXCEPT ![1 - gen_idx] = @ + 1]
    /\ manager' = "flip"
    /\ UNCHANGED <<now, gen_idx, gen_timeout, request, session>>

crypt_timeout_manager_flip ==
    /\ manager = "flip" /\ ManagerRuns
    /\ gen_idx' = 1 - gen_idx
    /\ manager' = "rearm"
    /\ UNCHANGED <<now, key_gen, gen_timeout, request, session>>

crypt_timeout_manager_rearm ==
    /\ manager = "rearm" /\ ManagerRuns
    /\ gen_timeout' = now + CRYPT_TIMEOUT
    /\ manager' = "sleep"
    /\ UNCHANGED <<now, gen_idx, key_gen, request, session>>

-----------------------------------------------------------------------------
(* The key request of crypt_server_decode *)

(* A client asks for a key to open a tunnel, or because its session timed
   out; the session identifier gets the index of the current generator. *)
crypt_server_decode_id(c) ==
    /\ request[c].pc = "idle"
    /\ session[c].open => session[c].timeout < now
    /\ request' = [request EXCEPT ![c] =
                     [pc |-> "id", idx |-> gen_idx, key |-> 0, timeout |-> 0, at |-> now]]
    /\ UNCHANGED <<now, gen_idx, key_gen, gen_timeout, manager, session>>

(* Mutant: the timeout is not kept above the minimum. *)
SessionTimeout_NoMinimum(r, q) ==
    Wrap((gen_timeout - now) + r)

(* r and q are what the two remainders of randtime come to. *)
SessionTimeout(r, q) ==
    LET timeout == Wrap((gen_timeout - now) + CRYPT_TIMEOUT_BUFF + r)
    IN IF timeout <= CRYPT_MIN_TIMEOUT + CRYPT_TIMEOUT_BUFF
       THEN CRYPT_MIN_TIMEOUT + CRYPT_TIMEOUT_BUFF + q
       ELSE timeout

(* Then the timeout is computed and the key is generated. *)
crypt_server_decode_key(c) ==
    /\ request[c].pc = "id"
    /\ \E r \in 0 .. CRYPT_TIMEOUT - 2 * CRYPT_TIMEOUT_BUFF - 1,
          q \in 0 .. CRYPT_TIMEOUT - CRYPT_MIN_TIMEOUT - 2 * CRYPT_TIMEOUT_BUFF - 1 :
         request' = [request EXCEPT ![c] =
                       [pc |-> "reply", idx |-> request[c].idx,
                        key |-> key_gen[request[c].idx],
                        timeout |-> SessionTimeout(r, q), at |-> now]]
    /\ UNCHANGED <<now, gen_idx, key_gen, gen_timeout, manager, session>>

(* The client checks the timeout and installs the key. *)
crypt_handshake_reply(c) ==
    /\ request[c].pc = "reply"
    /\ request[c].timeout \in CRYPT_MIN_TIMEOUT .. CRYPT_MAX_TIMEOUT
    /\ session' = [session EXCEPT ![c] =
                     [open |-> TRUE, idx |-> request[c].idx, key |-> request[c].key,
                      timeout |-> now + request[c].timeout]]
    /\ request' = [request EXCEPT ![c] = NoRequest]
    /\ UNCHANGED <<now, gen_idx, key_gen, gen_timeout, manager>>

(* The reply is lost, or its timeout is refused. *)
reply_lost(c) ==
    /\ request[c].pc = "reply"
    /\ request' = [request EXCEPT ![c] = NoRequest]
    /\ UNCHANGED <<now, gen_idx, key_gen, gen_timeout, manager, session>>

(* The user deletes the tunnel, or reconnecting failed. *)
crypt_free(c) ==
    /\ session[c].open
    /\ session' = [session EXCEPT ![c] = NoSession]
    /\ UNCHANGED <<now, gen_idx, key_gen, gen_timeout, manager, request>>

-----------------------------------------------------------------------------
Next ==
    \/ Tick
    \/ crypt_timeout_manager_clobber
    \/ crypt_timeout_manager_flip
    \/ crypt_timeout_manager_rearm
    \/ \E c \in Client :
         \/ crypt_server_decode_id(c)
         \/ crypt_server_decode_key(c)
         \/ crypt_handshake_reply(c)
         \/ reply_lost(c)
         \/ crypt_free(c)

Spec == Init /\ [][Next]_vars

(* The server decrypts a packet of client c: the key it derives from the
   session identifier is the one the client has. *)
Decrypts(c) == session[c].key = key_gen[session[c].idx]

-----------------------------------------------------------------------------
(* Every variable has its type. *)
TypeOK ==
    /\ now \in Nat
    /\ gen_idx \in {0, 1}
    /\ key_gen \in [{0, 1} -> Nat]
    /\ gen_timeout \in Nat
    /\ manager \in {"sleep", "flip", "rearm"}
    /\ request \in [Client -> [pc : {"idle", "id", "reply"}, idx : {0, 1},
                               key : Nat, timeout : Nat, at : Nat]]
    /\ session \in [Client -> [open : BOOLEAN, idx : {0, 1}, key : Nat,
                               timeout : Nat]]

(* "At this point no client should be using the old state": when the manager
   replaces a generator no client still has a key of it, so the server
   decrypts what every open session sends. *)
NoStaleKey == \A c \in Client : session[c].open => Decrypts(c)

(* Every timeout the server computes is one the client accepts: the sum does
   not wrap round and is neither too short nor too long, also when the manager
   is late. *)
TimeoutAccepted ==
    \A c \in Client : request[c].pc = "reply" =>
      request[c].timeout \in CRYPT_MIN_TIMEOUT .. CRYPT_MAX_TIMEOUT

=============================================================================
