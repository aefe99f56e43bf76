---------------------------- MODULE ServerProofs ----------------------------
(***************************************************************************)
(* Proofs about the server: what its listen threads send, the quota of     *)
(* key requests and the rotation of the key generators.  They hold for     *)
(* every number of threads, clients, encodings and counters and for all    *)
(* times and rates.                                                        *)
(***************************************************************************)
EXTENDS Server, TLAPS

-----------------------------------------------------------------------------
(* The key generators *)

(* No generator is replaced before its horizon. *)
Horizon(i) ==
    IF manager = "rearm"
    THEN IF i = gen_idx THEN now + 2 * CRYPT_TIMEOUT ELSE now + CRYPT_TIMEOUT
    ELSE IF i = gen_idx
         THEN (IF now < gen_timeout THEN gen_timeout ELSE now) + CRYPT_TIMEOUT
         ELSE IF manager = "sleep" THEN gen_timeout ELSE now

(* The manager is at most Oversleep late. *)
Clock ==
    /\ now <= gen_timeout + Oversleep
    /\ gen_timeout <= now + CRYPT_TIMEOUT
    /\ manager # "sleep" => gen_timeout <= now

(* A request being served has the index of the current generator. *)
RequestCurrent == \A c \in Client : request[c].pc = "id" => request[c].idx = gen_idx

(* A reply the client will accept leads to a session that ends in time. *)
ReplyInTime == \A c \in Client : request[c].pc = "reply" =>
    /\ now <= request[c].at + Delay
    /\ request[c].timeout <= CRYPT_MAX_TIMEOUT =>
         /\ request[c].key = key_gen[request[c].idx]
         /\ request[c].at + request[c].timeout + Delay + Linger < Horizon(request[c].idx)

(* A session ends before its generator is replaced. *)
SessionInTime == \A c \in Client : session[c].open =>
    /\ now <= session[c].timeout + Linger
    /\ session[c].key = key_gen[session[c].idx]
    /\ session[c].timeout + Linger < Horizon(session[c].idx)

BaseInv == TypeOK /\ Clock

Inv == BaseInv /\ RequestCurrent /\ ReplyInTime /\ SessionInTime

USE TimingAssumption

(* The timeout computed for a client is a natural number, whatever the two
   remainders of randtime in crypt_server_decode. *)
LEMMA TimeoutNat ==
    ASSUME BaseInv, NEW r \in Nat, NEW q \in Nat
    PROVE  SessionTimeout(r, q) \in Nat
BY DEF BaseInv, TypeOK, Clock, SessionTimeout, Wrap

(* The initial state of the server has the types and the clock relation. *)
LEMMA BaseInit == Init => BaseInv
BY DEF Init, BaseInv, TypeOK, Clock, NoRequest, NoSession

(* No step of the manager, of a request or of a client breaks them. *)
LEMMA BaseStep == BaseInv /\ [Next]_vars => BaseInv'
<1> SUFFICES ASSUME BaseInv, [Next]_vars PROVE BaseInv'
  BY Zenon
<1>1. CASE Tick
  BY <1>1 DEF Tick, BaseInv, TypeOK, Clock
<1>2. CASE crypt_timeout_manager_clobber
  BY <1>2 DEF crypt_timeout_manager_clobber, BaseInv, TypeOK, Clock
<1>3. CASE crypt_timeout_manager_flip
  BY <1>3 DEF crypt_timeout_manager_flip, BaseInv, TypeOK, Clock
<1>4. CASE crypt_timeout_manager_rearm
  BY <1>4 DEF crypt_timeout_manager_rearm, BaseInv, TypeOK, Clock
<1>5. ASSUME NEW c \in Client, crypt_server_decode_id(c) PROVE BaseInv'
  BY <1>5, Zenon DEF crypt_server_decode_id, BaseInv, TypeOK, Clock
<1>6. ASSUME NEW c \in Client, crypt_server_decode_key(c) PROVE BaseInv'
  <2>1. PICK r \in 0 .. CRYPT_TIMEOUT - 2 * CRYPT_TIMEOUT_BUFF - 1,
             q \in 0 .. CRYPT_TIMEOUT - CRYPT_MIN_TIMEOUT - 2 * CRYPT_TIMEOUT_BUFF - 1 :
          request' = [request EXCEPT ![c] =
             [pc |-> "reply", idx |-> request[c].idx, key |-> key_gen[request[c].idx],
              timeout |-> SessionTimeout(r, q), at |-> now]]
    BY <1>6, Zenon DEF crypt_server_decode_key
  <2>2. SessionTimeout(r, q) \in Nat
    BY TimeoutNat
  <2>3. QED
    BY <1>6, <2>1, <2>2, Zenon DEF crypt_server_decode_key, BaseInv, TypeOK, Clock
<1>7. ASSUME NEW c \in Client, crypt_handshake_reply(c) PROVE BaseInv'
  BY <1>7 DEF crypt_handshake_reply, BaseInv, TypeOK, Clock, NoRequest
<1>8. ASSUME NEW c \in Client, reply_lost(c) PROVE BaseInv'
  BY <1>8, Zenon DEF reply_lost, BaseInv, TypeOK, Clock, NoRequest
<1>9. ASSUME NEW c \in Client, crypt_free(c) PROVE BaseInv'
  BY <1>9, Zenon DEF crypt_free, BaseInv, TypeOK, Clock, NoSession
<1>10. CASE UNCHANGED vars
  BY <1>10, Zenon DEF vars, BaseInv, TypeOK, Clock
<1>11. QED
  BY <1>1, <1>2, <1>3, <1>4, <1>5, <1>6, <1>7, <1>8, <1>9, <1>10, Zenon DEF Next

(* The variables of the server and of the clients keep their types. *)
THEOREM RotationTypeCorrect == Spec => []TypeOK
<1>1. BaseInv => TypeOK
  BY Zenon DEF BaseInv
<1>2. QED
  BY BaseInit, BaseStep, <1>1, PTL DEF Spec

-----------------------------------------------------------------------------
(* Timeouts the client accepts *)

(* The server may be late by no more than the margin: then no timeout that
   crypt_server_decode computes wraps round, is too short or is too long. *)
LEMMA TimeoutBounds ==
    ASSUME Oversleep <= CRYPT_TIMEOUT_BUFF, BaseInv,
           NEW r \in 0 .. CRYPT_TIMEOUT - 2 * CRYPT_TIMEOUT_BUFF - 1,
           NEW q \in 0 .. CRYPT_TIMEOUT - CRYPT_MIN_TIMEOUT - 2 * CRYPT_TIMEOUT_BUFF - 1
    PROVE  SessionTimeout(r, q) \in CRYPT_MIN_TIMEOUT .. CRYPT_MAX_TIMEOUT
BY DEF BaseInv, TypeOK, Clock, SessionTimeout, Wrap

(* A manager that is late by at most the margin never makes the server send a
   timeout that crypt_handshake_reply refuses, even when it runs in the middle
   of the request. *)
THEOREM TimeoutsAccepted ==
    ASSUME Oversleep <= CRYPT_TIMEOUT_BUFF
    PROVE  Spec => []TimeoutAccepted
<1>1. Init => TimeoutAccepted
  BY DEF Init, TimeoutAccepted, NoRequest
<1>2. TimeoutAccepted /\ BaseInv /\ [Next]_vars => TimeoutAccepted'
  <2> SUFFICES ASSUME TimeoutAccepted, BaseInv, [Next]_vars PROVE TimeoutAccepted'
    BY Zenon
  <2> USE DEF TimeoutAccepted
  <2>1. CASE UNCHANGED request
    BY <2>1, Zenon
  <2>2. ASSUME NEW c \in Client, crypt_server_decode_key(c) PROVE TimeoutAccepted'
    <3>1. PICK r \in 0 .. CRYPT_TIMEOUT - 2 * CRYPT_TIMEOUT_BUFF - 1,
               q \in 0 .. CRYPT_TIMEOUT - CRYPT_MIN_TIMEOUT - 2 * CRYPT_TIMEOUT_BUFF - 1 :
            request' = [request EXCEPT ![c] =
               [pc |-> "reply", idx |-> request[c].idx, key |-> key_gen[request[c].idx],
                timeout |-> SessionTimeout(r, q), at |-> now]]
      BY <2>2, Zenon DEF crypt_server_decode_key
    <3>2. SessionTimeout(r, q) \in CRYPT_MIN_TIMEOUT .. CRYPT_MAX_TIMEOUT
      BY TimeoutBounds, Zenon
    <3>3. QED
      BY <3>1, <3>2, Zenon DEF BaseInv, TypeOK
  <2>3. ASSUME NEW c \in Client, crypt_server_decode_id(c) PROVE TimeoutAccepted'
    BY <2>3, Zenon DEF crypt_server_decode_id, BaseInv, TypeOK
  <2>4. ASSUME NEW c \in Client, crypt_handshake_reply(c) \/ reply_lost(c)
        PROVE  TimeoutAccepted'
    <3>1. request' = [request EXCEPT ![c] = NoRequest]
      BY <2>4, Zenon DEF crypt_handshake_reply, reply_lost
    <3>2. QED
      BY <3>1, Zenon DEF NoRequest, BaseInv, TypeOK
  <2>5. CASE Tick \/ crypt_timeout_manager_clobber \/ crypt_timeout_manager_flip
             \/ crypt_timeout_manager_rearm
    BY <2>1, <2>5, Zenon DEF Tick, crypt_timeout_manager_clobber, crypt_timeout_manager_flip,
      crypt_timeout_manager_rearm
  <2>6. ASSUME NEW c \in Client, crypt_free(c) PROVE TimeoutAccepted'
    BY <2>1, <2>6, Zenon DEF crypt_free
  <2>7. CASE UNCHANGED vars
    BY <2>1, <2>7, Zenon DEF vars
  <2>8. QED
    BY <2>2, <2>3, <2>4, <2>5, <2>6, <2>7, Zenon DEF Next
<1>3. QED
  BY BaseInit, BaseStep, <1>1, <1>2, PTL DEF Spec

-----------------------------------------------------------------------------
(* Keys the server still has *)

(* Before any request there is nothing to keep in time. *)
LEMMA RotationInit == Init => Inv
BY BaseInit DEF Init, Inv, RequestCurrent, ReplyInTime, SessionInTime, NoRequest, NoSession

(* Time passes without bringing a generator's horizon nearer. *)
LEMMA RotationTick ==
    ASSUME Inv, Tick PROVE RequestCurrent' /\ ReplyInTime' /\ SessionInTime'
<1> USE DEF Inv, BaseInv, TypeOK, Clock
<1>1. RequestCurrent'
  BY Zenon DEF Tick, RequestCurrent
<1>2. \A i \in {0, 1} : Horizon(i) \in Nat /\ Horizon(i)' \in Nat /\ Horizon(i) <= Horizon(i)'
  BY DEF Tick, Horizon
<1>3. ReplyInTime'
  BY <1>2 DEF Tick, ReplyInTime
<1>4. SessionInTime'
  BY <1>2 DEF Tick, SessionInTime
<1>5. QED
  BY <1>1, <1>3, <1>4, Zenon

(* The manager replaces a generator only when its horizon has passed, and so
   when no request or session needs it. *)
LEMMA RotationManager ==
    ASSUME ~Straddle, Inv,
           \/ crypt_timeout_manager_clobber
           \/ crypt_timeout_manager_flip
           \/ crypt_timeout_manager_rearm
    PROVE  RequestCurrent' /\ ReplyInTime' /\ SessionInTime'
<1> USE DEF Inv, BaseInv, TypeOK, Clock
<1>1. RequestCurrent'
  BY Zenon DEF crypt_timeout_manager_clobber, crypt_timeout_manager_flip,
    crypt_timeout_manager_rearm, ManagerRuns, RequestCurrent
<1>2. CASE crypt_timeout_manager_clobber
  <2>1. \A i \in {0, 1} : Horizon(i) \in Nat /\ (i # gen_idx => Horizon(i) <= now)
    BY <1>2 DEF crypt_timeout_manager_clobber, Horizon
  <2>2. \A c \in Client : request[c].pc = "reply" /\ request[c].timeout <= CRYPT_MAX_TIMEOUT
          => request[c].idx = gen_idx
    <3> SUFFICES ASSUME NEW c \in Client, request[c].pc = "reply",
                        request[c].timeout <= CRYPT_MAX_TIMEOUT, request[c].idx # gen_idx
                 PROVE  FALSE
      BY Zenon
    <3>1. Horizon(request[c].idx) \in Nat /\ Horizon(request[c].idx) <= now
      BY <2>1, Zenon
    <3>2. /\ now <= request[c].at + Delay
          /\ request[c].at + request[c].timeout + Delay + Linger < Horizon(request[c].idx)
      BY Zenon DEF ReplyInTime
    <3>3. request[c].at \in Nat /\ request[c].timeout \in Nat
      BY Zenon
    <3>4. QED
      BY <3>1, <3>2, <3>3
  <2>3. \A c \in Client : session[c].open => session[c].idx = gen_idx
    <3> SUFFICES ASSUME NEW c \in Client, session[c].open, session[c].idx # gen_idx
                 PROVE  FALSE
      BY Zenon
    <3>1. Horizon(session[c].idx) \in Nat /\ Horizon(session[c].idx) <= now
      BY <2>1, Zenon
    <3>2. /\ now <= session[c].timeout + Linger
          /\ session[c].timeout + Linger < Horizon(session[c].idx)
      BY Zenon DEF SessionInTime
    <3>3. session[c].timeout \in Nat
      BY Zenon
    <3>4. QED
      BY <3>1, <3>2, <3>3
  <2>4. /\ gen_idx' = gen_idx /\ now' = now /\ key_gen'[gen_idx] = key_gen[gen_idx]
        /\ request' = request /\ session' = session
    BY <1>2 DEF crypt_timeout_manager_clobber
  <2>5. \A i \in {0, 1} : i = gen_idx => Horizon(i)' = Horizon(i)
    BY <1>2, <2>4, Zenon DEF Horizon, crypt_timeout_manager_clobber
  <2>6. ReplyInTime'
    BY <2>2, <2>4, <2>5, Zenon DEF ReplyInTime
  <2>7. SessionInTime'
    BY <2>3, <2>4, <2>5 DEF SessionInTime
  <2>8. QED
    BY <1>1, <2>6, <2>7, Zenon
<1>3. CASE crypt_timeout_manager_flip \/ crypt_timeout_manager_rearm
  <2>1. \A i \in {0, 1} : Horizon(i) \in Nat /\ Horizon(i)' \in Nat /\ Horizon(i) <= Horizon(i)'
    BY <1>3 DEF crypt_timeout_manager_flip, crypt_timeout_manager_rearm, Horizon
  <2>2. ReplyInTime'
    BY <1>3, <2>1 DEF crypt_timeout_manager_flip, crypt_timeout_manager_rearm, ReplyInTime
  <2>3. SessionInTime'
    BY <1>3, <2>1 DEF crypt_timeout_manager_flip, crypt_timeout_manager_rearm, SessionInTime
  <2>4. QED
    BY <1>1, <2>2, <2>3
<1>4. QED
  BY <1>2, <1>3, Zenon

(* What the server promises with a key lies before the horizon of its
   generator, even when the manager is late. *)
LEMMA TimeoutInTime ==
    ASSUME Delay + Linger <= CRYPT_TIMEOUT_BUFF, BaseInv,
           NEW r \in 0 .. CRYPT_TIMEOUT - 2 * CRYPT_TIMEOUT_BUFF - 1,
           NEW q \in 0 .. CRYPT_TIMEOUT - CRYPT_MIN_TIMEOUT - 2 * CRYPT_TIMEOUT_BUFF - 1,
           SessionTimeout(r, q) <= CRYPT_MAX_TIMEOUT
    PROVE  now + SessionTimeout(r, q) + Delay + Linger < Horizon(gen_idx)
BY DEF BaseInv, TypeOK, Clock, SessionTimeout, Wrap, Horizon

(* A step of a request or of a client keeps the promise of every key. *)
LEMMA RotationClient ==
    ASSUME Delay + Linger <= CRYPT_TIMEOUT_BUFF, Inv, NEW c \in Client,
           \/ crypt_server_decode_id(c)
           \/ crypt_server_decode_key(c)
           \/ crypt_handshake_reply(c)
           \/ reply_lost(c)
           \/ crypt_free(c)
    PROVE  RequestCurrent' /\ ReplyInTime' /\ SessionInTime'
<1> USE DEF Inv, BaseInv, TypeOK, Clock
<1>1. \A i \in {0, 1} : Horizon(i)' = Horizon(i) /\ Horizon(i) \in Nat
  BY DEF Horizon, crypt_server_decode_id, crypt_server_decode_key,
    crypt_handshake_reply, reply_lost, crypt_free
<1>2. CASE crypt_server_decode_id(c)
  BY <1>1, <1>2 DEF crypt_server_decode_id, RequestCurrent, ReplyInTime, SessionInTime
<1>3. CASE crypt_server_decode_key(c)
  <2>1. PICK r \in 0 .. CRYPT_TIMEOUT - 2 * CRYPT_TIMEOUT_BUFF - 1,
             q \in 0 .. CRYPT_TIMEOUT - CRYPT_MIN_TIMEOUT - 2 * CRYPT_TIMEOUT_BUFF - 1 :
          request' = [request EXCEPT ![c] =
             [pc |-> "reply", idx |-> request[c].idx, key |-> key_gen[request[c].idx],
              timeout |-> SessionTimeout(r, q), at |-> now]]
    BY <1>3, Zenon DEF crypt_server_decode_key
  <2>2. request[c].idx = gen_idx
    BY <1>3, Zenon DEF crypt_server_decode_key, RequestCurrent
  <2>3. SessionTimeout(r, q) <= CRYPT_MAX_TIMEOUT =>
          now + SessionTimeout(r, q) + Delay + Linger < Horizon(gen_idx)
    BY TimeoutInTime, Zenon
  <2>4. RequestCurrent' /\ SessionInTime'
    BY <1>1, <1>3, <2>1 DEF crypt_server_decode_key, RequestCurrent, SessionInTime
  <2>5. ReplyInTime'
    BY <1>1, <1>3, <2>1, <2>2, <2>3 DEF crypt_server_decode_key, ReplyInTime
  <2>6. QED
    BY <2>4, <2>5, Zenon
<1>4. CASE crypt_handshake_reply(c)
  <2>1. RequestCurrent' /\ ReplyInTime'
    BY <1>1, <1>4 DEF crypt_handshake_reply, RequestCurrent, ReplyInTime, NoRequest
  <2>2. SessionInTime'
    BY <1>1, <1>4 DEF crypt_handshake_reply, ReplyInTime, SessionInTime
  <2>3. QED
    BY <2>1, <2>2, Zenon
<1>5. CASE reply_lost(c)
  BY <1>1, <1>5 DEF reply_lost, RequestCurrent, ReplyInTime, SessionInTime, NoRequest
<1>6. CASE crypt_free(c)
  BY <1>1, <1>6 DEF crypt_free, RequestCurrent, ReplyInTime, SessionInTime, NoSession
<1>7. QED
  BY <1>2, <1>3, <1>4, <1>5, <1>6, Zenon

(* A server whose manager does not run in the middle of a request, with
   clients that install a key and reconnect within the margin, decrypts what
   every open session sends: the generator crypt_timeout_manager replaces is
   one no client uses.  No bound on the manager's lateness is needed. *)
THEOREM RotationSafe ==
    ASSUME ~Straddle, Delay + Linger <= CRYPT_TIMEOUT_BUFF
    PROVE  Spec => []NoStaleKey
<1>1. Inv /\ [Next]_vars => Inv'
  <2> SUFFICES ASSUME Inv, [Next]_vars PROVE Inv'
    BY Zenon
  <2>1. BaseInv'
    BY BaseStep, Zenon DEF Inv
  <2>2. CASE UNCHANGED vars
    BY <2>1, <2>2, Zenon DEF vars, Inv, RequestCurrent, ReplyInTime, SessionInTime, Horizon
  <2>3. QED
    BY <2>1, <2>2, RotationTick, RotationManager, RotationClient, Zenon DEF Next, Inv
<1>2. Inv => NoStaleKey
  BY Zenon DEF Inv, SessionInTime, NoStaleKey, Decrypts
<1>3. QED
  BY RotationInit, <1>1, <1>2, PTL DEF Spec

HIDE TimingAssumption

-----------------------------------------------------------------------------
(* The listen threads *)

Listen ==
    [pc : {"recv", "decode", "reply", "handle", "encode"}, packet : Loop!Packet \cup {None},
     reply : Int, ptr : Int, layers : 0 .. NumEncodings]

Answer == [to : Client, key : Client \cup {None}, seq : Nat \cup {None}, thread : Thread]

(* The types of what the threads hold and of what was sent *)
LoopTypeOK ==
    /\ thread \in [Thread -> Listen]
    /\ key \in [Thread \cup {None} -> Client \cup {None}]
    /\ seq \in Nat
    /\ sent \subseteq Answer

(* While a thread handles and answers a packet, its copy of the crypt state has the key of
   the client that sent it. *)
KeyHeld ==
    \A h \in Thread :
        /\ thread[h].pc # "recv" => thread[h].packet \in Loop!Packet
        /\ thread[h].pc \in {"handle", "encode"} => key[h] = thread[h].packet.from

(* The numbers that were used are below the counter. *)
SeqBelow == \A p \in sent : p.seq # None => p.seq < seq

LoopInv == LoopTypeOK /\ KeyHeld /\ SeqBelow /\ Loop!ReplyUnderOwnKey /\ Loop!SeqOnce

(* The threads start with an empty packet and nothing sent. *)
LEMMA LoopInit == Loop!Init => LoopInv
<1> SUFFICES ASSUME Loop!Init PROVE LoopInv
  BY Zenon
<1> USE LoopAssumption DEF Loop!Init, Loop!listen_s, Loop!Place, Loop!overhead, Loop!Header
<1>1. LoopTypeOK
  BY DEF LoopTypeOK, Listen
<1>2. KeyHeld /\ SeqBelow /\ Loop!ReplyUnderOwnKey /\ Loop!SeqOnce
  BY Zenon DEF KeyHeld, SeqBelow, Loop!ReplyUnderOwnKey, Loop!SeqOnce
<1>3. QED
  BY <1>1, <1>2, Zenon DEF LoopInv

(* No step of a thread breaks the types. *)
LEMMA LoopTypes == ASSUME LoopTypeOK, KeyHeld, Loop!Next PROVE LoopTypeOK'
<1> USE LoopAssumption
<1>0. PICK h \in Thread : Loop!Loop(h)
  BY Zenon DEF Loop!Next
<1>a. thread \in [Thread -> Listen] /\ thread[h] \in Listen
  BY Zenon DEF LoopTypeOK
<1>b. /\ key \in [Thread \cup {None} -> Client \cup {None}] /\ key[h] \in Client \cup {None}
      /\ seq \in Nat /\ sent \subseteq Answer
  BY Zenon DEF LoopTypeOK
<1>c. thread[h].pc # "recv" => thread[h].packet \in Loop!Packet /\ thread[h].packet.from \in Client
  BY Zenon DEF KeyHeld, Loop!Packet
<1> DEFINE TypeOK1 == thread' \in [Thread -> Listen]
           TypeOK2 == /\ key' \in [Thread \cup {None} -> Client \cup {None}]
                      /\ seq' \in Nat /\ sent' \subseteq Answer
<1> SUFFICES TypeOK1 /\ TypeOK2
  BY Zenon DEF LoopTypeOK
<1>1. CASE Loop!cktp_listen_loop_recv(h)
  <2>1. PICK p \in Loop!Packet :
          thread' = [thread EXCEPT ![h] = [thread[h] EXCEPT !.pc = "decode", !.packet = p]]
    BY <1>1, Zenon DEF Loop!cktp_listen_loop_recv
  <2>2. [thread[h] EXCEPT !.pc = "decode", !.packet = p] \in Listen
    BY <1>a, Zenon DEF Listen
  <2>3. QED
    BY <1>1, <1>a, <1>b, <2>1, <2>2, Zenon DEF Loop!cktp_listen_loop_recv
<1>2. CASE Loop!cktp_decode_packet(h)
  BY <1>2, <1>a, <1>b, <1>c, Zenon DEF Loop!cktp_decode_packet, Loop!cktp_clone_tunnel, Listen
<1>3. CASE Loop!cktp_listen_loop_reply(h)
  <2>1. Loop!HandshakeReplyAt(thread[h]) \in Int
    BY <1>a DEF Loop!HandshakeReplyAt, Loop!Header, Listen
  <2>2. TypeOK1
    BY <1>3, <1>a, <2>1, Zenon DEF Loop!cktp_listen_loop_reply, Listen
  <2>3. TypeOK2
    BY <1>3, <1>b, <1>c DEF Loop!cktp_listen_loop_reply, Loop!Sent, Answer
  <2>4. QED
    BY <2>2, <2>3, Zenon
<1>4. CASE Loop!cktp_listen_loop_ipv4(h)
  BY <1>4, <1>a, <1>b, Zenon DEF Loop!cktp_listen_loop_ipv4, Listen
<1>5. CASE Loop!cktp_reflect(h)
  <2>1. TypeOK1
    BY <1>5, <1>a, Zenon DEF Loop!cktp_reflect, Listen
  <2>2. TypeOK2
    BY <1>5, <1>b, <1>c DEF Loop!cktp_reflect, Loop!Sent, Answer
  <2>3. QED
    BY <2>1, <2>2
<1>6. CASE Loop!cktp_listen_loop_request(h)
  <2>1. [thread[h] EXCEPT !.pc = "encode", !.ptr = thread[h].reply, !.layers = NumEncodings]
          \in Listen
    <3>1. thread[h].reply \in Int /\ NumEncodings \in 0 .. NumEncodings
      BY <1>a DEF Listen
    <3>2. QED
      BY <1>a, <3>1, Zenon DEF Listen
  <2>2. QED
    BY <1>6, <1>a, <1>b, <2>1, Zenon DEF Loop!cktp_listen_loop_request
<1>7. CASE Loop!cktp_encode_packet(h)
  <2> DEFINE n == thread[h].layers - 1
             ptr == thread[h].ptr - 1
  <2>0. n \in 0 .. NumEncodings /\ ptr \in Int
    BY <1>7, <1>a DEF Loop!cktp_encode_packet, Listen
  <2>a. thread' = [thread EXCEPT ![h] = [thread[h] EXCEPT !.layers = n, !.ptr = ptr]]
    BY <1>7, Zenon DEF Loop!cktp_encode_packet
  <2> HIDE DEF n, ptr
  <2>b. [thread[h] EXCEPT !.layers = n, !.ptr = ptr] \in Listen
    BY <1>a, <2>0, Zenon DEF Listen
  <2>1. TypeOK1
    BY <1>a, <2>a, <2>b, Zenon
  <2>2. TypeOK2
    BY <1>7, <1>b, <1>c DEF Loop!cktp_encode_packet, Loop!cktp_clone_tunnel, Loop!crypt_next_seq,
       Loop!Sent, Answer
  <2>3. QED
    BY <2>1, <2>2
<1>8. CASE Loop!cktp_add_transport_header(h)
  <2> DEFINE ptr == thread[h].ptr - Loop!Header
  <2>1. ptr \in Int
    BY <1>a DEF Listen, Loop!Header
  <2>2. thread' = [thread EXCEPT ![h] = [thread[h] EXCEPT !.pc = "recv", !.ptr = ptr]]
    BY <1>8, Zenon DEF Loop!cktp_add_transport_header
  <2> HIDE DEF ptr
  <2>3. [thread[h] EXCEPT !.pc = "recv", !.ptr = ptr] \in Listen
    BY <1>a, <2>1, Zenon DEF Listen
  <2>4. QED
    BY <1>8, <1>a, <1>b, <2>2, <2>3, Zenon DEF Loop!cktp_add_transport_header
<1>9. QED
  BY <1>0, <1>1, <1>2, <1>3, <1>4, <1>5, <1>6, <1>7, <1>8, Zenon DEF Loop!Loop

(* No step of a thread, nor of another thread, changes the key a reply needs. *)
LEMMA LoopKeys == ASSUME LoopTypeOK, KeyHeld, Loop!Next PROVE KeyHeld'
<1>0. PICK h \in Thread : Loop!Loop(h)
  BY Zenon DEF Loop!Next
<1>a. thread \in [Thread -> Listen] /\ key \in [Thread \cup {None} -> Client \cup {None}]
  BY Zenon DEF LoopTypeOK
<1> SUFFICES ASSUME NEW x \in Thread
             PROVE  /\ thread'[x].pc # "recv" => thread'[x].packet \in Loop!Packet
                    /\ thread'[x].pc \in {"handle", "encode"} => key'[x] = thread'[x].packet.from
  BY Zenon DEF KeyHeld
<1>b. /\ thread[x].pc # "recv" => thread[x].packet \in Loop!Packet
      /\ thread[x].pc \in {"handle", "encode"} => key[x] = thread[x].packet.from
  BY Zenon DEF KeyHeld
<1>1. CASE Loop!cktp_listen_loop_recv(h)
  <2>1. PICK p \in Loop!Packet :
          thread' = [thread EXCEPT ![h] = [thread[h] EXCEPT !.pc = "decode", !.packet = p]]
    BY <1>1, Zenon DEF Loop!cktp_listen_loop_recv
  <2>2. key' = key
    BY <1>1, Zenon DEF Loop!cktp_listen_loop_recv
  <2>3. QED
    BY <1>a, <1>b, <2>1, <2>2 DEF Listen
<1>2. CASE Loop!cktp_decode_packet(h)
  BY <1>2, <1>a, <1>b, Zenon DEF Loop!cktp_decode_packet, Loop!cktp_clone_tunnel, Listen
<1>3. CASE Loop!cktp_listen_loop_reply(h)
  BY <1>3, <1>a, <1>b, Zenon DEF Loop!cktp_listen_loop_reply, Listen
<1>4. CASE Loop!cktp_listen_loop_ipv4(h)
  BY <1>4, <1>a, <1>b, Zenon DEF Loop!cktp_listen_loop_ipv4, Listen
<1>5. CASE Loop!cktp_reflect(h)
  BY <1>5, <1>a, <1>b, Zenon DEF Loop!cktp_reflect, Listen
<1>6. CASE Loop!cktp_listen_loop_request(h)
  BY <1>6, <1>a, <1>b, Zenon DEF Loop!cktp_listen_loop_request, Listen
<1>7. CASE Loop!cktp_encode_packet(h)
  BY <1>7, <1>a, <1>b DEF Loop!cktp_encode_packet, Listen
<1>8. CASE Loop!cktp_add_transport_header(h)
  BY <1>8, <1>a, <1>b DEF Loop!cktp_add_transport_header, Listen
<1>9. QED
  BY <1>0, <1>1, <1>2, <1>3, <1>4, <1>5, <1>6, <1>7, <1>8, Zenon DEF Loop!Loop

(* What is sent is under the key of its client, and carries a number of its own. *)
LEMMA LoopSent ==
    ASSUME LoopInv, Loop!Next
    PROVE  SeqBelow' /\ Loop!ReplyUnderOwnKey' /\ Loop!SeqOnce'
<1> USE LoopAssumption
<1> DEFINE Goal == SeqBelow' /\ Loop!ReplyUnderOwnKey' /\ Loop!SeqOnce'
<1>0. PICK h \in Thread : Loop!Loop(h)
  BY Zenon DEF Loop!Next
<1>a. LoopTypeOK /\ KeyHeld /\ SeqBelow /\ Loop!ReplyUnderOwnKey /\ Loop!SeqOnce
  BY Zenon DEF LoopInv
<1>b. seq \in Nat /\ sent \subseteq Answer
  BY <1>a, Zenon DEF LoopTypeOK
<1>1. CASE UNCHANGED <<sent, seq>>
  BY <1>1, <1>a, Zenon DEF SeqBelow, Loop!ReplyUnderOwnKey, Loop!SeqOnce
<1>2. ASSUME NEW p, p.key = None, p.seq = None, sent' = sent \cup {p}, seq' = seq
      PROVE  Goal
  BY <1>2, <1>a, Zenon DEF SeqBelow, Loop!ReplyUnderOwnKey, Loop!SeqOnce
<1>3. ASSUME NEW p, p.key = p.to, p.seq = seq, sent' = sent \cup {p}, seq' = seq + 1
      PROVE  Goal
  <2>1. \A q \in sent : q.seq # None => q.seq \in Nat /\ q.seq < seq
    BY <1>a, <1>b, Zenon DEF SeqBelow, Answer
  <2>2. SeqBelow'
    BY <1>3, <1>b, <2>1 DEF SeqBelow
  <2>3. Loop!ReplyUnderOwnKey'
    BY <1>3, <1>a, Zenon DEF Loop!ReplyUnderOwnKey
  <2>4. \A q \in sent : q.seq # seq
    BY <1>b, <2>1
  <2>5. Loop!SeqOnce'
    BY <1>3, <1>a, <2>4, Zenon DEF Loop!SeqOnce
  <2>6. QED
    BY <2>2, <2>3, <2>5, Zenon
<1>4. CASE Loop!cktp_listen_loop_reply(h) \/ Loop!cktp_reflect(h)
  <2> DEFINE p == Loop!Sent(h, thread[h].packet.from, None, None)
  <2>1. p.key = None /\ p.seq = None
    BY Zenon DEF Loop!Sent
  <2>2. sent' = sent \cup {p} /\ seq' = seq
    BY <1>4, Zenon DEF Loop!cktp_listen_loop_reply, Loop!cktp_reflect
  <2> HIDE DEF p
  <2>3. QED
    BY <1>2, <2>1, <2>2, Zenon
<1>5. CASE Loop!cktp_encode_packet(h)
  <2>1. CASE thread[h].layers = CryptIndex
    <3> DEFINE p == Loop!Sent(h, thread[h].packet.from, key[h], seq)
    <3>1. p.key = p.to /\ p.seq = seq
      BY <1>5, <1>a, Zenon DEF Loop!Sent, Loop!cktp_encode_packet, KeyHeld
    <3>2. sent' = sent \cup {p} /\ seq' = seq + 1
      BY <1>5, <2>1, Zenon DEF Loop!cktp_encode_packet, Loop!cktp_clone_tunnel,
         Loop!crypt_next_seq
    <3> HIDE DEF p
    <3>3. QED
      BY <1>3, <3>1, <3>2, Zenon
  <2>2. CASE thread[h].layers # CryptIndex
    BY <1>1, <1>5, <2>2, Zenon DEF Loop!cktp_encode_packet
  <2>3. QED
    BY <2>1, <2>2, Zenon
<1>6. CASE \/ Loop!cktp_listen_loop_recv(h) \/ Loop!cktp_decode_packet(h)
           \/ Loop!cktp_listen_loop_ipv4(h) \/ Loop!cktp_listen_loop_request(h)
           \/ Loop!cktp_add_transport_header(h)
  <2>1. UNCHANGED <<sent, seq>>
    BY <1>6, Zenon DEF Loop!cktp_listen_loop_recv, Loop!cktp_decode_packet,
       Loop!cktp_listen_loop_ipv4, Loop!cktp_listen_loop_request, Loop!cktp_add_transport_header
  <2>2. QED
    BY <1>1, <2>1, Zenon
<1>7. QED
  BY <1>0, <1>4, <1>5, <1>6, Zenon DEF Loop!Loop

(* A step that changes nothing keeps all of it. *)
LEMMA LoopStep == LoopInv /\ [Loop!Next]_loopVars => LoopInv'
<1> SUFFICES ASSUME LoopInv, [Loop!Next]_loopVars PROVE LoopInv'
  BY Zenon
<1>1. CASE Loop!Next
  BY <1>1, LoopTypes, LoopKeys, LoopSent, Zenon DEF LoopInv
<1>2. CASE UNCHANGED loopVars
  BY <1>2, Zenon DEF loopVars, LoopInv, LoopTypeOK, KeyHeld, SeqBelow, Loop!ReplyUnderOwnKey,
     Loop!SeqOnce
<1>3. QED
  BY <1>1, <1>2, Zenon

(* Every reply of a server is encoded with the key of the client it goes to, for any number
   of clients and listen threads (cktp_clone_tunnel, crypt_server_decode). *)
THEOREM RepliesUnderOwnKey == Loop!Spec => []ReplyUnderOwnKey
<1>1. LoopInv => ReplyUnderOwnKey
  BY Zenon DEF LoopInv, ReplyUnderOwnKey
<1>2. QED
  BY LoopInit, LoopStep, <1>1, PTL DEF Loop!Spec, Loop!vars, loopVars

(* No two packets that a server encrypts carry the same sequence number, for any number of
   listen threads (crypt_next_seq). *)
THEOREM SeqNeverRepeated == Loop!Spec => []SeqOnce
<1>1. LoopInv => SeqOnce
  BY Zenon DEF LoopInv, SeqOnce
<1>2. QED
  BY LoopInit, LoopStep, <1>1, PTL DEF Loop!Spec, Loop!vars, loopVars

(* Where the next reply is built, and where the one that is encoded starts *)
Room ==
    \A h \in Thread :
        /\ thread[h].reply = NumEncodings
        /\ thread[h].ptr >= IF thread[h].pc = "encode" THEN thread[h].layers ELSE 0

(* When crypt is the outermost encoding and the transport has no header of its own, the
   replies to handshakes leave `reply' where it is. *)
LEMMA RoomStep ==
    ASSUME Transport # "ping", CryptIndex = 1, LoopTypeOK, Room, Loop!Next
    PROVE  Room'
<1> USE LoopAssumption
<1>0. PICK h \in Thread : Loop!Loop(h)
  BY Zenon DEF Loop!Next
<1>a. thread \in [Thread -> Listen]
  BY Zenon DEF LoopTypeOK
<1>b. Loop!Header = 0 /\ Loop!overhead = NumEncodings
  BY DEF Loop!Header, Loop!overhead
<1> SUFFICES ASSUME NEW x \in Thread
             PROVE  /\ thread'[x].reply = NumEncodings
                    /\ thread'[x].ptr >= IF thread'[x].pc = "encode" THEN thread'[x].layers ELSE 0
  BY Zenon DEF Room
<1>c. /\ thread[x].reply = NumEncodings
      /\ thread[x].ptr >= IF thread[x].pc = "encode" THEN thread[x].layers ELSE 0
  BY Zenon DEF Room
<1>1. CASE Loop!cktp_listen_loop_recv(h)
  <2>1. PICK p \in Loop!Packet :
          thread' = [thread EXCEPT ![h] = [thread[h] EXCEPT !.pc = "decode", !.packet = p]]
    BY <1>1, Zenon DEF Loop!cktp_listen_loop_recv
  <2>2. QED
    BY <1>a, <1>c, <2>1 DEF Listen
<1>2. CASE Loop!cktp_decode_packet(h)
  BY <1>2, <1>a, <1>c DEF Loop!cktp_decode_packet, Listen
<1>3. CASE Loop!cktp_listen_loop_reply(h)
  BY <1>3, <1>a, <1>b, <1>c DEF Loop!cktp_listen_loop_reply, Loop!HandshakeReplyAt, Listen
<1>4. CASE Loop!cktp_listen_loop_ipv4(h)
  BY <1>4, <1>a, <1>c, Zenon DEF Loop!cktp_listen_loop_ipv4, Listen
<1>5. CASE Loop!cktp_reflect(h)
  BY <1>5, <1>a, <1>c DEF Loop!cktp_reflect, Listen
<1>6. CASE Loop!cktp_listen_loop_request(h)
  BY <1>6, <1>a, <1>c DEF Loop!cktp_listen_loop_request, Listen
<1>7. CASE Loop!cktp_encode_packet(h)
  BY <1>7, <1>a, <1>c DEF Loop!cktp_encode_packet, Listen
<1>8. CASE Loop!cktp_add_transport_header(h)
  BY <1>8, <1>a, <1>b, <1>c DEF Loop!cktp_add_transport_header, Listen
<1>9. QED
  BY <1>0, <1>1, <1>2, <1>3, <1>4, <1>5, <1>6, <1>7, <1>8, Zenon DEF Loop!Loop

(* With crypt outermost and without a header of the transport, no reply is ever written
   outside of its buffer, however many handshakes a thread answers (cktp_server.c:504). *)
THEOREM RepliesInBuffer ==
    ASSUME Transport # "ping", CryptIndex = 1
    PROVE  Loop!Spec => []ReplyInBuffer
<1>1. Loop!Init => Room
  BY LoopAssumption DEF Loop!Init, Loop!listen_s, Loop!Place, Loop!overhead, Loop!Header, Room
<1>2. LoopInv /\ Room /\ [Loop!Next]_loopVars => Room'
  <2> SUFFICES ASSUME LoopInv, Room, [Loop!Next]_loopVars PROVE Room'
    BY Zenon
  <2>1. CASE Loop!Next
    BY <2>1, RoomStep, Zenon DEF LoopInv
  <2>2. CASE UNCHANGED loopVars
    BY <2>2, Zenon DEF loopVars, Room
  <2>3. QED
    BY <2>1, <2>2, Zenon
<1>3. LoopInv /\ Room => ReplyInBuffer
  BY LoopAssumption DEF LoopInv, LoopTypeOK, Listen, Room, ReplyInBuffer, Loop!ReplyInBuffer,
     Loop!overhead, Loop!Header
<1>4. QED
  BY LoopInit, LoopStep, <1>1, <1>2, <1>3, PTL DEF Loop!Spec, Loop!vars, loopVars

-----------------------------------------------------------------------------
(* The quota *)

(* What an address may get at time n between a reset at s and one at r *)
Bound(n, s, r) == ((rps - 1) * (n - s)) \div Sec + (r - s) \div Sec + 2

QuotaPc ==
    {"idle", "check", "resettime", "starttime", "salt", "clear", "hash", "count", "first",
     "difftime", "limit", "read", "write", "yes", "no"}

QuotaLocal ==
    [ip : Client \cup {"none"}, currtime : Nat, hash : Counters \cup {"none"}, count : Nat,
     difftime : Nat]

QuotaTypeOK ==
    /\ q_now \in Nat /\ resettime \in Nat /\ starttime \in Nat
    /\ salt \in [Client -> Counters] /\ counts \in [Counters -> Nat]
    /\ pc \in [{"t"} -> QuotaPc] /\ local \in [{"t"} -> QuotaLocal]
    /\ accepted \in [Client -> Nat]

Called == pc["t"] # "idle"
Hashed == pc["t"] \in {"count", "first", "difftime", "limit", "read", "write"}

(* Before the first reset nothing is accepted, and the first request resets. *)
BeforeReset ==
    stale # {} =>
        /\ \A a \in Client : accepted[a] = 0
        /\ pc["t"] \in {"idle", "check", "resettime", "starttime", "salt", "clear"}
        /\ pc["t"] \in {"idle", "check", "resettime"} => resettime = 0

(* The times of a reset, of a request and of the clock are in order. *)
TimesOrdered ==
    /\ 0 < q_now
    /\ Called => 0 < local["t"].currtime /\ local["t"].currtime <= q_now
    /\ pc["t"] = "resettime" => resettime < local["t"].currtime
    /\ pc["t"] = "starttime" => local["t"].currtime <= resettime
    /\ stale = {} \/ pc["t"] \in {"salt", "clear"} =>
         starttime <= resettime /\ starttime <= q_now /\ (Called => starttime <= local["t"].currtime)

(* What the thread has read of a counter is what the counter is. *)
LocalRead ==
    /\ Called => local["t"].ip \in Client
    /\ Hashed => local["t"].hash = salt[local["t"].ip]
    /\ pc["t"] = "first" => counts[local["t"].hash] = 0
    /\ pc["t"] \in {"difftime", "limit"} => local["t"].count = counts[local["t"].hash]
    /\ pc["t"] = "limit" => local["t"].difftime = (local["t"].currtime - starttime) % W
    /\ pc["t"] = "write" => local["t"].difftime = counts[local["t"].hash]
    /\ pc["t"] \in {"salt", "clear"} => \A a \in Client : accepted[a] = 0

(* A counter has counted every request of its addresses that was accepted. *)
Counted ==
    \A a \in Client :
        /\ accepted[a] <= counts[salt[a]] + 1
        /\ ~(pc["t"] \in {"read", "write"} /\ a = local["t"].ip) => accepted[a] <= counts[salt[a]]

Held == stale = {} => \A a \in Client : accepted[a] <= Bound(q_now, starttime, resettime)

QuotaInv == QuotaTypeOK /\ BeforeReset /\ TimesOrdered /\ LocalRead /\ Counted /\ Held

(* Division is monotonic. *)
LEMMA DivMono ==
    ASSUME NEW a \in Nat, NEW b \in Nat, NEW c \in Nat \ {0}, a <= b
    PROVE  a \div c \in Nat /\ a \div c <= b \div c
  OBVIOUS

LEMMA MulMono ==
    ASSUME NEW r \in Nat, NEW a \in Nat, NEW b \in Nat, a <= b
    PROVE  r * a \in Nat /\ r * a <= r * b
OBVIOUS

LEMMA ModLeq ==
    ASSUME NEW a \in Nat, NEW c \in Nat \ {0}
    PROVE  a % c \in Nat /\ a % c <= a
OBVIOUS

(* The bound is a number, and grows with the time and with the end of the period. *)
LEMMA BoundMono ==
    ASSUME NEW n \in Nat, NEW m \in Nat, NEW s \in Nat, NEW r \in Nat, NEW q \in Nat,
           s <= n, n <= m, s <= r, r <= q
    PROVE  /\ Bound(n, s, r) \in Nat /\ Bound(m, s, q) \in Nat
           /\ 2 <= Bound(n, s, r) /\ Bound(n, s, r) <= Bound(m, s, q)
<1> USE QuotaAssumption
<1>1. n - s \in Nat /\ m - s \in Nat /\ n - s <= m - s /\ rps - 1 \in Nat
  OBVIOUS
<1>2. r - s \in Nat /\ q - s \in Nat /\ r - s <= q - s
  OBVIOUS
<1>3. /\ (rps - 1) * (n - s) \in Nat /\ (rps - 1) * (m - s) \in Nat
      /\ (rps - 1) * (n - s) <= (rps - 1) * (m - s)
  BY <1>1, MulMono
<1>4. /\ ((rps - 1) * (n - s)) \div Sec \in Nat /\ ((rps - 1) * (m - s)) \div Sec \in Nat
      /\ ((rps - 1) * (n - s)) \div Sec <= ((rps - 1) * (m - s)) \div Sec
  BY <1>3, DivMono
<1>5. /\ (r - s) \div Sec \in Nat /\ (q - s) \div Sec \in Nat
      /\ (r - s) \div Sec <= (q - s) \div Sec
  BY <1>2, DivMono
<1>6. QED
  BY <1>4, <1>5 DEF Bound

(* The limit of quota_check is below the bound, whatever the product and the sum wrap to. *)
LEMMA LimitBound ==
    ASSUME NEW n \in Nat, NEW s \in Nat, NEW r \in Nat, s <= n, s <= r
    PROVE  /\ Limit!limit((n - s) % W, (r - s) % W) \in Nat
           /\ Limit!limit((n - s) % W, (r - s) % W) < Bound(n, s, r)
<1> USE QuotaAssumption
<1> DEFINE d == (n - s) % W
           e == (r - s) % W
           p == ((rps - 1) * d) % W
<1>1. n - s \in Nat /\ r - s \in Nat /\ rps - 1 \in Nat
  OBVIOUS
<1>2. d \in Nat /\ d <= n - s /\ e \in Nat /\ e <= r - s
  BY <1>1, ModLeq, Zenon
<1> HIDE DEF d, e
<1>3. (rps - 1) * d \in Nat /\ (rps - 1) * d <= (rps - 1) * (n - s) /\ (rps - 1) * (n - s) \in Nat
  BY <1>1, <1>2, MulMono
<1>4. p \in Nat /\ p <= (rps - 1) * (n - s)
  BY <1>3, ModLeq
<1> HIDE DEF p
<1>5. p \div Sec \in Nat /\ p \div Sec <= ((rps - 1) * (n - s)) \div Sec
  BY <1>3, <1>4, DivMono, Zenon
<1>6. e \div Sec \in Nat /\ e \div Sec <= (r - s) \div Sec
  BY <1>1, <1>2, DivMono, Zenon
<1>7. Limit!limit(d, e) = (p \div Sec + e \div Sec + 1) % W
  BY Zenon DEF Limit!limit, p
<1>8. (p \div Sec + e \div Sec + 1) % W \in Nat
      /\ (p \div Sec + e \div Sec + 1) % W <= p \div Sec + e \div Sec + 1
  <2>1. p \div Sec + e \div Sec + 1 \in Nat
    BY <1>5, <1>6
  <2>2. QED
    BY <2>1, ModLeq, Zenon
<1>9. /\ ((rps - 1) * (n - s)) \div Sec \in Nat /\ (r - s) \div Sec \in Nat
  BY <1>1, <1>3, DivMono
<1>10. Limit!limit(d, e) \in Nat /\ Limit!limit(d, e) < Bound(n, s, r)
  BY <1>5, <1>6, <1>7, <1>8, <1>9 DEF Bound
<1>11. QED
  BY <1>10, Zenon DEF d, e

(* The memory as malloc left it, before the first reset *)
LEMMA QuotaInit == Limit!Init => QuotaInv
<1> SUFFICES ASSUME Limit!Init PROVE QuotaInv
  OBVIOUS
<1>0. q_now = 1 /\ resettime = q_now - 1
  BY Zenon DEF Limit!Init
<1>1. q_now \in Nat /\ resettime = 0 /\ 0 < q_now
  BY <1>0
<1>2. starttime \in Nat /\ stale # {}
  BY QuotaAssumption DEF Limit!Init
<1>3. salt \in [Client -> Counters] 
  BY Zenon DEF Limit!Init
<1>4. counts \in [Counters -> Nat]
  <2>1. counts \in [Counters -> Garbage] /\ Garbage \subseteq Nat
    BY QuotaAssumption, Zenon DEF Limit!Init
  <2>2. QED
    BY <2>1, Zenon
<1>5. accepted \in [Client -> Nat] /\ \A a \in Client : accepted[a] = 0
  BY Zenon DEF Limit!Init
<1>6. pc["t"] = "idle" /\ pc \in [{"t"} -> QuotaPc]
  BY Zenon DEF Limit!Init, QuotaPc
<1>7. local \in [{"t"} -> QuotaLocal]
  <2>1. Limit!NoLocal \in QuotaLocal
    BY Zenon DEF Limit!NoLocal, QuotaLocal
  <2>2. QED
    BY <2>1, Zenon DEF Limit!Init
<1>8. QuotaTypeOK
  BY <1>1, <1>2, <1>3, <1>4, <1>5, <1>6, <1>7, Zenon DEF QuotaTypeOK
<1>9. BeforeReset /\ LocalRead /\ Held
  BY <1>1, <1>2, <1>5, <1>6, Zenon DEF BeforeReset, LocalRead, Called, Hashed, Held
<1>10. TimesOrdered
  BY <1>1, <1>2, <1>6, Zenon DEF TimesOrdered, Called
<1>11. Counted
  <2>1. pc["t"] \notin {"read", "write"}
    BY <1>6, Zenon
  <2>2. \A a \in Client : counts[salt[a]] \in Nat /\ accepted[a] = 0
    BY <1>3, <1>4, <1>5, Zenon
  <2>3. QED
    <3> SUFFICES ASSUME NEW a \in Client
                 PROVE  accepted[a] <= counts[salt[a]] + 1 /\ accepted[a] <= counts[salt[a]]
      BY Zenon DEF Counted
    <3>1. QED
      BY <2>2
<1>12. QED
  BY <1>8, <1>9, <1>10, <1>11, Zenon DEF QuotaInv

(* The steps of quota_check keep the types, *)
LEMMA QuotaTypes == ASSUME QuotaInv, Limit!Next PROVE QuotaTypeOK'
<1>a. /\ q_now \in Nat /\ resettime \in Nat /\ starttime \in Nat
      /\ salt \in [Client -> Counters] /\ counts \in [Counters -> Nat]
      /\ accepted \in [Client -> Nat]
  BY Zenon DEF QuotaInv, QuotaTypeOK
<1>b. pc \in [{"t"} -> QuotaPc] /\ local \in [{"t"} -> QuotaLocal] /\ local["t"] \in QuotaLocal
  BY Zenon DEF QuotaInv, QuotaTypeOK
<1>c. Called => local["t"].ip \in Client
  BY Zenon DEF QuotaInv, LocalRead
<1>d. Hashed => local["t"].hash \in Counters
  BY <1>a, <1>c, Zenon DEF QuotaInv, LocalRead, Hashed, Called
<1> DEFINE Numbers == /\ q_now' \in Nat /\ resettime' \in Nat /\ starttime' \in Nat
                      /\ salt' \in [Client -> Counters] /\ counts' \in [Counters -> Nat]
                      /\ accepted' \in [Client -> Nat]
           Threads == pc' \in [{"t"} -> QuotaPc] /\ local' \in [{"t"} -> QuotaLocal]
<1> SUFFICES Numbers /\ Threads
  BY Zenon DEF QuotaTypeOK
<1> USE DEF Limit!Go, QuotaPc
<1>1. CASE Limit!Tick
  BY <1>1, <1>a, <1>b DEF Limit!Tick, Limit!fields
<1>2. CASE Limit!Call("t")
  <2>1. PICK a \in Client :
          local' = [local EXCEPT !["t"] = [Limit!NoLocal EXCEPT !.ip = a, !.currtime = q_now]]
    BY <1>2, Zenon DEF Limit!Call
  <2>2. [Limit!NoLocal EXCEPT !.ip = a, !.currtime = q_now] \in QuotaLocal
    BY <1>a, Zenon DEF Limit!NoLocal, QuotaLocal
  <2>3. Threads
    <3>1. pc' = [pc EXCEPT !["t"] = "check"]
      BY <1>2, Zenon DEF Limit!Call
    <3>2. local' \in [{"t"} -> QuotaLocal]
      BY <1>b, <2>1, <2>2, Zenon
    <3>3. QED
      BY <1>b, <3>1, <3>2, Zenon
  <2>4. QED
    BY <1>2, <1>a, <2>3, Zenon DEF Limit!Call, Limit!fields
<1>3. CASE Limit!Check("t")
  BY <1>3, <1>a, <1>b, Zenon DEF Limit!Check, Limit!fields
<1>4. CASE Limit!ResetTime("t")
  <2>1. local["t"].currtime \in Nat /\ timemin \in Nat /\ timemax \in Nat
    BY <1>b, QuotaAssumption, Zenon DEF QuotaLocal
  <2>2. resettime' \in Nat
    BY <1>4, <2>1 DEF Limit!ResetTime
  <2>3. QED
    BY <1>4, <1>a, <1>b, <2>2, Zenon DEF Limit!ResetTime
<1>5. CASE Limit!StartTime("t")
  BY <1>5, <1>a, <1>b, Zenon DEF Limit!StartTime, QuotaLocal
<1>6. CASE Limit!Salt("t")
  BY <1>6, <1>a, <1>b, Zenon DEF Limit!Salt
<1>7. CASE Limit!Clear("t")
  BY <1>7, <1>a, <1>b, Zenon DEF Limit!Clear
<1>8. CASE Limit!Hash("t")
  BY <1>8, <1>a, <1>b, <1>c, Zenon DEF Limit!Hash, Limit!fields, QuotaLocal, Called
<1>9. CASE Limit!Count("t")
  BY <1>9, <1>a, <1>b, <1>d, Zenon DEF Limit!Count, Limit!fields, QuotaLocal, Hashed
<1>10. CASE Limit!First("t")
  BY <1>10, <1>a, <1>b, <1>c, <1>d DEF Limit!First, Limit!Accept, Hashed, Called
<1>11. CASE Limit!DiffTime("t")
  <2>1. local["t"].currtime \in Nat /\ W \in Nat \ {0}
    BY <1>b, QuotaAssumption, Zenon DEF QuotaLocal
  <2>2. (local["t"].currtime - starttime) % W \in Nat
    BY <1>a, <2>1
  <2>3. QED
    BY <1>11, <1>a, <1>b, <2>2, Zenon DEF Limit!DiffTime, Limit!fields, QuotaLocal
<1>12. CASE Limit!Limit("t")
  BY <1>12, <1>a, <1>b, <1>c DEF Limit!Limit, Limit!fields, Limit!Accept, Called
<1>13. CASE Limit!Read("t")
  BY <1>13, <1>a, <1>b, <1>d, Zenon DEF Limit!Read, Limit!fields, QuotaLocal, Hashed
<1>14. CASE Limit!Write("t")
  BY <1>14, <1>a, <1>b, <1>d DEF Limit!Write, QuotaLocal, Hashed
<1>15. CASE Limit!Return("t")
  BY <1>15, <1>a, <1>b, Zenon DEF Limit!Return, Limit!fields, Limit!NoLocal, QuotaLocal
<1>16. QED
  BY <1>1, <1>2, <1>3, <1>4, <1>5, <1>6, <1>7, <1>8, <1>9, <1>10, <1>11, <1>12, <1>13, <1>14,
     <1>15 DEF Limit!Next, Limit!Step

(* and the rest of the invariant. *)
LEMMA QuotaStep == ASSUME QuotaInv, QuotaTypeOK', Limit!Next PROVE QuotaInv'
<1>a. /\ q_now \in Nat /\ resettime \in Nat /\ starttime \in Nat
      /\ salt \in [Client -> Counters] /\ counts \in [Counters -> Nat]
      /\ accepted \in [Client -> Nat] /\ pc \in [{"t"} -> QuotaPc] /\ local \in [{"t"} -> QuotaLocal]
  BY Zenon DEF QuotaInv, QuotaTypeOK
<1>b. /\ q_now' \in Nat /\ resettime' \in Nat /\ starttime' \in Nat
      /\ salt' \in [Client -> Counters] /\ counts' \in [Counters -> Nat]
      /\ accepted' \in [Client -> Nat]
  BY Zenon DEF QuotaTypeOK
<1>c. BeforeReset /\ TimesOrdered /\ LocalRead /\ Counted /\ Held
  BY Zenon DEF QuotaInv
<1>d. local["t"].currtime \in Nat
  BY <1>a, Zenon DEF QuotaLocal
<1> DEFINE Control == BeforeReset' /\ TimesOrdered' /\ LocalRead'
           Counts == Counted' /\ Held'
<1> SUFFICES Control /\ Counts
  BY Zenon DEF QuotaInv
<1> USE DEF Limit!Go, Called, Hashed
<1>1. CASE Limit!Tick
  <2>1. Control
    BY <1>1, <1>a, <1>b, <1>c, <1>d
       DEF Limit!Tick, Limit!fields, BeforeReset, TimesOrdered, LocalRead
  <2>2. Counts
    <3>1. q_now <= q_now' /\ UNCHANGED <<starttime, resettime, accepted, stale>>
      BY <1>1, <1>a DEF Limit!Tick, Limit!fields
    <3>2. Counted'
      BY <1>1, <1>c, Zenon DEF Limit!Tick, Limit!fields, Counted
    <3>3. ASSUME stale = {}
          PROVE  /\ Bound(q_now, starttime, resettime) \in Nat /\ Bound(q_now', starttime, resettime) \in Nat
                 /\ Bound(q_now, starttime, resettime) <= Bound(q_now', starttime, resettime)
      <4>1. starttime <= q_now /\ starttime <= resettime /\ resettime <= resettime
        BY <1>a, <1>c, <3>3 DEF TimesOrdered
      <4>2. QED
        BY <1>a, <1>b, <3>1, <4>1, BoundMono, Zenon
    <3>4. ASSUME stale = {}, NEW a \in Client
          PROVE  accepted[a] <= Bound(q_now', starttime, resettime)
      <4>1. accepted[a] \in Nat /\ accepted[a] <= Bound(q_now, starttime, resettime)
        BY <1>a, <1>c, <3>4, Zenon DEF Held
      <4>2. QED
        BY <3>3, <3>4, <4>1
    <3>5. QED
      BY <3>1, <3>2, <3>4, Zenon DEF Held
  <2>3. QED
    BY <2>1, <2>2, Zenon
<1>2. CASE Limit!Call("t")
  <2>1. Control
    BY <1>2, <1>a, <1>b, <1>c, <1>d
       DEF Limit!Call, Limit!fields, Limit!NoLocal, BeforeReset, TimesOrdered, LocalRead
  <2>2. Counts
    BY <1>2, <1>a, <1>b, <1>c, <1>d, Zenon
       DEF Limit!Call, Limit!fields, Limit!NoLocal, Counted, Held
  <2>3. QED
    BY <2>1, <2>2
<1>3. CASE Limit!Check("t")
  <2>1. Control
    BY <1>3, <1>a, <1>b, <1>c, <1>d, Zenon
       DEF Limit!Check, Limit!fields, BeforeReset, TimesOrdered, LocalRead
  <2>2. Counts
    BY <1>3, <1>a, <1>b, <1>c, <1>d, Zenon DEF Limit!Check, Limit!fields, Counted, Held
  <2>3. QED
    BY <2>1, <2>2
<1>4. CASE Limit!ResetTime("t")
  <2>1. Control
    <3>1. PICK r \in timemin .. timemax - 1 : resettime' = local["t"].currtime + r
      BY <1>4, Zenon DEF Limit!ResetTime
    <3>2. r \in Nat
      BY QuotaAssumption
    <3>3. local["t"].currtime <= resettime'
      BY <1>d, <3>1, <3>2
    <3>4. pc["t"] = "resettime" /\ pc'["t"] = "starttime"
      BY <1>4, <1>a, Zenon DEF Limit!ResetTime
    <3>5. resettime < local["t"].currtime
      BY <1>c, <3>4, Zenon DEF TimesOrdered
    <3>6. UNCHANGED <<q_now, starttime, salt, counts, local, accepted, stale>>
      BY <1>4, Zenon DEF Limit!ResetTime
    <3>7. BeforeReset' /\ LocalRead'
      BY <1>c, <3>4, <3>6, Zenon DEF BeforeReset, LocalRead
    <3>8. TimesOrdered'
      BY <1>a, <1>b, <1>c, <1>d, <3>3, <3>4, <3>5, <3>6 DEF TimesOrdered
    <3>9. QED
      BY <3>7, <3>8, Zenon
  <2>2. Counts
    <3>1. /\ pc["t"] = "resettime" /\ pc'["t"] = "starttime"
          /\ UNCHANGED <<q_now, starttime, salt, counts, local, accepted, stale>>
      BY <1>4, <1>a, Zenon DEF Limit!ResetTime
    <3>2. resettime < local["t"].currtime
      BY <1>c, <3>1, Zenon DEF TimesOrdered
    <3>3. local["t"].currtime <= resettime'
      BY <2>1, <3>1, Zenon DEF TimesOrdered
    <3>4. resettime <= resettime'
      BY <1>a, <1>b, <1>d, <3>2, <3>3
    <3>5. Counted'
      BY <1>c, <3>1, Zenon DEF Counted
    <3>6. ASSUME stale = {}
          PROVE  /\ Bound(q_now, starttime, resettime) \in Nat /\ Bound(q_now, starttime, resettime') \in Nat
                 /\ Bound(q_now, starttime, resettime) <= Bound(q_now, starttime, resettime')
      <4>1. starttime <= q_now /\ starttime <= resettime
        BY <1>c, <3>6, Zenon DEF TimesOrdered
      <4>2. q_now <= q_now
        BY <1>a
      <4>3. QED
        BY <1>a, <1>b, <3>4, <4>1, <4>2, BoundMono, Zenon
    <3>7. ASSUME stale = {}, NEW a \in Client
          PROVE  accepted[a] <= Bound(q_now, starttime, resettime')
      <4>1. accepted[a] \in Nat /\ accepted[a] <= Bound(q_now, starttime, resettime)
        BY <1>a, <1>c, <3>7 DEF Held
      <4>2. QED
        BY <3>6, <3>7, <4>1
    <3>8. QED
      BY <3>1, <3>5, <3>7, Zenon DEF Held
  <2>3. QED
    BY <2>1, <2>2
<1>5. CASE Limit!StartTime("t")
  <2>1. Control
    BY <1>5, <1>a, <1>b, <1>c, <1>d
       DEF Limit!StartTime, Limit!fields, BeforeReset, TimesOrdered, LocalRead
  <2>2. Counts
    <3>1. /\ pc'["t"] = "salt" /\ \A a \in Client : accepted'[a] = 0
          /\ UNCHANGED <<salt, counts, stale>>
      BY <1>5, <1>a, Zenon DEF Limit!StartTime
    <3>2. starttime' <= q_now' /\ starttime' <= resettime' /\ q_now' <= q_now' /\ resettime' <= resettime'
      BY <1>b, <2>1, <3>1 DEF TimesOrdered
    <3>3. Bound(q_now', starttime', resettime') \in Nat
      BY <1>b, <3>2, BoundMono, Zenon
    <3>4. \A a \in Client : accepted'[a] = 0 /\ counts'[salt'[a]] \in Nat
      BY <1>b, <3>1, Zenon
    <3>5. Counted'
      BY <3>4 DEF Counted
    <3>6. Held'
      BY <3>3, <3>4 DEF Held
    <3>7. QED
      BY <3>5, <3>6, Zenon
  <2>3. QED
    BY <2>1, <2>2
<1>6. CASE Limit!Salt("t")
  <2>1. Control
    BY <1>6, <1>a, <1>b, <1>c, <1>d, Zenon
       DEF Limit!Salt, Limit!fields, BeforeReset, TimesOrdered, LocalRead
  <2>2. Counts
    <3>1. pc["t"] = "salt" /\ UNCHANGED <<q_now, starttime, resettime, accepted, stale>>
      BY <1>6, Zenon DEF Limit!Salt
    <3>2. \A a \in Client : accepted'[a] = 0 /\ counts'[salt'[a]] \in Nat
      BY <1>b, <1>c, <3>1, Zenon DEF LocalRead
    <3>3. Counted'
      BY <3>2 DEF Counted
    <3>4. Held'
      BY <1>c, <3>1, Zenon DEF Held
    <3>5. QED
      BY <3>3, <3>4
  <2>3. QED
    BY <2>1, <2>2
<1>7. CASE Limit!Clear("t")
  <2>1. Control
    BY <1>7, <1>a, <1>b, <1>c, <1>d, Zenon
       DEF Limit!Clear, Limit!fields, BeforeReset, TimesOrdered, LocalRead
  <2>2. Counts
    <3>1. pc["t"] = "clear" /\ UNCHANGED <<q_now, starttime, resettime, accepted>>
      BY <1>7, Zenon DEF Limit!Clear
    <3>2. \A a \in Client : accepted'[a] = 0 /\ counts'[salt'[a]] \in Nat
      BY <1>b, <1>c, <3>1, Zenon DEF LocalRead
    <3>3. Counted'
      BY <3>2 DEF Counted
    <3>4. /\ starttime' <= q_now' /\ starttime' <= resettime' /\ q_now' <= q_now'
          /\ resettime' <= resettime'
      BY <1>b, <1>c, <3>1 DEF TimesOrdered
    <3>5. Bound(q_now', starttime', resettime') \in Nat
      BY <1>b, <3>4, BoundMono, Zenon
    <3>6. Held'
      BY <3>2, <3>5 DEF Held
    <3>7. QED
      BY <3>3, <3>6
  <2>3. QED
    BY <2>1, <2>2
<1>8. CASE Limit!Hash("t")
  <2>1. Control
    BY <1>8, <1>a, <1>b, <1>c, <1>d
       DEF Limit!Hash, Limit!fields, BeforeReset, TimesOrdered, LocalRead
  <2>2. Counts
    BY <1>8, <1>a, <1>b, <1>c, <1>d, Zenon DEF Limit!Hash, Limit!fields, Counted, Held
  <2>3. QED
    BY <2>1, <2>2
<1>9. CASE Limit!Count("t")
  <2>1. Control
    BY <1>9, <1>a, <1>b, <1>c, <1>d
       DEF Limit!Count, Limit!fields, BeforeReset, TimesOrdered, LocalRead
  <2>2. Counts
    BY <1>9, <1>a, <1>b, <1>c, <1>d, Zenon DEF Limit!Count, Limit!fields, Counted, Held
  <2>3. QED
    BY <2>1, <2>2
<1>10. CASE Limit!First("t")
  <2>1. Control
    BY <1>10, <1>a, <1>b, <1>c, <1>d, Zenon
       DEF Limit!First, Limit!fields, Limit!Accept, BeforeReset, TimesOrdered, LocalRead
  <2>2. Counts
    <3> DEFINE ip == local["t"].ip
               hash == local["t"].hash
    <3>1. pc["t"] = "first" /\ UNCHANGED <<q_now, starttime, resettime, salt, stale>>
      BY <1>10, Zenon DEF Limit!First
    <3>2. /\ counts' = [counts EXCEPT ![hash] = 1]
          /\ accepted' = [accepted EXCEPT ![ip] = accepted[ip] + 1]
      BY <1>10, Zenon DEF Limit!First, Limit!Accept
    <3>3. ip \in Client /\ hash = salt[ip] /\ counts[hash] = 0
      BY <1>c, <3>1, Zenon DEF LocalRead
    <3> HIDE DEF ip, hash
    <3>4. ASSUME NEW a \in Client
          PROVE  accepted'[a] \in Nat /\ counts'[salt'[a]] \in Nat /\ accepted'[a] <= counts'[salt'[a]]
      <4>1. accepted[a] \in Nat /\ counts[salt[a]] \in Nat /\ accepted[ip] \in Nat /\ salt[a] \in Counters
        BY <1>a, <3>3, Zenon
      <4>2. pc["t"] \notin {"read", "write"}
        BY <3>1, Zenon
      <4>3. accepted[a] <= counts[salt[a]] /\ accepted[ip] <= counts[hash]
        BY <1>c, <3>3, <4>2, Zenon DEF Counted
      <4>4. CASE salt[a] = hash
        BY <1>a, <3>1, <3>2, <3>3, <4>1, <4>3, <4>4
      <4>5. CASE salt[a] # hash
        BY <1>a, <3>1, <3>2, <3>3, <4>1, <4>3, <4>5, Zenon
      <4>6. QED
        BY <4>4, <4>5, Zenon
    <3>5. Counted'
      BY <3>4 DEF Counted
    <3>6. ASSUME stale = {}
          PROVE  2 <= Bound(q_now, starttime, resettime) /\ Bound(q_now, starttime, resettime) \in Nat
      <4>1. starttime <= q_now /\ starttime <= resettime /\ q_now <= q_now /\ resettime <= resettime
        BY <1>a, <1>c, <3>6 DEF TimesOrdered
      <4>2. QED
        BY <1>a, <4>1, BoundMono, Zenon
    <3>7. ASSUME stale = {}, NEW a \in Client
          PROVE  accepted'[a] <= Bound(q_now, starttime, resettime)
      <4>1. accepted[a] \in Nat /\ accepted[a] <= Bound(q_now, starttime, resettime)
        BY <1>a, <1>c, <3>7 DEF Held
      <4>2. pc["t"] \notin {"read", "write"}
        BY <3>1
      <4>3. accepted[ip] <= counts[hash]
        BY <1>c, <3>3, <4>2, Zenon DEF Counted
      <4>4. accepted[ip] = 0
        BY <1>a, <3>3, <4>3
      <4>5. QED
        BY <1>a, <3>2, <3>3, <3>6, <3>7, <4>1, <4>4
    <3>8. QED
      BY <3>1, <3>5, <3>7, Zenon DEF Held
  <2>3. QED
    BY <2>1, <2>2
<1>11. CASE Limit!DiffTime("t")
  <2>1. Control
    BY <1>11, <1>a, <1>b, <1>c, <1>d
       DEF Limit!DiffTime, Limit!fields, BeforeReset, TimesOrdered, LocalRead
  <2>2. Counts
    BY <1>11, <1>a, <1>b, <1>c, <1>d, Zenon DEF Limit!DiffTime, Limit!fields, Counted, Held
  <2>3. QED
    BY <2>1, <2>2
<1>12. CASE Limit!Limit("t")
  <2>1. Control
    BY <1>12, <1>a, <1>b, <1>c, <1>d, Zenon
       DEF Limit!Limit, Limit!fields, Limit!Accept, BeforeReset, TimesOrdered, LocalRead
  <2>2. Counts
    <3> DEFINE ip == local["t"].ip
               hash == local["t"].hash
    <3>1. pc["t"] = "limit" /\ UNCHANGED <<q_now, starttime, resettime, salt, counts, local, stale>>
      BY <1>12, Zenon DEF Limit!Limit, Limit!fields
    <3>2. /\ ip \in Client /\ hash = salt[ip] /\ local["t"].count = counts[hash]
          /\ local["t"].difftime = (local["t"].currtime - starttime) % W
      BY <1>c, <3>1, Zenon DEF LocalRead
    <3>3. stale = {}
      BY <1>c, <3>1, Zenon DEF BeforeReset
    <3>4. pc["t"] \notin {"read", "write"}
      BY <3>1, Zenon
    <3>5. \A a \in Client : accepted[a] <= counts[salt[a]]
      BY <1>c, <3>4, Zenon DEF Counted
    <3>6. \A a \in Client : accepted[a] \in Nat /\ counts[salt[a]] \in Nat
      BY <1>a, Zenon
    <3>7. \A a \in Client : accepted[a] <= Bound(q_now, starttime, resettime)
      BY <1>c, <3>3, Zenon DEF Held
    <3>8. CASE local["t"].count <= Limit!limit(local["t"].difftime, (resettime - starttime) % W)
      <4>1. accepted' = [accepted EXCEPT ![ip] = accepted[ip] + 1] /\ pc'["t"] = "read"
        BY <1>12, <1>a, <3>8, Zenon DEF Limit!Limit, Limit!Accept
      <4>2. /\ starttime <= q_now /\ starttime <= resettime /\ starttime <= local["t"].currtime
            /\ local["t"].currtime <= q_now /\ resettime <= resettime
        BY <1>a, <1>c, <3>1, <3>3 DEF TimesOrdered
      <4> DEFINE L == Limit!limit(local["t"].difftime, (resettime - starttime) % W)
                 B == Bound(local["t"].currtime, starttime, resettime)
                 C == Bound(q_now, starttime, resettime)
      <4>3. L \in Nat /\ L < B
        BY <1>a, <1>d, <3>2, <4>2, LimitBound, Zenon
      <4>4. B \in Nat /\ C \in Nat /\ B <= C
        BY <1>a, <1>d, <4>2, BoundMono, Zenon
      <4>5. counts[hash] <= L
        BY <3>2, <3>8, Zenon
      <4> HIDE DEF L, B, C
      <4>6. accepted[ip] \in Nat /\ counts[hash] \in Nat /\ accepted[ip] <= counts[hash]
        BY <3>2, <3>5, <3>6, Zenon
      <4>7. accepted[ip] + 1 <= C /\ accepted[ip] + 1 <= counts[hash] + 1
        BY <4>3, <4>4, <4>5, <4>6
      <4> HIDE DEF ip, hash
      <4>8. ASSUME NEW a \in Client
            PROVE  /\ accepted'[a] <= C /\ accepted'[a] <= counts[salt[a]] + 1
                   /\ a # ip => accepted'[a] <= counts[salt[a]]
        <5>1. CASE a = ip
          BY <1>a, <3>2, <4>1, <4>7, <5>1, Zenon
        <5>2. CASE a # ip
          <6>1. accepted'[a] = accepted[a]
            BY <1>a, <4>1, <5>2, Zenon
          <6>2. QED
            BY <3>5, <3>6, <3>7, <6>1 DEF C
        <5>3. QED
          BY <5>1, <5>2, Zenon
      <4>9. Counted'
        BY <3>1, <4>1, <4>8, Zenon DEF Counted, ip
      <4>10. Held'
        BY <3>1, <4>8, Zenon DEF Held, C
      <4>11. QED
        BY <4>9, <4>10
    <3>9. CASE ~(local["t"].count <= Limit!limit(local["t"].difftime, (resettime - starttime) % W))
      <4>1. accepted' = accepted /\ pc'["t"] = "no"
        BY <1>12, <1>a, <3>9, Zenon DEF Limit!Limit
      <4>2. Counted'
        BY <3>1, <3>5, <3>6, <4>1 DEF Counted
      <4>3. Held'
        BY <3>1, <3>7, <4>1, Zenon DEF Held
      <4>4. QED
        BY <4>2, <4>3
    <3>10. QED
      BY <3>8, <3>9, Zenon
  <2>3. QED
    BY <2>1, <2>2
<1>13. CASE Limit!Read("t")
  <2>1. Control
    BY <1>13, <1>a, <1>b, <1>c, <1>d
       DEF Limit!Read, Limit!fields, BeforeReset, TimesOrdered, LocalRead
  <2>2. Counts
    BY <1>13, <1>a, <1>b, <1>c, <1>d DEF Limit!Read, Limit!fields, Counted, Held
  <2>3. QED
    BY <2>1, <2>2
<1>14. CASE Limit!Write("t")
  <2>1. Control
    BY <1>14, <1>a, <1>b, <1>c, <1>d, Zenon
       DEF Limit!Write, Limit!fields, BeforeReset, TimesOrdered, LocalRead
  <2>2. Counts
    <3> DEFINE ip == local["t"].ip
               hash == local["t"].hash
    <3>1. /\ pc["t"] = "write" /\ counts' = [counts EXCEPT ![hash] = local["t"].difftime + 1]
          /\ UNCHANGED <<q_now, starttime, resettime, salt, accepted, stale>>
      BY <1>14, Zenon DEF Limit!Write
    <3>2. ip \in Client /\ hash = salt[ip] /\ local["t"].difftime = counts[hash]
      BY <1>c, <3>1, Zenon DEF LocalRead
    <3>3. ASSUME NEW a \in Client
          PROVE  accepted[a] <= counts'[salt[a]] + 1 /\ accepted[a] <= counts'[salt[a]]
      <4>1. accepted[a] \in Nat /\ counts[salt[a]] \in Nat /\ salt[a] \in Counters
        BY <1>a, Zenon
      <4>2. accepted[a] <= counts[salt[a]] + 1 /\ (a # ip => accepted[a] <= counts[salt[a]])
        BY <1>c, Zenon DEF Counted
      <4> HIDE DEF ip, hash
      <4>3. CASE salt[a] = hash
        BY <1>a, <3>1, <3>2, <4>1, <4>2, <4>3
      <4>4. CASE salt[a] # hash
        <5>1. a # ip /\ counts'[salt[a]] = counts[salt[a]]
          BY <1>a, <3>1, <3>2, <4>1, <4>4, Zenon
        <5>2. QED
          BY <4>1, <4>2, <5>1, Zenon
      <4>5. QED
        BY <4>3, <4>4, Zenon
    <3>4. Counted'
      BY <3>1, <3>3, Zenon DEF Counted
    <3>5. Held'
      BY <1>c, <3>1, Zenon DEF Held
    <3>6. QED
      BY <3>4, <3>5
  <2>3. QED
    BY <2>1, <2>2
<1>15. CASE Limit!Return("t")
  <2>1. Control
    BY <1>15, <1>a, <1>b, <1>c, <1>d, Zenon
       DEF Limit!Return, Limit!fields, Limit!NoLocal, BeforeReset, TimesOrdered, LocalRead
  <2>2. Counts
    BY <1>15, <1>a, <1>b, <1>c, <1>d, Zenon
       DEF Limit!Return, Limit!fields, Limit!NoLocal, Counted, Held
  <2>3. QED
    BY <2>1, <2>2
<1>16. QED
  BY <1>1, <1>2, <1>3, <1>4, <1>5, <1>6, <1>7, <1>8, <1>9, <1>10, <1>11, <1>12, <1>13, <1>14,
     <1>15, Zenon DEF Limit!Next, Limit!Step

(* No address gets more of a period than RateHeld says, however the times wrap. *)
THEOREM RateNeverExceeded == Limit!Spec => []RateHeld
<1>1. QuotaInv /\ [Limit!Next]_(Limit!vars) => QuotaInv'
  <2>1. CASE UNCHANGED Limit!vars
    BY <2>1
       DEF Limit!vars, Limit!fields, QuotaInv, QuotaTypeOK, BeforeReset, TimesOrdered, LocalRead,
       Counted, Held, Called, Hashed
  <2>2. QED
    BY <2>1, QuotaTypes, QuotaStep, Zenon
<1>2. QuotaInv => RateHeld
  BY Zenon DEF QuotaInv, Held, Bound, RateHeld, Limit!RateHeld
<1>3. QED
  BY <1>1, <1>2, QuotaInit, PTL DEF Limit!Spec

=============================================================================
