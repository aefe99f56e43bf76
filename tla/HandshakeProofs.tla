--------------------------- MODULE HandshakeProofs ---------------------------
(***************************************************************************)
(* The handshake of the crypt encoding implements KeyAgreement, for any    *)
(* number of tunnels, retries, rotations and restarts, and whatever the    *)
(* network loses, delays, reorders and repeats.                            *)
(***************************************************************************)
EXTENDS Handshake, Sequences, FiniteSetTheorems, TLAPS

(* Types *)
SeqNumber == Tunnel \X Nat

RequestType == {"cookie", "cert", "key", "auth", "info"}

RequestBody ==
    [type : RequestType, seq : SeqNumber, cookie : Nat \cup {None}, key : SeqNumber \cup {None},
     auth_id : Nat \cup {None}, under : Session \cup {None}]

TunnelState ==
    [pc : {"new", "connect", "send", "wait", "open", "closed"},
     state : {"cookie", "cert", "key", "done"}, have_cert : BOOLEAN, seq : SeqNumber \cup {None},
     cookie : Nat \cup {None}, key : SeqNumber \cup {None}, session : Session \cup {None},
     auth_id : Nat \cup {None}, open_encodings : Nat, rounds : Nat, retry : Nat,
     requests : Nat, sends : Nat, buff : RequestBody \cup {None}, error : BOOLEAN]

(* A tunnel whose handshake is not done has no session.  The session it has was made
   for one of its own requests.  While it sends or waits its buffer holds its last
   request. *)
TunnelInv(r, t) ==
    /\ r \in TunnelState
    /\ r.state # "done" => r.session = None
    /\ r.session # None => r.session \in issued /\ r.session.seq[1] = t
    /\ r.pc \in {"send", "wait"} => r.seq = <<t, r.requests>> /\ r.buff \in RequestBody

(* A reply to a key request has a session the server made for that request. *)
PacketInv(p) ==
    /\ p.to = "server" => p.body \in RequestBody
    /\ p.to = "client" =>
         /\ p.body.type = "cookie" => p.body.cookie \in Nat
         /\ p.body.type = "key" => p.body.session \in issued /\ p.body.session.seq = p.body.seq
         /\ p.body.type \in {"auth", "info"} => p.body.auth_id \in Nat

Inv ==
    /\ DOMAIN tunnel = Tunnel /\ \A t \in Tunnel : TunnelInv(tunnel[t], t)
    /\ \A p \in net : PacketInv(p)
    /\ cached \in BOOLEAN /\ gen \in Nat /\ process \in Nat
    /\ issued \subseteq Session /\ IsFiniteSet(issued)

-----------------------------------------------------------------------------
(* What the operators on the state of a tunnel change *)

LEMMA ClosedIs ==
    ASSUME NEW r \in TunnelState
    PROVE  /\ Closed(r) \in TunnelState /\ Closed(r).pc = "closed"
           /\ Closed(r).session = r.session /\ Closed(r).state = r.state
  BY DEF TunnelState, Closed

LEMMA RequestIs ==
    ASSUME NEW r \in TunnelState, NEW t \in Tunnel, NEW type \in RequestType
    PROVE  /\ Request(r, t, type) \in TunnelState
           /\ Request(r, t, type).seq = <<t, Request(r, t, type).requests>>
           /\ Request(r, t, type).buff \in RequestBody
           /\ Request(r, t, type).session = r.session /\ Request(r, t, type).state = r.state
  <1> DEFINE n == r.requests + 1
             seq == <<t, n>>
             key == IF type = "key" THEN seq ELSE r.key
             body == [type |-> type, seq |-> seq, cookie |-> r.cookie, key |-> key,
                      auth_id |-> r.auth_id, under |-> r.session]
             s == [r EXCEPT !.pc = "send", !.retry = 0, !.seq = seq]
             u == [s EXCEPT !.key = key, !.requests = n, !.buff = body]
  <1>1. n \in Nat /\ seq \in SeqNumber /\ key \in SeqNumber \cup {None}
    <2>1. r.requests \in Nat /\ r.key \in SeqNumber \cup {None}
      BY Zenon DEF TunnelState
    <2>2. n \in Nat
      BY <2>1
    <2>3. seq \in SeqNumber
      BY <2>2, Zenon DEF SeqNumber
    <2> QED BY <2>1, <2>2, <2>3, Zenon
  <1>2. body \in RequestBody
    <2>1. r.cookie \in Nat \cup {None} /\ r.auth_id \in Nat \cup {None}
          /\ r.session \in Session \cup {None}
      BY Zenon DEF TunnelState
    <2> HIDE DEF seq, key
    <2> QED BY <1>1, <2>1, Zenon DEF RequestBody
  <1>3. Request(r, t, type) = u
    BY Zenon DEF Request
  <1> HIDE DEF n, seq, key, body
  <1>4. s \in TunnelState /\ s.seq = seq /\ s.session = r.session /\ s.state = r.state
    BY <1>1, Zenon DEF TunnelState
  <1> HIDE DEF s
  <1>5. u \in TunnelState
    BY <1>1, <1>2, <1>4 DEF TunnelState
  <1>6. u.seq = seq /\ u.requests = n /\ u.buff = body
        /\ u.session = r.session /\ u.state = r.state
    BY <1>4, Zenon DEF TunnelState
  <1> HIDE DEF u
  <1> QED BY <1>2, <1>3, <1>5, <1>6, Zenon DEF seq

LEMMA HeaderIs ==
    ASSUME NEW r \in TunnelState, NEW s, s = cktp_add_transport_header(r)
    PROVE  /\ s \in TunnelState /\ s.session = r.session /\ s.state = r.state
           /\ s.seq = r.seq /\ s.requests = r.requests /\ s.buff = r.buff
  BY DEF TunnelState, cktp_add_transport_header

(* A change that leaves the session and the state of the handshake alone *)
LEMMA Keeps ==
    ASSUME NEW t \in Tunnel, NEW r, TunnelInv(r, t), NEW s \in TunnelState,
           s.session = r.session, s.state = r.state,
           s.pc \in {"send", "wait"} => s.seq = <<t, s.requests>> /\ s.buff \in RequestBody
    PROVE  TunnelInv(s, t)
  BY Zenon DEF TunnelInv

-----------------------------------------------------------------------------
(* What a tunnel makes of a reply: it changes nothing of the session, or takes the
   one that the server made for its request. *)
Adopts(r, s, t, b) ==
    \/ s.session = r.session
    \/ /\ r.session = None /\ s.session = b.session
       /\ b.session \in issued /\ b.session.seq[1] = t

LEMMA ReplyIs ==
    ASSUME NEW t \in Tunnel, NEW r, TunnelInv(r, t), r.pc = "wait", NEW p, PacketInv(p),
           p.to = "client", issued \subseteq Session, NEW s, s = crypt_handshake_reply(r, p.body), s # r
    PROVE  /\ s \in TunnelState /\ Adopts(r, s, t, p.body)
           /\ s.state # "done" => s.session = None
  <1> DEFINE b == p.body
  <1>1. r \in TunnelState /\ (r.state # "done" => r.session = None) /\ r.seq = <<t, r.requests>>
    BY Zenon DEF TunnelInv
  <1>2. CASE r.state = "cookie" /\ b.type = "cookie" /\ b.seq = r.seq
    <2>1. b.cookie \in Nat
      BY <1>2, Zenon DEF PacketInv
    <2>2. s = [r EXCEPT !.cookie = b.cookie, !.state = IF r.have_cert THEN "key" ELSE "cert"]
      BY <1>2, Zenon DEF crypt_handshake_reply
    <2>3. s \in TunnelState /\ s.session = r.session
      BY <1>1, <2>1, <2>2, ZenonT(60) DEF TunnelState
    <2> QED BY <1>1, <1>2, <2>3, Zenon DEF Adopts
  <1>3. CASE r.state = "cert" /\ b.type = "cert" /\ b.seq = r.seq
    <2>1. s = [r EXCEPT !.have_cert = TRUE, !.state = "key"]
      BY <1>3, Zenon DEF crypt_handshake_reply
    <2>2. s \in TunnelState /\ s.session = r.session
      BY <1>1, <2>1, ZenonT(60) DEF TunnelState
    <2> QED BY <1>1, <1>3, <2>2, Zenon DEF Adopts
  <1>4. CASE r.state = "key" /\ b.type = "key" /\ b.seq = r.seq /\ b.key = r.key
    <2>1. b.session \in issued /\ b.session.seq = <<t, r.requests>>
      BY <1>1, <1>4, Zenon DEF PacketInv
    <2>2. s = [r EXCEPT !.session = b.session, !.state = "done"]
      BY <1>4, Zenon DEF crypt_handshake_reply
    <2>3. s \in TunnelState /\ s.session = b.session /\ s.state = "done"
      BY <1>1, <2>1, <2>2, ZenonT(60) DEF TunnelState
    <2> QED BY <1>1, <1>4, <2>1, <2>3 DEF Adopts
  <1> QED BY <1>2, <1>3, <1>4, Zenon DEF crypt_handshake_reply

LEMMA HandledIs ==
    ASSUME NEW t \in Tunnel, NEW r, TunnelInv(r, t), r.pc = "wait", NEW p, PacketInv(p),
           p.to = "client", issued \subseteq Session, NEW s, s = Handled(r, p.body)
    PROVE  TunnelInv(s, t) /\ Adopts(r, s, t, p.body)
  <1> DEFINE b == p.body
  <1>1. r \in TunnelState
    BY Zenon DEF TunnelInv
  <1>2. CASE s = r
    BY <1>2, Zenon DEF Adopts
  <1>3. CASE r.open_encodings < NumEncodings /\ s # r
    <2> DEFINE q == crypt_handshake_reply(r, b)
    <2>1. q # r /\ s = [q EXCEPT !.pc = "connect"]
      BY <1>3, Zenon DEF Handled
    <2>2. /\ q \in TunnelState /\ Adopts(r, q, t, b)
          /\ q.state # "done" => q.session = None
      BY <2>1, ReplyIs
    <2> HIDE DEF q
    <2>3. s \in TunnelState /\ s.pc = "connect" /\ s.session = q.session /\ s.state = q.state
      BY <2>1, <2>2 DEF TunnelState
    <2>4. Adopts(r, s, t, b)
      BY <2>2, <2>3, Zenon DEF Adopts
    <2>5. s.session # None => s.session \in issued /\ s.session.seq[1] = t
      BY <2>4, Zenon DEF TunnelInv, Adopts
    <2> QED BY <2>2, <2>3, <2>4, <2>5, Zenon DEF TunnelInv
  <1>4. CASE ~(r.open_encodings < NumEncodings) /\ s # r
    <2>1. s = cktp_reply_handler(r, b)
      BY <1>4, Zenon DEF Handled
    <2>2. b.type \in {"auth", "info"} /\ b.auth_id \in Nat
      BY <1>4, <2>1, Zenon DEF cktp_reply_handler, PacketInv
    <2>3. \/ s = Closed([r EXCEPT !.error = TRUE])
          \/ s = [r EXCEPT !.auth_id = b.auth_id, !.pc = "connect"]
          \/ s = [r EXCEPT !.pc = "open"]
      BY <1>4, <2>1, Zenon DEF cktp_reply_handler
    <2>4. /\ s \in TunnelState /\ s.session = r.session /\ s.state = r.state
          /\ s.pc \notin {"send", "wait"}
      <3>1. CASE s = Closed([r EXCEPT !.error = TRUE])
        BY <1>1, <3>1, ZenonT(60) DEF TunnelState, Closed
      <3>2. CASE s = [r EXCEPT !.auth_id = b.auth_id, !.pc = "connect"]
        BY <1>1, <2>2, <3>2, ZenonT(60) DEF TunnelState
      <3>3. CASE s = [r EXCEPT !.pc = "open"]
        BY <1>1, <3>3 DEF TunnelState
      <3> QED BY <2>3, <3>1, <3>2, <3>3, Zenon
    <2> QED BY <2>4, Keeps, Zenon DEF Adopts
  <1> QED BY <1>2, <1>3, <1>4, Zenon

-----------------------------------------------------------------------------
(* The invariant *)

LEMMA InvInit == Init => Inv
  <1> SUFFICES ASSUME Init PROVE Inv
    BY Zenon
  <1>1. cktp_tunnel_s \in TunnelState
    BY Zenon DEF cktp_tunnel_s, TunnelState
  <1>2. \A t \in Tunnel : TunnelInv(tunnel[t], t)
    BY <1>1, Zenon DEF Init, TunnelInv, cktp_tunnel_s
  <1>3. IsFiniteSet(issued)
    BY FS_EmptySet, Zenon DEF Init
  <1> QED BY <1>2, <1>3, Zenon DEF Init, Inv

(* The step of a tunnel, which makes no session *)
LEMMA TunnelStep ==
    ASSUME Inv, NEW t \in Tunnel, NEW s, TunnelInv(s, t),
           tunnel' = [tunnel EXCEPT ![t] = s], issued' = issued
    PROVE  DOMAIN tunnel' = Tunnel /\ \A u \in Tunnel : TunnelInv(tunnel[u], u)'
  <1>1. DOMAIN tunnel = Tunnel /\ \A u \in Tunnel : TunnelInv(tunnel[u], u)
    BY Zenon DEF Inv
  <1>2. \A u \in Tunnel : tunnel'[u] = IF u = t THEN s ELSE tunnel[u]
    BY <1>1, Zenon
  <1>3. ASSUME NEW u \in Tunnel PROVE TunnelInv(tunnel[u], u)'
    <2>1. TunnelInv(tunnel'[u], u)
      BY <1>1, <1>2, Zenon
    <2> QED BY <2>1, Zenon DEF TunnelInv
  <1> QED BY <1>1, <1>3, Zenon

(* A packet under way keeps its condition: the sessions do not get fewer. *)
LEMMA PacketsKept ==
    ASSUME Inv, issued \subseteq issued', \A p \in net' \ net : PacketInv(p)'
    PROVE  \A p \in net' : PacketInv(p)'
  <1>1. ASSUME NEW p \in net PROVE PacketInv(p)'
    <2>1. PacketInv(p)
      BY Zenon DEF Inv
    <2> QED BY <2>1, Zenon DEF PacketInv
  <1> QED BY <1>1, Zenon

SameSessions == \A u \in Tunnel : tunnel'[u].session = tunnel[u].session

(* A step of a tunnel that leaves its session and the state of the handshake alone *)
LEMMA Quiet ==
    ASSUME Inv, NEW t \in Tunnel, NEW s \in TunnelState, tunnel' = [tunnel EXCEPT ![t] = s],
           s.session = tunnel[t].session, s.state = tunnel[t].state,
           s.pc \in {"send", "wait"} => s.seq = <<t, s.requests>> /\ s.buff \in RequestBody,
           UNCHANGED <<cached, gen, process, issued>>,
           \A p \in net' \ net : PacketInv(p)'
    PROVE  Inv' /\ SameSessions
  <1>1. TunnelInv(tunnel[t], t) /\ DOMAIN tunnel = Tunnel
    BY Zenon DEF Inv
  <1>2. TunnelInv(s, t)
    BY <1>1, Keeps, Zenon
  <1>3. DOMAIN tunnel' = Tunnel /\ \A u \in Tunnel : TunnelInv(tunnel[u], u)'
    BY <1>2, TunnelStep, Zenon
  <1>4. \A p \in net' : PacketInv(p)'
    BY PacketsKept, Zenon
  <1>5. SameSessions
    BY <1>1, Zenon DEF SameSessions
  <1>6. cached' \in BOOLEAN
    BY Zenon DEF Inv
  <1>7. gen' \in Nat /\ process' \in Nat /\ issued' \subseteq Session /\ IsFiniteSet(issued')
    BY Zenon DEF Inv
  <1> QED BY <1>3, <1>4, <1>5, <1>6, <1>7, Zenon DEF Inv

LEMMA ClientQuiet ==
    ASSUME Inv, NEW t \in Tunnel,
           \/ cktp_open_tunnel(t) \/ cktp_encodings_connect(t) \/ cktp_connect(t)
           \/ cktp_send_request_send(t) \/ cktp_send_request_timeout(t)
           \/ cktp_send_request_error(t) \/ cktp_close_tunnel(t)
    PROVE  Inv' /\ SameSessions
  <1> DEFINE r == tunnel[t]
  <1>1. r \in TunnelState /\ DOMAIN tunnel = Tunnel
        /\ (r.pc \in {"send", "wait"} => r.seq = <<t, r.requests>> /\ r.buff \in RequestBody)
    BY Zenon DEF Inv, TunnelInv
  <1>2. cached \in BOOLEAN
    BY Zenon DEF Inv
  <1>3. net' = net => \A p \in net' \ net : PacketInv(p)'
    BY Zenon
  <1>4. UNCHANGED <<cached, gen, process, issued>>
    BY Zenon DEF cktp_open_tunnel, cktp_encodings_connect, cktp_connect, cktp_send_request_send,
           cktp_send_request_timeout, cktp_send_request_error, cktp_close_tunnel, server
  <1>5. ASSUME NEW q \in TunnelState, q.session = r.session, q.state = r.state,
               tunnel' = [tunnel EXCEPT ![t] = Closed(q)], net' = net
        PROVE  Inv' /\ SameSessions
    BY <1>3, <1>4, <1>5, ClosedIs, Quiet, Zenon
  <1>6. CASE cktp_open_tunnel(t)
    <2> DEFINE q == [r EXCEPT !.pc = "connect", !.have_cert = cached]
    <2>1. q \in TunnelState /\ q.session = r.session /\ q.state = r.state /\ q.pc = "connect"
      BY <1>1, <1>2, ZenonT(60) DEF TunnelState
    <2>2. tunnel' = [tunnel EXCEPT ![t] = q] \/ tunnel' = [tunnel EXCEPT ![t] = Closed(q)]
      BY <1>6, Zenon DEF cktp_open_tunnel
    <2>3. net' = net
      BY <1>6, Zenon DEF cktp_open_tunnel
    <2> HIDE DEF q
    <2>4. CASE tunnel' = [tunnel EXCEPT ![t] = q]
      BY <1>3, <1>4, <2>1, <2>3, <2>4, Quiet, Zenon
    <2> QED BY <1>5, <2>1, <2>2, <2>3, <2>4, Zenon
  <1>7. CASE cktp_encodings_connect(t)
    <2>1. net' = net
      BY <1>7, Zenon DEF cktp_encodings_connect
    <2>2. CASE tunnel' = [tunnel EXCEPT ![t] = Request([r EXCEPT !.rounds = @ + 1], t, r.state)]
               /\ r.state # "done"
      <3> DEFINE n == r.rounds + 1
                 q == [r EXCEPT !.rounds = n]
                 s == Request(q, t, r.state)
      <3>0. n \in Nat
        BY <1>1 DEF TunnelState
      <3>1. q \in TunnelState /\ q.session = r.session /\ q.state = r.state
        <4> HIDE DEF n
        <4> QED BY <1>1, <3>0 DEF TunnelState
      <3>2. r.state \in RequestType
        BY <1>1, <2>2, Zenon DEF TunnelState, RequestType
      <3> HIDE DEF q
      <3>3. /\ s \in TunnelState /\ s.seq = <<t, s.requests>> /\ s.buff \in RequestBody
            /\ s.session = r.session /\ s.state = r.state
        BY <3>1, <3>2, RequestIs, Zenon
      <3>4. tunnel' = [tunnel EXCEPT ![t] = s]
        BY <2>2, Zenon DEF q
      <3> HIDE DEF s
      <3> QED BY <1>3, <1>4, <2>1, <3>3, <3>4, Quiet, Zenon
    <2>3. CASE tunnel' = [tunnel EXCEPT ![t] = [r EXCEPT !.open_encodings = @ + 1, !.rounds = 0]]
               /\ r.pc = "connect"
      <3> DEFINE n == r.open_encodings + 1
                 s == [r EXCEPT !.open_encodings = n, !.rounds = 0]
      <3>0. n \in Nat
        BY <1>1 DEF TunnelState
      <3>1. s \in TunnelState /\ s.session = r.session /\ s.state = r.state /\ s.pc = "connect"
        <4> HIDE DEF n
        <4> QED BY <1>1, <2>3, <3>0, ZenonT(60) DEF TunnelState
      <3>2. tunnel' = [tunnel EXCEPT ![t] = s]
        BY <2>3, Zenon
      <3> HIDE DEF s
      <3> QED BY <1>3, <1>4, <2>1, <3>1, <3>2, Quiet, Zenon
    <2> QED BY <1>7, <2>2, <2>3, Zenon DEF cktp_encodings_connect
  <1>8. CASE cktp_connect(t)
    <2> DEFINE type == IF r.auth_id = None THEN "auth" ELSE "info"
               s == Request(r, t, type)
    <2>1. type \in RequestType
      BY Zenon DEF RequestType
    <2>2. tunnel' = [tunnel EXCEPT ![t] = s] /\ net' = net
      BY <1>8, Zenon DEF cktp_connect
    <2> HIDE DEF type
    <2>3. /\ s \in TunnelState /\ s.seq = <<t, s.requests>> /\ s.buff \in RequestBody
          /\ s.session = r.session /\ s.state = r.state
      BY <1>1, <2>1, RequestIs, Zenon
    <2> HIDE DEF s
    <2> QED BY <1>3, <1>4, <2>2, <2>3, Quiet, Zenon
  <1>9. CASE cktp_send_request_send(t)
    <2>1. CASE tunnel' = [tunnel EXCEPT ![t] = Closed(r)] /\ net' = net
      BY <1>1, <1>5, <2>1, Zenon
    <2>2. CASE /\ net' = net \cup {cktp_send_packet(r, t)} /\ r.pc = "send"
               /\ tunnel' = [tunnel EXCEPT ![t] =
                               [cktp_add_transport_header(r) EXCEPT !.pc = "wait"]]
      <3> DEFINE q == cktp_add_transport_header(r)
                 s == [q EXCEPT !.pc = "wait"]
      <3>1. /\ q \in TunnelState /\ q.session = r.session /\ q.state = r.state
            /\ q.seq = r.seq /\ q.requests = r.requests /\ q.buff = r.buff
        BY <1>1, HeaderIs, Zenon
      <3> HIDE DEF q
      <3>2. /\ s \in TunnelState /\ s.session = r.session /\ s.state = r.state
            /\ s.seq = r.seq /\ s.requests = r.requests /\ s.buff = r.buff
        BY <3>1 DEF TunnelState
      <3>3. tunnel' = [tunnel EXCEPT ![t] = s]
        BY <2>2, Zenon DEF q
      <3>4. PICK x : x = cktp_send_packet(r, t)
        BY Zenon
      <3>5. PacketInv(x)'
        <4>1. x.to = "server" /\ x.body = r.buff
          BY <3>4, Zenon DEF cktp_send_packet
        <4> QED BY <1>1, <2>2, <4>1, Zenon DEF PacketInv
      <3>6. \A p \in net' \ net : PacketInv(p)'
        BY <2>2, <3>4, <3>5, Zenon
      <3> HIDE DEF s
      <3> QED BY <1>1, <1>4, <2>2, <3>2, <3>3, <3>6, Quiet, Zenon
    <2> QED BY <1>9, <2>1, <2>2, Zenon DEF cktp_send_request_send
  <1>10. CASE cktp_send_request_timeout(t)
    <2> DEFINE n == r.retry + 1
               s == [r EXCEPT !.pc = "send", !.retry = n]
    <2>0. n \in Nat
      BY <1>1 DEF TunnelState
    <2>1. tunnel' = [tunnel EXCEPT ![t] = s] /\ net' = net /\ r.pc = "wait"
      BY <1>1, <1>10, Zenon DEF cktp_send_request_timeout
    <2>2. /\ s \in TunnelState /\ s.session = r.session /\ s.state = r.state
          /\ s.seq = r.seq /\ s.requests = r.requests /\ s.buff = r.buff
      <3> HIDE DEF n
      <3> QED BY <1>1, <2>0, ZenonT(60) DEF TunnelState
    <2> HIDE DEF s
    <2> QED BY <1>1, <1>3, <1>4, <2>1, <2>2, Quiet, Zenon
  <1>11. CASE cktp_send_request_error(t) \/ cktp_close_tunnel(t)
    <2>1. tunnel' = [tunnel EXCEPT ![t] = Closed(r)] /\ net' = net
      BY <1>11, Zenon DEF cktp_send_request_error, cktp_close_tunnel
    <2> QED BY <1>1, <1>5, <2>1, Zenon
  <1> QED BY <1>6, <1>7, <1>8, <1>9, <1>10, <1>11, Zenon

-----------------------------------------------------------------------------
(* Tunnel t takes a session that was made and that no tunnel has. *)
Takes(t, k) ==
    /\ tunnel[t].session = None /\ k \in issued
    /\ \A u \in Tunnel : tunnel[u].session # k
    /\ \A u \in Tunnel : tunnel'[u].session = IF u = t THEN k ELSE tunnel[u].session

LEMMA Delivers ==
    ASSUME NEW p \in net, NEW replies, Deliver(p, replies)
    PROVE  net' \ net \subseteq replies
  BY Zenon DEF Deliver

LEMMA Receives ==
    ASSUME Inv, NEW t \in Tunnel, cktp_send_request_recv(t)
    PROVE  Inv' /\ issued' = issued /\ (SameSessions \/ \E k : Takes(t, k))
  <1> DEFINE r == tunnel[t]
  <1>1. PICK p \in net : /\ cktp_recv_packet(r, t, p) /\ r.pc = "wait"
                         /\ tunnel' = [tunnel EXCEPT ![t] = Handled(r, p.body)]
                         /\ Deliver(p, {})
    BY Zenon DEF cktp_send_request_recv
  <1>2. PICK s : s = Handled(r, p.body)
    BY Zenon
  <1>3. TunnelInv(r, t) /\ PacketInv(p) /\ issued \subseteq Session /\ DOMAIN tunnel = Tunnel
    BY Zenon DEF Inv
  <1>4. p.to = "client"
    BY <1>1, Zenon DEF cktp_recv_packet
  <1>5. TunnelInv(s, t) /\ Adopts(r, s, t, p.body)
    BY <1>1, <1>2, <1>3, <1>4, HandledIs, Zenon
  <1>6. tunnel' = [tunnel EXCEPT ![t] = s]
    BY <1>1, <1>2, Zenon
  <1>7. gen' = gen /\ process' = process /\ issued' = issued
    BY Zenon DEF cktp_send_request_recv, server
  <1>8. DOMAIN tunnel' = Tunnel /\ \A u \in Tunnel : TunnelInv(tunnel[u], u)'
    BY <1>5, <1>6, <1>7, TunnelStep, Zenon
  <1>9. \A q \in net' : PacketInv(q)'
    <2>1. net' \ net \subseteq {}
      BY <1>1, Delivers, Zenon
    <2> QED BY <1>7, <2>1, PacketsKept, Zenon
  <1>10. cached' \in BOOLEAN
    <2>1. cached' = (cached \/ (tunnel'[t].state = "done" /\ tunnel[t].state = "key"))
      BY Zenon DEF cktp_send_request_recv
    <2> QED BY <2>1, Zenon
  <1>11. gen' \in Nat /\ process' \in Nat /\ issued' \subseteq Session /\ IsFiniteSet(issued')
    BY <1>7, Zenon DEF Inv
  <1>12. Inv'
    BY <1>8, <1>9, <1>10, <1>11, Zenon DEF Inv
  <1>13. \A u \in Tunnel : tunnel'[u] = IF u = t THEN s ELSE tunnel[u]
    BY <1>3, <1>6, Zenon
  <1>14. CASE s.session = r.session
    BY <1>7, <1>12, <1>13, <1>14, Zenon DEF SameSessions
  <1>15. CASE s.session # r.session
    <2>1. PICK k : k = s.session
      BY Zenon
    <2>2. r.session = None /\ k \in issued /\ k.seq[1] = t
      BY <1>5, <1>15, <2>1, Zenon DEF Adopts
    <2>3. k # None
      BY <1>3, <2>2, NoneAssumption, Zenon
    <2>4. ASSUME NEW u \in Tunnel, tunnel[u].session = k PROVE FALSE
      <3>1. k.seq[1] = u
        BY <2>3, <2>4, Zenon DEF Inv, TunnelInv
      <3> QED BY <2>2, <2>3, <2>4, <3>1, Zenon
    <2>5. Takes(t, k)
      BY <1>13, <2>1, <2>2, <2>4, Zenon DEF Takes
    <2> QED BY <1>7, <1>12, <2>5, Zenon
  <1> QED BY <1>14, <1>15, Zenon

-----------------------------------------------------------------------------
(* The server's packets.  What it sends is in `replies'; a session may be new. *)
LEMMA ServerStep ==
    ASSUME Inv, tunnel' = tunnel, cached' = cached, gen' \in Nat, process' \in Nat,
           issued \subseteq issued', issued' \subseteq Session, IsFiniteSet(issued'),
           \A p \in net' \ net : PacketInv(p)'
    PROVE  Inv'
  <1>1. ASSUME NEW u \in Tunnel PROVE TunnelInv(tunnel[u], u)'
    <2>1. TunnelInv(tunnel[u], u)
      BY Zenon DEF Inv
    <2> QED BY <2>1, Zenon DEF TunnelInv
  <1>2. DOMAIN tunnel' = Tunnel
    BY Zenon DEF Inv
  <1>3. \A p \in net' : PacketInv(p)'
    BY PacketsKept, Zenon
  <1>4. cached' \in BOOLEAN
    BY Zenon DEF Inv
  <1> QED BY <1>1, <1>2, <1>3, <1>4, Zenon DEF Inv

LEMMA ServerKeeps ==
    ASSUME Inv, Server \/ crypt_timeout_manager \/ Restart
    PROVE  Inv' /\ issued \subseteq issued' /\ tunnel' = tunnel
  <1>1. /\ gen \in Nat /\ process \in Nat /\ issued \subseteq Session /\ IsFiniteSet(issued)
        /\ \A p \in net : PacketInv(p)
    BY Zenon DEF Inv
  <1>2. CASE crypt_server_cookie
    <2>1. UNCHANGED <<tunnel, cached, gen, process, issued>>
      BY <1>2, Zenon DEF crypt_server_cookie, server
    <2>2. PICK p \in net : Send(p, [type |-> "cookie", seq |-> p.body.seq, cookie |-> gen, under |-> None])
      BY <1>2, Zenon DEF crypt_server_cookie
    <2>3. PICK x : x = [to |-> "client", port |-> p.port, icmp |-> p.icmp,
             body |-> [type |-> "cookie", seq |-> p.body.seq, cookie |-> gen, under |-> None]]
      BY Zenon
    <2>4. net' \ net \subseteq {x}
      BY <2>2, <2>3, Delivers, Zenon DEF Send
    <2>5. PacketInv(x)'
      BY <1>1, <2>3, Zenon DEF PacketInv
    <2> QED BY <1>1, <2>1, <2>4, <2>5, ServerStep, Zenon
  <1>3. CASE crypt_server_certificate
    <2>1. UNCHANGED <<tunnel, cached, gen, process, issued>>
      BY <1>3, Zenon DEF crypt_server_certificate, server
    <2>2. PICK p \in net : Send(p, [type |-> "cert", seq |-> p.body.seq, under |-> None])
      BY <1>3, Zenon DEF crypt_server_certificate
    <2>3. PICK x : x = [to |-> "client", port |-> p.port, icmp |-> p.icmp,
             body |-> [type |-> "cert", seq |-> p.body.seq, under |-> None]]
      BY Zenon
    <2>4. net' \ net \subseteq {x}
      BY <2>2, <2>3, Delivers, Zenon DEF Send
    <2>5. PacketInv(x)'
      BY <2>3, Zenon DEF PacketInv
    <2> QED BY <1>1, <2>1, <2>4, <2>5, ServerStep
  <1>4. CASE crypt_server_key
    <2>1. UNCHANGED <<tunnel, cached, gen, process>>
      BY <1>4, Zenon DEF crypt_server_key
    <2>2. PICK p \in net : LET s == [id |-> Cardinality(issued), gen |-> gen, process |-> process,
                                     seq |-> p.body.seq, cookie |-> p.body.cookie]
                           IN  /\ p.to = "server" /\ p.body.cookie = gen
                               /\ issued' = issued \cup {s}
                               /\ Send(p, [type |-> "key", seq |-> p.body.seq, key |-> p.body.key,
                                           session |-> s, under |-> None])
      BY <1>4, Zenon DEF crypt_server_key
    <2>3. PICK s : s = [id |-> Cardinality(issued), gen |-> gen, process |-> process,
                        seq |-> p.body.seq, cookie |-> p.body.cookie]
      BY Zenon
    <2>4. PICK x : x = [to |-> "client", port |-> p.port, icmp |-> p.icmp,
             body |-> [type |-> "key", seq |-> p.body.seq, key |-> p.body.key,
                       session |-> s, under |-> None]]
      BY Zenon
    <2>5. s \in Session /\ s.seq = p.body.seq
      <3>1. Cardinality(issued) \in Nat
        BY <1>1, FS_CardinalityType, Zenon
      <3>2. p.body.seq \in Tunnel \X Nat
        BY <1>1, <2>2, Zenon DEF PacketInv, RequestBody, SeqNumber
      <3> QED BY <1>1, <2>2, <2>3, <3>1, <3>2, Zenon DEF Session
    <2>6. issued' = issued \cup {s}
      BY <2>2, <2>3, Zenon
    <2>7. IsFiniteSet(issued')
      BY <1>1, <2>6, FS_AddElement, Zenon
    <2>8. net' \ net \subseteq {x}
      BY <2>2, <2>3, <2>4, Delivers, Zenon DEF Send
    <2>9. PacketInv(x)'
      BY <2>4, <2>5, <2>6 DEF PacketInv
    <2> QED BY <1>1, <2>1, <2>5, <2>6, <2>7, <2>8, <2>9, ServerStep, Zenon
  <1>5. CASE cktp_server_message
    <2>1. UNCHANGED <<tunnel, cached, gen, process, issued>>
      BY <1>5, Zenon DEF cktp_server_message, server
    <2>2. PICK p \in net : p.body.type \in {"auth", "info"} /\ Send(p, cktp_request(p.body))
      BY <1>5, Zenon DEF cktp_server_message
    <2>3. PICK x : x = [to |-> "client", port |-> p.port, icmp |-> p.icmp,
                        body |-> cktp_request(p.body)]
      BY Zenon
    <2>4. net' \ net \subseteq {x}
      BY <2>2, <2>3, Delivers, Zenon DEF Send
    <2>5. PacketInv(x)'
      <3>1. x.to = "client" /\ x.body.type \in {"auth", "info"} /\ x.body.auth_id = process
        BY <2>2, <2>3, Zenon DEF cktp_request
      <3> QED BY <1>1, <3>1, Zenon DEF PacketInv
    <2> QED BY <1>1, <2>1, <2>4, <2>5, ServerStep
  <1>6. CASE crypt_server_drop
    <2>1. UNCHANGED <<tunnel, cached, gen, process, issued>>
      BY <1>6, Zenon DEF crypt_server_drop, server
    <2>2. net' \ net \subseteq {}
      BY <1>6, Delivers, Zenon DEF crypt_server_drop
    <2> QED BY <1>1, <2>1, <2>2, ServerStep, Zenon
  <1>7. CASE crypt_timeout_manager \/ Restart
    <2>1. UNCHANGED <<tunnel, cached, issued, net>>
      BY <1>7, Zenon DEF crypt_timeout_manager, Restart
    <2>2. gen' \in Nat /\ process' \in Nat
      BY <1>1, <1>7 DEF crypt_timeout_manager, Restart
    <2> QED BY <1>1, <2>1, <2>2, ServerStep, Zenon
  <1> QED BY <1>2, <1>3, <1>4, <1>5, <1>6, <1>7, Zenon DEF Server

-----------------------------------------------------------------------------
LEMMA InvNext == Inv /\ [Next]_vars => Inv'
  <1> SUFFICES ASSUME Inv, [Next]_vars PROVE Inv'
    BY Zenon
  <1>1. CASE UNCHANGED vars
    BY <1>1, Zenon DEF vars, Inv, TunnelInv, PacketInv
  <1>2. ASSUME NEW t \in Tunnel, Client(t) \/ cktp_close_tunnel(t) PROVE Inv'
    BY <1>2, ClientQuiet, Receives, Zenon DEF Client
  <1> QED BY <1>1, <1>2, ServerKeeps, Zenon DEF Next

(* The inductive invariant: what is under way and what the tunnels hold was made by
   the server for the request it answers. *)
THEOREM HandshakeInv == Spec => []Inv
  BY InvInit, InvNext, PTL DEF Spec

LEMMA SessionsSame ==
    ASSUME SameSessions, issued \subseteq issued'
    PROVE  [Agreement!Next]_<<issued, [t \in Tunnel |-> tunnel[t].session]>>
  BY Zenon DEF SameSessions, Agreement!Next, Agreement!Issue

LEMMA SessionTaken ==
    ASSUME NEW t \in Tunnel, NEW k, Takes(t, k), issued' = issued
    PROVE  Agreement!Adopt(t)
  BY Zenon DEF Takes, Agreement!Adopt

(* The handshake implements KeyAgreement: a tunnel takes only a session the server
   made (crypt_server_key), at most once, and no two tunnels take the same
   (crypt_handshake_reply checks the sequence number and the key). *)
THEOREM KeysAgreed == Spec => ImplementsKeyAgreement
  <1>1. Init => Agreement!Init
    BY DEF Init, Agreement!Init, cktp_tunnel_s
  <1>2. Inv /\ [Next]_vars => [Agreement!Next]_<<issued, [t \in Tunnel |-> tunnel[t].session]>>
    <2> SUFFICES ASSUME Inv, [Next]_vars
                 PROVE  [Agreement!Next]_<<issued, [t \in Tunnel |-> tunnel[t].session]>>
      BY Zenon
    <2>1. CASE UNCHANGED vars
      BY <2>1, Zenon DEF vars
    <2>2. ASSUME NEW t \in Tunnel, Client(t) \/ cktp_close_tunnel(t)
          PROVE  [Agreement!Next]_<<issued, [u \in Tunnel |-> tunnel[u].session]>>
      <3>1. CASE cktp_send_request_recv(t)
        <4>1. issued' = issued /\ (SameSessions \/ \E k : Takes(t, k))
          BY <3>1, Receives, Zenon
        <4> QED BY <4>1, SessionsSame, SessionTaken, Zenon DEF Agreement!Next
      <3>2. CASE ~cktp_send_request_recv(t)
        <4>1. SameSessions
          BY <2>2, <3>2, ClientQuiet, Zenon DEF Client
        <4>2. issued' = issued
          BY <2>2, <3>2, Zenon DEF Client, cktp_open_tunnel, cktp_encodings_connect, cktp_connect,
                cktp_send_request_send, cktp_send_request_timeout, cktp_send_request_error,
                cktp_close_tunnel, server
        <4> QED BY <4>1, <4>2, SessionsSame, Zenon
      <3> QED BY <3>1, <3>2, Zenon
    <2>3. CASE Server \/ crypt_timeout_manager \/ Restart
      BY <2>3, ServerKeeps, SessionsSame, Zenon DEF SameSessions
    <2> QED BY <2>1, <2>2, <2>3, Zenon DEF Next
  <1> QED BY <1>1, <1>2, HandshakeInv, PTL DEF Spec, ImplementsKeyAgreement, Agreement!Spec

=============================================================================
