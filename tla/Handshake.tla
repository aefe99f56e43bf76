----------------------------- MODULE Handshake ------------------------------
(***************************************************************************)
(* How a client opens a tunnel (cktp_client.c) through the handshake of    *)
(* the crypt encoding (encodings/crypt.c), against a server that keeps no  *)
(* state for a client (crypt_server_decode, cktp_request).                 *)
(*                                                                         *)
(* The client sends one request at a time and sends it again until it gets *)
(* a reply it accepts: a cookie, the certificate unless it is in the cache,*)
(* a session key, the authentication identifier, the parameters.  The      *)
(* network loses, delays, reorders and repeats packets.  The server        *)
(* replaces its generators, and may be restarted, at any time.             *)
(*                                                                         *)
(* The ciphers are ideal: a packet can be read by who has its key and      *)
(* nobody alters one.  Random values (sequence numbers, private keys,      *)
(* session identifiers) are new each time they are drawn.                  *)
(***************************************************************************)
EXTENDS Naturals, FiniteSets

CONSTANTS
    Tunnel,            \* tunnels the client opens, possibly at the same time
    Transport,         \* "udp": a port for each tunnel; "ping": raw sockets
    NumEncodings,      \* encodings in the URL, and
    CryptIndex,        \* which of them is crypt
    CKTP_MAX_RETRIES,  \* how often a request is sent
    CKTP_MAX_ENCODING_HANDSHAKE,  \* most rounds of a handshake
    Refuses,           \* may the server's quota refuse a key request?
    Breaks,            \* may a system call on the socket fail?
    MaxRotate,         \* bound: replacements of the generators,
    MaxRestart,        \* restarts of the server, and
    MaxRepeat,         \* repeated deliveries of a packet
    None

ASSUME EncodingAssumption ==
    /\ NumEncodings \in Nat /\ CryptIndex \in 1 .. NumEncodings
    /\ CKTP_MAX_RETRIES \in Nat /\ CKTP_MAX_ENCODING_HANDSHAKE \in Nat
    /\ Transport \in {"udp", "ping"} /\ {Refuses, Breaks} \subseteq BOOLEAN

(* A session of crypt: the number it gets, the generator and the process of the
   server that made it, and the request and the cookie it was made for *)
Session == [id : Nat, gen : Nat, process : Nat, seq : Tunnel \X Nat, cookie : Nat]

ASSUME NoneAssumption == None \notin Session

VARIABLES
    tunnel,   \* tunnel[t]: a cktp_tunnel_s with its crypt state
    net,      \* packets under way
    cached,   \* is the certificate in the cache file?
    gen,      \* how often the server replaced a generator (cookie_gen, key_gen)
    process,  \* how often the server was restarted
    issued,   \* sessions the server made
    repeats   \* packets delivered again so far

vars == <<tunnel, net, cached, gen, process, issued, repeats>>

server == <<gen, process, issued>>

-----------------------------------------------------------------------------
(* `requests' numbers the requests of a tunnel and `sends' the pings; the
   pair of tunnel and number stands for the random values drawn for it. *)
cktp_tunnel_s ==
    [pc |-> "new", state |-> "cookie", have_cert |-> FALSE, seq |-> None,
     cookie |-> None, key |-> None, session |-> None, auth_id |-> None,
     open_encodings |-> 0, rounds |-> 0, retry |-> 0,
     requests |-> 0, sends |-> 0, buff |-> None, error |-> FALSE]

Init ==
    /\ tunnel = [t \in Tunnel |-> cktp_tunnel_s]
    /\ net = {}
    /\ cached \in BOOLEAN
    /\ gen = 0
    /\ process = 0
    /\ issued = {}
    /\ repeats = 0

(* What is allocated and freed is in module TunnelOpen. *)
Closed(r) == [r EXCEPT !.pc = "closed"]

cktp_close_tunnel(t) ==
    /\ tunnel[t].pc = "open"
    /\ tunnel' = [tunnel EXCEPT ![t] = Closed(@)]
    /\ UNCHANGED <<net, cached, server, repeats>>

-----------------------------------------------------------------------------
(* The network: p is delivered and the packets in `replies' are sent.  A packet
   that is delivered is gone, unless the network repeats it; one that is lost is
   never delivered. *)
Deliver(p, replies) ==
    \/ net' = (net \ {p}) \cup replies /\ repeats' = repeats
    \/ repeats < MaxRepeat /\ net' = net \cup replies /\ repeats' = repeats + 1

-----------------------------------------------------------------------------
(* The client *)

(* cktp_parse_url initialises all encodings: crypt_init looks for the
   certificate.  Resolving the name or opening the socket may fail. *)
cktp_open_tunnel(t) ==
    LET r == [tunnel[t] EXCEPT !.pc = "connect", !.have_cert = cached]
    IN  /\ tunnel[t].pc = "new"
        /\ \/ tunnel' = [tunnel EXCEPT ![t] = r]
           \/ Breaks /\ tunnel' = [tunnel EXCEPT ![t] = Closed(r)]
        /\ UNCHANGED <<net, cached, server, repeats>>

(* r with a new request of this type in its buffer, ready to be sent *)
Request(r, t, type) ==
    LET seq == <<t, r.requests + 1>>
        key == IF type = "key" THEN seq ELSE r.key
    IN  [r EXCEPT !.pc = "send", !.retry = 0, !.seq = seq, !.key = key,
                  !.requests = @ + 1,
                  !.buff = [type |-> type, seq |-> seq, cookie |-> r.cookie,
                            key |-> key, auth_id |-> r.auth_id, under |-> r.session]]

(* The loop of cktp_encodings_connect at encoding open_encodings + 1:
   crypt_handshake_request makes the next request, or has nothing to ask. *)
cktp_encodings_connect(t) ==
    LET r == tunnel[t]
        asks == /\ r.open_encodings + 1 = CryptIndex
                /\ r.rounds < CKTP_MAX_ENCODING_HANDSHAKE
                /\ r.state # "done"
    IN  /\ r.pc = "connect" /\ r.open_encodings < NumEncodings
        /\ tunnel' = [tunnel EXCEPT ![t] =
             IF asks THEN Request([r EXCEPT !.rounds = @ + 1], t, r.state)
             ELSE [r EXCEPT !.open_encodings = @ + 1, !.rounds = 0]]
        /\ UNCHANGED <<net, cached, server, repeats>>

(* cktp_connect goes on with its two messages. *)
cktp_connect(t) ==
    LET r == tunnel[t]
    IN  /\ r.pc = "connect" /\ r.open_encodings = NumEncodings
        /\ tunnel' = [tunnel EXCEPT ![t] =
             Request(r, t, IF r.auth_id = None THEN "auth" ELSE "info")]
        /\ UNCHANGED <<net, cached, server, repeats>>

(* cktp_add_transport_header: a ping carries the number of pings sent. *)
cktp_add_transport_header(r) ==
    IF Transport = "ping" THEN [r EXCEPT !.sends = @ + 1] ELSE r

cktp_send_packet(r, t) ==
    [to |-> "server", port |-> t, body |-> r.buff,
     icmp |-> cktp_add_transport_header(r).sends]

(* The outer loop of cktp_send_request *)
cktp_send_request_send(t) ==
    LET r == tunnel[t]
    IN  /\ r.pc = "send"
        /\ \/ /\ r.retry < CKTP_MAX_RETRIES
              /\ net' = net \cup {cktp_send_packet(r, t)}
              /\ tunnel' = [tunnel EXCEPT ![t] =
                              [cktp_add_transport_header(r) EXCEPT !.pc = "wait"]]
           \/ /\ r.retry = CKTP_MAX_RETRIES \/ Breaks
              /\ tunnel' = [tunnel EXCEPT ![t] = Closed(@)]
              /\ net' = net
        /\ UNCHANGED <<cached, server, repeats>>

(* Mutant: a timeout does not count. *)
cktp_send_request_timeout_Free(t) ==
    /\ tunnel[t].pc = "wait"
    /\ tunnel' = [tunnel EXCEPT ![t].pc = "send"]
    /\ UNCHANGED <<net, cached, server, repeats>>

(* The inner loop: no packet in time, *)
cktp_send_request_timeout(t) ==
    /\ tunnel[t].pc = "wait"
    /\ tunnel' = [tunnel EXCEPT ![t].pc = "send", ![t].retry = @ + 1]
    /\ UNCHANGED <<net, cached, server, repeats>>

(* select or recv fails, *)
cktp_send_request_error(t) ==
    /\ Breaks
    /\ tunnel[t].pc = "wait"
    /\ tunnel' = [tunnel EXCEPT ![t] = Closed(@)]
    /\ UNCHANGED <<net, cached, server, repeats>>

(* or a packet.  The socket gets it, the transport header is right and the open
   encodings decode it (cktp_recv_packet, cktp_decode_packet). *)
cktp_recv_packet(r, t, p) ==
    /\ p.to = "client"
    /\ Transport = "udp" => p.port = t
    /\ Transport = "ping" => p.icmp = r.sends
    /\ r.open_encodings >= CryptIndex => p.body.under = r.session

(* Mutant: replies to other requests are taken. *)
crypt_handshake_reply_AnySeq(r, b) ==
    CASE r.state = "cookie" /\ b.type = "cookie" ->
           [r EXCEPT !.cookie = b.cookie, !.state = IF r.have_cert THEN "key" ELSE "cert"]
      [] r.state = "cert" /\ b.type = "cert" ->
           [r EXCEPT !.have_cert = TRUE, !.state = "key"]
      [] r.state = "key" /\ b.type = "key" ->
           [r EXCEPT !.session = b.session, !.state = "done"]
      [] OTHER -> r

(* The state after an accepted reply; r itself for one that is not accepted
   (another length, sequence number or key). *)
crypt_handshake_reply(r, b) ==
    CASE r.state = "cookie" /\ b.type = "cookie" /\ b.seq = r.seq ->
           [r EXCEPT !.cookie = b.cookie, !.state = IF r.have_cert THEN "key" ELSE "cert"]
      [] r.state = "cert" /\ b.type = "cert" /\ b.seq = r.seq ->
           [r EXCEPT !.have_cert = TRUE, !.state = "key"]
      [] r.state = "key" /\ b.type = "key" /\ b.seq = r.seq /\ b.key = r.key ->
           [r EXCEPT !.session = b.session, !.state = "done"]
      [] OTHER -> r

(* cktp_reply_handler, then the handler of the message; an error of the server
   ends the attempt. *)
cktp_reply_handler(r, b) ==
    IF b.seq # r.seq \/ b.type \notin {"auth", "info"} THEN r
    ELSE IF b.error THEN Closed([r EXCEPT !.error = TRUE])
    ELSE IF b.type = "auth" THEN [r EXCEPT !.auth_id = b.auth_id, !.pc = "connect"]
    ELSE [r EXCEPT !.pc = "open"]

Handled(r, b) ==
    IF r.open_encodings < NumEncodings
    THEN LET s == crypt_handshake_reply(r, b)
         IN  IF s = r THEN r ELSE [s EXCEPT !.pc = "connect"]
    ELSE cktp_reply_handler(r, b)

cktp_send_request_recv(t) ==
    /\ tunnel[t].pc = "wait"
    /\ \E p \in net :
         /\ cktp_recv_packet(tunnel[t], t, p)
         /\ tunnel' = [tunnel EXCEPT ![t] = Handled(@, p.body)]
         /\ Deliver(p, {})
    /\ cached' = (cached \/ (tunnel'[t].state = "done" /\ tunnel[t].state = "key"))
    /\ UNCHANGED server

-----------------------------------------------------------------------------
(* The server *)

(* Reply to p, through the transport and the encodings p came through. *)
Send(p, b) == Deliver(p, {[to |-> "client", port |-> p.port, body |-> b, icmp |-> p.icmp]})

crypt_server_cookie ==
    /\ \E p \in net :
         /\ p.to = "server" /\ p.body.type = "cookie"
         /\ Send(p, [type |-> "cookie", seq |-> p.body.seq, cookie |-> gen, under |-> None])
    /\ UNCHANGED <<tunnel, cached, server>>

crypt_server_certificate ==
    /\ \E p \in net :
         /\ p.to = "server" /\ p.body.type = "cert"
         /\ p.body.cookie = gen
         /\ Send(p, [type |-> "cert", seq |-> p.body.seq, under |-> None])
    /\ UNCHANGED <<tunnel, cached, server>>

(* A new session: crypt_key derives its key from the current generator. *)
crypt_server_key ==
    /\ \E p \in net :
         /\ p.to = "server" /\ p.body.type = "key"
         /\ p.body.cookie = gen
         /\ LET s == [id |-> Cardinality(issued), gen |-> gen, process |-> process,
                      seq |-> p.body.seq, cookie |-> p.body.cookie]
            IN  /\ issued' = issued \cup {s}
                /\ Send(p, [type |-> "key", seq |-> p.body.seq, key |-> p.body.key,
                            session |-> s, under |-> None])
    /\ UNCHANGED <<tunnel, cached, gen, process>>

(* crypt_server_decode finds the key of a packet if its generator is one of the
   two the server has. *)
Decodes(s) == s.process = process /\ gen - s.gen \in {0, 1}

(* The reply to a message; the identifier is made from the address of the client
   and a generator of this server process. *)
cktp_request(b) ==
    [type |-> b.type, seq |-> b.seq, under |-> b.under, auth_id |-> process,
     error |-> b.type # "auth" /\ b.auth_id # process]

cktp_server_message ==
    /\ \E p \in net :
         /\ p.to = "server" /\ p.body.type \in {"auth", "info"}
         /\ Decodes(p.body.under)
         /\ Send(p, cktp_request(p.body))
    /\ UNCHANGED <<tunnel, cached, server>>

(* No reply: a stale cookie, a generator that is gone, or the quota. *)
crypt_server_drop ==
    /\ \E p \in net :
         /\ p.to = "server"
         /\ \/ p.body.type \in {"cert", "key"} /\ p.body.cookie # gen
            \/ p.body.type = "key" /\ Refuses
            \/ p.body.type \in {"auth", "info"} /\ ~Decodes(p.body.under)
         /\ Deliver(p, {})
    /\ UNCHANGED <<tunnel, cached, server>>

crypt_timeout_manager ==
    /\ gen < MaxRotate
    /\ gen' = gen + 1
    /\ UNCHANGED <<tunnel, net, cached, process, issued, repeats>>

(* Every generator of a new process is new. *)
Restart ==
    /\ process < MaxRestart
    /\ process' = process + 1
    /\ gen' = gen + 2
    /\ UNCHANGED <<tunnel, net, cached, issued, repeats>>

-----------------------------------------------------------------------------
Client(t) ==
    \/ cktp_open_tunnel(t) \/ cktp_encodings_connect(t) \/ cktp_connect(t)
    \/ cktp_send_request_send(t) \/ cktp_send_request_timeout(t)
    \/ cktp_send_request_error(t) \/ cktp_send_request_recv(t)

Server ==
    \/ crypt_server_cookie \/ crypt_server_certificate \/ crypt_server_key
    \/ cktp_server_message \/ crypt_server_drop

Next ==
    \/ \E t \in Tunnel : Client(t) \/ cktp_close_tunnel(t)
    \/ Server \/ crypt_timeout_manager \/ Restart

Spec == Init /\ [][Next]_vars

(* The client's thread runs on, and select returns once its time is up. *)
Fairness == \A t \in Tunnel : WF_vars(Client(t))

FairSpec == Spec /\ Fairness

-----------------------------------------------------------------------------
(* The sessions, seen as in KeyAgreement *)
Agreement == INSTANCE KeyAgreement WITH
    NoKey <- None, key <- [t \in Tunnel |-> tunnel[t].session]

(* The handshake implements KeyAgreement: a tunnel takes only a session the server
   made, at most once, and no two tunnels end up with the same one, whatever
   replies they get of each other's. *)
ImplementsKeyAgreement == Agreement!Spec

(* Opening a tunnel ends: cktp_open_tunnel returns whatever is lost, refused or
   too late (CKTP_MAX_RETRIES, CKTP_MAX_ENCODING_HANDSHAKE). *)
OpeningEnds ==
    \A t \in Tunnel : tunnel[t].pc = "connect" ~> tunnel[t].pc \in {"open", "closed"}

=============================================================================
