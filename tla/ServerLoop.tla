----------------------------- MODULE ServerLoop -----------------------------
(***************************************************************************)
(* The listen threads of a server (cktp_server.c).  Each thread works on   *)
(* its own copy of the encodings, receives packets from the one socket of  *)
(* the tunnel, decodes them and forwards, reflects or answers them.  While *)
(* it answers, the copy of the crypt state holds the key of the client.    *)
(* The answer is built in a buffer with room in front for what the         *)
(* encodings and the transport put there.                                  *)
(*                                                                         *)
(* Sizes: each encoding and the header of a ping need one unit in front.   *)
(***************************************************************************)
EXTENDS Naturals, FiniteSets

CONSTANTS
    Thread,        \* listen threads
    Client,        \* clients, each with an address and a session key
    Transport,     \* "udp" or "ping"
    NumEncodings,  \* encodings of the tunnel, outermost first, and
    CryptIndex,    \* which of them is crypt
    MaxPackets,    \* bound: packets received
    None

VARIABLES
    received,  \* packets received so far
    thread,    \* thread[h]: what listen thread h does
    key,       \* key[k]: the key in copy k of the crypt state
    seq,       \* seq of the global crypt state, shared by all copies
    sent,      \* packets the server sent
    forwarded  \* packets sent on to their destination

vars == <<received, thread, key, seq, sent, forwarded>>

-----------------------------------------------------------------------------
(* Packets: a handshake request of crypt, a message, a packet to forward or to
   reflect, or something that does not decode. *)
Packet ==
    [kind : {"handshake", "message", "ipv4", "reflect", "bad"}, from : Client,
     saddr : Client, service : {"http", "dns", "other"}, public : BOOLEAN]

Header == IF Transport = "ping" THEN 1 ELSE 0

overhead == NumEncodings + Header

(* CKTP_ENCODING_BUFF_INIT *)
Place == overhead

(* Mutant: the threads share one crypt state. *)
cktp_clone_tunnel_Shared(h) == None

(* The copy of the encoding states that thread h uses *)
cktp_clone_tunnel(h) == h

listen_s ==
    [pc |-> "recv", packet |-> None, reply |-> Place, ptr |-> Place, layers |-> 0]

Init ==
    /\ received = 0
    /\ thread = [h \in Thread |-> listen_s]
    /\ key = [k \in Thread \cup {None} |-> None]
    /\ seq = 0
    /\ sent = {}
    /\ forwarded = {}

-----------------------------------------------------------------------------
(* cktp_is_valid_packet *)
cktp_is_valid_packet(p) ==
    /\ p.saddr = p.from
    /\ p.service \in {"http", "dns"}
    /\ p.public

(* recvfrom, then cktp_strip_transport_header, which drops what is too short *)
cktp_listen_loop_recv(h) ==
    /\ thread[h].pc = "recv"
    /\ received < MaxPackets
    /\ received' = received + 1
    /\ \E p \in Packet :
         /\ p.kind = "ipv4" \/ (p.saddr = p.from /\ p.service = "http" /\ p.public)
         /\ thread' = [thread EXCEPT ![h] = [@ EXCEPT !.pc = "decode", !.packet = p]]
    /\ UNCHANGED <<key, seq, sent, forwarded>>

(* cktp_decode_packet.  crypt_server_decode derives the key before it checks the
   MAC; a handshake request leaves the key alone and gives a reply, which has to
   go out through the encodings outside of crypt. *)
cktp_decode_packet(h) ==
    LET r == thread[h]
        k == cktp_clone_tunnel(h)
    IN  /\ r.pc = "decode"
        /\ key' = IF r.packet.kind = "handshake" THEN key
                  ELSE [key EXCEPT ![k] = r.packet.from]
        /\ thread' = [thread EXCEPT ![h] =
             CASE r.packet.kind = "bad" -> [r EXCEPT !.pc = "recv"]
               [] r.packet.kind = "handshake" -> [r EXCEPT !.pc = "reply"]
               [] OTHER -> [r EXCEPT !.pc = "handle"]]
        /\ UNCHANGED <<received, seq, sent, forwarded>>

(* Mutant: each copy of the state numbers its own packets. *)
crypt_next_seq_Own(h) == Cardinality({p \in sent : p.thread = h})

(* A number for a packet that crypt encodes (__sync_fetch_and_add) *)
crypt_next_seq(h) == seq

(* What h sends to c: the key it is encoded with and the number it carries, if it
   goes through crypt. *)
Sent(h, c, k, n) == [to |-> c, key |-> k, seq |-> n, thread |-> h]

(* Mutant: the reply also goes through the encoding that made it. *)
HandshakeReplyAt_Idx(r) == r.reply - CryptIndex - Header

(* Where the reply to a handshake starts.  The loop encodes it through its own
   variable `reply', so this is where the next reply is built. *)
HandshakeReplyAt(r) == r.reply - (CryptIndex - 1) - Header

cktp_listen_loop_reply(h) ==
    LET r == thread[h]
    IN  /\ r.pc = "reply"
        /\ thread' = [thread EXCEPT ![h] = [r EXCEPT !.pc = "recv", !.reply = HandshakeReplyAt(r)]]
        /\ sent' = sent \cup {Sent(h, r.packet.from, None, None)}
        /\ UNCHANGED <<received, key, seq, forwarded>>

(* The switch on the type of a decoded packet *)
cktp_listen_loop_ipv4(h) ==
    LET p == thread[h].packet
    IN  /\ thread[h].pc = "handle" /\ p.kind = "ipv4"
        /\ thread' = [thread EXCEPT ![h].pc = "recv"]
        /\ forwarded' = IF cktp_is_valid_packet(p) THEN forwarded \cup {p} ELSE forwarded
        /\ UNCHANGED <<received, key, seq, sent>>

(* cktp_reflect sends an ICMP packet back to the client. *)
cktp_reflect(h) ==
    /\ thread[h].pc = "handle" /\ thread[h].packet.kind = "reflect"
    /\ thread' = [thread EXCEPT ![h].pc = "recv"]
    /\ sent' = sent \cup {Sent(h, thread[h].packet.from, None, None)}
    /\ UNCHANGED <<received, key, seq, forwarded>>

(* cktp_request builds the reply at `reply'; *)
cktp_listen_loop_request(h) ==
    /\ thread[h].pc = "handle" /\ thread[h].packet.kind = "message"
    /\ thread' = [thread EXCEPT ![h] =
         [@ EXCEPT !.pc = "encode", !.ptr = thread[h].reply, !.layers = NumEncodings]]
    /\ UNCHANGED <<received, key, seq, sent, forwarded>>

(* cktp_encode_packet goes through the encodings, innermost first, and each one
   moves the start of the packet; crypt uses the key and the next number. *)
cktp_encode_packet(h) ==
    LET r == thread[h]
    IN  /\ r.pc = "encode" /\ r.layers > 0
        /\ thread' = [thread EXCEPT ![h] = [r EXCEPT !.layers = @ - 1, !.ptr = @ - 1]]
        /\ IF r.layers = CryptIndex
           THEN /\ sent' = sent \cup {Sent(h, r.packet.from, key[cktp_clone_tunnel(h)],
                                           crypt_next_seq(h))}
                /\ seq' = seq + 1
           ELSE UNCHANGED <<sent, seq>>
        /\ UNCHANGED <<received, key, forwarded>>

cktp_add_transport_header(h) ==
    LET r == thread[h]
    IN  /\ r.pc = "encode" /\ r.layers = 0
        /\ thread' = [thread EXCEPT ![h] = [r EXCEPT !.pc = "recv", !.ptr = r.ptr - Header]]
        /\ UNCHANGED <<received, key, seq, sent, forwarded>>

Loop(h) ==
    \/ cktp_listen_loop_recv(h) \/ cktp_decode_packet(h) \/ cktp_listen_loop_reply(h)
    \/ cktp_listen_loop_ipv4(h) \/ cktp_reflect(h) \/ cktp_listen_loop_request(h)
    \/ cktp_encode_packet(h) \/ cktp_add_transport_header(h)

Next == \E h \in Thread : Loop(h)

Spec == Init /\ [][Next]_vars

-----------------------------------------------------------------------------
(* A reply is encoded with the key of the client it is sent to, whatever packets
   the other threads decode between the request and the reply (the key is in the
   crypt state, which cktp_clone_tunnel copies for each thread). *)
ReplyUnderOwnKey == \A p \in sent : p.key # None => p.key = p.to

(* No two packets of the server carry the same sequence number, over all threads
   ("Get next sequence number (thread safe)", crypt_next_seq). *)
SeqOnce == \A p, q \in sent : p.seq # None /\ p.seq = q.seq => p = q

(* The reply never moves further from its place than the overhead of the tunnel,
   so that it stays in its buffer: cktp_encoding_verify allows each encoding to
   move it by the overhead of that encoding and no more. *)
ReplyInBuffer == \A h \in Thread : thread[h].reply >= overhead /\ thread[h].ptr >= 0

=============================================================================
