----------------------------- MODULE PacketPath -----------------------------
(***************************************************************************)
(* The way of a captured packet through a worker of the client: filtering, *)
(* splitting at the host name of an HTTP request (packet_dispatch.c,       *)
(* packet_protocol.c), tunnelling one part (tunnel.c, cktp_client.c) and   *)
(* sending the other by the normal route.  Tunnels open and close at any   *)
(* time between the steps of the worker.                                   *)
(*                                                                         *)
(* Of the payload only the places of its bytes are kept: a packet that is  *)
(* sent has the bytes from + 1 .. to of it.  A checksum is what it was     *)
(* computed from: the source address and the range of bytes.               *)
(***************************************************************************)
EXTENDS Integers, FiniteSets

CONSTANTS
    Dispatcher,     \* worker threads
    TcpHeaderSize,  \* sizes of TCP headers: four times a number of four bits
    Source,         \* source addresses: "public", or "private" behind a NAT
    MaxData,        \* bound: bytes of payload
    Mtu             \* values of cktp_tunnel_get_mtu; 0: the overhead is too high

ASSUME PathAssumption ==
    /\ TcpHeaderSize \subseteq 0 .. 60 /\ MaxData \in Nat /\ Mtu \subseteq Nat
    /\ Source \subseteq {"public", "private"}
    /\ TcpHeaderSize # {} /\ Source # {}

VARIABLES
    pc,      \* pc[w]: where worker w is
    packet,  \* packet[w]: the packet it handles
    config,  \* config[w]: the configuration it read
    out,     \* out[w]: the result of packet_dispatch
    sent,    \* sent[w]: what it sent of the packet, and on which route
    active,  \* is a tunnel in tunnels_active?
    leaked   \* was tunnels_lock left locked?

vars == <<pc, packet, config, out, sent, active, leaked>>

-----------------------------------------------------------------------------
(* A packet: found, host and len say whether, where and how long the name in the
   last Host header is, which has a name unless the data ends there; hide is the
   verdict of packet_filter.  A name that is not at the end of the data is followed
   by '\r'. *)
Packet ==
    {p \in [src : Source, ihl : {20}, doff : TcpHeaderSize, data : 0 .. MaxData,
            found : BOOLEAN, host : 0 .. MaxData, len : 0 .. MaxData, hide : BOOLEAN] :
        /\ IF p.found THEN p.host > 0 /\ p.host + p.len <= p.data /\ (p.len = 0 => p.host = p.data)
           ELSE p.host = 0 /\ p.len = 0
        /\ ~p.hide => ~p.found}

Config ==
    [split : {"none", "full", "partial"}, fragment : {"network", "transport"},
     ghost : {"none", "nat", "always"}]

ETH == 14
tot_len(p) == p.ihl + p.doff + p.data

(* What is sent: the bytes from + 1 .. to, as the IP fragment at offset off, with
   the TCP checksum of its header *)
Piece(p, from, to, off, check) ==
    [from |-> from, to |-> to, off |-> off, src |-> p.src, check |-> check,
     len |-> p.ihl + (IF off = 0 THEN p.doff ELSE 0) + to - from, ghost |-> FALSE]

Check(src, from, to) == [src |-> src, from |-> from, to |-> to]

Whole(p) == Piece(p, 0, p.data, 0, Check(p.src, 0, p.data))

(* http_url_match: the possible values of start and end.  data[data_len] is not
   part of the packet and may be any byte. *)
http_url_match(p) ==
    IF ~p.found THEN {}
    ELSE IF p.host + p.len < p.data THEN {<<p.host, p.host + p.len - 1>>}
    ELSE {<<p.host, p.data>>} \cup (IF p.len > 0 THEN {<<p.host, p.data - 1>>} ELSE {})

(* Mutant: the split may be before the first byte of the name. *)
split_len_Start(split, m, rand) ==
    LET range == IF m[2] - m[1] < 4 THEN 0 ELSE m[2] - m[1] - 3
    IN  IF split = "partial" THEN m[1] + (rand % (range + 1)) ELSE m[2]

(* Where to split; rand is split_hash of the packet *)
split_len(split, m, rand) ==
    LET range == IF m[2] - m[1] < 4 THEN 0 ELSE m[2] - m[1] - 3
    IN  IF split = "partial" THEN m[1] + 1 + (rand % (range + 1)) ELSE m[2]

(* Mutant: the offset of the second fragment forgets the TCP header. *)
ip_fragment_Offset(p, split) ==
    LET s == split + p.doff + (8 - ((split + p.doff) % 8))
        n == s - p.doff
    IN  IF s + p.ihl >= tot_len(p) THEN [first |-> Whole(p), second |-> {}, used |-> 0]
        ELSE [first |-> Piece(p, 0, n, 0, Check(p.src, 0, p.data)),
              second |-> {Piece(p, n, p.data, n, Check(p.src, 0, p.data))},
              used |-> ETH + s + p.ihl + ETH + p.ihl + tot_len(p) - (s + p.ihl)]

(* Split at a multiple of 8 bytes of the IP payload; the header is not changed. *)
ip_fragment(p, split) ==
    LET s == split + p.doff + (8 - ((split + p.doff) % 8))
        n == s - p.doff
    IN  IF s + p.ihl >= tot_len(p) THEN [first |-> Whole(p), second |-> {}, used |-> 0]
        ELSE [first |-> Piece(p, 0, n, 0, Check(p.src, 0, p.data)),
              second |-> {Piece(p, n, p.data, s, Check(p.src, 0, p.data))},
              used |-> ETH + s + p.ihl + ETH + p.ihl + tot_len(p) - (s + p.ihl)]

(* Two TCP segments, each with its own checksum *)
tcp_fragment(p, split) ==
    IF split >= p.data THEN [first |-> Whole(p), second |-> {}, used |-> 0]
    ELSE [first |-> Piece(p, 0, split, 0, Check(p.src, 0, split)),
          second |-> {Piece(p, split, p.data, 0, Check(p.src, split, p.data))},
          used |-> 2 * (ETH + p.ihl + p.doff) + p.data]

Ghost(q) == [q EXCEPT !.ghost = TRUE]

is_ipv4_local_address(src) == src = "private"

use_ghost(c, p) == c.ghost = "always" \/ (c.ghost = "nat" /\ is_ipv4_local_address(p.src))

(* The size of packet_buff for packets of at most max bytes *)
PACKET_BUFF_SIZE(max) == 2 * max + 256

(* m: the match, or <<>> *)
packet_dispatch(c, p, m, rand) ==
    IF c.split # "none" /\ m = <<>>
    THEN [tunneled |-> {}, allowed |-> {Whole(p)}, used |-> 0]
    ELSE LET f == IF c.split = "none" THEN [first |-> Whole(p), second |-> {}, used |-> 0]
                  ELSE IF c.fragment = "network" THEN ip_fragment(p, split_len(c.split, m, rand))
                  ELSE tcp_fragment(p, split_len(c.split, m, rand))
         IN  [tunneled |-> {f.first},
              allowed |-> f.second \cup (IF use_ghost(c, p) THEN {Ghost(f.first)} ELSE {}),
              used |-> f.used + (IF use_ghost(c, p) THEN ETH + f.first.len ELSE 0)]

-----------------------------------------------------------------------------
NoPacket == CHOOSE p \in Packet : TRUE
NoConfig == CHOOSE c \in Config : TRUE
None == [tunneled |-> {}, allowed |-> {}, used |-> 0]

On(route, pieces) == {[route |-> route, piece |-> q] : q \in pieces}

Init ==
    /\ pc = [w \in Dispatcher |-> "get"]
    /\ packet = [w \in Dispatcher |-> NoPacket]
    /\ config = [w \in Dispatcher |-> NoConfig]
    /\ out = [w \in Dispatcher |-> None]
    /\ sent = [w \in Dispatcher |-> {}]
    /\ active \in BOOLEAN
    /\ leaked = FALSE

(* The worker captures a packet, reads the configuration and filters the packet. *)
get_packet(w) ==
    /\ pc[w] = "get"
    /\ \E p \in Packet, c \in Config :
         /\ packet' = [packet EXCEPT ![w] = p]
         /\ config' = [config EXCEPT ![w] = c]
         /\ pc' = [pc EXCEPT ![w] = IF p.hide THEN "ready" ELSE "done"]
         /\ sent' = [sent EXCEPT ![w] = IF p.hide THEN {} ELSE On("normal", {Whole(p)})]
    /\ UNCHANGED <<out, active, leaked>>

tunnel_ready(w) ==
    /\ pc[w] = "ready" /\ ~leaked
    /\ pc' = [pc EXCEPT ![w] = IF active THEN "dispatch" ELSE "unready"]
    /\ sent' = [sent EXCEPT ![w] = IF active THEN {} ELSE On("normal", {Whole(packet[w])})]
    /\ UNCHANGED <<packet, config, out, active, leaked>>

dispatch(w) ==
    /\ pc[w] = "dispatch"
    /\ \E m \in http_url_match(packet[w]) \cup (IF packet[w].found THEN {} ELSE {<<>>}),
          rand \in 0 .. MaxData :
         out' = [out EXCEPT ![w] = packet_dispatch(config[w], packet[w], m, rand)]
    /\ pc' = [pc EXCEPT ![w] = "tunnel"]
    /\ UNCHANGED <<packet, config, sent, active, leaked>>

(* The packet gets the public source address; its checksum is then computed over
   the packet that is sent. *)
cktp_tunnel_packet(q) ==
    IF q.src = "public" THEN q
    ELSE [q EXCEPT !.src = "public", !.check = Check("public", q.from, q.to)]

(* A tunnel is found: a piece that does not fit its MTU makes the server reflect
   "fragmentation needed" to the client; a piece that cannot be encoded is lost. *)
Through(w, mtu) ==
    IF \E q \in out[w].tunneled : q.len > mtu
    THEN {On("reflect", out[w].tunneled)}
    ELSE {On("tunnel", {cktp_tunnel_packet(q) : q \in out[w].tunneled}),
          On("lost", out[w].tunneled)}

(* Without a tunnel the packet is dropped.  It also is when the overhead of the
   encodings leaves no MTU, but that return does not unlock tunnels_lock. *)
tunnel_packets(w) ==
    /\ pc[w] = "tunnel" /\ ~leaked
    /\ \/ ~active /\ pc' = [pc EXCEPT ![w] = "done"] /\ UNCHANGED <<sent, leaked>>
       \/ /\ active /\ 0 \in Mtu
          /\ pc' = [pc EXCEPT ![w] = "done"] /\ leaked' = TRUE
          /\ UNCHANGED sent
       \/ /\ active
          /\ pc' = [pc EXCEPT ![w] = "allow"]
          /\ \E mtu \in Mtu \ {0} : \E x \in Through(w, mtu) : sent' = [sent EXCEPT ![w] = x]
          /\ UNCHANGED leaked
    /\ UNCHANGED <<packet, config, out, active>>

inject_packet(w) ==
    /\ pc[w] = "allow"
    /\ sent' = [sent EXCEPT ![w] = @ \cup On("normal", out[w].allowed)]
    /\ pc' = [pc EXCEPT ![w] = "done"]
    /\ UNCHANGED <<packet, config, out, active, leaked>>

NextPacket(w) ==
    /\ pc[w] \in {"done", "unready"}
    /\ pc' = [pc EXCEPT ![w] = "get"]
    /\ packet' = [packet EXCEPT ![w] = NoPacket] /\ config' = [config EXCEPT ![w] = NoConfig]
    /\ out' = [out EXCEPT ![w] = None] /\ sent' = [sent EXCEPT ![w] = {}]
    /\ UNCHANGED <<active, leaked>>

(* Other threads put the first tunnel into tunnels_active, or take the last one out. *)
TunnelChange ==
    /\ ~leaked
    /\ active' = ~active
    /\ UNCHANGED <<pc, packet, config, out, sent, leaked>>

WorkerStep(w) ==
    \/ get_packet(w) \/ tunnel_ready(w) \/ dispatch(w) \/ tunnel_packets(w)
    \/ inject_packet(w) \/ NextPacket(w)

Next == (\E w \in Dispatcher : WorkerStep(w)) \/ TunnelChange

Spec == Init /\ [][Next]_vars

-----------------------------------------------------------------------------
Bytes(q) == q.from + 1 .. q.to

Host(p) == p.host + 1 .. p.host + p.len

(* The bytes of the payload that take the normal route *)
Clear(w) == UNION {Bytes(x.piece) : x \in {y \in sent[w] : y.route = "normal" /\ ~y.piece.ghost}}

(* Does the worker hide a packet with a host name? *)
Hidden(w) == pc[w] \in {"allow", "done"} /\ packet[w].hide /\ packet[w].found

(* "only part of the URL is sent via the normal route" (help-contents.html:255-257):
   once a tunnel was found ready for a packet with a host name, the name never
   takes the normal route as a whole, even when the tunnel goes away meanwhile;
   without splitting nothing of the packet does.  The split of a name of one byte may
   be at its end. *)
NameNeverClear ==
    \A w \in Dispatcher : Hidden(w) =>
        /\ packet[w].len > 0 /\ (config[w].split = "full" => packet[w].len > 1)
             => ~(Host(packet[w]) \subseteq Clear(w))
        /\ config[w].split = "none" => Clear(w) = {}

(* What reaches the destination: the NAT changes the source of the packets on the
   normal route, and their checksums with it. *)
Arrived(w) ==
    {[x.piece EXCEPT !.src = "public", !.check.src = IF x.route = "normal" THEN "public" ELSE @] :
        x \in {y \in sent[w] : y.route \in {"tunnel", "normal"} /\ ~y.piece.ghost}}

Fragments(w) == config[w].fragment = "network" /\ Cardinality(Arrived(w)) > 1

(* Unless a packet is dropped, lost or too big, the destination gets each byte of it once:
   in segments with valid checksums, or in fragments at the right offsets that
   make up a segment with a valid checksum, if no NAT is on the way of only some of
   them (packet_dispatch.c:297-428, cktp_client.c:877-912). *)
Delivered ==
    \A w \in Dispatcher :
        pc[w] = "done" /\ sent[w] # {} /\ (\A x \in sent[w] : x.route \notin {"reflect", "lost"}) =>
            /\ UNION {Bytes(q) : q \in Arrived(w)} = 1 .. packet[w].data
            /\ \A q, r \in Arrived(w) : q # r => Bytes(q) \cap Bytes(r) = {}
            /\ \A q \in Arrived(w) :
                 IF Fragments(w)
                 THEN /\ q.off = 0 /\ packet[w].src = "public" =>
                            q.check = Check("public", 0, packet[w].data)
                      /\ q.off # 0 => q.off = packet[w].doff + q.from /\ q.off % 8 = 0
                 ELSE q.check = Check("public", q.from, q.to)

(* "Minimum size of 'buff' for 'packet_dispatch'" (packet_dispatch.h:28): the
   fragments and the ghost of the largest packet fit the buffer. *)
BufferEnough ==
    \A w \in Dispatcher : out[w].used <= PACKET_BUFF_SIZE(tot_len(packet[w]))

=============================================================================
