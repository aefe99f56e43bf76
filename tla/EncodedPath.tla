---------------------------- MODULE EncodedPath -----------------------------
(***************************************************************************)
(* The sizes of packets on their way through a tunnel: the effective MTU   *)
(* (cktp_tunnel_get_mtu), the layers the encodings put in front of a       *)
(* packet in its buffer (cktp_encode_packet), the header of the transport, *)
(* the server, which strips them again (cktp_decode_packet), and the       *)
(* answers.  A packet that is too big makes the server reflect             *)
(* "fragmentation needed" to the sender, who then sends smaller ones.      *)
(*                                                                         *)
(* The sizes are small numbers with the relations of the real ones: a      *)
(* header of UDP, ICMP or IP is of size 1 (8, 8 and 20 in the code), and   *)
(* 3 are reserved for the header of IP (60).  Only tunnels over IPv4 are   *)
(* modelled.  One packet is on its way at a time, as tunnel_packets holds  *)
(* tunnels_lock.                                                           *)
(***************************************************************************)
EXTENDS Integers, Sequences

CONSTANTS
    Tunnel,                \* the active tunnels
    Stacks,                \* the sequences of encodings a tunnel may have
    Mtus,                  \* values of config.mtu
    IP_MSS,                \* the smallest MTU; 576 in the code
    CKTP_MAX_PACKET_SIZE,  \* 8192 in the code
    MaxPacket,             \* bound: the first packets of the sender; the MTU of the link
    MaxChange,             \* bound: changes of config.mtu by the user
    MaxLoss                \* bound: packets lost

MaxIpHeader == 3
IpHeader == 1
Header == 1
ReflectSize == 3
MessageSize == 1

Transports == {"ip", "udp", "ping"}

(* Encodings: padding of a fixed or a random size, and crypt, whose packets to the client
   have no id and are smaller.  pad_init refuses a min that is greater than max. *)
Encoding == [type : {"fixed", "random", "crypt"}, min : Nat, max : Nat]

ASSUME PathAssumption ==
    /\ Stacks \subseteq Seq(Encoding) /\ Mtus \subseteq Nat
    /\ \A s \in Stacks : \A k \in 1 .. Len(s) : s[k].min <= s[k].max
    /\ {IP_MSS, CKTP_MAX_PACKET_SIZE, MaxPacket, MaxChange, MaxLoss} \subseteq Nat

VARIABLES
    tunnel,    \* tunnel[t]: its encodings, outermost first, and its transport
    mtu0,      \* config.mtu
    limit,     \* the largest packet the sender sends
    pc,        \* what is done next
    cur,       \* the tunnel that is used
    msg,       \* the buffer: its kind, position and size, and the layers in it
    layer,     \* the encoding that was done last
    wire,      \* the size of the last tunnelled packet on the link
    last,      \* what became of the last packet
    changes, losses

vars == <<tunnel, mtu0, limit, pc, cur, msg, layer, wire, last, changes, losses>>
fixedVars == <<tunnel, mtu0, limit, cur, changes, losses>>

-----------------------------------------------------------------------------
(* pad_overhead, crypt_overhead *)
Overhead(e) == IF e.type = "random" THEN e.max + 1 ELSE e.max

(* The overhead of the first n encodings of a stack *)
StackOverhead(stack, n) ==
    LET sum[k \in 0 .. Len(stack)] == IF k = 0 THEN 0 ELSE sum[k - 1] + Overhead(stack[k])
    IN  sum[n]

(* Mutant: the header of a ping is not counted. *)
overhead_NoPing(t) == StackOverhead(tunnel[t].stack, Len(tunnel[t].stack))

(* tunnel->overhead, as opened *)
overhead(t) ==
    StackOverhead(tunnel[t].stack, Len(tunnel[t].stack))
    + (IF tunnel[t].transport = "ping" THEN Header ELSE 0)

cktp_tunnel_get_mtu(t) ==
    LET mtu == mtu0 - MaxIpHeader - (IF tunnel[t].transport = "ip" THEN 0 ELSE Header)
               - overhead(t)
    IN  IF mtu < IP_MSS THEN 0 ELSE mtu

(* CKTP_ENCODING_BUFF_INIT: a message of the given size in the middle of a buffer *)
Buffer(t, kind, size, mtu) ==
    [kind |-> kind, size0 |-> size, ptr |-> overhead(t), size |-> size,
     mtu |-> mtu, link |-> mtu0, layers |-> <<>>]
Empty == [kind |-> "none", size0 |-> 0, ptr |-> 0, size |-> 0, mtu |-> 0, link |-> 0,
          layers |-> <<>>]

Init ==
    /\ tunnel \in [Tunnel -> [stack : Stacks, transport : Transports]]
    /\ mtu0 \in Mtus /\ limit = MaxPacket /\ pc = "idle" /\ cur \in Tunnel
    /\ msg = Empty /\ layer = 0 /\ wire = 0 /\ last = "none" /\ changes = 0 /\ losses = 0

(* Mutant: the sender is told the MTU of the link. *)
cktp_fragmentation_required_Link(t) == Buffer(t, "reflect", ReflectSize, mtu0)

cktp_fragmentation_required(t) == Buffer(t, "reflect", ReflectSize, cktp_tunnel_get_mtu(t))

(* The sender sends a packet of n bytes, or the client a message over the tunnel.  An
   MTU of zero makes tunnel_packets return with the lock held. *)
tunnel_packets(t, n) ==
    /\ pc = "idle" /\ cur' = t
    /\ LET mtu == cktp_tunnel_get_mtu(t)
       IN  \/ /\ mtu = 0 /\ pc' = "locked" /\ UNCHANGED <<msg, layer, last>>
           \/ /\ mtu # 0 /\ n > mtu
              /\ pc' = "encode" /\ msg' = cktp_fragmentation_required(t)
              /\ layer' = Len(tunnel[t].stack) + 1 /\ UNCHANGED last
           \/ /\ mtu # 0 /\ n <= mtu
              /\ IF n > CKTP_MAX_PACKET_SIZE
                 THEN last' = "dropped" /\ UNCHANGED <<pc, msg, layer>>
                 ELSE /\ pc' = "encode" /\ msg' = Buffer(t, "packet", n, mtu)
                      /\ layer' = Len(tunnel[t].stack) + 1 /\ UNCHANGED last
    /\ UNCHANGED <<tunnel, mtu0, limit, wire, changes, losses>>

cktp_send_message(t) ==
    /\ pc = "idle" /\ cur' = t /\ pc' = "encode"
    /\ msg' = Buffer(t, "message", MessageSize, 0) /\ layer' = Len(tunnel[t].stack) + 1
    /\ UNCHANGED <<tunnel, mtu0, limit, wire, last, changes, losses>>

-----------------------------------------------------------------------------
(* The packet is done with; r says what became of it. *)
Done(r) == pc' = "idle" /\ msg' = Empty /\ layer' = 0 /\ wire' = 0 /\ last' = r

(* pad_encode, and crypt_encode of the client and of the server: the sizes an encoding
   may put in front of a message *)
Added(e, side) ==
    CASE e.type = "fixed" -> {e.max}
      [] e.type = "random" -> {n + 1 : n \in e.min .. e.max}
      [] e.type = "crypt" -> {IF side = "client" THEN e.max ELSE e.min}

(* cktp_encoding_verify: does it find a bug in the encoding? *)
BugFound(e, moved, grown) == grown > 2 * Overhead(e) \/ moved > Overhead(e)

(* One round of the loop of cktp_encode_packet, from the last encoding to the first *)
EncodeLayer(side) ==
    LET e == tunnel[cur].stack[layer - 1]
    IN  \E n \in Added(e, side) :
          /\ msg' = [msg EXCEPT !.ptr = @ - n, !.size = @ + n,
                                !.layers = <<[enc |-> layer - 1, n |-> n, side |-> side]>> \o @]
          /\ pc' = IF BugFound(e, n, n) THEN "exit" ELSE pc
          /\ layer' = layer - 1

cktp_encode_packet ==
    /\ pc = "encode" /\ layer > 1 /\ EncodeLayer("client")
    /\ UNCHANGED <<fixedVars, wire, last>>

(* cktp_add_transport_header and send *)
cktp_send_packet ==
    /\ pc = "encode" /\ layer = 1
    /\ LET ping == IF tunnel[cur].transport = "ping" THEN Header ELSE 0
           udp == IF tunnel[cur].transport = "udp" THEN Header ELSE 0
       IN  IF msg.kind = "packet" /\ msg.size > CKTP_MAX_PACKET_SIZE
           THEN Done("dropped")
           ELSE /\ msg' = [msg EXCEPT !.ptr = @ - ping, !.size = @ + ping]
                /\ wire' = IpHeader + udp + msg'.size
                /\ pc' = "server" /\ layer' = 0 /\ UNCHANGED last
    /\ UNCHANGED fixedVars

(* The network loses what is on it. *)
Lose ==
    /\ pc \in {"server", "client"} /\ layer = 0 /\ losses < MaxLoss
    /\ losses' = losses + 1 /\ Done("lost")
    /\ UNCHANGED <<tunnel, mtu0, limit, cur, changes>>

(* The other end receives what was sent, without the headers of IP and of the transport. *)
Receive ==
    /\ pc \in {"server", "client"} /\ layer = 0
    /\ msg' = [msg EXCEPT !.ptr = 0,
                          !.size = @ - IF tunnel[cur].transport = "ping" THEN Header ELSE 0]
    /\ layer' = 1
    /\ UNCHANGED <<fixedVars, pc, wire, last>>

(* One round of the loop of cktp_decode_packet, from the first encoding to the last.  A
   layer of another encoding is not recognised. *)
DecodeLayer(from) ==
    LET e == tunnel[cur].stack[layer]
        l == Head(msg.layers)
        n == l.n
    IN  IF tunnel[cur].stack[l.enc] # e \/ l.side # from \/ msg.size <= n
        THEN Done("bad")
        ELSE /\ msg' = [msg EXCEPT !.ptr = @ + n, !.size = @ - n, !.layers = Tail(@)]
             /\ pc' = IF BugFound(e, n, 0) THEN "exit" ELSE pc
             /\ layer' = layer + 1 /\ UNCHANGED <<wire, last>>

cktp_decode_packet ==
    /\ pc \in {"server", "client"} /\ layer \in 1 .. Len(tunnel[cur].stack)
    /\ DecodeLayer(IF pc = "server" THEN "client" ELSE "server")
    /\ UNCHANGED fixedVars

(* The server has decoded a packet: it forwards it, or reflects the message to the
   sender, or begins an answer. *)
Decoded == layer = Len(tunnel[cur].stack) + 1

server_packet ==
    /\ pc = "server" /\ Decoded /\ msg.kind \in {"packet", "reflect"}
    /\ Done(IF msg.size = msg.size0 THEN msg.kind ELSE "bad")
    /\ limit' = IF msg.kind = "reflect" /\ msg.mtu < limit THEN msg.mtu ELSE limit
    /\ UNCHANGED <<tunnel, mtu0, cur, changes, losses>>

cktp_request ==
    /\ pc = "server" /\ Decoded /\ msg.kind = "message"
    /\ pc' = "answer" /\ msg' = Buffer(cur, "message", MessageSize, 0)
    /\ layer' = Len(tunnel[cur].stack) + 1
    /\ UNCHANGED <<fixedVars, wire, last>>

server_encode_packet ==
    /\ pc = "answer"
    /\ IF layer > 1 THEN EncodeLayer("server")
       ELSE /\ pc' = "client" /\ layer' = 0
            /\ LET ping == IF tunnel[cur].transport = "ping" THEN Header ELSE 0
               IN  msg' = [msg EXCEPT !.ptr = @ - ping, !.size = @ + ping]
    /\ UNCHANGED <<fixedVars, wire, last>>

reply_handler ==
    /\ pc = "client" /\ Decoded
    /\ Done(IF msg.size = msg.size0 THEN "answer" ELSE "bad")
    /\ UNCHANGED fixedVars

(* The user changes the MTU; the configuration is read for every packet. *)
config_change ==
    /\ pc = "idle" /\ changes < MaxChange /\ changes' = changes + 1
    /\ mtu0' \in Mtus \ {mtu0}
    /\ UNCHANGED <<tunnel, limit, pc, cur, msg, layer, wire, last, losses>>

PacketStep == \E t \in Tunnel, n \in 1 .. limit : tunnel_packets(t, n)

Handle ==
    \/ cktp_encode_packet \/ cktp_send_packet \/ Receive \/ cktp_decode_packet
    \/ server_packet \/ cktp_request \/ server_encode_packet \/ reply_handler

Next ==
    \/ PacketStep \/ Handle \/ Lose \/ config_change
    \/ \E t \in Tunnel : cktp_send_message(t)

Spec == Init /\ [][Next]_vars

(* The sender sends again what gets no answer; a message is sent by a tunnel that is
   opened, after which packets are sent. *)
FairSpec == Spec /\ SF_vars(PacketStep) /\ WF_vars(Handle)

-----------------------------------------------------------------------------
(* The encodings and the transport write in the buffer only
   (cktp_encoding.h:167-168, cktp_client.c:871-872, 1068-1069). *)
InBuffer ==
    pc \in {"encode", "answer"} \/ (pc \in {"server", "client"} /\ layer = 0) =>
        msg.ptr >= 0 /\ msg.ptr + msg.size <= msg.size0 + 2 * overhead(cur)

(* The sender gets its packets through: it learns an MTU that is small enough, whatever
   tunnels are used and however the user changes the configuration, unless the MTU is
   too small for a tunnel (tunnel.c:575-597, cktp_client.c:1055-1102). *)
GetsThrough == []<>(last = "packet") \/ <>(pc = "locked")

=============================================================================
