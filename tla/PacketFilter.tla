---------------------------- MODULE PacketFilter ----------------------------
(***************************************************************************)
(* What the user chooses on the options page (ui/script.js), what the      *)
(* configuration then is, and which packets the client tunnels under it    *)
(* (packet_filter.c), beside what the server agrees to forward             *)
(* (cktp_server.c).                                                        *)
(*                                                                         *)
(* An address is its first two bytes; <<255, 255>> is the broadcast        *)
(* address.  Packets are IPv4: the frames that are captured have type      *)
(* ETH_P_IP.                                                               *)
(***************************************************************************)
EXTENDS Integers, FiniteSets

CONSTANT
    NatMethod  \* methods the user may choose

VARIABLES
    options,  \* the form the user sees
    config    \* the configuration, and the hidden form of the page

vars == <<options, config>>

-----------------------------------------------------------------------------
(* The options page *)

Flag == {"syn", "ack", "psh", "fin", "rst"}

Option ==
    [enabled : BOOLEAN, dns_mode : BOOLEAN, frag_mode : {"network", "transport"},
     http_mode : {"all", "data", "url", "urlpart", "none"},
     nat_mode : {"never", "automatic", "always"}, nat_method : NatMethod]

SplitMode(http_mode) ==
    CASE http_mode = "url" -> "full" [] http_mode = "urlpart" -> "partial" [] OTHER -> "none"

(* Mutant: only packets with the PSH flag are data packets. *)
HideFlag_Psh(http_mode) ==
    [f \in Flag |-> IF http_mode = "all" THEN "set"
                    ELSE IF http_mode # "none" /\ f \in {"psh"} THEN "set" ELSE "*"]

HideFlag(http_mode) ==
    [f \in Flag |-> IF http_mode = "all" THEN "set"
                    ELSE IF http_mode # "none" /\ f \in {"ack", "psh"} THEN "set" ELSE "*"]

copyToState(o) ==
    [enabled |-> o.enabled,
     hide_tcp |-> o.http_mode # "none",
     hide_flag |-> HideFlag(o.http_mode),
     hide_tcp_data |-> o.http_mode \in {"data", "url", "urlpart"},
     split |-> SplitMode(o.http_mode),
     ghost |-> CASE o.nat_mode = "never" -> "none"
                 [] o.nat_mode = "automatic" -> "nat"
                 [] OTHER -> "always",
     ghost_set_ttl |-> o.nat_method = "ttl",
     ghost_check |-> o.nat_method = "ttl",
     fragment |-> o.frag_mode,
     hide_udp |-> o.dns_mode]

copyFromState(c) ==
    [enabled |-> c.enabled, dns_mode |-> c.hide_udp, frag_mode |-> c.fragment,
     http_mode |-> CASE ~c.hide_tcp -> "none"
                     [] c.hide_tcp /\ ~c.hide_tcp_data -> "all"
                     [] OTHER -> CASE c.split = "none" -> "data"
                                   [] c.split = "full" -> "url"
                                   [] OTHER -> "urlpart",
     nat_mode |-> CASE c.ghost = "none" -> "never"
                    [] c.ghost = "always" -> "always"
                    [] OTHER -> "automatic",
     nat_method |-> CASE c.ghost_check -> "ttl"
                      [] ~c.ghost_check /\ c.ghost_set_ttl -> "combination"
                      [] OTHER -> "checksum"]

config_default ==
    [enabled |-> TRUE, hide_tcp |-> TRUE, hide_flag |-> [f \in Flag |-> "set"],
     hide_tcp_data |-> FALSE, split |-> "none", ghost |-> "nat", ghost_check |-> TRUE,
     ghost_set_ttl |-> TRUE, fragment |-> "transport", hide_udp |-> FALSE]

(* The page is loaded with the configuration in its hidden form. *)
Init == config = config_default /\ options = copyFromState(config)

(* The user changes one option, and the page submits the form. *)
doSubmit ==
    /\ options' \in Option
    /\ Cardinality({f \in DOMAIN options : options[f] # options'[f]}) = 1
    /\ config' = copyToState(options')

doLoad == options' = copyFromState(config) /\ UNCHANGED config

Next == doSubmit \/ doLoad

Spec == Init /\ [][Next]_vars

-----------------------------------------------------------------------------
(* The filter of the client *)

TCP == 6
UDP == 17

Private(dst) ==
    \/ dst[1] \in {0, 10, 127}
    \/ dst[1] = 172 /\ dst[2] \in 16 .. 31
    \/ dst[1] = 192 /\ dst[2] = 168

(* The address and the headers of the packet *)
packet_filter_address(p) == ~Private(p.dst)

HeaderSize(protocol) == IF protocol = TCP THEN 20 ELSE 8

packet_filter_header(p) ==
    /\ p.ihl * 4 >= 20
    /\ p.protocol \in {TCP, UDP}
    /\ p.size >= HeaderSize(p.protocol)

packet_filter_tcp(c, p) ==
    /\ p.dest = 80
    /\ c.hide_tcp
    /\ \E f \in Flag : c.hide_flag[f] = IF f \in p.flags THEN "set" ELSE "unset"
    /\ c.hide_tcp_data => p.doff * 4 < p.size

packet_filter(c, p) ==
    /\ c.enabled
    /\ packet_filter_address(p) /\ packet_filter_header(p)
    /\ IF p.protocol = TCP THEN packet_filter_tcp(c, p) ELSE p.dest = 53 /\ c.hide_udp

-----------------------------------------------------------------------------
(* Packets of a TCP/IP stack: size counts the bytes after the IP header, and data is
   sent with the ACK flag. *)
Destination == {8, 10, 127, 172, 192} \X {15, 16, 31, 32, 168}

FlagSets == {{"syn"}, {"ack"}, {"ack", "psh"}, {"ack", "psh", "fin"}, {"ack", "fin"},
             {"rst"}, {"rst", "ack"}}

Data(p) == p.size > p.doff * 4

Segment ==
    [dst : Destination, ihl : {5, 6}, protocol : {TCP}, size : {20, 24, 25},
     dest : {80, 443}, flags : FlagSets, doff : {5, 6}]

Packet ==
    {p \in Segment : p.doff * 4 <= p.size /\ (Data(p) => "ack" \in p.flags)}
    \cup [dst : Destination, ihl : {5, 6}, protocol : {UDP}, size : {8, 9},
          dest : {53, 67}, flags : {{}}, doff : {5}]

(* help-contents.html:246-259: "all" tunnels every TCP packet to port 80, the modes
   for data and URLs the ones that contain data and no other, "none" none at all.
   Packets to private addresses are left alone in every mode. *)
HidesAsDescribed ==
    \A p \in {q \in Packet : q.protocol = TCP} :
        packet_filter(config, p)
            <=> /\ options.enabled /\ p.dest = 80 /\ ~Private(p.dst)
                /\ options.http_mode # "none" /\ (options.http_mode # "all" => Data(p))

=============================================================================
