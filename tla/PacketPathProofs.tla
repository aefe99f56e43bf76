-------------------------- MODULE PacketPathProofs ---------------------------
(***************************************************************************)
(* What packet_dispatch makes of a packet arrives whole and does not show  *)
(* the host name on the normal route, for any number of workers and any    *)
(* packets, while tunnels come and go.                                     *)
(***************************************************************************)
EXTENDS PacketPath, FiniteSetTheorems, TLAPS

(* The results packet_dispatch may have for a packet. *)
Matches(p) == http_url_match(p) \cup (IF p.found THEN {} ELSE {<<>>})

Results(p, c) == {packet_dispatch(c, p, m, rand) : m \in Matches(p), rand \in 0 .. MaxData}

(* What becomes of the tunneled part *)
Routed(o) ==
    {On("reflect", o.tunneled), On("lost", o.tunneled),
     On("tunnel", {cktp_tunnel_packet(q) : q \in o.tunneled})}

(* What a worker has sent of its packet, at each place *)
WorkerInv(w) ==
    /\ packet[w] \in Packet /\ config[w] \in Config
    /\ \/ /\ pc[w] \in {"get", "ready", "dispatch"}
          /\ out[w] = None /\ sent[w] = {} /\ (pc[w] # "get" => packet[w].hide)
       \/ /\ pc[w] = IF packet[w].hide THEN "unready" ELSE "done"
          /\ out[w] = None /\ sent[w] = On("normal", {Whole(packet[w])})
       \/ /\ pc[w] \in {"tunnel", "allow", "done"} /\ packet[w].hide
          /\ out[w] \in Results(packet[w], config[w])
          /\ \/ pc[w] \in {"tunnel", "done"} /\ sent[w] = {}
             \/ pc[w] = "allow" /\ sent[w] \in Routed(out[w])
             \/ /\ pc[w] = "done"
                /\ \E x \in Routed(out[w]) : sent[w] = x \cup On("normal", out[w].allowed)

Inv ==
    /\ pc \in [Dispatcher -> {"get", "ready", "unready", "dispatch", "tunnel", "allow", "done"}]
    /\ DOMAIN packet = Dispatcher /\ DOMAIN config = Dispatcher
    /\ DOMAIN out = Dispatcher /\ DOMAIN sent = Dispatcher
    /\ active \in BOOLEAN /\ leaked \in BOOLEAN
    /\ \A w \in Dispatcher : WorkerInv(w)

-----------------------------------------------------------------------------
(* The shapes of a result *)

Parts(o, first, second) ==
    /\ o.tunneled = {first}
    /\ second \in o.allowed /\ o.allowed \subseteq {second, Ghost(first)}

Fragmented(p, n, o) ==
    /\ (p.doff + n) % 8 = 0
    /\ Parts(o, Piece(p, 0, n, 0, Check(p.src, 0, p.data)),
                Piece(p, n, p.data, p.doff + n, Check(p.src, 0, p.data)))

Segmented(p, n, o) ==
    Parts(o, Piece(p, 0, n, 0, Check(p.src, 0, n)),
             Piece(p, n, p.data, 0, Check(p.src, n, p.data)))

(* The first n bytes have the first byte of the name, if a split may hide it. *)
Inside(p, c, n) == p.len > 0 /\ (c.split = "full" => p.len > 1) => n > p.host

Shaped(p, c, o) ==
    \/ o.tunneled = {} /\ o.allowed = {Whole(p)} /\ ~p.found
    \/ o.tunneled = {Whole(p)} /\ o.allowed \subseteq {Ghost(Whole(p))}
    \/ \E n \in 1 .. p.data - 1 :
         /\ c.split # "none" /\ Inside(p, c, n)
         /\ \/ c.fragment = "network" /\ Fragmented(p, n, o)
            \/ c.fragment = "transport" /\ Segmented(p, n, o)

LEMMA PacketFacts ==
    ASSUME NEW p \in Packet
    PROVE  /\ p.src \in {"public", "private"} /\ p.ihl = 20 /\ p.doff \in 0 .. 60
           /\ p.data \in 0 .. MaxData /\ p.host \in Nat /\ p.len \in Nat
           /\ p.found \in BOOLEAN /\ p.hide \in BOOLEAN
           /\ p.found => p.host > 0 /\ p.host + p.len <= p.data /\ (p.len = 0 => p.host = p.data)
           /\ MaxData \in Nat
  <1>1. p \in [src : Source, ihl : {20}, doff : TcpHeaderSize, data : 0 .. MaxData,
               found : BOOLEAN, host : 0 .. MaxData, len : 0 .. MaxData, hide : BOOLEAN]
    BY Zenon DEF Packet
  <1>2. /\ p.src \in Source /\ p.ihl = 20 /\ p.doff \in TcpHeaderSize
        /\ p.data \in 0 .. MaxData /\ p.host \in 0 .. MaxData /\ p.len \in 0 .. MaxData
    BY <1>1, Zenon
  <1>3. p.found \in BOOLEAN /\ p.hide \in BOOLEAN
    BY <1>1, Zenon
  <1>4. p.found => p.host > 0 /\ p.host + p.len <= p.data /\ (p.len = 0 => p.host = p.data)
    BY Zenon DEF Packet
  <1>5. p.src \in {"public", "private"}
    BY <1>2, PathAssumption, Zenon
  <1>6. p.doff \in 0 .. 60
    BY <1>2, PathAssumption, Zenon
  <1>7. p.host \in Nat /\ p.len \in Nat /\ MaxData \in Nat
    BY <1>2, PathAssumption
  <1> QED BY <1>2, <1>3, <1>4, <1>5, <1>6, <1>7, Zenon

(* http_url_match and split_len: the split is after the first byte of the name. *)
LEMMA SplitInside ==
    ASSUME NEW p \in Packet, NEW c \in Config, c.split # "none",
           NEW m \in http_url_match(p), NEW rand \in Nat
    PROVE  /\ split_len(c.split, m, rand) \in Nat \ {0}
           /\ Inside(p, c, split_len(c.split, m, rand))
           /\ p.found /\ m # <<>>
  <1>1. p.found /\ p.host \in Nat \ {0} /\ p.data \in Nat /\ p.len \in Nat
        /\ p.host + p.len <= p.data /\ (p.len = 0 => p.host = p.data)
    BY PacketFacts DEF http_url_match
  <1>2. PICK e \in Nat : m = <<p.host, e>> /\ e >= p.host /\ (p.len > 1 => e > p.host)
    <2>1. CASE p.host + p.len < p.data
      BY <1>1, <2>1 DEF http_url_match
    <2>2. CASE ~(p.host + p.len < p.data)
      BY <1>1, <2>2 DEF http_url_match
    <2> QED BY <2>1, <2>2, Zenon
  <1>3. m[1] = p.host /\ m[2] = e /\ m # <<>>
    BY <1>2, Zenon
  <1>4. CASE c.split = "partial"
    <2> DEFINE range == IF e - p.host < 4 THEN 0 ELSE e - p.host - 3
    <2>1. range \in Nat
      BY <1>1, <1>2
    <2>2. rand % (range + 1) \in Nat
      BY <2>1
    <2>3. split_len(c.split, m, rand) = p.host + 1 + (rand % (range + 1))
      BY <1>3, <1>4, Zenon DEF split_len
    <2> HIDE DEF range
    <2> QED BY <1>1, <1>3, <2>1, <2>2, <2>3 DEF Inside
  <1>5. CASE c.split = "full"
    BY <1>1, <1>2, <1>3, <1>5 DEF split_len, Inside
  <1> QED BY <1>4, <1>5, Zenon DEF Config

(* ip_fragment: the first fragment is longer than the split, and ends at a multiple
   of 8; both fit the buffer. *)
LEMMA FragmentAt ==
    ASSUME NEW p \in Packet, NEW k \in Nat \ {0}
    PROVE  \/ ip_fragment(p, k) = [first |-> Whole(p), second |-> {}, used |-> 0]
           \/ \E n \in 1 .. p.data - 1 :
                /\ n > k /\ (p.doff + n) % 8 = 0
                /\ ip_fragment(p, k) =
                     [first |-> Piece(p, 0, n, 0, Check(p.src, 0, p.data)),
                      second |-> {Piece(p, n, p.data, p.doff + n, Check(p.src, 0, p.data))},
                      used |-> tot_len(p) + 48]
  <1> DEFINE s == k + p.doff + (8 - ((k + p.doff) % 8))
             n == s - p.doff
  <1>1. p.doff \in Nat /\ p.data \in Nat /\ p.ihl = 20
    BY PacketFacts
  <1>2. s \in Nat /\ n \in Nat \ {0} /\ n > k /\ p.doff + n = s /\ s % 8 = 0
    BY <1>1
  <1>3. CASE s + p.ihl >= tot_len(p)
    BY <1>3, Zenon DEF ip_fragment
  <1>4. CASE ~(s + p.ihl >= tot_len(p))
    <2>1. tot_len(p) = 20 + p.doff + p.data /\ tot_len(p) \in Nat
      BY <1>1 DEF tot_len
    <2>2. n \in 1 .. p.data - 1
      <3> HIDE DEF n
      <3> QED BY <1>1, <1>2, <1>4, <2>1
    <2>3. ip_fragment(p, k) =
              [first |-> Piece(p, 0, n, 0, Check(p.src, 0, p.data)),
               second |-> {Piece(p, n, p.data, s, Check(p.src, 0, p.data))},
               used |-> ETH + s + p.ihl + ETH + p.ihl + tot_len(p) - (s + p.ihl)]
      BY <1>4, Zenon DEF ip_fragment
    <2>4. ETH + s + p.ihl + ETH + p.ihl + tot_len(p) - (s + p.ihl) = tot_len(p) + 48
      <3> HIDE DEF s
      <3> QED BY <1>1, <1>2, <2>1 DEF ETH
    <2> HIDE DEF s, n
    <2> QED BY <1>2, <2>2, <2>3, <2>4, Zenon
  <1> QED BY <1>3, <1>4, Zenon

(* What packet_dispatch makes of a packet has one of the shapes and fits the buffer. *)
LEMMA Shapes ==
    ASSUME NEW p \in Packet, NEW c \in Config, NEW o \in Results(p, c)
    PROVE  Shaped(p, c, o) /\ o.used \in Nat /\ o.used <= PACKET_BUFF_SIZE(tot_len(p))
  <1>1. PICK m \in Matches(p), rand \in 0 .. MaxData : o = packet_dispatch(c, p, m, rand)
    BY DEF Results
  <1>2. /\ p.doff \in 0 .. 60 /\ p.data \in Nat /\ p.ihl = 20 /\ rand \in Nat
        /\ tot_len(p) = 20 + p.doff + p.data /\ tot_len(p) \in Nat
    BY PacketFacts, <1>1 DEF tot_len
  <1>3. CASE c.split # "none" /\ m = <<>>
    <2>1. ~p.found
      BY <1>3, SplitInside, <1>2, Zenon DEF Matches
    <2>2. o = [tunneled |-> {}, allowed |-> {Whole(p)}, used |-> 0]
      BY <1>1, <1>3, Zenon DEF packet_dispatch
    <2> QED BY <1>2, <2>1, <2>2 DEF Shaped, PACKET_BUFF_SIZE
  <1>4. CASE ~(c.split # "none" /\ m = <<>>)
    <2> DEFINE F == IF c.split = "none" THEN [first |-> Whole(p), second |-> {}, used |-> 0]
                    ELSE IF c.fragment = "network" THEN ip_fragment(p, split_len(c.split, m, rand))
                    ELSE tcp_fragment(p, split_len(c.split, m, rand))
    <2>0. o = [tunneled |-> {F.first},
               allowed |-> F.second \cup (IF use_ghost(c, p) THEN {Ghost(F.first)} ELSE {}),
               used |-> F.used + (IF use_ghost(c, p) THEN ETH + F.first.len ELSE 0)]
      BY <1>1, <1>4, Zenon DEF packet_dispatch
    <2>1. PICK f : f = F
      BY Zenon
    <2>2. /\ o.tunneled = {f.first} /\ f.second \subseteq o.allowed
          /\ o.allowed \subseteq f.second \cup {Ghost(f.first)}
          /\ o.used = f.used + (IF use_ghost(c, p) THEN ETH + f.first.len ELSE 0)
      <3> HIDE DEF F
      <3> QED BY <2>0, <2>1, Zenon
    <2>3. CASE f = [first |-> Whole(p), second |-> {}, used |-> 0]
      <3>1. f.first = Whole(p) /\ f.second = {} /\ f.used = 0 /\ f.first.len = tot_len(p)
        BY <2>3, <1>2 DEF Whole, Piece
      <3>2. Shaped(p, c, o)
        BY <2>2, <3>1, Zenon DEF Shaped
      <3>3. o.used \in Nat /\ o.used <= PACKET_BUFF_SIZE(tot_len(p))
        BY <1>2, <2>2, <3>1 DEF PACKET_BUFF_SIZE, ETH
      <3> QED BY <3>2, <3>3, Zenon
    <2>4. CASE c.split # "none" /\ f # [first |-> Whole(p), second |-> {}, used |-> 0]
      <3>1. m \in http_url_match(p)
        BY <2>4, <1>4, Zenon DEF Matches
      <3>2. PICK k \in Nat \ {0} : k = split_len(c.split, m, rand) /\ Inside(p, c, k)
        BY <3>1, <2>4, <1>2, SplitInside, Zenon
      <3>3. CASE c.fragment = "network"
        <4>1. f = ip_fragment(p, k)
          BY <2>1, <2>4, <3>2, <3>3, Zenon
        <4>2. PICK n \in 1 .. p.data - 1 :
                /\ n > k /\ (p.doff + n) % 8 = 0
                /\ f = [first |-> Piece(p, 0, n, 0, Check(p.src, 0, p.data)),
                        second |-> {Piece(p, n, p.data, p.doff + n, Check(p.src, 0, p.data))},
                        used |-> tot_len(p) + 48]
          BY <4>1, <2>4, FragmentAt, Zenon
        <4>3. Inside(p, c, n)
          BY <3>2, <4>2, PacketFacts DEF Inside
        <4>4. Fragmented(p, n, o)
          BY <2>2, <4>2, Zenon DEF Fragmented, Parts
        <4>5. Shaped(p, c, o)
          BY <4>3, <4>4, <2>4, <3>3, Zenon DEF Shaped
        <4>6. f.used = tot_len(p) + 48 /\ f.first.len = 20 + p.doff + n
          BY <4>2, <1>2 DEF Piece
        <4>7. o.used \in Nat /\ o.used <= PACKET_BUFF_SIZE(tot_len(p))
          <5>1. n \in Nat /\ n <= p.data
            BY <4>2, <1>2
          <5> QED BY <1>2, <2>2, <5>1, <4>6 DEF PACKET_BUFF_SIZE, ETH
        <4> QED BY <4>5, <4>7, Zenon
      <3>4. CASE c.fragment = "transport"
        <4>1. f = tcp_fragment(p, k)
          BY <2>1, <2>4, <3>2, <3>4, Zenon
        <4>2. /\ k \in 1 .. p.data - 1
              /\ f = [first |-> Piece(p, 0, k, 0, Check(p.src, 0, k)),
                      second |-> {Piece(p, k, p.data, 0, Check(p.src, k, p.data))},
                      used |-> 2 * (ETH + p.ihl + p.doff) + p.data]
          BY <4>1, <2>4, <1>2 DEF tcp_fragment
        <4>3. Segmented(p, k, o)
          BY <2>2, <4>2, Zenon DEF Segmented, Parts
        <4>4. Shaped(p, c, o)
          BY <4>2, <4>3, <3>2, <2>4, <3>4, Zenon DEF Shaped
        <4>5. f.used = 2 * (ETH + p.ihl + p.doff) + p.data /\ f.first.len = 20 + p.doff + k
          BY <4>2, <1>2 DEF Piece
        <4>6. o.used \in Nat /\ o.used <= PACKET_BUFF_SIZE(tot_len(p))
          BY <1>2, <2>2, <4>2, <4>5 DEF PACKET_BUFF_SIZE, ETH
        <4> QED BY <4>4, <4>6, Zenon
      <3> QED BY <3>3, <3>4, Zenon DEF Config
    <2> QED BY <2>1, <2>3, <2>4, Zenon
  <1> QED BY <1>3, <1>4, Zenon

-----------------------------------------------------------------------------
(* The invariant *)

LEMMA Chosen == NoPacket \in Packet /\ NoConfig \in Config
  <1>1. PICK src \in Source, doff \in TcpHeaderSize : TRUE
    BY PathAssumption, Zenon
  <1>2. [src |-> src, ihl |-> 20, doff |-> doff, data |-> 0, found |-> FALSE,
         host |-> 0, len |-> 0, hide |-> FALSE] \in Packet
    BY <1>1, PathAssumption DEF Packet
  <1>3. [split |-> "none", fragment |-> "network", ghost |-> "none"] \in Config
    BY Zenon DEF Config
  <1> QED BY <1>2, <1>3, Zenon DEF NoPacket, NoConfig

LEMMA InvInit == Init => Inv
  <1> SUFFICES ASSUME Init PROVE Inv
    BY Zenon
  <1>1. ASSUME NEW w \in Dispatcher PROVE WorkerInv(w)
    BY <1>1, Chosen, Zenon DEF Init, WorkerInv
  <1> QED BY <1>1, Zenon DEF Init, Inv

(* A step of worker w changes nothing of another worker. *)
LEMMA OthersSame ==
    ASSUME Inv, NEW w \in Dispatcher, WorkerStep(w)
    PROVE  /\ \A v \in Dispatcher \ {w} : WorkerInv(v)'
           /\ DOMAIN packet' = Dispatcher /\ DOMAIN config' = Dispatcher
           /\ DOMAIN out' = Dispatcher /\ DOMAIN sent' = Dispatcher
           /\ pc' \in [Dispatcher -> {"get", "ready", "unready", "dispatch", "tunnel", "allow", "done"}]
           /\ active' \in BOOLEAN /\ leaked' \in BOOLEAN
  <1> USE DEF get_packet, tunnel_ready, dispatch, tunnel_packets, inject_packet, NextPacket
  <1>1. \A v \in Dispatcher \ {w} :
          /\ pc'[v] = pc[v] /\ packet'[v] = packet[v] /\ config'[v] = config[v]
          /\ out'[v] = out[v] /\ sent'[v] = sent[v]
    BY DEF WorkerStep, Inv
  <1>2. /\ DOMAIN packet' = Dispatcher /\ DOMAIN config' = Dispatcher
        /\ DOMAIN out' = Dispatcher /\ DOMAIN sent' = Dispatcher
    BY Zenon DEF WorkerStep, Inv
  <1>3. pc' \in [Dispatcher -> {"get", "ready", "unready", "dispatch", "tunnel", "allow", "done"}]
    BY DEF WorkerStep, Inv
  <1>4. active' \in BOOLEAN /\ leaked' \in BOOLEAN
    BY Zenon DEF WorkerStep, Inv
  <1>5. ASSUME NEW v \in Dispatcher \ {w} PROVE WorkerInv(v)'
    <2>1. WorkerInv(v)
      BY Zenon DEF Inv
    <2> QED BY <1>1, <2>1, Zenon DEF WorkerInv
  <1> QED BY <1>2, <1>3, <1>4, <1>5, Zenon

LEMMA InvWorker ==
    ASSUME Inv, NEW w \in Dispatcher, WorkerStep(w)
    PROVE  WorkerInv(w)'
  <1>1. /\ pc[w] \in {"get", "ready", "unready", "dispatch", "tunnel", "allow", "done"}
        /\ DOMAIN pc = Dispatcher /\ DOMAIN packet = Dispatcher /\ DOMAIN config = Dispatcher
        /\ DOMAIN out = Dispatcher /\ DOMAIN sent = Dispatcher
    BY Zenon DEF Inv
  <1>2. WorkerInv(w)
    BY Zenon DEF Inv
  <1>3. CASE get_packet(w)
    BY <1>1, <1>2, <1>3 DEF get_packet, WorkerInv
  <1>4. CASE tunnel_ready(w)
    BY <1>1, <1>2, <1>4, Zenon DEF tunnel_ready, WorkerInv
  <1>5. CASE dispatch(w)
    <2>1. /\ packet'[w] = packet[w] /\ config'[w] = config[w] /\ sent'[w] = {} /\ pc'[w] = "tunnel"
          /\ packet[w] \in Packet /\ config[w] \in Config /\ packet[w].hide
      BY <1>1, <1>2, <1>5, Zenon DEF dispatch, WorkerInv
    <2>2. out'[w] \in Results(packet[w], config[w])
      BY <1>1, <1>5 DEF dispatch, Results, Matches
    <2> QED BY <2>1, <2>2, Zenon DEF WorkerInv
  <1>6. CASE tunnel_packets(w)
    <2>1. /\ packet'[w] = packet[w] /\ config'[w] = config[w] /\ out'[w] = out[w]
          /\ packet[w] \in Packet /\ config[w] \in Config /\ packet[w].hide
          /\ out[w] \in Results(packet[w], config[w]) /\ sent[w] = {}
      BY <1>1, <1>2, <1>6, Zenon DEF tunnel_packets, WorkerInv
    <2>2. \/ pc'[w] = "done" /\ sent'[w] = {}
          \/ pc'[w] = "allow" /\ \E mtu \in Mtu : sent'[w] \in Through(w, mtu)
      BY <1>1, <1>6, <2>1 DEF tunnel_packets
    <2>3. ASSUME NEW mtu \in Mtu PROVE Through(w, mtu) \subseteq Routed(out[w])
      BY Zenon DEF Through, Routed
    <2> QED BY <2>1, <2>2, <2>3, Zenon DEF WorkerInv
  <1>7. CASE inject_packet(w)
    <2>1. /\ packet'[w] = packet[w] /\ config'[w] = config[w] /\ out'[w] = out[w]
          /\ pc'[w] = "done" /\ sent'[w] = sent[w] \cup On("normal", out[w].allowed)
      BY <1>1, <1>7, Zenon DEF inject_packet
    <2>2. /\ packet[w] \in Packet /\ config[w] \in Config /\ packet[w].hide
          /\ out[w] \in Results(packet[w], config[w]) /\ sent[w] \in Routed(out[w])
      BY <1>2, <1>7, Zenon DEF inject_packet, WorkerInv
    <2> QED BY <2>1, <2>2, Zenon DEF WorkerInv
  <1>8. CASE NextPacket(w)
    BY <1>1, <1>2, <1>8, Chosen, Zenon DEF NextPacket, WorkerInv
  <1> QED BY <1>3, <1>4, <1>5, <1>6, <1>7, <1>8, Zenon DEF WorkerStep

LEMMA InvNext == Inv /\ [Next]_vars => Inv'
  <1> SUFFICES ASSUME Inv, [Next]_vars PROVE Inv'
    BY Zenon
  <1>1. ASSUME NEW w \in Dispatcher, WorkerStep(w) PROVE Inv'
    <2>1. \A v \in Dispatcher : WorkerInv(v)'
      BY <1>1, OthersSame, InvWorker, Zenon
    <2> QED BY <1>1, <2>1, OthersSame, Zenon DEF Inv
  <1>2. CASE TunnelChange \/ UNCHANGED vars
    <2>1. UNCHANGED <<pc, packet, config, out, sent, leaked>> /\ active' \in BOOLEAN
      BY <1>2, Zenon DEF TunnelChange, vars, Inv
    <2>2. ASSUME NEW w \in Dispatcher PROVE WorkerInv(w)'
      BY <2>1, Zenon DEF Inv, WorkerInv
    <2> QED BY <2>1, <2>2, Zenon DEF Inv
  <1> QED BY <1>1, <1>2, Zenon DEF Next

THEOREM PathInv == Spec => []Inv
  BY InvInit, InvNext, PTL DEF Spec

-----------------------------------------------------------------------------
(* The name is never clear. *)

LEMMA GhostIs ==
    ASSUME NEW p, NEW from, NEW to, NEW off, NEW check
    PROVE  Ghost(Piece(p, from, to, off, check)).ghost = TRUE
  BY Zenon DEF Ghost, Piece

(* Only what packet_dispatch allows takes the normal route. *)
LEMMA ClearOf ==
    ASSUME Inv, NEW w \in Dispatcher, Hidden(w)
    PROVE  /\ Shaped(packet[w], config[w], out[w])
           /\ \A b \in Clear(w) : \E q \in out[w].allowed : ~q.ghost /\ b \in Bytes(q)
  <1>1. WorkerInv(w)
    BY DEF Inv
  <1>2. /\ packet[w] \in Packet /\ config[w] \in Config
        /\ out[w] \in Results(packet[w], config[w])
        /\ \/ sent[w] = {}
           \/ sent[w] \in Routed(out[w])
           \/ \E x \in Routed(out[w]) : sent[w] = x \cup On("normal", out[w].allowed)
    BY <1>1, Zenon DEF Hidden, WorkerInv
  <1>3. ASSUME NEW x \in Routed(out[w]), NEW y \in x PROVE y.route # "normal"
    BY <1>3 DEF Routed, On
  <1>4. ASSUME NEW y \in sent[w], y.route = "normal" PROVE y.piece \in out[w].allowed
    BY <1>2, <1>3, <1>4 DEF On
  <1>5. \A b \in Clear(w) : \E q \in out[w].allowed : ~q.ghost /\ b \in Bytes(q)
    BY <1>4, Zenon DEF Clear
  <1> QED BY <1>2, <1>5, Shapes, Zenon

(* Inv implies NameNeverClear. *)
LEMMA NameClear == Inv => NameNeverClear
  <1> SUFFICES ASSUME Inv, NEW w \in Dispatcher, Hidden(w)
               PROVE  /\ packet[w].len > 0 /\ (config[w].split = "full" => packet[w].len > 1)
                           => ~(Host(packet[w]) \subseteq Clear(w))
                      /\ config[w].split = "none" => Clear(w) = {}
    BY Zenon DEF NameNeverClear
  <1> DEFINE p == packet[w]
             c == config[w]
             o == out[w]
             Goal == /\ p.len > 0 /\ (c.split = "full" => p.len > 1) => ~(Host(p) \subseteq Clear(w))
                     /\ c.split = "none" => Clear(w) = {}
  <1>1. p \in Packet /\ p.found
    BY Zenon DEF Inv, WorkerInv, Hidden
  <1>2. p.host \in Nat /\ p.len \in Nat /\ p.data \in Nat
    BY <1>1, PacketFacts
  <1>3. p.len > 0 => p.host + 1 \in Host(p)
    BY <1>2 DEF Host
  <1>4. ASSUME o.allowed \subseteq {Ghost(Whole(p))} PROVE Goal
    <2>1. \A q \in o.allowed : q.ghost
      BY <1>4, GhostIs DEF Whole
    <2>2. Clear(w) = {}
      BY <2>1, ClearOf, Zenon
    <2> QED BY <1>3, <2>2, Zenon
  <1>5. ASSUME NEW n \in 1 .. p.data - 1, c.split # "none", Inside(p, c, n),
               NEW first, NEW second, Parts(o, first, second),
               Ghost(first).ghost = TRUE, second.from = n, second.to = p.data
        PROVE  Goal
    <2>1. \A b \in Clear(w) : b \in Bytes(second)
      BY <1>5, ClearOf, Zenon DEF Parts
    <2>2. \A b \in Clear(w) : b > n
      BY <2>1, <1>5, <1>2 DEF Bytes
    <2>3. n > p.host => p.host + 1 \notin Clear(w)
      BY <2>2, <1>2
    <2> QED BY <1>5, <1>3, <2>3, Zenon DEF Inside
  <1>6. ASSUME NEW n \in 1 .. p.data - 1, c.split # "none", Inside(p, c, n), Fragmented(p, n, o)
        PROVE  Goal
    <2> DEFINE first == Piece(p, 0, n, 0, Check(p.src, 0, p.data))
               second == Piece(p, n, p.data, p.doff + n, Check(p.src, 0, p.data))
    <2>1. Parts(o, first, second)
      BY <1>6, Zenon DEF Fragmented
    <2>2. Ghost(first).ghost = TRUE /\ second.from = n /\ second.to = p.data
      BY GhostIs, Zenon DEF Piece
    <2> HIDE DEF first, second, p, c, o, Goal
    <2> QED BY <1>5, <1>6, <2>1, <2>2, Zenon
  <1>7. ASSUME NEW n \in 1 .. p.data - 1, c.split # "none", Inside(p, c, n), Segmented(p, n, o)
        PROVE  Goal
    <2> DEFINE first == Piece(p, 0, n, 0, Check(p.src, 0, n))
               second == Piece(p, n, p.data, 0, Check(p.src, n, p.data))
    <2>1. Parts(o, first, second)
      BY <1>7, Zenon DEF Segmented
    <2>2. Ghost(first).ghost = TRUE /\ second.from = n /\ second.to = p.data
      BY GhostIs, Zenon DEF Piece
    <2> HIDE DEF first, second, p, c, o, Goal
    <2> QED BY <1>5, <1>7, <2>1, <2>2, Zenon
  <1>8. Shaped(p, c, o)
    BY ClearOf, Zenon
  <1>9. Goal
    <2> HIDE DEF p, c, o, Goal
    <2> QED BY <1>1, <1>4, <1>6, <1>7, <1>8, Zenon DEF Shaped
  <1> QED BY <1>9, Zenon

-----------------------------------------------------------------------------
(* The destination gets the whole packet. *)

(* How a piece arrives *)
Land(route, q) ==
    [q EXCEPT !.src = "public", !.check.src = IF route = "normal" THEN "public" ELSE @]
Lands(q, from, to, off, check) ==
    q.from = from /\ q.to = to /\ q.off = off /\ q.check = check

(* The NAT, or cktp_tunnel_packet, makes the checksum one of the public address. *)
LEMMA LandNormal ==
    ASSUME NEW p, NEW from, NEW to, NEW off, NEW src, NEW a, NEW b
    PROVE  Lands(Land("normal", Piece(p, from, to, off, Check(src, a, b))),
                 from, to, off, Check("public", a, b))
  <1> DEFINE q == Piece(p, from, to, off, Check(src, a, b))
  <1>1. Land("normal", q).from = from /\ Land("normal", q).to = to /\ Land("normal", q).off = off
    BY Zenon DEF Land, Piece
  <1>2. Land("normal", q).check = Check("public", a, b)
    BY Zenon DEF Land, Piece, Check
  <1> QED BY <1>1, <1>2, Zenon DEF Lands

LEMMA LandTunnel ==
    ASSUME NEW p, NEW from, NEW to, NEW off, NEW a, NEW b
    PROVE  Lands(Land("tunnel", cktp_tunnel_packet(Piece(p, from, to, off, Check(p.src, a, b)))),
                 from, to, off, IF p.src = "public" THEN Check("public", a, b)
                                ELSE Check("public", from, to))
  <1> DEFINE q == Piece(p, from, to, off, Check(p.src, a, b))
             r == [q EXCEPT !.src = "public", !.check = Check("public", from, to)]
  <1>1. CASE p.src = "public"
    <2>0. cktp_tunnel_packet(q) = q
      BY <1>1, Zenon DEF cktp_tunnel_packet, Piece
    <2>1. Land("tunnel", q).from = from /\ Land("tunnel", q).to = to /\ Land("tunnel", q).off = off
      BY Zenon DEF Land, Piece
    <2>2. Land("tunnel", q).check = Check("public", a, b)
      BY <1>1, Zenon DEF Land, Piece, Check
    <2> QED BY <1>1, <2>0, <2>1, <2>2, Zenon DEF Lands
  <1>2. CASE p.src # "public"
    <2>0. cktp_tunnel_packet(q) = r
      BY <1>2, Zenon DEF cktp_tunnel_packet, Piece
    <2>1. Land("tunnel", r).from = from /\ Land("tunnel", r).to = to /\ Land("tunnel", r).off = off
      BY Zenon DEF Land, Piece
    <2>2. Land("tunnel", r).check = Check("public", from, to)
      BY Zenon DEF Land, Piece, Check
    <2> QED BY <1>2, <2>0, <2>1, <2>2, Zenon DEF Lands
  <1> QED BY <1>1, <1>2, Zenon

LEMMA TunnelReal ==
    ASSUME NEW p, NEW from, NEW to, NEW off, NEW check
    PROVE  ~cktp_tunnel_packet(Piece(p, from, to, off, check)).ghost
  BY Zenon DEF Piece, cktp_tunnel_packet

(* What arrives of the pieces that are sent *)
LEMMA ArrivedWhole ==
    ASSUME NEW w \in Dispatcher, NEW q, ~q.ghost, sent[w] = On("normal", {q})
    PROVE  Arrived(w) = {Land("normal", q)}
  <1> DEFINE S == {y \in sent[w] : y.route \in {"tunnel", "normal"} /\ ~y.piece.ghost}
             t == [route |-> "normal", piece |-> q]
  <1>1. S = {t}
    BY DEF On
  <1>2. Arrived(w) = {Land(x.route, x.piece) : x \in S}
    BY Zenon DEF Arrived, Land
  <1>3. t.route = "normal" /\ t.piece = q
    BY Zenon
  <1> HIDE DEF S, t
  <1> QED BY <1>1, <1>2, <1>3, Zenon

LEMMA ArrivedParts ==
    ASSUME NEW w \in Dispatcher, NEW first, NEW more, NEW second,
           ~cktp_tunnel_packet(first).ghost, Ghost(first).ghost,
           \A q \in second : ~q.ghost,
           second \subseteq more, more \subseteq second \cup {Ghost(first)},
           sent[w] = On("tunnel", {cktp_tunnel_packet(q) : q \in {first}}) \cup On("normal", more)
    PROVE  Arrived(w) = {Land("tunnel", cktp_tunnel_packet(first))} \cup {Land("normal", q) : q \in second}
  <1> DEFINE t == [route |-> "tunnel", piece |-> cktp_tunnel_packet(first)]
             S == {y \in sent[w] : y.route \in {"tunnel", "normal"} /\ ~y.piece.ghost}
  <1>1. sent[w] = {t} \cup On("normal", more)
    BY Zenon DEF On
  <1>2. On("normal", second) \subseteq On("normal", more)
        /\ On("normal", more) \subseteq On("normal", second) \cup On("normal", {Ghost(first)})
    BY Zenon DEF On
  <1>3. \A y \in On("normal", second) : y.route = "normal" /\ ~y.piece.ghost
    BY DEF On
  <1>4. \A y \in On("normal", {Ghost(first)}) : y.piece.ghost
    BY DEF On
  <1>5. t.route = "tunnel" /\ t.piece = cktp_tunnel_packet(first)
    BY Zenon
  <1>6. S = {t} \cup On("normal", second)
    <2> HIDE DEF t
    <2> QED BY <1>1, <1>2, <1>3, <1>4, <1>5, Zenon
  <1>7. Arrived(w) = {Land(x.route, x.piece) : x \in S}
    BY Zenon DEF Arrived, Land
  <1>8. ASSUME NEW q \in second
        PROVE  \E x \in On("normal", second) : x.route = "normal" /\ x.piece = q
    <2>1. [route |-> "normal", piece |-> q] \in On("normal", second)
      BY Zenon DEF On
    <2> QED BY <2>1, Zenon
  <1>9. \A x \in On("normal", second) : x.piece \in second
    BY DEF On
  <1>10. {Land(x.route, x.piece) : x \in On("normal", second)} = {Land("normal", q) : q \in second}
    BY <1>3, <1>8, <1>9
  <1> HIDE DEF S, t
  <1> QED BY <1>5, <1>6, <1>7, <1>10, Zenon


(* Delivered for a worker *)
WholeArrives(w) ==
    /\ UNION {Bytes(q) : q \in Arrived(w)} = 1 .. packet[w].data
    /\ \A q, r \in Arrived(w) : q # r => Bytes(q) \cap Bytes(r) = {}
    /\ \A q \in Arrived(w) :
         IF Fragments(w)
         THEN /\ q.off = 0 /\ packet[w].src = "public" =>
                    q.check = Check("public", 0, packet[w].data)
              /\ q.off # 0 => q.off = packet[w].doff + q.from /\ q.off % 8 = 0
         ELSE q.check = Check("public", q.from, q.to)

LEMMA OnePiece ==
    ASSUME NEW w \in Dispatcher, packet[w].data \in Nat, NEW a, Arrived(w) = {a},
           Lands(a, 0, packet[w].data, 0, Check("public", 0, packet[w].data))
    PROVE  WholeArrives(w)
  <1>1. ~Fragments(w)
    BY FS_Singleton DEF Fragments
  <1>2. Bytes(a) = 1 .. packet[w].data
    BY DEF Bytes, Lands
  <1>3. UNION {Bytes(q) : q \in Arrived(w)} = 1 .. packet[w].data
    BY <1>2, Zenon
  <1>4. \A q \in Arrived(w) : q.check = Check("public", q.from, q.to)
    BY Zenon DEF Lands
  <1> QED BY <1>1, <1>3, <1>4, Zenon DEF WholeArrives

LEMMA TwoPieces ==
    ASSUME NEW w \in Dispatcher, packet[w].data \in Nat, packet[w].doff \in Nat,
           NEW n \in 1 .. packet[w].data - 1, NEW a, NEW b, Arrived(w) = {a, b},
           NEW off, NEW s, NEW t, Lands(a, 0, n, 0, s), Lands(b, n, packet[w].data, off, t),
           \/ /\ config[w].fragment = "network"
              /\ packet[w].src = "public" => s = Check("public", 0, packet[w].data)
              /\ off = packet[w].doff + n /\ off % 8 = 0
           \/ /\ config[w].fragment # "network"
              /\ s = Check("public", 0, n) /\ t = Check("public", n, packet[w].data)
    PROVE  WholeArrives(w)
  <1>1. /\ a.from = 0 /\ a.to = n /\ a.off = 0 /\ a.check = s
        /\ b.from = n /\ b.to = packet[w].data /\ b.off = off /\ b.check = t
    BY Zenon DEF Lands
  <1>2. a # b
    BY <1>1
  <1>3. Bytes(a) = 1 .. n /\ Bytes(b) = n + 1 .. packet[w].data
    BY <1>1 DEF Bytes
  <1>4. UNION {Bytes(q) : q \in Arrived(w)} = Bytes(a) \cup Bytes(b)
    BY Zenon
  <1>5. Bytes(a) \cup Bytes(b) = 1 .. packet[w].data /\ Bytes(a) \cap Bytes(b) = {}
    BY <1>3
  <1>6. \A q, r \in Arrived(w) : q # r => Bytes(q) \cap Bytes(r) = {}
    BY <1>5, Zenon
  <1>7. CASE config[w].fragment = "network"
    <2>1. Cardinality({a}) = 1 /\ IsFiniteSet({a})
      BY FS_Singleton, Zenon
    <2>2. Cardinality({a} \cup {b}) = Cardinality({a}) + 1
      BY <1>2, <2>1, FS_AddElement, Zenon
    <2>3. Arrived(w) = {a} \cup {b}
      BY Zenon
    <2>4. Fragments(w)
      BY <1>7, <2>1, <2>2, <2>3 DEF Fragments
    <2>5. /\ packet[w].src = "public" => a.check = Check("public", 0, packet[w].data)
          /\ b.off = packet[w].doff + b.from /\ b.off % 8 = 0 /\ b.off # 0
      BY <1>1, <1>7
    <2>6. ASSUME NEW q \in Arrived(w)
          PROVE  /\ q.off = 0 /\ packet[w].src = "public" =>
                       q.check = Check("public", 0, packet[w].data)
                 /\ q.off # 0 => q.off = packet[w].doff + q.from /\ q.off % 8 = 0
      BY <1>1, <2>5, Zenon
    <2> QED BY <1>4, <1>5, <1>6, <2>4, <2>6, Zenon DEF WholeArrives
  <1>8. CASE config[w].fragment # "network"
    <2>1. ~Fragments(w)
      BY <1>8, Zenon DEF Fragments
    <2>2. ASSUME NEW q \in Arrived(w) PROVE q.check = Check("public", q.from, q.to)
      BY <1>1, <1>8, Zenon
    <2> QED BY <1>4, <1>5, <1>6, <2>1, <2>2, Zenon DEF WholeArrives
  <1> QED BY <1>7, <1>8, Zenon

(* A packet by the normal route alone *)
LEMMA NormalArrives ==
    ASSUME NEW w \in Dispatcher, packet[w] \in Packet, sent[w] = On("normal", {Whole(packet[w])})
    PROVE  WholeArrives(w)
  <1> DEFINE p == packet[w]
             a == Land("normal", Whole(p))
  <1>1. ~Whole(p).ghost
    BY Zenon DEF Whole, Piece
  <1>2. Arrived(w) = {a}
    BY <1>1, ArrivedWhole, Zenon
  <1>3. Lands(a, 0, p.data, 0, Check("public", 0, p.data))
    BY LandNormal, Zenon DEF Whole
  <1>4. p.data \in Nat
    BY PacketFacts
  <1> HIDE DEF a
  <1> QED BY <1>2, <1>3, <1>4, OnePiece, Zenon

(* A packet of which something is tunneled *)
LEMMA TunneledArrives ==
    ASSUME NEW w \in Dispatcher, packet[w] \in Packet, config[w] \in Config,
           Shaped(packet[w], config[w], out[w]), out[w].tunneled # {},
           sent[w] = On("tunnel", {cktp_tunnel_packet(q) : q \in out[w].tunneled})
                       \cup On("normal", out[w].allowed)
    PROVE  WholeArrives(w)
  <1> DEFINE p == packet[w]
             c == config[w]
             o == out[w]
             d == Check(p.src, 0, p.data)
  <1>1. p.data \in Nat /\ p.doff \in Nat
    BY PacketFacts
  <1>2. ASSUME o.tunneled = {Whole(p)}, o.allowed \subseteq {Ghost(Whole(p))}
        PROVE  WholeArrives(w)
    <2> DEFINE a == Land("tunnel", cktp_tunnel_packet(Whole(p)))
    <2>1. ~cktp_tunnel_packet(Whole(p)).ghost /\ Ghost(Whole(p)).ghost
      BY TunnelReal, GhostIs, Zenon DEF Whole
    <2>2. Arrived(w) = {a} \cup {Land("normal", q) : q \in {}}
      <3>1. sent[w] = On("tunnel", {cktp_tunnel_packet(q) : q \in {Whole(p)}})
                        \cup On("normal", o.allowed)
        BY <1>2, Zenon
      <3>2. {} \subseteq o.allowed /\ o.allowed \subseteq {} \cup {Ghost(Whole(p))}
            /\ \A q \in {} : ~q.ghost
        BY <1>2, Zenon
      <3> HIDE DEF p, o
      <3> QED BY <2>1, <3>1, <3>2, ArrivedParts, Zenon
    <2>3. Lands(a, 0, p.data, 0, Check("public", 0, p.data))
      BY LandTunnel, Zenon DEF Whole
    <2> HIDE DEF a
    <2>4. Arrived(w) = {a}
      BY <2>2, Zenon
    <2> QED BY <1>1, <2>3, <2>4, OnePiece, Zenon
  <1>3. ASSUME NEW n \in 1 .. p.data - 1, NEW off, NEW x, NEW y,
               Parts(o, Piece(p, 0, n, 0, Check(p.src, 0, x)),
                        Piece(p, n, p.data, off, Check(p.src, y, p.data))),
               \/ c.fragment = "network" /\ x = p.data /\ off = p.doff + n /\ off % 8 = 0
               \/ c.fragment = "transport" /\ x = n /\ y = n
        PROVE  WholeArrives(w)
    <2> DEFINE first == Piece(p, 0, n, 0, Check(p.src, 0, x))
               second == Piece(p, n, p.data, off, Check(p.src, y, p.data))
               a == Land("tunnel", cktp_tunnel_packet(first))
               b == Land("normal", second)
               s == IF p.src = "public" THEN Check("public", 0, x) ELSE Check("public", 0, n)
               t == Check("public", y, p.data)
    <2>1. ~cktp_tunnel_packet(first).ghost /\ Ghost(first).ghost
      BY TunnelReal, GhostIs, Zenon
    <2>2. ~second.ghost
      BY Zenon DEF Piece
    <2>3. Arrived(w) = {a} \cup {Land("normal", q) : q \in {second}}
      <3>1. o.tunneled = {first} /\ {second} \subseteq o.allowed
            /\ o.allowed \subseteq {second} \cup {Ghost(first)}
        BY <1>3, Zenon DEF Parts
      <3>2. \A q \in {second} : ~q.ghost
        BY <2>2, Zenon
      <3>3. sent[w] = On("tunnel", {cktp_tunnel_packet(q) : q \in {first}})
                        \cup On("normal", o.allowed)
        BY <3>1, Zenon
      <3> HIDE DEF first, second, o
      <3> QED BY <2>1, <3>1, <3>2, <3>3, ArrivedParts, Zenon
    <2>4. Lands(a, 0, n, 0, s)
      BY LandTunnel, Zenon
    <2>5. Lands(b, n, p.data, off, t)
      BY LandNormal, Zenon
    <2>6. Arrived(w) = {a, b}
      <3> HIDE DEF first, second, a
      <3> QED BY <2>3, Zenon
    <2>7. \/ /\ c.fragment = "network"
             /\ p.src = "public" => s = Check("public", 0, p.data)
             /\ off = p.doff + n /\ off % 8 = 0
          \/ /\ c.fragment # "network"
             /\ s = Check("public", 0, n) /\ t = Check("public", n, p.data)
      BY <1>3, Zenon
    <2> HIDE DEF a, b, s, t
    <2> QED BY <1>1, <2>4, <2>5, <2>6, <2>7, TwoPieces, Zenon
  <1>4. ASSUME NEW n \in 1 .. p.data - 1, c.fragment = "network", Fragmented(p, n, o)
        PROVE  WholeArrives(w)
    BY <1>3, <1>4, Zenon DEF Fragmented
  <1>5. ASSUME NEW n \in 1 .. p.data - 1, c.fragment = "transport", Segmented(p, n, o)
        PROVE  WholeArrives(w)
    BY <1>3, <1>5, Zenon DEF Segmented
  <1> HIDE DEF p, c, o
  <1> QED BY <1>2, <1>4, <1>5, Zenon DEF Shaped, p, c, o

(* Inv implies Delivered. *)
LEMMA ArrivesWhole == Inv => Delivered
  <1> SUFFICES ASSUME Inv, NEW w \in Dispatcher, pc[w] = "done", sent[w] # {},
                      \A x \in sent[w] : x.route \notin {"reflect", "lost"}
               PROVE  WholeArrives(w)
    BY Zenon DEF Delivered, WholeArrives
  <1>1. packet[w] \in Packet /\ config[w] \in Config /\ WorkerInv(w)
    BY Zenon DEF Inv, WorkerInv
  <1>2. CASE sent[w] = On("normal", {Whole(packet[w])})
    BY <1>1, <1>2, NormalArrives, Zenon
  <1>3. ASSUME NEW x \in Routed(out[w]), sent[w] = x \cup On("normal", out[w].allowed),
               out[w] \in Results(packet[w], config[w])
        PROVE  WholeArrives(w)
    <2>1. Shaped(packet[w], config[w], out[w])
      BY <1>1, <1>3, Shapes, Zenon
    <2>2. CASE out[w].tunneled = {}
      <3>1. x = {}
        BY <1>3, <2>2, Zenon DEF Routed, On
      <3>2. out[w].allowed = {Whole(packet[w])}
        BY <2>1, <2>2, Zenon DEF Shaped, Fragmented, Segmented, Parts
      <3> QED BY <1>1, <1>3, <3>1, <3>2, NormalArrives, Zenon
    <2>3. CASE out[w].tunneled # {}
      <3>1. x \notin {On("reflect", out[w].tunneled), On("lost", out[w].tunneled)}
        <4>1. PICK q \in out[w].tunneled : TRUE
          BY <2>3, Zenon
        <4>2. [route |-> "reflect", piece |-> q] \in On("reflect", out[w].tunneled)
              /\ [route |-> "lost", piece |-> q] \in On("lost", out[w].tunneled)
          BY Zenon DEF On
        <4> QED BY <1>3, <4>2
      <3>2. x = On("tunnel", {cktp_tunnel_packet(q) : q \in out[w].tunneled})
        BY <1>3, <3>1, Zenon DEF Routed
      <3> QED BY <1>1, <1>3, <2>1, <2>3, <3>2, TunneledArrives, Zenon
    <2> QED BY <2>2, <2>3, Zenon
  <1> QED BY <1>1, <1>2, <1>3, Zenon DEF WorkerInv

(* Inv implies BufferEnough. *)
LEMMA Fits == Inv => BufferEnough
  <1> SUFFICES ASSUME Inv, NEW w \in Dispatcher
               PROVE  out[w].used <= PACKET_BUFF_SIZE(tot_len(packet[w]))
    BY Zenon DEF BufferEnough
  <1>1. packet[w] \in Packet /\ config[w] \in Config
        /\ (out[w] = None \/ out[w] \in Results(packet[w], config[w]))
    BY Zenon DEF Inv, WorkerInv
  <1>2. CASE out[w] = None
    <2>1. tot_len(packet[w]) \in Nat
      BY <1>1, PacketFacts DEF tot_len
    <2> QED BY <1>2, <2>1 DEF None, PACKET_BUFF_SIZE
  <1>3. CASE out[w] \in Results(packet[w], config[w])
    BY <1>1, <1>3, Shapes, Zenon
  <1> QED BY <1>1, <1>2, <1>3, Zenon

-----------------------------------------------------------------------------
(* Whatever the sizes of the packet and its headers, the configuration and the
   steps of the other threads, a host name that packet_dispatch hides never takes
   the normal route as a whole (packet_dispatch.c:205-428). *)
THEOREM NameHidden == Spec => []NameNeverClear
  BY PathInv, NameClear, PTL

(* Unless a packet is dropped, lost or too big, the destination gets each of its
   bytes once, with valid checksums and offsets (packet_dispatch.c:297-428,
   cktp_client.c:877-912). *)
THEOREM PacketsDelivered == Spec => []Delivered
  BY PathInv, ArrivesWhole, PTL

(* The fragments and the ghost of a packet fit the buffer of the worker
   (packet_dispatch.h:28). *)
THEOREM BufferSuffices == Spec => []BufferEnough
  BY PathInv, Fits, PTL

=============================================================================
