-------------------------- MODULE EndpointProofs ----------------------------
(***************************************************************************)
(* Proofs about what both ends of a tunnel rest on.                        *)
(*                                                                         *)
(* The buffers that packets are encoded in (EncodedPath), for any stacks   *)
(* of encodings, any MTUs and sizes: what is written stays in the buffer.  *)
(* The size of a buffer is computed when the tunnel is opened, from the    *)
(* overheads the encodings announce, and the sizes they add are chosen     *)
(* later, one by one.                                                      *)
(*                                                                         *)
(* The commands that start and stop servers (Commands), for any commands   *)
(* that run together, any URLs and any number of servers.  A command       *)
(* signals no process but the server of its URL; and when commands run one *)
(* at a time, every server that runs is in the table file.  The commands   *)
(* share nothing but the file, which each of them truncates and writes     *)
(* back as a whole.  What keeps an entry right is that the PID in it was   *)
(* given to the server of its URL and is never given again: this holds of  *)
(* every entry, in the file and in the table of every command, however old *)
(* it is.                                                                  *)
(***************************************************************************)
EXTENDS EncodedPath, Commands, Sequences, WellFoundedInduction, TLAPS

(* A set of numbers that is not empty has a least one. *)
LEMMA LeastNumber ==
    ASSUME NEW T, T \subseteq Nat, T # {}
    PROVE  \E x \in T : \A y \in T : x <= y
<1> DEFINE R == OpToRel(<, Nat)
<1>1. PICK x \in T : \A y \in T : ~(<<y, x>> \in R)
  <2>1. IsWellFoundedOn(R, Nat)
    BY NatLessThanWellFounded, Zenon
  <2> HIDE DEF R
  <2>2. QED
    BY <2>1, WFMin, Zenon
<1>2. \A y \in T : ~(y < x)
  BY <1>1, Zenon DEF OpToRel
<1>3. QED
  BY <1>2

-----------------------------------------------------------------------------
(* Packets in their buffers.  An encoding writes in front of the message no more than its
   overhead; what is left in front of it is enough for the encodings that are still to
   come, and for the header of a ping. *)

(* An encoding adds no more than its overhead. *)
LEMMA AddedBound ==
    \A e \in Encoding : e.min <= e.max =>
        /\ Overhead(e) \in Nat
        /\ \A side \in {"client", "server"} : \A n \in Added(e, side) :
              n \in Nat /\ n <= Overhead(e)
<1> SUFFICES ASSUME NEW e \in Encoding, e.min <= e.max
             PROVE  /\ Overhead(e) \in Nat
                    /\ \A side \in {"client", "server"} : \A n \in Added(e, side) :
                          n \in Nat /\ n <= Overhead(e)
  BY Zenon
<1>1. e.min \in Nat /\ e.max \in Nat /\ e.type \in {"fixed", "random", "crypt"}
  BY DEF Encoding
<1>2. CASE e.type = "fixed"
  BY <1>1, <1>2 DEF Overhead, Added
<1>3. CASE e.type = "random"
  <2>1. \A side : Added(e, side) = {n + 1 : n \in e.min .. e.max}
    BY <1>3 DEF Added
  <2>2. Overhead(e) = e.max + 1
    BY <1>3 DEF Overhead
  <2>3. QED
    BY <1>1, <2>1, <2>2
<1>4. CASE e.type = "crypt"
  BY <1>1, <1>4 DEF Overhead, Added
<1>5. QED
  BY <1>1, <1>2, <1>3, <1>4, Zenon

(* The overhead of a stack is the sum of the overheads of its encodings. *)
LEMMA StackSum ==
    \A s \in Stacks :
        /\ StackOverhead(s, 0) = 0
        /\ \A k \in 1 .. Len(s) :
              StackOverhead(s, k) = StackOverhead(s, k - 1) + Overhead(s[k])
        /\ \A k \in 0 .. Len(s) : StackOverhead(s, k) \in Nat
<1> SUFFICES ASSUME NEW s \in Stacks
             PROVE  /\ StackOverhead(s, 0) = 0
                    /\ \A k \in 1 .. Len(s) :
                          StackOverhead(s, k) = StackOverhead(s, k - 1) + Overhead(s[k])
                    /\ \A k \in 0 .. Len(s) : StackOverhead(s, k) \in Nat
  BY Zenon
<1> DEFINE N == Len(s)
           body(f) == [k \in 0 .. N |-> IF k = 0 THEN 0 ELSE f[k - 1] + Overhead(s[k])]
           sum == CHOOSE f : f = body(f)
           Sums(n, f) == /\ f \in [0 .. n -> Nat] /\ f[0] = 0
                         /\ \A k \in 1 .. n : f[k] = f[k - 1] + Overhead(s[k])
           None == {n \in 0 .. N : ~\E f : Sums(n, f)}
<1>1. N \in Nat /\ \A k \in 1 .. N : s[k] \in Encoding /\ s[k].min <= s[k].max
  BY PathAssumption
<1>2. \A k \in 1 .. N : Overhead(s[k]) \in Nat
  BY <1>1, AddedBound, Zenon
<1>3. \A k : StackOverhead(s, k) = sum[k]
  BY Zenon DEF StackOverhead
<1> HIDE DEF N
<1>4. None = {}
  <2> SUFFICES ASSUME None # {} PROVE FALSE
    BY Zenon
  <2>1. PICK n \in None : \A m \in None : n <= m
    <3>1. None \subseteq Nat
      BY <1>1
    <3> HIDE DEF None
    <3> QED BY <3>1, LeastNumber, Zenon
  <2>2. n \in 0 .. N /\ ~\E f : Sums(n, f)
    BY <2>1, Zenon
  <2>3. CASE n = 0
    <3>1. Sums(n, [k \in 0 .. 0 |-> 0])
      BY <2>3
    <3> QED BY <2>2, <3>1, Zenon
  <2>4. CASE n # 0
    <3>1. n - 1 \in 0 .. N /\ n \in 1 .. N /\ ~(n <= n - 1)
      BY <1>1, <2>2, <2>4
    <3>2. n - 1 \notin None
      BY <2>1, <3>1, Zenon
    <3>3. PICK f : Sums(n - 1, f)
      BY <3>1, <3>2, Zenon
    <3> DEFINE g == [k \in 0 .. n |-> IF k = n THEN f[n - 1] + Overhead(s[n]) ELSE f[k]]
    <3>4. /\ f \in [0 .. n - 1 -> Nat] /\ f[0] = 0
          /\ \A k \in 1 .. n - 1 : f[k] = f[k - 1] + Overhead(s[k])
      BY <3>3, Zenon
    <3>5. Overhead(s[n]) \in Nat
      BY <1>2, <3>1, Zenon
    <3>6. g \in [0 .. n -> Nat] /\ g[0] = 0
      BY <1>1, <3>1, <3>4, <3>5
    <3>7. \A k \in 1 .. n : g[k] = g[k - 1] + Overhead(s[k])
      BY <1>1, <3>1, <3>4, <3>5
    <3>8. Sums(n, g)
      BY <3>6, <3>7, Zenon
    <3> QED BY <2>2, <3>8, Zenon
  <2>5. QED
    BY <2>3, <2>4, Zenon
<1>5. PICK f : Sums(N, f)
  <2>1. N \in 0 .. N
    BY <1>1
  <2> QED BY <1>4, <2>1, Zenon
<1>6. f = body(f)
  BY <1>1, <1>5
<1>7. sum = body(sum)
  BY <1>6, Zenon
<1>8. \A k \in 0 .. N : sum[k] = IF k = 0 THEN 0 ELSE sum[k - 1] + Overhead(s[k])
  <2> DEFINE u == sum
  <2>1. u = body(u)
    BY <1>7
  <2> HIDE DEF u
  <2>2. \A k \in 0 .. N : u[k] = IF k = 0 THEN 0 ELSE u[k - 1] + Overhead(s[k])
    BY <2>1
  <2> QED BY <2>2 DEF u
<1> HIDE DEF sum
<1> DEFINE Off == {k \in 0 .. N : sum[k] \notin Nat}
<1>9. Off = {}
  <2> SUFFICES ASSUME Off # {} PROVE FALSE
    BY Zenon
  <2>1. PICK n \in Off : \A m \in Off : n <= m
    <3>1. Off \subseteq Nat
      BY <1>1
    <3> HIDE DEF Off
    <3> QED BY <3>1, LeastNumber, Zenon
  <2>2. n \in 0 .. N /\ sum[n] \notin Nat
    BY <2>1, Zenon
  <2>3. n # 0 /\ n \in 1 .. N /\ n - 1 \in 0 .. N /\ ~(n <= n - 1)
    BY <1>1, <1>8, <2>2
  <2>4. sum[n - 1] \in Nat
    BY <2>1, <2>3, Zenon
  <2>5. QED
    BY <1>2, <1>8, <2>2, <2>3, <2>4
<1>10. \A k \in 0 .. N : sum[k] \in Nat
  BY <1>9, Zenon
<1>11. sum[0] = 0 /\ \A k \in 1 .. N : sum[k] = sum[k - 1] + Overhead(s[k])
  BY <1>1, <1>8
<1>12. QED
  BY <1>3, <1>10, <1>11, Zenon DEF N

-----------------------------------------------------------------------------
Ping(t) == IF tunnel[t].transport = "ping" THEN Header ELSE 0

(* Is a message being encoded, or on the link? *)
Outgoing == pc \in {"encode", "answer"} \/ (pc \in {"server", "client"} /\ layer = 0)

PathType ==
    /\ tunnel \in [Tunnel -> [stack : Stacks, transport : Transports]] /\ cur \in Tunnel
    /\ mtu0 \in Nat /\ limit \in Int
    /\ DOMAIN msg = {"kind", "size0", "ptr", "size", "mtu", "link", "layers"}
    /\ msg.mtu \in Int
    /\ pc \in {"encode", "answer"} => layer \in 1 .. Len(tunnel[cur].stack) + 1
    /\ pc \in {"server", "client"} => layer \in Nat

(* The end of the message does not move; before it there is room for what is to come. *)
PathRoom ==
    /\ Outgoing => /\ msg.ptr \in Int /\ msg.size \in Int /\ msg.size0 \in Nat
                   /\ msg.ptr + msg.size = msg.size0 + overhead(cur)
                   /\ msg.ptr >= 0
    /\ pc \in {"encode", "answer"} =>
          msg.ptr >= StackOverhead(tunnel[cur].stack, layer - 1) + Ping(cur)

PathInv == PathType /\ PathRoom

(* The overhead of a tunnel is that of its encodings and of the header of a ping. *)
LEMMA TunnelOverhead ==
    ASSUME tunnel \in [Tunnel -> [stack : Stacks, transport : Transports]], NEW t \in Tunnel
    PROVE  /\ tunnel[t].stack \in Stacks /\ Len(tunnel[t].stack) \in Nat
           /\ Ping(t) \in {0, 1}
           /\ overhead(t) = StackOverhead(tunnel[t].stack, Len(tunnel[t].stack)) + Ping(t)
           /\ StackOverhead(tunnel[t].stack, Len(tunnel[t].stack)) \in Nat
           /\ overhead(t) \in Nat
<1>1. tunnel[t].stack \in Stacks /\ tunnel[t].stack \in Seq(Encoding)
  BY PathAssumption
<1>2. Len(tunnel[t].stack) \in Nat
  BY <1>1
<1>3. Ping(t) \in {0, 1}
  BY DEF Ping, Header
<1>4. overhead(t) = StackOverhead(tunnel[t].stack, Len(tunnel[t].stack)) + Ping(t)
  BY Zenon DEF overhead, Ping
<1>5. Len(tunnel[t].stack) \in 0 .. Len(tunnel[t].stack)
  BY <1>2
<1>6. StackOverhead(tunnel[t].stack, Len(tunnel[t].stack)) \in Nat
  BY <1>1, <1>5, StackSum, Zenon
<1>7. QED
  BY <1>1, <1>2, <1>3, <1>4, <1>6

(* A message that was put in a buffer has room for all encodings. *)
LEMMA BufferRoom ==
    ASSUME PathInv, NEW t \in Tunnel, NEW kind, NEW size \in Nat, NEW mtu \in Int,
           msg' = Buffer(t, kind, size, mtu), layer' = Len(tunnel[t].stack) + 1,
           pc' \in {"encode", "answer"}, cur' = t, UNCHANGED <<tunnel, mtu0>>, limit' \in Int
    PROVE  PathInv'
<1>1. /\ tunnel \in [Tunnel -> [stack : Stacks, transport : Transports]] /\ mtu0 \in Nat
  BY Zenon DEF PathInv, PathType
<1>2. /\ tunnel[t].stack \in Stacks /\ Len(tunnel[t].stack) \in Nat
      /\ Ping(t) \in {0, 1}
      /\ overhead(t) = StackOverhead(tunnel[t].stack, Len(tunnel[t].stack)) + Ping(t)
      /\ overhead(t) \in Nat
  BY <1>1, TunnelOverhead, Zenon
<1>3. /\ msg'.ptr = overhead(t) /\ msg'.size = size /\ msg'.size0 = size /\ msg'.mtu = mtu
      /\ DOMAIN msg' = {"kind", "size0", "ptr", "size", "mtu", "link", "layers"}
  BY DEF Buffer
<1>4. overhead(cur)' = overhead(t) /\ Ping(cur)' = Ping(t)
  BY Zenon DEF overhead, Ping
<1>5. layer' - 1 = Len(tunnel[t].stack) /\ layer' \in 1 .. Len(tunnel[t].stack) + 1
  BY <1>2
<1>6. pc' # "server" /\ pc' # "client"
  OBVIOUS
<1>7. PathType'
  BY <1>1, <1>3, <1>5, <1>6, Zenon DEF PathType
<1>8. StackOverhead(tunnel[cur].stack, layer - 1)'
        = StackOverhead(tunnel[t].stack, Len(tunnel[t].stack))
  BY <1>5, Zenon
<1>9. PathRoom'
  BY <1>2, <1>3, <1>4, <1>8 DEF PathRoom, Outgoing
<1>10. QED
  BY <1>7, <1>9, Zenon DEF PathInv

(* A round of the loop of cktp_encode_packet uses the room of its encoding only. *)
LEMMA LayerRoom ==
    ASSUME PathInv, NEW side \in {"client", "server"}, EncodeLayer(side), layer > 1,
           pc \in {"encode", "answer"}, UNCHANGED fixedVars
    PROVE  PathInv'
<1> DEFINE st == tunnel[cur].stack
           e == st[layer - 1]
<1>1. /\ tunnel \in [Tunnel -> [stack : Stacks, transport : Transports]] /\ cur \in Tunnel
      /\ mtu0 \in Nat /\ limit \in Int /\ msg.mtu \in Int
      /\ DOMAIN msg = {"kind", "size0", "ptr", "size", "mtu", "link", "layers"}
      /\ layer \in 1 .. Len(st) + 1
  BY Zenon DEF PathInv, PathType
<1>2. /\ msg.ptr \in Int /\ msg.size \in Int /\ msg.size0 \in Nat
      /\ msg.ptr + msg.size = msg.size0 + overhead(cur)
      /\ msg.ptr >= StackOverhead(st, layer - 1) + Ping(cur)
  BY Zenon DEF PathInv, PathRoom, Outgoing
<1>3. st \in Stacks /\ Len(st) \in Nat /\ Ping(cur) \in {0, 1} /\ overhead(cur) \in Nat
  BY <1>1, TunnelOverhead, Zenon
<1>4. UNCHANGED <<tunnel, mtu0, limit, cur>>
  BY Zenon DEF fixedVars
<1>5. layer - 1 \in 1 .. Len(st) /\ layer - 1 \in 0 .. Len(st) /\ layer - 2 \in 0 .. Len(st)
      /\ layer - 1 - 1 = layer - 2
  BY <1>1, <1>3
<1>6. e \in Encoding /\ e.min <= e.max
  <2>1. st \in Seq(Encoding) /\ \A k \in 1 .. Len(st) : st[k].min <= st[k].max
    BY <1>3, PathAssumption, Zenon
  <2> HIDE DEF st
  <2> QED BY <1>5, <2>1
<1>7. PICK n \in Added(e, side) :
          /\ msg' = [msg EXCEPT !.ptr = @ - n, !.size = @ + n,
                                !.layers = <<[enc |-> layer - 1, n |-> n, side |-> side]>> \o @]
          /\ pc' = IF BugFound(e, n, n) THEN "exit" ELSE pc
          /\ layer' = layer - 1
  BY Zenon DEF EncodeLayer
<1>8. Overhead(e) \in Nat /\ n \in Nat /\ n <= Overhead(e)
  BY <1>6, <1>7, AddedBound, Zenon
<1>9. /\ msg'.ptr = msg.ptr - n /\ msg'.size = msg.size + n
      /\ msg'.size0 = msg.size0 /\ msg'.mtu = msg.mtu /\ DOMAIN msg' = DOMAIN msg
  BY <1>1, <1>7
<1>10. pc' = pc
  <2>1. ~BugFound(e, n, n)
    <3> HIDE DEF e
    <3> QED BY <1>8 DEF BugFound
  <2> QED BY <1>7, <2>1, Zenon
<1>11. overhead(cur)' = overhead(cur) /\ Ping(cur)' = Ping(cur) /\ st' = st
  BY <1>4, Zenon DEF overhead, Ping
<1>12. StackOverhead(st, layer - 1) = StackOverhead(st, layer - 2) + Overhead(e)
       /\ StackOverhead(st, layer - 1) \in Nat /\ StackOverhead(st, layer - 2) \in Nat
  BY <1>3, <1>5, StackSum, Zenon
<1>13. StackOverhead(st, layer - 1)' = StackOverhead(st, layer - 2)
  BY <1>5, <1>7, <1>11, Zenon
<1>14. layer' \in 1 .. Len(st) + 1
  BY <1>3, <1>5, <1>7
<1>15. PathType'
  <2>1. pc' # "server" /\ pc' # "client"
    BY <1>10
  <2> QED BY <1>1, <1>4, <1>9, <1>11, <1>14, <2>1, Zenon DEF PathType
<1> HIDE DEF e, st
<1>16. /\ msg'.ptr \in Int /\ msg'.size \in Int /\ msg'.size0 \in Nat
       /\ msg'.ptr + msg'.size = msg'.size0 + overhead(cur)' /\ msg'.ptr >= 0
       /\ msg'.ptr >= StackOverhead(st, layer - 1)' + Ping(cur)'
  <2> DEFINE below == StackOverhead(st, layer - 2)
             oh == Overhead(e)
             all == overhead(cur)
             ping == Ping(cur)
  <2>1. below \in Nat /\ oh \in Nat /\ all \in Nat /\ ping \in Nat /\ n \in Nat /\ n <= oh
    BY <1>3, <1>8, <1>12
  <2>2. msg.ptr >= below + oh + ping /\ msg.ptr + msg.size = msg.size0 + all
    BY <1>2, <1>12, Zenon
  <2>3. StackOverhead(st, layer - 1)' = below /\ Ping(cur)' = ping /\ overhead(cur)' = all
    BY <1>11, <1>13, Zenon
  <2> HIDE DEF below, oh, all, ping
  <2>4. /\ msg.ptr - n >= below + ping /\ msg.ptr - n >= 0
        /\ (msg.ptr - n) + (msg.size + n) = msg.size0 + all
        /\ msg.ptr - n \in Int /\ msg.size + n \in Int
    BY <1>2, <2>1, <2>2
  <2>5. QED
    BY <1>2, <1>9, <2>3, <2>4, Zenon
<1>17. QED
  BY <1>15, <1>16, Zenon DEF PathInv, PathRoom, st

(* The transport puts its header in the room that is left for it. *)
LEMMA HeaderRoom ==
    ASSUME PathInv, pc \in {"encode", "answer"}, layer = 1,
           pc' \in {"server", "client"}, layer' = 0, UNCHANGED fixedVars,
           msg' = [msg EXCEPT !.ptr = @ - Ping(cur), !.size = @ + Ping(cur)]
    PROVE  PathInv'
<1>1. /\ tunnel \in [Tunnel -> [stack : Stacks, transport : Transports]] /\ cur \in Tunnel
      /\ mtu0 \in Nat /\ limit \in Int /\ msg.mtu \in Int
      /\ DOMAIN msg = {"kind", "size0", "ptr", "size", "mtu", "link", "layers"}
  BY Zenon DEF PathInv, PathType
<1>2. /\ msg.ptr \in Int /\ msg.size \in Int /\ msg.size0 \in Nat
      /\ msg.ptr + msg.size = msg.size0 + overhead(cur)
      /\ msg.ptr >= StackOverhead(tunnel[cur].stack, layer - 1) + Ping(cur)
  BY Zenon DEF PathInv, PathRoom, Outgoing
<1>3. tunnel[cur].stack \in Stacks /\ Ping(cur) \in {0, 1} /\ overhead(cur) \in Nat
  BY <1>1, TunnelOverhead, Zenon
<1>4. UNCHANGED <<tunnel, mtu0, limit, cur>>
  BY Zenon DEF fixedVars
<1>5. layer - 1 = 0
  OBVIOUS
<1>6. StackOverhead(tunnel[cur].stack, layer - 1) = 0
  BY <1>3, <1>5, StackSum, Zenon
<1>7. /\ msg'.ptr = msg.ptr - Ping(cur) /\ msg'.size = msg.size + Ping(cur)
      /\ msg'.size0 = msg.size0 /\ msg'.mtu = msg.mtu /\ DOMAIN msg' = DOMAIN msg
  BY <1>1
<1>8. overhead(cur)' = overhead(cur)
  BY <1>4, Zenon DEF overhead
<1>9. PathType'
  <2>1. pc' # "encode" /\ pc' # "answer" /\ layer' \in Nat
    OBVIOUS
  <2> QED BY <1>1, <1>4, <1>7, <2>1, Zenon DEF PathType
<1>10. /\ msg'.ptr \in Int /\ msg'.size \in Int /\ msg'.size0 \in Nat
       /\ msg'.ptr + msg'.size = msg'.size0 + overhead(cur)' /\ msg'.ptr >= 0
  <2> DEFINE ping == Ping(cur)
             all == overhead(cur)
  <2>1. ping \in Nat /\ all \in Nat
    BY <1>3
  <2>2. msg.ptr >= 0 + ping /\ msg.ptr + msg.size = msg.size0 + all
    BY <1>2, <1>6, Zenon
  <2>3. msg'.ptr = msg.ptr - ping /\ msg'.size = msg.size + ping /\ overhead(cur)' = all
    BY <1>7, <1>8, Zenon
  <2> HIDE DEF ping, all
  <2>4. QED
    BY <1>2, <1>7, <2>1, <2>2, <2>3
<1>11. pc' # "encode" /\ pc' # "answer"
  OBVIOUS
<1>12. QED
  BY <1>9, <1>10, <1>11, Zenon DEF PathInv, PathRoom

(* A message that is received or done with is out of its buffer. *)
LEMMA NotOutgoing ==
    ASSUME PathInv, UNCHANGED <<tunnel, mtu0>>, cur' \in Tunnel, limit' \in Int, ~Outgoing',
           pc' \in {"server", "client"} => layer' \in Nat,
           \/ msg' = Empty
           \/ msg'.mtu = msg.mtu /\ DOMAIN msg' = DOMAIN msg
    PROVE  PathInv'
<1>1. /\ tunnel \in [Tunnel -> [stack : Stacks, transport : Transports]]
      /\ mtu0 \in Nat /\ msg.mtu \in Int
      /\ DOMAIN msg = {"kind", "size0", "ptr", "size", "mtu", "link", "layers"}
  BY Zenon DEF PathInv, PathType
<1>2. /\ DOMAIN msg' = {"kind", "size0", "ptr", "size", "mtu", "link", "layers"}
      /\ msg'.mtu \in Int
  BY <1>1 DEF Empty
<1>3. pc' # "encode" /\ pc' # "answer"
  BY DEF Outgoing
<1>4. PathType'
  BY <1>1, <1>2, <1>3, Zenon DEF PathType
<1>5. PathRoom'
  BY <1>3, Zenon DEF PathRoom
<1>6. QED
  BY <1>4, <1>5, Zenon DEF PathInv

LEMMA PathInit ==
    ASSUME Init
    PROVE  PathInv
<1>1. mtu0 \in Nat /\ limit \in Int
  BY PathAssumption DEF Init
<1>2. /\ DOMAIN msg = {"kind", "size0", "ptr", "size", "mtu", "link", "layers"}
      /\ msg.mtu \in Int
  BY DEF Init, Empty
<1>3. pc \notin {"encode", "answer", "server", "client"}
  BY DEF Init
<1>4. QED
  BY <1>1, <1>2, <1>3 DEF Init, PathInv, PathType, PathRoom, Outgoing

LEMMA PacketsPath ==
    ASSUME PathInv, NEW t \in Tunnel, NEW n \in 1 .. limit, tunnel_packets(t, n)
    PROVE  PathInv'
<1> DEFINE mtu == cktp_tunnel_get_mtu(t)
<1>1. /\ tunnel \in [Tunnel -> [stack : Stacks, transport : Transports]]
      /\ mtu0 \in Nat /\ limit \in Int
  BY Zenon DEF PathInv, PathType
<1>2. overhead(t) \in Nat
  BY <1>1, TunnelOverhead, Zenon
<1>3. mtu \in Int /\ n \in Nat /\ ReflectSize \in Nat
  <2> DEFINE oh == overhead(t)
  <2>1. oh \in Nat
    BY <1>2
  <2>2. mtu = LET m == mtu0 - MaxIpHeader
                       - (IF tunnel[t].transport = "ip" THEN 0 ELSE Header) - oh
              IN  IF m < IP_MSS THEN 0 ELSE m
    BY Zenon DEF cktp_tunnel_get_mtu
  <2> HIDE DEF oh, mtu
  <2>3. QED
    BY <1>1, <2>1, <2>2 DEF MaxIpHeader, Header, ReflectSize
<1>4. cur' = t /\ UNCHANGED <<tunnel, mtu0, limit>> /\ limit' \in Int
  BY <1>1, Zenon DEF tunnel_packets
<1> HIDE DEF mtu
<1>5. \/ pc' \in {"idle", "locked"} /\ msg' = msg
      \/ /\ pc' = "encode" /\ layer' = Len(tunnel[t].stack) + 1
         /\ \/ msg' = Buffer(t, "reflect", ReflectSize, mtu)
            \/ msg' = Buffer(t, "packet", n, mtu)
  BY Zenon DEF tunnel_packets, cktp_fragmentation_required, mtu
<1>6. CASE pc' \in {"idle", "locked"} /\ msg' = msg
  <2>1. ~Outgoing' /\ pc' \notin {"server", "client"}
    BY <1>6 DEF Outgoing
  <2> QED BY <1>4, <1>6, <2>1, NotOutgoing, Zenon
<1>7. ASSUME pc' = "encode", layer' = Len(tunnel[t].stack) + 1,
             \/ msg' = Buffer(t, "reflect", ReflectSize, mtu)
             \/ msg' = Buffer(t, "packet", n, mtu)
      PROVE  PathInv'
  BY <1>3, <1>4, <1>7, BufferRoom, Zenon
<1>8. QED
  BY <1>5, <1>6, <1>7, Zenon

(* What is done with is out of its buffer. *)
LEMMA DonePath ==
    ASSUME PathInv, NEW r, Done(r), UNCHANGED <<tunnel, mtu0, cur>>, limit' \in Int
    PROVE  PathInv'
<1>1. ~Outgoing' /\ pc' \notin {"server", "client"} /\ msg' = Empty
  BY DEF Done, Outgoing
<1>2. cur' \in Tunnel
  BY Zenon DEF PathInv, PathType
<1>3. QED
  BY <1>1, <1>2, NotOutgoing, Zenon

LEMMA SendPath ==
    ASSUME PathInv, cktp_send_packet
    PROVE  PathInv'
<1>1. CASE Done("dropped") /\ UNCHANGED fixedVars
  <2>1. UNCHANGED <<tunnel, mtu0, cur>> /\ limit' \in Int
    BY <1>1, Zenon DEF fixedVars, PathInv, PathType
  <2> QED BY <1>1, <2>1, DonePath, Zenon
<1>2. CASE /\ msg' = [msg EXCEPT !.ptr = @ - Ping(cur), !.size = @ + Ping(cur)]
           /\ pc' = "server" /\ layer' = 0 /\ UNCHANGED fixedVars
  BY <1>2, HeaderRoom, Zenon DEF cktp_send_packet
<1>3. QED
  BY <1>1, <1>2, Zenon DEF cktp_send_packet, Ping

LEMMA ReceivePath ==
    ASSUME PathInv, Receive
    PROVE  PathInv'
<1>1. DOMAIN msg = {"kind", "size0", "ptr", "size", "mtu", "link", "layers"}
  BY Zenon DEF PathInv, PathType
<1>2. msg'.mtu = msg.mtu /\ DOMAIN msg' = DOMAIN msg
  BY <1>1 DEF Receive
<1>3. ~Outgoing' /\ layer' \in Nat
  BY DEF Receive, Outgoing
<1>4. UNCHANGED <<tunnel, mtu0>> /\ cur' \in Tunnel /\ limit' \in Int
  BY Zenon DEF Receive, fixedVars, PathInv, PathType
<1>5. QED
  BY <1>2, <1>3, <1>4, NotOutgoing, Zenon

LEMMA DecodePath ==
    ASSUME PathInv, cktp_decode_packet
    PROVE  PathInv'
<1> DEFINE e == tunnel[cur].stack[layer]
           k == Head(msg.layers).n
<1>1. DOMAIN msg = {"kind", "size0", "ptr", "size", "mtu", "link", "layers"}
  BY Zenon DEF PathInv, PathType
<1>2. UNCHANGED <<tunnel, mtu0, cur>> /\ cur' \in Tunnel /\ limit' \in Int
  BY Zenon DEF cktp_decode_packet, fixedVars, PathInv, PathType
<1>3. CASE Done("bad")
  BY <1>2, <1>3, DonePath, Zenon
<1>4. ASSUME msg' = [msg EXCEPT !.ptr = @ + k, !.size = @ - k, !.layers = Tail(@)],
             pc' = IF BugFound(e, k, 0) THEN "exit" ELSE pc, layer' = layer + 1
      PROVE  PathInv'
  <2>1. msg'.mtu = msg.mtu /\ DOMAIN msg' = DOMAIN msg
    BY <1>1, <1>4
  <2>2. layer \in Nat /\ layer # 0 /\ pc \in {"server", "client"}
    <3>1. tunnel[cur].stack \in Stacks /\ Len(tunnel[cur].stack) \in Nat
      BY TunnelOverhead, Zenon DEF PathInv, PathType
    <3>2. pc \in {"server", "client"} /\ layer \in 1 .. Len(tunnel[cur].stack)
      BY Zenon DEF cktp_decode_packet
    <3> QED BY <3>1, <3>2
  <2>3. layer' \in Nat /\ layer' # 0
    BY <1>4, <2>2
  <2>4. pc' \in {"exit", "server", "client"}
    BY <1>4, <2>2, Zenon
  <2>5. ~Outgoing'
    BY <2>3, <2>4 DEF Outgoing
  <2>6. QED
    BY <1>2, <2>1, <2>3, <2>5, NotOutgoing, Zenon
<1>5. QED
  BY <1>3, <1>4, Zenon DEF cktp_decode_packet, DecodeLayer

LEMMA AnswerPath ==
    ASSUME PathInv, server_encode_packet
    PROVE  PathInv'
<1>1. pc = "answer" /\ UNCHANGED fixedVars
  BY Zenon DEF server_encode_packet
<1>2. CASE layer > 1
  BY <1>1, <1>2, LayerRoom, Zenon DEF server_encode_packet
<1>3. CASE ~(layer > 1)
  <2>1. tunnel[cur].stack \in Stacks /\ Len(tunnel[cur].stack) \in Nat
    BY TunnelOverhead, Zenon DEF PathInv, PathType
  <2>2. layer \in 1 .. Len(tunnel[cur].stack) + 1
    BY <1>1, Zenon DEF PathInv, PathType
  <2>3. layer = 1
    BY <1>3, <2>1, <2>2
  <2>4. /\ msg' = [msg EXCEPT !.ptr = @ - Ping(cur), !.size = @ + Ping(cur)]
        /\ pc' = "client" /\ layer' = 0
    BY <1>3, Zenon DEF server_encode_packet, Ping
  <2>5. QED
    BY <1>1, <2>3, <2>4, HeaderRoom, Zenon
<1>4. QED
  BY <1>2, <1>3, Zenon

(* The user changes the MTU between packets only: tunnel_packets has the lock. *)
LEMMA ConfigPath ==
    ASSUME PathInv, config_change
    PROVE  PathInv'
<1>1. mtu0' \in Nat
  BY PathAssumption DEF config_change
<1>2. UNCHANGED <<tunnel, limit, pc, cur, msg, layer>> /\ pc = "idle" /\ pc' = "idle"
  BY Zenon DEF config_change
<1>3. pc' \notin {"encode", "answer", "server", "client"}
  BY <1>2
<1>4. PathType'
  BY <1>1, <1>2, Zenon DEF PathInv, PathType
<1>5. PathRoom'
  BY <1>3, Zenon DEF PathRoom, Outgoing
<1>6. QED
  BY <1>4, <1>5, Zenon DEF PathInv

LEMMA PathStep ==
    ASSUME PathInv, [Next]_vars
    PROVE  PathInv'
<1>1. /\ cur \in Tunnel /\ limit \in Int /\ msg.mtu \in Int /\ MessageSize \in Nat /\ 0 \in Int
  BY DEF PathInv, PathType, MessageSize
<1>2. CASE PacketStep
  BY <1>2, PacketsPath, Zenon DEF PacketStep
<1>3. CASE cktp_encode_packet
  <2>1. pc = "encode" /\ layer > 1 /\ EncodeLayer("client") /\ UNCHANGED fixedVars
    BY <1>3, Zenon DEF cktp_encode_packet
  <2> QED BY <2>1, LayerRoom, Zenon
<1>4. CASE cktp_send_packet
  BY <1>4, SendPath, Zenon
<1>5. CASE Receive
  BY <1>5, ReceivePath, Zenon
<1>6. CASE cktp_decode_packet
  BY <1>6, DecodePath, Zenon
<1>7. CASE server_packet
  <2>1. UNCHANGED <<tunnel, mtu0, cur>> /\ limit' \in Int
    BY <1>1, <1>7, Zenon DEF server_packet
  <2> QED BY <1>7, <2>1, DonePath, Zenon DEF server_packet
<1>8. CASE cktp_request
  <2>1. UNCHANGED <<tunnel, mtu0, cur>> /\ limit' \in Int
    BY <1>1, <1>8, Zenon DEF cktp_request, fixedVars
  <2>2. /\ pc' = "answer" /\ msg' = Buffer(cur, "message", MessageSize, 0)
        /\ layer' = Len(tunnel[cur].stack) + 1
    BY <1>8, Zenon DEF cktp_request
  <2>3. PICK t \in Tunnel : t = cur
    BY <1>1, Zenon
  <2> QED BY <1>1, <2>1, <2>2, <2>3, BufferRoom, Zenon
<1>9. CASE server_encode_packet
  BY <1>9, AnswerPath, Zenon
<1>10. CASE reply_handler
  <2>1. UNCHANGED <<tunnel, mtu0, cur>> /\ limit' \in Int
    BY <1>1, <1>10, Zenon DEF reply_handler, fixedVars
  <2> QED BY <1>10, <2>1, DonePath, Zenon DEF reply_handler
<1>11. CASE Lose
  <2>1. UNCHANGED <<tunnel, mtu0, cur>> /\ limit' \in Int
    BY <1>1, <1>11, Zenon DEF Lose
  <2> QED BY <1>11, <2>1, DonePath, Zenon DEF Lose
<1>12. CASE config_change
  BY <1>12, ConfigPath, Zenon
<1>13. CASE \E t \in Tunnel : cktp_send_message(t)
  <2>1. PICK t \in Tunnel : cktp_send_message(t)
    BY <1>13, Zenon
  <2>2. UNCHANGED <<tunnel, mtu0>> /\ cur' = t /\ limit' \in Int
    BY <1>1, <2>1, Zenon DEF cktp_send_message
  <2>3. /\ pc' = "encode" /\ msg' = Buffer(t, "message", MessageSize, 0)
        /\ layer' = Len(tunnel[t].stack) + 1
    BY <2>1, Zenon DEF cktp_send_message
  <2> QED BY <1>1, <2>2, <2>3, BufferRoom, Zenon
<1>14. CASE UNCHANGED vars
  BY <1>14, Zenon DEF vars, PathInv, PathType, PathRoom, Outgoing, overhead, Ping
<1>15. QED
  BY <1>2, <1>3, <1>4, <1>5, <1>6, <1>7, <1>8, <1>9, <1>10, <1>11, <1>12, <1>13, <1>14,
     Zenon DEF Next, Handle

(* Whatever encodings a tunnel has, how many of them, and whatever sizes they choose, the
   encodings and the transport of a packet, of a message and of an answer write in the
   buffer only (cktp_client.c:871-872, 1068-1069, cktp_encoding.h:167-168). *)
THEOREM EncodedInBuffer == Spec => []InBuffer
<1>1. Init => PathInv
  BY PathInit, Zenon
<1>2. PathInv /\ [Next]_vars => PathInv'
  BY PathStep, Zenon
<1>3. PathInv => InBuffer
  <2> SUFFICES ASSUME PathInv, Outgoing
               PROVE  msg.ptr >= 0 /\ msg.ptr + msg.size <= msg.size0 + 2 * overhead(cur)
    BY Zenon DEF InBuffer, Outgoing
  <2>1. /\ msg.ptr >= 0 /\ msg.size0 \in Nat
        /\ msg.ptr + msg.size = msg.size0 + overhead(cur)
    BY Zenon DEF PathInv, PathRoom
  <2>2. overhead(cur) \in Nat
    BY TunnelOverhead, Zenon DEF PathInv, PathType
  <2> DEFINE all == overhead(cur)
             end == msg.ptr + msg.size
  <2>3. all \in Nat /\ end = msg.size0 + all
    BY <2>1, <2>2, Zenon
  <2> HIDE DEF all, end
  <2>4. end <= msg.size0 + 2 * all
    BY <2>1, <2>3
  <2>5. QED
    BY <2>1, <2>4, Zenon DEF all, end
<1>4. QED
  BY <1>1, <1>2, <1>3, PTL DEF Spec

-----------------------------------------------------------------------------
(* Tables.  No entry has the PID SERVER_DEAD. *)

Entries == [pid : Table!Pid \cup {Table!SERVER_SUSPENDED}, url : Url]

(* server_table_write writes every entry. *)
LEMMA PrintAll ==
    ASSUME NEW t \in Seq(Entries)
    PROVE  Table!Lines(t) = t
<1> DEFINE body(f) == [i \in 0 .. Len(t) |->
                IF i = 0 THEN <<>> ELSE f[i - 1] \o Table!server_entry_print(t[i])]
           ln == CHOOSE f : f = body(f)
           pre == [i \in 0 .. Len(t) |-> SubSeq(t, 1, i)]
<1>1. Table!Lines(t) = ln[Len(t)]
  BY Zenon DEF Table!Lines
<1>2. \A i \in 1 .. Len(t) : Table!server_entry_print(t[i]) = <<t[i]>>
  <2> SUFFICES ASSUME NEW i \in 1 .. Len(t) PROVE Table!server_entry_print(t[i]) = <<t[i]>>
    BY Zenon
  <2>1. t[i] \in Entries
    OBVIOUS
  <2>2. t[i].pid # Table!SERVER_DEAD
    BY <2>1, CommandAssumption DEF Entries, Table!SERVER_DEAD, Table!SERVER_SUSPENDED, Table!Pid
  <2> QED BY <2>2, Zenon DEF Table!server_entry_print
<1>3. \A i \in 1 .. Len(t) : SubSeq(t, 1, i - 1) \o <<t[i]>> = SubSeq(t, 1, i)
  OBVIOUS
<1>4. SubSeq(t, 1, 0) = <<>> /\ SubSeq(t, 1, Len(t)) = t
  OBVIOUS
<1>5. pre = body(pre)
  <2> SUFFICES ASSUME NEW i \in 0 .. Len(t)
               PROVE  SubSeq(t, 1, i)
                        = IF i = 0 THEN <<>> ELSE pre[i - 1] \o Table!server_entry_print(t[i])
    BY Zenon
  <2>1. CASE i = 0
    BY <2>1, <1>4, Zenon
  <2>2. CASE i # 0
    <3>1. pre[i - 1] = SubSeq(t, 1, i - 1) /\ i \in 1 .. Len(t)
      BY <2>2
    <3> HIDE DEF pre
    <3> QED BY <2>2, <3>1, <1>2, <1>3, Zenon
  <2> QED BY <2>1, <2>2, Zenon
<1>6. ln = body(ln)
  BY <1>5, Zenon
<1> HIDE DEF ln
<1>7. ASSUME ln # pre PROVE FALSE
  <2> DEFINE T == {i \in 0 .. Len(t) : ln[i] # pre[i]}
  <2>1. T # {} /\ T \subseteq Nat
    BY <1>6, <1>7
  <2>2. PICK x \in T : \A y \in T : x <= y
    BY <2>1, LeastNumber, Zenon
  <2>3. x # 0
    BY <1>4, <1>6, Zenon
  <2>4. ln[x - 1] = pre[x - 1] /\ x \in 1 .. Len(t)
    <3>1. x \in 1 .. Len(t) /\ x - 1 \in 0 .. Len(t) /\ ~(x <= x - 1)
      BY <2>3
    <3> HIDE DEF pre
    <3> QED BY <3>1, <2>2, Zenon
  <2>5. ln[x] = pre[x - 1] \o Table!server_entry_print(t[x])
    BY <1>6, <2>3, <2>4, Zenon
  <2>6. pre[x] = pre[x - 1] \o Table!server_entry_print(t[x])
    BY <1>5, <2>3, <2>4, Zenon
  <2> QED BY <2>5, <2>6, Zenon
<1> QED BY <1>1, <1>4, <1>7

(* The entries of a table *)
Has(t) == {t[i] : i \in 1 .. Len(t)}

(* The entry found has the URL. *)
LEMMA FindEntry ==
    ASSUME NEW t \in Seq(Entries), NEW url
    PROVE  LET at == Table!Find(t, url)
           IN  at # 0 => at \in 1 .. Len(t) /\ t[at].url = url
<1> DEFINE at == {i \in 1 .. Len(t) : t[i].url = url}
<1>1. CASE at = {}
  BY <1>1, Zenon DEF Table!Find
<1>2. CASE at # {}
  <2>1. \E i \in at : \A j \in at : i <= j
    <3>1. at \subseteq Nat
      OBVIOUS
    <3> HIDE DEF at
    <3> QED BY <1>2, <3>1, LeastNumber, Zenon
  <2>2. Table!Find(t, url) \in at
    BY <1>2, <2>1, Zenon DEF Table!Find
  <2> QED BY <2>2, Zenon
<1> QED BY <1>1, <1>2, Zenon

(* server_table_delete: the entries but the first one of the URL *)
LEMMA DeleteEntry ==
    ASSUME NEW t \in Seq(Entries), NEW url
    PROVE  LET d == Table!server_table_delete(t, url)
               at == Table!Find(t, url)
           IN  /\ d \in Seq(Entries) /\ Has(d) \subseteq Has(t)
               /\ \A x \in Has(t) : x \in Has(d) \/ (at # 0 /\ x = t[at])
<1> DEFINE d == Table!server_table_delete(t, url)
           at == Table!Find(t, url)
<1>1. CASE at = 0
  BY <1>1, Zenon DEF Table!server_table_delete
<1>2. CASE at # 0
  <2>1. at \in 1 .. Len(t)
    BY <1>2, FindEntry, Zenon
  <2>2. d = [i \in 1 .. Len(t) - 1 |-> IF i < at THEN t[i] ELSE t[i + 1]]
    BY <1>2, Zenon DEF Table!server_table_delete
  <2> HIDE DEF d, at
  <2>3. Len(t) \in Nat /\ \A i \in 1 .. Len(t) : t[i] \in Entries
    OBVIOUS
  <2>4. Len(t) - 1 \in Nat /\ \A i \in 1 .. Len(t) - 1 : d[i] \in Entries
    BY <2>1, <2>2, <2>3
  <2>5. d \in Seq(Entries) /\ Len(d) = Len(t) - 1
    BY <2>2, <2>4
  <2>6. Has(d) \subseteq Has(t)
    BY <2>1, <2>2, <2>3, <2>5 DEF Has
  <2>7. ASSUME NEW i \in 1 .. Len(t), i # at PROVE t[i] \in Has(d)
    <3>1. CASE i < at
      BY <3>1, <2>1, <2>2, <2>3, <2>5 DEF Has
    <3>2. CASE i > at
      <4>1. i - 1 \in 1 .. Len(d) /\ d[i - 1] = t[i]
        BY <3>2, <2>1, <2>2, <2>3, <2>5
      <4> QED BY <4>1, Zenon DEF Has
    <3> QED BY <3>1, <3>2, <2>1, <2>7
  <2> QED BY <1>2, <2>5, <2>6, <2>7, Zenon DEF Has, d, at
<1> QED BY <1>1, <1>2, Zenon

(* server_table_insert: the entries and the new one *)
LEMMA InsertEntry ==
    ASSUME NEW t \in Seq(Entries), NEW pid \in Table!Pid \cup {Table!SERVER_SUSPENDED}, NEW url \in Url
    PROVE  LET n == Table!server_table_insert(t, pid, url)
           IN  n \in Seq(Entries) /\ Has(n) = Has(t) \cup {Table!Entry(pid, url)}
<1> DEFINE e == Table!Entry(pid, url)
           n == <<e>> \o t
<1>1. e \in Entries
  BY Zenon DEF Entries, Table!Entry
<1> HIDE DEF e
<1>2. n \in Seq(Entries) /\ Len(n) = Len(t) + 1 /\ n[1] = e
  BY <1>1
<1>3. \A i \in 1 .. Len(t) : n[i + 1] = t[i]
  BY <1>1
<1>4. \A i \in 1 .. Len(n) : i = 1 \/ (i - 1 \in 1 .. Len(t) /\ n[i] = t[i - 1])
  BY <1>1, <1>2
<1> HIDE DEF n
<1>5. Has(n) = Has(t) \cup {e}
  <2>1. Has(n) \subseteq Has(t) \cup {e}
    BY <1>2, <1>4 DEF Has
  <2>2. \A i \in 1 .. Len(t) : i + 1 \in 1 .. Len(n)
    BY <1>2
  <2>3. Has(t) \subseteq Has(n)
    BY <1>3, <2>2, Zenon DEF Has
  <2>4. e \in Has(n)
    BY <1>2 DEF Has
  <2> QED BY <2>1, <2>3, <2>4, Zenon
<1> QED BY <1>2, <1>5, Zenon DEF n, e, Table!server_table_insert

(* An entry gets another PID. *)
LEMMA ChangeEntry ==
    ASSUME NEW t \in Seq(Entries), NEW at \in 1 .. Len(t),
           NEW pid \in Table!Pid \cup {Table!SERVER_SUSPENDED}
    PROVE  LET n == [t EXCEPT ![at].pid = pid]
               e == Table!Entry(pid, t[at].url)
           IN  /\ n \in Seq(Entries) /\ Has(n) \subseteq Has(t) \cup {e} /\ e \in Has(n)
               /\ \A x \in Has(t) : x \in Has(n) \/ x = t[at]
<1> DEFINE n == [t EXCEPT ![at].pid = pid]
           e == Table!Entry(pid, t[at].url)
<1>0. t[at] \in Entries
  OBVIOUS
<1>1. e \in Entries
  BY <1>0, Zenon DEF Entries, Table!Entry
<1>2. n = [t EXCEPT ![at] = e]
  <2>1. [t[at] EXCEPT !.pid = pid] = e
    BY <1>0 DEF Entries, Table!Entry
  <2> HIDE DEF e
  <2> QED BY <2>1, Zenon
<1> HIDE DEF n, e
<1>3. n \in Seq(Entries) /\ Len(n) = Len(t) /\ n[at] = e
  BY <1>1, <1>2
<1>4. \A i \in 1 .. Len(t) : i # at => n[i] = t[i]
  BY <1>2
<1> QED BY <1>3, <1>4, Zenon DEF Has, n, e

-----------------------------------------------------------------------------
(* The invariant *)

CmdState ==
    [pc : {"idle", "read", "listed", "loop", "write"}, op : Table!Operation,
     args : Seq(Url), table : Seq(Entries), entry : Nat \ {0}]

ServerState == [state : {"none", "running", "gone"}, url : Url]

(* An entry with a PID has the URL of the server that got the PID. *)
Owned(e) == e.pid \in Table!Pid => server[e.pid].state # "none" /\ server[e.pid].url = e.url

(* A server that was signalled under a URL had this URL, and is gone. *)
Signalled(e) == e.pid \in Table!Pid => server[e.pid].state = "gone" /\ server[e.pid].url = e.url

(* A table has all the servers that run. *)
Recorded(t) == \A p \in Table!Pid : Table!Running(p) => Table!Entry(p, server[p].url) \in Has(t)

TableType ==
    /\ file \in Seq(Entries)
    /\ cmd \in [Command -> CmdState]
    /\ server \in [Table!Pid -> ServerState]
    /\ signals \subseteq Entries

(* Only servers with a URL that cktp_parse_url accepts were started. *)
TableOwned ==
    /\ \A x \in Has(file) : Owned(x)
    /\ \A c \in Command : \A x \in Has(cmd[c].table) : Owned(x)
    /\ \A e \in signals : Signalled(e)
    /\ \A p \in Table!Pid : server[p].state # "none" => server[p].url \in ValidUrl

(* A command that runs alone knows all servers from the time it has read the table, and the
   file knows them until it has. *)
TableAlone ==
    alone =>
        /\ \A c, d \in Command : cmd[c].pc # "idle" /\ cmd[d].pc # "idle" => c = d
        /\ \A c \in Command : cmd[c].pc \in {"loop", "write"} => Recorded(cmd[c].table)
        /\ (\A c \in Command : cmd[c].pc \in {"idle", "read", "listed"}) => Recorded(file)

TableInv == TableType /\ TableOwned /\ TableAlone

-----------------------------------------------------------------------------
(* The commands *)

LEMMA TableInit == Table!Init => TableInv
<1> SUFFICES ASSUME Table!Init PROVE TableInv
  BY Zenon
<1> USE DEF Table!Init
<1>1. <<>> \in Seq(Entries) /\ <<>> \in Seq(Url) /\ Has(<<>>) = {}
  BY DEF Has
<1>2. \A u \in Url : Table!Entry(Table!SERVER_SUSPENDED, u) \in Entries
  BY Zenon DEF Entries, Table!Entry
<1>3. PICK f \in {<<>>} \cup {<<Table!Entry(Table!SERVER_SUSPENDED, u)>> : u \in Url} : file = f
  BY Zenon
<1>4. f \in Seq(Entries) /\ \A x \in Has(f) : x.pid = Table!SERVER_SUSPENDED
  <2>1. CASE f = <<>>
    BY <2>1, <1>1, Zenon
  <2>2. CASE \E u \in Url : f = <<Table!Entry(Table!SERVER_SUSPENDED, u)>>
    <3>1. PICK u \in Url : f = <<Table!Entry(Table!SERVER_SUSPENDED, u)>>
      BY <2>2, Zenon
    <3>2. PICK e \in Entries : e = Table!Entry(Table!SERVER_SUSPENDED, u)
      BY <1>2, Zenon
    <3>3. f \in Seq(Entries) /\ Has(f) = {e}
      BY <3>1, <3>2 DEF Has
    <3> QED BY <3>2, <3>3 DEF Table!Entry
  <2> QED BY <2>1, <2>2, <1>3, Zenon
<1>5. Table!SERVER_SUSPENDED \notin Table!Pid
  BY CommandAssumption DEF Table!SERVER_SUSPENDED, Table!Pid
<1>6. Table!Idle \in CmdState
  BY <1>1 DEF Table!Idle, CmdState, Table!Operation
<1>7. TableType
  BY <1>3, <1>4, <1>6, CommandAssumption, Zenon DEF TableType, ServerState
<1>8. \A c \in Command : cmd[c].table = <<>>
  BY Zenon DEF Table!Idle
<1>9. TableOwned
  BY <1>1, <1>3, <1>4, <1>5, <1>8, Zenon DEF TableOwned, Owned
<1>10. \A p \in Table!Pid : ~Table!Running(p)
  BY Zenon DEF Table!Running
<1>11. \A c \in Command : cmd[c].pc = "idle"
  BY Zenon DEF Table!Idle
<1>12. TableAlone
  BY <1>10, <1>11, Zenon DEF TableAlone, Recorded
<1> QED BY <1>7, <1>9, <1>12, Zenon DEF TableInv

(* A server that was started keeps its URL, and never has its PID again. *)
Grows ==
    /\ server' \in [Table!Pid -> ServerState]
    /\ \A p \in Table!Pid : server[p].state # "none" =>
            server'[p].state # "none" /\ server'[p].url = server[p].url
    /\ \A p \in Table!Pid : server'[p].state # "none" => server'[p].url \in ValidUrl

(* The entries stay right. *)
LEMMA OwnedGrows == ASSUME Grows, NEW x, Owned(x) PROVE Owned(x)'
  BY Zenon DEF Grows, Owned

(* Continue: what a command changes of itself *)
LEMMA GoOn ==
    ASSUME TableType, NEW c \in Command, NEW t \in Seq(Entries), Table!Continue(c, t)
    PROVE  /\ cmd' \in [Command -> CmdState] /\ cmd'[c].pc = cmd[c].pc /\ cmd'[c].table = t
           /\ \A d \in Command : d # c => cmd'[d] = cmd[d]
           /\ file' = file
<1> DEFINE as == IF cmd[c].args = <<>> THEN <<>> ELSE Tail(cmd[c].args)
<1>1. cmd[c] \in CmdState /\ cmd \in [Command -> CmdState]
  BY Zenon DEF TableType
<1>2. cmd[c].args \in Seq(Url) /\ cmd[c].entry + 1 \in Nat \ {0}
  BY <1>1 DEF CmdState
<1>3. as \in Seq(Url)
  BY <1>2
<1>4. PICK a \in Seq(Url) : a = as
  BY <1>3, Zenon
<1>5. cmd' = [cmd EXCEPT ![c].table = t, ![c].entry = cmd[c].entry + 1, ![c].args = a] /\ file' = file
  BY <1>4, Zenon DEF Table!Continue
<1>6. PICK n : n = [cmd[c] EXCEPT !.table = t, !.entry = cmd[c].entry + 1, !.args = a]
  BY Zenon
<1>7. n \in CmdState /\ n.pc = cmd[c].pc /\ n.table = t
  BY <1>1, <1>2, <1>6, Zenon DEF CmdState
<1>8. cmd' = [cmd EXCEPT ![c] = n]
  BY <1>5, <1>6, <1>1, Zenon
<1>9. file' = file
  BY <1>5, Zenon
<1> QED BY <1>1, <1>7, <1>8, <1>9, Zenon

(* A command goes on with a table whose entries are right. *)
LEMMA TableLoop ==
    ASSUME TableInv, NEW c \in Command, NEW t \in Seq(Entries), cmd[c].pc = "loop",
           Table!Continue(c, t), alone' = alone, Grows, \A x \in Has(t) : Owned(x)',
           signals' \subseteq Entries, \A e \in signals' : Signalled(e)',
           alone => Recorded(t)'
    PROVE  TableInv'
<1>1. /\ cmd' \in [Command -> CmdState] /\ cmd'[c].pc = cmd[c].pc /\ cmd'[c].table = t
      /\ \A d \in Command : d # c => cmd'[d] = cmd[d]
      /\ file' = file
  BY GoOn, Zenon DEF TableInv
<1>2. TableType'
  BY <1>1, Zenon DEF TableInv, TableType, Grows
<1>3. \A d \in Command : d # c => \A x \in Has(cmd[d].table) : Owned(x)'
  BY OwnedGrows, Zenon DEF TableInv, TableOwned
<1>4. \A x \in Has(file) : Owned(x)'
  BY OwnedGrows, Zenon DEF TableInv, TableOwned
<1>5. \A d \in Command : \A x \in Has(cmd'[d].table) : Owned(x)'
  BY <1>1, <1>3, Zenon
<1>6. TableOwned'
  BY <1>1, <1>4, <1>5, Zenon DEF TableOwned, Grows
<1>7. ASSUME alone PROVE TableAlone'
  <2>1. \A d \in Command : d # c => cmd[d].pc = "idle"
    BY <1>7, Zenon DEF TableInv, TableAlone
  <2>2. \A d \in Command : d # c => cmd'[d].pc = "idle"
    BY <2>1, <1>1, Zenon
  <2>3. \A d \in Command : (cmd[d].pc \in {"loop", "write"} => Recorded(cmd[d].table))'
    <3>1. Recorded(cmd[c].table)'
      BY <1>1, <1>7, Zenon DEF Recorded
    <3> QED BY <2>2, <3>1, Zenon
  <2> QED BY <2>2, <2>3, <1>1, Zenon DEF TableAlone
<1>8. TableAlone'
  BY <1>7, Zenon DEF TableAlone
<1> QED BY <1>2, <1>6, <1>8, Zenon DEF TableInv

(* kill: the server of the URL is gone, and no other one is touched. *)
LEMMA KillServer ==
    ASSUME TableInv, NEW pid \in Table!Pid \cup {Table!SERVER_SUSPENDED}, NEW url \in Url,
           Owned(Table!Entry(pid, url)), Table!Kill(pid, url)
    PROVE  /\ Grows /\ signals' \subseteq Entries /\ \A e \in signals' : Signalled(e)'
           /\ \A p \in Table!Pid : Table!Running(p)' =>
                  Table!Running(p) /\ p # pid /\ server'[p].url = server[p].url
<1>1. /\ server \in [Table!Pid -> ServerState] /\ signals \subseteq Entries
      /\ \A e \in signals : Signalled(e)
      /\ \A p \in Table!Pid : server[p].state # "none" => server[p].url \in ValidUrl
  BY Zenon DEF TableInv, TableType, TableOwned
<1>2. PICK e : e = Table!Entry(pid, url)
  BY Zenon
<1>3. e \in Entries /\ e.pid = pid /\ e.url = url /\ Owned(e)
  BY <1>2, Zenon DEF Entries, Table!Entry
<1>4. signals' = signals \cup {e}
  BY <1>2, Zenon DEF Table!Kill
<1>5. \A p \in Table!Pid :
        /\ server'[p].url = server[p].url
        /\ server'[p].state = IF p = pid /\ server[p].state = "running" THEN "gone" ELSE server[p].state
  BY <1>1, Zenon DEF Table!Kill, Table!Running, ServerState
<1>6. server' \in [Table!Pid -> ServerState]
  BY <1>1, Zenon DEF Table!Kill, Table!Running, ServerState
<1>7. Grows
  BY <1>1, <1>5, <1>6, Zenon DEF Grows
<1>8. \A x : Signalled(x) => Signalled(x)'
  BY <1>5, Zenon DEF Signalled
<1>9. Signalled(e)'
  BY <1>1, <1>3, <1>5, Zenon DEF Signalled, Owned, ServerState
<1>10. \A x \in signals' : Signalled(x)'
  BY <1>1, <1>4, <1>8, <1>9, Zenon
<1>11. \A p \in Table!Pid : Table!Running(p)' =>
         Table!Running(p) /\ p # pid /\ server'[p].url = server[p].url
  BY <1>5, Zenon DEF Table!Running
<1> QED BY <1>1, <1>3, <1>4, <1>7, <1>10, <1>11, Zenon

(* fork: the new PID is in no entry, as no server had it before. *)
LEMMA StartServer ==
    ASSUME TableInv, NEW p \in Table!Pid, NEW url \in Url, url \in ValidUrl,
           server[p].state = "none",
           server' = [server EXCEPT ![p] = [state |-> "running", url |-> url]],
           signals' = signals
    PROVE  /\ Grows /\ signals' \subseteq Entries /\ \A e \in signals' : Signalled(e)'
           /\ Owned(Table!Entry(p, url))' /\ server'[p].url = url
           /\ \A q \in Table!Pid : q # p /\ Table!Running(q)' =>
                  Table!Running(q) /\ server'[q].url = server[q].url
<1>1. /\ server \in [Table!Pid -> ServerState] /\ signals \subseteq Entries
      /\ \A e \in signals : Signalled(e)
      /\ \A q \in Table!Pid : server[q].state # "none" => server[q].url \in ValidUrl
  BY Zenon DEF TableInv, TableType, TableOwned
<1>2. /\ server'[p].state = "running" /\ server'[p].url = url
      /\ \A q \in Table!Pid : q # p => server'[q] = server[q]
      /\ server' \in [Table!Pid -> ServerState]
  BY <1>1, Zenon DEF ServerState
<1>3. Grows
  BY <1>1, <1>2, Zenon DEF Grows
<1>4. \A x : Signalled(x) => Signalled(x)'
  BY <1>2, Zenon DEF Signalled
<1>5. \A x \in signals' : Signalled(x)'
  BY <1>1, <1>4, Zenon
<1>6. Owned(Table!Entry(p, url))'
  BY <1>2, Zenon DEF Owned, Table!Entry
<1>7. \A q \in Table!Pid : q # p /\ Table!Running(q)' =>
         Table!Running(q) /\ server'[q].url = server[q].url
  BY <1>2, Zenon DEF Table!Running
<1> QED BY <1>1, <1>2, <1>3, <1>5, <1>6, <1>7, Zenon

(* A step of a command that touches no server *)
LEMMA TableQuiet ==
    ASSUME TableInv, NEW c \in Command, NEW n \in CmdState, cmd' = [cmd EXCEPT ![c] = n],
           server' = server, signals' = signals, alone' = alone,
           \A x \in Has(n.table) : Owned(x),
           file' \in Seq(Entries), \A x \in Has(file') : Owned(x),
           alone => /\ \A d \in Command : d # c => cmd[d].pc = "idle"
                    /\ n.pc \in {"loop", "write"} => Recorded(n.table)
                    /\ n.pc \in {"idle", "read", "listed"} => Recorded(file')
    PROVE  TableInv'
<1>1. TableType'
  BY Zenon DEF TableInv, TableType
<1>2. cmd'[c] = n /\ \A d \in Command : d # c => cmd'[d] = cmd[d]
  BY Zenon DEF TableInv, TableType
<1>3. \A x : Owned(x)' <=> Owned(x)
  BY Zenon DEF Owned
<1>4. \A x : Signalled(x)' <=> Signalled(x)
  BY Zenon DEF Signalled
<1>5. \A d \in Command : \A x \in Has(cmd'[d].table) : Owned(x)'
  BY <1>2, <1>3, Zenon DEF TableInv, TableOwned
<1>6. TableOwned'
  BY <1>3, <1>4, <1>5, Zenon DEF TableInv, TableOwned
<1>7. \A q \in Table!Pid : Table!Running(q)' <=> Table!Running(q)
  BY Zenon DEF Table!Running
<1>8. Recorded(n.table) => Recorded(cmd[c].table)'
  BY <1>2, <1>7, Zenon DEF Recorded
<1>9. Recorded(file') => Recorded(file)'
  BY <1>7, Zenon DEF Recorded
<1>10. ASSUME alone PROVE TableAlone'
  <2>1. \A d \in Command : d # c => cmd'[d].pc = "idle"
    BY <1>2, <1>10, Zenon
  <2> QED BY <2>1, <1>2, <1>8, <1>9, <1>10, Zenon DEF TableAlone
<1>11. TableAlone'
  BY <1>10, Zenon DEF TableAlone
<1> QED BY <1>1, <1>6, <1>11, Zenon DEF TableInv

LEMMA IdleState == Table!Idle \in CmdState /\ Table!Idle.table = <<>> /\ Table!Idle.pc = "idle"
<1>1. <<>> \in Seq(Entries) /\ <<>> \in Seq(Url)
  OBVIOUS
<1> QED BY <1>1 DEF Table!Idle, CmdState, Table!Operation

LEMMA HasNone == Has(<<>>) = {}
  BY DEF Has

(* fork, with a table that keeps the servers that run and has the new one; or it fails *)
LEMMA ForkStep ==
    ASSUME TableInv, NEW c \in Command, cmd[c].pc = "loop", NEW url \in Url, url \in ValidUrl,
           NEW f \in [Table!Pid -> Seq(Entries)], Table!Fork(c, url, f), alone' = alone,
           \A p \in Table!Pid : \A x \in Has(f[p]) : Owned(x) \/ x = Table!Entry(p, url),
           \A p \in Table!Pid : Table!Entry(p, url) \in Has(f[p]),
           \A p \in Table!Pid : \A x \in Has(cmd[c].table) :
                Table!Running(x.pid) => x \in Has(f[p])
    PROVE  TableInv'
<1>1. CASE ~alone /\ cmd' = [cmd EXCEPT ![c] = Table!Idle] /\ UNCHANGED <<file, server>>
  <2>1. signals' = signals
    BY Zenon DEF Table!Fork
  <2>2. file \in Seq(Entries) /\ \A x \in Has(file) : Owned(x)
    BY Zenon DEF TableInv, TableType, TableOwned
  <2> QED BY <1>1, <2>1, <2>2, IdleState, HasNone, TableQuiet, Zenon
<1>2. ASSUME NEW p \in Table!Pid, server[p].state = "none",
             server' = [server EXCEPT ![p] = [state |-> "running", url |-> url]],
             Table!Continue(c, f[p])
      PROVE  TableInv'
  <2>1. PICK t \in Seq(Entries) : t = f[p]
    BY Zenon
  <2>2. signals' = signals
    BY Zenon DEF Table!Fork
  <2>3. /\ Grows /\ signals' \subseteq Entries /\ \A e \in signals' : Signalled(e)'
        /\ Owned(Table!Entry(p, url))' /\ server'[p].url = url
        /\ \A q \in Table!Pid : q # p /\ Table!Running(q)' =>
               Table!Running(q) /\ server'[q].url = server[q].url
    BY <1>2, <2>2, StartServer, Zenon
  <2>4. \A x \in Has(t) : Owned(x)'
    BY <2>1, <2>3, OwnedGrows, Zenon
  <2>5. ASSUME alone PROVE Recorded(t)'
    <3>1. Recorded(cmd[c].table)
      BY <2>5, Zenon DEF TableInv, TableAlone
    <3>2. SUFFICES ASSUME NEW q \in Table!Pid, Table!Running(q)'
                   PROVE  Table!Entry(q, server'[q].url) \in Has(t)
      BY Zenon DEF Recorded
    <3>3. CASE q = p
      BY <3>3, <2>1, <2>3, Zenon
    <3>4. CASE q # p
      <4>1. PICK x : x = Table!Entry(q, server[q].url)
        BY Zenon
      <4>2. Table!Running(q) /\ server'[q].url = server[q].url
        BY <3>2, <3>4, <2>3, Zenon
      <4>3. x \in Has(cmd[c].table) /\ x.pid = q
        BY <3>1, <4>1, <4>2, Zenon DEF Recorded, Table!Entry
      <4> QED BY <2>1, <4>1, <4>2, <4>3, Zenon
    <3> QED BY <3>3, <3>4, Zenon
  <2>6. Table!Continue(c, t)
    BY <1>2, <2>1, Zenon
  <2> QED BY <2>3, <2>4, <2>5, <2>6, TableLoop, Zenon
<1> QED BY <1>1, <1>2, Zenon DEF Table!Fork

(* A command leaves out no server that runs. *)
LEMMA SkipStep ==
    ASSUME TableInv, NEW c \in Command, cmd[c].pc = "loop", NEW t \in Seq(Entries),
           Table!Skip(c, t), alone' = alone, \A x \in Has(t) : Owned(x),
           \A x \in Has(cmd[c].table) : Table!Running(x.pid) => x \in Has(t)
    PROVE  TableInv'
<1>1. Table!Continue(c, t) /\ server' = server /\ signals' = signals
  BY Zenon DEF Table!Skip
<1>2. Grows
  BY <1>1, Zenon DEF Grows, TableInv, TableType, TableOwned
<1>3. \A x \in Has(t) : Owned(x)'
  BY <1>2, OwnedGrows, Zenon
<1>4. signals' \subseteq Entries /\ \A e \in signals' : Signalled(e)'
  BY <1>1, Zenon DEF TableInv, TableType, TableOwned, Signalled
<1>5. ASSUME alone PROVE Recorded(t)'
  <2>1. Recorded(cmd[c].table)
    BY <1>5, Zenon DEF TableInv, TableAlone
  <2>2. \A q \in Table!Pid : Table!Entry(q, server[q].url).pid = q
    BY Zenon DEF Table!Entry
  <2>3. Recorded(t)
    BY <2>1, <2>2, Zenon DEF Recorded
  <2> QED BY <1>1, <2>3, Zenon DEF Recorded, Table!Running
<1> QED BY <1>1, <1>2, <1>3, <1>4, <1>5, TableLoop, Zenon

(* A command leaves out no server that runs but the one it has signalled. *)
LEMMA KillStep ==
    ASSUME TableInv, NEW c \in Command, cmd[c].pc = "loop", NEW t \in Seq(Entries),
           NEW pid \in Table!Pid \cup {Table!SERVER_SUSPENDED}, NEW url \in Url,
           Owned(Table!Entry(pid, url)), Table!Kill(pid, url), Table!Continue(c, t),
           alone' = alone, \A x \in Has(t) : Owned(x),
           \A x \in Has(cmd[c].table) : Table!Running(x.pid) /\ x.pid # pid => x \in Has(t)
    PROVE  TableInv'
<1>1. /\ Grows /\ signals' \subseteq Entries /\ \A e \in signals' : Signalled(e)'
      /\ \A p \in Table!Pid : Table!Running(p)' =>
             Table!Running(p) /\ p # pid /\ server'[p].url = server[p].url
  BY KillServer, Zenon
<1>2. \A x \in Has(t) : Owned(x)'
  BY <1>1, OwnedGrows, Zenon
<1>3. ASSUME alone PROVE Recorded(t)'
  <2>1. Recorded(cmd[c].table)
    BY <1>3, Zenon DEF TableInv, TableAlone
  <2>2. SUFFICES ASSUME NEW q \in Table!Pid, Table!Running(q)'
                 PROVE  Table!Entry(q, server'[q].url) \in Has(t)
    BY Zenon DEF Recorded
  <2>3. Table!Running(q) /\ q # pid /\ server'[q].url = server[q].url
    BY <1>1, <2>2, Zenon
  <2>4. PICK x : x = Table!Entry(q, server[q].url)
    BY Zenon
  <2>5. x \in Has(cmd[c].table) /\ x.pid = q
    BY <2>1, <2>3, <2>4, Zenon DEF Recorded, Table!Entry
  <2> QED BY <2>3, <2>4, <2>5, Zenon
<1> QED BY <1>1, <1>2, <1>3, TableLoop, Zenon

LEMMA Unstarted ==
    /\ Table!SERVER_SUSPENDED \notin Table!Pid /\ Table!SERVER_DEAD \notin Table!Pid
    /\ Table!SERVER_DEAD # Table!SERVER_SUSPENDED
  BY CommandAssumption DEF Table!SERVER_SUSPENDED, Table!SERVER_DEAD, Table!Pid

(* The entry that a URL has in a table *)
LEMMA UrlEntry ==
    ASSUME NEW t \in Seq(Entries), NEW url \in Url
    PROVE  LET at == Table!Find(t, url)
               pid == Table!PidOf(t, url)
           IN  \/ at = 0 /\ pid = Table!SERVER_DEAD
               \/ /\ at # 0 /\ pid \in Table!Pid \cup {Table!SERVER_SUSPENDED}
                  /\ t[at] = Table!Entry(pid, url) /\ t[at] \in Has(t)
<1> DEFINE at == Table!Find(t, url)
<1>1. CASE at = 0
  BY <1>1, Zenon DEF Table!PidOf
<1>2. CASE at # 0
  <2>1. at \in 1 .. Len(t) /\ t[at].url = url
    BY <1>2, FindEntry, Zenon
  <2>2. Table!PidOf(t, url) = t[at].pid
    BY <1>2, Zenon DEF Table!PidOf
  <2> HIDE DEF at
  <2>3. t[at] \in Entries
    BY <2>1
  <2>4. t[at] \in Has(t)
    BY <2>1, Zenon DEF Has
  <2>5. PICK e \in Entries : e = t[at]
    BY <2>3, Zenon
  <2>6. e = Table!Entry(e.pid, e.url) /\ e.pid \in Table!Pid \cup {Table!SERVER_SUSPENDED}
    BY Zenon DEF Entries, Table!Entry
  <2> QED BY <1>2, <2>1, <2>2, <2>4, <2>5, <2>6, Zenon DEF at
<1> QED BY <1>1, <1>2, Zenon

LEMMA LoopTable ==
    ASSUME TableInv, NEW c \in Command
    PROVE  /\ cmd[c] \in CmdState /\ cmd[c].table \in Seq(Entries) /\ cmd[c].args \in Seq(Url)
           /\ cmd[c].entry \in Nat \ {0} /\ \A x \in Has(cmd[c].table) : Owned(x)
<1>1. cmd[c] \in CmdState /\ \A x \in Has(cmd[c].table) : Owned(x)
  BY Zenon DEF TableInv, TableType, TableOwned
<1> QED BY <1>1, Zenon DEF CmdState

LEMMA AddStep ==
    ASSUME TableInv, NEW c \in Command, Table!add_servers(c), alone' = alone
    PROVE  TableInv'
<1>1. PICK t \in Seq(Entries) : t = cmd[c].table /\ \A x \in Has(t) : Owned(x)
  BY LoopTable, Zenon
<1>2. PICK url \in Url : url = Head(cmd[c].args)
  BY LoopTable DEF Table!add_servers, Table!NextUrl
<1>3. cmd[c].pc = "loop"
  BY Zenon DEF Table!add_servers, Table!NextUrl
<1>4. PICK rest \in Seq(Entries) :
        /\ rest = Table!server_table_delete(t, url) /\ Has(rest) \subseteq Has(t)
        /\ \A x \in Has(t) : x \in Has(rest) \/ (Table!Find(t, url) # 0 /\ x = t[Table!Find(t, url)])
  BY DeleteEntry, Zenon
<1>5. PICK pid : pid = Table!PidOf(t, url)
  BY Zenon
<1>6. \A x \in Has(t) : x \in Has(rest) \/ x = Table!Entry(pid, url)
  BY <1>4, <1>5, UrlEntry, Zenon
<1>7. CASE pid # Table!SERVER_DEAD /\ pid # Table!SERVER_SUSPENDED
  <2>1. Table!Skip(c, Table!server_table_insert(rest, pid, url))
    BY <1>1, <1>2, <1>4, <1>5, <1>7, Zenon DEF Table!add_servers
  <2>2. pid \in Table!Pid /\ Table!Entry(pid, url) \in Has(t)
    BY <1>5, <1>7, UrlEntry, Zenon
  <2>3. PICK n \in Seq(Entries) : n = Table!server_table_insert(rest, pid, url)
                                 /\ Has(n) = Has(rest) \cup {Table!Entry(pid, url)}
    BY <2>2, InsertEntry
  <2> QED BY <1>1, <1>3, <1>4, <1>6, <2>1, <2>2, <2>3, SkipStep, Zenon
<1>8. CASE pid \in {Table!SERVER_DEAD, Table!SERVER_SUSPENDED}
  <2>1. \A x \in Has(t) : Table!Running(x.pid) => x \in Has(rest)
    <3>1. Table!Entry(pid, url).pid = pid
      BY Zenon DEF Table!Entry
    <3>2. ~Table!Running(pid)
      BY <1>8, Unstarted, Zenon DEF Table!Running
    <3> QED BY <1>6, <3>1, <3>2, Zenon
  <2>2. CASE url \notin ValidUrl
    <3>1. Table!Skip(c, rest)
      BY <1>1, <1>2, <1>4, <1>5, <1>8, <2>2, Zenon DEF Table!add_servers
    <3> QED BY <1>1, <1>3, <1>4, <2>1, <3>1, SkipStep, Zenon
  <2>3. CASE url \in ValidUrl
    <3>1. PICK f : f = [p \in Table!Pid |-> Table!server_table_insert(rest, p, url)]
      BY Zenon
    <3>2. Table!Fork(c, url, f)
      BY <1>1, <1>2, <1>4, <1>5, <1>8, <2>3, <3>1, Zenon DEF Table!add_servers
    <3>3. \A p \in Table!Pid : f[p] \in Seq(Entries) /\ Has(f[p]) = Has(rest) \cup {Table!Entry(p, url)}
      BY <3>1, InsertEntry, Zenon
    <3>4. f \in [Table!Pid -> Seq(Entries)]
      BY <3>1, <3>3, Zenon
    <3> QED BY <1>1, <1>3, <1>4, <2>1, <2>3, <3>2, <3>3, <3>4, ForkStep
  <2> QED BY <2>2, <2>3, Zenon
<1> QED BY <1>7, <1>8, Zenon

LEMMA RemoveStep ==
    ASSUME TableInv, NEW c \in Command, Table!remove_servers(c), alone' = alone
    PROVE  TableInv'
<1>1. PICK t \in Seq(Entries) : t = cmd[c].table /\ \A x \in Has(t) : Owned(x)
  BY LoopTable
<1>2. PICK url \in Url : url = Head(cmd[c].args)
  BY LoopTable DEF Table!remove_servers, Table!NextUrl
<1>3. cmd[c].pc = "loop"
  BY Zenon DEF Table!remove_servers, Table!NextUrl
<1>4. PICK rest \in Seq(Entries) :
        /\ rest = Table!server_table_delete(t, url) /\ Has(rest) \subseteq Has(t)
        /\ \A x \in Has(t) : x \in Has(rest) \/ (Table!Find(t, url) # 0 /\ x = t[Table!Find(t, url)])
  BY DeleteEntry
<1>5. PICK pid : pid = Table!PidOf(t, url)
  OBVIOUS
<1>6. \A x \in Has(t) : x \in Has(rest) \/ x = Table!Entry(pid, url)
  BY <1>4, <1>5, UrlEntry
<1>7. Table!Entry(pid, url).pid = pid
  BY DEF Table!Entry
<1>8. CASE url \notin ValidUrl
  <2>1. Table!Skip(c, t)
    BY <1>1, <1>2, <1>8, Zenon DEF Table!remove_servers
  <2> QED BY <1>1, <1>3, <2>1, SkipStep, Zenon
<1>9. CASE url \in ValidUrl /\ pid \in {Table!SERVER_DEAD, Table!SERVER_SUSPENDED}
  <2>1. Table!Skip(c, rest)
    BY <1>1, <1>2, <1>4, <1>5, <1>9, Zenon DEF Table!remove_servers
  <2>2. ~Table!Running(pid)
    BY <1>9, Unstarted, Zenon DEF Table!Running
  <2>3. \A x \in Has(t) : Table!Running(x.pid) => x \in Has(rest)
    BY <1>6, <1>7, <2>2
  <2> QED BY <1>1, <1>3, <1>4, <2>1, <2>3, SkipStep, Zenon
<1>10. CASE url \in ValidUrl /\ pid \notin {Table!SERVER_DEAD, Table!SERVER_SUSPENDED}
  <2>1. Table!Kill(pid, url) /\ Table!Continue(c, rest)
    BY <1>1, <1>2, <1>4, <1>5, <1>10, Zenon DEF Table!remove_servers
  <2>2. pid \in Table!Pid /\ Table!Entry(pid, url) \in Has(t)
    BY <1>5, <1>10, UrlEntry, Zenon
  <2>3. \A x \in Has(t) : Table!Running(x.pid) /\ x.pid # pid => x \in Has(rest)
    BY <1>6, <1>7, Zenon
  <2> QED BY <1>1, <1>3, <1>4, <2>1, <2>2, <2>3, KillStep, Zenon
<1> QED BY <1>8, <1>9, <1>10, Zenon

(* An entry is suspended. *)
LEMMA SuspendEntry ==
    ASSUME NEW t \in Seq(Entries), NEW at \in 1 .. Len(t), NEW e, e = t[at]
    PROVE  \E n \in Seq(Entries) :
             /\ n = [t EXCEPT ![at].pid = Table!SERVER_SUSPENDED]
             /\ Has(n) \subseteq Has(t) \cup {Table!Entry(Table!SERVER_SUSPENDED, e.url)}
             /\ \A x \in Has(t) : x \in Has(n) \/ x = e
<1>1. PICK s \in Table!Pid \cup {Table!SERVER_SUSPENDED} : s = Table!SERVER_SUSPENDED
  BY Zenon
<1>2. PICK n : n = [t EXCEPT ![at].pid = s]
  BY Zenon
<1>3. /\ n \in Seq(Entries) /\ Has(n) \subseteq Has(t) \cup {Table!Entry(s, t[at].url)}
      /\ \A x \in Has(t) : x \in Has(n) \/ x = t[at]
  BY <1>2, ChangeEntry, Zenon
<1> QED BY <1>1, <1>2, <1>3, Zenon

LEMMA InitStartStep ==
    ASSUME TableInv, NEW c \in Command, Table!init_start_servers(c), alone' = alone
    PROVE  TableInv'
<1>1. PICK t \in Seq(Entries) : t = cmd[c].table /\ \A x \in Has(t) : Owned(x)
  BY LoopTable
<1>2. PICK at \in 1 .. Len(t) : at = cmd[c].entry
  BY <1>1, LoopTable DEF Table!init_start_servers, Table!NextEntry
<1>3. cmd[c].pc = "loop"
  BY Zenon DEF Table!init_start_servers, Table!NextEntry
<1>4. PICK e \in Entries : e = t[at]
  OBVIOUS
<1>5. e \in Has(t) /\ e.url \in Url
  BY <1>4, Zenon DEF Has, Entries
<1>6. CASE e.url \notin ValidUrl
  <2>1. PICK n \in Seq(Entries) :
          /\ n = [t EXCEPT ![at].pid = Table!SERVER_SUSPENDED]
          /\ Has(n) \subseteq Has(t) \cup {Table!Entry(Table!SERVER_SUSPENDED, e.url)}
          /\ \A x \in Has(t) : x \in Has(n) \/ x = e
    BY <1>4, SuspendEntry, Zenon
  <2>2. Table!Skip(c, n)
    BY <1>1, <1>2, <1>4, <1>6, <2>1, Zenon DEF Table!init_start_servers
  <2>3. Owned(Table!Entry(Table!SERVER_SUSPENDED, e.url))
    BY Unstarted, Zenon DEF Owned, Table!Entry
  <2>4. \A x \in Has(n) : Owned(x)
    BY <1>1, <2>1, <2>3, Zenon
  <2>5. ~Table!Running(e.pid)
    BY <1>1, <1>5, <1>6, Zenon DEF TableInv, TableOwned, Owned, Table!Running
  <2> QED BY <1>1, <1>3, <2>1, <2>2, <2>4, <2>5, SkipStep, Zenon
<1>7. CASE e.url \in ValidUrl /\ e.pid # Table!SERVER_SUSPENDED
  <2>1. Table!Skip(c, t)
    BY <1>1, <1>2, <1>4, <1>7, Zenon DEF Table!init_start_servers
  <2> QED BY <1>1, <1>3, <2>1, SkipStep, Zenon
<1>8. CASE e.url \in ValidUrl /\ e.pid = Table!SERVER_SUSPENDED
  <2>1. PICK f : f = [p \in Table!Pid |-> [t EXCEPT ![at].pid = p]]
    BY Zenon
  <2>2. Table!Fork(c, e.url, f)
    BY <1>1, <1>2, <1>4, <1>8, <2>1, Zenon DEF Table!init_start_servers
  <2>3. \A p \in Table!Pid :
          /\ f[p] \in Seq(Entries) /\ Has(f[p]) \subseteq Has(t) \cup {Table!Entry(p, e.url)}
          /\ Table!Entry(p, e.url) \in Has(f[p]) /\ \A x \in Has(t) : x \in Has(f[p]) \/ x = e
    BY <1>4, <2>1, ChangeEntry, Zenon
  <2>4. f \in [Table!Pid -> Seq(Entries)]
    BY <2>1, <2>3, Zenon
  <2>5. ~Table!Running(e.pid)
    BY <1>8, Unstarted, Zenon DEF Table!Running
  <2> QED BY <1>1, <1>3, <1>5, <1>8, <2>2, <2>3, <2>4, <2>5, ForkStep
<1> QED BY <1>6, <1>7, <1>8, Zenon

LEMMA InitStopStep ==
    ASSUME TableInv, NEW c \in Command, Table!init_stop_servers(c), alone' = alone
    PROVE  TableInv'
<1>1. PICK t \in Seq(Entries) : t = cmd[c].table /\ \A x \in Has(t) : Owned(x)
  BY LoopTable
<1>2. PICK at \in 1 .. Len(t) : at = cmd[c].entry
  BY <1>1, LoopTable DEF Table!init_stop_servers, Table!NextEntry
<1>3. cmd[c].pc = "loop"
  BY Zenon DEF Table!init_stop_servers, Table!NextEntry
<1>4. PICK e \in Entries : e = t[at]
  OBVIOUS
<1>5. e \in Has(t) /\ e.url \in Url /\ e.pid \in Table!Pid \cup {Table!SERVER_SUSPENDED}
  BY <1>4, Zenon DEF Has, Entries
<1>6. CASE e.url \notin ValidUrl
  <2>1. Table!Skip(c, t)
    BY <1>1, <1>2, <1>4, <1>6, Zenon DEF Table!init_stop_servers
  <2> QED BY <1>1, <1>3, <2>1, SkipStep
<1>7. CASE e.url \in ValidUrl
  <2>1. PICK n \in Seq(Entries) :
          /\ n = [t EXCEPT ![at].pid = Table!SERVER_SUSPENDED]
          /\ Has(n) \subseteq Has(t) \cup {Table!Entry(Table!SERVER_SUSPENDED, e.url)}
          /\ \A x \in Has(t) : x \in Has(n) \/ x = e
    BY <1>4, SuspendEntry
  <2>2. Table!Kill(e.pid, e.url) /\ Table!Continue(c, n)
    BY <1>1, <1>2, <1>4, <1>7, <2>1, Zenon DEF Table!init_stop_servers
  <2>3. Owned(Table!Entry(Table!SERVER_SUSPENDED, e.url))
    BY Unstarted DEF Owned, Table!Entry
  <2>4. \A x \in Has(n) : Owned(x)
    BY <1>1, <2>1, <2>3
  <2>5. Owned(Table!Entry(e.pid, e.url))
    BY <1>1, <1>5, Zenon DEF Owned, Table!Entry
  <2>6. PICK pid \in Table!Pid \cup {Table!SERVER_SUSPENDED} : pid = e.pid
    BY <1>5, Zenon
  <2>7. PICK url \in Url : url = e.url
    BY <1>5, Zenon
  <2> QED BY <1>1, <1>3, <2>1, <2>2, <2>4, <2>5, <2>6, <2>7, KillStep, Zenon
<1> QED BY <1>6, <1>7, Zenon

(* server_table_read keeps the entries of the servers that run. *)
LEMMA ReadEntries ==
    ASSUME TableInv
    PROVE  LET r == Table!server_table_read
           IN  /\ r \in Seq(Entries) /\ \A x \in Has(r) : Owned(x)
               /\ \A x \in Has(file) : Table!Running(x.pid) => x \in Has(r)
<1>1. PICK f \in Seq(Entries) : f = file /\ \A x \in Has(f) : Owned(x)
  BY Zenon DEF TableInv, TableType, TableOwned
<1> DEFINE Read(e) == IF Table!Running(e.pid) THEN e ELSE Table!Entry(Table!SERVER_SUSPENDED, e.url)
<1>2. PICK r : r = Table!server_table_read
  BY Zenon
<1>3. r = [i \in 1 .. Len(f) |-> Read(f[Len(f) + 1 - i])]
  BY <1>1, <1>2, Zenon DEF Table!server_table_read
<1>4. \A e \in Entries : Read(e) \in Entries /\ (Owned(e) => Owned(Read(e)))
  BY Unstarted, Zenon DEF Entries, Table!Entry, Owned
<1>5. \A e : Table!Running(e.pid) => Read(e) = e
  BY Zenon
<1> HIDE DEF Read
<1>6. Len(f) \in Nat /\ \A i \in 1 .. Len(f) : Len(f) + 1 - i \in 1 .. Len(f) /\ f[i] \in Entries
  OBVIOUS
<1>7. \A i \in 1 .. Len(f) : r[i] \in Entries /\ Owned(r[i])
  BY <1>1, <1>3, <1>4, <1>6, Zenon DEF Has
<1>8. r \in Seq(Entries) /\ Len(r) = Len(f)
  BY <1>3, <1>6, <1>7
<1>9. ASSUME NEW i \in 1 .. Len(f), Table!Running(f[i].pid) PROVE f[i] \in Has(r)
  <2>1. PICK j \in 1 .. Len(f) : j = Len(f) + 1 - i
    BY <1>6, Zenon
  <2>2. Len(f) + 1 - j = i
    BY <2>1, <1>6
  <2>3. r[j] = f[i]
    BY <1>3, <1>5, <1>9, <2>2, Zenon
  <2> QED BY <1>8, <2>3, Zenon DEF Has
<1> QED BY <1>1, <1>2, <1>7, <1>8, <1>9 DEF Has

LEMMA FileKept ==
    ASSUME TableInv
    PROVE  /\ file \in Seq(Entries) /\ \A x \in Has(file) : Owned(x)
           /\ cmd \in [Command -> CmdState]
  BY Zenon DEF TableInv, TableType, TableOwned

LEMMA MainStep ==
    ASSUME TableInv, NEW c \in Command, Table!main(c), alone' = alone
    PROVE  TableInv'
<1>1. PICK op \in Table!Operation, args \in Table!Arguments \cup {<<>>} :
        cmd' = [cmd EXCEPT ![c] = [Table!Idle EXCEPT !.pc = "read", !.op = op, !.args = args]]
  BY Zenon DEF Table!main
<1>2. args \in Seq(Url)
  <2>1. CASE args = <<>>
    BY <2>1
  <2>2. CASE \E k \in 0 .. MaxArgs : args \in [1 .. k -> Url]
    <3>1. PICK k \in 0 .. MaxArgs : args \in [1 .. k -> Url]
      BY <2>2, Zenon
    <3>2. k \in Nat
      BY CommandAssumption
    <3> QED BY <3>1, <3>2
  <2> QED BY <2>1, <2>2, Zenon DEF Table!Arguments
<1>3. PICK n : n = [Table!Idle EXCEPT !.pc = "read", !.op = op, !.args = args]
  BY Zenon
<1>4. n \in CmdState /\ n.pc = "read" /\ n.table = <<>>
  BY <1>2, <1>3, IdleState, Zenon DEF CmdState
<1>5. UNCHANGED <<file, server, signals>>
  BY Zenon DEF Table!main
<1>6. ASSUME alone PROVE (\A d \in Command : cmd[d].pc = "idle") /\ Recorded(file)
  BY <1>6, Zenon DEF Table!main, TableInv, TableAlone
<1> QED BY <1>1, <1>3, <1>4, <1>5, <1>6, FileKept, HasNone, TableQuiet, Zenon

LEMMA ReadStep ==
    ASSUME TableInv, NEW c \in Command, Table!ReadTable(c), alone' = alone
    PROVE  TableInv'
<1>1. PICK r \in Seq(Entries) :
        /\ r = Table!server_table_read /\ \A x \in Has(r) : Owned(x)
        /\ \A x \in Has(file) : Table!Running(x.pid) => x \in Has(r)
  BY ReadEntries, Zenon
<1>2. PICK s \in {"listed", "loop"} : s = IF cmd[c].op = "list" THEN "listed" ELSE "loop"
  BY Zenon
<1>3. cmd' = [cmd EXCEPT ![c].table = r, ![c].pc = s]
  BY <1>1, <1>2, Zenon DEF Table!ReadTable
<1>4. PICK n : n = [cmd[c] EXCEPT !.table = r, !.pc = s]
  BY Zenon
<1>5. n \in CmdState /\ n.pc = s /\ n.table = r
  BY <1>4, LoopTable, Zenon DEF CmdState
<1>6. cmd' = [cmd EXCEPT ![c] = n]
  BY <1>3, <1>4, FileKept, Zenon
<1>7. UNCHANGED <<file, server, signals>>
  BY Zenon DEF Table!ReadTable
<1>8. ASSUME alone PROVE (\A d \in Command : d # c => cmd[d].pc = "idle") /\ Recorded(file)
  BY <1>8, Zenon DEF Table!ReadTable, TableInv, TableAlone
<1>9. Recorded(file) => Recorded(r)
  <2>1. \A q \in Table!Pid : Table!Entry(q, server[q].url).pid = q
    BY Zenon DEF Table!Entry
  <2> QED BY <1>1, <2>1, Zenon DEF Recorded
<1> QED BY <1>1, <1>5, <1>6, <1>7, <1>8, <1>9, FileKept, TableQuiet, Zenon

LEMMA ListStep ==
    ASSUME TableInv, NEW c \in Command, Table!list_servers(c), alone' = alone
    PROVE  TableInv'
<1>1. cmd' = [cmd EXCEPT ![c] = Table!Idle] /\ UNCHANGED <<file, server, signals>>
  BY Zenon DEF Table!list_servers
<1>2. ASSUME alone PROVE (\A d \in Command : d # c => cmd[d].pc = "idle") /\ Recorded(file)
  BY <1>2, Zenon DEF Table!list_servers, TableInv, TableAlone
<1> QED BY <1>1, <1>2, IdleState, FileKept, HasNone, TableQuiet, Zenon

LEMMA OpenStep ==
    ASSUME TableInv, NEW c \in Command, Table!OpenTable(c), alone' = alone
    PROVE  TableInv'
<1>1. cmd[c].pc = "loop" /\ server' = server /\ signals' = signals
  BY Zenon DEF Table!OpenTable, Table!LoopDone
<1>2. CASE file' = <<>> /\ cmd' = [cmd EXCEPT ![c].pc = "write"]
  <2>1. PICK n : n = [cmd[c] EXCEPT !.pc = "write"]
    BY Zenon
  <2>2. n \in CmdState /\ n.pc = "write" /\ n.table = cmd[c].table
    BY <2>1, LoopTable, Zenon DEF CmdState
  <2>3. cmd' = [cmd EXCEPT ![c] = n]
    BY <1>2, <2>1, Zenon
  <2>4. ASSUME alone PROVE (\A d \in Command : d # c => cmd[d].pc = "idle") /\ Recorded(cmd[c].table)
    BY <1>1, <2>4, Zenon DEF TableInv, TableAlone
  <2>5. file' \in Seq(Entries) /\ Has(file') = {}
    BY <1>2, HasNone
  <2> QED BY <1>1, <2>2, <2>3, <2>4, <2>5, LoopTable, TableQuiet, Zenon
<1>3. CASE ~alone /\ cmd' = [cmd EXCEPT ![c] = Table!Idle] /\ UNCHANGED file
  BY <1>1, <1>3, IdleState, FileKept, HasNone, TableQuiet, Zenon
<1> QED BY <1>2, <1>3, Zenon DEF Table!OpenTable

(* The lines written are in the file, with the ones that were there *)
LEMMA OverwriteEntries ==
    ASSUME NEW old \in Seq(Entries), NEW new \in Seq(Entries)
    PROVE  LET f == Table!Overwrite(old, new)
           IN  f \in Seq(Entries) /\ Has(new) \subseteq Has(f) /\ Has(f) \subseteq Has(new) \cup Has(old)
<1> DEFINE s == SubSeq(old, Len(new) + 1, Len(old))
           f == new \o s
<1>1. s \in Seq(Entries) /\ \A i \in 1 .. Len(s) : s[i] \in Has(old)
  <2>1. s \in Seq(Entries)
    OBVIOUS
  <2>2. \A i \in 1 .. Len(s) : s[i] = old[Len(new) + i] /\ Len(new) + i \in 1 .. Len(old)
    OBVIOUS
  <2> QED BY <2>1, <2>2, Zenon DEF Has
<1> HIDE DEF s
<1>2. f \in Seq(Entries) /\ Len(f) = Len(new) + Len(s)
  BY <1>1
<1>3. \A i \in 1 .. Len(f) : f[i] = IF i <= Len(new) THEN new[i] ELSE s[i - Len(new)]
  BY <1>1
<1> HIDE DEF f
<1>4. Len(new) \in Nat /\ Len(s) \in Nat
  BY <1>1
<1>5. Has(new) \subseteq Has(f)
  BY <1>2, <1>3, <1>4 DEF Has
<1>6. \A i \in 1 .. Len(f) : i <= Len(new) \/ i - Len(new) \in 1 .. Len(s)
  BY <1>2, <1>4
<1>7. ASSUME NEW i \in 1 .. Len(f) PROVE f[i] \in Has(new) \cup Has(old)
  <2>1. CASE i <= Len(new)
    <3>1. i \in 1 .. Len(new) /\ f[i] = new[i]
      BY <1>3, <1>4, <2>1
    <3> QED BY <3>1, Zenon DEF Has
  <2>2. CASE ~(i <= Len(new))
    <3>1. f[i] = s[i - Len(new)]
      BY <1>3, <2>2, Zenon
    <3> QED BY <1>1, <1>6, <2>2, <3>1, Zenon
  <2> QED BY <2>1, <2>2, Zenon
<1>8. Has(f) \subseteq Has(new) \cup Has(old)
  BY <1>7, Zenon DEF Has
<1> QED BY <1>2, <1>5, <1>8, Zenon DEF f, s, Table!Overwrite

LEMMA WriteStep ==
    ASSUME TableInv, NEW c \in Command, Table!WriteTable(c), alone' = alone
    PROVE  TableInv'
<1>1. PICK t \in Seq(Entries) : t = cmd[c].table /\ \A x \in Has(t) : Owned(x)
  BY LoopTable
<1>2. PICK old \in Seq(Entries) : old = file /\ \A x \in Has(old) : Owned(x)
  BY FileKept, Zenon
<1>3. PICK f \in Seq(Entries) :
        /\ f = Table!Overwrite(old, t)
        /\ Has(t) \subseteq Has(f) /\ Has(f) \subseteq Has(t) \cup Has(old)
  BY OverwriteEntries, Zenon
<1>4. /\ file' = f /\ cmd' = [cmd EXCEPT ![c] = Table!Idle]
      /\ server' = server /\ signals' = signals
  BY <1>1, <1>2, <1>3, PrintAll, Zenon DEF Table!WriteTable
<1>5. ASSUME alone PROVE (\A d \in Command : d # c => cmd[d].pc = "idle") /\ Recorded(t)
  BY <1>1, <1>5, Zenon DEF Table!WriteTable, TableInv, TableAlone
<1>6. Recorded(t) => Recorded(f)
  BY <1>3, Zenon DEF Recorded
<1>7. \A x \in Has(f) : Owned(x)
  BY <1>1, <1>2, <1>3, Zenon
<1> QED BY <1>4, <1>5, <1>6, <1>7, IdleState, HasNone, TableQuiet, Zenon

LEMMA ExitStep ==
    ASSUME TableInv, NEW p \in Table!Pid, Table!start_server_exit(p)
    PROVE  TableInv'
<1>1. server \in [Table!Pid -> ServerState] /\ UNCHANGED <<file, cmd, signals, alone>>
  BY Zenon DEF TableInv, TableType, Table!start_server_exit
<1>2. /\ server'[p].state = "gone" /\ server'[p].url = server[p].url
      /\ \A q \in Table!Pid : q # p => server'[q] = server[q]
      /\ server' \in [Table!Pid -> ServerState]
      /\ server[p].state = "running"
  BY <1>1, Zenon DEF ServerState, Table!start_server_exit, Table!Running
<1>3. Grows
  BY <1>2, Zenon DEF Grows, TableInv, TableOwned
<1>4. \A x : Signalled(x) => Signalled(x)'
  BY <1>2, Zenon DEF Signalled
<1>5. TableType'
  BY <1>1, <1>2, Zenon DEF TableInv, TableType
<1>6. TableOwned'
  BY <1>1, <1>3, <1>4, OwnedGrows, Zenon DEF TableInv, TableOwned, Grows
<1>7. \A q \in Table!Pid : Table!Running(q)' => Table!Running(q) /\ server'[q].url = server[q].url
  BY <1>2, Zenon DEF Table!Running
<1>8. \A t : Recorded(t) => (\A q \in Table!Pid : Table!Running(q)' => Table!Entry(q, server'[q].url) \in Has(t))
  BY <1>7, Zenon DEF Recorded
<1>9. \A d \in Command : Recorded(cmd[d].table) => Recorded(cmd[d].table)'
  BY <1>1, <1>8, Zenon DEF Recorded
<1>10. Recorded(file) => Recorded(file)'
  BY <1>1, <1>8, Zenon DEF Recorded
<1>11. TableAlone'
  BY <1>1, <1>9, <1>10, Zenon DEF TableInv, TableAlone
<1> QED BY <1>5, <1>6, <1>11, Zenon DEF TableInv

LEMMA TableNext == TableInv /\ [Table!Next]_(Table!vars) => TableInv'
<1> SUFFICES ASSUME TableInv, [Table!Next]_(Table!vars) PROVE TableInv'
  BY Zenon
<1>1. ASSUME NEW c \in Command, Table!CommandStep(c), alone' = alone PROVE TableInv'
  BY <1>1, ReadStep, ListStep, AddStep, RemoveStep, InitStartStep, InitStopStep, OpenStep, WriteStep, Zenon
  DEF Table!CommandStep
<1>2. CASE UNCHANGED Table!vars
  <2>1. TableType'
    BY <1>2, Zenon DEF Table!vars, TableInv, TableType
  <2>2. TableOwned'
    BY <1>2, Zenon DEF Table!vars, TableInv, TableOwned, Owned, Signalled
  <2>3. TableAlone'
    BY <1>2, Zenon DEF Table!vars, TableInv, TableAlone, Recorded, Table!Running
  <2> QED BY <2>1, <2>2, <2>3, Zenon DEF TableInv
<1> QED BY <1>1, <1>2, MainStep, ExitStep, Zenon DEF Table!Next

LEMMA TableHolds == Table!Spec => []TableInv
  BY TableInit, TableNext, PTL DEF Table!Spec

(* A command signals a process only under the URL it serves, however many commands run
   together and overwrite the tables of each other (remove_servers, init_stop_servers:
   server.c:328-369, 457-490). *)
THEOREM SignalsReachTheirServer == Table!Spec => []SignalsOwn
<1>1. TableInv => SignalsOwn
  BY Zenon DEF TableInv, TableType, TableOwned, Signalled, SignalsOwn, Table!SignalsOwn, Entries
<1> QED BY <1>1, TableHolds, PTL

(* When commands are run one at a time, and neither fork nor fopen fails, every server that
   runs is in the table file while no command is running (server.c:209-261, 328-490). *)
THEOREM RunningServersRecorded == Table!Spec => []RunningRecorded
<1>1. TableInv => RunningRecorded
  BY DEF TableInv, TableType, TableAlone, Recorded, Has, RunningRecorded, Table!RunningRecorded
<1> QED BY <1>1, TableHolds, PTL

=============================================================================
