---------------------------- MODULE TunnelSelect ----------------------------
(***************************************************************************)
(* Which tunnel a packet takes: tunnel_get in tunnel.c, with the tunnels   *)
(* that come and go meanwhile.  Module Tunnel has the details of opening   *)
(* and closing; here a tunnel is created, active, or replaced by a         *)
(* reconnect thread, and what counts is its id and its weight.             *)
(*                                                                         *)
(* A weight is a multiple of 1/One.  A punishment is rounded down and a    *)
(* reward up, so that both change the weight as the doubles of the code.   *)
(***************************************************************************)
EXTENDS Integers, Sequences, Functions

CONSTANTS
    Urls,        \* the URLs of tunnels
    Hashes,      \* the values of hist_hash that occur, of 0 .. HashMax
    HashMax,     \* UINT32_MAX
    HistSize,    \* TUNNEL_HISTORY_SIZE
    IdMod,       \* the number of values of an id, 2^16
    One, Least,  \* the weights 1.0 and 0.005
    MaxRepeat,   \* bound: repeats of a packet
    MaxCreate,   \* bound: tunnels created
    Together     \* may two tunnels be created at the same time?

(* A packet: its place in the history, and its hash *)
Packet == [idx : 0 .. HistSize - 1, hash : Hashes]

VARIABLES
    obj,      \* obj[u]: the tunnel of URL u in tunnels_cache, or NoTunnel
    active,   \* tunnels_active, as URLs
    id,       \* the counter of tunnel_create
    created,  \* the number of tunnels created; each has its own tag
    reader,   \* reader[u]: the reconnect thread of u, "no", or the id it read or has
    history,  \* tunnel_history
    via,      \* via[p]: the tag of the tunnel packet p took last, or 0
    sel       \* the selection of the latest step, or NoSelection

vars == <<obj, active, id, created, reader, history, via, sel>>

NoTunnel == [tag |-> 0, id |-> 0, weight |-> 0, reconnect |-> FALSE]
Idle == [at |-> "no", id |-> 0, tag |-> 0]
NoSelection == [pkt |-> <<>>, repeat |-> 0, tag |-> 0, before |-> 0, outside |-> FALSE]

tunnel_create(tag, i) == [tag |-> tag, id |-> i, weight |-> One, reconnect |-> FALSE]

Init ==
    /\ obj = [u \in Urls |-> NoTunnel] /\ active = <<>>
    /\ id = 0 /\ created = 0
    /\ reader = [u \in Urls |-> Idle]
    /\ history = [x \in 0 .. HistSize - 1 |-> [hash |-> 0, id |-> 0]]
    /\ via = [p \in Packet |-> 0]
    /\ sel = NoSelection

-----------------------------------------------------------------------------
(* Tunnels that come and go *)

(* The URLs of a set differ; the tunnels after the deleted one move up. *)
tunnel_set_delete(set, u) ==
    IF u \notin Range(set) THEN set
    ELSE LET at == CHOOSE i \in 1 .. Len(set) : set[i] = u
         IN  [i \in 1 .. Len(set) - 1 |-> IF i < at THEN set[i] ELSE set[i + 1]]

MayCreate == Together \/ \A v \in Urls : reader[v].at # "read"

(* tunnel_add of a new URL, with the lock.  The steps of id++ may interleave with those
   of a reconnect thread; the ids that come out are those of an atomic step between them. *)
Add(u) ==
    /\ obj[u] = NoTunnel /\ created < MaxCreate /\ MayCreate
    /\ obj' = [obj EXCEPT ![u] = tunnel_create(created + 1, id)]
    /\ id' = (id + 1) % IdMod /\ created' = created + 1
    /\ sel' = NoSelection /\ UNCHANGED <<active, reader, history, via>>

(* tunnel_activate succeeds. *)
Activate(u) ==
    /\ obj[u] # NoTunnel /\ u \notin Range(active)
    /\ active' = Append(active, u)
    /\ sel' = NoSelection /\ UNCHANGED <<obj, id, created, reader, history, via>>

(* tunnel_delete: first from the active tunnels, then from the cache. *)
Delete(u) ==
    /\ IF u \in Range(active) THEN active' = tunnel_set_delete(active, u) /\ UNCHANGED obj
       ELSE obj[u] # NoTunnel /\ obj' = [obj EXCEPT ![u] = NoTunnel] /\ UNCHANGED active
    /\ sel' = NoSelection /\ UNCHANGED <<id, created, reader, history, via>>

(* The reconnection manager starts a thread, which reads the counter without the lock. *)
ReconnectRead(u) ==
    /\ u \in Range(active) /\ ~obj[u].reconnect /\ reader[u] = Idle
    /\ created < MaxCreate /\ MayCreate /\ created' = created + 1
    /\ obj' = [obj EXCEPT ![u].reconnect = TRUE]
    /\ reader' = [reader EXCEPT ![u] = [at |-> "read", id |-> id, tag |-> created + 1]]
    /\ sel' = NoSelection /\ UNCHANGED <<active, id, history, via>>

ReconnectWrite(u) ==
    /\ reader[u].at = "read"
    /\ id' = (reader[u].id + 1) % IdMod
    /\ reader' = [reader EXCEPT ![u].at = "made"]
    /\ sel' = NoSelection /\ UNCHANGED <<obj, active, created, history, via>>

(* The new tunnel is open and takes the place of the old one, if there still is one. *)
ReconnectDone(u) ==
    /\ reader[u].at = "made"
    /\ obj' = IF obj[u] = NoTunnel THEN obj
              ELSE [obj EXCEPT ![u] = tunnel_create(reader[u].tag, reader[u].id)]
    /\ reader' = [reader EXCEPT ![u] = Idle]
    /\ sel' = NoSelection /\ UNCHANGED <<active, id, created, history, via>>

(* It could not be opened.  The URL by which the old one is looked up was freed: it may
   be found or not. *)
ReconnectFail(u) ==
    /\ reader[u].at = "made"
    /\ active' \in {active, tunnel_set_delete(active, u)}
    /\ reader' = [reader EXCEPT ![u] = Idle]
    /\ sel' = NoSelection /\ UNCHANGED <<obj, id, created, history, via>>

-----------------------------------------------------------------------------
(* The selection *)
weight(i) == obj[active[i]].weight
total_weight[i \in Nat] == IF i = 0 THEN 0 ELSE total_weight[i - 1] + weight(i)

(* The first tunnel whose share holds the pick, or the place after the last tunnel *)
PickIndex(weight_hash) ==
    LET pick == weight_hash * total_weight[Len(active)]
        below(i) == pick < HashMax * total_weight[i]
    IN  IF \E i \in 1 .. Len(active) : below(i)
        THEN CHOOSE i \in 1 .. Len(active) : below(i) /\ \A j \in 1 .. i - 1 : ~below(j)
        ELSE Len(active) + 1

Max2(x, y) == IF x > y THEN x ELSE y
Min2(x, y) == IF x < y THEN x ELSE y
Punished(w) == Max2((3 * w) \div 4, Least)
Rewarded(w) == Min2((23 * w + 19) \div 20, One)

(* The first active tunnel with the id of the history, or 0 *)
BadIndex(p, repeat) ==
    LET bad == {i \in 1 .. Len(active) : obj[active[i]].id = history[p.idx].id}
    IN  IF repeat = 0 \/ history[p.idx].hash # p.hash \/ bad = {} THEN 0
        ELSE CHOOSE i \in bad : \A j \in bad : i <= j

(* Mutant: a repeated packet may take the same tunnel. *)
NextIndex_Same(idx, bad) == idx

(* "Pick a different tunnel (if possible)" *)
NextIndex(idx, bad) == IF idx = bad THEN (idx % Len(active)) + 1 ELSE idx

(* tunnel_get.  Past the last tunnel the code reads what the array happens to hold. *)
tunnel_get(p, repeat) ==
    LET weight_hash == (p.hash * (repeat + 1)) % (HashMax + 1)
        first == PickIndex(weight_hash)
        bad == BadIndex(p, repeat)
        idx == NextIndex(first, bad)
        u == active[idx]
        punished == IF bad = 0 THEN obj
                    ELSE [obj EXCEPT ![active[bad]].weight = Punished(@)]
    IN  /\ active # <<>>
        /\ IF first > Len(active)
           THEN /\ sel' = [pkt |-> p, repeat |-> repeat, tag |-> 0, before |-> via[p],
                           outside |-> TRUE]
                /\ UNCHANGED <<obj, history, via>>
           ELSE /\ obj' = [punished EXCEPT ![u].weight = Rewarded(@)]
                /\ history' = [history EXCEPT ![p.idx] = [hash |-> p.hash, id |-> obj[u].id]]
                /\ via' = [via EXCEPT ![p] = obj[u].tag]
                /\ sel' = [pkt |-> p, repeat |-> repeat, tag |-> obj[u].tag,
                           before |-> IF history[p.idx].hash = p.hash THEN via[p] ELSE 0,
                           outside |-> FALSE]
        /\ UNCHANGED <<active, id, created, reader>>

Next ==
    \/ \E u \in Urls : \/ Add(u) \/ Activate(u) \/ Delete(u)
                       \/ ReconnectRead(u) \/ ReconnectWrite(u)
                       \/ ReconnectDone(u) \/ ReconnectFail(u)
    \/ \E p \in Packet, repeat \in 0 .. MaxRepeat : tunnel_get(p, repeat)

Spec == Init /\ [][Next]_vars

-----------------------------------------------------------------------------
Live == {obj[active[i]].tag : i \in 1 .. Len(active)}

(* A packet that is repeated while the history still has it does not take the tunnel it
   took last, if two are active: "Pick a different tunnel (if possible)"
   (tunnel.c:660). *)
Avoids ==
    [][~sel'.outside /\ sel'.repeat > 0 /\ sel'.before \in Live /\ Len(active) > 1
       => sel'.tag # sel'.before]_vars

=============================================================================
