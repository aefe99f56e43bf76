---------------------------- MODULE TunnelProofs ----------------------------
(***************************************************************************)
(* The steps of the tunnel manager keep its variables in their types and   *)
(* the invariant from which its safety properties follow; the theorems     *)
(* about it, for any number of URLs, tunnel objects and threads.           *)
(***************************************************************************)
EXTENDS Tunnel, TLAPS

USE ConstantsAssumption

(* tunnel_free keeps a tunnel object well typed. *)
LEMMA FreeType ==
    ASSUME NEW o \in tunnel_s
    PROVE  tunnel_free(o) \in tunnel_s
  BY DEF tunnel_free, tunnel_s, NoMemory, State

(* Closing a CKTP tunnel keeps a tunnel object well typed. *)
LEMMA ClosedType ==
    ASSUME NEW o \in tunnel_s, NEW s \in State
    PROVE  Closed(o, s) \in tunnel_s
  BY Zenon DEF Closed, tunnel_s

(* A new tunnel is well typed. *)
LEMMA CreateType ==
    ASSUME NEW u \in Url \cup {NoUrl}, NEW a \in 0..TUNNEL_INIT_AGE
    PROVE  /\ tunnel_create(u, a) \in tunnel_s
           /\ [tunnel_create(u, a) EXCEPT !.state = "OPENING"] \in tunnel_s
  BY Zenon DEF tunnel_create, tunnel_s, State

(* Recording the outcome of tunnel_activate keeps a tunnel well typed. *)
LEMMA ActivatedType ==
    ASSUME NEW o \in tunnel_s, NEW r \in BOOLEAN
    PROVE  Activated(o, r) \in tunnel_s
  <1>1. CASE o.state = "DELETING"
    <2>1. [o EXCEPT !.state = "OPEN"] \in tunnel_s
      BY Zenon DEF tunnel_s, State
    <2> QED BY <1>1, <2>1, FreeType, Zenon DEF Activated
  <1>2. CASE o.state = "CLOSING"
    BY <1>2, ClosedType, Zenon DEF Activated, State
  <1>3. CASE o.state = "OPENING" /\ r
    <2>1. Activated(o, r) = [o EXCEPT !.state = "OPEN", !.age = TUNNEL_INIT_AGE]
      BY <1>3, Zenon DEF Activated
    <2>2. TUNNEL_INIT_AGE \in 0..TUNNEL_INIT_AGE
      OBVIOUS
    <2> QED BY <2>1, <2>2, Zenon DEF tunnel_s, State
  <1>4. CASE ~(o.state = "DELETING" \/ o.state = "CLOSING" \/ (o.state = "OPENING" /\ r))
    <2>1. Activated(o, r) = [o EXCEPT !.state = "DEAD",
                                      !.age = IF @ = 0 THEN 0 ELSE @ - 1]
      BY <1>4, Zenon DEF Activated
    <2>2. (IF o.age = 0 THEN 0 ELSE o.age - 1) \in 0..TUNNEL_INIT_AGE
      BY DEF tunnel_s
    <2> QED BY <2>1, <2>2, Zenon DEF tunnel_s, State
  <1> QED BY <1>1, <1>2, <1>3, <1>4, Zenon

(* A thread starts well typed and with an attempt left. *)
LEMMA ThreadTypes ==
    ASSUME NEW j \in {"activate", "reconnect"}, NEW t \in Tun \cup {NoTun}
    PROVE  /\ NewThread(j, t) \in thread_s
           /\ NewThread(j, t).retries > 0
           /\ IdleThread \in thread_s
           /\ IdleThread.pc = "idle"
           /\ [IdleThread EXCEPT !.pc = "write"] \in thread_s
           /\ [IdleThread EXCEPT !.pc = "write"].pc = "write"
  <1>1. MAX_RETRIES \in 0..MAX_RETRIES /\ MAX_RETRIES > 0 /\ 0 \in 0..MAX_RETRIES
    OBVIOUS
  <1>2. NewThread(j, t) \in thread_s /\ NewThread(j, t).retries > 0
    BY <1>1, Zenon DEF NewThread, thread_s
  <1>3. IdleThread \in thread_s /\ IdleThread.pc = "idle"
    BY <1>1, Zenon DEF IdleThread, thread_s
  <1>4. [IdleThread EXCEPT !.pc = "write"] \in thread_s
    BY <1>1, Zenon DEF IdleThread, thread_s
  <1>5. [IdleThread EXCEPT !.pc = "write"].pc = "write"
    BY Zenon DEF IdleThread
  <1> QED BY <1>2, <1>3, <1>4, <1>5, Zenon

(* An attempt to open a tunnel leaves the thread well typed, and with an
   attempt left if it tries again. *)
LEMMA TriedType ==
    ASSUME NEW th \in thread_s, th.retries > 0, NEW o, NEW opened \in BOOLEAN
    PROVE  /\ Tried(th, o, opened) \in thread_s
           /\ Tried(th, o, opened).pc \in {"start", "try", "open"}
                => Tried(th, o, opened).retries > 0
  <1>1. CASE opened \/ o.state # "OPENING"
    <2>1. Tried(th, o, opened) = [th EXCEPT !.pc = "done", !.result = TRUE]
      BY <1>1, Zenon DEF Tried
    <2> QED BY <2>1, Zenon DEF thread_s
  <1>2. CASE ~(opened \/ o.state # "OPENING")
    <2>1. Tried(th, o, opened) =
            [th EXCEPT !.pc = IF th.retries = 1 THEN "done" ELSE "try",
                       !.retries = @ - 1, !.result = FALSE]
      BY <1>2, Zenon DEF Tried
    <2>2. th.retries \in 1..MAX_RETRIES /\ th.retries - 1 \in 0..MAX_RETRIES
      BY DEF thread_s
    <2>3. CASE th.retries = 1
      <3>1. Tried(th, o, opened) = [th EXCEPT !.pc = "done", !.retries = 0,
                                              !.result = FALSE]
        BY <2>1, <2>3
      <3>2. 0 \in 0..MAX_RETRIES
        BY <2>2, <2>3
      <3> QED BY <3>1, <3>2, Zenon DEF thread_s
    <2>4. CASE th.retries # 1
      <3>1. Tried(th, o, opened) = [th EXCEPT !.pc = "try", !.retries = th.retries - 1,
                                              !.result = FALSE]
        BY <2>1, <2>4, Zenon
      <3>2. th.retries - 1 > 0
        BY <2>2, <2>4
      <3> QED BY <2>2, <3>1, <3>2, Zenon DEF thread_s
    <2> QED BY <2>3, <2>4, Zenon
  <1> QED BY <1>1, <1>2, Zenon

-----------------------------------------------------------------------------
(* The initial state is well typed. *)
LEMMA TypeInit == Init => TypeOK
  <1> SUFFICES ASSUME Init PROVE TypeOK
    BY Zenon
  <1>1. NoMemory("none") \in tunnel_s
    BY DEF NoMemory, tunnel_s, State
  <1>2. IdleThread \in thread_s /\ IdleThread.pc = "idle"
    BY ThreadTypes, Zenon
  <1> QED BY <1>1, <1>2, Zenon DEF Init, TypeOK

(* The part of TypeOK about the tunnel objects and the sets. *)
HeapType == /\ tunnel \in [Tun -> tunnel_s]
            /\ tunnels_cache \subseteq Tun
            /\ tunnels_active \subseteq Tun

(* The part of TypeOK about the threads. *)
ThreadType ==
    /\ thread \in [Thread -> thread_s]
    /\ \A p \in Thread :
         thread[p].pc \in {"start", "try", "open"} => thread[p].retries > 0

(* Every step keeps the tunnel objects and the threads well typed. *)
LEMMA HeapThreadNext ==
    ASSUME TypeOK, NoDangling, [Next]_vars
    PROVE  HeapType' /\ ThreadType'
  <1> USE DEF HeapType, ThreadType
  <1>0. /\ tunnel \in [Tun -> tunnel_s] /\ tunnels_cache \subseteq Tun
        /\ tunnels_active \subseteq Tun /\ thread \in [Thread -> thread_s]
        /\ userTun \in Tun \cup {NoTun}
        /\ \A p \in Thread : thread[p].pc \in {"start", "try", "open"}
                             => thread[p].retries > 0
    BY Zenon DEF TypeOK
  <1>a. IdleThread \in thread_s /\ IdleThread.pc = "idle"
    BY ThreadTypes, Zenon
  <1>b. ASSUME NEW p \in Thread, thread' = [thread EXCEPT ![p] = IdleThread]
        PROVE  ThreadType'
    BY <1>0, <1>a, <1>b, Zenon
  <1>c. ASSUME NEW p \in Thread, NEW j \in {"activate", "reconnect"},
               NEW t \in Tun \cup {NoTun},
               thread' = [thread EXCEPT ![p] = NewThread(j, t)]
        PROVE  ThreadType'
    <2>1. NewThread(j, t) \in thread_s /\ NewThread(j, t).retries > 0
      BY ThreadTypes, Zenon
    <2> QED BY <1>0, <1>c, <2>1, Zenon
  <1>1. CASE tunnel_file_open
    BY <1>0, <1>1, Zenon DEF tunnel_file_open
  <1>2. CASE tunnel_file_read
    <2>1. PICK u \in unread, a \in 1..TUNNEL_INIT_AGE, t \in Unallocated :
            /\ tunnel' = [tunnel EXCEPT ![t] = tunnel_create(u, a)]
            /\ tunnels_cache' = tunnels_cache \cup {t}
      BY <1>2, Zenon DEF tunnel_file_read
    <2>2. tunnel_create(u, a) \in tunnel_s
      <3>1. u \in Url \cup {NoUrl} /\ a \in 0..TUNNEL_INIT_AGE
        BY DEF TypeOK
      <3> QED BY <3>1, CreateType, Zenon
    <2> QED BY <1>0, <1>2, <2>1, <2>2, Zenon DEF tunnel_file_read, Unallocated
  <1>3. CASE tunnel_open
    BY <1>0, <1>3, Zenon DEF tunnel_open
  <1>4. CASE tunnel_activate_manager_scan
    <2> DEFINE closed == {t \in tunnels_cache : tunnel[t].state = "CLOSED"}
    <2>0. PICK P \in SUBSET Idle : \E opens \in Injection(P, closed) :
            /\ tunnel' = [t \in Tun |->
                            IF \E p \in P : opens[p] = t
                            THEN [tunnel[t] EXCEPT !.state = "OPENING"]
                            ELSE tunnel[t]]
            /\ thread' = [p \in Thread |->
                            IF p \in P THEN NewThread("activate", opens[p])
                            ELSE thread[p]]
      BY <1>4, ZenonT(30) DEF tunnel_activate_manager_scan
    <2>1. PICK opens \in Injection(P, closed) :
            /\ tunnel' = [t \in Tun |->
                            IF \E p \in P : opens[p] = t
                            THEN [tunnel[t] EXCEPT !.state = "OPENING"]
                            ELSE tunnel[t]]
            /\ thread' = [p \in Thread |->
                            IF p \in P THEN NewThread("activate", opens[p])
                            ELSE thread[p]]
      BY <2>0, Zenon
    <2>2. opens \in [P -> closed]
      BY <2>1, Zenon DEF Injection
    <2>3. \A p \in P : /\ NewThread("activate", opens[p]) \in thread_s
                       /\ NewThread("activate", opens[p]).retries > 0
      BY <2>2, <1>0, ThreadTypes, Zenon
    <2>4. \A t \in Tun : [tunnel[t] EXCEPT !.state = "OPENING"] \in tunnel_s
      BY <1>0 DEF tunnel_s, State
    <2>5. ThreadType'
      BY <1>0, <2>1, <2>3, Zenon
    <2>6. HeapType'
      BY <1>0, <1>4, <2>1, <2>4, Zenon DEF tunnel_activate_manager_scan
    <2> QED BY <2>5, <2>6, Zenon
  <1>5. CASE tunnel_activate_manager_wake
    BY <1>0, <1>5, Zenon DEF tunnel_activate_manager_wake
  <1>6. CASE tunnel_reconnect_manager
    <2>1. PICK t \in tunnels_active, p \in Idle, new \in Unallocated :
            /\ tunnel' = [tunnel EXCEPT
                         ![t] = [@ EXCEPT !.reconnect = TRUE],
                         ![new] = [tunnel_create(tunnel[t].url, TUNNEL_INIT_AGE)
                                     EXCEPT !.state = "OPENING"]]
            /\ thread' = [thread EXCEPT ![p] = NewThread("reconnect", new)]
      BY <1>6, Zenon DEF tunnel_reconnect_manager
    <2>2. [tunnel_create(tunnel[t].url, TUNNEL_INIT_AGE) EXCEPT !.state = "OPENING"]
            \in tunnel_s
      <3>1. tunnel[t].url \in Url \cup {NoUrl}
        BY <1>0, Zenon DEF tunnel_s
      <3>2. TUNNEL_INIT_AGE \in 0..TUNNEL_INIT_AGE
        OBVIOUS
      <3> QED BY <3>1, <3>2, CreateType, Zenon
    <2>3. [tunnel[t] EXCEPT !.reconnect = TRUE] \in tunnel_s
      BY <1>0, ZenonT(30) DEF tunnel_s
    <2>4. ThreadType'
      BY <1>c, <2>1, Zenon DEF Idle, Unallocated
    <2>5. tunnel' \in [Tun -> tunnel_s]
      BY <1>0, <2>1, <2>2, <2>3, Zenon DEF Unallocated
    <2> QED BY <1>0, <1>6, <2>4, <2>5, Zenon DEF tunnel_reconnect_manager
  <1>7. ASSUME NEW p \in Thread, tunnel_try_activate_test(p)
        PROVE  HeapType' /\ ThreadType'
    <2>1. PICK o : thread' = [thread EXCEPT ![p] = Tested(@, o)]
      BY <1>7, Zenon DEF tunnel_try_activate_test
    <2>2. Tested(thread[p], o) \in thread_s /\ Tested(thread[p], o).retries > 0
      BY <1>0, <1>7, ZenonT(30) DEF tunnel_try_activate_test, Tested, thread_s
    <2>3. ThreadType'
      BY <1>0, <2>1, <2>2, Zenon
    <2> QED BY <1>0, <1>7, <2>3, Zenon DEF tunnel_try_activate_test
  <1>8. ASSUME NEW p \in Thread, tunnel_try_activate_open(p)
        PROVE  HeapType' /\ ThreadType'
    <2> DEFINE t == thread[p].tun
    <2>1. PICK opened \in BOOLEAN :
            /\ tunnel' = [tunnel EXCEPT ![t] = [@ EXCEPT !.cktp = opened]]
            /\ thread' = [thread EXCEPT ![p] = Tried(@, tunnel[t], opened)]
      BY <1>8, Zenon DEF tunnel_try_activate_open
    <2>2. t \in Tun
      BY <1>0, <1>8, Zenon DEF tunnel_try_activate_open, NoDangling, Opening, Live
    <2>3. [tunnel[t] EXCEPT !.cktp = opened] \in tunnel_s
      BY <1>0, <2>2 DEF tunnel_s
    <2>4. HeapType'
      BY <1>0, <1>8, <2>1, <2>2, <2>3, Zenon DEF tunnel_try_activate_open
    <2>5. thread[p].retries > 0 /\ thread[p] \in thread_s
      BY <1>0, <1>8, Zenon DEF tunnel_try_activate_open
    <2>6. /\ Tried(thread[p], tunnel[t], opened) \in thread_s
          /\ Tried(thread[p], tunnel[t], opened).pc \in {"start", "try", "open"}
               => Tried(thread[p], tunnel[t], opened).retries > 0
      BY <2>5, TriedType, Zenon
    <2>7. ThreadType'
      BY <1>0, <2>1, <2>6, Zenon
    <2> QED BY <2>4, <2>7, Zenon
  <1>9. ASSUME NEW p \in Thread, tunnel_activate(p)
        PROVE  HeapType' /\ ThreadType'
    <2> DEFINE t == thread[p].tun
    <2>1. /\ tunnel' = [tunnel EXCEPT ![t] = Activated(tunnel[t], thread[p].result)]
          /\ tunnels_active' = tunnels_active \/ tunnels_active' = tunnels_active \cup {t}
          /\ thread' = [thread EXCEPT ![p] = [IdleThread EXCEPT !.pc = "write"]]
          /\ tunnels_cache' = tunnels_cache
          /\ tunnel[t].state \in {"DELETING", "CLOSING", "OPENING"}
      BY <1>9, Zenon DEF tunnel_activate
    <2>2. t \in Tun
      BY <1>0, <1>9, Zenon DEF tunnel_activate, NoDangling, Opening, Live
    <2>3. Activated(tunnel[t], thread[p].result) \in tunnel_s
      BY <1>0, <2>2, ActivatedType, Zenon DEF thread_s
    <2>4. [IdleThread EXCEPT !.pc = "write"] \in thread_s
          /\ [IdleThread EXCEPT !.pc = "write"].pc = "write"
      BY ThreadTypes, Zenon
    <2> QED BY <1>0, <2>1, <2>2, <2>3, <2>4, Zenon
  <1>10. ASSUME NEW p \in Thread, tunnel_activate_write(p)
         PROVE  HeapType' /\ ThreadType'
    BY <1>0, <1>b, <1>10, Zenon DEF tunnel_activate_write
  <1>11. ASSUME NEW p \in Thread, tunnel_reconnect_success(p)
         PROVE  HeapType' /\ ThreadType'
    <2> DEFINE new == thread[p].tun
               u   == tunnel[new].url
    <2>1. PICK old_active \in FirstMatch(tunnels_active, u),
               old_cache  \in FirstMatch(tunnels_cache, u) :
            /\ tunnels_active' = tunnel_set_replace(tunnels_active, old_active, new)
            /\ tunnels_cache'  = tunnel_set_replace(tunnels_cache, old_cache, new)
            /\ tunnel' =
                 CASE old_active # NoTun ->
                        [tunnel EXCEPT ![old_active] = tunnel_free(@)]
                   [] old_active = NoTun /\ old_cache # NoTun ->
                        [tunnel EXCEPT
                           ![new] = [Closed(@, "DEAD") EXCEPT !.reconnect = FALSE],
                           ![old_cache] = tunnel_free(@)]
                   [] OTHER -> [tunnel EXCEPT ![new] = tunnel_free(@)]
            /\ thread' = IF old_active = NoTun /\ old_cache = NoTun
                         THEN [thread EXCEPT ![p] = IdleThread]
                         ELSE [thread EXCEPT ![p] = [@ EXCEPT !.pc = "log"]]
      BY <1>11, Zenon DEF tunnel_reconnect_success
    <2>2. new \in Tun
      BY <1>0, <1>11, Zenon DEF tunnel_reconnect_success, NoDangling, Opening, Live
    <2>3. old_active \in Tun \cup {NoTun} /\ old_cache \in Tun \cup {NoTun}
      BY <1>0, <2>1, Zenon DEF FirstMatch, Matching
    <2>4. tunnels_active' \subseteq Tun /\ tunnels_cache' \subseteq Tun
      BY <1>0, <2>1, <2>2, Zenon DEF tunnel_set_replace
    <2>5. tunnel' \in [Tun -> tunnel_s]
      <3>1. \A t \in Tun : tunnel_free(tunnel[t]) \in tunnel_s
        BY <1>0, FreeType, Zenon
      <3>2. [Closed(tunnel[new], "DEAD") EXCEPT !.reconnect = FALSE] \in tunnel_s
        <4>1. Closed(tunnel[new], "DEAD") \in tunnel_s
          BY <1>0, <2>2, ClosedType, Zenon DEF State
        <4> QED BY <4>1, Zenon DEF tunnel_s
      <3>3. /\ tunnel_free(tunnel[old_cache]) \in tunnel_s \/ old_cache = NoTun
            /\ old_cache # new => [tunnel EXCEPT
                           ![new] = [Closed(@, "DEAD") EXCEPT !.reconnect = FALSE],
                           ![old_cache] = tunnel_free(@)] \in [Tun -> tunnel_s]
        BY <1>0, <2>2, <2>3, <3>1, <3>2, Zenon
      <3>4. CASE old_active # NoTun
        BY <1>0, <2>1, <2>3, <3>1, <3>4, Zenon
      <3>5. CASE old_active = NoTun /\ old_cache # NoTun
        <4>1. tunnel_free([Closed(tunnel[new], "DEAD") EXCEPT !.reconnect = FALSE])
                \in tunnel_s
          BY <3>2, FreeType, Zenon
        <4> QED BY <1>0, <2>1, <2>2, <2>3, <3>1, <3>2, <3>5, <4>1, Zenon
      <3>6. CASE old_active = NoTun /\ old_cache = NoTun
        BY <1>0, <2>1, <2>2, <3>1, <3>6, Zenon
      <3> QED BY <3>4, <3>5, <3>6, Zenon
    <2>6. ThreadType'
      <3>1. /\ [thread[p] EXCEPT !.pc = "log"] \in thread_s
            /\ [thread[p] EXCEPT !.pc = "log"].pc = "log"
        BY <1>0 DEF thread_s
      <3> QED BY <1>0, <1>b, <2>1, <3>1, Zenon
    <2> QED BY <2>4, <2>5, <2>6, Zenon
  <1>12. ASSUME NEW p \in Thread, tunnel_reconnect_log(p)
         PROVE  HeapType' /\ ThreadType'
    BY <1>0, <1>b, <1>12, Zenon DEF tunnel_reconnect_log
  <1>13. ASSUME NEW p \in Thread, tunnel_reconnect_failure(p)
         PROVE  HeapType' /\ ThreadType'
    <2> DEFINE new == thread[p].tun
    <2>1. PICK stale \in Url \cup {NoUrl} : \E old \in FirstMatch(tunnels_active, stale) :
            /\ tunnels_active' = tunnels_active \ {old}
            /\ tunnel' = [tunnel EXCEPT ![new] =
                            tunnel_free(IF old = NoTun THEN @
                                        ELSE Closed(@, "DEAD"))]
      BY <1>13, Zenon DEF tunnel_reconnect_failure
    <2>2. PICK old \in FirstMatch(tunnels_active, stale) :
            /\ tunnels_active' = tunnels_active \ {old}
            /\ tunnel' = [tunnel EXCEPT ![new] =
                            tunnel_free(IF old = NoTun THEN @
                                        ELSE Closed(@, "DEAD"))]
      BY <2>1, Zenon
    <2>3. new \in Tun
      BY <1>0, <1>13, Zenon DEF tunnel_reconnect_failure, NoDangling, Opening, Live
    <2>4. tunnel[new] \in tunnel_s /\ Closed(tunnel[new], "DEAD") \in tunnel_s
      BY <1>0, <2>3, ClosedType, Zenon DEF State
    <2>5. tunnel_free(IF old = NoTun THEN tunnel[new] ELSE Closed(tunnel[new], "DEAD"))
            \in tunnel_s
      BY <2>4, FreeType, Zenon
    <2>6. HeapType'
      BY <1>0, <1>13, <2>2, <2>3, <2>5, Zenon DEF tunnel_reconnect_failure
    <2> QED BY <1>b, <1>13, <2>6, Zenon DEF tunnel_reconnect_failure
  <1>14. ASSUME NEW u \in Url, tunnel_add_new(u)
         PROVE  HeapType' /\ ThreadType'
    <2>1. PICK t \in Unallocated :
            /\ tunnel' = [tunnel EXCEPT ![t] = [tunnel_create(u, TUNNEL_INIT_AGE)
                                               EXCEPT !.state = "OPENING"]]
            /\ tunnels_cache' = tunnels_cache \cup {t}
      BY <1>14, Zenon DEF tunnel_add_new
    <2>2. [tunnel_create(u, TUNNEL_INIT_AGE) EXCEPT !.state = "OPENING"] \in tunnel_s
      BY CreateType
    <2> QED BY <1>0, <1>14, <2>1, <2>2, Zenon DEF tunnel_add_new, Unallocated
  <1>15. ASSUME NEW u \in Url, tunnel_add_known(u)
         PROVE  HeapType' /\ ThreadType'
    <2>1. PICK t \in Matching(tunnels_cache, u) :
            tunnel' = [tunnel EXCEPT ![t] = [@ EXCEPT !.state = "OPENING"]]
      BY <1>15, Zenon DEF tunnel_add_known
    <2>2. t \in Tun /\ [tunnel[t] EXCEPT !.state = "OPENING"] \in tunnel_s
      BY <1>0 DEF Matching, tunnel_s, State
    <2> QED BY <1>0, <1>15, <2>1, <2>2, Zenon DEF tunnel_add_known
  <1>16. CASE tunnel_add_spawn
    <2>1. PICK p \in Idle : thread' = [thread EXCEPT ![p] = NewThread("activate", userTun)]
      BY <1>16, Zenon DEF tunnel_add_spawn
    <2> QED BY <1>0, <1>c, <1>16, <2>1, Zenon DEF tunnel_add_spawn, Idle
  <1>17. ASSUME NEW u \in Url, tunnel_delete_active(u)
         PROVE  HeapType' /\ ThreadType'
    <2>1. PICK t \in Matching(tunnels_active, u) :
            /\ tunnels_active' = tunnels_active \ {t}
            /\ tunnel' = [tunnel EXCEPT ![t] = Deactivated(@)]
      BY <1>17, Zenon DEF tunnel_delete_active
    <2>2. t \in Tun /\ tunnel[t] \in tunnel_s
      BY <1>0, Zenon DEF Matching
    <2>3. Deactivated(tunnel[t]) \in tunnel_s
      BY <2>2, ClosedType DEF Deactivated, tunnel_s, State
    <2> QED BY <1>0, <1>17, <2>1, <2>2, <2>3, Zenon DEF tunnel_delete_active
  <1>18. ASSUME NEW u \in Url, tunnel_delete_cached(u)
         PROVE  HeapType' /\ ThreadType'
    <2>1. \A t \in Tun : tunnel_free(tunnel[t]) \in tunnel_s
      BY <1>0, FreeType, Zenon
    <2> QED BY <1>0, <1>18, <2>1 DEF tunnel_delete_cached
  <1>19. CASE tunnel_user_write
    BY <1>0, <1>19, Zenon DEF tunnel_user_write
  <1>20. CASE tunnel_ready
    BY <1>0, <1>20, Zenon DEF tunnel_ready
  <1>21. CASE tunnel_packets
    BY <1>0, <1>21, Zenon DEF tunnel_packets
  <1>22. CASE UNCHANGED vars
    BY <1>0, <1>22, Zenon DEF vars
  <1> QED
    BY <1>1, <1>2, <1>3, <1>4, <1>5, <1>6, <1>7, <1>8, <1>9, <1>10, <1>11, <1>12,
       <1>13, <1>14, <1>15, <1>16, <1>17, <1>18, <1>19, <1>20, <1>21, <1>22, Zenon
       DEF Next, MainStep, ManagerStep, ThreadStep, UserRequest

-----------------------------------------------------------------------------
(* The inductive invariant.  Besides the properties proved, it says that an
   active tunnel is open or was reconnected, that an allocated tunnel has a
   URL, and that the cache file being loaded holds no URL loaded already. *)

ActiveState == \A t \in tunnels_active : tunnel[t].state \in {"OPENING", "OPEN"}

LiveHasUrl == \A t \in Live : tunnel[t].url \in Url

Loading == /\ main = "start" => tunnels_cache = {}
           /\ main = "reading" => \A t \in tunnels_cache : tunnel[t].url \notin unread

Safe == /\ NoDangling
        /\ ActiveUsable
        /\ OneTunnelPerUrl
        /\ Ownership
        /\ WaitingHasThread
        /\ ActiveState
        /\ LiveHasUrl
        /\ Loading

Inv == TypeOK /\ Safe

(* Every step keeps every variable in its type. *)
LEMMA TypeNext ==
    ASSUME Inv, [Next]_vars
    PROVE  TypeOK'
  <1>1. HeapType' /\ ThreadType'
    BY HeapThreadNext, Zenon DEF Inv, Safe
  <1>2. Stored \subseteq Url
    BY Zenon DEF Stored, Inv, Safe, NoDangling, LiveHasUrl
  <1>3. CASE \E p \in Thread : tunnel_activate(p)
    <2>1. PICK p \in Thread : tunnel_activate(p)
      BY <1>3, Zenon
    <2>2. \A t \in tunnels_cache : tunnel[t].url \in Url
      BY Zenon DEF Inv, Safe, NoDangling, LiveHasUrl
    <2>3. gone' \subseteq Url
      BY <2>1, <2>2, Zenon DEF tunnel_activate, Inv, TypeOK
    <2> QED BY <1>1, <2>1, <2>3 DEF tunnel_activate, Inv, TypeOK, HeapType, ThreadType
  <1>4. CASE ~ \E p \in Thread : tunnel_activate(p)
    <2> USE <1>4 DEF Inv, TypeOK, Next, MainStep, ManagerStep, ThreadStep, UserRequest,
           vars, tunnel_file_open, tunnel_file_read, tunnel_open, tunnel_activate_manager_scan,
           tunnel_activate_manager_wake, tunnel_reconnect_manager,
           tunnel_try_activate_test, tunnel_try_activate_open,
           tunnel_activate_write, tunnel_reconnect_success, tunnel_reconnect_log,
           tunnel_reconnect_failure, tunnel_add_new, tunnel_add_known,
           tunnel_add_spawn, tunnel_delete_active, tunnel_delete_cached,
           tunnel_user_write, tunnel_ready, tunnel_packets, tunnel_file_write
    <2>1. lock' \in {"free", "leaked"} /\ worker' \in {"idle", "ready"}
      BY ZenonT(30)
    <2>2. main' \in {"start", "reading", "done"}
      BY ZenonT(30)
    <2>3. manager' \in {"off", "scan", "sleep", "done"}
      BY ZenonT(30)
    <2>4. user' \in {"idle", "spawn", "write"}
      BY ZenonT(30)
    <2>5. userTun' \in Tun \cup {NoTun}
      BY ZenonT(30) DEF Unallocated, Matching
    <2>6. unread' \subseteq Url
      BY ZenonT(30)
    <2>7. saved' \subseteq Url
      BY <1>2, ZenonT(30)
    <2>8. gone' \subseteq Url
      BY ZenonT(30)
    <2> QED BY <1>1, <2>1, <2>2, <2>3, <2>4, <2>5, <2>6, <2>7, <2>8, ZenonT(30)
            DEF HeapType, ThreadType
  <1> QED BY <1>3, <1>4, Zenon

-----------------------------------------------------------------------------
(* The initial state satisfies the invariant. *)
LEMMA InvInit == Init => Inv
  <1> SUFFICES ASSUME Init PROVE Inv
    BY Zenon
  <1>1. TypeOK
    BY TypeInit, Zenon
  <1>2. \A p \in Thread : ~Opening(p)
    BY Zenon DEF Init, Opening, IdleThread
  <1>3. Live = {}
    BY Zenon DEF Init, Live, NoMemory
  <1> QED
    BY <1>1, <1>2, <1>3, Zenon DEF Init, Inv, Safe, NoDangling, ActiveUsable, OneTunnelPerUrl,
       Ownership, WaitingHasThread, Waiting, ActiveState, LiveHasUrl, Loading

(* A step that leaves the objects, the sets, the threads that open a tunnel
   and the pending spawn as they are keeps the invariant. *)
LEMMA FrameNext ==
    ASSUME Inv, TypeOK',
           UNCHANGED <<tunnel, tunnels_cache, tunnels_active, userTun>>,
           user' = "spawn" <=> user = "spawn",
           \A p \in Thread : Opening(p)' => Opening(p) /\ thread'[p] = thread[p],
           \A p \in Thread : Opening(p) => Opening(p)',
           Loading'
    PROVE  Safe'
  <1> USE DEF Inv, Safe
  <1>1. NoDangling' /\ LiveHasUrl'
    BY Zenon DEF NoDangling, Live, LiveHasUrl
  <1>2. ActiveUsable' /\ OneTunnelPerUrl' /\ ActiveState'
    BY Zenon DEF ActiveUsable, OneTunnelPerUrl, ActiveState
  <1>3. Ownership'
    BY DEF Ownership, HandedOver
  <1>4. WaitingHasThread'
    BY DEF WaitingHasThread, Waiting
  <1> QED BY <1>1, <1>2, <1>3, <1>4, Zenon

(* tunnel_file_read adds a tunnel whose URL is not in the cache yet. *)
LEMMA SafeFileRead ==
    ASSUME Inv, TypeOK', tunnel_file_read
    PROVE  Safe'
  <1> USE DEF Inv, Safe
  <1>1. PICK u \in unread, a \in 1..TUNNEL_INIT_AGE, t \in Unallocated :
            /\ tunnel' = [tunnel EXCEPT ![t] = tunnel_create(u, a)]
            /\ tunnels_cache' = tunnels_cache \cup {t}
            /\ unread' = unread \ {u}
    BY Zenon DEF tunnel_file_read
  <1>2. /\ tunnels_active' = tunnels_active /\ thread' = thread /\ main' = main
        /\ main = "reading" /\ user' = user /\ userTun' = userTun
    BY Zenon DEF tunnel_file_read
  <1>3. /\ t \in Tun /\ t \notin Live /\ t \notin tunnels_cache /\ t \notin tunnels_active
        /\ \A p \in Thread : Opening(p) => thread[p].tun # t
        /\ user = "spawn" => userTun # t
    BY Zenon DEF Unallocated, Live, NoDangling
  <1>4. /\ tunnel'[t] = tunnel_create(u, a)
        /\ \A x \in Tun \ {t} : tunnel'[x] = tunnel[x]
    BY <1>1, <1>3, Zenon DEF TypeOK
  <1>5. tunnel'[t].mem = "live" /\ tunnel'[t].url = u /\ tunnel'[t].state = "CLOSED"
    BY <1>4 DEF tunnel_create
  <1>6. \A p \in Thread : Opening(p)' = Opening(p)
    BY <1>2, Zenon DEF Opening
  <1>7. Live' = Live \cup {t}
    BY <1>3, <1>4, <1>5, Zenon DEF Live
  <1>8. tunnels_cache \subseteq Tun /\ tunnels_active \subseteq Tun
    BY Zenon DEF TypeOK
  <1>9. \A x \in Tun \ {t} : tunnel'[x] = tunnel[x]
    BY <1>4, Zenon
  <1>10. /\ tunnels_cache' = tunnels_cache \cup {t} /\ unread' = unread \ {u}
        /\ u \in unread /\ u \in Url
    BY <1>1, Zenon DEF TypeOK
  <1>11. NoDangling'
    BY <1>2, <1>6, <1>7, <1>10, Zenon DEF NoDangling
  <1>12. LiveHasUrl'
    BY <1>5, <1>7, <1>9, <1>10, Zenon DEF LiveHasUrl, Live
  <1>13. ActiveUsable' /\ ActiveState'
    BY <1>2, <1>3, <1>8, <1>9, <1>10, Zenon DEF ActiveUsable, ActiveState
  <1>14. OneTunnelPerUrl' /\ Loading'
    BY <1>2, <1>3, <1>5, <1>8, <1>9, <1>10 DEF OneTunnelPerUrl, Loading
  <1>15. Ownership'
    BY <1>2, <1>3, <1>6, <1>9, <1>10 DEF Ownership, HandedOver, NoDangling, Live
  <1>16. WaitingHasThread'
    BY <1>2, <1>5, <1>6, <1>9, <1>10, Zenon DEF WaitingHasThread, Waiting
  <1> QED BY <1>11, <1>12, <1>13, <1>14, <1>15, <1>16, Zenon

(* The activation manager hands closed tunnels, which nobody opens, to new
   threads, one each. *)
LEMMA SafeScan ==
    ASSUME Inv, TypeOK', tunnel_activate_manager_scan
    PROVE  Safe'
  <1> USE DEF Inv, Safe
  <1> DEFINE closed == {t \in tunnels_cache : tunnel[t].state = "CLOSED"}
  <1>1. PICK P \in SUBSET Idle : \E opens \in Injection(P, closed) :
            /\ tunnel' = [t \in Tun |->
                            IF \E p \in P : opens[p] = t
                            THEN [tunnel[t] EXCEPT !.state = "OPENING"]
                            ELSE tunnel[t]]
            /\ thread' = [p \in Thread |->
                            IF p \in P THEN NewThread("activate", opens[p])
                            ELSE thread[p]]
    BY ZenonT(30) DEF tunnel_activate_manager_scan
  <1>2. PICK opens \in Injection(P, closed) :
            /\ tunnel' = [t \in Tun |->
                            IF \E p \in P : opens[p] = t
                            THEN [tunnel[t] EXCEPT !.state = "OPENING"]
                            ELSE tunnel[t]]
            /\ thread' = [p \in Thread |->
                            IF p \in P THEN NewThread("activate", opens[p])
                            ELSE thread[p]]
    BY <1>1, Zenon
  <1>3. /\ tunnels_active' = tunnels_active /\ tunnels_cache' = tunnels_cache
        /\ main' = main /\ unread' = unread /\ user' = user /\ userTun' = userTun
    BY Zenon DEF tunnel_activate_manager_scan
  <1>4. /\ opens \in [P -> closed]
        /\ \A p, q \in P : opens[p] = opens[q] => p = q
    BY <1>2, Zenon DEF Injection, IsInjective
  <1>5. \A t \in closed :
          /\ t \in Tun /\ t \in Live /\ t \notin tunnels_active
          /\ \A p \in Thread : Opening(p) => thread[p].tun # t
          /\ user = "spawn" => userTun # t
    <2> TAKE t \in closed
    <2>1. t \in tunnels_cache /\ tunnel[t].state = "CLOSED"
      BY Zenon
    <2>2. t \in Tun /\ t \in Live /\ t \notin tunnels_active
      BY <2>1, Zenon DEF TypeOK, NoDangling, ActiveState
    <2>3. \A p \in Thread : Opening(p) => thread[p].tun # t
      BY <2>1, Zenon DEF Ownership, HandedOver, TypeOK, thread_s
    <2>4. user = "spawn" => userTun # t
      BY <2>1, Zenon DEF Ownership, HandedOver
    <2> QED BY <2>2, <2>3, <2>4, Zenon
  <1>6. \A p \in P : /\ p \in Thread /\ ~Opening(p)
                     /\ Opening(p)' /\ thread'[p].tun = opens[p]
                     /\ thread'[p].job = "activate" /\ thread'[p].pc = "start"
    BY <1>2, Zenon DEF Idle, Opening, NewThread
  <1>7. \A p \in Thread \ P : thread'[p] = thread[p] /\ Opening(p)' = Opening(p)
    BY <1>2, Zenon DEF Opening
  <1>8. \A t \in Tun : /\ tunnel'[t].mem = tunnel[t].mem
                       /\ tunnel'[t].url = tunnel[t].url
                       /\ tunnel'[t].cktp = tunnel[t].cktp
                       /\ (\E p \in P : opens[p] = t) => tunnel'[t].state = "OPENING"
                       /\ ~(\E p \in P : opens[p] = t) => tunnel'[t] = tunnel[t]
    BY <1>2 DEF TypeOK, tunnel_s
  <1>9. Live' = Live
    BY <1>8, Zenon DEF Live
  <1>10. NoDangling' /\ LiveHasUrl'
    BY <1>3, <1>4, <1>5, <1>6, <1>7, <1>8, <1>9 DEF NoDangling, LiveHasUrl, Live
  <1>11. tunnels_cache \subseteq Tun /\ tunnels_active \subseteq Tun
    BY Zenon DEF TypeOK
  <1>12. ActiveUsable' /\ ActiveState'
    BY <1>3, <1>4, <1>5, <1>8, <1>11, Zenon DEF ActiveUsable, ActiveState
  <1>13. OneTunnelPerUrl' /\ Loading'
    BY <1>3, <1>8, <1>11 DEF OneTunnelPerUrl, Loading
  <1>14. Ownership'
    <2>1. \A t \in Tun : HandedOver(t) => HandedOver(t)'
      BY <1>3, <1>4, <1>5, <1>8 DEF HandedOver
    <2>2. \A p \in P : HandedOver(opens[p])'
      BY <1>3, <1>4, <1>5, <1>8 DEF HandedOver
    <2>3. \A p, q \in Thread :
            Opening(p)' /\ Opening(q)' /\ thread'[p].tun = thread'[q].tun => p = q
      BY <1>4, <1>5, <1>6, <1>7 DEF Ownership
    <2>4. \A p \in Thread : user' = "spawn" /\ Opening(p)' => thread'[p].tun # userTun'
      BY <1>3, <1>4, <1>5, <1>6, <1>7 DEF Ownership
    <2>5. user' = "spawn" => HandedOver(userTun)'
      BY <1>3, <2>1, Zenon DEF Ownership, NoDangling, Live
    <2>6. \A p \in Thread : Opening(p)' =>
            /\ thread'[p].job = "activate" => HandedOver(thread[p].tun)'
            /\ thread'[p].job = "reconnect" =>
                  /\ thread'[p].tun \notin tunnels_cache'
                  /\ tunnel'[thread'[p].tun].state = "OPENING"
            /\ /\ thread'[p].pc = "done" /\ thread'[p].result
               /\ tunnel'[thread'[p].tun].state = "OPENING"
               => tunnel'[thread'[p].tun].cktp
      <3> SUFFICES ASSUME NEW p \in Thread, Opening(p)'
                   PROVE  /\ thread'[p].job = "activate" => HandedOver(thread[p].tun)'
                          /\ thread'[p].job = "reconnect" =>
                               /\ thread'[p].tun \notin tunnels_cache'
                               /\ tunnel'[thread'[p].tun].state = "OPENING"
                          /\ /\ thread'[p].pc = "done" /\ thread'[p].result
                             /\ tunnel'[thread'[p].tun].state = "OPENING"
                             => tunnel'[thread'[p].tun].cktp
        BY Zenon
      <3>1. CASE p \in P
        BY <1>6, <2>2, <3>1, Zenon
      <3>2. CASE p \notin P
        <4>1. /\ thread'[p] = thread[p] /\ Opening(p) /\ thread[p].tun \in Tun
              /\ thread[p].tun \notin closed
          BY <1>5, <1>7, <3>2, Zenon DEF NoDangling, Live
        <4>2. tunnel'[thread[p].tun] = tunnel[thread[p].tun]
          BY <1>4, <1>8, <4>1
        <4> QED BY <1>3, <2>1, <4>1, <4>2, Zenon DEF Ownership
      <3> QED BY <3>1, <3>2, Zenon
    <2> QED BY <2>3, <2>4, <2>5, <2>6, Zenon DEF Ownership
  <1>15. WaitingHasThread'
    <2> SUFFICES ASSUME NEW t \in Tun, Waiting(t)'
                 PROVE  \/ user' = "spawn" /\ userTun' = t
                        \/ \E p \in Thread : Opening(p)' /\ thread'[p].tun = t
      BY Zenon DEF WaitingHasThread
    <2>1. CASE \E p \in P : opens[p] = t
      BY <1>6, <2>1, Zenon
    <2>2. CASE ~ \E p \in P : opens[p] = t
      <3>1. Waiting(t)
        BY <1>3, <1>8, <2>2, Zenon DEF Waiting
      <3> QED BY <1>3, <1>6, <1>7, <3>1 DEF WaitingHasThread
    <2> QED BY <2>1, <2>2, Zenon
  <1> QED BY <1>10, <1>12, <1>13, <1>14, <1>15, Zenon

(* The reconnection manager creates a tunnel that only its new thread knows. *)
LEMMA SafeReconnectManager ==
    ASSUME Inv, TypeOK', tunnel_reconnect_manager
    PROVE  Safe'
  <1> USE DEF Inv, Safe
  <1>1. PICK t \in tunnels_active, p \in Idle, new \in Unallocated :
         /\ tunnel' = [tunnel EXCEPT
                         ![t] = [@ EXCEPT !.reconnect = TRUE],
                         ![new] = [tunnel_create(tunnel[t].url, TUNNEL_INIT_AGE)
                                     EXCEPT !.state = "OPENING"]]
         /\ thread' = [thread EXCEPT ![p] = NewThread("reconnect", new)]
    BY Zenon DEF tunnel_reconnect_manager
  <1>2. /\ tunnels_active' = tunnels_active /\ tunnels_cache' = tunnels_cache
        /\ main' = main /\ unread' = unread /\ user' = user /\ userTun' = userTun
    BY Zenon DEF tunnel_reconnect_manager
  <1>3. /\ new \in Tun /\ new \notin Live /\ new \notin tunnels_cache
        /\ new \notin tunnels_active /\ t # new /\ t \in Tun /\ t \in Live
        /\ \A q \in Thread : Opening(q) => thread[q].tun # new
        /\ user = "spawn" => userTun # new
    BY Zenon DEF Unallocated, Live, NoDangling
  <1>4. /\ tunnel'[t] = [tunnel[t] EXCEPT !.reconnect = TRUE]
        /\ tunnel'[new] = [tunnel_create(tunnel[t].url, TUNNEL_INIT_AGE)
                              EXCEPT !.state = "OPENING"]
        /\ \A x \in Tun \ {t, new} : tunnel'[x] = tunnel[x]
    BY <1>1, <1>3, Zenon DEF TypeOK
  <1>5. /\ \A x \in Tun \ {new} : /\ tunnel'[x].mem = tunnel[x].mem
                                 /\ tunnel'[x].url = tunnel[x].url
                                 /\ tunnel'[x].state = tunnel[x].state
                                 /\ tunnel'[x].cktp = tunnel[x].cktp
        /\ tunnel'[new].mem = "live" /\ tunnel'[new].url = tunnel[t].url
        /\ tunnel'[new].state = "OPENING"
    BY <1>3, <1>4 DEF tunnel_create, TypeOK, tunnel_s
  <1>6. /\ p \in Thread /\ ~Opening(p) /\ Opening(p)' /\ thread'[p].tun = new
        /\ thread'[p].job = "reconnect" /\ thread'[p].pc = "start"
    BY <1>1, Zenon DEF Idle, Opening, NewThread, TypeOK
  <1>7. \A q \in Thread \ {p} : thread'[q] = thread[q] /\ Opening(q)' = Opening(q)
    BY <1>1, Zenon DEF Opening, TypeOK
  <1>8. Live' = Live \cup {new}
    BY <1>3, <1>5, Zenon DEF Live
  <1>9. tunnels_cache \subseteq Tun /\ tunnels_active \subseteq Tun
    BY Zenon DEF TypeOK
  <1>10. NoDangling'
    BY <1>2, <1>6, <1>7, <1>8, Zenon DEF NoDangling
  <1>11. LiveHasUrl'
    BY <1>3, <1>5, <1>8 DEF LiveHasUrl, Live
  <1>12. ActiveUsable' /\ ActiveState'
    BY <1>2, <1>3, <1>5, <1>9 DEF ActiveUsable, ActiveState
  <1>13. OneTunnelPerUrl' /\ Loading'
    BY <1>2, <1>3, <1>5, <1>9 DEF OneTunnelPerUrl, Loading
  <1>14. Ownership'
    BY <1>2, <1>3, <1>5, <1>6, <1>7 DEF Ownership, HandedOver, NoDangling, Live
  <1>15. WaitingHasThread'
    <2>1. ASSUME NEW x \in Tun, Waiting(x)' PROVE Waiting(x)
      <3>1. x # new
        BY <1>2, <1>3, <2>1, Zenon DEF Waiting
      <3>2. tunnel'[x].state = tunnel[x].state /\ tunnel'[x].cktp = tunnel[x].cktp
        BY <1>5, <3>1, Zenon
      <3> QED BY <1>2, <2>1, <3>2, Zenon DEF Waiting
    <2> QED BY <1>2, <1>6, <1>7, <2>1, Zenon DEF WaitingHasThread
  <1> QED BY <1>10, <1>11, <1>12, <1>13, <1>14, <1>15, Zenon

(* Progress of a thread within tunnel_try_activate, on the tunnel it has,
   keeps the ownership of every tunnel. *)
LEMMA TryOwnership ==
    ASSUME Inv, NEW p \in Thread, Opening(p), Opening(p)',
           UNCHANGED <<tunnels_cache, tunnels_active, user, userTun>>,
           thread'[p].tun = thread[p].tun, thread'[p].job = thread[p].job,
           \A q \in Thread \ {p} : thread'[q] = thread[q] /\ Opening(q)' = Opening(q),
           \A x \in Tun : tunnel'[x].state = tunnel[x].state,
           \A x \in Tun : x # thread[p].tun => tunnel'[x] = tunnel[x],
           /\ thread'[p].pc = "done" /\ thread'[p].result
           /\ tunnel'[thread[p].tun].state = "OPENING"
           => tunnel'[thread[p].tun].cktp
    PROVE  Ownership'
  <1> USE DEF Inv, Safe
  <1>1. \A x \in Tun : HandedOver(x) => HandedOver(x)'
    BY Zenon DEF HandedOver
  <1>2. \A q \in Thread : Opening(q) => thread'[q].tun = thread[q].tun
                                     /\ thread'[q].job = thread[q].job
    BY Zenon
  <1>3. \A q \in Thread : Opening(q)' => Opening(q)
    BY Zenon
  <1>4. ASSUME NEW q \in Thread, Opening(q)'
        PROVE  /\ thread'[q].job = "activate" => HandedOver(thread[q].tun)'
               /\ thread'[q].job = "reconnect" =>
                    /\ thread'[q].tun \notin tunnels_cache'
                    /\ tunnel'[thread'[q].tun].state = "OPENING"
               /\ /\ thread'[q].pc = "done" /\ thread'[q].result
                  /\ tunnel'[thread'[q].tun].state = "OPENING"
                  => tunnel'[thread'[q].tun].cktp
    <2>1. Opening(q) /\ thread[q].tun \in Tun
      BY <1>3, <1>4, Zenon DEF NoDangling, Live
    <2>2. thread'[q].job = "activate" => HandedOver(thread[q].tun)'
      BY <1>1, <1>2, <2>1 DEF Ownership
    <2>3. thread'[q].job = "reconnect" =>
            /\ thread'[q].tun \notin tunnels_cache'
            /\ tunnel'[thread'[q].tun].state = "OPENING"
      BY <1>2, <2>1 DEF Ownership
    <2>4. CASE q = p
      BY <2>2, <2>3, <2>4, Zenon
    <2>5. CASE q # p
      <3>1. thread'[q] = thread[q] /\ thread[q].tun # thread[p].tun
        BY <2>1, <2>5, Zenon DEF Ownership
      <3> QED BY <2>1, <2>2, <2>3, <3>1 DEF Ownership
    <2> QED BY <2>4, <2>5, Zenon
  <1>5. user' = "spawn" => HandedOver(userTun)'
    BY <1>1, Zenon DEF Ownership, NoDangling, Live
  <1>6. \A q, r \in Thread :
          Opening(q)' /\ Opening(r)' /\ thread'[q].tun = thread'[r].tun => q = r
    BY <1>2, <1>3 DEF Ownership
  <1>7. \A q \in Thread : user' = "spawn" /\ Opening(q)' => thread'[q].tun # userTun'
    BY <1>2, <1>3, Zenon DEF Ownership
  <1> QED BY <1>2, <1>3, <1>4, <1>5, <1>6, <1>7, Zenon DEF Ownership

(* The test of tunnel_try_activate leaves its thread opening the same tunnel. *)
LEMMA SafeTest ==
    ASSUME Inv, TypeOK', NEW p \in Thread, tunnel_try_activate_test(p)
    PROVE  Safe'
  <1> USE DEF Inv, Safe
  <1>1. /\ thread' = [thread EXCEPT ![p] = Tested(@, tunnel[@.tun])]
        /\ UNCHANGED <<tunnel, tunnels_cache, tunnels_active, user, userTun, main, unread>>
        /\ Opening(p)
    BY Zenon DEF tunnel_try_activate_test, Opening
  <1>2. /\ thread'[p].tun = thread[p].tun /\ thread'[p].job = thread[p].job
        /\ Opening(p)'
        /\ thread'[p].pc = "done" => tunnel[thread[p].tun].state # "OPENING"
    BY <1>1 DEF Tested, TypeOK, thread_s, Opening
  <1>3. \A q \in Thread \ {p} : thread'[q] = thread[q] /\ Opening(q)' = Opening(q)
    BY <1>1, Zenon DEF Opening, TypeOK
  <1>4. /\ UNCHANGED <<tunnel, tunnels_cache, tunnels_active, user, userTun, main, unread>>
        /\ Opening(p)
    BY <1>1, Zenon
  <1>5. NoDangling' /\ LiveHasUrl'
    BY <1>2, <1>3, <1>4 DEF NoDangling, LiveHasUrl, Live
  <1>6. ActiveUsable' /\ ActiveState'
    BY <1>4, Zenon DEF ActiveUsable, ActiveState
  <1>7. OneTunnelPerUrl' /\ Loading'
    BY <1>4, Zenon DEF OneTunnelPerUrl, Loading
  <1>8. Ownership'
    BY <1>2, <1>3, <1>4, TryOwnership, Zenon
  <1>9. WaitingHasThread'
    BY <1>2, <1>3, <1>4 DEF WaitingHasThread, Waiting
  <1> QED BY <1>5, <1>6, <1>7, <1>8, <1>9, Zenon

-----------------------------------------------------------------------------

USE ConstantsAssumption

(* An attempt to open a tunnel changes only a CKTP tunnel no worker can use
   yet, and reports success with one, or without one if the tunnel moved on. *)
LEMMA SafeOpen ==
    ASSUME Inv, TypeOK', NEW p \in Thread, tunnel_try_activate_open(p)
    PROVE  Safe'
  <1> USE DEF Inv, Safe
  <1> DEFINE t == thread[p].tun
  <1>1. PICK opened \in BOOLEAN :
          /\ tunnel' = [tunnel EXCEPT ![t] = [@ EXCEPT !.cktp = opened]]
          /\ thread' = [thread EXCEPT ![p] = Tried(@, tunnel[t], opened)]
    BY Zenon DEF tunnel_try_activate_open
  <1>2. /\ UNCHANGED <<tunnels_cache, tunnels_active, user, userTun, main, unread>>
        /\ Opening(p) /\ t \in Tun /\ t \in Live
    BY Zenon DEF tunnel_try_activate_open, Opening, NoDangling, Live
  <1>3. t \notin tunnels_active
    BY <1>2, Zenon DEF Ownership, HandedOver, ActiveUsable, TypeOK, thread_s
  <1>4. /\ \A x \in Tun : /\ tunnel'[x].mem = tunnel[x].mem
                          /\ tunnel'[x].url = tunnel[x].url
                          /\ tunnel'[x].state = tunnel[x].state
                          /\ x # t => tunnel'[x] = tunnel[x]
        /\ tunnel'[t].cktp = opened
    BY <1>1, <1>2 DEF TypeOK, tunnel_s
  <1>5. thread[p] \in thread_s
    BY Zenon DEF TypeOK
  <1>6. /\ thread'[p].tun = t /\ thread'[p].job = thread[p].job /\ Opening(p)'
    <2>1. /\ Tried(thread[p], tunnel[t], opened).tun = t
          /\ Tried(thread[p], tunnel[t], opened).job = thread[p].job
          /\ Tried(thread[p], tunnel[t], opened).pc \in {"done", "try"}
      BY <1>5, Zenon DEF Tried, thread_s
    <2> QED BY <1>1, <2>1, Zenon DEF TypeOK, Opening
  <1>7. thread'[p].result /\ tunnel[t].state = "OPENING" => opened
    <2>1. Tried(thread[p], tunnel[t], opened).result /\ tunnel[t].state = "OPENING"
            => opened
      BY <1>5, Zenon DEF Tried, thread_s
    <2> QED BY <1>1, <2>1, Zenon DEF TypeOK
  <1>8. \A q \in Thread \ {p} : thread'[q] = thread[q] /\ Opening(q)' = Opening(q)
    BY <1>1, Zenon DEF Opening, TypeOK
  <1>9. NoDangling' /\ LiveHasUrl'
    BY <1>2, <1>4, <1>6, <1>8 DEF NoDangling, LiveHasUrl, Live
  <1>10. tunnels_cache \subseteq Tun /\ tunnels_active \subseteq Tun
    BY Zenon DEF TypeOK
  <1>11. ActiveUsable' /\ ActiveState'
    BY <1>2, <1>3, <1>4, <1>10, Zenon DEF ActiveUsable, ActiveState
  <1>12. OneTunnelPerUrl' /\ Loading'
    BY <1>2, <1>4, <1>10 DEF OneTunnelPerUrl, Loading
  <1>13. WaitingHasThread'
    BY <1>2, <1>4, <1>6, <1>8 DEF WaitingHasThread, Waiting
  <1>14. Ownership'
    <2>1. /\ thread'[p].pc = "done" /\ thread'[p].result
          /\ tunnel'[t].state = "OPENING"
          => tunnel'[t].cktp
      BY <1>2, <1>4, <1>7, Zenon
    <2> QED BY <1>2, <1>4, <1>6, <1>8, <2>1, TryOwnership, Zenon
  <1> QED BY <1>9, <1>11, <1>12, <1>13, <1>14, Zenon

(* A step does to the tunnel x, which a thread holds, nothing but take it out
   of the cache and mark it, if it does anything at all. *)
Kept(x) == /\ HandedOver(x) => HandedOver(x)'
           /\ x \notin tunnels_cache => x \notin tunnels_cache'
           /\ \/ tunnel'[x] = tunnel[x]
              \/ x \in tunnels_cache /\ tunnel'[x].state # "OPENING"

(* A step that starts no thread, and keeps the tunnels of the threads that go
   on, keeps the ownership of every tunnel. *)
LEMMA KeepOwnership ==
    ASSUME Inv,
           user' = "spawn" => user = "spawn" /\ userTun' = userTun /\ Kept(userTun),
           \A q \in Thread : Opening(q)' =>
             Opening(q) /\ thread'[q] = thread[q] /\ Kept(thread[q].tun)
    PROVE  Ownership'
  <1> USE DEF Inv, Safe
  <1>1. user' = "spawn" => HandedOver(userTun)'
    BY Zenon DEF Ownership, Kept
  <1>2. ASSUME NEW q \in Thread, Opening(q)'
        PROVE  /\ thread'[q].job = "activate" => HandedOver(thread[q].tun)'
               /\ thread'[q].job = "reconnect" =>
                    /\ thread'[q].tun \notin tunnels_cache'
                    /\ tunnel'[thread'[q].tun].state = "OPENING"
               /\ /\ thread'[q].pc = "done" /\ thread'[q].result
                  /\ tunnel'[thread'[q].tun].state = "OPENING"
                  => tunnel'[thread'[q].tun].cktp
    <2>1. Opening(q) /\ thread'[q] = thread[q] /\ Kept(thread[q].tun)
      BY <1>2, Zenon
    <2>2. thread'[q].job = "activate" => HandedOver(thread[q].tun)'
      <3>1. thread[q].job = "activate" => HandedOver(thread[q].tun)
        BY <2>1, Zenon DEF Ownership
      <3> QED BY <2>1, <3>1, Zenon DEF Kept
    <2>3. thread'[q].job = "reconnect" =>
            /\ thread'[q].tun \notin tunnels_cache'
            /\ tunnel'[thread'[q].tun].state = "OPENING"
      BY <2>1 DEF Ownership, Kept
    <2>4. /\ thread'[q].pc = "done" /\ thread'[q].result
          /\ tunnel'[thread'[q].tun].state = "OPENING"
          => tunnel'[thread'[q].tun].cktp
      BY <2>1 DEF Ownership, Kept
    <2> QED BY <2>2, <2>3, <2>4, Zenon
  <1>3. \A q, r \in Thread :
          Opening(q)' /\ Opening(r)' /\ thread'[q].tun = thread'[r].tun => q = r
    BY DEF Ownership
  <1>4. \A q \in Thread : user' = "spawn" /\ Opening(q)' => thread'[q].tun # userTun'
    BY Zenon DEF Ownership
  <1>5. \A q \in Thread : Opening(q)' => thread'[q].tun = thread[q].tun
    BY Zenon
  <1> QED BY <1>1, <1>2, <1>3, <1>4, <1>5, Zenon DEF Ownership

(* What tunnel_free does to a tunnel: one being opened, or left to the thread
   that opens it, is not released. *)
LEMMA FreeFacts ==
    ASSUME NEW o \in tunnel_s
    PROVE  /\ o.state = "OPENING" =>
                /\ tunnel_free(o).state = "DELETING" /\ tunnel_free(o).mem = o.mem
                /\ tunnel_free(o).url = o.url
           /\ o.state = "DELETING" => tunnel_free(o) = o
           /\ o.state \notin {"OPENING", "DELETING"} => tunnel_free(o) = NoMemory("freed")
           /\ tunnel_free(o).mem = "live" => tunnel_free(o).url = o.url /\ o.mem = "live"
           /\ tunnel_free(o).state # "OPENING"
  BY Zenon DEF tunnel_free, tunnel_s, NoMemory

(* tunnel_activate makes its tunnel active or dead if it is still in the
   cache, and frees it otherwise; then no thread opens it any more. *)
LEMMA SafeActivate ==
    ASSUME Inv, TypeOK', NEW p \in Thread, tunnel_activate(p)
    PROVE  Safe'
  <1> USE DEF Inv, Safe
  <1> DEFINE t == thread[p].tun
             o == tunnel[t]
  <1>1. /\ tunnel' = [tunnel EXCEPT ![t] = Activated(o, thread[p].result)]
        /\ tunnels_active' = IF o.state = "OPENING" /\ thread[p].result
                             THEN tunnels_active \cup {t} ELSE tunnels_active
        /\ thread' = [thread EXCEPT ![p] = [IdleThread EXCEPT !.pc = "write"]]
        /\ UNCHANGED <<tunnels_cache, user, userTun, main, unread>>
        /\ Opening(p) /\ thread[p].job = "activate" /\ thread[p].pc = "done"
    BY Zenon DEF tunnel_activate, Opening
  <1>2. /\ t \in Tun /\ t \in Live /\ o \in tunnel_s /\ HandedOver(t)
        /\ thread[p].result \in BOOLEAN
    BY <1>1, Zenon DEF NoDangling, Live, TypeOK, Ownership, thread_s
  <1>3. ~Opening(p)'
    <2>1. [IdleThread EXCEPT !.pc = "write"].pc = "write"
      BY Zenon DEF IdleThread
    <2> QED BY <1>1, <2>1, Zenon DEF TypeOK, Opening
  <1>4. \A q \in Thread \ {p} : thread'[q] = thread[q] /\ Opening(q)' = Opening(q)
    BY <1>1, Zenon DEF Opening, TypeOK
  <1>5. \A q \in Thread : Opening(q)' => Opening(q) /\ thread'[q] = thread[q]
                                          /\ thread[q].tun # t
    BY <1>1, <1>3, <1>4, Zenon DEF Ownership
  <1>6. user = "spawn" => userTun # t
    BY <1>1, Zenon DEF Ownership
  <1>7. \A x \in Tun \ {t} : tunnel'[x] = tunnel[x]
    BY <1>1, Zenon DEF TypeOK
  <1>8. tunnels_cache \subseteq Tun /\ tunnels_active \subseteq Tun
    BY Zenon DEF TypeOK
  <1>9. UNCHANGED <<tunnels_cache, user, userTun, main, unread>>
    BY <1>1, Zenon
  <1>10. CASE o.state = "DELETING"
    <2>1. t \notin tunnels_cache /\ tunnels_active' = tunnels_active
      BY <1>1, <1>2, <1>10, Zenon DEF HandedOver
    <2>2. t \notin tunnels_active
      BY <2>1, Zenon DEF ActiveUsable
    <2>3. tunnel'[t] = NoMemory("freed")
      <3>1. /\ [o EXCEPT !.state = "OPEN"] \in tunnel_s
            /\ [o EXCEPT !.state = "OPEN"].state = "OPEN"
        BY <1>2, Zenon DEF tunnel_s, State
      <3>2. tunnel_free([o EXCEPT !.state = "OPEN"]) = NoMemory("freed")
        BY <3>1, FreeFacts, Zenon
      <3>3. Activated(o, thread[p].result) = NoMemory("freed")
        BY <1>10, <3>2, Zenon DEF Activated
      <3> QED BY <1>1, <1>2, <3>3, Zenon DEF TypeOK
    <2>4. Live' = Live \ {t}
      BY <1>2, <1>7, <2>3 DEF Live, NoMemory
    <2>5. NoDangling'
      BY <1>5, <1>6, <1>9, <2>1, <2>2, <2>4, Zenon DEF NoDangling
    <2>6. LiveHasUrl'
      BY <1>7, <2>4, Zenon DEF LiveHasUrl, Live
    <2>7. ActiveUsable' /\ ActiveState'
      BY <1>7, <1>8, <1>9, <2>1, <2>2, Zenon DEF ActiveUsable, ActiveState
    <2>8. OneTunnelPerUrl' /\ Loading'
      BY <1>7, <1>8, <1>9, <2>1 DEF OneTunnelPerUrl, Loading
    <2>9. Ownership'
      <3>1. \A x \in Tun \ {t} : Kept(x)
        BY <1>7, <1>9, <2>1, Zenon DEF Kept, HandedOver
      <3> QED BY <1>5, <1>6, <1>9, <3>1, KeepOwnership, Zenon DEF NoDangling, Live
    <2>10. WaitingHasThread'
      <3>1. \A x \in Tun : Waiting(x)' => Waiting(x) /\ x # t
        BY <1>7, <1>9, <2>1, Zenon DEF Waiting
      <3> QED BY <1>4, <1>9, <3>1, Zenon DEF WaitingHasThread
    <2> QED BY <2>5, <2>6, <2>7, <2>8, <2>9, <2>10, Zenon
  <1>11. CASE o.state = "OPENING"
    <2>1. t \in tunnels_cache /\ t \notin tunnels_active
      BY <1>2, <1>11, Zenon DEF HandedOver
    <2>2. /\ tunnel'[t].mem = "live" /\ tunnel'[t].url = o.url
          /\ tunnel'[t].cktp = o.cktp
          /\ tunnel'[t].state = IF thread[p].result THEN "OPEN" ELSE "DEAD"
      <3>1. CASE thread[p].result
        <4>1. Activated(o, thread[p].result)
                = [o EXCEPT !.state = "OPEN", !.age = TUNNEL_INIT_AGE]
          BY <1>11, <3>1, Zenon DEF Activated
        <4>2. tunnel'[t] = [o EXCEPT !.state = "OPEN", !.age = TUNNEL_INIT_AGE]
          BY <1>1, <1>2, <4>1, ZenonT(30) DEF TypeOK
        <4> QED BY <1>2, <3>1, <4>2 DEF tunnel_s, Live
      <3>2. CASE ~thread[p].result
        <4>1. Activated(o, thread[p].result)
                = [o EXCEPT !.state = "DEAD", !.age = IF @ = 0 THEN 0 ELSE @ - 1]
          BY <1>11, <3>2, Zenon DEF Activated
        <4> QED BY <1>1, <1>2, <3>2, <4>1 DEF TypeOK, tunnel_s, Live
      <3> QED BY <3>1, <3>2, Zenon
    <2>3. thread[p].result => o.cktp
      BY <1>1, <1>11, Zenon DEF Ownership
    <2>4. Live' = Live
      BY <1>2, <1>7, <2>2, Zenon DEF Live
    <2>5. /\ t \in tunnels_active' => thread[p].result
          /\ \A x : x # t => (x \in tunnels_active' <=> x \in tunnels_active)
      BY <1>1, <2>1, Zenon
    <2>6. NoDangling'
      BY <1>2, <1>5, <1>9, <2>4, <2>5, Zenon DEF NoDangling
    <2>7. LiveHasUrl'
      BY <1>2, <1>7, <2>2, <2>4, Zenon DEF LiveHasUrl, Live
    <2>8. ActiveUsable' /\ ActiveState'
      BY <1>2, <1>7, <1>8, <1>9, <2>1, <2>2, <2>3, <2>5 DEF ActiveUsable, ActiveState
    <2>9. OneTunnelPerUrl' /\ Loading'
      BY <1>2, <1>7, <1>8, <1>9, <2>2 DEF OneTunnelPerUrl, Loading
    <2>10. Ownership'
      <3>1. \A x \in Tun \ {t} : Kept(x)
        BY <1>7, <1>9, <2>5, Zenon DEF Kept, HandedOver
      <3> QED BY <1>5, <1>6, <1>9, <3>1, KeepOwnership DEF NoDangling, Live
    <2>11. WaitingHasThread'
      <3>1. \A x \in Tun : Waiting(x)' => Waiting(x) /\ x # t
        BY <1>7, <1>9, <2>2, Zenon DEF Waiting
      <3> QED BY <1>4, <1>9, <3>1 DEF WaitingHasThread
    <2> QED BY <2>5, <2>6, <2>7, <2>8, <2>9, <2>10, <2>11, Zenon
  <1> QED BY <1>2, <1>10, <1>11, Zenon DEF HandedOver

(* A successful reconnect puts the new tunnel where the old one was: in both
   sets, in the cache only, or nowhere.  The old one is released unless some
   thread opens it. *)
LEMMA SafeReconnectSuccess ==
    ASSUME Inv, TypeOK', NEW p \in Thread, tunnel_reconnect_success(p)
    PROVE  Safe'
  <1> USE DEF Inv, Safe
  <1> DEFINE new == thread[p].tun
             u   == tunnel[new].url
  <1>1. PICK old_active \in FirstMatch(tunnels_active, u),
             old_cache  \in FirstMatch(tunnels_cache, u) :
            /\ tunnels_active' = tunnel_set_replace(tunnels_active, old_active, new)
            /\ tunnels_cache'  = tunnel_set_replace(tunnels_cache, old_cache, new)
            /\ tunnel' =
                 CASE old_active # NoTun ->
                        [tunnel EXCEPT ![old_active] = tunnel_free(@)]
                   [] old_active = NoTun /\ old_cache # NoTun ->
                        [tunnel EXCEPT
                           ![new] = [Closed(@, "DEAD") EXCEPT !.reconnect = FALSE],
                           ![old_cache] = tunnel_free(@)]
                   [] OTHER -> [tunnel EXCEPT ![new] = tunnel_free(@)]
            /\ thread' = IF old_active = NoTun /\ old_cache = NoTun
                         THEN [thread EXCEPT ![p] = IdleThread]
                         ELSE [thread EXCEPT ![p] = [@ EXCEPT !.pc = "log"]]
    BY Zenon DEF tunnel_reconnect_success
  <1>2. /\ UNCHANGED <<user, userTun, main, unread>>
        /\ Opening(p) /\ thread[p].job = "reconnect" /\ thread[p].pc = "done"
        /\ thread[p].result
    BY Zenon DEF tunnel_reconnect_success, Opening
  <1>3. /\ new \in Tun /\ new \in Live /\ new \notin tunnels_cache
        /\ new \notin tunnels_active /\ tunnel[new].state = "OPENING"
        /\ tunnel[new].cktp
    BY <1>2, Zenon DEF NoDangling, Live, Ownership, ActiveUsable
  <1>4. ~Opening(p)'
    <2>1. thread'[p].pc \in {"idle", "log"}
      BY <1>1 DEF TypeOK, IdleThread, thread_s
    <2> QED BY <2>1, Zenon DEF Opening
  <1>5. \A q \in Thread \ {p} : thread'[q] = thread[q] /\ Opening(q)' = Opening(q)
    BY <1>1, Zenon DEF Opening, TypeOK
  <1>6. \A q \in Thread : Opening(q)' => /\ Opening(q) /\ thread'[q] = thread[q]
                                          /\ thread[q].tun # new
    BY <1>2, <1>4, <1>5, Zenon DEF Ownership
  <1>7. user = "spawn" => userTun # new
    BY <1>2, Zenon DEF Ownership
  <1>8. \A x \in Tun : tunnel[x] \in tunnel_s
    BY Zenon DEF TypeOK
  <1>9. tunnels_cache \subseteq Tun /\ tunnels_active \subseteq Tun
    BY Zenon DEF TypeOK
  <1>10. CASE old_cache = NoTun
    <2>1. \A x \in tunnels_cache : tunnel[x].url # u
      BY <1>1, <1>10, Zenon DEF FirstMatch, Matching, TypeOK
    <2>2. old_active = NoTun
      BY <1>1, <2>1, Zenon DEF FirstMatch, Matching, ActiveUsable
    <2>3. UNCHANGED <<tunnels_active, tunnels_cache>>
      BY <1>1, <1>10, <2>2, Zenon DEF tunnel_set_replace
    <2>4. /\ \A x \in Tun \ {new} : tunnel'[x] = tunnel[x]
          /\ tunnel'[new].mem = "live" /\ tunnel'[new].url = u
      <3>1. tunnel' = [tunnel EXCEPT ![new] = tunnel_free(@)]
        BY <1>1, <1>10, <2>2, Zenon
      <3> QED BY <1>3, <1>8, <3>1, FreeFacts DEF TypeOK, Live
    <2>5. Live' = Live
      BY <1>3, <2>4, Zenon DEF Live
    <2>6. NoDangling'
      BY <1>2, <1>6, <2>3, <2>5, Zenon DEF NoDangling
    <2>7. LiveHasUrl'
      BY <1>3, <2>4, <2>5, Zenon DEF LiveHasUrl, Live
    <2>8. ActiveUsable' /\ ActiveState'
      BY <1>3, <1>9, <2>3, <2>4, Zenon DEF ActiveUsable, ActiveState
    <2>9. OneTunnelPerUrl' /\ Loading'
      BY <1>2, <1>3, <1>9, <2>3, <2>4 DEF OneTunnelPerUrl, Loading
    <2>10. Ownership'
      <3>1. \A x \in Tun \ {new} : Kept(x)
        BY <2>3, <2>4, Zenon DEF Kept, HandedOver
      <3> QED BY <1>2, <1>6, <1>7, <3>1, KeepOwnership, Zenon DEF NoDangling, Live
    <2>11. WaitingHasThread'
      BY <1>2, <1>3, <1>5, <2>3, <2>4 DEF WaitingHasThread, Waiting
    <2> QED BY <2>6, <2>7, <2>8, <2>9, <2>10, <2>11, Zenon
  <1>11. CASE old_cache # NoTun
    <2>1. /\ old_cache \in tunnels_cache /\ tunnel[old_cache].url = u
          /\ old_cache \in Tun /\ old_cache \in Live /\ old_cache # new
      BY <1>1, <1>3, <1>11 DEF FirstMatch, Matching, NoDangling, TypeOK
    <2>2. tunnels_cache' = (tunnels_cache \ {old_cache}) \cup {new}
      BY <1>1, <1>11, Zenon DEF tunnel_set_replace
    <2>3. \A x \in tunnels_cache : tunnel[x].url = u => x = old_cache
      BY <2>1, Zenon DEF OneTunnelPerUrl
    <2>4. \/ /\ old_active = old_cache /\ old_cache \in tunnels_active
             /\ tunnels_active' = (tunnels_active \ {old_cache}) \cup {new}
          \/ /\ old_active = NoTun /\ old_cache \notin tunnels_active
             /\ tunnels_active' = tunnels_active
      <3>1. CASE old_active = NoTun
        BY <1>1, <2>1, <3>1, Zenon DEF FirstMatch, Matching, tunnel_set_replace, TypeOK
      <3>2. CASE old_active # NoTun
        <4>1. old_active \in tunnels_active /\ tunnel[old_active].url = u
          BY <1>1, <3>2, Zenon DEF FirstMatch, Matching
        <4>2. old_active = old_cache
          BY <2>3, <4>1, Zenon DEF ActiveUsable
        <4> QED BY <1>1, <3>2, <4>1, <4>2, Zenon DEF tunnel_set_replace
      <3> QED BY <3>1, <3>2, Zenon
    <2>5. /\ tunnel'[old_cache] = tunnel_free(tunnel[old_cache])
          /\ \A x \in Tun \ {old_cache, new} : tunnel'[x] = tunnel[x]
          /\ old_active # NoTun => tunnel'[new] = tunnel[new]
          /\ old_active = NoTun =>
               tunnel'[new] = [Closed(tunnel[new], "DEAD") EXCEPT !.reconnect = FALSE]
      <3>1. CASE old_active # NoTun
        <4>1. tunnel' = [tunnel EXCEPT ![old_cache] = tunnel_free(@)]
          BY <1>1, <2>4, <3>1, Zenon
        <4> QED BY <1>3, <2>1, <3>1, <4>1, Zenon DEF TypeOK
      <3>2. CASE old_active = NoTun
        <4>1. tunnel' = [tunnel EXCEPT
                           ![new] = [Closed(@, "DEAD") EXCEPT !.reconnect = FALSE],
                           ![old_cache] = tunnel_free(@)]
          BY <1>1, <1>11, <3>2, Zenon
        <4> QED BY <1>3, <2>1, <3>2, <4>1, Zenon DEF TypeOK
      <3> QED BY <3>1, <3>2, Zenon
    <2>6. /\ tunnel'[new].mem = "live" /\ tunnel'[new].url = u
          /\ old_active # NoTun => tunnel'[new].state = "OPENING" /\ tunnel'[new].cktp
          /\ old_active = NoTun => tunnel'[new].state = "DEAD"
      <3>1. CASE old_active # NoTun
        BY <1>3, <2>5, <3>1, Zenon DEF Live
      <3>2. CASE old_active = NoTun
        <4>1. tunnel[new] \in tunnel_s /\ tunnel[new].mem = "live"
          BY <1>3, <1>8, Zenon DEF Live
        <4>2. /\ Closed(tunnel[new], "DEAD") \in tunnel_s
              /\ Closed(tunnel[new], "DEAD").mem = "live"
              /\ Closed(tunnel[new], "DEAD").url = u
              /\ Closed(tunnel[new], "DEAD").state = "DEAD"
          BY <4>1, Zenon DEF Closed, tunnel_s, State
        <4> QED BY <2>5, <3>2, <4>2, Zenon DEF tunnel_s
      <3> QED BY <3>1, <3>2, Zenon
    <2>7. /\ tunnel'[old_cache].mem = "live" => tunnel'[old_cache].url = u
          /\ tunnel'[old_cache].state # "OPENING"
          /\ tunnel[old_cache].state \in {"OPENING", "DELETING"}
               => /\ tunnel'[old_cache].state = "DELETING"
                  /\ tunnel'[old_cache].mem = "live"
      BY <1>8, <2>1, <2>5, FreeFacts DEF Live
    <2>8. \A q \in Thread : Opening(q)' /\ thread[q].tun = old_cache
            => HandedOver(old_cache)
      BY <1>6, <2>1 DEF Ownership, TypeOK, thread_s
    <2>9. user = "spawn" /\ userTun = old_cache => HandedOver(old_cache)
      BY Zenon DEF Ownership
    <2>10. HandedOver(old_cache) => tunnel'[old_cache].state = "DELETING"
                                    /\ tunnel'[old_cache].mem = "live"
      BY <2>7, Zenon DEF HandedOver
    <2>11. \A x \in Tun \ {old_cache, new} : tunnel'[x] = tunnel[x]
      BY <2>5, Zenon
    <2>12. /\ old_cache \notin tunnels_cache' /\ old_cache \notin tunnels_active'
           /\ new \in tunnels_active' => new \in tunnels_cache' /\ old_active # NoTun
           /\ \A x : x # new /\ x # old_cache =>
                /\ x \in tunnels_cache' <=> x \in tunnels_cache
                /\ x \in tunnels_active' <=> x \in tunnels_active
      BY <1>3, <2>1, <2>2, <2>4, Zenon
    <2>13. NoDangling'
      <3>1. \A x \in Live \ {old_cache} : x \in Live'
        BY <2>6, <2>11, Zenon DEF Live
      <3>2. (tunnels_cache \cup tunnels_active)' \subseteq Live'
        BY <1>3, <2>12, <3>1, Zenon DEF NoDangling
      <3>3. HandedOver(old_cache) => old_cache \in Live'
        BY <2>1, <2>10, Zenon DEF Live
      <3>4. \A q \in Thread : Opening(q)' => thread'[q].tun \in Live'
        BY <1>6, <2>8, <3>1, <3>3, Zenon DEF NoDangling
      <3>5. user' = "spawn" => userTun' \in Live'
        BY <1>2, <2>9, <3>1, <3>3, Zenon DEF NoDangling
      <3> QED BY <3>2, <3>4, <3>5, Zenon DEF NoDangling
    <2>14. LiveHasUrl'
      BY <1>3, <2>1, <2>6, <2>7, <2>11 DEF LiveHasUrl, Live
    <2>15. ActiveUsable'
      BY <1>9, <2>6, <2>11, <2>12, Zenon DEF ActiveUsable
    <2>16. ActiveState'
      BY <1>9, <2>6, <2>11, <2>12, Zenon DEF ActiveState
    <2>17. OneTunnelPerUrl'
      BY <1>9, <2>3, <2>6, <2>11, <2>12 DEF OneTunnelPerUrl
    <2>18. Loading'
      BY <1>2, <1>3, <1>9, <2>1, <2>6, <2>11, <2>12 DEF Loading
    <2>19. Ownership'
      <3>1. \A x \in Tun \ {new, old_cache} : Kept(x)
        BY <2>11, <2>12, Zenon DEF Kept, HandedOver
      <3>2. HandedOver(old_cache) => Kept(old_cache)
        BY <2>1, <2>7, <2>10, <2>12, Zenon DEF Kept, HandedOver
      <3>3. user' = "spawn" =>
              user = "spawn" /\ userTun' = userTun /\ Kept(userTun)
        BY <1>2, <1>7, <2>9, <3>1, <3>2, Zenon DEF NoDangling, Live
      <3>4. \A q \in Thread : Opening(q)' => Kept(thread[q].tun)
        BY <1>6, <2>8, <3>1, <3>2, Zenon DEF NoDangling, Live
      <3> QED BY <1>6, <3>3, <3>4, KeepOwnership, Zenon
    <2>20. WaitingHasThread'
      <3>1. \A x \in Tun : Waiting(x)' => Waiting(x) /\ x # new
        BY <2>6, <2>11, <2>12, Zenon DEF Waiting
      <3> QED BY <1>2, <1>5, <3>1 DEF WaitingHasThread
    <2> QED BY <2>13, <2>14, <2>15, <2>16, <2>17, <2>18, <2>19, <2>20, Zenon
  <1> QED BY <1>10, <1>11, Zenon

(* A failed reconnect gives up a tunnel only its thread knows, and at most
   takes another one out of the active set. *)
LEMMA SafeReconnectFailure ==
    ASSUME Inv, TypeOK', NEW p \in Thread, tunnel_reconnect_failure(p)
    PROVE  Safe'
  <1> USE DEF Inv, Safe
  <1> DEFINE new == thread[p].tun
  <1>1. PICK old : /\ tunnels_active' = tunnels_active \ {old}
                   /\ tunnel' = [tunnel EXCEPT ![new] =
                            tunnel_free(IF old = NoTun THEN @
                                        ELSE Closed(@, "DEAD"))]
    BY Zenon DEF tunnel_reconnect_failure
  <1>2. /\ UNCHANGED <<tunnels_cache, user, userTun, main, unread>>
        /\ Opening(p) /\ thread[p].job = "reconnect"
        /\ thread' = [thread EXCEPT ![p] = IdleThread]
    BY Zenon DEF tunnel_reconnect_failure, Opening
  <1>3. /\ new \in Tun /\ new \in Live /\ new \notin tunnels_cache
        /\ new \notin tunnels_active
    BY <1>2, Zenon DEF NoDangling, Live, Ownership, ActiveUsable
  <1>4. ~Opening(p)'
    BY <1>2, Zenon DEF TypeOK, IdleThread, Opening
  <1>5. \A q \in Thread \ {p} : thread'[q] = thread[q] /\ Opening(q)' = Opening(q)
    BY <1>2, Zenon DEF Opening, TypeOK
  <1>6. \A q \in Thread : Opening(q)' => /\ Opening(q) /\ thread'[q] = thread[q]
                                          /\ thread[q].tun # new
    BY <1>2, <1>4, <1>5, Zenon DEF Ownership
  <1>7. user = "spawn" => userTun # new
    BY <1>2, Zenon DEF Ownership
  <1>8. \A x \in Tun \ {new} : tunnel'[x] = tunnel[x]
    BY <1>1, Zenon DEF TypeOK
  <1>9. /\ tunnels_cache \subseteq Tun /\ tunnels_active \subseteq Tun
        /\ tunnels_active' \subseteq tunnels_active
    BY <1>1, Zenon DEF TypeOK
  <1>10. tunnel'[new].mem = "live" => tunnel'[new].url = tunnel[new].url
    <2>1. tunnel[new] \in tunnel_s
      BY <1>3, Zenon DEF TypeOK
    <2>2. /\ Closed(tunnel[new], "DEAD") \in tunnel_s
          /\ Closed(tunnel[new], "DEAD").url = tunnel[new].url
      BY <2>1, ZenonT(30) DEF Closed, tunnel_s, State
    <2> QED BY <1>1, <1>3, <2>1, <2>2, FreeFacts, Zenon DEF TypeOK
  <1>11. Live \ {new} \subseteq Live' /\ Live' \subseteq Live
    BY <1>3, <1>8, <1>10, Zenon DEF Live
  <1>12. NoDangling'
    BY <1>2, <1>3, <1>6, <1>7, <1>9, <1>11, Zenon DEF NoDangling
  <1>13. LiveHasUrl'
    BY <1>3, <1>8, <1>10, <1>11, Zenon DEF LiveHasUrl, Live
  <1>14. ActiveUsable' /\ ActiveState'
    BY <1>2, <1>3, <1>8, <1>9, Zenon DEF ActiveUsable, ActiveState
  <1>15. OneTunnelPerUrl' /\ Loading'
    BY <1>2, <1>3, <1>8, <1>9 DEF OneTunnelPerUrl, Loading
  <1>16. Ownership'
    <2>1. \A x \in Tun \ {new} : Kept(x)
      BY <1>2, <1>8, <1>9, Zenon DEF Kept, HandedOver
    <2> QED BY <1>2, <1>6, <1>7, <2>1, KeepOwnership, Zenon DEF NoDangling, Live
  <1>17. WaitingHasThread'
    BY <1>2, <1>3, <1>5, <1>8 DEF WaitingHasThread, Waiting
  <1> QED BY <1>12, <1>13, <1>14, <1>15, <1>16, <1>17

(* tunnel_add of a new URL creates a tunnel that no thread knows yet.  It must
   not run while the cache file is being loaded. *)
LEMMA SafeAddNew ==
    ASSUME Inv, TypeOK', ~EarlyUi, NEW u \in Url, tunnel_add_new(u)
    PROVE  Safe'
  <1> USE DEF Inv, Safe
  <1>1. PICK t \in Unallocated :
         /\ tunnel' = [tunnel EXCEPT ![t] = [tunnel_create(u, TUNNEL_INIT_AGE)
                                               EXCEPT !.state = "OPENING"]]
         /\ tunnels_cache' = tunnels_cache \cup {t}
         /\ userTun' = t
    BY Zenon DEF tunnel_add_new
  <1>2. /\ UNCHANGED <<tunnels_active, thread, main, unread>>
        /\ user' = "spawn" /\ user = "idle" /\ main = "done"
        /\ \A x \in tunnels_cache : tunnel[x].url # u
    BY Zenon DEF tunnel_add_new, UserMayAct, Matching
  <1>3. /\ t \in Tun /\ t \notin Live /\ t \notin tunnels_cache /\ t \notin tunnels_active
        /\ \A p \in Thread : Opening(p) => thread[p].tun # t
    BY Zenon DEF Unallocated, Live, NoDangling
  <1>4. /\ \A x \in Tun \ {t} : tunnel'[x] = tunnel[x]
        /\ tunnel'[t].mem = "live" /\ tunnel'[t].url = u /\ tunnel'[t].state = "OPENING"
    BY <1>1, <1>3, Zenon DEF TypeOK, tunnel_create
  <1>5. \A p \in Thread : Opening(p)' = Opening(p)
    BY <1>2, Zenon DEF Opening
  <1>6. tunnels_cache \subseteq Tun /\ tunnels_active \subseteq Tun
    BY Zenon DEF TypeOK
  <1>7. tunnels_cache' = tunnels_cache \cup {t} /\ userTun' = t
    BY <1>1, Zenon
  <1>8. NoDangling' /\ LiveHasUrl'
    BY <1>2, <1>3, <1>4, <1>5, <1>7 DEF NoDangling, LiveHasUrl, Live
  <1>9. ActiveUsable' /\ ActiveState'
    BY <1>2, <1>3, <1>4, <1>6, <1>7, Zenon DEF ActiveUsable, ActiveState
  <1>10. OneTunnelPerUrl' /\ Loading'
    BY <1>2, <1>3, <1>4, <1>6, <1>7 DEF OneTunnelPerUrl, Loading
  <1>11. Ownership'
    BY <1>2, <1>3, <1>4, <1>5, <1>7 DEF Ownership, HandedOver, NoDangling, Live
  <1>12. WaitingHasThread'
    BY <1>2, <1>4, <1>5, <1>7, Zenon DEF WaitingHasThread, Waiting
  <1> QED BY <1>8, <1>9, <1>10, <1>11, <1>12, Zenon

(* tunnel_add of a known URL takes a tunnel that no thread opens. *)
LEMMA SafeAddKnown ==
    ASSUME Inv, TypeOK', NEW u \in Url, tunnel_add_known(u)
    PROVE  Safe'
  <1> USE DEF Inv, Safe
  <1>1. PICK t \in Matching(tunnels_cache, u) :
         /\ tunnel[t].state \notin {"OPEN", "OPENING"}
         /\ tunnel' = [tunnel EXCEPT ![t] = [@ EXCEPT !.state = "OPENING"]]
         /\ userTun' = t
    BY Zenon DEF tunnel_add_known
  <1>2. /\ UNCHANGED <<tunnels_cache, tunnels_active, thread, main, unread>>
        /\ user' = "spawn" /\ user = "idle"
    BY Zenon DEF tunnel_add_known, UserMayAct
  <1>3. t \in Tun /\ t \in tunnels_cache /\ t \in Live /\ t \notin tunnels_active
    BY <1>1, Zenon DEF Matching, TypeOK, NoDangling, ActiveState
  <1>4. \A p \in Thread : Opening(p) => thread[p].tun # t
    BY <1>1, <1>3 DEF Ownership, HandedOver, TypeOK, thread_s
  <1>5. /\ \A x \in Tun \ {t} : tunnel'[x] = tunnel[x]
        /\ tunnel'[t].mem = "live" /\ tunnel'[t].url = tunnel[t].url
        /\ tunnel'[t].state = "OPENING"
    BY <1>1, <1>3 DEF TypeOK, tunnel_s, Live
  <1>6. \A p \in Thread : Opening(p)' = Opening(p)
    BY <1>2, Zenon DEF Opening
  <1>7. tunnels_cache \subseteq Tun /\ tunnels_active \subseteq Tun
    BY Zenon DEF TypeOK
  <1>8. userTun' = t
    BY <1>1, Zenon
  <1>9. NoDangling' /\ LiveHasUrl'
    BY <1>2, <1>3, <1>5, <1>6, <1>8 DEF NoDangling, LiveHasUrl, Live
  <1>10. ActiveUsable' /\ ActiveState'
    BY <1>2, <1>3, <1>5, <1>7, Zenon DEF ActiveUsable, ActiveState
  <1>11. OneTunnelPerUrl' /\ Loading'
    BY <1>2, <1>3, <1>5, <1>7 DEF OneTunnelPerUrl, Loading
  <1>12. Ownership'
    BY <1>2, <1>3, <1>4, <1>5, <1>6, <1>8 DEF Ownership, HandedOver, NoDangling, Live
  <1>13. WaitingHasThread'
    BY <1>2, <1>5, <1>6, <1>8, Zenon DEF WaitingHasThread, Waiting
  <1> QED BY <1>9, <1>10, <1>11, <1>12, <1>13, Zenon

(* The thread that tunnel_add starts takes over its tunnel. *)
LEMMA SafeAddSpawn ==
    ASSUME Inv, TypeOK', tunnel_add_spawn
    PROVE  Safe'
  <1> USE DEF Inv, Safe
  <1>1. PICK p \in Idle : thread' = [thread EXCEPT ![p] = NewThread("activate", userTun)]
    BY Zenon DEF tunnel_add_spawn
  <1>2. /\ UNCHANGED <<tunnel, tunnels_cache, tunnels_active, main, unread>>
        /\ user = "spawn" /\ user' = "write"
    BY Zenon DEF tunnel_add_spawn
  <1>3. /\ p \in Thread /\ ~Opening(p) /\ Opening(p)' /\ thread'[p].tun = userTun
        /\ thread'[p].job = "activate" /\ thread'[p].pc = "start"
    BY <1>1, Zenon DEF Idle, Opening, NewThread, TypeOK
  <1>4. \A q \in Thread \ {p} : thread'[q] = thread[q] /\ Opening(q)' = Opening(q)
    BY <1>1, Zenon DEF Opening, TypeOK
  <1>5. NoDangling' /\ LiveHasUrl'
    BY <1>2, <1>3, <1>4, Zenon DEF NoDangling, LiveHasUrl, Live
  <1>6. ActiveUsable' /\ ActiveState' /\ OneTunnelPerUrl' /\ Loading'
    BY <1>2, Zenon DEF ActiveUsable, ActiveState, OneTunnelPerUrl, Loading
  <1>7. Ownership'
    BY <1>2, <1>3, <1>4 DEF Ownership, HandedOver
  <1>8. WaitingHasThread'
    BY <1>2, <1>3, <1>4 DEF WaitingHasThread, Waiting
  <1> QED BY <1>5, <1>6, <1>7, <1>8, Zenon

(* tunnel_delete of an active tunnel: no thread opens it. *)
LEMMA SafeDeleteActive ==
    ASSUME Inv, TypeOK', NEW u \in Url, tunnel_delete_active(u)
    PROVE  Safe'
  <1> USE DEF Inv, Safe
  <1>1. PICK t \in Matching(tunnels_active, u) :
         /\ tunnels_active' = tunnels_active \ {t}
         /\ tunnel' = [tunnel EXCEPT ![t] = Deactivated(@)]
    BY Zenon DEF tunnel_delete_active
  <1>2. /\ UNCHANGED <<tunnels_cache, thread, userTun, main, unread>>
        /\ user' = "write"
    BY Zenon DEF tunnel_delete_active
  <1>3. /\ t \in Tun /\ t \in tunnels_active /\ t \in tunnels_cache
        /\ tunnel[t] \in tunnel_s /\ tunnel[t].mem = "live"
        /\ tunnel[t].state \in {"OPENING", "OPEN"}
    BY Zenon DEF Matching, TypeOK, NoDangling, Live, ActiveUsable, ActiveState
  <1>4. \A p \in Thread : Opening(p) => thread[p].tun # t
    BY <1>3 DEF Ownership, HandedOver, TypeOK, thread_s
  <1>5. /\ Deactivated(tunnel[t]).mem = "live"
        /\ Deactivated(tunnel[t]).url = tunnel[t].url
        /\ Deactivated(tunnel[t]).state # "OPENING"
    BY <1>3, Zenon DEF Deactivated, Closed, tunnel_s
  <1>6. /\ \A x \in Tun \ {t} : tunnel'[x] = tunnel[x]
        /\ tunnel'[t].mem = "live" /\ tunnel'[t].url = tunnel[t].url
        /\ tunnel'[t].state # "OPENING"
    BY <1>1, <1>3, <1>5, Zenon DEF TypeOK
  <1>7. \A p \in Thread : Opening(p)' = Opening(p)
    BY <1>2, Zenon DEF Opening
  <1>8. tunnels_cache \subseteq Tun /\ tunnels_active \subseteq Tun
    BY Zenon DEF TypeOK
  <1>9. tunnels_active' = tunnels_active \ {t}
    BY <1>1, Zenon
  <1>10. NoDangling' /\ LiveHasUrl'
    BY <1>2, <1>3, <1>6, <1>7, <1>9 DEF NoDangling, LiveHasUrl, Live
  <1>11. ActiveUsable' /\ ActiveState'
    BY <1>2, <1>3, <1>6, <1>8, <1>9, Zenon DEF ActiveUsable, ActiveState
  <1>12. OneTunnelPerUrl' /\ Loading'
    BY <1>2, <1>3, <1>6, <1>8 DEF OneTunnelPerUrl, Loading
  <1>13. Ownership'
    <2>1. \A x \in Tun \ {t} : Kept(x)
      BY <1>2, <1>6, <1>9, Zenon DEF Kept, HandedOver
    <2> QED BY <1>2, <1>4, <1>7, <2>1, KeepOwnership, Zenon DEF NoDangling, Live
  <1>14. WaitingHasThread'
    <2>1. \A x \in Tun : Waiting(x)' => Waiting(x) /\ x # t
      BY <1>2, <1>3, <1>6, Zenon DEF Waiting
    <2>2. user # "spawn"
      BY Zenon DEF tunnel_delete_active, UserMayAct
    <2> QED BY <1>2, <1>7, <2>1, <2>2, Zenon DEF WaitingHasThread
  <1> QED BY <1>10, <1>11, <1>12, <1>13, <1>14

(* tunnel_delete of an inactive tunnel releases it, unless a thread opens it;
   then that thread will. *)
LEMMA SafeDeleteCached ==
    ASSUME Inv, TypeOK', NEW u \in Url, tunnel_delete_cached(u)
    PROVE  Safe'
  <1> USE DEF Inv, Safe
  <1>1. PICK t \in FirstMatch(tunnels_cache, u) :
         /\ tunnels_cache' = tunnels_cache \ {t}
         /\ tunnel' = [x \in Tun |-> IF x = t THEN tunnel_free(tunnel[x])
                                     ELSE tunnel[x]]
    BY Zenon DEF tunnel_delete_cached
  <1>2. /\ UNCHANGED <<tunnels_active, thread, userTun, main, unread>>
        /\ user' = "write" /\ user # "spawn"
        /\ \A x \in tunnels_active : tunnel[x].url # u
    BY Zenon DEF tunnel_delete_cached, UserMayAct, Matching
  <1>3. t = NoTun \/ (t \in tunnels_cache /\ t \in Tun /\ tunnel[t].url = u)
    BY <1>1, Zenon DEF FirstMatch, Matching, TypeOK
  <1>4. t \notin tunnels_active
    BY <1>2, <1>3, Zenon DEF TypeOK
  <1>5. \A x \in Tun : tunnel[x] \in tunnel_s
    BY Zenon DEF TypeOK
  <1>6. /\ \A x \in Tun \ {t} : tunnel'[x] = tunnel[x]
        /\ t \in Tun =>
             /\ tunnel'[t].mem = "live" => tunnel'[t].url = u /\ tunnel[t].mem = "live"
             /\ tunnel'[t].state # "OPENING"
             /\ tunnel[t].state \in {"OPENING", "DELETING"} =>
                  tunnel'[t].mem = tunnel[t].mem /\ tunnel'[t].state = "DELETING"
    BY <1>1, <1>3, <1>5, FreeFacts, Zenon
  <1>7. \A p \in Thread : Opening(p)' = Opening(p)
    BY <1>2, Zenon DEF Opening
  <1>8. \A p \in Thread : Opening(p) /\ thread[p].tun = t =>
          HandedOver(t) /\ t \in Tun /\ tunnel[t].mem = "live"
    BY <1>3 DEF Ownership, TypeOK, thread_s, NoDangling, Live
  <1>9. tunnels_cache \subseteq Tun /\ tunnels_active \subseteq Tun
    BY Zenon DEF TypeOK
  <1>10. tunnels_cache' = tunnels_cache \ {t}
    BY <1>1, Zenon
  <1>11. NoDangling'
    <2>1. (tunnels_cache \cup tunnels_active)' \subseteq Live'
      BY <1>2, <1>4, <1>6, <1>9, <1>10 DEF NoDangling, Live
    <2>2. \A p \in Thread : Opening(p)' => thread'[p].tun \in Live'
      BY <1>2, <1>6, <1>7, <1>8 DEF NoDangling, Live, HandedOver
    <2> QED BY <1>2, <2>1, <2>2, Zenon DEF NoDangling
  <1>12. LiveHasUrl'
    BY <1>6, Zenon DEF LiveHasUrl, Live
  <1>13. ActiveUsable' /\ ActiveState'
    BY <1>2, <1>4, <1>6, <1>9, <1>10, Zenon DEF ActiveUsable, ActiveState
  <1>14. OneTunnelPerUrl' /\ Loading'
    BY <1>2, <1>6, <1>9, <1>10 DEF OneTunnelPerUrl, Loading
  <1>15. Ownership'
    <2>1. \A x \in Tun \ {t} : Kept(x)
      BY <1>2, <1>6, <1>10, Zenon DEF Kept, HandedOver
    <2>2. t \in Tun /\ HandedOver(t) => Kept(t)
      BY <1>2, <1>3, <1>6, <1>10, Zenon DEF Kept, HandedOver
    <2> QED BY <1>2, <1>7, <1>8, <2>1, <2>2, KeepOwnership, Zenon DEF NoDangling, Live
  <1>16. WaitingHasThread'
    <2>1. \A x \in Tun : Waiting(x)' => Waiting(x)
      BY <1>6, <1>10, Zenon DEF Waiting
    <2> QED BY <1>2, <1>7, <2>1, Zenon DEF WaitingHasThread
  <1> QED BY <1>11, <1>12, <1>13, <1>14, <1>15, <1>16, Zenon

-----------------------------------------------------------------------------
(* The invariant is inductive, as long as no request of the user comes before
   the cache file is loaded. *)
LEMMA InvNext ==
    ASSUME ~EarlyUi, Inv, [Next]_vars
    PROVE  Inv'
  <1>0. TypeOK'
    BY TypeNext, Zenon
  <1> SUFFICES Safe'
    BY <1>0, Zenon DEF Inv
  <1> USE <1>0
  <1>L. Loading
    BY Zenon DEF Inv, Safe
  <1>1. CASE tunnel_file_open
    BY <1>1, <1>L, FrameNext, Zenon DEF tunnel_file_open, Opening, Loading
  <1>2. CASE tunnel_file_read
    BY <1>2, SafeFileRead, Zenon
  <1>3. CASE tunnel_open
    BY <1>3, <1>L, FrameNext, Zenon DEF tunnel_open, Opening, Loading
  <1>4. CASE tunnel_activate_manager_scan
    BY <1>4, SafeScan
  <1>5. CASE tunnel_activate_manager_wake
    BY <1>5, <1>L, FrameNext, Zenon DEF tunnel_activate_manager_wake, Opening, Loading
  <1>6. CASE tunnel_reconnect_manager
    BY <1>6, SafeReconnectManager
  <1>7. ASSUME NEW p \in Thread, ThreadStep(p)
        PROVE  Safe'
    <2>1. CASE tunnel_activate_write(p)
      <3>1. \A q \in Thread : thread'[q] = IF q = p THEN IdleThread ELSE thread[q]
        BY <2>1, Zenon DEF tunnel_activate_write, Inv, TypeOK
      <3>2. thread[p].pc = "write" /\ IdleThread.pc = "idle"
        BY <2>1, Zenon DEF tunnel_activate_write, IdleThread
      <3> QED BY <2>1, <3>1, <3>2, <1>L, FrameNext, Zenon
              DEF tunnel_activate_write, Opening, Loading
    <2>2. CASE tunnel_reconnect_log(p)
      <3>1. \A q \in Thread : thread'[q] = IF q = p THEN IdleThread ELSE thread[q]
        BY <2>2, Zenon DEF tunnel_reconnect_log, Inv, TypeOK
      <3>2. thread[p].pc = "log" /\ IdleThread.pc = "idle"
        BY <2>2, Zenon DEF tunnel_reconnect_log, IdleThread
      <3> QED BY <2>2, <3>1, <3>2, <1>L, FrameNext, Zenon
              DEF tunnel_reconnect_log, Opening, Loading
    <2> QED BY <1>7, <2>1, <2>2, SafeTest, SafeOpen, SafeActivate,
               SafeReconnectSuccess, SafeReconnectFailure, Zenon DEF ThreadStep
  <1>8. ASSUME NEW u \in Url, UserRequest(u)
        PROVE  Safe'
    BY <1>8, SafeAddNew, SafeAddKnown, SafeDeleteActive, SafeDeleteCached, Zenon
       DEF UserRequest
  <1>9. CASE tunnel_add_spawn
    BY <1>9, SafeAddSpawn, Zenon
  <1>10. CASE tunnel_user_write
    BY <1>10, <1>L, FrameNext, Zenon DEF tunnel_user_write, Opening, Loading
  <1>11. CASE tunnel_ready
    BY <1>11, <1>L, FrameNext, Zenon DEF tunnel_ready, Opening, Loading
  <1>12. CASE tunnel_packets
    BY <1>12, <1>L, FrameNext, Zenon DEF tunnel_packets, Opening, Loading
  <1>13. CASE UNCHANGED vars
    BY <1>13, <1>L, FrameNext, Zenon DEF vars, Opening, Loading
  <1> QED
    BY <1>1, <1>2, <1>3, <1>4, <1>5, <1>6, <1>7, <1>8, <1>9, <1>10, <1>11, <1>12,
       <1>13, Zenon DEF Next, MainStep, ManagerStep

LEMMA Invariance == ASSUME ~EarlyUi PROVE Spec => []Inv
  <1>1. Inv /\ [Next]_vars => Inv'
    BY InvNext, Zenon
  <1> QED BY InvInit, <1>1, PTL DEF Spec

(* Every variable of the tunnel manager keeps its C type. *)
THEOREM TypeCorrect == ASSUME ~EarlyUi PROVE Spec => []TypeOK
  <1>1. Inv => TypeOK
    BY Zenon DEF Inv
  <1> QED BY Invariance, <1>1, PTL

(* No tunnel set and no thread at work ever points to memory that tunnel_free
   has released. *)
THEOREM MemorySafe == ASSUME ~EarlyUi PROVE Spec => []NoDangling
  <1>1. Inv => NoDangling
    BY Zenon DEF Inv, Safe
  <1> QED BY Invariance, <1>1, PTL

(* Neither panic("unexpected tunnel state"), of tunnel_activate and of
   tunnel_delete, is ever reached. *)
THEOREM PanicFree == ASSUME ~EarlyUi PROVE Spec => []NoPanic
  <1>1. Inv => NoPanic
    BY Zenon DEF Inv, Safe, NoPanic, Ownership, HandedOver, ActiveState
  <1> QED BY Invariance, <1>1, PTL

(* A tunnel that tunnel_packets may choose has a CKTP tunnel and is in the
   cache. *)
THEOREM ActiveTunnelsUsable == ASSUME ~EarlyUi PROVE Spec => []ActiveUsable
  <1>1. Inv => ActiveUsable
    BY Zenon DEF Inv, Safe
  <1> QED BY Invariance, <1>1, PTL

(* The cache never holds a URL twice, however adds, deletes and reconnects
   overlap. *)
THEOREM UrlsUnique == ASSUME ~EarlyUi PROVE Spec => []OneTunnelPerUrl
  <1>1. Inv => OneTunnelPerUrl
    BY Zenon DEF Inv, Safe
  <1> QED BY Invariance, <1>1, PTL

(* No two threads open the same tunnel, and a tunnel being opened is where its
   thread expects it. *)
THEOREM OneOwner == ASSUME ~EarlyUi PROVE Spec => []Ownership
  <1>1. Inv => Ownership
    BY Zenon DEF Inv, Safe
  <1> QED BY Invariance, <1>1, PTL

(* A tunnel that waits to be opened has a thread that will try. *)
THEOREM NoneForgotten == ASSUME ~EarlyUi PROVE Spec => []WaitingHasThread
  <1>1. Inv => WaitingHasThread
    BY Zenon DEF Inv, Safe
  <1> QED BY Invariance, <1>1, PTL

-----------------------------------------------------------------------------
(* The end of a tunnel, and the cache file *)

(* A tunnel on which a thread works is OPENING or DELETING, and tunnel_free
   never releases memory in these states. *)
LEMMA WorkedOn ==
    ASSUME Inv, NEW q \in Thread, Opening(q)
    PROVE  /\ thread[q].tun \in Tun
           /\ tunnel[thread[q].tun] \in tunnel_s
           /\ tunnel[thread[q].tun].state \in {"OPENING", "DELETING"}
           /\ tunnel[thread[q].tun].mem = "live"
           /\ tunnel_free(tunnel[thread[q].tun]).mem = "live"
  <1>1. /\ thread[q].tun \in Tun /\ tunnel[thread[q].tun].mem = "live"
        /\ tunnel[thread[q].tun] \in tunnel_s
    BY Zenon DEF Inv, Safe, NoDangling, Live, TypeOK
  <1>2. thread[q].job \in {"activate", "reconnect"}
    BY Zenon DEF Inv, TypeOK, thread_s
  <1>3. tunnel[thread[q].tun].state \in {"OPENING", "DELETING"}
    BY <1>2, Zenon DEF Inv, Safe, Ownership, HandedOver
  <1> QED BY <1>1, <1>3, FreeFacts, Zenon

(* A step of the system releases no memory that a thread goes on to use. *)
LEMMA FreedNext ==
    ASSUME Inv, Next, NEW t \in Tun,
           tunnel[t].mem = "live", tunnel'[t].mem = "freed",
           NEW q \in Thread, Opening(q), thread[q].tun = t
    PROVE  ~Opening(q)'
  <1> USE DEF Inv
  <1>1. /\ tunnel[t] \in tunnel_s /\ tunnel[t].state \in {"OPENING", "DELETING"}
        /\ tunnel_free(tunnel[t]).mem = "live"
    BY WorkedOn, Zenon
  <1>2. /\ tunnel \in [Tun -> tunnel_s] /\ thread \in [Thread -> thread_s]
        /\ tunnels_cache \subseteq Tun /\ tunnels_active \subseteq Tun
    BY Zenon DEF TypeOK
  <1>3. ASSUME NEW p \in Thread, ThreadStep(p), p = q
        PROVE  ~Opening(q)'
    <2>1. tunnel_activate(q) \/ tunnel_reconnect_success(q) \/ tunnel_reconnect_failure(q)
            => ~Opening(q)'
      BY <1>2 DEF tunnel_activate, tunnel_reconnect_success, tunnel_reconnect_failure,
                  Opening, IdleThread, thread_s
    <2>2. ~tunnel_try_activate_test(q) /\ ~tunnel_try_activate_open(q)
      BY <1>1, <1>2 DEF tunnel_try_activate_test, tunnel_try_activate_open, tunnel_s
    <2>3. ~tunnel_activate_write(q) /\ ~tunnel_reconnect_log(q)
      BY Zenon DEF tunnel_activate_write, tunnel_reconnect_log, Opening
    <2> QED BY <1>3, <2>1, <2>2, <2>3, Zenon DEF ThreadStep
  <1>4. ASSUME NEW p \in Thread, ThreadStep(p), p # q
        PROVE  FALSE
    <2>1. Opening(p) => thread[p].tun # t
      BY <1>4, Zenon DEF Safe, Ownership
    <2>2. Opening(p) => thread[p].tun \in Tun
      BY WorkedOn, Zenon
    <2>3. ~tunnel_try_activate_test(p) /\ ~tunnel_activate_write(p)
          /\ ~tunnel_reconnect_log(p)
      BY Zenon DEF tunnel_try_activate_test, tunnel_activate_write, tunnel_reconnect_log
    <2>4. ~tunnel_try_activate_open(p) /\ ~tunnel_activate(p)
      BY <1>2, <2>1, <2>2, Zenon
         DEF tunnel_try_activate_open, tunnel_activate, Opening
    <2>5. ~tunnel_reconnect_failure(p)
      BY <1>2, <2>1, <2>2, Zenon DEF tunnel_reconnect_failure, Opening
    <2>6. ~tunnel_reconnect_success(p)
      <3> SUFFICES ASSUME tunnel_reconnect_success(p) PROVE FALSE
        BY Zenon
      <3>1. Opening(p) /\ thread[p].tun \in Tun /\ thread[p].tun # t
        BY <2>1, <2>2, Zenon DEF tunnel_reconnect_success, Opening
      <3>2. tunnel'[t] \in {tunnel[t], tunnel_free(tunnel[t])}
        BY <1>2, <3>1 DEF tunnel_reconnect_success, FirstMatch, Matching
      <3> QED BY <1>1, <3>2, Zenon
    <2> QED BY <1>4, <2>3, <2>4, <2>5, <2>6, Zenon DEF ThreadStep
  <1>5. ~MainStep
    BY <1>2, Zenon DEF MainStep, tunnel_file_open, tunnel_file_read, tunnel_open,
                tunnel_create, Unallocated
  <1>6. ~ManagerStep
    <2>1. ~tunnel_activate_manager_wake
      BY Zenon DEF tunnel_activate_manager_wake
    <2>2. ~tunnel_activate_manager_scan
      <3> SUFFICES ASSUME tunnel_activate_manager_scan PROVE FALSE
        BY Zenon
      <3>1. tunnel'[t] \in {tunnel[t], [tunnel[t] EXCEPT !.state = "OPENING"]}
        BY Zenon DEF tunnel_activate_manager_scan
      <3> QED BY <1>1, <3>1, Zenon DEF tunnel_s
    <2> QED BY <2>1, <2>2, Zenon DEF ManagerStep
  <1>7. ~tunnel_reconnect_manager
    <2> SUFFICES ASSUME tunnel_reconnect_manager PROVE FALSE
      OBVIOUS
    <2>1. PICK x \in tunnels_active, new \in Unallocated :
            tunnel' = [tunnel EXCEPT
                         ![x] = [@ EXCEPT !.reconnect = TRUE],
                         ![new] = [tunnel_create(tunnel[x].url, TUNNEL_INIT_AGE)
                                     EXCEPT !.state = "OPENING"]]
      BY Zenon DEF tunnel_reconnect_manager
    <2>2. t # new
      BY Zenon DEF Unallocated
    <2>3. tunnel'[t] \in {tunnel[t], [tunnel[t] EXCEPT !.reconnect = TRUE]}
      BY <1>2, <2>1, <2>2, Zenon
    <2> QED BY <1>1, <2>3, Zenon DEF tunnel_s
  <1>8. ASSUME NEW u \in Url PROVE ~UserRequest(u)
    <2>1. ~tunnel_add_new(u)
      BY <1>2, Zenon DEF tunnel_add_new, tunnel_create, Unallocated
    <2>2. ~tunnel_add_known(u)
      <3> SUFFICES ASSUME tunnel_add_known(u) PROVE FALSE
        BY Zenon
      <3>1. tunnel'[t] \in {tunnel[t], [tunnel[t] EXCEPT !.state = "OPENING"]}
        BY <1>2, Zenon DEF tunnel_add_known, Matching
      <3> QED BY <1>1, <3>1, Zenon DEF tunnel_s
    <2>3. ~tunnel_delete_active(u)
      <3> SUFFICES ASSUME tunnel_delete_active(u) PROVE FALSE
        OBVIOUS
      <3>1. tunnel'[t] \in {tunnel[t], Deactivated(tunnel[t])}
        BY <1>2, Zenon DEF tunnel_delete_active, Matching
      <3> QED BY <1>1, <3>1, Zenon DEF tunnel_s, Deactivated, Closed
    <2>4. ~tunnel_delete_cached(u)
      <3> SUFFICES ASSUME tunnel_delete_cached(u) PROVE FALSE
        OBVIOUS
      <3>1. tunnel'[t] \in {tunnel[t], tunnel_free(tunnel[t])}
        BY Zenon DEF tunnel_delete_cached
      <3> QED BY <1>1, <3>1, Zenon
    <2> QED BY <2>1, <2>2, <2>3, <2>4, Zenon DEF UserRequest
  <1>9. ~tunnel_add_spawn /\ ~tunnel_user_write /\ ~tunnel_ready /\ ~tunnel_packets
    BY Zenon DEF tunnel_add_spawn, tunnel_user_write, tunnel_ready, tunnel_packets
  <1> QED BY <1>3, <1>4, <1>5, <1>6, <1>7, <1>8, <1>9, Zenon DEF Next

(* tunnel_free never takes a tunnel away from a thread that is opening it. *)
THEOREM OnlyOwnerFrees == ASSUME ~EarlyUi PROVE Spec => FreedByOwner
  <1>1. Inv /\ [Next]_vars =>
          [\A t \in Tun : tunnel[t].mem = "live" /\ tunnel'[t].mem = "freed" =>
             \A p \in Thread : Opening(p) /\ thread[p].tun = t => ~Opening(p)']_vars
    BY FreedNext, Zenon
  <1> QED BY Invariance, <1>1, PTL DEF Spec, FreedByOwner

-----------------------------------------------------------------------------
(* What makes StoredTunnelsKept inductive: nothing is written before the file
   is loaded; what is still to be loaded, or in the cache with an age, covers
   all that must be kept; and the tunnel with which a reconnect replaces
   another one has an age. *)
QuietLoad ==
    main # "done" => /\ user = "idle" /\ manager = "off" /\ worker = "idle"
                     /\ \A p \in Thread : thread[p].pc = "idle"

Covered ==
    /\ main = "reading" => Url \ gone \subseteq Stored \cup unread
    /\ main = "done" => Url \ gone \subseteq Stored

ReplacementAge ==
    \A p \in Thread : thread[p].job = "reconnect" /\ Opening(p) =>
      tunnel[thread[p].tun].age # 0

StoreInv == Inv /\ QuietLoad /\ Covered /\ ReplacementAge /\ StoredTunnelsKept

-----------------------------------------------------------------------------
(* What is stored: the URLs of the cached tunnels that have an age. *)
Held(u) == \E t \in tunnels_cache : tunnel[t].url = u /\ tunnel[t].age # 0

LEMMA StoredHeld == /\ \A u : u \in Stored <=> Held(u)
                    /\ \A u : u \in Stored' <=> Held(u)'
  BY Zenon DEF Stored, Held

(* A step that keeps the URL and the age of every tunnel in the cache keeps
   what is stored. *)
LEMMA SameStored ==
    ASSUME tunnels_cache' = tunnels_cache,
           \A t \in tunnels_cache : /\ tunnel'[t].url = tunnel[t].url
                                    /\ tunnel'[t].age = tunnel[t].age
    PROVE  Stored' = Stored
  BY Zenon DEF Stored

(* The three conjuncts about the file hold after a step in which the program
   runs, the stored URLs cover what must be kept, and the file is either
   untouched or written with what was stored. *)
LEMMA RunningStep ==
    ASSUME StoreInv, main' = "done", main = "done",
           gone \subseteq gone',
           Url \ gone' \subseteq Stored',
           saved' = saved \/ saved' = Stored
    PROVE  QuietLoad' /\ Covered' /\ StoredTunnelsKept'
  BY Zenon DEF StoreInv, QuietLoad, Covered, StoredTunnelsKept

(* The age of a replacement survives a step that starts no reconnect and
   leaves the tunnels of the running ones alone. *)
LEMMA SameReplacements ==
    ASSUME StoreInv,
           \A p \in Thread : thread'[p].job = "reconnect" /\ Opening(p)' =>
             /\ thread[p].job = "reconnect" /\ Opening(p)
             /\ thread'[p].tun = thread[p].tun
             /\ tunnel'[thread[p].tun].age = tunnel[thread[p].tun].age
    PROVE  ReplacementAge'
  BY Zenon DEF StoreInv, ReplacementAge

(* Only the configuration thread, the managers and the threads they start
   change tunnels; all of them run after the file is loaded. *)
LEMMA RunningMain ==
    ASSUME StoreInv, ~EarlyUi
    PROVE  /\ UserMayAct => main = "done"
           /\ user # "idle" => main = "done"
           /\ manager # "off" => main = "done"
           /\ worker # "idle" => main = "done"
           /\ \A p \in Thread : thread[p].pc # "idle" => main = "done"
  BY Zenon DEF StoreInv, QuietLoad, UserMayAct

(* Loading the file. *)
LEMMA StoreMain ==
    ASSUME StoreInv, MainStep
    PROVE  /\ QuietLoad' /\ Covered' /\ ReplacementAge' /\ StoredTunnelsKept'
           /\ Stored \subseteq Stored'
  <1> USE DEF StoreInv
  <1>1. CASE tunnel_file_open
    <2>1. Stored' = Stored
      BY <1>1, SameStored, Zenon DEF tunnel_file_open
    <2> QED BY <1>1, <2>1, Zenon DEF tunnel_file_open, QuietLoad, Covered, ReplacementAge,
                              StoredTunnelsKept, Opening
  <1>2. CASE tunnel_file_read
    <2>1. PICK u \in unread, a \in 1..TUNNEL_INIT_AGE, t \in Unallocated :
            /\ tunnel' = [tunnel EXCEPT ![t] = tunnel_create(u, a)]
            /\ tunnels_cache' = tunnels_cache \cup {t}
            /\ unread' = unread \ {u}
      BY <1>2, Zenon DEF tunnel_file_read
    <2>2. /\ main' = main /\ main = "reading" /\ user' = user /\ manager' = manager
          /\ worker' = worker /\ thread' = thread /\ saved' = saved /\ gone' = gone
      BY <1>2, Zenon DEF tunnel_file_read
    <2>3. t \in Tun /\ t \notin tunnels_cache
      BY Zenon DEF Unallocated, Inv, Safe, NoDangling, Live
    <2>4. /\ tunnel'[t].url = u /\ tunnel'[t].age # 0
          /\ \A x \in tunnels_cache : tunnel'[x] = tunnel[x]
      BY <2>1, <2>3 DEF tunnel_create, Inv, TypeOK
    <2>5. \A v : Held(v) \/ v = u => Held(v)'
      BY <2>1, <2>4, Zenon DEF Held
    <2>6. Stored \cup {u} \subseteq Stored'
      BY <2>5, StoredHeld, Zenon
    <2> QED BY <2>1, <2>2, <2>6, Zenon
            DEF QuietLoad, Covered, ReplacementAge, StoredTunnelsKept, Opening
  <1>3. CASE tunnel_open
    <2>1. Stored' = Stored
      BY <1>3, SameStored, Zenon DEF tunnel_open
    <2> QED BY <1>3, <2>1, Zenon DEF tunnel_open, QuietLoad, Covered, ReplacementAge,
                              StoredTunnelsKept, Opening
  <1> QED BY <1>1, <1>2, <1>3, Zenon DEF MainStep

(* The two manager threads. *)
LEMMA StoreManagers ==
    ASSUME StoreInv, ~EarlyUi, ManagerStep \/ tunnel_reconnect_manager
    PROVE  /\ QuietLoad' /\ Covered' /\ ReplacementAge' /\ StoredTunnelsKept'
           /\ Stored \subseteq Stored'
  <1> USE DEF StoreInv
  <1>0. tunnel \in [Tun -> tunnel_s] /\ tunnels_cache \subseteq Tun
        /\ thread \in [Thread -> thread_s] /\ tunnels_active \subseteq Tun
    BY Zenon DEF Inv, TypeOK
  <1>1. main = "done" /\ main' = "done" /\ UNCHANGED <<saved, gone, tunnels_cache>>
    BY RunningMain, Zenon DEF ManagerStep, tunnel_activate_manager_scan,
       tunnel_activate_manager_wake, tunnel_reconnect_manager
  <1>2. CASE tunnel_activate_manager_wake
    BY <1>1, <1>2, SameStored, SameReplacements, RunningStep, Zenon
       DEF tunnel_activate_manager_wake, Covered, Opening
  <1>3. CASE tunnel_activate_manager_scan
    <2>1. \A t \in Tun : /\ tunnel'[t].url = tunnel[t].url
                         /\ tunnel'[t].age = tunnel[t].age
      BY <1>0, <1>3 DEF tunnel_activate_manager_scan, tunnel_s
    <2>2. \A p \in Thread : thread'[p] = thread[p] \/ thread'[p].job = "activate"
      BY <1>3 DEF tunnel_activate_manager_scan, NewThread
    <2>3. \A p \in Thread : Opening(p) => thread[p].tun \in Tun
      BY Zenon DEF Inv, Safe, NoDangling, Live
    <2>4. ReplacementAge'
      BY <2>1, <2>2, <2>3, SameReplacements, Zenon DEF Opening
    <2> QED BY <1>0, <1>1, <2>1, <2>4, SameStored, RunningStep, Zenon DEF Covered
  <1>4. CASE tunnel_reconnect_manager
    <2>1. PICK t \in tunnels_active, p \in Idle, new \in Unallocated :
         /\ tunnel' = [tunnel EXCEPT
                         ![t] = [@ EXCEPT !.reconnect = TRUE],
                         ![new] = [tunnel_create(tunnel[t].url, TUNNEL_INIT_AGE)
                                     EXCEPT !.state = "OPENING"]]
         /\ thread' = [thread EXCEPT ![p] = NewThread("reconnect", new)]
      BY <1>4, Zenon DEF tunnel_reconnect_manager
    <2>2. /\ new \in Tun /\ new \notin tunnels_cache /\ t \in Tun /\ t # new
          /\ \A q \in Thread : Opening(q) => thread[q].tun \in Tun \ {new}
      BY <1>0, Zenon DEF Unallocated, Inv, Safe, NoDangling, Live
    <2>3. /\ tunnel'[new] = [tunnel_create(tunnel[t].url, TUNNEL_INIT_AGE)
                                     EXCEPT !.state = "OPENING"]
          /\ tunnel'[t] = [tunnel[t] EXCEPT !.reconnect = TRUE]
          /\ \A x \in Tun \ {t, new} : tunnel'[x] = tunnel[x]
      BY <1>0, <2>1, <2>2, Zenon
    <2>4. tunnel'[new].age # 0
      BY <2>3, ConstantsAssumption, Zenon DEF tunnel_create
    <2>5. \A x \in Tun \ {new} : /\ tunnel'[x].url = tunnel[x].url
                                 /\ tunnel'[x].age = tunnel[x].age
      BY <1>0, <2>2, <2>3 DEF tunnel_s
    <2>6. thread'[p].tun = new /\ \A q \in Thread \ {p} : thread'[q] = thread[q]
      BY <1>0, <2>1, Zenon DEF Idle, NewThread
    <2>7. ReplacementAge'
      BY <2>2, <2>4, <2>5, <2>6 DEF ReplacementAge, Opening
    <2> QED BY <1>0, <1>1, <2>2, <2>5, <2>7, SameStored, RunningStep, Zenon DEF Covered
  <1> QED BY <1>2, <1>3, <1>4, Zenon DEF ManagerStep

(* A thread opening its tunnel. *)
LEMMA StoreTry ==
    ASSUME StoreInv, ~EarlyUi, NEW p \in Thread,
           tunnel_try_activate_test(p) \/ tunnel_try_activate_open(p)
    PROVE  /\ QuietLoad' /\ Covered' /\ ReplacementAge' /\ StoredTunnelsKept'
           /\ Stored \subseteq Stored'
  <1> USE DEF StoreInv
  <1>0. /\ tunnel \in [Tun -> tunnel_s] /\ tunnels_cache \subseteq Tun
        /\ thread \in [Thread -> thread_s]
        /\ Opening(p) /\ thread[p].tun \in Tun
        /\ \A q \in Thread : Opening(q) => thread[q].tun \in Tun
    BY Zenon DEF Inv, TypeOK, Safe, NoDangling, Live, tunnel_try_activate_test,
           tunnel_try_activate_open, Opening
  <1>1. main = "done" /\ main' = "done" /\ UNCHANGED <<saved, gone, tunnels_cache>>
    BY RunningMain, Zenon DEF tunnel_try_activate_test, tunnel_try_activate_open
  <1>2. \A x \in Tun : /\ tunnel'[x].url = tunnel[x].url
                       /\ tunnel'[x].age = tunnel[x].age
    <2>1. CASE tunnel_try_activate_test(p)
      BY <2>1, Zenon DEF tunnel_try_activate_test
    <2>2. CASE tunnel_try_activate_open(p)
      <3>1. PICK b \in BOOLEAN :
              tunnel' = [tunnel EXCEPT ![thread[p].tun] = [@ EXCEPT !.cktp = b]]
        BY <2>2, Zenon DEF tunnel_try_activate_open
      <3>2. \A x \in Tun : tunnel'[x] \in {tunnel[x], [tunnel[x] EXCEPT !.cktp = b]}
        BY <1>0, <3>1, Zenon
      <3> QED BY <1>0, <3>2 DEF tunnel_s
    <2> QED BY <2>1, <2>2, Zenon
  <1>3. /\ thread'[p].tun = thread[p].tun /\ thread'[p].job = thread[p].job
        /\ \A q \in Thread \ {p} : thread'[q] = thread[q]
    <2>1. CASE tunnel_try_activate_test(p)
      <3>1. thread' = [thread EXCEPT ![p] = Tested(thread[p], tunnel[thread[p].tun])]
        BY <2>1, Zenon DEF tunnel_try_activate_test
      <3> QED BY <1>0, <3>1 DEF Tested, thread_s
    <2>2. CASE tunnel_try_activate_open(p)
      <3>1. PICK b \in BOOLEAN :
              thread' = [thread EXCEPT ![p] = Tried(thread[p], tunnel[thread[p].tun], b)]
        BY <2>2, Zenon DEF tunnel_try_activate_open
      <3>2. thread[p] \in thread_s
        BY <1>0, Zenon
      <3>3. /\ Tried(thread[p], tunnel[thread[p].tun], b).tun = thread[p].tun
            /\ Tried(thread[p], tunnel[thread[p].tun], b).job = thread[p].job
        BY <3>2, Zenon DEF Tried, thread_s
      <3> QED BY <1>0, <3>1, <3>3, Zenon
    <2> QED BY <2>1, <2>2, Zenon
  <1>4. ReplacementAge'
    BY <1>0, <1>2, <1>3, SameReplacements DEF Opening
  <1> QED BY <1>0, <1>1, <1>2, <1>4, SameStored, RunningStep, Zenon DEF Covered

(* A thread that leaves the tunnels alone: the file write, and the message. *)
LEMMA StoreThreadTail ==
    ASSUME StoreInv, ~EarlyUi, NEW p \in Thread,
           tunnel_activate_write(p) \/ tunnel_reconnect_log(p)
    PROVE  /\ QuietLoad' /\ Covered' /\ ReplacementAge' /\ StoredTunnelsKept'
           /\ Stored \subseteq Stored'
  <1> USE DEF StoreInv
  <1>0. thread \in [Thread -> thread_s]
    BY Zenon DEF Inv, TypeOK
  <1>1. /\ main = "done" /\ main' = "done" /\ UNCHANGED <<tunnel, gone, tunnels_cache>>
        /\ saved' = saved \/ saved' = Stored
        /\ thread' = [thread EXCEPT ![p] = IdleThread]
    BY RunningMain, Zenon DEF tunnel_activate_write, tunnel_reconnect_log, tunnel_file_write
  <1>2. ReplacementAge'
    BY <1>0, <1>1, SameReplacements, Zenon DEF Opening, IdleThread
  <1>3. Stored' = Stored
    BY <1>1, SameStored, Zenon
  <1> QED BY <1>1, <1>2, <1>3, RunningStep, Zenon DEF Covered

(* tunnel_activate takes the age of a tunnel in the cache to zero only when
   it records that the tunnel is given up. *)
LEMMA StoreActivate ==
    ASSUME StoreInv, ~EarlyUi, NEW p \in Thread, tunnel_activate(p)
    PROVE  QuietLoad' /\ Covered' /\ ReplacementAge' /\ StoredTunnelsKept'
  <1> USE DEF StoreInv
  <1> DEFINE t == thread[p].tun
  <1>0. /\ tunnel \in [Tun -> tunnel_s] /\ tunnels_cache \subseteq Tun
        /\ thread \in [Thread -> thread_s]
        /\ Opening(p) /\ t \in Tun /\ tunnel[t] \in tunnel_s
        /\ thread[p].job = "activate"
        /\ \A q \in Thread \ {p} : Opening(q) => thread[q].tun # t
    BY WorkedOn, Zenon DEF Inv, TypeOK, Safe, Ownership, tunnel_activate, Opening
  <1>1. /\ main = "done" /\ main' = "done" /\ UNCHANGED <<saved, tunnels_cache>>
        /\ tunnel' = [tunnel EXCEPT ![t] = Activated(tunnel[t], thread[p].result)]
        /\ thread' = [thread EXCEPT ![p] = [IdleThread EXCEPT !.pc = "write"]]
        /\ gone' = IF t \in tunnels_cache /\ tunnel'[t].age = 0
                    THEN gone \cup {tunnel[t].url} ELSE gone
    BY RunningMain, Zenon DEF tunnel_activate
  <1>2. \A x \in Tun \ {t} : tunnel'[x] = tunnel[x]
    BY <1>0, <1>1, Zenon
  <1>3. t \in tunnels_cache => tunnel'[t].url = tunnel[t].url
    <2> SUFFICES ASSUME t \in tunnels_cache PROVE tunnel'[t].url = tunnel[t].url
      BY Zenon
    <2>1. tunnel[t].state = "OPENING"
      BY <1>0, Zenon DEF Inv, Safe, Ownership, HandedOver
    <2>2. tunnel'[t] = Activated(tunnel[t], thread[p].result)
      BY <1>0, <1>1, Zenon
    <2>3. CASE thread[p].result
      BY <1>0, <2>1, <2>2, <2>3, ZenonT(30) DEF Activated, tunnel_s
    <2>4. CASE ~thread[p].result
      BY <1>0, <2>1, <2>2, <2>4, Zenon DEF Activated, tunnel_s
    <2> QED BY <2>3, <2>4, Zenon
  <1>4. \A u \in Url \ gone' : Held(u) => Held(u)'
    BY <1>0, <1>1, <1>2, <1>3 DEF Held
  <1>5. Url \ gone' \subseteq Stored'
    BY <1>1, <1>4, StoredHeld, Zenon DEF Covered
  <1>6. /\ ~Opening(p)'
        /\ \A q \in Thread \ {p} : thread'[q] = thread[q]
    BY <1>0, <1>1, Zenon DEF Opening, IdleThread
  <1>7. ReplacementAge'
    <2>1. \A q \in Thread : Opening(q) => thread[q].tun \in Tun
      BY WorkedOn, Zenon
    <2> QED BY <1>0, <1>2, <1>6, <2>1, SameReplacements DEF Opening
  <1> QED BY <1>1, <1>5, <1>7, RunningStep, Zenon

(* tunnel_reconnect puts a tunnel with an age and the same URL in the place of
   the old one. *)
LEMMA StoreReconnect ==
    ASSUME StoreInv, ~EarlyUi, NEW p \in Thread,
           tunnel_reconnect_success(p) \/ tunnel_reconnect_failure(p)
    PROVE  /\ QuietLoad' /\ Covered' /\ ReplacementAge' /\ StoredTunnelsKept'
           /\ Stored \subseteq Stored'
  <1> USE DEF StoreInv
  <1> DEFINE new == thread[p].tun
             u == tunnel[new].url
  <1>0. /\ tunnel \in [Tun -> tunnel_s] /\ tunnels_cache \subseteq Tun
        /\ thread \in [Thread -> thread_s] /\ tunnels_active \subseteq tunnels_cache
        /\ Opening(p) /\ new \in Tun /\ tunnel[new] \in tunnel_s
        /\ new \notin tunnels_cache /\ tunnel[new].age # 0
        /\ tunnel[new].state = "OPENING"
        /\ \A q \in Thread \ {p} : Opening(q) => thread[q].tun # new
    BY WorkedOn, ZenonT(30)
       DEF Inv, TypeOK, Safe, Ownership, ActiveUsable, ReplacementAge, Opening,
           tunnel_reconnect_success, tunnel_reconnect_failure
  <1>1. main = "done" /\ main' = "done" /\ UNCHANGED <<saved, gone>>
    BY RunningMain, Zenon DEF tunnel_reconnect_success, tunnel_reconnect_failure
  <1>2. /\ ~Opening(p)' /\ \A q \in Thread \ {p} : thread'[q] = thread[q]
    BY <1>0 DEF tunnel_reconnect_success, tunnel_reconnect_failure, Opening,
                IdleThread, thread_s
  <1>3. \A q \in Thread : Opening(q) => thread[q].tun \in Tun
    BY WorkedOn, Zenon
  <1>4. CASE tunnel_reconnect_failure(p)
    <2>1. tunnels_cache' = tunnels_cache /\ \A x \in Tun \ {new} : tunnel'[x] = tunnel[x]
      BY <1>0, <1>4, Zenon DEF tunnel_reconnect_failure
    <2>2. ReplacementAge'
      BY <1>0, <1>2, <1>3, <2>1, SameReplacements DEF Opening
    <2>3. Stored' = Stored
      BY <1>0, <2>1, SameStored, Zenon
    <2> QED BY <1>1, <2>2, <2>3, RunningStep, Zenon DEF Covered
  <1>5. CASE tunnel_reconnect_success(p)
    <2>1. PICK old_active \in FirstMatch(tunnels_active, u),
              old_cache  \in FirstMatch(tunnels_cache, u) :
            /\ tunnels_cache'  = tunnel_set_replace(tunnels_cache, old_cache, new)
            /\ tunnel' =
                 CASE old_active # NoTun ->
                        [tunnel EXCEPT ![old_active] = tunnel_free(@)]
                   [] old_active = NoTun /\ old_cache # NoTun ->
                        [tunnel EXCEPT
                           ![new] = [Closed(@, "DEAD") EXCEPT !.reconnect = FALSE],
                           ![old_cache] = tunnel_free(@)]
                   [] OTHER -> [tunnel EXCEPT ![new] = tunnel_free(@)]
      BY <1>5, Zenon DEF tunnel_reconnect_success
    <2>2. /\ old_active = NoTun \/ (old_active \in tunnels_active /\ tunnel[old_active].url = u)
          /\ old_cache = NoTun \/ (old_cache \in tunnels_cache /\ tunnel[old_cache].url = u)
          /\ NoTun \notin Tun
      BY <2>1, ConstantsAssumption, Zenon DEF FirstMatch, Matching
    <2>3. old_active # NoTun => old_active = old_cache
      <3> SUFFICES ASSUME old_active # NoTun PROVE old_active = old_cache
        BY Zenon
      <3>1. old_active \in Matching(tunnels_cache, u)
        BY <1>0, <2>2, Zenon DEF Matching
      <3>2. old_cache \in Matching(tunnels_cache, u)
        BY <2>1, <3>1, Zenon DEF FirstMatch
      <3> QED BY <3>1, <3>2, Zenon DEF Matching, Inv, Safe, OneTunnelPerUrl
    <2>4. \A x \in Tun \ {new, old_cache} : tunnel'[x] = tunnel[x]
      BY <1>0, <2>1, <2>2, <2>3, Zenon
    <2>5. old_cache # NoTun => tunnel'[new].url = u /\ tunnel'[new].age # 0
      <3> SUFFICES ASSUME old_cache # NoTun
                   PROVE  tunnel'[new].url = u /\ tunnel'[new].age # 0
        BY Zenon
      <3>1. CASE old_active # NoTun
        BY <1>0, <2>1, <2>2, <3>1, Zenon
      <3>2. CASE old_active = NoTun
        <4>1. tunnel'[new] = [Closed(tunnel[new], "DEAD") EXCEPT !.reconnect = FALSE]
          BY <1>0, <2>1, <2>2, <3>2, Zenon
        <4> QED BY <1>0, <4>1, Zenon DEF Closed, tunnel_s
      <3> QED BY <3>1, <3>2, Zenon
    <2>6. \A v : Held(v) => Held(v)'
      <3>1. CASE old_cache = NoTun
        BY <1>0, <2>1, <2>2, <2>4, <3>1 DEF Held, tunnel_set_replace
      <3>2. CASE old_cache # NoTun
        <4>1. tunnels_cache' = (tunnels_cache \ {old_cache}) \cup {new}
          BY <2>1, <3>2, Zenon DEF tunnel_set_replace
        <4> QED BY <1>0, <2>2, <2>4, <2>5, <3>2, <4>1 DEF Held
      <3> QED BY <3>1, <3>2, Zenon
    <2>7. \A q \in Thread : thread[q].job = "reconnect" /\ Opening(q) =>
             thread[q].tun \notin tunnels_cache /\ thread[q].tun # NoTun
      BY <1>3, <2>2, Zenon DEF Inv, Safe, Ownership
    <2>8. ReplacementAge'
      BY <1>0, <1>2, <1>3, <2>2, <2>4, <2>7, SameReplacements DEF Opening
    <2> QED BY <1>1, <2>6, <2>8, StoredHeld, RunningStep, Zenon DEF Covered
  <1> QED BY <1>4, <1>5, Zenon

(* The requests of the user, and the rest of tunnel_add. *)
LEMMA StoreUser ==
    ASSUME StoreInv, ~EarlyUi, NEW u \in Url, UserRequest(u)
    PROVE  /\ QuietLoad' /\ Covered' /\ ReplacementAge' /\ StoredTunnelsKept'
           /\ Stored \subseteq Stored' \/ tunnel_delete_cached(u)
  <1> USE DEF StoreInv
  <1>0. /\ tunnel \in [Tun -> tunnel_s] /\ tunnels_cache \subseteq Tun
        /\ tunnels_active \subseteq Tun
        /\ \A q \in Thread : Opening(q) => thread[q].tun \in Live
        /\ \A q \in Thread : thread[q].job = "reconnect" /\ Opening(q) =>
             thread[q].tun \notin tunnels_cache
    BY Zenon DEF Inv, TypeOK, Safe, NoDangling, Ownership
  <1>1. /\ main = "done" /\ main' = "done" /\ UNCHANGED <<saved, thread>>
    BY RunningMain, Zenon DEF UserRequest, tunnel_add_new, tunnel_add_known,
       tunnel_delete_active, tunnel_delete_cached
  <1>2. CASE tunnel_add_new(u)
    <2>1. PICK t \in Unallocated :
            /\ tunnel' = [tunnel EXCEPT ![t] = [tunnel_create(u, TUNNEL_INIT_AGE)
                                                  EXCEPT !.state = "OPENING"]]
            /\ tunnels_cache' = tunnels_cache \cup {t}
      BY <1>2, Zenon DEF tunnel_add_new
    <2>2. t \in Tun /\ t \notin Live /\ t \notin tunnels_cache /\ gone' = gone
      BY <1>2, Zenon DEF tunnel_add_new, Unallocated, Live, Inv, Safe, NoDangling
    <2>3. \A x \in Tun \ {t} : tunnel'[x] = tunnel[x]
      BY <1>0, <2>1, <2>2, Zenon
    <2>4. \A v : Held(v) => Held(v)'
      BY <1>0, <2>1, <2>2, <2>3, Zenon DEF Held
    <2>5. ReplacementAge'
      BY <1>0, <1>1, <2>2, <2>3, SameReplacements, Zenon DEF Opening, Live
    <2> QED BY <1>1, <2>2, <2>4, <2>5, StoredHeld, RunningStep, Zenon DEF Covered
  <1>3. CASE tunnel_add_known(u) \/ tunnel_delete_active(u)
    <2>1. tunnels_cache' = tunnels_cache /\ gone' = gone
      BY <1>3, Zenon DEF tunnel_add_known, tunnel_delete_active
    <2>2. \A x \in Tun : tunnel'[x] \in {tunnel[x], [tunnel[x] EXCEPT !.state = "OPENING"],
                                         Deactivated(tunnel[x])}
      BY <1>0, <1>3, Zenon DEF tunnel_add_known, tunnel_delete_active, Matching
    <2>3. \A x \in Tun : /\ tunnel'[x].url = tunnel[x].url
                         /\ tunnel'[x].age = tunnel[x].age
      <3> SUFFICES ASSUME NEW x \in Tun
                   PROVE  /\ tunnel'[x].url = tunnel[x].url
                          /\ tunnel'[x].age = tunnel[x].age
        BY Zenon
      <3>1. tunnel[x] \in tunnel_s
        BY <1>0, Zenon
      <3>2. /\ Deactivated(tunnel[x]).url = tunnel[x].url
            /\ Deactivated(tunnel[x]).age = tunnel[x].age
        BY <3>1, Zenon DEF Deactivated, Closed, tunnel_s
      <3> QED BY <2>2, <3>1, <3>2, Zenon DEF tunnel_s
    <2>4. ReplacementAge'
      BY <1>0, <1>1, <2>3, SameReplacements, Zenon DEF Opening, Live
    <2> QED BY <1>0, <1>1, <2>1, <2>3, <2>4, SameStored, RunningStep, Zenon DEF Covered
  <1>4. CASE tunnel_delete_cached(u)
    <2>1. PICK t \in FirstMatch(tunnels_cache, u) :
            /\ tunnels_cache' = tunnels_cache \ {t}
            /\ tunnel' = [x \in Tun |-> IF x = t THEN tunnel_free(tunnel[x])
                                        ELSE tunnel[x]]
            /\ gone' = IF t = NoTun THEN gone ELSE gone \cup {u}
      BY <1>4, Zenon DEF tunnel_delete_cached
    <2>2. t = NoTun \/ (t \in tunnels_cache /\ tunnel[t].url = u)
      BY <2>1, Zenon DEF FirstMatch, Matching
    <2>3. \A x \in Tun \ {t} : tunnel'[x] = tunnel[x]
      BY <2>1, Zenon
    <2>4. \A v \in Url \ gone' : Held(v) => Held(v)'
      BY <1>0, <2>1, <2>2, <2>3, ConstantsAssumption, Zenon DEF Held
    <2>5. ReplacementAge'
      BY <1>0, <1>1, <2>2, <2>3, SameReplacements, ConstantsAssumption DEF Opening, Live
    <2> QED BY <1>1, <1>4, <2>1, <2>4, <2>5, StoredHeld, RunningStep, Zenon DEF Covered
  <1> QED BY <1>2, <1>3, <1>4, Zenon DEF UserRequest

LEMMA StoreRest ==
    ASSUME StoreInv, ~EarlyUi,
           tunnel_add_spawn \/ tunnel_user_write \/ tunnel_ready \/ tunnel_packets
    PROVE  /\ QuietLoad' /\ Covered' /\ ReplacementAge' /\ StoredTunnelsKept'
           /\ Stored \subseteq Stored'
  <1> USE DEF StoreInv
  <1>1. /\ main = "done" /\ main' = "done" /\ UNCHANGED <<tunnel, tunnels_cache, gone>>
        /\ saved' = saved \/ saved' = Stored
    BY RunningMain, Zenon DEF tunnel_add_spawn, tunnel_user_write, tunnel_ready, tunnel_packets,
       tunnel_file_write, Inv, TypeOK, QuietLoad
  <1>2. \A p \in Thread : thread'[p] = thread[p] \/ thread'[p].job = "activate"
    BY DEF tunnel_add_spawn, tunnel_user_write, tunnel_ready, tunnel_packets,
       NewThread, Inv, TypeOK
  <1>3. ReplacementAge'
    BY <1>1, <1>2, SameReplacements, Zenon DEF Opening
  <1> QED BY <1>1, <1>3, SameStored, RunningStep, Zenon DEF Covered

(* Every step keeps the invariant. *)
LEMMA StoreNext ==
    ASSUME StoreInv, ~EarlyUi, [Next]_vars
    PROVE  StoreInv'
  <1>1. Inv'
    BY InvNext, Zenon DEF StoreInv
  <1>2. CASE UNCHANGED vars
    <2>1. Stored' = Stored
      BY <1>2, SameStored, Zenon DEF vars
    <2> QED BY <1>1, <1>2, <2>1, Zenon DEF vars, StoreInv, QuietLoad, Covered, ReplacementAge,
                                    StoredTunnelsKept, Opening
  <1> QED BY <1>1, <1>2, StoreMain, StoreManagers, StoreTry, StoreThreadTail,
             StoreActivate, StoreReconnect, StoreUser, StoreRest, Zenon
          DEF Next, ThreadStep, StoreInv

(* Before the file is loaded nothing is lost yet. *)
LEMMA StoreInit == Init => StoreInv
  BY InvInit DEF Init, StoreInv, QuietLoad, Covered, ReplacementAge, StoredTunnelsKept,
     IdleThread, Opening

(* A tunnel in the cache file leaves it only because the user deleted it or
   because it aged out: no interleaving of reconnects, activations and file
   writes loses another one. *)
THEOREM CacheFileKept == ASSUME ~EarlyUi PROVE Spec => []StoredTunnelsKept
  <1>1. Init => StoreInv
    BY StoreInit, Zenon
  <1>2. StoreInv /\ [Next]_vars => StoreInv'
    BY StoreNext, Zenon
  <1>3. StoreInv => StoredTunnelsKept
    BY Zenon DEF StoreInv
  <1> QED BY <1>1, <1>2, <1>3, PTL DEF Spec

-----------------------------------------------------------------------------
(* What makes DeletedTunnelsForgotten inductive: while the file is loaded, each
   of its URLs is in the cache with an age or still to be read. *)
FileLoading == main = "reading" => saved \subseteq Stored \cup unread

ForgetInv == StoreInv /\ FileLoading /\ DeletedTunnelsForgotten

(* A step in which the program runs keeps DeletedTunnelsForgotten if it leaves a
   write pending, fails to write, writes what is stored, or leaves the file and
   the pending writes alone and stores no less than before. *)
LEMMA ForgetRunning ==
    ASSUME ForgetInv, main = "done", main' = "done",
           \/ WritePending'
           \/ lock' # "free"
           \/ saved' = Stored /\ Stored' = Stored
           \/ /\ saved' = saved /\ lock' = lock /\ Stored \subseteq Stored'
              /\ WritePending => WritePending'
    PROVE  FileLoading' /\ DeletedTunnelsForgotten'
  BY Zenon DEF ForgetInv, FileLoading, DeletedTunnelsForgotten

(* Loading the file. *)
LEMMA ForgetMain ==
    ASSUME ForgetInv, MainStep
    PROVE  FileLoading' /\ DeletedTunnelsForgotten'
  <1> USE DEF ForgetInv
  <1>1. Stored \subseteq Stored'
    BY StoreMain, Zenon
  <1>2. CASE tunnel_file_open
    BY <1>2, Zenon DEF tunnel_file_open, FileLoading, DeletedTunnelsForgotten
  <1>3. CASE tunnel_file_read
    <2>1. PICK u \in unread, a \in 1..TUNNEL_INIT_AGE, t \in Unallocated :
            /\ tunnel' = [tunnel EXCEPT ![t] = tunnel_create(u, a)]
            /\ tunnels_cache' = tunnels_cache \cup {t}
            /\ unread' = unread \ {u}
      BY <1>3, Zenon DEF tunnel_file_read
    <2>2. main = "reading" /\ main' = "reading" /\ saved' = saved
      BY <1>3, Zenon DEF tunnel_file_read
    <2>3. tunnel'[t].url = u /\ tunnel'[t].age # 0
      BY <2>1 DEF tunnel_create, Unallocated, StoreInv, Inv, TypeOK
    <2>4. u \in Stored'
      BY <2>1, <2>3, StoredHeld, Zenon DEF Held
    <2> QED BY <1>1, <2>1, <2>2, <2>4, Zenon DEF FileLoading, DeletedTunnelsForgotten
  <1>4. CASE tunnel_open
    BY <1>1, <1>4, Zenon DEF tunnel_open, FileLoading, DeletedTunnelsForgotten
  <1> QED BY <1>2, <1>3, <1>4, Zenon DEF MainStep

(* The threads that open tunnels: tunnel_activate, which may age a tunnel out,
   goes on to write the file. *)
LEMMA ForgetThread ==
    ASSUME ForgetInv, ~EarlyUi, NEW p \in Thread, ThreadStep(p)
    PROVE  FileLoading' /\ DeletedTunnelsForgotten'
  <1> USE DEF ForgetInv
  <1>0. thread \in [Thread -> thread_s]
    BY Zenon DEF StoreInv, Inv, TypeOK
  <1>1. main = "done" /\ main' = "done"
    <2>1. thread[p].pc # "idle" /\ main' = main
      <3>1. CASE tunnel_try_activate_test(p) \/ tunnel_try_activate_open(p)
        BY <3>1, Zenon DEF tunnel_try_activate_test, tunnel_try_activate_open
      <3>2. CASE tunnel_activate(p) \/ tunnel_activate_write(p)
        BY <3>2, Zenon DEF tunnel_activate, tunnel_activate_write
      <3>3. CASE tunnel_reconnect_success(p) \/ tunnel_reconnect_failure(p)
        BY <3>3, Zenon DEF tunnel_reconnect_success, tunnel_reconnect_failure
      <3>4. CASE tunnel_reconnect_log(p)
        BY <3>4, Zenon DEF tunnel_reconnect_log
      <3> QED BY <3>1, <3>2, <3>3, <3>4, Zenon DEF ThreadStep
    <2> QED BY <2>1, RunningMain, Zenon
  <1>2. CASE tunnel_activate(p)
    <2>1. thread'[p].pc = "write"
      BY <1>0, <1>2, Zenon DEF tunnel_activate, IdleThread
    <2> QED BY <1>1, <2>1, ForgetRunning, Zenon DEF WritePending
  <1>3. CASE tunnel_activate_write(p)
    <2>1. Stored' = Stored
      BY <1>3, SameStored, Zenon DEF tunnel_activate_write
    <2> QED BY <1>1, <1>3, <2>1, ForgetRunning, Zenon DEF tunnel_activate_write, tunnel_file_write
  <1>4. CASE \/ tunnel_try_activate_test(p) \/ tunnel_try_activate_open(p)
             \/ tunnel_reconnect_success(p) \/ tunnel_reconnect_failure(p)
             \/ tunnel_reconnect_log(p)
    <2>1. Stored \subseteq Stored'
      BY <1>4, StoreTry, StoreReconnect, StoreThreadTail, Zenon
    <2>2. saved' = saved /\ lock' = lock /\ user' = user
      BY <1>4, Zenon DEF tunnel_try_activate_test, tunnel_try_activate_open,
         tunnel_reconnect_success, tunnel_reconnect_log, tunnel_reconnect_failure
    <2>3. thread[p].pc # "write" /\ \A q \in Thread \ {p} : thread'[q] = thread[q]
      BY <1>0, <1>4, Zenon DEF tunnel_try_activate_test, tunnel_try_activate_open,
         tunnel_reconnect_success, tunnel_reconnect_log, tunnel_reconnect_failure
    <2>4. WritePending => WritePending'
      BY <2>2, <2>3, Zenon DEF WritePending
    <2> QED BY <1>1, <2>1, <2>2, <2>4, ForgetRunning, Zenon
  <1> QED BY <1>2, <1>3, <1>4, Zenon DEF ThreadStep

(* The user: each request that may delete a tunnel goes on to write the file. *)
LEMMA ForgetUser ==
    ASSUME ForgetInv, ~EarlyUi, NEW u \in Url, UserRequest(u)
    PROVE  FileLoading' /\ DeletedTunnelsForgotten'
  <1> USE DEF ForgetInv
  <1>1. main = "done" /\ main' = "done" /\ user = "idle"
    BY RunningMain, Zenon DEF UserRequest, tunnel_add_new, tunnel_add_known,
       tunnel_delete_active, tunnel_delete_cached, UserMayAct
  <1>2. CASE tunnel_delete_active(u) \/ tunnel_delete_cached(u)
    BY <1>1, <1>2, ForgetRunning, Zenon DEF tunnel_delete_active, tunnel_delete_cached, WritePending
  <1>3. CASE tunnel_add_new(u) \/ tunnel_add_known(u)
    <2>1. Stored \subseteq Stored' \/ tunnel_delete_cached(u)
      BY StoreUser, Zenon
    <2>2. saved' = saved /\ lock' = lock /\ thread' = thread
      BY <1>3, Zenon DEF tunnel_add_new, tunnel_add_known
    <2>3. WritePending => WritePending'
      BY <1>1, <2>2, Zenon DEF WritePending
    <2> QED BY <1>1, <1>2, <2>1, <2>2, <2>3, ForgetRunning, Zenon
  <1> QED BY <1>2, <1>3, Zenon DEF UserRequest

(* The managers, the worker, and the rest of the requests of the user. *)
LEMMA ForgetRest ==
    ASSUME ForgetInv, ~EarlyUi,
           \/ ManagerStep \/ tunnel_reconnect_manager \/ tunnel_add_spawn
           \/ tunnel_user_write \/ tunnel_ready \/ tunnel_packets
    PROVE  FileLoading' /\ DeletedTunnelsForgotten'
  <1> USE DEF ForgetInv
  <1>0. thread \in [Thread -> thread_s]
    BY Zenon DEF StoreInv, Inv, TypeOK
  <1>1. main = "done" /\ main' = "done"
    BY RunningMain, Zenon DEF ManagerStep, tunnel_activate_manager_scan,
       tunnel_activate_manager_wake, tunnel_reconnect_manager, tunnel_add_spawn,
       tunnel_user_write, tunnel_ready, tunnel_packets
  <1>2. CASE tunnel_user_write
    <2>1. Stored' = Stored
      BY <1>2, SameStored, Zenon DEF tunnel_user_write
    <2> QED BY <1>1, <1>2, <2>1, ForgetRunning, Zenon DEF tunnel_user_write, tunnel_file_write
  <1>3. CASE \/ ManagerStep \/ tunnel_reconnect_manager \/ tunnel_add_spawn
             \/ tunnel_ready \/ tunnel_packets
    <2>1. Stored \subseteq Stored'
      BY <1>3, StoreManagers, StoreRest, Zenon
    <2>2. /\ saved' = saved /\ (lock' = lock \/ lock' # "free")
          /\ user = "write" => user' = "write"
      BY <1>3, Zenon DEF ManagerStep, tunnel_activate_manager_scan,
         tunnel_activate_manager_wake, tunnel_reconnect_manager, tunnel_add_spawn,
         tunnel_ready, tunnel_packets
    <2>3. \A p \in Thread : thread[p].pc = "write" => thread'[p] = thread[p]
      BY <1>0, <1>3, Zenon DEF ManagerStep, tunnel_activate_manager_scan,
         tunnel_activate_manager_wake, tunnel_reconnect_manager, tunnel_add_spawn,
         tunnel_ready, tunnel_packets, Idle
    <2>4. WritePending => WritePending'
      BY <2>2, <2>3, Zenon DEF WritePending
    <2> QED BY <1>1, <2>1, <2>2, <2>4, ForgetRunning, Zenon
  <1> QED BY <1>2, <1>3, Zenon

(* Once every pending write of the cache file is done, a restart brings back no
   tunnel that was deleted or has aged out: no interleaving of the threads that
   change the sets and write the file leaves the write of an older state last. *)
THEOREM DeletedForgotten == ASSUME ~EarlyUi PROVE Spec => []DeletedTunnelsForgotten
  <1>1. Init => ForgetInv
    <2> SUFFICES ASSUME Init PROVE ForgetInv
      BY Zenon
    <2>1. StoreInv
      BY StoreInit, Zenon
    <2> QED BY <2>1, Zenon DEF Init, ForgetInv, FileLoading, DeletedTunnelsForgotten
  <1>2. ForgetInv /\ [Next]_vars => ForgetInv'
    <2> SUFFICES ASSUME ForgetInv, [Next]_vars PROVE ForgetInv'
      BY Zenon
    <2>1. StoreInv'
      BY StoreNext, Zenon DEF ForgetInv
    <2>2. CASE UNCHANGED vars
      <3>1. Stored' = Stored
        BY <2>2, SameStored, Zenon DEF vars
      <3> QED BY <2>1, <2>2, <3>1, Zenon
              DEF vars, ForgetInv, FileLoading, DeletedTunnelsForgotten, WritePending
    <2> QED BY <2>1, <2>2, ForgetMain, ForgetThread, ForgetUser, ForgetRest, Zenon
            DEF Next, ForgetInv
  <1>3. ForgetInv => DeletedTunnelsForgotten
    BY Zenon DEF ForgetInv
  <1> QED BY <1>1, <1>2, <1>3, PTL DEF Spec

=============================================================================
