------------------------------- MODULE Tunnel -------------------------------
(***************************************************************************)
(* The tunnel manager of the client (tunnel.c): the heap of tunnel         *)
(* objects, the two tunnel sets, the threads that open and reopen tunnels, *)
(* the two manager threads, the configuration (user interface) thread that *)
(* adds and deletes tunnels, a worker thread that sends packets, and the   *)
(* main thread that loads the tunnel cache file.                           *)
(*                                                                         *)
(* Every critical section of tunnels_lock is one step.  What runs outside  *)
(* the lock is split at each point where another thread can change what is *)
(* read: tunnel->state is read without the lock while a tunnel is opened.  *)
(* The arrays of tunnels are sets; "the first entry with this URL" is any  *)
(* entry with this URL.  Memory is never reused, so that a stale pointer   *)
(* can be told from a good one.                                            *)
(***************************************************************************)
EXTENDS Naturals, FiniteSets, Functions

CONSTANTS
    Url,              \* syntactically valid tunnel URLs
    NoUrl,            \* the contents of memory that holds no URL
    Tun,              \* addresses of tunnel objects (bounds the allocations)
    NoTun,            \* the NULL tunnel
    Thread,           \* threads for tunnel_activate and tunnel_reconnect
    TUNNEL_INIT_AGE,  \* age of a tunnel that was opened successfully
    MAX_INIT_OPEN,    \* tunnels the activation manager tries to keep open
    MAX_RETRIES,      \* attempts of tunnel_try_activate
    EarlyUi,          \* may the user act before the cache file is loaded?
    FopenFails,       \* may the tunnel cache file fail to open for writing?
    LowMtu            \* may the configured MTU be below the overhead?

ASSUME ConstantsAssumption ==
    /\ NoUrl \notin Url
    /\ NoTun \notin Tun
    /\ TUNNEL_INIT_AGE \in Nat \ {0}
    /\ MAX_INIT_OPEN \in Nat
    /\ MAX_RETRIES \in Nat \ {0}
    /\ {EarlyUi, FopenFails, LowMtu} \subseteq BOOLEAN

VARIABLES
    tunnel,          \* tunnel[t]: the struct tunnel_s at address t
    tunnels_cache,   \* all tunnels
    tunnels_active,  \* tunnels the workers may use
    lock,            \* "free" between critical sections, or "leaked" forever
    thread,          \* thread[p]: what thread p runs and its local variables
    main,            \* the main thread: loading the cache file, then running
    unread,          \* URLs of the cache file not yet loaded
    manager,         \* the activation manager thread
    user,            \* the configuration thread
    userTun,         \* the local variable tunnel of tunnel_add
    worker,          \* a worker thread, between tunnel_ready and tunnel_packets
    saved,           \* URLs in the cache file last written completely
    gone             \* history: URLs never stored, or deleted or aged out since

vars == <<tunnel, tunnels_cache, tunnels_active, lock, thread, main, unread,
          manager, user, userTun, worker, saved, gone>>

-----------------------------------------------------------------------------
(* Tunnel objects *)

State == {"CLOSED", "OPENING", "OPEN", "DEAD", "CLOSING", "DELETING"}

tunnel_s == [mem       : {"none", "live", "freed"},
             url       : Url \cup {NoUrl},
             state     : State,
             cktp      : BOOLEAN,   \* tunnel->tunnel # NULL
             reconnect : BOOLEAN,
             age       : 0..TUNNEL_INIT_AGE]

NoMemory(m) == [mem |-> m, url |-> NoUrl, state |-> "CLOSED", cktp |-> FALSE,
                reconnect |-> FALSE, age |-> 0]

Live == {t \in Tun : tunnel[t].mem = "live"}
Unallocated == {t \in Tun : tunnel[t].mem = "none"}

tunnel_create(u, a) == [mem |-> "live", url |-> u, state |-> "CLOSED",
                        cktp |-> FALSE, reconnect |-> FALSE, age |-> a]

(* A tunnel some thread is opening is left to that thread. *)
tunnel_free(o) ==
    CASE o.state = "OPENING"  -> [o EXCEPT !.state = "DELETING"]
      [] o.state = "DELETING" -> o
      [] OTHER                -> NoMemory("freed")

(* cktp_close_tunnel(tunnel->tunnel); tunnel->tunnel = NULL *)
Closed(o, s) == [o EXCEPT !.cktp = FALSE, !.state = s]

(* Mutant of Matching: the search skips dead tunnels. *)
Matching_NotDead(set, u) ==
    {t \in set : tunnel[t].url = u /\ tunnel[t].state # "DEAD"}

(* The entries of a tunnel set that a search by URL may stop at. *)
Matching(set, u) == {t \in set : tunnel[t].url = u}

-----------------------------------------------------------------------------
(* Threads *)

thread_s == [job     : {"activate", "reconnect"},
             pc      : {"idle", "start", "try", "open", "done", "log", "write"},
             tun     : Tun \cup {NoTun},
             retries : 0..MAX_RETRIES,
             result  : BOOLEAN]

IdleThread == [job |-> "activate", pc |-> "idle", tun |-> NoTun,
               retries |-> 0, result |-> FALSE]

NewThread(j, t) == [job |-> j, pc |-> "start", tun |-> t,
                    retries |-> MAX_RETRIES, result |-> FALSE]

Idle == {p \in Thread : thread[p].pc = "idle"}

(* Thread p is opening, or is about to record the outcome for, its tunnel. *)
Opening(p) == thread[p].pc \in {"start", "try", "open", "done"}

Init ==
    /\ tunnel = [t \in Tun |-> NoMemory("none")]
    /\ tunnels_cache = {} /\ tunnels_active = {}
    /\ lock = "free"
    /\ thread = [p \in Thread |-> IdleThread]
    /\ main = "start" /\ unread = {}
    /\ manager = "off"
    /\ user = "idle" /\ userTun = NoTun
    /\ worker = "idle"
    /\ saved \in SUBSET Url
    /\ gone = Url \ saved

-----------------------------------------------------------------------------
(* The cache file *)

(* fopen() of the cache file; the reader keeps this version of the file even
   if a writer renames another one over it. *)
tunnel_file_open ==
    /\ main = "start"
    /\ main' = "reading" /\ unread' = saved
    /\ UNCHANGED <<tunnel, tunnels_cache, tunnels_active, lock, thread, manager,
                   user, userTun, worker, saved, gone>>

(* One line of the cache file becomes one tunnel; no lookup is made. *)
tunnel_file_read ==
    /\ main = "reading" /\ lock = "free"
    /\ \E u \in unread, a \in 1..TUNNEL_INIT_AGE, t \in Unallocated :
         /\ tunnel' = [tunnel EXCEPT ![t] = tunnel_create(u, a)]
         /\ tunnels_cache' = tunnels_cache \cup {t}
         /\ unread' = unread \ {u}
    /\ UNCHANGED <<tunnels_active, lock, thread, main, manager, user, userTun,
                   worker, saved, gone>>

(* End of file; tunnel_open() starts the managers. *)
tunnel_open ==
    /\ main = "reading" /\ unread = {}
    /\ main' = "done" /\ manager' = "scan"
    /\ UNCHANGED <<tunnel, tunnels_cache, tunnels_active, lock, thread, unread,
                   user, userTun, worker, saved, gone>>

(* Mutant of Stored: the age is compared with the wrong bound. *)
Stored_AgeAboveOne == {tunnel[t].url : t \in {x \in tunnels_cache : tunnel[x].age > 1}}

Stored == {tunnel[t].url : t \in {x \in tunnels_cache : tunnel[x].age # 0}}

(* Mutant of tunnel_file_write: new lines are appended to the old file. *)
tunnel_file_write_Append ==
    /\ lock = "free"
    /\ \/ saved' = saved \cup Stored /\ UNCHANGED lock
       \/ FopenFails /\ lock' = "leaked" /\ UNCHANGED saved

(* The tail of every operation that writes the file.  When the temporary file
   cannot be opened the function returns with the lock held. *)
tunnel_file_write ==
    /\ lock = "free"
    /\ \/ saved' = Stored /\ UNCHANGED lock
       \/ FopenFails /\ lock' = "leaked" /\ UNCHANGED saved

-----------------------------------------------------------------------------
(* The activation manager *)

(* MAX_INIT_OPEN - tunnels_active.length + 1 in size_t arithmetic: more than
   MAX_INIT_OPEN + 1 active tunnels wrap it round to "no limit". *)
ScanMax(closed) ==
    IF Cardinality(tunnels_active) <= MAX_INIT_OPEN + 1
    THEN MAX_INIT_OPEN + 1 - Cardinality(tunnels_active)
    ELSE Cardinality(closed) + 1

tunnel_activate_manager_scan ==
    /\ manager = "scan" /\ lock = "free"
    /\ LET closed == {t \in tunnels_cache : tunnel[t].state = "CLOSED"}
           max    == ScanMax(closed)
       IN \E P \in SUBSET Idle : \E opens \in Injection(P, closed) :
            /\ Cardinality(P) <= max
            /\ Cardinality(P) # max => Cardinality(P) = Cardinality(closed)
            /\ tunnel' = [t \in Tun |->
                            IF \E p \in P : opens[p] = t
                            THEN [tunnel[t] EXCEPT !.state = "OPENING"]
                            ELSE tunnel[t]]
            /\ thread' = [p \in Thread |->
                            IF p \in P THEN NewThread("activate", opens[p])
                            ELSE thread[p]]
            /\ manager' = IF Cardinality(P) = max THEN "done" ELSE "sleep"
    /\ UNCHANGED <<tunnels_cache, tunnels_active, lock, main, unread, user,
                   userTun, worker, saved, gone>>

(* The loop condition, read without the lock after the sleep. *)
tunnel_activate_manager_wake ==
    /\ manager = "sleep"
    /\ manager' = IF Cardinality(tunnels_active) < MAX_INIT_OPEN
                  THEN "scan" ELSE "done"
    /\ UNCHANGED <<tunnel, tunnels_cache, tunnels_active, lock, thread, main,
                   unread, user, userTun, worker, saved, gone>>

-----------------------------------------------------------------------------
(* tunnel_try_activate, run by tunnel_activate and by tunnel_reconnect *)

(* The loop condition.  A tunnel no longer OPENING ends the loop with result
   true. *)
Tested(th, o) ==
    IF o.state = "OPENING" THEN [th EXCEPT !.pc = "open"]
    ELSE [th EXCEPT !.pc = "done", !.result = TRUE]

(* The first time the lock is taken, to draw the stagger. *)
tunnel_try_activate_test(p) ==
    /\ thread[p].pc \in {"start", "try"}
    /\ thread[p].pc = "start" => lock = "free"
    /\ thread' = [thread EXCEPT ![p] = Tested(@, tunnel[@.tun])]
    /\ UNCHANGED <<tunnel, tunnels_cache, tunnels_active, lock, main, unread,
                   manager, user, userTun, worker, saved, gone>>

Tried_Forever(th, o, opened) ==
    IF opened \/ o.state # "OPENING"
    THEN [th EXCEPT !.pc = "done", !.result = TRUE]
    ELSE [th EXCEPT !.pc = "try", !.result = FALSE]

(* After an attempt to open the tunnel o. *)
Tried(th, o, opened) ==
    IF opened \/ o.state # "OPENING"
    THEN [th EXCEPT !.pc = "done", !.result = TRUE]
    ELSE [th EXCEPT !.pc = IF th.retries = 1 THEN "done" ELSE "try",
                    !.retries = @ - 1, !.result = FALSE]

(* cktp_open_tunnel() returned NULL (opened = FALSE) or a new CKTP tunnel. *)
tunnel_try_activate_open(p) ==
    /\ thread[p].pc = "open"
    /\ \E opened \in BOOLEAN :
         /\ tunnel' = [tunnel EXCEPT ![thread[p].tun] = [@ EXCEPT !.cktp = opened]]
         /\ thread' = [thread EXCEPT ![p] = Tried(@, tunnel[@.tun], opened)]
    /\ UNCHANGED <<tunnels_cache, tunnels_active, lock, main, unread, manager,
                   user, userTun, worker, saved, gone>>

(* tunnel_activate records the outcome; any other state is a panic. *)
Activated(o, result) ==
    CASE o.state = "DELETING" -> tunnel_free([o EXCEPT !.state = "OPEN"])
      [] o.state = "CLOSING"  -> Closed(o, "CLOSED")
      [] o.state = "OPENING" /\ result ->
           [o EXCEPT !.state = "OPEN", !.age = TUNNEL_INIT_AGE]
      [] OTHER ->
           [o EXCEPT !.state = "DEAD", !.age = IF @ = 0 THEN 0 ELSE @ - 1]

tunnel_activate(p) ==
    /\ thread[p].job = "activate" /\ thread[p].pc = "done" /\ lock = "free"
    /\ LET t == thread[p].tun
           o == tunnel[t]
       IN /\ o.state \in {"DELETING", "CLOSING", "OPENING"}
          /\ tunnel' = [tunnel EXCEPT ![t] = Activated(o, thread[p].result)]
          /\ tunnels_active' = IF o.state = "OPENING" /\ thread[p].result
                               THEN tunnels_active \cup {t}
                               ELSE tunnels_active
          /\ gone' = IF t \in tunnels_cache /\ tunnel'[t].age = 0
                     THEN gone \cup {o.url} ELSE gone
    /\ thread' = [thread EXCEPT ![p] = [IdleThread EXCEPT !.pc = "write"]]
    /\ UNCHANGED <<tunnels_cache, lock, main, unread, manager, user, userTun,
                   worker, saved>>

tunnel_activate_write(p) ==
    /\ thread[p].pc = "write"
    /\ tunnel_file_write
    /\ thread' = [thread EXCEPT ![p] = IdleThread]
    /\ UNCHANGED <<tunnel, tunnels_cache, tunnels_active, main, unread, manager,
                   user, userTun, worker, gone>>

-----------------------------------------------------------------------------
(* The reconnection manager and tunnel_reconnect *)

(* One active tunnel found to have timed out.  Several found by one poll are
   several steps.  The step includes the first statements of the new thread,
   which touch only memory that no other thread can reach. *)
tunnel_reconnect_manager ==
    /\ main = "done" /\ lock = "free"
    /\ \E t \in tunnels_active, p \in Idle, new \in Unallocated :
         /\ ~tunnel[t].reconnect
         /\ tunnel' = [tunnel EXCEPT
                         ![t] = [@ EXCEPT !.reconnect = TRUE],
                         ![new] = [tunnel_create(tunnel[t].url, TUNNEL_INIT_AGE)
                                     EXCEPT !.state = "OPENING"]]
         /\ thread' = [thread EXCEPT ![p] = NewThread("reconnect", new)]
    /\ UNCHANGED <<tunnels_cache, tunnels_active, lock, main, unread, manager,
                   user, userTun, worker, saved, gone>>

tunnel_set_replace_KeepOld(set, old, new) ==
    IF old = NoTun THEN set ELSE set \cup {new}

(* What the sets become when new takes the place of old, if there is an old. *)
tunnel_set_replace(set, old, new) ==
    IF old = NoTun THEN set ELSE (set \ {old}) \cup {new}

FirstMatch(set, u) == IF Matching(set, u) = {} THEN {NoTun} ELSE Matching(set, u)

(* The new tunnel was opened: it replaces the old one.  Its state is still
   OPENING, also when it becomes active. *)
tunnel_reconnect_success(p) ==
    /\ thread[p].job = "reconnect" /\ thread[p].pc = "done" /\ lock = "free"
    /\ thread[p].result
    /\ LET new == thread[p].tun
           u   == tunnel[new].url
       IN \E old_active \in FirstMatch(tunnels_active, u),
             old_cache  \in FirstMatch(tunnels_cache, u) :
            /\ tunnels_active' = tunnel_set_replace(tunnels_active, old_active, new)
            /\ tunnels_cache'  = tunnel_set_replace(tunnels_cache, old_cache, new)
            /\ tunnel' =
                 CASE old_active # NoTun ->
                        [tunnel EXCEPT ![old_active] = tunnel_free(@)]
                   [] old_active = NoTun /\ old_cache # NoTun ->
                        [tunnel EXCEPT
                           ![new] = [Closed(@, "DEAD") EXCEPT !.reconnect = FALSE],
                           ![old_cache] = tunnel_free(@)]
                   [] OTHER -> [tunnel EXCEPT ![new] = tunnel_free(@)]
            /\ thread' = IF old_active = NoTun /\ old_cache = NoTun
                         THEN [thread EXCEPT ![p] = IdleThread]
                         ELSE [thread EXCEPT ![p] = [@ EXCEPT !.pc = "log"]]
    /\ UNCHANGED <<lock, main, unread, manager, user, userTun, worker, saved, gone>>

(* The success message reads tunnel->url after the lock was released. *)
tunnel_reconnect_log(p) ==
    /\ thread[p].pc = "log"
    /\ thread' = [thread EXCEPT ![p] = IdleThread]
    /\ UNCHANGED <<tunnel, tunnels_cache, tunnels_active, lock, main, unread,
                   manager, user, userTun, worker, saved, gone>>

(* The search key is the URL string freed when the thread started: it may hold
   the old URL, the URL of a later allocation, or anything else. *)
tunnel_reconnect_failure(p) ==
    /\ thread[p].job = "reconnect" /\ thread[p].pc = "done" /\ lock = "free"
    /\ ~thread[p].result
    /\ \E stale \in Url \cup {NoUrl} :
       \E old \in FirstMatch(tunnels_active, stale) :
         LET new == thread[p].tun
         IN /\ tunnels_active' = tunnels_active \ {old}
            /\ tunnel' = [tunnel EXCEPT ![new] =
                            tunnel_free(IF old = NoTun THEN @
                                        ELSE Closed(@, "DEAD"))]
    /\ thread' = [thread EXCEPT ![p] = IdleThread]
    /\ UNCHANGED <<tunnels_cache, lock, main, unread, manager, user, userTun,
                   worker, saved, gone>>

-----------------------------------------------------------------------------
(* The configuration thread: one request at a time *)

UserMayAct == user = "idle" /\ lock = "free" /\ (EarlyUi \/ main = "done")

(* The URL is not in the cache. *)
tunnel_add_new(u) ==
    /\ UserMayAct
    /\ Matching(tunnels_cache, u) = {}
    /\ \E t \in Unallocated :
         /\ tunnel' = [tunnel EXCEPT ![t] = [tunnel_create(u, TUNNEL_INIT_AGE)
                                               EXCEPT !.state = "OPENING"]]
         /\ tunnels_cache' = tunnels_cache \cup {t}
         /\ userTun' = t
    /\ user' = "spawn"
    /\ UNCHANGED <<tunnels_active, lock, thread, main, unread, manager, worker,
                   saved, gone>>

(* Mutants of tunnel_add_known: each half of the state test is missing. *)
tunnel_add_known_Opening(u) ==
    /\ UserMayAct
    /\ \E t \in Matching(tunnels_cache, u) :
         /\ tunnel[t].state # "OPEN"
         /\ tunnel' = [tunnel EXCEPT ![t] = [@ EXCEPT !.state = "OPENING"]]
         /\ userTun' = t
    /\ user' = "spawn"
    /\ UNCHANGED <<tunnels_cache, tunnels_active, lock, thread, main, unread,
                   manager, worker, saved, gone>>

tunnel_add_known_Open(u) ==
    /\ UserMayAct
    /\ \E t \in Matching(tunnels_cache, u) :
         /\ tunnel[t].state # "OPENING"
         /\ tunnel' = [tunnel EXCEPT ![t] = [@ EXCEPT !.state = "OPENING"]]
         /\ userTun' = t
    /\ user' = "spawn"
    /\ UNCHANGED <<tunnels_cache, tunnels_active, lock, thread, main, unread,
                   manager, worker, saved, gone>>

(* The URL is in the cache; nothing happens if it is open or opening. *)
tunnel_add_known(u) ==
    /\ UserMayAct
    /\ \E t \in Matching(tunnels_cache, u) :
         /\ tunnel[t].state \notin {"OPEN", "OPENING"}
         /\ tunnel' = [tunnel EXCEPT ![t] = [@ EXCEPT !.state = "OPENING"]]
         /\ userTun' = t
    /\ user' = "spawn"
    /\ UNCHANGED <<tunnels_cache, tunnels_active, lock, thread, main, unread,
                   manager, worker, saved, gone>>

(* After the unlock: thread_create(tunnel_activate, tunnel). *)
tunnel_add_spawn ==
    /\ user = "spawn"
    /\ \E p \in Idle :
         thread' = [thread EXCEPT ![p] = NewThread("activate", userTun)]
    /\ user' = "write" /\ userTun' = NoTun
    /\ UNCHANGED <<tunnel, tunnels_cache, tunnels_active, lock, main, unread,
                   manager, worker, saved, gone>>

(* tunnel_delete of an active tunnel deactivates it; other states panic. *)
Deactivated(o) ==
    CASE o.state = "OPENING" -> [o EXCEPT !.state = "CLOSING"]
      [] o.state = "OPEN"    -> Closed(o, "CLOSED")
      [] OTHER               -> o

tunnel_delete_active(u) ==
    /\ UserMayAct
    /\ \E t \in Matching(tunnels_active, u) :
         /\ tunnel[t].state \in {"OPENING", "CLOSING", "OPEN"}
         /\ tunnels_active' = tunnels_active \ {t}
         /\ tunnel' = [tunnel EXCEPT ![t] = Deactivated(@)]
    /\ user' = "write"
    /\ UNCHANGED <<tunnels_cache, lock, thread, main, unread, manager, userTun,
                   worker, saved, gone>>

(* tunnel_delete of an inactive tunnel removes it from the cache, if it is
   there at all. *)
tunnel_delete_cached(u) ==
    /\ UserMayAct
    /\ Matching(tunnels_active, u) = {}
    /\ \E t \in FirstMatch(tunnels_cache, u) :
         /\ tunnels_cache' = tunnels_cache \ {t}
         /\ tunnel' = [x \in Tun |-> IF x = t THEN tunnel_free(tunnel[x])
                                     ELSE tunnel[x]]
         /\ gone' = IF t = NoTun THEN gone ELSE gone \cup {u}
    /\ user' = "write"
    /\ UNCHANGED <<tunnels_active, lock, thread, main, unread, manager, userTun,
                   worker, saved>>

tunnel_user_write ==
    /\ user = "write"
    /\ tunnel_file_write
    /\ user' = "idle"
    /\ UNCHANGED <<tunnel, tunnels_cache, tunnels_active, thread, main, unread,
                   manager, userTun, worker, gone>>

-----------------------------------------------------------------------------
(* A worker thread *)

(* With no active tunnel the packet takes the normal route. *)
tunnel_ready ==
    /\ worker = "idle" /\ main = "done" /\ lock = "free"
    /\ tunnels_active # {}
    /\ worker' = "ready"
    /\ UNCHANGED <<tunnel, tunnels_cache, tunnels_active, lock, thread, main,
                   unread, manager, user, userTun, saved, gone>>

(* By now there may be no active tunnel: the packet is dropped.  An MTU of
   zero returns with the lock held. *)
tunnel_packets ==
    /\ worker = "ready" /\ lock = "free"
    /\ worker' = "idle"
    /\ \/ UNCHANGED lock
       \/ LowMtu /\ tunnels_active # {} /\ lock' = "leaked"
    /\ UNCHANGED <<tunnel, tunnels_cache, tunnels_active, thread, main, unread,
                   manager, user, userTun, saved, gone>>

-----------------------------------------------------------------------------
ThreadStep(p) ==
    \/ tunnel_try_activate_test(p)
    \/ tunnel_try_activate_open(p)
    \/ tunnel_activate(p)
    \/ tunnel_activate_write(p)
    \/ tunnel_reconnect_success(p)
    \/ tunnel_reconnect_log(p)
    \/ tunnel_reconnect_failure(p)

MainStep == tunnel_file_open \/ tunnel_file_read \/ tunnel_open

ManagerStep == tunnel_activate_manager_scan \/ tunnel_activate_manager_wake

UserRequest(u) ==
    \/ tunnel_add_new(u)
    \/ tunnel_add_known(u)
    \/ tunnel_delete_active(u)
    \/ tunnel_delete_cached(u)

Next ==
    \/ MainStep
    \/ ManagerStep
    \/ tunnel_reconnect_manager
    \/ \E p \in Thread : ThreadStep(p)
    \/ \E u \in Url : UserRequest(u)
    \/ tunnel_add_spawn
    \/ tunnel_user_write
    \/ tunnel_ready
    \/ tunnel_packets

Spec == Init /\ [][Next]_vars

(* cktp_open_tunnel() gives up after a bounded number of retries, so each
   thread goes on; the mutex is assumed not to starve a waiter.  The user need
   not act.  Strong fairness of the spawn only makes up for the bound on the
   number of threads: thread_create() never waits for a thread to end. *)
Fairness ==
    /\ WF_vars(MainStep)
    /\ WF_vars(ManagerStep)
    /\ \A p \in Thread : WF_vars(ThreadStep(p))
    /\ SF_vars(tunnel_add_spawn)
    /\ WF_vars(tunnel_user_write)
    /\ WF_vars(tunnel_packets)

FairSpec == Spec /\ Fairness

-----------------------------------------------------------------------------
(* Properties *)

(* Every variable has a value of its C type; the threads' tunnels are
   addresses. *)
TypeOK ==
    /\ tunnel \in [Tun -> tunnel_s]
    /\ tunnels_cache \subseteq Tun
    /\ tunnels_active \subseteq Tun
    /\ lock \in {"free", "leaked"}
    /\ thread \in [Thread -> thread_s]
    /\ main \in {"start", "reading", "done"}
    /\ unread \subseteq Url
    /\ manager \in {"off", "scan", "sleep", "done"}
    /\ user \in {"idle", "spawn", "write"}
    /\ userTun \in Tun \cup {NoTun}
    /\ worker \in {"idle", "ready"}
    /\ saved \subseteq Url
    /\ gone \subseteq Url
    /\ \A p \in Thread :
         thread[p].pc \in {"start", "try", "open"} => thread[p].retries > 0

(* No set and no thread that will still use its tunnel holds a pointer to
   memory that tunnel_free released: a tunnel deleted or replaced while a
   thread opens it is freed by that thread, and only then. *)
NoDangling ==
    /\ tunnels_cache \cup tunnels_active \subseteq Live
    /\ \A p \in Thread : Opening(p) => thread[p].tun \in Live
    /\ user = "spawn" => userTun \in Live

(* Neither panic("unexpected tunnel state") is reached: tunnel_activate finds
   its tunnel opening, closing or deleting, and tunnel_delete finds an active
   tunnel opening, closing or open. *)
NoPanic ==
    /\ \A p \in Thread :
         thread[p].job = "activate" /\ Opening(p)
           => tunnel[thread[p].tun].state \in {"DELETING", "CLOSING", "OPENING"}
    /\ \A t \in tunnels_active : tunnel[t].state \in {"OPENING", "CLOSING", "OPEN"}

(* A tunnel that tunnel_packets may pick has a CKTP tunnel to send through
   (tunnel->tunnel is not NULL), and is still in the cache, where the user can
   find it. *)
ActiveUsable ==
    /\ tunnels_active \subseteq tunnels_cache
    /\ \A t \in tunnels_active : tunnel[t].cktp

(* No URL is in the cache twice, whatever adds, deletes and reconnects
   overlap: tunnel_set_replace and tunnel_set_delete stop at the first match
   and rely on it being the only one. *)
OneTunnelPerUrl ==
    \A s, t \in tunnels_cache : tunnel[s].url = tunnel[t].url => s = t

(* An OPENING tunnel that has no CKTP tunnel yet is being opened by a thread,
   or is about to be handed to one by tunnel_add: it is not left waiting, in a
   state in which tunnel_add refuses it, for an attempt that nobody makes. *)
Waiting(t) ==
    t \in tunnels_cache /\ tunnel[t].state = "OPENING" /\ ~tunnel[t].cktp

WaitingHasThread ==
    \A t \in Tun : Waiting(t) =>
      \/ user = "spawn" /\ userTun = t
      \/ \E p \in Thread : Opening(p) /\ thread[p].tun = t

(* A tunnel handed to tunnel_activate is in the cache, waiting to be recorded
   as open or dead, unless it was taken out of the cache meanwhile and left to
   the thread to free. *)
HandedOver(t) ==
    \/ t \in tunnels_cache \ tunnels_active /\ tunnel[t].state = "OPENING"
    \/ t \notin tunnels_cache /\ tunnel[t].state = "DELETING"

(* Every tunnel has at most one thread that opens it; tunnel_activate's is
   handed over, tunnel_reconnect's is known to that thread only; and a thread
   that reports success on a tunnel still OPENING has a CKTP tunnel. *)
Ownership ==
    /\ \A p, q \in Thread :
         Opening(p) /\ Opening(q) /\ thread[p].tun = thread[q].tun => p = q
    /\ \A p \in Thread : user = "spawn" /\ Opening(p) => thread[p].tun # userTun
    /\ user = "spawn" => HandedOver(userTun)
    /\ \A p \in Thread : Opening(p) =>
         /\ thread[p].job = "activate" => HandedOver(thread[p].tun)
         /\ thread[p].job = "reconnect" =>
              /\ thread[p].tun \notin tunnels_cache
              /\ tunnel[thread[p].tun].state = "OPENING"
         /\ /\ thread[p].pc = "done" /\ thread[p].result
            /\ tunnel[thread[p].tun].state = "OPENING"
            => tunnel[thread[p].tun].cktp

(* A stored tunnel disappears from the cache file only because the user
   deleted it or because its age ran out. *)
StoredTunnelsKept == Url \ gone \subseteq saved

WritePending == user = "write" \/ \E p \in Thread : thread[p].pc = "write"

(* Once every pending tunnel_file_write is done, the file holds no tunnel that
   was deleted or has aged out: a restart does not bring it back. *)
DeletedTunnelsForgotten ==
    main = "done" /\ lock = "free" /\ ~WritePending => saved \subseteq Stored

(* tunnel_free never releases a tunnel that an activation thread works on,
   unless it is that thread which does: the step that frees an address ends
   the work of every thread on it. *)
FreedByOwner ==
    [][\A t \in Tun : tunnel[t].mem = "live" /\ tunnel'[t].mem = "freed" =>
         \A p \in Thread : Opening(p) /\ thread[p].tun = t => ~Opening(p)']_vars

(* A tunnel waiting to be opened does not wait forever: it is opened, given
   up, or deleted. *)
WaitingEnds == \A t \in Tun : Waiting(t) ~> ~Waiting(t)

(* A deleted tunnel leaves the cache file, unless it is added again first. *)
DeleteSaved ==
    \A u \in Url :
      (main = "done" /\ Matching(tunnels_cache, u) = {})
        ~> (u \notin saved \/ Matching(tunnels_cache, u) # {})

=============================================================================
