-------------------------------- MODULE Quota -------------------------------
(***************************************************************************)
(* The quota of key requests (quota.c), which the listen threads of a      *)
(* server share (encodings/crypt.c).  Only the two times of a reset are    *)
(* written with the lock; all reads, the salt and the counters are without *)
(* it.  A step is one access to shared memory.                             *)
(*                                                                         *)
(* The salt is random: it is the function from addresses to counters it    *)
(* makes of quota_hash.  Before the first reset the memory is as malloc    *)
(* left it.                                                                *)
(***************************************************************************)
EXTENDS Integers, FiniteSets

CONSTANTS
    Threads,           \* listen threads
    Addresses,         \* source addresses
    Counters,          \* the counters
    Sec,               \* ticks of a second, 1024 in the code
    rps,               \* requests per second
    timemin, timemax,  \* the least period between resets, and a bound of it
    W,                 \* the number of values of a time, 2^64
    Garbage,           \* values of a counter no one has written
    MaxTime,           \* bound: time
    MaxCount           \* bound: requests

NoThread == "no thread"

VARIABLES
    now,        \* the time
    resettime, starttime, salt, counts,  \* the fields of quota_s
    lock,       \* the holder of the lock, or NoThread
    pc,         \* pc[t]: the step of quota_check thread t is at, or "idle"
    local,      \* local[t]: its variables
    requests,   \* the number of requests so far
    accepted,   \* accepted[a]: requests of address a accepted since the last reset
    stale       \* the counters no reset has cleared yet

fields == <<resettime, starttime, salt, counts>>
vars == <<now, fields, lock, pc, local, requests, accepted, stale>>

NoLocal == [ip |-> "none", currtime |-> 0, hash |-> "none", count |-> 0, difftime |-> 0]

(* quota_init *)
Init ==
    /\ now = 1 /\ resettime = now - 1
    /\ starttime \in {0, MaxTime} /\ salt \in [Addresses -> Counters] /\ counts \in [Counters -> Garbage]
    /\ lock = NoThread
    /\ pc = [t \in Threads |-> "idle"] /\ local = [t \in Threads |-> NoLocal]
    /\ requests = 0 /\ accepted = [a \in Addresses |-> 0] /\ stale = Counters

Tick ==
    /\ now < MaxTime /\ now' = now + 1
    /\ UNCHANGED <<fields, lock, pc, local, requests, accepted, stale>>

-----------------------------------------------------------------------------
(* quota_check *)
Go(t, to) == pc' = [pc EXCEPT ![t] = to]

(* The time is read before the times of the quota are. *)
Call(t) ==
    /\ pc[t] = "idle" /\ requests < MaxCount
    /\ \E a \in Addresses : local' = [local EXCEPT ![t] = [NoLocal EXCEPT !.ip = a, !.currtime = now]]
    /\ requests' = requests + 1 /\ Go(t, "check")
    /\ UNCHANGED <<now, fields, lock, accepted, stale>>

Check(t) ==
    /\ pc[t] = "check"
    /\ Go(t, IF local[t].currtime > resettime THEN "resettime" ELSE "hash")
    /\ UNCHANGED <<now, fields, lock, local, requests, accepted, stale>>

ResetTime(t) ==
    /\ pc[t] = "resettime" /\ lock = NoThread /\ lock' = t
    /\ \E r \in timemin .. timemax - 1 : resettime' = local[t].currtime + r
    /\ Go(t, "starttime")
    /\ UNCHANGED <<now, starttime, salt, counts, local, requests, accepted, stale>>

StartTime(t) ==
    /\ pc[t] = "starttime" /\ lock' = NoThread
    /\ starttime' = local[t].currtime
    /\ accepted' = [a \in Addresses |-> 0]
    /\ Go(t, "salt")
    /\ UNCHANGED <<now, resettime, salt, counts, local, requests, stale>>

Salt(t) ==
    /\ pc[t] = "salt"
    /\ salt' \in [Addresses -> Counters]
    /\ Go(t, "clear")
    /\ UNCHANGED <<now, resettime, starttime, counts, lock, local, requests, accepted, stale>>

Clear(t) ==
    /\ pc[t] = "clear"
    /\ counts' = [c \in Counters |-> 0] /\ stale' = {}
    /\ Go(t, "hash")
    /\ UNCHANGED <<now, resettime, starttime, salt, lock, local, requests, accepted>>

Hash(t) ==
    /\ pc[t] = "hash"
    /\ local' = [local EXCEPT ![t].hash = salt[local[t].ip]]
    /\ Go(t, "count")
    /\ UNCHANGED <<now, fields, lock, requests, accepted, stale>>

Count(t) ==
    /\ pc[t] = "count"
    /\ local' = [local EXCEPT ![t].count = counts[local[t].hash]]
    /\ Go(t, IF counts[local[t].hash] = 0 THEN "first" ELSE "difftime")
    /\ UNCHANGED <<now, fields, lock, requests, accepted, stale>>

Accept(t, to) == /\ accepted' = [accepted EXCEPT ![local[t].ip] = @ + 1]
                 /\ Go(t, to)

First(t) ==
    /\ pc[t] = "first"
    /\ counts' = [counts EXCEPT ![local[t].hash] = 1]
    /\ Accept(t, "yes")
    /\ UNCHANGED <<now, resettime, starttime, salt, lock, local, requests, stale>>

(* The difference of two times is unsigned. *)
DiffTime(t) ==
    /\ pc[t] = "difftime"
    /\ local' = [local EXCEPT ![t].difftime = (local[t].currtime - starttime) % W]
    /\ Go(t, "limit")
    /\ UNCHANGED <<now, fields, lock, requests, accepted, stale>>

(* Mutant: the requests of a burst are counted at the full rate. *)
limit_Full(difftime, totaltime) ==
    ((((rps * difftime) % W) \div Sec) + (totaltime \div Sec) + 1) % W

limit(difftime, totaltime) ==
    (((((rps - 1) * difftime) % W) \div Sec) + (totaltime \div Sec) + 1) % W

Limit(t) ==
    /\ pc[t] = "limit"
    /\ LET totaltime == (resettime - starttime) % W
       IN  IF local[t].count <= limit(local[t].difftime, totaltime)
           THEN Accept(t, "read")
           ELSE Go(t, "no") /\ UNCHANGED accepted
    /\ UNCHANGED <<now, fields, lock, local, requests, stale>>

(* counts[hash]++; difftime is not used any more and serves as the register. *)
Read(t) ==
    /\ pc[t] = "read"
    /\ local' = [local EXCEPT ![t].difftime = counts[local[t].hash]]
    /\ Go(t, "write")
    /\ UNCHANGED <<now, fields, lock, requests, accepted, stale>>

Write(t) ==
    /\ pc[t] = "write"
    /\ counts' = [counts EXCEPT ![local[t].hash] = local[t].difftime + 1]
    /\ Go(t, "yes")
    /\ UNCHANGED <<now, resettime, starttime, salt, lock, local, requests, accepted, stale>>

Return(t) ==
    /\ pc[t] \in {"yes", "no"}
    /\ local' = [local EXCEPT ![t] = NoLocal] /\ Go(t, "idle")
    /\ UNCHANGED <<now, fields, lock, requests, accepted, stale>>

Step(t) ==
    \/ Call(t) \/ Check(t) \/ ResetTime(t) \/ StartTime(t) \/ Salt(t) \/ Clear(t)
    \/ Hash(t) \/ Count(t) \/ First(t) \/ DiffTime(t) \/ Limit(t) \/ Read(t) \/ Write(t)
    \/ Return(t)

Next == Tick \/ \E t \in Threads : Step(t)

Spec == Init /\ [][Next]_vars

-----------------------------------------------------------------------------
(* Between two resets an address gets its rate, and no more than the requests of the
   first second and two more (quota.c:119-123). *)
RateHeld ==
    stale = {} => \A a \in Addresses :
        accepted[a] <= ((rps - 1) * (now - starttime)) \div Sec + (resettime - starttime) \div Sec + 2

=============================================================================
