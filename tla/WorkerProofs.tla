---------------------------- MODULE WorkerProofs ----------------------------
(***************************************************************************)
(* Proofs for what a worker does with a packet before the packet path: it  *)
(* copies the configuration, which is kept whole, in memory and on disk,   *)
(* and whose files implement AtomicFile, for any options, values and       *)
(* workers, wherever the program is stopped and whichever file cannot be   *)
(* opened (SavedFile); the filter it sets up from it hides what the        *)
(* options say (PacketFilter); and it calls a packet a repeat only if the  *)
(* packet was seen before, for any number of threads, hashes and entries   *)
(* of a bucket (PacketTrack).                                              *)
(***************************************************************************)
EXTENDS SavedFile, PacketChecks, TLAPS

(* The table of packets *)

TrackPc ==
    {"idle", "seq", "scan", "found", "rep", "result", "insertseq", "insertrep", "done"}

TrackLocal ==
    [hash : Hashes \cup {0}, i : 0 .. BucketSize, j : Track!Entry, reg : Nat, repeat : Nat]

TrackEntry == [hash : Hashes \cup {0}, seq : Nat, rep : Nat]

TrackTypeOK ==
    /\ bucket \in [Track!Entry -> TrackEntry] /\ seq \in Nat /\ seen \in [Hashes -> Nat]
    /\ t_pc \in [Threads -> TrackPc] /\ local \in [Threads -> TrackLocal]

Active(t) == t_pc[t] # "idle"
AtEntry(t) == t_pc[t] \in {"found", "rep", "result"}

(* A thread works on a packet, and on an entry of the table once it has found it there. *)
Works ==
    \A t \in Threads :
        /\ Active(t) => local[t].hash \in Hashes
        /\ AtEntry(t) => local[t].i \in Track!Entry
        /\ t_pc[t] \notin {"done"} => local[t].repeat = 0

(* A packet that a thread works on was captured, and one in the table was; *)
SeenOnce ==
    /\ \A t \in Threads : Active(t) => seen[local[t].hash] > 0
    /\ \A x \in Track!Entry : bucket[x].hash \in Hashes => seen[bucket[x].hash] > 0

(* one that two threads work on was captured twice, and so was one that is in the table
   before the thread has put it there, and one that was found. *)
SharedTwice ==
    \A t, u \in Threads :
        t # u /\ Active(t) /\ Active(u) /\ local[t].hash = local[u].hash => seen[local[t].hash] > 1
TableTwice ==
    \A t \in Threads, x \in Track!Entry :
        t_pc[t] \in {"seq", "scan"} /\ bucket[x].hash = local[t].hash => seen[local[t].hash] > 1
FoundTwice ==
    \A t \in Threads :
        Active(t) /\ (AtEntry(t) \/ local[t].repeat > 0) => seen[local[t].hash] > 1

TrackInv == TrackTypeOK /\ Works /\ SeenOnce /\ SharedTwice /\ TableTwice /\ FoundTwice

(* The entries of a bucket, and of none *)
LEMMA TrackEntries == 0 \in Track!Entry /\ Track!Entry \subseteq 0 .. BucketSize /\ 0 \in 0 .. BucketSize
  BY TrackAssumption DEF Track!Entry

LEMMA TrackInit == Track!Init => TrackInv
<1> SUFFICES ASSUME Track!Init PROVE TrackInv
  BY Zenon
<1>1. Track!NoLocal \in TrackLocal
  BY TrackEntries, Zenon DEF Track!NoLocal, TrackLocal
<1>2. local \in [Threads -> TrackLocal] /\ \A t \in Threads : local[t].repeat = 0
  BY <1>1, Zenon DEF Track!Init, Track!NoLocal
<1>3. t_pc \in [Threads -> TrackPc] /\ \A t \in Threads : t_pc[t] = "idle"
  BY Zenon DEF Track!Init, TrackPc
<1>4. bucket \in [Track!Entry -> TrackEntry] /\ \A x \in Track!Entry : bucket[x].hash = 0
  BY Zenon DEF Track!Init, TrackEntry
<1>5. seq \in Nat /\ seen \in [Hashes -> Nat]
  BY Zenon DEF Track!Init
<1>6. 0 \notin Hashes
  BY TrackAssumption, Zenon
<1>7. TrackTypeOK
  BY <1>2, <1>3, <1>4, <1>5, Zenon DEF TrackTypeOK
<1>8. Works
  BY <1>2, <1>3, Zenon DEF Works, Active, AtEntry
<1>9. SeenOnce /\ SharedTwice /\ TableTwice /\ FoundTwice
  BY <1>3, <1>4, <1>6, Zenon DEF SeenOnce, SharedTwice, TableTwice, FoundTwice, Active
<1>10. QED
  BY <1>7, <1>8, <1>9, Zenon DEF TrackInv

(* The steps of packet_track keep the types, *)
LEMMA TrackTypes ==
    ASSUME TrackInv, NEW t \in Threads,
           \/ Track!Call(t) \/ Track!Count(t) \/ Track!Scan(t) \/ Track!Found(t) \/ Track!Rep(t)
           \/ Track!Result(t) \/ Track!InsertHash(t) \/ Track!InsertSeq(t) \/ Track!InsertRep(t)
           \/ Track!Return(t)
    PROVE  TrackTypeOK'
<1>a. /\ bucket \in [Track!Entry -> TrackEntry] /\ seq \in Nat /\ seen \in [Hashes -> Nat]
      /\ t_pc \in [Threads -> TrackPc] /\ local \in [Threads -> TrackLocal]
  BY Zenon DEF TrackInv, TrackTypeOK
<1>b. local[t] \in TrackLocal
  BY <1>a, Zenon
<1>c. /\ local[t].hash \in Hashes \cup {0} /\ local[t].i \in 0 .. BucketSize /\ local[t].j \in Track!Entry
      /\ local[t].reg \in Nat /\ local[t].repeat \in Nat
  BY <1>b, Zenon DEF TrackLocal
<1>d. AtEntry(t) => local[t].i \in Track!Entry
  BY Zenon DEF TrackInv, Works
<1>e. \A x \in Track!Entry : bucket[x] \in TrackEntry /\ bucket[x].seq \in Nat /\ bucket[x].rep \in Nat
  BY <1>a, Zenon DEF TrackEntry
<1> DEFINE Table == bucket' \in [Track!Entry -> TrackEntry]
           Numbers == seq' \in Nat /\ seen' \in [Hashes -> Nat]
           Control == t_pc' \in [Threads -> TrackPc]
           Locals == local' \in [Threads -> TrackLocal]
<1> SUFFICES Table /\ Numbers /\ Control /\ Locals
  BY Zenon DEF TrackTypeOK
<1>f. Control
  BY <1>a, Zenon DEF TrackPc, Track!Go, Track!Call, Track!Count, Track!Scan, Track!Found, Track!Rep, Track!Result,
     Track!InsertHash, Track!InsertSeq, Track!InsertRep, Track!Return
<1>1. CASE Track!Call(t)
  <2>1. PICK h \in Hashes :
          /\ local' = [local EXCEPT ![t] = [Track!NoLocal EXCEPT !.hash = h, !.reg = seq]]
          /\ seen' = [seen EXCEPT ![h] = seen[h] + 1]
    BY <1>1, Zenon DEF Track!Call
  <2>2. [Track!NoLocal EXCEPT !.hash = h, !.reg = seq] \in TrackLocal
    BY <1>a, TrackEntries, Zenon DEF Track!NoLocal, TrackLocal
  <2>3. Numbers
    <3>1. seq' = seq
      BY <1>1, Zenon DEF Track!Call
    <3>2. seen' \in [Hashes -> Nat]
      BY <1>a, <2>1
    <3>3. QED
      BY <1>a, <3>1, <3>2, Zenon
  <2>4. Locals
    BY <1>a, <2>1, <2>2, Zenon
  <2>5. QED
    BY <1>1, <1>a, <1>f, <2>3, <2>4, Zenon DEF Track!Call
<1>2. CASE Track!Count(t)
  <2>1. seq' \in Nat
    BY <1>2, <1>c DEF Track!Count
  <2>2. QED
    BY <1>2, <1>a, <1>f, <2>1, Zenon DEF Track!Count
<1>3. CASE Track!Scan(t)
  <2>1. local[t].i + 1 \in 0 .. BucketSize /\ local[t].i \in Track!Entry
    BY <1>3, <1>c, TrackAssumption DEF Track!Scan, Track!Entry
  <2> DEFINE n == local[t].i + 1
             m == IF seq # bucket[local[t].i].seq THEN local[t].i ELSE local[t].j
  <2>2. m \in Track!Entry /\ n \in 0 .. BucketSize
    BY <1>c, <2>1, Zenon
  <2>3. local' \in {local, [local EXCEPT ![t] = [local[t] EXCEPT !.i = n, !.j = m]]}
    BY <1>3, Zenon DEF Track!Scan
  <2> HIDE DEF n, m
  <2>4. [local[t] EXCEPT !.i = n, !.j = m] \in TrackLocal
    BY <1>b, <2>2, Zenon DEF TrackLocal
  <2>5. Locals
    BY <1>a, <2>3, <2>4, Zenon
  <2>6. QED
    BY <1>3, <1>a, <1>f, <2>5, Zenon DEF Track!Scan
<1>4. CASE Track!Found(t)
  <2>1. local[t].i \in Track!Entry
    BY <1>4, <1>d, Zenon DEF Track!Found, AtEntry
  <2>2. Table
    BY <1>4, <1>a, <1>e, <2>1, Zenon DEF Track!Found, TrackEntry
  <2>3. Locals
    BY <1>4, <1>a, <1>b, <1>e, <2>1, Zenon DEF Track!Found, TrackLocal
  <2>4. QED
    BY <1>4, <1>a, <1>f, <2>2, <2>3, Zenon DEF Track!Found
<1>5. CASE Track!Rep(t)
  <2>1. local[t].i \in Track!Entry
    BY <1>5, <1>d, Zenon DEF Track!Rep, AtEntry
  <2> DEFINE r == (local[t].reg + 1) % RepMod
  <2>2. r \in Nat
    BY <1>c, TrackAssumption
  <2>3. bucket' = [bucket EXCEPT ![local[t].i].rep = r]
    BY <1>5, Zenon DEF Track!Rep
  <2> HIDE DEF r
  <2>4. Table
    BY <1>a, <1>e, <2>1, <2>2, <2>3 DEF TrackEntry
  <2>5. QED
    BY <1>5, <1>a, <1>f, <2>4, Zenon DEF Track!Rep
<1>6. CASE Track!Result(t)
  <2>1. local[t].i \in Track!Entry
    BY <1>6, <1>d, Zenon DEF Track!Result, AtEntry
  <2>2. Locals
    BY <1>6, <1>a, <1>b, <1>e, <2>1, Zenon DEF Track!Result, TrackLocal
  <2>3. QED
    BY <1>6, <1>a, <1>f, <2>2, Zenon DEF Track!Result
<1>7. CASE Track!InsertHash(t)
  <2>1. Table
    BY <1>7, <1>a, <1>c, <1>e DEF Track!InsertHash, TrackEntry
  <2>2. QED
    BY <1>7, <1>a, <1>f, <2>1, Zenon DEF Track!InsertHash
<1>8. CASE Track!InsertSeq(t)
  <2>1. Table
    BY <1>8, <1>a, <1>c, <1>e DEF Track!InsertSeq, TrackEntry
  <2>2. QED
    BY <1>8, <1>a, <1>f, <2>1, Zenon DEF Track!InsertSeq
<1>9. CASE Track!InsertRep(t)
  <2>1. Table
    BY <1>9, <1>a, <1>c, <1>e DEF Track!InsertRep, TrackEntry
  <2>2. QED
    BY <1>9, <1>a, <1>f, <2>1, Zenon DEF Track!InsertRep
<1>10. CASE Track!Return(t)
  <2>1. Track!NoLocal \in TrackLocal
    BY TrackEntries, Zenon DEF Track!NoLocal, TrackLocal
  <2>2. Locals
    BY <1>10, <1>a, <2>1, Zenon DEF Track!Return
  <2>3. QED
    BY <1>10, <1>a, <1>f, <2>2, Zenon DEF Track!Return
<1>11. QED
  BY <1>1, <1>2, <1>3, <1>4, <1>5, <1>6, <1>7, <1>8, <1>9, <1>10, Zenon

(* and what is known of the packets.  Of a step only the hashes count that a thread or the
   table has after it, and the place of the thread. *)
LEMMA TrackFrame ==
    ASSUME TrackInv, TrackTypeOK', NEW t \in Threads, seen' = seen,
           \A x \in Track!Entry : bucket'[x].hash = bucket[x].hash,
           \A u \in Threads \ {t} : t_pc'[u] = t_pc[u] /\ local'[u] = local[u],
           Active(t)' => local'[t].hash = local[t].hash /\ Active(t),
           t_pc'[t] \in {"seq", "scan"} => t_pc[t] \in {"seq", "scan"},
           AtEntry(t)' => local'[t].i \in Track!Entry /\ seen[local[t].hash] > 1,
           t_pc'[t] # "done" => local'[t].repeat = 0,
           t_pc'[t] = "done" /\ local'[t].repeat > 0 => seen[local[t].hash] > 1
    PROVE  TrackInv'
<1> USE DEF Active, AtEntry
<1>a. Works /\ SeenOnce /\ SharedTwice /\ TableTwice /\ FoundTwice
  BY Zenon DEF TrackInv
<1>b. \A u \in Threads : Active(u)' => Active(u) /\ local'[u].hash = local[u].hash
  BY Zenon
<1>c. \A u \in Threads : t_pc'[u] \in {"seq", "scan"} => t_pc[u] \in {"seq", "scan"}
  BY Zenon
<1>1. Works'
  <2> SUFFICES ASSUME NEW u \in Threads
               PROVE  /\ Active(u)' => local'[u].hash \in Hashes
                      /\ AtEntry(u)' => local'[u].i \in Track!Entry
                      /\ t_pc'[u] \notin {"done"} => local'[u].repeat = 0
    BY Zenon DEF Works
  <2>1. CASE u = t
    BY <1>a, <2>1, Zenon DEF Works
  <2>2. CASE u # t
    BY <1>a, <2>2, Zenon DEF Works
  <2>3. QED
    BY <2>1, <2>2, Zenon
<1>2. SeenOnce'
  BY <1>a, <1>b, Zenon DEF SeenOnce
<1>3. SharedTwice'
  <2> SUFFICES ASSUME NEW v \in Threads, NEW u \in Threads, v # u, Active(v)', Active(u)',
                      local'[v].hash = local'[u].hash
               PROVE  seen'[local'[v].hash] > 1
    BY Zenon DEF SharedTwice
  <2>1. Active(v) /\ Active(u) /\ local'[v].hash = local[v].hash /\ local[v].hash = local[u].hash
    BY <1>b, Zenon
  <2>2. seen[local[v].hash] > 1
    BY <1>a, <2>1, Zenon DEF SharedTwice
  <2>3. QED
    BY <2>1, <2>2, Zenon
<1>4. TableTwice'
  <2> SUFFICES ASSUME NEW v \in Threads, NEW x \in Track!Entry, t_pc'[v] \in {"seq", "scan"},
                      bucket'[x].hash = local'[v].hash
               PROVE  seen'[local'[v].hash] > 1
    BY Zenon DEF TableTwice
  <2>1. Active(v)' /\ t_pc[v] \in {"seq", "scan"}
    BY <1>c, Zenon
  <2>2. local'[v].hash = local[v].hash
    BY <1>b, <2>1, Zenon
  <2>3. seen[local[v].hash] > 1
    BY <1>a, <2>1, <2>2, Zenon DEF TableTwice
  <2>4. QED
    BY <2>2, <2>3, Zenon
<1>5. FoundTwice'
  <2> SUFFICES ASSUME NEW v \in Threads, Active(v)', AtEntry(v)' \/ local'[v].repeat > 0
               PROVE  seen'[local'[v].hash] > 1
    BY Zenon DEF FoundTwice
  <2>1. CASE v # t
    BY <1>a, <2>1, Zenon DEF FoundTwice
  <2>2. CASE v = t
    <3>1. AtEntry(t)' \/ t_pc'[t] = "done"
      BY <2>2
    <3>2. QED
      BY <2>2, <3>1, Zenon
  <2>3. QED
    BY <2>1, <2>2, Zenon
<1>6. QED
  BY <1>1, <1>2, <1>3, <1>4, <1>5, Zenon DEF TrackInv

(* A packet that is captured is counted. *)
LEMMA TrackCall ==
    ASSUME TrackInv, TrackTypeOK', NEW t \in Threads, Track!Call(t)
    PROVE  TrackInv'
<1> USE DEF Active, AtEntry
<1>a. Works /\ SeenOnce /\ SharedTwice /\ TableTwice /\ FoundTwice
  BY Zenon DEF TrackInv
<1>b. /\ seen \in [Hashes -> Nat] /\ t_pc \in [Threads -> TrackPc] /\ local \in [Threads -> TrackLocal]
  BY Zenon DEF TrackInv, TrackTypeOK
<1>1. PICK h \in Hashes :
        /\ local' = [local EXCEPT ![t] = [Track!NoLocal EXCEPT !.hash = h, !.reg = seq]]
        /\ seen' = [seen EXCEPT ![h] = seen[h] + 1]
  BY Zenon DEF Track!Call
<1>2. t_pc[t] = "idle" /\ t_pc' = [t_pc EXCEPT ![t] = "seq"] /\ bucket' = bucket
  BY Zenon DEF Track!Call, Track!Go
<1>3. local'[t].hash = h /\ local'[t].repeat = 0 /\ t_pc'[t] = "seq"
  BY <1>b, <1>1, <1>2, Zenon DEF Track!NoLocal
<1>4. \A u \in Threads \ {t} : t_pc'[u] = t_pc[u] /\ local'[u] = local[u]
  BY <1>b, <1>1, <1>2, Zenon
<1>5. /\ \A g \in Hashes : (seen[g] > 0 => seen'[g] > 0) /\ (seen[g] > 1 => seen'[g] > 1)
      /\ seen'[h] > 0 /\ (seen[h] > 0 => seen'[h] > 1)
  <2>1. \A g \in Hashes : seen[g] \in Nat /\ seen'[g] = IF g = h THEN seen[h] + 1 ELSE seen[g]
    BY <1>b, <1>1, Zenon
  <2>2. QED
    BY <2>1
<1>6. \A u \in Threads \ {t} : Active(u)' => Active(u) /\ local[u].hash \in Hashes
  BY <1>a, <1>4, Zenon DEF Works
<1>7. Works'
  <2>1. Active(t)' /\ ~AtEntry(t)'
    BY <1>3, Zenon
  <2>2. QED
    BY <1>a, <1>3, <1>4, <2>1, Zenon DEF Works
<1>8. SeenOnce'
  <2>1. \A u \in Threads : (Active(u) => seen[local[u].hash] > 0)'
    BY <1>a, <1>3, <1>4, <1>5, <1>6, Zenon DEF SeenOnce
  <2>2. QED
    BY <1>a, <1>2, <1>5, <2>1, Zenon DEF SeenOnce
<1>9. SharedTwice'
  <2> SUFFICES ASSUME NEW v \in Threads, NEW u \in Threads, v # u, Active(v)', Active(u)',
                      local'[v].hash = local'[u].hash
               PROVE  seen'[local'[v].hash] > 1
    BY Zenon DEF SharedTwice
  <2>1. CASE v = t
    <3>1. Active(u) /\ local[u].hash = h /\ local'[v].hash = h
      BY <1>3, <1>4, <1>6, <2>1, Zenon
    <3>2. QED
      BY <1>a, <1>5, <3>1, Zenon DEF SeenOnce
  <2>2. CASE u = t
    <3>1. Active(v) /\ local[v].hash = h /\ local'[v].hash = h
      BY <1>3, <1>4, <1>6, <2>2, Zenon
    <3>2. QED
      BY <1>a, <1>5, <3>1, Zenon DEF SeenOnce
  <2>3. CASE v # t /\ u # t
    <3>1. /\ Active(v) /\ Active(u) /\ local'[v].hash = local[v].hash /\ local[v].hash = local[u].hash
          /\ local[v].hash \in Hashes
      BY <1>4, <1>6, <2>3, Zenon
    <3>2. seen[local[v].hash] > 1
      BY <1>a, <3>1, Zenon DEF SharedTwice
    <3>3. QED
      BY <1>5, <3>1, <3>2, Zenon
  <2>4. QED
    BY <2>1, <2>2, <2>3, Zenon
<1>10. TableTwice'
  <2> SUFFICES ASSUME NEW v \in Threads, NEW x \in Track!Entry, t_pc'[v] \in {"seq", "scan"},
                      bucket'[x].hash = local'[v].hash
               PROVE  seen'[local'[v].hash] > 1
    BY Zenon DEF TableTwice
  <2>1. CASE v = t
    BY <1>a, <1>2, <1>3, <1>5, <2>1, Zenon DEF SeenOnce
  <2>2. CASE v # t
    <3>1. Active(v)'
      BY Zenon
    <3>2. /\ t_pc[v] \in {"seq", "scan"} /\ bucket[x].hash = local[v].hash
          /\ local'[v].hash = local[v].hash /\ local[v].hash \in Hashes
      BY <1>2, <1>4, <1>6, <2>2, <3>1, Zenon
    <3>3. seen[local[v].hash] > 1
      BY <1>a, <3>2, Zenon DEF TableTwice
    <3>4. QED
      BY <1>5, <3>2, <3>3, Zenon
  <2>3. QED
    BY <2>1, <2>2, Zenon
<1>11. FoundTwice'
  <2> SUFFICES ASSUME NEW v \in Threads, Active(v)', AtEntry(v)' \/ local'[v].repeat > 0
               PROVE  seen'[local'[v].hash] > 1
    BY Zenon DEF FoundTwice
  <2>1. CASE v = t
    BY <1>3, <2>1
  <2>2. CASE v # t
    BY <1>a, <1>4, <1>5, <1>6, <2>2, Zenon DEF FoundTwice
  <2>3. QED
    BY <2>1, <2>2, Zenon
<1>12. QED
  BY <1>7, <1>8, <1>9, <1>10, <1>11, Zenon DEF TrackInv

(* An entry that is replaced gets the hash of a packet that was captured. *)
LEMMA TrackInsert ==
    ASSUME TrackInv, TrackTypeOK', NEW t \in Threads, Track!InsertHash(t)
    PROVE  TrackInv'
<1> USE DEF Active, AtEntry
<1>a. Works /\ SeenOnce /\ SharedTwice /\ TableTwice /\ FoundTwice
  BY Zenon DEF TrackInv
<1>b. /\ bucket \in [Track!Entry -> TrackEntry] /\ t_pc \in [Threads -> TrackPc]
      /\ local[t] \in TrackLocal
  BY Zenon DEF TrackInv, TrackTypeOK
<1> DEFINE j == local[t].j
           h == local[t].hash
<1>1. /\ t_pc[t] = "scan" /\ t_pc' = [t_pc EXCEPT ![t] = "insertseq"]
      /\ bucket' = [bucket EXCEPT ![j] = [bucket[j] EXCEPT !.hash = h]]
      /\ local' = local /\ seen' = seen
  BY Zenon DEF Track!InsertHash, Track!Go
<1>2. j \in Track!Entry
  BY <1>b, Zenon DEF TrackLocal
<1>3. \A x \in Track!Entry : bucket'[x].hash = IF x = j THEN h ELSE bucket[x].hash
  BY <1>b, <1>1, <1>2, Zenon DEF TrackEntry
<1> HIDE DEF j, h
<1>4. t_pc'[t] = "insertseq" /\ \A u \in Threads \ {t} : t_pc'[u] = t_pc[u]
  BY <1>b, <1>1, Zenon
<1>5. Active(t) /\ Active(t)' /\ ~AtEntry(t)' /\ t_pc'[t] \notin {"seq", "scan", "done"}
      /\ local[t].repeat = 0
  <2>1. t_pc[t] \notin {"done"}
    BY <1>1, Zenon
  <2>2. QED
    BY <1>1, <1>4, <1>a, <2>1, Zenon DEF Works
<1>6. h \in Hashes /\ seen[h] > 0
  BY <1>a, <1>5, Zenon DEF Works, SeenOnce, h
<1>7. \A u \in Threads : Active(u)' => Active(u)
  BY <1>4, <1>5, Zenon
<1>8. Works'
  BY <1>a, <1>1, <1>4, <1>5, <1>7, Zenon DEF Works
<1>9. SeenOnce'
  BY <1>a, <1>1, <1>3, <1>6, <1>7, Zenon DEF SeenOnce
<1>10. SharedTwice'
  BY <1>a, <1>1, <1>7, Zenon DEF SharedTwice
<1>11. TableTwice'
  <2> SUFFICES ASSUME NEW v \in Threads, NEW x \in Track!Entry, t_pc'[v] \in {"seq", "scan"},
                      bucket'[x].hash = local'[v].hash
               PROVE  seen'[local'[v].hash] > 1
    BY Zenon DEF TableTwice
  <2>1. v # t /\ Active(v)' /\ t_pc[v] \in {"seq", "scan"}
    BY <1>4, <1>5, Zenon
  <2>2. CASE x = j
    <3>1. local[v].hash = local[t].hash /\ Active(v)
      BY <1>1, <1>3, <1>7, <2>1, <2>2, Zenon DEF h
    <3>2. QED
      BY <1>a, <1>1, <1>5, <2>1, <3>1, Zenon DEF SharedTwice
  <2>3. CASE x # j
    <3>1. bucket[x].hash = local[v].hash
      BY <1>1, <1>3, <2>3, Zenon
    <3>2. QED
      BY <1>a, <1>1, <2>1, <3>1, Zenon DEF TableTwice
  <2>4. QED
    BY <2>2, <2>3, Zenon
<1>12. FoundTwice'
  BY <1>a, <1>1, <1>4, <1>5, Zenon DEF FoundTwice
<1>13. QED
  BY <1>8, <1>9, <1>10, <1>11, <1>12, Zenon DEF TrackInv

(* The other steps change no hash. *)
LEMMA TrackOther ==
    ASSUME TrackInv, TrackTypeOK', NEW t \in Threads,
           \/ Track!Count(t) \/ Track!Scan(t) \/ Track!Found(t) \/ Track!Rep(t) \/ Track!Result(t)
           \/ Track!InsertSeq(t) \/ Track!InsertRep(t) \/ Track!Return(t)
    PROVE  TrackInv'
<1> USE DEF Active, AtEntry
<1>a. Works /\ SeenOnce /\ TableTwice /\ FoundTwice
  BY Zenon DEF TrackInv
<1>b. /\ bucket \in [Track!Entry -> TrackEntry] /\ t_pc \in [Threads -> TrackPc]
      /\ local \in [Threads -> TrackLocal] /\ local[t] \in TrackLocal
  BY Zenon DEF TrackInv, TrackTypeOK
<1>c. seen' = seen
  BY Zenon DEF Track!Count, Track!Scan, Track!Found, Track!Rep, Track!Result, Track!InsertSeq,
     Track!InsertRep, Track!Return
<1>d. \A x \in Track!Entry : bucket'[x].hash = bucket[x].hash
  <2>1. \/ bucket' = bucket
        \/ \E e, v : \/ bucket' = [bucket EXCEPT ![e] = [bucket[e] EXCEPT !.seq = v]]
                    \/ bucket' = [bucket EXCEPT ![e] = [bucket[e] EXCEPT !.rep = v]]
    BY Zenon DEF Track!Count, Track!Scan, Track!Found, Track!Rep, Track!Result, Track!InsertSeq,
       Track!InsertRep, Track!Return
  <2>2. ASSUME NEW e, NEW v, bucket' = [bucket EXCEPT ![e] = [bucket[e] EXCEPT !.seq = v]]
        PROVE  \A x \in Track!Entry : bucket'[x].hash = bucket[x].hash
    BY <1>b, <2>2, Zenon DEF TrackEntry
  <2>3. ASSUME NEW e, NEW v, bucket' = [bucket EXCEPT ![e] = [bucket[e] EXCEPT !.rep = v]]
        PROVE  \A x \in Track!Entry : bucket'[x].hash = bucket[x].hash
    BY <1>b, <2>3, Zenon DEF TrackEntry
  <2>4. QED
    BY <2>1, <2>2, <2>3, Zenon
<1>e. \A u \in Threads \ {t} : t_pc'[u] = t_pc[u] /\ local'[u] = local[u]
  BY <1>b, Zenon DEF Track!Go, Track!Count, Track!Scan, Track!Found, Track!Rep, Track!Result,
     Track!InsertSeq, Track!InsertRep, Track!Return
<1> DEFINE Here == /\ Active(t)' => local'[t].hash = local[t].hash /\ Active(t)
                   /\ t_pc'[t] \in {"seq", "scan"} => t_pc[t] \in {"seq", "scan"}
                   /\ AtEntry(t)' => local'[t].i \in Track!Entry /\ seen[local[t].hash] > 1
                   /\ t_pc'[t] # "done" => local'[t].repeat = 0
                   /\ t_pc'[t] = "done" /\ local'[t].repeat > 0 => seen[local[t].hash] > 1
<1> SUFFICES Here
  BY <1>c, <1>d, <1>e, TrackFrame, Zenon
<1>f. t_pc[t] # "done" => local[t].repeat = 0
  BY <1>a, Zenon DEF Works
<1>g. AtEntry(t) => local[t].i \in Track!Entry /\ seen[local[t].hash] > 1
  <2>1. AtEntry(t) => Active(t)
    BY Zenon
  <2>2. QED
    BY <1>a, <2>1, Zenon DEF Works, FoundTwice
<1>1. CASE Track!Count(t)
  <2>1. t_pc[t] = "seq" /\ t_pc'[t] = "scan" /\ local' = local
    BY <1>1, <1>b, Zenon DEF Track!Count, Track!Go
  <2>2. QED
    BY <1>f, <2>1, Zenon
<1>2. CASE Track!Scan(t)
  <2>1. t_pc[t] = "scan" /\ local[t].repeat = 0
    BY <1>2, <1>f, Zenon DEF Track!Scan
  <2>2. CASE bucket[local[t].i].hash = local[t].hash
    <3>1. t_pc'[t] = "found" /\ local' = local
      BY <1>2, <1>b, <2>2, Zenon DEF Track!Scan, Track!Go
    <3>2. local[t].i \in Track!Entry
      <4>1. local[t].i < BucketSize
        BY <1>2, Zenon DEF Track!Scan
      <4>2. local[t].i \in 0 .. BucketSize
        BY <1>b, Zenon DEF TrackLocal
      <4>3. QED
        BY <4>1, <4>2, TrackAssumption DEF Track!Entry
    <3>3. seen[local[t].hash] > 1
      BY <1>a, <2>1, <2>2, <3>2, Zenon DEF TableTwice
    <3>4. QED
      BY <2>1, <3>1, <3>2, <3>3, Zenon
  <2>3. CASE bucket[local[t].i].hash # local[t].hash
    <3> DEFINE r == local[t]
    <3>1. PICK n, m : t_pc' = t_pc /\ local' = [local EXCEPT ![t] = [r EXCEPT !.i = n, !.j = m]]
      BY <1>2, <2>3, Zenon DEF Track!Scan
    <3>2. local'[t].hash = local[t].hash /\ local'[t].repeat = local[t].repeat
      BY <1>b, <3>1, Zenon DEF TrackLocal
    <3>3. QED
      BY <2>1, <3>1, <3>2, Zenon
  <2>4. QED
    BY <2>2, <2>3, Zenon
<1>3. CASE Track!Found(t)
  <2>1. t_pc[t] = "found" /\ t_pc'[t] = "rep"
    BY <1>3, <1>b, Zenon DEF Track!Found, Track!Go
  <2>2. /\ local'[t].hash = local[t].hash /\ local'[t].i = local[t].i
        /\ local'[t].repeat = local[t].repeat
    BY <1>3, <1>b, Zenon DEF Track!Found, TrackLocal
  <2>3. QED
    BY <1>f, <1>g, <2>1, <2>2, Zenon
<1>4. CASE Track!Rep(t)
  <2>1. t_pc[t] = "rep" /\ t_pc'[t] = "result" /\ local' = local
    BY <1>4, <1>b, Zenon DEF Track!Rep, Track!Go
  <2>2. QED
    BY <1>f, <1>g, <2>1, Zenon
<1>5. CASE Track!Result(t)
  <2>1. t_pc[t] = "result" /\ t_pc'[t] = "done"
    BY <1>5, <1>b, Zenon DEF Track!Result, Track!Go
  <2>2. local'[t].hash = local[t].hash
    BY <1>5, <1>b, Zenon DEF Track!Result, TrackLocal
  <2>3. QED
    BY <1>g, <2>1, <2>2, Zenon
<1>6. CASE Track!InsertSeq(t)
  <2>1. t_pc[t] = "insertseq" /\ t_pc'[t] = "insertrep" /\ local' = local
    BY <1>6, <1>b, Zenon DEF Track!InsertSeq, Track!Go
  <2>2. QED
    BY <1>f, <2>1, Zenon
<1>7. CASE Track!InsertRep(t)
  <2>1. t_pc[t] = "insertrep" /\ t_pc'[t] = "done" /\ local' = local
    BY <1>7, <1>b, Zenon DEF Track!InsertRep, Track!Go
  <2>2. QED
    BY <1>f, <2>1
<1>8. CASE Track!Return(t)
  <2>1. t_pc'[t] = "idle" /\ local'[t].repeat = 0
    BY <1>8, <1>b, Zenon DEF Track!Return, Track!Go, Track!NoLocal
  <2>2. QED
    BY <2>1, Zenon
<1>9. QED
  BY <1>1, <1>2, <1>3, <1>4, <1>5, <1>6, <1>7, <1>8, Zenon

(* packet_track takes no packet for a repeat that was captured only once, whatever any number
   of threads do in the table at the same time: without a lock it may miss a repeat and no
   more (packet_track.c:48-49). *)
THEOREM RepeatsWereSeen == Track!Spec => []NoFalsePositive
<1>1. TrackInv /\ [Track!Next]_(Track!vars) => TrackInv'
  <2> SUFFICES ASSUME TrackInv, [Track!Next]_(Track!vars) PROVE TrackInv'
    BY Zenon
  <2>1. CASE UNCHANGED Track!vars
    BY <2>1, Zenon DEF Track!vars, TrackInv, TrackTypeOK, Works, SeenOnce, SharedTwice, TableTwice,
       FoundTwice, Active, AtEntry
  <2>2. CASE Track!Next
    <3>1. PICK t \in Threads :
            \/ Track!Call(t) \/ Track!Count(t) \/ Track!Scan(t) \/ Track!Found(t) \/ Track!Rep(t)
            \/ Track!Result(t) \/ Track!InsertHash(t) \/ Track!InsertSeq(t) \/ Track!InsertRep(t)
            \/ Track!Return(t)
      BY <2>2, Zenon DEF Track!Next
    <3>2. TrackTypeOK'
      BY <3>1, TrackTypes, Zenon
    <3>3. QED
      BY <3>1, <3>2, TrackCall, TrackInsert, TrackOther, Zenon
  <2>3. QED
    BY <2>1, <2>2, Zenon
<1>2. TrackInv => NoFalsePositive
  <2> SUFFICES ASSUME TrackInv, NEW t \in Threads, t_pc[t] = "done", local[t].repeat > 0
               PROVE  seen[local[t].hash] > 1
    BY Zenon DEF NoFalsePositive, Track!NoFalsePositive, Track!Done
  <2>1. Active(t)
    BY Zenon DEF Active
  <2>2. QED
    BY <2>1, Zenon DEF TrackInv, FoundTwice
<1>3. QED
  BY <1>1, <1>2, TrackInit, PTL DEF Track!Spec

-----------------------------------------------------------------------------
(* The configuration *)

(* A file of the defaults, which may have been cut off: what install_file leaves. *)
Partial(file) == \A o \in DOMAIN file : file[o] = DefaultVal

(* A file a start may read is a part of the defaults or one whole configuration. *)
Sound(file) == file = None \/ Partial(file) \/ file \in Setting

FilesSound ==
    /\ Sound(disk["file"]) /\ Sound(disk["bak"])
    /\ main = "install" => disk["file"] = None
    /\ main = "fputs" => disk["file"] # None /\ Partial(disk["file"])

(* The temporary file has the first options of the configuration being saved. *)
TmpOfTemp ==
    /\ main \in {"fprintf", "rename"} =>
         /\ disk["tmp"] # None
         /\ \A o \in DOMAIN disk["tmp"] : disk["tmp"][o] = temp[o]
    /\ main = "rename" => DOMAIN disk["tmp"] = Option

(* What was loaded or saved last is what read_config would read. *)
SavedOnDisk == Running => saved = load_config(ReadFrom, config_default)

(* The mutex: memmove of a save and the copies of the workers exclude each other,
   so that a worker copies from a configuration that is whole and stays. *)
LockHeld ==
    /\ main = "memmove" <=> config_lock = "main"
    /\ \A w \in Worker : got[w] # None <=> config_lock = w
    /\ main # "memmove" => config \in Setting

CopyOfConfig ==
    \A w \in Worker : got[w] # None =>
      Running /\ \A o \in DOMAIN got[w] : got[w][o] = config[o]

Inv == TypeOK /\ FilesSound /\ TmpOfTemp /\ SavedOnDisk /\ LockHeld /\ CopyOfConfig

-----------------------------------------------------------------------------
(* Files *)

LEMMA ContentsAre ==
    \A f : f \in Contents <=> \E O \in SUBSET Option : f \in [O -> Value]
  BY Zenon DEF Contents

(* A configuration is a file with all the options; the defaults are one. *)
LEMMA SettingFacts ==
    /\ \A f \in Setting : /\ f \in [Option -> Value] /\ f \in Contents
                          /\ DOMAIN f = Option /\ f # None
    /\ config_default \in Setting
  <1>1. \A f \in Setting : f \in [Option -> Value]
    BY Zenon DEF Setting
  <1>2. \A f \in Setting : f \in Contents
    BY <1>1, ContentsAre, Zenon
  <1> QED BY <1>1, <1>2, ValueAssumption, Zenon DEF Setting, config_default

LEMMA EmptyFacts == Empty \in Contents /\ Empty # None /\ Partial(Empty) /\ DOMAIN Empty = {}
  <1>1. Empty \in [{} -> Value] /\ DOMAIN Empty = {}
    BY Zenon DEF Empty
  <1>2. Empty \in Contents
    BY <1>1, ContentsAre, Zenon
  <1> QED BY <1>1, <1>2, ValueAssumption, Zenon DEF Partial

(* A file with one more option is a file. *)
LEMMA PutContents ==
    \A f \in Contents : \A o \in Option : \A g :
      g[o] \in Value => Put(f, o, g) \in Contents /\ Put(f, o, g) # None
  <1> SUFFICES ASSUME NEW f \in Contents, NEW o \in Option, NEW g, g[o] \in Value
               PROVE  Put(f, o, g) \in Contents /\ Put(f, o, g) # None
    BY Zenon
  <1>1. PICK O \in SUBSET Option : f \in [O -> Value]
    BY ContentsAre, Zenon
  <1>2. Put(f, o, g) \in [O \cup {o} -> Value]
    BY <1>1, Zenon DEF Put
  <1>3. Put(f, o, g) \in Contents
    BY <1>2, ContentsAre, Zenon
  <1> QED BY <1>3, ValueAssumption, Zenon

(* A start that reads a sound file gets the configuration in it, or the defaults. *)
LEMMA LoadSound ==
    ASSUME NEW f, f \in Contents, Partial(f) \/ f \in Setting
    PROVE  /\ load_config(f, config_default) \in Setting
           /\ f \in Setting => load_config(f, config_default) = f
           /\ Partial(f) => load_config(f, config_default) = config_default
  <1>1. ASSUME f \in Setting PROVE load_config(f, config_default) = f
    BY <1>1, SettingFacts, Zenon DEF load_config
  <1>2. ASSUME Partial(f) PROVE load_config(f, config_default) = config_default
    BY <1>2, Zenon DEF load_config, config_default, Partial
  <1> QED BY <1>1, <1>2, SettingFacts, Zenon

(* So it does when it reads what the invariant allows. *)
LEMMA LoadedWhole ==
    ASSUME TypeOK, FilesSound
    PROVE  load_config(ReadFrom, config_default) \in Setting
  <1>1. ReadFrom \in Contents /\ (Partial(ReadFrom) \/ ReadFrom \in Setting)
    BY EmptyFacts, Zenon DEF TypeOK, FilesSound, Sound, ReadFrom
  <1> QED BY <1>1, LoadSound, Zenon

-----------------------------------------------------------------------------
(* The steps keep the invariant *)

LEMMA InvInit == Init => Inv
  <1> SUFFICES ASSUME Init PROVE Inv
    OBVIOUS
  <1>1. TypeOK
    BY SettingFacts, Zenon DEF Init, TypeOK
  <1>2. FilesSound /\ TmpOfTemp /\ SavedOnDisk
    BY Zenon DEF Init, FilesSound, Sound, TmpOfTemp, SavedOnDisk, Running
  <1>3. LockHeld /\ CopyOfConfig
    BY SettingFacts, HolderAssumption, Zenon DEF Init, LockHeld, CopyOfConfig
  <1> QED BY <1>1, <1>2, <1>3, Zenon DEF Inv

(* install_files and install_file: the file is made of defaults, one after the other. *)
LEMMA InvInstall ==
    ASSUME Inv,
           install_files \/ install_file_fopen \/ install_file_fails \/ install_file_fputs
    PROVE  Inv'
  <1> USE DEF Inv
  <1>1. /\ UNCHANGED <<config, config_lock, temp, got, saved>> /\ ~Running /\ ~Running'
        /\ main' \in {"install", "fputs", "read"} /\ main # "memmove"
    BY Zenon DEF install_files, install_file_fopen, install_file_fails, install_file_fputs, Goto,
           Running
  <1>2. /\ disk' \in [{"file", "bak", "tmp"} -> Contents \cup {None}]
        /\ FilesSound'
    <2>1. CASE install_files \/ install_file_fails
      BY <2>1, Zenon DEF install_files, install_file_fails, Goto, TypeOK, FilesSound
    <2>2. CASE install_file_fopen
      BY <2>2, EmptyFacts, Zenon DEF install_file_fopen, Goto, TypeOK, FilesSound, Sound
    <2>3. CASE install_file_fputs
      <3>1. disk["file"] \in Contents /\ Partial(disk["file"])
        BY <2>3, Zenon DEF install_file_fputs, Goto, TypeOK, FilesSound
      <3>2. CASE UNCHANGED disk
        BY <2>3, <3>2, Zenon DEF install_file_fputs, Goto, TypeOK, FilesSound
      <3>3. ASSUME NEW o \in Option,
                   disk' = [disk EXCEPT !["file"] = Put(@, o, config_default)],
                   main' = "fputs"
            PROVE  /\ disk' \in [{"file", "bak", "tmp"} -> Contents \cup {None}]
                   /\ FilesSound'
        <4>1. config_default[o] = DefaultVal /\ DefaultVal \in Value
          BY ValueAssumption, Zenon DEF config_default
        <4> DEFINE file == Put(disk["file"], o, config_default)
        <4>2. file \in Contents /\ file # None
          BY <3>1, <4>1, PutContents, Zenon
        <4>3. Partial(file)
          BY <3>1, <4>1, Zenon DEF Partial, Put
        <4> QED BY <1>1, <3>3, <4>2, <4>3, Zenon DEF TypeOK, FilesSound, Sound
      <3> QED BY <2>3, <3>2, <3>3, Zenon DEF install_file_fputs, Goto
    <2> QED BY <2>1, <2>2, <2>3, Zenon
  <1>3. TypeOK' /\ TmpOfTemp' /\ SavedOnDisk'
    BY <1>1, <1>2, Zenon DEF TypeOK, TmpOfTemp, SavedOnDisk
  <1>4. LockHeld' /\ CopyOfConfig'
    BY <1>1, Zenon DEF LockHeld, CopyOfConfig
  <1> QED BY <1>2, <1>3, <1>4, Zenon

(* read_config, while no worker runs *)
LEMMA InvRead ==
    ASSUME Inv, read_config
    PROVE  Inv'
  <1> USE DEF Inv
  <1>1. /\ UNCHANGED <<disk, config_lock, temp, got>> /\ ~Running
        /\ main = "read" /\ main' = "idle"
        /\ config' = load_config(ReadFrom, config_default) /\ saved' = config'
    BY Zenon DEF read_config, Goto, Running
  <1>2. config' \in Setting
    BY <1>1, LoadedWhole, Zenon
  <1>3. TypeOK'
    BY <1>1, <1>2, SettingFacts, Zenon DEF TypeOK
  <1>4. FilesSound' /\ TmpOfTemp' /\ SavedOnDisk'
    BY <1>1, Zenon DEF FilesSound, TmpOfTemp, SavedOnDisk, ReadFrom
  <1>5. LockHeld' /\ CopyOfConfig'
    BY <1>1, <1>2, Zenon DEF LockHeld, CopyOfConfig
  <1> QED BY <1>3, <1>4, <1>5, Zenon

(* config_callback publishes the posted configuration under the mutex. *)
LEMMA InvCallback ==
    ASSUME Inv, config_callback \/ config_callback_lock \/ config_callback_memmove
    PROVE  Inv'
  <1> USE DEF Inv
  <1>1. /\ UNCHANGED <<disk, got, saved>> /\ Running /\ Running'
        /\ main' \in {"lock", "memmove", "backup"}
        /\ main \notin {"install", "fputs", "fprintf", "rename"}
    BY Zenon DEF config_callback, config_callback_lock, config_callback_memmove, Goto, Running
  <1>2. FilesSound' /\ TmpOfTemp' /\ SavedOnDisk'
    BY <1>1, Zenon DEF FilesSound, TmpOfTemp, SavedOnDisk, ReadFrom
  <1>3. CASE config_callback
    BY <1>1, <1>2, <1>3 DEF config_callback, Goto, TypeOK, LockHeld, CopyOfConfig
  <1>4. CASE config_callback_lock
    BY <1>1, <1>2, <1>4, HolderAssumption
       DEF config_callback_lock, Goto, TypeOK, LockHeld, CopyOfConfig
  <1>5. CASE config_callback_memmove
    <2>1. temp \in Setting /\ temp \in [Option -> Value]
      BY SettingFacts, Zenon DEF TypeOK
    <2>2. main = "memmove" /\ config_lock = "main" /\ \A w \in Worker : got[w] = None
      BY <1>5, HolderAssumption, Zenon DEF config_callback_memmove, Goto, LockHeld
    <2>3. config' \in [Option -> Value]
      BY <1>5, <2>1, Zenon DEF config_callback_memmove, TypeOK
    <2>4. TypeOK'
      BY <1>1, <1>5, <2>3, Zenon DEF config_callback_memmove, TypeOK
    <2>5. LockHeld' /\ CopyOfConfig'
      BY <1>1, <1>5, <2>1, <2>2, HolderAssumption
         DEF config_callback_memmove, Goto, LockHeld, CopyOfConfig
    <2> QED BY <1>2, <2>4, <2>5, Zenon
  <1> QED BY <1>3, <1>4, <1>5, Zenon

(* write_config touches the files only. *)
LEMMA InvWrite ==
    ASSUME Inv,
           \/ write_config_backup \/ write_config_fopen \/ write_config_fails
           \/ write_config_fprintf \/ write_config_rename
    PROVE  Inv'
  <1> USE DEF Inv
  <1>1. /\ UNCHANGED <<config, config_lock, temp, got>> /\ Running /\ Running'
        /\ main' \in {"fopen", "fprintf", "rename", "idle"} /\ main # "memmove"
    BY Zenon DEF write_config_backup, write_config_fopen, write_config_fails,
           write_config_fprintf, write_config_rename, Goto, Running
  <1>2. LockHeld' /\ CopyOfConfig'
    BY <1>1, Zenon DEF LockHeld, CopyOfConfig
  <1>3. temp \in Setting /\ temp \in [Option -> Value] /\ temp # None
    BY SettingFacts, Zenon DEF TypeOK
  <1>4. CASE write_config_backup
    <2>1. saved' = saved /\ main' = "fopen"
      BY <1>4, Zenon DEF write_config_backup, Goto
    <2>2. CASE disk["file"] = None
      BY <1>1, <1>2, <1>4, <2>1, <2>2, Zenon
         DEF write_config_backup, TypeOK, FilesSound, TmpOfTemp, SavedOnDisk, ReadFrom
    <2>3. CASE disk["file"] # None
      <3>1. disk' = [disk EXCEPT !["bak"] = disk["file"], !["file"] = None]
        BY <1>4, <2>3, Zenon DEF write_config_backup
      <3>2. disk'["bak"] = disk["file"] /\ disk'["file"] = None /\ disk'["tmp"] = disk["tmp"]
        BY <3>1, Zenon DEF TypeOK
      <3>3. TypeOK' /\ FilesSound' /\ TmpOfTemp'
        BY <1>1, <2>1, <3>1, <3>2, Zenon DEF TypeOK, FilesSound, Sound, TmpOfTemp
      <3>4. SavedOnDisk'
        BY <1>1, <2>1, <2>3, <3>2, Zenon DEF SavedOnDisk, ReadFrom
      <3> QED BY <1>2, <3>3, <3>4, Zenon
    <2> QED BY <2>2, <2>3, Zenon
  <1>5. CASE write_config_fopen \/ write_config_fails \/ write_config_fprintf
    <2>1. /\ saved' = saved /\ main' \in {"fprintf", "idle", "rename"}
          /\ disk'["file"] = disk["file"] /\ disk'["bak"] = disk["bak"]
      BY <1>5, Zenon DEF write_config_fopen, write_config_fails, write_config_fprintf, Goto, TypeOK
    <2>2. FilesSound' /\ SavedOnDisk'
      BY <1>1, <2>1, Zenon DEF FilesSound, SavedOnDisk, ReadFrom
    <2>3. disk' \in [{"file", "bak", "tmp"} -> Contents \cup {None}] /\ TmpOfTemp'
      <3>1. CASE write_config_fails
        BY <3>1, Zenon DEF write_config_fails, Goto, TypeOK, TmpOfTemp
      <3>2. CASE write_config_fopen
        BY <3>2, EmptyFacts, Zenon DEF write_config_fopen, Goto, TypeOK, TmpOfTemp
      <3>3. CASE write_config_fprintf
        <4>1. /\ main = "fprintf" /\ disk["tmp"] \in Contents
              /\ \A o \in DOMAIN disk["tmp"] : disk["tmp"][o] = temp[o]
          BY <3>3, Zenon DEF write_config_fprintf, Goto, TypeOK, TmpOfTemp
        <4>2. CASE UNCHANGED disk
          BY <1>1, <3>3, <4>1, <4>2, Zenon DEF write_config_fprintf, Goto, TypeOK, TmpOfTemp
        <4>3. ASSUME NEW o \in Option,
                     disk' = [disk EXCEPT !["tmp"] = Put(@, o, temp)], main' = "fprintf"
              PROVE  /\ disk' \in [{"file", "bak", "tmp"} -> Contents \cup {None}]
                     /\ TmpOfTemp'
          <5> DEFINE file == Put(disk["tmp"], o, temp)
          <5>0. temp[o] \in Value
            BY <1>3, Zenon
          <5>1. file \in Contents /\ file # None
            BY <4>1, <5>0, PutContents, Zenon
          <5>2. disk'["tmp"] = file
            BY <4>3, Zenon DEF TypeOK
          <5>3. disk' \in [{"file", "bak", "tmp"} -> Contents \cup {None}]
            BY <4>3, <5>1, Zenon DEF TypeOK
          <5>4. \A x \in DOMAIN file : file[x] = temp[x]
            BY <4>1, Zenon DEF Put
          <5> HIDE DEF file
          <5> QED BY <1>1, <4>3, <5>1, <5>2, <5>3, <5>4, Zenon DEF TmpOfTemp
        <4> QED BY <3>3, <4>2, <4>3, Zenon DEF write_config_fprintf, Goto
      <3> QED BY <1>5, <3>1, <3>2, <3>3, Zenon
    <2>4. TypeOK'
      BY <1>1, <2>1, <2>3, Zenon DEF TypeOK
    <2> QED BY <1>2, <2>2, <2>3, <2>4, Zenon
  <1>6. CASE write_config_rename
    <2>1. main = "rename" /\ main' = "idle" /\ saved' = temp
      BY <1>6, Zenon DEF write_config_rename, Goto
    <2>2. disk["tmp"] = temp
      <3>1. /\ disk["tmp"] \in Contents /\ DOMAIN disk["tmp"] = Option
            /\ \A o \in Option : disk["tmp"][o] = temp[o]
        BY <2>1, Zenon DEF TypeOK, TmpOfTemp
      <3>2. disk["tmp"] \in [Option -> Value]
        BY <3>1, ContentsAre, Zenon
      <3> QED BY <1>3, <3>1, <3>2
    <2>3. disk'["file"] = temp /\ disk'["bak"] = disk["bak"]
      BY <1>6, <2>2, Zenon DEF write_config_rename, TypeOK
    <2>4. TypeOK'
      BY <1>1, <1>3, <1>6, <2>1, Zenon DEF write_config_rename, TypeOK
    <2>5. FilesSound' /\ TmpOfTemp'
      BY <1>3, <2>1, <2>3, Zenon DEF FilesSound, Sound, TmpOfTemp
    <2>6. SavedOnDisk'
      BY <1>3, <2>1, <2>3, SettingFacts, LoadSound, Zenon DEF SavedOnDisk, ReadFrom
    <2> QED BY <1>2, <2>4, <2>5, <2>6, Zenon
  <1> QED BY <1>4, <1>5, <1>6, Zenon

(* config_get copies under the mutex. *)
LEMMA InvWorker ==
    ASSUME Inv, NEW w \in Worker,
           config_get_lock(w) \/ config_get_memmove(w) \/ config_get_unlock(w)
    PROVE  Inv'
  <1> USE DEF Inv
  <1>1. UNCHANGED <<disk, main, config, temp, saved>>
    BY Zenon DEF config_get_lock, config_get_memmove, config_get_unlock
  <1>2. FilesSound' /\ TmpOfTemp' /\ SavedOnDisk'
    BY <1>1, Zenon DEF FilesSound, TmpOfTemp, SavedOnDisk, Running, ReadFrom
  <1>3. CASE config_get_lock(w)
    <2>1. TypeOK'
      BY <1>1, <1>3, EmptyFacts, Zenon DEF config_get_lock, TypeOK
    <2>2. got' = [got EXCEPT ![w] = Empty] /\ config_lock = None /\ config_lock' = w /\ Running
      BY <1>3, Zenon DEF config_get_lock
    <2>3. LockHeld'
      BY <1>1, <2>2, EmptyFacts, HolderAssumption, Zenon DEF LockHeld, TypeOK
    <2>4. CopyOfConfig'
      BY <1>1, <2>2, EmptyFacts, Zenon DEF CopyOfConfig, TypeOK, Running
    <2> QED BY <1>2, <2>1, <2>3, <2>4, Zenon
  <1>4. CASE config_get_memmove(w)
    <2>1. PICK o \in Option : got' = [got EXCEPT ![w] = Put(@, o, config)]
      BY <1>4, Zenon DEF config_get_memmove
    <2>2. config_lock' = config_lock /\ got[w] # None /\ got[w] \in Contents
      BY <1>4, Zenon DEF config_get_memmove, TypeOK
    <2>3. config[o] \in Value
      BY Zenon DEF TypeOK
    <2>4. Put(got[w], o, config) \in Contents /\ Put(got[w], o, config) # None
      BY <2>2, <2>3, PutContents, Zenon
    <2>5. /\ got'[w] = Put(got[w], o, config)
          /\ \A v \in Worker \ {w} : got'[v] = got[v]
      BY <2>1, Zenon DEF TypeOK
    <2>6. TypeOK'
      BY <1>1, <2>1, <2>2, <2>4, Zenon DEF TypeOK
    <2>7. LockHeld'
      BY <1>1, <2>2, <2>4, <2>5, Zenon DEF LockHeld
    <2>8. \A x \in DOMAIN Put(got[w], o, config) : Put(got[w], o, config)[x] = config[x]
      BY <2>2, Zenon DEF Put, CopyOfConfig
    <2>9. CopyOfConfig'
      BY <1>1, <2>2, <2>5, <2>8 DEF CopyOfConfig, Running
    <2> QED BY <1>2, <2>6, <2>7, <2>9, Zenon
  <1>5. CASE config_get_unlock(w)
    <2>1. /\ got[w] # None /\ got' = [got EXCEPT ![w] = None]
          /\ config_lock = w /\ config_lock' = None
      BY <1>5, Zenon DEF config_get_unlock, LockHeld
    <2>2. TypeOK'
      BY <1>1, <2>1, Zenon DEF TypeOK
    <2>3. LockHeld'
      BY <1>1, <2>1, HolderAssumption, Zenon DEF LockHeld, TypeOK
    <2>4. CopyOfConfig'
      BY <1>1, <2>1, Zenon DEF CopyOfConfig, TypeOK, Running
    <2> QED BY <1>2, <2>2, <2>3, <2>4
  <1> QED BY <1>3, <1>4, <1>5, Zenon

(* Stopping the program leaves the files as they are. *)
LEMMA InvCrash ==
    ASSUME Inv, Crash
    PROVE  Inv'
  <1> USE DEF Inv
  <1>1. /\ UNCHANGED <<disk, temp, saved>> /\ main' = "down" /\ config' = config_default
        /\ config_lock' = None /\ got' = [w \in Worker |-> None]
    BY Zenon DEF Crash
  <1>2. TypeOK'
    BY <1>1, SettingFacts, Zenon DEF TypeOK
  <1>3. FilesSound' /\ TmpOfTemp' /\ SavedOnDisk'
    BY <1>1, Zenon DEF FilesSound, TmpOfTemp, SavedOnDisk, Running
  <1>4. LockHeld' /\ CopyOfConfig'
    BY <1>1, SettingFacts, HolderAssumption, Zenon DEF LockHeld, CopyOfConfig
  <1> QED BY <1>2, <1>3, <1>4

LEMMA InvNext == Inv /\ [Next]_vars => Inv'
  <1> SUFFICES ASSUME Inv, [Next]_vars PROVE Inv'
    OBVIOUS
  <1>1. CASE UNCHANGED vars
    BY <1>1 DEF vars, Inv, TypeOK, FilesSound, TmpOfTemp, SavedOnDisk, LockHeld, CopyOfConfig,
                Running, ReadFrom
  <1> QED BY <1>1, InvInstall, InvRead, InvCallback, InvWrite, InvWorker, InvCrash, Zenon DEF Next

(* Every variable keeps its type: in particular what is loaded, posted or saved is
   always one whole configuration. *)
THEOREM FileTypeCorrect == Spec => []TypeOK
  <1>1. Inv => TypeOK
    BY Zenon DEF Inv
  <1> QED BY <1>1, InvInit, InvNext, PTL DEF Spec

(* No worker filters a packet by parts of two configurations, however the requests of
   the user interface and the packets interleave. *)
THEOREM CopiesWhole == Spec => []WorkerSeesWhole
  <1>1. Inv => WorkerSeesWhole
    <2> SUFFICES ASSUME Inv, NEW w \in Worker, got[w] # None, DOMAIN got[w] = Option
                 PROVE  got[w] \in Setting
      BY Zenon DEF WorkerSeesWhole
    <2>1. config \in Setting /\ config \in [Option -> Value]
      BY HolderAssumption, Zenon DEF Inv, LockHeld, TypeOK
    <2>2. got[w] \in [Option -> Value]
      BY ContentsAre, Zenon DEF Inv, TypeOK
    <2>3. got[w] = config
      BY <2>1, <2>2 DEF Inv, CopyOfConfig
    <2> QED BY <2>1, <2>3, Zenon
  <1> QED BY <1>1, InvInit, InvNext, PTL DEF Spec

-----------------------------------------------------------------------------
(* What a start would load *)

RecoveredFacts ==
    /\ Recovered \in Setting
    /\ disk["file"] = None \/ Partial(disk["file"]) => Recovered = config_default

LEMMA RecoveredIs == Inv => RecoveredFacts
  <1> SUFFICES ASSUME Inv PROVE RecoveredFacts
    OBVIOUS
  <1> USE DEF Inv, RecoveredFacts
  <1>1. CASE disk["file"] = None
    <2>1. Recovered = load_config(Empty, config_default)
      BY <1>1, Zenon DEF Recovered
    <2>2. load_config(Empty, config_default) = config_default
      BY EmptyFacts, LoadSound, Zenon
    <2> QED BY <1>1, <2>1, <2>2, SettingFacts, Zenon
  <1>2. CASE disk["file"] # None
    <2>1. /\ disk["file"] \in Contents
          /\ Partial(disk["file"]) \/ disk["file"] \in Setting
          /\ Recovered = load_config(disk["file"], config_default)
      BY <1>2, Zenon DEF TypeOK, FilesSound, Sound, Recovered
    <2> QED BY <1>2, <2>1, LoadSound, Zenon
  <1> QED BY <1>1, <1>2, Zenon

LEMMA RecoveredNext == Inv' => RecoveredFacts'
  BY RecoveredIs, PTL

(* Wherever the program is stopped, the next start loads one whole configuration. *)
THEOREM LoadsWhole == Spec => []NeverMixed
  <1>1. Inv => NeverMixed
    BY RecoveredIs, Zenon DEF RecoveredFacts, NeverMixed
  <1> QED BY <1>1, InvInit, InvNext, PTL DEF Spec

(* While the program runs, the configuration it loaded or saved last is whole in the
   file or in its backup, however often a save fails. *)
THEOREM GoodCopyKept == Spec => []BackupKept
  <1>1. Inv => BackupKept
    <2> SUFFICES ASSUME Inv, Running, saved # config_default
                 PROVE  \E f \in {"file", "bak"} :
                          disk[f] # None /\ load_config(disk[f], config_default) = saved
      BY Zenon DEF BackupKept
    <2>1. saved = load_config(ReadFrom, config_default)
      BY Zenon DEF Inv, SavedOnDisk
    <2>2. load_config(Empty, config_default) = config_default
      BY EmptyFacts, LoadSound, Zenon
    <2> QED BY <2>1, <2>2, Zenon DEF ReadFrom
  <1> QED BY <1>1, InvInit, InvNext, PTL DEF Spec

-----------------------------------------------------------------------------
(* The files implement AtomicFile *)

Save == IF Saving THEN temp ELSE None

(* What a start would load is a function of the file. *)
LEMMA SameRecovered == disk'["file"] = disk["file"] => Recovered' = Recovered
  BY Zenon DEF Recovered

(* A start changes nothing: what it installs are the defaults it would have read. *)
LEMMA StartStutters ==
    ASSUME Inv, Inv',
           \/ install_files \/ install_file_fopen \/ install_file_fails \/ install_file_fputs
           \/ read_config
    PROVE  UNCHANGED <<Recovered, Save>>
  <1>1. Save = None /\ Save' = None
    BY Zenon DEF install_files, install_file_fopen, install_file_fails, install_file_fputs,
           read_config, Goto, Save, Saving
  <1>2. CASE UNCHANGED disk
    BY <1>1, <1>2, SameRecovered, Zenon
  <1>3. CASE install_file_fopen
    <2>1. disk["file"] = None /\ Partial(disk["file"])'
      BY <1>3, EmptyFacts, Zenon DEF install_file_fopen, Goto, Inv, FilesSound, TypeOK
    <2> QED BY <1>1, <2>1, RecoveredIs, RecoveredNext, Zenon DEF RecoveredFacts, config_default
  <1>4. CASE install_file_fputs /\ main' = "fputs"
    <2>1. Partial(disk["file"]) /\ Partial(disk["file"])'
      BY <1>4, Zenon DEF install_file_fputs, Goto, Inv, FilesSound
    <2> QED BY <1>1, <2>1, RecoveredIs, RecoveredNext, Zenon DEF RecoveredFacts, config_default
  <1> QED BY <1>2, <1>3, <1>4, Zenon
          DEF install_files, install_file_fails, install_file_fputs, read_config, Goto

(* A save begins when a configuration is posted, exposes the defaults while the old file
   is moved away, and is over when the new one is in place or cannot be opened. *)
LEMMA SaveSteps ==
    ASSUME Inv, Inv',
           \/ config_callback \/ config_callback_lock \/ config_callback_memmove
           \/ write_config_backup \/ write_config_fopen \/ write_config_fails
           \/ write_config_fprintf \/ write_config_rename
    PROVE  Atomic!Next \/ UNCHANGED <<Recovered, Save>>
  <1>0. temp # None /\ temp' # None /\ temp \in Setting /\ temp' \in Setting
    BY SettingFacts, Zenon DEF Inv, TypeOK
  <1>1. CASE config_callback
    <2>1. Save = None /\ Save' = temp' /\ Recovered' = Recovered
      BY <1>1, SameRecovered, Zenon DEF config_callback, Goto, Save, Saving
    <2>2. Atomic!Begin
      BY <1>0, <2>1, Zenon DEF Atomic!Begin, Save
    <2> QED BY <2>2, Zenon DEF Atomic!Next
  <1>2. CASE config_callback_lock \/ config_callback_memmove
    BY <1>2, SameRecovered, Zenon
       DEF config_callback_lock, config_callback_memmove, Goto, Save, Saving
  <1>3. CASE write_config_backup
    <2>1. Save = temp /\ Save' = temp
      BY <1>3, Zenon DEF write_config_backup, Goto, Save, Saving
    <2>2. CASE disk["file"] = None
      BY <1>3, <2>1, <2>2, SameRecovered, Zenon DEF write_config_backup
    <2>3. CASE disk["file"] # None
      <3>1. disk'["file"] = None
        BY <1>3, <2>3, Zenon DEF write_config_backup, Inv, TypeOK
      <3>2. Recovered' = config_default
        BY <3>1, RecoveredNext, Zenon DEF RecoveredFacts, config_default
      <3>3. Atomic!Expose
        BY <1>0, <2>1, <3>2, Zenon DEF Atomic!Expose, Save
      <3> QED BY <3>3, Zenon DEF Atomic!Next
    <2> QED BY <2>2, <2>3, Zenon
  <1>4. CASE write_config_fopen \/ write_config_fprintf
    <2>1. disk'["file"] = disk["file"]
      BY <1>4, Zenon DEF write_config_fopen, write_config_fprintf, Inv, TypeOK
    <2>2. Save = temp /\ Save' = temp
      BY <1>4, Zenon DEF write_config_fopen, write_config_fprintf, Goto, Save, Saving
    <2> QED BY <2>1, <2>2, SameRecovered, Zenon
  <1>5. CASE write_config_fails
    <2>1. Save = temp /\ Save' = None /\ Recovered' = Recovered
      BY <1>5, SameRecovered, Zenon DEF write_config_fails, Goto, Save, Saving
    <2>2. Atomic!Abandon
      BY <1>0, <2>1, Zenon DEF Atomic!Abandon, Save
    <2> QED BY <2>2, Zenon DEF Atomic!Next
  <1>6. CASE write_config_rename
    <2>1. Save = temp /\ Save' = None
      BY <1>6, Zenon DEF write_config_rename, Goto, Save, Saving
    <2>2. saved' = temp /\ disk'["file"] = disk["tmp"] /\ disk["tmp"] # None /\ Running'
      BY <1>6, Zenon DEF write_config_rename, Goto, Inv, TypeOK, TmpOfTemp, Running
    <2>3. saved' = Recovered'
      BY <2>2, Zenon DEF Inv, SavedOnDisk, ReadFrom, Recovered, load_config, config_default
    <2>4. Atomic!Commit
      BY <1>0, <2>1, <2>2, <2>3, Zenon DEF Atomic!Commit, Save
    <2> QED BY <2>4, Zenon DEF Atomic!Next
  <1> QED BY <1>1, <1>2, <1>3, <1>4, <1>5, <1>6, Zenon

(* Workers change nothing; stopping the program gives up the save. *)
LEMMA OtherSteps ==
    ASSUME Inv,
           \/ Crash
           \/ \E w \in Worker : config_get_lock(w) \/ config_get_memmove(w) \/ config_get_unlock(w)
    PROVE  Atomic!Next \/ UNCHANGED <<Recovered, Save>>
  <1>1. Recovered' = Recovered
    BY SameRecovered, Zenon DEF Crash, config_get_lock, config_get_memmove, config_get_unlock
  <1>2. CASE Crash
    <2>1. Save' = None
      BY <1>2, Zenon DEF Crash, Save, Saving
    <2>2. CASE Save = None
      BY <1>1, <2>1, <2>2, Zenon
    <2>3. CASE Save # None
      BY <1>1, <2>1, <2>3, Zenon DEF Atomic!Next, Atomic!Abandon, Save
    <2> QED BY <2>2, <2>3, Zenon
  <1>3. CASE \E w \in Worker :
               config_get_lock(w) \/ config_get_memmove(w) \/ config_get_unlock(w)
    BY <1>1, <1>3, Zenon
       DEF config_get_lock, config_get_memmove, config_get_unlock, Save, Saving
  <1> QED BY <1>2, <1>3, Zenon

(* The file, its backup and the temporary file behave like one durable configuration:
   only a save changes what the next start loads, to the new configuration or, while the
   old file is moved away, to the defaults; neither a start nor a worker changes it. *)
THEOREM FileAtomic == Spec => ImplementsAtomicFile
  <1>1. Init => Atomic!Init
    <2> SUFFICES ASSUME Init PROVE Atomic!Init
      OBVIOUS
    <2>1. Recovered = config_default
      BY InvInit, RecoveredIs, Zenon DEF Init, RecoveredFacts
    <2> QED BY <2>1, Zenon DEF Init, Atomic!Init, Saving
  <1>2. Inv /\ Inv' /\ [Next]_vars => [Atomic!Next]_<<Recovered, IF Saving THEN temp ELSE None>>
    <2> SUFFICES ASSUME Inv, Inv', [Next]_vars
                 PROVE  Atomic!Next \/ UNCHANGED <<Recovered, Save>>
      BY Zenon DEF Save
    <2>1. CASE UNCHANGED vars
      BY <2>1, SameRecovered, Zenon DEF vars, Save, Saving
    <2> QED BY <2>1, StartStutters, SaveSteps, OtherSteps, Zenon DEF Next
  <1> QED BY <1>1, <1>2, InvInit, InvNext, PTL DEF Spec, ImplementsAtomicFile, Atomic!Spec

-----------------------------------------------------------------------------
(* The filter *)

(* The configuration is that of the options the user sees. *)
ConfigOf(c, o) ==
    /\ o.enabled \in BOOLEAN /\ o.http_mode \in {"all", "data", "url", "urlpart", "none"}
    /\ c.enabled = o.enabled
    /\ c.hide_tcp = (o.http_mode # "none")
    /\ c.hide_flag = Filter!HideFlag(o.http_mode)
    /\ c.hide_tcp_data = (o.http_mode \in {"data", "url", "urlpart"})
    /\ c.split = Filter!SplitMode(o.http_mode)

FilterInv == ConfigOf(f_config, options)

(* What the page submits is the configuration of its options, *)
LEMMA SubmittedConfig ==
    ASSUME NEW o \in Filter!Option
    PROVE  ConfigOf(Filter!copyToState(o), o)
<1>1. o.enabled \in BOOLEAN /\ o.http_mode \in {"all", "data", "url", "urlpart", "none"}
  BY Zenon DEF Filter!Option
<1>2. QED
  BY <1>1, Zenon DEF ConfigOf, Filter!copyToState

(* and what it shows when it is loaded are the options of the configuration. *)
LEMMA LoadedConfig ==
    ASSUME NEW c, NEW o, ConfigOf(c, o)
    PROVE  ConfigOf(c, Filter!copyFromState(c))
<1> DEFINE f == Filter!copyFromState(c)
<1>1. f.enabled = c.enabled
  BY Zenon DEF Filter!copyFromState
<1>2. f.http_mode = CASE ~c.hide_tcp -> "none"
                      [] c.hide_tcp /\ ~c.hide_tcp_data -> "all"
                      [] OTHER -> CASE c.split = "none" -> "data"
                                    [] c.split = "full" -> "url"
                                    [] OTHER -> "urlpart"
  BY Zenon DEF Filter!copyFromState
<1>3. f.http_mode = o.http_mode
  <2>1. /\ o.http_mode \in {"all", "data", "url", "urlpart", "none"}
        /\ c.hide_tcp = (o.http_mode # "none")
        /\ c.hide_tcp_data = (o.http_mode \in {"data", "url", "urlpart"})
        /\ c.split = CASE o.http_mode = "url" -> "full" [] o.http_mode = "urlpart" -> "partial"
                       [] OTHER -> "none"
    BY Zenon DEF ConfigOf, Filter!SplitMode
  <2>2. CASE o.http_mode = "none"
    BY <1>2, <2>1, <2>2, Zenon
  <2>3. CASE o.http_mode = "all"
    BY <1>2, <2>1, <2>3, Zenon
  <2>4. CASE o.http_mode = "data"
    BY <1>2, <2>1, <2>4, Zenon
  <2>5. CASE o.http_mode = "url"
    BY <1>2, <2>1, <2>5, Zenon
  <2>6. CASE o.http_mode = "urlpart"
    BY <1>2, <2>1, <2>6, Zenon
  <2>7. QED
    BY <2>1, <2>2, <2>3, <2>4, <2>5, <2>6, Zenon
<1> HIDE DEF f
<1>4. QED
  BY <1>1, <1>3, Zenon DEF ConfigOf, f

LEMMA DefaultConfig == Filter!Init => FilterInv
<1> DEFINE o == [enabled |-> TRUE, http_mode |-> "all"]
<1>1. ConfigOf(Filter!config_default, o)
  <2>1. Filter!HideFlag("all") = [f \in Filter!Flag |-> "set"] /\ Filter!SplitMode("all") = "none"
    BY Zenon DEF Filter!HideFlag, Filter!SplitMode
  <2> DEFINE c == Filter!config_default
  <2>2. /\ c.enabled = TRUE /\ c.hide_tcp = TRUE /\ c.hide_flag = [f \in Filter!Flag |-> "set"]
        /\ c.hide_tcp_data = FALSE /\ c.split = "none"
    BY Zenon DEF Filter!config_default
  <2>3. o.enabled = TRUE /\ o.http_mode = "all"
    BY Zenon
  <2> HIDE DEF o, c
  <2>4. ConfigOf(c, o)
    <3>1. (o.http_mode # "none") = TRUE /\ (o.http_mode \in {"data", "url", "urlpart"}) = FALSE
      BY <2>3
    <3>2. c.hide_flag = Filter!HideFlag(o.http_mode) /\ c.split = Filter!SplitMode(o.http_mode)
      BY <2>1, <2>2, <2>3, Zenon
    <3>3. o.enabled \in BOOLEAN /\ o.http_mode \in {"all", "data", "url", "urlpart", "none"}
      BY <2>3, Zenon
    <3>4. QED
      BY <2>2, <2>3, <3>1, <3>2, <3>3, Zenon DEF ConfigOf
  <2>5. QED
    BY <2>4, Zenon DEF c
<1>2. QED
  BY <1>1, LoadedConfig, Zenon DEF Filter!Init, FilterInv

(* The flags of a packet that is filtered *)
LEMMA FilterFlags ==
    ASSUME NEW mode \in {"all", "data", "url", "urlpart", "none"}, NEW F \in Filter!FlagSets
    PROVE  mode = "all" \/ (mode # "none" /\ "ack" \in F) =>
               \E f \in Filter!Flag : Filter!HideFlag(mode)[f] = IF f \in F THEN "set" ELSE "unset"
<1>1. F \cap Filter!Flag # {} /\ "ack" \in Filter!Flag
  BY Zenon DEF Filter!FlagSets, Filter!Flag
<1>2. QED
  BY <1>1, Zenon DEF Filter!HideFlag

(* Under the configuration of its options the client hides what the page says. *)
LEMMA FilterHides == FilterInv => Filter!HidesAsDescribed
<1> SUFFICES ASSUME FilterInv, NEW p \in Filter!Packet, p.protocol = Filter!TCP
             PROVE  Filter!packet_filter(f_config, p)
                      <=> /\ options.enabled /\ p.dest = 80 /\ ~Filter!Private(p.dst)
                          /\ options.http_mode # "none"
                          /\ (options.http_mode # "all" => Filter!Data(p))
  BY Zenon DEF Filter!HidesAsDescribed
<1> DEFINE mode == options.http_mode
<1>1. p \in Filter!Segment /\ (Filter!Data(p) => "ack" \in p.flags)
  BY DEF Filter!Packet, Filter!TCP, Filter!UDP
<1>2. /\ p.ihl \in {5, 6} /\ p.size \in {20, 24, 25} /\ p.doff \in {5, 6} /\ p.flags \in Filter!FlagSets
  BY <1>1, Zenon DEF Filter!Segment
<1>3. Filter!packet_filter_header(p)
  BY <1>2 DEF Filter!packet_filter_header, Filter!HeaderSize, Filter!TCP
<1>4. (p.doff * 4 < p.size) <=> Filter!Data(p)
  BY <1>2, Zenon DEF Filter!Data
<1>5. /\ options.enabled \in BOOLEAN /\ mode \in {"all", "data", "url", "urlpart", "none"}
      /\ f_config.enabled = options.enabled
      /\ f_config.hide_tcp = (mode # "none")
      /\ f_config.hide_flag = Filter!HideFlag(mode)
      /\ f_config.hide_tcp_data = (mode \in {"data", "url", "urlpart"})
  BY Zenon DEF FilterInv, ConfigOf
<1> HIDE DEF mode
<1> DEFINE Hit == \E f \in Filter!Flag : f_config.hide_flag[f] = IF f \in p.flags THEN "set" ELSE "unset"
<1>6. mode = "all" \/ (mode # "none" /\ "ack" \in p.flags) => Hit
  <2>1. PICK F \in Filter!FlagSets, m \in {"all", "data", "url", "urlpart", "none"} :
          F = p.flags /\ m = mode
    BY <1>2, <1>5, Zenon
  <2>2. m = "all" \/ (m # "none" /\ "ack" \in F) =>
          \E f \in Filter!Flag : Filter!HideFlag(m)[f] = IF f \in F THEN "set" ELSE "unset"
    BY FilterFlags
  <2>3. QED
    BY <1>5, <2>1, <2>2, Zenon
<1>7. Filter!packet_filter(f_config, p)
        <=> /\ options.enabled /\ ~Filter!Private(p.dst) /\ p.dest = 80 /\ mode # "none" /\ Hit
            /\ mode \in {"data", "url", "urlpart"} => Filter!Data(p)
  BY <1>3, <1>4, <1>5, Zenon
     DEF Filter!packet_filter, Filter!packet_filter_address, Filter!packet_filter_tcp
<1> HIDE DEF Hit
<1>8. QED
  BY <1>1, <1>5, <1>6, <1>7, Zenon DEF mode

(* The filter hides the packets the help page says, whatever the user chooses, however often
   the page is loaded again. *)
THEOREM FilterAsDescribed == Filter!Spec => []HidesAsDescribed
<1>1. FilterInv /\ [Filter!Next]_(Filter!vars) => FilterInv'
  <2> SUFFICES ASSUME FilterInv, [Filter!Next]_(Filter!vars) PROVE FilterInv'
    OBVIOUS
  <2>1. CASE Filter!doSubmit
    BY <2>1, SubmittedConfig, Zenon DEF Filter!doSubmit, FilterInv
  <2>2. CASE Filter!doLoad
    BY <2>2, LoadedConfig, Zenon DEF Filter!doLoad, FilterInv
  <2>3. CASE UNCHANGED Filter!vars
    BY <2>3, Zenon DEF Filter!vars, FilterInv
  <2>4. QED
    BY <2>1, <2>2, <2>3, Zenon DEF Filter!Next
<1>2. FilterInv => HidesAsDescribed
  BY FilterHides, Zenon DEF HidesAsDescribed
<1>3. QED
  BY <1>1, <1>2, DefaultConfig, PTL DEF Filter!Spec

=============================================================================
