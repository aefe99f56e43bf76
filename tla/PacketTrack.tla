----------------------------- MODULE PacketTrack ----------------------------
(***************************************************************************)
(* The table of packets seen before (packet_track.c), which the worker     *)
(* threads of the client share without a lock.  A step is one access to    *)
(* an entry of the table or to the counter seq.                            *)
(*                                                                         *)
(* A packet is its hash; the hashes of the model fall into one bucket, as  *)
(* buckets do not interact.  The table begins as zeros.                    *)
(***************************************************************************)
EXTENDS Integers, FiniteSets

CONSTANTS
    Threads,     \* worker threads
    Hashes,      \* the hashes of the packets, as numbers
    BucketSize,  \* PACKET_TABLE_BUCKET_SIZE, 4 in the code
    MAX_SEQ,     \* the greatest value of seq
    RepMod,      \* the number of values of rep, 2^8
    MaxPackets   \* bound: packets

Entry == 0 .. BucketSize - 1

VARIABLES
    bucket,  \* the entries: hash, seq and rep
    seq,     \* the static counter
    pc,      \* pc[t]: the step of packet_track thread t is at
    local,   \* local[t]: its packet, i, j, a register, and the result repeat
    seen     \* seen[h]: how often the packet was captured

vars == <<bucket, seq, pc, local, seen>>

NoLocal == [hash |-> 0, i |-> 0, j |-> 0, reg |-> 0, repeat |-> 0]
Captured == LET sum[S \in SUBSET Hashes] ==
                    IF S = {} THEN 0 ELSE LET h == CHOOSE h \in S : TRUE IN seen[h] + sum[S \ {h}]
            IN  sum[Hashes]

Init ==
    /\ bucket = [x \in Entry |-> [hash |-> 0, seq |-> 0, rep |-> 0]] /\ seq = 0
    /\ pc = [t \in Threads |-> "idle"] /\ local = [t \in Threads |-> NoLocal]
    /\ seen = [h \in Hashes |-> 0]

-----------------------------------------------------------------------------
Go(t, to) == pc' = [pc EXCEPT ![t] = to]

Call(t) ==
    /\ pc[t] = "idle" /\ Captured < MaxPackets
    /\ \E h \in Hashes :
        /\ local' = [local EXCEPT ![t] = [NoLocal EXCEPT !.hash = h, !.reg = seq]]
        /\ seen' = [seen EXCEPT ![h] = @ + 1]
    /\ Go(t, "seq")
    /\ UNCHANGED <<bucket, seq>>

(* seq = (seq == MAX_SEQ? 0: seq + 1), with the value read before *)
Count(t) ==
    /\ pc[t] = "seq"
    /\ seq' = IF local[t].reg = MAX_SEQ THEN 0 ELSE local[t].reg + 1
    /\ Go(t, "scan")
    /\ UNCHANGED <<bucket, local, seen>>

(* Mutant: only a part of the hash is compared. *)
Scan_Part(t) ==
    LET r == local[t]
        i == r.i
    IN  /\ pc[t] = "scan" /\ i < BucketSize
        /\ IF bucket[i].hash % 2 = local[t].hash % 2
           THEN Go(t, "found") /\ UNCHANGED local
           ELSE /\ local' = [local EXCEPT ![t] = [r EXCEPT
                                !.i = i + 1, !.j = IF seq # bucket[i].seq THEN i ELSE r.j]]
                /\ UNCHANGED pc
        /\ UNCHANGED <<bucket, seq, seen>>

(* One round of the loop.  The entry is found, or may be the one to replace: the last
   one whose seq is not the current one, as max_diff stays zero. *)
Scan(t) ==
    LET r == local[t]
        i == r.i
    IN  /\ pc[t] = "scan" /\ i < BucketSize
        /\ IF bucket[i].hash = local[t].hash
           THEN Go(t, "found") /\ UNCHANGED local
           ELSE /\ local' = [local EXCEPT ![t] = [r EXCEPT
                                !.i = i + 1, !.j = IF seq # bucket[i].seq THEN i ELSE r.j]]
                /\ UNCHANGED pc
        /\ UNCHANGED <<bucket, seq, seen>>

Found(t) ==
    /\ pc[t] = "found"
    /\ bucket' = [bucket EXCEPT ![local[t].i].seq = seq]
    /\ local' = [local EXCEPT ![t].reg = bucket[local[t].i].rep]
    /\ Go(t, "rep")
    /\ UNCHANGED <<seq, seen>>

(* bucket[i].rep++ *)
Rep(t) ==
    /\ pc[t] = "rep"
    /\ bucket' = [bucket EXCEPT ![local[t].i].rep = (local[t].reg + 1) % RepMod]
    /\ Go(t, "result")
    /\ UNCHANGED <<seq, local, seen>>

Result(t) ==
    /\ pc[t] = "result"
    /\ local' = [local EXCEPT ![t].repeat = bucket[local[t].i].rep]
    /\ Go(t, "done")
    /\ UNCHANGED <<bucket, seq, seen>>

(* Not found: the entry j is replaced, field by field. *)
InsertHash(t) ==
    /\ pc[t] = "scan" /\ local[t].i = BucketSize
    /\ bucket' = [bucket EXCEPT ![local[t].j].hash = local[t].hash]
    /\ Go(t, "insertseq")
    /\ UNCHANGED <<seq, local, seen>>

InsertSeq(t) ==
    /\ pc[t] = "insertseq"
    /\ bucket' = [bucket EXCEPT ![local[t].j].seq = seq]
    /\ Go(t, "insertrep")
    /\ UNCHANGED <<seq, local, seen>>

InsertRep(t) ==
    /\ pc[t] = "insertrep"
    /\ bucket' = [bucket EXCEPT ![local[t].j].rep = 0]
    /\ Go(t, "done")
    /\ UNCHANGED <<seq, local, seen>>

Return(t) ==
    /\ pc[t] = "done"
    /\ Go(t, "idle") /\ local' = [local EXCEPT ![t] = NoLocal]
    /\ UNCHANGED <<bucket, seq, seen>>

Next ==
    \E t \in Threads :
        \/ Call(t) \/ Count(t) \/ Scan(t) \/ Found(t) \/ Rep(t) \/ Result(t)
        \/ InsertHash(t) \/ InsertSeq(t) \/ InsertRep(t) \/ Return(t)

Spec == Init /\ [][Next]_vars

-----------------------------------------------------------------------------
Done(t) == pc[t] = "done"

(* A packet that was captured once is not taken for a repeat, whatever the other threads
   do: "at worst, we get false negatives" (packet_track.c:48-49). *)
NoFalsePositive ==
    \A t \in Threads : Done(t) /\ local[t].repeat > 0 => seen[local[t].hash] > 1

=============================================================================
