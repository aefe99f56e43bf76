----------------------------- MODULE PartsProofs ----------------------------
(***************************************************************************)
(* Proofs about three parts of the programs that stand alone: which tunnel *)
(* a repeated packet takes (TunnelSelect), for any URLs, packets and size  *)
(* of the history, while tunnels are added, deleted and replaced; what the *)
(* HTTP server of the user interface closes (HttpServer), for any number   *)
(* of descriptors and any body; and that decoding undoes padding (Pad),    *)
(* for all options and lengths.                                            *)
(***************************************************************************)
EXTENDS Selection, Pad, Ui, Sequences, WellFoundedInduction, TLAPS

(* A set of numbers that is not empty has a least one. *)
LEMMA LeastNumber ==
    ASSUME NEW T, T \subseteq Nat, T # {}
    PROVE  \E x \in T : \A y \in T : x <= y
<1> DEFINE R == OpToRel(<, Nat)
<1>1. PICK x \in T : \A y \in T : ~(<<y, x>> \in R)
  <2>1. IsWellFoundedOn(R, Nat)
    BY NatLessThanWellFounded, Zenon
  <2> HIDE DEF R
  <2>2. QED
    BY <2>1, WFMin, Zenon
<1>2. \A y \in T : ~(y < x)
  BY <1>1 DEF OpToRel
<1>3. QED
  BY <1>2

-----------------------------------------------------------------------------
(* The tunnel of a packet.  The history knows the tunnel a packet took by its id alone.  What
   makes this enough is that the n-th tunnel that is created has the id n - 1, which depends on
   the counter that a reconnect thread reads and writes in two steps. *)

SelectTunnel == [tag : Nat, id : Int, weight : Int, reconnect : BOOLEAN]
SelectReader == [at : {"no", "read", "made"}, id : Int, tag : Nat]

SelectTypeOK ==
    /\ obj \in [Urls -> SelectTunnel] /\ reader \in [Urls -> SelectReader]
    /\ id \in Int /\ created \in Nat
    /\ history \in [0 .. HistSize - 1 -> [hash : Nat, id : Int]]
    /\ via \in [Select!Packet -> Nat]

(* The active tunnels are different and exist. *)
ActiveExist ==
    /\ s_active \in Seq(Urls)
    /\ \A i, j \in 1 .. Len(s_active) : s_active[i] = s_active[j] => i = j
    /\ \A i \in 1 .. Len(s_active) : obj[s_active[i]].tag # 0

(* The tunnel with tag n, the n-th that is created, has the id n - 1. *)
Numbered ==
    /\ \A u \in Urls :
         /\ obj[u].tag <= created
         /\ obj[u].tag = 0 => obj[u] = Select!NoTunnel
         /\ obj[u].tag # 0 => obj[u].id = obj[u].tag - 1
         /\ reader[u].at = "no" => reader[u] = Select!Idle
         /\ reader[u].at # "no" =>
              reader[u].tag \in 1 .. created /\ reader[u].id = reader[u].tag - 1

(* No two tunnels have the same tag. *)
TagsDiffer ==
    \A u, v \in Urls :
        /\ u # v /\ obj[u].tag # 0 => obj[u].tag # obj[v].tag
        /\ u # v /\ reader[u].at # "no" => reader[u].tag # reader[v].tag
        /\ reader[u].at # "no" => reader[u].tag # obj[v].tag

(* The counter is behind while a reconnect thread increases it. *)
Counter ==
    /\ (\A u \in Urls : reader[u].at # "read") => id = created % IdMod
    /\ \A u \in Urls : reader[u].at = "read" => reader[u].tag = created

(* What the history has is the id of the tunnel that the packet took last. *)
Remembered ==
    \A p \in Select!Packet :
        history[p.idx].hash = p.hash /\ via[p] # 0 => history[p.idx].id = via[p] - 1

SelectInv ==
    SelectTypeOK /\ ActiveExist /\ Numbered /\ TagsDiffer /\ Counter /\ Remembered

(* What is left of a set of tunnels *)
LEMMA SetDelete ==
    ASSUME NEW S, NEW s \in Seq(S), NEW u, u \in Select!Range(s),
           \A i, j \in 1 .. Len(s) : s[i] = s[j] => i = j
    PROVE  LET t == Select!tunnel_set_delete(s, u)
           IN  /\ t \in Seq(S)
               /\ \A i, j \in 1 .. Len(t) : t[i] = t[j] => i = j
               /\ \A i \in 1 .. Len(t) : \E j \in 1 .. Len(s) : t[i] = s[j]
<1> DEFINE at == CHOOSE i \in 1 .. Len(s) : s[i] = u
           t == [i \in 1 .. Len(s) - 1 |-> IF i < at THEN s[i] ELSE s[i + 1]]
<1>1. DOMAIN s = 1 .. Len(s) /\ Len(s) \in Nat /\ \A i \in 1 .. Len(s) : s[i] \in S
  OBVIOUS
<1>2. Select!tunnel_set_delete(s, u) = t
  BY Zenon DEF Select!tunnel_set_delete, Select!Range
<1>3. at \in 1 .. Len(s)
  BY <1>1, Zenon DEF Select!Range
<1>4. Len(s) - 1 \in Nat /\ at \in Int
  BY <1>1, <1>3
<1> HIDE DEF at
<1>5. /\ \A i \in 1 .. Len(s) - 1 : i \in 1 .. Len(s) /\ i + 1 \in 1 .. Len(s)
  BY <1>1
<1>6. \A i \in 1 .. Len(s) - 1 : t[i] = (IF i < at THEN s[i] ELSE s[i + 1])
  OBVIOUS
<1>7. \A i \in 1 .. Len(s) - 1 : t[i] \in S
  BY <1>1, <1>5, <1>6
<1>8. t \in [1 .. Len(s) - 1 -> S]
  BY <1>7
<1>9. t \in Seq(S) /\ Len(t) = Len(s) - 1
  BY <1>4, <1>8
<1>10. \A i, j \in 1 .. Len(t) : t[i] = t[j] => i = j
  <2> SUFFICES ASSUME NEW i \in 1 .. Len(s) - 1, NEW j \in 1 .. Len(s) - 1, t[i] = t[j] PROVE i = j
    BY <1>9
  <2> HIDE DEF t
  <2>1. /\ i < at => t[i] = s[i]
        /\ ~(i < at) => t[i] = s[i + 1]
        /\ j < at => t[j] = s[j]
        /\ ~(j < at) => t[j] = s[j + 1]
    BY <1>6, Zenon
  <2>2. i \in 1 .. Len(s) /\ j \in 1 .. Len(s) /\ i + 1 \in 1 .. Len(s) /\ j + 1 \in 1 .. Len(s)
    BY <1>5
  <2>3. CASE i < at /\ j < at
    BY <2>1, <2>2, <2>3, Zenon
  <2>4. CASE ~(i < at) /\ ~(j < at)
    <3>1. i + 1 = j + 1
      BY <2>1, <2>2, <2>4, Zenon
    <3>2. QED
      BY <3>1
  <2>5. CASE i < at /\ ~(j < at)
    <3>1. i = j + 1
      BY <2>1, <2>2, <2>5, Zenon
    <3>2. QED
      BY <1>4, <2>5, <3>1
  <2>6. CASE ~(i < at) /\ j < at
    <3>1. i + 1 = j
      BY <2>1, <2>2, <2>6, Zenon
    <3>2. QED
      BY <1>4, <2>6, <3>1
  <2>7. QED
    BY <2>3, <2>4, <2>5, <2>6, Zenon
<1>11. \A i \in 1 .. Len(t) : \E j \in 1 .. Len(s) : t[i] = s[j]
  BY <1>5, <1>6, <1>9, Zenon
<1>12. QED
  BY <1>2, <1>9, <1>10, <1>11, ZenonT(30)

(* A tunnel that there is not, and a reader that does nothing *)
LEMMA SelectNone ==
    /\ Select!NoTunnel \in SelectTunnel /\ Select!NoTunnel.tag = 0
    /\ Select!Idle \in SelectReader /\ Select!Idle.at = "no" /\ Select!Idle.tag = 0
    /\ \A n \in Nat, x \in Int :
         LET r == Select!tunnel_create(n, x)
         IN  r \in SelectTunnel /\ r.tag = n /\ r.id = x
<1>1. One \in Nat
  BY SelectAssumption
<1>2. QED
  BY <1>1 DEF Select!NoTunnel, Select!Idle, Select!tunnel_create, SelectTunnel, SelectReader

LEMMA SelectInit == Select!Init => SelectInv
<1> SUFFICES ASSUME Select!Init PROVE SelectInv
  OBVIOUS
<1>1. /\ obj = [u \in Urls |-> Select!NoTunnel] /\ s_active = <<>> /\ id = 0 /\ created = 0
      /\ reader = [u \in Urls |-> Select!Idle] /\ via = [p \in Select!Packet |-> 0]
      /\ history = [x \in 0 .. HistSize - 1 |-> [hash |-> 0, id |-> 0]]
  BY Zenon DEF Select!Init
<1>2. /\ \A u \in Urls : obj[u] = Select!NoTunnel /\ reader[u] = Select!Idle
      /\ \A u \in Urls : obj[u].tag = 0 /\ reader[u].at = "no" /\ reader[u].tag = 0
      /\ \A p \in Select!Packet : via[p] = 0
  BY <1>1, SelectNone, Zenon
<1>3. SelectTypeOK
  <2>1. obj \in [Urls -> SelectTunnel] /\ reader \in [Urls -> SelectReader]
    BY <1>1, SelectNone, Zenon
  <2>2. history \in [0 .. HistSize - 1 -> [hash : Nat, id : Int]] /\ via \in [Select!Packet -> Nat]
    BY <1>1
  <2>3. id \in Int /\ created \in Nat
    BY <1>1
  <2>4. QED
    BY <2>1, <2>2, <2>3, Zenon DEF SelectTypeOK
<1>4. ActiveExist
  BY <1>1 DEF ActiveExist
<1>5. Numbered
  <2>1. 0 <= created
    BY <1>1
  <2>2. QED
    BY <1>2, <2>1, Zenon DEF Numbered
<1>6. TagsDiffer
  BY <1>2, Zenon DEF TagsDiffer
<1>7. Counter
  <2>1. id = created % IdMod /\ "no" # "read"
    BY <1>1, SelectAssumption
  <2>2. QED
    BY <1>2, <2>1, Zenon DEF Counter
<1>8. Remembered
  BY <1>2, Zenon DEF Remembered
<1>9. QED
  BY <1>3, <1>4, <1>5, <1>6, <1>7, <1>8, Zenon DEF SelectInv

(* What the invariant says of one tunnel *)
LEMMA SelectFacts ==
    ASSUME SelectInv, NEW u \in Urls
    PROVE  /\ obj[u] \in SelectTunnel /\ obj[u].tag \in Nat /\ obj[u].tag <= created
           /\ reader[u] \in SelectReader /\ reader[u].at \in {"no", "read", "made"}
           /\ obj[u].tag # 0 => obj[u].id = obj[u].tag - 1
           /\ obj[u] # Select!NoTunnel => obj[u].tag # 0
           /\ reader[u].tag \in 0 .. created
           /\ reader[u].at # "no" => reader[u].tag # 0 /\ reader[u].id = reader[u].tag - 1
<1>1. obj[u] \in SelectTunnel /\ reader[u] \in SelectReader /\ created \in Nat
  BY Zenon DEF SelectInv, SelectTypeOK
<1>2. obj[u].tag \in Nat /\ reader[u].at \in {"no", "read", "made"}
  BY <1>1, Zenon DEF SelectTunnel, SelectReader
<1>3. reader[u].at # "no" =>
        reader[u].tag \in 1 .. created /\ reader[u].id = reader[u].tag - 1
  BY Zenon DEF SelectInv, Numbered
<1>4. reader[u].at = "no" => reader[u].tag = 0
  BY SelectNone, Zenon DEF SelectInv, Numbered
<1>5. 0 \in 0 .. created /\ \A x \in 1 .. created : x \in 0 .. created /\ x # 0
  BY <1>1
<1>6. QED
  BY <1>1, <1>2, <1>3, <1>4, <1>5, Zenon DEF SelectInv, Numbered

(* While no thread reads the counter, the next tunnel gets an id of its own. *)
LEMMA SelectCounter ==
    ASSUME SelectInv, Select!MayCreate, created < MaxCreate
    PROVE  /\ id = created /\ created \in Nat /\ created + 1 \in Nat /\ created + 1 # 0
           /\ (id + 1) % IdMod = (created + 1) % IdMod
           /\ \A u \in Urls : reader[u].at # "read"
           /\ \A u \in Urls : obj[u].tag # created + 1 /\ reader[u].tag # created + 1
<1>1. /\ \A u \in Urls : reader[u].at # "read"
      /\ id = created % IdMod /\ created \in Nat
  BY Zenon DEF SelectInv, Counter, SelectTypeOK, Select!MayCreate
<1>2. MaxCreate \in Nat /\ IdMod \in Nat \ {0} /\ MaxCreate <= IdMod
  BY SelectAssumption
<1>3. created % IdMod = created
  BY <1>1, <1>2
<1>4. \A u \in Urls : obj[u].tag # created + 1 /\ reader[u].tag # created + 1
  <2>1. SUFFICES ASSUME NEW u \in Urls PROVE obj[u].tag # created + 1 /\ reader[u].tag # created + 1
    OBVIOUS
  <2>2. obj[u].tag \in Nat /\ obj[u].tag <= created /\ reader[u].tag \in 0 .. created
    BY SelectFacts, Zenon
  <2>3. QED
    BY <1>1, <2>2
<1>5. QED
  BY <1>1, <1>3, <1>4

(* Steps that keep the tunnels which are active *)
LEMMA ActiveKept ==
    ASSUME SelectInv, s_active' = s_active, \A u \in Urls : obj[u].tag # 0 => obj'[u].tag # 0
    PROVE  ActiveExist'
<1>1. \A i \in 1 .. Len(s_active) : s_active[i] \in Urls
  BY DEF SelectInv, ActiveExist
<1>2. QED
  BY <1>1, Zenon DEF SelectInv, ActiveExist

(* Steps that keep the history *)
LEMMA HistoryKept ==
    ASSUME SelectInv, UNCHANGED <<history, via>>
    PROVE  Remembered'
  BY Zenon DEF SelectInv, Remembered

(* Steps of a thread other than the reconnect threads, that change one tunnel *)
LEMMA SelectObj ==
    ASSUME SelectInv, NEW u \in Urls, NEW r \in SelectTunnel, obj' = [obj EXCEPT ![u] = r],
           NEW n \in Nat, created' = n, created <= n,
           r.tag <= n, r.tag = 0 => r = Select!NoTunnel, r.tag # 0 => r.id = r.tag - 1,
           r.tag # 0 => \A v \in Urls : (v # u => obj[v].tag # r.tag) /\ reader[v].tag # r.tag,
           UNCHANGED <<reader, history, via>>, id' \in Int
    PROVE  SelectTypeOK' /\ Numbered' /\ TagsDiffer'
<1>1. /\ obj' \in [Urls -> SelectTunnel] /\ obj'[u] = r
      /\ \A v \in Urls : v # u => obj'[v] = obj[v]
  BY Zenon DEF SelectInv, SelectTypeOK
<1>2. SelectTypeOK'
  BY <1>1, Zenon DEF SelectInv, SelectTypeOK
<1>3. ASSUME NEW v \in Urls PROVE obj'[v].tag <= created'
  <2>1. created \in Nat
    BY Zenon DEF SelectInv, SelectTypeOK
  <2>2. obj[v].tag <= n
    BY SelectFacts, <1>3, <2>1
  <2>3. QED
    BY <1>1, <2>2, Zenon
<1>4. ASSUME NEW v \in Urls, reader[v].at # "no"
      PROVE  reader[v].tag \in 1 .. created' /\ reader[v].id = reader[v].tag - 1
  <2>1. created \in Nat
    BY Zenon DEF SelectInv, SelectTypeOK
  <2>2. reader[v].tag \in 1 .. created /\ reader[v].id = reader[v].tag - 1
    BY <1>4, Zenon DEF SelectInv, Numbered
  <2>3. QED
    BY <2>1, <2>2
<1>5. Numbered'
  BY <1>1, <1>3, <1>4, Zenon DEF SelectInv, Numbered
<1>6. TagsDiffer'
  <2>1. ASSUME NEW a \in Urls, NEW b \in Urls, a # b, obj'[a].tag # 0 PROVE obj'[a].tag # obj'[b].tag
    <3>1. CASE a = u
      BY <1>1, <2>1, <3>1, Zenon
    <3>2. CASE b = u /\ r.tag # 0
      BY <1>1, <2>1, <3>2, Zenon
    <3>3. CASE b = u /\ r.tag = 0
      BY <1>1, <2>1, <3>3, Zenon
    <3>4. CASE a # u /\ b # u
      BY <1>1, <2>1, <3>4, Zenon DEF SelectInv, TagsDiffer
    <3>5. QED
      BY <3>1, <3>2, <3>3, <3>4, Zenon
  <2>2. ASSUME NEW a \in Urls, NEW b \in Urls, reader[a].at # "no" PROVE reader[a].tag # obj'[b].tag
    <3>1. CASE b = u
      BY <1>1, <2>2, <3>1, SelectFacts, Zenon
    <3>2. CASE b # u
      BY <1>1, <2>2, <3>2, Zenon DEF SelectInv, TagsDiffer
    <3>3. QED
      BY <3>1, <3>2, Zenon
  <2>3. ASSUME NEW a \in Urls, NEW b \in Urls, a # b, reader[a].at # "no"
        PROVE  reader[a].tag # reader[b].tag
    BY <2>3, Zenon DEF SelectInv, TagsDiffer
  <2>4. QED
    BY <2>1, <2>2, <2>3, Zenon DEF TagsDiffer
<1>7. QED
  BY <1>2, <1>5, <1>6

LEMMA SelectAdd ==
    ASSUME SelectInv, NEW u \in Urls, Select!Add(u)
    PROVE  SelectInv'
<1>1. /\ Select!MayCreate /\ created < MaxCreate
      /\ obj' = [obj EXCEPT ![u] = Select!tunnel_create(created + 1, id)]
      /\ id' = (id + 1) % IdMod /\ created' = created + 1
      /\ UNCHANGED <<s_active, reader, history, via>>
  BY Zenon DEF Select!Add
<1>2. /\ id = created /\ created \in Nat /\ created + 1 \in Nat /\ created + 1 # 0
      /\ (id + 1) % IdMod = (created + 1) % IdMod
      /\ \A v \in Urls : reader[v].at # "read"
      /\ \A v \in Urls : obj[v].tag # created + 1 /\ reader[v].tag # created + 1
  BY <1>1, SelectCounter, Zenon
<1>3. PICK r : r = Select!tunnel_create(created + 1, id)
  BY Zenon
<1>4. id \in Int /\ created + 1 <= created + 1 /\ created <= created + 1 /\ created = (created + 1) - 1
      /\ id' \in Int
  BY <1>1, <1>2, SelectAssumption
<1>5. r \in SelectTunnel /\ r.tag = created + 1 /\ r.id = created
  BY <1>2, <1>3, <1>4, SelectNone, Zenon
<1>6. SelectTypeOK' /\ Numbered' /\ TagsDiffer'
  <2>1. PICK n \in Nat : n = created + 1
    BY <1>2, Zenon
  <2>2. /\ created' = n /\ created <= n /\ r.tag <= n /\ r.tag # 0 /\ r.id = r.tag - 1
        /\ \A v \in Urls : (v # u => obj[v].tag # r.tag) /\ reader[v].tag # r.tag
    BY <1>1, <1>2, <1>4, <1>5, <2>1, Zenon
  <2>3. obj' = [obj EXCEPT ![u] = r]
    BY <1>1, <1>3, Zenon
  <2>4. QED
    BY <1>1, <1>4, <1>5, <2>2, <2>3, SelectObj, Zenon
<1>7. ActiveExist'
  <2>1. \A v \in Urls : obj[v].tag # 0 => obj'[v].tag # 0
    BY <1>1, <1>2, <1>3, <1>5, Zenon DEF SelectInv, SelectTypeOK
  <2>2. QED
    BY <1>1, <2>1, ActiveKept, Zenon
<1>8. Counter'
  BY <1>1, <1>2, Zenon DEF Counter
<1>9. QED
  BY <1>1, <1>6, <1>7, <1>8, HistoryKept, Zenon DEF SelectInv

LEMMA SelectActivate ==
    ASSUME SelectInv, NEW u \in Urls, Select!Activate(u)
    PROVE  SelectInv'
<1>1. /\ obj[u] # Select!NoTunnel /\ u \notin Select!Range(s_active)
      /\ s_active' = Append(s_active, u)
      /\ UNCHANGED <<obj, id, created, reader, history, via>>
  BY Zenon DEF Select!Activate
<1>2. /\ s_active \in Seq(Urls) /\ obj[u].tag # 0
      /\ \A i, j \in 1 .. Len(s_active) : s_active[i] = s_active[j] => i = j
      /\ \A i \in 1 .. Len(s_active) : obj[s_active[i]].tag # 0
  BY <1>1, SelectFacts, Zenon DEF SelectInv, ActiveExist
<1>3. DOMAIN s_active = 1 .. Len(s_active)
  BY <1>2
<1>4. \A i \in 1 .. Len(s_active) : s_active[i] # u
  BY <1>1, <1>3, Zenon DEF Select!Range
<1>5. /\ s_active' \in Seq(Urls) /\ Len(s_active') = Len(s_active) + 1 /\ Len(s_active) \in Nat
      /\ s_active'[Len(s_active) + 1] = u
      /\ \A i \in 1 .. Len(s_active) : s_active'[i] = s_active[i]
  BY <1>1, <1>2
<1>6. \A i \in 1 .. Len(s_active') : i \in 1 .. Len(s_active) \/ i = Len(s_active) + 1
  BY <1>5
<1>7. ActiveExist'
  <2> DEFINE n == Len(s_active) + 1
  <2>1. \A i \in 1 .. Len(s_active') : i # n => i \in 1 .. Len(s_active) /\ s_active'[i] = s_active[i]
    BY <1>5, <1>6, Zenon
  <2>2. s_active'[n] = u
    BY <1>5, Zenon
  <2> HIDE DEF n
  <2>3. ASSUME NEW i \in 1 .. Len(s_active'), NEW j \in 1 .. Len(s_active'), s_active'[i] = s_active'[j]
        PROVE  i = j
    <3>1. CASE i = n /\ j # n
      BY <1>4, <2>1, <2>2, <2>3, <3>1, Zenon
    <3>2. CASE i # n /\ j = n
      BY <1>4, <2>1, <2>2, <2>3, <3>2, Zenon
    <3>3. CASE i # n /\ j # n
      BY <1>2, <2>1, <2>3, <3>3, Zenon
    <3>4. QED
      BY <3>1, <3>2, <3>3, Zenon
  <2>4. \A i \in 1 .. Len(s_active') : obj'[s_active'[i]].tag # 0
    BY <1>1, <1>2, <2>1, <2>2, Zenon
  <2>5. QED
    BY <1>5, <2>3, <2>4, Zenon DEF ActiveExist
<1>8. SelectTypeOK' /\ Numbered' /\ TagsDiffer' /\ Counter'
  BY <1>1, Zenon DEF SelectInv, SelectTypeOK, Numbered, TagsDiffer, Counter
<1>9. QED
  BY <1>1, <1>7, <1>8, HistoryKept, Zenon DEF SelectInv

(* The set of active tunnels after tunnel_set_delete *)
LEMMA SelectShorter ==
    ASSUME SelectInv, NEW u \in Urls, s_active' = Select!tunnel_set_delete(s_active, u),
           UNCHANGED obj
    PROVE  ActiveExist'
<1>1. /\ s_active \in Seq(Urls)
      /\ \A i, j \in 1 .. Len(s_active) : s_active[i] = s_active[j] => i = j
      /\ \A i \in 1 .. Len(s_active) : obj[s_active[i]].tag # 0
  BY Zenon DEF SelectInv, ActiveExist
<1>2. CASE u \in Select!Range(s_active)
  <2>1. PICK s \in Seq(Urls) : s = s_active
    BY <1>1, Zenon
  <2>2. u \in Select!Range(s) /\ \A i, j \in 1 .. Len(s) : s[i] = s[j] => i = j
    BY <1>1, <1>2, <2>1, Zenon
  <2>3. LET t == Select!tunnel_set_delete(s, u)
        IN  /\ t \in Seq(Urls)
            /\ \A i, j \in 1 .. Len(t) : t[i] = t[j] => i = j
            /\ \A i \in 1 .. Len(t) : \E j \in 1 .. Len(s) : t[i] = s[j]
    BY <2>2, SetDelete
  <2>4. s_active' = Select!tunnel_set_delete(s, u)
    BY <2>1, Zenon
  <2>5. /\ s_active' \in Seq(Urls)
        /\ \A i, j \in 1 .. Len(s_active') : s_active'[i] = s_active'[j] => i = j
        /\ \A i \in 1 .. Len(s_active') : \E j \in 1 .. Len(s) : s_active'[i] = s[j]
    BY <2>3, <2>4, Zenon
  <2>6. \A i \in 1 .. Len(s_active') : \E j \in 1 .. Len(s_active) : s_active'[i] = s_active[j]
    BY <2>1, <2>5, Zenon
  <2>7. \A i \in 1 .. Len(s_active') : obj'[s_active'[i]].tag # 0
    BY <1>1, <2>6
  <2>8. QED
    BY <2>5, <2>7, Zenon DEF ActiveExist
<1>3. CASE u \notin Select!Range(s_active)
  <2>1. s_active' = s_active
    BY <1>3, Zenon DEF Select!tunnel_set_delete, Select!Range
  <2>2. QED
    BY <2>1, ActiveKept, Zenon
<1>4. QED
  BY <1>2, <1>3

LEMMA SelectDelete ==
    ASSUME SelectInv, NEW u \in Urls, Select!Delete(u)
    PROVE  SelectInv'
<1>1. UNCHANGED <<id, created, reader, history, via>>
  BY Zenon DEF Select!Delete
<1>2. CASE u \in Select!Range(s_active)
  <2>1. s_active' = Select!tunnel_set_delete(s_active, u) /\ UNCHANGED obj
    BY <1>2, Zenon DEF Select!Delete
  <2>2. SelectTypeOK' /\ Numbered' /\ TagsDiffer' /\ Counter'
    BY <1>1, <2>1, Zenon DEF SelectInv, SelectTypeOK, Numbered, TagsDiffer, Counter
  <2>3. QED
    BY <1>1, <2>1, <2>2, SelectShorter, HistoryKept, Zenon DEF SelectInv
<1>3. CASE u \notin Select!Range(s_active)
  <2>1. obj' = [obj EXCEPT ![u] = Select!NoTunnel] /\ UNCHANGED s_active
    BY <1>3, Zenon DEF Select!Delete
  <2>2. created \in Nat /\ id \in Int /\ obj \in [Urls -> SelectTunnel]
    BY Zenon DEF SelectInv, SelectTypeOK
  <2>3. created <= created /\ 0 <= created
    BY <2>2
  <2>4. SelectTypeOK' /\ Numbered' /\ TagsDiffer'
    <3>1. PICK n \in Nat : n = created
      BY <2>2, Zenon
    <3>2. PICK r \in SelectTunnel : r = Select!NoTunnel
      BY SelectNone, Zenon
    <3>3. r.tag = 0 /\ r.tag <= n /\ created <= n /\ created' = n /\ id' \in Int
          /\ obj' = [obj EXCEPT ![u] = r]
      BY <1>1, <2>1, <2>2, <2>3, <3>1, <3>2, SelectNone, Zenon
    <3>4. QED
      BY <1>1, <3>2, <3>3, SelectObj, Zenon
  <2>5. ActiveExist'
    <3>1. s_active \in Seq(Urls)
      BY Zenon DEF SelectInv, ActiveExist
    <3>2. DOMAIN s_active = 1 .. Len(s_active) /\ \A i \in 1 .. Len(s_active) : s_active[i] \in Urls
      BY <3>1
    <3>3. \A i \in 1 .. Len(s_active) : s_active[i] # u
      BY <1>3, <3>2, Zenon DEF Select!Range
    <3>4. \A i \in 1 .. Len(s_active) : obj'[s_active[i]] = obj[s_active[i]]
      BY <2>1, <2>2, <3>2, <3>3, Zenon
    <3>5. QED
      BY <2>1, <3>4 DEF SelectInv, ActiveExist
  <2>6. Counter'
    BY <1>1, Zenon DEF SelectInv, Counter
  <2>7. QED
    BY <1>1, <2>4, <2>5, <2>6, HistoryKept, Zenon DEF SelectInv
<1>4. QED
  BY <1>2, <1>3

LEMMA SelectTags ==
    ASSUME SelectInv, NEW a \in Urls, NEW b \in Urls
    PROVE  /\ a # b /\ obj[a].tag # 0 => obj[a].tag # obj[b].tag
           /\ a # b /\ reader[a].at # "no" => reader[a].tag # reader[b].tag
           /\ reader[a].at # "no" => reader[a].tag # obj[b].tag
BY Zenon DEF SelectInv, TagsDiffer

(* Steps of a reconnect thread *)
LEMMA TagsReader ==
    ASSUME SelectInv, NEW u \in Urls, NEW q, reader'[u] = q,
           \A v \in Urls : v # u => reader'[v] = reader[v],
           \A v \in Urls : obj'[v].tag = obj[v].tag,
           q.at # "no" => \A v \in Urls : (v # u => reader[v].tag # q.tag) /\ obj[v].tag # q.tag,
           q.at = "no" => q.tag = 0
    PROVE  TagsDiffer'
<1>1. ASSUME NEW a \in Urls, NEW b \in Urls, a # b, obj'[a].tag # 0 PROVE obj'[a].tag # obj'[b].tag
  BY <1>1 DEF SelectInv, TagsDiffer
<1>2. ASSUME NEW a \in Urls, NEW b \in Urls, reader'[a].at # "no" PROVE reader'[a].tag # obj'[b].tag
  <2>1. CASE a = u
    BY <1>2, <2>1, Zenon
  <2>2. CASE a # u
    <3>1. reader'[a] = reader[a] /\ obj'[b].tag = obj[b].tag
      BY <2>2, Zenon
    <3>2. reader[a].tag # obj[b].tag
      BY <1>2, <3>1, SelectTags
    <3>3. QED
      BY <3>1, <3>2, Zenon
  <2>3. QED
    BY <2>1, <2>2, Zenon
<1>3. ASSUME NEW a \in Urls, NEW b \in Urls, a # b, reader'[a].at # "no"
      PROVE  reader'[a].tag # reader'[b].tag
  <2>1. CASE a = u
    BY <1>3, <2>1, Zenon
  <2>2. CASE b = u
    <3>1. reader'[a] = reader[a]
      BY <1>3, <2>2, Zenon
    <3>2. reader[a].tag # 0
      BY <1>3, <3>1, SelectFacts, Zenon
    <3>3. QED
      BY <1>3, <2>2, <3>1, <3>2, Zenon
  <2>3. CASE a # u /\ b # u
    <3>1. reader'[a] = reader[a] /\ reader'[b] = reader[b]
      BY <2>3, Zenon
    <3>2. reader[a].tag # reader[b].tag
      BY <1>3, <3>1, SelectTags
    <3>3. QED
      BY <3>1, <3>2, Zenon
  <2>4. QED
    BY <2>1, <2>2, <2>3, Zenon
<1>4. QED
  BY <1>1, <1>2, <1>3, Zenon DEF TagsDiffer

LEMMA SelectRead ==
    ASSUME SelectInv, NEW u \in Urls, Select!ReconnectRead(u)
    PROVE  SelectInv'
<1> DEFINE q == [at |-> "read", id |-> id, tag |-> created + 1]
           r == [obj[u] EXCEPT !.reconnect = TRUE]
<1>1. /\ Select!MayCreate /\ created < MaxCreate /\ created' = created + 1
      /\ u \in Select!Range(s_active)
      /\ obj' = [obj EXCEPT ![u] = r] /\ reader' = [reader EXCEPT ![u] = q]
      /\ UNCHANGED <<s_active, id, history, via>>
  BY Zenon DEF Select!ReconnectRead
<1>2. /\ id = created /\ created \in Nat /\ created + 1 \in Nat /\ created + 1 # 0
      /\ \A v \in Urls : reader[v].at # "read"
      /\ \A v \in Urls : obj[v].tag # created + 1 /\ reader[v].tag # created + 1
  BY <1>1, SelectCounter, Zenon
<1>3. /\ q \in SelectReader /\ q.at = "read" /\ q.tag = created + 1 /\ q.id = q.tag - 1
      /\ q.tag \in 1 .. created' /\ "read" # "no"
  <2>1. id \in Int /\ created = (created + 1) - 1 /\ created + 1 \in 1 .. created' /\ "read" # "no"
    <3>1. created' = created + 1 /\ id = created /\ created \in Nat
      BY <1>1, <1>2, Zenon
    <3>2. QED
      BY <3>1
  <2>2. QED
    BY <1>2, <2>1, Zenon DEF SelectReader
<1>4. r \in SelectTunnel /\ r.tag = obj[u].tag /\ r.id = obj[u].id /\ obj[u].tag # 0
  <2>1. obj[u] \in SelectTunnel
    BY SelectFacts, Zenon
  <2>2. s_active \in Seq(Urls)
    BY Zenon DEF SelectInv, ActiveExist
  <2>3. DOMAIN s_active = 1 .. Len(s_active)
    BY <2>2
  <2>4. obj[u].tag # 0
    BY <1>1, <2>3, Zenon DEF SelectInv, ActiveExist, Select!Range
  <2>5. r \in SelectTunnel /\ r.tag = obj[u].tag /\ r.id = obj[u].id
    BY <2>1, Zenon DEF SelectTunnel
  <2>6. QED
    BY <2>4, <2>5
<1> HIDE DEF q, r
<1>5. /\ obj' \in [Urls -> SelectTunnel] /\ reader' \in [Urls -> SelectReader]
      /\ obj'[u] = r /\ \A v \in Urls : v # u => obj'[v] = obj[v]
      /\ reader'[u] = q /\ \A v \in Urls : v # u => reader'[v] = reader[v]
  BY <1>1, <1>3, <1>4, Zenon DEF SelectInv, SelectTypeOK
<1>6. \A v \in Urls : obj'[v].tag = obj[v].tag /\ obj'[v].id = obj[v].id
  BY <1>4, <1>5, Zenon
<1>7. SelectTypeOK'
  BY <1>1, <1>2, <1>5, Zenon DEF SelectInv, SelectTypeOK
<1>8. ActiveExist'
  BY <1>1, <1>6, ActiveKept, Zenon
<1>9. \A v \in Urls : /\ obj[v].tag <= created'
                      /\ \A x \in 1 .. created : x \in 1 .. created'
  <2>1. \A v \in Urls : obj[v].tag <= created /\ obj[v].tag \in Nat
    BY SelectFacts, Zenon
  <2>2. QED
    BY <1>1, <1>2, <2>1
<1>10. Numbered'
  BY <1>3, <1>4, <1>5, <1>6, <1>9 DEF SelectInv, Numbered
<1>11. TagsDiffer'
  <2>1. /\ reader'[u] = q /\ \A v \in Urls : v # u => reader'[v] = reader[v]
        /\ \A v \in Urls : obj'[v].tag = obj[v].tag
        /\ q.at # "no"
    BY <1>3, <1>5, <1>6, Zenon
  <2>2. \A v \in Urls : (v # u => reader[v].tag # q.tag) /\ obj[v].tag # q.tag
    BY <1>2, <1>3, Zenon
  <2>3. QED
    BY <2>1, <2>2, TagsReader, Zenon
<1>12. Counter'
  BY <1>1, <1>2, <1>3, <1>5, Zenon DEF Counter
<1>13. QED
  BY <1>1, <1>7, <1>8, <1>10, <1>11, <1>12, HistoryKept, Zenon DEF SelectInv

LEMMA SelectWrite ==
    ASSUME SelectInv, NEW u \in Urls, Select!ReconnectWrite(u)
    PROVE  SelectInv'
<1> DEFINE q == [reader[u] EXCEPT !.at = "made"]
<1>1. /\ reader[u].at = "read" /\ id' = (reader[u].id + 1) % IdMod
      /\ reader' = [reader EXCEPT ![u] = q]
      /\ UNCHANGED <<obj, s_active, created, history, via>>
  BY Zenon DEF Select!ReconnectWrite
<1>2. "read" # "no" /\ "made" # "no" /\ "made" # "read"
  OBVIOUS
<1>3. /\ reader[u] \in SelectReader /\ reader[u].id = reader[u].tag - 1
      /\ reader[u].tag \in 1 .. created /\ reader[u].tag = created /\ created \in Nat
  BY <1>1, <1>2, SelectFacts, Zenon DEF SelectInv, Numbered, Counter, SelectTypeOK
<1>4. q \in SelectReader /\ q.at = "made" /\ q.tag = reader[u].tag /\ q.id = reader[u].id
  BY <1>3, Zenon DEF SelectReader
<1>5. id' = created' % IdMod /\ id' \in Int
  BY <1>1, <1>3, SelectAssumption
<1> HIDE DEF q
<1>6. /\ reader' \in [Urls -> SelectReader]
      /\ reader'[u] = q /\ \A v \in Urls : v # u => reader'[v] = reader[v]
  BY <1>1, <1>4, Zenon DEF SelectInv, SelectTypeOK
<1>7. SelectTypeOK'
  BY <1>1, <1>5, <1>6, Zenon DEF SelectInv, SelectTypeOK
<1>8. ActiveExist'
  BY <1>1, ActiveKept, Zenon
<1>9. Numbered'
  BY <1>1, <1>2, <1>3, <1>4, <1>6, Zenon DEF SelectInv, Numbered
<1>10. TagsDiffer'
  <2>1. \A v \in Urls : (v # u => reader[v].tag # q.tag) /\ obj[v].tag # q.tag
    BY <1>1, <1>2, <1>4, Zenon DEF SelectInv, TagsDiffer
  <2>2. QED
    BY <1>1, <1>2, <1>4, <1>6, <2>1, TagsReader, Zenon
<1>11. Counter'
  <2>1. \A v \in Urls : reader'[v].at # "read"
    <3>1. SUFFICES ASSUME NEW v \in Urls, v # u, reader[v].at = "read" PROVE FALSE
      BY <1>2, <1>4, <1>6, Zenon
    <3>2. reader[v].tag = created
      BY <3>1, Zenon DEF SelectInv, Counter
    <3>3. QED
      BY <1>1, <1>2, <1>3, <3>1, <3>2, Zenon DEF SelectInv, TagsDiffer
  <2>2. QED
    BY <1>5, <2>1, Zenon DEF Counter
<1>12. QED
  BY <1>1, <1>7, <1>8, <1>9, <1>10, <1>11, HistoryKept, Zenon DEF SelectInv

(* A reconnect thread is over. *)
LEMMA SelectIdle ==
    ASSUME SelectInv, NEW u \in Urls, reader[u].at = "made",
           reader' = [reader EXCEPT ![u] = Select!Idle],
           UNCHANGED <<id, created>>
    PROVE  /\ reader' \in [Urls -> SelectReader] /\ reader'[u] = Select!Idle
           /\ \A v \in Urls : v # u => reader'[v] = reader[v]
           /\ Counter'
<1>1. "made" # "read" /\ "no" # "read"
  OBVIOUS
<1>2. /\ reader' \in [Urls -> SelectReader] /\ reader'[u] = Select!Idle
      /\ \A v \in Urls : v # u => reader'[v] = reader[v]
  BY SelectNone, Zenon DEF SelectInv, SelectTypeOK
<1>3. \A v \in Urls : reader'[v].at = "read" <=> reader[v].at = "read"
  BY <1>1, <1>2, SelectNone, Zenon
<1>4. \A v \in Urls : reader'[v].at = "read" => reader'[v].tag = reader[v].tag
  BY <1>1, <1>2, SelectNone, Zenon
<1>5. QED
  BY <1>2, <1>3, <1>4, Zenon DEF SelectInv, Counter

LEMMA SelectFail ==
    ASSUME SelectInv, NEW u \in Urls, Select!ReconnectFail(u)
    PROVE  SelectInv'
<1>1. /\ reader[u].at = "made" /\ reader' = [reader EXCEPT ![u] = Select!Idle]
      /\ s_active' = s_active \/ s_active' = Select!tunnel_set_delete(s_active, u)
      /\ UNCHANGED <<obj, id, created, history, via>>
  BY Zenon DEF Select!ReconnectFail
<1>2. /\ reader' \in [Urls -> SelectReader] /\ reader'[u] = Select!Idle
      /\ \A v \in Urls : v # u => reader'[v] = reader[v]
      /\ Counter'
  BY <1>1, SelectIdle, Zenon
<1>3. SelectTypeOK'
  BY <1>1, <1>2, Zenon DEF SelectInv, SelectTypeOK
<1>4. ActiveExist'
  BY <1>1, ActiveKept, SelectShorter, Zenon
<1>5. Numbered'
  BY <1>1, <1>2, SelectNone, Zenon DEF SelectInv, Numbered
<1>6. TagsDiffer'
  BY <1>1, <1>2, SelectNone, TagsReader, Zenon
<1>7. QED
  BY <1>1, <1>2, <1>3, <1>4, <1>5, <1>6, HistoryKept, Zenon DEF SelectInv

LEMMA SelectDone ==
    ASSUME SelectInv, NEW u \in Urls, Select!ReconnectDone(u)
    PROVE  SelectInv'
<1>1. /\ reader[u].at = "made" /\ reader' = [reader EXCEPT ![u] = Select!Idle]
      /\ obj' = IF obj[u] = Select!NoTunnel THEN obj
                ELSE [obj EXCEPT ![u] = Select!tunnel_create(reader[u].tag, reader[u].id)]
      /\ UNCHANGED <<s_active, id, created, history, via>>
  BY Zenon DEF Select!ReconnectDone
<1>2. /\ reader' \in [Urls -> SelectReader] /\ reader'[u] = Select!Idle
      /\ \A v \in Urls : v # u => reader'[v] = reader[v]
      /\ Counter'
  BY <1>1, SelectIdle, Zenon
<1>3. CASE obj[u] = Select!NoTunnel
  <2>1. obj' = obj
    BY <1>1, <1>3, Zenon
  <2>2. SelectTypeOK' /\ ActiveExist'
    BY <1>1, <1>2, <2>1, ActiveKept, Zenon DEF SelectInv, SelectTypeOK
  <2>3. Numbered'
    BY <1>1, <1>2, <2>1, SelectNone DEF SelectInv, Numbered
  <2>4. TagsDiffer'
    BY <1>2, <2>1, SelectNone, TagsReader, Zenon
  <2>5. QED
    BY <1>1, <1>2, <2>2, <2>3, <2>4, HistoryKept, Zenon DEF SelectInv
<1>4. CASE obj[u] # Select!NoTunnel
  <2> DEFINE r == Select!tunnel_create(reader[u].tag, reader[u].id)
             x == reader[u].tag
  <2>1. "made" # "no"
    OBVIOUS
  <2>2. /\ reader[u] \in SelectReader /\ x \in 0 .. created /\ x # 0 /\ reader[u].id = x - 1
    BY <1>1, <2>1, SelectFacts, Zenon
  <2>3. x \in Nat /\ reader[u].id \in Int /\ x <= created
    <3>1. created \in Nat
      BY Zenon DEF SelectInv, SelectTypeOK
    <3>2. QED
      BY <2>2, <3>1
  <2>4. r \in SelectTunnel /\ r.tag = x /\ r.id = x - 1
    BY <2>2, <2>3, SelectNone, Zenon
  <2>5. obj' = [obj EXCEPT ![u] = r]
    BY <1>1, <1>4, Zenon
  <2> HIDE DEF r
  <2>6. /\ obj' \in [Urls -> SelectTunnel] /\ obj'[u] = r
        /\ \A v \in Urls : v # u => obj'[v] = obj[v]
    BY <2>4, <2>5, Zenon DEF SelectInv, SelectTypeOK
  <2>7. SelectTypeOK'
    BY <1>1, <1>2, <2>6, Zenon DEF SelectInv, SelectTypeOK
  <2>8. ActiveExist'
    BY <1>1, <2>2, <2>4, <2>6, ActiveKept, Zenon
  <2>9. Numbered'
    BY <1>1, <1>2, <2>2, <2>3, <2>4, <2>6, SelectNone, Zenon DEF SelectInv, Numbered
  <2>10. /\ \A v \in Urls : obj[v].tag # x
         /\ \A v \in Urls : v # u => reader[v].tag # x
    BY <1>1, <2>1, Zenon DEF SelectInv, TagsDiffer
  <2>11. TagsDiffer'
    <3>1. ASSUME NEW a \in Urls, NEW b \in Urls, a # b, obj'[a].tag # 0
          PROVE  obj'[a].tag # obj'[b].tag
      <4>1. CASE a = u
        BY <2>4, <2>6, <2>10, <3>1, <4>1, Zenon
      <4>2. CASE b = u
        BY <2>4, <2>6, <2>10, <3>1, <4>2, Zenon
      <4>3. CASE a # u /\ b # u
        BY <2>6, <3>1, <4>3, Zenon DEF SelectInv, TagsDiffer
      <4>4. QED
        BY <4>1, <4>2, <4>3, Zenon
    <3>2. ASSUME NEW a \in Urls, reader'[a].at # "no"
          PROVE  a # u /\ reader'[a] = reader[a] /\ reader[a].tag # 0 /\ reader[a].at # "no"
      BY <1>2, <3>2, SelectNone, SelectFacts, Zenon
    <3>3. ASSUME NEW a \in Urls, NEW b \in Urls, reader'[a].at # "no"
          PROVE  reader'[a].tag # obj'[b].tag
      <4>1. CASE b = u
        BY <2>4, <2>6, <2>10, <3>2, <3>3, <4>1, Zenon
      <4>2. CASE b # u
        BY <2>6, <3>2, <3>3, <4>2 DEF SelectInv, TagsDiffer
      <4>3. QED
        BY <4>1, <4>2, Zenon
    <3>4. ASSUME NEW a \in Urls, NEW b \in Urls, a # b, reader'[a].at # "no"
          PROVE  reader'[a].tag # reader'[b].tag
      <4>1. CASE b = u
        BY <1>2, <3>2, <3>4, <4>1, SelectNone, Zenon
      <4>2. CASE b # u
        BY <1>2, <3>2, <3>4, <4>2 DEF SelectInv, TagsDiffer
      <4>3. QED
        BY <4>1, <4>2, Zenon
    <3>5. QED
      BY <3>1, <3>3, <3>4, Zenon DEF TagsDiffer
  <2>12. QED
    BY <1>1, <1>2, <2>7, <2>8, <2>9, <2>11, HistoryKept, Zenon DEF SelectInv
<1>5. QED
  BY <1>3, <1>4

(* tunnel_get: the tunnel of the weights, the one to avoid, and the one that is taken *)
GetFirst(p, repeat) == Select!PickIndex((p.hash * (repeat + 1)) % (HashMax + 1))
GetIndex(p, repeat) == Select!NextIndex(GetFirst(p, repeat), Select!BadIndex(p, repeat))
GetBad(p) == {i \in 1 .. Len(s_active) : obj[s_active[i]].id = history[p.idx].id}

LEMMA GetIndices ==
    ASSUME SelectInv, NEW p, NEW repeat, s_active # <<>>,
           ~(GetFirst(p, repeat) > Len(s_active))
    PROVE  /\ GetIndex(p, repeat) \in 1 .. Len(s_active)
           /\ Select!BadIndex(p, repeat) # 0 => Select!BadIndex(p, repeat) \in GetBad(p)
           /\ repeat # 0 /\ history[p.idx].hash = p.hash /\ GetBad(p) # {} =>
                Select!BadIndex(p, repeat) \in GetBad(p)
           /\ Len(s_active) > 1 => GetIndex(p, repeat) # Select!BadIndex(p, repeat)
<1> DEFINE n == Len(s_active)
           f == GetFirst(p, repeat)
           b == Select!BadIndex(p, repeat)
           bad == GetBad(p)
           c == CHOOSE i \in bad : \A j \in bad : i <= j
<1>1. s_active \in Seq(Urls)
  BY Zenon DEF SelectInv, ActiveExist
<1>2. n \in Nat \ {0}
  BY <1>1
<1>3. f \in 1 .. n
  <2> DEFINE h == (p.hash * (repeat + 1)) % (HashMax + 1)
             pick == h * Select!total_weight[n]
             below(i) == pick < HashMax * Select!total_weight[i]
             d == CHOOSE i \in 1 .. n : below(i) /\ \A j \in 1 .. i - 1 : ~below(j)
             T == {i \in 1 .. n : below(i)}
  <2>1. f = IF \E i \in 1 .. n : below(i) THEN d ELSE n + 1
    BY Zenon DEF GetFirst, Select!PickIndex
  <2>2. ~(f > n) /\ n + 1 > n
    BY <1>2
  <2> HIDE DEF below, f
  <2>3. \E i \in 1 .. n : below(i)
    BY <2>1, <2>2, Zenon
  <2>4. T \subseteq Nat /\ T # {}
    BY <2>3
  <2>5. PICK x \in T : \A y \in T : x <= y
    BY <2>4, LeastNumber, Zenon
  <2>6. ASSUME NEW j \in 1 .. x - 1 PROVE ~below(j)
    <3>1. j \in 1 .. n /\ ~(x <= j)
      BY <1>2, <2>5, <2>6
    <3>2. QED
      BY <2>5, <3>1, Zenon
  <2>7. d \in 1 .. n
    BY <2>5, <2>6, Zenon
  <2>8. QED
    BY <2>1, <2>3, <2>7, Zenon
<1>4. bad # {} => c \in bad
  <2>1. bad \subseteq Nat
    BY <1>2 DEF GetBad
  <2> HIDE DEF bad
  <2>2. QED
    BY <2>1, LeastNumber, Zenon
<1>5. b = IF repeat = 0 \/ history[p.idx].hash # p.hash \/ bad = {} THEN 0 ELSE c
  BY Zenon DEF GetBad, Select!BadIndex
<1>6. GetIndex(p, repeat) = IF f = b THEN (f % n) + 1 ELSE f
  BY Zenon DEF GetIndex, Select!NextIndex
<1> HIDE DEF n, f, b, bad, c
<1>7. /\ b # 0 => b \in bad
      /\ repeat # 0 /\ history[p.idx].hash = p.hash /\ bad # {} => b \in bad
  BY <1>4, <1>5, Zenon
<1>8. GetIndex(p, repeat) \in 1 .. n /\ (n > 1 => GetIndex(p, repeat) # b)
  <2>1. CASE f = b
    <3>1. GetIndex(p, repeat) = (f % n) + 1
      BY <1>6, <2>1, Zenon
    <3>2. f % n \in 0 .. n - 1 /\ (n > 1 => (f % n) + 1 # f)
      BY <1>2, <1>3
    <3>3. QED
      BY <1>2, <2>1, <3>1, <3>2
  <2>2. CASE f # b
    BY <1>3, <1>6, <2>2, Zenon
  <2>3. QED
    BY <2>1, <2>2
<1>9. QED
  BY <1>7, <1>8, Zenon DEF n, b, bad

(* The weight of a tunnel is all that changes. *)
LEMMA Reweigh ==
    ASSUME NEW f \in [Urls -> SelectTunnel], NEW v \in Urls, NEW w \in Int, NEW g,
           g = [f EXCEPT ![v] = [f[v] EXCEPT !.weight = w]]
    PROVE  /\ g \in [Urls -> SelectTunnel]
           /\ \A x \in Urls : g[x].tag = f[x].tag /\ g[x].id = f[x].id
           /\ \A x \in Urls : x # v => g[x] = f[x]
<1>1. PICK r : r = [f[v] EXCEPT !.weight = w]
  BY Zenon
<1>2. f[v] \in SelectTunnel
  BY Zenon
<1>3. r \in SelectTunnel /\ r.tag = f[v].tag /\ r.id = f[v].id
  BY <1>1, <1>2, Zenon DEF SelectTunnel
<1>4. g = [f EXCEPT ![v] = r]
  BY <1>1, Zenon
<1>5. QED
  BY <1>3, <1>4, Zenon

LEMMA NewWeight ==
    ASSUME NEW w \in Int
    PROVE  Select!Punished(w) \in Int /\ Select!Rewarded(w) \in Int
<1>1. /\ (3 * w) \div 4 \in Int /\ (23 * w + 19) \div 20 \in Int /\ Least \in Int /\ One \in Int
  BY SelectAssumption
<1>2. QED
  BY <1>1, Zenon DEF Select!Punished, Select!Rewarded, Select!Max2, Select!Min2

(* What a step of Avoids is *)
SelectAvoids ==
    ~sel'.outside /\ sel'.repeat > 0 /\ sel'.before \in Select!Live /\ Len(s_active) > 1
    => sel'.tag # sel'.before

LEMMA SelectGetNone ==
    ASSUME SelectInv, sel'.outside, UNCHANGED <<obj, s_active, id, created, reader, history, via>>
    PROVE  SelectInv' /\ SelectAvoids
<1>1. SelectTypeOK' /\ Numbered' /\ TagsDiffer' /\ Counter'
  BY Zenon DEF SelectInv, SelectTypeOK, Numbered, TagsDiffer, Counter
<1>2. QED
  BY <1>1, ActiveKept, HistoryKept, Zenon DEF SelectInv, SelectAvoids

(* Only weights and the history change. *)
LEMMA SelectWeights ==
    ASSUME SelectInv, obj' \in [Urls -> SelectTunnel],
           \A v \in Urls : obj'[v].tag = obj[v].tag /\ obj'[v].id = obj[v].id,
           \A v \in Urls : obj[v].tag = 0 => obj'[v] = obj[v],
           UNCHANGED <<s_active, id, created, reader>>
    PROVE  ActiveExist' /\ Numbered' /\ TagsDiffer' /\ Counter'
<1>1. ActiveExist'
  BY ActiveKept, Zenon
<1>2. Numbered'
  BY Zenon DEF SelectInv, Numbered
<1>3. TagsDiffer'
  <2>1. ASSUME NEW a \in Urls, NEW b \in Urls
        PROVE  /\ a # b /\ obj'[a].tag # 0 => obj'[a].tag # obj'[b].tag
               /\ a # b /\ reader'[a].at # "no" => reader'[a].tag # reader'[b].tag
               /\ reader'[a].at # "no" => reader'[a].tag # obj'[b].tag
    <3>1. obj'[a].tag = obj[a].tag /\ obj'[b].tag = obj[b].tag /\ reader' = reader
      BY <2>1, Zenon
    <3>2. /\ a # b /\ obj[a].tag # 0 => obj[a].tag # obj[b].tag
          /\ a # b /\ reader[a].at # "no" => reader[a].tag # reader[b].tag
          /\ reader[a].at # "no" => reader[a].tag # obj[b].tag
      BY SelectTags, Zenon
    <3>3. QED
      BY <3>1, <3>2, Zenon
  <2>2. QED
    BY <2>1, Zenon DEF TagsDiffer
<1>4. Counter'
  BY Zenon DEF SelectInv, Counter
<1>5. QED
  BY <1>1, <1>2, <1>3, <1>4

(* The history and the tunnel of packet p *)
LEMMA SelectRecord ==
    ASSUME SelectInv, NEW p \in Select!Packet, NEW u \in Urls, obj[u].tag # 0,
           history' = [history EXCEPT ![p.idx] = [hash |-> p.hash, id |-> obj[u].id]],
           via' = [via EXCEPT ![p] = obj[u].tag]
    PROVE  /\ Remembered'
           /\ history' \in [0 .. HistSize - 1 -> [hash : Nat, id : Int]]
           /\ via' \in [Select!Packet -> Nat]
<1>1. /\ p.idx \in 0 .. HistSize - 1 /\ p.hash \in HistHashes
      /\ \A q \in Select!Packet : q.idx = p.idx /\ q.hash = p.hash => q = p
  BY DEF Select!Packet
<1>2. p.hash \in Nat
  BY <1>1, SelectAssumption
<1>3. obj[u].tag \in Nat /\ obj[u].id \in Int /\ obj[u].id = obj[u].tag - 1
  <2>1. obj[u] \in SelectTunnel /\ obj[u].tag \in Nat /\ obj[u].id = obj[u].tag - 1
    BY SelectFacts, Zenon
  <2>2. QED
    BY <2>1, Zenon DEF SelectTunnel
<1>4. PICK e : e = [hash |-> p.hash, id |-> obj[u].id]
  BY Zenon
<1>5. e \in [hash : Nat, id : Int] /\ e.hash = p.hash /\ e.id = obj[u].id
  BY <1>2, <1>3, <1>4, Zenon
<1>6. history \in [0 .. HistSize - 1 -> [hash : Nat, id : Int]] /\ via \in [Select!Packet -> Nat]
  BY Zenon DEF SelectInv, SelectTypeOK
<1>7. history' = [history EXCEPT ![p.idx] = e]
  BY <1>4, Zenon
<1>8. /\ history' \in [0 .. HistSize - 1 -> [hash : Nat, id : Int]] /\ history'[p.idx] = e
      /\ \A x \in 0 .. HistSize - 1 : x # p.idx => history'[x] = history[x]
  BY <1>1, <1>5, <1>6, <1>7, Zenon
<1>9. /\ via' \in [Select!Packet -> Nat] /\ via'[p] = obj[u].tag
      /\ \A q \in Select!Packet : q # p => via'[q] = via[q]
  BY <1>3, <1>6, Zenon
<1>10. ASSUME NEW q \in Select!Packet, history'[q.idx].hash = q.hash, via'[q] # 0
       PROVE  history'[q.idx].id = via'[q] - 1
  <2>1. CASE q = p
    BY <1>3, <1>5, <1>8, <1>9, <2>1, Zenon
  <2>2. CASE q # p
    <3>1. q.idx \in 0 .. HistSize - 1
      BY DEF Select!Packet
    <3>2. q.idx # p.idx
      BY <1>1, <1>5, <1>8, <1>10, <2>2, Zenon
    <3>3. history'[q.idx] = history[q.idx] /\ via'[q] = via[q]
      BY <1>8, <1>9, <2>2, <3>1, <3>2, Zenon
    <3>4. history[q.idx].id = via[q] - 1
      BY <1>10, <3>3, Zenon DEF SelectInv, Remembered
    <3>5. QED
      BY <3>3, <3>4, Zenon
  <2>3. QED
    BY <2>1, <2>2
<1>11. QED
  BY <1>8, <1>9, <1>10, Zenon DEF Remembered

LEMMA SelectGet ==
    ASSUME SelectInv, NEW p \in Select!Packet, NEW repeat \in 0 .. MaxRepeat,
           Select!tunnel_get(p, repeat)
    PROVE  SelectInv' /\ SelectAvoids
<1> DEFINE first == GetFirst(p, repeat)
           bad == Select!BadIndex(p, repeat)
           idx == GetIndex(p, repeat)
           u == s_active[idx]
           punished == IF bad = 0 THEN obj
                       ELSE [obj EXCEPT ![s_active[bad]] = [obj[s_active[bad]] EXCEPT
                                !.weight = Select!Punished(obj[s_active[bad]].weight)]]
<1>1. s_active # <<>> /\ UNCHANGED <<s_active, id, created, reader>>
  BY Zenon DEF Select!tunnel_get
<1>2. CASE first > Len(s_active)
  <2>1. /\ sel' = [pkt |-> p, repeat |-> repeat, tag |-> 0, before |-> via[p], outside |-> TRUE]
        /\ UNCHANGED <<obj, history, via>>
    BY <1>2, Zenon DEF Select!tunnel_get, GetFirst
  <2>2. sel'.outside
    BY <2>1, Zenon
  <2>3. QED
    BY <1>1, <2>1, <2>2, SelectGetNone, Zenon
<1>3. CASE ~(first > Len(s_active))
  <2>1. /\ obj' = [punished EXCEPT ![u] = [punished[u] EXCEPT
                       !.weight = Select!Rewarded(punished[u].weight)]]
        /\ history' = [history EXCEPT ![p.idx] = [hash |-> p.hash, id |-> obj[u].id]]
        /\ via' = [via EXCEPT ![p] = obj[u].tag]
        /\ sel' = [pkt |-> p, repeat |-> repeat, tag |-> obj[u].tag,
                   before |-> IF history[p.idx].hash = p.hash THEN via[p] ELSE 0,
                   outside |-> FALSE]
    BY <1>3, Zenon DEF Select!tunnel_get, GetFirst, GetIndex
  <2>2. /\ idx \in 1 .. Len(s_active)
        /\ bad # 0 => bad \in GetBad(p)
        /\ repeat # 0 /\ history[p.idx].hash = p.hash /\ GetBad(p) # {} => bad \in GetBad(p)
        /\ Len(s_active) > 1 => idx # bad
    BY <1>1, <1>3, GetIndices, Zenon
  <2>3. bad # 0 => bad \in 1 .. Len(s_active)
    <3>1. GetBad(p) \subseteq 1 .. Len(s_active)
      BY DEF GetBad
    <3>2. QED
      BY <2>2, <3>1, Zenon
  <2>4. /\ s_active \in Seq(Urls)
        /\ \A i, j \in 1 .. Len(s_active) : s_active[i] = s_active[j] => i = j
        /\ \A i \in 1 .. Len(s_active) : obj[s_active[i]].tag # 0
        /\ obj \in [Urls -> SelectTunnel]
    BY Zenon DEF SelectInv, ActiveExist, SelectTypeOK
  <2>5. \A i \in 1 .. Len(s_active) : s_active[i] \in Urls
    BY <2>4
  <2> HIDE DEF first, bad, idx
  <2>6. u \in Urls /\ obj[u].tag # 0
    BY <2>2, <2>4, <2>5, Zenon
  <2>7. /\ punished \in [Urls -> SelectTunnel]
        /\ \A v \in Urls : punished[v].tag = obj[v].tag /\ punished[v].id = obj[v].id
        /\ \A v \in Urls : obj[v].tag = 0 => punished[v] = obj[v]
    <3>1. CASE bad = 0
      <4>1. punished = obj
        BY <3>1, Zenon
      <4>2. QED
        BY <2>4, <4>1, Zenon
    <3>2. CASE bad # 0
      <4>1. PICK v : v = s_active[bad]
        BY Zenon
      <4>2. v \in Urls /\ obj[v].tag # 0
        BY <2>3, <2>4, <2>5, <3>2, <4>1, Zenon
      <4>3. PICK f \in [Urls -> SelectTunnel] : f = obj
        BY <2>4, Zenon
      <4>4. PICK w : w = Select!Punished(f[v].weight)
        BY Zenon
      <4>5. f[v].weight \in Int
        BY <4>2, <4>3, Zenon DEF SelectTunnel
      <4>6. w \in Int
        BY <4>4, <4>5, NewWeight, Zenon
      <4>7. PICK g : g = punished
        BY Zenon
      <4>8. g = [f EXCEPT ![v] = [f[v] EXCEPT !.weight = w]]
        BY <3>2, <4>1, <4>3, <4>4, <4>7, Zenon
      <4> HIDE DEF punished
      <4>9. /\ g \in [Urls -> SelectTunnel]
            /\ \A x \in Urls : g[x].tag = f[x].tag /\ g[x].id = f[x].id
            /\ \A x \in Urls : x # v => g[x] = f[x]
        BY <4>2, <4>6, <4>8, Reweigh
      <4>10. QED
        BY <4>2, <4>3, <4>7, <4>9, Zenon
    <3>3. QED
      BY <3>1, <3>2, Zenon
  <2> HIDE DEF punished, u
  <2>8. /\ obj' \in [Urls -> SelectTunnel]
        /\ \A v \in Urls : obj'[v].tag = obj[v].tag /\ obj'[v].id = obj[v].id
        /\ \A v \in Urls : obj[v].tag = 0 => obj'[v] = obj[v]
    <3>1. PICK f \in [Urls -> SelectTunnel] : f = punished
      BY <2>7, Zenon
    <3>2. PICK v \in Urls : v = u
      BY <2>6, Zenon
    <3>3. PICK w : w = Select!Rewarded(f[v].weight)
      BY Zenon
    <3>4. f[v].weight \in Int
      BY Zenon DEF SelectTunnel
    <3>5. w \in Int
      BY <3>3, <3>4, NewWeight, Zenon
    <3>6. PICK g : g = obj'
      BY Zenon
    <3>7. g = [f EXCEPT ![v] = [f[v] EXCEPT !.weight = w]]
      BY <2>1, <3>1, <3>2, <3>3, <3>6, Zenon
    <3>8. /\ g \in [Urls -> SelectTunnel]
          /\ \A x \in Urls : g[x].tag = f[x].tag /\ g[x].id = f[x].id
          /\ \A x \in Urls : x # v => g[x] = f[x]
      BY <3>5, <3>7, Reweigh
    <3>9. \A x \in Urls : obj[x].tag = 0 => obj'[x] = obj[x]
      BY <2>6, <2>7, <3>1, <3>2, <3>6, <3>8, Zenon
    <3>10. \A x \in Urls : obj'[x].tag = obj[x].tag /\ obj'[x].id = obj[x].id
      BY <2>7, <3>1, <3>6, <3>8, Zenon
    <3>11. QED
      BY <3>6, <3>8, <3>9, <3>10, Zenon
  <2>9. ActiveExist' /\ Numbered' /\ TagsDiffer' /\ Counter'
    BY <1>1, <2>8, SelectWeights, Zenon
  <2>10. /\ Remembered'
         /\ history' \in [0 .. HistSize - 1 -> [hash : Nat, id : Int]]
         /\ via' \in [Select!Packet -> Nat]
    BY <2>1, <2>6, SelectRecord, Zenon
  <2>11. SelectInv'
    BY <1>1, <2>8, <2>9, <2>10, Zenon DEF SelectInv, SelectTypeOK
  <2>12. ASSUME sel'.repeat > 0, sel'.before \in Select!Live, Len(s_active) > 1
         PROVE  sel'.tag # sel'.before
    <3>1. sel'.repeat = repeat /\ sel'.tag = obj[u].tag
          /\ sel'.before = IF history[p.idx].hash = p.hash THEN via[p] ELSE 0
      BY <2>1, Zenon
    <3>2. PICK k \in 1 .. Len(s_active) : sel'.before = obj[s_active[k]].tag
      BY <2>12, Zenon DEF Select!Live
    <3>3. /\ s_active[k] \in Urls /\ obj[s_active[k]].tag # 0
          /\ obj[s_active[k]].id = obj[s_active[k]].tag - 1
      BY <2>4, <2>5, SelectFacts, Zenon
    <3>4. history[p.idx].hash = p.hash /\ via[p] = obj[s_active[k]].tag
      BY <3>1, <3>2, <3>3, Zenon
    <3>5. history[p.idx].id = obj[s_active[k]].id
      BY <3>3, <3>4, Zenon DEF SelectInv, Remembered
    <3>6. k \in GetBad(p)
      BY <3>5, Zenon DEF GetBad
    <3>7. repeat # 0
      BY <2>12, <3>1
    <3>8. bad \in GetBad(p) /\ idx # bad
      BY <2>2, <2>12, <3>4, <3>6, <3>7, Zenon
    <3>9. bad \in 1 .. Len(s_active) /\ obj[s_active[bad]].id = obj[s_active[k]].id
      BY <3>5, <3>8, Zenon DEF GetBad
    <3>10. s_active[bad] \in Urls /\ obj[s_active[bad]].tag # 0
           /\ obj[s_active[bad]].id = obj[s_active[bad]].tag - 1
           /\ obj[s_active[bad]].tag \in Nat /\ obj[s_active[k]].tag \in Nat
      BY <2>4, <2>5, <3>3, <3>9, SelectFacts, Zenon
    <3>11. obj[s_active[bad]].tag = obj[s_active[k]].tag
      BY <3>3, <3>9, <3>10
    <3>12. u # s_active[bad]
      BY <2>2, <2>4, <3>8, <3>9, Zenon DEF u
    <3>13. obj[u].tag # obj[s_active[bad]].tag
      BY <2>6, <3>10, <3>12, SelectTags, Zenon
    <3>14. QED
      BY <3>1, <3>2, <3>11, <3>13, Zenon
  <2>13. QED
    BY <2>11, <2>12, Zenon DEF SelectAvoids
<1>4. QED
  BY <1>2, <1>3

LEMMA SelectStep == SelectInv /\ [Select!Next]_(Select!vars) =>
                      SelectInv' /\ [SelectAvoids]_(Select!vars)
<1> SUFFICES ASSUME SelectInv, [Select!Next]_(Select!vars)
             PROVE  SelectInv' /\ [SelectAvoids]_(Select!vars)
  OBVIOUS
<1>1. CASE UNCHANGED Select!vars
  <2>1. UNCHANGED <<obj, s_active, id, created, reader, history, via>>
    BY <1>1, Zenon DEF Select!vars
  <2>2. SelectTypeOK' /\ Numbered' /\ TagsDiffer' /\ Counter'
    BY <2>1, Zenon DEF SelectInv, SelectTypeOK, Numbered, TagsDiffer, Counter
  <2>3. QED
    BY <1>1, <2>1, <2>2, ActiveKept, HistoryKept, Zenon DEF SelectInv
<1>2. ASSUME NEW u \in Urls,
             \/ Select!Add(u) \/ Select!Activate(u) \/ Select!Delete(u)
             \/ Select!ReconnectRead(u) \/ Select!ReconnectWrite(u)
             \/ Select!ReconnectDone(u) \/ Select!ReconnectFail(u)
      PROVE  SelectInv' /\ SelectAvoids
  <2>1. SelectInv'
    BY <1>2, SelectAdd, SelectActivate, SelectDelete, SelectRead, SelectWrite, SelectDone,
       SelectFail, Zenon
  <2>2. sel' = Select!NoSelection
    BY <1>2, Zenon DEF Select!Add, Select!Activate, Select!Delete, Select!ReconnectRead,
       Select!ReconnectWrite, Select!ReconnectDone, Select!ReconnectFail
  <2>3. sel'.repeat = 0
    BY <2>2, Zenon DEF Select!NoSelection
  <2>4. ~(sel'.repeat > 0)
    BY <2>3
  <2>5. QED
    BY <2>1, <2>4, Zenon DEF SelectAvoids
<1>3. ASSUME NEW p \in Select!Packet, NEW repeat \in 0 .. MaxRepeat, Select!tunnel_get(p, repeat)
      PROVE  SelectInv' /\ SelectAvoids
  BY <1>3, SelectGet, Zenon
<1>4. QED
  BY <1>1, <1>2, <1>3, Zenon DEF Select!Next

(* A repeated packet takes another tunnel than the one it took last, whatever tunnels come,
   go and are replaced meanwhile, as long as no id is given out twice and no two tunnels are
   created at the same time (tunnel_get, tunnel.c:609-677). *)
THEOREM RepeatTakesAnother == Select!Spec => Avoids
<1>1. Select!Init => SelectInv
  BY SelectInit
<1>2. SelectInv /\ [Select!Next]_(Select!vars) => SelectInv' /\ [SelectAvoids]_(Select!vars)
  BY SelectStep
<1>3. Select!Spec => [][SelectAvoids]_(Select!vars)
  BY <1>1, <1>2, PTL DEF Select!Spec
<1>4. QED
  BY <1>3, PTL DEF Avoids, Select!Avoids, SelectAvoids

-----------------------------------------------------------------------------
(* The descriptors of the HTTP server *)

(* While a request is handled, the server has the descriptor of its connection open, and
   the request was not refused. *)
HttpInv ==
    /\ owner \in [Whole!Descriptor -> {"free", "http", "other"}]
    /\ h_pc \in {"recv", "handle"} =>
         sock \in Whole!Descriptor /\ owner[sock] = "http" /\ parser.state # "ERROR"

LEMMA LowestFree ==
    ASSUME Whole!Free # {}
    PROVE  Whole!Lowest(Whole!Free) \in Whole!Descriptor
           /\ owner[Whole!Lowest(Whole!Free)] = "free"
<1>1. PICK F : F = Whole!Free
  BY Zenon
<1>2. F \subseteq Nat
  BY <1>1 DEF Whole!Free, Whole!Descriptor
<1>3. Whole!Lowest(F) \in F
  BY <1>1, <1>2, LeastNumber, Zenon DEF Whole!Lowest
<1>4. QED
  BY <1>1, <1>3, Zenon DEF Whole!Free

LEMMA HttpInit == Whole!Init => HttpInv
<1> SUFFICES ASSUME Whole!Init PROVE HttpInv
  OBVIOUS
<1>1. h_pc = "accept" /\ owner = [d \in Whole!Descriptor |-> "free"]
  BY Zenon DEF Whole!Init
<1>2. "accept" \notin {"recv", "handle"}
  OBVIOUS
<1>3. QED
  BY <1>1, <1>2, Zenon DEF HttpInv

(* A descriptor gets another owner. *)
LEMMA OwnerSet ==
    ASSUME HttpInv, NEW d, NEW o \in {"free", "http", "other"}, owner' = [owner EXCEPT ![d] = o]
    PROVE  /\ owner' \in [Whole!Descriptor -> {"free", "http", "other"}]
           /\ d \in Whole!Descriptor => owner'[d] = o
           /\ \A e \in Whole!Descriptor : e # d => owner'[e] = owner[e]
BY Zenon DEF HttpInv

LEMMA HttpAccept ==
    ASSUME HttpInv, Whole!http_server_accept
    PROVE  HttpInv' /\ Whole!KeepsOthers
<1> DEFINE f == Whole!Lowest(Whole!Free)
<1>1. /\ h_pc = "accept" /\ Whole!Free # {}
      /\ \E n \in 0 .. MaxBody : parser' = Whole!http_parser_init(n)
      /\ \/ h_pc' = "recv" /\ sock' = f /\ owner' = [owner EXCEPT ![f] = "http"]
         \/ UNCHANGED <<h_pc, sock, owner>>
  BY Zenon DEF Whole!http_server_accept
<1>2. f \in Whole!Descriptor /\ owner[f] = "free"
  BY <1>1, LowestFree, Zenon
<1>3. parser'.state = "START"
  <2>1. PICK n \in 0 .. MaxBody : parser' = Whole!http_parser_init(n)
    BY <1>1, Zenon
  <2>2. QED
    BY <2>1 DEF Whole!http_parser_init
<1>4. "START" # "ERROR" /\ "accept" \notin {"recv", "handle"} /\ "free" # "other"
  OBVIOUS
<1> HIDE DEF f
<1>5. CASE UNCHANGED <<h_pc, sock, owner>>
  BY <1>1, <1>4, <1>5, Zenon DEF HttpInv, Whole!KeepsOthers
<1>6. CASE h_pc' = "recv" /\ sock' = f /\ owner' = [owner EXCEPT ![f] = "http"]
  <2>1. /\ owner' \in [Whole!Descriptor -> {"free", "http", "other"}]
        /\ owner'[f] = "http"
        /\ \A e \in Whole!Descriptor : e # f => owner'[e] = owner[e]
    BY <1>2, <1>6, OwnerSet, Zenon
  <2>2. QED
    BY <1>2, <1>3, <1>4, <1>6, <2>1, Zenon DEF HttpInv, Whole!KeepsOthers
<1>7. QED
  BY <1>1, <1>5, <1>6, Zenon

LEMMA HttpRecv ==
    ASSUME HttpInv, Whole!http_server_recv \/ Whole!http_server_parsed
    PROVE  HttpInv' /\ Whole!KeepsOthers
<1>1. CASE Whole!http_server_recv
  <2>1. parser'.state # "ERROR" /\ UNCHANGED <<h_pc, sock, owner>>
    BY <1>1, Zenon DEF Whole!http_server_recv
  <2>2. QED
    BY <2>1, Zenon DEF HttpInv, Whole!KeepsOthers
<1>2. CASE Whole!http_server_parsed
  <2>1. h_pc = "recv" /\ "recv" \in {"recv", "handle"}
    BY <1>2, Zenon DEF Whole!http_server_parsed
  <2>2. parser.state # "ERROR"
    BY <2>1, Zenon DEF HttpInv
  <2>3. UNCHANGED <<sock, parser, owner>>
    BY <1>2, <2>2, Zenon DEF Whole!http_server_parsed
  <2>4. sock \in Whole!Descriptor /\ owner[sock] = "http"
    BY <2>1, Zenon DEF HttpInv
  <2>5. QED
    BY <2>2, <2>3, <2>4, Zenon DEF HttpInv, Whole!KeepsOthers
<1>3. QED
  BY <1>1, <1>2

LEMMA HttpHandle ==
    ASSUME HttpInv, Whole!http_server_handle
    PROVE  HttpInv' /\ Whole!KeepsOthers
<1>1. h_pc = "handle" /\ h_pc' = "accept" /\ owner' = [owner EXCEPT ![sock] = "free"]
  BY Zenon DEF Whole!http_server_handle, Whole!Closed
<1>2. "handle" \in {"recv", "handle"} /\ "accept" \notin {"recv", "handle"} /\ "http" # "other"
  OBVIOUS
<1>3. sock \in Whole!Descriptor /\ owner[sock] = "http"
  BY <1>1, <1>2, Zenon DEF HttpInv
<1>4. /\ owner' \in [Whole!Descriptor -> {"free", "http", "other"}]
      /\ \A e \in Whole!Descriptor : e # sock => owner'[e] = owner[e]
  BY <1>1, <1>3, OwnerSet, Zenon
<1>5. QED
  BY <1>1, <1>2, <1>3, <1>4, Zenon DEF HttpInv, Whole!KeepsOthers

LEMMA HttpOther ==
    ASSUME HttpInv, Whole!other_open \/ Whole!other_close
    PROVE  HttpInv' /\ Whole!KeepsOthers
<1>1. UNCHANGED <<h_pc, sock, parser>>
  BY Zenon DEF Whole!other_open, Whole!other_close
<1>2. PICK d \in Whole!Descriptor, o \in {"free", "other"} :
        owner[d] # "http" /\ owner' = [owner EXCEPT ![d] = o]
  <2>1. "free" # "http" /\ "other" # "http"
    OBVIOUS
  <2>2. CASE Whole!other_open
    <3>1. Whole!Free # {} /\ owner' = [owner EXCEPT ![Whole!Lowest(Whole!Free)] = "other"]
      BY <2>2, Zenon DEF Whole!other_open
    <3>2. QED
      BY <2>1, <3>1, LowestFree, Zenon
  <2>3. CASE Whole!other_close
    BY <2>1, <2>3, Zenon DEF Whole!other_close, Whole!Closed
  <2>4. QED
    BY <2>2, <2>3
<1>3. /\ owner' \in [Whole!Descriptor -> {"free", "http", "other"}]
      /\ \A e \in Whole!Descriptor : e # d => owner'[e] = owner[e]
  BY <1>2, OwnerSet, Zenon
<1>4. HttpInv'
  BY <1>1, <1>2, <1>3, Zenon DEF HttpInv
<1>5. QED
  BY <1>1, <1>4, Zenon DEF Whole!KeepsOthers

(* Among the threads that open and close descriptors, the HTTP server closes none but its
   own, if its requests are well formed and received whole (http_server.c:217-344). *)
THEOREM ClosesItsOwn == Whole!Spec => OthersKept
<1>1. Whole!Init => HttpInv
  BY HttpInit
<1>2. HttpInv /\ [Whole!Next]_(Whole!vars) => HttpInv' /\ [Whole!KeepsOthers]_(Whole!vars)
  <2> SUFFICES ASSUME HttpInv, [Whole!Next]_(Whole!vars)
               PROVE  HttpInv' /\ [Whole!KeepsOthers]_(Whole!vars)
    OBVIOUS
  <2>1. CASE UNCHANGED Whole!vars
    BY <2>1, Zenon DEF Whole!vars, HttpInv
  <2>2. ~Whole!http_server_recv_empty
    BY Zenon DEF Whole!http_server_recv_empty
  <2>3. CASE Whole!Next
    BY <2>2, <2>3, HttpAccept, HttpRecv, HttpHandle, HttpOther, Zenon DEF Whole!Next, Whole!Server
  <2>4. QED
    BY <2>1, <2>3
<1>3. [Whole!KeepsOthers]_(Whole!vars) => [part = "whole" => Whole!KeepsOthers]_httpVars
  BY Zenon DEF Whole!vars, httpVars
<1>4. QED
  BY <1>1, <1>2, <1>3, PTL DEF Whole!Spec, OthersKept

-----------------------------------------------------------------------------
(* Padding *)

PadState == [fixed : BOOLEAN, min : Nat, max : Nat, size : Nat, value : BOOLEAN]

(* The padding of a message is the one its options and its length byte ask for. *)
Padded ==
    /\ message.size \in Nat \ {0} /\ message.byte \in Nat
    /\ state.fixed => message.pad = state.size
    /\ ~state.fixed => message.pad = pad_size(state, message.byte) + 1

PadInv ==
    /\ seen \subseteq Option
    /\ state \in PadState /\ state.min <= state.max
    /\ message # NoMessage => Padded
    /\ phase = "options" => message = NoMessage
    /\ RoundTrip

LEMMA PadVal ==
    ASSUME seen \subseteq Option, NEW i, NEW x \in Nat
    PROVE  Val(i, x) \in Nat
<1>1. CASE Seen(i)
  <2>1. PICK c : c = CHOOSE o \in seen : o.id = i
    BY Zenon
  <2>2. c \in Option
    BY <1>1, <2>1, Zenon DEF Seen
  <2>3. c.val \in 0 .. UINT8_MAX + 1
    BY <2>2, Zenon DEF Option
  <2>4. c.val \in Nat
    BY <2>3, PadAssumption
  <2>5. QED
    BY <1>1, <2>1, <2>4, Zenon DEF Val
<1>2. CASE ~Seen(i)
  BY <1>2, Zenon DEF Val
<1>3. QED
  BY <1>1, <1>2

(* The size for a random byte *)
LEMMA PadSize ==
    ASSUME NEW s \in PadState, s.min <= s.max, NEW b \in Nat
    PROVE  pad_size(s, b) \in Nat
<1>1. s.min \in Nat /\ s.max \in Nat
  BY Zenon DEF PadState
<1>2. PICK m \in Nat : m = s.max - s.min + 1
  BY <1>1
<1>3. m > 0
  BY <1>1, <1>2
<1>4. b % m \in Nat
  BY <1>3
<1>5. QED
  BY <1>1, <1>2, <1>4 DEF pad_size

LEMMA PadInit == Init => PadInv
<1> SUFFICES ASSUME Init PROVE PadInv
  OBVIOUS
<1>1. phase = "options" /\ seen = {} /\ state = NoState /\ message = NoMessage
  BY Zenon DEF Init
<1>2. NoState \in PadState /\ NoState.min = 0 /\ NoState.max = 0
  <2>1. 0 \in Nat
    OBVIOUS
  <2>2. QED
    BY <2>1, Zenon DEF NoState, PadState
<1>3. 0 <= 0
  OBVIOUS
<1>4. QED
  BY <1>1, <1>2, <1>3, Zenon DEF PadInv, RoundTrip

(* Steps without a message *)
LEMMA PadNone ==
    ASSUME seen' \subseteq Option, state' \in PadState, state'.min <= state'.max,
           message' = NoMessage
    PROVE  PadInv'
BY Zenon DEF PadInv, RoundTrip, NoMessage

LEMMA PadOption ==
    ASSUME PadInv, NEW o \in Option, pad_option(o)
    PROVE  PadInv'
<1>1. /\ phase = "options" /\ UNCHANGED <<state, message>>
      /\ seen' = seen \/ seen' = seen \cup {o}
  BY Zenon DEF pad_option
<1>2. QED
  BY <1>1, PadNone, Zenon DEF PadInv

LEMMA PadStart ==
    ASSUME PadInv, pad_init
    PROVE  PadInv'
<1> DEFINE ranged == Seen("min") \/ Seen("max")
           fixed == Seen("size") \/ (Seen("value") /\ ~ranged)
           min == Val("min", 0)
           max == Val("max", PAD_DEFAULT_MAX)
           size0 == IF Seen("value") THEN Val("value", 0) ELSE 0
           size == Val("size", size0)
<1>1. phase = "options" /\ UNCHANGED <<seen, message>> /\ seen \subseteq Option
  BY Zenon DEF pad_init, PadInv
<1>2. CASE (fixed /\ ranged) \/ min > max
  <2>1. UNCHANGED state
    BY <1>2, Zenon DEF pad_init
  <2>2. QED
    BY <1>1, <2>1, PadNone, Zenon DEF PadInv
<1>3. CASE ~((fixed /\ ranged) \/ min > max)
  <2>1. state' = [fixed |-> fixed, min |-> min, max |-> max, value |-> Seen("value"), size |-> size]
    BY <1>3, Zenon DEF pad_init
  <2>2. 0 \in Nat /\ PAD_DEFAULT_MAX \in Nat
    BY PadAssumption
  <2>3. min \in Nat /\ max \in Nat
    BY <1>1, <2>2, PadVal, Zenon
  <2>4. size0 \in Nat
    BY <1>1, <2>2, PadVal, Zenon
  <2>5. size \in Nat
    <3>1. PICK x \in Nat : x = size0
      BY <2>4, Zenon
    <3>2. size = Val("size", x)
      BY <3>1, Zenon
    <3>3. QED
      BY <1>1, <3>2, PadVal, Zenon
  <2>6. fixed \in BOOLEAN /\ Seen("value") \in BOOLEAN
    BY Zenon DEF Seen
  <2>7. min <= max
    BY <1>3, <2>3
  <2> HIDE DEF fixed, min, max, size
  <2>8. state' \in PadState /\ state'.min = min /\ state'.max = max
    BY <2>1, <2>3, <2>5, <2>6, Zenon DEF PadState
  <2>9. QED
    BY <1>1, <2>7, <2>8, PadNone, Zenon DEF PadInv
<1>4. QED
  BY <1>2, <1>3, Zenon

LEMMA PadEncode ==
    ASSUME PadInv, NEW n \in 1 .. MaxSize, NEW byte \in 0 .. UINT8_MAX, pad_encode(n, byte)
    PROVE  PadInv'
<1> DEFINE p == IF state.fixed THEN state.size ELSE pad_size(state, byte) + 1
<1>1. /\ phase' = "sent" /\ message' = [size |-> n, byte |-> byte, pad |-> p]
      /\ UNCHANGED <<seen, state>>
  BY Zenon DEF pad_encode
<1>2. n \in Nat \ {0} /\ byte \in Nat
  BY PadAssumption
<1>3. "sent" # "options" /\ "sent" \notin {"received", "error"}
  OBVIOUS
<1>4. /\ state.fixed => p = state.size
      /\ ~state.fixed => p = pad_size(state, byte) + 1
  BY Zenon
<1> HIDE DEF p
<1>5. message'.size = n /\ message'.byte = byte /\ message'.pad = p
  BY <1>1, Zenon
<1>6. Padded'
  BY <1>1, <1>2, <1>4, <1>5, Zenon DEF Padded, pad_size
<1>7. RoundTrip'
  BY <1>1, <1>3, Zenon DEF RoundTrip
<1>8. QED
  BY <1>1, <1>3, <1>6, <1>7, Zenon DEF PadInv

LEMMA PadDecode ==
    ASSUME PadInv, pad_decode
    PROVE  PadInv'
<1> DEFINE total == message.pad + message.size
           pad == IF state.fixed THEN state.size
                  ELSE (pad_size(state, message.byte) + 1) % (UINT8_MAX + 1)
           Checks == IF state.fixed THEN pad_check(state) ELSE {TRUE}
<1>1. /\ phase = "sent" /\ UNCHANGED <<seen, state, message>>
      /\ phase' \in {"received", "error"}
  BY Zenon DEF pad_decode
<1>2. PICK ok \in Checks : decoded' = [strip |-> pad, ok |-> ok /\ pad < total]
  BY Zenon DEF pad_decode
<1>3. "received" # "options" /\ "error" # "options"
  OBVIOUS
<1>4. ASSUME message # NoMessage, message.pad <= UINT8_MAX, ~(state.value /\ state.size > 2)
      PROVE  decoded'.ok /\ decoded'.strip = message.pad
  <2>1. Padded /\ state \in PadState /\ state.min <= state.max
    BY <1>4, Zenon DEF PadInv
  <2>2. message.size \in Nat \ {0} /\ message.byte \in Nat /\ state.size \in Nat
    BY <2>1, Zenon DEF Padded, PadState
  <2>3. ok = TRUE
    BY <1>4, Zenon DEF pad_check
  <2>4. pad = message.pad /\ message.pad \in Nat
    <3>1. CASE state.fixed
      BY <2>1, <2>2, <3>1, Zenon DEF Padded
    <3>2. CASE ~state.fixed
      <4>1. PICK x \in Nat : x = pad_size(state, message.byte)
        BY <2>1, <2>2, PadSize, Zenon
      <4>2. message.pad = x + 1 /\ pad = (x + 1) % (UINT8_MAX + 1)
        BY <2>1, <3>2, <4>1, Zenon DEF Padded
      <4>3. UINT8_MAX \in Nat
        BY PadAssumption
      <4>4. (x + 1) % (UINT8_MAX + 1) = x + 1
        BY <1>4, <4>2, <4>3
      <4>5. x + 1 \in Nat
        BY <4>1
      <4>6. QED
        BY <4>2, <4>4, <4>5, Zenon
    <3>3. QED
      BY <3>1, <3>2, Zenon
  <2> HIDE DEF pad
  <2>5. pad < total
    BY <2>2, <2>4
  <2>6. QED
    BY <1>2, <2>3, <2>4, <2>5, Zenon
<1>5. RoundTrip'
  BY <1>1, <1>4, Zenon DEF RoundTrip, NoMessage
<1>6. QED
  BY <1>1, <1>3, <1>5, Zenon DEF PadInv, Padded, pad_size, NoMessage

(* Decoding gives back every message that was encoded, for any options of the URL and any
   random byte, unless a length of UINT8_MAX is drawn or the padding has a value and is
   longer than two bytes (pad_init, pad_encode, pad_decode: encodings/pad.c:124-395). *)
THEOREM DecodingStripsThePadding == Spec => []RoundTrip
<1>1. Init => PadInv
  BY PadInit
<1>2. PadInv /\ [Next]_vars => PadInv'
  <2> SUFFICES ASSUME PadInv, [Next]_vars PROVE PadInv'
    OBVIOUS
  <2>1. ASSUME NEW o \in Option, pad_option(o) PROVE PadInv'
    BY <2>1, PadOption, Zenon
  <2>2. CASE pad_init
    BY <2>2, PadStart, Zenon
  <2>3. ASSUME NEW n \in 1 .. MaxSize, NEW byte \in 0 .. UINT8_MAX, pad_encode(n, byte)
        PROVE  PadInv'
    BY <2>3, PadEncode, Zenon
  <2>4. CASE pad_decode
    BY <2>4, PadDecode, Zenon
  <2>5. CASE NextMessage
    BY <2>5, PadNone, Zenon DEF NextMessage, PadInv
  <2>6. CASE UNCHANGED vars
    BY <2>6, Zenon DEF vars, PadInv, Padded, pad_size, RoundTrip
  <2>7. QED
    BY <2>1, <2>2, <2>3, <2>4, <2>5, <2>6, Zenon DEF Next
<1>3. PadInv => RoundTrip
  BY Zenon DEF PadInv
<1>4. QED
  BY <1>1, <1>2, <1>3, PTL DEF Spec

=============================================================================
