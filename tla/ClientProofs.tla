---------------------------- MODULE ClientProofs ----------------------------
(***************************************************************************)
(* Proofs about parts of the client.  No packet that a worker has taken    *)
(* from the queue, or that went out, is in the queue again                 *)
(* (NetfilterQueue), for every number of workers and packets, every size   *)
(* of queue and socket, rules left behind and failures included.  The      *)
(* rules that init_capture issues are removed when the process goes        *)
(* (Capture), for any number of signal handlers.  Closing a tunnel frees   *)
(* only what opening it has allocated (TunnelOpen), for any number of      *)
(* encodings.                                                              *)
(***************************************************************************)
EXTENDS Client, SequenceTheorems, TLAPS

(* The queue of packets *)

(* What goes through the queue are packets of the programs, each offered once, and a
   worker works on a packet that was returned, that is, that left the queue. *)
Sequences == returned \in Seq(Packets) /\ sent \in Seq(Packets) /\ socket \in Seq(Packets \cup {Ack})
Known == waiting \cup Range(returned) \cup Range(sent) \subseteq offered
Working == \A w \in Workers : buff[w] # None => buff[w] \in Range(returned)
Holding == buff \in [Workers -> Packets \cup {None}] /\ old \in [Workers -> Packets \cup {Ack, None}]
InMessages == \A w \in Workers : old[w] \in Packets => old[w] \in offered
InSocket == Range(socket) \subseteq offered \cup {Ack}

QueueInv == Sequences /\ Known /\ Working /\ Holding /\ InMessages /\ InSocket /\ NotRecaptured

(* Appending adds one element to the set of a sequence. *)
LEMMA RangeAppend ==
    ASSUME NEW S, NEW s \in Seq(S), NEW e \in S
    PROVE  Append(s, e) \in Seq(S) /\ Range(Append(s, e)) = Range(s) \cup {e}
  <1>1. /\ Append(s, e) \in Seq(S)
        /\ DOMAIN s = 1 .. Len(s) /\ DOMAIN Append(s, e) = 1 .. Len(s) + 1 /\ Len(s) \in Nat
        /\ \A i \in 1 .. Len(s) : Append(s, e)[i] = s[i]
        /\ Append(s, e)[Len(s) + 1] = e
    OBVIOUS
  <1>2. 1 .. Len(s) + 1 = (1 .. Len(s)) \cup {Len(s) + 1}
    BY <1>1
  <1>3. {Append(s, e)[i] : i \in 1 .. Len(s) + 1} = {s[i] : i \in 1 .. Len(s)} \cup {e}
    BY <1>1, <1>2, Zenon
  <1> QED
    BY <1>1, <1>3 DEF Range

(* The head of a sequence is one of its elements, and so are those of its tail. *)
LEMMA RangeTail ==
    ASSUME NEW S, NEW s \in Seq(S), s # <<>>
    PROVE  /\ Head(s) \in S /\ Head(s) \in Range(s)
           /\ Tail(s) \in Seq(S) /\ Range(Tail(s)) \subseteq Range(s)
  <1>1. /\ Head(s) \in S /\ Head(s) = s[1] /\ 1 \in DOMAIN s /\ Tail(s) \in Seq(S)
        /\ DOMAIN s = 1 .. Len(s) /\ DOMAIN Tail(s) = 1 .. Len(s) - 1 /\ Len(s) \in Nat
        /\ \A i \in 1 .. Len(s) - 1 : Tail(s)[i] = s[i + 1]
    OBVIOUS
  <1>2. \A i \in 1 .. Len(s) - 1 : i + 1 \in 1 .. Len(s)
    BY <1>1
  <1>3. {Tail(s)[i] : i \in 1 .. Len(s) - 1} \subseteq {s[i] : i \in 1 .. Len(s)}
    BY <1>1, <1>2
  <1> QED
    BY <1>1, <1>3 DEF Range

(* The empty sequence has no elements. *)
LEMMA RangeEmpty == Range(<<>>) = {}
  BY DEF Range

(* Initially all sequences and sets are empty. *)
LEMMA QueueInit == Init => QueueInv
  <1> SUFFICES ASSUME Init PROVE QueueInv
    OBVIOUS
  <1>1. Sequences /\ Known /\ InSocket /\ NotRecaptured
    BY RangeEmpty DEF Init, Sequences, Known, InSocket, NotRecaptured
  <1>2. Working /\ Holding
    BY DEF Init, Working, Holding
  <1>3. InMessages
    BY MessageAssumption DEF Init, InMessages
  <1> QED
    BY <1>1, <1>2, <1>3 DEF QueueInv

(* A packet of a program is new: it is not among those returned or sent. *)
LEMMA OfferInv == QueueInv /\ (\E p \in Packets : Offer(p)) => QueueInv'
  <1> SUFFICES ASSUME QueueInv, NEW p \in Packets, Offer(p) PROVE QueueInv'
    OBVIOUS
  <1>1. /\ p \notin offered /\ offered' = offered \cup {p} /\ Output(p, FALSE)
        /\ UNCHANGED <<old, buff, returned>>
    BY DEF Offer
  <1>2. CASE sent' = Append(sent, p) /\ UNCHANGED <<waiting, socket>>
    <2>1. sent' \in Seq(Packets) /\ Range(sent') = Range(sent) \cup {p}
      BY <1>2, RangeAppend DEF QueueInv, Sequences
    <2>2. (Sequences /\ Known /\ NotRecaptured)'
      BY <1>1, <1>2, <2>1 DEF QueueInv, Sequences, Known, NotRecaptured
    <2> QED
      BY <1>1, <1>2, <2>2 DEF QueueInv, Working, Holding, InMessages, InSocket
  <1>3. CASE UNCHANGED <<sent, waiting, socket>>
    <2>1. (Sequences /\ Known /\ NotRecaptured)'
      BY <1>1, <1>3 DEF QueueInv, Sequences, Known, NotRecaptured
    <2> QED
      BY <1>1, <1>3, <2>1 DEF QueueInv, Working, Holding, InMessages, InSocket
  <1>4. CASE waiting' = waiting \cup {p} /\ socket' = Append(socket, p) /\ UNCHANGED sent
    <2>1. socket' \in Seq(Packets \cup {Ack}) /\ Range(socket') = Range(socket) \cup {p}
      BY <1>4, RangeAppend DEF QueueInv, Sequences
    <2>2. p \notin Range(returned) \cup Range(sent)
      BY <1>1 DEF QueueInv, Known
    <2>3. (Sequences /\ Known /\ NotRecaptured)'
      BY <1>1, <1>4, <2>1, <2>2 DEF QueueInv, Sequences, Known, NotRecaptured
    <2>4. InSocket'
      BY <1>1, <2>1 DEF QueueInv, InSocket
    <2> QED
      BY <1>1, <1>4, <2>3, <2>4 DEF QueueInv, Working, Holding, InMessages
  <1> QED
    BY <1>1, <1>2, <1>3, <1>4 DEF Output

(* The set-up leaves the packets alone, or drops the ones that wait. *)
LEMMA SetupInv == QueueInv /\ (SetupSend \/ SetupAck \/ SetupError \/ Rules) => QueueInv'
  <1> SUFFICES ASSUME QueueInv, SetupSend \/ SetupAck \/ SetupError \/ Rules PROVE QueueInv'
    OBVIOUS
  <1>1. UNCHANGED <<old, buff, offered, returned, sent>> /\ waiting' \subseteq waiting
    BY DEF SetupSend, SetupAck, SetupError, Rules
  <1>2. socket' \in Seq(Packets \cup {Ack}) /\ Range(socket') \subseteq Range(socket) \cup {Ack}
    <2>1. CASE SetupSend
      BY <2>1, RangeAppend DEF SetupSend, QueueInv, Sequences
    <2>2. CASE SetupAck
      BY <2>2, RangeTail DEF SetupAck, QueueInv, Sequences
    <2>3. CASE SetupError
      BY <2>3, RangeEmpty DEF SetupError
    <2>4. CASE Rules
      BY <2>4 DEF Rules, QueueInv, Sequences
    <2> QED
      BY <2>1, <2>2, <2>3, <2>4
  <1>3. (Sequences /\ Known /\ NotRecaptured /\ InSocket)'
    BY <1>1, <1>2 DEF QueueInv, Sequences, Known, NotRecaptured, InSocket
  <1> QED
    BY <1>1, <1>3 DEF QueueInv, Working, Holding, InMessages

(* A packet that is returned leaves the queue in the same step. *)
LEMMA ReturnInv ==
    ASSUME QueueInv, NEW w \in Workers, NEW p \in Packets, p \in offered, Return(w, p),
           socket' \in Seq(Packets \cup {Ack}), Range(socket') \subseteq Range(socket) \cup {Ack},
           old' \in {old, [old EXCEPT ![w] = p]}, offered' = offered
    PROVE  QueueInv'
  <1>1. /\ waiting' = waiting \ {p} /\ sent' = sent
        /\ buff' = [buff EXCEPT ![w] = p] /\ returned' = Append(returned, p)
    BY DEF Return, Verdict
  <1>2. returned' \in Seq(Packets) /\ Range(returned') = Range(returned) \cup {p}
    BY <1>1, RangeAppend DEF QueueInv, Sequences
  <1>3. (Sequences /\ Known /\ NotRecaptured /\ InSocket)'
    BY <1>1, <1>2 DEF QueueInv, Sequences, Known, NotRecaptured, InSocket
  <1>4. (Working /\ Holding)'
    BY <1>1, <1>2 DEF QueueInv, Working, Holding
  <1>5. InMessages'
    BY DEF QueueInv, Holding, InMessages
  <1> QED
    BY <1>3, <1>4, <1>5 DEF QueueInv

(* A message that is read is that of a packet, or an error. *)
LEMMA GetInv == QueueInv /\ (\E w \in Workers : get_packet(w)) => QueueInv'
  <1> SUFFICES ASSUME QueueInv, NEW w \in Workers, get_packet(w) PROVE QueueInv'
    OBVIOUS
  <1> DEFINE p == Head(socket)
  <1>1. /\ socket # <<>> /\ socket' = Tail(socket) /\ old' = [old EXCEPT ![w] = p]
        /\ offered' = offered
    BY DEF get_packet
  <1>2. /\ p \in Packets \cup {Ack} /\ p \in Range(socket)
        /\ socket' \in Seq(Packets \cup {Ack}) /\ Range(socket') \subseteq Range(socket)
    BY <1>1, RangeTail DEF QueueInv, Sequences
  <1>3. p # Ack => p \in Packets /\ p \in offered
    BY <1>2 DEF QueueInv, InSocket
  <1>4. CASE p # Ack /\ Return(w, p)
    BY <1>1, <1>2, <1>3, <1>4, ReturnInv
  <1>5. CASE UNCHANGED <<waiting, sent, buff, returned>>
    <2>1. (Sequences /\ Known /\ NotRecaptured /\ InSocket)'
      BY <1>1, <1>2, <1>5 DEF QueueInv, Sequences, Known, NotRecaptured, InSocket
    <2>2. (Working /\ Holding)'
      BY <1>1, <1>2, <1>5 DEF QueueInv, Working, Holding
    <2>3. InMessages'
      BY <1>1, <1>3, MessageAssumption DEF QueueInv, Holding, InMessages
    <2> QED
      BY <2>1, <2>2, <2>3 DEF QueueInv
  <1> QED
    BY <1>4, <1>5 DEF get_packet

(* A read that fails returns no packet, or one of an earlier message. *)
LEMMA RecvFailsInv == QueueInv /\ (\E w \in Workers : RecvFails(w)) => QueueInv'
  <1> SUFFICES ASSUME QueueInv, NEW w \in Workers, RecvFails(w) PROVE QueueInv'
    OBVIOUS
  <1>1. offered' = offered /\ old' = old
    BY DEF RecvFails
  <1>2. CASE UNCHANGED <<waiting, socket, sent, buff, returned>>
    BY <1>1, <1>2 DEF QueueInv, Sequences, Known, Working, Holding, InMessages, InSocket,
                      NotRecaptured
  <1>3. CASE /\ old[w] \in Packets /\ Return(w, old[w])
             /\ socket' = IF old[w] \in waiting THEN socket ELSE Append(socket, Ack)
    <2>1. socket' \in Seq(Packets \cup {Ack}) /\ Range(socket') \subseteq Range(socket) \cup {Ack}
      BY <1>3, RangeAppend DEF QueueInv, Sequences
    <2>2. old[w] \in offered
      BY <1>3 DEF QueueInv, InMessages
    <2> QED
      BY <1>1, <1>3, <2>1, <2>2, ReturnInv
  <1> QED
    BY <1>2, <1>3 DEF RecvFails

(* What is sent carries the mark, so that the rules let it pass. *)
LEMMA InjectInv == QueueInv /\ (\E w \in Workers : inject_packet(w)) => QueueInv'
  <1> SUFFICES ASSUME QueueInv, NEW w \in Workers, inject_packet(w) PROVE QueueInv'
    OBVIOUS
  <1>1. /\ buff[w] # None /\ sent' = Append(sent, buff[w]) /\ buff' = [buff EXCEPT ![w] = None]
        /\ UNCHANGED <<waiting, socket, old, offered, returned>>
    BY DEF inject_packet, Output
  <1>2. buff[w] \in Packets /\ buff[w] \in Range(returned)
    BY <1>1 DEF QueueInv, Working, Holding
  <1>3. sent' \in Seq(Packets) /\ Range(sent') = Range(sent) \cup {buff[w]}
    BY <1>1, <1>2, RangeAppend DEF QueueInv, Sequences
  <1>4. (Sequences /\ Known /\ NotRecaptured /\ InSocket)'
    BY <1>1, <1>2, <1>3 DEF QueueInv, Sequences, Known, NotRecaptured, InSocket
  <1>5. (Working /\ Holding /\ InMessages)'
    BY <1>1 DEF QueueInv, Working, Holding, InMessages
  <1> QED
    BY <1>4, <1>5 DEF QueueInv

(* A packet that a worker has taken from the queue or that went out never waits in the
   queue again: the kernel drops it there, and the mark keeps it out
   (linux/capture.c:42-43, 420-428, 466-483). *)
THEOREM QueueNotRecaptured == Spec => []NotRecaptured
  <1>1. QueueInv /\ [Next]_vars => QueueInv'
    <2>1. QueueInv /\ UNCHANGED vars => QueueInv'
      BY DEF vars, kernelVars, QueueInv, Sequences, Known, Working, Holding, InMessages,
             InSocket, NotRecaptured
    <2> QED
      BY <2>1, OfferInv, SetupInv, GetInv, RecvFailsInv, InjectInv DEF Next, Worker
  <1>2. QueueInv => NotRecaptured
    BY DEF QueueInv
  <1> QED
    BY QueueInit, <1>1, <1>2, PTL DEF Spec

-----------------------------------------------------------------------------
(* The clean-up of the rules *)

Starting == {"init", "issue", "dirty", "atexit", "socket", "run"}
Ending == {"log", "quit", "error", "flush", "next", "exec", "null", "done", "gone"}

(* The number of commands that remove the rules, and the rules they leave from one on *)
Commands == IF platform = "linux" THEN 3 ELSE 1

LeftBy(p, n) ==
    IF n = 1 THEN End!Rule
    ELSE IF p # "linux" THEN {}
    ELSE IF n = 2 THEN {"udp", "icmp"}
    ELSE IF n = 3 THEN {"icmp"} ELSE {}

CaptureTypeOK ==
    /\ platform \in {"linux", "freebsd"}
    /\ pc \in [End!Actor -> Starting \cup Ending \cup {"serve", "none"}]
    /\ pc[End!Main] \in Starting
    /\ \A a \in End!Actor : a # End!Main => pc[a] \in Ending \cup {"serve", "none"}
    /\ k \in [End!Actor -> Nat] /\ ret \in [End!Actor -> {"gone", "error"}]
    /\ cmd \in [End!Actor -> SUBSET End!Rule] /\ undo \in Seq(SUBSET End!Rule)
    /\ clean \in BOOLEAN /\ registered \in BOOLEAN /\ ends \in {0, 1}

(* The list of commands is whole from position n on. *)
UndoFrom(n) ==
    /\ Len(undo) = Commands
    /\ \A i \in n .. Commands : undo[i] = End!disable(platform)[i]

(* All rules are in place and to be removed, or none is. *)
InPlace == c_rules = End!Rule /\ clean = FALSE /\ UndoFrom(1)
Removed == c_rules = {} /\ clean = TRUE

(* What init_capture has done so far, until the program is to end *)
Issued ==
    LET at == pc[End!Main]
    IN  ends = 0 =>
          /\ at = "init" => c_rules = {} /\ k[End!Main] = 1
          /\ at # "init" => UndoFrom(1)
          /\ at = "issue" => k[End!Main] \in 1 .. 3 /\ c_rules = End!Rule \ LeftBy("linux", k[End!Main])
          /\ at \in {"dirty", "atexit", "socket", "run"} => c_rules = End!Rule
          /\ at \in {"atexit", "socket", "run"} => clean = FALSE
          /\ at \in {"socket", "run"} => registered = TRUE

(* One thread or handler ends the program. *)
OneEnds ==
    \A a \in End!Actor : pc[a] \in Ending =>
        /\ ends = 1 /\ pc[End!Main] = "run"
        /\ \A b \in End!Actor : pc[b] \in Ending => a = b

(* How far it is with the rules *)
Progress(a) ==
    /\ pc[a] = "log" => InPlace
    /\ pc[a] = "quit" => (InPlace /\ registered = TRUE) \/ Removed
    /\ pc[a] = "error" => Removed
    /\ pc[a] = "flush" => InPlace \/ (Removed /\ ret[a] = "gone")
    /\ pc[a] = "next" =>
         k[a] \in 1 .. Commands + 1 /\ c_rules = LeftBy(platform, k[a]) /\ UndoFrom(k[a])
    /\ pc[a] = "exec" =>
         /\ k[a] \in 1 .. Commands /\ c_rules = LeftBy(platform, k[a]) /\ UndoFrom(k[a])
         /\ cmd[a] = End!disable(platform)[k[a]]
    /\ pc[a] = "null" =>
         k[a] \in 1 .. Commands /\ c_rules = LeftBy(platform, k[a] + 1) /\ UndoFrom(k[a])
    /\ pc[a] \in {"done", "gone"} => c_rules = {}

CaptureInv == CaptureTypeOK /\ Issued /\ OneEnds /\ \A a \in End!Actor : Progress(a)

(* The actors are different. *)
LEMMA CaptureActors ==
    /\ End!Main \in End!Actor /\ End!Ui \in End!Actor /\ End!Main # End!Ui
    /\ \A s \in End!Handler : s \in End!Actor /\ s # End!Main
  BY DEF End!Main, End!Ui, End!Actor, End!Handler

(* Each command removes rules that are there, and the last one leaves none. *)
LEMMA CommandsRemove ==
    ASSUME platform \in {"linux", "freebsd"}
    PROVE  /\ Commands \in Nat /\ Len(End!disable(platform)) = Commands
           /\ End!disable(platform) \in Seq(SUBSET End!Rule)
           /\ LeftBy(platform, 1) = End!Rule /\ LeftBy(platform, Commands + 1) = {}
           /\ \A n \in 1 .. Commands :
                /\ End!disable(platform)[n] # {}
                /\ End!disable(platform)[n] \subseteq LeftBy(platform, n)
                /\ LeftBy(platform, n) \ End!disable(platform)[n] = LeftBy(platform, n + 1)
<1>1. CASE platform = "linux"
  <2>1. End!disable(platform) = <<{"tcp"}, {"udp"}, {"icmp"}>> /\ Commands = 3
    BY <1>1 DEF End!disable, End!enable, Commands
  <2>2. /\ LeftBy(platform, 1) = {"tcp", "udp", "icmp"} /\ LeftBy(platform, 2) = {"udp", "icmp"}
        /\ LeftBy(platform, 3) = {"icmp"} /\ LeftBy(platform, 4) = {}
    BY <1>1 DEF LeftBy, End!Rule
  <2>3. 1 .. 3 = {1, 2, 3}
    OBVIOUS
  <2>4. QED
    BY <2>1, <2>2, <2>3 DEF End!Rule
<1>2. CASE platform = "freebsd"
  <2>1. End!disable(platform) = <<End!Rule>> /\ Commands = 1
    BY <1>2 DEF End!disable, Commands
  <2>2. LeftBy(platform, 1) = End!Rule /\ LeftBy(platform, 2) = {} /\ End!Rule # {}
    BY <1>2 DEF LeftBy, End!Rule
  <2>3. QED
    BY <2>1, <2>2
<1>3. QED
  BY <1>1, <1>2

LEMMA CaptureInit == End!Init => CaptureInv
<1> SUFFICES ASSUME End!Init PROVE CaptureInv
  OBVIOUS
<1> USE CaptureActors
<1>1. /\ platform \in {"linux", "freebsd"} /\ c_rules = {} /\ undo = <<>>
      /\ clean = TRUE /\ registered = FALSE /\ ends = 0
  BY CaptureAssumption, Zenon DEF End!Init
<1>2. /\ pc \in [End!Actor -> Starting \cup Ending \cup {"serve", "none"}]
      /\ pc[End!Main] = "init" /\ \A a \in End!Actor : a # End!Main => pc[a] \in {"serve", "none"}
  BY Zenon DEF End!Init, Starting
<1>3. /\ k \in [End!Actor -> Nat] /\ k[End!Main] = 1
      /\ ret \in [End!Actor -> {"gone", "error"}] /\ cmd \in [End!Actor -> SUBSET End!Rule]
  BY DEF End!Init
<1>4. CaptureTypeOK
  <2>1. undo \in Seq(SUBSET End!Rule) /\ clean \in BOOLEAN /\ registered \in BOOLEAN
    <3>1. undo \in Seq(SUBSET End!Rule)
      BY <1>1
    <3>2. QED
      BY <1>1, <3>1, Zenon
  <2>2. ends \in {0, 1}
    BY <1>1, Zenon
  <2>3. pc[End!Main] \in Starting
    BY <1>2 DEF Starting
  <2>4. QED
    BY <1>1, <1>2, <1>3, <2>1, <2>2, <2>3, Zenon DEF CaptureTypeOK
<1>5. Issued
  BY <1>1, <1>2, <1>3 DEF Issued
<1>6. \A a \in End!Actor : pc[a] \in {"init", "serve", "none"}
  BY <1>2, Zenon
<1>7. OneEnds
  BY <1>6 DEF OneEnds, Ending
<1>8. \A a \in End!Actor : Progress(a)
  BY <1>6 DEF Progress
<1>9. QED
  BY <1>4, <1>5, <1>7, <1>8, Zenon DEF CaptureInv

(* A step that leaves the variables of the invariant alone *)
LEMMA CaptureFrame ==
    ASSUME CaptureInv,
           UNCHANGED <<platform, pc, k, cmd, ret, c_rules, undo, clean, registered, ends>>
    PROVE  CaptureInv'
<1>1. CaptureTypeOK'
  BY Zenon DEF CaptureInv, CaptureTypeOK
<1>2. Issued' /\ OneEnds'
  BY Zenon DEF CaptureInv, Issued, OneEnds, UndoFrom, Commands
<1>3. \A a \in End!Actor : Progress(a)'
  BY ZenonT(30) DEF CaptureInv, Progress, UndoFrom, Commands, InPlace, Removed
<1>4. QED
  BY <1>1, <1>2, <1>3, Zenon DEF CaptureInv

(* A step of the thread or handler that ends the program *)
LEMMA EndFrame ==
    ASSUME CaptureInv, NEW a \in End!Actor, pc[a] \in Ending, NEW p \in Ending,
           pc' = [pc EXCEPT ![a] = p], ends' = ends, platform' = platform,
           k' \in [End!Actor -> Nat], ret' \in [End!Actor -> {"gone", "error"}],
           cmd' \in [End!Actor -> SUBSET End!Rule], undo' \in Seq(SUBSET End!Rule),
           clean' \in BOOLEAN, registered' \in BOOLEAN,
           Progress(a)'
    PROVE  CaptureInv'
<1> USE CaptureActors
<1>1. a # End!Main
  <2>1. \A q \in Starting : q \notin Ending
    BY DEF Starting, Ending
  <2>2. QED
    BY <2>1, Zenon DEF CaptureInv, CaptureTypeOK
<1>2. /\ pc'[a] = p /\ \A b \in End!Actor : b # a => pc'[b] = pc[b]
      /\ pc' \in [End!Actor -> Starting \cup Ending \cup {"serve", "none"}]
  BY Zenon DEF CaptureInv, CaptureTypeOK
<1>3. CaptureTypeOK'
  BY <1>1, <1>2, Zenon DEF CaptureInv, CaptureTypeOK
<1>4. ends = 1 /\ pc[End!Main] = "run"
  BY Zenon DEF CaptureInv, OneEnds
<1>5. Issued'
  <2>1. ends' # 0
    BY <1>4
  <2>2. QED
    BY <2>1, Zenon DEF Issued
<1>6. \A b \in End!Actor : b # a => pc'[b] \notin Ending
  BY <1>2, Zenon DEF CaptureInv, OneEnds
<1>7. OneEnds'
  BY <1>1, <1>2, <1>4, <1>6, Zenon DEF OneEnds
<1>8. \A b \in End!Actor : Progress(b)'
  <2>1. ASSUME NEW b \in End!Actor, b # a PROVE Progress(b)'
    <3>1. pc'[b] \notin Ending
      BY <1>6, <2>1, Zenon
    <3>2. QED
      BY <3>1 DEF Progress, Ending
  <2>2. QED
    BY <2>1, Zenon
<1>9. QED
  BY <1>3, <1>5, <1>7, <1>8, Zenon DEF CaptureInv

(* What the thread or handler that ends the program knows *)
LEMMA EndFacts ==
    ASSUME CaptureInv, NEW a \in End!Actor
    PROVE  /\ Progress(a)
           /\ k \in [End!Actor -> Nat] /\ ret \in [End!Actor -> {"gone", "error"}]
           /\ cmd \in [End!Actor -> SUBSET End!Rule] /\ undo \in Seq(SUBSET End!Rule)
           /\ clean \in BOOLEAN /\ registered \in BOOLEAN /\ platform \in {"linux", "freebsd"}
           /\ pc[a] \in Starting \cup Ending \cup {"serve", "none"}
           /\ k[a] \in Nat /\ ret[a] \in {"gone", "error"}
           /\ \A p : pc' = [pc EXCEPT ![a] = p] => pc'[a] = p
  BY Zenon DEF CaptureInv, CaptureTypeOK

LEMMA StepLog ==
    ASSUME CaptureInv, NEW s \in End!Handler, End!iptables_undo_on_signal(s)
    PROVE  CaptureInv'
<1> USE CaptureActors
<1>1. /\ s \in End!Actor /\ pc[s] = "log" /\ pc' = [pc EXCEPT ![s] = "flush"]
      /\ ret' = [ret EXCEPT ![s] = "error"]
      /\ UNCHANGED <<platform, k, cmd, c_rules, undo, clean, registered, ends>>
  BY Zenon DEF End!iptables_undo_on_signal, End!To, End!stateVars
<1>2. pc'[s] = "flush" /\ InPlace /\ ret' \in [End!Actor -> {"gone", "error"}]
  BY <1>1, EndFacts, Zenon DEF Progress
<1>3. InPlace'
  BY <1>1, <1>2, ZenonT(30) DEF InPlace, UndoFrom, Commands
<1>4. Progress(s)'
  BY <1>2, <1>3 DEF Progress
<1>5. "log" \in Ending /\ "flush" \in Ending
  BY DEF Ending
<1>6. QED
  BY <1>1, <1>2, <1>4, <1>5, EndFacts, EndFrame, Zenon

LEMMA StepQuit ==
    ASSUME CaptureInv, NEW a \in End!Actor, End!quit(a)
    PROVE  CaptureInv'
<1>1. /\ pc[a] = "quit" /\ ret' = [ret EXCEPT ![a] = "gone"] /\ registered' = FALSE
      /\ pc' = [pc EXCEPT ![a] = IF registered THEN "flush" ELSE "gone"]
      /\ UNCHANGED <<platform, k, cmd, c_rules, undo, clean, ends>>
  BY Zenon DEF End!quit, End!To
<1>2. /\ ret'[a] = "gone" /\ ret' \in [End!Actor -> {"gone", "error"}]
      /\ (InPlace /\ registered = TRUE) \/ Removed
  BY <1>1, EndFacts, Zenon DEF Progress
<1>3. InPlace => InPlace'
  BY <1>1, Zenon DEF InPlace, UndoFrom, Commands
<1>4. Removed => Removed'
  BY <1>1, Zenon DEF Removed
<1>5. {"quit", "flush", "gone"} \subseteq Ending
  BY DEF Ending
<1>6. CASE registered = TRUE
  <2>1. pc' = [pc EXCEPT ![a] = "flush"]
    BY <1>1, <1>6, Zenon
  <2>2. pc'[a] = "flush" /\ (InPlace' \/ (Removed' /\ ret'[a] = "gone"))
    BY <1>2, <1>3, <1>4, <2>1, EndFacts, Zenon
  <2>3. Progress(a)'
    BY <2>2 DEF Progress
  <2>4. registered' \in BOOLEAN
    BY <1>1, Zenon
  <2>5. QED
    BY <1>1, <1>2, <1>5, <2>1, <2>3, <2>4, EndFacts, EndFrame, Zenon
<1>7. CASE registered = FALSE
  <2>1. pc' = [pc EXCEPT ![a] = "gone"]
    BY <1>1, <1>7, Zenon
  <2>2. registered # TRUE
    BY <1>7, Zenon
  <2>3. pc'[a] = "gone" /\ c_rules' = {}
    BY <1>2, <1>4, <2>1, <2>2, EndFacts, Zenon DEF Removed
  <2>4. Progress(a)'
    BY <2>3 DEF Progress
  <2>5. registered' \in BOOLEAN
    BY <1>1, Zenon
  <2>6. QED
    BY <1>1, <1>2, <1>5, <2>1, <2>4, <2>5, EndFacts, EndFrame, Zenon
<1>8. QED
  BY <1>6, <1>7, EndFacts, Zenon

LEMMA StepError ==
    ASSUME CaptureInv, NEW a \in End!Actor, End!error(a)
    PROVE  CaptureInv'
<1>1. /\ pc[a] = "error" /\ pc' = [pc EXCEPT ![a] = "quit"]
      /\ UNCHANGED <<platform, k, cmd, ret, c_rules, undo, clean, registered, ends>>
  BY Zenon DEF End!error, End!To, End!stateVars
<1>2. pc'[a] = "quit" /\ Removed
  BY <1>1, EndFacts, Zenon DEF Progress
<1>3. Removed'
  BY <1>1, <1>2, Zenon DEF Removed
<1>4. Progress(a)'
  BY <1>2, <1>3 DEF Progress
<1>5. "error" \in Ending /\ "quit" \in Ending
  BY DEF Ending
<1>6. QED
  BY <1>1, <1>4, <1>5, EndFacts, EndFrame, Zenon

LEMMA StepFlush ==
    ASSUME CaptureInv, NEW a \in End!Actor, End!iptables_undo_flush(a)
    PROVE  CaptureInv'
<1>1. /\ pc[a] = "flush" /\ pc' = [pc EXCEPT ![a] = IF clean THEN ret[a] ELSE "next"]
      /\ k' = [k EXCEPT ![a] = 1]
      /\ UNCHANGED <<platform, cmd, ret, c_rules, undo, clean, registered, ends>>
  BY Zenon DEF End!iptables_undo_flush, End!To, End!stateVars
<1>2. 1 \in Nat
  OBVIOUS
<1>3. /\ k'[a] = 1 /\ k' \in [End!Actor -> Nat]
      /\ InPlace \/ (Removed /\ ret[a] = "gone")
  BY <1>1, <1>2, EndFacts, Zenon DEF Progress
<1>4. {"flush", "next", "gone"} \subseteq Ending
  BY DEF Ending
<1>5. CASE clean = TRUE
  <2>1. Removed /\ ret[a] = "gone"
    <3>1. ~(clean = FALSE)
      BY <1>5, Zenon
    <3>2. QED
      BY <1>3, <3>1, Zenon DEF InPlace
  <2>2. pc' = [pc EXCEPT ![a] = "gone"]
    BY <1>1, <1>5, <2>1, Zenon
  <2>3. pc'[a] = "gone" /\ c_rules' = {}
    BY <1>1, <2>1, <2>2, EndFacts, Zenon DEF Removed
  <2>4. Progress(a)'
    BY <2>3 DEF Progress
  <2>5. QED
    BY <1>1, <1>3, <1>4, <2>2, <2>4, EndFacts, EndFrame, Zenon
<1>6. CASE clean = FALSE
  <2>1. InPlace
    <3>1. ~(clean = TRUE)
      BY <1>6, Zenon
    <3>2. QED
      BY <1>3, <3>1, Zenon DEF Removed
  <2>2. pc' = [pc EXCEPT ![a] = "next"]
    BY <1>1, <1>6, Zenon
  <2>3. /\ pc'[a] = "next" /\ c_rules' = LeftBy(platform', k'[a])
        /\ UndoFrom(1)'
    <3>1. LeftBy(platform, 1) = End!Rule
      BY CommandsRemove, EndFacts, Zenon
    <3>2. QED
      BY <1>1, <1>3, <2>1, <2>2, <3>1, EndFacts, Zenon DEF InPlace, UndoFrom, Commands
  <2>4. UndoFrom(k[a])'
    BY <1>3, <2>3, Zenon DEF UndoFrom
  <2>5. k'[a] \in 1 .. Commands' + 1
    BY <1>3 DEF Commands
  <2>6. Progress(a)'
    BY <2>3, <2>4, <2>5 DEF Progress
  <2>7. QED
    BY <1>1, <1>3, <1>4, <2>2, <2>6, EndFacts, EndFrame, Zenon
<1>7. QED
  BY <1>5, <1>6, EndFacts, Zenon

LEMMA StepNext ==
    ASSUME CaptureInv, NEW a \in End!Actor, End!UndoNext(a)
    PROVE  CaptureInv'
<1> DEFINE n == k[a]
           more == n <= Len(undo) /\ undo[n] # {}
<1>1. /\ pc[a] = "next" /\ pc' = [pc EXCEPT ![a] = IF more THEN "exec" ELSE "done"]
      /\ cmd' = [cmd EXCEPT ![a] = IF more THEN undo[n] ELSE {}]
      /\ UNCHANGED <<platform, k, ret, c_rules, undo, clean, registered, ends>>
  BY Zenon DEF End!UndoNext, End!To, End!stateVars
<1>2. /\ n \in 1 .. Commands + 1 /\ c_rules = LeftBy(platform, n) /\ UndoFrom(n)
  BY <1>1, EndFacts, Zenon DEF Progress
<1>3. {"next", "exec", "done"} \subseteq Ending
  BY DEF Ending
<1>4. Commands' = Commands /\ Commands \in Nat /\ k'[a] = n /\ UndoFrom(k[a])'
  BY <1>1, <1>2, CommandsRemove, EndFacts, Zenon DEF Commands, UndoFrom
<1>5. CASE n \in 1 .. Commands
  <2>1. undo[n] = End!disable(platform)[n] /\ undo[n] # {} /\ n <= Len(undo)
    <3>1. n \in n .. Commands
      BY <1>5
    <3>2. undo[n] = End!disable(platform)[n] /\ undo[n] # {}
      BY <1>2, <1>5, <3>1, CommandsRemove, EndFacts, Zenon DEF UndoFrom
    <3>3. n <= Len(undo)
      BY <1>2, <1>5 DEF UndoFrom
    <3>4. QED
      BY <3>2, <3>3
  <2>2. pc' = [pc EXCEPT ![a] = "exec"] /\ cmd' = [cmd EXCEPT ![a] = undo[n]]
    BY <1>1, <2>1, Zenon
  <2>3. undo[n] \in SUBSET End!Rule
    <3>1. n \in 1 .. Len(undo)
      BY <1>5, <2>1
    <3>2. QED
      BY <3>1, EndFacts
  <2>4. /\ pc'[a] = "exec" /\ cmd'[a] = End!disable(platform')[n]
        /\ cmd' \in [End!Actor -> SUBSET End!Rule]
    BY <1>1, <2>1, <2>2, <2>3, EndFacts, Zenon
  <2>5. k'[a] \in 1 .. Commands' /\ c_rules' = LeftBy(platform', k'[a])
    BY <1>1, <1>2, <1>4, <1>5, Zenon
  <2>6. Progress(a)'
    <3>1. cmd'[a] = End!disable(platform')[k'[a]]
      BY <1>4, <2>4, Zenon
    <3> HIDE DEF n
    <3>2. QED
      BY <1>4, <2>4, <2>5, <3>1 DEF Progress
  <2>7. QED
    BY <1>1, <1>3, <2>2, <2>4, <2>6, EndFacts, EndFrame, Zenon
<1>6. CASE n \notin 1 .. Commands
  <2>1. n = Commands + 1
    BY <1>2, <1>4, <1>6
  <2>2. ~more
    BY <1>2, <1>4, <2>1 DEF UndoFrom
  <2>3. pc' = [pc EXCEPT ![a] = "done"] /\ cmd' = [cmd EXCEPT ![a] = {}]
    BY <1>1, <2>2, Zenon
  <2>4. c_rules' = {}
    BY <1>1, <1>2, <2>1, CommandsRemove, EndFacts, Zenon
  <2>5. pc'[a] = "done" /\ cmd' \in [End!Actor -> SUBSET End!Rule]
    BY <2>3, EndFacts, ZenonT(30)
  <2>6. Progress(a)'
    BY <2>4, <2>5 DEF Progress
  <2>7. QED
    BY <1>1, <1>3, <2>3, <2>5, <2>6, EndFacts, EndFrame, Zenon
<1>7. QED
  BY <1>5, <1>6, Zenon

LEMMA StepExec ==
    ASSUME CaptureInv, NEW a \in End!Actor, End!UndoExec(a)
    PROVE  CaptureInv'
<1> DEFINE n == k[a]
<1>1. /\ pc[a] = "exec" /\ c_rules' = c_rules \ cmd[a]
      /\ pc' = [pc EXCEPT ![a] = IF cmd[a] \subseteq c_rules THEN "null" ELSE "error"]
      /\ UNCHANGED <<platform, k, cmd, ret, undo, clean, registered, ends>>
  BY Zenon DEF End!UndoExec, End!Fail, End!To, End!stateVars
<1>2. /\ n \in 1 .. Commands /\ c_rules = LeftBy(platform, n) /\ UndoFrom(n)
      /\ cmd[a] = End!disable(platform)[n]
  BY <1>1, EndFacts, Zenon DEF Progress
<1>3. {"exec", "null"} \subseteq Ending
  BY DEF Ending
<1>4. cmd[a] \subseteq c_rules /\ c_rules' = LeftBy(platform, n + 1)
  BY <1>1, <1>2, CommandsRemove, EndFacts, Zenon
<1>5. pc' = [pc EXCEPT ![a] = "null"] /\ pc'[a] = "null"
  BY <1>1, <1>4, EndFacts, Zenon
<1>6. Commands' = Commands /\ k'[a] = n /\ UndoFrom(k[a])' /\ c_rules' = LeftBy(platform', k'[a] + 1)
  BY <1>1, <1>2, <1>4, Zenon DEF Commands, UndoFrom
<1>7. Progress(a)'
  <2> HIDE DEF n
  <2>1. QED
    BY <1>2, <1>5, <1>6 DEF Progress
<1>8. QED
  BY <1>1, <1>3, <1>5, <1>7, EndFacts, EndFrame, Zenon

LEMMA StepNull ==
    ASSUME CaptureInv, NEW a \in End!Actor, End!UndoNull(a)
    PROVE  CaptureInv'
<1> DEFINE n == k[a]
<1>1. /\ pc[a] = "null" /\ undo' = IF platform = "linux" THEN [undo EXCEPT ![n] = {}] ELSE undo
      /\ k' = [k EXCEPT ![a] = n + 1] /\ pc' = [pc EXCEPT ![a] = "next"]
      /\ UNCHANGED <<platform, cmd, ret, c_rules, clean, registered, ends>>
  BY Zenon DEF End!UndoNull, End!To
<1>2. n \in 1 .. Commands /\ c_rules = LeftBy(platform, n + 1) /\ UndoFrom(n)
  BY <1>1, EndFacts, Zenon DEF Progress
<1>3. {"null", "next"} \subseteq Ending
  BY DEF Ending
<1>4. n \in Nat /\ n + 1 \in Nat /\ Commands \in Nat /\ Commands' = Commands
  BY <1>1, <1>2, CommandsRemove, EndFacts DEF Commands
<1>5. k'[a] = n + 1 /\ k' \in [End!Actor -> Nat] /\ pc'[a] = "next"
  BY <1>1, <1>4, EndFacts, Zenon
<1>6. /\ undo' \in Seq(SUBSET End!Rule) /\ Len(undo') = Len(undo)
      /\ \A i \in 1 .. Len(undo) : i # n => undo'[i] = undo[i]
  <2>1. undo \in Seq(SUBSET End!Rule) /\ n \in 1 .. Len(undo) /\ {} \in SUBSET End!Rule
    BY <1>2, EndFacts DEF UndoFrom
  <2> HIDE DEF n
  <2>2. CASE platform = "linux"
    <3>1. undo' = [undo EXCEPT ![n] = {}]
      BY <1>1, <2>2, Zenon
    <3>2. QED
      BY <2>1, <3>1, ExceptSeq
  <2>3. CASE platform # "linux"
    BY <1>1, <2>1, <2>3
  <2>4. QED
    BY <2>2, <2>3
<1>7. UndoFrom(k[a])'
  <2>1. Len(undo') = Commands'
    BY <1>2, <1>4, <1>6, Zenon DEF UndoFrom
  <2>2. \A i \in n + 1 .. Commands : i \in n .. Commands /\ i \in 1 .. Commands /\ i # n
    BY <1>2, <1>4
  <2>3. \A i \in n + 1 .. Commands : undo'[i] = End!disable(platform)[i]
    BY <1>2, <1>6, <2>2, Zenon DEF UndoFrom
  <2>4. QED
    BY <1>1, <1>4, <1>5, <2>1, <2>3, Zenon DEF UndoFrom
<1>8. k'[a] \in 1 .. Commands' + 1
  BY <1>2, <1>4, <1>5
<1>9. c_rules' = LeftBy(platform', k'[a])
  BY <1>1, <1>2, <1>5, ZenonT(30)
<1>10. Progress(a)'
  BY <1>5, <1>7, <1>8, <1>9 DEF Progress
<1>11. QED
  BY <1>1, <1>3, <1>5, <1>6, <1>10, EndFacts, EndFrame, Zenon

LEMMA StepDone ==
    ASSUME CaptureInv, NEW a \in End!Actor, End!UndoDone(a)
    PROVE  CaptureInv'
<1>1. /\ pc[a] = "done" /\ clean' = TRUE /\ pc' = [pc EXCEPT ![a] = ret[a]]
      /\ UNCHANGED <<platform, k, cmd, ret, c_rules, undo, registered, ends>>
  BY Zenon DEF End!UndoDone, End!To
<1>2. c_rules' = {} /\ pc'[a] = ret[a] /\ ret[a] \in {"gone", "error"} /\ clean' \in BOOLEAN
  BY <1>1, EndFacts, Zenon DEF Progress
<1>3. "done" \in Ending /\ ret[a] \in Ending
  BY <1>2 DEF Ending
<1>4. Removed'
  BY <1>1, <1>2, Zenon DEF Removed
<1>5. Progress(a)'
  BY <1>2, <1>4 DEF Progress
<1>6. QED
  BY <1>1, <1>2, <1>3, <1>5, EndFacts, EndFrame, Zenon

(* A signal, or a request to quit, once init_capture is done *)
LEMMA StepEnds ==
    ASSUME CaptureInv, NEW a \in End!Actor, a # End!Main, NEW p \in {"log", "quit"}, End!MayEnd,
           pc' = [pc EXCEPT ![a] = p], ends' = ends + 1,
           UNCHANGED <<platform, k, cmd, ret, c_rules, undo, clean, registered>>
    PROVE  CaptureInv'
<1> USE CaptureActors
<1>1. ends = 0 /\ ends' = 1 /\ pc[End!Main] = "run"
  BY DEF CaptureInv, CaptureTypeOK, End!MayEnd
<1>2. p \in Ending /\ "run" \notin Ending
  BY DEF Ending
<1>3. /\ pc'[a] = p /\ \A b \in End!Actor : b # a => pc'[b] = pc[b]
      /\ pc' \in [End!Actor -> Starting \cup Ending \cup {"serve", "none"}]
  BY <1>2, Zenon DEF CaptureInv, CaptureTypeOK
<1>4. CaptureTypeOK'
  BY <1>1, <1>2, <1>3, Zenon DEF CaptureInv, CaptureTypeOK
<1>5. InPlace' /\ registered' = TRUE
  <2>1. InPlace /\ registered = TRUE
    BY <1>1 DEF CaptureInv, Issued, InPlace
  <2>2. QED
    BY <2>1, Zenon DEF InPlace, UndoFrom, Commands
<1>6. Issued'
  <2>1. ends' # 0
    BY <1>1
  <2>2. QED
    BY <2>1, Zenon DEF Issued
<1>7. \A b \in End!Actor : b # a => pc'[b] \notin Ending
  <2>1. ends # 1
    BY <1>1
  <2>2. QED
    BY <1>3, <2>1, Zenon DEF CaptureInv, OneEnds
<1>8. OneEnds'
  BY <1>1, <1>2, <1>3, <1>7, Zenon DEF OneEnds
<1>9. \A b \in End!Actor : Progress(b)'
  <2>1. ASSUME NEW b \in End!Actor, b # a PROVE Progress(b)'
    <3>1. pc'[b] \notin Ending
      BY <1>7, <2>1, Zenon
    <3>2. QED
      BY <3>1 DEF Progress, Ending
  <2>2. Progress(a)'
    BY <1>3, <1>5 DEF Progress
  <2>3. QED
    BY <2>1, <2>2, ZenonT(30)
<1>10. QED
  BY <1>4, <1>6, <1>8, <1>9, Zenon DEF CaptureInv

(* A step of the main thread in init_capture *)
LEMMA MainFrame ==
    ASSUME CaptureInv, pc[End!Main] # "run", NEW q \in Starting,
           pc' = [pc EXCEPT ![End!Main] = q],
           UNCHANGED <<platform, cmd, ret, ends>>,
           k' \in [End!Actor -> Nat], undo' \in Seq(SUBSET End!Rule),
           clean' \in BOOLEAN, registered' \in BOOLEAN, Issued'
    PROVE  CaptureInv'
<1> USE CaptureActors
<1>1. /\ pc'[End!Main] = q /\ \A b \in End!Actor : b # End!Main => pc'[b] = pc[b]
      /\ pc' \in [End!Actor -> Starting \cup Ending \cup {"serve", "none"}]
  BY Zenon DEF CaptureInv, CaptureTypeOK
<1>2. CaptureTypeOK'
  BY <1>1, Zenon DEF CaptureInv, CaptureTypeOK
<1>3. \A b \in End!Actor : pc'[b] \notin Ending
  <2>1. \A r \in Starting : r \notin Ending
    BY DEF Starting, Ending
  <2>2. QED
    BY <1>1, <2>1, Zenon DEF CaptureInv, OneEnds
<1>4. OneEnds'
  BY <1>3, Zenon DEF OneEnds
<1>5. \A b \in End!Actor : Progress(b)'
  BY <1>3 DEF Progress, Ending
<1>6. QED
  BY <1>2, <1>4, <1>5, Zenon DEF CaptureInv

(* What init_capture knows *)
LEMMA MainFacts ==
    ASSUME CaptureInv
    PROVE  /\ k \in [End!Actor -> Nat] /\ undo \in Seq(SUBSET End!Rule)
           /\ clean \in BOOLEAN /\ registered \in BOOLEAN /\ platform \in {"linux", "freebsd"}
           /\ k[End!Main] \in Nat
           /\ \A p : pc' = [pc EXCEPT ![End!Main] = p] => pc'[End!Main] = p
  BY CaptureActors, Zenon DEF CaptureInv, CaptureTypeOK

LEMMA StepInit == CaptureInv /\ End!init_capture => CaptureInv'
<1> SUFFICES ASSUME CaptureInv, End!init_capture PROVE CaptureInv'
  OBVIOUS
<1>1. /\ pc[End!Main] = "init" /\ undo' = End!disable(platform)
      /\ pc' = [pc EXCEPT ![End!Main] = "issue"]
      /\ UNCHANGED <<platform, k, cmd, ret, c_rules, clean, registered, ends>>
  BY Zenon DEF End!init_capture, End!To
<1>2. /\ undo' \in Seq(SUBSET End!Rule) /\ pc'[End!Main] = "issue"
      /\ Commands' = Commands /\ Len(undo') = Commands'
  BY <1>1, MainFacts, CommandsRemove, Zenon DEF Commands
<1>3. UndoFrom(1)'
  BY <1>1, <1>2, Zenon DEF UndoFrom
<1>4. ends' = 0 => c_rules' = {} /\ k'[End!Main] = 1
  BY <1>1, Zenon DEF CaptureInv, Issued
<1>5. End!Rule \ LeftBy("linux", 1) = {}
  BY DEF LeftBy
<1>6. Issued'
  BY <1>2, <1>3, <1>4, <1>5 DEF Issued
<1>7. "issue" \in Starting /\ "init" # "run"
  BY DEF Starting
<1>8. QED
  BY <1>1, <1>2, <1>6, <1>7, MainFacts, MainFrame, Zenon

LEMMA StepIssue == CaptureInv /\ End!iptables => CaptureInv'
<1> SUFFICES ASSUME CaptureInv, End!iptables PROVE CaptureInv'
  OBVIOUS
<1> DEFINE n == k[End!Main]
<1>1. /\ pc[End!Main] = "issue" /\ c_rules' = c_rules \cup End!enable[n]
      /\ k' = [k EXCEPT ![End!Main] = n + 1]
      /\ pc' = [pc EXCEPT ![End!Main] = IF n < Len(End!enable) THEN "issue" ELSE "dirty"]
      /\ UNCHANGED <<platform, cmd, ret, undo, clean, registered, ends>>
  BY Zenon DEF End!iptables, End!Fail, End!To
<1>2. n \in Nat /\ n + 1 \in Nat
  BY MainFacts
<1>3. k'[End!Main] = n + 1 /\ k' \in [End!Actor -> Nat]
  BY <1>1, <1>2, MainFacts, CaptureActors, Zenon
<1>4. ends = 0 => UndoFrom(1) /\ n \in 1 .. 3 /\ c_rules = End!Rule \ LeftBy("linux", n)
  BY <1>1 DEF CaptureInv, Issued
<1>5. UndoFrom(1) => UndoFrom(1)'
  BY <1>1, Zenon DEF UndoFrom, Commands
<1>6. {"issue", "dirty"} \subseteq Starting /\ "issue" # "run" /\ Len(End!enable) = 3
  BY DEF Starting, End!enable
<1>7. CASE n < 3
  <2>1. pc' = [pc EXCEPT ![End!Main] = "issue"]
    BY <1>1, <1>6, <1>7, Zenon
  <2>2. pc'[End!Main] = "issue"
    BY <2>1, MainFacts, Zenon
  <2>3. ends = 0 => c_rules' = End!Rule \ LeftBy("linux", n + 1) /\ n + 1 \in 1 .. 3
    <3>1. SUFFICES ASSUME ends = 0
                   PROVE  c_rules' = End!Rule \ LeftBy("linux", n + 1) /\ n + 1 \in 1 .. 3
      OBVIOUS
    <3>2. CASE n = 1
      BY <1>1, <1>4, <3>1, <3>2 DEF End!enable, LeftBy, End!Rule
    <3>3. CASE n = 2
      BY <1>1, <1>4, <3>1, <3>3 DEF End!enable, LeftBy, End!Rule
    <3>4. QED
      BY <1>4, <1>7, <3>1, <3>2, <3>3
  <2>4. Issued'
    <3> HIDE DEF n
    <3>1. QED
      BY <1>1, <1>3, <1>4, <1>5, <2>2, <2>3 DEF Issued
  <2>5. QED
    BY <1>1, <1>3, <1>6, <2>1, <2>4, MainFacts, MainFrame, Zenon
<1>8. CASE ~(n < 3)
  <2>1. pc' = [pc EXCEPT ![End!Main] = "dirty"]
    BY <1>1, <1>6, <1>8, Zenon
  <2>2. pc'[End!Main] = "dirty"
    BY <2>1, MainFacts, Zenon
  <2>3. ends = 0 => c_rules' = End!Rule
    <3>1. SUFFICES ASSUME ends = 0 PROVE c_rules' = End!Rule
      OBVIOUS
    <3>2. n = 3
      BY <1>4, <1>8, <3>1
    <3>3. QED
      BY <1>1, <1>4, <3>1, <3>2 DEF End!enable, LeftBy, End!Rule
  <2>4. Issued'
    <3> HIDE DEF n
    <3>1. QED
      BY <1>1, <1>3, <1>4, <1>5, <2>2, <2>3 DEF Issued
  <2>5. QED
    BY <1>1, <1>3, <1>6, <2>1, <2>4, MainFacts, MainFrame, Zenon
<1>9. QED
  BY <1>7, <1>8

LEMMA StepStart ==
    CaptureInv /\ (End!set_dirty \/ End!atexit \/ End!inject_socket) => CaptureInv'
<1> SUFFICES ASSUME CaptureInv, End!set_dirty \/ End!atexit \/ End!inject_socket
             PROVE  CaptureInv'
  OBVIOUS
<1>1. {"dirty", "atexit", "socket", "run"} \subseteq Starting
  BY DEF Starting
<1>2. CASE End!set_dirty
  <2>1. /\ pc[End!Main] = "dirty" /\ clean' = FALSE /\ pc' = [pc EXCEPT ![End!Main] = "atexit"]
        /\ UNCHANGED <<platform, k, cmd, ret, c_rules, undo, registered, ends>>
    BY <1>2, Zenon DEF End!set_dirty, End!To
  <2>2. pc'[End!Main] = "atexit" /\ clean' \in BOOLEAN
    BY <2>1, MainFacts, Zenon
  <2>3. UndoFrom(1) => UndoFrom(1)'
    BY <2>1, Zenon DEF UndoFrom, Commands
  <2>4. Issued'
    BY <2>1, <2>2, <2>3 DEF CaptureInv, Issued
  <2>5. "dirty" # "run"
    OBVIOUS
  <2>6. QED
    BY <1>1, <2>1, <2>2, <2>4, <2>5, MainFacts, MainFrame, Zenon
<1>3. CASE End!atexit
  <2>1. /\ pc[End!Main] = "atexit" /\ registered' = TRUE /\ pc' = [pc EXCEPT ![End!Main] = "socket"]
        /\ UNCHANGED <<platform, k, cmd, ret, c_rules, undo, clean, ends>>
    BY <1>3, Zenon DEF End!atexit, End!To
  <2>2. pc'[End!Main] = "socket" /\ registered' \in BOOLEAN
    BY <2>1, MainFacts, Zenon
  <2>3. UndoFrom(1) => UndoFrom(1)'
    BY <2>1, Zenon DEF UndoFrom, Commands
  <2>4. Issued'
    BY <2>1, <2>2, <2>3 DEF CaptureInv, Issued
  <2>5. "atexit" # "run"
    OBVIOUS
  <2>6. QED
    BY <1>1, <2>1, <2>2, <2>4, <2>5, MainFacts, MainFrame, Zenon
<1>4. CASE End!inject_socket
  <2>1. /\ pc[End!Main] = "socket" /\ pc' = [pc EXCEPT ![End!Main] = "run"]
        /\ UNCHANGED <<platform, k, cmd, ret, c_rules, undo, clean, registered, ends>>
    BY <1>4, Zenon DEF End!inject_socket, End!To, End!stateVars
  <2>2. pc'[End!Main] = "run"
    BY <2>1, MainFacts, Zenon
  <2>3. UndoFrom(1) => UndoFrom(1)'
    BY <2>1, Zenon DEF UndoFrom, Commands
  <2>4. Issued'
    BY <2>1, <2>2, <2>3 DEF CaptureInv, Issued
  <2>5. "socket" # "run"
    OBVIOUS
  <2>6. QED
    BY <1>1, <2>1, <2>2, <2>4, <2>5, MainFacts, MainFrame, Zenon
<1>5. QED
  BY <1>2, <1>3, <1>4, Zenon

(* When the process is gone no rule is left in the kernel, on Linux and on FreeBSD
   and with any number of signal handlers, of which one or the user ends the program
   once it has started: iptables_undo_flush and ipfw_undo_flush remove what
   init_capture issued. *)
THEOREM NoRuleLeft == End!Spec => []CleanedUp
<1>1. CaptureInv /\ [End!Next]_(End!vars) => CaptureInv'
  <2> SUFFICES ASSUME CaptureInv, [End!Next]_(End!vars) PROVE CaptureInv'
    OBVIOUS
  <2>1. CASE UNCHANGED End!vars
    BY <2>1, CaptureFrame, Zenon DEF End!vars, End!actorVars, End!stateVars
  <2>2. CASE End!MainStep
    BY <2>2, StepInit, StepIssue, StepStart, Zenon DEF End!MainStep
  <2>3. CASE End!user_exit
    BY <2>3, CaptureActors, StepEnds, Zenon DEF End!user_exit, End!To, End!stateVars
  <2>4. CASE \E s \in End!Handler : End!iptables_undo_on_signal(s)
    BY <2>4, StepLog, Zenon
  <2>5. CASE \E s \in End!Handler : \E a \in End!Actor : End!Signal(s, a)
    BY <2>5, CaptureActors, StepEnds, Zenon DEF End!Signal, End!stateVars
  <2>6. ASSUME NEW a \in End!Actor, End!EndStep(a) PROVE CaptureInv'
    <3>1. CASE End!Lock(a) \/ End!log_message(a)
      BY <3>1, CaptureFrame, Zenon DEF End!Lock, End!log_message, End!actorVars, End!stateVars
    <3>2. QED
      BY <2>6, <3>1, StepQuit, StepError, StepFlush, StepNext, StepExec, StepNull, StepDone, Zenon
         DEF End!EndStep
  <2>7. QED
    BY <2>1, <2>2, <2>3, <2>4, <2>5, <2>6, Zenon DEF End!Next
<1>2. CaptureInv => CleanedUp
  BY Zenon DEF CaptureInv, Progress, CleanedUp, End!CleanedUp, End!Gone
<1>3. QED
  BY <1>1, <1>2, CaptureInit, PTL DEF End!Spec

-----------------------------------------------------------------------------
(* The resources of a tunnel *)

OpenUrl ==
    [transport : Transports \cup {"NULL"}, number : Int, encs : Seq({"known"}), plus : BOOLEAN]

OpenTypeOK ==
    /\ url \in OpenUrl
    /\ encodings \in [0 .. CKTP_MAX_ENCODINGS -> {"set", "NULL"}]
    /\ open_encodings \in Nat
    /\ check \in BOOLEAN /\ o_socket \in BOOLEAN /\ rng \in BOOLEAN

(* The array of encodings ends with NULL. *)
Ended ==
    /\ encodings[CKTP_MAX_ENCODINGS] = "NULL"
    /\ o_pc \in {"transport", "port", "query"} => url.encs = <<>>
    /\ o_pc = "encoding" => Len(url.encs) < CKTP_MAX_ENCODINGS

(* What the tunnel refers to is allocated, until it is closed. *)
Backed ==
    o_pc # "start" =>
      /\ o_socket = TRUE => <<attempt, "socket", 0>> \in allocated
      /\ rng = TRUE => <<attempt, "rng", 0>> \in allocated
      /\ \A j \in 0 .. CKTP_MAX_ENCODINGS : encodings[j] = "set" => <<attempt, "state", j>> \in allocated
      /\ \A j \in 0 .. open_encodings - 1 : j \in 0 .. CKTP_MAX_ENCODINGS /\ encodings[j] = "set"

OpenInv == OpenTypeOK /\ Ended /\ Backed /\ misused = FALSE

(* The URL of a tunnel that was not read yet *)
LEMMA UrlTypes ==
    /\ Open!NoUrl \in OpenUrl /\ Open!NoUrl.encs = <<>>
    /\ Open!NoEncodings \in [0 .. CKTP_MAX_ENCODINGS -> {"set", "NULL"}]
    /\ \A j \in 0 .. CKTP_MAX_ENCODINGS : Open!NoEncodings[j] = "NULL"
    /\ \A u \in OpenUrl :
         /\ u.encs \in Seq({"known"})
         /\ \A tr \in Transports :
              LET v == [u EXCEPT !.transport = tr] IN v \in OpenUrl /\ v.encs = u.encs
         /\ \A n \in Int :
              LET v == [u EXCEPT !.number = n] IN v \in OpenUrl /\ v.encs = u.encs
         /\ \A b \in BOOLEAN :
              LET v == [u EXCEPT !.encs = Append(@, "known"), !.plus = b]
              IN  v \in OpenUrl /\ v.encs = Append(u.encs, "known")
<1>1. <<>> \in Seq({"known"}) /\ 0 \in Int /\ FALSE \in BOOLEAN
  OBVIOUS
<1>2. Open!NoUrl \in OpenUrl /\ Open!NoUrl.encs = <<>>
  BY <1>1, Zenon DEF Open!NoUrl, Open!NULL, OpenUrl
<1>3. /\ Open!NoEncodings \in [0 .. CKTP_MAX_ENCODINGS -> {"set", "NULL"}]
      /\ \A j \in 0 .. CKTP_MAX_ENCODINGS : Open!NoEncodings[j] = "NULL"
  BY Zenon DEF Open!NoEncodings, Open!NULL
<1>4. ASSUME NEW u \in OpenUrl
      PROVE  /\ u.encs \in Seq({"known"}) /\ Append(u.encs, "known") \in Seq({"known"})
             /\ u = [transport |-> u.transport, number |-> u.number, encs |-> u.encs, plus |-> u.plus]
             /\ u.transport \in Transports \cup {"NULL"} /\ u.number \in Int /\ u.plus \in BOOLEAN
  BY <1>4 DEF OpenUrl
<1>5. ASSUME NEW u \in OpenUrl, NEW tr \in Transports
      PROVE  LET v == [u EXCEPT !.transport = tr] IN v \in OpenUrl /\ v.encs = u.encs
  BY <1>5, Zenon DEF OpenUrl
<1>6. ASSUME NEW u \in OpenUrl, NEW n \in Int
      PROVE  LET v == [u EXCEPT !.number = n] IN v \in OpenUrl /\ v.encs = u.encs
  BY <1>6, Zenon DEF OpenUrl
<1>7. ASSUME NEW u \in OpenUrl, NEW b \in BOOLEAN
      PROVE  LET v == [u EXCEPT !.encs = Append(@, "known"), !.plus = b]
             IN  v \in OpenUrl /\ v.encs = Append(u.encs, "known")
  BY <1>4, <1>7, Zenon DEF OpenUrl
<1>8. QED
  BY <1>2, <1>3, <1>4, <1>5, <1>6, <1>7, Zenon

LEMMA OpenInit == Open!Init => OpenInv
<1> SUFFICES ASSUME Open!Init PROVE OpenInv
  OBVIOUS
<1>1. 0 \in Nat /\ CKTP_MAX_ENCODINGS \in 0 .. CKTP_MAX_ENCODINGS /\ "start" # "encoding"
      /\ o_pc = "start"
  BY OpeningAssumption DEF Open!Init
<1>2. OpenTypeOK
  BY <1>1, UrlTypes, Zenon DEF Open!Init, OpenTypeOK
<1>3. Ended
  BY <1>1, UrlTypes, Zenon DEF Open!Init, Ended
<1>4. Backed /\ misused = FALSE
  BY Zenon DEF Open!Init, Backed
<1>5. QED
  BY <1>2, <1>3, <1>4, Zenon DEF OpenInv

(* A step that allocates nothing *)
LEMMA OpenFrame ==
    ASSUME OpenInv, o_pc # "start", Ended', url' \in OpenUrl,
           UNCHANGED <<check, encodings, open_encodings, o_socket, rng, attempt, allocated, misused>>
    PROVE  OpenInv'
<1>1. OpenTypeOK' /\ misused' = FALSE
  BY Zenon DEF OpenInv, OpenTypeOK
<1>2. Backed'
  BY Zenon DEF OpenInv, Backed
<1>3. QED
  BY <1>1, <1>2, Zenon DEF OpenInv

LEMMA OpenStart == OpenInv /\ Open!Start => OpenInv'
<1> SUFFICES ASSUME OpenInv, Open!Start PROVE OpenInv'
  OBVIOUS
<1>1. /\ o_pc' = "transport" /\ check' \in BOOLEAN /\ url' = Open!NoUrl
      /\ encodings' = Open!NoEncodings /\ open_encodings' = 0 /\ o_socket' = FALSE /\ rng' = FALSE
      /\ misused' = misused
  BY Zenon DEF Open!Start, Open!Goto, Open!held
<1>2. /\ 0 \in Nat /\ CKTP_MAX_ENCODINGS \in 0 .. CKTP_MAX_ENCODINGS /\ "set" # "NULL"
      /\ "transport" # "encoding" /\ 0 .. 0 - 1 = {}
  BY OpeningAssumption
<1>3. OpenTypeOK'
  BY <1>1, <1>2, UrlTypes, Zenon DEF OpenTypeOK
<1>4. Ended'
  BY <1>1, <1>2, UrlTypes, Zenon DEF Ended
<1>5. Backed'
  BY <1>1, <1>2, UrlTypes, Zenon DEF Backed
<1>6. QED
  BY <1>1, <1>3, <1>4, <1>5, Zenon DEF OpenInv

LEMMA OpenParse ==
    OpenInv /\ (Open!ParseTransport \/ Open!ParsePort \/ Open!ParseQuery) => OpenInv'
<1> SUFFICES ASSUME OpenInv, Open!ParseTransport \/ Open!ParsePort \/ Open!ParseQuery
             PROVE  OpenInv'
  OBVIOUS
<1>1. /\ o_pc \in {"transport", "port", "query"}
      /\ o_pc' \in {"port", "query", "encoding", "accepted", "refused"}
      /\ UNCHANGED <<check, encodings, open_encodings, o_socket, rng, attempt, allocated, misused>>
  BY Zenon DEF Open!ParseTransport, Open!ParsePort, Open!ParseQuery, Open!Goto, Open!held, Open!parsed
<1>2. url \in OpenUrl
  BY Zenon DEF OpenInv, OpenTypeOK
<1>3. \/ url' = url
      \/ \E tr \in Transports : url' = [url EXCEPT !.transport = tr]
      \/ \E n \in 0 .. MaxNumber : url' = [url EXCEPT !.number = n]
  BY Zenon DEF Open!ParseTransport, Open!ParsePort, Open!ParseQuery, Open!parsed
<1>4. \A n \in 0 .. MaxNumber : n \in Int
  OBVIOUS
<1>5. url' \in OpenUrl /\ url'.encs = url.encs
  <2>1. CASE url' = url
    BY <1>2, <2>1, Zenon
  <2>2. ASSUME NEW tr \in Transports, url' = [url EXCEPT !.transport = tr]
        PROVE  url' \in OpenUrl /\ url'.encs = url.encs
    BY <1>2, <2>2, UrlTypes, Zenon
  <2>3. ASSUME NEW n \in 0 .. MaxNumber, url' = [url EXCEPT !.number = n]
        PROVE  url' \in OpenUrl /\ url'.encs = url.encs
    BY <1>2, <1>4, <2>3, UrlTypes, Zenon
  <2>4. QED
    BY <1>3, <2>1, <2>2, <2>3, Zenon
<1>6. Ended'
  <2>1. encodings'[CKTP_MAX_ENCODINGS] = "NULL" /\ url.encs = <<>>
    BY <1>1, Zenon DEF OpenInv, Ended
  <2>2. Len(url'.encs) < CKTP_MAX_ENCODINGS
    <3>1. Len(url'.encs) = 0
      BY <1>5, <2>1
    <3>2. QED
      BY <3>1, OpeningAssumption
  <2>3. QED
    BY <1>5, <2>1, <2>2, Zenon DEF Ended
<1>7. o_pc # "start"
  BY <1>1
<1>8. QED
  BY <1>1, <1>5, <1>6, <1>7, OpenFrame, Zenon

LEMMA OpenEncoding == OpenInv /\ Open!ParseEncoding => OpenInv'
<1> SUFFICES ASSUME OpenInv, Open!ParseEncoding PROVE OpenInv'
  OBVIOUS
<1> DEFINE j == Len(url.encs)
           KnownName(next, plus) ==
             /\ Open!Goto("encoding", next)
             /\ url' = [url EXCEPT !.encs = Append(@, "known"), !.plus = plus]
             /\ IF check THEN UNCHANGED <<encodings, allocated>>
                ELSE /\ encodings' = [encodings EXCEPT ![j] = "set"]
                     /\ allocated' = allocated \cup {<<attempt, "state", j>>}
<1>1. /\ o_pc = "encoding"
      /\ UNCHANGED <<check, port, open_encodings, o_socket, rng, attempt, misused>>
      /\ \/ o_pc' = "refused" /\ UNCHANGED <<url, encodings, allocated>>
         \/ KnownName("accepted", FALSE)
         \/ KnownName("refused", FALSE)
         \/ j + 1 < CKTP_MAX_ENCODINGS /\ KnownName("encoding", FALSE)
         \/ j + 1 = CKTP_MAX_ENCODINGS /\ KnownName("accepted", TRUE)
  BY Zenon DEF Open!ParseEncoding, Open!Goto, Open!Limit
<1>2. /\ url \in OpenUrl /\ encodings \in [0 .. CKTP_MAX_ENCODINGS -> {"set", "NULL"}]
      /\ check \in BOOLEAN /\ encodings[CKTP_MAX_ENCODINGS] = "NULL" /\ j < CKTP_MAX_ENCODINGS
      /\ url.encs \in Seq({"known"})
  BY <1>1, UrlTypes, Zenon DEF OpenInv, OpenTypeOK, Ended
<1>3. j \in 0 .. CKTP_MAX_ENCODINGS /\ j # CKTP_MAX_ENCODINGS /\ Len(Append(url.encs, "known")) = j + 1
  BY <1>2, OpeningAssumption
<1>4. o_pc # "start"
  BY <1>1
<1> HIDE DEF j
<1>5. url' \in OpenUrl /\ (o_pc' = "encoding" => Len(url'.encs) < CKTP_MAX_ENCODINGS)
  <2>1. CASE url' = url /\ o_pc' = "refused"
    BY <1>2, <2>1
  <2>2. ASSUME NEW b \in BOOLEAN, NEW q \in {"accepted", "refused", "encoding"}, o_pc' = q,
               q = "encoding" => j + 1 < CKTP_MAX_ENCODINGS,
               url' = [url EXCEPT !.encs = Append(@, "known"), !.plus = b]
        PROVE  url' \in OpenUrl /\ (o_pc' = "encoding" => Len(url'.encs) < CKTP_MAX_ENCODINGS)
    <3>1. url' \in OpenUrl /\ url'.encs = Append(url.encs, "known")
      BY <1>2, <2>2, UrlTypes, Zenon
    <3>2. QED
      BY <1>3, <2>2, <3>1, Zenon
  <2>3. "accepted" # "encoding" /\ "refused" # "encoding"
    OBVIOUS
  <2>4. QED
    BY <1>1, <2>1, <2>2, <2>3, Zenon DEF Open!Goto
<1>6. o_pc' \in {"accepted", "refused", "encoding"}
  BY <1>1, Zenon DEF Open!Goto
<1>7. \/ UNCHANGED <<encodings, allocated>>
      \/ /\ encodings' = [encodings EXCEPT ![j] = "set"]
         /\ allocated' = allocated \cup {<<attempt, "state", j>>}
  BY <1>1, <1>2, Zenon
<1>8. /\ encodings' \in [0 .. CKTP_MAX_ENCODINGS -> {"set", "NULL"}]
      /\ encodings'[CKTP_MAX_ENCODINGS] = "NULL"
      /\ \A i \in 0 .. CKTP_MAX_ENCODINGS : encodings[i] = "set" => encodings'[i] = "set"
      /\ \A i \in 0 .. CKTP_MAX_ENCODINGS :
            encodings'[i] = "set" /\ encodings[i] # "set" => <<attempt, "state", i>> \in allocated'
      /\ allocated \subseteq allocated'
  <2>1. CKTP_MAX_ENCODINGS \in 0 .. CKTP_MAX_ENCODINGS
    BY OpeningAssumption
  <2>2. QED
    BY <1>2, <1>3, <1>7, <2>1, Zenon
<1>9. OpenTypeOK' /\ misused' = FALSE
  BY <1>1, <1>5, <1>8, Zenon DEF OpenInv, OpenTypeOK
<1>10. Ended'
  <2>1. o_pc' \notin {"transport", "port", "query"}
    BY <1>6
  <2>2. QED
    BY <1>5, <1>8, <2>1, Zenon DEF Ended
<1>11. Backed'
  BY <1>1, <1>4, <1>8, Zenon DEF OpenInv, Backed
<1>12. QED
  BY <1>9, <1>10, <1>11, Zenon DEF OpenInv

(* After the URL was read only the resources matter. *)
Read == o_pc \notin {"transport", "port", "query", "encoding"}

LEMMA OpenRead ==
    ASSUME OpenInv, Read', UNCHANGED encodings
    PROVE  Ended'
<1>1. o_pc' \notin {"transport", "port", "query"} /\ o_pc' # "encoding"
  BY DEF Read
<1>2. QED
  BY <1>1, Zenon DEF OpenInv, Ended

LEMMA OpenOther ==
    OpenInv /\ (Open!Parsed \/ Open!Resolve \/ Open!Unused) => OpenInv'
<1> SUFFICES ASSUME OpenInv, Open!Parsed \/ Open!Resolve \/ Open!Unused
             PROVE  OpenInv'
  OBVIOUS
<1>1. /\ o_pc \in {"accepted", "refused", "resolve", "open"}
      /\ o_pc' \in {"start", "resolve", "close", "socket"}
      /\ UNCHANGED <<check, url, encodings, open_encodings, o_socket, rng, attempt, allocated, misused>>
  BY Zenon DEF Open!Parsed, Open!Resolve, Open!Unused, Open!Goto, Open!held, Open!parsed
<1>2. o_pc # "start" /\ Read'
  BY <1>1 DEF Read
<1>3. url' \in OpenUrl
  BY <1>1, Zenon DEF OpenInv, OpenTypeOK
<1>4. QED
  BY <1>1, <1>2, <1>3, OpenRead, OpenFrame, Zenon

LEMMA OpenSocket == OpenInv /\ (Open!Socket \/ Open!Rng) => OpenInv'
<1> SUFFICES ASSUME OpenInv, Open!Socket \/ Open!Rng PROVE OpenInv'
  OBVIOUS
<1>1. /\ o_pc \in {"socket", "rng"} /\ o_pc' \in {"close", "rng", "panic", "connect"}
      /\ UNCHANGED <<check, url, encodings, open_encodings, attempt, misused>>
      /\ \/ UNCHANGED <<o_socket, rng, allocated>>
         \/ /\ o_socket' = TRUE /\ rng' = rng
            /\ allocated' = allocated \cup {<<attempt, "socket", 0>>}
         \/ /\ rng' = TRUE /\ o_socket' = o_socket
            /\ allocated' = allocated \cup {<<attempt, "rng", 0>>}
  BY Zenon DEF Open!Socket, Open!Rng, Open!Goto, Open!parsed
<1>2. o_pc # "start" /\ Read'
  BY <1>1 DEF Read
<1>3. /\ o_socket' \in BOOLEAN /\ rng' \in BOOLEAN /\ allocated \subseteq allocated'
      /\ o_socket' = o_socket \/ <<attempt, "socket", 0>> \in allocated'
      /\ rng' = rng \/ <<attempt, "rng", 0>> \in allocated'
  BY <1>1, Zenon DEF OpenInv, OpenTypeOK
<1>4. OpenTypeOK' /\ misused' = FALSE
  BY <1>1, <1>3, Zenon DEF OpenInv, OpenTypeOK
<1>5. Ended'
  BY <1>1, <1>2, OpenRead, Zenon
<1>6. Backed'
  BY <1>1, <1>2, <1>3, Zenon DEF OpenInv, Backed
<1>7. QED
  BY <1>4, <1>5, <1>6, Zenon DEF OpenInv

LEMMA OpenConnect == OpenInv /\ Open!Connect => OpenInv'
<1> SUFFICES ASSUME OpenInv, Open!Connect PROVE OpenInv'
  OBVIOUS
<1>1. /\ o_pc = "connect" /\ o_pc' \in {"open", "close", "connect"}
      /\ UNCHANGED <<check, url, encodings, o_socket, rng, attempt, allocated, misused>>
      /\ \/ open_encodings' = open_encodings
         \/ open_encodings' = open_encodings + 1 /\ encodings[open_encodings] # "NULL"
  BY Zenon DEF Open!Connect, Open!Goto, Open!parsed, Open!held, Open!NULL
<1>2. o_pc # "start" /\ Read'
  BY <1>1 DEF Read
<1>3. url' \in OpenUrl
  BY <1>1, Zenon DEF OpenInv, OpenTypeOK
<1>4. CASE open_encodings' = open_encodings
  BY <1>1, <1>2, <1>3, <1>4, OpenRead, OpenFrame, Zenon
<1>5. CASE open_encodings' = open_encodings + 1 /\ encodings[open_encodings] # "NULL"
  <2>1. /\ open_encodings \in Nat /\ encodings \in [0 .. CKTP_MAX_ENCODINGS -> {"set", "NULL"}]
        /\ \A j \in 0 .. open_encodings - 1 : j \in 0 .. CKTP_MAX_ENCODINGS /\ encodings[j] = "set"
        /\ encodings[CKTP_MAX_ENCODINGS] = "NULL"
    BY <1>2, Zenon DEF OpenInv, OpenTypeOK, Backed, Ended
  <2>2. open_encodings <= CKTP_MAX_ENCODINGS
    <3>1. SUFFICES ASSUME open_encodings > CKTP_MAX_ENCODINGS PROVE FALSE
      BY <2>1, OpeningAssumption
    <3>2. CKTP_MAX_ENCODINGS \in 0 .. open_encodings - 1
      BY <2>1, <3>1, OpeningAssumption
    <3>3. "set" # "NULL"
      OBVIOUS
    <3>4. QED
      BY <2>1, <3>2, <3>3, Zenon
  <2>3. open_encodings \in 0 .. CKTP_MAX_ENCODINGS
    BY <2>1, <2>2, OpeningAssumption
  <2>4. encodings[open_encodings] = "set"
    BY <1>5, <2>1, <2>3, Zenon
  <2>5. \A j \in 0 .. open_encodings' - 1 : j \in 0 .. open_encodings - 1 \/ j = open_encodings
    BY <1>5, <2>1
  <2>6. \A j \in 0 .. open_encodings' - 1 : j \in 0 .. CKTP_MAX_ENCODINGS /\ encodings'[j] = "set"
    BY <1>1, <2>1, <2>3, <2>4, <2>5, Zenon
  <2>7. open_encodings' \in Nat
    BY <1>5, <2>1
  <2>8. OpenTypeOK' /\ misused' = FALSE
    BY <1>1, <2>7, Zenon DEF OpenInv, OpenTypeOK
  <2>9. Ended'
    BY <1>1, <1>2, OpenRead, Zenon
  <2>10. Backed'
    BY <1>1, <1>2, <2>6, Zenon DEF OpenInv, Backed
  <2>11. QED
    BY <2>8, <2>9, <2>10, Zenon DEF OpenInv
<1>6. QED
  BY <1>1, <1>4, <1>5, Zenon

LEMMA OpenClose == OpenInv /\ Open!cktp_close_tunnel => OpenInv'
<1> SUFFICES ASSUME OpenInv, Open!cktp_close_tunnel PROVE OpenInv'
  OBVIOUS
<1>1. /\ o_pc = "close" /\ o_pc' = "start"
      /\ misused' = (misused \/ ~(Open!ToFree \subseteq allocated))
      /\ UNCHANGED <<check, url, encodings, open_encodings, o_socket, rng, attempt>>
  BY Zenon DEF Open!cktp_close_tunnel, Open!Goto, Open!parsed
<1>2. o_pc # "start" /\ Read'
  BY <1>1 DEF Read
<1>3. Open!ToFree \subseteq allocated
  <2>1. ASSUME NEW x \in Open!ToFree
        PROVE  \/ o_socket = TRUE /\ x = <<attempt, "socket", 0>>
               \/ rng = TRUE /\ x = <<attempt, "rng", 0>>
               \/ \E i \in 0 .. open_encodings - 1 : x = <<attempt, "state", i>>
    <3>1. o_socket \in BOOLEAN /\ rng \in BOOLEAN
      BY Zenon DEF OpenInv, OpenTypeOK
    <3>2. QED
      BY <2>1, <3>1, Zenon DEF Open!ToFree
  <2>2. QED
    BY <1>2, <2>1, Zenon DEF OpenInv, Backed
<1>4. misused' = FALSE
  BY <1>1, <1>3, Zenon DEF OpenInv
<1>5. OpenTypeOK'
  BY <1>1, Zenon DEF OpenInv, OpenTypeOK
<1>6. Ended'
  BY <1>1, <1>2, OpenRead, Zenon
<1>7. Backed'
  BY <1>1, Zenon DEF Backed
<1>8. QED
  BY <1>4, <1>5, <1>6, <1>7, Zenon DEF OpenInv

(* Closing frees only what is allocated, whatever the URL and wherever opening has
   failed, for any number of encodings, transports and attempts: cktp_close_tunnel
   closes the o_socket and frees the generator if they are there and the states of the
   encodings that were opened, of which the array holds no more than it has room for. *)
THEOREM ClosingFreesAllocated == Open!Spec => []FreesAllocated
<1>1. OpenInv /\ [Open!Next]_(Open!vars) => OpenInv'
  <2> SUFFICES ASSUME OpenInv, [Open!Next]_(Open!vars) PROVE OpenInv'
    OBVIOUS
  <2>1. CASE UNCHANGED Open!vars
    <3>1. UNCHANGED openVars
      BY <2>1, Zenon DEF Open!vars, Open!held, Open!parsed, openVars
    <3>2. OpenTypeOK' /\ misused' = FALSE
      BY <3>1, Zenon DEF OpenInv, OpenTypeOK, openVars
    <3>3. Ended' /\ Backed'
      BY <3>1, Zenon DEF OpenInv, Ended, Backed, openVars
    <3>4. QED
      BY <3>2, <3>3, Zenon DEF OpenInv
  <2>2. QED
    BY <2>1, OpenStart, OpenParse, OpenEncoding, OpenOther, OpenSocket, OpenConnect, OpenClose, Zenon
       DEF Open!Next
<1>2. OpenInv => FreesAllocated
  BY Zenon DEF OpenInv, FreesAllocated, Open!FreesAllocated
<1>3. QED
  BY <1>1, <1>2, OpenInit, PTL DEF Open!Spec

=============================================================================
