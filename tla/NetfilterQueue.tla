--------------------------- MODULE NetfilterQueue ---------------------------
(***************************************************************************)
(* Capturing packets from a queue of the kernel and sending them again     *)
(* (linux/capture.c), between the kernel and the workers of the client.    *)
(*                                                                         *)
(* The kernel is external: a packet that a rule diverts waits in the queue *)
(* for a verdict while a copy of it is in the netlink socket; without room *)
(* in either it is dropped, and a copy that did not fit makes the next     *)
(* read of the socket fail.  What a worker does with a packet is in module *)
(* PacketPath; here it sends it by the normal route.                       *)
(***************************************************************************)
EXTENDS Integers, Sequences, FiniteSets, Functions

CONSTANTS
    Workers,
    Packets,    \* packets of the user's programs
    QueueMax,   \* QUEUE_MAX_LEN
    SocketMax,  \* messages the socket holds
    Full,       \* the packets of ETH_DATA_LEN bytes
    Left,       \* did a process that was killed leave its rules?
    Fails       \* may a verdict not be sent?

ASSUME QueueAssumption ==
    /\ {QueueMax, SocketMax} \subseteq Nat \ {0} /\ Full \subseteq Packets
    /\ {Left, Fails} \subseteq BOOLEAN

(* The bytes of a packet (the others as long as fits), of its message, which has
   the headers 16 and 4, the attributes 12 and 8 and the header 4 of the payload besides,
   and of the buffer a message is read into. *)
Size(p) == IF p \in Full THEN 1500 ELSE 1477
MessageSize(p) == 16 + 4 + 12 + 8 + 4 + Size(p)

BuffSize == 1500 + 14 + 7

(* The messages of init_capture that wait for an acknowledgement *)
Setup == <<"unbind", "pf_bind", "bind", "params", "maxlen">>
Exit == 0
Done == Len(Setup) + 2
Ack == "ack"
None == "none"

ASSUME MessageAssumption == {Ack, None} \cap Packets = {}

VARIABLES
    init,     \* the step of init_capture, or Done or Exit
    acking,   \* is init_capture waiting for an acknowledgement?
    bound,    \* is the queue bound to the socket, in copy mode?
    rules,    \* are the rules in place?
    waiting,  \* the packets that wait for a verdict
    socket,   \* the messages in the socket
    overrun,  \* did a message not fit?
    old,      \* old[w]: the message the stack of worker w holds since its last read
    buff,     \* buff[w]: the packet it works on
    offered,  \* the packets the programs have sent
    returned, \* the packets get_packet has returned
    torn,     \* the ones among them of which it did not have all bytes
    sent,     \* the packets that went out
    dropped   \* the packets the kernel has dropped

kernelVars == <<bound, rules, waiting, socket, overrun>>
vars == <<init, acking, kernelVars, old, buff, offered, returned, torn, sent, dropped>>

Init ==
    /\ init = 1 /\ acking = FALSE /\ bound = FALSE /\ rules = Left
    /\ waiting = {} /\ socket = <<>> /\ overrun = FALSE
    /\ old = [w \in Workers |-> None] /\ buff = [w \in Workers |-> None]
    /\ offered = {} /\ returned = <<>> /\ torn = {} /\ sent = <<>> /\ dropped = {}

-----------------------------------------------------------------------------
(* The kernel: an output packet meets the rules, unless it is marked. *)
Output(p, marked) ==
    IF marked \/ ~rules
    THEN sent' = Append(sent, p) /\ UNCHANGED <<waiting, socket, overrun, dropped>>
    ELSE IF ~bound \/ Cardinality(waiting) >= QueueMax \/ Len(socket) >= SocketMax
    THEN /\ dropped' = dropped \cup {p}
         /\ overrun' = (overrun \/ (bound /\ Cardinality(waiting) < QueueMax))
         /\ UNCHANGED <<sent, waiting, socket>>
    ELSE /\ waiting' = waiting \cup {p} /\ socket' = Append(socket, p)
         /\ UNCHANGED <<sent, overrun, dropped>>

(* A program sends a packet. *)
Offer(p) ==
    /\ p \notin offered /\ offered' = offered \cup {p}
    /\ Output(p, FALSE)
    /\ UNCHANGED <<init, acking, bound, rules, old, buff, returned, torn>>

-----------------------------------------------------------------------------
(* init_capture *)

(* netfilter_send_message with an acknowledgement: the request *)
SetupSend ==
    /\ init \in DOMAIN Setup /\ ~acking /\ acking' = TRUE
    /\ bound' = (bound \/ Setup[init] = "params")
    /\ socket' = Append(socket, Ack)
    /\ UNCHANGED <<init, rules, waiting, overrun, old, buff, offered, returned, torn, sent,
                   dropped>>

(* The message read first must be the acknowledgement. *)
SetupAck ==
    /\ init \in DOMAIN Setup /\ acking /\ acking' = FALSE
    /\ ~overrun /\ socket # <<>> /\ Head(socket) = Ack
    /\ socket' = Tail(socket) /\ init' = init + 1
    /\ UNCHANGED <<bound, rules, waiting, overrun, old, buff, offered, returned, torn, sent,
                   dropped>>

(* Else error() ends the program, and the kernel drops what waits. *)
SetupError ==
    /\ init \in DOMAIN Setup /\ acking /\ acking' = FALSE
    /\ overrun \/ (socket # <<>> /\ Head(socket) # Ack)
    /\ init' = Exit /\ bound' = FALSE /\ overrun' = FALSE /\ socket' = <<>>
    /\ waiting' = {} /\ dropped' = dropped \cup waiting
    /\ UNCHANGED <<rules, old, buff, offered, returned, torn, sent>>

(* The rules are issued, and the socket for sending is made, with a mark. *)
Rules ==
    /\ init = Len(Setup) + 1 /\ init' = Done /\ rules' = TRUE
    /\ UNCHANGED <<acking, bound, waiting, socket, overrun, old, buff, offered, returned, torn, sent,
                   dropped>>

-----------------------------------------------------------------------------
(* The workers *)

(* The verdict NF_DROP: the packet leaves the queue. *)
Verdict(p) == waiting' = waiting \ {p} /\ UNCHANGED sent

(* Message p is parsed and a copy of its packet returned.  A message that was cut off
   when it was read is parsed to the length in its header. *)
Return(w, p) ==
    /\ Verdict(p)
    /\ buff' = [buff EXCEPT ![w] = p] /\ returned' = Append(returned, p)
    /\ torn' = IF MessageSize(p) > BuffSize THEN torn \cup {p} ELSE torn

(* get_packet with a message in the socket.  If it is an error message, or the verdict
   cannot be sent, the length returned is -1 and the loop of the worker does nothing. *)
get_packet(w) ==
    /\ init = Done /\ buff[w] = None /\ ~overrun /\ socket # <<>>
    /\ LET p == Head(socket)
       IN  /\ socket' = Tail(socket) /\ old' = [old EXCEPT ![w] = p]
           /\ \/ p # Ack /\ Return(w, p)
              \/ /\ p = Ack \/ Fails
                 /\ UNCHANGED <<waiting, sent, buff, returned, torn>>
    /\ UNCHANGED <<init, acking, bound, rules, overrun, offered, dropped>>

(* recvfrom fails with -1, which the comparison with an unsigned size lets pass; the
   buffer on the stack has no message, or still the one of the last read.  The kernel
   answers a verdict on a packet that does not wait with an error. *)
RecvFails(w) ==
    /\ init = Done /\ buff[w] = None /\ overrun /\ overrun' = FALSE
    /\ \/ UNCHANGED <<waiting, socket, sent, buff, returned, torn>>
       \/ /\ old[w] \in Packets /\ Return(w, old[w])
          /\ socket' = IF old[w] \in waiting THEN socket ELSE Append(socket, Ack)
    /\ UNCHANGED <<init, acking, bound, rules, old, offered, dropped>>

(* Mutant: the packet is sent without a mark. *)
inject_packet_Unmarked(w) ==
    /\ buff[w] # None /\ Output(buff[w], FALSE)
    /\ buff' = [buff EXCEPT ![w] = None]
    /\ UNCHANGED <<init, acking, bound, rules, old, offered, returned, torn>>

(* Mutant: the packet is not sent. *)
inject_packet_Skip(w) ==
    /\ buff[w] # None /\ buff' = [buff EXCEPT ![w] = None]
    /\ UNCHANGED <<init, acking, kernelVars, old, offered, returned, torn, sent, dropped>>

inject_packet(w) ==
    /\ buff[w] # None /\ Output(buff[w], TRUE)
    /\ buff' = [buff EXCEPT ![w] = None]
    /\ UNCHANGED <<init, acking, bound, rules, old, offered, returned, torn>>

Worker(w) == get_packet(w) \/ RecvFails(w) \/ inject_packet(w)

Next ==
    \/ \E p \in Packets : Offer(p)
    \/ SetupSend \/ SetupAck \/ SetupError \/ Rules
    \/ \E w \in Workers : Worker(w)

Spec == Init /\ [][Next]_vars

(* The threads run. *)
FairSpec ==
    /\ Spec /\ WF_vars(SetupSend \/ SetupAck \/ SetupError \/ Rules)
    /\ \A w \in Workers : WF_vars(Worker(w))

-----------------------------------------------------------------------------
(* A packet that is sent again is not captured again: "Re-injected packets are marked so
   that they are not re-captured." (linux/capture.c:42-43) *)
NotRecaptured == (Range(returned) \cup Range(sent)) \cap waiting = {}

(* Every packet the programs send goes out or is dropped for want of room
   (linux/capture.c:446-483). *)
Forwarded == \A p \in Packets : p \in offered ~> p \in Range(sent) \cup dropped

=============================================================================
