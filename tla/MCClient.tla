------------------------------ MODULE MCClient ------------------------------
(***************************************************************************)
(* What the client must get done, under fairness: the workers with the     *)
(* capture queue (NetfilterQueue), the clean-up of the firewall rules      *)
(* (Capture), the URL and the resources of a tunnel (TunnelOpen), its      *)
(* handshake with a server that fails in every way (Handshake), and the    *)
(* file of certificates (CertCache).  They share no state: in a behaviour  *)
(* one of them runs, and the others rest.                                  *)
(***************************************************************************)
EXTENDS Client

CONSTANT NoValue

VARIABLES
    tunnel, net, cached, gen, process, issued, repeats,         \* Handshake
    f_pc, file, pos, found, name, lines, last, faults           \* CertCache

(* Packets that fill the socket before the queue, and verdicts that cannot be sent; or
   rules that a killed process left *)
Overrun == INSTANCE NetfilterQueue WITH
        QueueMax <- 3, SocketMax <- 1, Full <- Packets, Fails <- TRUE
LeftRules == INSTANCE NetfilterQueue WITH Left <- TRUE, Fails <- TRUE

(* A request to quit at any time, with a command that fails *)
Quit == INSTANCE Capture WITH
        MaxSignal <- 0, MaxEnd <- 1, Early <- TRUE, Fails <- TRUE, rules <- c_rules

(* One tunnel through two encodings; retries, a failing socket, a server that refuses
   and restarts *)
Opening == INSTANCE Handshake WITH
        Tunnel <- {"t"}, Transport <- "udp", NumEncodings <- 2, CryptIndex <- 2,
        CKTP_MAX_RETRIES <- 2, CKTP_MAX_ENCODING_HANDSHAKE <- 4, Refuses <- TRUE,
        Breaks <- TRUE, MaxRotate <- 0, MaxRestart <- 1, MaxRepeat <- 0, None <- NoValue

(* Two threads, and two lines that are cut off *)
Cache == INSTANCE CertCache WITH
        Thread <- {"t1", "t2"}, MaxFault <- 2, MaxFile <- 5, pc <- f_pc

openingVars == <<tunnel, net, cached, gen, process, issued, repeats>>
cacheVars == <<f_pc, file, pos, found, name, lines, last, faults>>
MCvars == <<part, vars, captureVars, openVars, openingVars, cacheVars>>

MCInit ==
    /\ part \in {"queue", "overrun", "left rules", "end", "quit", "open", "opening", "cache"}
    /\ IF part = "left rules" THEN LeftRules!Init ELSE Init
    /\ IF part = "quit" THEN Quit!Init ELSE End!Init
    /\ part \notin {"end", "quit"} => platform = "linux"
    /\ Open!Init
    /\ Opening!Init /\ (part # "opening" => cached)
    /\ Cache!Init

(* A step of one part *)
QueueStep(setting, A) ==
    /\ part = setting /\ A
    /\ UNCHANGED <<part, captureVars, openVars, openingVars, cacheVars>>
EndStep(A) ==
    /\ part = "end" /\ A
    /\ UNCHANGED <<part, vars, openVars, openingVars, cacheVars>>
QuitStep(A) ==
    /\ part = "quit" /\ A
    /\ UNCHANGED <<part, vars, openVars, openingVars, cacheVars>>
OpenStep ==
    /\ part = "open" /\ Open!Next
    /\ UNCHANGED <<part, vars, captureVars, openingVars, cacheVars>>
OpeningStep(A) ==
    /\ part = "opening" /\ A
    /\ UNCHANGED <<part, vars, captureVars, openVars, cacheVars>>
CacheStep(A) ==
    /\ part = "cache" /\ A
    /\ UNCHANGED <<part, vars, captureVars, openVars, openingVars>>

MCNext ==
    \/ QueueStep("queue", Next) \/ QueueStep("overrun", Overrun!Next)
    \/ QueueStep("left rules", LeftRules!Next) \/ EndStep(End!Next) \/ QuitStep(Quit!Next)
    \/ OpenStep \/ OpeningStep(Opening!Next) \/ CacheStep(Cache!Next)

MCSpec == MCInit /\ [][MCNext]_MCvars

(* The fairness of each part, as in its module.  The part does not change, so one condition
   serves a thread of every part. *)
MainThread ==
    \/ QueueStep("queue", SetupSend \/ SetupAck \/ SetupError \/ Rules)
    \/ EndStep(End!MainStep) \/ QuitStep(Quit!MainStep)
    \/ OpeningStep(Opening!Client("t"))
FirstThread ==
    \/ QueueStep("queue", Worker("t1")) \/ CacheStep(Cache!Step("t1"))
    \/ EndStep(End!iptables_undo_on_signal(1))
SecondThread ==
    \/ QueueStep("queue", Worker("t2")) \/ CacheStep(Cache!Step("t2"))

MCFairSpec ==
    /\ MCSpec /\ WF_MCvars(MainThread) /\ WF_MCvars(FirstThread) /\ WF_MCvars(SecondThread)
    /\ \A a \in Quit!Actor : SF_MCvars(EndStep(End!EndStep(a)) \/ QuitStep(Quit!EndStep(a)))
    /\ SF_MCvars(EndStep(End!EndStep(1)))

-----------------------------------------------------------------------------
(* When no verdict fails and the socket does not overflow, every packet the programs send
   goes out, or is dropped by the kernel for want of room in the queue
   (linux/capture.c:446-483). *)
PacketsForwarded == part = "queue" => Forwarded

(* The program ends after the user quits, at any time (client.c:238-241). *)
QuitExits == pc[End!Ui] = "quit" ~> IF part = "quit" THEN Quit!Gone ELSE End!Gone

(* cktp_open_tunnel returns whatever is lost, refused or too late (CKTP_MAX_RETRIES,
   CKTP_MAX_ENCODING_HANDSHAKE). *)
OpeningEnds == part = "opening" => Opening!OpeningEnds

(* When a line was cut off the file recovers: in the end every search finds its
   certificate (encodings/crypt.c:904-907). *)
Recovers == part = "cache" => Cache!Recovers

=============================================================================
