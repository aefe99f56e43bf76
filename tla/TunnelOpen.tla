----------------------------- MODULE TunnelOpen -----------------------------
(***************************************************************************)
(* Parsing the URL of a tunnel (cktp_url.c), and opening and closing the   *)
(* tunnel by the client (cktp_client.c), with what each step allocates.    *)
(*                                                                         *)
(* The parser chooses the parts of the URL as it reads them, so that TLC   *)
(* sees every URL up to the point where it is refused.  The handshakes and *)
(* messages of cktp_connect are in module Handshake; here they succeed or  *)
(* fail.  Numbers have a smaller width: unsigned has UnsignedBits bits.    *)
(***************************************************************************)
EXTENDS Integers, Sequences, FiniteSets

CONSTANTS
    Transport,           \* the names of trans_data in use
    UnsignedBits,        \* the bits of unsigned
    UllBits,             \* the bits of unsigned long long
    MaxNumber,           \* bound: port numbers written in a URL
    DigitsMax,           \* the first number of more than MAX_PORT digits
    CKTP_MAX_ENCODINGS,
    MaxOpen              \* bound: attempts to open the tunnel

(* max_port of a transport *)
max_port(tr) == IF tr = "ip" THEN 3 ELSE 7

NULL == "NULL"

VARIABLES
    pc,         \* where cktp_parse_url or cktp_open_tunnel is
    check,      \* is the URL only checked, for tunnel_add?
    url,        \* the URL as far as it was read: transport, number, encodings
    port,       \* the port that was parsed
    encodings,  \* encodings[j]: "set" or NULL, one more than CKTP_MAX_ENCODINGS
    open_encodings,
    socket, rng,  \* are they open?
    attempt,    \* attempts so far
    allocated,  \* what is allocated, by attempt: states of encodings, sockets, generators
    misused     \* was something freed that was not allocated?

parsed == <<check, url, port>>
held == <<allocated, misused>>
vars == <<pc, parsed, encodings, open_encodings, socket, rng, attempt, held>>

NoUrl == [transport |-> NULL, number |-> 0, encs |-> <<>>, plus |-> FALSE]
NoEncodings == [j \in 0 .. CKTP_MAX_ENCODINGS |-> NULL]

Init ==
    /\ pc = "start" /\ check = FALSE /\ url = NoUrl /\ port = 0
    /\ encodings = NoEncodings /\ open_encodings = 0 /\ socket = FALSE /\ rng = FALSE
    /\ attempt = 0 /\ allocated = {} /\ misused = FALSE

Goto(from, to) == pc = from /\ pc' = to

-----------------------------------------------------------------------------
(* cktp_parse_url *)

(* The caller: tunnel_add passes no encodings, cktp_open_tunnel a new tunnel *)
Start ==
    /\ Goto("start", "transport") /\ attempt < MaxOpen /\ attempt' = attempt + 1
    /\ check' \in BOOLEAN /\ url' = NoUrl /\ port' = 0
    /\ encodings' = NoEncodings /\ open_encodings' = 0 /\ socket' = FALSE /\ rng' = FALSE
    /\ UNCHANGED held

(* "://" is missing, the name is unknown, or the transport and a server, maybe empty *)
ParseTransport ==
    /\ \/ Goto("transport", "refused") /\ url' = url
       \/ Goto("transport", "port") /\ \E tr \in Transport : url' = [url EXCEPT !.transport = tr]
    /\ UNCHANGED <<check, port, encodings, open_encodings, socket, rng, attempt, held>>

(* strtoull stays at its largest value *)
strtoull(n) == IF n < 2^UllBits THEN n ELSE 2^UllBits - 1

PortOk(tr, port0) == port0 <= max_port(tr)

(* ":" or the digits are missing, or a number is there *)
ParsePort ==
    /\ \/ Goto("port", "refused") /\ UNCHANGED <<url, port>>
       \/ \E n \in 0 .. MaxNumber :
             LET port0 == strtoull(n) % 2^UnsignedBits
             IN  /\ url' = [url EXCEPT !.number = n]
                 /\ IF PortOk(url.transport, port0) /\ n < DigitsMax
                    THEN Goto("port", "query") /\ port' = port0
                    ELSE Goto("port", "refused") /\ port' = port
    /\ UNCHANGED <<check, encodings, open_encodings, socket, rng, attempt, held>>

(* The end of the URL, "?", or something else *)
ParseQuery ==
    /\ \E next \in {"accepted", "encoding", "refused"} : Goto("query", next)
    /\ UNCHANGED <<parsed, encodings, open_encodings, socket, rng, attempt, held>>

Limit == CKTP_MAX_ENCODINGS

(* One round: a name that is missing or unknown or options that are refused, or an encoding
   and its state; then the end, "+", or something else.  After the last round only the end
   is accepted, with or without a "+" before it. *)
ParseEncoding ==
    LET j == Len(url.encs)
        Known(next, plus) ==
            /\ Goto("encoding", next)
            /\ url' = [url EXCEPT !.encs = Append(@, "known"), !.plus = plus]
            /\ IF check THEN UNCHANGED <<encodings, allocated>>
               ELSE /\ encodings' = [encodings EXCEPT ![j] = "set"]
                    /\ allocated' = allocated \cup {<<attempt, "state", j>>}
    IN  /\ \/ Goto("encoding", "refused") /\ UNCHANGED <<url, encodings, allocated>>
           \/ Known("accepted", FALSE)
           \/ Known("refused", FALSE)
           \/ j + 1 < Limit /\ Known("encoding", FALSE)
           \/ j + 1 = Limit /\ Known("accepted", TRUE)
        /\ UNCHANGED <<check, port, open_encodings, socket, rng, attempt, misused>>

-----------------------------------------------------------------------------
(* tunnel_add goes on, or cktp_open_tunnel does; a URL that is refused ends both. *)
Parsed ==
    /\ \/ Goto("accepted", IF check THEN "start" ELSE "resolve")
       \/ Goto("refused", IF check THEN "start" ELSE "close")
    /\ UNCHANGED <<parsed, encodings, open_encodings, socket, rng, attempt, held>>

(* The name of the server, which may not resolve *)
Resolve ==
    /\ \E next \in {"socket", "close"} : Goto("resolve", next)
    /\ UNCHANGED <<parsed, encodings, open_encodings, socket, rng, attempt, held>>

(* The socket: of one of three transports, or the program ends; setting its options or
   connecting it may fail. *)
Socket ==
    /\ \/ /\ url.transport \in {"ip", "udp", "ping"}
          /\ Goto("socket", "close") /\ UNCHANGED <<socket, allocated>>
       \/ /\ url.transport \in {"ip", "udp", "ping"}
          /\ \E next \in {"rng", "close"} : Goto("socket", next)
          /\ socket' = TRUE /\ allocated' = allocated \cup {<<attempt, "socket", 0>>}
       \/ /\ url.transport \notin {"ip", "udp", "ping"}
          /\ Goto("socket", "panic") /\ UNCHANGED <<socket, allocated>>
    /\ UNCHANGED <<parsed, encodings, open_encodings, rng, attempt, misused>>

Rng ==
    /\ Goto("rng", "connect") /\ rng' = TRUE
    /\ allocated' = allocated \cup {<<attempt, "rng", 0>>}
    /\ UNCHANGED <<parsed, encodings, open_encodings, socket, attempt, misused>>

(* cktp_connect: the handshake of the next encoding, then the messages *)
Connect ==
    /\ IF encodings[open_encodings] = NULL
       THEN \E next \in {"open", "close"} : Goto("connect", next) /\ UNCHANGED open_encodings
       ELSE \/ Goto("connect", "connect") /\ open_encodings' = open_encodings + 1
            \/ Goto("connect", "close") /\ UNCHANGED open_encodings
    /\ UNCHANGED <<parsed, encodings, socket, rng, attempt, held>>

(* The tunnel is not used any more. *)
Unused ==
    /\ Goto("open", "close")
    /\ UNCHANGED <<parsed, encodings, open_encodings, socket, rng, attempt, held>>

(* Mutant: the socket is closed even if it was not opened. *)
ToFree_Socket ==
    {<<attempt, "socket", 0>>}
    \cup (IF rng THEN {<<attempt, "rng", 0>>} ELSE {})
    \cup {<<attempt, "state", i>> : i \in 0 .. open_encodings - 1}

ToFree ==
    (IF socket THEN {<<attempt, "socket", 0>>} ELSE {})
    \cup (IF rng THEN {<<attempt, "rng", 0>>} ELSE {})
    \cup {<<attempt, "state", i>> : i \in 0 .. open_encodings - 1}

cktp_close_tunnel ==
    /\ Goto("close", "start")
    /\ misused' = (misused \/ ~(ToFree \subseteq allocated)) /\ allocated' = allocated \ ToFree
    /\ UNCHANGED <<parsed, encodings, open_encodings, socket, rng, attempt>>

Next ==
    \/ Start \/ ParseTransport \/ ParsePort \/ ParseQuery \/ ParseEncoding \/ Parsed
    \/ Resolve \/ Socket \/ Rng \/ Connect \/ Unused \/ cktp_close_tunnel

Spec == Init /\ [][Next]_vars

-----------------------------------------------------------------------------
(* Closing frees only what is allocated (cktp_client.c:1250-1274). *)
FreesAllocated == ~misused

=============================================================================
