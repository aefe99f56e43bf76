------------------------------ MODULE Checksum ------------------------------
(***************************************************************************)
(* The checksums of the headers the client writes (checksum.c), the        *)
(* checksum of a ghost packet (packet_dispatch.c), and the check by the    *)
(* receiver, which is external.                                            *)
(*                                                                         *)
(* Words have W bits, 16 in the code, and sums 2 * W bits.  The odd last   *)
(* byte of a packet is one more word.                                      *)
(***************************************************************************)
EXTENDS Integers, Sequences, Functions

CONSTANTS
    W,        \* bits of a word
    MaxWords  \* bound: words of data

Word == 0 .. 2^W - 1
Ones == 2^W - 1

VARIABLES
    packet,  \* the kind, the address and the data of a packet
    check,   \* the checksum field
    ghost,   \* is it a ghost, with a checksum that is to be wrong?
    step     \* "new" or "sent"

vars == <<packet, check, ghost, step>>

-----------------------------------------------------------------------------
(* The sum of the words modulo 2^(2 * W) *)
SumOf(words) == FoldFunction(LAMBDA x, y : (x + y) % 2^(2 * W), 0, words)

(* Mutant: the carry of the first addition is dropped. *)
checksum_Once(words) ==
    LET sum == (SumOf(words) % 2^W) + (SumOf(words) \div 2^W)
    IN  Ones - (sum % 2^W)

checksum(words) ==
    LET sum == (SumOf(words) % 2^W) + (SumOf(words) \div 2^W)
    IN  Ones - ((sum + (sum \div 2^W)) % 2^W)

Protocol(kind) == CASE kind = "tcp" -> 6 % 2^W [] kind = "udp" -> 17 % 2^W

(* The pseudo header has the addresses, the protocol and the size. *)
pseudo_header(p, protocol) == <<p.addr, protocol, Len(p.data) % 2^W>>

(* ip_checksum, icmp_checksum; tcp_checksum and udp_checksum are tcp_udp_checksum. *)
Sum(p) ==
    IF p.kind \in {"tcp", "udp"}
    THEN checksum(pseudo_header(p, Protocol("tcp")) \o p.data)
    ELSE checksum(p.data)

(* A receiver adds up the words with their carries; a UDP checksum of zero is none. *)
Valid(p, c) ==
    LET words == IF p.kind \in {"tcp", "udp"}
                 THEN pseudo_header(p, Protocol(p.kind)) \o p.data ELSE p.data
    IN  (p.kind = "udp" /\ c = 0) \/ (SumOf(words) + c > 0 /\ (SumOf(words) + c) % Ones = 0)

(* The checksum of a ghost, from a random word *)
junk_checksum(p, sum, junk) ==
    LET other == IF junk = sum THEN (sum + 1) % 2^W ELSE junk
    IN  IF other = 0 /\ p.kind = "udp" THEN Ones ELSE other

-----------------------------------------------------------------------------
Init ==
    /\ packet \in [kind : {"ip", "tcp", "udp", "icmp"}, addr : Word,
                   data : UNION {[1 .. n -> Word] : n \in 1 .. MaxWords}]
    /\ check = 0 /\ ghost = FALSE /\ step = "new"

WriteChecksum ==
    /\ step = "new" /\ step' = "sent"
    /\ check' = Sum(packet)
    /\ UNCHANGED <<packet, ghost>>

WriteGhost(junk) ==
    /\ step = "new" /\ step' = "sent" /\ packet.kind \in {"tcp", "udp"}
    /\ check' = junk_checksum(packet, Sum(packet), junk)
    /\ ghost' = TRUE
    /\ UNCHANGED packet

Next == WriteChecksum \/ \E junk \in Word : WriteGhost(junk)

Spec == Init /\ [][Next]_vars

-----------------------------------------------------------------------------
(* A packet whose checksum the client wrote is accepted (checksum.c:35-129); not UDP. *)
Verifies == step = "sent" /\ ~ghost /\ packet.kind # "udp" => Valid(packet, check)

=============================================================================
