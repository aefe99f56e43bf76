------------------------------ MODULE MCCodecs ------------------------------
(***************************************************************************)
(* The algorithms of the program on small inputs: padding (Pad), checksums *)
(* (Checksum), numbers (NaturalArith) and base64 (Base64).  They share no  *)
(* state: in a behaviour one of them runs, and the others rest.            *)
(***************************************************************************)
EXTENDS Pad

VARIABLES
    part,                                       \* the algorithm that runs
    packet, check, ghost, step,                 \* Checksum
    arg, pc, i, a, t, to, n, d, n_bits, d_bits, \* NaturalArith
    in, insize, text, out, pos, top, b_pc, result  \* Base64

(* Words of three bits; digits of two bits; bytes with different bits in every place
   and characters at the ends of the ranges of digits. *)
C == INSTANCE Checksum WITH W <- 3, MaxWords <- 3
N == INSTANCE NaturalArith WITH S <- 2, N_SIZE <- 2, MaxExp <- 7
B == INSTANCE Base64 WITH
        Bytes <- {0, 90, 165, 255}, Chars <- {47, 48, 90, 97}, MaxSize <- 4, pc <- b_pc

checksumVars == <<packet, check, ghost, step>>
naturalVars == <<arg, pc, i, a, t, to, n, d, n_bits, d_bits>>
base64Vars == <<in, insize, text, out, pos, top, b_pc, result>>

ChecksumRests == packet = "none" /\ check = 0 /\ ghost = FALSE /\ step = "none"
NaturalRests ==
    /\ arg = "none" /\ pc = "none" /\ i = 0 /\ a = 0 /\ t = 0 /\ to = "none"
    /\ n = 0 /\ d = 0 /\ n_bits = 0 /\ d_bits = 0
Base64Rests ==
    /\ in = "none" /\ insize = 0 /\ text = <<>> /\ out = "none" /\ pos = 0 /\ top = 0
    /\ b_pc = "none" /\ result = 0

MCInit ==
    /\ part \in {"pad", "checksum", "natural", "base64"}
    /\ Init
    /\ IF part = "checksum" THEN C!Init ELSE ChecksumRests
    /\ IF part = "natural" THEN N!Init ELSE NaturalRests
    /\ IF part = "base64" THEN B!Init ELSE Base64Rests

MCNext ==
    \/ part = "pad" /\ Next /\ UNCHANGED <<part, checksumVars, naturalVars, base64Vars>>
    \/ part = "checksum" /\ C!Next /\ UNCHANGED <<part, vars, naturalVars, base64Vars>>
    \/ part = "natural" /\ N!Next /\ UNCHANGED <<part, vars, checksumVars, base64Vars>>
    \/ part = "base64" /\ B!Next /\ UNCHANGED <<part, vars, checksumVars, naturalVars>>

MCSpec == MCInit /\ [][MCNext]_<<part, vars, checksumVars, naturalVars, base64Vars>>

-----------------------------------------------------------------------------
(* A packet whose checksum the client wrote is accepted (checksum.c:35-129); not UDP. *)
Verifies == C!Verifies

(* "r = b^e % m" (encodings/natural.c:137), up to a multiple of m *)
ModexpCorrect == N!ModexpCorrect

(* The data decoded from base64 are the data exactly if the characters have the bits of
   the data, whatever is past the data (base64.c:29-49, 110-137). *)
TextRoundTrip == B!RoundTrip

=============================================================================
