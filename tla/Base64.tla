------------------------------- MODULE Base64 -------------------------------
(***************************************************************************)
(* base64.c: a certificate, or its hash, is encoded as text for a URL or a *)
(* file, and the text, in which a character may have changed, is decoded.  *)
(* The loops are actions; widths are those of the code.                    *)
(*                                                                         *)
(* The bits are taken from two bytes at a time, so that the code reads and *)
(* writes one byte past the data.  What it reads there is an input here.   *)
(***************************************************************************)
EXTENDS Integers, Sequences

CONSTANTS
    Bytes,   \* the bytes of the data, and those the code finds past them
    Chars,   \* the characters a changed character becomes
    MaxSize  \* bound: size of the data; 16 and 128 in the code

EOF == 255
Error == -1

VARIABLES
    in,       \* the data, from 0, with the byte past them
    insize,   \* the size of the data
    text,     \* the characters
    out,      \* the decoded data, with the byte past them
    pos,      \* the characters decoded
    top,      \* the highest index of a byte read or written
    pc,       \* "encode", "text", "decode" or "done"
    result    \* what base64_decode returned

vars == <<in, insize, text, out, pos, top, pc, result>>

Init ==
    /\ insize \in 1 .. MaxSize /\ in \in [0 .. insize -> Bytes]
    /\ \E b \in Bytes : out = [x \in 0 .. insize |-> b]
    /\ text = <<>> /\ pos = 0 /\ top = 0 /\ pc = "encode" /\ result = 0

MaxOf(x, y) == IF x > y THEN x ELSE y

-----------------------------------------------------------------------------
(* A byte; no index is above that of the byte past the data, as OnePast states. *)
Byte(data, x) == IF x \in DOMAIN data THEN data[x] ELSE 0

(* Six bits, from bit idx on *)
read_bits(data, idx) ==
    LET base == idx \div 8
        off == idx % 8
    IN  ((Byte(data, base) \div 2^off) + Byte(data, base + 1) * 2^(8 - off)) % 64

(* Mutant: what was in the byte before stays. *)
write_bits_Old(data, idx, val) ==
    LET base == idx \div 8
        off == idx % 8
    IN  [data EXCEPT ![base] = (@ + val * 2^off) % 256, ![base + 1] = val \div 2^(8 - off)]

(* The bits below idx stay; those after the six, in two bytes, become zero. *)
write_bits(data, idx, val) ==
    LET base == idx \div 8
        off == idx % 8
    IN  [data EXCEPT ![base] = ((@ % 2^off) + val * 2^off) % 256,
                     ![base + 1] = val \div 2^(8 - off)]

(* 0-9, a-z, A-Z, - and = *)
base64_todigit(val) ==
    CASE val \in 0 .. 9 -> val + 48
      [] val \in 10 .. 35 -> val - 10 + 97
      [] val \in 36 .. 61 -> val - 36 + 65
      [] val = 62 -> 45
      [] val = 63 -> 61

base64_fromdigit(dig) ==
    CASE dig \in 48 .. 57 -> dig - 48
      [] dig \in 97 .. 122 -> dig - 97 + 10
      [] dig \in 65 .. 90 -> dig - 65 + 36
      [] dig = 45 -> 62
      [] dig = 61 -> 63
      [] OTHER -> EOF

outsize == (insize * 8 - 1) \div 6 + 1

-----------------------------------------------------------------------------
(* The loop of base64_encode *)
base64_encode ==
    /\ pc = "encode"
    /\ LET idx == 6 * Len(text)
       IN  /\ text' = Append(text, base64_todigit(read_bits(in, idx)))
           /\ top' = MaxOf(top, (idx \div 8) + 1)
    /\ pc' = IF Len(text') = outsize THEN "text" ELSE "encode"
    /\ UNCHANGED <<in, insize, out, pos, result>>

(* The text is copied, typed or stored; a character may change. *)
Pass ==
    /\ pc = "text" /\ pc' = "decode"
    /\ \/ UNCHANGED text
       \/ \E x \in DOMAIN text, c \in Chars : text' = [text EXCEPT ![x] = c]
    /\ UNCHANGED <<in, insize, out, pos, top, result>>

(* The loop of base64_decode *)
base64_decode ==
    /\ pc = "decode"
    /\ LET val == base64_fromdigit(text[pos + 1])
       IN  IF val = EOF THEN pc' = "done" /\ result' = Error /\ UNCHANGED <<out, pos, top>>
           ELSE /\ out' = write_bits(out, 6 * pos, val) /\ pos' = pos + 1
                /\ top' = MaxOf(top, ((6 * pos) \div 8) + 1)
                /\ IF pos' = Len(text)
                   THEN pc' = "done" /\ result' = (6 * Len(text) - 1) \div 8 + 1
                   ELSE UNCHANGED <<pc, result>>
    /\ UNCHANGED <<in, insize, text>>

Next == base64_encode \/ Pass \/ base64_decode

Spec == Init /\ [][Next]_vars

-----------------------------------------------------------------------------
(* The value of a digit, and whether the digit at x has the bits of the data *)
Value(dig) == CHOOSE v \in 0 .. 63 : base64_todigit(v) = dig
Same(x) ==
    \A b \in 6 * (x - 1) .. 6 * x - 1 :
        b < 8 * insize =>
            (in[b \div 8] \div 2^(b % 8)) % 2 = (Value(text[x]) \div 2^(b % 6)) % 2

(* The decoded data are the data exactly if the characters have the bits of the data,
   whatever is past the data and was in the buffer before (base64.c:29-49, 110-137). *)
RoundTrip ==
    pc = "done" /\ result # Error =>
        ((\A x \in DOMAIN text : Same(x)) <=> \A x \in 0 .. insize - 1 : out[x] = in[x])

=============================================================================
