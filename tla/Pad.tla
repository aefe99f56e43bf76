--------------------------------- MODULE Pad --------------------------------
(***************************************************************************)
(* The pad encoding (encodings/pad.c): the options of its URL, padding a   *)
(* message at one end of the tunnel and stripping it at the other, and the *)
(* check of every encoding by cktp_encoding.c.  Both ends use one URL.     *)
(*                                                                         *)
(* Of a message the number of bytes is kept, of the padding the length     *)
(* byte, the number of bytes and, if a value is given, whether the bytes   *)
(* are those of the value.                                                 *)
(***************************************************************************)
EXTENDS Integers, FiniteSets

CONSTANTS
    UINT8_MAX,        \* the largest byte; 255 in the code
    PAD_DEFAULT_MAX,  \* 16 in the code
    MaxOption,        \* bound: options of a URL
    MaxSize           \* bound: size of a message

ASSUME PadAssumption ==
    /\ {UINT8_MAX, PAD_DEFAULT_MAX, MaxOption, MaxSize} \subseteq Nat
    /\ PAD_DEFAULT_MAX <= UINT8_MAX

VARIABLES
    phase,    \* "options", "ready", "sent", "received" or "error"
    seen,     \* the options seen: id and value
    count,    \* the number of options read
    state,    \* struct pad_state_s
    message,  \* the encoded message
    decoded   \* bytes stripped, and whether the padding was accepted

vars == <<phase, seen, count, state, message, decoded>>

-----------------------------------------------------------------------------
(* An option: its value, or the length of a string.  What strtoull returns may be
   above UINT8_MAX; "bad" is an option enc_parse_param refuses. *)
Option == [id : {"min", "max", "size", "value", "bad"}, val : 0 .. UINT8_MAX + 1]

Seen(id) == \E o \in seen : o.id = id
Val(id, default) == IF Seen(id) THEN (CHOOSE o \in seen : o.id = id).val ELSE default

NoState == [fixed |-> FALSE, min |-> 0, max |-> 0, size |-> 0, value |-> FALSE]
NoMessage == [size |-> 0, pad |-> 0, byte |-> 0]
NoResult == [strip |-> 0, ok |-> TRUE]

Init ==
    /\ phase = "options" /\ seen = {} /\ count = 0
    /\ state = NoState /\ message = NoMessage /\ decoded = NoResult

(* May the option pass the checks?  uint_val is compared with UINT8_MAX for strings
   too, that is for their first eight bytes: a string of one character passes if the
   bytes after it, which are not initialised, are zero. *)
Accepted(o) ==
    CASE o.id = "bad" -> {FALSE}
      [] o.id = "value" -> IF o.val = 1 THEN BOOLEAN ELSE {FALSE}
      [] OTHER -> {o.val <= UINT8_MAX /\ ~Seen(o.id)}

(* pad_init: the next option of the URL *)
pad_option(o) ==
    /\ phase = "options" /\ count < MaxOption
    /\ count' = count + 1
    /\ \E ok \in Accepted(o) :
         IF ok /\ ~Seen(o.id) THEN seen' = seen \cup {o} /\ UNCHANGED phase
         ELSE phase' = "error" /\ UNCHANGED seen
    /\ UNCHANGED <<state, message, decoded>>

(* pad_init: all options are read *)
pad_init ==
    /\ phase = "options"
    /\ LET ranged == Seen("min") \/ Seen("max")
           fixed == Seen("size") \/ (Seen("value") /\ ~ranged)
           min == Val("min", 0)
           max == Val("max", PAD_DEFAULT_MAX)
       IN  IF (fixed /\ ranged) \/ min > max THEN phase' = "error" /\ UNCHANGED state
           ELSE /\ phase' = "ready"
                /\ state' = [fixed |-> fixed, min |-> min, max |-> max, value |-> Seen("value"),
                             size |-> Val("size", IF Seen("value") THEN Val("value", 0) ELSE 0)]
    /\ UNCHANGED <<seen, count, message, decoded>>

(* The pad size for a random byte *)
pad_size(s, byte) == s.min + (byte % (s.max - s.min + 1))

(* pad_encode: a message of n bytes *)
pad_encode(n, byte) ==
    /\ phase = "ready" /\ phase' = "sent"
    /\ message' = [size |-> n, byte |-> byte,
                   pad |-> IF state.fixed THEN state.size ELSE pad_size(state, byte) + 1]
    /\ UNCHANGED <<seen, count, state, decoded>>

(* pad_fill and pad_check read value[i + 1] where they mean value[j + 1]: after the
   second byte of the padding they read past the value, a string of one character,
   and the two ends may find different bytes there. *)
pad_check(s) == IF s.value /\ s.size > 2 THEN BOOLEAN ELSE {TRUE}

(* Mutant: the length byte is not stripped. *)
pad_decode_Byte ==
    /\ phase = "sent"
    /\ LET pad == IF state.fixed THEN state.size ELSE pad_size(state, message.byte)
       IN  decoded' = [strip |-> pad, ok |-> pad < message.pad + message.size]
    /\ phase' = IF decoded'.ok THEN "received" ELSE "error"
    /\ UNCHANGED <<seen, count, state, message>>

(* pad_decode, pad_server_decode: pad_size is a uint8_t *)
pad_decode ==
    /\ phase = "sent"
    /\ LET total == message.pad + message.size
           pad == IF state.fixed THEN state.size
                  ELSE (pad_size(state, message.byte) + 1) % (UINT8_MAX + 1)
       IN  \E ok \in IF state.fixed THEN pad_check(state) ELSE {TRUE} :
             decoded' = [strip |-> pad, ok |-> ok /\ pad < total]
    /\ phase' = IF decoded'.ok THEN "received" ELSE "error"
    /\ UNCHANGED <<seen, count, state, message>>

(* The next message; what was received is forgotten. *)
NextMessage ==
    /\ phase = "received" \/ (phase = "error" /\ message # NoMessage)
    /\ phase' = "ready" /\ message' = NoMessage /\ decoded' = NoResult
    /\ UNCHANGED <<seen, count, state>>

Next ==
    \/ \E o \in Option : pad_option(o)
    \/ pad_init
    \/ \E n \in 1 .. MaxSize, byte \in 0 .. UINT8_MAX : pad_encode(n, byte)
    \/ pad_decode
    \/ NextMessage

Spec == Init /\ [][Next]_vars

-----------------------------------------------------------------------------
(* Decoding gives back the message that was encoded, unless a length of UINT8_MAX
   is drawn or the padding has a value and is longer than two bytes
   (encodings/pad.c:330-395). *)
RoundTrip ==
    (/\ phase \in {"received", "error"} /\ message # NoMessage
     /\ message.pad <= UINT8_MAX /\ ~(state.value /\ state.size > 2)) =>
        decoded.ok /\ decoded.strip = message.pad

=============================================================================
