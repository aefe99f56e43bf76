----------------------------- MODULE HttpServer -----------------------------
(***************************************************************************)
(* The HTTP server of the user interface (http_server.c): the loop that    *)
(* accepts a connection, receives a request, parses it and answers it, and *)
(* the request parser, one character at a time.                            *)
(*                                                                         *)
(* A request is a sequence of tokens.  A token stands for one character,   *)
(* but for the fixed words: "GET" is "GET /", "POST" is "POST /", "VER" is *)
(* "HTTP/1.1\r", "LEN" the name Content-Length, "page", "css" and "gen"    *)
(* the names of contents.  The value of Content-Length is written with as  *)
(* many digits as the number it is.  Values are shorter than               *)
(* MAX_VAL_LENGTH.                                                         *)
(*                                                                         *)
(* Descriptors are shared with the other threads of the program: accept    *)
(* and socket return the lowest one that is free.                          *)
(***************************************************************************)
EXTENDS Integers, Sequences, Functions, FiniteSets

CONSTANTS
    MaxDescriptor,     \* bound: file descriptors
    BodyToken,         \* tokens in the body of a request
    MAX_VAR_LENGTH, MAX_CONTENT_NAME, MAX_USER_VARS,
    MaxBody,           \* bound: Content-Length
    Malformed,         \* may a request be one the parser refuses?
    Partial            \* may recv return a part of the request?

VARIABLES
    pc,      \* where http_server is
    s,       \* the descriptor of the connection, or 0
    parser,  \* struct http_parser_s
    body,    \* the tokens of the body, as they were sent
    answer,  \* the codes of the responses that were sent on the connection
    handled, \* was the request given to a callback?
    owner    \* who has a descriptor open

vars == <<pc, s, parser, body, answer, handled, owner>>

-----------------------------------------------------------------------------
(* The request parser *)

(* http_parser_init leaves content_length as it is in the memory. *)
http_parser_init(length) ==
    [state |-> "START", begin |-> FALSE, method |-> "none", name |-> <<>>, var |-> <<>>,
     val |-> <<>>, content_length |-> length, body_used |-> 1, vars |-> <<>>]

Error(p) == [p EXCEPT !.state = "ERROR"]

(* What the buffer of a name holds after one more character *)
PutVar(var, c) == IF Len(var) < MAX_VAR_LENGTH THEN Append(var, c) ELSE var

http_user_var_insert(p) ==
    IF Len(p.vars) >= MAX_USER_VARS THEN p
    ELSE [p EXCEPT !.vars = Append(@, <<p.var, p.val>>)]

Hex == {"h", "2", "5"}

(* strtol of two hexadecimal digits *)
Unescaped(a, b) == IF a = "2" /\ b = "5" THEN "%" ELSE "c"

(* Mutant: the first digit is kept. *)
PutVal_Digit(val, c) ==
    LET v == Append(val, c)
        n == Len(v)
    IN  IF n >= 3 /\ v[n - 2] = "%" /\ v[n - 1] \in Hex /\ c \in Hex
        THEN Append(SubSeq(v, 1, n - 2), Unescaped(v[n - 1], c))
        ELSE v

(* A character of a value; an escape sequence is replaced in the buffer. *)
PutVal(val, c) ==
    LET v == Append(val, c)
        n == Len(v)
    IN  IF n >= 3 /\ v[n - 2] = "%" /\ v[n - 1] \in Hex /\ c \in Hex
        THEN Append(SubSeq(v, 1, n - 3), Unescaped(v[n - 1], c))
        ELSE v

(* The end of the input, or of the body *)
AtEnd(p) ==
    IF p.body_used # 0 THEN p
    ELSE IF p.state = "CONTENT_VAR" THEN Error(p)
    ELSE IF p.state = "CONTENT_VAL" THEN [http_user_var_insert(p) EXCEPT !.state = "FINAL"]
    ELSE p

Begin(p, c, expected) == IF c = expected THEN [p EXCEPT !.begin = FALSE] ELSE Error(p)

HeaderVar(p, c) ==
    IF p.begin THEN Begin(p, c, "LF")
    ELSE IF p.var = <<>> /\ c = "CR" /\ p.method = "GET" THEN [p EXCEPT !.state = "FINAL"]
    ELSE IF p.var = <<>> /\ c = "CR"
         THEN [p EXCEPT !.state = "CONTENT_VAR", !.begin = TRUE,
                        !.body_used = p.content_length]
    ELSE IF c = ":" THEN [p EXCEPT !.state = "HEADER_VAL", !.begin = TRUE, !.val = <<>>]
    ELSE IF c \notin {"x", "LEN"} THEN Error(p)
    ELSE [p EXCEPT !.var = PutVar(@, c)]

HeaderVal(p, c) ==
    IF p.begin THEN Begin(p, c, "SP")
    ELSE IF c = "CR"
         THEN [p EXCEPT !.state = "HEADER_VAR", !.begin = TRUE, !.var = <<>>,
                 !.content_length = IF p.var = <<"LEN">> THEN Len(p.val) ELSE @]
    ELSE [p EXCEPT !.val = Append(@, c)]

ContentVar(p, c) ==
    IF p.begin THEN [Begin(p, c, "LF") EXCEPT !.var = <<>>]
    ELSE IF c = "="
         THEN [p EXCEPT !.state = "CONTENT_VAL", !.val = <<>>, !.body_used = @ - 1]
    ELSE [p EXCEPT !.var = PutVar(@, c), !.body_used = @ - 1]

ContentVal(p, c) ==
    IF c = "&"
    THEN [http_user_var_insert(p) EXCEPT !.state = "CONTENT_VAR", !.var = <<>>,
                                         !.body_used = @ - 1]
    ELSE [p EXCEPT !.val = PutVal(@, c), !.body_used = @ - 1]

(* http_parse_request, for one token *)
http_parse_request(p, c) ==
    AtEnd(CASE p.state = "START" ->
                 IF c \in {"GET", "POST"} THEN [p EXCEPT !.state = "URI", !.method = c]
                 ELSE Error(p)
            [] p.state = "URI" ->
                 IF c = "SP" THEN [p EXCEPT !.state = "VERSION"]
                 ELSE IF Len(p.name) = MAX_CONTENT_NAME THEN Error(p)
                 ELSE [p EXCEPT !.name = Append(@, c)]
            [] p.state = "VERSION" ->
                 IF c = "VER" THEN [p EXCEPT !.state = "HEADER_VAR", !.begin = TRUE, !.var = <<>>]
                 ELSE Error(p)
            [] p.state = "HEADER_VAR" -> HeaderVar(p, c)
            [] p.state = "HEADER_VAL" -> HeaderVal(p, c)
            [] p.state = "CONTENT_VAR" -> ContentVar(p, c)
            [] p.state = "CONTENT_VAL" -> ContentVal(p, c))

-----------------------------------------------------------------------------
(* The server *)

Descriptor == 1 .. MaxDescriptor

Free == {d \in Descriptor : owner[d] = "free"}

Lowest(ds) == CHOOSE d \in ds : \A e \in ds : d <= e

Closed(d) == [owner EXCEPT ![d] = "free"]

Init ==
    /\ pc = "accept" /\ s = 0
    /\ \E n \in 0 .. MaxBody : parser = http_parser_init(n)
    /\ body = <<>> /\ answer = <<>> /\ handled = FALSE
    /\ owner = [d \in Descriptor |-> "free"]

(* A connection is accepted; one that is not local is closed. *)
http_server_accept ==
    /\ pc = "accept" /\ Free # {}
    /\ \E n \in 0 .. MaxBody : parser' = http_parser_init(n)
    /\ \/ /\ pc' = "recv" /\ s' = Lowest(Free)
          /\ owner' = [owner EXCEPT ![s'] = "http"]
       \/ UNCHANGED <<pc, s, owner>>
    /\ body' = <<>> /\ answer' = <<>> /\ handled' = FALSE

Word == {"GET", "POST", "SP", "VER", "LF", "CR", ":", "LEN", "x", "page", "css", "gen"}

InBody == parser.state = "CONTENT_VAL" \/ (parser.state = "CONTENT_VAR" /\ ~parser.begin)

(* recv and http_parse_request, token by token *)
http_server_recv ==
    /\ pc = "recv" /\ parser.state \notin {"FINAL", "ERROR"}
    /\ \E c \in IF InBody THEN BodyToken ELSE Word :
         /\ parser.state = "HEADER_VAL" /\ ~parser.begin
              => c = "CR" \/ (c = "x" /\ Len(parser.val) < MaxBody)
         /\ parser.state = "URI" => c \in {"SP", "page", "css", "gen", "x"}
         /\ parser' = http_parse_request(parser, c)
         /\ Malformed \/ parser'.state # "ERROR"
         /\ body' = IF InBody THEN Append(body, c) ELSE body
    /\ UNCHANGED <<pc, s, answer, handled, owner>>

(* The other side closed the connection before it sent anything. *)
http_server_recv_empty ==
    /\ pc = "recv" /\ parser.state = "START" /\ Partial
    /\ pc' = "accept" /\ owner' = Closed(s)
    /\ UNCHANGED <<s, parser, body, answer, handled>>

(* recv returned: a request that is not complete is forgotten with its socket
   (do ... while (false)); one that was refused is closed, and the switch left. *)
http_server_parsed ==
    /\ pc = "recv"
    /\ \/ parser.state = "FINAL" /\ pc' = "handle" /\ UNCHANGED owner
       \/ parser.state = "ERROR" /\ pc' = "handle" /\ owner' = Closed(s)
       \/ parser.state \notin {"FINAL", "ERROR"} /\ Partial /\ pc' = "accept" /\ UNCHANGED owner
    /\ UNCHANGED <<s, parser, body, answer, handled>>

-----------------------------------------------------------------------------
(* Responses.  ok[i] says whether the i-th send succeeds. *)

Static == {<<>>, <<"page">>, <<"css">>}
Dynamic == {<<"gen">>}

http_type(name) == IF name = <<"css">> THEN "CSS" ELSE "HTML"

(* The page of the error, or the emergency response *)
http_error(name, code, ok) ==
    IF http_type(name) = "HTML" /\ ok[1] THEN <<code>>
    ELSE IF ok[2] THEN <<500>> ELSE <<>>

(* http_send_response; http_handle_request: content is there or is not *)
http_handle_request(name, there, ok) ==
    IF ~there THEN http_error(name, 404, <<ok[2], ok[3]>>)
    ELSE IF ok[1] THEN <<200>>
    ELSE http_error(name, 500, <<ok[2], ok[3]>>)

(* Mutant: the connection is closed a second time when the response failed. *)
http_server_handle_Twice ==
    /\ pc = "handle"
    /\ \E there \in BOOLEAN : answer' = IF there THEN <<200>> ELSE <<>>
    /\ handled' = TRUE
    /\ owner' = Closed(s)
    /\ pc' = IF answer' = <<>> THEN "handle" ELSE "accept"
    /\ UNCHANGED <<s, parser, body>>

(* The content is generated or looked up, the variables are given to the
   callback of the server, the response is sent and the socket closed. *)
http_server_handle ==
    /\ pc = "handle"
    /\ \E ok \in [1 .. 3 -> BOOLEAN], there \in BOOLEAN :
         /\ parser.name \in Static => there
         /\ parser.name \notin Static \cup Dynamic => ~there
         /\ answer' = http_handle_request(parser.name, there,
                        IF owner[s] = "http" THEN ok ELSE [i \in 1 .. 3 |-> FALSE])
    /\ handled' = TRUE
    /\ owner' = Closed(s)
    /\ pc' = "accept"
    /\ UNCHANGED <<s, parser, body>>

(* Another thread opens and closes a descriptor. *)
other_open ==
    /\ Free # {} /\ "other" \notin {owner[d] : d \in Descriptor}
    /\ owner' = [owner EXCEPT ![Lowest(Free)] = "other"]
    /\ UNCHANGED <<pc, s, parser, body, answer, handled>>

other_close ==
    /\ \E d \in Descriptor : owner[d] = "other" /\ owner' = Closed(d)
    /\ UNCHANGED <<pc, s, parser, body, answer, handled>>

Server ==
    \/ http_server_accept \/ http_server_recv \/ http_server_recv_empty
    \/ http_server_parsed \/ http_server_handle

Next == Server \/ other_open \/ other_close

Spec == Init /\ [][Next]_vars

-----------------------------------------------------------------------------
(* The end of each field of a form, and the place before the first *)
Bounds == {0, Len(body) + 1} \cup {i \in DOMAIN body : body[i] = "&"}

Field(a) == SubSeq(body, a + 1, (CHOOSE b \in Bounds : b > a /\ \A e \in Bounds : e > a => b <= e) - 1)

(* The place of the first "=", or 0 *)
Equals(f) ==
    LET at == {i \in DOMAIN f : f[i] = "="} IN IF at = {} THEN 0 ELSE Lowest(at)

(* A value decoded from left to right: each escape once *)
Decode(v) ==
    LET d[i \in 1 .. Len(v) + 3] ==
          IF i > Len(v) THEN <<>>
          ELSE IF v[i] = "%" /\ i + 2 <= Len(v) /\ v[i + 1] \in Hex /\ v[i + 2] \in Hex
          THEN <<Unescaped(v[i + 1], v[i + 2])>> \o d[i + 3]
          ELSE <<v[i]>> \o d[i + 1]
    IN  d[1]

Pair(f) == <<SubSeq(f, 1, IF Equals(f) <= MAX_VAR_LENGTH THEN Equals(f) - 1 ELSE MAX_VAR_LENGTH),
             Decode(SubSeq(f, Equals(f) + 1, Len(f)))>>

(* "Handle escape sequences." (http_server.c:770): of a complete POST whose every
   field has a value, the variables are the fields of the body, decoded, but for
   the ones beyond MAX_USER_VARS. *)
VarsDecoded ==
    LET starts == Bounds \ {Len(body) + 1}
        kept == {a \in starts : Cardinality({e \in starts : e < a}) < MAX_USER_VARS}
    IN  parser.state = "FINAL" /\ parser.method = "POST"
          /\ (\A a \in starts : Equals(Field(a)) # 0)
        => /\ Range(parser.vars) = {Pair(Field(a)) : a \in kept}
           /\ Len(parser.vars) = Cardinality(kept)

(* When requests are well formed, the server closes no descriptor of another
   thread (http_server.c:341). *)
KeepsOthers ==
    \A d \in Descriptor : owner[d] = "other" /\ owner'[d] # "other" => UNCHANGED pc

OthersKept == [][KeepsOthers]_vars

=============================================================================
