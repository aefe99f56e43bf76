------------------------------- MODULE MCUi ---------------------------------
(***************************************************************************)
(* What the user interface rests on: the configuration file (SavedFile),   *)
(* the HTTP server of the configuration page, with well-formed requests    *)
(* (Ui) and with any (HttpServer), and the log it shows (Log).  They share *)
(* no state: in a behaviour one of them runs, and the others rest.         *)
(***************************************************************************)
EXTENDS SavedFile, Ui, TLC

CONSTANT Node

VARIABLES
    l_pc, type, call, log_msg, msg, out, shown, print_log_lock, global_log_lock, global_log,
    global_log_end, global_log_len, allocated, next, text, alive  \* Log

(* Any requests, received whole or in part *)
Http == INSTANCE HttpServer WITH
        MaxDescriptor <- 1, BodyToken <- {"x", "=", "&", "%", "h"}, MAX_VAR_LENGTH <- 1,
        MAX_CONTENT_NAME <- 1, MAX_USER_VARS <- 2, MaxBody <- 5, Malformed <- TRUE, Partial <- TRUE,
        pc <- h_pc, s <- sock

(* Two threads and a page, a log of two messages, and memory that is used again or runs out *)
Log == INSTANCE Log WITH
        Thread <- {"t1", "t2"}, Reader <- {"r"}, MAX_GLOBAL_LOG <- 2, MaxCall <- 2, MaxRead <- 2,
        Fails <- TRUE, pc <- l_pc

logVars ==
    <<l_pc, type, call, log_msg, msg, out, shown, print_log_lock, global_log_lock, global_log,
      global_log_end, global_log_len, allocated, next, text, alive>>
MCvars == <<part, vars, httpVars, logVars>>

MCInit ==
    /\ part \in {"file", "any", "whole", "log"}
    /\ Init
    /\ IF part = "whole" THEN Whole!Init ELSE Http!Init
    /\ part \notin {"any", "whole"} => parser.content_length = 0
    /\ Log!Init

MCNext ==
    \/ part = "file" /\ Next /\ UNCHANGED <<part, httpVars, logVars>>
    \/ /\ (part = "any" /\ Http!Next) \/ (part = "whole" /\ Whole!Next)
       /\ UNCHANGED <<part, vars, logVars>>
    \/ part = "log" /\ Log!Next /\ UNCHANGED <<part, vars, httpVars>>

MCSpec == MCInit /\ [][MCNext]_MCvars

(* The addresses in Node are those of Option and Worker: fewer permutations than they allow *)
Symmetry == Permutations(Option) \cup Permutations(Worker)

-----------------------------------------------------------------------------
(* "Handle escape sequences." (http_server.c:770): the variables of a POST are the fields
   of its body, decoded, but for the ones beyond MAX_USER_VARS. *)
VarsDecoded == part = "any" => Http!VarsDecoded

(* The list behaves as the log of its latest MAX_GLOBAL_LOG messages, and every page the
   user interface gets shows the whole log at one moment (log.c:141-175, 251-273). *)
Refines == Log!Refines

=============================================================================
