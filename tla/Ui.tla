--------------------------------- MODULE Ui ---------------------------------
(***************************************************************************)
(* The HTTP server of the configuration page (HttpServer), whose requests  *)
(* are well formed and received whole.                                     *)
(***************************************************************************)
EXTENDS Integers

CONSTANTS
    MaxDescriptor, BodyToken, MAX_VAR_LENGTH, MAX_CONTENT_NAME, MAX_USER_VARS, MaxBody

VARIABLES
    part,  \* the part that runs: the other ones rest
    h_pc, sock, parser, body, answer, handled, owner

Whole == INSTANCE HttpServer WITH
    Malformed <- FALSE, Partial <- FALSE, pc <- h_pc, s <- sock

httpVars == <<h_pc, sock, parser, body, answer, handled, owner>>

(* When requests are well formed, the server closes no descriptor of another
   thread (http_server.c:341). *)
OthersKept == [][part = "whole" => Whole!KeepsOthers]_httpVars

=============================================================================
