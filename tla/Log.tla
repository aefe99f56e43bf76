-------------------------------- MODULE Log ---------------------------------
(***************************************************************************)
(* The global log (log.c): a linked list that threads append to and the    *)
(* user interface walks, each one pointer at a time.  Nodes are addresses  *)
(* that malloc gives out again after free.  The text of a message is left  *)
(* out: a message is the thread and the number of its call.                *)
(***************************************************************************)
EXTENDS Integers, Sequences, FiniteSets

CONSTANTS
    Thread,          \* threads that log
    Reader,          \* threads that ask for the log
    Node,            \* addresses of nodes
    MAX_GLOBAL_LOG,
    MaxCall,         \* bound: messages of a thread
    MaxRead,         \* bound: requests of a reader
    Fails            \* may malloc fail?

NULL == "NULL"
VARIABLES
    pc,              \* pc[a]: where thread or reader a is
    type,            \* type[t]: the type of its message
    call,            \* call[t]: its messages so far, call[r]: its requests so far
    log_msg,         \* log_msg[t]: the variable of log_message
    msg,             \* msg[r]: the variable of log_html_message
    out,             \* out[r]: what it has put in the buffer
    shown,           \* shown[r]: the last buffer it has finished
    print_log_lock, global_log_lock,              \* the holders
    global_log, global_log_end, global_log_len,   \* the list
    allocated,       \* the nodes that are allocated
    next,            \* next[n]: the field of node n
    text,            \* text[n]: its message
    alive            \* has the program not ended?

locks == <<print_log_lock, global_log_lock>>
list == <<global_log, global_log_end, global_log_len>>
heap == <<allocated, next, text>>
readerVars == <<msg, out, shown>>
vars == <<pc, type, call, log_msg, readerVars, locks, list, heap, alive>>

Init ==
    /\ pc = [a \in Thread \cup Reader |-> "idle"]
    /\ type = [t \in Thread |-> "info"]
    /\ call = [a \in Thread \cup Reader |-> 0]
    /\ log_msg = [t \in Thread |-> NULL]
    /\ msg = [r \in Reader |-> NULL]
    /\ out = [r \in Reader |-> <<>>] /\ shown = [r \in Reader |-> <<>>]
    /\ print_log_lock = NULL /\ global_log_lock = NULL
    /\ global_log = NULL /\ global_log_end = NULL /\ global_log_len = 0
    /\ allocated = {} /\ next = [n \in Node |-> NULL] /\ text = [n \in Node |-> <<>>]
    /\ alive = TRUE

Goto(a, from, to) == alive /\ pc[a] = from /\ pc' = [pc EXCEPT ![a] = to]

-----------------------------------------------------------------------------
(* log_message *)

Begin(t, ty) ==
    /\ call[t] < MaxCall /\ call' = [call EXCEPT ![t] = @ + 1]
    /\ type' = [type EXCEPT ![t] = ty]
    /\ UNCHANGED <<log_msg, readerVars, locks, list, heap, alive>>

Call(t, ty) == Goto(t, "idle", "print") /\ Begin(t, ty)

PrintLock(t) ==
    /\ Goto(t, "print", "printing") /\ print_log_lock = NULL /\ print_log_lock' = t
    /\ UNCHANGED <<type, call, log_msg, readerVars, global_log_lock, list, heap, alive>>

PrintUnlock(t) ==
    /\ Goto(t, "printing", "malloc") /\ print_log_lock' = NULL
    /\ UNCHANGED <<type, call, log_msg, readerVars, global_log_lock, list, heap, alive>>

Malloc(t) ==
    /\ Goto(t, "malloc", "lock")
    /\ \E n \in Node \ allocated :
        /\ allocated' = allocated \cup {n} /\ next' = [next EXCEPT ![n] = NULL]
        /\ text' = [text EXCEPT ![n] = <<t, call[t]>>] /\ log_msg' = [log_msg EXCEPT ![t] = n]
    /\ UNCHANGED <<type, call, readerVars, locks, list, alive>>

(* No memory for the node or the copy: error() calls log_message again, and does not
   return; a node without a copy is lost. *)
MallocFails(t) == Fails /\ Goto(t, "malloc", "print") /\ Begin(t, "error")

GlobalLock(t) ==
    /\ global_log_lock = NULL /\ global_log_lock' = t
    /\ Goto(t, "lock", IF global_log_end = NULL THEN "first" ELSE "link")
    /\ UNCHANGED <<type, call, log_msg, readerVars, print_log_lock, list, heap, alive>>

(* The first message *)
First(t) ==
    /\ Goto(t, "first", "unlock")
    /\ global_log' = log_msg[t] /\ global_log_end' = log_msg[t] /\ global_log_len' = 1
    /\ UNCHANGED <<type, call, log_msg, readerVars, locks, heap, alive>>

Link(t) ==
    /\ Goto(t, "link", "end")
    /\ next' = [next EXCEPT ![global_log_end] = log_msg[t]]
    /\ UNCHANGED <<type, call, log_msg, readerVars, locks, list, allocated, text, alive>>

End(t) ==
    /\ Goto(t, "end", IF global_log_len + 1 > MAX_GLOBAL_LOG THEN "drop" ELSE "unlock")
    /\ global_log_end' = log_msg[t] /\ global_log_len' = global_log_len + 1
    /\ UNCHANGED <<type, call, log_msg, readerVars, locks, global_log, heap, alive>>

(* The oldest message leaves a log that is too long *)
Drop(t) ==
    /\ Goto(t, "drop", "free") /\ log_msg' = [log_msg EXCEPT ![t] = global_log]
    /\ global_log' = next[global_log] /\ global_log_len' = global_log_len - 1
    /\ UNCHANGED <<type, call, readerVars, locks, global_log_end, heap, alive>>

(* and is freed. *)
Free(t) ==
    /\ Goto(t, "free", "unlock") /\ allocated' = allocated \ {log_msg[t]}
    /\ UNCHANGED <<type, call, log_msg, readerVars, locks, list, next, text, alive>>

GlobalUnlock(t) ==
    /\ Goto(t, "unlock", IF type[t] = "error" THEN "sleep" ELSE "idle")
    /\ global_log_lock' = NULL
    /\ UNCHANGED <<type, call, log_msg, readerVars, print_log_lock, list, heap, alive>>

(* After three seconds the program ends. *)
Quit(t) ==
    /\ Goto(t, "sleep", "quit") /\ alive' = FALSE
    /\ UNCHANGED <<type, call, log_msg, readerVars, locks, list, heap>>

-----------------------------------------------------------------------------
(* log_html_message *)

(* Mutant: the lock is not taken. *)
ReadLock_None(r) ==
    /\ Goto(r, "idle", "read") /\ call[r] < MaxRead /\ call' = [call EXCEPT ![r] = @ + 1]
    /\ msg' = [msg EXCEPT ![r] = global_log] /\ out' = [out EXCEPT ![r] = <<>>]
    /\ UNCHANGED <<type, log_msg, shown, locks, list, heap, alive>>

ReadLock(r) ==
    /\ Goto(r, "idle", "read") /\ call[r] < MaxRead /\ call' = [call EXCEPT ![r] = @ + 1]
    /\ global_log_lock = NULL /\ global_log_lock' = r
    /\ msg' = [msg EXCEPT ![r] = global_log] /\ out' = [out EXCEPT ![r] = <<>>]
    /\ UNCHANGED <<type, log_msg, shown, print_log_lock, list, heap, alive>>

Read(r) ==
    /\ Goto(r, "read", "read") /\ msg[r] # NULL
    /\ out' = [out EXCEPT ![r] = Append(@, text[msg[r]])]
    /\ msg' = [msg EXCEPT ![r] = next[msg[r]]]
    /\ UNCHANGED <<type, call, log_msg, shown, locks, list, heap, alive>>

ReadUnlock(r) ==
    /\ Goto(r, "read", "idle") /\ msg[r] = NULL
    /\ global_log_lock' = NULL /\ shown' = [shown EXCEPT ![r] = out[r]]
    /\ UNCHANGED <<type, call, log_msg, msg, out, print_log_lock, list, heap, alive>>

-----------------------------------------------------------------------------
LogStep(t) ==
    \/ PrintLock(t) \/ PrintUnlock(t) \/ Malloc(t) \/ MallocFails(t) \/ GlobalLock(t)
    \/ First(t) \/ Link(t) \/ End(t) \/ Drop(t) \/ Free(t) \/ GlobalUnlock(t) \/ Quit(t)

ReadStep(r) == Read(r) \/ ReadUnlock(r)

Next ==
    \/ \E t \in Thread : LogStep(t) \/ \E ty \in {"info", "error"} : Call(t, ty)
    \/ \E r \in Reader : ReadLock(r) \/ ReadStep(r)

Spec == Init /\ [][Next]_vars

(* The threads that are in log.c run. *)
FairSpec ==
    /\ Spec /\ \A t \in Thread : WF_vars(LogStep(t))
    /\ \A r \in Reader : WF_vars(ReadStep(r))

-----------------------------------------------------------------------------
(* The messages from the head of the list on, as many as it can have *)
Walk ==
    LET W[k \in 0 .. MAX_GLOBAL_LOG + 1, n \in Node \cup {NULL}] ==
            IF k = 0 \/ n = NULL THEN <<>> ELSE <<text[n]>> \o W[k - 1, next[n]]
    IN  W[MAX_GLOBAL_LOG + 1, global_log]

Message == Thread \X (1 .. MaxCall)

(* A message is in the log from when it is linked; then the oldest one is out. *)
B == INSTANCE BoundedLog WITH
        Max <- MAX_GLOBAL_LOG,
        content <- IF Len(Walk) > MAX_GLOBAL_LOG THEN Tail(Walk) ELSE Walk

(* The list behaves as the log of its latest MAX_GLOBAL_LOG messages, and every page the
   user interface gets shows the whole log at one moment (log.c:141-175, 251-273). *)
Refines == B!Spec

=============================================================================
