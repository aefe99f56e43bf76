----------------------------- MODULE CertCache ------------------------------
(***************************************************************************)
(* The file in which the client keeps the certificates of servers          *)
(* (encodings/crypt.c).  A thread that opens a tunnel looks for the        *)
(* certificate of its server and, if it is not there, gets it in the       *)
(* handshake (module Handshake) and appends it.  The file is read line by  *)
(* line through one open file, and deleted by name if a line does not      *)
(* parse.  A line is appended in one write, of which only a part may reach *)
(* the disk.                                                               *)
(***************************************************************************)
EXTENDS Integers, Sequences

CONSTANTS
    Thread,    \* threads that open tunnels; each with a server of its own
    MaxFault,  \* bound: lines that are cut off and handshakes that fail
    MaxFile    \* bound: files made one after the other

NoFile == 0
(* A line that was cut off in the name of the cipher, or after it *)
Cut == {"name", "rest"}
VARIABLES
    pc,      \* pc[t]: where thread t is
    file,    \* file[t]: the file it reads
    pos,     \* pos[t]: the next line it reads
    found,   \* found[t]: the line its last search returned, "none" or "unknown"
    name,    \* the file the name leads to, or NoFile
    lines,   \* lines[f]: the lines of file f
    last,    \* the last file that was made
    faults   \* faults so far

vars == <<pc, file, pos, found, name, lines, last, faults>>
fileVars == <<name, lines, last>>

Init ==
    /\ pc = [t \in Thread |-> "idle"] /\ file = [t \in Thread |-> NoFile]
    /\ pos = [t \in Thread |-> 1] /\ found = [t \in Thread |-> "unknown"]
    /\ name = NoFile /\ lines = [f \in 1 .. MaxFile |-> <<>>] /\ last = 0
    /\ faults = 0

Goto(t, from, to) == pc[t] = from /\ pc' = [pc EXCEPT ![t] = to]

Wrong(l) == l \in Cut \cup {"bad"}

-----------------------------------------------------------------------------
(* crypt_find_certificate *)

Result(t, l) == found' = [found EXCEPT ![t] = l]

Open(t) ==
    /\ IF name = NoFile
       THEN Goto(t, "idle", "handshake") /\ Result(t, "none") /\ UNCHANGED <<file, pos>>
       ELSE /\ Goto(t, "idle", "read") /\ file' = [file EXCEPT ![t] = name]
            /\ pos' = [pos EXCEPT ![t] = 1] /\ UNCHANGED found
    /\ UNCHANGED <<fileVars, faults>>

(* The hash of the line is that of the server, and so is the hash of its certificate. *)
Matches(t, l) == l = t

Read(t) ==
    /\ pc[t] = "read"
    /\ IF pos[t] > Len(lines[file[t]])
       THEN Goto(t, "read", "handshake") /\ Result(t, "none") /\ UNCHANGED pos
       ELSE LET l == lines[file[t]][pos[t]]
            IN  \/ /\ Matches(t, l) /\ Goto(t, "read", "done")
                   /\ Result(t, l) /\ UNCHANGED pos
                \/ /\ Wrong(l) /\ Goto(t, "read", "remove") /\ UNCHANGED <<found, pos>>
                \/ /\ ~Matches(t, l) /\ ~Wrong(l) /\ Goto(t, "read", "read")
                   /\ pos' = [pos EXCEPT ![t] = @ + 1] /\ UNCHANGED found
    /\ UNCHANGED <<file, fileVars, faults>>

(* parse_error *)
Remove(t) ==
    /\ Goto(t, "remove", "handshake") /\ Result(t, "none") /\ name' = NoFile
    /\ UNCHANGED <<file, pos, lines, last, faults>>

-----------------------------------------------------------------------------
(* crypt_save_certificate *)

(* What a line that ends in the middle becomes when text is appended *)
Merge(old, l) == CASE old = "name" /\ l \in Thread -> "other"
                   [] old = "name" /\ l \notin Thread -> l
                   [] old = "rest" -> IF l \in Thread THEN "bad" ELSE "rest"

Appended(s, l) ==
    IF s # <<>> /\ s[Len(s)] \in Cut
    THEN [s EXCEPT ![Len(s)] = Merge(s[Len(s)], l)]
    ELSE Append(s, l)

(* Mutant: the file is opened only if there is one. *)
AppendLine_Existing(l) ==
    \/ /\ name # NoFile /\ lines' = [lines EXCEPT ![name] = Appended(@, l)]
       /\ UNCHANGED <<name, last>>
    \/ name = NoFile /\ UNCHANGED fileVars

AppendLine(l) ==
    \/ /\ name # NoFile /\ lines' = [lines EXCEPT ![name] = Appended(@, l)]
       /\ UNCHANGED <<name, last>>
    \/ /\ name = NoFile /\ last < MaxFile
       /\ last' = last + 1 /\ name' = last' /\ lines' = [lines EXCEPT ![last'] = <<l>>]

Save(t) ==
    /\ Goto(t, "handshake", "done")
    /\ \/ AppendLine(t) /\ UNCHANGED faults
       \/ /\ faults < MaxFault /\ faults' = faults + 1
          /\ \E l \in Cut : AppendLine(l)
    /\ UNCHANGED <<file, pos, found>>

(* The handshake fails, or the file cannot be opened. *)
NotSaved(t) ==
    /\ Goto(t, "handshake", "done") /\ faults < MaxFault /\ faults' = faults + 1
    /\ UNCHANGED <<file, pos, found, fileVars>>

(* The tunnel is closed, and opened again: tunnel_reconnect, tunnel_open. *)
Done(t) ==
    /\ Goto(t, "done", "idle")
    /\ UNCHANGED <<file, pos, found, fileVars, faults>>

Step(t) == Open(t) \/ Read(t) \/ Remove(t) \/ Save(t) \/ NotSaved(t) \/ Done(t)

Next == \E t \in Thread : Step(t)

Spec == Init /\ [][Next]_vars

(* The tunnel manager opens the tunnels again and again. *)
FairSpec == Spec /\ \A t \in Thread : WF_vars(Step(t))

-----------------------------------------------------------------------------
(* However often lines were cut off, the file recovers: in the end every search finds its
   certificate (encodings/crypt.c:904-907). *)
Recovers == <>[](\A t \in Thread : found[t] = t)

=============================================================================
