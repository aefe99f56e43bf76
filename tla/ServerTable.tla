---------------------------- MODULE ServerTable -----------------------------
(***************************************************************************)
(* The commands of the server program (server.c) and the table file they   *)
(* keep of the servers they started (server_table.c).  Every command is a  *)
(* process that reads the table, starts or stops servers and writes the    *)
(* table back.  Reading and writing hold a lock on the file, but opening   *)
(* the file for writing truncates it before the lock is taken, and nothing *)
(* is held between reading and writing.                                    *)
(*                                                                         *)
(* Lines of the file have the same length, so that a table written over a  *)
(* longer one leaves the rest of it.                                       *)
(***************************************************************************)
EXTENDS Integers, Sequences

CONSTANTS
    Command,    \* command processes
    Url,        \* tunnel URLs
    ValidUrl,   \* the ones cktp_parse_url accepts
    MaxPid,     \* bound: servers started
    MaxArgs,    \* bound: URLs on a command line
    MaxCommand  \* bound: commands run

SERVER_DEAD == -1
SERVER_SUSPENDED == -2

VARIABLES
    file,    \* the table file: a sequence of entries
    cmd,     \* cmd[c]: what command c does
    server,  \* server[p]: the server process with PID p
    signals, \* kill(pid, SIGTERM) calls, with the URL they were made for
    count,   \* commands run
    alone    \* is one command run at a time, and do fork and fopen not fail?

vars == <<file, cmd, server, signals, count, alone>>

-----------------------------------------------------------------------------
Pid == 1 .. MaxPid

Entry(pid, url) == [pid |-> pid, url |-> url]

Idle == [pc |-> "idle", op |-> "list", args |-> <<>>, table |-> <<>>, entry |-> 1]

Operation == {"add", "remove", "start", "stop", "list"}

Arguments == UNION {[1 .. n -> Url] : n \in 0 .. MaxArgs}

(* verify_pid: is it the PID of a process of this program? *)
Running(p) == p \in Pid /\ server[p].state = "running"

Init ==
    /\ file \in {<<>>} \cup {<<Entry(SERVER_SUSPENDED, u)>> : u \in Url}
    /\ cmd = [c \in Command |-> Idle]
    /\ server = [p \in Pid |-> [state |-> "none", url |-> CHOOSE u \in Url : TRUE]]
    /\ signals = {}
    /\ count = 0
    /\ alone \in BOOLEAN

server_table_insert(table, pid, url) == <<Entry(pid, url)>> \o table

(* The first entry of a URL, or 0 *)
Find(table, url) ==
    LET at == {i \in 1 .. Len(table) : table[i].url = url}
    IN  IF at = {} THEN 0 ELSE CHOOSE i \in at : \A j \in at : i <= j

PidOf(table, url) ==
    IF Find(table, url) = 0 THEN SERVER_DEAD ELSE table[Find(table, url)].pid

server_table_delete(table, url) ==
    LET at == Find(table, url)
    IN  IF at = 0 THEN table
        ELSE [i \in 1 .. Len(table) - 1 |-> IF i < at THEN table[i] ELSE table[i + 1]]

(* The last line of the file becomes the first entry. *)
server_table_read ==
    [i \in 1 .. Len(file) |->
        LET e == file[Len(file) + 1 - i]
        IN  IF Running(e.pid) THEN e ELSE Entry(SERVER_SUSPENDED, e.url)]

-----------------------------------------------------------------------------
(* main: a command starts; only add and remove take URLs. *)
main(c) ==
    /\ cmd[c].pc = "idle"
    /\ alone => \A d \in Command : cmd[d].pc = "idle"
    /\ \E op \in Operation :
         \E args \in IF op \in {"add", "remove"} THEN Arguments ELSE {<<>>} :
           cmd' = [cmd EXCEPT ![c] = [Idle EXCEPT !.pc = "read", !.op = op, !.args = args]]
    /\ count < MaxCommand /\ count' = count + 1
    /\ UNCHANGED <<file, server, signals>>

(* Every command reads the table first; list prints it and is over. *)
ReadTable(c) ==
    /\ cmd[c].pc = "read"
    /\ cmd' = [cmd EXCEPT ![c].table = server_table_read,
                          ![c].pc = IF cmd[c].op = "list" THEN "listed" ELSE "loop"]
    /\ UNCHANGED <<file, server, signals>>

list_servers(c) ==
    /\ cmd[c].pc = "listed"
    /\ cmd' = [cmd EXCEPT ![c] = Idle]
    /\ UNCHANGED <<file, server, signals>>

(* Go on to the next URL and entry with a table. *)
Continue(c, table) ==
    /\ cmd' = [cmd EXCEPT
                 ![c].table = table,
                 ![c].entry = cmd[c].entry + 1,
                 ![c].args = IF cmd[c].args = <<>> THEN <<>> ELSE Tail(cmd[c].args)]
    /\ UNCHANGED file

(* fork and start_server: the parent goes on with the table that has the PID, or
   leaves without writing its table. *)
Fork(c, url, table) ==
    /\ UNCHANGED signals
    /\ \/ \E p \in Pid :
            /\ server[p].state = "none" /\ \A q \in 1 .. p - 1 : server[q].state # "none"
            /\ server' = [server EXCEPT ![p] = [state |-> "running", url |-> url]]
            /\ Continue(c, table[p])
       \/ /\ ~alone
          /\ cmd' = [cmd EXCEPT ![c] = Idle]
          /\ UNCHANGED <<file, server>>

(* kill(pid, SIGTERM): nothing happens when there is no such process. *)
Kill(pid, url) ==
    /\ signals' = signals \cup {Entry(pid, url)}
    /\ server' = IF Running(pid) THEN [server EXCEPT ![pid].state = "gone"] ELSE server

Skip(c, table) == Continue(c, table) /\ UNCHANGED <<server, signals>>

-----------------------------------------------------------------------------
NextUrl(c, op) == cmd[c].pc = "loop" /\ cmd[c].op = op /\ cmd[c].args # <<>>

(* Mutant: the entry of a server that runs is not put back. *)
add_servers_Dropped(c) ==
    /\ NextUrl(c, "add")
    /\ LET url == Head(cmd[c].args)
           pid == PidOf(cmd[c].table, url)
           rest == server_table_delete(cmd[c].table, url)
       IN  IF pid # SERVER_DEAD /\ pid # SERVER_SUSPENDED
           THEN Skip(c, rest)
           ELSE IF url \notin ValidUrl
           THEN Skip(c, rest)
           ELSE Fork(c, url, [p \in Pid |-> server_table_insert(rest, p, url)])

add_servers(c) ==
    /\ NextUrl(c, "add")
    /\ LET url == Head(cmd[c].args)
           pid == PidOf(cmd[c].table, url)
           rest == server_table_delete(cmd[c].table, url)
       IN  IF pid # SERVER_DEAD /\ pid # SERVER_SUSPENDED
           THEN Skip(c, server_table_insert(rest, pid, url))
           ELSE IF url \notin ValidUrl
           THEN Skip(c, rest)
           ELSE Fork(c, url, [p \in Pid |-> server_table_insert(rest, p, url)])

(* Mutant: the PID is the one of the first entry. *)
remove_servers_First(c) ==
    /\ NextUrl(c, "remove")
    /\ LET url == Head(cmd[c].args)
           rest == server_table_delete(cmd[c].table, url)
       IN  IF url \notin ValidUrl \/ cmd[c].table = <<>>
           THEN Skip(c, cmd[c].table)
           ELSE Kill(cmd[c].table[1].pid, url) /\ Continue(c, rest)

remove_servers(c) ==
    /\ NextUrl(c, "remove")
    /\ LET url == Head(cmd[c].args)
           pid == PidOf(cmd[c].table, url)
           rest == server_table_delete(cmd[c].table, url)
       IN  IF url \notin ValidUrl
           THEN Skip(c, cmd[c].table)
           ELSE IF pid \in {SERVER_DEAD, SERVER_SUSPENDED}
           THEN Skip(c, rest)
           ELSE Kill(pid, url) /\ Continue(c, rest)

-----------------------------------------------------------------------------
(* The commands of the init script go through the entries of the table. *)
NextEntry(c, op) ==
    cmd[c].pc = "loop" /\ cmd[c].op = op /\ cmd[c].entry <= Len(cmd[c].table)

init_start_servers(c) ==
    /\ NextEntry(c, "start")
    /\ LET e == cmd[c].table[cmd[c].entry]
           With(pid) == [cmd[c].table EXCEPT ![cmd[c].entry].pid = pid]
       IN  IF e.url \notin ValidUrl
           THEN Skip(c, With(SERVER_SUSPENDED))
           ELSE IF e.pid # SERVER_SUSPENDED
           THEN Skip(c, cmd[c].table)
           ELSE Fork(c, e.url, [p \in Pid |-> With(p)])

(* The condition on the PID holds of every entry. *)
init_stop_servers(c) ==
    /\ NextEntry(c, "stop")
    /\ LET e == cmd[c].table[cmd[c].entry]
       IN  /\ e.pid # SERVER_DEAD \/ e.pid # SERVER_SUSPENDED
           /\ IF e.url \notin ValidUrl
              THEN Skip(c, cmd[c].table)
              ELSE /\ Kill(e.pid, e.url)
                   /\ Continue(c, [cmd[c].table EXCEPT
                                     ![cmd[c].entry].pid = SERVER_SUSPENDED])

-----------------------------------------------------------------------------
LoopDone(c) ==
    /\ cmd[c].pc = "loop"
    /\ IF cmd[c].op \in {"add", "remove"} THEN cmd[c].args = <<>>
       ELSE cmd[c].entry > Len(cmd[c].table)

(* server_table_write: fopen truncates the file, and may fail *)
OpenTable(c) ==
    /\ LoopDone(c)
    /\ \/ file' = <<>> /\ cmd' = [cmd EXCEPT ![c].pc = "write"]
       \/ ~alone /\ cmd' = [cmd EXCEPT ![c] = Idle] /\ UNCHANGED file
    /\ UNCHANGED <<server, signals>>

server_entry_print(e) == IF e.pid = SERVER_DEAD THEN <<>> ELSE <<e>>

(* The lines of the entries, in their order *)
Lines(table) ==
    LET lines[i \in 0 .. Len(table)] ==
            IF i = 0 THEN <<>> ELSE lines[i - 1] \o server_entry_print(table[i])
    IN  lines[Len(table)]

(* Lines written from the start of the file over the ones that are there *)
Overwrite(old, new) == new \o SubSeq(old, Len(new) + 1, Len(old))

(* server_table_write: the entries, with the file locked *)
WriteTable(c) ==
    /\ cmd[c].pc = "write"
    /\ file' = Overwrite(file, Lines(cmd[c].table))
    /\ cmd' = [cmd EXCEPT ![c] = Idle]
    /\ UNCHANGED <<server, signals>>

(* A server stops by itself, or fails in start_server. *)
start_server_exit(p) ==
    /\ Running(p)
    /\ server' = [server EXCEPT ![p].state = "gone"]
    /\ UNCHANGED <<file, cmd, signals, count, alone>>

CommandStep(c) ==
    \/ ReadTable(c) \/ list_servers(c)
    \/ add_servers(c) \/ remove_servers(c) \/ init_start_servers(c) \/ init_stop_servers(c)
    \/ OpenTable(c) \/ WriteTable(c)

Next ==
    \/ \E c \in Command : (main(c) \/ (CommandStep(c) /\ UNCHANGED count)) /\ UNCHANGED alone
    \/ \E p \in Pid : start_server_exit(p)

Spec == Init /\ [][Next]_vars

-----------------------------------------------------------------------------
(* When commands are run one at a time and none is running, every server that
   runs is in the table file under its PID and URL: it can be listed, removed and
   stopped (server.c:209-261, 328-490). *)
RunningRecorded ==
    alone /\ (\A c \in Command : cmd[c].pc = "idle")
        => \A p \in Pid : Running(p) =>
             \E i \in DOMAIN file : file[i] = Entry(p, server[p].url)

(* Whatever commands run together, remove and init-stop signal a process under
   the URL it serves (server.c:343-361, 477): never another server. *)
SignalsOwn ==
    \A e \in signals :
        e.pid # SERVER_SUSPENDED => server[e.pid].state = "gone" /\ server[e.pid].url = e.url

=============================================================================
