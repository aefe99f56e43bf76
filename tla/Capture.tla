------------------------------- MODULE Capture ------------------------------
(***************************************************************************)
(* The firewall rules that divert packets to the client, and how they are  *)
(* removed when the program ends (linux/capture.c, freebsd/capture.c,      *)
(* log.c, client.c).                                                       *)
(*                                                                         *)
(* The actors are the main thread, which issues the rules in init_capture, *)
(* the thread of the user interface, whose user may quit, and the signal   *)
(* handlers.  A handler runs on the stack of the thread it interrupts, and *)
(* never returns to it.  Most steps begin with a log message, that is with *)
(* the locks of log.c; they are taken and released in two steps.           *)
(***************************************************************************)
EXTENDS Integers, Sequences

CONSTANTS
    Platform,   \* a subset of {"linux", "freebsd"}
    MaxSignal,  \* bound: signals
    MaxEnd,     \* bound: signals and requests to quit
    Early,      \* may the first of these come during init_capture?
    Fails       \* may a command fail?

Handler == 1 .. MaxSignal
Actor == {0, -1} \cup Handler
Main == 0
Ui == -1
NoOne == -2

Rule == {"tcp", "udp", "icmp"}

VARIABLES
    platform,    \* the platform
    pc,          \* pc[a]: where actor a is
    k,           \* k[a]: its position in a list of commands
    cmd,         \* cmd[a]: the rules the command it executes removes
    ret,         \* ret[a]: where it goes after the clean-up
    suspended,   \* the threads and handlers a handler interrupted
    lock,        \* the holder of the locks of log.c
    rules,       \* the rules of the kernel
    undo,        \* iptables_undo; {} stands for NULL
    clean,       \* iptables_clean, ipfw_clean
    registered,  \* the functions registered with atexit, that were not called
    ends,        \* signals and requests to quit so far
    failed       \* the rules a failed command was to issue or to remove

actorVars == <<pc, k, cmd, ret>>
stateVars == <<rules, undo, clean, registered>>
vars == <<platform, actorVars, suspended, lock, stateVars, ends, failed>>

-----------------------------------------------------------------------------
(* The commands that issue the rules, and the commands that remove them *)
enable == <<{"tcp"}, {"udp"}, {"icmp"}>>
disable(p) == IF p = "linux" THEN enable ELSE <<Rule>>

Gone == \E a \in Actor : pc[a] = "gone"

Running(a) == a \notin suspended /\ ~Gone

To(a, place) == pc' = [pc EXCEPT ![a] = place]

Init ==
    /\ platform \in Platform
    /\ pc = [a \in Actor |-> IF a = Main THEN "init" ELSE IF a = Ui THEN "serve" ELSE "none"]
    /\ k = [a \in Actor |-> 1]
    /\ cmd = [a \in Actor |-> {}]
    /\ ret = [a \in Actor |-> "gone"]
    /\ suspended = {} /\ lock = NoOne
    /\ rules = {} /\ undo = <<>> /\ clean = TRUE /\ registered = FALSE
    /\ ends = 0 /\ failed = {}

(* The start of log_message *)
Lock(a) ==
    /\ Running(a) /\ pc[a] \in {"run", "serve", "issue", "log", "exec", "error"}
    /\ lock = NoOne /\ lock' = a
    /\ UNCHANGED <<platform, actorVars, suspended, stateVars, ends, failed>>

(* Mutant: log_message returns without unlocking. *)
Logged_Keep(a) == Running(a) /\ lock = a /\ lock' = a

Logged(a) == Running(a) /\ lock = a /\ lock' = NoOne

(* The other messages of a thread *)
log_message(a) ==
    /\ pc[a] \in {"run", "serve"} /\ Logged(a)
    /\ UNCHANGED <<platform, actorVars, suspended, stateVars, ends, failed>>

(* A command that fails is reported by error. *)
Fail(a, r) ==
    /\ Fails /\ failed = {} /\ failed' = r
    /\ To(a, "error")
    /\ UNCHANGED <<k, stateVars>>

-----------------------------------------------------------------------------
(* init_capture: the sockets, the signals and iptables_undo_insert *)
init_capture ==
    /\ Running(Main) /\ pc[Main] = "init"
    /\ undo' = disable(platform)
    /\ To(Main, "issue")
    /\ UNCHANGED <<platform, k, cmd, ret, suspended, lock, rules, clean, registered, ends, failed>>

(* iptables, ipfw: a rule is issued *)
iptables ==
    /\ pc[Main] = "issue" /\ Logged(Main)
    /\ \/ Fail(Main, enable[k[Main]])
       \/ /\ rules' = rules \cup enable[k[Main]]
          /\ k' = [k EXCEPT ![Main] = @ + 1]
          /\ To(Main, IF k[Main] < Len(enable) THEN "issue" ELSE "dirty")
          /\ UNCHANGED <<undo, clean, registered, failed>>
    /\ UNCHANGED <<platform, cmd, ret, suspended, ends>>

set_dirty ==
    /\ Running(Main) /\ pc[Main] = "dirty"
    /\ clean' = FALSE
    /\ To(Main, "atexit")
    /\ UNCHANGED <<platform, k, cmd, ret, suspended, lock, rules, undo, registered, ends, failed>>

(* Mutant: the clean-up is not registered. *)
atexit_Forget ==
    /\ Running(Main) /\ pc[Main] = "atexit"
    /\ To(Main, "socket")
    /\ UNCHANGED <<platform, k, cmd, ret, suspended, lock, rules, undo, clean, registered, ends, failed>>

atexit ==
    /\ Running(Main) /\ pc[Main] = "atexit"
    /\ registered' = TRUE
    /\ To(Main, "socket")
    /\ UNCHANGED <<platform, k, cmd, ret, suspended, lock, rules, undo, clean, ends, failed>>

(* The socket for injection, which only Linux has, may fail. *)
inject_socket ==
    /\ Running(Main) /\ pc[Main] = "socket"
    /\ \/ To(Main, "run")
       \/ platform = "linux" /\ Fails /\ To(Main, "error")
    /\ UNCHANGED <<platform, k, cmd, ret, suspended, lock, stateVars, ends, failed>>

-----------------------------------------------------------------------------
MayEnd == ends < MaxEnd /\ (Early \/ pc[Main] = "run")

(* iptables_undo_on_signal interrupts thread or handler a. *)
Signal(s, a) ==
    /\ MayEnd /\ pc[Main] # "init"
    /\ pc[s] = "none" /\ (s > 1 => pc[s - 1] # "none")
    /\ Running(a) /\ pc[a] # "none"
    /\ suspended' = suspended \cup {a}
    /\ pc' = [pc EXCEPT ![s] = "log"]
    /\ ends' = ends + 1
    /\ UNCHANGED <<platform, k, cmd, ret, lock, stateVars, failed>>

iptables_undo_on_signal(s) ==
    /\ pc[s] = "log" /\ Logged(s)
    /\ To(s, "flush") /\ ret' = [ret EXCEPT ![s] = "error"]
    /\ UNCHANGED <<platform, k, cmd, suspended, stateVars, ends, failed>>

user_exit ==
    /\ Running(Ui) /\ pc[Ui] = "serve" /\ lock # Ui /\ MayEnd
    /\ To(Ui, "quit")
    /\ ends' = ends + 1
    /\ UNCHANGED <<platform, k, cmd, ret, suspended, lock, stateVars, failed>>

(* exit calls a registered function once, and ends the process. *)
quit(a) ==
    /\ Running(a) /\ pc[a] = "quit"
    /\ ret' = [ret EXCEPT ![a] = "gone"]
    /\ registered' = FALSE
    /\ To(a, IF registered THEN "flush" ELSE "gone")
    /\ UNCHANGED <<platform, k, cmd, suspended, lock, rules, undo, clean, ends, failed>>

error(a) ==
    /\ pc[a] = "error" /\ Logged(a)
    /\ To(a, "quit")
    /\ UNCHANGED <<platform, k, cmd, ret, suspended, stateVars, ends, failed>>

(* iptables_undo_flush *)
iptables_undo_flush(a) ==
    /\ Running(a) /\ pc[a] = "flush"
    /\ To(a, IF clean THEN ret[a] ELSE "next")
    /\ k' = [k EXCEPT ![a] = 1]
    /\ UNCHANGED <<platform, cmd, ret, suspended, lock, stateVars, ends, failed>>

UndoNext(a) ==
    /\ Running(a) /\ pc[a] = "next"
    /\ LET more == k[a] <= Len(undo) /\ undo[k[a]] # {}
       IN  /\ To(a, IF more THEN "exec" ELSE "done")
           /\ cmd' = [cmd EXCEPT ![a] = IF more THEN undo[k[a]] ELSE {}]
    /\ UNCHANGED <<platform, k, ret, suspended, lock, stateVars, ends, failed>>

(* A command that is to remove a rule that is not there fails. *)
UndoExec(a) ==
    /\ pc[a] = "exec" /\ Logged(a)
    /\ \/ Fail(a, cmd[a])
       \/ /\ rules' = rules \ cmd[a]
          /\ To(a, IF cmd[a] \subseteq rules THEN "null" ELSE "error")
          /\ UNCHANGED <<k, undo, clean, registered, failed>>
    /\ UNCHANGED <<platform, cmd, ret, suspended, ends>>

(* FreeBSD has one command and no list. *)
UndoNull(a) ==
    /\ Running(a) /\ pc[a] = "null"
    /\ undo' = IF platform = "linux" THEN [undo EXCEPT ![k[a]] = {}] ELSE undo
    /\ k' = [k EXCEPT ![a] = @ + 1]
    /\ To(a, "next")
    /\ UNCHANGED <<platform, cmd, ret, suspended, lock, rules, clean, registered, ends, failed>>

UndoDone(a) ==
    /\ Running(a) /\ pc[a] = "done"
    /\ clean' = TRUE
    /\ To(a, ret[a])
    /\ UNCHANGED <<platform, k, cmd, ret, suspended, lock, rules, undo, registered, ends, failed>>

-----------------------------------------------------------------------------
MainStep == init_capture \/ iptables \/ set_dirty \/ atexit \/ inject_socket

EndStep(a) ==
    \/ Lock(a) \/ log_message(a) \/ quit(a) \/ error(a) \/ iptables_undo_flush(a)
    \/ UndoNext(a) \/ UndoExec(a) \/ UndoNull(a) \/ UndoDone(a)

Next ==
    \/ MainStep
    \/ user_exit
    \/ \E s \in Handler : iptables_undo_on_signal(s) \/ \E a \in Actor : Signal(s, a)
    \/ \E a \in Actor : EndStep(a)

Spec == Init /\ [][Next]_vars

(* Threads and handlers that can run are scheduled, and get a lock that others release
   again and again; signals and the user are free. *)
FairSpec ==
    /\ Spec
    /\ WF_vars(MainStep)
    /\ \A a \in Actor : SF_vars(EndStep(a))
    /\ \A s \in Handler : WF_vars(iptables_undo_on_signal(s))

-----------------------------------------------------------------------------
(* "The issued commands are cleaned up when this program exits."
   (linux/capture.c:25-26): when the process is gone no rule is left, except one
   whose own command failed. *)
CleanedUp == Gone => rules \subseteq failed

(* The program ends after the user quits (client.c:238-241). *)
QuitExits == pc[Ui] = "quit" ~> Gone

=============================================================================
