----------------------------- MODULE SavedFile ------------------------------
(***************************************************************************)
(* The configuration in memory and on disk (config.c, install.c), across   *)
(* crashes and restarts.  The user interface thread publishes a posted     *)
(* configuration under config_lock, then writes it: the old file is moved  *)
(* to the backup, a temporary file is written option by option and moved   *)
(* into place.  A start installs a default file if there is none and then  *)
(* reads the file, or the backup if the file cannot be opened.  A worker   *)
(* copies the configuration in memory for each packet.  tunnel_file_write  *)
(* and tunnel_file_read (tunnel.c) treat the tunnel cache the same way.    *)
(*                                                                         *)
(* A file is the options it holds so far; the posted configurations give   *)
(* all options the same value, so that a mixture of two shows.             *)
(***************************************************************************)
CONSTANTS
    Option,      \* the variables of a configuration file
    Value,       \* their values
    DefaultVal,  \* the value of every option in config_default
    Worker,      \* worker threads
    Crashes,     \* may the program be stopped at any point?
    FopenFails,  \* may a file fail to open for writing?
    None         \* no file, no configuration

VARIABLES
    disk,         \* the file, its backup and the temporary file
    main,         \* what the start-up and user interface thread does
    config,       \* the configuration in memory
    config_lock,  \* holder of the mutex, or None
    temp,         \* config_temp: the configuration posted last
    got,          \* got[w]: the copy worker w has made so far
    saved         \* history: the configuration last loaded or put in place

vars == <<disk, main, config, config_lock, temp, got, saved>>

-----------------------------------------------------------------------------
Setting == {[o \in Option |-> v] : v \in Value}

config_default == [o \in Option |-> DefaultVal]

Contents == UNION {[O -> Value] : O \in SUBSET Option}

ASSUME ValueAssumption == DefaultVal \in Value /\ None \notin Contents

(* The holders of the mutex, and nobody, can be told apart. *)
ASSUME HolderAssumption == None \notin Worker \cup {"main"} /\ "main" \notin Worker

Empty == [o \in {} |-> DefaultVal]

(* The options of d that the file does not set keep their value. *)
load_config(file, d) ==
    [o \in Option |-> IF o \in DOMAIN file THEN file[o] ELSE d[o]]

(* The options `file' and, after them, the option o as `from' has it. *)
Put(file, o, from) ==
    [x \in DOMAIN file \cup {o} |-> IF x = o THEN from[o] ELSE file[x]]

Init ==
    /\ disk = [f \in {"file", "bak", "tmp"} |-> None]
    /\ main = "down"
    /\ config = config_default
    /\ config_lock = None
    /\ temp = config_default
    /\ got = [w \in Worker |-> None]
    /\ saved = config_default

Goto(from, to) == main = from /\ main' = to

-----------------------------------------------------------------------------
(* Start: install_files, then config_init. *)

(* Mutant: the default file is installed at every start. *)
install_files_Always ==
    /\ Goto("down", "install")
    /\ UNCHANGED <<disk, config, config_lock, temp, got, saved>>

install_files ==
    /\ Goto("down", IF disk["file"] = None THEN "install" ELSE "read")
    /\ UNCHANGED <<disk, config, config_lock, temp, got, saved>>

install_file_fopen ==
    /\ Goto("install", "fputs")
    /\ disk' = [disk EXCEPT !["file"] = Empty]
    /\ UNCHANGED <<config, config_lock, temp, got, saved>>

install_file_fails ==
    /\ FopenFails
    /\ Goto("install", "read")
    /\ UNCHANGED <<disk, config, config_lock, temp, got, saved>>

install_file_fputs ==
    \/ /\ Goto("fputs", "fputs")
       /\ \E o \in Option \ DOMAIN disk["file"] :
            disk' = [disk EXCEPT !["file"] = Put(@, o, config_default)]
       /\ UNCHANGED <<config, config_lock, temp, got, saved>>
    \/ /\ Goto("fputs", "read")
       /\ DOMAIN disk["file"] = Option
       /\ UNCHANGED <<disk, config, config_lock, temp, got, saved>>

(* The first of the two files that can be opened; neither: the defaults. *)
ReadFrom ==
    IF disk["file"] # None THEN disk["file"]
    ELSE IF disk["bak"] # None THEN disk["bak"] ELSE Empty

read_config ==
    /\ Goto("read", "idle")
    /\ config' = load_config(ReadFrom, config_default)
    /\ saved' = config'
    /\ UNCHANGED <<disk, config_lock, temp, got>>

-----------------------------------------------------------------------------
(* config_callback, for a request that saves a new configuration *)

config_callback ==
    /\ Goto("idle", "lock")
    /\ temp' \in Setting
    /\ UNCHANGED <<disk, config, config_lock, got, saved>>

config_callback_lock ==
    /\ config_lock = None
    /\ Goto("lock", "memmove")
    /\ config_lock' = "main"
    /\ UNCHANGED <<disk, config, temp, got, saved>>

(* memmove copies one option after the other. *)
config_callback_memmove ==
    \/ \E o \in Option :
         /\ config[o] # temp[o]
         /\ Goto("memmove", "memmove")
         /\ config' = [config EXCEPT ![o] = temp[o]]
         /\ UNCHANGED <<disk, config_lock, temp, got, saved>>
    \/ /\ config = temp
       /\ Goto("memmove", "backup")
       /\ config_lock' = None
       /\ UNCHANGED <<disk, config, temp, got, saved>>

(* rename(FILE, BAK); without a file it fails with ENOENT, which is ignored *)
write_config_backup ==
    /\ Goto("backup", "fopen")
    /\ disk' = IF disk["file"] = None THEN disk
               ELSE [disk EXCEPT !["bak"] = disk["file"], !["file"] = None]
    /\ UNCHANGED <<config, config_lock, temp, got, saved>>

write_config_fopen ==
    /\ Goto("fopen", "fprintf")
    /\ disk' = [disk EXCEPT !["tmp"] = Empty]
    /\ UNCHANGED <<config, config_lock, temp, got, saved>>

write_config_fails ==
    /\ FopenFails
    /\ Goto("fopen", "idle")
    /\ UNCHANGED <<disk, config, config_lock, temp, got, saved>>

write_config_fprintf ==
    \/ /\ Goto("fprintf", "fprintf")
       /\ \E o \in Option \ DOMAIN disk["tmp"] :
            disk' = [disk EXCEPT !["tmp"] = Put(@, o, temp)]
       /\ UNCHANGED <<config, config_lock, temp, got, saved>>
    \/ /\ Goto("fprintf", "rename")
       /\ DOMAIN disk["tmp"] = Option
       /\ UNCHANGED <<disk, config, config_lock, temp, got, saved>>

write_config_rename ==
    /\ Goto("rename", "idle")
    /\ disk' = [disk EXCEPT !["file"] = disk["tmp"], !["tmp"] = None]
    /\ saved' = temp
    /\ UNCHANGED <<config, config_lock, temp, got>>

-----------------------------------------------------------------------------
(* config_get, by a worker *)

Running == main \notin {"down", "install", "fputs", "read"}

(* Mutant: the copy is made without the lock. *)
config_get_lock_None(w) ==
    /\ Running
    /\ got[w] = None
    /\ got' = [got EXCEPT ![w] = Empty]
    /\ UNCHANGED <<disk, main, config, config_lock, temp, saved>>

config_get_lock(w) ==
    /\ Running
    /\ config_lock = None
    /\ got[w] = None
    /\ config_lock' = w
    /\ got' = [got EXCEPT ![w] = Empty]
    /\ UNCHANGED <<disk, main, config, temp, saved>>

config_get_memmove(w) ==
    /\ got[w] # None
    /\ \E o \in Option \ DOMAIN got[w] :
         got' = [got EXCEPT ![w] = Put(@, o, config)]
    /\ UNCHANGED <<disk, main, config, config_lock, temp, saved>>

config_get_unlock(w) ==
    /\ got[w] # None /\ DOMAIN got[w] = Option
    /\ config_lock' = IF config_lock = w THEN None ELSE config_lock
    /\ got' = [got EXCEPT ![w] = None]
    /\ UNCHANGED <<disk, main, config, temp, saved>>

-----------------------------------------------------------------------------
(* The program is stopped (a signal, the exit button, a failure) at any
   point.  The files stay as they are. *)
Crash ==
    /\ Crashes
    /\ main # "down"
    /\ main' = "down"
    /\ config' = config_default
    /\ config_lock' = None
    /\ got' = [w \in Worker |-> None]
    /\ UNCHANGED <<disk, temp, saved>>

Next ==
    \/ install_files \/ install_file_fopen \/ install_file_fails \/ install_file_fputs
    \/ read_config
    \/ config_callback \/ config_callback_lock \/ config_callback_memmove
    \/ write_config_backup \/ write_config_fopen \/ write_config_fails
    \/ write_config_fprintf \/ write_config_rename
    \/ \E w \in Worker :
         config_get_lock(w) \/ config_get_memmove(w) \/ config_get_unlock(w)
    \/ Crash

Spec == Init /\ [][Next]_vars

-----------------------------------------------------------------------------
TypeOK ==
    /\ disk \in [{"file", "bak", "tmp"} -> Contents \cup {None}]
    /\ main \in {"down", "install", "fputs", "read", "idle", "lock", "memmove",
                 "backup", "fopen", "fprintf", "rename"}
    /\ config \in [Option -> Value]
    /\ config_lock \in Worker \cup {"main", None}
    /\ {temp, saved} \subseteq Setting
    /\ got \in [Worker -> Contents \cup {None}]

(* What a start would load now, if it can install the default file. *)
Recovered ==
    load_config(IF disk["file"] = None THEN Empty ELSE disk["file"], config_default)

Saving == main \in {"lock", "memmove", "backup", "fopen", "fprintf", "rename"}

(* Whenever the program is stopped, the next start loads one whole
   configuration: never some options of one save and some of another, although
   write_config and install_file write a file option by option and read_config
   accepts a truncated file. *)
NeverMixed == Recovered \in Setting

(* While the program runs, the configuration it loaded or saved last is whole in
   the file or in the backup: write_config never gives up the only good copy,
   however often it fails. *)
BackupKept ==
    Running /\ saved # config_default =>
        \E f \in {"file", "bak"} :
            disk[f] # None /\ load_config(disk[f], config_default) = saved

(* A worker never filters a packet by half of one configuration and half of
   another (config_get and config_callback both hold config_lock). *)
WorkerSeesWhole ==
    \A w \in Worker : got[w] # None /\ DOMAIN got[w] = Option => got[w] \in Setting

(* The files behave like a single durable configuration that a save replaces. *)
Atomic == INSTANCE AtomicFile WITH
    Configuration <- Setting,
    Default <- config_default,
    durable <- Recovered,
    saving <- IF Saving THEN temp ELSE None

(* write_config, install_files and read_config implement AtomicFile: only a save
   changes what the next start loads, and a start does not. *)
ImplementsAtomicFile == Atomic!Spec

(* A start finds the configuration that was saved last, or the one that was being
   saved when the program stopped: read_config says that it "will use backup
   configuration file" when the file is not there. *)
BackupUsed == [][main = "read" /\ main' = "idle" => config' \in {saved, temp}]_vars

=============================================================================
