----------------------------- MODULE ConfigFile -----------------------------
(***************************************************************************)
(* The command line client's configuration file: `pcr config init` and     *)
(* `pcr config set-credential` run concurrently as processes, each writing *)
(* a temporary file and installing it at the configuration path, while     *)
(* processes may be killed and the machine may lose power.                 *)
(*                                                                         *)
(* The file system is external.  What processes see (the page cache) and   *)
(* what is on disk are separate; write-back may happen at any moment and   *)
(* fsync forces it.  A configuration is the url and the credential it      *)
(* holds, each named by the process that supplied it.  The temporary file  *)
(* of process p is the inode p; Old is the file that was there before.     *)
(* Temporary names and file modes are left out.                            *)
(***************************************************************************)
EXTENDS Naturals

CONSTANTS
    Inits,        \* processes that run `pcr config init`
    Setters,      \* processes that run `pcr config set-credential`
    Old,          \* the inode and the supplier of an earlier configuration
    Partial,      \* the content of a file that is not completely written
    None

Procs == Inits \cup Setters
Inodes == Procs \cup {Old}

ASSUME ConfigAssumption ==
    /\ Inits \cap Setters = {}
    /\ Old \notin Procs
    /\ None \notin Inodes

VARIABLES
    pc,        \* where each process stands in its command
    cfg,       \* the configuration each process is about to write
    result,    \* "none", "ok" or "error": what each command reported
    dir,       \* the directory: "missing", "cached" or "disk"
    fresh,     \* the directory was missing at the start
    cached,    \* per inode: its content in the page cache
    disk,      \* per inode: its content on disk
    path,      \* the inode the configuration path names, or None
    diskPath,  \* the same on disk
    order      \* history: how many installs came up to each inode's, or 0

vars == <<pc, cfg, result, dir, fresh, cached, disk, path, diskPath, order>>

process == <<pc, cfg, result>>
storage == <<dir, cached, disk, path, diskPath, order>>

Config == [url : Inits \cup {Old}, credential : Setters \cup {Old, None}]

\* A file is created empty and is Partial until Write has returned.
Content == Config \cup {Partial, None}

Init ==
    /\ pc = [p \in Procs |-> "start"]
    /\ cfg = [p \in Procs |-> None]
    /\ result = [p \in Procs |-> "none"]
    /\ \E missing, old \in BOOLEAN :
          /\ ~(missing /\ old)
          /\ dir = IF missing THEN "missing" ELSE "disk"
          /\ fresh = missing
          /\ path = IF old THEN Old ELSE None
          /\ cached = [i \in Inodes |->
                          IF i = Old /\ old
                          THEN [url |-> Old, credential |-> None] ELSE None]
          /\ order = [i \in Inodes |-> IF i = Old /\ old THEN 1 ELSE 0]
    /\ disk = cached
    /\ diskPath = path

-----------------------------------------------------------------------------
(* The two commands *)

goto(p, l) == pc' = [pc EXCEPT ![p] = l]

\* The command reports its outcome once the deferred removal of the
\* temporary file has run.
finish(p, res) ==
    /\ goto(p, "done")
    /\ result' = [result EXCEPT ![p] = res]

\* ConfigInitCommand.Run: a configuration with a url and no credential.
StartInit(p) ==
    /\ pc[p] = "start"
    /\ p \in Inits
    /\ cfg' = [cfg EXCEPT ![p] = [url |-> p, credential |-> None]]
    /\ goto(p, "mkdir")
    /\ UNCHANGED <<result, fresh, storage>>

\* Load with required: the file exists, decodes and is valid.
Loads == path # None /\ cached[path] \in Config

\* ConfigSetCredentialCommand.Run: Load must find a configuration, then
\* ReadCredential supplies the credential.
StartSetCredential(p) ==
    /\ pc[p] = "start"
    /\ p \in Setters
    /\ IF Loads
       THEN /\ cfg' = [cfg EXCEPT ![p] =
                          [url |-> cached[path].url, credential |-> p]]
            /\ goto(p, "mkdir")
            /\ UNCHANGED result
       ELSE finish(p, "error") /\ UNCHANGED cfg
    /\ UNCHANGED <<fresh, storage>>

-----------------------------------------------------------------------------
(* Write *)

\* os.MkdirAll.
MkdirAll(p) ==
    /\ pc[p] = "mkdir"
    /\ dir' = IF dir = "missing" THEN "cached" ELSE dir
    /\ goto(p, "create")
    /\ UNCHANGED <<cfg, result, fresh, cached, disk, path, diskPath, order>>

\* os.CreateTemp: a new, empty file under a name of its own.
CreateTemp(p) ==
    /\ pc[p] = "create"
    /\ cached' = [cached EXCEPT ![p] = Partial]
    /\ disk' = [disk EXCEPT ![p] = Partial]
    /\ goto(p, "write")
    /\ UNCHANGED <<cfg, result, fresh, dir, path, diskPath, order>>

\* writeTemporaryFile: Chmod and Write.
WriteTemp(p) ==
    /\ pc[p] = "write"
    /\ cached' = [cached EXCEPT ![p] = cfg[p]]
    /\ goto(p, "sync")
    /\ UNCHANGED <<cfg, result, fresh, dir, disk, path, diskPath, order>>

\* Mutant: the temporary file is not synced.
SyncTemp_Skipped(p) ==
    /\ pc[p] = "sync"
    /\ goto(p, "install")
    /\ UNCHANGED <<cfg, result, fresh, storage>>

\* writeTemporaryFile: Sync and Close.
SyncTemp(p) ==
    /\ pc[p] = "sync"
    /\ disk' = [disk EXCEPT ![p] = cached[p]]
    /\ goto(p, "install")
    /\ UNCHANGED <<cfg, result, fresh, dir, cached, path, diskPath, order>>

latest == IF path = None THEN 0 ELSE order[path]

\* The path names p's file from here on.
install(p) ==
    /\ path' = p
    /\ order' = [order EXCEPT ![p] = latest + 1]
    /\ goto(p, "syncdir")
    /\ UNCHANGED result

\* installFile with replace: os.Rename.
Rename(p) ==
    /\ pc[p] = "install"
    /\ p \in Setters
    /\ install(p)
    /\ UNCHANGED <<cfg, fresh, dir, cached, disk, diskPath>>

\* Mutant: the file is renamed in both cases.
Link_Rename(p) ==
    /\ pc[p] = "install"
    /\ p \in Inits
    /\ install(p)
    /\ UNCHANGED <<cfg, fresh, dir, cached, disk, diskPath>>

\* installFile without replace: os.Link refuses an existing path.
Link(p) ==
    /\ pc[p] = "install"
    /\ p \in Inits
    /\ IF path = None
       THEN install(p)
       ELSE /\ goto(p, "fail")
            /\ UNCHANGED <<path, order, result>>
    /\ UNCHANGED <<cfg, fresh, dir, cached, disk, diskPath>>

\* Mutant: the directory is not synced.
SyncDirectory_Skipped(p) ==
    /\ pc[p] = "syncdir"
    /\ goto(p, "remove")
    /\ UNCHANGED <<cfg, result, fresh, storage>>

\* syncDirectory forces the directory's entries to disk; it does not force
\* the directory's own entry in its parent.
SyncDirectory(p) ==
    /\ pc[p] = "syncdir"
    /\ diskPath' = path
    /\ goto(p, "remove")
    /\ UNCHANGED <<cfg, result, fresh, dir, cached, disk, path, order>>

\* The input is refused or an operation of Write fails: an error is reported,
\* whatever was installed.
Fail(p) ==
    /\ pc[p] \in {"mkdir", "create", "write", "sync", "install", "syncdir"}
    /\ goto(p, "fail")
    /\ UNCHANGED <<cfg, result, fresh, storage>>

\* The deferred os.Remove of the temporary name; Write returns.
RemoveTemp(p) ==
    /\ pc[p] \in {"remove", "fail"}
    /\ finish(p, IF pc[p] = "remove" THEN "ok" ELSE "error")
    /\ UNCHANGED <<cfg, fresh, dir, cached, disk, path, diskPath, order>>

-----------------------------------------------------------------------------
(* The environment: write-back, killed processes and power loss *)

WriteBackFile(i) ==
    /\ disk[i] # cached[i]
    /\ disk' = [disk EXCEPT ![i] = cached[i]]
    /\ UNCHANGED <<process, fresh, dir, cached, path, diskPath, order>>

WriteBackDirectory ==
    /\ diskPath # path \/ dir = "cached"
    /\ diskPath' = path
    /\ dir' = IF dir = "cached" THEN "disk" ELSE dir
    /\ UNCHANGED <<process, fresh, cached, disk, path, order>>

running == {p \in Procs : pc[p] \notin {"start", "done", "killed"}}

Kill(p) ==
    /\ p \in running
    /\ goto(p, "killed")
    /\ UNCHANGED <<cfg, result, fresh, storage>>

\* Only what is on disk survives: everything in a directory whose own entry
\* was not written back is gone.
PowerLoss ==
    /\ pc' = [p \in Procs |-> IF p \in running THEN "killed" ELSE pc[p]]
    /\ dir' = IF dir = "disk" THEN "disk" ELSE "missing"
    /\ diskPath' = IF dir = "disk" THEN diskPath ELSE None
    /\ path' = diskPath'
    /\ cached' = disk
    /\ UNCHANGED <<cfg, result, fresh, disk, order>>

Next ==
    \/ \E p \in Procs :
          \/ StartInit(p) \/ StartSetCredential(p)
          \/ MkdirAll(p) \/ CreateTemp(p) \/ WriteTemp(p) \/ SyncTemp(p)
          \/ Rename(p) \/ Link(p) \/ SyncDirectory(p) \/ Fail(p) \/ RemoveTemp(p)
          \/ Kill(p)
    \/ \E i \in Inodes : WriteBackFile(i)
    \/ WriteBackDirectory
    \/ PowerLoss

Spec == Init /\ [][Next]_vars

-----------------------------------------------------------------------------
(* Properties *)

\* Type invariant.
TypeOK ==
    /\ pc \in [Procs -> {"start", "mkdir", "create", "write", "sync", "install",
                         "syncdir", "remove", "fail", "done", "killed"}]
    /\ cfg \in [Procs -> Config \cup {None}]
    /\ result \in [Procs -> {"none", "ok", "error"}]
    /\ dir \in {"missing", "cached", "disk"}
    /\ fresh \in BOOLEAN
    /\ cached \in [Inodes -> Content]
    /\ disk \in [Inodes -> Content]
    /\ path \in Inodes \cup {None}
    /\ diskPath \in Inodes \cup {None}
    /\ order \in [Inodes -> Nat]

\* "Write atomically stores cfg": whatever is killed or loses power, the path
\* names a whole configuration or nothing, in memory and on disk.
WholeConfig ==
    /\ path # None => cached[path] \in Config
    /\ diskPath # None => disk[diskPath] \in Config

\* "When replace is false, an existing file is preserved", and set-credential
\* rewrites what it loaded: once init has reported success its url stays the
\* configured one for every later init, set-credential, crash and power loss.
\* In particular at most one init succeeds.
InitSticks ==
    \A p \in Inits : result[p] = "ok" /\ ~fresh =>
       /\ path # None /\ cached[path].url = p
       /\ diskPath # None /\ disk[diskPath].url = p

\* A command that reported success is on disk, itself or replaced by a later
\* one, and a credential once reported as configured is never missing.  In a
\* directory that Write itself created this needs the parent's write-back too.
AckDurable ==
    \A p \in Procs : result[p] = "ok" /\ ~fresh =>
       /\ diskPath # None
       /\ order[diskPath] >= order[p]
       /\ p \in Setters => disk[diskPath].credential # None
=============================================================================
