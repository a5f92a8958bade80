-------------------------- MODULE ConfigFileProofs --------------------------
(***************************************************************************)
(* Theorems about ConfigFile, for any number of concurrent init and        *)
(* set-credential commands, kills and power losses.                        *)
(***************************************************************************)
EXTENDS ConfigFile, TLAPS

\* The command is past its start and still runs.
Busy(p) == pc[p] \notin {"start", "done", "killed"}

CredentialOf(i) == IF i \in Setters THEN i ELSE None

\* Inode i is completely written, in the cache and on disk.
Whole(i) ==
    /\ cached[i] \in Config
    /\ disk[i] = cached[i]
    /\ cached[i].credential = CredentialOf(i)

\* What each command is about to write, and how far it has got with it.
CommandInv ==
    \A p \in Procs :
       /\ result[p] # "none" => pc[p] = "done"
       /\ Busy(p) => /\ cfg[p] \in Config
                     /\ cfg[p].credential = CredentialOf(p)
                     /\ p \in Inits => cfg[p].url = p
       /\ pc[p] \in {"sync", "install", "syncdir"} => cached[p] = cfg[p]
       /\ pc[p] \in {"install", "syncdir"} => disk[p] = cached[p]
       /\ p \in {path, diskPath} =>
             pc[p] \in {"syncdir", "remove", "fail", "done", "killed"}

\* Only whole files are ever installed.
InstalledInv ==
    /\ path # None => Whole(path)
    /\ diskPath # None => Whole(diskPath)

\* The path on disk lags behind but names the same url; a set-credential under
\* way carries that url.
UrlInv ==
    /\ diskPath # None =>
          /\ path # None
          /\ cached[diskPath].url = cached[path].url
          /\ order[diskPath] <= order[path]
          /\ diskPath \in Setters => path \in Setters
    /\ \A s \in Setters : Busy(s) => path # None /\ cfg[s].url = cached[path].url
    /\ ~fresh => dir = "disk"

\* Inode i holds the outcome of command p, or of a later command.
Holds(i, p) ==
    /\ i # None
    /\ order[p] <= order[i]
    /\ p \in Inits => cached[i].url = p
    /\ p \in Setters => i \in Setters

\* An installed file is held by the path, a synced one by the path on disk.
AckInv ==
    \A p \in Procs :
       /\ pc[p] = "syncdir" => Holds(path, p)
       /\ pc[p] = "remove" => Holds(diskPath, p)
       /\ result[p] = "ok" /\ ~fresh => Holds(diskPath, p)

Inv == TypeOK /\ CommandInv /\ InstalledInv /\ UrlInv /\ AckInv

USE ConfigAssumption DEF Procs, Inodes

\* Before any command has started only an earlier, whole file may be there.
LEMMA InitInv == Init => Inv
<1> SUFFICES ASSUME Init PROVE Inv
  OBVIOUS
<1> DEFINE old == [url |-> Old, credential |-> None]
<1>1. old \in Config /\ old.credential = None
  BY DEF Config
<1>2. /\ path \in {Old, None}
      /\ diskPath = path
      /\ dir \in {"missing", "disk"}
      /\ fresh \in BOOLEAN
      /\ ~fresh => dir = "disk"
      /\ cached = [i \in Inodes |-> IF i = Old /\ path = Old THEN old ELSE None]
      /\ disk = cached
      /\ order = [i \in Inodes |-> IF i = Old /\ path = Old THEN 1 ELSE 0]
  BY DEF Init
<1>3. TypeOK
  BY <1>1, <1>2 DEF Init, TypeOK, Content
<1>4. /\ \A p \in Procs : pc[p] = "start" /\ result[p] = "none"
      /\ \A p \in Procs : p \notin {path, diskPath}
  BY <1>2 DEF Init
<1>5. CommandInv /\ AckInv
  BY <1>4 DEF CommandInv, AckInv, Busy
<1>6. InstalledInv
  BY <1>1, <1>2 DEF InstalledInv, Whole, CredentialOf
<1>7. UrlInv
  BY <1>2 DEF Init, UrlInv, Busy
<1> QED BY <1>3, <1>5, <1>6, <1>7 DEF Inv

\* The steps of a command up to the complete temporary file.
LEMMA PrepareInv ==
    ASSUME Inv, NEW p \in Procs,
           StartInit(p) \/ StartSetCredential(p) \/ MkdirAll(p) \/ CreateTemp(p)
              \/ WriteTemp(p) \/ SyncTemp(p)
    PROVE  Inv'
<1> USE DEF Inv, TypeOK, CommandInv, InstalledInv, UrlInv, AckInv, Whole, Holds,
            Busy, CredentialOf, Config, Content, goto, finish, storage
<1>1. CASE StartInit(p) BY <1>1 DEF StartInit
<1>2. CASE StartSetCredential(p) BY <1>2 DEF StartSetCredential, Loads
<1>3. CASE MkdirAll(p) BY <1>3 DEF MkdirAll
<1>4. CASE CreateTemp(p) BY <1>4 DEF CreateTemp
<1>5. CASE WriteTemp(p) BY <1>5 DEF WriteTemp
<1>6. CASE SyncTemp(p) BY <1>6 DEF SyncTemp
<1> QED BY <1>1, <1>2, <1>3, <1>4, <1>5, <1>6

\* The steps that install the file and acknowledge it.
LEMMA InstallInv ==
    ASSUME Inv, NEW p \in Procs,
           Rename(p) \/ Link(p) \/ SyncDirectory(p) \/ Fail(p) \/ RemoveTemp(p) \/ Kill(p)
    PROVE  Inv'
<1> USE DEF Inv, TypeOK, CommandInv, InstalledInv, UrlInv, AckInv, Whole, Holds,
            Busy, CredentialOf, Config, Content, goto, finish, storage, install, latest
<1>1. CASE Rename(p) BY <1>1 DEF Rename
<1>2. CASE Link(p) BY <1>2 DEF Link
<1>3. CASE SyncDirectory(p) BY <1>3 DEF SyncDirectory
<1>4. CASE Fail(p) BY <1>4 DEF Fail
<1>5. CASE RemoveTemp(p) BY <1>5 DEF RemoveTemp
<1>6. CASE Kill(p) BY <1>6 DEF Kill, running
<1> QED BY <1>1, <1>2, <1>3, <1>4, <1>5, <1>6

\* Write-back and power loss.
LEMMA EnvironmentInv ==
    ASSUME Inv, (\E i \in Inodes : WriteBackFile(i)) \/ WriteBackDirectory \/ PowerLoss
    PROVE  Inv'
<1> USE DEF Inv, TypeOK, CommandInv, InstalledInv, UrlInv, AckInv, Whole, Holds,
            Busy, CredentialOf, Config, Content, process
<1>1. CASE \E i \in Inodes : WriteBackFile(i) BY <1>1 DEF WriteBackFile
<1>2. CASE WriteBackDirectory BY <1>2 DEF WriteBackDirectory
<1>3. CASE PowerLoss BY <1>3 DEF PowerLoss, running
<1> QED BY <1>1, <1>2, <1>3

\* Nothing happens.
LEMMA StutterInv ==
    ASSUME Inv, UNCHANGED vars
    PROVE  Inv'
BY DEF Inv, TypeOK, CommandInv, InstalledInv, UrlInv, AckInv, Whole, Holds,
       Busy, CredentialOf, vars

\* Inv holds in every reachable state of the commands and of the file system.
THEOREM Invariance == Spec => []Inv
<1>1. Init => Inv BY InitInv
<1>2. Inv /\ [Next]_vars => Inv'
  BY PrepareInv, InstallInv, EnvironmentInv, StutterInv DEF Next
<1> QED BY <1>1, <1>2, PTL DEF Spec

\* The path always names a whole configuration or nothing.
THEOREM AlwaysWhole == Spec => [](TypeOK /\ WholeConfig)
<1>1. Inv => TypeOK /\ WholeConfig
  BY DEF Inv, InstalledInv, Whole, WholeConfig
<1> QED BY <1>1, Invariance, PTL

\* What Write acknowledged survives every crash (AckDurable).
THEOREM Durable == Spec => []AckDurable
<1>1. Inv => AckDurable
  BY DEF Inv, TypeOK, InstalledInv, UrlInv, AckInv, Whole, Holds, CredentialOf, AckDurable
<1> QED BY <1>1, Invariance, PTL

\* The url of a successful init is never replaced (InitSticks), by a racing
\* init or by a set-credential that loaded an earlier file.
THEOREM InitIsKept == Spec => []InitSticks
<1>1. Inv => InitSticks
  BY DEF Inv, TypeOK, InstalledInv, UrlInv, AckInv, Whole, Holds, InitSticks
<1> QED BY <1>1, Invariance, PTL
=============================================================================
