---------------------------- MODULE SummaryCache ----------------------------
(* The frontend cache (internal/cache/cache.go) as the file system sees it.  *)
(* Read, Write and Clean are sequences of system calls on one directory that *)
(* any number of worker goroutines and verifier processes use at once, with  *)
(* no lock.  A process may be killed between any two calls; a call may fail; *)
(* bytes on disk may be damaged; a random temporary name may be used again   *)
(* by another writer as soon as it is free.                                  *)
(*                                                                           *)
(* Names are entries of the directory: the final names (one per key), the    *)
(* temporary ones and the others, which only the user gives to files.  Under *)
(* any name the user may have a directory or a symbolic link of his own.  An *)
(* inode is a regular file; it lives while a name or an open descriptor      *)
(* refers to it.                                                             *)
EXTENDS Naturals, FiniteSets

CONSTANTS Procs, Keys, Summaries, Temps, Foreign,
          Suffixed,   \* the names that end with ".json"
          HexStem,    \* the names that are 64 hex digits, but for such an ending
          Inodes,     \* the inode numbers, a set of naturals
          Folder, Link,  \* a directory, a symbolic link out of the directory
          NoInode, Junk, Miss, Torn,
          Layouts,    \* what the user may have in the directory at the start
          Faults,     \* a subset of {"damage", "io", "reuse", "user"}
          MaxMishaps, \* bound: how often a process is killed or cannot
                      \* remove its temporary file
          MaxTaken,   \* bound: how many final names the user takes at a time
          Roles       \* what each process does: [Procs -> SUBSET {"read", "write", "clean"}]

Names == Keys \cup Temps \cup Foreign

\* What a name of the directory refers to, if anything.
Things == Inodes \cup {Folder, Link, NoInode}

ASSUME CacheAssumption ==
    /\ Inodes \subseteq Nat
    /\ {Folder, Link, NoInode} \cap Inodes = {}
    /\ Folder # NoInode /\ Link # NoInode /\ Folder # Link
    /\ (Summaries \cup {Junk}) \cap {"none", "stored", "failed", "cleaned", "refused"} = {}
    /\ Junk \notin Summaries /\ Miss \notin Summaries /\ Junk # Miss
    /\ Miss \notin Keys
    /\ Torn \notin [key : Keys, payload : Summaries \cup {Junk}, checksum : Summaries]
    /\ Keys \cap Temps = {} /\ Keys \cap Foreign = {} /\ Temps \cap Foreign = {}
    /\ Suffixed \subseteq Keys \cup Foreign /\ HexStem \subseteq Keys \cup Foreign
    /\ Suffixed \cap HexStem = Keys
    /\ Layouts \subseteq [Names -> Things]
    /\ \A l \in Layouts, x \in Keys \cup Temps : l[x] \notin Inodes
    /\ Faults \subseteq {"damage", "io", "reuse", "user"}
    /\ MaxMishaps \in Nat /\ MaxTaken \in Nat
    /\ Roles \in [Procs -> SUBSET {"read", "write", "clean"}]

\* A file as Write lays it out: the artifact struct with its key, payload and
\* checksum.  The checksum is represented by the payload it was taken of.
Artifact(k, s) == [key |-> k, payload |-> s, checksum |-> s]

Payloads == Summaries \cup {Junk}
Contents == [key : Keys, payload : Payloads, checksum : Summaries] \cup {Torn}

VARIABLES
    dir,      \* what is at .purepy-cache: nothing, a directory, something else
    names,    \* what each name of the directory refers to
    content,  \* what is in each inode; Torn: a prefix of an artifact, or garbage
    pc,       \* the call each process does next
    job,      \* the key and summary it was called with
    tmp,      \* the temporary name it created
    fd,       \* the inode it has open
    seen,     \* the inode number its Lstat returned
    todo,     \* the entries a Clean has listed and has still to remove
    outcome,  \* how its last operation ended
    offered,  \* every <<key, summary>> a Write was called with
    kills,    \* how many processes were killed so far
    stuck     \* how many temporary files their writer failed to remove

vars == <<dir, names, content, pc, job, tmp, fd, seen, todo, outcome, offered, kills, stuck>>

Linked(n, i) == \E x \in Names : n[x] = i
InUse(n, f, i) == Linked(n, i) \/ \E p \in Procs : f[p] = i

\* The blocks of an inode nobody refers to are given back.
Reclaim(c, n, f) == [i \in Inodes |-> IF InUse(n, f, i) THEN c[i] ELSE Torn]

Blank == [key |-> Miss, summary |-> Miss]

Init ==
    /\ dir \in {"absent", "directory", "other"}
    /\ names \in IF dir = "directory" THEN Layouts ELSE {[x \in Names |-> NoInode]}
    /\ content = [i \in Inodes |-> Torn]
    /\ pc = [p \in Procs |-> "idle"]
    /\ job = [p \in Procs |-> Blank]
    /\ tmp = [p \in Procs |-> Miss]
    /\ fd = [p \in Procs |-> NoInode]
    /\ seen = [p \in Procs |-> NoInode]
    /\ todo = [p \in Procs |-> {}]
    /\ outcome = [p \in Procs |-> "none"]
    /\ offered = {}
    /\ kills = 0
    /\ stuck = 0

\* The process goes on to call c, or ends its operation with outcome r.
Goto(p, c) == pc' = [pc EXCEPT ![p] = c] /\ UNCHANGED outcome
End(p, r) ==
    /\ pc' = [pc EXCEPT ![p] = "idle"]
    /\ outcome' = [outcome EXCEPT ![p] = r]

----------------------------------------------------------------------------
(* Write(dir, key, s)                                                        *)

StartWrite(p, k, s) ==
    /\ pc[p] = "idle" /\ "write" \in Roles[p]
    /\ pc' = [pc EXCEPT ![p] = "mkdir"]
    /\ outcome' = [outcome EXCEPT ![p] = "none"]
    /\ job' = [job EXCEPT ![p] = [key |-> k, summary |-> s]]
    /\ offered' = offered \cup {<<k, s>>}
    /\ UNCHANGED <<dir, names, content, tmp, fd, seen, todo, kills, stuck>>

\* os.Mkdir, an existing entry tolerated, and the Lstat of safeDir.
Mkdir(p) ==
    /\ pc[p] = "mkdir"
    /\ dir' = IF dir = "absent" THEN "directory" ELSE dir
    /\ IF dir' = "directory" THEN Goto(p, "create") ELSE End(p, "failed")
    /\ UNCHANGED <<names, content, job, tmp, fd, seen, todo, offered, kills, stuck>>

\* A name a writer has created and not yet removed.
Pending(t) == \E q \in Procs : pc[q] \in {"fill", "rename", "drop"} /\ tmp[q] = t

\* os.CreateTemp: O_EXCL on a random name.  Nothing keeps the name from being
\* one another writer has just renamed away and is about to remove.
CreateTemp(p) ==
    /\ pc[p] = "create"
    /\ \E t \in Temps, i \in Inodes :
          /\ names[t] = NoInode
          /\ "reuse" \in Faults \/ ~ Pending(t)
          /\ ~ InUse(names, fd, i)
          /\ \A j \in Inodes : j < i => InUse(names, fd, j)
          /\ names' = [names EXCEPT ![t] = i]
          /\ fd' = [fd EXCEPT ![p] = i]
          /\ tmp' = [tmp EXCEPT ![p] = t]
    /\ Goto(p, "fill")
    /\ UNCHANGED <<dir, content, job, seen, todo, offered, kills, stuck>>

\* CreateTemp gives up after ten thousand names that exist, and on any error.
CreateTempFails(p) ==
    /\ pc[p] = "create"
    /\ "io" \in Faults \/ \A t \in Temps : names[t] # NoInode
    /\ End(p, "failed")
    /\ UNCHANGED <<dir, names, content, job, tmp, fd, seen, todo, offered, kills, stuck>>

\* Slip: the file is renamed into place before it is written.
FillLate(p) ==
    /\ pc[p] = "fill"
    /\ names' = [names EXCEPT ![job[p].key] = names[tmp[p]], ![tmp[p]] = NoInode]
    /\ content' = Reclaim([content EXCEPT ![names[tmp[p]]] = Torn], names', fd)
    /\ Goto(p, "rename")
    /\ UNCHANGED <<dir, job, tmp, fd, seen, todo, offered, kills, stuck>>

\* f.Write and f.Close.  The descriptor keeps its inode whatever has happened
\* to the name.
Fill(p) ==
    /\ pc[p] = "fill"
    /\ fd' = [fd EXCEPT ![p] = NoInode]
    /\ content' = Reclaim([content EXCEPT ![fd[p]] = Artifact(job[p].key, job[p].summary)],
                          names, fd')
    /\ Goto(p, "rename")
    /\ UNCHANGED <<dir, names, job, tmp, seen, todo, offered, kills, stuck>>

\* Slip: the temporary file is only removed by the success path.
FillFailsWithoutDrop(p) ==
    /\ pc[p] = "fill" /\ "io" \in Faults
    /\ fd' = [fd EXCEPT ![p] = NoInode]
    /\ content' = Reclaim(content, names, fd')
    /\ End(p, "failed")
    /\ UNCHANGED <<dir, names, job, tmp, seen, todo, offered, kills, stuck>>

\* A short write or a failing Close: the error is returned, the defer runs.
FillFails(p) ==
    /\ pc[p] = "fill" /\ "io" \in Faults
    /\ fd' = [fd EXCEPT ![p] = NoInode]
    /\ content' = Reclaim(content, names, fd')
    /\ pc' = [pc EXCEPT ![p] = "drop"]
    /\ outcome' = [outcome EXCEPT ![p] = "failed"]
    /\ UNCHANGED <<dir, names, job, tmp, seen, todo, offered, kills, stuck>>

\* os.Rename moves whatever the temporary name refers to now over a file or
\* a link, which is replaced and not followed.
Rename(p) ==
    /\ pc[p] = "rename"
    /\ names[tmp[p]] # NoInode /\ names[job[p].key] # Folder
    /\ names' = [names EXCEPT ![job[p].key] = names[tmp[p]], ![tmp[p]] = NoInode]
    /\ content' = Reclaim(content, names', fd)
    /\ outcome' = [outcome EXCEPT ![p] = "stored"]
    /\ pc' = [pc EXCEPT ![p] = "drop"]
    /\ UNCHANGED <<dir, job, tmp, fd, seen, todo, offered, kills, stuck>>

\* It fails when the temporary name is gone, over a directory, or by itself.
RenameFails(p) ==
    /\ pc[p] = "rename"
    /\ names[tmp[p]] = NoInode \/ names[job[p].key] = Folder \/ "io" \in Faults
    /\ outcome' = [outcome EXCEPT ![p] = "failed"]
    /\ pc' = [pc EXCEPT ![p] = "drop"]
    /\ UNCHANGED <<dir, names, content, job, tmp, fd, seen, todo, offered, kills, stuck>>

\* Write returns, with the outcome it has.
Return(p) ==
    /\ tmp' = [tmp EXCEPT ![p] = Miss]
    /\ job' = [job EXCEPT ![p] = Blank]
    /\ pc' = [pc EXCEPT ![p] = "idle"]

\* The deferred os.Remove(tmp), by name, after a success as after a failure.
Drop(p) ==
    /\ pc[p] = "drop"
    /\ names' = [names EXCEPT ![tmp[p]] = NoInode]
    /\ content' = Reclaim(content, names', fd)
    /\ Return(p)
    /\ UNCHANGED <<dir, fd, seen, todo, outcome, offered, kills, stuck>>

\* It fails although the file is there.  Nobody looks at its error: Write
\* returns what it would have returned.
DropFails(p) ==
    /\ pc[p] = "drop" /\ "io" \in Faults
    /\ names[tmp[p]] # NoInode
    /\ kills + stuck < MaxMishaps
    /\ stuck' = stuck + 1
    /\ Return(p)
    /\ UNCHANGED <<dir, names, content, fd, seen, todo, outcome, offered, kills>>

----------------------------------------------------------------------------
(* Read(dir, key)                                                            *)

StartRead(p, k) ==
    /\ pc[p] = "idle" /\ "read" \in Roles[p]
    /\ pc' = [pc EXCEPT ![p] = "lstat"]
    /\ outcome' = [outcome EXCEPT ![p] = "none"]
    /\ job' = [job EXCEPT ![p] = [key |-> k, summary |-> Miss]]
    /\ UNCHANGED <<dir, names, content, tmp, fd, seen, todo, offered, kills, stuck>>

\* safeDir, os.Lstat: no entry, or one that is no regular file, is a miss.
Lstat(p) ==
    /\ pc[p] = "lstat"
    /\ LET i == names[job[p].key] IN
       IF dir = "directory" /\ i \in Inodes
       THEN Goto(p, "open") /\ seen' = [seen EXCEPT ![p] = i]
       ELSE End(p, Miss) /\ UNCHANGED seen
    /\ UNCHANGED <<dir, names, content, job, tmp, fd, todo, offered, kills, stuck>>

\* Slip: the result of Open is used without looking at its error.
OpenUnchecked(p) ==
    /\ pc[p] = "open"
    /\ fd' = [fd EXCEPT ![p] = names[job[p].key]]
    /\ Goto(p, "load")
    /\ seen' = [seen EXCEPT ![p] = NoInode]
    /\ UNCHANGED <<dir, names, content, job, tmp, todo, offered, kills, stuck>>

\* os.Open, f.Stat, os.SameFile with what Lstat saw.  The number alone is
\* compared: an inode freed in between and used again passes.  A link that
\* has taken the name leads to another file.
Open(p) ==
    /\ pc[p] = "open"
    /\ IF names[job[p].key] = seen[p]
       THEN fd' = [fd EXCEPT ![p] = seen[p]] /\ Goto(p, "load")
       ELSE End(p, Miss) /\ UNCHANGED fd
    /\ seen' = [seen EXCEPT ![p] = NoInode]
    /\ UNCHANGED <<dir, names, content, job, tmp, todo, offered, kills, stuck>>

\* Slip: the key inside the artifact is not compared, the name is trusted.
UsableByName(a, k) ==
    /\ a # Torn
    /\ a.payload = a.checksum

\* Slip: the checksum is stored but never verified.
UsableUnverified(a, k) ==
    /\ a # Torn
    /\ a.key = k

\* The artifact test of Read: it parses, it is filed under its own key, and
\* its payload has the checksum it was stored with.
Usable(a, k) ==
    /\ a # Torn
    /\ a.key = k
    /\ a.payload = a.checksum

\* io.ReadAll and everything that is tested of the bytes read.
Load(p) ==
    /\ pc[p] = "load"
    /\ LET a == content[fd[p]] IN
       End(p, IF Usable(a, job[p].key) THEN a.payload ELSE Miss)
    /\ fd' = [fd EXCEPT ![p] = NoInode]
    /\ content' = Reclaim(content, names, fd')
    /\ UNCHANGED <<dir, names, job, tmp, seen, todo, offered, kills, stuck>>

\* Lstat, Open or ReadAll fails: a miss.
ReadFails(p) ==
    /\ pc[p] \in {"lstat", "open", "load"} /\ "io" \in Faults
    /\ End(p, Miss)
    /\ fd' = [fd EXCEPT ![p] = NoInode]
    /\ seen' = [seen EXCEPT ![p] = NoInode]
    /\ content' = Reclaim(content, names, fd')
    /\ UNCHANGED <<dir, names, job, tmp, todo, offered, kills, stuck>>

----------------------------------------------------------------------------
(* Clean(dir)                                                                *)

StartClean(p) ==
    /\ pc[p] = "idle" /\ "clean" \in Roles[p]
    /\ pc' = [pc EXCEPT ![p] = "list"]
    /\ outcome' = [outcome EXCEPT ![p] = "none"]
    /\ UNCHANGED <<dir, names, content, job, tmp, fd, seen, todo, offered, kills, stuck>>

\* An entry of the listing: its name, and its type when it was listed.
Entries == [name : Names, type : {"file", "other"}]
Listed == {[name |-> x, type |-> IF names[x] \in Inodes THEN "file" ELSE "other"] :
              x \in {y \in Names : names[y] # NoInode}}

\* Slip: directories and links are taken for artifacts too.
OwnedByName(e) == e.name \in Suffixed /\ e.name \in HexStem

\* The entries Clean takes for its own: IsRegular, HasSuffix and validKey.
Owned(e) ==
    /\ e.type = "file"
    /\ e.name \in Suffixed
    /\ e.name \in HexStem
OwnedEntries == {e \in Entries : Owned(e)}

\* The Lstat of Clean, safeDir and os.ReadDir.  Which entries the loop will
\* remove is settled here: it tests nothing but what was listed.
List(p) ==
    /\ pc[p] = "list"
    /\ dir = "directory"
    /\ todo' = [todo EXCEPT ![p] = {e \in Listed : Owned(e)}]
    /\ Goto(p, "sweep")
    /\ UNCHANGED <<dir, names, content, job, tmp, fd, seen, offered, kills, stuck>>

\* Nothing to clean, something that is no directory, or ReadDir fails.
ListFails(p) ==
    /\ pc[p] = "list"
    /\ \/ dir = "absent" /\ End(p, "cleaned")
       \/ dir = "other" /\ End(p, "refused")
       \/ "io" \in Faults /\ dir = "directory" /\ End(p, "refused")
    /\ UNCHANGED <<dir, names, content, job, tmp, fd, seen, todo, offered, kills, stuck>>

\* os.Remove of one listed entry, whatever the name refers to by now: a file,
\* a link, an empty directory.
Sweep(p) ==
    /\ pc[p] = "sweep"
    /\ \E e \in todo[p] :
          /\ names[e.name] # NoInode
          /\ todo' = [todo EXCEPT ![p] = @ \ {e}]
          /\ names' = [names EXCEPT ![e.name] = NoInode]
    /\ content' = Reclaim(content, names', fd)
    /\ UNCHANGED <<dir, pc, job, tmp, fd, seen, outcome, offered, kills, stuck>>

\* The entry is gone, is a directory with something in it, or cannot be
\* removed: the first error ends the operation.
SweepFails(p) ==
    /\ pc[p] = "sweep"
    /\ \E e \in todo[p] : names[e.name] \in {NoInode, Folder} \/ "io" \in Faults
    /\ todo' = [todo EXCEPT ![p] = {}]
    /\ End(p, "refused")
    /\ UNCHANGED <<dir, names, content, job, tmp, fd, seen, offered, kills, stuck>>

Swept(p) ==
    /\ pc[p] = "sweep"
    /\ todo[p] = {}
    /\ End(p, "cleaned")
    /\ UNCHANGED <<dir, names, content, job, tmp, fd, seen, todo, offered, kills, stuck>>

----------------------------------------------------------------------------
(* What the system does to the operations                                    *)

\* The process is killed; its descriptors are closed and no defer runs.
Crash(p) ==
    /\ pc[p] # "idle"
    /\ kills + stuck < MaxMishaps
    /\ kills' = kills + 1
    /\ pc' = [pc EXCEPT ![p] = "idle"]
    /\ outcome' = [outcome EXCEPT ![p] = "none"]
    /\ tmp' = [tmp EXCEPT ![p] = Miss]
    /\ fd' = [fd EXCEPT ![p] = NoInode]
    /\ seen' = [seen EXCEPT ![p] = NoInode]
    /\ todo' = [todo EXCEPT ![p] = {}]
    /\ job' = [job EXCEPT ![p] = Blank]
    /\ content' = Reclaim(content, names, fd')
    /\ UNCHANGED <<dir, names, offered, stuck>>

\* Bytes of an artifact are damaged, without the checksum following.
Damage(i) ==
    /\ "damage" \in Faults
    /\ content[i] # Torn
    /\ content' = [content EXCEPT ![i] = [@ EXCEPT !.payload = Junk]]
    /\ UNCHANGED <<dir, names, pc, job, tmp, fd, seen, todo, outcome, offered, kills, stuck>>

\* The user puts a directory or a link of his own under a final name, in
\* place of what was there.
Meddle(k, e) ==
    /\ "user" \in Faults /\ dir = "directory"
    /\ names[k] \notin {Folder, Link}
    /\ Cardinality({x \in Keys : names[x] \in {Folder, Link}}) < MaxTaken
    /\ names' = [names EXCEPT ![k] = e]
    /\ content' = Reclaim(content, names', fd)
    /\ UNCHANGED <<dir, pc, job, tmp, fd, seen, todo, outcome, offered, kills, stuck>>

Write(p) ==
    \/ \E k \in Keys, s \in Summaries : StartWrite(p, k, s)
    \/ Mkdir(p) \/ CreateTemp(p) \/ CreateTempFails(p)
    \/ Fill(p) \/ FillFails(p) \/ Rename(p) \/ RenameFails(p)
    \/ Drop(p) \/ DropFails(p)
Read(p) ==
    \/ \E k \in Keys : StartRead(p, k)
    \/ Lstat(p) \/ Open(p) \/ Load(p) \/ ReadFails(p)
Clean(p) ==
    \/ StartClean(p) \/ List(p) \/ ListFails(p)
    \/ Sweep(p) \/ SweepFails(p) \/ Swept(p)

Next ==
    \/ \E p \in Procs : Write(p) \/ Read(p) \/ Clean(p) \/ Crash(p)
    \/ \E i \in Inodes : Damage(i)
    \/ \E k \in Keys, e \in {Folder, Link} : Meddle(k, e)

Spec == Init /\ [][Next]_vars

----------------------------------------------------------------------------

TypeOK ==
    /\ dir \in {"absent", "directory", "other"}
    /\ names \in [Names -> Things]
    /\ content \in [Inodes -> Contents]
    /\ pc \in [Procs -> {"idle", "mkdir", "create", "fill", "rename", "drop",
                         "lstat", "open", "load", "list", "sweep"}]
    /\ job \in [Procs -> [key : Keys \cup {Miss}, summary : Summaries \cup {Miss}]]
    /\ tmp \in [Procs -> Temps \cup {Miss}]
    /\ fd \in [Procs -> Inodes \cup {NoInode}]
    /\ seen \in [Procs -> Inodes \cup {NoInode}]
    /\ todo \in [Procs -> SUBSET OwnedEntries]
    /\ outcome \in [Procs -> Payloads \cup {Miss, "none", "stored", "failed", "cleaned", "refused"}]
    /\ offered \subseteq Keys \X Summaries
    /\ kills \in Nat /\ stuck \in Nat /\ kills + stuck <= MaxMishaps
    /\ \A p \in Procs :
          /\ pc[p] \in {"fill", "load"} => fd[p] \in Inodes
          /\ pc[p] \in {"fill", "rename", "drop"} => tmp[p] \in Temps
          /\ pc[p] \in {"mkdir", "create", "fill", "rename", "drop"} =>
                <<job[p].key, job[p].summary>> \in offered
          /\ pc[p] \in {"lstat", "open", "load"} => job[p].key \in Keys
          /\ pc[p] = "open" => seen[p] \in Inodes

\* Whatever races, crashes, damage and reused names have done to the files, a
\* read that hits returns a summary some Write was called with for that very
\* key: never another module's tree, a damaged one or half of one.
HitIsFaithful ==
    \A p \in Procs :
        outcome[p] \in Payloads => <<job[p].key, outcome[p]>> \in offered

\* What the user keeps in the directory: every entry under a name of his own,
\* and directories and links under any name.
Theirs(x) == names[x] # NoInode /\ (x \in Foreign \/ names[x] \in {Folder, Link})

\* A write puts an artifact in the place of a link.
Replaced(x) == x \in Keys /\ names[x] = Link /\ names'[x] \in Inodes

\* A Clean removes what it saw as a file under an artifact's name.
Claimed(x) ==
    /\ x \in Keys
    /\ \E p \in Procs, e \in Entries :
          e.name = x /\ e.type = "file" /\ e \in todo[p] /\ e \notin todo'[p]

\* What the user keeps in the cache directory stays, while any number of
\* writes and cleans run.  There are two exceptions, both under the name of
\* an artifact: a write replaces a link, and a Clean whose listing saw a file
\* there removes what the user has put in its place since.
UserEntriesKept ==
    [][\A x \in Names :
          Theirs(x) /\ names'[x] # names[x] => Replaced(x) \/ Claimed(x)]_vars

\* When no operation runs, no temporary file is left but those of killed
\* processes and those whose deferred Remove itself failed: it covers every
\* other way out of Write.
NoLitter ==
    (\A p \in Procs : pc[p] = "idle") =>
        Cardinality({t \in Temps : names[t] \in Inodes}) <= kills + stuck

\* What carries a final name is a whole artifact filed under its own key, at
\* every moment, a crash included: an artifact is renamed into place only
\* when it is complete.  (For names that no two writers use at once.)
PublishedWhole ==
    \A k \in Keys : names[k] \in Inodes => Usable(content[names[k]], k)

\* After a Clean that succeeded with nothing else running no file of the
\* verifier's own is left in the directory.
CleanRemovesArtifacts ==
    \A p \in Procs : outcome[p] = "cleaned" /\ (\A q \in Procs : pc[q] = "idle") =>
        \A x \in Keys \cup Temps : names[x] \notin Inodes

\* The contract's view of a process: the key it is reading, and the answer
\* its last read got.
Reading(p) == pc[p] \in {"lstat", "open", "load"}
Asked(p) == IF Reading(p) THEN job[p].key ELSE Miss
Answered(p) == IF outcome[p] \in Payloads THEN outcome[p] ELSE Miss

Contract == INSTANCE CacheContract WITH
    Nobody <- Miss,
    asked <- [p \in Procs |-> Asked(p)],
    answer <- [p \in Procs |-> Answered(p)]

\* Read, Write and Clean implement CacheContract: whatever the frontend pool
\* may assume of the cache holds of the files and system calls.
ImplementsContract == Contract!ContractSpec

============================================================================
