------------------------- MODULE SummaryCacheProofs -------------------------
(* What the summary cache guarantees for any number of processes, keys,      *)
(* summaries, names and inodes: under every fault, a hit is the summary a    *)
(* write offered for that key, what the user keeps in the directory stays,   *)
(* only a kill or a removal that fails leaves a temporary file behind, and   *)
(* the cache implements CacheContract;                                       *)
(* and while nobody damages the disk or draws a random name that is in use,  *)
(* what carries a final name is a whole artifact.                            *)
(*                                                                           *)
(* The argument for the hits does not follow the names at all, and cannot:   *)
(* when a temporary name is used again a rename may move any file to any     *)
(* key.  What is inductive is a fact about the contents of inodes (Honest):  *)
(* an artifact whose payload has its checksum was offered under the key it   *)
(* carries.                                                                  *)
EXTENDS SummaryCache, FiniteSetTheorems, TLAPS

Honest ==
    \A i \in Inodes :
        content[i] # Torn /\ content[i].payload = content[i].checksum =>
            <<content[i].key, content[i].payload>> \in offered

\* A read's answer is only there while the process has nothing under way.
AnswerAtRest == \A p \in Procs : outcome[p] \in Payloads => pc[p] = "idle"

IInv == TypeOK /\ Honest /\ AnswerAtRest /\ HitIsFaithful

----------------------------------------------------------------------------

\* The entries Clean removes: all of them under the name of an artifact.
LEMMA OwnedAreArtifacts ==
    \A e \in OwnedEntries : e \in Entries /\ e.name \in Keys /\ e.type = "file"
BY CacheAssumption DEF OwnedEntries, Owned

LEMMA ListedAreEntries == {e \in Listed : Owned(e)} \in SUBSET OwnedEntries
<1>1. Listed \subseteq Entries
  BY DEF Listed, Entries
<1> QED
  BY <1>1 DEF OwnedEntries

LEMMA TodoOwned == TypeOK => todo \in [Procs -> SUBSET OwnedEntries]
BY DEF TypeOK

LEMMA ReclaimKeeps ==
    ASSUME NEW c \in [Inodes -> Contents], NEW n, NEW f
    PROVE  /\ Reclaim(c, n, f) \in [Inodes -> Contents]
           /\ \A i \in Inodes : Reclaim(c, n, f)[i] \in {c[i], Torn}
BY DEF Reclaim, Contents

\* A step that changes contents only by giving blocks back stays honest.
LEMMA HonestKept ==
    ASSUME Honest, offered' = offered,
           \A i \in Inodes : content'[i] \in {content[i], Torn}
    PROVE  Honest'
BY DEF Honest

LEMMA InitEstablishes == Init => IInv
<1> SUFFICES ASSUME Init PROVE IInv
  OBVIOUS
<1>1. names \in [Names -> Things]
  BY CacheAssumption DEF Init, Things
<1>2. TypeOK
  BY <1>1, CacheAssumption DEF Init, TypeOK, Contents, Blank
<1>3. Honest
  BY DEF Init, Honest
<1>4. AnswerAtRest /\ HitIsFaithful
  BY CacheAssumption DEF Init, AnswerAtRest, HitIsFaithful, Payloads
<1> QED
  BY <1>2, <1>3, <1>4 DEF IInv

LEMMA NextPreserves == IInv /\ [Next]_vars => IInv'
<1> SUFFICES ASSUME IInv, [Next]_vars PROVE IInv'
  OBVIOUS
<1> USE CacheAssumption
<1>t. TypeOK /\ Honest /\ AnswerAtRest /\ HitIsFaithful
  BY DEF IInv
<1>1. ASSUME NEW p \in Procs, NEW k \in Keys, NEW s \in Summaries, StartWrite(p, k, s) PROVE IInv'
  <2>1. TypeOK'
    BY <1>1, <1>t DEF StartWrite, TypeOK, Goto, End, Names, Payloads, Blank, Artifact
  <2>2. Honest'
    BY <1>1, <1>t DEF StartWrite, TypeOK, Honest
  <2>3. AnswerAtRest'
    BY <1>1, <1>t DEF StartWrite, TypeOK, AnswerAtRest, Goto, End, Payloads
  <2>4. HitIsFaithful'
    BY <1>1, <1>t DEF StartWrite, TypeOK, AnswerAtRest, HitIsFaithful, Goto, End, Payloads
  <2> QED
    BY <2>1, <2>2, <2>3, <2>4 DEF IInv
<1>2. ASSUME NEW p \in Procs, Mkdir(p) PROVE IInv'
  <2>1. TypeOK'
    <3>1. CASE dir' = "directory"
      <4>1. /\ pc' = [pc EXCEPT ![p] = "create"] /\ pc[p] = "mkdir"
            /\ UNCHANGED <<outcome, names, content, job, tmp, fd, seen, todo, offered, kills, stuck>>
        BY <1>2, <3>1 DEF Mkdir, Goto
      <4> QED
        BY <1>t, <3>1, <4>1 DEF TypeOK
    <3>2. CASE dir' # "directory"
      <4>1. /\ dir' = dir /\ End(p, "failed") /\ pc[p] = "mkdir"
            /\ UNCHANGED <<names, content, job, tmp, fd, seen, todo, offered, kills, stuck>>
        BY <1>2, <3>2 DEF Mkdir
      <4> QED
        BY <1>t, <4>1 DEF TypeOK, End
    <3> QED
      BY <3>1, <3>2
  <2>2. Honest'
    BY <1>2, <1>t DEF Mkdir, TypeOK, Honest
  <2>3. AnswerAtRest'
    BY <1>2, <1>t DEF Mkdir, TypeOK, AnswerAtRest, Goto, End, Payloads
  <2>4. HitIsFaithful'
    BY <1>2, <1>t DEF Mkdir, TypeOK, AnswerAtRest, HitIsFaithful, Goto, End, Payloads
  <2> QED
    BY <2>1, <2>2, <2>3, <2>4 DEF IInv
<1>3. ASSUME NEW p \in Procs, CreateTemp(p) PROVE IInv'
  <2>1. TypeOK'
    BY <1>3, <1>t DEF CreateTemp, TypeOK, Goto, Names, Things
  <2>2. Honest'
    BY <1>3, <1>t DEF CreateTemp, TypeOK, Honest
  <2>3. AnswerAtRest'
    BY <1>3, <1>t DEF CreateTemp, TypeOK, AnswerAtRest, Goto, End, Payloads
  <2>4. HitIsFaithful'
    BY <1>3, <1>t DEF CreateTemp, TypeOK, AnswerAtRest, HitIsFaithful, Goto, End, Payloads
  <2> QED
    BY <2>1, <2>2, <2>3, <2>4 DEF IInv
<1>4. ASSUME NEW p \in Procs, CreateTempFails(p) PROVE IInv'
  <2>1. TypeOK'
    BY <1>4, <1>t DEF CreateTempFails, TypeOK, Goto, End, Names, Payloads, Blank, Artifact
  <2>2. Honest'
    BY <1>4, <1>t DEF CreateTempFails, TypeOK, Honest
  <2>3. AnswerAtRest'
    BY <1>4, <1>t DEF CreateTempFails, TypeOK, AnswerAtRest, Goto, End, Payloads
  <2>4. HitIsFaithful'
    BY <1>4, <1>t DEF CreateTempFails, TypeOK, AnswerAtRest, HitIsFaithful, Goto, End, Payloads
  <2> QED
    BY <2>1, <2>2, <2>3, <2>4 DEF IInv
<1>5. ASSUME NEW p \in Procs, Fill(p) PROVE IInv'
  <2> DEFINE a == Artifact(job[p].key, job[p].summary)
  <2> DEFINE c == [content EXCEPT ![fd[p]] = a]
  <2>a. /\ a \in [key : Keys, payload : Payloads, checksum : Summaries]
        /\ <<a.key, a.payload>> \in offered
    BY <1>5, <1>t DEF Fill, TypeOK, Artifact, Payloads
  <2>b. c \in [Inodes -> Contents] /\ \A i \in Inodes : c[i] \in {content[i], a}
    <3>1. a \in Contents
      BY <2>a DEF Contents
    <3>2. content \in [Inodes -> Contents]
      BY <1>t DEF TypeOK
    <3> HIDE DEF a
    <3> QED
      BY <3>1, <3>2
  <2>c. content' = Reclaim(c, names, fd')
    BY <1>5 DEF Fill
  <2>d. content' \in [Inodes -> Contents] /\ \A i \in Inodes : content'[i] \in {content[i], a, Torn}
    <3> HIDE DEF c
    <3> QED
      BY <2>b, <2>c, ReclaimKeeps
  <2>e. /\ pc[p] = "fill" /\ pc' = [pc EXCEPT ![p] = "rename"]
        /\ fd' = [fd EXCEPT ![p] = NoInode]
        /\ UNCHANGED <<dir, names, job, tmp, seen, todo, outcome, offered, kills, stuck>>
    BY <1>5 DEF Fill, Goto
  <2> HIDE DEF a, c
  <2>1. TypeOK'
    BY <1>t, <2>d, <2>e DEF TypeOK
  <2>2. Honest'
    BY <1>t, <2>a, <2>d, <2>e DEF Honest
  <2>3. AnswerAtRest'
    BY <1>5, <1>t DEF Fill, TypeOK, AnswerAtRest, Goto, End, Payloads
  <2>4. HitIsFaithful'
    BY <1>5, <1>t DEF Fill, TypeOK, AnswerAtRest, HitIsFaithful, Goto, End, Payloads
  <2> QED
    BY <2>1, <2>2, <2>3, <2>4 DEF IInv
<1>6. ASSUME NEW p \in Procs, FillFails(p) PROVE IInv'
  <2>k. \A i \in Inodes : content'[i] \in {content[i], Torn}
    BY <1>6, <1>t, ReclaimKeeps DEF FillFails, TypeOK
  <2>1. TypeOK'
    BY <1>6, <1>t, ReclaimKeeps DEF FillFails, TypeOK, Goto, End, Names, Payloads, Blank, Artifact
  <2>2. Honest'
    BY <1>6, <1>t, <2>k, HonestKept DEF FillFails
  <2>3. AnswerAtRest'
    BY <1>6, <1>t DEF FillFails, TypeOK, AnswerAtRest, Goto, End, Payloads
  <2>4. HitIsFaithful'
    BY <1>6, <1>t DEF FillFails, TypeOK, AnswerAtRest, HitIsFaithful, Goto, End, Payloads
  <2> QED
    BY <2>1, <2>2, <2>3, <2>4 DEF IInv
<1>7. ASSUME NEW p \in Procs, Rename(p) PROVE IInv'
  <2>k. content' \in [Inodes -> Contents] /\ \A i \in Inodes : content'[i] \in {content[i], Torn}
    <3>1. content' = Reclaim(content, names', fd)
      BY <1>7 DEF Rename
    <3>2. content \in [Inodes -> Contents]
      BY <1>t DEF TypeOK
    <3> QED
      BY <3>1, <3>2, ReclaimKeeps
  <2>n. names' \in [Names -> Things]
    <3>1. names \in [Names -> Things] /\ tmp[p] \in Names
      BY <1>7, <1>t DEF Rename, TypeOK, Names
    <3>2. names' = [names EXCEPT ![job[p].key] = names[tmp[p]], ![tmp[p]] = NoInode]
      BY <1>7 DEF Rename
    <3>3. NoInode \in Things /\ names[tmp[p]] \in Things
      BY <3>1 DEF Things
    <3> QED
      BY <3>1, <3>2, <3>3
  <2>e. /\ pc[p] = "rename" /\ pc' = [pc EXCEPT ![p] = "drop"]
        /\ outcome' = [outcome EXCEPT ![p] = "stored"]
        /\ UNCHANGED <<dir, job, tmp, fd, seen, todo, offered, kills, stuck>>
    BY <1>7 DEF Rename
  <2>1. TypeOK'
    BY <1>t, <2>e, <2>k, <2>n DEF TypeOK
  <2>2. Honest'
    BY <1>7, <1>t, <2>k, HonestKept DEF Rename
  <2>3. AnswerAtRest'
    BY <1>7, <1>t DEF Rename, TypeOK, AnswerAtRest, Goto, End, Payloads
  <2>4. HitIsFaithful'
    BY <1>7, <1>t DEF Rename, TypeOK, AnswerAtRest, HitIsFaithful, Goto, End, Payloads
  <2> QED
    BY <2>1, <2>2, <2>3, <2>4 DEF IInv
<1>8. ASSUME NEW p \in Procs, Drop(p) PROVE IInv'
  <2>k. \A i \in Inodes : content'[i] \in {content[i], Torn}
    BY <1>8, <1>t, ReclaimKeeps DEF Drop, TypeOK
  <2>c. content' \in [Inodes -> Contents]
    BY <1>8, <1>t, ReclaimKeeps DEF Drop, TypeOK
  <2>n. names' \in [Names -> Things]
    BY <1>8, <1>t DEF Drop, TypeOK, Things
  <2>e. /\ pc[p] = "drop" /\ pc' = [pc EXCEPT ![p] = "idle"]
        /\ tmp' = [tmp EXCEPT ![p] = Miss]
        /\ job' = [job EXCEPT ![p] = [key |-> Miss, summary |-> Miss]]
        /\ UNCHANGED <<dir, fd, seen, todo, outcome, offered, kills, stuck>>
    BY <1>8 DEF Drop, Return, Blank
  <2>1. TypeOK'
    BY <1>t, <2>c, <2>n, <2>e DEF TypeOK
  <2>2. Honest'
    BY <1>8, <1>t, <2>k, HonestKept DEF Drop
  <2>3. AnswerAtRest'
    BY <1>8, <1>t DEF Drop, Return, TypeOK, AnswerAtRest, Goto, End, Payloads
  <2>4. HitIsFaithful'
    BY <1>8, <1>t DEF Drop, Return, TypeOK, AnswerAtRest, HitIsFaithful, Goto, End, Payloads
  <2> QED
    BY <2>1, <2>2, <2>3, <2>4 DEF IInv
<1>9. ASSUME NEW p \in Procs, NEW k \in Keys, StartRead(p, k) PROVE IInv'
  <2>1. TypeOK'
    BY <1>9, <1>t DEF StartRead, TypeOK, Goto, End, Names, Payloads, Blank, Artifact
  <2>2. Honest'
    BY <1>9, <1>t DEF StartRead, TypeOK, Honest
  <2>3. AnswerAtRest'
    BY <1>9, <1>t DEF StartRead, TypeOK, AnswerAtRest, Goto, End, Payloads
  <2>4. HitIsFaithful'
    BY <1>9, <1>t DEF StartRead, TypeOK, AnswerAtRest, HitIsFaithful, Goto, End, Payloads
  <2> QED
    BY <2>1, <2>2, <2>3, <2>4 DEF IInv
<1>10. ASSUME NEW p \in Procs, Lstat(p) PROVE IInv'
  <2> DEFINE i == names[job[p].key]
  <2>1. TypeOK'
    <3>0. /\ pc[p] = "lstat"
          /\ UNCHANGED <<dir, names, content, job, tmp, fd, todo, offered, kills, stuck>>
      BY <1>10 DEF Lstat
    <3>1. CASE dir = "directory" /\ i \in Inodes
      <4>1. seen' = [seen EXCEPT ![p] = i] /\ Goto(p, "open")
        BY <1>10, <3>1 DEF Lstat
      <4> HIDE DEF i
      <4> QED
        BY <1>t, <3>0, <3>1, <4>1 DEF TypeOK, Goto
    <3>2. CASE ~ (dir = "directory" /\ i \in Inodes)
      <4>1. seen' = seen /\ End(p, Miss)
        BY <1>10, <3>2 DEF Lstat
      <4> HIDE DEF i
      <4> QED
        BY <1>t, <3>0, <4>1 DEF TypeOK, End
    <3> QED
      BY <3>1, <3>2
  <2>2. Honest'
    BY <1>10, <1>t DEF Lstat, TypeOK, Honest
  <2>3. AnswerAtRest'
    <3>0. pc[p] = "lstat" /\ DOMAIN pc = Procs /\ DOMAIN outcome = Procs
      BY <1>10, <1>t DEF Lstat, TypeOK
    <3>1. Goto(p, "open") \/ End(p, Miss)
      BY <1>10 DEF Lstat
    <3>2. ASSUME Goto(p, "open") PROVE AnswerAtRest'
      BY <3>0, <3>2, <1>t DEF AnswerAtRest, Goto, Payloads
    <3>3. ASSUME End(p, Miss) PROVE AnswerAtRest'
      BY <3>0, <3>3, <1>t DEF AnswerAtRest, End, Payloads
    <3> QED
      BY <3>1, <3>2, <3>3
  <2>4. HitIsFaithful'
    BY <1>10, <1>t DEF Lstat, TypeOK, AnswerAtRest, HitIsFaithful, Goto, End, Payloads
  <2> QED
    BY <2>1, <2>2, <2>3, <2>4 DEF IInv
<1>11. ASSUME NEW p \in Procs, Open(p) PROVE IInv'
  <2>1. TypeOK'
    <3>0. /\ pc[p] = "open" /\ seen' = [seen EXCEPT ![p] = NoInode]
          /\ UNCHANGED <<dir, names, content, job, tmp, todo, offered, kills, stuck>>
      BY <1>11 DEF Open
    <3>1. CASE names[job[p].key] = seen[p]
      <4>1. fd' = [fd EXCEPT ![p] = seen[p]] /\ Goto(p, "load")
        BY <1>11, <3>1 DEF Open
      <4> QED
        BY <1>t, <3>0, <4>1 DEF TypeOK, Goto
    <3>2. CASE names[job[p].key] # seen[p]
      <4>1. fd' = fd /\ End(p, Miss)
        BY <1>11, <3>2 DEF Open
      <4> QED
        BY <1>t, <3>0, <4>1 DEF TypeOK, End
    <3> QED
      BY <3>1, <3>2
  <2>2. Honest'
    BY <1>11, <1>t DEF Open, TypeOK, Honest
  <2>3. AnswerAtRest'
    BY <1>11, <1>t DEF Open, TypeOK, AnswerAtRest, Goto, End, Payloads
  <2>4. HitIsFaithful'
    BY <1>11, <1>t DEF Open, TypeOK, AnswerAtRest, HitIsFaithful, Goto, End, Payloads
  <2> QED
    BY <2>1, <2>2, <2>3, <2>4 DEF IInv
<1>12. ASSUME NEW p \in Procs, Load(p) PROVE IInv'
  <2> DEFINE a == content[fd[p]]
  <2> DEFINE r == IF Usable(a, job[p].key) THEN a.payload ELSE Miss
  <2>a. /\ r \in Payloads \cup {Miss}
        /\ r \in Payloads => <<job[p].key, r>> \in offered
    <3>1. a \in Contents /\ fd[p] \in Inodes
      BY <1>12, <1>t DEF Load, TypeOK
    <3> QED
      BY <1>t, <3>1 DEF Usable, Contents, Payloads, Honest
  <2>k. content' \in [Inodes -> Contents] /\ \A i \in Inodes : content'[i] \in {content[i], Torn}
    BY <1>12, <1>t, ReclaimKeeps DEF Load, TypeOK
  <2>e. /\ pc' = [pc EXCEPT ![p] = "idle"]
        /\ outcome' = [outcome EXCEPT ![p] = r]
        /\ fd' = [fd EXCEPT ![p] = NoInode]
        /\ UNCHANGED <<dir, names, job, tmp, seen, todo, offered, kills, stuck>>
    BY <1>12 DEF Load, End
  <2> HIDE DEF r
  <2>1. TypeOK'
    BY <2>e, <1>t, <2>a, <2>k DEF TypeOK
  <2>2. Honest'
    BY <1>t, <2>e, <2>k, HonestKept
  <2>3. AnswerAtRest'
    BY <1>t, <2>e DEF AnswerAtRest, TypeOK
  <2>4. HitIsFaithful'
    <3>1. DOMAIN outcome = Procs
      BY <1>t DEF TypeOK
    <3> QED
      BY <1>t, <2>a, <2>e, <3>1 DEF HitIsFaithful
  <2> QED
    BY <2>1, <2>2, <2>3, <2>4 DEF IInv
<1>13. ASSUME NEW p \in Procs, ReadFails(p) PROVE IInv'
  <2>k. \A i \in Inodes : content'[i] \in {content[i], Torn}
    BY <1>13, <1>t, ReclaimKeeps DEF ReadFails, TypeOK
  <2>1. TypeOK'
    BY <1>13, <1>t, ReclaimKeeps DEF ReadFails, TypeOK, Goto, End, Names, Payloads, Blank, Artifact
  <2>2. Honest'
    BY <1>13, <1>t, <2>k, HonestKept DEF ReadFails
  <2>3. AnswerAtRest'
    BY <1>13, <1>t DEF ReadFails, TypeOK, AnswerAtRest, Goto, End, Payloads
  <2>4. HitIsFaithful'
    BY <1>13, <1>t DEF ReadFails, TypeOK, AnswerAtRest, HitIsFaithful, Goto, End, Payloads
  <2> QED
    BY <2>1, <2>2, <2>3, <2>4 DEF IInv
<1>14. ASSUME NEW p \in Procs, StartClean(p) PROVE IInv'
  <2>1. TypeOK'
    BY <1>14, <1>t DEF StartClean, TypeOK, Goto, End, Names, Payloads, Blank, Artifact
  <2>2. Honest'
    BY <1>14, <1>t DEF StartClean, TypeOK, Honest
  <2>3. AnswerAtRest'
    BY <1>14, <1>t DEF StartClean, TypeOK, AnswerAtRest, Goto, End, Payloads
  <2>4. HitIsFaithful'
    BY <1>14, <1>t DEF StartClean, TypeOK, AnswerAtRest, HitIsFaithful, Goto, End, Payloads
  <2> QED
    BY <2>1, <2>2, <2>3, <2>4 DEF IInv
<1>15. ASSUME NEW p \in Procs, List(p) PROVE IInv'
  <2>e. /\ pc[p] = "list" /\ Goto(p, "sweep")
        /\ todo' = [todo EXCEPT ![p] = {e \in Listed : Owned(e)}]
        /\ UNCHANGED <<dir, names, content, job, tmp, fd, seen, offered, kills, stuck>>
    BY <1>15 DEF List
  <2>d. todo' \in [Procs -> SUBSET OwnedEntries]
    <3> DEFINE l == {e \in Listed : Owned(e)}
    <3>1. l \in SUBSET OwnedEntries /\ todo' = [todo EXCEPT ![p] = l]
      BY <2>e, ListedAreEntries
    <3> HIDE DEF l
    <3> QED
      BY <1>t, <3>1, TodoOwned
  <2>1. TypeOK'
    BY <2>e, <2>d, <1>t DEF TypeOK, Goto
  <2>2. Honest'
    BY <2>e, <1>t DEF Honest
  <2>3. AnswerAtRest'
    BY <2>e, <1>t DEF TypeOK, AnswerAtRest, Goto
  <2>4. HitIsFaithful'
    BY <2>e, <1>t DEF HitIsFaithful, Goto
  <2> QED
    BY <2>1, <2>2, <2>3, <2>4 DEF IInv
<1>16. ASSUME NEW p \in Procs, Sweep(p) PROVE IInv'
  <2>e. PICK e \in todo[p] :
           /\ todo' = [todo EXCEPT ![p] = @ \ {e}]
           /\ names' = [names EXCEPT ![e.name] = NoInode]
    BY <1>16 DEF Sweep
  <2>u. /\ content' = Reclaim(content, names', fd)
        /\ UNCHANGED <<dir, pc, job, tmp, fd, seen, outcome, offered, kills, stuck>>
    BY <1>16 DEF Sweep
  <2>k. content' \in [Inodes -> Contents] /\ \A i \in Inodes : content'[i] \in {content[i], Torn}
    BY <2>u, <1>t, ReclaimKeeps DEF TypeOK
  <2>d. todo' \in [Procs -> SUBSET OwnedEntries]
    BY <2>e, <1>t, TodoOwned
  <2>n. names' \in [Names -> Things]
    BY <2>e, <1>t DEF TypeOK, Things
  <2>1. TypeOK'
    BY <1>t, <2>u, <2>k, <2>d, <2>n DEF TypeOK
  <2>2. Honest'
    BY <1>t, <2>u, <2>k, HonestKept
  <2>3. AnswerAtRest'
    BY <2>u, <1>t DEF AnswerAtRest
  <2>4. HitIsFaithful'
    BY <2>u, <1>t DEF HitIsFaithful
  <2> QED
    BY <2>1, <2>2, <2>3, <2>4 DEF IInv
<1>17. ASSUME NEW p \in Procs, Swept(p) PROVE IInv'
  <2>1. TypeOK'
    BY <1>17, <1>t DEF Swept, TypeOK, Goto, End, Names, Payloads, Blank, Artifact
  <2>2. Honest'
    BY <1>17, <1>t DEF Swept, TypeOK, Honest
  <2>3. AnswerAtRest'
    BY <1>17, <1>t DEF Swept, TypeOK, AnswerAtRest, Goto, End, Payloads
  <2>4. HitIsFaithful'
    BY <1>17, <1>t DEF Swept, TypeOK, AnswerAtRest, HitIsFaithful, Goto, End, Payloads
  <2> QED
    BY <2>1, <2>2, <2>3, <2>4 DEF IInv
<1>18. ASSUME NEW p \in Procs, Crash(p) PROVE IInv'
  <2>k. \A i \in Inodes : content'[i] \in {content[i], Torn}
    BY <1>18, <1>t, ReclaimKeeps DEF Crash, TypeOK
  <2>1. TypeOK'
    BY <1>18, <1>t, ReclaimKeeps DEF Crash, TypeOK, Goto, End, Names, Payloads, Blank, Artifact
  <2>2. Honest'
    BY <1>18, <1>t, <2>k, HonestKept DEF Crash
  <2>3. AnswerAtRest'
    BY <1>18, <1>t DEF Crash, TypeOK, AnswerAtRest, Goto, End, Payloads
  <2>4. HitIsFaithful'
    BY <1>18, <1>t DEF Crash, TypeOK, AnswerAtRest, HitIsFaithful, Goto, End, Payloads
  <2> QED
    BY <2>1, <2>2, <2>3, <2>4 DEF IInv
<1>19. ASSUME NEW i \in Inodes, Damage(i) PROVE IInv'
  <2>a. content[i] \in [key : Keys, payload : Payloads, checksum : Summaries]
    BY <1>19, <1>t DEF Damage, TypeOK, Contents
  <2>b. /\ content' \in [Inodes -> Contents]
        /\ \A j \in Inodes : j # i => content'[j] = content[j]
        /\ content'[i].payload = Junk /\ content'[i].checksum \in Summaries
    <3>1. [content[i] EXCEPT !.payload = Junk]
             \in [key : Keys, payload : Payloads, checksum : Summaries]
      BY <2>a DEF Payloads
    <3>2. content' = [content EXCEPT ![i] = [content[i] EXCEPT !.payload = Junk]]
      BY <1>19 DEF Damage
    <3>3. content'[i] = [content[i] EXCEPT !.payload = Junk]
      BY <3>2, <1>t DEF TypeOK
    <3>4. content'[i].payload = Junk /\ content'[i].checksum = content[i].checksum
      BY <3>3, <2>a
    <3>5. content' \in [Inodes -> Contents]
      BY <3>1, <3>2, <1>t DEF TypeOK, Contents
    <3> QED
      BY <2>a, <3>2, <3>4, <3>5, <1>t DEF TypeOK
  <2>1. TypeOK'
    BY <1>19, <1>t, <2>b DEF Damage, TypeOK
  <2>2. Honest'
    BY <1>19, <1>t, <2>b DEF Damage, Honest
  <2>3. AnswerAtRest'
    BY <1>19, <1>t DEF Damage, AnswerAtRest
  <2>4. HitIsFaithful'
    BY <1>19, <1>t DEF Damage, HitIsFaithful
  <2> QED
    BY <2>1, <2>2, <2>3, <2>4 DEF IInv
<1>20. ASSUME NEW p \in Procs, RenameFails(p) PROVE IInv'
  <2>1. TypeOK'
    BY <1>20, <1>t DEF RenameFails, TypeOK, Names, Payloads
  <2>2. Honest'
    BY <1>20, <1>t DEF RenameFails, Honest
  <2>3. AnswerAtRest'
    BY <1>20, <1>t DEF RenameFails, TypeOK, AnswerAtRest, Names, Payloads
  <2>4. HitIsFaithful'
    BY <1>20, <1>t DEF RenameFails, TypeOK, AnswerAtRest, HitIsFaithful, Names, Payloads
  <2> QED
    BY <2>1, <2>2, <2>3, <2>4 DEF IInv
<1>21. ASSUME NEW p \in Procs, DropFails(p) PROVE IInv'
  <2>1. TypeOK'
    BY <1>21, <1>t DEF DropFails, TypeOK, Return, Blank, Payloads
  <2>2. Honest'
    BY <1>21, <1>t DEF DropFails, Honest
  <2>3. AnswerAtRest'
    BY <1>21, <1>t DEF DropFails, TypeOK, AnswerAtRest, Return, Blank, Payloads
  <2>4. HitIsFaithful'
    BY <1>21, <1>t DEF DropFails, TypeOK, AnswerAtRest, HitIsFaithful, Return, Blank, Payloads
  <2> QED
    BY <2>1, <2>2, <2>3, <2>4 DEF IInv
<1>22. ASSUME NEW p \in Procs, ListFails(p) PROVE IInv'
  <2>e. /\ pc[p] = "list"
        /\ UNCHANGED <<dir, names, content, job, tmp, fd, seen, todo, offered, kills, stuck>>
    BY <1>22 DEF ListFails
  <2>r. PICK r \in {"cleaned", "refused"} :
            pc' = [pc EXCEPT ![p] = "idle"] /\ outcome' = [outcome EXCEPT ![p] = r]
    BY <1>22 DEF ListFails, End
  <2>1. TypeOK'
    BY <2>e, <2>r, <1>t DEF TypeOK
  <2>2. Honest'
    BY <2>e, <1>t DEF Honest
  <2>3. AnswerAtRest'
    BY <2>e, <2>r, <1>t DEF TypeOK, AnswerAtRest
  <2>4. HitIsFaithful'
    BY <2>e, <2>r, <1>t DEF TypeOK, HitIsFaithful, Payloads
  <2> QED
    BY <2>1, <2>2, <2>3, <2>4 DEF IInv
<1>23. ASSUME NEW p \in Procs, SweepFails(p) PROVE IInv'
  <2>e. /\ pc[p] = "sweep" /\ End(p, "refused")
        /\ todo' = [todo EXCEPT ![p] = {}]
        /\ UNCHANGED <<dir, names, content, job, tmp, fd, seen, offered, kills, stuck>>
    BY <1>23 DEF SweepFails
  <2>1. TypeOK'
    BY <2>e, <1>t DEF TypeOK, End
  <2>2. Honest'
    BY <2>e, <1>t DEF Honest
  <2>3. AnswerAtRest'
    BY <2>e, <1>t DEF TypeOK, AnswerAtRest, End
  <2>4. HitIsFaithful'
    BY <2>e, <1>t DEF TypeOK, HitIsFaithful, End, Payloads
  <2> QED
    BY <2>1, <2>2, <2>3, <2>4 DEF IInv
<1>24. ASSUME NEW k \in Keys, NEW e \in {Folder, Link}, Meddle(k, e) PROVE IInv'
  <2>u. /\ names' = [names EXCEPT ![k] = e]
        /\ content' = Reclaim(content, names', fd)
        /\ UNCHANGED <<dir, pc, job, tmp, fd, seen, todo, outcome, offered, kills, stuck>>
    BY <1>24 DEF Meddle
  <2>k. content' \in [Inodes -> Contents] /\ \A i \in Inodes : content'[i] \in {content[i], Torn}
    BY <2>u, <1>t, ReclaimKeeps DEF TypeOK
  <2>n. names' \in [Names -> Things]
    BY <2>u, <1>t DEF TypeOK, Names, Things
  <2>1. TypeOK'
    BY <1>t, <2>u, <2>k, <2>n DEF TypeOK
  <2>2. Honest'
    BY <1>t, <2>u, <2>k, HonestKept
  <2>3. AnswerAtRest'
    BY <2>u, <1>t DEF AnswerAtRest
  <2>4. HitIsFaithful'
    BY <2>u, <1>t DEF HitIsFaithful
  <2> QED
    BY <2>1, <2>2, <2>3, <2>4 DEF IInv
<1>25. CASE UNCHANGED vars
  BY <1>25, <1>t DEF vars, IInv, TypeOK, Honest, AnswerAtRest, HitIsFaithful
<1>26. ASSUME NEW p \in Procs, Write(p) PROVE IInv'
  BY <1>26, <1>1, <1>2, <1>3, <1>4, <1>5, <1>6, <1>7, <1>8, <1>20, <1>21 DEF Write
<1>27. ASSUME NEW p \in Procs, Read(p) \/ Clean(p) PROVE IInv'
  BY <1>27, <1>9, <1>10, <1>11, <1>12, <1>13, <1>14, <1>15, <1>16, <1>17, <1>22, <1>23
  DEF Read, Clean
<1> QED
  BY <1>18, <1>19, <1>24, <1>25, <1>26, <1>27 DEF Next

LEMMA Inductive == Spec => []IInv
BY InitEstablishes, NextPreserves, PTL DEF Spec

\* The type invariant, with what each call may rely on of the ones before it.
THEOREM CacheTypeCorrect == Spec => []TypeOK
<1>1. IInv => TypeOK
  BY DEF IInv
<1> QED
  BY <1>1, Inductive, PTL

\* Races, kills, damaged bytes and reused temporary names never make Read
\* answer a summary that was not written for the key it was asked.
THEOREM CacheHitIsFaithful == Spec => []HitIsFaithful
<1>1. IInv => HitIsFaithful
  BY DEF IInv
<1> QED
  BY <1>1, Inductive, PTL

(* What the user keeps.  The name a writer has drawn was free when it was    *)
(* drawn, so that what it moves or removes under that name is a file of some *)
(* writer's, never the user's (OwnTemp).                                     *)

Writing(p) == pc[p] \in {"fill", "rename", "drop"}

OwnTemp == \A p \in Procs : Writing(p) => names[tmp[p]] \in Inodes \cup {NoInode}

LEMMA JobKey ==
    ASSUME TypeOK, NEW p \in Procs, Writing(p)
    PROVE  /\ tmp[p] \in Temps /\ tmp[p] \in Names
           /\ job[p].key \in Keys /\ job[p].key \in Names
           /\ tmp[p] # job[p].key
<1>1. tmp[p] \in Temps /\ <<job[p].key, job[p].summary>> \in Keys \X Summaries
  BY DEF TypeOK, Writing
<1> QED
  BY <1>1, CacheAssumption DEF Names

\* A writer keeps its name, and the name is not given to anything of the user's.
LEMMA QuietOnOwnTemp ==
    ASSUME TypeOK, OwnTemp,
           \A p \in Procs : Writing(p)' => Writing(p) /\ tmp'[p] = tmp[p],
           \A t \in Temps : names'[t] = names[t] \/ names'[t] \in Inodes \cup {NoInode}
    PROVE  OwnTemp'
<1> SUFFICES ASSUME NEW p \in Procs, Writing(p)'
             PROVE  names'[tmp'[p]] \in Inodes \cup {NoInode}
  BY DEF OwnTemp
<1>1. Writing(p) /\ tmp'[p] = tmp[p] /\ tmp[p] \in Temps
  BY JobKey
<1> QED
  BY <1>1 DEF OwnTemp

LEMMA OwnTempKept == TypeOK /\ OwnTemp /\ [Next]_vars => OwnTemp'
<1> SUFFICES ASSUME TypeOK, OwnTemp, [Next]_vars PROVE OwnTemp'
  OBVIOUS
<1> USE CacheAssumption
\* Steps in which p stays a writer or is none, and no temporary name changes.
<1>q. ASSUME NEW p \in Procs,
             Writing(p)' => Writing(p) /\ tmp'[p] = tmp[p],
             \A q \in Procs \ {p} : pc'[q] = pc[q] /\ tmp'[q] = tmp[q],
             \A t \in Temps : names'[t] = names[t] \/ names'[t] \in Inodes \cup {NoInode}
      PROVE  OwnTemp'
  <2>1. \A q \in Procs : Writing(q)' => Writing(q) /\ tmp'[q] = tmp[q]
    BY <1>q DEF Writing
  <2> QED
    BY <1>q, <2>1, QuietOnOwnTemp
<1>1. ASSUME NEW p \in Procs, Write(p) PROVE OwnTemp'
  <2>1. ASSUME CreateTemp(p) PROVE OwnTemp'
    <3>1. PICK t \in Temps, i \in Inodes : /\ names' = [names EXCEPT ![t] = i]
                                           /\ tmp' = [tmp EXCEPT ![p] = t]
      BY <2>1 DEF CreateTemp
    <3>2. pc' = [pc EXCEPT ![p] = "fill"]
      BY <2>1 DEF CreateTemp, Goto
    <3>3. \A x \in Temps : names'[x] = names[x] \/ names'[x] \in Inodes
      BY <3>1 DEF TypeOK, Names
    <3>4. tmp'[p] = t /\ names'[t] = i
      BY <3>1 DEF TypeOK, Names
    <3>5. \A q \in Procs \ {p} : Writing(q)' => Writing(q) /\ tmp'[q] = tmp[q] /\ tmp[q] \in Temps
      BY <3>1, <3>2, JobKey DEF TypeOK, Writing
    <3> SUFFICES ASSUME NEW q \in Procs, Writing(q)'
                 PROVE  names'[tmp'[q]] \in Inodes \cup {NoInode}
      BY DEF OwnTemp
    <3>6. CASE q = p
      BY <3>4, <3>6
    <3>7. CASE q # p
      BY <3>3, <3>5, <3>7 DEF OwnTemp
    <3> QED
      BY <3>6, <3>7
  <2>2. ASSUME Rename(p) PROVE OwnTemp'
    <3>1. /\ Writing(p) /\ pc' = [pc EXCEPT ![p] = "drop"] /\ tmp' = tmp
          /\ names' = [names EXCEPT ![job[p].key] = names[tmp[p]], ![tmp[p]] = NoInode]
      BY <2>2 DEF Rename, Writing
    <3>2. \A t \in Temps : names'[t] = names[t] \/ names'[t] = NoInode
      <4>1. job[p].key \in Keys
        BY <3>1, JobKey
      <4> QED
        BY <3>1, <4>1 DEF TypeOK, Names
    <3> QED
      BY <1>q, <3>1, <3>2 DEF TypeOK
  <2>3. ASSUME Drop(p) PROVE OwnTemp'
    <3>1. /\ pc'[p] = "idle" /\ names' = [names EXCEPT ![tmp[p]] = NoInode]
          /\ \A q \in Procs \ {p} : pc'[q] = pc[q] /\ tmp'[q] = tmp[q]
      BY <2>3 DEF Drop, Return, TypeOK
    <3>2. \A t \in Temps : names'[t] = names[t] \/ names'[t] = NoInode
      BY <3>1 DEF TypeOK, Names
    <3> QED
      BY <1>q, <3>1, <3>2 DEF Writing
  <2>4. ASSUME DropFails(p) PROVE OwnTemp'
    <3>1. /\ pc'[p] = "idle" /\ names' = names
          /\ \A q \in Procs \ {p} : pc'[q] = pc[q] /\ tmp'[q] = tmp[q]
      BY <2>4 DEF DropFails, Return, TypeOK
    <3> QED
      BY <1>q, <3>1 DEF Writing
  <2>5. ASSUME FillFails(p) \/ Fill(p) \/ RenameFails(p) PROVE OwnTemp'
    <3>1. /\ Writing(p) /\ UNCHANGED <<names, tmp>>
          /\ \A q \in Procs \ {p} : pc'[q] = pc[q]
      BY <2>5 DEF FillFails, Fill, RenameFails, Goto, TypeOK, Writing
    <3> QED
      BY <1>q, <3>1
  <2>6. ASSUME NEW k \in Keys, NEW s \in Summaries, StartWrite(p, k, s) PROVE OwnTemp'
    BY <1>q, <2>6 DEF StartWrite, TypeOK, Writing
  <2>7. ASSUME Mkdir(p) \/ CreateTempFails(p) PROVE OwnTemp'
    <3>1. /\ UNCHANGED <<names, tmp>> /\ pc'[p] \in {"create", "idle"}
          /\ \A q \in Procs \ {p} : pc'[q] = pc[q]
      BY <2>7 DEF Mkdir, CreateTempFails, Goto, End, TypeOK
    <3> QED
      BY <1>q, <3>1 DEF Writing
  <2> QED
    BY <1>1, <2>1, <2>2, <2>3, <2>4, <2>5, <2>6, <2>7 DEF Write
<1>2. ASSUME NEW p \in Procs, Read(p) PROVE OwnTemp'
  <2>1. /\ UNCHANGED <<names, tmp>> /\ pc'[p] \in {"idle", "lstat", "open", "load"}
        /\ \A q \in Procs \ {p} : pc'[q] = pc[q]
    BY <1>2 DEF Read, StartRead, Lstat, Open, Load, ReadFails, Goto, End, TypeOK
  <2> QED
    BY <1>q, <2>1 DEF Writing
<1>3. ASSUME NEW p \in Procs, Clean(p) PROVE OwnTemp'
  <2>1. tmp' = tmp /\ ~ Writing(p)' /\ \A q \in Procs \ {p} : pc'[q] = pc[q]
    BY <1>3
    DEF Clean, StartClean, List, ListFails, Sweep, SweepFails, Swept, Goto, End, TypeOK, Writing
  <2>2. names' = names \/ \E e \in todo[p] : names' = [names EXCEPT ![e.name] = NoInode]
    BY <1>3 DEF Clean, StartClean, List, ListFails, Sweep, SweepFails, Swept
  <2>3. \A t \in Temps : names'[t] = names[t] \/ names'[t] = NoInode
    BY <2>2 DEF TypeOK, Names
  <2> QED
    BY <1>q, <2>1, <2>3
<1>4. ASSUME NEW p \in Procs, Crash(p) PROVE OwnTemp'
  <2>1. /\ pc'[p] = "idle" /\ names' = names
        /\ \A q \in Procs \ {p} : pc'[q] = pc[q] /\ tmp'[q] = tmp[q]
    BY <1>4 DEF Crash, TypeOK
  <2> QED
    BY <1>q, <2>1 DEF Writing
<1>5. ASSUME NEW i \in Inodes, Damage(i) PROVE OwnTemp'
  BY <1>5 DEF Damage, OwnTemp, Writing
<1>6. ASSUME NEW k \in Keys, NEW e \in {Folder, Link}, Meddle(k, e) PROVE OwnTemp'
  <2>1. UNCHANGED <<pc, tmp>> /\ names' = [names EXCEPT ![k] = e]
    BY <1>6 DEF Meddle
  <2>2. \A t \in Temps : names'[t] = names[t]
    BY <2>1 DEF TypeOK, Names
  <2> QED
    BY <2>1, <2>2, QuietOnOwnTemp DEF Writing
<1>7. CASE UNCHANGED vars
  BY <1>7 DEF vars, OwnTemp, Writing
<1> QED
  BY <1>1, <1>2, <1>3, <1>4, <1>5, <1>6, <1>7 DEF Next

\* Whatever runs at once, fails or is killed, a directory, a link or a file of
\* the user's own is taken away in two cases only: a write replaces a link
\* under an artifact's name, and a Clean removes from such a name what has
\* come there after it was listed with a file.
THEOREM CacheUserEntriesKept == Spec => UserEntriesKept
<1> DEFINE Kept == \A x \in Names :
        Theirs(x) /\ names'[x] # names[x] => Replaced(x) \/ Claimed(x)
<1>1. IInv /\ OwnTemp /\ [Next]_vars => [Kept]_vars
  <2> SUFFICES ASSUME IInv, OwnTemp, Next PROVE Kept
    BY DEF vars
  <2> USE CacheAssumption
  <2>t. TypeOK
    BY DEF IInv
  <2>0. CASE UNCHANGED names
    BY <2>0
  <2>1. ASSUME NEW p \in Procs, CreateTemp(p) PROVE Kept
    <3>1. PICK t \in Temps, i \in Inodes : names[t] = NoInode /\ names' = [names EXCEPT ![t] = i]
      BY <2>1 DEF CreateTemp
    <3> QED
      BY <2>t, <3>1 DEF TypeOK, Theirs
  <2>2. ASSUME NEW p \in Procs, Rename(p) PROVE Kept
    <3> DEFINE k == job[p].key
    <3> DEFINE t == tmp[p]
    <3>1. /\ Writing(p) /\ names[t] # NoInode /\ names[k] # Folder
          /\ names' = [names EXCEPT ![k] = names[t], ![t] = NoInode]
      BY <2>2 DEF Rename, Writing
    <3>2. t \in Temps /\ t \in Names /\ k \in Keys /\ k \in Names /\ t # k
      BY <2>t, <3>1, JobKey
    <3>3. names[t] \in Inodes
      BY <3>1 DEF OwnTemp
    <3> HIDE DEF k, t
    <3>4. /\ names'[k] \in Inodes
          /\ \A x \in Names \ {k, t} : names'[x] = names[x]
      BY <2>t, <3>1, <3>2, <3>3 DEF TypeOK
    <3>5. ~ Theirs(t)
      BY <3>2, <3>3 DEF Theirs
    <3>6. Theirs(k) => Replaced(k)
      BY <3>1, <3>2, <3>4 DEF Theirs, Replaced
    <3> QED
      BY <3>4, <3>5, <3>6
  <2>3. ASSUME NEW p \in Procs, Drop(p) PROVE Kept
    <3>1. Writing(p) /\ names' = [names EXCEPT ![tmp[p]] = NoInode]
      BY <2>3 DEF Drop, Writing
    <3>2. tmp[p] \in Temps /\ names[tmp[p]] \in Inodes \cup {NoInode}
      BY <2>t, <3>1, JobKey DEF OwnTemp
    <3>3. ~ Theirs(tmp[p])
      BY <3>2 DEF Theirs
    <3> QED
      BY <2>t, <3>1, <3>3 DEF TypeOK
  <2>4. ASSUME NEW p \in Procs, Sweep(p) PROVE Kept
    <3>1. PICK e \in todo[p] : /\ todo' = [todo EXCEPT ![p] = @ \ {e}]
                               /\ names' = [names EXCEPT ![e.name] = NoInode]
      BY <2>4 DEF Sweep
    <3>2. e \in Entries /\ e.name \in Keys /\ e.type = "file"
      BY <2>t, <3>1, TodoOwned, OwnedAreArtifacts
    <3>3. e \notin todo'[p]
      BY <2>t, <3>1, TodoOwned
    <3>4. Claimed(e.name)
      BY <3>1, <3>2, <3>3 DEF Claimed
    <3> QED
      BY <2>t, <3>1, <3>4 DEF TypeOK
  <2>5. ASSUME NEW k \in Keys, NEW e \in {Folder, Link}, Meddle(k, e) PROVE Kept
    <3>1. names' = [names EXCEPT ![k] = e] /\ names[k] \notin {Folder, Link}
      BY <2>5 DEF Meddle
    <3>2. ~ Theirs(k)
      BY <3>1 DEF Theirs
    <3> QED
      BY <2>t, <3>1, <3>2 DEF TypeOK
  <2>6. ASSUME NEW p \in Procs, Write(p) PROVE Kept
    BY <2>0, <2>1, <2>2, <2>3, <2>6
    DEF Write, StartWrite, Mkdir, CreateTempFails, Fill, FillFails, RenameFails, DropFails
  <2>7. ASSUME NEW p \in Procs, Read(p) PROVE Kept
    BY <2>0, <2>7 DEF Read, StartRead, Lstat, Open, Load, ReadFails
  <2>8. ASSUME NEW p \in Procs, Clean(p) PROVE Kept
    BY <2>0, <2>4, <2>8 DEF Clean, StartClean, List, ListFails, SweepFails, Swept
  <2> HIDE DEF Kept
  <2> QED
    BY <2>0, <2>5, <2>6, <2>7, <2>8 DEF Next, Crash, Damage
<1>2. Init => OwnTemp
  BY DEF Init, OwnTemp, Writing
<1>3. IInv /\ OwnTemp /\ [Next]_vars => OwnTemp'
  BY OwnTempKept DEF IInv
<1> QED
  BY <1>1, <1>2, <1>3, Inductive, PTL DEF Spec, UserEntriesKept

----------------------------------------------------------------------------
(* The refinement of CacheContract.                                          *)

\* A step of p that leaves alone whatever the contract sees is a stutter.
LEMMA Invisible ==
    ASSUME UNCHANGED offered,
           \A p \in Procs : Asked(p)' = Asked(p) /\ Answered(p)' = Answered(p)
    PROVE  UNCHANGED Contract!cvars
BY DEF Contract!cvars

\* A read of p ends with answer r, and the contract allows it.
LEMMA Answers ==
    ASSUME IInv, NEW p \in Procs, NEW r \in Payloads \cup {Miss},
           Reading(p), r \in Payloads => <<job[p].key, r>> \in offered,
           pc' = [pc EXCEPT ![p] = "idle"], outcome' = [outcome EXCEPT ![p] = r],
           UNCHANGED <<job, offered>>
    PROVE  Contract!ContractNext
<1> USE CacheAssumption DEF IInv
<1>1. r \in Summaries \cup {Miss}
  BY DEF TypeOK
<1>2. Asked(p) = job[p].key /\ Asked(p) \in Keys
  BY DEF TypeOK, Reading, Asked
<1>3. r \in Contract!Served([q \in Procs |-> Asked(q)][p])
  BY <1>1, <1>2 DEF Contract!Served, Payloads
<1>4. /\ Asked(p)' = Miss /\ Answered(p)' = r
      /\ \A q \in Procs \ {p} : Asked(q)' = Asked(q) /\ Answered(q)' = Answered(q)
  BY DEF TypeOK, Asked, Answered, Reading, Payloads
<1>5. Contract!Answer(p, r)
  <2> HIDE DEF IInv
  <2>1. [q \in Procs |-> Asked(q)][p] # Miss
    BY <1>2
  <2>2. [q \in Procs |-> Asked(q)]' = [[q \in Procs |-> Asked(q)] EXCEPT ![p] = Miss]
    BY <1>4
  <2>3. [q \in Procs |-> Answered(q)]' = [[q \in Procs |-> Answered(q)] EXCEPT ![p] = r]
    BY <1>4
  <2> QED
    BY <1>3, <2>1, <2>2, <2>3 DEF Contract!Answer
<1> QED
  BY <1>1, <1>5 DEF Contract!ContractNext

\* p starts something, or dies, without reading: the contract's Forget.
LEMMA Forgets ==
    ASSUME NEW p \in Procs, UNCHANGED offered,
           Asked(p)' = Miss, Answered(p)' = Miss,
           \A q \in Procs \ {p} : Asked(q)' = Asked(q) /\ Answered(q)' = Answered(q)
    PROVE  Contract!ContractNext
<1>1. Contract!Forget(p)
  BY DEF Contract!Forget
<1> QED
  BY <1>1 DEF Contract!ContractNext

LEMMA ContractInitially == Init => Contract!ContractInit
BY CacheAssumption DEF Init, Contract!ContractInit, Asked, Answered, Reading, Payloads

LEMMA ContractStep == IInv /\ [Next]_vars => [Contract!ContractNext]_(Contract!cvars)
<1> SUFFICES ASSUME IInv, Next PROVE Contract!ContractNext \/ UNCHANGED Contract!cvars
  BY Invisible DEF vars, Asked, Answered, Reading
<1> USE CacheAssumption
<1>t. TypeOK /\ Honest /\ AnswerAtRest
  BY DEF IInv
<1>1. ASSUME NEW p \in Procs, NEW k \in Keys, NEW s \in Summaries, StartWrite(p, k, s)
      PROVE  Contract!ContractNext
  <2>1. Asked(p) = Miss /\ Asked(p)' = Miss /\ Answered(p)' = Miss
    BY <1>1, <1>t DEF StartWrite, TypeOK, Asked, Answered, Reading, Payloads
  <2>2. \A q \in Procs \ {p} : Asked(q)' = Asked(q) /\ Answered(q)' = Answered(q)
    BY <1>1, <1>t DEF StartWrite, TypeOK, Asked, Answered, Reading
  <2>3. offered' = offered \cup {<<k, s>>}
    BY <1>1 DEF StartWrite
  <2>4. Contract!Offer(p, k, s)
    BY <2>1, <2>2, <2>3 DEF Contract!Offer
  <2> QED
    BY <2>4 DEF Contract!ContractNext
<1>2. ASSUME NEW p \in Procs, NEW k \in Keys, StartRead(p, k)
      PROVE  Contract!ContractNext
  <2>1. Asked(p) = Miss /\ Asked(p)' = k /\ Answered(p)' = Miss
    BY <1>2, <1>t DEF StartRead, TypeOK, Asked, Answered, Reading, Payloads
  <2>2. \A q \in Procs \ {p} : Asked(q)' = Asked(q) /\ Answered(q)' = Answered(q)
    BY <1>2, <1>t DEF StartRead, TypeOK, Asked, Answered, Reading
  <2>3. UNCHANGED offered
    BY <1>2 DEF StartRead
  <2>4. Contract!Ask(p, k)
    BY <2>1, <2>2, <2>3 DEF Contract!Ask
  <2> QED
    BY <2>4 DEF Contract!ContractNext
<1>3. ASSUME NEW p \in Procs, StartClean(p) PROVE Contract!ContractNext
  BY <1>3, <1>t, Forgets DEF StartClean, TypeOK, Asked, Answered, Reading, Payloads
<1>4. ASSUME NEW p \in Procs, Crash(p) PROVE Contract!ContractNext
  BY <1>4, <1>t, Forgets DEF Crash, TypeOK, Asked, Answered, Reading, Payloads
<1>5. ASSUME NEW p \in Procs, Lstat(p)
      PROVE  Contract!ContractNext \/ UNCHANGED Contract!cvars
  <2>0. Reading(p) /\ UNCHANGED <<job, offered>>
    BY <1>5 DEF Lstat, Reading
  <2>1. CASE End(p, Miss)
    BY <1>5, <2>0, <2>1, Answers DEF Lstat, End, Payloads
  <2>2. CASE Goto(p, "open")
    BY <1>5, <1>t, <2>0, <2>2, Invisible DEF Lstat, Goto, TypeOK, Asked, Answered, Reading
  <2> QED
    BY <1>5, <2>1, <2>2 DEF Lstat
<1>6. ASSUME NEW p \in Procs, Open(p)
      PROVE  Contract!ContractNext \/ UNCHANGED Contract!cvars
  <2>0. Reading(p) /\ UNCHANGED <<job, offered>>
    BY <1>6 DEF Open, Reading
  <2>1. CASE End(p, Miss)
    BY <1>6, <2>0, <2>1, Answers DEF Open, End, Payloads
  <2>2. CASE Goto(p, "load")
    BY <1>6, <1>t, <2>0, <2>2, Invisible DEF Open, Goto, TypeOK, Asked, Answered, Reading
  <2> QED
    BY <1>6, <2>1, <2>2 DEF Open
<1>7. ASSUME NEW p \in Procs, Load(p) PROVE Contract!ContractNext
  <2> DEFINE a == content[fd[p]]
  <2> DEFINE r == IF Usable(a, job[p].key) THEN a.payload ELSE Miss
  <2>1. /\ r \in Payloads \cup {Miss}
        /\ r \in Payloads => <<job[p].key, r>> \in offered
    <3>1. a \in Contents /\ fd[p] \in Inodes
      BY <1>7, <1>t DEF Load, TypeOK
    <3> QED
      BY <1>t, <3>1 DEF Usable, Contents, Payloads, Honest
  <2>2. /\ pc' = [pc EXCEPT ![p] = "idle"] /\ outcome' = [outcome EXCEPT ![p] = r]
        /\ UNCHANGED <<job, offered>> /\ Reading(p)
    BY <1>7 DEF Load, End, Reading
  <2> HIDE DEF r
  <2> QED
    BY <2>1, <2>2, Answers
<1>8. ASSUME NEW p \in Procs, ReadFails(p) PROVE Contract!ContractNext
  BY <1>8, Answers DEF ReadFails, End, Reading, Payloads
\* The calls of Write and Clean that the contract does not see: p is not
\* reading, and had no answer.
<1>9. ASSUME NEW p \in Procs, ~ Reading(p), ~ Reading(p)', pc[p] # "idle", UNCHANGED offered,
             outcome[p]' \notin Payloads,
             \A q \in Procs \ {p} : pc'[q] = pc[q] /\ job'[q] = job[q] /\ outcome'[q] = outcome[q]
      PROVE  UNCHANGED Contract!cvars
  <2>1. Answered(p) = Miss /\ Answered(p)' = Miss
    BY <1>9, <1>t DEF AnswerAtRest, Answered
  <2>2. Asked(p) = Miss /\ Asked(p)' = Miss
    BY <1>9 DEF Asked
  <2>3. \A q \in Procs \ {p} : Asked(q)' = Asked(q) /\ Answered(q)' = Answered(q)
    BY <1>9 DEF Asked, Answered, Reading
  <2> QED
    BY <1>9, <2>1, <2>2, <2>3, Invisible
<1>10. ASSUME NEW p \in Procs, Mkdir(p) \/ CreateTemp(p) \/ CreateTempFails(p)
       PROVE  UNCHANGED Contract!cvars
  BY <1>10, <1>9, <1>t
  DEF Mkdir, CreateTemp, CreateTempFails, Goto, End, Reading, TypeOK, AnswerAtRest, Payloads
<1>11. ASSUME NEW p \in Procs, Fill(p) \/ FillFails(p) \/ Rename(p) \/ RenameFails(p)
       PROVE  UNCHANGED Contract!cvars
  BY <1>11, <1>9, <1>t
  DEF Fill, FillFails, Rename, RenameFails, Goto, Reading, TypeOK, AnswerAtRest, Payloads
<1>14. ASSUME NEW p \in Procs, Drop(p) \/ DropFails(p)
       PROVE  UNCHANGED Contract!cvars
  BY <1>14, <1>9, <1>t
  DEF Drop, DropFails, Return, Reading, TypeOK, AnswerAtRest, Payloads
<1>12. ASSUME NEW p \in Procs, List(p) \/ ListFails(p) \/ Sweep(p) \/ SweepFails(p) \/ Swept(p)
       PROVE  UNCHANGED Contract!cvars
  <2>1. UNCHANGED <<job, offered>> /\ pc[p] \in {"list", "sweep"}
    BY <1>12 DEF List, ListFails, Sweep, SweepFails, Swept
  <2>2. \/ Goto(p, "sweep")
        \/ \E r \in {"cleaned", "refused"} : End(p, r)
        \/ UNCHANGED <<pc, outcome>>
    BY <1>12 DEF List, ListFails, Sweep, SweepFails, Swept
  <2>3. CASE Goto(p, "sweep")
    BY <1>9, <1>t, <2>1, <2>3 DEF Goto, Reading, TypeOK, AnswerAtRest
  <2>4. CASE \E r \in {"cleaned", "refused"} : End(p, r)
    BY <1>9, <1>t, <2>1, <2>4 DEF End, Reading, TypeOK, Payloads
  <2>5. CASE UNCHANGED <<pc, outcome>>
    BY <2>1, <2>5, Invisible DEF Asked, Answered, Reading
  <2> QED
    BY <2>2, <2>3, <2>4, <2>5
<1>13. ASSUME NEW i \in Inodes, Damage(i) PROVE UNCHANGED Contract!cvars
  BY <1>13, Invisible DEF Damage, Asked, Answered, Reading
<1>15. ASSUME NEW k \in Keys, NEW e \in {Folder, Link}, Meddle(k, e)
       PROVE  UNCHANGED Contract!cvars
  BY <1>15, Invisible DEF Meddle, Asked, Answered, Reading
<1> QED
  BY <1>1, <1>2, <1>3, <1>4, <1>5, <1>6, <1>7, <1>8, <1>10, <1>11, <1>12, <1>13, <1>14, <1>15
  DEF Next, Write, Read, Clean

\* Every behaviour of the file-level cache is one the contract allows.
THEOREM CacheImplementsContract == Spec => ImplementsContract
BY ContractInitially, ContractStep, Inductive, PTL
DEF Spec, ImplementsContract, Contract!ContractSpec

----------------------------------------------------------------------------
(* No litter.  The temporary files that no writer will remove any more can   *)
(* be counted: only a kill and a removal that fails make one, so there are   *)
(* never more of them than kills and such removals.  When everybody is idle  *)
(* they are all the temporary files there are.                               *)

Orphans == {t \in Temps : names[t] \in Inodes /\ ~ Pending(t)}

LitterBound == IsFiniteSet(Orphans) /\ Cardinality(Orphans) <= kills + stuck

\* A step that kills nobody and leaves behind no name of its own.
LEMMA NoMoreOrphans ==
    ASSUME LitterBound, kills + stuck \in Nat, kills' + stuck' = kills + stuck,
           \A t \in Temps : names'[t] \in Inodes /\ ~ Pending(t)' =>
                names[t] \in Inodes /\ ~ Pending(t)
    PROVE  LitterBound'
<1>1. Orphans' \subseteq Orphans
  BY DEF Orphans
<1>2. IsFiniteSet(Orphans') /\ Cardinality(Orphans') <= Cardinality(Orphans)
  BY <1>1, FS_Subset DEF LitterBound
<1>3. Cardinality(Orphans) \in Nat /\ Cardinality(Orphans') \in Nat
  BY <1>2, FS_CardinalityType DEF LitterBound
<1> QED
  BY <1>2, <1>3 DEF LitterBound

\* Names and writers are as before, or fewer of both.
LEMMA QuietOnTemps ==
    ASSUME LitterBound, kills + stuck \in Nat, UNCHANGED <<kills, stuck>>,
           \A t \in Temps : names'[t] \in Inodes => names[t] \in Inodes,
           \A t \in Temps : names'[t] \in Inodes /\ Pending(t) => Pending(t)'
    PROVE  LitterBound'
BY NoMoreOrphans

\* A process stops writing, for good or ill, and the file under its temporary
\* name stays: one more mishap, and at most one more orphan.
LEMMA OneMoreOrphan ==
    ASSUME LitterBound, kills + stuck \in Nat, kills' + stuck' = (kills + stuck) + 1,
           names' = names, NEW p \in Procs,
           \A q \in Procs \ {p} : pc'[q] = pc[q] /\ tmp'[q] = tmp[q]
    PROVE  LitterBound'
<1>2. Orphans' \subseteq Orphans \cup {tmp[p]}
  <2>1. \A t \in Temps : t # tmp[p] /\ Pending(t) => Pending(t)'
    BY DEF Pending
  <2> QED
    BY <2>1 DEF Orphans
<1>3. /\ IsFiniteSet(Orphans \cup {tmp[p]})
      /\ Cardinality(Orphans \cup {tmp[p]}) <= Cardinality(Orphans) + 1
  <2>1. Cardinality(Orphans) \in Nat
    BY FS_CardinalityType DEF LitterBound
  <2>2. IsFiniteSet(Orphans)
    BY DEF LitterBound
  <2>3. /\ IsFiniteSet(Orphans \cup {tmp[p]})
        /\ \/ Cardinality(Orphans \cup {tmp[p]}) = Cardinality(Orphans)
           \/ Cardinality(Orphans \cup {tmp[p]}) = Cardinality(Orphans) + 1
    BY <2>2, FS_AddElement, Zenon
  <2> QED
    BY <2>1, <2>3
<1>4. /\ IsFiniteSet(Orphans')
      /\ Cardinality(Orphans') <= Cardinality(Orphans \cup {tmp[p]})
  BY <1>2, <1>3, FS_Subset
<1>5. /\ Cardinality(Orphans) \in Nat /\ Cardinality(Orphans') \in Nat
      /\ Cardinality(Orphans \cup {tmp[p]}) \in Nat
  BY <1>3, <1>4, FS_CardinalityType DEF LitterBound
<1>6. Cardinality(Orphans') <= (kills + stuck) + 1
  BY <1>3, <1>4, <1>5 DEF LitterBound
<1> QED
  BY <1>4, <1>6 DEF LitterBound

LEMMA LitterBoundKept == TypeOK /\ LitterBound /\ [Next]_vars => LitterBound'
<1> SUFFICES ASSUME TypeOK, LitterBound, [Next]_vars PROVE LitterBound'
  OBVIOUS
<1> USE CacheAssumption
<1>k. kills \in Nat /\ stuck \in Nat /\ kills + stuck \in Nat
  BY DEF TypeOK
\* Steps after which every writer still writes under the name it had.
<1>w. ASSUME UNCHANGED <<names, tmp, kills, stuck>>,
             \A q \in Procs : pc[q] \in {"fill", "rename", "drop"} =>
                 pc'[q] \in {"fill", "rename", "drop"}
      PROVE  LitterBound'
  <2>1. \A t \in Temps : Pending(t) => Pending(t)'
    BY <1>w DEF Pending
  <2> QED
    BY <1>w, <2>1, QuietOnTemps, <1>k
<1>1. ASSUME NEW p \in Procs, Write(p) PROVE LitterBound'
  <2>1. ASSUME CreateTemp(p) PROVE LitterBound'
    <3>1. PICK t \in Temps, i \in Inodes : /\ names[t] = NoInode
                                           /\ names' = [names EXCEPT ![t] = i]
                                           /\ tmp' = [tmp EXCEPT ![p] = t]
      BY <2>1 DEF CreateTemp
    <3>2. pc[p] = "create" /\ pc' = [pc EXCEPT ![p] = "fill"] /\ UNCHANGED <<kills, stuck>>
      BY <2>1 DEF CreateTemp, Goto
    <3>3. Pending(t)'
      BY <3>1, <3>2 DEF TypeOK, Pending
    <3>4. \A u \in Temps : Pending(u) => Pending(u)'
      BY <3>1, <3>2 DEF TypeOK, Pending
    <3>5. \A u \in Temps \ {t} : names'[u] = names[u]
      BY <3>1 DEF TypeOK, Names
    <3> QED
      BY <3>2, <3>3, <3>4, <3>5, NoMoreOrphans, <1>k
  <2>2. ASSUME Rename(p) PROVE LitterBound'
    <3>0. tmp[p] \in Temps /\ <<job[p].key, job[p].summary>> \in Keys \X Summaries
      BY <2>2 DEF Rename, TypeOK
    <3>1. /\ tmp[p] \in Temps /\ job[p].key \in Keys
          /\ pc' = [pc EXCEPT ![p] = "drop"] /\ UNCHANGED <<tmp, kills, stuck>>
      BY <2>2, <3>0 DEF Rename
    <3>2. \A t \in Temps : names'[t] \in Inodes => names[t] \in Inodes
      <4>1. names' = [names EXCEPT ![job[p].key] = names[tmp[p]], ![tmp[p]] = NoInode]
        BY <2>2 DEF Rename
      <4> QED
        BY <3>1, <4>1 DEF TypeOK, Names
    <3>3. \A t \in Temps : Pending(t) => Pending(t)'
      BY <3>1 DEF TypeOK, Pending
    <3> QED
      BY <3>1, <3>2, <3>3, QuietOnTemps, <1>k
  <2>3. ASSUME Drop(p) PROVE LitterBound'
    <3>1. /\ tmp[p] \in Temps /\ UNCHANGED <<kills, stuck>>
          /\ names' = [names EXCEPT ![tmp[p]] = NoInode]
          /\ \A q \in Procs \ {p} : pc'[q] = pc[q] /\ tmp'[q] = tmp[q]
      <4>1. pc[p] = "drop" /\ DOMAIN pc = Procs /\ DOMAIN tmp = Procs
        BY <2>3 DEF Drop, TypeOK
      <4>2. tmp[p] \in Temps
        BY <4>1 DEF TypeOK
      <4> QED
        BY <2>3, <4>1, <4>2 DEF Drop, Return
    <3>2. \A t \in Temps : names'[t] \in Inodes => names[t] \in Inodes /\ t # tmp[p]
      BY <3>1 DEF TypeOK, Names
    <3>3. \A t \in Temps : t # tmp[p] /\ Pending(t) => Pending(t)'
      BY <3>1 DEF Pending
    <3> QED
      BY <3>1, <3>2, <3>3, QuietOnTemps, <1>k
  <2>4. ASSUME FillFails(p) \/ Fill(p) \/ RenameFails(p) PROVE LitterBound'
    BY <1>w, <2>4 DEF FillFails, Fill, RenameFails, Goto, TypeOK
  <2>7. ASSUME DropFails(p) PROVE LitterBound'
    <3>1. /\ stuck' = stuck + 1 /\ kills' = kills /\ names' = names
          /\ \A q \in Procs \ {p} : pc'[q] = pc[q] /\ tmp'[q] = tmp[q]
      BY <2>7 DEF DropFails, Return, TypeOK
    <3>2. kills' + stuck' = (kills + stuck) + 1
      BY <3>1, <1>k
    <3> QED
      BY <3>1, <3>2, <1>k, OneMoreOrphan
  <2>5. ASSUME NEW k \in Keys, NEW s \in Summaries, StartWrite(p, k, s) PROVE LitterBound'
    BY <1>w, <2>5 DEF StartWrite, TypeOK
  <2>6. ASSUME Mkdir(p) \/ CreateTempFails(p) PROVE LitterBound'
    BY <1>w, <2>6 DEF Mkdir, CreateTempFails, Goto, End, TypeOK
  <2> QED
    BY <1>1, <2>1, <2>2, <2>3, <2>4, <2>5, <2>6, <2>7 DEF Write
<1>2. ASSUME NEW p \in Procs, Read(p) PROVE LitterBound'
  <2>1. /\ UNCHANGED <<names, tmp, kills, stuck>>
        /\ pc[p] \in {"idle", "lstat", "open", "load"}
        /\ \A q \in Procs \ {p} : pc'[q] = pc[q]
    BY <1>2 DEF Read, StartRead, Lstat, Open, Load, ReadFails, Goto, End, TypeOK
  <2> QED
    BY <1>w, <2>1
<1>3. ASSUME NEW p \in Procs, Clean(p) PROVE LitterBound'
  <2>1. /\ UNCHANGED <<tmp, kills, stuck>> /\ pc[p] \in {"idle", "list", "sweep"}
        /\ \A q \in Procs \ {p} : pc'[q] = pc[q]
    BY <1>3
    DEF Clean, StartClean, List, ListFails, Sweep, SweepFails, Swept, Goto, End, TypeOK
  <2>2. \A t \in Temps : names'[t] = names[t]
    <3>1. \/ names' = names
          \/ \E e \in todo[p] : names' = [names EXCEPT ![e.name] = NoInode]
      BY <1>3 DEF Clean, StartClean, List, ListFails, Sweep, SweepFails, Swept
    <3>2. \A e \in todo[p] : e.name \in Keys
      BY TodoOwned, OwnedAreArtifacts
    <3> QED
      BY <3>1, <3>2 DEF TypeOK, Names
  <2>3. \A t \in Temps : Pending(t) => Pending(t)'
    BY <2>1 DEF Pending
  <2> QED
    BY <2>1, <2>2, <2>3, QuietOnTemps, <1>k
<1>4. ASSUME NEW p \in Procs, Crash(p) PROVE LitterBound'
  <2>1. /\ kills' = kills + 1 /\ stuck' = stuck /\ names' = names
        /\ \A q \in Procs \ {p} : pc'[q] = pc[q] /\ tmp'[q] = tmp[q]
    BY <1>4 DEF Crash, TypeOK
  <2>2. kills' + stuck' = (kills + stuck) + 1
    BY <2>1, <1>k
  <2> QED
    BY <2>1, <2>2, <1>k, OneMoreOrphan
<1>5. ASSUME NEW i \in Inodes, Damage(i) PROVE LitterBound'
  BY <1>5, <1>w DEF Damage
<1>6. CASE UNCHANGED vars
  BY <1>6, <1>w DEF vars
<1>7. ASSUME NEW k \in Keys, NEW e \in {Folder, Link}, Meddle(k, e) PROVE LitterBound'
  <2>1. /\ UNCHANGED <<pc, tmp, kills, stuck>> /\ names' = [names EXCEPT ![k] = e]
    BY <1>7 DEF Meddle
  <2>2. \A t \in Temps : names'[t] = names[t]
    BY <2>1 DEF TypeOK, Names
  <2>3. \A t \in Temps : Pending(t) => Pending(t)'
    BY <2>1 DEF Pending
  <2> QED
    BY <2>1, <2>2, <2>3, QuietOnTemps, <1>k
<1> QED
  BY <1>1, <1>2, <1>3, <1>4, <1>5, <1>6, <1>7 DEF Next

\* Whatever fails, and however often a temporary name is used again, a write
\* leaves no file behind unless it is killed or its deferred Remove fails:
\* there are never more files left than kills and removals that failed.
THEOREM CacheLeavesNoLitter == Spec => []NoLitter
<1>1. Init => LitterBound
  <2> SUFFICES ASSUME Init PROVE LitterBound
    OBVIOUS
  <2>1. Orphans = {}
    BY CacheAssumption DEF Init, Orphans, Names
  <2> QED
    BY <2>1, FS_EmptySet DEF LitterBound, Init
<1>2. LitterBound => NoLitter
  <2> SUFFICES ASSUME LitterBound, \A p \in Procs : pc[p] = "idle"
               PROVE  Cardinality({t \in Temps : names[t] \in Inodes}) <= kills + stuck
    BY DEF NoLitter
  <2>1. \A t \in Temps : ~ Pending(t)
    BY DEF Pending
  <2>2. {t \in Temps : names[t] \in Inodes} = Orphans
    BY <2>1 DEF Orphans
  <2> QED
    BY <2>2 DEF LitterBound
<1>3. IInv /\ LitterBound /\ [Next]_vars => LitterBound'
  BY LitterBoundKept DEF IInv
<1> QED
  BY <1>1, <1>2, <1>3, Inductive, PTL DEF Spec

----------------------------------------------------------------------------
(* Published artifacts are whole, when no temporary name is used again       *)
(* before its last writer is done with it and nothing damages the disk.      *)
(* Then a writer owns the file under its name from CreateTemp to Rename: no  *)
(* other writer has the name (OneWriter), it still refers to the file the    *)
(* descriptor has open (OwnFile), no other name refers to that file          *)
(* (OneName), and from Fill on the file holds the artifact (Complete).       *)

OneWriter == \A p, q \in Procs : Writing(p) /\ Writing(q) /\ tmp[p] = tmp[q] => p = q

OwnFile == \A p \in Procs : pc[p] = "fill" => names[tmp[p]] = fd[p]

Complete ==
    \A p \in Procs : pc[p] = "rename" =>
        /\ names[tmp[p]] \in Inodes
        /\ content[names[tmp[p]]] = Artifact(job[p].key, job[p].summary)

OneName ==
    \A x \in Keys \cup Temps, y \in Names :
        names[x] = names[y] /\ names[x] \in Inodes => x = y

Tidy == OneWriter /\ OwnFile /\ Complete /\ OneName /\ PublishedWhole

\* What a name refers to keeps its contents.
LEMMA ReclaimSpares ==
    ASSUME NEW c, NEW n, NEW f, NEW x \in Names, n[x] \in Inodes
    PROVE  Reclaim(c, n, f)[n[x]] = c[n[x]]
BY DEF Reclaim, InUse, Linked

\* A step that changes neither names nor the contents of a named file, and
\* lets no process get on with a write, unless from fill or rename to drop.
LEMMA QuietOnFiles ==
    ASSUME TypeOK, Tidy, names' = names,
           \A x \in Names : names[x] \in Inodes => content'[names[x]] = content[names[x]],
           \A p \in Procs : pc'[p] \in {"fill", "rename"} =>
               /\ pc'[p] = pc[p] /\ tmp'[p] = tmp[p] /\ fd'[p] = fd[p] /\ job'[p] = job[p],
           \A p \in Procs : Writing(p)' => Writing(p) /\ tmp'[p] = tmp[p]
    PROVE  Tidy'
<1>1. OneWriter'
  BY DEF Tidy, OneWriter
<1>2. OwnFile'
  BY DEF Tidy, OwnFile
<1>3. Complete'
  <2> SUFFICES ASSUME NEW p \in Procs, pc'[p] = "rename"
               PROVE  /\ names'[tmp'[p]] \in Inodes
                      /\ content'[names'[tmp'[p]]] = Artifact(job'[p].key, job'[p].summary)
    BY DEF Complete
  <2>1. pc[p] = "rename" /\ tmp'[p] = tmp[p] /\ job'[p] = job[p]
    OBVIOUS
  <2>2. tmp[p] \in Names
    BY <2>1 DEF TypeOK, Names
  <2>3. /\ names[tmp[p]] \in Inodes
        /\ content[names[tmp[p]]] = Artifact(job[p].key, job[p].summary)
    BY <2>1 DEF Tidy, Complete
  <2> QED
    BY <2>1, <2>2, <2>3
<1>4. OneName'
  BY DEF Tidy, OneName
<1>5. PublishedWhole'
  <2> SUFFICES ASSUME NEW k \in Keys, names[k] \in Inodes
               PROVE  Usable(content'[names[k]], k)
    BY DEF PublishedWhole
  <2>1. k \in Names /\ names[k] \in Inodes
    BY DEF TypeOK, Names
  <2>2. Usable(content[names[k]], k)
    BY DEF Tidy, PublishedWhole
  <2>3. content'[names[k]] = content[names[k]]
    BY <2>1
  <2> QED
    BY <2>2, <2>3
<1> QED
  BY <1>1, <1>2, <1>3, <1>4, <1>5 DEF Tidy

\* A name is removed or given to something of the user's, but none that a
\* writer counts on: everything else is as it was, and the files that keep
\* their name keep their contents.
LEMMA NamesRemoved ==
    ASSUME TypeOK, Tidy, NEW x \in Names, NEW e \in {Folder, Link, NoInode},
           names' = [names EXCEPT ![x] = e],
           content' = Reclaim(content, names', fd'),
           \A p \in Procs : pc'[p] \in {"fill", "rename"} =>
               /\ pc'[p] = pc[p] /\ tmp'[p] = tmp[p] /\ fd'[p] = fd[p] /\ job'[p] = job[p]
               /\ tmp[p] # x,
           \A p \in Procs : Writing(p)' => Writing(p) /\ tmp'[p] = tmp[p]
    PROVE  Tidy'
<1>0. /\ \A y \in Names : y # x => names'[y] = names[y]
      /\ names'[x] \notin Inodes
  BY CacheAssumption DEF TypeOK
<1>c. \A y \in Names : names'[y] \in Inodes => content'[names'[y]] = content[names'[y]]
  <2> SUFFICES ASSUME NEW y \in Names, names'[y] \in Inodes
               PROVE  Reclaim(content, names', fd')[names'[y]] = content[names'[y]]
    OBVIOUS
  <2> QED
    BY DEF Reclaim, InUse, Linked
<1>1. OneWriter'
  BY DEF Tidy, OneWriter
<1>2. OwnFile'
  <2> SUFFICES ASSUME NEW p \in Procs, pc'[p] = "fill" PROVE names'[tmp'[p]] = fd'[p]
    BY DEF OwnFile
  <2>1. pc[p] = "fill" /\ tmp'[p] = tmp[p] /\ fd'[p] = fd[p] /\ tmp[p] # x
    OBVIOUS
  <2>2. tmp[p] \in Names
    BY <2>1 DEF TypeOK, Names
  <2> QED
    BY <1>0, <2>1, <2>2 DEF Tidy, OwnFile
<1>3. Complete'
  <2> SUFFICES ASSUME NEW p \in Procs, pc'[p] = "rename"
               PROVE  /\ names'[tmp'[p]] \in Inodes
                      /\ content'[names'[tmp'[p]]] = Artifact(job'[p].key, job'[p].summary)
    BY DEF Complete
  <2>1. pc[p] = "rename" /\ tmp'[p] = tmp[p] /\ job'[p] = job[p] /\ tmp[p] # x
    OBVIOUS
  <2>2. tmp[p] \in Names
    BY <2>1 DEF TypeOK, Names
  <2>3. /\ names[tmp[p]] \in Inodes
        /\ content[names[tmp[p]]] = Artifact(job[p].key, job[p].summary)
    BY <2>1 DEF Tidy, Complete
  <2>4. names'[tmp[p]] = names[tmp[p]]
    BY <1>0, <2>1, <2>2
  <2>5. content'[names'[tmp[p]]] = content[names[tmp[p]]]
    BY <1>c, <2>2, <2>3, <2>4
  <2> QED
    BY <2>1, <2>3, <2>4, <2>5
<1>4. OneName'
  <2>1. \A y \in Names : names'[y] \in Inodes => names'[y] = names[y]
    BY <1>0
  <2> QED
    BY <2>1 DEF Tidy, OneName, Names
<1>5. PublishedWhole'
  <2> SUFFICES ASSUME NEW k \in Keys, names'[k] \in Inodes
               PROVE  Usable(content'[names'[k]], k)
    BY DEF PublishedWhole
  <2>1. k \in Names /\ k # x /\ names'[k] = names[k]
    BY <1>0 DEF Names
  <2>2. names[k] \in Inodes
    BY <2>1 DEF TypeOK
  <2>3. Usable(content[names[k]], k)
    BY <2>1 DEF Tidy, PublishedWhole
  <2>4. content'[names'[k]] = content[names[k]]
    BY <1>c, <2>1, <2>2
  <2> QED
    BY <2>3, <2>4
<1> QED
  BY <1>1, <1>2, <1>3, <1>4, <1>5 DEF Tidy

LEMMA InitTidy == Init => Tidy
<1> SUFFICES ASSUME Init PROVE Tidy
  OBVIOUS
<1>1. OneWriter /\ OwnFile /\ Complete
  BY DEF Init, OneWriter, OwnFile, Complete, Writing
<1>2. \A x \in Keys \cup Temps : names[x] \notin Inodes
  BY CacheAssumption DEF Init, Names
<1> QED
  BY <1>1, <1>2 DEF Tidy, OneName, PublishedWhole

\* O_EXCL on a name nobody counts on, and a fresh inode.
LEMMA CreateKeepsTidy ==
    ASSUME TypeOK, Tidy, "reuse" \notin Faults, NEW p \in Procs, CreateTemp(p)
    PROVE  Tidy'
<1> USE CacheAssumption
<1>1. PICK t \in Temps, i \in Inodes : /\ names[t] = NoInode /\ ~ Pending(t)
                                       /\ ~ InUse(names, fd, i)
                                       /\ names' = [names EXCEPT ![t] = i]
                                       /\ fd' = [fd EXCEPT ![p] = i]
                                       /\ tmp' = [tmp EXCEPT ![p] = t]
  BY DEF CreateTemp
<1>2. /\ pc[p] = "create" /\ pc' = [pc EXCEPT ![p] = "fill"]
      /\ content' = content /\ job' = job
  BY DEF CreateTemp, Goto
<1>3. /\ pc'[p] = "fill" /\ fd'[p] = i /\ tmp'[p] = t /\ names'[t] = i /\ t \in Names
      /\ \A q \in Procs \ {p} : pc'[q] = pc[q] /\ fd'[q] = fd[q] /\ tmp'[q] = tmp[q]
      /\ \A y \in Names \ {t} : names'[y] = names[y]
  BY <1>1, <1>2 DEF TypeOK, Names
<1>4. \A q \in Procs \ {p} : Writing(q) => tmp[q] # t
  BY <1>1 DEF Pending, Writing
<1>5. \A y \in Names : names[y] # i
  BY <1>1 DEF InUse, Linked
<1>6. OneWriter'
  BY <1>3, <1>4 DEF Tidy, OneWriter, Writing
<1>7. OwnFile'
  <2> SUFFICES ASSUME NEW q \in Procs, pc'[q] = "fill" PROVE names'[tmp'[q]] = fd'[q]
    BY DEF OwnFile
  <2>1. CASE q = p
    BY <1>3, <2>1
  <2>2. CASE q # p
    <3>1. tmp[q] # t /\ tmp[q] \in Names
      BY <1>3, <1>4, <2>2 DEF Writing, TypeOK, Names
    <3> QED
      BY <1>3, <2>2, <3>1 DEF Tidy, OwnFile
  <2> QED
    BY <2>1, <2>2
<1>8. Complete'
  <2> SUFFICES ASSUME NEW q \in Procs, pc'[q] = "rename"
               PROVE  /\ names'[tmp'[q]] \in Inodes
                      /\ content'[names'[tmp'[q]]] = Artifact(job'[q].key, job'[q].summary)
    BY DEF Complete
  <2>1. q # p /\ pc[q] = "rename"
    BY <1>3
  <2>2. tmp[q] # t /\ tmp[q] \in Names
    BY <1>4, <2>1 DEF Writing, TypeOK, Names
  <2> QED
    BY <1>2, <1>3, <2>1, <2>2 DEF Tidy, Complete
<1>9. OneName'
  <2> SUFFICES ASSUME NEW x \in Keys \cup Temps, NEW y \in Names,
                      names'[x] = names'[y], names'[x] \in Inodes
               PROVE  x = y
    BY DEF OneName
  <2>1. x \in Names
    BY DEF Names
  <2>2. CASE x = t \/ y = t
    BY <1>3, <1>5, <2>1, <2>2
  <2>3. CASE x # t /\ y # t
    BY <1>3, <2>1, <2>3 DEF Tidy, OneName
  <2> QED
    BY <2>2, <2>3
<1>10. PublishedWhole'
  <2>1. \A k \in Keys : names'[k] = names[k]
    BY <1>3 DEF Names
  <2> QED
    BY <1>2, <2>1 DEF Tidy, PublishedWhole
<1> QED
  BY <1>6, <1>7, <1>8, <1>9, <1>10 DEF Tidy

\* The artifact goes into the writer's own file, which no other name refers to.
LEMMA FillKeepsTidy ==
    ASSUME TypeOK, Tidy, NEW p \in Procs, Fill(p)
    PROVE  Tidy'
<1> USE CacheAssumption
<1> DEFINE a == Artifact(job[p].key, job[p].summary)
<1> DEFINE c == [content EXCEPT ![fd[p]] = a]
<1>1. /\ pc[p] = "fill" /\ pc' = [pc EXCEPT ![p] = "rename"]
      /\ fd' = [fd EXCEPT ![p] = NoInode]
      /\ content' = Reclaim(c, names, fd')
      /\ UNCHANGED <<names, job, tmp>>
  BY DEF Fill, Goto
<1>2. fd[p] \in Inodes /\ tmp[p] \in Temps /\ tmp[p] \in Names /\ names[tmp[p]] = fd[p]
  BY <1>1 DEF TypeOK, Names, Tidy, OwnFile
<1>3. c[fd[p]] = a /\ \A i \in Inodes \ {fd[p]} : c[i] = content[i]
  BY <1>2 DEF TypeOK
<1>4. \A y \in Names : names[y] \in Inodes => content'[names[y]] = c[names[y]]
  <2> HIDE DEF c
  <2> QED
    BY <1>1, ReclaimSpares
<1> HIDE DEF a, c
<1>5. content'[names[tmp[p]]] = a
  BY <1>2, <1>3, <1>4
<1>6. \A y \in Names : y # tmp[p] /\ names[y] \in Inodes => content'[names[y]] = content[names[y]]
  <2> SUFFICES ASSUME NEW y \in Names, y # tmp[p], names[y] \in Inodes
               PROVE  content'[names[y]] = content[names[y]]
    OBVIOUS
  <2>1. names[y] # fd[p]
    BY <1>2 DEF Tidy, OneName
  <2> QED
    BY <1>3, <1>4, <2>1
<1>7. /\ pc'[p] = "rename"
      /\ \A q \in Procs \ {p} : pc'[q] = pc[q] /\ fd'[q] = fd[q]
  BY <1>1 DEF TypeOK
<1>8. OneWriter' /\ OneName'
  BY <1>1, <1>7 DEF Tidy, OneWriter, OneName, Writing
<1>9. OwnFile'
  BY <1>1, <1>7 DEF Tidy, OwnFile
<1>10. Complete'
  <2> SUFFICES ASSUME NEW q \in Procs, pc'[q] = "rename"
               PROVE  /\ names[tmp[q]] \in Inodes
                      /\ content'[names[tmp[q]]] = Artifact(job[q].key, job[q].summary)
    BY <1>1 DEF Complete
  <2>1. CASE q = p
    BY <1>2, <1>5, <2>1 DEF a
  <2>2. CASE q # p
    <3>1. pc[q] = "rename"
      BY <1>7, <2>2
    <3>2. tmp[q] # tmp[p] /\ tmp[q] \in Names
      BY <1>1, <2>2, <3>1 DEF Tidy, OneWriter, Writing, TypeOK, Names
    <3>3. /\ names[tmp[q]] \in Inodes
          /\ content[names[tmp[q]]] = Artifact(job[q].key, job[q].summary)
      BY <3>1 DEF Tidy, Complete
    <3> QED
      BY <1>6, <3>2, <3>3
  <2> QED
    BY <2>1, <2>2
<1>11. PublishedWhole'
  <2> SUFFICES ASSUME NEW k \in Keys, names[k] \in Inodes
               PROVE  Usable(content'[names[k]], k)
    BY <1>1 DEF PublishedWhole
  <2>1. k \in Names /\ k # tmp[p] /\ names[k] \in Inodes
    BY <1>2 DEF TypeOK, Names
  <2>2. Usable(content[names[k]], k)
    BY DEF Tidy, PublishedWhole
  <2> QED
    BY <1>6, <2>1, <2>2
<1> QED
  BY <1>8, <1>9, <1>10, <1>11 DEF Tidy

\* Only here does a final name get a file, and that file is complete.
LEMMA RenameKeepsTidy ==
    ASSUME TypeOK, Tidy, NEW p \in Procs, Rename(p)
    PROVE  Tidy'
<1> USE CacheAssumption
<1> DEFINE k == job[p].key
<1> DEFINE t == tmp[p]
<1>1. /\ pc[p] = "rename" /\ pc' = [pc EXCEPT ![p] = "drop"] /\ UNCHANGED <<job, tmp, fd>>
  BY DEF Rename
<1>2. names[t] \in Inodes /\ content[names[t]] = Artifact(k, job[p].summary)
  BY <1>1 DEF Tidy, Complete
<1>3. t \in Temps /\ k \in Keys /\ job[p].summary \in Summaries
  <2>1. t \in Temps /\ <<k, job[p].summary>> \in Keys \X Summaries
    BY <1>1 DEF TypeOK
  <2> QED
    BY <2>1
<1>4. /\ names' = [names EXCEPT ![k] = names[t], ![t] = NoInode]
      /\ content' = Reclaim(content, names', fd)
  BY <1>2 DEF Rename
<1> HIDE DEF k, t
<1>5. /\ k \in Names /\ t \in Names /\ k # t
      /\ names'[k] = names[t] /\ names'[t] = NoInode
      /\ \A y \in Names \ {k, t} : names'[y] = names[y]
  BY <1>3, <1>4 DEF TypeOK, Names
<1>6. \A y \in Names : names'[y] \in Inodes => content'[names'[y]] = content[names'[y]]
  <2> SUFFICES ASSUME NEW y \in Names, names'[y] \in Inodes
               PROVE  Reclaim(content, names', fd)[names'[y]] = content[names'[y]]
    BY <1>4
  <2> QED
    BY DEF Reclaim, InUse, Linked
<1>7. /\ pc'[p] = "drop"
      /\ \A q \in Procs \ {p} : pc'[q] = pc[q]
  BY <1>1 DEF TypeOK
<1>8. \A q \in Procs \ {p} : pc[q] \in {"fill", "rename"} =>
          tmp[q] \in Names /\ names'[tmp[q]] = names[tmp[q]]
  <2> SUFFICES ASSUME NEW q \in Procs, q # p, pc[q] \in {"fill", "rename"}
               PROVE  tmp[q] \in Names /\ names'[tmp[q]] = names[tmp[q]]
    OBVIOUS
  <2>1. tmp[q] \in Temps
    BY DEF TypeOK
  <2>2. tmp[q] # t
    BY <1>1 DEF Tidy, OneWriter, Writing, t
  <2> QED
    BY <1>3, <1>5, <2>1, <2>2 DEF Names
<1>9. OneWriter'
  BY <1>1, <1>7 DEF Tidy, OneWriter, Writing
<1>10. OwnFile'
  BY <1>1, <1>7, <1>8 DEF Tidy, OwnFile
<1>11. Complete'
  <2> SUFFICES ASSUME NEW q \in Procs, pc'[q] = "rename"
               PROVE  /\ names'[tmp[q]] \in Inodes
                      /\ content'[names'[tmp[q]]] = Artifact(job[q].key, job[q].summary)
    BY <1>1 DEF Complete
  <2>1. q # p /\ pc[q] = "rename"
    BY <1>7
  <2>2. /\ names[tmp[q]] \in Inodes
        /\ content[names[tmp[q]]] = Artifact(job[q].key, job[q].summary)
    BY <2>1 DEF Tidy, Complete
  <2>3. tmp[q] \in Names /\ names'[tmp[q]] = names[tmp[q]]
    BY <1>8, <2>1
  <2>4. content'[names'[tmp[q]]] = content[names[tmp[q]]]
    BY <1>6, <2>2, <2>3
  <2> QED
    BY <2>2, <2>3, <2>4
<1>12. OneName'
  <2> SUFFICES ASSUME NEW x \in Keys \cup Temps, NEW y \in Names,
                      names'[x] = names'[y], names'[x] \in Inodes
               PROVE  x = y
    BY DEF OneName
  <2>1. x \in Names /\ x # t /\ y # t
    BY <1>5, CacheAssumption DEF Names
  <2>2. \A z \in Names : names[t] = names[z] => t = z
    BY <1>2, <1>3 DEF Tidy, OneName, t
  <2>3. CASE x = k \/ y = k
    BY <1>5, <2>1, <2>2, <2>3
  <2>4. CASE x # k /\ y # k
    BY <1>5, <2>1, <2>4 DEF Tidy, OneName
  <2> QED
    BY <2>3, <2>4
<1>13. PublishedWhole'
  <2> SUFFICES ASSUME NEW y \in Keys, names'[y] \in Inodes
               PROVE  Usable(content'[names'[y]], y)
    BY DEF PublishedWhole
  <2>1. CASE y = k
    <3>1. content'[names'[k]] = Artifact(k, job[p].summary)
      BY <1>2, <1>5, <1>6
    <3>2. Artifact(k, job[p].summary) # Torn
      BY <3>1, <1>2, <1>3 DEF Artifact, t
    <3> QED
      BY <2>1, <3>1, <3>2 DEF Usable, Artifact
  <2>2. CASE y # k
    <3>1. y \in Names /\ names'[y] = names[y]
      BY <1>3, <1>5, <2>2 DEF Names
    <3>2. names[y] \in Inodes
      BY <3>1 DEF TypeOK
    <3>3. Usable(content[names[y]], y)
      BY <3>1 DEF Tidy, PublishedWhole
    <3>4. content'[names'[y]] = content[names[y]]
      BY <1>6, <3>1, <3>2
    <3> QED
      BY <3>3, <3>4
  <2> QED
    BY <2>1, <2>2
<1> QED
  BY <1>9, <1>10, <1>11, <1>12, <1>13 DEF Tidy

LEMMA TidyKept ==
    ASSUME Faults \cap {"damage", "reuse"} = {}, TypeOK, Tidy, [Next]_vars
    PROVE  Tidy'
<1> USE CacheAssumption
\* Blocks are given back, no name is touched, and at most p moves: out of its
\* write, from fill to drop, or without having one.
<1>q. ASSUME NEW p \in Procs, NEW f, names' = names,
             content' = content \/ content' = Reclaim(content, names, f),
             \/ ~ Writing(p)'
             \/ pc'[p] = "drop" /\ Writing(p) /\ tmp'[p] = tmp[p],
             \A q \in Procs \ {p} :
                 pc'[q] = pc[q] /\ tmp'[q] = tmp[q] /\ fd'[q] = fd[q] /\ job'[q] = job[q]
      PROVE  Tidy'
  <2>1. \A x \in Names : names[x] \in Inodes => content'[names[x]] = content[names[x]]
    BY <1>q, ReclaimSpares
  <2>2. \A q \in Procs : pc'[q] \in {"fill", "rename"} =>
            pc'[q] = pc[q] /\ tmp'[q] = tmp[q] /\ fd'[q] = fd[q] /\ job'[q] = job[q]
    BY <1>q DEF Writing
  <2>3. \A q \in Procs : Writing(q)' => Writing(q) /\ tmp'[q] = tmp[q]
    BY <1>q DEF Writing
  <2> QED
    BY <1>q, <2>1, <2>2, <2>3, QuietOnFiles
<1>1. ASSUME NEW p \in Procs, Write(p) PROVE Tidy'
  <2>1. ASSUME NEW k \in Keys, NEW s \in Summaries, StartWrite(p, k, s) PROVE Tidy'
    <3>1. /\ UNCHANGED <<names, content>> /\ pc'[p] = "mkdir"
          /\ \A q \in Procs \ {p} :
                 pc'[q] = pc[q] /\ tmp'[q] = tmp[q] /\ fd'[q] = fd[q] /\ job'[q] = job[q]
      BY <2>1 DEF StartWrite, TypeOK
    <3> QED
      BY <1>q, <3>1 DEF Writing
  <2>2. ASSUME Mkdir(p) \/ CreateTempFails(p) PROVE Tidy'
    <3>1. /\ UNCHANGED <<names, content>> /\ pc'[p] \in {"create", "idle"}
          /\ \A q \in Procs \ {p} :
                 pc'[q] = pc[q] /\ tmp'[q] = tmp[q] /\ fd'[q] = fd[q] /\ job'[q] = job[q]
      BY <2>2 DEF Mkdir, CreateTempFails, Goto, End, TypeOK
    <3> QED
      BY <1>q, <3>1 DEF Writing
  <2>5. ASSUME RenameFails(p) PROVE Tidy'
    <3>1. /\ UNCHANGED <<names, content, tmp>> /\ pc[p] = "rename" /\ pc'[p] = "drop"
          /\ \A q \in Procs \ {p} :
                 pc'[q] = pc[q] /\ tmp'[q] = tmp[q] /\ fd'[q] = fd[q] /\ job'[q] = job[q]
      BY <2>5 DEF RenameFails, TypeOK
    <3> QED
      BY <1>q, <3>1 DEF Writing
  <2>6. ASSUME DropFails(p) PROVE Tidy'
    <3>1. /\ UNCHANGED <<names, content>> /\ pc'[p] = "idle"
          /\ \A q \in Procs \ {p} :
                 pc'[q] = pc[q] /\ tmp'[q] = tmp[q] /\ fd'[q] = fd[q] /\ job'[q] = job[q]
      BY <2>6 DEF DropFails, Return, TypeOK
    <3> QED
      BY <1>q, <3>1 DEF Writing
  <2>3. ASSUME FillFails(p) PROVE Tidy'
    <3>1. /\ names' = names /\ content' = Reclaim(content, names, fd')
          /\ pc[p] = "fill" /\ pc'[p] = "drop" /\ tmp' = tmp
          /\ \A q \in Procs \ {p} :
                 pc'[q] = pc[q] /\ tmp'[q] = tmp[q] /\ fd'[q] = fd[q] /\ job'[q] = job[q]
      BY <2>3 DEF FillFails, TypeOK
    <3> QED
      BY <1>q, <3>1 DEF Writing
  <2>4. ASSUME Drop(p) PROVE Tidy'
    <3>1. /\ pc[p] = "drop" /\ tmp[p] \in Temps /\ tmp[p] \in Names
          /\ names' = [names EXCEPT ![tmp[p]] = NoInode]
          /\ content' = Reclaim(content, names', fd') /\ fd' = fd
          /\ pc'[p] = "idle"
          /\ \A q \in Procs \ {p} : pc'[q] = pc[q] /\ tmp'[q] = tmp[q] /\ job'[q] = job[q]
      <4>1. /\ pc[p] = "drop" /\ DOMAIN pc = Procs /\ DOMAIN tmp = Procs
            /\ DOMAIN job = Procs
        BY <2>4 DEF Drop, TypeOK
      <4>2. tmp[p] \in Temps /\ tmp[p] \in Names
        BY <4>1 DEF TypeOK, Names
      <4> QED
        BY <2>4, <4>1, <4>2 DEF Drop, Return
    <3>2. \A q \in Procs \ {p} : Writing(q) => tmp[q] # tmp[p]
      BY <3>1 DEF Tidy, OneWriter, Writing
    <3>3. \A q \in Procs : pc'[q] \in {"fill", "rename"} =>
              /\ pc'[q] = pc[q] /\ tmp'[q] = tmp[q] /\ fd'[q] = fd[q] /\ job'[q] = job[q]
              /\ tmp[q] # tmp[p]
      BY <3>1, <3>2 DEF Writing
    <3>4. \A q \in Procs : Writing(q)' => Writing(q) /\ tmp'[q] = tmp[q]
      BY <3>1 DEF Writing
    <3> QED
      BY <3>1, <3>3, <3>4, NamesRemoved
  <2> QED
    BY <1>1, <2>1, <2>2, <2>3, <2>4, <2>5, <2>6, CreateKeepsTidy, FillKeepsTidy, RenameKeepsTidy
    DEF Write
<1>2. ASSUME NEW p \in Procs, Read(p) PROVE Tidy'
  <2>1. /\ names' = names
        /\ content' = content \/ content' = Reclaim(content, names, fd')
        /\ pc'[p] \in {"idle", "lstat", "open", "load"}
        /\ \A q \in Procs \ {p} :
               pc'[q] = pc[q] /\ tmp'[q] = tmp[q] /\ fd'[q] = fd[q] /\ job'[q] = job[q]
    BY <1>2 DEF Read, StartRead, Lstat, Open, Load, ReadFails, Goto, End, TypeOK
  <2> QED
    BY <1>q, <2>1 DEF Writing
<1>3. ASSUME NEW p \in Procs, Clean(p) PROVE Tidy'
  <2>1. /\ UNCHANGED <<tmp, fd, job>>
        /\ ~ Writing(p) /\ ~ Writing(p)'
        /\ \A q \in Procs \ {p} : pc'[q] = pc[q]
    <3>1. UNCHANGED <<tmp, fd, job>> /\ pc[p] \in {"idle", "list", "sweep"}
      BY <1>3 DEF Clean, StartClean, List, ListFails, Sweep, SweepFails, Swept
    <3>2. pc' = pc \/ \E c \in {"idle", "list", "sweep"} : pc' = [pc EXCEPT ![p] = c]
      BY <1>3
      DEF Clean, StartClean, List, ListFails, Sweep, SweepFails, Swept, Goto, End, TypeOK
    <3> QED
      BY <3>1, <3>2 DEF TypeOK, Writing
  <2>2. CASE UNCHANGED <<names, content>>
    BY <1>q, <2>1, <2>2
  <2>3. CASE \E e \in todo[p] : /\ names' = [names EXCEPT ![e.name] = NoInode]
                                /\ content' = Reclaim(content, names', fd)
    <3>1. PICK x \in Keys : /\ names' = [names EXCEPT ![x] = NoInode]
                            /\ content' = Reclaim(content, names', fd)
      BY <2>3, TodoOwned, OwnedAreArtifacts
    <3>2. x \in Names /\ fd' = fd
      BY <2>1 DEF Names
    <3>3. \A q \in Procs : pc'[q] \in {"fill", "rename"} =>
              /\ pc'[q] = pc[q] /\ tmp'[q] = tmp[q] /\ fd'[q] = fd[q] /\ job'[q] = job[q]
              /\ tmp[q] # x
      BY <2>1 DEF Writing, TypeOK
    <3>4. \A q \in Procs : Writing(q)' => Writing(q) /\ tmp'[q] = tmp[q]
      BY <2>1 DEF Writing
    <3> QED
      BY <3>1, <3>2, <3>3, <3>4, NamesRemoved
  <2>4. \/ UNCHANGED <<names, content>>
        \/ \E e \in todo[p] : /\ names' = [names EXCEPT ![e.name] = NoInode]
                              /\ content' = Reclaim(content, names', fd)
    BY <1>3 DEF Clean, StartClean, List, ListFails, Sweep, SweepFails, Swept
  <2> QED
    BY <2>2, <2>3, <2>4
<1>4. ASSUME NEW p \in Procs, Crash(p) PROVE Tidy'
  <2>1. /\ names' = names /\ content' = Reclaim(content, names, fd') /\ pc'[p] = "idle"
        /\ \A q \in Procs \ {p} :
               pc'[q] = pc[q] /\ tmp'[q] = tmp[q] /\ fd'[q] = fd[q] /\ job'[q] = job[q]
    BY <1>4 DEF Crash, TypeOK
  <2> QED
    BY <1>q, <2>1 DEF Writing
<1>5. ASSUME NEW i \in Inodes, Damage(i) PROVE FALSE
  BY <1>5 DEF Damage
<1>6. CASE UNCHANGED vars
  <2>1. UNCHANGED <<names, content, pc, tmp, fd, job>>
    BY <1>6 DEF vars
  <2> QED
    BY <2>1, QuietOnFiles DEF Writing
<1>7. ASSUME NEW k \in Keys, NEW e \in {Folder, Link}, Meddle(k, e) PROVE Tidy'
  <2>1. /\ k \in Names /\ names' = [names EXCEPT ![k] = e]
        /\ content' = Reclaim(content, names', fd') /\ UNCHANGED <<pc, tmp, fd, job>>
    BY <1>7 DEF Meddle, Names
  <2>2. \A q \in Procs : pc'[q] \in {"fill", "rename"} => tmp[q] # k
    BY <2>1 DEF TypeOK
  <2>3. \A q \in Procs : Writing(q)' => Writing(q)
    BY <2>1 DEF Writing
  <2> QED
    BY <2>1, <2>2, <2>3, NamesRemoved
<1> QED
  BY <1>1, <1>2, <1>3, <1>4, <1>5, <1>6, <1>7 DEF Next

\* Whoever reads, writes, cleans or is killed: at every moment the file under
\* a final name is a whole artifact filed under its own key.  The two faults
\* the theorem sets aside are the ones Read's own tests are there for: bytes
\* damaged on the disk, and a random name drawn again while it is in use.
THEOREM CachePublishesWhole ==
    ASSUME Faults \cap {"damage", "reuse"} = {}
    PROVE  Spec => []PublishedWhole
<1>1. IInv /\ Tidy /\ [Next]_vars => Tidy'
  BY TidyKept DEF IInv
<1>2. Tidy => PublishedWhole
  BY DEF Tidy
<1> QED
  BY <1>1, <1>2, InitTidy, Inductive, PTL DEF Spec

============================================================================
