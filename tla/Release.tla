------------------------------ MODULE Release ------------------------------
(* tools/package_binary.py: every native machine packages its own checkout   *)
(* (package), the archives are gathered in one directory, which is finalized *)
(* and verified there (finalize, verify_release; docs/RELEASE.md).           *)
(*                                                                           *)
(* An archive is what its inventory declares (tree: the fingerprint of the   *)
(* sources), what its bytes come from (made), and whether it is intact.  A   *)
(* checksum of a file is the file.                                           *)
EXTENDS Naturals, FiniteSets

CONSTANTS
    Machines,  \* the native targets; the binary archive of a target bears its name
    MaxDamage  \* bound: files damaged, removed or added in the gathering directory

Archives == Machines \cup {"source"}
Trees == {"a", "b"}   \* a checkout and an edit of it, with the same version
Absent == [tree |-> "none", made |-> "none", intact |-> FALSE]
Archive(declared, made) == [tree |-> declared, made |-> made, intact |-> TRUE]
NoFiles == [n \in Archives |-> Absent]
NoIndex == NoFiles
Empty == [archives |-> NoFiles, index |-> NoIndex, sums |-> NoIndex, stray |-> FALSE]

VARIABLES
    tree,     \* each machine's working tree
    pack,     \* each machine's package: how far, the captured tree, what was built
    out,      \* each machine's output directory
    assets,   \* the directory the archives are gathered in
    finalizing, \* a finalize of it wrote this index, and not yet the checksums
    check,    \* a verify_release of it: the metadata read, the files copied and left
    accepted, \* the files a verify_release accepted; it reads only, so what
              \* could follow could follow without it too, and nothing does here
    damage    \* files damaged so far

releaseVars == <<tree, pack, out, assets, finalizing, check, accepted, damage>>

Idle == [busy |-> FALSE, index |-> NoIndex, sums |-> NoIndex, copy |-> NoFiles, left |-> {}]

ReleaseInit ==
    /\ tree = [m \in Machines |-> "a"]
    /\ pack = [m \in Machines |-> [at |-> "idle", captured |-> "none", built |-> "none"]]
    /\ out = [m \in Machines |-> Empty]
    /\ assets = Empty /\ finalizing = NoIndex /\ check = Idle
    /\ accepted = NoFiles /\ damage = 0

Present(files) == {n \in Archives : files[n] # Absent}
Gone(how) == [at |-> how, captured |-> "none", built |-> "none"]
Packed == accepted = NoFiles /\ \A m \in Machines : pack[m].at \in {"done", "failed"}

----------------------------------------------------------------------------
(* package.                                                                  *)

\* Somebody edits the working tree while it is packaged (later edits are not
\* seen by anything).
EditTree(m) ==
    /\ tree[m] = "a" /\ pack[m].at \in {"idle", "captured"}
    /\ tree' = [tree EXCEPT ![m] = "b"]
    /\ UNCHANGED <<pack, out, assets, finalizing, check, accepted, damage>>

\* source_files, and what the captured bytes say of versions and schemas.
Capture(m) ==
    /\ pack[m].at = "idle"
    /\ pack' = [pack EXCEPT ![m] = [at |-> "captured", captured |-> tree[m], built |-> "none"]]
    /\ UNCHANGED <<tree, out, assets, finalizing, check, accepted, damage>>

\* Slip: the working tree is compiled.
BuildWorktree(m) ==
    /\ pack[m].at = "captured"
    /\ pack' = [pack EXCEPT ![m].at = "built", ![m].built = tree[m]]
    /\ UNCHANGED <<tree, out, assets, finalizing, check, accepted, damage>>

\* build_snapshot: the captured bytes are compiled in a directory of their own.
Build(m) ==
    /\ pack[m].at = "captured"
    /\ pack' = [pack EXCEPT ![m].at = "built", ![m].built = pack[m].captured]
    /\ UNCHANGED <<tree, out, assets, finalizing, check, accepted, damage>>

\* write_archive, of the sources and then of the binary.
WriteArchive(m) ==
    /\ \/ pack[m].at = "built"
          /\ out' = [out EXCEPT ![m].archives["source"] = Archive(pack[m].captured, pack[m].captured)]
          /\ pack' = [pack EXCEPT ![m].at = "sourced"]
       \/ pack[m].at = "sourced"
          /\ out' = [out EXCEPT ![m].archives[m] = Archive(pack[m].captured, pack[m].built)]
          /\ pack' = [pack EXCEPT ![m].at = "archived"]
    /\ UNCHANGED <<tree, assets, finalizing, check, accepted, damage>>

\* Slip: the archives' fingerprints are not compared.
AgreeOnNothing(files) == TRUE

\* The archives declare one source snapshot.
Agree(files) == \A n, o \in Present(files) : files[n].tree = files[o].tree

\* What finalize accepts: intact archives, one of the sources, at least one
\* binary, one identity, nothing else in the directory.
Finalizable(d) ==
    /\ ~ d.stray
    /\ "source" \in Present(d.archives) /\ Present(d.archives) # {"source"}
    /\ \A n \in Present(d.archives) : d.archives[n].intact
    /\ Agree(d.archives)

\* finalize, at the end of package: the index, then the checksums.
FinishPackage(m) ==
    /\ \/ pack[m].at = "archived" /\ Finalizable(out[m])
          /\ out' = [out EXCEPT ![m].index = out[m].archives]
          /\ pack' = [pack EXCEPT ![m].at = "indexed"]
       \/ pack[m].at = "indexed"
          /\ out' = [out EXCEPT ![m].sums = out[m].index]
          /\ pack' = [pack EXCEPT ![m] = Gone("done")]
    /\ UNCHANGED <<tree, assets, finalizing, check, accepted, damage>>

\* An error or a crash; the archive being written may be left unfinished.
PackageFails(m) ==
    /\ pack[m].at \notin {"done", "failed"}
    /\ pack' = [pack EXCEPT ![m] = Gone("failed")]
    /\ \/ UNCHANGED out
       \/ /\ pack[m].at \in {"built", "sourced"}
          /\ LET n == IF pack[m].at = "built" THEN "source" ELSE m
                 t == pack[m].captured
             IN  out' = [out EXCEPT ![m].archives[n] = [Archive(t, t) EXCEPT !.intact = FALSE]]
    /\ UNCHANGED <<tree, assets, finalizing, check, accepted, damage>>

----------------------------------------------------------------------------
(* The gathering directory.  The packages are over by then: before, nothing  *)
(* of what follows depends on them.                                          *)

\* Somebody copies an archive, over another one perhaps, or the metadata.
CopyArchive(m, n) ==
    /\ Packed /\ n \in Present(out[m].archives)
    /\ assets' = [assets EXCEPT !.archives[n] = out[m].archives[n]]
    /\ UNCHANGED <<tree, pack, out, finalizing, check, accepted, damage>>

CopyMetadata(m) ==
    /\ Packed /\ pack[m].at = "done"
    /\ assets' = [assets EXCEPT !.index = out[m].index, !.sums = out[m].sums]
    /\ UNCHANGED <<tree, pack, out, finalizing, check, accepted, damage>>

\* A file rots or is lost, or another one appears.
Damage ==
    /\ Packed /\ damage < MaxDamage /\ damage' = damage + 1
    /\ \/ \E n \in Present(assets.archives) :
             \/ assets' = [assets EXCEPT !.archives[n].intact = FALSE]
             \/ assets' = [assets EXCEPT !.archives[n] = Absent]
       \/ assets' = [assets EXCEPT !.index = NoIndex]
       \/ assets' = [assets EXCEPT !.sums = NoIndex]
       \/ assets' = [assets EXCEPT !.stray = TRUE]
    /\ UNCHANGED <<tree, pack, out, finalizing, check, accepted>>

\* finalize: the archives are verified and the index written ...
WriteIndex ==
    /\ Packed /\ finalizing = NoIndex
    /\ Finalizable(assets)
    /\ assets' = [assets EXCEPT !.index = assets.archives]
    /\ finalizing' = assets.archives
    /\ UNCHANGED <<tree, pack, out, check, accepted, damage>>

\* ... then the checksums, unless it dies between the two.
WriteSums ==
    /\ finalizing # NoIndex /\ accepted = NoFiles
    /\ finalizing' = NoIndex
    /\ \/ assets' = [assets EXCEPT !.sums = finalizing]
       \/ UNCHANGED assets
    /\ UNCHANGED <<tree, pack, out, check, accepted, damage>>

\* verify_release reads the metadata and lists the directory (anything else in
\* it ends the verification),
VerifyBegins ==
    /\ Packed /\ ~ check.busy
    /\ assets.index # NoIndex /\ assets.sums # NoIndex /\ ~ assets.stray
    /\ check' = [busy |-> TRUE, index |-> assets.index, sums |-> assets.sums,
                 copy |-> NoFiles, left |-> Present(assets.archives)]
    /\ UNCHANGED <<tree, pack, out, assets, finalizing, accepted, damage>>

\* then each listed file once; a file that is gone, that the index does not
\* have, or has with another content, ends the verification.
VerifyReads(n) ==
    /\ check.busy /\ n \in check.left
    /\ check' = IF assets.archives[n] # Absent /\ assets.archives[n] = check.index[n]
                THEN [check EXCEPT !.left = @ \ {n}, !.copy[n] = assets.archives[n]]
                ELSE Idle
    /\ UNCHANGED <<tree, pack, out, assets, finalizing, accepted, damage>>

\* The copies are finalized in a directory of their own, and its metadata
\* compared with what was read.
VerifyConcludes ==
    /\ check.busy /\ check.left = {}
    /\ LET copied == [Empty EXCEPT !.archives = check.copy]
       IN  accepted' = IF /\ Present(check.copy) = Present(check.index)
                          /\ Finalizable(copied)
                          /\ check.index = check.copy /\ check.sums = check.copy
                       THEN check.copy ELSE accepted
    /\ check' = Idle
    /\ UNCHANGED <<tree, pack, out, assets, finalizing, damage>>

\* Nothing is left to do, or everybody stops.
ReleaseOver ==
    /\ \A m \in Machines : pack[m].at \in {"done", "failed"}
    /\ ~ check.busy
    /\ UNCHANGED releaseVars

ReleaseNext ==
    \/ \E m \in Machines :
          \/ EditTree(m) \/ Capture(m) \/ Build(m) \/ WriteArchive(m) \/ FinishPackage(m) \/ PackageFails(m)
          \/ CopyMetadata(m)
          \/ \E n \in Archives : CopyArchive(m, n)
    \/ Damage \/ WriteIndex \/ WriteSums
    \/ VerifyBegins \/ VerifyConcludes \/ ReleaseOver \/ \E n \in Archives : VerifyReads(n)

----------------------------------------------------------------------------
\* What a verification accepted is a whole release: the sources and at least
\* one binary, all intact, and every binary made from exactly the archived
\* sources, "even if other tasks edit the working tree during compilation"
\* (docs/RELEASE.md:38), however the archives of several machines were
\* gathered, overwritten, damaged or left by packages that died; and a package
\* that succeeded left such a release in its directory.
ReleaseIsWhole ==
    LET Whole(files) ==
           /\ "source" \in Present(files) /\ Present(files) # {"source"}
           /\ \A n \in Present(files) : files[n].intact /\ files[n].made = files["source"].tree
    IN  /\ accepted # NoFiles => Whole(accepted)
        /\ \A m \in Machines : pack[m].at = "done" => Whole(out[m].archives) /\ out[m].sums = out[m].archives
=============================================================================
