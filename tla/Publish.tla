------------------------------ MODULE Publish ------------------------------
(***************************************************************************)
(* How blast_radius/ingest.py turns two exports into an artifact and moves *)
(* it into place, at the grain of its effects on the file system: the      *)
(* exports are read while a scanner may be renewing them, the database is  *)
(* written in a temporary directory in one transaction, and os.replace     *)
(* installs it.  Builds run side by side, fail at any step, and are killed *)
(* at any step.                                                            *)
(***************************************************************************)
EXTENDS Naturals

CONSTANTS Builds,     \* runs of build_artifact, each in its own process
          Scans,      \* contents an export can have
          Joins,      \* <<assets, vulns>> contents that pass _validate_join
          Tables,     \* how many tables _write_tables fills
          Breaks,     \* per assets content: the table it breaks a constraint of, or 0
          NoScan, NoFile,
          NoArtifact  \* what was at artifact_path before the first build

Kinds == {"assets", "vulns"}

ASSUME TablesAssumption == Tables \in Nat \ {0}
ASSUME JoinsAssumption  == Joins \subseteq Scans \X Scans
ASSUME BreaksAssumption == Breaks \in [Scans -> 0..Tables]
ASSUME NoneAssumption   == NoScan \notin Scans /\ NoFile \notin Nat

VARIABLES
    export,   \* what the file at the path of each export holds
    held,     \* what the file holds that a build has open while it reads it
    linked,   \* whether that file is still the one at the export's path
    digest,   \* the content each build hashed
    data,     \* the content each build parsed
    dir,      \* the builds whose temporary directory exists
    pending,  \* tables filled in each build's open transaction
    db,       \* tables committed in each build's database; NoFile = no database
    target,   \* the artifact at artifact_path
    pc,       \* what each build executes next
    raised,   \* whether an exception is unwinding a build
    installed, \* ghost: the builds whose artifact has been at the path
    rewritten \* ghost: the builds one of whose exports was written into while they read it

file_vars   == <<held, linked>>
read_vars   == <<export, held, linked, digest, data, rewritten>>
write_vars  == <<dir, pending, db>>
target_vars == <<target, installed>>
vars == <<export, held, linked, digest, data, dir, pending, db,
          target, pc, raised, installed, rewritten>>

Steps == {"hash_assets", "load_assets", "hash_vulns", "load_vulns", "validate",
          "mkdir", "create", "write", "close", "replace", "cleanup",
          "ok", "failed", "killed"}

Ended == {"ok", "failed", "killed"}

NoData == [k \in Kinds |-> NoScan]

Contents == [Kinds -> Scans \cup {NoScan}]

(* An artifact: who built it, what it records as its sources, what its rows *)
(* were made from, and how many of its tables are filled.                   *)
Artifacts == [by : Builds, digest : Contents, data : Contents, rows : 0..Tables]

ASSUME NoArtifactAssumption == NoArtifact \notin Artifacts

TypeOK ==
    /\ export \in [Kinds -> Scans]
    /\ held \in [Builds -> Scans \cup {NoScan}]
    /\ linked \in [Builds -> BOOLEAN]
    /\ digest \in [Builds -> Contents]
    /\ data \in [Builds -> Contents]
    /\ dir \in SUBSET Builds
    /\ pending \in [Builds -> 0..Tables]
    /\ db \in [Builds -> (0..Tables) \cup {NoFile}]
    /\ target \in Artifacts \cup {NoArtifact}
    /\ pc \in [Builds -> Steps]
    /\ raised \in [Builds -> BOOLEAN]
    /\ installed \in SUBSET Builds
    /\ rewritten \in SUBSET Builds

Init ==
    /\ export \in [Kinds -> Scans]
    /\ held = [b \in Builds |-> NoScan]
    /\ linked = [b \in Builds |-> FALSE]
    /\ digest = [b \in Builds |-> NoData]
    /\ data = [b \in Builds |-> NoData]
    /\ dir = {}
    /\ pending = [b \in Builds |-> 0]
    /\ db = [b \in Builds |-> NoFile]
    /\ target = NoArtifact
    /\ pc = [b \in Builds |-> "hash_assets"]
    /\ raised = [b \in Builds |-> FALSE]
    /\ installed = {}
    /\ rewritten = {}

(* Where a build is when it hashes an export, parses it, and is done with it. *)
HashStep(k) == IF k = "assets" THEN "hash_assets" ELSE "hash_vulns"
LoadStep(k) == IF k = "assets" THEN "load_assets" ELSE "load_vulns"
NextRead(k) == IF k = "assets" THEN "hash_vulns" ELSE "validate"

-----------------------------------------------------------------------------
(* The scanner delivers an export by moving a new file over the old one, or *)
(* by writing into the file that is there.                                  *)

Reading(b, k) == pc[b] = LoadStep(k) /\ linked[b]

Deliver(k) ==
    /\ \E s \in Scans : export' = [export EXCEPT ![k] = s]
    /\ linked' = [b \in Builds |-> linked[b] /\ ~Reading(b, k)]
    /\ UNCHANGED <<held, digest, data, rewritten, write_vars, target_vars, pc, raised>>

Overwrite(k) ==
    /\ \E s \in Scans :
          /\ export' = [export EXCEPT ![k] = s]
          /\ held' = [b \in Builds |-> IF Reading(b, k) THEN s ELSE held[b]]
    /\ rewritten' = rewritten \cup {b \in Builds : Reading(b, k)}
    /\ UNCHANGED <<linked, digest, data, write_vars, target_vars, pc, raised>>

-----------------------------------------------------------------------------
(* _read_export, for each export in turn. *)

(* The export is opened and hashed. *)
Hash(b, k) ==
    /\ pc[b] = HashStep(k)
    /\ held' = [held EXCEPT ![b] = export[k]]
    /\ linked' = [linked EXCEPT ![b] = TRUE]
    /\ digest' = [digest EXCEPT ![b][k] = export[k]]
    /\ pc' = [pc EXCEPT ![b] = LoadStep(k)]
    /\ UNCHANGED <<export, data, rewritten, write_vars, target_vars, raised>>

CloseFile(b) == /\ held' = [held EXCEPT ![b] = NoScan]
                /\ linked' = [linked EXCEPT ![b] = FALSE]

(* Mutant: the file is opened again by its path to be parsed. *)
LoadByPath(b, k) ==
    /\ pc[b] = LoadStep(k)
    /\ data' = [data EXCEPT ![b][k] = export[k]]
    /\ CloseFile(b)
    /\ pc' = [pc EXCEPT ![b] = NextRead(k)]
    /\ UNCHANGED <<export, digest, rewritten, write_vars, target_vars, raised>>

(* The same open file is read again from its start and parsed. *)
Load(b, k) ==
    /\ pc[b] = LoadStep(k)
    /\ data' = [data EXCEPT ![b][k] = held[b]]
    /\ CloseFile(b)
    /\ pc' = [pc EXCEPT ![b] = NextRead(k)]
    /\ UNCHANGED <<export, digest, rewritten, write_vars, target_vars, raised>>

Joined(b) == <<data[b]["assets"], data[b]["vulns"]>> \in Joins

(* Everything between reading and writing: parsing, the join, chunking and  *)
(* embedding change nothing outside the process.                            *)
Validate(b) ==
    /\ pc[b] = "validate"
    /\ Joined(b)
    /\ pc' = [pc EXCEPT ![b] = "mkdir"]
    /\ UNCHANGED <<read_vars, write_vars, target_vars, raised>>

(* An unreadable, malformed or mismatched export, an embedder with the      *)
(* wrong shape, or no room for a directory: the build ends before it has    *)
(* written anything.                                                        *)
Reject(b) ==
    /\ pc[b] \in {"hash_assets", "load_assets", "hash_vulns", "load_vulns",
                  "validate", "mkdir"}
    /\ pc' = [pc EXCEPT ![b] = "failed"]
    /\ CloseFile(b)
    /\ UNCHANGED <<export, digest, data, rewritten, write_vars, target_vars, raised>>

-----------------------------------------------------------------------------
(* _new_artifact, store.create and _write_tables *)

MakeDir(b) ==
    /\ pc[b] = "mkdir"
    /\ dir' = dir \cup {b}
    /\ pc' = [pc EXCEPT ![b] = "create"]
    /\ UNCHANGED <<read_vars, pending, db, target_vars, raised>>

(* The schema's statements commit by themselves: an empty, valid database.  *)
Create(b) ==
    /\ pc[b] = "create"
    /\ db' = [db EXCEPT ![b] = 0]
    /\ pc' = [pc EXCEPT ![b] = "write"]
    /\ UNCHANGED <<read_vars, dir, pending, target_vars, raised>>

(* Mutants: the move happens inside the with block, before the commit; one  *)
(* table too many is written.                                               *)
WriteThenReplace(b) ==
    /\ pc[b] = "write"
    /\ \/ /\ pending[b] < Tables
          /\ Breaks[data[b]["assets"]] # pending[b] + 1
          /\ pending' = [pending EXCEPT ![b] = @ + 1]
          /\ UNCHANGED <<db, pc>>
       \/ /\ pending[b] = Tables
          /\ pc' = [pc EXCEPT ![b] = "replace"]
          /\ UNCHANGED <<pending, db>>
    /\ UNCHANGED <<read_vars, dir, target_vars, raised>>

WriteOnePastEnd(b) ==
    /\ pc[b] = "write"
    /\ \/ /\ pending[b] <= Tables
          /\ pending' = [pending EXCEPT ![b] = @ + 1]
          /\ UNCHANGED <<db, pc>>
       \/ /\ pending[b] = Tables
          /\ db' = [db EXCEPT ![b] = pending[b]]
          /\ pending' = [pending EXCEPT ![b] = 0]
          /\ pc' = [pc EXCEPT ![b] = "close"]
    /\ UNCHANGED <<read_vars, dir, target_vars, raised>>

(* A table is filled, unless its rows break a constraint; after the last    *)
(* one the with block commits.                                              *)
Write(b) ==
    /\ pc[b] = "write"
    /\ \/ /\ pending[b] < Tables
          /\ Breaks[data[b]["assets"]] # pending[b] + 1
          /\ pending' = [pending EXCEPT ![b] = @ + 1]
          /\ UNCHANGED <<db, pc>>
       \/ /\ pending[b] = Tables
          /\ db' = [db EXCEPT ![b] = pending[b]]
          /\ pending' = [pending EXCEPT ![b] = 0]
          /\ pc' = [pc EXCEPT ![b] = "close"]
    /\ UNCHANGED <<read_vars, dir, target_vars, raised>>

(* A write or the commit raises: the with block rolls back.                 *)
Rollback(b) ==
    /\ pc[b] = "write"
    /\ pending' = [pending EXCEPT ![b] = 0]
    /\ raised' = [raised EXCEPT ![b] = TRUE]
    /\ pc' = [pc EXCEPT ![b] = "close"]
    /\ UNCHANGED <<read_vars, dir, db, target_vars>>

Close(b) ==
    /\ pc[b] = "close"
    /\ pc' = [pc EXCEPT ![b] = IF raised[b] THEN "cleanup" ELSE "replace"]
    /\ UNCHANGED <<read_vars, write_vars, target_vars, raised>>

(* os.replace: the database leaves the directory and is the artifact.       *)
Replace(b) ==
    /\ pc[b] = "replace"
    /\ target' = [by |-> b, digest |-> digest[b], data |-> data[b], rows |-> db[b]]
    /\ installed' = installed \cup {b}
    /\ db' = [db EXCEPT ![b] = NoFile]
    /\ pc' = [pc EXCEPT ![b] = "cleanup"]
    /\ UNCHANGED <<read_vars, dir, pending, raised>>

(* Mutants: a failed move is swallowed; the directory is left when nothing  *)
(* was moved.                                                               *)
RaiseSwallowed(b) ==
    /\ pc[b] \in {"create", "replace"}
    /\ pc' = [pc EXCEPT ![b] = "cleanup"]
    /\ UNCHANGED <<read_vars, write_vars, target_vars, raised>>

RaiseUncleaned(b) ==
    /\ pc[b] \in {"create", "replace"}
    /\ raised' = [raised EXCEPT ![b] = TRUE]
    /\ pc' = [pc EXCEPT ![b] = "failed"]
    /\ UNCHANGED <<read_vars, write_vars, target_vars>>

(* Creating the database, or moving it, raises inside the directory's with. *)
Raise(b) ==
    /\ pc[b] \in {"create", "replace"}
    /\ raised' = [raised EXCEPT ![b] = TRUE]
    /\ pc' = [pc EXCEPT ![b] = "cleanup"]
    /\ UNCHANGED <<read_vars, write_vars, target_vars>>

(* The directory goes, with what is left in it, and build_artifact returns  *)
(* its report or goes on raising.                                           *)
Cleanup(b) ==
    /\ pc[b] = "cleanup"
    /\ dir' = dir \ {b}
    /\ db' = [db EXCEPT ![b] = NoFile]
    /\ pc' = [pc EXCEPT ![b] = IF raised[b] THEN "failed" ELSE "ok"]
    /\ UNCHANGED <<read_vars, pending, target_vars, raised>>

(* The process is killed: its directory stays, an open transaction is lost. *)
Kill(b) ==
    /\ pc[b] \notin Ended
    /\ pc' = [pc EXCEPT ![b] = "killed"]
    /\ CloseFile(b)
    /\ pending' = [pending EXCEPT ![b] = 0]
    /\ UNCHANGED <<export, digest, data, rewritten, dir, db, target_vars, raised>>

-----------------------------------------------------------------------------
Build(b) ==
    \/ \E k \in Kinds : Hash(b, k) \/ Load(b, k)
    \/ Validate(b) \/ Reject(b)
    \/ MakeDir(b) \/ Create(b) \/ Write(b) \/ Rollback(b)
    \/ Close(b) \/ Replace(b) \/ Raise(b) \/ Cleanup(b)

Next == \/ \E k \in Kinds : Deliver(k) \/ Overwrite(k)
        \/ \E b \in Builds : Build(b) \/ Kill(b)

Spec == Init /\ [][Next]_vars

-----------------------------------------------------------------------------
(* Properties *)

(* Whatever is at the path has every table filled, from two exports that    *)
(* match each other and break no constraint: no reader ever opens a partial *)
(* index, however builds interleave, fail or die.                           *)
TargetIsWhole == target # NoArtifact =>
    /\ target.rows = Tables
    /\ <<target.data["assets"], target.data["vulns"]>> \in Joins
    /\ Breaks[target.data["assets"]] = 0

(* The digests an artifact records are those of what was parsed into it,    *)
(* although the exports are renewed while they are read (_read_export):     *)
(* only writing into the very file that is being read can separate them.    *)
DigestsAreOfTheRows == target # NoArtifact /\ target.by \notin rewritten =>
    target.digest = target.data

(* The same without the exception, as the docstring of _read_export has it. *)
DigestsAreOfTheBytesParsed == target # NoArtifact => target.digest = target.data

(* Only a killed build leaves its temporary directory behind.               *)
OnlyKillsLeaveLitter == \A b \in Builds : pc[b] \in {"ok", "failed"} => b \notin dir

Contract == INSTANCE PublishContract
              WITH Before <- NoArtifact,
                   current <- IF target = NoArtifact THEN NoArtifact ELSE target.by,
                   outcome <- [b \in Builds |-> IF pc[b] \in Ended THEN pc[b] ELSE "running"]

(* The path changes only when a build installs its own artifact; a build    *)
(* reports success if and only if it did, and a failed one changes nothing. *)
KeepsContract == Contract!Spec
=============================================================================
