--------------------------- MODULE GenerationStore ---------------------------
(***************************************************************************)
(* The store of verified clients: Stage, Activate and Active of            *)
(* src/internal/integrity/store.go, and the processes that use it without  *)
(* a lock, an Install (setupsvc/service.go) or a launch that opens or      *)
(* repairs (app/generation.go).  A process may fail or be killed between   *)
(* any two of its steps on the shared directory; disks and users damage    *)
(* files, and power may be lost: a rename then lasts only if the directory *)
(* it is in was synced since, a new directory only if its parent was.      *)
(***************************************************************************)
EXTENDS Naturals

CONSTANTS
    Procs,          \* processes; each does one job
    Packages,       \* client packages, by their digest
    LegacyFiles,    \* packages in the legacy apk directory
    Missing, Broken,    \* no active record; one that does not parse
    MaxDamage       \* how often something is damaged

Modes == {"official", "development"}

(* A generation's digest covers its package and its authorization mode.    *)
Gens == Packages \X Modes

ASSUME StoreAssumption ==
    /\ Packages # {} /\ LegacyFiles \subseteq Packages /\ MaxDamage \in Nat
    /\ Missing \notin Gens \cup Packages /\ Broken \notin Gens
    /\ Missing # Broken

VARIABLES
    tree,       \* generations/<id>: none, good (verifies) or bad
    blob, latest,   \* apks/sha256; the one with the newest mtime
    record,     \* active.json and active-development.json
    loose,      \* trees whose nested directories are not yet on the disk
    adrift, afloat,     \* names of trees and blobs that are not
    bare,       \* generations, apks/sha256: directories whose own name is not
    disk,       \* what a record may be after a loss of power
    damage,     \* number of damages so far
    spoiled,    \* history: packages whose blob was damaged since Stage kept it
    trusted, lost,  \* history: generations staged on names nobody had synced;
                    \* those that a loss of power took for want of a sync
    op, mode, pkg,  \* the job of a process
    at, phase,          \* its step; why it opens the active record,
    found, legacy,      \* what it got, and what it has to adopt
    file,       \* the record it reads: closed, held or (renamed over) replaced
    stage, repair,      \* the tree in its .stage- directory; it exchanges it
    named,      \* history: the generation that was active when it began
    hurt, overtaken     \* history: what has disturbed it

names == <<loose, adrift, afloat, bare, disk>>
store == <<tree, blob, latest, record, names>>
fates == <<damage, spoiled, trusted, lost>>
jobs == <<op, mode, pkg, named>>
open == <<phase, found, legacy, file>>
work == <<open, stage, repair>>
history == <<hurt, overtaken>>
vars == <<store, fates, jobs, at, work, history>>

Gen(p) == <<pkg[p], mode[p]>>
Ends == {"failed", "refused", "installed", "launched"}
Running(p) == at[p] \notin {"new"} \cup Ends

(* A store is new, or old: the sync of its record has put generations/ on  *)
(* the disk, whereas no sync ever does so for apks/sha256.                 *)
Init ==
    \E old \in Gens \cup {Missing} :
        /\ record = [m \in Modes |-> IF m = "official" THEN old ELSE Missing]
        /\ tree = [g \in Gens |-> IF g = old THEN "good" ELSE "none"]
        /\ latest = IF old = Missing THEN Missing ELSE old[1]
        /\ blob = [k \in Packages |-> IF k = latest THEN "good" ELSE "none"]
        /\ loose = {} /\ adrift = {} /\ afloat = {}
        /\ bare = IF old = Missing THEN {"generations", "apks"} ELSE {"apks"}
        /\ disk = [m \in Modes |-> {record[m]}]
        /\ damage = 0 /\ spoiled = {} /\ trusted = {} /\ lost = {}
        /\ op = [p \in Procs |-> "launch"] /\ mode = [p \in Procs |-> "official"]
        /\ pkg = [p \in Procs |-> CHOOSE k \in Packages : TRUE]
        /\ at = [p \in Procs |-> "new"] /\ phase = [p \in Procs |-> "open"]
        /\ found = [p \in Procs |-> Missing] /\ legacy = found
        /\ file = [p \in Procs |-> "closed"]
        /\ stage = [p \in Procs |-> "none"]
        /\ repair = [p \in Procs |-> FALSE]
        /\ named = [p \in Procs |-> Missing]
        /\ hurt = [p \in Procs |-> FALSE] /\ overtaken = hurt

-----------------------------------------------------------------------------
(* Mutant: the legacy pointer comes before the development record.         *)
LegacyFirst(p) == IF at[p] \in {"pointer", "following"} THEN mode[p] ELSE "official"

(* The slot whose record a process reads: its own, or active.json, which   *)
(* may be the single pointer of an older version and name a development    *)
(* generation.                                                             *)
Slot(p) == IF at[p] \in {"pointer", "following"} THEN "official" ELSE mode[p]

(* openActiveFile: a record opens when it parses and its tree verifies.    *)
Opens(m) == record[m] \in Gens /\ tree[record[m]] = "good"

(* authorizeGeneration, requireGenerationMode                              *)
Authorized(g, m) == IF g \in Gens /\ g[2] = m THEN g ELSE Missing

(* readBoundedSafe fails when the file it holds was renamed over, or for a *)
(* reason of its own (~ok).                                                *)
ReadsFrom(p, ok) ==
    IF ok /\ file[p] = "held" /\ Opens(Slot(p)) THEN record[Slot(p)] ELSE Missing

(* Mutant: whatever active.json holds is adopted.                          *)
AdoptsAny(p, g) == Slot(p) = "official" /\ g # Missing

(* activeOfficial, activeDevelopment adopt a development generation that   *)
(* active.json names.                                                      *)
Adopts(p, g) == Slot(p) = "official" /\ g # Missing /\ g[2] = "development"

(* The processes that a record of g renamed into slot m disturbs: those    *)
(* that hold the file it replaces, and those running whose generation is   *)
(* another.                                                                *)
Holds(q, m) == file[q] = "held" /\ Slot(q) = m

Overtakes(p, m, g) ==
    /\ file' = [q \in Procs |-> IF Holds(q, m) THEN "replaced" ELSE file[q]]
    /\ overtaken' = [q \in Procs |->
         IF \/ Holds(q, m)
            \/ /\ q # p /\ Running(q) /\ mode[q] = m
               /\ IF phase[q] = "open" THEN named[q] \notin {Missing, g} ELSE g # Gen(q)
         THEN TRUE ELSE overtaken[q]]

-----------------------------------------------------------------------------
Goto(p, step) == at' = [at EXCEPT ![p] = step]

(* A job begins.  Install has frozen, inspected, verified and extracted    *)
(* its package in a private directory by the time it reaches Stage.        *)
Begin(p, job, m, k) ==
    /\ at[p] = "new"
    /\ op' = [op EXCEPT ![p] = job] /\ mode' = [mode EXCEPT ![p] = m]
    /\ IF job = "install"
       THEN Goto(p, "stage") /\ pkg' = [pkg EXCEPT ![p] = k] /\ UNCHANGED named
       ELSE /\ Goto(p, "read") /\ UNCHANGED pkg
            /\ named' = [named EXCEPT ![p] =
                            IF Opens(m) THEN Authorized(record[m], m) ELSE Missing]
    /\ UNCHANGED <<store, fates, work, history>>

(* A Stage that finds a tree in place leaves it at that, synced or not.    *)
TakeTree(p) == trusted' = trusted \cup (adrift \cap {Gen(p)})

(* Stage looks at the final directory.  An open that fails for another     *)
(* reason than damage (~ok) leads to a repair as well.                     *)
Look(p, ok) ==
    /\ at[p] = "stage" /\ Goto(p, "retain")
    /\ ok \/ tree[Gen(p)] = "good"
    /\ IF ok /\ tree[Gen(p)] = "good"
       THEN stage' = [stage EXCEPT ![p] = "none"] /\ TakeTree(p)
       ELSE stage' = [stage EXCEPT ![p] = "good"] /\ UNCHANGED trusted
    /\ repair' = [repair EXCEPT ![p] =
                    IF ok /\ tree[Gen(p)] # "bad" THEN FALSE ELSE TRUE]
    /\ hurt' = [hurt EXCEPT ![p] = IF ok THEN @ ELSE TRUE]
    /\ UNCHANGED <<store, damage, spoiled, lost, jobs, open, overtaken>>

AfterRetain(p) ==
    /\ Goto(p, IF stage[p] = "none" THEN "staged" ELSE "publish")
    /\ spoiled' = {k \in spoiled : k = pkg[p] => blob[k] # "good"}

(* retainAPKBlob leaves a blob that verifies as it is, synced or not;      *)
TakeBlob(p) ==
    /\ AfterRetain(p)
    /\ trusted' = trusted \cup ((afloat \cap {pkg[p]}) \X Modes)

Retain(p) ==
    /\ at[p] = "retain"
    /\ IF blob[pkg[p]] = "good" THEN TakeBlob(p)
       ELSE Goto(p, "blob") /\ UNCHANGED <<spoiled, trusted>>
    /\ UNCHANGED <<store, damage, lost, jobs, work, history>>

(* else it renames a copy to the name (if that fails, a blob that appeared *)
(* meanwhile will do),                                                     *)
PublishBlob(p, ok) ==
    /\ at[p] = "blob"
    /\ IF ok
       THEN /\ Goto(p, "blobsync")
            /\ blob' = [blob EXCEPT ![pkg[p]] = "good"] /\ latest' = pkg[p]
            /\ afloat' = IF blob[pkg[p]] = "good" THEN afloat ELSE afloat \cup {pkg[p]}
            /\ UNCHANGED <<spoiled, trusted, hurt>>
       ELSE /\ blob[pkg[p]] = "good" /\ TakeBlob(p)
            /\ hurt' = [hurt EXCEPT ![p] = TRUE]
            /\ UNCHANGED <<blob, latest, afloat>>
    /\ UNCHANGED <<tree, record, loose, adrift, bare, disk, damage, lost, jobs, work,
                   overtaken>>

(* Mutant: the blobs' directory is not synced.                             *)
ForgetBlobs(p) ==
    /\ at[p] = "blobsync" /\ AfterRetain(p)
    /\ UNCHANGED <<store, damage, trusted, lost, jobs, work, history>>

(* and syncs the directory.                                                *)
SyncBlobs(p) ==
    /\ at[p] = "blobsync" /\ AfterRetain(p) /\ afloat' = {}
    /\ UNCHANGED <<tree, blob, latest, record, loose, adrift, bare, disk, damage,
                   trusted, lost, jobs, work, history>>

(* Mutant: a generation that appeared meanwhile is an error.               *)
RenameOnly(p) ==
    /\ at[p] = "publish" /\ ~repair[p]
    /\ IF tree[Gen(p)] = "none"
       THEN /\ tree' = [tree EXCEPT ![Gen(p)] = "good"]
            /\ loose' = loose \cup {Gen(p)} /\ adrift' = adrift \cup {Gen(p)}
            /\ Goto(p, "treesync") /\ UNCHANGED trusted
       ELSE Goto(p, "failed") /\ UNCHANGED <<tree, loose, adrift, trusted>>
    /\ stage' = [stage EXCEPT ![p] = "none"]
    /\ UNCHANGED <<blob, latest, record, afloat, bare, disk, damage, spoiled, lost,
                   jobs, open, repair, history>>

(* The rename that publishes, or a tree that appeared meanwhile.           *)
Publish(p) ==
    /\ at[p] = "publish" /\ ~repair[p]
    /\ IF tree[Gen(p)] = "none"
       THEN /\ tree' = [tree EXCEPT ![Gen(p)] = "good"]
            /\ loose' = loose \cup {Gen(p)} /\ adrift' = adrift \cup {Gen(p)}
            /\ Goto(p, "treesync") /\ UNCHANGED trusted
       ELSE /\ IF tree[Gen(p)] = "good" THEN Goto(p, "staged") /\ TakeTree(p)
               ELSE Goto(p, "failed") /\ UNCHANGED trusted
            /\ UNCHANGED <<tree, loose, adrift>>
    /\ stage' = [stage EXCEPT ![p] = "none"]
    /\ UNCHANGED <<blob, latest, record, afloat, bare, disk, damage, spoiled, lost,
                   jobs, open, repair, history>>

(* The directory generations is synced.                                    *)
SyncTrees(p) ==
    /\ at[p] = "treesync" /\ Goto(p, "staged") /\ adrift' = {}
    /\ UNCHANGED <<tree, blob, latest, record, loose, afloat, bare, disk, fates, jobs,
                   work, history>>

(* Mutant: the rejected tree is moved away before the fresh one comes.     *)
MoveAway(p) ==
    /\ at[p] = "publish" /\ repair[p] /\ Goto(p, "swapped")
    /\ tree' = [tree EXCEPT ![Gen(p)] = "none"]
    /\ loose' = loose \cup {Gen(p)}
    /\ stage' = [stage EXCEPT ![p] = tree[Gen(p)]]
    /\ UNCHANGED <<blob, latest, record, adrift, afloat, bare, disk, fates, jobs, open,
                   repair, history>>

(* exchangeGeneration: the fresh tree takes the place of the rejected one. *)
Exchange(p) ==
    /\ at[p] = "publish" /\ repair[p] /\ Goto(p, "swapped")
    /\ tree' = [tree EXCEPT ![Gen(p)] = stage[p]]
    /\ loose' = loose \cup {Gen(p)}
    /\ stage' = [stage EXCEPT ![p] = tree[Gen(p)]]
    /\ UNCHANGED <<blob, latest, record, adrift, afloat, bare, disk, fates, jobs, open,
                   repair, history>>

(* The replacement is verified; a cancelled context fails that (~ok).      *)
VerifyRepaired(p, ok) ==
    /\ at[p] = "swapped"
    /\ Goto(p, IF ok /\ tree[Gen(p)] = "good" THEN "reject" ELSE "rollback")
    /\ hurt' = [hurt EXCEPT ![p] = IF ok THEN @ ELSE TRUE]
    /\ UNCHANGED <<store, fates, jobs, work, overtaken>>

(* It is exchanged back, and deleted.                                      *)
Rollback(p) ==
    /\ at[p] = "rollback" /\ Goto(p, "failed")
    /\ tree' = [tree EXCEPT ![Gen(p)] = stage[p]]
    /\ stage' = [stage EXCEPT ![p] = "none"]
    /\ hurt' = [q \in Procs |->
                IF Running(q) /\ stage[p] = "bad" THEN TRUE ELSE hurt[q]]
    /\ UNCHANGED <<blob, latest, record, names, fates, jobs, open, repair, overtaken>>

(* The rejected tree is moved to rejected/, which is synced before         *)
(* generations is.                                                         *)
Reject(p) ==
    /\ at[p] = "reject" /\ Goto(p, "treesync")
    /\ stage' = [stage EXCEPT ![p] = "none"]
    /\ UNCHANGED <<store, fates, jobs, open, repair, history>>

(* The staged generation is opened and authorized; Activate opens it again,*)
Open(p, step, next) ==
    /\ at[p] = step
    /\ Goto(p, IF tree[Gen(p)] = "good" THEN next ELSE "failed")
    /\ UNCHANGED <<store, fates, jobs, work, history>>

AuthorizeStaged(p) == Open(p, "staged", "activate")
ActivateOpens(p) == Open(p, "activate", "commit")

(* and replaces the record of the slot by a rename (writeActiveRecord),    *)
WriteRecord(p, m, g) ==
    /\ record' = [record EXCEPT ![m] = g]
    /\ disk' = [disk EXCEPT ![m] = @ \cup {g}]
    /\ Overtakes(p, m, g)
    /\ UNCHANGED <<tree, blob, latest, loose, adrift, afloat, bare, damage, spoiled,
                   trusted, jobs, found, legacy, stage, repair, hurt>>

Commit(p) ==
    /\ at[p] = "commit" /\ Goto(p, "written")
    /\ phase' = [phase EXCEPT ![p] = IF op[p] = "install" THEN "snapshot" ELSE "verify"]
    /\ WriteRecord(p, mode[p], Gen(p)) /\ lost' = lost \ {Gen(p)}

(* and syncs the root, where the name of generations is as well; an error  *)
(* of that is ignored in an adoption.                                      *)
SyncRecord(p, ok) ==
    /\ \/ at[p] = "written" /\ ok /\ Goto(p, "read")
       \/ at[p] = "adopted" /\ Goto(p, "decide")
    /\ IF ok THEN disk' = [m \in Modes |-> {record[m]}] /\ bare' = bare \ {"generations"}
       ELSE UNCHANGED <<disk, bare>>
    /\ UNCHANGED <<tree, blob, latest, record, loose, adrift, afloat, fates, jobs, work,
                   history>>

(* Active: a launch opens the record first and last, a repair and an       *)
(* install to see what they have activated.  The descriptor of the record, *)
OpenRecord(p) ==
    /\ \/ at[p] = "read" /\ Goto(p, "reading")
       \/ at[p] = "pointer" /\ Goto(p, "following")
    /\ file' = [file EXCEPT ![p] = IF record[Slot(p)] = Missing THEN "closed" ELSE "held"]
    /\ UNCHANGED <<store, fates, jobs, phase, found, legacy, stage, repair, history>>

(* and what it reads and opens: the development slot falls back on         *)
(* active.json.                                                            *)
ReadRecord(p, ok) ==
    /\ at[p] \in {"reading", "following"}
    /\ LET g == ReadsFrom(p, ok) IN
       /\ found' = [found EXCEPT ![p] = Authorized(g, mode[p])]
       /\ legacy' = [legacy EXCEPT ![p] = IF Adopts(p, g) THEN g ELSE Missing]
       /\ Goto(p, IF Adopts(p, g) THEN "test"
                  ELSE IF g = Missing /\ Slot(p) = "development" THEN "pointer"
                  ELSE "decide")
    /\ file' = [file EXCEPT ![p] = "closed"]
    /\ hurt' = [hurt EXCEPT ![p] = IF ok THEN @ ELSE TRUE]
    /\ UNCHANGED <<store, fates, jobs, phase, stage, repair, overtaken>>

(* writeActiveRecordIfMissing: the test,                                   *)
AdoptTest(p) ==
    /\ at[p] = "test"
    /\ Goto(p, IF record["development"] = Missing THEN "adopt" ELSE "decide")
    /\ UNCHANGED <<store, fates, jobs, work, history>>

(* and the write of the generation that active.json named; a failure is    *)
(* ignored.                                                                *)
AdoptWrite(p, ok) ==
    /\ at[p] = "adopt"
    /\ IF ok
       THEN /\ Goto(p, "adopted") /\ UNCHANGED <<phase, lost>>
            /\ WriteRecord(p, "development", legacy[p])
       ELSE Goto(p, "decide") /\ UNCHANGED <<store, fates, jobs, work, history>>

(* What an open of the active record is for.                               *)
Decide(p) ==
    /\ at[p] = "decide"
    /\ \/ /\ phase[p] = "open" /\ UNCHANGED phase
          /\ Goto(p, IF found[p] # Missing THEN "launched" ELSE "select")
       \/ /\ phase[p] = "verify" /\ phase' = [phase EXCEPT ![p] = "reopen"]
          /\ Goto(p, IF found[p] = Gen(p) THEN "read" ELSE "failed")
       \/ /\ phase[p] = "reopen" /\ UNCHANGED phase
          /\ Goto(p, IF found[p] # Missing THEN "launched" ELSE "failed")
       \/ /\ phase[p] = "snapshot" /\ UNCHANGED phase
          /\ Goto(p, IF found[p] # Missing THEN "installed" ELSE "failed")
    /\ UNCHANGED <<store, fates, jobs, found, legacy, file, stage, repair, history>>

(* The newest retained package, or one of the legacy directory, is what a  *)
(* repair derives the generation from.                                     *)
Candidates(p) ==
    IF latest # Missing THEN {latest}
    ELSE IF mode[p] = "development" THEN LegacyFiles ELSE {}

Select(p) ==
    /\ at[p] = "select"
    /\ \/ /\ \A k \in Candidates(p) : k = latest /\ blob[k] # "good"
          /\ Goto(p, "refused") /\ UNCHANGED pkg
       \/ \E k \in Candidates(p) :
              /\ k = latest => blob[k] = "good"
              /\ pkg' = [pkg EXCEPT ![p] = k] /\ Goto(p, "stage")
    /\ UNCHANGED <<store, fates, op, mode, named, work, history>>

-----------------------------------------------------------------------------
(* An error return, a cancellation or a kill.  The staged copy is removed  *)
(* or stays behind; after an exchange only a kill ends it here.            *)
Fails(p) ==
    /\ Running(p) /\ Goto(p, "failed")
    /\ hurt' = [hurt EXCEPT ![p] = TRUE]
    /\ stage' = [stage EXCEPT ![p] = "none"] /\ file' = [file EXCEPT ![p] = "closed"]
    /\ UNCHANGED <<store, fates, jobs, phase, found, legacy, repair, overtaken>>

HurtAll == hurt' = [p \in Procs |-> IF Running(p) THEN TRUE ELSE hurt[p]]

DamageSomething ==
    /\ damage < MaxDamage /\ damage' = damage + 1 /\ HurtAll
    /\ \/ \E g \in Gens :
              /\ tree[g] = "good" /\ tree' = [tree EXCEPT ![g] = "bad"]
              /\ UNCHANGED <<blob, record, disk, spoiled>>
       \/ \E k \in Packages :
              /\ blob[k] = "good" /\ blob' = [blob EXCEPT ![k] = "bad"]
              /\ spoiled' = spoiled \cup {k}
              /\ UNCHANGED <<tree, record, disk>>
       \/ \E m \in Modes :
              /\ record[m] \in Gens /\ record' = [record EXCEPT ![m] = Broken]
              /\ disk' = [disk EXCEPT ![m] = (@ \ {record[m]}) \cup {Broken}]
              /\ UNCHANGED <<tree, blob, spoiled>>
    /\ UNCHANGED <<latest, loose, adrift, afloat, bare, trusted, lost, jobs, at, work,
                   overtaken>>

Empty(dir) ==
    IF dir = "apks" THEN \A k \in Packages : blob[k] = "none"
    ELSE \A g \in Gens : tree[g] = "none"

(* Power is lost and every process ends.  A directory whose name was never *)
(* synced may vanish (dirs), a name in a directory that was not synced     *)
(* since too (gone: trees; away: blobs, with what they replaced in their   *)
(* place), a tree whose nested directories were not may be incomplete      *)
(* (torn), and a record is one of those that the disk may hold.            *)
PowerLoss(dirs, gone, torn, away, old) ==
    /\ damage < MaxDamage /\ damage' = damage + 1 /\ HurtAll
    /\ tree' = [g \in Gens |->
                   IF "generations" \in dirs \/ g \in gone THEN "none"
                   ELSE IF g \in torn THEN "bad" ELSE tree[g]]
    /\ blob' = [k \in Packages |->
                   IF "apks" \in dirs THEN "none"
                   ELSE IF k \in away THEN old ELSE blob[k]]
    /\ latest' \in Packages \cup {Missing}
    /\ IF latest # Missing /\ blob'[latest] # "none" THEN latest' = latest
       ELSE IF latest' = Missing THEN \A k \in Packages : blob'[k] = "none"
       ELSE blob'[latest'] # "none"
    /\ record' \in [Modes -> UNION {disk[m] : m \in Modes}]
    /\ \A m \in Modes : record'[m] \in disk[m]
    /\ disk' = [m \in Modes |-> {record'[m]}]
    /\ loose' = {} /\ adrift' = {} /\ afloat' = {}
    /\ bare' = {d \in bare : d \in dirs \/ Empty(d)}
    /\ lost' = IF dirs # {} THEN Gens
               ELSE lost \cup {g \in trusted : g \in gone \/ g[1] \in away}
    /\ at' = [p \in Procs |-> IF Running(p) THEN "failed" ELSE at[p]]
    /\ stage' = [p \in Procs |-> "none"] /\ file' = [p \in Procs |-> "closed"]
    /\ UNCHANGED <<spoiled, trusted, jobs, phase, found, legacy, repair, overtaken>>

Environment ==
    \/ DamageSomething
    \/ \E dirs \in SUBSET bare, gone \in SUBSET adrift, torn \in SUBSET loose,
          away \in SUBSET afloat, old \in {"none", "bad"} :
           PowerLoss(dirs, gone, torn, away, old)
    \/ \E p \in Procs : Fails(p)

Process(p) ==
    \/ \E job \in {"install", "launch"}, m \in Modes, k \in Packages :
           Begin(p, job, m, k)
    \/ \E ok \in BOOLEAN :
           \/ Look(p, ok) \/ PublishBlob(p, ok) \/ VerifyRepaired(p, ok)
           \/ SyncRecord(p, ok) \/ ReadRecord(p, ok) \/ AdoptWrite(p, ok)
    \/ Retain(p) \/ SyncBlobs(p) \/ Publish(p) \/ SyncTrees(p) \/ Exchange(p)
    \/ Rollback(p) \/ Reject(p) \/ AuthorizeStaged(p) \/ ActivateOpens(p) \/ Commit(p)
    \/ OpenRecord(p) \/ AdoptTest(p) \/ Decide(p) \/ Select(p)

Next == Environment \/ \E p \in Procs : Process(p)

Spec == Init /\ [][Next]_vars
-----------------------------------------------------------------------------
Trees == {"none", "good", "bad"}
Steps == {"new", "stage", "retain", "blob", "blobsync", "publish", "treesync",
          "swapped", "rollback", "reject", "staged", "activate", "commit", "written",
          "read", "reading", "pointer", "following", "test", "adopt", "adopted",
          "decide", "select"} \cup Ends

FilesTyped ==
    /\ tree \in [Gens -> Trees]
    /\ blob \in [Packages -> Trees] /\ latest \in Packages \cup {Missing}
    /\ record \in [Modes -> Gens \cup {Missing, Broken}]
    /\ loose \subseteq Gens /\ adrift \subseteq Gens /\ afloat \subseteq Packages
    /\ bare \subseteq {"generations", "apks"}
    /\ disk \in [Modes -> SUBSET (Gens \cup {Missing, Broken})]
    /\ damage \in 0 .. MaxDamage /\ spoiled \subseteq Packages
    /\ trusted \subseteq Gens /\ lost \subseteq Gens

JobsTyped ==
    /\ op \in [Procs -> {"install", "launch"}] /\ mode \in [Procs -> Modes]
    /\ pkg \in [Procs -> Packages] /\ named \in [Procs -> Gens \cup {Missing}]

WorkTyped ==
    /\ at \in [Procs -> Steps]
    /\ phase \in [Procs -> {"open", "verify", "reopen", "snapshot"}]
    /\ found \in [Procs -> Gens \cup {Missing}]
    /\ legacy \in [Procs -> Gens \cup {Missing}]
    /\ file \in [Procs -> {"closed", "held", "replaced"}]
    /\ stage \in [Procs -> Trees] /\ repair \in [Procs -> BOOLEAN]

HistoryTyped ==
    hurt \in [Procs -> BOOLEAN] /\ overtaken \in [Procs -> BOOLEAN]

(* The type invariant: a process never adopts an official generation.      *)
StoreTypeOK ==
    /\ FilesTyped /\ JobsTyped /\ WorkTyped /\ HistoryTyped
    /\ \A p \in Procs : legacy[p] # Missing => legacy[p][2] = "development"

(* Wherever processes are killed and power is lost: an active record names *)
(* a generation that was published whole, and the signed package to derive *)
(* it from again is retained, unless that blob was damaged after a Stage   *)
(* last saw to it.  Excepted are the generations that a loss of power took *)
(* for want of a sync: all, with a directory whose own name was not on the *)
(* disk yet, and those whose Stage found a tree or a blob in place that    *)
(* another process had renamed there and not synced.                       *)
RetainedFirst ==
    \A m \in Modes : record[m] \in Gens \ lost =>
        /\ tree[record[m]] # "none"
        /\ blob[record[m][1]] = "good" \/ record[m][1] \in spoiled

(* A launch runs the generation of its own mode that was active when it    *)
(* began, whatever other processes stage, repair or activate: but for one  *)
(* that failed to open, whose slot was given to another, or whose record   *)
(* was renamed over while it was read.                                     *)
ServesActive ==
    \A p \in Procs : at[p] = "launched" =>
        /\ found[p][2] = mode[p]
        /\ named[p] \in {found[p], Missing} \/ hurt[p] \/ overtaken[p]

(* Installs, launches and repairs of one store at the same time make each  *)
(* other fail in two ways only: one gives another's slot to a different    *)
(* generation, or renames a record (of the same generation, too) over the  *)
(* one that the other holds open.  Otherwise a process fails of an error   *)
(* of its own, or of a damage or a rollback while it ran.                  *)
NoSpuriousFailure ==
    \A p \in Procs : at[p] = "failed" => hurt[p] \/ overtaken[p]

(* A generation that verifies is never taken away, except by a rollback of *)
(* a process whose own verification was disturbed.                         *)
NoGoodTreeLost ==
    [][\A g \in Gens : tree[g] = "good" /\ tree'[g] # "good" =>
           \/ damage' # damage
           \/ \E p \in Procs : at[p] = "rollback" /\ Gen(p) = g /\ hurt[p]]_vars

(* Store.go promises of the two slots that they "keep the live Roblox      *)
(* client and a development build from overwriting each other's active     *)
(* generation": no step of a process in the official mode replaces an      *)
(* active development record.                                              *)
DevelopmentKept ==
    [][record["development"] \in Gens
       /\ record'["development"] # record["development"] =>
           \/ damage' # damage
           \/ \E p \in Procs : mode[p] = "development" /\ at'[p] # at[p]]_vars

==============================================================================
