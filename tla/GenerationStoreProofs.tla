------------------------ MODULE GenerationStoreProofs ------------------------
(***************************************************************************)
(* Proofs about GenerationStore, for any processes, packages and number of *)
(* damages: what an active record names is there and its package retained, *)
(* but for what a power loss took for want of a sync; a generation that    *)
(* verifies is never taken away but by damage or a disturbed rollback; and *)
(* processes make each other fail by records only.                         *)
(***************************************************************************)
EXTENDS GenerationStore, TLAPS

Present(g) == tree[g] # "none"
Kept(k) == blob[k] = "good" \/ k \in spoiled

(* Its name survives a loss of power, or its Stage trusted in it: so does  *)
(* that of its blob, as long as that is not damaged.                       *)
TreeLasts(g) == g \in trusted \/ g \notin adrift
BlobLasts(g) == g \in trusted \/ g[1] \notin afloat \/ g[1] \in spoiled
Retained(g) == Kept(g[1]) /\ BlobLasts(g)
Safe(g) == Present(g) /\ TreeLasts(g) /\ Retained(g)
Covered(g) == g \in lost \/ Safe(g)

Ended == \A p \in Procs : ~Running(p)

(* Whatever the disk may show as a record after a power loss is covered.   *)
RecordsAgree ==
    \A m \in Modes : /\ record[m] \in disk[m]
                     /\ \A g \in disk[m] : g \in Gens => Covered(g)

(* What a process that stages has put where.                               *)
StageAgrees(p) ==
    /\ at[p] \in {"retain", "blob", "blobsync", "publish"} =>
           /\ stage[p] \in {"none", "good"}
           /\ stage[p] = "none" =>
                  ~repair[p] /\ at[p] # "publish" /\ Present(Gen(p)) /\ TreeLasts(Gen(p))
           /\ repair[p] => Present(Gen(p))
    /\ at[p] = "blobsync" => Kept(pkg[p])
    /\ at[p] \in {"swapped", "rollback"} => stage[p] \in {"good", "bad"}
    /\ at[p] \in {"treesync", "swapped", "rollback", "reject"} => Present(Gen(p))
    /\ at[p] \in {"staged", "activate", "commit"} =>
           Present(Gen(p)) /\ TreeLasts(Gen(p))
    /\ at[p] \in {"publish", "treesync", "swapped", "rollback", "reject", "staged",
                  "activate", "commit"} => Retained(Gen(p))

(* What it is about to adopt.                                              *)
LegacyAgrees(p) ==
    at[p] \in {"test", "adopt"} => legacy[p] \in Gens /\ Covered(legacy[p])

(* A process that has activated only reads from there on.                  *)
PhaseAgrees(p) ==
    phase[p] # "open" =>
        at[p] \in {"written", "read", "reading", "pointer", "following", "test", "adopt",
                   "adopted", "decide"} \cup Ends

(* What it may rely on as long as nothing has disturbed it.                *)
Undisturbed(p) ==
    ~hurt[p] =>
        /\ at[p] # "rollback"
        /\ at[p] \in {"retain", "blob", "blobsync", "publish"} /\ ~repair[p] =>
               tree[Gen(p)] # "bad"
        /\ at[p] \in {"treesync", "swapped", "reject", "staged", "activate", "commit"} =>
               tree[Gen(p)] = "good"
        /\ ~overtaken[p] /\ phase[p] # "open" /\ Running(p) =>
               /\ record[mode[p]] = Gen(p) /\ tree[Gen(p)] = "good"
               /\ at[p] \in {"written", "read", "reading", "decide"}
               /\ at[p] = "reading" => file[p] = "held"
               /\ at[p] = "decide" => found[p] = Gen(p)

(* A launch that found its slot in order goes on to serve it.              *)
ServeAgrees(p) ==
    /\ at[p] = "new" => named[p] = Missing /\ found[p] = Missing
    /\ found[p] # Missing => found[p][2] = mode[p]
    /\ ~hurt[p] /\ ~overtaken[p] /\ Running(p) /\ named[p] # Missing =>
           /\ phase[p] = "open" /\ at[p] \in {"read", "reading", "decide"}
           /\ named[p][2] = mode[p] /\ record[mode[p]] = named[p]
           /\ tree[named[p]] = "good"
           /\ at[p] = "reading" => file[p] = "held"
           /\ at[p] = "decide" => found[p] = named[p]

ProcInv(p) ==
    /\ StageAgrees(p) /\ LegacyAgrees(p) /\ PhaseAgrees(p) /\ Undisturbed(p)
    /\ ServeAgrees(p)

(* The step that NoGoodTreeLost excepts.                                   *)
RolledBack(g) == \E p \in Procs : at[p] = "rollback" /\ Gen(p) = g /\ hurt[p]

(* What a step of another process leaves alone of one, and what it may     *)
(* disturb.                                                                *)
Aside(q) ==
    /\ UNCHANGED <<at[q], phase[q], stage[q], repair[q], mode[q], pkg[q], named[q],
                   found[q], legacy[q]>>
    /\ hurt[q] => hurt'[q]
    /\ overtaken[q] => overtaken'[q]
    /\ file'[q] # file[q] => overtaken'[q]

PowerLost ==
    \E dirs \in SUBSET bare, gone \in SUBSET adrift, torn \in SUBSET loose,
       away \in SUBSET afloat, old \in {"none", "bad"} :
        PowerLoss(dirs, gone, torn, away, old)

LegacyTyped == \A p \in Procs : legacy[p] # Missing => legacy[p][2] = "development"

(* The inductive invariant.                                                *)
StoreInv ==
    /\ StoreTypeOK /\ RecordsAgree /\ NoSpuriousFailure /\ ServesActive
    /\ \A p \in Procs : ProcInv(p)

-----------------------------------------------------------------------------
(* A generation of a process is one, of its package and its mode.          *)
LEMMA GenFacts ==
  ASSUME JobsTyped, NEW p \in Procs
  PROVE  /\ Gen(p) \in Gens /\ Gen(p)[1] = pkg[p] /\ Gen(p)[2] = mode[p]
         /\ mode[p] \in Modes /\ pkg[p] \in Packages
BY DEF JobsTyped, Gen, Gens

(* and no generation is a missing or broken record.                        *)
LEMMA GensFacts ==
  ASSUME NEW g \in Gens
  PROVE  g # Missing /\ g # Broken /\ g[1] \in Packages /\ g[2] \in Modes
BY StoreAssumption DEF Gens

(* A process that was overtaken remains so, and one that holds the record  *)
(* that is renamed over is from now on.                                    *)
LEMMA OvertakenStays ==
  ASSUME HistoryTyped, NEW p \in Procs, NEW m, NEW g, Overtakes(p, m, g),
         NEW q \in Procs
  PROVE  /\ overtaken[q] => overtaken'[q]
         /\ file'[q] # file[q] => overtaken'[q]
BY DEF HistoryTyped, Overtakes

(* What an adoption leaves alone, and whom it disturbs.                    *)
LEMMA AdoptFacts ==
  ASSUME StoreTypeOK, NEW p \in Procs, NEW ok \in BOOLEAN, AdoptWrite(p, ok)
  PROVE  /\ UNCHANGED <<hurt, tree, stage, repair, phase, found, legacy, op, mode, pkg,
                        named>>
         /\ at[p] = "adopt" /\ at'[p] \in {"adopted", "decide"}
         /\ at' = [at EXCEPT ![p] = at'[p]]
         /\ file' \in [Procs -> {"closed", "held", "replaced"}]
         /\ overtaken' \in [Procs -> BOOLEAN]
         /\ \A q \in Procs : /\ overtaken[q] => overtaken'[q]
                             /\ file'[q] # file[q] => overtaken'[q]
<1> USE DEF StoreTypeOK, WorkTyped, HistoryTyped
<1>1. at[p] = "adopt" /\ at' = [at EXCEPT ![p] = IF ok THEN "adopted" ELSE "decide"]
  BY DEF AdoptWrite, Goto
<1>2. CASE ok
  <2>1. Overtakes(p, "development", legacy[p]) /\ WriteRecord(p, "development", legacy[p])
        /\ UNCHANGED phase
    BY <1>2 DEF AdoptWrite, WriteRecord
  <2>2. /\ file' \in [Procs -> {"closed", "held", "replaced"}]
        /\ overtaken' \in [Procs -> BOOLEAN]
    BY <2>1 DEF Overtakes
  <2>3. \A q \in Procs : /\ overtaken[q] => overtaken'[q]
                         /\ file'[q] # file[q] => overtaken'[q]
    BY <2>1, OvertakenStays
  <2> QED
    BY <1>1, <2>1, <2>2, <2>3 DEF WriteRecord, jobs
<1>3. CASE ~ok
  <2>1. UNCHANGED <<jobs, work, history, store>>
    BY <1>3 DEF AdoptWrite
  <2> QED
    BY <1>1, <2>1 DEF jobs, work, open, history, store
<1> QED
  BY <1>2, <1>3

(* A process that holds the record of its slot serves what that names.     *)
LEMMA ReadFacts ==
  ASSUME StoreTypeOK, NEW p \in Procs, NEW ok \in BOOLEAN, ReadRecord(p, ok), ok,
         at[p] = "reading", file[p] = "held", NEW g \in Gens, record[mode[p]] = g,
         g[2] = mode[p], tree[g] = "good"
  PROVE  found'[p] = g /\ at'[p] = "decide"
<1>1. Slot(p) = mode[p] /\ g # Missing
  BY GensFacts DEF Slot
<1>2. ReadsFrom(p, ok) = g
  BY <1>1 DEF ReadsFrom, Opens
<1>3. ~Adopts(p, g) /\ Authorized(g, mode[p]) = g
  BY <1>1 DEF Adopts, Authorized
<1> QED
  BY <1>1, <1>2, <1>3 DEF ReadRecord, Goto, StoreTypeOK, WorkTyped

(* The files of the store keep their types.                                *)
LEMMA FilesKept ==
  ASSUME StoreInv, [Next]_vars
  PROVE  FilesTyped'
<1> USE StoreAssumption, GenFacts, GensFacts DEF StoreInv, StoreTypeOK,
        FilesTyped, WorkTyped, Trees, Modes, ProcInv, LegacyAgrees, store,
        names, fates, jobs, open, work, history
<1>1. ASSUME NEW p \in Procs, NEW job \in {"install", "launch"}, NEW m \in Modes,
            NEW k \in Packages, Begin(p, job, m, k)
      PROVE  FilesTyped'
  BY <1>1 DEF Begin, Goto, Authorized
<1>2. ASSUME NEW p \in Procs, NEW ok \in BOOLEAN, Look(p, ok)
      PROVE  FilesTyped'
  BY <1>2 DEF Look, TakeTree, Goto
<1>3. ASSUME NEW p \in Procs, Retain(p)
      PROVE  FilesTyped'
  <2>1. (afloat \cap {pkg[p]}) \X Modes \subseteq Gens
    BY DEF Gens
  <2> QED
    BY <1>3, <2>1 DEF Retain, TakeBlob, AfterRetain, Goto
<1>4. ASSUME NEW p \in Procs, NEW ok \in BOOLEAN, PublishBlob(p, ok)
      PROVE  FilesTyped'
  <2>1. (afloat \cap {pkg[p]}) \X Modes \subseteq Gens
    BY DEF Gens
  <2>2. UNCHANGED <<tree, record, loose, adrift, bare, disk, damage, lost>>
    BY <1>4 DEF PublishBlob
  <2>3. CASE ok
    <3>1. /\ blob' = [blob EXCEPT ![pkg[p]] = "good"] /\ latest' = pkg[p]
          /\ afloat' \subseteq afloat \cup {pkg[p]} /\ UNCHANGED <<spoiled, trusted>>
      BY <1>4, <2>3 DEF PublishBlob
    <3> QED
      BY <2>2, <3>1
  <2>4. CASE ~ok
    <3>1. /\ UNCHANGED <<blob, latest, afloat>>
          /\ trusted' = trusted \cup ((afloat \cap {pkg[p]}) \X Modes)
          /\ spoiled' \subseteq spoiled
      BY <1>4, <2>4 DEF PublishBlob, TakeBlob, AfterRetain
    <3> QED
      BY <2>1, <2>2, <3>1
  <2> QED
    BY <2>3, <2>4
<1>5. ASSUME NEW p \in Procs, SyncBlobs(p)
      PROVE  FilesTyped'
  BY <1>5 DEF SyncBlobs, AfterRetain, Goto
<1>6. ASSUME NEW p \in Procs, Publish(p)
      PROVE  FilesTyped'
  BY <1>6 DEF Publish, TakeTree, Goto
<1>7. ASSUME NEW p \in Procs, SyncTrees(p)
      PROVE  FilesTyped'
  BY <1>7 DEF SyncTrees, Goto
<1>8. ASSUME NEW p \in Procs, Exchange(p)
      PROVE  FilesTyped'
  BY <1>8 DEF Exchange, Goto
<1>9. ASSUME NEW p \in Procs, NEW ok \in BOOLEAN, VerifyRepaired(p, ok)
      PROVE  FilesTyped'
  BY <1>9 DEF VerifyRepaired, Goto
<1>10. ASSUME NEW p \in Procs, Rollback(p)
      PROVE  FilesTyped'
  BY <1>10 DEF Rollback, Goto
<1>11. ASSUME NEW p \in Procs, Reject(p)
      PROVE  FilesTyped'
  BY <1>11 DEF Reject, Goto
<1>12. ASSUME NEW p \in Procs, AuthorizeStaged(p) \/ ActivateOpens(p)
      PROVE  FilesTyped'
  <2>1. UNCHANGED <<store, fates>>
    BY <1>12 DEF AuthorizeStaged, ActivateOpens, Open
  <2> QED
    BY <2>1
<1>13. ASSUME NEW p \in Procs, Commit(p)
      PROVE  FilesTyped'
  <2>1. /\ record' = [record EXCEPT ![mode[p]] = Gen(p)]
        /\ disk' = [disk EXCEPT ![mode[p]] = disk[mode[p]] \cup {Gen(p)}]
        /\ lost' = lost \ {Gen(p)}
        /\ UNCHANGED <<tree, blob, latest, loose, adrift, afloat, bare, damage, spoiled,
                       trusted>>
    BY <1>13 DEF Commit, WriteRecord
  <2> QED
    BY <2>1
<1>14. ASSUME NEW p \in Procs, NEW ok \in BOOLEAN, SyncRecord(p, ok)
      PROVE  FilesTyped'
  <2>1. /\ disk' \in {disk, [m \in Modes |-> {record[m]}]}
        /\ bare' \subseteq bare
        /\ UNCHANGED <<tree, blob, latest, record, loose, adrift, afloat, fates>>
    BY <1>14 DEF SyncRecord
  <2> QED
    BY <2>1
<1>15. ASSUME NEW p \in Procs, OpenRecord(p)
      PROVE  FilesTyped'
  BY <1>15 DEF OpenRecord, Goto
<1>16. ASSUME NEW p \in Procs, NEW ok \in BOOLEAN, ReadRecord(p, ok)
      PROVE  FilesTyped'
  BY <1>16 DEF ReadRecord, ReadsFrom, Adopts, Authorized, Opens, Goto
<1>17. ASSUME NEW p \in Procs, AdoptTest(p)
      PROVE  FilesTyped'
  BY <1>17 DEF AdoptTest, Goto
<1>18. ASSUME NEW p \in Procs, NEW ok \in BOOLEAN, AdoptWrite(p, ok)
      PROVE  FilesTyped'
  <2>1. CASE ok
    <3>1. /\ legacy[p] \in Gens
          /\ record' = [record EXCEPT !["development"] = legacy[p]]
          /\ disk' = [disk EXCEPT !["development"] = disk["development"] \cup {legacy[p]}]
          /\ UNCHANGED <<tree, blob, latest, loose, adrift, afloat, bare, fates>>
      BY <1>18, <2>1 DEF AdoptWrite, WriteRecord
    <3> QED
      BY <3>1
  <2>2. CASE ~ok
    <3>1. UNCHANGED <<store, fates>>
      BY <1>18, <2>2 DEF AdoptWrite
    <3> QED
      BY <3>1
  <2> QED
    BY <2>1, <2>2
<1>19. ASSUME NEW p \in Procs, Decide(p)
      PROVE  FilesTyped'
  BY <1>19 DEF Decide, Goto
<1>20. ASSUME NEW p \in Procs, Select(p)
      PROVE  FilesTyped'
  BY <1>20 DEF Select, Candidates, Goto
<1>21. ASSUME NEW p \in Procs, Fails(p)
      PROVE  FilesTyped'
  BY <1>21 DEF Fails, Goto
<1>22. CASE DamageSomething
  BY <1>22 DEF DamageSomething, HurtAll
<1>23. ASSUME NEW dirs \in SUBSET bare, NEW gone \in SUBSET adrift,
            NEW torn \in SUBSET loose, NEW away \in SUBSET afloat,
            NEW old \in {"none", "bad"}, PowerLoss(dirs, gone, torn, away, old)
      PROVE  FilesTyped'
  BY <1>23 DEF PowerLoss, HurtAll
<1>24. CASE UNCHANGED vars
  BY <1>24 DEF vars
<1> HIDE StoreAssumption, GenFacts, GensFacts DEF StoreInv, StoreTypeOK,
        FilesTyped, WorkTyped, Trees, Modes, ProcInv, LegacyAgrees, store,
        names, fates, jobs, open, work, history
<1> QED BY <1>1, <1>2, <1>3, <1>4, <1>5, <1>6, <1>7, <1>8, <1>9, <1>10, <1>11,
     <1>12, <1>13, <1>14, <1>15, <1>16, <1>17, <1>18, <1>19, <1>20, <1>21,
     <1>22, <1>23, <1>24
        DEF Next, Environment, Process

(* So do the jobs,                                                         *)
LEMMA JobsKept ==
  ASSUME StoreInv, [Next]_vars
  PROVE  JobsTyped'
<1> USE StoreAssumption, GenFacts DEF StoreInv, StoreTypeOK, FilesTyped,
        JobsTyped, store, names, fates, jobs, open, work, history
<1>1. ASSUME NEW p \in Procs, NEW job \in {"install", "launch"}, NEW m \in Modes,
            NEW k \in Packages, Begin(p, job, m, k)
      PROVE  JobsTyped'
  BY <1>1 DEF Begin, Goto, Authorized
<1>2. ASSUME NEW p \in Procs, NEW ok \in BOOLEAN, Look(p, ok)
      PROVE  JobsTyped'
  BY <1>2 DEF Look, TakeTree, Goto
<1>3. ASSUME NEW p \in Procs, Retain(p)
      PROVE  JobsTyped'
  BY <1>3 DEF Retain, TakeBlob, AfterRetain, Goto
<1>4. ASSUME NEW p \in Procs, NEW ok \in BOOLEAN, PublishBlob(p, ok)
      PROVE  JobsTyped'
  BY <1>4 DEF PublishBlob, TakeBlob, AfterRetain, Goto
<1>5. ASSUME NEW p \in Procs, SyncBlobs(p)
      PROVE  JobsTyped'
  BY <1>5 DEF SyncBlobs, AfterRetain, Goto
<1>6. ASSUME NEW p \in Procs, Publish(p)
      PROVE  JobsTyped'
  BY <1>6 DEF Publish, TakeTree, Goto
<1>7. ASSUME NEW p \in Procs, SyncTrees(p)
      PROVE  JobsTyped'
  BY <1>7 DEF SyncTrees, Goto
<1>8. ASSUME NEW p \in Procs, Exchange(p)
      PROVE  JobsTyped'
  <2>1. UNCHANGED jobs
    BY <1>8 DEF Exchange
  <2> QED
    BY <2>1
<1>9. ASSUME NEW p \in Procs, NEW ok \in BOOLEAN, VerifyRepaired(p, ok)
      PROVE  JobsTyped'
  BY <1>9 DEF VerifyRepaired, Goto
<1>10. ASSUME NEW p \in Procs, Rollback(p)
      PROVE  JobsTyped'
  BY <1>10 DEF Rollback, Goto
<1>11. ASSUME NEW p \in Procs, Reject(p)
      PROVE  JobsTyped'
  BY <1>11 DEF Reject, Goto
<1>12. ASSUME NEW p \in Procs, AuthorizeStaged(p) \/ ActivateOpens(p)
      PROVE  JobsTyped'
  BY <1>12 DEF AuthorizeStaged, ActivateOpens, Open, Goto
<1>13. ASSUME NEW p \in Procs, Commit(p)
      PROVE  JobsTyped'
  BY <1>13 DEF Commit, WriteRecord, Overtakes, Goto
<1>14. ASSUME NEW p \in Procs, NEW ok \in BOOLEAN, SyncRecord(p, ok)
      PROVE  JobsTyped'
  BY <1>14 DEF SyncRecord, Goto
<1>15. ASSUME NEW p \in Procs, OpenRecord(p)
      PROVE  JobsTyped'
  BY <1>15 DEF OpenRecord, Goto
<1>16. ASSUME NEW p \in Procs, NEW ok \in BOOLEAN, ReadRecord(p, ok)
      PROVE  JobsTyped'
  BY <1>16 DEF ReadRecord, ReadsFrom, Adopts, Authorized, Opens, Goto
<1>17. ASSUME NEW p \in Procs, AdoptTest(p)
      PROVE  JobsTyped'
  BY <1>17 DEF AdoptTest, Goto
<1>18. ASSUME NEW p \in Procs, NEW ok \in BOOLEAN, AdoptWrite(p, ok)
      PROVE  JobsTyped'
  BY <1>18 DEF AdoptWrite, WriteRecord, Overtakes, Goto
<1>19. ASSUME NEW p \in Procs, Decide(p)
      PROVE  JobsTyped'
  BY <1>19 DEF Decide, Goto
<1>20. ASSUME NEW p \in Procs, Select(p)
      PROVE  JobsTyped'
  <2>1. UNCHANGED <<op, mode, named>> /\ Candidates(p) \subseteq Packages
    BY <1>20 DEF Select, Candidates
  <2> QED
    BY <1>20, <2>1 DEF Select
<1>21. ASSUME NEW p \in Procs, Fails(p)
      PROVE  JobsTyped'
  BY <1>21 DEF Fails, Goto
<1>22. CASE DamageSomething
  BY <1>22 DEF DamageSomething, HurtAll
<1>23. ASSUME NEW dirs \in SUBSET bare, NEW gone \in SUBSET adrift,
            NEW torn \in SUBSET loose, NEW away \in SUBSET afloat,
            NEW old \in {"none", "bad"}, PowerLoss(dirs, gone, torn, away, old)
      PROVE  JobsTyped'
  BY <1>23 DEF PowerLoss, HurtAll
<1>24. CASE UNCHANGED vars
  BY <1>24 DEF vars
<1> HIDE StoreAssumption, GenFacts DEF StoreInv, StoreTypeOK, FilesTyped,
        JobsTyped, store, names, fates, jobs, open, work, history
<1> QED BY <1>1, <1>2, <1>3, <1>4, <1>5, <1>6, <1>7, <1>8, <1>9, <1>10, <1>11,
     <1>12, <1>13, <1>14, <1>15, <1>16, <1>17, <1>18, <1>19, <1>20, <1>21,
     <1>22, <1>23, <1>24
        DEF Next, Environment, Process

(* the work of the processes,                                              *)
LEMMA WorkKept ==
  ASSUME StoreInv, [Next]_vars
  PROVE  WorkTyped'
<1> USE StoreAssumption, GenFacts, GensFacts DEF StoreInv, StoreTypeOK,
        FilesTyped, JobsTyped, WorkTyped, Trees, Steps, Ends, store, names,
        fates, jobs, open, work, history
<1>1. ASSUME NEW p \in Procs, NEW job \in {"install", "launch"}, NEW m \in Modes,
            NEW k \in Packages, Begin(p, job, m, k)
      PROVE  WorkTyped'
  BY <1>1 DEF Begin, Goto, Authorized
<1>2. ASSUME NEW p \in Procs, NEW ok \in BOOLEAN, Look(p, ok)
      PROVE  WorkTyped'
  BY <1>2 DEF Look, TakeTree, Goto
<1>3. ASSUME NEW p \in Procs, Retain(p)
      PROVE  WorkTyped'
  BY <1>3 DEF Retain, TakeBlob, AfterRetain, Goto
<1>4. ASSUME NEW p \in Procs, NEW ok \in BOOLEAN, PublishBlob(p, ok)
      PROVE  WorkTyped'
  BY <1>4 DEF PublishBlob, TakeBlob, AfterRetain, Goto
<1>5. ASSUME NEW p \in Procs, SyncBlobs(p)
      PROVE  WorkTyped'
  BY <1>5 DEF SyncBlobs, AfterRetain, Goto
<1>6. ASSUME NEW p \in Procs, Publish(p)
      PROVE  WorkTyped'
  BY <1>6, SMTT(30) DEF Publish, TakeTree, Goto
<1>7. ASSUME NEW p \in Procs, SyncTrees(p)
      PROVE  WorkTyped'
  BY <1>7 DEF SyncTrees, Goto
<1>8. ASSUME NEW p \in Procs, Exchange(p)
      PROVE  WorkTyped'
  BY <1>8 DEF Exchange, Goto
<1>9. ASSUME NEW p \in Procs, NEW ok \in BOOLEAN, VerifyRepaired(p, ok)
      PROVE  WorkTyped'
  BY <1>9 DEF VerifyRepaired, Goto
<1>10. ASSUME NEW p \in Procs, Rollback(p)
      PROVE  WorkTyped'
  BY <1>10 DEF Rollback, Goto
<1>11. ASSUME NEW p \in Procs, Reject(p)
      PROVE  WorkTyped'
  BY <1>11 DEF Reject, Goto
<1>12. ASSUME NEW p \in Procs, AuthorizeStaged(p) \/ ActivateOpens(p)
      PROVE  WorkTyped'
  BY <1>12 DEF AuthorizeStaged, ActivateOpens, Open, Goto
<1>13. ASSUME NEW p \in Procs, Commit(p)
      PROVE  WorkTyped'
  BY <1>13 DEF Commit, WriteRecord, Overtakes, Goto
<1>14. ASSUME NEW p \in Procs, NEW ok \in BOOLEAN, SyncRecord(p, ok)
      PROVE  WorkTyped'
  BY <1>14 DEF SyncRecord, Goto
<1>15. ASSUME NEW p \in Procs, OpenRecord(p)
      PROVE  WorkTyped'
  <2>1. UNCHANGED <<phase, found, legacy, stage, repair>>
    BY <1>15 DEF OpenRecord
  <2>2. at' = [at EXCEPT ![p] = at'[p]] /\ at'[p] \in {"reading", "following"}
    BY <1>15 DEF OpenRecord, Goto
  <2>3. file' = [file EXCEPT ![p] = file'[p]] /\ file'[p] \in {"closed", "held"}
    BY <1>15 DEF OpenRecord
  <2> QED
    BY <2>1, <2>2, <2>3
<1>16. ASSUME NEW p \in Procs, NEW ok \in BOOLEAN, ReadRecord(p, ok)
      PROVE  WorkTyped'
  BY <1>16 DEF ReadRecord, ReadsFrom, Adopts, Authorized, Opens, Goto
<1>17. ASSUME NEW p \in Procs, AdoptTest(p)
      PROVE  WorkTyped'
  BY <1>17 DEF AdoptTest, Goto
<1>18. ASSUME NEW p \in Procs, NEW ok \in BOOLEAN, AdoptWrite(p, ok)
      PROVE  WorkTyped'
  <2>1. /\ UNCHANGED <<phase, found, legacy, stage, repair>>
        /\ file' \in [Procs -> {"closed", "held", "replaced"}]
    BY <1>18, AdoptFacts
  <2>2. \E s \in {"adopted", "decide"} : at' = [at EXCEPT ![p] = s]
    BY <1>18 DEF AdoptWrite, Goto
  <2> QED
    BY <2>1, <2>2
<1>19. ASSUME NEW p \in Procs, Decide(p)
      PROVE  WorkTyped'
  BY <1>19, SMTT(30) DEF Decide, Goto
<1>20. ASSUME NEW p \in Procs, Select(p)
      PROVE  WorkTyped'
  BY <1>20 DEF Select, Candidates, Goto
<1>21. ASSUME NEW p \in Procs, Fails(p)
      PROVE  WorkTyped'
  BY <1>21 DEF Fails, Goto
<1>22. CASE DamageSomething
  BY <1>22 DEF DamageSomething, HurtAll
<1>23. ASSUME NEW dirs \in SUBSET bare, NEW gone \in SUBSET adrift,
            NEW torn \in SUBSET loose, NEW away \in SUBSET afloat,
            NEW old \in {"none", "bad"}, PowerLoss(dirs, gone, torn, away, old)
      PROVE  WorkTyped'
  BY <1>23 DEF PowerLoss, HurtAll
<1>24. CASE UNCHANGED vars
  BY <1>24 DEF vars
<1> HIDE StoreAssumption, GenFacts, GensFacts DEF StoreInv, StoreTypeOK,
        FilesTyped, JobsTyped, WorkTyped, Trees, Steps, Ends, store, names,
        fates, jobs, open, work, history
<1> QED BY <1>1, <1>2, <1>3, <1>4, <1>5, <1>6, <1>7, <1>8, <1>9, <1>10, <1>11,
     <1>12, <1>13, <1>14, <1>15, <1>16, <1>17, <1>18, <1>19, <1>20, <1>21,
     <1>22, <1>23, <1>24
        DEF Next, Environment, Process

(* and the histories.                                                      *)
LEMMA HistoryKept ==
  ASSUME StoreInv, [Next]_vars
  PROVE  HistoryTyped'
<1> USE DEF StoreInv, StoreTypeOK, HistoryTyped, store, names, fates, jobs,
        open, work, history
<1>1. ASSUME NEW p \in Procs, NEW job \in {"install", "launch"}, NEW m \in Modes,
            NEW k \in Packages, Begin(p, job, m, k)
      PROVE  HistoryTyped'
  BY <1>1 DEF Begin, Goto, Authorized
<1>2. ASSUME NEW p \in Procs, NEW ok \in BOOLEAN, Look(p, ok)
      PROVE  HistoryTyped'
  BY <1>2 DEF Look, TakeTree, Goto
<1>3. ASSUME NEW p \in Procs, Retain(p)
      PROVE  HistoryTyped'
  BY <1>3 DEF Retain, TakeBlob, AfterRetain, Goto
<1>4. ASSUME NEW p \in Procs, NEW ok \in BOOLEAN, PublishBlob(p, ok)
      PROVE  HistoryTyped'
  BY <1>4 DEF PublishBlob, TakeBlob, AfterRetain, Goto
<1>5. ASSUME NEW p \in Procs, SyncBlobs(p)
      PROVE  HistoryTyped'
  BY <1>5 DEF SyncBlobs, AfterRetain, Goto
<1>6. ASSUME NEW p \in Procs, Publish(p)
      PROVE  HistoryTyped'
  BY <1>6 DEF Publish, TakeTree, Goto
<1>7. ASSUME NEW p \in Procs, SyncTrees(p)
      PROVE  HistoryTyped'
  BY <1>7 DEF SyncTrees, Goto
<1>8. ASSUME NEW p \in Procs, Exchange(p)
      PROVE  HistoryTyped'
  BY <1>8 DEF Exchange, Goto
<1>9. ASSUME NEW p \in Procs, NEW ok \in BOOLEAN, VerifyRepaired(p, ok)
      PROVE  HistoryTyped'
  BY <1>9 DEF VerifyRepaired, Goto
<1>10. ASSUME NEW p \in Procs, Rollback(p)
      PROVE  HistoryTyped'
  BY <1>10 DEF Rollback, Goto
<1>11. ASSUME NEW p \in Procs, Reject(p)
      PROVE  HistoryTyped'
  BY <1>11 DEF Reject, Goto
<1>12. ASSUME NEW p \in Procs, AuthorizeStaged(p) \/ ActivateOpens(p)
      PROVE  HistoryTyped'
  BY <1>12 DEF AuthorizeStaged, ActivateOpens, Open, Goto
<1>13. ASSUME NEW p \in Procs, Commit(p)
      PROVE  HistoryTyped'
  BY <1>13 DEF Commit, WriteRecord, Overtakes, Goto
<1>14. ASSUME NEW p \in Procs, NEW ok \in BOOLEAN, SyncRecord(p, ok)
      PROVE  HistoryTyped'
  BY <1>14 DEF SyncRecord, Goto
<1>15. ASSUME NEW p \in Procs, OpenRecord(p)
      PROVE  HistoryTyped'
  BY <1>15 DEF OpenRecord, Goto
<1>16. ASSUME NEW p \in Procs, NEW ok \in BOOLEAN, ReadRecord(p, ok)
      PROVE  HistoryTyped'
  BY <1>16 DEF ReadRecord, ReadsFrom, Adopts, Authorized, Opens, Goto
<1>17. ASSUME NEW p \in Procs, AdoptTest(p)
      PROVE  HistoryTyped'
  BY <1>17 DEF AdoptTest, Goto
<1>18. ASSUME NEW p \in Procs, NEW ok \in BOOLEAN, AdoptWrite(p, ok)
      PROVE  HistoryTyped'
  BY <1>18 DEF AdoptWrite, WriteRecord, Overtakes, Goto
<1>19. ASSUME NEW p \in Procs, Decide(p)
      PROVE  HistoryTyped'
  BY <1>19 DEF Decide, Goto
<1>20. ASSUME NEW p \in Procs, Select(p)
      PROVE  HistoryTyped'
  BY <1>20 DEF Select, Candidates, Goto
<1>21. ASSUME NEW p \in Procs, Fails(p)
      PROVE  HistoryTyped'
  BY <1>21 DEF Fails, Goto
<1>22. CASE DamageSomething
  BY <1>22 DEF DamageSomething, HurtAll
<1>23. ASSUME NEW dirs \in SUBSET bare, NEW gone \in SUBSET adrift,
            NEW torn \in SUBSET loose, NEW away \in SUBSET afloat,
            NEW old \in {"none", "bad"}, PowerLoss(dirs, gone, torn, away, old)
      PROVE  HistoryTyped'
  BY <1>23 DEF PowerLoss, HurtAll
<1>24. CASE UNCHANGED vars
  BY <1>24 DEF vars
<1> HIDE DEF StoreInv, StoreTypeOK, HistoryTyped, store, names, fates, jobs,
        open, work, history
<1> QED BY <1>1, <1>2, <1>3, <1>4, <1>5, <1>6, <1>7, <1>8, <1>9, <1>10, <1>11,
     <1>12, <1>13, <1>14, <1>15, <1>16, <1>17, <1>18, <1>19, <1>20, <1>21,
     <1>22, <1>23, <1>24
        DEF Next, Environment, Process

(* What is adopted is a development generation.                            *)
LEMMA LegacyTypeKept ==
  ASSUME StoreInv, [Next]_vars
  PROVE  LegacyTyped'
<1> USE GensFacts DEF StoreInv, StoreTypeOK, FilesTyped, WorkTyped,
        LegacyTyped, store, names, fates, jobs, open, work, history
<1>1. ASSUME NEW p \in Procs, NEW job \in {"install", "launch"}, NEW m \in Modes,
            NEW k \in Packages, Begin(p, job, m, k)
      PROVE  LegacyTyped'
  BY <1>1 DEF Begin, Goto, Authorized
<1>2. ASSUME NEW p \in Procs, NEW ok \in BOOLEAN, Look(p, ok)
      PROVE  LegacyTyped'
  BY <1>2 DEF Look, TakeTree, Goto
<1>3. ASSUME NEW p \in Procs, Retain(p)
      PROVE  LegacyTyped'
  BY <1>3 DEF Retain, TakeBlob, AfterRetain, Goto
<1>4. ASSUME NEW p \in Procs, NEW ok \in BOOLEAN, PublishBlob(p, ok)
      PROVE  LegacyTyped'
  BY <1>4 DEF PublishBlob, TakeBlob, AfterRetain, Goto
<1>5. ASSUME NEW p \in Procs, SyncBlobs(p)
      PROVE  LegacyTyped'
  BY <1>5 DEF SyncBlobs, AfterRetain, Goto
<1>6. ASSUME NEW p \in Procs, Publish(p)
      PROVE  LegacyTyped'
  BY <1>6 DEF Publish, TakeTree, Goto
<1>7. ASSUME NEW p \in Procs, SyncTrees(p)
      PROVE  LegacyTyped'
  BY <1>7 DEF SyncTrees, Goto
<1>8. ASSUME NEW p \in Procs, Exchange(p)
      PROVE  LegacyTyped'
  BY <1>8 DEF Exchange, Goto
<1>9. ASSUME NEW p \in Procs, NEW ok \in BOOLEAN, VerifyRepaired(p, ok)
      PROVE  LegacyTyped'
  BY <1>9 DEF VerifyRepaired, Goto
<1>10. ASSUME NEW p \in Procs, Rollback(p)
      PROVE  LegacyTyped'
  BY <1>10 DEF Rollback, Goto
<1>11. ASSUME NEW p \in Procs, Reject(p)
      PROVE  LegacyTyped'
  BY <1>11 DEF Reject, Goto
<1>12. ASSUME NEW p \in Procs, AuthorizeStaged(p) \/ ActivateOpens(p)
      PROVE  LegacyTyped'
  BY <1>12 DEF AuthorizeStaged, ActivateOpens, Open, Goto
<1>13. ASSUME NEW p \in Procs, Commit(p)
      PROVE  LegacyTyped'
  BY <1>13 DEF Commit, WriteRecord, Overtakes, Goto
<1>14. ASSUME NEW p \in Procs, NEW ok \in BOOLEAN, SyncRecord(p, ok)
      PROVE  LegacyTyped'
  BY <1>14 DEF SyncRecord, Goto
<1>15. ASSUME NEW p \in Procs, OpenRecord(p)
      PROVE  LegacyTyped'
  BY <1>15 DEF OpenRecord, Goto
<1>16. ASSUME NEW p \in Procs, NEW ok \in BOOLEAN, ReadRecord(p, ok)
      PROVE  LegacyTyped'
  BY <1>16 DEF ReadRecord, ReadsFrom, Adopts, Authorized, Opens, Goto
<1>17. ASSUME NEW p \in Procs, AdoptTest(p)
      PROVE  LegacyTyped'
  BY <1>17 DEF AdoptTest, Goto
<1>18. ASSUME NEW p \in Procs, NEW ok \in BOOLEAN, AdoptWrite(p, ok)
      PROVE  LegacyTyped'
  BY <1>18 DEF AdoptWrite, WriteRecord, Overtakes, Goto
<1>19. ASSUME NEW p \in Procs, Decide(p)
      PROVE  LegacyTyped'
  BY <1>19 DEF Decide, Goto
<1>20. ASSUME NEW p \in Procs, Select(p)
      PROVE  LegacyTyped'
  BY <1>20 DEF Select, Candidates, Goto
<1>21. ASSUME NEW p \in Procs, Fails(p)
      PROVE  LegacyTyped'
  BY <1>21 DEF Fails, Goto
<1>22. CASE DamageSomething
  BY <1>22 DEF DamageSomething, HurtAll
<1>23. ASSUME NEW dirs \in SUBSET bare, NEW gone \in SUBSET adrift,
            NEW torn \in SUBSET loose, NEW away \in SUBSET afloat,
            NEW old \in {"none", "bad"}, PowerLoss(dirs, gone, torn, away, old)
      PROVE  LegacyTyped'
  BY <1>23 DEF PowerLoss, HurtAll
<1>24. CASE UNCHANGED vars
  BY <1>24 DEF vars
<1> HIDE GensFacts DEF StoreInv, StoreTypeOK, FilesTyped, WorkTyped,
        LegacyTyped, store, names, fates, jobs, open, work, history
<1> QED BY <1>1, <1>2, <1>3, <1>4, <1>5, <1>6, <1>7, <1>8, <1>9, <1>10, <1>11,
     <1>12, <1>13, <1>14, <1>15, <1>16, <1>17, <1>18, <1>19, <1>20, <1>21,
     <1>22, <1>23, <1>24
        DEF Next, Environment, Process

(* A process that stages works on one generation.                          *)
LEMMA GenStays ==
  ASSUME StoreInv, [Next]_vars, NEW q \in Procs, at[q] \notin {"new", "select"}
  PROVE  Gen(q)' = Gen(q)
<1> USE DEF StoreInv, StoreTypeOK, JobsTyped, Gen, store, names, fates, jobs,
        open, work, history
<1>1. ASSUME NEW p \in Procs, NEW job \in {"install", "launch"}, NEW m \in Modes,
            NEW k \in Packages, Begin(p, job, m, k)
      PROVE  Gen(q)' = Gen(q)
  BY <1>1 DEF Begin, Goto, Authorized
<1>2. ASSUME NEW p \in Procs, NEW ok \in BOOLEAN, Look(p, ok)
      PROVE  Gen(q)' = Gen(q)
  BY <1>2 DEF Look, TakeTree, Goto
<1>3. ASSUME NEW p \in Procs, Retain(p)
      PROVE  Gen(q)' = Gen(q)
  BY <1>3 DEF Retain, TakeBlob, AfterRetain, Goto
<1>4. ASSUME NEW p \in Procs, NEW ok \in BOOLEAN, PublishBlob(p, ok)
      PROVE  Gen(q)' = Gen(q)
  BY <1>4 DEF PublishBlob, TakeBlob, AfterRetain, Goto
<1>5. ASSUME NEW p \in Procs, SyncBlobs(p)
      PROVE  Gen(q)' = Gen(q)
  BY <1>5 DEF SyncBlobs, AfterRetain, Goto
<1>6. ASSUME NEW p \in Procs, Publish(p)
      PROVE  Gen(q)' = Gen(q)
  BY <1>6 DEF Publish, TakeTree, Goto
<1>7. ASSUME NEW p \in Procs, SyncTrees(p)
      PROVE  Gen(q)' = Gen(q)
  BY <1>7 DEF SyncTrees, Goto
<1>8. ASSUME NEW p \in Procs, Exchange(p)
      PROVE  Gen(q)' = Gen(q)
  BY <1>8 DEF Exchange, Goto
<1>9. ASSUME NEW p \in Procs, NEW ok \in BOOLEAN, VerifyRepaired(p, ok)
      PROVE  Gen(q)' = Gen(q)
  BY <1>9 DEF VerifyRepaired, Goto
<1>10. ASSUME NEW p \in Procs, Rollback(p)
      PROVE  Gen(q)' = Gen(q)
  BY <1>10 DEF Rollback, Goto
<1>11. ASSUME NEW p \in Procs, Reject(p)
      PROVE  Gen(q)' = Gen(q)
  BY <1>11 DEF Reject, Goto
<1>12. ASSUME NEW p \in Procs, AuthorizeStaged(p) \/ ActivateOpens(p)
      PROVE  Gen(q)' = Gen(q)
  BY <1>12 DEF AuthorizeStaged, ActivateOpens, Open, Goto
<1>13. ASSUME NEW p \in Procs, Commit(p)
      PROVE  Gen(q)' = Gen(q)
  BY <1>13 DEF Commit, WriteRecord, Overtakes, Goto
<1>14. ASSUME NEW p \in Procs, NEW ok \in BOOLEAN, SyncRecord(p, ok)
      PROVE  Gen(q)' = Gen(q)
  BY <1>14 DEF SyncRecord, Goto
<1>15. ASSUME NEW p \in Procs, OpenRecord(p)
      PROVE  Gen(q)' = Gen(q)
  BY <1>15 DEF OpenRecord, Goto
<1>16. ASSUME NEW p \in Procs, NEW ok \in BOOLEAN, ReadRecord(p, ok)
      PROVE  Gen(q)' = Gen(q)
  BY <1>16 DEF ReadRecord, ReadsFrom, Adopts, Authorized, Opens, Goto
<1>17. ASSUME NEW p \in Procs, AdoptTest(p)
      PROVE  Gen(q)' = Gen(q)
  BY <1>17 DEF AdoptTest, Goto
<1>18. ASSUME NEW p \in Procs, NEW ok \in BOOLEAN, AdoptWrite(p, ok)
      PROVE  Gen(q)' = Gen(q)
  BY <1>18 DEF AdoptWrite, WriteRecord, Overtakes, Goto
<1>19. ASSUME NEW p \in Procs, Decide(p)
      PROVE  Gen(q)' = Gen(q)
  BY <1>19 DEF Decide, Goto
<1>20. ASSUME NEW p \in Procs, Select(p)
      PROVE  Gen(q)' = Gen(q)
  BY <1>20 DEF Select, Candidates, Goto
<1>21. ASSUME NEW p \in Procs, Fails(p)
      PROVE  Gen(q)' = Gen(q)
  BY <1>21 DEF Fails, Goto
<1>22. CASE DamageSomething
  BY <1>22 DEF DamageSomething, HurtAll
<1>23. ASSUME NEW dirs \in SUBSET bare, NEW gone \in SUBSET adrift,
            NEW torn \in SUBSET loose, NEW away \in SUBSET afloat,
            NEW old \in {"none", "bad"}, PowerLoss(dirs, gone, torn, away, old)
      PROVE  Gen(q)' = Gen(q)
  BY <1>23 DEF PowerLoss, HurtAll
<1>24. CASE UNCHANGED vars
  BY <1>24 DEF vars
<1> HIDE DEF StoreInv, StoreTypeOK, JobsTyped, Gen, store, names, fates, jobs,
        open, work, history
<1> QED BY <1>1, <1>2, <1>3, <1>4, <1>5, <1>6, <1>7, <1>8, <1>9, <1>10, <1>11,
     <1>12, <1>13, <1>14, <1>15, <1>16, <1>17, <1>18, <1>19, <1>20, <1>21,
     <1>22, <1>23, <1>24
        DEF Next, Environment, Process

(* A tree that is there stays there, in some state, as long as processes   *)
(* run.                                                                    *)
LEMMA PresentStays ==
  ASSUME StoreInv, [Next]_vars, NEW g \in Gens, Present(g)
  PROVE  Present(g)' \/ Ended'
<1> USE GenFacts DEF StoreInv, StoreTypeOK, FilesTyped, WorkTyped, ProcInv,
        StageAgrees, Present, Ended, Running, Ends, store, names, fates, jobs,
        open, work, history
<1>1. ASSUME NEW p \in Procs, NEW job \in {"install", "launch"}, NEW m \in Modes,
            NEW k \in Packages, Begin(p, job, m, k)
      PROVE  Present(g)' \/ Ended'
  BY <1>1 DEF Begin, Goto, Authorized
<1>2. ASSUME NEW p \in Procs, NEW ok \in BOOLEAN, Look(p, ok)
      PROVE  Present(g)' \/ Ended'
  BY <1>2 DEF Look, TakeTree, Goto
<1>3. ASSUME NEW p \in Procs, Retain(p)
      PROVE  Present(g)' \/ Ended'
  BY <1>3 DEF Retain, TakeBlob, AfterRetain, Goto
<1>4. ASSUME NEW p \in Procs, NEW ok \in BOOLEAN, PublishBlob(p, ok)
      PROVE  Present(g)' \/ Ended'
  BY <1>4 DEF PublishBlob, TakeBlob, AfterRetain, Goto
<1>5. ASSUME NEW p \in Procs, SyncBlobs(p)
      PROVE  Present(g)' \/ Ended'
  BY <1>5 DEF SyncBlobs, AfterRetain, Goto
<1>6. ASSUME NEW p \in Procs, Publish(p)
      PROVE  Present(g)' \/ Ended'
  BY <1>6 DEF Publish, TakeTree, Goto
<1>7. ASSUME NEW p \in Procs, SyncTrees(p)
      PROVE  Present(g)' \/ Ended'
  BY <1>7 DEF SyncTrees, Goto
<1>8. ASSUME NEW p \in Procs, Exchange(p)
      PROVE  Present(g)' \/ Ended'
  BY <1>8 DEF Exchange, Goto
<1>9. ASSUME NEW p \in Procs, NEW ok \in BOOLEAN, VerifyRepaired(p, ok)
      PROVE  Present(g)' \/ Ended'
  BY <1>9 DEF VerifyRepaired, Goto
<1>10. ASSUME NEW p \in Procs, Rollback(p)
      PROVE  Present(g)' \/ Ended'
  BY <1>10 DEF Rollback, Goto
<1>11. ASSUME NEW p \in Procs, Reject(p)
      PROVE  Present(g)' \/ Ended'
  BY <1>11 DEF Reject, Goto
<1>12. ASSUME NEW p \in Procs, AuthorizeStaged(p) \/ ActivateOpens(p)
      PROVE  Present(g)' \/ Ended'
  BY <1>12 DEF AuthorizeStaged, ActivateOpens, Open, Goto
<1>13. ASSUME NEW p \in Procs, Commit(p)
      PROVE  Present(g)' \/ Ended'
  BY <1>13 DEF Commit, WriteRecord, Overtakes, Goto
<1>14. ASSUME NEW p \in Procs, NEW ok \in BOOLEAN, SyncRecord(p, ok)
      PROVE  Present(g)' \/ Ended'
  BY <1>14 DEF SyncRecord, Goto
<1>15. ASSUME NEW p \in Procs, OpenRecord(p)
      PROVE  Present(g)' \/ Ended'
  BY <1>15 DEF OpenRecord, Goto
<1>16. ASSUME NEW p \in Procs, NEW ok \in BOOLEAN, ReadRecord(p, ok)
      PROVE  Present(g)' \/ Ended'
  BY <1>16 DEF ReadRecord, ReadsFrom, Adopts, Authorized, Opens, Goto
<1>17. ASSUME NEW p \in Procs, AdoptTest(p)
      PROVE  Present(g)' \/ Ended'
  BY <1>17 DEF AdoptTest, Goto
<1>18. ASSUME NEW p \in Procs, NEW ok \in BOOLEAN, AdoptWrite(p, ok)
      PROVE  Present(g)' \/ Ended'
  BY <1>18 DEF AdoptWrite, WriteRecord, Overtakes, Goto
<1>19. ASSUME NEW p \in Procs, Decide(p)
      PROVE  Present(g)' \/ Ended'
  BY <1>19 DEF Decide, Goto
<1>20. ASSUME NEW p \in Procs, Select(p)
      PROVE  Present(g)' \/ Ended'
  BY <1>20 DEF Select, Candidates, Goto
<1>21. ASSUME NEW p \in Procs, Fails(p)
      PROVE  Present(g)' \/ Ended'
  BY <1>21 DEF Fails, Goto
<1>22. CASE DamageSomething
  BY <1>22 DEF DamageSomething, HurtAll
<1>23. ASSUME NEW dirs \in SUBSET bare, NEW gone \in SUBSET adrift,
            NEW torn \in SUBSET loose, NEW away \in SUBSET afloat,
            NEW old \in {"none", "bad"}, PowerLoss(dirs, gone, torn, away, old)
      PROVE  Present(g)' \/ Ended'
  BY <1>23 DEF PowerLoss, HurtAll
<1>24. CASE UNCHANGED vars
  BY <1>24 DEF vars
<1> HIDE GenFacts DEF StoreInv, StoreTypeOK, FilesTyped, WorkTyped, ProcInv,
        StageAgrees, Present, Ended, Running, Ends, store, names, fates, jobs,
        open, work, history
<1> QED BY <1>1, <1>2, <1>3, <1>4, <1>5, <1>6, <1>7, <1>8, <1>9, <1>10, <1>11,
     <1>12, <1>13, <1>14, <1>15, <1>16, <1>17, <1>18, <1>19, <1>20, <1>21,
     <1>22, <1>23, <1>24
        DEF Next, Environment, Process

(* So does the name of one that the disk has,                              *)
LEMMA LastsStays ==
  ASSUME StoreInv, [Next]_vars, NEW g \in Gens, Present(g), TreeLasts(g)
  PROVE  TreeLasts(g)' \/ Ended'
<1> USE GenFacts DEF StoreInv, StoreTypeOK, FilesTyped, WorkTyped, Present,
        TreeLasts, Ended, Running, Ends, store, names, fates, jobs, open, work,
        history
<1>1. ASSUME NEW p \in Procs, NEW job \in {"install", "launch"}, NEW m \in Modes,
            NEW k \in Packages, Begin(p, job, m, k)
      PROVE  TreeLasts(g)' \/ Ended'
  BY <1>1 DEF Begin, Goto, Authorized
<1>2. ASSUME NEW p \in Procs, NEW ok \in BOOLEAN, Look(p, ok)
      PROVE  TreeLasts(g)' \/ Ended'
  BY <1>2 DEF Look, TakeTree, Goto
<1>3. ASSUME NEW p \in Procs, Retain(p)
      PROVE  TreeLasts(g)' \/ Ended'
  BY <1>3 DEF Retain, TakeBlob, AfterRetain, Goto
<1>4. ASSUME NEW p \in Procs, NEW ok \in BOOLEAN, PublishBlob(p, ok)
      PROVE  TreeLasts(g)' \/ Ended'
  BY <1>4 DEF PublishBlob, TakeBlob, AfterRetain, Goto
<1>5. ASSUME NEW p \in Procs, SyncBlobs(p)
      PROVE  TreeLasts(g)' \/ Ended'
  BY <1>5 DEF SyncBlobs, AfterRetain, Goto
<1>6. ASSUME NEW p \in Procs, Publish(p)
      PROVE  TreeLasts(g)' \/ Ended'
  BY <1>6 DEF Publish, TakeTree, Goto
<1>7. ASSUME NEW p \in Procs, SyncTrees(p)
      PROVE  TreeLasts(g)' \/ Ended'
  BY <1>7 DEF SyncTrees, Goto
<1>8. ASSUME NEW p \in Procs, Exchange(p)
      PROVE  TreeLasts(g)' \/ Ended'
  BY <1>8 DEF Exchange, Goto
<1>9. ASSUME NEW p \in Procs, NEW ok \in BOOLEAN, VerifyRepaired(p, ok)
      PROVE  TreeLasts(g)' \/ Ended'
  BY <1>9 DEF VerifyRepaired, Goto
<1>10. ASSUME NEW p \in Procs, Rollback(p)
      PROVE  TreeLasts(g)' \/ Ended'
  BY <1>10 DEF Rollback, Goto
<1>11. ASSUME NEW p \in Procs, Reject(p)
      PROVE  TreeLasts(g)' \/ Ended'
  BY <1>11 DEF Reject, Goto
<1>12. ASSUME NEW p \in Procs, AuthorizeStaged(p) \/ ActivateOpens(p)
      PROVE  TreeLasts(g)' \/ Ended'
  BY <1>12 DEF AuthorizeStaged, ActivateOpens, Open, Goto
<1>13. ASSUME NEW p \in Procs, Commit(p)
      PROVE  TreeLasts(g)' \/ Ended'
  BY <1>13 DEF Commit, WriteRecord, Overtakes, Goto
<1>14. ASSUME NEW p \in Procs, NEW ok \in BOOLEAN, SyncRecord(p, ok)
      PROVE  TreeLasts(g)' \/ Ended'
  BY <1>14 DEF SyncRecord, Goto
<1>15. ASSUME NEW p \in Procs, OpenRecord(p)
      PROVE  TreeLasts(g)' \/ Ended'
  BY <1>15 DEF OpenRecord, Goto
<1>16. ASSUME NEW p \in Procs, NEW ok \in BOOLEAN, ReadRecord(p, ok)
      PROVE  TreeLasts(g)' \/ Ended'
  BY <1>16 DEF ReadRecord, ReadsFrom, Adopts, Authorized, Opens, Goto
<1>17. ASSUME NEW p \in Procs, AdoptTest(p)
      PROVE  TreeLasts(g)' \/ Ended'
  BY <1>17 DEF AdoptTest, Goto
<1>18. ASSUME NEW p \in Procs, NEW ok \in BOOLEAN, AdoptWrite(p, ok)
      PROVE  TreeLasts(g)' \/ Ended'
  BY <1>18, ZenonT(60) DEF AdoptWrite, WriteRecord, Overtakes, Goto
<1>19. ASSUME NEW p \in Procs, Decide(p)
      PROVE  TreeLasts(g)' \/ Ended'
  BY <1>19 DEF Decide, Goto
<1>20. ASSUME NEW p \in Procs, Select(p)
      PROVE  TreeLasts(g)' \/ Ended'
  BY <1>20 DEF Select, Candidates, Goto
<1>21. ASSUME NEW p \in Procs, Fails(p)
      PROVE  TreeLasts(g)' \/ Ended'
  BY <1>21 DEF Fails, Goto
<1>22. CASE DamageSomething
  BY <1>22 DEF DamageSomething, HurtAll
<1>23. ASSUME NEW dirs \in SUBSET bare, NEW gone \in SUBSET adrift,
            NEW torn \in SUBSET loose, NEW away \in SUBSET afloat,
            NEW old \in {"none", "bad"}, PowerLoss(dirs, gone, torn, away, old)
      PROVE  TreeLasts(g)' \/ Ended'
  BY <1>23 DEF PowerLoss, HurtAll
<1>24. CASE UNCHANGED vars
  BY <1>24 DEF vars
<1> HIDE GenFacts DEF StoreInv, StoreTypeOK, FilesTyped, WorkTyped, Present,
        TreeLasts, Ended, Running, Ends, store, names, fates, jobs, open, work,
        history
<1> QED BY <1>1, <1>2, <1>3, <1>4, <1>5, <1>6, <1>7, <1>8, <1>9, <1>10, <1>11,
     <1>12, <1>13, <1>14, <1>15, <1>16, <1>17, <1>18, <1>19, <1>20, <1>21,
     <1>22, <1>23, <1>24
        DEF Next, Environment, Process

(* a package that is retained,                                             *)
LEMMA KeptStays ==
  ASSUME StoreInv, [Next]_vars, NEW c \in Packages, Kept(c)
  PROVE  Kept(c)' \/ Ended'
<1> USE StoreAssumption, GenFacts DEF StoreInv, StoreTypeOK, FilesTyped,
        WorkTyped, Kept, Ended, Running, Ends, store, names, fates, jobs, open,
        work, history
<1>1. ASSUME NEW p \in Procs, NEW job \in {"install", "launch"}, NEW m \in Modes,
            NEW k \in Packages, Begin(p, job, m, k)
      PROVE  Kept(c)' \/ Ended'
  BY <1>1 DEF Begin, Goto, Authorized
<1>2. ASSUME NEW p \in Procs, NEW ok \in BOOLEAN, Look(p, ok)
      PROVE  Kept(c)' \/ Ended'
  BY <1>2 DEF Look, TakeTree, Goto
<1>3. ASSUME NEW p \in Procs, Retain(p)
      PROVE  Kept(c)' \/ Ended'
  BY <1>3 DEF Retain, TakeBlob, AfterRetain, Goto
<1>4. ASSUME NEW p \in Procs, NEW ok \in BOOLEAN, PublishBlob(p, ok)
      PROVE  Kept(c)' \/ Ended'
  BY <1>4 DEF PublishBlob, TakeBlob, AfterRetain, Goto
<1>5. ASSUME NEW p \in Procs, SyncBlobs(p)
      PROVE  Kept(c)' \/ Ended'
  BY <1>5 DEF SyncBlobs, AfterRetain, Goto
<1>6. ASSUME NEW p \in Procs, Publish(p)
      PROVE  Kept(c)' \/ Ended'
  BY <1>6 DEF Publish, TakeTree, Goto
<1>7. ASSUME NEW p \in Procs, SyncTrees(p)
      PROVE  Kept(c)' \/ Ended'
  BY <1>7 DEF SyncTrees, Goto
<1>8. ASSUME NEW p \in Procs, Exchange(p)
      PROVE  Kept(c)' \/ Ended'
  BY <1>8 DEF Exchange, Goto
<1>9. ASSUME NEW p \in Procs, NEW ok \in BOOLEAN, VerifyRepaired(p, ok)
      PROVE  Kept(c)' \/ Ended'
  BY <1>9 DEF VerifyRepaired, Goto
<1>10. ASSUME NEW p \in Procs, Rollback(p)
      PROVE  Kept(c)' \/ Ended'
  BY <1>10 DEF Rollback, Goto
<1>11. ASSUME NEW p \in Procs, Reject(p)
      PROVE  Kept(c)' \/ Ended'
  BY <1>11 DEF Reject, Goto
<1>12. ASSUME NEW p \in Procs, AuthorizeStaged(p) \/ ActivateOpens(p)
      PROVE  Kept(c)' \/ Ended'
  BY <1>12 DEF AuthorizeStaged, ActivateOpens, Open, Goto
<1>13. ASSUME NEW p \in Procs, Commit(p)
      PROVE  Kept(c)' \/ Ended'
  BY <1>13 DEF Commit, WriteRecord, Overtakes, Goto
<1>14. ASSUME NEW p \in Procs, NEW ok \in BOOLEAN, SyncRecord(p, ok)
      PROVE  Kept(c)' \/ Ended'
  BY <1>14 DEF SyncRecord, Goto
<1>15. ASSUME NEW p \in Procs, OpenRecord(p)
      PROVE  Kept(c)' \/ Ended'
  BY <1>15 DEF OpenRecord, Goto
<1>16. ASSUME NEW p \in Procs, NEW ok \in BOOLEAN, ReadRecord(p, ok)
      PROVE  Kept(c)' \/ Ended'
  BY <1>16 DEF ReadRecord, ReadsFrom, Adopts, Authorized, Opens, Goto
<1>17. ASSUME NEW p \in Procs, AdoptTest(p)
      PROVE  Kept(c)' \/ Ended'
  BY <1>17 DEF AdoptTest, Goto
<1>18. ASSUME NEW p \in Procs, NEW ok \in BOOLEAN, AdoptWrite(p, ok)
      PROVE  Kept(c)' \/ Ended'
  BY <1>18, ZenonT(60) DEF AdoptWrite, WriteRecord, Overtakes, Goto
<1>19. ASSUME NEW p \in Procs, Decide(p)
      PROVE  Kept(c)' \/ Ended'
  BY <1>19 DEF Decide, Goto
<1>20. ASSUME NEW p \in Procs, Select(p)
      PROVE  Kept(c)' \/ Ended'
  BY <1>20 DEF Select, Candidates, Goto
<1>21. ASSUME NEW p \in Procs, Fails(p)
      PROVE  Kept(c)' \/ Ended'
  BY <1>21 DEF Fails, Goto
<1>22. CASE DamageSomething
  BY <1>22 DEF DamageSomething, HurtAll
<1>23. ASSUME NEW dirs \in SUBSET bare, NEW gone \in SUBSET adrift,
            NEW torn \in SUBSET loose, NEW away \in SUBSET afloat,
            NEW old \in {"none", "bad"}, PowerLoss(dirs, gone, torn, away, old)
      PROVE  Kept(c)' \/ Ended'
  BY <1>23 DEF PowerLoss, HurtAll
<1>24. CASE UNCHANGED vars
  BY <1>24 DEF vars
<1> HIDE StoreAssumption, GenFacts DEF StoreInv, StoreTypeOK, FilesTyped,
        WorkTyped, Kept, Ended, Running, Ends, store, names, fates, jobs, open,
        work, history
<1> QED BY <1>1, <1>2, <1>3, <1>4, <1>5, <1>6, <1>7, <1>8, <1>9, <1>10, <1>11,
     <1>12, <1>13, <1>14, <1>15, <1>16, <1>17, <1>18, <1>19, <1>20, <1>21,
     <1>22, <1>23, <1>24
        DEF Next, Environment, Process

(* and its name.                                                           *)
LEMMA RetainedStays ==
  ASSUME StoreInv, [Next]_vars, NEW g \in Gens, Retained(g)
  PROVE  Retained(g)' \/ Ended'
<1> USE StoreAssumption, GenFacts, GensFacts, KeptStays DEF StoreInv,
        StoreTypeOK, FilesTyped, JobsTyped, WorkTyped, Retained, BlobLasts,
        Kept, Ended, Running, Ends, store, names, fates, jobs, open, work,
        history
<1>1. ASSUME NEW p \in Procs, NEW job \in {"install", "launch"}, NEW m \in Modes,
            NEW k \in Packages, Begin(p, job, m, k)
      PROVE  Retained(g)' \/ Ended'
  BY <1>1 DEF Begin, Goto, Authorized
<1>2. ASSUME NEW p \in Procs, NEW ok \in BOOLEAN, Look(p, ok)
      PROVE  Retained(g)' \/ Ended'
  BY <1>2 DEF Look, TakeTree, Goto
<1>3. ASSUME NEW p \in Procs, Retain(p)
      PROVE  Retained(g)' \/ Ended'
  <2>1. UNCHANGED <<blob, afloat>>
    BY <1>3 DEF Retain
  <2>2. CASE UNCHANGED <<spoiled, trusted>>
    BY <2>1, <2>2
  <2>3. CASE TakeBlob(p)
    <3>1. /\ spoiled' = {k \in spoiled : k = pkg[p] => blob[k] # "good"}
          /\ trusted' = trusted \cup ((afloat \cap {pkg[p]}) \X Modes)
      BY <2>3 DEF TakeBlob, AfterRetain
    <3>2. g[1] = pkg[p] /\ pkg[p] \in afloat => g \in trusted'
      BY <3>1 DEF Gens
    <3> QED
      BY <2>1, <3>1, <3>2
  <2> QED
    BY <1>3, <2>2, <2>3 DEF Retain
<1>4. ASSUME NEW p \in Procs, NEW ok \in BOOLEAN, PublishBlob(p, ok)
      PROVE  Retained(g)' \/ Ended'
  <2>1. CASE ok
    BY <1>4, <2>1 DEF PublishBlob
  <2>2. CASE ~ok
    <3>1. UNCHANGED <<blob, afloat>> /\ TakeBlob(p)
      BY <1>4, <2>2 DEF PublishBlob
    <3>2. /\ spoiled' = {k \in spoiled : k = pkg[p] => blob[k] # "good"}
          /\ trusted' = trusted \cup ((afloat \cap {pkg[p]}) \X Modes)
      BY <3>1 DEF TakeBlob, AfterRetain
    <3>3. g[1] = pkg[p] /\ pkg[p] \in afloat => g \in trusted'
      BY <3>2 DEF Gens
    <3> QED
      BY <3>1, <3>2, <3>3
  <2> QED
    BY <2>1, <2>2
<1>5. ASSUME NEW p \in Procs, SyncBlobs(p)
      PROVE  Retained(g)' \/ Ended'
  BY <1>5 DEF SyncBlobs, AfterRetain, Goto
<1>6. ASSUME NEW p \in Procs, Publish(p)
      PROVE  Retained(g)' \/ Ended'
  BY <1>6 DEF Publish, TakeTree, Goto
<1>7. ASSUME NEW p \in Procs, SyncTrees(p)
      PROVE  Retained(g)' \/ Ended'
  BY <1>7 DEF SyncTrees, Goto
<1>8. ASSUME NEW p \in Procs, Exchange(p)
      PROVE  Retained(g)' \/ Ended'
  BY <1>8 DEF Exchange, Goto
<1>9. ASSUME NEW p \in Procs, NEW ok \in BOOLEAN, VerifyRepaired(p, ok)
      PROVE  Retained(g)' \/ Ended'
  BY <1>9 DEF VerifyRepaired, Goto
<1>10. ASSUME NEW p \in Procs, Rollback(p)
      PROVE  Retained(g)' \/ Ended'
  BY <1>10 DEF Rollback, Goto
<1>11. ASSUME NEW p \in Procs, Reject(p)
      PROVE  Retained(g)' \/ Ended'
  BY <1>11 DEF Reject, Goto
<1>12. ASSUME NEW p \in Procs, AuthorizeStaged(p) \/ ActivateOpens(p)
      PROVE  Retained(g)' \/ Ended'
  BY <1>12 DEF AuthorizeStaged, ActivateOpens, Open, Goto
<1>13. ASSUME NEW p \in Procs, Commit(p)
      PROVE  Retained(g)' \/ Ended'
  BY <1>13 DEF Commit, WriteRecord, Overtakes, Goto
<1>14. ASSUME NEW p \in Procs, NEW ok \in BOOLEAN, SyncRecord(p, ok)
      PROVE  Retained(g)' \/ Ended'
  BY <1>14 DEF SyncRecord, Goto
<1>15. ASSUME NEW p \in Procs, OpenRecord(p)
      PROVE  Retained(g)' \/ Ended'
  BY <1>15 DEF OpenRecord, Goto
<1>16. ASSUME NEW p \in Procs, NEW ok \in BOOLEAN, ReadRecord(p, ok)
      PROVE  Retained(g)' \/ Ended'
  BY <1>16 DEF ReadRecord, ReadsFrom, Adopts, Authorized, Opens, Goto
<1>17. ASSUME NEW p \in Procs, AdoptTest(p)
      PROVE  Retained(g)' \/ Ended'
  BY <1>17 DEF AdoptTest, Goto
<1>18. ASSUME NEW p \in Procs, NEW ok \in BOOLEAN, AdoptWrite(p, ok)
      PROVE  Retained(g)' \/ Ended'
  <2>1. UNCHANGED <<blob, afloat, fates>>
    BY <1>18 DEF AdoptWrite, WriteRecord
  <2> QED
    BY <2>1
<1>19. ASSUME NEW p \in Procs, Decide(p)
      PROVE  Retained(g)' \/ Ended'
  BY <1>19 DEF Decide, Goto
<1>20. ASSUME NEW p \in Procs, Select(p)
      PROVE  Retained(g)' \/ Ended'
  BY <1>20 DEF Select, Candidates, Goto
<1>21. ASSUME NEW p \in Procs, Fails(p)
      PROVE  Retained(g)' \/ Ended'
  BY <1>21 DEF Fails, Goto
<1>22. CASE DamageSomething
  BY <1>22 DEF DamageSomething, HurtAll
<1>23. ASSUME NEW dirs \in SUBSET bare, NEW gone \in SUBSET adrift,
            NEW torn \in SUBSET loose, NEW away \in SUBSET afloat,
            NEW old \in {"none", "bad"}, PowerLoss(dirs, gone, torn, away, old)
      PROVE  Retained(g)' \/ Ended'
  BY <1>23 DEF PowerLoss, HurtAll
<1>24. CASE UNCHANGED vars
  BY <1>24 DEF vars
<1> HIDE StoreAssumption, GenFacts, GensFacts, KeptStays DEF StoreInv,
        StoreTypeOK, FilesTyped, JobsTyped, WorkTyped, Retained, BlobLasts,
        Kept, Ended, Running, Ends, store, names, fates, jobs, open, work,
        history
<1> QED BY <1>1, <1>2, <1>3, <1>4, <1>5, <1>6, <1>7, <1>8, <1>9, <1>10, <1>11,
     <1>12, <1>13, <1>14, <1>15, <1>16, <1>17, <1>18, <1>19, <1>20, <1>21,
     <1>22, <1>23, <1>24
        DEF Next, Environment, Process

(* What is covered stays covered: a power loss spares the safe generations *)
(* but for those it counts as lost.                                        *)
LEMMA CoveredStays ==
  ASSUME StoreInv, [Next]_vars, NEW g \in Gens, Covered(g)
  PROVE  Covered(g)'
<1> USE GenFacts, GensFacts DEF StoreInv, StoreTypeOK, FilesTyped, JobsTyped,
        WorkTyped, ProcInv, StageAgrees, Covered, Safe, Present, TreeLasts,
        Retained, BlobLasts, Kept, store, names, fates, jobs, open, work,
        history
<1>1. ASSUME NEW p \in Procs, NEW job \in {"install", "launch"}, NEW m \in Modes,
            NEW k \in Packages, Begin(p, job, m, k)
      PROVE  Covered(g)'
  BY <1>1 DEF Begin, Goto, Authorized
<1>2. ASSUME NEW p \in Procs, NEW ok \in BOOLEAN, Look(p, ok)
      PROVE  Covered(g)'
  BY <1>2 DEF Look, TakeTree, Goto
<1>3. ASSUME NEW p \in Procs, Retain(p)
      PROVE  Covered(g)'
  <2>1. UNCHANGED <<tree, blob, adrift, afloat, lost>>
    BY <1>3 DEF Retain
  <2>2. CASE UNCHANGED <<spoiled, trusted>>
    BY <2>1, <2>2
  <2>3. CASE TakeBlob(p)
    <3>1. /\ spoiled' = {k \in spoiled : k = pkg[p] => blob[k] # "good"}
          /\ trusted' = trusted \cup ((afloat \cap {pkg[p]}) \X Modes)
      BY <2>3 DEF TakeBlob, AfterRetain
    <3>2. g[1] = pkg[p] /\ pkg[p] \in afloat => g \in trusted'
      BY <3>1 DEF Gens
    <3> QED
      BY <2>1, <3>1, <3>2
  <2> QED
    BY <1>3, <2>2, <2>3 DEF Retain
<1>4. ASSUME NEW p \in Procs, NEW ok \in BOOLEAN, PublishBlob(p, ok)
      PROVE  Covered(g)'
  <2>1. CASE ok
    BY <1>4, <2>1 DEF PublishBlob
  <2>2. CASE ~ok
    <3>1. UNCHANGED <<tree, blob, adrift, afloat, lost>> /\ TakeBlob(p)
      BY <1>4, <2>2 DEF PublishBlob
    <3>2. /\ spoiled' = {k \in spoiled : k = pkg[p] => blob[k] # "good"}
          /\ trusted' = trusted \cup ((afloat \cap {pkg[p]}) \X Modes)
      BY <3>1 DEF TakeBlob, AfterRetain
    <3>3. g[1] = pkg[p] /\ pkg[p] \in afloat => g \in trusted'
      BY <3>2 DEF Gens
    <3> QED
      BY <3>1, <3>2, <3>3
  <2> QED
    BY <2>1, <2>2
<1>5. ASSUME NEW p \in Procs, SyncBlobs(p)
      PROVE  Covered(g)'
  BY <1>5 DEF SyncBlobs, AfterRetain, Goto
<1>6. ASSUME NEW p \in Procs, Publish(p)
      PROVE  Covered(g)'
  BY <1>6 DEF Publish, TakeTree, Goto
<1>7. ASSUME NEW p \in Procs, SyncTrees(p)
      PROVE  Covered(g)'
  BY <1>7 DEF SyncTrees, Goto
<1>8. ASSUME NEW p \in Procs, Exchange(p)
      PROVE  Covered(g)'
  BY <1>8 DEF Exchange, Goto
<1>9. ASSUME NEW p \in Procs, NEW ok \in BOOLEAN, VerifyRepaired(p, ok)
      PROVE  Covered(g)'
  BY <1>9 DEF VerifyRepaired, Goto
<1>10. ASSUME NEW p \in Procs, Rollback(p)
      PROVE  Covered(g)'
  BY <1>10 DEF Rollback, Goto
<1>11. ASSUME NEW p \in Procs, Reject(p)
      PROVE  Covered(g)'
  BY <1>11 DEF Reject, Goto
<1>12. ASSUME NEW p \in Procs, AuthorizeStaged(p) \/ ActivateOpens(p)
      PROVE  Covered(g)'
  BY <1>12 DEF AuthorizeStaged, ActivateOpens, Open, Goto
<1>13. ASSUME NEW p \in Procs, Commit(p)
      PROVE  Covered(g)'
  BY <1>13 DEF Commit, WriteRecord, Overtakes, Goto
<1>14. ASSUME NEW p \in Procs, NEW ok \in BOOLEAN, SyncRecord(p, ok)
      PROVE  Covered(g)'
  BY <1>14 DEF SyncRecord, Goto
<1>15. ASSUME NEW p \in Procs, OpenRecord(p)
      PROVE  Covered(g)'
  BY <1>15 DEF OpenRecord, Goto
<1>16. ASSUME NEW p \in Procs, NEW ok \in BOOLEAN, ReadRecord(p, ok)
      PROVE  Covered(g)'
  BY <1>16 DEF ReadRecord, ReadsFrom, Adopts, Authorized, Opens, Goto
<1>17. ASSUME NEW p \in Procs, AdoptTest(p)
      PROVE  Covered(g)'
  BY <1>17 DEF AdoptTest, Goto
<1>18. ASSUME NEW p \in Procs, NEW ok \in BOOLEAN, AdoptWrite(p, ok)
      PROVE  Covered(g)'
  <2>1. UNCHANGED <<tree, blob, adrift, afloat, fates>>
    BY <1>18 DEF AdoptWrite, WriteRecord
  <2> QED
    BY <2>1
<1>19. ASSUME NEW p \in Procs, Decide(p)
      PROVE  Covered(g)'
  BY <1>19 DEF Decide, Goto
<1>20. ASSUME NEW p \in Procs, Select(p)
      PROVE  Covered(g)'
  BY <1>20 DEF Select, Candidates, Goto
<1>21. ASSUME NEW p \in Procs, Fails(p)
      PROVE  Covered(g)'
  BY <1>21 DEF Fails, Goto
<1>22. CASE DamageSomething
  BY <1>22 DEF DamageSomething, HurtAll
<1>23. ASSUME NEW dirs \in SUBSET bare, NEW gone \in SUBSET adrift,
            NEW torn \in SUBSET loose, NEW away \in SUBSET afloat,
            NEW old \in {"none", "bad"}, PowerLoss(dirs, gone, torn, away, old)
      PROVE  Covered(g)'
  BY <1>23 DEF PowerLoss, HurtAll
<1>24. CASE UNCHANGED vars
  BY <1>24 DEF vars
<1> HIDE GenFacts, GensFacts DEF StoreInv, StoreTypeOK, FilesTyped, JobsTyped,
        WorkTyped, ProcInv, StageAgrees, Covered, Safe, Present, TreeLasts,
        Retained, BlobLasts, Kept, store, names, fates, jobs, open, work,
        history
<1> QED BY <1>1, <1>2, <1>3, <1>4, <1>5, <1>6, <1>7, <1>8, <1>9, <1>10, <1>11,
     <1>12, <1>13, <1>14, <1>15, <1>16, <1>17, <1>18, <1>19, <1>20, <1>21,
     <1>22, <1>23, <1>24
        DEF Next, Environment, Process

(* Hence every record is.                                                  *)
LEMMA RecordsKept ==
  ASSUME StoreInv, [Next]_vars
  PROVE  RecordsAgree'
<1> USE GenFacts, GensFacts, CoveredStays DEF StoreInv, StoreTypeOK,
        FilesTyped, JobsTyped, Modes, RecordsAgree, ProcInv, LegacyAgrees,
        store, names, fates, jobs, open, work, history
<1>1. ASSUME NEW p \in Procs, NEW job \in {"install", "launch"}, NEW m \in Modes,
            NEW k \in Packages, Begin(p, job, m, k)
      PROVE  RecordsAgree'
  BY <1>1 DEF Begin, Goto, Authorized
<1>2. ASSUME NEW p \in Procs, NEW ok \in BOOLEAN, Look(p, ok)
      PROVE  RecordsAgree'
  BY <1>2 DEF Look, TakeTree, Goto
<1>3. ASSUME NEW p \in Procs, Retain(p)
      PROVE  RecordsAgree'
  BY <1>3 DEF Retain, TakeBlob, AfterRetain, Goto
<1>4. ASSUME NEW p \in Procs, NEW ok \in BOOLEAN, PublishBlob(p, ok)
      PROVE  RecordsAgree'
  BY <1>4 DEF PublishBlob, TakeBlob, AfterRetain, Goto
<1>5. ASSUME NEW p \in Procs, SyncBlobs(p)
      PROVE  RecordsAgree'
  BY <1>5 DEF SyncBlobs, AfterRetain, Goto
<1>6. ASSUME NEW p \in Procs, Publish(p)
      PROVE  RecordsAgree'
  BY <1>6 DEF Publish, TakeTree, Goto
<1>7. ASSUME NEW p \in Procs, SyncTrees(p)
      PROVE  RecordsAgree'
  BY <1>7 DEF SyncTrees, Goto
<1>8. ASSUME NEW p \in Procs, Exchange(p)
      PROVE  RecordsAgree'
  BY <1>8 DEF Exchange, Goto
<1>9. ASSUME NEW p \in Procs, NEW ok \in BOOLEAN, VerifyRepaired(p, ok)
      PROVE  RecordsAgree'
  BY <1>9 DEF VerifyRepaired, Goto
<1>10. ASSUME NEW p \in Procs, Rollback(p)
      PROVE  RecordsAgree'
  BY <1>10 DEF Rollback, Goto
<1>11. ASSUME NEW p \in Procs, Reject(p)
      PROVE  RecordsAgree'
  BY <1>11 DEF Reject, Goto
<1>12. ASSUME NEW p \in Procs, AuthorizeStaged(p) \/ ActivateOpens(p)
      PROVE  RecordsAgree'
  BY <1>12 DEF AuthorizeStaged, ActivateOpens, Open, Goto
<1>13. ASSUME NEW p \in Procs, Commit(p)
      PROVE  RecordsAgree'
  <2>1. /\ record' = [record EXCEPT ![mode[p]] = Gen(p)]
        /\ disk' = [disk EXCEPT ![mode[p]] = disk[mode[p]] \cup {Gen(p)}]
    BY <1>13 DEF Commit, WriteRecord
  <2>2. Gen(p) \in Gens /\ Covered(Gen(p))
    BY <1>13 DEF Commit, StageAgrees, Covered, Safe
  <2>3. \A g \in Gens : Covered(g) => Covered(g)'
    BY CoveredStays
  <2> QED
    BY <2>1, <2>2, <2>3
<1>14. ASSUME NEW p \in Procs, NEW ok \in BOOLEAN, SyncRecord(p, ok)
      PROVE  RecordsAgree'
  BY <1>14 DEF SyncRecord, Goto
<1>15. ASSUME NEW p \in Procs, OpenRecord(p)
      PROVE  RecordsAgree'
  BY <1>15 DEF OpenRecord, Goto
<1>16. ASSUME NEW p \in Procs, NEW ok \in BOOLEAN, ReadRecord(p, ok)
      PROVE  RecordsAgree'
  BY <1>16 DEF ReadRecord, ReadsFrom, Adopts, Authorized, Opens, Goto
<1>17. ASSUME NEW p \in Procs, AdoptTest(p)
      PROVE  RecordsAgree'
  BY <1>17 DEF AdoptTest, Goto
<1>18. ASSUME NEW p \in Procs, NEW ok \in BOOLEAN, AdoptWrite(p, ok)
      PROVE  RecordsAgree'
  <2>1. CASE ok
    <3>1. /\ record' = [record EXCEPT !["development"] = legacy[p]]
          /\ disk' = [disk EXCEPT !["development"] = disk["development"] \cup {legacy[p]}]
      BY <1>18, <2>1 DEF AdoptWrite, WriteRecord
    <3>2. legacy[p] \in Gens /\ Covered(legacy[p])
      BY <1>18 DEF AdoptWrite
    <3>3. \A g \in Gens : Covered(g) => Covered(g)'
      BY CoveredStays
    <3> QED
      BY <3>1, <3>2, <3>3
  <2>2. CASE ~ok
    <3>1. UNCHANGED <<record, disk>>
      BY <1>18, <2>2 DEF AdoptWrite
    <3>2. \A g \in Gens : Covered(g) => Covered(g)'
      BY CoveredStays
    <3> QED
      BY <3>1, <3>2
  <2> QED
    BY <2>1, <2>2
<1>19. ASSUME NEW p \in Procs, Decide(p)
      PROVE  RecordsAgree'
  BY <1>19 DEF Decide, Goto
<1>20. ASSUME NEW p \in Procs, Select(p)
      PROVE  RecordsAgree'
  BY <1>20 DEF Select, Candidates, Goto
<1>21. ASSUME NEW p \in Procs, Fails(p)
      PROVE  RecordsAgree'
  BY <1>21 DEF Fails, Goto
<1>22. CASE DamageSomething
  BY <1>22 DEF DamageSomething, HurtAll
<1>23. ASSUME NEW dirs \in SUBSET bare, NEW gone \in SUBSET adrift,
            NEW torn \in SUBSET loose, NEW away \in SUBSET afloat,
            NEW old \in {"none", "bad"}, PowerLoss(dirs, gone, torn, away, old)
      PROVE  RecordsAgree'
  BY <1>23 DEF PowerLoss, HurtAll
<1>24. CASE UNCHANGED vars
  BY <1>24 DEF vars
<1> HIDE GenFacts, GensFacts, CoveredStays DEF StoreInv, StoreTypeOK,
        FilesTyped, JobsTyped, Modes, RecordsAgree, ProcInv, LegacyAgrees,
        store, names, fates, jobs, open, work, history
<1> QED BY <1>1, <1>2, <1>3, <1>4, <1>5, <1>6, <1>7, <1>8, <1>9, <1>10, <1>11,
     <1>12, <1>13, <1>14, <1>15, <1>16, <1>17, <1>18, <1>19, <1>20, <1>21,
     <1>22, <1>23, <1>24
        DEF Next, Environment, Process

(* A step of the others leaves a process at its step, though it may be     *)
(* disturbed by it.                                                        *)
LEMMA OthersAside ==
  ASSUME StoreInv, [Next]_vars, NEW q \in Procs
  PROVE  Aside(q) \/ Process(q) \/ Fails(q) \/ PowerLost
<1> USE DEF StoreInv, StoreTypeOK, JobsTyped, WorkTyped, HistoryTyped, Aside, store,
        names, fates, jobs, open, work, history
<1>1. ASSUME NEW p \in Procs, p # q, Process(p) \/ Fails(p)
      PROVE  Aside(q)
  <2>1. ASSUME NEW job \in {"install", "launch"}, NEW m \in Modes, NEW k \in Packages,
               Begin(p, job, m, k)
        PROVE  Aside(q)
    BY <1>1, <2>1 DEF Begin, Goto
  <2>2. ASSUME NEW ok \in BOOLEAN, Look(p, ok)
        PROVE  Aside(q)
    BY <1>1, <2>2, ZenonT(60) DEF Look, Goto
  <2>3. ASSUME NEW ok \in BOOLEAN,
               VerifyRepaired(p, ok) \/ SyncRecord(p, ok) \/ ReadRecord(p, ok)
        PROVE  Aside(q)
    BY <1>1, <2>3, ZenonT(60) DEF VerifyRepaired, SyncRecord, ReadRecord, Goto
  <2>4. ASSUME NEW ok \in BOOLEAN, AdoptWrite(p, ok)
        PROVE  Aside(q)
    BY <1>1, <2>4, AdoptFacts
  <2>5. CASE Commit(p)
    <3>1. Overtakes(p, mode[p], Gen(p))
      BY <2>5 DEF Commit, WriteRecord
    <3> QED
      BY <1>1, <2>5, <3>1, OvertakenStays DEF Commit, WriteRecord, Goto
  <2>6. CASE Retain(p) \/ SyncBlobs(p) \/ Publish(p) \/ SyncTrees(p)
    BY <1>1, <2>6 DEF Retain, TakeBlob, AfterRetain, SyncBlobs, Publish, SyncTrees, Goto
  <2>7. ASSUME NEW ok \in BOOLEAN, PublishBlob(p, ok)
        PROVE  Aside(q)
    BY <1>1, <2>7 DEF PublishBlob, TakeBlob, AfterRetain, Goto
  <2>8. CASE Exchange(p) \/ Reject(p)
    BY <1>1, <2>8 DEF Exchange, Reject, Goto
  <2>9. CASE Rollback(p)
    BY <1>1, <2>9 DEF Rollback, Goto
  <2>10. CASE AuthorizeStaged(p) \/ ActivateOpens(p)
    BY <1>1, <2>10 DEF AuthorizeStaged, ActivateOpens, Open, Goto
  <2>11. CASE OpenRecord(p) \/ AdoptTest(p) \/ Decide(p) \/ Select(p) \/ Fails(p)
    BY <1>1, <2>11 DEF OpenRecord, AdoptTest, Decide, Select, Fails, Goto
  <2> QED
    BY <1>1, <2>1, <2>2, <2>3, <2>4, <2>5, <2>6, <2>7, <2>8, <2>9, <2>10, <2>11
       DEF Process
<1>2. CASE DamageSomething
  BY <1>2 DEF DamageSomething, HurtAll
<1>3. CASE UNCHANGED vars
  BY <1>3 DEF vars
<1> QED
  BY <1>1, <1>2, <1>3 DEF Next, Environment, PowerLost

(* What a process staged stays there as the others step,                   *)
LEMMA StageAside ==
  ASSUME StoreInv, [Next]_vars, NEW q \in Procs, Aside(q)
  PROVE  StageAgrees(q)'
<1>1. CASE Ended'
  <2>1. at'[q] \in {"new"} \cup Ends
    BY <1>1 DEF Ended, Running
  <2> QED
    BY <2>1 DEF StageAgrees, Ends
<1>2. CASE ~Ended'
  <2>1. PICK g \in Gens : g = Gen(q) /\ g = Gen(q)'
    BY GenFacts DEF StoreInv, StoreTypeOK, Gen, Aside
  <2>2. PICK k \in Packages : k = pkg[q] /\ k = pkg'[q]
    BY GenFacts DEF StoreInv, StoreTypeOK, Aside
  <2>3. /\ Present(g) => Present(g)'
        /\ Present(g) /\ TreeLasts(g) => TreeLasts(g)'
        /\ Retained(g) => Retained(g)'
        /\ Kept(k) => Kept(k)'
    BY <1>2, PresentStays, LastsStays, RetainedStays, KeptStays
  <2>4. StageAgrees(q)
    BY DEF StoreInv, ProcInv
  <2> QED
    BY <2>1, <2>2, <2>3, <2>4 DEF StageAgrees, Aside
<1> QED
  BY <1>1, <1>2

(* and as its own steps need it.                                           *)
LEMMA StageKept ==
  ASSUME StoreInv, [Next]_vars, NEW q \in Procs
  PROVE  StageAgrees(q)'
<1> USE GenFacts DEF StoreInv, StoreTypeOK, FilesTyped, JobsTyped, WorkTyped,
        Trees, ProcInv, Ends, store, names, fates, jobs, open, work, history
<1>1. CASE Aside(q)
  BY <1>1, StageAside
<1>2. ASSUME NEW job \in {"install", "launch"}, NEW m \in Modes,
            NEW k \in Packages, Begin(q, job, m, k)
      PROVE  StageAgrees(q)'
  BY <1>2 DEF Begin, Goto, Authorized, StageAgrees
<1>3. ASSUME NEW ok \in BOOLEAN, Look(q, ok)
      PROVE  StageAgrees(q)'
  <2>1. PICK g \in Gens : g = Gen(q) /\ g = Gen(q)' /\ g[1] = pkg[q]
    BY <1>3 DEF Look, TakeTree, Goto, Gen
  <2>2. StageAgrees(q)
    OBVIOUS
  <2> QED
    BY <1>3, <2>1, <2>2 DEF Look, TakeTree, Goto,
       StageAgrees, Present, TreeLasts, Retained, BlobLasts, Kept
<1>4. CASE Retain(q)
  <2>1. PICK g \in Gens : g = Gen(q) /\ g = Gen(q)' /\ g[1] = pkg[q] /\ g[2] = mode[q]
    BY <1>4 DEF Retain, TakeBlob, Gen
  <2>2. StageAgrees(q) /\ UNCHANGED <<tree, adrift, stage, repair, pkg>>
    BY <1>4 DEF Retain
  <2>3. CASE TakeBlob(q) /\ UNCHANGED <<blob, afloat>> /\ blob[pkg[q]] = "good"
    <3>1. /\ at[q] \in {"retain", "blob"}
          /\ trusted' = trusted \cup ((afloat \cap {pkg[q]}) \X Modes)
          /\ at'[q] = IF stage[q] = "none" THEN "staged" ELSE "publish"
      BY <1>4, <2>3 DEF TakeBlob, AfterRetain, Goto, Retain
    <3>2. g \in trusted' \/ pkg[q] \notin afloat
      BY <2>1, <3>1 DEF Gens
    <3>3. Retained(g)'
      BY <2>1, <2>3, <3>2 DEF Retained, BlobLasts, Kept
    <3>4. TreeLasts(g) => TreeLasts(g)'
      BY <2>2, <3>1 DEF TreeLasts
    <3> QED
      BY <2>1, <2>2, <2>3, <3>1, <3>3, <3>4 DEF StageAgrees, Present
  <2>4. CASE blob[pkg[q]] # "good"
    BY <1>4, <2>1, <2>2, <2>4 DEF Retain, Goto, StageAgrees, Present, TreeLasts, Kept
  <2> QED
    BY <1>4, <2>3, <2>4 DEF Retain
<1>5. ASSUME NEW ok \in BOOLEAN, PublishBlob(q, ok)
      PROVE  StageAgrees(q)'
  <2>1. PICK g \in Gens : g = Gen(q) /\ g = Gen(q)' /\ g[1] = pkg[q] /\ g[2] = mode[q]
    BY <1>5 DEF PublishBlob, TakeBlob, Gen
  <2>2. StageAgrees(q) /\ UNCHANGED <<tree, adrift, stage, repair, pkg>>
    BY <1>5 DEF PublishBlob
  <2>3. CASE TakeBlob(q) /\ UNCHANGED <<blob, afloat>> /\ blob[pkg[q]] = "good"
    <3>1. /\ at[q] \in {"retain", "blob"}
          /\ trusted' = trusted \cup ((afloat \cap {pkg[q]}) \X Modes)
          /\ at'[q] = IF stage[q] = "none" THEN "staged" ELSE "publish"
      BY <1>5, <2>3 DEF TakeBlob, AfterRetain, Goto, PublishBlob
    <3>2. g \in trusted' \/ pkg[q] \notin afloat
      BY <2>1, <3>1 DEF Gens
    <3>3. Retained(g)'
      BY <2>1, <2>3, <3>2 DEF Retained, BlobLasts, Kept
    <3>4. TreeLasts(g) => TreeLasts(g)'
      BY <2>2, <3>1 DEF TreeLasts
    <3> QED
      BY <2>1, <2>2, <2>3, <3>1, <3>3, <3>4 DEF StageAgrees, Present
  <2>4. CASE ok
    BY <1>5, <2>1, <2>2, <2>4 DEF PublishBlob, Goto, StageAgrees, Present, TreeLasts, Kept
  <2> QED
    BY <1>5, <2>3, <2>4 DEF PublishBlob
<1>6. CASE SyncBlobs(q)
  <2>1. PICK g \in Gens : g = Gen(q) /\ g = Gen(q)' /\ g[1] = pkg[q]
    BY <1>6 DEF SyncBlobs, AfterRetain, Goto, Gen
  <2>2. StageAgrees(q)
    OBVIOUS
  <2> QED
    BY <1>6, <2>1, <2>2 DEF SyncBlobs, AfterRetain, Goto,
       StageAgrees, Present, TreeLasts, Retained, BlobLasts, Kept
<1>7. CASE Publish(q)
  <2>1. PICK g \in Gens : g = Gen(q) /\ g = Gen(q)' /\ g[1] = pkg[q]
    BY <1>7 DEF Publish, TakeTree, Goto, Gen
  <2>2. StageAgrees(q)
    OBVIOUS
  <2> QED
    BY <1>7, <2>1, <2>2 DEF Publish, TakeTree, Goto,
       StageAgrees, Present, TreeLasts, Retained, BlobLasts, Kept
<1>8. CASE SyncTrees(q)
  <2>1. PICK g \in Gens : g = Gen(q) /\ g = Gen(q)' /\ g[1] = pkg[q]
    BY <1>8 DEF SyncTrees, Goto, Gen
  <2>2. StageAgrees(q)
    OBVIOUS
  <2> QED
    BY <1>8, <2>1, <2>2 DEF SyncTrees, Goto,
       StageAgrees, Present, TreeLasts, Retained, BlobLasts, Kept
<1>9. CASE Exchange(q)
  <2>1. PICK g \in Gens : g = Gen(q) /\ g = Gen(q)' /\ g[1] = pkg[q]
    BY <1>9 DEF Exchange, Goto, Gen
  <2>2. StageAgrees(q)
    OBVIOUS
  <2> QED
    BY <1>9, <2>1, <2>2 DEF Exchange, Goto,
       StageAgrees, Present, TreeLasts, Retained, BlobLasts, Kept
<1>10. ASSUME NEW ok \in BOOLEAN, VerifyRepaired(q, ok)
      PROVE  StageAgrees(q)'
  <2>1. PICK g \in Gens : g = Gen(q) /\ g = Gen(q)' /\ g[1] = pkg[q]
    BY <1>10 DEF VerifyRepaired, Goto, Gen
  <2>2. StageAgrees(q)
    OBVIOUS
  <2> QED
    BY <1>10, <2>1, <2>2 DEF VerifyRepaired, Goto,
       StageAgrees, Present, TreeLasts, Retained, BlobLasts, Kept
<1>11. CASE Rollback(q)
  BY <1>11 DEF Rollback, Goto, StageAgrees
<1>12. CASE Reject(q)
  <2>1. PICK g \in Gens : g = Gen(q) /\ g = Gen(q)' /\ g[1] = pkg[q]
    BY <1>12 DEF Reject, Goto, Gen
  <2>2. StageAgrees(q)
    OBVIOUS
  <2> QED
    BY <1>12, <2>1, <2>2 DEF Reject, Goto,
       StageAgrees, Present, TreeLasts, Retained, BlobLasts, Kept
<1>13. CASE AuthorizeStaged(q) \/ ActivateOpens(q)
  <2>1. PICK g \in Gens : g = Gen(q) /\ g = Gen(q)' /\ g[1] = pkg[q]
    BY <1>13 DEF AuthorizeStaged, ActivateOpens, Open, Goto, Gen
  <2>2. StageAgrees(q)
    OBVIOUS
  <2> QED
    BY <1>13, <2>1, <2>2 DEF AuthorizeStaged, ActivateOpens, Open, Goto,
       StageAgrees, Present, TreeLasts, Retained, BlobLasts, Kept
<1>14. CASE Commit(q)
  BY <1>14 DEF Commit, Goto, StageAgrees
<1>15. ASSUME NEW ok \in BOOLEAN, SyncRecord(q, ok)
      PROVE  StageAgrees(q)'
  BY <1>15 DEF SyncRecord, Goto, StageAgrees
<1>16. CASE OpenRecord(q)
  BY <1>16 DEF OpenRecord, Goto, StageAgrees
<1>17. ASSUME NEW ok \in BOOLEAN, ReadRecord(q, ok)
      PROVE  StageAgrees(q)'
  BY <1>17 DEF ReadRecord, ReadsFrom, Adopts, Authorized, Opens, Goto, StageAgrees
<1>18. CASE AdoptTest(q)
  BY <1>18 DEF AdoptTest, Goto, StageAgrees
<1>19. ASSUME NEW ok \in BOOLEAN, AdoptWrite(q, ok)
      PROVE  StageAgrees(q)'
  BY <1>19 DEF AdoptWrite, Goto, StageAgrees
<1>20. CASE Decide(q)
  BY <1>20 DEF Decide, Goto, StageAgrees
<1>21. CASE Select(q)
  BY <1>21 DEF Select, Candidates, Goto, StageAgrees
<1>22. CASE Fails(q)
  BY <1>22 DEF Fails, Goto, StageAgrees
<1>23. ASSUME NEW dirs \in SUBSET bare, NEW gone \in SUBSET adrift,
            NEW torn \in SUBSET loose, NEW away \in SUBSET afloat,
            NEW old \in {"none", "bad"}, PowerLoss(dirs, gone, torn, away, old)
      PROVE  StageAgrees(q)'
  <2>1. at'[q] \in {"new"} \cup Ends
    BY <1>23 DEF PowerLoss, Running
  <2> QED
    BY <2>1 DEF StageAgrees
<1> HIDE GenFacts DEF StoreInv, StoreTypeOK, FilesTyped, JobsTyped, WorkTyped,
        Trees, ProcInv, Ends, store, names, fates, jobs, open, work, history
<1> QED BY OthersAside, <1>1, <1>2, <1>3, <1>4, <1>5, <1>6, <1>7, <1>8, <1>9,
     <1>10, <1>11, <1>12, <1>13, <1>14, <1>15, <1>16, <1>17, <1>18, <1>19,
     <1>20, <1>21, <1>22, <1>23
        DEF Process, PowerLost

(* What it adopts is covered.                                              *)
LEMMA LegacyKept ==
  ASSUME StoreInv, [Next]_vars, NEW q \in Procs
  PROVE  LegacyAgrees(q)'
<1> USE GenFacts, GensFacts, CoveredStays DEF StoreInv, StoreTypeOK,
        FilesTyped, JobsTyped, WorkTyped, RecordsAgree, ProcInv, LegacyAgrees,
        Running, Ends, store, names, fates, jobs, open, work, history
<1>1. CASE Aside(q)
  BY <1>1 DEF Aside
<1>2. ASSUME NEW job \in {"install", "launch"}, NEW m \in Modes,
            NEW k \in Packages, Begin(q, job, m, k)
      PROVE  LegacyAgrees(q)'
  BY <1>2 DEF Begin, Goto, Authorized
<1>3. ASSUME NEW ok \in BOOLEAN, Look(q, ok)
      PROVE  LegacyAgrees(q)'
  BY <1>3 DEF Look, TakeTree, Goto
<1>4. CASE Retain(q)
  BY <1>4 DEF Retain, TakeBlob, AfterRetain, Goto
<1>5. ASSUME NEW ok \in BOOLEAN, PublishBlob(q, ok)
      PROVE  LegacyAgrees(q)'
  BY <1>5 DEF PublishBlob, TakeBlob, AfterRetain, Goto
<1>6. CASE SyncBlobs(q)
  BY <1>6 DEF SyncBlobs, AfterRetain, Goto
<1>7. CASE Publish(q)
  BY <1>7 DEF Publish, TakeTree, Goto
<1>8. CASE SyncTrees(q)
  BY <1>8 DEF SyncTrees, Goto
<1>9. CASE Exchange(q)
  BY <1>9 DEF Exchange, Goto
<1>10. ASSUME NEW ok \in BOOLEAN, VerifyRepaired(q, ok)
      PROVE  LegacyAgrees(q)'
  BY <1>10 DEF VerifyRepaired, Goto
<1>11. CASE Rollback(q)
  BY <1>11 DEF Rollback, Goto
<1>12. CASE Reject(q)
  BY <1>12 DEF Reject, Goto
<1>13. CASE AuthorizeStaged(q) \/ ActivateOpens(q)
  BY <1>13 DEF AuthorizeStaged, ActivateOpens, Open, Goto
<1>14. CASE Commit(q)
  BY <1>14 DEF Commit, WriteRecord, Overtakes, Goto
<1>15. ASSUME NEW ok \in BOOLEAN, SyncRecord(q, ok)
      PROVE  LegacyAgrees(q)'
  BY <1>15 DEF SyncRecord, Goto
<1>16. CASE OpenRecord(q)
  BY <1>16 DEF OpenRecord, Goto
<1>17. ASSUME NEW ok \in BOOLEAN, ReadRecord(q, ok)
      PROVE  LegacyAgrees(q)'
  <2>1. CASE at'[q] \in {"test", "adopt"}
    <3>1. /\ Adopts(q, ReadsFrom(q, ok)) /\ legacy'[q] = ReadsFrom(q, ok)
          /\ ReadsFrom(q, ok) # Missing
      BY <1>17, <2>1 DEF ReadRecord, Goto, Adopts
    <3>2. legacy'[q] = record["official"] /\ legacy'[q] \in Gens
      BY <3>1 DEF ReadsFrom, Opens, Adopts
    <3>3. PICK g \in Gens : g = record["official"]
      BY <3>2
    <3>4. Covered(g)
      BY <3>3 DEF Modes
    <3>5. Covered(g)'
      BY <3>4, CoveredStays
    <3>6. legacy'[q] = g
      BY <3>2, <3>3
    <3> QED
      BY <3>5, <3>6
  <2>2. CASE at'[q] \notin {"test", "adopt"}
    BY <2>2
  <2> QED
    BY <2>1, <2>2
<1>18. CASE AdoptTest(q)
  BY <1>18 DEF AdoptTest, Goto
<1>19. ASSUME NEW ok \in BOOLEAN, AdoptWrite(q, ok)
      PROVE  LegacyAgrees(q)'
  BY <1>19 DEF AdoptWrite, WriteRecord, Overtakes, Goto
<1>20. CASE Decide(q)
  BY <1>20 DEF Decide, Goto
<1>21. CASE Select(q)
  BY <1>21 DEF Select, Candidates, Goto
<1>22. CASE Fails(q)
  BY <1>22 DEF Fails, Goto
<1>23. ASSUME NEW dirs \in SUBSET bare, NEW gone \in SUBSET adrift,
            NEW torn \in SUBSET loose, NEW away \in SUBSET afloat,
            NEW old \in {"none", "bad"}, PowerLoss(dirs, gone, torn, away, old)
      PROVE  LegacyAgrees(q)'
  BY <1>23 DEF PowerLoss, HurtAll
<1> HIDE GenFacts, GensFacts, CoveredStays DEF StoreInv, StoreTypeOK,
        FilesTyped, JobsTyped, WorkTyped, RecordsAgree, ProcInv, LegacyAgrees,
        Running, Ends, store, names, fates, jobs, open, work, history
<1> QED BY OthersAside, <1>1, <1>2, <1>3, <1>4, <1>5, <1>6, <1>7, <1>8, <1>9,
     <1>10, <1>11, <1>12, <1>13, <1>14, <1>15, <1>16, <1>17, <1>18, <1>19,
     <1>20, <1>21, <1>22, <1>23
        DEF Process, PowerLost

(* It never stages after it has activated.                                 *)
LEMMA PhaseKept ==
  ASSUME StoreInv, [Next]_vars, NEW q \in Procs
  PROVE  PhaseAgrees(q)'
<1> USE StoreAssumption DEF StoreInv, StoreTypeOK, WorkTyped, ProcInv,
        PhaseAgrees, Running, Ends, store, names, fates, jobs, open, work,
        history
<1>1. CASE Aside(q)
  BY <1>1 DEF Aside
<1>2. ASSUME NEW job \in {"install", "launch"}, NEW m \in Modes,
            NEW k \in Packages, Begin(q, job, m, k)
      PROVE  PhaseAgrees(q)'
  BY <1>2 DEF Begin, Goto, Authorized
<1>3. ASSUME NEW ok \in BOOLEAN, Look(q, ok)
      PROVE  PhaseAgrees(q)'
  BY <1>3 DEF Look, TakeTree, Goto
<1>4. CASE Retain(q)
  BY <1>4 DEF Retain, TakeBlob, AfterRetain, Goto
<1>5. ASSUME NEW ok \in BOOLEAN, PublishBlob(q, ok)
      PROVE  PhaseAgrees(q)'
  BY <1>5 DEF PublishBlob, TakeBlob, AfterRetain, Goto
<1>6. CASE SyncBlobs(q)
  BY <1>6 DEF SyncBlobs, AfterRetain, Goto
<1>7. CASE Publish(q)
  BY <1>7 DEF Publish, TakeTree, Goto
<1>8. CASE SyncTrees(q)
  BY <1>8 DEF SyncTrees, Goto
<1>9. CASE Exchange(q)
  BY <1>9 DEF Exchange, Goto
<1>10. ASSUME NEW ok \in BOOLEAN, VerifyRepaired(q, ok)
      PROVE  PhaseAgrees(q)'
  BY <1>10 DEF VerifyRepaired, Goto
<1>11. CASE Rollback(q)
  BY <1>11 DEF Rollback, Goto
<1>12. CASE Reject(q)
  BY <1>12 DEF Reject, Goto
<1>13. CASE AuthorizeStaged(q) \/ ActivateOpens(q)
  BY <1>13 DEF AuthorizeStaged, ActivateOpens, Open, Goto
<1>14. CASE Commit(q)
  BY <1>14 DEF Commit, WriteRecord, Overtakes, Goto
<1>15. ASSUME NEW ok \in BOOLEAN, SyncRecord(q, ok)
      PROVE  PhaseAgrees(q)'
  BY <1>15 DEF SyncRecord, Goto
<1>16. CASE OpenRecord(q)
  BY <1>16 DEF OpenRecord, Goto
<1>17. ASSUME NEW ok \in BOOLEAN, ReadRecord(q, ok)
      PROVE  PhaseAgrees(q)'
  BY <1>17 DEF ReadRecord, ReadsFrom, Adopts, Authorized, Opens, Goto
<1>18. CASE AdoptTest(q)
  BY <1>18 DEF AdoptTest, Goto
<1>19. ASSUME NEW ok \in BOOLEAN, AdoptWrite(q, ok)
      PROVE  PhaseAgrees(q)'
  BY <1>19, AdoptFacts
<1>20. CASE Decide(q)
  BY <1>20 DEF Decide, Goto
<1>21. CASE Select(q)
  BY <1>21 DEF Select, Candidates, Goto
<1>22. CASE Fails(q)
  BY <1>22 DEF Fails, Goto
<1>23. ASSUME NEW dirs \in SUBSET bare, NEW gone \in SUBSET adrift,
            NEW torn \in SUBSET loose, NEW away \in SUBSET afloat,
            NEW old \in {"none", "bad"}, PowerLoss(dirs, gone, torn, away, old)
      PROVE  PhaseAgrees(q)'
  BY <1>23 DEF PowerLoss, HurtAll
<1> HIDE StoreAssumption DEF StoreInv, StoreTypeOK, WorkTyped, ProcInv,
        PhaseAgrees, Running, Ends, store, names, fates, jobs, open, work,
        history
<1> QED BY OthersAside, <1>1, <1>2, <1>3, <1>4, <1>5, <1>6, <1>7, <1>8, <1>9,
     <1>10, <1>11, <1>12, <1>13, <1>14, <1>15, <1>16, <1>17, <1>18, <1>19,
     <1>20, <1>21, <1>22, <1>23
        DEF Process, PowerLost

(* While nothing disturbs a process a generation that verifies goes on to, *)
(* and one that is not there does not turn up bad.                         *)
LEMMA GoodStays ==
  ASSUME StoreInv, [Next]_vars, NEW q \in Procs, Running(q), ~hurt'[q], NEW g
         \in Gens
  PROVE  /\ tree[g] = "good" => tree'[g] = "good"
         /\ tree[g] # "bad" => tree'[g] # "bad"
<1> USE GenFacts DEF StoreInv, StoreTypeOK, FilesTyped, WorkTyped, Trees,
        ProcInv, StageAgrees, Present, Undisturbed, Running, Ends, store,
        names, fates, jobs, open, work, history
<1>1. ASSUME NEW p \in Procs, NEW job \in {"install", "launch"}, NEW m \in Modes,
            NEW k \in Packages, Begin(p, job, m, k)
      PROVE  /\ tree[g] = "good" => tree'[g] = "good"
             /\ tree[g] # "bad" => tree'[g] # "bad"
  BY <1>1 DEF Begin, Goto, Authorized
<1>2. ASSUME NEW p \in Procs, NEW ok \in BOOLEAN, Look(p, ok)
      PROVE  /\ tree[g] = "good" => tree'[g] = "good"
             /\ tree[g] # "bad" => tree'[g] # "bad"
  BY <1>2 DEF Look, TakeTree, Goto
<1>3. ASSUME NEW p \in Procs, Retain(p)
      PROVE  /\ tree[g] = "good" => tree'[g] = "good"
             /\ tree[g] # "bad" => tree'[g] # "bad"
  BY <1>3 DEF Retain, TakeBlob, AfterRetain, Goto
<1>4. ASSUME NEW p \in Procs, NEW ok \in BOOLEAN, PublishBlob(p, ok)
      PROVE  /\ tree[g] = "good" => tree'[g] = "good"
             /\ tree[g] # "bad" => tree'[g] # "bad"
  BY <1>4 DEF PublishBlob, TakeBlob, AfterRetain, Goto
<1>5. ASSUME NEW p \in Procs, SyncBlobs(p)
      PROVE  /\ tree[g] = "good" => tree'[g] = "good"
             /\ tree[g] # "bad" => tree'[g] # "bad"
  BY <1>5 DEF SyncBlobs, AfterRetain, Goto
<1>6. ASSUME NEW p \in Procs, Publish(p)
      PROVE  /\ tree[g] = "good" => tree'[g] = "good"
             /\ tree[g] # "bad" => tree'[g] # "bad"
  BY <1>6 DEF Publish, TakeTree, Goto
<1>7. ASSUME NEW p \in Procs, SyncTrees(p)
      PROVE  /\ tree[g] = "good" => tree'[g] = "good"
             /\ tree[g] # "bad" => tree'[g] # "bad"
  BY <1>7 DEF SyncTrees, Goto
<1>8. ASSUME NEW p \in Procs, Exchange(p)
      PROVE  /\ tree[g] = "good" => tree'[g] = "good"
             /\ tree[g] # "bad" => tree'[g] # "bad"
  BY <1>8 DEF Exchange, Goto
<1>9. ASSUME NEW p \in Procs, NEW ok \in BOOLEAN, VerifyRepaired(p, ok)
      PROVE  /\ tree[g] = "good" => tree'[g] = "good"
             /\ tree[g] # "bad" => tree'[g] # "bad"
  BY <1>9 DEF VerifyRepaired, Goto
<1>10. ASSUME NEW p \in Procs, Rollback(p)
      PROVE  /\ tree[g] = "good" => tree'[g] = "good"
             /\ tree[g] # "bad" => tree'[g] # "bad"
  BY <1>10 DEF Rollback, Goto
<1>11. ASSUME NEW p \in Procs, Reject(p)
      PROVE  /\ tree[g] = "good" => tree'[g] = "good"
             /\ tree[g] # "bad" => tree'[g] # "bad"
  BY <1>11 DEF Reject, Goto
<1>12. ASSUME NEW p \in Procs, AuthorizeStaged(p) \/ ActivateOpens(p)
      PROVE  /\ tree[g] = "good" => tree'[g] = "good"
             /\ tree[g] # "bad" => tree'[g] # "bad"
  BY <1>12 DEF AuthorizeStaged, ActivateOpens, Open, Goto
<1>13. ASSUME NEW p \in Procs, Commit(p)
      PROVE  /\ tree[g] = "good" => tree'[g] = "good"
             /\ tree[g] # "bad" => tree'[g] # "bad"
  BY <1>13 DEF Commit, WriteRecord, Overtakes, Goto
<1>14. ASSUME NEW p \in Procs, NEW ok \in BOOLEAN, SyncRecord(p, ok)
      PROVE  /\ tree[g] = "good" => tree'[g] = "good"
             /\ tree[g] # "bad" => tree'[g] # "bad"
  BY <1>14 DEF SyncRecord, Goto
<1>15. ASSUME NEW p \in Procs, OpenRecord(p)
      PROVE  /\ tree[g] = "good" => tree'[g] = "good"
             /\ tree[g] # "bad" => tree'[g] # "bad"
  BY <1>15 DEF OpenRecord, Goto
<1>16. ASSUME NEW p \in Procs, NEW ok \in BOOLEAN, ReadRecord(p, ok)
      PROVE  /\ tree[g] = "good" => tree'[g] = "good"
             /\ tree[g] # "bad" => tree'[g] # "bad"
  BY <1>16 DEF ReadRecord, ReadsFrom, Adopts, Authorized, Opens, Goto
<1>17. ASSUME NEW p \in Procs, AdoptTest(p)
      PROVE  /\ tree[g] = "good" => tree'[g] = "good"
             /\ tree[g] # "bad" => tree'[g] # "bad"
  BY <1>17 DEF AdoptTest, Goto
<1>18. ASSUME NEW p \in Procs, NEW ok \in BOOLEAN, AdoptWrite(p, ok)
      PROVE  /\ tree[g] = "good" => tree'[g] = "good"
             /\ tree[g] # "bad" => tree'[g] # "bad"
  BY <1>18 DEF AdoptWrite, WriteRecord, Overtakes, Goto
<1>19. ASSUME NEW p \in Procs, Decide(p)
      PROVE  /\ tree[g] = "good" => tree'[g] = "good"
             /\ tree[g] # "bad" => tree'[g] # "bad"
  BY <1>19 DEF Decide, Goto
<1>20. ASSUME NEW p \in Procs, Select(p)
      PROVE  /\ tree[g] = "good" => tree'[g] = "good"
             /\ tree[g] # "bad" => tree'[g] # "bad"
  BY <1>20 DEF Select, Candidates, Goto
<1>21. ASSUME NEW p \in Procs, Fails(p)
      PROVE  /\ tree[g] = "good" => tree'[g] = "good"
             /\ tree[g] # "bad" => tree'[g] # "bad"
  BY <1>21 DEF Fails, Goto
<1>22. CASE DamageSomething
  BY <1>22 DEF DamageSomething, HurtAll
<1>23. ASSUME NEW dirs \in SUBSET bare, NEW gone \in SUBSET adrift,
            NEW torn \in SUBSET loose, NEW away \in SUBSET afloat,
            NEW old \in {"none", "bad"}, PowerLoss(dirs, gone, torn, away, old)
      PROVE  /\ tree[g] = "good" => tree'[g] = "good"
             /\ tree[g] # "bad" => tree'[g] # "bad"
  BY <1>23 DEF PowerLoss, HurtAll
<1>24. CASE UNCHANGED vars
  BY <1>24 DEF vars
<1> HIDE GenFacts DEF StoreInv, StoreTypeOK, FilesTyped, WorkTyped, Trees,
        ProcInv, StageAgrees, Present, Undisturbed, Running, Ends, store,
        names, fates, jobs, open, work, history
<1> QED BY <1>1, <1>2, <1>3, <1>4, <1>5, <1>6, <1>7, <1>8, <1>9, <1>10, <1>11,
     <1>12, <1>13, <1>14, <1>15, <1>16, <1>17, <1>18, <1>19, <1>20, <1>21,
     <1>22, <1>23, <1>24
        DEF Next, Environment, Process

(* nor does the record it has written change.                              *)
LEMMA RecordStays ==
  ASSUME StoreInv, [Next]_vars, NEW q \in Procs, phase[q] # "open", Running(q),
         ~hurt'[q], ~overtaken'[q], record[mode[q]] = Gen(q), at[q] \in
         {"written", "read", "reading", "decide"}
  PROVE  record'[mode[q]] = Gen(q)
<1> USE GenFacts DEF StoreInv, StoreTypeOK, FilesTyped, JobsTyped, WorkTyped,
        HistoryTyped, ProcInv, StageAgrees, PhaseAgrees, Undisturbed, Running,
        Ends, store, names, fates, jobs, open, work, history
<1>1. ASSUME NEW p \in Procs, NEW job \in {"install", "launch"}, NEW m \in Modes,
            NEW k \in Packages, Begin(p, job, m, k)
      PROVE  record'[mode[q]] = Gen(q)
  BY <1>1 DEF Begin, Goto, Authorized
<1>2. ASSUME NEW p \in Procs, NEW ok \in BOOLEAN, Look(p, ok)
      PROVE  record'[mode[q]] = Gen(q)
  BY <1>2 DEF Look, TakeTree, Goto
<1>3. ASSUME NEW p \in Procs, Retain(p)
      PROVE  record'[mode[q]] = Gen(q)
  BY <1>3 DEF Retain, TakeBlob, AfterRetain, Goto
<1>4. ASSUME NEW p \in Procs, NEW ok \in BOOLEAN, PublishBlob(p, ok)
      PROVE  record'[mode[q]] = Gen(q)
  BY <1>4 DEF PublishBlob, TakeBlob, AfterRetain, Goto
<1>5. ASSUME NEW p \in Procs, SyncBlobs(p)
      PROVE  record'[mode[q]] = Gen(q)
  BY <1>5 DEF SyncBlobs, AfterRetain, Goto
<1>6. ASSUME NEW p \in Procs, Publish(p)
      PROVE  record'[mode[q]] = Gen(q)
  BY <1>6 DEF Publish, TakeTree, Goto
<1>7. ASSUME NEW p \in Procs, SyncTrees(p)
      PROVE  record'[mode[q]] = Gen(q)
  BY <1>7 DEF SyncTrees, Goto
<1>8. ASSUME NEW p \in Procs, Exchange(p)
      PROVE  record'[mode[q]] = Gen(q)
  BY <1>8 DEF Exchange, Goto
<1>9. ASSUME NEW p \in Procs, NEW ok \in BOOLEAN, VerifyRepaired(p, ok)
      PROVE  record'[mode[q]] = Gen(q)
  BY <1>9 DEF VerifyRepaired, Goto
<1>10. ASSUME NEW p \in Procs, Rollback(p)
      PROVE  record'[mode[q]] = Gen(q)
  BY <1>10 DEF Rollback, Goto
<1>11. ASSUME NEW p \in Procs, Reject(p)
      PROVE  record'[mode[q]] = Gen(q)
  BY <1>11 DEF Reject, Goto
<1>12. ASSUME NEW p \in Procs, AuthorizeStaged(p) \/ ActivateOpens(p)
      PROVE  record'[mode[q]] = Gen(q)
  BY <1>12 DEF AuthorizeStaged, ActivateOpens, Open, Goto
<1>13. ASSUME NEW p \in Procs, Commit(p)
      PROVE  record'[mode[q]] = Gen(q)
  BY <1>13 DEF Commit, WriteRecord, Overtakes, Goto
<1>14. ASSUME NEW p \in Procs, NEW ok \in BOOLEAN, SyncRecord(p, ok)
      PROVE  record'[mode[q]] = Gen(q)
  BY <1>14 DEF SyncRecord, Goto
<1>15. ASSUME NEW p \in Procs, OpenRecord(p)
      PROVE  record'[mode[q]] = Gen(q)
  BY <1>15 DEF OpenRecord, Goto
<1>16. ASSUME NEW p \in Procs, NEW ok \in BOOLEAN, ReadRecord(p, ok)
      PROVE  record'[mode[q]] = Gen(q)
  BY <1>16 DEF ReadRecord, ReadsFrom, Adopts, Authorized, Opens, Goto
<1>17. ASSUME NEW p \in Procs, AdoptTest(p)
      PROVE  record'[mode[q]] = Gen(q)
  BY <1>17 DEF AdoptTest, Goto
<1>18. ASSUME NEW p \in Procs, NEW ok \in BOOLEAN, AdoptWrite(p, ok)
      PROVE  record'[mode[q]] = Gen(q)
  <2>1. p # q
    BY <1>18 DEF AdoptWrite
  <2>2. CASE ~ok
    BY <1>18, <2>2 DEF AdoptWrite
  <2>3. CASE ok
    <3>1. /\ record' = [record EXCEPT !["development"] = legacy[p]]
          /\ Overtakes(p, "development", legacy[p]) /\ UNCHANGED <<mode, pkg>>
      BY <1>18, <2>3 DEF AdoptWrite, WriteRecord
    <3>2. CASE mode[q] # "development"
      BY <3>1, <3>2
    <3>3. CASE mode[q] = "development" /\ legacy[p] # Gen(q)
      BY <2>1, <3>1, <3>3 DEF Overtakes
    <3> QED
      BY <3>1, <3>2, <3>3 DEF Modes
  <2> QED
    BY <2>2, <2>3
<1>19. ASSUME NEW p \in Procs, Decide(p)
      PROVE  record'[mode[q]] = Gen(q)
  BY <1>19 DEF Decide, Goto
<1>20. ASSUME NEW p \in Procs, Select(p)
      PROVE  record'[mode[q]] = Gen(q)
  BY <1>20 DEF Select, Candidates, Goto
<1>21. ASSUME NEW p \in Procs, Fails(p)
      PROVE  record'[mode[q]] = Gen(q)
  BY <1>21 DEF Fails, Goto
<1>22. CASE DamageSomething
  BY <1>22 DEF DamageSomething, HurtAll
<1>23. ASSUME NEW dirs \in SUBSET bare, NEW gone \in SUBSET adrift,
            NEW torn \in SUBSET loose, NEW away \in SUBSET afloat,
            NEW old \in {"none", "bad"}, PowerLoss(dirs, gone, torn, away, old)
      PROVE  record'[mode[q]] = Gen(q)
  BY <1>23 DEF PowerLoss, HurtAll
<1>24. CASE UNCHANGED vars
  BY <1>24 DEF vars
<1> HIDE GenFacts DEF StoreInv, StoreTypeOK, FilesTyped, JobsTyped, WorkTyped,
        HistoryTyped, ProcInv, StageAgrees, PhaseAgrees, Undisturbed, Running,
        Ends, store, names, fates, jobs, open, work, history
<1> QED BY <1>1, <1>2, <1>3, <1>4, <1>5, <1>6, <1>7, <1>8, <1>9, <1>10, <1>11,
     <1>12, <1>13, <1>14, <1>15, <1>16, <1>17, <1>18, <1>19, <1>20, <1>21,
     <1>22, <1>23, <1>24
        DEF Next, Environment, Process

(* Nor does the one that a launch found in its slot,                       *)
LEMMA NamedStays ==
  ASSUME StoreInv, [Next]_vars, NEW q \in Procs, phase[q] = "open", Running(q),
         ~hurt'[q], ~overtaken'[q], named[q] # Missing, record[mode[q]] =
         named[q], at[q] \in {"read", "reading", "decide"}
  PROVE  record'[mode[q]] = named[q]
<1> USE GenFacts DEF StoreInv, StoreTypeOK, FilesTyped, JobsTyped, WorkTyped,
        HistoryTyped, Running, Ends, store, names, fates, jobs, open, work,
        history
<1>1. ASSUME NEW p \in Procs, NEW job \in {"install", "launch"}, NEW m \in Modes,
            NEW k \in Packages, Begin(p, job, m, k)
      PROVE  record'[mode[q]] = named[q]
  BY <1>1 DEF Begin, Goto, Authorized
<1>2. ASSUME NEW p \in Procs, NEW ok \in BOOLEAN, Look(p, ok)
      PROVE  record'[mode[q]] = named[q]
  BY <1>2 DEF Look, TakeTree, Goto
<1>3. ASSUME NEW p \in Procs, Retain(p)
      PROVE  record'[mode[q]] = named[q]
  BY <1>3 DEF Retain, TakeBlob, AfterRetain, Goto
<1>4. ASSUME NEW p \in Procs, NEW ok \in BOOLEAN, PublishBlob(p, ok)
      PROVE  record'[mode[q]] = named[q]
  BY <1>4 DEF PublishBlob, TakeBlob, AfterRetain, Goto
<1>5. ASSUME NEW p \in Procs, SyncBlobs(p)
      PROVE  record'[mode[q]] = named[q]
  BY <1>5 DEF SyncBlobs, AfterRetain, Goto
<1>6. ASSUME NEW p \in Procs, Publish(p)
      PROVE  record'[mode[q]] = named[q]
  BY <1>6 DEF Publish, TakeTree, Goto
<1>7. ASSUME NEW p \in Procs, SyncTrees(p)
      PROVE  record'[mode[q]] = named[q]
  BY <1>7 DEF SyncTrees, Goto
<1>8. ASSUME NEW p \in Procs, Exchange(p)
      PROVE  record'[mode[q]] = named[q]
  BY <1>8 DEF Exchange, Goto
<1>9. ASSUME NEW p \in Procs, NEW ok \in BOOLEAN, VerifyRepaired(p, ok)
      PROVE  record'[mode[q]] = named[q]
  BY <1>9 DEF VerifyRepaired, Goto
<1>10. ASSUME NEW p \in Procs, Rollback(p)
      PROVE  record'[mode[q]] = named[q]
  BY <1>10 DEF Rollback, Goto
<1>11. ASSUME NEW p \in Procs, Reject(p)
      PROVE  record'[mode[q]] = named[q]
  BY <1>11 DEF Reject, Goto
<1>12. ASSUME NEW p \in Procs, AuthorizeStaged(p) \/ ActivateOpens(p)
      PROVE  record'[mode[q]] = named[q]
  BY <1>12 DEF AuthorizeStaged, ActivateOpens, Open, Goto
<1>13. ASSUME NEW p \in Procs, Commit(p)
      PROVE  record'[mode[q]] = named[q]
  BY <1>13 DEF Commit, WriteRecord, Overtakes, Goto
<1>14. ASSUME NEW p \in Procs, NEW ok \in BOOLEAN, SyncRecord(p, ok)
      PROVE  record'[mode[q]] = named[q]
  BY <1>14 DEF SyncRecord, Goto
<1>15. ASSUME NEW p \in Procs, OpenRecord(p)
      PROVE  record'[mode[q]] = named[q]
  BY <1>15 DEF OpenRecord, Goto
<1>16. ASSUME NEW p \in Procs, NEW ok \in BOOLEAN, ReadRecord(p, ok)
      PROVE  record'[mode[q]] = named[q]
  BY <1>16 DEF ReadRecord, ReadsFrom, Adopts, Authorized, Opens, Goto
<1>17. ASSUME NEW p \in Procs, AdoptTest(p)
      PROVE  record'[mode[q]] = named[q]
  BY <1>17 DEF AdoptTest, Goto
<1>18. ASSUME NEW p \in Procs, NEW ok \in BOOLEAN, AdoptWrite(p, ok)
      PROVE  record'[mode[q]] = named[q]
  <2>1. p # q
    BY <1>18 DEF AdoptWrite
  <2>2. CASE ~ok
    BY <1>18, <2>2 DEF AdoptWrite
  <2>3. CASE ok
    <3>1. /\ record' = [record EXCEPT !["development"] = legacy[p]]
          /\ Overtakes(p, "development", legacy[p]) /\ UNCHANGED <<mode, pkg>>
      BY <1>18, <2>3 DEF AdoptWrite, WriteRecord
    <3>2. CASE mode[q] # "development"
      BY <3>1, <3>2
    <3>3. CASE mode[q] = "development" /\ legacy[p] # named[q]
      BY <2>1, <3>1, <3>3 DEF Overtakes
    <3> QED
      BY <3>1, <3>2, <3>3 DEF Modes
  <2> QED
    BY <2>2, <2>3
<1>19. ASSUME NEW p \in Procs, Decide(p)
      PROVE  record'[mode[q]] = named[q]
  BY <1>19 DEF Decide, Goto
<1>20. ASSUME NEW p \in Procs, Select(p)
      PROVE  record'[mode[q]] = named[q]
  BY <1>20 DEF Select, Candidates, Goto
<1>21. ASSUME NEW p \in Procs, Fails(p)
      PROVE  record'[mode[q]] = named[q]
  BY <1>21 DEF Fails, Goto
<1>22. CASE DamageSomething
  BY <1>22 DEF DamageSomething, HurtAll
<1>23. ASSUME NEW dirs \in SUBSET bare, NEW gone \in SUBSET adrift,
            NEW torn \in SUBSET loose, NEW away \in SUBSET afloat,
            NEW old \in {"none", "bad"}, PowerLoss(dirs, gone, torn, away, old)
      PROVE  record'[mode[q]] = named[q]
  BY <1>23 DEF PowerLoss, HurtAll
<1>24. CASE UNCHANGED vars
  BY <1>24 DEF vars
<1> HIDE GenFacts DEF StoreInv, StoreTypeOK, FilesTyped, JobsTyped, WorkTyped,
        HistoryTyped, Running, Ends, store, names, fates, jobs, open, work,
        history
<1> QED BY <1>1, <1>2, <1>3, <1>4, <1>5, <1>6, <1>7, <1>8, <1>9, <1>10, <1>11,
     <1>12, <1>13, <1>14, <1>15, <1>16, <1>17, <1>18, <1>19, <1>20, <1>21,
     <1>22, <1>23, <1>24
        DEF Next, Environment, Process

(* What it relies on holds on as the others step,                          *)
LEMMA UndisturbedAside ==
  ASSUME StoreInv, [Next]_vars, NEW q \in Procs, Aside(q)
  PROVE  Undisturbed(q)'
<1> USE DEF Aside
<1>1. CASE ~Running(q)
  BY <1>1 DEF Running, Ends, Undisturbed
<1>2. CASE Running(q) /\ hurt'[q]
  BY <1>2 DEF Undisturbed
<1>3. CASE Running(q) /\ ~hurt'[q]
  <2>1. PICK g \in Gens : g = Gen(q) /\ g = Gen(q)'
    BY GenFacts DEF StoreInv, StoreTypeOK, Gen
  <2>2. /\ tree[g] = "good" => tree'[g] = "good"
        /\ tree[g] # "bad" => tree'[g] # "bad"
    BY <1>3, GoodStays
  <2>3. Undisturbed(q) /\ ~hurt[q]
    BY <1>3 DEF StoreInv, ProcInv
  <2>4. ~overtaken'[q] /\ phase[q] # "open" => record'[mode[q]] = Gen(q)
    BY <1>3, <2>3, RecordStays DEF Undisturbed
  <2> QED
    BY <1>3, <2>1, <2>2, <2>3, <2>4 DEF Undisturbed, Running
<1> QED
  BY <1>1, <1>2, <1>3

(* and as it steps itself.                                                 *)
LEMMA UndisturbedKept ==
  ASSUME StoreInv, [Next]_vars, NEW q \in Procs
  PROVE  Undisturbed(q)'
<1> USE GenFacts DEF StoreInv, StoreTypeOK, FilesTyped, JobsTyped, WorkTyped,
        HistoryTyped, Trees, ProcInv, Ends, store, names, fates, jobs, open,
        work, history
<1>1. CASE Aside(q)
  BY <1>1, UndisturbedAside
<1>2. ASSUME NEW job \in {"install", "launch"}, NEW m \in Modes,
            NEW k \in Packages, Begin(q, job, m, k)
      PROVE  Undisturbed(q)'
  BY <1>2, SMTT(30) DEF Begin, Goto, Authorized, PhaseAgrees, Undisturbed, Running
<1>3. ASSUME NEW ok \in BOOLEAN, Look(q, ok)
      PROVE  Undisturbed(q)'
  <2>1. PICK g \in Gens : g = Gen(q) /\ g = Gen(q)' /\ g[1] = pkg[q]
    BY <1>3 DEF Look, TakeTree, Goto, Gen
  <2>2. StageAgrees(q) /\ PhaseAgrees(q) /\ Undisturbed(q)
    OBVIOUS
  <2> QED
    BY <1>3, <2>1, <2>2 DEF Look, TakeTree, Goto,
       StageAgrees, PhaseAgrees, Undisturbed, Running, Present
<1>4. CASE Retain(q)
  <2>1. PICK g \in Gens : g = Gen(q) /\ g = Gen(q)' /\ g[1] = pkg[q]
    BY <1>4 DEF Retain, TakeBlob, AfterRetain, Goto, Gen
  <2>2. StageAgrees(q) /\ PhaseAgrees(q) /\ Undisturbed(q)
    OBVIOUS
  <2> QED
    BY <1>4, <2>1, <2>2 DEF Retain, TakeBlob, AfterRetain, Goto,
       StageAgrees, PhaseAgrees, Undisturbed, Running, Present
<1>5. ASSUME NEW ok \in BOOLEAN, PublishBlob(q, ok)
      PROVE  Undisturbed(q)'
  <2>1. PICK g \in Gens : g = Gen(q) /\ g = Gen(q)' /\ g[1] = pkg[q]
    BY <1>5 DEF PublishBlob, TakeBlob, AfterRetain, Goto, Gen
  <2>2. StageAgrees(q) /\ PhaseAgrees(q) /\ Undisturbed(q)
    OBVIOUS
  <2> QED
    BY <1>5, <2>1, <2>2 DEF PublishBlob, TakeBlob, AfterRetain, Goto,
       StageAgrees, PhaseAgrees, Undisturbed, Running, Present
<1>6. CASE SyncBlobs(q)
  <2>1. PICK g \in Gens : g = Gen(q) /\ g = Gen(q)' /\ g[1] = pkg[q]
    BY <1>6 DEF SyncBlobs, AfterRetain, Goto, Gen
  <2>2. StageAgrees(q) /\ PhaseAgrees(q) /\ Undisturbed(q)
    OBVIOUS
  <2> QED
    BY <1>6, <2>1, <2>2 DEF SyncBlobs, AfterRetain, Goto,
       StageAgrees, PhaseAgrees, Undisturbed, Running, Present
<1>7. CASE Publish(q)
  <2>1. PICK g \in Gens : g = Gen(q) /\ g = Gen(q)' /\ g[1] = pkg[q]
    BY <1>7 DEF Publish, TakeTree, Goto, Gen
  <2>2. StageAgrees(q) /\ PhaseAgrees(q) /\ Undisturbed(q)
    OBVIOUS
  <2> QED
    BY <1>7, <2>1, <2>2 DEF Publish, TakeTree, Goto,
       StageAgrees, PhaseAgrees, Undisturbed, Running, Present
<1>8. CASE SyncTrees(q)
  <2>1. PICK g \in Gens : g = Gen(q) /\ g = Gen(q)' /\ g[1] = pkg[q]
    BY <1>8 DEF SyncTrees, Goto, Gen
  <2>2. StageAgrees(q) /\ PhaseAgrees(q) /\ Undisturbed(q)
    OBVIOUS
  <2> QED
    BY <1>8, <2>1, <2>2 DEF SyncTrees, Goto,
       StageAgrees, PhaseAgrees, Undisturbed, Running, Present
<1>9. CASE Exchange(q)
  <2>1. PICK g \in Gens : g = Gen(q) /\ g = Gen(q)' /\ g[1] = pkg[q]
    BY <1>9 DEF Exchange, Goto, Gen
  <2>2. StageAgrees(q) /\ PhaseAgrees(q) /\ Undisturbed(q)
    OBVIOUS
  <2> QED
    BY <1>9, <2>1, <2>2 DEF Exchange, Goto,
       StageAgrees, PhaseAgrees, Undisturbed, Running, Present
<1>10. ASSUME NEW ok \in BOOLEAN, VerifyRepaired(q, ok)
      PROVE  Undisturbed(q)'
  <2>1. PICK g \in Gens : g = Gen(q) /\ g = Gen(q)' /\ g[1] = pkg[q]
    BY <1>10 DEF VerifyRepaired, Goto, Gen
  <2>2. StageAgrees(q) /\ PhaseAgrees(q) /\ Undisturbed(q)
    OBVIOUS
  <2> QED
    BY <1>10, <2>1, <2>2 DEF VerifyRepaired, Goto,
       StageAgrees, PhaseAgrees, Undisturbed, Running, Present
<1>11. CASE Rollback(q)
  <2>1. PICK g \in Gens : g = Gen(q) /\ g = Gen(q)' /\ g[1] = pkg[q]
    BY <1>11 DEF Rollback, Goto, Gen
  <2>2. StageAgrees(q) /\ PhaseAgrees(q) /\ Undisturbed(q)
    OBVIOUS
  <2> QED
    BY <1>11, <2>1, <2>2 DEF Rollback, Goto,
       StageAgrees, PhaseAgrees, Undisturbed, Running, Present
<1>12. CASE Reject(q)
  <2>1. PICK g \in Gens : g = Gen(q) /\ g = Gen(q)' /\ g[1] = pkg[q]
    BY <1>12 DEF Reject, Goto, Gen
  <2>2. StageAgrees(q) /\ PhaseAgrees(q) /\ Undisturbed(q)
    OBVIOUS
  <2> QED
    BY <1>12, <2>1, <2>2 DEF Reject, Goto,
       StageAgrees, PhaseAgrees, Undisturbed, Running, Present
<1>13. CASE AuthorizeStaged(q) \/ ActivateOpens(q)
  <2>1. PICK g \in Gens : g = Gen(q) /\ g = Gen(q)' /\ g[1] = pkg[q]
    BY <1>13 DEF AuthorizeStaged, ActivateOpens, Open, Goto, Gen
  <2>2. StageAgrees(q) /\ PhaseAgrees(q) /\ Undisturbed(q)
    OBVIOUS
  <2> QED
    BY <1>13, <2>1, <2>2 DEF AuthorizeStaged, ActivateOpens, Open, Goto,
       StageAgrees, PhaseAgrees, Undisturbed, Running, Present
<1>14. CASE Commit(q)
  <2>1. PICK g \in Gens : g = Gen(q) /\ g = Gen(q)' /\ g[1] = pkg[q]
    BY <1>14 DEF Commit, WriteRecord, Overtakes, Goto, Gen
  <2>2. StageAgrees(q) /\ PhaseAgrees(q) /\ Undisturbed(q)
    OBVIOUS
  <2> QED
    BY <1>14, <2>1, <2>2 DEF Commit, WriteRecord, Overtakes, Goto,
       StageAgrees, PhaseAgrees, Undisturbed, Running, Present
<1>15. ASSUME NEW ok \in BOOLEAN, SyncRecord(q, ok)
      PROVE  Undisturbed(q)'
  <2>1. PICK g \in Gens : g = Gen(q) /\ g = Gen(q)' /\ g[1] = pkg[q]
    BY <1>15 DEF SyncRecord, Goto, Gen
  <2>2. StageAgrees(q) /\ PhaseAgrees(q) /\ Undisturbed(q)
    OBVIOUS
  <2> QED
    BY <1>15, <2>1, <2>2 DEF SyncRecord, Goto,
       StageAgrees, PhaseAgrees, Undisturbed, Running, Present
<1>16. CASE OpenRecord(q)
  <2>1. /\ UNCHANGED <<tree, repair, phase, record, history, mode, pkg>>
        /\ \/ at[q] = "read" /\ at'[q] = "reading"
           \/ at[q] = "pointer" /\ at'[q] = "following"
        /\ file'[q] = IF record[Slot(q)] = Missing THEN "closed" ELSE "held"
    BY <1>16 DEF OpenRecord, Goto
  <2>2. SUFFICES ASSUME ~hurt[q], ~overtaken[q], phase[q] # "open"
                 PROVE  /\ record[mode[q]] = Gen(q) /\ tree[Gen(q)] = "good"
                        /\ at'[q] = "reading" /\ file'[q] = "held"
    BY <2>1 DEF Undisturbed, Running, Gen
  <2>3. record[mode[q]] = Gen(q) /\ tree[Gen(q)] = "good" /\ at[q] = "read"
    BY <2>1, <2>2 DEF Undisturbed, Running
  <2>4. Slot(q) = mode[q] /\ Gen(q) # Missing
    BY <2>3, GensFacts DEF Slot
  <2> QED
    BY <2>1, <2>3, <2>4
<1>17. ASSUME NEW ok \in BOOLEAN, ReadRecord(q, ok)
      PROVE  Undisturbed(q)'
  <2>1. /\ UNCHANGED <<tree, repair, phase, record, overtaken, mode, pkg>>
        /\ at[q] \in {"reading", "following"}
        /\ at'[q] \in {"test", "pointer", "decide"} /\ (~hurt'[q] => ~hurt[q] /\ ok)
    BY <1>17 DEF ReadRecord, Goto
  <2>2. SUFFICES ASSUME ~hurt'[q], ~overtaken[q], phase[q] # "open"
                 PROVE  /\ record[mode[q]] = Gen(q) /\ tree[Gen(q)] = "good"
                        /\ at'[q] = "decide" /\ found'[q] = Gen(q)
    BY <2>1 DEF Undisturbed, Running, Gen
  <2>3. /\ record[mode[q]] = Gen(q) /\ tree[Gen(q)] = "good"
        /\ at[q] = "reading" /\ file[q] = "held"
    BY <2>1, <2>2 DEF Undisturbed, Running
  <2> QED
    BY <1>17, <2>1, <2>2, <2>3, ReadFacts
<1>18. CASE AdoptTest(q)
  <2>1. PICK g \in Gens : g = Gen(q) /\ g = Gen(q)' /\ g[1] = pkg[q]
    BY <1>18 DEF AdoptTest, Goto, Gen
  <2>2. StageAgrees(q) /\ PhaseAgrees(q) /\ Undisturbed(q)
    OBVIOUS
  <2> QED
    BY <1>18, <2>1, <2>2 DEF AdoptTest, Goto,
       StageAgrees, PhaseAgrees, Undisturbed, Running, Present
<1>19. ASSUME NEW ok \in BOOLEAN, AdoptWrite(q, ok)
      PROVE  Undisturbed(q)'
  <2>1. SUFFICES ASSUME ~hurt[q], ~overtaken'[q], phase[q] # "open" PROVE FALSE
    BY <1>19, AdoptFacts DEF Undisturbed
  <2>2. ~overtaken[q] /\ at[q] = "adopt"
    BY <1>19, <2>1, AdoptFacts
  <2> QED
    BY <2>1, <2>2 DEF Undisturbed, Running
<1>20. CASE Decide(q)
  <2>1. PICK g \in Gens : g = Gen(q) /\ g = Gen(q)' /\ g[1] = pkg[q]
    BY <1>20 DEF Decide, Goto, Gen
  <2>2. StageAgrees(q) /\ PhaseAgrees(q) /\ Undisturbed(q)
    OBVIOUS
  <2> QED
    BY <1>20, <2>1, <2>2 DEF Decide, Goto,
       StageAgrees, PhaseAgrees, Undisturbed, Running, Present
<1>21. CASE Select(q)
  BY <1>21 DEF Select, Candidates, Goto, PhaseAgrees, Undisturbed, Running
<1>22. CASE Fails(q)
  BY <1>22 DEF Fails, Goto, PhaseAgrees, Undisturbed, Running
<1>23. ASSUME NEW dirs \in SUBSET bare, NEW gone \in SUBSET adrift,
            NEW torn \in SUBSET loose, NEW away \in SUBSET afloat,
            NEW old \in {"none", "bad"}, PowerLoss(dirs, gone, torn, away, old)
      PROVE  Undisturbed(q)'
  <2>1. at'[q] \in {"new"} \cup Ends
    BY <1>23 DEF PowerLoss, Running
  <2> QED
    BY <2>1 DEF Undisturbed, Running
<1> HIDE GenFacts DEF StoreInv, StoreTypeOK, FilesTyped, JobsTyped, WorkTyped,
        HistoryTyped, Trees, ProcInv, Ends, store, names, fates, jobs, open,
        work, history
<1> QED BY OthersAside, <1>1, <1>2, <1>3, <1>4, <1>5, <1>6, <1>7, <1>8, <1>9,
     <1>10, <1>11, <1>12, <1>13, <1>14, <1>15, <1>16, <1>17, <1>18, <1>19,
     <1>20, <1>21, <1>22, <1>23
        DEF Process, PowerLost

(* A process that fails was disturbed.                                     *)
LEMMA FailuresKept ==
  ASSUME StoreInv, [Next]_vars
  PROVE  NoSpuriousFailure'
<1> USE GenFacts, GensFacts DEF StoreInv, StoreTypeOK, JobsTyped, WorkTyped,
        HistoryTyped, NoSpuriousFailure, ProcInv, StageAgrees, PhaseAgrees,
        Undisturbed, Running, Ends, store, names, fates, jobs, open, work,
        history
<1>1. ASSUME NEW p \in Procs, NEW job \in {"install", "launch"}, NEW m \in Modes,
            NEW k \in Packages, Begin(p, job, m, k)
      PROVE  NoSpuriousFailure'
  BY <1>1 DEF Begin, Goto, Authorized
<1>2. ASSUME NEW p \in Procs, NEW ok \in BOOLEAN, Look(p, ok)
      PROVE  NoSpuriousFailure'
  BY <1>2 DEF Look, TakeTree, Goto
<1>3. ASSUME NEW p \in Procs, Retain(p)
      PROVE  NoSpuriousFailure'
  BY <1>3 DEF Retain, TakeBlob, AfterRetain, Goto
<1>4. ASSUME NEW p \in Procs, NEW ok \in BOOLEAN, PublishBlob(p, ok)
      PROVE  NoSpuriousFailure'
  BY <1>4 DEF PublishBlob, TakeBlob, AfterRetain, Goto
<1>5. ASSUME NEW p \in Procs, SyncBlobs(p)
      PROVE  NoSpuriousFailure'
  BY <1>5 DEF SyncBlobs, AfterRetain, Goto
<1>6. ASSUME NEW p \in Procs, Publish(p)
      PROVE  NoSpuriousFailure'
  <2>1. /\ UNCHANGED <<hurt, overtaken>> /\ at[p] = "publish" /\ ~repair[p]
        /\ \A q \in Procs : at'[q] = "failed" /\ q # p => at[q] = "failed"
        /\ at'[p] = "failed" => tree[Gen(p)] = "bad"
    BY <1>6 DEF Publish, Goto, FilesTyped, Trees
  <2>2. at'[p] = "failed" => hurt[p]
    BY <2>1
  <2> QED
    BY <2>1, <2>2
<1>7. ASSUME NEW p \in Procs, SyncTrees(p)
      PROVE  NoSpuriousFailure'
  BY <1>7 DEF SyncTrees, Goto
<1>8. ASSUME NEW p \in Procs, Exchange(p)
      PROVE  NoSpuriousFailure'
  BY <1>8 DEF Exchange, Goto
<1>9. ASSUME NEW p \in Procs, NEW ok \in BOOLEAN, VerifyRepaired(p, ok)
      PROVE  NoSpuriousFailure'
  BY <1>9 DEF VerifyRepaired, Goto
<1>10. ASSUME NEW p \in Procs, Rollback(p)
      PROVE  NoSpuriousFailure'
  BY <1>10 DEF Rollback, Goto
<1>11. ASSUME NEW p \in Procs, Reject(p)
      PROVE  NoSpuriousFailure'
  BY <1>11 DEF Reject, Goto
<1>12. ASSUME NEW p \in Procs, AuthorizeStaged(p) \/ ActivateOpens(p)
      PROVE  NoSpuriousFailure'
  BY <1>12 DEF AuthorizeStaged, ActivateOpens, Open, Goto
<1>13. ASSUME NEW p \in Procs, Commit(p)
      PROVE  NoSpuriousFailure'
  BY <1>13 DEF Commit, WriteRecord, Overtakes, Goto
<1>14. ASSUME NEW p \in Procs, NEW ok \in BOOLEAN, SyncRecord(p, ok)
      PROVE  NoSpuriousFailure'
  BY <1>14 DEF SyncRecord, Goto
<1>15. ASSUME NEW p \in Procs, OpenRecord(p)
      PROVE  NoSpuriousFailure'
  BY <1>15 DEF OpenRecord, Goto
<1>16. ASSUME NEW p \in Procs, NEW ok \in BOOLEAN, ReadRecord(p, ok)
      PROVE  NoSpuriousFailure'
  BY <1>16 DEF ReadRecord, ReadsFrom, Adopts, Authorized, Opens, Goto
<1>17. ASSUME NEW p \in Procs, AdoptTest(p)
      PROVE  NoSpuriousFailure'
  BY <1>17 DEF AdoptTest, Goto
<1>18. ASSUME NEW p \in Procs, NEW ok \in BOOLEAN, AdoptWrite(p, ok)
      PROVE  NoSpuriousFailure'
  <2>1. ASSUME NEW q \in Procs, at'[q] = "failed" PROVE hurt'[q] \/ overtaken'[q]
    <3>1. q # p /\ at[q] = "failed"
      BY <1>18, <2>1, AdoptFacts
    <3> QED
      BY <1>18, <2>1, <3>1, AdoptFacts
  <2> QED
    BY <2>1
<1>19. ASSUME NEW p \in Procs, Decide(p)
      PROVE  NoSpuriousFailure'
  BY <1>19 DEF Decide, Goto
<1>20. ASSUME NEW p \in Procs, Select(p)
      PROVE  NoSpuriousFailure'
  BY <1>20 DEF Select, Candidates, Goto
<1>21. ASSUME NEW p \in Procs, Fails(p)
      PROVE  NoSpuriousFailure'
  BY <1>21 DEF Fails, Goto
<1>22. CASE DamageSomething
  BY <1>22 DEF DamageSomething, HurtAll
<1>23. ASSUME NEW dirs \in SUBSET bare, NEW gone \in SUBSET adrift,
            NEW torn \in SUBSET loose, NEW away \in SUBSET afloat,
            NEW old \in {"none", "bad"}, PowerLoss(dirs, gone, torn, away, old)
      PROVE  NoSpuriousFailure'
  BY <1>23 DEF PowerLoss, HurtAll
<1>24. CASE UNCHANGED vars
  BY <1>24 DEF vars
<1> HIDE GenFacts, GensFacts DEF StoreInv, StoreTypeOK, JobsTyped, WorkTyped,
        HistoryTyped, NoSpuriousFailure, ProcInv, StageAgrees, PhaseAgrees,
        Undisturbed, Running, Ends, store, names, fates, jobs, open, work,
        history
<1> QED BY <1>1, <1>2, <1>3, <1>4, <1>5, <1>6, <1>7, <1>8, <1>9, <1>10, <1>11,
     <1>12, <1>13, <1>14, <1>15, <1>16, <1>17, <1>18, <1>19, <1>20, <1>21,
     <1>22, <1>23, <1>24
        DEF Next, Environment, Process

(* A launch goes on to serve the generation it found as the others step    *)
LEMMA ServeAside ==
  ASSUME StoreInv, [Next]_vars, NEW q \in Procs, Aside(q)
  PROVE  ServeAgrees(q)'
<1> USE DEF Aside
<1>1. ServeAgrees(q)
  BY DEF StoreInv, ProcInv
<1>2. CASE ~hurt'[q] /\ ~overtaken'[q] /\ Running(q) /\ named[q] # Missing
  <2>1. PICK g \in Gens : g = named[q]
    BY <1>2 DEF StoreInv, StoreTypeOK, JobsTyped
  <2>2. ~hurt[q] /\ ~overtaken[q] /\ file'[q] = file[q]
    BY <1>2
  <2>3. record'[mode[q]] = named[q]
    BY <1>1, <1>2, <2>2, NamedStays DEF ServeAgrees
  <2>4. tree[g] = "good" => tree'[g] = "good"
    BY <1>2, GoodStays
  <2> QED
    BY <1>1, <1>2, <2>1, <2>2, <2>3, <2>4 DEF ServeAgrees, Running
<1>3. CASE ~(~hurt'[q] /\ ~overtaken'[q] /\ Running(q) /\ named[q] # Missing)
  BY <1>1, <1>3 DEF ServeAgrees, Running
<1> QED
  BY <1>2, <1>3

(* What a process was to serve is not at stake while it is at none of the   *)
(* steps of a launch that read it.                                         *)
LEMMA ServeElsewhere ==
  ASSUME NEW q \in Procs, ServeAgrees(q), UNCHANGED <<mode[q], named[q], found[q]>>,
         at[q] \notin {"new", "read", "reading", "decide"} \cup Ends, at'[q] # "new",
         hurt[q] => hurt'[q], overtaken[q] => overtaken'[q]
  PROVE  ServeAgrees(q)'
<1>1. hurt[q] \/ overtaken[q] \/ named[q] = Missing
  BY DEF ServeAgrees, Running
<1> QED
  BY <1>1 DEF ServeAgrees

(* and as it steps itself.                                                 *)
LEMMA ServeKept ==
  ASSUME StoreInv, [Next]_vars, NEW q \in Procs
  PROVE  ServeAgrees(q)'
<1> USE GenFacts, GensFacts DEF StoreInv, StoreTypeOK, FilesTyped, JobsTyped,
        WorkTyped, HistoryTyped, ProcInv, Ends, store, names, fates, jobs,
        open, work, history
<1>1. CASE Aside(q)
  BY <1>1, ServeAside
<1>2. ASSUME NEW job \in {"install", "launch"}, NEW m \in Modes,
            NEW k \in Packages, Begin(q, job, m, k)
      PROVE  ServeAgrees(q)'
  <2>1. /\ UNCHANGED <<phase, found, tree, record, hurt, overtaken>> /\ at[q] = "new"
        /\ at'[q] \in {"stage", "read"} /\ mode'[q] = m
        /\ named'[q] # Missing =>
               /\ at'[q] = "read" /\ named'[q] = record[m]
               /\ tree[record[m]] = "good" /\ record[m][2] = m
    <3>1. CASE job = "install"
      BY <1>2, <3>1 DEF Begin, Goto, ServeAgrees
    <3>2. CASE job # "install"
      BY <1>2, <3>2 DEF Begin, Goto, Authorized, Opens
    <3> QED
      BY <3>1, <3>2
  <2>2. phase[q] = "open" /\ found[q] = Missing
    BY <2>1 DEF PhaseAgrees, ServeAgrees
  <2> QED
    BY <2>1, <2>2 DEF ServeAgrees
<1>3. ASSUME NEW ok \in BOOLEAN, Look(q, ok)
      PROVE  ServeAgrees(q)'
  <2>1. /\ UNCHANGED <<mode[q], named[q], found[q]>>
        /\ at[q] \notin {"new", "read", "reading", "decide"} \cup Ends /\ at'[q] # "new"
        /\ hurt[q] => hurt'[q]
        /\ overtaken[q] => overtaken'[q]
    BY <1>3 DEF Look, TakeTree, Goto
  <2> QED
    BY <2>1, ServeElsewhere
<1>4. CASE Retain(q)
  <2>1. /\ UNCHANGED <<mode[q], named[q], found[q]>>
        /\ at[q] \notin {"new", "read", "reading", "decide"} \cup Ends /\ at'[q] # "new"
        /\ hurt[q] => hurt'[q]
        /\ overtaken[q] => overtaken'[q]
    BY <1>4 DEF Retain, TakeBlob, AfterRetain, Goto
  <2> QED
    BY <2>1, ServeElsewhere
<1>5. ASSUME NEW ok \in BOOLEAN, PublishBlob(q, ok)
      PROVE  ServeAgrees(q)'
  <2>1. /\ UNCHANGED <<mode[q], named[q], found[q]>>
        /\ at[q] \notin {"new", "read", "reading", "decide"} \cup Ends /\ at'[q] # "new"
        /\ hurt[q] => hurt'[q]
        /\ overtaken[q] => overtaken'[q]
    BY <1>5 DEF PublishBlob, TakeBlob, AfterRetain, Goto
  <2> QED
    BY <2>1, ServeElsewhere
<1>6. CASE SyncBlobs(q)
  <2>1. /\ UNCHANGED <<mode[q], named[q], found[q]>>
        /\ at[q] \notin {"new", "read", "reading", "decide"} \cup Ends /\ at'[q] # "new"
        /\ hurt[q] => hurt'[q]
        /\ overtaken[q] => overtaken'[q]
    BY <1>6 DEF SyncBlobs, AfterRetain, Goto
  <2> QED
    BY <2>1, ServeElsewhere
<1>7. CASE Publish(q)
  <2>1. /\ UNCHANGED <<mode[q], named[q], found[q]>>
        /\ at[q] \notin {"new", "read", "reading", "decide"} \cup Ends /\ at'[q] # "new"
        /\ hurt[q] => hurt'[q]
        /\ overtaken[q] => overtaken'[q]
    BY <1>7 DEF Publish, TakeTree, Goto
  <2> QED
    BY <2>1, ServeElsewhere
<1>8. CASE SyncTrees(q)
  <2>1. PhaseAgrees(q) /\ ServeAgrees(q)
    OBVIOUS
  <2>2. /\ UNCHANGED <<tree, phase, record, history, mode, named, found>>
        /\ at[q] \in {"treesync", "reject"} /\ at'[q] \in {"staged", "treesync"}
    BY <1>8 DEF SyncTrees, Goto
  <2> QED
    BY <2>1, <2>2 DEF PhaseAgrees, ServeAgrees, Running
<1>9. CASE Exchange(q)
  <2>1. /\ UNCHANGED <<mode[q], named[q], found[q]>>
        /\ at[q] \notin {"new", "read", "reading", "decide"} \cup Ends /\ at'[q] # "new"
        /\ hurt[q] => hurt'[q]
        /\ overtaken[q] => overtaken'[q]
    BY <1>9 DEF Exchange, Goto
  <2> QED
    BY <2>1, ServeElsewhere
<1>10. ASSUME NEW ok \in BOOLEAN, VerifyRepaired(q, ok)
      PROVE  ServeAgrees(q)'
  <2>1. /\ UNCHANGED <<mode[q], named[q], found[q]>>
        /\ at[q] \notin {"new", "read", "reading", "decide"} \cup Ends /\ at'[q] # "new"
        /\ hurt[q] => hurt'[q]
        /\ overtaken[q] => overtaken'[q]
    BY <1>10 DEF VerifyRepaired, Goto
  <2> QED
    BY <2>1, ServeElsewhere
<1>11. CASE Rollback(q)
  <2>1. /\ UNCHANGED <<mode[q], named[q], found[q]>>
        /\ at[q] \notin {"new", "read", "reading", "decide"} \cup Ends /\ at'[q] # "new"
        /\ hurt[q] => hurt'[q]
        /\ overtaken[q] => overtaken'[q]
    BY <1>11 DEF Rollback, Goto
  <2> QED
    BY <2>1, ServeElsewhere
<1>12. CASE Reject(q)
  <2>1. PhaseAgrees(q) /\ ServeAgrees(q)
    OBVIOUS
  <2>2. /\ UNCHANGED <<tree, phase, record, history, mode, named, found>>
        /\ at[q] \in {"treesync", "reject"} /\ at'[q] \in {"staged", "treesync"}
    BY <1>12 DEF Reject, Goto
  <2> QED
    BY <2>1, <2>2 DEF PhaseAgrees, ServeAgrees, Running
<1>13. CASE AuthorizeStaged(q) \/ ActivateOpens(q)
  BY <1>13 DEF AuthorizeStaged, ActivateOpens, Open, Goto, PhaseAgrees, ServeAgrees, Running
<1>14. CASE Commit(q)
  <2>1. /\ UNCHANGED <<mode[q], named[q], found[q]>>
        /\ at[q] \notin {"new", "read", "reading", "decide"} \cup Ends /\ at'[q] # "new"
        /\ hurt[q] => hurt'[q]
        /\ overtaken[q] => overtaken'[q]
    BY <1>14, OvertakenStays DEF Commit, WriteRecord, Goto
  <2> QED
    BY <2>1, ServeElsewhere
<1>15. ASSUME NEW ok \in BOOLEAN, SyncRecord(q, ok)
      PROVE  ServeAgrees(q)'
  BY <1>15 DEF SyncRecord, Goto, PhaseAgrees, ServeAgrees, Running
<1>16. CASE OpenRecord(q)
  <2>1. /\ UNCHANGED <<tree, phase, record, history, mode, named, found>>
        /\ \/ at[q] = "read" /\ at'[q] = "reading"
           \/ at[q] = "pointer" /\ at'[q] = "following"
        /\ file'[q] = IF record[Slot(q)] = Missing THEN "closed" ELSE "held"
    BY <1>16 DEF OpenRecord, Goto
  <2>2. SUFFICES ASSUME ~hurt[q], ~overtaken[q], named[q] # Missing
                 PROVE  /\ phase[q] = "open" /\ at'[q] = "reading"
                        /\ named[q][2] = mode[q] /\ record[mode[q]] = named[q]
                        /\ tree[named[q]] = "good" /\ file'[q] = "held"
    BY <2>1 DEF ServeAgrees
  <2>3. /\ phase[q] = "open" /\ named[q][2] = mode[q] /\ record[mode[q]] = named[q]
        /\ tree[named[q]] = "good" /\ at[q] = "read"
    BY <2>1, <2>2 DEF ServeAgrees, Running
  <2>4. Slot(q) = mode[q]
    BY <2>3 DEF Slot
  <2> QED
    BY <2>1, <2>2, <2>3, <2>4
<1>17. ASSUME NEW ok \in BOOLEAN, ReadRecord(q, ok)
      PROVE  ServeAgrees(q)'
  <2>1. /\ UNCHANGED <<tree, phase, record, overtaken, mode, named>>
        /\ at[q] \in {"reading", "following"}
        /\ at'[q] \in {"test", "pointer", "decide"} /\ (~hurt'[q] => ~hurt[q] /\ ok)
        /\ found'[q] # Missing => found'[q][2] = mode[q]
    BY <1>17 DEF ReadRecord, Goto, Authorized
  <2>2. SUFFICES ASSUME ~hurt'[q], ~overtaken[q], named[q] # Missing
                 PROVE  /\ phase[q] = "open" /\ at'[q] = "decide"
                        /\ named[q][2] = mode[q] /\ record[mode[q]] = named[q]
                        /\ tree[named[q]] = "good" /\ found'[q] = named[q]
    BY <2>1 DEF ServeAgrees
  <2>3. /\ phase[q] = "open" /\ named[q][2] = mode[q] /\ record[mode[q]] = named[q]
        /\ tree[named[q]] = "good" /\ at[q] = "reading" /\ file[q] = "held"
    BY <2>1, <2>2 DEF ServeAgrees, Running
  <2> QED
    BY <1>17, <2>1, <2>2, <2>3, ReadFacts
<1>18. CASE AdoptTest(q)
  <2>1. /\ UNCHANGED <<mode[q], named[q], found[q]>>
        /\ at[q] \notin {"new", "read", "reading", "decide"} \cup Ends /\ at'[q] # "new"
        /\ hurt[q] => hurt'[q]
        /\ overtaken[q] => overtaken'[q]
    BY <1>18 DEF AdoptTest, Goto
  <2> QED
    BY <2>1, ServeElsewhere
<1>19. ASSUME NEW ok \in BOOLEAN, AdoptWrite(q, ok)
      PROVE  ServeAgrees(q)'
  <2>1. SUFFICES ASSUME ~hurt[q], ~overtaken'[q], named[q] # Missing PROVE FALSE
    BY <1>19, AdoptFacts DEF ServeAgrees
  <2>2. ~overtaken[q] /\ at[q] = "adopt"
    BY <1>19, <2>1, AdoptFacts
  <2> QED
    BY <2>1, <2>2 DEF ServeAgrees, Running
<1>20. CASE Decide(q)
  BY <1>20 DEF Decide, Goto, PhaseAgrees, ServeAgrees, Running
<1>21. CASE Select(q)
  <2>1. /\ UNCHANGED <<mode[q], named[q], found[q]>>
        /\ at[q] \notin {"new", "read", "reading", "decide"} \cup Ends /\ at'[q] # "new"
        /\ hurt[q] => hurt'[q]
        /\ overtaken[q] => overtaken'[q]
    BY <1>21 DEF Select, Goto
  <2> QED
    BY <2>1, ServeElsewhere
<1>22. CASE Fails(q)
  BY <1>22 DEF Fails, Goto, PhaseAgrees, ServeAgrees, Running
<1>23. ASSUME NEW dirs \in SUBSET bare, NEW gone \in SUBSET adrift,
            NEW torn \in SUBSET loose, NEW away \in SUBSET afloat,
            NEW old \in {"none", "bad"}, PowerLoss(dirs, gone, torn, away, old)
      PROVE  ServeAgrees(q)'
  <2>1. at'[q] \in Ends \/ (at'[q] = at[q] /\ at[q] = "new")
    BY <1>23 DEF PowerLoss, Running
  <2>2. UNCHANGED <<found, mode, named>>
    BY <1>23 DEF PowerLoss
  <2> QED
    BY <2>1, <2>2 DEF ServeAgrees, Running
<1> HIDE GenFacts, GensFacts DEF StoreInv, StoreTypeOK, FilesTyped, JobsTyped,
        WorkTyped, HistoryTyped, ProcInv, Ends, store, names, fates, jobs,
        open, work, history
<1> QED BY OthersAside, <1>1, <1>2, <1>3, <1>4, <1>5, <1>6, <1>7, <1>8, <1>9,
     <1>10, <1>11, <1>12, <1>13, <1>14, <1>15, <1>16, <1>17, <1>18, <1>19,
     <1>20, <1>21, <1>22, <1>23
        DEF Process, PowerLost

(* What a launch serves was active, unless it was disturbed.               *)
LEMMA ServedKept ==
  ASSUME StoreInv, [Next]_vars
  PROVE  ServesActive'
<1> USE GenFacts DEF StoreInv, StoreTypeOK, JobsTyped, WorkTyped, HistoryTyped,
        ServesActive, ProcInv, PhaseAgrees, Undisturbed, ServeAgrees, Running,
        Ends, store, names, fates, jobs, open, work, history
<1>1. ASSUME NEW p \in Procs, NEW job \in {"install", "launch"}, NEW m \in Modes,
            NEW k \in Packages, Begin(p, job, m, k)
      PROVE  ServesActive'
  BY <1>1 DEF Begin, Goto, Authorized
<1>2. ASSUME NEW p \in Procs, NEW ok \in BOOLEAN, Look(p, ok)
      PROVE  ServesActive'
  BY <1>2 DEF Look, TakeTree, Goto
<1>3. ASSUME NEW p \in Procs, Retain(p)
      PROVE  ServesActive'
  BY <1>3 DEF Retain, TakeBlob, AfterRetain, Goto
<1>4. ASSUME NEW p \in Procs, NEW ok \in BOOLEAN, PublishBlob(p, ok)
      PROVE  ServesActive'
  BY <1>4 DEF PublishBlob, TakeBlob, AfterRetain, Goto
<1>5. ASSUME NEW p \in Procs, SyncBlobs(p)
      PROVE  ServesActive'
  BY <1>5 DEF SyncBlobs, AfterRetain, Goto
<1>6. ASSUME NEW p \in Procs, Publish(p)
      PROVE  ServesActive'
  BY <1>6 DEF Publish, TakeTree, Goto
<1>7. ASSUME NEW p \in Procs, SyncTrees(p)
      PROVE  ServesActive'
  BY <1>7 DEF SyncTrees, Goto
<1>8. ASSUME NEW p \in Procs, Exchange(p)
      PROVE  ServesActive'
  BY <1>8 DEF Exchange, Goto
<1>9. ASSUME NEW p \in Procs, NEW ok \in BOOLEAN, VerifyRepaired(p, ok)
      PROVE  ServesActive'
  BY <1>9 DEF VerifyRepaired, Goto
<1>10. ASSUME NEW p \in Procs, Rollback(p)
      PROVE  ServesActive'
  BY <1>10 DEF Rollback, Goto
<1>11. ASSUME NEW p \in Procs, Reject(p)
      PROVE  ServesActive'
  BY <1>11 DEF Reject, Goto
<1>12. ASSUME NEW p \in Procs, AuthorizeStaged(p) \/ ActivateOpens(p)
      PROVE  ServesActive'
  BY <1>12 DEF AuthorizeStaged, ActivateOpens, Open, Goto
<1>13. ASSUME NEW p \in Procs, Commit(p)
      PROVE  ServesActive'
  BY <1>13 DEF Commit, WriteRecord, Overtakes, Goto
<1>14. ASSUME NEW p \in Procs, NEW ok \in BOOLEAN, SyncRecord(p, ok)
      PROVE  ServesActive'
  BY <1>14 DEF SyncRecord, Goto
<1>15. ASSUME NEW p \in Procs, OpenRecord(p)
      PROVE  ServesActive'
  BY <1>15 DEF OpenRecord, Goto
<1>16. ASSUME NEW p \in Procs, NEW ok \in BOOLEAN, ReadRecord(p, ok)
      PROVE  ServesActive'
  BY <1>16 DEF ReadRecord, ReadsFrom, Adopts, Authorized, Opens, Goto
<1>17. ASSUME NEW p \in Procs, AdoptTest(p)
      PROVE  ServesActive'
  BY <1>17 DEF AdoptTest, Goto
<1>18. ASSUME NEW p \in Procs, NEW ok \in BOOLEAN, AdoptWrite(p, ok)
      PROVE  ServesActive'
  <2>1. ASSUME NEW q \in Procs, at'[q] = "launched"
        PROVE  at[q] = "launched" /\ UNCHANGED <<found[q], mode[q], named[q], hurt[q]>>
               /\ (overtaken[q] => overtaken'[q])
    BY <1>18, <2>1, AdoptFacts
  <2> QED
    BY <2>1
<1>19. ASSUME NEW p \in Procs, Decide(p)
      PROVE  ServesActive'
  BY <1>19 DEF Decide, Goto
<1>20. ASSUME NEW p \in Procs, Select(p)
      PROVE  ServesActive'
  BY <1>20 DEF Select, Candidates, Goto
<1>21. ASSUME NEW p \in Procs, Fails(p)
      PROVE  ServesActive'
  BY <1>21 DEF Fails, Goto
<1>22. CASE DamageSomething
  BY <1>22 DEF DamageSomething, HurtAll
<1>23. ASSUME NEW dirs \in SUBSET bare, NEW gone \in SUBSET adrift,
            NEW torn \in SUBSET loose, NEW away \in SUBSET afloat,
            NEW old \in {"none", "bad"}, PowerLoss(dirs, gone, torn, away, old)
      PROVE  ServesActive'
  BY <1>23 DEF PowerLoss, HurtAll
<1>24. CASE UNCHANGED vars
  BY <1>24 DEF vars
<1> HIDE GenFacts DEF StoreInv, StoreTypeOK, JobsTyped, WorkTyped,
        HistoryTyped, ServesActive, ProcInv, PhaseAgrees, Undisturbed,
        ServeAgrees, Running, Ends, store, names, fates, jobs, open, work,
        history
<1> QED BY <1>1, <1>2, <1>3, <1>4, <1>5, <1>6, <1>7, <1>8, <1>9, <1>10, <1>11,
     <1>12, <1>13, <1>14, <1>15, <1>16, <1>17, <1>18, <1>19, <1>20, <1>21,
     <1>22, <1>23, <1>24
        DEF Next, Environment, Process

(* A generation that verifies goes by damage or a rollback only.           *)
LEMMA GoodTreesKept ==
  ASSUME StoreInv, [Next]_vars, NEW g \in Gens, tree[g] = "good"
  PROVE  tree'[g] = "good" \/ damage' # damage \/ RolledBack(g)
<1> USE GenFacts DEF StoreInv, StoreTypeOK, FilesTyped, WorkTyped, ProcInv,
        StageAgrees, Undisturbed, RolledBack, store, names, fates, jobs, open,
        work, history
<1>1. ASSUME NEW p \in Procs, NEW job \in {"install", "launch"}, NEW m \in Modes,
            NEW k \in Packages, Begin(p, job, m, k)
      PROVE  tree'[g] = "good" \/ damage' # damage \/ RolledBack(g)
  BY <1>1 DEF Begin, Goto, Authorized
<1>2. ASSUME NEW p \in Procs, NEW ok \in BOOLEAN, Look(p, ok)
      PROVE  tree'[g] = "good" \/ damage' # damage \/ RolledBack(g)
  BY <1>2 DEF Look, TakeTree, Goto
<1>3. ASSUME NEW p \in Procs, Retain(p)
      PROVE  tree'[g] = "good" \/ damage' # damage \/ RolledBack(g)
  BY <1>3 DEF Retain, TakeBlob, AfterRetain, Goto
<1>4. ASSUME NEW p \in Procs, NEW ok \in BOOLEAN, PublishBlob(p, ok)
      PROVE  tree'[g] = "good" \/ damage' # damage \/ RolledBack(g)
  BY <1>4 DEF PublishBlob, TakeBlob, AfterRetain, Goto
<1>5. ASSUME NEW p \in Procs, SyncBlobs(p)
      PROVE  tree'[g] = "good" \/ damage' # damage \/ RolledBack(g)
  BY <1>5 DEF SyncBlobs, AfterRetain, Goto
<1>6. ASSUME NEW p \in Procs, Publish(p)
      PROVE  tree'[g] = "good" \/ damage' # damage \/ RolledBack(g)
  BY <1>6 DEF Publish, TakeTree, Goto
<1>7. ASSUME NEW p \in Procs, SyncTrees(p)
      PROVE  tree'[g] = "good" \/ damage' # damage \/ RolledBack(g)
  BY <1>7 DEF SyncTrees, Goto
<1>8. ASSUME NEW p \in Procs, Exchange(p)
      PROVE  tree'[g] = "good" \/ damage' # damage \/ RolledBack(g)
  BY <1>8 DEF Exchange, Goto
<1>9. ASSUME NEW p \in Procs, NEW ok \in BOOLEAN, VerifyRepaired(p, ok)
      PROVE  tree'[g] = "good" \/ damage' # damage \/ RolledBack(g)
  BY <1>9 DEF VerifyRepaired, Goto
<1>10. ASSUME NEW p \in Procs, Rollback(p)
      PROVE  tree'[g] = "good" \/ damage' # damage \/ RolledBack(g)
  BY <1>10 DEF Rollback, Goto
<1>11. ASSUME NEW p \in Procs, Reject(p)
      PROVE  tree'[g] = "good" \/ damage' # damage \/ RolledBack(g)
  BY <1>11 DEF Reject, Goto
<1>12. ASSUME NEW p \in Procs, AuthorizeStaged(p) \/ ActivateOpens(p)
      PROVE  tree'[g] = "good" \/ damage' # damage \/ RolledBack(g)
  BY <1>12 DEF AuthorizeStaged, ActivateOpens, Open, Goto
<1>13. ASSUME NEW p \in Procs, Commit(p)
      PROVE  tree'[g] = "good" \/ damage' # damage \/ RolledBack(g)
  BY <1>13 DEF Commit, WriteRecord, Overtakes, Goto
<1>14. ASSUME NEW p \in Procs, NEW ok \in BOOLEAN, SyncRecord(p, ok)
      PROVE  tree'[g] = "good" \/ damage' # damage \/ RolledBack(g)
  BY <1>14 DEF SyncRecord, Goto
<1>15. ASSUME NEW p \in Procs, OpenRecord(p)
      PROVE  tree'[g] = "good" \/ damage' # damage \/ RolledBack(g)
  BY <1>15 DEF OpenRecord, Goto
<1>16. ASSUME NEW p \in Procs, NEW ok \in BOOLEAN, ReadRecord(p, ok)
      PROVE  tree'[g] = "good" \/ damage' # damage \/ RolledBack(g)
  BY <1>16 DEF ReadRecord, ReadsFrom, Adopts, Authorized, Opens, Goto
<1>17. ASSUME NEW p \in Procs, AdoptTest(p)
      PROVE  tree'[g] = "good" \/ damage' # damage \/ RolledBack(g)
  BY <1>17 DEF AdoptTest, Goto
<1>18. ASSUME NEW p \in Procs, NEW ok \in BOOLEAN, AdoptWrite(p, ok)
      PROVE  tree'[g] = "good" \/ damage' # damage \/ RolledBack(g)
  BY <1>18 DEF AdoptWrite, WriteRecord, Overtakes, Goto
<1>19. ASSUME NEW p \in Procs, Decide(p)
      PROVE  tree'[g] = "good" \/ damage' # damage \/ RolledBack(g)
  BY <1>19 DEF Decide, Goto
<1>20. ASSUME NEW p \in Procs, Select(p)
      PROVE  tree'[g] = "good" \/ damage' # damage \/ RolledBack(g)
  BY <1>20 DEF Select, Candidates, Goto
<1>21. ASSUME NEW p \in Procs, Fails(p)
      PROVE  tree'[g] = "good" \/ damage' # damage \/ RolledBack(g)
  BY <1>21 DEF Fails, Goto
<1>22. CASE DamageSomething
  BY <1>22 DEF DamageSomething, HurtAll
<1>23. ASSUME NEW dirs \in SUBSET bare, NEW gone \in SUBSET adrift,
            NEW torn \in SUBSET loose, NEW away \in SUBSET afloat,
            NEW old \in {"none", "bad"}, PowerLoss(dirs, gone, torn, away, old)
      PROVE  tree'[g] = "good" \/ damage' # damage \/ RolledBack(g)
  BY <1>23 DEF PowerLoss, HurtAll
<1>24. CASE UNCHANGED vars
  BY <1>24 DEF vars
<1> HIDE GenFacts DEF StoreInv, StoreTypeOK, FilesTyped, WorkTyped, ProcInv,
        StageAgrees, Undisturbed, RolledBack, store, names, fates, jobs, open,
        work, history
<1> QED BY <1>1, <1>2, <1>3, <1>4, <1>5, <1>6, <1>7, <1>8, <1>9, <1>10, <1>11,
     <1>12, <1>13, <1>14, <1>15, <1>16, <1>17, <1>18, <1>19, <1>20, <1>21,
     <1>22, <1>23, <1>24
        DEF Next, Environment, Process

(* The store an older version may have left.                               *)
LEMMA InitHolds == Init => StoreInv
<1> SUFFICES ASSUME NEW old \in Gens \cup {Missing},
                    record = [m \in Modes |-> IF m = "official" THEN old ELSE Missing],
                    tree = [g \in Gens |-> IF g = old THEN "good" ELSE "none"],
                    latest = IF old = Missing THEN Missing ELSE old[1],
                    blob = [k \in Packages |-> IF k = latest THEN "good" ELSE "none"],
                    bare \subseteq {"generations", "apks"},
                    Init
             PROVE  StoreInv
  BY DEF Init
<1>1. (CHOOSE k \in Packages : TRUE) \in Packages
  BY StoreAssumption
<1>2. latest \in Packages \cup {Missing}
  BY DEF Gens
<1>3. StoreTypeOK
  <2>1. FilesTyped
    BY <1>2, StoreAssumption DEF Init, FilesTyped, Trees, Modes
  <2>2. JobsTyped /\ HistoryTyped
    BY <1>1 DEF Init, JobsTyped, HistoryTyped, Modes
  <2>3. WorkTyped /\ \A p \in Procs : legacy[p] = Missing
    BY DEF Init, WorkTyped, Trees, Steps, Ends
  <2> QED
    BY <2>1, <2>2, <2>3 DEF StoreTypeOK
<1>4. RecordsAgree
  <2>1. ASSUME NEW m \in Modes, NEW g \in disk[m], g \in Gens PROVE Safe(g)
    <3>1. g = old /\ g # Missing
      BY <2>1, StoreAssumption DEF Init, Modes
    <3> QED
      BY <2>1, <3>1 DEF Init, Safe, Present, TreeLasts, Retained, BlobLasts, Kept, Gens
  <2>2. \A m \in Modes : record[m] \in disk[m]
    BY DEF Init
  <2> QED
    BY <2>1, <2>2 DEF RecordsAgree, Covered
<1>5. NoSpuriousFailure /\ ServesActive /\ \A p \in Procs : ProcInv(p)
  BY DEF Init, NoSpuriousFailure, ServesActive, ProcInv, StageAgrees, LegacyAgrees,
         PhaseAgrees, Undisturbed, ServeAgrees, Running
<1> QED
  BY <1>3, <1>4, <1>5 DEF StoreInv

(* The inductive invariant holds.                                          *)
LEMMA StoreInvHolds == Spec => []StoreInv
<1>1. StoreInv /\ [Next]_vars => StoreInv'
  <2> SUFFICES ASSUME StoreInv, [Next]_vars PROVE StoreInv'
    OBVIOUS
  <2>1. StoreTypeOK'
    BY FilesKept, JobsKept, WorkKept, HistoryKept, LegacyTypeKept
       DEF StoreTypeOK, LegacyTyped
  <2>2. RecordsAgree' /\ NoSpuriousFailure' /\ ServesActive'
    BY RecordsKept, FailuresKept, ServedKept
  <2>3. ASSUME NEW q \in Procs PROVE ProcInv(q)'
    BY StageKept, LegacyKept, PhaseKept, UndisturbedKept, ServeKept DEF ProcInv
  <2> QED
    BY <2>1, <2>2, <2>3 DEF StoreInv
<1> QED
  BY <1>1, InitHolds, PTL DEF Spec

(* The store, its processes and their copies are typed.                    *)
THEOREM TypeCorrect == Spec => []StoreTypeOK
<1>1. StoreInv => StoreTypeOK
  BY DEF StoreInv
<1> QED
  BY <1>1, StoreInvHolds, PTL

(* Store.Stage retains the signed package before Activate writes a record, *)
(* and publishes a tree whole: through kills and failures at any step, and *)
(* through power losses but for the names that nobody had synced.          *)
THEOREM PackagesAreRetainedFirst == Spec => []RetainedFirst
<1>1. StoreInv => RetainedFirst
  BY DEF StoreInv, RecordsAgree, RetainedFirst, Covered, Safe, Present, Retained, Kept
<1> QED
  BY <1>1, StoreInvHolds, PTL

(* Concurrent installs, launches and repairs of a store without a lock     *)
(* make each other fail only by a record: by giving a slot to a different  *)
(* generation, or by renaming one over the file that another reads         *)
(* (readBoundedSafe).                                                      *)
THEOREM ProcessesDoNotInterfere == Spec => []NoSpuriousFailure
<1>1. StoreInv => NoSpuriousFailure
  BY DEF StoreInv
<1> QED
  BY <1>1, StoreInvHolds, PTL

(* A launch serves the generation that was active in its slot when it      *)
(* began, whatever other processes stage, repair or activate, unless its   *)
(* slot was given to another or its record replaced under it.              *)
THEOREM LaunchesServeTheActive == Spec => []ServesActive
<1>1. StoreInv => ServesActive
  BY DEF StoreInv
<1> QED
  BY <1>1, StoreInvHolds, PTL

(* Store.Stage's exchange never puts a worse tree in the place of one that *)
(* verifies; only the rollback of a disturbed repair can.                  *)
THEOREM GoodTreesStay == Spec => NoGoodTreeLost
<1>1. ASSUME StoreInv, [Next]_vars, NEW g \in Gens, tree[g] = "good", tree'[g] # "good"
      PROVE  damage' # damage \/ RolledBack(g)
  BY <1>1, GoodTreesKept
<1>2. StoreInv /\ [Next]_vars =>
        [\A g \in Gens : tree[g] = "good" /\ tree'[g] # "good" =>
           \/ damage' # damage
           \/ \E p \in Procs : at[p] = "rollback" /\ Gen(p) = g /\ hurt[p]]_vars
  BY <1>1 DEF RolledBack
<1> QED
  BY <1>2, StoreInvHolds, PTL DEF Spec, NoGoodTreeLost

=============================================================================
