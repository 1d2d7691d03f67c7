---------------------------- MODULE NativeMainMC ----------------------------
(***************************************************************************)
(* The instance of NativeMain that TLC checks: two submitters on a looper  *)
(* that has nothing to poll but its wake pipe, and one submitter on a      *)
(* looper with descriptors, whose callbacks may wait.  Only what the       *)
(* environment may begin is bounded (Submit, Post, AddFd), nothing that    *)
(* fairness speaks of.                                                     *)
(***************************************************************************)
EXTENDS NativeMain

CONSTANT Lone   \* the submitter that is alone when there are descriptors

(* The submitter has not been here.                                        *)
Absent(t) == sub[t] = "out" /\ ran[t] = 0

(* Bound: no descriptor is registered or posted to.                        *)
WakePipeOnly == used = {} /\ frames = <<>> /\ \A f \in Fds : queued[f] = 0

(* Bound: no other submitter.                                              *)
OneSubmitter == \A t \in Posters \ {Lone} : Absent(t)

MCNext == NativeNext /\ (WakePipeOnly \/ OneSubmitter)'

MCSpec == NativeInit /\ [][MCNext]_allVars /\ NativeFairness
=============================================================================
