---------------------------- MODULE AudioStreamMC ----------------------------
(***************************************************************************)
(* The instance of AudioStream that TLC checks, two in one: players with   *)
(* two buffers, pauses and changes of callback, without mutes, which       *)
(* concern recorders; and recorders that are given one buffer at a time.   *)
(* Only the calls of the client and the user are bounded, nothing that     *)
(* fairness speaks of.                                                     *)
(***************************************************************************)
EXTENDS AudioStream

(* Bound: all streams of a behaviour are of one kind.                      *)
OneKind == at = "none" \/ UNCHANGED kind

(* Bound: nobody mutes the microphone.                                     *)
PlainPlayer == UNCHANGED muted

Buffer == CHOOSE b \in Buffers : TRUE

(* Bound: always the same buffer, no pause, a callback that stays.         *)
PlainRecorder ==
    /\ queue_count' <= 1 /\ (queue' = <<>> \/ queue' = <<Buffer>>)
    /\ state' # "paused"
    /\ cb /\ life # "none" => cb'

MCNext ==
    /\ Next /\ OneKind
    /\ IF kind' = "player" THEN PlainPlayer ELSE PlainRecorder

MCSpec == Init /\ [][MCNext]_vars /\ Fairness
=============================================================================
