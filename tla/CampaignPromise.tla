-------------------------- MODULE CampaignPromise --------------------------
(***************************************************************************)
(* What both campaign runners promise of state.json: whatever fails and    *)
(* however often the process is killed and started again, a replay once    *)
(* recorded as complete stays so, and the campaign is called complete only *)
(* with all its replays.                                                   *)
(***************************************************************************)
CONSTANT Replay

VARIABLES
  done,      \* replays the file records as complete
  complete   \* the file calls the campaign complete

Init == done = {} /\ complete = FALSE

Save ==
  /\ done \subseteq done' /\ done' \subseteq Replay
  /\ complete' \in BOOLEAN /\ (complete' => done' = Replay)

Spec == Init /\ [][Save]_<<done, complete>>
=============================================================================
