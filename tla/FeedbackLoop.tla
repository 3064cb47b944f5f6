---------------------------- MODULE FeedbackLoop ----------------------------
(***************************************************************************)
(* The bridge of FeedbackBridge talking to the controller of               *)
(* FeedbackController.  A request holds the jobs not reported so far and    *)
(* the states this tick observed; the simulated clock stands still until   *)
(* the answer is in.  Up to MaxFaults times the controller may not start,  *)
(* be killed or be too slow; otherwise it does whatever step does.          *)
(***************************************************************************)
EXTENDS FeedbackBridge

CONSTANTS User, UserOf, PoolOf, Flexible, Reliable, Runtime, Fraction, Capacity,
          Intensity, CarbonEnd, TickS, MaxDelay, UserBudget, MinSaving,
          RatioNum, RatioDen, Baseline, IdleWake,
          MaxFaults   \* bound: of faults

VARIABLES held, seen, released, spent, reserved, lastNow, answer, alive, late,
          startAt,    \* start_time of the job's Slurm record
          faults      \* how often the controller did not start, was killed or too slow

controller == <<held, seen, released, spent, reserved, lastNow, answer, alive, late>>
loopVars == <<vars, controller, startAt, faults>>

C == INSTANCE FeedbackController WITH MaxStep <- 0, MaxNow <- MaxTime
S == INSTANCE SequencesExt

\* the lines serve writes: distinct jobs, and the wake-up of the answer
Lines ==
  {[kind |-> "line", next |-> t, rel |-> r] :
     t \in 0..(MaxTime + C!Larger(IdleWake, TickS)),
     r \in {r \in UNION {[1..n -> Job] : n \in 0..Cardinality(Job)} : S!IsInjective(r)}}

ASSUME LoopAssumption ==
  C!ControllerAssumption /\ MaxFaults \in Nat /\ Lines \subseteq Replies

LoopInit == Init /\ C!Init /\ startAt = [j \in Job |-> 0] /\ faults = 0

\* the message v2_tick composes
Arrivals == table \ reported
\* Mutant of Snapshot: the jobs that are held are shown too
SnapshotOfAll == {[id |-> j, state |-> state[j], start |-> startAt[j]] : j \in table}

Snapshot == {[id |-> j, state |-> state[j], start |-> startAt[j]] : j \in submitted}

\* serve: read a request, step, write the line
ControllerAnswers ==
  /\ pc = "wait" /\ fd /\ reply = NoReply
  /\ C!Answer(Arrivals, Snapshot, now)
  /\ reply' = [kind |-> "line", next |-> answer'.wake, rel |-> S!SetToSeq(answer'.release)]
  /\ UNCHANGED <<pc, now, sleepTill, allDone, queued, bridge, slurm, submits, startAt, faults>>

Fault == faults < MaxFaults /\ faults' = faults + 1

\* the process ends with all it knows; held stays, as history
Ended ==
  /\ alive' = FALSE
  /\ seen' = {} /\ released' = {} /\ lastNow' = 0 /\ answer' = [release |-> {}, wake |-> 0]
  /\ spent' = [u \in User |-> 0] /\ reserved' = spent' /\ late' = spent'
  /\ UNCHANGED held

\* step raises, or the process is killed; a line it has written stays in the socket
ControllerEnds ==
  /\ fd /\ alive /\ Ended
  /\ \/ Fault
     \/ /\ pc = "wait" /\ reply = NoReply /\ C!Raises(Arrivals, Snapshot, now)
        /\ UNCHANGED faults
  /\ UNCHANGED <<vars, startAt>>

Starts(j) == StartJob(j) /\ startAt' = [startAt EXCEPT ![j] = now] /\ UNCHANGED <<controller, faults>>

\* the bridge gives up on a line it cannot use, on a controller that has ended
\* and on one that has not answered in time, which loses its socket
GivesUp ==
  /\ TickBadReply /\ Ended
  /\ IF reply # NoReply \/ ~alive THEN UNCHANGED faults ELSE Fault

LoopTick ==
  \/ (TickQuiet \/ TickFailed \/ TickSend \/ TickReply) /\ UNCHANGED <<controller, faults>>
  \/ ~fd /\ TickUnsent /\ Fault /\ UNCHANGED controller
  \/ GivesUp

Pass ==
  \/ \E j \in Job : PopArrival(j)
  \/ EventsDone \/ Releases \/ SchedDone \/ CheckExit \/ SkipTime \/ NoSkip \/ Exited

Thread == (LoopTick \/ (Pass /\ UNCHANGED <<controller, faults>>)) /\ UNCHANGED startAt

Environment ==
  \/ \E j \in Job : CompleteJob(j) /\ UNCHANGED <<controller, startAt, faults>>
  \/ \E j \in Job : Starts(j)
  \/ NestedCheckExit /\ UNCHANGED <<controller, startAt, faults>>

\* Mutant of Clock: it runs on while the tick waits for the answer
ClockUnfrozen ==
  /\ pc # "done" /\ now < MaxTime /\ now' = now + 1
  /\ UNCHANGED <<pc, sleepTill, allDone, queued, bridge, reply, slurm, submits, controller, startAt, faults>>

Clock == Elapse /\ UNCHANGED <<controller, startAt, faults>>

LoopNext == Thread \/ Environment \/ Clock \/ ControllerAnswers \/ ControllerEnds

\* the main thread runs, the clock runs, and a controller that is asked answers
LoopFairness ==
  WF_loopVars(Thread) /\ WF_loopVars(Clock) /\ WF_loopVars(ControllerAnswers \/ ControllerEnds)

LoopSpec == LoopInit /\ [][LoopNext]_loopVars /\ LoopFairness

-----------------------------------------------------------------------------
(* Properties *)

\* The two programs fit: as long as the controller is left to answer, neither
\* makes the other fail (v2_failsafe, the raises of step): it never raises on what the bridge sends, and
\* the bridge never rejects what it writes.
NoFailsafe == faults = 0 => ~failed /\ alive

WakeCoversHolds ==
  pc # "wait" => \A j \in Pending \cap DOMAIN held : wake <= held[j]

\* Between ticks the controller's holds are exactly the jobs the bridge has
\* reported and still keeps, and what it has released has been submitted; and
\* the bridge wakes no later than the earliest release planned for a job it still
\* keeps, also after a failure.
Agreement ==
  /\ pc \notin {"wait", "release"} /\ ~failed /\ alive =>
       DOMAIN held = reported \ submitted /\ released = submitted
  /\ WakeCoversHolds

\* Every job of the trace is submitted in the end: a hold is never for ever,
\* whether the controller answers, raises, stalls or dies.
EventuallySubmitted == \A j \in Job : <>(submits[j] = 1)

\* The loop is an instance of the bridge with an arbitrary controller, so that
\* all the bridge guarantees holds of it.
BridgeSafety == Init /\ [][Next]_vars
=============================================================================
