--------------------------- MODULE FeedbackBridge ---------------------------
(***************************************************************************)
(* The simulator side of the policy_v2 feedback pilot: feedback_bridge.h   *)
(* and the five edits prepare_build.py makes to sim_events_loop.  A job    *)
(* whose submit event is popped is not submitted but put in the table      *)
(* v2_jobs; a tick of the loop reports it to a controller process over a   *)
(* socket pair, and the reply names the jobs to submit now and the next    *)
(* wake-up.  Anything wrong with the controller makes the bridge fail safe *)
(* and submit every job it holds.                                          *)
(*                                                                         *)
(* The controller is an arbitrary peer here: it may write any line of      *)
(* Replies at any time, or nothing.  FeedbackLoop replaces it by the real  *)
(* controller.  Times count from v2_epoch().                               *)
(***************************************************************************)
EXTENDS Integers, Sequences, FiniteSets

CONSTANTS
  Job,       \* the jobs of the trace (their job_sim_id)
  Arrival,   \* Arrival[j]: the time of j's submit event
  Replies,   \* the lines a controller may write
  MaxJobs,   \* V2_MAX_JOBS, the size of the table
  Quantum,   \* the main thread sleeps this long between background passes
  Grace,     \* slurm_sim_conf->time_after_all_events_done
  MaxTime,   \* bound on the simulated clock
  Far        \* INT64_MAX: no wake-up is set

ReplyType == [kind : {"line", "garbled"}, next : Int, rel : Seq(Job)]

ASSUME BridgeAssumption ==
  /\ IsFiniteSet(Job)
  /\ Arrival \in [Job -> Nat]
  /\ Replies \subseteq ReplyType
  /\ MaxJobs \in Nat /\ Quantum \in Nat \ {0} /\ Grace \in Nat
  /\ MaxTime \in Nat /\ Far \in Nat /\ Far > MaxTime

VARIABLES
  pc,         \* where the main thread is in sim_events_loop
  now,        \* get_sim_utime()
  sleepTill,  \* sim_main_thread_sleep_till
  allDone,    \* all_done: when the simulator may exit, 0 while not set
  queued,     \* jobs whose submit event is still in the event list
  table,      \* the jobs in v2_jobs
  submitted,  \* those with .submitted set
  reported,   \* those with .reported set
  state,      \* .state: what the last tick saw of the job in Slurm
  direct,     \* jobs submitted by v2_arrive because the table was full
  todo,       \* the releases v2_tick has accepted and not yet carried out
  wake,       \* v2_wake
  fd,         \* v2_fd >= 0: a controller is connected
  failed,     \* v2_failed
  reply,      \* the lines in the socket (at most one is modelled)
  slurm,      \* the job's state in Slurm
  submits     \* history: how often submit_job was called for the job

bridge == <<table, submitted, reported, state, direct, todo, wake, fd, failed>>
vars == <<pc, now, sleepTill, allDone, queued, bridge, reply, slurm, submits>>

NoReply == [kind |-> "none", next |-> 0, rel |-> << >>]
Slurm == {"absent", "pending", "running", "completed"}

TypeOK ==
  /\ pc \in {"events", "tick", "wait", "release", "fallback", "sched", "exit", "skip", "done"}
  /\ now \in Nat /\ sleepTill \in Nat /\ allDone \in Nat /\ wake \in Int
  /\ queued \subseteq Job /\ table \subseteq Job /\ direct \subseteq Job
  /\ submitted \subseteq table /\ reported \subseteq table
  /\ state \in [Job -> {"unseen", "pending", "running", "completed"}]
  /\ slurm \in [Job -> Slurm]
  /\ todo \in Seq(Job)
  /\ fd \in BOOLEAN /\ failed \in BOOLEAN
  /\ reply \in Replies \union {NoReply}
  /\ submits \in [Job -> Nat]

Init ==
  /\ pc = "events" /\ now = 0 /\ sleepTill = Quantum /\ allDone = 0
  /\ queued = Job
  /\ table = {} /\ submitted = {} /\ reported = {} /\ direct = {}
  /\ state = [j \in Job |-> "unseen"]
  /\ todo = << >> /\ wake = Far /\ fd = FALSE /\ failed = FALSE
  /\ reply = NoReply
  /\ slurm = [j \in Job |-> "absent"]
  /\ submits = [j \in Job |-> 0]

-----------------------------------------------------------------------------
(* The bridge's own operations *)

\* v2_pending: the jobs held back
Pending == table \ submitted

\* submit_job: Slurm accepts the job (external)
Submit(j) ==
  /\ slurm' = [slurm EXCEPT ![j] = "pending"]
  /\ submits' = [submits EXCEPT ![j] = @ + 1]

\* v2_fail: give up on the controller for good; closing the socket discards
\* whatever it has written
Fail == failed' = TRUE /\ fd' = FALSE /\ reply' = NoReply

\* What v2_tick sees of a submitted job: anything that is neither pending nor
\* running, a vanished record included, counts as completed
Observed(j) == IF slurm[j] \in {"pending", "running"} THEN slurm[j] ELSE "completed"

Dirty ==
  \E j \in table : IF j \in submitted THEN Observed(j) # state[j] ELSE j \notin reported

\* the scan at the head of v2_tick also records what it sees
Observe == state' = [j \in Job |-> IF j \in submitted THEN Observed(j) ELSE state[j]]

\* Mutant of Arrive: the wake-up is not brought forward
ArriveWithoutWake(j) ==
  IF Cardinality(table) >= MaxJobs
  THEN /\ Fail /\ Submit(j)
       /\ direct' = direct \union {j}
       /\ UNCHANGED <<table, submitted, reported, state, todo, wake>>
  ELSE /\ table' = table \union {j}
       /\ UNCHANGED <<submitted, reported, state, direct, todo, wake, fd, failed, reply, slurm, submits>>

\* v2_arrive, from the SIM_SUBMIT_BATCH_JOB case of the loop
Arrive(j) ==
  IF Cardinality(table) >= MaxJobs
  THEN /\ Fail /\ Submit(j)
       /\ direct' = direct \union {j}
       /\ UNCHANGED <<table, submitted, reported, state, todo, wake>>
  ELSE /\ table' = table \union {j}
       /\ wake' = 0
       /\ UNCHANGED <<submitted, reported, state, direct, todo, fd, failed, reply, slurm, submits>>

-----------------------------------------------------------------------------
(* The event loop.  The nested loop the backfiller runs (sim_mini_loop) pops *)
(* events too, but the tick belongs to the outermost loop.                   *)

NextArrivals == {j \in queued : \A k \in queued : Arrival[j] <= Arrival[k]}

PopArrival(j) ==
  /\ pc \in {"events", "sched"}
  /\ j \in NextArrivals /\ Arrival[j] <= now
  /\ queued' = queued \ {j}
  /\ Arrive(j)
  /\ UNCHANGED <<pc, now, sleepTill, allDone>>

\* a completion event of the list (external: SimEngine models it)
CompleteJob(j) ==
  /\ pc \in {"events", "sched"} /\ slurm[j] = "running"
  /\ slurm' = [slurm EXCEPT ![j] = "completed"]
  /\ UNCHANGED <<pc, now, sleepTill, allDone, queued, bridge, reply, submits>>

EventsDone ==
  /\ pc = "events" /\ \A j \in queued : Arrival[j] > now
  /\ pc' = "tick"
  /\ UNCHANGED <<now, sleepTill, allDone, queued, bridge, reply, slurm, submits>>

\* Mutant of TickQuiet: once failed, the tick returns at its head
TickQuietOnceFailed ==
  /\ pc = "tick"
  /\ failed \/ table = {} \/ (~Dirty /\ (Pending = {} \/ now < wake))
  /\ pc' = "sched"
  /\ UNCHANGED <<now, sleepTill, allDone, queued, bridge, reply, slurm, submits>>

\* v2_tick returns without consulting anybody
TickQuiet ==
  /\ pc = "tick"
  /\ table = {} \/ (~Dirty /\ (Pending = {} \/ now < wake))
  /\ IF table = {} THEN UNCHANGED state ELSE Observe
  /\ pc' = "sched"
  /\ UNCHANGED <<now, sleepTill, allDone, queued, table, submitted, reported, direct, todo,
                 wake, fd, failed, reply, slurm, submits>>

TickDue == pc = "tick" /\ table # {} /\ (Dirty \/ (Pending # {} /\ now >= wake))

\* after a failure every tick that has something to do goes to the fallback
TickFailed ==
  /\ TickDue /\ failed
  /\ Observe
  /\ pc' = "fallback"
  /\ UNCHANGED <<now, sleepTill, allDone, queued, table, submitted, reported, direct, todo,
                 wake, fd, failed, reply, slurm, submits>>

\* socketpair or fork fails, or the peer does not take the whole request, whatever
\* it has written before
TickUnsent ==
  /\ TickDue /\ ~failed
  /\ Observe /\ Fail
  /\ pc' = "fallback"
  /\ UNCHANGED <<now, sleepTill, allDone, queued, table, submitted, reported, direct, todo,
                 wake, slurm, submits>>

\* connect if need be, freeze the clock and send the request
TickSend ==
  /\ TickDue /\ ~failed
  /\ Observe
  /\ fd' = TRUE
  /\ pc' = "wait"
  /\ UNCHANGED <<now, sleepTill, allDone, queued, table, submitted, reported, direct, todo,
                 wake, failed, reply, slurm, submits>>

\* Mutants of ValidReleases: repeated ids pass; any id that is not yet
\* submitted passes
RepeatsAccepted(rel) ==
  Len(rel) <= Cardinality(Pending) /\ \A i \in 1..Len(rel) : rel[i] \in Pending
StrangersAccepted(rel) ==
  /\ Len(rel) <= Cardinality(Pending)
  /\ \A i, k \in 1..Len(rel) : rel[i] \notin submitted /\ (i # k => rel[i] # rel[k])

\* the ids must be distinct jobs that are still held, no more than there are
ValidReleases(rel) ==
  /\ Len(rel) <= Cardinality(Pending)
  /\ \A i \in 1..Len(rel) : rel[i] \in Pending
  /\ \A i, k \in 1..Len(rel) : i # k => rel[i] # rel[k]

\* a wake-up that has passed would leave the jobs that stay held without one
PastWake(r) == r.next <= now /\ Len(r.rel) < Cardinality(Pending)

TickReply ==
  /\ pc = "wait"
  /\ reply.kind = "line" /\ ValidReleases(reply.rel)
  /\ reported' = table
  /\ wake' = reply.next
  /\ IF PastWake(reply)
     THEN Fail /\ pc' = "fallback" /\ UNCHANGED todo
     ELSE /\ todo' = reply.rel /\ pc' = "release" /\ reply' = NoReply
          /\ UNCHANGED <<fd, failed>>
  /\ UNCHANGED <<now, sleepTill, allDone, queued, table, submitted, state, direct, slurm, submits>>

\* a malformed line, or none within five seconds, or the peer has gone
TickBadReply ==
  /\ pc = "wait"
  /\ reply.kind \in {"none", "garbled"} \/ ~ValidReleases(reply.rel)
  /\ Fail
  /\ pc' = "fallback"
  /\ UNCHANGED <<now, sleepTill, allDone, queued, table, submitted, reported, state, direct,
                 todo, wake, slurm, submits>>

\* v2_release, for the releases the controller asked for
Release ==
  /\ pc = "release" /\ todo # << >>
  /\ submitted' = submitted \union {Head(todo)}
  /\ Submit(Head(todo))
  /\ todo' = Tail(todo)
  /\ UNCHANGED <<pc, now, sleepTill, allDone, queued, table, reported, state, direct, wake,
                 fd, failed, reply>>

ReleaseDone ==
  /\ pc = "release" /\ todo = << >>
  /\ pc' = "sched"
  /\ UNCHANGED <<now, sleepTill, allDone, queued, bridge, reply, slurm, submits>>

\* the fallback loop: v2_release for every job still held
Fallback(j) ==
  /\ pc = "fallback" /\ j \in Pending
  /\ submitted' = submitted \union {j}
  /\ Submit(j)
  /\ UNCHANGED <<pc, now, sleepTill, allDone, queued, table, reported, state, direct, todo,
                 wake, fd, failed, reply>>

FallbackDone ==
  /\ pc = "fallback" /\ Pending = {}
  /\ wake' = Far
  /\ pc' = "sched"
  /\ UNCHANGED <<now, sleepTill, allDone, queued, table, submitted, reported, state, direct,
                 todo, fd, failed, reply, slurm, submits>>

\* the main scheduler or the backfiller starts a job (external)
StartJob(j) ==
  /\ pc = "sched" /\ slurm[j] = "pending"
  /\ slurm' = [slurm EXCEPT ![j] = "running"]
  /\ UNCHANGED <<pc, now, sleepTill, allDone, queued, bridge, reply, submits>>

SchedDone ==
  /\ pc = "sched"
  /\ pc' = "exit"
  /\ UNCHANGED <<now, sleepTill, allDone, queued, bridge, reply, slurm, submits>>

\* Mutant of AllDone: the test of the simulator without the bridge
AllDoneButHeld == queued = {} /\ \A j \in Job : slurm[j] \notin {"pending", "running"}

\* everything is done: no event, no job held by the bridge, none in Slurm
AllDone ==
  /\ Pending = {} /\ queued = {}
  /\ \A j \in Job : slurm[j] \notin {"pending", "running"}

\* the exit test, also run by the nested loop
ExitTest(next) ==
  LET done == IF AllDone /\ allDone = 0 THEN now + Grace ELSE allDone IN
  /\ allDone' = done
  /\ pc' = IF AllDone /\ done < now THEN "done" ELSE next
  /\ UNCHANGED <<now, sleepTill, queued, bridge, reply, slurm, submits>>

CheckExit == pc = "exit" /\ ExitTest("skip")
NestedCheckExit == pc = "sched" /\ ExitTest("sched")

\* the earliest of the deadlines the bridge and the event list set
SkipTarget ==
  LET deadlines == {sleepTill} \union {Arrival[j] : j \in queued}
                     \union (IF Pending # {} THEN {wake} ELSE {})
  IN  CHOOSE t \in deadlines : \A u \in deadlines : t <= u

\* the deadlines of the backfiller and of the database agent are external:
\* they may stop the skip at any instant before
SkipTime ==
  /\ pc = "skip" /\ allDone = 0
  /\ \E t \in (now + 1) .. SkipTarget : t <= MaxTime /\ now' = t
  /\ pc' = "events"
  /\ sleepTill' = IF sleepTill > now' THEN sleepTill ELSE now' + Quantum
  /\ UNCHANGED <<allDone, queued, bridge, reply, slurm, submits>>

NoSkip ==
  /\ pc = "skip"
  /\ pc' = "events"
  /\ sleepTill' = IF sleepTill > now THEN sleepTill ELSE now + Quantum
  /\ UNCHANGED <<now, allDone, queued, bridge, reply, slurm, submits>>

\* the simulated clock runs with the real one, except while the tick waits
Elapse ==
  /\ pc \notin {"wait", "done"} /\ now < MaxTime
  /\ now' = now + 1
  /\ UNCHANGED <<pc, sleepTill, allDone, queued, bridge, reply, slurm, submits>>

\* the process has exited
Exited == pc = "done" /\ UNCHANGED vars

-----------------------------------------------------------------------------
\* the peer, whatever it is: while connected it may write anything it likes
AnyController ==
  /\ fd /\ reply = NoReply
  /\ reply' \in Replies
  /\ UNCHANGED <<pc, now, sleepTill, allDone, queued, bridge, slurm, submits>>

Tick == TickQuiet \/ TickFailed \/ TickUnsent \/ TickSend \/ TickReply \/ TickBadReply
Releases == Release \/ ReleaseDone \/ (\E j \in Job : Fallback(j)) \/ FallbackDone
Loop ==
  \/ \E j \in Job : PopArrival(j)
  \/ EventsDone
  \/ Tick
  \/ Releases
  \/ SchedDone
  \/ CheckExit
  \/ SkipTime
  \/ NoSkip
  \/ Exited
Simulator == (\E j \in Job : CompleteJob(j) \/ StartJob(j)) \/ NestedCheckExit \/ Elapse

Next == Loop \/ Simulator \/ AnyController

(* The main thread never blocks for good and the clock runs on.  Which jobs *)
(* Slurm starts is not the bridge's business: no fairness there.            *)
Fairness == WF_vars(Loop) /\ WF_vars(Elapse)

Spec == Init /\ [][Next]_vars /\ Fairness

-----------------------------------------------------------------------------
(* Properties *)

\* Every job is submitted to Slurm exactly once if it has been released by the
\* bridge or passed around it, and never before: no reply of the controller,
\* however wrong, and no failure makes v2_release run twice for a job.
SubmitOnce ==
  \A j \in Job : submits[j] = IF j \in submitted \union direct THEN 1 ELSE 0

\* The exit test of the overlaid loop: the simulator stops only when every job
\* of the trace has arrived, has been submitted and has left Slurm's queue.
ExitComplete ==
  pc = "done" => \A j \in Job : submits[j] = 1 /\ slurm[j] = "completed"

\* A job the controller has not been told of keeps the wake-up at zero, so that
\* the loop does not skip time before the tick that reports it (v2_arrive).
UnreportedWakes ==
  (Pending \ reported) # {} => wake = 0

\* After a failsafe no controller is connected: a late or stale line is never
\* read, and none is asked again.
FailedDisconnected == failed => ~fd /\ reply = NoReply /\ pc # "wait"

\* The failsafe drains: once the bridge has failed, every job it still holds is
\* submitted, whatever the reason of the failure (prepare_fault_check.py:14).
FailsafeDrains == \A j \in Job : (failed /\ j \in Pending) ~> (j \in submitted)
=============================================================================
