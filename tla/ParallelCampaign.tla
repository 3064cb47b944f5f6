-------------------------- MODULE ParallelCampaign --------------------------
(***************************************************************************)
(* The parallel campaign runner: run_multiday_parallel.py with the replay  *)
(* it inherits from run_multiday_campaign.py.  One process keeps the       *)
(* campaign's records and alone writes state.json; a worker thread per     *)
(* replay runs a container and reports its record through a queue.  The    *)
(* containers belong to Docker: they outlive the process, which may be     *)
(* killed and started again at any point and then adopts what still runs.  *)
(*                                                                         *)
(* Only the last record a worker has queued matters, since the queue is    *)
(* drained whole: mail[k].  Docker's other context never sees a container. *)
(***************************************************************************)
EXTENDS Integers, Sequences, FiniteSets

CONSTANTS
  Key,          \* the replays of the task graph
  Deps,         \* Deps[k]: the replays k depends on
  Rank,         \* Rank[k]: place of k in the sorted list of tasks
  Date, DateOf, \* the day a replay belongs to
  Bridge,       \* the control replays whose result guards the execution mode
  Diagnostic,   \* replays no day waits for: the control of the secondary context
  Backends,     \* the Docker contexts, in the order of the configuration
  Slots,        \* Slots[c]: replays a context takes at a time
  NoContext,
  TaskContext,  \* TaskContext[k]: context the task asks for, or NoContext
  MaxAttempts,  \* attempts_per_run
  Fallible,     \* replays that can fail
  CanFail,      \* guards and commands of the main thread can fail
  Prompt,       \* no command of the main thread fails, and it saves a record
                \* before the replay's container runs
  Answers,      \* nothing fails while a worker adopts a replay that runs
  Removes,      \* docker rm, stop and inspect, of whose failure replay and adopt take no
                \* note, do not fail
  MaxCrashes    \* bound: how often the process is killed

Contexts == {Backends[i] : i \in DOMAIN Backends}

ASSUME CampaignAssumption ==
  /\ IsFiniteSet(Key) /\ Bridge \subseteq Key /\ Diagnostic \subseteq Key
  /\ Deps \in [Key -> SUBSET Key] /\ (\A k \in Diagnostic : Deps[k] \cap Diagnostic = {})
  /\ Rank \in [Key -> Nat] /\ DateOf \in [Key -> Date]
  /\ Backends \in Seq(Contexts) /\ Backends # << >>
  /\ NoContext \notin Contexts /\ Slots \in [Contexts -> Nat \ {0}]
  /\ TaskContext \in [Key -> Contexts \union {NoContext}]
  /\ MaxAttempts \in Nat \ {0} /\ MaxCrashes \in Nat
  /\ Fallible \subseteq Key /\ CanFail \in BOOLEAN
  /\ Prompt \in BOOLEAN /\ Answers \in BOOLEAN /\ Removes \in BOOLEAN

VARIABLES
  pc,        \* where the main thread is in run
  failed,    \* the local variable failed of run
  records,   \* state['runs']
  dates,     \* the dates whose status is complete
  inherited, \* replays that were running when the state was loaded, not yet adopted
  active,    \* replays with a worker
  context,   \* assignments: the context of an active replay
  wpc, mine, \* where the worker is, and the record it keeps
  mail,      \* the last record in the queue of the worker
  saved,     \* state.json: [records, dates, status]
  guard,     \* baseline_bridge.json of a control replay
  live,      \* containers that run: pairs of replay and context
  output,    \* what the directory of the replay holds: no full result, a good
             \* one, or one from an invalid initial state
  crashes

main == <<pc, failed, records, dates, inherited, active, context>>
workers == <<wpc, mine, mail>>
world == <<saved, guard, live, output, crashes>>
vars == <<main, workers, world>>

Record == [status : {"none", "running", "complete", "failed", "invalid"},
           attempts : 0..MaxAttempts, context : Contexts \union {NoContext}]
NoRecord == [status |-> "none", attempts |-> 0, context |-> NoContext]
NoMail == [NoRecord EXCEPT !.attempts = -1]

TypeOK ==
  /\ pc \in {"drain", "collect", "guard", "analyse", "launch", "save", "closing", "finish", "summary", "down"}
  /\ failed \in BOOLEAN
  /\ records \in [Key -> Record] /\ mine \in [Key -> Record]
  /\ mail \in [Key -> Record \union {NoMail}]
  /\ saved \in [records : [Key -> Record], dates : SUBSET Date, status : {"running", "blocked", "complete"}]
  /\ dates \subseteq Date /\ inherited \subseteq Key /\ active \subseteq Key
  /\ context \in [Key -> Contexts \union {NoContext}]
  /\ wpc \in [Key -> {"none", "begin", "attempt", "prepare", "start", "wait", "check",
                      "adopt", "watch", "examine", "result", "raise"}]
  /\ guard \in [Bridge -> {"none", "passed", "failed"}]
  /\ live \subseteq Key \X Contexts
  /\ output \in [Key -> {"none", "good", "invalid"}]
  /\ crashes \in 0..MaxCrashes

Init ==
  /\ pc = "down" /\ failed = FALSE /\ dates = {} /\ inherited = {} /\ active = {}
  /\ records = [k \in Key |-> NoRecord] /\ mine = records
  /\ context = [k \in Key |-> NoContext]
  /\ wpc = [k \in Key |-> "none"] /\ mail = [k \in Key |-> NoMail]
  /\ saved = [records |-> records, dates |-> {}, status |-> "running"]
  /\ guard = [k \in Bridge |-> "none"] /\ live = {} /\ output = [k \in Key |-> "none"]
  /\ crashes = 0

LiveOf(k) == {c \in Contexts : <<k, c>> \in live}

-----------------------------------------------------------------------------
(* The queue and the file *)

\* drain: the records once everything in the queue has been taken over
Drained == [k \in Key |-> IF mail[k] = NoMail THEN records[k] ELSE mail[k]]
Emptied == [k \in Key |-> NoMail]

\* update: drain, then replace state.json
Write(newDates, status) == saved' = [records |-> Drained, dates |-> newDates, status |-> status]
Update(newDates, status) == records' = Drained /\ mail' = Emptied /\ Write(newDates, status)

\* the process ends: its memory and its threads are gone
Blank == [k \in Key |-> NoRecord]
Stop ==
  /\ pc' = "down" /\ failed' = FALSE /\ dates' = {} /\ inherited' = {} /\ active' = {}
  /\ records' = Blank /\ mine' = Blank /\ mail' = Emptied
  /\ context' = [k \in Key |-> NoContext] /\ wpc' = [k \in Key |-> "none"]

Drain ==
  /\ pc = "drain" /\ pc' = "collect"
  /\ records' = Drained /\ mail' = Emptied
  /\ UNCHANGED <<failed, dates, inherited, active, context, wpc, mine, world>>

\* the record of a worker that raised
MarkedFailed(r) == [r EXCEPT !.status = "failed"]

\* Mutant of Collected: what the worker last queued is not taken over first
CollectedUndrained(k) ==
  /\ records' = [records EXCEPT ![k] = IF wpc[k] = "result" THEN mine[k] ELSE MarkedFailed(@)]
  /\ UNCHANGED mail

Collected(k) ==
  /\ records' = [Drained EXCEPT ![k] = IF wpc[k] = "result" THEN mine[k] ELSE MarkedFailed(@)]
  /\ mail' = Emptied

\* the result of a worker that has ended, or its exception
Collect(k) ==
  /\ pc = "collect" /\ k \in active /\ wpc[k] \in {"result", "raise"}
  /\ Collected(k)
  /\ failed' = (failed \/ wpc[k] = "raise")
  /\ active' = active \ {k}
  /\ context' = [context EXCEPT ![k] = NoContext]
  /\ wpc' = [wpc EXCEPT ![k] = "none"] /\ mine' = [mine EXCEPT ![k] = NoRecord]
  /\ UNCHANGED <<pc, dates, inherited, world>>

CollectDone ==
  /\ pc = "collect" /\ \A k \in active : wpc[k] \notin {"result", "raise"}
  /\ pc' = "guard"
  /\ UNCHANGED <<failed, records, dates, inherited, active, context, workers, world>>

-----------------------------------------------------------------------------
(* Guards and analyses, which the main thread runs itself *)

IsComplete(k) == records[k].status = "complete"

GuardDue(k) ==
  /\ pc = "guard" /\ ~failed /\ \A b \in Bridge : guard[b] # "failed"
  /\ k \in Bridge /\ guard[k] = "none" /\ IsComplete(k)

\* bridge_check measures a control replay once and keeps the verdict in a file
BridgeCheck(k) ==
  /\ GuardDue(k)
  /\ guard' \in {[guard EXCEPT ![k] = v] : v \in {"passed"} \union (IF CanFail THEN {"failed"} ELSE {})}
  /\ UNCHANGED <<main, workers, saved, live, output, crashes>>

GuardsDone ==
  /\ pc = "guard" /\ \A k \in Bridge : ~GuardDue(k)
  /\ failed' = (failed \/ \E k \in Bridge : guard[k] = "failed")
  /\ pc' = "analyse"
  /\ UNCHANGED <<records, dates, inherited, active, context, workers, world>>

AnalysisDue(d) ==
  pc = "analyse" /\ d \notin dates /\ \A k \in Key \ Diagnostic : DateOf[k] = d => IsComplete(k)

\* the comparison of a day's replays, and the summary, which may still fail
Analyse(d) ==
  /\ AnalysisDue(d)
  /\ dates' = dates \union {d}
  /\ Update(dates', "running")
  /\ pc' \in {"analyse"} \union (IF CanFail /\ ~Prompt THEN {"closing"} ELSE {})
  /\ UNCHANGED <<failed, inherited, active, context, wpc, mine, guard, live, output, crashes>>

AnalysesDone ==
  /\ pc = "analyse" /\ \A d \in Date : ~AnalysisDue(d)
  /\ pc' = "launch"
  /\ UNCHANGED <<failed, records, dates, inherited, active, context, workers, world>>

\* command polls its process and updates the state meanwhile
Poll ==
  /\ (\E k \in Bridge : GuardDue(k)) \/ (\E d \in Date : AnalysisDue(d))
  /\ Update(dates, "running")
  /\ UNCHANGED <<pc, failed, dates, inherited, active, context, wpc, mine, guard, live, output, crashes>>

\* a command fails: the exception leaves run, whose thread pool first waits
\* for every worker; nothing is drained or saved meanwhile
CommandFails ==
  /\ CanFail /\ ~Prompt
  /\ (\E k \in Bridge : GuardDue(k)) \/ (\E d \in Date : AnalysisDue(d))
  /\ pc' = "closing"
  /\ UNCHANGED <<failed, records, dates, inherited, active, context, workers, world>>

PoolClosed ==
  /\ pc = "closing" /\ \A k \in active : wpc[k] \in {"result", "raise"}
  /\ Write(dates, "blocked") /\ Stop
  /\ UNCHANGED <<guard, live, output, crashes>>

-----------------------------------------------------------------------------
(* Launching *)

\* Mutant of Ready: it is enough that the dependencies have been started
ReadyOnceStarted(k) == \A d \in Deps[k] : records[d].status # "none"

Ready(k) == \A d \in Deps[k] : IsComplete(d)

\* Mutant of Preferred: a replay that runs goes where there is room
PreferredByTask(k) == TaskContext[k]

\* the context a replay must go to: where it runs, or where the task asks for
Preferred(k) ==
  IF records[k].status # "running" THEN TaskContext[k]
  ELSE IF records[k].context = NoContext THEN Backends[1] ELSE records[k].context

HasRoom(c) == Cardinality({k \in active : context[k] = c}) < Slots[c]
Choices(k) == {i \in DOMAIN Backends : Preferred(k) \in {NoContext, Backends[i]} /\ HasRoom(Backends[i])}

\* choose_backend: the first that fits
ChooseBackend(k) == Backends[CHOOSE i \in Choices(k) : \A n \in Choices(k) : i <= n]

\* Mutant of Eligible: a complete replay is run again
EligibleAgain(k) == k \notin active /\ Ready(k) /\ Choices(k) # {}

\* the slots of the contexts add up to the parallelism
Eligible(k) == k \notin active /\ ~IsComplete(k) /\ Ready(k) /\ Choices(k) # {}

\* Mutant of Earlier: the tasks are not sorted
EarlierInGraph(k, n) == Rank[k] < Rank[n]

\* the order of the tasks: those that were running when the state was loaded first
Earlier(k, n) ==
  \/ k \in inherited /\ n \notin inherited
  \/ (k \in inherited <=> n \in inherited) /\ Rank[k] < Rank[n]

Launch(k) ==
  /\ pc = "launch" /\ ~failed /\ Eligible(k)
  /\ \A n \in Key : Eligible(n) => ~Earlier(n, k)
  /\ context' = [context EXCEPT ![k] = ChooseBackend(k)]
  /\ active' = active \union {k} /\ inherited' = inherited \ {k}
  /\ mine' = [mine EXCEPT ![k] = records[k]]
  /\ wpc' = [wpc EXCEPT ![k] = "begin"]
  /\ UNCHANGED <<pc, failed, records, dates, mail, world>>

LaunchDone ==
  /\ pc = "launch" /\ (failed \/ \A k \in Key : ~Eligible(k))
  /\ pc' = "save"
  /\ UNCHANGED <<failed, records, dates, inherited, active, context, workers, world>>

\* Mutant of LoopOver: the loop is left when every day is done
LoopOverWhenDone == dates = Date

LoopOver == active = {}

\* the pass ends with an update; without a worker left, so does the loop
Save ==
  /\ pc = "save"
  /\ Update(dates, "running")
  /\ pc' = IF LoopOver THEN "finish" ELSE "drain"
  /\ UNCHANGED <<failed, dates, inherited, active, context, wpc, mine, guard, live, output, crashes>>

\* Mutant of FinalStatus: a failed guard is forgotten
FinalStatusByDates == IF dates = Date THEN "complete" ELSE "blocked"

FinalStatus == IF dates = Date /\ ~failed THEN "complete" ELSE "blocked"

Finish ==
  /\ pc = "finish" /\ pc' = "summary"
  /\ Update(dates, FinalStatus)
  /\ UNCHANGED <<failed, dates, inherited, active, context, wpc, mine, guard, live, output, crashes>>

\* the last summary; if it fails, main overwrites the status
Summarise ==
  /\ pc = "summary" /\ Stop
  /\ saved' \in {saved} \union (IF CanFail /\ ~Prompt THEN {[saved EXCEPT !.status = "blocked"]} ELSE {})
  /\ UNCHANGED <<guard, live, output, crashes>>

-----------------------------------------------------------------------------
(* A worker *)

\* the worker's record changes and is queued, with the context it works in
Report(k, status, attempts) ==
  /\ mine' = [mine EXCEPT ![k] = [status |-> status, attempts |-> attempts, context |-> context[k]]]
  /\ mail' = [mail EXCEPT ![k] = mine'[k]]

Silent == UNCHANGED <<mine, mail>>
Goto(k, from, to) == k \in active /\ wpc[k] = from /\ wpc' = [wpc EXCEPT ![k] = to]
Container(k) == <<k, context[k]>>

\* execute: adopt what is recorded as running, else make the inputs and replay;
\* the checks of code, image and inputs may raise
Begin(k) ==
  /\ \/ Goto(k, "begin", IF mine[k].status = "running" THEN "adopt" ELSE "attempt")
     \/ k \in Fallible /\ (Answers => mine[k].status # "running") /\ Goto(k, "begin", "raise")
  /\ Silent /\ UNCHANGED <<main, world>>

\* Mutant of AttemptsLeft: one less
OneAttemptLess(k) == mine[k].attempts + 1 < MaxAttempts

AttemptsLeft(k) == mine[k].attempts < MaxAttempts

\* replay: the next attempt, or RuntimeError when they are used up
Attempt(k) ==
  /\ \/ /\ AttemptsLeft(k)
        /\ Goto(k, "attempt", "prepare")
        /\ Report(k, "running", mine[k].attempts + 1)
     \/ /\ ~AttemptsLeft(k)
        /\ Goto(k, "attempt", "raise") /\ Silent
  /\ UNCHANGED <<main, world>>

Cleared(k) == live \ {Container(k)}

\* what may run after docker was told to remove or stop the container, or asked
\* whether there is one: its failure is not noticed
Removal(k) == {Cleared(k)} \union (IF k \in Fallible /\ ~Removes THEN {live} ELSE {})

\* an attempt fails: remove the container, note it and try again
AttemptFails(k, from) ==
  /\ Goto(k, from, "attempt")
  /\ Report(k, "failed", mine[k].attempts)
  /\ live' \in Removal(k)

\* remove a container of an earlier attempt and put its output aside
Prepare(k) ==
  /\ \/ /\ Goto(k, "prepare", "start") /\ Silent
        /\ live' \in Removal(k) /\ output' = [output EXCEPT ![k] = "none"]
     \/ /\ k \in Fallible /\ AttemptFails(k, "prepare")
        /\ output' \in {output, [output EXCEPT ![k] = "none"]}
  /\ UNCHANGED <<main, saved, guard, crashes>>

StartContainer(k) ==
  /\ Prompt => saved.records[k] = mine[k]
  /\ Goto(k, "start", "wait") /\ Silent
  /\ live' = live \union {Container(k)} /\ output' = [output EXCEPT ![k] = "none"]
  /\ UNCHANGED <<main, saved, guard, crashes>>

\* docker run returns when its container is gone, exceeds its time, or is refused
\* the name of a container that was left
Wait(k) ==
  /\ \/ Container(k) \notin live /\ Goto(k, "wait", "check") /\ Silent /\ UNCHANGED live
     \/ k \in Fallible /\ AttemptFails(k, "wait")
  /\ UNCHANGED <<main, saved, guard, output, crashes>>

\* analyse the output: complete, invalid (which ends the campaign), or failed
Check(k) ==
  /\ \/ /\ output[k] = "good" /\ Goto(k, "check", "result")
        /\ Report(k, "complete", mine[k].attempts) /\ UNCHANGED live
     \/ /\ output[k] = "invalid" /\ Goto(k, "check", "raise")
        /\ Report(k, "invalid", mine[k].attempts) /\ UNCHANGED live
     \/ /\ k \in Fallible \/ output[k] \notin {"good", "invalid"}
        /\ AttemptFails(k, "check")
  /\ UNCHANGED <<main, saved, guard, output, crashes>>

\* adopt: watch the container and report it while it runs
Adopt(k) ==
  /\ Goto(k, "adopt", "watch")
  /\ IF Container(k) \in live THEN Report(k, "running", mine[k].attempts) ELSE Silent
  /\ UNCHANGED <<main, world>>

\* a query of Docker times out while the container goes on
AdoptRaises(k) ==
  /\ k \in Fallible /\ ~Answers
  /\ Goto(k, "adopt", "raise") \/ Goto(k, "watch", "raise")
  /\ Silent /\ UNCHANGED <<main, world>>

\* the container has ended, or is stopped when its time is up
Watch(k) ==
  /\ Silent
  /\ \/ Container(k) \notin live /\ Goto(k, "watch", "examine") /\ UNCHANGED live
     \/ k \in Fallible /\ Container(k) \in live /\ Goto(k, "watch", "raise") /\ live' \in Removal(k)
  /\ UNCHANGED <<main, saved, guard, output, crashes>>

\* what is not complete raises; there is no further attempt
Examine(k) ==
  /\ \/ /\ output[k] = "good" /\ Goto(k, "examine", "result")
        /\ Report(k, "complete", mine[k].attempts)
     \/ /\ k \in Fallible \/ output[k] # "good"
        /\ Goto(k, "examine", "raise") /\ Silent
  /\ UNCHANGED <<main, world>>

Worker(k) ==
  \/ Begin(k) \/ Attempt(k) \/ Prepare(k) \/ StartContainer(k) \/ Wait(k) \/ Check(k)
  \/ Adopt(k) \/ AdoptRaises(k) \/ Watch(k) \/ Examine(k)

-----------------------------------------------------------------------------
(* Docker and the operator *)

\* the simulator exits, or its time limit kills it, and --rm takes the container
ContainerEnds(k, c) ==
  /\ <<k, c>> \in live /\ live' = live \ {<<k, c>>}
  /\ output' \in {[output EXCEPT ![k] = o] : o \in {"good"} \union (IF k \in Fallible THEN {"none", "invalid"} ELSE {})}
  /\ UNCHANGED <<main, workers, saved, guard, crashes>>

\* the process is killed
Crash ==
  /\ pc # "down" /\ crashes < MaxCrashes /\ crashes' = crashes + 1
  /\ Stop
  /\ UNCHANGED <<saved, guard, live, output>>

\* the runner is started again: it loads the file and verifies the artifacts
Restart ==
  /\ pc = "down" /\ pc' = "drain"
  /\ \A k \in Key : saved.records[k].status = "complete" => output[k] = "good"
  /\ records' = saved.records /\ dates' = saved.dates /\ failed' = FALSE
  /\ inherited' = {k \in Key : saved.records[k].status = "running"}
  /\ UNCHANGED <<active, context, workers, world>>

MainThread ==
  \/ Drain \/ CollectDone \/ (\E k \in Key : Collect(k))
  \/ (\E k \in Key : BridgeCheck(k)) \/ GuardsDone
  \/ (\E d \in Date : Analyse(d)) \/ AnalysesDone
  \/ CommandFails \/ PoolClosed
  \/ (\E k \in Key : Launch(k)) \/ LaunchDone \/ Save \/ Finish \/ Summarise

Docker == \E k \in Key, c \in Contexts : ContainerEnds(k, c)

Next ==
  \/ MainThread \/ Poll \/ (\E k \in Key : Worker(k)) \/ Docker \/ Crash \/ Restart

(* The threads run, containers end (timeout -s KILL in simulator_command),   *)
(* and somebody starts the runner again when it is down.                     *)
Fairness ==
  /\ WF_vars(MainThread) /\ WF_vars(Restart)
  /\ \A k \in Key : WF_vars(Worker(k))
  /\ \A k \in Key, c \in Contexts : WF_vars(ContainerEnds(k, c))

Spec == Init /\ [][Next]_vars /\ Fairness

-----------------------------------------------------------------------------
(* Properties *)

\* A replay never has containers in two contexts: they would write the same
\* directory (test_multiday_parallel.py:23, a live container is not moved).
OneContainer == \A k \in Key : Cardinality(LiveOf(k)) <= 1

\* No context runs more containers than it has slots, those that outlived the
\* process included: choose_backend counts workers, not containers.
SlotsKept == \A c \in Contexts : Cardinality({k \in Key : <<k, c>> \in live}) <= Slots[c]

\* A replay recorded as complete, in memory or in the file, has its artifacts
\* on disk and nothing left running that could change them.
CompleteIsQuiet ==
  \A k \in Key :
    saved.records[k].status = "complete" \/ (pc # "down" /\ IsComplete(k))
      => output[k] = "good" /\ LiveOf(k) = {}

\* What outlives the process is safe: a replay has one container, a complete one
\* none, whatever is killed, adopted and launched (choose_backend, adopt).
ContainersKept == OneContainer /\ CompleteIsQuiet

\* Among the records of the process, running means a worker is at it or the
\* file said so and it is still to be adopted: nothing is waited for in vain.
RunningIsActive ==
  pc # "down" => \A k \in Key : records[k].status = "running" => k \in active \union inherited

\* The file is consistent at every instant a crash may strike: a replay has a
\* record only if all it depends on are complete, a day is done only with all its
\* replays but diagnostic ones, and none had more attempts than it may have (TypeOK).
FileConsistent ==
  /\ TypeOK
  /\ \A k \in Key : saved.records[k].status # "none" =>
       \A d \in Deps[k] : saved.records[d].status = "complete"
  /\ \A k \in Key \ Diagnostic : DateOf[k] \in saved.dates => saved.records[k].status = "complete"

\* state.json says complete only when every replay is, diagnostic ones included,
\* which no day waits for, and no guard has failed (ParallelRunner.run).
CompleteMeansAll ==
  saved.status = "complete" =>
    /\ \A k \in Key : saved.records[k].status = "complete"
    /\ \A k \in Bridge : guard[k] = "passed"

Promise == INSTANCE CampaignPromise
             WITH Replay <- Key, done <- {k \in Key : saved.records[k].status = "complete"},
                  complete <- saved.status = "complete"

\* The runner implements the promise it shares with the serial one: no later
\* message, crash or restart makes the file forget a finished replay
\* (ParallelRunner.update), and complete means all of them (ParallelRunner.run).
KeepsPromise == Promise!Spec

\* Every session ends: no worker and no container is waited for for ever.
SessionEnds == []<>(pc = "down")

\* A campaign in which nothing but the process fails is completed, if it is
\* started again often enough and killed less often than a replay has attempts.
Resumes == <>(saved.status = "complete")
=============================================================================
