------------------------------- MODULE Budget -------------------------------
(***************************************************************************)
(* The wall-clock budget of the policy pilots: bounded.py, run_pilot.py    *)
(* and close_experiment.py.  Every phase (a build, a test, a pilot) is a   *)
(* process of its own that shares budget.json, the logs, phases.jsonl and  *)
(* finished.json with the others; a pilot runs its command in a container, *)
(* which outlives the process that started it.  A process may be killed    *)
(* at any step.                                                            *)
(***************************************************************************)
EXTENDS Integers, Sequences, FiniteSets, FiniteSetsExt

CONSTANTS
  Proc,          \* processes that run a phase
  Phase,         \* names of phases
  NameOf,        \* the phase a process is started for
  Pilot,         \* phases started by run_pilot.py
  Regression,    \* phases whose name starts with regression
  Required,      \* pilots that closing asks for
  Limit,         \* limit_seconds, the budget
  Reserve,       \* seconds run keeps for stopping a phase
  Maximum,       \* maximum of a phase that is no pilot
  PilotLeast,    \* what must remain for a pilot
  PilotReserve,  \* what a pilot leaves
  PilotMaximum,  \* the longest pilot
  PilotExtra,    \* by how much run waits longer than the pilot may take
  Lag,           \* a step of a process is at most this late
  Alone,         \* no phase is started twice at the same time
  MaxCrashes,    \* bound: of processes killed
  MaxTime,       \* bound: of the clock
  Nothing,       \* no file, no value
  Empty          \* a file that is created but not written yet

ASSUME BudgetAssumption ==
  /\ NameOf \in [Proc -> Phase] /\ Pilot \subseteq Phase /\ Required \subseteq Pilot
  /\ Regression \subseteq Phase \ Pilot /\ Alone \in BOOLEAN
  /\ \A c \in {Limit, Reserve, Maximum, PilotMaximum} : c \in Nat \ {0}
  /\ \A c \in {PilotLeast, PilotReserve, PilotExtra, Lag, MaxCrashes, MaxTime} : c \in Nat
  /\ PilotReserve < PilotLeast /\ Nothing \notin Nat /\ Empty \notin Nat \cup {Nothing}
  /\ Nothing \notin {"ended", "failed", "expired", "raise", "partial", "complete"}

\* the three reserves of the code against the lag of the machine
ASSUME LagAssumption ==
  2 * Lag <= Reserve /\ 3 * Lag <= PilotReserve /\ Lag < PilotExtra
  /\ Reserve + PilotExtra + 2 * Lag <= PilotReserve

VARIABLES
  now,
  budget,    \* budget.json: Nothing, Empty, or the deadline it holds
  log,       \* the processes that have opened a phase's log for writing
  out,       \* slurmctld.log of a pilot: Nothing, "partial" or "complete"
  phases,    \* phases.jsonl
  closed,    \* finished.json exists
  live,      \* the processes whose container runs
  pc, deadline, limit, until, code,   \* each process's place and variables
  late,      \* how long it has been about to take its next step
  child,     \* what it started: "none", "starting", "running", "ended", "failed"
  cpc,       \* the place of close_experiment.py
  crashes

files == <<budget, log, out, phases, closed>>
process == <<pc, deadline, limit, until, code, late, child>>
vars == <<now, files, live, process, cpc, crashes>>

Init ==
  /\ now = 0 /\ budget = Nothing /\ phases = <<>> /\ closed = FALSE /\ live = {}
  /\ log = [n \in Phase |-> {}] /\ out = [n \in Phase |-> Nothing]
  /\ pc = [p \in Proc |-> "idle"] /\ child = [p \in Proc |-> "none"]
  /\ deadline = [p \in Proc |-> 0] /\ limit = deadline /\ until = deadline /\ late = deadline
  /\ code = [p \in Proc |-> Nothing]
  /\ cpc = "idle" /\ crashes = 0

Over == {"done", "raised", "dead"}
Started(p) == pc[p] \notin Over \cup {"idle"}
IsPilot(p) == NameOf[p] \in Pilot
LeastOf(x, y) == Min({x, y})

Goto(p, place) == pc' = [pc EXCEPT ![p] = place] /\ late' = [late EXCEPT ![p] = 0]

\* the process ends, and with it what only it knew
Ends(p, place) ==
  /\ pc' = [pc EXCEPT ![p] = place] /\ code' = [code EXCEPT ![p] = Nothing]
  /\ deadline' = [deadline EXCEPT ![p] = 0] /\ until' = [until EXCEPT ![p] = 0]
  /\ late' = [late EXCEPT ![p] = IF place = "dead" THEN @ ELSE 0]

Raise(p) == Ends(p, "raised") /\ UNCHANGED <<now, files, live, limit, child, cpc, crashes>>

-----------------------------------------------------------------------------
(* A phase *)

\* a process is started; Budget.__init__ looks for the file
Start(p) ==
  /\ pc[p] = "idle"
  /\ Alone => \A q \in Proc : NameOf[q] = NameOf[p] => ~Started(q)
  /\ budget = Nothing => now + Limit < MaxTime
  /\ IF budget = Nothing
     THEN Goto(p, "create") /\ deadline' = [deadline EXCEPT ![p] = now + Limit]
     ELSE Goto(p, "read") /\ UNCHANGED deadline
  /\ UNCHANGED <<now, files, live, limit, until, code, child, cpc, crashes>>

\* Mutant of Create: an existing file is opened as well
CreateAnyway(p) ==
  /\ pc[p] = "create" /\ budget' = Empty /\ Goto(p, "fill")
  /\ UNCHANGED <<now, log, out, phases, closed, live, deadline, limit, until, code, child, cpc, crashes>>

\* open("x") is exclusive
Create(p) ==
  /\ pc[p] = "create"
  /\ \/ budget # Nothing /\ Raise(p)
     \/ /\ budget = Nothing /\ budget' = Empty /\ Goto(p, "fill")
        /\ UNCHANGED <<now, log, out, phases, closed, live, deadline, limit, until, code, child, cpc, crashes>>

\* json.dump and the closing of the file
Fill(p) ==
  /\ pc[p] = "fill" /\ budget' = deadline[p] /\ Goto(p, "read")
  /\ UNCHANGED <<now, log, out, phases, closed, live, deadline, limit, until, code, child, cpc, crashes>>

\* the record is read; a file that is not filled yet is no JSON
Read(p) ==
  /\ pc[p] = "read"
  /\ \/ budget = Empty /\ Raise(p)
     \/ /\ budget # Empty /\ deadline' = [deadline EXCEPT ![p] = budget]
        /\ Goto(p, IF IsPilot(p) THEN "pilot" ELSE "check")
        /\ UNCHANGED <<now, files, live, limit, until, code, child, cpc, crashes>>

\* the time the command gives itself in the container
PilotLimit(p) == LeastOf(PilotMaximum, deadline[p] - now - PilotReserve)

\* Mutant of TooLate: any time is enough
TooLateOver(p) == deadline[p] <= now

TooLate(p) == deadline[p] - now < PilotLeast

\* run_pilot.run before it calls Budget.run
Prepare(p) ==
  /\ pc[p] = "pilot"
  /\ IF TooLate(p) \/ out[NameOf[p]] # Nothing THEN Raise(p)
     ELSE /\ limit' = [limit EXCEPT ![p] = PilotLimit(p)] /\ Goto(p, "check")
          /\ UNCHANGED <<now, files, live, deadline, until, code, child, cpc, crashes>>

\* Mutant of Allowed: the wait is no longer than the command
AllowedExactly(p) == IF IsPilot(p) THEN limit[p] ELSE Maximum

Allowed(p) == IF IsPilot(p) THEN limit[p] + PilotExtra ELSE Maximum

\* Mutant of Attempted: a phase counts once it is recorded
AttemptRecorded(n) == \E i \in DOMAIN phases : phases[i].phase = n

Attempted(n) == log[n] # {}

\* Mutant of Remaining: the deadline itself
RemainingWhole(p) == deadline[p] - now

Remaining(p) == deadline[p] - now - Reserve

\* Budget.run up to the launch; until is a duration as yet
Check(p) ==
  /\ pc[p] = "check"
  /\ IF closed \/ Remaining(p) <= 0 \/ Attempted(NameOf[p]) THEN Raise(p)
     ELSE /\ until' = [until EXCEPT ![p] = LeastOf(Allowed(p), Remaining(p))]
          /\ Goto(p, "launch")
          /\ UNCHANGED <<now, files, live, deadline, limit, code, child, cpc, crashes>>

\* the log is opened, then the command started, which may fail
Launch(p) ==
  /\ pc[p] = "launch"
  /\ log' = [log EXCEPT ![NameOf[p]] = @ \cup {p}]
  /\ \/ Ends(p, "raised") /\ UNCHANGED child
     \/ /\ Goto(p, "wait") /\ UNCHANGED <<deadline, code>> /\ until' = [until EXCEPT ![p] = now + @]
        /\ child' = [child EXCEPT ![p] = IF IsPilot(p) THEN "starting" ELSE "running"]
  /\ UNCHANGED <<now, budget, out, phases, closed, live, limit, cpc, crashes>>

Waited(p) == pc[p] = "wait" /\ until' = [until EXCEPT ![p] = 0] /\ Goto(p, "remove")

\* proc.wait returns
Returns(p) ==
  /\ Waited(p) /\ child[p] \in {"ended", "failed"} /\ code' = [code EXCEPT ![p] = child[p]]
  /\ UNCHANGED <<now, files, live, deadline, limit, child, cpc, crashes>>

Killed(p) == child' = [child EXCEPT ![p] = IF @ \in {"starting", "running"} THEN "failed" ELSE @]

\* Mutant of Expires: only a pilot is waited for with a timeout
ExpiresPilot(p) ==
  /\ IsPilot(p) /\ Waited(p) /\ now >= until[p] /\ child[p] \notin {"ended", "failed"}
  /\ code' = [code EXCEPT ![p] = "expired"] /\ Killed(p)
  /\ UNCHANGED <<now, files, live, deadline, limit, cpc, crashes>>

\* the wait expires; the command's process group is killed, not the container
Expires(p) ==
  /\ Waited(p) /\ now >= until[p] /\ child[p] \notin {"ended", "failed"}
  /\ code' = [code EXCEPT ![p] = "expired"] /\ Killed(p)
  /\ UNCHANGED <<now, files, live, deadline, limit, cpc, crashes>>

\* any other exception in the wait, such as an interrupt, is raised again
Interrupt(p) ==
  /\ Waited(p) /\ code' = [code EXCEPT ![p] = "raise"] /\ Killed(p)
  /\ UNCHANGED <<now, files, live, deadline, limit, cpc, crashes>>

SameName(p) == {q \in Proc : NameOf[q] = NameOf[p]}

\* docker rm -f of the name, and the docker run of what it removes ends.  Its
\* result is not looked at; if it takes longer than 15 seconds that is raised,
\* whatever Docker makes of it.
Remove(p) ==
  /\ pc[p] = "remove"
  /\ \/ /\ IsPilot(p) /\ live' = live \ SameName(p)
        /\ limit' = [q \in Proc |-> IF q \in live \cap SameName(p) THEN 0 ELSE limit[q]]
        /\ child' = [q \in Proc |-> IF q \in live \cap SameName(p) /\ child[q] = "running"
                                   THEN "failed" ELSE child[q]]
     \/ UNCHANGED <<live, limit, child>>
  /\ \/ code[p] # "raise" /\ Goto(p, "record") /\ UNCHANGED <<deadline, until, code>>
     \/ (code[p] = "raise" \/ IsPilot(p)) /\ Ends(p, "raised")
  /\ UNCHANGED <<now, files, cpc, crashes>>

Record(p) ==
  /\ pc[p] = "record" /\ Ends(p, "done")
  /\ phases' = Append(phases, [phase |-> NameOf[p], by |-> p, code |-> code[p]])
  /\ UNCHANGED <<now, budget, log, out, closed, live, limit, child, cpc, crashes>>

Steps(p) ==
  \/ Create(p) \/ Fill(p) \/ Read(p) \/ Prepare(p) \/ Check(p) \/ Launch(p)
  \/ Returns(p) \/ Expires(p) \/ Remove(p) \/ Record(p)

\* the process is killed; what it started is in a session of its own
Crash(p) ==
  /\ Started(p) /\ crashes < MaxCrashes /\ crashes' = crashes + 1
  /\ Ends(p, "dead")
  /\ UNCHANGED <<now, files, live, limit, child, cpc>>

-----------------------------------------------------------------------------
(* What was started *)

\* docker run: the name is free and the container starts, or it is refused
ContainerStarts(p) ==
  /\ child[p] = "starting"
  /\ IF SameName(p) \cap live # {}
     THEN child' = [child EXCEPT ![p] = "failed"] /\ UNCHANGED <<live, out, limit>>
     ELSE /\ live' = live \cup {p} /\ child' = [child EXCEPT ![p] = "running"]
          /\ out' = [out EXCEPT ![NameOf[p]] = "partial"]
          /\ limit' = [limit EXCEPT ![p] = now + @]
  /\ UNCHANGED <<now, budget, log, phases, closed, pc, deadline, until, code, late, cpc, crashes>>

\* The simulator writes its last line and ends, or ends without; timeout kills
\* it at its limit.  Its docker run ends with it.
ContainerEnds(p) ==
  /\ p \in live /\ live' = live \ {p} /\ limit' = [limit EXCEPT ![p] = 0]
  /\ \/ now <= limit[p] /\ out' = [out EXCEPT ![NameOf[p]] = "complete"]
     \/ UNCHANGED out
  /\ child' = [child EXCEPT ![p] = IF @ = "running" THEN "ended" ELSE @]
  /\ UNCHANGED <<now, budget, log, phases, closed, pc, deadline, until, code, late, cpc, crashes>>

\* any other command ends, with success or not
CommandEnds(p) ==
  /\ ~IsPilot(p) /\ child[p] = "running"
  /\ child' \in {[child EXCEPT ![p] = c] : c \in {"ended", "failed"}}
  /\ UNCHANGED <<now, files, live, pc, deadline, limit, until, code, late, cpc, crashes>>

Children(p) == ContainerStarts(p) \/ ContainerEnds(p) \/ CommandEnds(p)

-----------------------------------------------------------------------------
(* close_experiment.py *)

Closing(place) == cpc' = place /\ UNCHANGED <<now, budget, log, out, phases, live, process, crashes>>

Evidence == \A n \in Required : out[n] = "complete"

\* analyse_pilots and the assertions on its results; one that fails ends it
CloseEvidence == cpc = "idle" /\ Evidence /\ Closing("ps") /\ UNCHANGED closed

Tests == SelectSeq(phases, LAMBDA r : r.phase \in Regression)
TestsPass == Tests # <<>> /\ Tests[Len(Tests)].code = "ended"

\* docker ps shows no pilot, and the last regression test has passed
CloseQuiet == cpc = "ps" /\ Closing(IF live = {} /\ TestsPass THEN "write" ELSE "idle") /\ UNCHANGED closed

\* the time is looked at last; finished.json is created once
CloseWrite ==
  /\ cpc = "write"
  /\ IF budget \in Nat /\ now < budget /\ ~closed
     THEN Closing("closed") /\ closed' = TRUE
     ELSE Closing("idle") /\ UNCHANGED closed

Close == CloseEvidence \/ CloseQuiet \/ CloseWrite

-----------------------------------------------------------------------------
(* Time passes, from the first phase on, as long as nothing is late *)

\* what may take its time, up to Lag: hashing inputs, starting a command, Docker
Slow(p) == pc[p] \in {"check", "launch", "remove"} \/ child[p] = "starting"

Late(p) ==
  \/ pc[p] \in {"create", "fill", "read", "pilot", "record"}
  \/ Slow(p) /\ late[p] >= Lag
  \/ pc[p] = "wait" /\ (child[p] \in {"ended", "failed"} \/ now >= until[p] + Lag)
  \/ p \in live /\ now >= limit[p]

Tick ==
  /\ now < MaxTime /\ now' = now + 1
  /\ \E p \in Proc : pc[p] # "idle"
  /\ \A p \in Proc : ~Late(p)
  /\ late' = [p \in Proc |-> IF Slow(p) THEN late[p] + 1 ELSE late[p]]
  /\ UNCHANGED <<files, live, pc, deadline, limit, until, code, child, cpc, crashes>>

Next ==
  \/ \E p \in Proc : Start(p) \/ Steps(p) \/ Interrupt(p) \/ Crash(p) \/ Children(p)
  \/ Close
  \/ Tick

\* Processes and Docker go on and the clock runs.  That a phase is started, or
\* that a command other than a pilot ends by itself, is not assumed.
Fairness ==
  /\ WF_vars(\E p \in Proc : Steps(p) \/ ContainerStarts(p) \/ ContainerEnds(p))
  /\ WF_vars(Tick)

Spec == Init /\ [][Next]_vars /\ Fairness

-----------------------------------------------------------------------------
(* Properties *)

TypeOK ==
  /\ now \in 0..MaxTime /\ crashes \in 0..MaxCrashes /\ closed \in BOOLEAN
  /\ budget \in Nat \cup {Nothing, Empty}
  /\ log \in [Phase -> SUBSET Proc] /\ live \subseteq Proc
  /\ out \in [Phase -> {Nothing, "partial", "complete"}]
  /\ phases \in Seq([phase : Phase, by : Proc, code : {"ended", "failed", "expired"}])
  /\ pc \in [Proc -> Over \cup {"idle", "create", "fill", "read", "pilot", "check", "launch",
                               "wait", "remove", "record"}]
  /\ \A f \in {deadline, limit, until, late} : f \in [Proc -> Nat]
  /\ code \in [Proc -> {Nothing, "ended", "failed", "expired", "raise"}]
  /\ child \in [Proc -> {"none", "starting", "running", "ended", "failed"}]
  /\ cpc \in {"idle", "ps", "write", "closed"}

\* Phases started together, the first of which create budget.json, and phases
\* started after a crash share one deadline (the exclusive create in
\* Budget.__init__): none sets a deadline of its own.
OneDeadline ==
  \A p \in Proc : pc[p] \in {"pilot", "check", "launch", "wait", "remove", "record"} => deadline[p] = budget

Uses(p) == p \in live \/ (child[p] \in {"starting", "running"} /\ pc[p] # "dead")

\* What the budget is for: past the deadline no pilot's container runs, even if
\* the process that started it was killed or docker rm failed, and no other
\* command runs whose process is there to stop it (Budget.run, run_pilot.run).
InTime == budget \in Nat /\ now > budget => \A p \in Proc : ~Uses(p)

\* A phase that is recorded is over: nothing it started runs, even if it timed
\* out and docker rm failed, because the command in the container gives up
\* before the wait for it does (limit against limit+30 in run_pilot.py).
RecordedIsOver == \A i \in DOMAIN phases : ~Uses(phases[i].by)

\* A phase is tried once.  A second process with its name, also one started
\* after the first was killed, never writes its log ("Preserve previous attempt")
\* or its container's ("Never overwrite pilot evidence"), so that what closing has
\* looked at stays.
EvidenceKept ==
  /\ \A n \in Phase : Cardinality(log[n]) <= 1
  /\ cpc \in {"ps", "write", "closed"} => Evidence

\* Every phase comes to its end, and so does its container.
PhasesEnd == \A p \in Proc : (pc[p] # "idle") ~> (pc[p] \in Over /\ p \notin live)
=============================================================================
