--------------------------- MODULE SerialCampaign ---------------------------
(***************************************************************************)
(* The serial campaign runner, run_multiday_campaign.py: day after day it  *)
(* replays the baseline, the policies and the controls in containers,      *)
(* compares them, and keeps its progress in state.json.  It may be killed  *)
(* at any step and is then started again; a container outlives it.         *)
(***************************************************************************)
EXTENDS Integers, Sequences, FiniteSets

CONSTANTS
  Key,          \* the replays
  Days,         \* the number of days
  Plan,         \* Plan[d]: the replays of day d in their order
  Policy,       \* replays of a policy, whose failure is noted and passed over
  Repeated,     \* Repeated[k]: for adaptive_balanced_repeat, what it repeats; else k
  MaxAttempts,  \* attempts_per_run
  Fallible,     \* replays that can fail
  Invalidated,  \* replays whose initial state can turn out invalid
  CanFail,      \* checks of frozen inputs and commands between replays can fail
  Between,      \* the process may be killed after a day is saved as complete
                \* and before its errors are
  MaxSessions   \* bound: how often the runner is started

Day == 1..Days
InPlan(d) == {Plan[d][i] : i \in DOMAIN Plan[d]}

ASSUME SerialAssumption ==
  /\ Days \in Nat \ {0} /\ Plan \in [Day -> Seq(Key)] /\ Repeated \in [Key -> Key]
  /\ Key = UNION {InPlan(d) : d \in Day}
  /\ \A d, e \in Day : d # e => InPlan(d) \cap InPlan(e) = {}
  /\ \A d \in Day : \A i \in DOMAIN Plan[d] :  \* a repetition comes after what it repeats
       Repeated[Plan[d][i]] # Plan[d][i] => \E j \in 1..(i - 1) : Plan[d][j] = Repeated[Plan[d][i]]
  /\ Policy \subseteq Key /\ Fallible \subseteq Key /\ Invalidated \subseteq Key
  /\ MaxAttempts \in Nat \ {0} /\ MaxSessions \in Nat \ {0}
  /\ CanFail \in BOOLEAN /\ Between \in BOOLEAN

VARIABLES
  pc,        \* where run and replay are
  day, at,   \* the day, and the place in its plan
  names,     \* the local variable names of run
  errors,    \* there is something in the local variable errors
  records,   \* state['runs']
  dates,     \* state['dates']
  saved,     \* state.json: [records, dates, status]
  live,      \* replays whose container runs
  output,    \* what a replay's directory holds: no full result, a good one, or
             \* one from an invalid initial state
  compared,  \* what the comparison of a day was made of
  sessions

memory == <<day, at, names, errors, records, dates>>
world == <<live, output, compared, sessions>>
vars == <<pc, memory, saved, world>>

NoRecord == [status |-> "none", attempts |-> 0]

Init ==
  /\ pc = "down" /\ day = 1 /\ at = 1 /\ names = {} /\ errors = FALSE
  /\ records = [k \in Key |-> NoRecord] /\ dates = [d \in Day |-> "none"]
  /\ saved = [records |-> records, dates |-> dates, status |-> "running"]
  /\ live = {} /\ output = [k \in Key |-> "none"]
  /\ compared = [d \in Day |-> {}] /\ sessions = 0

Goto(place) == pc' = place
Current == Plan[day][at]
MayFail(k) == k \in Fallible

\* update: what the process knows replaces the file
Update(r, d, status) ==
  records' = r /\ dates' = d /\ saved' = [records |-> r, dates |-> d, status |-> status]
SetRecord(k, status, n) == [records EXCEPT ![k] = [status |-> status, attempts |-> n]]
SetDate(status) == [dates EXCEPT ![day] = status]

\* the process ends, and its memory with it
Gone ==
  /\ Goto("down") /\ day' = 1 /\ at' = 1 /\ names' = {} /\ errors' = FALSE
  /\ records' = [k \in Key |-> NoRecord] /\ dates' = [d \in Day |-> "none"]

\* main: an exception nothing else catches
Blocked(r) ==
  /\ Gone /\ saved' = [records |-> r, dates |-> dates, status |-> "blocked"]

-----------------------------------------------------------------------------
(* The day *)

\* the constructor, which loads the file
Launch ==
  /\ pc = "down" /\ sessions < MaxSessions /\ sessions' = sessions + 1
  /\ Goto("prepare") /\ records' = saved.records /\ dates' = saved.dates
  /\ UNCHANGED <<day, at, names, errors, saved, live, output, compared>>

\* check_frozen and prepare
Prepare ==
  /\ pc = "prepare" /\ UNCHANGED world
  /\ \/ Goto("day") /\ Update(records, dates, "running") /\ UNCHANGED <<day, at, names, errors>>
     \/ CanFail /\ Blocked(records)

BeginDay ==
  /\ pc = "day" /\ day <= Days /\ UNCHANGED world
  /\ \/ /\ dates[day] = "complete" /\ day' = day + 1
        /\ UNCHANGED <<pc, at, names, errors, records, dates, saved>>
     \/ /\ dates[day] # "complete" /\ Goto("replay") /\ at' = 1 /\ names' = {} /\ errors' = FALSE
        /\ UNCHANGED <<day, records, dates, saved>>
     \/ CanFail /\ Blocked(records)

\* on to the next replay of the day; it was replayed, or it was not
Passed(k) == Goto("replay") /\ names' = names \cup {k} /\ at' = at + 1 /\ UNCHANGED <<day, errors>>

\* Mutant of Raised: the failed policy is compared too
RaisedNamed(k) ==
  IF k \in Policy
  THEN /\ Goto("replay") /\ errors' = TRUE /\ at' = at + 1 /\ names' = names \cup {k}
       /\ UNCHANGED <<day, records, dates, saved>>
  ELSE Goto("close") /\ dates' = SetDate("failed") /\ UNCHANGED <<day, at, names, errors, records, saved>>

\* an exception leaves replay or generate: a policy is noted, anything else ends
\* the day
Raised(k) ==
  IF k \in Policy
  THEN Goto("replay") /\ errors' = TRUE /\ at' = at + 1 /\ UNCHANGED <<day, names, records, dates, saved>>
  ELSE Goto("close") /\ dates' = SetDate("failed") /\ UNCHANGED <<day, at, names, errors, records, saved>>

\* replay up to its attempts: a complete replay is verified, a policy generated
Replay ==
  /\ pc = "replay" /\ at <= Len(Plan[day]) /\ UNCHANGED world
  /\ LET k == Current
         complete == records[k].status = "complete"
     IN \/ /\ Repeated[k] # k /\ Repeated[k] \notin names /\ at' = at + 1
           /\ UNCHANGED <<pc, day, names, errors, records, dates, saved>>
        \/ /\ Repeated[k] # k => Repeated[k] \in names
           /\ \/ complete /\ Passed(k) /\ UNCHANGED <<records, dates, saved>>
              \/ complete /\ k \in Invalidated /\ output[k] = "invalid" /\ Blocked(records)
              \/ ~complete /\ Goto("attempt") /\ UNCHANGED <<memory, saved>>
              \/ MayFail(k) /\ (complete \/ k \in Policy) /\ Raised(k)

-----------------------------------------------------------------------------
(* An attempt *)

AttemptsLeft(k) == records[k].attempts < MaxAttempts

\* Mutant of Counted: every session starts anew
CountedAnew(k) == 1

Counted(k) == records[k].attempts + 1

Attempt ==
  /\ pc = "attempt" /\ UNCHANGED world
  /\ LET k == Current IN
     \/ ~AttemptsLeft(k) /\ Raised(k)
     \/ /\ AttemptsLeft(k) /\ Goto("clear")
        /\ Update(SetRecord(k, "running", Counted(k)), dates, "running")
        /\ UNCHANGED <<day, at, names, errors>>

\* the container is removed, if Docker does; the failure is recorded
AttemptFails(k) ==
  /\ MayFail(k) /\ Goto("attempt") /\ live' \in {live, live \ {k}}
  /\ Update(SetRecord(k, "failed", records[k].attempts), dates, "running")
  /\ UNCHANGED <<day, at, names, errors, compared, sessions>>

\* A container of this name is removed, earlier output archived and the
\* scenario prepared; if one of them fails, so does the attempt.  An inspect
\* that fails is taken for a container that is not there.
Clear ==
  /\ pc = "clear"
  /\ LET k == Current IN
     \/ /\ Goto("start") /\ output' = [output EXCEPT ![k] = "none"]
        /\ live' = live \ {k} \/ (MayFail(k) /\ live' = live)
        /\ UNCHANGED <<memory, saved, compared, sessions>>
     \/ AttemptFails(k) /\ output' \in {output, [output EXCEPT ![k] = "none"]}

StartContainer ==
  /\ pc = "start" /\ Goto("wait") /\ live' = live \cup {Current}
  /\ UNCHANGED <<memory, saved, output, compared, sessions>>

ContainerEnds(k) ==
  /\ k \in live /\ live' = live \ {k}
  /\ \E o \in {"good"} \cup (IF MayFail(k) THEN {"none"} ELSE {}) \cup (IF k \in Invalidated THEN {"invalid"} ELSE {}) :
       output' = [output EXCEPT ![k] = o]
  /\ UNCHANGED <<pc, memory, saved, compared, sessions>>

\* docker run returns, or is given up after its timeout
Wait ==
  /\ pc = "wait" /\ UNCHANGED output
  /\ \/ Current \notin live /\ Goto("check") /\ UNCHANGED <<memory, saved, live, compared, sessions>>
     \/ AttemptFails(Current)

\* the analysis of the log, the strict completion and the carry-in
Check ==
  /\ pc = "check" /\ UNCHANGED output
  /\ LET k == Current
         n == records[k].attempts
     IN \/ /\ output[k] = "good" /\ Passed(k)
           /\ Update(SetRecord(k, "complete", n), dates, "running") /\ UNCHANGED <<live, compared, sessions>>
        \/ /\ output[k] = "invalid" /\ Blocked(SetRecord(k, "invalid", n))
           /\ UNCHANGED <<live, compared, sessions>>
        \/ AttemptFails(k)

-----------------------------------------------------------------------------
(* The end of a day and of the campaign *)

\* analyse saves the day as complete before run looks at errors
Analyse ==
  /\ pc = "replay" /\ at > Len(Plan[day])
  /\ \/ /\ Goto("analysed") /\ Update(records, SetDate("complete"), "running")
        /\ compared' = [compared EXCEPT ![day] = names]
        /\ UNCHANGED <<day, at, names, errors, live, output, sessions>>
     \/ /\ CanFail /\ Goto("close") /\ dates' = SetDate("failed")
        /\ UNCHANGED <<day, at, names, errors, records, saved, world>>

\* Mutant of DayStatus: what analyse found stays
DayStatusAnalysed == dates

DayStatus == IF errors THEN SetDate("incomplete") ELSE dates

Correct ==
  /\ pc = "analysed" /\ Goto("close") /\ dates' = DayStatus
  /\ UNCHANGED <<day, at, names, errors, records, saved, world>>

\* update and the summary
CloseDay ==
  /\ pc = "close" /\ UNCHANGED world
  /\ \/ /\ Goto("day") /\ day' = day + 1 /\ at' = 1 /\ names' = {} /\ errors' = FALSE
        /\ Update(records, dates, "running")
     \/ CanFail /\ Blocked(records)

\* Mutant of FinalStatus: a day that was not replayed whole is enough
FinalStatusNoFailure ==
  IF \A d \in Day : dates[d] # "failed" THEN "complete" ELSE "finished_with_failures"

FinalStatus ==
  IF \A d \in Day : dates[d] = "complete" THEN "complete" ELSE "finished_with_failures"

Finish ==
  /\ pc = "day" /\ day > Days /\ Goto("summary")
  /\ Update(records, dates, FinalStatus) /\ UNCHANGED <<day, at, names, errors, world>>

Summarise ==
  /\ pc = "summary" /\ UNCHANGED world
  /\ \/ Gone /\ UNCHANGED saved
     \/ CanFail /\ Blocked(records)

Runner ==
  \/ Prepare \/ BeginDay \/ Replay \/ Attempt \/ Clear \/ StartContainer \/ Wait \/ Check
  \/ Analyse \/ Correct \/ CloseDay \/ Finish \/ Summarise

\* the process is killed or interrupted
Crash ==
  /\ pc # "down" /\ sessions < MaxSessions
  /\ pc \in {"analysed", "close"} /\ errors => Between
  /\ Gone /\ UNCHANGED <<saved, world>>

Docker == \E k \in Key : ContainerEnds(k)

\* it is over, or not started again
Rest == pc = "down" /\ sessions = MaxSessions /\ live = {} /\ UNCHANGED vars

Next == Launch \/ Runner \/ Crash \/ Docker \/ Rest

\* the process goes on and a container ends (timeout -s KILL in simulator_command)
Fairness == WF_vars(Runner) /\ WF_vars(Docker)

Spec == Init /\ [][Next]_vars /\ Fairness

-----------------------------------------------------------------------------
(* Properties *)

Status == {"none", "running", "complete", "failed", "invalid"}
Record == [status : Status, attempts : 0..MaxAttempts]
DayRecord == {"none", "complete", "incomplete", "failed"}

TypeOK ==
  /\ pc \in {"down", "prepare", "day", "replay", "attempt", "clear", "start", "wait", "check",
             "analysed", "close", "summary"}
  /\ day \in 1..(Days + 1) /\ at \in Nat /\ names \subseteq Key /\ errors \in BOOLEAN
  /\ records \in [Key -> Record] /\ dates \in [Day -> DayRecord]
  /\ saved \in [records : [Key -> Record], dates : [Day -> DayRecord],
                status : {"running", "blocked", "complete", "finished_with_failures"}]
  /\ live \subseteq Key /\ output \in [Key -> {"none", "good", "invalid"}]
  /\ compared \in [Day -> SUBSET Key] /\ sessions \in 0..MaxSessions

Completed == {k \in Key : saved.records[k].status = "complete"}

\* What is compared is sound: the comparison of a day is made of replays recorded
\* as complete, whose artifacts are there, came from a valid initial state, and
\* have no container left that could change them, not even one that outlived a
\* killed process (CarryInValidationError: "not produce comparisons"); and no
\* session gives a replay more than its attempts (TypeOK).
ComparedSound ==
  /\ TypeOK
  /\ \A k \in Completed \cup UNION {compared[d] : d \in Day} :
       k \in Completed /\ output[k] = "good" /\ k \notin live

\* A day the file calls complete, and which no later session looks at again, has
\* every replay of its plan; between the two updates of run it may not have.
DayHonest ==
  \A d \in Day :
    saved.dates[d] = "complete" =>
      InPlan(d) \subseteq Completed \/ (pc \in {"analysed", "close"} /\ errors /\ d = day)

Promise == INSTANCE CampaignPromise
             WITH Replay <- Key, done <- Completed, complete <- saved.status = "complete"

\* state.json never loses a complete replay and calls the campaign complete only
\* with all of them, over crashes, failures and sessions (run, update).
KeepsPromise == Promise!Spec

\* Every session ends, however often attempts fail and whatever the last left.
SessionEnds == []<>(pc = "down")
=============================================================================
