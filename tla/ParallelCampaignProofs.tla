----------------------- MODULE ParallelCampaignProofs -----------------------
(***************************************************************************)
(* Proofs that the parallel campaign runner keeps its records, its file    *)
(* and the promise of CampaignPromise, and what Docker runs, for every     *)
(* task graph, set of contexts, number of slots and number of crashes.     *)
(***************************************************************************)
EXTENDS ParallelCampaign, FiniteSetTheorems, WellFoundedInduction, TLAPS

\* the places of a worker whose replay is recorded as running
Running == {"prepare", "start", "wait", "check", "adopt", "watch", "examine"}

\* no worker, no messages
IdleSound == \A k \in Key : k \notin active => wpc[k] = "none" /\ mail[k] = NoMail

\* the main thread will know what a worker knows, and it is complete only at the end
WorkerSound ==
  \A k \in active :
    /\ wpc[k] # "none" /\ context[k] \in Contexts /\ Drained[k] = mine[k]
    /\ wpc[k] \in Running => mine[k].status = "running"
    /\ wpc[k] = "result" <=> mine[k].status = "complete"
    /\ IsComplete(k) => wpc[k] = "result"

\* what a replay depends on was complete when it was started
DepsSound ==
  \A k \in Key : k \in active \/ records[k].status # "none" => \A d \in Deps[k] : IsComplete(d)

\* the process knows at least what the file says, and a day done is complete, but
\* for diagnostic replays
Remembers ==
  /\ pc = "down" => active = {} /\ inherited = {} /\ dates = {} /\ records = Blank
  /\ pc # "down" => \A k \in Key : saved.records[k].status = "complete" => IsComplete(k)
  /\ \A k \in Key \ Diagnostic : DateOf[k] \in dates => IsComplete(k)

\* past the guards, a control replay has passed, or is yet to be looked at
GuardsSound ==
  /\ pc \in {"finish", "summary"} => active = {}
  /\ pc \in {"analyse", "launch", "save", "finish", "summary"} /\ ~failed =>
       \A k \in Bridge : guard[k] = "passed" \/ k \in active \/ ~IsComplete(k)

\* without a worker, everything that could be launched is complete
NothingDue ==
  pc \in {"save", "finish"} /\ ~failed /\ active = {} => \A k \in Key : Ready(k) => IsComplete(k)

RecordInv ==
  /\ IdleSound /\ WorkerSound /\ DepsSound /\ Remembers /\ GuardsSound /\ NothingDue
  /\ RunningIsActive /\ FileConsistent /\ CompleteMeansAll

-----------------------------------------------------------------------------
\* what is known of a replay as running: where it runs
Place(r) == IF r.status = "running" THEN {r.context} ELSE {}

\* a record of a running replay names the context the replay is in
ContextSound ==
  /\ \A k \in Key : Place(saved.records[k]) \subseteq Contexts /\ Place(records[k]) \subseteq Contexts
  /\ \A k \in active : Place(mine[k]) \subseteq {context[k]}
  /\ inherited \cap active = {} /\ \A k \in inherited : records[k].status = "running"

\* a container that runs is recorded, in the file and by whoever will adopt it
LiveKnown ==
  \A k \in Key, c \in Contexts : <<k, c>> \in live =>
    /\ Place(saved.records[k]) = {c}
    /\ pc # "down" => Place(Drained[k]) = {c}
    /\ k \in active => wpc[k] \in {"begin", "wait", "adopt", "watch"}

\* a complete replay has its output
OutputGood ==
  \A k \in Key : saved.records[k].status = "complete" \/ Drained[k].status = "complete"  => output[k] = "good"

Held(c) ==
  {k \in Key : (k \in active /\ context[k] = c) \/ (k \in inherited /\ records[k].context = c)}
Filed(c) == {k \in Key : Place(saved.records[k]) = {c}}

\* what is active or to be adopted fits into the slots, and so did what the file knows
Fits == \A c \in Contexts : Cardinality(Held(c)) <= Slots[c] /\ Cardinality(Filed(c)) <= Slots[c]

DockerInv == ContextSound /\ LiveKnown /\ OutputGood /\ Fits

-----------------------------------------------------------------------------
(* Types *)

LEMMA Constants ==
  /\ MaxAttempts \in Nat \ {0} /\ MaxCrashes \in Nat
  /\ Backends \in Seq(Contexts) /\ NoContext \notin Contexts
  /\ Bridge \subseteq Key /\ Fallible \subseteq Key /\ Diagnostic \subseteq Key
  /\ Backends # << >>
  BY CampaignAssumption

LEMMA Tables ==
  /\ Deps \in [Key -> SUBSET Key] /\ DateOf \in [Key -> Date]
  /\ Slots \in [Contexts -> Nat \ {0}] /\ TaskContext \in [Key -> Contexts \union {NoContext}]
  /\ \A k \in Diagnostic : Deps[k] \cap Diagnostic = {}
  BY CampaignAssumption

LEMMA RecordTypes ==
  /\ NoRecord \in Record /\ Blank \in [Key -> Record] /\ NoMail \notin Record
  /\ NoRecord.status = "none" /\ Emptied \in [Key -> Record \union {NoMail}]
  BY Constants DEF NoRecord, NoMail, Record, Blank, Emptied

\* the queue emptied, every record is still a record
LEMMA DrainedType ==
  ASSUME TypeOK
  PROVE  /\ Drained \in [Key -> Record]
         /\ \A k \in Key : Drained[k] = IF mail[k] = NoMail THEN records[k] ELSE mail[k]
  BY DEF TypeOK, Drained

\* a set of numbers that is not empty has a least one
LEMMA LeastNatural ==
  ASSUME NEW S \in SUBSET Nat, S # {}
  PROVE  \E m \in S : \A n \in S : m <= n
<1> DEFINE R == OpToRel(<, Nat)
<1>1. IsWellFoundedOn(R, Nat)
  BY NatLessThanWellFounded
<1>2. \A m, n \in S : <<n, m>> \in R <=> n < m
  BY DEF OpToRel
<1> HIDE DEF R
<1>3. PICK m \in S : \A n \in S : ~(<<n, m>> \in R)
  BY <1>1, WFMin
<1>4. \A n \in S : ~(n < m)
  BY <1>2, <1>3
<1> QED BY <1>4

\* choose_backend chooses a context with room that suits the replay
LEMMA ChoiceType ==
  ASSUME NEW k \in Key, Choices(k) # {}
  PROVE  /\ ChooseBackend(k) \in Contexts /\ HasRoom(ChooseBackend(k))
         /\ Preferred(k) \in {NoContext, ChooseBackend(k)}
<1>1. DOMAIN Backends = 1..Len(Backends) /\ Len(Backends) \in Nat
  BY Constants
<1>2. Choices(k) \in SUBSET Nat
  BY <1>1 DEF Choices
<1>3. \E m \in Choices(k) : \A n \in Choices(k) : m <= n
  BY <1>2, LeastNatural
<1> DEFINE i == CHOOSE i \in Choices(k) : \A n \in Choices(k) : i <= n
<1>4. i \in Choices(k)
  BY <1>3
<1>5. ChooseBackend(k) = Backends[i]
  BY DEF ChooseBackend
<1> QED BY <1>4, <1>5 DEF Choices, Contexts

\* without a worker, every context has room, so that there is a choice
LEMMA AlwaysAChoice ==
  ASSUME TypeOK, active = {}, NEW k \in Key
  PROVE  Choices(k) # {}
<1>1. \A c \in Contexts : HasRoom(c)
  <2> SUFFICES ASSUME NEW c \in Contexts PROVE Cardinality({n \in active : context[n] = c}) < Slots[c]
    BY DEF HasRoom
  <2>1. {n \in active : context[n] = c} = {}
    OBVIOUS
  <2>2. Cardinality({}) = 0 /\ Slots[c] \in Nat \ {0}
    BY FS_EmptySet, Tables
  <2> QED BY <2>1, <2>2
<1>2. 1 \in DOMAIN Backends /\ Backends[1] \in Contexts
  <2>1. Backends \in Seq(Contexts) /\ Backends # << >>
    BY Constants
  <2> QED BY <2>1
<1>3. Preferred(k) \in Contexts \union {NoContext}
  <2>1. records[k].context \in Contexts \union {NoContext} /\ TaskContext[k] \in Contexts \union {NoContext}
    BY Tables DEF TypeOK, Record
  <2> QED BY <1>2, <2>1 DEF Preferred
<1>4. CASE Preferred(k) = NoContext
  <2>1. 1 \in Choices(k)
    BY <1>1, <1>2, <1>4 DEF Choices
  <2> QED BY <2>1
<1>5. CASE Preferred(k) \in Contexts
  <2>1. PICK i \in DOMAIN Backends : Backends[i] = Preferred(k)
    BY <1>5 DEF Contexts
  <2>2. i \in Choices(k)
    BY <1>1, <1>5, <2>1 DEF Choices
  <2> QED BY <2>2
<1> QED BY <1>3, <1>4, <1>5

LEMMA InitType == Init => TypeOK
<1> SUFFICES ASSUME Init PROVE TypeOK
  OBVIOUS
<1>1. records \in [Key -> Record] /\ mine \in [Key -> Record] /\ mail \in [Key -> Record \union {NoMail}]
  BY RecordTypes DEF Init
<1>2. failed \in BOOLEAN
  BY Zenon DEF Init
<1> QED BY <1>1, <1>2, Constants DEF Init, TypeOK

LEMMA StopType ==
  ASSUME TypeOK, Stop
  PROVE  /\ pc' = "down" /\ failed' \in BOOLEAN /\ dates' \subseteq Date
         /\ records' \in [Key -> Record] /\ mine' \in [Key -> Record] /\ mail' \in [Key -> Record \union {NoMail}]
         /\ context' \in [Key -> Contexts \union {NoContext}]
         /\ wpc' \in [Key -> {"none"}] /\ inherited' \subseteq Key /\ active' \subseteq Key
<1>1. failed' \in BOOLEAN
  BY Zenon DEF Stop
<1> QED BY <1>1, RecordTypes DEF Stop

\* what the file becomes
LEMMA WriteType ==
  ASSUME TypeOK, NEW d \in SUBSET Date, NEW status \in {"running", "blocked", "complete"}, Write(d, status)
  PROVE  /\ saved' \in [records : [Key -> Record], dates : SUBSET Date, status : {"running", "blocked", "complete"}]
         /\ saved'.records = Drained /\ saved'.dates = d /\ saved'.status = status
  BY DrainedType DEF Write

LEMMA UpdateType ==
  ASSUME TypeOK, NEW d \in SUBSET Date, NEW status \in {"running", "blocked", "complete"}, Update(d, status)
  PROVE  /\ records' \in [Key -> Record] /\ mail' \in [Key -> Record \union {NoMail}]
         /\ saved' \in [records : [Key -> Record], dates : SUBSET Date, status : {"running", "blocked", "complete"}]
         /\ records' = Drained /\ mail' = Emptied
         /\ saved'.records = Drained /\ saved'.dates = d /\ saved'.status = status
  BY DrainedType, RecordTypes, WriteType DEF Update

LEMMA ReportType ==
  ASSUME TypeOK, NEW k \in Key, NEW s \in {"running", "failed", "complete", "invalid"}, NEW n \in 0..MaxAttempts,
         Report(k, s, n)
  PROVE  /\ mine' \in [Key -> Record] /\ mail' \in [Key -> Record \union {NoMail}]
         /\ mine'[k] = [status |-> s, attempts |-> n, context |-> context[k]] /\ mail'[k] = mine'[k]
         /\ \A j \in Key : j # k => mine'[j] = mine[j] /\ mail'[j] = mail[j]
  BY DEF TypeOK, Report, Record

LEMMA GotoType ==
  ASSUME TypeOK, NEW k \in Key, NEW from,
         NEW to \in {"attempt", "prepare", "start", "wait", "check", "adopt", "watch", "examine", "result", "raise"},
         Goto(k, from, to)
  PROVE  /\ wpc' \in [Key -> {"none", "begin", "attempt", "prepare", "start", "wait", "check",
                              "adopt", "watch", "examine", "result", "raise"}]
         /\ k \in active /\ wpc[k] = from /\ wpc'[k] = to
         /\ \A j \in Key : j # k => wpc'[j] = wpc[j]
  BY DEF TypeOK, Goto

\* steps of the main thread that update the file
LEMMA UpdatesType ==
  ASSUME TypeOK, Poll \/ Save \/ Finish \/ \E d \in Date : Analyse(d)
  PROVE  TypeOK'
<1>1. CASE Poll \/ Save
  <2>1. Update(dates, "running") /\ dates' = dates /\ failed' = failed
    BY <1>1 DEF Poll, Save
  <2>2. dates \in SUBSET Date
    BY DEF TypeOK
  <2> QED BY <1>1, <2>1, <2>2, UpdateType DEF Poll, Save, TypeOK
<1>2. CASE Finish
  <2>1. Update(dates, FinalStatus) /\ FinalStatus \in {"running", "blocked", "complete"} /\ dates \in SUBSET Date
    BY <1>2 DEF Finish, FinalStatus, TypeOK
  <2> QED BY <1>2, <2>1, UpdateType DEF Finish, TypeOK
<1>3. CASE \E d \in Date : Analyse(d)
  <2>1. PICK d \in Date : Analyse(d)
    BY <1>3
  <2>2. Update(dates \union {d}, "running") /\ dates \union {d} \in SUBSET Date /\ dates' = dates \union {d}
    BY <2>1 DEF Analyse, TypeOK
  <2> QED BY <2>1, <2>2, UpdateType DEF Analyse, TypeOK
<1> QED BY <1>1, <1>2, <1>3

LEMMA StopsType ==
  ASSUME TypeOK, PoolClosed \/ Summarise \/ Crash
  PROVE  TypeOK'
<1>1. /\ Stop /\ guard' = guard /\ live' = live /\ output' = output
      /\ crashes' \in 0..MaxCrashes
  BY Constants DEF PoolClosed, Summarise, Crash, TypeOK
<1>2. saved' \in [records : [Key -> Record], dates : SUBSET Date, status : {"running", "blocked", "complete"}]
  <2>1. CASE PoolClosed
    <3>1. dates \in SUBSET Date /\ Write(dates, "blocked")
      BY <2>1 DEF PoolClosed, TypeOK
    <3> QED BY <3>1, WriteType
  <2>2. CASE Summarise \/ Crash
    BY <2>2 DEF Summarise, Crash, TypeOK
  <2> QED BY <2>1, <2>2
<1> QED BY <1>1, <1>2, StopType DEF TypeOK

LEMMA MarkedType ==
  ASSUME NEW r \in Record
  PROVE  MarkedFailed(r) \in Record /\ MarkedFailed(r).status = "failed"
  BY DEF MarkedFailed, Record

LEMMA CollectType ==
  ASSUME TypeOK, NEW k \in Key, Collect(k)
  PROVE  TypeOK'
<1>1. Drained \in [Key -> Record] /\ mine[k] \in Record /\ MarkedFailed(Drained[k]) \in Record
  BY DrainedType, MarkedType DEF TypeOK
<1>2. records' \in [Key -> Record] /\ mail' \in [Key -> Record \union {NoMail}]
  BY <1>1, RecordTypes DEF Collect, Collected
<1>3. mine' \in [Key -> Record]
  BY RecordTypes DEF Collect, TypeOK
<1>4. failed' \in BOOLEAN
  BY Zenon DEF Collect, TypeOK
<1> QED BY <1>2, <1>3, <1>4 DEF Collect, TypeOK, world

LEMMA LaunchType ==
  ASSUME TypeOK, NEW k \in Key, Launch(k)
  PROVE  TypeOK'
<1>1. ChooseBackend(k) \in Contexts
  BY ChoiceType DEF Launch, Eligible
<1> QED BY <1>1 DEF Launch, TypeOK, world

\* the other steps of the main thread, of Docker and of the operator
LEMMA OthersType ==
  ASSUME TypeOK,
         \/ Drain \/ CollectDone \/ GuardsDone \/ AnalysesDone \/ CommandFails \/ LaunchDone \/ Restart
         \/ (\E k \in Key : BridgeCheck(k)) \/ (\E k \in Key, c \in Contexts : ContainerEnds(k, c))
  PROVE  TypeOK'
<1>1. CASE Drain
  BY <1>1, DrainedType, RecordTypes DEF Drain, TypeOK, world
<1>2. CASE CollectDone \/ AnalysesDone \/ CommandFails \/ LaunchDone
  BY <1>2 DEF CollectDone, AnalysesDone, CommandFails, LaunchDone, TypeOK, workers, world
<1>3. CASE GuardsDone
  <2>1. failed' \in BOOLEAN
    BY <1>3, Zenon DEF GuardsDone, TypeOK
  <2> QED BY <1>3, <2>1 DEF GuardsDone, TypeOK, workers, world
<1>4. CASE Restart
  <2>1. failed' \in BOOLEAN
    BY <1>4, Zenon DEF Restart
  <2> QED BY <1>4, <2>1 DEF Restart, TypeOK, workers, world
<1>5. CASE \E k \in Key : BridgeCheck(k)
  BY <1>5 DEF BridgeCheck, GuardDue, TypeOK, main, workers
<1>6. CASE \E k \in Key, c \in Contexts : ContainerEnds(k, c)
  BY <1>6 DEF ContainerEnds, TypeOK, main, workers
<1> QED BY <1>1, <1>2, <1>3, <1>4, <1>5, <1>6

LEMMA AttemptFailsType ==
  ASSUME TypeOK, NEW k \in Key, NEW from, AttemptFails(k, from),
         UNCHANGED <<main, saved, guard, crashes>>,
         output' \in {output, [output EXCEPT ![k] = "none"]}
  PROVE  TypeOK'
<1>1. mine[k].attempts \in 0..MaxAttempts
  BY DEF TypeOK, Record
<1>2. live' \subseteq Key \X Contexts
  BY DEF AttemptFails, Removal, Cleared, TypeOK
<1>3. output' \in [Key -> {"none", "good", "invalid"}]
  BY DEF TypeOK
<1>4. Goto(k, from, "attempt") /\ Report(k, "failed", mine[k].attempts)
  BY DEF AttemptFails
<1>5. wpc' \in [Key -> {"none", "begin", "attempt", "prepare", "start", "wait", "check",
                         "adopt", "watch", "examine", "result", "raise"}]
  BY <1>4, GotoType
<1>6. mine' \in [Key -> Record] /\ mail' \in [Key -> Record \union {NoMail}]
  BY <1>1, <1>4, ReportType
<1> QED BY <1>2, <1>3, <1>5, <1>6 DEF main, TypeOK

LEMMA WorkerType ==
  ASSUME TypeOK, NEW k \in Key, Worker(k), k \in active => context[k] \in Contexts
  PROVE  TypeOK'
<1>1. mine[k] \in Record /\ mine[k].attempts \in 0..MaxAttempts
  BY DEF TypeOK, Record
<1>2. CASE Begin(k)
  BY <1>2, GotoType DEF Begin, Silent, main, world, TypeOK
<1>3. CASE Attempt(k)
  <2>1. AttemptsLeft(k) => mine[k].attempts + 1 \in 0..MaxAttempts
    BY <1>1, Constants DEF AttemptsLeft
  <2>2. wpc' \in [Key -> {"none", "begin", "attempt", "prepare", "start", "wait", "check",
                            "adopt", "watch", "examine", "result", "raise"}]
    BY <1>3, GotoType DEF Attempt
  <2>3. CASE Silent
    BY <1>3, <2>2, <2>3 DEF Attempt, Silent, main, world, TypeOK
  <2>4. CASE AttemptsLeft(k) /\ Report(k, "running", mine[k].attempts + 1)
    <3>1. mine' \in [Key -> Record] /\ mail' \in [Key -> Record \union {NoMail}]
      BY <2>1, <2>4, ReportType
    <3> QED BY <1>3, <2>2, <3>1 DEF Attempt, main, world, TypeOK
  <2> QED BY <1>3, <2>3, <2>4 DEF Attempt
<1>4. CASE Prepare(k)
  <2>1. CASE AttemptFails(k, "prepare")
    BY <1>4, <2>1, AttemptFailsType DEF Prepare
  <2>2. CASE ~AttemptFails(k, "prepare")
    <3>1. live' \subseteq Key \X Contexts
      BY <1>4, <2>2 DEF Prepare, Removal, Cleared, TypeOK
    <3> QED BY <1>4, <2>2, <3>1, GotoType DEF Prepare, Silent, main, TypeOK
  <2> QED BY <2>1, <2>2
<1>5. CASE StartContainer(k)
  <2>1. k \in active /\ Container(k) \in Key \X Contexts
    BY <1>5 DEF StartContainer, Goto, Container
  <2> QED BY <1>5, <2>1, GotoType DEF StartContainer, Silent, main, TypeOK
<1>6. CASE Wait(k)
  BY <1>6, GotoType, AttemptFailsType DEF Wait, Silent, main, TypeOK
<1>7. CASE Check(k)
  <2>1. CASE AttemptFails(k, "check")
    BY <1>7, <2>1, AttemptFailsType DEF Check
  <2>2. CASE ~AttemptFails(k, "check")
    <3>1. wpc' \in [Key -> {"none", "begin", "attempt", "prepare", "start", "wait", "check",
                              "adopt", "watch", "examine", "result", "raise"}]
      BY <1>7, <2>2, GotoType DEF Check
    <3>2. mine' \in [Key -> Record] /\ mail' \in [Key -> Record \union {NoMail}]
      BY <1>1, <1>7, <2>2, ReportType DEF Check
    <3> QED BY <1>7, <2>2, <3>1, <3>2 DEF Check, main, TypeOK
  <2> QED BY <2>1, <2>2
<1>8. CASE Adopt(k)
  <2>1. wpc' \in [Key -> {"none", "begin", "attempt", "prepare", "start", "wait", "check",
                            "adopt", "watch", "examine", "result", "raise"}]
    BY <1>8, GotoType DEF Adopt
  <2>2. mine' \in [Key -> Record] /\ mail' \in [Key -> Record \union {NoMail}]
    BY <1>1, <1>8, ReportType DEF Adopt, Silent, TypeOK
  <2> QED BY <1>8, <2>1, <2>2 DEF Adopt, main, world, TypeOK
<1>9. CASE AdoptRaises(k)
  BY <1>9, GotoType DEF AdoptRaises, Silent, main, world, TypeOK
<1>10. CASE Watch(k)
  <2>1. live' \subseteq Key \X Contexts
    BY <1>10 DEF Watch, Removal, Cleared, TypeOK
  <2> QED BY <1>10, <2>1, GotoType DEF Watch, Silent, main, TypeOK
<1>11. CASE Examine(k)
  <2>1. wpc' \in [Key -> {"none", "begin", "attempt", "prepare", "start", "wait", "check",
                            "adopt", "watch", "examine", "result", "raise"}]
    BY <1>11, GotoType DEF Examine
  <2>2. mine' \in [Key -> Record] /\ mail' \in [Key -> Record \union {NoMail}]
    BY <1>1, <1>11, ReportType DEF Examine, Silent, TypeOK
  <2> QED BY <1>11, <2>1, <2>2 DEF Examine, main, world, TypeOK
<1> QED BY <1>2, <1>3, <1>4, <1>5, <1>6, <1>7, <1>8, <1>9, <1>10, <1>11 DEF Worker

-----------------------------------------------------------------------------
(* Every step keeps the records and the file consistent *)

\* the queue holds nothing about a replay without a worker, and loses no completion
LEMMA DrainedKnown ==
  ASSUME RecordInv
  PROVE  /\ Drained \in [Key -> Record]
         /\ \A k \in Key : k \notin active => Drained[k] = records[k]
         /\ \A k \in active : Drained[k] = mine[k]
         /\ \A k \in Key : IsComplete(k) => Drained[k].status = "complete"
  BY DrainedType DEF RecordInv, FileConsistent, IdleSound, WorkerSound, IsComplete, TypeOK

\* taking over what is queued
LEMMA TakesOver ==
  ASSUME RecordInv, records' = Drained, mail' = Emptied,
         UNCHANGED <<inherited, active, context, wpc, mine>>
  PROVE  /\ IdleSound' /\ WorkerSound' /\ DepsSound' /\ Drained' = Drained
         /\ \A k \in Key : records'[k].status = "running" => k \in active \union inherited
         /\ \A k \in Key : IsComplete(k) => IsComplete(k)'
         /\ \A k \in Key : k \notin active => records'[k] = records[k]
<1>1. Drained' = Drained
  BY DrainedKnown DEF Drained, Emptied
<1>2. IdleSound'
  BY DEF RecordInv, IdleSound, Emptied
<1>3. \A k \in Key : k \notin active => records'[k] = records[k]
  BY DrainedKnown
<1>4. \A k \in Key : IsComplete(k) => IsComplete(k)'
  BY DrainedKnown DEF IsComplete
<1>5. WorkerSound'
  BY <1>1, DrainedKnown DEF RecordInv, WorkerSound, IsComplete, FileConsistent, TypeOK
<1>6. DepsSound'
  BY <1>3, <1>4, Tables DEF RecordInv, DepsSound
<1>7. \A k \in Key : records'[k].status = "running" => k \in active \union inherited
  <2>1. pc = "down" => \A k \in Key : records'[k].status = "none"
    BY <1>3, RecordTypes DEF RecordInv, Remembers, Blank
  <2> QED BY <1>3, <2>1 DEF RecordInv, RunningIsActive
<1> QED BY <1>1, <1>2, <1>3, <1>4, <1>5, <1>6, <1>7

\* what the file says once it is written
LEMMA Writes ==
  ASSUME RecordInv, pc # "down", TypeOK', saved'.records = Drained, saved'.dates \subseteq Date,
         \A k \in Key \ Diagnostic : DateOf[k] \in saved'.dates => IsComplete(k)
  PROVE  /\ FileConsistent'
         /\ \A k \in Key : saved.records[k].status = "complete" => saved'.records[k].status = "complete"
<1>1. \A k \in Key : Drained[k].status # "none" => k \in active \/ records[k].status # "none"
  BY DrainedKnown
<1>2. \A k \in Key : saved'.records[k].status # "none" =>
        \A d \in Deps[k] : saved'.records[d].status = "complete"
  BY <1>1, DrainedKnown, Tables DEF RecordInv, DepsSound
<1> QED BY <1>2, DrainedKnown DEF RecordInv, FileConsistent, Remembers

LEMMA InitRecords == Init => RecordInv
<1> SUFFICES ASSUME Init PROVE RecordInv
  OBVIOUS
<1>1. TypeOK
  BY InitType
<1>2. records = Blank /\ active = {} /\ \A k \in Key : records[k].status = "none" /\ saved.records[k].status = "none"
  BY RecordTypes DEF Init, Blank
<1>3. IdleSound /\ WorkerSound /\ DepsSound
  BY <1>2 DEF Init, IdleSound, WorkerSound, DepsSound
<1>4. Remembers /\ GuardsSound /\ NothingDue /\ RunningIsActive /\ FileConsistent /\ CompleteMeansAll
  BY <1>1, <1>2 DEF Init, Remembers, GuardsSound, NothingDue, RunningIsActive, FileConsistent, CompleteMeansAll
<1> QED BY <1>3, <1>4 DEF RecordInv

LEMMA DrainRecords ==
  ASSUME RecordInv, Drain
  PROVE  RecordInv'
<1>1. TypeOK'
  BY OthersType DEF RecordInv, FileConsistent
<1>2. /\ IdleSound' /\ WorkerSound' /\ DepsSound'
      /\ \A k \in Key : records'[k].status = "running" => k \in active \union inherited
      /\ \A k \in Key : IsComplete(k) => IsComplete(k)'
  BY TakesOver DEF Drain
<1> QED BY <1>1, <1>2 DEF Drain, world, RecordInv, Remembers, GuardsSound, NothingDue, RunningIsActive, FileConsistent, CompleteMeansAll

LEMMA UpdatesRecords ==
  ASSUME RecordInv, Poll \/ Save \/ \E d \in Date : Analyse(d)
  PROVE  RecordInv'
<1>1. TypeOK' /\ dates \in SUBSET Date
  BY UpdatesType DEF RecordInv, FileConsistent, TypeOK
<1>2. /\ pc # "down" /\ pc' # "down" /\ Update(dates', "running") /\ dates' \in SUBSET Date
      /\ UNCHANGED <<failed, inherited, active, context, wpc, mine, guard>>
      /\ pc' = pc \/ (pc = "analyse" /\ pc' = "closing") \/ (pc = "save" /\ pc' \in {"finish", "drain"})
      /\ pc' = "finish" => active = {} /\ pc = "save"
      /\ pc # "finish" /\ pc' # "save"
  BY <1>1 DEF Poll, Save, Analyse, AnalysisDue, GuardDue, TypeOK, LoopOver
<1>3. /\ records' = Drained /\ mail' = Emptied /\ saved'.records = Drained /\ saved'.dates = dates'
      /\ saved'.status = "running"
  BY <1>1, <1>2, UpdateType DEF RecordInv, FileConsistent
<1>4. \A k \in Key \ Diagnostic : DateOf[k] \in dates' => IsComplete(k)
  BY DEF Poll, Save, Analyse, AnalysisDue, RecordInv, Remembers
<1>5. /\ IdleSound' /\ WorkerSound' /\ DepsSound'
      /\ \A k \in Key : records'[k].status = "running" => k \in active \union inherited
      /\ \A k \in Key : IsComplete(k) => IsComplete(k)'
      /\ \A k \in Key : k \notin active => records'[k] = records[k]
  BY <1>2, <1>3, TakesOver
<1>6. FileConsistent'
  BY <1>1, <1>2, <1>3, <1>4, Writes
<1>7. Remembers'
  BY <1>2, <1>3, <1>4, <1>5 DEF RecordInv, Remembers, IsComplete
<1>8. GuardsSound'
  BY <1>2, <1>5, Constants DEF RecordInv, GuardsSound, IsComplete
<1>9. NothingDue'
  <2>1. CASE pc' = "finish"
    <3>1. active = {} /\ pc = "save" /\ \A k \in Key : records'[k] = records[k]
      BY <1>2, <1>5, <2>1
    <3>2. \A k \in Key : (Ready(k)' <=> Ready(k)) /\ (IsComplete(k)' <=> IsComplete(k))
      BY <3>1, Tables DEF Ready, IsComplete
    <3> QED BY <1>2, <3>1, <3>2 DEF RecordInv, NothingDue
  <2>2. CASE pc' # "finish"
    BY <1>2, <2>2 DEF NothingDue
  <2> QED BY <2>1, <2>2
<1> QED BY <1>2, <1>3, <1>5, <1>6, <1>7, <1>8, <1>9 DEF RecordInv, RunningIsActive, CompleteMeansAll

\* the campaign is called complete only with all its days and without a failed guard
LEMMA FinishRecords ==
  ASSUME RecordInv, Finish
  PROVE  RecordInv'
<1>1. TypeOK' /\ dates \in SUBSET Date
  BY UpdatesType DEF RecordInv, FileConsistent, TypeOK
<1>2. FinalStatus \in {"running", "blocked", "complete"}
  BY DEF FinalStatus
<1>3. /\ records' = Drained /\ mail' = Emptied /\ saved'.records = Drained /\ saved'.dates = dates
      /\ saved'.status = FinalStatus
  BY <1>1, <1>2, UpdateType DEF Finish, RecordInv, FileConsistent
<1>4. active = {} /\ \A k \in Key \ Diagnostic : DateOf[k] \in dates => IsComplete(k)
  BY DEF Finish, RecordInv, Remembers, GuardsSound
<1>5. /\ IdleSound' /\ WorkerSound' /\ DepsSound'
      /\ \A k \in Key : records'[k].status = "running" => k \in active \union inherited
      /\ \A k \in Key : records'[k] = records[k]
  BY <1>3, <1>4, TakesOver DEF Finish
<1>6. FileConsistent'
  BY <1>1, <1>3, <1>4, Writes DEF Finish
<1>7. Remembers' /\ GuardsSound' /\ NothingDue'
  BY <1>3, <1>4, <1>5, Constants DEF Finish, RecordInv, Remembers, GuardsSound, NothingDue, IsComplete
<1>8. CompleteMeansAll'
  <2>1. SUFFICES ASSUME dates = Date, ~failed
                 PROVE  \A k \in Key : IsComplete(k) /\ (k \in Bridge => guard[k] = "passed")
    BY <1>3, <1>5, Constants DEF CompleteMeansAll, FinalStatus, Finish, IsComplete
  <2>2. \A k \in Key \ Diagnostic : IsComplete(k)
    BY <1>4, <2>1, Tables
  <2>3. \A k \in Diagnostic : k \in Key /\ Ready(k)
    <3> SUFFICES ASSUME NEW k \in Diagnostic PROVE k \in Key /\ \A d \in Deps[k] : IsComplete(d)
      BY DEF Ready
    <3>1. k \in Key /\ Deps[k] \subseteq Key \ Diagnostic
      BY Constants, Tables
    <3> QED BY <2>2, <3>1
  <2>4. \A k \in Key : IsComplete(k)
    BY <1>4, <2>1, <2>2, <2>3 DEF Finish, RecordInv, NothingDue
  <2> QED BY <1>4, <2>1, <2>4, Constants DEF Finish, RecordInv, GuardsSound
<1> QED BY <1>5, <1>6, <1>7, <1>8 DEF Finish, RecordInv, RunningIsActive

\* the process ends: the file is what is left
LEMMA StopsRecords ==
  ASSUME RecordInv, PoolClosed \/ Summarise \/ Crash
  PROVE  RecordInv'
<1>1. TypeOK' /\ Stop /\ guard' = guard /\ pc # "down"
  BY StopsType DEF RecordInv, FileConsistent, PoolClosed, Summarise, Crash
<1>2. /\ IdleSound' /\ WorkerSound' /\ DepsSound' /\ Remembers' /\ GuardsSound' /\ NothingDue'
      /\ RunningIsActive'
  BY <1>1, RecordTypes DEF Stop, IdleSound, WorkerSound, DepsSound, Remembers, GuardsSound, NothingDue,
                           RunningIsActive, Blank, Emptied
<1>3. FileConsistent' /\ CompleteMeansAll'
  <2>1. CASE PoolClosed
    <3>1. saved'.records = Drained /\ saved'.dates = dates /\ saved'.status = "blocked" /\ dates \in SUBSET Date
      BY <2>1, WriteType DEF PoolClosed, RecordInv, FileConsistent, TypeOK
    <3>2. FileConsistent'
      BY <1>1, <3>1, Writes DEF RecordInv, Remembers
    <3> QED BY <3>1, <3>2 DEF CompleteMeansAll
  <2>2. CASE Summarise \/ Crash
    <3>1. /\ saved'.records = saved.records /\ saved'.dates = saved.dates
          /\ saved'.status = saved.status \/ saved'.status = "blocked"
      BY <2>2 DEF Summarise, Crash, RecordInv, FileConsistent, TypeOK
    <3> QED BY <1>1, <3>1 DEF RecordInv, FileConsistent, CompleteMeansAll
  <2> QED BY <2>1, <2>2 DEF PoolClosed, Summarise, Crash
<1> QED BY <1>2, <1>3 DEF RecordInv

\* the result of a worker, or the record it failed with, is what it knew last
LEMMA CollectRecords ==
  ASSUME RecordInv, NEW k \in Key, Collect(k)
  PROVE  RecordInv'
<1>1. TypeOK'
  BY CollectType DEF RecordInv, FileConsistent
<1>2. /\ k \in active /\ wpc[k] \in {"result", "raise"} /\ active' = active \ {k} /\ mail' = Emptied
      /\ records' = [Drained EXCEPT ![k] = IF wpc[k] = "result" THEN mine[k] ELSE MarkedFailed(@)]
      /\ UNCHANGED <<pc, dates, inherited, saved, guard>>
  BY DEF Collect, Collected, world
<1>3. /\ \A j \in Key : j # k => records'[j] = Drained[j]
      /\ records'[k].status = IF wpc[k] = "result" THEN "complete" ELSE "failed"
  <2>1. mine[k].status = "complete" <=> wpc[k] = "result"
    BY <1>2 DEF RecordInv, WorkerSound
  <2>2. MarkedFailed(Drained[k]).status = "failed"
    BY MarkedType, DrainedKnown
  <2> QED BY <1>2, <2>1, <2>2, DrainedKnown
<1>4. \A j \in Key : IsComplete(j) => IsComplete(j)'
  BY <1>2, <1>3, DrainedKnown DEF RecordInv, WorkerSound, IsComplete
<1>5. IdleSound'
  BY <1>2 DEF Collect, RecordInv, IdleSound, Emptied, FileConsistent, TypeOK
<1>6. \A j \in active' : /\ j \in Key /\ wpc'[j] = wpc[j] /\ mine'[j] = mine[j] /\ context'[j] = context[j]
                         /\ Drained'[j] = records'[j] /\ records'[j] = mine[j]
  BY <1>2, <1>3, DrainedKnown DEF Collect, Drained, Emptied, RecordInv, FileConsistent, TypeOK
<1>7. WorkerSound'
  BY <1>2, <1>6 DEF RecordInv, WorkerSound, IsComplete
<1>8. DepsSound'
  <2>1. ASSUME NEW j \in Key, j \in active' \/ records'[j].status # "none"
        PROVE  \A d \in Deps[j] : IsComplete(d)
    BY <1>2, <1>3, <2>1, DrainedKnown DEF RecordInv, DepsSound
  <2> QED BY <1>4, <2>1, Tables DEF DepsSound
<1>9. pc = "collect"
  BY DEF Collect
<1>10. RunningIsActive'
  BY <1>2, <1>3, <1>9, DrainedKnown DEF RecordInv, RunningIsActive
<1>11. Remembers' /\ GuardsSound' /\ NothingDue' /\ FileConsistent' /\ CompleteMeansAll'
  BY <1>1, <1>2, <1>4, <1>9 DEF RecordInv, Remembers, GuardsSound, NothingDue, FileConsistent, CompleteMeansAll
<1> QED BY <1>5, <1>7, <1>8, <1>10, <1>11 DEF RecordInv

\* a control replay is measured once it is complete
LEMMA GuardRecords ==
  ASSUME RecordInv, GuardsDone \/ \E k \in Key : BridgeCheck(k)
  PROVE  RecordInv'
<1>1. TypeOK'
  BY OthersType DEF RecordInv, FileConsistent
<1>2. /\ UNCHANGED <<records, dates, inherited, active, context, wpc, mine, mail, saved>>
      /\ pc = "guard" /\ pc' \in {"guard", "analyse"} /\ Drained' = Drained
  BY DEF GuardsDone, BridgeCheck, GuardDue, main, workers, world, Drained
<1>3. /\ IdleSound' /\ WorkerSound' /\ DepsSound' /\ Remembers' /\ NothingDue' /\ RunningIsActive'
      /\ FileConsistent'
  BY <1>1, <1>2 DEF RecordInv, IdleSound, WorkerSound, DepsSound, Remembers, NothingDue, RunningIsActive,
                    FileConsistent, IsComplete
<1>4. GuardsSound' /\ CompleteMeansAll'
  <2>1. CASE GuardsDone
    <3>1. \A k \in Bridge : guard[k] \in {"none", "passed", "failed"} /\ k \in Key
      BY Constants DEF RecordInv, FileConsistent, TypeOK
    <3> QED BY <1>2, <2>1, <3>1 DEF GuardsDone, GuardDue, RecordInv, GuardsSound, CompleteMeansAll, IsComplete, world
  <2>2. CASE \E k \in Key : BridgeCheck(k)
    <3>1. PICK k \in Key : BridgeCheck(k)
      BY <2>2
    <3>2. \A b \in Bridge : guard[b] # "none" => guard'[b] = guard[b]
      BY <3>1 DEF BridgeCheck, GuardDue, RecordInv, FileConsistent, TypeOK
    <3>3. pc' = "guard"
      BY <1>2, <3>1 DEF BridgeCheck, main
    <3> QED BY <1>2, <3>2, <3>3 DEF RecordInv, GuardsSound, CompleteMeansAll
  <2> QED BY <2>1, <2>2
<1> QED BY <1>3, <1>4 DEF RecordInv

\* the other steps of the main thread and of Docker, which touch no record
LEMMA PassRecords ==
  ASSUME RecordInv,
         CollectDone \/ AnalysesDone \/ CommandFails \/ LaunchDone \/ \E k \in Key, c \in Contexts : ContainerEnds(k, c)
  PROVE  RecordInv'
<1>1. TypeOK'
  BY OthersType DEF RecordInv, FileConsistent
<1>2. /\ UNCHANGED <<failed, records, dates, inherited, active, context, wpc, mine, mail, saved, guard>>
      /\ Drained' = Drained /\ (pc = "down" <=> pc' = "down")
      /\ \/ pc' = pc \/ pc' \in {"guard", "closing"}
         \/ pc \in {"analyse", "launch"} /\ pc' \in {"launch", "save"}
  BY DEF CollectDone, AnalysesDone, CommandFails, LaunchDone, ContainerEnds, GuardDue, AnalysisDue,
         main, workers, world, Drained
<1>3. /\ IdleSound' /\ WorkerSound' /\ DepsSound' /\ Remembers' /\ GuardsSound' /\ RunningIsActive'
      /\ FileConsistent' /\ CompleteMeansAll'
  BY <1>1, <1>2 DEF RecordInv, IdleSound, WorkerSound, DepsSound, Remembers, GuardsSound, RunningIsActive,
                    FileConsistent, CompleteMeansAll, IsComplete
<1>4. \A k \in Key : (Ready(k)' <=> Ready(k)) /\ (IsComplete(k)' <=> IsComplete(k))
  BY <1>2 DEF Ready, IsComplete
<1>5. NothingDue'
  <2>1. CASE LaunchDone
    <3> SUFFICES ASSUME ~failed, active = {}, NEW k \in Key, Ready(k)
                 PROVE  IsComplete(k)
      BY <1>2, <1>4 DEF NothingDue
    <3>1. ~Eligible(k) /\ Choices(k) # {}
      BY <2>1, AlwaysAChoice DEF LaunchDone, RecordInv, FileConsistent
    <3> QED BY <3>1 DEF Eligible
  <2>2. CASE ~LaunchDone
    <3>1. pc' \in {"save", "finish"} => pc' = pc
      BY <2>2 DEF CollectDone, AnalysesDone, CommandFails, ContainerEnds, main
    <3> QED BY <1>2, <1>4, <3>1 DEF RecordInv, NothingDue
  <2> QED BY <2>1, <2>2
<1> QED BY <1>3, <1>5 DEF RecordInv

\* a replay is started when what it depends on is complete
LEMMA LaunchRecords ==
  ASSUME RecordInv, NEW k \in Key, Launch(k)
  PROVE  RecordInv'
<1>1. TypeOK'
  BY LaunchType DEF RecordInv, FileConsistent
<1>2. /\ k \notin active /\ ~IsComplete(k) /\ Ready(k) /\ ChooseBackend(k) \in Contexts
      /\ active' = active \union {k} /\ inherited' = inherited \ {k} /\ pc = "launch" /\ ~failed
      /\ UNCHANGED <<pc, failed, records, dates, mail, saved, guard>> /\ Drained' = Drained
  BY ChoiceType DEF Launch, Eligible, world, Drained
<1>3. /\ wpc'[k] = "begin" /\ mine'[k] = records[k] /\ context'[k] = ChooseBackend(k)
      /\ \A j \in Key : j # k => wpc'[j] = wpc[j] /\ mine'[j] = mine[j] /\ context'[j] = context[j]
  BY DEF Launch, RecordInv, FileConsistent, TypeOK
<1>4. IdleSound'
  BY <1>2, <1>3 DEF RecordInv, IdleSound
<1>5. active \subseteq Key /\ Drained[k] = records[k]
  BY <1>2, DrainedKnown DEF RecordInv, FileConsistent, TypeOK
<1>6. WorkerSound'
  BY <1>2, <1>3, <1>5 DEF RecordInv, WorkerSound, IsComplete, Running
<1>7. DepsSound'
  BY <1>2 DEF RecordInv, DepsSound, Ready, IsComplete
<1>8. Remembers' /\ GuardsSound' /\ NothingDue' /\ RunningIsActive' /\ FileConsistent' /\ CompleteMeansAll'
  BY <1>1, <1>2 DEF RecordInv, Remembers, GuardsSound, NothingDue, RunningIsActive, FileConsistent,
                    CompleteMeansAll, IsComplete
<1> QED BY <1>4, <1>6, <1>7, <1>8 DEF RecordInv

\* what is recorded as running is to be adopted
LEMMA RestartRecords ==
  ASSUME RecordInv, Restart
  PROVE  RecordInv'
<1>1. TypeOK'
  BY OthersType DEF RecordInv, FileConsistent
<1>2. active = {} /\ active' = {} /\ records' = saved.records /\ dates' = saved.dates /\ pc' = "drain"
      /\ saved' = saved /\ guard' = guard /\ wpc' = wpc /\ mail' = mail
  BY DEF Restart, RecordInv, Remembers, workers, world
<1>3. IdleSound' /\ WorkerSound' /\ DepsSound'
  BY <1>2, Tables DEF RecordInv, IdleSound, WorkerSound, DepsSound, FileConsistent, IsComplete
<1>4. Remembers' /\ GuardsSound' /\ NothingDue' /\ RunningIsActive' /\ FileConsistent' /\ CompleteMeansAll'
  BY <1>1, <1>2 DEF Restart, RecordInv, Remembers, GuardsSound, NothingDue, RunningIsActive, FileConsistent,
                    CompleteMeansAll, IsComplete
<1> QED BY <1>3, <1>4 DEF RecordInv

\* what a worker does reaches the records only through its queue
LEMMA StepRecords ==
  ASSUME RecordInv, TypeOK', NEW k \in Key, k \in active, UNCHANGED <<main, saved, guard>>,
         wpc[k] # "result", wpc'[k] # "none",
         \A j \in Key : j # k => wpc'[j] = wpc[j] /\ mine'[j] = mine[j] /\ mail'[j] = mail[j],
         (mine'[k] = mine[k] /\ mail'[k] = mail[k]) \/ mail'[k] = mine'[k],
         wpc'[k] \in Running => mine'[k].status = "running",
         wpc'[k] = "result" <=> mine'[k].status = "complete"
  PROVE  RecordInv'
<1>1. \A j \in Key : Drained'[j] = IF mail'[j] = NoMail THEN records[j] ELSE mail'[j]
  BY DEF Drained, main
<1>2. \A j \in Key : IsComplete(j)' <=> IsComplete(j)
  BY DEF main, IsComplete
<1>3. IdleSound'
  BY DEF main, RecordInv, IdleSound
<1>4. WorkerSound'
  <2>1. ASSUME NEW j \in active, j # k
        PROVE  Drained'[j] = Drained[j] /\ mine'[j] = mine[j] /\ wpc'[j] = wpc[j] /\ j \in Key
    BY <1>1, <2>1, DrainedType DEF RecordInv, FileConsistent, TypeOK
  <2>2. Drained'[k] = mine'[k]
    <3>1. mine'[k] \in Record
      BY DEF TypeOK
    <3> QED BY <1>1, <3>1, RecordTypes, DrainedType DEF RecordInv, FileConsistent, WorkerSound
  <2>3. ~IsComplete(k)
    BY DEF RecordInv, WorkerSound
  <2> QED BY <1>2, <2>1, <2>2, <2>3 DEF main, RecordInv, WorkerSound
<1>5. DepsSound' /\ Remembers'
  BY <1>2, Tables DEF main, RecordInv, DepsSound, Remembers
<1>6. GuardsSound' /\ NothingDue' /\ RunningIsActive'
  BY <1>2, Constants DEF main, RecordInv, GuardsSound, NothingDue, Ready, IsComplete, RunningIsActive
<1>7. FileConsistent' /\ CompleteMeansAll'
  BY DEF RecordInv, FileConsistent, CompleteMeansAll
<1> QED BY <1>3, <1>4, <1>5, <1>6, <1>7 DEF RecordInv

LEMMA SilentRecords ==
  ASSUME RecordInv, TypeOK', NEW k \in Key, UNCHANGED <<main, saved, guard>>, Silent,
         NEW from \in {"begin", "attempt"} \union Running,
         NEW to \in {"attempt", "raise"} \union Running, Goto(k, from, to),
         to \in Running => mine[k].status = "running"
  PROVE  RecordInv'
<1>1. /\ k \in active /\ wpc[k] = from /\ wpc'[k] = to
      /\ \A j \in Key : j # k => wpc'[j] = wpc[j]
  BY GotoType DEF Running, RecordInv, FileConsistent
<1>2. mine[k].status # "complete"
  BY <1>1 DEF RecordInv, WorkerSound, Running
<1> QED BY <1>1, <1>2, StepRecords DEF Silent, Running

LEMMA ReportRecords ==
  ASSUME RecordInv, TypeOK', NEW k \in Key, UNCHANGED <<main, saved, guard>>,
         NEW s \in {"running", "failed", "complete", "invalid"}, NEW n \in 0..MaxAttempts, Report(k, s, n),
         NEW from \in {"begin", "attempt"} \union Running,
         NEW to \in {"attempt", "raise", "result"} \union Running, Goto(k, from, to),
         to \in Running <=> s = "running", to = "result" <=> s = "complete"
  PROVE  RecordInv'
<1>1. /\ k \in active /\ wpc[k] = from /\ wpc'[k] = to
      /\ \A j \in Key : j # k => wpc'[j] = wpc[j]
  BY GotoType DEF Running, RecordInv, FileConsistent
<1>2. /\ mail'[k] = mine'[k] /\ mine'[k].status = s
      /\ \A j \in Key : j # k => mine'[j] = mine[j] /\ mail'[j] = mail[j]
  <2>1. TypeOK
    BY DEF RecordInv, FileConsistent
  <2>2. /\ mine'[k] = [status |-> s, attempts |-> n, context |-> context[k]] /\ mail'[k] = mine'[k]
        /\ \A j \in Key : j # k => mine'[j] = mine[j] /\ mail'[j] = mail[j]
    BY ONLY <2>1, Report(k, s, n), k \in Key, n \in 0..MaxAttempts,
       s \in {"running", "failed", "complete", "invalid"}, ReportType
  <2> QED BY <2>2
<1>3. wpc[k] # "result" /\ wpc'[k] # "none"
  BY <1>1 DEF Running
<1>4. /\ wpc'[k] \in Running => mine'[k].status = "running"
      /\ wpc'[k] = "result" <=> mine'[k].status = "complete"
  BY <1>1, <1>2
<1> QED BY <1>1, <1>2, <1>3, <1>4, StepRecords

LEMMA WorkerRecords ==
  ASSUME RecordInv, NEW k \in Key, Worker(k)
  PROVE  RecordInv'
<1>1. TypeOK'
  BY WorkerType DEF RecordInv, FileConsistent, WorkerSound
<1>2. mine[k].attempts \in 0..MaxAttempts /\ UNCHANGED <<main, saved, guard>>
  BY DEF RecordInv, FileConsistent, TypeOK, Record, Worker, Begin, Attempt, Prepare, StartContainer, Wait, Check,
         Adopt, AdoptRaises, Watch, Examine, world
<1>3. CASE Begin(k)
  <2>1. Silent
    BY <1>3 DEF Begin
  <2>2. CASE Goto(k, "begin", "raise")
    BY <1>1, <1>2, <2>1, <2>2, SilentRecords DEF Running
  <2>3. CASE Goto(k, "begin", IF mine[k].status = "running" THEN "adopt" ELSE "attempt")
    <3>1. CASE mine[k].status = "running"
      BY <1>1, <1>2, <2>1, <2>3, <3>1, SilentRecords DEF Running
    <3>2. CASE mine[k].status # "running"
      BY <1>1, <1>2, <2>1, <2>3, <3>2, SilentRecords DEF Running
    <3> QED BY <3>1, <3>2
  <2> QED BY <1>3, <2>2, <2>3 DEF Begin
<1>4. CASE Attempt(k)
  <2>1. CASE AttemptsLeft(k)
    <3>1. mine[k].attempts + 1 \in 0..MaxAttempts
      BY <1>2, <2>1, Constants DEF AttemptsLeft
    <3>2. Goto(k, "attempt", "prepare") /\ Report(k, "running", mine[k].attempts + 1)
      BY <1>4, <2>1 DEF Attempt
    <3> QED BY <1>1, <1>2, <3>1, <3>2, ReportRecords DEF Running
  <2>2. CASE ~AttemptsLeft(k)
    <3>1. Goto(k, "attempt", "raise") /\ Silent
      BY <1>4, <2>2 DEF Attempt
    <3> QED BY <1>1, <1>2, <3>1, SilentRecords DEF Running
  <2> QED BY <2>1, <2>2
<1>5. ASSUME NEW from \in {"prepare", "wait", "check"}, AttemptFails(k, from)
      PROVE  RecordInv'
  <2>1. Goto(k, from, "attempt") /\ Report(k, "failed", mine[k].attempts)
    BY <1>5 DEF AttemptFails
  <2> QED BY <1>1, <1>2, <2>1, ReportRecords DEF Running
<1>6. ASSUME NEW from \in Running, NEW to \in {"start", "wait", "check", "watch", "examine", "raise"},
             Goto(k, from, to), Silent
      PROVE  RecordInv'
  <2>1. mine[k].status = "running"
    BY <1>6 DEF Goto, RecordInv, WorkerSound
  <2> QED BY <1>1, <1>2, <1>6, <2>1, SilentRecords DEF Running
<1>7. CASE Prepare(k) \/ StartContainer(k) \/ Wait(k)
  BY <1>5, <1>6, <1>7 DEF Prepare, StartContainer, Wait, Running
<1>8. CASE Check(k)
  <2>1. CASE AttemptFails(k, "check")
    BY <1>5, <2>1
  <2>2. CASE Goto(k, "check", "result") /\ Report(k, "complete", mine[k].attempts)
    BY <1>1, <1>2, <2>2, ReportRecords DEF Running
  <2>3. CASE Goto(k, "check", "raise") /\ Report(k, "invalid", mine[k].attempts)
    BY <1>1, <1>2, <2>3, ReportRecords DEF Running
  <2> QED BY <1>8, <2>1, <2>2, <2>3 DEF Check
<1>9. CASE Adopt(k)
  <2>1. CASE Goto(k, "adopt", "watch") /\ Report(k, "running", mine[k].attempts)
    BY <1>1, <1>2, <2>1, ReportRecords DEF Running
  <2> QED BY <1>6, <1>9, <2>1 DEF Adopt, Running
<1>10. CASE AdoptRaises(k) \/ Watch(k)
  BY <1>6, <1>10 DEF AdoptRaises, Watch, Running
<1>11. CASE Examine(k)
  <2>1. CASE Goto(k, "examine", "result") /\ Report(k, "complete", mine[k].attempts)
    BY <1>1, <1>2, <2>1, ReportRecords DEF Running
  <2> QED BY <1>6, <1>11, <2>1 DEF Examine, Running
<1> QED BY <1>3, <1>4, <1>7, <1>8, <1>9, <1>10, <1>11 DEF Worker

LEMMA NextRecords ==
  ASSUME RecordInv, [Next]_vars
  PROVE  RecordInv'
<1>1. CASE UNCHANGED vars
  <2>1. TypeOK' /\ Drained' = Drained /\ UNCHANGED <<main, workers, saved, guard>>
    BY <1>1 DEF vars, main, workers, world, RecordInv, FileConsistent, TypeOK, Drained
  <2> QED BY <2>1 DEF main, workers, RecordInv, IdleSound, WorkerSound, DepsSound, Remembers, GuardsSound,
              NothingDue, Ready, RunningIsActive, FileConsistent, CompleteMeansAll, IsComplete
<1>2. CASE MainThread
  BY <1>2, DrainRecords, PassRecords, CollectRecords, GuardRecords, UpdatesRecords, StopsRecords, LaunchRecords,
     FinishRecords DEF MainThread
<1>3. CASE Poll \/ Docker \/ Crash \/ Restart
  BY <1>3, UpdatesRecords, PassRecords, StopsRecords, RestartRecords DEF Docker
<1>4. CASE \E k \in Key : Worker(k)
  BY <1>4, WorkerRecords
<1> QED BY <1>1, <1>2, <1>3, <1>4 DEF Next

\* the inductive invariant of the records holds in every reachable state
THEOREM RecordInvariance == Spec => []RecordInv
<1>1. Init => RecordInv
  BY InitRecords
<1>2. RecordInv /\ [Next]_vars => RecordInv'
  BY NextRecords
<1> QED BY <1>1, <1>2, PTL DEF Spec

\* Nothing recorded as running is forgotten by the process: a worker is at it, or it is
\* still to be adopted (run, execute).
THEOREM RunningIsLookedAfter == Spec => []RunningIsActive
<1>1. RecordInv => RunningIsActive
  BY DEF RecordInv
<1> QED BY <1>1, RecordInvariance, PTL

\* At every instant the file is one a session can go on from: well typed, dependencies
\* before what depends on them, and days only with all their replays (update, drain).
THEOREM FileIsConsistent == Spec => []FileConsistent
<1>1. RecordInv => FileConsistent
  BY DEF RecordInv
<1> QED BY <1>1, RecordInvariance, PTL

\* state.json says complete only with all replays and all guards passed (run).
THEOREM CompleteIsWhole == Spec => []CompleteMeansAll
<1>1. RecordInv => CompleteMeansAll
  BY DEF RecordInv
<1> QED BY <1>1, RecordInvariance, PTL

-----------------------------------------------------------------------------
(* The file keeps the promise *)

Completed == {k \in Key : saved.records[k].status = "complete"}

LEMMA FileGrows ==
  ASSUME RecordInv, [Next]_vars
  PROVE  Completed \subseteq Completed'
<1>1. CASE saved' = saved
  BY <1>1 DEF Completed
<1>2. CASE saved'.records = saved.records
  BY <1>2 DEF Completed
<1>3. CASE saved'.records = Drained /\ pc # "down"
  BY <1>3, DrainedKnown DEF Completed, RecordInv, Remembers
<1>4. CASE MainThread \/ Poll
  <2>1. CASE Drain \/ CollectDone \/ (\E k \in Key : Collect(k)) \/ (\E k \in Key : BridgeCheck(k)) \/ GuardsDone
             \/ AnalysesDone \/ CommandFails \/ (\E k \in Key : Launch(k)) \/ LaunchDone
    BY <1>1, <2>1 DEF Drain, CollectDone, Collect, BridgeCheck, GuardsDone, AnalysesDone, CommandFails, Launch,
                      LaunchDone, world
  <2>2. CASE Poll \/ (\E d \in Date : Analyse(d)) \/ Save \/ Finish \/ PoolClosed
    <3>1. saved'.records = Drained /\ pc # "down"
      BY <2>2 DEF Poll, Analyse, Save, Finish, PoolClosed, Update, Write, AnalysisDue, GuardDue
    <3> QED BY <1>3, <3>1
  <2>3. CASE Summarise
    <3>1. saved'.records = saved.records
      BY <2>3 DEF Summarise, RecordInv, FileConsistent, TypeOK
    <3> QED BY <1>2, <3>1
  <2> QED BY <1>4, <2>1, <2>2, <2>3 DEF MainThread
<1>5. CASE (\E k \in Key : Worker(k)) \/ Docker \/ Crash \/ Restart \/ UNCHANGED vars
  BY <1>1, <1>5 DEF Worker, Begin, Attempt, Prepare, StartContainer, Wait, Check, Adopt, AdoptRaises, Watch, Examine,
                    Docker, ContainerEnds, Crash, Restart, world, vars
<1> QED BY <1>4, <1>5 DEF Next

\* The runner implements CampaignPromise: over crashes, restarts and late messages each of
\* its steps is a Save of the file, or leaves alone which replays and whether the
\* campaign are complete (ParallelRunner.update, ParallelRunner.run).
THEOREM PromiseKept == Spec => KeepsPromise
<1>1. Init => Promise!Init
  BY RecordTypes DEF Init, Promise!Init
<1>2. RecordInv /\ [Next]_vars =>
        [Promise!Save]_<<{k \in Key : saved.records[k].status = "complete"}, saved.status = "complete">>
  <2> SUFFICES ASSUME RecordInv, [Next]_vars
               PROVE  Promise!Save
    BY Zenon
  <2>1. Completed \subseteq Completed' /\ Completed' \subseteq Key
    BY FileGrows DEF Completed
  <2>2. (saved'.status = "complete") \in BOOLEAN
    BY Zenon
  <2>3. saved'.status = "complete" => Completed' = Key
    BY NextRecords DEF RecordInv, CompleteMeansAll, Completed
  <2> QED BY <2>1, <2>2, <2>3, Zenon DEF Promise!Save, Completed
<1> QED BY <1>1, <1>2, RecordInvariance, PTL DEF Spec, KeepsPromise, Promise!Spec

-----------------------------------------------------------------------------
(* What Docker runs.  These facts need Prompt, and either that nothing can *)
(* fail in a replay, or that nothing fails while a worker adopts what runs *)
(* and that Docker removes what it is told to.                             *)

LEMMA Facts ==
  ASSUME RecordInv
  PROVE  /\ TypeOK
         /\ Drained \in [Key -> Record]
         /\ active \subseteq Key /\ inherited \subseteq Key /\ IsFiniteSet(Key)
         /\ \A k \in Key : k \notin active => Drained[k] = records[k]
         /\ \A k \in active : Drained[k] = mine[k] /\ context[k] \in Contexts
  BY DrainedKnown, DrainedType, CampaignAssumption DEF RecordInv, FileConsistent, TypeOK, WorkerSound

\* a smaller set of replays fits as well
LEMMA SmallerFits ==
  ASSUME NEW S \in SUBSET Key, NEW T \in SUBSET S, NEW n \in Nat, Cardinality(S) <= n
  PROVE  Cardinality(T) <= n
<1>1. IsFiniteSet(Key)
  BY CampaignAssumption
<1>2. IsFiniteSet(S)
  BY <1>1, FS_Subset
<1>3. Cardinality(T) <= Cardinality(S) /\ IsFiniteSet(T)
  BY <1>2, FS_Subset
<1>4. Cardinality(T) \in Nat /\ Cardinality(S) \in Nat
  BY <1>2, <1>3, FS_CardinalityType
<1> QED BY <1>3, <1>4

LEMMA NoneFits ==
  ASSUME NEW c \in Contexts
  PROVE  Cardinality({}) <= Slots[c] /\ Slots[c] \in Nat
<1>1. Cardinality({}) = 0
  BY FS_EmptySet
<1>2. Slots[c] \in Nat
  BY Tables
<1> QED BY <1>1, <1>2

\* a replay the process knows as running is in a slot
LEMMA KnownIsHeld ==
  ASSUME RecordInv, DockerInv, pc # "down", NEW c \in Contexts
  PROVE  {k \in Key : Place(Drained[k]) = {c}} \subseteq Held(c)
<1> SUFFICES ASSUME NEW k \in Key, Place(Drained[k]) = {c} PROVE k \in Held(c)
  OBVIOUS
<1>1. Drained[k].status = "running" /\ Drained[k].context = c
  BY DEF Place
<1>2. CASE k \in active
  <2>1. Place(mine[k]) = {c} /\ Place(mine[k]) \subseteq {context[k]}
    BY <1>2, Facts DEF DockerInv, ContextSound
  <2> QED BY <1>2, <2>1 DEF Held
<1>3. CASE k \notin active
  BY <1>1, <1>3, Facts DEF Held, RecordInv, RunningIsActive
<1> QED BY <1>2, <1>3

LEMMA InitDocker == Init => DockerInv
<1> SUFFICES ASSUME Init PROVE DockerInv
  OBVIOUS
<1>1. \A k \in Key : records[k] = NoRecord /\ saved.records[k] = NoRecord /\ Drained[k] = NoRecord
  BY DEF Init, Drained
<1>2. \A c \in Contexts : Held(c) = {} /\ Filed(c) = {}
  BY <1>1, RecordTypes DEF Init, Held, Filed, Place
<1>3. Fits
  BY <1>2, NoneFits DEF Fits
<1>4. ContextSound /\ LiveKnown /\ OutputGood
  BY <1>1, RecordTypes DEF Init, ContextSound, LiveKnown, OutputGood, Place
<1> QED BY <1>3, <1>4 DEF DockerInv

\* steps of the main thread that move no replay
LEMMA MainDocker ==
  ASSUME RecordInv, DockerInv, pc # "down", pc' # "down",
         UNCHANGED <<inherited, active, context, wpc, mine, live, output>>, Drained' = Drained,
         records' \in {records, Drained}, saved'.records \in {saved.records, Drained}
  PROVE  DockerInv'
<1>1. \A k \in Key : k \notin active => records'[k] = records[k]
  BY Facts
<1>2. \A k \in Key : Place(Drained[k]) \subseteq Contexts
  BY Facts DEF DockerInv, ContextSound
<1>3. ContextSound'
  BY <1>1, <1>2, Facts DEF DockerInv, ContextSound
<1>4. LiveKnown'
  BY DEF DockerInv, LiveKnown
<1>5. OutputGood'
  BY DEF DockerInv, OutputGood
<1>6. \A c \in Contexts : Held(c)' = Held(c)
  BY <1>1 DEF Held, DockerInv, ContextSound
<1>7. ASSUME NEW c \in Contexts
      PROVE  Cardinality(Filed(c)') <= Slots[c]
  <2>1. CASE saved'.records = saved.records
    BY <2>1 DEF Filed, DockerInv, Fits
  <2>2. CASE saved'.records = Drained
    <3>1. Filed(c)' \subseteq Held(c)
      BY <2>2, KnownIsHeld DEF Filed
    <3> QED BY <3>1, SmallerFits, Tables DEF DockerInv, Fits, Held
  <2> QED BY <2>1, <2>2
<1>8. Fits'
  BY <1>6, <1>7 DEF DockerInv, Fits
<1> QED BY <1>3, <1>4, <1>5, <1>8 DEF DockerInv

\* the process ends, and what it started goes on
LEMMA StopsDocker ==
  ASSUME RecordInv, DockerInv, pc # "down", Stop, UNCHANGED <<live, output>>,
         saved'.records \in {saved.records, Drained}
  PROVE  DockerInv'
<1>1. \A k \in Key : records'[k] = NoRecord /\ Drained'[k] = NoRecord
  BY DEF Stop, Blank, Emptied, Drained
<1>2. \A k \in Key : Place(Drained[k]) \subseteq Contexts
  BY Facts DEF DockerInv, ContextSound
<1>3. ContextSound'
  BY <1>1, <1>2, RecordTypes DEF Stop, DockerInv, ContextSound, Place
<1>4. LiveKnown'
  BY DEF Stop, DockerInv, LiveKnown
<1>5. OutputGood'
  BY <1>1, RecordTypes DEF DockerInv, OutputGood
<1>6. ASSUME NEW c \in Contexts
      PROVE  Cardinality(Held(c)') <= Slots[c] /\ Cardinality(Filed(c)') <= Slots[c]
  <2>1. Held(c)' = {}
    BY DEF Held, Stop
  <2>2. CASE saved'.records = saved.records
    BY <2>1, <2>2, NoneFits DEF Filed, DockerInv, Fits
  <2>3. CASE saved'.records = Drained
    <3>1. Filed(c)' \subseteq Held(c)
      BY <2>3, KnownIsHeld DEF Filed
    <3> QED BY <2>1, <3>1, SmallerFits, NoneFits DEF DockerInv, Fits, Held
  <2> QED BY <2>2, <2>3
<1> QED BY <1>3, <1>4, <1>5, <1>6 DEF DockerInv, Fits

\* a worker that has ended holds no container
LEMMA CollectDocker ==
  ASSUME RecordInv, DockerInv, NEW k \in Key, Collect(k)
  PROVE  DockerInv'
<1>1. /\ k \in active /\ wpc[k] \in {"result", "raise"} /\ active' = active \ {k} /\ mail' = Emptied
      /\ records' = [Drained EXCEPT ![k] = IF wpc[k] = "result" THEN mine[k] ELSE MarkedFailed(@)]
      /\ UNCHANGED <<pc, inherited, saved, live, output>>
      /\ \A j \in Key : j # k => context'[j] = context[j] /\ wpc'[j] = wpc[j] /\ mine'[j] = mine[j]
  BY Facts DEF Collect, Collected, world, TypeOK
<1>2. /\ \A j \in Key : j # k => records'[j] = Drained[j]
      /\ records'[k].status = IF wpc[k] = "result" THEN "complete" ELSE "failed"
      /\ records'[k].status = "complete" => Drained[k].status = "complete"
  <2>1. mine[k].status = "complete" <=> wpc[k] = "result"
    BY <1>1 DEF RecordInv, WorkerSound
  <2>2. MarkedFailed(Drained[k]).status = "failed"
    BY MarkedType, DrainedKnown
  <2>3. Drained[k] = mine[k]
    BY <1>1, Facts
  <2> QED BY <1>1, <2>1, <2>2, <2>3, DrainedKnown
<1>3. \A j \in Key : Drained'[j] = records'[j]
  BY <1>1 DEF Drained, Emptied
<1>4. Place(records'[k]) = {}
  BY <1>2 DEF Place
<1>5. \A j \in Key : Place(Drained[j]) \subseteq Contexts
  BY Facts DEF DockerInv, ContextSound
<1>6. k \notin inherited
  BY <1>1 DEF DockerInv, ContextSound
<1>7. ContextSound'
  BY <1>1, <1>2, <1>4, <1>5, <1>6, Facts DEF DockerInv, ContextSound
<1>8. LiveKnown'
  BY <1>1, <1>2, <1>3 DEF DockerInv, LiveKnown
<1>9. OutputGood'
  BY <1>1, <1>2, <1>3 DEF DockerInv, OutputGood
<1>10. ASSUME NEW c \in Contexts
       PROVE  Held(c)' \subseteq Held(c) /\ Filed(c)' = Filed(c)
  BY <1>1, <1>2, <1>6, Facts DEF Held, Filed, DockerInv, ContextSound
<1>11. Fits'
  <2>1. \A c \in Contexts : Held(c) \in SUBSET Key
    BY DEF Held
  <2> QED BY <1>10, <2>1, SmallerFits, NoneFits DEF DockerInv, Fits
<1> QED BY <1>7, <1>8, <1>9, <1>11 DEF DockerInv

\* one that is to be adopted has its slot, and goes first
LEMMA InheritedFirst ==
  ASSUME RecordInv, DockerInv, NEW k \in Key, Launch(k), k \notin inherited
  PROVE  inherited = {}
<1> SUFFICES ASSUME NEW n \in inherited PROVE FALSE
  OBVIOUS
<1> DEFINE c == records[n].context
           S == {j \in active : context[j] = c}
<1>1. /\ n \in Key /\ n \notin active /\ records[n].status = "running" /\ c \in Contexts
      /\ active \subseteq Key
  BY Facts DEF DockerInv, ContextSound, Place
<1>2. ~IsComplete(n) /\ Ready(n)
  BY <1>1 DEF IsComplete, Ready, RecordInv, DepsSound
<1>3. Preferred(n) = c
  BY <1>1, Constants DEF Preferred
<1>4. HasRoom(c)
  <2>1. S \in SUBSET Held(c) /\ n \in Held(c) /\ n \notin S /\ IsFiniteSet(Held(c))
    <3>1. IsFiniteSet(Key) /\ Held(c) \in SUBSET Key
      BY Facts DEF Held
    <3>2. IsFiniteSet(Held(c))
      BY <3>1, FS_Subset
    <3> QED BY <1>1, <3>2 DEF Held
  <2>2. IsFiniteSet(S) /\ Cardinality(S) \in Nat /\ Cardinality(Held(c)) \in Nat
    BY <2>1, FS_Subset, FS_CardinalityType
  <2>3. Cardinality(S \union {n}) = Cardinality(S) + 1
    BY <2>1, <2>2, FS_AddElement
  <2>4. Cardinality(S \union {n}) <= Cardinality(Held(c))
    <3>1. S \union {n} \in SUBSET Held(c)
      BY <2>1
    <3> QED BY <2>1, <3>1, FS_Subset
  <2>5. Cardinality(Held(c)) <= Slots[c] /\ Slots[c] \in Nat
    BY <1>1, NoneFits DEF DockerInv, Fits
  <2> QED BY <2>2, <2>3, <2>4, <2>5 DEF HasRoom
<1>5. Choices(n) # {}
  <2>1. PICK i \in DOMAIN Backends : Backends[i] = c
    BY <1>1 DEF Contexts
  <2>2. i \in Choices(n)
    BY <1>3, <1>4, <2>1 DEF Choices
  <2> QED BY <2>2
<1> QED BY <1>1, <1>2, <1>5 DEF Launch, Eligible, Earlier

LEMMA LaunchDocker ==
  ASSUME RecordInv, DockerInv, NEW k \in Key, Launch(k)
  PROVE  DockerInv'
<1> DEFINE b == ChooseBackend(k)
<1>1. /\ k \notin active /\ b \in Contexts /\ HasRoom(b) /\ Preferred(k) \in {NoContext, b}
      /\ active' = active \union {k} /\ inherited' = inherited \ {k} /\ pc = "launch" /\ Drained' = Drained
      /\ UNCHANGED <<pc, records, mail, saved, live, output>>
  BY ChoiceType DEF Launch, Eligible, world, Drained
<1>2. /\ wpc'[k] = "begin" /\ mine'[k] = records[k] /\ context'[k] = b
      /\ \A j \in Key : j # k => wpc'[j] = wpc[j] /\ mine'[j] = mine[j] /\ context'[j] = context[j]
  BY Facts DEF Launch, TypeOK
<1>3. Place(records[k]) \subseteq {b}
  BY <1>1, Constants DEF Place, Preferred, DockerInv, ContextSound
<1>4. ContextSound'
  BY <1>1, <1>2, <1>3, Facts DEF DockerInv, ContextSound
<1>5. LiveKnown' /\ OutputGood'
  BY <1>1, <1>2 DEF DockerInv, LiveKnown, OutputGood
<1>6. ASSUME NEW c \in Contexts
      PROVE  Cardinality(Held(c)') <= Slots[c] /\ Filed(c)' = Filed(c)
  <2>1. Filed(c)' = Filed(c)
    BY <1>1 DEF Filed
  <2>2. CASE k \in inherited
    <3>1. records[k].context = b
      BY <1>3, <2>2 DEF Place, DockerInv, ContextSound
    <3>2. Held(c)' = Held(c)
      BY <1>1, <1>2, <2>2, <3>1, Facts DEF Held
    <3> QED BY <2>1, <3>2 DEF DockerInv, Fits
  <2>3. CASE k \notin inherited
    <3>1. inherited = {}
      BY <2>3, InheritedFirst
    <3>2. CASE c # b
      <4>1. Held(c)' = Held(c)
        BY <1>1, <1>2, <3>1, <3>2, Facts DEF Held
      <4> QED BY <2>1, <4>1 DEF DockerInv, Fits
    <3>3. CASE c = b
      <4> DEFINE S == {j \in active : context[j] = b}
      <4>1. Held(c)' = S \union {k} /\ k \notin S /\ S \in SUBSET Key
        BY <1>1, <1>2, <3>1, <3>3, Facts DEF Held
      <4>2. IsFiniteSet(Key)
        BY Facts
      <4>3. IsFiniteSet(S)
        BY <4>1, <4>2, FS_Subset
      <4>4. Cardinality(S) \in Nat /\ Cardinality(S \union {k}) = Cardinality(S) + 1
        BY <4>1, <4>3, FS_CardinalityType, FS_AddElement
      <4>5. Cardinality(S) < Slots[b] /\ Slots[b] \in Nat
        BY <1>1, NoneFits DEF HasRoom
      <4> QED BY <2>1, <3>3, <4>1, <4>4, <4>5
    <3> QED BY <3>2, <3>3
  <2> QED BY <2>2, <2>3
<1> QED BY <1>4, <1>5, <1>6 DEF DockerInv, Fits

\* what runs is found in the file
LEMMA RestartDocker ==
  ASSUME RecordInv, DockerInv, Restart
  PROVE  DockerInv'
<1>1. /\ active = {} /\ active' = {} /\ records' = saved.records /\ pc' = "drain"
      /\ inherited' = {k \in Key : saved.records[k].status = "running"}
      /\ UNCHANGED <<saved, live, output, mail>>
  BY DEF Restart, RecordInv, Remembers, workers, world
<1>2. \A k \in Key : Drained'[k] = saved.records[k]
  BY <1>1 DEF Drained, RecordInv, IdleSound
<1>3. ContextSound' /\ LiveKnown' /\ OutputGood'
  BY <1>1, <1>2 DEF DockerInv, ContextSound, LiveKnown, OutputGood
<1>4. \A c \in Contexts : Held(c)' = Filed(c) /\ Filed(c)' = Filed(c)
  BY <1>1 DEF Held, Filed, Place
<1> QED BY <1>3, <1>4 DEF DockerInv, Fits

\* where a worker's replay runs, and what is known of it
LEMMA AtWork ==
  ASSUME RecordInv, DockerInv, NEW k \in active
  PROVE  /\ k \in Key /\ Place(mine[k]) \subseteq {context[k]} /\ context[k] \in Contexts
         /\ wpc[k] # "result" => saved.records[k].status # "complete" /\ mine[k].status # "complete"
         /\ \A c \in Contexts : <<k, c>> \in live =>
              /\ c = context[k] /\ Place(saved.records[k]) = {c} /\ Place(mine[k]) = {c}
              /\ mine[k].status = "running" /\ wpc[k] \in {"begin", "wait", "adopt", "watch"}
<1>1. /\ k \in Key /\ context[k] \in Contexts /\ pc # "down" /\ Drained[k] = mine[k]
      /\ Place(mine[k]) \subseteq {context[k]}
  BY Facts DEF RecordInv, Remembers, DockerInv, ContextSound
<1>2. wpc[k] # "result" => saved.records[k].status # "complete" /\ mine[k].status # "complete"
  BY <1>1 DEF RecordInv, Remembers, WorkerSound
<1>3. ASSUME NEW c \in Contexts, <<k, c>> \in live
      PROVE  /\ c = context[k] /\ Place(saved.records[k]) = {c} /\ Place(mine[k]) = {c}
             /\ mine[k].status = "running" /\ wpc[k] \in {"begin", "wait", "adopt", "watch"}
  <2>1. /\ Place(saved.records[k]) = {c} /\ Place(mine[k]) = {c}
        /\ wpc[k] \in {"begin", "wait", "adopt", "watch"}
    BY <1>1, <1>3 DEF DockerInv, LiveKnown
  <2> QED BY <1>1, <2>1 DEF Place
<1> QED BY <1>1, <1>2, <1>3

\* a step of a worker that leaves what runs known and complete replays alone
LEMMA StepDocker ==
  ASSUME RecordInv, DockerInv, RecordInv', NEW k \in active, UNCHANGED <<main, saved>>,
         \A j \in Key : j # k => wpc'[j] = wpc[j] /\ mine'[j] = mine[j] /\ mail'[j] = mail[j] /\ output'[j] = output[j],
         Place(mine'[k]) \subseteq {context[k]},
         \A j \in Key, c \in Contexts : j # k /\ <<j, c>> \in live' => <<j, c>> \in live,
         \A c \in Contexts : <<k, c>> \in live' =>
           /\ Place(saved.records[k]) = {c} /\ Place(mine'[k]) = {c}
           /\ wpc'[k] \in {"begin", "wait", "adopt", "watch"},
         saved.records[k].status = "complete" \/ mine'[k].status = "complete" => output'[k] = "good"
  PROVE  DockerInv'
<1>1. active' = active /\ k \in Key /\ context' = context /\ records' = records /\ inherited' = inherited /\ pc' = pc
  BY Facts DEF main
<1>2. Drained'[k] = mine'[k]
  BY <1>1 DEF RecordInv, WorkerSound
<1>3. \A j \in Key : j # k => Drained'[j] = Drained[j]
  BY <1>1 DEF Drained
<1>4. ContextSound'
  BY <1>1, Facts DEF DockerInv, ContextSound
<1>5. LiveKnown'
  BY <1>1, <1>2, <1>3 DEF DockerInv, LiveKnown
<1>6. OutputGood'
  BY <1>1, <1>2, <1>3 DEF DockerInv, OutputGood
<1>7. \A c \in Contexts : Held(c)' = Held(c) /\ Filed(c)' = Filed(c)
  BY <1>1 DEF Held, Filed
<1> QED BY <1>4, <1>5, <1>6, <1>7 DEF DockerInv, Fits

\* where removing is relied on, the container is gone
LEMMA RemovalClears ==
  ASSUME Removes \/ Fallible = {}, NEW k \in Key, live' \in Removal(k)
  PROVE  live' = Cleared(k)
  BY DEF Removal

LEMMA AttemptFailsDocker ==
  ASSUME RecordInv, DockerInv, RecordInv', Removes \/ Fallible = {}, NEW k \in Key, NEW from, AttemptFails(k, from), wpc[k] # "result",
         UNCHANGED <<main, saved>>, output' \in {output, [output EXCEPT ![k] = "none"]}
  PROVE  DockerInv'
<1>1. mine[k].attempts \in 0..MaxAttempts /\ output \in [Key -> {"none", "good", "invalid"}] /\ TypeOK
  BY Facts DEF TypeOK, Record
<1>2. /\ k \in active /\ wpc'[k] = "attempt" /\ \A j \in Key : j # k => wpc'[j] = wpc[j]
  BY <1>1, GotoType DEF AttemptFails
<1>3. /\ mine'[k].status = "failed"
      /\ \A j \in Key : j # k => mine'[j] = mine[j] /\ mail'[j] = mail[j]
  <2>1. Report(k, "failed", mine[k].attempts)
    BY DEF AttemptFails
  <2>2. /\ mine'[k] = [status |-> "failed", attempts |-> mine[k].attempts, context |-> context[k]]
        /\ \A j \in Key : j # k => mine'[j] = mine[j] /\ mail'[j] = mail[j]
    BY <1>1, <2>1, ReportType
  <2> QED BY <2>2
<1>4. live' \subseteq live /\ \A c \in Contexts : <<k, c>> \notin live'
  <2>1. live' = Cleared(k)
    BY RemovalClears DEF AttemptFails
  <2> QED BY <1>2, <2>1, AtWork DEF Cleared, Container
<1>5. \A j \in Key : j # k => output'[j] = output[j]
  BY <1>1
<1>6. saved.records[k].status # "complete"
  BY <1>2, AtWork
<1> QED BY <1>2, <1>3, <1>4, <1>5, <1>6, StepDocker DEF Place

\* a worker goes on without a word
LEMMA SilentDocker ==
  ASSUME RecordInv, DockerInv, RecordInv', NEW k \in Key, UNCHANGED <<main, saved>>, Silent,
         NEW from \in {"begin", "attempt"} \union Running,
         NEW to \in {"attempt", "raise"} \union Running, Goto(k, from, to),
         live' \subseteq live, \A j \in Key : j # k => output'[j] = output[j],
         \A c \in Contexts : <<k, c>> \in live' => to \in {"wait", "adopt", "watch"}
  PROVE  DockerInv'
<1>1. /\ k \in active /\ wpc[k] = from /\ wpc'[k] = to
      /\ \A j \in Key : j # k => wpc'[j] = wpc[j]
  BY GotoType, Facts DEF Running
<1>2. wpc[k] # "result"
  BY <1>1 DEF Running
<1> QED BY <1>1, <1>2, AtWork, StepDocker DEF Silent

\* a worker reports, and what it reports is so
LEMMA ReportDocker ==
  ASSUME RecordInv, DockerInv, RecordInv', NEW k \in Key, UNCHANGED <<main, saved, live, output>>,
         NEW s \in {"running", "complete", "invalid"}, NEW n \in 0..MaxAttempts, Report(k, s, n),
         NEW from \in {"begin", "attempt"} \union Running,
         NEW to \in {"raise", "result"} \union Running, Goto(k, from, to),
         s = "complete" => output[k] = "good",
         \A c \in Contexts : <<k, c>> \in live => s = "running" /\ to = "watch"
  PROVE  DockerInv'
<1>1. /\ k \in active /\ wpc[k] = from /\ wpc'[k] = to
      /\ \A j \in Key : j # k => wpc'[j] = wpc[j]
  BY GotoType, Facts DEF Running
<1>2. wpc[k] # "result"
  BY <1>1 DEF Running
<1>3. /\ mine'[k] = [status |-> s, attempts |-> n, context |-> context[k]]
      /\ \A j \in Key : j # k => mine'[j] = mine[j] /\ mail'[j] = mail[j]
  <2>1. TypeOK
    BY Facts
  <2> QED BY ONLY <2>1, Report(k, s, n), k \in Key, n \in 0..MaxAttempts,
             s \in {"running", "complete", "invalid"}, ReportType
<1>4. mine'[k].status = s /\ Place(mine'[k]) = IF s = "running" THEN {context[k]} ELSE {}
  BY <1>3 DEF Place
<1> QED BY <1>1, <1>2, <1>3, <1>4, AtWork, StepDocker

LEMMA WorkerDocker ==
  ASSUME RecordInv, DockerInv, RecordInv', Prompt, Fallible = {} \/ (Answers /\ Removes),
         NEW k \in Key, Worker(k)
  PROVE  DockerInv'
<1>1. /\ mine[k].attempts \in 0..MaxAttempts /\ UNCHANGED <<main, saved>> /\ k \in active
      /\ wpc[k] \in {"begin", "attempt"} \union Running /\ TypeOK
  BY Facts DEF TypeOK, Record, Worker, Begin, Attempt, Prepare, StartContainer, Wait, Check,
         Adopt, AdoptRaises, Watch, Examine, world, Goto, AttemptFails, Running
<1>2. wpc[k] # "result"
  BY <1>1 DEF Running
<1>3. \A c \in Contexts : <<k, c>> \in live =>
        c = context[k] /\ mine[k].status = "running" /\ wpc[k] \in {"begin", "wait", "adopt", "watch"}
  BY <1>1, AtWork
<1>4. CASE Begin(k)
  <2>1. Silent /\ live' = live /\ output' = output
    BY <1>4 DEF Begin, world
  <2>2. CASE Goto(k, "begin", "raise") /\ k \in Fallible /\ (Answers => mine[k].status # "running")
    <3>1. \A c \in Contexts : <<k, c>> \notin live'
      BY <1>3, <2>1, <2>2
    <3> QED BY <1>1, <2>1, <2>2, <3>1, SilentDocker DEF Running
  <2>3. CASE Goto(k, "begin", IF mine[k].status = "running" THEN "adopt" ELSE "attempt")
    <3>1. CASE mine[k].status = "running"
      BY <1>1, <2>1, <2>3, <3>1, SilentDocker DEF Running
    <3>2. CASE mine[k].status # "running"
      <4>1. \A c \in Contexts : <<k, c>> \notin live'
        BY <1>3, <2>1, <3>2
      <4> QED BY <1>1, <2>1, <2>3, <3>2, <4>1, SilentDocker DEF Running
    <3> QED BY <3>1, <3>2
  <2> QED BY <1>4, <2>2, <2>3 DEF Begin
<1>5. CASE Attempt(k)
  <2>1. live' = live /\ output' = output /\ wpc[k] = "attempt"
    BY <1>5 DEF Attempt, world, Goto
  <2>2. \A c \in Contexts : <<k, c>> \notin live
    BY <1>3, <2>1
  <2>3. CASE AttemptsLeft(k)
    <3>1. mine[k].attempts + 1 \in 0..MaxAttempts
      BY <1>1, <2>3, Constants DEF AttemptsLeft
    <3>2. Goto(k, "attempt", "prepare") /\ Report(k, "running", mine[k].attempts + 1)
      BY <1>5, <2>3 DEF Attempt
    <3> QED BY <1>1, <2>1, <2>2, <3>1, <3>2, ReportDocker DEF Running
  <2>4. CASE ~AttemptsLeft(k)
    <3>1. Goto(k, "attempt", "raise") /\ Silent
      BY <1>5, <2>4 DEF Attempt
    <3> QED BY <1>1, <2>1, <2>2, <3>1, SilentDocker DEF Running
  <2> QED BY <2>3, <2>4
<1>6. ASSUME NEW from, AttemptFails(k, from), output' \in {output, [output EXCEPT ![k] = "none"]}
      PROVE  DockerInv'
  BY <1>1, <1>2, <1>6, AttemptFailsDocker
<1>7. CASE Prepare(k)
  <2>1. CASE Goto(k, "prepare", "start") /\ Silent /\ live' \in Removal(k) /\ output' = [output EXCEPT ![k] = "none"]
    <3>1. live' \subseteq live /\ \A j \in Key : j # k => output'[j] = output[j]
      BY <1>1, <2>1, RemovalClears DEF Cleared, TypeOK
    <3>2. \A c \in Contexts : <<k, c>> \notin live'
      BY <1>3, <2>1, <3>1 DEF Goto
    <3> QED BY <1>1, <2>1, <3>1, <3>2, SilentDocker DEF Running
  <2> QED BY <1>6, <1>7, <2>1 DEF Prepare
<1>8. CASE StartContainer(k)
  <2>1. /\ saved.records[k] = mine[k] /\ wpc[k] = "start" /\ wpc'[k] = "wait" /\ Silent
        /\ live' = live \union {<<k, context[k]>>} /\ output' = [output EXCEPT ![k] = "none"]
        /\ \A j \in Key : j # k => wpc'[j] = wpc[j] /\ output'[j] = output[j]
    BY <1>1, <1>8 DEF StartContainer, Container, Goto, TypeOK
  <2>2. mine[k].status = "running" /\ Place(mine[k]) = {context[k]}
    BY <1>1, <2>1, AtWork DEF RecordInv, WorkerSound, Running, Place
  <2>3. \A c \in Contexts : <<k, c>> \in live' => c = context[k]
    BY <1>3, <2>1
  <2>4. saved.records[k].status # "complete" /\ mine[k].status # "complete"
    BY <2>1, <2>2
  <2> QED BY <1>1, <2>1, <2>2, <2>3, <2>4, StepDocker DEF Silent
<1>9. CASE Wait(k)
  <2>1. CASE Container(k) \notin live /\ Goto(k, "wait", "check") /\ Silent /\ UNCHANGED live
    <3>1. \A c \in Contexts : <<k, c>> \notin live'
      BY <1>3, <2>1 DEF Container
    <3>2. output' = output
      BY <1>9 DEF Wait
    <3> QED BY <1>1, <2>1, <3>1, <3>2, SilentDocker DEF Running
  <2> QED BY <1>6, <1>9, <2>1 DEF Wait
<1>10. CASE Check(k)
  <2>1. CASE wpc[k] = "check" /\ UNCHANGED <<live, output>>
    <3>1. \A c \in Contexts : <<k, c>> \notin live
      BY <1>3, <2>1
    <3>2. CASE output[k] = "good" /\ Goto(k, "check", "result") /\ Report(k, "complete", mine[k].attempts)
      BY <1>1, <2>1, <3>1, <3>2, ReportDocker DEF Running
    <3>3. CASE Goto(k, "check", "raise") /\ Report(k, "invalid", mine[k].attempts)
      BY <1>1, <2>1, <3>1, <3>3, ReportDocker DEF Running
    <3> QED BY <1>6, <1>10, <3>2, <3>3 DEF Check
  <2> QED BY <1>6, <1>10, <2>1 DEF Check, Goto
<1>11. CASE Adopt(k)
  <2>1. live' = live /\ output' = output /\ Goto(k, "adopt", "watch")
    BY <1>11 DEF Adopt, world
  <2>2. CASE Report(k, "running", mine[k].attempts)
    BY <1>1, <2>1, <2>2, ReportDocker DEF Running
  <2>3. CASE Silent
    BY <1>1, <2>1, <2>3, SilentDocker DEF Running
  <2> QED BY <1>11, <2>2, <2>3 DEF Adopt
<1>12. CASE AdoptRaises(k)
  BY <1>12 DEF AdoptRaises
<1>13. CASE Watch(k)
  <2>1. Silent /\ output' = output
    BY <1>13 DEF Watch
  <2>2. CASE Container(k) \notin live /\ Goto(k, "watch", "examine") /\ UNCHANGED live
    <3>1. \A c \in Contexts : <<k, c>> \notin live'
      BY <1>3, <2>2 DEF Container
    <3> QED BY <1>1, <2>1, <2>2, <3>1, SilentDocker DEF Running
  <2>3. CASE Goto(k, "watch", "raise") /\ live' \in Removal(k)
    <3>1. live' \subseteq live /\ \A c \in Contexts : <<k, c>> \notin live'
      BY <1>3, <2>3, RemovalClears DEF Cleared, Container
    <3> QED BY <1>1, <2>1, <2>3, <3>1, SilentDocker DEF Running
  <2> QED BY <1>13, <2>2, <2>3 DEF Watch
<1>14. CASE Examine(k)
  <2>1. live' = live /\ output' = output /\ wpc[k] = "examine"
    BY <1>14 DEF Examine, world, Goto
  <2>2. \A c \in Contexts : <<k, c>> \notin live
    BY <1>3, <2>1
  <2>3. CASE output[k] = "good" /\ Goto(k, "examine", "result") /\ Report(k, "complete", mine[k].attempts)
    BY <1>1, <2>1, <2>2, <2>3, ReportDocker DEF Running
  <2>4. CASE Goto(k, "examine", "raise") /\ Silent
    BY <1>1, <2>1, <2>2, <2>4, SilentDocker DEF Running
  <2> QED BY <1>14, <2>3, <2>4 DEF Examine
<1> QED BY <1>4, <1>5, <1>7, <1>8, <1>9, <1>10, <1>11, <1>12, <1>13, <1>14 DEF Worker

\* what ends was not complete
LEMMA ContainerEndsDocker ==
  ASSUME RecordInv, DockerInv, NEW k \in Key, NEW c \in Contexts, ContainerEnds(k, c)
  PROVE  DockerInv'
<1>1. /\ UNCHANGED <<pc, active, inherited, records, context, wpc, mine, mail, saved>> /\ Drained' = Drained
      /\ live' \subseteq live /\ \A j \in Key : j # k => output'[j] = output[j]
  BY Facts DEF ContainerEnds, main, workers, Drained, TypeOK
<1>2. saved.records[k].status # "complete" /\ Drained[k].status # "complete"
  <2>1. Place(saved.records[k]) = {c} /\ (pc # "down" => Place(Drained[k]) = {c})
    BY DEF ContainerEnds, DockerInv, LiveKnown
  <2>2. pc = "down" => Drained[k].status = "none"
    BY Facts, RecordTypes DEF RecordInv, Remembers, Blank
  <2> QED BY <2>1, <2>2 DEF Place
<1>3. ContextSound' /\ LiveKnown' /\ OutputGood'
  BY <1>1, <1>2 DEF DockerInv, ContextSound, LiveKnown, OutputGood
<1>4. \A b \in Contexts : Held(b)' = Held(b) /\ Filed(b)' = Filed(b)
  BY <1>1 DEF Held, Filed
<1> QED BY <1>3, <1>4 DEF DockerInv, Fits

LEMMA NextDocker ==
  ASSUME RecordInv, DockerInv, RecordInv', Prompt, Fallible = {} \/ (Answers /\ Removes), [Next]_vars
  PROVE  DockerInv'
<1>1. CASE Drain \/ CollectDone \/ (\E k \in Key : BridgeCheck(k)) \/ GuardsDone \/ AnalysesDone \/ CommandFails
           \/ LaunchDone \/ (\E d \in Date : Analyse(d)) \/ Poll \/ Save \/ Finish
  <2>1. /\ pc # "down" /\ pc' # "down" /\ UNCHANGED <<inherited, active, context, wpc, mine, live, output>>
        /\ saved'.records \in {saved.records, Drained}
        /\ (records' = records /\ mail' = mail) \/ (records' = Drained /\ mail' = Emptied)
    BY <1>1 DEF Drain, CollectDone, BridgeCheck, GuardsDone, AnalysesDone, CommandFails, LaunchDone, Analyse, Poll,
                Save, Finish, GuardDue, AnalysisDue, Update, Write, main, workers, world
  <2>2. Drained' = Drained
    BY <2>1, TakesOver DEF Drained
  <2> QED BY <2>1, <2>2, MainDocker
<1>2. CASE PoolClosed \/ Summarise \/ Crash
  <2>1. /\ pc # "down" /\ Stop /\ UNCHANGED <<live, output>> /\ saved'.records \in {saved.records, Drained}
    BY <1>2, Facts DEF PoolClosed, Summarise, Crash, Write, TypeOK
  <2> QED BY <2>1, StopsDocker
<1>3. CASE UNCHANGED vars
  <2>1. Drained' = Drained
    BY <1>3 DEF vars, main, workers, Drained
  <2>2. CASE pc # "down"
    BY <1>3, <2>1, <2>2, MainDocker DEF vars, main, workers, world
  <2>3. CASE pc = "down"
    BY <1>3, <2>1, <2>3 DEF vars, main, workers, world, DockerInv, ContextSound, LiveKnown, OutputGood, Fits, Held, Filed
  <2> QED BY <2>2, <2>3
<1> QED BY <1>1, <1>2, <1>3, CollectDocker, LaunchDocker, RestartDocker, WorkerDocker, ContainerEndsDocker
        DEF Next, MainThread, Docker

\* the inductive invariant of the containers
THEOREM DockerInvariance ==
  ASSUME Prompt, Fallible = {} \/ (Answers /\ Removes)
  PROVE  Spec => [](RecordInv /\ DockerInv)
<1>1. Init => RecordInv /\ DockerInv
  BY InitRecords, InitDocker
<1>2. RecordInv /\ DockerInv /\ [Next]_vars => (RecordInv /\ DockerInv)'
  BY NextRecords, NextDocker
<1> QED BY <1>1, <1>2, PTL DEF Spec

LEMMA ContainersAreKept ==
  ASSUME RecordInv, DockerInv
  PROVE  ContainersKept
<1>1. ASSUME NEW k \in Key
      PROVE  Cardinality(LiveOf(k)) <= 1
  <2>1. CASE LiveOf(k) = {}
    BY <2>1, FS_EmptySet
  <2>2. CASE LiveOf(k) # {}
    <3>1. PICK c \in Contexts : <<k, c>> \in live
      BY <2>2 DEF LiveOf
    <3>2. LiveOf(k) = {c}
      BY <3>1 DEF LiveOf, DockerInv, LiveKnown
    <3> QED BY <3>2, FS_Singleton
  <2> QED BY <2>1, <2>2
<1>2. ASSUME NEW k \in Key, saved.records[k].status = "complete" \/ (pc # "down" /\ IsComplete(k))
      PROVE  output[k] = "good" /\ LiveOf(k) = {}
  <2>1. saved.records[k].status = "complete" \/ (pc # "down" /\ Drained[k].status = "complete")
    BY <1>2, DrainedKnown
  <2> QED BY <2>1 DEF DockerInv, OutputGood, LiveKnown, LiveOf, Place
<1> QED BY <1>1, <1>2 DEF ContainersKept, OneContainer, CompleteIsQuiet

\* A replay never has containers in two contexts, and a complete one has its artifacts
\* and no container, whatever is killed, adopted and launched, as long as a record is saved
\* before its container starts and either no replay fails, or nothing raises while a worker
\* adopts and each docker rm and docker stop does what it is told (choose_backend, adopt,
\* and the unchecked docker rm of replay).
THEOREM ContainersStayKept ==
  ASSUME Prompt, Fallible = {} \/ (Answers /\ Removes)
  PROVE  Spec => []ContainersKept
<1>1. RecordInv /\ DockerInv => ContainersKept
  BY ContainersAreKept
<1> QED BY <1>1, DockerInvariance, PTL

LEMMA SlotsAreKept ==
  ASSUME DockerInv
  PROVE  SlotsKept
<1> SUFFICES ASSUME NEW c \in Contexts
             PROVE  Cardinality({k \in Key : <<k, c>> \in live}) <= Slots[c]
  BY DEF SlotsKept
<1>1. {k \in Key : <<k, c>> \in live} \subseteq Filed(c) /\ Filed(c) \in SUBSET Key
  BY DEF Filed, DockerInv, LiveKnown
<1> QED BY <1>1, SmallerFits, NoneFits DEF DockerInv, Fits

\* No context runs more containers than it has slots, those that outlived the process
\* included, because the replays to be adopted go first (choose_backend, run); under the
\* conditions of ContainersStayKept, without which a container that nothing records is in
\* no slot.
THEOREM SlotsStayKept ==
  ASSUME Prompt, Fallible = {} \/ (Answers /\ Removes)
  PROVE  Spec => []SlotsKept
<1>1. RecordInv /\ DockerInv => SlotsKept
  BY SlotsAreKept
<1> QED BY <1>1, DockerInvariance, PTL
=============================================================================
