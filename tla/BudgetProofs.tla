---------------------------- MODULE BudgetProofs ----------------------------
(***************************************************************************)
(* Proofs about the wall-clock budget, for any number of phases and        *)
(* processes, any of which may be killed at any step: they share one       *)
(* deadline, nothing they start runs past it or past its own record, and   *)
(* a phase that is not started twice at once is tried once.                *)
(***************************************************************************)
EXTENDS Budget, FiniteSetTheorems, TLAPS

\* places before the launch, and places at which the record has been read
Ahead == {"idle", "create", "fill", "read", "pilot", "check", "launch"}
Underway == {"pilot", "check", "launch", "wait", "remove", "record"}

\* A file is filled while it is empty and read when it exists, what a process
\* records is how its command came to an end, and who has read the record has
\* the deadline in it.
Fine(p) ==
  /\ pc[p] = "fill" => budget = Empty
  /\ pc[p] = "read" => budget # Nothing
  /\ pc[p] = "remove" => code[p] # Nothing
  /\ pc[p] = "record" => code[p] \notin {Nothing, "raise"}
  /\ pc[p] \in Underway => deadline[p] = budget

\* One process at a time fills the file.
OneFills == \A p, q \in Proc : pc[p] = "fill" /\ pc[q] = "fill" => p = q

FileInv == TypeOK /\ OneFills /\ \A p \in Proc : Fine(p)

\* What is started is started by the launch, and a container by a pilot.
ChildSound(p) ==
  /\ pc[p] \in Ahead => child[p] = "none" /\ p \notin live
  /\ child[p] \in {"starting", "running"} => pc[p] \in {"wait", "dead"}
  /\ child[p] = "starting" => p \notin live /\ IsPilot(p)
  /\ p \in live => IsPilot(p)
  /\ pc[p] = "wait" /\ child[p] \in {"ended", "failed"} => p \notin live

Punctual(p) == Slow(p) => late[p] <= Lag

\* The time a process set for itself, counted from the step that set it:
\* every step that follows may take a Lag of what is kept in reserve.
InReserve(p) ==
  /\ pc[p] = "check" /\ IsPilot(p) => limit[p] + (now - late[p]) + PilotReserve <= budget
  /\ pc[p] = "launch" => until[p] + (now - late[p]) + Reserve <= budget
  /\ pc[p] = "launch" /\ IsPilot(p) =>
       /\ limit[p] + (now - late[p]) + PilotReserve <= budget + Lag
       /\ limit[p] + PilotExtra <= until[p]

\* A wait is over in time, and a container before the wait for it.
WaitSound(p) == pc[p] = "wait" =>
  /\ until[p] + Reserve <= budget + Lag /\ now <= until[p] + Lag
  /\ child[p] = "starting" => limit[p] + (now - late[p]) + PilotExtra <= until[p]
  /\ p \in live => limit[p] < until[p]

\* A container gives up in time, whoever is left to wait for it.
ContainerSound(p) ==
  /\ child[p] = "starting" =>
       budget \in Nat /\ limit[p] + (now - late[p]) + PilotReserve <= budget + 2 * Lag
  /\ p \in live => budget \in Nat /\ now <= limit[p] /\ limit[p] <= budget

\* What is removed, unless an interrupt is the reason, is over by then.
OverSound(p) ==
  /\ pc[p] \in {"record", "done"} => ~Uses(p)
  /\ pc[p] = "remove" /\ code[p] # "raise" => ~Uses(p)

TimeOf(p) ==
  /\ ChildSound(p) /\ Punctual(p) /\ InReserve(p) /\ WaitSound(p) /\ ContainerSound(p) /\ OverSound(p)

RecordedDone == \A i \in DOMAIN phases : pc[phases[i].by] = "done"

TimeInv == (\A p \in Proc : TimeOf(p)) /\ RecordedDone

\* No two processes of a phase are at work.
OneAtWork == \A p, q \in Proc : Started(p) /\ Started(q) /\ NameOf[p] = NameOf[q] => p = q

\* Who is about to open a log finds none; a container that has run is the only
\* one of its phase.
TriedOnce ==
  /\ \A p \in Proc : pc[p] = "launch" => log[NameOf[p]] = {}
  /\ \A n \in Phase : \A p, q \in log[n] : p = q
  /\ \A p \in Proc : child[p] # "none" => p \in log[NameOf[p]]
  /\ \A p \in live : child[p] \notin {"none", "starting"}
  /\ \A n \in Phase : out[n] # Nothing => \E p \in log[n] : child[p] \notin {"none", "starting"}
  /\ \A p \in Proc : pc[p] \in Ahead => child[p] = "none"

ClosingSound == cpc \in {"ps", "write", "closed"} => Evidence

EvidenceInv == OneAtWork /\ TriedOnce /\ ClosingSound

-----------------------------------------------------------------------------
(* One deadline *)

\* The lesser of two numbers, as Min of a pair gives it (min() in Budget.run
\* and run_pilot.run).
LEMMA LeastIs ==
  ASSUME NEW x \in Int, NEW y \in Int
  PROVE  LeastOf(x, y) \in Int /\ LeastOf(x, y) \in {x, y} /\ LeastOf(x, y) <= x /\ LeastOf(x, y) <= y
<1>1. \E m \in {x, y} : \A z \in {x, y} : m <= z
  <2>1. CASE x <= y  BY <2>1
  <2>2. CASE ~(x <= y)  BY <2>2
  <2>. QED  BY <2>1, <2>2
<1>. QED  BY <1>1 DEF LeastOf, Min

\* What the proofs use of the constants.
LEMMA Constants ==
  /\ NameOf \in [Proc -> Phase] /\ Nothing \notin Nat /\ Empty \notin Nat /\ Empty # Nothing
  /\ {Limit, Reserve, Maximum, PilotMaximum, PilotLeast, PilotReserve, PilotExtra, Lag} \subseteq Nat
  /\ MaxTime \in Nat /\ MaxCrashes \in Nat /\ PilotReserve < PilotLeast
  /\ Nothing \notin {"ended", "failed", "expired", "raise", "partial", "complete"}
BY BudgetAssumption

\* The process's variables have the type TypeOK gives them.
ProcessType ==
  /\ pc \in [Proc -> Over \cup Ahead \cup {"wait", "remove", "record"}]
  /\ deadline \in [Proc -> Nat] /\ limit \in [Proc -> Nat]
  /\ until \in [Proc -> Nat] /\ late \in [Proc -> Nat]
  /\ code \in [Proc -> {Nothing, "ended", "failed", "expired", "raise"}]
  /\ child \in [Proc -> {"none", "starting", "running", "ended", "failed"}]

SharedType ==
  /\ now \in 0..MaxTime /\ crashes \in 0..MaxCrashes /\ closed \in BOOLEAN
  /\ budget \in Nat \cup {Nothing, Empty}
  /\ log \in [Phase -> SUBSET Proc] /\ live \subseteq Proc
  /\ out \in [Phase -> {Nothing, "partial", "complete"}]
  /\ phases \in Seq([phase : Phase, by : Proc, code : {"ended", "failed", "expired"}])
  /\ cpc \in {"idle", "ps", "write", "closed"}

LEMMA TypeIs == TypeOK <=> ProcessType /\ SharedType
BY DEF TypeOK, ProcessType, SharedType, Over, Ahead

\* A process other than p keeps its place, its code and its deadline.
OthersKeep(p) ==
  \A q \in Proc \ {p} : pc'[q] = pc[q] /\ code'[q] = code[q] /\ deadline'[q] = deadline[q]

\* what Goto makes of a process and leaves of the others
Went(p, place) ==
  /\ pc' \in [Proc -> Over \cup Ahead \cup {"wait", "remove", "record"}] /\ late' \in [Proc -> Nat]
  /\ pc'[p] = place /\ late'[p] = 0
  /\ \A q \in Proc \ {p} : pc'[q] = pc[q] /\ late'[q] = late[q]

LEMMA GotoIs ==
  ASSUME ProcessType, NEW p \in Proc, NEW place \in Ahead \cup {"wait", "remove", "record"}, Goto(p, place)
  PROVE  Went(p, place)
BY DEF ProcessType, Goto, Ahead, Went

\* what Ends makes of a process and leaves of the others
Ended(p, place) ==
  /\ pc' \in [Proc -> Over \cup Ahead \cup {"wait", "remove", "record"}] /\ late' \in [Proc -> Nat]
  /\ code' \in [Proc -> {Nothing, "ended", "failed", "expired", "raise"}]
  /\ deadline' \in [Proc -> Nat] /\ until' \in [Proc -> Nat]
  /\ pc'[p] = place /\ code'[p] = Nothing /\ late'[p] = (IF place = "dead" THEN late[p] ELSE 0)
  /\ until'[p] = 0 /\ deadline'[p] = 0
  /\ \A q \in Proc \ {p} : pc'[q] = pc[q] /\ late'[q] = late[q] /\ until'[q] = until[q]
                         /\ code'[q] = code[q] /\ deadline'[q] = deadline[q]

LEMMA EndsIs ==
  ASSUME ProcessType, NEW p \in Proc, NEW place \in Over, Ends(p, place)
  PROVE  Ended(p, place)
<1>1. code' \in [Proc -> {Nothing, "ended", "failed", "expired", "raise"}]  BY DEF ProcessType, Ends
<1>2. deadline' \in [Proc -> Nat] /\ until' \in [Proc -> Nat]  BY DEF ProcessType, Ends
<1>3. pc' \in [Proc -> Over \cup Ahead \cup {"wait", "remove", "record"}] /\ late' \in [Proc -> Nat]
  BY DEF ProcessType, Ends
<1>4. pc'[p] = place /\ code'[p] = Nothing /\ late'[p] = (IF place = "dead" THEN late[p] ELSE 0)
      /\ until'[p] = 0 /\ deadline'[p] = 0
  BY DEF ProcessType, Ends
<1>5. \A q \in Proc \ {p} : pc'[q] = pc[q] /\ late'[q] = late[q] /\ until'[q] = until[q]
                            /\ code'[q] = code[q] /\ deadline'[q] = deadline[q]
  BY DEF ProcessType, Ends
<1>. QED  BY <1>1, <1>2, <1>3, <1>4, <1>5 DEF Ended

Sound == ProcessType /\ OneFills /\ \A p \in Proc : Fine(p)

LEMMA FileIs == FileInv <=> Sound /\ SharedType
BY TypeIs DEF FileInv, Sound

\* A step of p that is right about p is right about all: budget.json is made
\* where there is none and filled by who made it, and then it stays.
LEMMA OthersFine ==
  ASSUME Sound, NEW p \in Proc, OthersKeep(p), Fine(p)',
         \/ budget' = budget
         \/ budget = Nothing /\ budget' = Empty
         \/ pc[p] = "fill" /\ pc'[p] # "fill" /\ budget' \in Nat,
         pc'[p] = "fill" => budget = Nothing
  PROVE  OneFills' /\ \A q \in Proc : Fine(q)'
<1>1. ProcessType /\ OneFills /\ \A q \in Proc : Fine(q)  BY DEF Sound
<1>2. ASSUME NEW q \in Proc \ {p} PROVE Fine(q)'
  <2>1. Fine(q) /\ deadline[q] \in Nat  BY <1>1 DEF ProcessType
  <2>2. pc'[q] = pc[q] /\ code'[q] = code[q] /\ deadline'[q] = deadline[q]  BY DEF OthersKeep
  <2>3. CASE budget' = budget  BY <2>1, <2>2, <2>3 DEF Fine
  <2>4. CASE budget = Nothing /\ budget' = Empty  BY <2>1, <2>2, <2>4, Constants DEF Fine
  <2>5. CASE pc[p] = "fill" /\ budget' \in Nat
    <3>1. budget = Empty /\ pc[q] # "fill"  BY <1>1, <2>5 DEF Fine, OneFills
    <3>. QED  BY <2>1, <2>2, <2>5, <3>1, Constants DEF Fine
  <2>. QED  BY <2>3, <2>4, <2>5
<1>3. OneFills'
  <2>1. \A q \in Proc \ {p} : pc'[q] = "fill" => pc[q] = "fill" /\ budget = Empty
    BY <1>1 DEF OthersKeep, Fine
  <2>. QED  BY <1>1, <2>1, Constants DEF OneFills
<1>. QED  BY <1>2, <1>3

\* A process that ends leaves budget.json and the other processes alone.
LEMMA EndsSound ==
  ASSUME Sound, NEW p \in Proc, NEW place \in Over, Ends(p, place), budget' = budget,
         limit' \in [Proc -> Nat], child' \in [Proc -> {"none", "starting", "running", "ended", "failed"}]
  PROVE  Sound'
<1>1. ProcessType' /\ OthersKeep(p) /\ pc'[p] = place  BY EndsIs DEF Sound, ProcessType, OthersKeep, Ended
<1>2. Fine(p)'  BY <1>1 DEF Fine, Over, Underway
<1>3. pc'[p] # "fill"  BY <1>1 DEF Over
<1>. QED  BY <1>1, <1>2, <1>3, OthersFine DEF Sound

\* A process that goes to its next place, with what it has to know there.
LEMMA GotoSound ==
  ASSUME Sound, NEW p \in Proc, NEW place \in Ahead \cup {"wait", "remove", "record"}, Goto(p, place),
         limit' \in [Proc -> Nat] /\ until' \in [Proc -> Nat] /\ deadline' \in [Proc -> Nat],
         code' \in [Proc -> {Nothing, "ended", "failed", "expired", "raise"}],
         child' \in [Proc -> {"none", "starting", "running", "ended", "failed"}],
         \A q \in Proc \ {p} : code'[q] = code[q] /\ deadline'[q] = deadline[q],
         Went(p, place) => Fine(p)',
         \/ budget' = budget
         \/ budget = Nothing /\ budget' = Empty
         \/ pc[p] = "fill" /\ place # "fill" /\ budget' \in Nat,
         place = "fill" => budget = Nothing
  PROVE  Sound'
<1>1. Went(p, place)  BY GotoIs DEF Sound
<1>2. ProcessType' /\ OthersKeep(p) /\ pc'[p] = place  BY <1>1 DEF ProcessType, OthersKeep, Went
<1>. QED  BY <1>1, <1>2, OthersFine DEF Sound

\* Every step keeps FileInv: one lemma for the steps of a process up to its
\* launch, one for those after it.
LEMMA FirstStepsFile ==
  ASSUME FileInv, NEW p \in Proc,
         Start(p) \/ Create(p) \/ Fill(p) \/ Read(p) \/ Prepare(p) \/ Check(p) \/ Launch(p)
  PROVE  FileInv'
<1>. USE Constants DEF files
<1>1. Sound /\ SharedType /\ ProcessType /\ OneFills /\ Fine(p)  BY FileIs DEF Sound
<1>2. now \in Nat /\ deadline[p] \in Nat /\ limit[p] \in Nat /\ until[p] \in Nat
  BY <1>1 DEF ProcessType, SharedType
<1>. SUFFICES Sound' /\ SharedType'  BY FileIs, PTL
<1>3. CASE Raise(p)
  <2>1. Sound'  BY <1>1, <1>3, EndsSound DEF Raise, Over, ProcessType
  <2>. QED  BY <1>1, <1>3, <2>1 DEF Raise, SharedType
<1>4. ASSUME Start(p) PROVE Sound' /\ SharedType'
  <2>1. PICK place \in {"create", "read"} : Goto(p, place)  BY <1>4 DEF Start
  <2>2. deadline' \in [Proc -> Nat] /\ \A q \in Proc \ {p} : deadline'[q] = deadline[q]
    BY <1>1, <1>2, <1>4 DEF Start, ProcessType
  <2>3. Went(p, place) => Fine(p)'  BY <1>1, <1>4, <2>1 DEF Start, Fine, Underway, Went, Goto
  <2>6. limit' = limit /\ until' = until /\ code' = code /\ child' = child /\ budget' = budget
    BY <1>2, <1>4 DEF Start
  <2>7. Sound'
    BY <1>1, <2>1, <2>2, <2>3, <2>6, GotoSound DEF Ahead, ProcessType
  <2>. QED  BY <1>1, <1>2, <1>4, <2>7 DEF Start, SharedType
<1>5. ASSUME Create(p), ~Raise(p) PROVE Sound' /\ SharedType'
  <2>1. PICK place \in {"fill"} : Goto(p, place)  BY <1>5 DEF Create
  <2>2. deadline' \in [Proc -> Nat] /\ \A q \in Proc \ {p} : deadline'[q] = deadline[q]
    BY <1>1, <1>5 DEF Create, ProcessType
  <2>3. Went(p, place) => Fine(p)'  BY <1>1, <1>5, <2>1 DEF Create, Fine, Underway, Went
  <2>6. limit' = limit /\ until' = until /\ code' = code /\ child' = child /\ budget = Nothing /\ budget' = Empty
    BY <1>2, <1>5 DEF Create
  <2>7. Sound'
    BY <1>1, <2>1, <2>2, <2>3, <2>6, GotoSound DEF Ahead, ProcessType
  <2>. QED  BY <1>1, <1>2, <1>5, <2>7 DEF Create, SharedType
<1>6. ASSUME Fill(p) PROVE Sound' /\ SharedType'
  <2>1. PICK place \in {"read"} : Goto(p, place)  BY <1>6 DEF Fill
  <2>2. deadline' \in [Proc -> Nat] /\ \A q \in Proc \ {p} : deadline'[q] = deadline[q]
    BY <1>1, <1>6 DEF Fill, ProcessType
  <2>3. Went(p, place) => Fine(p)'  BY <1>1, <1>2, <1>6, <2>1 DEF Fill, Fine, Underway, Went
  <2>6. limit' = limit /\ until' = until /\ code' = code /\ child' = child /\ pc[p] = "fill" /\ budget' \in Nat
    BY <1>2, <1>6 DEF Fill
  <2>7. Sound'
    BY <1>1, <2>1, <2>2, <2>3, <2>6, GotoSound DEF Ahead, ProcessType
  <2>. QED  BY <1>1, <1>2, <1>6, <2>7 DEF Fill, SharedType
<1>7. ASSUME Read(p), ~Raise(p) PROVE Sound' /\ SharedType'
  <2>1. PICK place \in {"pilot", "check"} : Goto(p, place)  BY <1>7 DEF Read
  <2>4. budget \in Nat  BY <1>1, <1>7 DEF Read, Fine, SharedType
  <2>2. deadline' \in [Proc -> Nat] /\ \A q \in Proc \ {p} : deadline'[q] = deadline[q]
    BY <1>1, <1>7, <2>4 DEF Read, ProcessType
  <2>5. deadline'[p] = budget /\ budget' = budget  BY <1>1, <1>7 DEF Read, ProcessType
  <2>3. Went(p, place) => Fine(p)'  BY <1>1, <2>1, <2>5 DEF Fine, Underway, Went
  <2>6. limit' = limit /\ until' = until /\ code' = code /\ child' = child /\ budget' = budget
    BY <1>2, <1>7 DEF Read
  <2>7. Sound'
    BY <1>1, <2>1, <2>2, <2>3, <2>6, GotoSound DEF Ahead, ProcessType
  <2>. QED  BY <1>1, <1>2, <1>7, <2>7 DEF Read, SharedType
<1>8. ASSUME Prepare(p), ~Raise(p) PROVE Sound' /\ SharedType'
  <2>1. PICK place \in {"check"} : Goto(p, place)  BY <1>8 DEF Prepare
  <2>4. PilotLimit(p) \in Nat
    <3>1. deadline[p] - now - PilotReserve \in Nat  BY <1>2, <1>8 DEF Prepare, TooLate
    <3>. QED  BY <3>1, LeastIs DEF PilotLimit
  <2>5. limit' \in [Proc -> Nat]  BY <1>1, <1>8, <2>4 DEF Prepare, ProcessType
  <2>2. deadline' \in [Proc -> Nat] /\ \A q \in Proc \ {p} : deadline'[q] = deadline[q]
    BY <1>1, <1>8 DEF Prepare, ProcessType
  <2>3. Went(p, place) => Fine(p)'  BY <1>1, <1>8, <2>1 DEF Prepare, Fine, Underway, Went
  <2>6. limit' \in [Proc -> Nat] /\ until' = until /\ code' = code /\ child' = child /\ budget' = budget
    BY <1>2, <1>8, <2>5 DEF Prepare
  <2>7. Sound'
    BY <1>1, <2>1, <2>2, <2>3, <2>6, GotoSound DEF Ahead, ProcessType
  <2>. QED  BY <1>1, <1>2, <1>8, <2>7 DEF Prepare, SharedType
<1>9. ASSUME Check(p), ~Raise(p) PROVE Sound' /\ SharedType'
  <2>1. PICK place \in {"launch"} : Goto(p, place)  BY <1>9 DEF Check
  <2>4. LeastOf(Allowed(p), Remaining(p)) \in Nat
    <3>1. Remaining(p) \in Nat /\ Allowed(p) \in Nat  BY <1>2, <1>9 DEF Check, Remaining, Allowed
    <3>2. LeastOf(Allowed(p), Remaining(p)) \in {Allowed(p), Remaining(p)}  BY <3>1, LeastIs
    <3>. QED  BY <3>1, <3>2
  <2>5. until' \in [Proc -> Nat]  BY <1>1, <1>9, <2>4 DEF Check, ProcessType
  <2>2. deadline' \in [Proc -> Nat] /\ \A q \in Proc \ {p} : deadline'[q] = deadline[q]
    BY <1>1, <1>9 DEF Check, ProcessType
  <2>3. Went(p, place) => Fine(p)'  BY <1>1, <1>9, <2>1 DEF Check, Fine, Underway, Went
  <2>6. limit' = limit /\ until' \in [Proc -> Nat] /\ code' = code /\ child' = child /\ budget' = budget
    BY <1>2, <1>9, <2>5 DEF Check
  <2>7. Sound'
    BY <1>1, <2>1, <2>2, <2>3, <2>6, GotoSound DEF Ahead, ProcessType
  <2>. QED  BY <1>1, <1>2, <1>9, <2>7 DEF Check, SharedType
<1>10. ASSUME Launch(p) PROVE Sound' /\ SharedType'
  <2>1. SharedType'
    <3>1. log' \in [Phase -> SUBSET Proc]  BY <1>1, <1>10 DEF Launch, SharedType
    <3>. QED  BY <1>1, <1>10, <3>1 DEF Launch, SharedType
  <2>2. budget' = budget /\ limit' = limit  BY <1>10 DEF Launch
  <2>3. CASE Ends(p, "raised") /\ UNCHANGED child
    <3>1. "raised" \in Over  BY DEF Over
    <3>. QED  BY <1>1, <2>1, <2>2, <2>3, <3>1, EndsSound DEF ProcessType
  <2>4. CASE Goto(p, "wait") /\ UNCHANGED <<deadline, code>> /\ until' = [until EXCEPT ![p] = now + @]
             /\ child' = [child EXCEPT ![p] = IF IsPilot(p) THEN "starting" ELSE "running"]
    <3>1. until' \in [Proc -> Nat]  BY <1>1, <1>2, <2>4 DEF ProcessType
    <3>2. child' \in [Proc -> {"none", "starting", "running", "ended", "failed"}]  BY <1>1, <2>4 DEF ProcessType
    <3>3. Went(p, "wait") => Fine(p)'  BY <1>1, <1>10, <2>2, <2>4 DEF Launch, Fine, Underway, Went
    <3>4. deadline' = deadline /\ code' = code  BY <2>4
    <3>. QED  BY <1>1, <2>1, <2>2, <2>4, <3>1, <3>2, <3>3, <3>4, GotoSound DEF ProcessType
  <2>. QED  BY <1>10, <2>1, <2>3, <2>4 DEF Launch
<1>. QED  BY <1>3, <1>4, <1>5, <1>6, <1>7, <1>8, <1>9, <1>10

LEMMA LastStepsFile ==
  ASSUME FileInv, NEW p \in Proc,
         Returns(p) \/ Expires(p) \/ Interrupt(p) \/ Remove(p) \/ Record(p) \/ Crash(p)
  PROVE  FileInv'
<1>. USE Constants DEF files
<1>1. Sound /\ SharedType /\ ProcessType /\ OneFills /\ Fine(p)  BY FileIs DEF Sound
<1>. SUFFICES Sound' /\ SharedType'  BY FileIs, PTL
<1>2. ASSUME Waited(p), NEW c \in {"ended", "failed", "expired", "raise"}, code' = [code EXCEPT ![p] = c],
             child' = child \/ Killed(p), UNCHANGED <<now, files, live, deadline, limit, cpc, crashes>>
      PROVE  Sound' /\ SharedType'
  <2>1. Goto(p, "remove") /\ pc[p] = "wait" /\ until' \in [Proc -> Nat]  BY <1>1, <1>2 DEF Waited, ProcessType
  <2>2. child' \in [Proc -> {"none", "starting", "running", "ended", "failed"}]
    BY <1>1, <1>2 DEF Killed, ProcessType
  <2>6. c # Nothing  BY <1>2
  <2>3. code' \in [Proc -> {Nothing, "ended", "failed", "expired", "raise"}] /\ code'[p] # Nothing
        /\ \A q \in Proc \ {p} : code'[q] = code[q]
    BY <1>1, <1>2, <2>6 DEF ProcessType
  <2>4. Went(p, "remove") => Fine(p)'  BY <1>1, <1>2, <2>1, <2>3 DEF Fine, Underway, Went
  <2>5. Sound'  BY <1>1, <1>2, <2>1, <2>2, <2>3, <2>4, GotoSound DEF ProcessType
  <2>. QED  BY <1>1, <1>2, <2>5 DEF SharedType
<1>3. ASSUME Returns(p) PROVE Sound' /\ SharedType'
  BY <1>2, <1>3 DEF Returns
<1>4. ASSUME Expires(p) PROVE Sound' /\ SharedType'
  BY <1>2, <1>4 DEF Expires
<1>5. ASSUME Interrupt(p) PROVE Sound' /\ SharedType'
  BY <1>2, <1>5 DEF Interrupt
<1>6. ASSUME Remove(p) PROVE Sound' /\ SharedType'
  <2>1. SharedType'  BY <1>1, <1>6 DEF Remove, SharedType
  <2>2. limit' \in [Proc -> Nat]  BY <1>1, <1>6 DEF Remove, ProcessType
  <2>3. child' \in [Proc -> {"none", "starting", "running", "ended", "failed"}]
    BY <1>1, <1>6 DEF Remove, ProcessType
  <2>4. pc[p] = "remove" /\ budget' = budget  BY <1>6 DEF Remove
  <2>5. CASE Ends(p, "raised")
    <3>1. "raised" \in Over  BY DEF Over
    <3>. QED  BY <1>1, <2>1, <2>2, <2>3, <2>4, <2>5, <3>1, EndsSound
  <2>6. CASE code[p] # "raise" /\ Goto(p, "record") /\ UNCHANGED <<deadline, until, code>>
    <3>1. Went(p, "record") => Fine(p)'  BY <1>1, <2>4, <2>6 DEF Fine, Underway, Went
    <3>. QED  BY <1>1, <2>1, <2>2, <2>3, <2>4, <2>6, <3>1, GotoSound DEF ProcessType
  <2>. QED  BY <1>6, <2>5, <2>6 DEF Remove
<1>7. ASSUME Record(p) PROVE Sound' /\ SharedType'
  <2>1. code[p] \in {"ended", "failed", "expired"}  BY <1>1, <1>7 DEF Record, Fine, ProcessType
  <2>2. NameOf[p] \in Phase  BY <1>1
  <2>3. [phase |-> NameOf[p], by |-> p, code |-> code[p]] \in
          [phase : Phase, by : Proc, code : {"ended", "failed", "expired"}]
    BY <2>1, <2>2
  <2>4. phases' \in Seq([phase : Phase, by : Proc, code : {"ended", "failed", "expired"}])
    BY <1>1, <1>7, <2>3 DEF Record, SharedType
  <2>5. "done" \in Over  BY DEF Over
  <2>6. Sound'  BY <1>1, <1>7, <2>5, EndsSound DEF Record, ProcessType
  <2>. QED  BY <1>1, <1>7, <2>4, <2>6 DEF Record, SharedType
<1>8. ASSUME Crash(p) PROVE Sound' /\ SharedType'
  <2>1. "dead" \in Over  BY DEF Over
  <2>2. Sound'  BY <1>1, <1>8, <2>1, EndsSound DEF Crash, ProcessType
  <2>. QED  BY <1>1, <1>8, <2>2 DEF Crash, SharedType
<1>. QED  BY <1>3, <1>4, <1>5, <1>6, <1>7, <1>8

\* What is started, closing and the clock leave budget.json, the places, the
\* codes and the deadlines alone.
LEMMA OtherStepsFile ==
  ASSUME FileInv, (\E p \in Proc : Children(p)) \/ Close \/ Tick \/ UNCHANGED vars
  PROVE  FileInv'
<1>. USE Constants DEF files
<1>1. Sound /\ SharedType /\ ProcessType  BY FileIs DEF Sound
<1>2. UNCHANGED <<budget, pc, code, deadline>>
  BY DEF Children, ContainerStarts, ContainerEnds, CommandEnds, Close, CloseEvidence, CloseQuiet, CloseWrite,
         Closing, Tick, process, vars
<1>3. OneFills' /\ \A p \in Proc : Fine(p)'  BY <1>1, <1>2 DEF Sound, OneFills, Fine
<1>. SUFFICES Sound' /\ SharedType'  BY FileIs, PTL
<1>. SUFFICES ProcessType' /\ SharedType'  BY <1>3 DEF Sound
<1>4. ASSUME NEW p \in Proc, ContainerStarts(p) PROVE ProcessType' /\ SharedType'
  <2>1. out' \in [Phase -> {Nothing, "partial", "complete"}] /\ live' \subseteq Proc
    BY <1>1, <1>4 DEF ContainerStarts, SharedType
  <2>2. child' \in [Proc -> {"none", "starting", "running", "ended", "failed"}]
    BY <1>1, <1>4 DEF ContainerStarts, ProcessType
  <2>3. limit' \in [Proc -> Nat]
    <3>2. now \in Nat /\ limit[p] \in Nat  BY <1>1, <1>4 DEF ProcessType, SharedType
    <3>1. now + limit[p] \in Nat  BY <3>2
    <3>. QED  BY <1>1, <1>4, <3>1 DEF ContainerStarts, ProcessType
  <2>. QED  BY <1>1, <1>4, <2>1, <2>2, <2>3 DEF ContainerStarts, ProcessType, SharedType
<1>5. ASSUME NEW p \in Proc, ContainerEnds(p) PROVE ProcessType' /\ SharedType'
  <2>1. out' \in [Phase -> {Nothing, "partial", "complete"}] /\ live' \subseteq Proc
    BY <1>1, <1>5 DEF ContainerEnds, SharedType
  <2>2. child' \in [Proc -> {"none", "starting", "running", "ended", "failed"}] /\ limit' \in [Proc -> Nat]
    BY <1>1, <1>5 DEF ContainerEnds, ProcessType
  <2>. QED  BY <1>1, <1>5, <2>1, <2>2 DEF ContainerEnds, ProcessType, SharedType
<1>6. ASSUME NEW p \in Proc, CommandEnds(p) PROVE ProcessType' /\ SharedType'
  <2>1. child' \in [Proc -> {"none", "starting", "running", "ended", "failed"}]
    BY <1>1, <1>6 DEF CommandEnds, ProcessType
  <2>2. ProcessType'  BY <1>1, <1>6, <2>1 DEF CommandEnds, ProcessType
  <2>3. SharedType'  BY <1>1, <1>6 DEF CommandEnds, SharedType
  <2>. QED  BY <2>2, <2>3
<1>7. ASSUME Close PROVE ProcessType' /\ SharedType'
  BY <1>1, <1>7 DEF Close, CloseEvidence, CloseQuiet, CloseWrite, Closing, process, ProcessType, SharedType
<1>8. ASSUME Tick PROVE ProcessType' /\ SharedType'
  <2>1. now' \in 0..MaxTime  BY <1>1, <1>8 DEF Tick, SharedType
  <2>2. late' \in [Proc -> Nat]  BY <1>1, <1>8 DEF Tick, ProcessType
  <2>. QED  BY <1>1, <1>8, <2>1, <2>2 DEF Tick, ProcessType, SharedType
<1>9. ASSUME UNCHANGED vars PROVE ProcessType' /\ SharedType'
  BY <1>1, <1>9 DEF vars, process, ProcessType, SharedType
<1>. QED  BY <1>4, <1>5, <1>6, <1>7, <1>8, <1>9 DEF Children

LEMMA FileStep == FileInv /\ [Next]_vars => FileInv'
BY FirstStepsFile, LastStepsFile, OtherStepsFile DEF Next, Steps

\* Whatever is started and killed, and whether or not two processes run one
\* phase, the variables have their types and budget.json is made once.
THEOREM FileInvariance == Spec => []FileInv
<1>1. Init => FileInv
  <2>1. ASSUME Init PROVE Sound /\ SharedType
    <3>1. ProcessType  BY <2>1 DEF Init, ProcessType, Ahead
    <3>2. SharedType
      <4>1. 0 \in 0..MaxTime /\ 0 \in 0..MaxCrashes  BY Constants
      <4>2. phases \in Seq([phase : Phase, by : Proc, code : {"ended", "failed", "expired"}])
        BY <2>1 DEF Init
      <4>. QED  BY <2>1, <4>1, <4>2 DEF Init, SharedType
    <3>3. OneFills /\ \A p \in Proc : Fine(p)  BY <2>1 DEF Init, OneFills, Fine, Underway
    <3>. QED  BY <3>1, <3>2, <3>3 DEF Sound
  <2>. QED  BY <2>1, FileIs
<1>. QED  BY <1>1, FileStep, PTL DEF Spec

\* Every variable has its type: in particular the time a pilot gives its
\* command and the time run waits for it are never negative, and what
\* phases.jsonl says of a phase is never the exception that was raised again.
THEOREM TypeCorrect == Spec => []TypeOK
BY FileInvariance, PTL DEF FileInv

\* The exclusive create in Budget.__init__ makes one deadline for all phases.
THEOREM DeadlineIsShared == Spec => []OneDeadline
<1>1. FileInv => OneDeadline  BY DEF FileInv, Fine, Underway, OneDeadline
<1>. QED  BY <1>1, FileInvariance, PTL

-----------------------------------------------------------------------------
(* Nothing runs past its time *)

\* What the invariant says of a process depends on its own variables, the
\* clock and the deadline.
SameFor(q) ==
  /\ pc'[q] = pc[q] /\ child'[q] = child[q] /\ limit'[q] = limit[q] /\ until'[q] = until[q]
  /\ late'[q] = late[q] /\ code'[q] = code[q] /\ (q \in live' <=> q \in live)

LEMMA TimeStays ==
  ASSUME FileInv, NEW q \in Proc, TimeOf(q), SameFor(q), now' = now, budget \in Nat => budget' = budget
  PROVE  TimeOf(q)'
<1>1. Fine(q) /\ deadline[q] \in Nat  BY FileIs DEF Sound, ProcessType
<1>2. pc[q] \in Underway => budget' = budget  BY <1>1 DEF Fine
<1>3. ChildSound(q)' /\ Punctual(q)'  BY DEF TimeOf, ChildSound, Punctual, SameFor, Slow, IsPilot
<1>4. InReserve(q)'  BY <1>2 DEF TimeOf, InReserve, SameFor, IsPilot, Underway
<1>5. WaitSound(q)'  BY <1>2 DEF TimeOf, WaitSound, SameFor, Underway
<1>6. ContainerSound(q)'  BY DEF TimeOf, ContainerSound, SameFor
<1>7. OverSound(q)'  BY DEF TimeOf, OverSound, Uses, SameFor
<1>. QED  BY <1>3, <1>4, <1>5, <1>6, <1>7 DEF TimeOf

LEMMA BudgetStays ==
  ASSUME FileInv, [Next]_vars, budget \in Nat
  PROVE  budget' = budget
<1>1. \A p \in Proc : Fine(p)  BY FileIs DEF Sound
<1>2. ASSUME NEW p \in Proc, Create(p) PROVE budget' = budget  BY <1>2, Constants DEF Create, Raise, files
<1>3. ASSUME NEW p \in Proc, Fill(p) PROVE FALSE  BY <1>1, <1>3, Constants DEF Fill, Fine
<1>4. ASSUME NEW p \in Proc,
             Start(p) \/ Read(p) \/ Prepare(p) \/ Check(p) \/ Launch(p) \/ Returns(p) \/ Expires(p)
             \/ Interrupt(p) \/ Remove(p) \/ Record(p) \/ Crash(p) \/ Children(p)
      PROVE  budget' = budget
  BY <1>4 DEF Start, Read, Prepare, Check, Launch, Returns, Expires, Interrupt, Remove, Record, Crash, Raise,
              Children, ContainerStarts, ContainerEnds, CommandEnds, files
<1>5. ASSUME Close \/ Tick \/ UNCHANGED vars PROVE budget' = budget
  BY <1>5 DEF Close, CloseEvidence, CloseQuiet, CloseWrite, Closing, Tick, vars, files
<1>. QED  BY <1>2, <1>3, <1>4, <1>5 DEF Next, Steps

\* A step of p that keeps phases.jsonl, when p is not done.
LEMMA RecordedStays ==
  ASSUME FileInv, RecordedDone, NEW p \in Proc, pc[p] # "done", phases' = phases,
         \A q \in Proc \ {p} : pc'[q] = pc[q]
  PROVE  RecordedDone'
<1>1. \A i \in DOMAIN phases : phases[i].by \in Proc
  <2>. DEFINE R == [phase : Phase, by : Proc, code : {"ended", "failed", "expired"}]
  <2>1. phases \in Seq(R)  BY FileIs DEF SharedType
  <2>. HIDE DEF R
  <2>2. \A i \in DOMAIN phases : phases[i] \in R  BY <2>1
  <2>. QED  BY <2>2 DEF R
<1>. QED  BY <1>1 DEF RecordedDone

\* A step of p that is right about p is right about all.
LEMMA OneTime ==
  ASSUME FileInv, TimeInv, NEW p \in Proc, pc[p] # "done", phases' = phases, now' = now,
         budget \in Nat => budget' = budget, TimeOf(p)', \A q \in Proc \ {p} : SameFor(q)
  PROVE  TimeInv'
<1>1. \A q \in Proc : TimeOf(q)'  BY TimeStays DEF TimeInv
<1>2. RecordedDone'  BY RecordedStays DEF TimeInv, SameFor
<1>. QED  BY <1>1, <1>2 DEF TimeInv

\* The steps of a process up to its launch: what it sets for itself is in
\* reserve at the time it is set.
LEMMA FirstStepsTime ==
  ASSUME FileInv, TimeInv, NEW p \in Proc, [Next]_vars,
         Start(p) \/ Create(p) \/ Fill(p) \/ Read(p) \/ Prepare(p) \/ Check(p) \/ Launch(p)
  PROVE  TimeInv'
<1>. USE Constants DEF files
<1>1. ProcessType /\ Fine(p) /\ TimeOf(p) /\ now \in Nat /\ (budget \in Nat => budget' = budget)
  BY FileIs, BudgetStays DEF Sound, TimeInv, SharedType
<1>2. deadline[p] \in Nat /\ limit[p] \in Nat /\ until[p] \in Nat /\ late[p] \in Nat
  BY <1>1 DEF ProcessType
<1>3. pc[p] \in Ahead /\ child[p] = "none" /\ p \notin live
  BY <1>1 DEF Start, Create, Fill, Read, Prepare, Check, Launch, Ahead, TimeOf, ChildSound
<1>4. pc[p] # "done" /\ phases' = phases /\ now' = now /\ live' = live
  BY <1>3 DEF Ahead, Start, Create, Fill, Read, Prepare, Check, Launch, Raise
<1>. SUFFICES TimeOf(p)' /\ \A q \in Proc \ {p} : SameFor(q)  BY <1>1, <1>4, OneTime
<1>5. ASSUME NEW place \in Over, Ends(p, place), UNCHANGED <<limit, child>>
      PROVE  TimeOf(p)' /\ \A q \in Proc \ {p} : SameFor(q)
  <2>1. Ended(p, place)  BY <1>1, <1>5, EndsIs
  <2>. QED  BY <1>3, <1>4, <1>5, <2>1 DEF Ended, Over, Ahead, SameFor, TimeOf, ChildSound, Punctual, Slow, InReserve,
                                       WaitSound, ContainerSound, OverSound, Uses
<1>6. CASE Raise(p)
  BY <1>5, <1>6 DEF Raise, Over
<1>7. ASSUME NEW place \in {"create", "fill", "read", "pilot"}, Goto(p, place), UNCHANGED <<limit, until, code, child>>
      PROVE  TimeOf(p)' /\ \A q \in Proc \ {p} : SameFor(q)
  <2>1. Went(p, place)  BY <1>1, <1>7, GotoIs DEF Ahead
  <2>. QED  BY <1>3, <1>4, <1>7, <2>1 DEF Went, SameFor, TimeOf, ChildSound, Punctual, Slow, InReserve,
                                       WaitSound, ContainerSound, OverSound, Uses
<1>8. CASE (Start(p) \/ Create(p) \/ Fill(p)) /\ ~Raise(p)
  BY <1>7, <1>8 DEF Start, Create, Fill
<1>9. CASE Read(p) /\ ~Raise(p)
  <2>1. CASE IsPilot(p)
    BY <1>7, <1>9, <2>1 DEF Read
  <2>2. CASE ~IsPilot(p)
    <3>1. Went(p, "check") /\ UNCHANGED <<limit, until, code, child>>  BY <1>1, <1>9, <2>2, GotoIs DEF Ahead, Read
    <3>. QED  BY <1>3, <1>4, <2>2, <3>1 DEF Went, SameFor, TimeOf, ChildSound, Punctual, Slow, InReserve,
                                         WaitSound, ContainerSound, OverSound, Uses, IsPilot
  <2>. QED  BY <2>1, <2>2
<1>10. CASE Prepare(p) /\ ~Raise(p)
  <2>1. Went(p, "check") /\ UNCHANGED <<until, code, child, budget>> /\ limit' = [limit EXCEPT ![p] = PilotLimit(p)]
    BY <1>1, <1>10, GotoIs DEF Ahead, Prepare
  <2>2. deadline[p] = budget  BY <1>1, <1>10 DEF Prepare, Fine, Underway
  <2>3. limit'[p] <= budget - now - PilotReserve /\ limit'[p] \in Int
    <3>1. deadline[p] - now - PilotReserve \in Int  BY <1>1, <1>2
    <3>2. PilotLimit(p) \in Int /\ PilotLimit(p) <= deadline[p] - now - PilotReserve
      BY <3>1, LeastIs DEF PilotLimit
    <3>. QED  BY <1>1, <2>1, <2>2, <3>2 DEF ProcessType
  <2>4. limit'[p] + (now' - late'[p]) + PilotReserve <= budget'
    BY <1>1, <1>2, <1>4, <2>1, <2>2, <2>3 DEF Went
  <2>5. \A q \in Proc \ {p} : limit'[q] = limit[q]  BY <1>1, <2>1 DEF ProcessType
  <2>. QED  BY <1>3, <1>4, <2>1, <2>4, <2>5 DEF Went, SameFor, TimeOf, ChildSound, Punctual, Slow, InReserve,
                                       WaitSound, ContainerSound, OverSound, Uses
<1>11. CASE Check(p) /\ ~Raise(p)
  <2>1. Went(p, "launch") /\ UNCHANGED <<limit, code, child, budget>> /\ pc[p] = "check"
        /\ until' = [until EXCEPT ![p] = LeastOf(Allowed(p), Remaining(p))]
    BY <1>1, <1>11, GotoIs DEF Ahead, Check
  <2>2. deadline[p] = budget  BY <1>1, <2>1 DEF Fine, Underway
  <2>3. Allowed(p) \in Int /\ Remaining(p) \in Int  BY <1>1, <1>2 DEF Allowed, Remaining
  <2>4. until'[p] \in {Allowed(p), Remaining(p)} /\ until'[p] <= Remaining(p)
    BY <1>1, <2>1, <2>3, LeastIs DEF ProcessType
  <2>5. until'[p] + (now' - late'[p]) + Reserve <= budget'
    BY <1>1, <1>2, <1>4, <2>1, <2>2, <2>3, <2>4 DEF Went, Remaining
  <2>6. ASSUME IsPilot(p)
        PROVE  /\ limit'[p] + (now' - late'[p]) + PilotReserve <= budget' + Lag
               /\ limit'[p] + PilotExtra <= until'[p]
    <3>1. limit[p] + (now - late[p]) + PilotReserve <= budget /\ late[p] <= Lag
      BY <1>1, <2>1, <2>6 DEF TimeOf, InReserve, Punctual, Slow
    <3>2. limit[p] + now + PilotReserve <= budget + Lag  BY <1>1, <1>2, <2>2, <3>1
    <3>3. limit[p] + PilotExtra <= Remaining(p)
      BY <1>1, <1>2, <2>2, <3>2, LagAssumption DEF Remaining
    <3>. QED  BY <1>1, <1>2, <1>4, <2>1, <2>2, <2>4, <2>6, <3>2, <3>3 DEF Went, Allowed
  <2>7. \A q \in Proc \ {p} : until'[q] = until[q]  BY <1>1, <2>1 DEF ProcessType
  <2>8. IsPilot(p)' <=> IsPilot(p)  BY DEF IsPilot
  <2>. QED  BY <1>3, <1>4, <2>1, <2>5, <2>6, <2>7, <2>8 DEF Went, SameFor, TimeOf, ChildSound, Punctual, Slow, InReserve,
                                       WaitSound, ContainerSound, OverSound, Uses
<1>12. CASE Launch(p) /\ ~Ends(p, "raised")
  <2>1. Went(p, "wait") /\ UNCHANGED <<limit, code, budget>> /\ pc[p] = "launch"
        /\ until' = [until EXCEPT ![p] = now + @]
        /\ child' = [child EXCEPT ![p] = IF IsPilot(p) THEN "starting" ELSE "running"]
    BY <1>1, <1>12, GotoIs DEF Launch
  <2>2. deadline[p] = budget  BY <1>1, <2>1 DEF Fine, Underway
  <2>3. until'[p] = now + until[p] /\ child'[p] = (IF IsPilot(p) THEN "starting" ELSE "running")
    BY <1>1, <2>1 DEF ProcessType
  <2>4. until[p] + (now - late[p]) + Reserve <= budget /\ late[p] <= Lag
    BY <1>1, <2>1 DEF TimeOf, InReserve, Punctual, Slow
  <2>5. until'[p] + Reserve <= budget' + Lag /\ now' <= until'[p] + Lag
    BY <1>1, <1>2, <1>4, <2>1, <2>2, <2>3, <2>4
  <2>6. ASSUME IsPilot(p)
        PROVE  /\ budget' \in Nat /\ limit'[p] + (now' - late'[p]) + PilotReserve <= budget' + 2 * Lag
               /\ limit'[p] + (now' - late'[p]) + PilotExtra <= until'[p]
    <3>1. limit[p] + (now - late[p]) + PilotReserve <= budget + Lag /\ limit[p] + PilotExtra <= until[p]
      BY <1>1, <2>1, <2>6 DEF TimeOf, InReserve
    <3>. QED  BY <1>1, <1>2, <1>4, <2>1, <2>2, <2>3, <2>4, <3>1 DEF Went
  <2>7. \A q \in Proc \ {p} : until'[q] = until[q] /\ child'[q] = child[q]  BY <1>1, <2>1 DEF ProcessType
  <2>8. Lag \in Nat /\ late'[p] = 0 /\ pc'[p] = "wait" /\ p \notin live'  BY <1>3, <1>4, <2>1 DEF Went
  <2>9. TimeOf(p)'
    <3>1. ChildSound(p)'  BY <2>3, <2>8 DEF ChildSound, IsPilot, Ahead
    <3>2. Punctual(p)'  BY <2>8 DEF Punctual
    <3>3. InReserve(p)' /\ OverSound(p)'  BY <2>8 DEF InReserve, OverSound
    <3>4. WaitSound(p)'  BY <2>3, <2>5, <2>6, <2>8 DEF WaitSound
    <3>5. ContainerSound(p)'  BY <2>3, <2>6, <2>8 DEF ContainerSound
    <3>. QED  BY <3>1, <3>2, <3>3, <3>4, <3>5 DEF TimeOf
  <2>. QED  BY <1>4, <2>1, <2>7, <2>9 DEF Went, SameFor
<1>13. CASE Launch(p) /\ Ends(p, "raised")
  <2>1. CASE UNCHANGED child
    BY <1>5, <1>13, <2>1 DEF Launch, Over
  <2>2. CASE ~UNCHANGED child
    <3>1. Goto(p, "wait")  BY <1>13, <2>2 DEF Launch
    <3>. QED  BY <1>1, <1>13, <3>1, GotoIs, EndsIs DEF Went, Ended, Over
  <2>. QED  BY <2>1, <2>2
<1>. QED  BY <1>6, <1>8, <1>9, <1>10, <1>11, <1>12, <1>13

\* While a wait may go on, neither it nor the container is past the deadline;
\* a wait that expires finds the container over.
LEMMA WaitingUses ==
  ASSUME FileInv, NEW p \in Proc, TimeOf(p), pc[p] = "wait", now >= until[p]
  PROVE  child[p] # "starting" /\ p \notin live
<1>1. ProcessType /\ now \in Nat /\ Lag \in Nat /\ PilotExtra \in Nat  BY FileIs, Constants DEF Sound, SharedType
<1>2. limit[p] \in Nat /\ until[p] \in Nat /\ late[p] \in Nat  BY <1>1 DEF ProcessType
<1>3. child[p] # "starting"
  <2>1. SUFFICES ASSUME child[p] = "starting" PROVE FALSE  OBVIOUS
  <2>2. late[p] <= Lag /\ limit[p] + (now - late[p]) + PilotExtra <= until[p]
    BY <2>1 DEF TimeOf, Punctual, Slow, WaitSound
  <2>. QED  BY <1>1, <1>2, <2>2, LagAssumption
<1>4. p \notin live
  <2>1. SUFFICES ASSUME p \in live PROVE FALSE  OBVIOUS
  <2>2. limit[p] < until[p] /\ now <= limit[p]  BY <2>1 DEF TimeOf, WaitSound, ContainerSound
  <2>. QED  BY <1>1, <1>2, <2>2
<1>. QED  BY <1>3, <1>4

\* The steps that end a wait leave a command that is over, unless they were
\* interrupted.
LEMMA WaitEndsTime ==
  ASSUME FileInv, TimeInv, NEW p \in Proc, Returns(p) \/ Expires(p) \/ Interrupt(p)
  PROVE  TimeInv'
<1>1. ProcessType /\ Fine(p) /\ TimeOf(p)  BY FileIs DEF Sound, TimeInv
<1>2. /\ Waited(p) /\ pc[p] = "wait" /\ Goto(p, "remove") /\ UNCHANGED <<now, files, live, deadline, limit, cpc, crashes>>
      /\ until' = [until EXCEPT ![p] = 0] /\ budget' = budget /\ phases' = phases /\ live' = live
  BY DEF Returns, Expires, Interrupt, Waited, files
<1>3. Went(p, "remove")  BY <1>1, <1>2, GotoIs
<1>4. /\ \A q \in Proc \ {p} : child'[q] = child[q] /\ code'[q] = code[q] /\ until'[q] = until[q]
      /\ child'[p] \notin {"starting", "running"}
      /\ code'[p] = "raise" \/ p \notin live
  <2>1. CASE Returns(p)
    <3>1. child' = child /\ child[p] \in {"ended", "failed"} /\ p \notin live
      BY <1>1, <1>2, <2>1 DEF Returns, TimeOf, ChildSound
    <3>. QED  BY <1>1, <1>2, <2>1, <3>1 DEF Returns, ProcessType
  <2>2. CASE Expires(p)
    <3>1. p \notin live  BY <1>1, <1>2, <2>2, WaitingUses DEF Expires
    <3>. QED  BY <1>1, <1>2, <2>2, <3>1 DEF Expires, Killed, ProcessType
  <2>3. CASE Interrupt(p)
    BY <1>1, <1>2, <2>3 DEF Interrupt, Killed, ProcessType
  <2>. QED  BY <2>1, <2>2, <2>3
<1>5. TimeOf(p)'
  <2>1. pc'[p] = "remove" /\ late'[p] = 0 /\ Lag \in Nat  BY <1>3, Constants DEF Went
  <2>2. p \in live => IsPilot(p) /\ budget \in Nat /\ now <= limit[p] /\ limit[p] <= budget
    BY <1>1 DEF TimeOf, ChildSound, ContainerSound
  <2>3. ChildSound(p)'  BY <1>2, <1>4, <2>1, <2>2 DEF ChildSound, Ahead, IsPilot
  <2>4. Punctual(p)' /\ InReserve(p)' /\ WaitSound(p)'  BY <2>1 DEF Punctual, InReserve, WaitSound
  <2>5. ContainerSound(p)'  BY <1>2, <1>4, <2>2 DEF ContainerSound
  <2>6. OverSound(p)'  BY <1>2, <1>4, <2>1 DEF OverSound, Uses
  <2>. QED  BY <2>3, <2>4, <2>5, <2>6 DEF TimeOf
<1>6. \A q \in Proc \ {p} : SameFor(q)  BY <1>2, <1>3, <1>4 DEF Went, SameFor
<1>. QED  BY <1>2, <1>5, <1>6, OneTime

\* docker rm -f ends what it finds, of every process of the phase.
LEMMA RemoveTime ==
  ASSUME FileInv, TimeInv, NEW p \in Proc, Remove(p)
  PROVE  TimeInv'
<1>1. ProcessType /\ (\A q \in Proc : Fine(q) /\ TimeOf(q)) /\ RecordedDone  BY FileIs DEF Sound, TimeInv
<1>2. pc[p] = "remove" /\ now' = now /\ budget' = budget /\ phases' = phases  BY DEF Remove, files
<1>3. \A q \in Proc :
        \/ child'[q] = child[q] /\ limit'[q] = limit[q] /\ (q \in live' <=> q \in live)
        \/ /\ q \in live /\ q \notin live'
           /\ child'[q] = IF child[q] = "running" THEN "failed" ELSE child[q]
  BY <1>1 DEF Remove, ProcessType
<1>4. /\ \A q \in Proc \ {p} : pc'[q] = pc[q] /\ late'[q] = late[q] /\ code'[q] = code[q] /\ until'[q] = until[q]
      /\ \/ pc'[p] = "raised"
         \/ pc'[p] = "record" /\ code[p] # "raise"
  <2>1. CASE Ends(p, "raised")
    BY <1>1, <2>1, EndsIs DEF Ended, Over
  <2>2. CASE code[p] # "raise" /\ Goto(p, "record") /\ UNCHANGED <<deadline, until, code>>
    BY <1>1, <2>2, GotoIs DEF Went
  <2>. QED  BY <2>1, <2>2 DEF Remove
<1>6. ASSUME NEW q \in Proc \ {p} PROVE TimeOf(q)'
  <2>1. CASE SameFor(q)  BY <1>1, <1>2, <2>1, TimeStays
  <2>2. CASE q \in live /\ q \notin live' /\ child'[q] = IF child[q] = "running" THEN "failed" ELSE child[q]
    <3>1. TimeOf(q) /\ pc[q] \notin Ahead /\ child[q] # "starting" /\ child'[q] \notin {"starting", "running"}
      BY <1>1, <2>2 DEF TimeOf, ChildSound
    <3>2. (pc[q] = "wait" => until'[q] + Reserve <= budget' + Lag /\ now' <= until'[q] + Lag)
          /\ (Slow(q)' => late'[q] <= Lag)
      BY <1>2, <1>4, <3>1 DEF TimeOf, WaitSound, Punctual, Slow
    <3>. QED  BY <1>4, <2>2, <3>1, <3>2 DEF TimeOf, ChildSound, Punctual, InReserve, WaitSound, ContainerSound,
                                            OverSound, Uses, Ahead
  <2>. QED  BY <1>3, <1>4, <2>1, <2>2 DEF SameFor
<1>7. TimeOf(p)'
  <2>1. child[p] \notin {"starting", "running"} /\ child'[p] \notin {"starting", "running"}
    BY <1>1, <1>2, <1>3 DEF TimeOf, ChildSound
  <2>2. p \in live' => p \in live /\ limit'[p] = limit[p] /\ IsPilot(p) /\ budget \in Nat /\ now <= limit[p] /\ limit[p] <= budget
    BY <1>1, <1>3 DEF TimeOf, ChildSound, ContainerSound
  <2>3. pc'[p] = "record" => ~Uses(p)'
    BY <1>1, <1>2, <1>4, <2>1, <2>2 DEF TimeOf, OverSound, Uses
  <2>. QED  BY <1>2, <1>4, <2>1, <2>2, <2>3 DEF TimeOf, ChildSound, Punctual, Slow, InReserve, WaitSound, ContainerSound,
                                                OverSound, Ahead, IsPilot
<1>8. RecordedDone'  BY <1>1, <1>2, <1>4, RecordedStays
<1>. QED  BY <1>6, <1>7, <1>8 DEF TimeInv

LEMMA RecordTime ==
  ASSUME FileInv, TimeInv, NEW p \in Proc, Record(p)
  PROVE  TimeInv'
<1>1. ProcessType /\ Fine(p) /\ (\A q \in Proc : TimeOf(q)) /\ RecordedDone  BY FileIs DEF Sound, TimeInv
<1>. DEFINE entry == [phase |-> NameOf[p], by |-> p, code |-> code[p]]
            R == [phase : Phase, by : Proc, code : {"ended", "failed", "expired"}]
<1>2. pc[p] = "record" /\ phases' = Append(phases, entry)
      /\ UNCHANGED <<now, budget, log, out, closed, live, limit, child, cpc, crashes>>
  BY DEF Record
<1>3. Ended(p, "done")
  <2>1. Ends(p, "done") /\ "done" \in Over  BY DEF Record, Over
  <2>. QED  BY <1>1, <2>1, EndsIs
<1>4. \A q \in Proc \ {p} : TimeOf(q)'  BY <1>1, <1>2, <1>3, TimeStays DEF Ended, SameFor
<1>5. TimeOf(p)'
  <2>1. child[p] \notin {"starting", "running"} /\ p \notin live
    BY <1>1, <1>2 DEF TimeOf, ChildSound, OverSound, Uses
  <2>. QED  BY <1>2, <1>3, <2>1 DEF Ended, TimeOf, ChildSound, Punctual, Slow, InReserve, WaitSound, ContainerSound,
                                    OverSound, Uses, Ahead
<1>6. RecordedDone'
  <2>1. phases \in Seq(R)  BY FileIs DEF SharedType
  <2>. HIDE DEF R
  <2>2. \A i \in DOMAIN phases' : (i \in DOMAIN phases /\ phases'[i] = phases[i]) \/ phases'[i] = entry
    BY <1>2, <2>1
  <2>3. entry.by = p /\ pc'[p] = "done"  BY <1>3 DEF Ended
  <2>6. \A i \in DOMAIN phases : phases[i] \in R  BY <2>1
  <2>4. \A i \in DOMAIN phases : phases[i].by \in Proc  BY <2>6 DEF R
  <2>5. \A q \in Proc : pc[q] = "done" => pc'[q] = "done"  BY <1>3 DEF Ended
  <2>. HIDE DEF entry
  <2>. QED  BY <1>1, <2>2, <2>3, <2>4, <2>5 DEF RecordedDone
<1>. QED  BY <1>4, <1>5, <1>6 DEF TimeInv

LEMMA CrashTime ==
  ASSUME FileInv, TimeInv, NEW p \in Proc, Crash(p)
  PROVE  TimeInv'
<1>1. ProcessType /\ TimeOf(p)  BY FileIs DEF Sound, TimeInv
<1>2. /\ pc[p] \notin Over /\ now' = now /\ budget' = budget /\ phases' = phases /\ live' = live
      /\ limit' = limit /\ child' = child
  BY DEF Crash, Started, files
<1>3. Ended(p, "dead")
  <2>1. Ends(p, "dead") /\ "dead" \in Over  BY DEF Crash, Over
  <2>. QED  BY <1>1, <2>1, EndsIs
<1>4. TimeOf(p)'
  <2>1. pc'[p] = "dead" /\ late'[p] = late[p]  BY <1>3 DEF Ended
  <2>2. ChildSound(p)'  BY <1>1, <1>2, <2>1 DEF TimeOf, ChildSound, Ahead, IsPilot
  <2>3. Punctual(p)'  BY <1>1, <1>2, <2>1 DEF TimeOf, Punctual, Slow
  <2>4. InReserve(p)' /\ WaitSound(p)' /\ OverSound(p)'  BY <2>1 DEF InReserve, WaitSound, OverSound
  <2>5. ContainerSound(p)'  BY <1>1, <1>2, <2>1 DEF TimeOf, ContainerSound
  <2>. QED  BY <2>2, <2>3, <2>4, <2>5 DEF TimeOf
<1>5. \A q \in Proc \ {p} : SameFor(q)  BY <1>2, <1>3 DEF Ended, SameFor
<1>. QED  BY <1>2, <1>4, <1>5, OneTime DEF Over

\* The steps of what was started.  A container's limit becomes a time when it
\* starts, and that time is within the deadline, whether or not the process
\* that started it still waits.
LEMMA ChildrenTime ==
  ASSUME FileInv, TimeInv, NEW p \in Proc, Children(p)
  PROVE  TimeInv'
<1>1. /\ ProcessType /\ now \in Nat /\ (\A q \in Proc : TimeOf(q)) /\ RecordedDone
      /\ Lag \in Nat /\ PilotExtra \in Nat /\ PilotReserve \in Nat
  BY FileIs, Constants DEF Sound, TimeInv, SharedType
<1>2. UNCHANGED <<now, budget, phases, pc, until, code, late>>
  BY DEF Children, ContainerStarts, ContainerEnds, CommandEnds, files
<1>3. RecordedDone'  BY <1>1, <1>2 DEF RecordedDone
<1>4. \A q \in Proc \ {p} : SameFor(q)
  BY <1>1, <1>2 DEF Children, ContainerStarts, ContainerEnds, CommandEnds, ProcessType, SameFor
<1>5. limit[p] \in Nat /\ late[p] \in Nat  BY <1>1 DEF ProcessType
<1>6. CASE ContainerStarts(p)
  <2>1. child[p] = "starting" /\ IsPilot(p) /\ late[p] <= Lag /\ pc[p] \in {"wait", "dead"} /\ p \notin live
    BY <1>1, <1>6 DEF ContainerStarts, TimeOf, ChildSound, Punctual, Slow
  <2>2. ASSUME child'[p] = "failed", live' = live PROVE TimeOf(p)'
    BY <1>1, <1>2, <2>1, <2>2
       DEF TimeOf, ChildSound, Punctual, Slow, InReserve, WaitSound, ContainerSound, OverSound, Uses, Ahead
  <2>3. ASSUME child'[p] = "running", live' = live \cup {p}, limit'[p] = now + limit[p] PROVE TimeOf(p)'
    <3>1. budget \in Nat /\ limit[p] + (now - late[p]) + PilotReserve <= budget + 2 * Lag
          /\ (pc[p] = "wait" => limit[p] + (now - late[p]) + PilotExtra <= until[p])
      BY <1>1, <2>1 DEF TimeOf, ContainerSound, WaitSound
    <3>2. now <= limit'[p] /\ limit'[p] <= budget
      BY <1>1, <1>5, <2>1, <2>3, <3>1, LagAssumption
    <3>3. pc[p] = "wait" => limit'[p] < until[p]
      <4>1. until[p] \in Nat  BY <1>1 DEF ProcessType
      <4>. QED  BY <1>1, <1>5, <2>1, <2>3, <3>1, <4>1, LagAssumption
    <3>4. ChildSound(p)'  BY <1>2, <2>1, <2>3 DEF ChildSound, Ahead, IsPilot
    <3>5. Punctual(p)' /\ InReserve(p)' /\ OverSound(p)'
      BY <1>2, <2>1, <2>3 DEF Punctual, Slow, InReserve, OverSound
    <3>6. WaitSound(p)'  BY <1>1, <1>2, <2>3, <3>3 DEF TimeOf, WaitSound
    <3>7. ContainerSound(p)'  BY <1>2, <2>3, <3>1, <3>2 DEF ContainerSound
    <3>. QED  BY <3>4, <3>5, <3>6, <3>7 DEF TimeOf
  <2>4. TimeOf(p)'  BY <1>1, <1>6, <2>2, <2>3 DEF ContainerStarts, ProcessType
  <2>. QED  BY <1>1, <1>2, <1>3, <1>4, <2>4, TimeStays DEF TimeInv
<1>7. CASE ContainerEnds(p)
  <2>1. p \in live /\ IsPilot(p) /\ pc[p] \notin Ahead /\ child[p] # "starting"
        /\ p \notin live' /\ child'[p] = IF child[p] = "running" THEN "ended" ELSE child[p]
    BY <1>1, <1>7 DEF ContainerEnds, TimeOf, ChildSound, ProcessType
  <2>2. TimeOf(p)'
    BY <1>1, <1>2, <2>1 DEF TimeOf, ChildSound, Punctual, Slow, InReserve, WaitSound, ContainerSound, OverSound, Uses, Ahead
  <2>. QED  BY <1>1, <1>2, <1>3, <1>4, <2>2, TimeStays DEF TimeInv
<1>8. CASE CommandEnds(p)
  <2>1. ~IsPilot(p) /\ child[p] = "running" /\ child'[p] \in {"ended", "failed"} /\ live' = live /\ limit' = limit
        /\ pc[p] \in {"wait", "dead"} /\ p \notin live
    BY <1>1, <1>8 DEF CommandEnds, TimeOf, ChildSound, ProcessType
  <2>2. TimeOf(p)'
    BY <1>1, <1>2, <2>1 DEF TimeOf, ChildSound, Punctual, Slow, InReserve, WaitSound, ContainerSound, OverSound, Uses, Ahead
  <2>. QED  BY <1>1, <1>2, <1>3, <1>4, <2>2, TimeStays DEF TimeInv
<1>. QED  BY <1>6, <1>7, <1>8 DEF Children

\* The clock does not run past what is late: a step that takes its time has as
\* much left of its Lag, and a container is ended at its limit.
LEMMA TickTime ==
  ASSUME FileInv, TimeInv, Tick
  PROVE  TimeInv'
<1>1. ProcessType /\ now \in Nat /\ (\A q \in Proc : TimeOf(q)) /\ RecordedDone /\ Lag \in Nat
  BY FileIs, Constants DEF Sound, TimeInv, SharedType
<1>2. UNCHANGED <<budget, phases, live, pc, limit, until, code, child>> /\ now' = now + 1
  BY DEF Tick, files
<1>3. ASSUME NEW p \in Proc PROVE TimeOf(p)'
  <2>1. late[p] \in Nat /\ limit[p] \in Nat /\ until[p] \in Nat /\ TimeOf(p)  BY <1>1 DEF ProcessType
  <2>2. ~Late(p) /\ late'[p] = IF Slow(p) THEN late[p] + 1 ELSE late[p]  BY <1>1 DEF Tick, ProcessType
  <2>3. ChildSound(p)' /\ OverSound(p)'  BY <1>2, <2>1 DEF TimeOf, ChildSound, OverSound, Uses, IsPilot
  <2>4. Punctual(p)'  BY <1>1, <1>2, <2>1, <2>2 DEF Punctual, Slow, Late
  <2>5. Slow(p) => now' - late'[p] = now - late[p]  BY <1>1, <1>2, <2>1, <2>2
  <2>6. InReserve(p)'  BY <1>2, <2>1, <2>5 DEF TimeOf, InReserve, Slow, IsPilot
  <2>7. WaitSound(p)'
    <3>1. pc[p] = "wait" => now' <= until[p] + Lag  BY <1>1, <1>2, <2>1, <2>2 DEF Late
    <3>. QED  BY <1>2, <2>1, <2>5, <3>1 DEF TimeOf, WaitSound, Slow
  <2>8. ContainerSound(p)'
    <3>1. p \in live => now' <= limit[p]  BY <1>1, <1>2, <2>1, <2>2 DEF Late
    <3>. QED  BY <1>2, <2>1, <2>5, <3>1 DEF TimeOf, ContainerSound, Slow
  <2>. QED  BY <2>3, <2>4, <2>6, <2>7, <2>8 DEF TimeOf
<1>4. RecordedDone'  BY <1>1, <1>2 DEF RecordedDone
<1>. QED  BY <1>3, <1>4 DEF TimeInv

LEMMA CloseTime ==
  ASSUME FileInv, TimeInv, Close \/ UNCHANGED vars
  PROVE  TimeInv'
<1>1. UNCHANGED <<now, budget, phases, live, pc, limit, until, code, child, late>>
  BY DEF Close, CloseEvidence, CloseQuiet, CloseWrite, Closing, process, vars, files
<1>2. \A q \in Proc : SameFor(q)  BY <1>1 DEF SameFor
<1>. QED  BY <1>1, <1>2, TimeStays DEF TimeInv, RecordedDone

LEMMA TimeStep == FileInv /\ TimeInv /\ [Next]_vars => TimeInv'
<1>. SUFFICES ASSUME FileInv, TimeInv, [Next]_vars PROVE TimeInv'  OBVIOUS
<1>1. CASE \E p \in Proc : Start(p) \/ Create(p) \/ Fill(p) \/ Read(p) \/ Prepare(p) \/ Check(p) \/ Launch(p)
  BY <1>1, FirstStepsTime
<1>2. CASE \E p \in Proc : Returns(p) \/ Expires(p) \/ Interrupt(p)  BY <1>2, WaitEndsTime
<1>3. CASE \E p \in Proc : Remove(p)  BY <1>3, RemoveTime
<1>4. CASE \E p \in Proc : Record(p)  BY <1>4, RecordTime
<1>5. CASE \E p \in Proc : Crash(p)  BY <1>5, CrashTime
<1>6. CASE \E p \in Proc : Children(p)  BY <1>6, ChildrenTime
<1>7. CASE Tick  BY <1>7, TickTime
<1>8. CASE Close \/ UNCHANGED vars  BY <1>8, CloseTime
<1>. QED  BY <1>1, <1>2, <1>3, <1>4, <1>5, <1>6, <1>7, <1>8 DEF Next, Steps

\* However the processes interleave and whichever are killed, what each has
\* set for itself stays within what is left of the budget.
THEOREM TimeInvariance == Spec => [](FileInv /\ TimeInv)
<1>1. Init => TimeInv
  BY DEF Init, TimeInv, RecordedDone, TimeOf, ChildSound, Punctual, Slow, InReserve, WaitSound, ContainerSound, OverSound
<1>. QED  BY <1>1, FileInvariance, TimeStep, PTL DEF Spec

\* The three reserves of the code are enough: past the deadline no pilot's
\* container runs, even when the process that started it was killed or docker
\* rm failed, and no command runs that a process is there to stop.
THEOREM BudgetIsKept == Spec => []InTime
<1>1. FileInv /\ TimeInv => InTime
  <2>. SUFFICES ASSUME FileInv, TimeInv, budget \in Nat, now > budget, NEW p \in Proc PROVE ~Uses(p)
    BY DEF InTime
  <2>1. ProcessType /\ now \in Nat /\ TimeOf(p) /\ Lag \in Nat /\ Reserve \in Nat
    BY FileIs, Constants DEF Sound, TimeInv, SharedType
  <2>2. p \notin live
    <3>1. p \in live => now <= limit[p] /\ limit[p] <= budget  BY <2>1 DEF TimeOf, ContainerSound
    <3>2. limit[p] \in Nat  BY <2>1 DEF ProcessType
    <3>. QED  BY <2>1, <3>1, <3>2
  <2>3. pc[p] # "wait"
    <3>1. pc[p] = "wait" => until[p] + Reserve <= budget + Lag /\ now <= until[p] + Lag
      BY <2>1 DEF TimeOf, WaitSound
    <3>2. until[p] \in Nat  BY <2>1 DEF ProcessType
    <3>. QED  BY <2>1, <3>1, <3>2, LagAssumption
  <2>. QED  BY <2>1, <2>2, <2>3 DEF TimeOf, ChildSound, Uses
<1>. QED  BY <1>1, TimeInvariance, PTL

\* A phase in phases.jsonl is over: the container gives up before the wait for
\* it does, so a timeout never records a pilot that still runs.
THEOREM RecordsAreFinal == Spec => []RecordedIsOver
<1>1. FileInv /\ TimeInv => RecordedIsOver
  <2>. SUFFICES ASSUME FileInv, TimeInv, NEW i \in DOMAIN phases PROVE ~Uses(phases[i].by)
    BY DEF RecordedIsOver
  <2>. DEFINE R == [phase : Phase, by : Proc, code : {"ended", "failed", "expired"}]
  <2>1. phases \in Seq(R)  BY FileIs DEF SharedType
  <2>. HIDE DEF R
  <2>2. phases[i] \in R  BY <2>1
  <2>3. phases[i].by \in Proc  BY <2>2 DEF R
  <2>4. pc[phases[i].by] = "done"  BY DEF TimeInv, RecordedDone
  <2>. QED  BY <2>3, <2>4 DEF TimeInv, TimeOf, OverSound
<1>. QED  BY <1>1, TimeInvariance, PTL

-----------------------------------------------------------------------------
(* A phase is tried once *)

\* A step that opens no log: what it has to show.
LEMMA LogsStay ==
  ASSUME FileInv, EvidenceInv, log' = log, OneAtWork', ClosingSound',
         \A q \in Proc : pc'[q] = "launch" => log[NameOf[q]] = {},
         \A q \in Proc : pc'[q] \in Ahead => pc[q] \in Ahead,
         \A q \in Proc : child'[q] = child[q] \/ (child[q] # "none" /\ child'[q] \notin {"none", "starting"}),
         \A n \in Phase : out'[n] # Nothing =>
           out[n] # Nothing \/ \E p \in log[n] : child'[p] \notin {"none", "starting"},
         \A q \in live' : q \in live \/ child'[q] \notin {"none", "starting"}
  PROVE  EvidenceInv'
<1>1. (\A n \in Phase : log[n] \subseteq Proc) /\ live \subseteq Proc  BY FileIs DEF SharedType
<1>2. \A n \in Phase : out'[n] # Nothing => \E p \in log[n] : child'[p] \notin {"none", "starting"}
  <2>. SUFFICES ASSUME NEW n \in Phase, out[n] # Nothing PROVE \E p \in log[n] : child'[p] \notin {"none", "starting"}
    OBVIOUS
  <2>1. PICK p \in log[n] : child[p] \notin {"none", "starting"}  BY DEF EvidenceInv, TriedOnce
  <2>. QED  BY <1>1, <2>1
<1>3. /\ \A n \in Phase : \A p, q \in log[n] : p = q
      /\ \A p \in Proc : child[p] # "none" => p \in log[NameOf[p]]
      /\ \A p \in Proc : pc[p] \in Ahead => child[p] = "none"
  BY DEF EvidenceInv, TriedOnce
<1>4. \A p \in live' : child'[p] \notin {"none", "starting"}  BY <1>1 DEF EvidenceInv, TriedOnce
<1>. QED  BY <1>2, <1>3, <1>4 DEF EvidenceInv, TriedOnce

\* A process that neither starts nor checks leaves fewer at work.
LEMMA FewerAtWork ==
  ASSUME OneAtWork, \A q \in Proc : Started(q)' => Started(q)
  PROVE  OneAtWork'
BY DEF OneAtWork

\* Phases that are not started twice at once are tried once, and closing's
\* evidence stays.
LEMMA EvidenceStep == ASSUME Alone PROVE FileInv /\ EvidenceInv /\ [Next]_vars => EvidenceInv'
<1>. SUFFICES ASSUME FileInv, EvidenceInv, [Next]_vars PROVE EvidenceInv'  OBVIOUS
<1>. USE DEF files
<1>1. ProcessType /\ SharedType /\ OneAtWork /\ TriedOnce /\ ClosingSound  BY FileIs DEF Sound, EvidenceInv
<1>2. \A p \in Proc : NameOf[p] \in Phase  BY Constants
<1>3. ASSUME UNCHANGED <<log, out, cpc>>, live' \subseteq live, \A q \in Proc : Started(q)' => Started(q),
             \A q \in Proc : pc'[q] = "launch" => log[NameOf[q]] = {},
             \A q \in Proc : pc'[q] \in Ahead => pc[q] \in Ahead,
             \A q \in Proc : child'[q] = child[q] \/ (child[q] # "none" /\ child'[q] \notin {"none", "starting"})
      PROVE  EvidenceInv'
  <2>1. OneAtWork' /\ ClosingSound'  BY <1>1, <1>3, FewerAtWork DEF ClosingSound, Evidence
  <2>. QED  BY <1>3, <2>1, LogsStay
<1>4. ASSUME NEW p \in Proc, NEW place \in Over, Started(p), Ends(p, place), UNCHANGED <<log, out, cpc, child, live>>
      PROVE  EvidenceInv'
  <2>1. Ended(p, place)  BY <1>1, <1>4, EndsIs
  <2>. QED  BY <1>1, <1>3, <1>4, <2>1 DEF Ended, Over, Ahead, Started, TriedOnce
<1>5. ASSUME NEW p \in Proc, Start(p) PROVE EvidenceInv'
  <2>1. PICK place \in {"create", "read"} : Goto(p, place)  BY <1>5 DEF Start
  <2>2. Went(p, place)  BY <1>1, <2>1, GotoIs DEF Ahead
  <2>3. pc[p] = "idle" /\ UNCHANGED <<log, out, cpc, child, live>>
        /\ \A q \in Proc : NameOf[q] = NameOf[p] => ~Started(q)
    BY <1>5 DEF Start
  <2>4. OneAtWork'  BY <1>1, <2>2, <2>3 DEF OneAtWork, Went, Started
  <2>5. ClosingSound'  BY <1>1, <2>3 DEF ClosingSound, Evidence
  <2>6. \A q \in Proc : pc'[q] = "launch" => log[NameOf[q]] = {}  BY <1>1, <2>2 DEF Went, TriedOnce
  <2>7. \A q \in Proc : pc'[q] \in Ahead => pc[q] \in Ahead  BY <2>2, <2>3 DEF Went, Ahead
  <2>. QED  BY <2>3, <2>4, <2>5, <2>6, <2>7, LogsStay
<1>6. ASSUME NEW p \in Proc, Create(p) \/ Fill(p) \/ Read(p) \/ Prepare(p) \/ Check(p) PROVE EvidenceInv'
  <2>1. pc[p] \in Ahead \ {"idle"} /\ Started(p) /\ UNCHANGED <<log, out, cpc, child, live>>
    BY <1>6 DEF Create, Fill, Read, Prepare, Check, Raise, Ahead, Started, Over
  <2>2. CASE Raise(p)
    BY <1>4, <2>1, <2>2 DEF Raise, Over
  <2>3. CASE ~Raise(p)
    <3>1. PICK place \in Ahead \ {"idle"} : Goto(p, place) /\ (place = "launch" => Check(p))
      BY <1>6, <2>3 DEF Create, Fill, Read, Prepare, Check, Ahead
    <3>2. Went(p, place)  BY <1>1, <3>1, GotoIs
    <3>3. place = "launch" => log[NameOf[p]] = {}  BY <2>3, <3>1 DEF Check, Attempted
    <3>4. \A q \in Proc : pc'[q] = "launch" => log[NameOf[q]] = {}  BY <1>1, <3>2, <3>3 DEF Went, TriedOnce
    <3>5. \A q \in Proc : Started(q)' => Started(q)  BY <2>1, <3>2 DEF Went, Started
    <3>. QED  BY <1>3, <2>1, <3>1, <3>2, <3>4, <3>5 DEF Went, Ahead
  <2>. QED  BY <2>2, <2>3
<1>7. ASSUME NEW p \in Proc, Launch(p) PROVE EvidenceInv'
  <2>1. /\ pc[p] = "launch" /\ Started(p) /\ log[NameOf[p]] = {} /\ child[p] = "none"
        /\ log' = [log EXCEPT ![NameOf[p]] = @ \cup {p}] /\ UNCHANGED <<out, cpc, live>>
        /\ \A q \in Proc \ {p} : child'[q] = child[q]
    <3>1. pc[p] = "launch" /\ UNCHANGED <<out, cpc, live>> /\ log' = [log EXCEPT ![NameOf[p]] = @ \cup {p}]
          /\ \A q \in Proc \ {p} : child'[q] = child[q]
      BY <1>1, <1>7 DEF Launch, ProcessType
    <3>. QED  BY <1>1, <3>1 DEF TriedOnce, Ahead, Started, Over
  <2>2. log'[NameOf[p]] = {p} /\ \A n \in Phase \ {NameOf[p]} : log'[n] = log[n]
    BY <1>1, <1>2, <2>1 DEF SharedType
  <2>3. pc'[p] \notin Ahead /\ \A q \in Proc \ {p} : pc'[q] = pc[q]
    <3>1. CASE Ends(p, "raised")  BY <1>1, <3>1, EndsIs DEF Ended, Over, Ahead
    <3>2. CASE Goto(p, "wait")  BY <1>1, <3>2, GotoIs DEF Went, Ahead
    <3>. QED  BY <1>7, <3>1, <3>2 DEF Launch
  <2>4. OneAtWork'
    <3>1. \A q \in Proc : Started(q)' => Started(q)  BY <2>1, <2>3 DEF Started
    <3>. QED  BY <1>1, <3>1, FewerAtWork
  <2>5. ClosingSound'  BY <1>1, <2>1 DEF ClosingSound, Evidence
  <2>6. ASSUME NEW q \in Proc, pc'[q] = "launch" PROVE log'[NameOf[q]] = {}
    <3>1. q # p /\ pc[q] = "launch" /\ log[NameOf[q]] = {}  BY <1>1, <2>3, <2>6 DEF Ahead, TriedOnce
    <3>2. NameOf[q] # NameOf[p]  BY <1>1, <2>1, <3>1 DEF OneAtWork, Started, Over
    <3>. QED  BY <1>2, <2>2, <3>1, <3>2
  <2>7. \A n \in Phase : \A q, r \in log'[n] : q = r  BY <1>1, <2>2 DEF TriedOnce
  <2>8. \A q \in Proc : child'[q] # "none" => q \in log'[NameOf[q]]
    BY <1>1, <1>2, <2>1, <2>2 DEF TriedOnce
  <2>9. ASSUME NEW n \in Phase, out'[n] # Nothing PROVE \E q \in log'[n] : child'[q] \notin {"none", "starting"}
    <3>1. PICK q \in log[n] : child[q] \notin {"none", "starting"}  BY <1>1, <2>1, <2>9 DEF TriedOnce
    <3>2. n # NameOf[p] /\ q # p /\ q \in Proc  BY <1>1, <2>1, <3>1 DEF SharedType
    <3>. QED  BY <2>1, <2>2, <3>1, <3>2
  <2>10. \A q \in Proc : pc'[q] \in Ahead => child'[q] = "none"  BY <1>1, <2>1, <2>3 DEF TriedOnce
  <2>11. \A q \in live' : child'[q] \notin {"none", "starting"}  BY <1>1, <2>1 DEF TriedOnce, SharedType
  <2>. QED  BY <2>4, <2>5, <2>6, <2>7, <2>8, <2>9, <2>10, <2>11 DEF EvidenceInv, TriedOnce
<1>8. ASSUME NEW p \in Proc, Returns(p) \/ Expires(p) \/ Interrupt(p) PROVE EvidenceInv'
  <2>1. pc[p] = "wait" /\ Goto(p, "remove") /\ UNCHANGED <<log, out, cpc, live>>
        /\ \A q \in Proc : child'[q] = child[q] \/ (child[q] # "none" /\ child'[q] = "failed")
    BY <1>1, <1>8 DEF Returns, Expires, Interrupt, Waited, Killed, ProcessType
  <2>2. Went(p, "remove")  BY <1>1, <2>1, GotoIs
  <2>. QED  BY <1>1, <1>3, <2>1, <2>2 DEF Went, Started, Over, Ahead, TriedOnce
<1>9. ASSUME NEW p \in Proc, Remove(p) PROVE EvidenceInv'
  <2>1. pc[p] = "remove" /\ UNCHANGED <<log, out, cpc>> /\ live' \subseteq live
        /\ \A q \in Proc : child'[q] = child[q] \/ (child[q] # "none" /\ child'[q] = "failed")
    BY <1>1, <1>9 DEF Remove, ProcessType
  <2>2. pc'[p] \in {"raised", "record"} /\ \A q \in Proc \ {p} : pc'[q] = pc[q]
    <3>1. CASE Ends(p, "raised")  BY <1>1, <3>1, EndsIs DEF Ended, Over
    <3>2. CASE Goto(p, "record")  BY <1>1, <3>2, GotoIs DEF Went
    <3>. QED  BY <1>9, <3>1, <3>2 DEF Remove
  <2>. QED  BY <1>1, <1>3, <2>1, <2>2 DEF Started, Over, Ahead, TriedOnce
<1>10. ASSUME NEW p \in Proc, Record(p) \/ Crash(p) PROVE EvidenceInv'
  <2>1. PICK place \in {"done", "dead"} : Ends(p, place)  BY <1>10 DEF Record, Crash
  <2>2. Started(p) /\ UNCHANGED <<log, out, cpc, child, live>>  BY <1>10 DEF Record, Crash, Started, Over
  <2>. QED  BY <1>4, <2>1, <2>2 DEF Over
<1>11. ASSUME NEW p \in Proc, Children(p) PROVE EvidenceInv'
  <2>1. UNCHANGED <<log, cpc, pc>>
        /\ \A q \in Proc : child'[q] = child[q] \/ (child[q] # "none" /\ child'[q] \notin {"none", "starting"})
    BY <1>1, <1>11 DEF Children, ContainerStarts, ContainerEnds, CommandEnds, ProcessType
  <2>2. OneAtWork'  BY <1>1, <2>1 DEF OneAtWork, Started
  <2>3. \/ UNCHANGED out
        \/ p \in live /\ out' = [out EXCEPT ![NameOf[p]] = "complete"]
        \/ child[p] = "starting" /\ child'[p] = "running" /\ out' = [out EXCEPT ![NameOf[p]] = "partial"]
    BY <1>1, <1>11 DEF Children, ContainerStarts, ContainerEnds, CommandEnds, ProcessType
  <2>4. /\ \/ p \in log[NameOf[p]] /\ NameOf[p] \in Phase /\ child'[p] \notin {"none", "starting"}
           \/ UNCHANGED out
        /\ \A q \in live' : q \in live \/ child'[q] \notin {"none", "starting"}
    <3>1. \A q \in live' : q \in live \/ child'[q] \notin {"none", "starting"}
      BY <1>1, <1>11 DEF Children, ContainerStarts, ContainerEnds, CommandEnds, ProcessType
    <3>. QED  BY <1>1, <1>2, <2>1, <2>3, <3>1 DEF TriedOnce
  <2>5. \A n \in Phase : out'[n] # Nothing => out[n] # Nothing \/ \E q \in log[n] : child'[q] \notin {"none", "starting"}
    BY <1>1, <1>2, <2>3, <2>4 DEF SharedType
  <2>6. ClosingSound'
    <3>1. SUFFICES ASSUME Evidence, NEW n \in Required PROVE out'[n] = "complete"
      BY <1>1, <2>1 DEF ClosingSound, Evidence
    <3>2. n \in Phase /\ out[n] = "complete" /\ out[n] # Nothing
      BY <3>1, BudgetAssumption, Constants DEF Evidence
    <3>3. PICK q \in log[n] : child[q] \notin {"none", "starting"}  BY <1>1, <3>2 DEF TriedOnce
    <3>4. child[p] = "starting" => NameOf[p] # n  BY <1>1, <3>2, <3>3 DEF TriedOnce
    <3>. QED  BY <1>1, <1>2, <2>3, <3>2, <3>4 DEF SharedType
  <2>7. (\A q \in Proc : pc'[q] = "launch" => log[NameOf[q]] = {}) /\ \A q \in Proc : pc'[q] \in Ahead => pc[q] \in Ahead
    BY <1>1, <2>1 DEF TriedOnce
  <2>. QED  BY <2>1, <2>2, <2>4, <2>5, <2>6, <2>7, LogsStay
<1>12. ASSUME Close PROVE EvidenceInv'
  <2>1. UNCHANGED <<log, out, pc, child, live>>  BY <1>12 DEF Close, CloseEvidence, CloseQuiet, CloseWrite, Closing, process
  <2>2. ClosingSound'
    BY <1>1, <1>12, <2>1 DEF Close, CloseEvidence, CloseQuiet, CloseWrite, Closing, ClosingSound, Evidence
  <2>3. OneAtWork'  BY <1>1, <2>1 DEF OneAtWork, Started
  <2>. QED  BY <1>1, <2>1, <2>2, <2>3, LogsStay DEF TriedOnce
<1>13. ASSUME Tick \/ UNCHANGED vars PROVE EvidenceInv'
  <2>1. UNCHANGED <<log, out, cpc, pc, child, live>>  BY <1>13 DEF Tick, vars, process
  <2>. QED  BY <1>1, <1>3, <2>1 DEF Started, TriedOnce
<1>. QED
  BY <1>5, <1>6, <1>7, <1>8, <1>9, <1>10, <1>11, <1>12, <1>13 DEF Next, Steps

\* A phase that is not started twice at the same time, which is what Alone
\* says, is tried once, also after a crash, and what closing has looked at
\* stays.
THEOREM EvidenceStays == ASSUME Alone PROVE Spec => []EvidenceKept
<1>1. Init => EvidenceInv
  BY Constants DEF Init, EvidenceInv, OneAtWork, TriedOnce, ClosingSound, Started
<1>2. FileInv /\ EvidenceInv => EvidenceKept
  <2>1. SUFFICES ASSUME FileInv, EvidenceInv, NEW n \in Phase PROVE Cardinality(log[n]) <= 1
    BY DEF EvidenceInv, ClosingSound, EvidenceKept
  <2>2. CASE log[n] = {}  BY <2>2, FS_EmptySet
  <2>3. CASE log[n] # {}
    <3>1. PICK p : log[n] = {p}  BY <2>1, <2>3 DEF EvidenceInv, TriedOnce
    <3>. QED  BY <3>1, FS_Singleton
  <2>. QED  BY <2>2, <2>3
<1>. QED  BY <1>1, <1>2, FileInvariance, EvidenceStep, PTL DEF Spec
=============================================================================
