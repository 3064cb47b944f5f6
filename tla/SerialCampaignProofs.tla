------------------------ MODULE SerialCampaignProofs ------------------------
(***************************************************************************)
(* Proofs that the serial campaign runner compares only sound replays,     *)
(* reports its days honestly and keeps the promise of CampaignPromise, for *)
(* every plan, number of attempts and number of sessions.                  *)
(***************************************************************************)
EXTENDS SerialCampaign, TLAPS

\* the places in run and replay where a replay is under way
Inside == {"attempt", "clear", "start", "wait", "check"}

\* a day's replays are worked off in the order of its plan
AtPlace ==
  /\ pc \in {"replay", "analysed", "close"} \cup Inside => day \in Day /\ at \in Nat \ {0}
  /\ pc \in Inside => at \in DOMAIN Plan[day]

\* what the process knows is what the file holds, but for the day it closes
Synced ==
  /\ pc # "down" => records = saved.records
  /\ pc \notin {"down", "close"} => dates = saved.dates
  /\ pc = "close" => \A d \in Day : d # day => dates[d] = saved.dates[d]

\* a replay under way is not recorded as complete, and what is checked has no
\* container
Working ==
  /\ pc \in Inside => saved.records[Current].status # "complete"
  /\ pc = "check" => Current \notin live

\* what run passes to analyse is complete
NamesDone == names \subseteq Completed

SafeInv == ComparedSound /\ AtPlace /\ Synced /\ Working /\ NamesDone

\* without errors, every replay of the day so far was passed
AllPassed ==
  pc \in {"replay"} \cup Inside =>
    /\ saved.dates[day] # "complete"
    /\ ~errors => \A i \in DOMAIN Plan[day] : i < at => Plan[day][i] \in names

\* the status a day is about to be closed with is honest
CloseHonest == pc = "close" /\ dates[day] = "complete" => InPlan(day) \subseteq Completed

\* a campaign called complete has all its replays
WholeHonest == saved.status = "complete" => Completed = Key

HonestInv == DayHonest /\ AllPassed /\ CloseHonest /\ WholeHonest

-----------------------------------------------------------------------------
(* Types, and which replays the file calls complete *)

LEMMA Bounds == Days \in Nat \ {0} /\ MaxAttempts \in Nat \ {0} /\ MaxSessions \in Nat \ {0}
  BY SerialAssumption

LEMMA SetRecordType ==
  ASSUME TypeOK, NEW k \in Key, NEW s \in Status, NEW n \in 0..MaxAttempts
  PROVE  SetRecord(k, s, n) \in [Key -> Record]
  BY DEF TypeOK, SetRecord, Record

LEMMA SetDateType ==
  ASSUME TypeOK, day \in Day, NEW s \in DayRecord
  PROVE  SetDate(s) \in [Day -> DayRecord]
  BY DEF TypeOK, SetDate

\* the replay under way is one of the campaign
LEMMA CurrentType ==
  ASSUME TypeOK, day \in Day, at \in DOMAIN Plan[day]
  PROVE  Current \in Key
<1>1. Plan[day] \in Seq(Key)
  BY Zenon, SerialAssumption
<1> QED BY <1>1 DEF Current

\* recording a replay that is not complete loses none that is
LEMMA CompletedKept ==
  ASSUME SafeInv, pc # "down", NEW k \in Key, NEW s \in Status, NEW n \in 0..MaxAttempts,
         saved.records[k].status # "complete", saved'.records = SetRecord(k, s, n)
  PROVE  Completed' = IF s = "complete" THEN Completed \cup {k} ELSE Completed
  BY DEF SafeInv, ComparedSound, TypeOK, Synced, Completed, SetRecord

\* where nothing is recorded, the same replays are complete
LEMMA CompletedSame ==
  ASSUME saved'.records = saved.records
  PROVE  Completed' = Completed
  BY DEF Completed

\* the process ends: nothing but the file and the containers is left of it
LEMMA GoneInd ==
  ASSUME SafeInv, Gone, UNCHANGED world, Completed' = Completed,
         saved' \in [records : [Key -> Record], dates : [Day -> DayRecord],
                     status : {"running", "blocked", "complete", "finished_with_failures"}]
  PROVE  SafeInv'
<1>1. TypeOK'
  <2>1. day' \in 1..(Days + 1) /\ 0 \in 0..MaxAttempts
    BY SerialAssumption DEF Gone
  <2>2. records' \in [Key -> Record] /\ dates' \in [Day -> DayRecord]
    BY <2>1 DEF Gone, Record, Status, NoRecord, DayRecord
  <2>3. errors' \in BOOLEAN
    BY Zenon DEF Gone
  <2> QED BY <2>1, <2>2, <2>3 DEF Gone, Goto, TypeOK, SafeInv, ComparedSound, world
<1>2. ComparedSound'
  BY <1>1 DEF SafeInv, ComparedSound, world
<1>3. AtPlace' /\ Synced' /\ Working' /\ NamesDone'
  BY DEF Gone, Goto, AtPlace, Synced, Working, NamesDone, Inside
<1> QED BY <1>2, <1>3 DEF SafeInv

LEMMA BlockedType ==
  ASSUME TypeOK, NEW r \in [Key -> Record], Blocked(r)
  PROVE  saved' \in [records : [Key -> Record], dates : [Day -> DayRecord],
                     status : {"running", "blocked", "complete", "finished_with_failures"}]
  BY DEF Blocked, TypeOK

\* an exception that changes no record
LEMMA BlockedInd ==
  ASSUME SafeInv, pc # "down", Blocked(records), UNCHANGED world
  PROVE  SafeInv' /\ Completed' = Completed
<1>1. Completed' = Completed
  BY CompletedSame DEF Blocked, SafeInv, Synced
<1>2. saved' \in [records : [Key -> Record], dates : [Day -> DayRecord],
                  status : {"running", "blocked", "complete", "finished_with_failures"}]
  BY BlockedType DEF SafeInv, ComparedSound, TypeOK
<1> QED BY <1>1, <1>2, GoneInd DEF Blocked

LEMMA InitSafe == Init => SafeInv
<1> SUFFICES ASSUME Init PROVE SafeInv
  OBVIOUS
<1>1. Completed = {}
  BY DEF Init, Completed, NoRecord
<1>2. TypeOK
  <2>1. 1 \in 1..(Days + 1) /\ 0 \in 0..MaxAttempts /\ 0 \in 0..MaxSessions
    BY SerialAssumption
  <2>2. records \in [Key -> Record] /\ dates \in [Day -> DayRecord]
    BY <2>1 DEF Init, Record, Status, NoRecord, DayRecord
  <2>3. errors \in BOOLEAN
    BY Zenon DEF Init
  <2> QED BY <2>1, <2>2, <2>3 DEF Init, TypeOK
<1>3. ComparedSound
  BY <1>1, <1>2 DEF Init, ComparedSound
<1>4. AtPlace /\ Synced /\ Working /\ NamesDone
  BY DEF Init, AtPlace, Synced, Working, NamesDone, Inside
<1> QED BY <1>3, <1>4 DEF SafeInv

-----------------------------------------------------------------------------
(* Every step keeps the comparisons sound and loses no complete replay *)

\* a step that saves what it knows, records nothing and leaves Docker alone
LEMMA SavedType ==
  ASSUME NEW r \in [Key -> Record], NEW d \in [Day -> DayRecord],
         NEW status \in {"running", "blocked", "complete", "finished_with_failures"},
         Update(r, d, status)
  PROVE  /\ records' \in [Key -> Record] /\ dates' \in [Day -> DayRecord]
         /\ saved' \in [records : [Key -> Record], dates : [Day -> DayRecord],
                        status : {"running", "blocked", "complete", "finished_with_failures"}]
         /\ saved'.records = r /\ saved'.dates = d /\ saved'.status = status
  BY DEF Update

LEMMA LaunchSafe ==
  ASSUME SafeInv, Launch
  PROVE  SafeInv' /\ Completed \subseteq Completed'
<1>1. Completed' = Completed
  BY CompletedSame DEF Launch
<1>2. TypeOK'
  BY SerialAssumption DEF Launch, Goto, SafeInv, ComparedSound, TypeOK
<1> QED BY <1>1, <1>2 DEF SafeInv, Launch, Goto, ComparedSound, AtPlace, Synced, Working, NamesDone, Inside

LEMMA PrepareSafe ==
  ASSUME SafeInv, Prepare
  PROVE  SafeInv' /\ Completed \subseteq Completed'
<1>1. CASE Blocked(records)
  BY <1>1, BlockedInd DEF Prepare
<1>2. CASE Goto("day") /\ Update(records, dates, "running") /\ UNCHANGED <<day, at, names, errors>>
  <2>1. records \in [Key -> Record] /\ dates \in [Day -> DayRecord]
    BY DEF SafeInv, ComparedSound, TypeOK
  <2>2. /\ saved'.records = records /\ saved'.dates = dates
        /\ records' \in [Key -> Record] /\ dates' \in [Day -> DayRecord]
        /\ saved' \in [records : [Key -> Record], dates : [Day -> DayRecord],
                       status : {"running", "blocked", "complete", "finished_with_failures"}]
    BY <1>2, <2>1, SavedType
  <2>3. Completed' = Completed
    BY <2>2, CompletedSame DEF Prepare, SafeInv, Synced
  <2>4. TypeOK'
    BY <1>2, <2>2 DEF Prepare, Goto, world, SafeInv, ComparedSound, TypeOK
  <2> QED BY <1>2, <2>2, <2>3, <2>4 DEF Prepare, Goto, Update, world, SafeInv, ComparedSound, AtPlace,
             Synced, Working, NamesDone, Inside
<1> QED BY <1>1, <1>2 DEF Prepare

LEMMA BeginDaySafe ==
  ASSUME SafeInv, BeginDay
  PROVE  SafeInv' /\ Completed \subseteq Completed'
<1>1. CASE Blocked(records)
  BY <1>1, BlockedInd DEF BeginDay
<1>2. CASE ~Blocked(records)
  <2>1. Completed' = Completed /\ saved' = saved
    BY <1>2, CompletedSame DEF BeginDay
  <2>2. day' \in 1..(Days + 1) /\ at' \in Nat /\ names' \subseteq Key
    BY <1>2, SerialAssumption DEF BeginDay, SafeInv, ComparedSound, TypeOK
  <2>3. errors' \in BOOLEAN
    BY <1>2, Zenon DEF BeginDay, SafeInv, ComparedSound, TypeOK
  <2>4. TypeOK'
    BY <1>2, <2>1, <2>2, <2>3 DEF BeginDay, Goto, world, SafeInv, ComparedSound, TypeOK
  <2>5. AtPlace'
    BY <1>2, SerialAssumption DEF BeginDay, Goto, AtPlace, Inside, SafeInv, ComparedSound, TypeOK, Day
  <2> QED BY <1>2, <2>1, <2>4, <2>5 DEF BeginDay, Goto, world, SafeInv, ComparedSound, Synced, Working,
             NamesDone, Inside
<1> QED BY <1>1, <1>2

\* an exception that run notes or that ends the day
LEMMA RaisedSafe ==
  ASSUME SafeInv, pc \in {"replay", "attempt"}, NEW k \in Key, Raised(k), UNCHANGED world
  PROVE  SafeInv' /\ Completed' = Completed
<1>1. Completed' = Completed /\ saved' = saved /\ day' = day /\ day \in Day /\ records' = records
      /\ names' = names
  BY CompletedSame DEF Raised, SafeInv, AtPlace, Inside
<1>2. at' \in Nat \ {0}
  BY DEF Raised, SafeInv, AtPlace, Inside
<1>3. errors' \in BOOLEAN
  BY Zenon DEF Raised, SafeInv, ComparedSound, TypeOK
<1>4. dates' \in [Day -> DayRecord] /\ (\A d \in Day : d # day => dates'[d] = dates[d])
  BY <1>1 DEF Raised, SetDate, SafeInv, ComparedSound, TypeOK, DayRecord
<1>5. TypeOK'
  BY <1>1, <1>2, <1>3, <1>4 DEF Raised, Goto, world, SafeInv, ComparedSound, TypeOK
<1>6. AtPlace' /\ Synced' /\ Working'
  BY <1>1, <1>2, <1>4 DEF Raised, Goto, SafeInv, AtPlace, Synced, Working, Inside
<1> QED BY <1>1, <1>5, <1>6 DEF SafeInv, ComparedSound, NamesDone, world

\* a replay that is complete is named
LEMMA PassedSafe ==
  ASSUME SafeInv, pc = "replay", NEW k \in Key, k \in Completed, Passed(k),
         UNCHANGED <<records, dates, saved, world>>
  PROVE  SafeInv' /\ Completed' = Completed
<1>1. Completed' = Completed
  BY CompletedSame
<1>2. TypeOK'
  BY DEF Passed, Goto, world, SafeInv, ComparedSound, TypeOK
<1>3. AtPlace' /\ Synced' /\ Working' /\ NamesDone'
  BY <1>1 DEF Passed, Goto, SafeInv, ComparedSound, TypeOK, AtPlace, Synced, Working, Inside, NamesDone
<1> QED BY <1>1, <1>2, <1>3 DEF SafeInv, ComparedSound, world

LEMMA ReplaySafe ==
  ASSUME SafeInv, Replay
  PROVE  SafeInv' /\ Completed \subseteq Completed'
<1>1. day \in Day /\ at \in DOMAIN Plan[day]
  <2>1. Plan[day] \in Seq(Key) /\ day \in Day
    BY Zenon, SerialAssumption DEF SafeInv, AtPlace, Inside, Replay
  <2> QED BY <2>1 DEF SafeInv, AtPlace, Inside, Replay
<1>2. Current \in Key
  BY <1>1, CurrentType DEF SafeInv, ComparedSound
<1> DEFINE complete == records[Current].status = "complete"
<1>3. CASE at' = at + 1 /\ UNCHANGED <<pc, day, names, errors, records, dates, saved>>
  BY <1>3, CompletedSame DEF Replay, world, SafeInv, ComparedSound, TypeOK, AtPlace, Synced, Working, Inside, NamesDone
<1>4. CASE complete /\ Passed(Current) /\ UNCHANGED <<records, dates, saved>>
  <2>1. Current \in Completed
    BY <1>2, <1>4 DEF Completed, SafeInv, Synced, Replay
  <2> QED BY <1>2, <1>4, <2>1, PassedSafe DEF Replay
<1>5. CASE Blocked(records)
  BY <1>5, BlockedInd DEF Replay
<1>6. CASE ~complete /\ Goto("attempt") /\ UNCHANGED <<memory, saved>>
  <2>1. Completed' = Completed
    BY <1>6, CompletedSame
  <2>2. TypeOK'
    BY <1>6 DEF Replay, Goto, memory, world, SafeInv, ComparedSound, TypeOK
  <2>3. AtPlace' /\ Synced' /\ Working' /\ NamesDone'
    BY <1>1, <1>6, <2>1 DEF Replay, Goto, memory, SafeInv, AtPlace, Synced, Working, Inside, NamesDone, Current
  <2> QED BY <1>6, <2>1, <2>2, <2>3 DEF Replay, SafeInv, ComparedSound, world
<1>7. CASE Raised(Current)
  BY <1>2, <1>7, RaisedSafe DEF Replay
<1> QED BY <1>3, <1>4, <1>5, <1>6, <1>7 DEF Replay

\* what a step may do to the replay under way: record that it runs or failed,
\* and touch its container and its directory
LEMMA RecordSafe ==
  ASSUME SafeInv, pc \in Inside, NEW s \in {"running", "failed"}, NEW n \in 0..MaxAttempts,
         Update(SetRecord(Current, s, n), dates, "running"),
         UNCHANGED <<day, at, names, errors, compared, sessions>>, pc' \in {"attempt", "clear"},
         live' \subseteq live, output' \in [Key -> {"none", "good", "invalid"}],
         \A j \in Key : j # Current => output'[j] = output[j]
  PROVE  SafeInv' /\ Completed' = Completed
<1>1. day \in Day /\ at \in DOMAIN Plan[day] /\ Current' = Current
  BY DEF SafeInv, AtPlace, Current
<1>2. Current \in Key
  BY <1>1, CurrentType DEF SafeInv, ComparedSound
<1>3. SetRecord(Current, s, n) \in [Key -> Record] /\ dates \in [Day -> DayRecord]
  BY <1>2, SetRecordType DEF SafeInv, ComparedSound, TypeOK, Status
<1>4. /\ records' = SetRecord(Current, s, n) /\ saved'.records = SetRecord(Current, s, n)
      /\ dates' = dates /\ saved'.dates = dates
      /\ records' \in [Key -> Record] /\ dates' \in [Day -> DayRecord]
      /\ saved' \in [records : [Key -> Record], dates : [Day -> DayRecord],
                     status : {"running", "blocked", "complete", "finished_with_failures"}]
  BY <1>3, SavedType DEF Update
<1>5. saved.records[Current].status # "complete" /\ pc # "down" /\ s \in Status /\ s # "complete"
  BY DEF SafeInv, Working, Inside, Status
<1>6. Completed' = Completed
  BY <1>2, <1>4, <1>5, CompletedKept
<1>7. TypeOK'
  BY <1>4 DEF SafeInv, ComparedSound, TypeOK
<1>8. ComparedSound'
  BY <1>5, <1>6, <1>7 DEF SafeInv, ComparedSound, Completed
<1>9. AtPlace' /\ Synced' /\ NamesDone'
  BY <1>1, <1>4, <1>6 DEF SafeInv, AtPlace, Synced, NamesDone, Inside
<1>10. Working'
  BY <1>1, <1>2, <1>4, <1>5 DEF Working, SetRecord, SafeInv, ComparedSound, TypeOK, Synced
<1> QED BY <1>6, <1>8, <1>9, <1>10 DEF SafeInv

LEMMA AttemptSafe ==
  ASSUME SafeInv, Attempt
  PROVE  SafeInv' /\ Completed \subseteq Completed'
<1>1. Current \in Key
  BY CurrentType DEF Attempt, SafeInv, ComparedSound, AtPlace, Inside
<1>2. CASE Raised(Current)
  BY <1>1, <1>2, RaisedSafe DEF Attempt
<1>3. CASE /\ AttemptsLeft(Current) /\ Goto("clear")
           /\ Update(SetRecord(Current, "running", Counted(Current)), dates, "running")
           /\ UNCHANGED <<day, at, names, errors>>
  <2>1. Counted(Current) \in 0..MaxAttempts
    BY <1>1, <1>3, Bounds DEF AttemptsLeft, Counted, SafeInv, ComparedSound, TypeOK, Record
  <2> QED BY <1>3, <2>1, RecordSafe DEF Attempt, Goto, world, Inside, SafeInv, ComparedSound, TypeOK
<1> QED BY <1>2, <1>3 DEF Attempt

LEMMA AttemptFailsSafe ==
  ASSUME SafeInv, pc \in Inside, AttemptFails(Current),
         output' \in {output, [output EXCEPT ![Current] = "none"]}
  PROVE  SafeInv' /\ Completed = Completed'
<1>1. Current \in Key
  BY CurrentType DEF SafeInv, ComparedSound, AtPlace
<1>2. records[Current].attempts \in 0..MaxAttempts
  BY <1>1 DEF SafeInv, ComparedSound, TypeOK, Record
<1>3. output' \in [Key -> {"none", "good", "invalid"}] /\ (\A j \in Key : j # Current => output'[j] = output[j])
  BY DEF SafeInv, ComparedSound, TypeOK
<1>4. live' \subseteq live
  BY DEF AttemptFails
<1> QED BY <1>2, <1>3, <1>4, RecordSafe DEF AttemptFails, Goto

LEMMA ClearSafe ==
  ASSUME SafeInv, Clear
  PROVE  SafeInv' /\ Completed \subseteq Completed'
<1>1. CASE AttemptFails(Current)
  BY <1>1, AttemptFailsSafe DEF Clear, Inside, AttemptFails, Goto
<1>2. CASE /\ Goto("start") /\ live' \in SUBSET live /\ output' = [output EXCEPT ![Current] = "none"]
           /\ UNCHANGED <<memory, saved, compared, sessions>>
  <2>1. Completed' = Completed
    BY <1>2, CompletedSame
  <2>2. Current \in Key /\ Current \notin Completed
    BY CurrentType DEF Clear, SafeInv, ComparedSound, AtPlace, Inside, Working, Completed
  <2>3. TypeOK'
    BY <1>2 DEF Goto, memory, SafeInv, ComparedSound, TypeOK
  <2>4. ComparedSound'
    BY <1>2, <2>1, <2>2, <2>3 DEF SafeInv, ComparedSound, TypeOK
  <2> QED BY <1>2, <2>1, <2>4 DEF Clear, Goto, memory, SafeInv, AtPlace, Synced, Working, NamesDone, Inside, Current
<1> QED BY <1>1, <1>2 DEF Clear

LEMMA StartContainerSafe ==
  ASSUME SafeInv, StartContainer
  PROVE  SafeInv' /\ Completed \subseteq Completed'
<1>1. Completed' = Completed
  BY CompletedSame DEF StartContainer
<1>2. Current \in Key /\ Current \notin Completed
  BY CurrentType DEF StartContainer, SafeInv, ComparedSound, AtPlace, Inside, Working, Completed
<1>3. TypeOK'
  BY <1>2 DEF StartContainer, Goto, memory, SafeInv, ComparedSound, TypeOK
<1> QED BY <1>1, <1>2, <1>3 DEF StartContainer, Goto, memory, SafeInv, ComparedSound, AtPlace, Synced, Working,
           NamesDone, Inside, Current, Completed

LEMMA ContainerEndsSafe ==
  ASSUME SafeInv, NEW k \in Key, ContainerEnds(k)
  PROVE  SafeInv' /\ Completed \subseteq Completed'
<1>1. Completed' = Completed
  BY CompletedSame DEF ContainerEnds
<1>2. TypeOK'
  BY DEF ContainerEnds, memory, SafeInv, ComparedSound, TypeOK
<1>3. k \notin Completed
  BY DEF ContainerEnds, SafeInv, ComparedSound
<1> QED BY <1>1, <1>2, <1>3 DEF ContainerEnds, memory, SafeInv, ComparedSound, AtPlace, Synced, Working,
           NamesDone, Inside, Current, Completed

LEMMA WaitSafe ==
  ASSUME SafeInv, Wait
  PROVE  SafeInv' /\ Completed \subseteq Completed'
<1>1. CASE AttemptFails(Current)
  BY <1>1, AttemptFailsSafe DEF Wait, Inside
<1>2. CASE Current \notin live /\ Goto("check") /\ UNCHANGED <<memory, saved, live, compared, sessions>>
  <2>1. Completed' = Completed
    BY <1>2, CompletedSame
  <2> QED BY <1>2, <2>1 DEF Wait, Goto, memory, SafeInv, ComparedSound, TypeOK, AtPlace, Synced, Working,
             NamesDone, Inside, Current, Completed
<1> QED BY <1>1, <1>2 DEF Wait

\* only here is a replay recorded as complete: its result is good and its
\* container gone
LEMMA CheckSafe ==
  ASSUME SafeInv, Check
  PROVE  SafeInv' /\ Completed \subseteq Completed'
<1> DEFINE n == records[Current].attempts
<1>1. /\ day \in Day /\ at \in DOMAIN Plan[day] /\ Current \in Key /\ Current \notin live
      /\ saved.records[Current].status # "complete" /\ pc # "down"
  BY CurrentType DEF Check, SafeInv, ComparedSound, AtPlace, Inside, Working
<1>2. n \in 0..MaxAttempts
  BY <1>1 DEF SafeInv, ComparedSound, TypeOK, Record
<1>3. CASE AttemptFails(Current)
  BY <1>3, AttemptFailsSafe DEF Check, Inside
<1>4. CASE /\ output[Current] = "good" /\ Passed(Current)
           /\ Update(SetRecord(Current, "complete", n), dates, "running")
           /\ UNCHANGED <<live, compared, sessions>>
  <2>1. SetRecord(Current, "complete", n) \in [Key -> Record] /\ dates \in [Day -> DayRecord]
    BY <1>1, <1>2, SetRecordType DEF SafeInv, ComparedSound, TypeOK, Status
  <2>2. /\ saved'.records = SetRecord(Current, "complete", n) /\ records' = saved'.records
        /\ saved'.dates = dates /\ dates' = dates
        /\ records' \in [Key -> Record] /\ dates' \in [Day -> DayRecord]
        /\ saved' \in [records : [Key -> Record], dates : [Day -> DayRecord],
                       status : {"running", "blocked", "complete", "finished_with_failures"}]
    BY <1>4, <2>1, SavedType DEF Update
  <2>3. Completed' = Completed \cup {Current}
    BY <1>1, <1>2, <2>2, CompletedKept DEF Status
  <2>4. TypeOK'
    BY <1>1, <1>4, <2>2 DEF Check, Passed, Goto, SafeInv, ComparedSound, TypeOK
  <2>5. ComparedSound'
    BY <1>1, <1>4, <2>3, <2>4 DEF Check, SafeInv, ComparedSound
  <2>6. AtPlace' /\ Synced' /\ Working' /\ NamesDone'
    BY <1>1, <1>4, <2>2, <2>3 DEF Check, Passed, Goto, SafeInv, AtPlace, Synced, Working, Inside, NamesDone
  <2> QED BY <2>3, <2>5, <2>6 DEF SafeInv
<1>5. CASE /\ output[Current] = "invalid" /\ Blocked(SetRecord(Current, "invalid", n))
           /\ UNCHANGED <<live, compared, sessions>>
  <2>1. SetRecord(Current, "invalid", n) \in [Key -> Record] /\ "invalid" \in Status
    BY <1>1, <1>2, SetRecordType DEF SafeInv, ComparedSound, Status
  <2>2. saved'.records = SetRecord(Current, "invalid", n)
    BY <1>5 DEF Blocked
  <2>3. Completed' = Completed
    BY <1>1, <1>2, <2>1, <2>2, CompletedKept
  <2> QED BY <1>5, <2>1, <2>3, BlockedType, GoneInd DEF Check, Blocked, world, SafeInv, ComparedSound
<1> QED BY <1>3, <1>4, <1>5 DEF Check

\* the day is compared: what run names is complete
LEMMA AnalyseSafe ==
  ASSUME SafeInv, Analyse
  PROVE  SafeInv' /\ Completed \subseteq Completed'
<1>1. day \in Day
  BY DEF Analyse, SafeInv, AtPlace, Inside
<1>2. CASE /\ Goto("analysed") /\ Update(records, SetDate("complete"), "running")
           /\ compared' = [compared EXCEPT ![day] = names]
           /\ UNCHANGED <<day, at, names, errors, live, output, sessions>>
  <2>1. records \in [Key -> Record] /\ SetDate("complete") \in [Day -> DayRecord]
    BY <1>1, SetDateType DEF SafeInv, ComparedSound, TypeOK, DayRecord
  <2>2. /\ records' = records /\ saved'.records = records
        /\ dates' = SetDate("complete") /\ saved'.dates = SetDate("complete")
        /\ records' \in [Key -> Record] /\ dates' \in [Day -> DayRecord]
        /\ saved' \in [records : [Key -> Record], dates : [Day -> DayRecord],
                       status : {"running", "blocked", "complete", "finished_with_failures"}]
    BY <1>2, <2>1, SavedType DEF Update
  <2>3. Completed' = Completed
    BY <2>2, CompletedSame DEF Analyse, SafeInv, Synced
  <2>4. TypeOK'
    BY <1>1, <1>2, <2>2 DEF Goto, SafeInv, ComparedSound, TypeOK
  <2>5. \A d \in Day : compared'[d] \subseteq Completed
    BY <1>1, <1>2 DEF SafeInv, ComparedSound, NamesDone, TypeOK
  <2>6. ComparedSound'
    BY <1>2, <2>3, <2>4, <2>5 DEF SafeInv, ComparedSound
  <2> QED BY <1>2, <2>2, <2>3, <2>6 DEF Analyse, Goto, SafeInv, AtPlace, Synced, Working, NamesDone, Inside
<1>3. CASE /\ Goto("close") /\ dates' = SetDate("failed")
           /\ UNCHANGED <<day, at, names, errors, records, saved, world>>
  <2>1. Completed' = Completed
    BY <1>3, CompletedSame
  <2>2. dates' \in [Day -> DayRecord] /\ (\A d \in Day : d # day => dates'[d] = dates[d])
    BY <1>1, <1>3 DEF SetDate, SafeInv, ComparedSound, TypeOK, DayRecord
  <2>3. TypeOK'
    BY <1>3, <2>2 DEF Goto, world, SafeInv, ComparedSound, TypeOK
  <2> QED BY <1>3, <2>1, <2>2, <2>3 DEF Analyse, Goto, world, SafeInv, ComparedSound, AtPlace, Synced, Working,
             NamesDone, Inside
<1> QED BY <1>2, <1>3 DEF Analyse

LEMMA CorrectSafe ==
  ASSUME SafeInv, Correct
  PROVE  SafeInv' /\ Completed \subseteq Completed'
<1>1. Completed' = Completed
  BY CompletedSame DEF Correct
<1>2. dates' \in [Day -> DayRecord] /\ (\A d \in Day : d # day => dates'[d] = dates[d])
  BY DEF Correct, DayStatus, SetDate, SafeInv, ComparedSound, TypeOK, DayRecord
<1>3. TypeOK'
  BY <1>2 DEF Correct, Goto, world, SafeInv, ComparedSound, TypeOK
<1> QED BY <1>1, <1>2, <1>3 DEF Correct, Goto, world, SafeInv, ComparedSound, AtPlace, Synced, Working,
           NamesDone, Inside

LEMMA CloseDaySafe ==
  ASSUME SafeInv, CloseDay
  PROVE  SafeInv' /\ Completed \subseteq Completed'
<1>1. CASE Blocked(records)
  BY <1>1, BlockedInd DEF CloseDay
<1>2. CASE /\ Goto("day") /\ day' = day + 1 /\ at' = 1 /\ names' = {} /\ errors' = FALSE
           /\ Update(records, dates, "running")
  <2>1. records \in [Key -> Record] /\ dates \in [Day -> DayRecord]
    BY DEF SafeInv, ComparedSound, TypeOK
  <2>2. /\ saved'.records = records /\ records' = records /\ saved'.dates = dates' /\ dates' = dates
        /\ saved' \in [records : [Key -> Record], dates : [Day -> DayRecord],
                       status : {"running", "blocked", "complete", "finished_with_failures"}]
    BY <1>2, <2>1, SavedType DEF Update
  <2>3. Completed' = Completed
    BY <2>2, CompletedSame DEF CloseDay, SafeInv, Synced
  <2>4. day' \in 1..(Days + 1)
    BY <1>2, Bounds DEF CloseDay, SafeInv, AtPlace, Day
  <2>5. errors' \in BOOLEAN
    BY <1>2, Zenon
  <2>6. TypeOK'
    BY <1>2, <2>1, <2>2, <2>4, <2>5 DEF CloseDay, Goto, world, SafeInv, ComparedSound, TypeOK
  <2> QED BY <1>2, <2>2, <2>3, <2>6 DEF CloseDay, Goto, world, SafeInv, ComparedSound, AtPlace, Synced, Working,
             NamesDone, Inside
<1> QED BY <1>1, <1>2 DEF CloseDay

LEMMA FinishSafe ==
  ASSUME SafeInv, Finish
  PROVE  SafeInv' /\ Completed \subseteq Completed'
<1>1. records \in [Key -> Record] /\ dates \in [Day -> DayRecord] /\ FinalStatus \in {"complete", "finished_with_failures"}
  BY DEF SafeInv, ComparedSound, TypeOK, FinalStatus
<1>2. /\ saved'.records = records /\ records' = records /\ saved'.dates = dates' /\ dates' = dates
      /\ saved' \in [records : [Key -> Record], dates : [Day -> DayRecord],
                     status : {"running", "blocked", "complete", "finished_with_failures"}]
  BY <1>1, SavedType DEF Update, Finish
<1>3. Completed' = Completed
  BY <1>2, CompletedSame DEF Finish, SafeInv, Synced
<1>4. TypeOK'
  BY <1>1, <1>2 DEF Finish, Goto, world, SafeInv, ComparedSound, TypeOK
<1> QED BY <1>2, <1>3, <1>4 DEF Finish, Goto, world, SafeInv, ComparedSound, AtPlace, Synced, Working,
           NamesDone, Inside

LEMMA SummariseSafe ==
  ASSUME SafeInv, Summarise
  PROVE  SafeInv' /\ Completed \subseteq Completed'
<1>1. CASE Blocked(records)
  BY <1>1, BlockedInd DEF Summarise
<1>2. CASE Gone /\ UNCHANGED saved
  BY <1>2, CompletedSame, GoneInd DEF Summarise, SafeInv, ComparedSound, TypeOK
<1> QED BY <1>1, <1>2 DEF Summarise

LEMMA CrashSafe ==
  ASSUME SafeInv, Crash
  PROVE  SafeInv' /\ Completed \subseteq Completed'
  BY CompletedSame, GoneInd DEF Crash, SafeInv, ComparedSound, TypeOK, world

LEMMA IdleSafe ==
  ASSUME SafeInv, UNCHANGED vars
  PROVE  SafeInv' /\ Completed = Completed'
  BY DEF vars, memory, world, SafeInv, ComparedSound, TypeOK, AtPlace, Synced, Working, NamesDone,
         Inside, Current, Completed

LEMMA NextSafe ==
  ASSUME SafeInv, [Next]_vars
  PROVE  SafeInv' /\ Completed \subseteq Completed'
  BY LaunchSafe, PrepareSafe, BeginDaySafe, ReplaySafe, AttemptSafe, ClearSafe, StartContainerSafe, WaitSafe,
     CheckSafe, AnalyseSafe, CorrectSafe, CloseDaySafe, FinishSafe, SummariseSafe, CrashSafe,
     ContainerEndsSafe, IdleSafe DEF Next, Runner, Docker, Rest

\* the inductive invariant holds in every reachable state
THEOREM SafeInvariance == Spec => []SafeInv
<1>1. Init => SafeInv
  BY InitSafe
<1>2. SafeInv /\ [Next]_vars => SafeInv'
  BY NextSafe
<1> QED BY <1>1, <1>2, PTL DEF Spec

\* What a day's comparison is made of is recorded as complete, from a valid
\* initial state and final: no container can change it any more, not even one
\* that outlived a killed process (replay, analyse).
THEOREM ComparisonsSound == Spec => []ComparedSound
<1>1. SafeInv => ComparedSound
  BY DEF SafeInv
<1> QED BY <1>1, SafeInvariance, PTL

-----------------------------------------------------------------------------
(* Every step reports honestly.  This is where it matters that the process *)
(* is not killed between the two updates of a day with errors.             *)

LEMMA PlanType ==
  ASSUME NEW d \in Day
  PROVE  Plan[d] \in Seq(Key) /\ Len(Plan[d]) \in Nat /\ DOMAIN Plan[d] = 1..Len(Plan[d])
<1>1. Plan[d] \in Seq(Key)
  BY Zenon, SerialAssumption
<1> QED BY <1>1

\* what a repetition repeats comes earlier in its day
LEMMA RepeatedBefore ==
  ASSUME NEW d \in Day, NEW i \in DOMAIN Plan[d], Repeated[Plan[d][i]] # Plan[d][i]
  PROVE  \E j \in DOMAIN Plan[d] : j < i /\ Plan[d][j] = Repeated[Plan[d][i]]
<1>1. PICK j \in 1..(i - 1) : Plan[d][j] = Repeated[Plan[d][i]]
  BY Zenon, SerialAssumption
<1>2. j \in DOMAIN Plan[d] /\ j < i
  BY <1>1, PlanType
<1> QED BY <1>1, <1>2

LEMMA InitHonest == Init => HonestInv
  BY DEF Init, HonestInv, DayHonest, AllPassed, CloseHonest, WholeHonest, Inside

\* a step that ends the process or goes on between two days
LEMMA BetweenHonest ==
  ASSUME SafeInv, HonestInv, Completed \subseteq Completed', pc' \in {"down", "prepare", "day", "summary"},
         saved'.dates \in {saved.dates, dates}, pc = "down" => saved'.dates = saved.dates,
         pc \in {"analysed", "close"} /\ errors => pc = "close" /\ saved'.dates = dates,
         saved'.status # "complete" \/ saved'.status = saved.status
  PROVE  HonestInv'
<1>1. DayHonest'
  <2>1. CASE saved'.dates = saved.dates /\ ~(pc \in {"analysed", "close"} /\ errors)
    BY <2>1 DEF HonestInv, DayHonest
  <2>2. CASE pc = "close" /\ saved'.dates = dates
    <3>1. ASSUME NEW d \in Day, dates[d] = "complete"
          PROVE  InPlan(d) \subseteq Completed
      BY <2>2, <3>1 DEF SafeInv, Synced, HonestInv, DayHonest, CloseHonest
    <3> QED BY <2>2, <3>1 DEF DayHonest
  <2>3. CASE pc \notin {"down", "close"} /\ saved'.dates = dates /\ ~(pc = "analysed" /\ errors)
    BY <2>3 DEF SafeInv, Synced, HonestInv, DayHonest
  <2> QED BY <2>1, <2>2, <2>3
<1>2. AllPassed' /\ CloseHonest'
  BY DEF AllPassed, CloseHonest, Inside
<1>3. WholeHonest'
  BY DEF WholeHonest, HonestInv, Completed
<1> QED BY <1>1, <1>2, <1>3 DEF HonestInv

LEMMA LaunchHonest ==
  ASSUME SafeInv, HonestInv, Launch
  PROVE  HonestInv'
<1>1. Completed \subseteq Completed'
  BY LaunchSafe
<1>2. pc = "down" /\ pc' = "prepare" /\ saved' = saved
  BY DEF Launch, Goto
<1> QED BY <1>1, <1>2, BetweenHonest

LEMMA PrepareHonest ==
  ASSUME SafeInv, HonestInv, Prepare
  PROVE  HonestInv'
<1>1. Completed \subseteq Completed'
  BY PrepareSafe
<1>2. /\ pc = "prepare" /\ pc' \in {"day", "down"}
      /\ saved'.dates = dates /\ saved'.status \in {"running", "blocked"}
  BY DEF Prepare, Update, Blocked, Gone, Goto
<1> QED BY <1>1, <1>2, BetweenHonest

LEMMA BeginDayHonest ==
  ASSUME SafeInv, HonestInv, BeginDay
  PROVE  HonestInv'
<1>1. CASE pc' \in {"down", "day"}
  <2>1. Completed \subseteq Completed'
    BY BeginDaySafe
  <2>2. pc = "day" /\ saved'.dates \in {saved.dates, dates}
    BY <1>1 DEF BeginDay, Blocked
  <2>3. saved'.status = "blocked" \/ saved'.status = saved.status
    BY <1>1 DEF BeginDay, Blocked
  <2> QED BY <1>1, <2>1, <2>2, <2>3, BetweenHonest
<1>2. CASE /\ dates[day] # "complete" /\ Goto("replay") /\ at' = 1 /\ names' = {} /\ errors' = FALSE
           /\ UNCHANGED <<day, records, dates, saved>>
  <2>1. day \in Day /\ dates = saved.dates /\ Completed' = Completed
    BY <1>2, CompletedSame DEF BeginDay, SafeInv, ComparedSound, TypeOK, Synced, Day
  <2>2. AllPassed'
    BY <1>2, <2>1, PlanType DEF AllPassed
  <2> QED BY <1>2, <2>1, <2>2 DEF BeginDay, Goto, HonestInv, DayHonest, CloseHonest, WholeHonest
<1> QED BY <1>1, <1>2 DEF BeginDay, Blocked, Gone, Goto

\* an exception: the day has errors, or it failed
LEMMA RaisedHonest ==
  ASSUME SafeInv, HonestInv, pc \in {"replay", "attempt"}, NEW k \in Key, Raised(k), UNCHANGED world
  PROVE  HonestInv'
<1>1. Completed' = Completed /\ saved' = saved /\ day' = day /\ day \in Day
  BY CompletedSame DEF Raised, SafeInv, AtPlace, Inside
<1>2. CASE k \in Policy
  BY <1>1, <1>2 DEF Raised, Goto, HonestInv, DayHonest, AllPassed, CloseHonest, WholeHonest, Inside
<1>3. CASE k \notin Policy
  <2>1. dates'[day] = "failed"
    BY <1>1, <1>3 DEF Raised, SetDate, SafeInv, ComparedSound, TypeOK
  <2> QED BY <1>1, <1>3, <2>1 DEF Raised, Goto, HonestInv, DayHonest, AllPassed, CloseHonest, WholeHonest, Inside
<1> QED BY <1>2, <1>3

\* a replay is skipped only if what it repeats failed, so that the day has errors
LEMMA ReplayHonest ==
  ASSUME SafeInv, HonestInv, Replay
  PROVE  HonestInv'
<1>1. day \in Day /\ at \in DOMAIN Plan[day] /\ saved.dates[day] # "complete"
      /\ Current \in Key /\ Completed \subseteq Completed'
  BY ReplaySafe, CurrentType, PlanType DEF SafeInv, ComparedSound, AtPlace, Replay, HonestInv, AllPassed
<1>2. CASE /\ Repeated[Current] # Current /\ Repeated[Current] \notin names
           /\ at' = at + 1 /\ UNCHANGED <<pc, day, names, errors, records, dates, saved>>
  <2>1. errors
    <3>1. PICK j \in DOMAIN Plan[day] : j < at /\ Plan[day][j] = Repeated[Current]
      BY <1>1, <1>2, RepeatedBefore DEF Current
    <3> QED BY <1>2, <3>1 DEF HonestInv, AllPassed, Replay
  <2> QED BY <1>1, <1>2, <2>1 DEF Replay, HonestInv, DayHonest, AllPassed, CloseHonest, WholeHonest, Completed
<1>3. CASE Passed(Current) /\ UNCHANGED <<records, dates, saved>>
  <2>1. AllPassed'
    BY <1>1, <1>3, PlanType DEF Replay, Passed, HonestInv, AllPassed, Current
  <2> QED BY <1>1, <1>3, <2>1 DEF Replay, Passed, Goto, HonestInv, DayHonest, CloseHonest, WholeHonest, Completed
<1>4. CASE Blocked(records)
  BY <1>1, <1>4, BetweenHonest DEF Replay, Blocked, Gone, Goto
<1>5. CASE Goto("attempt") /\ UNCHANGED <<memory, saved>>
  BY <1>1, <1>5 DEF Replay, Goto, memory, HonestInv, DayHonest, AllPassed, CloseHonest, WholeHonest, Inside, Completed
<1>6. CASE Raised(Current)
  BY <1>1, <1>6, RaisedHonest DEF Replay
<1> QED BY <1>2, <1>3, <1>4, <1>5, <1>6 DEF Replay

\* a step of an attempt that settles nothing
LEMMA InsideHonest ==
  ASSUME SafeInv, HonestInv, pc \in Inside, pc' \in Inside, Completed \subseteq Completed',
         saved'.dates = saved.dates, saved'.status # "complete" \/ saved'.status = saved.status,
         UNCHANGED <<day, at, names, errors>>
  PROVE  HonestInv'
  BY DEF HonestInv, DayHonest, AllPassed, CloseHonest, WholeHonest, Inside, Completed

LEMMA AttemptHonest ==
  ASSUME SafeInv, HonestInv, Attempt
  PROVE  HonestInv'
<1>1. Current \in Key /\ Completed \subseteq Completed' /\ dates = saved.dates
  BY AttemptSafe, CurrentType DEF Attempt, SafeInv, ComparedSound, AtPlace, Inside, Synced
<1>2. CASE Raised(Current)
  BY <1>1, <1>2, RaisedHonest DEF Attempt
<1>3. CASE ~Raised(Current)
  <2>1. /\ pc' = "clear" /\ saved'.dates = dates /\ saved'.status = "running"
        /\ UNCHANGED <<day, at, names, errors>>
    BY <1>3 DEF Attempt, Update, Goto
  <2> QED BY <1>1, <2>1, InsideHonest DEF Attempt, Inside
<1> QED BY <1>2, <1>3

LEMMA AttemptFailsHonest ==
  ASSUME SafeInv, HonestInv, pc \in Inside, AttemptFails(Current), Completed \subseteq Completed'
  PROVE  HonestInv'
<1>1. /\ pc' \in Inside /\ saved'.dates = dates /\ saved'.status = "running"
      /\ UNCHANGED <<day, at, names, errors>>
  BY DEF AttemptFails, Update, Goto, Inside
<1>2. dates = saved.dates
  BY DEF SafeInv, Synced, Inside
<1> QED BY <1>1, <1>2, InsideHonest

LEMMA ClearHonest ==
  ASSUME SafeInv, HonestInv, Clear
  PROVE  HonestInv'
<1>1. Completed \subseteq Completed' /\ pc \in Inside
  BY ClearSafe DEF Clear, Inside
<1>2. CASE AttemptFails(Current)
  BY <1>1, <1>2, AttemptFailsHonest
<1>3. CASE ~AttemptFails(Current)
  <2>1. pc' \in Inside /\ saved' = saved /\ UNCHANGED <<day, at, names, errors>>
    BY <1>3 DEF Clear, Goto, memory, Inside
  <2> QED BY <1>1, <2>1, InsideHonest
<1> QED BY <1>2, <1>3

LEMMA StartContainerHonest ==
  ASSUME SafeInv, HonestInv, StartContainer
  PROVE  HonestInv'
<1>1. Completed \subseteq Completed'
  BY StartContainerSafe
<1>2. pc \in Inside /\ pc' \in Inside /\ saved' = saved /\ UNCHANGED <<day, at, names, errors>>
  BY DEF StartContainer, Goto, memory, Inside
<1> QED BY <1>1, <1>2, InsideHonest

LEMMA ContainerEndsHonest ==
  ASSUME SafeInv, HonestInv, NEW k \in Key, ContainerEnds(k)
  PROVE  HonestInv'
  BY CompletedSame DEF ContainerEnds, memory, HonestInv, DayHonest, AllPassed, CloseHonest, WholeHonest

LEMMA WaitHonest ==
  ASSUME SafeInv, HonestInv, Wait
  PROVE  HonestInv'
<1>1. Completed \subseteq Completed' /\ pc \in Inside
  BY WaitSafe DEF Wait, Inside
<1>2. CASE AttemptFails(Current)
  BY <1>1, <1>2, AttemptFailsHonest
<1>3. CASE ~AttemptFails(Current)
  <2>1. pc' \in Inside /\ saved' = saved /\ UNCHANGED <<day, at, names, errors>>
    BY <1>3 DEF Wait, Goto, memory, Inside
  <2> QED BY <1>1, <2>1, InsideHonest
<1> QED BY <1>2, <1>3

\* a replay that is recorded as complete is also named
LEMMA CheckHonest ==
  ASSUME SafeInv, HonestInv, Check
  PROVE  HonestInv'
<1>1. /\ Completed \subseteq Completed' /\ pc \in Inside /\ dates = saved.dates
      /\ day \in Day /\ at \in DOMAIN Plan[day]
  BY CheckSafe DEF Check, Inside, SafeInv, Synced, AtPlace
<1>2. CASE AttemptFails(Current)
  BY <1>1, <1>2, AttemptFailsHonest
<1>3. CASE \E n \in Nat : Blocked(SetRecord(Current, "invalid", n))
  <2>1. pc' = "down" /\ saved'.dates = dates /\ saved'.status = "blocked"
    BY <1>3 DEF Blocked, Gone, Goto
  <2> QED BY <1>1, <2>1, BetweenHonest DEF Inside
<1>4. CASE Passed(Current) /\ saved'.dates = dates /\ saved'.status = "running"
  <2>1. AllPassed'
    BY <1>1, <1>4, PlanType DEF Check, Passed, HonestInv, AllPassed, Current
  <2> QED BY <1>1, <1>4, <2>1 DEF Check, Passed, Goto, HonestInv, DayHonest, CloseHonest, WholeHonest
<1>5. records[Current].attempts \in Nat
  <2>1. Current \in Key
    BY <1>1, CurrentType DEF SafeInv, ComparedSound
  <2> QED BY <2>1, Bounds DEF SafeInv, ComparedSound, TypeOK, Record
<1> QED BY <1>2, <1>3, <1>4, <1>5 DEF Check, Update

\* a day without errors is complete in fact
LEMMA AnalyseHonest ==
  ASSUME SafeInv, HonestInv, Analyse
  PROVE  HonestInv'
<1>1. Completed \subseteq Completed' /\ day \in Day /\ dates = saved.dates
  BY AnalyseSafe DEF Analyse, SafeInv, AtPlace, Inside, Synced
<1>2. ~errors => InPlan(day) \subseteq Completed
  <2>1. \A i \in DOMAIN Plan[day] : i < at
    BY <1>1, PlanType DEF Analyse, SafeInv, ComparedSound, TypeOK
  <2> QED BY <2>1 DEF InPlan, HonestInv, AllPassed, Analyse, SafeInv, NamesDone
<1>3. CASE pc' = "analysed" /\ saved'.dates = SetDate("complete") /\ saved'.status = "running"
           /\ UNCHANGED <<day, errors>>
  <2>1. \A d \in Day : d # day => saved'.dates[d] = saved.dates[d]
    BY <1>1, <1>3 DEF SetDate, SafeInv, ComparedSound, TypeOK
  <2>2. DayHonest'
    BY <1>1, <1>2, <1>3, <2>1 DEF Analyse, HonestInv, DayHonest
  <2> QED BY <1>3, <2>2 DEF HonestInv, AllPassed, CloseHonest, WholeHonest, Inside
<1>4. CASE pc' = "close" /\ dates' = SetDate("failed") /\ saved' = saved /\ UNCHANGED <<day, errors>>
  <2>1. dates'[day] # "complete"
    BY <1>1, <1>4 DEF SetDate, SafeInv, ComparedSound, TypeOK
  <2> QED BY <1>1, <1>4, <2>1 DEF Analyse, HonestInv, DayHonest, AllPassed, CloseHonest, WholeHonest, Inside, Completed
<1> QED BY <1>3, <1>4 DEF Analyse, Update, Goto

LEMMA CorrectHonest ==
  ASSUME SafeInv, HonestInv, Correct
  PROVE  HonestInv'
<1>1. Completed' = Completed /\ day \in Day /\ dates = saved.dates
  BY CompletedSame DEF Correct, SafeInv, AtPlace, Synced
<1>2. CloseHonest'
  BY <1>1 DEF Correct, DayStatus, SetDate, CloseHonest, HonestInv, DayHonest, SafeInv, ComparedSound, TypeOK
<1> QED BY <1>1, <1>2 DEF Correct, Goto, HonestInv, DayHonest, AllPassed, WholeHonest, Inside

LEMMA CloseDayHonest ==
  ASSUME SafeInv, HonestInv, CloseDay
  PROVE  HonestInv'
<1>1. Completed \subseteq Completed'
  BY CloseDaySafe
<1>2. pc = "close" /\ pc' \in {"day", "down"} /\ saved'.dates = dates /\ saved'.status # "complete"
  BY DEF CloseDay, Blocked, Gone, Update, Goto
<1> QED BY <1>1, <1>2, BetweenHonest

\* the campaign is called complete only if every day is
LEMMA FinishHonest ==
  ASSUME SafeInv, HonestInv, Finish
  PROVE  HonestInv'
<1>1. Completed' = Completed /\ dates = saved.dates /\ saved'.dates = dates
  BY CompletedSame DEF Finish, Update, SafeInv, Synced
<1>2. WholeHonest'
  <2>1. SUFFICES ASSUME FinalStatus = "complete" PROVE Completed = Key
    BY <1>1 DEF WholeHonest, Finish, Update
  <2>2. \A d \in Day : InPlan(d) \subseteq Completed
    BY <1>1, <2>1 DEF FinalStatus, HonestInv, DayHonest, Finish
  <2>3. Key = UNION {InPlan(d) : d \in Day}
    BY Zenon, SerialAssumption
  <2> QED BY <2>2, <2>3 DEF Completed
<1> QED BY <1>1, <1>2 DEF Finish, Goto, HonestInv, DayHonest, AllPassed, CloseHonest, Inside

LEMMA SummariseHonest ==
  ASSUME SafeInv, HonestInv, Summarise
  PROVE  HonestInv'
<1>1. Completed \subseteq Completed'
  BY SummariseSafe
<1>2. pc = "summary" /\ pc' = "down" /\ saved'.dates \in {saved.dates, dates}
  BY DEF Summarise, Blocked, Gone, Goto
<1>3. saved'.status = "blocked" \/ saved'.status = saved.status
  BY DEF Summarise, Blocked
<1> QED BY <1>1, <1>2, <1>3, BetweenHonest

LEMMA CrashHonest ==
  ASSUME SafeInv, HonestInv, ~Between, Crash
  PROVE  HonestInv'
<1>1. Completed \subseteq Completed'
  BY CrashSafe
<1>2. pc # "down" /\ pc' = "down" /\ saved' = saved /\ ~(pc \in {"analysed", "close"} /\ errors)
  BY DEF Crash, Gone, Goto
<1> QED BY <1>1, <1>2, BetweenHonest

LEMMA IdleHonest ==
  ASSUME SafeInv, HonestInv, UNCHANGED vars
  PROVE  HonestInv'
  BY CompletedSame DEF vars, memory, HonestInv, DayHonest, AllPassed, CloseHonest, WholeHonest

LEMMA NextHonest ==
  ASSUME SafeInv, HonestInv, ~Between, [Next]_vars
  PROVE  HonestInv'
  BY LaunchHonest, PrepareHonest, BeginDayHonest, ReplayHonest, AttemptHonest, ClearHonest,
     StartContainerHonest, WaitHonest, CheckHonest, AnalyseHonest, CorrectHonest, CloseDayHonest,
     FinishHonest, SummariseHonest, CrashHonest, ContainerEndsHonest, IdleHonest
     DEF Next, Runner, Docker, Rest

\* A day the file calls complete has every replay of its plan, unless the process
\* is killed between the two updates of a day with errors, which ~Between rules
\* out (run, analyse).
THEOREM DaysHonest ==
  ASSUME ~Between
  PROVE  Spec => []DayHonest
<1>1. Init => SafeInv /\ HonestInv
  BY InitSafe, InitHonest
<1>2. SafeInv /\ HonestInv /\ [Next]_vars => (SafeInv /\ HonestInv)'
  BY NextSafe, NextHonest
<1>3. HonestInv => DayHonest
  BY DEF HonestInv
<1> QED BY <1>1, <1>2, <1>3, PTL DEF Spec

\* The file never loses a complete replay, over crashes and sessions; this does not
\* depend on when the process is killed (update).
THEOREM CompleteStays == Spec => [][Completed \subseteq Completed']_vars
<1>1. SafeInv /\ [Next]_vars => [Completed \subseteq Completed']_vars
  BY NextSafe
<1> QED BY <1>1, SafeInvariance, PTL DEF Spec

\* The runner implements CampaignPromise: each of its steps is a Save of the file, or
\* leaves alone which replays and whether the campaign are complete.
THEOREM PromiseKept ==
  ASSUME ~Between
  PROVE  Spec => KeepsPromise
<1>1. Init => SafeInv /\ HonestInv
  BY InitSafe, InitHonest
<1>2. SafeInv /\ HonestInv /\ [Next]_vars => (SafeInv /\ HonestInv)'
  BY NextSafe, NextHonest
<1>3. Init => Promise!Init
  BY DEF Init, Promise!Init, Completed, NoRecord
<1>4. SafeInv /\ HonestInv /\ [Next]_vars => [Promise!Save]_<<Completed, saved.status = "complete">>
  <2> SUFFICES ASSUME SafeInv, HonestInv, [Next]_vars
               PROVE  Promise!Save
    BY Zenon
  <2>1. Completed \subseteq Completed' /\ Completed' \subseteq Key
    BY NextSafe DEF Completed
  <2>2. (saved'.status = "complete") \in BOOLEAN
    BY Zenon
  <2>3. saved'.status = "complete" => Completed' = Key
    BY <1>2 DEF HonestInv, WholeHonest
  <2> QED BY <2>1, <2>2, <2>3, Zenon DEF Promise!Save
<1> QED BY <1>1, <1>2, <1>3, <1>4, PTL DEF Spec, KeepsPromise, Promise!Spec
=============================================================================
