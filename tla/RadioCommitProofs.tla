-------------------------- MODULE RadioCommitProofs --------------------------
(***************************************************************************)
(* That no change of the configuration is forgotten by the queue, the      *)
(* deferral and the pushes, for any rosters, keys and bounds: proved from  *)
(* the inductive invariant TypeOK /\ Owed, where Owed adds to RadioIsOwed  *)
(* what a push under way knows about the radio, and from BridgesAreOwed,   *)
(* which is inductive as it stands.                                        *)
(***************************************************************************)
EXTENDS RadioCommit, TLAPS

\* A push of its own is still to come.
Due == deferred \/ Waiting("commit")

\* RadioIsOwed; a push of something else than what is configured now has
\* another push behind it; and what was taken over is what was sent.
Owed ==
  /\ ~missed /\ radio # active => Due \/ post = active
  /\ ~missed /\ post \notin {NoPost, active} => Due
  /\ ~missed /\ taken /\ post # NoPost => radio = post

IInv == TypeOK /\ Owed

-----------------------------------------------------------------------------
\* Lemmas.

\* What is configured is never mistaken for no push at all.
LEMMA NoPostIsNoConfig == NoPost \notin Config
  BY RosterAssumption DEF NoPost, Config

\* Of the queue: a push added to it waits, and none that waited is lost.
LEMMA AppendWaits ==
  ASSUME queue \in Seq(JobKind), NEW k \in JobKind, queue' = Append(queue, k)
  PROVE  /\ queue' \in Seq(JobKind)
         /\ Waiting(k)'
         /\ \A j \in JobKind : Waiting(j) => Waiting(j)'
<1>1. queue' \in Seq(JobKind) /\ Len(queue') = Len(queue) + 1
  OBVIOUS
<1>2. queue'[Len(queue) + 1] = k
  OBVIOUS
<1>3. \A i \in DOMAIN queue : queue'[i] = queue[i] /\ i \in DOMAIN queue'
  OBVIOUS
<1>4. Len(queue) + 1 \in DOMAIN queue'
  BY <1>1
<1> QED
  BY <1>1, <1>2, <1>3, <1>4 DEF Waiting

\* Taking a push off the queue loses none of another kind.
LEMMA StartKeepsWaiting ==
  ASSUME queue \in Seq(JobKind), NEW k \in JobKind, StartJob(k)
  PROVE  /\ queue' \in Seq(JobKind)
         /\ \A j \in JobKind : j # k /\ Waiting(j) => Waiting(j)'
<1>1. queue # <<>> /\ queue' = Tail(queue) /\ Head(queue) = k
  BY DEF StartJob
<1>2. queue' \in Seq(JobKind) /\ Len(queue') = Len(queue) - 1 /\ Len(queue) > 0
  BY <1>1
<1>3. ASSUME NEW j \in JobKind, j # k, NEW i \in DOMAIN queue, queue[i] = j
      PROVE  Waiting(j)'
  <2>1. i # 1
    BY <1>1, <1>3
  <2>2. i - 1 \in DOMAIN queue' /\ queue'[i - 1] = queue[i]
    BY <2>1, <1>1, <1>2
  <2> QED
    BY <2>2, <1>3 DEF Waiting
<1> QED
  BY <1>2, <1>3 DEF Waiting

\* After commitConfiguration() a commit is due.
LEMMA CommitIsDue ==
  ASSUME TypeOK, Commit
  PROVE  Due' /\ queue' \in Seq(JobKind) /\ deferred' \in BOOLEAN
<1>1. CASE ShouldDefer
  BY <1>1 DEF Commit, Due, TypeOK
<1>2. CASE ~ShouldDefer
  <2>1. "commit" \in JobKind
    BY DEF JobKind
  <2>2. queue' = Append(queue, "commit") /\ deferred' = FALSE /\ queue \in Seq(JobKind)
    BY <1>2 DEF Commit, TypeOK
  <2> QED
    BY <2>1, <2>2, AppendWaits DEF Due
<1> QED
  BY <1>1, <1>2

\* A job without its half h is a job, or over.
LEMMA HalfDoneIsAJob ==
  ASSUME TypeOK, NEW h \in {"net", "push"}, job # NoJob, HalfDone(h)
  PROVE  job' = NoJob \/ job' \in [kind : {"commit", "syslog"}, net : Half, push : Half]
<1>1. job \in [kind : {"commit", "syslog"}, net : Half, push : Half]
  BY DEF TypeOK
<1>2. [job EXCEPT ![h] = "done"] \in [kind : {"commit", "syslog"}, net : Half, push : Half]
  BY <1>1 DEF Half
<1> QED
  BY <1>2 DEF HalfDone

\* The passes that are left when one is over.
LEMMA PassesLeft ==
  ASSUME TypeOK, NEW i \in DOMAIN passes
  PROVE  Without(i) \in Seq(Roster) /\ passes[i] \in Roster
<1>1. passes \in Seq(Roster) /\ i \in 1..Len(passes)
  BY DEF TypeOK
<1>2. SubSeq(passes, 1, i - 1) \in Seq(Roster)
  BY <1>1
<1>3. SubSeq(passes, i + 1, Len(passes)) \in Seq(Roster)
  BY <1>1
<1> QED
  BY <1>1, <1>2, <1>3 DEF Without

\* The bound on disturbances is kept.
LEMMA DisturbCounts ==
  ASSUME TypeOK, Disturb
  PROVE  disturbances' \in 0..MaxDisturbances
  BY BoundAssumption DEF TypeOK, Disturb

\* A step that changes nothing of what is owed.
LEMMA SameOwed ==
  ASSUME Owed, UNCHANGED <<active, deferred, queue, post, taken, radio, missed>>
  PROVE  Owed'
  BY DEF Owed, Due, Waiting

\* With a commit due, nothing but what a push took over can be wrong.
LEMMA DueOwes ==
  ASSUME Due', ~missed' /\ taken' /\ post' # NoPost => radio' = post'
  PROVE  Owed'
  BY DEF Owed

-----------------------------------------------------------------------------
\* The initial state and the steps.

\* A start owes nothing: the radio holds what is configured, as far as is known.
LEMMA InitIInv == Init => IInv
<1> SUFFICES ASSUME Init PROVE IInv
  OBVIOUS
<1>1. TypeOK
  <2>1. Nobody \in Bridges
    BY RosterAssumption DEF Bridges
  <2>2. 0 \in 0..MaxDisturbances
    BY BoundAssumption
  <2>3. queue \in Seq(JobKind) /\ passes \in Seq(Roster)
    BY DEF Init
  <2> QED
    BY <2>1, <2>2, <2>3 DEF Init, TypeOK
<1>2. Owed
  BY DEF Init, Owed
<1> QED
  BY <1>1, <1>2 DEF IInv

\* A change, and what makes a commit by itself.
LEMMA CommitSteps ==
  ASSUME IInv, Changes \/ RetryDeferred \/ CheckSync \/ BootCommit
  PROVE  IInv'
<1> USE DEF IInv
<1>1. CASE Changes
  <2>1. PICK c \in Config : ChangeActive(c)
    BY <1>1 DEF Changes
  <2>2. Due' /\ queue' \in Seq(JobKind) /\ deferred' \in BOOLEAN
    BY <2>1, CommitIsDue DEF ChangeActive
  <2>3. TypeOK'
    BY <2>1, <2>2, DisturbCounts DEF ChangeActive, TypeOK, Disturb, fieldVars, worldVars,
       historyVars
  <2>4. Owed'
    BY <2>1, <2>2, DueOwes DEF ChangeActive, Owed, fieldVars, historyVars
  <2> QED
    BY <2>3, <2>4
<1>2. CASE RetryDeferred \/ CheckSync
  <2>1. Due' /\ queue' \in Seq(JobKind) /\ deferred' \in BOOLEAN
    BY <1>2, CommitIsDue DEF RetryDeferred, CheckSync
  <2>2. TypeOK'
    BY <1>2, <2>1 DEF RetryDeferred, CheckSync, TypeOK, fieldVars, worldVars, historyVars
  <2>3. Owed'
    BY <1>2, <2>1, DueOwes DEF RetryDeferred, CheckSync, Owed, fieldVars, historyVars
  <2> QED
    BY <2>2, <2>3
<1>3. CASE BootCommit
  <2>1. CASE boot = "full" /\ active.who = Nobody
    <3>1. TypeOK'
      BY <1>3, <2>1 DEF BootCommit, TypeOK, fieldVars, historyVars
    <3>2. Owed'
      BY <1>3, <2>1, SameOwed DEF BootCommit, fieldVars, historyVars
    <3> QED
      BY <3>1, <3>2
  <2>2. CASE ~(boot = "full" /\ active.who = Nobody)
    <3>1. Due' /\ queue' \in Seq(JobKind) /\ deferred' \in BOOLEAN
      BY <1>3, <2>2, CommitIsDue DEF BootCommit
    <3>2. TypeOK'
      BY <1>3, <3>1 DEF BootCommit, TypeOK, fieldVars, historyVars
    <3>3. Owed'
      BY <1>3, <3>1, DueOwes DEF BootCommit, Owed, fieldVars, historyVars
    <3> QED
      BY <3>2, <3>3
  <2> QED
    BY <2>1, <2>2
<1> QED
  BY <1>1, <1>2, <1>3

\* A commit starts: it sends what is configured, or it is missed.
LEMMA CommitStarts ==
  ASSUME IInv, StartCommit \/ StartCommitUnreachable \/ StartCommitOverlapping
  PROVE  IInv'
<1> USE DEF IInv
<1>1. queue' \in Seq(JobKind)
  <2>1. StartJob("commit") /\ "commit" \in JobKind
    BY DEF StartCommit, StartCommitUnreachable, StartCommitOverlapping, JobKind
  <2> QED
    BY <2>1, StartKeepsWaiting DEF TypeOK
<1>2. passes' \in Seq(Roster) /\ overlapped' \in BOOLEAN
  <2>1. StartPass
    BY DEF StartCommit, StartCommitUnreachable, StartCommitOverlapping
  <2>2. active.who \in Roster /\ passes \in Seq(Roster) /\ overlapped \in BOOLEAN
    BY DEF TypeOK, Config
  <2>3. passes' \in Seq(Roster)
    BY <2>1, <2>2 DEF StartPass
  <2>4. overlapped' \in BOOLEAN
    BY <2>1 DEF StartPass
  <2> QED
    BY <2>3, <2>4
<1>3. CASE StartCommit
  <2>1. TypeOK'
    BY <1>1, <1>2, <1>3 DEF StartCommit, StartPost, TypeOK, Half, fieldVars, worldVars
  <2>2. Owed'
    BY <1>3 DEF StartCommit, StartPost, Owed, fieldVars
  <2> QED
    BY <2>1, <2>2
<1>4. CASE StartCommitUnreachable
  <2>1. TypeOK'
    BY <1>1, <1>2, <1>4 DEF StartCommitUnreachable, TypeOK, Half, fieldVars, worldVars
  <2>2. Owed'
    BY <1>4 DEF StartCommitUnreachable, Owed
  <2> QED
    BY <2>1, <2>2
<1>5. CASE StartCommitOverlapping
  <2>1. TypeOK'
    BY <1>1, <1>2, <1>5 DEF StartCommitOverlapping, TypeOK, fieldVars, worldVars
  <2>2. Owed'
    BY <1>5 DEF StartCommitOverlapping, Owed
  <2> QED
    BY <2>1, <2>2
<1> QED
  BY <1>3, <1>4, <1>5

\* A syslog push, or reading the bridges, takes no commit off the queue.
LEMMA OtherStarts ==
  ASSUME IInv, StartSyslog \/ ReadBridges
  PROVE  IInv'
<1> USE DEF IInv
<1>1. /\ queue' \in Seq(JobKind)
      /\ Waiting("commit") => Waiting("commit")'
  BY StartKeepsWaiting DEF StartSyslog, ReadBridges, JobKind, TypeOK
<1>2. CASE StartSyslog
  <2> DEFINE push == [kind |-> "syslog", net |-> "done", push |-> "run"]
  <2>11. push \in [kind : {"commit", "syslog"}, net : Half, push : Half]
    BY DEF Half
  <2>12. /\ job' \in {job, push} /\ post' \in {post, active} /\ taken' \in {taken, FALSE}
    BY <1>2 DEF StartSyslog, StartPost
  <2>13. UNCHANGED <<active, deferred, passes, radio, bridges, connected, up, busy, boot,
                     disturbances, missed, overlapped>>
    BY <1>2 DEF StartSyslog, fieldVars, worldVars, historyVars
  <2> HIDE DEF push
  <2>14. /\ job' = NoJob \/ job' \in [kind : {"commit", "syslog"}, net : Half, push : Half]
         /\ post' \in Config \cup {NoPost}
         /\ taken' \in BOOLEAN
    <3>1. TypeOK
      OBVIOUS
    <3> QED
      BY <2>11, <2>12, <3>1 DEF TypeOK
  <2>1. TypeOK'
    BY <1>1, <2>13, <2>14 DEF TypeOK
  <2>2. Due => Due'
    BY <1>1, <1>2 DEF Due, StartSyslog
  <2>3. Owed'
    BY <1>2, <2>2 DEF StartSyslog, StartPost, Owed, fieldVars, historyVars
  <2> QED
    BY <2>1, <2>3
<1>3. CASE ReadBridges
  <2>1. TypeOK'
    BY <1>1, <1>3 DEF ReadBridges, TypeOK, fieldVars, historyVars
  <2>2. Due => Due'
    BY <1>1, <1>3 DEF Due, ReadBridges
  <2>3. Owed'
    BY <1>3, <2>2 DEF ReadBridges, Owed, fieldVars, historyVars
  <2> QED
    BY <2>1, <2>3
<1> QED
  BY <1>2, <1>3

\* A network pass ends, well or not.
LEMMA PassEnds ==
  ASSUME IInv, NEW i \in DOMAIN passes, PassDone(i) \/ PassFails(i)
  PROVE  IInv'
<1> USE DEF IInv
<1>1. passes' \in Seq(Roster) /\ bridges' \in Bridges
  BY PassesLeft DEF PassDone, PassFails, Bridges
<1>2. job' = NoJob \/ job' \in [kind : {"commit", "syslog"}, net : Half, push : Half]
  <2>1. OwnPass(i) => job # NoJob
    BY DEF OwnPass, NoJob
  <2>2. CASE PassDone(i) /\ OwnPass(i)
    BY <2>1, <2>2, HalfDoneIsAJob DEF PassDone
  <2>3. CASE ~(PassDone(i) /\ OwnPass(i))
    BY <2>3 DEF PassDone, PassFails, TypeOK
  <2> QED
    BY <2>2, <2>3
<1>3. TypeOK'
  BY <1>1, <1>2, DisturbCounts DEF PassDone, PassFails, TypeOK, worldVars, historyVars
<1>4. Owed'
  BY SameOwed DEF PassDone, PassFails, historyVars
<1> QED
  BY <1>3, <1>4

\* The radio takes over what it was sent: of what it does not hold then, a
\* commit is due already.
LEMMA RadioTook ==
  ASSUME IInv, RadioTakes
  PROVE  IInv'
<1> USE DEF IInv
<1>1. TypeOK'
  BY DEF RadioTakes, TypeOK, worldVars
<1>2. Due' <=> Due
  BY DEF RadioTakes, Due, Waiting
<1>3. Owed'
  BY <1>2 DEF RadioTakes, Owed
<1> QED
  BY <1>1, <1>3

\* A push is over: the radio has what was sent, or the push was missed.
LEMMA PushEnds ==
  ASSUME IInv, PushDone \/ PushFails
  PROVE  IInv'
<1> USE DEF IInv
<1>1. job' = NoJob \/ job' \in [kind : {"commit", "syslog"}, net : Half, push : Half]
  <2>1. job.push = "run" => job # NoJob
    BY DEF NoJob
  <2>2. CASE PushDone /\ job.push = "run"
    BY <2>1, <2>2, HalfDoneIsAJob DEF PushDone
  <2>3. CASE ~(PushDone /\ job.push = "run")
    BY <2>3 DEF PushDone, PushFails, TypeOK
  <2> QED
    BY <2>2, <2>3
<1>5. /\ UNCHANGED <<active, deferred, queue, passes, radio, bridges, connected, up, busy, boot,
                   overlapped>>
      /\ post' \in {post, NoPost} /\ taken' \in BOOLEAN /\ missed' \in BOOLEAN
  BY DEF PushDone, PushFails, TypeOK, fieldVars, worldVars, historyVars
<1>6. disturbances' \in 0..MaxDisturbances
  BY DisturbCounts DEF PushDone, PushFails, TypeOK
<1>2. TypeOK'
  BY <1>1, <1>5, <1>6 DEF TypeOK
<1>3. Due' <=> Due
  BY DEF PushDone, PushFails, Due, Waiting
<1>4. Owed'
  BY <1>3 DEF PushDone, PushFails, Owed, TypeOK, fieldVars, historyVars
<1> QED
  BY <1>2, <1>4

\* A restart forgets what was due, and knows that it may have.
LEMMA Restarts ==
  ASSUME IInv, NEW kind \in {"graceful", "full"}, Restart(kind)
  PROVE  IInv'
<1> USE DEF IInv
<1>1. queue' \in Seq(JobKind) /\ bridges' \in Bridges
  <2>1. <<"read">> \in Seq(JobKind) /\ <<>> \in Seq(JobKind)
    BY DEF JobKind
  <2>2. queue' \in {<<"read">>, <<>>} /\ bridges' \in {Nobody, bridges, "torn"}
    BY DEF Restart
  <2>3. Nobody \in Bridges /\ "torn" \in Bridges /\ bridges \in Bridges
    BY RosterAssumption DEF TypeOK, Bridges
  <2> QED
    BY <2>1, <2>2, <2>3
<1>2. TypeOK'
  <2>1. disturbances' \in 0..MaxDisturbances
    BY DisturbCounts DEF Restart
  <2>2. passes' \in Seq(Roster)
    BY DEF Restart
  <2> QED
    BY <1>1, <2>1, <2>2 DEF Restart, TypeOK
<1>3. Owed'
  BY DEF Restart, Owed
<1> QED
  BY <1>2, <1>3

\* What the field does.
LEMMA FieldSteps ==
  ASSUME IInv, TelemetryUp \/ SyslogUp \/ RobotsGo \/ RobotsStop \/ RadioAnswers \/ RadioDrops
  PROVE  IInv'
<1> USE DEF IInv
<1>1. CASE TelemetryUp \/ RobotsGo \/ RobotsStop \/ RadioAnswers
  <2>1. UNCHANGED <<active, deferred, queue, job, passes, post, taken, radio, bridges, boot,
                    missed, overlapped>>
    BY <1>1 DEF TelemetryUp, RobotsGo, RobotsStop, RadioAnswers, pushVars, fieldVars,
       historyVars
  <2>2. connected' \in BOOLEAN /\ up' \in BOOLEAN /\ busy' \in BOOLEAN
    BY <1>1 DEF TelemetryUp, RobotsGo, RobotsStop, RadioAnswers, TypeOK
  <2>3. disturbances' \in 0..MaxDisturbances
    BY <1>1, DisturbCounts DEF TelemetryUp, RobotsGo, RobotsStop, RadioAnswers, TypeOK
  <2>4. TypeOK'
    BY <2>1, <2>2, <2>3 DEF TypeOK
  <2>5. Owed'
    BY <1>1, SameOwed DEF TelemetryUp, RobotsGo, RobotsStop, RadioAnswers, pushVars, fieldVars,
       historyVars
  <2> QED
    BY <2>4, <2>5
<1>2. CASE SyslogUp
  <2>1. queue' \in Seq(JobKind) /\ (Waiting("commit") => Waiting("commit")')
    BY <1>2, AppendWaits DEF SyslogUp, JobKind, TypeOK
  <2>2. TypeOK'
    BY <1>2, <2>1, DisturbCounts DEF SyslogUp, TypeOK, fieldVars, worldVars, historyVars
  <2>3. Due => Due'
    BY <1>2, <2>1 DEF SyslogUp, Due
  <2>4. Owed'
    BY <1>2, <2>3 DEF SyslogUp, Owed, fieldVars, historyVars
  <2> QED
    BY <2>2, <2>4
<1>3. CASE RadioDrops
  <2>1. [active EXCEPT !.who = Nobody] \in Config
    BY RosterAssumption DEF TypeOK, Config
  <2>5. /\ UNCHANGED <<active, deferred, queue, job, passes, post, taken, bridges, up, busy, boot,
                       overlapped>>
        /\ connected' \in BOOLEAN /\ missed' \in BOOLEAN
        /\ radio' \in {radio, [active EXCEPT !.who = Nobody]}
    BY <1>3 DEF RadioDrops, pushVars, TypeOK
  <2>6. disturbances' \in 0..MaxDisturbances
    BY <1>3, DisturbCounts DEF RadioDrops
  <2>2. TypeOK'
    <3>1. active' = active /\ radio' \in Config
      BY <2>1, <2>5 DEF TypeOK
    <3>2. /\ deferred' = deferred /\ queue' = queue /\ job' = job /\ passes' = passes
          /\ post' = post /\ taken' = taken /\ bridges' = bridges /\ up' = up /\ busy' = busy
          /\ boot' = boot /\ overlapped' = overlapped
      BY <2>5
    <3> QED
      BY <2>5, <2>6, <3>1, <3>2 DEF TypeOK
  <2>3. Due => Due'
    BY <1>3 DEF RadioDrops, Due, Waiting, pushVars
  <2>4. Owed'
    BY <1>3, <2>3 DEF RadioDrops, Owed, pushVars
  <2> QED
    BY <2>2, <2>4
<1> QED
  BY <1>1, <1>2, <1>3

\* Every step keeps the invariant.
LEMMA NextIInv == IInv /\ [Next]_vars => IInv'
<1> SUFFICES ASSUME IInv, [Next]_vars PROVE IInv'
  OBVIOUS
<1>1. CASE Changes \/ RetryDeferred \/ CheckSync \/ BootCommit
  BY <1>1, CommitSteps
<1>2. CASE StartCommit \/ StartCommitUnreachable \/ StartCommitOverlapping
  BY <1>2, CommitStarts
<1>3. CASE StartSyslog \/ ReadBridges
  BY <1>3, OtherStarts
<1>4. CASE \E i \in DOMAIN passes : PassDone(i) \/ PassFails(i)
  BY <1>4, PassEnds
<1>5. CASE RadioTakes
  BY <1>5, RadioTook
<1>6. CASE PushDone \/ PushFails
  BY <1>6, PushEnds
<1>7. CASE \E kind \in {"graceful", "full"} : Restart(kind)
  BY <1>7, Restarts
<1>8. CASE TelemetryUp \/ SyslogUp \/ RobotsGo \/ RobotsStop \/ RadioAnswers \/ RadioDrops
  BY <1>8, FieldSteps
<1>9. CASE UNCHANGED vars
  <2>1. TypeOK'
    BY <1>9 DEF IInv, TypeOK, vars
  <2>2. Owed'
    BY <1>9, SameOwed DEF IInv, vars
  <2> QED
    BY <2>1, <2>2 DEF IInv
<1> QED
  BY <1>1, <1>2, <1>3, <1>4, <1>5, <1>6, <1>7, <1>8, <1>9 DEF Next, Pushes, Starts, Faults

-----------------------------------------------------------------------------
\* The job at the head of the queue.

\* A pass that ends leaves the job's own running, when that is another one.
LEMMA AnotherPassEnds ==
  ASSUME TypeOK, NEW i \in DOMAIN passes, i # Len(passes)
  PROVE  Without(i) # <<>>
<1>1. passes \in Seq(Roster) /\ i \in 1..Len(passes)
  BY DEF TypeOK
<1>2. Len(SubSeq(passes, i + 1, Len(passes))) = Len(passes) - i
  BY <1>1
<1>3. SubSeq(passes, 1, i - 1) \in Seq(Roster) /\ SubSeq(passes, i + 1, Len(passes)) \in Seq(Roster)
  BY <1>1
<1>4. Len(Without(i)) > 0
  BY <1>1, <1>2, <1>3 DEF Without
<1> QED
  BY <1>4

\* A job that goes on without one half has the other running still.
LEMMA HalfDoneRuns ==
  ASSUME TypeOK, job # NoJob, NEW h \in {"net", "push"}, HalfDone(h),
         job.net = "run" => h = "net" \/ passes' # <<>>,
         job.push = "run" => h = "push" \/ post' # NoPost
  PROVE  JobIsRunning'
<1> DEFINE rest == [job EXCEPT ![h] = "done"]
<1>1. job \in [kind : {"commit", "syslog"}, net : Half, push : Half]
  BY DEF TypeOK
<1>2. /\ rest.net \in Half /\ rest.push \in Half
      /\ rest.net = "run" => h # "net" /\ job.net = "run"
      /\ rest.push = "run" => h # "push" /\ job.push = "run"
  BY <1>1 DEF Half
<1>3. job' = IF rest.net = "done" /\ rest.push = "done" THEN NoJob ELSE rest
  BY DEF HalfDone
<1>4. CASE job' = NoJob
  BY <1>4 DEF JobIsRunning, NoJob
<1>5. CASE job' = rest /\ ~(rest.net = "done" /\ rest.push = "done")
  BY <1>2, <1>5 DEF JobIsRunning, Half
<1> QED
  BY <1>3, <1>4, <1>5

\* Every step keeps a job's halves running.
LEMMA NextJobRuns == TypeOK /\ JobIsRunning /\ [Next]_vars => JobIsRunning'
<1> SUFFICES ASSUME TypeOK, JobIsRunning, [Next]_vars PROVE JobIsRunning'
  OBVIOUS
<1>1. CASE UNCHANGED <<job, passes, post>>
  BY <1>1 DEF JobIsRunning
<1>2. CASE StartCommit \/ StartCommitUnreachable
  <2>1. StartPass
    BY <1>2 DEF StartCommit, StartCommitUnreachable
  <2>2. passes' # <<>>
    BY <2>1 DEF StartPass, TypeOK
  <2>3. CASE StartCommit
    <3>1. post' # NoPost
      BY <2>3, NoPostIsNoConfig DEF StartCommit, StartPost, TypeOK
    <3> QED
      BY <2>2, <2>3, <3>1 DEF StartCommit, JobIsRunning
  <2>4. CASE StartCommitUnreachable
    BY <2>2, <2>4 DEF StartCommitUnreachable, JobIsRunning
  <2> QED
    BY <1>2, <2>3, <2>4
<1>3. CASE StartCommitOverlapping \/ ReadBridges
  BY <1>3 DEF StartCommitOverlapping, ReadBridges, StartJob, JobIsRunning, NoJob
<1>4. CASE StartSyslog
  <2>1. job = NoJob
    BY <1>4 DEF StartSyslog, StartJob
  <2>2. CASE UNCHANGED <<job, post, taken>>
    BY <2>1, <2>2 DEF JobIsRunning, NoJob
  <2>3. CASE StartPost /\ job' = [kind |-> "syslog", net |-> "done", push |-> "run"]
    BY <2>3, NoPostIsNoConfig DEF StartPost, JobIsRunning, TypeOK
  <2> QED
    BY <1>4, <2>2, <2>3 DEF StartSyslog
<1>5. ASSUME NEW i \in DOMAIN passes, PassDone(i) \/ PassFails(i)
      PROVE  JobIsRunning'
  <2>1. passes' = Without(i) /\ post' = post
    BY <1>5 DEF PassDone, PassFails
  <2>2. CASE PassDone(i) /\ OwnPass(i)
    <3>1. HalfDone("net") /\ job # NoJob
      BY <2>2 DEF PassDone, OwnPass, NoJob
    <3>2. job.push = "run" => post' # NoPost
      BY <2>1 DEF JobIsRunning
    <3> QED
      BY <3>1, <3>2, HalfDoneRuns
  <2>3. CASE PassFails(i) /\ OwnPass(i)
    BY <2>3 DEF PassFails, JobIsRunning, NoJob
  <2>4. CASE ~OwnPass(i)
    <3>1. job.net = "run" => passes' # <<>>
      BY <2>1, <2>4, AnotherPassEnds DEF OwnPass
    <3>2. job' = job
      BY <1>5, <2>4 DEF PassDone, PassFails
    <3> QED
      BY <2>1, <3>1, <3>2 DEF JobIsRunning
  <2> QED
    BY <1>5, <2>2, <2>3, <2>4
<1>6. CASE PushDone \/ PushFails
  <2>1. passes' = passes
    BY <1>6 DEF PushDone, PushFails
  <2>2. CASE PushDone /\ job.push = "run"
    <3>1. HalfDone("push") /\ job # NoJob
      BY <2>2 DEF PushDone, NoJob
    <3>2. job.net = "run" => passes' # <<>>
      BY <2>1 DEF JobIsRunning
    <3> QED
      BY <3>1, <3>2, HalfDoneRuns
  <2>3. CASE PushFails /\ job.push = "run"
    BY <2>3 DEF PushFails, JobIsRunning, NoJob
  <2>4. CASE job.push # "run"
    <3>1. job' = job
      BY <1>6, <2>4 DEF PushDone, PushFails
    <3> QED
      BY <2>1, <2>4, <3>1 DEF JobIsRunning
  <2> QED
    BY <1>6, <2>2, <2>3, <2>4
<1>7. CASE \E kind \in {"graceful", "full"} : Restart(kind)
  BY <1>7 DEF Restart, JobIsRunning, NoJob
<1>8. CASE RadioTakes
  BY <1>1, <1>8 DEF RadioTakes
<1>9. CASE \/ Changes \/ RetryDeferred \/ CheckSync \/ BootCommit
           \/ TelemetryUp \/ SyslogUp \/ RobotsGo \/ RobotsStop \/ RadioAnswers \/ RadioDrops
           \/ UNCHANGED vars
  <2>1. UNCHANGED <<job, passes, post>>
    BY <1>9 DEF Changes, ChangeActive, RetryDeferred, CheckSync, BootCommit, TelemetryUp, SyslogUp,
       RobotsGo, RobotsStop, RadioAnswers, RadioDrops, pushVars, vars
  <2> QED
    BY <1>1, <2>1
<1> QED
  BY <1>2, <1>3, <1>4, <1>5, <1>6, <1>7, <1>8, <1>9 DEF Next, Pushes, Starts, Faults

-----------------------------------------------------------------------------
\* The bridges.

\* A start has yet to look at the bridges, and they serve nobody.
LEMMA InitServes == Init => BridgesAreOwed
  BY DEF Init, BridgesAreOwed

\* A step that touches neither the bridges nor what is owed to them.
LEMMA SameServes ==
  ASSUME BridgesAreOwed,
         UNCHANGED <<active, deferred, queue, passes, bridges, boot, overlapped>>
  PROVE  BridgesAreOwed'
  BY DEF BridgesAreOwed, Waiting

\* The pass that was bringing up the configured robots ends, alone.
LEMMA LastPassEnds ==
  ASSUME NEW i \in DOMAIN passes, passes = <<active.who>>
  PROVE  passes[i] = active.who /\ Without(i) = <<>>
<1>1. i = 1 /\ Len(passes) = 1
  OBVIOUS
<1>2. SubSeq(passes, 1, 0) = <<>> /\ SubSeq(passes, 2, 1) = <<>>
  OBVIOUS
<1>3. i - 1 = 0 /\ i + 1 = 2
  BY <1>1
<1> QED
  BY <1>1, <1>2, <1>3 DEF Without

\* Every step leaves the bridges served, being served, or owed a pass.
LEMMA NextServes == TypeOK /\ BridgesAreOwed /\ [Next]_vars => BridgesAreOwed'
<1> SUFFICES ASSUME TypeOK, BridgesAreOwed, [Next]_vars PROVE BridgesAreOwed'
  OBVIOUS
<1>1. CASE Changes \/ RetryDeferred \/ CheckSync
  <2>1. Commit
    BY <1>1 DEF Changes, ChangeActive, RetryDeferred, CheckSync
  <2> QED
    BY <2>1, CommitIsDue DEF Due, BridgesAreOwed
<1>2. CASE BootCommit
  <2>1. CASE boot = "full" /\ active.who = Nobody
    BY <1>2, <2>1 DEF BootCommit, fieldVars, historyVars, BridgesAreOwed, Waiting
  <2>2. CASE ~(boot = "full" /\ active.who = Nobody)
    BY <1>2, <2>2, CommitIsDue DEF BootCommit, Due, BridgesAreOwed
  <2> QED
    BY <2>1, <2>2
<1>3. CASE StartCommit \/ StartCommitUnreachable \/ StartCommitOverlapping
  <2>1. StartPass /\ UNCHANGED active
    BY <1>3 DEF StartCommit, StartCommitUnreachable, StartCommitOverlapping
  <2>2. CASE passes = <<>>
    BY <2>1, <2>2 DEF StartPass, BridgesAreOwed
  <2>3. CASE passes # <<>>
    BY <2>1, <2>3 DEF StartPass, BridgesAreOwed
  <2> QED
    BY <2>2, <2>3
<1>4. CASE StartSyslog
  <2>1. \A j \in {"commit", "read"} : Waiting(j) => Waiting(j)'
    BY <1>4, StartKeepsWaiting DEF StartSyslog, JobKind, TypeOK
  <2> QED
    BY <1>4, <2>1 DEF StartSyslog, fieldVars, worldVars, historyVars, BridgesAreOwed
<1>5. CASE ReadBridges
  <2>1. Waiting("commit") => Waiting("commit")'
    BY <1>5, StartKeepsWaiting DEF ReadBridges, JobKind, TypeOK
  <2> QED
    BY <1>5, <2>1 DEF ReadBridges, fieldVars, historyVars, BridgesAreOwed
<1>6. ASSUME NEW i \in DOMAIN passes, PassDone(i) \/ PassFails(i) PROVE BridgesAreOwed'
  <2>1. /\ UNCHANGED <<active, deferred, queue, overlapped>>
        /\ passes' = Without(i) /\ bridges' \in {passes[i], "failed"}
    BY <1>6 DEF PassDone, PassFails, historyVars
  <2>2. CASE passes = <<active.who>>
    BY <2>1, <2>2, LastPassEnds DEF BridgesAreOwed
  <2>3. CASE passes # <<active.who>>
    <3>1. passes # <<>>
      OBVIOUS
    <3>2. overlapped \/ deferred \/ Waiting("commit")
      BY <2>3, <3>1 DEF BridgesAreOwed
    <3> QED
      BY <2>1, <3>2 DEF BridgesAreOwed, Waiting
  <2> QED
    BY <2>2, <2>3
<1>7. ASSUME NEW kind \in {"graceful", "full"}, Restart(kind) PROVE BridgesAreOwed'
  <2>1. passes' = <<>> /\ boot' = kind
    BY <1>7 DEF Restart
  <2>2. CASE kind = "graceful"
    <3>1. queue' = <<"read">>
      BY <1>7, <2>2 DEF Restart
    <3>2. Waiting("read")'
      BY <3>1 DEF Waiting
    <3> QED
      BY <2>1, <3>2 DEF BridgesAreOwed
  <2>3. CASE kind = "full"
    BY <1>7, <2>1, <2>3 DEF Restart, BridgesAreOwed
  <2> QED
    BY <2>2, <2>3
<1>8. CASE SyslogUp
  <2>1. \A j \in {"commit", "read"} : Waiting(j) => Waiting(j)'
    BY <1>8, AppendWaits DEF SyslogUp, JobKind, TypeOK
  <2> QED
    BY <1>8, <2>1 DEF SyslogUp, fieldVars, worldVars, historyVars, BridgesAreOwed
<1>9. CASE \/ RadioTakes \/ PushDone \/ PushFails \/ TelemetryUp \/ RobotsGo \/ RobotsStop
           \/ RadioAnswers \/ RadioDrops \/ UNCHANGED vars
  BY <1>9, SameServes DEF RadioTakes, PushDone, PushFails, TelemetryUp, RobotsGo, RobotsStop,
     RadioAnswers, RadioDrops, pushVars, fieldVars, worldVars, historyVars, vars
<1> QED
  BY <1>1, <1>2, <1>3, <1>4, <1>5, <1>6, <1>7, <1>8, <1>9 DEF Next, Pushes, Starts, Faults

-----------------------------------------------------------------------------
\* Every variable keeps to the values the code can give it, for any rosters,
\* keys and bounds.
THEOREM CommitTypes == Spec => []TypeOK
<1>1. IInv => TypeOK
  BY DEF IInv
<1> QED
  BY <1>1, InitIInv, NextIInv, PTL DEF Spec

\* No change is forgotten, keys included: unless a push was missed, a radio
\* that holds anything else than is configured is owed a push, or is being sent
\* it; and bridges that serve anybody else are owed a pass, restarts or not.
THEOREM NothingIsForgotten == Spec => []ChangesAreOwed
<1>1. IInv /\ BridgesAreOwed => ChangesAreOwed
  BY DEF IInv, Owed, Due, RadioIsOwed, ChangesAreOwed
<1> QED
  BY <1>1, InitIInv, NextIInv, CommitTypes, InitServes, NextServes, PTL DEF Spec

\* The queue never waits for a push that is not under way: a job's halves run
\* until they end it.
THEOREM JobsRun == Spec => []JobIsRunning
<1>1. Init => JobIsRunning
  BY DEF Init, JobIsRunning, NoJob
<1> QED
  BY <1>1, CommitTypes, NextJobRuns, PTL DEF Spec
=============================================================================
